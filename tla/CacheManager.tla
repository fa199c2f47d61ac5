---------------------------- MODULE CacheManager ----------------------------
(***************************************************************************)
(* The TTL cache of core/cache/manager.py: a dictionary whose entries are  *)
(* removed lazily, by the get that finds them expired or by a cleanup.     *)
(* The object is not shared between threads, so an operation is one step.  *)
(* get_json and set_json change the state through get and set only; the    *)
(* conversion they add to a value is left out.                             *)
(***************************************************************************)
EXTENDS Integers, FiniteSets

CONSTANTS
    Keys,
    Values,
    Ttls,       \* times to live, in ticks
    NoTtl,      \* a ttl of None: not a number of ticks
    DefaultTtl, \* _default_ttl
    MaxClock    \* bound: how long the clock runs

ASSUME CacheAssumption ==
    /\ Ttls \subseteq Nat
    /\ NoTtl \notin Nat
    /\ DefaultTtl \in Nat \cup {NoTtl}
    /\ MaxClock \in Nat

Never == -1

(* get returns None *)
Absent == [none |-> TRUE]

VARIABLES
    clock,      \* time.monotonic, in ticks
    store,      \* _store, as the set of its entries
    answer      \* what the latest get returned

vars == <<clock, store, answer>>

Entries == [key : Keys, value : Values, expires : {Never} \cup Nat]

-----------------------------------------------------------------------------
(* Mutant: an entry is gone at the tick its time is over. *)
ExpiredAt(e) == e.expires # Never /\ clock >= e.expires

IsExpired(e) == e.expires # Never /\ clock > e.expires

Lookup(k) == { e \in store : e.key = k }

Init ==
    /\ clock = 0
    /\ store = {}
    /\ answer = Absent

EffectiveTtl(ttl) == IF ttl # NoTtl THEN ttl ELSE DefaultTtl

Expiry(ttl) ==
    IF EffectiveTtl(ttl) = NoTtl THEN Never ELSE clock + EffectiveTtl(ttl)

(* Mutant: the entry that is there is only removed once it has expired. *)
ExpiredOf(k) == { e \in Lookup(k) : IsExpired(e) }

Replaced(k) == Lookup(k)

Set(k, value, ttl) ==
    /\ store' = (store \ Replaced(k)) \cup
                  {[key |-> k, value |-> value, expires |-> Expiry(ttl)]}
    /\ UNCHANGED <<clock, answer>>

(* get removes the entry it finds expired. *)
Get(k) ==
    /\ IF \E e \in Lookup(k) : ~IsExpired(e)
       THEN \E e \in Lookup(k) : answer' = [value |-> e.value]
       ELSE answer' = Absent
    /\ store' = { e \in store : e.key # k \/ ~IsExpired(e) }
    /\ UNCHANGED clock

Delete(k) ==
    /\ store' = store \ Lookup(k)
    /\ UNCHANGED <<clock, answer>>

Clear ==
    /\ store' = {}
    /\ UNCHANGED <<clock, answer>>

CleanupExpired ==
    /\ store' = { e \in store : ~IsExpired(e) }
    /\ UNCHANGED <<clock, answer>>

Tick ==
    /\ clock < MaxClock
    /\ clock' = clock + 1
    /\ UNCHANGED <<store, answer>>

Next ==
    \/ \E k \in Keys :
         \/ \E v \in Values, ttl \in Ttls \cup {NoTtl} : Set(k, v, ttl)
         \/ Get(k)
         \/ Delete(k)
    \/ Clear
    \/ CleanupExpired
    \/ Tick

Spec == Init /\ [][Next]_vars

-----------------------------------------------------------------------------
(* Type correctness: _store is a dictionary, with one entry per key, and no  *)
(* entry lives longer than its ttl.                                          *)
TypeOK ==
    /\ clock \in 0..MaxClock
    /\ store \subseteq Entries
    /\ \A e, f \in store : e.key = f.key => e = f
    /\ answer \in {Absent} \cup [value : Values]

(* The entries that get can still return, as the abstract map. *)
Visible(k) ==
    IF \E e \in Lookup(k) : ~IsExpired(e)
    THEN LET e == CHOOSE e \in Lookup(k) : ~IsExpired(e)
         IN  [value |-> e.value, until |-> e.expires]
    ELSE Absent

Promise == INSTANCE TtlMap WITH map <- [k \in Keys |-> Visible(k)]

(* The lazy removal is invisible: the cache is a map whose entries vanish    *)
(* when their time is over, whether or not anybody looked or cleaned up.     *)
KeepsPromise == Promise!Spec

=============================================================================
