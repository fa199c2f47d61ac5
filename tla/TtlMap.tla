------------------------------- MODULE TtlMap -------------------------------
(***************************************************************************)
(* What the cache promises (core/cache/manager.py): a map whose entries    *)
(* vanish by themselves when their time is over.  Here they do so at the   *)
(* tick that ends them; the implementation keeps them until somebody       *)
(* looks.                                                                  *)
(***************************************************************************)
EXTENDS Integers

CONSTANTS Keys, Values, Ttls, NoTtl, DefaultTtl, Absent

VARIABLES
    clock,  \* time.monotonic, in ticks
    map,    \* map[k]: a value and the last tick it lives, or Absent
    answer  \* what the latest get returned: a value, or Absent

vars == <<clock, map, answer>>

Never == -1

Init ==
    /\ clock = 0
    /\ map = [k \in Keys |-> Absent]
    /\ answer = Absent

Dead(entry) == entry # Absent /\ entry.until # Never /\ clock' > entry.until

Tick ==
    /\ clock' = clock + 1
    /\ map' = [k \in Keys |-> IF Dead(map[k]) THEN Absent ELSE map[k]]
    /\ UNCHANGED answer

Until(ttl) ==
    CASE ttl # NoTtl -> clock + ttl
      [] ttl = NoTtl /\ DefaultTtl # NoTtl -> clock + DefaultTtl
      [] OTHER -> Never

Set(k, v, ttl) ==
    /\ map' = [map EXCEPT ![k] = [value |-> v, until |-> Until(ttl)]]
    /\ UNCHANGED <<clock, answer>>

Get(k) ==
    /\ answer' = IF map[k] = Absent THEN Absent ELSE [value |-> map[k].value]
    /\ UNCHANGED <<clock, map>>

Delete(k) ==
    /\ map' = [map EXCEPT ![k] = Absent]
    /\ UNCHANGED <<clock, answer>>

Clear ==
    /\ map' = [k \in Keys |-> Absent]
    /\ UNCHANGED <<clock, answer>>

Next ==
    \/ Tick
    \/ Clear
    \/ \E k \in Keys :
         \/ Get(k)
         \/ Delete(k)
         \/ \E v \in Values, ttl \in Ttls \cup {NoTtl} : Set(k, v, ttl)

Spec == Init /\ [][Next]_vars

=============================================================================
