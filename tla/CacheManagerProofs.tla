------------------------- MODULE CacheManagerProofs -------------------------
(* Proofs about CacheManager, for all keys, values and times to live: its    *)
(* types, and that it implements TtlMap although it removes what has expired *)
(* only when it comes across it.                                             *)
EXTENDS CacheManager, TLAPS

LEMMA ExpiryTyped ==
    ASSUME clock \in Nat, NEW ttl \in Ttls \cup {NoTtl}
    PROVE  /\ Expiry(ttl) \in {Never} \cup Nat
           /\ Expiry(ttl) # Never => clock <= Expiry(ttl)
  BY CacheAssumption DEF Expiry, EffectiveTtl, Never

(* A step other than set only removes entries. *)
LEMMA StoreStep ==
    ASSUME [Next]_vars
    PROVE  \/ store' \subseteq store
           \/ \E k \in Keys, v \in Values, ttl \in Ttls \cup {NoTtl} :
                Set(k, v, ttl)
  BY DEF Next, Get, Delete, Clear, CleanupExpired, Tick, vars

LEMMA SetTyped ==
    ASSUME TypeOK, NEW k \in Keys, NEW v \in Values,
           NEW ttl \in Ttls \cup {NoTtl}, Set(k, v, ttl)
    PROVE  /\ store' \subseteq Entries
           /\ \A e, f \in store' : e.key = f.key => e = f
  <1> DEFINE new == [key |-> k, value |-> v, expires |-> Expiry(ttl)]
  <1>1. new \in Entries /\ new.key = k
    BY ExpiryTyped DEF Entries, TypeOK
  <1>2. store' = (store \ Lookup(k)) \cup {new}
    BY DEF Set, Replaced
  <1>3. \A e \in store \ Lookup(k) : e.key # k
    BY DEF Lookup
  <1> HIDE DEF new
  <1> QED
    BY <1>1, <1>2, <1>3 DEF TypeOK

LEMMA TypeStep == TypeOK /\ [Next]_vars => TypeOK'
  <1> SUFFICES ASSUME TypeOK, [Next]_vars
               PROVE  TypeOK'
    OBVIOUS
  <1>1. /\ store' \subseteq Entries
        /\ \A e, f \in store' : e.key = f.key => e = f
    BY StoreStep, SetTyped DEF TypeOK
  <1>2. clock' \in 0..MaxClock
    BY CacheAssumption
    DEF TypeOK, Next, Set, Get, Delete, Clear, CleanupExpired, Tick, vars
  <1>3. answer' \in {Absent} \cup [value : Values]
    <2>1. ASSUME NEW k \in Keys, Get(k)
          PROVE  answer' \in {Absent} \cup [value : Values]
      BY <2>1 DEF Get, Lookup, Entries, TypeOK
    <2> QED
      BY <2>1 DEF TypeOK, Next, Set, Delete, Clear, CleanupExpired, Tick, vars
  <1> QED
    BY <1>1, <1>2, <1>3 DEF TypeOK

(* The cache is a dictionary whose entries have keys, values and expiries of *)
(* the right types, at every time.                                           *)
THEOREM TypeCorrect == Spec => []TypeOK
  <1>1. Init => TypeOK
    BY CacheAssumption DEF Init, TypeOK
  <1> QED
    BY <1>1, TypeStep, PTL DEF Spec

-----------------------------------------------------------------------------
(* What is visible, of a dictionary S at time c, under key k.                *)
Dated(e, c) == e.expires # Never /\ c > e.expires
Seen(S, c, k) ==
    IF \E e \in S : e.key = k /\ ~Dated(e, c)
    THEN LET e == CHOOSE e \in S : e.key = k /\ ~Dated(e, c)
         IN  [value |-> e.value, until |-> e.expires]
    ELSE Absent

Dictionary(S) ==
    S \subseteq Entries /\ \A e, f \in S : e.key = f.key => e = f

LEMMA SeenEntry ==
    ASSUME NEW S, Dictionary(S), NEW c, NEW e \in S
    PROVE  Seen(S, c, e.key) =
             IF Dated(e, c) THEN Absent
             ELSE [value |-> e.value, until |-> e.expires]
  BY DEF Dictionary, Seen

LEMMA SeenNothing ==
    ASSUME NEW S, NEW c, NEW k, \A e \in S : e.key # k
    PROVE  Seen(S, c, k) = Absent
  BY DEF Seen

MapSeen == \A k \in Keys : Visible(k) = Seen(store, clock, k)

LEMMA VisibleSeen == TypeOK => MapSeen
  <1> SUFFICES ASSUME TypeOK, NEW k \in Keys
               PROVE  Visible(k) = Seen(store, clock, k)
    BY DEF MapSeen
  <1>1. Dictionary(store)
    BY DEF TypeOK, Dictionary
  <1>2. CASE \E e \in store : e.key = k
    <2>1. PICK e \in store : e.key = k
      BY <1>2
    <2>2. Lookup(k) = {e}
      BY <1>1, <2>1 DEF Lookup, Dictionary
    <2>3. IsExpired(e) <=> Dated(e, clock)
      BY DEF IsExpired, Dated
    <2>4. Visible(k) = IF Dated(e, clock) THEN Absent
                       ELSE [value |-> e.value, until |-> e.expires]
      BY <2>2, <2>3 DEF Visible
    <2> QED
      BY <1>1, <2>1, <2>4, SeenEntry
  <1>3. CASE \A e \in store : e.key # k
    BY <1>3, SeenNothing DEF Visible, Lookup
  <1> QED
    BY <1>2, <1>3

(* A dictionary without some of its expired entries shows the same.          *)
LEMMA SameSeen ==
    ASSUME NEW S, Dictionary(S), NEW R \in SUBSET S, NEW c,
           \A e \in S \ R : Dated(e, c),
           NEW k
    PROVE  Seen(R, c, k) = Seen(S, c, k)
  <1>1. Dictionary(R)
    BY DEF Dictionary
  <1>2. CASE \E e \in R : e.key = k
    <2>1. PICK e \in R : e.key = k
      BY <1>2
    <2>2. Seen(R, c, e.key) = Seen(S, c, e.key)
      BY <1>1, SeenEntry
    <2> QED
      BY <2>1, <2>2
  <1>3. CASE \A e \in R : e.key # k
    <2>1. Seen(R, c, k) = Absent
      BY <1>3, SeenNothing
    <2>2. CASE \E e \in S : e.key = k
      <3>1. PICK e \in S : e.key = k
        BY <2>2
      <3>2. Dated(e, c)
        BY <1>3, <3>1
      <3>3. Seen(S, c, e.key) = Absent
        BY <3>2, SeenEntry
      <3> QED
        BY <2>1, <3>1, <3>3
    <2>3. CASE \A e \in S : e.key # k
      BY <2>1, <2>3, SeenNothing
    <2> QED
      BY <2>2, <2>3
  <1> QED
    BY <1>2, <1>3

(* Nothing under key k means nothing seen, and the other keys see the same.  *)
LEMMA OtherSeen ==
    ASSUME NEW S, Dictionary(S), NEW R, Dictionary(R), NEW c, NEW k, NEW j,
           j # k,
           \A e \in S \cup R : e.key # k => (e \in S <=> e \in R)
    PROVE  Seen(R, c, j) = Seen(S, c, j)
  <1>1. CASE \E e \in S : e.key = j
    <2>1. PICK e \in S : e.key = j
      BY <1>1
    <2>2. e \in R
      BY <2>1
    <2>3. Seen(R, c, e.key) = Seen(S, c, e.key)
      BY <2>2, SeenEntry
    <2> QED
      BY <2>1, <2>3
  <1>2. CASE \A e \in S : e.key # j
    <2>1. \A e \in R : e.key # j
      BY <1>2
    <2> QED
      BY <1>2, <2>1, SeenNothing
  <1> QED
    BY <1>1, <1>2

-----------------------------------------------------------------------------
(* Each operation on the dictionary is the same operation on the map.        *)
AbstractMap == [k \in Keys |-> Visible(k)]

LEMMA NotAbsent ==
    ASSUME NEW v, NEW u
    PROVE  [value |-> v, until |-> u] # Absent
  <1>1. "value" \in DOMAIN [value |-> v, until |-> u]
    OBVIOUS
  <1>2. "value" \notin DOMAIN Absent
    BY DEF Absent
  <1> QED
    BY <1>1, <1>2

LEMMA UntilExpiry ==
    ASSUME NEW ttl PROVE Promise!Until(ttl) = Expiry(ttl)
  BY DEF Promise!Until, Promise!Never, Expiry, EffectiveTtl, Never

LEMMA PromiseSet ==
    ASSUME TypeOK, TypeOK', MapSeen, MapSeen', NEW k \in Keys,
           NEW v \in Values, NEW ttl \in Ttls \cup {NoTtl}, Set(k, v, ttl)
    PROVE  Promise!Set(k, v, ttl)
  <1> DEFINE new == [key |-> k, value |-> v, expires |-> Expiry(ttl)]
  <1>1. /\ store' = (store \ Lookup(k)) \cup {new}
        /\ UNCHANGED <<clock, answer>>
    BY DEF Set, Replaced
  <1>2. Dictionary(store) /\ Dictionary(store')
    BY DEF TypeOK, Dictionary
  <1>3. new.key = k /\ new.value = v /\ new.expires = Expiry(ttl)
    OBVIOUS
  <1>4. ~Dated(new, clock)
    <2>1. clock \in Nat
      BY DEF TypeOK
    <2>2. /\ Expiry(ttl) \in {Never} \cup Nat
          /\ Expiry(ttl) # Never => clock <= Expiry(ttl)
      BY <2>1, ExpiryTyped
    <2> QED
      BY <1>3, <2>1, <2>2 DEF Dated, Never
  <1> HIDE DEF new
  <1>5. Seen(store', clock, k) = [value |-> v, until |-> Expiry(ttl)]
    <2>1. new \in store'
      BY <1>1
    <2>2. Seen(store', clock, new.key) =
            [value |-> new.value, until |-> new.expires]
      BY <1>2, <1>4, <2>1, SeenEntry
    <2> QED
      BY <1>3, <2>2
  <1>6. ASSUME NEW j \in Keys, j # k
        PROVE  Seen(store', clock, j) = Seen(store, clock, j)
    <2>1. \A e \in store \cup store' :
            e.key # k => (e \in store <=> e \in store')
      BY <1>1, <1>3 DEF Lookup
    <2> QED
      BY <1>2, <1>6, <2>1, OtherSeen
  <1>7. AbstractMap' =
          [AbstractMap EXCEPT ![k] = [value |-> v, until |-> Expiry(ttl)]]
    BY <1>1, <1>5, <1>6 DEF AbstractMap, MapSeen
  <1> QED
    BY <1>1, <1>7, UntilExpiry DEF Promise!Set, AbstractMap

(* Removing what has expired is not seen. *)
LEMMA RemovalUnseen ==
    ASSUME TypeOK, MapSeen, MapSeen', clock' = clock, store' \subseteq store,
           \A e \in store \ store' : IsExpired(e)
    PROVE  AbstractMap' = AbstractMap
  <1>1. Dictionary(store) /\ \A e \in store \ store' : Dated(e, clock)
    BY DEF TypeOK, Dictionary, IsExpired, Dated
  <1>2. \A k \in Keys : Seen(store', clock, k) = Seen(store, clock, k)
    BY <1>1, SameSeen
  <1> QED
    BY <1>2 DEF AbstractMap, MapSeen

LEMMA PromiseGet ==
    ASSUME TypeOK, MapSeen, MapSeen', NEW k \in Keys, Get(k)
    PROVE  Promise!Get(k)
  <1>1. AbstractMap' = AbstractMap
    BY RemovalUnseen DEF Get
  <1>2. Dictionary(store)
    BY DEF TypeOK, Dictionary
  <1>3. answer' = IF AbstractMap[k] = Absent THEN Absent
                  ELSE [value |-> AbstractMap[k].value]
    <2>1. CASE \E e \in Lookup(k) : ~IsExpired(e)
      <3>1. PICK e \in Lookup(k) : answer' = [value |-> e.value]
        BY <2>1 DEF Get
      <3>2. e \in store /\ e.key = k /\ ~Dated(e, clock)
        BY <1>2, <2>1, <3>1 DEF Lookup, Dictionary, IsExpired, Dated
      <3>3. Seen(store, clock, e.key) =
              [value |-> e.value, until |-> e.expires]
        BY <1>2, <3>2, SeenEntry
      <3>4. AbstractMap[k] = [value |-> e.value, until |-> e.expires]
        BY <3>2, <3>3 DEF AbstractMap, MapSeen
      <3> QED
        BY <3>1, <3>4, NotAbsent
    <2>2. CASE \A e \in Lookup(k) : IsExpired(e)
      BY <2>2 DEF Get, AbstractMap, Visible
    <2> QED
      BY <2>1, <2>2
  <1> QED
    BY <1>1, <1>3 DEF Promise!Get, AbstractMap, Get

LEMMA PromiseDelete ==
    ASSUME TypeOK, TypeOK', MapSeen, MapSeen', NEW k \in Keys, Delete(k)
    PROVE  Promise!Delete(k)
  <1>1. store' = store \ Lookup(k) /\ UNCHANGED <<clock, answer>>
    BY DEF Delete
  <1>2. Dictionary(store) /\ Dictionary(store')
    BY DEF TypeOK, Dictionary
  <1>3. Seen(store', clock, k) = Absent
    BY <1>1, SeenNothing DEF Lookup
  <1>4. ASSUME NEW j \in Keys, j # k
        PROVE  Seen(store', clock, j) = Seen(store, clock, j)
    <2>1. \A e \in store \cup store' :
            e.key # k => (e \in store <=> e \in store')
      BY <1>1 DEF Lookup
    <2> QED
      BY <1>2, <1>4, <2>1, OtherSeen
  <1>5. AbstractMap' = [AbstractMap EXCEPT ![k] = Absent]
    BY <1>1, <1>3, <1>4 DEF AbstractMap, MapSeen
  <1> QED
    BY <1>1, <1>5 DEF Promise!Delete, AbstractMap

LEMMA PromiseClear ==
    ASSUME MapSeen', Clear PROVE Promise!Clear
  <1>1. \A k \in Keys : Seen(store', clock', k) = Absent
    BY SeenNothing DEF Clear
  <1> QED
    BY <1>1 DEF Promise!Clear, Clear, MapSeen

LEMMA PromiseTick ==
    ASSUME TypeOK, MapSeen, MapSeen', Tick PROVE Promise!Tick
  <1>1. Dictionary(store) /\ clock \in Nat /\ clock' = clock + 1
        /\ UNCHANGED <<store, answer>>
    BY DEF TypeOK, Dictionary, Tick
  <1>2. ASSUME NEW k \in Keys
        PROVE  Seen(store, clock', k) =
                 IF Promise!Dead(AbstractMap[k]) THEN Absent
                 ELSE AbstractMap[k]
    <2>1. AbstractMap[k] = Seen(store, clock, k)
      BY DEF AbstractMap, MapSeen
    <2>2. CASE \E e \in store : e.key = k
      <3>1. PICK e \in store : e.key = k
        BY <2>2
      <3> DEFINE entry == [value |-> e.value, until |-> e.expires]
      <3>2. /\ Seen(store, clock, k) = IF Dated(e, clock) THEN Absent
                                       ELSE entry
            /\ Seen(store, clock', k) = IF Dated(e, clock') THEN Absent
                                        ELSE entry
        BY <1>1, <3>1, SeenEntry
      <3>3. e.expires \in {Never} \cup Nat
        BY <1>1, <3>1 DEF Dictionary, Entries
      <3>4. Dated(e, clock) => Dated(e, clock')
        BY <1>1, <3>3 DEF Dated
      <3>5. entry.until = e.expires /\ entry # Absent
        BY NotAbsent
      <3> HIDE DEF entry
      <3>6. Promise!Dead(entry) <=> Dated(e, clock')
        BY <3>5 DEF Promise!Dead, Promise!Never, Dated, Never
      <3>7. ~Promise!Dead(Absent)
        BY DEF Promise!Dead
      <3> QED
        BY <2>1, <3>2, <3>4, <3>6, <3>7
    <2>3. CASE \A e \in store : e.key # k
      <3>1. Seen(store, clock, k) = Absent /\ Seen(store, clock', k) = Absent
        BY <2>3, SeenNothing
      <3> QED
        BY <2>1, <3>1
    <2> QED
      BY <2>2, <2>3
  <1>3. AbstractMap' = [k \in Keys |-> IF Promise!Dead(AbstractMap[k])
                                      THEN Absent ELSE AbstractMap[k]]
    BY <1>1, <1>2 DEF AbstractMap, MapSeen
  <1> QED
    BY <1>1, <1>3 DEF Promise!Tick, AbstractMap

LEMMA PromiseStep ==
    ASSUME TypeOK, TypeOK', MapSeen, MapSeen', [Next]_vars
    PROVE  [Promise!Next]_(Promise!vars)
  <1>1. ASSUME NEW k \in Keys, NEW v \in Values,
               NEW ttl \in Ttls \cup {NoTtl}, Set(k, v, ttl)
        PROVE  Promise!Next
    BY <1>1, PromiseSet DEF Promise!Next
  <1>2. ASSUME NEW k \in Keys, Get(k)
        PROVE  Promise!Next
    BY <1>2, PromiseGet DEF Promise!Next
  <1>3. ASSUME NEW k \in Keys, Delete(k)
        PROVE  Promise!Next
    BY <1>3, PromiseDelete DEF Promise!Next
  <1>4. CASE Clear
    BY <1>4, PromiseClear DEF Promise!Next
  <1>5. CASE CleanupExpired
    <2>1. AbstractMap' = AbstractMap
      BY <1>5, RemovalUnseen DEF CleanupExpired
    <2> QED
      BY <1>5, <2>1 DEF CleanupExpired, Promise!vars, AbstractMap
  <1>6. CASE Tick
    BY <1>6, PromiseTick DEF Promise!Next
  <1>7. CASE UNCHANGED vars
    <2>1. AbstractMap' = AbstractMap
      BY <1>7 DEF AbstractMap, MapSeen, vars
    <2> QED
      BY <1>7, <2>1 DEF vars, Promise!vars, AbstractMap
  <1> QED
    BY <1>1, <1>2, <1>3, <1>4, <1>5, <1>6, <1>7 DEF Next

(* The cache implements the map whose entries vanish on time: for every set  *)
(* of keys, values and times to live no get and no order of cleanups can     *)
(* show that entries which have expired are removed late.                    *)
THEOREM PromiseKept == Spec => KeepsPromise
  <1>1. Init => Promise!Init
    BY SeenNothing DEF Init, Promise!Init, Visible, Lookup
  <1>2. TypeOK /\ TypeOK' /\ MapSeen /\ MapSeen' /\ [Next]_vars
          => [Promise!Next]_(Promise!vars)
    BY PromiseStep
  <1> QED
    BY <1>1, <1>2, TypeCorrect, VisibleSeen, PTL
    DEF Spec, KeepsPromise, Promise!Spec

=============================================================================
