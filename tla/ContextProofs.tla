--------------------------- MODULE ContextProofs ---------------------------
(* Proofs about ContextBuilder and AnthropicRequest, for any window, budgets *)
(* and sizes and sessions of any length: which messages a context shows,     *)
(* that its summary fits, and what the Anthropic request makes of it.        *)
EXTENDS AnthropicRequest, FiniteSetTheorems, WellFoundedInduction, TLAPS

-----------------------------------------------------------------------------
(* Folds.  What they compute is shown for one prefix of the sequence after   *)
(* the other; a least number stands for induction.                           *)
LEMMA LeastNumber ==
    ASSUME NEW T \in SUBSET Nat, T # {}
    PROVE  \E n \in T : \A m \in T : n <= m
  <1> DEFINE Q == { 0..n : n \in T }
  <1>1. Q \subseteq FiniteSubsetsOf(Nat) /\ Q # {}
    <2>1. \A n \in Nat : IsFiniteSet(0..n) /\ 0..n \subseteq Nat
      BY FS_Interval
    <2> QED
      BY <2>1 DEF FiniteSubsetsOf
  <1>2. PICK x \in Q : \A y \in Q : <<y, x>> \notin StrictSubsetOrdering(Nat)
    <2> HIDE DEF Q
    <2> QED
      BY <1>1, FS_StrictSubsetOrderingWellFounded, WFMin
  <1>3. PICK n \in T : x = 0..n
    BY <1>2
  <1>4. ASSUME NEW m \in T, ~(n <= m) PROVE FALSE
    <2>1. 0..m \in Q
      OBVIOUS
    <2>2. n \in 0..n /\ n \notin 0..m
      BY <1>4
    <2>3. 0..m \subseteq 0..n /\ 0..m # 0..n /\ 0..n \subseteq Nat
      BY <2>2, <1>4
    <2> QED
      BY <2>1, <2>3, <1>2, <1>3 DEF StrictSubsetOrdering
  <1> QED
    BY <1>4

(* A set of numbers that holds 0, and n with n - 1, holds all up to N.       *)
LEMMA UpTo ==
    ASSUME NEW N \in Nat, NEW S, 0 \in S,
           \A n \in 1..N : n - 1 \in S => n \in S
    PROVE  0..N \subseteq S
  <1> DEFINE T == { n \in 0..N : n \notin S }
  <1> SUFFICES ASSUME T # {} PROVE FALSE
    OBVIOUS
  <1>1. PICK n \in T : \A m \in T : n <= m
    <2> T \in SUBSET Nat
      OBVIOUS
    <2> HIDE DEF T
    <2> QED
      BY LeastNumber
  <1>2. n \in 1..N /\ n - 1 \in 0..N /\ ~(n <= n - 1)
    OBVIOUS
  <1> QED
    BY <1>1, <1>2

LEMMA MaxOf ==
    ASSUME NEW N \in Nat, NEW s \in SUBSET (1..N), s # {}
    PROVE  Max(s) \in s /\ \A y \in s : Max(s) >= y
  <1> DEFINE T == { n \in Nat : \A y \in s : y <= n }
  <1>1. T \in SUBSET Nat /\ N \in T
    OBVIOUS
  <1>2. PICK n \in T : \A m \in T : n <= m
    <2> HIDE DEF T
    <2> QED
      BY <1>1, LeastNumber
  <1>3. n \in s
    <2> SUFFICES ASSUME n \notin s PROVE FALSE
      OBVIOUS
    <2>1. \A y \in s : y \in Nat \ {0} /\ y <= n /\ y # n
      OBVIOUS
    <2>2. n \in Nat
      OBVIOUS
    <2> HIDE DEF T
    <2>3. PICK y \in s : TRUE
      OBVIOUS
    <2>4. n - 1 \in Nat
      BY <2>1, <2>2, <2>3
    <2>5. \A z \in s : z <= n - 1
      BY <2>1, <2>2
    <2>6. n - 1 \in T
      BY <2>4, <2>5 DEF T
    <2>7. n <= n - 1
      BY <1>2, <2>6
    <2> QED
      BY <2>2, <2>7
  <1>4. \A y \in s : n >= y
    OBVIOUS
  <1> QED
    BY <1>3, <1>4 DEF Max

LEMMA MaxOfPrefix ==
    ASSUME NEW n \in Nat \ {0}
    PROVE  /\ 1..n # {} /\ Max(1..n) = n
           /\ (1..n) \ {Max(1..n)} = 1..n-1
  <1>1. n \in 1..n /\ 1..n \in SUBSET (1..n) /\ n \in Nat
    OBVIOUS
  <1>2. Max(1..n) \in 1..n /\ Max(1..n) >= n
    BY <1>1, MaxOf
  <1>3. Max(1..n) = n
    BY <1>2
  <1> QED
    BY <1>1, <1>3

(* The recursive functions that the folds define do exist.                   *)
FoldTable(g, n, b, h) ==
    \A s \in SUBSET (1..n) :
      g[s] = IF s = {} THEN b ELSE h[<<g[s \ {Max(s)}], Max(s)>>]

LEMMA FoldExists ==
    ASSUME NEW N \in Nat, NEW V, NEW b \in V, NEW h \in [V \X (1..N) -> V]
    PROVE  \E g \in [SUBSET (1..N) -> V] : FoldTable(g, N, b, h)
  <1> USE DEF FoldTable
  <1> DEFINE Fold(g, n) == g \in [SUBSET (1..n) -> V] /\ FoldTable(g, n, b, h)
             S == { n \in 0..N : \E g : Fold(g, n) }
  <1>1. 0 \in S
    <2>1. Fold([s \in SUBSET (1..0) |-> b], 0)
      OBVIOUS
    <2> HIDE DEF Fold
    <2> QED
      BY <2>1
  <1>2. ASSUME NEW n \in 1..N, n - 1 \in S PROVE n \in S
    <2>1. PICK g : Fold(g, n - 1)
      BY <1>2
    <2> DEFINE G == [s \in SUBSET (1..n) |->
                       IF n \notin s THEN g[s] ELSE h[<<g[s \ {n}], n>>]]
    <2>2. ASSUME NEW s \in SUBSET (1..n), n \notin s
          PROVE  s \in SUBSET (1..n-1)
      BY <2>2
    <2>3. ASSUME NEW s \in SUBSET (1..n), n \in s
          PROVE  s \ {n} \in SUBSET (1..n-1) /\ Max(s) = n
      <3>1. s \ {n} \in SUBSET (1..n-1)
        OBVIOUS
      <3>2. n \in Nat /\ s # {}
        BY <2>3
      <3>3. Max(s) \in s /\ Max(s) >= n
        BY <2>3, <3>2, MaxOf
      <3>4. Max(s) \in 1..n
        BY <3>3
      <3> QED
        BY <3>1, <3>3, <3>4
    <2>4. \A s \in SUBSET (1..n-1) : g[s] \in V
      BY <2>1
    <2>5. \A s \in SUBSET (1..n) : G[s] \in V
      BY <2>2, <2>3, <2>4
    <2>6. ASSUME NEW s \in SUBSET (1..n)
          PROVE  G[s] = IF s = {} THEN b
                        ELSE h[<<G[s \ {Max(s)}], Max(s)>>]
      <3>1. CASE n \in s
        <4>1. G[s \ {n}] = g[s \ {n}]
          BY <2>3, <3>1
        <4> QED
          BY <4>1, <3>1, <2>3
      <3>2. CASE s = {}
        <4>1. g[{}] = b
          BY <2>1
        <4> QED
          BY <4>1, <3>2
      <3>3. CASE n \notin s /\ s # {}
        <4>1. s \in SUBSET (1..n-1)
          BY <2>2, <3>3
        <4>2. s \ {Max(s)} \in SUBSET (1..n)
          OBVIOUS
        <4>3. G[s \ {Max(s)}] = g[s \ {Max(s)}] /\ G[s] = g[s]
          BY <4>2, <3>3
        <4>4. g[s] = h[<<g[s \ {Max(s)}], Max(s)>>]
          BY <4>1, <2>1, <3>3
        <4> QED
          BY <4>3, <4>4, <3>3
      <3> QED
        BY <3>1, <3>2, <3>3
    <2>7. Fold(G, n)
      <3> G \in [SUBSET (1..n) -> V]
        BY <2>5
      <3> HIDE DEF G
      <3> QED
        BY <2>6
    <2> HIDE DEF Fold
    <2> QED
      BY <2>7
  <1>3. N \in S
    <2> HIDE DEF S
    <2>1. 0..N \subseteq S
      BY <1>1, <1>2, UpTo
    <2> QED
      BY <2>1
  <1> QED
    BY <1>3

-----------------------------------------------------------------------------
(* The three folds of the model, as functions of the length of the prefix.   *)
LEMMA EntryParts ==
    ASSUME NEW ms \in Seq(Entry)
    PROVE  /\ Len(ms) \in Nat /\ DOMAIN ms = 1..Len(ms)
           /\ \A k \in 1..Len(ms) :
                /\ ms[k] \in Entry /\ ms[k].size \in Nat /\ ms[k].n \in Nat
                /\ ms[k].role \in {"system", "summary", "user",
                                   "assistant", "tool"}
  <1>1. \A k \in 1..Len(ms) : ms[k] \in Entry
    OBVIOUS
  <1>2. \A e \in Entry : /\ e.size \in Nat /\ e.n \in Nat
                         /\ e.role \in {"system", "summary", "user",
                                       "assistant", "tool"}
    BY DEF Entry
  <1> QED
    BY <1>1, <1>2

LEMMA TokensFold ==
    ASSUME NEW ms \in Seq(Entry)
    PROVE  \E t \in [0..Len(ms) -> Nat] :
             /\ t[0] = 0
             /\ \A k \in 1..Len(ms) : t[k] = t[k-1] + ms[k].size
             /\ Tokens(ms) = t[Len(ms)]
  <1> DEFINE N == Len(ms)
             h == [p \in Nat \X (1..N) |-> p[1] + ms[p[2]].size]
             Fold(g) == g = [s \in SUBSET (1..N) |->
                               IF s = {} THEN 0
                               ELSE g[s \ {Max(s)}] + ms[Max(s)].size]
             G == CHOOSE g : Fold(g)
  <1>1. N \in Nat /\ DOMAIN ms = 1..N /\ \A k \in 1..N : ms[k].size \in Nat
    BY EntryParts
  <1>2. h \in [Nat \X (1..N) -> Nat]
    BY <1>1
  <1>3. \E g : Fold(g)
    <2>1. PICK g \in [SUBSET (1..N) -> Nat] : FoldTable(g, N, 0, h)
      <3> HIDE DEF h
      <3> QED
        BY <1>1, <1>2, FoldExists
    <2>2. ASSUME NEW s \in SUBSET (1..N), s # {}
          PROVE  h[<<g[s \ {Max(s)}], Max(s)>>]
                   = g[s \ {Max(s)}] + ms[Max(s)].size
      <3>1. Max(s) \in 1..N
        BY <1>1, <2>2, MaxOf
      <3> QED
        BY <3>1, <2>1
    <2>3. Fold(g)
      <3> HIDE DEF h
      <3> QED
        BY <2>1, <2>2 DEF FoldTable
    <2> QED
      BY <2>3
  <1>4. Fold(G)
    <2> HIDE DEF Fold
    <2> QED
      BY <1>3
  <1>5. Tokens(ms) = G[1..N]
    BY <1>1 DEF Tokens, FoldLeft, MapThenFoldSet
  <1> DEFINE t == [k \in 0..N |-> G[1..k]]
  <1>6. t[0] = 0
    <2>1. 1..0 = {} /\ {} \in SUBSET (1..N) /\ 0 \in 0..N
      BY <1>1
    <2> HIDE DEF G
    <2> QED
      BY <1>4, <2>1
  <1>7. ASSUME NEW k \in 1..N PROVE t[k] = t[k-1] + ms[k].size
    <2>1. 1..k # {} /\ Max(1..k) = k /\ (1..k) \ {Max(1..k)} = 1..k-1
      <3> k \in Nat \ {0}
        BY <1>1
      <3> QED
        BY MaxOfPrefix
    <2>2. 1..k \in SUBSET (1..N) /\ k \in 0..N /\ k-1 \in 0..N
      BY <1>1
    <2> HIDE DEF G
    <2> QED
      BY <1>4, <2>1, <2>2
  <1>8. \A k \in 0..N : t[k] \in Nat
    <2> DEFINE S == { k \in 0..N : t[k] \in Nat }
    <2> HIDE DEF t
    <2>1. 0 \in S
      BY <1>1, <1>6
    <2>2. \A k \in 1..N : k - 1 \in S => k \in S
      BY <1>1, <1>7
    <2> HIDE DEF S
    <2>3. 0..N \subseteq S
      BY <1>1, <2>1, <2>2, UpTo
    <2> QED
      BY <2>3 DEF S
  <1>9. t \in [0..N -> Nat] /\ Tokens(ms) = t[N]
    <2> HIDE DEF G
    <2> QED
      BY <1>1, <1>5, <1>8
  <1> HIDE DEF t
  <1> QED
    BY <1>6, <1>7, <1>9

LEMMA TokensType ==
    ASSUME NEW ms \in Seq(Entry)
    PROVE  Tokens(ms) \in Nat
  BY TokensFold

(* A message in front adds its size. *)
LEMMA TokensInFront ==
    ASSUME NEW e \in Entry, NEW ms \in Seq(Entry)
    PROVE  Tokens(<<e>> \o ms) = e.size + Tokens(ms)
  <1> DEFINE all == <<e>> \o ms
             N == Len(ms)
  <1>1. /\ all \in Seq(Entry) /\ Len(all) = N + 1 /\ all[1] = e /\ N \in Nat
        /\ \A k \in 1..N : all[k+1] = ms[k]
        /\ e.size \in Nat /\ \A k \in 1..N : ms[k].size \in Nat
    <2>1. e.size \in Nat
      BY DEF Entry
    <2> QED
      BY <2>1, EntryParts
  <1> HIDE DEF all
  <1>2. PICK t \in [0..N -> Nat] :
          /\ t[0] = 0
          /\ \A k \in 1..N : t[k] = t[k-1] + ms[k].size
          /\ Tokens(ms) = t[N]
    BY TokensFold
  <1>3. PICK u \in [0..N+1 -> Nat] :
          /\ u[0] = 0
          /\ \A k \in 1..N+1 : u[k] = u[k-1] + all[k].size
          /\ Tokens(all) = u[N+1]
    BY <1>1, TokensFold
  <1> DEFINE S == { k \in 0..N : u[k+1] = e.size + t[k] }
  <1>4. 0 \in S
    <2>1. u[1] = u[1-1] + all[1].size
      BY <1>1, <1>3
    <2> QED
      BY <1>1, <1>2, <1>3, <2>1
  <1>5. ASSUME NEW k \in 1..N, k - 1 \in S PROVE k \in S
    <2>1. u[k+1] = u[(k+1)-1] + all[k+1].size
      BY <1>1, <1>3
    <2>2. (k+1)-1 = k /\ (k-1)+1 = k /\ k \in 0..N /\ k-1 \in 0..N
      BY <1>1
    <2>3. t[k] \in Nat /\ t[k-1] \in Nat /\ ms[k].size \in Nat
      BY <1>1, <1>2, <2>2
    <2> QED
      BY <1>1, <1>2, <1>5, <2>1, <2>2, <2>3
  <1>6. N \in S
    <2> HIDE DEF S
    <2>1. \A k \in 1..N : k - 1 \in S => k \in S
      BY <1>5
    <2>2. N \in Nat /\ 0 \in S
      BY <1>1, <1>4
    <2> HIDE DEF N
    <2>3. 0..N \subseteq S
      BY <2>1, <2>2, UpTo
    <2>4. N \in 0..N
      BY <2>2
    <2> QED
      BY <2>3, <2>4
  <1> QED
    BY <1>2, <1>3, <1>6 DEF all

LEMMA LastAndFront ==
    ASSUME NEW V, NEW s \in Seq(V), s # <<>>
    PROVE  /\ Len(s) \in Nat \ {0} /\ Last(s) = s[Len(s)] /\ Last(s) \in V
           /\ Front(s) \in Seq(V) /\ Len(Front(s)) = Len(s) - 1
           /\ \A i \in 1..Len(s)-1 : Front(s)[i] = s[i]
  BY DEF Last, Front

LEMMA AddToTurnsTyped ==
    ASSUME NEW turns \in Seq(Seq(Entry)), NEW m \in Entry
    PROVE  AddToTurns(turns, m) \in Seq(Seq(Entry))
  <1>1. CASE turns = <<>> \/ m.role = "user"
    BY <1>1 DEF AddToTurns
  <1>2. CASE turns # <<>> /\ m.role # "user"
    <2>1. Last(turns) \in Seq(Entry) /\ Front(turns) \in Seq(Seq(Entry))
      BY <1>2, LastAndFront
    <2> QED
      BY <1>2, <2>1 DEF AddToTurns
  <1> QED
    BY <1>1, <1>2

LEMMA TurnsFold ==
    ASSUME NEW ms \in Seq(Entry)
    PROVE  \E t \in [0..Len(ms) -> Seq(Seq(Entry))] :
             /\ t[0] = <<>>
             /\ \A k \in 1..Len(ms) : t[k] = AddToTurns(t[k-1], ms[k])
             /\ GroupByUser(ms) = t[Len(ms)]
  <1> DEFINE N == Len(ms)
             V == Seq(Seq(Entry))
             h == [p \in V \X (1..N) |-> AddToTurns(p[1], ms[p[2]])]
             Fold(g) == g = [s \in SUBSET (1..N) |->
                               IF s = {} THEN <<>>
                               ELSE AddToTurns(g[s \ {Max(s)}], ms[Max(s)])]
             G == CHOOSE g : Fold(g)
  <1>1. N \in Nat /\ DOMAIN ms = 1..N /\ \A k \in 1..N : ms[k] \in Entry
    BY EntryParts
  <1>2. <<>> \in V /\ \A v \in V, e \in Entry : AddToTurns(v, e) \in V
    BY AddToTurnsTyped
  <1> HIDE DEF V
  <1>3. \E g : Fold(g)
    <2>1. PICK g \in [SUBSET (1..N) -> V] : FoldTable(g, N, <<>>, h)
      <3>1. h \in [V \X (1..N) -> V]
        BY <1>1, <1>2
      <3> HIDE DEF h
      <3> QED
        BY <1>1, <1>2, <3>1, FoldExists
    <2>2. ASSUME NEW s \in SUBSET (1..N), s # {}
          PROVE  h[<<g[s \ {Max(s)}], Max(s)>>]
                   = AddToTurns(g[s \ {Max(s)}], ms[Max(s)])
      <3>1. Max(s) \in 1..N
        BY <1>1, <2>2, MaxOf
      <3> QED
        BY <3>1, <2>1
    <2>3. Fold(g)
      <3> HIDE DEF h
      <3> QED
        BY <2>1, <2>2 DEF FoldTable
    <2> QED
      BY <2>3
  <1>4. Fold(G)
    <2> HIDE DEF Fold
    <2> QED
      BY <1>3
  <1>5. GroupByUser(ms) = G[1..N]
    BY <1>1 DEF GroupByUser, FoldLeft, MapThenFoldSet
  <1> DEFINE t == [k \in 0..N |-> G[1..k]]
  <1>6. t[0] = <<>>
    <2>1. 1..0 = {} /\ {} \in SUBSET (1..N) /\ 0 \in 0..N
      BY <1>1
    <2> HIDE DEF G
    <2> QED
      BY <1>4, <2>1
  <1>7. ASSUME NEW k \in 1..N PROVE t[k] = AddToTurns(t[k-1], ms[k])
    <2>1. 1..k # {} /\ Max(1..k) = k /\ (1..k) \ {Max(1..k)} = 1..k-1
      <3> k \in Nat \ {0}
        BY <1>1
      <3> QED
        BY MaxOfPrefix
    <2>2. 1..k \in SUBSET (1..N) /\ k \in 0..N /\ k-1 \in 0..N
      BY <1>1
    <2> HIDE DEF G
    <2> QED
      BY <1>4, <2>1, <2>2
  <1>8. \A k \in 0..N : t[k] \in V
    <2> DEFINE S == { k \in 0..N : t[k] \in V }
    <2> HIDE DEF t
    <2>1. 0 \in S
      BY <1>1, <1>2, <1>6
    <2>2. \A k \in 1..N : k - 1 \in S => k \in S
      BY <1>1, <1>2, <1>7
    <2> HIDE DEF S
    <2>3. 0..N \subseteq S
      BY <1>1, <2>1, <2>2, UpTo
    <2> QED
      BY <2>3 DEF S
  <1>9. t \in [0..N -> V] /\ GroupByUser(ms) = t[N]
    <2> HIDE DEF G
    <2> QED
      BY <1>1, <1>5, <1>8
  <1> HIDE DEF t
  <1> QED
    BY <1>6, <1>7, <1>9 DEF V

-----------------------------------------------------------------------------
(* Parts of sequences. *)
LEMMA SubSeqOf ==
    ASSUME NEW V, NEW s, NEW m \in Int, NEW n \in Int,
           \A i \in m..n : s[i] \in V
    PROVE  /\ SubSeq(s, m, n) \in Seq(V)
           /\ Len(SubSeq(s, m, n)) = IF m <= n THEN n - m + 1 ELSE 0
           /\ \A i \in 1..n-m+1 : SubSeq(s, m, n)[i] = s[m+i-1]
  OBVIOUS

LEMMA SubSeqNone ==
    ASSUME NEW s, NEW m \in Int, NEW n \in Int, n < m
    PROVE  SubSeq(s, m, n) = <<>>
  OBVIOUS

LEMMA OneOf ==
    ASSUME NEW V, NEW s \in Seq(V), NEW k \in 1..Len(s)
    PROVE  SubSeq(s, k, k) = <<s[k]>>
  <1> DEFINE part == SubSeq(s, k, k)
  <1>1. \A i \in k..k : s[i] \in V
    OBVIOUS
  <1>2. part \in Seq(V) /\ Len(part) = 1 /\ part[1] = s[k]
    BY <1>1, SubSeqOf
  <1> HIDE DEF part
  <1>3. \A t \in Seq(V) : Len(t) = 1 /\ t[1] = s[k] => t = <<s[k]>>
    OBVIOUS
  <1>4. part = <<s[k]>>
    BY <1>2, <1>3
  <1> QED
    BY <1>4 DEF part

LEMMA OneMore ==
    ASSUME NEW V, NEW s \in Seq(V), NEW k \in 1..Len(s), NEW i \in 0..k-1
    PROVE  Append(SubSeq(s, i + 1, k - 1), s[k]) = SubSeq(s, i + 1, k)
  OBVIOUS

LEMMA JoinedCuts ==
    ASSUME NEW V, NEW s \in Seq(V), NEW i \in 0..Len(s),
           NEW j \in i..Len(s), NEW k \in j..Len(s)
    PROVE  SubSeq(s, i + 1, j) \o SubSeq(s, j + 1, k) = SubSeq(s, i + 1, k)
  OBVIOUS

-----------------------------------------------------------------------------
(* Sequences that are cut out of ms one after the other, at cut[0], cut[1]   *)
(* and so on, make up the whole when they are put together again.            *)
CutOutOf(ms, seqs, cut) ==
    /\ cut \in [0..Len(seqs) -> 0..Len(ms)]
    /\ \A j \in 1..Len(seqs) :
         cut[j-1] <= cut[j] /\ seqs[j] = SubSeq(ms, cut[j-1] + 1, cut[j])

LEMMA FlattenCuts ==
    ASSUME NEW V, NEW ms \in Seq(V), NEW seqs \in Seq(Seq(V)), NEW cut,
           CutOutOf(ms, seqs, cut)
    PROVE  /\ FlattenSeq(seqs) = SubSeq(ms, cut[0] + 1, cut[Len(seqs)])
           /\ cut[0] <= cut[Len(seqs)]
           /\ FlattenSeq(seqs) \in Seq(V)
  <1> DEFINE N == Len(seqs)
  <1>1. /\ N \in Nat /\ DOMAIN seqs = 1..N /\ Len(ms) \in Nat
        /\ DOMAIN ms = 1..Len(ms) /\ \A i \in 1..Len(ms) : ms[i] \in V
    OBVIOUS
  <1>2. /\ \A j \in 0..N : cut[j] \in 0..Len(ms)
        /\ \A j \in 1..N : /\ cut[j-1] <= cut[j]
                           /\ seqs[j] = SubSeq(ms, cut[j-1] + 1, cut[j])
    BY DEF CutOutOf
  <1>3. ASSUME NEW i \in 0..Len(ms), NEW j \in 0..Len(ms)
        PROVE  SubSeq(ms, i + 1, j) \in Seq(V)
    <2> \A k \in i+1..j : ms[k] \in V
      BY <1>1
    <2> QED
      BY SubSeqOf
  <1>4. 0..N \subseteq { j \in 0..N : cut[0] <= cut[j] }
    <2> DEFINE S == { j \in 0..N : cut[0] <= cut[j] }
    <2>1. 0 \in S
      BY <1>1, <1>2
    <2>2. \A j \in 1..N : j - 1 \in S => j \in S
      <3> SUFFICES ASSUME NEW j \in 1..N, j - 1 \in S PROVE j \in S
        OBVIOUS
      <3>1. j \in 0..N /\ j-1 \in 0..N /\ 0 \in 0..N
        BY <1>1
      <3>2. cut[j-1] <= cut[j] /\ cut[0] <= cut[j-1]
        BY <1>2
      <3>3. cut[0] \in Int /\ cut[j-1] \in Int /\ cut[j] \in Int
        BY <1>1, <1>2, <3>1
      <3> QED
        BY <3>1, <3>2, <3>3
    <2> HIDE DEF S, N
    <2>3. 0..N \subseteq S
      BY <1>1, <2>1, <2>2, UpTo
    <2> QED
      BY <2>3 DEF S
  <1>5. cut[0] <= cut[N]
    BY <1>1, <1>4
  <1>6. CASE N = 0
    <2>1. seqs = <<>>
      BY <1>6
    <2>2. SubSeq(ms, cut[0] + 1, cut[N]) = <<>>
      <3>1. cut[0] \in Int /\ cut[0] < cut[0] + 1 /\ cut[0] + 1 \in Int
        BY <1>1, <1>2
      <3> QED
        BY <1>6, <3>1, SubSeqNone
    <2>3. FlattenSeq(seqs) = <<>>
      BY <1>6, <2>1 DEF FlattenSeq
    <2>4. <<>> \in Seq(V)
      OBVIOUS
    <2> QED
      BY <1>5, <2>2, <2>3, <2>4
  <1>7. CASE N # 0
    <2> DEFINE W == [i \in 1..N |-> SubSeq(ms, cut[0] + 1, cut[i])]
               Flat(f) == f = [i \in 1..N |-> IF i = 1 THEN seqs[i]
                                             ELSE f[i-1] \o seqs[i]]
               F == CHOOSE f : Flat(f)
    <2>1. Flat(W)
      <3>1. ASSUME NEW i \in 1..N
            PROVE  W[i] = IF i = 1 THEN seqs[i] ELSE W[i-1] \o seqs[i]
        <4>1. CASE i = 1
          <5>1. seqs[i] = SubSeq(ms, cut[i-1] + 1, cut[i]) /\ i - 1 = 0
            BY <1>2, <4>1
          <5> QED
            BY <4>1, <5>1
        <4>2. CASE i # 1
          <5>1. i-1 \in 1..N /\ i-1 \in 0..N /\ i \in 0..N /\ 0 \in 0..N
            BY <1>1, <4>2
          <5>2. cut[0] <= cut[i-1] /\ cut[i-1] <= cut[i]
            BY <1>2, <1>4, <5>1
          <5>3. SubSeq(ms, cut[0] + 1, cut[i-1])
                  \o SubSeq(ms, cut[i-1] + 1, cut[i])
                = SubSeq(ms, cut[0] + 1, cut[i])
            <6>1. /\ cut[0] \in 0..Len(ms) /\ cut[i-1] \in cut[0]..Len(ms)
                  /\ cut[i] \in cut[i-1]..Len(ms)
              BY <1>1, <1>2, <5>1, <5>2
            <6> QED
              BY <6>1, JoinedCuts
          <5> QED
            BY <1>2, <4>2, <5>1, <5>3
        <4> QED
          BY <4>1, <4>2
      <3> HIDE DEF W
      <3> W = [i \in 1..N |-> W[i]]
        BY DEF W
      <3> QED
        BY <3>1
    <2>2. Flat(F)
      <3> HIDE DEF Flat, W
      <3> QED
        BY <2>1
    <2>3. 0..N \subseteq { i \in 0..N : i = 0 \/ F[i] = W[i] }
      <3> DEFINE S == { i \in 0..N : i = 0 \/ F[i] = W[i] }
      <3> HIDE DEF F, W
      <3>1. \A i \in 1..N : i - 1 \in S => i \in S
        <4> SUFFICES ASSUME NEW i \in 1..N, i - 1 \in S PROVE i \in S
          OBVIOUS
        <4>1. i - 1 = 0 <=> i = 1
          BY <1>1
        <4>2. F[i] = IF i = 1 THEN seqs[i] ELSE F[i-1] \o seqs[i]
          BY <2>2
        <4>3. W[i] = IF i = 1 THEN seqs[i] ELSE W[i-1] \o seqs[i]
          BY <2>1
        <4> QED
          BY <1>1, <4>1, <4>2, <4>3
      <3>2. 0 \in S
        BY <1>1
      <3> HIDE DEF S, N
      <3>3. 0..N \subseteq S
        BY <1>1, <3>1, <3>2, UpTo
      <3> QED
        BY <3>3 DEF S
    <2>4. F[N] = W[N]
      <3> HIDE DEF F, W
      <3> QED
        BY <1>1, <1>7, <2>3
    <2>5. FlattenSeq(seqs) = F[N]
      BY <1>7 DEF FlattenSeq
    <2>6. W[N] = SubSeq(ms, cut[0] + 1, cut[N]) /\ W[N] \in Seq(V)
      <3>1. N \in 1..N /\ N \in 0..N /\ 0 \in 0..N
        BY <1>1, <1>7
      <3>2. W[N] = SubSeq(ms, cut[0] + 1, cut[N])
        BY <3>1
      <3> QED
        BY <1>2, <1>3, <3>1, <3>2
    <2> QED
      BY <1>5, <2>4, <2>5, <2>6
  <1> QED
    BY <1>6, <1>7

-----------------------------------------------------------------------------
(* The turns of ms are cut out of it; all but the first begin at a user's    *)
(* message, which stands nowhere else in a turn.                             *)
TurnsOf(ms, k, turns, cut) ==
    /\ CutOutOf(ms, turns, cut)
    /\ cut[0] = 0 /\ cut[Len(turns)] = k
    /\ \A j \in 1..Len(turns) :
         /\ cut[j-1] < cut[j]
         /\ j > 1 => ms[cut[j-1]+1].role = "user"
         /\ \A i \in cut[j-1]+2..cut[j] : ms[i].role # "user"

LEMMA NextMessage ==
    ASSUME NEW ms \in Seq(Entry), NEW k \in 1..Len(ms),
           NEW turns \in Seq(Seq(Entry)), NEW cut, TurnsOf(ms, k - 1, turns, cut)
    PROVE  \E next : TurnsOf(ms, k, AddToTurns(turns, ms[k]), next)
  <1> DEFINE n == Len(turns)
             L == Len(ms)
  <1>1. /\ n \in Nat /\ L \in Nat /\ DOMAIN ms = 1..L /\ ms[k] \in Entry
        /\ k \in 1..L
    BY EntryParts
  <1>2. /\ cut \in [0..n -> 0..L] /\ cut[0] = 0 /\ cut[n] = k - 1
        /\ \A j \in 1..n :
             /\ cut[j-1] < cut[j]
             /\ turns[j] = SubSeq(ms, cut[j-1] + 1, cut[j])
             /\ j > 1 => ms[cut[j-1]+1].role = "user"
             /\ \A i \in cut[j-1]+2..cut[j] : ms[i].role # "user"
    BY DEF TurnsOf, CutOutOf
  <1>3. CASE turns = <<>> \/ ms[k].role = "user"
    <2> DEFINE new == Append(turns, <<ms[k]>>)
               next == [j \in 0..n+1 |-> IF j <= n THEN cut[j] ELSE k]
    <2>1. AddToTurns(turns, ms[k]) = new
      BY <1>3 DEF AddToTurns
    <2>2. /\ Len(new) = n + 1 /\ \A j \in 1..n : new[j] = turns[j]
          /\ new[n+1] = <<ms[k]>>
      BY <1>1
    <2>3. next \in [0..n+1 -> 0..L]
      BY <1>1, <1>2
    <2>4. /\ next[n+1] = k /\ \A j \in 0..n : next[j] = cut[j]
      BY <1>1
    <2>5. SubSeq(ms, k, k) = <<ms[k]>>
      BY OneOf
    <2> HIDE DEF new, next
    <2>6. ASSUME NEW j \in 1..n+1
          PROVE  /\ next[j-1] < next[j]
                 /\ new[j] = SubSeq(ms, next[j-1] + 1, next[j])
                 /\ j > 1 => ms[next[j-1]+1].role = "user"
                 /\ \A i \in next[j-1]+2..next[j] : ms[i].role # "user"
      <3>1. CASE j <= n
        <4>1. j \in 1..n /\ j \in 0..n /\ j-1 \in 0..n
          BY <1>1, <3>1
        <4> QED
          BY <1>2, <2>2, <2>4, <4>1
      <3>2. CASE j = n + 1
        <4>1. n \in 0..n /\ j-1 = n
          BY <1>1, <3>2
        <4>2. next[j-1] = k - 1 /\ next[j] = k /\ new[j] = <<ms[k]>>
          BY <1>2, <2>2, <2>4, <3>2, <4>1
        <4>3. (k-1)+1 = k /\ k - 1 < k /\ (k-1)+2..k = {}
          BY <1>1
        <4>4. j > 1 => ms[k].role = "user"
          BY <1>1, <1>3, <3>2
        <4> QED
          BY <2>5, <4>2, <4>3, <4>4
      <3> QED
        BY <1>1, <3>1, <3>2
    <2>7. next[0] = 0
      BY <1>1, <1>2, <2>4
    <2>8. \A j \in 0..n+1 : next[j] \in 0..L
      BY <2>3
    <2>9. \A j \in 1..n+1 : next[j-1] <= next[j]
      <3> SUFFICES ASSUME NEW j \in 1..n+1 PROVE next[j-1] <= next[j]
        OBVIOUS
      <3>1. j \in 0..n+1 /\ j-1 \in 0..n+1
        BY <1>1
      <3>2. next[j] \in Int /\ next[j-1] \in Int /\ next[j-1] < next[j]
        BY <1>1, <2>6, <2>8, <3>1
      <3> QED
        BY <3>2
    <2>10. TurnsOf(ms, k, new, next)
      BY <2>2, <2>3, <2>4, <2>6, <2>7, <2>9 DEF TurnsOf, CutOutOf
    <2> QED
      BY <2>1, <2>10
  <1>4. CASE turns # <<>> /\ ms[k].role # "user"
    <2> DEFINE last == Append(turns[n], ms[k])
               new == Append(Front(turns), last)
               next == [cut EXCEPT ![n] = k]
    <2>1. n \in 1..n /\ n \in Nat \ {0} /\ n \in 0..n /\ n-1 \in 0..n
      BY <1>1, <1>4
    <2>2. /\ Last(turns) = turns[n] /\ turns[n] \in Seq(Entry)
          /\ Front(turns) \in Seq(Seq(Entry)) /\ Len(Front(turns)) = n - 1
          /\ \A j \in 1..n-1 : Front(turns)[j] = turns[j]
      <3> DEFINE V == Seq(Entry)
      <3>1. turns \in Seq(V) /\ turns # <<>>
        BY <1>4
      <3> HIDE DEF V
      <3>2. /\ Last(turns) = turns[Len(turns)] /\ Last(turns) \in V
            /\ Front(turns) \in Seq(V) /\ Len(Front(turns)) = Len(turns) - 1
            /\ \A j \in 1..Len(turns)-1 : Front(turns)[j] = turns[j]
        BY <3>1, LastAndFront
      <3> QED
        BY <3>2 DEF V
    <2>3. AddToTurns(turns, ms[k]) = new
      BY <1>4, <2>2 DEF AddToTurns
    <2>4. /\ Len(new) = n /\ \A j \in 1..n-1 : new[j] = turns[j]
          /\ new[n] = last
      <3> HIDE DEF last
      <3>1. \A f \in Seq(Seq(Entry)) : \A e :
              /\ Len(Append(f, e)) = Len(f) + 1
              /\ \A j \in 1..Len(f) : Append(f, e)[j] = f[j]
              /\ Append(f, e)[Len(f)+1] = e
        OBVIOUS
      <3>2. n - 1 + 1 = n
        BY <2>1
      <3> QED
        BY <2>2, <3>1, <3>2
    <2>5. /\ next \in [0..n -> 0..L] /\ next[n] = k
          /\ \A j \in 0..n-1 : next[j] = cut[j]
      BY <1>1, <1>2, <2>1
    <2>6. /\ cut[n-1] < k - 1 /\ cut[n-1] \in 0..L
          /\ turns[n] = SubSeq(ms, cut[n-1] + 1, k - 1)
      BY <1>2, <2>1
    <2>7. last = SubSeq(ms, cut[n-1] + 1, k)
      <3> cut[n-1] \in 0..k-1
        BY <1>1, <2>6
      <3> QED
        BY <2>6, OneMore
    <2> HIDE DEF new, next, last
    <2>8. ASSUME NEW j \in 1..n
          PROVE  /\ next[j-1] < next[j]
                 /\ new[j] = SubSeq(ms, next[j-1] + 1, next[j])
                 /\ j > 1 => ms[next[j-1]+1].role = "user"
                 /\ \A i \in next[j-1]+2..next[j] : ms[i].role # "user"
      <3>1. CASE j < n
        <4>1. j \in 1..n-1 /\ j \in 0..n-1 /\ j-1 \in 0..n-1
          BY <1>1, <3>1
        <4> QED
          BY <1>2, <2>4, <2>5, <4>1
      <3>2. CASE j = n
        <4>1. j-1 \in 0..n-1
          BY <2>1, <3>2
        <4>2. next[j-1] = cut[n-1] /\ next[j] = k /\ new[j] = last
          BY <2>4, <2>5, <3>2, <4>1
        <4>3. cut[n-1] < k
          BY <1>1, <2>6
        <4>4. j > 1 => ms[cut[n-1]+1].role = "user"
          BY <1>2, <2>1, <3>2
        <4>5. ASSUME NEW i \in cut[n-1]+2..k PROVE ms[i].role # "user"
          <5>1. i = k \/ i \in cut[n-1]+2..k-1
            BY <1>1, <2>6
          <5> QED
            BY <1>2, <1>4, <2>1, <5>1
        <4> QED
          BY <2>7, <4>2, <4>3, <4>4, <4>5
      <3> QED
        BY <1>1, <3>1, <3>2
    <2>9. next[0] = 0
      BY <1>2, <2>1, <2>5
    <2>10. \A j \in 1..n : next[j-1] <= next[j]
      <3> SUFFICES ASSUME NEW j \in 1..n PROVE next[j-1] <= next[j]
        OBVIOUS
      <3>1. j \in 0..n /\ j-1 \in 0..n
        BY <1>1
      <3>2. next[j] \in 0..L /\ next[j-1] \in 0..L
        BY <2>5, <3>1
      <3> QED
        BY <1>1, <2>8, <3>2
    <2>11. TurnsOf(ms, k, new, next)
      BY <2>4, <2>5, <2>8, <2>9, <2>10 DEF TurnsOf, CutOutOf
    <2> QED
      BY <2>3, <2>11
  <1> QED
    BY <1>3, <1>4

LEMMA TurnsCut ==
    ASSUME NEW ms \in Seq(Entry)
    PROVE  /\ GroupByUser(ms) \in Seq(Seq(Entry))
           /\ \E cut : TurnsOf(ms, Len(ms), GroupByUser(ms), cut)
  <1> DEFINE N == Len(ms)
  <1>1. PICK t \in [0..N -> Seq(Seq(Entry))] :
          /\ t[0] = <<>>
          /\ \A k \in 1..N : t[k] = AddToTurns(t[k-1], ms[k])
          /\ GroupByUser(ms) = t[N]
    BY TurnsFold
  <1>2. N \in Nat
    OBVIOUS
  <1> DEFINE S == { k \in 0..N : \E cut : TurnsOf(ms, k, t[k], cut) }
  <1>3. 0 \in S
    <2> DEFINE none == [j \in {0} |-> 0]
    <2>1. TurnsOf(ms, 0, <<>>, none)
      BY <1>2 DEF TurnsOf, CutOutOf
    <2> HIDE DEF none
    <2> QED
      BY <1>1, <1>2, <2>1
  <1>4. \A k \in 1..N : k - 1 \in S => k \in S
    <2> SUFFICES ASSUME NEW k \in 1..N, k - 1 \in S PROVE k \in S
      OBVIOUS
    <2>1. PICK cut : TurnsOf(ms, k - 1, t[k-1], cut)
      OBVIOUS
    <2>2. k - 1 \in 0..N /\ k \in 0..N
      BY <1>2
    <2>3. t[k-1] \in Seq(Seq(Entry))
      BY <2>2
    <2>4. \E next : TurnsOf(ms, k, AddToTurns(t[k-1], ms[k]), next)
      BY <2>1, <2>3, NextMessage
    <2> QED
      BY <1>1, <2>2, <2>4
  <1>5. N \in S
    <2> HIDE DEF S, N
    <2>1. 0..N \subseteq S
      BY <1>2, <1>3, <1>4, UpTo
    <2> QED
      BY <1>2, <2>1
  <1>6. N \in 0..N
    BY <1>2
  <1> QED
    BY <1>1, <1>5, <1>6

(* Where the messages of users are, from a on. *)
Users(ms, a) == { i \in a..Len(ms) : ms[i].role = "user" }

(* The turns that are kept begin, at a, with a user's message, and hold at   *)
(* least MinTurns of those; the older ones are not empty.                    *)
KeptFrom(ms, turns, a) ==
    /\ a \in 2..Len(ms)
    /\ RecentMessages(turns) = SubSeq(ms, a, Len(ms))
    /\ ms[a].role = "user"
    /\ ExistsInjection(1..MinTurns, Users(ms, a))
    /\ Len(FirstSlice(turns, MinTurns)) \in Nat \ {0}
    /\ FlattenSeq(FirstSlice(turns, MinTurns)) \in Seq(Entry)

LEMMA RecentCut ==
    ASSUME NEW ms \in Seq(Entry), Len(GroupByUser(ms)) > MinTurns, MinTurns # 0
    PROVE  \E a : KeptFrom(ms, GroupByUser(ms), a)
  <1> DEFINE turns == GroupByUser(ms)
             n == Len(turns)
             L == Len(ms)
             p == n - MinTurns
  <1>1. PICK cut : TurnsOf(ms, L, turns, cut)
    BY TurnsCut
  <1>2. turns \in Seq(Seq(Entry))
    BY TurnsCut
  <1> HIDE DEF turns
  <1>3. /\ n \in Nat /\ L \in Nat /\ MinTurns \in Nat \ {0} /\ p \in 1..n-1
        /\ DOMAIN turns = 1..n
    BY <1>2, ContextAssumption DEF turns
  <1>4. /\ cut \in [0..n -> 0..L] /\ cut[0] = 0 /\ cut[n] = L
        /\ \A j \in 1..n :
             /\ cut[j-1] < cut[j] /\ cut[j-1] <= cut[j]
             /\ turns[j] = SubSeq(ms, cut[j-1] + 1, cut[j])
             /\ j > 1 => ms[cut[j-1]+1].role = "user"
    BY <1>1 DEF TurnsOf, CutOutOf
  <1>5. ASSUME NEW i \in 0..n, NEW j \in 0..n, i < j
        PROVE  cut[i] < cut[j]
    <2> DEFINE S == { k \in 0..n : \A l \in 0..n : l < k => cut[l] < cut[k] }
    <2>1. 0 \in S
      BY <1>3
    <2>2. \A k \in 1..n : k - 1 \in S => k \in S
      <3> SUFFICES ASSUME NEW k \in 1..n, k - 1 \in S, NEW l \in 0..n, l < k
                   PROVE  k \in 0..n /\ cut[l] < cut[k]
        OBVIOUS
      <3>1. k \in 0..n /\ k-1 \in 0..n /\ (l = k-1 \/ l < k-1)
        BY <1>3
      <3>2. cut[k-1] < cut[k] /\ (l < k-1 => cut[l] < cut[k-1])
        BY <1>4
      <3>3. cut[l] \in 0..L /\ cut[k] \in 0..L /\ cut[k-1] \in 0..L
        BY <1>4, <3>1
      <3> HIDE DEF n, L
      <3>4. CASE l = k - 1
        BY <3>1, <3>2, <3>4
      <3>5. CASE l < k - 1
        BY <1>3, <3>1, <3>2, <3>3, <3>5
      <3> QED
        BY <3>1, <3>4, <3>5
    <2> HIDE DEF S
    <2>3. 0..n \subseteq S
      BY <1>3, <2>1, <2>2, UpTo
    <2> QED
      BY <1>5, <2>3 DEF S
  <1> DEFINE a == cut[p] + 1
             old == SubSeq(turns, 1, p)
             recent == SubSeq(turns, p + 1, n)
             oldCut == [j \in 0..p |-> cut[j]]
             recentCut == [j \in 0..MinTurns |-> cut[p + j]]
  <1>6. /\ p \in 0..n /\ p \in 1..n /\ n \in 0..n /\ p < n /\ 0 < p
        /\ p + 1 \in 1..n /\ p + 1 > 1 /\ 0 \in 0..n /\ (p + 1) - 1 = p
        /\ p + MinTurns = n /\ n - MinTurns = p /\ MinTurns < n
        /\ n \in Int /\ p \in Int /\ MinTurns \in Int
    BY <1>3
  <1> HIDE DEF p
  <1>7. a \in 2..L
    <2>1. cut[0] < cut[p] /\ cut[p] < cut[n] /\ cut[p] \in 0..L
      BY <1>4, <1>5, <1>6
    <2> QED
      BY <1>3, <1>4, <2>1
  <1>8. ms[a].role = "user"
    <2>1. ms[cut[(p+1)-1] + 1].role = "user"
      BY <1>4, <1>6
    <2> QED
      BY <1>6, <2>1
  <1>9. FirstSlice(turns, MinTurns) = old /\ LastSlice(turns, MinTurns) = recent
    <2>1. /\ Len(turns) - MinTurns = p /\ ~(MinTurns >= Len(turns))
          /\ MinTurns # 0
      BY <1>6
    <2> QED
      BY <2>1 DEF FirstSlice, LastSlice
  <1>10. /\ old \in Seq(Seq(Entry)) /\ Len(old) = p
         /\ \A j \in 1..p : old[j] = turns[j]
    BY <1>2, <1>3
  <1>11. /\ recent \in Seq(Seq(Entry)) /\ Len(recent) = MinTurns
         /\ \A j \in 1..MinTurns : recent[j] = turns[p + j]
    <2>1. \A i \in p+1..n : turns[i] \in Seq(Entry)
      BY <1>2, <1>3, <1>6
    <2>2. /\ recent \in Seq(Seq(Entry)) /\ Len(recent) = n - (p+1) + 1
          /\ \A j \in 1..n-(p+1)+1 : recent[j] = turns[(p+1)+j-1]
      BY <1>3, <1>6, <2>1, SubSeqOf
    <2>3. n - (p+1) + 1 = MinTurns /\ \A j \in 1..MinTurns : (p+1)+j-1 = p+j
      <3> HIDE DEF n
      <3> QED
        BY <1>6
    <2> QED
      BY <2>2, <2>3
  <1> HIDE DEF old, recent
  <1>12. CutOutOf(ms, old, oldCut)
    <2>1. \A j \in 0..p : j \in 0..n /\ cut[j] \in 0..L /\ oldCut[j] = cut[j]
      <3> \A j \in 0..p : j \in 0..n
        BY <1>3
      <3> QED
        BY <1>4
    <2>2. oldCut \in [0..p -> 0..L]
      BY <2>1
    <2> HIDE DEF oldCut
    <2>3. \A j \in 1..p : j \in 1..n /\ j \in 0..p /\ j-1 \in 0..p
      BY <1>3
    <2> QED
      BY <1>4, <1>10, <2>1, <2>2, <2>3 DEF CutOutOf
  <1>13. CutOutOf(ms, recent, recentCut)
    <2>1. \A j \in 0..MinTurns : p+j \in 0..n /\ cut[p+j] \in 0..L
                                 /\ recentCut[j] = cut[p+j]
      <3> \A j \in 0..MinTurns : p+j \in 0..n
        <4> HIDE DEF n
        <4> QED
          BY <1>3, <1>6
      <3> QED
        BY <1>4
    <2>2. recentCut \in [0..MinTurns -> 0..L]
      BY <2>1
    <2> HIDE DEF recentCut
    <2>3. \A j \in 1..MinTurns : /\ p+j \in 1..n /\ j \in 0..MinTurns
                                 /\ j-1 \in 0..MinTurns /\ p+(j-1) = (p+j)-1
      <3> HIDE DEF n
      <3> QED
        BY <1>3, <1>6
    <2>4. ASSUME NEW j \in 1..MinTurns
          PROVE  /\ recentCut[j-1] <= recentCut[j]
                 /\ recent[j] = SubSeq(ms, recentCut[j-1] + 1, recentCut[j])
      <3>1. recentCut[j-1] = cut[(p+j)-1] /\ recentCut[j] = cut[p+j]
        BY <2>1, <2>3
      <3>2. /\ cut[(p+j)-1] <= cut[p+j]
            /\ turns[p+j] = SubSeq(ms, cut[(p+j)-1] + 1, cut[p+j])
        BY <1>4, <2>3
      <3> QED
        BY <1>11, <3>1, <3>2
    <2> QED
      BY <1>11, <2>2, <2>4 DEF CutOutOf
  <1>14. FlattenSeq(old) \in Seq(Entry)
    BY <1>10, <1>12, FlattenCuts
  <1>15. RecentMessages(turns) = SubSeq(ms, a, L)
    <2>1. /\ 0 \in 0..MinTurns /\ MinTurns \in 0..MinTurns /\ p + 0 = p
      BY <1>3
    <2>2. recentCut[0] = cut[p] /\ recentCut[MinTurns] = L
      BY <1>4, <1>6, <2>1
    <2>3. FlattenSeq(recent)
            = SubSeq(ms, recentCut[0] + 1, recentCut[Len(recent)])
      <3> HIDE DEF recentCut
      <3> QED
        BY <1>11, <1>13, FlattenCuts
    <2> QED
      BY <1>9, <1>11, <2>2, <2>3 DEF RecentMessages
  <1>16. ExistsInjection(1..MinTurns, Users(ms, a))
    <2> DEFINE first == [j \in 1..MinTurns |-> cut[(p+j)-1] + 1]
    <2>1. ASSUME NEW j \in 1..MinTurns
          PROVE  first[j] \in Users(ms, a) /\ first[j] = cut[(p+j)-1] + 1
      <3>1. p+j \in 1..n /\ p+j > 1 /\ (p+j)-1 \in 0..n /\ p+j \in 0..n
            /\ (p = (p+j)-1 \/ p < (p+j)-1)
        <4> HIDE DEF n
        <4> QED
          BY <1>3, <1>6
      <3>2. ms[cut[(p+j)-1]+1].role = "user" /\ cut[(p+j)-1] < cut[p+j]
        BY <1>4, <3>1
      <3>4. cut[p] \in 0..L /\ cut[(p+j)-1] \in 0..L /\ cut[p+j] \in 0..L
        BY <1>4, <1>6, <3>1
      <3>3. cut[p] <= cut[(p+j)-1]
        <4>1. CASE p = (p+j)-1
          BY <1>3, <3>4, <4>1
        <4>2. CASE p < (p+j)-1
          <5>1. cut[p] < cut[(p+j)-1]
            BY <1>5, <1>6, <3>1, <4>2
          <5> QED
            BY <1>3, <3>4, <5>1
        <4> QED
          BY <3>1, <4>1, <4>2
      <3>5. cut[(p+j)-1] + 1 \in a..L
        <4> HIDE DEF L
        <4>1. \A x, y, z \in 0..L : x <= y /\ y < z => y + 1 \in x + 1 .. L
          BY <1>3
        <4> QED
          BY <3>2, <3>3, <3>4, <4>1
      <3> QED
        BY <3>2, <3>5 DEF Users
    <2>2. ASSUME NEW i \in 1..MinTurns, NEW j \in 1..MinTurns, i < j
          PROVE  first[i] # first[j]
      <3>1. (p+i)-1 \in 0..n /\ (p+j)-1 \in 0..n /\ (p+i)-1 < (p+j)-1
        <4> HIDE DEF n
        <4> QED
          BY <1>3, <1>6, <2>2
      <3>2. cut[(p+i)-1] < cut[(p+j)-1]
        BY <1>5, <3>1
      <3>3. cut[(p+i)-1] \in 0..L /\ cut[(p+j)-1] \in 0..L
        BY <1>4, <3>1
      <3> QED
        BY <1>3, <3>2, <3>3
    <2>3. \A i, j \in 1..MinTurns : i # j => i < j \/ j < i
      BY <1>3
    <2>4. first \in [1..MinTurns -> Users(ms, a)]
      BY <2>1
    <2> HIDE DEF first, a
    <2>5. first \in Injection(1..MinTurns, Users(ms, a))
      BY <2>2, <2>3, <2>4 DEF Injection, IsInjective
    <2> QED
      BY <2>5 DEF ExistsInjection
  <1> HIDE DEF a
  <1>17. KeptFrom(ms, turns, a)
    BY <1>3, <1>7, <1>8, <1>9, <1>10, <1>14, <1>15, <1>16 DEF KeptFrom
  <1> QED
    BY <1>17 DEF turns

-----------------------------------------------------------------------------
(* What build returns. *)
Start(ms) ==
    IF WindowSize = 0 \/ WindowSize >= Len(ms) THEN 1
    ELSE Len(ms) - WindowSize + 1

LEMMA WindowCut ==
    ASSUME NEW ms \in Seq(Entry), ms # <<>>
    PROVE  /\ Start(ms) \in 1..Len(ms)
           /\ Window(ms) = SubSeq(ms, Start(ms), Len(ms))
           /\ Window(ms) \in Seq(Entry)
           /\ Len(Window(ms)) = Len(ms) - Start(ms) + 1
  <1>1. Len(ms) \in Nat \ {0} /\ WindowSize \in Nat
    BY ContextAssumption
  <1>2. Start(ms) \in 1..Len(ms)
    BY <1>1 DEF Start
  <1>3. SubSeq(ms, 1, Len(ms)) = ms
    OBVIOUS
  <1>4. Window(ms) = SubSeq(ms, Start(ms), Len(ms))
    BY <1>1, <1>3 DEF Window, LastSlice, Start
  <1>5. \A i \in Start(ms)..Len(ms) : ms[i] \in Entry
    BY <1>2, EntryParts
  <1>6. /\ SubSeq(ms, Start(ms), Len(ms)) \in Seq(Entry)
        /\ Len(SubSeq(ms, Start(ms), Len(ms))) = Len(ms) - Start(ms) + 1
    BY <1>1, <1>2, <1>5, SubSeqOf
  <1> QED
    BY <1>2, <1>4, <1>6

LEMMA PromptTyped == SystemPrompt \in Entry
  BY ContextAssumption DEF SystemPrompt, Entry

LEMMA AvailableType == Available \in Nat
  BY ContextAssumption DEF Available, Larger

(* The context c shows the messages from a on: those of the window, or those *)
(* of the turns that were kept; and it may have a summary of the rest.       *)
WithSummary(ms, c, a) ==
    /\ a > 1
    /\ \E s \in Entry :
         /\ c = <<SystemPrompt, s>> \o SubSeq(ms, a, Len(ms))
         /\ s.role = "summary" /\ s.n > 0
         /\ s.size + Tokens(SubSeq(ms, a, Len(ms))) <= Available + Overhead

ShownFrom(ms, c, a) ==
    /\ a \in Start(ms)..Len(ms)
    /\ \/ c = <<SystemPrompt>> \o SubSeq(ms, a, Len(ms))
       \/ WithSummary(ms, c, a)
    /\ a # Start(ms) =>
         /\ ms[a].role = "user"
         /\ MinTurns # 0 /\ ExistsInjection(1..MinTurns, Users(ms, a))

(* The turns that are kept of the window, as a part of the session. *)
LEMMA KeptOfWindow ==
    ASSUME NEW ms \in Seq(Entry), ms # <<>>, NEW turns, NEW b,
           KeptFrom(Window(ms), turns, b)
    PROVE  LET a == Start(ms) + b - 1
           IN  /\ a \in Start(ms)+1..Len(ms)
               /\ RecentMessages(turns) = SubSeq(ms, a, Len(ms))
               /\ RecentMessages(turns) \in Seq(Entry)
               /\ ms[a].role = "user"
               /\ ExistsInjection(1..MinTurns, Users(ms, a))
  <1> DEFINE w == Window(ms)
             d == Start(ms) - 1
             L == Len(ms)
             a == Start(ms) + b - 1
  <1>1. /\ Start(ms) \in 1..L /\ w = SubSeq(ms, Start(ms), L)
        /\ w \in Seq(Entry) /\ Len(w) = L - d /\ L \in Nat
        /\ d \in Nat /\ d < L /\ Start(ms) = d + 1 /\ L - Start(ms) + 1 = L - d
        /\ Start(ms) \in Int
    <2>1. /\ Start(ms) \in 1..L /\ w = SubSeq(ms, Start(ms), L)
          /\ w \in Seq(Entry) /\ Len(w) = L - Start(ms) + 1
      BY WindowCut
    <2>2. L \in Nat
      OBVIOUS
    <2> HIDE DEF L, w
    <2> QED
      BY <2>1, <2>2
  <1>2. /\ b \in 2..Len(w) /\ RecentMessages(turns) = SubSeq(w, b, Len(w))
        /\ w[b].role = "user" /\ ExistsInjection(1..MinTurns, Users(w, b))
    BY DEF KeptFrom
  <1>3. \A i \in 1..Len(w) : w[i] = ms[d + i] /\ d + i \in 1..L
    <2>1. \A i \in Start(ms)..L : ms[i] \in Entry
      BY <1>1, EntryParts
    <2>2. \A i \in 1..L-Start(ms)+1 :
            SubSeq(ms, Start(ms), L)[i] = ms[Start(ms)+i-1]
      BY <1>1, <2>1, SubSeqOf
    <2> HIDE DEF d, L
    <2>3. \A i \in 1..L-d : Start(ms)+i-1 = d+i /\ d+i \in 1..L
      BY <1>1
    <2> QED
      BY <1>1, <2>2, <2>3
  <1> HIDE DEF w, d
  <1>4. /\ a = d + b /\ a \in Start(ms)+1..L /\ a \in 1..L /\ a \in Int
        /\ b \in 1..Len(w) /\ b \in Int
    <2> HIDE DEF L
    <2> QED
      BY <1>1, <1>2
  <1> HIDE DEF a
  <1>5. ms[a].role = "user"
    BY <1>1, <1>2, <1>3, <1>4
  <1>6. RecentMessages(turns) = SubSeq(ms, a, L) /\ SubSeq(ms, a, L) \in Seq(Entry)
    <2> DEFINE r == SubSeq(w, b, Len(w))
               q == SubSeq(ms, a, L)
    <2>1. (\A i \in b..Len(w) : w[i] \in Entry) /\ \A i \in a..L : ms[i] \in Entry
      BY <1>1, <1>2, <1>4, EntryParts
    <2>2. /\ r \in Seq(Entry) /\ Len(r) = Len(w) - b + 1
          /\ \A i \in 1..Len(w)-b+1 : r[i] = w[b+i-1]
      BY <1>1, <1>2, <2>1, SubSeqOf
    <2>3. /\ q \in Seq(Entry) /\ Len(q) = L - a + 1
          /\ \A i \in 1..L-a+1 : q[i] = ms[a+i-1]
      <3> HIDE DEF L
      <3>1. a \in Int /\ L \in Int /\ a <= L
        BY <1>1, <1>4
      <3> QED
        BY <2>1, <3>1, SubSeqOf
    <2>4. L - a + 1 = Len(w) - b + 1
      <3> HIDE DEF L
      <3> QED
        BY <1>1, <1>4
    <2>5. \A i \in 1..L-a+1 : w[b+i-1] = ms[a+i-1]
      <3> SUFFICES ASSUME NEW i \in 1..L-a+1 PROVE w[b+i-1] = ms[a+i-1]
        OBVIOUS
      <3>1. b+i-1 \in 1..Len(w) /\ d + (b+i-1) = a+i-1
        <4> HIDE DEF L
        <4> QED
          BY <1>1, <1>4
      <3> QED
        BY <1>3, <3>1
    <2> HIDE DEF r, q
    <2>6. \A x, y \in Seq(Entry) :
            Len(x) = Len(y) /\ (\A i \in 1..Len(x) : x[i] = y[i]) => x = y
      OBVIOUS
    <2>7. r = q
      BY <2>2, <2>3, <2>4, <2>5, <2>6
    <2> QED
      BY <1>2, <2>3, <2>7 DEF r, q
  <1>7. ExistsInjection(1..MinTurns, Users(ms, a))
    <2>1. PICK f \in Injection(1..MinTurns, Users(w, b)) : TRUE
      BY <1>2 DEF ExistsInjection
    <2>2. /\ f \in [1..MinTurns -> Users(w, b)]
          /\ \A i, j \in 1..MinTurns : f[i] = f[j] => i = j
      BY DEF Injection, IsInjective
    <2> DEFINE g == [i \in 1..MinTurns |-> d + f[i]]
    <2>3. ASSUME NEW x \in Users(w, b) PROVE x \in Int /\ d + x \in Users(ms, a)
      <3>1. x \in b..Len(w) /\ w[x].role = "user"
        BY DEF Users
      <3>2. x \in 1..Len(w) /\ d + x \in a..L /\ x \in Int
        <4> HIDE DEF L
        <4> QED
          BY <1>1, <1>4, <3>1
      <3>3. ms[d+x].role = "user"
        BY <1>3, <3>1, <3>2
      <3> QED
        BY <3>2, <3>3 DEF Users
    <2>4. g \in [1..MinTurns -> Users(ms, a)]
      BY <2>2, <2>3
    <2>5. \A x, y \in Int : d + x = d + y => x = y
      BY <1>1
    <2>6. \A i, j \in 1..MinTurns : g[i] = g[j] => i = j
      BY <2>2, <2>3, <2>5
    <2> HIDE DEF g
    <2>7. g \in Injection(1..MinTurns, Users(ms, a))
      BY <2>4, <2>6 DEF Injection, IsInjective
    <2> QED
      BY <2>7 DEF ExistsInjection
  <1> QED
    BY <1>4, <1>5, <1>6, <1>7 DEF a

LEMMA TwoInFront ==
    ASSUME NEW V, NEW x \in V, NEW y \in V, NEW s \in Seq(V)
    PROVE  <<x>> \o (<<y>> \o s) = <<x, y>> \o s
  <1> DEFINE t == <<y>> \o s
             l == <<x>> \o t
             r == <<x, y>> \o s
  <1>1. /\ t \in Seq(V) /\ Len(t) = Len(s) + 1 /\ t[1] = y
        /\ \A i \in 1..Len(s) : t[i+1] = s[i]
    OBVIOUS
  <1>2. /\ r \in Seq(V) /\ Len(r) = Len(s) + 2 /\ r[1] = x /\ r[2] = y
        /\ \A i \in 1..Len(s) : r[i+2] = s[i]
    OBVIOUS
  <1> HIDE DEF t
  <1>3. /\ l \in Seq(V) /\ Len(l) = Len(t) + 1 /\ l[1] = x
        /\ \A i \in 1..Len(t) : l[i+1] = t[i]
    BY <1>1
  <1> HIDE DEF l, r
  <1>4. ASSUME NEW i \in 1..Len(s)+2 PROVE l[i] = r[i]
    <2>1. CASE i = 1
      BY <1>2, <1>3, <2>1
    <2>2. CASE i = 2
      <3>1. 1 \in 1..Len(t) /\ 1 + 1 = 2
        BY <1>1
      <3> QED
        BY <1>1, <1>2, <1>3, <2>2, <3>1
    <2>3. CASE i > 2
      <3>1. /\ i-2 \in 1..Len(s) /\ (i-2)+2 = i /\ (i-2)+1 = i-1
            /\ i-1 \in 1..Len(t) /\ (i-1)+1 = i
        BY <1>1, <2>3
      <3> QED
        BY <1>1, <1>2, <1>3, <3>1
    <2> QED
      BY <2>1, <2>2, <2>3
  <1>5. Len(l) = Len(s) + 2
    BY <1>1, <1>3
  <1>6. \A p, q \in Seq(V) :
          Len(p) = Len(q) /\ (\A i \in 1..Len(p) : p[i] = q[i]) => p = q
    OBVIOUS
  <1>7. l = r
    BY <1>2, <1>3, <1>4, <1>5, <1>6
  <1> QED
    BY <1>7 DEF l, r, t

LEMMA SmallerOf ==
    ASSUME NEW x \in Int, NEW y \in Int
    PROVE  /\ Smaller(x, y) \in {x, y}
           /\ Smaller(x, y) <= x /\ Smaller(x, y) <= y
  BY DEF Smaller

LEMMA BuildShape ==
    ASSUME NEW ms \in Seq(Entry), ms # <<>>
    PROVE  \E a : ShownFrom(ms, Build(ms), a)
  <1> DEFINE w == Window(ms)
             turns == GroupByUser(w)
             S == Start(ms)
             L == Len(ms)
  <1>1. /\ S \in 1..L /\ w = SubSeq(ms, S, L) /\ w \in Seq(Entry)
        /\ L \in Nat /\ S \in S..L
    <2>1. S \in 1..L /\ w = SubSeq(ms, S, L) /\ w \in Seq(Entry)
      BY WindowCut
    <2>2. L \in Nat
      OBVIOUS
    <2> HIDE DEF S, L, w
    <2> QED
      BY <2>1, <2>2
  <1> HIDE DEF w, turns
  <1>2. ASSUME Build(ms) = <<SystemPrompt>> \o w
        PROVE  ShownFrom(ms, Build(ms), S)
    BY <1>1, <1>2 DEF ShownFrom
  <1>3. CASE ~Enabled \/ Tokens(w) <= Available \/ Len(turns) <= MinTurns
    <2>1. Build(ms) = <<SystemPrompt>> \o w
      BY <1>3 DEF Build, Turns, w, turns
    <2> QED
      BY <1>2, <2>1
  <1>4. CASE ~(~Enabled \/ Tokens(w) <= Available \/ Len(turns) <= MinTurns)
    <2>1. Build(ms) = <<SystemPrompt>> \o Compressed(turns)
      BY <1>4 DEF Build, Turns, w, turns
    <2>2. /\ turns \in Seq(Seq(Entry)) /\ Tokens(w) \in Nat /\ Available \in Nat
          /\ Len(turns) \in Nat /\ MinTurns \in Nat /\ MinSummary \in Nat
          /\ MaxSummary \in Nat /\ Overhead \in Nat
      <3>1. turns \in Seq(Seq(Entry))
        BY <1>1, TurnsCut DEF turns
      <3>2. Tokens(w) \in Nat /\ Available \in Nat
        BY <1>1, TokensType, AvailableType
      <3>3. Len(turns) \in Nat
        BY <3>1
      <3> QED
        BY <3>1, <3>2, <3>3, ContextAssumption
    <2> DEFINE recent == RecentMessages(turns)
               old == FirstSlice(turns, MinTurns)
               budget == SummaryBudget(recent)
               s == Summary(old, budget)
    <2>3. Compressed(turns)
            = (IF budget > MinSummary THEN <<s>> ELSE <<>>) \o recent
      BY DEF Compressed
    <2>4. CASE MinTurns = 0
      <3>1. PICK cut : TurnsOf(w, Len(w), turns, cut)
        BY <1>1, TurnsCut DEF turns
      <3>2. FlattenSeq(turns) = SubSeq(w, cut[0] + 1, cut[Len(turns)])
        <4>1. CutOutOf(w, turns, cut)
          BY <3>1 DEF TurnsOf
        <4> QED
          BY <1>1, <2>2, <4>1, FlattenCuts
      <3>3. recent = SubSeq(w, 1, Len(w))
        BY <2>4, <3>1, <3>2 DEF RecentMessages, LastSlice, TurnsOf
      <3>4. recent = w
        BY <1>1, <3>3
      <3>5. ~(budget > MinSummary)
        BY <1>4, <2>2, <3>4 DEF SummaryBudget, Smaller
      <3>6. <<>> \o w = w
        BY <1>1
      <3>7. Build(ms) = <<SystemPrompt>> \o w
        BY <2>1, <2>3, <3>4, <3>5, <3>6
      <3> QED
        BY <1>2, <3>7
    <2>5. CASE MinTurns # 0
      <3>1. Len(turns) > MinTurns
        BY <1>4, <2>2
      <3>2. PICK b : KeptFrom(w, turns, b)
        BY <1>1, <2>5, <3>1, RecentCut DEF turns
      <3> DEFINE a == S + b - 1
      <3>3. /\ a \in S+1..L /\ recent = SubSeq(ms, a, L) /\ recent \in Seq(Entry)
            /\ ms[a].role = "user" /\ ExistsInjection(1..MinTurns, Users(ms, a))
        BY <3>2, KeptOfWindow DEF w
      <3>4. a > 1 /\ a \in S..L
        BY <1>1, <3>3
      <3>5. /\ Len(old) \in Nat \ {0} /\ Tokens(FlattenSeq(old)) \in Nat
            /\ Tokens(recent) \in Nat
        BY <3>2, <3>3, TokensType DEF KeptFrom
      <3> HIDE DEF old, recent, a
      <3>6. CASE ~(budget > MinSummary)
        <4>1. <<>> \o recent = recent
          BY <3>3
        <4>2. Build(ms) = <<SystemPrompt>> \o SubSeq(ms, a, L)
          BY <2>1, <2>3, <3>3, <3>6, <4>1
        <4> QED
          BY <2>5, <3>3, <3>4, <4>2 DEF ShownFrom
      <3>7. CASE budget > MinSummary
        <4>1. budget \in Nat /\ budget <= Available - Tokens(recent)
          BY <2>2, <3>5, <3>7 DEF SummaryBudget, Smaller
        <4> HIDE DEF budget
        <4>2. /\ s.role = "summary" /\ s.n = Len(old)
              /\ s.place = 0 /\ s.of = 0
              /\ s.size = Overhead + Smaller(Tokens(FlattenSeq(old)), budget)
              /\ s = [role |-> s.role, n |-> s.n, size |-> s.size,
                      place |-> s.place, of |-> s.of]
          BY DEF Summary
        <4>3. s.size \in Nat /\ s.size <= Overhead + budget
          <5> DEFINE text == Tokens(FlattenSeq(old))
          <5>1. text \in Nat
            BY <3>5
          <5> HIDE DEF text
          <5>2. Smaller(text, budget) \in {text, budget}
                /\ Smaller(text, budget) <= budget
            BY <4>1, <5>1, SmallerOf
          <5>3. Smaller(text, budget) \in Nat
            BY <4>1, <5>1, <5>2
          <5>4. s.size = Overhead + Smaller(text, budget)
            BY <4>2 DEF text
          <5> QED
            BY <2>2, <4>1, <5>2, <5>3, <5>4
        <4> HIDE DEF s
        <4>4. s \in Entry
          <5>1. /\ s.role \in {"system", "summary", "user", "assistant", "tool"}
                /\ s.n \in Nat /\ s.size \in Nat /\ s.place \in 0..MaxMessages
                /\ s.of \in 0..MaxMessages
            BY <3>5, <4>2, <4>3, ContextAssumption
          <5> QED
            BY <4>2, <5>1 DEF Entry
        <4>5. s.size + Tokens(recent) <= Available + Overhead
          BY <2>2, <3>5, <4>1, <4>3
        <4>6. Build(ms) = <<SystemPrompt>> \o (<<s>> \o recent)
          BY <2>1, <2>3, <3>7
        <4>7. <<SystemPrompt>> \o (<<s>> \o recent) = <<SystemPrompt, s>> \o recent
          BY <3>3, <4>4, PromptTyped, TwoInFront
        <4>8. WithSummary(ms, Build(ms), a)
          <5>1. s.n > 0
            BY <3>5, <4>2
          <5>2. Build(ms) = <<SystemPrompt, s>> \o SubSeq(ms, a, L)
            BY <3>3, <4>6, <4>7
          <5>3. s.size + Tokens(SubSeq(ms, a, L)) <= Available + Overhead
            BY <3>3, <4>5
          <5> QED
            BY <3>4, <4>2, <4>4, <5>1, <5>2, <5>3 DEF WithSummary
        <4> QED
          BY <2>5, <3>3, <3>4, <4>8 DEF ShownFrom
      <3> QED
        BY <3>6, <3>7
    <2> QED
      BY <2>4, <2>5
  <1> QED
    BY <1>3, <1>4

-----------------------------------------------------------------------------
(* The session.  Its messages are numbered by their places, and a tool       *)
(* message stands in the complete group of results of its response, which    *)
(* is right in front of the group unless it was disturbed.                   *)
Numbered(ms) ==
    \A i \in 1..Len(ms) :
      ms[i].place = i /\ ms[i].role \in {"user", "assistant", "tool"}

InGroup(ms, D, i) ==
    LET k == ms[i].n
        r == ms[i].of
    IN  /\ r \in 1..i-k /\ k \in 1..ms[r].n
        /\ ms[r].role = "assistant"
        /\ \A j \in 1..ms[r].n : /\ i-k+j <= Len(ms)
                                /\ ms[i-k+j].role = "tool"
                                /\ ms[i-k+j].n = j /\ ms[i-k+j].of = r
        /\ r \notin D => r = i-k

Grouped(ms, D) ==
    \A i \in 1..Len(ms) : ms[i].role = "tool" => InGroup(ms, D, i)

SessionInv ==
    /\ messages \in Seq(Entry)
    /\ Numbered(messages)
    /\ Grouped(messages, disturbed)
    /\ disturbed \subseteq 1..Len(messages)

(* A chat's user message and the response it awaits results of are there,    *)
(* and as long as nothing disturbed the response, it is the newest message.  *)
Waits(c) ==
    /\ at[c] # "idle" =>
         asked[c] \in 1..Len(messages) /\ messages[asked[c]].role = "user"
    /\ at[c] = "tools" =>
         /\ response[c] \in 1..Len(messages)
         /\ messages[response[c]].role = "assistant"
         /\ messages[response[c]].n \in CallCounts
         /\ response[c] \notin disturbed => response[c] = Len(messages)

ChatInv ==
    /\ at \in [Chats -> {"idle", "llm", "tools"}]
    /\ asked \in [Chats -> 0..Len(messages)]
    /\ response \in [Chats -> 0..Len(messages)]
    /\ \A c \in Chats : Waits(c)

(* The context was built when the session had its first messages, as many as *)
(* were seen, for the chat whose user message is at own.                     *)
BuildInv ==
    \/ context = <<>> /\ seen = 0 /\ own = 0
    \/ /\ seen \in 1..Len(messages) /\ own \in 1..seen
       /\ messages[own].role = "user"
       /\ context = Build(SubSeq(messages, 1, seen))
       /\ Grouped(SubSeq(messages, 1, seen), disturbed)

Inv == SessionInv /\ ChatInv /\ BuildInv

(* What a chat adds: tool messages come as the complete group of results of  *)
(* the response it awaits, in front of anything else.                        *)
NewMessages(c, new) ==
    /\ new \in Seq(Entry) /\ new # <<>>
    /\ Adds(c, new)
    /\ \A i \in 1..Len(new) :
         /\ new[i].place = Len(messages) + i
         /\ new[i].role \in {"user", "assistant", "tool"}
         /\ new[i].role = "tool" =>
              /\ at[c] = "tools" /\ new[i].n = i
              /\ i \in 1..messages[response[c]].n
              /\ \A j \in 1..messages[response[c]].n :
                   /\ j <= Len(new) /\ new[j].role = "tool"
                   /\ new[j].n = j /\ new[j].of = response[c]

LEMMA AddsKeeps ==
    ASSUME Inv, NEW c \in Chats, NEW new, NewMessages(c, new)
    PROVE  /\ messages' \in Seq(Entry) /\ Len(new) > 0
           /\ Len(messages') = Len(messages) + Len(new)
           /\ \A i \in 1..Len(messages) : messages'[i] = messages[i]
           /\ \A i \in 1..Len(new) : messages'[Len(messages)+i] = new[i]
           /\ Numbered(messages')
           /\ disturbed \subseteq disturbed'
           /\ disturbed' \subseteq 1..Len(messages)
           /\ \A d \in Chats : d # c /\ at[d] = "tools" => response[d] \in disturbed'
           /\ \A k \in 1..Len(messages) :
                SubSeq(messages', 1, k) = SubSeq(messages, 1, k)
  <1> DEFINE L == Len(messages)
             N == Len(new)
  <1>1. /\ messages \in Seq(Entry) /\ new \in Seq(Entry)
        /\ messages' = messages \o new /\ L \in Nat /\ N \in Nat \ {0}
    BY DEF Inv, SessionInv, NewMessages, Adds
  <1>2. /\ messages' \in Seq(Entry) /\ Len(messages') = L + N
        /\ \A i \in 1..L : messages'[i] = messages[i]
        /\ \A i \in 1..N : messages'[L+i] = new[i]
    BY <1>1
  <1>3. \A i \in 1..N : /\ new[i].place = L + i
                        /\ new[i].role \in {"user", "assistant", "tool"}
    BY DEF NewMessages
  <1>4. Numbered(messages)
    BY DEF Inv, SessionInv
  <1>5. ASSUME NEW k \in 1..L
        PROVE  SubSeq(messages', 1, k) = SubSeq(messages, 1, k)
    BY <1>1, <1>2
  <1>6. /\ disturbed \subseteq disturbed'
        /\ \A d \in Chats : d # c /\ at[d] = "tools" => response[d] \in disturbed'
    BY DEF NewMessages, Adds
  <1>7. disturbed' \subseteq 1..L
    <2>1. \A d \in Chats : at[d] = "tools" => response[d] \in 1..L
      BY DEF Inv, ChatInv, Waits
    <2>2. disturbed' = disturbed \cup
            { response[d] : d \in { e \in Chats \ {c} : at[e] = "tools" } }
      BY DEF NewMessages, Adds
    <2>3. disturbed \subseteq 1..L
      BY DEF Inv, SessionInv
    <2> HIDE DEF L
    <2> QED
      BY <2>1, <2>2, <2>3
  <1> HIDE DEF L, N
  <1>8. Numbered(messages')
    <2> SUFFICES ASSUME NEW i \in 1..L+N
                 PROVE  /\ messages'[i].place = i
                        /\ messages'[i].role \in {"user", "assistant", "tool"}
      BY <1>2 DEF Numbered
    <2>1. CASE i \in 1..L
      BY <1>2, <1>4, <2>1 DEF Numbered, L
    <2>2. CASE i - L \in 1..N /\ L + (i - L) = i
      BY <1>2, <1>3, <2>2
    <2>3. i \in 1..L \/ (i - L \in 1..N /\ L + (i - L) = i)
      BY <1>1
    <2> QED
      BY <2>1, <2>2, <2>3
  <1>9. N > 0
    BY <1>1
  <1> QED
    BY <1>2, <1>5, <1>6, <1>7, <1>8, <1>9 DEF L, N

(* A group stays one when more is added, and more responses are disturbed.   *)
LEMMA GroupKept ==
    ASSUME NEW ms \in Seq(Entry), NEW ns \in Seq(Entry), Len(ms) <= Len(ns),
           \A i \in 1..Len(ms) : ns[i] = ms[i],
           NEW D, NEW E, D \subseteq E,
           NEW i \in 1..Len(ms), InGroup(ms, D, i)
    PROVE  InGroup(ns, E, i)
  <1> DEFINE k == ms[i].n
             r == ms[i].of
             n == ms[r].n
             L == Len(ms)
             M == Len(ns)
  <1>1. /\ r \in 1..i-k /\ k \in 1..n /\ ms[r].role = "assistant"
        /\ \A j \in 1..n : /\ i-k+j <= L /\ ms[i-k+j].role = "tool"
                           /\ ms[i-k+j].n = j /\ ms[i-k+j].of = r
        /\ r \notin D => r = i-k
    BY DEF InGroup
  <1>2. L \in Nat /\ M \in Nat /\ i \in 1..L /\ k \in Nat /\ L <= M
    BY EntryParts
  <1>3. ns[i] = ms[i]
    OBVIOUS
  <1> HIDE DEF k, r, n, L, M
  <1>4. r \in 1..L
    BY <1>1, <1>2
  <1>5. ns[r] = ms[r]
    BY <1>4 DEF L
  <1>6. n \in Nat
    BY <1>4, EntryParts DEF n, L
  <1>7. ASSUME NEW j \in 1..n
        PROVE  /\ i-k+j <= M /\ ns[i-k+j].role = "tool"
               /\ ns[i-k+j].n = j /\ ns[i-k+j].of = r
    <2>1. i-k+j <= L
      BY <1>1
    <2>2. i-k+j \in 1..L /\ i-k+j <= M
      BY <1>1, <1>2, <1>6, <2>1
    <2>3. ns[i-k+j] = ms[i-k+j]
      BY <2>2 DEF L
    <2> QED
      BY <1>1, <2>2, <2>3
  <1>8. ns[i].n = k /\ ns[i].of = r /\ ns[r].n = n
    BY <1>3, <1>5 DEF k, r, n
  <1> QED
    BY <1>1, <1>5, <1>7, <1>8 DEF InGroup, M

LEMMA GroupsKept ==
    ASSUME Inv, NEW c \in Chats, NEW new, NewMessages(c, new)
    PROVE  Grouped(messages', disturbed')
  <1> DEFINE L == Len(messages)
             N == Len(new)
             r == response[c]
             n == messages[r].n
  <1>1. /\ messages \in Seq(Entry) /\ messages' \in Seq(Entry)
        /\ Len(messages') = L + N /\ L \in Nat /\ N \in Nat \ {0}
        /\ \A i \in 1..L : messages'[i] = messages[i]
        /\ \A i \in 1..N : messages'[L+i] = new[i]
        /\ disturbed \subseteq disturbed'
    <2>1. messages \in Seq(Entry) /\ new \in Seq(Entry) /\ new # <<>>
      BY DEF Inv, SessionInv, NewMessages
    <2>2. L \in Nat /\ N \in Nat \ {0}
      BY <2>1
    <2> HIDE DEF L, N
    <2> QED
      BY <2>1, <2>2, AddsKeeps DEF L, N
  <1>2. Grouped(messages, disturbed)
    BY DEF Inv, SessionInv
  <1> SUFFICES ASSUME NEW i \in 1..L+N, messages'[i].role = "tool"
               PROVE  InGroup(messages', disturbed', i)
    BY <1>1 DEF Grouped
  <1>3. CASE i \in 1..L
    <2>1. InGroup(messages, disturbed, i)
      BY <1>1, <1>2, <1>3 DEF Grouped
    <2>2. L <= L + N
      BY <1>1
    <2> QED
      BY <1>1, <1>3, <2>1, <2>2, GroupKept
  <1>4. CASE i \notin 1..L
    <2> DEFINE x == i - L
    <2>1. x \in 1..N /\ L + x = i
      <3> HIDE DEF L, N
      <3> QED
        BY <1>1, <1>4
    <2>2. messages'[i] = new[x]
      BY <1>1, <2>1
    <2>3. /\ at[c] = "tools" /\ new[x].n = x /\ x \in 1..n
          /\ \A j \in 1..n : /\ j <= N /\ new[j].role = "tool"
                             /\ new[j].n = j /\ new[j].of = r
      BY <2>1, <2>2 DEF NewMessages
    <2>4. /\ r \in 1..L /\ messages[r].role = "assistant"
          /\ r \notin disturbed => r = L
      BY <2>3 DEF Inv, ChatInv, Waits
    <2>5. messages'[r] = messages[r]
      BY <1>1, <2>4
    <2>6. n \in Nat /\ messages'[r].n = n
      BY <1>1, <2>4, <2>5, EntryParts
    <2>7. messages'[i].n = x /\ messages'[i].of = r
      BY <2>2, <2>3
    <2> HIDE DEF L, N, r, n, x
    <2>8. i - x = L
      BY <1>1, <2>1
    <2>9. ASSUME NEW j \in 1..n
          PROVE  /\ L+j <= L+N /\ messages'[L+j].role = "tool"
                 /\ messages'[L+j].n = j /\ messages'[L+j].of = r
      <3>1. j \in 1..N
        BY <1>1, <2>3, <2>6
      <3>2. L+j <= L+N
        BY <1>1, <3>1
      <3> QED
        BY <1>1, <2>3, <3>1, <3>2
    <2>10. r \notin disturbed' => r = L
      BY <1>1, <2>4
    <2> QED
      BY <1>1, <2>3, <2>4, <2>5, <2>6, <2>7, <2>8, <2>9, <2>10 DEF InGroup
  <1> QED
    BY <1>3, <1>4

(* A chat that adds messages, and goes on or leaves.                         *)
LEMMA ChatMoves ==
    ASSUME Inv, NEW c \in Chats, NEW new, NewMessages(c, new),
           NEW w \in {"idle", "llm", "tools"},
           NEW y \in 0..Len(messages'), NEW z \in 0..Len(messages'),
           at' = [at EXCEPT ![c] = w],
           asked' = [asked EXCEPT ![c] = y],
           response' = [response EXCEPT ![c] = z],
           w # "idle" => y > 0 /\ messages'[y].role = "user",
           w = "tools" => /\ z = Len(messages') /\ messages'[z].role = "assistant"
                          /\ messages'[z].n \in CallCounts
    PROVE  SessionInv' /\ ChatInv'
  <1> DEFINE L == Len(messages)
             M == Len(messages')
  <1>1. /\ messages' \in Seq(Entry) /\ L \in Nat /\ M \in Nat /\ M > L
        /\ \A i \in 1..L : messages'[i] = messages[i]
        /\ Numbered(messages')
        /\ disturbed' \subseteq 1..L
        /\ \A d \in Chats : d # c /\ at[d] = "tools" => response[d] \in disturbed'
    <2>1. messages \in Seq(Entry) /\ new \in Seq(Entry) /\ new # <<>>
      BY DEF Inv, SessionInv, NewMessages
    <2>2. L \in Nat /\ Len(new) \in Nat \ {0}
      BY <2>1
    <2>3. M = L + Len(new)
      BY AddsKeeps
    <2>4. M \in Nat /\ M > L
      BY <2>2, <2>3
    <2> HIDE DEF L, M
    <2> QED
      BY <2>2, <2>4, AddsKeeps DEF L
  <1>2. /\ at \in [Chats -> {"idle", "llm", "tools"}]
        /\ asked \in [Chats -> 0..L] /\ response \in [Chats -> 0..L]
        /\ \A d \in Chats : Waits(d)
    BY DEF Inv, ChatInv
  <1>3. Grouped(messages', disturbed')
    BY GroupsKept
  <1> HIDE DEF L, M
  <1>4. 1..L \subseteq 1..M /\ 0..L \subseteq 0..M /\ (\A i \in 0..M : i > 0 => i \in 1..M)
    BY <1>1
  <1>5. SessionInv'
    BY <1>1, <1>3, <1>4 DEF SessionInv, M
  <1>6. /\ at' \in [Chats -> {"idle", "llm", "tools"}]
        /\ asked' \in [Chats -> 0..M] /\ response' \in [Chats -> 0..M]
    BY <1>2, <1>4 DEF M
  <1>7. ASSUME NEW d \in Chats PROVE Waits(d)'
    <2>1. CASE d = c
      <3>1. at'[d] = w /\ asked'[d] = y /\ response'[d] = z
        BY <1>2, <2>1
      <3>2. w = "tools" => z \in 1..M
        <4>1. M \in 1..M
          BY <1>1
        <4> QED
          BY <4>1 DEF M
      <3>3. y > 0 => y \in 1..M
        BY <1>4 DEF M
      <3> QED
        BY <3>1, <3>2, <3>3 DEF Waits, M
    <2>2. CASE d # c
      <3>1. at'[d] = at[d] /\ asked'[d] = asked[d] /\ response'[d] = response[d]
        BY <1>2, <2>2
      <3>2. Waits(d)
        BY <1>2
      <3>3. at[d] # "idle" => /\ asked[d] \in 1..M
                              /\ messages'[asked[d]].role = "user"
        BY <1>1, <1>4, <3>2 DEF Waits, L
      <3>4. at[d] = "tools" =>
              /\ response[d] \in 1..M
              /\ messages'[response[d]].role = "assistant"
              /\ messages'[response[d]].n \in CallCounts
        BY <1>1, <1>4, <3>2 DEF Waits, L
      <3>5. at[d] = "tools" => response[d] \in disturbed'
        BY <1>1, <2>2
      <3> QED
        BY <3>1, <3>3, <3>4, <3>5 DEF Waits, M
    <2> QED
      BY <2>1, <2>2
  <1> QED
    BY <1>5, <1>6, <1>7 DEF ChatInv, M

(* The latest context stays what it was.                                     *)
LEMMA BuildStays ==
    ASSUME Inv, NEW c \in Chats, NEW new, NewMessages(c, new),
           UNCHANGED buildVars
    PROVE  BuildInv'
  <1>1. context' = context /\ seen' = seen /\ own' = own
    BY DEF buildVars
  <1>2. CASE context = <<>> /\ seen = 0 /\ own = 0
    BY <1>1, <1>2 DEF BuildInv
  <1>3. CASE ~(context = <<>> /\ seen = 0 /\ own = 0)
    <2>1. /\ seen \in 1..Len(messages) /\ own \in 1..seen
          /\ messages[own].role = "user"
          /\ context = Build(SubSeq(messages, 1, seen))
          /\ Grouped(SubSeq(messages, 1, seen), disturbed)
      BY <1>3 DEF Inv, BuildInv
    <2> DEFINE ms == SubSeq(messages, 1, seen)
    <2>2. /\ messages \in Seq(Entry) /\ Len(messages) \in Nat /\ Len(new) \in Nat
          /\ Len(messages') = Len(messages) + Len(new)
          /\ \A i \in 1..Len(messages) : messages'[i] = messages[i]
          /\ \A k \in 1..Len(messages) :
               SubSeq(messages', 1, k) = SubSeq(messages, 1, k)
          /\ disturbed \subseteq disturbed'
      <3>1. messages \in Seq(Entry) /\ new \in Seq(Entry)
        BY DEF Inv, SessionInv, NewMessages
      <3>2. Len(messages) \in Nat /\ Len(new) \in Nat
        BY <3>1
      <3> QED
        BY <3>1, <3>2, AddsKeeps
    <2>3. /\ SubSeq(messages', 1, seen) = ms
          /\ seen \in 1..Len(messages') /\ own \in 1..Len(messages)
          /\ ms \in Seq(Entry)
      BY <2>1, <2>2
    <2>4. messages'[own].role = "user"
      BY <2>1, <2>2, <2>3
    <2> HIDE DEF ms
    <2>5. Grouped(ms, disturbed')
      <3> SUFFICES ASSUME NEW i \in 1..Len(ms), ms[i].role = "tool"
                   PROVE  InGroup(ms, disturbed', i)
        BY DEF Grouped
      <3>1. InGroup(ms, disturbed, i)
        BY <2>1 DEF Grouped, ms
      <3>2. Len(ms) <= Len(ms)
        BY <2>3
      <3> QED
        BY <2>2, <2>3, <3>1, <3>2, GroupKept
    <2> QED
      BY <1>1, <2>1, <2>3, <2>4, <2>5 DEF BuildInv, ms
  <1> QED
    BY <1>2, <1>3

LEMMA BuildGoes ==
    ASSUME Inv, NEW c \in Chats, NEW new, NewMessages(c, new),
           context' = Build(messages'), seen' = Len(messages'),
           own' \in 1..Len(messages'), messages'[own'].role = "user"
    PROVE  BuildInv'
  <1>1. /\ messages' \in Seq(Entry) /\ Len(messages') \in Nat
        /\ Grouped(messages', disturbed')
    BY AddsKeeps, GroupsKept
  <1>2. SubSeq(messages', 1, Len(messages')) = messages'
    BY <1>1
  <1>3. Len(messages') \in 1..Len(messages')
    BY <1>1
  <1> QED
    BY <1>1, <1>2, <1>3 DEF BuildInv

LEMMA OneAdded ==
    ASSUME Inv, NEW c \in Chats, NEW role \in {"user", "assistant"},
           NEW n \in Nat, NEW size \in Sizes,
           Adds(c, <<Message(role, n, size, Len(messages) + 1, 0)>>)
    PROVE  /\ NewMessages(c, <<Message(role, n, size, Len(messages) + 1, 0)>>)
           /\ Len(messages') = Len(messages) + 1
           /\ Len(messages) + 1 \in 1..Len(messages')
           /\ messages'[Len(messages)+1].role = role
           /\ messages'[Len(messages)+1].n = n
  <1> DEFINE m == Message(role, n, size, Len(messages) + 1, 0)
             new == <<m>>
             L == Len(messages)
  <1>1. messages \in Seq(Entry) /\ L \in Nat
    BY DEF Inv, SessionInv
  <1>2. L + 1 \in 0..MaxMessages /\ 0 \in 0..MaxMessages
    BY <1>1, ContextAssumption DEF Adds, Room
  <1>3. /\ m \in Entry /\ m.role = role /\ m.place = L + 1 /\ m.n = n
    BY <1>2, ContextAssumption DEF Message, Entry
  <1>4. messages' = messages \o new /\ Adds(c, new)
    BY DEF Adds
  <1> HIDE DEF m, L
  <1>5. new \in Seq(Entry) /\ new # <<>> /\ Len(new) = 1 /\ new[1] = m
    BY <1>3
  <1> HIDE DEF new
  <1>6. NewMessages(c, new)
    <2>1. \A i \in 1..Len(new) : i = 1 /\ new[i] = m
      BY <1>5
    <2>2. m.role # "tool" /\ m.role \in {"user", "assistant", "tool"}
      BY <1>3
    <2>3. \A i \in 1..Len(new) : /\ new[i].place = L + i
                                 /\ new[i].role \in {"user", "assistant", "tool"}
                                 /\ new[i].role # "tool"
      BY <1>3, <2>1, <2>2
    <2> QED
      BY <1>4, <1>5, <2>3 DEF NewMessages, L
  <1>7. Len(messages') = L + 1 /\ messages'[L+1] = m
    <2>1. /\ Len(messages') = L + Len(new)
          /\ \A i \in 1..Len(new) : messages'[L+i] = new[i]
      BY <1>6, AddsKeeps DEF L
    <2> QED
      BY <1>5, <2>1
  <1>8. L + 1 \in 1..L+1
    BY <1>1
  <1> QED
    BY <1>3, <1>6, <1>7, <1>8 DEF new, m, L

(* The results of the response a chat awaits, and what may come after them.  *)
LEMMA ResultsAdded ==
    ASSUME Inv, NEW c \in Chats, at[c] = "tools", NEW size \in Sizes,
           NEW new, Adds(c, new), NEW last, last.role = "assistant",
           last.place = Len(messages) + messages[response[c]].n + 1,
           last \in [role : {"assistant"}, n : Nat, size : Nat,
                     place : Nat, of : {0}],
           \/ new = Results(response[c], size, Len(messages) + 1)
           \/ new = Append(Results(response[c], size, Len(messages) + 1), last)
    PROVE  NewMessages(c, new)
  <1> DEFINE L == Len(messages)
             r == response[c]
             n == messages[r].n
             res == Results(r, size, L + 1)
             N == Len(new)
  <1>1. messages \in Seq(Entry) /\ L \in Nat
    BY DEF Inv, SessionInv
  <1>2. r \in 1..L /\ n \in Nat \ {0}
    BY ContextAssumption DEF Inv, ChatInv, Waits
  <1>3. size \in Nat /\ MaxMessages \in Nat
    BY ContextAssumption
  <1>4. L + N <= MaxMessages
    BY DEF Adds, Room
  <1>5. res = [i \in 1..n |-> Message("tool", i, size, L + 1 + i - 1, r)]
    BY DEF Results
  <1> HIDE DEF L, r, n, res, N
  <1>6. /\ Len(res) = n
        /\ \A i \in 1..n : /\ res[i].role = "tool" /\ res[i].n = i
                           /\ res[i].place = L + i /\ res[i].of = r
                           /\ res[i] = Message("tool", i, size, L + i, r)
    <2>1. \A i \in 1..n : L + 1 + i - 1 = L + i
      BY <1>1, <1>2
    <2>2. \A i \in 1..n : res[i] = Message("tool", i, size, L + i, r)
      BY <1>5, <2>1
    <2>3. \A i, p : /\ Message("tool", i, size, p, r).role = "tool"
                    /\ Message("tool", i, size, p, r).n = i
                    /\ Message("tool", i, size, p, r).place = p
                    /\ Message("tool", i, size, p, r).of = r
      BY DEF Message
    <2>4. Len(res) = n
      BY <1>2, <1>5
    <2> QED
      BY <2>2, <2>3, <2>4
  <1>7. /\ N \in {n, n + 1} /\ \A i \in 1..n : new[i] = res[i]
        /\ N = n + 1 => new[N] = last
        /\ new = [i \in 1..N |-> new[i]]
    <2> DEFINE S == { res[i] : i \in 1..n } \cup {last}
    <2>1. res \in [1..n -> S] /\ last \in S
      BY <1>5
    <2> HIDE DEF S
    <2>2. CASE new = res
      BY <1>2, <1>6, <2>1, <2>2 DEF N
    <2>3. CASE new = Append(res, last)
      <3>1. res \in Seq(S) /\ n \in Nat /\ Len(res) = n
        BY <1>2, <1>6, <2>1
      <3>2. /\ N = n + 1 /\ new[n+1] = last
            /\ \A i \in 1..n : new[i] = res[i]
            /\ new \in Seq(S)
        BY <2>1, <2>3, <3>1 DEF N
      <3> QED
        BY <3>2 DEF N
    <2> QED
      BY <2>2, <2>3 DEF res, r, L
  <1>8. N \in Nat \ {0} /\ n <= N /\ 1..n \subseteq 1..N
    BY <1>2, <1>7
  <1>9. ASSUME NEW i \in 1..N
        PROVE  /\ new[i] \in Entry /\ new[i].place = L + i
               /\ new[i].role \in {"user", "assistant", "tool"}
               /\ new[i].role = "tool" => i \in 1..n /\ new[i].n = i
    <2>1. L + i \in 0..MaxMessages /\ r \in 0..MaxMessages /\ 0 \in 0..MaxMessages
      BY <1>1, <1>2, <1>3, <1>4, <1>8
    <2>2. CASE i \in 1..n
      <3>1. Message("tool", i, size, L + i, r) \in Entry
        <4>1. i \in Nat
          OBVIOUS
        <4> QED
          BY <1>3, <2>1, <4>1 DEF Message, Entry
      <3>2. new[i] = res[i]
        BY <1>7, <2>2
      <3>3. new[i] \in Entry
        BY <1>6, <2>2, <3>1, <3>2
      <3>4. new[i].role = "tool" /\ new[i].n = i /\ new[i].place = L + i
        BY <1>6, <2>2, <3>2
      <3> QED
        BY <2>2, <3>3, <3>4
    <2>3. CASE i = n + 1 /\ N = n + 1
      <3>1. last.place = L + i /\ new[i] = last
        <4>1. last.place = L + n + 1 /\ L + n + 1 = L + (n + 1)
          BY <1>1, <1>2 DEF L, n, r
        <4> QED
          BY <1>7, <2>3, <4>1
      <3>2. last \in Entry
        BY <2>1, <3>1 DEF Entry
      <3> QED
        BY <3>1, <3>2
    <2>4. i \in 1..n \/ (i = n + 1 /\ N = n + 1)
      BY <1>2, <1>7
    <2> QED
      BY <2>2, <2>3, <2>4
  <1>10. new \in Seq(Entry) /\ new # <<>>
    <2>1. new \in [1..N -> Entry]
      BY <1>7, <1>9
    <2>2. new \in Seq(Entry)
      BY <1>8, <2>1
    <2>3. N # 0
      BY <1>8
    <2> QED
      BY <2>2, <2>3 DEF N
  <1>11. \A j \in 1..n : /\ j <= N /\ new[j].role = "tool"
                         /\ new[j].n = j /\ new[j].of = r
    <2> SUFFICES ASSUME NEW j \in 1..n
                 PROVE  /\ j <= N /\ new[j].role = "tool"
                        /\ new[j].n = j /\ new[j].of = r
      OBVIOUS
    <2>1. new[j] = res[j]
      BY <1>7
    <2>2. j <= N
      BY <1>2, <1>8
    <2> QED
      BY <1>6, <2>1, <2>2
  <1> QED
    BY <1>9, <1>10, <1>11 DEF NewMessages, N, n, r, L

LEMMA InvInit == Init => Inv
  <1> SUFFICES ASSUME Init PROVE Inv
    OBVIOUS
  <1>1. /\ messages = <<>> /\ disturbed = {}
        /\ context = <<>> /\ seen = 0 /\ own = 0
        /\ at = [c \in Chats |-> "idle"]
        /\ asked = [c \in Chats |-> 0] /\ response = [c \in Chats |-> 0]
    BY DEF Init
  <1>2. messages \in Seq(Entry) /\ 1..Len(messages) = {} /\ 0 \in 0..Len(messages)
    BY <1>1
  <1>3. SessionInv
    BY <1>1, <1>2 DEF SessionInv, Numbered, Grouped
  <1>4. ChatInv
    BY <1>1, <1>2 DEF ChatInv, Waits
  <1> QED
    BY <1>1, <1>3, <1>4 DEF Inv, BuildInv

(* Each action keeps the invariant.                                          *)
LEMMA AskKeeps ==
    ASSUME Inv, NEW c \in Chats, NEW size \in Sizes, Ask(c, size)
    PROVE  Inv'
  <1> DEFINE place == Len(messages) + 1
             new == <<Message("user", 0, size, place, 0)>>
  <1>1. /\ Adds(c, new) /\ Rounds(c)
        /\ asked' = [asked EXCEPT ![c] = place]
    BY DEF Ask
  <1>2. /\ NewMessages(c, new) /\ place \in 1..Len(messages')
        /\ messages'[place].role = "user"
    BY <1>1, OneAdded
  <1>3. /\ at' = [at EXCEPT ![c] = "llm"]
        /\ response' = [response EXCEPT ![c] = 0]
        /\ context' = Build(messages') /\ seen' = Len(messages')
        /\ own' = asked'[c]
    BY <1>1 DEF Rounds
  <1>4. Len(messages') \in Nat
    BY <1>2, AddsKeeps
  <1>5. place \in 0..Len(messages') /\ 0 \in 0..Len(messages') /\ place > 0
    BY <1>2, <1>4
  <1> HIDE DEF place, new
  <1>6. SessionInv' /\ ChatInv'
    BY <1>1, <1>2, <1>3, <1>5, ChatMoves
  <1>7. own' = place
    BY <1>1, <1>3 DEF Inv, ChatInv
  <1>8. BuildInv'
    BY <1>2, <1>3, <1>7, BuildGoes
  <1> QED
    BY <1>6, <1>8 DEF Inv

LEMMA AnswerKeeps ==
    ASSUME Inv, NEW c \in Chats, NEW size \in Sizes, Answer(c, size)
    PROVE  Inv'
  <1> DEFINE new == <<Message("assistant", 0, size, Len(messages) + 1, 0)>>
  <1>1. Adds(c, new) /\ Leaves(c)
    BY DEF Answer, Assistant
  <1>2. NewMessages(c, new)
    BY <1>1, OneAdded
  <1>3. /\ at' = [at EXCEPT ![c] = "idle"]
        /\ asked' = [asked EXCEPT ![c] = 0]
        /\ response' = [response EXCEPT ![c] = 0]
        /\ UNCHANGED buildVars
    BY <1>1 DEF Leaves
  <1>4. 0 \in 0..Len(messages')
    <2>1. Len(messages') \in Nat
      BY <1>2, AddsKeeps
    <2> QED
      BY <2>1
  <1> HIDE DEF new
  <1>5. SessionInv' /\ ChatInv'
    BY <1>2, <1>3, <1>4, ChatMoves
  <1>6. BuildInv'
    BY <1>2, <1>3, BuildStays
  <1> QED
    BY <1>5, <1>6 DEF Inv

LEMMA AskToolsKeeps ==
    ASSUME Inv, NEW c \in Chats, NEW size \in Sizes, NEW n \in CallCounts,
           AskTools(c, n, size)
    PROVE  Inv'
  <1> DEFINE place == Len(messages) + 1
             new == <<Message("assistant", n, size, place, 0)>>
  <1>1. /\ at[c] = "llm" /\ Adds(c, new)
        /\ at' = [at EXCEPT ![c] = "tools"]
        /\ response' = [response EXCEPT ![c] = place]
        /\ UNCHANGED asked /\ UNCHANGED buildVars
    BY DEF AskTools, Assistant
  <1>2. n \in Nat
    BY ContextAssumption
  <1>3. /\ NewMessages(c, new) /\ place \in 1..Len(messages')
        /\ Len(messages') = place
        /\ messages'[place].role = "assistant" /\ messages'[place].n = n
    BY <1>1, <1>2, OneAdded
  <1>4. /\ asked[c] \in 1..Len(messages) /\ messages[asked[c]].role = "user"
        /\ asked' = [asked EXCEPT ![c] = asked[c]]
    BY <1>1 DEF Inv, ChatInv, Waits
  <1>5. messages'[asked[c]] = messages[asked[c]]
    BY <1>3, <1>4, AddsKeeps
  <1>6. /\ asked[c] \in 0..Len(messages') /\ asked[c] > 0
        /\ place \in 0..Len(messages')
    <2>1. Len(messages) \in Nat
      BY DEF Inv, SessionInv
    <2> QED
      BY <1>3, <1>4, <2>1
  <1> HIDE DEF new, place
  <1>7. SessionInv' /\ ChatInv'
    BY <1>1, <1>3, <1>4, <1>5, <1>6, ChatMoves
  <1>8. BuildInv'
    BY <1>1, <1>3, BuildStays
  <1> QED
    BY <1>7, <1>8 DEF Inv

LEMMA ToolsDoneKeeps ==
    ASSUME Inv, NEW c \in Chats, NEW size \in Sizes, ToolsDone(c, size)
    PROVE  Inv'
  <1> DEFINE new == Results(response[c], size, Len(messages) + 1)
             n == messages[response[c]].n
             last == Assistant(0, size, Len(messages) + n + 1)
  <1>1. /\ at[c] = "tools" /\ Adds(c, new) /\ UNCHANGED asked /\ Rounds(c)
    BY DEF ToolsDone
  <1>2. Len(messages) \in Nat /\ n \in Nat /\ size \in Nat
    <2>1. n \in CallCounts
      BY <1>1 DEF Inv, ChatInv, Waits
    <2>2. Len(messages) \in Nat
      BY DEF Inv, SessionInv
    <2> HIDE DEF n
    <2> QED
      BY <2>1, <2>2, ContextAssumption
  <1>3. /\ last.role = "assistant" /\ last.place = Len(messages) + n + 1
        /\ last \in [role : {"assistant"}, n : Nat, size : Nat,
                     place : Nat, of : {0}]
    BY <1>2 DEF Assistant, Message
  <1> HIDE DEF new, last
  <1>4. NewMessages(c, new)
    BY <1>1, <1>3, ResultsAdded DEF new
  <1>5. /\ at' = [at EXCEPT ![c] = "llm"]
        /\ response' = [response EXCEPT ![c] = 0]
        /\ context' = Build(messages') /\ seen' = Len(messages')
        /\ own' = asked'[c]
    BY <1>1 DEF Rounds
  <1>6. /\ asked[c] \in 1..Len(messages) /\ messages[asked[c]].role = "user"
        /\ asked' = [asked EXCEPT ![c] = asked[c]]
    BY <1>1 DEF Inv, ChatInv, Waits
  <1>7. messages'[asked[c]] = messages[asked[c]] /\ Len(messages') = Len(messages) + Len(new)
        /\ Len(new) > 0
    BY <1>4, <1>6, AddsKeeps
  <1>8. /\ asked[c] \in 0..Len(messages') /\ asked[c] > 0
        /\ asked[c] \in 1..Len(messages') /\ 0 \in 0..Len(messages')
    <2>1. Len(new) \in Nat
      BY <1>4 DEF NewMessages
    <2> QED
      BY <1>2, <1>6, <1>7, <2>1
  <1>9. SessionInv' /\ ChatInv'
    BY <1>4, <1>5, <1>6, <1>7, <1>8, ChatMoves
  <1>10. own' = asked[c]
    BY <1>1, <1>5
  <1>11. BuildInv'
    BY <1>4, <1>5, <1>6, <1>7, <1>8, <1>10, BuildGoes
  <1> QED
    BY <1>9, <1>11 DEF Inv

LEMMA FallbackKeeps ==
    ASSUME Inv, NEW c \in Chats, NEW size \in Sizes, Fallback(c, size)
    PROVE  Inv'
  <1> DEFINE res == Results(response[c], size, Len(messages) + 1)
             n == messages[response[c]].n
             last == Assistant(0, size, Len(messages) + n + 1)
             new == Append(res, last)
  <1>1. n \in Nat \ {0} /\ size \in Nat /\ Len(messages) \in Nat
    <2>1. n \in CallCounts
      BY DEF Fallback, Inv, ChatInv, Waits
    <2>2. Len(messages) \in Nat
      BY DEF Inv, SessionInv
    <2> HIDE DEF n
    <2> QED
      BY <2>1, <2>2, ContextAssumption
  <1>2. Len(res) = n
    BY <1>1 DEF Results
  <1>3. at[c] = "tools" /\ Adds(c, new) /\ Leaves(c)
    BY <1>2 DEF Fallback
  <1>4. /\ last.role = "assistant" /\ last.place = Len(messages) + n + 1
        /\ last \in [role : {"assistant"}, n : Nat, size : Nat,
                     place : Nat, of : {0}]
    BY <1>1 DEF Assistant, Message
  <1> HIDE DEF last, new
  <1>5. NewMessages(c, new)
    BY <1>3, <1>4, ResultsAdded DEF new
  <1>6. /\ at' = [at EXCEPT ![c] = "idle"]
        /\ asked' = [asked EXCEPT ![c] = 0]
        /\ response' = [response EXCEPT ![c] = 0]
        /\ UNCHANGED buildVars
    BY <1>3 DEF Leaves
  <1>7. 0 \in 0..Len(messages')
    <2>1. Len(messages') \in Nat
      BY <1>5, AddsKeeps
    <2> QED
      BY <2>1
  <1>8. SessionInv' /\ ChatInv'
    BY <1>5, <1>6, <1>7, ChatMoves
  <1>9. BuildInv'
    BY <1>5, <1>6, BuildStays
  <1> QED
    BY <1>8, <1>9 DEF Inv

LEMMA GiveUpKeeps ==
    ASSUME Inv, NEW c \in Chats, GiveUp(c)
    PROVE  Inv'
  <1>1. /\ messages' = messages /\ disturbed' = disturbed
        /\ at' = [at EXCEPT ![c] = "idle"]
        /\ asked' = [asked EXCEPT ![c] = 0]
        /\ response' = [response EXCEPT ![c] = 0]
        /\ context' = context /\ seen' = seen /\ own' = own
    BY DEF GiveUp, Leaves, buildVars
  <1>2. SessionInv' /\ BuildInv'
    BY <1>1 DEF Inv, SessionInv, BuildInv
  <1>3. 0 \in 0..Len(messages)
    BY DEF Inv, SessionInv
  <1>4. /\ at' \in [Chats -> {"idle", "llm", "tools"}]
        /\ asked' \in [Chats -> 0..Len(messages)]
        /\ response' \in [Chats -> 0..Len(messages)]
    BY <1>1, <1>3 DEF Inv, ChatInv
  <1>5. ASSUME NEW d \in Chats PROVE Waits(d)'
    <2>1. CASE d = c
      BY <1>1, <2>1 DEF Inv, ChatInv, Waits
    <2>2. CASE d # c
      BY <1>1, <2>2 DEF Inv, ChatInv, Waits
    <2> QED
      BY <2>1, <2>2
  <1> QED
    BY <1>1, <1>2, <1>4, <1>5 DEF Inv, ChatInv

LEMMA InvStep == Inv /\ [Next]_vars => Inv'
  <1> SUFFICES ASSUME Inv, [Next]_vars PROVE Inv'
    OBVIOUS
  <1>1. CASE Next
    BY <1>1, AskKeeps, AnswerKeeps, AskToolsKeeps, ToolsDoneKeeps,
       FallbackKeeps, GiveUpKeeps DEF Next
  <1>2. CASE UNCHANGED vars
    BY <1>2 DEF vars, chatVars, buildVars, Inv, SessionInv, ChatInv, Waits,
                BuildInv
  <1> QED
    BY <1>1, <1>2

LEMMA InvAlways == Spec => []Inv
  BY InvInit, InvStep, PTL DEF Spec
-----------------------------------------------------------------------------
(* What follows of the context from the shape of what build returns: it      *)
(* shows the messages of ms from a on.                                       *)
Shows(c, ms, a) ==
    LET part == SubSeq(ms, a, Len(ms))
    IN  /\ c \in Seq(Entry) /\ Len(c) > 1 /\ c[1] = SystemPrompt
        /\ \/ c[2].role # "summary" /\ SubSeq(c, 2, Len(c)) = part
           \/ /\ c[2].role = "summary" /\ SubSeq(c, 3, Len(c)) = part
              /\ a > 1 /\ c[2].n > 0
              /\ Tokens(Tail(c)) <= Available + Overhead

(* The messages from a on. *)
LEMMA Rest ==
    ASSUME NEW ms \in Seq(Entry), NEW a \in 1..Len(ms)
    PROVE  LET part == SubSeq(ms, a, Len(ms))
           IN  /\ part \in Seq(Entry) /\ Len(part) = Len(ms) - a + 1
               /\ Len(part) \in Nat \ {0}
               /\ \A i \in 1..Len(part) : a+i-1 \in 1..Len(ms)
                                          /\ part[i] = ms[a+i-1]
  <1> DEFINE part == SubSeq(ms, a, Len(ms))
             L == Len(ms)
  <1>1. L \in Nat /\ \A i \in 1..L : ms[i] \in Entry
    BY EntryParts
  <1>2. a..L \subseteq 1..L /\ L - a + 1 \in Nat \ {0} /\ a <= L
    BY <1>1
  <1>3. /\ part \in Seq(Entry) /\ Len(part) = L - a + 1
        /\ \A i \in 1..L-a+1 : part[i] = ms[a+i-1]
    BY <1>1, <1>2, SubSeqOf
  <1>4. \A i \in 1..L-a+1 : a+i-1 \in 1..L
    <2> HIDE DEF L
    <2> QED
      BY <1>1
  <1> QED
    BY <1>2, <1>3, <1>4

LEMMA ShownIs ==
    ASSUME NEW ms \in Seq(Entry), Numbered(ms), NEW c, NEW a \in 1..Len(ms),
           ShownFrom(ms, c, a)
    PROVE  Shows(c, ms, a)
  <1> DEFINE L == Len(ms)
             part == SubSeq(ms, a, L)
  <1>1. /\ part \in Seq(Entry) /\ Len(part) \in Nat \ {0}
        /\ \A i \in 1..Len(part) : a+i-1 \in 1..L /\ part[i] = ms[a+i-1]
    BY Rest
  <1>2. part[1].role # "summary"
    <2>1. 1 \in 1..Len(part) /\ a+1-1 = a
      BY <1>1
    <2> QED
      BY <1>1, <2>1 DEF Numbered
  <1> HIDE DEF part
  <1>3. CASE c = <<SystemPrompt>> \o part
    <2>1. /\ c \in Seq(Entry) /\ Len(c) = Len(part) + 1 /\ c[1] = SystemPrompt
          /\ c[2] = part[1]
      BY <1>1, <1>3, PromptTyped
    <2>2. SubSeq(c, 2, Len(c)) = part
      BY <1>1, <1>3, <2>1, PromptTyped
    <2>3. Len(c) > 1
      BY <1>1, <2>1
    <2> QED
      BY <1>2, <2>1, <2>2, <2>3 DEF Shows, part
  <1>4. CASE WithSummary(ms, c, a)
    <2>1. PICK s \in Entry :
            /\ c = <<SystemPrompt, s>> \o part
            /\ s.role = "summary" /\ s.n > 0
            /\ s.size + Tokens(part) <= Available + Overhead
      BY <1>4 DEF WithSummary, part
    <2>2. /\ c \in Seq(Entry) /\ Len(c) = Len(part) + 2 /\ c[1] = SystemPrompt
          /\ c[2] = s
      BY <1>1, <2>1, PromptTyped
    <2>3. SubSeq(c, 3, Len(c)) = part
      BY <1>1, <2>1, <2>2, PromptTyped
    <2>4. Len(c) > 1
      BY <1>1, <2>2
    <2>5. Tail(c) = <<s>> \o part
      <3>1. c = <<SystemPrompt>> \o (<<s>> \o part)
        BY <1>1, <2>1, PromptTyped, TwoInFront
      <3>2. \A t \in Seq(Entry) : Tail(<<SystemPrompt>> \o t) = t
        BY PromptTyped
      <3>3. <<s>> \o part \in Seq(Entry)
        BY <1>1
      <3> QED
        BY <3>1, <3>2, <3>3
    <2>6. Tokens(Tail(c)) = s.size + Tokens(part)
      BY <1>1, <2>5, TokensInFront
    <2>7. a > 1
      BY <1>4 DEF WithSummary
    <2> QED
      BY <2>1, <2>2, <2>3, <2>4, <2>6, <2>7 DEF Shows, part
  <1> QED
    BY <1>3, <1>4 DEF ShownFrom, part

LEMMA StartIn ==
    ASSUME NEW ms \in Seq(Entry), ms # <<>>, NEW a, ShownFrom(ms, Build(ms), a)
    PROVE  a \in 1..Len(ms)
  <1>1. a \in Start(ms)..Len(ms) /\ Start(ms) \in 1..Len(ms) /\ Len(ms) \in Nat
    BY WindowCut DEF ShownFrom
  <1> QED
    BY <1>1

(* The context that was built last shows the end of the session as it was.   *)
(* The context that was built last shows the end of the session as it was.   *)
Before == SubSeq(messages, 1, seen)

LEMMA BuiltOf ==
    ASSUME Inv, Built
    PROVE  /\ messages \in Seq(Entry) /\ Len(messages) \in Nat
           /\ Before \in Seq(Entry) /\ Len(Before) = seen
           /\ seen \in 1..Len(messages) /\ own \in 1..seen
           /\ \A i \in 1..seen : Before[i] = messages[i]
           /\ messages[own].role = "user"
           /\ Numbered(Before) /\ Grouped(Before, disturbed)
           /\ context = Build(Before)
  <1>1. /\ seen \in 1..Len(messages) /\ own \in 1..seen
        /\ messages[own].role = "user"
        /\ context = Build(Before) /\ Grouped(Before, disturbed)
    BY DEF Inv, BuildInv, Built, Before
  <1>2. /\ messages \in Seq(Entry) /\ Numbered(messages)
        /\ Len(messages) \in Nat
    BY DEF Inv, SessionInv
  <1>3. /\ Before \in Seq(Entry) /\ Len(Before) = seen
        /\ \A i \in 1..seen : Before[i] = messages[i]
    BY <1>1, <1>2 DEF Before
  <1>4. \A i \in 1..seen : i \in 1..Len(messages)
    BY <1>1, <1>2
  <1>5. Numbered(Before)
    BY <1>2, <1>3, <1>4 DEF Numbered
  <1> QED
    BY <1>1, <1>2, <1>3, <1>5

LEMMA BuiltShows ==
    ASSUME Inv, Built
    PROVE  \E a \in 1..seen :
             /\ ShownFrom(Before, context, a)
             /\ Shows(context, Before, a)
             /\ Shown = SubSeq(Before, a, seen)
  <1>1. /\ Before \in Seq(Entry) /\ Len(Before) = seen /\ Numbered(Before)
        /\ context = Build(Before) /\ seen \in 1..Len(messages)
        /\ Len(messages) \in Nat
    BY BuiltOf
  <1>2. Before # <<>>
    BY <1>1
  <1>3. PICK a : ShownFrom(Before, Build(Before), a)
    BY <1>1, <1>2, BuildShape
  <1>4. a \in 1..seen
    BY <1>1, <1>2, <1>3, StartIn
  <1>5. Shows(context, Before, a)
    BY <1>1, <1>3, <1>4, ShownIs
  <1>6. Shown = SubSeq(Before, a, seen)
    BY <1>1, <1>5 DEF Shown, Summarised, Shows
  <1> QED
    BY <1>1, <1>3, <1>4, <1>5, <1>6

(* Contexts, the session they are built from and what its chats await are    *)
(* typed at all times (models/session.py, core/context_builder.py).          *)
THEOREM TypeCorrect == Spec => []TypeOK
  <1>1. Inv => TypeOK
    <2> SUFFICES ASSUME Inv PROVE TypeOK
      OBVIOUS
    <2>1. /\ messages \in Seq(Entry) /\ disturbed \subseteq 1..Len(messages)
          /\ at \in [Chats -> {"idle", "llm", "tools"}]
          /\ asked \in [Chats -> 0..Len(messages)]
          /\ response \in [Chats -> 0..Len(messages)]
          /\ Len(messages) \in Nat
      BY DEF Inv, SessionInv, ChatInv
    <2>2. CASE Built
      <3>1. context \in Seq(Entry)
        BY <2>2, BuiltShows DEF Shows
      <3>2. seen \in 1..Len(messages) /\ own \in 1..seen
        BY <2>2, BuiltOf
      <3>3. seen \in 0..Len(messages) /\ own \in 0..seen
        BY <2>1, <3>2
      <3> QED
        BY <2>1, <3>1, <3>3 DEF TypeOK
    <2>3. CASE ~Built
      <3>1. context = <<>> /\ seen \in 0..Len(messages) /\ own \in 0..seen
        BY <2>1, <2>3 DEF Built, Inv, BuildInv
      <3>2. context \in Seq(Entry)
        BY <3>1
      <3> QED
        BY <2>1, <3>1, <3>2 DEF TypeOK
    <2> QED
      BY <2>2, <2>3
  <1> QED
    BY <1>1, InvAlways, PTL

(* ContextBuilder.build, for any window, budget and number of kept turns and *)
(* however the chats of the session interleave: after the prompt, and a      *)
(* summary if there is one, the context is an unbroken run of the session's  *)
(* messages that ends with the one that was the newest.                      *)
THEOREM SuffixKept == Spec => []ContextIsSuffix
  <1>1. Inv => ContextIsSuffix
    <2> SUFFICES ASSUME Inv, Built
                 PROVE  /\ context[1] = SystemPrompt
                        /\ Shown # <<>>
                        /\ Shown = SubSeq(messages, seen - Len(Shown) + 1, seen)
      BY DEF ContextIsSuffix
    <2>1. /\ Before \in Seq(Entry) /\ Len(Before) = seen
          /\ messages \in Seq(Entry) /\ Len(messages) \in Nat
          /\ seen \in 1..Len(messages)
          /\ \A i \in 1..seen : Before[i] = messages[i]
      BY BuiltOf
    <2>2. PICK a \in 1..seen : /\ Shows(context, Before, a)
                               /\ Shown = SubSeq(Before, a, seen)
      BY BuiltShows
    <2>3. /\ Len(Shown) = seen - a + 1 /\ Len(Shown) \in Nat \ {0}
          /\ Shown \in Seq(Entry)
          /\ \A i \in 1..Len(Shown) : a+i-1 \in 1..seen
                                      /\ Shown[i] = Before[a+i-1]
      BY <2>1, <2>2, Rest
    <2>4. seen - Len(Shown) + 1 = a /\ Shown # <<>>
      BY <2>1, <2>3
    <2> DEFINE part == SubSeq(messages, a, seen)
    <2>5. /\ part \in Seq(Entry) /\ Len(part) = seen - a + 1
          /\ \A i \in 1..seen - a + 1 : part[i] = messages[a+i-1]
      BY <2>1
    <2>6. Shown = part
      <3> HIDE DEF part
      <3>1. \A i \in 1..Len(Shown) : Shown[i] = part[i]
        BY <2>1, <2>3, <2>5
      <3> QED
        BY <2>3, <2>5, <3>1
    <2> QED
      BY <2>2, <2>4, <2>6 DEF Shows
  <1> QED
    BY <1>1, InvAlways, PTL

(* _summarize_turns and build: a summary, with the messages after it, costs  *)
(* at most the budget and the overhead of one message, and stands for turns  *)
(* that are not shown.                                                       *)
THEOREM SummaryFitsKept == Spec => []SummaryFits
  <1>1. Inv => SummaryFits
    <2> SUFFICES ASSUME Inv, Built, Summarised
                 PROVE  /\ Tokens(Tail(context)) <= Available + Overhead
                        /\ context[2].n > 0
                        /\ Len(Shown) < seen
      BY DEF SummaryFits
    <2>1. /\ Before \in Seq(Entry) /\ Len(Before) = seen
          /\ seen \in 1..Len(messages) /\ Len(messages) \in Nat
      BY BuiltOf
    <2>2. PICK a \in 1..seen : /\ Shows(context, Before, a)
                               /\ Shown = SubSeq(Before, a, seen)
      BY BuiltShows
    <2>3. /\ a > 1 /\ context[2].n > 0
          /\ Tokens(Tail(context)) <= Available + Overhead
      BY <2>2 DEF Shows, Summarised
    <2>4. Len(Shown) = seen - a + 1
      BY <2>1, <2>2, Rest
    <2> QED
      BY <2>1, <2>3, <2>4
  <1> QED
    BY <1>1, InvAlways, PTL

-----------------------------------------------------------------------------
(* The users' messages in a part of the session are those of the session     *)
(* that stand there.                                                         *)
LEMMA UsersInType ==
    ASSUME NEW ms, NEW a \in Nat, NEW b \in Nat
    PROVE  /\ UsersIn(ms, a, b) \in Nat
           /\ IsFiniteSet({ i \in a..b : ms[i].role = "user" })
  <1>1. IsFiniteSet({ i \in a..b : ms[i].role = "user" })
    <2>1. IsFiniteSet(a..b)
      BY FS_Interval
    <2>2. { i \in a..b : ms[i].role = "user" } \subseteq a..b
      OBVIOUS
    <2> QED
      BY <2>1, <2>2, FS_Subset
  <1> QED
    BY <1>1, FS_CardinalityType DEF UsersIn

LEMMA UsersShown ==
    ASSUME NEW ms \in Seq(Entry), NEW a \in 1..Len(ms),
           ExistsInjection(1..MinTurns, Users(ms, a))
    PROVE  LET part == SubSeq(ms, a, Len(ms))
           IN  UsersIn(part, 1, Len(part)) >= MinTurns
  <1> DEFINE L == Len(ms)
             part == SubSeq(ms, a, L)
             U == { i \in 1..Len(part) : part[i].role = "user" }
  <1>1. /\ part \in Seq(Entry) /\ Len(part) = L - a + 1
        /\ Len(part) \in Nat /\ DOMAIN part = 1..Len(part)
        /\ \A i \in 1..Len(part) : a+i-1 \in 1..L /\ part[i] = ms[a+i-1]
    BY Rest
  <1>2. MinTurns \in Nat /\ L \in Nat
    BY ContextAssumption
  <1>3. PICK f : f \in Injection(1..MinTurns, Users(ms, a))
    BY DEF ExistsInjection
  <1>4. /\ f \in [1..MinTurns -> Users(ms, a)]
        /\ \A i, j \in 1..MinTurns : f[i] = f[j] => i = j
    BY <1>3 DEF Injection, IsInjective
  <1> DEFINE g == [i \in 1..MinTurns |-> f[i] - a + 1]
  <1>5. ASSUME NEW i \in 1..MinTurns PROVE g[i] \in U /\ f[i] \in a..L
    <2>1. f[i] \in a..L /\ ms[f[i]].role = "user"
      BY <1>4 DEF Users
    <2> HIDE DEF part, L
    <2>2. f[i]-a+1 \in 1..Len(part) /\ a+(f[i]-a+1)-1 = f[i]
      <3>1. a \in Int
        BY <1>1
      <3>2. \A x \in a..L : x-a+1 \in 1..L-a+1 /\ a+(x-a+1)-1 = x
        BY <1>2, <3>1
      <3> QED
        BY <1>1, <2>1, <3>2
    <2> QED
      BY <1>1, <2>1, <2>2
  <1> HIDE DEF part
  <1>6. ASSUME NEW i \in 1..MinTurns, NEW j \in 1..MinTurns, g[i] = g[j]
        PROVE  i = j
    <2>1. f[i] = f[j]
      <3>1. f[i] \in Int /\ f[j] \in Int /\ a \in Int
        BY <1>2, <1>5
      <3>2. f[i] - a + 1 = f[j] - a + 1
        BY <1>6
      <3> QED
        BY <3>1, <3>2
    <2> QED
      BY <1>4, <2>1
  <1>7. g \in [1..MinTurns -> U]
    <2> HIDE DEF U
    <2> QED
      BY <1>5
  <1> HIDE DEF g
  <1>8. g \in Injection(1..MinTurns, U)
    <2> HIDE DEF U
    <2> QED
      BY <1>6, <1>7 DEF Injection, IsInjective
  <1>9. IsFiniteSet(U)
    <2>1. IsFiniteSet(1..Len(part))
      BY <1>1, FS_Interval
    <2>2. U \subseteq 1..Len(part)
      OBVIOUS
    <2> QED
      BY <2>1, <2>2, FS_Subset
  <1>10. Cardinality(1..MinTurns) = MinTurns
    BY <1>2, FS_Interval
  <1>11. Cardinality(1..MinTurns) <= Cardinality(U)
    <2> HIDE DEF U
    <2> QED
      BY <1>8, <1>9, FS_Injection
  <1>12. Cardinality(U) \in Nat
    <2> HIDE DEF U
    <2> QED
      BY <1>9, FS_CardinalityType
  <1> QED
    BY <1>2, <1>10, <1>11, <1>12 DEF part, UsersIn

(* As many as there are of an interval with an injection into them.          *)
LEMMA UsersAfter ==
    ASSUME NEW ms, NEW a \in Nat, NEW b \in Nat, NEW L \in Nat, b >= a,
           ExistsInjection(1..MinTurns, { i \in b..L : ms[i].role = "user" })
    PROVE  UsersIn(ms, a, L) >= MinTurns
  <1> DEFINE U == { i \in a..L : ms[i].role = "user" }
             V == { i \in b..L : ms[i].role = "user" }
  <1>1. V \subseteq U
    OBVIOUS
  <1>2. IsFiniteSet(U) /\ UsersIn(ms, a, L) \in Nat
    BY UsersInType
  <1>3. IsFiniteSet(V) /\ Cardinality(V) <= Cardinality(U)
    <2> HIDE DEF U, V
    <2> QED
      BY <1>1, <1>2, FS_Subset
  <1>4. PICK f : f \in Injection(1..MinTurns, V)
    BY DEF ExistsInjection
  <1> HIDE DEF V
  <1>5. Cardinality(1..MinTurns) <= Cardinality(V)
    BY <1>3, <1>4, FS_Injection
  <1>6. Cardinality(1..MinTurns) = MinTurns /\ MinTurns \in Nat
    BY ContextAssumption, FS_Interval
  <1>7. Cardinality(V) \in Nat
    BY <1>3, FS_CardinalityType
  <1> QED
    BY <1>2, <1>3, <1>5, <1>6, <1>7 DEF UsersIn

(* Session.get_context_messages and build: the context of a chat shows the   *)
(* user message the chat is about, unless that has left the window, or users *)
(* of other chats wrote as many messages since as compression keeps turns;   *)
(* and it leaves at least min_turns_to_keep users' messages of the window,   *)
(* or all there are.                                                         *)
THEOREM RequestShownKept == Spec => []RequestShown
  <1>1. Inv => RequestShown
    <2> SUFFICES ASSUME Inv, Built
                 PROVE  /\ /\ InWindow(own)
                           /\ \/ MinTurns = 0
                              \/ UsersIn(messages, own + 1, seen) < MinTurns
                           => \E i \in DOMAIN Shown : Shown[i] = messages[own]
                        /\ UsersIn(Shown, 1, Len(Shown)) >=
                             Smaller(MinTurns, UsersIn(Window(Before), 1,
                                                       Len(Window(Before))))
      BY DEF RequestShown, Before
    <2>1. /\ Before \in Seq(Entry) /\ Len(Before) = seen
          /\ seen \in 1..Len(messages) /\ own \in 1..seen
          /\ Len(messages) \in Nat
          /\ \A i \in 1..seen : Before[i] = messages[i]
      BY BuiltOf
    <2>2. PICK a \in 1..seen : /\ ShownFrom(Before, context, a)
                               /\ Shown = SubSeq(Before, a, seen)
      BY BuiltShows
    <2>3. /\ Shown \in Seq(Entry) /\ Len(Shown) = seen - a + 1
          /\ Len(Shown) \in Nat /\ DOMAIN Shown = 1..Len(Shown)
          /\ \A i \in 1..Len(Shown) : a+i-1 \in 1..seen
                                      /\ Shown[i] = Before[a+i-1]
      <3>1. /\ Shown \in Seq(Entry) /\ Len(Shown) = seen - a + 1
            /\ \A i \in 1..Len(Shown) : a+i-1 \in 1..seen
                                        /\ Shown[i] = Before[a+i-1]
        BY <2>1, <2>2, Rest
      <3>2. Len(Shown) \in Nat /\ DOMAIN Shown = 1..Len(Shown)
        BY <3>1
      <3> QED
        BY <3>1, <3>2
    <2>4. seen \in Nat \ {0} /\ WindowSize \in Nat /\ MinTurns \in Nat
      BY <2>1, ContextAssumption
    <2>5. a # Start(Before) =>
            MinTurns # 0 /\ ExistsInjection(1..MinTurns, Users(Before, a))
      BY <2>2 DEF ShownFrom
    <2>6. Before # <<>>
      BY <2>1, <2>4
    <2>7. ASSUME InWindow(own),
                 MinTurns = 0 \/ UsersIn(messages, own + 1, seen) < MinTurns
          PROVE  \E i \in DOMAIN Shown : Shown[i] = messages[own]
      <3>1. a <= own
        <4>1. CASE a = Start(Before)
          BY <2>1, <2>4, <2>7, <4>1 DEF Start, InWindow
        <4>2. CASE a # Start(Before)
          <5> SUFFICES ASSUME own < a PROVE FALSE
            BY <2>1, <2>4
          <5>1. Users(Before, a) = { i \in a..seen : messages[i].role = "user" }
            <6>1. \A i \in a..seen : Before[i] = messages[i]
              BY <2>1, <2>4
            <6> QED
              BY <2>1, <6>1 DEF Users
          <5>2. own + 1 \in Nat /\ a \in Nat /\ seen \in Nat /\ a >= own + 1
            BY <2>1, <2>4
          <5>3. ExistsInjection(1..MinTurns,
                                { i \in a..seen : messages[i].role = "user" })
            BY <2>5, <4>2, <5>1
          <5>4. UsersIn(messages, own + 1, seen) >= MinTurns
            BY <5>2, <5>3, UsersAfter
          <5>5. UsersIn(messages, own + 1, seen) \in Nat
            BY <5>2, UsersInType
          <5> QED
            BY <2>4, <2>5, <2>7, <4>2, <5>4, <5>5
        <4> QED
          BY <4>1, <4>2
      <3> DEFINE i == own - a + 1
      <3>2. i \in 1..Len(Shown) /\ a+i-1 = own
        BY <2>1, <2>3, <2>4, <3>1
      <3> HIDE DEF i
      <3> QED
        BY <2>1, <2>3, <3>2
    <2>8. UsersIn(Shown, 1, Len(Shown)) >=
            Smaller(MinTurns, UsersIn(Window(Before), 1, Len(Window(Before))))
      <3> DEFINE u == UsersIn(Shown, 1, Len(Shown))
                 v == UsersIn(Window(Before), 1, Len(Window(Before)))
      <3>1. u \in Nat /\ v \in Nat
        <4>1. Len(Window(Before)) \in Nat /\ Len(Shown) \in Nat /\ 1 \in Nat
          BY <2>1, <2>3, <2>6, WindowCut
        <4> QED
          BY <4>1, UsersInType
      <3>2. CASE a = Start(Before)
        <4>1. Shown = Window(Before)
          BY <2>1, <2>2, <2>6, <3>2, WindowCut
        <4>2. u = v
          BY <4>1
        <4> HIDE DEF u, v
        <4>3. Smaller(MinTurns, v) <= v /\ Smaller(MinTurns, v) \in {MinTurns, v}
          BY <2>4, <3>1, SmallerOf
        <4>4. u >= Smaller(MinTurns, v)
          BY <2>4, <3>1, <4>2, <4>3
        <4> QED
          BY <4>4 DEF u, v
      <3>3. CASE a # Start(Before)
        <4>1. u >= MinTurns
          BY <2>1, <2>2, <2>5, <3>3, UsersShown
        <4> HIDE DEF u, v
        <4>2. /\ Smaller(MinTurns, v) <= MinTurns
              /\ Smaller(MinTurns, v) \in {MinTurns, v}
          BY <2>4, <3>1, SmallerOf
        <4>3. u >= Smaller(MinTurns, v)
          BY <2>4, <3>1, <4>1, <4>2
        <4> QED
          BY <4>3 DEF u, v
      <3> QED
        BY <3>2, <3>3
    <2> QED
      BY <2>7, <2>8
  <1> QED
    BY <1>1, InvAlways, PTL

-----------------------------------------------------------------------------
(* The request.  Its fold, as a function of the length of the prefix.        *)
RequestEntry ==
    [role : {"user", "assistant"}, isText : BOOLEAN, blocks : Seq(Entry)]

Requests ==
    [system : Entry \cup {NoPrompt}, entries : Seq(RequestEntry),
     error : {"none", "AttributeError"}]

LEMMA RequestParts ==
    ASSUME NEW q \in Requests
    PROVE  /\ q.entries \in Seq(RequestEntry) /\ q.error \in {"none", "AttributeError"}
           /\ q.system \in Entry \cup {NoPrompt}
           /\ \A es \in Seq(RequestEntry) : [q EXCEPT !.entries = es] \in Requests
           /\ [q EXCEPT !.error = "AttributeError"] \in Requests
           /\ \A m \in Entry : [q EXCEPT !.system = m] \in Requests
  BY DEF Requests

LEMMA EntriesOf ==
    ASSUME NEW m \in Entry
    PROVE  /\ Text(m) \in RequestEntry
           /\ ListOf("user", <<m>>) \in RequestEntry
           /\ ListOf("assistant", <<m>>) \in RequestEntry
  <1>1. <<m>> \in Seq(Entry)
    OBVIOUS
  <1> QED
    BY <1>1 DEF Text, ListOf, RequestEntry

LEMMA AddMessageTyped ==
    ASSUME NEW q \in Requests, NEW m \in Entry
    PROVE  AddMessage(q, m) \in Requests
  <1> DEFINE es == q.entries
  <1>1. /\ es \in Seq(RequestEntry) /\ q.error \in {"none", "AttributeError"}
        /\ m.role \in {"system", "summary", "user", "assistant", "tool"}
    BY RequestParts DEF Entry
  <1>2. \A e \in RequestEntry : Append(es, e) \in Seq(RequestEntry)
    BY <1>1
  <1>3. ASSUME NEW e \in RequestEntry
        PROVE  [q EXCEPT !.entries = Append(@, e)] \in Requests
    BY <1>2, RequestParts
  <1>4. AddResult(q, m) \in Requests
    <2>1. CASE OpensEntry(es)
      BY <1>3, <2>1, EntriesOf DEF AddResult
    <2>2. CASE ~OpensEntry(es)
      <3> DEFINE last == AddBlock(Last(es), m)
      <3>1. Last(es) \in RequestEntry /\ Front(es) \in Seq(RequestEntry)
        BY <1>1, <2>2, LastAndFront DEF OpensEntry
      <3>2. last \in RequestEntry
        <4>1. Append(Last(es).blocks, m) \in Seq(Entry)
          BY <3>1 DEF RequestEntry
        <4> QED
          BY <3>1, <4>1 DEF RequestEntry, AddBlock, ListOf
      <3>3. Append(Front(es), last) \in Seq(RequestEntry)
        <4> HIDE DEF last
        <4> QED
          BY <3>1, <3>2
      <3>4. \/ AddResult(q, m) = [q EXCEPT !.error = "AttributeError"]
            \/ AddResult(q, m) = [q EXCEPT !.entries = Append(Front(es), last)]
        BY <2>2 DEF AddResult
      <3> HIDE DEF last
      <3> QED
        BY <3>3, <3>4, RequestParts
    <2> QED
      BY <2>1, <2>2
  <1> QED
    BY <1>1, <1>3, <1>4, EntriesOf, RequestParts DEF AddMessage

LEMMA RequestFold ==
    ASSUME NEW ms \in Seq(Entry)
    PROVE  \E t \in [0..Len(ms) -> Requests] :
             /\ t[0] = EmptyRequest
             /\ \A k \in 1..Len(ms) : t[k] = AddMessage(t[k-1], ms[k])
             /\ Converted(ms) = t[Len(ms)]
  <1> DEFINE N == Len(ms)
             V == Requests
             h == [p \in V \X (1..N) |-> AddMessage(p[1], ms[p[2]])]
             Fold(g) == g = [s \in SUBSET (1..N) |->
                               IF s = {} THEN EmptyRequest
                               ELSE AddMessage(g[s \ {Max(s)}], ms[Max(s)])]
             G == CHOOSE g : Fold(g)
  <1>1. N \in Nat /\ DOMAIN ms = 1..N /\ \A k \in 1..N : ms[k] \in Entry
    BY EntryParts
  <1>2. EmptyRequest \in V /\ \A v \in V, e \in Entry : AddMessage(v, e) \in V
    <2>1. EmptyRequest \in Requests
      BY DEF EmptyRequest, Requests
    <2> QED
      BY <2>1, AddMessageTyped
  <1> HIDE DEF V
  <1>3. \E g : Fold(g)
    <2>1. PICK g \in [SUBSET (1..N) -> V] : FoldTable(g, N, EmptyRequest, h)
      <3>1. h \in [V \X (1..N) -> V]
        BY <1>1, <1>2
      <3> HIDE DEF h
      <3> QED
        BY <1>1, <1>2, <3>1, FoldExists
    <2>2. ASSUME NEW s \in SUBSET (1..N), s # {}
          PROVE  h[<<g[s \ {Max(s)}], Max(s)>>]
                   = AddMessage(g[s \ {Max(s)}], ms[Max(s)])
      <3>1. Max(s) \in 1..N
        BY <1>1, <2>2, MaxOf
      <3> QED
        BY <3>1, <2>1
    <2>3. Fold(g)
      <3> HIDE DEF h
      <3> QED
        BY <2>1, <2>2 DEF FoldTable
    <2> QED
      BY <2>3
  <1>4. Fold(G)
    <2> HIDE DEF Fold
    <2> QED
      BY <1>3
  <1>5. Converted(ms) = G[1..N]
    BY <1>1 DEF Converted, FoldLeft, MapThenFoldSet
  <1> DEFINE t == [k \in 0..N |-> G[1..k]]
  <1>6. t[0] = EmptyRequest
    <2>1. 1..0 = {} /\ {} \in SUBSET (1..N) /\ 0 \in 0..N
      BY <1>1
    <2> HIDE DEF G
    <2> QED
      BY <1>4, <2>1
  <1>7. ASSUME NEW k \in 1..N PROVE t[k] = AddMessage(t[k-1], ms[k])
    <2>1. 1..k # {} /\ Max(1..k) = k /\ (1..k) \ {Max(1..k)} = 1..k-1
      <3> k \in Nat \ {0}
        BY <1>1
      <3> QED
        BY MaxOfPrefix
    <2>2. 1..k \in SUBSET (1..N) /\ k \in 0..N /\ k-1 \in 0..N
      BY <1>1
    <2> HIDE DEF G
    <2> QED
      BY <1>4, <2>1, <2>2
  <1>8. \A k \in 0..N : t[k] \in V
    <2> DEFINE S == { k \in 0..N : t[k] \in V }
    <2> HIDE DEF t
    <2>1. 0 \in S
      BY <1>1, <1>2, <1>6
    <2>2. \A k \in 1..N : k - 1 \in S => k \in S
      BY <1>1, <1>2, <1>7
    <2> HIDE DEF S
    <2>3. 0..N \subseteq S
      BY <1>1, <2>1, <2>2, UpTo
    <2> QED
      BY <2>3 DEF S
  <1>9. t \in [0..N -> V] /\ Converted(ms) = t[N]
    <2> HIDE DEF G
    <2> QED
      BY <1>1, <1>5, <1>8
  <1> HIDE DEF t
  <1> QED
    BY <1>6, <1>7, <1>9 DEF V

-----------------------------------------------------------------------------
(* An entry holds one message of the user or the assistant, or any number of *)
(* tool messages, from f to l.                                               *)
EntryOf(ms, e, f, l) ==
    /\ f <= l
    /\ \/ /\ e = ListOf("user", SubSeq(ms, f, l))
          /\ \A i \in f..l : ms[i].role = "tool"
       \/ f = l /\ ms[f].role = "assistant" /\ e = ListOf("assistant", <<ms[f]>>)
       \/ f = l /\ ms[f].role = "user" /\ e = Text(ms[f])

(* The request made of the messages from a to x: their entries are cut out   *)
(* of the session, and two entries of tool messages are never neighbours.    *)
RequestOf(ms, a, x, q, cut) ==
    LET N == Len(q.entries)
    IN  /\ q.error = "none"
        /\ cut \in [0..N -> 0..Len(ms)] /\ cut[0] = a - 1 /\ cut[N] = x
        /\ \A j \in 0..N : cut[j] >= a - 1
        /\ \A j \in 1..N : EntryOf(ms, q.entries[j], cut[j-1] + 1, cut[j])
        /\ \A j \in 1..N-1 : ms[cut[j]].role = "tool"
                               => ms[cut[j]+1].role # "tool"

(* A message that opens an entry. *)
LEMMA EntryOpened ==
    ASSUME NEW ms \in Seq(Entry), NEW a \in 1..Len(ms), NEW x \in a..Len(ms),
           NEW q \in Requests, NEW cut, RequestOf(ms, a, x - 1, q, cut),
           NEW e \in RequestEntry, EntryOf(ms, e, x, x),
           q.entries # <<>> /\ ms[x-1].role = "tool" => ms[x].role # "tool"
    PROVE  \E next :
             RequestOf(ms, a, x, [q EXCEPT !.entries = Append(@, e)], next)
  <1> DEFINE es == q.entries
             N == Len(es)
             L == Len(ms)
             new == Append(es, e)
             r == [q EXCEPT !.entries = new]
             next == [j \in 0..N+1 |-> IF j <= N THEN cut[j] ELSE x]
  <1>1. es \in Seq(RequestEntry)
    BY RequestParts
  <1>2. r.entries = new /\ r.error = q.error
    BY DEF Requests
  <1>3. /\ q.error = "none"
        /\ cut \in [0..N -> 0..L] /\ cut[0] = a - 1 /\ cut[N] = x - 1
        /\ \A j \in 0..N : cut[j] >= a - 1
        /\ \A j \in 1..N : EntryOf(ms, es[j], cut[j-1] + 1, cut[j])
        /\ \A j \in 1..N-1 : ms[cut[j]].role = "tool"
                               => ms[cut[j]+1].role # "tool"
    BY DEF RequestOf
  <1>4. /\ N \in Nat /\ Len(new) = N + 1 /\ new[N+1] = e
        /\ \A j \in 1..N : new[j] = es[j]
        /\ es # <<>> => N \in Nat \ {0}
        /\ es = <<>> => N = 0
    BY <1>1
  <1>5. L \in Nat /\ a \in 1..L /\ x \in 1..L /\ x \in 0..L
        /\ (x-1)+1 = x
    OBVIOUS
  <1> HIDE DEF r, es, new, L
  <1>6. next \in [0..N+1 -> 0..L]
    BY <1>3, <1>4, <1>5
  <1>7. /\ next[N+1] = x /\ next[0] = a - 1 /\ \A j \in 0..N : next[j] = cut[j]
    BY <1>3, <1>4
  <1> HIDE DEF next
  <1>8. ASSUME NEW j \in 1..N+1
        PROVE  EntryOf(ms, new[j], next[j-1] + 1, next[j])
    <2>1. CASE j <= N
      <3>1. j \in 1..N /\ j \in 0..N /\ j-1 \in 0..N
        BY <1>4, <2>1
      <3> QED
        BY <1>3, <1>4, <1>7, <3>1
    <2>2. CASE j = N + 1
      <3>1. j-1 = N /\ N \in 0..N
        BY <1>4, <2>2
      <3> QED
        BY <1>3, <1>4, <1>5, <1>7, <2>2, <3>1
    <2> QED
      BY <1>4, <2>1, <2>2
  <1>9. ASSUME NEW j \in 1..N, ms[next[j]].role = "tool"
        PROVE  ms[next[j]+1].role # "tool"
    <2>1. j \in 0..N /\ next[j] = cut[j]
      BY <1>4, <1>7
    <2>2. CASE j < N
      <3>1. j \in 1..N-1
        BY <1>4, <2>2
      <3> QED
        BY <1>3, <1>9, <2>1, <3>1
    <2>3. CASE j = N
      <3>1. cut[j] = x - 1 /\ es # <<>>
        BY <1>3, <1>4, <2>3
      <3> QED
        BY <1>5, <1>9, <2>1, <3>1 DEF es
    <2> QED
      BY <1>4, <2>2, <2>3
  <1>11. \A j \in 0..N+1 : next[j] >= a - 1
    <2>1. x >= a - 1
      BY <1>5
    <2>2. \A j \in 0..N+1 : j \in 0..N \/ j = N+1
      BY <1>4
    <2> QED
      BY <1>3, <1>7, <2>1, <2>2
  <1>10. RequestOf(ms, a, x, r, next)
    <2>1. (N + 1) - 1 = N
      BY <1>4
    <2> QED
      BY <1>2, <1>3, <1>4, <1>6, <1>7, <1>8, <1>9, <1>11, <2>1
         DEF RequestOf, L
  <1> QED
    BY <1>10 DEF r, new, es

(* One message more. *)
(* The conversion raised at a tool message right after one of a user.        *)
Raised(ms, a, q) ==
    /\ q.error = "AttributeError"
    /\ \E x \in a+1..Len(ms) :
         ms[x].role = "tool" /\ ms[x-1].role = "user"

(* One message more. *)
LEMMA NextOfRequest ==
    ASSUME NEW ms \in Seq(Entry), Numbered(ms),
           NEW a \in 1..Len(ms), NEW x \in a..Len(ms),
           NEW q \in Requests, NEW cut, RequestOf(ms, a, x - 1, q, cut)
    PROVE  \/ \E next : RequestOf(ms, a, x, AddMessage(q, ms[x]), next)
           \/ Raised(ms, a, AddMessage(q, ms[x]))
  <1> DEFINE es == q.entries
             N == Len(es)
             L == Len(ms)
             m == ms[x]
  <1>1. /\ es \in Seq(RequestEntry) /\ L \in Nat /\ N \in Nat
        /\ x \in 1..L /\ x <= x /\ SubSeq(ms, x, x) = <<m>>
    <2>1. L \in Nat /\ x \in 1..L /\ x <= x
      OBVIOUS
    <2>2. SubSeq(ms, x, x) = <<m>>
      BY <2>1, OneOf
    <2>3. es \in Seq(RequestEntry)
      BY RequestParts
    <2>4. N \in Nat
      <3> HIDE DEF es
      <3> QED
        BY <2>3
    <2> QED
      BY <2>1, <2>2, <2>3, <2>4
  <1>2. m \in Entry /\ m.role \in {"user", "assistant", "tool"}
    BY <1>1, EntryParts DEF Numbered
  <1>3. /\ q.error = "none"
        /\ cut \in [0..N -> 0..L] /\ cut[0] = a - 1 /\ cut[N] = x - 1
        /\ \A j \in 0..N : cut[j] >= a - 1
        /\ \A j \in 1..N : EntryOf(ms, es[j], cut[j-1] + 1, cut[j])
        /\ \A j \in 1..N-1 : ms[cut[j]].role = "tool"
                               => ms[cut[j]+1].role # "tool"
    BY DEF RequestOf
  <1>4. /\ Text(m) \in RequestEntry
        /\ ListOf("user", <<m>>) \in RequestEntry
        /\ ListOf("assistant", <<m>>) \in RequestEntry
    BY <1>2, EntriesOf
  <1>5. es # <<>> =>
          /\ N \in 1..N /\ N \in Nat \ {0} /\ Last(es) = es[N]
          /\ EntryOf(ms, es[N], cut[N-1] + 1, x - 1)
    <2> SUFFICES ASSUME es # <<>>
                 PROVE  /\ N \in 1..N /\ N \in Nat \ {0} /\ Last(es) = es[N]
                        /\ EntryOf(ms, es[N], cut[N-1] + 1, x - 1)
      OBVIOUS
    <2>1. N \in Nat \ {0} /\ Last(es) = es[N]
      BY <1>1, LastAndFront
    <2>2. N \in 1..N
      <3> HIDE DEF N
      <3> QED
        BY <2>1
    <2>3. EntryOf(ms, es[N], cut[N-1] + 1, cut[N]) /\ cut[N] = x - 1
      BY <1>3, <2>2
    <2> QED
      BY <2>1, <2>2, <2>3
  <1> HIDE DEF m, es, L
  <1>6. CASE m.role = "user"
    <2>1. EntryOf(ms, Text(m), x, x)
      BY <1>1, <1>6 DEF EntryOf, m
    <2>2. \E next : RequestOf(ms, a, x, [q EXCEPT !.entries = Append(@, Text(m))], next)
      BY <1>4, <1>6, <2>1, EntryOpened DEF m
    <2> QED
      BY <1>3, <1>6, <2>2 DEF AddMessage, m
  <1>7. CASE m.role = "assistant"
    <2>1. EntryOf(ms, ListOf("assistant", <<m>>), x, x)
      BY <1>1, <1>7 DEF EntryOf, m
    <2>2. \E next : RequestOf(ms, a, x,
                      [q EXCEPT !.entries = Append(@, ListOf("assistant", <<m>>))],
                      next)
      BY <1>4, <1>7, <2>1, EntryOpened DEF m
    <2> QED
      BY <1>3, <1>7, <2>2 DEF AddMessage, m
  <1>8. CASE m.role = "tool"
    <2>1. AddMessage(q, m) = AddResult(q, m)
      BY <1>3, <1>8 DEF AddMessage
    <2>3. CASE OpensEntry(es)
      <3>1. EntryOf(ms, ListOf("user", <<m>>), x, x)
        <4>1. \A i \in x..x : ms[i].role = "tool"
          <5>1. \A i \in x..x : i = x
            BY <1>1
          <5> QED
            BY <1>8, <5>1 DEF m
        <4> QED
          BY <1>1, <4>1 DEF EntryOf
      <3>2. es # <<>> => ms[x-1].role # "tool"
        <4> SUFFICES ASSUME es # <<>> PROVE ms[x-1].role # "tool"
          OBVIOUS
        <4>1. EntryOf(ms, es[N], cut[N-1] + 1, x - 1) /\ es[N].role # "user"
          BY <1>5, <2>3 DEF OpensEntry
        <4> QED
          BY <4>1 DEF EntryOf, ListOf, Text
      <3>3. \E next : RequestOf(ms, a, x,
                        [q EXCEPT !.entries = Append(@, ListOf("user", <<m>>))],
                        next)
        BY <1>4, <3>1, <3>2, EntryOpened DEF es
      <3>4. AddResult(q, m) = [q EXCEPT !.entries = Append(@, ListOf("user", <<m>>))]
        BY <2>3 DEF AddResult, es
      <3> QED
        BY <2>1, <3>3, <3>4 DEF m
    <2>4. CASE ~OpensEntry(es) /\ Last(es).isText
      <3>1. /\ es # <<>> /\ es[N].isText /\ N \in 1..N
            /\ EntryOf(ms, es[N], cut[N-1] + 1, x - 1)
        BY <1>5, <2>4 DEF OpensEntry
      <3>2. ms[x-1].role = "user"
        <4>1. \A r, s : ListOf(r, s).isText = FALSE
          BY DEF ListOf
        <4> QED
          BY <3>1, <4>1 DEF EntryOf
      <3>3. x \in a+1..L
        <4>1. cut[N-1] \in 0..L /\ cut[N-1] >= a - 1
          <5>1. N-1 \in 0..N
            BY <3>1
          <5> QED
            BY <1>3, <5>1
        <4>2. cut[N-1] + 1 <= x - 1
          BY <3>1 DEF EntryOf
        <4>3. x # a
          <5> SUFFICES ASSUME x = a PROVE FALSE
            OBVIOUS
          <5> QED
            BY <1>1, <3>1, <4>1, <4>2
        <4> QED
          BY <1>1, <4>3 DEF L
      <3>4. AddMessage(q, m).error = "AttributeError"
        <4>1. AddResult(q, m) = [q EXCEPT !.error = "AttributeError"]
          BY <2>4 DEF AddResult, es
        <4> QED
          BY <2>1, <4>1 DEF Requests
      <3> QED
        BY <1>8, <3>2, <3>3, <3>4 DEF Raised, m, L
    <2>5. CASE ~OpensEntry(es) /\ ~Last(es).isText
      <3> DEFINE f == cut[N-1] + 1
                 last == AddBlock(es[N], m)
                 new == Append(Front(es), last)
                 next == [cut EXCEPT ![N] = x]
                 r == [q EXCEPT !.entries = new]
      <3>1. /\ es # <<>> /\ es[N].role = "user" /\ Last(es) = es[N]
            /\ EntryOf(ms, es[N], f, x - 1)
            /\ N \in Nat \ {0} /\ N \in 1..N /\ N \in 0..N /\ N-1 \in 0..N
        BY <1>1, <1>5, <2>5 DEF OpensEntry
      <3>2. /\ f <= x - 1 /\ es[N] = ListOf("user", SubSeq(ms, f, x - 1))
            /\ \A i \in f..x-1 : ms[i].role = "tool"
        <4> HIDE DEF f
        <4>1. \A e : Text(e).isText
          BY DEF Text
        <4>2. \A s : ListOf("assistant", s).role # "user"
          BY DEF ListOf
        <4> QED
          BY <2>5, <3>1, <4>1, <4>2 DEF EntryOf
      <3>3. cut[N-1] \in 0..L /\ f - 1 \in 0..x-1 /\ f = (f - 1) + 1
        <4>1. cut[N-1] \in 0..L
          BY <1>3, <3>1
        <4> QED
          BY <1>1, <3>2, <4>1
      <3>4. EntryOf(ms, last, f, x)
        <4>1. Append(SubSeq(ms, f, x - 1), m) = SubSeq(ms, f, x)
          <5> HIDE DEF f
          <5> QED
            BY <1>1, <3>3, OneMore DEF m, L
        <4>2. last = ListOf("user", SubSeq(ms, f, x))
          <5> DEFINE part == SubSeq(ms, f, x - 1)
          <5>1. es[N] = ListOf("user", part)
            BY <3>2
          <5> HIDE DEF part
          <5>2. es[N].role = "user" /\ es[N].blocks = part
            BY <5>1 DEF ListOf
          <5> QED
            BY <4>1, <5>2 DEF AddBlock, part
        <4>3. ASSUME NEW i \in f..x PROVE ms[i].role = "tool"
          <5>1. i \in f..x-1 \/ i = x
            BY <1>1, <3>3
          <5> QED
            BY <1>8, <3>2, <5>1 DEF m
        <4>4. f <= x
          BY <1>1, <3>2, <3>3
        <4> HIDE DEF f, last
        <4> QED
          BY <4>2, <4>3, <4>4 DEF EntryOf
      <3>5. AddMessage(q, m) = r
        <4>1. ~es[N].isText
          BY <3>2 DEF ListOf
        <4>2. AddResult(q, m)
                = [q EXCEPT !.entries = Append(Front(@), AddBlock(Last(@), m))]
          BY <2>5, <3>1, <4>1 DEF AddResult, es
        <4> QED
          BY <2>1, <3>1, <4>2 DEF es
      <3>6. r.entries = new /\ r.error = "none"
        BY <1>3 DEF Requests
      <3>7. /\ Front(es) \in Seq(RequestEntry) /\ Len(Front(es)) = N - 1
            /\ \A j \in 1..N-1 : Front(es)[j] = es[j]
        BY <1>1, <3>1, LastAndFront
      <3>8. /\ Len(new) = N /\ new[N] = last
            /\ \A j \in 1..N-1 : new[j] = es[j]
        <4> HIDE DEF last
        <4>1. \A s \in Seq(RequestEntry) : \A e :
                /\ Len(Append(s, e)) = Len(s) + 1
                /\ Append(s, e)[Len(s)+1] = e
                /\ \A j \in 1..Len(s) : Append(s, e)[j] = s[j]
          OBVIOUS
        <4>2. N - 1 + 1 = N
          BY <3>1
        <4> QED
          BY <3>7, <4>1, <4>2
      <3>9. /\ next \in [0..N -> 0..L] /\ next[N] = x
            /\ \A j \in 0..N-1 : next[j] = cut[j]
        BY <1>1, <1>3, <3>1
      <3> HIDE DEF r, new, next, last, N
      <3>10. ASSUME NEW j \in 1..N
             PROVE  EntryOf(ms, new[j], next[j-1] + 1, next[j])
        <4>1. CASE j < N
          <5>1. j \in 1..N-1 /\ j \in 0..N-1 /\ j-1 \in 0..N-1
            BY <1>1, <4>1
          <5> QED
            BY <1>3, <3>8, <3>9, <5>1
        <4>2. CASE j = N
          <5>1. j-1 \in 0..N-1 /\ j-1 = N-1
            BY <3>1, <4>2
          <5> QED
            BY <3>4, <3>8, <3>9, <4>2, <5>1
        <4> QED
          BY <1>1, <4>1, <4>2
      <3>11. ASSUME NEW j \in 1..N-1, ms[next[j]].role = "tool"
             PROVE  ms[next[j]+1].role # "tool"
        <4>1. j \in 0..N-1
          BY <3>1
        <4> QED
          BY <1>3, <3>9, <3>11, <4>1
      <3>12. next[0] = a - 1
        <4>1. 0 \in 0..N-1
          BY <3>1
        <4> QED
          BY <1>3, <3>9, <4>1
      <3>14. \A j \in 0..N : next[j] >= a - 1
        <4>1. x >= a - 1 /\ \A j \in 0..N : j \in 0..N-1 \/ j = N
          BY <1>1, <3>1
        <4>2. \A j \in 0..N-1 : cut[j] >= a - 1
          BY <1>3, <3>1
        <4> QED
          BY <3>9, <4>1, <4>2
      <3>13. RequestOf(ms, a, x, r, next)
        BY <3>6, <3>8, <3>9, <3>10, <3>11, <3>12, <3>14 DEF RequestOf, L
      <3> QED
        BY <3>5, <3>13 DEF m
    <2> QED
      BY <2>3, <2>4, <2>5
  <1> QED
    BY <1>2, <1>6, <1>7, <1>8

(* The request made of a context: of nothing but what is shown of the        *)
(* session, as the prompt and the summary are taken apart.                   *)
LEMMA RequestShape ==
    ASSUME NEW ms \in Seq(Entry), Numbered(ms), NEW c,
           NEW a \in 1..Len(ms), Shows(c, ms, a)
    PROVE  /\ Converted(c) \in Requests
           /\ \/ \E cut : RequestOf(ms, a, Len(ms), Converted(c), cut)
              \/ Raised(ms, a, Converted(c))
  <1> DEFINE L == Len(ms)
             K == L - a + 1
             part == SubSeq(ms, a, L)
  <1>1. /\ c \in Seq(Entry) /\ Len(c) > 1 /\ c[1] = SystemPrompt
        /\ \/ c[2].role # "summary" /\ SubSeq(c, 2, Len(c)) = part
           \/ c[2].role = "summary" /\ SubSeq(c, 3, Len(c)) = part
    BY DEF Shows
  <1>2. PICK t \in [0..Len(c) -> Requests] :
          /\ t[0] = EmptyRequest
          /\ \A k \in 1..Len(c) : t[k] = AddMessage(t[k-1], c[k])
          /\ Converted(c) = t[Len(c)]
    BY <1>1, RequestFold
  <1>3. /\ Len(part) = K /\ K \in Nat \ {0} /\ part \in Seq(Entry)
        /\ \A i \in 1..K : a+i-1 \in 1..L /\ part[i] = ms[a+i-1]
        /\ L \in Nat /\ a \in 1..L /\ Len(c) \in Nat
    BY <1>1, Rest
  <1>4. /\ t[1].entries = <<>> /\ t[1].error = "none"
        /\ c[2].role = "summary" => t[2].entries = <<>> /\ t[2].error = "none"
    <2>1. /\ t[1] = AddMessage(EmptyRequest, SystemPrompt)
          /\ t[2] = AddMessage(t[1], c[2])
      <3>1. 1 \in 1..Len(c) /\ 2 \in 1..Len(c) /\ 1-1 = 0 /\ 2-1 = 1
        BY <1>1, <1>3
      <3> QED
        BY <1>1, <1>2, <3>1
    <2>2. /\ EmptyRequest.error = "none" /\ EmptyRequest.entries = <<>>
          /\ SystemPrompt.role = "system" /\ EmptyRequest \in Requests
      BY DEF EmptyRequest, SystemPrompt, Requests
    <2>3. \A q \in Requests, m \in Entry :
            q.error = "none" /\ m.role \in {"system", "summary"}
              => /\ AddMessage(q, m).entries = q.entries
                 /\ AddMessage(q, m).error = "none"
      <3> SUFFICES ASSUME NEW q \in Requests, NEW m \in Entry,
                          q.error = "none", m.role \in {"system", "summary"}
                   PROVE  /\ AddMessage(q, m).entries = q.entries
                          /\ AddMessage(q, m).error = "none"
        OBVIOUS
      <3>1. AddMessage(q, m) = [q EXCEPT !.system = m]
        BY DEF AddMessage
      <3> QED
        BY <3>1 DEF Requests
    <2>4. t[1] \in Requests /\ c[2] \in Entry
      BY <1>1, <1>2, <1>3
    <2> QED
      BY <2>1, <2>2, <2>3, <2>4, PromptTyped
  <1>5. \E d \in 1..Len(c) :
          /\ Len(c) = d + K /\ t[d].entries = <<>> /\ t[d].error = "none"
          /\ \A i \in 1..K : c[d+i] = ms[a+i-1]
    <2> HIDE DEF part, K
    <2>1. CASE c[2].role # "summary" /\ SubSeq(c, 2, Len(c)) = part
      <3>1. Len(c) = 1 + K
        BY <1>1, <1>3, <2>1
      <3>2. \A i \in 1..K : c[1+i] = part[i]
        BY <1>1, <1>3, <2>1, <3>1
      <3> QED
        BY <1>1, <1>3, <1>4, <3>1, <3>2
    <2>2. CASE c[2].role = "summary" /\ SubSeq(c, 3, Len(c)) = part
      <3>1. Len(c) = 2 + K
        BY <1>1, <1>3, <2>2
      <3>2. \A i \in 1..K : c[2+i] = ms[a+i-1]
        <4>1. \A i \in 1..K : c[2+i] = part[i]
          BY <1>1, <1>3, <2>2, <3>1
        <4> QED
          BY <1>3, <4>1
      <3>3. 2 \in 1..Len(c)
        BY <1>1, <1>3
      <3> QED
        BY <1>4, <2>2, <3>1, <3>2, <3>3
    <2> QED
      BY <1>1, <2>1, <2>2
  <1>6. PICK d \in 1..Len(c) :
          /\ Len(c) = d + K /\ t[d].entries = <<>> /\ t[d].error = "none"
          /\ \A i \in 1..K : c[d+i] = ms[a+i-1]
    BY <1>5
  <1> DEFINE S == { i \in 0..K : \/ \E cut : RequestOf(ms, a, a+i-1, t[d+i], cut)
                                 \/ Raised(ms, a, t[d+i]) }
  <1> HIDE DEF K, part
  <1>7. 0 \in S
    <2> DEFINE none == [j \in {0} |-> a - 1]
    <2>1. a - 1 \in 0..L /\ a+0-1 = a - 1 /\ d+0 = d /\ 0 \in 0..K
      BY <1>3, <1>6
    <2>2. Len(t[d].entries) = 0
      BY <1>6
    <2>3. none \in [0..0 -> 0..L] /\ none[0] = a - 1
      BY <2>1
    <2>5. \A j \in 0..0 : none[j] >= a - 1
      BY <1>3
    <2> HIDE DEF none
    <2>4. RequestOf(ms, a, a - 1, t[d], none)
      BY <1>6, <2>2, <2>3, <2>5 DEF RequestOf
    <2> QED
      BY <2>1, <2>4
  <1>8. \A i \in 1..K : i - 1 \in S => i \in S
    <2> SUFFICES ASSUME NEW i \in 1..K, i - 1 \in S PROVE i \in S
      OBVIOUS
    <2>1. \/ \E cut : RequestOf(ms, a, a+(i-1)-1, t[d+(i-1)], cut)
          \/ Raised(ms, a, t[d+(i-1)])
      OBVIOUS
    <2> DEFINE x == a+i-1
    <2>2. /\ x \in a..L /\ a+(i-1)-1 = x-1 /\ d+(i-1) = (d+i)-1 /\ i \in 0..K
          /\ d+i \in 1..Len(c) /\ (d+i)-1 \in 0..Len(c)
      <3>1. x \in 1..L
        BY <1>3
      <3>2. x \in a..L /\ a+(i-1)-1 = x-1 /\ i \in 0..K
        <4> HIDE DEF L
        <4>1. a \in Int /\ i \in Int /\ i >= 1 /\ L \in Int /\ K \in Int /\ i <= K
          BY <1>3
        <4> QED
          BY <3>1, <4>1
      <3>3. d+(i-1) = (d+i)-1 /\ d+i \in 1..Len(c) /\ (d+i)-1 \in 0..Len(c)
        <4>1. Len(c) = d + K /\ K \in Nat /\ d \in Nat \ {0} /\ i \in 1..K
          BY <1>3, <1>6
        <4> QED
          BY <4>1
      <3> QED
        BY <3>2, <3>3
    <2>3. /\ t[(d+i)-1] \in Requests
          /\ t[d+i] = AddMessage(t[(d+i)-1], ms[x])
      BY <1>2, <1>6, <2>2
    <2> HIDE DEF x
    <2>4. ASSUME NEW cut, RequestOf(ms, a, x-1, t[(d+i)-1], cut)
          PROVE  \/ \E next : RequestOf(ms, a, x, t[d+i], next)
                 \/ Raised(ms, a, t[d+i])
      BY <2>2, <2>3, <2>4, NextOfRequest
    <2>5. \/ \E next : RequestOf(ms, a, x, t[d+i], next)
          \/ Raised(ms, a, t[d+i])
      <3>1. CASE Raised(ms, a, t[d+(i-1)])
        <4>1. t[d+i] = t[(d+i)-1]
          BY <2>2, <2>3, <3>1 DEF AddMessage, Raised
        <4> QED
          BY <2>2, <3>1, <4>1
      <3> QED
        BY <2>1, <2>2, <2>4, <3>1
    <2> QED
      BY <2>2, <2>5 DEF x
  <1>9. K \in S
    <2> HIDE DEF S
    <2>1. 0..K \subseteq S
      BY <1>3, <1>7, <1>8, UpTo
    <2> QED
      BY <1>3, <2>1
  <1>10. a+K-1 = L /\ Len(c) \in 0..Len(c)
    BY <1>3 DEF K
  <1> QED
    BY <1>2, <1>6, <1>9, <1>10


LEMMA BuiltRequest ==
    ASSUME Inv, Built
    PROVE  /\ Converted(context) \in Requests
           /\ \E a \in 1..seen :
                /\ Shown = SubSeq(Before, a, seen)
                /\ ShownFrom(Before, context, a)
                /\ \/ \E cut : RequestOf(Before, a, seen, Converted(context), cut)
                   \/ Raised(Before, a, Converted(context))
  <1>1. /\ Before \in Seq(Entry) /\ Len(Before) = seen /\ Numbered(Before)
    BY BuiltOf
  <1>2. PICK a \in 1..seen : /\ ShownFrom(Before, context, a)
                             /\ Shows(context, Before, a)
                             /\ Shown = SubSeq(Before, a, seen)
    BY BuiltShows
  <1> QED
    BY <1>1, <1>2, RequestShape

(* The group of a tool message, by places. *)
LEMMA GroupOf ==
    ASSUME NEW ms \in Seq(Entry), NEW D, Grouped(ms, D),
           NEW p \in 1..Len(ms), ms[p].role = "tool"
    PROVE  LET k == ms[p].n
               r == ms[p].of
               n == ms[r].n
           IN  /\ n \in Nat /\ k \in 1..n /\ r \in 1..p-k /\ r \in 1..Len(ms)
               /\ ms[r].role = "assistant"
               /\ \A j \in 1..n : /\ p-k+j \in 1..Len(ms)
                                  /\ ms[p-k+j].role = "tool"
                                  /\ ms[p-k+j].n = j /\ ms[p-k+j].of = r
               /\ r \notin D => r = p-k
  <1> DEFINE k == ms[p].n
             r == ms[p].of
             n == ms[r].n
             L == Len(ms)
  <1>1. /\ r \in 1..p-k /\ k \in 1..n /\ ms[r].role = "assistant"
        /\ \A j \in 1..n : /\ p-k+j <= L /\ ms[p-k+j].role = "tool"
                           /\ ms[p-k+j].n = j /\ ms[p-k+j].of = r
        /\ r \notin D => r = p-k
    <2>1. InGroup(ms, D, p)
      BY DEF Grouped
    <2> QED
      BY <2>1 DEF InGroup
  <1>2. L \in Nat /\ p \in 1..L /\ k \in Nat
    BY EntryParts
  <1> HIDE DEF k, r, n, L
  <1>3. r \in 1..L
    BY <1>1, <1>2
  <1>4. n \in Nat
    BY <1>3, EntryParts DEF n, L
  <1>5. ASSUME NEW j \in 1..n PROVE p-k+j \in 1..L
    <2>1. p-k+j <= L /\ p-k >= 1
      BY <1>1, <1>2
    <2> QED
      BY <1>2, <1>4, <2>1
  <1> QED
    BY <1>1, <1>3, <1>4, <1>5 DEF k, r, n, L

(* A tool message right after a user's is of a disturbed response. *)
LEMMA AfterUser ==
    ASSUME NEW ms \in Seq(Entry), NEW D, Grouped(ms, D), NEW x \in 2..Len(ms),
           ms[x].role = "tool", ms[x-1].role = "user"
    PROVE  ms[x].of \in D
  <1> DEFINE k == ms[x].n
             r == ms[x].of
             n == ms[r].n
  <1> SUFFICES ASSUME r \notin D PROVE FALSE
    OBVIOUS
  <1>1. Len(ms) \in Nat /\ x \in 1..Len(ms)
    OBVIOUS
  <1>2. /\ n \in Nat /\ k \in 1..n /\ r = x-k /\ ms[r].role = "assistant"
        /\ \A j \in 1..n : ms[x-k+j].role = "tool"
    BY <1>1, GroupOf
  <1> HIDE DEF k, r, n
  <1>3. CASE k = 1
    BY <1>2, <1>3
  <1>4. CASE k > 1
    <2>1. k-1 \in 1..n /\ x-k+(k-1) = x-1
      BY <1>1, <1>2, <1>4
    <2> QED
      BY <1>2, <2>1
  <1> QED
    BY <1>2, <1>3, <1>4

(* What is asked of the tools on offer. *)
LEMMA ErrorOf ==
    ASSUME NEW c, Converted(c) \in Requests, NEW offered
    PROVE  LET q == Converted(c)
               request == Request(c, offered)
           IN  /\ request.entries = q.entries
               /\ q.error = "AttributeError" => request.error = "AttributeError"
               /\ q.error = "none" =>
                    request.error = IF offered = {} THEN "none" ELSE "KeyError"
  <1> DEFINE q == Converted(c)
  <1>1. \A tool : FormatRaises(tool)
    <2>1. \A tool : DOMAIN FunctionDefinition(tool) = {"type", "function"}
      BY DEF FunctionDefinition
    <2>2. "name" \notin {"type", "function"}
      OBVIOUS
    <2> QED
      BY <2>1, <2>2 DEF FormatRaises
  <1>2. Request(c, offered) =
          IF q.error = "none" /\ offered # {}
          THEN [q EXCEPT !.error = "KeyError"] ELSE q
    <2>1. (\E tool \in offered : FormatRaises(tool)) <=> offered # {}
      BY <1>1
    <2> QED
      BY <2>1 DEF Request
  <1>3. /\ [q EXCEPT !.error = "KeyError"].entries = q.entries
        /\ [q EXCEPT !.error = "KeyError"].error = "KeyError"
    BY DEF Requests
  <1> HIDE DEF q
  <1> QED
    BY <1>2, <1>3 DEF q

(* The blocks of a request that was made are what is shown. *)
LEMMA BlocksShown ==
    ASSUME Inv, Built, NEW a \in 1..seen, NEW cut,
           RequestOf(Before, a, seen, Converted(context), cut),
           Converted(context) \in Requests
    PROVE  LET es == Converted(context).entries
           IN  FlattenSeq([i \in DOMAIN es |-> es[i].blocks])
                 = SubSeq(Before, a, seen)
  <1> DEFINE q == Converted(context)
             es == q.entries
             seqs == [i \in DOMAIN es |-> es[i].blocks]
             ms == Before
             L == seen
             N == Len(es)
  <1>1. ms \in Seq(Entry) /\ Len(ms) = L /\ L \in Nat
    <2>1. seen \in 1..Len(messages) /\ Len(messages) \in Nat
      BY BuiltOf
    <2>2. seen \in Nat
      BY <2>1
    <2> QED
      BY <2>2, BuiltOf
  <1>2. es \in Seq(RequestEntry)
    BY RequestParts
  <1>3. /\ cut \in [0..N -> 0..L] /\ cut[0] = a - 1 /\ cut[N] = L
        /\ \A j \in 1..N : EntryOf(ms, es[j], cut[j-1] + 1, cut[j])
    BY <1>1 DEF RequestOf
  <1> HIDE DEF q, es, ms, L
  <1>4. N \in Nat /\ DOMAIN es = 1..N
    BY <1>2
  <1>5. /\ seqs \in Seq(Seq(Entry)) /\ Len(seqs) = N
        /\ \A j \in 1..N : seqs[j] = es[j].blocks
    <2>1. \A j \in 1..N : es[j].blocks \in Seq(Entry)
      <3>1. \A e \in RequestEntry : e.blocks \in Seq(Entry)
        BY DEF RequestEntry
      <3>2. \A j \in 1..N : es[j] \in RequestEntry
        BY <1>2
      <3> QED
        BY <3>1, <3>2
    <2> HIDE DEF N
    <2> QED
      BY <1>4, <2>1
  <1> HIDE DEF seqs, N
  <1>6. ASSUME NEW j \in 1..N
        PROVE  /\ cut[j-1] <= cut[j]
               /\ seqs[j] = SubSeq(ms, cut[j-1] + 1, cut[j])
    <2> DEFINE f == cut[j-1] + 1
               l == cut[j]
               part == SubSeq(ms, f, l)
    <2>1. EntryOf(ms, es[j], f, l) /\ cut[j-1] \in 0..L /\ l \in 0..L
      <3>1. j-1 \in 0..N /\ j \in 0..N
        BY <1>4
      <3> QED
        BY <1>3, <3>1
    <2>2. f <= l
      BY <2>1 DEF EntryOf
    <2>3. cut[j-1] <= l /\ f \in 1..L
      BY <1>1, <2>1, <2>2
    <2>4. f = l => part = <<ms[f]>>
      BY <1>1, <2>3, OneOf
    <2> HIDE DEF f, l, part
    <2>5. es[j].blocks = part
      <3>1. \A r, s : ListOf(r, s).blocks = s
        BY DEF ListOf
      <3>2. \A m : Text(m).blocks = <<m>>
        BY DEF Text
      <3>3. \/ es[j] = ListOf("user", part)
            \/ es[j] = ListOf("assistant", <<ms[f]>>) /\ f = l
            \/ es[j] = Text(ms[f]) /\ f = l
        BY <2>1 DEF EntryOf, part
      <3> QED
        BY <2>4, <3>1, <3>2, <3>3
    <2> QED
      BY <1>5, <2>3, <2>5 DEF f, l, part
  <1>7. CutOutOf(ms, seqs, cut)
    BY <1>1, <1>3, <1>5, <1>6 DEF CutOutOf
  <1>8. FlattenSeq(seqs) = SubSeq(ms, cut[0] + 1, cut[N])
    BY <1>1, <1>5, <1>7, FlattenCuts
  <1>9. cut[0] + 1 = a
    BY <1>1, <1>3
  <1> QED
    BY <1>3, <1>8, <1>9 DEF q, es, seqs, ms, L, N

(* AnthropicLLM.chat, of any context and any tools: with tools it raises     *)
(* KeyError in _format_tools; it raises AttributeError only at the results   *)
(* of a response that another chat of the session disturbed; and otherwise   *)
(* the entries hold the messages shown, all of them in their order.          *)
THEOREM RequestCompleteKept == Spec => []RequestComplete
  <1>1. Inv => RequestComplete
    <2> DEFINE q == Converted(context)
    <2> SUFFICES ASSUME Inv, Built, NEW offered \in SUBSET Tools
                 PROVE  LET request == Request(context, offered)
                        IN  \/ /\ request.error = "AttributeError"
                               /\ \E i \in 2..Len(Shown) :
                                    /\ Shown[i].role = "tool"
                                    /\ Shown[i-1].role = "user"
                                    /\ Shown[i].of \in disturbed
                            \/ /\ request.error = IF offered = {} THEN "none"
                                                  ELSE "KeyError"
                               /\ FlattenSeq([i \in DOMAIN request.entries |->
                                                request.entries[i].blocks])
                                    = Shown
      BY DEF RequestComplete
    <2>1. q \in Requests
      BY BuiltRequest
    <2>2. PICK a \in 1..seen :
            /\ Shown = SubSeq(Before, a, seen)
            /\ \/ \E cut : RequestOf(Before, a, seen, q, cut)
               \/ Raised(Before, a, q)
      BY BuiltRequest
    <2>3. /\ Before \in Seq(Entry) /\ Len(Before) = seen
          /\ Grouped(Before, disturbed)
          /\ seen \in 1..Len(messages) /\ Len(messages) \in Nat
      BY BuiltOf
    <2>4. /\ Request(context, offered).entries = q.entries
          /\ q.error = "AttributeError" =>
               Request(context, offered).error = "AttributeError"
          /\ q.error = "none" =>
               Request(context, offered).error
                 = IF offered = {} THEN "none" ELSE "KeyError"
      BY <2>1, ErrorOf
    <2>5. CASE Raised(Before, a, q)
      <3>1. PICK x \in a+1..seen :
              Before[x].role = "tool" /\ Before[x-1].role = "user"
        BY <2>3, <2>5 DEF Raised
      <3>2. q.error = "AttributeError"
        BY <2>5 DEF Raised
      <3>3. Before[x].of \in disturbed
        <4>1. x \in 2..Len(Before)
          BY <2>3
        <4> QED
          BY <2>3, <3>1, <4>1, AfterUser
      <3>4. /\ Len(Shown) = seen - a + 1
            /\ \A i \in 1..Len(Shown) : Shown[i] = Before[a+i-1]
        BY <2>2, <2>3, Rest
      <3> DEFINE i == x - a + 1
      <3>5. /\ i \in 2..Len(Shown) /\ i \in 1..Len(Shown) /\ i-1 \in 1..Len(Shown)
            /\ a+i-1 = x /\ a+(i-1)-1 = x-1
        BY <2>3, <3>4
      <3>6. Shown[i] = Before[x] /\ Shown[i-1] = Before[x-1]
        BY <3>4, <3>5
      <3> HIDE DEF i
      <3> QED
        BY <2>4, <3>1, <3>2, <3>3, <3>5, <3>6
    <2>6. CASE \E cut : RequestOf(Before, a, seen, q, cut)
      <3>1. PICK cut : RequestOf(Before, a, seen, q, cut)
        BY <2>6
      <3>2. q.error = "none"
        BY <3>1 DEF RequestOf
      <3>3. FlattenSeq([i \in DOMAIN q.entries |-> q.entries[i].blocks]) = Shown
        BY <2>1, <2>2, <3>1, BlocksShown
      <3> HIDE DEF q
      <3> QED
        BY <2>4, <3>2, <3>3
    <2> QED
      BY <2>2, <2>5, <2>6
  <1> QED
    BY <1>1, InvAlways, PTL

(* Neighbours that are tool messages stand in one entry. *)
LEMMA OneEntry ==
    ASSUME NEW ms \in Seq(Entry), NEW a \in 1..Len(ms), NEW q \in Requests,
           NEW cut, RequestOf(ms, a, Len(ms), q, cut),
           NEW i \in 1..Len(q.entries),
           NEW p \in cut[i-1]+1..cut[i],
           NEW u \in a..p, NEW v \in p..Len(ms),
           \A y \in u..v : ms[y].role = "tool"
    PROVE  cut[i-1] < u /\ v <= cut[i]
  <1> DEFINE L == Len(ms)
             N == Len(q.entries)
             f == cut[i-1]
             l == cut[i]
  <1>1. /\ cut \in [0..N -> 0..L] /\ cut[0] = a - 1 /\ cut[N] = L
        /\ \A j \in 1..N-1 : ms[cut[j]].role = "tool"
                               => ms[cut[j]+1].role # "tool"
    BY DEF RequestOf
  <1>2. L \in Nat /\ N \in Nat
    <2>1. q.entries \in Seq(RequestEntry)
      BY RequestParts
    <2> QED
      BY <2>1
  <1> HIDE DEF L, N
  <1>3. /\ i \in 1..N /\ i \in 0..N /\ i-1 \in 0..N
        /\ i # N => i \in 1..N-1
        /\ i # 1 => i-1 \in 1..N-1
    BY <1>2 DEF N
  <1>4. f \in 0..L /\ l \in 0..L
    BY <1>1, <1>3
  <1> HIDE DEF f, l
  <1>5. /\ a \in 1..L /\ p \in Int /\ u \in Int /\ v \in Int
        /\ f < p /\ p <= l /\ a <= u /\ u <= p /\ p <= v /\ v <= L
    BY <1>2, <1>4 DEF L, f, l
  <1>6. ASSUME v > l PROVE FALSE
    <2>1. i # N
      BY <1>1, <1>2, <1>4, <1>5, <1>6 DEF l
    <2>2. l \in u..v /\ l+1 \in u..v
      BY <1>4, <1>5, <1>6
    <2> QED
      BY <1>1, <1>3, <2>1, <2>2 DEF l
  <1>7. ASSUME u <= f PROVE FALSE
    <2>1. i # 1
      BY <1>1, <1>4, <1>5, <1>7 DEF f
    <2>2. f \in u..v /\ f+1 \in u..v
      BY <1>4, <1>5, <1>7
    <2> QED
      BY <1>1, <1>3, <2>1, <2>2 DEF f
  <1> QED
    BY <1>4, <1>5, <1>6, <1>7 DEF f, l

(* A group of results that the window does not cut is not cut at all, as     *)
(* compression cuts at users' messages.                                      *)
LEMMA NotCut ==
    ASSUME Inv, Built, NEW a \in 1..seen, ShownFrom(Before, context, a),
           NEW p \in a..seen, NEW u \in 1..p,
           InWindow(u), \A y \in u+1..p : Before[y].role = "tool"
    PROVE  u >= a
  <1>1. /\ Len(Before) = seen /\ seen \in Nat /\ WindowSize \in Nat
    <2>1. seen \in 1..Len(messages) /\ Len(messages) \in Nat
      BY BuiltOf
    <2> QED
      BY <2>1, BuiltOf, ContextAssumption
  <1>2. CASE a = Start(Before)
    BY <1>1, <1>2 DEF Start, InWindow
  <1>3. CASE a # Start(Before)
    <2>1. Before[a].role = "user"
      BY <1>3 DEF ShownFrom
    <2>2. ASSUME u < a PROVE FALSE
      <3>1. a \in u+1..p
        BY <1>1, <2>2
      <3> QED
        BY <2>1, <3>1
    <2> QED
      BY <1>1, <2>2
  <1> QED
    BY <1>2, <1>3

(* AnthropicLLM.chat, of any context: all results of a response are together *)
(* in one entry and in the order of the calls, and right after the response  *)
(* in an entry of its own; but for what the window took, and a response that *)
(* another chat disturbed need not be right in front of them.                *)
THEOREM ResultsTogetherKept == Spec => []ResultsTogether
  <1>1. Inv => ResultsTogether
    <2> DEFINE q == Converted(context)
               es == q.entries
               ms == Before
               L == seen
               N == Len(es)
    <2> SUFFICES ASSUME Inv, Built, q.error = "none",
                        NEW i \in DOMAIN es, NEW k \in DOMAIN es[i].blocks,
                        es[i].blocks[k].role = "tool"
                 PROVE  LET m == es[i].blocks[k]
                            Block(x, y) == es[x].blocks[y]
                        IN  /\ \A j \in 1..messages[m.of].n :
                                 InWindow(m.place - m.n + j) =>
                                   /\ k - m.n + j \in DOMAIN es[i].blocks
                                   /\ Block(i, k - m.n + j).of = m.of
                                   /\ Block(i, k - m.n + j).n = j
                            /\ InWindow(m.of) /\ m.of \notin disturbed =>
                                 /\ k = m.n /\ i > 1
                                 /\ es[i-1] = ListOf("assistant",
                                                     <<messages[m.of]>>)
      BY DEF ResultsTogether
    <2>1. /\ ms \in Seq(Entry) /\ Len(ms) = L /\ L \in Nat \ {0}
          /\ Numbered(ms) /\ Grouped(ms, disturbed)
          /\ \A x \in 1..L : ms[x] = messages[x]
      <3>1. seen \in 1..Len(messages) /\ Len(messages) \in Nat
        BY BuiltOf
      <3> QED
        BY <3>1, BuiltOf
    <2>2. q \in Requests
      BY BuiltRequest
    <2>3. PICK a \in 1..L :
            /\ ShownFrom(ms, context, a)
            /\ \/ \E cut : RequestOf(ms, a, L, q, cut)
               \/ Raised(ms, a, q)
      BY BuiltRequest
    <2>4. PICK cut : RequestOf(ms, a, L, q, cut)
      BY <2>3 DEF Raised
    <2>5. es \in Seq(RequestEntry)
      BY <2>2, RequestParts
    <2> HIDE DEF q
    <2>6. /\ cut \in [0..N -> 0..L] /\ cut[0] = a - 1 /\ cut[N] = L
          /\ \A j \in 0..N : cut[j] >= a - 1
          /\ \A j \in 1..N : EntryOf(ms, es[j], cut[j-1] + 1, cut[j])
      BY <2>1, <2>4 DEF RequestOf
    <2>7. N \in Nat /\ i \in 1..N /\ i \in 0..N /\ i-1 \in 0..N
      <3> HIDE DEF es
      <3> QED
        BY <2>5
    <2>8. RequestOf(ms, a, Len(ms), q, cut) /\ i \in 1..Len(q.entries)
      BY <2>1, <2>4, <2>7
    <2> HIDE DEF es, N, L, ms
    <2> DEFINE f == cut[i-1] + 1
               l == cut[i]
               blocks == es[i].blocks
               m == blocks[k]
               p == f + k - 1
               n == m.n
               r == m.of
    <2>9. /\ EntryOf(ms, es[i], f, l) /\ f \in a..L /\ l \in f..L
          /\ f \in 1..L /\ l \in 1..L
      <3>1. EntryOf(ms, es[i], f, l)
        BY <2>6, <2>7
      <3>2. cut[i-1] \in 0..L /\ cut[i-1] >= a - 1 /\ l \in 0..L
        BY <2>6, <2>7
      <3>3. f <= l
        BY <3>1 DEF EntryOf
      <3> HIDE DEF l
      <3> QED
        BY <2>1, <3>1, <3>2, <3>3
    <2> HIDE DEF f, l
    <2>10. /\ Len(SubSeq(ms, f, l)) = l - f + 1
           /\ SubSeq(ms, f, l) \in Seq(Entry)
           /\ \A x \in 1..l-f+1 : SubSeq(ms, f, l)[x] = ms[f+x-1]
      <3>1. \A j \in f..l : ms[j] \in Entry
        <4>1. \A j \in f..l : j \in 1..L
          BY <2>1, <2>9
        <4> QED
          BY <2>1, <4>1
      <3>2. f \in Int /\ l \in Int /\ f <= l
        BY <2>1, <2>9
      <3> QED
        BY <3>1, <3>2, SubSeqOf
    <2>11. /\ blocks = SubSeq(ms, f, l) /\ \A y \in f..l : ms[y].role = "tool"
      <3>1. \A s, e : ListOf(s, e).blocks = e
        BY DEF ListOf
      <3>2. \A e : Text(e).blocks = <<e>>
        BY DEF Text
      <3>3. ASSUME blocks = <<ms[f]>> PROVE ms[f].role = "tool"
        <4>1. k = 1
          BY <3>3
        <4> QED
          BY <3>3, <4>1
      <3> HIDE DEF blocks
      <3>4. CASE /\ es[i] = ListOf("user", SubSeq(ms, f, l))
                 /\ \A y \in f..l : ms[y].role = "tool"
        <4> DEFINE part == SubSeq(ms, f, l)
        <4>1. es[i].blocks = ListOf("user", part).blocks
          BY <3>4
        <4>2. ListOf("user", part).blocks = part
          <5> HIDE DEF part
          <5> QED
            BY <3>1
        <4> QED
          BY <3>4, <4>1, <4>2 DEF blocks
      <3>5. CASE f = l /\ ms[f].role = "assistant"
                  /\ es[i] = ListOf("assistant", <<ms[f]>>)
        BY <3>1, <3>3, <3>5 DEF blocks
      <3>6. CASE f = l /\ ms[f].role = "user" /\ es[i] = Text(ms[f])
        BY <3>2, <3>3, <3>6 DEF blocks
      <3> QED
        BY <2>9, <3>4, <3>5, <3>6 DEF EntryOf
    <2>12. /\ DOMAIN blocks = 1..l-f+1 /\ k \in 1..l-f+1
           /\ \A x \in 1..l-f+1 : blocks[x] = ms[f+x-1]
      <3>1. DOMAIN blocks = 1..l-f+1
        <4>1. DOMAIN SubSeq(ms, f, l) = 1..Len(SubSeq(ms, f, l))
          BY <2>10
        <4> QED
          BY <2>10, <2>11, <4>1
      <3> QED
        BY <2>10, <2>11, <3>1
    <2>13. /\ p \in f..l /\ p \in 1..L /\ p \in a..L /\ m = ms[p]
           /\ ms[p].role = "tool" /\ m.place = p
      <3>1. p \in f..l
        BY <2>9, <2>1, <2>12
      <3>2. p \in 1..L /\ p \in a..L
        BY <2>1, <2>9, <3>1
      <3>3. m = ms[p]
        BY <2>12
      <3>4. ms[p].role = "tool"
        BY <2>11, <3>1
      <3>5. ms[p].place = p
        BY <2>1, <3>2 DEF Numbered
      <3> QED
        BY <3>1, <3>2, <3>3, <3>4, <3>5
    <2> DEFINE G == ms[r].n
    <2>14. /\ G \in Nat /\ n \in 1..G /\ r \in 1..p-n /\ r \in 1..L
           /\ ms[r].role = "assistant"
           /\ \A j \in 1..G : /\ p-n+j \in 1..L /\ ms[p-n+j].role = "tool"
                              /\ ms[p-n+j].n = j /\ ms[p-n+j].of = r
           /\ r \notin disturbed => r = p-n
      <3> HIDE DEF blocks, m, p
      <3>1. p \in 1..Len(ms) /\ n = ms[p].n /\ r = ms[p].of
        BY <2>1, <2>13
      <3>2. /\ ms[ms[p].of].n \in Nat /\ ms[p].n \in 1..ms[ms[p].of].n
            /\ ms[p].of \in 1..p-ms[p].n /\ ms[p].of \in 1..Len(ms)
            /\ ms[ms[p].of].role = "assistant"
            /\ \A j \in 1..ms[ms[p].of].n :
                 /\ p-ms[p].n+j \in 1..Len(ms) /\ ms[p-ms[p].n+j].role = "tool"
                 /\ ms[p-ms[p].n+j].n = j /\ ms[p-ms[p].n+j].of = ms[p].of
            /\ ms[p].of \notin disturbed => ms[p].of = p-ms[p].n
        <4>1. /\ ms \in Seq(Entry) /\ Grouped(ms, disturbed)
              /\ p \in 1..Len(ms) /\ ms[p].role = "tool"
          BY <2>1, <2>13, <3>1
        <4> HIDE DEF n, r, G
        <4> QED
          BY <4>1, GroupOf
      <3> HIDE DEF n, r
      <3> QED
        BY <2>1, <3>1, <3>2
    <2>15. messages[r].n = G /\ messages[r] = ms[r]
      BY <2>1, <2>14
    <2> HIDE DEF blocks, m, p, n, r, G
    <2>16. ASSUME NEW j \in 1..G, InWindow(p-n+j)
           PROVE  /\ k-n+j \in 1..l-f+1 /\ f+(k-n+j)-1 = p-n+j
                  /\ ms[p-n+j].n = j /\ ms[p-n+j].of = r
      <3> DEFINE x == p-n+j
      <3>1. /\ x \in 1..L /\ ms[x].n = j /\ ms[x].of = r
            /\ ms[x].role = "tool"
        BY <2>14
      <3>2. \A y \in p-n+1..p-n+G : ms[y].role = "tool"
        <4> SUFFICES ASSUME NEW y \in p-n+1..p-n+G PROVE ms[y].role = "tool"
          OBVIOUS
        <4>1. y-(p-n) \in 1..G /\ p-n+(y-(p-n)) = y
          BY <2>1, <2>13, <2>14
        <4> QED
          BY <2>14, <4>1
      <3> HIDE DEF x
      <3>3. x \in p-n+1..p-n+G /\ p \in p-n+1..p-n+G
        BY <2>1, <2>13, <2>14 DEF x
      <3>4. f <= x /\ x <= l
        <4>1. CASE x <= p
          <5>1. x >= a
            <6>1. x \in 1..p /\ InWindow(x)
              BY <2>1, <2>13, <2>16, <3>1, <4>1 DEF x
            <6>2. \A y \in x+1..p : ms[y].role = "tool"
              BY <2>13, <2>14, <3>1, <3>2, <3>3
            <6> QED
              BY <2>3, <2>13, <6>1, <6>2, NotCut DEF L, ms
          <5>2. x \in a..p /\ p \in p..Len(ms)
            BY <2>1, <2>13, <3>1, <4>1, <5>1
          <5>3. \A y \in x..p : ms[y].role = "tool"
            BY <2>1, <2>13, <2>14, <3>1, <3>2, <3>3
          <5>4. p \in cut[i-1]+1..cut[i] /\ a \in 1..Len(ms)
            BY <2>1, <2>13 DEF f, l
          <5>5. cut[i-1] < x
            BY <2>1, <2>2, <2>8, <5>2, <5>3, <5>4, OneEntry
          <5>6. cut[i-1] \in Int
            BY <2>1, <2>6, <2>7
          <5> QED
            BY <2>1, <2>9, <2>13, <3>1, <4>1, <5>5, <5>6 DEF f
        <4>2. CASE x > p
          <5>1. p \in a..p /\ x \in p..Len(ms)
            BY <2>1, <2>13, <3>1, <4>2
          <5>2. \A y \in p..x : ms[y].role = "tool"
            BY <2>1, <2>13, <2>14, <3>1, <3>2, <3>3
          <5>3. p \in cut[i-1]+1..cut[i] /\ a \in 1..Len(ms)
            BY <2>1, <2>13 DEF f, l
          <5>4. x <= cut[i]
            BY <2>1, <2>2, <2>8, <5>1, <5>2, <5>3, OneEntry
          <5> QED
            BY <2>1, <2>9, <2>13, <3>1, <4>2, <5>4 DEF l
        <4> QED
          BY <2>1, <2>13, <3>1, <4>1, <4>2
      <3>5. /\ k-n+j \in 1..l-f+1 /\ f+(k-n+j)-1 = x
        <4>1. k \in Int /\ f \in Int /\ l \in Int /\ n \in Int /\ j \in Int
          BY <2>1, <2>9, <2>12, <2>14
        <4> QED
          BY <3>4, <4>1 DEF x, p
      <3> QED
        BY <3>1, <3>5 DEF x
    <2>17. ASSUME InWindow(r), r \notin disturbed
           PROVE  /\ k = n /\ i > 1
                  /\ es[i-1] = ListOf("assistant", <<ms[r]>>)
      <3>1. r = p-n /\ r \in 1..L
        BY <2>14, <2>17
      <3>2. \A y \in r+1..p : ms[y].role = "tool"
        <4> SUFFICES ASSUME NEW y \in r+1..p PROVE ms[y].role = "tool"
          OBVIOUS
        <4>1. y-r \in 1..G /\ p-n+(y-r) = y
          BY <2>1, <2>13, <2>14, <3>1
        <4> QED
          BY <2>14, <4>1
      <3>3. r >= a
        <4>1. r \in 1..p
          BY <2>13, <2>14, <3>1
        <4> QED
          BY <2>3, <2>13, <2>17, <3>2, <4>1, NotCut DEF L, ms
      <3>4. cut[i-1] < r+1
        <4>1. r+1 \in a..p /\ p \in p..Len(ms)
          BY <2>1, <2>13, <2>14, <3>1, <3>3
        <4>2. p \in cut[i-1]+1..cut[i] /\ a \in 1..Len(ms)
          BY <2>1, <2>13 DEF f, l
        <4> QED
          BY <2>1, <2>2, <2>8, <3>2, <4>1, <4>2, OneEntry
      <3>5. r = f-1 /\ cut[i-1] = r
        <4>1. cut[i-1] \in Int /\ f = cut[i-1] + 1
          BY <2>1, <2>6, <2>7 DEF f
        <4>2. ~(r >= f)
          <5> SUFFICES ASSUME r >= f PROVE FALSE
            OBVIOUS
          <5>1. r \in f..l
            BY <2>1, <2>9, <2>13, <2>14, <3>1
          <5> QED
            BY <2>11, <2>14, <5>1
        <4> QED
          BY <2>9, <3>1, <3>4, <4>1, <4>2
      <3>6. k = n
        <4>1. k \in Int /\ f \in Int /\ n \in Int
          BY <2>1, <2>9, <2>12, <2>14
        <4>2. f + k - 1 - n = f - 1
          BY <3>1, <3>5, <4>1 DEF p
        <4> HIDE DEF p
        <4> QED
          BY <4>1, <4>2
      <3>7. i > 1 /\ i-1 \in 1..N /\ (i-1)-1 \in 0..N
        <4>1. i # 1
          <5> SUFFICES ASSUME i = 1 PROVE FALSE
            OBVIOUS
          <5>1. r = a - 1
            BY <2>6, <3>5
          <5> QED
            BY <3>1, <3>3, <5>1
        <4> QED
          BY <2>7, <4>1
      <3>8. es[i-1] = ListOf("assistant", <<ms[r]>>)
        <4> DEFINE b == cut[(i-1)-1] + 1
        <4>1. EntryOf(ms, es[i-1], b, r)
          BY <2>6, <3>5, <3>7
        <4>2. b \in Int
          BY <2>1, <2>6, <3>7
        <4> HIDE DEF b
        <4>3. r \in b..r
          BY <3>1, <4>1, <4>2 DEF EntryOf
        <4>4. ~ \A y \in b..r : ms[y].role = "tool"
          BY <2>14, <4>3
        <4>5. \A y : b = r => ms[b] = ms[r]
          OBVIOUS
        <4> QED
          BY <2>14, <4>1, <4>4, <4>5 DEF EntryOf
      <3> QED
        BY <3>6, <3>7, <3>8
    <2>18. ASSUME NEW j \in 1..messages[r].n, InWindow(m.place - n + j)
           PROVE  /\ k-n+j \in DOMAIN blocks
                  /\ blocks[k-n+j].of = r /\ blocks[k-n+j].n = j
      <3>1. j \in 1..G /\ InWindow(p-n+j)
        BY <2>13, <2>15, <2>18
      <3> QED
        BY <2>12, <2>16, <3>1
    <2> QED
      BY <2>15, <2>17, <2>18 DEF blocks, m, n, r
  <1> QED
    BY <1>1, InvAlways, PTL

=============================================================================
