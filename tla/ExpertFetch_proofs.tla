------------------------- MODULE ExpertFetch_proofs -------------------------
(***************************************************************************)
(* The product over routed experts, for every number of layers, experts    *)
(* and tokens and every file layout: reads fit the staging buffer, the     *)
(* reads of a phase are the cold experts routed to, and every product is   *)
(* made with the weights of its own expert.                                *)
(***************************************************************************)
EXTENDS ExpertFetch, FiniteSetTheorems, FunctionTheorems, SequenceTheorems,
        WellFoundedInduction, TLAPS

-----------------------------------------------------------------------------
(***************************************************************************)
(* The staging buffer.                                                     *)
(***************************************************************************)
LEMMA DivMod ==
  ASSUME NEW a \in Nat, NEW b \in Nat \ {0}
  PROVE  /\ a \div b \in Nat /\ a % b \in 0..(b - 1)
         /\ a = b * (a \div b) + (a % b)
OBVIOUS

(* Of two multiples of b, the one below the other plus two is at most one    *)
(* step above it.                                                            *)
LEMMA MultipleBelow ==
  ASSUME NEW b \in Nat \ {0}, NEW q \in Nat, NEW m \in Nat, b * q < b * m + 2 * b
  PROVE  b * q <= b * m + b
<1>1. CASE q <= m + 1
  <2>1. b * q <= b * (m + 1)
    BY <1>1
  <2> QED BY <2>1
<1>2. CASE q >= m + 2
  <2>1. b * q >= b * (m + 2)
    BY <1>2
  <2> QED BY <2>1
<1> QED BY <1>1, <1>2

LEMMA AlignedRead ==
  ASSUME NEW head \in 0..(Page - 1), NEW bytes \in 1..MaxExpert
  PROVE  AlignUp(head + bytes) <= MaxExpert + Page
<1> DEFINE n == head + bytes + Page - 1
           q == n \div Page
           m == MaxExpert \div Page
<1>1. Page \in Nat \ {0} /\ MaxExpert \in Nat /\ MaxExpert % Page = 0
  BY FetchAssumption
<1>2. n \in Nat /\ n <= MaxExpert + 2 * Page - 2
  BY <1>1
<1>3. q \in Nat /\ Page * q <= n
  <2> HIDE DEF n
  <2>1. n % Page \in Nat /\ q \in Nat /\ n = Page * q + (n % Page)
    BY <1>1, <1>2, DivMod
  <2> HIDE DEF q
  <2> QED BY <1>1, <1>2, <2>1
<1>4. m \in Nat /\ MaxExpert = Page * m
  <2>1. m \in Nat /\ MaxExpert = Page * m + (MaxExpert % Page)
    BY <1>1, DivMod
  <2> HIDE DEF m
  <2> QED BY <1>1, <2>1
<1>5. AlignUp(head + bytes) = q * Page
  BY DEF AlignUp
<1> HIDE DEF n, q, m
<1>6. Page * q < Page * m + 2 * Page
  BY <1>1, <1>2, <1>3, <1>4
<1>7. Page * q <= Page * m + Page
  BY <1>1, <1>3, <1>4, <1>6, MultipleBelow
<1>8. q * Page = Page * q
  BY <1>1, <1>3
<1> QED BY <1>4, <1>5, <1>7, <1>8

LEMMA ReadFits ==
  ASSUME conf \in Configs, cur \in Nat, conf.bytes \in 1..MaxExpert
  PROVE  Requested <= StagingRoom
<1>1. /\ Page \in Nat \ {0} /\ MaxExpert \in Nat /\ conf.base \in Nat /\ conf.bytes \in Nat
      /\ conf.skew \in 0..(Page - 1)
  BY FetchAssumption DEF ConfigType
<1>2. Offset \in Nat
  <2>1. cur * conf.bytes \in Nat
    BY <1>1
  <2> QED BY <1>1, <2>1 DEF Offset
<1>3. CASE conf.direct
  <2>1. HeadPad \in 0..(Page - 1)
    BY <1>1, <1>2, <1>3, DivMod DEF HeadPad
  <2>2. Requested <= MaxExpert + Page /\ Requested = AlignUp(HeadPad + conf.bytes)
    BY <1>3, <2>1, AlignedRead DEF Requested
  <2>3. Requested \in Int
    <3>1. (HeadPad + conf.bytes + Page - 1) \in Nat
      BY <1>1, <2>1
    <3>2. (HeadPad + conf.bytes + Page - 1) \div Page \in Nat
      BY <1>1, <3>1, DivMod
    <3> QED BY <1>1, <2>2, <3>2 DEF AlignUp
  <2> HIDE DEF Requested
  <2> QED BY <1>1, <2>2, <2>3 DEF StagingRoom
<1>4. CASE ~conf.direct
  BY <1>1, <1>4 DEF Requested, StagingRoom
<1> QED BY <1>3, <1>4

-----------------------------------------------------------------------------
(***************************************************************************)
(* The pairs of token and slot, sorted by expert.                          *)
(***************************************************************************)
LEMMA IdsFacts ==
  ASSUME NEW ids, ValidIds(ids)
  PROVE  /\ IsFiniteSet(DOMAIN ids) /\ DOMAIN ids \subseteq Nat
         /\ 1 \in DOMAIN ids
         /\ Len(ids[1]) \in Nat
         /\ \A t \in DOMAIN ids, x \in 1..Len(ids[1]) : ids[t][x] \in Experts
<1>1. PICK n \in 1..NTok, used \in 1..NExpert : ids \in [1..n -> [1..used -> Experts]]
  BY DEF ValidIds
<1>2. n \in Nat /\ n >= 1 /\ used \in Nat /\ 1 \in 1..n
  BY <1>1, FetchAssumption
<1>3. DOMAIN ids = 1..n /\ ids[1] \in [1..used -> Experts]
  BY <1>1, <1>2
<1>4. Len(ids[1]) = used
  BY <1>2, <1>3
<1>5. IsFiniteSet(1..n)
  BY <1>2, FS_Interval
<1> QED BY <1>1, <1>2, <1>3, <1>4, <1>5

LEMMA ExpertsFinite == IsFiniteSet(Experts) /\ Experts \subseteq Nat
<1>1. NExpert \in Nat
  BY FetchAssumption
<1>2. IsFiniteSet(0..(NExpert - 1))
  BY <1>1, FS_Interval
<1> QED BY <1>1, <1>2 DEF Experts

LEMMA PairsFacts ==
  ASSUME NEW ids, ValidIds(ids)
  PROVE  /\ IsFiniteSet(PairsOf(ids)) /\ Cardinality(PairsOf(ids)) \in Nat
         /\ \A p \in PairsOf(ids) :
              /\ p[1] \in Experts /\ p[1] \in Nat
              /\ p[2] \in DOMAIN ids /\ p[2] \in Nat
              /\ p[3] \in 1..Len(ids[1])
              /\ ids[p[2]][p[3]] = p[1] /\ p = << p[1], p[2], p[3] >>
         /\ \A t \in DOMAIN ids, x \in 1..Len(ids[1]) : << ids[t][x], t, x >> \in PairsOf(ids)
<1> DEFINE D == DOMAIN ids
           U == 1..Len(ids[1])
<1>1. /\ IsFiniteSet(D) /\ D \subseteq Nat /\ Len(ids[1]) \in Nat
      /\ \A t \in D, x \in U : ids[t][x] \in Experts
  BY IdsFacts
<1>2. IsFiniteSet(U)
  BY <1>1, FS_Interval
<1>3. PairsOf(ids) = {p \in Experts \X D \X U : ids[p[2]][p[3]] = p[1]}
  BY DEF PairsOf
<1> HIDE DEF D, U
<1>4. IsFiniteSet(PairsOf(ids))
  <2>1. IsFiniteSet(D \X U)
    BY <1>1, <1>2, FS_Product
  <2>2. IsFiniteSet(Experts \X (D \X U))
    BY <2>1, ExpertsFinite, FS_Product
  <2> DEFINE T == {<< p[1], << p[2], p[3] >> >> : p \in PairsOf(ids)}
             f == [p \in PairsOf(ids) |-> << p[1], << p[2], p[3] >> >>]
  <2>3. \A p \in PairsOf(ids) : p = << p[1], p[2], p[3] >> /\ p[1] \in Experts /\ p[2] \in D /\ p[3] \in U
    BY <1>3
  <2>4. f \in [PairsOf(ids) -> Experts \X (D \X U)]
    BY <2>3
  <2>5. \A p, q \in PairsOf(ids) : f[p] = f[q] => p = q
    BY <2>3
  <2> HIDE DEF f
  <2>6. f \in Injection(PairsOf(ids), Experts \X (D \X U))
    BY <2>4, <2>5 DEF Injection, IsInjective
  <2> QED BY <2>2, <2>6, FS_Injection
<1>5. Cardinality(PairsOf(ids)) \in Nat
  BY <1>4, FS_CardinalityType
<1> QED BY <1>1, <1>3, <1>4, <1>5, ExpertsFinite DEF D, U

(* How many pairs come before p. *)
RankOf(ids, p) == Cardinality({q \in PairsOf(ids) : Earlier(q, p)})

LEMMA RankType ==
  ASSUME NEW ids, ValidIds(ids), NEW p \in PairsOf(ids)
  PROVE  /\ IsFiniteSet({q \in PairsOf(ids) : Earlier(q, p)})
         /\ RankOf(ids, p) \in Nat
         /\ RankOf(ids, p) + 1 \in 1..Cardinality(PairsOf(ids))
<1> DEFINE S == PairsOf(ids)
           B == {q \in S : Earlier(q, p)}
<1>1. IsFiniteSet(S) /\ Cardinality(S) \in Nat /\ p[1] \in Nat /\ p[2] \in Nat
  BY PairsFacts
<1>2. ~Earlier(p, p)
  BY <1>1 DEF Earlier
<1>3. B \in SUBSET (S \ {p}) /\ p \in S
  BY <1>2
<1> HIDE DEF S, B
<1>4. IsFiniteSet(S \ {p}) /\ Cardinality(S \ {p}) = Cardinality(S) - 1
  BY <1>1, <1>3, FS_RemoveElement
<1>5. IsFiniteSet(B) /\ Cardinality(B) <= Cardinality(S \ {p})
  BY <1>3, <1>4, FS_Subset
<1>6. Cardinality(B) \in Nat
  BY <1>5, FS_CardinalityType
<1>7. Cardinality(B) + 1 \in 1..Cardinality(S)
  BY <1>1, <1>4, <1>5, <1>6
<1> QED BY <1>5, <1>6, <1>7 DEF RankOf, B, S

LEMMA RankGrows ==
  ASSUME NEW ids, ValidIds(ids), NEW p \in PairsOf(ids), NEW q \in PairsOf(ids), Earlier(p, q)
  PROVE  RankOf(ids, p) < RankOf(ids, q)
<1> DEFINE S == PairsOf(ids)
           A == {r \in S : Earlier(r, p)}
           B == {r \in S : Earlier(r, q)}
<1>1. /\ IsFiniteSet(A) /\ IsFiniteSet(B) /\ Cardinality(A) \in Nat /\ Cardinality(B) \in Nat
  BY RankType DEF RankOf
<1>2. \A r \in S : r[1] \in Nat /\ r[2] \in Nat
  BY PairsFacts
<1>3. p \notin A
  BY <1>2 DEF Earlier
<1>4. A \cup {p} \in SUBSET B
  <2>1. \A r \in S : Earlier(r, p) => Earlier(r, q)
    BY <1>2 DEF Earlier
  <2> QED BY <2>1
<1> HIDE DEF A, B
<1>5. Cardinality(A \cup {p}) = Cardinality(A) + 1
  BY <1>1, <1>3, FS_AddElement
<1>6. Cardinality(A \cup {p}) <= Cardinality(B)
  BY <1>1, <1>4, FS_Subset
<1>7. Cardinality(A) < Cardinality(B)
  BY <1>1, <1>5, <1>6
<1> QED BY <1>7 DEF RankOf, A, B

LEMMA RankInjective ==
  ASSUME NEW ids, ValidIds(ids), NEW p \in PairsOf(ids), NEW q \in PairsOf(ids),
         RankOf(ids, p) = RankOf(ids, q)
  PROVE  p = q
<1>1. ~Earlier(p, q) /\ ~Earlier(q, p)
  <2>1. RankOf(ids, p) \in Nat /\ RankOf(ids, q) \in Nat
    BY RankType
  <2> QED BY <2>1, RankGrows
<1>2. /\ p[1] \in Nat /\ p[2] \in Nat /\ q[1] \in Nat /\ q[2] \in Nat
      /\ p[2] \in DOMAIN ids /\ p[3] \in 1..Len(ids[1]) /\ q[3] \in 1..Len(ids[1])
      /\ ids[p[2]][p[3]] = p[1] /\ ids[q[2]][q[3]] = q[1]
      /\ p = << p[1], p[2], p[3] >> /\ q = << q[1], q[2], q[3] >>
  BY PairsFacts
<1>3. p[1] = q[1] /\ p[2] = q[2]
  BY <1>1, <1>2 DEF Earlier
<1>4. p[3] = q[3]
  BY <1>2, <1>3 DEF ValidIds
<1> QED BY <1>2, <1>3, <1>4

(* SortedPairs enumerates the pairs by their rank. *)
LEMMA SortedPairsFacts ==
  ASSUME NEW ids, ValidIds(ids)
  PROVE  LET P == SortedPairs(ids)
             n == Cardinality(PairsOf(ids))
         IN  /\ n \in Nat /\ DOMAIN P = 1..n /\ Len(P) = n
             /\ \A i \in 1..n : P[i] \in PairsOf(ids)
             /\ \A i, j \in 1..n : i <= j => P[i][1] <= P[j][1]
             /\ \A p \in PairsOf(ids) : \E i \in 1..n : P[i] = p
<1> DEFINE S == PairsOf(ids)
           P == SortedPairs(ids)
           n == Cardinality(S)
           f == [p \in S |-> RankOf(ids, p) + 1]
<1>1. IsFiniteSet(S) /\ n \in Nat
  BY PairsFacts
<1>2. f \in [S -> 1..n]
  BY RankType
<1>3. \A p, q \in S : f[p] = f[q] => p = q
  <2> SUFFICES ASSUME NEW p \in S, NEW q \in S, f[p] = f[q] PROVE p = q
    OBVIOUS
  <2>1. RankOf(ids, p) \in Nat /\ RankOf(ids, q) \in Nat
    BY RankType
  <2>2. RankOf(ids, p) = RankOf(ids, q)
    BY <2>1
  <2> QED BY <2>2, RankInjective
<1>4. f \in Injection(S, 1..n)
  <2> HIDE DEF f, n, S
  <2> QED BY <1>2, <1>3 DEF Injection, IsInjective
<1>5. IsFiniteSet(1..n) /\ Cardinality(1..n) = n
  BY <1>1, FS_Interval
<1>6. f \in Surjection(S, 1..n)
  <2> HIDE DEF f, S, n
  <2>1. Cardinality(S) = Cardinality(1..n)
    BY <1>5 DEF n
  <2> QED BY <1>4, <1>5, <2>1, FS_Injection
<1>7. \A i \in 1..n : \E p \in S : f[p] = i
  <2> HIDE DEF f, n, S
  <2> QED BY <1>6 DEF Surjection
<1>8. P = [i \in 1..n |-> CHOOSE p \in S : RankOf(ids, p) = i - 1]
  BY DEF SortedPairs, RankOf
<1>9. \A i \in 1..n : P[i] \in S /\ RankOf(ids, P[i]) = i - 1
  <2> SUFFICES ASSUME NEW i \in 1..n PROVE P[i] \in S /\ RankOf(ids, P[i]) = i - 1
    OBVIOUS
  <2>1. PICK p \in S : f[p] = i
    BY <1>7
  <2>2. RankOf(ids, p) \in Nat
    BY RankType
  <2>3. RankOf(ids, p) = i - 1
    BY <2>1, <2>2
  <2>4. P[i] = CHOOSE r \in S : RankOf(ids, r) = i - 1
    BY <1>8
  <2> HIDE DEF P, S, n
  <2> QED BY <2>3, <2>4
<1>10. DOMAIN P = 1..n /\ Len(P) = n
  <2> HIDE DEF n, S
  <2> QED BY <1>1, <1>8
<1>11. \A i, j \in 1..n : i <= j => P[i][1] <= P[j][1]
  <2> SUFFICES ASSUME NEW i \in 1..n, NEW j \in 1..n, i <= j PROVE P[i][1] <= P[j][1]
    OBVIOUS
  <2>1. /\ P[i] \in S /\ P[j] \in S
        /\ RankOf(ids, P[i]) = i - 1 /\ RankOf(ids, P[j]) = j - 1
    BY <1>9
  <2>2. P[i][1] \in Nat /\ P[j][1] \in Nat
    BY <2>1, PairsFacts
  <2>3. ~Earlier(P[j], P[i])
    <3>1. SUFFICES ASSUME Earlier(P[j], P[i]) PROVE FALSE
      OBVIOUS
    <3>2. RankOf(ids, P[j]) < RankOf(ids, P[i])
      BY <2>1, <3>1, RankGrows
    <3> HIDE DEF P, S, n
    <3> QED BY <1>1, <2>1, <3>2
  <2> QED BY <2>2, <2>3 DEF Earlier
<1>12. \A p \in S : \E i \in 1..n : P[i] = p
  <2> SUFFICES ASSUME NEW p \in S PROVE \E i \in 1..n : P[i] = p
    OBVIOUS
  <2>1. RankOf(ids, p) \in Nat /\ RankOf(ids, p) + 1 \in 1..n
    BY RankType
  <2> DEFINE i == RankOf(ids, p) + 1
  <2>2. P[i] \in S /\ RankOf(ids, P[i]) = RankOf(ids, p)
    <3>1. P[i] \in S /\ RankOf(ids, P[i]) = i - 1
      BY <1>9, <2>1
    <3> HIDE DEF P, S, n
    <3> QED BY <2>1, <3>1
  <2>3. P[i] = p
    BY <2>2, RankInjective
  <2> QED BY <2>1, <2>3
<1> QED BY <1>1, <1>9, <1>10, <1>11, <1>12

(* What the loop over the experts knows of the sorted rows. *)
LEMMA SortFacts ==
  ASSUME CallInv, calls \in Nat, calls # 0
  PROVE  /\ Len(sorted.pairs) \in Nat /\ DOMAIN sorted.pairs = Pairs
         /\ \A i \in Pairs : /\ sorted.pairs[i][1] \in Experts
                             /\ sorted.pairs[i][1] \in Routed(call.ids)
         /\ \A i, j \in Pairs : i <= j => sorted.pairs[i][1] <= sorted.pairs[j][1]
         /\ \A e \in Routed(call.ids) : e \in Experts /\ \E i \in Pairs : sorted.pairs[i][1] = e
         /\ DOMAIN sorted.from = DOMAIN call.ids
         /\ \A t \in DOMAIN call.ids :
              /\ DOMAIN sorted.from[t] = Slots
              /\ \A x \in Slots :
                   /\ sorted.from[t][x] \in Pairs
                   /\ sorted.pairs[sorted.from[t][x]][1] = call.ids[t][x]
                   /\ sorted.to[sorted.from[t][x]] = Input(t, x, call.ne11)
<1> DEFINE ids == call.ids
           P == SortedPairs(ids)
           n == Cardinality(PairsOf(ids))
<1>1. ValidIds(ids) /\ sorted = SortedOf(ids, call.ne11)
  BY DEF CallInv
<1>2. /\ sorted.pairs = P
      /\ sorted.to = [i \in DOMAIN P |-> Input(P[i][2], P[i][3], call.ne11)]
      /\ sorted.from = [t \in DOMAIN ids |-> [x \in 1..Len(ids[1]) |->
                          CHOOSE i \in DOMAIN P : P[i] = << ids[t][x], t, x >>]]
  BY <1>1 DEF SortedOf
<1>3. /\ n \in Nat /\ DOMAIN P = 1..n /\ Len(P) = n
      /\ \A i \in 1..n : P[i] \in PairsOf(ids)
      /\ \A i, j \in 1..n : i <= j => P[i][1] <= P[j][1]
      /\ \A p \in PairsOf(ids) : \E i \in 1..n : P[i] = p
  BY <1>1, SortedPairsFacts
<1>4. /\ \A p \in PairsOf(ids) : /\ p[1] \in Experts /\ p[2] \in DOMAIN ids
                                 /\ p[3] \in 1..Len(ids[1]) /\ ids[p[2]][p[3]] = p[1]
      /\ \A t \in DOMAIN ids, x \in 1..Len(ids[1]) :
           << ids[t][x], t, x >> \in PairsOf(ids) /\ ids[t][x] \in Experts
  BY <1>1, PairsFacts, IdsFacts
<1>5. Pairs = 1..n /\ Slots = 1..Len(ids[1])
  BY <1>2, <1>3 DEF Pairs, Slots
<1> HIDE DEF P, n
<1>6. ASSUME NEW i \in Pairs
      PROVE  /\ sorted.pairs[i][1] \in Experts
             /\ sorted.pairs[i][1] \in Routed(ids)
  <2>1. P[i] \in PairsOf(ids)
    BY <1>3, <1>5
  <2>2. /\ P[i][1] \in Experts /\ P[i][2] \in DOMAIN ids
        /\ P[i][3] \in 1..Len(ids[1]) /\ ids[P[i][2]][P[i][3]] = P[i][1]
    BY <1>4, <2>1
  <2>3. P[i][1] \in Routed(ids)
    BY <2>2 DEF Routed
  <2> QED BY <1>2, <2>2, <2>3
<1>7. ASSUME NEW e \in Routed(ids)
      PROVE  e \in Experts /\ \E i \in Pairs : sorted.pairs[i][1] = e
  <2>1. PICK t \in DOMAIN ids, x \in 1..Len(ids[1]) : e = ids[t][x]
    BY DEF Routed
  <2>2. << ids[t][x], t, x >> \in PairsOf(ids) /\ ids[t][x] \in Experts
    BY <1>4
  <2>3. PICK i \in 1..n : P[i] = << ids[t][x], t, x >>
    BY SMTT(60), <1>3, <2>2
  <2> QED BY <1>2, <1>5, <2>1, <2>2, <2>3
<1>8. ASSUME NEW t \in DOMAIN ids, NEW x \in Slots
      PROVE  /\ sorted.from[t][x] \in Pairs
             /\ sorted.pairs[sorted.from[t][x]] = << ids[t][x], t, x >>
             /\ sorted.to[sorted.from[t][x]] = Input(t, x, call.ne11)
  <2>1. PICK i \in 1..n : P[i] = << ids[t][x], t, x >>
    BY <1>3, <1>4, <1>5
  <2>2. sorted.from[t][x] = CHOOSE k \in DOMAIN P : P[k] = << ids[t][x], t, x >>
    BY <1>2, <1>5
  <2>3. sorted.from[t][x] \in DOMAIN P /\ P[sorted.from[t][x]] = << ids[t][x], t, x >>
    BY SMTT(60), <1>3, <2>1, <2>2
  <2> DEFINE k == sorted.from[t][x]
  <2>4. sorted.to[k] = Input(P[k][2], P[k][3], call.ne11)
    BY <1>2, <2>3
  <2> HIDE DEF k
  <2>5. P[k][2] = t /\ P[k][3] = x
    BY <2>3 DEF k
  <2>6. sorted.to[k] = Input(t, x, call.ne11)
    BY <2>4, <2>5
  <2> QED BY <1>2, <1>3, <1>5, <2>3, <2>6 DEF k
<1>9. \A i, j \in Pairs : i <= j => sorted.pairs[i][1] <= sorted.pairs[j][1]
  BY <1>2, <1>3, <1>5
<1>10. /\ Len(sorted.pairs) \in Nat /\ DOMAIN sorted.pairs = Pairs
       /\ DOMAIN sorted.from = DOMAIN call.ids
       /\ \A t \in DOMAIN call.ids : DOMAIN sorted.from[t] = Slots
  BY <1>2, <1>3, <1>5
<1> QED BY <1>6, <1>7, <1>8, <1>9, <1>10

LEMMA InitialSegment ==
  ASSUME NEW n \in Nat, NEW S \in SUBSET (1..n),
         \A i \in S : \A j \in 1..n : j <= i => j \in S
  PROVE  /\ IsFiniteSet(S) /\ Cardinality(S) \in 0..n
         /\ S = 1..Cardinality(S)
<1>1. IsFiniteSet(1..n) /\ Cardinality(1..n) = n
  BY FS_Interval
<1>2. IsFiniteSet(S) /\ Cardinality(S) \in Nat /\ Cardinality(S) <= n
  BY <1>1, FS_Subset, FS_CardinalityType
<1> DEFINE c == Cardinality(S)
<1>3. ASSUME NEW i \in S PROVE i \in 1..c
  <2>1. i \in Nat /\ i >= 1 /\ 1..i \in SUBSET S
    OBVIOUS
  <2>2. Cardinality(1..i) = i
    BY <2>1, FS_Interval
  <2>3. Cardinality(1..i) <= c
    BY <1>2, <2>1, FS_Subset
  <2> QED BY <1>2, <2>1, <2>2, <2>3
<1>4. IsFiniteSet(1..c) /\ Cardinality(1..c) = c
  BY <1>2, FS_Interval
<1>5. S \in SUBSET (1..c)
  BY <1>3
<1>6. S = 1..c
  BY <1>4, <1>5, FS_Subset
<1> QED BY <1>2, <1>6

(* The rows of an expert follow those of the experts before it. *)
LEMMA Blocks ==
  ASSUME CallInv, calls \in Nat, calls # 0, NEW e \in Nat
  PROVE  /\ Cardinality(RowsBefore(e)) \in Nat /\ Rows(e) \in Nat
         /\ RowsBefore(e) = 1..Cardinality(RowsBefore(e))
         /\ Cardinality(RowsBefore(e + 1)) = Cardinality(RowsBefore(e)) + Rows(e)
         /\ {i \in Pairs : sorted.pairs[i][1] = e} =
              (Cardinality(RowsBefore(e)) + 1)..(Cardinality(RowsBefore(e)) + Rows(e))
<1> DEFINE n == Len(sorted.pairs)
           A == RowsBefore(e)
           B == RowsBefore(e + 1)
           E == {i \in Pairs : sorted.pairs[i][1] = e}
           a == Cardinality(A)
           b == Cardinality(B)
<1>1. /\ n \in Nat /\ DOMAIN sorted.pairs = Pairs /\ Pairs = 1..n
      /\ \A i \in Pairs : sorted.pairs[i][1] \in Nat
      /\ \A i, j \in Pairs : i <= j => sorted.pairs[i][1] <= sorted.pairs[j][1]
  BY SortFacts, ExpertsFinite DEF Pairs
<1>2. a \in 0..n /\ A = 1..a
  <2>1. A \in SUBSET (1..n) /\ \A i \in A : \A j \in 1..n : j <= i => j \in A
    BY <1>1 DEF RowsBefore
  <2> HIDE DEF n, A
  <2> QED BY <1>1, <2>1, InitialSegment
<1>3. b \in 0..n /\ B = 1..b
  <2>1. B \in SUBSET (1..n) /\ \A i \in B : \A j \in 1..n : j <= i => j \in B
    BY <1>1 DEF RowsBefore
  <2> HIDE DEF n, B
  <2> QED BY <1>1, <2>1, InitialSegment
<1>4. E = B \ A /\ A \subseteq B
  BY <1>1 DEF RowsBefore
<1>5. Rows(e) = Cardinality(E)
  BY <1>1 DEF Rows
<1> HIDE DEF n, A, B, E, a, b
<1>6. a \in Nat /\ b \in Nat /\ a <= b
  <2>1. a \in Nat /\ b \in Nat
    BY <1>1, <1>2, <1>3
  <2>2. a = 0 \/ a \in 1..b
    BY <1>2, <1>3, <1>4, <2>1
  <2> QED BY <2>1, <2>2
<1>7. E = (a + 1)..b
  BY <1>2, <1>3, <1>4, <1>6
<1>8. Cardinality(E) = b - a
  <2>1. Cardinality((a + 1)..b) = IF a + 1 > b THEN 0 ELSE b - (a + 1) + 1
    BY <1>6, FS_Interval
  <2> QED BY <1>6, <1>7, <2>1
<1>9. Rows(e) \in Nat /\ b = a + Rows(e)
  BY <1>5, <1>6, <1>8
<1> QED BY <1>2, <1>6, <1>7, <1>9 DEF A, B, E, a, b

LEMMA RoutedRows ==
  ASSUME CallInv, calls \in Nat, calls # 0, NEW e \in Nat
  PROVE  Rows(e) > 0 <=> e \in Routed(call.ids)
<1> DEFINE E == {i \in Pairs : sorted.pairs[i][1] = e}
           a == Cardinality(RowsBefore(e))
<1>1. Rows(e) \in Nat /\ a \in Nat /\ E = (a + 1)..(a + Rows(e))
  BY Blocks
<1>2. e \in Routed(call.ids) <=> E # {}
  BY SortFacts
<1> HIDE DEF E, a
<1>3. CASE Rows(e) > 0
  <2>1. a + 1 \in E
    BY <1>1, <1>3
  <2> QED BY <1>2, <1>3, <2>1
<1>4. CASE ~(Rows(e) > 0)
  <2>1. E = {}
    BY <1>1, <1>4
  <2> QED BY <1>2, <1>4, <2>1
<1> QED BY <1>3, <1>4

-----------------------------------------------------------------------------
(***************************************************************************)
(* The stream as a sequence.                                               *)
(***************************************************************************)
LEMMA OfItsElements ==
  ASSUME NEW S, NEW s \in Seq(S)
  PROVE  IsSeq(s) /\ Len(s) \in Nat
<1>1. Len(s) \in Nat /\ DOMAIN s = 1..Len(s)
  BY LenProperties
<1>2. s = [k \in 1..Len(s) |-> s[k]]
  BY <1>1, SeqDef
<1>3. s \in [1..Len(s) -> {s[k] : k \in 1..Len(s)}]
  BY <1>2
<1> QED BY <1>1, <1>3, SeqDef DEF IsSeq

LEMMA Wider ==
  ASSUME NEW S, NEW T, S \subseteq T, NEW s \in Seq(S)
  PROVE  s \in Seq(T)
BY SeqDef

LEMMA Appended ==
  ASSUME NEW s, IsSeq(s), NEW o
  PROVE  LET r == Append(s, o)
         IN  /\ IsSeq(r) /\ Len(s) \in Nat
             /\ Len(r) = Len(s) + 1
             /\ \A k \in 1..Len(s) : r[k] = s[k]
             /\ r[Len(r)] = o
<1> DEFINE S == {s[k] : k \in 1..Len(s)} \cup {o}
<1>1. s \in Seq(S) /\ o \in S
  BY Wider DEF IsSeq
<1> HIDE DEF S
<1>2. /\ Append(s, o) \in Seq(S) /\ Len(Append(s, o)) = Len(s) + 1
      /\ \A k \in 1..Len(s) : Append(s, o)[k] = s[k]
      /\ Append(s, o)[Len(s) + 1] = o /\ Len(s) \in Nat
  BY <1>1, AppendProperties, LenProperties
<1> QED BY <1>2, OfItsElements

LEMMA AppendedTwo ==
  ASSUME NEW s, IsSeq(s), NEW a, NEW b, NEW r, r = s \o << a, b >>
  PROVE  /\ IsSeq(r) /\ Len(s) \in Nat
         /\ Len(r) = Len(s) + 2
         /\ \A k \in 1..Len(s) : r[k] = s[k]
         /\ r[Len(s) + 1] = a /\ r[Len(s) + 2] = b
<1> DEFINE S == {s[k] : k \in 1..Len(s)} \cup {a, b}
           t == << a, b >>
<1>1. s \in Seq(S)
  BY Wider DEF IsSeq
<1>2. t \in Seq(S) /\ Len(t) = 2 /\ t[1] = a /\ t[2] = b
  OBVIOUS
<1>0. r = s \o t
  OBVIOUS
<1> HIDE DEF S, t
<1>3. Len(s) \in Nat
  BY <1>1, LenProperties
<1>4. /\ r \in Seq(S) /\ Len(r) = Len(s) + 2
      /\ \A k \in 1..(Len(s) + 2) : r[k] = IF k <= Len(s) THEN s[k] ELSE t[k - Len(s)]
  <2>1. /\ r \in Seq(S) /\ Len(r) = Len(s) + Len(t)
        /\ \A k \in 1..(Len(s) + Len(t)) : r[k] = IF k <= Len(s) THEN s[k] ELSE t[k - Len(s)]
    BY <1>1, <1>2, <1>0, ConcatProperties
  <2> QED BY <1>2, <2>1
<1>5. \A k \in 1..Len(s) : r[k] = s[k]
  <2> QED BY <1>3, <1>4
<1>6. r[Len(s) + 1] = a
  <2>1. r[Len(s) + 1] = t[Len(s) + 1 - Len(s)] /\ Len(s) + 1 - Len(s) = 1
    BY <1>3, <1>4
  <2> QED BY <1>2, <2>1
<1>7. r[Len(s) + 2] = b
  <2>1. r[Len(s) + 2] = t[Len(s) + 2 - Len(s)] /\ Len(s) + 2 - Len(s) = 2
    BY <1>3, <1>4
  <2> QED BY <1>2, <2>1
<1>8. IsSeq(r)
  BY <1>4, OfItsElements
<1> QED BY <1>3, <1>4, <1>5, <1>6, <1>7, <1>8 DEF t

LEMMA HeadTaken ==
  ASSUME NEW s, IsSeq(s), s # << >>
  PROVE  LET r == Tail(s)
         IN  /\ IsSeq(r) /\ Len(r) \in Nat
             /\ Len(s) \in Nat /\ Len(s) >= 1 /\ Len(r) = Len(s) - 1
             /\ \A k \in 1..Len(r) : r[k] = s[k + 1]
             /\ Head(s) = s[1]
<1> DEFINE S == {s[k] : k \in 1..Len(s)}
           r == Tail(s)
<1>1. s \in Seq(S)
  BY DEF IsSeq
<1> HIDE DEF S
<1>2. Len(s) \in Nat /\ Len(s) # 0
  BY <1>1, LenProperties, EmptySeq
<1>3. /\ Head(s) = s[1] /\ r \in Seq(S) /\ Len(r) = Len(s) - 1
      /\ \A k \in 1..Len(r) : r[k] = s[k + 1]
  BY <1>1, HeadTailProperties
<1>4. IsSeq(r) /\ Len(r) \in Nat
  BY <1>3, OfItsElements
<1> QED BY <1>2, <1>3, <1>4

-----------------------------------------------------------------------------
(***************************************************************************)
(* Types, the current call and its rows.                                   *)
(***************************************************************************)
LEMMA StreamStep ==
  ASSUME IsSeq(stream), [Next]_vars
  PROVE  IsSeq(stream)'
<1>1. CASE UNCHANGED stream
  BY <1>1
<1>2. CASE stream # << >> /\ stream' = Tail(stream)
  BY <1>2, HeadTaken
<1>3. ASSUME NEW o, stream' = Append(stream, o) PROVE IsSeq(stream)'
  BY <1>3, Appended
<1>4. ASSUME NEW a, NEW b, stream' = stream \o << a, b >> PROVE IsSeq(stream)'
  BY <1>4, AppendedTwo
<1>5. CASE InMemory
  BY <1>3, <1>5 DEF InMemory
<1>6. CASE Hot
  BY <1>3, <1>4, <1>6 DEF Hot
<1>7. CASE Fetch
  BY <1>1, <1>4, <1>7 DEF Fetch
<1>8. CASE Return
  BY <1>3, <1>8 DEF Return
<1>9. CASE Execute
  BY <1>2, <1>9 DEF Execute
<1>10. CASE Load \/ Begin \/ Skip \/ Sync \/ SetPhase \/ ProfileReset \/ UNCHANGED vars
  BY <1>1, <1>10 DEF Load, Begin, Skip, Sync, SetPhase, ProfileReset, vars
<1> QED BY <1>5, <1>6, <1>7, <1>8, <1>9, <1>10 DEF Next, Host, Ended

Profile == [accesses : Nat, hits : Nat, misses : Nat, reads : [Phases -> Nat]]

(* What counting an access and a hit, or an access and a miss, does. *)
LEMMA Counted ==
  ASSUME NEW p \in Profile
  PROVE  /\ [p EXCEPT !.accesses = @ + 1] =
              [accesses |-> p.accesses + 1, hits |-> p.hits, misses |-> p.misses, reads |-> p.reads]
         /\ [p EXCEPT !.accesses = @ + 1, !.hits = @ + 1] =
              [accesses |-> p.accesses + 1, hits |-> p.hits + 1, misses |-> p.misses,
               reads |-> p.reads]
         /\ [p EXCEPT !.accesses = @ + 1, !.misses = @ + 1] =
              [accesses |-> p.accesses + 1, hits |-> p.hits, misses |-> p.misses + 1,
               reads |-> p.reads]
<1> DEFINE a == [p EXCEPT !.accesses = p.accesses + 1]
<1>1. a = [accesses |-> p.accesses + 1, hits |-> p.hits, misses |-> p.misses, reads |-> p.reads]
  BY DEF Profile
<1>2. /\ [p EXCEPT !.accesses = @ + 1, !.hits = @ + 1] = [a EXCEPT !.hits = p.hits + 1]
      /\ [p EXCEPT !.accesses = @ + 1, !.misses = @ + 1] = [a EXCEPT !.misses = p.misses + 1]
      /\ [p EXCEPT !.accesses = @ + 1] = a
  OBVIOUS
<1> HIDE DEF a
<1>3. [a EXCEPT !.hits = p.hits + 1] =
        [accesses |-> p.accesses + 1, hits |-> p.hits + 1, misses |-> p.misses, reads |-> p.reads]
  BY <1>1
<1>4. [a EXCEPT !.misses = p.misses + 1] =
        [accesses |-> p.accesses + 1, hits |-> p.hits, misses |-> p.misses + 1, reads |-> p.reads]
  BY <1>1
<1> QED BY <1>1, <1>2, <1>3, <1>4

LEMMA CountedRead ==
  ASSUME prof \in Profile,
         phase \in Phases
  PROVE  /\ CountRead(prof) \in Profile
         /\ CountRead(prof).accesses = prof.accesses + 1
         /\ CountRead(prof).hits = prof.hits
         /\ CountRead(prof).misses = prof.misses + 1
         /\ \A p \in Phases :
              CountRead(prof).reads[p] = IF p = phase THEN prof.reads[p] + 1 ELSE prof.reads[p]
<1> DEFINE q == [prof.reads EXCEPT ![phase] = prof.reads[phase] + 1]
<1>2. CountRead(prof) = [accesses |-> prof.accesses + 1, hits |-> prof.hits,
                         misses |-> prof.misses + 1, reads |-> q]
  <2> DEFINE p == [prof EXCEPT !.accesses = @ + 1, !.misses = @ + 1]
  <2>1. p = [accesses |-> prof.accesses + 1, hits |-> prof.hits, misses |-> prof.misses + 1,
             reads |-> prof.reads]
    BY Counted
  <2>2. CountRead(prof) = [p EXCEPT !.reads = [p.reads EXCEPT ![phase] = prof.reads[phase] + 1]]
    BY DEF CountRead
  <2> HIDE DEF p
  <2>3. p.reads = prof.reads
    BY <2>1
  <2>4. CountRead(prof) = [p EXCEPT !.reads = q]
    BY <2>2, <2>3
  <2> HIDE DEF q
  <2> QED BY <2>1, <2>4
<1>3. /\ prof.accesses \in Nat /\ prof.hits \in Nat /\ prof.misses \in Nat
      /\ prof.reads \in [Phases -> Nat]
  BY DEF Profile
<1>4. /\ q \in [Phases -> Nat]
      /\ \A p \in Phases : q[p] = IF p = phase THEN prof.reads[p] + 1 ELSE prof.reads[p]
  BY <1>3
<1> HIDE DEF q
<1> QED BY <1>2, <1>3, <1>4 DEF Profile

LEMMA RoutedFinite ==
  ASSUME NEW ids, ValidIds(ids), NEW S \in SUBSET Routed(ids)
  PROVE  IsFiniteSet(S) /\ Cardinality(S) \in Nat /\ S \subseteq Experts
<1>1. Routed(ids) \subseteq Experts
  BY IdsFacts DEF Routed
<1>2. S \in SUBSET Experts
  BY <1>1
<1> QED BY <1>2, ExpertsFinite, FS_Subset, FS_CardinalityType

LEMMA BeginFacts ==
  ASSUME Begin, calls \in Nat
  PROVE  /\ ValidIds(call'.ids) /\ call'.model \in {0, 1}
         /\ call'.layer \in (IF call'.model = 1 THEN Layers ELSE RamLayers)
         /\ sorted' = SortedOf(call'.ids, call'.ne11)
         /\ due' = IF call'.model = 1
                   THEN [due EXCEPT ![phase] =
                           @ + Cardinality({e \in Routed(call'.ids) : Cold(call'.layer, e)})]
                   ELSE due
         /\ pc = "idle" /\ pc' = "expert" /\ stream = << >>
         /\ cur' = 0 /\ row' = 0 /\ calls' = calls + 1
         /\ result' = << >> /\ dst' = << >>
         /\ UNCHANGED << conf, hot, registry, staging, device, stream, phase, prof >>
<1>1. PICK model \in {0, 1}, n \in 1..NTok, used \in 1..NExpert :
        \E layer \in IF model = 1 THEN Layers ELSE RamLayers,
           ne11 \in {1, used}, ids \in [1..n -> [1..used -> Experts]] :
          /\ \A t \in 1..n : \A x, y \in 1..used : ids[t][x] = ids[t][y] => x = y
          /\ call' = [model |-> model, layer |-> layer, ids |-> ids, ne11 |-> ne11]
          /\ sorted' = SortedOf(ids, ne11)
          /\ due' = IF model = 1
                    THEN [due EXCEPT ![phase] =
                            @ + Cardinality({e \in Routed(ids) : Cold(layer, e)})]
                    ELSE due
  BY DEF Begin
<1>2. PICK layer \in IF model = 1 THEN Layers ELSE RamLayers,
           ne11 \in {1, used}, ids \in [1..n -> [1..used -> Experts]] :
        /\ \A t \in 1..n : \A x, y \in 1..used : ids[t][x] = ids[t][y] => x = y
        /\ call' = [model |-> model, layer |-> layer, ids |-> ids, ne11 |-> ne11]
        /\ sorted' = SortedOf(ids, ne11)
        /\ due' = IF model = 1
                  THEN [due EXCEPT ![phase] =
                          @ + Cardinality({e \in Routed(ids) : Cold(layer, e)})]
                  ELSE due
  BY <1>1
<1>3. n \in Nat /\ n >= 1 /\ used \in Nat
  BY FetchAssumption
<1>4. ids[1] \in [1..used -> Experts] /\ DOMAIN ids = 1..n
  BY <1>3
<1>5. Len(ids[1]) = used
  BY <1>3, <1>4
<1>6. ValidIds(ids)
  BY <1>2, <1>4, <1>5 DEF ValidIds
<1>7. call'.model = model /\ call'.layer = layer /\ call'.ids = ids /\ call'.ne11 = ne11
  BY <1>2
<1>8. /\ pc = "idle" /\ pc' = "expert" /\ stream = << >>
      /\ cur' = 0 /\ row' = 0 /\ calls' = calls + 1
      /\ result' = << >> /\ dst' = << >>
      /\ UNCHANGED << conf, hot, registry, staging, device, stream, phase, prof >>
  BY DEF Begin
<1> QED BY <1>2, <1>6, <1>7, <1>8

LEMMA ProfStep ==
  ASSUME FetchTypeOK, [Next]_vars
  PROVE  /\ prof' \in Profile
         /\ due' \in [Phases -> Nat] /\ phase' \in Phases
<1>1. /\ prof \in Profile
      /\ due \in [Phases -> Nat] /\ phase \in Phases /\ calls \in Nat
  BY DEF FetchTypeOK, Profile
<1>2. CASE Begin
  <2> DEFINE c == Cardinality({e \in Routed(call'.ids) : Cold(call'.layer, e)})
  <2>1. /\ ValidIds(call'.ids) /\ UNCHANGED << phase, prof >>
        /\ due' = IF call'.model = 1 THEN [due EXCEPT ![phase] = @ + c] ELSE due
    BY <1>1, <1>2, BeginFacts
  <2>2. c \in Nat
    BY <2>1, RoutedFinite
  <2> HIDE DEF c
  <2>3. CASE call'.model = 1
    <3>1. due' = [due EXCEPT ![phase] = due[phase] + c]
      BY <2>1, <2>3
    <3> QED BY <1>1, <2>1, <2>2, <3>1
  <2>4. CASE call'.model # 1
    BY <1>1, <2>1, <2>4
  <2> QED BY <2>3, <2>4
<1>3. CASE Hot \/ Fetch
  <2>1. /\ UNCHANGED << due, phase >>
        /\ \/ prof' = [prof EXCEPT !.accesses = @ + 1, !.hits = @ + 1]
           \/ prof' = CountRead(prof)
           \/ prof' = [prof EXCEPT !.accesses = @ + 1]
    BY <1>3 DEF Hot, Fetch
  <2>2. CASE prof' = [prof EXCEPT !.accesses = @ + 1, !.hits = @ + 1]
    <3>1. prof' = [accesses |-> prof.accesses + 1, hits |-> prof.hits + 1,
                   misses |-> prof.misses, reads |-> prof.reads]
      BY <1>1, <2>2, Counted
    <3> QED BY <1>1, <2>1, <3>1 DEF Profile
  <2>3. CASE prof' = CountRead(prof)
    BY <1>1, <2>1, <2>3, CountedRead
  <2>4. CASE prof' = [prof EXCEPT !.accesses = @ + 1]
    <3>1. prof' = [accesses |-> prof.accesses + 1, hits |-> prof.hits,
                   misses |-> prof.misses, reads |-> prof.reads]
      BY <1>1, <2>4, Counted
    <3> QED BY <1>1, <2>1, <3>1 DEF Profile
  <2> QED BY <2>1, <2>2, <2>3, <2>4
<1>4. CASE SetPhase
  BY <1>1, <1>4 DEF SetPhase
<1>5. CASE ProfileReset
  BY <1>1, <1>5 DEF ProfileReset, NoProf, NoReads, Profile
<1>6. CASE Load \/ Skip \/ InMemory \/ Sync \/ Return \/ Execute \/ UNCHANGED vars
  <2>1. UNCHANGED << prof, due, phase >>
    BY <1>6 DEF Load, Skip, InMemory, Sync, Return, Execute, vars
  <2> QED BY <1>1, <2>1
<1> QED BY <1>2, <1>3, <1>4, <1>5, <1>6 DEF Next, Host, Ended

LEMMA FetchTypeStep ==
  ASSUME FetchTypeOK, CallInv, RowInv, [Next]_vars
  PROVE  FetchTypeOK'
<1>1. /\ IsSeq(stream)' /\ prof' \in Profile
      /\ due' \in [Phases -> Nat] /\ phase' \in Phases
  BY StreamStep, ProfStep DEF FetchTypeOK, Profile
<1>2. NExpert \in Nat /\ cur \in 0..NExpert /\ row \in Nat /\ calls \in Nat /\ conf \in Configs
  BY FetchAssumption DEF FetchTypeOK, Profile
<1>3. CASE Load
  <2>1. conf.place \in [Layers -> {"device", "host"}]
    BY <1>2, FetchAssumption DEF ConfigType
  <2>2. pc' # "refused" =>
          registry' = [k \in Keys |-> IF k \in Placement THEN conf.place[k[1]] ELSE "none"]
    BY <1>3 DEF Load
  <2>3. \A k \in Keys : conf.place[k[1]] \in {"device", "host"}
    BY <2>1 DEF Keys
  <2>4. pc' # "refused" => registry' \in [Keys -> {"device", "host", "none"}]
    BY <2>2, <2>3
  <2>5. pc' \in {"refused", "idle"} /\ UNCHANGED << conf, cur, row, calls >>
    BY <1>3 DEF Load
  <2> QED BY <1>1, <1>2, <2>4, <2>5 DEF FetchTypeOK, Profile
<1>4. CASE Begin
  <2>1. /\ pc = "idle" /\ pc' = "expert" /\ cur' = 0 /\ row' = 0 /\ calls' = calls + 1
        /\ UNCHANGED << conf, registry >>
    BY <1>2, <1>4, BeginFacts
  <2> QED BY <1>1, <1>2, <2>1 DEF FetchTypeOK, Keys, Profile
<1>5. CASE \/ Skip \/ InMemory \/ Hot \/ Fetch \/ Sync
  <2>1. /\ pc \in {"expert", "sync"} /\ pc' \in {"expert", "sync", "aborted"} /\ cur < NExpert
        /\ UNCHANGED << conf, registry, calls >>
        /\ \/ UNCHANGED row
           \/ row' = row + Rows(cur)
        /\ \/ UNCHANGED cur
           \/ cur' = cur + 1 /\ pc' = "expert"
    BY <1>5 DEF Skip, InMemory, Hot, Fetch, Sync, Active, Advance, FetchTypeOK
  <2>2. calls # 0
    BY <2>1 DEF CallInv
  <2>3. cur \in Nat /\ Rows(cur) \in Nat
    BY <1>2, <2>2, Blocks
  <2>4. row' \in Nat /\ cur' \in 0..NExpert /\ (pc' = "sync" => cur' < NExpert)
    BY <1>2, <2>1, <2>3
  <2> QED BY <1>1, <1>2, <2>1, <2>4 DEF FetchTypeOK, Keys, Profile
<1>6. CASE Return \/ Execute \/ SetPhase \/ ProfileReset \/ UNCHANGED vars
  <2>1. /\ UNCHANGED << conf, registry, calls, cur, row >>
        /\ \/ UNCHANGED pc
           \/ pc = "expert" /\ pc' = "idle"
    BY <1>6 DEF Return, Execute, SetPhase, ProfileReset, vars
  <2> QED BY <1>1, <1>2, <2>1 DEF FetchTypeOK, Keys, Profile
<1> QED BY <1>3, <1>4, <1>5, <1>6 DEF Next, Host, Ended

LEMMA CallStep ==
  ASSUME FetchTypeOK, CallInv, [Next]_vars
  PROVE  CallInv'
<1>1. calls \in Nat
  BY DEF FetchTypeOK, Profile
<1>2. CASE Begin
  <2>1. calls' # 0 /\ calls' > 0
    BY <1>1, <1>2, BeginFacts
  <2> QED BY <1>1, <1>2, <2>1, BeginFacts DEF CallInv
<1>3. CASE UNCHANGED << call, sorted, calls >>
  <2>1. \/ UNCHANGED pc
        \/ pc = "load" /\ pc' \in {"refused", "idle"}
        \/ pc \in {"expert", "sync"} /\ pc' \in {"idle", "expert", "sync", "aborted"}
        \/ Begin
    BY DEF Next, Host, Load, Skip, InMemory, Hot, Fetch, Sync, Return, Execute, SetPhase,
       ProfileReset, Ended, vars, Active
  <2> QED BY <1>1, <1>2, <1>3, <2>1 DEF CallInv
<1>4. UNCHANGED << call, sorted, calls >> \/ Begin
  BY DEF Next, Host, Load, Skip, InMemory, Hot, Fetch, Sync, Return, Execute, SetPhase,
     ProfileReset, Ended, vars
<1> QED BY <1>2, <1>3, <1>4

LEMMA RowStep ==
  ASSUME FetchTypeOK, CallInv, RowInv, [Next]_vars
  PROVE  RowInv'
<1>1. calls \in Nat /\ cur \in Nat /\ row \in Nat
  BY FetchAssumption DEF FetchTypeOK, Profile
<1>2. CASE Begin
  <2>1. /\ cur' = 0 /\ row' = 0 /\ calls' \in Nat /\ calls' # 0
    BY <1>1, <1>2, BeginFacts
  <2>2. ValidIds(call'.ids) /\ sorted'.pairs = SortedPairs(call'.ids)
    BY <1>1, <1>2, BeginFacts DEF SortedOf
  <2>3. \A i \in Pairs' : sorted'.pairs[i][1] \in Nat
    BY <2>2, SortedPairsFacts, PairsFacts DEF Pairs
  <2>4. RowsBefore(cur)' = {}
    BY <2>1, <2>3 DEF RowsBefore
  <2> QED BY <2>1, <2>4, FS_EmptySet DEF RowInv
<1>3. CASE UNCHANGED << sorted, cur, row >> /\ (pc' \in {"expert", "sync"} => pc \in {"expert", "sync"})
  BY <1>3 DEF RowInv, RowsBefore, Pairs
<1>4. CASE /\ UNCHANGED sorted /\ cur' = cur + 1 /\ row' = row + Rows(cur)
           /\ pc \in {"expert", "sync"}
  <2>1. calls # 0
    BY <1>4 DEF CallInv
  <2>2. row' = Cardinality(RowsBefore(cur + 1))
    BY <1>1, <1>4, <2>1, Blocks DEF RowInv
  <2>3. RowsBefore(cur)' = RowsBefore(cur + 1)
    BY <1>4 DEF RowsBefore, Pairs
  <2> QED BY <2>2, <2>3 DEF RowInv
<1>5. CASE Skip
  <2>1. Rows(cur) = 0 /\ cur' = cur + 1 /\ UNCHANGED << sorted, row >> /\ pc = "expert"
    BY <1>5 DEF Skip
  <2>2. row' = row + Rows(cur)
    BY <1>1, <2>1
  <2> QED BY <1>4, <2>1, <2>2
<1>6. CASE Load \/ Return \/ Execute \/ SetPhase \/ ProfileReset \/ UNCHANGED vars
  BY <1>3, <1>6 DEF Load, Return, Execute, SetPhase, ProfileReset, vars
<1>7. CASE InMemory \/ Hot \/ Fetch \/ Sync
  BY <1>3, <1>4, <1>7 DEF InMemory, Hot, Fetch, Sync, Active, Advance
<1> QED BY <1>2, <1>5, <1>6, <1>7 DEF Next, Host, Ended

-----------------------------------------------------------------------------
(***************************************************************************)
(* The stream and the products.                                            *)
(***************************************************************************)
LEMMA ActiveFacts ==
  ASSUME FetchTypeOK, CallInv, RowInv, pc \in {"expert", "sync"}, cur < NExpert
  PROVE  /\ calls \in Nat /\ calls # 0 /\ cur \in Experts /\ cur \in Nat /\ row \in Nat
         /\ Rows(cur) \in Nat
         /\ (row + 1)..(row + Rows(cur)) = {i \in Pairs : sorted.pairs[i][1] = cur}
         /\ \A m : Weights(m) = << m, call.layer, cur >>
<1>1. calls \in Nat /\ cur \in Experts /\ cur \in Nat /\ row \in Nat
  BY FetchAssumption DEF FetchTypeOK, Experts
<1>2. calls # 0
  BY DEF CallInv
<1>3. row = Cardinality(RowsBefore(cur))
  BY DEF RowInv
<1> QED BY <1>1, <1>2, <1>3, Blocks DEF Weights

LEMMA ModelOfRegistered ==
  ASSUME OwnNames, CallInv, calls \in Nat, calls # 0
  PROVE  Registered <=> call.model = 1
BY DEF OwnNames, CallInv, Registered

LEMMA StayInPlace ==
  ASSUME UNCHANGED << call, sorted >>, NEW k, NEW j, stream'[k] = stream[j], InPlace(stream[j])
  PROVE  InPlace(stream[k])'
BY DEF InPlace, Own, Pairs

LEMMA OnlyInPlace ==
  ASSUME StreamInv, pc \notin {"sync", "idle"}
  PROVE  \A k \in 1..Len(stream) : InPlace(stream[k])
BY DEF StreamInv, Copying, Buffered, Scattering

LEMMA EnqueueOne ==
  ASSUME FetchTypeOK, StreamInv, pc = "expert", UNCHANGED << call, sorted >>,
         NEW o, stream' = Append(stream, o), InPlace(o)
  PROVE  StreamInv'
<1>1. /\ Len(stream) \in Nat /\ Len(stream') = Len(stream) + 1
      /\ \A k \in 1..Len(stream) : stream'[k] = stream[k]
      /\ stream'[Len(stream')] = o
  BY Appended DEF FetchTypeOK
<1>2. ASSUME NEW k \in 1..Len(stream') PROVE InPlace(stream[k])'
  <2>1. CASE k \in 1..Len(stream)
    <3>1. InPlace(stream[k])
      BY <2>1, OnlyInPlace
    <3> QED BY <1>1, <2>1, <3>1, StayInPlace
  <2>2. CASE k = Len(stream')
    <3>1. stream'[k] = o
      BY <1>1, <2>2
    <3> QED BY <3>1 DEF InPlace, Own, Pairs
  <2> QED BY <1>1, <2>1, <2>2
<1> QED BY <1>2 DEF StreamInv

LEMMA EnqueueTwo ==
  ASSUME FetchTypeOK, StreamInv, pc = "expert", pc' = "sync",
         UNCHANGED << call, sorted, cur, row >>, NEW src,
         stream' = stream \o << Copy(src), Product(<< "device" >>) >>,
         src = Own(cur) \/ (src = << "staging" >> /\ staging' = Own(cur))
  PROVE  StreamInv'
<1>1. PICK n, a, b : n = Len(stream) /\ a = Copy(src) /\ b = Product(<< "device" >>)
  OBVIOUS
<1>2. stream' = stream \o << a, b >> /\ IsSeq(stream)
  BY <1>1 DEF FetchTypeOK
<1>3. /\ n \in Nat /\ Len(stream') = n + 2
      /\ \A k \in 1..n : stream'[k] = stream[k]
      /\ stream'[n + 1] = a /\ stream'[n + 2] = b
  <2>1. /\ Len(stream) \in Nat /\ Len(stream') = Len(stream) + 2
        /\ \A k \in 1..Len(stream) : stream'[k] = stream[k]
        /\ stream'[Len(stream) + 1] = a /\ stream'[Len(stream) + 2] = b
    BY <1>2, AppendedTwo
  <2> QED BY <1>1, <2>1
<1>4. /\ a.op = "copy" /\ a.src = src
      /\ b.op = "mul" /\ b.src = << "device" >> /\ b.rows = (row + 1)..(row + Rows(cur))
  BY <1>1 DEF Copy, Product
<1>5. Own(cur)' = Own(cur) /\ Rows(cur)' = Rows(cur)
  BY DEF Own, Rows
<1>6. ASSUME NEW k \in 1..n PROVE InPlace(stream[k])'
  <2>1. InPlace(stream[k])
    BY <1>1, OnlyInPlace
  <2> QED BY <1>3, <2>1, StayInPlace
<1>7. Copying(n + 1)'
  <2>1. n + 1 = Len(stream') - 1
    BY <1>3
  <2> QED BY <1>3, <1>4, <1>5, <2>1 DEF Copying
<1>8. Buffered(n + 2)'
  <2>1. n + 2 = Len(stream') /\ (n + 2) - 1 = n + 1 /\ n + 2 # 1
    BY <1>3
  <2> QED BY <1>3, <1>4, <1>5, <2>1 DEF Buffered
<1>9. \A k \in 1..Len(stream') : k \in 1..n \/ k = n + 1 \/ k = n + 2
  BY <1>3
<1> QED BY <1>6, <1>7, <1>8, <1>9 DEF StreamInv

LEMMA ProductInPlace ==
  ASSUME FetchTypeOK, CallInv, RowInv, Active
  PROVE  InPlace(Product(Weights(call.model)))
<1>1. /\ cur \in Experts
      /\ (row + 1)..(row + Rows(cur)) = {i \in Pairs : sorted.pairs[i][1] = cur}
      /\ Weights(call.model) = Own(cur)
  BY ActiveFacts DEF Active, Own
<1>2. PICK o : o = Product(Weights(call.model))
  OBVIOUS
<1>3. o.op = "mul" /\ o.src = Own(cur) /\ o.rows = (row + 1)..(row + Rows(cur))
  BY <1>1, <1>2 DEF Product
<1>4. InPlace(o)
  BY <1>1, <1>3 DEF InPlace
<1> QED BY <1>2, <1>4

(* The device's next operation reads what it is meant to read. *)
LEMMA ExecuteStream ==
  ASSUME FetchTypeOK, StreamInv, Execute
  PROVE  StreamInv'
<1>1. PICK n : n = Len(stream')
  OBVIOUS
<1>2. /\ stream # << >> /\ stream' = Tail(stream) /\ IsSeq(stream)
      /\ UNCHANGED << pc, call, sorted, cur, row, staging >>
  BY DEF Execute, FetchTypeOK
<1>3. /\ n \in Nat /\ Len(stream) = n + 1 /\ Head(stream) = stream[1]
      /\ \A k \in 1..n : stream'[k] = stream[k + 1]
  BY <1>1, <1>2, HeadTaken
<1>4. Own(cur)' = Own(cur) /\ Rows(cur)' = Rows(cur)
  BY <1>2 DEF Own, Rows
<1>5. ASSUME NEW k \in 1..n
      PROVE  (InPlace(stream[k]) \/ Copying(k) \/ Buffered(k) \/ Scattering(k))'
  <2>1. k + 1 \in 1..Len(stream) /\ k \in Nat /\ 1 \in 1..Len(stream)
    BY <1>3
  <2>2. \/ InPlace(stream[k + 1]) \/ Copying(k + 1) \/ Buffered(k + 1) \/ Scattering(k + 1)
    BY <2>1 DEF StreamInv
  <2>3. CASE InPlace(stream[k + 1])
    BY <1>2, <1>3, <2>3, StayInPlace
  <2>4. CASE Copying(k + 1)
    <3>1. k = n - 1
      BY <1>3, <2>1, <2>4 DEF Copying
    <3> QED BY <1>1, <1>2, <1>3, <1>4, <2>4, <3>1 DEF Copying
  <2>5. CASE Buffered(k + 1)
    <3>1. k = n /\ k + 1 # 1 /\ (k + 1) - 1 = k /\ (k # 1 => (k - 1) + 1 = k /\ k - 1 \in 1..n)
      BY <1>3, <2>1, <2>5 DEF Buffered
    <3>2. stream[k].op = "copy"
      BY <2>5, <3>1 DEF Buffered
    <3>3. CASE k = 1
      <4>1. Copying(1)
        <5>1. InPlace(stream[1]) \/ Copying(1) \/ Buffered(1) \/ Scattering(1)
          BY <2>1 DEF StreamInv
        <5> QED BY <3>2, <3>3, <5>1 DEF InPlace, Buffered, Scattering
      <4>2. device' = Source(stream[1].src)
        BY <1>3, <3>2, <3>3 DEF Execute
      <4>3. Source(stream[1].src) = Own(cur)
        <5>1. << "staging" >> # Own(cur) /\ << "device" >> # Own(cur)
          BY DEF Own
        <5>2. CASE stream[1].src = Own(cur)
          BY <5>1, <5>2 DEF Source
        <5>3. CASE stream[1].src = << "staging" >> /\ staging = Own(cur)
          BY <5>3 DEF Source
        <5> QED BY <4>1, <5>2, <5>3 DEF Copying
      <4> QED BY <1>1, <1>2, <1>3, <1>4, <2>5, <3>1, <3>3, <4>2, <4>3 DEF Buffered
    <3>4. CASE k # 1
      <4>1. stream'[k - 1] = stream[k]
        BY <1>3, <3>1, <3>4
      <4> QED BY <1>1, <1>2, <1>3, <1>4, <2>5, <3>1, <3>2, <3>4, <4>1 DEF Buffered
    <3> QED BY <3>3, <3>4
  <2>6. CASE Scattering(k + 1)
    <3>1. k = n
      BY <1>3, <2>1, <2>6 DEF Scattering
    <3> QED BY <1>1, <1>2, <1>3, <2>6, <3>1 DEF Scattering
  <2> QED BY <2>2, <2>3, <2>4, <2>5, <2>6
<1> QED BY <1>1, <1>5 DEF StreamInv

LEMMA StreamInvStep ==
  ASSUME OwnNames, FetchTypeOK, CallInv, RowInv, StreamInv, [Next]_vars
  PROVE  StreamInv'
<1>1. CASE Begin \/ Sync
  <2>1. stream' = << >>
    BY <1>1 DEF Begin, Sync
  <2>2. Len(stream') = 0
    BY <2>1
  <2> QED BY <2>2 DEF StreamInv
<1>2. CASE Load \/ Skip \/ (Fetch /\ pc' = "aborted")
  <2>1. UNCHANGED << stream, call, sorted >> /\ pc \notin {"sync", "idle"}
    BY <1>2 DEF Load, Skip, Fetch, Active
  <2>2. \A k \in 1..Len(stream') : InPlace(stream[k])'
    BY <2>1, OnlyInPlace, StayInPlace
  <2> QED BY <2>2 DEF StreamInv
<1>3. CASE SetPhase \/ ProfileReset \/ UNCHANGED vars
  <2>1. UNCHANGED << pc, stream, call, sorted, cur, row, staging, device >>
    BY <1>3 DEF SetPhase, ProfileReset, vars
  <2>2. \A k : InPlace(stream[k])' = InPlace(stream[k])
    BY <2>1 DEF InPlace, Own, Pairs
  <2>3. Own(cur)' = Own(cur) /\ Rows(cur)' = Rows(cur)
    BY <2>1 DEF Own, Rows
  <2>4. \A k : Copying(k) => Copying(k)'
    BY <2>1, <2>3 DEF Copying
  <2>5. \A k : Buffered(k) => Buffered(k)'
    BY <2>1, <2>3 DEF Buffered
  <2>6. \A k : Scattering(k) => Scattering(k)'
    BY <2>1 DEF Scattering
  <2> QED BY <2>1, <2>2, <2>4, <2>5, <2>6 DEF StreamInv
<1>4. CASE InMemory
  <2>1. InPlace(Product(Weights(call.model)))
    BY <1>4, ProductInPlace DEF InMemory
  <2> QED BY <1>4, <2>1, EnqueueOne DEF InMemory, Active
<1>5. ASSUME Active, Registered
      PROVE  /\ Weights(1) = Own(cur)
             /\ InPlace(Product(Weights(1)))
             /\ pc = "expert"
  <2>1. call.model = 1
    BY <1>5, ActiveFacts, ModelOfRegistered DEF Active
  <2> QED BY <1>5, <2>1, ActiveFacts, ProductInPlace DEF Active, Own
<1>6. CASE Hot
  <2>1. /\ Active /\ Registered /\ UNCHANGED << call, sorted >>
        /\ \/ stream' = Append(stream, Product(Weights(1)))
           \/ /\ stream' = stream \o << Copy(Weights(1)), Product(<< "device" >>) >>
              /\ pc' = "sync" /\ UNCHANGED << cur, row >>
    BY <1>6 DEF Hot
  <2>2. CASE stream' = Append(stream, Product(Weights(1)))
    BY <1>5, <2>1, <2>2, EnqueueOne
  <2>3. CASE /\ stream' = stream \o << Copy(Weights(1)), Product(<< "device" >>) >>
             /\ pc' = "sync" /\ UNCHANGED << cur, row >>
    BY <1>5, <2>1, <2>3, EnqueueTwo
  <2> QED BY <2>1, <2>2, <2>3
<1>7. CASE Fetch /\ pc' # "aborted"
  <2>1. /\ Active /\ Registered /\ UNCHANGED << call, sorted, cur, row >>
        /\ stream' = stream \o << Copy(<< "staging" >>), Product(<< "device" >>) >>
        /\ pc' = "sync" /\ staging' = Weights(1)
    BY <1>7 DEF Fetch
  <2> QED BY <1>5, <2>1, EnqueueTwo
<1>8. CASE Return
  <2>1. PICK n : n = Len(stream')
    OBVIOUS
  <2>2. /\ stream' = Append(stream, Scatter) /\ pc = "expert" /\ pc' = "idle"
        /\ UNCHANGED << call, sorted >> /\ IsSeq(stream)
    BY <1>8 DEF Return, FetchTypeOK
  <2>3. /\ Len(stream) \in Nat /\ n = Len(stream) + 1
        /\ \A k \in 1..Len(stream) : stream'[k] = stream[k]
        /\ stream'[n] = Scatter
    BY <2>1, <2>2, Appended
  <2>4. \A k \in 1..Len(stream) : InPlace(stream[k])'
    BY <2>2, <2>3, OnlyInPlace, StayInPlace
  <2>5. Scattering(n)'
    BY <2>1, <2>2, <2>3 DEF Scattering, Scatter
  <2>6. \A k \in 1..n : k \in 1..Len(stream) \/ k = n
    BY <2>3
  <2> QED BY <2>1, <2>4, <2>5, <2>6 DEF StreamInv
<1> QED BY <1>1, <1>2, <1>3, <1>4, <1>6, <1>7, <1>8, ExecuteStream DEF Next, Host, Ended

-----------------------------------------------------------------------------
LEMMA StayReached ==
  ASSUME UNCHANGED result, Len(stream) \in Nat, Len(stream') \in Nat, Len(stream) <= Len(stream'),
         \A k \in 1..Len(stream) : stream'[k] = stream[k],
         NEW i, Reached(i)
  PROVE  Reached(i)'
BY DEF Reached, Enqueued

(* The last operation of a longer stream covers the rows it computes. *)
LEMMA ReachLast ==
  ASSUME FetchTypeOK, CallInv, RowInv, ProductInv, pc = "expert", cur < NExpert,
         UNCHANGED result, Len(stream) \in Nat, Len(stream') \in Nat,
         Len(stream) <= Len(stream'),
         \A k \in 1..Len(stream) : stream'[k] = stream[k],
         NEW k \in 1..Len(stream'), stream'[k].op = "mul",
         stream'[k].rows = (row + 1)..(row + Rows(cur))
  PROVE  \A i \in 1..(row + Rows(cur)) : Reached(i)'
<1> SUFFICES ASSUME NEW i \in 1..(row + Rows(cur)) PROVE Reached(i)'
  OBVIOUS
<1>1. row \in Nat /\ Rows(cur) \in Nat
  BY ActiveFacts
<1>2. CASE i \in 1..row
  <2>1. Reached(i)
    BY <1>2 DEF ProductInv
  <2> QED BY <2>1, StayReached
<1>3. CASE i \in (row + 1)..(row + Rows(cur))
  BY <1>3 DEF Reached, Enqueued
<1> QED BY <1>1, <1>2, <1>3

LEMMA ExecuteProducts ==
  ASSUME FetchTypeOK, CallInv, RowInv, StreamInv, ProductInv, Execute
  PROVE  ProductInv'
<1> DEFINE o == stream[1]
<1>1. /\ stream # << >> /\ stream' = Tail(stream) /\ IsSeq(stream)
      /\ UNCHANGED << pc, call, sorted, cur, row >>
  BY DEF Execute, FetchTypeOK
<1>2. /\ Len(stream) \in Nat /\ Len(stream) >= 1 /\ Len(stream') = Len(stream) - 1
      /\ \A k \in 1..Len(stream') : stream'[k] = stream[k + 1]
      /\ Head(stream) = stream[1]
  BY <1>1, HeadTaken
<1>3. /\ o.op = "copy" => UNCHANGED result
      /\ o.op = "scatter" => UNCHANGED result
      /\ o.op = "mul" =>
           result' = [i \in DOMAIN result \cup o.rows |->
                        IF i \in o.rows THEN << Source(o.src), sorted.to[i] >> ELSE result[i]]
  BY <1>2 DEF Execute
<1>4. InPlace(o) \/ Copying(1) \/ Buffered(1) \/ Scattering(1)
  BY <1>2 DEF StreamInv
<1>5. o.op \in {"copy", "scatter", "mul"}
  BY <1>4 DEF InPlace, Copying, Buffered, Scattering
<1>6. Own(cur)' = Own(cur) /\ Rows(cur)' = Rows(cur) /\ Pairs' = Pairs
      /\ \A e : Own(e)' = Own(e)
  BY <1>1 DEF Own, Rows, Pairs
<1>7. ASSUME o.op = "mul", NEW i \in o.rows
      PROVE  i \in Pairs /\ Source(o.src) = Own(sorted.pairs[i][1])
  <2>1. \A e : << "staging" >> # Own(e) /\ << "device" >> # Own(e)
    BY DEF Own
  <2>2. CASE InPlace(o)
    <3>1. PICK e \in Experts : o.src = Own(e) /\ i \in Pairs /\ sorted.pairs[i][1] = e
      BY <1>7, <2>2 DEF InPlace
    <3> QED BY <2>1, <3>1 DEF Source
  <2>3. CASE Buffered(1)
    <3>1. /\ device = Own(cur) /\ o.src = << "device" >> /\ pc = "sync"
          /\ i \in (row + 1)..(row + Rows(cur))
      BY <1>7, <2>3 DEF Buffered
    <3>2. cur < NExpert
      BY <3>1 DEF FetchTypeOK
    <3>3. i \in Pairs /\ sorted.pairs[i][1] = cur
      BY <3>1, <3>2, ActiveFacts
    <3>4. << "device" >> # << "staging" >>
      OBVIOUS
    <3> QED BY <3>1, <3>3, <3>4 DEF Source
  <2> QED BY <1>4, <1>7, <2>2, <2>3 DEF Copying, Scattering
<1> HIDE DEF o
<1>8. \A i \in DOMAIN result' : i \in Pairs /\ result'[i] = << Own(sorted.pairs[i][1]), sorted.to[i] >>
  <2>1. \A i \in DOMAIN result : i \in Pairs /\ result[i] = << Own(sorted.pairs[i][1]), sorted.to[i] >>
    BY DEF ProductInv
  <2>2. CASE o.op # "mul"
    BY <1>3, <1>5, <2>1, <2>2
  <2>3. CASE o.op = "mul"
    BY <1>3, <1>7, <2>1, <2>3
  <2> QED BY <2>2, <2>3
<1>9. ASSUME NEW i, Reached(i) PROVE Reached(i)'
  <2>1. CASE i \in DOMAIN result
    <3>1. i \in DOMAIN result'
      BY <1>3, <1>5, <2>1
    <3> QED BY <3>1 DEF Reached
  <2>2. CASE Enqueued(i)
    <3>1. PICK k \in 1..Len(stream) : stream[k].op = "mul" /\ i \in stream[k].rows
      BY <2>2 DEF Enqueued
    <3>2. CASE k = 1
      <4>1. i \in DOMAIN result'
        BY <1>3, <3>1, <3>2 DEF o
      <4> QED BY <4>1 DEF Reached
    <3>3. CASE k # 1
      <4>1. k - 1 \in 1..Len(stream') /\ (k - 1) + 1 = k
        BY <1>2, <3>3
      <4>2. stream'[k - 1] = stream[k]
        BY <1>2, <4>1
      <4> QED BY <3>1, <4>1, <4>2 DEF Reached, Enqueued
    <3> QED BY <3>2, <3>3
  <2> QED BY <1>9, <2>1, <2>2 DEF Reached
<1> QED BY <1>1, <1>6, <1>8, <1>9 DEF ProductInv

LEMMA ProductStep ==
  ASSUME OwnNames, FetchTypeOK, CallInv, RowInv, StreamInv, ProductInv, [Next]_vars
  PROVE  ProductInv'
<1>1. /\ IsSeq(stream) /\ calls \in Nat /\ row \in Nat /\ cur \in 0..NExpert /\ NExpert \in Nat
  BY FetchAssumption DEF FetchTypeOK
<1>2. ASSUME UNCHANGED << call, sorted, result >>
      PROVE  \A i \in DOMAIN result' :
               i \in Pairs' /\ result'[i] = << Own(sorted.pairs[i][1])', sorted'.to[i] >>
  BY <1>2 DEF ProductInv, Pairs, Own
<1>3. ASSUME UNCHANGED << result, stream >>, NEW i, Reached(i) PROVE Reached(i)'
  BY <1>3 DEF Reached, Enqueued
<1>4. CASE Load
  <2>1. /\ pc = "load" /\ pc' \in {"refused", "idle"}
        /\ UNCHANGED << call, sorted, result, calls >>
    BY <1>4 DEF Load
  <2>2. Pairs' = {}
    <3>1. sorted'.pairs = << >>
      BY <1>1, <2>1 DEF CallInv
    <3> QED BY <3>1 DEF Pairs
  <2> QED BY <1>2, <2>1, <2>2 DEF ProductInv
<1>5. CASE Begin
  <2>1. result' = << >> /\ row' = 0 /\ pc' = "expert"
    BY <1>1, <1>5, BeginFacts
  <2>2. DOMAIN result' = {} /\ 1..row' = {}
    BY <2>1
  <2> QED BY <2>1, <2>2 DEF ProductInv
<1>6. CASE SetPhase \/ ProfileReset \/ UNCHANGED vars
  <2>1. UNCHANGED << pc, call, sorted, result, stream, row, cur >>
    BY <1>6 DEF SetPhase, ProfileReset, vars
  <2>2. Rows(cur)' = Rows(cur) /\ Pairs' = Pairs
    BY <2>1 DEF Rows, Pairs
  <2> QED BY <1>2, <1>3, <2>1, <2>2 DEF ProductInv
<1>7. CASE Skip
  <2>1. UNCHANGED << pc, call, sorted, result, stream, row >> /\ pc = "expert"
    BY <1>7 DEF Skip
  <2> QED BY <1>2, <1>3, <2>1 DEF ProductInv
<1>8. CASE Fetch /\ pc' = "aborted"
  <2>1. UNCHANGED << call, sorted, result >>
    BY <1>8 DEF Fetch
  <2> QED BY <1>2, <1>8, <2>1 DEF ProductInv
<1>9. CASE Sync
  <2>1. /\ UNCHANGED << call, sorted, result, stream >> /\ pc = "sync" /\ pc' = "expert"
        /\ row' = row + Rows(cur)
    BY <1>9 DEF Sync, Advance
  <2> QED BY <1>2, <1>3, <2>1 DEF ProductInv
<1>10. ASSUME Active, UNCHANGED << call, sorted, result >>, pc' = "expert",
              row' = row + Rows(cur), NEW src, stream' = Append(stream, Product(src))
       PROVE  ProductInv'
  <2>1. PICK o : o = Product(src)
    OBVIOUS
  <2>2. o.op = "mul" /\ o.rows = (row + 1)..(row + Rows(cur))
    BY <2>1 DEF Product
  <2>3. /\ IsSeq(stream') /\ Len(stream) \in Nat /\ Len(stream') = Len(stream) + 1
        /\ \A k \in 1..Len(stream) : stream'[k] = stream[k]
        /\ stream'[Len(stream')] = o
    BY <1>1, <1>10, <2>1, Appended
  <2>4. PICK k \in 1..Len(stream') : stream'[k] = o
    BY <2>3
  <2>5. \A i \in 1..(row + Rows(cur)) : Reached(i)'
    BY <1>10, <2>2, <2>3, <2>4, ReachLast DEF Active
  <2> QED BY <1>2, <1>10, <2>5 DEF ProductInv
<1>11. ASSUME Active, UNCHANGED << call, sorted, result, row, cur >>, pc' = "sync", NEW a,
              stream' = stream \o << a, Product(<< "device" >>) >>
       PROVE  ProductInv'
  <2>1. PICK o : o = Product(<< "device" >>)
    OBVIOUS
  <2>2. o.op = "mul" /\ o.rows = (row + 1)..(row + Rows(cur))
    BY <2>1 DEF Product
  <2>3. /\ Len(stream) \in Nat /\ Len(stream') = Len(stream) + 2
        /\ \A k \in 1..Len(stream) : stream'[k] = stream[k]
        /\ stream'[Len(stream) + 2] = o
    <3>1. stream' = stream \o << a, o >>
      BY <1>11, <2>1
    <3> QED BY <1>1, <3>1, AppendedTwo
  <2>4. PICK k \in 1..Len(stream') : stream'[k] = o
    BY <2>3
  <2>5. \A i \in 1..(row + Rows(cur)) : Reached(i)'
    BY <1>11, <2>2, <2>3, <2>4, ReachLast DEF Active
  <2>6. Rows(cur)' = Rows(cur)
    BY <1>11 DEF Rows
  <2> QED BY <1>2, <1>11, <2>5, <2>6 DEF ProductInv
<1>12. CASE InMemory
  BY <1>10, <1>12 DEF InMemory, Active, Advance
<1>13. CASE Hot
  <2>1. CASE registry[<< call.layer, cur >>] = "device"
    BY <1>10, <1>13, <2>1 DEF Hot, Active, Advance
  <2>2. CASE registry[<< call.layer, cur >>] # "device"
    BY <1>11, <1>13, <2>2 DEF Hot
  <2> QED BY <2>1, <2>2
<1>14. CASE Fetch /\ pc' # "aborted"
  BY <1>11, <1>14 DEF Fetch
<1>15. CASE Return
  <2>1. /\ pc = "expert" /\ pc' = "idle" /\ cur = NExpert /\ stream' = Append(stream, Scatter)
        /\ UNCHANGED << call, sorted, result >>
    BY <1>15 DEF Return
  <2>2. calls # 0 /\ row = Cardinality(RowsBefore(NExpert))
    BY <2>1 DEF CallInv, RowInv
  <2>3. RowsBefore(NExpert) = 1..row
    BY <1>1, <2>2, Blocks
  <2>4. RowsBefore(NExpert) = Pairs
    <3>1. \A i \in Pairs : sorted.pairs[i][1] \in Experts
      BY <1>1, <2>2, SortFacts
    <3>2. \A i \in Pairs : sorted.pairs[i][1] < NExpert
      BY <1>1, <3>1 DEF Experts
    <3> QED BY <3>2 DEF RowsBefore
  <2>5. /\ Len(stream) \in Nat /\ Len(stream') = Len(stream) + 1
        /\ \A k \in 1..Len(stream) : stream'[k] = stream[k]
    BY <1>1, <2>1, Appended
  <2>6. \A i \in Pairs : Reached(i)'
    <3>1. \A i \in Pairs : Reached(i)
      BY <2>1, <2>3, <2>4 DEF ProductInv
    <3> QED BY <2>1, <2>5, <3>1, StayReached
  <2>7. Pairs' = Pairs
    BY <2>1 DEF Pairs
  <2> QED BY <1>2, <2>1, <2>6, <2>7 DEF ProductInv
<1> QED BY <1>4, <1>5, <1>6, <1>7, <1>8, <1>9, <1>12, <1>13, <1>14, <1>15, ExecuteProducts
        DEF Next, Host, Ended

(* When the device scatters, the scatter is all that is left, so every      *)
(* product of the call has been computed.                                   *)
LEMMA DstStep ==
  ASSUME FetchTypeOK, CallInv, StreamInv, ProductInv, ProductsOwnWeights, [Next]_vars
  PROVE  ProductsOwnWeights'
<1>1. IsSeq(stream) /\ calls \in Nat
  BY DEF FetchTypeOK
<1>2. ASSUME UNCHANGED << call, dst >> PROVE ProductsOwnWeights'
  BY <1>2 DEF ProductsOwnWeights, Slots
<1>3. CASE Begin
  BY <1>3 DEF Begin, ProductsOwnWeights
<1>4. CASE \/ Load \/ Skip \/ InMemory \/ Hot \/ Fetch \/ Sync \/ Return \/ SetPhase
           \/ ProfileReset \/ UNCHANGED vars
  <2>1. UNCHANGED << call, dst >>
    BY <1>4 DEF Load, Skip, InMemory, Hot, Fetch, Sync, Return, SetPhase, ProfileReset, vars
  <2> QED BY <1>2, <2>1
<1>5. CASE Execute
  <2>1. stream # << >> /\ UNCHANGED << call, sorted >>
    BY <1>5 DEF Execute
  <2>2. Len(stream) \in Nat /\ Len(stream) >= 1 /\ Head(stream) = stream[1]
    BY <1>1, <2>1, HeadTaken
  <2>3. InPlace(stream[1]) \/ Copying(1) \/ Buffered(1) \/ Scattering(1)
    BY <2>2 DEF StreamInv
  <2>4. CASE ~Scattering(1)
    <3>1. stream[1].op \in {"copy", "mul"}
      BY <2>3, <2>4 DEF InPlace, Copying, Buffered
    <3>2. UNCHANGED dst
      BY <1>5, <2>2, <3>1 DEF Execute
    <3> QED BY <1>2, <2>1, <3>2
  <2>5. CASE Scattering(1)
    <3>1. /\ pc = "idle" /\ Len(stream) = 1 /\ stream[1].op = "scatter"
          /\ stream[1].rows = sorted.from
      BY <2>5 DEF Scattering
    <3>2. dst' = [t \in DOMAIN sorted.from |->
                    [x \in DOMAIN sorted.from[t] |-> result[sorted.from[t][x]]]]
      BY ZenonT(60), <1>5, <2>2, <3>1 DEF Execute
    <3>3. \A i : ~Enqueued(i)
      BY <3>1 DEF Enqueued
    <3>4. \A i \in Pairs : i \in DOMAIN result
      BY <3>1, <3>3 DEF ProductInv, Reached
    <3>5. \A i \in Pairs : result[i] = << Own(sorted.pairs[i][1]), sorted.to[i] >>
      BY <3>4 DEF ProductInv
    <3>6. CASE calls # 0
      <4>1. /\ DOMAIN sorted.from = DOMAIN call.ids
            /\ \A t \in DOMAIN call.ids :
                 /\ DOMAIN sorted.from[t] = Slots
                 /\ \A x \in Slots :
                      /\ sorted.from[t][x] \in Pairs
                      /\ sorted.pairs[sorted.from[t][x]][1] = call.ids[t][x]
                      /\ sorted.to[sorted.from[t][x]] = Input(t, x, call.ne11)
        BY <1>1, <3>6, SortFacts
      <4>2. ASSUME NEW t \in DOMAIN call.ids, NEW x \in Slots
            PROVE  dst'[t][x] = << Own(call.ids[t][x]), Input(t, x, call.ne11) >>
        <5>1. dst'[t][x] = result[sorted.from[t][x]]
          BY <3>2, <4>1
        <5> QED BY <3>5, <4>1, <5>1
      <4> QED BY <2>1, <4>2 DEF ProductsOwnWeights, Slots, Own
    <3>7. CASE calls = 0
      <4>1. DOMAIN call.ids = {}
        BY <3>7 DEF CallInv
      <4> QED BY <2>1, <4>1 DEF ProductsOwnWeights
    <3> QED BY <3>6, <3>7
  <2> QED BY <2>4, <2>5
<1> QED BY <1>3, <1>4, <1>5 DEF Next, Host, Ended

-----------------------------------------------------------------------------
(***************************************************************************)
(* The profile.                                                            *)
(***************************************************************************)
LEMMA ProfFacts ==
  ASSUME FetchTypeOK
  PROVE  /\ prof \in Profile /\ phase \in Phases /\ calls \in Nat
         /\ prof.accesses \in Nat /\ prof.hits \in Nat /\ prof.misses \in Nat
         /\ prof.reads \in [Phases -> Nat] /\ due \in [Phases -> Nat]
BY DEF FetchTypeOK, Profile

(* A step that counts no read keeps the account if it leaves no cold       *)
(* expert of the call behind.                                              *)
LEMMA NoRead ==
  ASSUME ReadsInv, UNCHANGED << call, registry, due, phase >>,
         pc \in {"expert", "sync"}, pc' \in {"expert", "sync"},
         prof'.reads = prof.reads, prof'.accesses = prof'.hits + prof'.misses,
         call.model = 1 =>
           \A e \in Routed(call.ids) :
             Cold(call.layer, e) => ((IF pc' = "sync" THEN e > cur' ELSE e >= cur')
                                     <=> (IF pc = "sync" THEN e > cur ELSE e >= cur))
  PROVE  ReadsInv'
<1>1. call.model = 1 => Ahead' = Ahead
  BY DEF Ahead, Cold, Routed
<1>2. \A p \in Phases :
        due[p] = prof.reads[p] + (IF p = phase /\ call.model = 1 THEN Cardinality(Ahead) ELSE 0)
  BY DEF ReadsInv
<1>3. \A p \in Phases :
        due'[p] = prof'.reads[p]
                  + (IF p = phase' /\ call'.model = 1 THEN Cardinality(Ahead)' ELSE 0)
  <2>1. CASE call.model = 1
    BY <1>1, <1>2, <2>1
  <2>2. CASE call.model # 1
    BY <1>2, <2>2
  <2> QED BY <2>1, <2>2
<1> QED BY <1>3 DEF ReadsInv

LEMMA BeginReads ==
  ASSUME FetchTypeOK, ReadsInv, Begin
  PROVE  ReadsInv'
<1>1. /\ prof.reads \in [Phases -> Nat] /\ due \in [Phases -> Nat] /\ phase \in Phases
      /\ calls \in Nat
  BY ProfFacts
<1>2. PICK c : c = Cardinality({e \in Routed(call'.ids) : Cold(call'.layer, e)})
  OBVIOUS
<1>3. /\ ValidIds(call'.ids) /\ pc = "idle" /\ pc' = "expert" /\ cur' = 0
      /\ UNCHANGED << registry, phase, prof >>
      /\ due' = IF call'.model = 1 THEN [due EXCEPT ![phase] = @ + c] ELSE due
  BY <1>1, <1>2, BeginFacts
<1>4. c \in Nat /\ Routed(call'.ids) \subseteq Nat
  BY <1>2, <1>3, RoutedFinite, ExpertsFinite
<1>5. Cardinality(Ahead)' = c
  <2>1. Ahead' = {e \in Routed(call'.ids) : Cold(call'.layer, e)}
    BY <1>3, <1>4 DEF Ahead, Cold, Routed
  <2> QED BY <1>2, <2>1
<1>6. prof.accesses = prof.hits + prof.misses /\ prof.reads = due
  BY <1>3 DEF ReadsInv
<1>7. \A p \in Phases : due'[p] = prof'.reads[p] + (IF p = phase' /\ call'.model = 1 THEN c ELSE 0)
  <2>1. CASE call'.model = 1
    <3>1. due' = [due EXCEPT ![phase] = due[phase] + c]
      BY <1>3, <2>1
    <3> QED BY <1>1, <1>3, <1>4, <1>6, <2>1, <3>1
  <2>2. CASE call'.model # 1
    BY <1>1, <1>3, <1>6, <2>2
  <2> QED BY <2>1, <2>2
<1> QED BY <1>3, <1>5, <1>6, <1>7 DEF ReadsInv

LEMMA FetchReads ==
  ASSUME OwnNames, FetchTypeOK, CallInv, RowInv, ReadsInv, Fetch
  PROVE  ReadsInv'
<1>1. /\ prof \in Profile /\ prof.accesses \in Nat /\ prof.hits \in Nat /\ prof.misses \in Nat
      /\ prof.reads \in [Phases -> Nat] /\ due \in [Phases -> Nat] /\ phase \in Phases
  BY ProfFacts
<1>2. /\ pc = "expert" /\ cur < NExpert /\ Rows(cur) > 0 /\ Registered
      /\ Cold(call.layer, cur) /\ UNCHANGED << call, registry, cur, phase, due >>
  BY DEF Fetch, Active
<1>3. /\ calls \in Nat /\ calls # 0 /\ cur \in Nat
  BY <1>2, ActiveFacts
<1>4. call.model = 1 /\ cur \in Routed(call.ids) /\ ValidIds(call.ids)
  BY <1>2, <1>3, ModelOfRegistered, RoutedRows DEF CallInv
<1>5. IsFiniteSet(Ahead) /\ Cardinality(Ahead) \in Nat /\ Routed(call.ids) \subseteq Nat
  <2>1. Ahead \in SUBSET Routed(call.ids)
    BY DEF Ahead
  <2> QED BY <1>4, <2>1, RoutedFinite, ExpertsFinite
<1>6. prof.accesses = prof.hits + prof.misses
  BY <1>2 DEF ReadsInv
<1>7. CASE pc' = "aborted"
  BY <1>7 DEF ReadsInv
<1>8. CASE pc' # "aborted"
  <2>1. pc' = "sync" /\ prof' = CountRead(prof)
    BY <1>8 DEF Fetch
  <2>2. /\ prof'.accesses = prof.accesses + 1 /\ prof'.hits = prof.hits
        /\ prof'.misses = prof.misses + 1
        /\ \A p \in Phases :
             prof'.reads[p] = IF p = phase THEN prof.reads[p] + 1 ELSE prof.reads[p]
    BY <1>1, <2>1, CountedRead
  <2>3. cur \in Ahead
    BY <1>2, <1>3, <1>4 DEF Ahead
  <2>4. Ahead' = Ahead \ {cur}
    <3>1. Ahead' = {e \in Routed(call.ids) : Cold(call.layer, e) /\ e > cur}
      BY <1>2, <2>1 DEF Ahead, Cold, Routed
    <3>2. Ahead = {e \in Routed(call.ids) : Cold(call.layer, e) /\ e >= cur}
      BY <1>2 DEF Ahead
    <3>3. \A e \in Routed(call.ids) : e > cur <=> (e >= cur /\ e # cur)
      BY <1>3, <1>5
    <3> QED BY <3>1, <3>2, <3>3
  <2>5. Cardinality(Ahead') = Cardinality(Ahead) - 1
    BY <1>5, <2>3, <2>4, FS_RemoveElement
  <2>6. prof'.accesses = prof'.hits + prof'.misses
    BY <1>1, <1>6, <2>2
  <2>7. ASSUME NEW p \in Phases
        PROVE  due'[p] = prof'.reads[p]
                         + (IF p = phase' /\ call'.model = 1 THEN Cardinality(Ahead') ELSE 0)
    <3>1. due[p] = prof.reads[p] + (IF p = phase /\ call.model = 1 THEN Cardinality(Ahead) ELSE 0)
      BY <1>2 DEF ReadsInv
    <3>2. prof.reads[p] \in Nat /\ due[p] \in Nat
      BY <1>1
    <3> QED BY <1>2, <1>4, <1>5, <2>2, <2>5, <3>1, <3>2
  <2> QED BY <2>1, <2>6, <2>7 DEF ReadsInv
<1> QED BY <1>7, <1>8

LEMMA ReadsStep ==
  ASSUME OwnNames, FetchTypeOK, CallInv, RowInv, ReadsInv, [Next]_vars
  PROVE  ReadsInv'
<1>1. /\ prof \in Profile /\ prof.accesses \in Nat /\ prof.hits \in Nat /\ prof.misses \in Nat
      /\ prof.reads \in [Phases -> Nat] /\ due \in [Phases -> Nat] /\ phase \in Phases
  BY ProfFacts
<1>2. pc # "aborted" => prof.accesses = prof.hits + prof.misses
  BY DEF ReadsInv
<1>3. ASSUME pc \in {"expert", "sync"}
      PROVE  /\ calls \in Nat /\ calls # 0 /\ cur \in Nat /\ cur <= NExpert
             /\ ValidIds(call.ids) /\ Routed(call.ids) \subseteq Nat
             /\ Routed(call.ids) \subseteq Experts
  <2>1. calls \in Nat /\ calls # 0 /\ cur \in Nat /\ cur <= NExpert
    BY <1>3, FetchAssumption DEF FetchTypeOK, CallInv
  <2>2. ValidIds(call.ids)
    BY <2>1 DEF CallInv
  <2> QED BY <2>1, <2>2, RoutedFinite, ExpertsFinite
<1>4. CASE Load
  <2>1. pc = "load" /\ pc' \in {"refused", "idle"} /\ UNCHANGED << prof, due >>
    BY <1>4 DEF Load
  <2> QED BY <2>1 DEF ReadsInv
<1>5. CASE SetPhase
  <2>1. pc = "idle" /\ UNCHANGED << pc, prof, due >>
    BY <1>5 DEF SetPhase
  <2> QED BY <2>1 DEF ReadsInv
<1>6. CASE ProfileReset
  <2>1. pc = "idle" /\ pc' = "idle" /\ prof' = NoProf /\ due' = NoReads
    BY <1>6 DEF ProfileReset
  <2>2. prof'.accesses = 0 /\ prof'.hits = 0 /\ prof'.misses = 0 /\ prof'.reads = due'
    BY <2>1 DEF NoProf
  <2> QED BY <2>1, <2>2 DEF ReadsInv
<1>7. CASE Execute \/ UNCHANGED vars
  <2>1. UNCHANGED << pc, prof, due, phase, call, registry, cur >>
    BY <1>7 DEF Execute, vars
  <2>2. Cardinality(Ahead)' = Cardinality(Ahead)
    BY <2>1 DEF Ahead, Cold, Routed
  <2> QED BY <2>1, <2>2 DEF ReadsInv
<1>8. CASE Skip
  <2>1. /\ pc = "expert" /\ pc' = "expert" /\ cur' = cur + 1 /\ Rows(cur) = 0
        /\ UNCHANGED << call, registry, due, phase, prof >>
    BY <1>8 DEF Skip
  <2>2. cur \notin Routed(call.ids)
    <3>1. ~(Rows(cur) > 0)
      BY <2>1
    <3> QED BY <1>3, <2>1, <3>1, RoutedRows
  <2>3. \A e \in Routed(call.ids) : (e >= cur') <=> (e >= cur)
    BY <1>3, <2>1, <2>2
  <2> QED BY <1>2, <2>1, <2>3, NoRead
<1>9. CASE InMemory
  <2>1. /\ pc = "expert" /\ pc' = "expert" /\ ~Registered
        /\ UNCHANGED << call, registry, due, phase, prof >>
    BY <1>9 DEF InMemory, Active
  <2>2. call.model # 1
    BY <1>3, <2>1, ModelOfRegistered
  <2> QED BY <1>2, <2>1, <2>2, NoRead
<1>10. CASE Hot
  <2>1. /\ pc = "expert" /\ ~Cold(call.layer, cur)
        /\ UNCHANGED << call, registry, due, phase >>
        /\ prof' = [prof EXCEPT !.accesses = @ + 1, !.hits = @ + 1]
        /\ \/ pc' = "expert" /\ cur' = cur + 1
           \/ pc' = "sync" /\ cur' = cur
    BY <1>10 DEF Hot, Active, Advance
  <2>2. prof' = [accesses |-> prof.accesses + 1, hits |-> prof.hits + 1,
                 misses |-> prof.misses, reads |-> prof.reads]
    BY <1>1, <2>1, Counted
  <2>3. prof'.reads = prof.reads /\ prof'.accesses = prof'.hits + prof'.misses
    BY <1>1, <1>2, <2>1, <2>2
  <2>4. \A e \in Routed(call.ids) :
          Cold(call.layer, e) => ((IF pc' = "sync" THEN e > cur' ELSE e >= cur') <=> e >= cur)
    BY <1>3, <2>1
  <2> QED BY <2>1, <2>3, <2>4, NoRead
<1>11. CASE Sync
  <2>1. /\ pc = "sync" /\ pc' = "expert" /\ cur' = cur + 1
        /\ UNCHANGED << call, registry, due, phase, prof >>
    BY <1>11 DEF Sync, Advance
  <2>2. \A e \in Routed(call.ids) : (e >= cur') <=> (e > cur)
    BY <1>3, <2>1
  <2> QED BY <1>2, <2>1, <2>2, NoRead
<1>12. CASE Return
  <2>1. /\ pc = "expert" /\ pc' = "idle" /\ cur = NExpert /\ UNCHANGED << prof, due >>
    BY <1>12 DEF Return
  <2>2. Ahead = {}
    <3>1. \A e \in Routed(call.ids) : ~(e >= cur)
      BY <1>3, <2>1, FetchAssumption DEF Experts
    <3> QED BY <2>1, <3>1 DEF Ahead
  <2>3. Cardinality(Ahead) = 0
    BY <2>2, FS_EmptySet
  <2>4. \A p \in Phases : due[p] = prof.reads[p]
    BY <1>1, <2>1, <2>3 DEF ReadsInv
  <2>5. prof.reads = due
    BY <1>1, <2>4
  <2> QED BY <1>2, <2>1, <2>5 DEF ReadsInv
<1> QED BY <1>4, <1>5, <1>6, <1>7, <1>8, <1>9, <1>10, <1>11, <1>12, BeginReads, FetchReads
        DEF Next, Host, Ended

-----------------------------------------------------------------------------
(***************************************************************************)
(* The theorems.                                                           *)
(***************************************************************************)
LEMMA InitCore == Init => FetchTypeOK /\ CallInv /\ RowInv
<1> SUFFICES ASSUME Init PROVE FetchTypeOK /\ CallInv /\ RowInv
  OBVIOUS
<1>1. stream = << >> /\ Len(stream) = 0 /\ IsSeq(stream)
  <2>1. << >> \in Seq({})
    OBVIOUS
  <2>2. stream = << >> /\ Len(stream) = 0
    BY DEF Init
  <2> QED BY <2>1, <2>2, OfItsElements
<1>2. prof \in Profile /\ due \in [Phases -> Nat] /\ phase \in Phases
  BY DEF Init, NoProf, NoReads, Profile, Phases
<1>3. NExpert \in Nat
  BY FetchAssumption
<1>4. FetchTypeOK
  BY <1>1, <1>2, <1>3 DEF Init, FetchTypeOK, Profile
<1>5. CallInv
  BY DEF Init, CallInv
<1>6. RowInv
  BY DEF Init, RowInv
<1> QED BY <1>4, <1>5, <1>6

LEMMA InitRest == Init => StreamInv /\ ProductInv /\ ProductsOwnWeights /\ ReadsInv
<1> SUFFICES ASSUME Init PROVE StreamInv /\ ProductInv /\ ProductsOwnWeights /\ ReadsInv
  OBVIOUS
<1>1. StreamInv
  <2>1. Len(stream) = 0
    BY DEF Init
  <2> QED BY <2>1 DEF StreamInv
<1>2. ProductInv
  <2>1. DOMAIN result = {} /\ pc = "load"
    BY DEF Init
  <2> QED BY <2>1 DEF ProductInv
<1>3. ProductsOwnWeights
  BY DEF Init, ProductsOwnWeights
<1>4. ReadsInv
  <2>1. prof.accesses = 0 /\ prof.hits = 0 /\ prof.misses = 0 /\ prof.reads = due /\ pc = "load"
    BY DEF Init, NoProf
  <2> QED BY <2>1 DEF ReadsInv
<1> QED BY <1>1, <1>2, <1>3, <1>4

(* Types, the sorted pairs and the row counter are invariant whatever the  *)
(* names of the layers are.                                                *)
LEMMA CoreInvariance == Spec => [](FetchTypeOK /\ CallInv /\ RowInv)
<1>1. FetchTypeOK /\ CallInv /\ RowInv /\ [Next]_vars => (FetchTypeOK /\ CallInv /\ RowInv)'
  BY FetchTypeStep, CallStep, RowStep
<1> QED BY <1>1, InitCore, PTL DEF Spec

(* The inductive invariant: of what is enqueued, only the last copy and    *)
(* the product behind it read a buffer that later experts reuse, the host  *)
(* waits for the two before it goes on, every row up to the counter is     *)
(* computed or enqueued, and the profile owes one read for each cold       *)
(* expert the loop of ggml_cuda_mul_mat_id() has not come to.              *)
THEOREM FetchInvariance ==
  ASSUME OwnNames
  PROVE  Spec => []FetchInv
<1>1. FetchInv /\ [Next]_vars => FetchInv'
  <2> SUFFICES ASSUME FetchInv, [Next]_vars PROVE FetchInv'
    OBVIOUS
  <2>1. /\ FetchTypeOK /\ CallInv /\ RowInv /\ StreamInv /\ ProductInv /\ ProductsOwnWeights
        /\ ReadsInv
    BY DEF FetchInv
  <2>2. FetchTypeOK' /\ CallInv' /\ RowInv'
    BY <2>1, FetchTypeStep, CallStep, RowStep
  <2>3. StreamInv' /\ ProductInv'
    BY <2>1, StreamInvStep, ProductStep
  <2>4. ProductsOwnWeights'
    BY <2>1, DstStep
  <2>5. ReadsInv'
    BY <2>1, ReadsStep
  <2> QED BY <2>2, <2>3, <2>4, <2>5 DEF FetchInv
<1>2. Init => FetchInv
  BY InitCore, InitRest DEF FetchInv
<1> QED BY <1>1, <1>2, PTL DEF Spec

(* Every product a call delivers is the one of the routed expert's own     *)
(* weights and the token's own row, however far the device lags behind,    *)
(* for any number of layers, experts, tokens and calls, provided the two   *)
(* models have no layer name in common.                                    *)
THEOREM OwnWeights ==
  ASSUME OwnNames
  PROVE  Spec => []ProductsOwnWeights
<1>1. FetchInv => ProductsOwnWeights
  BY DEF FetchInv
<1> QED BY <1>1, FetchInvariance, PTL

(* Between two calls the profile's reads of a phase are the cold experts   *)
(* its calls were routed to, and every access is a hit or a miss.          *)
THEOREM ReadsCounted ==
  ASSUME OwnNames
  PROVE  Spec => []ReadsOfPhase
<1>1. FetchInv => ReadsOfPhase
  BY DEF FetchInv, ReadsInv, ReadsOfPhase
<1> QED BY <1>1, FetchInvariance, PTL

(* A direct read of an expert, rounded up to whole pages, ends inside the  *)
(* staging buffer for every offset in the file, alignment of the buffer    *)
(* and size up to MAX_EXPERT_SIZE.                                         *)
THEOREM ReadsFit == Spec => []ReadStaysInStaging
<1>1. FetchTypeOK => ReadStaysInStaging
  <2> SUFFICES ASSUME FetchTypeOK, conf.bytes \in 1..MaxExpert PROVE Requested <= StagingRoom
    BY DEF ReadStaysInStaging
  <2>1. conf \in Configs /\ cur \in Nat
    BY FetchAssumption DEF FetchTypeOK
  <2> QED BY <2>1, ReadFits
<1> QED BY <1>1, CoreInvariance, PTL

-----------------------------------------------------------------------------
(***************************************************************************)
(* The budget.  The sum and the placement are recursive functions: each is *)
(* what its definition says because a function with that property exists   *)
(* for every size, and what they compute is proved by induction on it.     *)
(***************************************************************************)
LEMMA Counting ==
  ASSUME NEW T \in SUBSET Nat, 0 \in T, \A n \in T : n + 1 \in T
  PROVE  \A n \in Nat : n \in T
<1> SUFFICES ASSUME NEW n \in Nat, n \notin T PROVE FALSE
  OBVIOUS
<1> DEFINE U == Nat \ T
<1>1. PICK x \in U : \A y \in U : ~(<< y, x >> \in OpToRel(<, Nat))
  <2>1. U # {} /\ U \subseteq Nat
    OBVIOUS
  <2> HIDE DEF U
  <2> QED BY <2>1, NatLessThanWellFounded, WFMin
<1>2. x \in Nat /\ x # 0
  OBVIOUS
<1>3. x - 1 \in Nat /\ x - 1 < x /\ (x - 1) + 1 = x
  BY <1>2
<1>4. x - 1 \notin U
  BY <1>1, <1>2, <1>3 DEF OpToRel
<1> QED BY <1>3, <1>4

LEMMA KeysFinite ==
  /\ IsFiniteSet(Keys) /\ Cardinality(Keys) \in Nat
  /\ \A S \in SUBSET Keys : IsFiniteSet(S) /\ Cardinality(S) \in 0..Cardinality(Keys)
<1>1. IsFiniteSet(Layers) /\ IsFiniteSet(Experts)
  BY FetchAssumption, ExpertsFinite
<1>2. IsFiniteSet(Layers \X Experts)
  BY <1>1, FS_Product
<1>3. IsFiniteSet(Keys) /\ Cardinality(Keys) \in Nat
  BY <1>2, FS_CardinalityType DEF Keys
<1>4. ASSUME NEW S \in SUBSET Keys
      PROVE  IsFiniteSet(S) /\ Cardinality(S) \in 0..Cardinality(Keys)
  <2>1. IsFiniteSet(S) /\ Cardinality(S) <= Cardinality(Keys)
    BY <1>3, FS_Subset
  <2>2. Cardinality(S) \in Nat
    BY <2>1, FS_CardinalityType
  <2> QED BY <1>3, <2>1, <2>2
<1> QED BY <1>3, <1>4

LEMMA KeyFacts ==
  ASSUME NEW k \in Keys
  PROVE  /\ k[1] \in Nat /\ k[2] \in Nat /\ k = << k[1], k[2] >>
         /\ Bundle(k[1]) \in Nat
<1>1. k[1] \in Layers /\ k[2] \in Experts /\ k = << k[1], k[2] >>
  BY DEF Keys
<1> QED BY <1>1, FetchAssumption, ExpertsFinite

(* Sets of at most n experts. *)
UpTo(n) == {S \in SUBSET Keys : Cardinality(S) <= n}

LEMMA UpToFacts ==
  /\ UpTo(0) = {{}}
  /\ UpTo(Cardinality(Keys)) = SUBSET Keys
  /\ \A n \in Nat : \A S \in UpTo(n + 1) : \A x \in S : S \ {x} \in UpTo(n)
<1>1. UpTo(0) = {{}}
  <2>1. ASSUME NEW S \in UpTo(0) PROVE S = {}
    <3>1. IsFiniteSet(S) /\ Cardinality(S) = 0
      BY KeysFinite DEF UpTo
    <3> QED BY <3>1, FS_EmptySet
  <2>2. {} \in UpTo(0)
    BY FS_EmptySet DEF UpTo
  <2> QED BY <2>1, <2>2
<1>2. UpTo(Cardinality(Keys)) = SUBSET Keys
  BY KeysFinite DEF UpTo
<1>3. ASSUME NEW n \in Nat, NEW S \in UpTo(n + 1), NEW x \in S PROVE S \ {x} \in UpTo(n)
  <2>1. S \in SUBSET Keys /\ IsFiniteSet(S) /\ Cardinality(S) \in Nat /\ Cardinality(S) <= n + 1
    BY KeysFinite DEF UpTo
  <2>2. Cardinality(S \ {x}) = Cardinality(S) - 1
    BY <2>1, FS_RemoveElement
  <2>3. Cardinality(S \ {x}) <= n
    BY <2>1, <2>2
  <2> QED BY <2>1, <2>3 DEF UpTo
<1> QED BY <1>1, <1>2, <1>3

LEMMA AnyOfIn == ASSUME NEW S, S # {} PROVE AnyOf(S) \in S
BY DEF AnyOf

LEMMA BytesDef ==
  Bytes = [S \in SUBSET Keys |->
             IF S = {} THEN 0 ELSE Bundle(AnyOf(S)[1]) + Bytes[S \ {AnyOf(S)}]]
<1> DEFINE F(g, X) == [S \in X |->
                         IF S = {} THEN 0 ELSE Bundle(AnyOf(S)[1]) + g[S \ {AnyOf(S)}]]
           T == {n \in Nat : \E g : g = F(g, UpTo(n))}
<1>1. 0 \in T
  <2>1. PICK h : h = [S \in UpTo(0) |-> 0]
    OBVIOUS
  <2>2. h = F(h, UpTo(0))
    BY <2>1, UpToFacts
  <2> QED BY <2>2
<1>2. ASSUME NEW n \in T PROVE n + 1 \in T
  <2>1. PICK g : g = F(g, UpTo(n))
    OBVIOUS
  <2>2. PICK h : h = F(g, UpTo(n + 1))
    OBVIOUS
  <2>3. ASSUME NEW S \in UpTo(n + 1), S # {} PROVE h[S \ {AnyOf(S)}] = g[S \ {AnyOf(S)}]
    <3>1. PICK R : R = S \ {AnyOf(S)}
      OBVIOUS
    <3>2. R \in UpTo(n)
      BY <2>3, <3>1, AnyOfIn, UpToFacts
    <3>3. R \in UpTo(n + 1)
      BY <3>2, KeysFinite DEF UpTo
    <3>4. g[R] = IF R = {} THEN 0 ELSE Bundle(AnyOf(R)[1]) + g[R \ {AnyOf(R)}]
      BY <2>1, <3>2
    <3>5. h[R] = IF R = {} THEN 0 ELSE Bundle(AnyOf(R)[1]) + g[R \ {AnyOf(R)}]
      BY <2>2, <3>3
    <3> QED BY <3>1, <3>4, <3>5
  <2>4. h = F(h, UpTo(n + 1))
    BY <2>2, <2>3
  <2>5. n \in Nat /\ n + 1 \in Nat
    OBVIOUS
  <2> HIDE DEF F
  <2> QED BY <2>4, <2>5
<1>3. Cardinality(Keys) \in T
  <2>1. T \in SUBSET Nat
    OBVIOUS
  <2> HIDE DEF T
  <2> QED BY <1>1, <1>2, <2>1, KeysFinite, Counting
<1>4. \E g : g = F(g, SUBSET Keys)
  BY <1>3, UpToFacts
<1>5. Bytes = CHOOSE g : g = F(g, SUBSET Keys)
  BY DEF Bytes
<1> HIDE DEF F
<1>6. Bytes = F(Bytes, SUBSET Keys)
  BY <1>4, <1>5
<1> QED BY <1>6 DEF F

LEMMA BytesType == \A S \in SUBSET Keys : Bytes[S] \in Nat
<1> DEFINE T == {n \in Nat : \A S \in UpTo(n) : Bytes[S] \in Nat}
<1>1. 0 \in T
  <2>1. Bytes[{}] = 0
    BY BytesDef
  <2>2. ASSUME NEW S \in UpTo(0) PROVE Bytes[S] \in Nat
    <3>1. S = {}
      BY UpToFacts
    <3> QED BY <2>1, <3>1
  <2> QED BY <2>2
<1>2. ASSUME NEW n \in T PROVE n + 1 \in T
  <2>1. ASSUME NEW S \in UpTo(n + 1) PROVE Bytes[S] \in Nat
    <3>1. CASE S = {}
      BY <3>1, BytesDef
    <3>2. CASE S # {}
      <4>1. AnyOf(S) \in S /\ S \in SUBSET Keys
        BY <3>2, AnyOfIn DEF UpTo
      <4>2. Bytes[S] = Bundle(AnyOf(S)[1]) + Bytes[S \ {AnyOf(S)}]
        BY <3>2, <4>1, BytesDef
      <4>3. Bytes[S \ {AnyOf(S)}] \in Nat
        BY <4>1, UpToFacts
      <4>4. Bundle(AnyOf(S)[1]) \in Nat
        BY <4>1, KeyFacts
      <4> QED BY <4>2, <4>3, <4>4
    <3> QED BY <3>1, <3>2
  <2> QED BY <2>1
<1>3. Cardinality(Keys) \in T
  <2>1. T \in SUBSET Nat
    OBVIOUS
  <2> HIDE DEF T
  <2> QED BY <1>1, <1>2, <2>1, KeysFinite, Counting
<1> QED BY <1>3, UpToFacts

(* The sum does not depend on the order the experts are taken in. *)
LEMMA BytesWithout ==
  ASSUME NEW S \in SUBSET Keys, NEW x \in S
  PROVE  Bytes[S] = Bundle(x[1]) + Bytes[S \ {x}]
<1> DEFINE T == {n \in Nat : \A A \in UpTo(n) : \A y \in A :
                               Bytes[A] = Bundle(y[1]) + Bytes[A \ {y}]}
<1>1. 0 \in T
  BY UpToFacts
<1>2. ASSUME NEW n \in T PROVE n + 1 \in T
  <2>1. ASSUME NEW A \in UpTo(n + 1), NEW y \in A
        PROVE  Bytes[A] = Bundle(y[1]) + Bytes[A \ {y}]
    <3>1. PICK z : z = AnyOf(A)
      OBVIOUS
    <3>2. z \in A /\ A \in SUBSET Keys /\ y \in Keys /\ z \in Keys
      BY <3>1, AnyOfIn DEF UpTo
    <3>3. Bytes[A] = Bundle(z[1]) + Bytes[A \ {z}]
      BY <3>1, <3>2, BytesDef
    <3>4. CASE y = z
      BY <3>3, <3>4
    <3>5. CASE y # z
      <4>1. PICK C : C = (A \ {z}) \ {y}
        OBVIOUS
      <4>2. C = (A \ {y}) \ {z} /\ y \in A \ {z} /\ z \in A \ {y}
        BY <3>2, <3>5, <4>1
      <4>3. A \ {z} \in UpTo(n) /\ A \ {y} \in UpTo(n)
        BY <3>2, UpToFacts
      <4>4. Bytes[A \ {z}] = Bundle(y[1]) + Bytes[C]
        BY <4>1, <4>2, <4>3
      <4>5. Bytes[A \ {y}] = Bundle(z[1]) + Bytes[C]
        BY <4>2, <4>3
      <4>6. /\ Bytes[C] \in Nat /\ Bundle(y[1]) \in Nat /\ Bundle(z[1]) \in Nat
        BY <3>2, <4>1, BytesType, KeyFacts
      <4> QED BY <3>3, <4>4, <4>5, <4>6
    <3> QED BY <3>4, <3>5
  <2> QED BY <2>1
<1>3. Cardinality(Keys) \in T
  <2>1. T \in SUBSET Nat
    OBVIOUS
  <2> HIDE DEF T
  <2> QED BY <1>1, <1>2, <2>1, KeysFinite, Counting
<1> QED BY <1>3, UpToFacts

LEMMA BytesWith ==
  ASSUME NEW S \in SUBSET Keys, NEW k \in Keys, k \notin S
  PROVE  Bytes[S \cup {k}] = Bundle(k[1]) + Bytes[S]
<1>1. S \cup {k} \in SUBSET Keys /\ k \in S \cup {k} /\ (S \cup {k}) \ {k} = S
  OBVIOUS
<1> QED BY <1>1, BytesWithout

-----------------------------------------------------------------------------
(* The order of the fallback. *)

LEMMA KeyRankType ==
  ASSUME NEW k \in Keys
  PROVE  /\ IsFiniteSet({x \in Keys : Before(x, k)})
         /\ Cardinality({x \in Keys : Before(x, k)}) \in Nat
         /\ Rank(k) \in 1..Cardinality(Keys)
<1> DEFINE B == {x \in Keys : Before(x, k)}
<1>1. ~Before(k, k)
  BY KeyFacts DEF Before
<1>2. B \in SUBSET (Keys \ {k})
  BY <1>1
<1> HIDE DEF B
<1>3. IsFiniteSet(Keys \ {k}) /\ Cardinality(Keys \ {k}) = Cardinality(Keys) - 1
  BY KeysFinite, FS_RemoveElement
<1>4. IsFiniteSet(B) /\ Cardinality(B) <= Cardinality(Keys \ {k}) /\ Cardinality(B) \in Nat
  BY <1>2, <1>3, FS_Subset, FS_CardinalityType
<1>5. Cardinality(B) + 1 \in 1..Cardinality(Keys)
  BY <1>3, <1>4, KeysFinite
<1> QED BY <1>4, <1>5 DEF B, Rank

LEMMA KeyRankGrows ==
  ASSUME NEW j \in Keys, NEW k \in Keys, Before(j, k)
  PROVE  Rank(j) < Rank(k)
<1> DEFINE A == {x \in Keys : Before(x, j)}
           B == {x \in Keys : Before(x, k)}
<1>1. /\ IsFiniteSet(A) /\ IsFiniteSet(B) /\ Cardinality(A) \in Nat /\ Cardinality(B) \in Nat
  BY KeyRankType
<1>2. \A x \in Keys : x[1] \in Nat /\ x[2] \in Nat
  BY KeyFacts
<1>3. j \notin A
  BY <1>2 DEF Before
<1>4. A \cup {j} \in SUBSET B
  <2>1. \A x \in Keys : Before(x, j) => Before(x, k)
    BY <1>2 DEF Before
  <2> QED BY <2>1
<1>5. Rank(j) = Cardinality(A) + 1 /\ Rank(k) = Cardinality(B) + 1
  BY DEF Rank
<1> HIDE DEF A, B
<1>6. Cardinality(A \cup {j}) = Cardinality(A) + 1
  BY <1>1, <1>3, FS_AddElement
<1>7. Cardinality(A \cup {j}) <= Cardinality(B)
  BY <1>1, <1>4, FS_Subset
<1> QED BY <1>1, <1>5, <1>6, <1>7

LEMMA KeyRankFacts ==
  /\ \A k \in Keys : KeyAt(Rank(k)) = k
  /\ \A i \in 1..Cardinality(Keys) : KeyAt(i) \in Keys
<1> DEFINE n == Cardinality(Keys)
           f == [k \in Keys |-> Rank(k)]
<1>1. f \in [Keys -> 1..n] /\ n \in Nat
  BY KeyRankType, KeysFinite
<1>2. ASSUME NEW j \in Keys, NEW k \in Keys, Rank(j) = Rank(k) PROVE j = k
  <2>1. Rank(j) \in Nat /\ Rank(k) \in Nat
    <3>1. Rank(j) \in 1..n /\ Rank(k) \in 1..n
      BY KeyRankType
    <3> HIDE DEF n
    <3> QED BY <1>1, <3>1
  <2>2. ~Before(j, k) /\ ~Before(k, j)
    BY <1>2, <2>1, KeyRankGrows
  <2>3. /\ j[1] \in Nat /\ j[2] \in Nat /\ j = << j[1], j[2] >>
        /\ k[1] \in Nat /\ k[2] \in Nat /\ k = << k[1], k[2] >>
    BY KeyFacts
  <2>4. j[1] = k[1] /\ j[2] = k[2]
    BY <2>2, <2>3 DEF Before
  <2> QED BY <2>3, <2>4
<1>3. f \in Injection(Keys, 1..n)
  <2>1. \A j, k \in Keys : f[j] = f[k] => j = k
    BY <1>2
  <2> HIDE DEF f, n
  <2> QED BY <1>1, <2>1 DEF Injection, IsInjective
<1>4. IsFiniteSet(1..n) /\ Cardinality(1..n) = n
  BY <1>1, FS_Interval
<1>5. f \in Surjection(Keys, 1..n)
  <2>1. Cardinality(Keys) = Cardinality(1..n)
    BY <1>4
  <2> HIDE DEF f, n
  <2> QED BY <1>3, <1>4, <2>1, FS_Injection
<1>6. \A i \in 1..n : \E k \in Keys : Rank(k) = i
  <2>1. \A i \in 1..n : \E k \in Keys : f[k] = i
    <3> HIDE DEF f, n
    <3> QED BY <1>5 DEF Surjection
  <2> QED BY <2>1
<1>7. \A i \in 1..n : KeyAt(i) \in Keys
  <2> HIDE DEF n
  <2> QED BY <1>6 DEF KeyAt
<1>8. ASSUME NEW k \in Keys PROVE KeyAt(Rank(k)) = k
  <2>1. KeyAt(Rank(k)) \in Keys /\ Rank(KeyAt(Rank(k))) = Rank(k)
    BY DEF KeyAt
  <2> QED BY <1>2, <2>1
<1> QED BY <1>7, <1>8

-----------------------------------------------------------------------------
(* The fallback placement. *)

LEMMA FilledDef ==
  Filled = [i \in 0..Cardinality(Keys) |->
              IF i = 0 THEN {} ELSE WithKey(Filled[i - 1], KeyAt(i))]
<1> DEFINE F(g, m) == [i \in 0..m |-> IF i = 0 THEN {} ELSE WithKey(g[i - 1], KeyAt(i))]
           T == {m \in Nat : \E g : g = F(g, m)}
<1>1. 0 \in T
  <2>1. PICK h : h = [i \in 0..0 |-> {}]
    OBVIOUS
  <2>2. h = F(h, 0)
    BY <2>1
  <2> HIDE DEF F
  <2> QED BY <2>2
<1>2. ASSUME NEW m \in T PROVE m + 1 \in T
  <2>1. PICK g : g = F(g, m)
    OBVIOUS
  <2>2. PICK h : h = F(g, m + 1)
    OBVIOUS
  <2>3. m \in Nat /\ m + 1 \in Nat
    OBVIOUS
  <2>4. ASSUME NEW i \in 0..(m + 1), i # 0 PROVE h[i - 1] = g[i - 1]
    <3>1. i - 1 \in 0..m /\ i - 1 \in 0..(m + 1)
      BY <2>3, <2>4
    <3>2. PICK j : j = i - 1
      OBVIOUS
    <3>3. g[j] = IF j = 0 THEN {} ELSE WithKey(g[j - 1], KeyAt(j))
      BY <2>1, <3>1, <3>2
    <3>4. h[j] = IF j = 0 THEN {} ELSE WithKey(g[j - 1], KeyAt(j))
      BY <2>2, <3>1, <3>2
    <3> QED BY <3>2, <3>3, <3>4
  <2>5. h = F(h, m + 1)
    BY <2>2, <2>4
  <2> HIDE DEF F
  <2> QED BY <2>3, <2>5
<1>3. Cardinality(Keys) \in T
  <2>1. T \in SUBSET Nat
    OBVIOUS
  <2> HIDE DEF T
  <2> QED BY <1>1, <1>2, <2>1, KeysFinite, Counting
<1>4. \E g : g = F(g, Cardinality(Keys))
  BY <1>3
<1>5. Filled = CHOOSE g : g = F(g, Cardinality(Keys))
  BY DEF Filled
<1> HIDE DEF F
<1>6. Filled = F(Filled, Cardinality(Keys))
  BY <1>4, <1>5
<1> QED BY <1>6 DEF F

LEMMA LeftType ==
  ASSUME conf \in Configs, NEW S \in SUBSET Keys
  PROVE  /\ Left(S) \in Int /\ Left(S) = conf.budget - Dense - Bytes[S]
         /\ conf.budget \in Nat /\ Dense \in Nat /\ Bytes[S] \in Nat
<1>1. conf.budget \in Nat /\ Dense \in Nat /\ Bytes[S] \in Nat
  BY BytesType, FetchAssumption DEF ConfigType
<1> QED BY <1>1 DEF Left

LEMMA WithKeyFacts ==
  ASSUME conf \in Configs, NEW S \in SUBSET Keys, Left(S) >= 0, NEW k \in Keys
  PROVE  /\ WithKey(S, k) \in SUBSET Keys /\ S \subseteq WithKey(S, k)
         /\ Left(WithKey(S, k)) >= 0 /\ Left(WithKey(S, k)) <= Left(S)
         /\ k \in WithKey(S, k) \/ Bundle(k[1]) > Left(S)
<1>1. /\ Left(S) \in Int /\ Bundle(k[1]) \in Nat
      /\ Left(S) = conf.budget - Dense - Bytes[S]
      /\ conf.budget \in Nat /\ Dense \in Nat /\ Bytes[S] \in Nat
  BY LeftType, KeyFacts
<1>2. CASE Bundle(k[1]) <= Left(S) /\ k \notin S
  <2>1. WithKey(S, k) = S \cup {k}
    BY <1>2 DEF WithKey
  <2>2. Left(S \cup {k}) = Left(S) - Bundle(k[1])
    <3>1. Bytes[S \cup {k}] = Bundle(k[1]) + Bytes[S]
      BY <1>2, BytesWith
    <3>2. Left(S \cup {k}) = conf.budget - Dense - Bytes[S \cup {k}]
      BY DEF Left
    <3> QED BY <1>1, <3>1, <3>2
  <2> QED BY <1>1, <1>2, <2>1, <2>2
<1>3. CASE k \in S
  <2>1. WithKey(S, k) = S
    BY <1>3 DEF WithKey
  <2> QED BY <1>1, <1>3, <2>1
<1>4. CASE Bundle(k[1]) > Left(S)
  <2>1. WithKey(S, k) = S
    BY <1>1, <1>4 DEF WithKey
  <2> QED BY <1>1, <1>4, <2>1
<1> QED BY <1>1, <1>2, <1>3, <1>4

LEMMA FilledStep ==
  ASSUME conf \in Configs, Dense <= conf.budget, NEW i \in 0..Cardinality(Keys)
  PROVE  /\ Filled[i] \in SUBSET Keys /\ Left(Filled[i]) >= 0
<1> DEFINE n == Cardinality(Keys)
           T == {j \in Nat : j <= n => Filled[j] \in SUBSET Keys /\ Left(Filled[j]) >= 0}
<1>1. n \in Nat
  BY KeysFinite
<1>2. 0 \in T
  <2>1. Filled[0] = {}
    BY <1>1, FilledDef
  <2>2. Left({}) >= 0
    <3>1. Bytes[{}] = 0
      BY BytesDef
    <3>2. Left({}) = conf.budget - Dense - Bytes[{}] /\ conf.budget \in Nat /\ Dense \in Nat
      BY LeftType
    <3> QED BY <3>1, <3>2
  <2> QED BY <2>1, <2>2
<1>3. ASSUME NEW j \in T PROVE j + 1 \in T
  <2>1. j \in Nat /\ j + 1 \in Nat /\ (j + 1) - 1 = j /\ j + 1 # 0
    OBVIOUS
  <2>2. ASSUME j + 1 <= n PROVE Filled[j + 1] \in SUBSET Keys /\ Left(Filled[j + 1]) >= 0
    <3>1. j <= n /\ j + 1 \in 0..n /\ j + 1 \in 1..n
      BY <1>1, <2>1, <2>2
    <3>2. Filled[j] \in SUBSET Keys /\ Left(Filled[j]) >= 0
      BY <3>1
    <3> HIDE DEF n, T
    <3>3. Filled[j + 1] = WithKey(Filled[j], KeyAt(j + 1))
      BY <2>1, <3>1, FilledDef DEF n
    <3>4. KeyAt(j + 1) \in Keys
      BY <3>1, KeyRankFacts DEF n
    <3> QED BY <3>2, <3>3, <3>4, WithKeyFacts
  <2> QED BY <2>1, <2>2
<1>4. \A j \in Nat : j \in T
  <2>1. T \in SUBSET Nat
    OBVIOUS
  <2> HIDE DEF T
  <2> QED BY <1>2, <1>3, <2>1, Counting
<1> QED BY <1>1, <1>4

LEMMA FilledGrows ==
  ASSUME conf \in Configs, Dense <= conf.budget, NEW i \in 0..Cardinality(Keys)
  PROVE  Filled[i] \subseteq Balanced /\ Left(Balanced) <= Left(Filled[i])
<1> DEFINE n == Cardinality(Keys)
           T == {d \in Nat : i + d <= n => /\ Filled[i] \subseteq Filled[i + d]
                                           /\ Left(Filled[i + d]) <= Left(Filled[i])}
<1>1. n \in Nat /\ i \in Nat /\ i <= n
  BY KeysFinite
<1>2. \A j \in 0..n : Filled[j] \in SUBSET Keys /\ Left(Filled[j]) >= 0 /\ Left(Filled[j]) \in Int
  BY FilledStep, LeftType
<1>3. 0 \in T
  <2>1. i + 0 = i /\ Left(Filled[i]) \in Int
    BY <1>1, <1>2
  <2> QED BY <2>1
<1>4. ASSUME NEW d \in T PROVE d + 1 \in T
  <2>1. d \in Nat /\ d + 1 \in Nat
    OBVIOUS
  <2>2. ASSUME i + (d + 1) <= n
        PROVE  /\ Filled[i] \subseteq Filled[i + (d + 1)]
               /\ Left(Filled[i + (d + 1)]) <= Left(Filled[i])
    <3>1. PICK j : j = i + d
      OBVIOUS
    <3>2. /\ j \in 0..n /\ j + 1 = i + (d + 1) /\ j + 1 \in 0..n /\ j + 1 \in 1..n
          /\ (j + 1) - 1 = j /\ j + 1 # 0 /\ i + d <= n
      BY <1>1, <2>1, <2>2, <3>1
    <3>3. Filled[i] \subseteq Filled[j] /\ Left(Filled[j]) <= Left(Filled[i])
      BY <3>1, <3>2
    <3> HIDE DEF n, T
    <3>4. Filled[j + 1] = WithKey(Filled[j], KeyAt(j + 1))
      BY <3>2, FilledDef DEF n
    <3>5. KeyAt(j + 1) \in Keys
      BY <3>2, KeyRankFacts DEF n
    <3>6. Filled[j] \subseteq Filled[j + 1] /\ Left(Filled[j + 1]) <= Left(Filled[j])
      BY <1>2, <3>2, <3>4, <3>5, WithKeyFacts
    <3>7. /\ Left(Filled[j]) \in Int /\ Left(Filled[j + 1]) \in Int /\ Left(Filled[i]) \in Int
      BY <1>1, <1>2, <3>2
    <3>8. Left(Filled[j + 1]) <= Left(Filled[i])
      BY <3>3, <3>6, <3>7
    <3> QED BY <3>2, <3>3, <3>6, <3>8
  <2> QED BY <2>1, <2>2
<1>5. n - i \in T
  <2>1. T \in SUBSET Nat /\ n - i \in Nat
    BY <1>1
  <2> HIDE DEF T
  <2> QED BY <1>3, <1>4, <2>1, Counting
<1>6. i + (n - i) = n /\ i + (n - i) <= n
  BY <1>1
<1>7. Filled[i] \subseteq Filled[n] /\ Left(Filled[n]) <= Left(Filled[i])
  BY <1>5, <1>6
<1> QED BY <1>7 DEF Balanced

(* The fallback fits the budget, and none that it left out would still fit. *)
LEMMA BalancedFacts ==
  ASSUME conf \in Configs, Dense <= conf.budget
  PROVE  /\ Balanced \in SUBSET Keys /\ Left(Balanced) >= 0
         /\ \A k \in Keys \ Balanced : Bundle(k[1]) > Left(Balanced)
<1> DEFINE n == Cardinality(Keys)
<1>1. n \in Nat /\ n \in 0..n
  BY KeysFinite
<1>2. Balanced \in SUBSET Keys /\ Left(Balanced) >= 0 /\ Left(Balanced) \in Int
  <2>1. Filled[n] \in SUBSET Keys /\ Left(Filled[n]) >= 0
    BY <1>1, FilledStep
  <2> QED BY <2>1, LeftType DEF Balanced
<1>3. ASSUME NEW k \in Keys \ Balanced PROVE Bundle(k[1]) > Left(Balanced)
  <2>1. PICK i : i = Rank(k)
    OBVIOUS
  <2>2. i \in 1..n /\ KeyAt(i) = k
    BY <2>1, KeyRankType, KeyRankFacts
  <2>3. i \in 0..n /\ i - 1 \in 0..n /\ i # 0
    BY <1>1, <2>2
  <2> HIDE DEF n
  <2>4. Filled[i] = WithKey(Filled[i - 1], k)
    BY <2>2, <2>3, FilledDef DEF n
  <2>5. k \notin Filled[i]
    BY <2>3, FilledGrows DEF n
  <2>6. Filled[i - 1] \in SUBSET Keys /\ Left(Filled[i - 1]) >= 0
    BY <2>3, FilledStep DEF n
  <2>7. Bundle(k[1]) > Left(Filled[i - 1])
    BY <2>4, <2>5, <2>6, WithKeyFacts
  <2>8. Left(Balanced) <= Left(Filled[i - 1])
    BY <2>3, FilledGrows DEF n
  <2>9. Left(Filled[i - 1]) \in Int /\ Bundle(k[1]) \in Nat
    BY <2>6, LeftType, KeyFacts
  <2> QED BY <1>2, <2>7, <2>8, <2>9
<1> QED BY <1>2, <1>3

LEMMA LoadFits ==
  ASSUME conf \in Configs, Load
  PROVE  BudgetUsedUp'
<1> SUFFICES ASSUME pc' # "refused", conf.budget # 0
             PROVE  /\ Dense + Bytes[hot'] <= conf.budget
                    /\ ~conf.given =>
                         \A k \in Keys \ hot' : Dense + Bytes[hot' \cup {k}] > conf.budget
  <2>1. conf' = conf
    BY DEF Load
  <2> QED BY <2>1 DEF BudgetUsedUp
<1>1. ~BudgetRefused /\ hot' = Placement
  BY DEF Load
<1>2. conf.budget \in Nat /\ Dense \in Nat /\ conf.given \in BOOLEAN
  BY FetchAssumption DEF ConfigType
<1>3. Dense <= conf.budget
  BY <1>1, <1>2 DEF BudgetRefused
<1>4. CASE conf.given
  <2>1. hot' = conf.list /\ conf.list \in SUBSET Keys /\ ~(Left(conf.list) < 0)
    BY <1>1, <1>4 DEF Placement, BudgetRefused
  <2>2. /\ Left(conf.list) = conf.budget - Dense - Bytes[conf.list]
        /\ Bytes[conf.list] \in Nat
    BY <2>1, LeftType
  <2>3. Dense + Bytes[conf.list] <= conf.budget
    BY <1>2, <2>1, <2>2
  <2> QED BY <1>4, <2>1, <2>3
<1>5. CASE ~conf.given
  <2>1. hot' = Balanced
    BY <1>1, <1>5 DEF Placement
  <2>2. /\ Balanced \in SUBSET Keys /\ Left(Balanced) >= 0
        /\ \A k \in Keys \ Balanced : Bundle(k[1]) > Left(Balanced)
    BY <1>3, BalancedFacts
  <2>3. Left(Balanced) = conf.budget - Dense - Bytes[Balanced] /\ Bytes[Balanced] \in Nat
    BY <2>2, LeftType
  <2>4. Dense + Bytes[Balanced] <= conf.budget
    BY <1>2, <2>2, <2>3
  <2>5. ASSUME NEW k \in Keys \ Balanced PROVE Dense + Bytes[Balanced \cup {k}] > conf.budget
    <3>1. Bytes[Balanced \cup {k}] = Bundle(k[1]) + Bytes[Balanced]
      BY <2>2, BytesWith
    <3>2. Bundle(k[1]) \in Nat /\ Bundle(k[1]) > Left(Balanced)
      BY <2>2, KeyFacts
    <3> QED BY <1>2, <2>3, <3>1, <3>2
  <2> QED BY <2>1, <2>4, <2>5
<1> QED BY <1>2, <1>4, <1>5

(* A model that is loaded keeps to its budget with whatever list it was    *)
(* given, and the fallback of configure_ssd_budget() leaves no expert out  *)
(* that would still fit, for any sizes of the experts.                     *)
THEOREM BudgetKept == Spec => []BudgetUsedUp
<1>1. Init => BudgetUsedUp
  BY DEF Init, BudgetUsedUp
<1>2. FetchTypeOK /\ BudgetUsedUp /\ [Next]_vars => BudgetUsedUp'
  <2> SUFFICES ASSUME FetchTypeOK, BudgetUsedUp, [Next]_vars PROVE BudgetUsedUp'
    OBVIOUS
  <2>1. CASE Load
    BY <2>1, LoadFits DEF FetchTypeOK
  <2>2. CASE ~Load
    <3>1. /\ UNCHANGED << conf, hot >>
          /\ pc' \notin {"load", "refused"} => pc \notin {"load", "refused"}
      BY <2>2 DEF Next, Host, Begin, Skip, InMemory, Hot, Fetch, Sync, Return, Execute, SetPhase,
         ProfileReset, Ended, vars, Active
    <3> QED BY <3>1 DEF BudgetUsedUp
  <2> QED BY <2>1, <2>2
<1> QED BY <1>1, <1>2, CoreInvariance, PTL DEF Spec
=============================================================================
