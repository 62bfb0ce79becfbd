----------------------- MODULE UtilityCascade_proofs ------------------------
(***************************************************************************)
(* The draft-length controller for every --draft, every number of test and *)
(* set iterations and every verification time: a set phase uses the best   *)
(* measured length and lasts as long as the back-off says.                 *)
(***************************************************************************)
EXTENDS UtilityCascade, TLAPS

LEMMA Lengths ==
  /\ Cap \in Nat /\ 0 \in Candidates /\ Cap \in Candidates
  /\ Cap = 0 => Len(ks) = 1 /\ ks[1] = 0
  /\ Cap # 0 => Len(ks) = 2 /\ ks[1] = 0 /\ ks[2] = Cap
  /\ \A i \in 1..Len(ks) : ks[i] \in Candidates
BY CascadeAssumption DEF Candidates, ks

(* A utility is a natural number: it never falls below NoUtility.            *)
LEMMA UtilityNat ==
  ASSUME NEW tokens \in Nat, NEW time \in Times
  PROVE  Utility(tokens, time) \in Nat
<1>1. Scale \in Nat /\ time \in Nat /\ time > 0
  BY CascadeAssumption
<1>2. Scale \div time \in Nat
  BY <1>1
<1>3. \A a, b \in Nat : a * b \in Nat
  OBVIOUS
<1> QED BY <1>2, <1>3 DEF Utility

(* The multiplier after a test phase is the power of two the history counts. *)
LEMMA Doubling ==
  ASSUME NEW z \in 0..3, NEW best \in Candidates
  PROVE  /\ 2^z \in Multipliers
         /\ SetMulAfter(2^z, best) \in Multipliers
         /\ SetMulAfter(2^z, best) =
              2^(IF best = 0 THEN (IF z < 3 THEN z + 1 ELSE 3) ELSE 0)
<1>1. 2^0 = 1 /\ 2^1 = 2 /\ 2^2 = 4 /\ 2^3 = 8
  OBVIOUS
<1>2. z = 0 \/ z = 1 \/ z = 2 \/ z = 3
  OBVIOUS
<1>3. CASE z = 0
  BY <1>1, <1>3 DEF SetMulAfter, Multipliers
<1>4. CASE z = 1
  BY <1>1, <1>4 DEF SetMulAfter, Multipliers
<1>5. CASE z = 2
  BY <1>1, <1>5 DEF SetMulAfter, Multipliers
<1>6. CASE z = 3
  BY <1>1, <1>6 DEF SetMulAfter, Multipliers
<1> QED BY <1>2, <1>3, <1>4, <1>5, <1>6

LEMMA FirstValues == 0 \in 0..TestIters /\ 1 \in 1..Len(ks) /\ NoUtility \in {NoUtility}
BY CascadeAssumption, Lengths

(* A pending sample is taken.                                                *)
LEMMA SampleTaken ==
  ASSUME NEW c \in CascadeType,
         NEW u \in Times \cup {0},
         NEW d, d = [c EXCEPT !.pending = u]
  PROVE  /\ d \in CascadeType
         /\ d.testing = c.testing /\ d.testIdx = c.testIdx /\ d.testSum = c.testSum
         /\ d.testN = c.testN /\ d.bestAvg = c.bestAvg /\ d.bestK = c.bestK
         /\ d.setLeft = c.setLeft /\ d.setMul = c.setMul /\ d.pending = u
<1> DEFINE c1 == [c EXCEPT !.pending = u]
<1>1. c1 \in CascadeType
  BY FirstValues, Lengths DEF CascadeType
<1>2. d \in CascadeType
  <2> QED BY <1>1
<1> QED BY <1>2 DEF CascadeType

(* A sample is added.                                                        *)
WithSample(c, u, w) ==
  [c EXCEPT !.testSum = u, !.testN = w]

LEMMA SampleAdded ==
  ASSUME NEW c \in CascadeType,
         NEW u \in Nat,
         NEW w \in 0..TestIters
  PROVE  /\ WithSample(c, u, w) \in CascadeType
         /\ WithSample(c, u, w).testing = c.testing
         /\ WithSample(c, u, w).testIdx = c.testIdx
         /\ WithSample(c, u, w).testSum = u
         /\ WithSample(c, u, w).testN = w
         /\ WithSample(c, u, w).bestAvg = c.bestAvg
         /\ WithSample(c, u, w).bestK = c.bestK
         /\ WithSample(c, u, w).setLeft = c.setLeft
         /\ WithSample(c, u, w).setMul = c.setMul
         /\ WithSample(c, u, w).pending = c.pending
<1> DEFINE c1 == [c EXCEPT !.testSum = u]
           c2 == [c1 EXCEPT !.testN = w]
<1>1. c1 \in CascadeType
  BY FirstValues, Lengths DEF CascadeType
<1>2. c2 \in CascadeType
  <2> HIDE DEF c1
  <2> QED BY <1>1, FirstValues, Lengths DEF CascadeType, c2
<1>3. WithSample(c, u, w) \in CascadeType
  BY <1>2 DEF WithSample
<1> QED BY <1>3 DEF CascadeType, WithSample

(* A sample of a set phase.                                                  *)
LEMMA SampleSpent ==
  ASSUME NEW c \in CascadeType,
         NEW u \in Int,
         NEW d, d = [c EXCEPT !.setLeft = u]
  PROVE  /\ d \in CascadeType
         /\ d.testing = c.testing /\ d.testIdx = c.testIdx /\ d.testSum = c.testSum
         /\ d.testN = c.testN /\ d.bestAvg = c.bestAvg /\ d.bestK = c.bestK
         /\ d.setLeft = u /\ d.setMul = c.setMul /\ d.pending = c.pending
<1> DEFINE c1 == [c EXCEPT !.setLeft = u]
<1>1. c1 \in CascadeType
  BY FirstValues, Lengths DEF CascadeType
<1>2. d \in CascadeType
  <2> QED BY <1>1
<1> QED BY <1>2 DEF CascadeType

(* The next candidate.                                                       *)
WithNext(c, u, w, x) ==
  [c EXCEPT !.bestAvg = u, !.bestK = w, !.testSum = 0, !.testN = 0, !.testIdx = x]

LEMMA NextCandidate ==
  ASSUME NEW c \in CascadeType,
         NEW u \in Nat \cup {NoUtility},
         NEW w \in Candidates,
         NEW x \in 1..Len(ks)
  PROVE  /\ WithNext(c, u, w, x) \in CascadeType
         /\ WithNext(c, u, w, x).testing = c.testing
         /\ WithNext(c, u, w, x).testIdx = x
         /\ WithNext(c, u, w, x).testSum = 0
         /\ WithNext(c, u, w, x).testN = 0
         /\ WithNext(c, u, w, x).bestAvg = u
         /\ WithNext(c, u, w, x).bestK = w
         /\ WithNext(c, u, w, x).setLeft = c.setLeft
         /\ WithNext(c, u, w, x).setMul = c.setMul
         /\ WithNext(c, u, w, x).pending = c.pending
<1> DEFINE c1 == [c EXCEPT !.bestAvg = u]
           c2 == [c1 EXCEPT !.bestK = w]
           c3 == [c2 EXCEPT !.testSum = 0]
           c4 == [c3 EXCEPT !.testN = 0]
           c5 == [c4 EXCEPT !.testIdx = x]
<1>1. c1 \in CascadeType
  BY FirstValues, Lengths DEF CascadeType
<1>2. c2 \in CascadeType
  <2> HIDE DEF c1
  <2> QED BY <1>1, FirstValues, Lengths DEF CascadeType, c2
<1>3. c3 \in CascadeType
  <2> HIDE DEF c2
  <2> QED BY <1>2, FirstValues, Lengths DEF CascadeType, c3
<1>4. c4 \in CascadeType
  <2> HIDE DEF c3
  <2> QED BY <1>3, FirstValues, Lengths DEF CascadeType, c4
<1>5. c5 \in CascadeType
  <2> HIDE DEF c4
  <2> QED BY <1>4, FirstValues, Lengths DEF CascadeType, c5
<1>6. WithNext(c, u, w, x) \in CascadeType
  BY <1>5 DEF WithNext
<1> QED BY <1>6 DEF CascadeType, WithNext

(* The end of a test phase.                                                  *)
WithSetPhase(c, u, w, x, y) ==
  [c EXCEPT !.bestAvg = u, !.bestK = w, !.testSum = 0, !.testN = 0, !.testing = FALSE,
            !.setMul = x, !.setLeft = y, !.testIdx = 1]

LEMMA SetPhaseBegun ==
  ASSUME NEW c \in CascadeType,
         NEW u \in Nat \cup {NoUtility},
         NEW w \in Candidates,
         NEW x \in Multipliers,
         NEW y \in Int
  PROVE  /\ WithSetPhase(c, u, w, x, y) \in CascadeType
         /\ ~WithSetPhase(c, u, w, x, y).testing
         /\ WithSetPhase(c, u, w, x, y).testIdx = 1
         /\ WithSetPhase(c, u, w, x, y).testSum = 0
         /\ WithSetPhase(c, u, w, x, y).testN = 0
         /\ WithSetPhase(c, u, w, x, y).bestAvg = u
         /\ WithSetPhase(c, u, w, x, y).bestK = w
         /\ WithSetPhase(c, u, w, x, y).setLeft = y
         /\ WithSetPhase(c, u, w, x, y).setMul = x
         /\ WithSetPhase(c, u, w, x, y).pending = c.pending
<1> DEFINE c1 == [c EXCEPT !.bestAvg = u]
           c2 == [c1 EXCEPT !.bestK = w]
           c3 == [c2 EXCEPT !.testSum = 0]
           c4 == [c3 EXCEPT !.testN = 0]
           c5 == [c4 EXCEPT !.testing = FALSE]
           c6 == [c5 EXCEPT !.setMul = x]
           c7 == [c6 EXCEPT !.setLeft = y]
           c8 == [c7 EXCEPT !.testIdx = 1]
<1>1. c1 \in CascadeType
  BY FirstValues, Lengths DEF CascadeType
<1>2. c2 \in CascadeType
  <2> HIDE DEF c1
  <2> QED BY <1>1, FirstValues, Lengths DEF CascadeType, c2
<1>3. c3 \in CascadeType
  <2> HIDE DEF c2
  <2> QED BY <1>2, FirstValues, Lengths DEF CascadeType, c3
<1>4. c4 \in CascadeType
  <2> HIDE DEF c3
  <2> QED BY <1>3, FirstValues, Lengths DEF CascadeType, c4
<1>5. c5 \in CascadeType
  <2> HIDE DEF c4
  <2> QED BY <1>4, FirstValues, Lengths DEF CascadeType, c5
<1>6. c6 \in CascadeType
  <2> HIDE DEF c5
  <2> QED BY <1>5, FirstValues, Lengths DEF CascadeType, c6
<1>7. c7 \in CascadeType
  <2> HIDE DEF c6
  <2> QED BY <1>6, FirstValues, Lengths DEF CascadeType, c7
<1>8. c8 \in CascadeType
  <2> HIDE DEF c7
  <2> QED BY <1>7, FirstValues, Lengths DEF CascadeType, c8
<1>9. WithSetPhase(c, u, w, x, y) \in CascadeType
  BY <1>8 DEF WithSetPhase
<1> QED BY <1>9 DEF CascadeType, WithSetPhase

(* The end of a set phase.                                                   *)
LEMMA TestPhaseBegun ==
  ASSUME NEW c \in CascadeType,
         NEW d, d = TestStart(c)
  PROVE  /\ d \in CascadeType
         /\ d.testing = TRUE /\ d.testIdx = 1 /\ d.testSum = 0
         /\ d.testN = 0 /\ d.bestAvg = NoUtility /\ d.bestK = Cap
         /\ d.setLeft = c.setLeft /\ d.setMul = c.setMul /\ d.pending = c.pending
<1> DEFINE c1 == [c EXCEPT !.testing = TRUE]
           c2 == [c1 EXCEPT !.testIdx = 1]
           c3 == [c2 EXCEPT !.testSum = 0]
           c4 == [c3 EXCEPT !.testN = 0]
           c5 == [c4 EXCEPT !.bestAvg = NoUtility]
           c6 == [c5 EXCEPT !.bestK = Cap]
<1>1. c1 \in CascadeType
  BY FirstValues, Lengths DEF CascadeType
<1>2. c2 \in CascadeType
  <2> HIDE DEF c1
  <2> QED BY <1>1, FirstValues, Lengths DEF CascadeType, c2
<1>3. c3 \in CascadeType
  <2> HIDE DEF c2
  <2> QED BY <1>2, FirstValues, Lengths DEF CascadeType, c3
<1>4. c4 \in CascadeType
  <2> HIDE DEF c3
  <2> QED BY <1>3, FirstValues, Lengths DEF CascadeType, c4
<1>5. c5 \in CascadeType
  <2> HIDE DEF c4
  <2> QED BY <1>4, FirstValues, Lengths DEF CascadeType, c5
<1>6. c6 \in CascadeType
  <2> HIDE DEF c5
  <2> QED BY <1>5, FirstValues, Lengths DEF CascadeType, c6
<1>7. d \in CascadeType
  <2> QED BY <1>6 DEF TestStart
<1> QED BY <1>7 DEF CascadeType, TestStart

LEMMA CascadeInit == Init => CascadeInv
<1> SUFFICES ASSUME Init PROVE CascadeInv
  OBVIOUS
<1>1. cascade = [testing |-> TRUE, testIdx |-> 1, testSum |-> 0, testN |-> 0,
                 bestAvg |-> NoUtility, bestK |-> Cap, setLeft |-> 0, setMul |-> 1,
                 pending |-> 0]
  BY DEF Init, TestStart
<1>2. cascade \in CascadeType
  BY <1>1, Lengths, FirstValues DEF CascadeType, Multipliers
<1>3. CascadeTypeOK
  BY <1>2, Lengths DEF Init, CascadeTypeOK, NoScore
<1>4. cascade.setMul = 2^zeros /\ cascade.testN < TestIters
  BY <1>1, CascadeAssumption DEF Init
<1> QED BY <1>1, <1>3, <1>4 DEF CascadeInv, TestInv

-----------------------------------------------------------------------------
(* What a sample of a test phase does to the sums, and that the invariant is *)
(* kept: another sample of the same candidate, the next candidate, or the    *)
(* set phase.                                                                *)
LEMMA TestSampleKeeps ==
  ASSUME CascadeInv, OuterIterStart, cascade.testing, cascade.pending # 0
  PROVE  CascadeInv'
<1> DEFINE c     == [cascade EXCEPT !.pending = 0]
           util  == Utility(produced, cascade.pending)
           k     == ks[cascade.testIdx]
           sum   == cascade.testSum + util
           seen  == [score EXCEPT ![k] = IF cascade.testN = 0 THEN util ELSE @ + util]
           added == [c EXCEPT !.testSum = sum, !.testN = cascade.testN + 1]
<1>1. /\ cascade \in CascadeType /\ score \in [Candidates -> Nat] /\ zeros \in 0..3
      /\ spent \in Nat /\ cascade.setMul = 2^zeros /\ TestInv /\ cascade.testN < TestIters
      /\ produced \in Nat /\ drafted \in Candidates
  BY DEF CascadeInv, CascadeTypeOK
<1>2. /\ cascade.pending \in Times /\ cascade.testIdx \in 1..Len(ks)
      /\ cascade.testSum \in Nat /\ cascade.testN \in 0..TestIters
      /\ cascade.bestAvg \in Nat \cup {NoUtility} /\ cascade.bestK \in Candidates
      /\ cascade.setLeft \in Int /\ cascade.setMul \in Multipliers
  BY <1>1 DEF CascadeType
<1>3. util \in Nat /\ k \in Candidates
  BY <1>1, <1>2, UtilityNat, Lengths
<1>4. sum \in Nat /\ seen \in [Candidates -> Nat] /\ seen[k] = sum
  <2> HIDE DEF util, k
  <2>1. cascade.testN # 0 => cascade.testSum = score[k]
    BY <1>1 DEF TestInv, k
  <2>2. cascade.testN = 0 => cascade.testSum = 0
    BY <1>1 DEF TestInv
  <2> QED BY <1>1, <1>2, <1>3, <2>1, <2>2
<1>5. \A j \in Candidates : j # k => seen[j] = score[j]
  BY <1>1
<1>6. TestIters \in Nat /\ TestIters > 0 /\ SetIters \in Nat
  BY CascadeAssumption
<1>7. /\ c \in CascadeType /\ c.testing = TRUE /\ c.testIdx = cascade.testIdx
      /\ c.testSum = cascade.testSum /\ c.testN = cascade.testN
      /\ c.bestAvg = cascade.bestAvg /\ c.bestK = cascade.bestK
      /\ c.setMul = cascade.setMul
  BY <1>1, SampleTaken
<1> HIDE DEF c
<1>8. /\ at' = "accept" /\ produced' = 0 /\ drafted' = drafted
      /\ cascade' = TestSample(c, util)
      /\ score' = seen /\ spent' = 0
      /\ zeros' = IF cascade'.testing THEN zeros
                  ELSE IF cascade'.bestK = 0 THEN (IF zeros < 3 THEN zeros + 1 ELSE 3)
                  ELSE 0
  <2>1. ActiveK(c) = k
    BY <1>7 DEF ActiveK
  <2> HIDE DEF util, k
  <2> QED BY <1>7, <2>1 DEF OuterIterStart, c, util
<1> HIDE DEF util, k, seen
<1>9. /\ added \in CascadeType /\ added.testing = TRUE /\ added.testIdx = cascade.testIdx
      /\ added.testSum = sum /\ added.testN = cascade.testN + 1
      /\ added.bestAvg = cascade.bestAvg /\ added.bestK = cascade.bestK
      /\ added.setMul = cascade.setMul
  <2>1. cascade.testN + 1 \in 0..TestIters
    BY <1>1, <1>2, <1>6
  <2> DEFINE more == cascade.testN + 1
  <2>2. added = WithSample(c, sum, more) /\ more \in 0..TestIters
    BY <2>1 DEF WithSample
  <2> HIDE DEF sum, more, added
  <2>3. /\ added \in CascadeType /\ added.testing = c.testing /\ added.testIdx = c.testIdx
        /\ added.testSum = sum /\ added.testN = more /\ added.bestAvg = c.bestAvg
        /\ added.bestK = c.bestK /\ added.setMul = c.setMul
    BY ZenonT(60), <1>4, <1>7, <2>2, SampleAdded
  <2> QED BY <1>7, <2>3 DEF more
<1>10. cascade' = IF cascade.testN + 1 >= TestIters THEN CandidateDone(added) ELSE added
  BY <1>7, <1>8, <1>9 DEF TestSample
<1> HIDE DEF added, sum
<1>11. CASE cascade.testN + 1 < TestIters
  <2>1. cascade' = added
    BY <1>2, <1>6, <1>10, <1>11
  <2>2. CascadeTypeOK'
    BY <1>1, <1>4, <1>8, <1>9, <2>1 DEF CascadeTypeOK
  <2>3. TestInv'
    <3>1. cascade'.testN # 0 /\ cascade'.testSum = score'[ks[cascade'.testIdx]]
      BY <1>2, <1>4, <1>8, <1>9, <2>1 DEF k
    <3>2. CASE cascade.testIdx = 1
      BY <1>1, <1>9, <2>1, <3>1, <3>2 DEF TestInv
    <3>3. CASE cascade.testIdx # 1
      <4>1. Cap # 0 /\ k = Cap
        BY <1>2, <3>3, Lengths DEF k
      <4>2. score'[0] = score[0]
        BY <1>5, <1>8, <4>1, Lengths
      <4> QED BY <1>1, <1>9, <2>1, <3>1, <3>3, <4>2 DEF TestInv
    <3> QED BY <3>2, <3>3
  <2> QED BY <1>1, <1>8, <1>9, <1>11, <2>1, <2>2, <2>3 DEF CascadeInv
<1>12. CASE ~(cascade.testN + 1 < TestIters)
  <2> DEFINE better == Better(sum, cascade.bestAvg)
             best   == IF better THEN k ELSE cascade.bestK
             avg    == IF better THEN sum ELSE cascade.bestAvg
             mul    == SetMulAfter(cascade.setMul, best)
  <2>1. cascade' = CandidateDone(added)
    BY <1>2, <1>6, <1>10, <1>12
  <2>2. best \in Candidates /\ avg \in Nat \cup {NoUtility}
    BY <1>2, <1>3, <1>4
  <2>3. CASE cascade.testIdx < Len(ks)
    <3>1. Cap # 0 /\ cascade.testIdx = 1 /\ k = 0 /\ Len(ks) = 2
      BY <1>2, <2>3, Lengths DEF k
    <3>2. better
      BY <1>1, <1>4, <3>1 DEF TestInv, Better, NoUtility
    <3>3. cascade' = [added EXCEPT !.bestAvg = avg, !.bestK = best, !.testSum = 0,
                                   !.testN = 0, !.testIdx = cascade.testIdx + 1]
      <4>1. CandidateDone(added) =
              [added EXCEPT !.bestAvg = avg, !.bestK = best, !.testSum = 0,
                            !.testN = 0, !.testIdx = @ + 1]
        BY <1>9, <2>3 DEF CandidateDone, k
      <4> HIDE DEF better, best, avg
      <4> QED BY <1>9, <2>1, <4>1
    <3>4. 2 \in 1..Len(ks) /\ cascade.testIdx + 1 = 2
      BY <3>1
    <3> HIDE DEF best, avg
    <3>5. /\ cascade' \in CascadeType
          /\ cascade'.testing = TRUE /\ cascade'.testN = 0 /\ cascade'.testSum = 0
          /\ cascade'.testIdx = 2 /\ cascade'.bestAvg = avg /\ cascade'.bestK = best
          /\ cascade'.setMul = cascade.setMul
      <4>1. cascade' = WithNext(added, avg, best, 2)
        BY <3>3, <3>4 DEF WithNext
      <4>2. /\ cascade' \in CascadeType /\ cascade'.testing = added.testing
            /\ cascade'.testN = 0 /\ cascade'.testSum = 0
            /\ cascade'.testIdx = 2 /\ cascade'.bestAvg = avg /\ cascade'.bestK = best
            /\ cascade'.setMul = added.setMul
        BY <1>9, <2>2, <3>4, <4>1, NextCandidate
      <4> QED BY <1>9, <4>2
    <3>6. best = 0 /\ avg = sum
      BY <3>1, <3>2 DEF best, avg
    <3>7. CascadeTypeOK'
      BY <1>1, <1>4, <1>8, <3>5 DEF CascadeTypeOK
    <3>8. TestInv'
      BY <1>4, <1>8, <3>1, <3>5, <3>6 DEF TestInv
    <3> QED BY <1>1, <1>6, <1>8, <3>5, <3>7, <3>8 DEF CascadeInv
  <2>4. CASE ~(cascade.testIdx < Len(ks))
    <3>1. cascade.testIdx = Len(ks)
      BY <1>2, <2>4, Lengths
    <3>2. cascade' = [added EXCEPT !.bestAvg = avg, !.bestK = best, !.testSum = 0,
                                   !.testN = 0, !.testing = FALSE, !.setMul = mul,
                                   !.setLeft = SetIters * mul, !.testIdx = 1]
      BY <1>9, <2>1, <2>4 DEF CandidateDone, k
    <3>3. mul = 2^(IF best = 0 THEN (IF zeros < 3 THEN zeros + 1 ELSE 3) ELSE 0)
      <4> HIDE DEF best
      <4> QED BY <1>1, <2>2, Doubling
    <3>4. mul \in Multipliers
      <4> HIDE DEF best
      <4> QED BY <1>1, <2>2, Doubling
    <3> HIDE DEF mul, best, avg
    <3>5. SetIters * mul \in Int
      BY <1>6, <3>4 DEF Multipliers
    <3>6. /\ cascade' \in CascadeType
          /\ cascade'.testing = FALSE /\ cascade'.testN = 0 /\ cascade'.testSum = 0
          /\ cascade'.bestK = best /\ cascade'.setMul = mul
          /\ cascade'.setLeft = SetIters * mul
      <4> DEFINE long == SetIters * mul
      <4>1. long \in Int /\ cascade' = WithSetPhase(added, avg, best, mul, long)
        BY <3>2, <3>5 DEF WithSetPhase
      <4> HIDE DEF long
      <4>2. /\ cascade' \in CascadeType
            /\ cascade'.testing = FALSE /\ cascade'.testN = 0 /\ cascade'.testSum = 0
            /\ cascade'.bestK = best /\ cascade'.setMul = mul /\ cascade'.setLeft = long
        <5>1. added \in CascadeType
          BY <1>9
        <5>2. long \in Int
          BY <4>1
        <5> DEFINE d == WithSetPhase(added, avg, best, mul, long)
        <5>3. /\ d \in CascadeType /\ ~d.testing /\ d.testSum = 0 /\ d.testN = 0
              /\ d.bestK = best /\ d.setLeft = long /\ d.setMul = mul
          BY <2>2, <3>4, <5>1, <5>2, SetPhaseBegun
        <5>4. d.testing = FALSE
          BY <5>3 DEF CascadeType
        <5> QED BY <4>1, <5>3, <5>4
      <4> QED BY <4>2 DEF long
    <3>7. /\ zeros' = IF best = 0 THEN (IF zeros < 3 THEN zeros + 1 ELSE 3) ELSE 0
          /\ zeros' \in 0..3 /\ cascade'.setMul = 2^zeros' /\ score' = seen
      BY <1>1, <1>8, <3>3, <3>6
    <3>8. \A j \in Candidates : seen[j] <= seen[best] /\ (seen[j] = seen[best] => best <= j)
      <4>1. CASE Cap = 0
        <5>1. Candidates = {0} /\ best = 0
          BY <2>2, <4>1 DEF Candidates
        <5> QED BY <1>4, <5>1
      <4>2. CASE Cap # 0
        <5>1. /\ k = Cap /\ cascade.testIdx = 2 /\ cascade.bestAvg = score[0]
              /\ cascade.bestK = 0 /\ Cap > 0 /\ Cap \in Nat /\ Candidates = {0, Cap}
          <6>1. Len(ks) = 2 /\ ks[2] = Cap /\ Cap \in Nat
            BY <4>2, Lengths
          <6>2. cascade.testIdx = 2 /\ k = Cap /\ Cap > 0
            BY <3>1, <4>2, <6>1 DEF k
          <6> QED BY <1>1, <6>1, <6>2 DEF TestInv, Candidates
        <5>2. seen[0] = score[0] /\ seen[Cap] = sum /\ seen[0] \in Nat
          BY <1>4, <1>5, <5>1, Lengths
        <5>3. best = IF sum > seen[0] THEN Cap ELSE 0
          BY <5>1, <5>2 DEF Better, best
        <5> QED BY <1>4, <5>1, <5>2, <5>3
      <4> QED BY <4>1, <4>2
    <3>9. CascadeTypeOK'
      BY <1>1, <1>4, <1>8, <3>6, <3>7 DEF CascadeTypeOK
    <3>10. SetInv'
      BY <1>6, <1>8, <3>4, <3>5, <3>6, <3>7, <3>8 DEF SetInv, BestIsArgmax
    <3> QED BY <1>6, <3>6, <3>7, <3>9, <3>10 DEF CascadeInv
  <2> QED BY <2>3, <2>4
<1> QED BY <1>11, <1>12

(* A sample of a set phase.                                                  *)
LEMMA SetSampleKeeps ==
  ASSUME CascadeInv, OuterIterStart, ~cascade.testing, cascade.pending # 0
  PROVE  CascadeInv'
<1> DEFINE c    == [cascade EXCEPT !.pending = 0]
           left == [c EXCEPT !.setLeft = cascade.setLeft - 1]
<1>1. /\ cascade \in CascadeType /\ score \in [Candidates -> Nat] /\ zeros \in 0..3
      /\ spent \in Nat /\ cascade.setMul = 2^zeros /\ SetInv /\ drafted \in Candidates
      /\ cascade.testN < TestIters /\ cascade.setLeft \in Int
  BY DEF CascadeInv, CascadeTypeOK, CascadeType
<1>2. /\ c \in CascadeType /\ c.testing = FALSE
      /\ c.testSum = cascade.testSum /\ c.testN = cascade.testN
      /\ c.bestK = cascade.bestK /\ c.setLeft = cascade.setLeft
      /\ c.setMul = cascade.setMul
  <2>1. cascade.testing = FALSE
    BY <1>1 DEF CascadeType
  <2> QED BY <1>1, <2>1, SampleTaken
<1> HIDE DEF c
<1>3. /\ left \in CascadeType /\ left.testing = FALSE
      /\ left.testSum = cascade.testSum /\ left.testN = cascade.testN
      /\ left.bestK = cascade.bestK /\ left.setLeft = cascade.setLeft - 1
      /\ left.setMul = cascade.setMul
  BY <1>1, <1>2, SampleSpent
<1>4. /\ SetSample(c) = IF cascade.setLeft - 1 <= 0 THEN TestStart(left) ELSE left
      /\ SetSample(c).testing \in BOOLEAN
  <2>1. SetSample(c) = IF cascade.setLeft - 1 <= 0 THEN TestStart(left) ELSE left
    BY <1>2, <1>3 DEF SetSample
  <2> HIDE DEF left
  <2>2. TestStart(left).testing = TRUE
    BY <1>3, TestPhaseBegun
  <2> QED BY <1>3, <2>1, <2>2
<1>5. /\ at' = "accept" /\ produced' = 0 /\ drafted' = drafted
      /\ cascade' = SetSample(c)
      /\ score' = IF cascade'.testing THEN NoScore ELSE score
      /\ zeros' = zeros
      /\ spent' = IF cascade'.testing THEN 0 ELSE spent + 1
  <2>1. c.testing = FALSE /\ ~c.testing
    BY <1>2
  <2>2. /\ at' = "accept" /\ produced' = 0 /\ drafted' = drafted /\ cascade' = SetSample(c)
    BY <2>1 DEF OuterIterStart, c
  <2>3. CASE cascade'.testing
    BY <1>4, <2>1, <2>2, <2>3 DEF OuterIterStart, c
  <2>4. CASE ~cascade'.testing
    <3>1. cascade'.testing = c.testing
      BY <1>4, <2>1, <2>2, <2>4
    <3> QED BY <2>1, <2>2, <2>4, <3>1 DEF OuterIterStart, c
  <2> QED BY <2>3, <2>4
<1> HIDE DEF left
<1>6. CASE cascade.setLeft - 1 <= 0
  <2>1. /\ cascade' \in CascadeType
        /\ cascade'.testing = TRUE /\ cascade'.testIdx = 1 /\ cascade'.testN = 0
        /\ cascade'.testSum = 0 /\ cascade'.bestAvg = NoUtility /\ cascade'.bestK = Cap
        /\ cascade'.setMul = cascade.setMul
    BY <1>3, <1>4, <1>5, <1>6, TestPhaseBegun
  <2>2. CascadeTypeOK'
    BY <1>1, <1>5, <2>1 DEF CascadeTypeOK, NoScore
  <2> QED BY <1>1, <1>5, <2>1, <2>2, CascadeAssumption DEF CascadeInv, TestInv
<1>7. CASE ~(cascade.setLeft - 1 <= 0)
  <2>1. cascade' = left
    BY <1>4, <1>5, <1>7
  <2>2. CascadeTypeOK'
    BY <1>1, <1>5, <1>3, <2>1 DEF CascadeTypeOK
  <2>3. cascade'.setLeft + spent' = cascade.setLeft + spent
    BY <1>1, <1>5, <1>3, <2>1
  <2>4. SetInv'
    BY <1>1, <1>5, <1>3, <2>1, <2>3 DEF SetInv, BestIsArgmax
  <2> QED BY <1>1, <1>5, <1>3, <2>1, <2>2, <2>4 DEF CascadeInv
<1> QED BY <1>6, <1>7

(* The steps that take no sample leave the sums alone.                       *)
LEMMA OtherStepsKeep ==
  ASSUME CascadeInv,
         \/ OuterIterStart /\ cascade.pending = 0
         \/ AcceptLoop \/ VerifyDone \/ Stop \/ UNCHANGED vars
  PROVE  CascadeInv'
<1>1. CascadeTypeOK
  BY DEF CascadeInv
<1>2. /\ score' = score /\ zeros' = zeros /\ spent' = spent
      /\ \/ cascade' = cascade
         \/ \E t \in Times : cascade' = [cascade EXCEPT !.pending = t]
  BY DEF OuterIterStart, AcceptLoop, VerifyDone, Stop, vars
<1>3. /\ cascade' \in CascadeType
      /\ cascade'.testing = cascade.testing /\ cascade'.testIdx = cascade.testIdx
      /\ cascade'.testN = cascade.testN /\ cascade'.testSum = cascade.testSum
      /\ cascade'.bestAvg = cascade.bestAvg /\ cascade'.bestK = cascade.bestK
      /\ cascade'.setLeft = cascade.setLeft /\ cascade'.setMul = cascade.setMul
  BY <1>1, <1>2 DEF CascadeTypeOK, CascadeType
<1>4. /\ at' \in {"start", "accept", "verify", "stopped"} /\ produced' \in Nat
      /\ drafted' \in Candidates
  <2>1. CASE OuterIterStart /\ cascade.pending = 0
    BY <1>1, <2>1 DEF OuterIterStart, CascadeTypeOK
  <2>2. CASE AcceptLoop
    <3>1. drafted \in Nat
      BY <1>1, Lengths DEF CascadeTypeOK, Candidates
    <3> QED BY <1>1, <2>2, <3>1 DEF AcceptLoop, CascadeTypeOK
  <2>3. CASE VerifyDone
    <3>1. ActiveK(cascade) \in Candidates
      BY <1>1, Lengths DEF CascadeTypeOK, CascadeType, ActiveK
    <3> QED BY <1>1, <2>3, <3>1 DEF VerifyDone, CascadeTypeOK
  <2>4. CASE Stop \/ UNCHANGED vars
    BY <1>1, <2>4 DEF Stop, vars, CascadeTypeOK
  <2> QED BY <2>1, <2>2, <2>3, <2>4
<1>5. CascadeTypeOK'
  BY <1>1, <1>2, <1>3, <1>4 DEF CascadeTypeOK
<1> QED BY <1>2, <1>3, <1>5 DEF CascadeInv, TestInv, SetInv, BestIsArgmax

(* The sums on_outer_iter_start() compares are, at every step of the loop,   *)
(* those of the samples of this test phase and this candidate.               *)
THEOREM CascadeInvariance == Spec => []CascadeInv
<1>1. CascadeInv /\ [Next]_vars => CascadeInv'
  BY TestSampleKeeps, SetSampleKeeps, OtherStepsKeep DEF Next, Round
<1> QED BY <1>1, CascadeInit, PTL DEF Spec

(* A set phase always uses the length with the highest measured utility, the *)
(* shortest of several, whatever on_outer_iter_start() measured before.      *)
THEOREM BestLengthChosen == Spec => []BestIsArgmax
<1>1. CascadeInv => BestIsArgmax
  BY DEF CascadeInv, SetInv, BestIsArgmax
<1> QED BY <1>1, CascadeInvariance, PTL

(* A set phase lasts utility_set_iters samples, doubled for each test phase  *)
(* in a row that chose 0, at most three times.                               *)
THEOREM SetPhaseLength == Spec => []BackoffDoubles
<1>1. CascadeInv => BackoffDoubles
  BY DEF CascadeInv, SetInv, BackoffDoubles
<1> QED BY <1>1, CascadeInvariance, PTL
=============================================================================
