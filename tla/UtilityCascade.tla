--------------------------- MODULE UtilityCascade ---------------------------
(***************************************************************************)
(* --moe-utility-spec of examples/speculative/speculative.cpp: the draft   *)
(* length K of the decode loop is chosen by test phases, which measure the *)
(* utility of every candidate K, and set phases, which use the best one.   *)
(*                                                                         *)
(* One round of the loop is: on_outer_iter_start() takes the sample of the *)
(* round before; the accept loop emits tokens along the drafts verified in *)
(* the round before; new drafts are made with K tokens and verified.       *)
(* A utility is tokens per time; with Scale a multiple of every time, sums *)
(* of utilities are exact integers, and averages over TestIters samples    *)
(* compare like their sums.                                                *)
(***************************************************************************)
EXTENDS Integers, Sequences

CONSTANTS
  Cap,         (* --draft                                                  *)
  TestIters,   (* --spec-utility-test-iters                                *)
  SetIters,    (* --spec-utility-set-iters                                 *)
  Times,       (* the verification times that occur                        *)
  Scale        (* a common multiple of Times                               *)

ASSUME CascadeAssumption ==
  /\ Cap \in Nat /\ TestIters \in Nat \ {0} /\ SetIters \in Nat \ {0}
  /\ Times \subseteq Nat \ {0} /\ Times # {} /\ Scale \in Nat
  /\ \A t \in Times : Scale % t = 0

VARIABLES
  cascade,     (* the fields of MoeUtilityCascadeState                     *)
  at,          (* where the decode loop is                                 *)
  produced,    (* n_predict - n_predict_mark                               *)
  drafted,     (* the length of the drafts the next accept loop walks      *)
  score,       (* history: the utility sum of each K of this test phase    *)
  zeros,       (* history: test phases in a row that chose K = 0, up to 3  *)
  spent        (* history: samples of this set phase                       *)

vars == << cascade, at, produced, drafted, score, zeros, spent >>

(* The candidate lengths, and the same in increasing order. *)
Candidates == {0, Cap}
ks == IF Cap = 0 THEN << 0 >> ELSE << 0, Cap >>

NoUtility == -1          (* below every average: -1e30                     *)

TestStart(c) ==
  [c EXCEPT !.testing = TRUE, !.testIdx = 1, !.testSum = 0, !.testN = 0,
            !.bestAvg = NoUtility, !.bestK = Cap]

NoScore == [k \in Candidates |-> 0]

Init ==
  /\ cascade = TestStart([testing |-> TRUE, testIdx |-> 1, testSum |-> 0, testN |-> 0,
                          bestAvg |-> NoUtility, bestK |-> Cap, setLeft |-> 0,
                          setMul |-> 1, pending |-> 0])
  /\ at = "start"
  /\ produced = 0 /\ drafted = 0
  /\ score = NoScore /\ zeros = 0 /\ spent = 0

(* active_k() *)
ActiveK(c) == IF c.testing THEN ks[c.testIdx] ELSE c.bestK

Utility(tokens, time) == tokens * (Scale \div time)

(* Mutant of Better: an equal average replaces the best. *)
BetterOrEqual(avg, best) == avg >= best

Better(avg, best) == avg > best

(* Mutant of SetMulAfter: the doubling is not limited. *)
SetMulUnlimited(mul, best) == IF best = 0 THEN 2 * mul ELSE 1

(* Doubled, up to 8, while the best length is 0. *)
SetMulAfter(mul, best) == IF best # 0 THEN 1 ELSE IF 2 * mul > 8 THEN 8 ELSE 2 * mul

(* Mutant of CandidateDone: the next candidate is never reached. *)
CandidateDoneStuck(c) ==
  LET better == Better(c.testSum, c.bestAvg)
  IN  [c EXCEPT !.bestAvg = IF better THEN c.testSum ELSE @,
                !.bestK   = IF better THEN ks[c.testIdx] ELSE @,
                !.testSum = 0, !.testN = 0]

(* The last sample of a candidate: remember it if it is the best so far, then *)
(* go to the next candidate or to the set phase.                              *)
CandidateDone(c) ==
  LET better == Better(c.testSum, c.bestAvg)
      best   == IF better THEN ks[c.testIdx] ELSE c.bestK
      next   == [c EXCEPT !.bestAvg = IF better THEN c.testSum ELSE @, !.bestK = best,
                          !.testSum = 0, !.testN = 0]
      mul    == SetMulAfter(c.setMul, best)
  IN  IF c.testIdx < Len(ks) THEN [next EXCEPT !.testIdx = @ + 1]
      ELSE [next EXCEPT !.testing = FALSE, !.setMul = mul, !.setLeft = SetIters * mul,
                        !.testIdx = 1]

TestSample(c, util) ==
  LET added == [c EXCEPT !.testSum = @ + util, !.testN = @ + 1]
  IN  IF added.testN >= TestIters THEN CandidateDone(added) ELSE added

SetSample(c) ==
  LET left == [c EXCEPT !.setLeft = @ - 1]
  IN  IF left.setLeft <= 0 THEN TestStart(left) ELSE left

(* on_outer_iter_start() *)
OuterIterStart ==
  /\ at = "start"
  /\ at' = "accept"
  /\ produced' = 0
  /\ IF cascade.pending = 0
     THEN UNCHANGED << cascade, score, zeros, spent >>
     ELSE LET c    == [cascade EXCEPT !.pending = 0]
              util == Utility(produced, cascade.pending)
              to   == IF c.testing THEN TestSample(c, util) ELSE SetSample(c)
              turn == c.testing # to.testing
          IN  /\ cascade' = to
              /\ score' = IF turn /\ to.testing THEN NoScore
                          ELSE IF c.testing
                               THEN [score EXCEPT ![ActiveK(c)] =
                                       IF c.testN = 0 THEN util ELSE @ + util]
                          ELSE score
              /\ zeros' = IF turn /\ ~to.testing
                          THEN IF to.bestK = 0 THEN (IF zeros < 3 THEN zeros + 1 ELSE 3) ELSE 0
                          ELSE zeros
              /\ spent' = IF c.testing \/ turn THEN 0 ELSE spent + 1
  /\ UNCHANGED drafted

(* The accept loop emits every drafted token that matches and one more. *)
AcceptLoop ==
  /\ at = "accept"
  /\ \E n \in 1..(drafted + 1) : produced' = produced + n
  /\ at' = "verify"
  /\ UNCHANGED << cascade, drafted, score, zeros, spent >>

(* Drafting with K tokens and on_verify_done(). *)
VerifyDone ==
  /\ at = "verify"
  /\ \E t \in Times : cascade' = [cascade EXCEPT !.pending = t]
  /\ drafted' = ActiveK(cascade)
  /\ at' = "start"
  /\ UNCHANGED << produced, score, zeros, spent >>

(* An end-of-generation token or the output limit. *)
Stop ==
  /\ at = "verify"
  /\ at' = "stopped"
  /\ UNCHANGED << cascade, produced, drafted, score, zeros, spent >>

Round == OuterIterStart \/ AcceptLoop \/ VerifyDone

Next == Round \/ Stop

(* The loop has one thread; it may stop but never waits. *)
Spec == Init /\ [][Next]_vars /\ WF_vars(Round)

-----------------------------------------------------------------------------
(* Properties. *)

(* A set phase uses the length with the highest utility of all candidates, the *)
(* shortest of them if several are equal: no sample of another candidate or of *)
(* an earlier phase is left in the sums on_outer_iter_start() compares.        *)
BestIsArgmax ==
  ~cascade.testing =>
    \A k \in Candidates :
      /\ score[k] <= score[cascade.bestK]
      /\ score[k] = score[cascade.bestK] => cascade.bestK <= k

(* MOE_UTILITY_SPEC.md: a set phase lasts utility_set_iters samples, twice as   *)
(* many for each test phase in a row that chose 0, at most eight times.        *)
BackoffDoubles ==
  ~cascade.testing => cascade.setLeft + spent = SetIters * 2^zeros

(* As long as the loop goes on, a set phase ends and the lengths are measured  *)
(* again, and a test phase ends with a choice.                                 *)
PhasesAlternate ==
  /\ cascade.testing ~> (~cascade.testing \/ at = "stopped")
  /\ ~cascade.testing ~> (cascade.testing \/ at = "stopped")

-----------------------------------------------------------------------------
(* The inductive invariant: what the sums hold between two samples.           *)

Multipliers == {1, 2, 4, 8}

CascadeType ==
  [testing : BOOLEAN, testIdx : 1..Len(ks), testSum : Nat, testN : 0..TestIters,
   bestAvg : Nat \cup {NoUtility}, bestK : Candidates, setLeft : Int,
   setMul : Multipliers, pending : Times \cup {0}]

CascadeTypeOK ==
  /\ cascade \in CascadeType
  /\ at \in {"start", "accept", "verify", "stopped"}
  /\ produced \in Nat /\ drafted \in Candidates
  /\ score \in [Candidates -> Nat] /\ zeros \in 0..3 /\ spent \in Nat

(* The sum of the candidate under test is what history recorded for it, and   *)
(* the best so far is the only other candidate once that one was measured.    *)
TestInv ==
  /\ IF cascade.testN = 0 THEN cascade.testSum = 0
     ELSE cascade.testSum = score[ks[cascade.testIdx]]
  /\ IF cascade.testIdx = 1 THEN cascade.bestAvg = NoUtility /\ cascade.bestK = Cap
     ELSE cascade.bestAvg = score[0] /\ cascade.bestK = 0

SetInv ==
  /\ BestIsArgmax
  /\ cascade.testSum = 0 /\ cascade.testN = 0
  /\ cascade.setLeft + spent = SetIters * cascade.setMul

CascadeInv ==
  /\ CascadeTypeOK
  /\ cascade.testN < TestIters
  /\ cascade.setMul = 2^zeros
  /\ IF cascade.testing THEN TestInv ELSE SetInv
=============================================================================
