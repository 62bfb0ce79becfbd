------------------------ MODULE HybridMemory_proofs -------------------------
(***************************************************************************)
(* Facts about the operations of HybridMemory, for every vocabulary,       *)
(* context size, history capacity and batch size.                          *)
(***************************************************************************)
EXTENDS HybridMemory, TLAPS, SequenceTheorems, WellFoundedInduction

(***************************************************************************)
(* Prefixes of sequences.                                                  *)
(***************************************************************************)
LEMMA PrefixLen ==
  ASSUME NEW S, NEW s \in Seq(S), NEW n \in 0..Len(s)
  PROVE  /\ SubSeq(s, 1, n) \in Seq(S) /\ Len(SubSeq(s, 1, n)) = n
         /\ \A i \in 1..n : SubSeq(s, 1, n)[i] = s[i]
<1>1. Len(s) \in Nat /\ n \in Int /\ 1 \in Int
  BY LenProperties
<1>2. \A i \in 1..n : s[i] \in S
  BY <1>1, ElementOfSeq
<1>3. /\ SubSeq(s, 1, n) \in Seq(S)
      /\ Len(SubSeq(s, 1, n)) = IF 1 <= n THEN n - 1 + 1 ELSE 0
      /\ \A i \in 1..(n - 1 + 1) : SubSeq(s, 1, n)[i] = s[1 + i - 1]
  BY <1>1, <1>2, SubSeqProperties
<1>4. n - 1 + 1 = n /\ \A i \in 1..n : 1 + i - 1 = i
  BY <1>1
<1> QED BY <1>1, <1>3, <1>4

LEMMA PrefixExtend ==
  ASSUME NEW S, NEW s \in Seq(S), NEW n \in Nat, n < Len(s)
  PROVE  Append(SubSeq(s, 1, n), s[n + 1]) = SubSeq(s, 1, n + 1)
<1> DEFINE a == Append(SubSeq(s, 1, n), s[n + 1])
<1> DEFINE b == SubSeq(s, 1, n + 1)
<1>1. Len(s) \in Nat /\ n \in 0..Len(s) /\ n + 1 \in 0..Len(s) /\ n + 1 \in 1..Len(s)
  BY LenProperties
<1>2. s[n + 1] \in S
  BY <1>1, ElementOfSeq
<1>3. /\ SubSeq(s, 1, n) \in Seq(S) /\ Len(SubSeq(s, 1, n)) = n
      /\ \A i \in 1..n : SubSeq(s, 1, n)[i] = s[i]
  BY <1>1, PrefixLen
<1>4. /\ b \in Seq(S) /\ Len(b) = n + 1
      /\ \A i \in 1..(n + 1) : b[i] = s[i]
  BY <1>1, PrefixLen
<1>5. /\ a \in Seq(S) /\ Len(a) = n + 1
      /\ \A i \in 1..n : a[i] = SubSeq(s, 1, n)[i]
      /\ a[n + 1] = s[n + 1]
  BY <1>2, <1>3, AppendProperties
<1> HIDE DEF a, b
<1>6. ASSUME NEW i \in 1..Len(a)
      PROVE  a[i] = b[i]
  <2>1. i = n + 1 \/ i \in 1..n
    BY <1>5
  <2>2. i \in 1..(n + 1)
    BY <1>5
  <2> QED BY <1>3, <1>4, <1>5, <2>1, <2>2
<1>7. a = b
  BY <1>4, <1>5, <1>6, SeqEqual
<1> QED BY <1>7 DEF a, b

LEMMA PrefixOfConcat ==
  ASSUME NEW S, NEW r \in Seq(S), NEW t \in Seq(S), NEW i \in 0..Len(t)
  PROVE  r \o SubSeq(t, 1, i) = SubSeq(r \o t, 1, Len(r) + i)
<1> DEFINE a == r \o SubSeq(t, 1, i)
<1> DEFINE b == SubSeq(r \o t, 1, Len(r) + i)
<1> DEFINE n == Len(r)
<1>1. n \in Nat /\ Len(t) \in Nat /\ i \in Nat /\ i <= Len(t)
  BY LenProperties
<1>2. /\ SubSeq(t, 1, i) \in Seq(S) /\ Len(SubSeq(t, 1, i)) = i
      /\ \A j \in 1..i : SubSeq(t, 1, i)[j] = t[j]
  BY PrefixLen
<1>3. /\ a \in Seq(S) /\ Len(a) = n + i
      /\ \A j \in 1..(n + i) : a[j] = IF j <= n THEN r[j] ELSE SubSeq(t, 1, i)[j - n]
  BY <1>2, ConcatProperties
<1>4. /\ r \o t \in Seq(S) /\ Len(r \o t) = n + Len(t)
      /\ \A j \in 1..(n + Len(t)) : (r \o t)[j] = IF j <= n THEN r[j] ELSE t[j - n]
  BY ConcatProperties
<1>5. n + i \in 0..Len(r \o t)
  BY <1>1, <1>4
<1>6. /\ b \in Seq(S) /\ Len(b) = n + i
      /\ \A j \in 1..(n + i) : b[j] = (r \o t)[j]
  BY <1>4, <1>5, PrefixLen
<1> HIDE DEF a, b, n
<1>7. ASSUME NEW j \in 1..Len(a)
      PROVE  a[j] = b[j]
  <2>1. j \in 1..(n + i) /\ j \in 1..(n + Len(t))
    BY <1>1, <1>3
  <2>2. CASE j <= n
    BY <1>3, <1>4, <1>6, <2>1, <2>2
  <2>3. CASE ~(j <= n)
    <3>1. j - n \in 1..i
      BY <1>1, <2>1, <2>3
    <3>2. SubSeq(t, 1, i)[j - n] = t[j - n]
      BY <1>2, <3>1
    <3> QED BY <1>3, <1>4, <1>6, <2>1, <2>3, <3>2
  <2> QED BY <2>2, <2>3
<1>8. a = b
  BY <1>3, <1>6, <1>7, SeqEqual
<1> QED BY <1>8 DEF a, b, n

-----------------------------------------------------------------------------
(***************************************************************************)
(* The largest used position (seq_pos_max of the attention cache) exists   *)
(* whenever a position is used, so AttnPosMax is an upper bound in the set *)
(* it is chosen from.                                                      *)
(***************************************************************************)
LEMMA AttnPosMaxIsMax ==
  ASSUME NEW m, AttnUsed(m) # {}
  PROVE  /\ AttnPosMax(m) \in AttnUsed(m)
         /\ \A q \in AttnUsed(m) : q <= AttnPosMax(m)
<1> DEFINE T == {n \in Nat : \E p \in AttnUsed(m) : n = Context - p}
<1>1. AttnUsed(m) \subseteq Positions /\ Positions \subseteq Nat /\ Context \in Nat
  BY MemoryAssumption DEF AttnUsed, Positions
<1>2. T # {} /\ T \subseteq Nat
  BY <1>1, MemoryAssumption DEF Positions
<1>3. PICK x \in T : \A y \in T : ~(<< y, x >> \in OpToRel(<, Nat))
  BY <1>2, NatLessThanWellFounded, WFMin
<1>4. \A y \in T : ~(y < x)
  BY <1>2, <1>3 DEF OpToRel
<1>5. PICK p \in AttnUsed(m) : x = Context - p
  BY <1>3
<1>6. \A q \in AttnUsed(m) : q <= p
  <2> TAKE q \in AttnUsed(m)
  <2>1. q \in Positions /\ q \in Nat /\ p \in Nat
    BY <1>1, <1>5
  <2>2. Context - q \in T
    BY <2>1, <1>1, MemoryAssumption DEF Positions
  <2>3. ~(Context - q < x)
    BY <1>4, <2>2
  <2> HIDE DEF T
  <2> QED BY <1>5, <2>1, <2>3, <1>1
<1> QED
  BY <1>5, <1>6 DEF AttnPosMax

LEMMA AttnPosMaxType ==
  ASSUME NEW m
  PROVE  AttnPosMax(m) \in Int
<1>1. CASE AttnUsed(m) = {}
  BY <1>1 DEF AttnPosMax
<1>2. CASE AttnUsed(m) # {}
  BY <1>2, AttnPosMaxIsMax DEF AttnUsed, Positions
<1> QED BY <1>1, <1>2

(***************************************************************************)
(* Every operation maps a memory to a memory.                              *)
(***************************************************************************)
LEMMA EmptyTypes ==
  /\ EmptyRec \in Rec
  /\ EmptyState \in State
  /\ NoHistory \in Hist
  /\ FreshMemory \in Memory
BY EmptySeq, MemoryAssumption DEF EmptyRec, EmptyState, NoHistory, FreshMemory, Rec, State, Hist, Memory, Entry

LEMMA StateAfterType ==
  ASSUME NEW m \in Memory, NEW by, NEW toks \in Seq(Token), NEW first \in Int,
         NEW i \in 0..Len(toks)
  PROVE  StateAfter(m, by, toks, first, i) \in State
<1>1. m.rec.toks \in Seq(Token) /\ ExactStep(m, by, first) \in BOOLEAN
  BY DEF Memory, Rec, ExactStep, Coherent
<1>2. SubSeq(toks, 1, i) \in Seq(Token)
  BY SubSeqProperties
<1>3. m.rec.toks \o SubSeq(toks, 1, i) \in Seq(Token)
  BY <1>1, <1>2, ConcatProperties
<1> QED BY <1>1, <1>3 DEF StateAfter, State

LEMMA OutputsType ==
  ASSUME NEW m \in Memory, NEW by, NEW toks \in Seq(Token), NEW first \in Int
  PROVE  /\ Outputs(m, by, toks, first) \in Seq(State)
         /\ Len(Outputs(m, by, toks, first)) = Len(toks)
<1>1. \A i \in 1..Len(toks) : StateAfter(m, by, toks, first, i) \in State
  BY StateAfterType
<1>2. Outputs(m, by, toks, first) \in [1..Len(toks) -> State]
  BY <1>1 DEF Outputs
<1> QED BY <1>2, IsASeq, LenProperties

LEMMA CapturedRowsType ==
  ASSUME NEW m \in Memory, NEW by, NEW toks \in Seq(Token), NEW first \in Int
  PROVE  CapturedRows(m, by, toks, first) \in [1..Capacity -> State]
<1>1. \A i \in 1..Capacity : i <= Len(toks) => StateAfter(m, by, toks, first, i) \in State
  BY StateAfterType, LenProperties, MemoryAssumption
<1>2. m.rows \in [1..Capacity -> State]
  BY DEF Memory
<1> QED BY <1>1, <1>2 DEF CapturedRows

LEMMA AttnAppendType ==
  ASSUME NEW attn \in [Positions -> Seq(Entry)], NEW toks \in Seq(Token),
         NEW first \in Int, NEW exact \in BOOLEAN
  PROVE  AttnAppend(attn, toks, first, exact) \in [Positions -> Seq(Entry)]
<1> SUFFICES ASSUME NEW p \in Positions, first <= p, p < first + Len(toks)
             PROVE  Append(attn[p], [tok |-> toks[p - first + 1], exact |-> exact])
                      \in Seq(Entry)
  BY DEF AttnAppend
<1>1. p - first + 1 \in 1..Len(toks)
  BY LenProperties DEF Positions
<1>2. toks[p - first + 1] \in Token
  BY <1>1, ElementOfSeq
<1>3. [tok |-> toks[p - first + 1], exact |-> exact] \in Entry
  BY <1>2 DEF Entry
<1> QED BY <1>3, AppendProperties

LEMMA DecodeType ==
  ASSUME NEW m \in Memory, NEW by, NEW toks \in Seq(Token), NEW first \in Int
  PROVE  DecodeTo(m, by, toks, first) \in Memory
<1> DEFINE last == StateAfter(m, by, toks, first, Len(toks))
<1>1. last \in State /\ Len(toks) \in Nat
  BY StateAfterType, LenProperties
<1>2. last.toks \in Seq(Token) /\ last.exact \in BOOLEAN
  BY <1>1 DEF State
<1> HIDE DEF last
<1>3. AttnAppend(m.attn, toks, first, last.exact) \in [Positions -> Seq(Entry)]
  BY <1>2, AttnAppendType DEF Memory
<1>4. [pos |-> first + Len(toks) - 1, toks |-> last.toks, exact |-> last.exact] \in Rec
  BY <1>1, <1>2 DEF Rec
<1>5. CapturedRows(m, by, toks, first) \in [1..Capacity -> State] /\ m.hist \in Hist
  BY CapturedRowsType DEF Memory
<1> QED BY <1>3, <1>4, <1>5 DEF Memory, DecodeTo, last

LEMMA SeqRmType ==
  ASSUME NEW m \in Memory, NEW p0 \in Int
  PROVE  SeqRmTo(m, p0) \in Memory
<1>1. AttnTrim(m.attn, p0) \in [Positions -> Seq(Entry)]
  BY EmptySeq DEF AttnTrim, Memory
<1>2. RecurrentRm(m.rec, p0) \in Rec
  BY EmptyTypes DEF RecurrentRm, Memory
<1> QED BY <1>1, <1>2 DEF SeqRmTo, Memory

LEMMA SnapshotType ==
  ASSUME NEW m \in Memory
  PROVE  SnapshotOf(m) \in Snap
BY AttnPosMaxType DEF SnapshotOf, SeqPosMax, Snap, Memory, Rec

LEMMA RestoreType ==
  ASSUME NEW m \in Memory, NEW s \in Snap
  PROVE  RestoreTo(m, s) \in Memory
<1>1. StateRead(m, s) \in Memory /\ s.first \in Int
  BY DEF StateRead, Memory, Snap
<1> QED BY <1>1, SeqRmType DEF RestoreTo

LEMMA HistoryTypes ==
  ASSUME NEW m \in Memory, NEW first \in Int, NEW tokens \in Int
  PROVE  /\ BeginTo(m, first, tokens) \in Memory
         /\ FinishTo(m) \in Memory
<1>1. BeginTo(m, first, tokens) \in Memory
  <2>1. m.hist \in Hist
    BY DEF Memory
  <2>2. CASE BeginAccepted(m, first, tokens)
    <3>1. tokens \in 0..Capacity
      BY <2>2, MemoryAssumption DEF BeginAccepted
    <3>2. [capturing |-> TRUE, valid |-> FALSE, first |-> first, tokens |-> tokens] \in Hist
      BY <3>1 DEF Hist
    <3> QED BY <2>2, <3>2 DEF BeginTo, Memory
  <2>3. CASE ~BeginAccepted(m, first, tokens)
    <3>1. [m.hist EXCEPT !.capturing = FALSE, !.valid = FALSE] \in Hist
      BY <2>1 DEF Hist
    <3> QED BY <2>3, <3>1 DEF BeginTo, Memory
  <2> QED BY <2>2, <2>3
<1>2. FinishTo(m) \in Memory
  BY DEF FinishTo, Memory, Hist
<1> QED BY <1>1, <1>2

LEMMA CommitType ==
  ASSUME NEW m \in Memory, NEW prefix \in Int
  PROVE  CommitTo(m, prefix) \in Memory
<1> SUFFICES ASSUME CommitAccepted(m, prefix)
             PROVE  CommitTo(m, prefix) \in Memory
  BY DEF CommitTo
<1>1. prefix \in 1..Capacity
  BY MemoryAssumption DEF CommitAccepted, Memory, Hist
<1>2. m.rows[prefix] \in State
  BY <1>1 DEF Memory
<1>3. CommittedRec(m, prefix) \in Rec
  BY <1>2 DEF CommittedRec, Memory, Rec, State, Hist
<1>4. AttnTrim(m.attn, CommittedRec(m, prefix).pos + 1) \in [Positions -> Seq(Entry)]
  BY EmptySeq DEF AttnTrim, Memory
<1>5. [m.hist EXCEPT !.valid = FALSE] \in Hist
  BY DEF Memory, Hist
<1> QED BY <1>3, <1>4, <1>5 DEF CommitTo, Memory

-----------------------------------------------------------------------------
(***************************************************************************)
(* Coherence.                                                              *)
(***************************************************************************)

(* A coherent memory ends where its recurrent state ends. *)
LEMMA CoherentPosMax ==
  ASSUME NEW m \in Memory, Coherent(m)
  PROVE  SeqPosMax(m) = Len(m.rec.toks) - 1
<1> DEFINE n == Len(m.rec.toks)
<1>1. n \in Nat /\ m.rec.pos = n - 1 /\ n <= Context
  BY LenProperties DEF Coherent, Memory, Rec
<1>2. ASSUME NEW p \in Positions
      PROVE  m.attn[p] # << >> <=> p < n
  <2>1. m.attn[p] = CellOf(m.rec.toks, p)
    BY DEF Coherent
  <2>2. CASE p < n
    <3>1. m.attn[p] = << [tok |-> m.rec.toks[p + 1], exact |-> TRUE] >>
      BY <2>1, <2>2 DEF CellOf
    <3> QED BY <3>1, <2>2
  <2>3. CASE ~(p < n)
    BY <2>1, <2>3 DEF CellOf
  <2> QED BY <2>2, <2>3
<1>3. AttnUsed(m) = {p \in Positions : p < n}
  BY <1>2 DEF AttnUsed
<1> HIDE DEF n
<1>4. CASE n = 0
  <2>1. AttnUsed(m) = {}
    BY <1>3, <1>4 DEF Positions
  <2> QED BY <1>1, <1>4, <2>1 DEF SeqPosMax, AttnPosMax, n
<1>5. CASE n > 0
  <2>1. n - 1 \in AttnUsed(m)
    BY <1>1, <1>3, <1>5, MemoryAssumption DEF Positions
  <2>2. AttnPosMax(m) \in AttnUsed(m) /\ n - 1 <= AttnPosMax(m)
    BY <2>1, AttnPosMaxIsMax
  <2>3. AttnPosMax(m) = n - 1
    BY <1>1, <1>3, <2>2 DEF Positions
  <2> QED BY <1>1, <2>3 DEF SeqPosMax, n
<1> QED BY <1>1, <1>4, <1>5

(* A snapshot of a coherent memory. *)
LEMMA SnapshotCoherent ==
  ASSUME NEW m \in Memory, Coherent(m)
  PROVE  SnapshotOf(m) = [first |-> Len(m.rec.toks), rec |-> m.rec]
<1>1. Len(m.rec.toks) \in Nat
  BY LenProperties DEF Memory, Rec
<1> QED BY <1>1, CoherentPosMax DEF SnapshotOf

(* What the cells of a batch that continues a coherent memory become.        *)
LEMMA AppendedCell ==
  ASSUME NEW s \in Seq(Token), NEW toks \in Seq(Token), NEW p \in Nat
  PROVE  CellOf(s \o toks, p) =
           IF Len(s) <= p /\ p < Len(s) + Len(toks)
           THEN Append(CellOf(s, p), [tok |-> toks[p - Len(s) + 1], exact |-> TRUE])
           ELSE CellOf(s, p)
<1> DEFINE all == s \o toks
<1>1. Len(s) \in Nat /\ Len(toks) \in Nat
  BY LenProperties
<1>2. Len(all) = Len(s) + Len(toks)
  BY ConcatProperties
<1>3. \A i \in 1..(Len(s) + Len(toks)) :
         all[i] = IF i <= Len(s) THEN s[i] ELSE toks[i - Len(s)]
  BY ConcatProperties
<1> HIDE DEF all
<1>4. CASE p < Len(s)
  <2>1. p + 1 \in 1..(Len(s) + Len(toks)) /\ p + 1 <= Len(s) /\ p < Len(s) + Len(toks)
    BY <1>1, <1>4
  <2>2. all[p + 1] = s[p + 1]
    BY <1>3, <2>1
  <2>3. CellOf(all, p) = << [tok |-> s[p + 1], exact |-> TRUE] >>
    BY <1>2, <2>1, <2>2 DEF CellOf
  <2>4. CellOf(s, p) = << [tok |-> s[p + 1], exact |-> TRUE] >>
    BY <1>4 DEF CellOf
  <2>5. ~(Len(s) <= p)
    BY <1>1, <1>4
  <2> QED BY <2>3, <2>4, <2>5 DEF all
<1>5. CASE Len(s) <= p /\ p < Len(s) + Len(toks)
  <2>1. /\ p + 1 \in 1..(Len(s) + Len(toks)) /\ ~(p + 1 <= Len(s))
        /\ (p + 1) - Len(s) = p - Len(s) + 1 /\ ~(p < Len(s))
    BY <1>1, <1>5
  <2>2. all[p + 1] = toks[p - Len(s) + 1]
    BY <1>3, <2>1
  <2>3. CellOf(all, p) = << [tok |-> toks[p - Len(s) + 1], exact |-> TRUE] >>
    BY <1>2, <1>5, <2>2 DEF CellOf
  <2>4. CellOf(s, p) = << >>
    BY <2>1 DEF CellOf
  <2>5. Append(<< >>, [tok |-> toks[p - Len(s) + 1], exact |-> TRUE])
          = << [tok |-> toks[p - Len(s) + 1], exact |-> TRUE] >>
    OBVIOUS
  <2> QED BY <1>5, <2>3, <2>4, <2>5 DEF all
<1>6. CASE Len(s) + Len(toks) <= p
  <2>1. ~(p < Len(s)) /\ ~(p < Len(s) + Len(toks))
    BY <1>1, <1>6
  <2> QED BY <1>2, <2>1 DEF CellOf, all
<1> QED BY <1>1, <1>4, <1>5, <1>6

(* A target batch that continues a coherent memory keeps it coherent.        *)
LEMMA DecodeCoherent ==
  ASSUME NEW m \in Memory, Coherent(m), NEW toks \in Seq(Token),
         NEW first, first = Len(m.rec.toks), first + Len(toks) <= Context
  PROVE  LET d == DecodeTo(m, "target", toks, first)
         IN  /\ Coherent(d)
             /\ d.rec.toks = m.rec.toks \o toks
             /\ d.rec.pos = first + Len(toks) - 1
             /\ d.hist = m.hist
<1> DEFINE d == DecodeTo(m, "target", toks, first)
<1> DEFINE all == m.rec.toks \o toks
<1>1. m.rec.toks \in Seq(Token) /\ first \in Nat /\ Len(toks) \in Nat
  BY LenProperties DEF Memory, Rec
<1>2. SubSeq(toks, 1, Len(toks)) = toks
  BY SubSeqFull
<1>3. ExactStep(m, "target", first)
  BY DEF ExactStep
<1>4. /\ StateAfter(m, "target", toks, first, Len(toks)).toks = all
      /\ StateAfter(m, "target", toks, first, Len(toks)).exact = TRUE
  BY <1>2, <1>3 DEF StateAfter
<1>5. /\ d.rec.pos = first + Len(toks) - 1 /\ d.rec.toks = all /\ d.rec.exact = TRUE
      /\ d.hist = m.hist
  BY <1>4 DEF DecodeTo
<1>6. d.attn = AttnAppend(m.attn, toks, first, TRUE)
  BY <1>4 DEF DecodeTo
<1>7. Len(all) = first + Len(toks)
  BY <1>1, ConcatProperties
<1>8. ASSUME NEW p \in Positions
      PROVE  d.attn[p] = CellOf(all, p)
  <2>1. p \in Nat
    BY DEF Positions
  <2>2. m.attn[p] = CellOf(m.rec.toks, p)
    BY DEF Coherent
  <2>3. d.attn[p] = IF first <= p /\ p < first + Len(toks)
                    THEN Append(m.attn[p], [tok |-> toks[p - first + 1], exact |-> TRUE])
                    ELSE m.attn[p]
    BY <1>6 DEF AttnAppend
  <2>4. CellOf(m.rec.toks \o toks, p) =
          IF Len(m.rec.toks) <= p /\ p < Len(m.rec.toks) + Len(toks)
          THEN Append(CellOf(m.rec.toks, p),
                      [tok |-> toks[p - Len(m.rec.toks) + 1], exact |-> TRUE])
          ELSE CellOf(m.rec.toks, p)
    BY <1>1, <2>1, AppendedCell, Zenon
  <2> HIDE DEF d
  <2> QED BY <2>2, <2>3, <2>4
<1> HIDE DEF d, all
<1>9. Coherent(d)
  BY <1>1, <1>5, <1>7, <1>8 DEF Coherent
<1> QED BY <1>5, <1>9 DEF d, all

(* Cutting a coherent memory's attention cells behind the first n tokens and *)
(* putting the exact state of those n tokens in the live cell.               *)
LEMMA TrimmedCell ==
  ASSUME NEW s \in Seq(Token), NEW n \in 0..Len(s), NEW p \in Nat
  PROVE  CellOf(SubSeq(s, 1, n), p) = IF p >= n THEN << >> ELSE CellOf(s, p)
<1>1. Len(s) \in Nat
  BY LenProperties
<1>2. Len(SubSeq(s, 1, n)) = n /\ \A i \in 1..n : SubSeq(s, 1, n)[i] = s[i]
  BY <1>1, SubSeqProperties
<1>3. CASE p >= n
  <2>1. ~(p < n)
    BY <1>1, <1>3
  <2> QED BY <1>2, <1>3, <2>1 DEF CellOf
<1>4. CASE p < n
  <2>1. p < Len(s) /\ p + 1 \in 1..n /\ ~(p >= n)
    BY <1>1, <1>4
  <2>2. SubSeq(s, 1, n)[p + 1] = s[p + 1]
    BY <1>2, <2>1
  <2> QED BY <1>2, <1>4, <2>1, <2>2 DEF CellOf
<1> QED BY <1>1, <1>3, <1>4

LEMMA TrimCoherent ==
  ASSUME NEW m \in Memory, Coherent(m), NEW n \in 0..Len(m.rec.toks),
         NEW c \in Memory, c.rec.exact, c.rec.pos = n - 1,
         c.rec.toks = SubSeq(m.rec.toks, 1, n),
         c.attn = AttnTrim(m.attn, n)
  PROVE  Coherent(c)
<1>1. m.rec.toks \in Seq(Token) /\ Len(m.rec.toks) \in Nat
  BY LenProperties DEF Memory, Rec
<1>2. Len(m.rec.toks) <= Context
  BY DEF Coherent
<1>3. Len(c.rec.toks) = n
  BY <1>1, SubSeqProperties
<1>4. ASSUME NEW p \in Positions
      PROVE  c.attn[p] = CellOf(c.rec.toks, p)
  <2>1. p \in Nat /\ m.attn[p] = CellOf(m.rec.toks, p)
    BY DEF Coherent, Positions
  <2>2. c.attn[p] = IF p >= n THEN << >> ELSE m.attn[p]
    BY DEF AttnTrim
  <2> QED BY <1>1, <2>1, <2>2, TrimmedCell
<1> QED BY <1>1, <1>2, <1>3, <1>4, MemoryAssumption DEF Coherent

(* Restoring the snapshot of a coherent memory onto any memory that still    *)
(* holds its attention cells brings the coherent memory back.                *)
LEMMA RestoreCoherent ==
  ASSUME NEW m \in Memory, NEW s \in Snap,
         s.rec.exact, s.first = Len(s.rec.toks), s.rec.pos = s.first - 1,
         s.first <= Context,
         \A p \in Positions : p < s.first => m.attn[p] = CellOf(s.rec.toks, p)
  PROVE  /\ RestoreAccepted(m, s)
         /\ Coherent(RestoreTo(m, s))
         /\ RestoreTo(m, s).rec = s.rec
<1>1. s.first \in Nat
  BY LenProperties DEF Snap, Rec
<1>2. StateRead(m, s).rec = s.rec /\ StateRead(m, s).attn = m.attn
  BY DEF StateRead, Memory
<1>3. RestoreAccepted(m, s)
  BY <1>1, <1>2 DEF RestoreAccepted, SeqRmAccepted, RecurrentRmRefused
<1>4. RecurrentRm(s.rec, s.first) = s.rec
  BY <1>1 DEF RecurrentRm
<1>5. RestoreTo(m, s).rec = s.rec /\ RestoreTo(m, s).attn = AttnTrim(m.attn, s.first)
  BY <1>2, <1>3, <1>4 DEF RestoreTo, RestoreAccepted, SeqRmTo
<1>6. ASSUME NEW p \in Positions
      PROVE  AttnTrim(m.attn, s.first)[p] = CellOf(s.rec.toks, p)
  <2>1. p \in Nat
    BY DEF Positions
  <2>2. AttnTrim(m.attn, s.first)[p] = IF p >= s.first THEN << >> ELSE m.attn[p]
    BY DEF AttnTrim
  <2>3. CASE p < s.first
    <3>1. ~(p >= s.first)
      BY <1>1, <2>1, <2>3
    <3> QED BY <2>2, <2>3, <3>1
  <2>4. CASE p >= s.first
    <3>1. ~(p < Len(s.rec.toks))
      BY <1>1, <2>1, <2>4
    <3> QED BY <2>2, <2>4, <3>1 DEF CellOf
  <2> QED BY <1>1, <2>1, <2>3, <2>4
<1> QED BY <1>3, <1>5, <1>6 DEF Coherent

(* Cells below the batch, and below the position a snapshot restores to, are *)
(* left alone.                                                               *)
LEMMA DecodeSpares ==
  ASSUME NEW m \in Memory, NEW by, NEW toks \in Seq(Token), NEW first \in Int,
         NEW p \in Positions, p < first
  PROVE  DecodeTo(m, by, toks, first).attn[p] = m.attn[p]
BY DEF DecodeTo, AttnAppend, Positions

LEMMA RestoreSpares ==
  ASSUME NEW m \in Memory, NEW s \in Snap, NEW p \in Positions, p < s.first
  PROVE  RestoreTo(m, s).attn[p] = m.attn[p]
BY DEF RestoreTo, SeqRmTo, AttnTrim, StateRead, Memory, Snap, Positions

(* A snapshot taken right after a decode at position q is above q.           *)
LEMMA SnapshotAbove ==
  ASSUME NEW m \in Memory, NEW by, NEW t \in Token, NEW q \in Nat, q < Context
  PROVE  SnapshotOf(DecodeTo(m, by, << t >>, q)).first > q
<1> DEFINE d == DecodeTo(m, by, << t >>, q)
<1>1. q \in Positions /\ << t >> \in Seq(Token) /\ Len(<< t >>) = 1 /\ q \in Int
  BY MemoryAssumption DEF Positions
<1>2. d.rec.pos = q
  BY <1>1 DEF DecodeTo
<1>3. m.attn[q] \in Seq(Entry)
  BY <1>1 DEF Memory
<1>4. DEFINE x == StateAfter(m, by, << t >>, q, 1).exact
<1>5. x \in BOOLEAN
  BY <1>1 DEF StateAfter, ExactStep, Coherent
<1>6. DEFINE e == [tok |-> << t >>[q - q + 1], exact |-> x]
<1>7. d.attn[q] = Append(m.attn[q], e)
  BY <1>1 DEF DecodeTo, AttnAppend
<1>8. e \in Entry
  BY <1>1, <1>5 DEF Entry
<1> HIDE DEF e, x, d
<1>9. d.attn[q] # << >>
  BY <1>3, <1>7, <1>8, AppendProperties
<1>10. q \in AttnUsed(d)
  BY <1>1, <1>9 DEF AttnUsed
<1>11. AttnPosMax(d) \in Int /\ q <= AttnPosMax(d)
  BY <1>10, AttnPosMaxIsMax, AttnPosMaxType
<1> QED BY <1>2, <1>11 DEF SnapshotOf, SeqPosMax, d

-----------------------------------------------------------------------------
(***************************************************************************)
(* The target on a coherent memory.                                        *)
(***************************************************************************)
LEMMA FreshCoherent == Coherent(FreshMemory)
<1>1. \A p \in Positions : ~(p < 0)
  BY MemoryAssumption DEF Positions
<1> QED BY <1>1, MemoryAssumption, EmptySeq DEF Coherent, FreshMemory, EmptyRec, CellOf

LEMMA ExactAfter ==
  ASSUME NEW m \in Memory, Coherent(m), NEW toks \in Seq(Token),
         NEW first, first = Len(m.rec.toks), NEW i \in 0..Len(toks)
  PROVE  StateAfter(m, "target", toks, first, i) = ExactState(m.rec.toks \o toks, first + i)
<1>1. m.rec.toks \in Seq(Token)
  BY DEF Memory, Rec
<1>2. m.rec.toks \o SubSeq(toks, 1, i) = SubSeq(m.rec.toks \o toks, 1, first + i)
  BY <1>1, PrefixOfConcat
<1>3. ExactStep(m, "target", first) = TRUE
  BY DEF ExactStep, Coherent
<1> QED BY <1>2, <1>3 DEF StateAfter, ExactState

LEMMA ExactOutputs ==
  ASSUME NEW m \in Memory, Coherent(m), NEW toks \in Seq(Token),
         NEW first, first = Len(m.rec.toks), NEW i \in 1..Len(toks)
  PROVE  Outputs(m, "target", toks, first)[i] = ExactState(m.rec.toks \o toks, first + i)
<1>1. i \in 0..Len(toks)
  BY LenProperties
<1> QED BY <1>1, ExactAfter DEF Outputs

LEMMA WholeState ==
  ASSUME NEW s \in Seq(Token)
  PROVE  ExactState(s, Len(s)) = [toks |-> s, exact |-> TRUE]
BY SubSeqFull DEF ExactState

-----------------------------------------------------------------------------
(***************************************************************************)
(* The same without exactness: a memory that has read the tokens s.        *)
(***************************************************************************)
LEMMA AlignedPosMax ==
  ASSUME NEW m \in Memory, NEW s \in Seq(Token), Aligned(m, s)
  PROVE  SeqPosMax(m) = Len(s) - 1
<1> DEFINE n == Len(s)
<1>1. n \in Nat /\ m.rec.pos = n - 1 /\ n <= Context
  BY LenProperties DEF Aligned
<1>2. ASSUME NEW p \in Positions
      PROVE  m.attn[p] # << >> <=> p < n
  <2>1. CASE p < n
    <3>1. Len(m.attn[p]) = 1
      BY <2>1 DEF Aligned, HoldsBelow, HoldsToken
    <3>2. m.attn[p] = << >> => Len(m.attn[p]) = 0
      BY EmptySeq, Zenon
    <3>3. m.attn[p] # << >>
      BY <3>1, <3>2
    <3> QED BY <2>1, <3>3
  <2>2. CASE p >= n
    <3>1. ~(p < n)
      BY <1>1, <2>2 DEF Positions
    <3> QED BY <2>2, <3>1 DEF Aligned
  <2> QED BY <1>1, <2>1, <2>2 DEF Positions
<1>3. AttnUsed(m) = {p \in Positions : p < n}
  BY <1>2 DEF AttnUsed
<1> HIDE DEF n
<1>4. CASE n = 0
  <2>1. AttnUsed(m) = {}
    BY <1>3, <1>4 DEF Positions
  <2> QED BY <1>1, <1>4, <2>1 DEF SeqPosMax, AttnPosMax, n
<1>5. CASE n > 0
  <2>1. n - 1 \in AttnUsed(m)
    BY <1>1, <1>3, <1>5, MemoryAssumption DEF Positions
  <2>2. AttnPosMax(m) \in AttnUsed(m) /\ n - 1 <= AttnPosMax(m)
    BY <2>1, AttnPosMaxIsMax
  <2>3. AttnPosMax(m) = n - 1
    BY <1>1, <1>3, <2>2 DEF Positions
  <2> QED BY <1>1, <2>3 DEF SeqPosMax, n
<1> QED BY <1>1, <1>4, <1>5

LEMMA SnapshotAligned ==
  ASSUME NEW m \in Memory, NEW s \in Seq(Token), Aligned(m, s)
  PROVE  /\ SnapshotOf(m).first = Len(s) /\ SnapshotOf(m).rec.pos = Len(s) - 1
         /\ SnapshotOf(m).rec.toks = s
<1>1. Len(s) \in Nat
  BY LenProperties
<1> QED BY <1>1, AlignedPosMax DEF SnapshotOf, Aligned

(* The next batch is accepted behind s and read to its end. *)
LEMMA DecodeNext ==
  ASSUME NEW m \in Memory, NEW s \in Seq(Token), Aligned(m, s),
         NEW toks \in Seq(Token), toks # << >>, Len(s) + Len(toks) <= Context,
         m.hist.capturing => /\ Len(toks) = m.hist.tokens
                             /\ Len(s) = m.hist.first
                             /\ Len(toks) <= Ubatch
  PROVE  DecodeAccepted(m, toks, Len(s))
<1>1. SeqPosMax(m) = Len(s) - 1 /\ Len(s) \in Nat
  BY AlignedPosMax, LenProperties
<1> QED BY <1>1 DEF DecodeAccepted

LEMMA HoldsExtended ==
  ASSUME NEW m \in Memory, NEW s \in Seq(Token), NEW t \in Seq(Token),
         HoldsBelow(m, s \o t)
  PROVE  HoldsBelow(m, s)
<1>1. /\ Len(s \o t) = Len(s) + Len(t) /\ Len(s) \in Nat /\ Len(t) \in Nat
      /\ \A i \in 1..(Len(s) + Len(t)) : (s \o t)[i] = IF i <= Len(s) THEN s[i] ELSE t[i - Len(s)]
  BY ConcatProperties, LenProperties
<1> SUFFICES ASSUME NEW p \in Positions, p < Len(s) PROVE HoldsToken(m, s, p)
  BY DEF HoldsBelow
<1>2. p \in Nat /\ p < Len(s \o t) /\ p + 1 \in 1..(Len(s) + Len(t)) /\ p + 1 <= Len(s)
  BY <1>1 DEF Positions
<1>3. (s \o t)[p + 1] = s[p + 1]
  BY <1>1, <1>2
<1> QED BY <1>2, <1>3 DEF HoldsBelow, HoldsToken

LEMMA DecodeAligned ==
  ASSUME NEW m \in Memory, NEW s \in Seq(Token), Aligned(m, s), NEW by,
         NEW toks \in Seq(Token), Len(s) + Len(toks) <= Context
  PROVE  LET d == DecodeTo(m, by, toks, Len(s))
         IN  /\ d \in Memory /\ Aligned(d, s \o toks) /\ d.hist = m.hist
             /\ Len(s \o toks) = Len(s) + Len(toks)
             /\ HoldsBelow(d, s)
<1> DEFINE n == Len(s)
           d == DecodeTo(m, by, toks, n)
           all == s \o toks
           ex == StateAfter(m, by, toks, n, Len(toks)).exact
<1>1. n \in Nat /\ Len(toks) \in Nat /\ m.rec.toks = s /\ n \in Int
  BY LenProperties DEF Aligned
<1>2. StateAfter(m, by, toks, n, Len(toks)).toks = all
  BY <1>1, SubSeqFull DEF StateAfter
<1>3. /\ d.rec.pos = n + Len(toks) - 1 /\ d.rec.toks = all /\ d.hist = m.hist
      /\ d.attn = AttnAppend(m.attn, toks, n, ex)
  BY <1>2 DEF DecodeTo
<1>4. d \in Memory
  BY <1>1, DecodeType
<1>5. /\ all \in Seq(Token) /\ Len(all) = n + Len(toks)
      /\ \A i \in 1..(n + Len(toks)) : all[i] = IF i <= n THEN s[i] ELSE toks[i - n]
  BY ConcatProperties
<1> HIDE DEF d, all, ex
<1>6. ASSUME NEW p \in Positions, p < n + Len(toks)
      PROVE  HoldsToken(d, all, p)
  <2>1. p \in Nat /\ p + 1 \in 1..(n + Len(toks))
    BY <1>1, <1>6 DEF Positions
  <2>2. CASE p < n
    <3>1. d.attn[p] = m.attn[p]
      BY <1>1, <1>3, <2>1, <2>2 DEF AttnAppend
    <3>2. HoldsToken(m, s, p)
      BY <2>2 DEF Aligned, HoldsBelow
    <3>3. all[p + 1] = s[p + 1]
      BY <1>1, <1>5, <2>1, <2>2
    <3> QED BY <3>1, <3>2, <3>3 DEF HoldsToken
  <2>3. CASE p >= n
    <3> DEFINE e == [tok |-> toks[p - n + 1], exact |-> ex]
    <3>1. m.attn[p] = << >>
      BY <2>3 DEF Aligned
    <3>2. d.attn[p] = Append(m.attn[p], e)
      BY <1>3, <1>6, <2>3 DEF AttnAppend
    <3>3. e.tok = toks[p - n + 1]
      OBVIOUS
    <3> HIDE DEF e
    <3>4. Len(d.attn[p]) = 1 /\ d.attn[p][1] = e
      BY <3>1, <3>2
    <3>5. all[p + 1] = toks[p - n + 1]
      <4>1. ~(p + 1 <= n) /\ p + 1 - n = p - n + 1
        BY <1>1, <2>1, <2>3
      <4> QED BY <1>5, <2>1, <4>1
    <3> QED BY <3>3, <3>4, <3>5 DEF HoldsToken
  <2> QED BY <1>1, <2>1, <2>2, <2>3
<1>7. ASSUME NEW p \in Positions, p >= n + Len(toks)
      PROVE  d.attn[p] = << >>
  <2>1. p \in Nat /\ p >= n /\ ~(p < n + Len(toks))
    BY <1>1, <1>7 DEF Positions
  <2>2. d.attn[p] = m.attn[p]
    BY <1>3, <2>1 DEF AttnAppend
  <2> QED BY <2>1, <2>2 DEF Aligned
<1>8. HoldsBelow(d, all)
  BY <1>5, <1>6 DEF HoldsBelow
<1>9. HoldsBelow(d, s)
  BY <1>4, <1>8, HoldsExtended DEF all
<1>10. Aligned(d, all)
  BY <1>3, <1>5, <1>7, <1>8 DEF Aligned
<1> QED BY <1>3, <1>4, <1>5, <1>9, <1>10 DEF d, all

(* Restoring a snapshot of the tokens s onto a memory that still holds them. *)
LEMMA RestoreAligned ==
  ASSUME NEW m \in Memory, NEW sn \in Snap, NEW s \in Seq(Token), HoldsBelow(m, s),
         sn.first = Len(s), sn.rec.pos = Len(s) - 1, sn.rec.toks = s, Len(s) <= Context
  PROVE  /\ RestoreAccepted(m, sn) /\ RestoreTo(m, sn) \in Memory
         /\ Aligned(RestoreTo(m, sn), s) /\ RestoreTo(m, sn).hist = m.hist
<1>1. Len(s) \in Nat
  BY LenProperties
<1>2. /\ StateRead(m, sn).rec = sn.rec /\ StateRead(m, sn).attn = m.attn
      /\ StateRead(m, sn).hist = m.hist
  BY DEF StateRead, Memory
<1>3. RestoreAccepted(m, sn)
  BY <1>1, <1>2 DEF RestoreAccepted, SeqRmAccepted, RecurrentRmRefused
<1>4. RecurrentRm(sn.rec, sn.first) = sn.rec
  BY <1>1 DEF RecurrentRm
<1>5. /\ RestoreTo(m, sn).rec = sn.rec /\ RestoreTo(m, sn).attn = AttnTrim(m.attn, Len(s))
      /\ RestoreTo(m, sn).hist = m.hist
  BY <1>2, <1>3, <1>4 DEF RestoreTo, RestoreAccepted, SeqRmTo
<1>6. RestoreTo(m, sn) \in Memory
  BY RestoreType
<1> DEFINE c == RestoreTo(m, sn)
<1> HIDE DEF c
<1>7. ASSUME NEW p \in Positions
      PROVE  /\ p < Len(s) => c.attn[p] = m.attn[p]
             /\ p >= Len(s) => c.attn[p] = << >>
  BY <1>1, <1>5 DEF AttnTrim, Positions, c
<1>8. HoldsBelow(c, s)
  BY <1>7 DEF HoldsBelow, HoldsToken
<1>9. Aligned(c, s)
  BY <1>5, <1>7, <1>8 DEF Aligned, c
<1> QED BY <1>3, <1>5, <1>6, <1>9 DEF c

(* Cutting off what lies behind the first n tokens.                          *)
LEMMA TrimAligned ==
  ASSUME NEW m \in Memory, NEW s \in Seq(Token), Aligned(m, s), NEW n \in 0..Len(s),
         NEW c \in Memory, c.rec.pos = n - 1, c.rec.toks = SubSeq(s, 1, n),
         c.attn = AttnTrim(m.attn, n)
  PROVE  Aligned(c, SubSeq(s, 1, n))
<1> DEFINE k == SubSeq(s, 1, n)
<1>1. /\ k \in Seq(Token) /\ Len(k) = n /\ \A i \in 1..n : k[i] = s[i]
      /\ Len(s) \in Nat /\ n \in Nat /\ n <= Len(s) /\ Len(s) <= Context
  BY PrefixLen, LenProperties DEF Aligned
<1> HIDE DEF k
<1>2. ASSUME NEW p \in Positions, p < n
      PROVE  HoldsToken(c, k, p)
  <2>1. p \in Nat /\ p < Len(s) /\ p + 1 \in 1..n /\ ~(p >= n)
    BY <1>1, <1>2 DEF Positions
  <2>2. c.attn[p] = m.attn[p] /\ k[p + 1] = s[p + 1]
    BY <1>1, <2>1 DEF AttnTrim
  <2>3. HoldsToken(m, s, p)
    BY <2>1 DEF Aligned, HoldsBelow
  <2> QED BY <2>2, <2>3 DEF HoldsToken
<1>3. ASSUME NEW p \in Positions, p >= n PROVE c.attn[p] = << >>
  BY <1>3 DEF AttnTrim
<1>4. n <= Context
  BY <1>1, MemoryAssumption
<1>5. c.rec.toks = k
  BY DEF k
<1>6. Aligned(c, k)
  BY <1>1, <1>2, <1>3, <1>4, <1>5 DEF Aligned, HoldsBelow
<1> QED BY <1>6 DEF k
=============================================================================
