------------------------ MODULE HistoryClient_proofs ------------------------
(***************************************************************************)
(* A caller that commits a history right after it finished it may call the *)
(* memory API in any order: its answers tell the truth for every           *)
(* vocabulary, context, history capacity and batch size.                   *)
(***************************************************************************)
EXTENDS HistoryClient, HybridMemory_proofs

(***************************************************************************)
(* What the calls do to a coherent memory.                                 *)
(***************************************************************************)

(* The rows captured while the target decodes the announced batch.           *)
LEMMA RowsCaptured ==
  ASSUME NEW m \in Memory, Coherent(m), NEW toks \in Seq(Token),
         NEW first, first = Len(m.rec.toks),
         m.hist.capturing, Len(toks) = m.hist.tokens, m.hist.tokens > 1,
         NEW i \in 1..m.hist.tokens
  PROVE  DecodeTo(m, "target", toks, first).rows[i]
           = ExactState(m.rec.toks \o toks, first + i)
<1>1. m.hist.tokens \in 0..Capacity
  BY DEF Memory, Hist
<1>2. i \in 1..Capacity /\ i <= Len(toks) /\ i \in 0..Len(toks)
  BY <1>1, MemoryAssumption
<1>3. DecodeTo(m, "target", toks, first).rows[i] = StateAfter(m, "target", toks, first, i)
  BY <1>2 DEF DecodeTo, CapturedRows
<1> QED BY <1>2, <1>3, ExactAfter

(* A removal behind the last position changes nothing.                       *)
LEMMA RemoveBehind ==
  ASSUME NEW m \in Memory, Coherent(m), NEW p0 \in Nat, p0 > m.rec.pos
  PROVE  SeqRmAccepted(m, p0) /\ SeqRmTo(m, p0) = m
<1>1. /\ m.rec.pos = Len(m.rec.toks) - 1 /\ Len(m.rec.toks) \in Nat
      /\ m.attn \in [Positions -> Seq(Entry)]
  BY LenProperties DEF Memory, Rec, Coherent
<1>2. SeqRmAccepted(m, p0) /\ RecurrentRm(m.rec, p0) = m.rec
  BY <1>1 DEF SeqRmAccepted, RecurrentRmRefused, RecurrentRm
<1>3. ASSUME NEW p \in Positions, p >= p0
      PROVE  m.attn[p] = << >>
  <2>1. ~(p < Len(m.rec.toks))
    BY <1>1, <1>3 DEF Positions
  <2> QED BY <2>1 DEF Coherent, CellOf
<1>4. AttnTrim(m.attn, p0) = m.attn
  BY <1>1, <1>3 DEF AttnTrim
<1> QED BY <1>2, <1>4 DEF SeqRmTo, Memory

(* Removing every position leaves an empty sequence, whatever was there.     *)
LEMMA EmptyCoherent ==
  ASSUME NEW m, m.rec = EmptyRec, m.attn = [p \in Positions |-> << >>]
  PROVE  Coherent(m) /\ m.rec.toks = << >>
<1>1. \A p \in Positions : ~(p < 0)
  BY MemoryAssumption DEF Positions
<1> QED BY <1>1, MemoryAssumption DEF Coherent, EmptyRec, CellOf

LEMMA RemoveAll ==
  ASSUME NEW m \in Memory, m.rec.pos < 0 => m.rec = EmptyRec
  PROVE  /\ SeqRmAccepted(m, 0)
         /\ Coherent(SeqRmTo(m, 0))
         /\ SeqRmTo(m, 0).rec = EmptyRec
         /\ SeqRmTo(m, 0).rec.toks = << >>
         /\ SeqRmTo(m, 0).hist = m.hist
<1>1. m.rec.pos \in Int
  BY DEF Memory, Rec
<1>2. SeqRmAccepted(m, 0) /\ RecurrentRm(m.rec, 0) = EmptyRec
  BY <1>1 DEF SeqRmAccepted, RecurrentRmRefused, RecurrentRm
<1>3. AttnTrim(m.attn, 0) = [p \in Positions |-> << >>]
  BY DEF AttnTrim, Positions
<1>4. /\ SeqRmTo(m, 0).rec = EmptyRec /\ SeqRmTo(m, 0).hist = m.hist
      /\ SeqRmTo(m, 0).attn = [p \in Positions |-> << >>]
  BY <1>2, <1>3 DEF SeqRmTo
<1> QED BY <1>2, <1>4, EmptyCoherent

LEMMA Cleared ==
  ASSUME NEW m \in Memory
  PROVE  /\ ClearTo(m) \in Memory /\ Coherent(ClearTo(m))
         /\ ClearTo(m).rec = EmptyRec /\ ClearTo(m).rec.toks = << >>
         /\ ~ClearTo(m).hist.capturing
<1>1. [m.hist EXCEPT !.capturing = FALSE, !.valid = FALSE] \in Hist
  BY DEF Memory, Hist
<1>2. ClearTo(m) \in Memory
  BY <1>1, EmptySeq, EmptyTypes DEF ClearTo, Memory
<1>3. ClearTo(m).rec = EmptyRec /\ ClearTo(m).attn = [p \in Positions |-> << >>]
  BY DEF ClearTo
<1>4. ~ClearTo(m).hist.capturing
  BY DEF ClearTo, Memory, Hist
<1> QED BY <1>2, <1>3, <1>4, EmptyCoherent

(* A batch that fails on the way keeps the history and leaves an empty       *)
(* recurrent state or one that has a position.                               *)
LEMMA DecodeFailedKeeps ==
  ASSUME NEW m \in Memory, NEW toks \in Seq(Token), toks # << >>, NEW first \in Nat
  PROVE  LET d == DecodeFailedTo(m, toks, first)
         IN  /\ d \in Memory
             /\ d.rec.pos < 0 => d.rec = EmptyRec
             /\ d.hist = m.hist
<1> DEFINE f == DecodeTo(m, "failed", toks, first)
<1>1. Len(toks) \in Nat \ {0} /\ f \in Memory
  BY EmptySeq, DecodeType
<1>2. f.rec.pos = first + Len(toks) - 1 /\ f.hist = m.hist
  BY DEF DecodeTo
<1>3. f.rec.pos >= 0 /\ f.rec.pos \in Int
  BY <1>1, <1>2
<1> HIDE DEF f
<1>4. SeqRmTo(f, first) \in Memory /\ SeqRmTo(f, first).hist = m.hist
  BY <1>1, <1>2, SeqRmType DEF SeqRmTo
<1>5. SeqRmTo(f, first).rec = EmptyRec \/ SeqRmTo(f, first).rec = f.rec
  BY DEF SeqRmTo, RecurrentRm
<1> QED BY <1>3, <1>4, <1>5 DEF DecodeFailedTo, f

(* A commit in time leaves the accepted prefix.                              *)
LEMMA Committed ==
  ASSUME NEW m \in Memory, Coherent(m), NEW prefix \in Nat, CommitAccepted(m, prefix),
         m.hist.first >= 0, Len(m.rec.toks) = m.hist.first + m.hist.tokens,
         m.hist.tokens > 1 =>
           \A i \in 1..m.hist.tokens : m.rows[i] = ExactState(m.rec.toks, m.hist.first + i)
  PROVE  LET d == CommitTo(m, prefix)
         IN  /\ Coherent(d)
             /\ d.rec.toks = SubSeq(m.rec.toks, 1, m.hist.first + prefix)
             /\ d.rec.pos >= 0
             /\ d.hist.capturing = m.hist.capturing
<1> DEFINE d == CommitTo(m, prefix)
           n == m.hist.first + prefix
           r == CommittedRec(m, prefix)
<1>1. /\ m.rec.toks \in Seq(Token) /\ Len(m.rec.toks) \in Nat
      /\ m.hist.first \in Int /\ m.hist.tokens \in Nat /\ m.hist \in Hist
  BY LenProperties, MemoryAssumption DEF Memory, Rec, Hist
<1>2. prefix \in 1..m.hist.tokens
  BY DEF CommitAccepted
<1>3. n \in 0..Len(m.rec.toks) /\ n >= 1 /\ n \in Int
  BY <1>1, <1>2
<1>4. /\ d.rec = r /\ d.attn = AttnTrim(m.attn, r.pos + 1)
      /\ d.hist.capturing = m.hist.capturing
  BY <1>1 DEF CommitTo, Hist
<1>5. r.exact /\ r.pos = n - 1 /\ r.toks = SubSeq(m.rec.toks, 1, n)
  <2>1. CASE m.hist.tokens = 1
    <3>1. r = m.rec /\ n = Len(m.rec.toks)
      BY <1>1, <1>2, <2>1 DEF CommittedRec
    <3> QED BY <1>1, <3>1, SubSeqFull DEF Coherent
  <2>2. CASE m.hist.tokens # 1
    <3>1. m.hist.tokens > 1
      BY <1>1, <1>2, <2>2
    <3>2. m.rows[prefix] = ExactState(m.rec.toks, n)
      BY <1>2, <3>1
    <3> DEFINE row == m.rows[prefix]
               end == m.hist.first + prefix - 1
    <3>3. r = [pos |-> end, toks |-> row.toks, exact |-> row.exact]
      BY <2>2 DEF CommittedRec
    <3> HIDE DEF n, row, r, end
    <3>4. row = [toks |-> SubSeq(m.rec.toks, 1, n), exact |-> TRUE]
      BY <3>2 DEF ExactState, row
    <3>5. row.toks = SubSeq(m.rec.toks, 1, n)
      BY <3>4
    <3>6. row.exact = TRUE
      BY <3>4
    <3>7. r.toks = row.toks
      BY <3>3
    <3>8. r.exact = row.exact
      BY <3>3
    <3>9. r.pos = end
      BY <3>3
    <3>10. r.exact
      BY <3>6, <3>8
    <3>11. end = n - 1
      BY SMTT(60), <1>1 DEF n, end
    <3> QED BY <3>5, <3>7, <3>9, <3>10, <3>11
  <2> QED BY <2>1, <2>2
<1>6. d \in Memory
  BY CommitType
<1> HIDE DEF d, n, r
<1>7. d.attn = AttnTrim(m.attn, n)
  BY <1>3, <1>4, <1>5
<1>8. Coherent(d)
  BY <1>3, <1>4, <1>5, <1>6, <1>7, TrimCoherent
<1> QED BY <1>3, <1>4, <1>5, <1>8 DEF d, n

(* The cells of a prefix are cells of the sequence.                          *)
LEMMA PrefixSeen ==
  ASSUME NEW s \in Seq(Token), NEW t \in Seq(Token), IsPrefix(s, t)
  PROVE  /\ Len(s) <= Len(t)
         /\ Len(s) = Len(t) => s = t
         /\ \A p \in Positions : p < Len(s) => CellOf(t, p) = CellOf(s, p)
<1> DEFINE n == Len(s)
<1>1. n \in Nat /\ Len(t) \in Nat /\ n <= Len(t) /\ SubSeq(s, 1, n) = s
      /\ SubSeq(t, 1, n) = s
  BY LenProperties, SubSeqFull DEF IsPrefix
<1>2. n \in 0..Len(t)
  BY <1>1
<1>3. \A i \in 1..n : s[i] = t[i]
  BY <1>1, <1>2, PrefixLen
<1>4. n = Len(t) => s = t
  BY <1>1, SubSeqFull
<1>5. ASSUME NEW p \in Positions, p < n
      PROVE  CellOf(t, p) = CellOf(s, p)
  <2>1. p + 1 \in 1..n /\ p < Len(t)
    BY <1>1, <1>5 DEF Positions
  <2> QED BY <1>3, <1>5, <2>1 DEF CellOf
<1> QED BY <1>1, <1>4, <1>5

-----------------------------------------------------------------------------
(***************************************************************************)
(* The calls keep the invariant.                                           *)
(***************************************************************************)
LEMMA ClientInit == Init => ClientInv
<1> SUFFICES ASSUME Init PROVE ClientInv
  OBVIOUS
<1>1. mem \in Memory /\ Coherent(mem) /\ mem.rec = EmptyRec /\ mem.rec.toks = << >>
  BY EmptyTypes, FreshCoherent DEF Init, FreshMemory, EmptyRec
<1>2. ~mem.hist.capturing
  BY DEF Init, FreshMemory, NoHistory
<1>3. ClientTypeOK
  <2>1. [first |-> -1, rec |-> EmptyRec] \in Snap
    BY EmptyTypes DEF Snap
  <2>2. saved \in [snap : Snap, view : Seq(Token)]
    BY <2>1, EmptySeq DEF Init, NoSaved
  <2> QED BY <1>1, <2>2, EmptySeq DEF Init, ClientTypeOK
<1> QED BY <1>1, <1>2, <1>3
        DEF Init, ClientInv, AnswersTellTruth, Holds, CaptureKept, FreshKept, SavedKept

(* What the invariant says between the calls of a caller that lost nothing.  *)
LEMMA ClientFacts ==
  ASSUME ClientInv
  PROVE  /\ mem \in Memory /\ view \in Seq(Token) /\ Len(view) \in Nat
         /\ mem.rec.pos \in Int /\ mem.hist \in Hist
         /\ mem.hist.first \in Int /\ mem.hist.tokens \in 0..Capacity
         /\ mem.hist.capturing \in BOOLEAN
         /\ ~lost => /\ mem.rec.toks = view /\ Coherent(mem) /\ Len(view) <= Context
                     /\ mem.rec.pos = Len(view) - 1
BY LenProperties
   DEF ClientInv, ClientTypeOK, AnswersTellTruth, Holds, Coherent, Memory, Rec, Hist

(* A call that was refused, or changed nothing.                              *)
LEMMA UnmovedKeeps ==
  ASSUME ClientInv, mem' = mem, view' = view, saved' = saved, lost' = lost,
         fresh' = fresh \/ fresh' = FALSE
  PROVE  ClientInv'
<1>1. ClientTypeOK' /\ AnswersTellTruth' /\ (mem.rec.pos < 0 => mem.rec = EmptyRec)'
  BY DEF ClientInv, ClientTypeOK, AnswersTellTruth, Holds
<1>2. CaptureKept' /\ SavedKept'
  BY DEF ClientInv, CaptureKept, SavedKept, RowsDescribe
<1>3. FreshKept'
  <2>1. CASE fresh' = FALSE
    BY <2>1 DEF FreshKept
  <2>2. CASE fresh' = fresh
    BY <2>2 DEF ClientInv, FreshKept, RowsDescribe
  <2> QED BY <2>1, <2>2
<1> QED BY <1>1, <1>2, <1>3 DEF ClientInv

LEMMA DecodeKeeps ==
  ASSUME ClientInv, Decode
  PROVE  ClientInv'
<1> USE ClientFacts
<1>1. /\ ~lost /\ mem \in Memory /\ view \in Seq(Token) /\ Coherent(mem)
      /\ mem.rec.toks = view
  BY DEF Decode
<1>2. PICK toks \in Batches :
        LET ok == DecodeAccepted(mem, toks, Len(view))
        IN  /\ mem' = IF ok THEN DecodeTo(mem, "target", toks, Len(view)) ELSE mem
            /\ view' = IF ok THEN view \o toks ELSE view
            /\ fresh' = (fresh /\ ~ok)
  BY DEF Decode
<1>3. saved' = saved /\ lost' = lost
  BY DEF Decode
<1>4. toks \in Seq(Token) /\ Len(toks) \in Nat \ {0}
  BY ClientAssumption, MemoryAssumption DEF Batches
<1>5. CASE ~DecodeAccepted(mem, toks, Len(view))
  <2>1. mem' = mem /\ view' = view /\ fresh' = fresh
    BY <1>2, <1>5 DEF ClientInv, ClientTypeOK
  <2> QED BY <1>3, <2>1, UnmovedKeeps
<1>6. CASE DecodeAccepted(mem, toks, Len(view))
  <2> DEFINE d == DecodeTo(mem, "target", toks, Len(view))
  <2>1. mem' = d /\ view' = view \o toks /\ fresh' = FALSE
    BY <1>2, <1>6
  <2>2. Len(view) + Len(toks) <= Context
    BY <1>6 DEF DecodeAccepted
  <2>3. /\ Coherent(d) /\ d.rec.toks = view \o toks /\ d.rec.pos = Len(view) + Len(toks) - 1
        /\ d.hist = mem.hist
    BY ZenonT(60), <1>1, <1>4, <2>2, DecodeCoherent
  <2>4. d \in Memory /\ view \o toks \in Seq(Token)
        /\ Len(view \o toks) = Len(view) + Len(toks)
    BY <1>1, <1>4, DecodeType, ConcatProperties
  <2>5. ~(d.rec.pos < 0)
    BY <1>1, <1>4, <2>3
  <2>6. ASSUME mem.hist.capturing
        PROVE  /\ Len(view \o toks) = mem.hist.first + mem.hist.tokens
               /\ mem.hist.tokens > 1 =>
                    \A i \in 1..mem.hist.tokens :
                      d.rows[i] = ExactState(view \o toks, mem.hist.first + i)
    <3>1. Len(toks) = mem.hist.tokens /\ Len(view) = mem.hist.first
      BY <1>6, <2>6 DEF DecodeAccepted
    <3> QED BY <1>1, <1>4, <2>4, <2>6, <3>1, RowsCaptured
  <2> HIDE DEF d
  <2>7. ClientTypeOK'
    BY <1>3, <2>1, <2>4 DEF ClientInv, ClientTypeOK
  <2>8. AnswersTellTruth' /\ (mem.rec.pos < 0 => mem.rec = EmptyRec)'
    BY <2>1, <2>3, <2>5 DEF AnswersTellTruth, Holds
  <2>9. CaptureKept' /\ FreshKept' /\ SavedKept'
    <3>1. FreshKept' /\ SavedKept'
      BY <1>3, <2>1 DEF ClientInv, FreshKept, SavedKept
    <3>2. CaptureKept'
      <4> SUFFICES ASSUME mem.hist.capturing
                   PROVE  CaptureKept'
        BY <2>1, <2>3 DEF CaptureKept
      <4>1. Len(view') = mem'.hist.first + mem'.hist.tokens
        BY <2>1, <2>3, <2>6
      <4>2. RowsDescribe'
        BY <2>1, <2>3, <2>6 DEF RowsDescribe
      <4>3. Len(view') \in Nat /\ mem'.hist.first >= 0 /\ mem'.hist.tokens > 0
        BY <1>1, <1>4, <2>1, <2>3, <2>4 DEF ClientInv, CaptureKept
      <4> QED BY <4>1, <4>2, <4>3 DEF CaptureKept
    <3> QED BY <3>1, <3>2
  <2> QED BY <2>7, <2>8, <2>9 DEF ClientInv
<1> QED BY <1>5, <1>6

LEMMA DecodeFailsKeeps ==
  ASSUME ClientInv, DecodeFails
  PROVE  ClientInv'
<1>1. PICK toks \in Batches : mem' = DecodeFailedTo(mem, toks, Len(view))
  BY DEF DecodeFails
<1>2. view' = view /\ saved' = saved /\ fresh' = FALSE /\ lost' = TRUE
  BY DEF DecodeFails
<1>3. toks \in Seq(Token) /\ toks # << >>
  BY ClientAssumption, MemoryAssumption DEF Batches
<1>4. mem \in Memory /\ Len(view) \in Nat
  BY ClientFacts
<1>5. mem' \in Memory /\ (mem'.rec.pos < 0 => mem'.rec = EmptyRec) /\ mem'.hist = mem.hist
  BY <1>1, <1>3, <1>4, DecodeFailedKeeps
<1>6. ClientTypeOK'
  BY <1>2, <1>5 DEF ClientInv, ClientTypeOK
<1>7. CaptureKept'
  BY <1>2, <1>5 DEF ClientInv, CaptureKept
<1> QED BY <1>2, <1>5, <1>6, <1>7
        DEF ClientInv, AnswersTellTruth, FreshKept, SavedKept

(* The sequence becomes empty; a capture may go on, but its batch is gone.   *)
LEMMA EmptiedKeeps ==
  ASSUME ClientInv, mem' \in Memory, Coherent(mem'), mem'.rec = EmptyRec,
         mem'.rec.toks = << >>, mem'.hist = mem.hist \/ ~mem'.hist.capturing,
         view' = << >>, saved' = saved, fresh' = FALSE, lost' = FALSE
  PROVE  ClientInv'
<1>1. ClientTypeOK'
  BY EmptySeq DEF ClientInv, ClientTypeOK
<1>2. AnswersTellTruth'
  BY DEF AnswersTellTruth, Holds
<1>3. CaptureKept'
  <2> SUFFICES ASSUME mem'.hist = mem.hist, mem.hist.capturing
               PROVE  CaptureKept'
    BY DEF CaptureKept
  <2>1. /\ mem.hist.first >= 0 /\ mem.hist.tokens > 0
        /\ mem.hist.first \in Int /\ mem.hist.tokens \in 0..Capacity
    BY ClientFacts DEF ClientInv, CaptureKept
  <2>2. Len(view') = 0
    OBVIOUS
  <2> QED BY <2>1, <2>2, MemoryAssumption DEF CaptureKept
<1> QED BY <1>1, <1>2, <1>3 DEF ClientInv, FreshKept, SavedKept

LEMMA ClearKeeps ==
  ASSUME ClientInv, Clear
  PROVE  ClientInv'
<1>1. mem \in Memory /\ mem' = ClearTo(mem)
  BY ClientFacts DEF Clear
<1>2. /\ mem' \in Memory /\ Coherent(mem') /\ mem'.rec = EmptyRec
      /\ mem'.rec.toks = << >> /\ ~mem'.hist.capturing
  BY <1>1, Cleared
<1> QED BY <1>2, EmptiedKeeps DEF Clear

LEMMA SeqRmKeeps ==
  ASSUME ClientInv, SeqRm
  PROVE  ClientInv'
<1>1. PICK p0 \in 0..Context :
        LET ok == SeqRmAccepted(mem, p0)
        IN  /\ lost => p0 = 0
            /\ p0 > 0 => p0 # mem.rec.pos
            /\ mem' = SeqRmTo(mem, p0)
            /\ view' = IF ok /\ p0 < Len(view) THEN SubSeq(view, 1, p0) ELSE view
            /\ fresh' = (fresh /\ p0 >= Len(view))
            /\ lost' = (lost /\ p0 # 0)
  BY DEF SeqRm
<1>2. saved' = saved /\ fresh \in BOOLEAN /\ lost \in BOOLEAN
  BY DEF SeqRm, ClientInv, ClientTypeOK
<1>3. /\ mem \in Memory /\ view \in Seq(Token) /\ Len(view) \in Nat /\ mem.rec.pos \in Int
      /\ ~lost => Coherent(mem) /\ mem.rec.pos = Len(view) - 1
  BY ClientFacts
<1>4. CASE p0 = 0
  <2>1. /\ SeqRmAccepted(mem, 0) /\ mem' \in Memory /\ Coherent(mem') /\ mem'.rec = EmptyRec
        /\ mem'.rec.toks = << >> /\ mem'.hist = mem.hist
    BY <1>1, <1>3, <1>4, RemoveAll, SeqRmType DEF ClientInv
  <2>2. view' = << >>
    <3>1. CASE 0 < Len(view)
      BY <1>1, <1>3, <1>4, <2>1, <3>1, SubSeqEmpty
    <3>2. CASE ~(0 < Len(view))
      <4>1. Len(view) = 0
        BY <1>3, <3>2
      <4>2. view = << >>
        BY <1>3, <4>1, EmptySeq
      <4> QED BY <1>1, <1>4, <3>2, <4>2
    <3> QED BY <3>1, <3>2
  <2>3. fresh' = FALSE
    <3>1. fresh => Len(view) > 0
      BY ClientFacts, MemoryAssumption DEF ClientInv, FreshKept
    <3>2. ~(fresh /\ p0 >= Len(view))
      BY <1>3, <1>4, <3>1
    <3> QED BY <1>1, <3>2
  <2>4. lost' = FALSE
    BY <1>1, <1>4
  <2> QED BY <1>2, <2>1, <2>2, <2>3, <2>4, EmptiedKeeps
<1>5. CASE p0 > 0
  <2>1. ~lost /\ p0 # mem.rec.pos /\ p0 \in Nat /\ p0 # 0
    BY <1>1, <1>5
  <2>2. lost' = lost /\ (fresh' = fresh \/ fresh' = FALSE)
    BY <1>1, <1>2, <2>1
  <2>3. CASE p0 < mem.rec.pos
    <3>1. ~SeqRmAccepted(mem, p0)
      BY <1>5, <2>3 DEF SeqRmAccepted, RecurrentRmRefused
    <3>2. mem' = mem /\ view' = view
      BY <1>1, <3>1 DEF SeqRmTo
    <3> QED BY <1>2, <2>2, <3>2, UnmovedKeeps
  <2>4. CASE p0 > mem.rec.pos
    <3>1. mem' = mem
      BY <1>1, <1>3, <2>1, <2>4, RemoveBehind
    <3>2. ~(p0 < Len(view))
      BY <1>3, <2>1, <2>4
    <3>3. view' = view
      BY <1>1, <3>2
    <3> QED BY <1>2, <2>2, <3>1, <3>3, UnmovedKeeps
  <2> QED BY <1>3, <2>1, <2>3, <2>4
<1> QED BY <1>4, <1>5

LEMMA SaveKeeps ==
  ASSUME ClientInv, Save
  PROVE  ClientInv'
<1>1. /\ ~lost /\ view # << >> /\ mem' = mem /\ view' = view /\ fresh' = fresh /\ lost' = lost
      /\ saved' = [snap |-> SnapshotOf(mem), view |-> view]
  BY DEF Save
<1>2. /\ mem \in Memory /\ view \in Seq(Token) /\ Coherent(mem) /\ mem.rec.toks = view
      /\ mem.rec.pos = Len(view) - 1 /\ Len(view) \in Nat /\ Len(view) <= Context
  BY <1>1, ClientFacts
<1>3. Len(view) \in 1..Context
  BY <1>1, <1>2, EmptySeq, MemoryAssumption
<1>4. SnapshotOf(mem) = [first |-> Len(view), rec |-> mem.rec] /\ SnapshotOf(mem) \in Snap
  BY <1>2, SnapshotCoherent, SnapshotType
<1>5. mem.rec = [pos |-> Len(view) - 1, toks |-> view, exact |-> TRUE]
  <2>1. mem.rec.exact = TRUE
    BY <1>2 DEF Coherent, Memory, Rec
  <2> QED BY <1>2, <2>1 DEF Memory, Rec
<1>6. saved' \in [snap : Snap, view : Seq(Token)]
  BY <1>1, <1>2, <1>4
<1>7. SavedKept'
  <2>1. saved'.view = view
    BY <1>1
  <2>2. saved'.snap.first = Len(view) /\ saved'.snap.rec = mem.rec
    BY <1>1, <1>4
  <2> QED BY <1>3, <1>5, <2>1, <2>2 DEF SavedKept
<1>8. CaptureKept' /\ FreshKept'
  BY <1>1 DEF ClientInv, CaptureKept, FreshKept, RowsDescribe
<1> QED BY <1>1, <1>6, <1>7, <1>8
        DEF ClientInv, ClientTypeOK, AnswersTellTruth, Holds

(* The memory a snapshot was taken of is there again.                        *)
LEMMA SnapshotReturns ==
  ASSUME ClientInv, ~lost, Restorable
  PROVE  /\ RestoreAccepted(mem, saved.snap)
         /\ RestoreTo(mem, saved.snap) \in Memory
         /\ Coherent(RestoreTo(mem, saved.snap))
         /\ RestoreTo(mem, saved.snap).rec.toks = saved.view
         /\ ~(RestoreTo(mem, saved.snap).rec.pos < 0)
         /\ RestoreTo(mem, saved.snap).hist = mem.hist
         /\ RestoreTo(mem, saved.snap).rows = mem.rows
<1> DEFINE n == Len(saved.view)
           snap == saved.snap
<1>1. /\ mem \in Memory /\ view \in Seq(Token) /\ Coherent(mem) /\ mem.rec.toks = view
  BY ClientFacts
<1>2. saved.view \in Seq(Token) /\ snap \in Snap
  BY DEF ClientInv, ClientTypeOK
<1>3. /\ n \in 1..Context /\ snap.first = n
      /\ snap.rec = [pos |-> n - 1, toks |-> saved.view, exact |-> TRUE]
  BY DEF ClientInv, SavedKept, Restorable
<1>4. snap.rec.toks = saved.view /\ snap.rec.pos = n - 1
  BY <1>3
<1>5. snap.rec.exact
  <2> HIDE DEF snap, n
  <2>1. snap.rec.exact = TRUE
    BY <1>3
  <2> QED BY <2>1
<1>6. IsPrefix(saved.view, view)
  BY DEF Restorable
<1>7. \A p \in Positions : p < snap.first => mem.attn[p] = CellOf(snap.rec.toks, p)
  BY <1>1, <1>2, <1>3, <1>4, <1>6, PrefixSeen DEF Coherent
<1> HIDE DEF n, snap
<1>8. /\ RestoreAccepted(mem, snap) /\ Coherent(RestoreTo(mem, snap))
      /\ RestoreTo(mem, snap).rec = snap.rec
  <2>1. snap.first = Len(snap.rec.toks) /\ snap.rec.pos = snap.first - 1 /\ snap.first <= Context
    BY <1>3, <1>4, MemoryAssumption DEF n
  <2> QED BY <1>1, <1>2, <1>5, <1>7, <2>1, RestoreCoherent
<1>9. RestoreTo(mem, snap) \in Memory
  BY <1>1, <1>2, RestoreType
<1>10. RestoreTo(mem, snap).hist = mem.hist /\ RestoreTo(mem, snap).rows = mem.rows
  BY <1>1 DEF RestoreTo, SeqRmTo, StateRead, Memory
<1>11. ~(n - 1 < 0)
  BY <1>3, MemoryAssumption
<1> QED BY <1>4, <1>8, <1>9, <1>10, <1>11 DEF snap

LEMMA RestoreKeeps ==
  ASSUME ClientInv, Restore
  PROVE  ClientInv'
<1>1. /\ ~lost /\ Restorable /\ mem' = RestoreTo(mem, saved.snap)
      /\ view' = IF RestoreAccepted(mem, saved.snap) THEN saved.view ELSE view
      /\ fresh' = (fresh /\ saved.view = view) /\ saved' = saved /\ lost' = lost
  BY DEF Restore
<1>2. /\ mem' \in Memory /\ Coherent(mem') /\ mem'.rec.toks = saved.view
      /\ ~(mem'.rec.pos < 0) /\ mem'.hist = mem.hist /\ mem'.rows = mem.rows
      /\ view' = saved.view
  BY <1>1, SnapshotReturns
<1>3. saved.view \in Seq(Token) /\ view \in Seq(Token) /\ fresh \in BOOLEAN
  BY DEF ClientInv, ClientTypeOK
<1>4. /\ Len(saved.view) <= Len(view)
      /\ Len(saved.view) = Len(view) => saved.view = view
      /\ Len(saved.view) \in Nat /\ Len(view) \in Nat
  BY <1>1, <1>3, PrefixSeen, LenProperties DEF Restorable
<1>5. ClientTypeOK'
  BY <1>1, <1>2, <1>3 DEF ClientInv, ClientTypeOK
<1>6. AnswersTellTruth'
  BY <1>1, <1>2 DEF AnswersTellTruth, Holds
<1>7. saved.view = view /\ RowsDescribe => RowsDescribe'
  BY <1>2 DEF RowsDescribe
<1>8. CaptureKept'
  <2> SUFFICES ASSUME mem.hist.capturing
               PROVE  CaptureKept'
    BY <1>2 DEF CaptureKept
  <2> DEFINE end == mem.hist.first + mem.hist.tokens
  <2>1. /\ mem.hist.first >= 0 /\ mem.hist.tokens > 0
        /\ Len(view) <= end /\ (Len(view) = end => RowsDescribe)
    BY <1>1 DEF ClientInv, CaptureKept
  <2>2. end \in Int
    BY ClientFacts, MemoryAssumption
  <2> HIDE DEF end
  <2>3. Len(view') <= end
    BY <1>2, <1>4, <2>1, <2>2
  <2>4. Len(view') = end => RowsDescribe'
    BY <1>2, <1>4, <1>7, <2>1, <2>2
  <2> QED BY <1>2, <2>1, <2>3, <2>4 DEF CaptureKept, end
<1>9. FreshKept'
  <2>1. CASE saved.view = view
    BY <1>1, <1>2, <1>7, <2>1 DEF ClientInv, FreshKept
  <2>2. CASE saved.view # view
    BY <1>1, <2>2 DEF FreshKept
  <2> QED BY <2>1, <2>2
<1> QED BY <1>1, <1>2, <1>5, <1>6, <1>8, <1>9 DEF ClientInv, SavedKept

LEMMA HistoryBeginKeeps ==
  ASSUME ClientInv, HistoryBegin
  PROVE  ClientInv'
<1>1. PICK first \in 0..Context, tokens \in 0..(Capacity + 1) :
        mem' = BeginTo(mem, first, tokens)
  BY DEF HistoryBegin
<1>2. ~lost /\ view' = view /\ saved' = saved /\ lost' = lost /\ fresh' = FALSE
  BY DEF HistoryBegin
<1>3. /\ mem \in Memory /\ view \in Seq(Token) /\ Len(view) \in Nat /\ Coherent(mem)
      /\ mem.rec.toks = view /\ mem.rec.pos = Len(view) - 1 /\ mem.hist \in Hist
  BY <1>2, ClientFacts
<1>4. first \in Int /\ tokens \in Int
  BY <1>1
<1>5. mem' \in Memory
  BY <1>1, <1>3, <1>4, HistoryTypes
<1>6. mem'.rec = mem.rec /\ mem'.attn = mem.attn
  BY <1>1, <1>3 DEF BeginTo, Memory
<1>7. Coherent(mem')
  BY <1>3, <1>6 DEF Coherent
<1>8. CaptureKept'
  <2>1. CASE ~BeginAccepted(mem, first, tokens)
    <3>1. mem'.hist = [mem.hist EXCEPT !.capturing = FALSE, !.valid = FALSE]
      BY <1>1, <1>3, <2>1 DEF BeginTo, Memory
    <3>2. ~mem'.hist.capturing
      BY <1>3, <3>1 DEF Hist
    <3> QED BY <3>2 DEF CaptureKept
  <2>2. CASE BeginAccepted(mem, first, tokens)
    <3>1. mem'.hist = [capturing |-> TRUE, valid |-> FALSE, first |-> first,
                       tokens |-> tokens]
      BY <1>1, <1>3, <2>2 DEF BeginTo, Memory
    <3>2. mem'.hist.first = first /\ mem'.hist.tokens = tokens
      BY <3>1
    <3>3. first = Len(view) /\ tokens > 0
      BY <1>3, <1>4, <2>2, MemoryAssumption DEF BeginAccepted
    <3> QED BY <1>2, <1>3, <1>4, <3>2, <3>3 DEF CaptureKept
  <2> QED BY <2>1, <2>2
<1>9. ClientTypeOK' /\ AnswersTellTruth' /\ (mem.rec.pos < 0 => mem.rec = EmptyRec)'
  BY <1>2, <1>3, <1>5, <1>6, <1>7 DEF ClientInv, ClientTypeOK, AnswersTellTruth, Holds
<1> QED BY <1>2, <1>8, <1>9 DEF ClientInv, FreshKept, SavedKept

LEMMA HistoryFinishKeeps ==
  ASSUME ClientInv, HistoryFinish
  PROVE  ClientInv'
<1>1. /\ ~lost /\ mem' = FinishTo(mem) /\ fresh' = (fresh \/ FinishAccepted(mem))
      /\ view' = view /\ saved' = saved /\ lost' = lost
  BY DEF HistoryFinish
<1>2. /\ mem \in Memory /\ view \in Seq(Token) /\ Len(view) \in Nat /\ Coherent(mem)
      /\ mem.rec.toks = view /\ mem.rec.pos = Len(view) - 1 /\ mem.hist \in Hist
      /\ mem.hist.first \in Int /\ mem.hist.tokens \in 0..Capacity
  BY <1>1, ClientFacts
<1>3. CASE ~FinishAccepted(mem)
  <2>1. mem' = mem /\ fresh' = fresh
    BY <1>1, <1>3 DEF FinishTo, ClientInv, ClientTypeOK
  <2> QED BY <1>1, <2>1, UnmovedKeeps
<1>4. CASE FinishAccepted(mem)
  <2>1. mem' = [mem EXCEPT !.hist = [mem.hist EXCEPT !.capturing = FALSE, !.valid = TRUE]]
    BY <1>1, <1>4 DEF FinishTo
  <2>2. mem' \in Memory
    BY <1>1, <1>2, HistoryTypes
  <2>3. mem'.rec = mem.rec /\ mem'.attn = mem.attn /\ mem'.rows = mem.rows
    BY <1>2, <2>1 DEF Memory
  <2>4. /\ ~mem'.hist.capturing
        /\ mem'.hist.first = mem.hist.first /\ mem'.hist.tokens = mem.hist.tokens
    BY <1>2, <2>1 DEF Memory, Hist
  <2>5. Coherent(mem')
    BY <1>2, <2>3 DEF Coherent
  <2>6. mem.hist.capturing /\ Len(view) = mem.hist.first + mem.hist.tokens
    <3>1. mem.hist.capturing /\ mem.rec.pos = mem.hist.first + mem.hist.tokens - 1
      BY <1>4 DEF FinishAccepted, LastCaptured
    <3> QED BY <1>2, <3>1, MemoryAssumption
  <2>7. mem.hist.first >= 0 /\ mem.hist.tokens > 0 /\ RowsDescribe
    BY <1>1, <2>6 DEF ClientInv, CaptureKept
  <2>8. FreshKept'
    BY <1>1, <2>3, <2>4, <2>6, <2>7 DEF FreshKept, RowsDescribe
  <2>9. fresh' \in BOOLEAN
    BY <1>1
  <2>10. ClientTypeOK' /\ AnswersTellTruth' /\ (mem.rec.pos < 0 => mem.rec = EmptyRec)'
    BY <1>1, <1>2, <2>2, <2>3, <2>5, <2>9
       DEF ClientInv, ClientTypeOK, AnswersTellTruth, Holds
  <2> QED BY <1>1, <2>4, <2>8, <2>10 DEF ClientInv, CaptureKept, SavedKept
<1> QED BY <1>3, <1>4

LEMMA HistoryCommitKeeps ==
  ASSUME ClientInv, HistoryCommit, ~LateCommit
  PROVE  ClientInv'
<1>1. PICK prefix \in 0..(Capacity + 1) :
        /\ mem' = CommitTo(mem, prefix)
        /\ view' = IF CommitAccepted(mem, prefix)
                   THEN SubSeq(view, 1, mem.hist.first + prefix) ELSE view
        /\ fresh' = (fresh /\ ~CommitAccepted(mem, prefix))
  BY DEF HistoryCommit
<1>2. ~lost /\ fresh /\ saved' = saved /\ lost' = lost
  BY DEF HistoryCommit
<1>3. /\ mem \in Memory /\ view \in Seq(Token) /\ Coherent(mem) /\ mem.rec.toks = view
      /\ prefix \in Nat /\ fresh \in BOOLEAN
  BY <1>2, ClientFacts, MemoryAssumption DEF ClientInv, ClientTypeOK
<1>4. CASE ~CommitAccepted(mem, prefix)
  <2>1. mem' = mem /\ view' = view /\ fresh' = fresh
    BY <1>1, <1>3, <1>4 DEF CommitTo
  <2> QED BY <1>2, <2>1, UnmovedKeeps
<1>5. CASE CommitAccepted(mem, prefix)
  <2>1. view' = SubSeq(view, 1, mem.hist.first + prefix) /\ fresh' = FALSE
    BY <1>1, <1>5
  <2>2. /\ ~mem.hist.capturing /\ mem.hist.first >= 0
        /\ Len(mem.rec.toks) = mem.hist.first + mem.hist.tokens
        /\ mem.hist.tokens > 1 =>
             \A i \in 1..mem.hist.tokens : mem.rows[i] = ExactState(mem.rec.toks, mem.hist.first + i)
    BY <1>2, <1>3 DEF ClientInv, FreshKept, RowsDescribe
  <2>3. /\ Coherent(mem') /\ mem'.rec.toks = view' /\ mem'.rec.pos >= 0
        /\ mem'.hist.capturing = mem.hist.capturing
    BY <1>1, <1>3, <1>5, <2>1, <2>2, Committed
  <2>4. mem' \in Memory
    BY <1>1, <1>3, CommitType
  <2>5. view' \in Seq(Token) /\ mem'.rec.pos \in Int
    BY <2>3, <2>4 DEF Memory, Rec
  <2>6. ClientTypeOK'
    BY <1>2, <2>1, <2>4, <2>5 DEF ClientInv, ClientTypeOK
  <2>7. ~mem'.hist.capturing /\ ~(mem'.rec.pos < 0)
    BY <2>2, <2>3, <2>5
  <2> QED BY <1>2, <2>1, <2>3, <2>6, <2>7
          DEF ClientInv, AnswersTellTruth, Holds, CaptureKept, FreshKept, SavedKept
<1> QED BY <1>4, <1>5

-----------------------------------------------------------------------------
(* The invariant holds whatever order the API is called in, as long as a     *)
(* history is committed right after history_finish().                        *)
THEOREM ClientInvariance ==
  ASSUME ~LateCommit
  PROVE  Spec => []ClientInv
<1>1. ClientInv /\ [Next]_clientVars => ClientInv'
  <2> SUFFICES ASSUME ClientInv, [Next]_clientVars
               PROVE  ClientInv'
    OBVIOUS
  <2>1. CASE UNCHANGED clientVars
    BY <2>1, UnmovedKeeps DEF clientVars
  <2> QED BY <2>1, DecodeKeeps, DecodeFailsKeeps, SeqRmKeeps, ClearKeeps, SaveKeeps,
             RestoreKeeps, HistoryBeginKeeps, HistoryFinishKeeps, HistoryCommitKeeps
          DEF Next
<1> QED BY <1>1, ClientInit, PTL DEF Spec

(* The recurrent state and the attention cache hold exactly the tokens that  *)
(* the answers of decode, seq_rm, restore and history_commit say are there.  *)
THEOREM TruthfulAnswers ==
  ASSUME ~LateCommit
  PROVE  Spec => []AnswersTellTruth
<1>1. ClientInv => AnswersTellTruth
  BY DEF ClientInv
<1> QED BY <1>1, ClientInvariance, PTL

(* A partial snapshot is accepted back whatever was decoded, verified or     *)
(* committed since, as long as the tokens below it are the same.             *)
THEOREM RestorableSnapshots ==
  ASSUME ~LateCommit
  PROVE  Spec => []SnapshotRestorable
<1>1. ClientInv => SnapshotRestorable
  BY SnapshotReturns DEF SnapshotRestorable
<1> QED BY <1>1, ClientInvariance, PTL

(* The rows of a history that was just finished are the exact states after   *)
(* the tokens of its batch.                                                  *)
THEOREM TruthfulHistory ==
  ASSUME ~LateCommit
  PROVE  Spec => []HistoryDescribesBatch
<1>1. ClientInv => HistoryDescribesBatch
  BY DEF ClientInv, FreshKept, RowsDescribe, HistoryDescribesBatch
<1> QED BY <1>1, ClientInvariance, PTL
=============================================================================
