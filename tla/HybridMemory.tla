---------------------------- MODULE HybridMemory ----------------------------
(***************************************************************************)
(* The hybrid memory of one sequence (llama-memory-hybrid.cpp): the        *)
(* attention KV cache, the recurrent state of llama-memory-recurrent.cpp   *)
(* and the verification history kept beside it.  The target and the draft  *)
(* context share one such memory, so every operation below is an operator  *)
(* from one memory value to the next; HybridDriver and HistoryClient are   *)
(* its two users.                                                          *)
(*                                                                         *)
(* Tensor contents are abstracted to the computation that produced them.   *)
(* A recurrent state is the sequence of tokens folded into it, plus a flag *)
(* that is TRUE iff every step was a full-expert target step taken on      *)
(* exact inputs; an attention cell is the token at its position with the   *)
(* same flag.  Two memories the properties must tell apart therefore       *)
(* differ in their abstraction.                                            *)
(***************************************************************************)
EXTENDS Integers, Sequences

CONSTANTS
  Token,      (* the vocabulary                                            *)
  Context,    (* n_ctx: positions of the attention cache                   *)
  Capacity,   (* rows reserved by llama_memory_history_reserve             *)
  Ubatch      (* n_ubatch: longest batch that is evaluated in one graph    *)

ASSUME MemoryAssumption ==
  /\ Context \in Nat \ {0}
  /\ Capacity \in 1..32      \* or reserve_history() fails
  /\ Ubatch \in Nat \ {0}

Positions == 0..(Context - 1)

(* Who evaluates a batch: the target with all its experts, the draft with  *)
(* its top-k experts, the target with approximate expert reuse, or a graph *)
(* that fails on the way and leaves tensors of unknown contents.           *)
Engine == {"target", "draft", "reuse", "failed"}

State == [toks : Seq(Token), exact : BOOLEAN]
Rec   == [pos : Int, toks : Seq(Token), exact : BOOLEAN]
Entry == [tok : Token, exact : BOOLEAN]
Hist  == [capturing : BOOLEAN, valid : BOOLEAN, first : Int, tokens : 0..Capacity]
Snap  == [first : Int, rec : Rec]

Memory == [attn : [Positions -> Seq(Entry)],
           rec  : Rec,
           rows : [1..Capacity -> State],
           hist : Hist]

(* A cell with no state; its tensors are zeroed when it is next used.      *)
EmptyState == [toks |-> << >>, exact |-> TRUE]
EmptyRec   == [pos |-> -1, toks |-> << >>, exact |-> TRUE]
NoHistory  == [capturing |-> FALSE, valid |-> FALSE, first |-> -1, tokens |-> 0]

FreshMemory ==
  [attn |-> [p \in Positions |-> << >>],
   rec  |-> EmptyRec,
   rows |-> [i \in 1..Capacity |-> EmptyState],
   hist |-> NoHistory]

-----------------------------------------------------------------------------
(* Positions.  The recurrent memory keeps one position per sequence, the   *)
(* attention cache one cell per token; the hybrid maximum is their minimum.*)

AttnUsed(m) == {p \in Positions : m.attn[p] # << >>}

AttnPosMax(m) ==
  IF AttnUsed(m) = {} THEN -1
  ELSE CHOOSE p \in AttnUsed(m) : \A q \in AttnUsed(m) : q <= p

SeqPosMax(m) ==
  IF AttnPosMax(m) <= m.rec.pos THEN AttnPosMax(m) ELSE m.rec.pos

(* The memory is exactly what greedy autoregressive decoding of rec.toks   *)
(* leaves behind: one exact cell per token, nothing after it.              *)
CellOf(s, p) ==
  IF p < Len(s) THEN << [tok |-> s[p + 1], exact |-> TRUE] >> ELSE << >>

Coherent(m) ==
  /\ m.rec.exact
  /\ m.rec.pos = Len(m.rec.toks) - 1
  /\ Len(m.rec.toks) <= Context
  /\ \A p \in Positions : m.attn[p] = CellOf(m.rec.toks, p)

(* The memory has read exactly the tokens s, whoever evaluated them.       *)
HoldsToken(m, s, p) == Len(m.attn[p]) = 1 /\ m.attn[p][1].tok = s[p + 1]

HoldsBelow(m, s) == \A p \in Positions : p < Len(s) => HoldsToken(m, s, p)

Aligned(m, s) ==
  /\ m.rec.toks = s /\ m.rec.pos = Len(s) - 1 /\ Len(s) <= Context
  /\ HoldsBelow(m, s)
  /\ \A p \in Positions : p >= Len(s) => m.attn[p] = << >>

(* The target state after n tokens of the sequence s.                      *)
ExactState(s, n) == [toks |-> SubSeq(s, 1, n), exact |-> TRUE]

-----------------------------------------------------------------------------
(* llama_decode of toks at positions first, first+1, ...                   *)

(* Conditions under which the batch is refused before anything is written: *)
(* positions must continue the sequence; while a history is captured the   *)
(* batch must be the announced one and fit one ubatch; the cache must have *)
(* room.                                                                   *)
DecodeAccepted(m, toks, first) ==
  /\ toks # << >>
  /\ SeqPosMax(m) >= 0 => first = SeqPosMax(m) + 1
  /\ m.hist.capturing =>
       /\ Len(toks) = m.hist.tokens
       /\ first = m.hist.first
       /\ Len(toks) <= Ubatch
  /\ first >= 0
  /\ first + Len(toks) <= Context

(* The recurrent state after the first i tokens of the batch.  One graph   *)
(* evaluates the batch, so all of it is exact or none of it is.            *)
ExactStep(m, by, first) ==
  by = "target" /\ Coherent(m) /\ first = Len(m.rec.toks)

StateAfter(m, by, toks, first, i) ==
  [toks  |-> m.rec.toks \o SubSeq(toks, 1, i),
   exact |-> ExactStep(m, by, first)]

(* What the output rows of the batch are computed from. *)
Outputs(m, by, toks, first) ==
  [i \in 1..Len(toks) |-> StateAfter(m, by, toks, first, i)]

(* Mutant of CapturedRows: each row holds the state before its token. *)
CapturedRowsEarly(m, by, toks, first) ==
  IF m.hist.capturing /\ m.hist.tokens > 1
  THEN [i \in 1..Capacity |-> IF i <= Len(toks)
                              THEN StateAfter(m, by, toks, first, i - 1)
                              ELSE m.rows[i]]
  ELSE m.rows

(* With a capture of more than one token the graph copies the state after  *)
(* each token into the history row of that token.                          *)
CapturedRows(m, by, toks, first) ==
  IF m.hist.capturing /\ m.hist.tokens > 1
  THEN [i \in 1..Capacity |-> IF i <= Len(toks)
                              THEN StateAfter(m, by, toks, first, i)
                              ELSE m.rows[i]]
  ELSE m.rows

AttnAppend(attn, toks, first, exact) ==
  [p \in Positions |->
     IF first <= p /\ p < first + Len(toks)
     THEN Append(attn[p], [tok |-> toks[p - first + 1], exact |-> exact])
     ELSE attn[p]]

DecodeTo(m, by, toks, first) ==
  LET last == StateAfter(m, by, toks, first, Len(toks))
  IN  [attn |-> AttnAppend(m.attn, toks, first, last.exact),
       rec  |-> [pos   |-> first + Len(toks) - 1,
                 toks  |-> last.toks,
                 exact |-> last.exact],
       rows |-> CapturedRows(m, by, toks, first),
       hist |-> m.hist]

-----------------------------------------------------------------------------
(* Removal of positions [p0, infinity).                                    *)

(* Mutant of RecurrentRmRefused: the cut right behind the state is refused. *)
RecurrentRmRefusedBehind(r, p0) == 0 < p0 /\ p0 <= r.pos + 1

(* A recurrent state cannot be cut: refused when the cut is inside it.     *)
RecurrentRmRefused(r, p0) == 0 < p0 /\ p0 < r.pos

RecurrentRm(r, p0) == IF p0 <= r.pos THEN EmptyRec ELSE r

AttnTrim(attn, p0) == [p \in Positions |-> IF p >= p0 THEN << >> ELSE attn[p]]

SeqRmAccepted(m, p0) == ~RecurrentRmRefused(m.rec, p0)

(* The recurrent memory is asked first; if it refuses nothing is changed.  *)
SeqRmTo(m, p0) ==
  IF SeqRmAccepted(m, p0)
  THEN [attn |-> AttnTrim(m.attn, p0),
        rec  |-> RecurrentRm(m.rec, p0),
        rows |-> m.rows,
        hist |-> m.hist]
  ELSE m

(* A ubatch whose graph fails after its cells were assigned: its positions *)
(* are removed again, and the result of that removal is ignored.           *)
DecodeFailedTo(m, toks, first) == SeqRmTo(DecodeTo(m, "failed", toks, first), first)

ClearTo(m) ==
  [attn |-> [p \in Positions |-> << >>],
   rec  |-> EmptyRec,
   rows |-> m.rows,
   hist |-> [m.hist EXCEPT !.capturing = FALSE, !.valid = FALSE]]

-----------------------------------------------------------------------------
(* Partial snapshots (next-state.h): only the recurrent state is saved;    *)
(* restoring it also trims the attention cache after the saved position.   *)

(* Mutant of SnapshotOf: first is the last saved position. *)
SnapshotAtLast(m) == [first |-> SeqPosMax(m), rec |-> m.rec]

SnapshotOf(m) == [first |-> SeqPosMax(m) + 1, rec |-> m.rec]

StateRead(m, s) == [m EXCEPT !.rec = s.rec]

(* Mutant of RestoreTo: the attention cache is not trimmed. *)
RestoreWithoutTrim(m, s) == StateRead(m, s)

RestoreAccepted(m, s) == SeqRmAccepted(StateRead(m, s), s.first)
RestoreTo(m, s)       == SeqRmTo(StateRead(m, s), s.first)

-----------------------------------------------------------------------------
(* Verification history: begin, decode one batch, finish, commit a prefix. *)

BeginAccepted(m, first, tokens) ==
  /\ first >= 0
  /\ tokens \in 1..Capacity
  /\ first = m.rec.pos + 1

BeginTo(m, first, tokens) ==
  [m EXCEPT !.hist =
     IF BeginAccepted(m, first, tokens)
     THEN [capturing |-> TRUE, valid |-> FALSE, first |-> first, tokens |-> tokens]
     ELSE [m.hist EXCEPT !.capturing = FALSE, !.valid = FALSE]]

(* The last position the captured batch has. *)
LastCaptured(m) == m.hist.first + m.hist.tokens - 1

FinishAccepted(m) == m.hist.capturing /\ m.rec.pos = LastCaptured(m)

FinishTo(m) ==
  IF FinishAccepted(m)
  THEN [m EXCEPT !.hist = [m.hist EXCEPT !.capturing = FALSE, !.valid = TRUE]]
  ELSE m

CommitAccepted(m, prefix) ==
  /\ m.hist.valid
  /\ prefix \in 1..m.hist.tokens
  /\ m.rec.pos = LastCaptured(m)
  /\ m.rec.pos >= 0

(* Mutant of CommittedRec: a single verified token is taken from row one.  *)
CommittedRecFromRow(m, prefix) ==
  [pos   |-> m.hist.first + prefix - 1,
   toks  |-> m.rows[prefix].toks,
   exact |-> m.rows[prefix].exact]

(* One verified token was written into the live state and has no row;      *)
(* otherwise the row of the accepted prefix replaces the live state.       *)
CommittedRec(m, prefix) ==
  IF m.hist.tokens = 1 THEN m.rec
  ELSE [pos   |-> m.hist.first + prefix - 1,
        toks  |-> m.rows[prefix].toks,
        exact |-> m.rows[prefix].exact]

(* Mutant of CommitTo: rejected tokens stay in the attention cache. *)
CommitWithoutTrim(m, prefix) ==
  IF CommitAccepted(m, prefix)
  THEN [m EXCEPT !.rec = CommittedRec(m, prefix), !.hist = [m.hist EXCEPT !.valid = FALSE]]
  ELSE m

CommitTo(m, prefix) ==
  IF CommitAccepted(m, prefix)
  THEN LET r == CommittedRec(m, prefix)
       IN  [attn |-> AttnTrim(m.attn, r.pos + 1),
            rec  |-> r,
            rows |-> m.rows,
            hist |-> [m.hist EXCEPT !.valid = FALSE]]
  ELSE m
=============================================================================
