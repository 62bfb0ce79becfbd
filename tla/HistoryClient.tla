--------------------------- MODULE HistoryClient ---------------------------
(***************************************************************************)
(* The memory API of llama.h for one sequence of a hybrid model, called in *)
(* any order: decode, removal, partial snapshots, history capture and      *)
(* commit, clear (llama-memory-hybrid.cpp, llama-memory-recurrent.cpp, the *)
(* failure path of llama_context::decode).                                 *)
(*                                                                         *)
(* view is what the caller may conclude from the answers it got: the       *)
(* tokens a decode that returned 0 added, cut where a removal, restore or  *)
(* commit that returned true cut them.  The client                         *)
(*   - commits right after the finished capture, unless LateCommit, where  *)
(*     only the answer of the call could warn it,                          *)
(*   - clears the sequence after a decode that failed: decode() takes back *)
(*     the ubatch with a removal whose refusal it ignores,                 *)
(*   - never removes exactly the last position: the recurrent memory lets  *)
(*     that removal through and drops the whole sequence.                  *)
(***************************************************************************)
EXTENDS HybridMemory, SequencesExt

CONSTANTS
  Batch,       (* the longest batch the client decodes                     *)
  LateCommit   (* may a history be committed after other calls?            *)

ASSUME ClientAssumption ==
  /\ Batch \in 1..Ubatch
  /\ LateCommit \in BOOLEAN

VARIABLES
  mem,         (* the hybrid memory                                        *)
  view,        (* the tokens the caller believes it holds                  *)
  saved,       (* a partial snapshot and the view it was taken of          *)
  fresh,       (* finish was the last call that succeeded                  *)
  lost,        (* a decode failed and the sequence was not cleared since   *)
  last         (* the last call and its answer                             *)

clientVars == << mem, view, saved, fresh, lost, last >>

Batches == UNION {[1..n -> Token] : n \in 1..Batch}

NoSaved == [snap |-> [first |-> -1, rec |-> EmptyRec], view |-> << >>]

Answer(op, ok) == last' = [op |-> op, ok |-> ok]

Init ==
  /\ mem = FreshMemory
  /\ view = << >>
  /\ saved = NoSaved
  /\ fresh = FALSE
  /\ lost = FALSE
  /\ last = [op |-> "none", ok |-> TRUE]

(* The caller decodes right behind what it believes the memory holds. *)
Decode ==
  /\ ~lost
  /\ \E toks \in Batches :
       LET ok == DecodeAccepted(mem, toks, Len(view))
       IN  /\ mem' = IF ok THEN DecodeTo(mem, "target", toks, Len(view)) ELSE mem
           /\ view' = IF ok THEN view \o toks ELSE view
           /\ fresh' = (fresh /\ ~ok)
           /\ Answer("decode", ok)
  /\ UNCHANGED << saved, lost >>

(* The graph of an accepted batch fails or is aborted. *)
DecodeFails ==
  /\ ~lost
  /\ \E toks \in Batches :
       /\ DecodeAccepted(mem, toks, Len(view))
       /\ mem' = DecodeFailedTo(mem, toks, Len(view))
  /\ lost' = TRUE
  /\ fresh' = FALSE
  /\ Answer("fail", FALSE)
  /\ UNCHANGED << view, saved >>

(* llama_memory_seq_rm(mem, 0, p0, -1) *)
SeqRm ==
  /\ \E p0 \in 0..Context :
       LET ok == SeqRmAccepted(mem, p0)
       IN  /\ lost => p0 = 0
           /\ p0 > 0 => p0 # mem.rec.pos
           /\ mem' = SeqRmTo(mem, p0)
           /\ view' = IF ok /\ p0 < Len(view) THEN SubSeq(view, 1, p0) ELSE view
           /\ fresh' = (fresh /\ p0 >= Len(view))
           /\ lost' = (lost /\ p0 # 0)
           /\ Answer("rm", ok)
  /\ UNCHANGED saved

Clear ==
  /\ mem' = ClearTo(mem)
  /\ view' = << >>
  /\ fresh' = FALSE
  /\ lost' = FALSE
  /\ Answer("clear", TRUE)
  /\ UNCHANGED saved

Save ==
  /\ ~lost /\ view # << >>
  /\ saved' = [snap |-> SnapshotOf(mem), view |-> view]
  /\ Answer("save", TRUE)
  /\ UNCHANGED << mem, view, fresh, lost >>

(* A partial snapshot only makes sense over the cells it was taken with. *)
Restorable == saved # NoSaved /\ IsPrefix(saved.view, view)

Restore ==
  /\ ~lost /\ Restorable
  /\ LET ok == RestoreAccepted(mem, saved.snap)
     IN  /\ mem' = RestoreTo(mem, saved.snap)
         /\ view' = IF ok THEN saved.view ELSE view
         /\ Answer("restore", ok)
  /\ fresh' = (fresh /\ saved.view = view)
  /\ UNCHANGED << saved, lost >>

HistoryBegin ==
  /\ ~lost
  /\ \E first \in 0..Context, tokens \in 0..(Capacity + 1) :
       /\ mem' = BeginTo(mem, first, tokens)
       /\ Answer("begin", BeginAccepted(mem, first, tokens))
  /\ fresh' = FALSE
  /\ UNCHANGED << view, saved, lost >>

HistoryFinish ==
  /\ ~lost
  /\ mem' = FinishTo(mem)
  /\ fresh' = (fresh \/ FinishAccepted(mem))
  /\ Answer("finish", FinishAccepted(mem))
  /\ UNCHANGED << view, saved, lost >>

HistoryCommit ==
  /\ ~lost
  /\ fresh \/ LateCommit
  /\ \E prefix \in 0..(Capacity + 1) :
       LET ok == CommitAccepted(mem, prefix)
       IN  /\ mem' = CommitTo(mem, prefix)
           /\ view' = IF ok THEN SubSeq(view, 1, mem.hist.first + prefix) ELSE view
           /\ fresh' = (fresh /\ ~ok)
           /\ Answer("commit", ok)
  /\ UNCHANGED << saved, lost >>

Next ==
  \/ Decode \/ DecodeFails \/ SeqRm \/ Clear \/ Save \/ Restore
  \/ HistoryBegin \/ HistoryFinish \/ HistoryCommit

Spec == Init /\ [][Next]_clientVars

-----------------------------------------------------------------------------
(* Properties. *)

(* The memory holds the tokens s: the recurrent state is their fold and ends  *)
(* at the last of them, the attention cache has one cell for each, no others. *)
Holds(s) ==
  /\ mem.rec.toks = s
  /\ Coherent(mem)

(* Whatever order the API is called in, its answers tell the truth: the       *)
(* recurrent state and the attention cache both hold exactly the tokens that  *)
(* the calls that succeeded say are there.                                    *)
AnswersTellTruth == ~lost => Holds(view)

(* A snapshot stays restorable as long as the cells below it are the ones it  *)
(* was taken with, whatever was decoded, verified or committed since.         *)
SnapshotRestorable == ~lost /\ Restorable => RestoreAccepted(mem, saved.snap)

(* A history that was just finished describes the live sequence: row i is the *)
(* state after the i-th token of the captured batch.                          *)
HistoryDescribesBatch ==
  fresh /\ mem.hist.valid /\ mem.hist.tokens > 1 =>
    \A i \in 1..mem.hist.tokens :
      mem.rows[i] = ExactState(view, mem.hist.first + i)

(* llama.h on history commit: it "restores both recurrent states and trims    *)
(* KV" and "returns false on misuse".  A commit that returns true leaves the  *)
(* committed prefix of the tokens that were decoded.                          *)
CommitRefusesMisuse == last = [op |-> "commit", ok |-> TRUE] => Holds(view)
-----------------------------------------------------------------------------
(* The inductive invariant of a client that commits in time: what a capture   *)
(* and a snapshot promise between the calls.                                  *)

ClientTypeOK ==
  /\ mem \in Memory
  /\ view \in Seq(Token)
  /\ saved \in [snap : Snap, view : Seq(Token)]
  /\ fresh \in BOOLEAN /\ lost \in BOOLEAN

(* The rows hold the states after the tokens of the captured batch. *)
RowsDescribe ==
  mem.hist.tokens > 1 =>
    \A i \in 1..mem.hist.tokens :
      mem.rows[i] = ExactState(view, mem.hist.first + i)

(* The captured batch is the only one that is let in behind its start, so the *)
(* sequence ends with it or the batch is not there.                           *)
CaptureKept ==
  mem.hist.capturing =>
    /\ mem.hist.first >= 0 /\ mem.hist.tokens > 0
    /\ ~lost => /\ Len(view) <= mem.hist.first + mem.hist.tokens
                /\ Len(view) = mem.hist.first + mem.hist.tokens => RowsDescribe

FreshKept ==
  fresh => /\ ~lost /\ ~mem.hist.capturing
           /\ mem.hist.first >= 0 /\ mem.hist.tokens > 0
           /\ Len(view) = mem.hist.first + mem.hist.tokens
           /\ RowsDescribe

SavedKept ==
  saved # NoSaved =>
    /\ Len(saved.view) \in 1..Context
    /\ saved.snap.first = Len(saved.view)
    /\ saved.snap.rec = [pos |-> Len(saved.view) - 1, toks |-> saved.view, exact |-> TRUE]

ClientInv ==
  /\ ClientTypeOK
  /\ AnswersTellTruth
  /\ mem.rec.pos < 0 => mem.rec = EmptyRec
  /\ CaptureKept /\ FreshKept /\ SavedKept
=============================================================================
