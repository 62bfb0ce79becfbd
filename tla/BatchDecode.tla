----------------------------- MODULE BatchDecode -----------------------------
(***************************************************************************)
(* llama_context::decode() and the batch allocator it uses.  A batch is    *)
(* checked against the memory (llama_batch_allocr::init), cut into ubatches*)
(* in the way the memory asks for (init_batch of the memory types) and     *)
(* computed one ubatch at a time.  Every ubatch appends its rows to the    *)
(* output buffer, so the rows come in the order of the computation; decode *)
(* records the swaps that sort them, and the accessors apply them later.   *)
(*                                                                         *)
(* Tokens are named by their index in the batch, from 1.  A row of logits, *)
(* of hidden states or of expert choices is the index of the token it was  *)
(* computed from, 0 for anything else.  The memory is the set of positions *)
(* it holds of each sequence; whether it finds a slot is left open.        *)
(***************************************************************************)
EXTENDS Integers, Sequences, FiniteSets, SequencesExt

CONSTANTS
  Contexts,    (* memory types, with cparams.embeddings or not             *)
  NUbatch,     (* n_ubatch                                                 *)
  NSeq,        (* sequence ids 0..NSeq-1                                   *)
  SeqLists,    (* the seq_id lists a token may have                        *)
  Capture,     (* does the model capture hidden states?                    *)
  PosLists,    (* positions the caller may give, << >>: none               *)
  Marks,       (* the sets of tokens the caller may mark for output        *)
  MaxTokens,   (* bound: tokens of a batch                                 *)
  MaxPos       (* bound: positions                                         *)

Seqs == 0..(NSeq - 1)
Pos == 0..MaxPos

ASSUME DecodeAssumption ==
  /\ Contexts \subseteq [kind : {"unified", "iswa", "streams", "hybrid"},
                         embeddings : BOOLEAN]
  /\ NUbatch \in Nat \ {0} /\ NSeq \in Nat \ {0}
  /\ \A l \in SeqLists : l # << >> /\ IsInjective(l) /\ ToSet(l) \subseteq Seqs
  /\ Capture \in BOOLEAN
  /\ PosLists \subseteq Seq(Nat)
  /\ \A m \in Marks : m \subseteq 1..MaxTokens

VARIABLES
  ctx,         (* the context, never changed                               *)
  mem,         (* the positions the memory holds of each sequence          *)
  call,        (* the last batch that got its slots and how far it is      *)
  outputs,     (* the output buffer: rows, output_ids, n_outputs, swaps    *)
  hidden,      (* current_batch_eagle_hs                                   *)
  graph,       (* the hidden states of the graph computed last             *)
  topk,        (* the expert choices logged for the batch, << >>: none     *)
  answer       (* history: whose hidden state the last answer was          *)

vars == << ctx, mem, call, outputs, hidden, graph, topk, answer >>

NoBatch == [seqs |-> << >>, pos |-> << >>, out |-> {}]
NoCall == [batch |-> NoBatch, ubatches |-> << >>, outIds |-> << >>, at |-> 1, ret |-> "none"]

Init ==
  /\ ctx \in Contexts
  /\ mem = [s \in Seqs |-> {}]
  /\ call = NoCall
  /\ outputs = [rows |-> [j \in 1..MaxTokens |-> 0], ids |-> [i \in 1..MaxTokens |-> 0],
                n |-> 0, swaps |-> << >>]
  /\ hidden = << >> /\ graph = << >> /\ topk = << >>
  /\ answer = "none"

-----------------------------------------------------------------------------
(* The memory, as decode() uses it. *)

seq_pos_max(m, s) == IF m[s] = {} THEN -1 ELSE Max(m[s])

(* The recurrent half of a hybrid memory only knows the last position. *)
seq_pos_min(m, s) ==
  IF m[s] = {} THEN -1 ELSE IF ctx.kind = "hybrid" THEN Max(m[s]) ELSE Min(m[s])

(* seq_rm(s, p, -1).  A hybrid memory cannot give up a part of a sequence. *)
RemoveFrom(m, s, p) ==
  IF ctx.kind = "hybrid" /\ p \in 1..seq_pos_max(m, s)
  THEN m
  ELSE [m EXCEPT ![s] = {q \in @ : q < p}]

-----------------------------------------------------------------------------
(* llama_batch_allocr: init and the ways of splitting. *)

NTokens(b) == Len(b.seqs)
SeqSet(b, i) == ToSet(b.seqs[i])
PosOf(b, s) == {b.pos[i] : i \in {j \in 1..NTokens(b) : s \in SeqSet(b, j)}}

(* Positions of a batch without any: each sequence goes on where it ended. *)
AutoPos(seqs, m) ==
  FoldLeft(LAMBDA acc, l :
             LET p == acc.next[l[1]] IN
             [next |-> [s \in Seqs |-> IF s \in ToSet(l) THEN p + 1 ELSE acc.next[s]],
              pos  |-> Append(acc.pos, p)],
           [next |-> [s \in Seqs |-> seq_pos_max(m, s) + 1], pos |-> << >>], seqs).pos

(* Pairs of sequences with a token of both: not the first with the first. *)
Coupled(b) ==
  UNION {{<< b.seqs[i][k], b.seqs[i][1] >> : k \in 2..Len(b.seqs[i])} : i \in 1..NTokens(b)}

(* The consistency checks of init().  Its last two tests cannot fail: the  *)
(* sets met for a sequence all contain that sequence, so cur_seq_set is    *)
(* never empty, and cur_seq_pos stays -1.                                  *)
Consistent(b, m) ==
  /\ \A s \in Seqs :
       LET ps == PosOf(b, s) IN
       ps # {} => /\ m[s] # {} => Min(ps) = seq_pos_max(m, s) + 1
                  /\ Max(ps) - Min(ps) + 1 <= Cardinality(ps)
  /\ \A c \in Coupled(b) : /\ seq_pos_min(m, c[1]) = seq_pos_min(m, c[2])
                           /\ seq_pos_max(m, c[1]) = seq_pos_max(m, c[2])

Unused(b, used) == SelectSeq([i \in 1..NTokens(b) |-> i], LAMBDA i : i \notin used)

split_simple(b, used) ==
  LET free == Unused(b, used)
      idxs == SubSeq(free, 1, Min({NUbatch, Len(free)}))
  IN  [idxs |-> idxs, n_seqs |-> Len(idxs)]

(* Mutant: the ids of the sets need not be consecutive. *)
AnyNextSequence(b, used, sequential) ==
  FoldLeft(LAMBDA acc, i :
             IF /\ Len(acc) <= NUbatch
                /\ \A k \in 1..Len(acc) : SeqSet(b, acc[k]) \cap SeqSet(b, i) = {}
             THEN Append(acc, i) ELSE acc,
           << >>, Unused(b, used))

(* The sets of split_equal: taken from the unused tokens in order as long  *)
(* as they overlap no set taken and, when sequential, continue its ids.    *)
ChosenSets(b, used, sequential) ==
  FoldLeft(LAMBDA acc, i :
             IF /\ Len(acc) <= NUbatch
                /\ \A k \in 1..Len(acc) : SeqSet(b, acc[k]) \cap SeqSet(b, i) = {}
                /\ sequential /\ acc # << >> => b.seqs[i][1] = b.seqs[Last(acc)][1] + 1
             THEN Append(acc, i) ELSE acc,
           << >>, Unused(b, used))

(* Mutant: the tokens of a set are taken from its end. *)
TakeFromEnd(b, used, sequential) ==
  LET firsts == ChosenSets(b, used, sequential)
      n == Len(firsts)
      queue == [k \in 1..n |-> SelectSeq(Unused(b, used),
                                         LAMBDA i : SeqSet(b, i) = SeqSet(b, firsts[k]))]
      rounds == Min({Max({1, NUbatch \div n})} \cup {Len(queue[k]) : k \in 1..n})
  IN  IF n = 0 \/ (sequential /\ Coupled(b) # {})
      THEN [idxs |-> << >>, n_seqs |-> 0]
      ELSE [idxs |-> FlattenSeq([k \in 1..n |-> SubSeq(queue[k], Len(queue[k]) - rounds + 1,
                                                       Len(queue[k]))]), n_seqs |-> n]

split_equal(b, used, sequential) ==
  LET firsts == ChosenSets(b, used, sequential)
      n == Len(firsts)
      queue == [k \in 1..n |-> SelectSeq(Unused(b, used),
                                         LAMBDA i : SeqSet(b, i) = SeqSet(b, firsts[k]))]
      rounds == Min({Max({1, NUbatch \div n})} \cup {Len(queue[k]) : k \in 1..n})
  IN  IF n = 0 \/ (sequential /\ Coupled(b) # {})
      THEN [idxs |-> << >>, n_seqs |-> 0]
      ELSE [idxs |-> FlattenSeq([k \in 1..n |-> SubSeq(queue[k], 1, rounds)]), n_seqs |-> n]

(* The set of every further token is a subset of the one before. *)
split_seq(b, used) ==
  LET idxs == FoldLeft(LAMBDA acc, i :
                         IF /\ Len(acc) < NUbatch
                            /\ acc # << >> => SeqSet(b, i) \subseteq SeqSet(b, Last(acc))
                         THEN Append(acc, i) ELSE acc,
                       << >>, Unused(b, used))
  IN  [idxs |-> idxs, n_seqs |-> 1]

Split(b, used, how) ==
  CASE how = "simple"     -> split_simple(b, used)
    [] how = "equal"      -> split_equal(b, used, FALSE)
    [] how = "sequential" -> split_equal(b, used, TRUE)
    [] how = "seq"        -> split_seq(b, used)

(* The allocator between two splits: tokens used, outputs met, ubatches. *)
split_reset(a) == [used |-> {}, outIds |-> << >>, ubatches |-> << >>]

ubatch_add(a, u, b) ==
  IF u.idxs = << >> THEN a
  ELSE [used     |-> a.used \cup ToSet(u.idxs),
        outIds   |-> a.outIds \o SelectSeq(u.idxs, LAMBDA i : i \in b.out),
        ubatches |-> Append(a.ubatches, u)]

(* One attempt of init_batch(): split until nothing is left to take. *)
SplitAll(a, how, b) ==
  LET after[k \in 0..NTokens(b)] ==
        IF k = 0 THEN split_reset(a)
        ELSE ubatch_add(after[k - 1], Split(b, after[k - 1].used, how), b)
  IN  after[NTokens(b)]

(* The ways of splitting each memory type tries, in order. *)
Attempts(embd_all) ==
  CASE ctx.kind = "unified" -> << "simple" >>
    [] ctx.kind = "iswa"    -> << "simple", "equal" >>
    [] ctx.kind = "streams" -> << "sequential" >>
    [] ctx.kind = "hybrid"  -> << IF embd_all THEN "seq" ELSE "equal" >>

(* The allocator after the first n attempts. *)
AfterAttempts(b, embd_all, n) ==
  FoldLeft(LAMBDA a, how : SplitAll(a, how, b),
           [used |-> {}, outIds |-> << >>, ubatches |-> << >>],
           SubSeq(Attempts(embd_all), 1, n))

-----------------------------------------------------------------------------
(* llama_context: the output buffer. *)

Swap(q, i, j) == [q EXCEPT ![i] = q[j], ![j] = q[i]]

(* The selection sort of decode() over out_ids, with the swaps it made. *)
SortOutIds(ids) ==
  FoldLeft(LAMBDA acc, i :
             LET j == CHOOSE k \in i..Len(ids) : acc.ids[k] = Min({acc.ids[l] : l \in i..Len(ids)})
             IN  IF j = i THEN acc
                 ELSE [ids |-> Swap(acc.ids, i, j), swaps |-> Append(acc.swaps, << i, j >>)],
           [ids |-> ids, swaps |-> << >>], [k \in 1..(Len(ids) - 1) |-> k])

(* output_ids: the row of each token, 0 (-1 in the code) for none. *)
IdsOf(ids) == [i \in 1..MaxTokens |-> IF \E j \in 1..Len(ids) : ids[j] = i
                                      THEN CHOOSE j \in 1..Len(ids) : ids[j] = i ELSE 0]

(* output_reorder(): apply the swaps decode() left. *)
output_reorder(o) ==
  [o EXCEPT !.rows = FoldLeft(LAMBDA r, w : Swap(r, w[1], w[2]), o.rows, o.swaps),
            !.swaps = << >>]

(* decode() drops the swaps of the batch before; the mutant forgets to. *)
KeepSwaps(o) == o

ClearSwaps(o) == [o EXCEPT !.swaps = << >>]

(* output_reserve(): what the buffer holds is from an earlier batch. *)
output_reserve(o) ==
  [o EXCEPT !.rows = [j \in 1..MaxTokens |-> 0], !.ids = [i \in 1..MaxTokens |-> 0], !.n = 0]

(* The outputs of a ubatch go behind those of the ubatches before it. *)
ExtractRows(o, u, prev, b) ==
  LET new == SelectSeq(u.idxs, LAMBDA i : i \in b.out) IN
  [o EXCEPT !.rows = [j \in 1..MaxTokens |->
                        IF j - prev \in 1..Len(new) THEN new[j - prev] ELSE o.rows[j]],
            !.n = Len(new)]

(* The output mapping at the end of decode(). *)
MapOutputs(o, outIds) ==
  LET sorted == SortOutIds(outIds)
      inOrder == \A k \in 1..Len(outIds) : outIds[k] = k
  IN  [o EXCEPT !.n = Len(outIds),
                !.ids = IF inOrder THEN IdsOf(outIds) ELSE IdsOf(sorted.ids),
                !.swaps = IF inOrder THEN o.swaps ELSE sorted.swaps]

(* The hidden states a graph holds. *)
CapturedRows(u) == IF Capture THEN u.idxs ELSE << >>

(* Mutant: rows go where they are in the ubatch. *)
TopkInUbatchOrder(t, u, b) ==
  [i \in 1..NTokens(b) |-> IF i \in DOMAIN u.idxs THEN u.idxs[i]
                           ELSE IF t = << >> THEN 0 ELSE t[i]]

(* extract_moe_topk_from_ubatch(): rows go to the place of their token. *)
ExtractTopk(t, u, b) ==
  [i \in 1..NTokens(b) |-> IF i \in ToSet(u.idxs) THEN i ELSE IF t = << >> THEN 0 ELSE t[i]]

-----------------------------------------------------------------------------
(* The calls. *)

Idle == call.ret # "computing"
Ubatch == call.ubatches[call.at]
OutputsBefore(k) ==
  Cardinality({i \in call.batch.out : \E l \in 1..(k - 1) : i \in ToSet(call.ubatches[l].idxs)})

(* The checked batch, of positions given or not, of outputs marked or all. *)
BatchOf(seqs, pos, marks, output_all) ==
  [seqs |-> seqs, pos |-> IF pos = << >> THEN AutoPos(seqs, mem) ELSE pos,
   out |-> IF output_all THEN DOMAIN seqs ELSE marks \cap DOMAIN seqs]

(* llama_decode() up to the first ubatch.  With no consistent batch it     *)
(* returns -1, with no split or no slot 1; n is the attempt at a split     *)
(* that got its slots.                                                     *)
Decode(seqs, pos, marks) ==
  LET output_all == ctx.embeddings
      b == BatchOf(seqs, pos, marks, output_all) IN
  /\ Idle
  /\ ctx.kind = "hybrid" => \A i \in DOMAIN seqs : Len(seqs[i]) = 1   \* bound
  /\ ToSet(b.pos) \subseteq Pos
  /\ hidden' = << >>
  /\ answer' = "none"
  /\ UNCHANGED << ctx, mem, graph >>
  /\ IF ~Consistent(b, mem)
     THEN UNCHANGED << call, outputs, topk >>
     ELSE /\ topk' = << >>
          /\ \/ \E n \in 1..Len(Attempts(output_all)) :
                 LET allocr == AfterAttempts(b, output_all, n) IN
                 /\ allocr.used = 1..NTokens(b)
                 /\ call' = [batch |-> b, ubatches |-> allocr.ubatches,
                             outIds |-> allocr.outIds, at |-> 1, ret |-> "computing"]
                 /\ outputs' = output_reserve(ClearSwaps(outputs))
             \/ /\ call' = [NoCall EXCEPT !.ret = "no slot"]
                /\ outputs' = ClearSwaps(outputs)

Apply(m, u, b) ==
  [s \in Seqs |-> m[s] \cup {b.pos[i] : i \in {j \in ToSet(u.idxs) : s \in SeqSet(b, j)}}]

(* The next ubatch is computed; after the last one the outputs are mapped. *)
ComputeUbatch ==
  LET last == call.at = Len(call.ubatches)
      o == ExtractRows(outputs, Ubatch, OutputsBefore(call.at), call.batch)
  IN
  /\ ~Idle
  /\ mem' = Apply(mem, Ubatch, call.batch)
  /\ graph' = CapturedRows(Ubatch)
  /\ hidden' = hidden \o CapturedRows(Ubatch)
  /\ topk' = ExtractTopk(topk, Ubatch, call.batch)
  /\ outputs' = IF last THEN MapOutputs(o, call.outIds) ELSE o
  /\ call' = [call EXCEPT !.at = @ + 1, !.ret = IF last THEN "ok" ELSE "computing"]
  /\ UNCHANGED << ctx, answer >>

(* Mutant: only the last position is taken back. *)
RollBackLast(m, u, b) ==
  LET firsts == {b.seqs[i][1] : i \in ToSet(u.idxs)}
      greatest(s) == Max({b.pos[i] : i \in {j \in ToSet(u.idxs) : b.seqs[j][1] = s}})
  IN  [s \in Seqs |-> IF s \in firsts THEN RemoveFrom(m, s, greatest(s))[s] ELSE m[s]]

(* The positions decode() takes back when a ubatch fails: for the first    *)
(* sequence of each token, everything from its least position on.          *)
RollBack(m, u, b) ==
  LET firsts == {b.seqs[i][1] : i \in ToSet(u.idxs)}
      least(s) == Min({b.pos[i] : i \in {j \in ToSet(u.idxs) : b.seqs[j][1] = s}})
  IN  [s \in Seqs |-> IF s \in firsts THEN RemoveFrom(m, s, least(s))[s] ELSE m[s]]

(* A ubatch fails or is aborted, before (applied = FALSE) or after the     *)
(* memory took its tokens.  The number of outputs is already its own.      *)
UbatchFails(applied) ==
  LET new == SelectSeq(Ubatch.idxs, LAMBDA i : i \in call.batch.out) IN
  /\ ~Idle
  /\ mem' = RollBack(IF applied THEN Apply(mem, Ubatch, call.batch) ELSE mem,
                     Ubatch, call.batch)
  /\ graph' = IF applied THEN CapturedRows(Ubatch) ELSE graph
  /\ outputs' = [outputs EXCEPT !.n = Len(new)]
  /\ call' = [call EXCEPT !.ret = "failed"]
  /\ UNCHANGED << ctx, hidden, topk, answer >>

(* llama_get_logits(), llama_get_logits_ith() and the embeddings: the      *)
(* pending swaps are applied before the row is looked up.                  *)
GetLogits ==
  /\ Idle
  /\ outputs' = output_reorder(outputs)
  /\ UNCHANGED << ctx, mem, call, hidden, graph, topk, answer >>

(* llama_context_get_eagle_hs_at_batch_idx(): the buffer is replaced by    *)
(* the rows of the graph computed last.                                    *)
GetEagleHs(i) ==
  /\ Idle
  /\ hidden' = IF graph = << >> THEN hidden ELSE graph
  /\ answer' = IF i \notin DOMAIN hidden' THEN "null"
               ELSE IF hidden'[i] = i THEN "own" ELSE "other"
  /\ UNCHANGED << ctx, mem, call, outputs, graph, topk >>

(* llama_memory_seq_rm(s, p, -1) by the caller. *)
SeqRm(s, p) ==
  /\ Idle
  /\ mem' = RemoveFrom(mem, s, p)
  /\ UNCHANGED << ctx, call, outputs, hidden, graph, topk, answer >>

DecodeAny ==
  \E n \in 1..MaxTokens, marks \in Marks :
    \E seqs \in [1..n -> SeqLists] :
      \E pos \in {p \in PosLists : Len(p) \in {0, n}} :
        Decode(seqs, pos, marks)

Next ==
  \/ DecodeAny
  \/ ComputeUbatch
  \/ \E applied \in BOOLEAN : UbatchFails(applied)
  \/ GetLogits
  \/ \E i \in 1..MaxTokens : GetEagleHs(i)
  \/ \E s \in Seqs, p \in Pos : SeqRm(s, p)

Spec == Init /\ [][Next]_vars

-----------------------------------------------------------------------------
(* Properties. *)

Sharing(b, i, j) == SeqSet(b, i) \cap SeqSet(b, j) # {}
Order == FlattenSeq([k \in DOMAIN call.ubatches |-> call.ubatches[k].idxs])

(* After a decode that succeeded, whatever way the batch was split and     *)
(* whether or not the pending swaps were applied yet, llama_get_logits_ith *)
(* of a token marked for output finds the row computed from that token, of *)
(* any other token none, and the rows of llama_get_logits are in the order *)
(* of the batch.                                                           *)
LogitsOfToken ==
  call.ret = "ok" =>
    LET rows == output_reorder(outputs).rows
        out == call.batch.out
    IN  /\ outputs.n = Cardinality(out)
        /\ \A i \in 1..NTokens(call.batch) :
             IF i \in out THEN outputs.ids[i] \in 1..outputs.n /\ rows[outputs.ids[i]] = i
                          ELSE outputs.ids[i] = 0
        /\ \A j, k \in 1..outputs.n : j < k => rows[j] < rows[k]

(* The experts logged for a token are those of that token, although the    *)
(* tokens are computed in another order (extract_moe_topk_from_ubatch).    *)
TopkOfToken ==
  call.ret = "ok" => topk = [i \in 1..NTokens(call.batch) |-> i]

(* A batch that is computed is split into ubatches that hold every token   *)
(* once; those of split_equal and split_seq are blocks of equal length of  *)
(* one sequence set each, and with a stream per sequence the sets have     *)
(* consecutive ids, which find_slot() of the cache relies on.              *)
UbatchesWellFormed ==
  /\ ToSet(Order) = 1..NTokens(call.batch) /\ IsInjective(Order)
  /\ ctx.kind \in {"streams", "hybrid"} =>
       \A k \in DOMAIN call.ubatches :
         LET u == call.ubatches[k]
             len == Len(u.idxs) \div u.n_seqs
             block(i) == (i - 1) \div len
             set(i) == call.batch.seqs[u.idxs[i]]
         IN  /\ Len(u.idxs) = len * u.n_seqs
             /\ \A i, j \in DOMAIN u.idxs :
                  /\ block(i) = block(j) <=> set(i) = set(j)
                  /\ ctx.kind = "streams" => set(i)[1] - set(j)[1] = block(i) - block(j)

(* Tokens with some but not all sequences in common. *)
Mixed(b) == \E i, j \in 1..NTokens(b) : Sharing(b, i, j) /\ SeqSet(b, i) # SeqSet(b, j)

(* The tokens of a sequence are computed in the order of the batch, so     *)
(* that each finds its predecessors in the memory, except in a batch that  *)
(* mixes sequence sets, which split_equal and split_seq do reorder.        *)
SequenceOrderKept ==
  Mixed(call.batch) \/
    \A j, k \in DOMAIN Order :
      j < k /\ Sharing(call.batch, Order[j], Order[k]) => Order[j] < Order[k]

(* When a ubatch fails, an attention memory of every sequence that is the first of  *)
(* its tokens of the ubatch is left with exactly the ubatches computed     *)
(* before ("the ubatches that managed to be been processed will remain").  *)
RollbackExact ==
  [][(ctx.kind # "hybrid" /\ call.ret = "computing" /\ call'.ret = "failed") =>
       \A s \in Seqs :
         (\A i \in ToSet(Ubatch.idxs) :
            s \in SeqSet(call.batch, i) => call.batch.seqs[i][1] = s)
         => mem'[s] = mem[s] \/ Mixed(call.batch)]_vars

(* llama.h: llama_context_get_eagle_hs_at_batch_idx() is to "Extract EAGLE *)
(* hidden states for a specific token in the current batch".               *)
HiddenStateOfToken == call.ret = "ok" => answer # "other"
=============================================================================
