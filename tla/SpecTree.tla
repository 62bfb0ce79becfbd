------------------------------ MODULE SpecTree ------------------------------
(***************************************************************************)
(* The tree decoder of examples/speculative/speculative.cpp, one question: *)
(* rounds of stochastic verification of the drafted branches, roll-back to *)
(* the kept branch, drafting of up to NSeq branches (draft_tree_original   *)
(* or draft_tree_prune) and one target decode of the whole tree.  Target   *)
(* and draft have a cache each, or share the target's (self-speculation).  *)
(*                                                                         *)
(* What the draft proposes, which candidates survive pruning and how many  *)
(* tokens the utility cascade allows are nondeterministic.  The target's   *)
(* sampler is its support: the tokens its truncated distribution lists     *)
(* after a text.  Return codes of llama_decode are ignored, as in the code *)
(* (outside the prompt): a refused batch leaves the cache and the output   *)
(* rows as they were.  The cache is large enough and unified (-kvu).       *)
(***************************************************************************)
EXTENDS KvStore, Sequences

CONSTANTS
  Token,
  EOG,           (* end-of-generation tokens                               *)
  Support(_),    (* tokens the target's sampler may draw after a text      *)
  Prompts,       (* tokenized prompts                                      *)
  Predict,       (* -n                                                     *)
  Cap,           (* --draft-max                                            *)
  PruneDepth,    (* prune_max_depth                                        *)
  PruneNodes,    (* prune_max_nodes                                        *)
  Options        (* [nseq, share, prune]: -np, shared cache, --prune       *)

ASSUME TreeAssumption ==
  /\ EOG \subseteq Token
  /\ Prompts \subseteq Seq(Token) \ {<< >>}
  /\ Predict \in Nat /\ Cap \in Nat
  /\ PruneDepth \in Nat \ {0} /\ PruneNodes \in Nat \ {0}
  /\ Options \subseteq [nseq : Nat \ {0}, share : BOOLEAN, prune : BOOLEAN]
  /\ Inf \in Nat /\ \A p \in Prompts : Len(p) + Predict + Cap <= Inf

VARIABLES
  pc,
  opt,              (* the options of this process                         *)
  mem,              (* the caches of target ("t") and draft ("d")          *)
  out,              (* the output rows of the last decode of each context  *)
  prompt, text,     (* the prompt; the prompt and all tokens printed       *)
  past,             (* n_past_tgt, n_past_dft                              *)
  drafts,           (* the vector<seq_draft>                               *)
  keep, scanned,    (* s_keep, i_dft                                       *)
  open, seen,       (* active_seqs; p_tgt holds an earlier candidate's     *)
  ndraft,           (* n_draft_active                                      *)
  step, todo,       (* draft depth; sequences yet to propose at this depth *)
  nseq,             (* n_seq_cur                                           *)
  batch,            (* batch_tgt and batch_dft                             *)
  chosen            (* active_seq, selected_nodes of draft_tree_prune      *)

vars == << pc, opt, mem, out, prompt, text, past, drafts, keep, scanned, open, seen,
           ndraft, step, todo, nseq, batch, chosen >>

Ids == 0..(opt.nseq - 1)
Dft == IF opt.share THEN "t" ELSE "d"

-----------------------------------------------------------------------------
(* Caches and decoding.  A cell remembers the text it was computed on; it  *)
(* is exact if that text came from exact target cells only.                *)

Entry(t, p, first, seqs) == [tok |-> t, pos |-> p, first |-> first, seqs |-> seqs]

(* The cell computed for a batch entry: it attends to the cells of its     *)
(* first sequence at lower positions, and continues the text of the last.  *)
CellFor(m, engine, b) ==
  LET view   == {e \in Of(m, b.first) : e.pos < b.pos}
      before == {e.toks : e \in {x \in view : x.pos = b.pos - 1}}
      ctx    == IF before = {} THEN << >> ELSE CHOOSE t \in before : TRUE
  IN  [pos   |-> b.pos,
       seqs  |-> b.seqs,
       toks  |-> Append(ctx, b.tok),
       exact |-> /\ engine = "t"
                 /\ Cardinality(view) = b.pos /\ {e.pos : e \in view} = 0..(b.pos - 1)
                 /\ \A e \in view : e.exact /\ e.toks = SubSeq(ctx, 1, e.pos + 1)]

(* The cells of a batch, token by token: each sees the ones before it. *)
Grown(m, engine, cells, entry) ==
  Append(cells, CellFor(m \cup {cells[i] : i \in DOMAIN cells}, engine, entry))

CellsOf(m, engine, b) ==
  LET f[k \in 0..Len(b)] ==
        IF k = 0 THEN << >>
        ELSE CHOOSE q \in {Grown(m, engine, cells, b[k]) : cells \in {f[k - 1]}} : TRUE
  IN  f[Len(b)]

(* The cache and the output rows after a batch. *)
Decoding(m, engine, b) ==
  CHOOSE r \in {[mem  |-> m \cup {cells[i] : i \in DOMAIN cells},
                 rows |-> [i \in DOMAIN cells |->
                             [toks |-> cells[i].toks, exact |-> cells[i].exact]]] :
                   cells \in {CellsOf(m, engine, b)}} : TRUE

(* The positions of every sequence continue its cache without a hole. *)
DecodeAccepted(m, b) ==
  /\ b # << >>
  /\ \A s \in UNION {b[k].seqs : k \in DOMAIN b} :
       LET ps == {b[k].pos : k \in {j \in DOMAIN b : s \in b[j].seqs}}
           lo == CHOOSE p \in ps : \A q \in ps : p <= q
           hi == CHOOSE p \in ps : \A q \in ps : q <= p
       IN  /\ PosMax(m, s) \in {-1, lo - 1}
           /\ ps = lo..hi

(* llama_decode; a refused batch changes nothing. *)
Decoded(m, rows, engine, b) ==
  IF DecodeAccepted(m, b) THEN Decoding(m, engine, b) ELSE [mem |-> m, rows |-> rows]

Prefix(toks, from, to) == [i \in 1..(to - from + 1) |-> Entry(toks[from + i - 1], from + i - 2, 0, {0})]

-----------------------------------------------------------------------------
NoDraft == [active |-> FALSE, drafting |-> FALSE, tokens |-> << >>,
            rowT |-> << >>, rowD |-> 1]

Init ==
  /\ pc = "prefill"
  /\ opt \in Options
  /\ mem = [t |-> {}, d |-> {}]
  /\ out = [t |-> << >>, d |-> << >>]
  /\ prompt \in Prompts
  /\ text = prompt
  /\ past = [t |-> Len(text), d |-> Len(text)]
  /\ drafts = [s \in Ids |-> IF s = 0 THEN [NoDraft EXCEPT !.rowT = << 1 >>] ELSE NoDraft]
  /\ keep = 0 /\ scanned = 0 /\ open = {} /\ seen = FALSE
  /\ ndraft = 0 /\ step = 0 /\ todo = {} /\ nseq = 1
  /\ batch = [t |-> << >>, d |-> << >>]
  /\ chosen = [seqs |-> {0}, nodes |-> 0]

(* The prompt but its last token, then that token; a draft with its own    *)
(* cache decodes the whole prompt.  A failure skips the question.          *)
Prefill ==
  /\ pc = "prefill"
  /\ LET n    == Len(text)
         head == Prefix(text, 1, n - 1)
         last == Prefix(text, n, n)
         all  == Prefix(text, 1, n)
         tgt  == Decoding(Decoding({}, "t", head).mem, "t", last)
         dft  == Decoding({}, "d", all)
     IN  IF head = << >>
         THEN pc' = "skipped" /\ UNCHANGED << mem, out >>
         ELSE /\ pc' = "round"
              /\ mem' = [t |-> tgt.mem, d |-> IF opt.share THEN {} ELSE dft.mem]
              /\ out' = [t |-> tgt.rows, d |-> IF opt.share THEN << >> ELSE << dft.rows[n] >>]
  /\ UNCHANGED << opt, prompt, text, past, drafts, keep, scanned, open, seen, ndraft, step,
                  todo, nseq, batch, chosen >>

-----------------------------------------------------------------------------
(* Verification. *)

BeginRound ==
  /\ pc = "round"
  /\ ndraft' \in 0..Cap
  /\ open' = {s \in Ids : drafts[s].active}
  /\ keep' = 0 /\ scanned' = 0 /\ seen' = FALSE
  /\ pc' = "verify"
  /\ UNCHANGED << opt, mem, out, prompt, text, past, drafts, step, todo, nseq, batch, chosen >>

(* The output row the target's distribution is taken from. *)
Consulted == out.t[drafts[keep].rowT[scanned + 1]]

Listed(t) == Consulted.exact => t \in Support(Consulted.toks)

(* The only listed token has probability 1, and is never rejected. *)
Certain(t) == Consulted.exact /\ Support(Consulted.toks) = {t}

(* Mutant of Acceptable: the draft's probability alone decides. *)
AcceptableByDraft(t) == TRUE

(* r <= p_tgt / p_dft; p_tgt is not reset between the candidates of one    *)
(* position, so a token that is not listed meets the value before it.      *)
Acceptable(t) == Listed(t) \/ seen

Candidate(s) == drafts[s].tokens[scanned + 1]

(* Mutant of DropExhausted: a sequence without a token stays active. *)
DropNothing(s) ==
  /\ pc = "verify" /\ s \in open
  /\ scanned >= Len(drafts[s].tokens)
  /\ UNCHANGED vars

DropExhausted(s) ==
  /\ pc = "verify" /\ s \in open
  /\ scanned >= Len(drafts[s].tokens)
  /\ open' = open \ {s}
  /\ UNCHANGED << pc, opt, mem, out, prompt, text, past, drafts, keep, scanned, seen, ndraft,
                  step, todo, nseq, batch, chosen >>

(* The loop is left at once: the other sequences stay in active_seqs, also *)
(* those that drafted another token here.                                  *)
Accept(s) ==
  /\ pc = "verify" /\ s \in open
  /\ scanned < Len(drafts[s].tokens)
  /\ Acceptable(Candidate(s))
  /\ keep' = s
  /\ text' = Append(text, Candidate(s))
  /\ past' = [t |-> past.t + 1, d |-> past.d + 1]
  /\ scanned' = scanned + 1
  /\ seen' = FALSE
  /\ UNCHANGED << pc, opt, mem, out, prompt, drafts, open, ndraft, step, todo, nseq, batch,
                  chosen >>

(* Sequences with the same token are meant to go too, but s is erased twice. *)
Reject(s) ==
  /\ pc = "verify" /\ s \in open
  /\ scanned < Len(drafts[s].tokens)
  /\ ~Certain(Candidate(s))
  /\ open' = open \ {s}
  /\ seen' = (seen \/ Listed(Candidate(s)))
  /\ UNCHANGED << pc, opt, mem, out, prompt, text, past, drafts, keep, scanned, ndraft, step,
                  todo, nseq, batch, chosen >>

(* No candidate is left: the target's (residual) distribution is sampled.  *)
SampleTarget ==
  /\ pc = "verify" /\ open = {}
  /\ \E t \in Token : Listed(t) /\ text' = Append(text, t)
  /\ pc' = "keep"
  /\ UNCHANGED << opt, mem, out, prompt, past, drafts, keep, scanned, open, seen, ndraft, step,
                  todo, nseq, batch, chosen >>

-----------------------------------------------------------------------------
(* Roll-back to the kept branch and the draft's decode of the last token.  *)

OnlyKept(m) == SeqKeep(SeqCp(SeqKeep(m, keep), keep, 0, 0, Inf), 0)

(* A cache of its own is cut behind the accepted tokens; the shared one    *)
(* only when the draft is about to decode, and before the target does.     *)
KeptCaches ==
  IF opt.share THEN [mem EXCEPT !.t = OnlyKept(mem.t)]
  ELSE [t |-> OnlyKept(SeqRm(mem.t, keep, past.t, Inf)), d |-> OnlyKept(mem.d)]

(* Mutant of DraftTrimmed: rejected tokens stay in the draft's cache. *)
DraftUntrimmed(m) == m

DraftTrimmed(m) == SeqRm(m, 0, past.d, Inf)

Printed == SubSeq(text, Len(prompt) + 1, Len(text))
HasEos  == \E i \in DOMAIN Printed : Printed[i] \in EOG

MaxNodes == IF PruneNodes <= ndraft THEN PruneNodes ELSE IF ndraft >= 1 THEN ndraft ELSE 1

(* Depths the round drafts at most. *)
Depths == IF opt.prune /\ PruneDepth < ndraft THEN PruneDepth ELSE ndraft

KeepBranch ==
  /\ pc = "keep"
  /\ LET root == text[Len(text)]
         b    == << Entry(root, past.d, 0, {0}) >>
         kept == KeptCaches
         dec  == Decoded(DraftTrimmed(kept[Dft]), out.d, "d", b)
         ends == Len(Printed) > Predict \/ HasEos
     IN  /\ mem' = [kept EXCEPT ![Dft] = dec.mem]
         /\ out' = [out EXCEPT !.d = dec.rows]
         /\ drafts' = [s \in Ids |->
              IF s # 0 THEN [NoDraft EXCEPT !.rowD = drafts[s].rowD]
              ELSE [active |-> ~ends, drafting |-> ~ends, tokens |-> << root >>,
                    rowT |-> << 1 >>, rowD |-> 1]]
         /\ batch' = [t |-> << Entry(root, past.t, 0, {0}) >>, d |-> << >>]
         /\ pc' = IF ends THEN "done" ELSE IF ndraft = 0 THEN "target" ELSE "draft"
  /\ past' = [past EXCEPT !.d = @ + 1]
  /\ step' = 0 /\ todo' = {0} /\ nseq' = 1
  /\ chosen' = [seqs |-> {0}, nodes |-> 0]
  /\ UNCHANGED << opt, prompt, text, keep, scanned, open, seen, ndraft >>

-----------------------------------------------------------------------------
(* Drafting, depth by depth. *)

Distinct(q) == \A i, j \in DOMAIN q : q[i] = q[j] => i = j

LowestOf(S) == CHOOSE s \in S : \A x \in S : s <= x

(* A drafting sequence proposes its best token, and splits into free       *)
(* sequences for the tokens that come next; with pruning not at depth 0,   *)
(* and what reaches the target's batch is decided later.                   *)
Propose ==
  /\ pc = "draft" /\ todo # {}
  /\ LET s     == LowestOf(todo)
         room  == IF opt.prune /\ step = 0 THEN 0 ELSE opt.nseq - nseq
     IN  \E toks \in UNION {[1..k -> Token] : k \in 1..(1 + room)} :
           /\ Distinct(toks)
           /\ LET k     == Len(toks)
                  new   == nseq..(nseq + k - 2)
                  seqOf == [i \in 1..k |-> IF i = 1 THEN s ELSE nseq + i - 2]
                  idx   == [n \in {s} \cup new |-> IF n = s THEN 1 ELSE n - nseq + 2]
                  split == {[e EXCEPT !.seqs = (@ \ new) \cup (IF s \in @ THEN new ELSE {})] :
                              e \in mem[Dft]}
                  shared == [i \in DOMAIN batch.t |->
                               IF s \in batch.t[i].seqs
                               THEN [batch.t[i] EXCEPT !.seqs = @ \cup new] ELSE batch.t[i]]
                  added(p) == [i \in 1..k |-> Entry(toks[i], p, seqOf[i], {seqOf[i]})]
              IN  /\ mem' = [mem EXCEPT ![Dft] = Held(split)]
                  /\ batch' = [t |-> IF opt.prune THEN batch.t
                                     ELSE shared \o added(past.t + step + 1),
                               d |-> batch.d \o added(past.d + step)]
                  /\ drafts' = [n \in Ids |->
                       IF n \notin {s} \cup new THEN drafts[n]
                       ELSE [active   |-> n \in new \/ drafts[s].active,
                             drafting |-> TRUE,
                             tokens   |-> Append(drafts[s].tokens, toks[idx[n]]),
                             rowT     |-> IF opt.prune THEN drafts[s].rowT
                                          ELSE Append(drafts[s].rowT, Len(batch.t) + idx[n]),
                             rowD     |-> Len(batch.d) + idx[n]]]
                  /\ nseq' = nseq + k - 1
  /\ todo' = todo \ {LowestOf(todo)}
  /\ UNCHANGED << pc, opt, out, prompt, text, past, keep, scanned, open, seen, ndraft, step,
                  chosen >>

(* The draft decodes a depth and the loop goes on, if there is a depth left. *)
NextDepth(m, drafting) ==
  /\ LET dec == Decoded(m, out.d, "d", batch.d)
     IN  /\ mem' = [mem EXCEPT ![Dft] = dec.mem]
         /\ out' = [out EXCEPT !.d = dec.rows]
  /\ step' = step + 1
  /\ pc' = IF step + 1 < Depths THEN "draft" ELSE "target"
  /\ todo' = drafting

DecodeDepth ==
  /\ pc = "draft" /\ todo = {} /\ ~opt.prune
  /\ NextDepth(mem[Dft], {s \in Ids : drafts[s].drafting})
  /\ batch' = [batch EXCEPT !.d = << >>]
  /\ UNCHANGED << opt, prompt, text, past, drafts, keep, scanned, open, seen, ndraft, nseq,
                  chosen >>

(* Sequences that proposed at this depth. *)
Proposed == UNION {batch.d[k].seqs : k \in DOMAIN batch.d}

(* Mutant of TakenBack: a pruned token stays in the draft. *)
NotTakenBack(toks) == toks

TakenBack(toks) == SubSeq(toks, 1, Len(toks) - 1)

(* draft_tree_prune: any of the candidates, in the order of their scores,  *)
(* as far as nodes and n_draft allow (the root counts as a drafted token). *)
(* The others take their token back, but batch_dft still carries it.       *)
Select ==
  /\ pc = "draft" /\ todo = {} /\ opt.prune
  /\ LET room == IF MaxNodes - chosen.nodes <= ndraft - Len(batch.t)
                 THEN MaxNodes - chosen.nodes ELSE ndraft - Len(batch.t)
     IN  \E sel \in UNION {[1..k -> Proposed] : k \in 0..Cardinality(Proposed)} :
           /\ Distinct(sel) /\ (sel = << >> \/ Len(sel) <= room)
           /\ LET picked  == {sel[i] : i \in DOMAIN sel}
                  dropped == (Proposed \ picked) \cap chosen.seqs
                  fresh   == picked \ chosen.seqs
                  nodes   == chosen.nodes + Len(sel)
                  last(s) == drafts[s].tokens[Len(drafts[s].tokens)]
                  shared  == [i \in DOMAIN batch.t |->
                                [batch.t[i] EXCEPT !.seqs =
                                   @ \cup {s \in fresh : \E k \in DOMAIN drafts[s].rowT :
                                                           drafts[s].rowT[k] = i}]]
                  added   == [i \in DOMAIN sel |->
                                Entry(last(sel[i]), past.t + step + 1, sel[i], {sel[i]})]
                  m       == {[e EXCEPT !.seqs = IF e.pos >= past.d + step
                                                 THEN @ \ dropped ELSE @] : e \in mem[Dft]}
                  full    == nodes >= MaxNodes \/ Len(batch.t) + Len(sel) >= ndraft
              IN  /\ drafts' = [s \in Ids |->
                       [active   |-> s \in chosen.seqs \cup picked,
                        drafting |-> s \in picked,
                        tokens   |-> IF s \in dropped
                                     THEN TakenBack(drafts[s].tokens) ELSE drafts[s].tokens,
                        rowT     |-> IF s \in picked
                                     THEN Append(drafts[s].rowT,
                                                 Len(batch.t) + CHOOSE i \in DOMAIN sel : sel[i] = s)
                                     ELSE drafts[s].rowT,
                        rowD     |-> drafts[s].rowD]]
                  /\ chosen' = [seqs |-> chosen.seqs \cup picked, nodes |-> nodes]
                  /\ batch' = [t |-> shared \o added, d |-> << >>]
                  /\ IF full \/ picked = {}
                     THEN /\ pc' = "target"
                          /\ mem' = [mem EXCEPT ![Dft] = Held(m)]
                          /\ UNCHANGED << out, step, todo >>
                     ELSE NextDepth(Held(m), picked)
  /\ UNCHANGED << opt, prompt, text, past, keep, scanned, open, seen, ndraft, nseq >>

-----------------------------------------------------------------------------
(* The target decodes the tree. *)

Spread(m) ==
  {[e EXCEPT !.seqs = Ids] : e \in SeqKeep(m, 0)}

(* Mutant of Rewound: the root's draft cell is not rolled back. *)
RewoundPastRoot ==
  IF opt.share THEN RmAny(Spread(mem.t), past.t + 1, Inf) ELSE Spread(mem.t)

(* Every sequence starts from sequence 0; in a shared cache the draft's    *)
(* cells are rolled back first.                                            *)
Rewound ==
  IF opt.share THEN RmAny(Spread(mem.t), past.t, Inf) ELSE Spread(mem.t)

DecodeTree ==
  /\ pc = "target"
  /\ LET dec == Decoded(Rewound, out.t, "t", batch.t)
     IN  /\ mem' = [mem EXCEPT !.t = dec.mem]
         /\ out' = [out EXCEPT !.t = dec.rows]
  /\ past' = [past EXCEPT !.t = @ + 1]
  /\ drafts' = [s \in Ids |->
       IF drafts[s].active THEN [drafts[s] EXCEPT !.tokens = Tail(@)] ELSE drafts[s]]
  /\ pc' = "round"
  /\ UNCHANGED << opt, prompt, text, keep, scanned, open, seen, ndraft, step, todo, nseq, batch,
                  chosen >>

Ended == pc \in {"done", "skipped"} /\ UNCHANGED vars

Verify == \E s \in Ids : DropExhausted(s) \/ Accept(s) \/ Reject(s)

Decode ==
  \/ Prefill \/ BeginRound \/ Verify \/ SampleTarget \/ KeepBranch
  \/ Propose \/ DecodeDepth \/ Select \/ DecodeTree

Next == Decode \/ Ended

Spec == Init /\ [][Next]_vars

(* One thread; every loop of a round is bounded by the drafted tokens. *)
FairSpec == Spec /\ WF_vars(Decode)

-----------------------------------------------------------------------------
(* Properties. *)

(* Every variable keeps its type, no sequence number or row index leaves   *)
(* its vector, and a drafted token has one row of the target's batch.      *)
TreeTypeOK ==
  /\ pc \in {"prefill", "skipped", "round", "verify", "keep", "draft", "target", "done"}
  /\ text \in Seq(Token)
  /\ \A e \in mem.t \cup mem.d : e.pos \in Nat /\ e.seqs \subseteq Ids /\ e.seqs # {}
  /\ keep \in Ids /\ open \subseteq Ids /\ todo \subseteq Ids /\ nseq \in 1..opt.nseq
  /\ \A s \in Ids : drafts[s].tokens \in Seq(Token)
  /\ pc = "target" => \A s \in Ids : drafts[s].active =>
       /\ Len(drafts[s].rowT) = Len(drafts[s].tokens)
       /\ \A k \in DOMAIN drafts[s].rowT : drafts[s].rowT[k] \in DOMAIN batch.t

(* The row a candidate is verified against was computed by the target on   *)
(* exact cells only, at the position behind the printed text, and on the   *)
(* last root and the accepted tokens of the kept sequence: no decode of    *)
(* the tree was refused, no draft cell survived the roll-back of a shared  *)
(* cache, no row index went stale when sequences were split or pruned.     *)
RowOfKeptBranch ==
  pc = "verify" =>
    LET d   == drafts[keep]
        row == Consulted
    IN  /\ row.exact
        /\ Len(row.toks) = Len(text)
        /\ \A i \in 1..scanned : row.toks[Len(text) - scanned + i] = d.tokens[i]
        /\ row.toks[Len(text) - scanned] = text[Len(text) - scanned]

(* With one draft sequence every printed token is one the target's sampler *)
(* may draw after the text printed before it, whatever the draft proposed. *)
OutputInSupport ==
  opt.nseq = 1 =>
    \A i \in (Len(prompt) + 1)..Len(text) : text[i] \in Support(SubSeq(text, 1, i - 1))

(* A sequence is continued from the draft's own row for it: the row holds  *)
(* the text of the sequence up to its last token.  Not claimed for pruning *)
(* with separate caches, where the last depth is never decoded and, once   *)
(* all of it is accepted, the draft's cache lacks a token for good.        *)
DraftFollowsBranch ==
  pc = "draft" /\ (opt.share \/ ~opt.prune) =>
    \A s \in todo :
      LET row == out.d[drafts[s].rowD]
          n   == Len(drafts[s].tokens)
      IN  /\ drafts[s].rowD \in DOMAIN out.d
          /\ Len(row.toks) = past.d + step
          /\ \A i \in 1..n : row.toks[Len(row.toks) - n + i] = drafts[s].tokens[i]

(* The question is answered: every round prints at least one token. *)
Answered == <>(pc \in {"done", "skipped"})

(* The branch kept in the target's cache is the text that was printed, but *)
(* for its last token ("if we already accepted a token, we can skip the    *)
(* rest": sequences that drafted another token leave the verification).    *)
KeptBranchIsText ==
  pc = "draft" =>
    \E e \in Of(mem.t, 0) : e.pos = past.t - 1 /\ e.toks = SubSeq(text, 1, Len(text) - 1)
=============================================================================
