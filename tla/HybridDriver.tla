---------------------------- MODULE HybridDriver ----------------------------
(***************************************************************************)
(* generate() of examples/speculative-next/speculative-next.cpp: greedy    *)
(* generation for hybrid (recurrent + attention) models, either plainly    *)
(* autoregressive (--ar) or self-speculative.  A speculative round         *)
(*   - saves a partial snapshot of the shared memory,                      *)
(*   - lets the draft grow a bounded token tree depth first, forking the   *)
(*     same memory with one snapshot per branching ancestor,               *)
(*   - restores the snapshot and verifies root-to-leaf paths with the      *)
(*     target, one batch per path, under a captured history,               *)
(*   - commits the accepted prefix of each batch out of that history.      *)
(*                                                                         *)
(* The draft's proposals and the pruning verdicts are nondeterministic     *)
(* within the limits the code enforces.  The target's answer is            *)
(* Greedy(tokens) when it is computed on an exact memory, and any token    *)
(* when it is not: every leak of draft state into verification can show.   *)
(*                                                                         *)
(* A memory call that returns false makes generate() throw: pc becomes     *)
(* "refused" and stays so.  "failed" stands for every other exception.     *)
(***************************************************************************)
EXTENDS HybridMemory, FiniteSets

CONSTANTS
  Greedy(_),     (* argmax of the target's logits after a token sequence   *)
  EOG,           (* end-of-generation tokens                               *)
  IgnoreEos,     (* --ignore-eos                                           *)
  Predict,       (* -n                                                     *)
  Prompts,       (* tokenized prompts                                      *)
  Ar,            (* --ar                                                   *)
  ProbeAt,       (* --probe-batch2-at, or -1                               *)
  Reuse,         (* approximate expert reuse during verification           *)
  Draft,         (* --draft-max                                            *)
  Branches,      (* --draft-branches                                       *)
  Prune,         (* --prune                                                *)
  MaxDepth,      (* --prune-max-depth                                      *)
  MaxNodes       (* --prune-max-nodes; bounds the tree without --prune too *)

(* The options parse() lets through. *)
ValidOptions ==
  /\ IgnoreEos \in BOOLEAN /\ Ar \in BOOLEAN /\ Reuse \in BOOLEAN /\ Prune \in BOOLEAN
  /\ Predict \in Nat /\ ProbeAt \in Int
  /\ Draft \in 0..31 /\ Draft + 1 <= Ubatch /\ Ubatch <= 512
  /\ Branches \in 1..8
  /\ MaxDepth \in 0..31 /\ MaxNodes \in 0..512

(* generate() reserves a history row for the root and every draft token and   *)
(* insists on a prompt of at least one token.                                 *)
ASSUME DriverAssumption ==
  /\ ValidOptions
  /\ Capacity = Draft + 1
  /\ IsFiniteSet(Token)
  /\ EOG \subseteq Token
  /\ Prompts \subseteq Seq(Token) \ {<< >>}

VARIABLES
  pc,            (* where generate() is                                    *)
  mem,           (* the memory target and draft share                      *)
  out,           (* what the target's current output rows derive from      *)
  prompt, off,   (* the prompt and how much of it is decoded               *)
  emitted,       (* the tokens written so far                              *)
  pos, root,     (* next position; the target's last answer                *)
  prefix,        (* the round's snapshot                                   *)
  tree, stack,   (* the draft tree and the frames of expand()              *)
  path,          (* the tree path being verified                           *)
  verdict,       (* the scan of the verified path                          *)
  stats          (* accepted_total, proposed_total, rounds                 *)

vars == << pc, mem, out, prompt, off, emitted, pos, root, prefix, tree, stack,
           path, verdict, stats >>

Stop == IF IgnoreEos THEN {} ELSE EOG

Min2(a, b) == IF a <= b THEN a ELSE b

(* Mutant of Limit: the draft length is not a limit. *)
LimitWithoutDraft ==
  IF Prune THEN Min2(Predict - Len(emitted), Min2(MaxDepth, MaxNodes))
  ELSE Predict - Len(emitted)

(* Levels the draft may grow in this round. *)
Limit ==
  LET asked == Min2(Draft, Predict - Len(emitted))
  IN  IF Prune THEN Min2(asked, Min2(MaxDepth, MaxNodes)) ELSE asked

VerifyEngine == IF Reuse THEN "reuse" ELSE "target"

(* The argmax of an output row. *)
GreedyChoice(st, t) == st.exact => t = Greedy(st.toks)

NoSnap    == [first |-> -1, rec |-> EmptyRec]
NoVerdict == [scanned |-> 0, accepted |-> 0, alternate |-> 0, stopped |-> FALSE]

Node  == [tok : Token, children : Seq(Nat)]
Frame == [node : Nat, depth : Nat, kids : Seq(Nat), child : Nat, snap : Snap]

Entered(node, depth) ==
  [node |-> node, depth |-> depth, kids |-> << >>, child |-> 0, snap |-> NoSnap]

Init ==
  /\ pc = "start"
  /\ mem = FreshMemory
  /\ out = << >>
  /\ prompt \in Prompts
  /\ off = 0
  /\ emitted = << >>
  /\ pos = Len(prompt)
  /\ root = prompt[1]              \* not yet a target answer
  /\ prefix = NoSnap
  /\ tree = << >>
  /\ stack = << >>
  /\ path = << >>
  /\ verdict = NoVerdict
  /\ stats = [accepted |-> 0, proposed |-> 0, rounds |-> 0]

-----------------------------------------------------------------------------
(* Setup and prefill. *)

(* prompt + output must fit the context, or generate() throws. *)
Start ==
  /\ pc = "start"
  /\ pc' = IF Len(prompt) + Predict <= Context THEN "prefill" ELSE "failed"
  /\ UNCHANGED << mem, out, prompt, off, emitted, pos, root, prefix, tree, stack,
                  path, verdict, stats >>

Prefill ==
  /\ pc = "prefill"
  /\ off < Len(prompt)
  /\ LET chunk == SubSeq(prompt, off + 1, Min2(Len(prompt), off + Ubatch))
     IN  /\ pc'  = IF DecodeAccepted(mem, chunk, off) THEN "prefill" ELSE "refused"
         /\ mem' = DecodeTo(mem, "target", chunk, off)
         /\ out' = Outputs(mem, "target", chunk, off)
         /\ off' = off + Ubatch
  /\ UNCHANGED << prompt, emitted, pos, root, prefix, tree, stack, path, verdict,
                  stats >>

FirstRoot ==
  /\ pc = "prefill"
  /\ off >= Len(prompt)
  /\ root' \in Token
  /\ GreedyChoice(out[Len(out)], root')
  /\ pc' = "loop"
  /\ UNCHANGED << mem, out, prompt, off, emitted, pos, prefix, tree, stack, path,
                  verdict, stats >>

-----------------------------------------------------------------------------
(* The generation loop. *)

(* Mutant of EmitRoot: the root is written again after the round that chose it. *)
EmitRootTwice ==
  /\ pc = "loop"
  /\ Len(emitted) < Predict
  /\ root \notin Stop
  /\ emitted' = IF stats.rounds > 0 THEN emitted \o << root, root >>
                ELSE Append(emitted, root)
  /\ pc' = "rooted"
  /\ UNCHANGED << mem, out, prompt, off, pos, root, prefix, tree, stack, path,
                  verdict, stats >>

EmitRoot ==
  /\ pc = "loop"
  /\ Len(emitted) < Predict
  /\ root \notin Stop
  /\ emitted' = Append(emitted, root)
  /\ pc' = "rooted"
  /\ UNCHANGED << mem, out, prompt, off, pos, root, prefix, tree, stack, path,
                  verdict, stats >>

(* Mutant of LoopEnds: the output is one token short. *)
LoopEndsEarly ==
  /\ \/ pc = "loop" /\ (Len(emitted) >= Predict \/ root \in Stop)
     \/ pc = "rooted" /\ Len(emitted) >= Predict - 1
  /\ pc' = "done"
  /\ UNCHANGED << mem, out, prompt, off, emitted, pos, root, prefix, tree, stack,
                  path, verdict, stats >>

LoopEnds ==
  /\ \/ pc = "loop" /\ (Len(emitted) >= Predict \/ root \in Stop)
     \/ pc = "rooted" /\ Len(emitted) = Predict
  /\ pc' = "done"
  /\ UNCHANGED << mem, out, prompt, off, emitted, pos, root, prefix, tree, stack,
                  path, verdict, stats >>

(* The --ar path; the diagnostic probe leaves the memory as it found it. *)
ArProbe ==
  /\ pc = "rooted" /\ Ar
  /\ Len(emitted) # Predict
  /\ Len(emitted) = ProbeAt
  /\ \E single \in Token :
       LET saved == SnapshotOf(mem)
           m1 == DecodeTo(mem, "target", << root >>, pos)
           m2 == RestoreTo(m1, saved)
           m3 == DecodeTo(m2, "target", << root, single >>, pos)
       IN  /\ GreedyChoice(Outputs(mem, "target", << root >>, pos)[1], single)
           /\ mem' = RestoreTo(m3, saved)
           /\ pc' = IF /\ Ubatch >= 2
                       /\ DecodeAccepted(mem, << root >>, pos)
                       /\ RestoreAccepted(m1, saved)
                       /\ DecodeAccepted(m2, << root, single >>, pos)
                       /\ RestoreAccepted(m3, saved)
                    THEN "ar" ELSE "refused"
  /\ UNCHANGED << out, prompt, off, emitted, pos, root, prefix, tree, stack, path,
                  verdict, stats >>

ArStep ==
  /\ \/ pc = "ar"
     \/ pc = "rooted" /\ Ar /\ Len(emitted) # Predict /\ Len(emitted) # ProbeAt
  /\ pc' = IF DecodeAccepted(mem, << root >>, pos) THEN "loop" ELSE "refused"
  /\ mem' = DecodeTo(mem, "target", << root >>, pos)
  /\ out' = Outputs(mem, "target", << root >>, pos)
  /\ pos' = pos + 1
  /\ root' \in Token
  /\ GreedyChoice(out'[1], root')
  /\ UNCHANGED << prompt, off, emitted, prefix, tree, stack, path, verdict, stats >>

-----------------------------------------------------------------------------
(* Drafting: expand() as an explicit stack.  A frame with child = 0 has    *)
(* just been entered; child = k > 0 means that its k-th child comes next.  *)

StartRound ==
  /\ pc = "rooted" /\ ~Ar
  /\ Len(emitted) # Predict
  /\ prefix' = SnapshotOf(mem)
  /\ tree' = << [tok |-> root, children |-> << >>] >>
  /\ stack' = << Entered(1, 0) >>
  /\ pc' = "draft"
  /\ UNCHANGED << mem, out, prompt, off, emitted, pos, root, path, verdict, stats >>

Top == stack[Len(stack)]
Pop == SubSeq(stack, 1, Len(stack) - 1)

(* Children a node can get: the draft's best tokens in order, all of them  *)
(* without pruning, any subsequence with it, cut off at the node budget    *)
(* (prune_policy::kept always equals the number of non-root nodes).        *)
Selections(depth) ==
  LET width  == Min2(Branches, Cardinality(Token))
      room   == MaxNodes + 1 - Len(tree)
      widest == Min2(width, room)
      fewest == IF Prune THEN 0 ELSE widest
      most   == IF Prune /\ depth + 1 > MaxDepth THEN 0 ELSE widest
  IN  {s \in UNION {[1..k -> Token] : k \in fewest..most} :
         \A i, j \in DOMAIN s : s[i] = s[j] => i = j}

(* Mutant of Added: children.push_back() after the node was pushed. *)
AddedLate(n) == [k \in 1..n |-> Len(tree) + k + 1]

(* The indices the next n nodes get. *)
Added(n) == [k \in 1..n |-> Len(tree) + k]

Grow(node, sel) ==
  [i \in 1..(Len(tree) + Len(sel)) |->
     IF i > Len(tree) THEN [tok |-> sel[i - Len(tree)], children |-> << >>]
     ELSE IF i = node
          THEN [tree[i] EXCEPT !.children = Added(Len(sel))]
          ELSE tree[i]]

SkipNode ==
  /\ pc = "draft" /\ stack # << >>
  /\ Top.child = 0
  /\ Top.depth >= Limit \/ Len(tree) > MaxNodes
  /\ stack' = Pop
  /\ UNCHANGED << pc, mem, out, prompt, off, emitted, pos, root, prefix, tree, path,
                  verdict, stats >>

Expand ==
  /\ pc = "draft" /\ stack # << >>
  /\ Top.child = 0
  /\ Top.depth < Limit /\ Len(tree) <= MaxNodes
  /\ \E sel \in Selections(Top.depth) :
       LET batch == << tree[Top.node].tok >>
           m     == DecodeTo(mem, "draft", batch, pos + Top.depth)
           snap  == IF Len(sel) > 1 THEN SnapshotOf(m) ELSE NoSnap
       IN  /\ pc'   = IF DecodeAccepted(mem, batch, pos + Top.depth)
                      THEN "draft" ELSE "refused"
           /\ mem'  = m
           /\ tree' = Grow(Top.node, sel)
           /\ stack' = IF Top.depth + 1 >= Limit \/ sel = << >> THEN Pop
                       ELSE Append(Pop, [Top EXCEPT !.kids  = Added(Len(sel)),
                                                    !.child = 1,
                                                    !.snap  = snap])
  /\ UNCHANGED << out, prompt, off, emitted, pos, root, prefix, path, verdict, stats >>

VisitChild ==
  /\ pc = "draft" /\ stack # << >>
  /\ Top.child \in 1..Len(Top.kids)
  /\ Len(tree) <= MaxNodes
  /\ mem' = IF Top.child > 1 THEN RestoreTo(mem, Top.snap) ELSE mem
  /\ pc'  = IF Top.child > 1 /\ ~RestoreAccepted(mem, Top.snap)
            THEN "refused" ELSE "draft"
  /\ stack' = Append(Append(Pop, [Top EXCEPT !.child = @ + 1]),
                     Entered(Top.kids[Top.child], Top.depth + 1))
  /\ UNCHANGED << out, prompt, off, emitted, pos, root, prefix, tree, path, verdict,
                  stats >>

(* Mutant of LeaveNode: the loop over the children is not left. *)
LeaveNodeNever ==
  /\ pc = "draft" /\ stack # << >>
  /\ Top.child > 0
  /\ Top.child > Len(Top.kids) \/ Len(tree) > MaxNodes
  /\ UNCHANGED vars

LeaveNode ==
  /\ pc = "draft" /\ stack # << >>
  /\ Top.child > 0
  /\ Top.child > Len(Top.kids) \/ Len(tree) > MaxNodes
  /\ stack' = Pop
  /\ UNCHANGED << pc, mem, out, prompt, off, emitted, pos, root, prefix, tree, path,
                  verdict, stats >>

EndDraft ==
  /\ pc = "draft" /\ stack = << >>
  /\ mem' = RestoreTo(mem, prefix)
  /\ pc'  = IF RestoreAccepted(mem, prefix) THEN "path" ELSE "refused"
  /\ stats' = [stats EXCEPT !.proposed = @ + Len(tree) - 1]
  /\ path' = << 1 >>
  /\ verdict' = NoVerdict
  /\ UNCHANGED << out, prompt, off, emitted, pos, root, prefix, tree, stack >>

-----------------------------------------------------------------------------
(* Verification of one root-to-leaf path and commit of its accepted prefix.*)

PathEnd == tree[path[Len(path)]]

(* hybrid_tree::path follows the first child down to a leaf. *)
ExtendPath ==
  /\ pc = "path"
  /\ PathEnd.children # << >>
  /\ path' = Append(path, PathEnd.children[1])
  /\ UNCHANGED << pc, mem, out, prompt, off, emitted, pos, root, prefix, tree, stack,
                  verdict, stats >>

PathTokens == [i \in 1..Len(path) |-> tree[path[i]].tok]

Verify ==
  /\ pc = "path"
  /\ PathEnd.children = << >>
  /\ LET m1 == BeginTo(mem, pos, Len(path))
         m2 == DecodeTo(m1, VerifyEngine, PathTokens, pos)
     IN  /\ pc'  = IF /\ BeginAccepted(mem, pos, Len(path))
                      /\ DecodeAccepted(m1, PathTokens, pos)
                      /\ FinishAccepted(m2)
                   THEN "scan" ELSE "refused"
         /\ mem' = FinishTo(m2)
         /\ out' = Outputs(m1, VerifyEngine, PathTokens, pos)
  /\ UNCHANGED << prompt, off, emitted, pos, root, prefix, tree, stack, path, verdict,
                  stats >>

(* hybrid_tree::child: the first child of the node that carries t. *)
Matching(node, t) ==
  LET kids == tree[node].children
      hits == {k \in 1..Len(kids) : tree[kids[k]].tok = t}
  IN  IF hits = {} THEN 0
      ELSE kids[CHOOSE k \in hits : \A j \in hits : k <= j]

(* The output row the target's answer after the i-th token of the path is     *)
(* read from.                                                                 *)
Row(i) == out[i]

(* One iteration of the loop over the verified path. *)
ScanNode ==
  /\ pc = "scan"
  /\ root' \in Token
  /\ LET i     == verdict.scanned + 1
         match == Matching(path[i], root')
         onPath == i < Len(path) /\ path[i + 1] = match
         taken == match # 0 /\ root' \notin Stop
     IN  /\ GreedyChoice(Row(i), root')
         /\ emitted' = IF taken THEN Append(emitted, root') ELSE emitted
         /\ verdict' =
              [scanned   |-> i,
               accepted  |-> IF taken THEN verdict.accepted + 1 ELSE verdict.accepted,
               alternate |-> IF taken /\ ~onPath THEN match ELSE 0,
               stopped   |-> match # 0 /\ root' \in Stop]
         /\ pc' = IF taken /\ onPath THEN "scan" ELSE "commit"
  /\ UNCHANGED << mem, out, prompt, off, pos, prefix, tree, stack, path, stats >>

(* Commit, then verify the alternative branch the target chose, if any. *)
NextPath == verdict.alternate # 0 /\ ~verdict.stopped /\ Len(emitted) < Predict

(* Mutant of Rescan: the accepted tokens of the path are forgotten. *)
RescanFromZero(v) == NoVerdict

(* The scan of the next path; accepted tokens are counted for the round. *)
Rescan(v) == [v EXCEPT !.scanned = 0, !.alternate = 0]

CommitAndSwitch ==
  /\ pc = "commit"
  /\ NextPath
  /\ mem' = CommitTo(mem, verdict.scanned)
  /\ pos' = pos + verdict.scanned
  /\ path' = << verdict.alternate >>
  /\ verdict' = Rescan(verdict)
  /\ pc' = IF CommitAccepted(mem, verdict.scanned) THEN "path" ELSE "refused"
  /\ UNCHANGED << out, prompt, off, emitted, root, prefix, tree, stack, stats >>

CommitAndEnd ==
  /\ pc = "commit"
  /\ ~NextPath
  /\ mem' = CommitTo(mem, verdict.scanned)
  /\ pos' = pos + verdict.scanned
  /\ stats' = [stats EXCEPT !.accepted = @ + verdict.accepted, !.rounds = @ + 1]
  /\ pc' = IF ~CommitAccepted(mem, verdict.scanned) THEN "refused"
           ELSE IF verdict.stopped THEN "done" ELSE "loop"
  /\ prefix' = NoSnap /\ tree' = << >> /\ path' = << >> /\ verdict' = NoVerdict
  /\ UNCHANGED << out, prompt, off, emitted, root, stack >>

-----------------------------------------------------------------------------
(* Any require() of generate() can end the process: a decode that fails in    *)
(* the backend, logits that are not finite, a buffer over the memory budget.  *)
Throws ==
  /\ pc \notin {"done", "failed", "refused"}
  /\ pc' = "failed"
  /\ UNCHANGED << mem, out, prompt, off, emitted, pos, root, prefix, tree, stack,
                  path, verdict, stats >>

Terminated == pc \in {"done", "failed", "refused"} /\ UNCHANGED vars

Speculate ==
  \/ StartRound \/ SkipNode \/ Expand \/ VisitChild \/ LeaveNode \/ EndDraft
  \/ ExtendPath \/ Verify \/ ScanNode \/ CommitAndSwitch \/ CommitAndEnd

Generate ==
  \/ Start \/ Prefill \/ FirstRoot
  \/ EmitRoot \/ LoopEnds
  \/ ArProbe \/ ArStep
  \/ Speculate

Next == Generate \/ Throws \/ Terminated

Spec == Init /\ [][Next]_vars

(* One thread runs generate(): it takes its next step as long as it has one.  *)
(* An exception is possible but never owed.                                   *)
FairSpec == Spec /\ WF_vars(Generate)

-----------------------------------------------------------------------------
(* Properties. *)

NodeIds == 1..Len(tree)

(* Every variable keeps its type, and every index the tree, the frames of     *)
(* expand(), the verified path and the alternative hold names a tree node.    *)
TypeOK ==
  /\ pc \in {"start", "prefill", "loop", "rooted", "ar", "draft", "path", "scan",
             "commit", "done", "failed", "refused"}
  /\ mem \in Memory
  /\ out \in Seq(State)
  /\ prompt \in Seq(Token) /\ off \in Nat
  /\ emitted \in Seq(Token)
  /\ pos \in Nat /\ root \in Token
  /\ prefix \in Snap
  /\ tree \in Seq(Node)
  /\ \A i \in NodeIds : tree[i].children \in Seq(NodeIds)
  /\ stack \in Seq(Frame)
  /\ \A k \in 1..Len(stack) : stack[k].node \in NodeIds /\ stack[k].kids \in Seq(NodeIds)
  /\ path \in Seq(NodeIds)
  /\ verdict \in [scanned : Nat, accepted : Nat, alternate : NodeIds \cup {0},
                  stopped : BOOLEAN]
  /\ stats \in [accepted : Nat, proposed : Nat, rounds : Nat]

Written == prompt \o emitted

(* Speculation does not change the output: every token written by emit() is  *)
(* the target's own argmax after the prompt and the tokens written before it, *)
(* whatever the draft proposed and however the tree was pruned and switched.  *)
EmitsGreedy ==
  \A i \in 1..Len(emitted) :
    emitted[i] = Greedy(prompt \o SubSeq(emitted, 1, i - 1))

(* Whenever the target is about to continue (loop head, next path, end), the  *)
(* shared memory is what plain greedy decoding would have left: one exact     *)
(* attention cell per decoded token, no cell of a rejected or draft token, a  *)
(* recurrent state that is the fold of exactly those tokens, and pos right    *)
(* behind it.  A written token that is not decoded yet is the pending root.   *)
CommittedExact ==
  /\ pc \in {"loop", "rooted", "ar", "path"} =>
       /\ Coherent(mem)
       /\ pos = Len(mem.rec.toks)
  /\ pc = "loop" /\ Len(emitted) < Predict => mem.rec.toks = Written
  /\ pc \in {"rooted", "ar"} => Written = Append(mem.rec.toks, root)
  /\ pc = "path" => Written = Append(mem.rec.toks, tree[path[1]].tok)

(* The draft evaluates a node on its own branch: when expand() is entered,    *)
(* the recurrent state and the attention cells hold the committed tokens and  *)
(* the node's ancestors, and nothing of a sibling's subtree.                  *)
DraftAligned ==
  pc = "draft" /\ stack # << >> /\ Top.child = 0 =>
    LET expected == prefix.rec.toks \o
                      [k \in 1..(Len(stack) - 1) |-> tree[stack[k].node].tok]
    IN  /\ mem.rec.toks = expected
        /\ \A p \in Positions :
             IF p < Len(expected)
             THEN Len(mem.attn[p]) = 1 /\ mem.attn[p][1].tok = expected[p + 1]
             ELSE mem.attn[p] = << >>

(* No call the driver makes is refused: positions stay consecutive and inside *)
(* the context, every path fits the reserved history, every snapshot can be   *)
(* restored and every accepted prefix committed (the require()s of generate). *)
NothingRefused == pc # "refused"

(* Mutant of AccountedSnapshots: forks are not charged. *)
AccountedPrefixOnly == 1

(* The host snapshots check_memory() charges to the runtime budget. *)
AccountedSnapshots ==
  IF Branches > 1
  THEN 1 + Min2(Min2(Draft, MaxNodes), IF Prune THEN MaxDepth ELSE Draft)
  ELSE 1

LiveSnapshots ==
  Cardinality({k \in 1..Len(stack) : stack[k].snap # NoSnap})
    + (IF prefix # NoSnap THEN 1 ELSE 0)

(* check_memory() charges 1 + min(draft, max_nodes, depth) host snapshots to  *)
(* the runtime budget (1 without branching): however the recursion of         *)
(* expand() forks, no more are ever alive at once.                            *)
SnapshotsAccounted == LiveSnapshots <= AccountedSnapshots

(* Every written token is a round's root, an accepted draft token, or the     *)
(* root written last; so the reported counts add up, and no more tokens are   *)
(* accepted than were proposed or written than were asked for.                *)
CountsAddUp ==
  /\ Len(emitted) <= Predict
  /\ stats.accepted <= stats.proposed
  /\ stats.rounds > 0 /\ pc \in {"loop", "done"} =>
       Len(emitted) - stats.rounds - stats.accepted \in
         (IF pc = "done" /\ Len(emitted) = Predict THEN {0, 1} ELSE {0})

(* Committed cells are never decoded again, overwritten or dropped: no step   *)
(* touches an attention cell below pos ("accepted prefixes are not replayed").*)
CommittedCellsStable ==
  [][\A p \in Positions :
       p < pos /\ pc \notin {"start", "prefill"} => mem'.attn[p] = mem.attn[p]]_vars

(* The speculative driver implements plain greedy decoding. *)
AR == INSTANCE GreedyDecode WITH finished <- (pc = "done")

GreedyDecoding == AR!Spec

(* generate() comes to an end: every round commits at least its root, and the *)
(* recursion of expand() and the walk over alternative paths are bounded by   *)
(* the tree.                                                                  *)
Terminates == <>(pc \in {"done", "failed"})

-----------------------------------------------------------------------------
(* The inductive invariants.  TypeOK needs to know that the tree, the path    *)
(* and the scan are never walked off their ends.                              *)
WalkInv ==
  /\ pc \in {"start", "prefill", "loop", "rooted", "ar", "draft"} =>
       path = << >> /\ verdict = NoVerdict
  /\ pc = "draft" => tree # << >>
  /\ pc \in {"path", "scan", "commit"} => stack = << >>
  /\ pc = "path" => path # << >> /\ verdict.scanned = 0
  /\ pc = "scan" => verdict.scanned < Len(path)

TypeInv == TypeOK /\ WalkInv

(* EmitsGreedy and CommittedExact need to know what the shared memory holds   *)
(* at every label of generate().                                              *)

PrefillInv ==
  /\ emitted = << >> /\ prompt # << >>
  /\ pos = Len(prompt)
  /\ Coherent(mem)
  /\ mem.rec.toks = SubSeq(prompt, 1, Min2(off, Len(prompt)))
  /\ off > 0 => out # << >> /\ out[Len(out)] = [toks |-> mem.rec.toks, exact |-> TRUE]

LoopInv ==
  /\ Coherent(mem)
  /\ pos = Len(mem.rec.toks)
  /\ Len(emitted) < Predict => mem.rec.toks = Written /\ root = Greedy(Written)

(* last is written but not yet decoded by the target. *)
PendingInv(last) ==
  /\ Coherent(mem)
  /\ pos = Len(mem.rec.toks)
  /\ Written = Append(mem.rec.toks, last)

(* The snapshot and the cells below pos still hold what the round began with; *)
(* every fork snapshot was taken above pos, so restoring it spares them.      *)
DraftInv ==
  /\ prefix.first = pos
  /\ prefix.rec.pos = pos - 1
  /\ prefix.rec.exact
  /\ pos = Len(prefix.rec.toks) /\ pos <= Context
  /\ \A p \in Positions : p < pos => mem.attn[p] = CellOf(prefix.rec.toks, p)
  /\ Written = Append(prefix.rec.toks, tree[1].tok)
  /\ \A k \in 1..Len(stack) :
       stack[k].child > 0 /\ Len(stack[k].kids) > 1 => stack[k].snap.first > pos

(* The batch of path is decoded and captured: the memory holds all of it.     *)
VerifiedInv ==
  /\ Coherent(mem)
  /\ Len(mem.rec.toks) = pos + Len(path)
  /\ \A i \in 1..Len(path) : mem.rec.toks[pos + i] = tree[path[i]].tok
  /\ mem.hist.valid /\ mem.hist.first = pos /\ mem.hist.tokens = Len(path)
  /\ Len(path) \in 1..Capacity
  /\ Len(out) = Len(path)
  /\ \A i \in 1..Len(path) : out[i] = ExactState(mem.rec.toks, pos + i)
  /\ Len(path) > 1 =>
       \A i \in 1..Len(path) : mem.rows[i] = ExactState(mem.rec.toks, pos + i)

ScanInv ==
  /\ VerifiedInv
  /\ verdict.alternate = 0 /\ ~verdict.stopped
  /\ Written = SubSeq(mem.rec.toks, 1, pos + verdict.scanned + 1)

CommitInv ==
  /\ VerifiedInv
  /\ verdict.scanned \in 1..Len(path)
  /\ LET kept == SubSeq(mem.rec.toks, 1, pos + verdict.scanned)
     IN  IF verdict.alternate = 0
         THEN Written = kept /\ root = Greedy(kept)
         ELSE /\ Written = Append(kept, tree[verdict.alternate].tok)
              /\ ~verdict.stopped

ExactInv ==
  /\ EmitsGreedy
  /\ pc = "start" => mem = FreshMemory /\ off = 0 /\ emitted = << >> /\ prompt # << >>
                     /\ pos = Len(prompt)
  /\ pc = "prefill" => PrefillInv
  /\ pc = "loop" => LoopInv
  /\ pc \in {"rooted", "ar"} => PendingInv(root)
  /\ pc = "draft" => DraftInv
  /\ pc = "path" => /\ verdict.alternate = 0 /\ ~verdict.stopped
                    /\ PendingInv(tree[path[1]].tok)
  /\ pc = "scan" => ScanInv
  /\ pc = "commit" => CommitInv

(* The shared memory, the position and the pending root are, at every label   *)
(* of generate(), what the next call of the driver needs them to be.          *)
IInv == TypeInv /\ ExactInv
-----------------------------------------------------------------------------
(* What NothingRefused, DraftAligned, SnapshotsAccounted and CountsAddUp need *)
(* to know, whoever evaluates: which tokens the memory holds, how deep the    *)
(* tree is, and what is counted where.                                        *)

(* The committed tokens and the nodes of the first k frames. *)
BranchOf(toks, nodes, frames, k) == toks \o [j \in 1..k |-> nodes[frames[j].node].tok]

Branch(k) == BranchOf(prefix.rec.toks, tree, stack, k)

(* Frame k is at depth k - 1, and nodes are numbered upwards on the way down. *)
StackInv ==
  /\ Len(tree) <= MaxNodes + 1
  /\ \A k \in 1..Len(stack) :
       /\ stack[k].depth = k - 1 /\ stack[k].node >= k
       /\ \A i \in 1..Len(stack[k].kids) : stack[k].kids[i] > stack[k].node
       /\ k < Len(stack) => stack[k].child > 1
       /\ stack[k].snap # NoSnap => k < AccountedSnapshots

(* Below a written node at most as many levels as tokens are still asked for. *)
Room(lv, node) == \A i \in NodeIds : lv[i] + Len(emitted) <= Predict + lv[node]

(* lv is the level of each node in the tree. *)
TreeLevels(lv) ==
  /\ \A i \in NodeIds : lv[i] < i
  /\ \A i \in NodeIds : \A j \in 1..Len(tree[i].children) :
       lv[tree[i].children[j]] = lv[i] + 1

DraftLevels(lv) ==
  /\ Room(lv, 1)
  /\ \A k \in 1..Len(stack) :
       /\ lv[stack[k].node] = stack[k].depth
       /\ \A i \in 1..Len(stack[k].kids) : lv[stack[k].kids[i]] = stack[k].depth + 1

(* The token at the path's current node is the last one accepted. *)
PathLevels(lv) ==
  /\ \A i \in 1..Len(path) : lv[path[i]] = lv[path[1]] + i - 1
  /\ Room(lv, path[verdict.scanned + 1])
  /\ verdict.accepted = lv[path[verdict.scanned + 1]]

CommitLevels(lv) ==
  IF verdict.alternate = 0 THEN verdict.accepted < Len(tree)
  ELSE Room(lv, verdict.alternate) /\ verdict.accepted = lv[verdict.alternate]

Levels(lv) ==
  /\ TreeLevels(lv)
  /\ pc = "draft" => DraftLevels(lv)
  /\ pc \in {"path", "scan"} => PathLevels(lv)
  /\ pc = "commit" => CommitLevels(lv)

LevelInv == \E lv \in [NodeIds -> 0..Draft] : Levels(lv)

(* Tokens written that are neither a finished round's root nor counted yet. *)
Uncounted == Len(emitted) - stats.rounds - stats.accepted

CountInv ==
  /\ Len(emitted) <= Predict
  /\ stats.accepted <= stats.proposed
  /\ pc \in {"path", "scan", "commit"} => stats.accepted + Len(tree) - 1 <= stats.proposed
  /\ Ar => stats.rounds = 0 /\ pc \notin {"draft", "path", "scan", "commit"}
  /\ ~Ar => /\ pc \in {"start", "prefill", "loop"} => Uncounted = 0
            /\ pc \in {"rooted", "draft"} => Uncounted = 1
            /\ pc \in {"path", "scan", "commit"} => Uncounted = 1 + verdict.accepted
            /\ pc = "done" => Uncounted \in (IF Len(emitted) = Predict THEN {0, 1} ELSE {0})
            /\ pc # "ar"

(* The memory between two batches, with the tokens in front of pos. *)
IdleInv == Aligned(mem, mem.rec.toks) /\ pos = Len(mem.rec.toks)

(* The memory while the draft grows the tree. *)
BranchInv ==
  /\ prefix.first = pos /\ prefix.rec.pos = pos - 1
  /\ pos = Len(prefix.rec.toks) /\ pos <= Context
  /\ HoldsBelow(mem, prefix.rec.toks)
  /\ stack # << >> =>
       IF Top.child = 0 THEN Aligned(mem, Branch(Len(stack) - 1))
       ELSE /\ HoldsBelow(mem, Branch(Len(stack)))
            /\ Top.child = 1 => Aligned(mem, Branch(Len(stack)))
  /\ \A k \in 1..Len(stack) :
       stack[k].child > 0 /\ Len(stack[k].kids) > 1 =>
         /\ stack[k].snap.first = pos + k
         /\ stack[k].snap.rec.pos = pos + k - 1
         /\ stack[k].snap.rec.toks = Branch(k)

(* The memory behind a verified path. *)
PathInv ==
  /\ Aligned(mem, mem.rec.toks)
  /\ Len(mem.rec.toks) = pos + Len(path)
  /\ mem.hist.valid /\ mem.hist.first = pos /\ mem.hist.tokens = Len(path)
  /\ Len(path) \in 1..Capacity
  /\ Len(path) > 1 =>
       \A i \in 1..Len(path) : mem.rows[i].toks = SubSeq(mem.rec.toks, 1, pos + i)

Asked == Len(prompt) + Len(emitted)

ShapeInv ==
  /\ NothingRefused
  /\ pc \notin {"start", "failed", "done"} =>
       Len(prompt) + Predict <= Context /\ ~mem.hist.capturing
  /\ pc = "start" => mem = FreshMemory /\ off = 0 /\ emitted = << >> /\ pos = Len(prompt)
                     /\ prompt # << >>
  /\ pc = "prefill" => /\ emitted = << >> /\ pos = Len(prompt) /\ prompt # << >>
                       /\ Aligned(mem, mem.rec.toks)
                       /\ Len(mem.rec.toks) = Min2(off, Len(prompt))
  /\ pc = "loop" => IdleInv /\ (Len(emitted) < Predict => pos = Asked)
  /\ pc \in {"rooted", "ar", "path"} => IdleInv /\ pos + 1 = Asked
  /\ pc = "draft" => BranchInv /\ pos + 1 = Asked
  /\ pc = "scan" => PathInv /\ pos + verdict.scanned + 1 = Asked
  /\ pc = "commit" => /\ PathInv /\ verdict.scanned \in 1..Len(path)
                      /\ pos + verdict.scanned = Asked - (IF verdict.alternate = 0 THEN 0 ELSE 1)
                      /\ verdict.stopped => verdict.alternate = 0 /\ root \in Stop

CallsInv == StackInv /\ LevelInv /\ CountInv /\ ShapeInv
=============================================================================
