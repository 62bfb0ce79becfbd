------------------------ MODULE HybridDriver_proofs -------------------------
(***************************************************************************)
(* Theorems about the speculative driver, for every vocabulary, target,    *)
(* prompt set, tree shape, context size and history capacity.              *)
(***************************************************************************)
EXTENDS HybridDriver, HybridMemory_proofs, FiniteSetTheorems

LEMMA OneToken ==
  ASSUME NEW S, NEW t \in S
  PROVE  << t >> \in Seq(S) /\ Len(<< t >>) = 1 /\ << t >>[1] = t
OBVIOUS

-----------------------------------------------------------------------------
(***************************************************************************)
(* Types.                                                                  *)
(***************************************************************************)

LEMMA FrameTypes ==
  /\ NoSnap \in Snap
  /\ \A node, depth \in Nat : Entered(node, depth) \in Frame
<1>1. NoSnap \in Snap
  BY EmptyTypes DEF NoSnap, Snap
<1> QED BY <1>1, EmptySeq DEF Entered, Frame

LEMMA TypeInvInit == Init => TypeInv
<1> SUFFICES ASSUME Init PROVE TypeInv
  OBVIOUS
<1>1. prompt \in Seq(Token) /\ prompt # << >>
  BY DriverAssumption DEF Init
<1>2. Len(prompt) \in Nat /\ prompt[1] \in Token
  BY <1>1, LenProperties, ElementOfSeq
<1>3. mem \in Memory /\ prefix \in Snap
  BY EmptyTypes, FrameTypes DEF Init
<1> QED BY <1>1, <1>2, <1>3, EmptySeq
        DEF Init, TypeInv, TypeOK, WalkInv, NodeIds, NoVerdict

(* The steps before and between the rounds.                                *)
LEMMA TypeInvSequential ==
  ASSUME TypeInv, Start \/ Prefill \/ FirstRoot \/ EmitRoot \/ LoopEnds
  PROVE  TypeInv'
<1> USE DEF TypeInv
<1>1. CASE Start
  BY <1>1 DEF Start, TypeOK, WalkInv, NodeIds
<1>2. CASE Prefill
  <2> DEFINE chunk == SubSeq(prompt, off + 1, Min2(Len(prompt), off + Ubatch))
  <2>0. prompt \in Seq(Token) /\ off \in Nat /\ Len(prompt) \in Nat
    BY LenProperties DEF TypeOK
  <2>1. chunk \in Seq(Token) /\ off \in Int
    <3>1. off + 1 >= 1 /\ Min2(Len(prompt), off + Ubatch) \in Int
          /\ Min2(Len(prompt), off + Ubatch) <= Len(prompt)
      BY <2>0, MemoryAssumption DEF Min2
    <3>2. \A i \in (off + 1)..Min2(Len(prompt), off + Ubatch) : prompt[i] \in Token
      BY <2>0, <3>1, ElementOfSeq
    <3> QED BY <2>0, <3>1, <3>2, SubSeqProperties
  <2>2. mem' = DecodeTo(mem, "target", chunk, off) /\ out' = Outputs(mem, "target", chunk, off)
    BY <1>2 DEF Prefill
  <2> HIDE DEF chunk
  <2>3. mem' \in Memory /\ out' \in Seq(State)
    BY <2>1, <2>2, DecodeType, OutputsType DEF TypeOK
  <2> QED BY <1>2, <2>3, MemoryAssumption DEF Prefill, TypeOK, WalkInv, NodeIds
<1>3. CASE FirstRoot
  BY <1>3 DEF FirstRoot, TypeOK, WalkInv, NodeIds
<1>4. CASE EmitRoot
  BY <1>4, AppendProperties DEF EmitRoot, TypeOK, WalkInv, NodeIds
<1>5. CASE LoopEnds
  BY <1>5 DEF LoopEnds, TypeOK, WalkInv, NodeIds
<1> QED BY <1>1, <1>2, <1>3, <1>4, <1>5

LEMMA TypeInvAr ==
  ASSUME TypeInv, ArProbe \/ ArStep \/ Throws \/ Terminated
  PROVE  TypeInv'
<1> USE DEF TypeInv
<1>0. root \in Token /\ pos \in Int /\ << root >> \in Seq(Token) /\ mem \in Memory
  BY OneToken DEF TypeOK
<1>1. CASE ArProbe
  <2>1. PICK single \in Token :
          LET saved == SnapshotOf(mem)
              m1 == DecodeTo(mem, "target", << root >>, pos)
              m2 == RestoreTo(m1, saved)
              m3 == DecodeTo(m2, "target", << root, single >>, pos)
          IN  mem' = RestoreTo(m3, saved)
    BY <1>1 DEF ArProbe
  <2>2. << root, single >> \in Seq(Token)
    BY <1>0
  <2>3. mem' \in Memory
    BY <1>0, <2>1, <2>2, SnapshotType, DecodeType, RestoreType
  <2>4. pc = "rooted" /\ pc' \in {"ar", "refused"}
    BY <1>1 DEF ArProbe
  <2>5. UNCHANGED << out, prompt, off, emitted, pos, root, prefix, tree, stack, path,
                     verdict, stats >>
    BY <1>1 DEF ArProbe
  <2> QED BY <2>3, <2>4, <2>5 DEF TypeOK, WalkInv, NodeIds
<1>2. CASE ArStep
  <2>1. mem' \in Memory /\ out' \in Seq(State)
    BY <1>0, <1>2, DecodeType, OutputsType DEF ArStep
  <2>2. /\ pc \in {"rooted", "ar"} /\ pc' \in {"loop", "refused"} /\ pos' = pos + 1 /\ root' \in Token
        /\ UNCHANGED << prompt, off, emitted, prefix, tree, stack, path, verdict, stats >>
    BY <1>2 DEF ArStep
  <2> QED BY SMTT(60), <2>1, <2>2 DEF TypeOK, WalkInv, NodeIds
<1>3. CASE Throws
  BY <1>3 DEF Throws, TypeOK, WalkInv, NodeIds
<1>4. CASE Terminated
  BY <1>4 DEF Terminated, vars, TypeOK, WalkInv, NodeIds
<1> QED BY <1>1, <1>2, <1>3, <1>4
(* The frame on top of the stack, and what is below it.                    *)
LEMMA TopPop ==
  ASSUME TypeOK, stack # << >>
  PROVE  /\ Top \in Frame /\ Top.node \in NodeIds /\ Top.kids \in Seq(NodeIds)
         /\ Pop \in Seq(Frame) /\ Len(Pop) = Len(stack) - 1 /\ Len(stack) \in Nat \ {0}
         /\ \A k \in 1..Len(Pop) : Pop[k] = stack[k]
         /\ \A k \in 1..Len(Pop) : Pop[k].node \in NodeIds /\ Pop[k].kids \in Seq(NodeIds)
<1>1. stack \in Seq(Frame) /\ Len(stack) \in Nat
  BY LenProperties DEF TypeOK
<1>2. Len(stack) # 0
  BY <1>1, EmptySeq, LenProperties
<1>3. Len(stack) \in 1..Len(stack)
  BY <1>1, <1>2
<1>4. Top \in Frame /\ Top.node \in NodeIds /\ Top.kids \in Seq(NodeIds)
  BY <1>1, <1>3, ElementOfSeq DEF Top, TypeOK
<1>5. \A i \in 1..(Len(stack) - 1) : stack[i] \in Frame
  BY <1>1, ElementOfSeq
<1>6. /\ Pop \in Seq(Frame) /\ Len(Pop) = Len(stack) - 1
      /\ \A k \in 1..(Len(stack) - 1) : Pop[k] = stack[k]
  <2>1. Len(stack) - 1 \in Int /\ 1 \in Int /\ 1 <= Len(stack)
    BY <1>1, <1>2
  <2>2. /\ Pop \in Seq(Frame)
        /\ Len(Pop) = IF 1 <= Len(stack) - 1 THEN (Len(stack) - 1) - 1 + 1 ELSE 0
        /\ \A i \in 1..((Len(stack) - 1) - 1 + 1) : Pop[i] = stack[1 + i - 1]
    BY <1>5, <2>1, SubSeqProperties DEF Pop
  <2>3. Len(Pop) = Len(stack) - 1
    <3> DEFINE n == Len(stack)
    <3>1. n \in Nat /\ 1 <= n /\ Len(Pop) = IF 1 <= n - 1 THEN (n - 1) - 1 + 1 ELSE 0
      BY <1>1, <2>1, <2>2
    <3> HIDE DEF n
    <3>2. Len(Pop) = n - 1
      BY <3>1
    <3> QED BY <3>2 DEF n
  <2>4. \A i \in 1..(Len(stack) - 1) : (Len(stack) - 1) - 1 + 1 = Len(stack) - 1 /\ 1 + i - 1 = i
    BY <1>1
  <2> QED BY <2>2, <2>3, <2>4
<1>7. ASSUME NEW k \in 1..(Len(stack) - 1)
      PROVE  Pop[k].node \in NodeIds /\ Pop[k].kids \in Seq(NodeIds)
  <2>1. k \in 1..Len(stack)
    BY <1>1
  <2>2. stack[k].node \in NodeIds /\ stack[k].kids \in Seq(NodeIds)
    BY <2>1 DEF TypeOK
  <2> QED BY <1>6, <2>2
<1>8. Len(stack) \in Nat \ {0}
  BY <1>1, <1>2
<1> QED BY <1>4, <1>6, <1>7, <1>8

(* Pushing a frame whose nodes exist.                                      *)
LEMMA PushFrame ==
  ASSUME NEW S, NEW s \in Seq(Frame), NEW f \in Frame,
         \A k \in 1..Len(s) : s[k].node \in S /\ s[k].kids \in Seq(S),
         f.node \in S, f.kids \in Seq(S)
  PROVE  /\ Append(s, f) \in Seq(Frame)
         /\ Len(Append(s, f)) = Len(s) + 1
         /\ \A k \in 1..Len(s) : Append(s, f)[k] = s[k]
         /\ Append(s, f)[Len(s) + 1] = f
         /\ \A k \in 1..Len(Append(s, f)) :
              Append(s, f)[k].node \in S /\ Append(s, f)[k].kids \in Seq(S)
<1>1. Len(s) \in Nat
  BY LenProperties
<1>2. /\ Append(s, f) \in Seq(Frame)
      /\ Len(Append(s, f)) = Len(s) + 1
      /\ \A k \in 1..Len(s) : Append(s, f)[k] = s[k]
      /\ Append(s, f)[Len(s) + 1] = f
  BY AppendProperties
<1>3. ASSUME NEW k \in 1..Len(Append(s, f))
      PROVE  Append(s, f)[k].node \in S /\ Append(s, f)[k].kids \in Seq(S)
  <2>1. CASE k = Len(s) + 1
    BY <1>2, <2>1
  <2>2. CASE k \in 1..Len(s)
    BY <1>2, <2>2
  <2> QED BY <1>1, <1>2, <2>1, <2>2
<1> QED BY <1>2, <1>3

(* A node of the tree gets the selected tokens as its children.            *)
LEMMA SelectionType ==
  ASSUME TypeOK, NEW depth \in Nat, NEW sel \in Selections(depth)
  PROVE  sel \in Seq(Token)
<1>1. PICK k \in Int : sel \in [1..k -> Token]
  <2>1. Len(tree) \in Nat /\ Cardinality(Token) \in Nat
    BY LenProperties, DriverAssumption, FS_CardinalityType DEF TypeOK, ValidOptions
  <2> QED BY <2>1, DriverAssumption DEF Selections, Min2, ValidOptions
<1> QED BY <1>1

LEMMA GrowType ==
  ASSUME TypeOK, NEW node \in NodeIds, NEW sel \in Seq(Token)
  PROVE  /\ Grow(node, sel) \in Seq(Node)
         /\ Len(Grow(node, sel)) = Len(tree) + Len(sel)
         /\ Added(Len(sel)) \in Seq(1..Len(Grow(node, sel)))
         /\ Len(Added(Len(sel))) = Len(sel)
         /\ \A i \in 1..Len(Grow(node, sel)) :
              Grow(node, sel)[i].children \in Seq(1..Len(Grow(node, sel)))
         /\ \A i \in 1..Len(tree) : Grow(node, sel)[i].tok = tree[i].tok
<1> DEFINE n == Len(tree)
<1> DEFINE k == Len(sel)
<1> DEFINE g == Grow(node, sel)
<1>1. n \in Nat /\ k \in Nat /\ tree \in Seq(Node) /\ node \in 1..n
  BY LenProperties DEF TypeOK, NodeIds
<1>2. Added(k) \in [1..k -> 1..(n + k)] /\ Added(k) \in [1..k -> Nat]
  BY <1>1 DEF Added
<1>3. /\ Added(k) \in Seq(1..(n + k)) /\ Added(k) \in Seq(Nat)
      /\ Len(Added(k)) = k
  <2> HIDE DEF k, n
  <2> QED BY <1>1, <1>2
<1> HIDE DEF g
<1>4. ASSUME NEW i \in 1..(n + k)
      PROVE  /\ g[i] \in Node
             /\ g[i].children \in Seq(1..(n + k))
             /\ i <= n => g[i].tok = tree[i].tok
  <2>1. CASE i > n
    <3>1. g[i] = [tok |-> sel[i - n], children |-> << >>]
      BY <2>1 DEF g, Grow
    <3>2. i - n \in 1..k
      BY <1>1, <2>1
    <3>3. sel[i - n] \in Token
      BY <3>2, ElementOfSeq
    <3> QED BY <1>1, <2>1, <3>1, <3>3, EmptySeq DEF Node
  <2>2. CASE i <= n /\ i = node
    <3>1. g[i] = [tree[i] EXCEPT !.children = Added(k)]
      BY <1>1, <2>2 DEF g, Grow
    <3>2. tree[i] \in Node
      BY <1>1, <2>2, ElementOfSeq
    <3> QED BY <1>3, <3>1, <3>2 DEF Node
  <2>3. CASE i <= n /\ i # node
    <3>1. g[i] = tree[i]
      BY <1>1, <2>3 DEF g, Grow
    <3>2. tree[i] \in Node /\ i \in 1..n
      BY <1>1, <2>3, ElementOfSeq
    <3>3. tree[i].children \in Seq(1..n)
      BY <3>2 DEF TypeOK, NodeIds
    <3>4. tree[i].children \in Seq(1..(n + k))
      <4>1. 1..n \subseteq 1..(n + k)
        BY <1>1
      <4> QED BY <3>3, <4>1, SeqMonotonic
    <3> QED BY <3>1, <3>2, <3>3, <3>4
  <2> QED BY <1>1, <2>1, <2>2, <2>3
<1>5. g \in [1..(n + k) -> Node]
  BY <1>4 DEF g, Grow
<1>6. g \in Seq(Node) /\ Len(g) = n + k
  BY SMTT(60), <1>1, <1>5, IsASeq, LenProperties
<1>7. \A i \in 1..(n + k) : g[i].children \in Seq(1..(n + k))
  BY <1>4
<1>8. \A i \in 1..n : g[i].tok = tree[i].tok
  <2> SUFFICES ASSUME NEW i \in 1..n  PROVE g[i].tok = tree[i].tok
    OBVIOUS
  <2>1. i \in 1..(n + k) /\ i <= n
    BY <1>1
  <2> QED BY <1>4, <2>1
<1>9. Added(k) \in Seq(1..Len(g)) /\ \A i \in 1..Len(g) : g[i].children \in Seq(1..Len(g))
  BY <1>3, <1>6, <1>7
<1> QED BY <1>3, <1>6, <1>8, <1>9 DEF g

(* The steps of the draft.                                                 *)
LEMMA TypeInvDraft ==
  ASSUME TypeInv,
         StartRound \/ SkipNode \/ Expand \/ VisitChild \/ LeaveNode \/ EndDraft
  PROVE  TypeInv'
<1> USE DEF TypeInv
<1>1. CASE StartRound
  <2>1. prefix' \in Snap
    BY <1>1, SnapshotType DEF StartRound, TypeOK
  <2>2. tree' \in Seq(Node) /\ tree' # << >> /\ Len(tree') = 1 /\ tree'[1].children = << >>
    BY <1>1, EmptySeq DEF StartRound, TypeOK, Node
  <2>3. /\ stack' \in Seq(Frame) /\ Len(stack') = 1
        /\ stack'[1].node = 1 /\ stack'[1].kids = << >>
    BY <1>1, FrameTypes DEF StartRound, Entered
  <2>4. path' = << >> /\ verdict' = NoVerdict /\ pc' = "draft"
    BY <1>1 DEF StartRound, WalkInv
  <2>5. UNCHANGED << mem, out, prompt, off, emitted, pos, root, stats >>
    BY <1>1 DEF StartRound
  <2>6. NodeIds' = {1}
    BY <2>2 DEF NodeIds
  <2>7. /\ \A i \in NodeIds' : tree'[i].children \in Seq(NodeIds')
        /\ \A k \in 1..Len(stack') : stack'[k].node \in NodeIds' /\ stack'[k].kids \in Seq(NodeIds')
        /\ path' \in Seq(NodeIds')
    <3>1. \A i \in NodeIds' : tree'[i].children \in Seq(NodeIds')
      BY <2>2, <2>6, EmptySeq
    <3>2. \A k \in 1..Len(stack') : k = 1
      BY <2>3
    <3>3. stack'[1].node \in NodeIds' /\ stack'[1].kids \in Seq(NodeIds')
      BY <2>3, <2>6, EmptySeq
    <3>4. path' \in Seq(NodeIds')
      BY <2>4, EmptySeq
    <3> QED BY <3>1, <3>2, <3>3, <3>4
  <2>8. verdict' \in [scanned : Nat, accepted : Nat, alternate : NodeIds' \cup {0},
                      stopped : BOOLEAN]
    BY <2>4 DEF NoVerdict
  <2> QED BY <2>1, <2>2, <2>3, <2>4, <2>5, <2>7, <2>8 DEF TypeOK, WalkInv
<1>2. CASE SkipNode \/ LeaveNode
  <2>1. stack' = Pop /\ stack # << >>
        /\ UNCHANGED << pc, mem, out, prompt, off, emitted, pos, root, prefix, tree, path,
                        verdict, stats >>
    BY <1>2 DEF SkipNode, LeaveNode
  <2> QED BY <2>1, TopPop DEF TypeOK, WalkInv, NodeIds
<1>3. CASE Expand
  <2>1. PICK sel \in Selections(Top.depth) :
          LET batch == << tree[Top.node].tok >>
              m     == DecodeTo(mem, "draft", batch, pos + Top.depth)
              snap  == IF Len(sel) > 1 THEN SnapshotOf(m) ELSE NoSnap
          IN  /\ pc' \in {"draft", "refused"}
              /\ mem'  = m
              /\ tree' = Grow(Top.node, sel)
              /\ stack' = IF Top.depth + 1 >= Limit \/ sel = << >> THEN Pop
                          ELSE Append(Pop, [Top EXCEPT !.kids  = Added(Len(sel)),
                                                       !.child = 1,
                                                       !.snap  = snap])
    BY <1>3 DEF Expand
  <2> DEFINE batch == << tree[Top.node].tok >>
  <2> DEFINE m == DecodeTo(mem, "draft", batch, pos + Top.depth)
  <2> DEFINE snap == IF Len(sel) > 1 THEN SnapshotOf(m) ELSE NoSnap
  <2> DEFINE frame == [Top EXCEPT !.kids = Added(Len(sel)), !.child = 1, !.snap = snap]
  <2>2. pc = "draft" /\ stack # << >>
        /\ UNCHANGED << out, prompt, off, emitted, pos, root, prefix, path, verdict, stats >>
    BY <1>3 DEF Expand
  <2>3. Top \in Frame /\ Top.node \in NodeIds /\ Top.depth \in Nat
    BY <2>2, TopPop DEF Frame
  <2>4. sel \in Seq(Token)
    BY <2>3, SelectionType
  <2>5. tree[Top.node] \in Node
    BY <2>3, ElementOfSeq DEF TypeOK, NodeIds
  <2>6. batch \in Seq(Token) /\ pos + Top.depth \in Int
    <3>1. tree[Top.node].tok \in Token
      BY <2>5 DEF Node
    <3>2. pos + Top.depth \in Int
      BY <2>3 DEF TypeOK
    <3> QED BY <3>1, <3>2, OneToken
  <2> HIDE DEF batch
  <2>7. m \in Memory
    BY <2>6, DecodeType DEF TypeOK
  <2> HIDE DEF m
  <2>8. snap \in Snap
    BY <2>7, SnapshotType, FrameTypes
  <2> HIDE DEF snap
  <2>9. mem' = m /\ tree' = Grow(Top.node, sel)
        /\ (stack' = Pop \/ stack' = Append(Pop, frame)) /\ pc' \in {"draft", "refused"}
    BY <2>1 DEF batch, m, snap
  <2>10. /\ tree' \in Seq(Node) /\ Len(tree') = Len(tree) + Len(sel)
         /\ \A i \in NodeIds' : tree'[i].children \in Seq(NodeIds')
         /\ Added(Len(sel)) \in Seq(NodeIds')
    BY <2>3, <2>4, <2>9, GrowType DEF NodeIds
  <2>11. Len(tree) \in Nat /\ Len(sel) \in Nat /\ NodeIds \subseteq NodeIds' /\ NodeIds' \subseteq Nat
    <3>1. Len(tree) \in Nat /\ Len(sel) \in Nat
      BY <2>4, LenProperties DEF TypeOK
    <3> QED BY <2>10, <3>1 DEF NodeIds
  <2>12. Added(Len(sel)) \in Seq(Nat)
    BY <2>10, <2>11, SeqMonotonic
  <2>13. frame \in Frame /\ frame.node = Top.node /\ frame.kids = Added(Len(sel))
    BY <2>3, <2>8, <2>12 DEF Frame
  <2> HIDE DEF frame
  <2>14. Pop \in Seq(Frame)
    BY <2>2, TopPop
  <2>15. \A k \in 1..Len(Pop) : Pop[k].node \in NodeIds' /\ Pop[k].kids \in Seq(NodeIds')
    <3> SUFFICES ASSUME NEW k \in 1..Len(Pop)
                 PROVE  Pop[k].node \in NodeIds' /\ Pop[k].kids \in Seq(NodeIds')
      OBVIOUS
    <3>1. Pop[k].node \in NodeIds /\ Pop[k].kids \in Seq(NodeIds)
      BY <2>2, TopPop
    <3> QED BY <2>11, <3>1, SeqMonotonic
  <2>16. /\ stack' \in Seq(Frame)
         /\ \A k \in 1..Len(stack') :
              stack'[k].node \in NodeIds' /\ stack'[k].kids \in Seq(NodeIds')
    <3>1. CASE stack' = Pop
      BY <2>14, <2>15, <3>1
    <3>2. CASE stack' = Append(Pop, frame)
      <4>1. frame.node \in NodeIds' /\ frame.kids \in Seq(NodeIds')
        BY <2>3, <2>10, <2>11, <2>13
      <4> QED BY <2>13, <2>14, <2>15, <3>2, <4>1, PushFrame
    <3> QED BY <2>9, <3>1, <3>2
  <2>17. path' = << >> /\ verdict' = NoVerdict
    BY <2>2 DEF WalkInv
  <2>18. tree' # << >>
    BY <2>2, <2>10, <2>11, EmptySeq DEF WalkInv, TypeOK
  <2> QED BY <2>2, <2>7, <2>9, <2>10, <2>16, <2>17, <2>18, EmptySeq
          DEF TypeOK, WalkInv, NoVerdict
<1>4. CASE VisitChild
  <2> DEFINE below == Append(Pop, [Top EXCEPT !.child = @ + 1])
  <2> DEFINE entry == Entered(Top.kids[Top.child], Top.depth + 1)
  <2>1. /\ pc = "draft" /\ stack # << >> /\ Top.child \in 1..Len(Top.kids)
        /\ mem' \in {mem, RestoreTo(mem, Top.snap)}
        /\ pc' \in {"draft", "refused"}
        /\ stack' = Append(below, entry)
        /\ UNCHANGED << out, prompt, off, emitted, pos, root, prefix, tree, path, verdict,
                        stats >>
    BY <1>4 DEF VisitChild
  <2>2. /\ Top \in Frame /\ Top.node \in NodeIds /\ Top.kids \in Seq(NodeIds)
        /\ Pop \in Seq(Frame)
        /\ \A k \in 1..Len(Pop) : Pop[k].node \in NodeIds /\ Pop[k].kids \in Seq(NodeIds)
    BY <2>1, TopPop
  <2>3. mem' \in Memory
    BY ZenonT(60), <2>1, <2>2, RestoreType DEF TypeOK, Frame
  <2>4. /\ [Top EXCEPT !.child = @ + 1] \in Frame
        /\ [Top EXCEPT !.child = @ + 1].node \in NodeIds
        /\ [Top EXCEPT !.child = @ + 1].kids \in Seq(NodeIds)
    <3>1. Top.child + 1 \in Nat
      BY <2>2 DEF Frame
    <3> QED BY <2>2, <3>1 DEF Frame
  <2>5. /\ below \in Seq(Frame)
        /\ \A k \in 1..Len(below) : below[k].node \in NodeIds /\ below[k].kids \in Seq(NodeIds)
    BY <2>2, <2>4, PushFrame
  <2>6. Top.kids[Top.child] \in NodeIds /\ NodeIds \subseteq Nat
    BY <2>1, <2>2, ElementOfSeq DEF NodeIds
  <2>7. /\ entry \in Frame
        /\ entry.node \in NodeIds /\ entry.kids \in Seq(NodeIds)
    <3>0. Top.depth \in Nat
      <4> HIDE DEF entry, below
      <4> QED BY <2>2 DEF Frame
    <3>1. Top.depth + 1 \in Nat
      BY <3>0
    <3>2. entry \in Frame
      BY <2>6, <3>1, FrameTypes
    <3> QED BY <2>6, <3>2, EmptySeq DEF Entered
  <2> HIDE DEF below, entry
  <2>8. /\ stack' \in Seq(Frame)
        /\ \A k \in 1..Len(stack') : stack'[k].node \in NodeIds /\ stack'[k].kids \in Seq(NodeIds)
    BY <2>1, <2>5, <2>7, PushFrame
  <2> QED BY <2>1, <2>3, <2>8 DEF TypeOK, WalkInv, NodeIds
<1>5. CASE EndDraft
  <2>1. /\ mem' = RestoreTo(mem, prefix) /\ pc' \in {"path", "refused"} /\ pc = "draft"
        /\ stats' = [stats EXCEPT !.proposed = @ + Len(tree) - 1]
        /\ path' = << 1 >> /\ verdict' = NoVerdict /\ stack = << >>
        /\ UNCHANGED << out, prompt, off, emitted, pos, root, prefix, tree, stack >>
    BY <1>5 DEF EndDraft
  <2>2. mem' \in Memory
    BY <2>1, RestoreType DEF TypeOK
  <2>3. Len(tree) \in Nat \ {0}
    BY <2>1, EmptySeq DEF TypeOK, WalkInv
  <2>4. path' \in Seq(NodeIds) /\ path' # << >>
    <3>1. 1 \in NodeIds
      BY <2>3 DEF NodeIds
    <3> QED BY <2>1, <3>1
  <2>5. stats' \in [accepted : Nat, proposed : Nat, rounds : Nat]
    <3>1. stats \in [accepted : Nat, proposed : Nat, rounds : Nat]
      BY DEF TypeOK
    <3>2. stats.proposed + Len(tree) - 1 \in Nat
      BY <2>3, <3>1
    <3> QED BY <2>1, <3>1, <3>2
  <2> QED BY <2>1, <2>2, <2>4, <2>5 DEF TypeOK, WalkInv, NodeIds, NoVerdict
<1> QED BY <1>1, <1>2, <1>3, <1>4, <1>5

(* hybrid_tree::child returns a child of the node or nothing.              *)
LEMMA MatchingIsFirst ==
  ASSUME TypeOK, NEW node \in NodeIds, NEW t \in Token
  PROVE  \/ Matching(node, t) = 0
         \/ /\ Matching(node, t) \in NodeIds
            /\ tree[Matching(node, t)].tok = t
            /\ \E j \in 1..Len(tree[node].children) :
                 Matching(node, t) = tree[node].children[j]
<1> DEFINE kids == tree[node].children
<1> DEFINE hits == {k \in 1..Len(kids) : tree[kids[k]].tok = t}
<1>1. kids \in Seq(NodeIds) /\ Len(kids) \in Nat
  BY LenProperties DEF TypeOK
<1>2. CASE hits = {}
  BY <1>2 DEF Matching
<1>3. CASE hits # {}
  <2>1. hits \subseteq Nat
    BY <1>1
  <2>2. PICK x \in hits : \A y \in hits : ~(<< y, x >> \in OpToRel(<, Nat))
    BY <1>3, <2>1, NatLessThanWellFounded, WFMin
  <2>3. \A y \in hits : ~(y < x)
    BY <2>1, <2>2 DEF OpToRel
  <2>4. \A y \in hits : x <= y
    <3> SUFFICES ASSUME NEW y \in hits PROVE x <= y
      OBVIOUS
    <3>1. x \in Nat /\ y \in Nat /\ ~(y < x)
      BY <2>1, <2>2, <2>3
    <3> HIDE DEF hits
    <3> QED BY <3>1
  <2>5. (CHOOSE k \in hits : \A j \in hits : k <= j) \in hits
    BY ZenonT(60), <2>2, <2>4
  <2>6. PICK k \in hits : Matching(node, t) = kids[k]
    BY <1>3, <2>5 DEF Matching
  <2>7. kids[k] \in NodeIds /\ tree[kids[k]].tok = t
    BY <1>1, <2>6, ElementOfSeq
  <2> QED BY <2>6, <2>7
<1> QED BY <1>2, <1>3
(* The steps of the verification.                                          *)
LEMMA PathTokensType ==
  ASSUME TypeOK
  PROVE  /\ PathTokens \in Seq(Token) /\ Len(PathTokens) = Len(path)
         /\ \A i \in 1..Len(path) : PathTokens[i] = tree[path[i]].tok
<1>1. Len(path) \in Nat /\ \A i \in 1..Len(path) : path[i] \in NodeIds
  BY LenProperties, ElementOfSeq DEF TypeOK
<1>2. \A i \in NodeIds : tree[i].tok \in Token
  <2>1. \A i \in NodeIds : tree[i] \in Node
    BY ElementOfSeq DEF TypeOK, NodeIds
  <2> QED BY <2>1 DEF Node
<1>3. PathTokens \in [1..Len(path) -> Token]
  BY <1>1, <1>2 DEF PathTokens
<1> QED BY <1>1, <1>3, IsASeq, LenProperties DEF PathTokens

LEMMA TypeInvVerify ==
  ASSUME TypeInv,
         ExtendPath \/ Verify \/ ScanNode \/ CommitAndSwitch \/ CommitAndEnd
  PROVE  TypeInv'
<1> USE DEF TypeInv
<1>1. CASE ExtendPath
  <2>1. /\ pc = "path" /\ PathEnd.children # << >>
        /\ path' = Append(path, PathEnd.children[1])
        /\ UNCHANGED << pc, mem, out, prompt, off, emitted, pos, root, prefix, tree, stack,
                        verdict, stats >>
    BY <1>1 DEF ExtendPath
  <2>2. Len(path) \in Nat \ {0} /\ path \in Seq(NodeIds)
    BY <2>1, EmptySeq DEF TypeOK, WalkInv
  <2>3. path[Len(path)] \in NodeIds
    BY <2>2, ElementOfSeq
  <2>4. PathEnd.children \in Seq(NodeIds)
    BY <2>3 DEF PathEnd, TypeOK
  <2>5. PathEnd.children[1] \in NodeIds
    BY <2>1, <2>4, EmptySeq, ElementOfSeq
  <2>6. path' \in Seq(NodeIds) /\ path' # << >>
    BY <2>1, <2>2, <2>5, AppendProperties
  <2> QED BY <2>1, <2>6 DEF TypeOK, WalkInv, NodeIds
<1>2. CASE Verify
  <2> DEFINE m1 == BeginTo(mem, pos, Len(path))
  <2> DEFINE m2 == DecodeTo(m1, VerifyEngine, PathTokens, pos)
  <2>1. /\ pc = "path" /\ pc' \in {"scan", "refused"}
        /\ mem' = FinishTo(m2) /\ out' = Outputs(m1, VerifyEngine, PathTokens, pos)
        /\ UNCHANGED << prompt, off, emitted, pos, root, prefix, tree, stack, path, verdict,
                        stats >>
    BY <1>2 DEF Verify
  <2>2. Len(path) \in Nat \ {0} /\ pos \in Int /\ mem \in Memory
    BY <2>1, EmptySeq DEF TypeOK, WalkInv
  <2>3. m1 \in Memory
    BY <2>2, HistoryTypes
  <2> HIDE DEF m1
  <2>4. m2 \in Memory /\ Outputs(m1, VerifyEngine, PathTokens, pos) \in Seq(State)
    BY <2>2, <2>3, PathTokensType, DecodeType, OutputsType
  <2> HIDE DEF m2
  <2>5. mem' \in Memory /\ out' \in Seq(State)
    BY <2>1, <2>2, <2>4, HistoryTypes
  <2> QED BY <2>1, <2>2, <2>5 DEF TypeOK, WalkInv, NodeIds
<1>3. CASE ScanNode
  <2> DEFINE i == verdict.scanned + 1
  <2> DEFINE match == Matching(path[i], root')
  <2> DEFINE onPath == i < Len(path) /\ path[i + 1] = match
  <2> DEFINE taken == match # 0 /\ root' \notin Stop
  <2>1. /\ pc = "scan" /\ root' \in Token
        /\ emitted' = IF taken THEN Append(emitted, root') ELSE emitted
        /\ verdict' =
              [scanned   |-> i,
               accepted  |-> IF taken THEN verdict.accepted + 1 ELSE verdict.accepted,
               alternate |-> IF taken /\ ~onPath THEN match ELSE 0,
               stopped   |-> match # 0 /\ root' \in Stop]
        /\ pc' = IF taken /\ onPath THEN "scan" ELSE "commit"
        /\ UNCHANGED << mem, out, prompt, off, pos, prefix, tree, stack, path, stats >>
    BY <1>3 DEF ScanNode
  <2>2. verdict.scanned \in Nat /\ Len(path) \in Nat /\ i \in 1..Len(path)
    BY <2>1, LenProperties DEF TypeOK, WalkInv
  <2>3. path[i] \in NodeIds
    BY <2>2, ElementOfSeq DEF TypeOK
  <2>4. match \in NodeIds \cup {0}
    BY <2>1, <2>3, MatchingIsFirst
  <2> HIDE DEF match
  <2>5. emitted' \in Seq(Token)
    BY <2>1, AppendProperties DEF TypeOK
  <2>6. verdict' \in [scanned : Nat, accepted : Nat, alternate : NodeIds \cup {0},
                      stopped : BOOLEAN]
    BY SMTT(60), <2>1, <2>2, <2>4 DEF TypeOK
  <2>7. pc' = "scan" => verdict'.scanned < Len(path)
    BY <2>1
  <2>8. pc' \in {"scan", "commit"}
    BY <2>1
  <2> HIDE DEF onPath, taken, i
  <2> QED BY <2>1, <2>5, <2>6, <2>7, <2>8 DEF TypeOK, WalkInv, NodeIds
<1>4. CASE CommitAndSwitch
  <2>1. /\ pc = "commit" /\ verdict.alternate # 0
        /\ mem' = CommitTo(mem, verdict.scanned)
        /\ pos' = pos + verdict.scanned
        /\ path' = << verdict.alternate >>
        /\ verdict' = [verdict EXCEPT !.scanned = 0, !.alternate = 0]
        /\ pc' \in {"path", "refused"}
        /\ UNCHANGED << out, prompt, off, emitted, root, prefix, tree, stack, stats >>
    BY <1>4 DEF CommitAndSwitch, NextPath, Rescan
  <2>2. verdict.scanned \in Nat /\ verdict.alternate \in NodeIds /\ mem \in Memory
    BY <2>1 DEF TypeOK
  <2>3. mem' \in Memory
    BY <2>1, <2>2, CommitType
  <2>4. path' \in Seq(NodeIds) /\ path' # << >>
    BY <2>1, <2>2
  <2>5. /\ pos' \in Nat /\ verdict'.scanned = 0
        /\ verdict' \in [scanned : Nat, accepted : Nat, alternate : NodeIds \cup {0},
                         stopped : BOOLEAN]
    <3>1. verdict \in [scanned : Nat, accepted : Nat, alternate : NodeIds \cup {0},
                       stopped : BOOLEAN] /\ pos \in Nat
      BY DEF TypeOK
    <3>2. pos' \in Nat
      BY <2>1, <2>2, <3>1
    <3> QED BY <2>1, <3>1, <3>2
  <2> QED BY <2>1, <2>3, <2>4, <2>5 DEF TypeOK, WalkInv, NodeIds
<1>5. CASE CommitAndEnd
  <2>1. /\ pc = "commit"
        /\ mem' = CommitTo(mem, verdict.scanned)
        /\ pos' = pos + verdict.scanned
        /\ stats' = [stats EXCEPT !.accepted = @ + verdict.accepted, !.rounds = @ + 1]
        /\ pc' \in {"loop", "done", "refused"}
        /\ prefix' = NoSnap /\ tree' = << >> /\ path' = << >> /\ verdict' = NoVerdict
        /\ UNCHANGED << out, prompt, off, emitted, root, stack >>
    BY <1>5 DEF CommitAndEnd
  <2>2. verdict.scanned \in Nat /\ verdict.accepted \in Nat /\ mem \in Memory
    BY DEF TypeOK
  <2>3. mem' \in Memory
    BY <2>1, <2>2, CommitType
  <2>4. pos' \in Nat /\ stats' \in [accepted : Nat, proposed : Nat, rounds : Nat]
    <3>1. stats \in [accepted : Nat, proposed : Nat, rounds : Nat] /\ pos \in Nat
      BY DEF TypeOK
    <3>2. stats.accepted + verdict.accepted \in Nat /\ stats.rounds + 1 \in Nat
      BY <2>2, <3>1
    <3>3. pos' \in Nat
      BY <2>1, <2>2, <3>1
    <3> QED BY <2>1, <3>1, <3>2, <3>3
  <2>5. stack' = << >> /\ Len(stack') = 0 /\ NodeIds' = {}
    BY <2>1, EmptySeq DEF WalkInv, NodeIds
  <2> QED BY SMTT(60), <2>1, <2>3, <2>4, <2>5, FrameTypes, EmptySeq
          DEF TypeOK, WalkInv, NoVerdict
<1> QED BY <1>1, <1>2, <1>3, <1>4, <1>5

LEMMA TypeInvStep == TypeInv /\ [Next]_vars => TypeInv'
<1> SUFFICES ASSUME TypeInv, [Next]_vars PROVE TypeInv'
  OBVIOUS
<1>1. CASE UNCHANGED vars
  BY <1>1 DEF vars, TypeInv, TypeOK, WalkInv, NodeIds
<1> QED
  BY <1>1, TypeInvSequential, TypeInvAr, TypeInvDraft, TypeInvVerify DEF Next, Generate, Speculate

(***************************************************************************)
(* Every index generate() uses into the tree, the frames and the path is a *)
(* node of the tree, and the memory keeps its shape: whatever the draft    *)
(* proposes and whether or not expert reuse makes the target approximate.  *)
(***************************************************************************)
THEOREM TypeCorrect == Spec => []TypeOK
<1>1. TypeInv => TypeOK
  BY DEF TypeInv
<1> QED BY <1>1, TypeInvInit, TypeInvStep, PTL DEF Spec

-----------------------------------------------------------------------------
(***************************************************************************)
(* Self-speculation without expert reuse writes what greedy decoding would *)
(* write.  The argument: at every label of generate() the shared memory is *)
(* known (ExactInv), the target therefore answers Greedy, and a draft      *)
(* token is written only if it is that answer.                             *)
(***************************************************************************)

(***************************************************************************)
(* Joining sequences.                                                      *)
(***************************************************************************)
LEMMA ConcatOne ==
  ASSUME NEW S, NEW r \in Seq(S), NEW t \in S
  PROVE  r \o << t >> = Append(r, t)
OBVIOUS

LEMMA ConcatAppend ==
  ASSUME NEW S, NEW r \in Seq(S), NEW s \in Seq(S), NEW t \in S
  PROVE  r \o Append(s, t) = Append(r \o s, t)
<1>1. << t >> \in Seq(S) /\ r \o s \in Seq(S)
  BY OneToken, ConcatProperties
<1>2. Append(s, t) = s \o << t >> /\ Append(r \o s, t) = (r \o s) \o << t >>
  BY <1>1, ConcatOne
<1>3. (r \o s) \o << t >> = r \o (s \o << t >>)
  BY <1>1, ConcatAssociative
<1> QED BY <1>2, <1>3

LEMMA PrefixJoin ==
  ASSUME NEW S, NEW s \in Seq(S), NEW a \in Nat, NEW b \in Nat, a <= b, b <= Len(s)
  PROVE  /\ SubSeq(s, a + 1, b) \in Seq(S)
         /\ Len(SubSeq(s, a + 1, b)) = b - a
         /\ SubSeq(s, 1, a) \o SubSeq(s, a + 1, b) = SubSeq(s, 1, b)
<1> DEFINE x == SubSeq(s, 1, a)
<1> DEFINE y == SubSeq(s, a + 1, b)
<1> DEFINE z == SubSeq(s, 1, b)
<1>1. Len(s) \in Nat /\ a \in 0..Len(s) /\ b \in 0..Len(s) /\ a + 1 \in Int /\ b \in Int
  BY LenProperties
<1>2. \A i \in (a + 1)..b : s[i] \in S
  BY <1>1, ElementOfSeq
<1>3. /\ y \in Seq(S) /\ Len(y) = IF a + 1 <= b THEN b - (a + 1) + 1 ELSE 0
      /\ \A i \in 1..(b - (a + 1) + 1) : y[i] = s[(a + 1) + i - 1]
  BY <1>1, <1>2, SubSeqProperties
<1>4. x \in Seq(S) /\ Len(x) = a /\ \A i \in 1..a : x[i] = s[i]
  BY <1>1, PrefixLen
<1>5. z \in Seq(S) /\ Len(z) = b /\ \A i \in 1..b : z[i] = s[i]
  BY <1>1, PrefixLen
<1> HIDE DEF x, y, z
<1>6. Len(y) = b - a
  <2>1. CASE a + 1 <= b
    BY <1>3, <2>1
  <2>2. CASE ~(a + 1 <= b)
    <3>1. b - a = 0
      BY <2>2
    <3> QED BY <1>3, <2>2, <3>1
  <2> QED BY <2>1, <2>2
<1>7. ASSUME NEW i \in 1..(b - a)
      PROVE  y[i] = s[a + i]
  <2>1. i \in 1..(b - (a + 1) + 1) /\ (a + 1) + i - 1 = a + i
    OBVIOUS
  <2> QED BY <1>3, <2>1
<1>8. /\ x \o y \in Seq(S) /\ Len(x \o y) = b
      /\ \A i \in 1..b : (x \o y)[i] = IF i <= a THEN x[i] ELSE y[i - a]
  <2>1. /\ x \o y \in Seq(S) /\ Len(x \o y) = Len(x) + Len(y)
        /\ \A i \in 1..(Len(x) + Len(y)) :
             (x \o y)[i] = IF i <= Len(x) THEN x[i] ELSE y[i - Len(x)]
    BY <1>3, <1>4, ConcatProperties
  <2>2. Len(x) + Len(y) = b
    BY <1>4, <1>6
  <2> QED BY <1>4, <2>1, <2>2
<1>9. ASSUME NEW i \in 1..Len(x \o y)
      PROVE  (x \o y)[i] = z[i]
  <2>1. i \in 1..b
    BY <1>8
  <2>2. CASE i <= a
    <3>1. i \in 1..a
      BY <2>1, <2>2
    <3> QED BY <1>4, <1>5, <1>8, <2>1, <2>2, <3>1
  <2>3. CASE ~(i <= a)
    <3>1. i - a \in 1..(b - a) /\ a + (i - a) = i
      BY <2>1, <2>3
    <3>2. y[i - a] = s[i]
      BY <1>7, <3>1
    <3> QED BY <1>5, <1>8, <2>1, <2>3, <3>2
  <2> QED BY <2>2, <2>3
<1>10. Len(x \o y) = Len(z)
  BY <1>5, <1>8
<1>11. x \o y = z
  BY <1>5, <1>8, <1>9, <1>10, SeqEqual
<1> QED BY <1>3, <1>6, <1>11 DEF x, y, z

-----------------------------------------------------------------------------
(***************************************************************************)
(* The target on a coherent memory.                                        *)
(***************************************************************************)
(* Decoding on a coherent memory and restoring its snapshot is no change.  *)
LEMMA ProbeRestores ==
  ASSUME NEW m \in Memory, Coherent(m), NEW toks \in Seq(Token), NEW by
  PROVE  LET c == RestoreTo(DecodeTo(m, by, toks, Len(m.rec.toks)), SnapshotOf(m))
         IN  c \in Memory /\ Coherent(c) /\ c.rec = m.rec
<1> DEFINE n == Len(m.rec.toks)
<1> DEFINE d == DecodeTo(m, by, toks, n)
<1> DEFINE s == SnapshotOf(m)
<1>1. n \in Nat /\ n \in Int
  BY LenProperties DEF Memory, Rec
<1>2. d \in Memory
  BY <1>1, DecodeType
<1>3. s \in Snap /\ s.first = n /\ s.rec = m.rec
  BY SnapshotType, SnapshotCoherent
<1>4. m.rec.exact /\ m.rec.pos = n - 1 /\ n <= Context
  BY DEF Coherent
<1>5. ASSUME NEW p \in Positions, p < n
      PROVE  d.attn[p] = CellOf(m.rec.toks, p)
  <2>1. m.attn[p] = CellOf(m.rec.toks, p)
    BY DEF Coherent
  <2>2. d.attn[p] = m.attn[p]
    BY <1>1, <1>5, DecodeSpares
  <2> QED BY <2>1, <2>2
<1> HIDE DEF d, s
<1>6. RestoreTo(d, s) \in Memory
  BY <1>2, <1>3, RestoreType
<1>7. Coherent(RestoreTo(d, s)) /\ RestoreTo(d, s).rec = s.rec
  BY <1>2, <1>3, <1>4, <1>5, RestoreCoherent
<1> QED BY <1>3, <1>6, <1>7 DEF d, s

(* Writing the target's answer keeps the output greedy.                    *)
LEMMA EmitsGreedyAppend ==
  ASSUME TypeInv, EmitsGreedy, prompt' = prompt, NEW t \in Token,
         t = Greedy(Written), emitted' = Append(emitted, t)
  PROVE  EmitsGreedy' /\ Written' = Append(Written, t)
<1>1. prompt \in Seq(Token) /\ emitted \in Seq(Token) /\ Len(emitted) \in Nat
  BY LenProperties DEF TypeInv, TypeOK
<1>2. /\ Len(emitted') = Len(emitted) + 1
      /\ \A i \in 1..Len(emitted) : emitted'[i] = emitted[i]
      /\ emitted'[Len(emitted) + 1] = t
      /\ emitted' \in Seq(Token)
  BY <1>1, AppendProperties
<1>3. Written' = Append(Written, t)
  BY <1>1, ConcatAppend DEF Written
<1>4. ASSUME NEW i \in 1..Len(emitted')
      PROVE  emitted'[i] = Greedy(prompt \o SubSeq(emitted', 1, i - 1))
  <2>1. i - 1 \in 0..Len(emitted) /\ i - 1 \in 0..Len(emitted')
    BY <1>1, <1>2
  <2>2. SubSeq(emitted', 1, i - 1) = SubSeq(emitted, 1, i - 1)
    <3> DEFINE a == SubSeq(emitted', 1, i - 1)
    <3> DEFINE b == SubSeq(emitted, 1, i - 1)
    <3>1. a \in Seq(Token) /\ Len(a) = i - 1 /\ \A j \in 1..(i - 1) : a[j] = emitted'[j]
      BY <1>2, <2>1, PrefixLen
    <3>2. b \in Seq(Token) /\ Len(b) = i - 1 /\ \A j \in 1..(i - 1) : b[j] = emitted[j]
      BY <1>1, <2>1, PrefixLen
    <3>3. \A j \in 1..(i - 1) : j \in 1..Len(emitted)
      BY <1>1, <2>1
    <3> HIDE DEF a, b
    <3>4. \A j \in 1..Len(a) : a[j] = b[j]
      BY <1>2, <3>1, <3>2, <3>3
    <3>5. a = b
      BY <3>1, <3>2, <3>4, SeqEqual
    <3> QED BY <3>5 DEF a, b
  <2>3. CASE i \in 1..Len(emitted)
    BY <1>2, <2>2, <2>3 DEF EmitsGreedy
  <2>4. CASE i = Len(emitted) + 1
    <3>1. SubSeq(emitted, 1, i - 1) = emitted
      <4>1. i - 1 = Len(emitted)
        BY <1>1, <2>4
      <4> QED BY <1>1, <4>1, SubSeqFull
    <3> QED BY <1>2, <2>2, <2>4, <3>1 DEF Written
  <2> QED BY <1>1, <1>2, <2>3, <2>4
<1> QED BY <1>3, <1>4 DEF EmitsGreedy

-----------------------------------------------------------------------------
(***************************************************************************)
(* The invariant, action by action.                                        *)
(***************************************************************************)
LEMMA ExactInvInit == Init => ExactInv
<1> SUFFICES ASSUME Init PROVE ExactInv
  OBVIOUS
<1>1. prompt # << >>
  BY DriverAssumption DEF Init
<1>2. EmitsGreedy
  BY EmptySeq DEF Init, EmitsGreedy
<1> QED BY <1>1, <1>2 DEF Init, ExactInv

LEMMA StartExact ==
  ASSUME IInv, Start
  PROVE  ExactInv'
<1>1. /\ EmitsGreedy /\ mem = FreshMemory /\ off = 0 /\ emitted = << >> /\ prompt # << >>
      /\ pos = Len(prompt) /\ prompt \in Seq(Token)
  BY DEF IInv, ExactInv, Start, TypeInv, TypeOK
<1>2. pc' \in {"prefill", "failed"} /\ UNCHANGED << mem, out, prompt, off, emitted, pos >>
  BY DEF Start
<1>3. EmitsGreedy'
  BY <1>1, <1>2 DEF EmitsGreedy
<1>4. SubSeq(prompt, 1, Min2(off, Len(prompt))) = << >>
  <2>1. Min2(off, Len(prompt)) = 0
    BY <1>1, LenProperties DEF Min2
  <2> QED BY <2>1, SubSeqEmpty
<1>5. Coherent(mem) /\ mem.rec.toks = << >>
  BY <1>1, FreshCoherent DEF FreshMemory, EmptyRec
<1>6. PrefillInv
  <2>1. ~(off > 0)
    BY <1>1
  <2>0. mem.rec.toks = SubSeq(prompt, 1, Min2(off, Len(prompt)))
    BY <1>4, <1>5, Zenon
  <2>2. emitted = << >> /\ prompt # << >> /\ pos = Len(prompt)
    BY <1>1
  <2> QED BY <1>5, <2>0, <2>1, <2>2, Zenon DEF PrefillInv
<1>7. PrefillInv'
  BY <1>2, <1>6 DEF PrefillInv
<1> QED BY <1>2, <1>3, <1>7 DEF ExactInv

LEMMA PrefillExact ==
  ASSUME IInv, Prefill
  PROVE  ExactInv'
<1> DEFINE n == Len(prompt)
<1> DEFINE b == Min2(n, off + Ubatch)
<1> DEFINE chunk == SubSeq(prompt, off + 1, b)
<1>1. /\ EmitsGreedy /\ PrefillInv /\ mem \in Memory /\ prompt \in Seq(Token) /\ off \in Nat
      /\ n \in Nat
  BY LenProperties DEF IInv, ExactInv, Prefill, TypeInv, TypeOK
<1>2. /\ off < n
      /\ pc' = IF DecodeAccepted(mem, chunk, off) THEN "prefill" ELSE "refused"
      /\ mem' = DecodeTo(mem, "target", chunk, off)
      /\ out' = Outputs(mem, "target", chunk, off)
      /\ off' = off + Ubatch
      /\ UNCHANGED << prompt, emitted, pos >>
  BY DEF Prefill
<1>3. EmitsGreedy'
  BY <1>1, <1>2 DEF EmitsGreedy
<1>4. b \in Nat /\ off <= b /\ b <= n /\ Min2(off, n) = off /\ b - off > 0
      /\ Min2(off + Ubatch, n) = b
  BY <1>1, <1>2, MemoryAssumption DEF Min2
<1>5. Coherent(mem) /\ mem.rec.toks = SubSeq(prompt, 1, off)
  BY <1>1, <1>4 DEF PrefillInv
<1>6. Len(mem.rec.toks) = off
  <2>1. off \in 0..n
    BY <1>1, <1>2
  <2> QED BY <1>1, <1>5, <2>1, PrefixLen
<1> HIDE DEF b
<1>7. /\ chunk \in Seq(Token) /\ Len(chunk) = b - off
      /\ mem.rec.toks \o chunk = SubSeq(prompt, 1, b)
  BY <1>1, <1>4, <1>5, PrefixJoin
<1> HIDE DEF chunk
<1>8. ASSUME DecodeAccepted(mem, chunk, off)
      PROVE  PrefillInv'
  <2>1. off + Len(chunk) <= Context
    BY <1>8 DEF DecodeAccepted
  <2>2. Coherent(mem') /\ mem'.rec.toks = SubSeq(prompt, 1, b)
    BY <1>1, <1>2, <1>5, <1>6, <1>7, <2>1, DecodeCoherent
  <2>3. Len(chunk) \in 1..Len(chunk) /\ off + Len(chunk) = b
    BY <1>1, <1>4, <1>7
  <2>4. out'[Len(chunk)] = ExactState(SubSeq(prompt, 1, b), b)
    <3>1. Outputs(mem, "target", chunk, off)[Len(chunk)]
            = ExactState(mem.rec.toks \o chunk, off + Len(chunk))
      BY <1>1, <1>5, <1>6, <1>7, <2>3, ExactOutputs
    <3> QED BY <1>2, <1>7, <2>3, <3>1
  <2>5. SubSeq(prompt, 1, b) \in Seq(Token) /\ Len(SubSeq(prompt, 1, b)) = b
    BY <1>1, <1>4, PrefixLen
  <2>6. out'[Len(chunk)] = [toks |-> mem'.rec.toks, exact |-> TRUE]
    <3>1. ExactState(SubSeq(prompt, 1, b), Len(SubSeq(prompt, 1, b)))
            = [toks |-> SubSeq(prompt, 1, b), exact |-> TRUE]
      BY <2>5, WholeState
    <3> QED BY <2>2, <2>4, <2>5, <3>1
  <2>7. Len(out') = Len(chunk) /\ out' \in Seq(State)
    BY <1>1, <1>2, <1>7, OutputsType
  <2>8. out' # << >>
    BY <1>4, <1>7, <2>7, EmptySeq
  <2> QED BY <1>1, <1>2, <1>4, <2>2, <2>6, <2>7, <2>8 DEF PrefillInv
<1> QED BY <1>2, <1>3, <1>8 DEF ExactInv

LEMMA FirstRootExact ==
  ASSUME IInv, FirstRoot
  PROVE  ExactInv'
<1>1. /\ EmitsGreedy /\ PrefillInv /\ prompt \in Seq(Token) /\ off \in Nat
  BY DEF IInv, ExactInv, FirstRoot, TypeInv, TypeOK
<1>2. /\ off >= Len(prompt) /\ root' \in Token /\ GreedyChoice(out[Len(out)], root')
      /\ pc' = "loop"
      /\ UNCHANGED << mem, out, prompt, off, emitted, pos >>
  BY DEF FirstRoot
<1>3. EmitsGreedy'
  BY <1>1, <1>2 DEF EmitsGreedy
<1>4. Len(prompt) \in Nat \ {0}
  BY <1>1, EmptySeq DEF PrefillInv
<1>5. Min2(off, Len(prompt)) = Len(prompt) /\ off > 0
  BY <1>1, <1>2, <1>4 DEF Min2
<1>6. mem.rec.toks = prompt
  BY <1>1, <1>5, SubSeqFull DEF PrefillInv
<1>7. Written = prompt
  BY <1>1, ConcatEmptySeq DEF Written, PrefillInv
<1>8. out[Len(out)] = [toks |-> prompt, exact |-> TRUE]
  BY <1>1, <1>5, <1>6 DEF PrefillInv
<1>9. root' = Greedy(prompt)
  BY <1>2, <1>8 DEF GreedyChoice
<1>10. Coherent(mem) /\ pos = Len(prompt)
  BY <1>1 DEF PrefillInv
<1>11. LoopInv'
  BY <1>2, <1>6, <1>7, <1>9, <1>10 DEF LoopInv, Written
<1> QED BY <1>2, <1>3, <1>11 DEF ExactInv

LEMMA EmitRootExact ==
  ASSUME IInv, EmitRoot
  PROVE  ExactInv'
<1>1. EmitsGreedy /\ LoopInv /\ root \in Token /\ TypeInv
  BY DEF IInv, ExactInv, EmitRoot, TypeInv, TypeOK
<1>2. /\ Len(emitted) < Predict /\ emitted' = Append(emitted, root) /\ pc' = "rooted"
      /\ UNCHANGED << mem, prompt, pos, root >>
  BY DEF EmitRoot
<1>3. root = Greedy(Written) /\ mem.rec.toks = Written
  BY <1>1, <1>2 DEF LoopInv
<1>4. EmitsGreedy' /\ Written' = Append(Written, root)
  BY <1>1, <1>2, <1>3, EmitsGreedyAppend
<1>5. PendingInv(root)'
  BY <1>1, <1>2, <1>3, <1>4 DEF LoopInv, PendingInv
<1> QED BY <1>2, <1>4, <1>5 DEF ExactInv

(* The target decodes the pending root: the end of every --ar iteration.   *)
LEMMA ArStepExact ==
  ASSUME IInv, ArStep
  PROVE  ExactInv'
<1> DEFINE r == mem.rec.toks
<1>1. /\ EmitsGreedy /\ PendingInv(root) /\ root \in Token /\ mem \in Memory /\ pos \in Nat
      /\ r \in Seq(Token)
  BY DEF IInv, ExactInv, ArStep, TypeInv, TypeOK, Memory, Rec
<1>2. /\ pc' = IF DecodeAccepted(mem, << root >>, pos) THEN "loop" ELSE "refused"
      /\ mem' = DecodeTo(mem, "target", << root >>, pos)
      /\ out' = Outputs(mem, "target", << root >>, pos)
      /\ pos' = pos + 1
      /\ GreedyChoice(out'[1], root')
      /\ UNCHANGED << prompt, emitted >>
  BY DEF ArStep
<1>3. EmitsGreedy'
  BY <1>1, <1>2 DEF EmitsGreedy
<1>4. Coherent(mem) /\ pos = Len(r) /\ Written = Append(r, root) /\ Written' = Written
  BY <1>1, <1>2 DEF PendingInv, Written
<1>5. << root >> \in Seq(Token) /\ Len(<< root >>) = 1 /\ r \o << root >> = Written
  BY <1>1, <1>4, OneToken, ConcatOne
<1>6. Written \in Seq(Token) /\ Len(Written) = pos + 1
  BY <1>1, <1>4, AppendProperties
<1> HIDE DEF r
<1>7. ASSUME DecodeAccepted(mem, << root >>, pos)
      PROVE  LoopInv'
  <2>1. pos + Len(<< root >>) <= Context
    BY <1>7 DEF DecodeAccepted
  <2>2. Coherent(mem') /\ mem'.rec.toks = Written
    BY <1>1, <1>2, <1>4, <1>5, <2>1, DecodeCoherent DEF r
  <2>3. out'[1] = ExactState(Written, pos + 1)
    <3>1. 1 \in 1..Len(<< root >>)
      BY <1>5
    <3>2. Outputs(mem, "target", << root >>, pos)[1]
            = ExactState(mem.rec.toks \o << root >>, pos + 1)
      BY ZenonT(60), <1>1, <1>4, <1>5, <3>1, ExactOutputs DEF r
    <3> QED BY <1>2, <1>5, <3>2 DEF r
  <2>4. out'[1] = [toks |-> Written, exact |-> TRUE]
    BY <1>6, <2>3, WholeState
  <2>5. root' = Greedy(Written)
    BY <1>2, <2>4 DEF GreedyChoice
  <2> QED BY <1>2, <1>4, <1>6, <2>2, <2>5 DEF LoopInv
<1> QED BY <1>2, <1>3, <1>7 DEF ExactInv

LEMMA ArProbeExact ==
  ASSUME IInv, ArProbe
  PROVE  ExactInv'
<1>1. EmitsGreedy /\ PendingInv(root) /\ root \in Token /\ mem \in Memory
  BY DEF IInv, ExactInv, ArProbe, TypeInv, TypeOK
<1>2. PICK single \in Token :
        mem' = RestoreTo(DecodeTo(RestoreTo(DecodeTo(mem, "target", << root >>, pos),
                                            SnapshotOf(mem)),
                                  "target", << root, single >>, pos),
                         SnapshotOf(mem))
  BY DEF ArProbe
<1>3. pc' \in {"ar", "refused"} /\ UNCHANGED << prompt, emitted, pos, root >>
  BY DEF ArProbe
<1>4. EmitsGreedy'
  BY <1>1, <1>3 DEF EmitsGreedy
<1>5. Coherent(mem) /\ pos = Len(mem.rec.toks)
  BY <1>1 DEF PendingInv
<1> DEFINE m2 == RestoreTo(DecodeTo(mem, "target", << root >>, pos), SnapshotOf(mem))
<1>6. << root >> \in Seq(Token) /\ << root, single >> \in Seq(Token)
  BY <1>1
<1>7. m2 \in Memory /\ Coherent(m2) /\ m2.rec = mem.rec
  <2> DEFINE c == RestoreTo(DecodeTo(mem, "target", << root >>, Len(mem.rec.toks)),
                            SnapshotOf(mem))
  <2>1. c \in Memory /\ Coherent(c) /\ c.rec = mem.rec
    BY <1>1, <1>5, <1>6, ProbeRestores
  <2>2. c = m2
    BY <1>5
  <2> QED BY <2>1, <2>2
<1> HIDE DEF m2
<1>8. SnapshotOf(m2) = SnapshotOf(mem) /\ pos = Len(m2.rec.toks)
  BY <1>1, <1>5, <1>7, SnapshotCoherent
<1>9. mem' = RestoreTo(DecodeTo(m2, "target", << root, single >>, Len(m2.rec.toks)),
                       SnapshotOf(m2))
  BY <1>2, <1>8 DEF m2
<1>10. Coherent(mem') /\ mem'.rec = mem.rec
  BY <1>6, <1>7, <1>9, ProbeRestores
<1>11. PendingInv(root)'
  BY <1>1, <1>3, <1>10 DEF PendingInv, Written
<1> QED BY <1>3, <1>4, <1>11 DEF ExactInv

-----------------------------------------------------------------------------
(* The draft works on the shared memory, above pos only.                   *)

LEMMA StartRoundExact ==
  ASSUME IInv, StartRound
  PROVE  ExactInv'
<1>1. EmitsGreedy /\ PendingInv(root) /\ mem \in Memory
  BY DEF IInv, ExactInv, StartRound, TypeInv, TypeOK
<1>2. /\ prefix' = SnapshotOf(mem) /\ tree' = << [tok |-> root, children |-> << >>] >>
      /\ stack' = << Entered(1, 0) >> /\ pc' = "draft"
      /\ UNCHANGED << mem, prompt, emitted, pos >>
  BY DEF StartRound
<1>3. EmitsGreedy' /\ Written' = Written
  BY <1>1, <1>2 DEF EmitsGreedy, Written
<1>4. /\ Coherent(mem) /\ pos = Len(mem.rec.toks) /\ Written = Append(mem.rec.toks, root)
  BY <1>1 DEF PendingInv
<1>5. prefix'.first = pos /\ prefix'.rec = mem.rec
  BY <1>1, <1>2, <1>4, SnapshotCoherent
<1>6. /\ mem.rec.exact /\ mem.rec.pos = pos - 1 /\ pos <= Context
      /\ \A p \in Positions : mem.attn[p] = CellOf(mem.rec.toks, p)
  BY <1>4 DEF Coherent
<1>7. tree'[1].tok = root
  BY <1>2
<1>8. ASSUME NEW k \in 1..Len(stack')
      PROVE  ~(stack'[k].child > 0)
  <2>1. k = 1 /\ stack'[1].child = 0
    BY <1>2 DEF Entered
  <2> QED BY <2>1
<1>9. DraftInv'
  BY <1>2, <1>3, <1>4, <1>5, <1>6, <1>7, <1>8 DEF DraftInv
<1> QED BY <1>2, <1>3, <1>9 DEF ExactInv

LEMMA LeaveExact ==
  ASSUME IInv, SkipNode \/ LeaveNode
  PROVE  ExactInv'
<1>1. EmitsGreedy /\ DraftInv /\ TypeOK
  BY DEF IInv, ExactInv, SkipNode, LeaveNode, TypeInv
<1>2. /\ stack' = Pop /\ stack # << >> /\ pc' = "draft"
      /\ UNCHANGED << mem, prompt, emitted, pos, prefix, tree >>
  BY DEF SkipNode, LeaveNode
<1>3. EmitsGreedy' /\ Written' = Written
  BY <1>1, <1>2 DEF EmitsGreedy, Written
<1>4. Len(Pop) = Len(stack) - 1 /\ Len(stack) \in Nat /\ \A k \in 1..Len(Pop) : Pop[k] = stack[k]
  BY <1>1, <1>2, TopPop
<1>5. ASSUME NEW k \in 1..Len(stack'), stack'[k].child > 0, Len(stack'[k].kids) > 1
      PROVE  stack'[k].snap.first > pos
  <2>1. k \in 1..Len(stack) /\ stack'[k] = stack[k]
    BY <1>2, <1>4
  <2> QED BY <1>1, <1>5, <2>1 DEF DraftInv
<1>6. DraftInv'
  BY <1>1, <1>2, <1>3, <1>5 DEF DraftInv
<1> QED BY <1>2, <1>3, <1>6 DEF ExactInv

LEMMA ExpandExact ==
  ASSUME IInv, Expand
  PROVE  ExactInv'
<1>1. EmitsGreedy /\ DraftInv /\ TypeOK /\ tree # << >>
  BY DEF IInv, ExactInv, Expand, TypeInv, WalkInv
<1>2. PICK sel \in Selections(Top.depth) :
        LET batch == << tree[Top.node].tok >>
            m     == DecodeTo(mem, "draft", batch, pos + Top.depth)
            snap  == IF Len(sel) > 1 THEN SnapshotOf(m) ELSE NoSnap
        IN  /\ pc'   = IF DecodeAccepted(mem, batch, pos + Top.depth)
                       THEN "draft" ELSE "refused"
            /\ mem'  = m
            /\ tree' = Grow(Top.node, sel)
            /\ stack' = IF Top.depth + 1 >= Limit \/ sel = << >> THEN Pop
                        ELSE Append(Pop, [Top EXCEPT !.kids  = Added(Len(sel)),
                                                     !.child = 1,
                                                     !.snap  = snap])
  BY DEF Expand
<1> DEFINE batch == << tree[Top.node].tok >>
<1> DEFINE q == pos + Top.depth
<1> DEFINE m == DecodeTo(mem, "draft", batch, q)
<1> DEFINE snap == IF Len(sel) > 1 THEN SnapshotOf(m) ELSE NoSnap
<1> DEFINE frame == [Top EXCEPT !.kids = Added(Len(sel)), !.child = 1, !.snap = snap]
<1>3. stack # << >> /\ UNCHANGED << prompt, emitted, pos, prefix >>
  BY DEF Expand
<1>4. EmitsGreedy' /\ Written' = Written
  BY <1>1, <1>3 DEF EmitsGreedy, Written
<1>5. Top \in Frame /\ Top.node \in NodeIds /\ Top.depth \in Nat
  BY <1>1, <1>3, TopPop DEF Frame
<1>6. sel \in Seq(Token)
  BY <1>1, <1>5, SelectionType
<1>7. tree[Top.node].tok \in Token
  <2>1. tree[Top.node] \in Node
    BY <1>1, <1>5, ElementOfSeq DEF TypeOK, NodeIds
  <2> QED BY <2>1 DEF Node
<1>8. q \in Nat /\ pos <= q /\ q \in Int /\ pos \in Nat /\ mem \in Memory
  BY SMTT(60), <1>1, <1>5 DEF TypeOK
<1>9. batch \in Seq(Token) /\ Len(batch) = 1
  BY <1>7, OneToken
<1>10. Len(Added(Len(sel))) = Len(sel) /\ tree'[1].tok = tree[1].tok
  <2>1. /\ Len(Added(Len(sel))) = Len(sel)
        /\ \A i \in 1..Len(tree) : Grow(Top.node, sel)[i].tok = tree[i].tok
    BY <1>1, <1>5, <1>6, GrowType
  <2>2. 1 \in 1..Len(tree)
    BY <1>1, EmptySeq DEF TypeOK
  <2> QED BY <1>2, <2>1, <2>2
<1> HIDE DEF q
<1>11. ASSUME NEW p \in Positions, p < pos
       PROVE  mem'.attn[p] = CellOf(prefix.rec.toks, p)
  <2>1. p < q
    BY <1>8, <1>11 DEF Positions
  <2>2. mem' = m
    BY <1>2 DEF q
  <2>3. m.attn[p] = mem.attn[p]
    BY <1>8, <1>9, <2>1, DecodeSpares
  <2>4. mem.attn[p] = CellOf(prefix.rec.toks, p)
    BY <1>1, <1>11 DEF DraftInv
  <2> HIDE DEF m
  <2> QED BY <2>2, <2>3, <2>4
<1>12. ASSUME DecodeAccepted(mem, batch, q)
       PROVE  SnapshotOf(m).first > pos
  <2>1. q < Context
    BY <1>8, <1>9, <1>12, MemoryAssumption DEF DecodeAccepted
  <2>2. SnapshotOf(m).first > q
    BY <1>7, <1>8, <2>1, SnapshotAbove
  <2>3. m \in Memory
    BY <1>8, <1>9, DecodeType
  <2>4. SnapshotOf(m).first \in Int
    BY <2>3, SnapshotType DEF Snap
  <2> HIDE DEF m
  <2> QED BY <1>8, <2>2, <2>4
<1>13. pc' = (IF DecodeAccepted(mem, batch, q) THEN "draft" ELSE "refused")
       /\ (stack' = Pop \/ stack' = Append(Pop, frame))
  BY <1>2 DEF q
<1>14. frame.kids = Added(Len(sel)) /\ frame.snap = snap
  BY <1>5 DEF Frame
<1>15. /\ Pop \in Seq(Frame) /\ Len(Pop) = Len(stack) - 1 /\ Len(stack) \in Nat
       /\ \A k \in 1..Len(Pop) : Pop[k] = stack[k]
  BY <1>1, <1>3, TopPop
<1> HIDE DEF batch, m, snap, frame
<1>16. ASSUME DecodeAccepted(mem, batch, q),
              NEW k \in 1..Len(stack'), stack'[k].child > 0, Len(stack'[k].kids) > 1
       PROVE  stack'[k].snap.first > pos
  <2>1. ASSUME k \in 1..Len(Pop), stack'[k] = Pop[k]
        PROVE  stack'[k].snap.first > pos
    <3>1. k \in 1..Len(stack) /\ stack'[k] = stack[k]
      BY <1>15, <2>1
    <3> QED BY <1>1, <1>16, <3>1 DEF DraftInv
  <2>2. CASE stack' = Pop
    BY <2>1, <2>2
  <2>3. CASE stack' = Append(Pop, frame)
    <3>1. /\ Len(stack') = Len(Pop) + 1
          /\ \A j \in 1..Len(Pop) : stack'[j] = Pop[j]
          /\ stack'[Len(Pop) + 1] = frame
      BY <1>15, <2>3, AppendProperties
    <3>2. CASE k = Len(Pop) + 1
      <4>1. Len(sel) > 1
        BY <1>10, <1>14, <1>16, <3>1, <3>2
      <4>2. frame.snap = SnapshotOf(m)
        BY <1>14, <4>1 DEF snap
      <4> QED BY <1>12, <1>16, <3>1, <3>2, <4>2
    <3>3. CASE k \in 1..Len(Pop)
      BY <2>1, <3>1, <3>3
    <3> QED BY <1>15, <3>1, <3>2, <3>3
  <2> QED BY <1>13, <2>2, <2>3
<1>17. ASSUME DecodeAccepted(mem, batch, q) PROVE DraftInv'
  BY <1>1, <1>3, <1>4, <1>10, <1>11, <1>16, <1>17 DEF DraftInv
<1> QED BY <1>4, <1>13, <1>17 DEF ExactInv

LEMMA VisitChildExact ==
  ASSUME IInv, VisitChild
  PROVE  ExactInv'
<1> DEFINE old == [Top EXCEPT !.child = @ + 1]
<1> DEFINE below == Append(Pop, old)
<1> DEFINE entry == Entered(Top.kids[Top.child], Top.depth + 1)
<1>1. EmitsGreedy /\ DraftInv /\ TypeOK /\ mem \in Memory
  BY DEF IInv, ExactInv, VisitChild, TypeInv, TypeOK
<1>2. /\ stack # << >> /\ Top.child \in 1..Len(Top.kids)
      /\ mem' = IF Top.child > 1 THEN RestoreTo(mem, Top.snap) ELSE mem
      /\ pc' \in {"draft", "refused"}
      /\ stack' = Append(below, entry)
      /\ UNCHANGED << prompt, emitted, pos, prefix, tree >>
  BY DEF VisitChild
<1>3. EmitsGreedy' /\ Written' = Written
  BY <1>1, <1>2 DEF EmitsGreedy, Written
<1>4. /\ Top \in Frame /\ Top.kids \in Seq(NodeIds)
      /\ Pop \in Seq(Frame) /\ Len(Pop) = Len(stack) - 1 /\ Len(stack) \in Nat \ {0}
      /\ \A k \in 1..Len(Pop) : Pop[k] = stack[k]
  BY <1>1, <1>2, TopPop
<1>5. Top.child \in Nat /\ Top.child > 0 /\ Len(Top.kids) \in Nat /\ Top.snap \in Snap
  BY <1>2, <1>4, LenProperties DEF Frame
<1>6. Len(Top.kids) > 1 => Top.snap.first > pos
  <2>1. Len(stack) \in 1..Len(stack) /\ Top = stack[Len(stack)]
    BY <1>4 DEF Top
  <2> QED BY <1>1, <1>5, <2>1 DEF DraftInv
<1>7. ASSUME NEW p \in Positions, p < pos
      PROVE  mem'.attn[p] = CellOf(prefix.rec.toks, p)
  <2>1. mem.attn[p] = CellOf(prefix.rec.toks, p)
    BY <1>1, <1>7 DEF DraftInv
  <2>2. CASE Top.child > 1
    <3>1. Len(Top.kids) > 1
      BY <1>2, <1>5, <2>2
    <3>2. p < Top.snap.first
      <4>1. p \in Int /\ pos \in Int /\ Top.snap.first \in Int /\ Top.snap.first > pos
        BY <1>1, <1>5, <1>6, <3>1 DEF Positions, TypeOK, Snap
      <4> QED BY <1>7, <4>1
    <3>3. RestoreTo(mem, Top.snap).attn[p] = mem.attn[p]
      BY <1>1, <1>5, <3>2, RestoreSpares
    <3> QED BY <1>2, <2>1, <2>2, <3>3
  <2>3. CASE ~(Top.child > 1)
    BY <1>2, <2>1, <2>3
  <2> QED BY <2>2, <2>3
<1>8. old \in Frame /\ old.kids = Top.kids /\ old.snap = Top.snap
  <2>1. Top.child + 1 \in Nat
    BY <1>5
  <2> QED BY <1>4, <2>1 DEF Frame
<1>9. entry.child = 0 /\ entry \in Frame
  <2>1. Top.kids[Top.child] \in NodeIds
    BY <1>2, <1>4, ElementOfSeq
  <2>2. Top.kids[Top.child] \in Nat
    BY <2>1 DEF NodeIds
  <2>3. Top.depth \in Nat
    BY <1>4 DEF Frame
  <2>4. Top.depth + 1 \in Nat
    BY <2>3
  <2> QED BY <2>2, <2>4, FrameTypes DEF Entered
<1> HIDE DEF old, entry
<1>10. /\ below \in Seq(Frame) /\ Len(below) = Len(stack)
       /\ \A j \in 1..Len(Pop) : below[j] = stack[j]
       /\ below[Len(stack)] = old
  <2>1. /\ below \in Seq(Frame) /\ Len(below) = Len(Pop) + 1
        /\ \A j \in 1..Len(Pop) : below[j] = Pop[j]
        /\ below[Len(Pop) + 1] = old
    BY <1>4, <1>8, AppendProperties
  <2>2. Len(Pop) + 1 = Len(stack)
    BY <1>4
  <2> QED BY <1>4, <2>1, <2>2
<1> HIDE DEF below
<1>11. /\ Len(stack') = Len(stack) + 1
       /\ \A j \in 1..Len(stack) : stack'[j] = below[j]
       /\ stack'[Len(stack) + 1] = entry
  <2>1. /\ Len(stack') = Len(below) + 1
        /\ \A j \in 1..Len(below) : stack'[j] = below[j]
        /\ stack'[Len(below) + 1] = entry
    BY <1>2, <1>9, <1>10, AppendProperties
  <2> QED BY <1>10, <2>1
<1>12. ASSUME NEW k \in 1..Len(stack'), stack'[k].child > 0, Len(stack'[k].kids) > 1
       PROVE  stack'[k].snap.first > pos
  <2>1. CASE k \in 1..Len(Pop)
    <3>1. k \in 1..Len(stack)
      BY <1>4, <2>1
    <3>2. stack'[k] = stack[k]
      BY <1>10, <1>11, <2>1, <3>1
    <3> QED BY <1>1, <1>12, <3>1, <3>2 DEF DraftInv
  <2>2. CASE k = Len(stack)
    <3>1. stack'[k] = old
      BY <1>4, <1>10, <1>11, <2>2
    <3> QED BY <1>6, <1>8, <1>12, <3>1
  <2>3. CASE k = Len(stack) + 1
    <3>1. stack'[k].child = 0
      BY <1>9, <1>11, <2>3
    <3> QED BY <1>12, <3>1
  <2> QED BY <1>4, <1>11, <2>1, <2>2, <2>3
<1>13. DraftInv'
  BY <1>1, <1>2, <1>3, <1>7, <1>12 DEF DraftInv
<1> QED BY <1>2, <1>3, <1>13 DEF ExactInv

LEMMA EndDraftExact ==
  ASSUME IInv, EndDraft
  PROVE  ExactInv'
<1>1. EmitsGreedy /\ DraftInv /\ TypeOK /\ mem \in Memory /\ prefix \in Snap
  BY DEF IInv, ExactInv, EndDraft, TypeInv, TypeOK
<1>2. /\ mem' = RestoreTo(mem, prefix) /\ pc' \in {"path", "refused"}
      /\ path' = << 1 >> /\ verdict' = NoVerdict
      /\ UNCHANGED << prompt, emitted, pos, tree >>
  BY DEF EndDraft
<1>3. EmitsGreedy' /\ Written' = Written
  BY <1>1, <1>2 DEF EmitsGreedy, Written
<1>4. /\ prefix.first = pos /\ prefix.rec.pos = pos - 1 /\ prefix.rec.exact
      /\ pos = Len(prefix.rec.toks) /\ pos <= Context
      /\ \A p \in Positions : p < pos => mem.attn[p] = CellOf(prefix.rec.toks, p)
      /\ Written = Append(prefix.rec.toks, tree[1].tok)
  BY <1>1 DEF DraftInv
<1>5. Coherent(mem') /\ mem'.rec = prefix.rec
  BY <1>1, <1>2, <1>4, RestoreCoherent
<1>6. path'[1] = 1
  BY <1>2
<1>7. PendingInv(tree[path[1]].tok)'
  BY <1>2, <1>3, <1>4, <1>5, <1>6 DEF PendingInv
<1> QED BY <1>2, <1>3, <1>7 DEF ExactInv, NoVerdict

LEMMA ExtendPathExact ==
  ASSUME IInv, ExtendPath
  PROVE  ExactInv'
<1>1. /\ EmitsGreedy /\ TypeOK /\ path # << >> /\ PendingInv(tree[path[1]].tok)
      /\ verdict.alternate = 0 /\ ~verdict.stopped
  BY DEF IInv, ExactInv, ExtendPath, TypeInv, WalkInv
<1>2. /\ PathEnd.children # << >> /\ path' = Append(path, PathEnd.children[1]) /\ pc' = "path"
      /\ UNCHANGED << mem, prompt, emitted, pos, tree, verdict >>
  BY DEF ExtendPath
<1>3. EmitsGreedy' /\ Written' = Written
  BY <1>1, <1>2 DEF EmitsGreedy, Written
<1>4. Len(path) \in Nat \ {0} /\ path \in Seq(NodeIds)
  BY <1>1, EmptySeq DEF TypeOK
<1>5. PathEnd.children[1] \in NodeIds
  <2>1. path[Len(path)] \in NodeIds
    BY <1>4, ElementOfSeq
  <2>2. PathEnd.children \in Seq(NodeIds)
    BY <1>1, <2>1 DEF PathEnd, TypeOK
  <2> QED BY <1>2, <2>2, EmptySeq, ElementOfSeq
<1>6. path'[1] = path[1]
  BY <1>2, <1>4, <1>5, AppendProperties
<1>7. PendingInv(tree[path[1]].tok)'
  BY <1>1, <1>2, <1>3, <1>6 DEF PendingInv
<1> QED BY <1>1, <1>2, <1>3, <1>7 DEF ExactInv

-----------------------------------------------------------------------------
(* Verification, scan and commit.                                          *)

LEMMA VerifyExact ==
  ASSUME IInv, Verify, ~Reuse
  PROVE  ExactInv'
<1> DEFINE n == Len(path)
<1> DEFINE r == mem.rec.toks
<1> DEFINE m1 == BeginTo(mem, pos, n)
<1> DEFINE m2 == DecodeTo(m1, "target", PathTokens, pos)
<1> DEFINE all == r \o PathTokens
<1>1. /\ EmitsGreedy /\ TypeOK /\ path # << >> /\ PendingInv(tree[path[1]].tok)
      /\ verdict.alternate = 0 /\ ~verdict.stopped /\ verdict.scanned = 0
  BY DEF IInv, ExactInv, Verify, TypeInv, WalkInv
<1>2. /\ pc' = IF /\ BeginAccepted(mem, pos, n)
                  /\ DecodeAccepted(m1, PathTokens, pos)
                  /\ FinishAccepted(m2)
               THEN "scan" ELSE "refused"
      /\ mem' = FinishTo(m2)
      /\ out' = Outputs(m1, "target", PathTokens, pos)
      /\ UNCHANGED << prompt, emitted, pos, root, tree, path, verdict >>
  BY DEF Verify, VerifyEngine
<1>3. EmitsGreedy' /\ Written' = Written
  BY <1>1, <1>2 DEF EmitsGreedy, Written
<1>4. /\ n \in Nat \ {0} /\ pos \in Nat /\ mem \in Memory /\ r \in Seq(Token)
  BY <1>1, EmptySeq DEF TypeOK, Memory, Rec
<1>5. /\ PathTokens \in Seq(Token) /\ Len(PathTokens) = n
      /\ \A i \in 1..n : PathTokens[i] = tree[path[i]].tok
  BY <1>1, PathTokensType
<1>6. Coherent(mem) /\ pos = Len(r) /\ Written = Append(r, tree[path[1]].tok)
  BY <1>1 DEF PendingInv
<1> SUFFICES ASSUME BeginAccepted(mem, pos, n), DecodeAccepted(m1, PathTokens, pos),
                    FinishAccepted(m2)
             PROVE  ScanInv'
  BY <1>2, <1>3 DEF ExactInv
<1>7. /\ m1.attn = mem.attn /\ m1.rec = mem.rec /\ m1.hist.first = pos
      /\ m1.hist.tokens = n /\ m1.hist.capturing /\ n \in 1..Capacity
  BY <1>4 DEF BeginTo, BeginAccepted, Memory
<1>8. m1 \in Memory
  BY <1>4, HistoryTypes
<1>9. pos + n <= Context
  BY <1>5 DEF DecodeAccepted
<1> HIDE DEF m1
<1>10. Coherent(m1) /\ pos = Len(m1.rec.toks)
  BY <1>6, <1>7 DEF Coherent
<1>11. /\ m2 \in Memory /\ Coherent(m2) /\ m2.rec.toks = all /\ m2.hist = m1.hist
  <2>1. m2 \in Memory
    BY <1>4, <1>5, <1>8, DecodeType
  <2>2. /\ Coherent(m2) /\ m2.rec.toks = m1.rec.toks \o PathTokens /\ m2.hist = m1.hist
    BY <1>5, <1>8, <1>9, <1>10, DecodeCoherent
  <2> QED BY <1>7, <2>1, <2>2
<1>12. /\ all \in Seq(Token) /\ Len(all) = pos + n
       /\ \A i \in 1..(pos + n) : all[i] = IF i <= pos THEN r[i] ELSE PathTokens[i - pos]
  <2>1. /\ all \in Seq(Token) /\ Len(all) = Len(r) + Len(PathTokens)
        /\ \A i \in 1..(Len(r) + Len(PathTokens)) :
             all[i] = IF i <= Len(r) THEN r[i] ELSE PathTokens[i - Len(r)]
    <3> HIDE DEF r, n, m2
    <3>1. r \in Seq(Token) /\ PathTokens \in Seq(Token)
      BY <1>4, <1>5
    <3> QED BY <3>1, ConcatProperties, Zenon
  <2> HIDE DEF all, r, n
  <2> QED BY <1>5, <1>6, <2>1
<1>13. ASSUME NEW i \in 1..n
       PROVE  all[pos + i] = tree[path[i]].tok
  <2>1. pos + i \in 1..(pos + n) /\ ~(pos + i <= pos) /\ (pos + i) - pos = i
    BY <1>4
  <2> QED BY <1>5, <1>12, <2>1
<1>14. ASSUME NEW i \in 1..n
       PROVE  /\ StateAfter(m1, "target", PathTokens, pos, i) = ExactState(all, pos + i)
              /\ out'[i] = ExactState(all, pos + i)
  <2>1. i \in 0..Len(PathTokens) /\ i \in 1..Len(PathTokens)
    BY <1>4, <1>5
  <2>2. StateAfter(m1, "target", PathTokens, pos, i)
          = ExactState(m1.rec.toks \o PathTokens, pos + i)
    BY <1>5, <1>8, <1>10, <2>1, ExactAfter
  <2>3. out'[i] = StateAfter(m1, "target", PathTokens, pos, i)
    BY <1>2, <2>1 DEF Outputs
  <2> QED BY <1>7, <2>2, <2>3
<1>15. ASSUME n > 1, NEW i \in 1..n
       PROVE  m2.rows[i] = ExactState(all, pos + i)
  <2>1. m2.rows = CapturedRows(m1, "target", PathTokens, pos)
    BY DEF DecodeTo
  <2>2. i \in 1..Capacity /\ i <= Len(PathTokens)
    BY <1>4, <1>5, <1>7, MemoryAssumption
  <2>3. m2.rows[i] = StateAfter(m1, "target", PathTokens, pos, i)
    BY <1>7, <1>15, <2>1, <2>2 DEF CapturedRows
  <2> QED BY <1>14, <2>3
<1> HIDE DEF m2
<1>16. /\ mem'.attn = m2.attn /\ mem'.rec = m2.rec /\ mem'.rows = m2.rows
       /\ mem'.hist.valid /\ mem'.hist.first = pos /\ mem'.hist.tokens = n
  <2>1. m2.hist \in Hist
    BY <1>11 DEF Memory
  <2>2. mem' = [m2 EXCEPT !.hist = [m2.hist EXCEPT !.capturing = FALSE, !.valid = TRUE]]
    BY <1>2 DEF FinishTo
  <2> QED BY <1>7, <1>11, <2>1, <2>2 DEF Memory, Hist
<1>17. Coherent(mem') /\ mem'.rec.toks = all
  BY <1>11, <1>16 DEF Coherent
<1>18. Len(out') = n
  BY <1>2, <1>4, <1>5, <1>8, OutputsType
<1> HIDE DEF all
<1>19. VerifiedInv'
  BY <1>2, <1>7, <1>12, <1>13, <1>14, <1>15, <1>16, <1>17, <1>18 DEF VerifiedInv
<1>20. Written = SubSeq(all, 1, pos + 1)
  <2>1. 1 \in 1..n /\ 1 \in 0..Len(PathTokens)
    BY <1>4, <1>5
  <2>2. SubSeq(PathTokens, 1, 1) = << PathTokens[1] >>
    <3> DEFINE a == SubSeq(PathTokens, 1, 1)
    <3> DEFINE b == << PathTokens[1] >>
    <3>1. a \in Seq(Token) /\ Len(a) = 1 /\ \A i \in 1..1 : a[i] = PathTokens[i]
      BY <1>5, <2>1, PrefixLen
    <3>2. PathTokens[1] \in Token
      BY <1>5, <2>1, ElementOfSeq
    <3>3. b \in Seq(Token) /\ Len(b) = 1 /\ b[1] = PathTokens[1]
      BY <3>2, OneToken
    <3> HIDE DEF a, b
    <3>4. \A i \in 1..Len(a) : a[i] = b[i]
      BY <3>1, <3>3
    <3>5. a = b
      BY <3>1, <3>3, <3>4, SeqEqual
    <3> QED BY <3>5 DEF a, b
  <2>3. r \o SubSeq(PathTokens, 1, 1) = SubSeq(all, 1, pos + 1)
    BY <1>4, <1>5, <1>6, <2>1, PrefixOfConcat DEF all
  <2>4. PathTokens[1] \in Token /\ PathTokens[1] = tree[path[1]].tok
    BY <1>5, <2>1, ElementOfSeq
  <2>5. r \o << PathTokens[1] >> = Append(r, PathTokens[1])
    BY <1>4, <2>4, ConcatOne
  <2> QED BY <1>6, <2>2, <2>3, <2>4, <2>5
<1>21. pos' + verdict'.scanned + 1 = pos + 1
  BY <1>1, <1>2, <1>4
<1> QED BY <1>1, <1>2, <1>3, <1>17, <1>19, <1>20, <1>21 DEF ScanInv

LEMMA ScanNodeExact ==
  ASSUME IInv, ScanNode
  PROVE  ExactInv'
<1> DEFINE i == verdict.scanned + 1
<1> DEFINE match == Matching(path[i], root')
<1> DEFINE onPath == i < Len(path) /\ path[i + 1] = match
<1> DEFINE taken == match # 0 /\ root' \notin Stop
<1> DEFINE r == mem.rec.toks
<1>1. /\ EmitsGreedy /\ TypeInv /\ TypeOK /\ ScanInv /\ VerifiedInv
      /\ verdict.scanned < Len(path)
  BY DEF IInv, ExactInv, ScanNode, TypeInv, WalkInv, ScanInv
<1>2. /\ root' \in Token
      /\ GreedyChoice(out[i], root')
      /\ emitted' = IF taken THEN Append(emitted, root') ELSE emitted
      /\ verdict'.scanned = i
      /\ verdict'.alternate = IF taken /\ ~onPath THEN match ELSE 0
      /\ verdict'.stopped = (match # 0 /\ root' \in Stop)
      /\ pc' = IF taken /\ onPath THEN "scan" ELSE "commit"
      /\ UNCHANGED << mem, out, prompt, pos, tree, path >>
  BY DEF ScanNode, Row
<1>3. /\ verdict.scanned \in Nat /\ Len(path) \in Nat /\ i \in 1..Len(path) /\ pos \in Nat
      /\ r \in Seq(Token)
  BY <1>1, LenProperties DEF TypeOK, Memory, Rec
<1>4. /\ out[i] = ExactState(r, pos + i) /\ Len(r) = pos + Len(path)
      /\ \A j \in 1..Len(path) : r[pos + j] = tree[path[j]].tok
  BY <1>1, <1>3 DEF VerifiedInv
<1>5. Written = SubSeq(r, 1, pos + i)
  <2>1. pos + verdict.scanned + 1 = pos + i
    BY <1>3
  <2> QED BY <1>1, <2>1 DEF ScanInv
<1>6. root' = Greedy(Written)
  BY <1>2, <1>4, <1>5 DEF GreedyChoice, ExactState
<1>7. VerifiedInv'
  BY <1>1, <1>2 DEF VerifiedInv
<1>8. match = 0 \/ tree[match].tok = root'
  <2>1. path[i] \in NodeIds
    BY <1>1, <1>3, ElementOfSeq DEF TypeOK
  <2> QED BY <1>1, <1>2, <2>1, MatchingIsFirst
<1> HIDE DEF match, r
<1>9. CASE taken
  <2>1. EmitsGreedy' /\ Written' = Append(Written, root')
    BY <1>1, <1>2, <1>6, <1>9, EmitsGreedyAppend
  <2>2. CASE onPath
    <3>1. i + 1 \in 1..Len(path) /\ pos + (i + 1) = (pos + i) + 1
          /\ pos + i \in Nat /\ pos + i < Len(r)
      <4>1. Len(r) = pos + Len(path) /\ i < Len(path) /\ i \in Nat
        BY <1>3, <1>4, <2>2
      <4> HIDE DEF i
      <4> QED BY <1>3, <4>1
    <3>2. r[pos + (i + 1)] = root'
      BY <1>4, <1>8, <1>9, <2>2, <3>1
    <3>3. Append(SubSeq(r, 1, pos + i), r[(pos + i) + 1]) = SubSeq(r, 1, (pos + i) + 1)
      BY <1>3, <3>1, PrefixExtend
    <3>4. Written' = SubSeq(r, 1, (pos + i) + 1)
      BY <1>5, <2>1, <3>1, <3>2, <3>3
    <3>5. ScanInv'
      BY <1>2, <1>7, <1>9, <2>2, <3>4 DEF ScanInv, r
    <3>6. pc' = "scan"
      BY <1>2, <1>9, <2>2
    <3> QED BY <2>1, <3>5, <3>6 DEF ExactInv
  <2>3. CASE ~onPath
    <3>1. verdict'.alternate = match /\ match # 0 /\ ~verdict'.stopped /\ pc' = "commit"
      BY <1>2, <1>9, <2>3
    <3>2. Written' = Append(SubSeq(r, 1, pos + i), tree[match].tok)
      BY <1>5, <1>8, <2>1, <3>1
    <3>3. CommitInv'
      BY <1>2, <1>3, <1>7, <3>1, <3>2 DEF CommitInv, r
    <3> QED BY <2>1, <3>1, <3>3 DEF ExactInv
  <2> QED BY <2>2, <2>3
<1>10. CASE ~taken
  <2>1. emitted' = emitted /\ verdict'.alternate = 0 /\ pc' = "commit"
    BY <1>2, <1>10
  <2>2. EmitsGreedy' /\ Written' = Written
    BY <1>1, <1>2, <2>1 DEF EmitsGreedy, Written
  <2>3. CommitInv'
    BY <1>2, <1>3, <1>5, <1>6, <1>7, <2>1, <2>2 DEF CommitInv, r
  <2> QED BY <2>1, <2>2, <2>3 DEF ExactInv
<1> QED BY <1>9, <1>10

(* Committing the scanned prefix leaves the exact memory of that prefix.   *)
LEMMA CommitExact ==
  ASSUME IInv, pc = "commit", CommitAccepted(mem, verdict.scanned)
  PROVE  LET c == CommitTo(mem, verdict.scanned)
             kept == SubSeq(mem.rec.toks, 1, pos + verdict.scanned)
         IN  Coherent(c) /\ c.rec.toks = kept /\ Len(kept) = pos + verdict.scanned
<1> DEFINE n == verdict.scanned
<1> DEFINE r == mem.rec.toks
<1> DEFINE k == pos + n
<1> DEFINE c == CommitTo(mem, n)
<1>1. /\ TypeOK /\ VerifiedInv /\ n \in 1..Len(path) /\ mem \in Memory
  BY DEF IInv, ExactInv, CommitInv, TypeInv, TypeOK
<1>2. r \in Seq(Token) /\ pos \in Nat /\ n \in Nat /\ Len(path) \in Nat /\ n >= 1
  BY <1>1, LenProperties DEF TypeOK, Memory, Rec
<1>3. /\ Coherent(mem) /\ Len(r) = pos + Len(path) /\ mem.hist.first = pos
      /\ mem.hist.tokens = Len(path)
  BY <1>1 DEF VerifiedInv
<1>4. k \in 0..Len(r)
  BY <1>1, <1>2, <1>3
<1>5. /\ CommittedRec(mem, n).exact /\ CommittedRec(mem, n).pos = k - 1
      /\ CommittedRec(mem, n).toks = SubSeq(r, 1, k)
  <2>1. CASE Len(path) = 1
    <3>1. n = 1 /\ k = Len(r)
      BY <1>1, <1>2, <1>3, <2>1
    <3>2. SubSeq(r, 1, k) = r
      BY <1>2, <3>1, SubSeqFull
    <3>3. CommittedRec(mem, n) = mem.rec
      BY <1>3, <2>1 DEF CommittedRec
    <3>4. mem.rec.exact /\ mem.rec.pos = Len(r) - 1
      BY <1>3 DEF Coherent
    <3> QED BY <3>1, <3>2, <3>3, <3>4
  <2>2. CASE Len(path) # 1
    <3>0. Len(path) \in Nat /\ n \in Nat /\ 1 <= n /\ n <= Len(path)
      BY <1>1, <1>2
    <3>1. Len(path) > 1
      <4> DEFINE l == Len(path)
      <4>1. l \in Nat /\ 1 <= l /\ l # 1
        BY <2>2, <3>0
      <4> HIDE DEF l
      <4>2. l > 1
        BY <4>1
      <4> QED BY <4>2 DEF l
    <3>2. mem.rows[n] = ExactState(r, k)
      BY <1>1, <3>1 DEF VerifiedInv
    <3>3. CommittedRec(mem, n) = [pos |-> pos + n - 1, toks |-> mem.rows[n].toks,
                                  exact |-> mem.rows[n].exact]
      BY <1>3, <2>2 DEF CommittedRec
    <3>4. /\ CommittedRec(mem, n).exact = mem.rows[n].exact
          /\ CommittedRec(mem, n).toks = mem.rows[n].toks
          /\ CommittedRec(mem, n).pos = pos + n - 1
      BY <3>3
    <3> DEFINE e == ExactState(r, k)
    <3>5. e.exact = TRUE /\ e.toks = SubSeq(r, 1, k)
      BY DEF ExactState
    <3>6. mem.rows[n] = e
      BY <3>2
    <3> HIDE DEF e
    <3>7. mem.rows[n].exact = TRUE /\ mem.rows[n].toks = SubSeq(r, 1, k)
      BY <3>5, <3>6
    <3>8. CommittedRec(mem, n).exact = TRUE
      BY <3>4, <3>7
    <3>9. CommittedRec(mem, n).pos = k - 1
      BY <1>2, <3>4
    <3> QED BY <3>4, <3>7, <3>8, <3>9
  <2> QED BY <2>1, <2>2
<1>6. c \in Memory
  BY <1>1, <1>2, CommitType
<1>7. /\ c.rec = CommittedRec(mem, n)
      /\ c.attn = AttnTrim(mem.attn, CommittedRec(mem, n).pos + 1)
  BY DEF CommitTo
<1>8. CommittedRec(mem, n).pos + 1 = k
  BY <1>2, <1>5
<1> HIDE DEF c, k
<1>9. Coherent(c)
  BY <1>1, <1>3, <1>4, <1>5, <1>6, <1>7, <1>8, TrimCoherent
<1>10. Len(SubSeq(r, 1, k)) = k
  BY <1>2, <1>4, PrefixLen
<1> QED BY <1>5, <1>7, <1>9, <1>10 DEF c, k

LEMMA CommitAndSwitchExact ==
  ASSUME IInv, CommitAndSwitch
  PROVE  ExactInv'
<1>1. EmitsGreedy /\ CommitInv /\ pc = "commit" /\ TypeOK
  BY DEF IInv, ExactInv, CommitAndSwitch, TypeInv
<1>2. /\ verdict.alternate # 0 /\ ~verdict.stopped
      /\ mem' = CommitTo(mem, verdict.scanned)
      /\ pos' = pos + verdict.scanned
      /\ path' = << verdict.alternate >>
      /\ verdict' = [verdict EXCEPT !.scanned = 0, !.alternate = 0]
      /\ pc' = IF CommitAccepted(mem, verdict.scanned) THEN "path" ELSE "refused"
      /\ UNCHANGED << prompt, emitted, tree >>
  BY DEF CommitAndSwitch, NextPath, Rescan
<1>3. EmitsGreedy' /\ Written' = Written
  BY <1>1, <1>2 DEF EmitsGreedy, Written
<1> DEFINE kept == SubSeq(mem.rec.toks, 1, pos + verdict.scanned)
<1>4. Written = Append(kept, tree[verdict.alternate].tok)
  BY <1>1, <1>2 DEF CommitInv
<1>5. path'[1] = verdict.alternate
  BY <1>2
<1>6. verdict'.alternate = 0 /\ ~verdict'.stopped
  BY <1>1, <1>2 DEF TypeOK
<1>7. ASSUME CommitAccepted(mem, verdict.scanned)
      PROVE  PendingInv(tree[path[1]].tok)'
  <2>1. Coherent(mem') /\ mem'.rec.toks = kept /\ Len(kept) = pos + verdict.scanned
    BY <1>1, <1>2, <1>7, CommitExact
  <2> HIDE DEF kept
  <2> QED BY <1>2, <1>3, <1>4, <1>5, <2>1 DEF PendingInv
<1> QED BY <1>2, <1>3, <1>6, <1>7 DEF ExactInv

LEMMA CommitAndEndExact ==
  ASSUME IInv, CommitAndEnd
  PROVE  ExactInv'
<1>1. EmitsGreedy /\ CommitInv /\ pc = "commit" /\ TypeOK
  BY DEF IInv, ExactInv, CommitAndEnd, TypeInv
<1>2. /\ ~NextPath
      /\ mem' = CommitTo(mem, verdict.scanned)
      /\ pos' = pos + verdict.scanned
      /\ pc' = IF ~CommitAccepted(mem, verdict.scanned) THEN "refused"
               ELSE IF verdict.stopped THEN "done" ELSE "loop"
      /\ UNCHANGED << prompt, emitted, root >>
  BY DEF CommitAndEnd
<1>3. EmitsGreedy' /\ Written' = Written
  BY <1>1, <1>2 DEF EmitsGreedy, Written
<1> DEFINE kept == SubSeq(mem.rec.toks, 1, pos + verdict.scanned)
<1>4. ASSUME CommitAccepted(mem, verdict.scanned), ~verdict.stopped
      PROVE  LoopInv'
  <2>1. Coherent(mem') /\ mem'.rec.toks = kept /\ Len(kept) = pos + verdict.scanned
    BY <1>1, <1>2, <1>4, CommitExact
  <2>2. Len(emitted) < Predict => Written = kept /\ root = Greedy(kept)
    BY <1>1, <1>2, <1>4 DEF NextPath, CommitInv
  <2> HIDE DEF kept
  <2> QED BY <1>2, <1>3, <2>1, <2>2 DEF LoopInv
<1> QED BY <1>2, <1>3, <1>4 DEF ExactInv

LEMMA EndExact ==
  ASSUME IInv, LoopEnds \/ Throws
  PROVE  ExactInv'
<1>1. EmitsGreedy
  BY DEF IInv, ExactInv
<1>2. pc' \in {"done", "failed"} /\ UNCHANGED << prompt, emitted >>
  BY DEF LoopEnds, Throws
<1>3. EmitsGreedy'
  BY <1>1, <1>2 DEF EmitsGreedy
<1> QED BY <1>2, <1>3 DEF ExactInv

LEMMA StutterExact ==
  ASSUME IInv, UNCHANGED vars
  PROVE  ExactInv'
<1>1. ExactInv /\ Written' = Written
  BY DEF IInv, vars, Written
<1>2. EmitsGreedy' = EmitsGreedy
  BY DEF vars, EmitsGreedy
<1>3. PrefillInv' = PrefillInv
  BY DEF vars, PrefillInv
<1>4. LoopInv' = LoopInv
  BY <1>1 DEF vars, LoopInv
<1>5. PendingInv(root)' = PendingInv(root)
  BY <1>1 DEF vars, PendingInv
<1>6. PendingInv(tree[path[1]].tok)' = PendingInv(tree[path[1]].tok)
  BY <1>1 DEF vars, PendingInv
<1>7. DraftInv' = DraftInv
  BY <1>1 DEF vars, DraftInv
<1>8. VerifiedInv' = VerifiedInv
  BY DEF vars, VerifiedInv
<1>9. ScanInv' = ScanInv
  BY <1>1, <1>8 DEF vars, ScanInv
<1>10. CommitInv' = CommitInv
  BY <1>1, <1>8 DEF vars, CommitInv
<1> QED
  BY <1>1, <1>2, <1>3, <1>4, <1>5, <1>6, <1>7, <1>9, <1>10 DEF vars, ExactInv

LEMMA IInvStep == ASSUME ~Reuse PROVE IInv /\ [Next]_vars => IInv'
<1> SUFFICES ASSUME IInv, [Next]_vars PROVE IInv'
  OBVIOUS
<1>1. TypeInv'
  BY TypeInvStep DEF IInv
<1>2. CASE UNCHANGED vars
  BY <1>1, <1>2, StutterExact DEF IInv
<1>3. CASE Start \/ Prefill \/ FirstRoot \/ EmitRoot \/ ArProbe \/ ArStep
  BY <1>1, <1>3, StartExact, PrefillExact, FirstRootExact, EmitRootExact, ArProbeExact,
     ArStepExact DEF IInv
<1>4. CASE LoopEnds \/ Throws
  BY <1>1, <1>4, EndExact DEF IInv
<1>5. CASE StartRound \/ SkipNode \/ Expand \/ VisitChild \/ LeaveNode \/ EndDraft
  BY <1>1, <1>5, StartRoundExact, LeaveExact, ExpandExact, VisitChildExact, EndDraftExact
     DEF IInv
<1>6. CASE ExtendPath \/ Verify \/ ScanNode \/ CommitAndSwitch \/ CommitAndEnd
  BY <1>1, <1>6, ExtendPathExact, VerifyExact, ScanNodeExact, CommitAndSwitchExact,
     CommitAndEndExact DEF IInv
<1>7. CASE Terminated
  BY <1>2, <1>7 DEF Terminated
<1> QED BY <1>2, <1>3, <1>4, <1>5, <1>6, <1>7 DEF Next, Generate, Speculate

-----------------------------------------------------------------------------
(***************************************************************************)
(* The theorems.                                                           *)
(***************************************************************************)

(* IInv holds in every reachable state of generate() without expert reuse. *)
THEOREM Invariance == ~Reuse => (Spec => []IInv)
<1> SUFFICES ASSUME ~Reuse PROVE Spec => []IInv
  OBVIOUS
<1>1. Init => IInv
  BY TypeInvInit, ExactInvInit DEF IInv
<1>2. IInv /\ [Next]_vars => IInv'
  BY IInvStep
<1> QED BY <1>1, <1>2, PTL DEF Spec

(* Lossless speculation: without expert reuse every token that generate()  *)
(* writes is the target's own greedy choice after the prompt and the       *)
(* tokens before it, for every draft, tree shape and pruning policy.       *)
THEOREM LosslessOutput == ~Reuse => (Spec => []EmitsGreedy)
<1>1. IInv => EmitsGreedy
  BY DEF IInv, ExactInv
<1> QED BY <1>1, Invariance, PTL

(* Accepted prefixes are committed exactly: at the loop head, before every *)
(* path and before every autoregressive step the shared memory holds the   *)
(* decoded tokens and nothing a draft or a rejected token left behind.     *)
THEOREM CommittedStateExact == ~Reuse => (Spec => []CommittedExact)
<1>1. IInv => CommittedExact
  <2> SUFFICES ASSUME IInv PROVE CommittedExact
    OBVIOUS
  <2>1. pc = "loop" => LoopInv
    BY DEF IInv, ExactInv
  <2>2. pc \in {"rooted", "ar"} => PendingInv(root)
    BY DEF IInv, ExactInv
  <2>3. pc = "path" => PendingInv(tree[path[1]].tok)
    BY DEF IInv, ExactInv
  <2> QED BY <2>1, <2>2, <2>3 DEF CommittedExact, LoopInv, PendingInv
<1> QED BY <1>1, Invariance, PTL

-----------------------------------------------------------------------------
(***************************************************************************)
(* What generate() asks of the memory, and how much: no call is refused,   *)
(* the draft works on its own branch, no more snapshots are alive than are *)
(* charged, and the counts add up, with and without expert reuse.  Without *)
(* it, the speculative driver implements plain greedy decoding.            *)
(***************************************************************************)

(***************************************************************************)
(* What the steps of expand() do to the stack and to the tree.             *)
(***************************************************************************)
LEMMA Options ==
  /\ Predict \in Nat /\ Draft \in Nat /\ Branches \in Nat /\ MaxNodes \in Nat
  /\ MaxDepth \in Nat /\ Branches >= 1 /\ Prune \in BOOLEAN /\ Ar \in BOOLEAN
  /\ Capacity = Draft + 1 /\ Draft + 1 <= Ubatch /\ Ubatch \in Nat /\ Context \in Nat
  /\ Cardinality(Token) \in Nat
BY DriverAssumption, MemoryAssumption, FS_CardinalityType DEF ValidOptions

LEMMA SelectionSize ==
  ASSUME TypeOK, NEW depth \in Nat, NEW sel \in Selections(depth), Len(tree) <= MaxNodes
  PROVE  /\ sel \in Seq(Token) /\ Len(sel) \in Nat /\ Len(tree) \in Nat
         /\ Len(sel) <= Branches
         /\ Len(tree) + Len(sel) <= MaxNodes + 1
<1> DEFINE width  == Min2(Branches, Cardinality(Token))
           room   == MaxNodes + 1 - Len(tree)
           widest == Min2(width, room)
           fewest == IF Prune THEN 0 ELSE widest
           most   == IF Prune /\ depth + 1 > MaxDepth THEN 0 ELSE widest
<1>1. Len(tree) \in Nat /\ sel \in Seq(Token)
  BY SelectionType, LenProperties DEF TypeOK
<1>2. /\ widest \in Nat /\ widest <= Branches /\ widest <= room /\ room \in Nat
  BY <1>1, Options DEF Min2
<1>3. PICK k \in fewest..most : sel \in [1..k -> Token]
  BY DEF Selections
<1> HIDE DEF widest, room
<1>4. k \in Nat /\ k <= widest
  BY <1>2, <1>3
<1> HIDE DEF fewest, most
<1>5. Len(sel) = k
  BY <1>3, <1>4, LenProperties
<1> QED BY <1>1, <1>2, <1>4, <1>5, Options DEF room

LEMMA GrowChildren ==
  ASSUME TypeOK, NEW node \in NodeIds, NEW sel \in Seq(Token)
  PROVE  /\ \A i \in 1..Len(Grow(node, sel)) :
              Grow(node, sel)[i].children =
                IF i > Len(tree) THEN << >>
                ELSE IF i = node THEN Added(Len(sel)) ELSE tree[i].children
         /\ \A j \in 1..Len(sel) : Added(Len(sel))[j] = Len(tree) + j
         /\ Len(Added(Len(sel))) = Len(sel)
<1>1. /\ Len(Grow(node, sel)) = Len(tree) + Len(sel) /\ Len(Added(Len(sel))) = Len(sel)
      /\ Len(tree) \in Nat /\ Len(sel) \in Nat
  BY GrowType, LenProperties DEF TypeOK
<1>2. ASSUME NEW i \in 1..(Len(tree) + Len(sel))
      PROVE  Grow(node, sel)[i].children =
                IF i > Len(tree) THEN << >>
                ELSE IF i = node THEN Added(Len(sel)) ELSE tree[i].children
  <2>1. CASE i > Len(tree)
    BY <2>1 DEF Grow
  <2>2. CASE ~(i > Len(tree)) /\ i = node
    <3>1. Grow(node, sel)[i] = [tree[i] EXCEPT !.children = Added(Len(sel))]
      BY <2>2 DEF Grow
    <3>2. tree[i] \in Node
      BY <2>2, ElementOfSeq DEF TypeOK, NodeIds
    <3> QED BY <2>2, <3>1, <3>2 DEF Node
  <2>3. CASE ~(i > Len(tree)) /\ i # node
    BY <2>3 DEF Grow
  <2> QED BY <2>1, <2>2, <2>3
<1>3. \A j \in 1..Len(sel) : Added(Len(sel))[j] = Len(tree) + j
  BY DEF Added
<1> QED BY <1>1, <1>2, <1>3

(* expand() of the node on top with the children sel: the frame is left or   *)
(* its children are up next.                                                 *)
Expanded(sel) ==
  /\ pc = "draft" /\ stack # << >> /\ Top.child = 0 /\ Top.depth < Limit
  /\ pc' = IF DecodeAccepted(mem, << tree[Top.node].tok >>, pos + Top.depth)
           THEN "draft" ELSE "refused"
  /\ mem' = DecodeTo(mem, "draft", << tree[Top.node].tok >>, pos + Top.depth)
  /\ tree' = Grow(Top.node, sel)
  /\ Len(tree') <= MaxNodes + 1 /\ Len(sel) <= Branches
  /\ \/ /\ Len(stack') = Len(stack) - 1
        /\ \A k \in 1..Len(stack') : stack'[k] = stack[k]
     \/ /\ Len(stack') = Len(stack)
        /\ \A k \in 1..(Len(stack) - 1) : stack'[k] = stack[k]
        /\ Top.depth + 1 < Limit /\ sel # << >>
        /\ LET f == stack'[Len(stack)]
           IN  /\ f.node = Top.node /\ f.depth = Top.depth /\ f.child = 1
               /\ f.kids = Added(Len(sel))
               /\ f.snap = IF Len(sel) > 1 THEN SnapshotOf(mem') ELSE NoSnap

LEMMA StackTop ==
  ASSUME TypeOK, stack # << >>
  PROVE  /\ Len(stack) \in Nat \ {0} /\ Len(stack) \in 1..Len(stack)
         /\ Top = stack[Len(stack)] /\ Top \in Frame /\ Top.node \in NodeIds
         /\ Top.depth \in Nat /\ Top.child \in Nat /\ Top.snap \in Snap
         /\ Top.kids \in Seq(NodeIds) /\ Len(Top.kids) \in Nat
<1>1. /\ Len(stack) \in Nat \ {0} /\ Top \in Frame /\ Top.node \in NodeIds
      /\ Top.kids \in Seq(NodeIds)
  BY TopPop
<1> QED BY <1>1, LenProperties DEF Top, Frame

LEMMA ExpandFacts ==
  ASSUME TypeOK, Expand
  PROVE  /\ UNCHANGED << out, prompt, off, emitted, pos, root, prefix, path, verdict, stats >>
         /\ \E sel \in Seq(Token) : Expanded(sel)
<1>1. PICK sel \in Selections(Top.depth) :
        LET batch == << tree[Top.node].tok >>
            m     == DecodeTo(mem, "draft", batch, pos + Top.depth)
            snap  == IF Len(sel) > 1 THEN SnapshotOf(m) ELSE NoSnap
        IN  /\ pc'   = IF DecodeAccepted(mem, batch, pos + Top.depth)
                       THEN "draft" ELSE "refused"
            /\ mem'  = m
            /\ tree' = Grow(Top.node, sel)
            /\ stack' = IF Top.depth + 1 >= Limit \/ sel = << >> THEN Pop
                        ELSE Append(Pop, [Top EXCEPT !.kids  = Added(Len(sel)),
                                                     !.child = 1,
                                                     !.snap  = snap])
  BY DEF Expand
<1> DEFINE snap == IF Len(sel) > 1 THEN SnapshotOf(mem') ELSE NoSnap
           frame == [Top EXCEPT !.kids = Added(Len(sel)), !.child = 1, !.snap = snap]
<1>2. /\ pc = "draft" /\ stack # << >> /\ Top.child = 0 /\ Top.depth < Limit
      /\ Len(tree) <= MaxNodes
      /\ UNCHANGED << out, prompt, off, emitted, pos, root, prefix, path, verdict, stats >>
  BY DEF Expand
<1>3. /\ Len(stack) \in Nat \ {0} /\ Top \in Frame /\ Top.node \in NodeIds /\ Top.depth \in Nat
  BY <1>2, StackTop
<1>4. /\ sel \in Seq(Token) /\ Len(sel) <= Branches /\ Len(tree) + Len(sel) <= MaxNodes + 1
  BY <1>2, <1>3, SelectionSize
<1>5. Len(tree') <= MaxNodes + 1
  BY <1>1, <1>3, <1>4, GrowType
<1>6. stack' = IF Top.depth + 1 >= Limit \/ sel = << >> THEN Pop ELSE Append(Pop, frame)
  BY <1>1
<1>7. /\ frame.node = Top.node /\ frame.depth = Top.depth /\ frame.child = 1
      /\ frame.kids = Added(Len(sel)) /\ frame.snap = snap
  BY <1>3 DEF Frame
<1>8. /\ Len(Pop) = Len(stack) - 1 /\ \A k \in 1..(Len(stack) - 1) : Pop[k] = stack[k]
      /\ Pop \in Seq(Frame)
  BY <1>2, TopPop
<1>9. \/ /\ Len(stack') = Len(stack) - 1
         /\ \A k \in 1..Len(stack') : stack'[k] = stack[k]
      \/ /\ Len(stack') = Len(stack)
         /\ \A k \in 1..(Len(stack) - 1) : stack'[k] = stack[k]
         /\ Top.depth + 1 < Limit /\ sel # << >>
         /\ stack'[Len(stack)] = frame
  <2>1. CASE Top.depth + 1 >= Limit \/ sel = << >>
    BY <1>6, <1>8, <2>1
  <2>2. CASE ~(Top.depth + 1 >= Limit \/ sel = << >>)
    <3>1. Limit \in Int
      BY Options, LenProperties DEF Limit, Min2, TypeOK
    <3>2. Top.depth + 1 < Limit /\ sel # << >>
      BY <1>3, <2>2, <3>1
    <3> HIDE DEF frame
    <3>3. stack' = Append(Pop, frame)
      BY <1>6, <2>2
    <3>4. /\ Len(stack') = Len(Pop) + 1 /\ stack'[Len(Pop) + 1] = frame
          /\ \A k \in 1..Len(Pop) : stack'[k] = Pop[k]
      BY <1>8, <3>3, AppendProperties
    <3> QED BY <1>3, <1>8, <3>2, <3>4
  <2> QED BY <2>1, <2>2
<1> HIDE DEF frame
<1>10. /\ pc' = IF DecodeAccepted(mem, << tree[Top.node].tok >>, pos + Top.depth)
                THEN "draft" ELSE "refused"
       /\ mem' = DecodeTo(mem, "draft", << tree[Top.node].tok >>, pos + Top.depth)
       /\ tree' = Grow(Top.node, sel)
  BY <1>1
<1>11. Expanded(sel)
  BY <1>2, <1>4, <1>5, <1>7, <1>9, <1>10 DEF Expanded
<1> QED BY <1>2, <1>4, <1>11

(* Going on with the next child of the node on top.                          *)
LEMMA VisitFacts ==
  ASSUME TypeOK, VisitChild
  PROVE  /\ pc = "draft" /\ stack # << >> /\ Top.child \in 1..Len(Top.kids)
         /\ UNCHANGED << out, prompt, off, emitted, pos, root, prefix, tree, path, verdict,
                         stats >>
         /\ Len(stack') = Len(stack) + 1
         /\ \A k \in 1..(Len(stack) - 1) : stack'[k] = stack[k]
         /\ LET f == stack'[Len(stack)]
                e == stack'[Len(stack) + 1]
            IN  /\ f.node = Top.node /\ f.depth = Top.depth /\ f.kids = Top.kids
                /\ f.snap = Top.snap /\ f.child = Top.child + 1
                /\ e.node = Top.kids[Top.child] /\ e.depth = Top.depth + 1
                /\ e.kids = << >> /\ e.child = 0 /\ e.snap = NoSnap
<1> DEFINE old == [Top EXCEPT !.child = @ + 1]
           below == Append(Pop, old)
           entry == Entered(Top.kids[Top.child], Top.depth + 1)
<1>1. /\ pc = "draft" /\ stack # << >> /\ Top.child \in 1..Len(Top.kids)
      /\ stack' = Append(below, entry)
      /\ UNCHANGED << out, prompt, off, emitted, pos, root, prefix, tree, path, verdict,
                      stats >>
  BY DEF VisitChild
<1>2. /\ Len(stack) \in Nat \ {0} /\ Top \in Frame /\ Top.depth \in Nat /\ Top.child \in Nat
      /\ Top.kids \in Seq(NodeIds)
  BY <1>1, StackTop
<1>3. /\ Len(Pop) = Len(stack) - 1 /\ \A k \in 1..(Len(stack) - 1) : Pop[k] = stack[k]
      /\ Pop \in Seq(Frame)
  BY <1>1, TopPop
<1>4. /\ old \in Frame /\ old.node = Top.node /\ old.depth = Top.depth /\ old.kids = Top.kids
      /\ old.snap = Top.snap /\ old.child = Top.child + 1
  <2>1. Top.child + 1 \in Nat
    BY <1>2
  <2> QED BY <1>2, <2>1 DEF Frame
<1>5. /\ entry \in Frame /\ entry.node = Top.kids[Top.child] /\ entry.depth = Top.depth + 1
      /\ entry.kids = << >> /\ entry.child = 0 /\ entry.snap = NoSnap
  <2>1. Top.kids[Top.child] \in Nat
    BY <1>1, <1>2, ElementOfSeq DEF NodeIds
  <2>2. Top.depth + 1 \in Nat
    BY <1>2
  <2> QED BY <2>1, <2>2, FrameTypes DEF Entered
<1> HIDE DEF old, entry
<1>6. /\ below \in Seq(Frame) /\ Len(below) = Len(stack) /\ below[Len(stack)] = old
      /\ \A k \in 1..(Len(stack) - 1) : below[k] = stack[k]
  <2>1. /\ below \in Seq(Frame) /\ Len(below) = Len(Pop) + 1 /\ below[Len(Pop) + 1] = old
        /\ \A k \in 1..Len(Pop) : below[k] = Pop[k]
    BY <1>3, <1>4, AppendProperties
  <2> QED BY <1>2, <1>3, <2>1
<1> HIDE DEF below
<1>7. /\ Len(stack') = Len(stack) + 1 /\ stack'[Len(stack) + 1] = entry
      /\ \A k \in 1..Len(stack) : stack'[k] = below[k]
  <2>1. /\ Len(stack') = Len(below) + 1 /\ stack'[Len(below) + 1] = entry
        /\ \A k \in 1..Len(below) : stack'[k] = below[k]
    BY <1>1, <1>5, <1>6, AppendProperties
  <2> QED BY <1>6, <2>1
<1>8. /\ stack'[Len(stack)] = old
      /\ \A k \in 1..(Len(stack) - 1) : stack'[k] = stack[k]
  BY <1>2, <1>6, <1>7
<1> QED BY <1>1, <1>4, <1>5, <1>7, <1>8

(* Leaving a node.                                                           *)
LEMMA LeaveFacts ==
  ASSUME TypeOK, SkipNode \/ LeaveNode
  PROVE  /\ pc = "draft" /\ stack # << >> /\ Len(stack') = Len(stack) - 1
         /\ \A k \in 1..Len(stack') : stack'[k] = stack[k]
         /\ UNCHANGED << pc, mem, out, prompt, off, emitted, pos, root, prefix, tree, path,
                         verdict, stats >>
<1>1. /\ pc = "draft" /\ stack # << >> /\ stack' = Pop
      /\ UNCHANGED << pc, mem, out, prompt, off, emitted, pos, root, prefix, tree, path,
                      verdict, stats >>
  BY DEF SkipNode, LeaveNode
<1> QED BY <1>1, TopPop

-----------------------------------------------------------------------------
(***************************************************************************)
(* The stack of expand().                                                  *)
(***************************************************************************)

(* A frame that forks is above the deepest level and below the last node.    *)
LEMMA ForkCharged ==
  ASSUME NEW k \in Nat, k < Limit, k <= MaxNodes, Branches > 1, emitted \in Seq(Token)
  PROVE  k < AccountedSnapshots
<1>1. Len(emitted) \in Nat
  BY LenProperties
<1>2. Limit \in Int /\ Limit <= Draft /\ (Prune => Limit <= MaxDepth)
  BY <1>1, Options DEF Limit, Min2
<1> QED BY <1>2, Options DEF AccountedSnapshots, Min2

LEMMA StackInvExpand ==
  ASSUME TypeInv, StackInv, Expand
  PROVE  StackInv'
<1>1. TypeOK
  BY DEF TypeInv
<1>2. UNCHANGED << emitted >> /\ \E sel \in Seq(Token) : Expanded(sel)
  BY <1>1, ExpandFacts
<1>3. PICK sel \in Seq(Token) : Expanded(sel)
  BY <1>2
<1> DEFINE n == Len(stack)
<1>4. /\ n \in Nat \ {0} /\ n \in 1..n /\ Top = stack[n] /\ Top.node \in NodeIds
      /\ Len(tree) \in Nat /\ Len(sel) \in Nat /\ Top.node \in Nat
  <2>1. stack # << >>
    BY <1>3 DEF Expanded
  <2>2. n \in Nat \ {0} /\ n \in 1..n /\ Top = stack[n] /\ Top.node \in NodeIds
    BY <1>1, <2>1, StackTop
  <2>3. Len(tree) \in Nat /\ Len(sel) \in Nat
    BY <1>1, LenProperties DEF TypeOK
  <2> HIDE DEF n
  <2> QED BY <2>2, <2>3 DEF NodeIds
<1>5. Top.depth = n - 1 /\ Top.node >= n
  BY <1>4 DEF StackInv
<1>6. /\ Len(tree') = Len(tree) + Len(sel) /\ Len(tree') <= MaxNodes + 1
      /\ Len(Added(Len(sel))) = Len(sel)
      /\ \A j \in 1..Len(sel) : Added(Len(sel))[j] = Len(tree) + j
  BY <1>1, <1>3, <1>4, GrowType, GrowChildren DEF Expanded
<1>7. \A j \in 1..Len(sel) : Added(Len(sel))[j] > Top.node
  BY <1>4, <1>6 DEF NodeIds
<1> HIDE DEF n
<1>8. CASE /\ Len(stack') = n - 1
           /\ \A k \in 1..Len(stack') : stack'[k] = stack[k]
  <2>1. ASSUME NEW k \in 1..Len(stack')
        PROVE  /\ stack'[k].depth = k - 1 /\ stack'[k].node >= k
               /\ \A i \in 1..Len(stack'[k].kids) : stack'[k].kids[i] > stack'[k].node
               /\ k < Len(stack') => stack'[k].child > 1
               /\ stack'[k].snap # NoSnap => k < AccountedSnapshots
    <3>1. k \in 1..Len(stack) /\ k < Len(stack) /\ stack'[k] = stack[k]
      BY <1>4, <1>8 DEF n
    <3> QED BY <3>1 DEF StackInv
  <2> QED BY <1>6, <2>1 DEF StackInv, AccountedSnapshots
<1>9. CASE /\ Len(stack') = n
           /\ \A k \in 1..(n - 1) : stack'[k] = stack[k]
           /\ Top.depth + 1 < Limit /\ sel # << >>
           /\ LET f == stack'[n]
              IN  /\ f.node = Top.node /\ f.depth = Top.depth /\ f.child = 1
                  /\ f.kids = Added(Len(sel))
                  /\ f.snap = IF Len(sel) > 1 THEN SnapshotOf(mem') ELSE NoSnap
  <2>1. ASSUME Len(sel) > 1
        PROVE  n < AccountedSnapshots
    <3>1. Branches > 1 /\ n <= MaxNodes
      BY <1>3, <1>4, <1>5, <1>6, <2>1, Options DEF Expanded, NodeIds
    <3>2. n < Limit
      BY <1>4, <1>5, <1>9
    <3> QED BY <1>1, <1>4, <3>1, <3>2, ForkCharged DEF TypeOK
  <2>2. ASSUME NEW k \in 1..Len(stack')
        PROVE  /\ stack'[k].depth = k - 1 /\ stack'[k].node >= k
               /\ \A i \in 1..Len(stack'[k].kids) : stack'[k].kids[i] > stack'[k].node
               /\ k < Len(stack') => stack'[k].child > 1
               /\ stack'[k].snap # NoSnap => k < AccountedSnapshots
    <3>1. CASE k = n
      <4>1. stack'[k].snap # NoSnap => Len(sel) > 1
        BY <1>9, <3>1
      <4> QED BY <1>4, <1>5, <1>6, <1>7, <1>9, <2>1, <3>1, <4>1
    <3>2. CASE k \in 1..(n - 1)
      <4>1. k \in 1..Len(stack) /\ k < Len(stack) /\ stack'[k] = stack[k]
        BY <1>4, <1>9, <3>2 DEF n
      <4> QED BY <4>1 DEF StackInv
    <3> QED BY <1>4, <1>9, <3>1, <3>2
  <2> QED BY <1>6, <2>2 DEF StackInv, AccountedSnapshots
<1> QED BY <1>3, <1>8, <1>9 DEF Expanded, n

LEMMA StackInvVisit ==
  ASSUME TypeInv, StackInv, VisitChild
  PROVE  StackInv'
<1>1. TypeOK
  BY DEF TypeInv
<1> DEFINE n == Len(stack)
<1>2. /\ stack # << >> /\ Top.child \in 1..Len(Top.kids) /\ UNCHANGED tree
      /\ Len(stack') = n + 1
      /\ \A k \in 1..(n - 1) : stack'[k] = stack[k]
      /\ LET f == stack'[n]
             e == stack'[n + 1]
         IN  /\ f.node = Top.node /\ f.depth = Top.depth /\ f.kids = Top.kids
             /\ f.snap = Top.snap /\ f.child = Top.child + 1
             /\ e.node = Top.kids[Top.child] /\ e.depth = Top.depth + 1
             /\ e.kids = << >> /\ e.child = 0 /\ e.snap = NoSnap
  BY <1>1, VisitFacts
<1>3. /\ n \in Nat \ {0} /\ n \in 1..n /\ Top = stack[n] /\ Top.node \in Nat
      /\ Top.child \in Nat /\ Top.kids \in Seq(NodeIds)
  BY <1>1, <1>2, StackTop DEF NodeIds
<1>4. /\ Top.depth = n - 1 /\ Top.node >= n
      /\ \A i \in 1..Len(Top.kids) : Top.kids[i] > Top.node
      /\ Top.snap # NoSnap => n < AccountedSnapshots
  BY <1>3 DEF StackInv
<1>5. Top.kids[Top.child] >= n + 1
  <2>1. Top.kids[Top.child] \in Nat /\ Top.kids[Top.child] > Top.node
    BY SMTT(60), <1>2, <1>3, <1>4, ElementOfSeq DEF NodeIds
  <2> QED BY <1>3, <1>4, <2>1
<1> HIDE DEF n
<1>6. ASSUME NEW k \in 1..Len(stack')
      PROVE  /\ stack'[k].depth = k - 1 /\ stack'[k].node >= k
             /\ \A i \in 1..Len(stack'[k].kids) : stack'[k].kids[i] > stack'[k].node
             /\ k < Len(stack') => stack'[k].child > 1
             /\ stack'[k].snap # NoSnap => k < AccountedSnapshots
  <2>1. CASE k = n + 1
    <3>1. \A i \in 1..Len(stack'[k].kids) : FALSE
      BY <1>2, <2>1
    <3>2. stack'[k].depth = Top.depth + 1 /\ stack'[k].node = Top.kids[Top.child]
          /\ stack'[k].snap = NoSnap
      BY <1>2, <2>1
    <3> QED BY <1>2, <1>3, <1>4, <1>5, <2>1, <3>1, <3>2
  <2>2. CASE k = n
    <3>1. /\ stack'[k].node = Top.node /\ stack'[k].depth = Top.depth
          /\ stack'[k].kids = Top.kids /\ stack'[k].snap = Top.snap
          /\ stack'[k].child = Top.child + 1 /\ Top.child >= 1
      BY <1>2, <2>2
    <3>2. stack'[k].child > 1
      BY <1>3, <3>1
    <3> QED BY <1>4, <2>2, <3>1, <3>2
  <2>3. CASE k \in 1..(n - 1)
    <3>1. k \in 1..Len(stack) /\ k < Len(stack) /\ stack'[k] = stack[k]
      BY <1>2, <1>3, <2>3 DEF n
    <3> QED BY <3>1 DEF StackInv
  <2> QED BY <1>2, <1>3, <2>1, <2>2, <2>3
<1> QED BY <1>2, <1>6 DEF StackInv, AccountedSnapshots

LEMMA StackInvStep ==
  ASSUME TypeInv, StackInv, [Next]_vars
  PROVE  StackInv'
<1>1. TypeOK
  BY DEF TypeInv
<1>2. CASE SkipNode \/ LeaveNode
  <2>1. /\ UNCHANGED tree /\ Len(stack') = Len(stack) - 1 /\ Len(stack) \in Nat
        /\ \A k \in 1..Len(stack') : stack'[k] = stack[k]
    BY <1>1, <1>2, LeaveFacts, LenProperties DEF TypeOK
  <2> QED BY <2>1 DEF StackInv, AccountedSnapshots
<1>3. CASE StartRound
  <2>1. Len(tree') = 1 /\ stack' = << Entered(1, 0) >>
    BY <1>3 DEF StartRound
  <2>2. /\ Len(stack') = 1 /\ stack'[1].depth = 0 /\ stack'[1].node = 1
        /\ stack'[1].kids = << >> /\ stack'[1].snap = NoSnap
    BY <2>1 DEF Entered
  <2>3. \A k \in 1..Len(stack') : k = 1 /\ \A i \in 1..Len(stack'[1].kids) : FALSE
    BY <2>2
  <2> QED BY <2>1, <2>2, <2>3, Options DEF StackInv
<1>4. CASE CommitAndEnd
  <2>1. tree' = << >> /\ stack' = << >>
    BY <1>4 DEF CommitAndEnd, TypeInv, WalkInv
  <2>2. Len(tree') = 0 /\ \A k \in 1..Len(stack') : FALSE
    BY <2>1
  <2> QED BY <2>2, Options DEF StackInv
<1>5. CASE UNCHANGED << tree, stack >>
  BY <1>5 DEF StackInv, AccountedSnapshots
<1>6. CASE \/ Start \/ Prefill \/ FirstRoot \/ EmitRoot \/ LoopEnds \/ ArProbe \/ ArStep
           \/ EndDraft \/ ExtendPath \/ Verify \/ ScanNode \/ CommitAndSwitch \/ Throws
           \/ Terminated \/ UNCHANGED vars
  BY <1>5, <1>6 DEF Start, Prefill, FirstRoot, EmitRoot, LoopEnds, ArProbe, ArStep,
     EndDraft, ExtendPath, Verify, ScanNode, CommitAndSwitch, Throws, Terminated, vars
<1> QED BY <1>2, <1>3, <1>4, <1>6, StackInvExpand, StackInvVisit
        DEF Next, Generate, Speculate

LEMMA StackInvInit == Init => StackInv
<1> SUFFICES ASSUME Init PROVE StackInv
  OBVIOUS
<1>1. Len(tree) = 0 /\ \A k \in 1..Len(stack) : FALSE
  BY DEF Init
<1> QED BY <1>1, Options DEF StackInv

(* check_memory() charges enough: however expand() forks and however deep    *)
(* it recurses, no more host snapshots are alive than it accounted for.      *)
THEOREM SnapshotsCharged == Spec => []SnapshotsAccounted
<1>1. TypeInv /\ StackInv => SnapshotsAccounted
  <2> SUFFICES ASSUME TypeInv, StackInv PROVE SnapshotsAccounted
    OBVIOUS
  <2> DEFINE forks == {k \in 1..Len(stack) : stack[k].snap # NoSnap}
  <2>1. AccountedSnapshots \in Nat /\ AccountedSnapshots >= 1
    BY Options DEF AccountedSnapshots, Min2
  <2> HIDE DEF AccountedSnapshots
  <2>2. Len(stack) \in Nat
    BY LenProperties DEF TypeInv, TypeOK
  <2>3. forks \subseteq 1..(AccountedSnapshots - 1)
    BY <2>1, <2>2 DEF StackInv
  <2>4. /\ IsFiniteSet(1..(AccountedSnapshots - 1))
        /\ Cardinality(1..(AccountedSnapshots - 1)) = AccountedSnapshots - 1
    <3>1. Cardinality(1..(AccountedSnapshots - 1)) =
            IF 1 > AccountedSnapshots - 1 THEN 0 ELSE AccountedSnapshots - 1 - 1 + 1
      BY <2>1, FS_Interval
    <3>2. IsFiniteSet(1..(AccountedSnapshots - 1))
      BY <2>1, FS_Interval
    <3> QED BY <2>1, <3>1, <3>2
  <2>5. Cardinality(forks) \in Nat /\ Cardinality(forks) <= AccountedSnapshots - 1
    BY <2>3, <2>4, FS_Subset, FS_CardinalityType
  <2> HIDE DEF forks
  <2> QED BY <2>1, <2>5 DEF SnapshotsAccounted, LiveSnapshots, forks
<1>2. Init => TypeInv /\ StackInv
  BY TypeInvInit, StackInvInit
<1>3. TypeInv /\ StackInv /\ [Next]_vars => (TypeInv /\ StackInv)'
  BY TypeInvStep, StackInvStep
<1> QED BY <1>1, <1>2, <1>3, PTL DEF Spec

-----------------------------------------------------------------------------
(***************************************************************************)
(* The levels of the tree.                                                 *)
(***************************************************************************)

(* One iteration of the scan: the answer ends the path, goes on along it, or *)
(* names the branch that is verified next.                                   *)
LEMMA ScanFacts ==
  ASSUME TypeInv, ScanNode
  PROVE  LET i == verdict.scanned + 1
         IN  /\ pc = "scan" /\ verdict.scanned \in Nat /\ i \in 1..Len(path)
             /\ path[i] \in NodeIds /\ root' \in Token
             /\ UNCHANGED << mem, out, prompt, off, pos, prefix, tree, stack, path, stats >>
             /\ verdict'.scanned = i
             /\ \/ /\ emitted' = emitted /\ pc' = "commit"
                   /\ verdict'.accepted = verdict.accepted /\ verdict'.alternate = 0
                   /\ verdict'.stopped => root' \in Stop
                \/ /\ emitted' = Append(emitted, root') /\ ~verdict'.stopped
                   /\ verdict'.accepted = verdict.accepted + 1
                   /\ \/ /\ pc' = "scan" /\ i + 1 \in 1..Len(path) /\ verdict'.alternate = 0
                         /\ \E j \in 1..Len(tree[path[i]].children) :
                              path[i + 1] = tree[path[i]].children[j]
                      \/ /\ pc' = "commit" /\ verdict'.alternate \in NodeIds
                         /\ \E j \in 1..Len(tree[path[i]].children) :
                              verdict'.alternate = tree[path[i]].children[j]
<1> DEFINE i == verdict.scanned + 1
           match == Matching(path[i], root')
           onPath == i < Len(path) /\ path[i + 1] = match
           taken == match # 0 /\ root' \notin Stop
<1>1. TypeOK /\ pc = "scan" /\ verdict.scanned < Len(path)
  BY DEF TypeInv, WalkInv, ScanNode
<1>2. verdict.scanned \in Nat /\ Len(path) \in Nat /\ path \in Seq(NodeIds)
  BY <1>1, LenProperties DEF TypeOK
<1>3. i \in 1..Len(path) /\ (i < Len(path) => i + 1 \in 1..Len(path))
  BY <1>1, <1>2
<1>4. path[i] \in NodeIds
  BY <1>2, <1>3, ElementOfSeq
<1>5. root' \in Token
  BY DEF ScanNode
<1>6. /\ emitted' = (IF taken THEN Append(emitted, root') ELSE emitted)
      /\ verdict'.scanned = i
      /\ verdict'.accepted = (IF taken THEN verdict.accepted + 1 ELSE verdict.accepted)
      /\ verdict'.alternate = (IF taken /\ ~onPath THEN match ELSE 0)
      /\ pc' = (IF taken /\ onPath THEN "scan" ELSE "commit")
      /\ UNCHANGED << mem, out, prompt, off, pos, prefix, tree, stack, path, stats >>
  BY DEF ScanNode
<1>7. verdict'.stopped = (match # 0 /\ root' \in Stop)
  BY DEF ScanNode
<1>8. match # 0 => /\ match \in NodeIds
                   /\ \E j \in 1..Len(tree[path[i]].children) :
                        match = tree[path[i]].children[j]
  BY <1>1, <1>4, <1>5, MatchingIsFirst
<1> HIDE DEF i, match
<1>9. CASE ~taken
  BY <1>1, <1>2, <1>3, <1>4, <1>5, <1>6, <1>7, <1>9 DEF i
<1>10. CASE taken /\ onPath
  BY <1>1, <1>2, <1>3, <1>4, <1>5, <1>6, <1>7, <1>8, <1>10 DEF i
<1>11. CASE taken /\ ~onPath
  BY <1>1, <1>2, <1>3, <1>4, <1>5, <1>6, <1>7, <1>8, <1>11 DEF i
<1> QED BY <1>9, <1>10, <1>11

(* Steps that leave the tree alone and lead to none of its labels.           *)
LEMMA LevelsIdle ==
  ASSUME TypeInv, LevelInv, UNCHANGED tree,
         pc' \notin {"draft", "path", "scan", "commit"}
  PROVE  LevelInv'
<1>1. PICK lv \in [NodeIds -> 0..Draft] : Levels(lv)
  BY DEF LevelInv
<1>2. Levels(lv)' /\ NodeIds' = NodeIds
  BY <1>1 DEF Levels, TreeLevels, NodeIds
<1> QED BY <1>1, <1>2 DEF LevelInv

LEMMA LevelsStart ==
  ASSUME TypeInv, CountInv, StartRound
  PROVE  LevelInv'
<1> DEFINE lv == [i \in {1} |-> 0]
<1>1. /\ tree' = << [tok |-> root, children |-> << >>] >> /\ stack' = << Entered(1, 0) >>
      /\ pc' = "draft" /\ emitted' = emitted
  BY DEF StartRound
<1>2. NodeIds' = {1} /\ tree'[1].children = << >>
  BY <1>1 DEF NodeIds
<1>3. /\ Len(stack') = 1 /\ stack'[1].depth = 0 /\ stack'[1].node = 1
      /\ stack'[1].kids = << >>
  BY <1>1 DEF Entered
<1>4. lv[1] = 0 /\ lv \in [NodeIds' -> 0..Draft]
  BY <1>2, Options
<1> HIDE DEF lv
<1>5. TreeLevels(lv)'
  BY <1>2, <1>4 DEF TreeLevels
<1>6. Room(lv, 1)'
  <2>1. Len(emitted) <= Predict /\ Len(emitted) \in Nat
    BY LenProperties DEF CountInv, TypeInv, TypeOK
  <2> QED BY <1>1, <1>2, <1>4, <2>1, Options DEF Room
<1>7. DraftLevels(lv)'
  <2>1. \A k \in 1..Len(stack') : k = 1
    BY <1>3
  <2>2. \A i \in 1..Len(stack'[1].kids) : FALSE
    BY <1>3
  <2> QED BY <1>3, <1>4, <1>6, <2>1, <2>2 DEF DraftLevels
<1>8. Levels(lv)'
  BY <1>1, <1>5, <1>7 DEF Levels
<1> QED BY <1>4, <1>8 DEF LevelInv

LEMMA LevelsLeave ==
  ASSUME TypeInv, LevelInv, SkipNode \/ LeaveNode
  PROVE  LevelInv'
<1>1. PICK lv \in [NodeIds -> 0..Draft] : Levels(lv)
  BY DEF LevelInv
<1>2. /\ pc = "draft" /\ pc' = "draft" /\ UNCHANGED << tree, emitted >>
      /\ Len(stack') = Len(stack) - 1 /\ Len(stack) \in Nat
      /\ \A k \in 1..Len(stack') : stack'[k] = stack[k]
  BY LeaveFacts, LenProperties DEF TypeInv, TypeOK
<1>3. \A k \in 1..Len(stack') : k \in 1..Len(stack)
  BY <1>2
<1>4. DraftLevels(lv)'
  BY <1>1, <1>2, <1>3 DEF Levels, DraftLevels, Room, NodeIds
<1>5. Levels(lv)' /\ NodeIds' = NodeIds
  BY <1>1, <1>2, <1>4 DEF Levels, TreeLevels, NodeIds
<1> QED BY <1>1, <1>5 DEF LevelInv

LEMMA LevelsVisit ==
  ASSUME TypeInv, LevelInv, VisitChild
  PROVE  LevelInv'
<1>1. PICK lv \in [NodeIds -> 0..Draft] : Levels(lv)
  BY DEF LevelInv
<1> DEFINE n == Len(stack)
<1>2. /\ pc = "draft" /\ stack # << >> /\ Top.child \in 1..Len(Top.kids)
      /\ UNCHANGED << tree, emitted >>
      /\ Len(stack') = n + 1
      /\ \A k \in 1..(n - 1) : stack'[k] = stack[k]
      /\ LET f == stack'[n]
             e == stack'[n + 1]
         IN  /\ f.node = Top.node /\ f.depth = Top.depth /\ f.kids = Top.kids
             /\ e.node = Top.kids[Top.child] /\ e.depth = Top.depth + 1 /\ e.kids = << >>
  BY VisitFacts DEF TypeInv
<1>3. n \in Nat \ {0} /\ n \in 1..n /\ Top = stack[n]
  BY <1>2, StackTop DEF TypeInv
<1>4. pc' \in {"draft", "refused"}
  BY DEF VisitChild
<1>5. DraftLevels(lv)
  BY <1>1, <1>2 DEF Levels
<1>6. /\ lv[Top.node] = Top.depth
      /\ \A i \in 1..Len(Top.kids) : lv[Top.kids[i]] = Top.depth + 1
  BY <1>3, <1>5 DEF DraftLevels
<1> HIDE DEF n
<1>7. ASSUME NEW k \in 1..Len(stack')
      PROVE  /\ lv[stack'[k].node] = stack'[k].depth
             /\ \A i \in 1..Len(stack'[k].kids) : lv[stack'[k].kids[i]] = stack'[k].depth + 1
  <2>1. CASE k = n + 1
    <3>1. \A i \in 1..Len(stack'[k].kids) : FALSE
      BY <1>2, <2>1
    <3> QED BY <1>2, <1>6, <2>1, <3>1
  <2>2. CASE k = n
    BY <1>2, <1>6, <2>2
  <2>3. CASE k \in 1..(n - 1)
    <3>1. k \in 1..Len(stack) /\ stack'[k] = stack[k]
      BY <1>2, <1>3, <2>3 DEF n
    <3> QED BY <1>5, <3>1 DEF DraftLevels
  <2> QED BY <1>2, <1>3, <2>1, <2>2, <2>3
<1>8. Room(lv, 1)'
  BY <1>2, <1>5 DEF DraftLevels, Room, NodeIds
<1>9. DraftLevels(lv)'
  BY <1>7, <1>8 DEF DraftLevels
<1>10. Levels(lv)' /\ NodeIds' = NodeIds
  BY <1>1, <1>2, <1>4, <1>9 DEF Levels, TreeLevels, NodeIds
<1> QED BY <1>1, <1>10 DEF LevelInv

(* The children of a node at depth d are at depth d + 1, which is within the *)
(* draft length and within the tokens still asked for.                       *)
LEMMA LevelsExpand ==
  ASSUME TypeInv, StackInv, LevelInv, Expand
  PROVE  LevelInv'
<1>1. PICK lv \in [NodeIds -> 0..Draft] : Levels(lv)
  BY DEF LevelInv
<1>2. TypeOK /\ emitted' = emitted /\ \E sel \in Seq(Token) : Expanded(sel)
  BY ExpandFacts DEF TypeInv
<1>3. PICK sel \in Seq(Token) : Expanded(sel)
  BY <1>2
<1> DEFINE n == Len(stack)
           N == Len(tree)
           d == Top.depth
           grown == [i \in 1..(N + Len(sel)) |-> IF i <= N THEN lv[i] ELSE d + 1]
<1>4. /\ pc = "draft" /\ stack # << >> /\ d < Limit /\ pc' \in {"draft", "refused"}
      /\ tree' = Grow(Top.node, sel)
  BY <1>3 DEF Expanded
<1>5. /\ n \in Nat \ {0} /\ n \in 1..n /\ Top = stack[n] /\ Top.node \in NodeIds
      /\ d \in Nat
  BY <1>2, <1>4, StackTop
<1>6. N \in Nat /\ Len(sel) \in Nat /\ Len(emitted) \in Nat
  BY <1>2, LenProperties DEF TypeOK
<1>7. d + 1 <= Draft /\ d + 1 + Len(emitted) <= Predict
  <2>1. Limit \in Int /\ Limit <= Draft /\ Limit + Len(emitted) <= Predict
    BY <1>6, Options DEF Limit, Min2
  <2> QED BY <1>4, <1>5, <1>6, <2>1, Options
<1>8. /\ Len(tree') = N + Len(sel)
      /\ Len(Added(Len(sel))) = Len(sel)
      /\ \A j \in 1..Len(sel) : Added(Len(sel))[j] = N + j
      /\ \A i \in 1..Len(tree') :
           tree'[i].children = IF i > N THEN << >>
                               ELSE IF i = Top.node THEN Added(Len(sel))
                               ELSE tree[i].children
  <2>1. Len(tree') = N + Len(sel) /\ Len(Added(Len(sel))) = Len(sel)
    BY <1>2, <1>4, <1>5, GrowType
  <2>2. \A j \in 1..Len(sel) : Added(Len(sel))[j] = N + j
    BY <1>2, <1>5, GrowChildren
  <2>3. \A i \in 1..Len(tree') :
           tree'[i].children = IF i > N THEN << >>
                               ELSE IF i = Top.node THEN Added(Len(sel))
                               ELSE tree[i].children
    BY <1>2, <1>4, <1>5, GrowChildren
  <2> QED BY <2>1, <2>2, <2>3
<1>9. NodeIds' = 1..(N + Len(sel))
  BY <1>8 DEF NodeIds
<1>10. TreeLevels(lv) /\ DraftLevels(lv)
  BY <1>1, <1>4 DEF Levels
<1>11. d = n - 1 /\ Top.node >= n /\ lv[Top.node] = d
  BY <1>5, <1>10 DEF StackInv, DraftLevels
<1>12. \A i \in NodeIds : lv[i] \in 0..Draft /\ i \in 1..N
  BY <1>1 DEF NodeIds
<1> HIDE DEF n, d, N
<1>13. grown \in [NodeIds' -> 0..Draft]
  <2>1. \A i \in 1..(N + Len(sel)) : (IF i <= N THEN lv[i] ELSE d + 1) \in 0..Draft
    BY <1>5, <1>6, <1>7, <1>12, Options DEF NodeIds, N
  <2> QED BY <1>9, <2>1
<1>14. PICK deeper \in [NodeIds' -> 0..Draft] :
         /\ \A i \in 1..(N + Len(sel)) : i <= N => deeper[i] = lv[i]
         /\ \A i \in 1..(N + Len(sel)) : i > N => deeper[i] = d + 1
  <2>1. /\ \A i \in 1..(N + Len(sel)) : i <= N => grown[i] = lv[i]
        /\ \A i \in 1..(N + Len(sel)) : i > N => grown[i] = d + 1
    BY <1>6
  <2> HIDE DEF grown
  <2> QED BY <1>13, <2>1
<1>15. \A i \in NodeIds : deeper[i] = lv[i] /\ i \in NodeIds'
  BY <1>6, <1>9, <1>12, <1>14
<1>16. TreeLevels(deeper)'
  <2>1. ASSUME NEW i \in NodeIds' PROVE deeper[i] < i
    <3>1. CASE i <= N
      BY <1>6, <1>9, <1>10, <1>15, <3>1 DEF TreeLevels, NodeIds, N
    <3>2. CASE i > N
      <4>1. deeper[i] = d + 1
        BY <1>9, <1>14, <3>2
      <4>2. Top.node <= N /\ Top.node \in Nat
        BY <1>5, <1>6, <1>12
      <4> QED BY <1>5, <1>6, <1>9, <1>11, <3>2, <4>1, <4>2
    <3> QED BY <1>6, <1>9, <3>1, <3>2
  <2>2. ASSUME NEW i \in NodeIds', NEW j \in 1..Len(tree'[i].children)
        PROVE  deeper[tree'[i].children[j]] = deeper[i] + 1
    <3>1. CASE i > N
      <4>1. tree'[i].children = << >>
        BY <1>8, <1>9, <3>1
      <4> QED BY <4>1
    <3>2. CASE i <= N /\ i = Top.node
      <4>1. tree'[i].children = Added(Len(sel))
        BY <1>6, <1>8, <1>9, <3>2
      <4>2. j \in 1..Len(sel) /\ tree'[i].children[j] = N + j
        BY <1>8, <4>1
      <4>3. N + j \in 1..(N + Len(sel)) /\ N + j > N
        BY <1>6, <4>2
      <4>4. deeper[N + j] = d + 1
        BY <1>14, <4>3
      <4>5. deeper[i] = d
        BY <1>5, <1>11, <1>15, <3>2
      <4> QED BY <4>2, <4>4, <4>5
    <3>3. CASE i <= N /\ i # Top.node
      <4>1. i \in NodeIds /\ tree'[i].children = tree[i].children
        BY <1>6, <1>8, <1>9, <3>3 DEF NodeIds, N
      <4>2. tree[i].children[j] \in NodeIds
        BY <1>2, <4>1, ElementOfSeq DEF TypeOK
      <4>3. lv[tree[i].children[j]] = lv[i] + 1
        BY <1>10, <4>1 DEF TreeLevels
      <4> QED BY <1>15, <4>1, <4>2, <4>3
    <3> QED BY <1>6, <1>9, <3>1, <3>2, <3>3
  <2> QED BY <2>1, <2>2 DEF TreeLevels
<1>17. Room(deeper, 1)'
  <2>1. 1 \in NodeIds /\ lv[1] \in Nat
    BY <1>5, <1>12 DEF NodeIds
  <2>2. ASSUME NEW i \in NodeIds' PROVE deeper[i] + Len(emitted) <= Predict + lv[1]
    <3>1. CASE i <= N
      <4>1. i \in NodeIds
        BY <1>6, <1>9, <3>1 DEF NodeIds, N
      <4> QED BY <1>10, <1>15, <4>1 DEF DraftLevels, Room
    <3>2. CASE i > N
      <4>1. deeper[i] = d + 1
        BY <1>9, <1>14, <3>2
      <4> QED BY <1>5, <1>6, <1>7, <2>1, <4>1, Options
    <3> QED BY <1>6, <1>9, <3>1, <3>2
  <2> QED BY <1>2, <1>15, <2>1, <2>2 DEF Room
<1>18. ASSUME NEW f, f.node \in NodeIds, f.kids \in Seq(NodeIds), lv[f.node] = f.depth,
              \A i \in 1..Len(f.kids) : lv[f.kids[i]] = f.depth + 1
       PROVE  /\ deeper[f.node] = f.depth
              /\ \A i \in 1..Len(f.kids) : deeper[f.kids[i]] = f.depth + 1
  BY <1>15, <1>18, ElementOfSeq
<1>19. ASSUME NEW k \in 1..Len(stack)
       PROVE  /\ deeper[stack[k].node] = stack[k].depth
              /\ \A i \in 1..Len(stack[k].kids) : deeper[stack[k].kids[i]] = stack[k].depth + 1
  BY <1>2, <1>10, <1>18 DEF TypeOK, DraftLevels
<1>20. ASSUME NEW k \in 1..Len(stack')
       PROVE  /\ deeper[stack'[k].node] = stack'[k].depth
              /\ \A i \in 1..Len(stack'[k].kids) : deeper[stack'[k].kids[i]] = stack'[k].depth + 1
  <2>1. CASE k \in 1..Len(stack) /\ stack'[k] = stack[k]
    BY <1>19, <2>1
  <2>2. CASE /\ stack'[k].node = Top.node /\ stack'[k].depth = d
             /\ stack'[k].kids = Added(Len(sel))
    <3>1. deeper[Top.node] = d
      BY <1>5, <1>11, <1>15
    <3>2. ASSUME NEW i \in 1..Len(sel) PROVE deeper[Added(Len(sel))[i]] = d + 1
      <4>1. Added(Len(sel))[i] = N + i /\ N + i \in 1..(N + Len(sel)) /\ N + i > N
        BY <1>6, <1>8
      <4> QED BY <1>14, <4>1
    <3> QED BY <1>8, <2>2, <3>1, <3>2
  <2>3. \/ k \in 1..Len(stack) /\ stack'[k] = stack[k]
        \/ /\ stack'[k].node = Top.node /\ stack'[k].depth = d
           /\ stack'[k].kids = Added(Len(sel))
    <3>1. CASE /\ Len(stack') = Len(stack) - 1
               /\ \A j \in 1..Len(stack') : stack'[j] = stack[j]
      BY SMTT(60), <1>5, <3>1 DEF n
    <3>2. CASE /\ Len(stack') = Len(stack)
               /\ \A j \in 1..(Len(stack) - 1) : stack'[j] = stack[j]
               /\ LET f == stack'[Len(stack)]
                  IN f.node = Top.node /\ f.depth = Top.depth /\ f.kids = Added(Len(sel))
      <4>1. k \in 1..(Len(stack) - 1) \/ k = Len(stack)
        BY <1>5, <3>2 DEF n
      <4> QED BY <1>5, <3>2, <4>1 DEF n, d
    <3> QED BY <1>3, <3>1, <3>2 DEF Expanded
  <2> QED BY <2>1, <2>2, <2>3
<1>21. DraftLevels(deeper)'
  BY <1>17, <1>20 DEF DraftLevels
<1>22. Levels(deeper)'
  BY <1>4, <1>16, <1>21 DEF Levels
<1> QED BY <1>14, <1>22 DEF LevelInv

LEMMA LevelsPath ==
  ASSUME TypeInv, LevelInv, EndDraft \/ ExtendPath \/ Verify
  PROVE  LevelInv'
<1>1. PICK lv \in [NodeIds -> 0..Draft] : Levels(lv)
  BY DEF LevelInv
<1>2. /\ TypeOK /\ TreeLevels(lv) /\ UNCHANGED << tree, emitted >> /\ NodeIds' = NodeIds
      /\ path \in Seq(NodeIds) /\ Len(path) \in Nat
  BY <1>1, LenProperties
     DEF TypeInv, TypeOK, Levels, EndDraft, ExtendPath, Verify, NodeIds
<1>3. TreeLevels(lv)'
  BY <1>2 DEF TreeLevels, NodeIds
<1>4. \A i \in NodeIds : lv[i] \in 0..Draft /\ lv[i] \in Nat
  BY <1>1, Options
<1>5. CASE EndDraft
  <2>1. /\ DraftLevels(lv) /\ path' = << 1 >> /\ verdict' = NoVerdict
        /\ pc' \in {"path", "refused"} /\ tree # << >>
    BY <1>1, <1>5 DEF EndDraft, Levels, TypeInv, WalkInv
  <2>2. verdict'.scanned = 0 /\ verdict'.accepted = 0 /\ path'[1] = 1 /\ Len(path') = 1
    BY <2>1 DEF NoVerdict
  <2>3. 1 \in NodeIds
    BY <1>2, <2>1, LenProperties, EmptySeq DEF TypeOK, NodeIds
  <2>4. lv[1] = 0
    BY <1>2, <1>4, <2>3 DEF TreeLevels
  <2>5. Room(lv, 1)'
    BY <1>2, <2>1 DEF DraftLevels, Room
  <2>6. \A i \in 1..Len(path') : i = 1
    BY <2>2
  <2>7. PathLevels(lv)'
    BY <2>2, <2>4, <2>5, <2>6 DEF PathLevels
  <2> QED BY <1>1, <1>2, <1>3, <2>1, <2>7 DEF LevelInv, Levels
<1>6. CASE ExtendPath
  <2> DEFINE n == Len(path)
             node == path[n]
             child == tree[node].children[1]
  <2>1. /\ PathLevels(lv) /\ pc' = "path" /\ path # << >> /\ verdict.scanned = 0
        /\ tree[node].children # << >> /\ path' = Append(path, child)
        /\ UNCHANGED verdict
    BY <1>1, <1>6 DEF ExtendPath, Levels, TypeInv, WalkInv, PathEnd
  <2>2. n \in Nat \ {0} /\ n \in 1..n /\ 1 \in 1..n
    BY <1>2, <2>1, EmptySeq
  <2>3. node \in NodeIds /\ path[1] \in NodeIds
    BY <1>2, <2>2, ElementOfSeq
  <2>4. 1 \in 1..Len(tree[node].children) /\ tree[node].children \in Seq(NodeIds)
    <3>1. tree[node].children \in Seq(NodeIds) /\ Len(tree[node].children) \in Nat
      BY <1>2, <2>3, LenProperties DEF TypeOK
    <3> QED BY <2>1, <3>1, EmptySeq
  <2>5. child \in NodeIds /\ lv[child] = lv[node] + 1
    BY <1>2, <2>3, <2>4, ElementOfSeq DEF TreeLevels
  <2> HIDE DEF child
  <2>6. /\ Len(path') = n + 1 /\ path'[n + 1] = child
        /\ \A i \in 1..n : path'[i] = path[i]
    BY <1>2, <2>1, <2>5, AppendProperties
  <2>7. lv[node] = lv[path[1]] + n - 1
    BY <2>1, <2>2 DEF PathLevels
  <2> HIDE DEF n, node
  <2>8. ASSUME NEW i \in 1..Len(path') PROVE lv[path'[i]] = lv[path'[1]] + i - 1
    <3>1. CASE i = n + 1
      BY <1>4, <2>2, <2>3, <2>5, <2>6, <2>7, <3>1
    <3>2. CASE i \in 1..n
      BY <2>1, <2>2, <2>6, <3>2 DEF PathLevels, n
    <3> QED BY <2>2, <2>6, <3>1, <3>2
  <2>9. path'[verdict'.scanned + 1] = path[verdict.scanned + 1]
    BY <2>1, <2>2, <2>6
  <2>10. PathLevels(lv)'
    BY <1>2, <2>1, <2>8, <2>9 DEF PathLevels, Room
  <2> QED BY <1>1, <1>2, <1>3, <2>1, <2>10 DEF LevelInv, Levels
<1>7. CASE Verify
  <2>1. /\ PathLevels(lv) /\ pc' \in {"scan", "refused"} /\ UNCHANGED << path, verdict >>
    BY <1>1, <1>7 DEF Verify, Levels
  <2>2. PathLevels(lv)'
    BY <1>2, <2>1 DEF PathLevels, Room
  <2> QED BY <1>1, <1>2, <1>3, <2>1, <2>2 DEF LevelInv, Levels
<1> QED BY <1>5, <1>6, <1>7

LEMMA LevelsScan ==
  ASSUME TypeInv, LevelInv, ScanNode
  PROVE  LevelInv'
<1>1. PICK lv \in [NodeIds -> 0..Draft] : Levels(lv)
  BY DEF LevelInv
<1> DEFINE i == verdict.scanned + 1
<1>2. /\ pc = "scan" /\ verdict.scanned \in Nat /\ i \in 1..Len(path)
      /\ path[i] \in NodeIds /\ root' \in Token
      /\ UNCHANGED << tree, path >>
      /\ verdict'.scanned = i
      /\ \/ /\ emitted' = emitted /\ pc' = "commit"
            /\ verdict'.accepted = verdict.accepted /\ verdict'.alternate = 0
         \/ /\ emitted' = Append(emitted, root')
            /\ verdict'.accepted = verdict.accepted + 1
            /\ \/ /\ pc' = "scan" /\ i + 1 \in 1..Len(path) /\ verdict'.alternate = 0
                  /\ \E j \in 1..Len(tree[path[i]].children) :
                       path[i + 1] = tree[path[i]].children[j]
               \/ /\ pc' = "commit" /\ verdict'.alternate \in NodeIds
                  /\ \E j \in 1..Len(tree[path[i]].children) :
                       verdict'.alternate = tree[path[i]].children[j]
  BY ScanFacts
<1>3. /\ TypeOK /\ TreeLevels(lv) /\ NodeIds' = NodeIds /\ PathLevels(lv)
      /\ emitted \in Seq(Token) /\ Len(emitted) \in Nat /\ Len(tree) \in Nat
  BY <1>1, <1>2, LenProperties DEF TypeInv, TypeOK, Levels, NodeIds
<1>4. TreeLevels(lv)'
  BY <1>2, <1>3 DEF TreeLevels
<1>5. Room(lv, path[i]) /\ verdict.accepted = lv[path[i]]
  BY <1>3 DEF PathLevels
<1>6. lv[path[i]] \in Nat /\ lv[path[i]] < path[i]
  BY <1>1, <1>2, <1>3, Options DEF TreeLevels
<1> HIDE DEF i
(* A child of the node just scanned is the token just written.               *)
<1>7. ASSUME NEW c, \E j \in 1..Len(tree[path[i]].children) : c = tree[path[i]].children[j],
             emitted' = Append(emitted, root')
      PROVE  Room(lv, c)' /\ lv[c] = verdict.accepted + 1
  <2>1. lv[c] = lv[path[i]] + 1
    BY <1>2, <1>3, <1>7 DEF TreeLevels
  <2>2. Len(emitted') = Len(emitted) + 1
    BY <1>2, <1>3, <1>7, AppendProperties
  <2>3. ASSUME NEW k \in NodeIds PROVE lv[k] + Len(emitted') <= Predict + lv[c]
    <3>1. lv[k] \in Nat /\ lv[k] + Len(emitted) <= Predict + lv[path[i]]
      BY <1>1, <1>5, Options DEF Room
    <3> QED BY <1>3, <1>6, <2>1, <2>2, <3>1, Options
  <2> QED BY <1>3, <1>5, <2>1, <2>3 DEF Room
<1>8. CASE /\ emitted' = emitted /\ pc' = "commit"
           /\ verdict'.accepted = verdict.accepted /\ verdict'.alternate = 0
  <2>1. verdict.accepted < Len(tree)
    BY <1>2, <1>3, <1>5, <1>6 DEF NodeIds
  <2>2. CommitLevels(lv)'
    BY <1>2, <1>8, <2>1 DEF CommitLevels
  <2> QED BY <1>1, <1>3, <1>4, <1>8, <2>2 DEF LevelInv, Levels
<1>9. CASE /\ emitted' = Append(emitted, root') /\ verdict'.accepted = verdict.accepted + 1
           /\ pc' = "scan" /\ i + 1 \in 1..Len(path) /\ verdict'.alternate = 0
           /\ \E j \in 1..Len(tree[path[i]].children) :
                path[i + 1] = tree[path[i]].children[j]
  <2>1. PICK c : c = path[i + 1]
    OBVIOUS
  <2>2. Room(lv, c)' /\ lv[c] = verdict.accepted + 1 /\ path'[verdict'.scanned + 1] = c
    BY <1>2, <1>7, <1>9, <2>1
  <2>3. Room(lv, path[verdict.scanned + 1])'
    BY <2>2 DEF Room
  <2>4. PathLevels(lv)'
    BY <1>2, <1>3, <1>9, <2>1, <2>2, <2>3 DEF PathLevels
  <2> QED BY <1>1, <1>3, <1>4, <1>9, <2>4 DEF LevelInv, Levels
<1>10. CASE /\ emitted' = Append(emitted, root') /\ verdict'.accepted = verdict.accepted + 1
            /\ pc' = "commit" /\ verdict'.alternate \in NodeIds
            /\ \E j \in 1..Len(tree[path[i]].children) :
                 verdict'.alternate = tree[path[i]].children[j]
  <2>1. PICK c : c = verdict'.alternate
    OBVIOUS
  <2>2. Room(lv, c)' /\ lv[c] = verdict.accepted + 1
    BY <1>7, <1>10, <2>1
  <2>3. Room(lv, verdict.alternate)'
    BY <2>1, <2>2 DEF Room
  <2>4. CommitLevels(lv)'
    BY <1>10, <2>1, <2>2, <2>3 DEF CommitLevels, NodeIds
  <2> QED BY <1>1, <1>3, <1>4, <1>10, <2>4 DEF LevelInv, Levels
<1> QED BY <1>2, <1>8, <1>9, <1>10

LEMMA LevelsCommit ==
  ASSUME TypeInv, LevelInv, CommitAndSwitch \/ CommitAndEnd
  PROVE  LevelInv'
<1>1. PICK lv \in [NodeIds -> 0..Draft] : Levels(lv)
  BY DEF LevelInv
<1>2. CASE CommitAndSwitch
  <2>1. /\ CommitLevels(lv) /\ verdict.alternate # 0 /\ path' = << verdict.alternate >>
        /\ verdict' = Rescan(verdict) /\ pc' \in {"path", "refused"}
        /\ UNCHANGED << tree, emitted >> /\ TreeLevels(lv)
    BY <1>1, <1>2 DEF CommitAndSwitch, NextPath, Levels
  <2>2. verdict'.scanned = 0 /\ verdict'.accepted = verdict.accepted
    BY <2>1 DEF Rescan, TypeInv, TypeOK
  <2>3. Room(lv, verdict.alternate) /\ verdict.accepted = lv[verdict.alternate]
    BY <2>1 DEF CommitLevels
  <2>4. verdict.alternate \in NodeIds
    BY <2>1 DEF TypeInv, TypeOK
  <2>5. /\ Len(path') = 1 /\ path'[1] = verdict.alternate
        /\ \A i \in 1..Len(path') : i = 1
    BY <2>1
  <2>6. lv[verdict.alternate] \in Nat
    BY <1>1, <2>4, Options
  <2>7. Room(lv, path[verdict.scanned + 1])'
    BY <2>1, <2>2, <2>3, <2>5 DEF Room, NodeIds
  <2>8. PathLevels(lv)'
    BY <2>2, <2>3, <2>5, <2>6, <2>7 DEF PathLevels
  <2> QED BY ZenonT(60), <1>1, <2>1, <2>8 DEF LevelInv, Levels, TreeLevels, NodeIds
<1>3. CASE CommitAndEnd
  <2>1. tree' = << >> /\ pc' \in {"refused", "done", "loop"}
    BY <1>3 DEF CommitAndEnd
  <2>2. NodeIds' = {}
    BY <2>1 DEF NodeIds
  <2>3. PICK none : none = [i \in {} |-> 0]
    OBVIOUS
  <2>4. none \in [NodeIds' -> 0..Draft]
    BY <2>2, <2>3
  <2>5. Levels(none)'
    BY <2>1, <2>2 DEF Levels, TreeLevels
  <2> QED BY <2>4, <2>5 DEF LevelInv
<1> QED BY <1>2, <1>3

LEMMA LevelInvStep ==
  ASSUME TypeInv, StackInv, CountInv, LevelInv, [Next]_vars
  PROVE  LevelInv'
<1>1. CASE \/ Start \/ Prefill \/ FirstRoot \/ EmitRoot \/ LoopEnds \/ ArProbe \/ ArStep
           \/ Throws
  <2>1. UNCHANGED tree
    BY <1>1 DEF Start, Prefill, FirstRoot, EmitRoot, LoopEnds, ArProbe, ArStep, Throws
  <2>2. pc' \notin {"draft", "path", "scan", "commit"}
    BY <1>1 DEF Start, Prefill, FirstRoot, EmitRoot, LoopEnds, ArProbe, ArStep, Throws
  <2> QED BY <2>1, <2>2, LevelsIdle
<1>2. CASE UNCHANGED vars
  <2>1. UNCHANGED << pc, tree, stack, emitted, path, verdict >>
    BY <1>2 DEF vars
  <2> QED BY ZenonT(60), <2>1 DEF LevelInv, Levels, TreeLevels, DraftLevels, PathLevels,
             CommitLevels, Room, NodeIds
<1> QED BY <1>1, <1>2, LevelsStart, LevelsLeave, LevelsVisit, LevelsExpand, LevelsPath,
           LevelsScan, LevelsCommit
        DEF Next, Generate, Speculate, Terminated

LEMMA LevelInvInit == Init => LevelInv
<1> SUFFICES ASSUME Init PROVE LevelInv
  OBVIOUS
<1>1. NodeIds = {} /\ pc = "start"
  BY DEF Init, NodeIds
<1>2. PICK none : none = [i \in {} |-> 0]
  OBVIOUS
<1>3. none \in [NodeIds -> 0..Draft]
  BY <1>1, <1>2
<1> QED BY <1>1, <1>3 DEF LevelInv, Levels, TreeLevels

-----------------------------------------------------------------------------
(***************************************************************************)
(* What generate() counts.                                                 *)
(***************************************************************************)
LEMMA CountTypes ==
  ASSUME TypeOK
  PROVE  /\ Len(emitted) \in Nat /\ Len(tree) \in Nat /\ verdict.accepted \in Nat
         /\ stats.accepted \in Nat /\ stats.proposed \in Nat /\ stats.rounds \in Nat
BY LenProperties DEF TypeOK

LEMMA UncountedValue ==
  /\ Uncounted  = Len(emitted) - stats.rounds - stats.accepted
  /\ Uncounted' = Len(emitted') - stats'.rounds - stats'.accepted
BY DEF Uncounted

(* One token more is one more to count; a round's end counts its tokens.      *)
LEMMA TokenToCount ==
  ASSUME NEW e \in Nat, NEW rounds \in Nat, NEW a \in Nat
  PROVE  e - rounds - a \in Int /\ (e + 1) - rounds - a = (e - rounds - a) + 1
OBVIOUS

LEMMA RoundCounted ==
  ASSUME NEW e \in Nat, NEW rounds \in Nat, NEW a \in Nat, NEW v \in Nat,
         e - rounds - a = 1 + v
  PROVE  e - (rounds + 1) - (a + v) = 0
OBVIOUS

(* Steps that write nothing and count nothing.                               *)
LEMMA CountIdle ==
  ASSUME TypeInv, CountInv, UNCHANGED << emitted, stats >>,
         \/ UNCHANGED << pc, tree, verdict >>
         \/ Start \/ FirstRoot \/ Prefill \/ LoopEnds \/ ArProbe \/ ArStep \/ StartRound
         \/ Verify \/ Throws
         \/ pc = "draft" /\ pc' \in {"draft", "refused"}
         \/ CommitAndSwitch
  PROVE  CountInv'
<1>1. Uncounted' = Uncounted /\ Len(emitted') = Len(emitted)
  BY DEF Uncounted
<1> HIDE DEF Uncounted
<1>2. CASE UNCHANGED << pc, tree, verdict >>
  BY <1>1, <1>2 DEF CountInv
<1>3. CASE pc' \in {"failed", "refused"}
  BY <1>1, <1>3 DEF CountInv
<1>4. CASE (Start \/ FirstRoot \/ Prefill) /\ pc' \in {"prefill", "loop"}
  <2>1. pc \in {"start", "prefill"} /\ pc' \in {"prefill", "loop"}
    BY <1>4 DEF Start, FirstRoot, Prefill
  <2> QED BY <1>1, <2>1 DEF CountInv
<1>5. CASE LoopEnds
  <2>1. pc' = "done" /\ (pc = "loop" \/ (pc = "rooted" /\ Len(emitted) = Predict))
    BY <1>5 DEF LoopEnds
  <2> QED BY <1>1, <2>1 DEF CountInv
<1>6. CASE (ArProbe \/ ArStep) /\ pc' \in {"ar", "loop"}
  <2>1. Ar
    BY <1>6 DEF ArProbe, ArStep, CountInv
  <2> QED BY <1>1, <1>6, <2>1 DEF CountInv
<1>7. CASE StartRound
  <2>1. pc = "rooted" /\ pc' = "draft" /\ ~Ar
    BY <1>7 DEF StartRound
  <2> QED BY <1>1, <2>1 DEF CountInv
<1>8. CASE Verify /\ pc' = "scan"
  <2>1. pc = "path" /\ UNCHANGED << tree, verdict >>
    BY <1>8 DEF Verify
  <2> QED BY <1>1, <1>8, <2>1 DEF CountInv
<1>9. CASE pc = "draft" /\ pc' = "draft"
  BY <1>1, <1>9 DEF CountInv
<1>10. CASE CommitAndSwitch /\ pc' = "path"
  <2>1. pc = "commit" /\ UNCHANGED tree /\ verdict'.accepted = verdict.accepted
    BY <1>10 DEF CommitAndSwitch, Rescan, TypeInv, TypeOK
  <2> QED BY <1>1, <1>10, <2>1 DEF CountInv
<1>11. \/ UNCHANGED << pc, tree, verdict >> \/ pc' \in {"failed", "refused"}
       \/ (Start \/ FirstRoot \/ Prefill) /\ pc' \in {"prefill", "loop"}
       \/ LoopEnds
       \/ (ArProbe \/ ArStep) /\ pc' \in {"ar", "loop"}
       \/ StartRound
       \/ Verify /\ pc' = "scan"
       \/ pc = "draft" /\ pc' = "draft"
       \/ CommitAndSwitch /\ pc' = "path"
  <2>1. (Start \/ FirstRoot \/ Prefill) => pc' \in {"prefill", "loop", "failed", "refused"}
    BY DEF Start, FirstRoot, Prefill
  <2>2. (ArProbe \/ ArStep) => pc' \in {"ar", "loop", "refused"}
    BY DEF ArProbe, ArStep
  <2>3. (Verify => pc' \in {"scan", "refused"}) /\ (Throws => pc' = "failed")
    BY DEF Verify, Throws
  <2>4. CommitAndSwitch => pc' \in {"path", "refused"}
    BY DEF CommitAndSwitch
  <2> QED BY <2>1, <2>2, <2>3, <2>4
<1> QED BY <1>2, <1>3, <1>4, <1>5, <1>6, <1>7, <1>8, <1>9, <1>10, <1>11

LEMMA CountWrites ==
  ASSUME TypeInv, LevelInv, CountInv, EmitRoot \/ ScanNode
  PROVE  CountInv'
<1>1. /\ Len(emitted) \in Nat /\ Len(tree) \in Nat /\ verdict.accepted \in Nat
      /\ stats.accepted \in Nat /\ stats.rounds \in Nat /\ emitted \in Seq(Token)
  BY CountTypes DEF TypeInv, TypeOK
<1>2. CASE EmitRoot
  <2>1. /\ pc = "loop" /\ pc' = "rooted" /\ Len(emitted) < Predict
        /\ emitted' = Append(emitted, root) /\ UNCHANGED stats /\ root \in Token
    BY <1>2 DEF EmitRoot, TypeInv, TypeOK
  <2>2. Len(emitted') = Len(emitted) + 1
    BY <1>1, <2>1, AppendProperties
  <2>3. Uncounted' = Uncounted + 1 /\ Uncounted \in Int
    <3>1. /\ Len(emitted) - stats.rounds - stats.accepted \in Int
          /\ (Len(emitted) + 1) - stats.rounds - stats.accepted
               = (Len(emitted) - stats.rounds - stats.accepted) + 1
      BY <1>1, TokenToCount
    <3>2. stats'.rounds = stats.rounds /\ stats'.accepted = stats.accepted
      BY <2>1
    <3> QED BY <2>2, <3>1, <3>2, UncountedValue
  <2>4. Len(emitted') <= Predict
    BY <1>1, <2>1, <2>2, Options
  <2> HIDE DEF Uncounted
  <2> QED BY <2>1, <2>3, <2>4 DEF CountInv
<1>3. CASE ScanNode
  <2> DEFINE i == verdict.scanned + 1
  <2>1. /\ pc = "scan" /\ i \in 1..Len(path) /\ path[i] \in NodeIds /\ root' \in Token
        /\ UNCHANGED << tree, stats >> /\ pc' \in {"scan", "commit"}
        /\ \/ emitted' = emitted /\ verdict'.accepted = verdict.accepted
           \/ /\ emitted' = Append(emitted, root')
              /\ verdict'.accepted = verdict.accepted + 1
              /\ \E j \in 1..Len(tree[path[i]].children) : TRUE
    BY <1>3, ScanFacts
  <2>2. CASE emitted' = emitted /\ verdict'.accepted = verdict.accepted
    <3>1. Uncounted' = Uncounted
      BY <2>1, <2>2 DEF Uncounted
    <3> HIDE DEF Uncounted
    <3> QED BY <2>1, <2>2, <3>1 DEF CountInv
  <2>3. CASE /\ emitted' = Append(emitted, root')
             /\ verdict'.accepted = verdict.accepted + 1
             /\ \E j \in 1..Len(tree[path[i]].children) : TRUE
    <3>1. PICK lv \in [NodeIds -> 0..Draft] : Levels(lv)
      BY DEF LevelInv
    <3>2. PICK j \in 1..Len(tree[path[i]].children) : TRUE
      BY <2>3
    <3> DEFINE c == tree[path[i]].children[j]
    <3>3. c \in NodeIds
      <4>1. tree[path[i]].children \in Seq(NodeIds)
        BY <2>1 DEF TypeInv, TypeOK
      <4> QED BY <3>2, <4>1, ElementOfSeq
    <3>4. lv[c] = lv[path[i]] + 1 /\ lv[c] + Len(emitted) <= Predict + lv[path[i]]
      BY <2>1, <3>1, <3>2, <3>3 DEF Levels, TreeLevels, PathLevels, Room
    <3>5. lv[path[i]] \in Nat
      BY <2>1, <3>1, Options
    <3>6. Len(emitted') = Len(emitted) + 1
      BY <1>1, <2>1, <2>3, AppendProperties
    <3> HIDE DEF c, i
    <3>7. Len(emitted') <= Predict
      BY <1>1, <3>4, <3>5, <3>6, Options
    <3>8. Uncounted' = Uncounted + 1 /\ Uncounted \in Int
      <4>1. stats'.rounds = stats.rounds /\ stats'.accepted = stats.accepted
        BY <2>1
      <4>2. /\ Len(emitted) - stats.rounds - stats.accepted \in Int
            /\ (Len(emitted) + 1) - stats.rounds - stats.accepted
                 = (Len(emitted) - stats.rounds - stats.accepted) + 1
        BY <1>1, TokenToCount
      <4>3. Uncounted' = (Len(emitted) + 1) - stats.rounds - stats.accepted
        BY <3>6, <4>1, UncountedValue
      <4>4. Uncounted = Len(emitted) - stats.rounds - stats.accepted
        BY UncountedValue
      <4> QED BY <4>2, <4>3, <4>4
    <3> HIDE DEF Uncounted
    <3> QED BY SMTT(60), <1>1, <2>1, <2>3, <3>7, <3>8 DEF CountInv
  <2> QED BY <2>1, <2>2, <2>3
<1> QED BY <1>2, <1>3

LEMMA CountRound ==
  ASSUME TypeInv, LevelInv, CountInv, EndDraft \/ CommitAndEnd
  PROVE  CountInv'
<1>1. /\ Len(emitted) \in Nat /\ Len(tree) \in Nat /\ verdict.accepted \in Nat
      /\ stats.accepted \in Nat /\ stats.proposed \in Nat /\ stats.rounds \in Nat
  BY CountTypes DEF TypeInv
<1>2. CASE EndDraft
  <2>1. /\ pc = "draft" /\ pc' \in {"path", "refused"} /\ UNCHANGED << emitted, tree >>
        /\ verdict' = NoVerdict /\ Len(tree) >= 1
    BY <1>1, <1>2, EmptySeq DEF EndDraft, TypeInv, WalkInv, TypeOK
  <2>2. /\ stats'.accepted = stats.accepted /\ stats'.rounds = stats.rounds
        /\ stats'.proposed = stats.proposed + Len(tree) - 1
    BY <1>2 DEF EndDraft, TypeInv, TypeOK
  <2>3. Uncounted' = Uncounted /\ verdict'.accepted = 0
    BY <2>1, <2>2 DEF Uncounted, NoVerdict
  <2> HIDE DEF Uncounted
  <2>4. /\ stats'.accepted <= stats'.proposed
        /\ stats'.accepted + Len(tree') - 1 <= stats'.proposed
    BY <1>1, <2>1, <2>2 DEF CountInv
  <2> QED BY <2>1, <2>2, <2>3, <2>4 DEF CountInv
<1>3. CASE CommitAndEnd
  <2>1. /\ pc = "commit" /\ pc' \in {"loop", "done", "refused"} /\ UNCHANGED << emitted >>
    BY <1>3 DEF CommitAndEnd
  <2>2. /\ stats'.accepted = stats.accepted + verdict.accepted
        /\ stats'.rounds = stats.rounds + 1 /\ stats'.proposed = stats.proposed
    BY <1>3 DEF CommitAndEnd, TypeInv, TypeOK
  <2>3. verdict.accepted < Len(tree)
    <3>1. PICK lv \in [NodeIds -> 0..Draft] : Levels(lv)
      BY DEF LevelInv
    <3>2. CASE verdict.alternate = 0
      BY <2>1, <3>1, <3>2 DEF Levels, CommitLevels
    <3>3. CASE verdict.alternate # 0
      <4>1. verdict.alternate \in NodeIds
        BY <3>3 DEF TypeInv, TypeOK
      <4>2. lv[verdict.alternate] < verdict.alternate /\ verdict.accepted = lv[verdict.alternate]
        BY <2>1, <3>1, <3>3, <4>1 DEF Levels, TreeLevels, CommitLevels
      <4> QED BY <1>1, <4>1, <4>2 DEF NodeIds
    <3> QED BY <3>2, <3>3
  <2>4. ~Ar /\ Uncounted = 1 + verdict.accepted
    BY <2>1 DEF CountInv
  <2>5. Uncounted' = 0
    <3>1. Len(emitted) - stats.rounds - stats.accepted = 1 + verdict.accepted
      BY <2>4, UncountedValue
    <3>2. Uncounted' = Len(emitted) - (stats.rounds + 1) - (stats.accepted + verdict.accepted)
      BY <2>1, <2>2, UncountedValue
    <3>3. Len(emitted) - (stats.rounds + 1) - (stats.accepted + verdict.accepted) = 0
      BY SMTT(60), <1>1, <3>1, RoundCounted
    <3> QED BY <3>2, <3>3
  <2>6. stats'.accepted <= stats'.proposed
    BY <1>1, <2>1, <2>2, <2>3 DEF CountInv
  <2> HIDE DEF Uncounted
  <2> QED BY <2>1, <2>4, <2>5, <2>6 DEF CountInv
<1> QED BY <1>2, <1>3

LEMMA CountInvStep ==
  ASSUME TypeInv, LevelInv, CountInv, [Next]_vars
  PROVE  CountInv'
<1>1. CASE \/ Start \/ Prefill \/ FirstRoot \/ LoopEnds \/ ArProbe \/ ArStep \/ StartRound
           \/ Verify \/ Throws \/ CommitAndSwitch
  <2>1. UNCHANGED << emitted, stats >>
    BY <1>1 DEF Start, Prefill, FirstRoot, LoopEnds, ArProbe, ArStep, StartRound, Verify,
       Throws, CommitAndSwitch
  <2> QED BY <1>1, <2>1, CountIdle
<1>2. CASE SkipNode \/ Expand \/ VisitChild \/ LeaveNode
  <2>1. UNCHANGED << emitted, stats >> /\ pc = "draft" /\ pc' \in {"draft", "refused"}
    BY <1>2 DEF SkipNode, Expand, VisitChild, LeaveNode
  <2> QED BY <2>1, CountIdle
<1>3. CASE ExtendPath \/ UNCHANGED vars
  <2>1. UNCHANGED << emitted, stats, pc, tree, verdict >>
    BY <1>3 DEF ExtendPath, vars
  <2> QED BY <2>1, CountIdle
<1> QED BY <1>1, <1>2, <1>3, CountWrites, CountRound
        DEF Next, Generate, Speculate, Terminated

LEMMA CountInvInit == Init => CountInv
<1> SUFFICES ASSUME Init PROVE CountInv
  OBVIOUS
<1>1. /\ Len(emitted) = 0 /\ stats.accepted = 0 /\ stats.proposed = 0 /\ stats.rounds = 0
      /\ pc = "start"
  BY DEF Init
<1> QED BY <1>1, Options DEF CountInv, Uncounted

(* The counts generate() reports add up, and no more tokens are written than *)
(* were asked for: the deepest draft token fits what is left of the output.  *)
THEOREM CountsCorrect == Spec => []CountsAddUp
<1> DEFINE Inv == TypeInv /\ StackInv /\ LevelInv /\ CountInv
<1>1. Inv => CountsAddUp
  <2> SUFFICES ASSUME TypeInv, CountInv PROVE CountsAddUp
    OBVIOUS
  <2>1. Uncounted = Len(emitted) - stats.rounds - stats.accepted
    BY DEF Uncounted
  <2> HIDE DEF Uncounted
  <2>2. stats.rounds > 0 => ~Ar
    BY DEF CountInv
  <2> QED BY <2>1, <2>2 DEF CountInv, CountsAddUp
<1>2. Init => Inv
  BY TypeInvInit, StackInvInit, LevelInvInit, CountInvInit
<1>3. Inv /\ [Next]_vars => Inv'
  BY TypeInvStep, StackInvStep, LevelInvStep, CountInvStep
<1> QED BY <1>1, <1>2, <1>3, PTL DEF Spec

-----------------------------------------------------------------------------
(***************************************************************************)
(* What the memory holds: the tokens of the branch the draft is on.        *)
(***************************************************************************)
LEMMA BranchAgrees ==
  ASSUME NEW toks, NEW nodes, NEW frames, NEW nodes2, NEW frames2, NEW k,
         \A j \in 1..k : nodes2[frames2[j].node].tok = nodes[frames[j].node].tok
  PROVE  BranchOf(toks, nodes2, frames2, k) = BranchOf(toks, nodes, frames, k)
BY DEF BranchOf

LEMMA BranchFacts ==
  ASSUME TypeOK, NEW k \in 0..Len(stack)
  PROVE  /\ Branch(k) \in Seq(Token) /\ Len(Branch(k)) = Len(prefix.rec.toks) + k
         /\ k = 0 => Branch(k) = prefix.rec.toks
         /\ \A m \in Memory : HoldsBelow(m, Branch(k)) => HoldsBelow(m, prefix.rec.toks)
<1> DEFINE r == prefix.rec.toks
           nodes == [j \in 1..k |-> tree[stack[j].node].tok]
<1>1. Len(stack) \in Nat /\ r \in Seq(Token) /\ k \in Nat
  BY LenProperties DEF TypeOK, Snap, Rec
<1>2. ASSUME NEW j \in 1..k PROVE tree[stack[j].node].tok \in Token
  <2>1. stack[j].node \in NodeIds
    BY <1>1 DEF TypeOK
  <2>2. tree[stack[j].node] \in Node
    BY <2>1, ElementOfSeq DEF TypeOK, NodeIds
  <2> QED BY <2>2 DEF Node
<1>3. nodes \in [1..k -> Token]
  BY <1>2
<1>4. nodes \in Seq(Token) /\ Len(nodes) = k
  BY <1>1, <1>3, LenProperties
<1>5. Branch(k) = r \o nodes
  BY DEF Branch, BranchOf
<1> HIDE DEF nodes
<1>6. r \o nodes \in Seq(Token) /\ Len(r \o nodes) = Len(r) + k
  BY <1>1, <1>4, ConcatProperties
<1>7. ASSUME k = 0 PROVE r \o nodes = r
  <2>1. nodes = << >>
    BY <1>4, <1>7, EmptySeq
  <2> QED BY <1>1, <2>1, ConcatEmptySeq
<1>8. \A m \in Memory : HoldsBelow(m, r \o nodes) => HoldsBelow(m, r)
  BY <1>1, <1>4, HoldsExtended
<1> QED BY <1>5, <1>6, <1>7, <1>8

LEMMA BranchNext ==
  ASSUME TypeOK, NEW k \in 1..Len(stack)
  PROVE  /\ tree[stack[k].node].tok \in Token
         /\ Branch(k) = Branch(k - 1) \o << tree[stack[k].node].tok >>
         /\ \A m \in Memory : HoldsBelow(m, Branch(k)) => HoldsBelow(m, Branch(k - 1))
<1> DEFINE t == tree[stack[k].node].tok
           a == Branch(k)
           b == Branch(k - 1)
           r == prefix.rec.toks
<1>1. /\ Len(stack) \in Nat /\ k \in Nat \ {0} /\ k - 1 \in 0..Len(stack) /\ k \in 0..Len(stack)
      /\ r \in Seq(Token) /\ Len(r) \in Nat
  BY LenProperties DEF TypeOK, Snap, Rec
<1>2. t \in Token
  <2>1. stack[k].node \in NodeIds
    BY DEF TypeOK
  <2>2. tree[stack[k].node] \in Node
    BY <2>1, ElementOfSeq DEF TypeOK, NodeIds
  <2> QED BY <2>2 DEF Node
<1>3. a \in Seq(Token) /\ Len(a) = Len(r) + k /\ b \in Seq(Token) /\ Len(b) = Len(r) + (k - 1)
  BY <1>1, BranchFacts
<1>4. a = b \o << t >>
  <2> DEFINE up == [j \in 1..k |-> tree[stack[j].node].tok]
             dn == [j \in 1..(k - 1) |-> tree[stack[j].node].tok]
  <2>1. a = r \o up /\ b = r \o dn
    BY DEF Branch, BranchOf
  <2>2. \A j \in 1..k : tree[stack[j].node].tok \in Token
    <3> SUFFICES ASSUME NEW j \in 1..k PROVE tree[stack[j].node].tok \in Token
      OBVIOUS
    <3>1. stack[j].node \in NodeIds
      BY <1>1 DEF TypeOK
    <3>2. tree[stack[j].node] \in Node
      BY <3>1, ElementOfSeq DEF TypeOK, NodeIds
    <3> QED BY <3>2 DEF Node
  <2>3. up \in Seq(Token) /\ Len(up) = k /\ dn \in Seq(Token) /\ Len(dn) = k - 1
    <3>1. up \in [1..k -> Token] /\ dn \in [1..(k - 1) -> Token]
      BY <1>1, <2>2
    <3>2. k \in Nat /\ k - 1 \in Nat
      BY <1>1
    <3> QED BY SMTT(60), <3>1, <3>2, LenProperties
  <2>4. up[k] = t /\ \A j \in 1..(k - 1) : up[j] = dn[j]
    BY <1>1
  <2> HIDE DEF up, dn
  <2>5. up = Append(dn, t)
    <3>1. /\ Append(dn, t) \in Seq(Token) /\ Len(Append(dn, t)) = k
          /\ Append(dn, t)[k] = t /\ \A j \in 1..(k - 1) : Append(dn, t)[j] = dn[j]
      <4>1. /\ Append(dn, t) \in Seq(Token) /\ Len(Append(dn, t)) = Len(dn) + 1
            /\ Append(dn, t)[Len(dn) + 1] = t /\ \A j \in 1..Len(dn) : Append(dn, t)[j] = dn[j]
        BY <1>2, <2>3, AppendProperties
      <4> QED BY <1>1, <2>3, <4>1
    <3>2. \A j \in 1..Len(up) : up[j] = Append(dn, t)[j]
      BY <1>1, <2>3, <2>4, <3>1
    <3> QED BY <2>3, <3>1, <3>2, SeqEqual
  <2>6. r \o Append(dn, t) = Append(r \o dn, t)
    <3> HIDE DEF r, t
    <3> QED BY <1>1, <1>2, <2>3, ConcatAppend
  <2>7. b \o << t >> = Append(b, t)
    BY <1>2, <1>3, ConcatOne
  <2> QED BY <2>1, <2>5, <2>6, <2>7
<1>5. << t >> \in Seq(Token)
  BY <1>2, OneToken
<1> HIDE DEF a, b, t
<1>6. \A m \in Memory : HoldsBelow(m, a) => HoldsBelow(m, b)
  BY <1>3, <1>4, <1>5, HoldsExtended
<1> QED BY <1>2, <1>4, <1>6 DEF a, b, t

LEMMA BranchEmpty ==
  ASSUME NEW toks \in Seq(Token), NEW nodes, NEW frames
  PROVE  BranchOf(toks, nodes, frames, 0) = toks
<1> DEFINE none == [j \in 1..0 |-> nodes[frames[j].node].tok]
<1>1. none \in [1..0 -> Token]
  OBVIOUS
<1>2. none \in Seq(Token) /\ Len(none) = 0
  BY <1>1, LenProperties
<1> HIDE DEF none
<1>3. none = << >>
  BY <1>2, EmptySeq
<1>4. toks \o none = toks
  BY <1>3, ConcatEmptySeq
<1> QED BY <1>4 DEF BranchOf, none

(* The facts of a position between two batches.                              *)
LEMMA IdleFacts ==
  ASSUME TypeOK, IdleInv
  PROVE  /\ mem \in Memory /\ mem.rec.toks \in Seq(Token) /\ Aligned(mem, mem.rec.toks)
         /\ pos \in Nat /\ pos = Len(mem.rec.toks)
BY DEF TypeOK, IdleInv, Memory, Rec

LEMMA ShapeStartRound ==
  ASSUME TypeInv, ShapeInv, StartRound
  PROVE  ShapeInv'
<1> DEFINE s == mem.rec.toks
<1>1. /\ TypeOK /\ IdleInv /\ pos + 1 = Asked /\ Len(prompt) + Predict <= Context
      /\ ~mem.hist.capturing /\ Len(s) <= Context
  BY DEF TypeInv, ShapeInv, StartRound, IdleInv, Aligned
<1>2. /\ mem \in Memory /\ s \in Seq(Token) /\ Aligned(mem, s) /\ pos \in Nat /\ pos = Len(s)
  BY <1>1, IdleFacts
<1>3. /\ prefix' = SnapshotOf(mem) /\ stack' = << Entered(1, 0) >> /\ pc' = "draft"
      /\ UNCHANGED << mem, prompt, emitted, pos >>
  BY DEF StartRound
<1>4. prefix'.first = pos /\ prefix'.rec.pos = pos - 1 /\ prefix'.rec.toks = s
  BY <1>2, <1>3, SnapshotAligned
<1> HIDE DEF s
<1>5. /\ Len(stack') = 1 /\ stack'[1].child = 0 /\ \A k \in 1..Len(stack') : k = 1
  BY <1>3 DEF Entered
<1>6. BranchOf(s, tree', stack', 0) = s
  BY <1>2, BranchEmpty
<1>7. HoldsBelow(mem, s)
  BY <1>2 DEF Aligned
<1>8. BranchInv'
  BY <1>1, <1>2, <1>3, <1>4, <1>5, <1>6, <1>7 DEF BranchInv, Branch, Top
<1> QED BY <1>1, <1>3, <1>8 DEF ShapeInv, NothingRefused, Asked

(* What BranchInv says before a step of expand().                            *)
LEMMA BranchOpen ==
  ASSUME TypeOK, BranchInv
  PROVE  /\ prefix.rec.toks \in Seq(Token) /\ pos \in Nat /\ pos = Len(prefix.rec.toks)
         /\ prefix \in Snap /\ mem \in Memory
         /\ prefix.first = pos /\ prefix.rec.pos = pos - 1 /\ pos <= Context
         /\ HoldsBelow(mem, prefix.rec.toks)
BY DEF TypeOK, BranchInv, Snap, Rec

LEMMA ShapeLeave ==
  ASSUME TypeInv, StackInv, ShapeInv, SkipNode \/ LeaveNode
  PROVE  ShapeInv'
<1> DEFINE n == Len(stack)
<1>1. /\ pc = "draft" /\ stack # << >> /\ Len(stack') = n - 1
      /\ \A k \in 1..Len(stack') : stack'[k] = stack[k]
      /\ UNCHANGED << pc, mem, prompt, emitted, pos, prefix, tree >>
  BY LeaveFacts DEF TypeInv
<1>2. TypeOK /\ BranchInv
  BY <1>1 DEF TypeInv, ShapeInv
<1>3. /\ n \in Nat \ {0} /\ n \in 1..n /\ n - 1 \in 0..n /\ Top = stack[n] /\ mem \in Memory
  BY <1>1, <1>2, StackTop, BranchOpen
<1>4. HoldsBelow(mem, Branch(n - 1))
  <2>1. CASE Top.child = 0
    BY <1>1, <1>2, <2>1 DEF BranchInv, Aligned
  <2>2. CASE Top.child # 0
    <3>1. HoldsBelow(mem, Branch(n))
      BY <1>1, <1>2, <2>2 DEF BranchInv
    <3> QED BY <1>2, <1>3, <3>1, BranchNext
  <2> QED BY <2>1, <2>2
<1>5. ASSUME NEW k \in 0..(n - 1)
      PROVE  BranchOf(prefix.rec.toks, tree, stack', k) = Branch(k)
  <2>1. \A j \in 1..k : tree[stack'[j].node].tok = tree[stack[j].node].tok
    BY <1>1, <1>3
  <2> QED BY <2>1, BranchAgrees DEF Branch
<1> HIDE DEF n
<1>6. stack' # << >> => n - 1 \in 1..(n - 1) /\ stack'[n - 1] = stack[n - 1]
  <2>1. stack' # << >> => n - 1 > 0
    <3>1. stack' \in Seq(Frame)
      BY <1>1, <1>2, TopPop DEF SkipNode, LeaveNode
    <3> QED BY <1>1, <1>3, <3>1, EmptySeq
  <2> QED BY <1>1, <1>3, <2>1
<1>7. stack' # << >> => stack'[n - 1].child > 1
  BY <1>3, <1>6 DEF StackInv, n
<1>8. BranchOf(prefix.rec.toks, tree, stack', n - 1) = Branch(n - 1)
  BY <1>3, <1>5
<1>9. stack' # << >> =>
        IF stack'[n - 1].child = 0
        THEN Aligned(mem, BranchOf(prefix.rec.toks, tree, stack', n - 1 - 1))
        ELSE /\ HoldsBelow(mem, BranchOf(prefix.rec.toks, tree, stack', n - 1))
             /\ stack'[n - 1].child = 1 =>
                  Aligned(mem, BranchOf(prefix.rec.toks, tree, stack', n - 1))
  BY <1>4, <1>7, <1>8
<1>10. ASSUME NEW k \in 1..(n - 1), stack'[k].child > 0, Len(stack'[k].kids) > 1
       PROVE  /\ stack'[k].snap.first = pos + k
              /\ stack'[k].snap.rec.pos = pos + k - 1
              /\ stack'[k].snap.rec.toks = BranchOf(prefix.rec.toks, tree, stack', k)
  <2>1. k \in 1..Len(stack) /\ stack'[k] = stack[k] /\ k \in 0..(n - 1)
    BY <1>1, <1>3 DEF n
  <2>2. /\ stack[k].snap.first = pos + k /\ stack[k].snap.rec.pos = pos + k - 1
        /\ stack[k].snap.rec.toks = Branch(k)
    BY <1>2, <1>10, <2>1 DEF BranchInv
  <2> QED BY <1>5, <2>1, <2>2
<1>11. BranchInv'
  BY <1>1, <1>2, <1>9, <1>10 DEF BranchInv, Branch, Top
<1> QED BY <1>1, <1>11 DEF ShapeInv, NothingRefused, Asked

(* A node with children is above the last level: its branch and one of them  *)
(* fit the tokens still asked for.                                           *)
LEMMA DeepestChild ==
  ASSUME TypeInv, StackInv, LevelInv, pc = "draft", stack # << >>,
         Top.child \in 1..Len(Top.kids)
  PROVE  Len(stack) + Len(emitted) <= Predict
<1> DEFINE n == Len(stack)
           c == Top.kids[Top.child]
<1>1. PICK lv \in [NodeIds -> 0..Draft] : Levels(lv)
  BY DEF LevelInv
<1>2. /\ n \in Nat \ {0} /\ n \in 1..n /\ Top = stack[n] /\ Top.kids \in Seq(NodeIds)
  BY StackTop DEF TypeInv
<1>3. c \in NodeIds /\ 1 \in NodeIds
  BY <1>2, ElementOfSeq DEF NodeIds
<1>4. TreeLevels(lv) /\ DraftLevels(lv)
  BY <1>1 DEF Levels
<1>5. Top.depth = n - 1 /\ lv[c] = Top.depth + 1
  BY <1>2, <1>4 DEF StackInv, DraftLevels
<1>6. lv[c] + Len(emitted) <= Predict + lv[1] /\ lv[1] < 1 /\ lv[1] \in Nat
  BY <1>1, <1>3, <1>4, Options DEF DraftLevels, TreeLevels, Room
<1>7. Len(emitted) \in Nat
  BY LenProperties DEF TypeInv, TypeOK
<1> HIDE DEF n, c
<1>8. n + Len(emitted) <= Predict
  BY <1>2, <1>5, <1>6, <1>7, Options
<1> QED BY <1>8 DEF n

LEMMA ShapeVisit ==
  ASSUME TypeInv, StackInv, LevelInv, ShapeInv, VisitChild
  PROVE  ShapeInv'
<1> DEFINE n == Len(stack)
           r == prefix.rec.toks
<1>1. /\ pc = "draft" /\ stack # << >> /\ Top.child \in 1..Len(Top.kids)
      /\ UNCHANGED << prompt, emitted, pos, prefix, tree >>
      /\ Len(stack') = n + 1
      /\ \A k \in 1..(n - 1) : stack'[k] = stack[k]
      /\ LET f == stack'[n]
             e == stack'[n + 1]
         IN  /\ f.node = Top.node /\ f.kids = Top.kids /\ f.snap = Top.snap
             /\ e.child = 0
  BY VisitFacts DEF TypeInv
<1>2. /\ mem' = (IF Top.child > 1 THEN RestoreTo(mem, Top.snap) ELSE mem)
      /\ pc' = (IF Top.child > 1 /\ ~RestoreAccepted(mem, Top.snap) THEN "refused" ELSE "draft")
  BY DEF VisitChild
<1>3. TypeOK /\ BranchInv
  BY <1>1 DEF TypeInv, ShapeInv
<1>4. /\ n \in Nat \ {0} /\ n \in 1..n /\ n \in 0..n /\ Top = stack[n] /\ Top.child \in Nat
      /\ Top.snap \in Snap /\ Len(Top.kids) \in Nat /\ mem \in Memory
  BY <1>1, <1>3, StackTop, BranchOpen
<1>5. /\ r \in Seq(Token) /\ pos \in Nat /\ pos = Len(r) /\ pos <= Context
  BY <1>3, BranchOpen
<1>6. /\ Branch(n) \in Seq(Token) /\ Len(Branch(n)) = pos + n
      /\ \A m \in Memory : HoldsBelow(m, Branch(n)) => HoldsBelow(m, r)
  BY <1>3, <1>4, <1>5, BranchFacts
<1> HIDE DEF n, r
<1>7. HoldsBelow(mem, Branch(n)) /\ (Top.child = 1 => Aligned(mem, Branch(n)))
  BY <1>1, <1>3, <1>4 DEF BranchInv, n
<1>8. /\ pos + 1 = Len(prompt) + Len(emitted) /\ Len(prompt) + Predict <= Context
      /\ ~mem.hist.capturing /\ Len(prompt) \in Nat /\ Len(emitted) \in Nat
      /\ Predict \in Nat /\ Context \in Nat
  BY <1>1, <1>3, LenProperties, Options DEF ShapeInv, Asked, TypeOK
<1>9. /\ pc' = "draft" /\ mem' \in Memory /\ Aligned(mem', Branch(n)) /\ mem'.hist = mem.hist
  <2>1. CASE Top.child = 1
    BY <1>2, <1>4, <1>7, <2>1
  <2>2. CASE Top.child > 1
    <3>1. Len(Top.kids) > 1 /\ Top.child > 0
      BY <1>1, <1>4, <2>2
    <3>2. /\ Top.snap.first = pos + n /\ Top.snap.rec.pos = pos + n - 1
          /\ Top.snap.rec.toks = Branch(n)
      BY <1>3, <1>4, <3>1 DEF BranchInv, n
    <3>3. pos + n <= Context
      <4>1. n + Len(emitted) <= Predict
        BY <1>1, <1>4, DeepestChild DEF n
      <4> QED BY <1>4, <1>5, <1>8, <4>1
    <3>4. /\ RestoreAccepted(mem, Top.snap) /\ RestoreTo(mem, Top.snap) \in Memory
          /\ Aligned(RestoreTo(mem, Top.snap), Branch(n))
          /\ RestoreTo(mem, Top.snap).hist = mem.hist
      <4>1. /\ Top.snap.first = Len(Branch(n)) /\ Top.snap.rec.pos = Len(Branch(n)) - 1
            /\ Len(Branch(n)) <= Context
        BY <1>4, <1>5, <1>6, <3>2, <3>3
      <4> QED BY <1>4, <1>6, <1>7, <3>2, <4>1, RestoreAligned
    <3> QED BY <1>2, <2>2, <3>4
  <2> QED BY <1>1, <1>4, <2>1, <2>2
<1>10. ASSUME NEW k \in 0..n
       PROVE  BranchOf(r, tree, stack', k) = Branch(k)
  <2>1. ASSUME NEW j \in 1..k PROVE stack'[j].node = stack[j].node
    <3>1. j \in 1..(n - 1) \/ j = n
      BY <1>4
    <3> QED BY <1>1, <1>4, <3>1
  <2> QED BY <2>1, BranchAgrees DEF Branch, r
<1>11. BranchOf(r, tree, stack', n) = Branch(n)
  BY <1>4, <1>10
<1>12. HoldsBelow(mem', r)
  BY <1>6, <1>9 DEF Aligned
<1>13. ASSUME NEW k \in 1..(n + 1), stack'[k].child > 0, Len(stack'[k].kids) > 1
       PROVE  /\ stack'[k].snap.first = pos + k
              /\ stack'[k].snap.rec.pos = pos + k - 1
              /\ stack'[k].snap.rec.toks = BranchOf(r, tree, stack', k)
  <2>1. k \in 0..n /\ k \in 1..n
    BY <1>1, <1>4, <1>13
  <2>2. k \in 1..Len(stack)
    BY <2>1 DEF n
  <2>3. CASE k = n
    <3>1. Top.child > 0 /\ Len(Top.kids) > 1
      BY <1>1, <1>4, <1>13, <2>3
    <3>2. /\ Top.snap.first = pos + n /\ Top.snap.rec.pos = pos + n - 1
          /\ Top.snap.rec.toks = Branch(n)
      BY <1>3, <1>4, <3>1 DEF BranchInv, n
    <3> QED BY <1>1, <1>11, <2>3, <3>2
  <2>4. CASE k # n
    <3>1. stack'[k] = stack[k]
      BY <1>1, <1>4, <2>1, <2>4
    <3>2. /\ stack[k].snap.first = pos + k /\ stack[k].snap.rec.pos = pos + k - 1
          /\ stack[k].snap.rec.toks = Branch(k)
      BY <1>3, <1>13, <2>2, <3>1 DEF BranchInv
    <3> QED BY <1>10, <2>1, <3>1, <3>2
  <2> QED BY <2>3, <2>4
<1>14. /\ stack'[Len(stack')].child = 0 /\ Len(stack') - 1 = n
  BY <1>1, <1>4
<1>15. /\ prefix'.first = pos' /\ prefix'.rec.pos = pos' - 1
       /\ pos' = Len(prefix'.rec.toks) /\ pos' <= Context /\ prefix'.rec.toks = r
  BY <1>1, <1>3, <1>5, BranchOpen DEF r
<1>16. Aligned(mem', BranchOf(prefix'.rec.toks, tree', stack', Len(stack') - 1))
  BY <1>1, <1>9, <1>11, <1>14, <1>15
<1>17. BranchInv'
  BY <1>1, <1>12, <1>13, <1>14, <1>15, <1>16 DEF BranchInv, Branch, Top
<1> QED BY <1>1, <1>9, <1>8, <1>17 DEF ShapeInv, NothingRefused, Asked

LEMMA ShapeExpand ==
  ASSUME TypeInv, StackInv, CountInv, ShapeInv, Expand
  PROVE  ShapeInv'
<1> DEFINE n == Len(stack)
           r == prefix.rec.toks
           t == tree[Top.node].tok
<1>1. TypeOK /\ BranchInv /\ pc = "draft" /\ stack # << >>
  BY DEF TypeInv, ShapeInv, Expand
<1>2. /\ UNCHANGED << prompt, emitted, pos, prefix >>
      /\ \E sel \in Seq(Token) : Expanded(sel)
  BY <1>1, ExpandFacts
<1>3. PICK sel \in Seq(Token) : Expanded(sel)
  BY <1>2
<1>4. /\ Top.child = 0 /\ Top.depth < Limit /\ tree' = Grow(Top.node, sel)
      /\ pc' = (IF DecodeAccepted(mem, << t >>, pos + Top.depth) THEN "draft" ELSE "refused")
      /\ mem' = DecodeTo(mem, "draft", << t >>, pos + Top.depth)
  BY <1>3 DEF Expanded
<1>5. /\ n \in Nat \ {0} /\ n \in 1..n /\ n \in 0..n /\ n - 1 \in 0..n /\ Top = stack[n]
      /\ Top.node \in NodeIds /\ Top.depth = n - 1 /\ mem \in Memory
  <2>1. /\ n \in Nat \ {0} /\ n \in 1..n /\ Top = stack[n] /\ Top.node \in NodeIds
        /\ mem \in Memory
    BY <1>1, StackTop, BranchOpen
  <2>2. Top.depth = n - 1
    BY <2>1 DEF StackInv
  <2> HIDE DEF n
  <2> QED BY <2>1, <2>2
<1>6. /\ r \in Seq(Token) /\ pos \in Nat /\ pos = Len(r) /\ pos <= Context
  BY <1>1, BranchOpen
<1>7. /\ pos + 1 = Len(prompt) + Len(emitted) /\ Len(prompt) + Predict <= Context
      /\ ~mem.hist.capturing /\ Len(prompt) \in Nat /\ Len(emitted) \in Nat
      /\ Predict \in Nat /\ Context \in Nat
  BY <1>1, LenProperties, Options DEF ShapeInv, Asked, TypeOK
<1>8. Limit \in Int /\ Limit + Len(emitted) <= Predict
  BY <1>7, Options DEF Limit, Min2
<1>9. pos + Top.depth + 1 <= Context
  <2> HIDE DEF n
  <2> QED BY SMTT(60), <1>4, <1>5, <1>6, <1>7, <1>8
<1>10. /\ Branch(n - 1) \in Seq(Token) /\ Len(Branch(n - 1)) = pos + Top.depth
       /\ Branch(n) \in Seq(Token) /\ Len(Branch(n)) = pos + n
       /\ \A m \in Memory : HoldsBelow(m, Branch(n)) => HoldsBelow(m, r)
  <2>1. /\ Branch(n - 1) \in Seq(Token) /\ Len(Branch(n - 1)) = Len(r) + (n - 1)
    BY <1>1, <1>5, BranchFacts
  <2>2. /\ Branch(n) \in Seq(Token) /\ Len(Branch(n)) = Len(r) + n
        /\ \A m \in Memory : HoldsBelow(m, Branch(n)) => HoldsBelow(m, r)
    BY <1>1, <1>5, BranchFacts
  <2> QED BY <1>5, <1>6, <2>1, <2>2
<1>11. /\ t \in Token /\ Branch(n) = Branch(n - 1) \o << t >>
       /\ \A m \in Memory : HoldsBelow(m, Branch(n)) => HoldsBelow(m, Branch(n - 1))
  BY <1>1, <1>5, BranchNext
<1>12. Aligned(mem, Branch(n - 1))
  BY <1>1, <1>4 DEF BranchInv
<1>13. << t >> \in Seq(Token) /\ Len(<< t >>) = 1 /\ << t >> # << >>
  BY <1>11, OneToken
<1> HIDE DEF n, r, t
<1>14. Len(Branch(n - 1)) + Len(<< t >>) <= Context
  BY <1>9, <1>10, <1>13
<1>15. DecodeAccepted(mem, << t >>, Len(Branch(n - 1)))
  BY <1>5, <1>7, <1>10, <1>12, <1>13, <1>14, DecodeNext
<1>16. LET d == DecodeTo(mem, "draft", << t >>, Len(Branch(n - 1)))
       IN  d \in Memory /\ Aligned(d, Branch(n - 1) \o << t >>) /\ d.hist = mem.hist
  BY <1>5, <1>10, <1>12, <1>13, <1>14, DecodeAligned
<1>17. /\ pc' = "draft" /\ mem' \in Memory /\ Aligned(mem', Branch(n)) /\ mem'.hist = mem.hist
  BY <1>4, <1>10, <1>11, <1>15, <1>16
<1>18. HoldsBelow(mem', r) /\ HoldsBelow(mem', Branch(n)) /\ HoldsBelow(mem', Branch(n - 1))
  BY <1>10, <1>11, <1>17 DEF Aligned
<1>19. \A i \in NodeIds : tree'[i].tok = tree[i].tok
  BY <1>1, <1>4, <1>5, GrowType DEF NodeIds
<1>20. ASSUME NEW k \in 0..n, \A j \in 1..k : stack'[j].node = stack[j].node
       PROVE  BranchOf(r, tree', stack', k) = Branch(k)
  <2>1. ASSUME NEW j \in 1..k PROVE tree'[stack'[j].node].tok = tree[stack[j].node].tok
    <3>1. stack[j].node \in NodeIds
      BY SMTT(60), <1>1, <1>5 DEF TypeOK, n
    <3> QED BY <1>19, <1>20, <3>1
  <2> QED BY <2>1, BranchAgrees DEF Branch, r
<1>21. ASSUME NEW k \in 1..n, k # n, stack'[k] = stack[k],
              \A j \in 1..k : stack'[j].node = stack[j].node,
              stack'[k].child > 0, Len(stack'[k].kids) > 1
       PROVE  /\ stack'[k].snap.first = pos + k
              /\ stack'[k].snap.rec.pos = pos + k - 1
              /\ stack'[k].snap.rec.toks = BranchOf(r, tree', stack', k)
  <2>1. k \in 1..Len(stack) /\ k \in 0..n
    BY <1>5 DEF n
  <2>2. /\ stack[k].snap.first = pos + k /\ stack[k].snap.rec.pos = pos + k - 1
        /\ stack[k].snap.rec.toks = Branch(k)
    BY <1>1, <1>21, <2>1 DEF BranchInv
  <2> QED BY <1>20, <1>21, <2>1, <2>2
<1>22. /\ prefix'.first = pos' /\ prefix'.rec.pos = pos' - 1
       /\ pos' = Len(prefix'.rec.toks) /\ pos' <= Context /\ prefix'.rec.toks = r
  BY <1>1, <1>2, <1>6, BranchOpen DEF r
<1>23. CASE /\ Len(stack') = n - 1
            /\ \A k \in 1..Len(stack') : stack'[k] = stack[k]
  <2>1. BranchOf(r, tree', stack', n - 1) = Branch(n - 1)
    BY <1>5, <1>20, <1>23
  <2>2. stack' # << >> => stack'[n - 1].child > 1
    <3>1. stack' # << >> => n - 1 > 0
      <4>1. stack' \in Seq(Frame)
        BY TypeInvStep DEF TypeInv, TypeOK, Next, Generate, Speculate
      <4> QED BY <1>5, <1>23, <4>1, EmptySeq
    <3> QED BY <1>5, <1>23, <3>1 DEF StackInv, n
  <2>3. stack' # << >> =>
          /\ ~(stack'[Len(stack')].child = 0) /\ ~(stack'[Len(stack')].child = 1)
          /\ HoldsBelow(mem', BranchOf(prefix'.rec.toks, tree', stack', Len(stack')))
    BY <1>18, <1>22, <1>23, <2>1, <2>2
  <2>4. ASSUME NEW k \in 1..Len(stack'), stack'[k].child > 0, Len(stack'[k].kids) > 1
        PROVE  /\ stack'[k].snap.first = pos' + k
               /\ stack'[k].snap.rec.pos = pos' + k - 1
               /\ stack'[k].snap.rec.toks = BranchOf(prefix'.rec.toks, tree', stack', k)
    <3>1. k \in 1..n /\ k # n /\ stack'[k] = stack[k]
          /\ \A j \in 1..k : stack'[j].node = stack[j].node
      BY <1>5, <1>23
    <3> QED BY <1>2, <1>21, <1>22, <2>4, <3>1
  <2>5. BranchInv'
    BY <1>18, <1>22, <2>3, <2>4 DEF BranchInv, Branch, Top
  <2> QED BY <1>2, <1>7, <1>17, <2>5 DEF ShapeInv, NothingRefused, Asked
<1>24. CASE /\ Len(stack') = n
            /\ \A k \in 1..(n - 1) : stack'[k] = stack[k]
            /\ LET f == stack'[n]
               IN  /\ f.node = Top.node /\ f.child = 1 /\ f.kids = Added(Len(sel))
                   /\ f.snap = IF Len(sel) > 1 THEN SnapshotOf(mem') ELSE NoSnap
  <2>1. \A j \in 1..n : stack'[j].node = stack[j].node
    <3> SUFFICES ASSUME NEW j \in 1..n PROVE stack'[j].node = stack[j].node
      OBVIOUS
    <3>1. j \in 1..(n - 1) \/ j = n
      BY <1>5
    <3> QED BY <1>5, <1>24, <3>1
  <2>2. BranchOf(r, tree', stack', n) = Branch(n)
    BY <1>5, <1>20, <2>1
  <2>3. /\ stack'[Len(stack')].child = 1
        /\ Aligned(mem', BranchOf(prefix'.rec.toks, tree', stack', Len(stack')))
        /\ HoldsBelow(mem', BranchOf(prefix'.rec.toks, tree', stack', Len(stack')))
    BY <1>17, <1>18, <1>22, <1>24, <2>2
  <2>4. ASSUME NEW k \in 1..Len(stack'), stack'[k].child > 0, Len(stack'[k].kids) > 1
        PROVE  /\ stack'[k].snap.first = pos' + k
               /\ stack'[k].snap.rec.pos = pos' + k - 1
               /\ stack'[k].snap.rec.toks = BranchOf(prefix'.rec.toks, tree', stack', k)
    <3>1. CASE k = n
      <4>1. Len(Added(Len(sel))) = Len(sel)
        BY <1>1, <1>5, GrowType
      <4>2. Len(sel) > 1
        BY <1>24, <2>4, <3>1, <4>1
      <4>3. stack'[k].snap = SnapshotOf(mem')
        BY <1>24, <3>1, <4>2
      <4>4. /\ SnapshotOf(mem').first = Len(Branch(n))
            /\ SnapshotOf(mem').rec.pos = Len(Branch(n)) - 1
            /\ SnapshotOf(mem').rec.toks = Branch(n)
        BY <1>10, <1>17, SnapshotAligned
      <4>5. SnapshotOf(mem').first = pos' + k /\ SnapshotOf(mem').rec.pos = pos' + k - 1
        BY <1>2, <1>5, <1>6, <1>10, <3>1, <4>4
      <4>6. SnapshotOf(mem').rec.toks = BranchOf(prefix'.rec.toks, tree', stack', k)
        BY <1>22, <2>2, <3>1, <4>4
      <4> QED BY <4>3, <4>5, <4>6
    <3>2. CASE k # n
      <4>1. k \in 1..n /\ k \in 1..(n - 1)
        BY <1>5, <1>24, <3>2
      <4>2. stack'[k] = stack[k] /\ \A j \in 1..k : stack'[j].node = stack[j].node
        BY <1>24, <2>1, <4>1
      <4> QED BY <1>2, <1>21, <1>22, <2>4, <3>2, <4>1, <4>2
    <3> QED BY <3>1, <3>2
  <2>5. BranchInv'
    BY <1>18, <1>22, <2>3, <2>4 DEF BranchInv, Branch, Top
  <2> QED BY <1>2, <1>7, <1>17, <2>5 DEF ShapeInv, NothingRefused, Asked
<1> QED BY <1>3, <1>23, <1>24 DEF Expanded, n

LEMMA ShapeEndDraft ==
  ASSUME TypeInv, ShapeInv, EndDraft
  PROVE  ShapeInv'
<1>1. TypeOK /\ BranchInv
  BY DEF TypeInv, ShapeInv, EndDraft
<1>2. /\ pos + 1 = Asked /\ Len(prompt) + Predict <= Context /\ ~mem.hist.capturing
  BY DEF ShapeInv, EndDraft
<1>3. /\ mem' = RestoreTo(mem, prefix)
      /\ pc' = (IF RestoreAccepted(mem, prefix) THEN "path" ELSE "refused")
      /\ UNCHANGED << prompt, emitted, pos >>
  BY DEF EndDraft
<1> DEFINE r == prefix.rec.toks
<1>4. /\ r \in Seq(Token) /\ pos \in Nat /\ pos = Len(r) /\ prefix \in Snap /\ mem \in Memory
      /\ prefix.first = pos /\ prefix.rec.pos = pos - 1 /\ pos <= Context
      /\ HoldsBelow(mem, r) /\ prefix.rec.toks = r
  BY <1>1, BranchOpen
<1> HIDE DEF r
<1>5. /\ RestoreAccepted(mem, prefix) /\ Aligned(mem', r) /\ mem'.hist = mem.hist
  BY <1>3, <1>4, RestoreAligned
<1>6. IdleInv'
  BY <1>3, <1>4, <1>5 DEF IdleInv, Aligned
<1> QED BY <1>2, <1>3, <1>5, <1>6 DEF ShapeInv, NothingRefused, Asked

(***************************************************************************)
(* Prefill and the autoregressive steps.                                   *)
(***************************************************************************)
LEMMA FreshAligned == Aligned(FreshMemory, << >>) /\ ~FreshMemory.hist.capturing
<1>1. /\ FreshMemory.rec.toks = << >> /\ FreshMemory.rec.pos = -1
      /\ FreshMemory.attn = [p \in Positions |-> << >>]
  BY DEF FreshMemory, EmptyRec
<1>2. \A p \in Positions : ~(p < Len(<< >>)) /\ FreshMemory.attn[p] = << >>
  BY <1>1 DEF Positions
<1>3. Aligned(FreshMemory, << >>)
  BY <1>1, <1>2, MemoryAssumption DEF Aligned, HoldsBelow
<1>4. FreshMemory.hist.capturing = FALSE
  BY DEF FreshMemory, NoHistory
<1> QED BY <1>3, <1>4

LEMMA ShapeStart ==
  ASSUME TypeInv, ShapeInv, Start
  PROVE  ShapeInv'
<1>1. /\ mem = FreshMemory /\ off = 0 /\ emitted = << >> /\ pos = Len(prompt) /\ prompt # << >>
      /\ UNCHANGED << mem, off, emitted, pos, prompt >>
      /\ pc' = (IF Len(prompt) + Predict <= Context THEN "prefill" ELSE "failed")
  BY DEF ShapeInv, Start
<1>2. Len(prompt) \in Nat
  BY LenProperties DEF TypeInv, TypeOK
<1>3. Min2(off', Len(prompt')) = 0
  BY <1>1, <1>2 DEF Min2
<1>4. FreshMemory.rec.toks = << >> /\ Len(<< >>) = 0
  BY DEF FreshMemory, EmptyRec
<1>5. /\ Aligned(mem', mem'.rec.toks) /\ ~mem'.hist.capturing
      /\ Len(mem'.rec.toks) = Min2(off', Len(prompt'))
  BY <1>1, <1>3, <1>4, FreshAligned
<1> QED BY <1>1, <1>5 DEF ShapeInv, NothingRefused

LEMMA ShapePrefill ==
  ASSUME TypeInv, ShapeInv, Prefill
  PROVE  ShapeInv'
<1> DEFINE n == Len(prompt)
           b == Min2(n, off + Ubatch)
           chunk == SubSeq(prompt, off + 1, b)
           s == mem.rec.toks
<1>1. /\ mem \in Memory /\ prompt \in Seq(Token) /\ off \in Nat /\ n \in Nat
      /\ s \in Seq(Token)
  BY LenProperties DEF TypeInv, TypeOK, Memory, Rec
<1>2. /\ off < n
      /\ pc' = (IF DecodeAccepted(mem, chunk, off) THEN "prefill" ELSE "refused")
      /\ mem' = DecodeTo(mem, "target", chunk, off)
      /\ off' = off + Ubatch
      /\ UNCHANGED << prompt, emitted, pos >>
  BY DEF Prefill
<1>3. b \in Nat /\ off <= b /\ b <= n /\ Min2(off, n) = off /\ b - off > 0
      /\ Min2(off + Ubatch, n) = b
  BY <1>1, <1>2, MemoryAssumption DEF Min2
<1>4. /\ emitted = << >> /\ pos = n /\ prompt # << >> /\ Aligned(mem, s) /\ Len(s) = off
      /\ n + Predict <= Context /\ ~mem.hist.capturing
  BY <1>3 DEF ShapeInv, Prefill
<1> HIDE DEF b
<1>5. chunk \in Seq(Token) /\ Len(chunk) = b - off
  BY <1>1, <1>3, PrefixJoin
<1>6. chunk # << >>
  <2>1. chunk = << >> => Len(chunk) = 0
    BY EmptySeq, Zenon
  <2> HIDE DEF chunk
  <2> QED BY <1>1, <1>3, <1>5, <2>1
<1> HIDE DEF chunk, s, n
<1>7. Len(s) + Len(chunk) <= Context /\ Len(s) + Len(chunk) = b
  BY <1>1, <1>3, <1>4, <1>5, Options
<1>8. DecodeAccepted(mem, chunk, Len(s))
  BY <1>1, <1>4, <1>5, <1>6, <1>7, DecodeNext
<1>9. LET d == DecodeTo(mem, "target", chunk, Len(s))
      IN  Aligned(d, s \o chunk) /\ d.hist = mem.hist /\ Len(s \o chunk) = Len(s) + Len(chunk)
  BY <1>1, <1>4, <1>5, <1>7, DecodeAligned
<1>10. /\ Aligned(mem', s \o chunk) /\ mem'.hist = mem.hist /\ Len(s \o chunk) = b
       /\ pc' = "prefill"
  BY <1>2, <1>4, <1>7, <1>8, <1>9
<1>11. Aligned(mem', mem'.rec.toks) /\ Len(mem'.rec.toks) = b
  BY <1>10 DEF Aligned
<1>12. Len(mem'.rec.toks) = Min2(off', Len(prompt'))
  BY <1>2, <1>3, <1>11 DEF n
<1> QED BY <1>2, <1>4, <1>10, <1>11, <1>12 DEF ShapeInv, NothingRefused, n

LEMMA ShapeSequential ==
  ASSUME TypeInv, ShapeInv, FirstRoot \/ EmitRoot \/ LoopEnds \/ Throws \/ ExtendPath
  PROVE  ShapeInv'
<1>1. /\ Len(prompt) \in Nat /\ Len(emitted) \in Nat /\ emitted \in Seq(Token) /\ pos \in Nat
      /\ off \in Nat /\ root \in Token
  BY LenProperties DEF TypeInv, TypeOK
<1>2. CASE FirstRoot
  <2>1. /\ pc = "prefill" /\ off >= Len(prompt) /\ pc' = "loop"
        /\ UNCHANGED << mem, prompt, emitted, pos >>
    BY <1>2 DEF FirstRoot
  <2>2. /\ Min2(off, Len(prompt)) = Len(prompt) /\ Len(<< >>) = 0
    BY <1>1, <2>1 DEF Min2
  <2>3. IdleInv /\ pos = Asked
    BY <1>1, <2>1, <2>2 DEF ShapeInv, IdleInv, Asked
  <2>4. IdleInv' /\ pos' = Asked'
    BY <2>1, <2>3 DEF IdleInv, Asked
  <2> QED BY <2>1, <2>4 DEF ShapeInv, NothingRefused
<1>3. CASE EmitRoot
  <2>1. /\ pc = "loop" /\ Len(emitted) < Predict /\ pc' = "rooted"
        /\ emitted' = Append(emitted, root) /\ UNCHANGED << mem, prompt, pos >>
    BY <1>3 DEF EmitRoot
  <2>2. Len(emitted') = Len(emitted) + 1
    BY <1>1, <2>1, AppendProperties
  <2>3. IdleInv' /\ pos' + 1 = Asked'
    BY <1>1, <2>1, <2>2 DEF ShapeInv, IdleInv, Asked
  <2> QED BY <2>1, <2>3 DEF ShapeInv, NothingRefused
<1>4. CASE LoopEnds \/ Throws
  <2>1. pc' \in {"done", "failed"}
    BY <1>4 DEF LoopEnds, Throws
  <2> QED BY <2>1 DEF ShapeInv, NothingRefused
<1>5. CASE ExtendPath
  <2>1. pc = "path" /\ pc' = "path" /\ UNCHANGED << mem, prompt, emitted, pos >>
    BY <1>5 DEF ExtendPath
  <2>2. IdleInv' = IdleInv /\ Asked' = Asked
    BY <2>1 DEF IdleInv, Asked
  <2> QED BY <2>1, <2>2 DEF ShapeInv, NothingRefused
<1> QED BY <1>2, <1>3, <1>4, <1>5

(* A batch that is decoded and taken back.                                   *)
LEMMA ProbeAligned ==
  ASSUME NEW m \in Memory, NEW s \in Seq(Token), Aligned(m, s), ~m.hist.capturing,
         NEW toks \in Seq(Token), toks # << >>, Len(s) + Len(toks) <= Context,
         NEW sn \in Snap, sn.first = Len(s), sn.rec.pos = Len(s) - 1, sn.rec.toks = s
  PROVE  LET d == DecodeTo(m, "target", toks, Len(s))
             c == RestoreTo(d, sn)
         IN  /\ DecodeAccepted(m, toks, Len(s)) /\ RestoreAccepted(d, sn)
             /\ c \in Memory /\ Aligned(c, s) /\ ~c.hist.capturing
<1> DEFINE d == DecodeTo(m, "target", toks, Len(s))
<1>1. DecodeAccepted(m, toks, Len(s))
  BY DecodeNext
<1>2. d \in Memory /\ HoldsBelow(d, s) /\ d.hist = m.hist
  BY DecodeAligned
<1>3. Len(s) <= Context
  BY DEF Aligned
<1> HIDE DEF d
<1>4. /\ RestoreAccepted(d, sn) /\ RestoreTo(d, sn) \in Memory
      /\ Aligned(RestoreTo(d, sn), s) /\ RestoreTo(d, sn).hist = d.hist
  BY <1>2, <1>3, RestoreAligned
<1> QED BY <1>1, <1>2, <1>4 DEF d

(* The diagnostic batch of two tokens needs a ubatch of two (the require()   *)
(* in front of it), which --draft-max >= 1 implies.                          *)
ProbeFits == Ar /\ ProbeAt >= 0 => Ubatch >= 2

LEMMA ShapeAr ==
  ASSUME ProbeFits, TypeInv, CountInv, ShapeInv, ArProbe \/ ArStep
  PROVE  ShapeInv'
<1> DEFINE s == mem.rec.toks
<1>1. /\ pc \in {"rooted", "ar"} /\ UNCHANGED << prompt, emitted >>
  BY DEF ArProbe, ArStep
<1>2. /\ TypeOK /\ IdleInv /\ pos + 1 = Len(prompt) + Len(emitted)
      /\ Len(prompt) + Predict <= Context /\ ~mem.hist.capturing
  BY <1>1 DEF TypeInv, ShapeInv, Asked
<1>3. /\ mem \in Memory /\ s \in Seq(Token) /\ Aligned(mem, s) /\ pos \in Nat /\ pos = Len(s)
  BY <1>2, IdleFacts
<1>4. /\ Len(prompt) \in Nat /\ Len(emitted) \in Nat /\ Len(emitted) <= Predict
      /\ root \in Token /\ Predict \in Nat /\ Context \in Nat /\ Ubatch \in Nat
  BY <1>2, LenProperties, Options DEF TypeOK, CountInv
<1>5. << root >> \in Seq(Token) /\ Len(<< root >>) = 1 /\ << root >> # << >>
  BY <1>4, OneToken
<1> HIDE DEF s
<1>6. CASE ArProbe
  <2>1. Len(emitted) # Predict /\ Len(emitted) = ProbeAt /\ Ar /\ UNCHANGED << pos >>
    BY <1>6 DEF ArProbe
  <2>2. Ubatch >= 2 /\ Len(s) + 2 <= Context
    BY <1>2, <1>3, <1>4, <2>1 DEF ProbeFits
  <2> DEFINE saved == SnapshotOf(mem)
             m1 == DecodeTo(mem, "target", << root >>, pos)
             m2 == RestoreTo(m1, saved)
  <2>3. PICK single \in Token :
          LET m3 == DecodeTo(m2, "target", << root, single >>, pos)
          IN  /\ mem' = RestoreTo(m3, saved)
              /\ pc' = IF /\ Ubatch >= 2
                          /\ DecodeAccepted(mem, << root >>, pos)
                          /\ RestoreAccepted(m1, saved)
                          /\ DecodeAccepted(m2, << root, single >>, pos)
                          /\ RestoreAccepted(m3, saved)
                       THEN "ar" ELSE "refused"
    BY <1>6 DEF ArProbe
  <2> DEFINE pair == << root, single >>
             m3 == DecodeTo(m2, "target", pair, pos)
  <2>4. pair \in Seq(Token) /\ Len(pair) = 2 /\ pair # << >>
    BY <1>4
  <2>5. saved \in Snap /\ saved.first = Len(s) /\ saved.rec.pos = Len(s) - 1
        /\ saved.rec.toks = s
    BY <1>3, SnapshotType, SnapshotAligned
  <2> HIDE DEF saved, pair
  <2>6. /\ DecodeAccepted(mem, << root >>, Len(s))
        /\ RestoreAccepted(DecodeTo(mem, "target", << root >>, Len(s)), saved)
        /\ LET c == RestoreTo(DecodeTo(mem, "target", << root >>, Len(s)), saved)
           IN  c \in Memory /\ Aligned(c, s) /\ ~c.hist.capturing
    <3>1. Len(s) + Len(<< root >>) <= Context
      BY <1>3, <1>4, <1>5, <2>2
    <3> QED BY <1>2, <1>3, <1>5, <2>5, <3>1, ProbeAligned
  <2>7. /\ DecodeAccepted(mem, << root >>, pos) /\ RestoreAccepted(m1, saved)
        /\ m2 \in Memory /\ Aligned(m2, s) /\ ~m2.hist.capturing
    BY <1>3, <2>6
  <2> HIDE DEF m2, m1
  <2>8. /\ DecodeAccepted(m2, pair, Len(s))
        /\ RestoreAccepted(DecodeTo(m2, "target", pair, Len(s)), saved)
        /\ LET c == RestoreTo(DecodeTo(m2, "target", pair, Len(s)), saved)
           IN  c \in Memory /\ Aligned(c, s) /\ ~c.hist.capturing
    <3>1. Len(s) + Len(pair) <= Context
      BY <2>2, <2>4
    <3> QED BY <1>3, <2>4, <2>5, <2>7, <3>1, ProbeAligned
  <2>9. /\ DecodeAccepted(m2, pair, pos) /\ RestoreAccepted(m3, saved)
        /\ Aligned(RestoreTo(m3, saved), s) /\ ~RestoreTo(m3, saved).hist.capturing
    BY <1>3, <2>8
  <2> HIDE DEF m3
  <2>10. mem' = RestoreTo(m3, saved) /\ pc' = "ar"
    BY <2>2, <2>3, <2>7, <2>9 DEF m3, pair
  <2>11. IdleInv' /\ pos' + 1 = Asked'
    BY <1>1, <1>2, <1>3, <2>1, <2>9, <2>10 DEF IdleInv, Asked, Aligned
  <2> QED BY <1>1, <1>2, <2>9, <2>10, <2>11 DEF ShapeInv, NothingRefused
<1>7. CASE ArStep
  <2>1. /\ pc' = (IF DecodeAccepted(mem, << root >>, pos) THEN "loop" ELSE "refused")
        /\ mem' = DecodeTo(mem, "target", << root >>, pos)
        /\ pos' = pos + 1
    BY <1>7 DEF ArStep
  <2>2. Len(s) + Len(<< root >>) <= Context
    BY <1>2, <1>3, <1>4, <1>5
  <2>3. DecodeAccepted(mem, << root >>, Len(s))
    BY <1>2, <1>3, <1>5, <2>2, DecodeNext
  <2>4. LET d == DecodeTo(mem, "target", << root >>, Len(s))
        IN  /\ Aligned(d, s \o << root >>) /\ d.hist = mem.hist
            /\ Len(s \o << root >>) = Len(s) + Len(<< root >>)
    BY <1>3, <1>5, <2>2, DecodeAligned
  <2>5. /\ pc' = "loop" /\ Aligned(mem', s \o << root >>) /\ mem'.hist = mem.hist
        /\ Len(s \o << root >>) = pos + 1
    BY <1>3, <1>5, <2>1, <2>3, <2>4
  <2>6. IdleInv' /\ pos' = Asked'
    BY <1>1, <1>2, <2>1, <2>5 DEF IdleInv, Asked, Aligned
  <2> QED BY <1>1, <1>2, <2>5, <2>6 DEF ShapeInv, NothingRefused
<1> QED BY <1>6, <1>7

(***************************************************************************)
(* Verification and commit.                                                *)
(***************************************************************************)

(* The path is no longer than the history and than what is left to write.    *)
LEMMA PathFits ==
  ASSUME TypeInv, LevelInv, ShapeInv, pc = "path"
  PROVE  /\ Len(path) \in 1..Capacity /\ Len(path) <= Ubatch
         /\ pos + Len(path) <= Context
<1> DEFINE n == Len(path)
           a == path[1]
           z == path[n]
<1>1. PICK lv \in [NodeIds -> 0..Draft] : Levels(lv)
  BY DEF LevelInv
<1>2. /\ path \in Seq(NodeIds) /\ path # << >> /\ verdict.scanned = 0
      /\ Len(prompt) \in Nat /\ Len(emitted) \in Nat /\ pos \in Nat
  BY LenProperties DEF TypeInv, TypeOK, WalkInv
<1>3. n \in Nat \ {0} /\ n \in 1..n /\ 1 \in 1..n
  BY <1>2, EmptySeq
<1>4. a \in NodeIds /\ z \in NodeIds
  BY <1>2, <1>3, ElementOfSeq
<1>5. PathLevels(lv)
  BY <1>1 DEF Levels
<1>6. lv[z] = lv[a] + n - 1
  BY <1>3, <1>5 DEF PathLevels
<1>7. Room(lv, a)
  <2>1. verdict.scanned + 1 = 1
    BY <1>2
  <2> QED BY <1>5, <2>1 DEF PathLevels
<1>8. lv[z] + Len(emitted) <= Predict + lv[a]
  BY <1>4, <1>7 DEF Room
<1>9. lv[a] \in Nat /\ lv[z] \in Nat /\ lv[z] <= Draft
  BY <1>1, <1>4, Options
<1>10. pos + 1 = Len(prompt) + Len(emitted) /\ Len(prompt) + Predict <= Context
  BY DEF ShapeInv, Asked
<1> HIDE DEF n, a, z
<1>11. n <= Draft + 1 /\ pos + n <= Context
  <2>1. Draft \in Nat /\ Predict \in Nat /\ Context \in Nat
    BY Options
  <2>2. n <= Draft + 1
    BY <1>3, <1>6, <1>9, <2>1
  <2>3. n + Len(emitted) <= Predict + 1
    BY SMTT(60), <1>2, <1>3, <1>6, <1>8, <1>9, <2>1
  <2> QED BY <1>2, <1>3, <1>10, <2>1, <2>2, <2>3
<1> QED BY <1>3, <1>11, Options DEF n

LEMMA ShapeVerify ==
  ASSUME TypeInv, LevelInv, ShapeInv, Verify
  PROVE  ShapeInv'
<1> DEFINE n == Len(path)
           s == mem.rec.toks
           m1 == BeginTo(mem, pos, n)
           m2 == DecodeTo(m1, VerifyEngine, PathTokens, pos)
           all == s \o PathTokens
<1>1. /\ TypeOK /\ pc = "path" /\ IdleInv /\ pos + 1 = Asked
      /\ Len(prompt) + Predict <= Context /\ ~mem.hist.capturing /\ verdict.scanned = 0
  BY DEF TypeInv, WalkInv, ShapeInv, Verify
<1>2. /\ pc' = (IF /\ BeginAccepted(mem, pos, n)
                   /\ DecodeAccepted(m1, PathTokens, pos)
                   /\ FinishAccepted(m2)
                THEN "scan" ELSE "refused")
      /\ mem' = FinishTo(m2)
      /\ UNCHANGED << prompt, emitted, pos, path, verdict >>
  BY DEF Verify
<1>3. /\ mem \in Memory /\ s \in Seq(Token) /\ Aligned(mem, s) /\ pos \in Nat /\ pos = Len(s)
  BY <1>1, IdleFacts
<1>4. n \in 1..Capacity /\ n <= Ubatch /\ pos + n <= Context /\ n \in Nat /\ n >= 1
  BY <1>1, PathFits, MemoryAssumption
<1>5. PathTokens \in Seq(Token) /\ Len(PathTokens) = n /\ PathTokens # << >>
  <2>1. PathTokens \in Seq(Token) /\ Len(PathTokens) = n
    BY <1>1, PathTokensType
  <2>2. PathTokens = << >> => Len(PathTokens) = 0
    BY EmptySeq, Zenon
  <2> QED BY <1>4, <2>1, <2>2
<1>6. BeginAccepted(mem, pos, n)
  <2>1. mem.rec.pos = pos - 1
    BY <1>3 DEF Aligned
  <2> QED BY <1>3, <1>4, <2>1 DEF BeginAccepted
<1>7. /\ m1.attn = mem.attn /\ m1.rec = mem.rec /\ m1.hist.first = pos
      /\ m1.hist.tokens = n /\ m1.hist.capturing
  BY <1>3, <1>6 DEF BeginTo, Memory
<1>8. m1 \in Memory
  <2>1. pos \in Int /\ n \in Int
    BY <1>3, <1>4
  <2> HIDE DEF n
  <2> QED BY <1>3, <2>1, HistoryTypes
<1> HIDE DEF m1, n, s
<1>9. Aligned(m1, s)
  BY <1>3, <1>7 DEF Aligned, HoldsBelow, HoldsToken
<1>10. Len(s) + Len(PathTokens) <= Context
  BY <1>3, <1>4, <1>5
<1>11. DecodeAccepted(m1, PathTokens, pos)
  <2>1. DecodeAccepted(m1, PathTokens, Len(s))
    BY <1>3, <1>4, <1>5, <1>7, <1>8, <1>9, <1>10, DecodeNext
  <2> QED BY <1>3, <2>1
<1>12. m2 \in Memory /\ Aligned(m2, all) /\ m2.hist = m1.hist /\ Len(all) = pos + n
  <2>1. LET d == DecodeTo(m1, VerifyEngine, PathTokens, Len(s))
        IN  /\ d \in Memory /\ Aligned(d, s \o PathTokens) /\ d.hist = m1.hist
            /\ Len(s \o PathTokens) = Len(s) + Len(PathTokens)
    BY <1>3, <1>5, <1>8, <1>9, <1>10, DecodeAligned
  <2> QED BY <1>3, <1>5, <2>1
<1>13. ASSUME n > 1, NEW i \in 1..n
       PROVE  m2.rows[i].toks = SubSeq(all, 1, pos + i)
  <2>1. m2.rows = CapturedRows(m1, VerifyEngine, PathTokens, pos)
    BY DEF DecodeTo
  <2>2. i \in 1..Capacity /\ i <= Len(PathTokens) /\ i \in 0..Len(PathTokens)
    BY <1>4, <1>5, MemoryAssumption
  <2>3. m2.rows[i] = StateAfter(m1, VerifyEngine, PathTokens, pos, i)
    BY <1>7, <1>13, <2>1, <2>2 DEF CapturedRows
  <2>4. m2.rows[i].toks = m1.rec.toks \o SubSeq(PathTokens, 1, i)
    BY <2>3 DEF StateAfter
  <2>5. m1.rec.toks = s
    BY <1>9 DEF Aligned
  <2>6. s \o SubSeq(PathTokens, 1, i) = SubSeq(s \o PathTokens, 1, Len(s) + i)
    BY <1>3, <1>5, <2>2, PrefixOfConcat
  <2> QED BY <1>3, <2>4, <2>5, <2>6
<1> HIDE DEF m2, all
<1>14. FinishAccepted(m2)
  <2>1. m2.rec.pos = pos + n - 1
    BY <1>3, <1>4, <1>12 DEF Aligned
  <2> QED BY <1>3, <1>4, <1>7, <1>12, <2>1 DEF FinishAccepted, LastCaptured
<1>15. /\ mem'.attn = m2.attn /\ mem'.rec = m2.rec /\ mem'.rows = m2.rows
       /\ mem'.hist.valid /\ mem'.hist.first = pos /\ mem'.hist.tokens = n
       /\ ~mem'.hist.capturing
  <2>1. m2.hist \in Hist
    BY <1>12 DEF Memory
  <2>2. mem' = [m2 EXCEPT !.hist = [m2.hist EXCEPT !.capturing = FALSE, !.valid = TRUE]]
    BY <1>2, <1>14 DEF FinishTo
  <2> QED BY <1>7, <1>12, <2>1, <2>2 DEF Memory, Hist
<1>16. Aligned(mem', all) /\ mem'.rec.toks = all
  BY <1>12, <1>15 DEF Aligned, HoldsBelow, HoldsToken
<1>17. PathInv'
  BY <1>2, <1>4, <1>12, <1>13, <1>15, <1>16 DEF PathInv, n
<1>18. pc' = "scan"
  BY <1>2, <1>6, <1>11, <1>14
<1>19. pos' + verdict'.scanned + 1 = Asked'
  BY <1>1, <1>2, <1>3 DEF Asked
<1> QED BY <1>1, <1>2, <1>15, <1>17, <1>18, <1>19 DEF ShapeInv, NothingRefused

LEMMA ShapeScan ==
  ASSUME TypeInv, ShapeInv, ScanNode
  PROVE  ShapeInv'
<1> DEFINE i == verdict.scanned + 1
<1>1. /\ pc = "scan" /\ verdict.scanned \in Nat /\ i \in 1..Len(path) /\ root' \in Token
      /\ UNCHANGED << mem, prompt, pos, path >>
      /\ verdict'.scanned = i
      /\ \/ /\ emitted' = emitted /\ pc' = "commit" /\ verdict'.alternate = 0
            /\ verdict'.stopped => root' \in Stop
         \/ /\ emitted' = Append(emitted, root') /\ ~verdict'.stopped
            /\ \/ pc' = "scan"
               \/ pc' = "commit" /\ verdict'.alternate \in NodeIds
  BY ScanFacts
<1>2. /\ PathInv /\ pos + verdict.scanned + 1 = Len(prompt) + Len(emitted)
      /\ Len(prompt) + Predict <= Context /\ ~mem.hist.capturing
  BY <1>1 DEF ShapeInv, Asked
<1>3. /\ Len(prompt) \in Nat /\ Len(emitted) \in Nat /\ emitted \in Seq(Token) /\ pos \in Nat
  BY LenProperties DEF TypeInv, TypeOK
<1>4. PathInv'
  BY <1>1, <1>2 DEF PathInv
<1>5. pos + i = Len(prompt) + Len(emitted)
  BY <1>1, <1>2, <1>3
<1> HIDE DEF i
<1>6. CASE /\ emitted' = emitted /\ pc' = "commit" /\ verdict'.alternate = 0
           /\ verdict'.stopped => root' \in Stop
  <2>1. pos' + verdict'.scanned = Asked' - (IF verdict'.alternate = 0 THEN 0 ELSE 1)
    BY <1>1, <1>3, <1>5, <1>6 DEF Asked
  <2>2. verdict'.scanned \in 1..Len(path')
    BY <1>1
  <2>3. Stop' = Stop
    BY DEF Stop
  <2> HIDE DEF Stop
  <2> QED BY <1>1, <1>2, <1>4, <1>6, <2>1, <2>2, <2>3 DEF ShapeInv, NothingRefused
<1>7. CASE emitted' = Append(emitted, root') /\ ~verdict'.stopped
  <2>1. Len(emitted') = Len(emitted) + 1
    BY <1>1, <1>3, <1>7, AppendProperties
  <2>2. CASE pc' = "scan"
    <3>1. pos' + verdict'.scanned + 1 = Asked'
      BY <1>1, <1>3, <1>5, <2>1 DEF Asked, i
    <3> QED BY <1>1, <1>2, <1>4, <2>2, <3>1 DEF ShapeInv, NothingRefused
  <2>3. CASE pc' = "commit" /\ verdict'.alternate \in NodeIds
    <3>1. verdict'.alternate # 0
      BY <2>3 DEF NodeIds
    <3>2. pos' + verdict'.scanned = Asked' - (IF verdict'.alternate = 0 THEN 0 ELSE 1)
      BY <1>1, <1>3, <1>5, <2>1, <3>1 DEF Asked, i
    <3>3. verdict'.scanned \in 1..Len(path')
      BY <1>1
    <3> QED BY <1>1, <1>2, <1>4, <1>7, <2>3, <3>2, <3>3 DEF ShapeInv, NothingRefused
  <2>4. CASE emitted' = emitted
    BY <1>3, <2>1, <2>4
  <2> QED BY <1>1, <2>2, <2>3, <2>4
<1> QED BY <1>1, <1>6, <1>7

LEMMA CommitAligned ==
  ASSUME TypeInv, ShapeInv, pc = "commit"
  PROVE  LET c == CommitTo(mem, verdict.scanned)
         IN  /\ CommitAccepted(mem, verdict.scanned) /\ Aligned(c, c.rec.toks)
             /\ Len(c.rec.toks) = pos + verdict.scanned /\ ~c.hist.capturing
<1> DEFINE n == verdict.scanned
           r == mem.rec.toks
           k == pos + n
           c == CommitTo(mem, n)
<1>1. /\ TypeOK /\ PathInv /\ n \in 1..Len(path) /\ mem \in Memory /\ ~mem.hist.capturing
  BY DEF ShapeInv, TypeInv, TypeOK
<1>2. r \in Seq(Token) /\ pos \in Nat /\ n \in Nat /\ Len(path) \in Nat /\ n >= 1
  BY <1>1, LenProperties DEF TypeOK, Memory, Rec
<1>3. /\ Aligned(mem, r) /\ Len(r) = pos + Len(path) /\ mem.hist.first = pos
      /\ mem.hist.tokens = Len(path) /\ mem.hist.valid
  BY <1>1 DEF PathInv
<1>4. k \in 0..Len(r) /\ k \in Nat
  BY <1>1, <1>2, <1>3
<1>5. CommitAccepted(mem, n)
  <2>1. mem.rec.pos = Len(r) - 1
    BY <1>3 DEF Aligned
  <2> HIDE DEF n
  <2> QED BY <1>1, <1>2, <1>3, <2>1 DEF CommitAccepted, LastCaptured
<1>6. /\ CommittedRec(mem, n).pos = k - 1
      /\ CommittedRec(mem, n).toks = SubSeq(r, 1, k)
  <2>1. CASE Len(path) = 1
    <3>1. n = 1 /\ k = Len(r)
      BY <1>1, <1>2, <1>3, <2>1
    <3>2. SubSeq(r, 1, k) = r
      BY <1>2, <3>1, SubSeqFull
    <3>3. CommittedRec(mem, n) = mem.rec
      BY <1>3, <2>1 DEF CommittedRec
    <3>4. mem.rec.pos = Len(r) - 1
      BY <1>3 DEF Aligned
    <3> QED BY <3>1, <3>2, <3>3, <3>4
  <2>2. CASE Len(path) # 1
    <3>1. Len(path) > 1
      <4> DEFINE l == Len(path)
      <4>1. l \in Nat /\ n \in Nat /\ n \in 1..l /\ l # 1
        BY <1>1, <1>2, <2>2
      <4> HIDE DEF l, n
      <4>2. l > 1
        BY <4>1
      <4> QED BY <4>2 DEF l
    <3>2. mem.rows[n].toks = SubSeq(r, 1, k)
      BY <1>1, <3>1 DEF PathInv
    <3>3. /\ CommittedRec(mem, n).toks = mem.rows[n].toks
          /\ CommittedRec(mem, n).pos = pos + n - 1
      BY <1>3, <2>2 DEF CommittedRec
    <3> QED BY <1>2, <3>2, <3>3
  <2> QED BY <2>1, <2>2
<1>7. c \in Memory
  BY <1>1, <1>2, CommitType
<1>8. /\ c.rec = CommittedRec(mem, n)
      /\ c.attn = AttnTrim(mem.attn, CommittedRec(mem, n).pos + 1)
  BY <1>5 DEF CommitTo
<1>9. c.hist = [mem.hist EXCEPT !.valid = FALSE]
  BY <1>5 DEF CommitTo
<1>10. ~c.hist.capturing
  BY <1>1, <1>9 DEF Memory, Hist
<1>11. CommittedRec(mem, n).pos + 1 = k
  BY <1>2, <1>6
<1> HIDE DEF c, k, r
<1>12. Aligned(c, SubSeq(r, 1, k))
  BY <1>1, <1>2, <1>3, <1>4, <1>6, <1>7, <1>8, <1>11, TrimAligned
<1>13. Len(SubSeq(r, 1, k)) = k
  BY <1>2, <1>4, PrefixLen
<1>14. Aligned(c, c.rec.toks) /\ Len(c.rec.toks) = k
  BY <1>6, <1>8, <1>12, <1>13
<1> QED BY <1>5, <1>10, <1>14 DEF c, k

LEMMA ShapeCommit ==
  ASSUME TypeInv, ShapeInv, CommitAndSwitch \/ CommitAndEnd
  PROVE  ShapeInv'
<1>1. /\ pc = "commit" /\ mem' = CommitTo(mem, verdict.scanned)
      /\ pos' = pos + verdict.scanned /\ UNCHANGED << prompt, emitted, root >>
  BY DEF CommitAndSwitch, CommitAndEnd
<1>2. /\ CommitAccepted(mem, verdict.scanned) /\ Aligned(mem', mem'.rec.toks)
      /\ Len(mem'.rec.toks) = pos + verdict.scanned /\ ~mem'.hist.capturing
  BY <1>1, CommitAligned
<1>3. /\ Len(prompt) + Predict <= Context
      /\ pos + verdict.scanned = Asked - (IF verdict.alternate = 0 THEN 0 ELSE 1)
  BY <1>1 DEF ShapeInv
<1>4. IdleInv'
  BY <1>1, <1>2 DEF IdleInv
<1>5. Asked \in Int /\ Len(emitted) \in Nat /\ Predict \in Nat
  BY LenProperties, Options DEF TypeInv, TypeOK, Asked
<1>6. Asked' = Asked
  BY <1>1 DEF Asked
<1> HIDE DEF Asked
<1>7. CASE CommitAndSwitch
  <2>1. pc' = "path" /\ verdict.alternate # 0
    BY <1>2, <1>7 DEF CommitAndSwitch, NextPath
  <2>2. pos' + 1 = Asked'
    BY <1>1, <1>3, <1>5, <1>6, <2>1
  <2> QED BY <1>1, <1>2, <1>3, <1>4, <2>1, <2>2 DEF ShapeInv, NothingRefused
<1>8. CASE CommitAndEnd
  <2>1. pc' = (IF verdict.stopped THEN "done" ELSE "loop") /\ ~NextPath
    BY <1>2, <1>8 DEF CommitAndEnd
  <2>2. CASE verdict.stopped
    <3>1. pc' = "done"
      BY <2>1, <2>2
    <3> QED BY <3>1 DEF ShapeInv, NothingRefused
  <2>3. CASE ~verdict.stopped
    <3>1. pc' = "loop"
      BY <2>1, <2>3
    <3>2. Len(emitted) < Predict => verdict.alternate = 0
      BY <2>1, <2>3 DEF NextPath
    <3>3. Len(emitted') < Predict => pos' = Asked'
      BY <1>1, <1>3, <1>5, <1>6, <3>2
    <3> QED BY <1>1, <1>2, <1>3, <1>4, <3>1, <3>3 DEF ShapeInv, NothingRefused
  <2> QED BY <2>2, <2>3
<1> QED BY <1>7, <1>8

-----------------------------------------------------------------------------
(***************************************************************************)
(* The invariance, and what it says about the calls.                       *)
(***************************************************************************)
LEMMA ShapeStutter ==
  ASSUME ShapeInv, UNCHANGED vars
  PROVE  ShapeInv'
<1>1. UNCHANGED << pc, mem, prompt, off, emitted, pos, root, prefix, tree, stack, path, verdict >>
  BY DEF vars
<1>2. IdleInv' = IdleInv /\ Asked' = Asked
  BY <1>1 DEF IdleInv, Asked
<1>3. BranchInv' = BranchInv
  BY <1>1 DEF BranchInv, Branch, Top
<1>4. PathInv' = PathInv
  BY <1>1 DEF PathInv
<1>5. Stop' = Stop
  BY DEF Stop
<1> HIDE DEF Stop
<1> QED BY <1>1, <1>2, <1>3, <1>4, <1>5 DEF ShapeInv, NothingRefused

LEMMA ShapeInvStep ==
  ASSUME ProbeFits, TypeInv, StackInv, LevelInv, CountInv, ShapeInv, [Next]_vars
  PROVE  ShapeInv'
BY ShapeStart, ShapePrefill, ShapeSequential, ShapeAr, ShapeStartRound, ShapeLeave,
   ShapeExpand, ShapeVisit, ShapeEndDraft, ShapeVerify, ShapeScan, ShapeCommit, ShapeStutter
   DEF Next, Generate, Speculate, Terminated

LEMMA ShapeInvInit == Init => ShapeInv
<1> SUFFICES ASSUME Init PROVE ShapeInv
  OBVIOUS
<1>1. /\ pc = "start" /\ mem = FreshMemory /\ off = 0 /\ emitted = << >> /\ pos = Len(prompt)
      /\ prompt # << >>
  BY DriverAssumption DEF Init
<1> QED BY <1>1 DEF ShapeInv, NothingRefused

(* The invariant of all calls of generate(), for every draft, every pruning  *)
(* and with or without expert reuse.                                         *)
THEOREM CallsInvariance ==
  ASSUME ProbeFits
  PROVE  Spec => [](TypeInv /\ CallsInv)
<1> DEFINE Inv == TypeInv /\ CallsInv
<1>1. Init => Inv
  BY TypeInvInit, StackInvInit, LevelInvInit, CountInvInit, ShapeInvInit DEF CallsInv
<1>2. Inv /\ [Next]_vars => Inv'
  BY TypeInvStep, StackInvStep, LevelInvStep, CountInvStep, ShapeInvStep DEF CallsInv
<1> QED BY <1>1, <1>2, PTL DEF Spec

(* No memory call of generate() is refused: positions stay consecutive and   *)
(* inside the context, every path fits the reserved history, every snapshot  *)
(* can be restored and every accepted prefix committed.                      *)
THEOREM CallsAccepted ==
  ASSUME ProbeFits
  PROVE  Spec => []NothingRefused
<1>1. TypeInv /\ CallsInv => NothingRefused
  BY DEF CallsInv, ShapeInv
<1> QED BY <1>1, CallsInvariance, PTL

(* expand() always evaluates a node on its own branch, whatever the draft    *)
(* proposed before and however often the fork snapshots were restored.       *)
THEOREM DraftOnBranch ==
  ASSUME ProbeFits
  PROVE  Spec => []DraftAligned
<1>1. TypeInv /\ CallsInv => DraftAligned
  <2> SUFFICES ASSUME TypeInv, CallsInv, pc = "draft", stack # << >>, Top.child = 0
               PROVE  LET expected == prefix.rec.toks \o
                            [k \in 1..(Len(stack) - 1) |-> tree[stack[k].node].tok]
                      IN  /\ mem.rec.toks = expected
                          /\ \A p \in Positions :
                               IF p < Len(expected)
                               THEN Len(mem.attn[p]) = 1 /\ mem.attn[p][1].tok = expected[p + 1]
                               ELSE mem.attn[p] = << >>
    BY DEF DraftAligned
  <2> DEFINE b == Branch(Len(stack) - 1)
  <2>1. Aligned(mem, b)
    BY DEF CallsInv, ShapeInv, BranchInv
  <2>2. b = prefix.rec.toks \o [k \in 1..(Len(stack) - 1) |-> tree[stack[k].node].tok]
    BY DEF Branch, BranchOf
  <2>3. b \in Seq(Token)
    <3>1. TypeOK
      BY DEF TypeInv
    <3>2. Len(stack) - 1 \in 0..Len(stack)
      BY <3>1, StackTop
    <3> QED BY <3>1, <3>2, BranchFacts
  <2>4. Len(b) \in Nat
    BY <2>3, LenProperties
  <2> HIDE DEF b
  <2>5. ASSUME NEW p \in Positions
        PROVE  IF p < Len(b) THEN Len(mem.attn[p]) = 1 /\ mem.attn[p][1].tok = b[p + 1]
               ELSE mem.attn[p] = << >>
    <3>1. CASE p < Len(b)
      BY <2>1, <3>1 DEF Aligned, HoldsBelow, HoldsToken
    <3>2. CASE ~(p < Len(b))
      BY <2>1, <2>4, <3>2 DEF Aligned, Positions
    <3> QED BY <3>1, <3>2
  <2>6. mem.rec.toks = b
    BY <2>1 DEF Aligned
  <2> QED BY <2>2, <2>5, <2>6
<1> QED BY <1>1, CallsInvariance, PTL

-----------------------------------------------------------------------------
(* Every write to the shared memory is at or behind pos.                     *)
LEMMA DraftSpares ==
  ASSUME TypeInv, CallsInv, NEW p \in Positions, p < pos,
         StartRound \/ SkipNode \/ Expand \/ VisitChild \/ LeaveNode \/ EndDraft
  PROVE  mem'.attn[p] = mem.attn[p]
<1>1. /\ TypeOK /\ StackInv /\ mem \in Memory /\ pos \in Nat /\ p \in Nat
  BY DEF TypeInv, TypeOK, CallsInv, Positions
<1>2. CASE StartRound \/ SkipNode \/ LeaveNode
  BY <1>2 DEF StartRound, SkipNode, LeaveNode
<1>3. CASE Expand
  <2>1. \E sel \in Seq(Token) : Expanded(sel)
    BY <1>1, <1>3, ExpandFacts
  <2>2. stack # << >> /\ mem' = DecodeTo(mem, "draft", << tree[Top.node].tok >>, pos + Top.depth)
    BY <2>1 DEF Expanded
  <2>3. Top.depth \in Nat /\ Top.node \in NodeIds
    BY <1>1, <2>2, StackTop
  <2>4. tree[Top.node] \in Node
    BY <1>1, <2>3, ElementOfSeq DEF TypeOK, NodeIds
  <2>5. << tree[Top.node].tok >> \in Seq(Token)
    BY <2>4, OneToken DEF Node
  <2>6. pos + Top.depth \in Int /\ p < pos + Top.depth
    BY <1>1, <2>3
  <2> QED BY <1>1, <2>2, <2>5, <2>6, DecodeSpares
<1>4. CASE VisitChild
  <2>1. /\ pc = "draft" /\ stack # << >> /\ Top.child \in 1..Len(Top.kids)
        /\ mem' = (IF Top.child > 1 THEN RestoreTo(mem, Top.snap) ELSE mem)
    BY <1>4 DEF VisitChild
  <2>2. CASE ~(Top.child > 1)
    BY <2>1, <2>2
  <2>3. CASE Top.child > 1
    <3>1. /\ Len(stack) \in Nat \ {0} /\ Len(stack) \in 1..Len(stack)
          /\ Top = stack[Len(stack)] /\ Top.snap \in Snap /\ Len(Top.kids) \in Nat
          /\ Top.child \in Nat
      BY <1>1, <2>1, StackTop
    <3>2. Top.child > 0 /\ Len(Top.kids) > 1
      BY <2>1, <2>3, <3>1
    <3>3. Top.snap.first = pos + Len(stack)
      BY <2>1, <3>1, <3>2 DEF CallsInv, ShapeInv, BranchInv
    <3>4. p < Top.snap.first
      BY <1>1, <3>1, <3>3
    <3> QED BY <1>1, <2>1, <2>3, <3>1, <3>4, RestoreSpares
  <2> QED BY <2>2, <2>3
<1>5. CASE EndDraft
  <2>1. BranchInv /\ mem' = RestoreTo(mem, prefix)
    BY <1>5 DEF EndDraft, CallsInv, ShapeInv
  <2>2. prefix.first = pos /\ prefix \in Snap
    BY <1>1, <2>1, BranchOpen
  <2> QED BY <1>1, <2>1, <2>2, RestoreSpares
<1> QED BY <1>2, <1>3, <1>4, <1>5

LEMMA ArSpares ==
  ASSUME TypeInv, CallsInv, NEW p \in Positions, p < pos, ArProbe \/ ArStep
  PROVE  mem'.attn[p] = mem.attn[p]
<1>1. /\ TypeOK /\ mem \in Memory /\ pos \in Nat /\ pos \in Int /\ root \in Token
      /\ pc \in {"rooted", "ar"}
  BY DEF TypeInv, TypeOK, ArProbe, ArStep
<1>2. IdleInv
  BY <1>1 DEF CallsInv, ShapeInv
<1>3. /\ mem.rec.toks \in Seq(Token) /\ Aligned(mem, mem.rec.toks) /\ pos = Len(mem.rec.toks)
  BY <1>1, <1>2, IdleFacts
<1>4. << root >> \in Seq(Token)
  BY <1>1, OneToken
<1>5. CASE ArStep
  <2>1. mem' = DecodeTo(mem, "target", << root >>, pos)
    BY <1>5 DEF ArStep
  <2> QED BY <1>1, <1>4, <2>1, DecodeSpares
<1>6. CASE ArProbe
  <2> DEFINE saved == SnapshotOf(mem)
             m1 == DecodeTo(mem, "target", << root >>, pos)
             m2 == RestoreTo(m1, saved)
  <2>1. PICK single \in Token :
          mem' = RestoreTo(DecodeTo(m2, "target", << root, single >>, pos), saved)
    BY <1>6 DEF ArProbe
  <2> DEFINE pair == << root, single >>
             m3 == DecodeTo(m2, "target", pair, pos)
  <2>2. saved \in Snap /\ saved.first = pos /\ pair \in Seq(Token)
    BY <1>1, <1>3, SnapshotType, SnapshotAligned
  <2> HIDE DEF saved, pair
  <2>3. m1 \in Memory /\ m1.attn[p] = mem.attn[p]
    BY ZenonT(60), <1>1, <1>4, DecodeType, DecodeSpares
  <2> HIDE DEF m1
  <2>4. m2 \in Memory /\ m2.attn[p] = m1.attn[p]
    BY <2>2, <2>3, RestoreType, RestoreSpares
  <2> HIDE DEF m2
  <2>5. m3 \in Memory /\ m3.attn[p] = m2.attn[p]
    BY <1>1, <2>2, <2>4, DecodeType, DecodeSpares
  <2>6. mem' = RestoreTo(m3, saved)
    BY <2>1 DEF pair
  <2> HIDE DEF m3
  <2>7. mem'.attn[p] = m3.attn[p]
    BY <2>2, <2>5, <2>6, RestoreSpares
  <2> QED BY <2>3, <2>4, <2>5, <2>7
<1> QED BY <1>5, <1>6

LEMMA VerifySpares ==
  ASSUME TypeInv, CallsInv, NEW p \in Positions, p < pos,
         Verify \/ CommitAndSwitch \/ CommitAndEnd
  PROVE  mem'.attn[p] = mem.attn[p]
<1>1. /\ TypeOK /\ mem \in Memory /\ pos \in Nat /\ pos \in Int /\ p \in Nat
  BY DEF TypeInv, TypeOK, Positions
<1>2. CASE Verify
  <2> DEFINE m1 == BeginTo(mem, pos, Len(path))
             m2 == DecodeTo(m1, VerifyEngine, PathTokens, pos)
  <2>1. mem' = FinishTo(m2)
    BY <1>2 DEF Verify
  <2>2. PathTokens \in Seq(Token) /\ Len(path) \in Int
    <3>1. path \in Seq(NodeIds)
      BY <1>1 DEF TypeOK
    <3>2. Len(path) \in Nat
      BY <3>1, LenProperties
    <3> QED BY <1>1, <3>2, PathTokensType
  <2>3. m1 \in Memory
    BY <1>1, <2>2, HistoryTypes
  <2>4. m1.attn = mem.attn
    BY <1>1 DEF BeginTo, Memory
  <2> HIDE DEF m1
  <2>5. m2 \in Memory /\ m2.attn[p] = m1.attn[p]
    BY <1>1, <2>2, <2>3, DecodeType, DecodeSpares
  <2> HIDE DEF m2
  <2>6. FinishTo(m2).attn = m2.attn
    BY <2>5 DEF FinishTo, Memory
  <2> QED BY <2>1, <2>4, <2>5, <2>6
<1>3. CASE CommitAndSwitch \/ CommitAndEnd
  <2> DEFINE n == verdict.scanned
             r == CommittedRec(mem, n)
  <2>1. mem' = CommitTo(mem, n) /\ pc = "commit"
    BY <1>3 DEF CommitAndSwitch, CommitAndEnd
  <2>2. /\ PathInv /\ n \in 1..Len(path) /\ n \in Nat /\ Len(path) \in Nat
    BY <1>1, <2>1, LenProperties DEF CallsInv, ShapeInv, TypeOK
  <2>3. /\ CommitAccepted(mem, n) /\ Len(mem'.rec.toks) = pos + n
        /\ Aligned(mem', mem'.rec.toks)
    BY <2>1, CommitAligned DEF CallsInv
  <2>4. mem'.rec = r /\ mem'.attn = AttnTrim(mem.attn, r.pos + 1)
    BY <2>1, <2>3 DEF CommitTo
  <2>5. r.pos = pos + n - 1
    <3>1. mem'.rec.pos = Len(mem'.rec.toks) - 1
      BY <2>3 DEF Aligned
    <3> HIDE DEF n, r
    <3> QED BY <1>1, <2>2, <2>3, <2>4, <3>1
  <2> HIDE DEF n, r
  <2>6. ~(p >= r.pos + 1)
    BY <1>1, <2>2, <2>5
  <2> QED BY <2>4, <2>6 DEF AttnTrim
<1> QED BY <1>2, <1>3

(* Accepted prefixes are not replayed: no step after the prefill touches an  *)
(* attention cell in front of pos.                                           *)
THEOREM CommittedCellsKept ==
  ASSUME ProbeFits
  PROVE  Spec => CommittedCellsStable
<1> DEFINE A == \A p \in Positions :
                  p < pos /\ pc \notin {"start", "prefill"} => mem'.attn[p] = mem.attn[p]
<1>1. TypeInv /\ CallsInv /\ [Next]_vars => [A]_vars
  <2> SUFFICES ASSUME TypeInv, CallsInv, Next, NEW p \in Positions, p < pos,
                      pc \notin {"start", "prefill"}
               PROVE  mem'.attn[p] = mem.attn[p]
    OBVIOUS
  <2>1. CASE \/ EmitRoot \/ LoopEnds \/ ExtendPath \/ ScanNode \/ Throws \/ Terminated
    BY <2>1 DEF EmitRoot, LoopEnds, ExtendPath, ScanNode, Throws, Terminated, vars
  <2>2. CASE Start \/ Prefill \/ FirstRoot
    BY <2>2 DEF Start, Prefill, FirstRoot
  <2> QED BY <2>1, <2>2, DraftSpares, ArSpares, VerifySpares DEF Next, Generate, Speculate
<1> QED BY <1>1, CallsInvariance, PTL DEF Spec, CommittedCellsStable

-----------------------------------------------------------------------------
(***************************************************************************)
(* The driver as plain greedy decoding: what the output sees of each step. *)
(***************************************************************************)

(* A round that stops has met a stop token. *)
StopInv == pc = "commit" /\ verdict.stopped => root \in Stop

LEMMA StopInvStep ==
  ASSUME TypeInv, StopInv, [Next]_vars
  PROVE  StopInv'
<1>1. CASE ScanNode
  BY <1>1 DEF ScanNode, StopInv
<1>2. CASE UNCHANGED vars
  BY <1>2 DEF vars, StopInv, Stop
<1>3. CASE Next /\ ~ScanNode
  <2>1. pc' # "commit" \/ UNCHANGED vars
    BY <1>3 DEF Next, Generate, Speculate, Start, Prefill, FirstRoot, EmitRoot, LoopEnds, ArProbe,
       ArStep, StartRound, SkipNode, Expand, VisitChild, LeaveNode, EndDraft, ExtendPath,
       Verify, CommitAndSwitch, CommitAndEnd, Throws, Terminated
  <2> QED BY <1>2, <2>1 DEF StopInv
<1> QED BY <1>1, <1>2, <1>3

(* Steps that write nothing and do not end the output. *)
LEMMA SilentStep ==
  ASSUME Next, ~EmitRoot, ~LoopEnds, ~ScanNode, ~CommitAndEnd
  PROVE  UNCHANGED << prompt, emitted >> /\ (pc' = "done" <=> pc = "done")
<1>1. CASE Start \/ Prefill \/ FirstRoot \/ ArProbe \/ ArStep
  BY <1>1 DEF Start, Prefill, FirstRoot, ArProbe, ArStep
<1>2. CASE StartRound \/ SkipNode \/ Expand \/ VisitChild \/ LeaveNode \/ EndDraft
  BY <1>2 DEF StartRound, SkipNode, Expand, VisitChild, LeaveNode, EndDraft
<1>3. CASE ExtendPath \/ Verify \/ CommitAndSwitch \/ Throws \/ Terminated
  BY <1>3 DEF ExtendPath, Verify, CommitAndSwitch, Throws, Terminated, vars
<1> QED BY <1>1, <1>2, <1>3 DEF Next, Generate, Speculate

(* A scanned token that is taken is the greedy choice after what is written. *)
LEMMA ScanWrites ==
  ASSUME IInv, CountInv', ScanNode
  PROVE  /\ pc = "scan" /\ pc' # "done" /\ prompt' = prompt
         /\ \/ emitted' = emitted
            \/ /\ emitted' = Append(emitted, Greedy(Written))
               /\ Greedy(Written) \notin Stop
               /\ Len(emitted) < Predict
<1> DEFINE i == verdict.scanned + 1
           match == Matching(path[i], root')
           taken == match # 0 /\ root' \notin Stop
<1>1. /\ TypeInv /\ TypeOK /\ ScanInv /\ VerifiedInv /\ verdict.scanned < Len(path)
      /\ pos \in Nat /\ verdict.scanned \in Nat /\ path \in Seq(NodeIds)
      /\ emitted \in Seq(Token) /\ Len(emitted) \in Nat
  BY LenProperties DEF IInv, ExactInv, ScanNode, TypeInv, TypeOK, WalkInv, ScanInv
<1>2. /\ pc = "scan" /\ pc' # "done" /\ prompt' = prompt
      /\ root' \in Token /\ GreedyChoice(out[i], root')
      /\ emitted' = IF taken THEN Append(emitted, root') ELSE emitted
  BY DEF ScanNode, Row
<1>3. i \in 1..Len(path) /\ pos + verdict.scanned + 1 = pos + i
  BY <1>1, LenProperties
<1>4. out[i] = ExactState(mem.rec.toks, pos + i) /\ Written = SubSeq(mem.rec.toks, 1, pos + i)
  BY <1>1, <1>3 DEF VerifiedInv, ScanInv
<1>5. root' = Greedy(Written)
  BY <1>2, <1>4 DEF GreedyChoice, ExactState
<1> HIDE DEF i, match
<1>6. CASE taken
  <2>1. emitted' = Append(emitted, root') /\ root' \notin Stop
    BY <1>2, <1>6
  <2>2. Len(emitted') = Len(emitted) + 1
    BY <1>1, <1>2, <2>1, AppendProperties
  <2>3. Len(emitted') <= Predict
    BY DEF CountInv
  <2> QED BY <1>1, <1>2, <1>5, <2>1, <2>2, <2>3, Options
<1>7. CASE ~taken
  BY <1>2, <1>7
<1> QED BY <1>6, <1>7

(* Without expert reuse the speculative driver implements greedy decoding,   *)
(* one token at a time: drafts, trees, paths, snapshots and commits are      *)
(* invisible in the output, and generate() reports the end only where the    *)
(* plain loop would have stopped.                                            *)
THEOREM ImplementsGreedy ==
  ASSUME ~Reuse
  PROVE  Spec => GreedyDecoding
<1> DEFINE Inv == IInv /\ StackInv /\ LevelInv /\ CountInv /\ StopInv
<1>1. Init => Inv
  <2>1. Init => IInv /\ StopInv
    BY TypeInvInit, ExactInvInit DEF IInv, Init, StopInv
  <2> QED BY <2>1, StackInvInit, LevelInvInit, CountInvInit
<1>2. Inv /\ [Next]_vars => Inv'
  <2> SUFFICES ASSUME Inv, [Next]_vars PROVE Inv'
    OBVIOUS
  <2>1. IInv' /\ TypeInv
    BY IInvStep DEF IInv
  <2> QED BY <2>1, StackInvStep, LevelInvStep, CountInvStep, StopInvStep
<1>3. Init => AR!Init
  BY DEF Init, AR!Init
<1>4. Inv /\ Inv' /\ [Next]_vars => [AR!Next]_(AR!vars)
  <2> SUFFICES ASSUME Inv, Inv', [Next]_vars PROVE [AR!Next]_(AR!vars)
    OBVIOUS
  <2>1. /\ TypeInv /\ Len(emitted) \in Nat /\ Len(emitted) <= Predict /\ Predict \in Nat
        /\ Written = prompt \o emitted
    BY LenProperties, Options DEF IInv, TypeInv, TypeOK, CountInv, Written
  <2>2. CASE EmitRoot
    <3>1. /\ LoopInv /\ pc = "loop" /\ pc' = "rooted" /\ root \notin Stop
          /\ Len(emitted) < Predict /\ emitted' = Append(emitted, root) /\ prompt' = prompt
      BY <2>2 DEF EmitRoot, IInv, ExactInv
    <3>2. root = Greedy(prompt \o emitted)
      BY <2>1, <3>1 DEF LoopInv
    <3>3. AR!Emit
      BY <3>1, <3>2 DEF AR!Emit
    <3> QED BY <3>3 DEF AR!Next
  <2>3. CASE ScanNode
    <3>1. /\ pc = "scan" /\ pc' # "done" /\ prompt' = prompt
          /\ \/ emitted' = emitted
             \/ /\ emitted' = Append(emitted, Greedy(Written))
                /\ Greedy(Written) \notin Stop
                /\ Len(emitted) < Predict
      BY <2>3, ScanWrites
    <3>2. CASE emitted' = emitted
      BY <3>1, <3>2 DEF AR!vars
    <3>3. CASE emitted' # emitted
      BY <2>1, <3>1, <3>3 DEF AR!Next, AR!Emit
    <3> QED BY <3>2, <3>3
  <2>4. CASE LoopEnds
    <3>1. /\ pc # "done" /\ pc' = "done" /\ UNCHANGED << prompt, emitted >>
          /\ \/ Len(emitted) >= Predict
             \/ pc = "loop" /\ root \in Stop
      BY <2>1, <2>4 DEF LoopEnds
    <3>2. Len(emitted) = Predict \/ Greedy(prompt \o emitted) \in Stop
      <4>1. CASE Len(emitted) >= Predict
        BY <2>1, <4>1
      <4>2. CASE ~(Len(emitted) >= Predict)
        <5>1. Len(emitted) < Predict /\ pc = "loop" /\ root \in Stop
          BY <2>1, <3>1, <4>2
        <5>2. root = Greedy(Written)
          BY <5>1 DEF IInv, ExactInv, LoopInv
        <5> QED BY <2>1, <5>1, <5>2
      <4> QED BY <4>1, <4>2
    <3>3. AR!Finish
      BY <3>1, <3>2 DEF AR!Finish
    <3> QED BY <3>3 DEF AR!Next
  <2>5. CASE CommitAndEnd
    <3>1. /\ pc = "commit" /\ UNCHANGED << prompt, emitted >> /\ CommitInv
          /\ pc' = "done" => verdict.stopped
      BY <2>5 DEF CommitAndEnd, IInv, ExactInv
    <3>2. CASE pc' = "done"
      <4>1. verdict.stopped /\ verdict.alternate = 0 /\ root \in Stop
        BY <3>1, <3>2 DEF CommitInv, StopInv
      <4>2. root = Greedy(Written)
        BY <3>1, <4>1 DEF CommitInv
      <4>3. AR!Finish
        BY <2>1, <3>1, <3>2, <4>1, <4>2 DEF AR!Finish
      <4> QED BY <4>3 DEF AR!Next
    <3>3. CASE pc' # "done"
      BY <3>1, <3>3 DEF AR!vars
    <3> QED BY <3>2, <3>3
  <2>6. CASE Next /\ ~EmitRoot /\ ~LoopEnds /\ ~ScanNode /\ ~CommitAndEnd
    <3>1. UNCHANGED << prompt, emitted >> /\ (pc' = "done" <=> pc = "done")
      BY <2>6, SilentStep
    <3> QED BY <3>1 DEF AR!vars
  <2>7. CASE UNCHANGED vars
    BY <2>7 DEF vars, AR!vars
  <2> QED BY <2>2, <2>3, <2>4, <2>5, <2>6, <2>7
<1> QED BY <1>1, <1>2, <1>3, <1>4, PTL DEF Spec, GreedyDecoding, AR!Spec
=============================================================================
