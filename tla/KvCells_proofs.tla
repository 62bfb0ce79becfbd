--------------------------- MODULE KvCells_proofs ---------------------------
(***************************************************************************)
(* The search of llama_kv_cache::find_slot() on the cell table, for every  *)
(* size of the cache, number of sequences, window and order of calls: it   *)
(* finds a slot exactly if there is one.                                   *)
(***************************************************************************)
EXTENDS KvCells, FiniteSetTheorems, FunctionTheorems, SequenceTheorems,
        WellFoundedInduction, TLAPS

(***************************************************************************)
(* Induction on the natural numbers, on sets of them; least elements.      *)
(***************************************************************************)
LEMMA Counting ==
  ASSUME NEW T \in SUBSET Nat, 0 \in T, \A n \in T : n + 1 \in T
  PROVE  \A n \in Nat : n \in T
<1> SUFFICES ASSUME NEW n \in Nat, n \notin T PROVE FALSE
  OBVIOUS
<1> DEFINE U == Nat \ T
<1>1. PICK x \in U : \A y \in U : ~(<< y, x >> \in OpToRel(<, Nat))
  <2>1. U # {} /\ U \subseteq Nat
    OBVIOUS
  <2> HIDE DEF U
  <2> QED BY <2>1, NatLessThanWellFounded, WFMin
<1>2. x \in Nat /\ x # 0
  OBVIOUS
<1>3. x - 1 \in Nat /\ x - 1 < x /\ (x - 1) + 1 = x
  BY <1>2
<1>4. x - 1 \notin U
  BY <1>1, <1>2, <1>3 DEF OpToRel
<1> QED BY <1>3, <1>4

LEMMA CountingTo ==
  ASSUME NEW n \in Nat, NEW T \in SUBSET Nat, 0 \in T,
         \A k \in T : k < n => k + 1 \in T
  PROVE  \A k \in 0..n : k \in T
<1> DEFINE U == {k \in Nat : k <= n => k \in T}
<1>1. U \in SUBSET Nat /\ 0 \in U
  OBVIOUS
<1>2. ASSUME NEW k \in U PROVE k + 1 \in U
  <2>1. k \in Nat /\ k + 1 \in Nat
    OBVIOUS
  <2>2. CASE k + 1 <= n
    <3>1. k \in T /\ k < n
      BY <2>1, <2>2
    <3> QED BY <2>1, <3>1
  <2> QED BY <2>1, <2>2
<1> HIDE DEF U
<1>3. \A k \in Nat : k \in U
  BY <1>1, <1>2, Counting
<1> QED BY <1>3 DEF U

LEMMA LeastIs ==
  ASSUME NEW S \in SUBSET Nat, S # {}
  PROVE  Least(S) \in S /\ \A y \in S : Least(S) <= y
<1>1. PICK x \in S : \A y \in S : ~(<< y, x >> \in OpToRel(<, Nat))
  BY NatLessThanWellFounded, WFMin
<1>2. ASSUME NEW y \in S PROVE x <= y
  <2>1. x \in Nat /\ y \in Nat
    BY <1>1
  <2>2. ~(y < x)
    BY <1>1, <2>1 DEF OpToRel
  <2> QED BY <2>1, <2>2
<1> QED BY <1>2 DEF Least

-----------------------------------------------------------------------------
(***************************************************************************)
(* Cells gathered one by one: each cell of W once.                         *)
(***************************************************************************)
Gathered(q, W) ==
  /\ q \in Seq(W)
  /\ \A i, j \in 1..Len(q) : q[i] = q[j] => i = j
  /\ \A x \in W : \E i \in 1..Len(q) : q[i] = x

LEMMA GatheredNone == Gathered(<< >>, {})
BY DEF Gathered

LEMMA GatheredOne ==
  ASSUME NEW q, NEW W, Gathered(q, W), NEW x, x \notin W, NEW V, V = W \cup {x}
  PROVE  Gathered(Append(q, x), V)
<1>1. PICK p : p = Append(q, x)
  OBVIOUS
<1>2. /\ q \in Seq(W) /\ q \in Seq(V) /\ x \in V
      /\ \A i, j \in 1..Len(q) : q[i] = q[j] => i = j
      /\ \A y \in W : \E i \in 1..Len(q) : q[i] = y
  <2>1. /\ q \in Seq(W) /\ \A i, j \in 1..Len(q) : q[i] = q[j] => i = j
        /\ \A y \in W : \E i \in 1..Len(q) : q[i] = y
    BY DEF Gathered
  <2>2. Len(q) \in Nat /\ q \in [1..Len(q) -> W]
    BY <2>1, LenProperties
  <2>3. q \in [1..Len(q) -> V]
    BY <2>2
  <2>4. q \in Seq(V)
    BY <2>2, <2>3, SeqDef
  <2> QED BY <2>1, <2>4
<1>3. /\ p \in Seq(V) /\ Len(p) = Len(q) + 1 /\ p[Len(q) + 1] = x
      /\ \A i \in 1..Len(q) : p[i] = q[i] /\ q[i] \in W
      /\ Len(q) \in Nat
  BY <1>1, <1>2, AppendProperties, ElementOfSeq, LenProperties
<1>4. ASSUME NEW i \in 1..Len(p), NEW j \in 1..Len(p), p[i] = p[j] PROVE i = j
  <2>1. (i \in 1..Len(q) \/ i = Len(q) + 1) /\ (j \in 1..Len(q) \/ j = Len(q) + 1)
    BY <1>3
  <2> QED BY <1>2, <1>3, <1>4, <2>1
<1>5. ASSUME NEW y \in V PROVE \E i \in 1..Len(p) : p[i] = y
  <2>1. CASE y = x
    <3>1. Len(q) + 1 \in 1..Len(p)
      BY <1>3
    <3> QED BY <1>3, <2>1, <3>1
  <2>2. CASE y \in W
    <3>1. PICK i \in 1..Len(q) : q[i] = y
      BY <1>2, <2>2
    <3>2. i \in 1..Len(p) /\ p[i] = y
      BY <1>3, <3>1
    <3> QED BY <3>2
  <2> QED BY <2>1, <2>2
<1> QED BY <1>1, <1>3, <1>4, <1>5 DEF Gathered

LEMMA GatheredCount ==
  ASSUME NEW q, NEW W, Gathered(q, W)
  PROVE  IsFiniteSet(W) /\ Cardinality(W) = Len(q) /\ Len(q) \in Nat
<1>1. Len(q) \in Nat /\ q \in [1..Len(q) -> W]
  BY LenProperties DEF Gathered
<1>2. q \in Injection(1..Len(q), W)
  BY <1>1 DEF Gathered, Injection, IsInjective
<1>3. q \in Surjection(1..Len(q), W)
  BY <1>1 DEF Gathered, Surjection
<1>4. ExistsBijection(1..Len(q), W)
  BY <1>2, <1>3 DEF ExistsBijection, Bijection
<1> QED BY <1>1, <1>4, FS_NatBijection, FS_CountingElements

-----------------------------------------------------------------------------
(***************************************************************************)
(* One pass of the search: on single cells, and on n cells in a row.       *)
(***************************************************************************)
Pass(head, tested, got, end) ==
  [head |-> head, tested |-> tested, got |-> got, end |-> end]

(* Where a pass ends with the cells got after tested cells. *)
EndOf(n, tested, got) ==
  IF Len(got) = n THEN "found" ELSE IF tested >= Size THEN "full" ELSE "no"

(* The search goes on at the start of the table. *)
Wrapped(p, t) == [p EXCEPT !.tested = t, !.head = 0]

(* The parts of one pass from p. *)
StepParts(use, n, cont, p, test, bad, stop, got, tested) ==
  /\ p.end = "no"
  /\ test = (IF cont THEN n ELSE 1)
  /\ bad = (p.head..(p.head + test - 1)) \ use
  /\ stop = (IF bad = {} THEN p.head + test ELSE Least(bad) + 1)
  /\ got = (IF cont
            THEN IF bad = {} THEN [k \in 1..n |-> p.head + k - 1] ELSE << >>
            ELSE IF bad = {} THEN Append(p.got, p.head) ELSE p.got)
  /\ tested = p.tested + (stop - p.head)

LEMMA StepIs ==
  ASSUME NEW use, NEW n, NEW cont, NEW p, NEW test, NEW bad, NEW stop, NEW got, NEW tested,
         StepParts(use, n, cont, p, test, bad, stop, got, tested)
  PROVE  SearchStep(use, n, cont, p) =
           IF p.head + test > Size
           THEN Wrapped(p, p.tested + (Size - p.head))
           ELSE Pass(stop, tested, got, EndOf(n, tested, got))
BY Zenon DEF StepParts, SearchStep, Scanned, Pass, EndOf, Wrapped

LEMMA PassFields ==
  ASSUME NEW head, NEW tested, NEW got, NEW end, NEW p, p = Pass(head, tested, got, end)
  PROVE  /\ p.head = head /\ p.tested = tested /\ p.got = got /\ p.end = end
         /\ \A t : Wrapped(p, t) = Pass(0, t, got, end)
<1>1. p.head = head /\ p.tested = tested /\ p.got = got /\ p.end = end
  BY DEF Pass
<1>2. ASSUME NEW t PROVE Wrapped(p, t) = Pass(0, t, got, end)
  <2>1. PICK x : x = [p EXCEPT !.tested = t]
    OBVIOUS
  <2>2. x = [head |-> head, tested |-> t, got |-> got, end |-> end]
    BY <2>1 DEF Pass
  <2>3. [x EXCEPT !.head = 0] = [head |-> 0, tested |-> t, got |-> got, end |-> end]
    BY <2>2
  <2> QED BY <2>1, <2>3, Zenon DEF Pass, Wrapped
<1> QED BY <1>1, <1>2

AnyPass(use, n, head, tested, got, r) ==
  /\ head + 1 > Size => r = Pass(0, tested + (Size - head), got, "no")
  /\ head + 1 <= Size /\ head \in use =>
       r = Pass(head + 1, tested + 1, Append(got, head), EndOf(n, tested + 1, Append(got, head)))
  /\ head + 1 <= Size /\ head \notin use =>
       r = Pass(head + 1, tested + 1, got, EndOf(n, tested + 1, got))

LEMMA AnyStep ==
  ASSUME NEW use, NEW n \in Nat, Size \in Nat, NEW head \in Nat, NEW tested \in Int, NEW got,
         NEW r, r = SearchStep(use, n, FALSE, Pass(head, tested, got, "no"))
  PROVE  AnyPass(use, n, head, tested, got, r)
<1>1. PICK p, bad, cont : /\ p = Pass(head, tested, got, "no") /\ cont = FALSE
                          /\ bad = (head..(head + 1 - 1)) \ use
  BY Zenon
<1>2. /\ p.head = head /\ p.tested = tested /\ p.got = got /\ p.end = "no" /\ ~cont
      /\ \A t : Wrapped(p, t) = Pass(0, t, got, "no")
  <2>1. PICK end : end = "no"
    OBVIOUS
  <2>2. /\ p.head = head /\ p.tested = tested /\ p.got = got /\ p.end = end
        /\ \A t : Wrapped(p, t) = Pass(0, t, got, end)
    BY <1>1, <2>1, PassFields
  <2> QED BY Zenon, <1>1, <2>1, <2>2
<1>3. PICK stop, new, now : /\ stop = (IF bad = {} THEN head + 1 ELSE Least(bad) + 1)
                            /\ new = (IF bad = {} THEN Append(got, head) ELSE got)
                            /\ now = tested + (stop - head)
  BY Zenon
<1>4. r = IF head + 1 > Size THEN Wrapped(p, tested + (Size - head))
          ELSE Pass(stop, now, new, EndOf(n, now, new))
  <2>1. PICK test : test = IF cont THEN n ELSE 1
    BY Zenon
  <2>2. test = 1
    BY <1>2, <2>1
  <2>3. bad = (p.head..(p.head + test - 1)) \ use
    BY Zenon, <1>1, <1>2, <2>2
  <2>4. /\ stop = (IF bad = {} THEN p.head + test ELSE Least(bad) + 1)
        /\ now = p.tested + (stop - p.head)
    BY Zenon, <1>2, <1>3, <2>2
  <2>5. new = (IF cont
               THEN IF bad = {} THEN [k \in 1..n |-> p.head + k - 1] ELSE << >>
               ELSE IF bad = {} THEN Append(p.got, p.head) ELSE p.got)
    BY Zenon, <1>2, <1>3
  <2>6. StepParts(use, n, cont, p, test, bad, stop, new, now)
    BY Zenon, <1>2, <2>1, <2>3, <2>4, <2>5 DEF StepParts
  <2>7. SearchStep(use, n, cont, p) =
           IF p.head + test > Size
           THEN Wrapped(p, p.tested + (Size - p.head))
           ELSE Pass(stop, now, new, EndOf(n, now, new))
    BY <2>6, StepIs
  <2> QED BY Zenon, <1>1, <1>2, <2>2, <2>7
<1>5. bad = {head} \ use
  BY <1>1
<1>6. ASSUME head + 1 > Size PROVE r = Pass(0, tested + (Size - head), got, "no")
  BY Zenon, <1>2, <1>4, <1>6
<1>7. ASSUME head + 1 <= Size, head \in use
      PROVE  r = Pass(head + 1, tested + 1, Append(got, head),
                      EndOf(n, tested + 1, Append(got, head)))
  <2>1. ~(head + 1 > Size) /\ bad = {}
    BY <1>5, <1>7
  <2>2. stop = head + 1 /\ new = Append(got, head)
    BY Zenon, <1>3, <2>1
  <2>3. now = tested + 1
    BY <1>3, <2>2
  <2> QED BY Zenon, <1>4, <2>1, <2>2, <2>3
<1>8. ASSUME head + 1 <= Size, head \notin use
      PROVE  r = Pass(head + 1, tested + 1, got, EndOf(n, tested + 1, got))
  <2>1. ~(head + 1 > Size) /\ bad = {head} /\ bad # {}
    BY <1>5, <1>8
  <2>2. Least(bad) = head
    BY <2>1 DEF Least
  <2>3. stop = head + 1 /\ new = got
    BY Zenon, <1>3, <2>1, <2>2
  <2>4. now = tested + 1
    BY <1>3, <2>3
  <2> QED BY Zenon, <1>4, <2>1, <2>3, <2>4
<1> QED BY Zenon, <1>6, <1>7, <1>8 DEF AnyPass

RunPass(use, n, head, tested, got, r) ==
  /\ head + n > Size => r = Pass(0, tested + (Size - head), got, "no")
  /\ head + n <= Size /\ head..(head + n - 1) \subseteq use =>
       r = Pass(head + n, tested + n, [k \in 1..n |-> head + k - 1], "found")
  /\ head + n <= Size /\ ~(head..(head + n - 1) \subseteq use) =>
       \E x \in (head..(head + n - 1)) \ use :
         r = Pass(x + 1, tested + (x + 1 - head), << >>,
                  EndOf(n, tested + (x + 1 - head), << >>))

LEMMA RunStep ==
  ASSUME NEW use, NEW n \in Nat, Size \in Nat, NEW head \in Nat, NEW tested \in Int, NEW got,
         NEW r, r = SearchStep(use, n, TRUE, Pass(head, tested, got, "no"))
  PROVE  RunPass(use, n, head, tested, got, r)
<1>1. PICK p, bad, cont : /\ p = Pass(head, tested, got, "no") /\ cont = TRUE
                          /\ bad = (head..(head + n - 1)) \ use
  BY Zenon
<1>2. /\ p.head = head /\ p.tested = tested /\ p.got = got /\ p.end = "no" /\ cont
      /\ \A t : Wrapped(p, t) = Pass(0, t, got, "no")
  <2>1. PICK end : end = "no"
    OBVIOUS
  <2>2. /\ p.head = head /\ p.tested = tested /\ p.got = got /\ p.end = end
        /\ \A t : Wrapped(p, t) = Pass(0, t, got, end)
    BY <1>1, <2>1, PassFields
  <2> QED BY Zenon, <1>1, <2>1, <2>2
<1>3. PICK stop, new, now :
        /\ stop = (IF bad = {} THEN head + n ELSE Least(bad) + 1)
        /\ new = (IF bad = {} THEN [k \in 1..n |-> head + k - 1] ELSE << >>)
        /\ now = tested + (stop - head)
  BY Zenon
<1>4. r = IF head + n > Size THEN Wrapped(p, tested + (Size - head))
          ELSE Pass(stop, now, new, EndOf(n, now, new))
  <2>1. PICK test : test = IF cont THEN n ELSE 1
    BY Zenon
  <2>2. test = n
    BY <1>2, <2>1
  <2>3. bad = (p.head..(p.head + test - 1)) \ use
    BY Zenon, <1>1, <1>2, <2>2
  <2>4. /\ stop = (IF bad = {} THEN p.head + test ELSE Least(bad) + 1)
        /\ now = p.tested + (stop - p.head)
    BY Zenon, <1>2, <1>3, <2>2
  <2>5. new = (IF cont
               THEN IF bad = {} THEN [k \in 1..n |-> p.head + k - 1] ELSE << >>
               ELSE IF bad = {} THEN Append(p.got, p.head) ELSE p.got)
    BY Zenon, <1>2, <1>3
  <2>6. StepParts(use, n, cont, p, test, bad, stop, new, now)
    BY Zenon, <1>2, <2>1, <2>3, <2>4, <2>5 DEF StepParts
  <2>7. SearchStep(use, n, cont, p) =
           IF p.head + test > Size
           THEN Wrapped(p, p.tested + (Size - p.head))
           ELSE Pass(stop, now, new, EndOf(n, now, new))
    BY <2>6, StepIs
  <2> QED BY Zenon, <1>1, <1>2, <2>2, <2>7
<1>6. ASSUME head + n > Size PROVE r = Pass(0, tested + (Size - head), got, "no")
  BY Zenon, <1>2, <1>4, <1>6
<1>7. ASSUME head + n <= Size, head..(head + n - 1) \subseteq use
      PROVE  r = Pass(head + n, tested + n, [k \in 1..n |-> head + k - 1], "found")
  <2>1. ~(head + n > Size) /\ bad = {}
    BY <1>1, <1>7
  <2>2. stop = head + n /\ new = [k \in 1..n |-> head + k - 1]
    BY Zenon, <1>3, <2>1
  <2>3. now = tested + n /\ Len(new) = n
    BY <1>3, <2>2
  <2>4. EndOf(n, now, new) = "found"
    BY <2>3 DEF EndOf
  <2> QED BY Zenon, <1>4, <2>1, <2>2, <2>3, <2>4
<1>8. ASSUME head + n <= Size, ~(head..(head + n - 1) \subseteq use)
      PROVE  \E x \in (head..(head + n - 1)) \ use :
                r = Pass(x + 1, tested + (x + 1 - head), << >>,
                         EndOf(n, tested + (x + 1 - head), << >>))
  <2>1. ~(head + n > Size) /\ bad # {} /\ bad \in SUBSET Nat
    BY <1>1, <1>8
  <2>2. PICK x : x = Least(bad)
    OBVIOUS
  <2>3. x \in (head..(head + n - 1)) \ use
    BY <1>1, <2>1, <2>2, LeastIs
  <2>4. stop = x + 1 /\ new = << >> /\ now = tested + (x + 1 - head)
    <3>1. stop = x + 1 /\ new = << >>
      BY <1>3, <2>1, <2>2
    <3>2. x \in Int /\ stop \in Int /\ now = tested + (stop - head)
      BY <1>3, <2>3, <3>1
    <3>3. now = tested + (x + 1 - head)
      BY <3>1, <3>2
    <3> QED BY Zenon, <3>1, <3>3
  <2>5. r = Pass(x + 1, tested + (x + 1 - head), << >>,
                 EndOf(n, tested + (x + 1 - head), << >>))
    BY Zenon, <1>4, <2>1, <2>4
  <2> QED BY Zenon, <2>3, <2>5
<1> QED BY Zenon, <1>6, <1>7, <1>8 DEF RunPass

(***************************************************************************)
(* The loop: the passes f of a search, and what it answers.                *)
(***************************************************************************)
Passes(f, use, n, cont, h) ==
  /\ f[0] = Pass(h, 0, << >>, "no")
  /\ \A k \in 1..(2 * Size + 2) : f[k] = SearchStep(use, n, cont, f[k - 1])

Usable(c) == {i \in Idx : CanUse(c, i)}
StartOf(c, head, n) == IF head > Cardinality(Used(c)) + 2 * n THEN 0 ELSE head

LEMMA SearchLoop ==
  ASSUME NEW c, NEW head, NEW n, NEW cont, Size \in Nat
  PROVE  \E f : /\ Passes(f, Usable(c), n, cont, StartOf(c, head, n))
                /\ FindSlot(c, head, n, cont) =
                     IF n <= Size /\ f[2 * Size + 2].end = "found" THEN f[2 * Size + 2].got
                     ELSE << >>
<1> DEFINE start == Pass(StartOf(c, head, n), 0, << >>, "no")
           G(r) == SearchStep(Usable(c), n, cont, r)
           F(g, l) == [k \in 0..l |-> IF k = 0 THEN start ELSE G(g[k - 1])]
           T == {l \in Nat : \E g : g = F(g, l)}
<1>0. 2 * Size + 2 \in Nat
  OBVIOUS
<1>1. 0 \in T
  <2> HIDE DEF G, start
  <2>1. PICK h : h = [k \in 0..0 |-> start]
    OBVIOUS
  <2>2. h = F(h, 0)
    BY <2>1
  <2> HIDE DEF F
  <2> QED BY <2>2
<1>2. ASSUME NEW l \in T PROVE l + 1 \in T
  <2> HIDE DEF G, start
  <2>1. PICK g : g = F(g, l)
    OBVIOUS
  <2>2. PICK h : h = F(g, l + 1)
    OBVIOUS
  <2>3. l \in Nat /\ l + 1 \in Nat
    OBVIOUS
  <2>4. ASSUME NEW k \in 0..(l + 1), k # 0 PROVE h[k - 1] = g[k - 1]
    <3>1. PICK i : i = k - 1
      OBVIOUS
    <3>2. i \in 0..l /\ i \in 0..(l + 1)
      BY <2>3, <2>4, <3>1
    <3>3. g[i] = IF i = 0 THEN start ELSE G(g[i - 1])
      BY <2>1, <3>2
    <3>4. h[i] = IF i = 0 THEN start ELSE G(g[i - 1])
      BY <2>2, <3>2
    <3> QED BY <3>1, <3>3, <3>4
  <2>5. h = F(h, l + 1)
    BY <2>2, <2>4
  <2> HIDE DEF F
  <2> QED BY <2>3, <2>5
<1>3. 2 * Size + 2 \in T
  <2>1. T \in SUBSET Nat
    OBVIOUS
  <2> HIDE DEF T
  <2> QED BY <1>0, <1>1, <1>2, <2>1, Counting
<1>4. PICK f : f = CHOOSE g : g = F(g, 2 * Size + 2)
  OBVIOUS
<1>5. FindSlot(c, head, n, cont) =
        IF n <= Size /\ f[2 * Size + 2].end = "found" THEN f[2 * Size + 2].got ELSE << >>
  BY <1>4 DEF FindSlot, Pass, StartOf, Usable
<1>6. f = F(f, 2 * Size + 2)
  <2>1. \E g : g = F(g, 2 * Size + 2)
    BY <1>3
  <2> HIDE DEF F
  <2> QED BY <1>4, <2>1
<1>7. f[0] = start /\ \A k \in 1..(2 * Size + 2) : f[k] = G(f[k - 1])
  <2> HIDE DEF G, start
  <2> QED BY <1>0, <1>6
<1>8. Passes(f, Usable(c), n, cont, StartOf(c, head, n))
  BY Zenon, <1>7 DEF Passes
<1> QED BY Zenon, <1>5, <1>8

LEMMA StartType ==
  ASSUME Size \in Nat, NEW c, NEW head \in 0..Size, NEW n \in Nat
  PROVE  StartOf(c, head, n) \in 0..Size
BY DEF StartOf

(***************************************************************************)
(* Whatever is searched for, the search stays in the table.                *)
(***************************************************************************)
PassType(r) ==
  r \in [head : 0..Size, tested : Int, got : Seq(Idx), end : {"no", "found", "full"}]

LEMMA PassTyped ==
  ASSUME NEW head \in 0..Size, NEW tested \in Int, NEW got \in Seq(Idx),
         NEW end \in {"no", "found", "full"}
  PROVE  PassType(Pass(head, tested, got, end))
BY DEF PassType, Pass

LEMMA EndTyped ==
  ASSUME NEW n, NEW tested, NEW got
  PROVE  EndOf(n, tested, got) \in {"no", "found", "full"}
BY DEF EndOf

(* A pass that has not ended, by its fields. *)
LEMMA PassParts ==
  ASSUME NEW r, PassType(r)
  PROVE  /\ r = Pass(r.head, r.tested, r.got, r.end)
         /\ r.head \in 0..Size /\ r.tested \in Int /\ r.got \in Seq(Idx)
         /\ r.end \in {"no", "found", "full"}
BY DEF PassType, Pass

LEMMA StepTyped ==
  ASSUME Size \in Nat, NEW use, NEW n \in Nat, NEW cont \in BOOLEAN, NEW r, PassType(r)
  PROVE  PassType(SearchStep(use, n, cont, r))
<1>1. CASE r.end # "no"
  BY <1>1, Zenon DEF SearchStep
<1>2. CASE r.end = "no"
  <2>1. PICK head, tested, got : head = r.head /\ tested = r.tested /\ got = r.got
    OBVIOUS
  <2>2. /\ r = Pass(head, tested, got, "no") /\ head \in 0..Size /\ tested \in Int
        /\ got \in Seq(Idx) /\ head \in Nat
    BY <1>2, <2>1, PassParts
  <2>3. PICK x : x = SearchStep(use, n, cont, r)
    OBVIOUS
  <2>4. CASE cont = FALSE
    <3>0. x = SearchStep(use, n, FALSE, Pass(head, tested, got, "no"))
      BY Zenon, <2>2, <2>3, <2>4
    <3>00. AnyPass(use, n, head, tested, got, x)
      BY <2>2, <3>0, AnyStep
    <3>1. CASE head + 1 > Size
      <4>1. x = Pass(0, tested + (Size - head), got, "no")
        BY Zenon, <3>00, <3>1 DEF AnyPass
      <4>2. 0 \in 0..Size /\ tested + (Size - head) \in Int
        BY <2>2
      <4> QED BY <2>2, <2>3, <4>1, <4>2, PassTyped
    <3>2. CASE head + 1 <= Size /\ head \in use
      <4>1. PICK g : g = Append(got, head)
        OBVIOUS
      <4>2. x = Pass(head + 1, tested + 1, g, EndOf(n, tested + 1, g))
        BY Zenon, <3>00, <3>2, <4>1 DEF AnyPass
      <4>3. head \in Idx /\ head + 1 \in 0..Size /\ tested + 1 \in Int
        BY <2>2, <3>2 DEF Idx
      <4>4. g \in Seq(Idx)
        BY <2>2, <4>1, <4>3, AppendProperties
      <4> QED BY <2>3, <4>2, <4>3, <4>4, EndTyped, PassTyped
    <3>3. CASE head + 1 <= Size /\ head \notin use
      <4>2. x = Pass(head + 1, tested + 1, got, EndOf(n, tested + 1, got))
        BY Zenon, <3>00, <3>3 DEF AnyPass
      <4>3. head + 1 \in 0..Size /\ tested + 1 \in Int
        BY <2>2, <3>3
      <4> QED BY <2>2, <2>3, <4>2, <4>3, EndTyped, PassTyped
    <3> QED BY <2>2, <3>1, <3>2, <3>3
  <2>5. CASE cont = TRUE
    <3>0. x = SearchStep(use, n, TRUE, Pass(head, tested, got, "no"))
      BY Zenon, <2>2, <2>3, <2>5
    <3>00. RunPass(use, n, head, tested, got, x)
      BY <2>2, <3>0, RunStep
    <3>1. CASE head + n > Size
      <4>1. x = Pass(0, tested + (Size - head), got, "no")
        BY Zenon, <3>00, <3>1 DEF RunPass
      <4>2. 0 \in 0..Size /\ tested + (Size - head) \in Int
        BY <2>2
      <4> QED BY <2>2, <2>3, <4>1, <4>2, PassTyped
    <3>2. CASE head + n <= Size /\ head..(head + n - 1) \subseteq use
      <4>1. PICK g : g = [k \in 1..n |-> head + k - 1]
        OBVIOUS
      <4>2. x = Pass(head + n, tested + n, g, "found")
        BY Zenon, <3>00, <3>2, <4>1 DEF RunPass
      <4>3. head + n \in 0..Size /\ tested + n \in Int
        BY <2>2, <3>2
      <4>4. g \in [1..n -> Idx]
        BY <2>2, <3>2, <4>1 DEF Idx
      <4>5. g \in Seq(Idx)
        BY <4>4, SeqDef
      <4> QED BY <2>3, <4>2, <4>3, <4>5, PassTyped
    <3>3. CASE head + n <= Size /\ ~(head..(head + n - 1) \subseteq use)
      <4>1. PICK y \in (head..(head + n - 1)) \ use :
              x = Pass(y + 1, tested + (y + 1 - head), << >>,
                       EndOf(n, tested + (y + 1 - head), << >>))
        BY Zenon, <3>00, <3>3 DEF RunPass
      <4>2. y + 1 \in 0..Size /\ tested + (y + 1 - head) \in Int /\ << >> \in Seq(Idx)
        BY <2>2, <3>3, <4>1
      <4> QED BY <2>3, <4>1, <4>2, EndTyped, PassTyped
    <3> QED BY <2>2, <3>1, <3>2, <3>3
  <2> QED BY <2>4, <2>5
<1> QED BY <1>1, <1>2

LEMMA SlotTyped ==
  ASSUME Size \in Nat, NEW c, NEW head \in 0..Size, NEW n \in Nat, NEW cont \in BOOLEAN
  PROVE  FindSlot(c, head, n, cont) \in Seq(Idx)
<1>1. PICK K, h, use : K = 2 * Size + 2 /\ h = StartOf(c, head, n) /\ use = Usable(c)
  OBVIOUS
<1>2. K \in Nat /\ h \in 0..Size
  BY <1>1, StartType
<1>3. PICK f : /\ Passes(f, use, n, cont, h)
               /\ FindSlot(c, head, n, cont) =
                    IF n <= Size /\ f[K].end = "found" THEN f[K].got ELSE << >>
  BY <1>1, SearchLoop
<1>4. /\ f[0] = Pass(h, 0, << >>, "no")
      /\ \A k \in 1..K : f[k] = SearchStep(use, n, cont, f[k - 1])
  BY <1>1, <1>3 DEF Passes
<1> DEFINE T == {k \in 0..K : PassType(f[k])}
<1>5. 0 \in T /\ T \in SUBSET Nat
  <2>1. PICK e, end : e = << >> /\ end = "no"
    OBVIOUS
  <2>2. e \in Seq(Idx) /\ end \in {"no", "found", "full"} /\ 0 \in Int
    BY <2>1
  <2>3. PassType(f[0])
    BY <1>2, <1>4, <2>1, <2>2, PassTyped
  <2> QED BY <1>2, <2>3
<1>6. ASSUME NEW k \in T, k < K PROVE k + 1 \in T
  <2>1. PICK j : j = k + 1
    OBVIOUS
  <2>2. j \in 1..K /\ j \in 0..K /\ j - 1 = k
    BY <1>2, <1>6, <2>1
  <2>3. f[j] = SearchStep(use, n, cont, f[k]) /\ PassType(f[k])
    BY <1>4, <2>2
  <2>4. PassType(f[j])
    BY <2>3, StepTyped
  <2> QED BY <2>1, <2>2, <2>4
<1>7. K \in T
  <2> HIDE DEF T
  <2>1. K \in 0..K
    BY <1>2
  <2> QED BY <1>2, <1>5, <1>6, <2>1, CountingTo
<1>8. f[K].got \in Seq(Idx) /\ << >> \in Seq(Idx)
  BY <1>7, PassParts
<1> QED BY <1>3, <1>8

-----------------------------------------------------------------------------
(***************************************************************************)
(* Cells anywhere.  From the start h the search goes to the end of the     *)
(* table, then from its beginning up to h; it has tested every cell on its *)
(* way once and holds the ones it can use.                                 *)
(***************************************************************************)
AnyUpwards(use, h, k, r) ==
  /\ r.head = h + r.tested /\ k <= r.tested
  /\ Gathered(r.got, {x \in use : h <= x /\ x < r.head})

AnyWrapped(use, h, k, r) ==
  /\ r.tested = Size - h + r.head /\ r.head <= h /\ k <= r.tested + 1
  /\ Gathered(r.got, {x \in use : h <= x \/ x < r.head})

AnySearch(use, n, h, k, r) ==
  /\ PassType(r) /\ r.tested >= 0
  /\ r.end = "no" => /\ Len(r.got) < n /\ r.tested < Size
                     /\ AnyUpwards(use, h, k, r) \/ AnyWrapped(use, h, k, r)
  /\ r.end = "found" => Len(r.got) = n /\ \E W \in SUBSET use : Gathered(r.got, W)
  /\ r.end = "full" => Len(r.got) < n /\ Gathered(r.got, use)

LEMMA AnyFirst ==
  ASSUME Size \in Nat \ {0}, NEW use \in SUBSET Idx, NEW n \in Nat \ {0}, NEW h \in 0..Size
  PROVE  AnySearch(use, n, h, 0, Pass(h, 0, << >>, "no"))
<1>1. PICK r, e : e = << >> /\ r = Pass(h, 0, e, "no")
  OBVIOUS
<1>2. r.head = h /\ r.tested = 0 /\ r.got = e /\ r.end = "no"
  BY <1>1, PassFields
<1>3. PassType(r) /\ Len(e) = 0
  <2>1. PICK end : end = "no"
    OBVIOUS
  <2>2. e \in Seq(Idx) /\ end \in {"no", "found", "full"} /\ 0 \in Int /\ Len(e) = 0
    BY <1>1, <2>1
  <2> QED BY <1>1, <2>1, <2>2, PassTyped
<1>4. {x \in use : h <= x /\ x < h} = {}
  <2> SUFFICES ASSUME NEW x \in use, h <= x, x < h PROVE FALSE
    OBVIOUS
  <2>1. x \in Int /\ h \in Int
    BY DEF Idx
  <2> QED BY <2>1
<1>5. Gathered(e, {})
  BY <1>1, GatheredNone
<1>6. AnyUpwards(use, h, 0, r)
  BY <1>2, <1>4, <1>5 DEF AnyUpwards
<1> QED BY <1>1, <1>2, <1>3, <1>6 DEF AnySearch

(* What a pass that does not wrap makes of the cells gathered in W. *)
Moved(r, n, head, tested, V) ==
  /\ PassType(r) /\ r.head = head + 1 /\ r.tested = tested + 1
  /\ r.end = EndOf(n, tested + 1, r.got)
  /\ Gathered(r.got, V) /\ Len(r.got) <= n

LEMMA AnyMoves ==
  ASSUME Size \in Nat \ {0}, NEW use \in SUBSET Idx, NEW n \in Nat \ {0},
         NEW head \in 0..Size, head < Size, NEW tested \in Nat,
         NEW W \in SUBSET use, head \notin W, NEW got \in Seq(Idx), Gathered(got, W), Len(got) < n,
         NEW r, AnyPass(use, n, head, tested, got, r),
         NEW V, V = {x \in use : x \in W \/ x = head}
  PROVE  Moved(r, n, head, tested, V)
<1>1. head \in Nat /\ head + 1 <= Size /\ head \in Idx /\ head + 1 \in 0..Size /\ Len(got) \in Nat
  BY LenProperties DEF Idx
<1>2. CASE head \in use
  <2>1. PICK g : g = Append(got, head)
    OBVIOUS
  <2>2. r = Pass(head + 1, tested + 1, g, EndOf(n, tested + 1, g))
    BY Zenon, <1>1, <1>2, <2>1 DEF AnyPass
  <2>3. g \in Seq(Idx) /\ Len(g) = Len(got) + 1
    BY <1>1, <2>1, AppendProperties
  <2>4. V = W \cup {head}
    BY <1>2
  <2>5. Gathered(g, V)
    BY <2>1, <2>4, GatheredOne
  <2>6. /\ r.head = head + 1 /\ r.tested = tested + 1 /\ r.got = g
        /\ r.end = EndOf(n, tested + 1, g)
    BY <2>2, PassFields
  <2>7. PassType(r)
    BY <1>1, <2>2, <2>3, EndTyped, PassTyped
  <2> QED BY <1>1, <2>3, <2>5, <2>6, <2>7 DEF Moved
<1>3. CASE head \notin use
  <2>2. r = Pass(head + 1, tested + 1, got, EndOf(n, tested + 1, got))
    BY Zenon, <1>1, <1>3 DEF AnyPass
  <2>4. V = W
    BY <1>3
  <2>6. /\ r.head = head + 1 /\ r.tested = tested + 1 /\ r.got = got
        /\ r.end = EndOf(n, tested + 1, got)
    BY <2>2, PassFields
  <2>7. PassType(r)
    BY <1>1, <2>2, EndTyped, PassTyped
  <2>8. r.end = EndOf(n, tested + 1, r.got) /\ Gathered(r.got, V)
    BY Zenon, <2>4, <2>6
  <2>9. Len(r.got) <= n
    BY <1>1, <2>6
  <2> QED BY <2>6, <2>7, <2>8, <2>9 DEF Moved
<1> QED BY <1>2, <1>3

(* x is the pass after r. *)
AnyNext(use, n, r, x) ==
  /\ r.end # "no" => x = r
  /\ r.end = "no" => AnyPass(use, n, r.head, r.tested, r.got, x)

LEMMA AnyNextIs ==
  ASSUME Size \in Nat, NEW use, NEW n \in Nat, NEW r, PassType(r), NEW x,
         x = SearchStep(use, n, FALSE, r)
  PROVE  AnyNext(use, n, r, x)
<1>1. ASSUME r.end # "no" PROVE x = r
  BY Zenon, <1>1 DEF SearchStep
<1>2. ASSUME r.end = "no" PROVE AnyPass(use, n, r.head, r.tested, r.got, x)
  <2>1. PICK head, tested, got : head = r.head /\ tested = r.tested /\ got = r.got
    BY Zenon
  <2>2. r = Pass(head, tested, got, "no")
    BY Zenon, <1>2, <2>1, PassParts
  <2>3. r.head \in 0..Size /\ r.tested \in Int
    BY Zenon, PassParts
  <2>4. head \in Nat /\ tested \in Int
    BY <2>1, <2>3
  <2>5. x = SearchStep(use, n, FALSE, Pass(head, tested, got, "no"))
    BY Zenon, <2>2
  <2>6. AnyPass(use, n, head, tested, got, x)
    BY <2>4, <2>5, AnyStep
  <2> QED BY Zenon, <2>1, <2>6
<1> QED BY Zenon, <1>1, <1>2 DEF AnyNext

LEMMA AnyGoesOn ==
  ASSUME Size \in Nat \ {0}, NEW use \in SUBSET Idx, NEW n \in Nat \ {0}, NEW h \in 0..Size,
         NEW k \in Nat, NEW r, AnySearch(use, n, h, k, r), NEW x, AnyNext(use, n, r, x)
  PROVE  AnySearch(use, n, h, k + 1, x)
<1>1. CASE r.end # "no"
  <2>1. x = r
    BY <1>1 DEF AnyNext
  <2> QED BY <1>1, <2>1 DEF AnySearch
<1>2. CASE r.end = "no"
  <2>1. PICK head, tested, got : head = r.head /\ tested = r.tested /\ got = r.got
    OBVIOUS
  <2>2. /\ r = Pass(head, tested, got, "no") /\ head \in 0..Size /\ tested \in Nat
        /\ got \in Seq(Idx) /\ head \in Nat /\ Len(got) < n /\ tested < Size
    BY <1>2, <2>1, PassParts DEF AnySearch
  <2>3. AnyPass(use, n, head, tested, got, x)
    BY <1>2, <2>1 DEF AnyNext
  <2>4. CASE AnyUpwards(use, h, k, r)
    <3>1. head = h + tested /\ k <= tested /\ Gathered(got, {y \in use : h <= y /\ y < head})
      BY <2>1, <2>4 DEF AnyUpwards
    <3>2. CASE head = Size
      <4>1. x = Pass(0, tested + (Size - head), got, "no")
        <5>1. head + 1 > Size
          BY <3>2
        <5> QED BY Zenon, <2>3, <5>1 DEF AnyPass
      <4>2. PICK t : t = tested + (Size - head)
        OBVIOUS
      <4>3. t = tested /\ t = Size - h + 0 /\ 0 <= h /\ k + 1 <= t + 1 /\ t \in Int /\ 0 \in 0..Size
        BY <2>2, <3>1, <3>2, <4>2
      <4>4. {y \in use : h <= y /\ y < head} = {y \in use : h <= y \/ y < 0}
        <5>1. \A y \in use : y \in Int /\ 0 <= y /\ y < Size
          BY DEF Idx
        <5> QED BY <3>2, <5>1
      <4>5. x.head = 0 /\ x.tested = t /\ x.got = got /\ x.end = "no"
        BY <4>1, <4>2, PassFields
      <4>6. PassType(x)
        <5>1. "no" \in {"no", "found", "full"}
          OBVIOUS
        <5> QED BY <2>2, <4>1, <4>2, <4>3, <5>1, PassTyped
      <4>7. AnyWrapped(use, h, k + 1, x)
        BY <3>1, <4>3, <4>4, <4>5 DEF AnyWrapped
      <4> QED BY <2>2, <4>3, <4>5, <4>6, <4>7 DEF AnySearch
    <3>3. CASE head < Size
      <4>1. PICK W, V : /\ W = {y \in use : h <= y /\ y < head}
                        /\ V = {y \in use : y \in W \/ y = head}
        OBVIOUS
      <4>2. /\ PassType(x) /\ x.head = head + 1 /\ x.tested = tested + 1
            /\ x.end = EndOf(n, tested + 1, x.got)
            /\ Gathered(x.got, V) /\ Len(x.got) <= n
        <5>1. W \in SUBSET use /\ head \notin W /\ Gathered(got, W)
          BY <2>2, <3>1, <4>1
        <5>2. Moved(x, n, head, tested, V)
          BY <2>2, <2>3, <3>3, <4>1, <5>1, AnyMoves
        <5> QED BY <5>2 DEF Moved
      <4>3. V = {y \in use : h <= y /\ y < x.head}
        <5>1. \A y \in use : y \in Int
          BY DEF Idx
        <5> QED BY <2>2, <3>1, <4>1, <4>2, <5>1
      <4>4. /\ x.end = "no" => AnyUpwards(use, h, k + 1, x)
        BY <2>2, <3>1, <4>2, <4>3 DEF AnyUpwards
      <4>5. x.tested >= Size => V = use
        <5>1. \A y \in use : y \in Int /\ 0 <= y /\ y < Size
          BY DEF Idx
        <5> QED BY <2>2, <3>1, <3>3, <4>2, <4>3, <5>1
      <4>6. x.tested \in Nat /\ Len(x.got) \in Nat /\ V \in SUBSET use
        BY <2>2, <4>1, <4>2, PassParts, LenProperties
      <4>7. /\ x.end = "no" => Len(x.got) < n /\ x.tested < Size
            /\ x.end = "found" => Len(x.got) = n
            /\ x.end = "full" => Len(x.got) < n /\ x.tested >= Size
        BY <2>2, <4>2, <4>6 DEF EndOf
      <4> QED BY <4>2, <4>4, <4>5, <4>6, <4>7 DEF AnySearch
    <3> QED BY <2>2, <3>2, <3>3
  <2>5. CASE AnyWrapped(use, h, k, r)
    <3>1. /\ tested = Size - h + head /\ head <= h /\ k <= tested + 1
          /\ Gathered(got, {y \in use : h <= y \/ y < head})
      BY <2>1, <2>5 DEF AnyWrapped
    <3>2. head < h /\ head < Size
      BY <2>2, <3>1
    <3>3. PICK W, V : /\ W = {y \in use : h <= y \/ y < head}
                      /\ V = {y \in use : y \in W \/ y = head}
      OBVIOUS
    <3>4. /\ PassType(x) /\ x.head = head + 1 /\ x.tested = tested + 1
          /\ x.end = EndOf(n, tested + 1, x.got)
          /\ Gathered(x.got, V) /\ Len(x.got) <= n
      <4>1. W \in SUBSET use /\ head \notin W /\ Gathered(got, W)
        BY <2>2, <3>1, <3>2, <3>3
      <4>2. Moved(x, n, head, tested, V)
        BY <2>2, <2>3, <3>2, <3>3, <4>1, AnyMoves
      <4> QED BY <4>2 DEF Moved
    <3>5. V = {y \in use : h <= y \/ y < x.head}
      <4>1. \A y \in use : y \in Int
        BY DEF Idx
      <4> QED BY <2>2, <3>1, <3>2, <3>3, <3>4, <4>1
    <3>6. x.end = "no" => AnyWrapped(use, h, k + 1, x)
      BY <2>2, <3>1, <3>2, <3>4, <3>5 DEF AnyWrapped
    <3>7. x.tested >= Size => V = use
      <4>1. \A y \in use : y \in Int /\ 0 <= y /\ y < Size
        BY DEF Idx
      <4> QED BY <2>2, <3>1, <3>2, <3>4, <3>5, <4>1
    <3>8. x.tested \in Nat /\ Len(x.got) \in Nat /\ V \in SUBSET use
      BY <2>2, <3>3, <3>4, PassParts, LenProperties
    <3>9. /\ x.end = "no" => Len(x.got) < n /\ x.tested < Size
          /\ x.end = "found" => Len(x.got) = n
          /\ x.end = "full" => Len(x.got) < n /\ x.tested >= Size
      BY <2>2, <3>4, <3>8 DEF EndOf
    <3> QED BY <3>4, <3>6, <3>7, <3>8, <3>9 DEF AnySearch
  <2> QED BY <1>2, <2>4, <2>5 DEF AnySearch
<1> QED BY <1>1, <1>2

(* A slot of n cells anywhere. *)
AnySlot(use, n, slot) ==
  /\ slot # << >> <=> Cardinality(use) >= n
  /\ slot # << >> => /\ Len(slot) = n
                     /\ \A j, k \in 1..n : slot[j] \in use /\ (slot[j] = slot[k] => j = k)

LEMMA AnySlotFound ==
  ASSUME Size \in Nat \ {0}, NEW c, NEW head \in 0..Size, NEW n \in 1..Size
  PROVE  AnySlot(Usable(c), n, FindSlot(c, head, n, FALSE))
<1>1. PICK K, h, use, slot : /\ K = 2 * Size + 2 /\ h = StartOf(c, head, n) /\ use = Usable(c)
                             /\ slot = FindSlot(c, head, n, FALSE)
  OBVIOUS
<1>2. /\ K \in Nat /\ h \in 0..Size /\ n \in Nat \ {0} /\ n <= Size /\ Size \in Nat
      /\ use \in SUBSET Idx /\ K \in 0..K
  <2>1. n \in Nat /\ n # 0 /\ n <= Size
    OBVIOUS
  <2> QED BY <1>1, <2>1, StartType DEF Usable
<1>3. PICK f : /\ Passes(f, use, n, FALSE, h)
               /\ slot = IF n <= Size /\ f[K].end = "found" THEN f[K].got ELSE << >>
  BY <1>1, SearchLoop
<1>4. /\ f[0] = Pass(h, 0, << >>, "no")
      /\ \A k \in 1..K : f[k] = SearchStep(use, n, FALSE, f[k - 1])
  BY <1>1, <1>3 DEF Passes
<1> DEFINE T == {k \in 0..K : AnySearch(use, n, h, k, f[k])}
<1>5. 0 \in T /\ T \in SUBSET Nat
  <2>1. AnySearch(use, n, h, 0, f[0])
    BY <1>2, <1>4, AnyFirst
  <2> QED BY <1>2, <2>1
<1>6. ASSUME NEW k \in T, k < K PROVE k + 1 \in T
  <2>1. PICK j : j = k + 1
    OBVIOUS
  <2>2. j \in 1..K /\ j \in 0..K /\ j - 1 = k /\ k \in Nat
    BY <1>2, <1>6, <2>1
  <2>3. f[j] = SearchStep(use, n, FALSE, f[k]) /\ AnySearch(use, n, h, k, f[k])
    BY <1>4, <2>2
  <2>4. AnyNext(use, n, f[k], f[j])
    <3>1. PassType(f[k])
      BY <2>3 DEF AnySearch
    <3> QED BY <1>2, <2>3, <3>1, AnyNextIs
  <2>5. AnySearch(use, n, h, j, f[j])
    BY <1>2, <2>1, <2>2, <2>3, <2>4, AnyGoesOn
  <2> QED BY <2>1, <2>2, <2>5
<1>7. AnySearch(use, n, h, K, f[K])
  <2>1. \A k \in 0..K : k \in T
    <3> HIDE DEF T
    <3> QED BY <1>2, <1>5, <1>6, CountingTo
  <2> QED BY <1>2, <2>1
<1>8. PICK r : r = f[K]
  OBVIOUS
<1>9. PassType(r) /\ r.end \in {"no", "found", "full"} /\ r.got \in Seq(Idx) /\ r.tested \in Int
  BY <1>7, <1>8, PassParts DEF AnySearch
<1>10. r.end # "no"
  <2> SUFFICES ASSUME r.end = "no" PROVE FALSE
    OBVIOUS
  <2>1. K <= r.tested + 1 /\ r.tested < Size
    BY <1>2, <1>7, <1>8, <1>9 DEF AnySearch, AnyUpwards, AnyWrapped
  <2> QED BY <1>1, <1>2, <1>9, <2>1
<1>11. IsFiniteSet(use)
  <2>1. IsFiniteSet(Idx)
    BY <1>2, FS_Interval DEF Idx
  <2> QED BY <1>2, <2>1, FS_Subset
<1>12. CASE r.end = "found"
  <2>1. slot = r.got /\ Len(slot) = n
    BY <1>2, <1>3, <1>7, <1>8, <1>12 DEF AnySearch
  <2>2. PICK W \in SUBSET use : Gathered(slot, W)
    BY <1>7, <1>8, <1>12, <2>1 DEF AnySearch
  <2>3. Cardinality(W) = n /\ Cardinality(W) <= Cardinality(use) /\ Cardinality(use) \in Nat
    BY <1>11, <2>1, <2>2, GatheredCount, FS_Subset, FS_CardinalityType
  <2>4. slot # << >>
    BY <1>2, <2>1
  <2>5. \A j, k \in 1..n : slot[j] \in use /\ (slot[j] = slot[k] => j = k)
    <3>1. slot \in Seq(W) /\ \A i, j \in 1..n : slot[i] = slot[j] => i = j
      BY <2>1, <2>2 DEF Gathered
    <3>2. \A j \in 1..n : slot[j] \in W
      BY <2>1, <3>1, ElementOfSeq
    <3> QED BY <2>2, <3>1, <3>2
  <2>6. AnySlot(use, n, slot)
    BY <1>2, <2>1, <2>3, <2>4, <2>5 DEF AnySlot
  <2> QED BY Zenon, <1>1, <2>6
<1>13. CASE r.end = "full"
  <2>1. slot = << >>
    BY <1>3, <1>8, <1>13
  <2>2. Gathered(r.got, use) /\ Len(r.got) < n
    BY <1>7, <1>8, <1>13 DEF AnySearch
  <2>3. Cardinality(use) = Len(r.got) /\ Len(r.got) \in Nat
    BY <2>2, GatheredCount
  <2>4. AnySlot(use, n, slot)
    BY <1>2, <2>1, <2>2, <2>3 DEF AnySlot
  <2> QED BY Zenon, <1>1, <2>4
<1> QED BY <1>9, <1>10, <1>12, <1>13

-----------------------------------------------------------------------------
(***************************************************************************)
(* Cells in one piece.  No run begins at a cell the search has passed; it  *)
(* may wrap a second time, and then ends with the next pass.               *)
(***************************************************************************)
NoRun(use, n, lo, hi) == \A a \in Nat : lo <= a /\ a < hi => ~(a..(a + n - 1) \subseteq use)

RunUpwards(use, n, h, k, r) ==
  r.head = h + r.tested /\ r.tested < Size /\ k <= r.tested /\ NoRun(use, n, h, r.head)

RunWrapped(use, n, h, k, r) ==
  /\ r.tested = Size - h + r.head /\ r.head < h /\ k <= r.tested + 1
  /\ NoRun(use, n, h, Size) /\ NoRun(use, n, 0, r.head)

RunNone(use, n, k, r) ==
  r.head = 0 /\ r.tested >= Size /\ k <= Size + 1 /\ NoRun(use, n, 0, Size)

RunAt(use, n, got) ==
  \E a \in Nat : /\ a + n <= Size /\ a..(a + n - 1) \subseteq use
                 /\ got = [k \in 1..n |-> a + k - 1]

RunSearch(use, n, h, k, r) ==
  /\ PassType(r) /\ r.tested >= 0
  /\ r.end = "no" => \/ RunUpwards(use, n, h, k, r)
                     \/ RunWrapped(use, n, h, k, r)
                     \/ RunNone(use, n, k, r)
  /\ r.end = "found" => RunAt(use, n, r.got)
  /\ r.end = "full" => NoRun(use, n, 0, Size)

LEMMA NoRunJoin ==
  ASSUME NEW use, NEW n, NEW lo \in Int, NEW mid \in Int, NEW m2 \in Int, NEW hi \in Int,
         NoRun(use, n, lo, mid), NoRun(use, n, m2, hi), m2 <= mid
  PROVE  NoRun(use, n, lo, hi)
<1> SUFFICES ASSUME NEW a \in Nat, lo <= a, a < hi, a..(a + n - 1) \subseteq use
             PROVE  FALSE
  BY DEF NoRun
<1>1. a < mid \/ m2 <= a
  OBVIOUS
<1>2. a < mid => ~(a..(a + n - 1) \subseteq use)
  BY DEF NoRun
<1>3. m2 <= a => ~(a..(a + n - 1) \subseteq use)
  BY DEF NoRun
<1> QED BY <1>1, <1>2, <1>3

LEMMA RunFirst ==
  ASSUME Size \in Nat \ {0}, NEW use \in SUBSET Idx, NEW n \in Nat \ {0}, NEW h \in 0..Size
  PROVE  RunSearch(use, n, h, 0, Pass(h, 0, << >>, "no"))
<1>1. PICK r, e, end : e = << >> /\ end = "no" /\ r = Pass(h, 0, e, end)
  OBVIOUS
<1>2. r.head = h /\ r.tested = 0 /\ r.got = e /\ r.end = end
  BY <1>1, PassFields
<1>3. PassType(r)
  <2>1. e \in Seq(Idx) /\ end \in {"no", "found", "full"} /\ 0 \in Int
    BY <1>1
  <2> QED BY <1>1, <2>1, PassTyped
<1>4. NoRun(use, n, h, h)
  BY DEF NoRun
<1>5. RunUpwards(use, n, h, 0, r)
  BY <1>2, <1>4 DEF RunUpwards
<1> QED BY <1>1, <1>2, <1>3, <1>5 DEF RunSearch

RunNext(use, n, r, x) ==
  /\ r.end # "no" => x = r
  /\ r.end = "no" => RunPass(use, n, r.head, r.tested, r.got, x)

LEMMA RunNextIs ==
  ASSUME Size \in Nat, NEW use, NEW n \in Nat, NEW r, PassType(r), NEW x,
         x = SearchStep(use, n, TRUE, r)
  PROVE  RunNext(use, n, r, x)
<1>1. ASSUME r.end # "no" PROVE x = r
  BY Zenon, <1>1 DEF SearchStep
<1>2. ASSUME r.end = "no" PROVE RunPass(use, n, r.head, r.tested, r.got, x)
  <2>1. PICK head, tested, got : head = r.head /\ tested = r.tested /\ got = r.got
    BY Zenon
  <2>2. r = Pass(head, tested, got, "no")
    BY Zenon, <1>2, <2>1, PassParts
  <2>3. r.head \in 0..Size /\ r.tested \in Int
    BY Zenon, PassParts
  <2>4. head \in Nat /\ tested \in Int
    BY <2>1, <2>3
  <2>5. x = SearchStep(use, n, TRUE, Pass(head, tested, got, "no"))
    BY Zenon, <2>2
  <2>6. RunPass(use, n, head, tested, got, x)
    BY <2>4, <2>5, RunStep
  <2> QED BY Zenon, <2>1, <2>6
<1> QED BY Zenon, <1>1, <1>2 DEF RunNext

LEMMA RunGoesOn ==
  ASSUME Size \in Nat \ {0}, NEW use \in SUBSET Idx, NEW n \in Nat \ {0}, n <= Size,
         NEW h \in 0..Size, NEW k \in Nat, NEW r, RunSearch(use, n, h, k, r),
         NEW x, RunNext(use, n, r, x)
  PROVE  RunSearch(use, n, h, k + 1, x)
<1>1. CASE r.end # "no"
  <2>1. x = r
    BY <1>1 DEF RunNext
  <2> QED BY <1>1, <2>1 DEF RunSearch
<1>2. CASE r.end = "no"
  <2>1. PICK head, tested, got : head = r.head /\ tested = r.tested /\ got = r.got
    OBVIOUS
  <2>2. /\ head \in 0..Size /\ tested \in Nat /\ got \in Seq(Idx) /\ head \in Nat
        /\ h \in Nat /\ n \in Nat
    BY <1>2, <2>1, PassParts DEF RunSearch
  <2>3. RunPass(use, n, head, tested, got, x)
    BY <1>2, <2>1 DEF RunNext
  <2>4. /\ RunUpwards(use, n, h, k, r) =>
             head = h + tested /\ tested < Size /\ k <= tested /\ NoRun(use, n, h, head)
        /\ RunWrapped(use, n, h, k, r) =>
             /\ tested = Size - h + head /\ head < h /\ k <= tested + 1
             /\ NoRun(use, n, h, Size) /\ NoRun(use, n, 0, head)
        /\ RunNone(use, n, k, r) =>
             head = 0 /\ tested >= Size /\ k <= Size + 1 /\ NoRun(use, n, 0, Size)
    BY <2>1 DEF RunUpwards, RunWrapped, RunNone
  <2>5. \/ RunUpwards(use, n, h, k, r)
        \/ RunWrapped(use, n, h, k, r)
        \/ RunNone(use, n, k, r)
    BY <1>2 DEF RunSearch
  <2>6. CASE head + n > Size
    <3>1. PICK t, end : t = tested + (Size - head) /\ end = "no"
      OBVIOUS
    <3>2. x = Pass(0, t, got, end)
      BY Zenon, <2>3, <2>6, <3>1 DEF RunPass
    <3>3. x.head = 0 /\ x.tested = t /\ x.got = got /\ x.end = "no"
      BY <3>1, <3>2, PassFields
    <3>4. t \in Nat
      BY <2>2, <3>1
    <3>5. PassType(x)
      <4>1. end \in {"no", "found", "full"} /\ 0 \in 0..Size /\ t \in Int
        BY <3>1, <3>4
      <4> QED BY <2>2, <3>2, <4>1, PassTyped
    <3>6. NoRun(use, n, head, Size)
      <4> SUFFICES ASSUME NEW a \in Nat, head <= a, a < Size, a..(a + n - 1) \subseteq use
                   PROVE  FALSE
        BY DEF NoRun
      <4>1. a + n - 1 \in a..(a + n - 1) /\ a + n - 1 >= Size
        BY <2>2, <2>6
      <4>2. a + n - 1 \in Idx
        BY <4>1
      <4> QED BY <4>1, <4>2 DEF Idx
    <3>7. CASE RunUpwards(use, n, h, k, r)
      <4>1. /\ head = h + tested /\ tested < Size /\ k <= tested /\ NoRun(use, n, h, head)
            /\ t = Size - h
        BY <2>2, <2>4, <3>1, <3>7
      <4>2. NoRun(use, n, h, Size)
        BY <2>2, <3>6, <4>1, NoRunJoin
      <4>3. CASE h = 0
        <5>1. RunNone(use, n, k + 1, x)
          BY <2>2, <3>3, <4>1, <4>2, <4>3 DEF RunNone
        <5> QED BY <3>3, <3>4, <3>5, <5>1 DEF RunSearch
      <4>4. CASE h # 0
        <5>1. NoRun(use, n, 0, 0)
          BY DEF NoRun
        <5>2. RunWrapped(use, n, h, k + 1, x)
          BY <2>2, <3>3, <4>1, <4>2, <4>4, <5>1 DEF RunWrapped
        <5> QED BY <3>3, <3>4, <3>5, <5>2 DEF RunSearch
      <4> QED BY <4>3, <4>4
    <3>8. CASE RunWrapped(use, n, h, k, r)
      <4>1. /\ tested = Size - h + head /\ head < h /\ k <= tested + 1
            /\ NoRun(use, n, 0, head)
        BY <2>4, <3>8
      <4>2. NoRun(use, n, 0, Size)
        BY <2>2, <3>6, <4>1, NoRunJoin
      <4>3. t >= Size /\ k + 1 <= Size + 1
        BY <2>2, <3>1, <4>1
      <4>4. RunNone(use, n, k + 1, x)
        BY <3>3, <4>2, <4>3 DEF RunNone
      <4> QED BY <3>3, <3>4, <3>5, <4>4 DEF RunSearch
    <3>9. ~RunNone(use, n, k, r)
      BY <2>2, <2>4, <2>6
    <3> QED BY <2>5, <3>7, <3>8, <3>9
  <2>7. CASE head + n <= Size /\ head..(head + n - 1) \subseteq use
    <3>1. PICK t, g, end : /\ t = tested + n /\ g = [j \in 1..n |-> head + j - 1]
                           /\ end = "found"
      OBVIOUS
    <3>2. x = Pass(head + n, t, g, end)
      BY Zenon, <2>3, <2>7, <3>1 DEF RunPass
    <3>3. x.head = head + n /\ x.tested = t /\ x.got = g /\ x.end = end
      BY <3>2, PassFields
    <3>4. g \in Seq(Idx)
      <4>1. g \in [1..n -> Idx]
        BY <2>2, <2>7, <3>1 DEF Idx
      <4> QED BY <2>2, <4>1, SeqDef
    <3>5. PassType(x) /\ t \in Nat
      <4>1. end \in {"no", "found", "full"} /\ head + n \in 0..Size /\ t \in Int /\ t \in Nat
        BY <2>2, <2>7, <3>1
      <4> QED BY <3>2, <3>4, <4>1, PassTyped
    <3>6. RunAt(use, n, g)
      BY Zenon, <2>2, <2>7, <3>1 DEF RunAt
    <3> QED BY <3>1, <3>3, <3>5, <3>6 DEF RunSearch
  <2>8. CASE head + n <= Size /\ ~(head..(head + n - 1) \subseteq use)
    <3>1. PICK e : e = << >>
      OBVIOUS
    <3>2. PICK y \in (head..(head + n - 1)) \ use :
            x = Pass(y + 1, tested + (y + 1 - head), e, EndOf(n, tested + (y + 1 - head), e))
      BY Zenon, <2>3, <2>8, <3>1 DEF RunPass
    <3>3. PICK t, end : t = tested + (y + 1 - head) /\ end = EndOf(n, t, e)
      OBVIOUS
    <3>4. x = Pass(y + 1, t, e, end)
      BY Zenon, <3>2, <3>3
    <3>5. x.head = y + 1 /\ x.tested = t /\ x.got = e /\ x.end = end
      BY <3>4, PassFields
    <3>6. /\ y \in Nat /\ head <= y /\ y <= head + n - 1 /\ y + 1 \in 0..Size
          /\ t \in Nat /\ t > tested
      BY <2>2, <2>8, <3>2, <3>3
    <3>7. PassType(x)
      <4>1. e \in Seq(Idx) /\ end \in {"no", "found", "full"} /\ t \in Int
        BY <3>1, <3>3, <3>6, EndTyped
      <4> QED BY <3>4, <3>6, <4>1, PassTyped
    <3>8. end = IF t >= Size THEN "full" ELSE "no"
      <4>1. Len(e) # n
        BY <3>1
      <4> QED BY <3>3, <4>1 DEF EndOf
    <3>9. NoRun(use, n, head, y + 1)
      <4> SUFFICES ASSUME NEW a \in Nat, head <= a, a < y + 1, a..(a + n - 1) \subseteq use
                   PROVE  FALSE
        BY DEF NoRun
      <4>1. y \in a..(a + n - 1)
        BY <2>2, <3>6
      <4> QED BY <3>2, <4>1
    <3>10. ASSUME t >= Size, NoRun(use, n, 0, Size) PROVE RunSearch(use, n, h, k + 1, x)
      BY <3>5, <3>6, <3>7, <3>8, <3>10 DEF RunSearch
    <3>11. CASE RunUpwards(use, n, h, k, r)
      <4>1. head = h + tested /\ tested < Size /\ k <= tested /\ NoRun(use, n, h, head)
        BY <2>4, <3>11
      <4>2. NoRun(use, n, h, y + 1) /\ y + 1 = h + t
        <5>1. y + 1 = h + t
          BY <2>2, <3>3, <3>6, <4>1
        <5>2. y + 1 \in Int /\ head \in Int /\ h \in Int
          BY <2>2, <3>6
        <5> QED BY <3>9, <4>1, <5>1, <5>2, NoRunJoin
      <4>3. CASE t >= Size
        <5>1. h = 0 /\ y + 1 = Size
          BY <2>2, <3>6, <4>2, <4>3
        <5> QED BY <3>10, <4>2, <4>3, <5>1
      <4>4. CASE t < Size
        <5>1. RunUpwards(use, n, h, k + 1, x)
          BY <2>2, <3>5, <3>6, <4>1, <4>2, <4>4 DEF RunUpwards
        <5>2. x.end = "no"
          BY <3>5, <3>6, <3>8, <4>4
        <5> QED BY <3>5, <3>6, <3>7, <5>1, <5>2 DEF RunSearch
      <4> QED BY <3>6, <4>3, <4>4
    <3>12. CASE RunWrapped(use, n, h, k, r)
      <4>1. /\ tested = Size - h + head /\ head < h /\ k <= tested + 1
            /\ NoRun(use, n, h, Size) /\ NoRun(use, n, 0, head)
        BY <2>4, <3>12
      <4>2. NoRun(use, n, 0, y + 1) /\ t = Size - h + (y + 1)
        <5>1. t = Size - h + (y + 1)
          BY <2>2, <3>3, <3>6, <4>1
        <5>2. y + 1 \in Int /\ head \in Int /\ 0 \in Int
          BY <2>2, <3>6
        <5> QED BY <3>9, <4>1, <5>1, <5>2, NoRunJoin
      <4>3. CASE t >= Size
        <5>1. y + 1 >= h
          BY <2>2, <3>6, <4>2, <4>3
        <5>2. NoRun(use, n, 0, Size)
          <6>1. y + 1 \in Int /\ h \in Int /\ 0 \in Int /\ Size \in Int
            BY <2>2, <3>6
          <6> QED BY <4>1, <4>2, <5>1, <6>1, NoRunJoin
        <5> QED BY <3>10, <4>3, <5>2
      <4>4. CASE t < Size
        <5>1. y + 1 < h /\ k + 1 <= t + 1
          BY <2>2, <3>6, <4>1, <4>2, <4>4
        <5>2. RunWrapped(use, n, h, k + 1, x)
          BY <3>5, <4>1, <4>2, <5>1 DEF RunWrapped
        <5>3. x.end = "no"
          BY <3>5, <3>6, <3>8, <4>4
        <5> QED BY <3>5, <3>6, <3>7, <5>2, <5>3 DEF RunSearch
      <4> QED BY <3>6, <4>3, <4>4
    <3>13. CASE RunNone(use, n, k, r)
      <4>1. tested >= Size /\ NoRun(use, n, 0, Size)
        BY <2>4, <3>13
      <4>2. t >= Size
        BY <2>2, <3>6, <4>1
      <4> QED BY <3>10, <4>1, <4>2
    <3> QED BY <2>5, <3>11, <3>12, <3>13
  <2> QED BY <2>2, <2>6, <2>7, <2>8
<1> QED BY <1>1, <1>2

RunFits(use, n) == \E a \in 0..(Size - n) : a..(a + n - 1) \subseteq use

RunSlot(use, n, slot) ==
  /\ slot # << >> <=> RunFits(use, n)
  /\ slot # << >> => /\ Len(slot) = n
                     /\ \A j, k \in 1..n : /\ slot[j] \in use
                                           /\ slot[j] = slot[k] => j = k
                                           /\ slot[k] - slot[j] = k - j

LEMMA RunSlotAt ==
  ASSUME Size \in Nat \ {0}, NEW use \in SUBSET Idx, NEW n \in Nat \ {0}, n <= Size,
         NEW slot, RunAt(use, n, slot)
  PROVE  RunSlot(use, n, slot)
<1>1. PICK a \in Nat : /\ a + n <= Size /\ a..(a + n - 1) \subseteq use
                       /\ slot = [k \in 1..n |-> a + k - 1]
  BY DEF RunAt
<1>2. RunFits(use, n)
  <2>1. a \in 0..(Size - n)
    BY <1>1
  <2> QED BY <1>1, <2>1 DEF RunFits
<1>3. Len(slot) = n /\ slot \in Seq(Int) /\ slot # << >>
  <2>1. slot \in [1..n -> Int]
    BY <1>1
  <2>2. slot \in Seq(Int) /\ Len(slot) = n
    BY <1>1, <2>1, SeqDef, LenProperties
  <2> QED BY <2>2
<1>4. ASSUME NEW j \in 1..n, NEW k \in 1..n
      PROVE  slot[j] \in use /\ (slot[j] = slot[k] => j = k) /\ slot[k] - slot[j] = k - j
  <2>1. slot[j] = a + j - 1 /\ slot[k] = a + k - 1 /\ j \in Int /\ k \in Int
    BY <1>1
  <2>2. a + j - 1 \in a..(a + n - 1)
    BY <2>1
  <2>3. slot[j] \in use
    BY <1>1, <2>1, <2>2
  <2>4. (slot[j] = slot[k] => j = k) /\ slot[k] - slot[j] = k - j
    BY <2>1
  <2> QED BY <2>3, <2>4
<1> QED BY <1>2, <1>3, <1>4 DEF RunSlot

LEMMA RunSlotNone ==
  ASSUME Size \in Nat \ {0}, NEW use, NEW n \in Nat \ {0}, n <= Size, NoRun(use, n, 0, Size)
  PROVE  RunSlot(use, n, << >>)
<1>1. ASSUME RunFits(use, n) PROVE FALSE
  <2>1. PICK a \in 0..(Size - n) : a..(a + n - 1) \subseteq use
    BY <1>1 DEF RunFits
  <2>2. a \in Nat /\ 0 <= a /\ a < Size
    BY <2>1
  <2> QED BY <2>1, <2>2 DEF NoRun
<1> QED BY <1>1 DEF RunSlot

LEMMA RunSlotFound ==
  ASSUME Size \in Nat \ {0}, NEW c, NEW head \in 0..Size, NEW n \in 1..Size
  PROVE  RunSlot(Usable(c), n, FindSlot(c, head, n, TRUE))
<1>1. PICK K, h, use, slot : /\ K = 2 * Size + 2 /\ h = StartOf(c, head, n) /\ use = Usable(c)
                             /\ slot = FindSlot(c, head, n, TRUE)
  OBVIOUS
<1>2. /\ K \in Nat /\ h \in 0..Size /\ n \in Nat \ {0} /\ n <= Size /\ Size \in Nat
      /\ use \in SUBSET Idx /\ K \in 0..K
  <2>1. n \in Nat /\ n # 0 /\ n <= Size
    OBVIOUS
  <2> QED BY <1>1, <2>1, StartType DEF Usable
<1>3. PICK f : /\ Passes(f, use, n, TRUE, h)
               /\ slot = IF n <= Size /\ f[K].end = "found" THEN f[K].got ELSE << >>
  BY <1>1, SearchLoop
<1>4. /\ f[0] = Pass(h, 0, << >>, "no")
      /\ \A k \in 1..K : f[k] = SearchStep(use, n, TRUE, f[k - 1])
  BY <1>1, <1>3 DEF Passes
<1> DEFINE T == {k \in 0..K : RunSearch(use, n, h, k, f[k])}
<1>5. 0 \in T /\ T \in SUBSET Nat
  <2>1. RunSearch(use, n, h, 0, f[0])
    BY <1>2, <1>4, RunFirst
  <2> QED BY <1>2, <2>1
<1>6. ASSUME NEW k \in T, k < K PROVE k + 1 \in T
  <2>1. PICK j : j = k + 1
    OBVIOUS
  <2>2. j \in 1..K /\ j \in 0..K /\ j - 1 = k /\ k \in Nat
    BY <1>2, <1>6, <2>1
  <2>3. f[j] = SearchStep(use, n, TRUE, f[k]) /\ RunSearch(use, n, h, k, f[k])
    BY <1>4, <2>2
  <2>4. RunNext(use, n, f[k], f[j])
    <3>1. PassType(f[k])
      BY <2>3 DEF RunSearch
    <3> QED BY <1>2, <2>3, <3>1, RunNextIs
  <2>5. RunSearch(use, n, h, j, f[j])
    BY <1>2, <2>1, <2>2, <2>3, <2>4, RunGoesOn
  <2> QED BY <2>1, <2>2, <2>5
<1>7. RunSearch(use, n, h, K, f[K])
  <2>1. \A k \in 0..K : k \in T
    <3> HIDE DEF T
    <3> QED BY <1>2, <1>5, <1>6, CountingTo
  <2> QED BY <1>2, <2>1
<1>8. PICK r : r = f[K]
  OBVIOUS
<1>9. PassType(r) /\ r.end \in {"no", "found", "full"} /\ r.head \in 0..Size /\ r.tested \in Int
  BY <1>7, <1>8, PassParts DEF RunSearch
<1>10. r.end # "no"
  <2> SUFFICES ASSUME r.end = "no" PROVE FALSE
    OBVIOUS
  <2>1. K <= Size + 1
    BY <1>2, <1>7, <1>8, <1>9 DEF RunSearch, RunUpwards, RunWrapped, RunNone
  <2> QED BY <1>1, <1>2, <2>1
<1>11. CASE r.end = "found"
  <2>1. slot = r.got /\ RunAt(use, n, slot)
    BY <1>2, <1>3, <1>7, <1>8, <1>11 DEF RunSearch
  <2>2. RunSlot(use, n, slot)
    BY <1>2, <2>1, RunSlotAt
  <2> QED BY Zenon, <1>1, <2>2
<1>12. CASE r.end = "full"
  <2>1. slot = << >>
    BY <1>3, <1>8, <1>12
  <2>2. NoRun(use, n, 0, Size)
    BY <1>7, <1>8, <1>12 DEF RunSearch
  <2>3. RunSlot(use, n, slot)
    BY <1>2, <2>1, <2>2, RunSlotNone
  <2> QED BY Zenon, <1>1, <2>3
<1> QED BY <1>9, <1>10, <1>11, <1>12

-----------------------------------------------------------------------------
(***************************************************************************)
(* What every call keeps: a search starts inside the table, or at its end. *)
(***************************************************************************)
HeadsTyped == heads \in [Streams -> 0..Size]

SlotInv == opt \in Options /\ HeadsTyped /\ Len(saved.cells) \in Nat

LEMMA SizeType == ASSUME opt \in Options PROVE Size \in Nat \ {0} /\ opt.split \in BOOLEAN
BY CellsAssumption DEF Size

LEMMA SlotInvEnough == ASSUME SlotInv PROVE SlotIfAny
<1>1. Size \in Nat \ {0} /\ heads \in [Streams -> 0..Size]
  BY SizeType DEF SlotInv, HeadsTyped
<1> SUFFICES ASSUME NEW s \in Streams, NEW n \in 1..Size, NEW cont \in BOOLEAN
             PROVE  LET slot  == FindSlot(cells[s], heads[s], n, cont)
                        free  == Usable(cells[s])
                        fits  == IF cont THEN RunFits(free, n) ELSE Cardinality(free) >= n
                    IN  /\ slot # << >> <=> fits
                        /\ slot # << >> =>
                             /\ Len(slot) = n
                             /\ \A j, k \in 1..n : /\ slot[j] \in free
                                                   /\ slot[j] = slot[k] => j = k
                                                   /\ cont /\ j < k => slot[k] - slot[j] = k - j
  BY Zenon DEF SlotIfAny, Usable, RunFits
<1>2. PICK c, head : c = cells[s] /\ head = heads[s]
  OBVIOUS
<1>3. head \in 0..Size
  BY <1>1, <1>2
<1>4. PICK slot, free : slot = FindSlot(c, head, n, cont) /\ free = Usable(c)
  OBVIOUS
<1>5. CASE cont = TRUE
  <2>1. RunSlot(Usable(c), n, FindSlot(c, head, n, TRUE))
    BY <1>1, <1>3, RunSlotFound
  <2>2. RunSlot(free, n, slot)
    BY Zenon, <1>4, <1>5, <2>1
  <2> QED BY Zenon, <1>2, <1>4, <1>5, <2>2 DEF RunSlot
<1>6. CASE cont = FALSE
  <2>1. AnySlot(Usable(c), n, FindSlot(c, head, n, FALSE))
    BY <1>1, <1>3, AnySlotFound
  <2>2. AnySlot(free, n, slot)
    BY Zenon, <1>4, <1>6, <2>1
  <2> QED BY Zenon, <1>2, <1>4, <1>6, <2>2 DEF AnySlot
<1> QED BY Zenon, <1>5, <1>6

-----------------------------------------------------------------------------
(***************************************************************************)
(* The calls other than decode.                                            *)
(***************************************************************************)
LEMMA FreedLeast ==
  ASSUME Size \in Nat \ {0}, NEW c, NEW n, Freed(c, n) # {}
  PROVE  Least(Freed(c, n)) \in 0..Size
<1>1. Freed(c, n) \subseteq Idx
  BY DEF Freed, Used
<1>2. \A i \in Idx : i \in Nat /\ i \in 0..Size
  BY DEF Idx
<1>3. Least(Freed(c, n)) \in Freed(c, n)
  BY <1>1, <1>2, LeastIs
<1> QED BY <1>1, <1>2, <1>3

LEMMA HeadAfterTyped ==
  ASSUME Size \in Nat \ {0}, NEW c, NEW n, NEW head \in 0..Size
  PROVE  HeadAfter(c, n, head) \in 0..Size
BY FreedLeast DEF HeadAfter

LEMMA StreamOf == ASSUME NEW q \in Seqs PROVE Strm(q) \in Streams
BY DEF Strm, Streams

LEMMA OptKept == ASSUME UNCHANGED opt PROVE Streams' = Streams /\ Size' = Size
BY DEF Streams, Size

LEMMA HeadSet ==
  ASSUME SlotInv, UNCHANGED << opt, saved >>, NEW s \in Streams, NEW head \in 0..Size,
         heads' = [heads EXCEPT ![s] = head]
  PROVE  SlotInv'
<1>1. heads' \in [Streams -> 0..Size]
  BY DEF SlotInv, HeadsTyped
<1> QED BY <1>1, OptKept DEF SlotInv, HeadsTyped

LEMMA HeadsSet ==
  ASSUME SlotInv, UNCHANGED << opt, saved >>, heads' \in [Streams -> 0..Size]
  PROVE  SlotInv'
BY OptKept DEF SlotInv, HeadsTyped

LEMMA ClearSlot == ASSUME SlotInv, DoClear PROVE SlotInv'
<1>1. heads' \in [Streams -> 0..Size]
  BY SizeType DEF SlotInv, DoClear
<1> QED BY <1>1, HeadsSet DEF DoClear

LEMMA RmSlot ==
  ASSUME SlotInv, NEW q \in Seqs, NEW p0, NEW p1, DoSeqRm(q, p0, p1)
  PROVE  SlotInv'
<1>1. PICK s, c : s = Strm(q) /\ c = CellsRm(cells[s], q, p0, p1)
  OBVIOUS
<1>2. heads' = [heads EXCEPT ![s] = HeadAfter(cells[s], c, heads[s])]
  BY <1>1 DEF DoSeqRm, Tabled
<1>3. s \in Streams /\ heads[s] \in 0..Size /\ Size \in Nat \ {0}
  BY <1>1, StreamOf, SizeType DEF SlotInv, HeadsTyped
<1>4. UNCHANGED << opt, saved >>
  BY DEF DoSeqRm
<1> QED BY <1>2, <1>3, <1>4, HeadAfterTyped, HeadSet

LEMMA KeepSlot ==
  ASSUME SlotInv, NEW q \in Seqs, DoSeqKeep(q)
  PROVE  SlotInv'
<1>1. PICK s, c : s = Strm(q) /\ c = CellsKeep(cells[s], q)
  OBVIOUS
<1>2. heads' = [heads EXCEPT ![s] = HeadAfter(cells[s], c, heads[s])]
  BY <1>1 DEF DoSeqKeep, Tabled
<1>3. s \in Streams /\ heads[s] \in 0..Size /\ Size \in Nat \ {0}
  BY <1>1, StreamOf, SizeType DEF SlotInv, HeadsTyped
<1>4. UNCHANGED << opt, saved >>
  BY DEF DoSeqKeep
<1> QED BY <1>2, <1>3, <1>4, HeadAfterTyped, HeadSet

LEMMA AddSlot ==
  ASSUME SlotInv, NEW q \in Seqs, NEW p0, NEW p1, NEW d, DoSeqAdd(q, p0, p1, d)
  PROVE  SlotInv'
<1>1. PICK s, c : s = Strm(q) /\ c = CellsAdd(cells[s], q, p0, p1, d)
  OBVIOUS
<1>2. PICK head : head = IF Freed(cells[s], c) = {} THEN 0 ELSE Least(Freed(cells[s], c))
  OBVIOUS
<1>3. heads' = [heads EXCEPT ![s] = head]
  BY <1>1, <1>2 DEF DoSeqAdd, Tabled
<1>4. s \in Streams /\ Size \in Nat \ {0}
  BY <1>1, StreamOf, SizeType DEF SlotInv
<1>5. head \in 0..Size
  BY <1>2, <1>4, FreedLeast
<1>6. UNCHANGED << opt, saved >>
  BY DEF DoSeqAdd
<1> QED BY <1>3, <1>4, <1>5, <1>6, HeadSet

LEMMA RmAnySlot ==
  ASSUME SlotInv, NEW p0, NEW p1, DoRmAny(p0, p1)
  PROVE  SlotInv'
<1>1. Size \in Nat \ {0} /\ heads \in [Streams -> 0..Size]
  BY SizeType DEF SlotInv, HeadsTyped
<1>2. heads' = [s \in Streams |-> HeadAfter(cells[s], cells'[s], heads[s])]
  BY DEF DoRmAny
<1>3. \A s \in Streams : HeadAfter(cells[s], cells'[s], heads[s]) \in 0..Size
  BY <1>1, HeadAfterTyped
<1>4. heads' \in [Streams -> 0..Size]
  BY <1>2, <1>3
<1>5. UNCHANGED << opt, saved >>
  BY DEF DoRmAny
<1> QED BY <1>4, <1>5, HeadsSet

LEMMA CpStreamsSlot ==
  ASSUME SlotInv, NEW src \in Seqs, NEW dst \in Seqs, DoSeqCpStreams(src, dst)
  PROVE  SlotInv'
<1>1. heads' = [heads EXCEPT ![dst] = heads[src]] /\ UNCHANGED << opt, saved >>
  BY DEF DoSeqCpStreams
<1>2. src \in Streams /\ dst \in Streams
  BY DEF DoSeqCpStreams, Streams
<1>3. heads[src] \in 0..Size
  BY <1>2 DEF SlotInv, HeadsTyped
<1> QED BY <1>1, <1>2, <1>3, HeadSet

LEMMA SaveSlot ==
  ASSUME SlotInv, NEW q \in Seqs, DoSave(q)
  PROVE  SlotInv'
<1>1. PICK s, held : s = Strm(q) /\ held = HeldBy(cells[s], q)
  OBVIOUS
<1>2. Cardinality(held) \in Nat
  <2>1. held \subseteq Idx /\ Size \in Nat
    BY <1>1, SizeType DEF HeldBy, SlotInv
  <2>2. IsFiniteSet(Idx)
    BY <2>1, FS_Interval DEF Idx
  <2> QED BY <2>1, <2>2, FS_Subset, FS_CardinalityType
<1> DEFINE nth(n) == CHOOSE i \in held : Cardinality({j \in held : j < i}) = n - 1
           E(n) == [pos |-> cells[s][nth(n)].pos, data |-> data[s][nth(n)]]
<1>3. saved'.cells = [n \in 1..Cardinality(held) |-> E(n)]
  BY <1>1 DEF DoSave
<1> HIDE DEF E
<1>4. Len(saved'.cells) = Cardinality(held)
  BY <1>2, <1>3
<1>5. UNCHANGED << opt, heads >>
  BY DEF DoSave
<1> QED BY <1>2, <1>4, <1>5, OptKept DEF SlotInv, HeadsTyped

LEMMA LoadSlot ==
  ASSUME SlotInv, NEW q \in Seqs, DoLoad(q)
  PROVE  SlotInv'
<1>1. PICK s, n, c : /\ s = Strm(q) /\ n = Len(saved.cells)
                     /\ c = CellsRm(cells[s], q, 0, Inf)
  OBVIOUS
<1>2. PICK head, cont : head = HeadAfter(cells[s], c, heads[s]) /\ cont = TRUE
  OBVIOUS
<1>3. PICK slot : slot = FindSlot(c, head, n, cont)
  OBVIOUS
<1>4. IF slot = << >> THEN heads' = [heads EXCEPT ![s] = head]
      ELSE heads' = [heads EXCEPT ![s] = slot[1]]
  BY Zenon, <1>1, <1>2, <1>3 DEF DoLoad, Tabled
<1>5. s \in Streams /\ heads[s] \in 0..Size /\ Size \in Nat \ {0} /\ n \in Nat
  BY <1>1, StreamOf, SizeType DEF SlotInv, HeadsTyped
<1>6. head \in 0..Size
  BY <1>2, <1>5, HeadAfterTyped
<1>7. slot \in Seq(Idx)
  <2>1. cont \in BOOLEAN
    BY Zenon, <1>2
  <2>2. Size \in Nat
    BY <1>5
  <2> QED BY Zenon, <1>3, <1>5, <1>6, <2>1, <2>2, SlotTyped
<1>8. slot # << >> => slot[1] \in 0..Size
  <2> SUFFICES ASSUME slot # << >> PROVE slot[1] \in 0..Size
    OBVIOUS
  <2>1. 1 \in 1..Len(slot)
    BY <1>7
  <2>2. slot[1] \in Idx
    BY <1>7, <2>1, ElementOfSeq
  <2> QED BY <1>5, <2>2 DEF Idx
<1>9. heads' \in [Streams -> 0..Size]
  <2>1. heads \in [Streams -> 0..Size]
    BY DEF SlotInv, HeadsTyped
  <2> QED BY <1>4, <1>5, <1>6, <1>8, <2>1
<1>10. UNCHANGED opt /\ saved' = NoState
  BY DEF DoLoad
<1>11. Len(saved'.cells) \in Nat
  BY <1>10 DEF NoState
<1> QED BY <1>9, <1>10, <1>11, OptKept DEF SlotInv, HeadsTyped

-----------------------------------------------------------------------------
(***************************************************************************)
(* A batch: its groups name streams, and are no more than there are.       *)
(***************************************************************************)
LEMMA NthExists ==
  ASSUME NEW S \in SUBSET Nat, IsFiniteSet(S)
  PROVE  \A n \in Nat : n < Cardinality(S) =>
           \E x \in S : Cardinality({y \in S : y < x}) = n
<1> DEFINE Below(x) == {y \in S : y < x}
           T == {n \in Nat : n < Cardinality(S) => \E x \in S : Cardinality(Below(x)) = n}
<1>1. T \in SUBSET Nat /\ Cardinality(S) \in Nat
  BY FS_CardinalityType
<1>2. 0 \in T
  <2> SUFFICES ASSUME 0 < Cardinality(S) PROVE \E x \in S : Cardinality(Below(x)) = 0
    OBVIOUS
  <2>1. S # {}
    BY FS_EmptySet
  <2>2. PICK x \in S : \A y \in S : x <= y
    BY <2>1, LeastIs
  <2>3. Below(x) = {}
    <3>1. ASSUME NEW y \in S PROVE ~(y < x)
      BY <2>2
    <3> QED BY <3>1
  <2>4. Cardinality(Below(x)) = 0
    BY <2>3, FS_EmptySet
  <2> QED BY <2>4
<1>3. ASSUME NEW n \in T PROVE n + 1 \in T
  <2> SUFFICES ASSUME n + 1 < Cardinality(S)
               PROVE  \E x \in S : Cardinality(Below(x)) = n + 1
    OBVIOUS
  <2>1. n \in Nat /\ n < Cardinality(S)
    BY <1>1
  <2>2. PICK x \in S : Cardinality(Below(x)) = n
    BY <2>1
  <2>3. PICK B : B = Below(x) \cup {x}
    OBVIOUS
  <2>4. IsFiniteSet(Below(x)) /\ x \notin Below(x) /\ B \subseteq S
    BY <2>3, FS_Subset
  <2>5. Cardinality(B) = n + 1
    BY <2>2, <2>3, <2>4, FS_AddElement
  <2>6. B # S
    BY <2>5
  <2> DEFINE U == S \ B
  <2>7. U # {} /\ U \subseteq Nat
    BY <2>4, <2>6
  <2>8. PICK z \in U : \A y \in U : z <= y
    <3> HIDE DEF U
    <3> QED BY <2>7, LeastIs
  <2>9. ASSUME NEW y \in S PROVE y < z <=> y \in B
    <3>1. x \in Nat /\ y \in Nat /\ z \in Nat /\ ~(z < x) /\ z # x
      BY <2>3, <2>8
    <3>2. y \in B <=> y < x \/ y = x
      BY <2>3
    <3>3. y \notin B => z <= y
      BY <2>8
    <3> QED BY <3>1, <3>2, <3>3
  <2>10. Below(z) = B
    BY <2>4, <2>9
  <2> QED BY <2>5, <2>8, <2>10
<1>4. \A n \in Nat : n \in T
  <2> HIDE DEF T
  <2> QED BY <1>1, <1>2, <1>3, Counting
<1> QED BY <1>4

LEMMA StreamsCounted ==
  ASSUME opt \in Options
  PROVE  /\ Streams \subseteq Nat /\ IsFiniteSet(Streams)
         /\ \A g \in 1..Cardinality(Streams) : g - 1 \in Streams
<1>1. /\ IsFiniteSet(Seqs) /\ Cardinality(Seqs) \in Nat
      /\ Seqs = 0..(Cardinality(Seqs) - 1)
  BY CellsAssumption, FS_CardinalityType
<1>2. CASE opt.split
  <2>1. Streams = Seqs
    BY <1>2 DEF Streams
  <2> QED BY <1>1, <2>1
<1>3. CASE ~opt.split
  <2>1. Streams = {0}
    BY <1>3 DEF Streams
  <2>2. IsFiniteSet(Streams) /\ Cardinality(Streams) = 1
    BY <2>1, FS_Singleton
  <2> QED BY <2>1, <2>2
<1> QED BY <1>2, <1>3

GroupTyped(g, x) == g \in Nat /\ g - 1 \in Streams /\ x.strm \in Streams /\ Len(x.toks) \in Nat

BatchTyped(b) ==
  Len(b) \in Nat /\ \A k \in 1..Len(b) : \A g \in DOMAIN b[k] : GroupTyped(g, b[k][g])

LEMMA BatchIsTyped ==
  ASSUME opt \in Options, NEW ss \in Tokens, NEW m \in 1..Len(ss)
  PROVE  BatchTyped(Batch(ss, m))
<1> DEFINE pos(k, q) == NextPos(q) + Cardinality({j \in 1..(k - 1) : q \in ss[j]})
           tok(k) == [pos |-> pos(k, CHOOSE q \in ss[k] : TRUE), seqs |-> ss[k]]
           part(u) == {k \in DOMAIN ss : (k - 1) \div m = u - 1}
           strms(u) == {Strm(q) : q \in UNION {ss[k] : k \in part(u)}}
           of(u, s) == {k \in part(u) : \E q \in ss[k] : Strm(q) = s}
           nth(S, n) == CHOOSE x \in S : Cardinality({y \in S : y < x}) = n - 1
           toks(u, s) == [j \in 1..Cardinality(of(u, s)) |-> tok(nth(of(u, s), j))]
           grp(u, g) == [strm |-> nth(strms(u), g), toks |-> toks(u, nth(strms(u), g))]
           ub(u) == [g \in 1..Cardinality(strms(u)) |-> grp(u, g)]
           N == (Len(ss) + m - 1) \div m
<1>1. PICK b : b = Batch(ss, m)
  OBVIOUS
<1>2. b = [u \in 1..N |-> ub(u)]
  BY Zenon, <1>1 DEF Batch
<1>3. /\ Len(ss) \in Nat /\ DOMAIN ss = 1..Len(ss) /\ m \in Nat \ {0}
      /\ \A k \in DOMAIN ss : ss[k] \subseteq Seqs
  BY CellsAssumption DEF Tokens
<1>4. N \in Nat
  BY <1>3
<1>5. ASSUME NEW u PROVE strms(u) \subseteq Streams
  BY <1>3, StreamOf
<1>6. ASSUME NEW u, NEW s PROVE Cardinality(of(u, s)) \in Nat
  <2>1. IsFiniteSet(DOMAIN ss)
    BY <1>3, FS_Interval
  <2>2. of(u, s) \subseteq DOMAIN ss
    OBVIOUS
  <2> HIDE DEF of
  <2> QED BY <2>1, <2>2, FS_Subset, FS_CardinalityType
<1>7. ASSUME NEW u, NEW s PROVE Len(toks(u, s)) \in Nat
  <2> HIDE DEF of, tok
  <2> QED BY <1>6
<1>8. ASSUME NEW u, NEW g \in 1..Cardinality(strms(u)) PROVE GroupTyped(g, grp(u, g))
  <2>1. PICK S : S = strms(u)
    OBVIOUS
  <2>2. S \subseteq Streams /\ S \in SUBSET Nat /\ IsFiniteSet(S)
    BY <1>5, <2>1, StreamsCounted, FS_Subset
  <2>3. Cardinality(S) <= Cardinality(Streams) /\ Cardinality(S) \in Nat
        /\ Cardinality(Streams) \in Nat
    BY <2>2, StreamsCounted, FS_Subset, FS_CardinalityType
  <2>4. g \in Nat /\ g - 1 \in Nat /\ g - 1 < Cardinality(S) /\ g \in 1..Cardinality(Streams)
    BY <2>1, <2>3
  <2>5. g - 1 \in Streams
    BY <2>4, StreamsCounted
  <2>6. \E x \in S : Cardinality({y \in S : y < x}) = g - 1
    BY <2>2, <2>4, NthExists
  <2>7. nth(S, g) \in S
    BY <2>6
  <2>8. PICK x : x = grp(u, g)
    OBVIOUS
  <2>9. x.strm = nth(S, g) /\ x.toks = toks(u, nth(S, g))
    <3> HIDE DEF nth, toks, strms
    <3> QED BY <2>1, <2>8
  <2>10. Len(x.toks) \in Nat
    <3> HIDE DEF toks, nth
    <3> QED BY <1>7, <2>9
  <2> HIDE DEF grp
  <2> QED BY <2>2, <2>4, <2>5, <2>7, <2>8, <2>9, <2>10 DEF GroupTyped
<1>9. ASSUME NEW k \in 1..N, NEW g \in DOMAIN b[k] PROVE GroupTyped(g, b[k][g])
  <2>1. b[k] = ub(k)
    BY Zenon, <1>2
  <2>2. g \in 1..Cardinality(strms(k)) /\ b[k][g] = grp(k, g)
    <3> HIDE DEF strms, grp
    <3> QED BY <2>1
  <2> HIDE DEF strms, grp
  <2> QED BY <1>8, <2>2
<1>10. Len(b) = N
  <2> HIDE DEF ub, N
  <2> QED BY <1>2, <1>4
<1>11. BatchTyped(b)
  <2> HIDE DEF N
  <2> QED BY <1>4, <1>9, <1>10 DEF BatchTyped
<1> QED BY <1>1, <1>11

-----------------------------------------------------------------------------
(***************************************************************************)
(* prepare and the ubatches of a batch keep the heads inside the table.    *)
(***************************************************************************)
UbTyped(ub) == \A g \in DOMAIN ub : GroupTyped(g, ub[g])

SlotsTyped(sl, ub) == \A g \in DOMAIN ub : sl[g] \in Seq(Idx) /\ sl[g] # << >>

LEMMA AppliedHeads ==
  ASSUME Size \in Nat \ {0}, NEW hs \in [Streams -> 0..Size], NEW ub, NEW sl,
         SlotsTyped(sl, ub)
  PROVE  ApplyHeads(hs, ub, sl) \in [Streams -> 0..Size]
<1>1. ASSUME NEW s \in Streams, GroupOf(ub, s) # {},
             NEW g, g = CHOOSE y \in GroupOf(ub, s) : TRUE
      PROVE  sl[g][Len(sl[g])] + 1 \in 0..Size
  <2>1. g \in DOMAIN ub
    BY <1>1 DEF GroupOf
  <2>2. PICK q : q = sl[g]
    OBVIOUS
  <2>3. q \in Seq(Idx) /\ q # << >>
    BY <2>1, <2>2 DEF SlotsTyped
  <2>4. Len(q) \in 1..Len(q)
    BY <2>3
  <2>5. q[Len(q)] \in Idx
    BY <2>3, <2>4, ElementOfSeq
  <2>6. q[Len(q)] + 1 \in 0..Size
    BY <2>5 DEF Idx
  <2> QED BY <2>2, <2>6
<1> QED BY <1>1 DEF ApplyHeads

LEMMA SlotsAreTyped ==
  ASSUME Size \in Nat \ {0}, NEW cs, NEW hs \in [Streams -> 0..Size], NEW ub, UbTyped(ub),
         NEW sl, sl = FindSlots(cs, hs, ub), SlotsFound(sl)
  PROVE  SlotsTyped(sl, ub)
<1> SUFFICES ASSUME NEW g \in DOMAIN ub PROVE sl[g] \in Seq(Idx) /\ sl[g] # << >>
  BY DEF SlotsTyped
<1>1. PICK c, head, n, cont : /\ c = cs[ub[g].strm] /\ head = hs[ub[g].strm]
                              /\ n = Len(ub[g].toks) /\ cont = FALSE
  OBVIOUS
<1>2. sl[g] = FindSlot(c, head, n, cont) /\ g \in DOMAIN sl
  BY Zenon, <1>1 DEF FindSlots
<1>3. head \in 0..Size /\ n \in Nat /\ Size \in Nat
  BY <1>1 DEF UbTyped, GroupTyped
<1>4. cont \in BOOLEAN
  BY Zenon, <1>1
<1>5. sl[g] \in Seq(Idx)
  BY Zenon, <1>2, <1>3, <1>4, SlotTyped
<1> QED BY <1>2, <1>5 DEF SlotsFound

(* The log of prepare. *)
EntryTyped(e, ub) == e.heads \in [Streams -> 0..Size] /\ SlotsTyped(e.slots, ub)

LogTyped(lg, b, k) ==
  /\ \E S : lg \in Seq(S)
  /\ Len(lg) <= k
  /\ \A j \in 1..Len(lg) : EntryTyped(lg[j], b[j])

Trial(ok, cs, hs, lg) == [ok |-> ok, cells |-> cs, heads |-> hs, log |-> lg]

Refusal(st) == [st EXCEPT !.ok = FALSE]

Entry(sl, cs, hs) == [slots |-> sl, cells |-> cs, heads |-> hs]

TryStep(st, ub) ==
  LET sl == FindSlots(st.cells, st.heads, ub)
  IN  IF ~st.ok THEN st
      ELSE IF ~SlotsFound(sl) THEN Refusal(st)
      ELSE Trial(TRUE, ApplyCells(st.cells, ub, sl), ApplyHeads(st.heads, ub, sl),
                 Append(st.log, Entry(sl, st.cells, st.heads)))

TrialTyped(st, b, k) ==
  \E ok, cs, hs, lg : /\ st = Trial(ok, cs, hs, lg) /\ ok \in BOOLEAN
                      /\ hs \in [Streams -> 0..Size] /\ LogTyped(lg, b, k)
                      /\ ok => Len(lg) = k

LEMMA TrialFields ==
  ASSUME NEW ok, NEW cs, NEW hs, NEW lg, NEW st, st = Trial(ok, cs, hs, lg)
  PROVE  st.ok = ok /\ st.cells = cs /\ st.heads = hs /\ st.log = lg
BY DEF Trial

FullLog(lg, b, k) == LogTyped(lg, b, k) /\ Len(lg) = k

LEMMA LogGrows ==
  ASSUME NEW lg, NEW b, NEW k \in Nat, FullLog(lg, b, k),
         NEW e, EntryTyped(e, b[k + 1]), NEW x, x = Append(lg, e)
  PROVE  FullLog(x, b, k + 1)
<1>0. LogTyped(lg, b, k) /\ Len(lg) = k
  BY DEF FullLog
<1>1. PICK S : lg \in Seq(S)
  BY <1>0 DEF LogTyped
<1>2. PICK R : R = S \cup {e}
  OBVIOUS
<1>3. lg \in Seq(R) /\ e \in R
  <2>1. lg \in [1..k -> S]
    BY <1>0, <1>1, LenProperties
  <2>2. lg \in [1..k -> R]
    BY <1>2, <2>1
  <2> QED BY <1>2, <2>2, SeqDef
<1>4. /\ x \in Seq(R) /\ Len(x) = k + 1 /\ x[k + 1] = e
      /\ \A j \in 1..k : x[j] = lg[j]
  BY <1>0, <1>3, AppendProperties
<1>5. ASSUME NEW j \in 1..(k + 1) PROVE EntryTyped(x[j], b[j])
  <2>1. j \in 1..k \/ j = k + 1
    OBVIOUS
  <2>2. CASE j \in 1..k
    <3>1. EntryTyped(lg[j], b[j])
      BY <1>0, <2>2 DEF LogTyped
    <3> QED BY <1>4, <2>2, <3>1
  <2>3. CASE j = k + 1
    BY <1>4, <2>3
  <2> QED BY <2>1, <2>2, <2>3
<1>6. k + 1 <= k + 1
  OBVIOUS
<1> QED BY <1>4, <1>5, <1>6 DEF FullLog, LogTyped

LEMMA LogWaits ==
  ASSUME NEW lg, NEW b, NEW k \in Nat, LogTyped(lg, b, k)
  PROVE  LogTyped(lg, b, k + 1)
<1>1. Len(lg) \in Nat
  BY LenProperties DEF LogTyped
<1>2. Len(lg) <= k + 1
  BY <1>1 DEF LogTyped
<1> QED BY <1>2 DEF LogTyped

LEMMA TryTyped ==
  ASSUME Size \in Nat \ {0}, NEW b, NEW k \in Nat, UbTyped(b[k + 1]), NEW st,
         TrialTyped(st, b, k), NEW x, x = TryStep(st, b[k + 1])
  PROVE  TrialTyped(x, b, k + 1)
<1>1. PICK ok, cs, hs, lg : /\ st = Trial(ok, cs, hs, lg) /\ ok \in BOOLEAN
                            /\ hs \in [Streams -> 0..Size] /\ LogTyped(lg, b, k)
                            /\ ok => Len(lg) = k
  BY Zenon DEF TrialTyped
<1>2. st.ok = ok /\ st.cells = cs /\ st.heads = hs /\ st.log = lg
  <2>1. st = Trial(ok, cs, hs, lg)
    BY Zenon, <1>1
  <2> QED BY <2>1, TrialFields
<1>3. PICK ub, sl : ub = b[k + 1] /\ sl = FindSlots(cs, hs, ub)
  OBVIOUS
<1>4. LogTyped(lg, b, k + 1)
  BY <1>1, LogWaits
<1>5. CASE ok = FALSE
  <2>1. x = Trial(ok, cs, hs, lg)
    BY Zenon, <1>1, <1>2, <1>5 DEF TryStep
  <2> QED BY Zenon, <1>1, <1>4, <1>5, <2>1 DEF TrialTyped
<1>6. CASE ok = TRUE /\ ~SlotsFound(sl)
  <2>1. x = Refusal(st)
    BY Zenon, <1>2, <1>3, <1>6 DEF TryStep
  <2>2. PICK no : no = FALSE
    OBVIOUS
  <2>3. x = [st EXCEPT !.ok = no]
    BY Zenon, <2>1, <2>2 DEF Refusal
  <2>4. x = Trial(no, cs, hs, lg)
    BY <1>1, <2>3 DEF Trial
  <2> QED BY Zenon, <1>1, <1>4, <2>2, <2>4 DEF TrialTyped
<1>7. CASE ok = TRUE /\ SlotsFound(sl)
  <2>1. PICK yes, e, as, ah, l : /\ yes = TRUE /\ e = Entry(sl, cs, hs)
                                 /\ as = ApplyCells(cs, ub, sl)
                                 /\ ah = ApplyHeads(hs, ub, sl) /\ l = Append(lg, e)
    OBVIOUS
  <2>2. x = Trial(yes, as, ah, l)
    BY Zenon, <1>2, <1>3, <1>7, <2>1 DEF TryStep
  <2>3. SlotsTyped(sl, ub)
    BY <1>1, <1>3, <1>7, SlotsAreTyped
  <2>4. ah \in [Streams -> 0..Size]
    BY <1>1, <2>1, <2>3, AppliedHeads
  <2>5. EntryTyped(e, b[k + 1])
    BY <1>1, <1>3, <2>1, <2>3 DEF EntryTyped, Entry
  <2>6. LogTyped(l, b, k + 1) /\ Len(l) = k + 1
    <3>1. Len(lg) = k /\ LogTyped(lg, b, k) /\ l = Append(lg, e)
      BY Zenon, <1>1, <1>7, <2>1
    <3>2. FullLog(lg, b, k)
      BY <3>1 DEF FullLog
    <3>3. FullLog(l, b, k + 1)
      BY <2>5, <3>1, <3>2, LogGrows
    <3> QED BY <3>3 DEF FullLog
  <2>7. yes \in BOOLEAN
    BY Zenon, <2>1
  <2> QED BY Zenon, <2>2, <2>4, <2>6, <2>7 DEF TrialTyped
<1> QED BY Zenon, <1>1, <1>5, <1>6, <1>7

LEMMA TriedTyped ==
  ASSUME Size \in Nat \ {0}, NEW cs, NEW hs \in [Streams -> 0..Size], NEW b, BatchTyped(b)
  PROVE  TrialTyped(Tried(cs, hs, b), b, Len(b))
<1> DEFINE start == Trial(TRUE, cs, hs, << >>)
           G(st, k) == TryStep(st, b[k])
           F(g, l) == [k \in 0..l |-> IF k = 0 THEN start ELSE G(g[k - 1], k)]
           T == {l \in Nat : \E g : g = F(g, l)}
<1>0. PICK N : N = Len(b)
  OBVIOUS
<1>1. N \in Nat /\ \A k \in 1..N : UbTyped(b[k])
  BY <1>0 DEF BatchTyped, UbTyped
<1>2. 0 \in T
  <2> HIDE DEF G, start
  <2>1. PICK h : h = [k \in 0..0 |-> start]
    OBVIOUS
  <2>2. h = F(h, 0)
    BY <2>1
  <2> HIDE DEF F
  <2> QED BY <2>2
<1>3. ASSUME NEW l \in T PROVE l + 1 \in T
  <2> HIDE DEF G, start
  <2>1. PICK g : g = F(g, l)
    OBVIOUS
  <2>2. PICK h : h = F(g, l + 1)
    OBVIOUS
  <2>3. l \in Nat /\ l + 1 \in Nat
    OBVIOUS
  <2>4. ASSUME NEW k \in 0..(l + 1), k # 0 PROVE h[k - 1] = g[k - 1]
    <3>1. PICK i : i = k - 1
      OBVIOUS
    <3>2. i \in 0..l /\ i \in 0..(l + 1)
      BY <2>3, <2>4, <3>1
    <3>3. g[i] = IF i = 0 THEN start ELSE G(g[i - 1], i)
      BY <2>1, <3>2
    <3>4. h[i] = IF i = 0 THEN start ELSE G(g[i - 1], i)
      BY <2>2, <3>2
    <3> QED BY <3>1, <3>3, <3>4
  <2>5. h = F(h, l + 1)
    BY <2>2, <2>4
  <2> HIDE DEF F
  <2> QED BY <2>3, <2>5
<1>4. \E g : g = F(g, N)
  <2>1. T \in SUBSET Nat
    OBVIOUS
  <2>2. N \in T
    <3> HIDE DEF T
    <3> QED BY <1>1, <1>2, <1>3, <2>1, Counting
  <2> HIDE DEF F
  <2> QED BY <2>2
<1>5. PICK f : f = CHOOSE g : g = F(g, N)
  OBVIOUS
<1>6. Tried(cs, hs, b) = f[N]
  BY Zenon, <1>0, <1>5 DEF Tried, TryStep, Trial, Refusal, Entry
<1>7. f = F(f, N)
  <2> HIDE DEF F
  <2> QED BY <1>4, <1>5
<1>8. f[0] = start /\ \A k \in 1..N : f[k] = G(f[k - 1], k)
  <2> HIDE DEF G, start
  <2> QED BY <1>1, <1>7
<1> DEFINE U == {k \in 0..N : TrialTyped(f[k], b, k)}
<1>9. 0 \in U /\ U \in SUBSET Nat
  <2>1. PICK yes, e : yes = TRUE /\ e = << >>
    OBVIOUS
  <2>2. f[0] = Trial(yes, cs, hs, e)
    BY Zenon, <1>8, <2>1
  <2>3. LogTyped(e, b, 0) /\ Len(e) = 0
    <3>1. e \in Seq({}) /\ Len(e) = 0
      BY <2>1
    <3> QED BY <3>1 DEF LogTyped
  <2>4. TrialTyped(f[0], b, 0)
    BY Zenon, <2>1, <2>2, <2>3 DEF TrialTyped
  <2> QED BY <1>1, <2>4
<1>10. ASSUME NEW k \in U, k < N PROVE k + 1 \in U
  <2>1. PICK j : j = k + 1
    OBVIOUS
  <2>2. j \in 1..N /\ j \in 0..N /\ j - 1 = k /\ k \in Nat
    BY <1>1, <1>10, <2>1
  <2>3. f[j] = TryStep(f[k], b[j]) /\ TrialTyped(f[k], b, k) /\ UbTyped(b[j])
    BY <1>1, <1>8, <2>2
  <2>4. TrialTyped(f[j], b, j)
    BY <2>1, <2>2, <2>3, TryTyped
  <2> QED BY <2>1, <2>2, <2>4
<1>11. TrialTyped(f[N], b, N)
  <2>1. N \in 0..N
    BY <1>1
  <2>2. \A k \in 0..N : k \in U
    <3> HIDE DEF U
    <3> QED BY <1>1, <1>9, <1>10, CountingTo
  <2> QED BY <2>1, <2>2
<1> QED BY Zenon, <1>0, <1>6, <1>11

(* The heads that come back are those of the group's number: a stream's.   *)
Undone(b, t, st, k) ==
  LET u  == t.log[k]
      in(s, i) == \E g \in GroupOf(b[k], s) : \E j \in DOMAIN u.slots[g] : u.slots[g][j] = i
  IN  [cells |-> [s \in Streams |-> [i \in Idx |->
                    IF in(s, i) THEN u.cells[s][i] ELSE st.cells[s][i]]],
       heads |-> [s \in Streams |->
                    IF GroupOf(b[k], s) = {} THEN st.heads[s]
                    ELSE u.heads[(CHOOSE g \in GroupOf(b[k], s) : TRUE) - 1]]]

Table(cs, hs) == [cells |-> cs, heads |-> hs]

LEMMA UndoneHeads ==
  ASSUME NEW b, NEW t, NEW k, NEW st, st.heads \in [Streams -> 0..Size], UbTyped(b[k]),
         EntryTyped(t.log[k], b[k]), NEW x, x = Undone(b, t, st, k)
  PROVE  x.heads \in [Streams -> 0..Size]
<1>1. PICK uh : uh = t.log[k].heads
  OBVIOUS
<1>2. x.heads = [s \in Streams |->
                   IF GroupOf(b[k], s) = {} THEN st.heads[s]
                   ELSE uh[(CHOOSE g \in GroupOf(b[k], s) : TRUE) - 1]]
  BY <1>1 DEF Undone
<1>3. uh \in [Streams -> 0..Size]
  BY <1>1 DEF EntryTyped
<1>4. ASSUME NEW s \in Streams, GroupOf(b[k], s) # {},
             NEW g, g = CHOOSE y \in GroupOf(b[k], s) : TRUE
      PROVE  uh[g - 1] \in 0..Size
  <2>1. g \in DOMAIN b[k]
    BY <1>4 DEF GroupOf
  <2>2. g - 1 \in Streams
    BY <2>1 DEF UbTyped, GroupTyped
  <2> QED BY <1>3, <2>2
<1> QED BY <1>2, <1>4

LEMMA RestoredTyped ==
  ASSUME Size \in Nat \ {0}, NEW b, BatchTyped(b), NEW t, TrialTyped(t, b, Len(b))
  PROVE  Restored(b, t).heads \in [Streams -> 0..Size]
<1> DEFINE M == Len(t.log)
           start == Table(t.cells, t.heads)
           G(st, k) == Undone(b, t, st, M + 1 - k)
           F(g, l) == [k \in 0..l |-> IF k = 0 THEN start ELSE G(g[k - 1], k)]
           T == {l \in Nat : \E g : g = F(g, l)}
<1>0. PICK N : N = M
  OBVIOUS
<1>1. /\ N \in Nat /\ N <= Len(b) /\ Len(b) \in Nat /\ t.heads \in [Streams -> 0..Size]
      /\ \A k \in 1..N : UbTyped(b[k]) /\ EntryTyped(t.log[k], b[k])
  <2>1. PICK ok, cs, hs, lg : /\ t = Trial(ok, cs, hs, lg)
                              /\ hs \in [Streams -> 0..Size] /\ LogTyped(lg, b, Len(b))
    BY Zenon DEF TrialTyped
  <2>2. t.heads = hs /\ t.log = lg
    BY <2>1, TrialFields
  <2>3. PICK S : lg \in Seq(S)
    BY <2>1 DEF LogTyped
  <2>4. N = Len(lg) /\ N \in Nat
    BY <1>0, <2>2, <2>3, LenProperties
  <2>5. Len(b) \in Nat /\ \A k \in 1..Len(b) : UbTyped(b[k])
    BY DEF BatchTyped, UbTyped
  <2>6. N <= Len(b) /\ \A k \in 1..N : EntryTyped(lg[k], b[k])
    BY <2>1, <2>4 DEF LogTyped
  <2>7. \A k \in 1..N : k \in 1..Len(b)
    BY <2>4, <2>5, <2>6
  <2> QED BY <2>1, <2>2, <2>4, <2>5, <2>6, <2>7
<1>2. 0 \in T
  <2> HIDE DEF G, start
  <2>1. PICK h : h = [k \in 0..0 |-> start]
    OBVIOUS
  <2>2. h = F(h, 0)
    BY <2>1
  <2> HIDE DEF F
  <2> QED BY <2>2
<1>3. ASSUME NEW l \in T PROVE l + 1 \in T
  <2> HIDE DEF G, start
  <2>1. PICK g : g = F(g, l)
    OBVIOUS
  <2>2. PICK h : h = F(g, l + 1)
    OBVIOUS
  <2>3. l \in Nat /\ l + 1 \in Nat
    OBVIOUS
  <2>4. ASSUME NEW k \in 0..(l + 1), k # 0 PROVE h[k - 1] = g[k - 1]
    <3>1. PICK i : i = k - 1
      OBVIOUS
    <3>2. i \in 0..l /\ i \in 0..(l + 1)
      BY <2>3, <2>4, <3>1
    <3>3. g[i] = IF i = 0 THEN start ELSE G(g[i - 1], i)
      BY <2>1, <3>2
    <3>4. h[i] = IF i = 0 THEN start ELSE G(g[i - 1], i)
      BY <2>2, <3>2
    <3> QED BY <3>1, <3>3, <3>4
  <2>5. h = F(h, l + 1)
    BY <2>2, <2>4
  <2> HIDE DEF F
  <2> QED BY <2>3, <2>5
<1>4. \E g : g = F(g, N)
  <2>1. T \in SUBSET Nat
    OBVIOUS
  <2>2. N \in T
    <3> HIDE DEF T
    <3> QED BY <1>1, <1>2, <1>3, <2>1, Counting
  <2> HIDE DEF F
  <2> QED BY <2>2
<1>5. PICK f : f = CHOOSE g : g = F(g, N)
  OBVIOUS
<1>6. Restored(b, t) = f[N]
  BY Zenon, <1>0, <1>5 DEF Restored, Undone, Table
<1>7. f = F(f, N)
  <2> HIDE DEF F
  <2> QED BY <1>4, <1>5
<1>8. f[0] = start /\ \A k \in 1..N : f[k] = G(f[k - 1], k)
  <2> HIDE DEF G, start
  <2> QED BY <1>1, <1>7
<1> DEFINE U == {k \in 0..N : f[k].heads \in [Streams -> 0..Size]}
<1>9. 0 \in U /\ U \in SUBSET Nat
  <2>1. f[0].heads = t.heads
    BY <1>8 DEF Table
  <2> QED BY <1>1, <2>1
<1>10. ASSUME NEW k \in U, k < N PROVE k + 1 \in U
  <2>1. PICK j, i : j = k + 1 /\ i = N + 1 - j
    OBVIOUS
  <2>2. j \in 1..N /\ j \in 0..N /\ j - 1 = k /\ k \in Nat /\ i \in 1..N
    BY <1>1, <1>10, <2>1
  <2>3. f[j] = Undone(b, t, f[k], i)
    BY <1>0, <1>8, <2>1, <2>2
  <2>4. f[k].heads \in [Streams -> 0..Size]
    OBVIOUS
  <2>5. f[j].heads \in [Streams -> 0..Size]
    BY <1>1, <2>2, <2>3, <2>4, UndoneHeads
  <2> QED BY <2>1, <2>2, <2>5
<1>11. f[N].heads \in [Streams -> 0..Size]
  <2>1. N \in 0..N
    BY <1>1
  <2>2. \A k \in 0..N : k \in U
    <3> HIDE DEF U
    <3> QED BY <1>1, <1>9, <1>10, CountingTo
  <2> QED BY <2>1, <2>2
<1> QED BY Zenon, <1>6, <1>11

LEMMA ComputedHeads ==
  ASSUME NEW st, NEW ub, NEW sl, NEW base, NEW x, x = Computed(st, ub, sl, base)
  PROVE  x.heads = ApplyHeads(st.heads, ub, sl)
<1>1. \E cs, d, m : x = [cells |-> cs, heads |-> ApplyHeads(st.heads, ub, sl),
                         data |-> d, store |-> m]
  BY Zenon DEF Computed
<1> QED BY <1>1

Result(end, un) ==
  [cells |-> end.cells, heads |-> end.heads, data |-> end.data, store |-> end.store,
   undone |-> un]

Begun(r, d) == [cells |-> r.cells, heads |-> r.heads, data |-> d, store |-> store]

LEMMA DecodedTyped ==
  ASSUME Size \in Nat \ {0}, heads \in [Streams -> 0..Size], NEW b, BatchTyped(b)
  PROVE  Decoded(b).heads \in [Streams -> 0..Size]
<1>0. PICK N, d, t, r : /\ N = Len(b) /\ d = Live(cells, UpdatedData, << >>)
                        /\ t = Tried(NoShift(cells), heads, b) /\ r = Restored(b, t)
  OBVIOUS
<1> DEFINE start == Begun(r, d)
           G(st, k) == Computed(st, b[k], t.log[k].slots, d)
           F(g, l) == [k \in 0..l |-> IF k = 0 THEN start ELSE G(g[k - 1], k)]
           T == {l \in Nat : \E g : g = F(g, l)}
<1>1. N \in Nat /\ TrialTyped(t, b, N) /\ r.heads \in [Streams -> 0..Size]
  BY <1>0, TriedTyped, RestoredTyped DEF BatchTyped
<1>2. 0 \in T
  <2> HIDE DEF G, start
  <2>1. PICK h : h = [k \in 0..0 |-> start]
    OBVIOUS
  <2>2. h = F(h, 0)
    BY <2>1
  <2> HIDE DEF F
  <2> QED BY <2>2
<1>3. ASSUME NEW l \in T PROVE l + 1 \in T
  <2> HIDE DEF G, start
  <2>1. PICK g : g = F(g, l)
    OBVIOUS
  <2>2. PICK h : h = F(g, l + 1)
    OBVIOUS
  <2>3. l \in Nat /\ l + 1 \in Nat
    OBVIOUS
  <2>4. ASSUME NEW k \in 0..(l + 1), k # 0 PROVE h[k - 1] = g[k - 1]
    <3>1. PICK i : i = k - 1
      OBVIOUS
    <3>2. i \in 0..l /\ i \in 0..(l + 1)
      BY <2>3, <2>4, <3>1
    <3>3. g[i] = IF i = 0 THEN start ELSE G(g[i - 1], i)
      BY <2>1, <3>2
    <3>4. h[i] = IF i = 0 THEN start ELSE G(g[i - 1], i)
      BY <2>2, <3>2
    <3> QED BY <3>1, <3>3, <3>4
  <2>5. h = F(h, l + 1)
    BY <2>2, <2>4
  <2> HIDE DEF F
  <2> QED BY <2>3, <2>5
<1>4. \E g : g = F(g, N)
  <2>1. T \in SUBSET Nat
    OBVIOUS
  <2>2. N \in T
    <3> HIDE DEF T
    <3> QED BY <1>1, <1>2, <1>3, <2>1, Counting
  <2> HIDE DEF F
  <2> QED BY <2>2
<1>5. PICK f : f = CHOOSE g : g = F(g, N)
  OBVIOUS
<1>6. PICK end, un : /\ end = f[IF t.ok THEN N ELSE 0] /\ un = (~t.ok /\ t.log # << >>)
  OBVIOUS
<1>7. Decoded(b) = Result(end, un)
  BY ZenonT(60), <1>0, <1>5, <1>6 DEF Decoded, Result, Begun
<1>8. f = F(f, N)
  <2> HIDE DEF F
  <2> QED BY <1>4, <1>5
<1>9. f[0] = start /\ \A k \in 1..N : f[k] = G(f[k - 1], k)
  <2> HIDE DEF G, start
  <2> QED BY <1>1, <1>8
<1>10. f[0].heads \in [Streams -> 0..Size]
  BY <1>1, <1>9 DEF Begun
<1>11. ASSUME t.ok PROVE f[N].heads \in [Streams -> 0..Size]
  <2>1. PICK ok, cs, hs, lg : /\ t = Trial(ok, cs, hs, lg) /\ LogTyped(lg, b, N)
                              /\ ok => Len(lg) = N
    BY Zenon, <1>1 DEF TrialTyped
  <2>2. t.ok = ok /\ t.log = lg
    BY <2>1, TrialFields
  <2>3. Len(lg) = N
    BY Zenon, <1>11, <2>1, <2>2
  <2>4. \A k \in 1..N : SlotsTyped(t.log[k].slots, b[k])
    BY <2>1, <2>2, <2>3 DEF LogTyped, EntryTyped
  <2> DEFINE U == {k \in 0..N : f[k].heads \in [Streams -> 0..Size]}
  <2>5. 0 \in U /\ U \in SUBSET Nat
    BY <1>1, <1>10
  <2>6. ASSUME NEW k \in U, k < N PROVE k + 1 \in U
    <3>1. PICK j : j = k + 1
      OBVIOUS
    <3>2. j \in 1..N /\ j \in 0..N /\ j - 1 = k /\ k \in Nat
      BY <1>1, <2>6, <3>1
    <3>3. f[j] = Computed(f[k], b[j], t.log[j].slots, d)
      BY <1>9, <3>2
    <3>4. f[j].heads = ApplyHeads(f[k].heads, b[j], t.log[j].slots)
      <4>1. PICK x, st, ub, sl : x = f[j] /\ st = f[k] /\ ub = b[j] /\ sl = t.log[j].slots
        OBVIOUS
      <4>2. x = Computed(st, ub, sl, d)
        BY <3>3, <4>1
      <4>3. x.heads = ApplyHeads(st.heads, ub, sl)
        BY <4>2, ComputedHeads
      <4> QED BY Zenon, <4>1, <4>3
    <3>5. f[k].heads \in [Streams -> 0..Size] /\ SlotsTyped(t.log[j].slots, b[j])
      BY <2>4, <3>2
    <3>6. f[j].heads \in [Streams -> 0..Size]
      BY <3>4, <3>5, AppliedHeads
    <3> QED BY <3>1, <3>2, <3>6
  <2>7. N \in 0..N
    BY <1>1
  <2>8. \A k \in 0..N : k \in U
    <3> HIDE DEF U
    <3> QED BY <1>1, <2>5, <2>6, CountingTo
  <2> QED BY <2>7, <2>8
<1>12. end.heads \in [Streams -> 0..Size]
  BY Zenon, <1>6, <1>10, <1>11
<1>13. Result(end, un).heads = end.heads
  BY DEF Result
<1> QED BY Zenon, <1>7, <1>12, <1>13

LEMMA DecodeSlot ==
  ASSUME SlotInv, NEW ss \in Tokens, NEW m \in 1..Len(ss), DoDecode(ss, m)
  PROVE  SlotInv'
<1>1. PICK b : b = Batch(ss, m)
  OBVIOUS
<1>2. heads' = Decoded(b).heads /\ UNCHANGED << opt, saved >>
  BY Zenon, <1>1 DEF DoDecode
<1>3. BatchTyped(b)
  BY <1>1, BatchIsTyped DEF SlotInv
<1>4. heads' \in [Streams -> 0..Size]
  BY <1>2, <1>3, DecodedTyped, SizeType DEF SlotInv, HeadsTyped
<1> QED BY <1>2, <1>4, HeadsSet

-----------------------------------------------------------------------------
LEMMA InitSlot == Init => SlotInv
<1> SUFFICES ASSUME Init PROVE SlotInv
  OBVIOUS
<1>1. opt \in Options /\ heads = [s \in Streams |-> 0] /\ saved.cells = << >>
  BY DEF Init, NoState
<1>2. heads \in [Streams -> 0..Size]
  BY <1>1, SizeType
<1> QED BY <1>1, <1>2 DEF SlotInv, HeadsTyped

LEMMA NextSlot == SlotInv /\ [Next]_vars => SlotInv'
<1> SUFFICES ASSUME SlotInv, [Next]_vars PROVE SlotInv'
  OBVIOUS
<1>1. CASE DoClear
  BY <1>1, ClearSlot
<1>2. ASSUME NEW q \in Seqs, NEW r \in Ranges, DoSeqRm(q, r[1], r[2]) PROVE SlotInv'
  BY <1>2, RmSlot
<1>3. ASSUME NEW r \in Ranges, DoRmAny(r[1], r[2]) PROVE SlotInv'
  BY <1>3, RmAnySlot
<1>4. ASSUME NEW q \in Seqs, NEW o \in Seqs, NEW r \in Ranges, DoSeqCpShared(q, o, r[1], r[2])
      PROVE  SlotInv'
  <2>1. UNCHANGED << opt, heads, saved >>
    BY <1>4 DEF DoSeqCpShared
  <2> QED BY <2>1, OptKept DEF SlotInv, HeadsTyped
<1>5. ASSUME NEW q \in Seqs, NEW o \in Seqs, DoSeqCpStreams(q, o) PROVE SlotInv'
  BY <1>5, CpStreamsSlot
<1>6. ASSUME NEW q \in Seqs, DoSeqKeep(q) PROVE SlotInv'
  BY <1>6, KeepSlot
<1>7. ASSUME NEW q \in Seqs, NEW r \in Ranges, NEW d \in opt.shifts,
             DoSeqAdd(q, r[1], r[2], d)
      PROVE  SlotInv'
  BY <1>7, AddSlot
<1>8. ASSUME NEW ss \in Tokens, NEW m \in 1..Len(ss), DoDecode(ss, m) PROVE SlotInv'
  BY <1>8, DecodeSlot
<1>9. ASSUME NEW q \in Seqs, DoSave(q) PROVE SlotInv'
  BY <1>9, SaveSlot
<1>10. ASSUME NEW q \in Seqs, DoLoad(q) PROVE SlotInv'
  BY <1>10, LoadSlot
<1>11. CASE UNCHANGED vars
  BY <1>11, OptKept DEF vars, SlotInv, HeadsTyped
<1> QED BY Zenon, <1>1, <1>2, <1>3, <1>4, <1>5, <1>6, <1>7, <1>8, <1>9, <1>10, <1>11 DEF Next

(***************************************************************************)
(* In every reachable state of the cache, and whatever calls came before,  *)
(* find_slot() answers exactly right on every stream and for every number  *)
(* of cells: it finds cells, anywhere or in one piece, if and only if      *)
(* there are enough, and the ones it names can be used and are different   *)
(* (in order and adjacent, when asked for in one piece).  No start of the  *)
(* search, no wrap around the table's end and no count of tested cells     *)
(* makes it pass over a slot.                                              *)
(***************************************************************************)
THEOREM SlotAnswered == Spec => []SlotIfAny
<1>1. SlotInv => SlotIfAny
  BY SlotInvEnough
<1> QED BY <1>1, InitSlot, NextSlot, PTL DEF Spec

=============================================================================
