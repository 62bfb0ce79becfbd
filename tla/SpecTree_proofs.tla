--------------------------- MODULE SpecTree_proofs ---------------------------
(***************************************************************************)
(* The tree decoder, for every vocabulary, sampler, prompt, number of      *)
(* sequences, draft length, with a shared cache or separate ones, pruned   *)
(* or not: every row the target's sampler is asked for was computed by the *)
(* target on the branch that is being kept.                                *)
(***************************************************************************)
EXTENDS SpecTree, FiniteSetTheorems, FunctionTheorems, SequenceTheorems,
        WellFoundedInduction, TLAPS

(***************************************************************************)
(* Induction on the natural numbers, on sets of them.                      *)
(***************************************************************************)
LEMMA Counting ==
  ASSUME NEW T \in SUBSET Nat, 0 \in T, \A n \in T : n + 1 \in T
  PROVE  \A n \in Nat : n \in T
<1> SUFFICES ASSUME NEW n \in Nat, n \notin T PROVE FALSE
  OBVIOUS
<1> DEFINE U == Nat \ T
<1>1. PICK x \in U : \A y \in U : ~(<< y, x >> \in OpToRel(<, Nat))
  <2>1. U # {} /\ U \subseteq Nat
    OBVIOUS
  <2> HIDE DEF U
  <2> QED BY <2>1, NatLessThanWellFounded, WFMin
<1>2. x \in Nat /\ x # 0
  OBVIOUS
<1>3. x - 1 \in Nat /\ x - 1 < x /\ (x - 1) + 1 = x
  BY <1>2
<1>4. x - 1 \notin U
  BY <1>1, <1>2, <1>3 DEF OpToRel
<1> QED BY <1>3, <1>4

LEMMA CountingTo ==
  ASSUME NEW n \in Nat, NEW T \in SUBSET Nat, 0 \in T,
         \A k \in T : k < n => k + 1 \in T
  PROVE  \A k \in 0..n : k \in T
<1> DEFINE U == {k \in Nat : k <= n => k \in T}
<1>1. U \in SUBSET Nat /\ 0 \in U
  OBVIOUS
<1>2. ASSUME NEW k \in U PROVE k + 1 \in U
  <2>1. k \in Nat /\ k + 1 \in Nat
    OBVIOUS
  <2>2. CASE k + 1 <= n
    <3>1. k \in T /\ k < n
      BY <2>1, <2>2
    <3> QED BY <2>1, <3>1
  <2> QED BY <2>1, <2>2
<1> HIDE DEF U
<1>3. \A k \in Nat : k \in U
  BY <1>1, <1>2, Counting
<1> QED BY <1>3 DEF U

-----------------------------------------------------------------------------
(***************************************************************************)
(* The cells of a sequence.  Spells: one cell at every position of the     *)
(* text q and nowhere else, each computed on the text up to its position.  *)
(***************************************************************************)
Spells(m, s, q) ==
  /\ \A e \in Of(m, s) : e.pos \in 0..(Len(q) - 1) /\ e.toks = SubSeq(q, 1, e.pos + 1)
  /\ \A p \in 0..(Len(q) - 1) : \E e \in Of(m, s) : e.pos = p
  /\ \A e, f \in Of(m, s) : e.pos = f.pos => e = f

AllExact(m, s) == \A e \in Of(m, s) : e.exact

Below(m, n) == {e \in m : e.pos < n}

LEMMA OneCellEach ==
  ASSUME NEW V, NEW n \in Nat,
         \A e \in V : e.pos \in 0..(n - 1),
         \A p \in 0..(n - 1) : \E e \in V : e.pos = p,
         \A e, f \in V : e.pos = f.pos => e = f
  PROVE  Cardinality(V) = n /\ {e.pos : e \in V} = 0..(n - 1)
<1> DEFINE f == [e \in V |-> e.pos]
<1>1. f \in Bijection(V, 0..(n - 1))
  <2>1. f \in [V -> 0..(n - 1)]
    OBVIOUS
  <2>2. f \in Injection(V, 0..(n - 1))
    BY <2>1 DEF Injection, IsInjective
  <2>3. f \in Surjection(V, 0..(n - 1))
    BY <2>1 DEF Surjection
  <2> QED BY <2>2, <2>3 DEF Bijection
<1>2. IsFiniteSet(0..(n - 1)) /\ Cardinality(0..(n - 1)) = n
  <2>1. 0 \in Int /\ n - 1 \in Int
    OBVIOUS
  <2>2. Cardinality(0..(n - 1)) = (IF 0 > n - 1 THEN 0 ELSE (n - 1) - 0 + 1)
    BY <2>1, FS_Interval
  <2> QED BY <2>1, <2>2, FS_Interval
<1>3. IsFiniteSet(V) /\ Cardinality(V) = Cardinality(0..(n - 1))
  <2> HIDE DEF f
  <2>1. f \in Injection(V, 0..(n - 1)) /\ f \in Surjection(V, 0..(n - 1))
    BY <1>1 DEF Bijection
  <2> QED BY <1>2, <2>1, FS_Injection
<1>4. {e.pos : e \in V} = 0..(n - 1)
  OBVIOUS
<1> QED BY <1>2, <1>3, <1>4

(* The cell of a token that continues the text of its first sequence. *)
LEMMA CellForFacts ==
  ASSUME NEW m, NEW engine, NEW b, NEW q \in Seq(Token), b.pos = Len(q),
         Spells(Below(m, b.pos), b.first, q)
  PROVE  LET c == CellFor(m, engine, b)
         IN  /\ c.pos = b.pos /\ c.seqs = b.seqs /\ c.toks = Append(q, b.tok)
             /\ (engine = "t" /\ AllExact(Below(m, b.pos), b.first)) => c.exact
<1> DEFINE view   == {e \in Of(m, b.first) : e.pos < b.pos}
           before == {e.toks : e \in {x \in view : x.pos = b.pos - 1}}
           ctx    == IF before = {} THEN << >> ELSE CHOOSE t \in before : TRUE
<1>1. view = Of(Below(m, b.pos), b.first)
  BY DEF Of, Below
<1>2. Len(q) \in Nat
  OBVIOUS
<1>3. /\ \A e \in view : e.pos \in 0..(Len(q) - 1) /\ e.toks = SubSeq(q, 1, e.pos + 1)
      /\ \A p \in 0..(Len(q) - 1) : \E e \in view : e.pos = p
      /\ \A e, f \in view : e.pos = f.pos => e = f
  <2> HIDE DEF view
  <2> QED BY <1>1 DEF Spells
<1>4. ctx = q
  <2> HIDE DEF view
  <2>1. CASE Len(q) = 0
    <3>1. q = << >> /\ before = {}
      BY <1>3, <2>1
    <3> QED BY <3>1
  <2>2. CASE Len(q) # 0
    <3>1. Len(q) - 1 \in 0..(Len(q) - 1)
      BY <1>2, <2>2
    <3>2. \A e \in view : e.pos = b.pos - 1 => e.toks = q
      <4> SUFFICES ASSUME NEW e \in view, e.pos = b.pos - 1 PROVE e.toks = q
        OBVIOUS
      <4>1. e.toks = SubSeq(q, 1, Len(q))
        BY <1>2, <1>3
      <4> QED BY <4>1, SubSeqFull
    <3>3. before = {q}
      <4>1. PICK e0 \in view : e0.pos = b.pos - 1
        BY <1>3, <3>1
      <4>2. e0.toks \in before
        BY <4>1
      <4>3. \A t \in before : t = q
        BY <3>2
      <4> HIDE DEF before
      <4> QED BY <3>2, <4>1, <4>2, <4>3
    <3> HIDE DEF before
    <3> QED BY <3>3
  <2> QED BY <2>1, <2>2
<1>5. /\ Cardinality(view) = b.pos /\ {e.pos : e \in view} = 0..(b.pos - 1)
      /\ \A e \in view : e.toks = SubSeq(ctx, 1, e.pos + 1)
  <2> HIDE DEF view, ctx
  <2> QED BY ZenonT(60), <1>2, <1>3, <1>4, OneCellEach
<1>6. PICK c : c = CellFor(m, engine, b)
  OBVIOUS
<1>7. c = [pos |-> b.pos, seqs |-> b.seqs, toks |-> Append(ctx, b.tok),
           exact |-> /\ engine = "t"
                     /\ Cardinality(view) = b.pos /\ {e.pos : e \in view} = 0..(b.pos - 1)
                     /\ \A e \in view : e.exact /\ e.toks = SubSeq(ctx, 1, e.pos + 1)]
  BY <1>6, Zenon DEF CellFor
<1> HIDE DEF view, before, ctx
<1>8. c.pos = b.pos /\ c.seqs = b.seqs /\ c.toks = Append(ctx, b.tok)
  BY <1>7, Zenon
<1>9. c.exact = ( /\ engine = "t"
                  /\ Cardinality(view) = b.pos /\ {e.pos : e \in view} = 0..(b.pos - 1)
                  /\ \A e \in view : e.exact /\ e.toks = SubSeq(ctx, 1, e.pos + 1))
  BY <1>7, Zenon
<1>10. ASSUME engine = "t", AllExact(Below(m, b.pos), b.first) PROVE c.exact
  <2>1. \A e \in view : e.exact
    BY <1>1, <1>10 DEF AllExact
  <2> QED BY <1>5, <1>9, <1>10, <2>1, Zenon
<1> QED BY <1>4, <1>6, <1>8, <1>10, Zenon


(***************************************************************************)
(* The loop of a decode: cell j is computed on the cache and the cells of  *)
(* the batch before it.                                                    *)
(***************************************************************************)
LEMMA CellsLoop ==
  ASSUME NEW m, NEW engine, NEW b, NEW n \in Nat, n = Len(b)
  PROVE  \E f : /\ f[0] = << >> /\ CellsOf(m, engine, b) = f[n]
                /\ \A k \in 1..n : f[k] = Grown(m, engine, f[k - 1], b[k])
<1> DEFINE G(c, k) == CHOOSE q \in {Grown(m, engine, cells, b[k]) : cells \in {c}} : TRUE
           F(g, l) == [k \in 0..l |-> IF k = 0 THEN << >> ELSE G(g[k - 1], k)]
           T == {l \in Nat : \E g : g = F(g, l)}
<1>0. \A c, k : G(c, k) = Grown(m, engine, c, b[k])
  <2> SUFFICES ASSUME NEW c, NEW k PROVE G(c, k) = Grown(m, engine, c, b[k])
    OBVIOUS
  <2>1. {Grown(m, engine, cells, b[k]) : cells \in {c}} = {Grown(m, engine, c, b[k])}
    OBVIOUS
  <2>2. PICK x : x = Grown(m, engine, c, b[k])
    OBVIOUS
  <2>3. (CHOOSE q \in {x} : TRUE) = x
    OBVIOUS
  <2> QED BY <2>1, <2>2, <2>3, Zenon
<1>1. 0 \in T
  <2>1. PICK h : h = [k \in 0..0 |-> << >>]
    OBVIOUS
  <2>2. h = F(h, 0)
    <3> HIDE DEF G
    <3> QED BY <2>1
  <2> HIDE DEF F
  <2> QED BY <2>2
<1>2. ASSUME NEW l \in T PROVE l + 1 \in T
  <2> HIDE DEF G
  <2>1. PICK g : g = F(g, l)
    OBVIOUS
  <2>2. PICK h : h = F(g, l + 1)
    OBVIOUS
  <2>3. l \in Nat /\ l + 1 \in Nat
    OBVIOUS
  <2>4. ASSUME NEW k \in 0..(l + 1), k # 0 PROVE h[k - 1] = g[k - 1]
    <3>1. PICK i : i = k - 1
      OBVIOUS
    <3>2. i \in 0..l /\ i \in 0..(l + 1)
      BY <2>3, <2>4, <3>1
    <3>3. g[i] = IF i = 0 THEN << >> ELSE G(g[i - 1], i)
      BY <2>1, <3>2
    <3>4. h[i] = IF i = 0 THEN << >> ELSE G(g[i - 1], i)
      BY <2>2, <3>2
    <3> QED BY <3>1, <3>3, <3>4
  <2>5. h = F(h, l + 1)
    BY <2>2, <2>4
  <2> HIDE DEF F
  <2> QED BY <2>3, <2>5
<1>3. n \in T
  <2>1. T \in SUBSET Nat
    OBVIOUS
  <2> HIDE DEF T
  <2> QED BY <1>1, <1>2, <2>1, Counting
<1>4. PICK f : f = CHOOSE g : g = F(g, n)
  OBVIOUS
<1>5. CellsOf(m, engine, b) = f[n]
  BY <1>4 DEF CellsOf
<1>6. f = F(f, n)
  <2>1. \E g : g = F(g, n)
    BY <1>3
  <2> HIDE DEF F
  <2> QED BY <1>4, <2>1
<1>7. f[0] = << >> /\ \A k \in 1..n : f[k] = G(f[k - 1], k)
  <2> HIDE DEF G
  <2> QED BY <1>6
<1>8. \A k \in 1..n : f[k] = Grown(m, engine, f[k - 1], b[k])
  <2> HIDE DEF G
  <2> QED BY <1>0, <1>7
<1> QED BY <1>5, <1>7, <1>8

(* Cell j of a batch, for cells c. *)
CellAt(m, engine, b, c, j) == c[j] = CellFor(m \cup {c[i] : i \in 1..(j - 1)}, engine, b[j])

LEMMA CellsFacts ==
  ASSUME NEW m, NEW engine, NEW b, NEW n \in Nat, n = Len(b)
  PROVE  \E c : /\ c = CellsOf(m, engine, b) /\ DOMAIN c = 1..n
                /\ \A j \in 1..n : CellAt(m, engine, b, c, j)
<1>1. PICK f : /\ f[0] = << >> /\ CellsOf(m, engine, b) = f[n]
               /\ \A k \in 1..n : f[k] = Grown(m, engine, f[k - 1], b[k])
  BY CellsLoop
<1> DEFINE Good(c, k) == /\ \E S : c \in Seq(S)
                         /\ Len(c) = k
                         /\ \A j \in 1..k : CellAt(m, engine, b, c, j)
           T == {k \in 0..n : Good(f[k], k)}
<1>2. 0 \in T
  <2>1. << >> \in Seq({}) /\ Len(<< >>) = 0
    OBVIOUS
  <2>2. Good(f[0], 0)
    BY <1>1, <2>1
  <2> HIDE DEF Good
  <2> QED BY <2>2
<1>3. ASSUME NEW k \in T, k < n PROVE k + 1 \in T
  <2>1. k \in Nat /\ k + 1 \in 1..n /\ k + 1 \in 0..n /\ (k + 1) - 1 = k
    BY <1>3
  <2>2. PICK c, d : c = f[k] /\ d = f[k + 1]
    OBVIOUS
  <2>3. PICK x : x = CellFor(m \cup {c[i] : i \in DOMAIN c}, engine, b[k + 1])
    OBVIOUS
  <2>4. Good(c, k)
    <3> HIDE DEF Good
    <3> QED BY <1>3, <2>2
  <2>5. PICK S : c \in Seq(S)
    BY <2>4
  <2>6. c \in Seq(S \cup {x}) /\ x \in S \cup {x}
    BY <2>5, SeqMonotonic
  <2>7. d = Append(c, x)
    BY <1>1, <2>1, <2>2, <2>3 DEF Grown
  <2>8. d \in Seq(S \cup {x}) /\ Len(d) = k + 1 /\ d[k + 1] = x /\ \A i \in 1..k : d[i] = c[i]
    BY <2>4, <2>6, <2>7, AppendProperties
  <2>9. ASSUME NEW j \in 1..(k + 1) PROVE CellAt(m, engine, b, d, j)
    <3>1. {d[i] : i \in 1..(j - 1)} = {c[i] : i \in 1..(j - 1)}
      BY <2>1, <2>8
    <3>2. CASE j = k + 1
      <4>1. DOMAIN c = 1..k /\ j - 1 = k
        BY <2>1, <2>4, <2>5, <3>2, LenProperties
      <4> QED BY <2>3, <2>8, <3>1, <3>2, <4>1 DEF CellAt
    <3>3. CASE j # k + 1
      <4>1. j \in 1..k
        BY <2>1, <3>3
      <4>2. CellAt(m, engine, b, c, j)
        BY <2>4, <4>1
      <4> QED BY <2>8, <3>1, <4>1, <4>2 DEF CellAt
    <3> QED BY <3>2, <3>3
  <2>10. Good(d, k + 1)
    BY <2>8, <2>9
  <2> HIDE DEF Good
  <2> QED BY <2>1, <2>2, <2>10
<1>4. n \in T
  <2>1. T \in SUBSET Nat
    OBVIOUS
  <2> HIDE DEF T
  <2>2. \A k \in 0..n : k \in T
    BY <1>2, <1>3, <2>1, CountingTo
  <2> QED BY <2>2
<1>5. Good(f[n], n)
  <2> HIDE DEF Good
  <2> QED BY <1>4
<1>6. PICK c : c = f[n]
  OBVIOUS
<1>7. PICK S : c \in Seq(S)
  BY <1>5, <1>6
<1>8. DOMAIN c = 1..n
  BY <1>5, <1>6, <1>7, LenProperties
<1> QED BY <1>1, <1>5, <1>6, <1>8

(* The first k of the cells c. *)
FirstCells(c, k) == {c[i] : i \in 1..k}

(* The cache and the rows after a decode: r holds the cells c of the batch. *)
Gives(r, m, engine, b, c) ==
  /\ \A j \in 1..Len(b) : CellAt(m, engine, b, c, j)
  /\ r.mem = m \cup FirstCells(c, Len(b))
  /\ DOMAIN r.rows = 1..Len(b)
  /\ \A j \in 1..Len(b) : r.rows[j].toks = c[j].toks /\ r.rows[j].exact = c[j].exact

LEMMA DecodingFacts ==
  ASSUME NEW m, NEW engine, NEW b, NEW n \in Nat, n = Len(b)
  PROVE  \E c : Gives(Decoding(m, engine, b), m, engine, b, c)
<1>1. PICK c : /\ c = CellsOf(m, engine, b) /\ DOMAIN c = 1..n
               /\ \A j \in 1..n : CellAt(m, engine, b, c, j)
  BY CellsFacts
<1> DEFINE R(x) == [mem  |-> m \cup {x[i] : i \in DOMAIN x},
                    rows |-> [i \in DOMAIN x |-> [toks |-> x[i].toks, exact |-> x[i].exact]]]
<1>2. Decoding(m, engine, b) = CHOOSE r \in {R(x) : x \in {c}} : TRUE
  BY <1>1, Zenon DEF Decoding
<1>3. Decoding(m, engine, b) = R(c)
  <2> HIDE DEF R
  <2>1. {R(x) : x \in {c}} = {R(c)}
    OBVIOUS
  <2>2. PICK z : z = R(c)
    OBVIOUS
  <2>3. (CHOOSE r \in {z} : TRUE) = z
    OBVIOUS
  <2> QED BY <1>2, <2>1, <2>2, <2>3, Zenon
<1>4. /\ Decoding(m, engine, b).mem = m \cup {c[i] : i \in DOMAIN c}
      /\ Decoding(m, engine, b).rows
           = [i \in DOMAIN c |-> [toks |-> c[i].toks, exact |-> c[i].exact]]
  <2>1. PICK A : A = m \cup {c[i] : i \in DOMAIN c}
    OBVIOUS
  <2>2. PICK B : B = [i \in DOMAIN c |-> [toks |-> c[i].toks, exact |-> c[i].exact]]
    BY Zenon
  <2>3. Decoding(m, engine, b) = [mem |-> A, rows |-> B]
    BY <1>3, <2>1, <2>2, Zenon
  <2>4. [mem |-> A, rows |-> B].mem = A /\ [mem |-> A, rows |-> B].rows = B
    OBVIOUS
  <2> QED BY <2>1, <2>2, <2>3, <2>4, Zenon
<1> HIDE DEF R
<1>5. ASSUME NEW j \in 1..n
      PROVE  /\ Decoding(m, engine, b).rows[j].toks = c[j].toks
             /\ Decoding(m, engine, b).rows[j].exact = c[j].exact
  <2>1. PICK x, y, z : x = c[j].toks /\ y = c[j].exact /\ z = Decoding(m, engine, b).rows[j]
    OBVIOUS
  <2>2. z = [toks |-> x, exact |-> y]
    BY <1>1, <1>4, <2>1, Zenon
  <2>3. z.toks = x /\ z.exact = y
    BY <2>2
  <2> QED BY <2>1, <2>3
<1>6. DOMAIN Decoding(m, engine, b).rows = 1..n
  BY <1>1, <1>4, Zenon
<1>7. Decoding(m, engine, b).mem = m \cup FirstCells(c, n)
  BY <1>1, <1>4, Zenon DEF FirstCells
<1> QED BY <1>1, <1>5, <1>6, <1>7 DEF Gives

-----------------------------------------------------------------------------
(***************************************************************************)
(* Texts and their beginnings.                                             *)
(***************************************************************************)
LEMMA FirstPart ==
  ASSUME NEW S, NEW q \in Seq(S), NEW k \in 0..Len(q)
  PROVE  /\ SubSeq(q, 1, k) \in Seq(S) /\ Len(SubSeq(q, 1, k)) = k
         /\ \A i \in 1..k : SubSeq(q, 1, k)[i] = q[i]
<1>1. Len(q) \in Nat /\ 1 \in Int /\ k \in Int /\ \A i \in 1..k : q[i] \in S
  BY ElementOfSeq
<1>2. /\ SubSeq(q, 1, k) \in Seq(S)
      /\ Len(SubSeq(q, 1, k)) = IF 1 <= k THEN k - 1 + 1 ELSE 0
      /\ \A i \in 1..(k - 1 + 1) : SubSeq(q, 1, k)[i] = q[1 + i - 1]
  BY <1>1, SubSeqProperties
<1>3. k - 1 + 1 = k /\ \A i \in 1..k : 1 + i - 1 = i
  BY <1>1
<1> QED BY <1>1, <1>2, <1>3

LEMMA FirstOfJoined ==
  ASSUME NEW S, NEW q \in Seq(S), NEW r \in Seq(S), NEW k \in 0..Len(q)
  PROVE  SubSeq(q \o r, 1, k) = SubSeq(q, 1, k)
<1>1. Len(q) \in Nat /\ Len(r) \in Nat
  OBVIOUS
<1>2. /\ q \o r \in Seq(S) /\ Len(q \o r) = Len(q) + Len(r)
      /\ \A i \in 1..Len(q) : (q \o r)[i] = q[i]
  <2>1. \A i \in 1..Len(q) : i \in 1..(Len(q) + Len(r)) /\ i <= Len(q)
    BY <1>1
  <2> QED BY <2>1, ConcatProperties
<1>3. k \in 0..Len(q \o r)
  BY <1>1, <1>2
<1>4. \A i \in 1..k : i \in 1..Len(q)
  BY <1>1
<1>5. /\ SubSeq(q \o r, 1, k) \in Seq(S) /\ Len(SubSeq(q \o r, 1, k)) = k
      /\ \A i \in 1..k : SubSeq(q \o r, 1, k)[i] = (q \o r)[i]
  BY <1>2, <1>3, FirstPart
<1>6. /\ SubSeq(q, 1, k) \in Seq(S) /\ Len(SubSeq(q, 1, k)) = k
      /\ \A i \in 1..k : SubSeq(q, 1, k)[i] = q[i]
  BY FirstPart
<1> QED BY <1>2, <1>4, <1>5, <1>6, SeqEqual

LEMMA BeyondJoin ==
  ASSUME NEW S, NEW q \in Seq(S), NEW r \in Seq(S), NEW k \in 0..Len(r)
  PROVE  SubSeq(q \o r, 1, Len(q) + k) = q \o SubSeq(r, 1, k)
<1>1. Len(q) \in Nat /\ Len(r) \in Nat
  OBVIOUS
<1>2. /\ q \o r \in Seq(S) /\ Len(q \o r) = Len(q) + Len(r)
      /\ \A i \in 1..(Len(q) + Len(r)) : (q \o r)[i] = IF i <= Len(q) THEN q[i] ELSE r[i - Len(q)]
  BY ConcatProperties
<1>3. Len(q) + k \in 0..Len(q \o r)
  BY <1>1, <1>2
<1>4. PICK u : u = SubSeq(q \o r, 1, Len(q) + k)
  OBVIOUS
<1>5. u \in Seq(S) /\ Len(u) = Len(q) + k /\ \A i \in 1..(Len(q) + k) : u[i] = (q \o r)[i]
  BY <1>2, <1>3, <1>4, FirstPart
<1>6. PICK v : v = SubSeq(r, 1, k)
  OBVIOUS
<1>7. v \in Seq(S) /\ Len(v) = k /\ \A i \in 1..k : v[i] = r[i]
  BY <1>6, FirstPart
<1>8. /\ q \o v \in Seq(S) /\ Len(q \o v) = Len(q) + k
      /\ \A i \in 1..(Len(q) + k) : (q \o v)[i] = IF i <= Len(q) THEN q[i] ELSE v[i - Len(q)]
  BY <1>7, ConcatProperties
<1>9. ASSUME NEW i \in 1..(Len(q) + k) PROVE u[i] = (q \o v)[i]
  <2>1. i \in 1..(Len(q) + Len(r)) /\ (i > Len(q) => i - Len(q) \in 1..k)
    BY <1>1
  <2>2. CASE i <= Len(q)
    BY <1>2, <1>5, <1>8, <2>1, <2>2
  <2>3. CASE ~(i <= Len(q))
    <3>1. u[i] = r[i - Len(q)]
      BY <1>2, <1>5, <2>1, <2>3
    <3>2. (q \o v)[i] = v[i - Len(q)]
      BY <1>8, <2>1, <2>3
    <3>3. i - Len(q) \in 1..k
      BY <1>1, <2>1, <2>3
    <3> QED BY <1>7, <3>1, <3>2, <3>3
  <2> QED BY <2>2, <2>3
<1>10. u = q \o v
  BY <1>5, <1>8, <1>9, SeqEqual
<1> QED BY <1>4, <1>6, <1>10

(* Two texts that begin alike. *)
LEMMA SameStart ==
  ASSUME NEW S, NEW q \in Seq(S), NEW r \in Seq(S), NEW k \in Nat, k <= Len(q), k <= Len(r),
         \A i \in 1..k : q[i] = r[i]
  PROVE  SubSeq(q, 1, k) = SubSeq(r, 1, k)
<1>1. k \in 0..Len(q) /\ k \in 0..Len(r)
  OBVIOUS
<1>2. /\ SubSeq(q, 1, k) \in Seq(S) /\ Len(SubSeq(q, 1, k)) = k
      /\ \A i \in 1..k : SubSeq(q, 1, k)[i] = q[i]
  BY <1>1, FirstPart
<1>3. /\ SubSeq(r, 1, k) \in Seq(S) /\ Len(SubSeq(r, 1, k)) = k
      /\ \A i \in 1..k : SubSeq(r, 1, k)[i] = r[i]
  BY <1>1, FirstPart
<1> QED BY <1>2, <1>3, SeqEqual

(* A beginning one token longer. *)
LEMMA OneLonger ==
  ASSUME NEW S, NEW r \in Seq(S), NEW k \in 0..(Len(r) - 1)
  PROVE  SubSeq(r, 1, k + 1) = Append(SubSeq(r, 1, k), r[k + 1])
<1>1. Len(r) \in Nat /\ k \in 0..Len(r) /\ k + 1 \in 0..Len(r) /\ k + 1 \in 1..Len(r)
  OBVIOUS
<1>2. PICK u, v : u = SubSeq(r, 1, k + 1) /\ v = SubSeq(r, 1, k)
  OBVIOUS
<1>3. u \in Seq(S) /\ Len(u) = k + 1 /\ \A i \in 1..(k + 1) : u[i] = r[i]
  BY <1>1, <1>2, FirstPart
<1>4. v \in Seq(S) /\ Len(v) = k /\ \A i \in 1..k : v[i] = r[i]
  BY <1>1, <1>2, FirstPart
<1>5. r[k + 1] \in S
  BY <1>1, ElementOfSeq
<1>6. PICK w : w = Append(v, r[k + 1])
  OBVIOUS
<1>7. w \in Seq(S) /\ Len(w) = k + 1 /\ w[k + 1] = r[k + 1] /\ \A i \in 1..k : w[i] = v[i]
  BY <1>4, <1>5, <1>6, AppendProperties
<1>8. ASSUME NEW i \in 1..(k + 1) PROVE u[i] = w[i]
  <2>1. i \in 1..k \/ i = k + 1
    BY <1>1
  <2> QED BY <1>3, <1>4, <1>7, <2>1
<1>9. u = w
  BY <1>3, <1>7, <1>8, SeqEqual
<1> QED BY <1>2, <1>6, <1>9

LEMMA JoinAppend ==
  ASSUME NEW q \in Seq(Token), NEW r \in Seq(Token), NEW t \in Token
  PROVE  Append(q \o r, t) = q \o Append(r, t)
<1>1. << t >> \in Seq(Token)
  OBVIOUS
<1>2. q \o r \in Seq(Token)
  BY ConcatProperties
<1>3. Append(q \o r, t) = (q \o r) \o << t >>
  BY <1>2, AppendIsConcat
<1>4. Append(r, t) = r \o << t >>
  BY AppendIsConcat
<1> QED BY <1>1, <1>3, <1>4, ConcatAssociative

LEMMA TextGrows ==
  ASSUME NEW q \in Seq(Token), NEW z \in Seq(Token), NEW l \in 0..(Len(z) - 1)
  PROVE  Append(q \o SubSeq(z, 1, l), z[l + 1]) = q \o SubSeq(z, 1, l + 1)
<1>1. Len(z) \in Nat /\ l \in 0..Len(z) /\ l + 1 \in 1..Len(z)
  OBVIOUS
<1>2. PICK r, t : r = SubSeq(z, 1, l) /\ t = z[l + 1]
  OBVIOUS
<1>3. r \in Seq(Token) /\ t \in Token
  BY <1>1, <1>2, FirstPart, ElementOfSeq
<1>4. Append(q \o r, t) = q \o Append(r, t)
  BY <1>3, JoinAppend
<1>5. SubSeq(z, 1, l + 1) = Append(r, t)
  BY <1>2, OneLonger
<1> QED BY <1>2, <1>4, <1>5

-----------------------------------------------------------------------------
(***************************************************************************)
(* New cells N behind the text q of a sequence.                            *)
(***************************************************************************)
Behind(N, s, q, r) ==
  /\ \A e \in Of(N, s) : e.pos \in Len(q)..(Len(q) + Len(r) - 1)
                         /\ e.toks = q \o SubSeq(r, 1, e.pos - Len(q) + 1)
  /\ \A p \in Len(q)..(Len(q) + Len(r) - 1) : \E e \in Of(N, s) : e.pos = p
  /\ \A e, f \in Of(N, s) : e.pos = f.pos => e = f

LEMMA SpellsMore ==
  ASSUME NEW m, NEW N, NEW s, NEW q \in Seq(Token), NEW r \in Seq(Token),
         Spells(m, s, q), Behind(N, s, q, r)
  PROVE  Spells(m \cup N, s, q \o r)
<1>1. Len(q) \in Nat /\ Len(r) \in Nat
  OBVIOUS
<1>2. PICK t : t = q \o r
  OBVIOUS
<1>3. t \in Seq(Token) /\ Len(t) = Len(q) + Len(r)
  BY <1>2, ConcatProperties
<1>4. \A e \in Of(m \cup N, s) : e \in Of(m, s) \/ e \in Of(N, s)
  BY DEF Of
<1>5. \A e : (e \in Of(m, s) => e \in Of(m \cup N, s)) /\ (e \in Of(N, s) => e \in Of(m \cup N, s))
  BY DEF Of
<1>6. ASSUME NEW e \in Of(m, s) PROVE e.pos \in 0..(Len(q) - 1) /\ e.toks = SubSeq(t, 1, e.pos + 1)
  <2>1. e.pos \in 0..(Len(q) - 1) /\ e.toks = SubSeq(q, 1, e.pos + 1)
    BY DEF Spells
  <2>2. e.pos + 1 \in 0..Len(q)
    BY <1>1, <2>1
  <2>3. SubSeq(q \o r, 1, e.pos + 1) = SubSeq(q, 1, e.pos + 1)
    BY <2>2, FirstOfJoined
  <2> QED BY <1>2, <2>1, <2>3
<1>7. ASSUME NEW e \in Of(N, s)
      PROVE  e.pos \in Len(q)..(Len(q) + Len(r) - 1) /\ e.toks = SubSeq(t, 1, e.pos + 1)
  <2>1. e.pos \in Len(q)..(Len(q) + Len(r) - 1) /\ e.toks = q \o SubSeq(r, 1, e.pos - Len(q) + 1)
    BY DEF Behind
  <2>2. PICK k : k = e.pos - Len(q) + 1
    OBVIOUS
  <2>3. k \in 0..Len(r) /\ Len(q) + k = e.pos + 1
    BY <1>1, <2>1, <2>2
  <2>4. SubSeq(q \o r, 1, Len(q) + k) = q \o SubSeq(r, 1, k)
    BY <2>3, BeyondJoin
  <2> QED BY <1>2, <2>1, <2>2, <2>3, <2>4
<1>8. ASSUME NEW e \in Of(m \cup N, s)
      PROVE  e.pos \in 0..(Len(t) - 1) /\ e.toks = SubSeq(t, 1, e.pos + 1)
  <2>1. CASE e \in Of(m, s)
    BY <1>1, <1>3, <1>6, <2>1
  <2>2. CASE e \in Of(N, s)
    BY <1>1, <1>3, <1>7, <2>2
  <2> QED BY <1>4, <2>1, <2>2
<1>9. ASSUME NEW p \in 0..(Len(t) - 1) PROVE \E e \in Of(m \cup N, s) : e.pos = p
  <2>1. CASE p < Len(q)
    <3>1. p \in 0..(Len(q) - 1)
      BY <1>1, <1>3, <2>1
    <3>2. \E e \in Of(m, s) : e.pos = p
      BY <3>1 DEF Spells
    <3> QED BY <1>5, <3>2
  <2>2. CASE ~(p < Len(q))
    <3>1. p \in Len(q)..(Len(q) + Len(r) - 1)
      BY <1>1, <1>3, <2>2
    <3>2. \E e \in Of(N, s) : e.pos = p
      BY <3>1 DEF Behind
    <3> QED BY <1>5, <3>2
  <2> QED BY <2>1, <2>2
<1>10. ASSUME NEW e \in Of(m \cup N, s), NEW f \in Of(m \cup N, s), e.pos = f.pos PROVE e = f
  <2>1. (e \in Of(m, s) /\ f \in Of(m, s)) => e = f
    BY <1>10 DEF Spells
  <2>2. (e \in Of(N, s) /\ f \in Of(N, s)) => e = f
    BY <1>10 DEF Behind
  <2>3. ~(e \in Of(m, s) /\ f \in Of(N, s))
    BY <1>1, <1>6, <1>7, <1>10
  <2>4. ~(e \in Of(N, s) /\ f \in Of(m, s))
    BY <1>1, <1>6, <1>7, <1>10
  <2> QED BY <1>4, <2>1, <2>2, <2>3, <2>4
<1>11. Spells(m \cup N, s, t)
  BY <1>8, <1>9, <1>10 DEF Spells
<1> QED BY <1>2, <1>11

-----------------------------------------------------------------------------
(***************************************************************************)
(* The target's decode of a tree.  b holds the branches of the sequences S *)
(* behind a text of length n, tk is what each of them drafted: an entry is *)
(* the token of all its sequences, at increasing places in the batch.      *)
(***************************************************************************)
Tree(b, n, S, tk) ==
  /\ \A s \in S : tk[s] \in Seq(Token)
  /\ \A j \in 1..Len(b) :
       /\ b[j].first \in b[j].seqs /\ b[j].seqs \subseteq S
       /\ b[j].tok = tk[b[j].first][b[j].pos - n + 1]
  /\ \A j \in 1..Len(b) : \A s \in b[j].seqs :
       /\ b[j].pos \in n..(n + Len(tk[s]) - 1)
       /\ \A i \in 1..(b[j].pos - n + 1) : tk[s][i] = tk[b[j].first][i]
  /\ \A i, j \in 1..Len(b) : \A s \in b[i].seqs \cap b[j].seqs : i < j => b[i].pos < b[j].pos
  /\ \A s \in S : \A p \in n..(n + Len(tk[s]) - 1) :
       \E j \in 1..Len(b) : s \in b[j].seqs /\ b[j].pos = p

(* Cell j of the batch is what the branch of each of its sequences says. *)
Right(b, n, tk, q, c, j) ==
  /\ c[j].pos = b[j].pos /\ c[j].seqs = b[j].seqs /\ c[j].exact
  /\ \A s \in b[j].seqs : c[j].toks = q \o SubSeq(tk[s], 1, b[j].pos - n + 1)

RightTo(b, n, tk, q, c, k) == \A i \in 1..k : Right(b, n, tk, q, c, i)

(* The entries of s below position p are among the first k. *)
AmongFirst(b, s, p, k) == \A i \in 1..Len(b) : (s \in b[i].seqs /\ b[i].pos < p) => i \in 1..k

LEMMA TreeSpaced ==
  ASSUME NEW b, NEW n \in Nat, NEW S, NEW tk, Tree(b, n, S, tk),
         NEW L \in Nat, L = Len(b),
         NEW i \in 1..L, NEW j \in 1..L, NEW s \in b[i].seqs \cap b[j].seqs
  PROVE  /\ b[i].pos = b[j].pos => i = j
         /\ b[i].pos < b[j].pos => i < j
<1>1. b[i].pos \in Int /\ b[j].pos \in Int
  <2>1. b[i].pos \in n..(n + Len(tk[s]) - 1) /\ b[j].pos \in n..(n + Len(tk[s]) - 1)
    BY DEF Tree
  <2> QED BY <2>1
<1>2. (i < j => b[i].pos < b[j].pos) /\ (j < i => b[j].pos < b[i].pos)
  BY DEF Tree
<1>3. i \in Int /\ j \in Int
  OBVIOUS
<1> QED BY <1>1, <1>2, <1>3

(* The cells of a branch up to cell k, of those below position p. *)
LEMMA BranchSoFar ==
  ASSUME NEW b, NEW n \in Nat, NEW S, NEW tk, Tree(b, n, S, tk),
         NEW L \in Nat, L = Len(b), NEW q \in Seq(Token), Len(q) = n, NEW c,
         NEW k \in 0..L, RightTo(b, n, tk, q, c, k),
         NEW s \in S, NEW l \in 0..Len(tk[s]), AmongFirst(b, s, n + l, k)
  PROVE  Behind(Below(FirstCells(c, k), n + l), s, q, SubSeq(tk[s], 1, l))
<1> USE DEF RightTo, AmongFirst, FirstCells
<1> DEFINE N == Below(FirstCells(c, k), n + l)
<1>1. tk[s] \in Seq(Token) /\ Len(tk[s]) \in Nat
  BY DEF Tree
<1>2. PICK r : r = SubSeq(tk[s], 1, l)
  OBVIOUS
<1>3. r \in Seq(Token) /\ Len(r) = l /\ \A i \in 1..l : r[i] = tk[s][i]
  BY <1>1, <1>2, FirstPart
<1>4. ASSUME NEW e \in Of(N, s)
      PROVE  \E i \in 1..k : e = c[i] /\ s \in b[i].seqs /\ b[i].pos \in n..(n + l - 1)
  <2>1. PICK i \in 1..k : e = c[i] /\ s \in e.seqs /\ e.pos < n + l
    BY DEF Of, Below
  <2>2. i \in 1..L /\ s \in b[i].seqs /\ e.pos = b[i].pos
    BY <2>1 DEF Right
  <2>3. b[i].pos \in n..(n + Len(tk[s]) - 1)
    BY <2>2 DEF Tree
  <2> QED BY <1>1, <2>1, <2>2, <2>3
<1>5. ASSUME NEW e \in Of(N, s)
      PROVE  e.pos \in n..(n + l - 1) /\ e.toks = q \o SubSeq(r, 1, e.pos - n + 1)
  <2>1. PICK i \in 1..k : e = c[i] /\ s \in b[i].seqs /\ b[i].pos \in n..(n + l - 1)
    BY <1>4
  <2>2. PICK x : x = b[i].pos - n + 1
    OBVIOUS
  <2>3. e.pos = b[i].pos /\ e.toks = q \o SubSeq(tk[s], 1, x)
    BY <2>1, <2>2 DEF Right
  <2>4. x \in Nat /\ x <= Len(tk[s]) /\ x <= Len(r) /\ \A y \in 1..x : y \in 1..l
    BY SMTT(60), <1>1, <1>3, <2>1, <2>2
  <2>5. SubSeq(tk[s], 1, x) = SubSeq(r, 1, x)
    BY <1>1, <1>3, <2>4, SameStart
  <2> QED BY <2>1, <2>2, <2>3, <2>5
<1>6. ASSUME NEW p \in n..(n + l - 1) PROVE \E e \in Of(N, s) : e.pos = p
  <2>1. p \in n..(n + Len(tk[s]) - 1) /\ p < n + l
    BY <1>1
  <2>2. PICK i \in 1..L : s \in b[i].seqs /\ b[i].pos = p
    BY <2>1 DEF Tree
  <2>3. i \in 1..k
    BY <2>1, <2>2
  <2>4. c[i].pos = p /\ s \in c[i].seqs
    BY <2>2, <2>3 DEF Right
  <2>5. c[i] \in Of(N, s)
    BY <2>1, <2>3, <2>4 DEF Of, Below
  <2> QED BY <2>4, <2>5
<1>7. ASSUME NEW e \in Of(N, s), NEW f \in Of(N, s), e.pos = f.pos PROVE e = f
  <2>1. PICK i \in 1..k : e = c[i] /\ s \in b[i].seqs
    BY <1>4
  <2>2. PICK j \in 1..k : f = c[j] /\ s \in b[j].seqs
    BY <1>4
  <2>3. b[i].pos = b[j].pos
    BY <1>7, <2>1, <2>2 DEF Right
  <2>4. i \in 1..L /\ j \in 1..L /\ s \in b[i].seqs \cap b[j].seqs
    BY <2>1, <2>2
  <2>5. i = j
    BY <2>3, <2>4, TreeSpaced
  <2> QED BY <2>1, <2>2, <2>5
<1> HIDE DEF N
<1>8. Behind(N, s, q, r)
  BY <1>3, <1>5, <1>6, <1>7 DEF Behind
<1> QED BY <1>2, <1>8 DEF N

(* Of the cells of a longer text, those below its end. *)
LEMMA SpellsBelow ==
  ASSUME NEW m, NEW s, NEW q \in Seq(Token), Spells(m, s, q), NEW n \in Nat, Len(q) <= n
  PROVE  Spells(Below(m, n), s, q) /\ (AllExact(m, s) => AllExact(Below(m, n), s))
<1>1. Len(q) \in Nat /\ \A e \in Of(m, s) : e.pos \in 0..(Len(q) - 1)
  BY DEF Spells
<1>2. Of(Below(m, n), s) = Of(m, s)
  BY <1>1 DEF Of, Below
<1>3. Spells(Below(m, n), s, q)
  BY <1>2 DEF Spells
<1>4. AllExact(m, s) => AllExact(Below(m, n), s)
  BY <1>2 DEF AllExact
<1> QED BY <1>3, <1>4

LEMMA TreeStep ==
  ASSUME NEW b, NEW n \in Nat, NEW S, NEW tk, Tree(b, n, S, tk),
         NEW L \in Nat, L = Len(b), NEW q \in Seq(Token), Len(q) = n, NEW c, NEW m,
         \A s \in S : Spells(m, s, q) /\ AllExact(m, s),
         NEW k \in 1..L, CellAt(m, "t", b, c, k),
         \A i \in 1..(k - 1) : Right(b, n, tk, q, c, i)
  PROVE  Right(b, n, tk, q, c, k)
<1>1. PICK s : s = b[k].first
  OBVIOUS
<1>2. s \in S /\ s \in b[k].seqs /\ tk[s] \in Seq(Token) /\ b[k].tok = tk[s][b[k].pos - n + 1]
  BY <1>1 DEF Tree
<1>3. b[k].pos \in n..(n + Len(tk[s]) - 1)
  BY <1>2 DEF Tree
<1>4. PICK l : l = b[k].pos - n
  OBVIOUS
<1>5. /\ Len(tk[s]) \in Nat /\ l \in 0..(Len(tk[s]) - 1) /\ l \in 0..Len(tk[s]) /\ b[k].pos = n + l
      /\ n + l \in Nat /\ l + 1 = b[k].pos - n + 1 /\ k \in Int /\ k - 1 \in 0..L
  BY SMTT(60), <1>2, <1>3, <1>4
<1>6. PICK M : M = m \cup FirstCells(c, k - 1)
  OBVIOUS
<1>7. PICK N : N = Below(FirstCells(c, k - 1), n + l)
  OBVIOUS
<1>8. PICK r : r = SubSeq(tk[s], 1, l)
  OBVIOUS
<1>9. r \in Seq(Token) /\ Len(r) = l
  BY SMTT(60), <1>2, <1>5, <1>8, FirstPart
<1>10. ASSUME NEW i \in 1..L, s \in b[i].seqs, b[i].pos < n + l PROVE i \in 1..(k - 1)
  <2>1. s \in b[i].seqs \cap b[k].seqs /\ b[i].pos < b[k].pos
    BY <1>2, <1>5, <1>10
  <2>2. i < k
    BY <2>1, TreeSpaced
  <2> QED BY <1>5, <2>2
<1>11. Behind(N, s, q, r)
  <2>1. AmongFirst(b, s, n + l, k - 1) /\ RightTo(b, n, tk, q, c, k - 1)
    BY <1>10 DEF AmongFirst, RightTo
  <2>2. PICK k1 : k1 = k - 1
    OBVIOUS
  <2>3. /\ k1 \in 0..L /\ AmongFirst(b, s, n + l, k1) /\ RightTo(b, n, tk, q, c, k1)
        /\ s \in S /\ l \in 0..Len(tk[s])
    BY <1>2, <1>5, <2>1, <2>2
  <2>4. Behind(Below(FirstCells(c, k1), n + l), s, q, SubSeq(tk[s], 1, l))
    BY <2>3, BranchSoFar
  <2> QED BY <1>7, <1>8, <2>2, <2>4
<1>12. Spells(Below(m, n + l), s, q) /\ AllExact(Below(m, n + l), s)
  <2>1. Spells(m, s, q) /\ AllExact(m, s) /\ Len(q) <= n + l
    BY <1>2, <1>5
  <2> QED BY <1>5, <2>1, SpellsBelow
<1>13. Below(M, n + l) = Below(m, n + l) \cup N
  BY <1>6, <1>7 DEF Below
<1>14. Spells(Below(M, n + l), s, q \o r)
  BY <1>9, <1>11, <1>12, <1>13, SpellsMore
<1>15. AllExact(Below(M, n + l), s)
  <2>1. ASSUME NEW e \in N PROVE e.exact
    <3>1. PICK i \in 1..(k - 1) : e = c[i]
      BY <1>7 DEF Below, FirstCells
    <3> QED BY <3>1 DEF Right
  <2> QED BY <1>12, <1>13, <2>1 DEF AllExact, Of
<1>16. PICK u : u = q \o r
  OBVIOUS
<1>17. u \in Seq(Token) /\ Len(u) = n + l
  BY <1>9, <1>16, ConcatProperties
<1>18. c[k] = CellFor(M, "t", b[k])
  BY <1>6 DEF CellAt, FirstCells
<1>19. b[k].pos = Len(u) /\ Spells(Below(M, b[k].pos), b[k].first, u)
       /\ AllExact(Below(M, b[k].pos), b[k].first)
  BY <1>1, <1>5, <1>14, <1>15, <1>16, <1>17
<1>20. PICK x, w : x = CellFor(M, "t", b[k]) /\ w = b[k]
  OBVIOUS
<1>21. x.pos = b[k].pos /\ x.seqs = b[k].seqs /\ x.toks = Append(u, b[k].tok) /\ x.exact
  BY <1>17, <1>19, <1>20, CellForFacts
<1>22. Append(u, b[k].tok) = q \o SubSeq(tk[s], 1, l + 1)
  <2>1. b[k].tok = tk[s][l + 1]
    BY <1>2, <1>5
  <2> QED BY <1>2, <1>5, <1>8, <1>16, <2>1, TextGrows
<1>23. ASSUME NEW z \in b[k].seqs PROVE c[k].toks = q \o SubSeq(tk[z], 1, b[k].pos - n + 1)
  <2>1. z \in S /\ tk[z] \in Seq(Token)
    BY DEF Tree
  <2>2. b[k].pos \in n..(n + Len(tk[z]) - 1) /\ \A i \in 1..(b[k].pos - n + 1) : tk[z][i] = tk[s][i]
    BY <1>1 DEF Tree
  <2>3. l + 1 \in Nat /\ l + 1 <= Len(tk[z]) /\ l + 1 <= Len(tk[s])
    BY <1>5, <2>1, <2>2
  <2>4. SubSeq(tk[z], 1, l + 1) = SubSeq(tk[s], 1, l + 1)
    BY <1>2, <1>5, <2>1, <2>2, <2>3, SameStart
  <2> QED BY <1>5, <1>18, <1>20, <1>21, <1>22, <2>4
<1> QED BY <1>18, <1>20, <1>21, <1>23 DEF Right

LEMMA TreeDecoded ==
  ASSUME NEW b, NEW n \in Nat, NEW S, NEW tk, Tree(b, n, S, tk),
         NEW L \in Nat, L = Len(b), NEW q \in Seq(Token), Len(q) = n, NEW c, NEW m,
         \A s \in S : Spells(m, s, q) /\ AllExact(m, s),
         \A j \in 1..L : CellAt(m, "t", b, c, j)
  PROVE  /\ \A j \in 1..L : Right(b, n, tk, q, c, j)
         /\ \A s \in S : /\ Spells(m \cup FirstCells(c, L), s, q \o tk[s])
                         /\ AllExact(m \cup FirstCells(c, L), s)
<1> DEFINE T == {k \in 0..L : \A j \in 1..k : Right(b, n, tk, q, c, j)}
<1>1. 0 \in T /\ T \in SUBSET Nat
  OBVIOUS
<1>2. ASSUME NEW k \in T, k < L PROVE k + 1 \in T
  <2>1. k \in Nat /\ k + 1 \in 1..L /\ (k + 1) - 1 = k /\ k + 1 \in 0..L
    BY <1>2
  <2>2. Right(b, n, tk, q, c, k + 1)
    BY <2>1, TreeStep
  <2>3. \A j \in 1..(k + 1) : j \in 1..k \/ j = k + 1
    BY <2>1
  <2> QED BY <2>1, <2>2, <2>3
<1>3. L \in T
  <2> HIDE DEF T
  <2>1. \A k \in 0..L : k \in T
    BY <1>1, <1>2, CountingTo
  <2> QED BY <2>1
<1>4. \A j \in 1..L : Right(b, n, tk, q, c, j)
  BY <1>3
<1>5. ASSUME NEW s \in S
      PROVE  /\ Spells(m \cup FirstCells(c, L), s, q \o tk[s])
             /\ AllExact(m \cup FirstCells(c, L), s)
  <2>1. PICK l : l = Len(tk[s])
    OBVIOUS
  <2>2. tk[s] \in Seq(Token) /\ l \in Nat /\ l \in 0..Len(tk[s]) /\ L \in 0..L
    BY <2>1 DEF Tree
  <2>3. PICK N : N = FirstCells(c, L)
    OBVIOUS
  <2>4. SubSeq(tk[s], 1, l) = tk[s]
    BY <2>1, <2>2, SubSeqFull
  <2>5. Behind(Below(N, n + l), s, q, tk[s])
    <3>1. AmongFirst(b, s, n + l, L) /\ RightTo(b, n, tk, q, c, L)
      BY <1>4 DEF AmongFirst, RightTo
    <3>2. Behind(Below(FirstCells(c, L), n + l), s, q, SubSeq(tk[s], 1, l))
      BY <2>2, <3>1, BranchSoFar
    <3> QED BY <2>3, <2>4, <3>2
  <2>6. Of(Below(N, n + l), s) = Of(N, s)
    <3>1. ASSUME NEW e \in Of(N, s) PROVE e.pos < n + l
      <4>1. PICK i \in 1..L : e = c[i] /\ s \in e.seqs
        BY <2>3 DEF Of, FirstCells
      <4>2. s \in b[i].seqs /\ e.pos = b[i].pos
        BY <1>4, <4>1 DEF Right
      <4>3. b[i].pos \in n..(n + Len(tk[s]) - 1)
        BY <4>2 DEF Tree
      <4> QED BY <2>1, <2>2, <4>2, <4>3
    <3> QED BY <3>1 DEF Of, Below
  <2>7. Behind(N, s, q, tk[s])
    BY <2>5, <2>6 DEF Behind
  <2>8. Spells(m, s, q) /\ AllExact(m, s)
    OBVIOUS
  <2>9. Spells(m \cup N, s, q \o tk[s])
    BY <2>2, <2>7, <2>8, SpellsMore
  <2>10. \A e \in N : e.exact
    BY <1>4, <2>3 DEF Right, FirstCells
  <2>11. AllExact(m \cup N, s)
    BY <2>8, <2>10 DEF AllExact, Of
  <2> QED BY <2>3, <2>9, <2>11
<1> QED BY <1>4, <1>5

-----------------------------------------------------------------------------
(***************************************************************************)
(* The inductive invariant.                                                *)
(***************************************************************************)
Entries  == [tok : Token, pos : Nat, first : Ids, seqs : SUBSET Ids]
Branches == [active : BOOLEAN, drafting : BOOLEAN, tokens : Seq(Token), rowT : Seq(Nat),
             rowD : Nat]

Shape(e) == e = [pos |-> e.pos, seqs |-> e.seqs, toks |-> e.toks, exact |-> e.exact]

CellOK(e) ==
  Shape(e) /\ e.pos \in Nat /\ e.seqs \subseteq Ids /\ e.seqs # {} /\ e.toks \in Seq(Token)

CellsOK(m) == \A e \in m : CellOK(e)

Typed ==
  /\ pc \in {"prefill", "skipped", "round", "verify", "keep", "draft", "target", "done"}
  /\ opt \in Options /\ prompt \in Prompts /\ text \in Seq(Token)
  /\ mem = [t |-> mem.t, d |-> mem.d] /\ CellsOK(mem.t) /\ CellsOK(mem.d)
  /\ out = [t |-> out.t, d |-> out.d]
  /\ past \in [t : Nat, d : Nat]
  /\ drafts \in [Ids -> Branches]
  /\ keep \in Ids /\ scanned \in Nat /\ open \subseteq Ids /\ todo \subseteq Ids
  /\ ndraft \in 0..Cap /\ step \in Nat /\ nseq \in 1..opt.nseq
  /\ batch \in [t : Seq(Entries), d : Seq(Entries)]
  /\ chosen \in [seqs : SUBSET Ids, nodes : Nat]

(* Positions, and the length of the text: the target has decoded it up to  *)
(* the last token; no position reaches Inf.                                *)
Lengths ==
  /\ Len(prompt) <= Len(text)
  /\ pc \in {"prefill", "round", "verify"} => Len(text) = past.t /\ past.d = past.t
  /\ pc = "keep" => Len(text) = past.t + 1 /\ past.d = past.t
  /\ pc \in {"draft", "target"} => /\ Len(text) = past.t + 1 /\ past.d = past.t + 1
                                   /\ Len(text) <= Len(prompt) + Predict
  /\ pc = "draft" => step < Depths
  /\ pc # "done" => \A e \in mem.t \cup mem.d : e.pos < Inf

(* The sequences made in this round, and those in the target's batch. *)
Made   == 0..(nseq - 1)
Picked == IF opt.prune THEN chosen.seqs ELSE Made

(* Row k of a sequence is the entry of its k-th token: at its position,    *)
(* and of a sequence that has drafted the same tokens up to there.         *)
RowsOf(b, n, dr, s) ==
  /\ Len(dr[s].rowT) \in 1..Len(dr[s].tokens) /\ Len(dr[s].rowT) <= Cap + 1
  /\ \A k \in 1..Len(dr[s].rowT) :
       /\ dr[s].rowT[k] \in 1..Len(b)
       /\ b[dr[s].rowT[k]].pos = n + k - 1
       /\ \A i \in 1..k : dr[s].tokens[i] = dr[b[dr[s].rowT[k]].first].tokens[i]
  /\ \A k, l \in 1..Len(dr[s].rowT) : k < l => dr[s].rowT[k] < dr[s].rowT[l]

(* An entry belongs to sequences that have it among their rows. *)
EntryOf(b, n, dr, S, j) ==
  /\ b[j].first \in b[j].seqs /\ b[j].seqs \subseteq S
  /\ b[j].tok = dr[b[j].first].tokens[b[j].pos - n + 1]
  /\ \A s \in b[j].seqs : \E k \in 1..Len(dr[s].rowT) : dr[s].rowT[k] = j

Rows(b, n, dr, M, S) ==
  /\ S \subseteq M /\ 0 \in S
  /\ \A s \in M : RowsOf(b, n, dr, s)
  /\ \A s \in S : \A k \in 1..Len(dr[s].rowT) : s \in b[dr[s].rowT[k]].seqs
  /\ \A j \in 1..Len(b) : EntryOf(b, n, dr, S, j)

RowsKnown ==
  pc \in {"draft", "target"} =>
    /\ Made \subseteq Ids /\ Rows(batch.t, past.t, drafts, Made, Picked)
    /\ \A s \in Made : drafts[s].tokens[1] = text[Len(text)]

(* Within a depth: who is still to propose, and who has. *)
Depth ==
  pc = "draft" =>
    /\ todo \subseteq Picked /\ todo \cap Proposed = {} /\ Proposed \subseteq Made
    /\ \A s \in todo : Len(drafts[s].tokens) = step + 1 /\ Len(drafts[s].rowT) = step + 1
    /\ \A s \in Proposed : Len(drafts[s].tokens) = step + 2
    /\ opt.prune => /\ \A s \in Proposed : Len(drafts[s].rowT) = step + 1
                    /\ \A s \in Picked \ Proposed : Len(drafts[s].rowT) = Len(drafts[s].tokens)
    /\ ~opt.prune => /\ Proposed = Made \ todo
                     /\ \A s \in Made : Len(drafts[s].rowT) = Len(drafts[s].tokens)
                     /\ \A s \in Ids : /\ drafts[s].active <=> s \in Made
                                       /\ drafts[s].drafting <=> s \in Made
    /\ \A j \in 1..Len(batch.d) :
         /\ batch.d[j].seqs = {batch.d[j].first} /\ drafts[batch.d[j].first].rowD = j
         /\ batch.d[j].pos = past.d + step
         /\ batch.d[j].tok = drafts[batch.d[j].first].tokens[step + 2]

TreeReady ==
  pc = "target" =>
    \A s \in Ids : /\ drafts[s].active <=> s \in Picked
                   /\ s \in Picked => Len(drafts[s].rowT) = Len(drafts[s].tokens)

(* While drafting, the target's cells of sequence 0 below the root. *)
BelowRoot ==
  pc \in {"draft", "target"} =>
    /\ \E q \in Seq(Token) :
         /\ Len(q) = past.t
         /\ Spells(Below(mem.t, past.t), 0, q) /\ AllExact(Below(mem.t, past.t), 0)
         /\ opt.nseq = 1 => q = SubSeq(text, 1, past.t)
    /\ ~opt.share => \A e \in mem.t : e.pos < past.t

(* After the target's decode: q is the text up to the root, every branch   *)
(* is in the cache behind it, and has a row for each of its tokens.        *)
Kept == IF pc = "round" THEN 0 ELSE scanned
Live == {s \in Ids : drafts[s].active} \cup {0}

BranchRows(o, d, q) ==
  /\ Len(d.rowT) = Len(d.tokens) + 1
  /\ \A k \in 1..Len(d.rowT) :
       /\ d.rowT[k] \in DOMAIN o /\ o[d.rowT[k]].exact
       /\ o[d.rowT[k]].toks = q \o SubSeq(d.tokens, 1, k - 1)

InTree(q) ==
  /\ Len(q) + Kept = past.t /\ Len(q) > 0 /\ q[Len(q)] = text[Len(q)]
  /\ \A s \in Live : /\ Spells(mem.t, s, q \o drafts[s].tokens) /\ AllExact(mem.t, s)
                     /\ BranchRows(out.t, drafts[s], q)
  /\ opt.nseq = 1 => SubSeq(text, 1, past.t) = q \o SubSeq(drafts[keep].tokens, 1, Kept)

Decided ==
  /\ pc \in {"round", "verify", "keep"} => \E q \in Seq(Token) : InTree(q)
  /\ pc \in {"verify", "keep"} => keep \in Live /\ scanned <= Len(drafts[keep].tokens)
  /\ pc = "verify" => open \subseteq Live /\ (opt.nseq = 1 /\ seen => open = {})

(* The draft's cells, where they are complete. *)
Behaved == opt.share \/ ~opt.prune

(* While drafting, each sequence up to the depth that was decoded last. *)
DraftSpells(s, q) ==
  /\ Len(q) = past.d + step /\ Spells(mem[Dft], s, q)
  /\ \A i \in 1..(step + 1) : q[past.d - 1 + i] = drafts[s].tokens[i]

DraftDepth ==
  pc = "draft" /\ Behaved =>
    /\ \A s \in Proposed : \E q \in Seq(Token) : DraftSpells(s, q)
    /\ \A s \in todo : \E q \in Seq(Token) :
         /\ DraftSpells(s, q)
         /\ drafts[s].rowD \in DOMAIN out.d /\ out.d[drafts[s].rowD].toks = q

(* A cache of its own holds every branch until the roll-back. *)
DraftHolds(m, s, n) == \E q \in Seq(Token) : Len(q) = n /\ Spells(m, s, q)

DraftWhole ==
  ~opt.share /\ ~opt.prune =>
    /\ pc = "target" => \A s \in Made : DraftHolds(mem.d, s, past.t + Len(drafts[s].tokens))
    /\ pc \in {"round", "verify", "keep"} =>
         \A s \in Live : DraftHolds(mem.d, s, past.d - Kept + Len(drafts[s].tokens))

Inv ==
  /\ Typed /\ Lengths /\ RowsKnown /\ Depth /\ TreeReady /\ BelowRoot /\ Decided
  /\ DraftDepth /\ DraftWhole /\ OutputInSupport

-----------------------------------------------------------------------------
(***************************************************************************)
(* What the invariant says about the properties.                           *)
(***************************************************************************)
LEMMA OptionsTyped ==
  ASSUME Typed
  PROVE  /\ opt.nseq \in Nat \ {0} /\ opt.share \in BOOLEAN /\ opt.prune \in BOOLEAN
         /\ 0 \in Ids /\ \A s \in Ids : s \in Nat
<1>1. opt \in [nseq : Nat \ {0}, share : BOOLEAN, prune : BOOLEAN]
  BY TreeAssumption DEF Typed
<1>2. opt.nseq \in Nat \ {0} /\ opt.share \in BOOLEAN /\ opt.prune \in BOOLEAN
  BY <1>1
<1> QED BY <1>2 DEF Ids

LEMMA TextTyped ==
  ASSUME Typed
  PROVE  /\ text \in Seq(Token) /\ Len(text) \in Nat /\ prompt \in Seq(Token) /\ Len(prompt) \in Nat
         /\ past.t \in Nat /\ past.d \in Nat
<1>1. text \in Seq(Token) /\ prompt \in Prompts /\ past \in [t : Nat, d : Nat]
  BY DEF Typed
<1>2. prompt \in Seq(Token)
  BY <1>1, TreeAssumption
<1> QED BY <1>1, <1>2, LenProperties

LEMMA BranchTyped ==
  ASSUME Typed, NEW s \in Ids
  PROVE  /\ drafts[s].tokens \in Seq(Token) /\ Len(drafts[s].tokens) \in Nat
         /\ drafts[s].rowT \in Seq(Nat) /\ Len(drafts[s].rowT) \in Nat
         /\ DOMAIN drafts[s].rowT = 1..Len(drafts[s].rowT)
         /\ drafts[s].rowD \in Nat
         /\ drafts[s].active \in BOOLEAN /\ drafts[s].drafting \in BOOLEAN
<1>1. drafts[s] \in Branches
  BY DEF Typed
<1>2. PICK d : d = drafts[s]
  OBVIOUS
<1>3. d \in Branches
  BY <1>1, <1>2
<1>4. d.tokens \in Seq(Token) /\ d.rowT \in Seq(Nat) /\ d.rowD \in Nat
      /\ d.active \in BOOLEAN /\ d.drafting \in BOOLEAN
  BY <1>3 DEF Branches
<1>5. Len(d.tokens) \in Nat /\ Len(d.rowT) \in Nat /\ DOMAIN d.rowT = 1..Len(d.rowT)
  BY <1>4, LenProperties
<1> QED BY <1>2, <1>4, <1>5

LEMMA InvTypes == Inv => TreeTypeOK
<1> SUFFICES ASSUME Inv PROVE TreeTypeOK
  OBVIOUS
<1>1. Typed /\ RowsKnown /\ TreeReady
  BY DEF Inv
<1>2. \A e \in mem.t \cup mem.d : e.pos \in Nat /\ e.seqs \subseteq Ids /\ e.seqs # {}
  BY <1>1 DEF Typed, CellsOK, CellOK
<1>3. \A s \in Ids : drafts[s].tokens \in Seq(Token)
  BY <1>1, BranchTyped
<1>4. ASSUME pc = "target", NEW s \in Ids, drafts[s].active
      PROVE  /\ Len(drafts[s].rowT) = Len(drafts[s].tokens)
             /\ \A k \in DOMAIN drafts[s].rowT : drafts[s].rowT[k] \in DOMAIN batch.t
  <2>1. s \in Picked /\ Len(drafts[s].rowT) = Len(drafts[s].tokens)
    BY <1>1, <1>4 DEF TreeReady
  <2>2. RowsOf(batch.t, past.t, drafts, s)
    BY <1>1, <1>4, <2>1 DEF RowsKnown, Rows
  <2>3. batch.t \in Seq(Entries)
    BY <1>1 DEF Typed
  <2>4. DOMAIN batch.t = 1..Len(batch.t)
    BY <2>3, LenProperties
  <2>5. DOMAIN drafts[s].rowT = 1..Len(drafts[s].rowT)
    BY <1>1, BranchTyped
  <2>6. \A k \in 1..Len(drafts[s].rowT) : drafts[s].rowT[k] \in 1..Len(batch.t)
    BY <2>2 DEF RowsOf
  <2> QED BY <2>1, <2>4, <2>5, <2>6
<1>5. /\ pc \in {"prefill", "skipped", "round", "verify", "keep", "draft", "target", "done"}
      /\ text \in Seq(Token) /\ keep \in Ids /\ open \subseteq Ids /\ todo \subseteq Ids
      /\ nseq \in 1..opt.nseq
  BY <1>1 DEF Typed
<1> QED BY <1>2, <1>3, <1>4, <1>5 DEF TreeTypeOK

(* The row consulted in a round. *)
LEMMA RowConsulted ==
  ASSUME Typed, Lengths, Decided, pc = "verify"
  PROVE  \E q \in Seq(Token) :
           /\ InTree(q) /\ Kept = scanned /\ Len(q) \in Nat \ {0} /\ Len(text) = Len(q) + scanned
           /\ keep \in Ids /\ keep \in Live /\ scanned <= Len(drafts[keep].tokens)
           /\ Consulted.exact /\ Consulted.toks = q \o SubSeq(drafts[keep].tokens, 1, scanned)
<1>1. PICK q \in Seq(Token) : InTree(q)
  BY DEF Decided
<1>2. keep \in Ids /\ keep \in Live /\ scanned <= Len(drafts[keep].tokens) /\ scanned \in Nat
  BY DEF Decided, Typed
<1>3. Kept = scanned /\ Len(q) \in Nat /\ Len(q) > 0 /\ Len(q) + scanned = past.t
  BY <1>1 DEF Kept, InTree
<1>4. Len(text) = past.t
  BY DEF Lengths
<1>5. BranchRows(out.t, drafts[keep], q)
  BY <1>1, <1>2 DEF InTree
<1>6. Len(drafts[keep].tokens) \in Nat
  BY <1>2, BranchTyped
<1>7. PICK k : k = scanned + 1
  OBVIOUS
<1>8. k \in 1..Len(drafts[keep].rowT) /\ k - 1 = scanned
  BY SMTT(60), <1>2, <1>5, <1>6, <1>7 DEF BranchRows
<1>9. /\ out.t[drafts[keep].rowT[k]].exact
      /\ out.t[drafts[keep].rowT[k]].toks = q \o SubSeq(drafts[keep].tokens, 1, k - 1)
  BY <1>5, <1>8 DEF BranchRows
<1>10. Consulted.exact /\ Consulted.toks = q \o SubSeq(drafts[keep].tokens, 1, scanned)
  BY <1>7, <1>8, <1>9 DEF Consulted
<1>11. Len(q) \in Nat \ {0} /\ Len(text) = Len(q) + scanned
  BY <1>3, <1>4
<1> QED BY <1>1, <1>2, <1>3, <1>10, <1>11, Zenon

LEMMA InvRow == Inv => RowOfKeptBranch
<1> SUFFICES ASSUME Inv, pc = "verify"
             PROVE  /\ Consulted.exact
                    /\ Len(Consulted.toks) = Len(text)
                    /\ \A i \in 1..scanned :
                         Consulted.toks[Len(text) - scanned + i] = drafts[keep].tokens[i]
                    /\ Consulted.toks[Len(text) - scanned] = text[Len(text) - scanned]
  BY DEF RowOfKeptBranch
<1>1. Typed /\ Lengths /\ Decided
  BY DEF Inv
<1>2. PICK q \in Seq(Token) :
           /\ InTree(q) /\ Kept = scanned /\ Len(q) \in Nat \ {0} /\ Len(text) = Len(q) + scanned
           /\ keep \in Ids /\ keep \in Live /\ scanned <= Len(drafts[keep].tokens)
           /\ Consulted.exact /\ Consulted.toks = q \o SubSeq(drafts[keep].tokens, 1, scanned)
  BY <1>1, RowConsulted
<1>3. PICK d, c, r, n : /\ d = drafts[keep].tokens /\ c = Consulted.toks
                        /\ r = SubSeq(drafts[keep].tokens, 1, scanned) /\ n = Len(q)
  OBVIOUS
<1>4. d \in Seq(Token) /\ Len(d) \in Nat /\ scanned \in 0..Len(d) /\ scanned \in Nat
  BY SMTT(60), <1>1, <1>2, <1>3, BranchTyped DEF Typed
<1>5. r \in Seq(Token) /\ Len(r) = scanned /\ \A i \in 1..scanned : r[i] = d[i]
  BY <1>3, <1>4, FirstPart
<1>6. /\ c = q \o r /\ Len(c) = n + scanned
      /\ \A i \in 1..(n + scanned) : c[i] = IF i <= n THEN q[i] ELSE r[i - n]
  BY <1>2, <1>3, <1>5, ConcatProperties
<1>7. n \in Nat \ {0} /\ Len(text) - scanned = n /\ Len(text) = n + scanned
  BY <1>2, <1>3, <1>4
<1>8. ASSUME NEW i \in 1..scanned PROVE c[n + i] = d[i]
  <2>1. n + i \in 1..(n + scanned) /\ ~(n + i <= n) /\ (n + i) - n = i
    BY <1>4, <1>7
  <2> QED BY <1>5, <1>6, <2>1
<1>9. c[n] = text[n]
  <2>1. n \in 1..(n + scanned) /\ n <= n
    BY <1>4, <1>7
  <2>2. q[n] = text[n]
    BY <1>2, <1>3 DEF InTree
  <2> QED BY <1>6, <2>1, <2>2
<1> QED BY <1>2, <1>3, <1>6, <1>7, <1>8, <1>9

LEMMA InvDraft == Inv => DraftFollowsBranch
<1> SUFFICES ASSUME Inv, pc = "draft", Behaved, NEW s \in todo
             PROVE  /\ drafts[s].rowD \in DOMAIN out.d
                    /\ Len(out.d[drafts[s].rowD].toks) = past.d + step
                    /\ \A i \in 1..Len(drafts[s].tokens) :
                         out.d[drafts[s].rowD].toks[Len(out.d[drafts[s].rowD].toks)
                                                      - Len(drafts[s].tokens) + i]
                           = drafts[s].tokens[i]
  BY DEF DraftFollowsBranch, Behaved
<1>1. Typed /\ Depth /\ DraftDepth
  BY DEF Inv
<1>2. PICK q \in Seq(Token) :
         /\ DraftSpells(s, q)
         /\ drafts[s].rowD \in DOMAIN out.d /\ out.d[drafts[s].rowD].toks = q
  BY <1>1 DEF DraftDepth
<1>3. Len(drafts[s].tokens) = step + 1
  BY <1>1 DEF Depth
<1>4. past.d \in Nat /\ step \in Nat
  BY <1>1 DEF Typed
<1>5. Len(q) = past.d + step /\ \A i \in 1..(step + 1) : q[past.d - 1 + i] = drafts[s].tokens[i]
  BY <1>2 DEF DraftSpells
<1>6. \A i \in 1..(step + 1) : Len(q) - (step + 1) + i = past.d - 1 + i
  BY <1>4, <1>5
<1> QED BY <1>2, <1>3, <1>5, <1>6

-----------------------------------------------------------------------------
(***************************************************************************)
(* The invariant holds initially.                                          *)
(***************************************************************************)
LEMMA InvInit == Init => Inv
<1> SUFFICES ASSUME Init PROVE Inv
  OBVIOUS
<1> USE DEF Init
<1>1. prompt \in Seq(Token) /\ prompt # << >> /\ text = prompt
  BY TreeAssumption
<1>2. Len(text) \in Nat
  BY <1>1
<1>3. opt \in Options /\ opt.nseq \in Nat \ {0} /\ 0 \in Ids
  BY TreeAssumption DEF Ids
<1>4. ASSUME NEW s \in Ids PROVE drafts[s] \in Branches
  <2>1. PICK e, r, f : e = << >> /\ r = << 1 >> /\ f = FALSE
    OBVIOUS
  <2>2. NoDraft = [active |-> f, drafting |-> f, tokens |-> e, rowT |-> e, rowD |-> 1]
    BY <2>1, Zenon DEF NoDraft
  <2>3. e \in Seq(Token) /\ e \in Seq(Nat) /\ r \in Seq(Nat) /\ f \in BOOLEAN /\ 1 \in Nat
    <3>1. << >> \in Seq(Token) /\ << >> \in Seq(Nat) /\ << 1 >> \in Seq(Nat) /\ 1 \in Nat
      OBVIOUS
    <3>2. f \in BOOLEAN
      BY <2>1, Zenon
    <3> QED BY <2>1, <3>1, <3>2, Zenon
  <2>4. NoDraft \in Branches
    BY <2>2, <2>3 DEF Branches
  <2>5. [NoDraft EXCEPT !.rowT = r] \in Branches
    BY <2>3, <2>4 DEF Branches
  <2>6. drafts[s] = IF s = 0 THEN [NoDraft EXCEPT !.rowT = r] ELSE NoDraft
    BY <2>1
  <2> QED BY <2>4, <2>5, <2>6
<1>5. drafts \in [Ids -> Branches]
  <2>1. DOMAIN drafts = Ids /\ drafts = [s \in Ids |-> drafts[s]]
    OBVIOUS
  <2> QED BY <1>4, <2>1
<1>6. mem.t = {} /\ mem.d = {} /\ batch.t = << >> /\ batch.d = << >>
  OBVIOUS
<1>7. Typed
  <2>1. mem = [t |-> mem.t, d |-> mem.d] /\ out = [t |-> out.t, d |-> out.d]
    OBVIOUS
  <2>2. CellsOK(mem.t) /\ CellsOK(mem.d)
    BY <1>6 DEF CellsOK
  <2>3. past \in [t : Nat, d : Nat]
    BY <1>2
  <2>4. batch \in [t : Seq(Entries), d : Seq(Entries)]
    <3>1. << >> \in Seq(Entries)
      OBVIOUS
    <3> QED BY <3>1
  <2>5. chosen \in [seqs : SUBSET Ids, nodes : Nat]
    BY <1>3
  <2>6. keep \in Ids /\ scanned \in Nat /\ open \subseteq Ids /\ todo \subseteq Ids
    BY <1>3
  <2>7. ndraft \in 0..Cap /\ step \in Nat /\ nseq \in 1..opt.nseq
    BY <1>3, TreeAssumption
  <2>8. pc = "prefill" /\ opt \in Options /\ prompt \in Prompts
    OBVIOUS
  <2> QED BY <1>1, <1>5, <2>1, <2>2, <2>3, <2>4, <2>5, <2>6, <2>7, <2>8 DEF Typed
<1>8. Lengths
  BY <1>1, <1>2, <1>6 DEF Lengths
<1>9. OutputInSupport
  BY <1>1, <1>2 DEF OutputInSupport
<1>10. /\ RowsKnown /\ Depth /\ TreeReady /\ BelowRoot /\ Decided /\ DraftDepth /\ DraftWhole
  BY DEF RowsKnown, Depth, TreeReady, BelowRoot, Decided, DraftDepth, DraftWhole
<1> QED BY <1>7, <1>8, <1>9, <1>10 DEF Inv

-----------------------------------------------------------------------------
(***************************************************************************)
(* Verification.  The tree in the caches and its rows stay as they are.    *)
(***************************************************************************)
LEMMA NotDrafting ==
  ASSUME pc' \notin {"draft", "target"}
  PROVE  RowsKnown' /\ Depth' /\ TreeReady' /\ BelowRoot' /\ DraftDepth'
BY DEF RowsKnown, Depth, TreeReady, BelowRoot, DraftDepth

LEMMA Nothing ==
  ASSUME NEW q
  PROVE  SubSeq(q, 1, 0) = << >>
<1>1. 1 \in Int /\ 0 \in Int /\ 0 < 1
  OBVIOUS
<1> QED BY <1>1, SubSeqEmpty

LEMMA BeginRoundStep == Inv /\ BeginRound => Inv'
<1> SUFFICES ASSUME Inv, BeginRound PROVE Inv'
  OBVIOUS
<1>1. /\ Typed /\ Lengths /\ Decided /\ DraftWhole /\ OutputInSupport
  BY DEF Inv
<1>2. /\ pc = "round" /\ pc' = "verify" /\ ndraft' \in 0..Cap
      /\ open' = {s \in Ids : drafts[s].active}
      /\ keep' = 0 /\ scanned' = 0 /\ seen' = FALSE
      /\ opt' = opt /\ mem' = mem /\ out' = out /\ prompt' = prompt /\ text' = text /\ past' = past
      /\ drafts' = drafts /\ step' = step /\ todo' = todo /\ nseq' = nseq /\ batch' = batch
      /\ chosen' = chosen
  BY DEF BeginRound
<1>3. Ids' = Ids /\ Live' = Live /\ Kept = 0 /\ Kept' = 0 /\ 0 \in Ids
  BY <1>1, <1>2, OptionsTyped DEF Ids, Live, Kept
<1>4. Typed'
  <2>1. Entries' = Entries /\ Branches' = Branches
    BY <1>3 DEF Entries, Branches
  <2>2. CellsOK(mem.t)' /\ CellsOK(mem.d)'
    BY <1>1, <1>2, <1>3 DEF Typed, CellsOK, CellOK
  <2>3. keep' \in Ids' /\ scanned' \in Nat /\ open' \subseteq Ids'
    BY <1>2, <1>3
  <2> QED BY <1>1, <1>2, <1>3, <2>1, <2>2, <2>3 DEF Typed
<1>5. Lengths'
  BY <1>1, <1>2 DEF Lengths
<1>6. Decided'
  <2>1. PICK q \in Seq(Token) : InTree(q)
    BY <1>1, <1>2 DEF Decided
  <2>2. /\ Len(q) + Kept = past.t /\ Len(q) > 0 /\ q[Len(q)] = text[Len(q)]
        /\ \A s \in Live : /\ Spells(mem.t, s, q \o drafts[s].tokens) /\ AllExact(mem.t, s)
                           /\ BranchRows(out.t, drafts[s], q)
    BY <2>1 DEF InTree
  <2>3. opt.nseq = 1 => SubSeq(text, 1, past.t) = q \o SubSeq(drafts[0].tokens, 1, 0)
    BY <1>3, <2>1, Nothing DEF InTree
  <2>4. InTree(q)'
    BY <1>2, <1>3, <2>2, <2>3 DEF InTree
  <2>5. 0 \in Live /\ 0 <= Len(drafts[0].tokens)
    BY <1>1, <1>3, BranchTyped DEF Live
  <2>6. open' \subseteq Live'
    BY <1>2, <1>3 DEF Live
  <2> QED BY <1>2, <1>3, <2>4, <2>5, <2>6 DEF Decided
<1>7. DraftWhole'
  BY <1>1, <1>2, <1>3 DEF DraftWhole
<1>8. OutputInSupport'
  BY <1>1, <1>2 DEF OutputInSupport
<1>9. RowsKnown' /\ Depth' /\ TreeReady' /\ BelowRoot' /\ DraftDepth'
  BY <1>2, NotDrafting
<1> QED BY <1>4, <1>5, <1>6, <1>7, <1>8, <1>9 DEF Inv

(* A step of the verification changes at most open, keep, seen, scanned,   *)
(* the text and the positions.                                             *)
LEMMA VerifyTyped ==
  ASSUME Typed, pc' \in {"verify", "keep"},
         UNCHANGED << opt, mem, out, prompt, drafts, ndraft, step, todo, nseq, batch, chosen >>,
         text' \in Seq(Token), past' \in [t : Nat, d : Nat], keep' \in Ids, scanned' \in Nat,
         open' \subseteq Ids
  PROVE  Typed' /\ Ids' = Ids /\ Live' = Live
<1>1. Ids' = Ids /\ Live' = Live
  BY DEF Ids, Live
<1>2. Entries' = Entries /\ Branches' = Branches
  BY <1>1 DEF Entries, Branches
<1>3. CellsOK(mem.t)' /\ CellsOK(mem.d)'
  BY <1>1 DEF Typed, CellsOK, CellOK
<1>4. Typed'
  BY <1>1, <1>2, <1>3 DEF Typed
<1> QED BY <1>1, <1>4

(* The text goes on with a token the sampler may draw after it. *)
LEMMA SupportGrows ==
  ASSUME Typed, Lengths, OutputInSupport, opt' = opt, prompt' = prompt,
         NEW t \in Token, text' = Append(text, t),
         opt.nseq = 1 => t \in Support(text)
  PROVE  OutputInSupport'
<1> SUFFICES ASSUME opt.nseq = 1, NEW i \in (Len(prompt) + 1)..Len(text')
             PROVE  text'[i] \in Support(SubSeq(text', 1, i - 1))
  BY DEF OutputInSupport
<1>1. text \in Seq(Token) /\ Len(text) \in Nat /\ prompt \in Seq(Token) /\ Len(prompt) \in Nat
  BY TextTyped
<1>2. /\ text' \in Seq(Token) /\ Len(text') = Len(text) + 1 /\ text'[Len(text) + 1] = t
      /\ \A k \in 1..Len(text) : text'[k] = text[k]
  BY <1>1, AppendProperties
<1>3. SubSeq(text', 1, i - 1) = SubSeq(text, 1, i - 1)
  <2>1. /\ i - 1 \in Nat /\ i - 1 <= Len(text) /\ i - 1 <= Len(text')
        /\ \A k \in 1..(i - 1) : k \in 1..Len(text)
    BY <1>1, <1>2
  <2> QED BY <1>1, <1>2, <2>1, SameStart
<1>4. CASE i = Len(text) + 1
  <2>1. SubSeq(text, 1, i - 1) = text
    BY <1>1, <1>4, SubSeqFull
  <2> QED BY <1>2, <1>3, <1>4, <2>1
<1>5. CASE i # Len(text) + 1
  <2>1. i \in (Len(prompt) + 1)..Len(text) /\ i \in 1..Len(text)
    BY <1>1, <1>2, <1>5
  <2> QED BY <1>2, <1>3, <2>1 DEF OutputInSupport
<1> QED BY <1>4, <1>5

(* With one sequence the row consulted is that of the text. *)
LEMMA RowOfText ==
  ASSUME Typed, Lengths, Decided, pc = "verify", opt.nseq = 1
  PROVE  Consulted.exact /\ Consulted.toks = text
<1>1. PICK q \in Seq(Token) :
           /\ InTree(q) /\ Kept = scanned /\ Len(q) \in Nat \ {0} /\ Len(text) = Len(q) + scanned
           /\ keep \in Ids /\ keep \in Live /\ scanned <= Len(drafts[keep].tokens)
           /\ Consulted.exact /\ Consulted.toks = q \o SubSeq(drafts[keep].tokens, 1, scanned)
  BY RowConsulted
<1>2. SubSeq(text, 1, past.t) = q \o SubSeq(drafts[keep].tokens, 1, scanned)
  BY <1>1 DEF InTree
<1>3. text \in Seq(Token) /\ past.t = Len(text)
  BY DEF Typed, Lengths
<1>4. SubSeq(text, 1, past.t) = text
  BY <1>3, SubSeqFull
<1> QED BY <1>1, <1>2, <1>4

LEMMA DropStep == Inv /\ (\E s \in Ids : DropExhausted(s) \/ Reject(s)) => Inv'
<1> SUFFICES ASSUME Inv, NEW s \in Ids, DropExhausted(s) \/ Reject(s) PROVE Inv'
  OBVIOUS
<1>1. /\ Typed /\ Lengths /\ Decided /\ DraftWhole /\ OutputInSupport
  BY DEF Inv
<1>2. /\ pc = "verify" /\ pc' = "verify" /\ ndraft' = ndraft /\ s \in open /\ open' = open \ {s}
      /\ keep' = keep /\ scanned' = scanned
      /\ opt' = opt /\ mem' = mem /\ out' = out /\ prompt' = prompt /\ text' = text /\ past' = past
      /\ drafts' = drafts /\ step' = step /\ todo' = todo /\ nseq' = nseq /\ batch' = batch
      /\ chosen' = chosen
  BY DEF DropExhausted, Reject
<1>3. Typed' /\ Ids' = Ids /\ Live' = Live
  <2>1. /\ text' \in Seq(Token) /\ past' \in [t : Nat, d : Nat] /\ keep' \in Ids
        /\ scanned' \in Nat /\ open' \subseteq Ids
    BY <1>1, <1>2 DEF Typed
  <2> QED BY <1>1, <1>2, <2>1, VerifyTyped
<1>4. Kept' = Kept
  BY <1>2 DEF Kept
<1>5. Lengths'
  BY <1>1, <1>2 DEF Lengths
<1>6. Decided'
  <2>1. PICK q \in Seq(Token) : InTree(q)
    BY <1>1, <1>2 DEF Decided
  <2>2. InTree(q)'
    BY <1>2, <1>3, <1>4, <2>1 DEF InTree
  <2>3. open \subseteq Live /\ keep \in Live /\ scanned <= Len(drafts[keep].tokens)
    BY <1>1, <1>2 DEF Decided
  <2>4. opt.nseq = 1 => open' = {}
    <3> SUFFICES ASSUME opt.nseq = 1 PROVE open' = {}
      OBVIOUS
    <3>1. \A z \in Ids : z = 0
      BY DEF Ids
    <3>2. open \subseteq Ids
      BY <1>1 DEF Typed
    <3> QED BY <1>2, <3>1, <3>2
  <2> QED BY <1>2, <1>3, <2>2, <2>3, <2>4 DEF Decided
<1>7. DraftWhole'
  BY <1>1, <1>2, <1>3, <1>4 DEF DraftWhole
<1>8. OutputInSupport'
  BY <1>1, <1>2 DEF OutputInSupport
<1>9. RowsKnown' /\ Depth' /\ TreeReady' /\ BelowRoot' /\ DraftDepth'
  BY <1>2, NotDrafting
<1> QED BY <1>3, <1>5, <1>6, <1>7, <1>8, <1>9 DEF Inv

LEMMA AcceptStep == Inv /\ (\E s \in Ids : Accept(s)) => Inv'
<1> SUFFICES ASSUME Inv, NEW s \in Ids, Accept(s) PROVE Inv'
  OBVIOUS
<1>1. /\ Typed /\ Lengths /\ Decided /\ DraftWhole /\ OutputInSupport
  BY DEF Inv
<1>2. /\ pc = "verify" /\ pc' = "verify" /\ ndraft' = ndraft /\ s \in open /\ open' = open
      /\ scanned < Len(drafts[s].tokens) /\ keep' = s /\ scanned' = scanned + 1
      /\ past' = [t |-> past.t + 1, d |-> past.d + 1]
      /\ opt' = opt /\ mem' = mem /\ out' = out /\ prompt' = prompt
      /\ drafts' = drafts /\ step' = step /\ todo' = todo /\ nseq' = nseq /\ batch' = batch
      /\ chosen' = chosen
  BY DEF Accept
<1>3. PICK t : t = Candidate(s)
  OBVIOUS
<1>4. text' = Append(text, t) /\ Acceptable(t) /\ t = drafts[s].tokens[scanned + 1]
  BY <1>3 DEF Accept, Candidate
<1>5. ~seen'
  BY DEF Accept
<1>6. /\ text \in Seq(Token) /\ Len(text) \in Nat
      /\ past.t \in Nat /\ past.d \in Nat /\ scanned \in Nat
  BY <1>1, TextTyped DEF Typed
<1>7. drafts[s].tokens \in Seq(Token) /\ Len(drafts[s].tokens) \in Nat
  BY <1>1, BranchTyped
<1>8. t \in Token
  <2>1. scanned + 1 \in 1..Len(drafts[s].tokens)
    BY <1>2, <1>6, <1>7
  <2> QED BY <1>4, <1>7, <2>1, ElementOfSeq
<1>9. /\ text' \in Seq(Token) /\ Len(text') = Len(text) + 1
      /\ \A k \in 1..Len(text) : text'[k] = text[k]
  BY <1>4, <1>6, <1>8, AppendProperties
<1>10. past'.t = past.t + 1 /\ past'.d = past.d + 1
  BY <1>2
<1>11. Typed' /\ Ids' = Ids /\ Live' = Live
  <2>1. /\ past' \in [t : Nat, d : Nat] /\ keep' \in Ids /\ scanned' \in Nat /\ open' \subseteq Ids
    BY SMTT(60), <1>1, <1>2, <1>6 DEF Typed
  <2> QED BY <1>1, <1>2, <1>9, <2>1, VerifyTyped
<1>12. Lengths'
  <2>1. Len(prompt) \in Nat /\ Len(prompt) <= Len(text) /\ Len(text) = past.t /\ past.d = past.t
    BY <1>1, <1>2, TextTyped DEF Lengths
  <2>2. \A e \in mem.t \cup mem.d : e.pos < Inf
    BY <1>1, <1>2 DEF Lengths
  <2> QED BY <1>2, <1>6, <1>9, <1>10, <2>1, <2>2 DEF Lengths
<1>13. Kept = scanned /\ Kept' = scanned + 1
  BY <1>2 DEF Kept
<1>14. PICK q \in Seq(Token) : InTree(q)
  BY <1>1, <1>2 DEF Decided
<1>15. Len(q) \in Nat /\ Len(q) + scanned = past.t /\ Len(q) > 0 /\ q[Len(q)] = text[Len(q)]
  BY <1>13, <1>14 DEF InTree
<1>16. Len(text) = past.t /\ past.d = past.t
  BY <1>1, <1>2 DEF Lengths
<1>17. opt.nseq = 1 => SubSeq(text', 1, past'.t) = q \o SubSeq(drafts[s].tokens, 1, scanned + 1)
  <2> SUFFICES ASSUME opt.nseq = 1
               PROVE  SubSeq(text', 1, past'.t) = q \o SubSeq(drafts[s].tokens, 1, scanned + 1)
    OBVIOUS
  <2>1. keep \in Ids /\ keep = s
    BY <1>1 DEF Ids, Typed
  <2>2. SubSeq(text, 1, past.t) = q \o SubSeq(drafts[s].tokens, 1, scanned)
    BY <1>13, <1>14, <2>1 DEF InTree
  <2>3. SubSeq(text, 1, past.t) = text
    BY <1>6, <1>16, SubSeqFull
  <2>4. scanned \in 0..(Len(drafts[s].tokens) - 1)
    BY <1>2, <1>6, <1>7
  <2>5. PICK z : z = drafts[s].tokens
    OBVIOUS
  <2>6. Append(q \o SubSeq(z, 1, scanned), z[scanned + 1]) = q \o SubSeq(z, 1, scanned + 1)
    BY <1>7, <2>4, <2>5, TextGrows
  <2>7. SubSeq(text', 1, past'.t) = text'
    BY <1>9, <1>10, <1>16, SubSeqFull
  <2> QED BY <1>4, <2>2, <2>3, <2>5, <2>6, <2>7
<1>18. InTree(q)'
  <2>1. Len(q) + Kept' = past'.t /\ q[Len(q)] = text'[Len(q)]
    <3>1. Len(q) \in 1..Len(text)
      BY <1>6, <1>15, <1>16
    <3> QED BY <1>6, <1>9, <1>10, <1>13, <1>15, <3>1
  <2>2. \A z \in Live : /\ Spells(mem.t, z, q \o drafts[z].tokens) /\ AllExact(mem.t, z)
                        /\ BranchRows(out.t, drafts[z], q)
    BY <1>14 DEF InTree
  <2> QED BY <1>2, <1>11, <1>13, <1>15, <1>17, <2>1, <2>2 DEF InTree
<1>19. Decided'
  <2>1. open \subseteq Live
    BY <1>1, <1>2 DEF Decided
  <2>2. scanned + 1 <= Len(drafts[s].tokens)
    BY <1>2, <1>6, <1>7
  <2> QED BY <1>2, <1>5, <1>11, <1>18, <2>1, <2>2 DEF Decided
<1>20. DraftWhole'
  <2>1. past'.d - Kept' = past.d - Kept
    <3>1. (past.d + 1) - (scanned + 1) = past.d - scanned
      BY <1>6
    <3> QED BY <1>10, <1>13, <3>1, Zenon
  <2> QED BY <1>1, <1>2, <1>11, <2>1 DEF DraftWhole
<1>21. OutputInSupport'
  <2>1. opt.nseq = 1 => t \in Support(text)
    <3> SUFFICES ASSUME opt.nseq = 1 PROVE t \in Support(text)
      OBVIOUS
    <3>1. Consulted.exact /\ Consulted.toks = text
      BY <1>1, <1>2, RowOfText
    <3>2. ~seen
      BY <1>1, <1>2 DEF Decided
    <3> QED BY <1>4, <3>1, <3>2 DEF Acceptable, Listed
  <2> QED BY <1>1, <1>2, <1>4, <1>8, <2>1, SupportGrows
<1>22. RowsKnown' /\ Depth' /\ TreeReady' /\ BelowRoot' /\ DraftDepth'
  BY <1>2, NotDrafting
<1> QED BY <1>11, <1>12, <1>19, <1>20, <1>21, <1>22 DEF Inv

LEMMA SampleStep == Inv /\ SampleTarget => Inv'
<1> SUFFICES ASSUME Inv, SampleTarget PROVE Inv'
  OBVIOUS
<1>1. /\ Typed /\ Lengths /\ Decided /\ DraftWhole /\ OutputInSupport
  BY DEF Inv
<1>2. /\ pc = "verify" /\ pc' = "keep" /\ ndraft' = ndraft /\ open' = open
      /\ keep' = keep /\ scanned' = scanned /\ past' = past
      /\ opt' = opt /\ mem' = mem /\ out' = out /\ prompt' = prompt
      /\ drafts' = drafts /\ step' = step /\ todo' = todo /\ nseq' = nseq /\ batch' = batch
      /\ chosen' = chosen
  BY DEF SampleTarget
<1>3. PICK t \in Token : Listed(t) /\ text' = Append(text, t)
  BY DEF SampleTarget
<1>4. /\ text \in Seq(Token) /\ Len(text) \in Nat
      /\ past.t \in Nat /\ past.d \in Nat /\ scanned \in Nat
  BY <1>1, TextTyped DEF Typed
<1>5. /\ text' \in Seq(Token) /\ Len(text') = Len(text) + 1
      /\ \A k \in 1..Len(text) : text'[k] = text[k]
  BY <1>3, <1>4, AppendProperties
<1>6. Typed' /\ Ids' = Ids /\ Live' = Live
  <2>1. past' \in [t : Nat, d : Nat] /\ keep' \in Ids /\ scanned' \in Nat /\ open' \subseteq Ids
    BY <1>1, <1>2 DEF Typed
  <2> QED BY <1>1, <1>2, <1>5, <2>1, VerifyTyped
<1>7. Len(text) = past.t /\ past.d = past.t
  BY <1>1, <1>2 DEF Lengths
<1>8. Lengths'
  <2>1. Len(prompt) \in Nat /\ Len(prompt) <= Len(text)
    BY <1>1, TextTyped DEF Lengths
  <2>2. \A e \in mem.t \cup mem.d : e.pos < Inf
    BY <1>1, <1>2 DEF Lengths
  <2> QED BY <1>2, <1>4, <1>5, <1>7, <2>1, <2>2 DEF Lengths
<1>9. Kept = scanned /\ Kept' = scanned
  BY <1>2 DEF Kept
<1>10. PICK q \in Seq(Token) : InTree(q)
  BY <1>1, <1>2 DEF Decided
<1>11. Len(q) \in Nat /\ Len(q) + scanned = past.t /\ Len(q) > 0 /\ q[Len(q)] = text[Len(q)]
  BY <1>9, <1>10 DEF InTree
<1>12. SubSeq(text', 1, past.t) = SubSeq(text, 1, past.t)
  <2>1. past.t <= Len(text) /\ past.t <= Len(text') /\ \A k \in 1..past.t : text'[k] = text[k]
    BY <1>4, <1>5, <1>7
  <2> QED BY <1>4, <1>5, <2>1, SameStart
<1>13. InTree(q)'
  <2>1. q[Len(q)] = text'[Len(q)]
    <3>1. Len(q) \in 1..Len(text)
      BY <1>4, <1>7, <1>11
    <3> QED BY <1>5, <1>11, <3>1
  <2>2. \A z \in Live : /\ Spells(mem.t, z, q \o drafts[z].tokens) /\ AllExact(mem.t, z)
                        /\ BranchRows(out.t, drafts[z], q)
    BY <1>10 DEF InTree
  <2>3. opt.nseq = 1 => SubSeq(text', 1, past.t) = q \o SubSeq(drafts[keep].tokens, 1, scanned)
    BY <1>9, <1>10, <1>12 DEF InTree
  <2> QED BY <1>2, <1>6, <1>9, <1>11, <2>1, <2>2, <2>3 DEF InTree
<1>14. Decided'
  BY <1>1, <1>2, <1>6, <1>13 DEF Decided
<1>15. DraftWhole'
  BY <1>1, <1>2, <1>6, <1>9 DEF DraftWhole
<1>16. OutputInSupport'
  <2>1. opt.nseq = 1 => t \in Support(text)
    <3> SUFFICES ASSUME opt.nseq = 1 PROVE t \in Support(text)
      OBVIOUS
    <3>1. Consulted.exact /\ Consulted.toks = text
      BY <1>1, <1>2, RowOfText
    <3> QED BY <1>3, <3>1 DEF Listed
  <2> QED BY <1>1, <1>2, <1>3, <2>1, SupportGrows
<1>17. RowsKnown' /\ Depth' /\ TreeReady' /\ BelowRoot' /\ DraftDepth'
  BY <1>2, NotDrafting
<1> QED BY <1>6, <1>8, <1>14, <1>15, <1>16, <1>17 DEF Inv

-----------------------------------------------------------------------------
(***************************************************************************)
(* Caches: cells whose sequences change, and cells taken out.              *)
(***************************************************************************)
LEMMA DraftCache ==
  ASSUME NEW m, m = [t |-> m.t, d |-> m.d], NEW x
  PROVE  /\ m[Dft] = IF opt.share THEN m.t ELSE m.d
         /\ [m EXCEPT ![Dft] = x] = IF opt.share THEN [t |-> x, d |-> m.d] ELSE [t |-> m.t, d |-> x]
<1>1. PICK a, b : a = m.t /\ b = m.d /\ m = [t |-> a, d |-> b]
  OBVIOUS
<1>2. CASE opt.share
  <2>1. Dft = "t"
    BY <1>2 DEF Dft
  <2> QED BY <1>1, <1>2, <2>1
<1>3. CASE ~opt.share
  <2>1. Dft = "d"
    BY <1>3 DEF Dft
  <2> QED BY <1>1, <1>3, <2>1
<1> QED BY <1>2, <1>3

Same(f, e) == f.pos = e.pos /\ f.toks = e.toks /\ f.exact = e.exact

LEMMA ExceptSeqs ==
  ASSUME NEW e, Shape(e), NEW X
  PROVE  /\ [e EXCEPT !.seqs = X].seqs = X /\ Same([e EXCEPT !.seqs = X], e)
         /\ Shape([e EXCEPT !.seqs = X])
<1>1. PICK a, b, c, d : a = e.pos /\ b = e.seqs /\ c = e.toks /\ d = e.exact
  OBVIOUS
<1>2. e = [pos |-> a, seqs |-> b, toks |-> c, exact |-> d]
  BY <1>1 DEF Shape
<1>3. PICK f : f = [e EXCEPT !.seqs = X]
  OBVIOUS
<1>4. f = [pos |-> a, seqs |-> X, toks |-> c, exact |-> d]
  BY <1>2, <1>3
<1>5. f.pos = a /\ f.seqs = X /\ f.toks = c /\ f.exact = d
  BY <1>4
<1>6. Same(f, e) /\ Shape(f)
  BY <1>1, <1>4, <1>5 DEF Same, Shape
<1> QED BY <1>3, <1>5, <1>6

(* The cells of s2 in m2 are those of s in m, each moved by G. *)
Moved(m, s, m2, s2, G) ==
  /\ \A e \in Of(m, s) : G[e] \in Of(m2, s2) /\ Same(G[e], e)
  /\ \A f \in Of(m2, s2) : \E e \in Of(m, s) : f = G[e]

LEMMA MovedSpells ==
  ASSUME NEW m, NEW s, NEW m2, NEW s2, NEW G, Moved(m, s, m2, s2, G), NEW q, Spells(m, s, q)
  PROVE  Spells(m2, s2, q) /\ (AllExact(m, s) => AllExact(m2, s2))
<1>1. ASSUME NEW f \in Of(m2, s2) PROVE \E e \in Of(m, s) : f = G[e] /\ Same(f, e)
  BY DEF Moved
<1>2. ASSUME NEW f \in Of(m2, s2)
      PROVE  f.pos \in 0..(Len(q) - 1) /\ f.toks = SubSeq(q, 1, f.pos + 1)
  BY <1>1 DEF Spells, Same
<1>3. ASSUME NEW p \in 0..(Len(q) - 1) PROVE \E f \in Of(m2, s2) : f.pos = p
  <2>1. PICK e \in Of(m, s) : e.pos = p
    BY DEF Spells
  <2> QED BY <2>1 DEF Moved, Same
<1>4. ASSUME NEW f \in Of(m2, s2), NEW g \in Of(m2, s2), f.pos = g.pos PROVE f = g
  <2>1. PICK e1 \in Of(m, s) : f = G[e1] /\ Same(f, e1)
    BY <1>1
  <2>2. PICK e2 \in Of(m, s) : g = G[e2] /\ Same(g, e2)
    BY <1>1
  <2>3. e1 = e2
    BY <1>4, <2>1, <2>2 DEF Spells, Same
  <2> QED BY <2>1, <2>2, <2>3
<1>5. AllExact(m, s) => AllExact(m2, s2)
  BY <1>1 DEF AllExact, Same
<1>6. Spells(m2, s2, q)
  BY <1>2, <1>3, <1>4 DEF Spells
<1> QED BY <1>5, <1>6

(* A shorter text, of the cells below its end. *)
LEMMA SpellsCut ==
  ASSUME NEW m, NEW s, NEW q \in Seq(Token), Spells(m, s, q), NEW n \in 0..Len(q)
  PROVE  /\ Spells(Below(m, n), s, SubSeq(q, 1, n))
         /\ AllExact(m, s) => AllExact(Below(m, n), s)
<1>1. PICK r : r = SubSeq(q, 1, n)
  OBVIOUS
<1>2. /\ r \in Seq(Token) /\ Len(r) = n /\ \A i \in 1..n : r[i] = q[i] /\ n \in Nat
      /\ Len(q) \in Nat
  BY <1>1, FirstPart
<1>3. \A e : e \in Of(Below(m, n), s) <=> e \in Of(m, s) /\ e.pos < n
  BY DEF Of, Below
<1>4. ASSUME NEW e \in Of(Below(m, n), s)
      PROVE  e.pos \in 0..(Len(r) - 1) /\ e.toks = SubSeq(r, 1, e.pos + 1)
  <2>1. e.pos \in 0..(Len(q) - 1) /\ e.toks = SubSeq(q, 1, e.pos + 1) /\ e.pos < n
    BY <1>3 DEF Spells
  <2>2. e.pos \in 0..(n - 1) /\ e.pos + 1 \in Nat /\ e.pos + 1 <= Len(q) /\ e.pos + 1 <= Len(r)
        /\ \A i \in 1..(e.pos + 1) : i \in 1..n
    BY <1>2, <2>1
  <2>3. PICK k : k = e.pos + 1
    OBVIOUS
  <2>4. k \in Nat /\ k <= Len(q) /\ k <= Len(r) /\ \A i \in 1..k : r[i] = q[i]
    BY <1>2, <2>2, <2>3
  <2>5. SubSeq(r, 1, k) = SubSeq(q, 1, k)
    BY <1>2, <2>4, SameStart
  <2> QED BY <1>2, <2>1, <2>2, <2>3, <2>5
<1>5. ASSUME NEW p \in 0..(Len(r) - 1) PROVE \E e \in Of(Below(m, n), s) : e.pos = p
  <2>1. p \in 0..(Len(q) - 1) /\ p < n
    BY <1>2
  <2>2. PICK e \in Of(m, s) : e.pos = p
    BY <2>1 DEF Spells
  <2> QED BY <1>3, <2>1, <2>2
<1>6. \A e, f \in Of(Below(m, n), s) : e.pos = f.pos => e = f
  BY <1>3 DEF Spells
<1>7. Spells(Below(m, n), s, r)
  BY <1>4, <1>5, <1>6 DEF Spells
<1>8. AllExact(m, s) => AllExact(Below(m, n), s)
  BY <1>3 DEF AllExact
<1> QED BY <1>1, <1>7, <1>8

-----------------------------------------------------------------------------
(***************************************************************************)
(* The cells of any decode.                                                *)
(***************************************************************************)
LEMMA CellForPlace ==
  ASSUME NEW m, NEW engine, NEW b, NEW x, x = CellFor(m, engine, b)
  PROVE  x.pos = b.pos /\ x.seqs = b.seqs /\ Shape(x)
<1> DEFINE view   == {e \in Of(m, b.first) : e.pos < b.pos}
           before == {e.toks : e \in {y \in view : y.pos = b.pos - 1}}
           ctx    == IF before = {} THEN << >> ELSE CHOOSE t \in before : TRUE
<1>1. PICK z : z = ( /\ engine = "t"
                     /\ Cardinality(view) = b.pos /\ {e.pos : e \in view} = 0..(b.pos - 1)
                     /\ \A e \in view : e.exact /\ e.toks = SubSeq(ctx, 1, e.pos + 1))
  BY Zenon
<1>2. PICK w : w = Append(ctx, b.tok)
  OBVIOUS
<1>3. x = [pos |-> b.pos, seqs |-> b.seqs, toks |-> w, exact |-> z]
  BY <1>1, <1>2, Zenon DEF CellFor
<1> HIDE DEF view, before, ctx
<1>4. x.pos = b.pos /\ x.seqs = b.seqs /\ x.toks = w /\ x.exact = z
  BY <1>3
<1> QED BY <1>3, <1>4 DEF Shape

LEMMA CellForText ==
  ASSUME NEW m, NEW engine, NEW b, b.tok \in Token, \A e \in m : e.toks \in Seq(Token)
  PROVE  CellFor(m, engine, b).toks \in Seq(Token)
<1> DEFINE view   == {e \in Of(m, b.first) : e.pos < b.pos}
           before == {e.toks : e \in {y \in view : y.pos = b.pos - 1}}
           ctx    == IF before = {} THEN << >> ELSE CHOOSE t \in before : TRUE
<1>1. ctx \in Seq(Token)
  <2>1. \A t \in before : t \in Seq(Token)
    BY DEF Of
  <2>2. << >> \in Seq(Token)
    OBVIOUS
  <2> HIDE DEF before
  <2> QED BY <2>1, <2>2
<1>2. CellFor(m, engine, b).toks = Append(ctx, b.tok)
  <2>1. PICK z : z = ( /\ engine = "t"
                       /\ Cardinality(view) = b.pos /\ {e.pos : e \in view} = 0..(b.pos - 1)
                       /\ \A e \in view : e.exact /\ e.toks = SubSeq(ctx, 1, e.pos + 1))
    BY Zenon
  <2>2. PICK w : w = Append(ctx, b.tok)
    OBVIOUS
  <2>3. CellFor(m, engine, b) = [pos |-> b.pos, seqs |-> b.seqs, toks |-> w, exact |-> z]
    BY <2>1, <2>2, Zenon DEF CellFor
  <2> HIDE DEF view, before, ctx
  <2>4. [pos |-> b.pos, seqs |-> b.seqs, toks |-> w, exact |-> z].toks = w
    OBVIOUS
  <2> QED BY <2>2, <2>3, <2>4
<1> HIDE DEF ctx
<1> QED BY <1>1, <1>2, AppendProperties

LEMMA EntryTyped ==
  ASSUME NEW b \in Seq(Entries), NEW j \in 1..Len(b)
  PROVE  b[j].tok \in Token /\ b[j].pos \in Nat /\ b[j].first \in Ids /\ b[j].seqs \subseteq Ids
<1>1. PICK e : e = b[j]
  OBVIOUS
<1>2. e \in Entries
  BY <1>1, ElementOfSeq
<1>3. e.tok \in Token /\ e.pos \in Nat /\ e.first \in Ids /\ e.seqs \subseteq Ids
  BY <1>2 DEF Entries
<1> QED BY <1>1, <1>3

Owned(b) == b \in Seq(Entries) /\ \A j \in 1..Len(b) : b[j].seqs # {}

(* The cells c that a decode of the batch b adds, one per entry. *)
NewCellsOf(b, c) ==
  \A j \in 1..Len(b) : CellOK(c[j]) /\ c[j].pos = b[j].pos /\ c[j].seqs = b[j].seqs

LEMMA NewCells ==
  ASSUME NEW m, NEW engine, NEW b, Owned(b), CellsOK(m), NEW r, NEW c, Gives(r, m, engine, b, c)
  PROVE  NewCellsOf(b, c)
<1>0. PICK L : L = Len(b)
  OBVIOUS
<1>00. /\ b \in Seq(Entries) /\ L \in Nat
       /\ \A j \in 1..L : b[j].seqs # {} /\ CellAt(m, engine, b, c, j)
  BY <1>0 DEF Owned, Gives
<1>1. ASSUME NEW j \in 1..L
      PROVE  /\ Shape(c[j]) /\ c[j].pos = b[j].pos /\ c[j].seqs = b[j].seqs
             /\ b[j].pos \in Nat /\ b[j].seqs \subseteq Ids /\ b[j].tok \in Token
  <2>1. PICK x : x = c[j]
    OBVIOUS
  <2>2. PICK M : M = m \cup {c[i] : i \in 1..(j - 1)}
    OBVIOUS
  <2>3. x = CellFor(M, engine, b[j])
    BY <1>00, <2>1, <2>2 DEF CellAt
  <2>4. Shape(x) /\ x.pos = b[j].pos /\ x.seqs = b[j].seqs
    BY <2>3, CellForPlace
  <2> QED BY <1>0, <1>00, <2>1, <2>4, EntryTyped
<1> DEFINE T == {k \in 0..L : \A j \in 1..k : c[j].toks \in Seq(Token)}
<1>2. 0 \in T /\ T \in SUBSET Nat
  BY <1>00
<1>3. ASSUME NEW k \in T, k < L PROVE k + 1 \in T
  <2>1. k \in Nat /\ k + 1 \in 1..L /\ (k + 1) - 1 = k /\ k + 1 \in 0..L
    BY <1>00, <1>3
  <2>2. PICK M : M = m \cup {c[i] : i \in 1..k}
    OBVIOUS
  <2>3. \A e \in M : e.toks \in Seq(Token)
    BY <2>2 DEF CellsOK, CellOK
  <2>4. c[k + 1] = CellFor(M, engine, b[k + 1])
    BY <1>00, <2>1, <2>2 DEF CellAt
  <2>5. c[k + 1].toks \in Seq(Token)
    BY <1>1, <2>1, <2>3, <2>4, CellForText
  <2>6. \A j \in 1..(k + 1) : j \in 1..k \/ j = k + 1
    BY <2>1
  <2> QED BY <2>1, <2>5, <2>6
<1>4. L \in T
  <2> HIDE DEF T
  <2>1. \A k \in 0..L : k \in T
    BY <1>00, <1>2, <1>3, CountingTo
  <2> QED BY <1>00, <2>1
<1>5. \A j \in 1..L : c[j].toks \in Seq(Token)
  BY <1>4
<1> QED BY <1>0, <1>00, <1>1, <1>5 DEF CellOK, NewCellsOf

(* Accepted or refused, a decode adds cells of the batch only. *)
LEMMA DecodedCells ==
  ASSUME NEW m, NEW rows, NEW engine, NEW b, Owned(b), CellsOK(m),
         NEW M, M = Decoded(m, rows, engine, b).mem
  PROVE  /\ CellsOK(M) /\ m \subseteq M
         /\ \A e \in M : e \in m \/ \E j \in 1..Len(b) : e.pos = b[j].pos /\ e.seqs = b[j].seqs
<1>1. CASE DecodeAccepted(m, b)
  <2>1. Len(b) \in Nat
    BY DEF Owned
  <2>2. PICK c : Gives(Decoding(m, engine, b), m, engine, b, c)
    BY <2>1, DecodingFacts
  <2>3. M = m \cup FirstCells(c, Len(b))
    BY <1>1, <2>2 DEF Decoded, Gives
  <2>4. \A j \in 1..Len(b) : CellOK(c[j]) /\ c[j].pos = b[j].pos /\ c[j].seqs = b[j].seqs
    <3>1. PICK x : x = Decoding(m, engine, b)
      OBVIOUS
    <3>2. Owned(b) /\ CellsOK(m) /\ Gives(x, m, engine, b, c)
      BY <2>2, <3>1
    <3>3. NewCellsOf(b, c)
      BY ONLY Zenon, <3>2, NewCells
    <3> QED BY <3>3 DEF NewCellsOf
  <2>5. \A e \in M : e \in m \/ \E j \in 1..Len(b) : e = c[j]
    BY <2>3 DEF FirstCells
  <2> QED BY <2>3, <2>4, <2>5 DEF CellsOK
<1>2. CASE ~DecodeAccepted(m, b)
  <2>1. Decoded(m, rows, engine, b) = [mem |-> m, rows |-> rows]
    BY <1>2 DEF Decoded
  <2>2. M = m
    BY <2>1
  <2> QED BY <2>2
<1> QED BY <1>1, <1>2

(* Sequence s goes on in the batch behind the text its cells spell. *)
Continues(m, b, s) ==
  \E q \in Seq(Token) : \E hi \in Nat :
    /\ Spells(m, s, q) /\ Len(q) <= hi
    /\ \A k \in 1..Len(b) : s \in b[k].seqs => b[k].pos \in Len(q)..hi
    /\ \A p \in Len(q)..hi : \E k \in 1..Len(b) : s \in b[k].seqs /\ b[k].pos = p

LEMMA EndOfText ==
  ASSUME NEW m, NEW s, NEW q \in Seq(Token), Spells(m, s, q)
  PROVE  PosMax(m, s) \in {-1, Len(q) - 1}
<1> DEFINE ps == {e.pos : e \in Of(m, s)}
<1>1. PosMax(m, s) = IF ps = {} THEN -1 ELSE CHOOSE p \in ps : \A x \in ps : x <= p
  BY DEF PosMax
<1>2. CASE ps # {}
  <2>1. Len(q) \in Nat /\ \A p \in ps : p \in 0..(Len(q) - 1)
    BY DEF Spells
  <2>2. Len(q) - 1 \in 0..(Len(q) - 1)
    <3> HIDE DEF ps
    <3> QED BY <1>2, <2>1
  <2>3. Len(q) - 1 \in ps
    BY <2>2 DEF Spells
  <2> HIDE DEF ps
  <2>4. \A x \in ps : x <= Len(q) - 1
    BY <2>1
  <2>5. PICK p : p = CHOOSE y \in ps : \A x \in ps : x <= y
    OBVIOUS
  <2>6. p \in ps /\ \A x \in ps : x <= p
    BY <2>3, <2>4, <2>5
  <2>7. p = Len(q) - 1
    BY <2>1, <2>3, <2>4, <2>6
  <2> QED BY <1>1, <1>2, <2>5, <2>7
<1> HIDE DEF ps
<1> QED BY <1>1, <1>2

LEMMA Accepted ==
  ASSUME NEW m, NEW b, b # << >>, DOMAIN b = 1..Len(b),
         \A k \in 1..Len(b) : \A s \in b[k].seqs : Continues(m, b, s)
  PROVE  DecodeAccepted(m, b)
<1> SUFFICES ASSUME NEW s \in UNION {b[k].seqs : k \in DOMAIN b}
             PROVE  LET ps == {b[k].pos : k \in {j \in DOMAIN b : s \in b[j].seqs}}
                        lo == CHOOSE p \in ps : \A q \in ps : p <= q
                        hi == CHOOSE p \in ps : \A q \in ps : q <= p
                    IN  /\ PosMax(m, s) \in {-1, lo - 1}
                        /\ ps = lo..hi
  BY Zenon DEF DecodeAccepted
<1>0. PICK k0 \in 1..Len(b) : s \in b[k0].seqs
  OBVIOUS
<1> DEFINE ps == {b[k].pos : k \in {j \in DOMAIN b : s \in b[j].seqs}}
<1>1. PICK q \in Seq(Token), h \in Nat :
        /\ Spells(m, s, q) /\ Len(q) <= h
        /\ \A k \in 1..Len(b) : s \in b[k].seqs => b[k].pos \in Len(q)..h
        /\ \A p \in Len(q)..h : \E k \in 1..Len(b) : s \in b[k].seqs /\ b[k].pos = p
  BY <1>0 DEF Continues
<1>2. ps = Len(q)..h
  BY <1>1
<1>3. Len(q) \in Nat /\ Len(q) \in Len(q)..h /\ h \in Len(q)..h
  BY <1>1
<1>4. (CHOOSE p \in ps : \A x \in ps : p <= x) = Len(q)
  <2> HIDE DEF ps
  <2>1. PICK p : p = CHOOSE y \in ps : \A x \in ps : y <= x
    OBVIOUS
  <2>2. Len(q) \in ps /\ \A x \in ps : Len(q) <= x
    BY <1>2, <1>3
  <2>3. p \in ps /\ \A x \in ps : p <= x
    BY <2>1, <2>2
  <2>4. p <= Len(q) /\ Len(q) <= p /\ p \in Int
    BY <1>2, <1>3, <2>2, <2>3
  <2> QED BY <1>3, <2>1, <2>4
<1>5. (CHOOSE p \in ps : \A x \in ps : x <= p) = h
  <2> HIDE DEF ps
  <2>1. PICK p : p = CHOOSE y \in ps : \A x \in ps : x <= y
    OBVIOUS
  <2>2. h \in ps /\ \A x \in ps : x <= h
    BY <1>2, <1>3
  <2>3. p \in ps /\ \A x \in ps : x <= p
    BY <2>1, <2>2
  <2>4. h <= p /\ p <= h /\ p \in Int
    BY <1>2, <1>3, <2>2, <2>3
  <2> QED BY <1>1, <2>1, <2>4
<1>6. PosMax(m, s) \in {-1, Len(q) - 1}
  BY <1>1, EndOfText
<1> QED BY <1>2, <1>4, <1>5, <1>6

(***************************************************************************)
(* The draft's decode of a depth: one token at position p for each of some *)
(* sequences, Q[j] the text of the sequence of entry j.                    *)
(***************************************************************************)
OneDepth(m, b, p, Q) ==
  /\ Owned(b) /\ b # << >>
  /\ \A j \in 1..Len(b) : b[j].pos = p /\ b[j].seqs = {b[j].first}
  /\ \A i, j \in 1..Len(b) : b[i].first = b[j].first => i = j
  /\ \A j \in 1..Len(b) : Q[j] \in Seq(Token) /\ Len(Q[j]) = p /\ Spells(m, b[j].first, Q[j])

LEMMA DepthAccepted ==
  ASSUME NEW m, NEW b, NEW p \in Nat, NEW Q, OneDepth(m, b, p, Q)
  PROVE  DecodeAccepted(m, b)
<1>1. DOMAIN b = 1..Len(b)
  BY LenProperties DEF OneDepth, Owned
<1>2. ASSUME NEW k \in 1..Len(b), NEW s \in b[k].seqs PROVE Continues(m, b, s)
  <2>1. s = b[k].first /\ s \in b[k].seqs /\ b[k].pos = p
    BY DEF OneDepth
  <2>2. Q[k] \in Seq(Token) /\ Len(Q[k]) = p /\ Spells(m, s, Q[k])
    BY <2>1 DEF OneDepth
  <2>3. \A j \in 1..Len(b) : b[j].pos \in p..p
    BY DEF OneDepth
  <2>4. \A x \in p..p : \E j \in 1..Len(b) : s \in b[j].seqs /\ b[j].pos = x
    BY <2>1
  <2> QED BY <2>2, <2>3, <2>4 DEF Continues
<1> QED BY <1>1, <1>2, Accepted DEF OneDepth

LEMMA DepthDecoded ==
  ASSUME NEW m, NEW b, NEW p \in Nat, NEW Q, OneDepth(m, b, p, Q),
         NEW rows, NEW r, r = Decoded(m, rows, "d", b)
  PROVE  /\ DOMAIN r.rows = 1..Len(b)
         /\ \A j \in 1..Len(b) : /\ Append(Q[j], b[j].tok) \in Seq(Token)
                                 /\ r.rows[j].toks = Append(Q[j], b[j].tok)
                                 /\ Spells(r.mem, b[j].first, Append(Q[j], b[j].tok))
<1>1. r = Decoding(m, "d", b)
  BY DepthAccepted DEF Decoded
<1>2. PICK c : Gives(r, m, "d", b, c)
  <2>1. Len(b) \in Nat
    BY DEF OneDepth, Owned
  <2> QED BY <1>1, <2>1, DecodingFacts
<1>3. PICK L : L = Len(b)
  OBVIOUS
<1>4. /\ L \in Nat /\ b \in Seq(Entries) /\ r.mem = m \cup FirstCells(c, L) /\ DOMAIN r.rows = 1..L
      /\ \A j \in 1..L : CellAt(m, "d", b, c, j) /\ r.rows[j].toks = c[j].toks
  BY <1>2, <1>3 DEF Gives, OneDepth, Owned
<1>5. ASSUME NEW j \in 1..L PROVE c[j].pos = p /\ c[j].seqs = {b[j].first}
  <2>1. PICK x, M : x = c[j] /\ M = m \cup {c[i] : i \in 1..(j - 1)}
    OBVIOUS
  <2>2. x = CellFor(M, "d", b[j])
    BY <1>4, <2>1 DEF CellAt
  <2>3. x.pos = b[j].pos /\ x.seqs = b[j].seqs
    BY <2>2, CellForPlace
  <2> QED BY <1>3, <2>1, <2>3 DEF OneDepth
<1>6. ASSUME NEW j \in 1..L
      PROVE  /\ Append(Q[j], b[j].tok) \in Seq(Token) /\ c[j].toks = Append(Q[j], b[j].tok)
             /\ Spells(r.mem, b[j].first, Append(Q[j], b[j].tok))
  <2>1. PICK q, t, s : q = Q[j] /\ t = b[j].tok /\ s = b[j].first
    OBVIOUS
  <2>2. q \in Seq(Token) /\ Len(q) = p /\ Spells(m, s, q) /\ b[j].pos = p /\ t \in Token
    BY <1>3, <1>4, <2>1, EntryTyped DEF OneDepth
  <2>3. PICK M : M = m \cup {c[i] : i \in 1..(j - 1)}
    OBVIOUS
  <2>4. Below(M, p) = Below(m, p)
    <3>1. \A i \in 1..(j - 1) : i \in 1..L
      BY <1>4
    <3>2. \A i \in 1..(j - 1) : c[i].pos = p
      BY <1>5, <3>1
    <3>3. ~(p < p)
      OBVIOUS
    <3> QED BY <2>3, <3>2, <3>3 DEF Below
  <2>5. Spells(Below(M, p), s, q)
    BY <2>2, <2>4, SpellsBelow
  <2>6. c[j] = CellFor(M, "d", b[j])
    BY <1>4, <2>3 DEF CellAt
  <2>7. PICK x : x = CellFor(M, "d", b[j])
    OBVIOUS
  <2>8. x.toks = Append(q, t)
    BY <2>1, <2>2, <2>5, <2>7, CellForFacts
  <2>9. PICK w, N : w = << t >> /\ N = FirstCells(c, L)
    OBVIOUS
  <2>10. w \in Seq(Token) /\ Len(w) = 1 /\ SubSeq(w, 1, 1) = w /\ q \o w = Append(q, t)
    <3>1. w \in Seq(Token) /\ Len(w) = 1
      BY <2>2, <2>9
    <3> QED BY <2>2, <2>9, <3>1, SubSeqFull, AppendIsConcat
  <2>11. Of(N, s) = {c[j]}
    <3>1. ASSUME NEW e \in Of(N, s) PROVE e = c[j]
      <4>1. PICK i \in 1..L : e = c[i] /\ s \in e.seqs
        BY <2>9 DEF Of, FirstCells
      <4>2. b[i].first = b[j].first
        BY <1>5, <2>1, <4>1
      <4>3. i = j
        BY <1>3, <4>2 DEF OneDepth
      <4> QED BY <4>1, <4>3
    <3>2. c[j] \in Of(N, s)
      BY <1>5, <2>1, <2>9 DEF Of, FirstCells
    <3> QED BY <3>1, <3>2
  <2>12. Behind(N, s, q, w)
    <3>1. c[j].pos = p /\ c[j].toks = q \o w /\ p - p + 1 = 1 /\ p \in p..(p + 1 - 1)
          /\ \A x1 \in p..(p + 1 - 1) : x1 = p
      BY <1>5, <2>6, <2>7, <2>8, <2>10
    <3> QED BY <2>2, <2>10, <2>11, <3>1 DEF Behind
  <2>13. Spells(m \cup N, s, q \o w)
    BY <2>2, <2>10, <2>12, SpellsMore
  <2>14. Append(q, t) \in Seq(Token)
    BY <2>2, AppendProperties
  <2> QED BY <1>4, <2>1, <2>6, <2>7, <2>8, <2>9, <2>10, <2>13, <2>14
<1> QED BY <1>3, <1>4, <1>6

(* A sequence without an entry in the batch keeps its cells. *)
LEMMA OthersStay ==
  ASSUME NEW m, NEW rows, NEW engine, NEW b, Owned(b), CellsOK(m),
         NEW M, M = Decoded(m, rows, engine, b).mem,
         NEW s, \A j \in 1..Len(b) : s \notin b[j].seqs, NEW q, Spells(m, s, q)
  PROVE  Spells(M, s, q)
<1>1. /\ m \subseteq M
      /\ \A e \in M : e \in m \/ \E j \in 1..Len(b) : e.pos = b[j].pos /\ e.seqs = b[j].seqs
  BY DecodedCells
<1>2. Of(M, s) = Of(m, s)
  BY <1>1 DEF Of
<1> QED BY <1>2 DEF Spells

-----------------------------------------------------------------------------
(***************************************************************************)
(* The roll-back to the kept branch.                                       *)
(***************************************************************************)
With(e, X) == [pos |-> e.pos, seqs |-> X, toks |-> e.toks, exact |-> e.exact]

LEMMA WithFacts ==
  ASSUME NEW e, NEW X
  PROVE  /\ With(e, X).seqs = X /\ Same(With(e, X), e) /\ Shape(With(e, X))
         /\ \A Y : [With(e, X) EXCEPT !.seqs = Y] = With(e, Y)
         /\ Shape(e) => \A Y : [e EXCEPT !.seqs = Y] = With(e, Y)
<1>1. PICK a, c, d, f : a = e.pos /\ c = e.toks /\ d = e.exact /\ f = With(e, X)
  OBVIOUS
<1>2. f = [pos |-> a, seqs |-> X, toks |-> c, exact |-> d]
  BY <1>1 DEF With
<1>3. f.pos = a /\ f.seqs = X /\ f.toks = c /\ f.exact = d
  BY <1>2
<1>4. ASSUME NEW Y PROVE [f EXCEPT !.seqs = Y] = With(e, Y)
  <2>1. [f EXCEPT !.seqs = Y] = [pos |-> a, seqs |-> Y, toks |-> c, exact |-> d]
    BY <1>2
  <2> QED BY <1>1, <2>1 DEF With
<1>5. ASSUME Shape(e), NEW Y PROVE [e EXCEPT !.seqs = Y] = With(e, Y)
  <2>1. PICK z : z = e.seqs
    OBVIOUS
  <2>2. e = [pos |-> a, seqs |-> z, toks |-> c, exact |-> d]
    BY <1>1, <1>5, <2>1 DEF Shape
  <2>3. [e EXCEPT !.seqs = Y] = [pos |-> a, seqs |-> Y, toks |-> c, exact |-> d]
    BY <2>2
  <2> QED BY <1>1, <2>3 DEF With
<1>6. Same(f, e) /\ Shape(f)
  BY <1>1, <1>2, <1>3 DEF Same, Shape
<1> QED BY <1>1, <1>3, <1>4, <1>5, <1>6

(* Positions of m are below Inf. *)
Bounded(m) == \A e \in m : e.pos < Inf

LEMMA KeepIs ==
  ASSUME NEW m, CellsOK(m), NEW s
  PROVE  \A f : f \in SeqKeep(m, s) <=> \E e \in Of(m, s) : f = With(e, {s})
<1>1. \A e \in m : [e EXCEPT !.seqs = {s}] = With(e, {s})
  BY WithFacts DEF CellsOK, CellOK
<1> QED BY <1>1 DEF SeqKeep, Of

LEMMA OnlyKeptIs ==
  ASSUME NEW m, CellsOK(m), Bounded(m)
  PROVE  \A f : f \in OnlyKept(m) <=> \E e \in Of(m, keep) : f = With(e, {0})
<1>1. PICK A, B, C : A = SeqKeep(m, keep) /\ B = SeqCp(A, keep, 0, 0, Inf) /\ C = SeqKeep(B, 0)
  OBVIOUS
<1>2. \A f : f \in A <=> \E e \in Of(m, keep) : f = With(e, {keep})
  BY <1>1, KeepIs
<1>3. \A e \in Of(m, keep) : e.pos \in Nat /\ e.pos < Inf
  BY DEF Of, CellsOK, CellOK, Bounded
<1>4. \A f : f \in B <=> \E e \in Of(m, keep) : f = With(e, {keep} \cup {0})
  <2>1. ASSUME NEW e \in Of(m, keep), NEW g, g = With(e, {keep})
        PROVE  /\ keep \in g.seqs /\ Within(g, 0, Inf)
               /\ [g EXCEPT !.seqs = @ \cup {0}] = With(e, {keep} \cup {0})
    <3>1. g.seqs = {keep} /\ g.pos = e.pos
      BY <2>1, WithFacts DEF Same
    <3>2. \A Y : [g EXCEPT !.seqs = Y] = With(e, Y)
      BY <2>1, WithFacts
    <3>3. PICK Y : Y = {keep} \cup {0}
      OBVIOUS
    <3>4. [g EXCEPT !.seqs = @ \cup {0}] = [g EXCEPT !.seqs = Y]
      BY <3>1, <3>3
    <3>5. 0 <= e.pos /\ e.pos < Inf
      BY <1>3
    <3> QED BY <3>1, <3>2, <3>3, <3>4, <3>5 DEF Within
  <2>2. \A f : f \in B <=> \E g \in A : f = IF keep \in g.seqs /\ Within(g, 0, Inf)
                                           THEN [g EXCEPT !.seqs = @ \cup {0}] ELSE g
    BY <1>1 DEF SeqCp
  <2>3. ASSUME NEW f \in B PROVE \E e \in Of(m, keep) : f = With(e, {keep} \cup {0})
    <3>1. PICK g \in A : f = IF keep \in g.seqs /\ Within(g, 0, Inf)
                             THEN [g EXCEPT !.seqs = @ \cup {0}] ELSE g
      BY <2>2
    <3>2. PICK e \in Of(m, keep) : g = With(e, {keep})
      BY <1>2
    <3> QED BY <2>1, <3>1, <3>2
  <2>4. ASSUME NEW e \in Of(m, keep), NEW f, f = With(e, {keep} \cup {0}) PROVE f \in B
    <3>1. PICK g : g = With(e, {keep})
      OBVIOUS
    <3>2. g \in A
      BY <1>2, <3>1
    <3>3. f = [g EXCEPT !.seqs = @ \cup {0}] /\ keep \in g.seqs /\ Within(g, 0, Inf)
      BY <2>1, <2>4, <3>1
    <3> QED BY <2>2, <3>2, <3>3
  <2> QED BY <2>3, <2>4
<1>5. \A f : f \in C <=> \E e \in Of(m, keep) : f = With(e, {0})
  <2>1. \A f : f \in C <=> \E g \in B : 0 \in g.seqs /\ f = [g EXCEPT !.seqs = {0}]
    BY <1>1 DEF SeqKeep
  <2>2. \A e, g : g = With(e, {keep} \cup {0}) =>
                    0 \in g.seqs /\ [g EXCEPT !.seqs = {0}] = With(e, {0})
    <3> SUFFICES ASSUME NEW e, NEW g, g = With(e, {keep} \cup {0})
                 PROVE  0 \in g.seqs /\ [g EXCEPT !.seqs = {0}] = With(e, {0})
      OBVIOUS
    <3>1. g.seqs = {keep} \cup {0} /\ \A Y : [g EXCEPT !.seqs = Y] = With(e, Y)
      BY WithFacts
    <3> QED BY <3>1
  <2>3. ASSUME NEW f \in C PROVE \E e \in Of(m, keep) : f = With(e, {0})
    <3>1. PICK g \in B : 0 \in g.seqs /\ f = [g EXCEPT !.seqs = {0}]
      BY <2>1
    <3>2. PICK e \in Of(m, keep) : g = With(e, {keep} \cup {0})
      BY <1>4
    <3> QED BY <2>2, <3>1, <3>2
  <2>4. ASSUME NEW e \in Of(m, keep), NEW f, f = With(e, {0}) PROVE f \in C
    <3>1. PICK g : g = With(e, {keep} \cup {0})
      OBVIOUS
    <3>2. g \in B
      BY <1>4, <3>1
    <3> QED BY <2>1, <2>2, <2>4, <3>1, <3>2
  <2> QED BY <2>3, <2>4
<1> QED BY <1>1, <1>5 DEF OnlyKept

(* The cells of s behind position p are no longer its own. *)
LEMMA CutIs ==
  ASSUME NEW m, CellsOK(m), Bounded(m), NEW s, NEW p \in Nat, NEW M, M = SeqRm(m, s, p, Inf)
  PROVE  /\ CellsOK(M) /\ Bounded(M)
         /\ \A e : e \in Of(M, s) <=> e \in Of(m, s) /\ e.pos < p
         /\ \A f \in M : \E e \in m : f.seqs \subseteq e.seqs
<1> DEFINE Cut(e) == IF Within(e, p, Inf) THEN [e EXCEPT !.seqs = @ \ {s}] ELSE e
<1>1. \A f : f \in M <=> f.seqs # {} /\ \E e \in m : f = Cut(e)
  BY DEF SeqRm, Held
<1>2. ASSUME NEW e \in m
      PROVE  /\ Shape(Cut(e)) /\ Same(Cut(e), e) /\ Cut(e).seqs \subseteq e.seqs
             /\ e.pos < p => Cut(e) = e
             /\ ~(e.pos < p) => s \notin Cut(e).seqs
             /\ e.pos \in Nat /\ e.pos < Inf
  <2>1. Shape(e) /\ e.pos \in Nat /\ e.pos < Inf
    BY DEF CellsOK, CellOK, Bounded
  <2>2. PICK X : X = e.seqs \ {s}
    OBVIOUS
  <2>3. PICK g : g = [e EXCEPT !.seqs = X]
    OBVIOUS
  <2>4. g.seqs = X /\ Same(g, e) /\ Shape(g)
    BY <2>1, <2>3, ExceptSeqs
  <2>5. Cut(e) = IF Within(e, p, Inf) THEN g ELSE e
    BY <2>2, <2>3
  <2>6. Within(e, p, Inf) <=> ~(e.pos < p)
    BY <2>1 DEF Within
  <2>7. Same(e, e)
    BY DEF Same
  <2> HIDE DEF Cut
  <2> QED BY <2>1, <2>2, <2>4, <2>5, <2>6, <2>7
<1> HIDE DEF Cut
<1>3. CellsOK(M) /\ Bounded(M)
  <2>1. ASSUME NEW f \in M PROVE CellOK(f) /\ f.pos < Inf
    <3>1. PICK e \in m : f = Cut(e) /\ f.seqs # {}
      BY <1>1
    <3>2. CellOK(e)
      BY DEF CellsOK
    <3> QED BY <1>2, <3>1, <3>2 DEF CellOK, Same
  <2> QED BY <2>1 DEF CellsOK, Bounded
<1>4. ASSUME NEW f \in Of(M, s) PROVE f \in Of(m, s) /\ f.pos < p
  <2>1. PICK e \in m : f = Cut(e) /\ s \in f.seqs
    BY <1>1 DEF Of
  <2> QED BY <1>2, <2>1 DEF Of
<1>5. ASSUME NEW f \in Of(m, s), f.pos < p PROVE f \in Of(M, s)
  <2>1. f \in m /\ s \in f.seqs /\ Cut(f) = f
    BY <1>2, <1>5 DEF Of
  <2> QED BY <1>1, <2>1 DEF Of
<1>6. ASSUME NEW f \in M PROVE \E e \in m : f.seqs \subseteq e.seqs
  BY <1>1, <1>2
<1> QED BY <1>3, <1>4, <1>5, <1>6

LEMMA RolledBack ==
  ASSUME NEW m, CellsOK(m), Bounded(m), 0 \in Ids, NEW M, M = OnlyKept(m)
  PROVE  /\ CellsOK(M) /\ Bounded(M) /\ \A f \in M : f.seqs = {0}
         /\ \A f \in M : \E e \in Of(m, keep) : f.pos = e.pos
         /\ \A q : Spells(m, keep, q) =>
              Spells(M, 0, q) /\ (AllExact(m, keep) => AllExact(M, 0))
<1>1. \A f : f \in M <=> \E e \in Of(m, keep) : f = With(e, {0})
  BY OnlyKeptIs
<1>2. ASSUME NEW f \in M
      PROVE  \E e \in Of(m, keep) : f = With(e, {0}) /\ Same(f, e) /\ Shape(f) /\ f.seqs = {0}
  <2>1. PICK e \in Of(m, keep) : f = With(e, {0})
    BY <1>1
  <2> QED BY <2>1, WithFacts
<1>3. ASSUME NEW f \in M PROVE CellOK(f) /\ f.pos < Inf /\ f.seqs = {0}
  <2>1. PICK e \in Of(m, keep) : Same(f, e) /\ Shape(f) /\ f.seqs = {0}
    BY <1>2
  <2>2. CellOK(e) /\ e.pos < Inf
    BY DEF Of, CellsOK, Bounded
  <2> QED BY <2>1, <2>2 DEF CellOK, Same
<1>4. ASSUME NEW q, Spells(m, keep, q)
      PROVE  Spells(M, 0, q) /\ (AllExact(m, keep) => AllExact(M, 0))
  <2>1. PICK G : G = [e \in Of(m, keep) |-> With(e, {0})]
    OBVIOUS
  <2>2. ASSUME NEW e \in Of(m, keep) PROVE G[e] \in Of(M, 0) /\ Same(G[e], e)
    <3>1. G[e] = With(e, {0}) /\ G[e] \in M
      BY <1>1, <2>1
    <3> QED BY <3>1, WithFacts DEF Of
  <2>3. ASSUME NEW f \in Of(M, 0) PROVE \E e \in Of(m, keep) : f = G[e]
    BY <1>1, <2>1 DEF Of
  <2>4. Moved(m, keep, M, 0, G)
    BY <2>2, <2>3 DEF Moved
  <2> QED BY <1>4, <2>4, MovedSpells
<1>5. CellsOK(M) /\ Bounded(M)
  BY <1>3 DEF CellsOK, Bounded
<1> QED BY <1>2, <1>3, <1>4, <1>5 DEF Same

LEMMA Trimmed ==
  ASSUME NEW m, CellsOK(m), Bounded(m), \A f \in m : f.seqs = {0}, past.d \in Nat,
         NEW M, M = DraftTrimmed(m)
  PROVE  CellsOK(M) /\ Bounded(M) /\ M = Below(m, past.d)
<1>1. /\ CellsOK(M) /\ Bounded(M)
      /\ \A e : e \in Of(M, 0) <=> e \in Of(m, 0) /\ e.pos < past.d
      /\ \A f \in M : \E e \in m : f.seqs \subseteq e.seqs
  BY CutIs DEF DraftTrimmed
<1>2. \A f \in M : 0 \in f.seqs
  BY <1>1 DEF CellsOK, CellOK
<1>3. M = Of(M, 0) /\ m = Of(m, 0)
  BY <1>2 DEF Of
<1> QED BY <1>1, <1>3 DEF Below

LEMMA KeptIs ==
  ASSUME Typed, Bounded(mem.t), Bounded(mem.d), NEW kept, kept = KeptCaches
  PROVE  /\ kept = [t |-> kept.t, d |-> kept.d]
         /\ CellsOK(kept.t) /\ CellsOK(kept.d) /\ Bounded(kept.t) /\ Bounded(kept.d)
         /\ opt.share => kept.t = OnlyKept(mem.t) /\ kept.d = mem.d
         /\ ~opt.share => /\ kept.t = OnlyKept(SeqRm(mem.t, keep, past.t, Inf))
                          /\ kept.d = OnlyKept(mem.d)
<1>1. mem = [t |-> mem.t, d |-> mem.d] /\ CellsOK(mem.t) /\ CellsOK(mem.d) /\ past.t \in Nat
      /\ 0 \in Ids
  BY OptionsTyped DEF Typed
<1>2. CASE opt.share
  <2>1. PICK x, y : x = OnlyKept(mem.t) /\ y = mem.d
    OBVIOUS
  <2>2. kept = [t |-> x, d |-> y]
    BY <1>1, <1>2, <2>1 DEF KeptCaches
  <2>3. kept.t = x /\ kept.d = y
    BY <2>2
  <2>4. CellsOK(x) /\ Bounded(x)
    BY <1>1, <2>1, RolledBack
  <2> QED BY <1>1, <1>2, <2>1, <2>2, <2>3, <2>4
<1>3. CASE ~opt.share
  <2>1. PICK x, y, z : z = SeqRm(mem.t, keep, past.t, Inf) /\ x = OnlyKept(z) /\ y = OnlyKept(mem.d)
    OBVIOUS
  <2>2. kept = [t |-> x, d |-> y]
    BY <1>3, <2>1 DEF KeptCaches
  <2>3. kept.t = x /\ kept.d = y
    BY <2>2
  <2>4. CellsOK(z) /\ Bounded(z)
    BY <1>1, <2>1, CutIs
  <2>5. CellsOK(x) /\ Bounded(x) /\ CellsOK(y) /\ Bounded(y)
    BY <1>1, <2>1, <2>4, RolledBack
  <2> QED BY <1>3, <2>1, <2>2, <2>3, <2>5
<1> QED BY <1>2, <1>3

(* What the target keeps: the kept branch below the new root. *)
LEMMA TargetKept ==
  ASSUME Typed, Lengths, Decided, pc = "keep", NEW kept, kept = KeptCaches
  PROVE  /\ \E q \in Seq(Token) :
              /\ Len(q) = past.t
              /\ Spells(Below(kept.t, past.t), 0, q) /\ AllExact(Below(kept.t, past.t), 0)
              /\ opt.nseq = 1 => q = SubSeq(text, 1, past.t)
         /\ ~opt.share => \A e \in kept.t : e.pos < past.t
<1>1. PICK q0 \in Seq(Token) : InTree(q0)
  BY DEF Decided
<1>2. /\ keep \in Ids /\ keep \in Live /\ scanned <= Len(drafts[keep].tokens) /\ scanned \in Nat
      /\ Kept = scanned /\ past.t \in Nat
  BY DEF Decided, Typed, Kept
<1>3. PICK r : r = drafts[keep].tokens
  OBVIOUS
<1>4. r \in Seq(Token) /\ Len(r) \in Nat /\ scanned \in 0..Len(r)
  BY <1>2, <1>3, BranchTyped
<1>5. PICK u : u = q0 \o r
  OBVIOUS
<1>6. u \in Seq(Token) /\ Len(u) = Len(q0) + Len(r) /\ Len(q0) \in Nat
  BY <1>4, <1>5, ConcatProperties
<1>7. /\ Len(q0) + scanned = past.t /\ Spells(mem.t, keep, u) /\ AllExact(mem.t, keep)
      /\ opt.nseq = 1 => SubSeq(text, 1, past.t) = q0 \o SubSeq(r, 1, scanned)
  BY <1>1, <1>2, <1>3, <1>5 DEF InTree
<1>8. PICK q : q = SubSeq(u, 1, past.t)
  OBVIOUS
<1>9. past.t \in 0..Len(u)
  BY <1>2, <1>4, <1>6, <1>7
<1>10. q \in Seq(Token) /\ Len(q) = past.t
  BY <1>6, <1>8, <1>9, FirstPart
<1>11. opt.nseq = 1 => q = SubSeq(text, 1, past.t)
  <2>1. SubSeq(q0 \o r, 1, Len(q0) + scanned) = q0 \o SubSeq(r, 1, scanned)
    BY <1>4, BeyondJoin
  <2> QED BY <1>5, <1>7, <1>8, <2>1
<1>12. Bounded(mem.t) /\ Bounded(mem.d) /\ CellsOK(mem.t) /\ 0 \in Ids
  BY OptionsTyped DEF Lengths, Bounded, Typed
<1>13. CASE opt.share
  <2>1. kept.t = OnlyKept(mem.t)
    BY <1>12, <1>13, KeptIs
  <2>2. Spells(kept.t, 0, u) /\ AllExact(kept.t, 0)
    BY <1>7, <1>12, <2>1, RolledBack
  <2>3. Spells(Below(kept.t, past.t), 0, q) /\ AllExact(Below(kept.t, past.t), 0)
    BY <1>6, <1>8, <1>9, <2>2, SpellsCut
  <2> QED BY <1>10, <1>11, <1>13, <2>3
<1>14. CASE ~opt.share
  <2>1. PICK z : z = SeqRm(mem.t, keep, past.t, Inf)
    OBVIOUS
  <2>2. kept.t = OnlyKept(z)
    BY <1>12, <1>14, <2>1, KeptIs
  <2>3. /\ CellsOK(z) /\ Bounded(z)
        /\ \A e : e \in Of(z, keep) <=> e \in Of(mem.t, keep) /\ e.pos < past.t
    BY <1>2, <1>12, <2>1, CutIs
  <2>4. Of(z, keep) = Of(Below(mem.t, past.t), keep)
    BY <2>3 DEF Of, Below
  <2>5. Spells(Below(mem.t, past.t), keep, q) /\ AllExact(Below(mem.t, past.t), keep)
    BY <1>6, <1>7, <1>8, <1>9, SpellsCut
  <2>6. Spells(z, keep, q) /\ AllExact(z, keep)
    BY <2>4, <2>5 DEF Spells, AllExact
  <2>7. Spells(kept.t, 0, q) /\ AllExact(kept.t, 0)
    BY <1>12, <2>2, <2>3, <2>6, RolledBack
  <2>8. ASSUME NEW f \in kept.t PROVE f.pos < past.t
    <3>1. PICK e \in Of(z, keep) : f.pos = e.pos
      BY <1>12, <2>2, <2>3, RolledBack
    <3> QED BY <2>3, <3>1
  <2>9. Below(kept.t, past.t) = kept.t
    BY <2>8 DEF Below
  <2> QED BY <1>10, <1>11, <2>7, <2>8, <2>9
<1> QED BY <1>13, <1>14

(* What the draft keeps, where its cache is complete. *)
LEMMA DraftKept ==
  ASSUME Typed, Lengths, Decided, DraftWhole, pc = "keep", NEW kept, kept = KeptCaches,
         NEW M, M = DraftTrimmed(kept[Dft])
  PROVE  /\ CellsOK(M) /\ Bounded(M) /\ \A e \in M : e.pos < past.d
         /\ opt.share => M = Below(kept.t, past.d)
         /\ Behaved => \E q \in Seq(Token) : Len(q) = past.d /\ Spells(M, 0, q)
<1>1. /\ past.d \in Nat /\ past.t \in Nat /\ past.d = past.t /\ 0 \in Ids
      /\ CellsOK(mem.t) /\ CellsOK(mem.d) /\ Bounded(mem.t) /\ Bounded(mem.d)
  BY OptionsTyped DEF Typed, Lengths, Bounded
<1>2. /\ kept = [t |-> kept.t, d |-> kept.d]
      /\ opt.share => kept.t = OnlyKept(mem.t)
      /\ ~opt.share => kept.d = OnlyKept(mem.d)
  BY <1>1, KeptIs
<1>3. PICK K, m : K = kept[Dft] /\ m = IF opt.share THEN mem.t ELSE mem.d
  OBVIOUS
<1>4. K = OnlyKept(m) /\ (opt.share => K = kept.t) /\ CellsOK(m) /\ Bounded(m)
  BY <1>1, <1>2, <1>3, DraftCache
<1>5. /\ CellsOK(K) /\ Bounded(K) /\ \A f \in K : f.seqs = {0}
      /\ \A q : Spells(m, keep, q) => Spells(K, 0, q)
  BY <1>1, <1>4, RolledBack
<1>6. CellsOK(M) /\ Bounded(M) /\ M = Below(K, past.d)
  BY <1>1, <1>3, <1>5, Trimmed
<1>7. ASSUME Behaved PROVE \E q \in Seq(Token) : Len(q) = past.d /\ Spells(M, 0, q)
  <2>1. CASE opt.share
    <3>1. PICK q \in Seq(Token) : Len(q) = past.t /\ Spells(Below(kept.t, past.t), 0, q)
      BY TargetKept
    <3> QED BY <1>1, <1>4, <1>6, <2>1, <3>1
  <2>2. CASE ~opt.share
    <3>1. ~opt.prune
      BY <1>7, <2>2 DEF Behaved
    <3>2. /\ keep \in Ids /\ keep \in Live /\ scanned <= Len(drafts[keep].tokens)
          /\ scanned \in Nat /\ Kept = scanned
      BY DEF Decided, Typed, Kept
    <3>3. PICK k : k = past.d - Kept + Len(drafts[keep].tokens)
      OBVIOUS
    <3>4. DraftHolds(mem.d, keep, k)
      BY <2>2, <3>1, <3>2, <3>3 DEF DraftWhole
    <3>5. PICK u \in Seq(Token) : Len(u) = k /\ Spells(mem.d, keep, u)
      BY <3>4 DEF DraftHolds
    <3>6. past.d \in 0..Len(u)
      BY <1>1, <3>2, <3>3, <3>5, BranchTyped
    <3>7. Spells(K, 0, u)
      BY <1>3, <1>5, <2>2, <3>5
    <3>8. PICK q : q = SubSeq(u, 1, past.d)
      OBVIOUS
    <3>9. Spells(Below(K, past.d), 0, q)
      BY <3>6, <3>7, <3>8, SpellsCut
    <3>10. q \in Seq(Token) /\ Len(q) = past.d
      BY <3>6, <3>8, FirstPart
    <3> QED BY <1>6, <3>9, <3>10
  <2> QED BY <2>1, <2>2
<1>8. \A e \in M : e.pos < past.d
  BY <1>6 DEF Below
<1> QED BY <1>4, <1>6, <1>7, <1>8

(* The decision to stop, and the branches after the roll-back. *)
Ends == Len(Printed) > Predict \/ HasEos

LEMMA FreshBranches ==
  ASSUME Typed, KeepBranch, NEW root, root = text[Len(text)], root \in Token
  PROVE  /\ drafts' \in [Ids -> Branches]
         /\ \A s \in Ids : s # 0 => ~drafts'[s].active /\ ~drafts'[s].drafting
         /\ drafts'[0].active <=> ~Ends
         /\ drafts'[0].drafting <=> ~Ends
         /\ drafts'[0].tokens = << root >> /\ drafts'[0].rowT = << 1 >> /\ drafts'[0].rowD = 1
<1>1. PICK e, r, u, f, g : e = << >> /\ r = << 1 >> /\ u = << root >> /\ f = FALSE /\ g = ~Ends
  BY Zenon
<1>2. e \in Seq(Token) /\ e \in Seq(Nat) /\ r \in Seq(Nat) /\ u \in Seq(Token) /\ 1 \in Nat
  BY <1>1
<1>3. f \in BOOLEAN /\ g \in BOOLEAN /\ ~f
  BY <1>1, Zenon
<1>4. NoDraft = [active |-> f, drafting |-> f, tokens |-> e, rowT |-> e, rowD |-> 1]
  BY <1>1, Zenon DEF NoDraft
<1>5. drafts' = [s \in Ids |->
                   IF s # 0 THEN [NoDraft EXCEPT !.rowD = drafts[s].rowD]
                   ELSE [active |-> ~Ends, drafting |-> ~Ends, tokens |-> << root >>,
                         rowT |-> << 1 >>, rowD |-> 1]]
  BY Zenon DEF KeepBranch, Ends
<1>6. PICK N, Z : /\ N = [active |-> f, drafting |-> f, tokens |-> e, rowT |-> e, rowD |-> 1]
                  /\ Z = [active |-> g, drafting |-> g, tokens |-> u, rowT |-> r, rowD |-> 1]
  OBVIOUS
<1>7. drafts' = [s \in Ids |-> IF s # 0 THEN [N EXCEPT !.rowD = drafts[s].rowD] ELSE Z]
  BY <1>1, <1>4, <1>5, <1>6, Zenon
<1>8. Z \in Branches /\ Z.active = g /\ Z.drafting = g /\ Z.tokens = u /\ Z.rowT = r /\ Z.rowD = 1
  BY <1>2, <1>3, <1>6 DEF Branches
<1>9. ASSUME NEW s \in Ids, s # 0
      PROVE  drafts'[s] \in Branches /\ drafts'[s].active = f /\ drafts'[s].drafting = f
  <2>1. PICK k : k = drafts[s].rowD
    OBVIOUS
  <2>2. k \in Nat
    BY <2>1, BranchTyped
  <2>3. PICK z : z = [N EXCEPT !.rowD = k]
    OBVIOUS
  <2>4. z = [active |-> f, drafting |-> f, tokens |-> e, rowT |-> e, rowD |-> k]
    BY <1>6, <2>3
  <2>5. z \in Branches /\ z.active = f /\ z.drafting = f
    BY <1>2, <1>3, <2>2, <2>4 DEF Branches
  <2>6. drafts'[s] = z
    BY <1>7, <1>9, <2>1, <2>3
  <2> QED BY <2>5, <2>6
<1>10. 0 \in Ids /\ drafts'[0] = Z
  BY <1>7, OptionsTyped
<1>11. drafts' \in [Ids -> Branches]
  <2>1. \A s \in Ids : drafts'[s] \in Branches
    BY <1>8, <1>9, <1>10
  <2>2. drafts' = [s \in Ids |-> drafts'[s]]
    BY <1>7
  <2> QED BY <2>1, <2>2
<1>12. (drafts'[0].active <=> ~Ends) /\ (drafts'[0].drafting <=> ~Ends)
  BY <1>1, <1>8, <1>10, Zenon
<1>13. \A s \in Ids : s # 0 => ~drafts'[s].active /\ ~drafts'[s].drafting
  BY <1>3, <1>9, Zenon
<1> QED BY <1>1, <1>8, <1>10, <1>11, <1>12, <1>13

LEMMA EntryIs ==
  ASSUME NEW t, NEW p, NEW f, NEW S, NEW e, e = Entry(t, p, f, S)
  PROVE  /\ e.tok = t /\ e.pos = p /\ e.first = f /\ e.seqs = S
         /\ (t \in Token /\ p \in Nat /\ f \in Ids /\ S \subseteq Ids) => e \in Entries
BY DEF Entry, Entries

(* A batch of one entry. *)
LEMMA OneEntry ==
  ASSUME NEW t \in Token, NEW p \in Nat, 0 \in Ids, NEW b, b = << Entry(t, p, 0, {0}) >>
  PROVE  /\ Owned(b) /\ Len(b) = 1 /\ b # << >>
         /\ b[1].tok = t /\ b[1].pos = p /\ b[1].first = 0 /\ b[1].seqs = {0}
<1>1. PICK e : e = Entry(t, p, 0, {0})
  OBVIOUS
<1>2. e \in Entries /\ e.tok = t /\ e.pos = p /\ e.first = 0 /\ e.seqs = {0}
  BY <1>1, EntryIs
<1>3. b = << e >> /\ b \in Seq(Entries) /\ Len(b) = 1 /\ b[1] = e /\ b # << >>
  BY <1>1, <1>2
<1>4. \A j \in 1..1 : j = 1
  OBVIOUS
<1> QED BY <1>2, <1>3, <1>4 DEF Owned

(* The rows of the root alone. *)
LEMMA RootRows ==
  ASSUME NEW t, NEW n \in Nat, NEW b, Len(b) = 1,
         b[1].tok = t, b[1].pos = n, b[1].first = 0, b[1].seqs = {0},
         NEW dr, dr[0].tokens = << t >>, dr[0].rowT = << 1 >>
  PROVE  Rows(b, n, dr, {0}, {0})
<1>1. /\ Len(dr[0].tokens) = 1 /\ Len(dr[0].rowT) = 1 /\ dr[0].rowT[1] = 1 /\ dr[0].tokens[1] = t
      /\ Cap \in Nat
  BY TreeAssumption
<1>2. \A i \in 1..1 : i = 1
  OBVIOUS
<1>3. RowsOf(b, n, dr, 0)
  <2>1. Len(dr[0].rowT) \in 1..Len(dr[0].tokens) /\ Len(dr[0].rowT) <= Cap + 1
    BY <1>1
  <2>2. dr[0].rowT[1] \in 1..Len(b) /\ b[dr[0].rowT[1]].pos = n + 1 - 1
        /\ b[dr[0].rowT[1]].first = 0
    BY <1>1
  <2> QED BY <1>1, <1>2, <2>1, <2>2 DEF RowsOf
<1>4. EntryOf(b, n, dr, {0}, 1)
  <2>1. b[1].pos - n + 1 = 1
    OBVIOUS
  <2>2. b[1].tok = dr[b[1].first].tokens[b[1].pos - n + 1]
    BY <1>1, <2>1
  <2>3. 1 \in 1..Len(dr[0].rowT) /\ dr[0].rowT[1] = 1
    BY <1>1
  <2>4. \A s \in b[1].seqs : \E k \in 1..Len(dr[s].rowT) : dr[s].rowT[k] = 1
    BY <2>3
  <2> QED BY <2>2, <2>4 DEF EntryOf
<1> QED BY <1>1, <1>2, <1>3, <1>4 DEF Rows

(* The draft's decode of the root. *)
LEMMA RootDecoded ==
  ASSUME Typed, Lengths, Decided, DraftWhole, pc = "keep",
         NEW root \in Token, NEW kept, kept = KeptCaches, NEW r,
         r = Decoded(DraftTrimmed(kept[Dft]), out.d, "d", << Entry(root, past.d, 0, {0}) >>)
  PROVE  /\ CellsOK(r.mem) /\ \A e \in r.mem : e.pos <= past.d
         /\ opt.share => Below(r.mem, past.d) = Below(kept.t, past.d)
         /\ Behaved => \E q \in Seq(Token) :
              /\ Len(q) = past.d + 1 /\ q[past.d + 1] = root /\ Spells(r.mem, 0, q)
              /\ 1 \in DOMAIN r.rows /\ r.rows[1].toks = q
<1>1. PICK b, M : b = << Entry(root, past.d, 0, {0}) >> /\ M = DraftTrimmed(kept[Dft])
  OBVIOUS
<1>2. past.d \in Nat /\ 0 \in Ids
  BY OptionsTyped, TextTyped
<1>3. /\ Owned(b) /\ Len(b) = 1 /\ b # << >>
      /\ b[1].tok = root /\ b[1].pos = past.d /\ b[1].first = 0 /\ b[1].seqs = {0}
  BY <1>1, <1>2, OneEntry
<1>4. /\ CellsOK(M) /\ \A e \in M : e.pos < past.d
      /\ opt.share => M = Below(kept.t, past.d)
      /\ Behaved => \E q \in Seq(Token) : Len(q) = past.d /\ Spells(M, 0, q)
  BY <1>1, DraftKept
<1>5. PICK R : R = r.mem
  OBVIOUS
<1>6. /\ CellsOK(R) /\ M \subseteq R
      /\ \A e \in R : e \in M \/ \E j \in 1..Len(b) : e.pos = b[j].pos /\ e.seqs = b[j].seqs
  BY <1>1, <1>3, <1>4, <1>5, DecodedCells
<1>7. \A j \in 1..Len(b) : j = 1
  BY <1>3
<1>8. \A e \in R : e \in M \/ e.pos = past.d
  BY <1>3, <1>6, <1>7
<1>9. \A e \in M : e.pos \in Nat
  BY <1>4 DEF CellsOK, CellOK
<1>10. \A e \in R : e.pos <= past.d
  BY <1>2, <1>4, <1>8, <1>9
<1>11. Below(R, past.d) = M
  BY <1>2, <1>4, <1>6, <1>8 DEF Below
<1>12. ASSUME Behaved
       PROVE  \E q \in Seq(Token) :
                /\ Len(q) = past.d + 1 /\ q[past.d + 1] = root /\ Spells(r.mem, 0, q)
                /\ 1 \in DOMAIN r.rows /\ r.rows[1].toks = q
  <2>1. PICK q0 \in Seq(Token) : Len(q0) = past.d /\ Spells(M, 0, q0)
    BY <1>4, <1>12
  <2>2. PICK Q : Q = [j \in 1..1 |-> q0]
    OBVIOUS
  <2>3. Q[1] = q0
    BY <2>2
  <2>4. OneDepth(M, b, past.d, Q)
    BY <1>3, <1>7, <2>1, <2>3 DEF OneDepth
  <2>5. 1 \in 1..Len(b) /\ r = Decoded(M, out.d, "d", b)
    BY <1>1, <1>3
  <2>6. /\ DOMAIN r.rows = 1..Len(b) /\ r.rows[1].toks = Append(Q[1], b[1].tok)
        /\ Spells(r.mem, b[1].first, Append(Q[1], b[1].tok))
    <3>1. PICK p : p = past.d
      OBVIOUS
    <3>2. OneDepth(M, b, p, Q) /\ p \in Nat
      BY <1>2, <2>4, <3>1
    <3>3. /\ DOMAIN r.rows = 1..Len(b)
          /\ \A j \in 1..Len(b) : /\ Append(Q[j], b[j].tok) \in Seq(Token)
                                  /\ r.rows[j].toks = Append(Q[j], b[j].tok)
                                  /\ Spells(r.mem, b[j].first, Append(Q[j], b[j].tok))
      BY ZenonT(60), <2>5, <3>2, DepthDecoded
    <3> QED BY <2>5, <3>3
  <2>7. PICK q : q = Append(q0, root)
    OBVIOUS
  <2>8. q \in Seq(Token) /\ Len(q) = past.d + 1 /\ q[past.d + 1] = root
    BY <2>1, <2>7, AppendProperties
  <2> QED BY <1>3, <2>3, <2>5, <2>6, <2>7, <2>8
<1> QED BY <1>4, <1>5, <1>6, <1>10, <1>11, <1>12

LEMMA PrintedLength ==
  ASSUME Typed, Lengths, ~Ends
  PROVE  Len(text) <= Len(prompt) + Predict
<1>1. text \in Seq(Token) /\ Len(text) \in Nat /\ Len(prompt) \in Nat /\ Len(prompt) <= Len(text)
      /\ Predict \in Nat
  BY TextTyped, TreeAssumption DEF Lengths
<1>2. PICK a, b : a = Len(prompt) + 1 /\ b = Len(text)
  OBVIOUS
<1>3. a \in Int /\ b \in Int /\ \A i \in a..b : text[i] \in Token
  <2>1. \A i \in a..b : i \in 1..Len(text)
    BY <1>1, <1>2
  <2> QED BY <1>1, <1>2, <2>1, ElementOfSeq
<1>4. Len(SubSeq(text, a, b)) = IF a <= b THEN b - a + 1 ELSE 0
  BY <1>3, SubSeqProperties
<1>5. Len(Printed) = Len(text) - Len(prompt)
  BY <1>1, <1>2, <1>4 DEF Printed
<1>6. ~(Len(Printed) > Predict)
  BY DEF Ends
<1> QED BY <1>1, <1>5, <1>6

LEMMA KeepBranchStep == Inv /\ KeepBranch => Inv'
<1> SUFFICES ASSUME Inv, KeepBranch PROVE Inv'
  OBVIOUS
<1>1. /\ Typed /\ Lengths /\ Decided /\ DraftWhole /\ OutputInSupport
  BY DEF Inv
<1>2. PICK root, kept, r : /\ root = text[Len(text)] /\ kept = KeptCaches
                           /\ r = Decoded(DraftTrimmed(kept[Dft]), out.d, "d",
                                          << Entry(root, past.d, 0, {0}) >>)
  OBVIOUS
<1>3. /\ pc = "keep" /\ past' = [past EXCEPT !.d = @ + 1] /\ step' = 0 /\ todo' = {0} /\ nseq' = 1
      /\ chosen' = [seqs |-> {0}, nodes |-> 0]
      /\ opt' = opt /\ prompt' = prompt /\ text' = text /\ keep' = keep /\ scanned' = scanned
      /\ open' = open /\ seen' = seen /\ ndraft' = ndraft
  BY DEF KeepBranch
<1>4. /\ mem' = [kept EXCEPT ![Dft] = r.mem] /\ out' = [out EXCEPT !.d = r.rows]
      /\ batch' = [t |-> << Entry(root, past.t, 0, {0}) >>, d |-> << >>]
  BY <1>2, Zenon DEF KeepBranch
<1>5. pc' = IF Ends THEN "done" ELSE IF ndraft = 0 THEN "target" ELSE "draft"
  BY DEF KeepBranch, Ends
<1>6. /\ text \in Seq(Token) /\ Len(text) \in Nat /\ past.t \in Nat /\ past.d \in Nat
      /\ Len(text) = past.t + 1 /\ past.d = past.t /\ 0 \in Ids /\ ndraft \in 0..Cap
      /\ opt.nseq \in Nat \ {0}
  BY <1>1, <1>3, TextTyped, OptionsTyped DEF Lengths, Typed
<1>7. root \in Token
  <2>1. Len(text) \in 1..Len(text)
    BY <1>6
  <2> QED BY <1>2, <1>6, <2>1, ElementOfSeq
<1>8. past' = [t |-> past.t, d |-> past.d + 1] /\ past'.t = past.t /\ past'.d = past.d + 1
  BY <1>1, <1>3 DEF Typed
<1>9. /\ kept = [t |-> kept.t, d |-> kept.d]
      /\ CellsOK(kept.t) /\ CellsOK(kept.d) /\ Bounded(kept.t) /\ Bounded(kept.d)
      /\ opt.share => kept.d = mem.d
  <2>1. Bounded(mem.t) /\ Bounded(mem.d)
    BY <1>1, <1>3 DEF Lengths, Bounded
  <2> QED BY <1>1, <1>2, <2>1, KeptIs
<1>10. /\ CellsOK(r.mem) /\ \A e \in r.mem : e.pos <= past.d
       /\ opt.share => Below(r.mem, past.d) = Below(kept.t, past.d)
       /\ Behaved => \E q \in Seq(Token) :
            /\ Len(q) = past.d + 1 /\ q[past.d + 1] = root /\ Spells(r.mem, 0, q)
            /\ 1 \in DOMAIN r.rows /\ r.rows[1].toks = q
  BY <1>1, <1>2, <1>3, <1>7, RootDecoded
<1>11. mem' = IF opt.share THEN [t |-> r.mem, d |-> kept.d] ELSE [t |-> kept.t, d |-> r.mem]
  BY <1>4, <1>9, DraftCache
<1>12. /\ mem'.t = (IF opt.share THEN r.mem ELSE kept.t)
       /\ mem'.d = (IF opt.share THEN kept.d ELSE r.mem)
       /\ mem' = [t |-> mem'.t, d |-> mem'.d]
  BY <1>11
<1>13. out' = [t |-> out.t, d |-> r.rows] /\ out'.t = out.t /\ out'.d = r.rows
  BY <1>1, <1>4 DEF Typed
<1>14. /\ drafts' \in [Ids -> Branches]
       /\ \A s \in Ids : s # 0 => ~drafts'[s].active /\ ~drafts'[s].drafting
       /\ drafts'[0].active <=> ~Ends
       /\ drafts'[0].drafting <=> ~Ends
       /\ drafts'[0].tokens = << root >> /\ drafts'[0].rowT = << 1 >> /\ drafts'[0].rowD = 1
  BY <1>1, <1>2, <1>7, FreshBranches
<1>15. PICK b : b = << Entry(root, past.t, 0, {0}) >>
  OBVIOUS
<1>16. /\ Owned(b) /\ Len(b) = 1
       /\ b[1].tok = root /\ b[1].pos = past.t /\ b[1].first = 0 /\ b[1].seqs = {0}
  BY <1>6, <1>7, <1>15, OneEntry
<1>17. batch' = [t |-> b, d |-> << >>] /\ batch'.t = b /\ batch'.d = << >>
  BY <1>4, <1>15
<1>18. Ids' = Ids /\ Made' = {0} /\ Picked' = {0} /\ Proposed' = {} /\ (Behaved' <=> Behaved)
       /\ Dft' = Dft /\ chosen'.seqs = {0}
  <2>1. Made' = {0}
    <3>1. 1 - 1 = 0 /\ \A x \in 0..0 : x = 0
      OBVIOUS
    <3> QED BY <1>3, <3>1 DEF Made
  <2>2. Proposed' = {}
    <3>1. DOMAIN batch'.d = {}
      BY <1>17
    <3> QED BY <3>1 DEF Proposed
  <2>3. chosen'.seqs = {0}
    BY <1>3
  <2> QED BY <1>3, <2>1, <2>2, <2>3 DEF Ids, Picked, Behaved, Dft
<1>19. Typed'
  <2>1. Entries' = Entries /\ Branches' = Branches
    BY <1>18 DEF Entries, Branches
  <2>2. CellsOK(mem.t)' /\ CellsOK(mem.d)'
    BY <1>9, <1>10, <1>12, <1>18 DEF CellsOK, CellOK
  <2>3. batch' \in [t : Seq(Entries), d : Seq(Entries)]
    <3>1. b \in Seq(Entries) /\ << >> \in Seq(Entries)
      BY <1>16 DEF Owned
    <3> QED BY <1>17, <3>1
  <2>4. out' = [t |-> out'.t, d |-> out'.d] /\ past' \in [t : Nat, d : Nat]
    BY <1>6, <1>8, <1>13
  <2>5. chosen' \in [seqs : SUBSET Ids, nodes : Nat] /\ step' \in Nat /\ nseq' \in 1..opt'.nseq
        /\ todo' \subseteq Ids
    BY <1>3, <1>6
  <2>6. /\ pc' \in {"prefill", "skipped", "round", "verify", "keep", "draft", "target", "done"}
        /\ opt' \in Options /\ prompt' \in Prompts /\ text' \in Seq(Token)
        /\ keep' \in Ids /\ scanned' \in Nat /\ open' \subseteq Ids /\ ndraft' \in 0..Cap
    BY <1>1, <1>3, <1>5 DEF Typed
  <2> QED BY <1>12, <1>14, <1>18, <2>1, <2>2, <2>3, <2>4, <2>5, <2>6 DEF Typed
<1>20. ASSUME ~Ends PROVE Len(text) <= Len(prompt) + Predict
  BY <1>1, <1>20, PrintedLength
<1>21. Lengths'
  <2>1. Len(prompt) <= Len(text)
    BY <1>1 DEF Lengths
  <2>2. pc' = "draft" => 0 < Depths'
    <3>1. pc' = "draft" => ndraft > 0
      BY <1>5, <1>6
    <3>2. PruneDepth > 0
      BY TreeAssumption
    <3> QED BY <1>3, <3>1, <3>2 DEF Depths
  <2>3. ASSUME pc' # "done", NEW e \in mem'.t \cup mem'.d PROVE e.pos < Inf
    <3>1. Len(text) <= Len(prompt) + Predict
      BY <1>5, <1>20, <2>3
    <3>2. Inf \in Nat /\ Len(prompt) + Predict + Cap <= Inf /\ Cap \in Nat /\ Predict \in Nat
          /\ Len(prompt) \in Nat
      BY <1>1, TreeAssumption, TextTyped DEF Typed
    <3>3. past.d < Inf
      BY <1>6, <3>1, <3>2
    <3>4. \A x \in r.mem : x.pos \in Nat
      BY <1>10 DEF CellsOK, CellOK
    <3>5. \A x \in r.mem : x.pos < Inf
      BY <1>6, <1>10, <3>2, <3>3, <3>4
    <3> QED BY <1>9, <1>12, <2>3, <3>5 DEF Bounded
  <2>4. pc' \in {"draft", "target", "done"} /\ (pc' # "done" => ~Ends)
    BY <1>5
  <2> QED BY <1>3, <1>6, <1>8, <1>20, <2>1, <2>2, <2>3, <2>4 DEF Lengths
<1>22. RowsKnown'
  <2>1. Rows(b, past.t, drafts', {0}, {0})
    BY <1>6, <1>14, <1>16, RootRows
  <2>2. drafts'[0].tokens[1] = root
    BY <1>14
  <2> QED BY <1>2, <1>3, <1>6, <1>8, <1>17, <1>18, <2>1, <2>2 DEF RowsKnown
<1>23. Depth'
  <2>1. /\ Len(drafts'[0].tokens) = 0 + 1 /\ Len(drafts'[0].rowT) = 0 + 1
        /\ Len(batch'.d) = 0
    BY <1>14, <1>17
  <2>2. pc' = "draft" => ~Ends
    BY <1>5
  <2>3. \A j \in 1..Len(batch'.d) : FALSE
    BY <2>1
  <2> QED BY <1>3, <1>6, <1>14, <1>18, <2>1, <2>2, <2>3 DEF Depth
<1>24. TreeReady'
  <2>1. Len(drafts'[0].tokens) = Len(drafts'[0].rowT)
    BY <1>14
  <2>2. pc' = "target" => ~Ends
    BY <1>5
  <2> QED BY <1>14, <1>18, <2>1, <2>2 DEF TreeReady
<1>25. BelowRoot'
  <2>1. PICK q \in Seq(Token) :
              /\ Len(q) = past.t
              /\ Spells(Below(kept.t, past.t), 0, q) /\ AllExact(Below(kept.t, past.t), 0)
              /\ opt.nseq = 1 => q = SubSeq(text, 1, past.t)
    BY <1>1, <1>2, <1>3, TargetKept
  <2>2. ~opt.share => \A e \in kept.t : e.pos < past.t
    BY <1>1, <1>2, <1>3, TargetKept
  <2>3. Below(mem'.t, past.t) = Below(kept.t, past.t)
    BY <1>6, <1>10, <1>12
  <2> QED BY <1>3, <1>8, <1>12, <2>1, <2>2, <2>3 DEF BelowRoot
<1>26. Decided'
  BY <1>5 DEF Decided
<1>27. ASSUME Behaved
       PROVE  \E q \in Seq(Token) :
                /\ Len(q) = past.d + 1 /\ q[past.d + 1] = root /\ Spells(mem'[Dft], 0, q)
                /\ 1 \in DOMAIN out'.d /\ out'.d[1].toks = q
  <2>1. mem'[Dft] = r.mem
    BY <1>12, DraftCache
  <2> QED BY <1>10, <1>13, <1>27, <2>1
<1>28. DraftDepth'
  <2> SUFFICES ASSUME pc' = "draft", Behaved
               PROVE  \E q \in Seq(Token) :
                        /\ DraftSpells(0, q)'
                        /\ drafts'[0].rowD \in DOMAIN out'.d /\ out'.d[drafts'[0].rowD].toks = q
    BY <1>3, <1>18 DEF DraftDepth
  <2>1. PICK q \in Seq(Token) :
                /\ Len(q) = past.d + 1 /\ q[past.d + 1] = root /\ Spells(mem'[Dft], 0, q)
                /\ 1 \in DOMAIN out'.d /\ out'.d[1].toks = q
    BY <1>27
  <2>2. DraftSpells(0, q)'
    <3>1. \A i \in 1..(0 + 1) : (past.d + 1) - 1 + i = past.d + 1 /\ i = 1
      BY <1>6
    <3>2. drafts'[0].tokens[1] = root /\ Len(q) = past'.d + 0
      BY <1>6, <1>8, <1>14, <2>1
    <3> QED BY <1>3, <1>8, <1>18, <2>1, <3>1, <3>2 DEF DraftSpells
  <2> QED BY <1>14, <2>1, <2>2
<1>29. DraftWhole'
  <2> SUFFICES ASSUME ~opt.share, ~opt.prune, pc' = "target"
               PROVE  DraftHolds(mem'.d, 0, past'.t + Len(drafts'[0].tokens))
    BY <1>3, <1>5, <1>18 DEF DraftWhole
  <2>1. PICK q \in Seq(Token) : Len(q) = past.d + 1 /\ Spells(mem'[Dft], 0, q)
    BY <1>27 DEF Behaved
  <2>2. mem'[Dft] = mem'.d
    BY <1>12, DraftCache
  <2>3. Len(drafts'[0].tokens) = 1
    BY <1>14
  <2> QED BY <1>6, <1>8, <2>1, <2>2, <2>3 DEF DraftHolds
<1>30. OutputInSupport'
  BY <1>1, <1>3 DEF OutputInSupport
<1> QED BY <1>19, <1>21, <1>22, <1>23, <1>24, <1>25, <1>26, <1>28, <1>29, <1>30 DEF Inv

-----------------------------------------------------------------------------
(***************************************************************************)
(* The draft decodes a depth.                                              *)
(***************************************************************************)
EndsLike(q, n, k, z) == \A i \in 1..(k + 1) : q[n - 1 + i] = z[i]

DraftText(m, dr, n, k, s, q) ==
  Len(q) = n + k /\ Spells(m, s, q) /\ EndsLike(q, n, k, dr[s].tokens)

LEMMA DepthOwned ==
  ASSUME Typed, Depth, pc = "draft"
  PROVE  /\ Owned(batch.d) /\ Len(batch.d) \in Nat /\ DOMAIN batch.d = 1..Len(batch.d)
         /\ \A s : s \in Proposed <=> \E j \in 1..Len(batch.d) : s = batch.d[j].first
<1>1. PICK b : b = batch.d
  OBVIOUS
<1>2. b \in Seq(Entries)
  BY <1>1 DEF Typed
<1>3. Len(b) \in Nat /\ DOMAIN b = 1..Len(b)
  BY <1>2, LenProperties
<1>4. \A j \in 1..Len(b) : b[j].seqs = {b[j].first}
  BY <1>1 DEF Depth
<1>5. Owned(b)
  BY <1>2, <1>4 DEF Owned
<1>6. Proposed = UNION {b[k].seqs : k \in 1..Len(b)}
  BY <1>1, <1>3 DEF Proposed
<1>7. \A s : s \in Proposed <=> \E j \in 1..Len(b) : s = b[j].first
  BY <1>4, <1>6
<1> QED BY <1>1, <1>3, <1>5, <1>7

(* Positions of the depth, below Inf. *)
LEMMA DepthBelowInf ==
  ASSUME Typed, Lengths, pc = "draft"
  PROVE  /\ past.d + step < Inf /\ past.d + step \in Nat /\ past.t < past.d + step
         /\ past.d = past.t + 1 /\ step \in Nat /\ past.t \in Nat /\ past.d \in Nat
         /\ step + 1 <= Cap
<1>1. /\ past.t \in Nat /\ past.d \in Nat /\ Len(text) \in Nat /\ Len(prompt) \in Nat
      /\ step \in Nat /\ ndraft \in 0..Cap /\ prompt \in Prompts
  BY TextTyped DEF Typed
<1>2. /\ Len(text) = past.t + 1 /\ past.d = past.t + 1 /\ Len(text) <= Len(prompt) + Predict
      /\ step < Depths
  BY DEF Lengths
<1>3. /\ Inf \in Nat /\ Len(prompt) + Predict + Cap <= Inf /\ Cap \in Nat /\ Predict \in Nat
      /\ PruneDepth \in Nat
  BY <1>1, TreeAssumption
<1>4. step < ndraft
  BY <1>1, <1>2, <1>3 DEF Depths
<1> QED BY <1>1, <1>2, <1>3, <1>4

IsAppended(w, q, t) ==
  /\ w \in Seq(Token) /\ Len(w) = Len(q) + 1 /\ w[Len(q) + 1] = t
  /\ \A i \in 1..Len(q) : w[i] = q[i]

LEMMA Appended ==
  ASSUME NEW q \in Seq(Token), NEW t \in Token, NEW w, w = Append(q, t)
  PROVE  IsAppended(w, q, t)
BY AppendProperties DEF IsAppended

LEMMA TextLonger ==
  ASSUME NEW q \in Seq(Token), NEW n \in Nat, NEW k \in Nat, n > 0, Len(q) = n + k,
         NEW z \in Seq(Token), Len(z) = k + 2,
         EndsLike(q, n, k, z),
         NEW w, w = Append(q, z[k + 2])
  PROVE  /\ w \in Seq(Token) /\ Len(w) = n + (k + 1)
         /\ EndsLike(w, n, k + 1, z)
<1>1. z[k + 2] \in Token
  <2>1. k + 2 \in 1..Len(z)
    OBVIOUS
  <2> QED BY <2>1, ElementOfSeq
<1>2. PICK t : t = z[k + 2]
  OBVIOUS
<1>3. /\ w \in Seq(Token) /\ Len(w) = Len(q) + 1 /\ w[Len(q) + 1] = t
      /\ \A i \in 1..Len(q) : w[i] = q[i]
  <2>1. t \in Token /\ w = Append(q, t)
    BY <1>1, <1>2
  <2>2. IsAppended(w, q, t)
    BY <2>1, Appended
  <2> QED BY <2>2 DEF IsAppended
<1>4. ASSUME NEW i \in 1..((k + 1) + 1) PROVE w[n - 1 + i] = z[i]
  <2>1. CASE i = k + 2
    <3>1. n - 1 + i = Len(q) + 1
      BY <2>1
    <3> QED BY <1>2, <1>3, <2>1, <3>1
  <2>2. CASE i # k + 2
    <3>1. i \in 1..(k + 1) /\ n - 1 + i \in 1..Len(q)
      BY <2>2
    <3> QED BY <1>3, <3>1 DEF EndsLike
  <2> QED BY <2>1, <2>2
<1>5. Len(w) = n + (k + 1)
  BY <1>3
<1> QED BY <1>3, <1>4, <1>5 DEF EndsLike

LEMMA DepthGrows ==
  ASSUME Typed, Lengths, Depth, pc = "draft", NEW m, CellsOK(m), Bounded(m),
         NEW r, r = Decoded(m, out.d, "d", batch.d)
  PROVE  /\ CellsOK(r.mem) /\ Bounded(r.mem) /\ m \subseteq r.mem
         /\ \A e \in r.mem : e \in m \/ e.pos = past.d + step
         /\ (Proposed # {} /\ \A s \in Proposed : \E q \in Seq(Token) :
                                DraftText(m, drafts, past.d, step, s, q))
              => \A s \in Proposed : \E q \in Seq(Token) :
                   /\ DraftText(r.mem, drafts, past.d, step + 1, s, q)
                   /\ drafts[s].rowD \in DOMAIN r.rows /\ r.rows[drafts[s].rowD].toks = q
<1>1. PICK b, p, n, k : b = batch.d /\ p = past.d + step /\ n = past.d /\ k = step
  OBVIOUS
<1>2. p < Inf /\ p \in Nat /\ n \in Nat /\ k \in Nat /\ n > 0 /\ p = n + k
  BY <1>1, DepthBelowInf
<1>3. /\ Owned(b) /\ Len(b) \in Nat
      /\ \A s : s \in Proposed <=> \E j \in 1..Len(b) : s = b[j].first
  BY <1>1, DepthOwned
<1>4. \A j \in 1..Len(b) : /\ b[j].seqs = {b[j].first} /\ drafts[b[j].first].rowD = j
                           /\ b[j].pos = p /\ b[j].tok = drafts[b[j].first].tokens[k + 2]
  BY <1>1 DEF Depth
<1>5. PICK M : M = r.mem
  OBVIOUS
<1>6. /\ CellsOK(M) /\ m \subseteq M
      /\ \A e \in M : e \in m \/ \E j \in 1..Len(b) : e.pos = b[j].pos /\ e.seqs = b[j].seqs
  BY <1>1, <1>3, <1>5, DecodedCells
<1>7. \A e \in M : e \in m \/ e.pos = p
  BY <1>4, <1>6
<1>8. Bounded(M)
  BY <1>2, <1>7 DEF Bounded
<1>9. ASSUME Proposed # {},
             \A s \in Proposed : \E q \in Seq(Token) : DraftText(m, drafts, n, k, s, q),
             NEW s \in Proposed
      PROVE  \E q \in Seq(Token) :
               /\ DraftText(M, drafts, n, k + 1, s, q)
               /\ drafts[s].rowD \in DOMAIN r.rows /\ r.rows[drafts[s].rowD].toks = q
  <2>1. PICK Q : Q = [j \in 1..Len(b) |->
                        CHOOSE q \in Seq(Token) : DraftText(m, drafts, n, k, b[j].first, q)]
    OBVIOUS
  <2>2. ASSUME NEW j \in 1..Len(b)
        PROVE  Q[j] \in Seq(Token) /\ DraftText(m, drafts, n, k, b[j].first, Q[j])
    <3>1. b[j].first \in Proposed
      BY <1>3
    <3>2. \E q \in Seq(Token) : DraftText(m, drafts, n, k, b[j].first, q)
      BY <1>9, <3>1
    <3>3. Q[j] = CHOOSE q \in Seq(Token) : DraftText(m, drafts, n, k, b[j].first, q)
      BY <2>1
    <3> QED BY <3>2, <3>3
  <2>3. OneDepth(m, b, p, Q)
    <3>1. b # << >>
      <4>1. PICK j : j \in 1..Len(b)
        BY <1>3, <1>9
      <4> QED BY <4>1
    <3>2. \A i, j \in 1..Len(b) : b[i].first = b[j].first => i = j
      <4> SUFFICES ASSUME NEW i \in 1..Len(b), NEW j \in 1..Len(b), b[i].first = b[j].first
                   PROVE  i = j
        OBVIOUS
      <4>1. drafts[b[i].first].rowD = i /\ drafts[b[j].first].rowD = j
        BY <1>4
      <4> QED BY <4>1
    <3>3. \A j \in 1..Len(b) : /\ Q[j] \in Seq(Token) /\ Len(Q[j]) = p
                               /\ Spells(m, b[j].first, Q[j])
      BY <1>2, <2>2 DEF DraftText
    <3> QED BY <1>3, <1>4, <3>1, <3>2, <3>3 DEF OneDepth
  <2>4. PICK j \in 1..Len(b) : s = b[j].first
    BY <1>3
  <2>5. /\ DOMAIN r.rows = 1..Len(b)
        /\ \A i \in 1..Len(b) : /\ Append(Q[i], b[i].tok) \in Seq(Token)
                                /\ r.rows[i].toks = Append(Q[i], b[i].tok)
                                /\ Spells(r.mem, b[i].first, Append(Q[i], b[i].tok))
    <3>1. PICK rows : rows = out.d
      OBVIOUS
    <3>2. r = Decoded(m, rows, "d", b)
      BY <1>1, <3>1
    <3>3. p \in Nat
      BY <1>2
    <3> QED BY ZenonT(60), <2>3, <3>2, <3>3, DepthDecoded
  <2>6. PICK q, z : q = Q[j] /\ z = drafts[s].tokens
    OBVIOUS
  <2>7. /\ q \in Seq(Token) /\ Len(q) = n + k /\ EndsLike(q, n, k, z)
        /\ b[j].tok = z[k + 2] /\ drafts[s].rowD = j
    BY <1>4, <2>2, <2>4, <2>6 DEF DraftText
  <2>8. z \in Seq(Token) /\ Len(z) = k + 2
    <3>1. s \in Ids
      <4>1. b \in Seq(Entries)
        BY <1>3 DEF Owned
      <4> QED BY <2>4, <4>1, EntryTyped
    <3>2. Len(drafts[s].tokens) = step + 2
      BY DEF Depth
    <3> QED BY <1>1, <2>6, <3>1, <3>2, BranchTyped
  <2>9. PICK w : w = Append(q, z[k + 2])
    OBVIOUS
  <2>10. /\ w \in Seq(Token) /\ Len(w) = n + (k + 1)
         /\ EndsLike(w, n, k + 1, z)
    <3>1. n \in Nat /\ k \in Nat /\ n > 0
      BY <1>2
    <3> QED BY ZenonT(60), <2>7, <2>8, <2>9, <3>1, TextLonger
  <2>11. Spells(M, s, w) /\ r.rows[j].toks = w
    BY <1>5, <2>4, <2>5, <2>6, <2>7, <2>9
  <2>12. DraftText(M, drafts, n, k + 1, s, w)
    BY <2>6, <2>10, <2>11 DEF DraftText
  <2> QED BY <2>5, <2>7, <2>10, <2>11, <2>12
<1> QED BY <1>1, <1>5, <1>6, <1>7, <1>8, <1>9

LEMMA DraftSpellsIs ==
  ASSUME NEW s, NEW q
  PROVE  /\ DraftSpells(s, q) <=> DraftText(mem[Dft], drafts, past.d, step, s, q)
         /\ DraftSpells(s, q)' <=> DraftText(mem'[Dft'], drafts', past'.d, step', s, q)
BY DEF DraftSpells, DraftText, EndsLike

(* What a decode of the draft leaves of the caches. *)
LEMMA DraftReplaced ==
  ASSUME Typed, opt' = opt, NEW x, CellsOK(x), Bounded(x), Bounded(mem.t), Bounded(mem.d),
         mem' = [mem EXCEPT ![Dft] = x]
  PROVE  /\ mem' = [t |-> mem'.t, d |-> mem'.d] /\ CellsOK(mem.t)' /\ CellsOK(mem.d)'
         /\ Bounded(mem'.t) /\ Bounded(mem'.d) /\ mem'[Dft'] = x
         /\ (opt.share => mem'.t = x) /\ (~opt.share => mem'.t = mem.t /\ mem'.d = x)
<1>1. mem = [t |-> mem.t, d |-> mem.d] /\ CellsOK(mem.t) /\ CellsOK(mem.d)
  BY DEF Typed
<1>2. mem' = IF opt.share THEN [t |-> x, d |-> mem.d] ELSE [t |-> mem.t, d |-> x]
  BY <1>1, DraftCache
<1>3. /\ mem'.t = (IF opt.share THEN x ELSE mem.t) /\ mem'.d = (IF opt.share THEN mem.d ELSE x)
      /\ mem' = [t |-> mem'.t, d |-> mem'.d]
  <2>1. PICK a, b : /\ a = (IF opt.share THEN x ELSE mem.t)
                    /\ b = (IF opt.share THEN mem.d ELSE x)
    OBVIOUS
  <2>2. mem' = [t |-> a, d |-> b]
    BY <1>2, <2>1, Zenon
  <2>3. [t |-> a, d |-> b].t = a /\ [t |-> a, d |-> b].d = b
    OBVIOUS
  <2> QED BY <2>1, <2>2, <2>3, Zenon
<1>4. Ids' = Ids /\ Dft' = Dft
  BY DEF Ids, Dft
<1>5. CellsOK(mem.t)' /\ CellsOK(mem.d)'
  BY <1>1, <1>3, <1>4 DEF CellsOK, CellOK
<1>6. mem'[Dft] = x
  BY ZenonT(60), <1>3, DraftCache
<1> QED BY <1>3, <1>4, <1>5, <1>6

LEMMA RootStays ==
  ASSUME Typed, BelowRoot, Lengths, pc = "draft", pc' \in {"draft", "target"},
         opt' = opt, text' = text, past'.t = past.t,
         Below(mem'.t, past.t) = Below(mem.t, past.t),
         ~opt.share => mem'.t = mem.t
  PROVE  BelowRoot'
BY DEF BelowRoot

LEMMA DecodeDepthStep == Inv /\ DecodeDepth => Inv'
<1> SUFFICES ASSUME Inv, DecodeDepth PROVE Inv'
  OBVIOUS
<1>1. /\ Typed /\ Lengths /\ RowsKnown /\ Depth /\ BelowRoot /\ DraftDepth /\ OutputInSupport
  BY DEF Inv
<1>2. PICK m, r : m = mem[Dft] /\ r = Decoded(m, out.d, "d", batch.d)
  OBVIOUS
<1>3. /\ pc = "draft" /\ todo = {} /\ ~opt.prune
      /\ mem' = [mem EXCEPT ![Dft] = r.mem] /\ out' = [out EXCEPT !.d = r.rows]
      /\ step' = step + 1 /\ pc' = (IF step + 1 < Depths THEN "draft" ELSE "target")
      /\ todo' = {s \in Ids : drafts[s].drafting}
      /\ batch' = [batch EXCEPT !.d = << >>]
      /\ opt' = opt /\ prompt' = prompt /\ text' = text /\ past' = past /\ drafts' = drafts
      /\ keep' = keep /\ scanned' = scanned /\ open' = open /\ seen' = seen /\ ndraft' = ndraft
      /\ nseq' = nseq /\ chosen' = chosen
  BY <1>2 DEF DecodeDepth, NextDepth
<1>4. mem = [t |-> mem.t, d |-> mem.d] /\ CellsOK(mem.t) /\ CellsOK(mem.d)
      /\ Bounded(mem.t) /\ Bounded(mem.d)
  BY <1>1, <1>3 DEF Typed, Lengths, Bounded
<1>5. m = (IF opt.share THEN mem.t ELSE mem.d) /\ CellsOK(m) /\ Bounded(m)
  BY <1>2, <1>4, DraftCache
<1>6. /\ past.d + step < Inf /\ past.d + step \in Nat /\ past.t < past.d + step
      /\ past.d = past.t + 1 /\ step \in Nat /\ past.t \in Nat /\ past.d \in Nat
      /\ step + 1 <= Cap
  BY <1>1, <1>3, DepthBelowInf
<1>7. /\ CellsOK(r.mem) /\ Bounded(r.mem) /\ m \subseteq r.mem
      /\ \A e \in r.mem : e \in m \/ e.pos = past.d + step
  BY <1>1, <1>2, <1>3, <1>5, DepthGrows
<1>8. /\ mem' = [t |-> mem'.t, d |-> mem'.d] /\ CellsOK(mem.t)' /\ CellsOK(mem.d)'
      /\ Bounded(mem'.t) /\ Bounded(mem'.d) /\ mem'[Dft'] = r.mem
      /\ (opt.share => mem'.t = r.mem) /\ (~opt.share => mem'.t = mem.t /\ mem'.d = r.mem)
  BY <1>1, <1>3, <1>4, <1>7, DraftReplaced
<1>9. /\ out' = [t |-> out.t, d |-> r.rows] /\ out'.d = r.rows
      /\ batch' = [t |-> batch.t, d |-> << >>] /\ batch'.t = batch.t /\ batch'.d = << >>
  BY <1>1, <1>3 DEF Typed
<1>10. /\ Ids' = Ids /\ Made' = Made /\ Picked' = Picked /\ Picked = Made /\ Depths' = Depths
       /\ (Behaved' <=> Behaved) /\ Behaved /\ Dft' = Dft
  BY <1>3 DEF Ids, Made, Picked, Depths, Behaved, Dft
<1>11. Proposed' = {}
  <2>1. DOMAIN batch'.d = {}
    BY <1>9
  <2> QED BY <2>1 DEF Proposed
<1>12. /\ Made \subseteq Ids /\ 0 \in Made /\ Proposed = Made /\ todo' = Made
       /\ \A s \in Made : Len(drafts[s].tokens) = step + 2 /\ Len(drafts[s].rowT) = step + 2
       /\ \A s \in Ids : drafts[s].active <=> s \in Made
  <2>1. Made \subseteq Ids /\ 0 \in Made
    BY <1>1, <1>3, <1>10 DEF RowsKnown, Rows
  <2>2. Proposed = Made /\ \A s \in Ids : /\ drafts[s].active <=> s \in Made
                                          /\ drafts[s].drafting <=> s \in Made
    BY <1>1, <1>3 DEF Depth
  <2>3. \A s \in Made : Len(drafts[s].tokens) = step + 2 /\ Len(drafts[s].rowT) = step + 2
    BY <1>1, <1>3, <2>2 DEF Depth
  <2> QED BY <1>3, <2>1, <2>2, <2>3
<1>13. ASSUME NEW s \in Made
       PROVE  \E q \in Seq(Token) :
                /\ DraftText(r.mem, drafts, past.d, step + 1, s, q)
                /\ drafts[s].rowD \in DOMAIN r.rows /\ r.rows[drafts[s].rowD].toks = q
  <2>1. \A z \in Proposed : \E q \in Seq(Token) : DraftText(m, drafts, past.d, step, z, q)
    BY <1>1, <1>2, <1>3, <1>10, DraftSpellsIs DEF DraftDepth
  <2>2. Proposed # {}
    BY <1>12
  <2>3. \A z \in Proposed : \E q \in Seq(Token) :
                   /\ DraftText(r.mem, drafts, past.d, step + 1, z, q)
                   /\ drafts[z].rowD \in DOMAIN r.rows /\ r.rows[drafts[z].rowD].toks = q
    BY <1>1, <1>2, <1>3, <1>5, <2>1, <2>2, DepthGrows
  <2> QED BY <1>12, <2>3
<1>14. Typed'
  <2>1. Entries' = Entries /\ Branches' = Branches
    BY <1>10 DEF Entries, Branches
  <2>2. batch' \in [t : Seq(Entries), d : Seq(Entries)]
    <3>1. batch.t \in Seq(Entries) /\ << >> \in Seq(Entries)
      BY <1>1 DEF Typed
    <3> QED BY <1>9, <3>1
  <2>3. out' = [t |-> out'.t, d |-> out'.d]
    BY <1>9
  <2>4. pc' \in {"draft", "target"} /\ todo' \subseteq Ids /\ step' \in Nat
    BY <1>3, <1>6
  <2>5. /\ pc' \in {"prefill", "skipped", "round", "verify", "keep", "draft", "target", "done"}
        /\ opt' \in Options /\ prompt' \in Prompts /\ text' \in Seq(Token)
        /\ keep' \in Ids /\ scanned' \in Nat /\ open' \subseteq Ids /\ ndraft' \in 0..Cap
        /\ past' \in [t : Nat, d : Nat] /\ drafts' \in [Ids -> Branches] /\ nseq' \in 1..opt'.nseq
        /\ chosen' \in [seqs : SUBSET Ids, nodes : Nat]
    BY <1>1, <1>3, <2>4 DEF Typed
  <2> QED BY <1>8, <1>10, <2>1, <2>2, <2>3, <2>4, <2>5 DEF Typed
<1>15. Lengths'
  <2>1. pc' = "draft" => step' < Depths'
    BY <1>3, <1>10
  <2>2. \A e \in mem'.t \cup mem'.d : e.pos < Inf
    BY <1>8 DEF Bounded
  <2>3. /\ Len(prompt) <= Len(text) /\ Len(text) = past.t + 1 /\ past.d = past.t + 1
        /\ Len(text) <= Len(prompt) + Predict
    BY <1>1, <1>3 DEF Lengths
  <2>4. pc' \in {"draft", "target"}
    BY <1>3
  <2> QED BY <1>3, <2>1, <2>2, <2>3, <2>4 DEF Lengths
<1>16. RowsKnown'
  BY <1>1, <1>3, <1>9, <1>10 DEF RowsKnown
<1>17. Depth'
  <2>1. Len(batch'.d) = 0 /\ \A j \in 1..Len(batch'.d) : FALSE
    BY <1>9
  <2>2. \A s \in Made : Len(drafts[s].tokens) = step' + 1 /\ Len(drafts[s].rowT) = step' + 1
                        /\ Len(drafts[s].rowT) = Len(drafts[s].tokens)
    BY <1>3, <1>6, <1>12
  <2>3. \A s \in Ids : /\ drafts[s].active <=> s \in Made
                       /\ drafts[s].drafting <=> s \in Made
    BY <1>1, <1>3 DEF Depth
  <2> QED BY <1>3, <1>10, <1>11, <1>12, <2>1, <2>2, <2>3 DEF Depth
<1>18. TreeReady'
  BY <1>3, <1>10, <1>12 DEF TreeReady
<1>19. BelowRoot'
  <2>1. Below(mem'.t, past.t) = Below(mem.t, past.t)
    <3>1. CASE opt.share
      <4>1. \A e \in r.mem : e.pos < past.t => e \in m
        BY <1>6, <1>7
      <4>2. mem'.t = r.mem /\ mem.t = m
        BY <1>5, <1>8, <3>1
      <4> QED BY <1>7, <4>1, <4>2 DEF Below
    <3>2. CASE ~opt.share
      BY <1>8, <3>2
    <3> QED BY <3>1, <3>2
  <2>2. pc' \in {"draft", "target"}
    BY <1>3
  <2> QED BY <1>1, <1>3, <1>8, <2>1, <2>2, RootStays
<1>20. Decided'
  BY <1>3 DEF Decided
<1>21. DraftDepth'
  <2> SUFFICES ASSUME pc' = "draft", NEW s \in Made
               PROVE  \E q \in Seq(Token) :
                        /\ DraftSpells(s, q)'
                        /\ drafts[s].rowD \in DOMAIN out'.d /\ out'.d[drafts[s].rowD].toks = q
    BY <1>3, <1>11, <1>12 DEF DraftDepth
  <2>1. PICK q \in Seq(Token) :
                /\ DraftText(r.mem, drafts, past.d, step + 1, s, q)
                /\ drafts[s].rowD \in DOMAIN r.rows /\ r.rows[drafts[s].rowD].toks = q
    BY <1>13
  <2>2. DraftSpells(s, q)'
    BY <1>3, <1>8, <2>1, DraftSpellsIs
  <2> QED BY <1>9, <2>1, <2>2
<1>22. DraftWhole'
  <2> SUFFICES ASSUME ~opt.share, pc' = "target", NEW s \in Made
               PROVE  DraftHolds(mem'.d, s, past.t + Len(drafts[s].tokens))
    BY <1>3, <1>10 DEF DraftWhole
  <2>1. PICK q \in Seq(Token) : DraftText(r.mem, drafts, past.d, step + 1, s, q)
    BY <1>13
  <2>2. Len(q) = past.d + (step + 1) /\ Spells(mem'.d, s, q)
    BY <1>8, <2>1 DEF DraftText
  <2>3. Len(q) = past.t + Len(drafts[s].tokens)
    BY SMTT(60), <1>6, <1>12, <2>2
  <2> QED BY <2>2, <2>3 DEF DraftHolds
<1>23. OutputInSupport'
  BY <1>1, <1>3 DEF OutputInSupport
<1> QED BY <1>14, <1>15, <1>16, <1>17, <1>18, <1>19, <1>20, <1>21, <1>22, <1>23 DEF Inv

-----------------------------------------------------------------------------
(***************************************************************************)
(* The target decodes the tree.                                            *)
(***************************************************************************)
LEMMA RewoundIs ==
  ASSUME Typed, Bounded(mem.t), ~opt.share => \A e \in mem.t : e.pos < past.t
  PROVE  \A f : f \in Rewound <=> \E e \in Of(Below(mem.t, past.t), 0) : f = With(e, Ids)
<1>1. past.t \in Nat /\ CellsOK(mem.t)
  BY TextTyped DEF Typed
<1>2. \A f : f \in Spread(mem.t) <=> \E e \in Of(mem.t, 0) : f = With(e, Ids)
  <2>1. \A g : g \in SeqKeep(mem.t, 0) <=> \E e \in Of(mem.t, 0) : g = With(e, {0})
    BY <1>1, KeepIs
  <2>2. \A e : [With(e, {0}) EXCEPT !.seqs = Ids] = With(e, Ids)
    BY WithFacts
  <2>3. \A f : f \in Spread(mem.t) <=> \E g \in SeqKeep(mem.t, 0) : f = [g EXCEPT !.seqs = Ids]
    BY DEF Spread
  <2>4. ASSUME NEW f \in Spread(mem.t) PROVE \E e \in Of(mem.t, 0) : f = With(e, Ids)
    BY <2>1, <2>2, <2>3
  <2>5. ASSUME NEW e \in Of(mem.t, 0), NEW f, f = With(e, Ids) PROVE f \in Spread(mem.t)
    <3>1. With(e, {0}) \in SeqKeep(mem.t, 0)
      BY <2>1
    <3> QED BY <2>2, <2>3, <2>5, <3>1
  <2> QED BY <2>4, <2>5
<1>3. \A e : With(e, Ids).pos = e.pos
  BY WithFacts DEF Same
<1>4. \A e \in mem.t : e.pos \in Nat /\ e.pos < Inf
  BY <1>1 DEF CellsOK, CellOK, Bounded
<1>5. \A e : e \in Of(Below(mem.t, past.t), 0) <=> e \in Of(mem.t, 0) /\ e.pos < past.t
  BY DEF Of, Below
<1>6. \A e \in Of(mem.t, 0) : e \in mem.t
  BY DEF Of
<1>7. CASE opt.share
  <2>1. \A f : f \in Rewound <=> f \in Spread(mem.t) /\ ~Within(f, past.t, Inf)
    BY <1>7 DEF Rewound, RmAny
  <2>2. ASSUME NEW f \in Rewound
        PROVE  \E e \in Of(Below(mem.t, past.t), 0) : f = With(e, Ids)
    <3>1. PICK e \in Of(mem.t, 0) : f = With(e, Ids)
      BY <1>2, <2>1
    <3>2. f.pos = e.pos /\ e.pos \in Nat /\ e.pos < Inf /\ ~Within(f, past.t, Inf)
      BY <1>3, <1>4, <1>6, <2>1, <3>1
    <3>3. e.pos < past.t
      BY <1>1, <3>2 DEF Within
    <3> QED BY <1>5, <3>1, <3>3
  <2>3. ASSUME NEW e \in Of(Below(mem.t, past.t), 0), NEW f, f = With(e, Ids) PROVE f \in Rewound
    <3>1. e \in Of(mem.t, 0) /\ e.pos < past.t /\ f.pos = e.pos /\ e.pos \in Nat
      BY <1>3, <1>4, <1>5, <1>6, <2>3
    <3>2. ~Within(f, past.t, Inf)
      BY <1>1, <3>1 DEF Within
    <3> QED BY <1>2, <2>1, <2>3, <3>1, <3>2
  <2> QED BY <2>2, <2>3
<1>8. CASE ~opt.share
  <2>1. Rewound = Spread(mem.t)
    BY <1>8 DEF Rewound
  <2>2. \A e : e \in Of(Below(mem.t, past.t), 0) <=> e \in Of(mem.t, 0)
    BY <1>5, <1>6, <1>8
  <2> QED BY <1>2, <2>1, <2>2
<1> QED BY <1>7, <1>8

LEMMA RewoundCells ==
  ASSUME Typed, Bounded(mem.t), ~opt.share => \A e \in mem.t : e.pos < past.t,
         NEW R, R = Rewound
  PROVE  /\ CellsOK(R) /\ \A f \in R : f.pos < past.t
         /\ \A s \in Ids : \A q : Spells(Below(mem.t, past.t), 0, q) =>
              /\ Spells(R, s, q)
              /\ AllExact(Below(mem.t, past.t), 0) => AllExact(R, s)
<1>1. PICK B : B = Below(mem.t, past.t)
  OBVIOUS
<1>2. \A f : f \in R <=> \E e \in Of(B, 0) : f = With(e, Ids)
  BY <1>1, RewoundIs
<1>3. 0 \in Ids /\ \A e \in B : CellOK(e) /\ e.pos < past.t
  BY <1>1, OptionsTyped DEF Typed, CellsOK, Below
<1>4. ASSUME NEW f \in R PROVE CellOK(f) /\ f.pos < past.t /\ f.seqs = Ids
  <2>1. PICK e \in Of(B, 0) : f = With(e, Ids)
    BY <1>2
  <2>2. CellOK(e) /\ e.pos < past.t
    BY <1>3 DEF Of
  <2>3. Same(f, e) /\ Shape(f) /\ f.seqs = Ids
    BY <2>1, WithFacts
  <2> QED BY <1>3, <2>2, <2>3 DEF CellOK, Same
<1>5. ASSUME NEW s \in Ids, NEW q, Spells(B, 0, q)
      PROVE  Spells(R, s, q) /\ (AllExact(B, 0) => AllExact(R, s))
  <2>1. PICK G : G = [e \in Of(B, 0) |-> With(e, Ids)]
    OBVIOUS
  <2>2. ASSUME NEW e \in Of(B, 0) PROVE G[e] \in Of(R, s) /\ Same(G[e], e)
    <3>1. G[e] = With(e, Ids) /\ G[e] \in R
      BY <1>2, <2>1
    <3> QED BY <3>1, WithFacts DEF Of
  <2>3. ASSUME NEW f \in Of(R, s) PROVE \E e \in Of(B, 0) : f = G[e]
    BY <1>2, <2>1 DEF Of
  <2>4. Moved(B, 0, R, s, G)
    BY <2>2, <2>3 DEF Moved
  <2> QED BY <1>5, <2>4, MovedSpells
<1> QED BY <1>1, <1>4, <1>5 DEF CellsOK

(* The rows of the branches make the batch a tree. *)
LEMMA TreeOfRows ==
  ASSUME NEW b, NEW n \in Nat, NEW dr, NEW M, NEW S, Rows(b, n, dr, M, S), Len(b) \in Nat,
         \A s \in S : dr[s].tokens \in Seq(Token) /\ Len(dr[s].rowT) = Len(dr[s].tokens),
         NEW tk, \A s \in S : tk[s] = dr[s].tokens
  PROVE  Tree(b, n, S, tk)
<1>1. ASSUME NEW s \in S
      PROVE  /\ RowsOf(b, n, dr, s) /\ Len(tk[s]) \in Nat /\ Len(dr[s].rowT) = Len(tk[s])
             /\ tk[s] \in Seq(Token)
  BY DEF Rows
<1>2. ASSUME NEW j \in 1..Len(b), NEW s \in b[j].seqs
      PROVE  /\ s \in S
             /\ \E k \in 1..Len(tk[s]) :
                  /\ dr[s].rowT[k] = j /\ b[j].pos = n + k - 1
                  /\ \A i \in 1..k : tk[s][i] = tk[b[j].first][i]
  <2>1. EntryOf(b, n, dr, S, j)
    BY DEF Rows
  <2>2. s \in S /\ b[j].first \in S
    BY <2>1 DEF EntryOf
  <2>3. PICK k \in 1..Len(dr[s].rowT) : dr[s].rowT[k] = j
    BY <2>1 DEF EntryOf
  <2>4. b[dr[s].rowT[k]].pos = n + k - 1
        /\ \A i \in 1..k : dr[s].tokens[i] = dr[b[dr[s].rowT[k]].first].tokens[i]
    BY <1>1, <2>2, <2>3 DEF RowsOf
  <2> QED BY <1>1, <2>2, <2>3, <2>4
<1>3. ASSUME NEW j \in 1..Len(b)
      PROVE  /\ b[j].first \in b[j].seqs /\ b[j].seqs \subseteq S
             /\ b[j].tok = tk[b[j].first][b[j].pos - n + 1]
  <2>1. EntryOf(b, n, dr, S, j)
    BY DEF Rows
  <2> QED BY <2>1 DEF EntryOf
<1>4. ASSUME NEW j \in 1..Len(b), NEW s \in b[j].seqs
      PROVE  /\ b[j].pos \in n..(n + Len(tk[s]) - 1)
             /\ \A i \in 1..(b[j].pos - n + 1) : tk[s][i] = tk[b[j].first][i]
  <2>1. s \in S
    BY <1>2
  <2>2. PICK k \in 1..Len(tk[s]) :
                  /\ dr[s].rowT[k] = j /\ b[j].pos = n + k - 1
                  /\ \A i \in 1..k : tk[s][i] = tk[b[j].first][i]
    BY <1>2
  <2>3. Len(tk[s]) \in Nat
    BY <1>1, <2>1
  <2>4. b[j].pos - n + 1 = k /\ b[j].pos \in n..(n + Len(tk[s]) - 1)
    BY <2>2, <2>3
  <2> QED BY <2>2, <2>4
<1>5. ASSUME NEW i \in 1..Len(b), NEW j \in 1..Len(b), NEW s \in b[i].seqs \cap b[j].seqs, i < j
      PROVE  b[i].pos < b[j].pos
  <2>1. s \in S /\ RowsOf(b, n, dr, s) /\ Len(dr[s].rowT) = Len(tk[s]) /\ Len(tk[s]) \in Nat
    BY <1>1, <1>2
  <2>2. PICK k \in 1..Len(tk[s]) : dr[s].rowT[k] = i /\ b[i].pos = n + k - 1
    BY <1>2
  <2>3. PICK l \in 1..Len(tk[s]) : dr[s].rowT[l] = j /\ b[j].pos = n + l - 1
    BY <1>2
  <2>4. l < k => j < i
    BY <2>1, <2>2, <2>3 DEF RowsOf
  <2>5. k \in Nat /\ l \in Nat /\ i \in Nat /\ j \in Nat
    BY <2>1
  <2>6. k # l
    BY <1>5, <2>2, <2>3, <2>5
  <2>7. k < l
    BY <1>5, <2>4, <2>5, <2>6
  <2> QED BY <2>2, <2>3, <2>5, <2>7
<1>6. ASSUME NEW s \in S, NEW p \in n..(n + Len(tk[s]) - 1)
      PROVE  \E j \in 1..Len(b) : s \in b[j].seqs /\ b[j].pos = p
  <2>1. PICK k : k = p - n + 1
    OBVIOUS
  <2>2. k \in 1..Len(dr[s].rowT) /\ n + k - 1 = p
    BY <1>1, <2>1
  <2>3. dr[s].rowT[k] \in 1..Len(b) /\ b[dr[s].rowT[k]].pos = n + k - 1
    BY <1>1, <2>2 DEF RowsOf
  <2>4. s \in b[dr[s].rowT[k]].seqs
    BY <2>2 DEF Rows
  <2> QED BY <2>2, <2>3, <2>4
<1> QED BY <1>1, <1>3, <1>4, <1>5, <1>6 DEF Tree

LEMMA TreeAccepted ==
  ASSUME NEW b, NEW n \in Nat, NEW S, NEW tk, Tree(b, n, S, tk), b # << >>, DOMAIN b = 1..Len(b),
         NEW q \in Seq(Token), Len(q) = n, NEW m, \A s \in S : Spells(m, s, q)
  PROVE  DecodeAccepted(m, b)
<1>1. ASSUME NEW k \in 1..Len(b), NEW s \in b[k].seqs PROVE Continues(m, b, s)
  <2>1. s \in S /\ tk[s] \in Seq(Token) /\ b[k].pos \in n..(n + Len(tk[s]) - 1)
    BY DEF Tree
  <2>2. PICK h : h = n + Len(tk[s]) - 1
    OBVIOUS
  <2>3. h \in Nat /\ n <= h
    BY <2>1, <2>2
  <2>4. \A j \in 1..Len(b) : s \in b[j].seqs => b[j].pos \in n..h
    BY <2>2 DEF Tree
  <2>5. \A p \in n..h : \E j \in 1..Len(b) : s \in b[j].seqs /\ b[j].pos = p
    BY <2>1, <2>2 DEF Tree
  <2>6. Spells(m, s, q)
    BY <2>1
  <2> QED BY <2>3, <2>4, <2>5, <2>6 DEF Continues
<1> QED BY <1>1, Accepted

(* The root moves from the draft to the text. *)
LEMMA RootMoves ==
  ASSUME NEW q \in Seq(Token), NEW z \in Seq(Token), Len(z) > 0
  PROVE  /\ Tail(z) \in Seq(Token) /\ Len(Tail(z)) = Len(z) - 1
         /\ Append(q, z[1]) \o Tail(z) = q \o z
<1>1. z # << >> /\ Len(z) \in Nat /\ 1 \in 1..Len(z)
  OBVIOUS
<1>2. PICK h, t : h = z[1] /\ t = Tail(z)
  OBVIOUS
<1>3. h \in Token /\ t \in Seq(Token) /\ Len(t) = Len(z) - 1
  BY <1>1, <1>2, ElementOfSeq, HeadTailProperties
<1>4. z = << h >> \o t
  BY <1>1, <1>2, HeadTailProperties
<1>5. << h >> \in Seq(Token) /\ Append(q, h) = q \o << h >>
  BY <1>3, AppendIsConcat
<1>6. (q \o << h >>) \o t = q \o (<< h >> \o t)
  BY <1>3, <1>5, ConcatAssociative
<1> QED BY <1>2, <1>3, <1>4, <1>5, <1>6

LEMMA RowMoves ==
  ASSUME NEW q \in Seq(Token), NEW z \in Seq(Token), NEW k \in 1..Len(z), NEW u, u = Append(q, z[1])
  PROVE  q \o SubSeq(z, 1, k) = u \o SubSeq(Tail(z), 1, k - 1)
<1>1. Len(z) \in Nat /\ Len(z) > 0 /\ k \in 0..Len(z) /\ 1 \in 1..Len(z) /\ Len(q) \in Nat
  OBVIOUS
<1>2. PICK t : t = Tail(z)
  OBVIOUS
<1>3. t \in Seq(Token) /\ Len(t) = Len(z) - 1 /\ u \o t = q \o z
  BY <1>1, <1>2, RootMoves
<1>4. u \in Seq(Token) /\ Len(u) = Len(q) + 1
  <2>1. PICK h : h = z[1]
    OBVIOUS
  <2>2. h \in Token /\ u = Append(q, h)
    BY <1>1, <2>1, ElementOfSeq
  <2>3. IsAppended(u, q, h)
    BY <2>2, Appended
  <2> QED BY <2>3 DEF IsAppended
<1>5. SubSeq(q \o z, 1, Len(q) + k) = q \o SubSeq(z, 1, k)
  BY <1>1, BeyondJoin
<1>6. PICK k1 : k1 = k - 1
  OBVIOUS
<1>7. k1 \in 0..Len(t) /\ Len(u) + k1 = Len(q) + k
  BY <1>1, <1>3, <1>4, <1>6
<1>8. SubSeq(u \o t, 1, Len(u) + k1) = u \o SubSeq(t, 1, k1)
  BY ZenonT(30), <1>3, <1>4, <1>7, BeyondJoin
<1> QED BY <1>2, <1>3, <1>5, <1>6, <1>7, <1>8

(* The decode of the tree: what the caches and the rows hold. *)
LEMMA TargetDecodes ==
  ASSUME Typed, Lengths, RowsKnown, TreeReady, BelowRoot, pc = "target",
         NEW r, r = Decoded(Rewound, out.t, "t", batch.t)
  PROVE  \E q \in Seq(Token) :
           /\ Len(q) = past.t /\ (opt.nseq = 1 => q = SubSeq(text, 1, past.t))
           /\ \A s \in Picked :
                /\ Spells(r.mem, s, q \o drafts[s].tokens) /\ AllExact(r.mem, s)
                /\ \A k \in 1..Len(drafts[s].rowT) :
                     /\ drafts[s].rowT[k] \in DOMAIN r.rows
                     /\ r.rows[drafts[s].rowT[k]].exact
                     /\ r.rows[drafts[s].rowT[k]].toks = q \o SubSeq(drafts[s].tokens, 1, k)
<1>1. PICK b, n, S, R, tk, L : /\ b = batch.t /\ n = past.t /\ S = Picked /\ R = Rewound
                               /\ tk = [s \in Ids |-> drafts[s].tokens] /\ L = Len(b)
  OBVIOUS
<1>2. n \in Nat /\ b \in Seq(Entries) /\ L \in Nat /\ DOMAIN b = 1..L
  <2>1. past.t \in Nat /\ batch.t \in Seq(Entries)
    BY TextTyped DEF Typed
  <2> QED BY <1>1, <2>1, LenProperties
<1>3. Rows(b, n, drafts, Made, S) /\ Made \subseteq Ids
  BY <1>1 DEF RowsKnown
<1>4. S \subseteq Ids /\ 0 \in S
  BY <1>3 DEF Rows
<1>5. \A s \in S : /\ drafts[s].tokens \in Seq(Token) /\ Len(drafts[s].rowT) = Len(drafts[s].tokens)
                   /\ tk[s] = drafts[s].tokens
  BY <1>1, <1>4, BranchTyped DEF TreeReady
<1>6. Tree(b, n, S, tk)
  BY <1>1, <1>2, <1>3, <1>5, TreeOfRows
<1>7. PICK q \in Seq(Token) :
         /\ Len(q) = n
         /\ Spells(Below(mem.t, n), 0, q) /\ AllExact(Below(mem.t, n), 0)
         /\ opt.nseq = 1 => q = SubSeq(text, 1, n)
  BY <1>1 DEF BelowRoot
<1>8. Bounded(mem.t) /\ (~opt.share => \A e \in mem.t : e.pos < past.t)
  BY DEF Lengths, Bounded, BelowRoot
<1>9. \A s \in S : Spells(R, s, q) /\ AllExact(R, s)
  BY <1>1, <1>4, <1>7, <1>8, RewoundCells
<1>10. b # << >>
  <2>1. RowsOf(b, n, drafts, 0)
    BY <1>3, <1>4 DEF Rows
  <2>2. 1 \in 1..Len(drafts[0].rowT)
    <3>1. Len(drafts[0].tokens) \in Nat /\ Len(drafts[0].rowT) \in 1..Len(drafts[0].tokens)
      BY <1>4, <2>1, BranchTyped DEF RowsOf
    <3> QED BY <3>1
  <2>3. drafts[0].rowT[1] \in 1..Len(b)
    BY <2>1, <2>2 DEF RowsOf
  <2> QED BY <2>3
<1>11. DecodeAccepted(R, b)
  BY <1>1, <1>2, <1>6, <1>7, <1>9, <1>10, TreeAccepted
<1>12. r = Decoding(R, "t", b)
  BY <1>1, <1>11 DEF Decoded
<1>13. PICK c : Gives(r, R, "t", b, c)
  BY <1>1, <1>2, <1>12, DecodingFacts
<1>14. /\ \A j \in 1..L : CellAt(R, "t", b, c, j) /\ r.rows[j].toks = c[j].toks
                          /\ r.rows[j].exact = c[j].exact
       /\ r.mem = R \cup FirstCells(c, L) /\ DOMAIN r.rows = 1..L
  BY <1>1, <1>13 DEF Gives
<1>15. /\ \A j \in 1..L : Right(b, n, tk, q, c, j)
       /\ \A s \in S : /\ Spells(R \cup FirstCells(c, L), s, q \o tk[s])
                       /\ AllExact(R \cup FirstCells(c, L), s)
  <2>1. n \in Nat /\ L \in Nat /\ L = Len(b) /\ Len(q) = n
    BY <1>1, <1>2, <1>7
  <2>2. \A j \in 1..L : CellAt(R, "t", b, c, j)
    BY <1>14
  <2> QED BY <1>6, <1>9, <2>1, <2>2, TreeDecoded
<1>16. ASSUME NEW s \in S
       PROVE  /\ Spells(r.mem, s, q \o drafts[s].tokens) /\ AllExact(r.mem, s)
              /\ \A k \in 1..Len(drafts[s].rowT) :
                   /\ drafts[s].rowT[k] \in DOMAIN r.rows
                   /\ r.rows[drafts[s].rowT[k]].exact
                   /\ r.rows[drafts[s].rowT[k]].toks = q \o SubSeq(drafts[s].tokens, 1, k)
  <2>1. Spells(r.mem, s, q \o drafts[s].tokens) /\ AllExact(r.mem, s)
    BY ZenonT(30), <1>5, <1>14, <1>15
  <2>2. ASSUME NEW k \in 1..Len(drafts[s].rowT)
        PROVE  /\ drafts[s].rowT[k] \in DOMAIN r.rows
               /\ r.rows[drafts[s].rowT[k]].exact
               /\ r.rows[drafts[s].rowT[k]].toks = q \o SubSeq(drafts[s].tokens, 1, k)
    <3>1. PICK j : j = drafts[s].rowT[k]
      OBVIOUS
    <3>2. RowsOf(b, n, drafts, s)
      BY SMTT(60), <1>3 DEF Rows
    <3>3. j \in 1..L /\ b[j].pos = n + k - 1 /\ k \in Nat
      <4>1. Len(drafts[s].rowT) \in Nat
        BY <1>4, BranchTyped
      <4> QED BY SMTT(60), <1>1, <3>1, <3>2, <4>1 DEF RowsOf
    <3>4. s \in b[j].seqs
      BY <1>3, <3>1 DEF Rows
    <3>5. c[j].exact /\ c[j].toks = q \o SubSeq(tk[s], 1, b[j].pos - n + 1)
      BY <1>15, <3>3, <3>4 DEF Right
    <3>6. b[j].pos - n + 1 = k
      BY <1>2, <3>3
    <3> QED BY ZenonT(30), <1>5, <1>14, <3>1, <3>3, <3>5, <3>6
  <2> QED BY ZenonT(30), <2>1, <2>2
<1> QED BY ZenonT(30), <1>1, <1>7, <1>16

LEMMA RootTaken ==
  ASSUME Typed, drafts' = [s \in Ids |->
           IF drafts[s].active THEN [drafts[s] EXCEPT !.tokens = Tail(@)] ELSE drafts[s]],
         \A s \in Ids : drafts[s].active => Len(drafts[s].tokens) > 0
  PROVE  /\ drafts' \in [Ids -> Branches]
         /\ \A s \in Ids :
              /\ drafts'[s].active <=> drafts[s].active
              /\ drafts[s].active => /\ drafts'[s].tokens = Tail(drafts[s].tokens)
                                     /\ drafts'[s].rowT = drafts[s].rowT
<1>1. ASSUME NEW s \in Ids
      PROVE  /\ drafts'[s] \in Branches /\ drafts'[s].active = drafts[s].active
             /\ drafts[s].active => /\ drafts'[s].tokens = Tail(drafts[s].tokens)
                                    /\ drafts'[s].rowT = drafts[s].rowT
  <2>1. PICK d, z : d = drafts[s] /\ z = Tail(drafts[s].tokens)
    OBVIOUS
  <2>2. d \in Branches
    BY <2>1 DEF Typed
  <2>3. drafts'[s] = IF d.active THEN [d EXCEPT !.tokens = z] ELSE d
    BY <2>1
  <2>4. CASE ~d.active
    BY <2>1, <2>2, <2>3, <2>4
  <2>5. CASE d.active
    <3>1. z \in Seq(Token)
      <4>1. << >> \in Seq(Token)
        OBVIOUS
      <4> QED BY <2>1, <2>5, <4>1, BranchTyped, RootMoves
    <3>2. PICK e : e = [d EXCEPT !.tokens = z]
      OBVIOUS
    <3>3. e \in Branches /\ e.active = d.active /\ e.tokens = z /\ e.rowT = d.rowT
      BY <2>2, <3>1, <3>2 DEF Branches
    <3> QED BY <2>1, <2>3, <2>5, <3>2, <3>3
  <2> QED BY <2>4, <2>5
<1>2. drafts' = [s \in Ids |-> drafts'[s]]
  OBVIOUS
<1>3. drafts' \in [Ids -> Branches]
  BY <1>1, <1>2
<1> QED BY <1>1, <1>3

LEMMA DecodeTreeStep == Inv /\ DecodeTree => Inv'
<1> SUFFICES ASSUME Inv, DecodeTree PROVE Inv'
  OBVIOUS
<1>1. /\ Typed /\ Lengths /\ RowsKnown /\ TreeReady /\ BelowRoot /\ DraftWhole /\ OutputInSupport
  BY DEF Inv
<1>2. PICK r : r = Decoded(Rewound, out.t, "t", batch.t)
  OBVIOUS
<1>3. /\ pc = "target" /\ mem' = [mem EXCEPT !.t = r.mem] /\ out' = [out EXCEPT !.t = r.rows]
      /\ past' = [past EXCEPT !.t = @ + 1]
      /\ drafts' = [s \in Ids |->
           IF drafts[s].active THEN [drafts[s] EXCEPT !.tokens = Tail(@)] ELSE drafts[s]]
      /\ pc' = "round"
      /\ opt' = opt /\ prompt' = prompt /\ text' = text
      /\ keep' = keep /\ scanned' = scanned /\ open' = open /\ seen' = seen /\ ndraft' = ndraft
      /\ step' = step /\ todo' = todo /\ nseq' = nseq /\ batch' = batch /\ chosen' = chosen
  BY <1>2 DEF DecodeTree
<1>4. /\ mem' = [t |-> r.mem, d |-> mem.d] /\ mem'.t = r.mem /\ mem'.d = mem.d
      /\ out' = [t |-> r.rows, d |-> out.d] /\ out'.t = r.rows
  BY <1>1, <1>3 DEF Typed
<1>5. past' = [t |-> past.t + 1, d |-> past.d] /\ past'.t = past.t + 1 /\ past'.d = past.d
  BY <1>1, <1>3 DEF Typed
<1>6. /\ text \in Seq(Token) /\ Len(text) \in Nat /\ past.t \in Nat /\ past.d \in Nat
      /\ Len(text) = past.t + 1 /\ past.d = past.t + 1 /\ Len(text) <= Len(prompt) + Predict
      /\ Len(prompt) \in Nat /\ Len(prompt) <= Len(text) /\ 0 \in Ids
  BY <1>1, <1>3, TextTyped, OptionsTyped DEF Lengths
<1>7. /\ Made \subseteq Ids /\ Picked \subseteq Made /\ 0 \in Picked
      /\ Rows(batch.t, past.t, drafts, Made, Picked)
      /\ \A s \in Made : RowsOf(batch.t, past.t, drafts, s)
      /\ \A s \in Made : drafts[s].tokens[1] = text[Len(text)]
  BY <1>1, <1>3 DEF RowsKnown, Rows
<1>8. \A s \in Ids : /\ drafts[s].active <=> s \in Picked
                     /\ s \in Picked => Len(drafts[s].rowT) = Len(drafts[s].tokens)
  BY <1>1, <1>3 DEF TreeReady
<1>9. ASSUME NEW s \in Picked
      PROVE  /\ s \in Ids /\ drafts[s].tokens \in Seq(Token) /\ Len(drafts[s].tokens) \in Nat
             /\ Len(drafts[s].tokens) > 0 /\ drafts[s].tokens[1] = text[Len(text)]
             /\ Len(drafts[s].rowT) = Len(drafts[s].tokens)
  <2>1. s \in Ids /\ s \in Made
    BY <1>7
  <2>2. drafts[s].tokens \in Seq(Token) /\ Len(drafts[s].tokens) \in Nat
    BY SMTT(60), <1>1, <2>1, BranchTyped
  <2>3. Len(drafts[s].rowT) \in 1..Len(drafts[s].tokens)
    BY <1>7, <2>1 DEF RowsOf
  <2> QED BY <1>7, <1>8, <2>1, <2>2, <2>3
<1>10. /\ drafts' \in [Ids -> Branches]
       /\ \A s \in Ids :
              /\ drafts'[s].active <=> drafts[s].active
              /\ drafts[s].active => /\ drafts'[s].tokens = Tail(drafts[s].tokens)
                                     /\ drafts'[s].rowT = drafts[s].rowT
  BY <1>1, <1>3, <1>8, <1>9, RootTaken
<1>11. Ids' = Ids /\ Live' = Picked /\ Kept' = 0
  <2>1. Live' = {s \in Ids : drafts'[s].active} \cup {0}
    BY <1>3 DEF Live, Ids
  <2> QED BY <1>3, <1>7, <1>8, <1>10, <2>1 DEF Ids, Kept
<1>12. ASSUME NEW s \in Picked
       PROVE  drafts'[s].tokens = Tail(drafts[s].tokens) /\ drafts'[s].rowT = drafts[s].rowT
  BY <1>8, <1>9, <1>10
<1>13. Owned(batch.t)
  <2>1. batch.t \in Seq(Entries)
    BY <1>1 DEF Typed
  <2>2. \A j \in 1..Len(batch.t) : EntryOf(batch.t, past.t, drafts, Picked, j)
    BY <1>7 DEF Rows
  <2> QED BY <2>1, <2>2 DEF Owned, EntryOf
<1>14. PICK R : R = Rewound
  OBVIOUS
<1>15. CellsOK(R) /\ \A f \in R : f.pos < past.t
  <2>1. Bounded(mem.t) /\ (~opt.share => \A e \in mem.t : e.pos < past.t)
    BY <1>1, <1>3 DEF Lengths, Bounded, BelowRoot
  <2> QED BY <1>1, <1>14, <2>1, RewoundCells
<1>16. /\ CellsOK(r.mem)
       /\ \A e \in r.mem : e \in R \/ \E j \in 1..Len(batch.t) : e.pos = batch.t[j].pos
  <2>1. PICK M, b, rows : M = r.mem /\ b = batch.t /\ rows = out.t
    OBVIOUS
  <2>2. Owned(b) /\ M = Decoded(R, rows, "t", b).mem
    BY <1>2, <1>13, <1>14, <2>1
  <2>3. /\ CellsOK(M)
        /\ \A e \in M : e \in R \/ \E j \in 1..Len(b) : e.pos = b[j].pos /\ e.seqs = b[j].seqs
    BY <1>15, <2>2, DecodedCells
  <2> QED BY <2>1, <2>3
<1>17. \A e \in r.mem : e.pos < Inf
  <2>1. Inf \in Nat /\ Len(prompt) + Predict + Cap <= Inf /\ Cap \in Nat /\ Predict \in Nat
    BY <1>1, TreeAssumption DEF Typed
  <2>2. ASSUME NEW j \in 1..Len(batch.t) PROVE batch.t[j].pos < Inf
    <3>1. EntryOf(batch.t, past.t, drafts, Picked, j)
      BY <1>7 DEF Rows
    <3>2. PICK s : s = batch.t[j].first
      OBVIOUS
    <3>3. PICK k \in 1..Len(drafts[s].rowT) : drafts[s].rowT[k] = j
      BY <3>1, <3>2 DEF EntryOf
    <3>4. s \in Picked /\ s \in Made
      BY <1>7, <3>1, <3>2 DEF EntryOf
    <3>5. Len(drafts[s].rowT) <= Cap + 1 /\ batch.t[j].pos = past.t + k - 1
      BY <1>7, <3>3, <3>4 DEF RowsOf
    <3>6. Len(drafts[s].rowT) \in Nat
      BY <1>9, <3>4
    <3>7. PICK p, n, l, q : /\ p = batch.t[j].pos /\ n = past.t
                            /\ l = Len(drafts[s].rowT) /\ q = Len(prompt)
      OBVIOUS
    <3>8. /\ n \in Nat /\ l \in Nat /\ q \in Nat /\ k \in 1..l /\ p = n + k - 1
          /\ l <= Cap + 1 /\ n + 1 <= q + Predict
      BY <1>6, <3>3, <3>5, <3>6, <3>7
    <3>9. q + Predict + Cap <= Inf /\ Inf \in Nat /\ Cap \in Nat /\ Predict \in Nat
      BY <2>1, <3>7
    <3>10. p < Inf
      BY ONLY SMTT(60), <3>8, <3>9
    <3> QED BY <3>7, <3>10
  <2>3. past.t < Inf
    BY <1>6, <2>1
  <2>4. \A e \in R : e.pos < Inf
    <3>1. \A e \in R : e.pos \in Nat
      BY <1>15 DEF CellsOK, CellOK
    <3> QED BY <1>6, <1>15, <2>1, <2>3, <3>1
  <2> QED BY <1>16, <2>2, <2>4
<1>18. Typed'
  <2>1. Entries' = Entries /\ Branches' = Branches
    BY <1>11 DEF Entries, Branches
  <2>2. CellsOK(mem.t)' /\ CellsOK(mem.d)'
    BY <1>1, <1>4, <1>11, <1>16 DEF Typed, CellsOK, CellOK
  <2>3. /\ mem' = [t |-> mem'.t, d |-> mem'.d] /\ out' = [t |-> out'.t, d |-> out'.d]
        /\ past' \in [t : Nat, d : Nat]
    BY <1>4, <1>5, <1>6
  <2> QED BY <1>1, <1>3, <1>10, <1>11, <2>1, <2>2, <2>3 DEF Typed
<1>19. Lengths'
  <2>1. \A e \in mem'.t \cup mem'.d : e.pos < Inf
    <3>1. \A e \in mem.d : e.pos < Inf
      BY <1>1, <1>3 DEF Lengths
    <3> QED BY <1>4, <1>17, <3>1
  <2> QED BY <1>3, <1>5, <1>6, <2>1 DEF Lengths
<1>20. Decided'
  <2>1. PICK q \in Seq(Token) :
           /\ Len(q) = past.t /\ (opt.nseq = 1 => q = SubSeq(text, 1, past.t))
           /\ \A s \in Picked :
                /\ Spells(r.mem, s, q \o drafts[s].tokens) /\ AllExact(r.mem, s)
                /\ \A k \in 1..Len(drafts[s].rowT) :
                     /\ drafts[s].rowT[k] \in DOMAIN r.rows
                     /\ r.rows[drafts[s].rowT[k]].exact
                     /\ r.rows[drafts[s].rowT[k]].toks = q \o SubSeq(drafts[s].tokens, 1, k)
    BY ZenonT(60), <1>1, <1>2, <1>3, TargetDecodes
  <2>2. PICK root, u : root = text[Len(text)] /\ u = Append(q, root)
    OBVIOUS
  <2>3. root \in Token
    <3>1. Len(text) \in 1..Len(text)
      BY <1>6
    <3> QED BY <1>6, <2>2, <3>1, ElementOfSeq
  <2>4. u \in Seq(Token) /\ Len(u) = past.t + 1 /\ u[past.t + 1] = root
    <3>1. IsAppended(u, q, root)
      BY <2>2, <2>3, Appended
    <3> QED BY <2>1, <3>1 DEF IsAppended
  <2>5. ASSUME NEW s \in Picked
        PROVE  /\ Spells(r.mem, s, u \o drafts'[s].tokens) /\ AllExact(r.mem, s)
               /\ BranchRows(r.rows, drafts'[s], u)
    <3>1. PICK z, rT : z = drafts[s].tokens /\ rT = drafts[s].rowT
      OBVIOUS
    <3>2. z \in Seq(Token) /\ Len(z) \in Nat /\ Len(z) > 0 /\ z[1] = root /\ Len(rT) = Len(z)
      BY <1>9, <2>2, <3>1
    <3>3. drafts'[s].tokens = Tail(z) /\ drafts'[s].rowT = rT
      BY <1>12, <3>1
    <3>4. Len(Tail(z)) = Len(z) - 1 /\ u \o Tail(z) = q \o z
      BY <2>2, <3>2, RootMoves
    <3>5. Spells(r.mem, s, q \o z) /\ AllExact(r.mem, s)
      BY <2>1, <3>1
    <3>6. ASSUME NEW k \in 1..Len(rT)
          PROVE  /\ rT[k] \in DOMAIN r.rows /\ r.rows[rT[k]].exact
                 /\ r.rows[rT[k]].toks = u \o SubSeq(Tail(z), 1, k - 1)
      <4>1. /\ rT[k] \in DOMAIN r.rows /\ r.rows[rT[k]].exact
            /\ r.rows[rT[k]].toks = q \o SubSeq(z, 1, k)
        BY <2>1, <3>1
      <4>2. q \o SubSeq(z, 1, k) = u \o SubSeq(Tail(z), 1, k - 1)
        BY ZenonT(60), <2>2, <3>2, RowMoves
      <4> QED BY <4>1, <4>2
    <3>7. Len(rT) = Len(Tail(z)) + 1
      BY <3>2, <3>4
    <3>8. BranchRows(r.rows, drafts'[s], u)
      BY <3>3, <3>6, <3>7 DEF BranchRows
    <3> QED BY <3>3, <3>4, <3>5, <3>8
  <2>6. opt.nseq = 1 => SubSeq(text, 1, past.t + 1) = u \o SubSeq(drafts'[keep].tokens, 1, 0)
    <3> SUFFICES ASSUME opt.nseq = 1
                 PROVE  SubSeq(text, 1, past.t + 1) = u \o SubSeq(drafts'[keep].tokens, 1, 0)
      OBVIOUS
    <3>1. past.t \in 0..(Len(text) - 1)
      BY <1>6
    <3>2. SubSeq(text, 1, past.t + 1) = Append(SubSeq(text, 1, past.t), text[past.t + 1])
      BY <1>6, <3>1, OneLonger
    <3>3. SubSeq(text, 1, past.t + 1) = u
      BY <1>6, <2>1, <2>2, <3>2
    <3>4. SubSeq(drafts'[keep].tokens, 1, 0) = << >>
      BY Nothing
    <3>5. u \o << >> = u
      BY <2>4, ConcatEmptySeq
    <3> QED BY <3>3, <3>4, <3>5
  <2>7. InTree(u)'
    <3>1. Len(u) + Kept' = past'.t /\ Len(u) > 0 /\ u[Len(u)] = text[Len(u)]
      BY <1>5, <1>6, <1>11, <2>2, <2>4
    <3> QED BY <1>3, <1>4, <1>5, <1>11, <2>5, <2>6, <3>1 DEF InTree
  <2> QED BY SMTT(60), <1>3, <2>4, <2>7 DEF Decided
<1>21. DraftWhole'
  <2> SUFFICES ASSUME ~opt.share, ~opt.prune, NEW s \in Picked
               PROVE  DraftHolds(mem'.d, s, past'.d - Kept' + Len(drafts'[s].tokens))
    BY <1>3, <1>11 DEF DraftWhole
  <2>1. DraftHolds(mem.d, s, past.t + Len(drafts[s].tokens))
    BY <1>1, <1>3, <1>7 DEF DraftWhole
  <2>2. PICK l : l = Len(drafts'[s].tokens)
    OBVIOUS
  <2>3. l = Len(drafts[s].tokens) - 1
    BY <1>9, <1>12, <2>2, RootMoves
  <2>4. past.t + Len(drafts[s].tokens) = past.d - 0 + l
    <3>1. PICK k, n, p : k = Len(drafts[s].tokens) /\ n = past.t /\ p = past.d
      OBVIOUS
    <3>2. k \in Nat /\ n \in Nat /\ p = n + 1 /\ l = k - 1
      BY <1>6, <1>9, <2>3, <3>1
    <3>3. n + k = p - 0 + l
      BY <3>2
    <3> QED BY <3>1, <3>3, Zenon
  <2> QED BY <1>4, <1>5, <1>11, <2>1, <2>2, <2>4, Zenon
<1>22. OutputInSupport'
  BY <1>1, <1>3 DEF OutputInSupport
<1>23. RowsKnown' /\ Depth' /\ TreeReady' /\ BelowRoot' /\ DraftDepth'
  BY <1>3, NotDrafting
<1> QED BY <1>18, <1>19, <1>20, <1>21, <1>22, <1>23 DEF Inv

-----------------------------------------------------------------------------
(***************************************************************************)
(* Rows when a depth is drafted: every sequence starts with the rows of    *)
(* its parent (itself, if it is not new), and may get one row more.        *)
(***************************************************************************)
SameUpTo(x, y, k) == \A i \in 1..k : x[i] = y[i]

HasRow(dr, p, j) == \E k \in 1..Len(dr[p].rowT) : dr[p].rowT[k] = j

Heir(dr, p, dr2, s) ==
  /\ Len(dr2[s].rowT) \in {Len(dr[p].rowT), Len(dr[p].rowT) + 1}
  /\ \A k \in 1..Len(dr[p].rowT) : /\ dr2[s].rowT[k] = dr[p].rowT[k]
                                   /\ dr2[s].tokens[k] = dr[p].tokens[k]
  /\ Len(dr2[s].rowT) <= Len(dr2[s].tokens) /\ Len(dr2[s].rowT) <= Cap + 1

(* Entry j of the batch is the last of the k rows of s. *)
LastRow(b, n, dr, s, k, j) ==
  /\ Len(dr[s].rowT) = k /\ dr[s].rowT[k] = j
  /\ b[j].pos = n + k - 1 /\ b[j].first = s /\ b[j].seqs = {s} /\ b[j].tok = dr[s].tokens[k]

(* Entry j stays, for the sequences S of those that have it as a row. *)
EntryStays(b, b2, dr, par, S, j) ==
  /\ b2[j].pos = b[j].pos /\ b2[j].first = b[j].first /\ b2[j].tok = b[j].tok
  /\ b2[j].seqs \subseteq S /\ \A s \in S : s \in b2[j].seqs <=> HasRow(dr, par[s], j)

NewEntries(b, n, dr, S, k, L, L2) ==
  \A j \in (L + 1)..L2 : \E s \in S : LastRow(b, n, dr, s, k, j)

(* s has the rows of p, or one more behind the first L entries. *)
Grew(b2, n, dr, p, dr2, L, L2, s) ==
  /\ Heir(dr, p, dr2, s)
  /\ \/ Len(dr2[s].rowT) = Len(dr[p].rowT)
     \/ \E j \in (L + 1)..L2 : LastRow(b2, n, dr2, s, Len(dr[p].rowT) + 1, j)

(* The first sequence of an entry has a row for it. *)
LEMMA FirstHasRow ==
  ASSUME NEW b, NEW n \in Nat, NEW dr, NEW M, NEW S, Rows(b, n, dr, M, S), NEW j \in 1..Len(b),
         \A s \in M : Len(dr[s].rowT) \in Nat
  PROVE  \E k \in 1..Len(dr[b[j].first].rowT) :
           /\ dr[b[j].first].rowT[k] = j /\ b[j].pos = n + k - 1 /\ b[j].first \in S
           /\ b[j].tok = dr[b[j].first].tokens[k]
<1>1. PICK f : f = b[j].first
  OBVIOUS
<1>2. /\ f \in b[j].seqs /\ b[j].seqs \subseteq S /\ S \subseteq M
      /\ b[j].tok = dr[f].tokens[b[j].pos - n + 1]
  BY <1>1 DEF Rows, EntryOf
<1>3. PICK k \in 1..Len(dr[f].rowT) : dr[f].rowT[k] = j
  BY <1>2 DEF Rows, EntryOf
<1>4. RowsOf(b, n, dr, f) /\ f \in M /\ f \in S
  BY <1>2 DEF Rows
<1>5. b[j].pos = n + k - 1
  BY <1>3, <1>4 DEF RowsOf
<1>6. Len(dr[f].rowT) \in Nat
  BY <1>4
<1>7. b[j].pos - n + 1 = k
  BY <1>5, <1>6
<1> QED BY <1>1, <1>2, <1>3, <1>4, <1>5, <1>7

LEMMA RowsGrow ==
  ASSUME NEW b, NEW n \in Nat, NEW dr, NEW M, NEW S, Rows(b, n, dr, M, S),
         NEW L \in Nat, L = Len(b), NEW b2, NEW L2 \in Nat, L2 = Len(b2), L <= L2,
         NEW dr2, NEW M2, NEW S2, NEW par, NEW K,
         M \subseteq M2, S \subseteq S2, S2 \subseteq M2,
         \A s \in M : par[s] = s /\ Len(dr[s].rowT) \in Nat,
         \A s \in M2 : par[s] \in M /\ Grew(b2, n, dr, par[s], dr2, L, L2, s),
         \A j \in 1..L : EntryStays(b, b2, dr, par, S2, j),
         NewEntries(b2, n, dr2, S2, K, L, L2), K \in Nat \ {0}
  PROVE  Rows(b2, n, dr2, M2, S2)
<1>1. /\ S \subseteq M /\ 0 \in S2
      /\ \A s \in M : RowsOf(b, n, dr, s)
      /\ \A s \in S : \A k \in 1..Len(dr[s].rowT) : s \in b[dr[s].rowT[k]].seqs
      /\ \A j \in 1..L : EntryOf(b, n, dr, S, j)
  BY DEF Rows
<1>2. ASSUME NEW j \in 1..L
      PROVE  \E k \in Nat : /\ b2[j].first \in S /\ b2[j].first \in M /\ b2[j].pos = n + k - 1
                            /\ k \in 1..Len(dr[b2[j].first].rowT)
                            /\ dr[b2[j].first].rowT[k] = j
                            /\ b2[j].tok = dr2[b2[j].first].tokens[k]
                            /\ SameUpTo(dr2[b2[j].first].tokens, dr[b2[j].first].tokens, k)
  <2>1. b2[j].pos = b[j].pos /\ b2[j].first = b[j].first /\ b2[j].tok = b[j].tok
    BY DEF EntryStays
  <2>2. PICK f : f = b[j].first
    OBVIOUS
  <2>3. PICK k \in 1..Len(dr[f].rowT) :
           dr[f].rowT[k] = j /\ b[j].pos = n + k - 1 /\ f \in S /\ b[j].tok = dr[f].tokens[k]
    <3>1. /\ n \in Nat /\ Rows(b, n, dr, M, S) /\ j \in 1..Len(b)
          /\ \A s \in M : Len(dr[s].rowT) \in Nat
      OBVIOUS
    <3>2. \E k \in 1..Len(dr[b[j].first].rowT) :
           /\ dr[b[j].first].rowT[k] = j /\ b[j].pos = n + k - 1 /\ b[j].first \in S
           /\ b[j].tok = dr[b[j].first].tokens[k]
      BY ONLY <3>1, FirstHasRow
    <3> QED BY <2>2, <3>2, Zenon
  <2>4. f \in M /\ f \in M2 /\ par[f] = f /\ Len(dr[f].rowT) \in Nat
    BY <1>1, <2>3
  <2>5. Heir(dr, f, dr2, f)
    BY <2>4 DEF Grew
  <2>6. k \in Nat /\ \A i \in 1..k : i \in 1..Len(dr[f].rowT)
    BY <2>4
  <2>7. SameUpTo(dr2[f].tokens, dr[f].tokens, k)
    BY <2>5, <2>6 DEF Heir, SameUpTo
  <2>8. dr2[f].tokens[k] = dr[f].tokens[k]
    <3>1. k \in 1..k
      BY SMTT(60), <2>3, <2>4
    <3> QED BY <2>7, <3>1 DEF SameUpTo
  <2> QED BY <2>1, <2>2, <2>3, <2>4, <2>6, <2>7, <2>8, Zenon
<1>3. ASSUME NEW s \in M2, NEW p, p = par[s], NEW k \in 1..Len(dr[p].rowT)
      PROVE  /\ dr2[s].rowT[k] = dr[p].rowT[k] /\ dr2[s].rowT[k] \in 1..L
             /\ b2[dr2[s].rowT[k]].pos = n + k - 1
             /\ SameUpTo(dr2[s].tokens, dr2[b2[dr2[s].rowT[k]].first].tokens, k)
  <2>1. p \in M /\ Heir(dr, p, dr2, s) /\ RowsOf(b, n, dr, p) /\ Len(dr[p].rowT) \in Nat
    BY <1>1, <1>3 DEF Grew
  <2>2. PICK j : j = dr[p].rowT[k]
    BY SMTT(60)
  <2>3. /\ dr2[s].rowT[k] = j /\ j \in 1..L /\ b[j].pos = n + k - 1
        /\ \A i \in 1..k : dr[p].tokens[i] = dr[b[j].first].tokens[i]
    BY <2>1, <2>2 DEF Heir, RowsOf
  <2>4. b2[j].pos = b[j].pos /\ b2[j].first = b[j].first
    BY <2>3 DEF EntryStays
  <2>5. PICK l \in Nat : /\ b2[j].pos = n + l - 1
                         /\ SameUpTo(dr2[b2[j].first].tokens, dr[b2[j].first].tokens, l)
    BY <1>2, <2>3
  <2>6. l = k
    BY <2>1, <2>3, <2>4, <2>5
  <2>7. \A i \in 1..k : i \in 1..Len(dr[p].rowT)
    BY <2>1
  <2>8. \A i \in 1..k : dr2[s].tokens[i] = dr[p].tokens[i]
    BY <2>1, <2>7 DEF Heir
  <2>9. PICK f : f = b[j].first
    OBVIOUS
  <2>10. SameUpTo(dr2[s].tokens, dr2[f].tokens, k)
    <3>1. SameUpTo(dr2[f].tokens, dr[f].tokens, k)
      BY <2>4, <2>5, <2>6, <2>9
    <3> QED BY <2>3, <2>8, <2>9, <3>1 DEF SameUpTo
  <2> QED BY ZenonT(30), <2>2, <2>3, <2>4, <2>9, <2>10
<1>4. ASSUME NEW s \in M2, NEW p, p = par[s], NEW l, l = Len(dr[p].rowT),
             Len(dr2[s].rowT) # l
      PROVE  /\ Len(dr2[s].rowT) = l + 1 /\ l \in Nat
             /\ \E j \in (L + 1)..L2 : LastRow(b2, n, dr2, s, l + 1, j)
  BY <1>4 DEF Heir, Grew
<1>5. ASSUME NEW s \in M2 PROVE RowsOf(b2, n, dr2, s)
  <2>1. PICK p, l : p = par[s] /\ l = Len(dr[p].rowT)
    OBVIOUS
  <2>2. p \in M /\ Heir(dr, p, dr2, s) /\ RowsOf(b, n, dr, p) /\ l \in Nat
    BY <1>1, <2>1 DEF Grew
  <2>3. PICK l2 : l2 = Len(dr2[s].rowT)
    OBVIOUS
  <2>4. l2 \in {l, l + 1} /\ l2 <= Len(dr2[s].tokens) /\ l2 <= Cap + 1
    BY <2>1, <2>2, <2>3 DEF Heir
  <2>5. l >= 1
    BY <2>1, <2>2 DEF RowsOf
  <2>6. l2 \in 1..Len(dr2[s].tokens)
    BY <2>2, <2>4, <2>5
  <2>7. ASSUME NEW k \in 1..l2
        PROVE  /\ dr2[s].rowT[k] \in 1..L2
               /\ b2[dr2[s].rowT[k]].pos = n + k - 1
               /\ SameUpTo(dr2[s].tokens, dr2[b2[dr2[s].rowT[k]].first].tokens, k)
    <3>1. CASE k \in 1..l
      <4>1. dr2[s].rowT[k] \in 1..L
        BY <1>3, <2>1, <3>1
      <4>2. dr2[s].rowT[k] \in 1..L2
        BY <4>1
      <4> QED BY <1>3, <2>1, <3>1, <4>2
    <3>2. CASE k \notin 1..l
      <4>1. l2 = l + 1 /\ k = l + 1 /\ l2 # l
        BY <2>2, <2>4, <3>2
      <4>2. PICK j \in (L + 1)..L2 : LastRow(b2, n, dr2, s, l + 1, j)
        BY <1>4, <2>1, <2>3, <4>1
      <4>3. dr2[s].rowT[k] = j /\ b2[j].pos = n + k - 1 /\ b2[j].first = s
        BY <4>1, <4>2 DEF LastRow
      <4>4. j \in 1..L2
        OBVIOUS
      <4> QED BY <4>3, <4>4 DEF SameUpTo
    <3> QED BY <3>1, <3>2
  <2>8. ASSUME NEW k \in 1..l2, NEW i \in 1..l2, k < i PROVE dr2[s].rowT[k] < dr2[s].rowT[i]
    <3>1. k \in 1..l
      BY <2>2, <2>4, <2>8
    <3>2. dr2[s].rowT[k] = dr[p].rowT[k] /\ dr2[s].rowT[k] \in 1..L
      <4>1. k \in 1..Len(dr[p].rowT) /\ p = par[s]
        BY <2>1, <3>1
      <4> QED BY SMTT(60), <1>3, <4>1
    <3>3. CASE i \in 1..l
      <4>1. dr2[s].rowT[i] = dr[p].rowT[i]
        <5>1. i \in 1..Len(dr[p].rowT) /\ p = par[s]
          BY <2>1, <3>3
        <5> QED BY SMTT(60), <1>3, <5>1
      <4>2. dr[p].rowT[k] < dr[p].rowT[i]
        BY <2>1, <2>2, <2>8, <3>1, <3>3 DEF RowsOf
      <4> QED BY <3>2, <4>1, <4>2
    <3>4. CASE i \notin 1..l
      <4>1. l2 = l + 1 /\ i = l + 1 /\ l2 # l
        BY <2>2, <2>4, <3>4
      <4>2. PICK j \in (L + 1)..L2 : LastRow(b2, n, dr2, s, l + 1, j)
        BY <1>4, <2>1, <2>3, <4>1
      <4>3. dr2[s].rowT[i] = j
        BY <4>1, <4>2 DEF LastRow
      <4> QED BY <3>2, <4>3
    <3> QED BY <3>3, <3>4
  <2> QED BY <2>3, <2>4, <2>6, <2>7, <2>8 DEF RowsOf, SameUpTo
<1>6. ASSUME NEW s \in S2, NEW k \in 1..Len(dr2[s].rowT) PROVE s \in b2[dr2[s].rowT[k]].seqs
  <2>1. PICK p, l : p = par[s] /\ l = Len(dr[p].rowT)
    OBVIOUS
  <2>2. s \in M2 /\ p \in M /\ Heir(dr, p, dr2, s) /\ l \in Nat
    BY <2>1 DEF Grew
  <2>3. CASE k \in 1..l
    <3>1. PICK j : j = dr[p].rowT[k]
      OBVIOUS
    <3>2. dr2[s].rowT[k] = j /\ j \in 1..L
      <4>1. k \in 1..Len(dr[p].rowT) /\ p = par[s] /\ s \in M2
        BY <2>1, <2>2, <2>3
      <4>2. dr2[s].rowT[k] = dr[p].rowT[k] /\ dr2[s].rowT[k] \in 1..L
        BY <1>3, <4>1
      <4> QED BY <3>1, <4>2
    <3>3. HasRow(dr, p, j)
      BY <2>1, <2>3, <3>1 DEF HasRow
    <3>4. EntryStays(b, b2, dr, par, S2, j)
      BY <3>2
    <3> QED BY <2>1, <3>2, <3>3, <3>4 DEF EntryStays
  <2>4. CASE k \notin 1..l
    <3>1. Len(dr2[s].rowT) \in {l, l + 1}
      BY <2>1, <2>2 DEF Heir
    <3>2. Len(dr2[s].rowT) # l /\ k = l + 1
      BY <2>2, <2>4, <3>1
    <3>3. PICK j \in (L + 1)..L2 : LastRow(b2, n, dr2, s, l + 1, j)
      BY <1>4, <2>1, <2>2, <3>2
    <3> QED BY <3>2, <3>3 DEF LastRow
  <2> QED BY <2>3, <2>4
<1>7. ASSUME NEW j \in 1..L2 PROVE EntryOf(b2, n, dr2, S2, j)
  <2>1. CASE j \in 1..L
    <3>1. PICK f : f = b2[j].first
      OBVIOUS
    <3>2. PICK k \in Nat : /\ f \in S /\ f \in M /\ b2[j].pos = n + k - 1
                           /\ k \in 1..Len(dr[f].rowT) /\ dr[f].rowT[k] = j
                           /\ b2[j].tok = dr2[f].tokens[k]
      BY <1>2, <2>1, <3>1
    <3>3. /\ b2[j].seqs \subseteq S2 /\ \A s \in S2 : s \in b2[j].seqs <=> HasRow(dr, par[s], j)
      BY <2>1 DEF EntryStays
    <3>4. f \in b2[j].seqs
      BY <3>2, <3>3 DEF HasRow
    <3>5. b2[j].tok = dr2[f].tokens[b2[j].pos - n + 1]
      <4>1. b2[j].pos - n + 1 = k
        BY <3>2
      <4> QED BY <3>2, <4>1
    <3>6. ASSUME NEW s \in b2[j].seqs PROVE \E i \in 1..Len(dr2[s].rowT) : dr2[s].rowT[i] = j
      <4>1. PICK p, l : p = par[s] /\ l = Len(dr[p].rowT)
        OBVIOUS
      <4>2. s \in M2 /\ p \in M /\ Heir(dr, p, dr2, s) /\ l \in Nat /\ HasRow(dr, p, j)
        BY <3>3, <4>1 DEF Grew
      <4>3. PICK i \in 1..l : dr[p].rowT[i] = j
        BY <4>1, <4>2 DEF HasRow
      <4>4. dr2[s].rowT[i] = j
        BY SMTT(60), <1>3, <4>1, <4>2, <4>3
      <4>5. Len(dr2[s].rowT) \in {l, l + 1}
        BY <4>1, <4>2 DEF Heir
      <4>6. i \in 1..Len(dr2[s].rowT)
        BY <4>2, <4>5
      <4> QED BY <4>4, <4>6
    <3> QED BY <3>1, <3>3, <3>4, <3>5, <3>6 DEF EntryOf
  <2>2. CASE j \notin 1..L
    <3>1. j \in (L + 1)..L2
      BY <2>2
    <3>2. PICK s \in S2 : LastRow(b2, n, dr2, s, K, j)
      BY <3>1 DEF NewEntries
    <3>3. /\ Len(dr2[s].rowT) = K /\ dr2[s].rowT[K] = j /\ b2[j].pos = n + K - 1
          /\ b2[j].first = s /\ b2[j].seqs = {s} /\ b2[j].tok = dr2[s].tokens[K]
      BY <3>2 DEF LastRow
    <3>4. b2[j].pos - n + 1 = K /\ K \in 1..K
      BY <3>3
    <3> QED BY <3>3, <3>4 DEF EntryOf
  <2> QED BY <2>1, <2>2
<1> QED BY <1>1, <1>5, <1>6, <1>7 DEF Rows

-----------------------------------------------------------------------------
(***************************************************************************)
(* Pruning: the sequences sel of a depth are kept.                         *)
(***************************************************************************)
Selected(sel, picked, dropped, fresh, shared, added, m) ==
  /\ picked = {sel[i] : i \in DOMAIN sel}
  /\ dropped = (Proposed \ picked) \cap chosen.seqs
  /\ fresh = picked \ chosen.seqs
  /\ shared = [i \in DOMAIN batch.t |->
                 [batch.t[i] EXCEPT !.seqs =
                    @ \cup {s \in fresh : \E k \in DOMAIN drafts[s].rowT :
                                            drafts[s].rowT[k] = i}]]
  /\ added = [i \in DOMAIN sel |->
                Entry(drafts[sel[i]].tokens[Len(drafts[sel[i]].tokens)], past.t + step + 1,
                      sel[i], {sel[i]})]
  /\ m = {[e EXCEPT !.seqs = IF e.pos >= past.d + step THEN @ \ dropped ELSE @] : e \in mem[Dft]}

SelectedBranches(sel, picked, dropped) ==
  [s \in Ids |->
     [active   |-> s \in chosen.seqs \cup picked,
      drafting |-> s \in picked,
      tokens   |-> IF s \in dropped THEN TakenBack(drafts[s].tokens) ELSE drafts[s].tokens,
      rowT     |-> IF s \in picked
                   THEN Append(drafts[s].rowT,
                               Len(batch.t) + CHOOSE i \in DOMAIN sel : sel[i] = s)
                   ELSE drafts[s].rowT,
      rowD     |-> drafts[s].rowD]]

LEMMA SelectIs ==
  ASSUME Select
  PROVE  /\ pc = "draft" /\ todo = {} /\ opt.prune
         /\ opt' = opt /\ prompt' = prompt /\ text' = text /\ past' = past
         /\ keep' = keep /\ scanned' = scanned /\ open' = open /\ seen' = seen
         /\ ndraft' = ndraft /\ nseq' = nseq
         /\ \E sel \in UNION {[1..k -> Proposed] : k \in 0..Cardinality(Proposed)} :
              \E picked, dropped, fresh, shared, added, m :
                /\ Distinct(sel) /\ Selected(sel, picked, dropped, fresh, shared, added, m)
                /\ drafts' = SelectedBranches(sel, picked, dropped)
                /\ chosen' = [seqs |-> chosen.seqs \cup picked, nodes |-> chosen.nodes + Len(sel)]
                /\ batch' = [t |-> shared \o added, d |-> << >>]
                /\ \/ /\ pc' = "target" /\ mem' = [mem EXCEPT ![Dft] = Held(m)]
                      /\ UNCHANGED << out, step, todo >>
                   \/ picked # {} /\ NextDepth(Held(m), picked)
<1>1. /\ pc = "draft" /\ todo = {} /\ opt.prune
      /\ opt' = opt /\ prompt' = prompt /\ text' = text /\ past' = past
      /\ keep' = keep /\ scanned' = scanned /\ open' = open /\ seen' = seen
      /\ ndraft' = ndraft /\ nseq' = nseq
  BY DEF Select
<1>2. \E sel \in UNION {[1..k -> Proposed] : k \in 0..Cardinality(Proposed)} :
              \E picked, dropped, fresh, shared, added, m :
                /\ Distinct(sel) /\ Selected(sel, picked, dropped, fresh, shared, added, m)
                /\ drafts' = SelectedBranches(sel, picked, dropped)
                /\ chosen' = [seqs |-> chosen.seqs \cup picked, nodes |-> chosen.nodes + Len(sel)]
                /\ batch' = [t |-> shared \o added, d |-> << >>]
                /\ \/ /\ pc' = "target" /\ mem' = [mem EXCEPT ![Dft] = Held(m)]
                      /\ UNCHANGED << out, step, todo >>
                   \/ picked # {} /\ NextDepth(Held(m), picked)
  <2> DEFINE P(sel)      == {sel[i] : i \in DOMAIN sel}
             Drop(sel)   == (Proposed \ P(sel)) \cap chosen.seqs
             Fresh(sel)  == P(sel) \ chosen.seqs
             Shared(sel) == [i \in DOMAIN batch.t |->
                               [batch.t[i] EXCEPT !.seqs =
                                  @ \cup {s \in Fresh(sel) : \E k \in DOMAIN drafts[s].rowT :
                                                               drafts[s].rowT[k] = i}]]
             Added(sel)  == [i \in DOMAIN sel |->
                               Entry(drafts[sel[i]].tokens[Len(drafts[sel[i]].tokens)],
                                     past.t + step + 1, sel[i], {sel[i]})]
             Cut(sel)    == {[e EXCEPT !.seqs = IF e.pos >= past.d + step
                                                THEN @ \ Drop(sel) ELSE @] : e \in mem[Dft]}
  <2>1. \E sel \in UNION {[1..k -> Proposed] : k \in 0..Cardinality(Proposed)} :
          /\ Distinct(sel)
          /\ drafts' = SelectedBranches(sel, P(sel), Drop(sel))
          /\ chosen' = [seqs |-> chosen.seqs \cup P(sel), nodes |-> chosen.nodes + Len(sel)]
          /\ batch' = [t |-> Shared(sel) \o Added(sel), d |-> << >>]
          /\ \/ /\ pc' = "target" /\ mem' = [mem EXCEPT ![Dft] = Held(Cut(sel))]
                /\ UNCHANGED << out, step, todo >>
             \/ P(sel) # {} /\ NextDepth(Held(Cut(sel)), P(sel))
    BY Zenon DEF Select, SelectedBranches
  <2>2. ASSUME NEW sel
        PROVE  Selected(sel, P(sel), Drop(sel), Fresh(sel), Shared(sel), Added(sel), Cut(sel))
    BY Zenon DEF Selected
  <2> HIDE DEF P, Drop, Fresh, Shared, Added, Cut
  <2> QED BY <2>1, <2>2, Zenon
<1> QED BY <1>1, <1>2

(* Batches that are joined. *)
Joined(w, a, L, c, K) ==
  /\ Len(w) = L + K /\ \A j \in 1..L : w[j] = a[j]
  /\ \A i \in 1..K : w[L + i] = c[i]

LEMMA BatchJoined ==
  ASSUME NEW a \in Seq(Entries), NEW c \in Seq(Entries), NEW w, w = a \o c,
         NEW L, L = Len(a), NEW K, K = Len(c)
  PROVE  w \in Seq(Entries) /\ Joined(w, a, L, c, K) /\ L \in Nat /\ K \in Nat
<1>1. L \in Nat /\ K \in Nat
  OBVIOUS
<1>2. /\ w \in Seq(Entries) /\ Len(w) = L + K
      /\ \A i \in 1..(L + K) : w[i] = IF i <= L THEN a[i] ELSE c[i - L]
  BY ConcatProperties
<1>3. ASSUME NEW i \in 1..K PROVE w[L + i] = c[i]
  <2>1. L + i \in 1..(L + K) /\ ~(L + i <= L) /\ (L + i) - L = i
    BY <1>1
  <2> QED BY <1>2, <2>1
<1>4. ASSUME NEW j \in 1..L PROVE w[j] = a[j]
  <2>1. j \in 1..(L + K) /\ j <= L
    BY <1>1
  <2> QED BY <1>2, <2>1
<1> QED BY <1>1, <1>2, <1>3, <1>4 DEF Joined

(* The entries of b, with the sequences X[j] added to entry j. *)
Widened(w, b, X) ==
  /\ w \in Seq(Entries) /\ Len(w) = Len(b)
  /\ \A j \in 1..Len(b) : /\ w[j].pos = b[j].pos /\ w[j].first = b[j].first /\ w[j].tok = b[j].tok
                          /\ w[j].seqs = b[j].seqs \cup X[j]

LEMMA BatchWidened ==
  ASSUME NEW b \in Seq(Entries), NEW X, \A j \in 1..Len(b) : X[j] \subseteq Ids,
         NEW w, w = [j \in 1..Len(b) |-> [b[j] EXCEPT !.seqs = @ \cup X[j]]]
  PROVE  Widened(w, b, X)
<1>1. PICK L : L = Len(b)
  OBVIOUS
<1>2. L \in Nat /\ \A j \in 1..L : b[j] \in Entries
  BY <1>1, ElementOfSeq
<1>3. ASSUME NEW j \in 1..L
      PROVE  /\ w[j] \in Entries
             /\ w[j].pos = b[j].pos /\ w[j].first = b[j].first /\ w[j].tok = b[j].tok
             /\ w[j].seqs = b[j].seqs \cup X[j]
  <2>1. PICK e, f, Y : e = b[j] /\ f = w[j] /\ Y = X[j]
    OBVIOUS
  <2>2. e \in Entries /\ Y \in SUBSET Ids /\ f = [e EXCEPT !.seqs = @ \cup Y]
    BY <1>1, <1>2, <2>1
  <2>3. /\ f \in Entries /\ f.pos = e.pos /\ f.first = e.first /\ f.tok = e.tok
        /\ f.seqs = e.seqs \cup Y
    BY <2>2 DEF Entries
  <2> QED BY <2>1, <2>3
<1>4. w \in [1..L -> Entries]
  BY <1>1, <1>3
<1>5. w \in Seq(Entries) /\ Len(w) = L
  BY <1>2, <1>4
<1> QED BY <1>1, <1>3, <1>5 DEF Widened

LEMMA SelectedIn ==
  ASSUME NEW sel \in UNION {[1..k -> Proposed] : k \in 0..Cardinality(Proposed)},
         NEW picked, picked = {sel[i] : i \in DOMAIN sel}
  PROVE  /\ sel \in Seq(Proposed) /\ Len(sel) \in Nat /\ DOMAIN sel = 1..Len(sel)
         /\ picked \subseteq Proposed
         /\ \A s : s \in picked <=> \E i \in 1..Len(sel) : sel[i] = s
<1>1. PICK k \in 0..Cardinality(Proposed) : sel \in [1..k -> Proposed]
  OBVIOUS
<1>2. k \in Nat
  BY <1>1
<1>3. sel \in Seq(Proposed) /\ Len(sel) = k
  BY <1>1, <1>2
<1>4. DOMAIN sel = 1..k
  BY <1>1
<1>5. \A i \in 1..k : sel[i] \in Proposed
  BY <1>1
<1> QED BY <1>2, <1>3, <1>4, <1>5

BatchSelected(b2, b, L, dr, fresh, sel, K, n, k) ==
  /\ b2 \in Seq(Entries) /\ Len(b2) = L + K
  /\ \A j \in 1..L : /\ b2[j].pos = b[j].pos /\ b2[j].first = b[j].first /\ b2[j].tok = b[j].tok
                     /\ \A s : s \in b2[j].seqs <=> \/ s \in b[j].seqs
                                                    \/ s \in fresh /\ HasRow(dr, s, j)
  /\ \A i \in 1..K : /\ b2[L + i].pos = n + k + 1
                     /\ b2[L + i].first = sel[i] /\ b2[L + i].seqs = {sel[i]}
                     /\ b2[L + i].tok = dr[sel[i]].tokens[k + 2]

LEMMA SelectedBatch ==
  ASSUME Typed, Lengths, Depth, RowsKnown, pc = "draft", opt.prune,
         NEW sel, NEW picked, NEW dropped, NEW fresh, NEW shared, NEW added, NEW m,
         Selected(sel, picked, dropped, fresh, shared, added, m),
         sel \in UNION {[1..k -> Proposed] : k \in 0..Cardinality(Proposed)},
         NEW b2, b2 = shared \o added
  PROVE  BatchSelected(b2, batch.t, Len(batch.t), drafts, fresh, sel, Len(sel), past.t, step)
<1>1. PICK b, L, K : b = batch.t /\ L = Len(b) /\ K = Len(sel)
  OBVIOUS
<1>2. b \in Seq(Entries) /\ L \in Nat /\ DOMAIN b = 1..L
  BY SMTT(60), <1>1, LenProperties DEF Typed
<1>3. picked = {sel[i] : i \in DOMAIN sel} /\ fresh \subseteq picked
  BY DEF Selected
<1>4. /\ sel \in Seq(Proposed) /\ K \in Nat /\ DOMAIN sel = 1..K /\ picked \subseteq Proposed
      /\ \A i \in 1..K : sel[i] \in Proposed
  BY <1>1, <1>3, SelectedIn, ElementOfSeq
<1>5. Proposed \subseteq Made /\ Made \subseteq Ids
      /\ \A s \in Proposed : Len(drafts[s].tokens) = step + 2
  BY DEF Depth, RowsKnown
<1>6. PICK X : X = [j \in 1..L |-> {s \in fresh : \E k \in DOMAIN drafts[s].rowT :
                                                    drafts[s].rowT[k] = j}]
  OBVIOUS
<1>7. ASSUME NEW j \in 1..L
      PROVE  X[j] \subseteq Ids /\ \A s : s \in X[j] <=> (s \in fresh /\ HasRow(drafts, s, j))
  <2>1. X[j] = {s \in fresh : \E k \in DOMAIN drafts[s].rowT : drafts[s].rowT[k] = j}
    BY <1>6
  <2>2. fresh \subseteq Ids
    BY <1>3, <1>4, <1>5
  <2>3. \A s \in fresh : DOMAIN drafts[s].rowT = 1..Len(drafts[s].rowT)
    BY <2>2, BranchTyped
  <2> QED BY <2>1, <2>2, <2>3 DEF HasRow
<1>8. shared = [j \in 1..Len(b) |-> [b[j] EXCEPT !.seqs = @ \cup X[j]]]
  <2>1. shared = [i \in DOMAIN b |->
                 [b[i] EXCEPT !.seqs =
                    @ \cup {s \in fresh : \E k \in DOMAIN drafts[s].rowT :
                                            drafts[s].rowT[k] = i}]]
    BY <1>1, Zenon DEF Selected
  <2>2. \A i \in 1..L : X[i] = {s \in fresh : \E k \in DOMAIN drafts[s].rowT :
                                                   drafts[s].rowT[k] = i}
    BY <1>6
  <2> QED BY <1>1, <1>2, <2>1, <2>2
<1>9. Widened(shared, b, X)
  BY <1>1, <1>2, <1>7, <1>8, BatchWidened
<1>10. ASSUME NEW i \in 1..K
       PROVE  /\ added[i] \in Entries /\ added[i].pos = past.t + step + 1
              /\ added[i].first = sel[i] /\ added[i].seqs = {sel[i]}
              /\ added[i].tok = drafts[sel[i]].tokens[step + 2]
  <2>1. PICK s, t, e, p : /\ s = sel[i] /\ t = drafts[s].tokens[Len(drafts[s].tokens)]
                          /\ e = added[i] /\ p = past.t + step + 1
    OBVIOUS
  <2>2. e = Entry(t, p, s, {s})
    BY ZenonT(30), <1>4, <2>1 DEF Selected
  <2>3. s \in Proposed /\ s \in Ids /\ Len(drafts[s].tokens) = step + 2
    BY <1>4, <1>5, <2>1
  <2>4. t = drafts[s].tokens[step + 2] /\ t \in Token
    <3>1. step \in Nat /\ drafts[s].tokens \in Seq(Token)
      BY <2>3, BranchTyped DEF Typed
    <3>2. step + 2 \in 1..Len(drafts[s].tokens)
      BY <2>3, <3>1
    <3> QED BY <2>1, <2>3, <3>1, <3>2, ElementOfSeq
  <2>5. p \in Nat
    BY SMTT(60), <2>1, DepthBelowInf
  <2>6. {s} \subseteq Ids
    BY <2>3
  <2> QED BY SMTT(60), <2>1, <2>2, <2>3, <2>4, <2>5, <2>6, EntryIs
<1>11. added \in Seq(Entries) /\ Len(added) = K
  <2>1. DOMAIN added = 1..K /\ added = [i \in 1..K |-> added[i]]
    BY ZenonT(30), <1>4 DEF Selected
  <2>2. added \in [1..K -> Entries]
    BY <1>10, <2>1
  <2>3. K \in Nat
    BY <1>4
  <2> QED BY <2>2, <2>3
<1>12. b2 \in Seq(Entries) /\ Joined(b2, shared, L, added, K)
  <2>1. shared \in Seq(Entries) /\ Len(shared) = L
    BY <1>1, <1>9 DEF Widened
  <2> QED BY <1>11, <2>1, BatchJoined
<1>13. ASSUME NEW j \in 1..L
       PROVE  /\ b2[j].pos = b[j].pos /\ b2[j].first = b[j].first /\ b2[j].tok = b[j].tok
              /\ \A s : s \in b2[j].seqs <=> \/ s \in b[j].seqs
                                             \/ s \in fresh /\ HasRow(drafts, s, j)
  <2>1. b2[j] = shared[j]
    BY <1>12 DEF Joined
  <2>2. /\ shared[j].pos = b[j].pos /\ shared[j].first = b[j].first /\ shared[j].tok = b[j].tok
        /\ shared[j].seqs = b[j].seqs \cup X[j]
    BY <1>1, <1>9 DEF Widened
  <2> QED BY <1>7, <2>1, <2>2
<1>14. ASSUME NEW i \in 1..K
       PROVE  /\ b2[L + i].pos = past.t + step + 1
              /\ b2[L + i].first = sel[i] /\ b2[L + i].seqs = {sel[i]}
              /\ b2[L + i].tok = drafts[sel[i]].tokens[step + 2]
  <2>1. b2[L + i] = added[i]
    BY <1>12 DEF Joined
  <2> QED BY <1>10, <2>1, Zenon
<1>15. Len(b2) = L + K
  BY <1>12 DEF Joined
<1> QED BY <1>1, <1>12, <1>13, <1>14, <1>15, Zenon DEF BatchSelected

LEMMA LastIndex ==
  ASSUME NEW sel, NEW K \in Nat, DOMAIN sel = 1..K, Distinct(sel), NEW i \in 1..K
  PROVE  (CHOOSE j \in DOMAIN sel : sel[j] = sel[i]) = i
<1>1. PICK j : j = CHOOSE x \in DOMAIN sel : sel[x] = sel[i]
  OBVIOUS
<1>2. j \in DOMAIN sel /\ sel[j] = sel[i]
  BY <1>1
<1>3. j = i
  BY <1>2 DEF Distinct
<1> QED BY <1>1, <1>3

(* A branch whose last token is taken back keeps the others. *)
LEMMA TakenBackIs ==
  ASSUME NEW q \in Seq(Token), NEW k \in Nat, Len(q) = k + 2, NEW w, w = TakenBack(q)
  PROVE  w \in Seq(Token) /\ Len(w) = k + 1 /\ \A i \in 1..(k + 1) : w[i] = q[i]
<1>1. Len(q) - 1 = k + 1 /\ k + 1 \in 0..Len(q)
  OBVIOUS
<1>2. w = SubSeq(q, 1, k + 1)
  BY <1>1 DEF TakenBack
<1> QED BY <1>1, <1>2, FirstPart

LEMMA SelectedDrafts ==
  ASSUME Typed, Depth, RowsKnown, pc = "draft", opt.prune,
         NEW sel, NEW picked, NEW dropped, NEW fresh, NEW shared, NEW added, NEW m,
         Selected(sel, picked, dropped, fresh, shared, added, m), Distinct(sel),
         sel \in UNION {[1..k -> Proposed] : k \in 0..Cardinality(Proposed)},
         NEW dr2, dr2 = SelectedBranches(sel, picked, dropped)
  PROVE  /\ dr2 \in [Ids -> Branches]
         /\ \A s \in Ids : /\ dr2[s].active <=> s \in chosen.seqs \cup picked
                           /\ dr2[s].rowD = drafts[s].rowD
                           /\ s \in dropped => dr2[s].tokens = TakenBack(drafts[s].tokens)
                           /\ s \notin dropped => dr2[s].tokens = drafts[s].tokens
                           /\ s \notin picked => dr2[s].rowT = drafts[s].rowT
         /\ \A i \in 1..Len(sel) :
              dr2[sel[i]].rowT = Append(drafts[sel[i]].rowT, Len(batch.t) + i)
<1>1. PICK L, K : L = Len(batch.t) /\ K = Len(sel)
  OBVIOUS
<1>2. L \in Nat /\ step \in Nat
  BY <1>1 DEF Typed
<1>3. /\ picked = {sel[i] : i \in DOMAIN sel} /\ dropped \subseteq Proposed
  BY DEF Selected
<1>4. /\ sel \in Seq(Proposed) /\ K \in Nat /\ DOMAIN sel = 1..K /\ picked \subseteq Proposed
      /\ \A s : s \in picked <=> \E i \in 1..K : sel[i] = s
  BY <1>1, <1>3, SelectedIn
<1>5. Proposed \subseteq Ids /\ \A s \in Proposed : Len(drafts[s].tokens) = step + 2
  BY DEF Depth, RowsKnown
<1>6. DOMAIN dr2 = Ids /\ dr2 = [s \in Ids |-> dr2[s]]
  BY DEF SelectedBranches
<1>7. ASSUME NEW i \in 1..K
      PROVE  (CHOOSE j \in DOMAIN sel : sel[j] = sel[i]) = i
  BY <1>4, LastIndex
<1>8. ASSUME NEW s \in Ids
      PROVE  /\ dr2[s] \in Branches
             /\ dr2[s].active <=> s \in chosen.seqs \cup picked
             /\ dr2[s].rowD = drafts[s].rowD
             /\ s \in dropped => dr2[s].tokens = TakenBack(drafts[s].tokens)
             /\ s \notin dropped => dr2[s].tokens = drafts[s].tokens
             /\ s \notin picked => dr2[s].rowT = drafts[s].rowT
             /\ \A i \in 1..K : s = sel[i] => dr2[s].rowT = Append(drafts[s].rowT, L + i)
  <2>1. PICK a, f : a = (s \in chosen.seqs \cup picked) /\ f = (s \in picked)
    BY Zenon
  <2>2. a \in BOOLEAN /\ f \in BOOLEAN
    <3>1. \A x, S : (x \in S) \in BOOLEAN
      OBVIOUS
    <3> QED BY <2>1, <3>1, Zenon
  <2>30. PICK ch : ch = CHOOSE i \in DOMAIN sel : sel[i] = s
    OBVIOUS
  <2>3. PICK tk, rt, rd :
          /\ tk = (IF s \in dropped THEN TakenBack(drafts[s].tokens) ELSE drafts[s].tokens)
          /\ rt = (IF s \in picked
                   THEN Append(drafts[s].rowT, L + ch) ELSE drafts[s].rowT)
          /\ rd = drafts[s].rowD
    OBVIOUS
  <2>4. dr2[s] = [active |-> a, drafting |-> f, tokens |-> tk, rowT |-> rt, rowD |-> rd]
    <3>1. dr2[s] = [active   |-> s \in chosen.seqs \cup picked,
                    drafting |-> s \in picked,
                    tokens   |-> IF s \in dropped THEN TakenBack(drafts[s].tokens)
                                 ELSE drafts[s].tokens,
                    rowT     |-> IF s \in picked
                                 THEN Append(drafts[s].rowT,
                                             Len(batch.t) + CHOOSE i \in DOMAIN sel : sel[i] = s)
                                 ELSE drafts[s].rowT,
                    rowD     |-> drafts[s].rowD]
      BY Zenon DEF SelectedBranches
    <3> QED BY <1>1, <2>1, <2>30, <2>3, <3>1, Zenon
  <2>5. drafts[s].tokens \in Seq(Token) /\ drafts[s].rowT \in Seq(Nat) /\ rd \in Nat
    BY <2>3, BranchTyped
  <2>6. tk \in Seq(Token)
    <3>1. CASE s \in dropped
      <4>1. Len(drafts[s].tokens) = step + 2 /\ tk = TakenBack(drafts[s].tokens)
        BY <1>3, <1>5, <2>3, <3>1
      <4> QED BY <1>2, <2>5, <4>1, TakenBackIs
    <3>2. CASE s \notin dropped
      BY <2>3, <2>5, <3>2
    <3> QED BY <3>1, <3>2
  <2>7. ASSUME NEW i \in 1..K, s = sel[i] PROVE rt = Append(drafts[s].rowT, L + i)
    <3>1. s \in picked
      BY <1>4, <2>7
    <3>2. ch = i
      BY <1>7, <2>7, <2>30
    <3> QED BY <2>3, <3>1, <3>2
  <2>8. rt \in Seq(Nat)
    <3>1. CASE s \in picked
      <4>1. PICK i \in 1..K : s = sel[i]
        BY <1>4, <3>1
      <4>2. L + i \in Nat /\ i \in 1..K
        BY <1>2, <1>4
      <4>3. PICK x, y : x = L + i /\ y = drafts[s].rowT
        OBVIOUS
      <4>4. x \in Nat /\ y \in Seq(Nat) /\ rt = Append(y, x)
        BY <2>5, <2>7, <4>1, <4>2, <4>3
      <4> QED BY <4>4, AppendProperties
    <3>2. CASE s \notin picked
      BY <2>3, <2>5, <3>2
    <3> QED BY <3>1, <3>2
  <2>9. dr2[s] \in Branches
    BY <2>2, <2>4, <2>5, <2>6, <2>8 DEF Branches
  <2>10. dr2[s].active = a /\ dr2[s].tokens = tk /\ dr2[s].rowT = rt /\ dr2[s].rowD = rd
    BY <2>4
  <2>11. dr2[s].active <=> s \in chosen.seqs \cup picked
    BY <2>1, <2>10, Zenon
  <2>12. /\ dr2[s].rowD = drafts[s].rowD
         /\ s \in dropped => dr2[s].tokens = TakenBack(drafts[s].tokens)
         /\ s \notin dropped => dr2[s].tokens = drafts[s].tokens
         /\ s \notin picked => dr2[s].rowT = drafts[s].rowT
    BY <2>3, <2>10
  <2>13. \A i \in 1..K : s = sel[i] => dr2[s].rowT = Append(drafts[s].rowT, L + i)
    BY <2>7, <2>10
  <2> QED BY <2>9, <2>11, <2>12, <2>13
<1>9. dr2 \in [Ids -> Branches]
  BY <1>6, <1>8
<1>10. ASSUME NEW i \in 1..K PROVE dr2[sel[i]].rowT = Append(drafts[sel[i]].rowT, L + i)
  <2>1. sel[i] \in Ids
    BY <1>4, <1>5
  <2> QED BY <1>8, <2>1
<1> QED BY <1>1, <1>8, <1>9, <1>10

RowsSelected(b2, dr2, picked) ==
  /\ Rows(b2, past.t, dr2, Made, chosen.seqs \cup picked)
  /\ \A s \in Made : dr2[s].tokens[1] = drafts[s].tokens[1]
  /\ \A s \in picked : /\ dr2[s].tokens = drafts[s].tokens
                       /\ Len(dr2[s].tokens) = step + 2 /\ Len(dr2[s].rowT) = step + 2
  /\ todo = {} => \A s \in chosen.seqs \cup picked : Len(dr2[s].rowT) = Len(dr2[s].tokens)

LEMMA SelectedRows ==
  ASSUME Typed, Lengths, Depth, RowsKnown, pc = "draft", opt.prune,
         NEW sel, NEW picked, NEW dropped, NEW fresh, NEW shared, NEW added, NEW m,
         Selected(sel, picked, dropped, fresh, shared, added, m), Distinct(sel),
         sel \in UNION {[1..k -> Proposed] : k \in 0..Cardinality(Proposed)},
         NEW dr2, dr2 = SelectedBranches(sel, picked, dropped), NEW b2, b2 = shared \o added
  PROVE  RowsSelected(b2, dr2, picked)
<1>1. PICK b, L, K, n, k, S, S2 :
         /\ b = batch.t /\ L = Len(batch.t) /\ K = Len(sel) /\ n = past.t /\ k = step
         /\ S = chosen.seqs /\ S2 = chosen.seqs \cup picked
  OBVIOUS
<1>2. L \in Nat /\ n \in Nat /\ k \in Nat /\ k + 1 <= Cap /\ Cap \in Nat
  <2>1. past.t \in Nat /\ step \in Nat /\ step + 1 <= Cap /\ Cap \in Nat
    BY DepthBelowInf, TreeAssumption
  <2>2. Len(batch.t) \in Nat
    BY DEF Typed
  <2> QED BY <1>1, <2>1, <2>2
<1>3. /\ picked = {sel[i] : i \in DOMAIN sel} /\ dropped = (Proposed \ picked) \cap S
      /\ fresh = picked \ S
  BY <1>1 DEF Selected
<1>4. /\ sel \in Seq(Proposed) /\ K \in Nat /\ DOMAIN sel = 1..K /\ picked \subseteq Proposed
      /\ \A s : s \in picked <=> \E i \in 1..K : sel[i] = s
  BY <1>1, <1>3, SelectedIn
<1>5. /\ Proposed \subseteq Made /\ Made \subseteq Ids /\ Picked = S
      /\ \A s \in Proposed : Len(drafts[s].tokens) = k + 2 /\ Len(drafts[s].rowT) = k + 1
      /\ \A s \in S \ Proposed : Len(drafts[s].rowT) = Len(drafts[s].tokens)
      /\ Rows(b, n, drafts, Made, S)
  BY <1>1 DEF Depth, RowsKnown, Picked
<1>6. /\ \A s \in Ids : /\ s \in dropped => dr2[s].tokens = TakenBack(drafts[s].tokens)
                        /\ s \notin dropped => dr2[s].tokens = drafts[s].tokens
                        /\ s \notin picked => dr2[s].rowT = drafts[s].rowT
      /\ \A i \in 1..K : dr2[sel[i]].rowT = Append(drafts[sel[i]].rowT, L + i)
  <2>1. /\ \A s \in Ids : /\ s \in dropped => dr2[s].tokens = TakenBack(drafts[s].tokens)
                          /\ s \notin dropped => dr2[s].tokens = drafts[s].tokens
                          /\ s \notin picked => dr2[s].rowT = drafts[s].rowT
        /\ \A i \in 1..Len(sel) :
             dr2[sel[i]].rowT = Append(drafts[sel[i]].rowT, Len(batch.t) + i)
    BY SelectedDrafts
  <2> QED BY <1>1, <2>1, Zenon
<1>7. /\ b2 \in Seq(Entries) /\ Len(b2) = L + K
      /\ \A j \in 1..L : /\ b2[j].pos = b[j].pos /\ b2[j].first = b[j].first
                         /\ b2[j].tok = b[j].tok
                         /\ \A s : s \in b2[j].seqs <=> \/ s \in b[j].seqs
                                                        \/ s \in fresh /\ HasRow(drafts, s, j)
      /\ \A i \in 1..K : /\ b2[L + i].pos = n + k + 1
                         /\ b2[L + i].first = sel[i] /\ b2[L + i].seqs = {sel[i]}
                         /\ b2[L + i].tok = drafts[sel[i]].tokens[k + 2]
  <2>1. BatchSelected(b2, batch.t, Len(batch.t), drafts, fresh, sel, Len(sel), past.t, step)
    BY SelectedBatch
  <2>2. BatchSelected(b2, b, L, drafts, fresh, sel, K, n, k)
    BY <1>1, <2>1, Zenon
  <2> QED BY <2>2, Zenon DEF BatchSelected
<1>8. /\ S \subseteq Made /\ \A s \in Made : RowsOf(b, n, drafts, s)
      /\ \A s \in S : \A l \in 1..Len(drafts[s].rowT) : s \in b[drafts[s].rowT[l]].seqs
      /\ \A j \in 1..L : EntryOf(b, n, drafts, S, j)
  BY <1>1, <1>5 DEF Rows
<1>9. ASSUME NEW s \in Made
      PROVE  /\ s \in Ids /\ Len(drafts[s].rowT) \in Nat /\ Len(drafts[s].tokens) \in Nat
             /\ drafts[s].tokens \in Seq(Token) /\ drafts[s].rowT \in Seq(Nat)
             /\ Len(drafts[s].rowT) \in 1..Len(drafts[s].tokens)
             /\ Len(drafts[s].rowT) <= Cap + 1
  <2>1. s \in Ids /\ RowsOf(b, n, drafts, s)
    BY <1>5, <1>8
  <2> QED BY <2>1, BranchTyped DEF RowsOf
(* A picked sequence gets a row. *)
<1>10. ASSUME NEW i \in 1..K
       PROVE  /\ sel[i] \in Made /\ sel[i] \in picked /\ sel[i] \notin dropped
              /\ dr2[sel[i]].tokens = drafts[sel[i]].tokens /\ Len(drafts[sel[i]].tokens) = k + 2
              /\ Len(drafts[sel[i]].rowT) = k + 1
              /\ Len(dr2[sel[i]].rowT) = k + 2 /\ dr2[sel[i]].rowT[k + 2] = L + i
              /\ \A l \in 1..(k + 1) : dr2[sel[i]].rowT[l] = drafts[sel[i]].rowT[l]
  <2>1. PICK s : s = sel[i]
    OBVIOUS
  <2>2. s \in picked /\ s \in Proposed /\ s \in Made /\ s \in Ids /\ s \notin dropped
    BY <1>3, <1>4, <1>5, <2>1
  <2>3. dr2[s].tokens = drafts[s].tokens /\ Len(drafts[s].tokens) = k + 2
        /\ Len(drafts[s].rowT) = k + 1
    BY <1>5, <1>6, <2>2
  <2>4. PICK x, y : x = L + i /\ y = drafts[s].rowT
    OBVIOUS
  <2>5. x \in Nat /\ y \in Seq(Nat) /\ dr2[s].rowT = Append(y, x) /\ Len(y) = k + 1
    <3>1. dr2[s].rowT = Append(y, x)
      BY <1>6, <2>1, <2>4, Zenon
    <3>2. x \in Nat
      BY <1>2, <1>4, <2>4
    <3> QED BY <1>9, <2>2, <2>3, <2>4, <3>1, <3>2
  <2>6. Len(Append(y, x)) = Len(y) + 1 /\ Append(y, x)[Len(y) + 1] = x
        /\ \A l \in 1..Len(y) : Append(y, x)[l] = y[l]
    BY <2>5, AppendProperties
  <2>7. Len(y) + 1 = k + 2
    BY <1>2, <2>5
  <2> QED BY ZenonT(60), <2>1, <2>2, <2>3, <2>4, <2>5, <2>6, <2>7
<1>11. ASSUME NEW s \in Made, s \notin picked
       PROVE  /\ dr2[s].rowT = drafts[s].rowT
              /\ \A l \in 1..Len(drafts[s].rowT) : dr2[s].tokens[l] = drafts[s].tokens[l]
              /\ Len(drafts[s].rowT) <= Len(dr2[s].tokens)
              /\ s \in dropped => Len(dr2[s].tokens) = k + 1 /\ Len(drafts[s].rowT) = k + 1
              /\ s \notin dropped => dr2[s].tokens = drafts[s].tokens
  <2>1. s \in Ids /\ dr2[s].rowT = drafts[s].rowT
    BY <1>6, <1>9, <1>11
  <2>2. CASE s \in dropped
    <3>1. Len(drafts[s].tokens) = k + 2 /\ Len(drafts[s].rowT) = k + 1
      BY <1>3, <1>5, <2>2
    <3>2. PICK q, w : q = drafts[s].tokens /\ w = dr2[s].tokens
      OBVIOUS
    <3>3. q \in Seq(Token) /\ Len(q) = k + 2 /\ w = TakenBack(q)
      BY <1>6, <1>9, <2>1, <2>2, <3>1, <3>2
    <3>4. w \in Seq(Token) /\ Len(w) = k + 1 /\ \A l \in 1..(k + 1) : w[l] = q[l]
      BY <1>2, <3>3, TakenBackIs
    <3> QED BY <1>2, <2>1, <2>2, <3>1, <3>2, <3>4
  <2>3. CASE s \notin dropped
    BY <1>6, <1>9, <2>1, <2>3
  <2> QED BY <2>2, <2>3
<1>12. ASSUME NEW s \in Made
       PROVE  Grew(b2, n, drafts, s, dr2, L, L + K, s)
  <2>1. CASE s \in picked
    <3>1. PICK i \in 1..K : sel[i] = s
      BY <1>4, <2>1
    <3>2. /\ dr2[s].tokens = drafts[s].tokens /\ Len(drafts[s].tokens) = k + 2
          /\ Len(drafts[s].rowT) = k + 1
          /\ Len(dr2[s].rowT) = k + 2 /\ dr2[s].rowT[k + 2] = L + i
          /\ \A l \in 1..(k + 1) : dr2[s].rowT[l] = drafts[s].rowT[l]
      BY <1>10, <3>1
    <3>3. Heir(drafts, s, dr2, s)
      <4>1. (k + 1) + 1 = k + 2 /\ k + 2 <= Cap + 1 /\ k + 2 <= k + 2
        BY <1>2
      <4> QED BY <3>2, <4>1 DEF Heir
    <3>4. PICK j : j = L + i
      OBVIOUS
    <3>5. /\ b2[j].pos = n + k + 1 /\ b2[j].first = s /\ b2[j].seqs = {s}
          /\ b2[j].tok = dr2[s].tokens[k + 2]
      <4>1. /\ b2[L + i].pos = n + k + 1 /\ b2[L + i].first = sel[i]
            /\ b2[L + i].seqs = {sel[i]} /\ b2[L + i].tok = drafts[sel[i]].tokens[k + 2]
        BY <1>7, <3>1, Zenon
      <4> QED BY <3>1, <3>2, <3>4, <4>1, Zenon
    <3>6. n + (k + 2) - 1 = n + k + 1 /\ j \in (L + 1)..(L + K)
      BY <1>2, <1>4, <3>4
    <3>7. LastRow(b2, n, dr2, s, k + 2, j)
      BY <3>2, <3>4, <3>5, <3>6 DEF LastRow
    <3>8. Len(drafts[s].rowT) + 1 = k + 2
      BY <1>2, <3>2
    <3> QED BY <3>3, <3>6, <3>7, <3>8 DEF Grew
  <2>2. CASE s \notin picked
    <3>1. Heir(drafts, s, dr2, s)
      BY <1>9, <1>11, <2>2 DEF Heir
    <3> QED BY <1>11, <2>2, <3>1 DEF Grew
  <2> QED BY <2>1, <2>2
<1>13. PICK par : par = [s \in Made |-> s]
  OBVIOUS
<1>14. ASSUME NEW j \in 1..L PROVE EntryStays(b, b2, drafts, par, S2, j)
  <2>1. EntryOf(b, n, drafts, S, j)
    BY <1>8
  <2>2. b[j].seqs \subseteq S /\ \A s \in b[j].seqs : HasRow(drafts, s, j)
    BY <2>1 DEF EntryOf, HasRow
  <2>3. fresh \subseteq S2 /\ S2 \subseteq Made /\ S \subseteq S2
    BY <1>1, <1>3, <1>4, <1>5, <1>8
  <2>4. ASSUME NEW s \in S2 PROVE s \in b2[j].seqs <=> HasRow(drafts, par[s], j)
    <3>1. par[s] = s
      BY <1>13, <2>3
    <3>2. s \in b2[j].seqs <=> (s \in b[j].seqs \/ (s \in fresh /\ HasRow(drafts, s, j)))
      BY <1>7
    <3>3. s \in fresh \/ s \in S
      BY <1>1, <1>3
    <3>4. s \in S /\ HasRow(drafts, s, j) => s \in b[j].seqs
      BY <1>8 DEF HasRow
    <3> QED BY <2>2, <3>1, <3>2, <3>3, <3>4
  <2>5. b2[j].seqs \subseteq S2
    BY <1>7, <2>2, <2>3
  <2> QED BY <1>7, <2>4, <2>5 DEF EntryStays
<1>15. ASSUME NEW j \in (L + 1)..(L + K) PROVE \E s \in S2 : LastRow(b2, n, dr2, s, k + 2, j)
  <2>1. PICK i : i = j - L
    OBVIOUS
  <2>2. i \in 1..K /\ j = L + i
    BY <1>2, <1>4, <2>1
  <2>3. PICK s : s = sel[i]
    OBVIOUS
  <2>4. /\ b2[j].pos = n + k + 1 /\ b2[j].first = s /\ b2[j].seqs = {s}
        /\ b2[j].tok = drafts[s].tokens[k + 2]
    BY <1>7, <2>2, <2>3
  <2>5. /\ dr2[s].tokens = drafts[s].tokens /\ s \in S2
        /\ Len(dr2[s].rowT) = k + 2 /\ dr2[s].rowT[k + 2] = j
    BY <1>1, <1>10, <2>2, <2>3
  <2>6. n + (k + 2) - 1 = n + k + 1
    BY <1>2
  <2>7. LastRow(b2, n, dr2, s, k + 2, j)
    BY <2>4, <2>5, <2>6 DEF LastRow
  <2> QED BY <2>5, <2>7
<1>16. Rows(b2, n, dr2, Made, S2)
  <2>1. PICK L2, K2, dr, M : L2 = L + K /\ K2 = k + 2 /\ dr = drafts /\ M = Made
    OBVIOUS
  <2>2. L2 \in Nat /\ L2 = Len(b2) /\ L <= L2 /\ K2 \in Nat \ {0} /\ L = Len(b)
    BY <1>1, <1>2, <1>4, <1>7, <2>1
  <2>3. M \subseteq M /\ S \subseteq S2 /\ S2 \subseteq M
    BY <1>1, <1>4, <1>5, <1>8, <2>1
  <2>4. \A s \in M : par[s] = s /\ Len(dr[s].rowT) \in Nat
    BY <1>9, <1>13, <2>1
  <2>5. \A s \in M : par[s] \in M /\ Grew(b2, n, dr, par[s], dr2, L, L2, s)
    BY <1>12, <2>1, <2>4
  <2>6. /\ \A j \in 1..L : EntryStays(b, b2, dr, par, S2, j)
        /\ NewEntries(b2, n, dr2, S2, K2, L, L2)
    BY <1>14, <1>15, <2>1 DEF NewEntries
  <2>7. Rows(b, n, dr, M, S) /\ n \in Nat /\ L \in Nat
    BY <1>2, <1>5, <2>1
  <2>8. Rows(b2, n, dr2, M, S2)
    BY ONLY <2>2, <2>3, <2>4, <2>5, <2>6, <2>7, RowsGrow
  <2> QED BY <2>1, <2>8
<1>17. ASSUME NEW s \in Made PROVE dr2[s].tokens[1] = drafts[s].tokens[1]
  <2>1. Heir(drafts, s, dr2, s) /\ 1 \in 1..Len(drafts[s].rowT)
    BY <1>9, <1>12 DEF Grew
  <2> QED BY <2>1 DEF Heir
<1>18. ASSUME NEW s \in picked
       PROVE  /\ dr2[s].tokens = drafts[s].tokens
              /\ Len(dr2[s].tokens) = k + 2 /\ Len(dr2[s].rowT) = k + 2
  <2>1. PICK i \in 1..K : sel[i] = s
    BY <1>4
  <2> QED BY <1>10, <2>1
<1>19. ASSUME todo = {}, NEW s \in S2 PROVE Len(dr2[s].rowT) = Len(dr2[s].tokens)
  <2>1. CASE s \in picked
    BY <1>18, <2>1
  <2>2. CASE s \notin picked
    <3>1. s \in S /\ s \in Made
      BY <1>1, <1>8, <2>2
    <3>2. CASE s \in Proposed
      <4>1. s \in dropped
        BY <1>3, <2>2, <3>1, <3>2
      <4> QED BY <1>11, <2>2, <3>1, <4>1
    <3>3. CASE s \notin Proposed
      <4>1. s \notin dropped
        BY <1>3, <3>3
      <4> QED BY <1>5, <1>11, <2>2, <3>1, <3>3, <4>1
    <3> QED BY <3>2, <3>3
  <2> QED BY <2>1, <2>2
<1> QED BY <1>1, <1>16, <1>17, <1>18, <1>19, Zenon DEF RowsSelected

(* The tokens that are dropped leave the draft's cache, at the last depth. *)
CutBack(m, m0, p, dropped) ==
  m = {[e EXCEPT !.seqs = IF e.pos >= p THEN @ \ dropped ELSE @] : e \in m0}
LEMMA SelectedCache ==
  ASSUME NEW m0, CellsOK(m0), Bounded(m0), NEW p \in Nat, NEW dropped, NEW m,
         CutBack(m, m0, p, dropped), NEW h, h = Held(m)
  PROVE  /\ CellsOK(h) /\ Bounded(h)
         /\ \A e : e.pos \in Nat /\ e.pos < p => (e \in h <=> e \in m0)
         /\ \A s : \A q \in Seq(Token) : Len(q) = p /\ Spells(m0, s, q) => Spells(h, s, q)
<1> DEFINE X(e) == IF e.pos >= p THEN e.seqs \ dropped ELSE e.seqs
<1>1. \A f : f \in h <=> \E e \in m0 : f = [e EXCEPT !.seqs = X(e)] /\ f.seqs # {}
  BY DEF Held, CutBack
<1>2. ASSUME NEW e \in m0
      PROVE  /\ [e EXCEPT !.seqs = X(e)] = With(e, X(e)) /\ With(e, X(e)).seqs = X(e)
             /\ Same(With(e, X(e)), e) /\ Shape(With(e, X(e))) /\ CellOK(e)
             /\ e.pos \in Nat /\ e.pos < Inf /\ X(e) \subseteq Ids
             /\ e.pos < p => With(e, X(e)) = e
  <2>1. CellOK(e) /\ e.pos < Inf
    BY DEF CellsOK, Bounded
  <2>2. Shape(e) /\ e.pos \in Nat /\ e.seqs \subseteq Ids
    BY <2>1 DEF CellOK
  <2>3. X(e) \subseteq Ids
    BY <2>2
  <2>4. e.pos < p => With(e, X(e)) = e
    <3> SUFFICES ASSUME e.pos < p PROVE With(e, X(e)) = e
      OBVIOUS
    <3>1. X(e) = e.seqs
      BY <2>2
    <3> QED BY <2>2, <3>1 DEF With, Shape
  <2>5. PICK Y : Y = X(e)
    OBVIOUS
  <2>6. /\ [e EXCEPT !.seqs = Y] = With(e, Y) /\ With(e, Y).seqs = Y
        /\ Same(With(e, Y), e) /\ Shape(With(e, Y))
    BY <2>2, WithFacts
  <2> QED BY <2>1, <2>2, <2>3, <2>4, <2>5, <2>6
<1>3. \A f : f \in h <=> \E e \in m0 : f = With(e, X(e)) /\ f.seqs # {}
  <2> HIDE DEF X
  <2> SUFFICES ASSUME NEW f PROVE f \in h <=> \E e \in m0 : f = With(e, X(e)) /\ f.seqs # {}
    OBVIOUS
  <2>1. ASSUME f \in h PROVE \E e \in m0 : f = With(e, X(e)) /\ f.seqs # {}
    <3>1. PICK e \in m0 : f = [e EXCEPT !.seqs = X(e)] /\ f.seqs # {}
      BY <1>1, <2>1
    <3>2. [e EXCEPT !.seqs = X(e)] = With(e, X(e))
      BY <1>2
    <3> QED BY <3>1, <3>2
  <2>2. ASSUME NEW e \in m0, f = With(e, X(e)), f.seqs # {} PROVE f \in h
    <3>1. [e EXCEPT !.seqs = X(e)] = With(e, X(e))
      BY <1>2
    <3> QED BY <1>1, <2>2, <3>1
  <2> QED BY <2>1, <2>2
<1>4. ASSUME NEW f \in h PROVE CellOK(f) /\ f.pos < Inf
  <2> HIDE DEF X
  <2>1. PICK e \in m0 : f = With(e, X(e)) /\ f.seqs # {}
    BY <1>3
  <2>2. /\ f.seqs = X(e) /\ Same(f, e) /\ Shape(f) /\ CellOK(e)
        /\ e.pos \in Nat /\ e.pos < Inf /\ X(e) \subseteq Ids
    BY <1>2, <2>1
  <2> QED BY <2>1, <2>2 DEF CellOK, Same
<1>5. ASSUME NEW e, e.pos \in Nat, e.pos < p PROVE e \in h <=> e \in m0
  <2> HIDE DEF X
  <2>1. ASSUME e \in h PROVE e \in m0
    <3>1. PICK x \in m0 : e = With(x, X(x))
      BY <1>3, <2>1
    <3>2. x.pos = e.pos
      BY <1>2, <3>1 DEF Same
    <3> QED BY <1>2, <1>5, <3>1, <3>2
  <2>2. ASSUME e \in m0 PROVE e \in h
    <3>1. With(e, X(e)) = e /\ e.seqs # {}
      BY <1>2, <1>5, <2>2 DEF CellOK
    <3> QED BY <1>3, <2>2, <3>1
  <2> QED BY <2>1, <2>2
<1>6. ASSUME NEW s, NEW q \in Seq(Token), Len(q) = p, Spells(m0, s, q) PROVE Spells(h, s, q)
  <2> HIDE DEF X
  <2>1. ASSUME NEW e \in Of(m0, s) PROVE e \in Of(h, s)
    <3>1. e.pos \in 0..(p - 1) /\ e \in m0 /\ s \in e.seqs
      BY <1>6 DEF Spells, Of
    <3>2. e \in h
      BY <1>5, <3>1
    <3> QED BY <3>1, <3>2 DEF Of
  <2>2. ASSUME NEW f \in Of(h, s) PROVE f \in Of(m0, s)
    <3>1. PICK e \in m0 : f = With(e, X(e)) /\ s \in f.seqs
      BY <1>3 DEF Of
    <3>2. s \in X(e)
      BY <1>2, <3>1
    <3>3. s \in e.seqs
      BY <3>2 DEF X
    <3>4. e.pos \in 0..(p - 1)
      BY <1>6, <3>3 DEF Spells, Of
    <3>5. f = e
      BY <1>2, <3>1, <3>4
    <3> QED BY <3>3, <3>5 DEF Of
  <2>3. Of(h, s) = Of(m0, s)
    BY <2>1, <2>2
  <2> QED BY <1>6, <2>3 DEF Spells
<1> HIDE DEF X
<1> QED BY <1>4, <1>5, <1>6 DEF CellsOK, Bounded

LEMMA SelectStep == Inv /\ Select => Inv'
<1> SUFFICES ASSUME Inv, Select PROVE Inv'
  OBVIOUS
<1>1. /\ Typed /\ Lengths /\ RowsKnown /\ Depth /\ BelowRoot /\ DraftDepth /\ OutputInSupport
  BY DEF Inv
<1>2. /\ pc = "draft" /\ todo = {} /\ opt.prune
      /\ opt' = opt /\ prompt' = prompt /\ text' = text /\ past' = past
      /\ keep' = keep /\ scanned' = scanned /\ open' = open /\ seen' = seen
      /\ ndraft' = ndraft /\ nseq' = nseq
  BY SelectIs
<1>3. PICK sel \in UNION {[1..k -> Proposed] : k \in 0..Cardinality(Proposed)} :
              \E picked, dropped, fresh, shared, added, m :
                /\ Distinct(sel) /\ Selected(sel, picked, dropped, fresh, shared, added, m)
                /\ drafts' = SelectedBranches(sel, picked, dropped)
                /\ chosen' = [seqs |-> chosen.seqs \cup picked, nodes |-> chosen.nodes + Len(sel)]
                /\ batch' = [t |-> shared \o added, d |-> << >>]
                /\ \/ /\ pc' = "target" /\ mem' = [mem EXCEPT ![Dft] = Held(m)]
                      /\ UNCHANGED << out, step, todo >>
                   \/ picked # {} /\ NextDepth(Held(m), picked)
  BY SelectIs, Zenon
<1>4. PICK picked, dropped, fresh, shared, added, m :
                /\ Distinct(sel) /\ Selected(sel, picked, dropped, fresh, shared, added, m)
                /\ drafts' = SelectedBranches(sel, picked, dropped)
                /\ chosen' = [seqs |-> chosen.seqs \cup picked, nodes |-> chosen.nodes + Len(sel)]
                /\ batch' = [t |-> shared \o added, d |-> << >>]
                /\ \/ /\ pc' = "target" /\ mem' = [mem EXCEPT ![Dft] = Held(m)]
                      /\ UNCHANGED << out, step, todo >>
                   \/ picked # {} /\ NextDepth(Held(m), picked)
  BY <1>3, Zenon
<1>5. PICK dr2, b2, h, S2, p : /\ dr2 = SelectedBranches(sel, picked, dropped)
                               /\ b2 = shared \o added /\ h = Held(m)
                               /\ S2 = chosen.seqs \cup picked /\ p = past.d + step
  OBVIOUS
<1>6. /\ drafts' = dr2 /\ batch' = [t |-> b2, d |-> << >>] /\ batch'.t = b2 /\ batch'.d = << >>
      /\ chosen' = [seqs |-> S2, nodes |-> chosen.nodes + Len(sel)] /\ chosen'.seqs = S2
  BY <1>4, <1>5
<1>7. /\ picked = {sel[i] : i \in DOMAIN sel}
      /\ CutBack(m, mem[Dft], p, dropped)
  BY <1>4, <1>5, Zenon DEF Selected, CutBack
<1>8. Len(sel) \in Nat /\ picked \subseteq Proposed
  BY <1>7, SelectedIn
<1>9. /\ p < Inf /\ p \in Nat /\ past.t < p
      /\ past.d = past.t + 1 /\ step \in Nat /\ past.t \in Nat /\ past.d \in Nat /\ step + 1 <= Cap
  BY <1>1, <1>2, <1>5, DepthBelowInf
<1>10. b2 \in Seq(Entries)
  <2>1. BatchSelected(b2, batch.t, Len(batch.t), drafts, fresh, sel, Len(sel), past.t, step)
    BY <1>1, <1>2, <1>4, <1>5, SelectedBatch
  <2> QED BY <2>1 DEF BatchSelected
<1>11. /\ dr2 \in [Ids -> Branches]
       /\ \A s \in Ids : /\ dr2[s].active <=> s \in S2
                         /\ dr2[s].rowD = drafts[s].rowD
  BY <1>1, <1>2, <1>4, <1>5, SelectedDrafts
<1>12. /\ Rows(b2, past.t, dr2, Made, S2)
       /\ \A s \in Made : dr2[s].tokens[1] = drafts[s].tokens[1]
       /\ \A s \in picked : /\ dr2[s].tokens = drafts[s].tokens
                            /\ Len(dr2[s].tokens) = step + 2 /\ Len(dr2[s].rowT) = step + 2
       /\ \A s \in S2 : Len(dr2[s].rowT) = Len(dr2[s].tokens)
  <2>1. RowsSelected(b2, dr2, picked)
    BY <1>1, <1>2, <1>4, <1>5, SelectedRows
  <2> QED BY <1>2, <1>5, <2>1, Zenon DEF RowsSelected
<1>13. /\ Proposed \subseteq Made /\ Made \subseteq Ids /\ S2 \subseteq Made
       /\ \A s \in Made : drafts[s].tokens[1] = text[Len(text)]
  <2>1. S2 \subseteq Made
    BY <1>12 DEF Rows
  <2> QED BY <1>1, <1>2, <2>1 DEF Depth, RowsKnown
<1>14. mem = [t |-> mem.t, d |-> mem.d] /\ CellsOK(mem.t) /\ CellsOK(mem.d)
      /\ Bounded(mem.t) /\ Bounded(mem.d)
  BY <1>1, <1>2 DEF Typed, Lengths, Bounded
<1>15. PICK m0 : m0 = mem[Dft]
  OBVIOUS
<1>16. m0 = (IF opt.share THEN mem.t ELSE mem.d) /\ CellsOK(m0) /\ Bounded(m0)
  BY <1>14, <1>15, DraftCache
<1>17. /\ CellsOK(h) /\ Bounded(h)
       /\ \A e : e.pos \in Nat /\ e.pos < p => (e \in h <=> e \in m0)
       /\ \A s : \A q \in Seq(Token) : Len(q) = p /\ Spells(m0, s, q) => Spells(h, s, q)
  <2>1. CutBack(m, m0, p, dropped)
    BY <1>7, <1>15, Zenon
  <2>2. p \in Nat /\ h = Held(m)
    BY <1>5, <1>9
  <2> QED BY <1>16, <2>1, <2>2, SelectedCache
<1>18. PICK r : r = Decoded(h, out.d, "d", batch.d)
  OBVIOUS
<1>19. /\ CellsOK(r.mem) /\ Bounded(r.mem) /\ h \subseteq r.mem
       /\ \A e \in r.mem : e \in h \/ e.pos = p
  BY <1>1, <1>2, <1>5, <1>17, <1>18, DepthGrows
<1>20. ASSUME opt.share, NEW s \in picked
       PROVE  \E q \in Seq(Token) :
                /\ DraftText(r.mem, drafts, past.d, step + 1, s, q)
                /\ drafts[s].rowD \in DOMAIN r.rows /\ r.rows[drafts[s].rowD].toks = q
  <2>1. ASSUME NEW z \in Proposed
        PROVE  \E q \in Seq(Token) : DraftText(h, drafts, past.d, step, z, q)
    <3>1. Behaved
      BY <1>20 DEF Behaved
    <3>2. PICK q \in Seq(Token) : DraftSpells(z, q)
      BY <1>1, <1>2, <3>1 DEF DraftDepth
    <3>3. DraftText(m0, drafts, past.d, step, z, q)
      BY <1>15, <3>2, DraftSpellsIs
    <3>4. Len(q) = p /\ Spells(m0, z, q)
      BY <1>5, <3>3 DEF DraftText
    <3>5. Spells(h, z, q)
      BY <1>17, <3>4
    <3> QED BY <3>3, <3>5 DEF DraftText
  <2>2. Proposed # {}
    BY <1>8
  <2>3. \A z \in Proposed : \E q \in Seq(Token) :
                   /\ DraftText(r.mem, drafts, past.d, step + 1, z, q)
                   /\ drafts[z].rowD \in DOMAIN r.rows /\ r.rows[drafts[z].rowD].toks = q
    BY <1>1, <1>2, <1>17, <1>18, <2>1, <2>2, DepthGrows
  <2> QED BY <1>8, <2>3
(* The depth is decoded, or not. *)
<1>21. \/ /\ pc' = "target" /\ mem' = [mem EXCEPT ![Dft] = h]
          /\ out' = out /\ step' = step /\ todo' = todo
       \/ /\ mem' = [mem EXCEPT ![Dft] = r.mem] /\ out' = [out EXCEPT !.d = r.rows]
          /\ step' = step + 1 /\ pc' = (IF step + 1 < Depths THEN "draft" ELSE "target")
          /\ todo' = picked
  BY <1>4, <1>5, <1>18 DEF NextDepth
<1>22. \E x : /\ x \in {h, r.mem} /\ mem' = [mem EXCEPT ![Dft] = x]
  BY <1>21
<1>23. PICK x : /\ x \in {h, r.mem} /\ mem' = [mem EXCEPT ![Dft] = x]
  BY <1>22
<1>24. /\ CellsOK(x) /\ Bounded(x) /\ \A e : e.pos < past.t => (e \in x <=> e \in m0)
  <2>1. ASSUME NEW e, e.pos < past.t PROVE e \in x <=> e \in m0
    <3>1. ASSUME e \in m0 \/ e \in r.mem \/ e \in h PROVE e.pos \in Nat
      BY <1>16, <1>17, <1>19, <3>1 DEF CellsOK, CellOK
    <3>2. CASE e.pos \in Nat
      <4>1. e.pos < p /\ e.pos # p
        BY <1>9, <2>1, <3>2
      <4> QED BY <1>17, <1>19, <1>23, <3>2, <4>1
    <3> QED BY <1>23, <3>1, <3>2
  <2> QED BY <1>17, <1>19, <1>23, <2>1
<1>25. /\ mem' = [t |-> mem'.t, d |-> mem'.d] /\ CellsOK(mem.t)' /\ CellsOK(mem.d)'
       /\ Bounded(mem'.t) /\ Bounded(mem'.d) /\ mem'[Dft'] = x
       /\ (opt.share => mem'.t = x) /\ (~opt.share => mem'.t = mem.t /\ mem'.d = x)
  BY <1>1, <1>2, <1>14, <1>23, <1>24, DraftReplaced
<1>26. /\ Ids' = Ids /\ Made' = Made /\ Picked' = S2 /\ Depths' = Depths
       /\ (Behaved' <=> opt.share) /\ Dft' = Dft
  BY <1>2, <1>6 DEF Ids, Made, Picked, Depths, Behaved, Dft
<1>27. Proposed' = {}
  <2>1. DOMAIN batch'.d = {}
    BY <1>6
  <2> QED BY <2>1 DEF Proposed
<1>28. pc' \in {"draft", "target"} /\ step' \in Nat /\ todo' \subseteq Ids
       /\ out' = [t |-> out'.t, d |-> out'.d]
  <2>1. out = [t |-> out.t, d |-> out.d]
    BY <1>1 DEF Typed
  <2>2. out' = [t |-> out'.t, d |-> out'.d]
    BY <1>21, <2>1
  <2> QED BY <1>2, <1>8, <1>9, <1>13, <1>21, <2>2
<1>29. pc' = "draft" => /\ step' = step + 1 /\ step' < Depths' /\ todo' = picked /\ x = r.mem
                        /\ out'.d = r.rows /\ mem'[Dft'] = r.mem
  <2> SUFFICES ASSUME pc' = "draft"
               PROVE  /\ step' = step + 1 /\ step' < Depths' /\ todo' = picked /\ x = r.mem
                      /\ out'.d = r.rows /\ mem'[Dft'] = r.mem
    OBVIOUS
  <2>1. /\ mem' = [mem EXCEPT ![Dft] = r.mem] /\ out' = [out EXCEPT !.d = r.rows]
        /\ step' = step + 1 /\ step + 1 < Depths /\ todo' = picked
    BY <1>21
  <2>2. out'.d = r.rows
    <3>1. out = [t |-> out.t, d |-> out.d]
      BY <1>1 DEF Typed
    <3> QED BY <2>1, <3>1
  <2>3. mem'[Dft'] = r.mem
    BY <1>1, <1>2, <1>14, <1>19, <2>1, DraftReplaced
  <2> QED BY <1>25, <1>26, <2>1, <2>2, <2>3
<1>30. Typed'
  <2>1. Entries' = Entries /\ Branches' = Branches
    BY <1>26 DEF Entries, Branches
  <2>2. batch' \in [t : Seq(Entries), d : Seq(Entries)]
    <3>1. << >> \in Seq(Entries)
      OBVIOUS
    <3> QED BY <1>6, <1>10, <3>1
  <2>3. chosen' \in [seqs : SUBSET Ids, nodes : Nat]
    <3>1. chosen.nodes \in Nat
      BY <1>1 DEF Typed
    <3>2. PICK k : k = chosen.nodes + Len(sel)
      OBVIOUS
    <3>3. k \in Nat /\ S2 \subseteq Ids
      BY <1>8, <1>13, <3>1, <3>2
    <3> QED BY <1>6, <3>2, <3>3
  <2>4. drafts' \in [Ids -> Branches]
    BY <1>6, <1>11
  <2>5. /\ pc' \in {"prefill", "skipped", "round", "verify", "keep", "draft", "target", "done"}
        /\ opt' \in Options /\ prompt' \in Prompts /\ text' \in Seq(Token)
        /\ keep' \in Ids /\ scanned' \in Nat /\ open' \subseteq Ids /\ ndraft' \in 0..Cap
        /\ past' \in [t : Nat, d : Nat] /\ nseq' \in 1..opt'.nseq
    BY <1>1, <1>2, <1>28 DEF Typed
  <2> QED BY <1>25, <1>26, <1>28, <2>1, <2>2, <2>3, <2>4, <2>5 DEF Typed
<1>31. Lengths'
  <2>1. pc' = "draft" => step' < Depths'
    BY <1>29
  <2>2. \A e \in mem'.t \cup mem'.d : e.pos < Inf
    BY <1>25 DEF Bounded
  <2>3. /\ Len(prompt) <= Len(text) /\ Len(text) = past.t + 1 /\ past.d = past.t + 1
        /\ Len(text) <= Len(prompt) + Predict
    BY <1>1, <1>2 DEF Lengths
  <2> QED BY <1>2, <1>28, <2>1, <2>2, <2>3 DEF Lengths
<1>32. RowsKnown'
  <2>1. Rows(batch'.t, past'.t, drafts', Made', Picked')
    BY <1>2, <1>6, <1>12, <1>26
  <2>2. \A s \in Made' : drafts'[s].tokens[1] = text'[Len(text')]
    BY <1>2, <1>6, <1>12, <1>13, <1>26
  <2>3. Made' \subseteq Ids'
    BY <1>13, <1>26
  <2> QED BY <2>1, <2>2, <2>3 DEF RowsKnown
<1>33. Depth'
  <2> SUFFICES ASSUME pc' = "draft" PROVE Depth'
    BY DEF Depth
  <2>1. Len(batch'.d) = 0 /\ \A j \in 1..Len(batch'.d) : FALSE
    BY <1>6
  <2>2. ASSUME NEW s \in todo'
        PROVE  Len(drafts'[s].tokens) = step' + 1 /\ Len(drafts'[s].rowT) = step' + 1
    <3>1. s \in picked /\ step' = step + 1
      BY <1>29
    <3>2. Len(dr2[s].tokens) = step + 2 /\ Len(dr2[s].rowT) = step + 2
      BY <1>12, <3>1
    <3>3. (step + 1) + 1 = step + 2
      BY <1>9
    <3> QED BY <1>6, <3>1, <3>2, <3>3, Zenon
  <2>3. \A s \in Picked' : Len(drafts'[s].rowT) = Len(drafts'[s].tokens)
    BY <1>6, <1>12, <1>26
  <2>4. todo' \subseteq Picked'
    BY <1>5, <1>26, <1>29
  <2>5. opt'.prune
    BY <1>2
  <2> QED BY <1>27, <2>1, <2>2, <2>3, <2>4, <2>5, Zenon DEF Depth
<1>34. TreeReady'
  <2>1. \A s \in Ids : /\ drafts'[s].active <=> s \in S2
                       /\ s \in S2 => Len(drafts'[s].rowT) = Len(drafts'[s].tokens)
    BY <1>6, <1>11, <1>12
  <2> QED BY <1>26, <2>1 DEF TreeReady
<1>35. BelowRoot'
  <2>1. Below(mem'.t, past.t) = Below(mem.t, past.t)
    <3>1. CASE opt.share
      <4>1. mem'.t = x /\ mem.t = m0
        BY <1>16, <1>25, <3>1
      <4> QED BY <1>24, <4>1 DEF Below
    <3>2. CASE ~opt.share
      BY <1>25, <3>2
    <3> QED BY <3>1, <3>2
  <2> QED BY <1>1, <1>2, <1>25, <1>28, <2>1, RootStays
<1>36. Decided'
  BY <1>28 DEF Decided
<1>37. DraftDepth'
  <2> SUFFICES ASSUME pc' = "draft", opt.share, NEW s \in picked
               PROVE  \E q \in Seq(Token) :
                        /\ DraftSpells(s, q)'
                        /\ drafts'[s].rowD \in DOMAIN out'.d /\ out'.d[drafts'[s].rowD].toks = q
    BY <1>26, <1>27, <1>29 DEF DraftDepth
  <2>1. PICK q \in Seq(Token) :
                /\ DraftText(r.mem, drafts, past.d, step + 1, s, q)
                /\ drafts[s].rowD \in DOMAIN r.rows /\ r.rows[drafts[s].rowD].toks = q
    BY <1>20
  <2>2. dr2[s].tokens = drafts[s].tokens /\ dr2[s].rowD = drafts[s].rowD
    BY <1>8, <1>11, <1>12, <1>13
  <2>3. DraftText(r.mem, dr2, past.d, step + 1, s, q)
    BY <2>1, <2>2 DEF DraftText
  <2>4. mem'[Dft'] = r.mem /\ step' = step + 1 /\ out'.d = r.rows
    BY <1>29
  <2>5. DraftSpells(s, q)'
    BY <1>2, <1>6, <2>3, <2>4, DraftSpellsIs
  <2> QED BY <1>6, <2>1, <2>2, <2>4, <2>5
<1>38. DraftWhole'
  BY <1>2 DEF DraftWhole
<1>39. OutputInSupport'
  BY <1>1, <1>2 DEF OutputInSupport
<1> QED BY <1>30, <1>31, <1>32, <1>33, <1>34, <1>35, <1>36, <1>37, <1>38, <1>39 DEF Inv

-----------------------------------------------------------------------------
(***************************************************************************)
(* A sequence proposes: s goes on with the first of the tokens toks, the   *)
(* new sequences with the others.                                          *)
(***************************************************************************)
AddedAt(toks, k, seqOf, p) == [i \in 1..k |-> Entry(toks[i], p, seqOf[i], {seqOf[i]})]

Splits(s, toks, k, new, seqOf, idx, split, shared) ==
  /\ k = Len(toks) /\ new = nseq..(nseq + k - 2)
  /\ seqOf = [i \in 1..k |-> IF i = 1 THEN s ELSE nseq + i - 2]
  /\ idx = [n \in {s} \cup new |-> IF n = s THEN 1 ELSE n - nseq + 2]
  /\ split = {[e EXCEPT !.seqs = (@ \ new) \cup (IF s \in @ THEN new ELSE {})] : e \in mem[Dft]}
  /\ shared = [i \in DOMAIN batch.t |->
                 IF s \in batch.t[i].seqs
                 THEN [batch.t[i] EXCEPT !.seqs = @ \cup new] ELSE batch.t[i]]

SplitBranches(s, toks, new, idx) ==
  [n \in Ids |->
     IF n \notin {s} \cup new THEN drafts[n]
     ELSE [active   |-> n \in new \/ drafts[s].active,
           drafting |-> TRUE,
           tokens   |-> Append(drafts[s].tokens, toks[idx[n]]),
           rowT     |-> IF opt.prune THEN drafts[s].rowT
                        ELSE Append(drafts[s].rowT, Len(batch.t) + idx[n]),
           rowD     |-> Len(batch.d) + idx[n]]]

Room == IF opt.prune /\ step = 0 THEN 0 ELSE opt.nseq - nseq

ProposesOf(s) ==
  \E toks \in UNION {[1..k -> Token] : k \in 1..(1 + Room)} :
    \E k, new, seqOf, idx, split, shared :
      /\ Splits(s, toks, k, new, seqOf, idx, split, shared)
      /\ mem' = [mem EXCEPT ![Dft] = Held(split)]
      /\ batch' = [t |-> IF opt.prune THEN batch.t
                         ELSE shared \o AddedAt(toks, k, seqOf, past.t + step + 1),
                   d |-> batch.d \o AddedAt(toks, k, seqOf, past.d + step)]
      /\ drafts' = SplitBranches(s, toks, new, idx)
      /\ nseq' = nseq + k - 1

LEMMA ProposeIs ==
  ASSUME Propose
  PROVE  /\ pc = "draft" /\ todo # {} /\ pc' = pc /\ out' = out
         /\ opt' = opt /\ prompt' = prompt /\ text' = text /\ past' = past
         /\ keep' = keep /\ scanned' = scanned /\ open' = open /\ seen' = seen
         /\ ndraft' = ndraft /\ step' = step /\ chosen' = chosen
         /\ todo' = todo \ {LowestOf(todo)}
         /\ ProposesOf(LowestOf(todo))
<1>1. /\ pc = "draft" /\ todo # {} /\ pc' = pc /\ out' = out
      /\ opt' = opt /\ prompt' = prompt /\ text' = text /\ past' = past
      /\ keep' = keep /\ scanned' = scanned /\ open' = open /\ seen' = seen
      /\ ndraft' = ndraft /\ step' = step /\ chosen' = chosen
      /\ todo' = todo \ {LowestOf(todo)}
  BY DEF Propose
<1>2. ProposesOf(LowestOf(todo))
  <2> DEFINE s           == LowestOf(todo)
             New(toks)   == nseq..(nseq + Len(toks) - 2)
             SeqOf(toks) == [i \in 1..Len(toks) |-> IF i = 1 THEN s ELSE nseq + i - 2]
             Idx(toks)   == [n \in {s} \cup New(toks) |-> IF n = s THEN 1 ELSE n - nseq + 2]
             Split(toks) == {[e EXCEPT !.seqs = (@ \ New(toks))
                                                  \cup (IF s \in @ THEN New(toks) ELSE {})] :
                               e \in mem[Dft]}
             Shared(toks) == [i \in DOMAIN batch.t |->
                                IF s \in batch.t[i].seqs
                                THEN [batch.t[i] EXCEPT !.seqs = @ \cup New(toks)]
                                ELSE batch.t[i]]
  <2>1. \E toks \in UNION {[1..k -> Token] : k \in 1..(1 + Room)} :
          /\ mem' = [mem EXCEPT ![Dft] = Held(Split(toks))]
          /\ batch' = [t |-> IF opt.prune THEN batch.t
                             ELSE Shared(toks)
                                    \o AddedAt(toks, Len(toks), SeqOf(toks), past.t + step + 1),
                       d |-> batch.d \o AddedAt(toks, Len(toks), SeqOf(toks), past.d + step)]
          /\ drafts' = SplitBranches(s, toks, New(toks), Idx(toks))
          /\ nseq' = nseq + Len(toks) - 1
    BY Zenon DEF Propose, SplitBranches, AddedAt, Room
  <2>2. ASSUME NEW toks
        PROVE  Splits(s, toks, Len(toks), New(toks), SeqOf(toks), Idx(toks), Split(toks),
                      Shared(toks))
    BY Zenon DEF Splits
  <2> HIDE DEF New, SeqOf, Idx, Split, Shared
  <2> QED BY <2>1, <2>2, Zenon DEF ProposesOf
<1> QED BY <1>1, <1>2

(* The least of the sequences yet to propose. *)
LEMMA LowestIs ==
  ASSUME NEW T \in SUBSET Nat, T # {}
  PROVE  LowestOf(T) \in T
<1>1. PICK x \in T : \A y \in T : ~(<< y, x >> \in OpToRel(<, Nat))
  BY NatLessThanWellFounded, WFMin
<1>2. \A y \in T : x <= y
  <2> SUFFICES ASSUME NEW y \in T PROVE x <= y
    OBVIOUS
  <2>1. x \in Nat /\ y \in Nat /\ ~(<< y, x >> \in OpToRel(<, Nat))
    BY <1>1
  <2>2. ~(y < x)
    BY <2>1 DEF OpToRel
  <2>3. x \in Nat /\ y \in Nat
    OBVIOUS
  <2> QED BY <2>2, <2>3
<1> QED BY <1>2 DEF LowestOf

(* The sequences of a proposal, and their places in it. *)
LEMMA FamilyIs ==
  ASSUME Typed, RowsKnown, Depth, pc = "draft", NEW s \in todo,
         NEW toks \in UNION {[1..k -> Token] : k \in 1..(1 + Room)},
         NEW k, NEW new, NEW seqOf, NEW idx, NEW split, NEW shared,
         Splits(s, toks, k, new, seqOf, idx, split, shared), nseq' = nseq + k - 1, opt' = opt
  PROVE  /\ k \in Nat /\ k >= 1 /\ \A i \in 1..k : toks[i] \in Token
         /\ s \in Made /\ s \in Ids /\ new \subseteq Ids /\ new \cap Made = {}
         /\ Made' = Made \cup new /\ nseq' \in 1..opt.nseq
         /\ \A i \in 1..k : seqOf[i] \in {s} \cup new /\ idx[seqOf[i]] = i
         /\ \A n \in {s} \cup new : idx[n] \in 1..k /\ seqOf[idx[n]] = n
<1>1. PICK l \in 1..(1 + Room) : toks \in [1..l -> Token]
  OBVIOUS
<1>2. opt.nseq \in Nat \ {0} /\ nseq \in 1..opt.nseq /\ Ids = 0..(opt.nseq - 1)
  BY OptionsTyped DEF Ids, Typed
<1>3. l \in Nat /\ l >= 1 /\ l <= 1 + (opt.nseq - nseq)
  BY <1>1, <1>2 DEF Room
<1>4. Len(toks) = l
  BY <1>1, <1>3
<1>5. /\ k = l /\ new = nseq..(nseq + l - 2)
      /\ seqOf = [i \in 1..l |-> IF i = 1 THEN s ELSE nseq + i - 2]
      /\ idx = [n \in {s} \cup new |-> IF n = s THEN 1 ELSE n - nseq + 2]
  BY <1>4, Zenon DEF Splits
<1>6. s \in Made /\ Made \subseteq Ids
  BY DEF Depth, RowsKnown, Rows
<1>7. Made = 0..(nseq - 1) /\ Made' = 0..(nseq' - 1) /\ s \in 0..(nseq - 1)
  BY <1>6 DEF Made
<1>8. new \subseteq Ids /\ new \cap Made = {}
  <2>1. PICK c, N : c = nseq /\ N = opt.nseq
    OBVIOUS
  <2>2. c \in Nat /\ N \in Nat /\ l <= 1 + (N - c) /\ new = c..(c + l - 2)
    BY <1>2, <1>3, <1>5, <2>1
  <2>3. \A n \in c..(c + l - 2) : n \in 0..(N - 1) /\ n \notin 0..(c - 1)
    BY <1>3, <2>2
  <2> QED BY <1>2, <1>7, <2>1, <2>2, <2>3
<1>9. Made' = Made \cup new
  BY <1>2, <1>3, <1>5, <1>7
<1>10. nseq' \in 1..opt.nseq
  BY <1>2, <1>3, <1>5
<1>11. ASSUME NEW i \in 1..l PROVE seqOf[i] \in {s} \cup new /\ idx[seqOf[i]] = i
  <2>1. CASE i = 1
    BY <1>3, <1>5, <2>1
  <2>2. CASE i # 1
    <3>1. PICK n : n = nseq + i - 2
      OBVIOUS
    <3>2. seqOf[i] = n /\ n \in new /\ n # s /\ n - nseq + 2 = i
      BY <1>2, <1>3, <1>5, <1>7, <2>2, <3>1
    <3>3. idx[n] = n - nseq + 2
      BY <1>5, <3>2
    <3> QED BY <3>2, <3>3
  <2> QED BY <2>1, <2>2
<1>12. ASSUME NEW n \in {s} \cup new PROVE idx[n] \in 1..l /\ seqOf[idx[n]] = n
  <2>1. CASE n = s
    BY <1>3, <1>5, <2>1
  <2>2. CASE n # s
    <3>1. PICK i : i = n - nseq + 2
      OBVIOUS
    <3>2. n \in nseq..(nseq + l - 2)
      BY <1>5, <2>2
    <3>3. i \in 1..l /\ i # 1 /\ nseq + i - 2 = n
      <4>1. nseq \in Int /\ l \in Int
        BY <1>2, <1>3
      <4> QED BY <3>1, <3>2, <4>1
    <3>4. idx[n] = i
      BY <1>5, <2>2, <3>1
    <3>5. seqOf[i] = nseq + i - 2
      BY <1>5, <3>3
    <3> QED BY <3>3, <3>4, <3>5
  <2> QED BY <2>1, <2>2
<1> QED BY <1>1, <1>3, <1>5, <1>6, <1>8, <1>9, <1>10, <1>11, <1>12

(* Branch d goes on from d0 with token t: a row rt of the target's batch,  *)
(* unless rows are given later, and a row rd of the draft's.               *)
GoesOn(d, d0, k, t, rt, rd) ==
  /\ Len(d.tokens) = k + 2 /\ (\A i \in 1..(k + 1) : d.tokens[i] = d0.tokens[i])
  /\ d.tokens[k + 2] = t /\ d.rowD = rd
  /\ opt.prune => d.rowT = d0.rowT
  /\ ~opt.prune => /\ Len(d.rowT) = k + 2 /\ d.rowT[k + 2] = rt
                   /\ \A i \in 1..(k + 1) : d.rowT[i] = d0.rowT[i]

BranchesSplit(dr2, s, new, toks, idx) ==
  /\ dr2 \in [Ids -> Branches]
  /\ \A n \in Ids : n \notin {s} \cup new => dr2[n] = drafts[n]
  /\ \A n \in {s} \cup new :
       /\ GoesOn(dr2[n], drafts[s], step, toks[idx[n]], Len(batch.t) + idx[n],
                 Len(batch.d) + idx[n])
       /\ (n \in new \/ drafts[s].active) => dr2[n].active
       /\ dr2[n].drafting

LEMMA SplitDrafts ==
  ASSUME Typed, RowsKnown, Depth, pc = "draft", NEW s \in todo, s \in Ids,
         NEW toks, NEW k, NEW new, NEW idx, k \in Nat, new \subseteq Ids,
         \A i \in 1..k : toks[i] \in Token,
         \A n \in {s} \cup new : idx[n] \in 1..k,
         NEW dr2, dr2 = SplitBranches(s, toks, new, idx)
  PROVE  BranchesSplit(dr2, s, new, toks, idx)
<1>1. Len(drafts[s].tokens) = step + 1 /\ Len(drafts[s].rowT) = step + 1
  BY DEF Depth
<1>2. /\ step \in Nat /\ Len(batch.t) \in Nat /\ Len(batch.d) \in Nat
  BY DEF Typed
<1>3. drafts[s].tokens \in Seq(Token) /\ drafts[s].rowT \in Seq(Nat) /\ drafts[s].active \in BOOLEAN
  BY BranchTyped
<1>4. DOMAIN dr2 = Ids /\ dr2 = [n \in Ids |-> dr2[n]]
  BY DEF SplitBranches
<1>5. ASSUME NEW n \in Ids, n \notin {s} \cup new PROVE dr2[n] = drafts[n]
  BY <1>5 DEF SplitBranches
<1>6. ASSUME NEW n \in {s} \cup new
      PROVE  /\ dr2[n] \in Branches
             /\ GoesOn(dr2[n], drafts[s], step, toks[idx[n]], Len(batch.t) + idx[n],
                       Len(batch.d) + idx[n])
             /\ (n \in new \/ drafts[s].active) => dr2[n].active
             /\ dr2[n].drafting
  <2>1. PICK i, t, z, rs, x, rd : /\ i = idx[n] /\ t = toks[i] /\ z = drafts[s].tokens
                                  /\ rs = drafts[s].rowT /\ x = Len(batch.t) + i
                                  /\ rd = Len(batch.d) + i
    OBVIOUS
  <2>2. n \in Ids /\ i \in 1..k /\ t \in Token /\ i \in Nat
    BY <2>1
  <2>3. x \in Nat /\ rd \in Nat
    BY SMTT(60), <1>2, <2>1, <2>2
  <2>4. PICK a, f : a = (n \in new \/ drafts[s].active) /\ f = TRUE
    BY Zenon
  <2>5. a \in BOOLEAN /\ f \in BOOLEAN /\ f
    <3>1. (n \in new \/ drafts[s].active) \in BOOLEAN
      OBVIOUS
    <3> QED BY <2>4, <3>1, Zenon
  <2>6. PICK tk, rt : tk = Append(z, t) /\ rt = (IF opt.prune THEN rs ELSE Append(rs, x))
    OBVIOUS
  <2>7. dr2[n] = [active |-> a, drafting |-> f, tokens |-> tk, rowT |-> rt, rowD |-> rd]
    <3>1. dr2[n] = IF n \notin {s} \cup new THEN drafts[n]
                   ELSE [active   |-> n \in new \/ drafts[s].active,
                         drafting |-> TRUE,
                         tokens   |-> Append(drafts[s].tokens, toks[idx[n]]),
                         rowT     |-> IF opt.prune THEN drafts[s].rowT
                                      ELSE Append(drafts[s].rowT, Len(batch.t) + idx[n]),
                         rowD     |-> Len(batch.d) + idx[n]]
      BY <2>2, Zenon DEF SplitBranches
    <3>2. dr2[n] = [active   |-> n \in new \/ drafts[s].active,
                    drafting |-> TRUE,
                    tokens   |-> Append(drafts[s].tokens, toks[idx[n]]),
                    rowT     |-> IF opt.prune THEN drafts[s].rowT
                                 ELSE Append(drafts[s].rowT, Len(batch.t) + idx[n]),
                    rowD     |-> Len(batch.d) + idx[n]]
      BY <3>1, Zenon
    <3> QED BY <2>1, <2>4, <2>6, <3>2, Zenon
  <2>8. z \in Seq(Token) /\ rs \in Seq(Nat) /\ Len(z) = step + 1 /\ Len(rs) = step + 1
    BY <1>1, <1>3, <2>1
  <2>9. /\ tk \in Seq(Token) /\ Len(tk) = Len(z) + 1 /\ tk[Len(z) + 1] = t
        /\ \A j \in 1..Len(z) : tk[j] = z[j]
    BY <2>2, <2>6, <2>8, AppendProperties
  <2>10. /\ Append(rs, x) \in Seq(Nat) /\ Len(Append(rs, x)) = Len(rs) + 1
         /\ Append(rs, x)[Len(rs) + 1] = x
         /\ \A j \in 1..Len(rs) : Append(rs, x)[j] = rs[j]
    BY <2>3, <2>8, AppendProperties
  <2>11. Len(z) + 1 = step + 2 /\ Len(rs) + 1 = step + 2
    BY <1>2, <2>8
  <2>12. rt \in Seq(Nat)
    BY <2>6, <2>8, <2>10
  <2>13. dr2[n] \in Branches
    BY <2>3, <2>5, <2>7, <2>9, <2>12 DEF Branches
  <2>14. /\ dr2[n].active = a /\ dr2[n].drafting = f /\ dr2[n].tokens = tk
         /\ dr2[n].rowT = rt /\ dr2[n].rowD = rd
    BY <2>7
  <2>15. GoesOn(dr2[n], drafts[s], step, t, x, rd)
    <3>1. /\ Len(tk) = step + 2 /\ tk[step + 2] = t
          /\ \A j \in 1..(step + 1) : tk[j] = drafts[s].tokens[j]
      BY <2>1, <2>8, <2>9, <2>11
    <3>2. opt.prune => rt = drafts[s].rowT
      BY <2>1, <2>6
    <3>3. ~opt.prune => /\ Len(rt) = step + 2 /\ rt[step + 2] = x
                        /\ \A j \in 1..(step + 1) : rt[j] = drafts[s].rowT[j]
      BY <2>1, <2>6, <2>8, <2>10, <2>11
    <3> QED BY <2>14, <3>1, <3>2, <3>3 DEF GoesOn
  <2>16. GoesOn(dr2[n], drafts[s], step, toks[idx[n]], Len(batch.t) + idx[n], Len(batch.d) + idx[n])
    BY <2>1, <2>15, Zenon
  <2>17. ((n \in new \/ drafts[s].active) => dr2[n].active) /\ dr2[n].drafting
    BY <2>4, <2>5, <2>14, Zenon
  <2> QED BY <2>13, <2>16, <2>17
<1>7. dr2 \in [Ids -> Branches]
  <2>1. ASSUME NEW n \in Ids PROVE dr2[n] \in Branches
    <3>1. CASE n \in {s} \cup new
      BY <1>6, <3>1
    <3>2. CASE n \notin {s} \cup new
      <4>1. drafts[n] \in Branches
        BY DEF Typed
      <4> QED BY <1>5, <3>2, <4>1
    <3> QED BY <3>1, <3>2
  <2> QED BY <1>4, <2>1
<1> QED BY <1>5, <1>6, <1>7, Zenon DEF BranchesSplit

(* A batch w: the entries of a, and one for each of the tokens toks. *)
Extends(w, a, L, toks, k, seqOf, p) ==
  /\ w \in Seq(Entries) /\ Len(w) = L + k /\ \A j \in 1..L : w[j] = a[j]
  /\ \A i \in 1..k : /\ w[L + i].pos = p /\ w[L + i].first = seqOf[i]
                     /\ w[L + i].seqs = {seqOf[i]} /\ w[L + i].tok = toks[i]

LEMMA AddedTo ==
  ASSUME NEW a \in Seq(Entries), NEW L, L = Len(a), NEW toks, NEW k \in Nat, NEW seqOf,
         NEW p \in Nat, \A i \in 1..k : toks[i] \in Token /\ seqOf[i] \in Ids,
         NEW w, w = a \o AddedAt(toks, k, seqOf, p)
  PROVE  Extends(w, a, L, toks, k, seqOf, p)
<1>1. PICK c : c = AddedAt(toks, k, seqOf, p)
  OBVIOUS
<1>2. ASSUME NEW i \in 1..k
      PROVE  /\ c[i] \in Entries /\ c[i].pos = p /\ c[i].first = seqOf[i]
             /\ c[i].seqs = {seqOf[i]} /\ c[i].tok = toks[i]
  <2>1. PICK e, n, t : e = c[i] /\ n = seqOf[i] /\ t = toks[i]
    OBVIOUS
  <2>2. e = Entry(t, p, n, {n})
    BY <1>1, <2>1 DEF AddedAt
  <2>3. n \in Ids /\ t \in Token /\ {n} \subseteq Ids
    BY <2>1
  <2> QED BY <2>1, <2>2, <2>3, EntryIs
<1>3. c \in Seq(Entries) /\ Len(c) = k
  <2>1. c = [i \in 1..k |-> c[i]]
    BY <1>1 DEF AddedAt
  <2>2. c \in [1..k -> Entries]
    BY <1>2, <2>1
  <2> QED BY <2>2
<1>4. w \in Seq(Entries) /\ Joined(w, a, L, c, k)
  BY <1>1, <1>3, BatchJoined
<1>5. ASSUME NEW i \in 1..k
      PROVE  /\ w[L + i].pos = p /\ w[L + i].first = seqOf[i]
             /\ w[L + i].seqs = {seqOf[i]} /\ w[L + i].tok = toks[i]
  <2>1. w[L + i] = c[i]
    BY <1>4 DEF Joined
  <2> QED BY <1>2, <2>1, Zenon
<1> QED BY <1>4, <1>5 DEF Joined, Extends

(* The entries of the sequence that splits are those of the new ones too. *)
SharedBy(w, b, L, s, new) ==
  /\ w \in Seq(Entries) /\ Len(w) = L
  /\ \A j \in 1..L : /\ w[j].pos = b[j].pos /\ w[j].first = b[j].first /\ w[j].tok = b[j].tok
                     /\ \A n : n \in w[j].seqs <=> \/ n \in b[j].seqs
                                                   \/ n \in new /\ s \in b[j].seqs

LEMMA SharedSplit ==
  ASSUME NEW b \in Seq(Entries), NEW L, L = Len(b), NEW s, NEW new, new \subseteq Ids,
         NEW w, w = [i \in DOMAIN b |->
                       IF s \in b[i].seqs THEN [b[i] EXCEPT !.seqs = @ \cup new] ELSE b[i]]
  PROVE  SharedBy(w, b, L, s, new)
<1>1. L \in Nat /\ DOMAIN b = 1..L /\ \A j \in 1..L : b[j] \in Entries
  BY LenProperties, ElementOfSeq
<1>2. ASSUME NEW j \in 1..L
      PROVE  /\ w[j] \in Entries
             /\ w[j].pos = b[j].pos /\ w[j].first = b[j].first /\ w[j].tok = b[j].tok
             /\ \A n : n \in w[j].seqs <=> (n \in b[j].seqs \/ (n \in new /\ s \in b[j].seqs))
  <2>1. PICK e, f : e = b[j] /\ f = w[j]
    OBVIOUS
  <2>2. e \in Entries /\ f = (IF s \in e.seqs THEN [e EXCEPT !.seqs = @ \cup new] ELSE e)
    BY <1>1, <2>1
  <2>3. CASE s \in e.seqs
    <3>1. f = [e EXCEPT !.seqs = @ \cup new]
      BY <2>2, <2>3
    <3>2. /\ f \in Entries /\ f.pos = e.pos /\ f.first = e.first /\ f.tok = e.tok
          /\ f.seqs = e.seqs \cup new
      BY <2>2, <3>1 DEF Entries
    <3> QED BY <2>1, <2>3, <3>2
  <2>4. CASE s \notin e.seqs
    BY <2>1, <2>2, <2>4
  <2> QED BY <2>3, <2>4
<1>3. w \in [1..L -> Entries]
  <2>1. w = [j \in 1..L |-> w[j]]
    BY <1>1
  <2> QED BY <1>2, <2>1
<1>4. w \in Seq(Entries) /\ Len(w) = L
  BY <1>1, <1>3
<1> QED BY <1>2, <1>4 DEF SharedBy

(* The rows of the old and the new sequences, with the rows still to come  *)
(* if the tree is pruned.                                                  *)
LEMMA SplitRowsLater ==
  ASSUME Typed, Lengths, RowsKnown, Depth, pc = "draft", NEW s \in todo, s \in Made, opt.prune,
         NEW new, new \cap Made = {}, NEW dr2, NEW toks, NEW idx,
         \A n \in Made : n # s => dr2[n] = drafts[n],
         \A n \in {s} \cup new : GoesOn(dr2[n], drafts[s], step, toks[idx[n]],
                                        Len(batch.t) + idx[n], Len(batch.d) + idx[n])
  PROVE  Rows(batch.t, past.t, dr2, Made \cup new, chosen.seqs)
<1>1. PICK b, L, n, S, M, dr, k : /\ b = batch.t /\ L = Len(batch.t) /\ n = past.t
                                  /\ S = chosen.seqs /\ M = Made /\ dr = drafts /\ k = step
  OBVIOUS
<1>2. L \in Nat /\ n \in Nat /\ k \in Nat /\ k + 1 <= Cap /\ Cap \in Nat
  <2>1. past.t \in Nat /\ step \in Nat /\ step + 1 <= Cap /\ Cap \in Nat
    BY DepthBelowInf, TreeAssumption
  <2>2. Len(batch.t) \in Nat
    BY DEF Typed
  <2> QED BY <1>1, <2>1, <2>2
<1>3. Rows(b, n, dr, M, S) /\ M \subseteq Ids
      /\ Len(dr[s].tokens) = k + 1 /\ Len(dr[s].rowT) = k + 1
  BY <1>1 DEF Depth, RowsKnown, Picked
<1>4. /\ S \subseteq M /\ \A x \in M : RowsOf(b, n, dr, x)
      /\ \A x \in S : \A l \in 1..Len(dr[x].rowT) : x \in b[dr[x].rowT[l]].seqs
      /\ \A j \in 1..L : EntryOf(b, n, dr, S, j)
  BY <1>1, <1>3 DEF Rows
<1>5. PICK par : par = [x \in M \cup new |-> IF x \in M THEN x ELSE s]
  OBVIOUS
<1>6. \A x \in M : par[x] = x /\ Len(dr[x].rowT) \in Nat
  BY <1>1, <1>3, <1>5, BranchTyped
<1>7. \A x \in {s} \cup new : par[x] = s
  BY <1>1, <1>5
<1>8. ASSUME NEW x \in M \cup new PROVE par[x] \in M /\ Grew(b, n, dr, par[x], dr2, L, L, x)
  <2>1. CASE x \in {s} \cup new
    <3>1. PICK t, rt, rd : GoesOn(dr2[x], drafts[s], step, t, rt, rd)
      BY <2>1
    <3>2. /\ Len(dr2[x].tokens) = k + 2 /\ dr2[x].rowT = dr[s].rowT
          /\ \A i \in 1..(k + 1) : dr2[x].tokens[i] = dr[s].tokens[i]
      BY <1>1, <3>1 DEF GoesOn
    <3>3. k + 1 <= k + 2 /\ k + 1 <= Cap + 1
      BY <1>2
    <3>4. Heir(dr, s, dr2, x)
      BY <1>3, <3>2, <3>3 DEF Heir
    <3> QED BY <1>1, <1>7, <2>1, <3>2, <3>4 DEF Grew
  <2>2. CASE x \notin {s} \cup new
    <3>1. x \in M /\ dr2[x] = dr[x] /\ par[x] = x
      BY <1>1, <1>6, <2>2
    <3>2. RowsOf(b, n, dr, x)
      BY <1>4, <3>1
    <3>3. x \in Ids /\ Len(dr[x].rowT) \in Nat /\ Len(dr[x].tokens) \in Nat
      BY <1>1, <1>3, <3>1, BranchTyped
    <3>4. Heir(dr, x, dr2, x)
      BY <3>1, <3>2, <3>3 DEF Heir, RowsOf
    <3> QED BY <3>1, <3>4 DEF Grew
  <2> QED BY <2>1, <2>2
<1>9. ASSUME NEW j \in 1..L PROVE EntryStays(b, b, dr, par, S, j)
  <2>1. EntryOf(b, n, dr, S, j)
    BY <1>4
  <2>2. b[j].seqs \subseteq S /\ \A x \in b[j].seqs : HasRow(dr, x, j)
    BY <2>1 DEF EntryOf, HasRow
  <2>3. \A x \in S : HasRow(dr, x, j) => x \in b[j].seqs
    BY <1>4 DEF HasRow
  <2>4. \A x \in S : par[x] = x
    BY <1>4, <1>6
  <2> QED BY <2>2, <2>3, <2>4 DEF EntryStays
<1>10. NewEntries(b, n, dr2, S, 1, L, L)
  BY <1>2 DEF NewEntries
<1>11. Rows(b, n, dr2, M \cup new, S)
  <2>1. PICK M2 : M2 = M \cup new
    OBVIOUS
  <2>2. L = Len(b) /\ L <= L /\ L \in Nat /\ n \in Nat
    BY <1>1, <1>2
  <2>3. M \subseteq M2 /\ S \subseteq S /\ S \subseteq M2
    BY <1>4, <2>1
  <2>4. \A x \in M2 : par[x] \in M /\ Grew(b, n, dr, par[x], dr2, L, L, x)
    BY <1>8, <2>1
  <2>5. 1 \in Nat \ {0}
    OBVIOUS
  <2>6. Rows(b, n, dr2, M2, S)
    BY ONLY <1>3, <1>6, <1>9, <1>10, <2>2, <2>3, <2>4, <2>5, RowsGrow
  <2> QED BY <2>1, <2>6
<1> QED BY <1>1, <1>11

LEMMA SplitRowsNow ==
  ASSUME Typed, Lengths, RowsKnown, Depth, pc = "draft", NEW s \in todo, s \in Made, ~opt.prune,
         NEW new, new \cap Made = {}, NEW dr2, NEW toks, NEW idx, NEW K \in Nat, NEW seqOf,
         \A i \in 1..K : seqOf[i] \in {s} \cup new /\ idx[seqOf[i]] = i,
         \A x \in {s} \cup new : idx[x] \in 1..K /\ seqOf[idx[x]] = x,
         \A x \in Made : x # s => dr2[x] = drafts[x],
         \A x \in {s} \cup new : GoesOn(dr2[x], drafts[s], step, toks[idx[x]],
                                        Len(batch.t) + idx[x], Len(batch.d) + idx[x]),
         NEW w, SharedBy(w, batch.t, Len(batch.t), s, new),
         NEW b2, Extends(b2, w, Len(batch.t), toks, K, seqOf, past.t + step + 1)
  PROVE  Rows(b2, past.t, dr2, Made \cup new, Made \cup new)
<1>1. PICK b, L, n, M, dr, k, p : /\ b = batch.t /\ L = Len(batch.t) /\ n = past.t
                                  /\ M = Made /\ dr = drafts /\ k = step /\ p = past.t + step + 1
  OBVIOUS
<1>2. L \in Nat /\ n \in Nat /\ k \in Nat /\ k + 1 <= Cap /\ Cap \in Nat /\ p = n + k + 1
  <2>1. past.t \in Nat /\ step \in Nat /\ step + 1 <= Cap /\ Cap \in Nat
    BY DepthBelowInf, TreeAssumption
  <2>2. Len(batch.t) \in Nat
    BY DEF Typed
  <2> QED BY <1>1, <2>1, <2>2
<1>3. Rows(b, n, dr, M, M) /\ M \subseteq Ids
      /\ Len(dr[s].tokens) = k + 1 /\ Len(dr[s].rowT) = k + 1
  BY <1>1 DEF Depth, RowsKnown, Picked
<1>4. /\ \A x \in M : RowsOf(b, n, dr, x)
      /\ \A x \in M : \A l \in 1..Len(dr[x].rowT) : x \in b[dr[x].rowT[l]].seqs
      /\ \A j \in 1..L : EntryOf(b, n, dr, M, j)
  BY <1>1, <1>3 DEF Rows
<1>5. PICK par : par = [x \in M \cup new |-> IF x \in M THEN x ELSE s]
  OBVIOUS
<1>6. \A x \in M : par[x] = x /\ Len(dr[x].rowT) \in Nat
  BY <1>1, <1>3, <1>5, BranchTyped
<1>7. \A x \in {s} \cup new : par[x] = s
  BY <1>1, <1>5
<1>8. /\ b2 \in Seq(Entries) /\ Len(b2) = L + K /\ \A j \in 1..L : b2[j] = w[j]
      /\ \A i \in 1..K : /\ b2[L + i].pos = p /\ b2[L + i].first = seqOf[i]
                         /\ b2[L + i].seqs = {seqOf[i]} /\ b2[L + i].tok = toks[i]
  <2>1. Extends(b2, w, L, toks, K, seqOf, p)
    BY <1>1, Zenon
  <2> QED BY <2>1, Zenon DEF Extends
<1>9. ASSUME NEW x \in {s} \cup new
      PROVE  /\ Heir(dr, s, dr2, x) /\ LastRow(b2, n, dr2, x, k + 2, L + idx[x])
             /\ L + idx[x] \in (L + 1)..(L + K)
  <2>1. PICK i, t, rt, rd : i = idx[x] /\ t = toks[i] /\ rt = L + i /\ rd = Len(batch.d) + i
    OBVIOUS
  <2>2. GoesOn(dr2[x], drafts[s], step, t, rt, rd)
    BY <1>1, <2>1, Zenon
  <2>3. /\ Len(dr2[x].tokens) = k + 2 /\ dr2[x].tokens[k + 2] = t
        /\ \A l \in 1..(k + 1) : dr2[x].tokens[l] = dr[s].tokens[l]
        /\ Len(dr2[x].rowT) = k + 2 /\ dr2[x].rowT[k + 2] = rt
        /\ \A l \in 1..(k + 1) : dr2[x].rowT[l] = dr[s].rowT[l]
    BY <1>1, <2>2 DEF GoesOn
  <2>4. (k + 1) + 1 = k + 2 /\ k + 2 <= Cap + 1 /\ k + 2 <= k + 2 /\ n + (k + 2) - 1 = p
    BY <1>2
  <2>5. Heir(dr, s, dr2, x)
    BY <1>3, <2>3, <2>4 DEF Heir
  <2>6. i \in 1..K /\ seqOf[i] = x
    BY <2>1
  <2>7. rt \in (L + 1)..(L + K)
    BY <1>2, <2>1, <2>6
  <2>8. /\ b2[rt].pos = p /\ b2[rt].first = x /\ b2[rt].seqs = {x} /\ b2[rt].tok = t
    <3>1. /\ b2[L + i].pos = p /\ b2[L + i].first = seqOf[i]
          /\ b2[L + i].seqs = {seqOf[i]} /\ b2[L + i].tok = toks[i]
      BY <1>8, <2>6, Zenon
    <3> QED BY <2>1, <2>6, <3>1, Zenon
  <2>9. LastRow(b2, n, dr2, x, k + 2, rt)
    BY <2>3, <2>4, <2>8 DEF LastRow
  <2> QED BY <2>1, <2>5, <2>7, <2>9, Zenon
<1>10. PICK M2, L2, K2 : M2 = M \cup new /\ L2 = L + K /\ K2 = k + 2
  OBVIOUS
<1>11. ASSUME NEW x \in M2 PROVE par[x] \in M /\ Grew(b2, n, dr, par[x], dr2, L, L2, x)
  <2>1. CASE x \in {s} \cup new
    <3>1. PICK j : j = L + idx[x]
      OBVIOUS
    <3>2. /\ Heir(dr, s, dr2, x) /\ LastRow(b2, n, dr2, x, K2, j) /\ j \in (L + 1)..L2
      BY <1>9, <1>10, <2>1, <3>1, Zenon
    <3>3. K2 = Len(dr[s].rowT) + 1
      BY <1>2, <1>3, <1>10
    <3>4. Grew(b2, n, dr, s, dr2, L, L2, x)
      BY <3>2, <3>3, Zenon DEF Grew
    <3> QED BY <1>1, <1>7, <2>1, <3>4
  <2>2. CASE x \notin {s} \cup new
    <3>1. x \in M /\ dr2[x] = dr[x] /\ par[x] = x
      BY <1>1, <1>6, <1>10, <2>2
    <3>2. RowsOf(b, n, dr, x)
      BY <1>4, <3>1
    <3>3. x \in Ids /\ Len(dr[x].rowT) \in Nat /\ Len(dr[x].tokens) \in Nat
      BY <1>1, <1>3, <3>1, BranchTyped
    <3>4. Heir(dr, x, dr2, x)
      BY <3>1, <3>2, <3>3 DEF Heir, RowsOf
    <3> QED BY <3>1, <3>4 DEF Grew
  <2> QED BY <2>1, <2>2
<1>12. ASSUME NEW j \in 1..L PROVE EntryStays(b, b2, dr, par, M2, j)
  <2>1. EntryOf(b, n, dr, M, j)
    BY <1>4
  <2>2. b[j].seqs \subseteq M /\ \A x \in b[j].seqs : HasRow(dr, x, j)
    BY <2>1 DEF EntryOf, HasRow
  <2>3. \A x \in M : HasRow(dr, x, j) => x \in b[j].seqs
    BY <1>4 DEF HasRow
  <2>4. /\ b2[j].pos = b[j].pos /\ b2[j].first = b[j].first /\ b2[j].tok = b[j].tok
        /\ \A x : x \in b2[j].seqs <=> (x \in b[j].seqs \/ (x \in new /\ s \in b[j].seqs))
    <3>1. SharedBy(w, b, L, s, new) /\ b2[j] = w[j]
      BY <1>1, <1>8
    <3> QED BY <3>1 DEF SharedBy
  <2>5. \A x \in M2 : x \in b2[j].seqs <=> HasRow(dr, par[x], j)
    <3> SUFFICES ASSUME NEW x \in M2 PROVE x \in b2[j].seqs <=> HasRow(dr, par[x], j)
      OBVIOUS
    <3>1. CASE x \in M
      <4>1. x \notin new /\ par[x] = x
        BY <1>1, <1>6, <3>1
      <4> QED BY <2>2, <2>3, <2>4, <3>1, <4>1
    <3>2. CASE x \notin M
      <4>1. x \in new /\ par[x] = s /\ s \in M
        BY <1>1, <1>7, <1>10, <3>2
      <4> QED BY <2>2, <2>3, <2>4, <3>2, <4>1
    <3> QED BY <3>1, <3>2
  <2>6. b2[j].seqs \subseteq M2
    BY <1>10, <2>2, <2>4
  <2> QED BY <2>4, <2>5, <2>6 DEF EntryStays
<1>13. NewEntries(b2, n, dr2, M2, K2, L, L2)
  <2> SUFFICES ASSUME NEW j \in (L + 1)..L2 PROVE \E x \in M2 : LastRow(b2, n, dr2, x, K2, j)
    BY DEF NewEntries
  <2>1. PICK i : i = j - L
    OBVIOUS
  <2>2. i \in 1..K /\ j = L + i
    BY <1>2, <1>10, <2>1
  <2>3. PICK x : x = seqOf[i]
    OBVIOUS
  <2>4. x \in {s} \cup new /\ idx[x] = i
    BY <2>2, <2>3
  <2>5. LastRow(b2, n, dr2, x, K2, j)
    BY <1>9, <1>10, <2>2, <2>4, Zenon
  <2>6. x \in M2
    BY <1>1, <1>10, <2>4
  <2> QED BY <2>5, <2>6
<1>14. Rows(b2, n, dr2, M2, M2)
  <2>2. L = Len(b) /\ L <= L2 /\ L \in Nat /\ n \in Nat /\ L2 \in Nat /\ L2 = Len(b2)
    BY <1>1, <1>2, <1>8, <1>10
  <2>3. M \subseteq M2 /\ M2 \subseteq M2
    BY <1>10
  <2>4. K2 \in Nat \ {0}
    BY <1>2, <1>10
  <2>5. Rows(b, n, dr, M, M)
    BY <1>3
  <2> QED BY ONLY <1>6, <1>11, <1>12, <1>13, <2>2, <2>3, <2>4, <2>5, RowsGrow
<1> QED BY <1>1, <1>10, <1>14

-----------------------------------------------------------------------------
(* The cells of the sequence that splits are those of the new ones too;    *)
(* cells that a new sequence had before are no longer its own.             *)
SplitOff(m, m0, s, new) ==
  m = {[e EXCEPT !.seqs = (@ \ new) \cup (IF s \in @ THEN new ELSE {})] : e \in m0}

(* The cells of x are those y had. *)
TakenOver(m0, y, h, x) ==
  \E G : Moved(m0, y, h, x, G) /\ \A n : Moved(Below(m0, n), y, Below(h, n), x, G)

LEMMA SplitCache ==
  ASSUME NEW m0, CellsOK(m0), Bounded(m0), NEW s, NEW new, new \subseteq Ids, s \notin new, NEW m,
         SplitOff(m, m0, s, new), NEW h, h = Held(m)
  PROVE  /\ CellsOK(h) /\ Bounded(h)
         /\ \A x \in new : TakenOver(m0, s, h, x)
         /\ \A x : x \notin new => TakenOver(m0, x, h, x)
<1> DEFINE X(e) == (e.seqs \ new) \cup (IF s \in e.seqs THEN new ELSE {})
<1>1. \A f : f \in h <=> \E e \in m0 : f = [e EXCEPT !.seqs = X(e)] /\ f.seqs # {}
  BY DEF Held, SplitOff
<1>2. ASSUME NEW e \in m0
      PROVE  /\ [e EXCEPT !.seqs = X(e)] = With(e, X(e)) /\ With(e, X(e)).seqs = X(e)
             /\ Same(With(e, X(e)), e) /\ Shape(With(e, X(e))) /\ CellOK(e)
             /\ e.pos \in Nat /\ e.pos < Inf /\ X(e) \subseteq Ids
  <2>1. CellOK(e) /\ e.pos < Inf
    BY DEF CellsOK, Bounded
  <2>2. Shape(e) /\ e.pos \in Nat /\ e.seqs \subseteq Ids
    BY <2>1 DEF CellOK
  <2>3. X(e) \subseteq Ids
    BY <2>2
  <2>5. PICK Y : Y = X(e)
    OBVIOUS
  <2>6. /\ [e EXCEPT !.seqs = Y] = With(e, Y) /\ With(e, Y).seqs = Y
        /\ Same(With(e, Y), e) /\ Shape(With(e, Y))
    BY <2>2, WithFacts
  <2> QED BY <2>1, <2>2, <2>3, <2>5, <2>6
<1>3. \A f : f \in h <=> \E e \in m0 : f = With(e, X(e)) /\ f.seqs # {}
  <2> HIDE DEF X
  <2> SUFFICES ASSUME NEW f PROVE f \in h <=> \E e \in m0 : f = With(e, X(e)) /\ f.seqs # {}
    OBVIOUS
  <2>1. ASSUME f \in h PROVE \E e \in m0 : f = With(e, X(e)) /\ f.seqs # {}
    <3>1. PICK e \in m0 : f = [e EXCEPT !.seqs = X(e)] /\ f.seqs # {}
      BY <1>1, <2>1
    <3>2. [e EXCEPT !.seqs = X(e)] = With(e, X(e))
      BY <1>2
    <3> QED BY <3>1, <3>2
  <2>2. ASSUME NEW e \in m0, f = With(e, X(e)), f.seqs # {} PROVE f \in h
    <3>1. [e EXCEPT !.seqs = X(e)] = With(e, X(e))
      BY <1>2
    <3> QED BY <1>1, <2>2, <3>1
  <2> QED BY <2>1, <2>2
<1>4. ASSUME NEW f \in h PROVE CellOK(f) /\ f.pos < Inf
  <2> HIDE DEF X
  <2>1. PICK e \in m0 : f = With(e, X(e)) /\ f.seqs # {}
    BY <1>3
  <2>2. /\ f.seqs = X(e) /\ Same(f, e) /\ Shape(f) /\ CellOK(e)
        /\ e.pos \in Nat /\ e.pos < Inf /\ X(e) \subseteq Ids
    BY <1>2, <2>1
  <2> QED BY <2>1, <2>2 DEF CellOK, Same
<1>5. PICK G : G = [e \in m0 |-> With(e, X(e))]
  OBVIOUS
<1>6. ASSUME NEW e \in m0 PROVE G[e] = With(e, X(e)) /\ G[e].seqs = X(e) /\ Same(G[e], e)
  BY <1>2, <1>5
<1>7. ASSUME NEW x, NEW y, \A e \in m0 : x \in X(e) <=> y \in e.seqs
      PROVE  TakenOver(m0, y, h, x)
  <2> HIDE DEF X
  <2>1. ASSUME NEW e \in Of(m0, y) PROVE G[e] \in Of(h, x) /\ Same(G[e], e)
    <3>1. e \in m0 /\ x \in X(e)
      BY <1>7, <2>1 DEF Of
    <3>2. G[e] = With(e, X(e)) /\ x \in G[e].seqs /\ Same(G[e], e)
      BY <1>6, <3>1
    <3>3. G[e] \in h
      BY <1>3, <3>1, <3>2
    <3> QED BY <3>2, <3>3 DEF Of
  <2>2. ASSUME NEW f \in Of(h, x) PROVE \E e \in Of(m0, y) : f = G[e]
    <3>1. f \in h /\ x \in f.seqs
      BY DEF Of
    <3>2. PICK e \in m0 : f = With(e, X(e))
      BY <1>3, <3>1
    <3>3. f = G[e] /\ f.seqs = X(e)
      BY <1>6, <3>2
    <3>4. e \in Of(m0, y)
      BY <1>7, <3>1, <3>3 DEF Of
    <3> QED BY <3>3, <3>4
  <2>3. Moved(m0, y, h, x, G)
    BY <2>1, <2>2 DEF Moved
  <2>4. ASSUME NEW n PROVE Moved(Below(m0, n), y, Below(h, n), x, G)
    <3>1. \A e : e \in Of(Below(m0, n), y) <=> e \in Of(m0, y) /\ e.pos < n
      BY DEF Of, Below
    <3>2. \A e : e \in Of(Below(h, n), x) <=> e \in Of(h, x) /\ e.pos < n
      BY DEF Of, Below
    <3>3. ASSUME NEW e \in Of(Below(m0, n), y) PROVE G[e] \in Of(Below(h, n), x) /\ Same(G[e], e)
      BY <2>1, <3>1, <3>2 DEF Same
    <3>4. ASSUME NEW f \in Of(Below(h, n), x) PROVE \E e \in Of(Below(m0, n), y) : f = G[e]
      <4>1. f \in Of(h, x) /\ f.pos < n
        BY <3>2
      <4>2. PICK e \in Of(m0, y) : f = G[e]
        BY <2>2, <4>1
      <4>3. e.pos = f.pos
        BY <2>1, <4>2 DEF Same
      <4> QED BY <3>1, <4>1, <4>2, <4>3
    <3> QED BY <3>3, <3>4 DEF Moved
  <2> QED BY <2>3, <2>4 DEF TakenOver
<1>8. ASSUME NEW x \in new PROVE TakenOver(m0, s, h, x)
  <2>1. \A e \in m0 : x \in X(e) <=> s \in e.seqs
    OBVIOUS
  <2> HIDE DEF X
  <2> QED BY <1>7, <2>1
<1>9. ASSUME NEW x, x \notin new PROVE TakenOver(m0, x, h, x)
  <2>1. \A e \in m0 : x \in X(e) <=> x \in e.seqs
    BY <1>9
  <2> HIDE DEF X
  <2> QED BY <1>7, <2>1
<1> HIDE DEF X
<1> QED BY <1>4, <1>8, <1>9 DEF CellsOK, Bounded

LEMMA TakenOverSpells ==
  ASSUME NEW m0, NEW y, NEW h, NEW x, TakenOver(m0, y, h, x)
  PROVE  /\ \A q : Spells(m0, y, q) => Spells(h, x, q)
         /\ \A n, q : /\ Spells(Below(m0, n), y, q) => Spells(Below(h, n), x, q)
                      /\ (Spells(Below(m0, n), y, q) /\ AllExact(Below(m0, n), y))
                           => AllExact(Below(h, n), x)
<1>1. PICK G : Moved(m0, y, h, x, G) /\ \A n : Moved(Below(m0, n), y, Below(h, n), x, G)
  BY DEF TakenOver
<1> QED BY <1>1, MovedSpells

(* Who has proposed, and the entries of the draft's batch. *)
DepthEntry(b, j, dr, p, k) ==
  /\ b[j].seqs = {b[j].first} /\ dr[b[j].first].rowD = j /\ b[j].pos = p
  /\ b[j].tok = dr[b[j].first].tokens[k + 2]

DepthSplit(b2, dr2, s, new) ==
  /\ UNION {b2[j].seqs : j \in DOMAIN b2} = Proposed \cup {s} \cup new
  /\ \A j \in 1..Len(b2) : DepthEntry(b2, j, dr2, past.d + step, step)

LEMMA SplitDepth ==
  ASSUME Typed, Depth, pc = "draft", NEW s \in todo, NEW new, new \cap Made = {}, new \subseteq Ids,
         NEW toks, NEW k \in Nat, NEW seqOf, NEW idx, NEW dr2,
         \A i \in 1..k : seqOf[i] \in {s} \cup new /\ idx[seqOf[i]] = i,
         \A x \in {s} \cup new : idx[x] \in 1..k /\ seqOf[idx[x]] = x,
         \A x \in Made : x # s => dr2[x] = drafts[x],
         \A x \in {s} \cup new : GoesOn(dr2[x], drafts[s], step, toks[idx[x]],
                                        Len(batch.t) + idx[x], Len(batch.d) + idx[x]),
         NEW b2, Extends(b2, batch.d, Len(batch.d), toks, k, seqOf, past.d + step)
  PROVE  DepthSplit(b2, dr2, s, new)
<1>1. PICK b, L, p, l : b = batch.d /\ L = Len(batch.d) /\ p = past.d + step /\ l = step
  OBVIOUS
<1>2. L \in Nat /\ DOMAIN b = 1..L
  <2>1. batch.d \in Seq(Entries)
    BY DEF Typed
  <2> QED BY <1>1, <2>1, LenProperties
<1>3. /\ b2 \in Seq(Entries) /\ Len(b2) = L + k /\ \A j \in 1..L : b2[j] = b[j]
      /\ \A i \in 1..k : /\ b2[L + i].pos = p /\ b2[L + i].first = seqOf[i]
                         /\ b2[L + i].seqs = {seqOf[i]} /\ b2[L + i].tok = toks[i]
  <2>1. Extends(b2, b, L, toks, k, seqOf, p)
    BY <1>1, Zenon
  <2> QED BY <2>1, Zenon DEF Extends
<1>4. DOMAIN b2 = 1..(L + k)
  BY <1>3, LenProperties
<1>5. /\ \A j \in 1..L : DepthEntry(b, j, drafts, p, l) /\ b[j].first \in Proposed
      /\ Proposed \subseteq Made /\ s \notin Proposed
  <2>1. ASSUME NEW j \in 1..L PROVE DepthEntry(b, j, drafts, p, l) /\ b[j].first \in Proposed
    <3>1. DepthEntry(b, j, drafts, p, l)
      BY <1>1 DEF Depth, DepthEntry
    <3>2. b[j].first \in b[j].seqs /\ j \in DOMAIN b
      BY <1>2, <3>1 DEF DepthEntry
    <3> QED BY <1>1, <3>1, <3>2 DEF Proposed
  <2> QED BY <2>1 DEF Depth
<1>6. ASSUME NEW j \in 1..(L + k), j \notin 1..L
      PROVE  \E i \in 1..k : j = L + i
  <2>1. PICK i : i = j - L
    OBVIOUS
  <2>2. i \in 1..k /\ j = L + i
    BY <1>2, <1>6, <2>1
  <2> QED BY <2>2
<1>7. ASSUME NEW j \in 1..(L + k) PROVE DepthEntry(b2, j, dr2, p, l)
  <2>1. CASE j \in 1..L
    <3>1. PICK x : x = b[j].first
      OBVIOUS
    <3>2. dr2[x] = drafts[x] /\ b2[j] = b[j]
      BY <1>3, <1>5, <2>1, <3>1
    <3> QED BY <1>5, <2>1, <3>1, <3>2 DEF DepthEntry
  <2>2. CASE j \notin 1..L
    <3>1. PICK i \in 1..k : j = L + i
      BY <1>6, <2>2
    <3>2. PICK x, t, rt : x = seqOf[i] /\ t = toks[i] /\ rt = Len(batch.t) + i
      OBVIOUS
    <3>3. x \in {s} \cup new /\ idx[x] = i
      BY <3>2
    <3>4. GoesOn(dr2[x], drafts[s], step, t, rt, j)
      BY <1>1, <3>1, <3>2, <3>3, Zenon
    <3>5. dr2[x].rowD = j /\ dr2[x].tokens[l + 2] = t
      BY <1>1, <3>4 DEF GoesOn
    <3>6. b2[j].pos = p /\ b2[j].first = x /\ b2[j].seqs = {x} /\ b2[j].tok = t
      BY <1>3, <3>1, <3>2, Zenon
    <3> QED BY <3>5, <3>6 DEF DepthEntry
  <2> QED BY <2>1, <2>2
<1>8. ASSUME NEW x
      PROVE  (\E j \in 1..(L + k) : x \in b2[j].seqs) <=> x \in Proposed \cup {s} \cup new
  <2>1. ASSUME NEW j \in 1..(L + k), x \in b2[j].seqs PROVE x \in Proposed \cup {s} \cup new
    <3>1. CASE j \in 1..L
      BY <1>3, <1>5, <2>1, <3>1 DEF DepthEntry
    <3>2. CASE j \notin 1..L
      <4>1. PICK i \in 1..k : j = L + i
        BY <1>6, <3>2
      <4>2. b2[j].seqs = {seqOf[i]}
        BY <1>3, <4>1, Zenon
      <4> QED BY <2>1, <4>2
    <3> QED BY <3>1, <3>2
  <2>2. ASSUME x \in Proposed PROVE \E j \in 1..(L + k) : x \in b2[j].seqs
    <3>1. PICK j \in 1..L : x \in b[j].seqs
      BY <1>1, <1>2, <2>2 DEF Proposed
    <3>2. j \in 1..(L + k)
      BY <1>2
    <3> QED BY <1>3, <3>1, <3>2
  <2>3. ASSUME x \in {s} \cup new PROVE \E j \in 1..(L + k) : x \in b2[j].seqs
    <3>1. PICK i : i = idx[x]
      OBVIOUS
    <3>2. i \in 1..k /\ seqOf[i] = x
      BY <2>3, <3>1
    <3>3. PICK j : j = L + i
      OBVIOUS
    <3>4. j \in 1..(L + k)
      BY <1>2, <3>2, <3>3
    <3>5. b2[j].seqs = {seqOf[i]}
      BY <1>3, <3>2, <3>3, Zenon
    <3> QED BY <3>2, <3>4, <3>5
  <2> QED BY <2>1, <2>2, <2>3
<1>9. UNION {b2[j].seqs : j \in DOMAIN b2} = Proposed \cup {s} \cup new
  <2>1. \A x : x \in UNION {b2[j].seqs : j \in DOMAIN b2} <=> \E j \in 1..(L + k) : x \in b2[j].seqs
    BY ZenonT(60), <1>4
  <2>2. \A x : x \in UNION {b2[j].seqs : j \in DOMAIN b2} <=> x \in Proposed \cup {s} \cup new
    BY <1>8, <2>1, Zenon
  <2> QED BY <2>2, Zenon
<1> QED BY <1>1, <1>3, <1>7, <1>9 DEF DepthSplit

LEMMA ProposeStep == Inv /\ Propose => Inv'
<1> SUFFICES ASSUME Inv, Propose PROVE Inv'
  OBVIOUS
<1>1. /\ Typed /\ Lengths /\ RowsKnown /\ Depth /\ BelowRoot /\ DraftDepth /\ OutputInSupport
  BY DEF Inv
<1>2. PICK s : s = LowestOf(todo)
  OBVIOUS
<1>3. /\ pc = "draft" /\ todo # {} /\ pc' = pc /\ out' = out
      /\ opt' = opt /\ prompt' = prompt /\ text' = text /\ past' = past
      /\ keep' = keep /\ scanned' = scanned /\ open' = open /\ seen' = seen
      /\ ndraft' = ndraft /\ step' = step /\ chosen' = chosen /\ todo' = todo \ {s}
  BY <1>2, ProposeIs
<1>4. s \in todo
  <2>1. todo \in SUBSET Nat
    BY <1>1, OptionsTyped DEF Typed
  <2> QED BY <1>2, <1>3, <2>1, LowestIs
<1>5. PICK toks \in UNION {[1..k -> Token] : k \in 1..(1 + Room)} :
              \E k, new, seqOf, idx, split, shared :
                /\ Splits(s, toks, k, new, seqOf, idx, split, shared)
                /\ mem' = [mem EXCEPT ![Dft] = Held(split)]
                /\ batch' = [t |-> IF opt.prune THEN batch.t
                                   ELSE shared \o AddedAt(toks, k, seqOf, past.t + step + 1),
                             d |-> batch.d \o AddedAt(toks, k, seqOf, past.d + step)]
                /\ drafts' = SplitBranches(s, toks, new, idx)
                /\ nseq' = nseq + k - 1
  <2>1. ProposesOf(s)
    BY <1>2, ProposeIs
  <2> QED BY <2>1, Zenon DEF ProposesOf
<1>6. PICK k, new, seqOf, idx, split, shared :
                /\ Splits(s, toks, k, new, seqOf, idx, split, shared)
                /\ mem' = [mem EXCEPT ![Dft] = Held(split)]
                /\ batch' = [t |-> IF opt.prune THEN batch.t
                                   ELSE shared \o AddedAt(toks, k, seqOf, past.t + step + 1),
                             d |-> batch.d \o AddedAt(toks, k, seqOf, past.d + step)]
                /\ drafts' = SplitBranches(s, toks, new, idx)
                /\ nseq' = nseq + k - 1
  BY <1>5, Zenon
<1>7. PICK dr2, h, bt, bd, m0 :
         /\ dr2 = SplitBranches(s, toks, new, idx) /\ h = Held(split) /\ m0 = mem[Dft]
         /\ bt = (IF opt.prune THEN batch.t
                  ELSE shared \o AddedAt(toks, k, seqOf, past.t + step + 1))
         /\ bd = batch.d \o AddedAt(toks, k, seqOf, past.d + step)
  OBVIOUS
<1>8. /\ drafts' = dr2 /\ mem' = [mem EXCEPT ![Dft] = h]
      /\ batch' = [t |-> bt, d |-> bd] /\ batch'.t = bt /\ batch'.d = bd
  BY <1>6, <1>7
(* The family. *)
<1>9. /\ k \in Nat /\ k >= 1 /\ \A i \in 1..k : toks[i] \in Token
      /\ s \in Made /\ s \in Ids /\ new \subseteq Ids /\ new \cap Made = {}
      /\ Made' = Made \cup new /\ nseq' \in 1..opt.nseq
      /\ \A i \in 1..k : seqOf[i] \in {s} \cup new /\ idx[seqOf[i]] = i
      /\ \A n \in {s} \cup new : idx[n] \in 1..k /\ seqOf[idx[n]] = n
  <2>1. /\ Splits(s, toks, k, new, seqOf, idx, split, shared) /\ nseq' = nseq + k - 1
        /\ opt' = opt /\ Typed /\ RowsKnown /\ Depth /\ pc = "draft"
    BY <1>1, <1>3, <1>6
  <2> QED BY <1>4, <1>5, <2>1, FamilyIs
<1>10. /\ dr2 \in [Ids -> Branches]
       /\ \A n \in Ids : n \notin {s} \cup new => dr2[n] = drafts[n]
       /\ \A n \in {s} \cup new :
            /\ GoesOn(dr2[n], drafts[s], step, toks[idx[n]], Len(batch.t) + idx[n],
                      Len(batch.d) + idx[n])
            /\ (n \in new \/ drafts[s].active) => dr2[n].active
            /\ dr2[n].drafting
  <2>1. \A n \in {s} \cup new : idx[n] \in 1..k
    BY <1>9
  <2>2. Typed /\ RowsKnown /\ Depth /\ pc = "draft" /\ dr2 = SplitBranches(s, toks, new, idx)
    BY <1>1, <1>3, <1>7
  <2>3. s \in Ids /\ k \in Nat /\ new \subseteq Ids /\ \A i \in 1..k : toks[i] \in Token
    BY <1>9
  <2>4. BranchesSplit(dr2, s, new, toks, idx)
    BY <1>4, <2>1, <2>2, <2>3, SplitDrafts
  <2> QED BY <2>4, Zenon DEF BranchesSplit
<1>11. /\ past.d + step < Inf
       /\ past.d + step \in Nat /\ past.t < past.d + step
       /\ past.d = past.t + 1 /\ step \in Nat /\ past.t \in Nat /\ past.d \in Nat /\ step + 1 <= Cap
  BY <1>1, <1>3, DepthBelowInf
<1>12. /\ Made \subseteq Ids /\ 0 \in Made /\ Picked \subseteq Made /\ todo \subseteq Picked
       /\ Proposed \subseteq Made /\ s \notin Proposed /\ todo \cap Proposed = {}
       /\ s \notin new /\ 0 \notin new /\ todo \cap new = {} /\ Proposed \cap new = {}
  <2>1. /\ Made \subseteq Ids /\ 0 \in Made /\ Picked \subseteq Made /\ todo \subseteq Picked
        /\ Proposed \subseteq Made /\ todo \cap Proposed = {}
    BY <1>1, <1>3 DEF RowsKnown, Rows, Depth
  <2> QED BY <1>4, <1>9, <2>1
<1>13. \A x \in Made : x # s => dr2[x] = drafts[x]
  BY <1>9, <1>10, <1>12
<1>14. \A x \in {s} \cup new : GoesOn(dr2[x], drafts[s], step, toks[idx[x]],
                                      Len(batch.t) + idx[x], Len(batch.d) + idx[x])
  BY <1>10
(* The batches. *)
<1>15. Extends(bd, batch.d, Len(batch.d), toks, k, seqOf, past.d + step)
  <2>1. PICK a, L, p : a = batch.d /\ L = Len(batch.d) /\ p = past.d + step
    OBVIOUS
  <2>2. a \in Seq(Entries) /\ L = Len(a) /\ p \in Nat /\ bd = a \o AddedAt(toks, k, seqOf, p)
    BY <1>1, <1>7, <1>11, <2>1 DEF Typed
  <2>3. \A i \in 1..k : toks[i] \in Token /\ seqOf[i] \in Ids
    BY <1>9
  <2>4. Extends(bd, a, L, toks, k, seqOf, p)
    BY <1>9, <2>2, <2>3, AddedTo
  <2> QED BY <2>1, <2>4
<1>16. /\ Proposed' = Proposed \cup {s} \cup new
       /\ \A j \in 1..Len(bd) : DepthEntry(bd, j, dr2, past.d + step, step)
  <2>1. /\ UNION {bd[j].seqs : j \in DOMAIN bd} = Proposed \cup {s} \cup new
        /\ \A j \in 1..Len(bd) : DepthEntry(bd, j, dr2, past.d + step, step)
    <3>1. /\ \A i \in 1..k : seqOf[i] \in {s} \cup new /\ idx[seqOf[i]] = i
          /\ \A x \in {s} \cup new : idx[x] \in 1..k /\ seqOf[idx[x]] = x
      BY <1>9
    <3>2. Typed /\ Depth /\ pc = "draft" /\ new \cap Made = {} /\ new \subseteq Ids /\ k \in Nat
      BY <1>1, <1>3, <1>9
    <3>3. DepthSplit(bd, dr2, s, new)
      BY ONLY <1>4, <1>13, <1>14, <1>15, <3>1, <3>2, SplitDepth
    <3> QED BY <3>3, Zenon DEF DepthSplit
  <2> QED BY ZenonT(60), <1>8, <2>1 DEF Proposed
<1>17. /\ Ids' = Ids /\ Depths' = Depths /\ (Behaved' <=> Behaved) /\ Dft' = Dft
       /\ Picked' = (IF opt.prune THEN chosen.seqs ELSE Made \cup new)
       /\ Picked = (IF opt.prune THEN chosen.seqs ELSE Made)
  BY <1>3, <1>9 DEF Ids, Picked, Depths, Behaved, Dft
<1>18. bt \in Seq(Entries) /\ Rows(bt, past.t, dr2, Made \cup new, Picked')
  <2>1. CASE opt.prune
    <3>1. bt = batch.t /\ batch.t \in Seq(Entries) /\ Picked' = chosen.seqs
      BY <1>1, <1>7, <1>17, <2>1 DEF Typed
    <3>2. Rows(batch.t, past.t, dr2, Made \cup new, chosen.seqs)
      <4>1. /\ Typed /\ Lengths /\ RowsKnown /\ Depth /\ pc = "draft" /\ s \in Made
            /\ new \cap Made = {}
        BY <1>1, <1>3, <1>9
      <4> QED BY ONLY <1>4, <1>13, <1>14, <2>1, <4>1, SplitRowsLater
    <3> QED BY <3>1, <3>2
  <2>2. CASE ~opt.prune
    <3>1. SharedBy(shared, batch.t, Len(batch.t), s, new)
      <4>1. PICK b, L : b = batch.t /\ L = Len(batch.t)
        OBVIOUS
      <4>2. shared = [i \in DOMAIN b |->
                       IF s \in b[i].seqs THEN [b[i] EXCEPT !.seqs = @ \cup new] ELSE b[i]]
        BY <1>6, <4>1, Zenon DEF Splits
      <4>3. b \in Seq(Entries) /\ L = Len(b)
        BY <1>1, <4>1 DEF Typed
      <4>4. SharedBy(shared, b, L, s, new)
        BY <1>9, <4>2, <4>3, SharedSplit
      <4> QED BY <4>1, <4>4
    <3>2. Extends(bt, shared, Len(batch.t), toks, k, seqOf, past.t + step + 1)
      <4>1. PICK L, p : L = Len(batch.t) /\ p = past.t + step + 1
        OBVIOUS
      <4>2. shared \in Seq(Entries) /\ Len(shared) = L
        BY <3>1, <4>1 DEF SharedBy
      <4>3. p \in Nat
        BY <1>11, <4>1
      <4>4. bt = shared \o AddedAt(toks, k, seqOf, p)
        BY <1>7, <2>2, <4>1
      <4>5. \A i \in 1..k : toks[i] \in Token /\ seqOf[i] \in Ids
        BY <1>9
      <4>6. Extends(bt, shared, L, toks, k, seqOf, p)
        BY <1>9, <4>2, <4>3, <4>4, <4>5, AddedTo
      <4> QED BY <4>1, <4>6
    <3>3. Rows(bt, past.t, dr2, Made \cup new, Made \cup new)
      <4>1. /\ Typed /\ Lengths /\ RowsKnown /\ Depth /\ pc = "draft" /\ s \in Made
            /\ new \cap Made = {} /\ k \in Nat
        BY <1>1, <1>3, <1>9
      <4>2. /\ \A i \in 1..k : seqOf[i] \in {s} \cup new /\ idx[seqOf[i]] = i
            /\ \A x \in {s} \cup new : idx[x] \in 1..k /\ seqOf[idx[x]] = x
        BY <1>9
      <4> QED BY ONLY <1>4, <1>13, <1>14, <2>2, <3>1, <3>2, <4>1, <4>2, SplitRowsNow
    <3> QED BY <1>17, <2>2, <3>2, <3>3 DEF Extends
  <2> QED BY <2>1, <2>2
(* The caches. *)
<1>19. mem = [t |-> mem.t, d |-> mem.d] /\ CellsOK(mem.t) /\ CellsOK(mem.d)
      /\ Bounded(mem.t) /\ Bounded(mem.d)
  BY <1>1, <1>3 DEF Typed, Lengths, Bounded
<1>20. m0 = (IF opt.share THEN mem.t ELSE mem.d) /\ CellsOK(m0) /\ Bounded(m0)
  BY <1>7, <1>19, DraftCache
<1>21. /\ CellsOK(h) /\ Bounded(h)
       /\ \A x \in new : TakenOver(m0, s, h, x)
       /\ \A x : x \notin new => TakenOver(m0, x, h, x)
  <2>1. SplitOff(split, m0, s, new)
    BY <1>6, <1>7, Zenon DEF Splits, SplitOff
  <2>2. h = Held(split) /\ new \subseteq Ids /\ s \notin new
    BY <1>7, <1>9, <1>12
  <2> QED BY <1>20, <2>1, <2>2, SplitCache
<1>22. /\ mem' = [t |-> mem'.t, d |-> mem'.d] /\ CellsOK(mem.t)' /\ CellsOK(mem.d)'
       /\ Bounded(mem'.t) /\ Bounded(mem'.d) /\ mem'[Dft'] = h
       /\ (opt.share => mem'.t = h) /\ (~opt.share => mem'.t = mem.t /\ mem'.d = h)
  BY <1>1, <1>3, <1>8, <1>19, <1>21, DraftReplaced
<1>30. Typed'
  <2>1. Entries' = Entries /\ Branches' = Branches
    BY <1>17 DEF Entries, Branches
  <2>2. batch' \in [t : Seq(Entries), d : Seq(Entries)]
    <3>1. bd \in Seq(Entries)
      BY <1>15 DEF Extends
    <3> QED BY <1>8, <1>18, <3>1
  <2>3. /\ chosen' \in [seqs : SUBSET Ids, nodes : Nat] /\ out' = [t |-> out'.t, d |-> out'.d]
        /\ todo' \subseteq Ids /\ step' \in Nat
    BY <1>1, <1>3 DEF Typed
  <2>4. drafts' \in [Ids -> Branches]
    BY <1>8, <1>10
  <2>5. /\ pc' \in {"prefill", "skipped", "round", "verify", "keep", "draft", "target", "done"}
        /\ opt' \in Options /\ prompt' \in Prompts /\ text' \in Seq(Token)
        /\ keep' \in Ids /\ scanned' \in Nat /\ open' \subseteq Ids /\ ndraft' \in 0..Cap
        /\ past' \in [t : Nat, d : Nat] /\ nseq' \in 1..opt'.nseq
    BY <1>1, <1>3, <1>9 DEF Typed
  <2> QED BY <1>17, <1>22, <2>1, <2>2, <2>3, <2>4, <2>5 DEF Typed
<1>31. Lengths'
  <2>1. step' < Depths'
    BY <1>1, <1>3, <1>17 DEF Lengths
  <2>2. \A e \in mem'.t \cup mem'.d : e.pos < Inf
    BY <1>22 DEF Bounded
  <2>3. /\ Len(prompt) <= Len(text) /\ Len(text) = past.t + 1 /\ past.d = past.t + 1
        /\ Len(text) <= Len(prompt) + Predict
    BY <1>1, <1>3 DEF Lengths
  <2> QED BY <1>3, <2>1, <2>2, <2>3 DEF Lengths
<1>32. RowsKnown'
  <2>1. Rows(batch'.t, past'.t, drafts', Made', Picked')
    BY <1>3, <1>8, <1>9, <1>18
  <2>2. ASSUME NEW x \in Made' PROVE drafts'[x].tokens[1] = text'[Len(text')]
    <3>1. \A y \in Made : drafts[y].tokens[1] = text[Len(text)]
      BY <1>1, <1>3 DEF RowsKnown
    <3>2. CASE x \in {s} \cup new
      <4>1. PICK t, rt, rd : GoesOn(dr2[x], drafts[s], step, t, rt, rd)
        BY <1>14, <3>2
      <4>2. 1 \in 1..(step + 1)
        BY <1>11
      <4>3. dr2[x].tokens[1] = drafts[s].tokens[1]
        BY <4>1, <4>2 DEF GoesOn
      <4> QED BY <1>3, <1>8, <1>9, <3>1, <4>3
    <3>3. CASE x \notin {s} \cup new
      <4>1. x \in Made /\ dr2[x] = drafts[x]
        BY <1>9, <1>13, <3>3
      <4> QED BY <1>3, <1>8, <3>1, <4>1
    <3> QED BY <3>2, <3>3
  <2>3. Made' \subseteq Ids'
    BY <1>9, <1>12, <1>17
  <2> QED BY <2>1, <2>2, <2>3 DEF RowsKnown
<1>33. ASSUME NEW x \in {s} \cup new
       PROVE  /\ Len(dr2[x].tokens) = step + 2
              /\ \A i \in 1..(step + 1) : dr2[x].tokens[i] = drafts[s].tokens[i]
              /\ opt.prune => dr2[x].rowT = drafts[s].rowT
              /\ ~opt.prune => Len(dr2[x].rowT) = step + 2
  <2>1. PICK t, rt, rd : GoesOn(dr2[x], drafts[s], step, t, rt, rd)
    BY <1>14
  <2> QED BY <2>1 DEF GoesOn
<1>34. Len(drafts[s].tokens) = step + 1 /\ Len(drafts[s].rowT) = step + 1
  BY <1>1, <1>3, <1>4 DEF Depth
<1>35. Depth'
  <2>1. todo' \subseteq Picked' /\ todo' \cap Proposed' = {} /\ Proposed' \subseteq Made'
    BY <1>3, <1>9, <1>12, <1>16, <1>17
  <2>2. \A x \in todo' : Len(drafts'[x].tokens) = step' + 1 /\ Len(drafts'[x].rowT) = step' + 1
    <3> SUFFICES ASSUME NEW x \in todo'
                 PROVE  Len(drafts'[x].tokens) = step' + 1 /\ Len(drafts'[x].rowT) = step' + 1
      OBVIOUS
    <3>1. x \in todo /\ dr2[x] = drafts[x]
      BY <1>3, <1>12, <1>13
    <3>2. Len(drafts[x].tokens) = step + 1 /\ Len(drafts[x].rowT) = step + 1
      BY <1>1, <1>3, <3>1 DEF Depth
    <3> QED BY <1>3, <1>8, <3>1, <3>2
  <2>3. \A x \in Proposed' : Len(drafts'[x].tokens) = step' + 2
    <3> SUFFICES ASSUME NEW x \in Proposed' PROVE Len(drafts'[x].tokens) = step' + 2
      OBVIOUS
    <3>1. CASE x \in {s} \cup new
      BY <1>3, <1>8, <1>33, <3>1
    <3>2. CASE x \in Proposed
      <4>1. dr2[x] = drafts[x] /\ Len(drafts[x].tokens) = step + 2
        BY <1>1, <1>3, <1>12, <1>13, <3>2 DEF Depth
      <4> QED BY <1>3, <1>8, <4>1
    <3> QED BY <1>16, <3>1, <3>2
  <2>4. ASSUME opt.prune
        PROVE  /\ \A x \in Proposed' : Len(drafts'[x].rowT) = step' + 1
               /\ \A x \in Picked' \ Proposed' : Len(drafts'[x].rowT) = Len(drafts'[x].tokens)
    <3>1. ASSUME NEW x \in Proposed' PROVE Len(drafts'[x].rowT) = step' + 1
      <4>1. CASE x \in {s} \cup new
        BY <1>3, <1>8, <1>33, <1>34, <2>4, <4>1
      <4>2. CASE x \in Proposed
        <5>1. dr2[x] = drafts[x] /\ Len(drafts[x].rowT) = step + 1
          BY <1>1, <1>3, <1>12, <1>13, <2>4, <4>2 DEF Depth
        <5> QED BY <1>3, <1>8, <5>1
      <4> QED BY <1>16, <4>1, <4>2
    <3>2. ASSUME NEW x \in Picked' \ Proposed' PROVE Len(drafts'[x].rowT) = Len(drafts'[x].tokens)
      <4>1. x \in Picked \ Proposed /\ x # s
        BY <1>16, <1>17, <2>4
      <4>2. dr2[x] = drafts[x] /\ Len(drafts[x].rowT) = Len(drafts[x].tokens)
        BY <1>1, <1>3, <1>12, <1>13, <2>4, <4>1 DEF Depth
      <4> QED BY <1>8, <4>2
    <3> QED BY <3>1, <3>2
  <2>5. ASSUME ~opt.prune
        PROVE  /\ Proposed' = Made' \ todo'
               /\ \A x \in Made' : Len(drafts'[x].rowT) = Len(drafts'[x].tokens)
               /\ \A x \in Ids' : /\ drafts'[x].active <=> x \in Made'
                                  /\ drafts'[x].drafting <=> x \in Made'
    <3>1. /\ Proposed = Made \ todo
          /\ \A x \in Made : Len(drafts[x].rowT) = Len(drafts[x].tokens)
          /\ \A x \in Ids : /\ drafts[x].active <=> x \in Made
                            /\ drafts[x].drafting <=> x \in Made
      BY <1>1, <1>3, <2>5 DEF Depth
    <3>2. Proposed' = Made' \ todo'
      BY <1>3, <1>4, <1>9, <1>12, <1>16, <3>1
    <3>3. ASSUME NEW x \in Made' PROVE Len(drafts'[x].rowT) = Len(drafts'[x].tokens)
      <4>1. CASE x \in {s} \cup new
        BY <1>8, <1>33, <2>5, <4>1
      <4>2. CASE x \notin {s} \cup new
        <5>1. x \in Made /\ dr2[x] = drafts[x]
          BY <1>9, <1>13, <4>2
        <5> QED BY <1>8, <3>1, <5>1
      <4> QED BY <4>1, <4>2
    <3>4. ASSUME NEW x \in Ids
          PROVE  (drafts'[x].active <=> x \in Made') /\ (drafts'[x].drafting <=> x \in Made')
      <4>1. CASE x \in {s} \cup new
        <5>1. drafts[s].active
          BY <1>9, <3>1
        <5>2. dr2[x].active /\ dr2[x].drafting /\ x \in Made'
          BY <1>9, <1>10, <4>1, <5>1
        <5> QED BY <1>8, <5>2
      <4>2. CASE x \notin {s} \cup new
        <5>1. dr2[x] = drafts[x] /\ (x \in Made' <=> x \in Made)
          BY <1>9, <1>10, <4>2
        <5> QED BY <1>8, <3>1, <5>1
      <4> QED BY <4>1, <4>2
    <3> QED BY <1>17, <3>2, <3>3, <3>4
  <2>6. \A j \in 1..Len(batch'.d) :
         /\ batch'.d[j].seqs = {batch'.d[j].first} /\ drafts'[batch'.d[j].first].rowD = j
         /\ batch'.d[j].pos = past'.d + step'
         /\ batch'.d[j].tok = drafts'[batch'.d[j].first].tokens[step' + 2]
    BY <1>3, <1>8, <1>16 DEF DepthEntry
  <2>7. opt'.prune = opt.prune
    BY <1>3
  <2> QED BY <2>1, <2>2, <2>3, <2>4, <2>5, <2>6, <2>7, Zenon DEF Depth
<1>36. TreeReady' /\ Decided' /\ DraftWhole'
  BY <1>3 DEF TreeReady, Decided, DraftWhole
<1>37. BelowRoot'
  <2>1. PICK q \in Seq(Token) :
         /\ Len(q) = past.t
         /\ Spells(Below(mem.t, past.t), 0, q) /\ AllExact(Below(mem.t, past.t), 0)
         /\ opt.nseq = 1 => q = SubSeq(text, 1, past.t)
    BY <1>1, <1>3 DEF BelowRoot
  <2>2. ~opt.share => \A e \in mem.t : e.pos < past.t
    BY <1>1, <1>3 DEF BelowRoot
  <2>3. Spells(Below(mem'.t, past.t), 0, q) /\ AllExact(Below(mem'.t, past.t), 0)
    <3>1. CASE opt.share
      <4>1. mem'.t = h /\ mem.t = m0 /\ TakenOver(m0, 0, h, 0)
        BY <1>12, <1>20, <1>21, <1>22, <3>1
      <4>2. Spells(Below(m0, past.t), 0, q) /\ AllExact(Below(m0, past.t), 0)
        BY <2>1, <4>1
      <4>3. Spells(Below(h, past.t), 0, q) /\ AllExact(Below(h, past.t), 0)
        BY <4>1, <4>2, TakenOverSpells
      <4> QED BY <4>1, <4>3
    <3>2. CASE ~opt.share
      BY <1>22, <2>1, <3>2
    <3> QED BY <3>1, <3>2
  <2>4. ~opt.share => \A e \in mem'.t : e.pos < past.t
    BY <1>22, <2>2
  <2> QED BY <1>3, <2>1, <2>3, <2>4 DEF BelowRoot
<1>38. DraftDepth'
  <2> SUFFICES ASSUME Behaved PROVE DraftDepth'
    BY <1>17 DEF DraftDepth
  <2>1. /\ \A x \in Proposed : \E q \in Seq(Token) : DraftText(m0, drafts, past.d, step, x, q)
        /\ \A x \in todo : \E q \in Seq(Token) :
             /\ DraftText(m0, drafts, past.d, step, x, q)
             /\ drafts[x].rowD \in DOMAIN out.d /\ out.d[drafts[x].rowD].toks = q
    BY <1>1, <1>3, <1>7, DraftSpellsIs DEF DraftDepth
  <2>2. ASSUME NEW x, x \in Made, x # s, NEW q, DraftText(m0, drafts, past.d, step, x, q)
        PROVE  DraftSpells(x, q)'
    <3>1. x \notin new /\ dr2[x] = drafts[x]
      BY <1>9, <1>13, <2>2
    <3>2. TakenOver(m0, x, h, x)
      BY <1>21, <3>1
    <3>3. Len(q) = past.d + step /\ Spells(m0, x, q) /\ EndsLike(q, past.d, step, drafts[x].tokens)
      BY <2>2 DEF DraftText
    <3>4. Spells(h, x, q)
      BY <3>2, <3>3, TakenOverSpells
    <3>5. DraftText(h, dr2, past.d, step, x, q)
      BY <3>1, <3>3, <3>4 DEF DraftText
    <3> QED BY <1>3, <1>8, <1>22, <3>5, DraftSpellsIs
  <2>3. ASSUME NEW x \in {s} \cup new PROVE \E q \in Seq(Token) : DraftSpells(x, q)'
    <3>1. PICK q \in Seq(Token) : DraftText(m0, drafts, past.d, step, s, q)
      BY <1>4, <2>1
    <3>2. Len(q) = past.d + step /\ Spells(m0, s, q) /\ EndsLike(q, past.d, step, drafts[s].tokens)
      BY <3>1 DEF DraftText
    <3>3. TakenOver(m0, s, h, x)
      BY <1>12, <1>21
    <3>4. Spells(h, x, q)
      BY <3>2, <3>3, TakenOverSpells
    <3>5. EndsLike(q, past.d, step, dr2[x].tokens)
      BY <1>33, <3>2 DEF EndsLike
    <3>6. DraftText(h, dr2, past.d, step, x, q)
      BY <3>2, <3>4, <3>5 DEF DraftText
    <3>7. DraftSpells(x, q)'
      BY <1>3, <1>8, <1>22, <3>6, DraftSpellsIs
    <3> QED BY <3>7
  <2>4. ASSUME NEW x \in Proposed' PROVE \E q \in Seq(Token) : DraftSpells(x, q)'
    <3>1. CASE x \in {s} \cup new
      BY <2>3, <3>1
    <3>2. CASE x \in Proposed
      <4>1. PICK q \in Seq(Token) : DraftText(m0, drafts, past.d, step, x, q)
        BY <2>1, <3>2
      <4>2. x \in Made /\ x # s
        BY <1>12, <3>2
      <4>3. DraftSpells(x, q)'
        BY <2>2, <4>1, <4>2
      <4> QED BY <4>3
    <3> QED BY <1>16, <3>1, <3>2
  <2>5. ASSUME NEW x \in todo'
        PROVE  \E q \in Seq(Token) :
                 /\ DraftSpells(x, q)'
                 /\ drafts'[x].rowD \in DOMAIN out'.d /\ out'.d[drafts'[x].rowD].toks = q
    <3>1. x \in todo /\ x \in Made /\ x # s
      BY <1>3, <1>12
    <3>2. PICK q \in Seq(Token) :
             /\ DraftText(m0, drafts, past.d, step, x, q)
             /\ drafts[x].rowD \in DOMAIN out.d /\ out.d[drafts[x].rowD].toks = q
      BY <2>1, <3>1
    <3>3. DraftSpells(x, q)'
      BY <2>2, <3>1, <3>2
    <3>4. drafts'[x] = drafts[x] /\ out' = out
      BY <1>3, <1>8, <1>13, <3>1
    <3> QED BY <3>2, <3>3, <3>4
  <2> QED BY <2>4, <2>5 DEF DraftDepth
<1>39. OutputInSupport'
  BY <1>1, <1>3 DEF OutputInSupport
<1> QED BY <1>30, <1>31, <1>32, <1>35, <1>36, <1>37, <1>38, <1>39 DEF Inv

-----------------------------------------------------------------------------
(***************************************************************************)
(* The prompt.  Part of a text is decoded into sequence 0, behind the part *)
(* before it.                                                              *)
(***************************************************************************)
LEMMA OneMore ==
  ASSUME NEW m, NEW s, NEW q \in Seq(Token), Spells(m, s, q), NEW t \in Token,
         NEW e, e.pos = Len(q), s \in e.seqs, e.toks = Append(q, t)
  PROVE  /\ Spells(m \cup {e}, s, Append(q, t))
         /\ (AllExact(m, s) /\ e.exact) => AllExact(m \cup {e}, s)
<1>1. PICK w, N : w = << t >> /\ N = {e}
  OBVIOUS
<1>2. w \in Seq(Token) /\ Len(w) = 1 /\ SubSeq(w, 1, 1) = w /\ q \o w = Append(q, t)
  <2>1. w \in Seq(Token) /\ Len(w) = 1
    BY <1>1
  <2> QED BY <1>1, <2>1, SubSeqFull, AppendIsConcat
<1>3. Of(N, s) = {e}
  BY <1>1 DEF Of
<1>4. PICK p : p = Len(q)
  OBVIOUS
<1>5. p \in Nat
  BY <1>4
<1>6. Behind(N, s, q, w)
  <2>1. e.pos = p /\ e.toks = q \o w /\ p - p + 1 = 1 /\ p \in p..(p + 1 - 1)
        /\ \A x \in p..(p + 1 - 1) : x = p
    BY <1>2, <1>4, <1>5
  <2> QED BY <1>2, <1>3, <1>4, <2>1 DEF Behind
<1>7. Spells(m \cup N, s, q \o w)
  BY <1>2, <1>6, SpellsMore
<1>8. (AllExact(m, s) /\ e.exact) => AllExact(m \cup {e}, s)
  BY DEF AllExact, Of
<1> QED BY <1>1, <1>2, <1>7, <1>8

(* Batch b holds the tokens K+1 to K+L of z. *)
TextEntries(b, z, K, L) ==
  /\ b \in Seq(Entries) /\ Len(b) = L
  /\ \A i \in 1..L : /\ b[i].pos = K + i - 1 /\ b[i].first = 0 /\ b[i].seqs = {0}
                     /\ b[i].tok = z[K + i]

LEMMA PrefixIs ==
  ASSUME NEW z \in Seq(Token), NEW K \in Nat, NEW L \in Nat, K + L <= Len(z), 0 \in Ids,
         NEW f, NEW g, f = K + 1, g = K + L, NEW b, b = Prefix(z, f, g)
  PROVE  TextEntries(b, z, K, L)
<1>1. g - f + 1 = L /\ Len(z) \in Nat
  OBVIOUS
<1>2. b = [i \in 1..L |-> Entry(z[f + i - 1], f + i - 2, 0, {0})]
  BY <1>1 DEF Prefix
<1>3. ASSUME NEW i \in 1..L
      PROVE  /\ b[i] \in Entries /\ b[i].pos = K + i - 1 /\ b[i].first = 0 /\ b[i].seqs = {0}
             /\ b[i].tok = z[K + i]
  <2>1. PICK e, p, t : e = b[i] /\ p = K + i - 1 /\ t = z[K + i]
    OBVIOUS
  <2>2. f + i - 1 = K + i /\ f + i - 2 = p /\ p \in Nat /\ K + i \in 1..Len(z)
    BY <1>1, <2>1
  <2>3. t \in Token
    BY <2>1, <2>2, ElementOfSeq
  <2>4. e = Entry(t, p, 0, {0})
    BY <1>2, <2>1, <2>2
  <2>5. {0} \subseteq Ids /\ p \in Nat
    BY <2>2
  <2> QED BY <2>1, <2>3, <2>4, <2>5, EntryIs
<1>4. b \in Seq(Entries) /\ Len(b) = L
  <2>1. b = [i \in 1..L |-> b[i]]
    BY <1>2
  <2>2. b \in [1..L -> Entries]
    BY <1>3, <2>1
  <2> QED BY <2>2
<1> QED BY <1>3, <1>4 DEF TextEntries

(* The first k cells of the batch. *)
TextTo(m, engine, c, z, K, k) ==
  /\ Spells(m \cup FirstCells(c, k), 0, SubSeq(z, 1, K + k))
  /\ (engine = "t" /\ AllExact(m, 0)) => AllExact(m \cup FirstCells(c, k), 0)

LEMMA TextStep ==
  ASSUME NEW m, NEW engine, NEW b, NEW c, NEW z \in Seq(Token), NEW K \in Nat, NEW L \in Nat,
         K + L <= Len(z), TextEntries(b, z, K, L), NEW k \in 1..L, CellAt(m, engine, b, c, k),
         TextTo(m, engine, c, z, K, k - 1)
  PROVE  /\ TextTo(m, engine, c, z, K, k) /\ c[k].toks = SubSeq(z, 1, K + k)
         /\ (engine = "t" /\ AllExact(m, 0)) => c[k].exact
<1>1. PICK M, q, t, p : /\ M = m \cup FirstCells(c, k - 1) /\ q = SubSeq(z, 1, K + (k - 1))
                        /\ t = z[K + k] /\ p = K + (k - 1)
  OBVIOUS
<1>2. p \in Nat /\ p \in 0..Len(z) /\ p \in 0..(Len(z) - 1) /\ p + 1 = K + k /\ K + k \in 1..Len(z)
      /\ p = K + k - 1
  BY <1>1
<1>3. q \in Seq(Token) /\ Len(q) = p /\ t \in Token
  BY <1>1, <1>2, FirstPart, ElementOfSeq
<1>4. Spells(M, 0, q) /\ ((engine = "t" /\ AllExact(m, 0)) => AllExact(M, 0))
  BY <1>1 DEF TextTo
<1>5. b[k].pos = p /\ b[k].first = 0 /\ b[k].seqs = {0} /\ b[k].tok = t
  BY <1>1, <1>2 DEF TextEntries
<1>6. PICK x, y : x = c[k] /\ y = b[k]
  OBVIOUS
<1>7. x = CellFor(M, engine, y) /\ y.pos = p /\ y.first = 0 /\ y.seqs = {0} /\ y.tok = t
  BY <1>1, <1>5, <1>6 DEF CellAt, FirstCells
<1>8. /\ Spells(Below(M, p), 0, q)
      /\ AllExact(M, 0) => AllExact(Below(M, p), 0)
  BY <1>2, <1>3, <1>4, SpellsBelow
<1>9. /\ x.pos = p /\ x.seqs = {0} /\ x.toks = Append(q, t)
      /\ (engine = "t" /\ AllExact(Below(M, p), 0)) => x.exact
  <2>1. y.pos = Len(q) /\ Spells(Below(M, y.pos), y.first, q)
    BY <1>3, <1>7, <1>8
  <2>2. /\ CellFor(M, engine, y).pos = y.pos /\ CellFor(M, engine, y).seqs = y.seqs
        /\ CellFor(M, engine, y).toks = Append(q, y.tok)
        /\ (engine = "t" /\ AllExact(Below(M, y.pos), y.first)) => CellFor(M, engine, y).exact
    BY <1>3, <2>1, CellForFacts
  <2> QED BY <1>7, <2>2
<1>10. (engine = "t" /\ AllExact(m, 0)) => x.exact
  BY <1>4, <1>8, <1>9
<1>11. SubSeq(z, 1, K + k) = Append(q, t)
  <2>1. SubSeq(z, 1, p + 1) = Append(SubSeq(z, 1, p), z[p + 1])
    BY <1>2, OneLonger
  <2> QED BY <1>1, <1>2, <2>1
<1>12. m \cup FirstCells(c, k) = M \cup {x}
  <2>1. \A i : i \in 1..k <=> i \in 1..(k - 1) \/ i = k
    OBVIOUS
  <2>2. FirstCells(c, k) = FirstCells(c, k - 1) \cup {c[k]}
    BY <2>1 DEF FirstCells
  <2> QED BY <1>1, <1>6, <2>2
<1>13. /\ Spells(M \cup {x}, 0, Append(q, t))
       /\ (AllExact(M, 0) /\ x.exact) => AllExact(M \cup {x}, 0)
  <2>1. x.pos = Len(q) /\ 0 \in x.seqs
    BY <1>3, <1>9
  <2> QED BY <1>3, <1>4, <1>9, <2>1, OneMore
<1>14. TextTo(m, engine, c, z, K, k)
  BY <1>4, <1>10, <1>11, <1>12, <1>13 DEF TextTo
<1> QED BY <1>6, <1>9, <1>10, <1>11, <1>14

(* The cache and the rows r after the first n tokens of z, the last L of   *)
(* them decoded into m.                                                    *)
TextIn(r, m, engine, z, L, n) ==
  /\ CellsOK(r.mem) /\ \A e \in r.mem : e \in m \/ e.pos < n
  /\ Spells(r.mem, 0, SubSeq(z, 1, n))
  /\ DOMAIN r.rows = 1..L /\ r.rows[L].toks = SubSeq(z, 1, n)
  /\ (engine = "t" /\ AllExact(m, 0)) => AllExact(r.mem, 0) /\ r.rows[L].exact

LEMMA TextDecoded ==
  ASSUME NEW m, CellsOK(m), NEW engine, NEW b, NEW z \in Seq(Token), NEW K \in Nat,
         NEW L \in Nat \ {0}, K + L <= Len(z), TextEntries(b, z, K, L),
         Spells(m, 0, SubSeq(z, 1, K)), NEW r, r = Decoding(m, engine, b), NEW n, n = K + L
  PROVE  TextIn(r, m, engine, z, L, n)
<1>1. b \in Seq(Entries) /\ Len(b) = L /\ Owned(b) /\ L \in Nat
  <2>1. b \in Seq(Entries) /\ Len(b) = L /\ \A i \in 1..L : b[i].seqs = {0}
    BY DEF TextEntries
  <2> QED BY <2>1 DEF Owned
<1>2. PICK c : Gives(r, m, engine, b, c)
  BY <1>1, DecodingFacts
<1>3. /\ \A j \in 1..L : CellAt(m, engine, b, c, j)
      /\ r.mem = m \cup FirstCells(c, L) /\ DOMAIN r.rows = 1..L
      /\ \A j \in 1..L : r.rows[j].toks = c[j].toks /\ r.rows[j].exact = c[j].exact
  BY <1>1, <1>2 DEF Gives
<1> DEFINE T == {k \in 0..L : TextTo(m, engine, c, z, K, k)}
<1>4. 0 \in T /\ T \in SUBSET Nat
  <2>1. FirstCells(c, 0) = {} /\ K + 0 = K
    BY DEF FirstCells
  <2>2. m \cup FirstCells(c, 0) = m
    BY <2>1
  <2>3. TextTo(m, engine, c, z, K, 0)
    BY <2>1, <2>2 DEF TextTo
  <2> QED BY <1>1, <2>3
<1>5. ASSUME NEW k \in T, k < L PROVE k + 1 \in T
  <2>1. k \in Nat /\ k + 1 \in 1..L /\ (k + 1) - 1 = k /\ k + 1 \in 0..L
    BY <1>1, <1>5
  <2>2. PICK j : j = k + 1
    OBVIOUS
  <2>3. j \in 1..L /\ TextTo(m, engine, c, z, K, j - 1) /\ CellAt(m, engine, b, c, j)
    BY <1>3, <2>1, <2>2
  <2>4. TextTo(m, engine, c, z, K, j)
    BY <1>1, <2>3, TextStep
  <2> QED BY <2>1, <2>2, <2>4
<1>6. \A k \in 0..L : k \in T
  <2> HIDE DEF T
  <2> QED BY <1>1, <1>4, <1>5, CountingTo
<1>7. TextTo(m, engine, c, z, K, L) /\ TextTo(m, engine, c, z, K, L - 1)
  <2>1. L \in 0..L /\ L - 1 \in 0..L
    BY <1>1
  <2> QED BY <1>6, <2>1
<1>8. /\ c[L].toks = SubSeq(z, 1, K + L)
      /\ (engine = "t" /\ AllExact(m, 0)) => c[L].exact
  <2>1. L \in 1..L /\ CellAt(m, engine, b, c, L)
    BY <1>1, <1>3
  <2> QED BY <1>1, <1>7, <2>1, TextStep
<1>9. /\ Spells(r.mem, 0, SubSeq(z, 1, K + L))
      /\ (engine = "t" /\ AllExact(m, 0)) => AllExact(r.mem, 0)
  BY <1>3, <1>7 DEF TextTo
<1>10. \A j \in 1..L : CellOK(c[j]) /\ c[j].pos = b[j].pos
  <2>1. Owned(b) /\ CellsOK(m) /\ Gives(r, m, engine, b, c)
    BY <1>1, <1>2
  <2>2. NewCellsOf(b, c)
    BY ONLY Zenon, <2>1, NewCells
  <2> QED BY <1>1, <2>2 DEF NewCellsOf
<1>11. ASSUME NEW e \in r.mem PROVE CellOK(e) /\ (e \in m \/ e.pos < K + L)
  <2>1. CASE e \in m
    BY <2>1 DEF CellsOK
  <2>2. CASE e \notin m
    <3>1. PICK j \in 1..L : e = c[j]
      BY <1>3, <2>2 DEF FirstCells
    <3>2. CellOK(e) /\ e.pos = K + j - 1
      BY <1>10, <3>1 DEF TextEntries
    <3>3. K + j - 1 < K + L
      BY <1>1
    <3> QED BY <3>2, <3>3
  <2> QED BY <2>1, <2>2
<1>12. L \in 1..L
  BY <1>1
<1>13. CellsOK(r.mem) /\ \A e \in r.mem : e \in m \/ e.pos < n
  BY <1>11 DEF CellsOK
<1>14. DOMAIN r.rows = 1..L /\ r.rows[L].toks = c[L].toks /\ r.rows[L].exact = c[L].exact
  BY <1>3, <1>12
<1> QED BY <1>8, <1>9, <1>13, <1>14 DEF TextIn

(* Before the prompt is decoded. *)
Unstarted ==
  pc = "prefill" => /\ text = prompt /\ \A s \in Ids : ~drafts[s].active
                    /\ drafts[0].tokens = << >> /\ drafts[0].rowT = << 1 >>

LEMMA UnstartedInit == Init => Unstarted
<1> SUFFICES ASSUME Init PROVE Unstarted
  OBVIOUS
<1>1. text = prompt /\ opt \in Options
  BY DEF Init
<1>2. 0 \in Ids
  BY <1>1, TreeAssumption DEF Ids
<1>3. PICK f, e, r : f = FALSE /\ e = << >> /\ r = << 1 >>
  BY Zenon
<1>4. NoDraft = [active |-> f, drafting |-> f, tokens |-> e, rowT |-> e, rowD |-> 1]
  BY <1>3, Zenon DEF NoDraft
<1>5. PICK d0 : d0 = [NoDraft EXCEPT !.rowT = r]
  OBVIOUS
<1>6. d0.active = f /\ d0.tokens = e /\ d0.rowT = r /\ NoDraft.active = f
  BY <1>4, <1>5
<1>7. \A s \in Ids : drafts[s] = IF s = 0 THEN d0 ELSE NoDraft
  BY <1>3, <1>5 DEF Init
<1>8. drafts[0] = d0
  BY <1>2, <1>7
<1>9. \A s \in Ids : drafts[s].active = f
  BY <1>6, <1>7
<1>10. \A s \in Ids : ~drafts[s].active
  BY <1>3, <1>9, Zenon
<1> QED BY <1>1, <1>3, <1>6, <1>8, <1>10 DEF Unstarted

LEMMA PrefillStep == Inv /\ Unstarted /\ Prefill => Inv'
<1> SUFFICES ASSUME Inv, Unstarted, Prefill PROVE Inv'
  OBVIOUS
<1>1. Typed /\ Lengths /\ OutputInSupport
  BY DEF Inv
<1>2. PICK n, head, last, all : /\ n = Len(text) /\ head = Prefix(text, 1, n - 1)
                                /\ last = Prefix(text, n, n) /\ all = Prefix(text, 1, n)
  OBVIOUS
<1>3. PICK first, tgt, dft : /\ first = Decoding({}, "t", head)
                             /\ tgt = Decoding(first.mem, "t", last)
                             /\ dft = Decoding({}, "d", all)
  OBVIOUS
<1>4. /\ pc = "prefill"
      /\ \/ pc' = "skipped" /\ mem' = mem /\ out' = out
         \/ /\ head # << >> /\ pc' = "round"
            /\ mem' = [t |-> tgt.mem, d |-> IF opt.share THEN {} ELSE dft.mem]
            /\ out' = [t |-> tgt.rows, d |-> IF opt.share THEN << >> ELSE << dft.rows[n] >>]
      /\ opt' = opt /\ prompt' = prompt /\ text' = text /\ past' = past /\ drafts' = drafts
      /\ keep' = keep /\ scanned' = scanned /\ open' = open /\ seen' = seen /\ ndraft' = ndraft
      /\ step' = step /\ todo' = todo /\ nseq' = nseq /\ batch' = batch /\ chosen' = chosen
  <2>1. /\ pc = "prefill"
        /\ IF head = << >> THEN pc' = "skipped" /\ UNCHANGED << mem, out >>
           ELSE /\ pc' = "round"
                /\ mem' = [t |-> tgt.mem, d |-> IF opt.share THEN {} ELSE dft.mem]
                /\ out' = [t |-> tgt.rows, d |-> IF opt.share THEN << >> ELSE << dft.rows[n] >>]
    BY <1>2, <1>3, Zenon DEF Prefill
  <2>2. UNCHANGED << opt, prompt, text, past, drafts, keep, scanned, open, seen, ndraft, step,
                  todo, nseq, batch, chosen >>
    BY Zenon DEF Prefill
  <2> QED BY <2>1, <2>2
<1>5. /\ text \in Seq(Token) /\ n \in Nat /\ n = Len(text) /\ n = past.t /\ n = past.d
      /\ text = prompt /\ 0 \in Ids /\ n <= Inf /\ n \in 0..Len(text)
  <2>1. /\ text \in Seq(Token) /\ Len(text) \in Nat /\ 0 \in Ids
        /\ Len(text) = past.t /\ past.d = past.t
    BY <1>1, <1>4, TextTyped, OptionsTyped DEF Lengths
  <2>2. text = prompt /\ prompt \in Prompts
    BY <1>1, <1>4 DEF Unstarted, Typed
  <2>3. /\ Inf \in Nat /\ Len(prompt) + Predict + Cap <= Inf /\ Cap \in Nat /\ Predict \in Nat
    BY <2>2, TreeAssumption
  <2> QED BY <1>2, <2>1, <2>2, <2>3
<1>6. /\ RowsKnown' /\ Depth' /\ TreeReady' /\ BelowRoot' /\ DraftDepth'
  <2>1. pc' \notin {"draft", "target"}
    BY <1>4
  <2> QED BY <2>1, NotDrafting
<1>7. OutputInSupport'
  BY <1>1, <1>4 DEF OutputInSupport
<1>8. ASSUME mem' = [t |-> mem'.t, d |-> mem'.d], out' = [t |-> out'.t, d |-> out'.d],
             CellsOK(mem'.t), CellsOK(mem'.d)
      PROVE  Typed'
  <2>1. Ids' = Ids
    BY <1>4 DEF Ids
  <2>2. Entries' = Entries /\ Branches' = Branches
    BY <2>1 DEF Entries, Branches
  <2>3. CellsOK(mem.t)' /\ CellsOK(mem.d)'
    BY <1>8, <2>1 DEF CellsOK, CellOK
  <2>4. pc' \in {"skipped", "round"}
    BY <1>4
  <2> QED BY <1>1, <1>4, <1>8, <2>1, <2>2, <2>3, <2>4 DEF Typed
<1>9. ASSUME Bounded(mem'.t), Bounded(mem'.d) PROVE Lengths'
  <2>1. /\ Len(prompt) <= Len(text) /\ Len(text) = past.t /\ past.d = past.t
    BY <1>1, <1>4 DEF Lengths
  <2>2. pc' \in {"skipped", "round"}
    BY <1>4
  <2>3. \A e \in mem'.t \cup mem'.d : e.pos < Inf
    BY <1>9 DEF Bounded
  <2> QED BY <1>4, <2>1, <2>2, <2>3 DEF Lengths
<1>10. CASE pc' = "skipped"
  <2>1. mem' = mem /\ out' = out
    BY <1>4, <1>10
  <2>2. /\ mem = [t |-> mem.t, d |-> mem.d] /\ CellsOK(mem.t) /\ CellsOK(mem.d)
        /\ out = [t |-> out.t, d |-> out.d] /\ Bounded(mem.t) /\ Bounded(mem.d)
    BY <1>1, <1>4 DEF Typed, Lengths, Bounded
  <2>3. Typed'
    BY <1>8, <2>1, <2>2
  <2>4. Lengths'
    BY <1>9, <2>1, <2>2
  <2>5. Decided' /\ DraftWhole'
    BY <1>10 DEF Decided, DraftWhole
  <2> QED BY <1>6, <1>7, <2>3, <2>4, <2>5 DEF Inv
<1>11. CASE pc' # "skipped"
  <2>1. /\ head # << >> /\ pc' = "round"
        /\ mem' = [t |-> tgt.mem, d |-> IF opt.share THEN {} ELSE dft.mem]
        /\ out' = [t |-> tgt.rows, d |-> IF opt.share THEN << >> ELSE << dft.rows[n] >>]
    BY <1>4, <1>11
  <2>2. PICK K : K = n - 1
    OBVIOUS
  <2>3. n # 0 /\ K \in Nat /\ K + 1 = n
    <3>1. text # << >>
      BY <1>1, <1>5, TreeAssumption DEF Typed
    <3>2. text \in Seq(Token) /\ n = Len(text)
      BY <1>5
    <3>3. Len(text) = 0 => text = << >>
      BY <3>2, EmptySeq
    <3>4. n # 0
      BY <3>1, <3>2, <3>3
    <3> QED BY <1>5, <2>2, <3>4
  <2>4. K \in Nat \ {0}
    <3>1. ASSUME K = 0 PROVE FALSE
      <4>1. (n - 1) - 1 + 1 = 0
        BY <1>5, <2>2, <3>1
      <4>2. head = [i \in 1..0 |-> Entry(text[1 + i - 1], 1 + i - 2, 0, {0})]
        BY <1>2, <4>1 DEF Prefix
      <4>3. head = << >>
        BY <4>2
      <4> QED BY <2>1, <4>3
    <3> QED BY <2>3, <3>1
  <2>5. CellsOK({}) /\ AllExact({}, 0) /\ Spells({}, 0, SubSeq(text, 1, 0))
    <3>1. SubSeq(text, 1, 0) = << >>
      BY Nothing
    <3>2. PICK w : w = SubSeq(text, 1, 0)
      OBVIOUS
    <3>3. Len(w) = 0
      BY <3>1, <3>2
    <3>4. Of({}, 0) = {} /\ \A p \in 0..(Len(w) - 1) : FALSE
      BY <3>3 DEF Of
    <3>5. Spells({}, 0, w)
      BY <3>4 DEF Spells
    <3> QED BY <3>2, <3>4, <3>5 DEF CellsOK, AllExact
  <2>6. /\ TextEntries(head, text, 0, K) /\ TextEntries(last, text, K, 1)
        /\ TextEntries(all, text, 0, n)
    <3>1. TextEntries(head, text, 0, K)
      <4>1. 0 + K <= Len(text) /\ 1 = 0 + 1 /\ K = 0 + K /\ 0 \in Nat
        BY <1>5, <2>3
      <4>2. head = Prefix(text, 1, K)
        BY <1>2, <2>2
      <4> QED BY <1>5, <2>3, <4>1, <4>2, PrefixIs
    <3>2. TextEntries(last, text, K, 1)
      <4>1. K + 1 <= Len(text) /\ n = K + 1 /\ 1 \in Nat
        BY <1>5, <2>3
      <4>2. last = Prefix(text, n, n)
        BY <1>2
      <4> QED BY <1>5, <2>3, <4>1, <4>2, PrefixIs
    <3>3. TextEntries(all, text, 0, n)
      <4>1. 0 + n <= Len(text) /\ 1 = 0 + 1 /\ n = 0 + n /\ 0 \in Nat
        BY <1>5, <2>3
      <4>2. all = Prefix(text, 1, n)
        BY <1>2
      <4> QED BY <1>5, <2>3, <4>1, <4>2, PrefixIs
    <3> QED BY <3>1, <3>2, <3>3
  <2>7. /\ CellsOK(first.mem) /\ \A e \in first.mem : e \in {} \/ e.pos < K
        /\ Spells(first.mem, 0, SubSeq(text, 1, K)) /\ AllExact(first.mem, 0)
    <3>1. 0 + K <= Len(text) /\ 0 \in Nat /\ K = 0 + K
      BY <1>5, <2>3
    <3>2. /\ text \in Seq(Token) /\ TextEntries(head, text, 0, K)
          /\ first = Decoding({}, "t", head)
      BY <1>3, <1>5, <2>6
    <3>3. TextIn(first, {}, "t", text, K, K)
      BY ONLY <2>4, <2>5, <3>1, <3>2, TextDecoded
    <3> QED BY <2>5, <3>3 DEF TextIn
  <2>8. /\ CellsOK(tgt.mem) /\ \A e \in tgt.mem : e \in first.mem \/ e.pos < n
        /\ Spells(tgt.mem, 0, text) /\ AllExact(tgt.mem, 0)
        /\ DOMAIN tgt.rows = 1..1 /\ tgt.rows[1].toks = text /\ tgt.rows[1].exact
    <3>1. K + 1 <= Len(text) /\ 1 \in Nat \ {0} /\ n = K + 1 /\ K \in Nat
      BY <1>5, <2>3
    <3>2. /\ text \in Seq(Token) /\ TextEntries(last, text, K, 1)
          /\ tgt = Decoding(first.mem, "t", last)
      BY <1>3, <1>5, <2>6
    <3>3. SubSeq(text, 1, n) = text
      BY <1>5, SubSeqFull
    <3>4. PICK m1 : m1 = first.mem
      OBVIOUS
    <3>5. /\ CellsOK(m1) /\ Spells(m1, 0, SubSeq(text, 1, K)) /\ AllExact(m1, 0)
          /\ tgt = Decoding(m1, "t", last)
      BY <2>7, <3>2, <3>4
    <3>6. TextIn(tgt, m1, "t", text, 1, n)
      BY ONLY <3>1, <3>2, <3>5, TextDecoded
    <3> QED BY <3>3, <3>4, <3>5, <3>6 DEF TextIn
  <2>9. /\ CellsOK(dft.mem) /\ \A e \in dft.mem : e \in {} \/ e.pos < n
        /\ Spells(dft.mem, 0, text)
    <3>1. 0 + n <= Len(text) /\ n \in Nat \ {0} /\ n = 0 + n /\ 0 \in Nat
      BY <1>5, <2>3
    <3>2. text \in Seq(Token) /\ TextEntries(all, text, 0, n) /\ dft = Decoding({}, "d", all)
      BY <1>3, <1>5, <2>6
    <3>3. SubSeq(text, 1, n) = text
      BY <1>5, SubSeqFull
    <3>4. TextIn(dft, {}, "d", text, n, n)
      BY ONLY <2>5, <3>1, <3>2, TextDecoded
    <3> QED BY <3>3, <3>4 DEF TextIn
  <2>10. PICK mt, md, od : /\ mt = tgt.mem /\ md = (IF opt.share THEN {} ELSE dft.mem)
                           /\ od = (IF opt.share THEN << >> ELSE << dft.rows[n] >>)
    OBVIOUS
  <2>11. mem' = [t |-> mt, d |-> md] /\ out' = [t |-> tgt.rows, d |-> od]
    BY <2>1, <2>10, Zenon
  <2>12. /\ mem'.t = mt /\ mem'.d = md /\ out'.t = tgt.rows /\ out'.d = od
         /\ mem' = [t |-> mem'.t, d |-> mem'.d] /\ out' = [t |-> out'.t, d |-> out'.d]
    BY <2>11
  <2>13. CellsOK(mt) /\ CellsOK(md) /\ Bounded(mt) /\ Bounded(md)
    <3>1. CellsOK(mt) /\ CellsOK(md)
      BY <2>5, <2>8, <2>9, <2>10
    <3>2. ASSUME NEW e \in mt PROVE e.pos < Inf
      <4>1. e.pos \in Nat /\ e.pos < n
        <5>1. e.pos \in Nat
          BY <3>1 DEF CellsOK, CellOK
        <5>2. e.pos < n \/ e.pos < K
          BY <2>7, <2>8, <2>10
        <5> QED BY <1>5, <2>3, <5>1, <5>2
      <4> QED BY <1>5, <4>1, TreeAssumption
    <3>3. ASSUME NEW e \in md PROVE e.pos < Inf
      <4>1. e.pos \in Nat /\ e.pos < n
        BY <2>9, <2>10, <3>1 DEF CellsOK, CellOK
      <4> QED BY <1>5, <4>1, TreeAssumption
    <3> QED BY <3>1, <3>2, <3>3 DEF Bounded
  <2>14. Typed'
    BY <1>8, <2>12, <2>13
  <2>15. Lengths'
    BY <1>9, <2>12, <2>13
  <2>16. Live' = {0} /\ Kept' = 0
    <3>1. Ids' = Ids /\ drafts' = drafts /\ \A s \in Ids : ~drafts[s].active
      BY <1>4 DEF Unstarted, Ids
    <3> QED BY <2>1, <3>1 DEF Live, Kept
  <2>17. PICK d : d = drafts[0]
    OBVIOUS
  <2>18. d.tokens = << >> /\ d.rowT = << 1 >>
    BY <1>4, <2>17 DEF Unstarted
  <2>19. text \o << >> = text
    BY <1>5
  <2>20. BranchRows(tgt.rows, d, text)
    <3>1. /\ Len(d.rowT) = 1 /\ Len(d.tokens) = 0 /\ d.rowT[1] = 1
      BY <2>18
    <3>2. SubSeq(d.tokens, 1, 0) = << >>
      BY Nothing
    <3>3. \A k \in 1..Len(d.rowT) : k = 1 /\ k - 1 = 0
      BY <3>1
    <3>4. text \o SubSeq(d.tokens, 1, 0) = text
      BY <2>19, <3>2
    <3>5. 1 \in DOMAIN tgt.rows /\ Len(d.rowT) = Len(d.tokens) + 1
      BY <2>8, <3>1
    <3>6. ASSUME NEW k \in 1..Len(d.rowT)
          PROVE  /\ d.rowT[k] \in DOMAIN tgt.rows /\ tgt.rows[d.rowT[k]].exact
                 /\ tgt.rows[d.rowT[k]].toks = text \o SubSeq(d.tokens, 1, k - 1)
      <4>1. k = 1 /\ k - 1 = 0 /\ d.rowT[k] = 1
        BY <3>1, <3>3
      <4>2. tgt.rows[1].toks = text /\ tgt.rows[1].exact
        BY <2>8
      <4> QED BY <3>4, <3>5, <4>1, <4>2, Zenon
    <3> QED BY <3>5, <3>6 DEF BranchRows
  <2>21. InTree(text)'
    <3>1. /\ Len(text') + Kept' = past'.t /\ Len(text') > 0
      BY <1>4, <1>5, <2>3, <2>16
    <3>2. ASSUME NEW s \in Live'
          PROVE  /\ Spells(mem'.t, s, text' \o drafts'[s].tokens) /\ AllExact(mem'.t, s)
                 /\ BranchRows(out'.t, drafts'[s], text')
      <4>1. s = 0 /\ drafts'[s] = d /\ text' = text
        BY <1>4, <2>16, <2>17
      <4>2. text' \o drafts'[s].tokens = text
        BY <2>18, <2>19, <4>1
      <4>3. mem'.t = tgt.mem /\ out'.t = tgt.rows
        BY <2>10, <2>12
      <4> QED BY <2>8, <2>20, <4>1, <4>2, <4>3
    <3>3. SubSeq(text', 1, past'.t) = text' \o SubSeq(drafts'[keep'].tokens, 1, Kept')
      <4>1. SubSeq(text, 1, n) = text
        BY <1>5, SubSeqFull
      <4>2. SubSeq(drafts'[keep'].tokens, 1, 0) = << >>
        BY Nothing
      <4>3. past'.t = n /\ text' = text /\ Kept' = 0
        BY <1>4, <1>5, <2>16
      <4> QED BY <2>19, <4>1, <4>2, <4>3
    <3> QED BY <3>1, <3>2, <3>3 DEF InTree
  <2>22. Decided'
    <3>1. text' \in Seq(Token)
      BY <1>4, <1>5
    <3>2. \E q \in Seq(Token) : InTree(q)'
      BY <1>4, <1>5, <2>21
    <3> QED BY <2>1, <3>2 DEF Decided
  <2>23. DraftWhole'
    <3> SUFFICES ASSUME ~opt.share, NEW s \in Live'
                 PROVE  DraftHolds(mem'.d, s, past'.d - Kept' + Len(drafts'[s].tokens))
      BY <1>4, <2>1 DEF DraftWhole
    <3>1. s = 0 /\ drafts'[s] = d /\ Kept' = 0 /\ past'.d = n /\ Len(d.tokens) = 0
      BY <1>4, <1>5, <2>16, <2>17, <2>18
    <3>2. past'.d - Kept' + Len(drafts'[s].tokens) = n
      BY <1>5, <3>1
    <3>3. mem'.d = dft.mem
      BY <2>10, <2>12
    <3>4. Len(text) = n /\ Spells(mem'.d, s, text) /\ text \in Seq(Token)
      BY <1>5, <2>9, <3>1, <3>3
    <3> QED BY <3>2, <3>4 DEF DraftHolds
  <2> QED BY <1>6, <1>7, <2>14, <2>15, <2>22, <2>23 DEF Inv
<1> QED BY <1>10, <1>11

-----------------------------------------------------------------------------
(***************************************************************************)
(* The theorems.                                                           *)
(***************************************************************************)
TreeInv == Inv /\ Unstarted

LEMMA Stutter == Inv /\ UNCHANGED vars => Inv'
<1> SUFFICES ASSUME Inv, UNCHANGED vars PROVE Inv'
  OBVIOUS
<1>1. /\ pc' = pc /\ opt' = opt /\ mem' = mem /\ out' = out /\ prompt' = prompt /\ text' = text
      /\ past' = past /\ drafts' = drafts /\ keep' = keep /\ scanned' = scanned /\ open' = open
      /\ seen' = seen /\ ndraft' = ndraft /\ step' = step /\ todo' = todo /\ nseq' = nseq
      /\ batch' = batch /\ chosen' = chosen
  BY DEF vars
<1>2. Typed'
  BY <1>1 DEF Inv, Typed, Ids, Entries, Branches, CellsOK, CellOK
<1>3. Lengths' /\ OutputInSupport'
  BY <1>1 DEF Inv, Lengths, OutputInSupport, Depths
<1>4. RowsKnown' /\ Depth' /\ TreeReady'
  BY <1>1 DEF Inv, RowsKnown, Depth, TreeReady, Made, Picked, Proposed, Ids
<1>5. BelowRoot' /\ Decided'
  BY <1>1 DEF Inv, BelowRoot, Decided, InTree, Live, Kept, Ids
<1>6. DraftDepth' /\ DraftWhole'
  BY <1>1 DEF Inv, DraftDepth, DraftWhole, DraftSpells, Behaved, Dft, Proposed, Made, Live, Kept,
              Ids
<1> QED BY <1>2, <1>3, <1>4, <1>5, <1>6 DEF Inv

(* At every step of speculative.cpp's loop, whatever the draft proposes,   *)
(* the sampler draws and the pruning picks: the rows, the caches and the   *)
(* sequences are as the invariant says.                                    *)
THEOREM TreeInvariance == Spec => []TreeInv
<1>1. Init => TreeInv
  BY InvInit, UnstartedInit DEF TreeInv
<1>2. TreeInv /\ [Next]_vars => TreeInv'
  <2> SUFFICES ASSUME TreeInv, [Next]_vars PROVE TreeInv'
    OBVIOUS
  <2>1. Inv /\ Unstarted
    BY DEF TreeInv
  <2>2. CASE Prefill
    <3>1. Inv'
      BY <2>1, <2>2, PrefillStep
    <3>2. pc' # "prefill"
      BY <2>2 DEF Prefill
    <3> QED BY <3>1, <3>2 DEF TreeInv, Unstarted
  <2>3. CASE BeginRound
    <3>1. Inv'
      BY <2>1, <2>3, BeginRoundStep
    <3>2. pc' # "prefill"
      BY <2>3 DEF BeginRound
    <3> QED BY <3>1, <3>2 DEF TreeInv, Unstarted
  <2>4. CASE Verify
    <3>1. Inv'
      BY <2>1, <2>4, DropStep, AcceptStep DEF Verify
    <3>2. pc' # "prefill"
      BY <2>4 DEF Verify, DropExhausted, Accept, Reject
    <3> QED BY <3>1, <3>2 DEF TreeInv, Unstarted
  <2>5. CASE SampleTarget
    <3>1. Inv'
      BY <2>1, <2>5, SampleStep
    <3>2. pc' # "prefill"
      BY <2>5 DEF SampleTarget
    <3> QED BY <3>1, <3>2 DEF TreeInv, Unstarted
  <2>6. CASE KeepBranch
    <3>1. Inv'
      BY <2>1, <2>6, KeepBranchStep
    <3>2. pc' # "prefill"
      BY <2>6 DEF KeepBranch
    <3> QED BY <3>1, <3>2 DEF TreeInv, Unstarted
  <2>7. CASE Propose
    <3>1. Inv'
      BY <2>1, <2>7, ProposeStep
    <3>2. pc' # "prefill"
      BY <2>7 DEF Propose
    <3> QED BY <3>1, <3>2 DEF TreeInv, Unstarted
  <2>8. CASE DecodeDepth
    <3>1. Inv'
      BY <2>1, <2>8, DecodeDepthStep
    <3>2. pc' # "prefill"
      BY SMTT(60), <2>8 DEF DecodeDepth, NextDepth
    <3> QED BY <3>1, <3>2 DEF TreeInv, Unstarted
  <2>9. CASE Select
    <3>1. Inv'
      BY <2>1, <2>9, SelectStep
    <3>2. pc' # "prefill"
      BY <2>9 DEF Select, NextDepth
    <3> QED BY <3>1, <3>2 DEF TreeInv, Unstarted
  <2>10. CASE DecodeTree
    <3>1. Inv'
      BY <2>1, <2>10, DecodeTreeStep
    <3>2. pc' # "prefill"
      BY <2>10 DEF DecodeTree
    <3> QED BY <3>1, <3>2 DEF TreeInv, Unstarted
  <2>11. CASE UNCHANGED vars
    <3>1. Inv'
      BY <2>1, <2>11, Stutter
    <3>2. Unstarted'
      BY <2>1, <2>11 DEF vars, Unstarted, Ids
    <3> QED BY <3>1, <3>2 DEF TreeInv
  <2> QED BY <2>2, <2>3, <2>4, <2>5, <2>6, <2>7, <2>8, <2>9, <2>10, <2>11
          DEF Next, Decode, Ended
<1> QED BY <1>1, <1>2, PTL DEF Spec

(* No sequence number leaves the vector of drafts, no row index the        *)
(* target's batch, and when the tree is decoded every drafted token of an  *)
(* active sequence has one row of it, after any splitting and pruning.     *)
THEOREM TreeTypeCorrect == Spec => []TreeTypeOK
<1>1. TreeInv => TreeTypeOK
  BY InvTypes DEF TreeInv
<1> QED BY <1>1, TreeInvariance, PTL

(* Every row a candidate is verified against, or the next token is sampled *)
(* from, was computed by the target itself, on exact cells only, behind    *)
(* the root and the accepted tokens of the sequence that is kept: no       *)
(* decode of a tree is refused and no roll-back leaves a draft's cell.     *)
THEOREM TreeRowsOfKeptBranch == Spec => []RowOfKeptBranch
<1>1. TreeInv => RowOfKeptBranch
  BY InvRow DEF TreeInv
<1> QED BY <1>1, TreeInvariance, PTL

(* With one draft sequence every printed token is one the target's sampler *)
(* may draw after the text before it: speculation does not change what     *)
(* can be said, for every draft model and draft length.                    *)
THEOREM TreeOutputInSupport == Spec => []OutputInSupport
<1>1. TreeInv => OutputInSupport
  BY DEF TreeInv, Inv
<1> QED BY <1>1, TreeInvariance, PTL

(* The row the draft's sampler continues a sequence from holds the text of *)
(* that very sequence up to its last token, in every depth, also after     *)
(* sequences were split and their cells copied (shared cache or no         *)
(* pruning).                                                               *)
THEOREM TreeDraftFollowsBranch == Spec => []DraftFollowsBranch
<1>1. TreeInv => DraftFollowsBranch
  BY InvDraft DEF TreeInv
<1> QED BY <1>1, TreeInvariance, PTL
=============================================================================
