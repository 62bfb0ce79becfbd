----------------------- MODULE RecurrentCells_proofs -----------------------
(***************************************************************************)
(* The cell table of the recurrent memory, for every number of sequences   *)
(* and any order of calls: find_slot() never fails an assertion, tails and *)
(* cells agree, used counts the occupied cells, and every sequence         *)
(* computes on its own state at its own position.                          *)
(***************************************************************************)
EXTENDS RecurrentCells, FiniteSetTheorems, FunctionTheorems, SequenceTheorems,
        WellFoundedInduction, TLAPS

-----------------------------------------------------------------------------
(***************************************************************************)
(* Numbers: induction, least and greatest elements, remainders.            *)
(***************************************************************************)
LEMMA Counting ==
  ASSUME NEW T \in SUBSET Nat, 0 \in T, \A n \in T : n + 1 \in T
  PROVE  \A n \in Nat : n \in T
<1> SUFFICES ASSUME NEW n \in Nat, n \notin T PROVE FALSE
  OBVIOUS
<1> DEFINE U == Nat \ T
<1>1. PICK x \in U : \A y \in U : ~(<< y, x >> \in OpToRel(<, Nat))
  <2>1. U # {} /\ U \subseteq Nat
    OBVIOUS
  <2> HIDE DEF U
  <2> QED BY <2>1, NatLessThanWellFounded, WFMin
<1>2. x \in Nat /\ x # 0
  OBVIOUS
<1>3. x - 1 \in Nat /\ x - 1 < x /\ (x - 1) + 1 = x
  BY <1>2
<1>4. x - 1 \notin U
  BY <1>1, <1>2, <1>3 DEF OpToRel
<1> QED BY <1>3, <1>4

(* The same up to a bound. *)
LEMMA CountingTo ==
  ASSUME NEW n \in Nat, NEW T \in SUBSET Nat, 0 \in T,
         \A k \in T : k < n => k + 1 \in T
  PROVE  n \in T
<1> DEFINE U == {k \in Nat : k <= n => k \in T}
<1>1. U \in SUBSET Nat /\ 0 \in U
  OBVIOUS
<1>2. ASSUME NEW k \in U PROVE k + 1 \in U
  <2>1. k \in Nat /\ k + 1 \in Nat
    OBVIOUS
  <2>2. CASE k + 1 <= n
    <3>1. k \in T /\ k < n
      BY <2>1, <2>2
    <3> QED BY <2>1, <3>1
  <2> QED BY <2>1, <2>2
<1> HIDE DEF U
<1>3. n \in U
  BY <1>1, <1>2, Counting
<1> QED BY <1>3 DEF U

LEMMA MinFacts ==
  ASSUME NEW S \in SUBSET Nat, S # {}
  PROVE  Min(S) \in S /\ \A y \in S : Min(S) <= y
<1>1. PICK x \in S : \A y \in S : ~(<< y, x >> \in OpToRel(<, Nat))
  BY NatLessThanWellFounded, WFMin
<1>2. ASSUME NEW y \in S PROVE x <= y
  <2>1. x \in Nat /\ y \in Nat
    BY <1>1
  <2>2. ~(y < x)
    BY <1>1, <2>1 DEF OpToRel
  <2> QED BY <2>1, <2>2
<1> QED BY <1>2 DEF Min

LEMMA MaxFacts ==
  ASSUME NEW n \in Nat, NEW S \in SUBSET (0..n), S # {}
  PROVE  Max(S) \in S /\ \A y \in S : Max(S) >= y
<1> DEFINE R == {x \in 0..n : n - x \in S}
<1>1. R \in SUBSET Nat /\ R # {}
  <2>1. PICK y \in S : TRUE
    OBVIOUS
  <2>2. n - y \in 0..n /\ n - (n - y) = y
    BY <2>1
  <2>3. n - y \in R
    BY <2>1, <2>2
  <2>4. R \in SUBSET Nat
    OBVIOUS
  <2> HIDE DEF R
  <2> QED BY <2>3, <2>4
<1>2. PICK m \in R : \A y \in R : m <= y
  <2> HIDE DEF R
  <2> QED BY <1>1, MinFacts
<1>3. n - m \in S /\ m \in 0..n
  BY <1>2
<1>4. ASSUME NEW y \in S PROVE n - m >= y
  <2>1. n - y \in 0..n /\ n - (n - y) = y /\ y \in 0..n
    OBVIOUS
  <2>2. m <= n - y
    BY <1>2, <2>1
  <2> QED BY <1>3, <2>1, <2>2
<1> QED BY <1>3, <1>4 DEF Max

LEMMA Around ==
  ASSUME NEW n \in Nat \ {0}, NEW a \in 0..(2 * n - 1)
  PROVE  a % n = IF a < n THEN a ELSE a - n
<1>1. /\ a \div n \in Nat /\ a % n \in 0..(n - 1)
      /\ a = n * (a \div n) + (a % n)
  OBVIOUS
<1>2. PICK q : q = a \div n
  OBVIOUS
<1>3. PICK r : r = a % n
  OBVIOUS
<1>4. q \in Nat /\ r \in 0..(n - 1) /\ a = n * q + r
  BY <1>1, <1>2, <1>3
<1>5. q < 2
  <2> SUFFICES ASSUME q >= 2 PROVE FALSE
    BY <1>4
  <2>1. n * q >= n * 2
    BY <1>4
  <2>2. n * q \in Nat
    BY <1>4
  <2> QED BY <1>4, <2>1, <2>2
<1>6. q = 0 \/ q = 1
  BY <1>4, <1>5
<1>7. CASE q = 0
  BY <1>3, <1>4, <1>7
<1>8. CASE q = 1
  <2>1. n * q = n
    BY <1>8
  <2> QED BY <1>3, <1>4, <2>1
<1> QED BY <1>6, <1>7, <1>8

-----------------------------------------------------------------------------
(***************************************************************************)
(* Identifiers and cells.                                                  *)
(***************************************************************************)
LEMMA IdsFacts ==
  ASSUME use \in Uses
  PROVE  /\ Size \in Nat \ {0} /\ Ids \subseteq Nat /\ None \notin Ids
         /\ IsFiniteSet(Ids) /\ Cardinality(Ids) = Size /\ 0 \in Ids
         /\ MaxLen \in Nat /\ Forever \in Nat /\ Forever >= 2
         /\ \A S \in SUBSET Ids : IsFiniteSet(S) /\ Cardinality(S) \in Nat
<1>1. /\ Size \in Nat \ {0} /\ MaxLen \in Nat /\ Forever \in Nat /\ Forever >= 2
  BY CellsAssumption DEF Size, Forever
<1>2. Ids \subseteq Nat /\ None \notin Ids /\ 0 \in Ids
  BY <1>1 DEF Ids, None
<1>3. IsFiniteSet(Ids) /\ Cardinality(Ids) = Size
  <2>1. /\ IsFiniteSet(0..(Size - 1))
        /\ Cardinality(0..(Size - 1)) = IF 0 > Size - 1 THEN 0 ELSE Size - 1 - 0 + 1
    BY <1>1, FS_Interval
  <2> QED BY <1>1, <2>1 DEF Ids
<1>4. ASSUME NEW S \in SUBSET Ids PROVE IsFiniteSet(S) /\ Cardinality(S) \in Nat
  BY <1>3, FS_Subset, FS_CardinalityType
<1> QED BY <1>1, <1>2, <1>3, <1>4

LEMMA LeastId ==
  ASSUME use \in Uses, NEW S \in SUBSET Ids, S # {}
  PROVE  Min(S) \in S /\ Min(S) \in Ids /\ \A y \in S : Min(S) <= y
BY IdsFacts, MinFacts

LEMMA HeadType ==
  ASSUME use \in Uses, NEW head \in Ids, NEW freed \in SUBSET Ids
  PROVE  HeadAfter(head, freed) \in Ids
BY LeastId DEF HeadAfter

(* If every cell is some sequence's, every sequence has a cell of its own.    *)
LEMMA AllTaken ==
  ASSUME use \in Uses, NEW tail \in [Ids -> Ids \cup {None}],
         \A c \in Ids : \E s \in Ids : tail[s] = c
  PROVE  /\ \A s \in Ids : tail[s] \in Ids
         /\ \A s, x \in Ids : tail[s] = tail[x] => s = x
<1> DEFINE f == [c \in Ids |-> CHOOSE s \in Ids : tail[s] = c]
<1>1. ASSUME NEW c \in Ids PROVE f[c] \in Ids /\ tail[f[c]] = c
  OBVIOUS
<1>2. f \in [Ids -> Ids]
  BY <1>1
<1> HIDE DEF f
<1>3. f \in Injection(Ids, Ids)
  BY <1>1, <1>2 DEF Injection, IsInjective
<1>4. f \in Surjection(Ids, Ids)
  BY <1>3, IdsFacts, FS_Injection
<1>5. ASSUME NEW s \in Ids PROVE \E c \in Ids : f[c] = s
  BY <1>4 DEF Surjection
<1> QED BY <1>1, <1>5

(* Sequences with cells of their own in an interval fit into it.              *)
LEMMA ManyApart ==
  ASSUME NEW n \in Nat, NEW lo \in Int, NEW hi \in Int, NEW g \in [1..n -> lo..hi],
         \A i, j \in 1..n : g[i] = g[j] => i = j, n > 0
  PROVE  n <= hi - lo + 1
<1>1. g \in Injection(1..n, lo..hi)
  BY DEF Injection, IsInjective
<1>2. IsFiniteSet(lo..hi) /\ Cardinality(lo..hi) = IF lo > hi THEN 0 ELSE hi - lo + 1
  BY FS_Interval
<1>3. IsFiniteSet(1..n) /\ Cardinality(1..n) = IF 1 > n THEN 0 ELSE n - 1 + 1
  BY FS_Interval
<1>4. Cardinality(1..n) <= Cardinality(lo..hi)
  BY <1>1, <1>2, FS_Injection
<1>5. Cardinality(1..n) = n
  BY <1>3
<1>6. CASE lo > hi
  BY <1>2, <1>4, <1>5, <1>6
<1>7. CASE lo <= hi
  BY <1>2, <1>4, <1>5, <1>7
<1> QED BY <1>6, <1>7

-----------------------------------------------------------------------------
(***************************************************************************)
(* Tables.  The invariant is stated for any table, rows and promises, so   *)
(* that it can be shown of what a call builds on the way.                  *)
(***************************************************************************)
Agree(t) == \A s, c \in Ids : (s \in t.cells[c].seqs) <=> (t.tail[s] = c)

Entries(t, d) ==
  \A c \in Ids :
    /\ t.cells[c].src \in {None, c}
    /\ t.cells[c].seqs = {} => t.cells[c].pos = -1 /\ (t.cells[c].src = c => d[c] = << >>)
    /\ t.cells[c].seqs # {} => t.cells[c].pos \in 0..(Forever - 1) /\ t.cells[c].src = c

Good(t, d) == t \in Table /\ Agree(t) /\ Entries(t, d)

Counted(t) == t.used = Cardinality(Occupied(t.cells))

(* The sequences with a cell are what was promised, the others are empty.     *)
Kept(t, d, w, p) ==
  \A s \in Ids : t.tail[s] # None => w[s] = d[t.tail[s]] /\ p[s] = t.cells[t.tail[s]].pos

Blank(t, w, p) == \A s \in Ids : t.tail[s] = None => w[s] = << >> /\ p[s] = -1

LEMMA TableTypes ==
  ASSUME use \in Uses, NEW t \in Table
  PROVE  /\ t.cells \in [Ids -> Cell] /\ t.tail \in [Ids -> Ids \cup {None}]
         /\ t.head \in Ids /\ t.used \in Int
         /\ \A c \in Ids : /\ t.cells[c] \in Cell /\ t.cells[c].pos \in Int
                           /\ t.cells[c].src \in Ids \cup {None}
                           /\ t.cells[c].seqs \in SUBSET Ids
         /\ \A s \in Ids : t.tail[s] \in Ids \cup {None}
         /\ \A s \in Ids : t.tail[s] # None => t.tail[s] \in Ids
<1>1. /\ t.cells \in [Ids -> Cell] /\ t.tail \in [Ids -> Ids \cup {None}]
      /\ t.head \in Ids /\ t.used \in Int
  BY DEF Table
<1>2. ASSUME NEW c \in Ids
      PROVE  /\ t.cells[c] \in Cell /\ t.cells[c].pos \in Int
             /\ t.cells[c].src \in Ids \cup {None} /\ t.cells[c].seqs \in SUBSET Ids
  BY <1>1, IdsFacts DEF Cell
<1>3. \A s \in Ids : t.tail[s] \in Ids \cup {None}
  BY <1>1
<1> HIDE DEF None
<1> QED BY <1>1, <1>2, <1>3

LEMMA EmptyCellType ==
  ASSUME use \in Uses
  PROVE  /\ EmptyCell \in Cell /\ EmptyCell.pos = -1 /\ EmptyCell.src = None
         /\ EmptyCell.seqs = {}
BY IdsFacts DEF EmptyCell, Cell, None

(* A sequence taken out of its cell.                                          *)
LEMMA DetachFacts ==
  ASSUME use \in Uses, NEW d, NEW t, Good(t, d), NEW s \in Ids, NEW r, r = Detach(t, s)
  PROVE  /\ Good(r, d) /\ r.head = t.head
         /\ Counted(t) => Counted(r)
         /\ \A x \in Ids : r.tail[x] = IF x = s THEN None ELSE t.tail[x]
         /\ \A x \in Ids : r.tail[x] # None =>
                             r.cells[r.tail[x]].pos = t.cells[t.tail[x]].pos
<1>1. CASE t.tail[s] = None
  BY <1>1 DEF Detach
<1>2. CASE t.tail[s] # None
  <2> DEFINE c == t.tail[s]
             left == t.cells[c].seqs \ {s}
             cell == IF left = {} THEN EmptyCell ELSE [t.cells[c] EXCEPT !.seqs = left]
  <2>1. /\ t \in Table /\ c \in Ids /\ left \in SUBSET Ids /\ t.used \in Int
        /\ t.cells \in [Ids -> Cell] /\ t.cells[c] \in Cell
        /\ t.tail \in [Ids -> Ids \cup {None}] /\ t.head \in Ids
    BY SMTT(60), <1>2, TableTypes DEF Good
  <2>2. /\ cell \in Cell /\ cell.seqs = left
        /\ left # {} => cell.pos = t.cells[c].pos /\ cell.src = t.cells[c].src
        /\ left = {} => cell.pos = -1 /\ cell.src = None
    <3>1. CASE left = {}
      BY <3>1, EmptyCellType
    <3>2. CASE left # {}
      BY <2>1, <3>2 DEF Cell
    <3> QED BY <3>1, <3>2
  <2>3. r = [cells |-> [t.cells EXCEPT ![c] = cell], tail |-> [t.tail EXCEPT ![s] = None],
             head |-> t.head, used |-> IF left = {} THEN t.used - 1 ELSE t.used]
    BY <1>2 DEF Detach
  <2> HIDE DEF cell
  <2>4. /\ \A x \in Ids : r.cells[x] = IF x = c THEN cell ELSE t.cells[x]
        /\ \A x \in Ids : r.tail[x] = IF x = s THEN None ELSE t.tail[x]
        /\ r.head = t.head /\ r.used = IF left = {} THEN t.used - 1 ELSE t.used
    BY <2>1, <2>3
  <2>5. r \in Table
    <3>1. [t.cells EXCEPT ![c] = cell] \in [Ids -> Cell]
      BY <2>1, <2>2
    <3>2. [t.tail EXCEPT ![s] = None] \in [Ids -> Ids \cup {None}]
      BY <2>1
    <3>3. (IF left = {} THEN t.used - 1 ELSE t.used) \in Int
      BY <2>1
    <3> QED BY <2>1, <2>3, <3>1, <3>2, <3>3 DEF Table
  <2>6. Agree(r)
    <3> SUFFICES ASSUME NEW x \in Ids, NEW y \in Ids
                 PROVE  (x \in r.cells[y].seqs) <=> (r.tail[x] = y)
      BY DEF Agree
    <3>1. (x \in t.cells[y].seqs) <=> (t.tail[x] = y)
      BY DEF Good, Agree
    <3>2. None # y
      BY IdsFacts
    <3>3. CASE y = c
      BY <2>2, <2>4, <3>1, <3>2, <3>3
    <3>4. CASE y # c
      BY <2>4, <3>1, <3>2, <3>4
    <3> QED BY <3>3, <3>4
  <2>7. Entries(r, d)
    <3> SUFFICES ASSUME NEW y \in Ids
                 PROVE  /\ r.cells[y].src \in {None, y}
                        /\ r.cells[y].seqs = {} => /\ r.cells[y].pos = -1
                                                   /\ (r.cells[y].src = y => d[y] = << >>)
                        /\ r.cells[y].seqs # {} => /\ r.cells[y].pos \in 0..(Forever - 1)
                                                   /\ r.cells[y].src = y
      BY DEF Entries
    <3>1. s \in t.cells[c].seqs
      BY <2>1 DEF Good, Agree
    <3>2. CASE y # c
      BY <2>4, <3>2 DEF Good, Entries
    <3>3. CASE y = c /\ left = {}
      BY SMTT(60), <2>1, <2>2, <2>4, <3>3, IdsFacts
    <3>4. CASE y = c /\ left # {}
      <4>1. t.cells[c].seqs # {} /\ t.cells[c].pos \in 0..(Forever - 1) /\ t.cells[c].src = c
        BY <2>1, <3>1 DEF Good, Entries
      <4> QED BY <2>2, <2>4, <3>4, <4>1
    <3> QED BY <3>2, <3>3, <3>4
  <2>8. ASSUME Counted(t) PROVE Counted(r)
    <3>1. Occupied(r.cells) = IF left = {} THEN Occupied(t.cells) \ {c} ELSE Occupied(t.cells)
      <4>1. c \in Occupied(t.cells)
        BY <2>1 DEF Good, Agree, Occupied
      <4> HIDE DEF left, c
      <4> QED BY <2>1, <2>2, <2>4, <4>1 DEF Occupied
    <3>2. c \in Occupied(t.cells) /\ Occupied(t.cells) \in SUBSET Ids
      BY <2>1 DEF Good, Agree, Occupied
    <3>3. IsFiniteSet(Occupied(t.cells)) /\ Cardinality(Occupied(t.cells)) \in Nat
      BY <3>2, IdsFacts
    <3>4. Cardinality(Occupied(t.cells) \ {c}) = Cardinality(Occupied(t.cells)) - 1
      <4> HIDE DEF c
      <4> QED BY <3>2, <3>3, FS_RemoveElement
    <3> QED BY <2>4, <2>8, <3>1, <3>4 DEF Counted
  <2>9. ASSUME NEW x \in Ids, r.tail[x] # None
        PROVE  r.cells[r.tail[x]].pos = t.cells[t.tail[x]].pos
    <3>1. x # s /\ r.tail[x] = t.tail[x] /\ t.tail[x] \in Ids
      BY <2>1, <2>4, <2>9, TableTypes
    <3>2. CASE t.tail[x] # c
      BY <2>4, <3>1, <3>2
    <3>3. CASE t.tail[x] = c
      <4>1. x \in left
        BY <2>1, <3>1, <3>3 DEF Good, Agree
      <4> QED BY <2>1, <2>2, <2>4, <3>1, <3>3, <4>1
    <3> QED BY <3>2, <3>3
  <2> QED BY <2>4, <2>5, <2>6, <2>7, <2>8, <2>9 DEF Good
<1> QED BY <1>1, <1>2

(* seq_rm: the tail's cell is the only one the sequence can be in.            *)
Removes(t, s, gone, r) ==
  /\ \A x \in Ids : r.tail[x] = IF x = s /\ gone THEN None ELSE t.tail[x]
  /\ \A x \in Ids : r.tail[x] # None => r.cells[r.tail[x]].pos = t.cells[t.tail[x]].pos

LEMMA SeqRmFacts ==
  ASSUME use \in Uses, NEW d, NEW t, Good(t, d), NEW s \in Ids, NEW p0 \in Nat, NEW p1 \in Int,
         NEW r, r = SeqRmTo(t, s, p0, p1),
         NEW gone \in BOOLEAN,
         gone <=> (t.tail[s] # None /\ InRange(t.cells[t.tail[s]].pos, p0, p1))
  PROVE  Good(r, d) /\ (Counted(t) => Counted(r)) /\ Removes(t, s, gone, r)
<1> DEFINE hit == {c \in Ids : InRange(t.cells[c].pos, p0, p1) /\ s \in t.cells[c].seqs}
           freed == {c \in hit : t.cells[c].seqs = {s}}
           in == t.tail[s] >= 0 /\ InRange(t.cells[t.tail[s]].pos, p0, p1)
           cell(c) == IF c \in freed THEN EmptyCell
                      ELSE IF c \in hit THEN [t.cells[c] EXCEPT !.seqs = @ \ {s}]
                           ELSE t.cells[c]
<1>1. /\ t \in Table /\ t.cells \in [Ids -> Cell] /\ t.tail \in [Ids -> Ids \cup {None}]
      /\ t.head \in Ids /\ t.used \in Int
  BY TableTypes DEF Good
<1>2. r = [cells |-> [c \in Ids |-> cell(c)],
           tail |-> IF in THEN [t.tail EXCEPT ![s] = None] ELSE t.tail,
           head |-> HeadAfter(t.head, freed), used |-> t.used - Cardinality(freed)]
  BY DEF SeqRmTo
<1>3. in <=> gone
  <2>1. t.tail[s] \in Ids \cup {None}
    BY <1>1
  <2>2. t.tail[s] >= 0 <=> t.tail[s] # None
    BY <2>1, IdsFacts DEF None
  <2> QED BY <2>2
<1>4. \A c \in Ids : c \in hit <=> gone /\ c = t.tail[s]
  BY <1>1, IdsFacts DEF Good, Agree
<1>5. hit \in SUBSET Ids /\ freed \in SUBSET Ids /\ freed \in SUBSET hit
  OBVIOUS
<1>6. ASSUME NEW c \in Ids
      PROVE  /\ cell(c) \in Cell
             /\ cell(c).seqs = IF c \in hit THEN t.cells[c].seqs \ {s} ELSE t.cells[c].seqs
             /\ c \notin freed => cell(c).pos = t.cells[c].pos /\ cell(c).src = t.cells[c].src
             /\ c \in freed => cell(c) = EmptyCell
  <2>1. t.cells[c] \in Cell
    BY <1>1
  <2>2. CASE c \in freed
    <3>1. cell(c) = EmptyCell /\ t.cells[c].seqs = {s} /\ c \in hit
      BY <2>2
    <3> HIDE DEF cell, freed, hit
    <3> QED BY <2>2, <3>1, EmptyCellType
  <2>3. CASE c \in hit /\ c \notin freed
    <3>1. cell(c) = [t.cells[c] EXCEPT !.seqs = @ \ {s}]
      BY <2>3
    <3> HIDE DEF cell, freed, hit
    <3> QED BY <2>1, <2>3, <3>1 DEF Cell
  <2>4. CASE c \notin hit
    <3>1. cell(c) = t.cells[c] /\ c \notin freed
      BY <2>4
    <3> HIDE DEF cell, freed, hit
    <3> QED BY <2>1, <2>4, <3>1
  <2> QED BY <2>2, <2>3, <2>4
<1>7. /\ \A c \in Ids : r.cells[c] = cell(c)
      /\ \A x \in Ids : r.tail[x] = IF x = s /\ gone THEN None ELSE t.tail[x]
      /\ r.used = t.used - Cardinality(freed)
  <2> HIDE DEF cell, freed, in
  <2> QED BY <1>1, <1>2, <1>3
<1>8. \A c \in Ids : c \in freed <=> c \in hit /\ t.cells[c].seqs = {s}
  OBVIOUS
<1>9. \A c \in hit : s \in t.cells[c].seqs /\ c \in Ids
  OBVIOUS
<1>10. r \in Table
  <2>1. [c \in Ids |-> cell(c)] \in [Ids -> Cell]
    BY <1>6
  <2>2. HeadAfter(t.head, freed) \in Ids
    BY <1>1, <1>5, HeadType
  <2>3. Cardinality(freed) \in Nat
    BY <1>5, IdsFacts
  <2>4. (IF in THEN [t.tail EXCEPT ![s] = None] ELSE t.tail) \in [Ids -> Ids \cup {None}]
    <3> HIDE DEF in
    <3> QED BY <1>1
  <2>5. t.used - Cardinality(freed) \in Int
    BY <1>1, <2>3
  <2> HIDE DEF cell, freed, in
  <2> QED BY <1>2, <2>1, <2>2, <2>4, <2>5 DEF Table
<1> HIDE DEF cell, freed, hit, in
<1>11. Agree(r)
  <2> SUFFICES ASSUME NEW x \in Ids, NEW y \in Ids
               PROVE  (x \in r.cells[y].seqs) <=> (r.tail[x] = y)
    BY DEF Agree
  <2>1. (x \in t.cells[y].seqs) <=> (t.tail[x] = y)
    BY DEF Good, Agree
  <2>2. r.cells[y].seqs = IF y \in hit THEN t.cells[y].seqs \ {s} ELSE t.cells[y].seqs
    BY <1>6, <1>7
  <2>3. None # y
    BY IdsFacts
  <2> QED BY <1>4, <1>7, <2>1, <2>2, <2>3
<1>12. Entries(r, d)
  <2> SUFFICES ASSUME NEW y \in Ids
               PROVE  /\ r.cells[y].src \in {None, y}
                      /\ r.cells[y].seqs = {} => /\ r.cells[y].pos = -1
                                                 /\ (r.cells[y].src = y => d[y] = << >>)
                      /\ r.cells[y].seqs # {} => /\ r.cells[y].pos \in 0..(Forever - 1)
                                                 /\ r.cells[y].src = y
    BY DEF Entries
  <2>1. CASE y \in freed
    <3>1. r.cells[y] = EmptyCell
      BY <1>6, <1>7, <2>1
    <3>2. y # None
      BY IdsFacts
    <3> QED BY <3>1, <3>2, EmptyCellType
  <2>2. CASE y \notin freed
    <3>1. r.cells[y].pos = t.cells[y].pos /\ r.cells[y].src = t.cells[y].src
      BY <1>6, <1>7, <2>2
    <3>2. r.cells[y].seqs = {} <=> t.cells[y].seqs = {}
      BY ZenonT(60), <1>6, <1>7, <1>8, <1>9, <2>2
    <3> QED BY <3>1, <3>2 DEF Good, Entries
  <2> QED BY <2>1, <2>2
<1>13. ASSUME Counted(t) PROVE Counted(r)
  <2>1. Occupied(r.cells) = Occupied(t.cells) \ freed
    <3>1. ASSUME NEW y \in Ids
          PROVE  r.cells[y].seqs # {} <=> t.cells[y].seqs # {} /\ y \notin freed
      BY ZenonT(60), <1>6, <1>7, <1>8, <1>9
    <3> QED BY <3>1 DEF Occupied
  <2>2. Occupied(t.cells) \in SUBSET Ids /\ Occupied(t.cells) \cap freed = freed
    BY <1>5, <1>8, <1>9 DEF Occupied
  <2>3. Cardinality(Occupied(t.cells) \ freed) = Cardinality(Occupied(t.cells)) - Cardinality(freed)
    BY <2>2, IdsFacts, FS_Difference
  <2> QED BY <1>7, <1>13, <2>1, <2>3 DEF Counted
<1>14. ASSUME NEW x \in Ids, r.tail[x] # None
       PROVE  r.cells[r.tail[x]].pos = t.cells[t.tail[x]].pos
  <2>1. r.tail[x] = t.tail[x] /\ t.tail[x] \in Ids /\ ~(x = s /\ gone)
    BY <1>1, <1>7, <1>14, TableTypes
  <2>2. x \in t.cells[t.tail[x]].seqs
    BY <2>1 DEF Good, Agree
  <2>3. t.tail[x] \notin freed
    BY <1>4, <1>8, <2>1, <2>2
  <2>4. r.cells[t.tail[x]] = cell(t.tail[x]) /\ cell(t.tail[x]).pos = t.cells[t.tail[x]].pos
    BY <1>6, <1>7, <2>1, <2>3
  <2> QED BY <2>1, <2>4
<1> QED BY <1>7, <1>10, <1>11, <1>12, <1>13, <1>14 DEF Good, Removes

(* seq_cp: the destination is taken out of its cell and joins the source.     *)
LEMMA JoinFacts ==
  ASSUME use \in Uses, NEW d, NEW t, Good(t, d), NEW c \in Ids, t.cells[c].seqs # {},
         NEW to \in Ids, t.tail[to] = None, NEW r,
         r = [cells |-> [t.cells EXCEPT ![c] = [t.cells[c] EXCEPT !.seqs = @ \cup {to}]],
              tail  |-> [t.tail EXCEPT ![to] = c], head |-> t.head, used |-> t.used]
  PROVE  /\ Good(r, d)
         /\ Counted(t) => Counted(r)
         /\ \A x \in Ids : r.cells[x].pos = t.cells[x].pos
<1> DEFINE cell == [t.cells[c] EXCEPT !.seqs = @ \cup {to}]
<1>1. /\ t \in Table /\ t.cells \in [Ids -> Cell] /\ t.tail \in [Ids -> Ids \cup {None}]
      /\ t.head \in Ids /\ t.used \in Int /\ t.cells[c] \in Cell
  BY TableTypes DEF Good
<1>2. /\ cell \in Cell /\ cell.pos = t.cells[c].pos /\ cell.src = t.cells[c].src
      /\ cell.seqs = t.cells[c].seqs \cup {to}
  BY <1>1 DEF Cell
<1> HIDE DEF cell
<1>3. r = [cells |-> [t.cells EXCEPT ![c] = cell],
           tail  |-> [t.tail EXCEPT ![to] = c], head |-> t.head, used |-> t.used]
  BY DEF cell
<1>4. /\ \A x \in Ids : r.cells[x] = IF x = c THEN cell ELSE t.cells[x]
      /\ \A x \in Ids : r.tail[x] = IF x = to THEN c ELSE t.tail[x]
      /\ r.used = t.used
  <2>1. /\ r.cells = [t.cells EXCEPT ![c] = cell] /\ r.tail = [t.tail EXCEPT ![to] = c]
        /\ r.used = t.used
    BY <1>3
  <2> QED BY <1>1, <2>1
<1>5. r \in Table
  <2>1. [t.cells EXCEPT ![c] = cell] \in [Ids -> Cell]
    BY <1>1, <1>2
  <2>2. [t.tail EXCEPT ![to] = c] \in [Ids -> Ids \cup {None}]
    BY <1>1
  <2> QED BY <1>1, <1>3, <2>1, <2>2 DEF Table
<1>6. \A x \in Ids : /\ r.cells[x].pos = t.cells[x].pos /\ r.cells[x].src = t.cells[x].src
                     /\ r.cells[x].seqs = {} <=> t.cells[x].seqs = {}
  BY <1>2, <1>4
<1>7. Agree(r)
  <2> SUFFICES ASSUME NEW x \in Ids, NEW y \in Ids
               PROVE  (x \in r.cells[y].seqs) <=> (r.tail[x] = y)
    BY DEF Agree
  <2>1. (x \in t.cells[y].seqs) <=> (t.tail[x] = y)
    BY DEF Good, Agree
  <2>2. y # None
    BY IdsFacts
  <2> QED BY <1>2, <1>4, <2>1, <2>2
<1>8. Entries(r, d)
  BY <1>6 DEF Good, Entries
<1>9. ASSUME Counted(t) PROVE Counted(r)
  <2>1. Occupied(r.cells) = Occupied(t.cells)
    BY <1>6 DEF Occupied
  <2> QED BY <1>4, <1>9, <2>1 DEF Counted
<1> QED BY <1>4, <1>5, <1>6, <1>7, <1>8, <1>9 DEF Good

Copies(t, from, to, r) ==
  /\ \A x \in Ids : r.tail[x] = IF x = to THEN t.tail[from] ELSE t.tail[x]
  /\ \A x \in Ids : r.tail[x] # None => r.cells[r.tail[x]].pos = t.cells[r.tail[x]].pos

LEMMA SeqCpFacts ==
  ASSUME use \in Uses, NEW d, NEW t, Good(t, d), NEW from \in Ids, NEW to \in Ids,
         NEW r, r = SeqCpTo(t, from, to)
  PROVE  Good(r, d) /\ (Counted(t) => Counted(r)) /\ Copies(t, from, to, r)
<1>1. CASE from = to
  BY <1>1 DEF SeqCpTo, Copies
<1>2. CASE from # to
  <2>1. PICK b : b = Detach(t, to)
    OBVIOUS
  <2>2. /\ Good(b, d) /\ (Counted(t) => Counted(b))
        /\ \A x \in Ids : b.tail[x] = IF x = to THEN None ELSE t.tail[x]
        /\ \A x \in Ids : b.tail[x] # None =>
                            b.cells[b.tail[x]].pos = t.cells[t.tail[x]].pos
    <3>1. Good(b, d)
      BY <2>1, DetachFacts
    <3>2. Counted(t) => Counted(b)
      BY <2>1, DetachFacts
    <3>3. \A x \in Ids : b.tail[x] = IF x = to THEN None ELSE t.tail[x]
      BY SMTT(60), <2>1, DetachFacts
    <3>4. \A x \in Ids : b.tail[x] # None =>
                            b.cells[b.tail[x]].pos = t.cells[t.tail[x]].pos
      BY SMTT(60), <2>1, DetachFacts
    <3> QED BY <3>1, <3>2, <3>3, <3>4
  <2>3. b.tail[from] = t.tail[from] /\ b.tail[to] = None
    BY <1>2, <2>2
  <2>4. CASE t.tail[from] = None
    <3>1. r = b
      BY <1>2, <2>1, <2>3, <2>4 DEF SeqCpTo
    <3> QED BY <2>2, <2>4, <3>1 DEF Copies
  <2>5. CASE t.tail[from] # None
    <3>1. PICK c : c = t.tail[from]
      OBVIOUS
    <3>2. c \in Ids
      BY <2>5, <3>1, TableTypes DEF Good
    <3>3. b.cells[c].seqs # {}
      BY <2>2, <2>3, <3>1, <3>2 DEF Good, Agree
    <3>4. r = [cells |-> [b.cells EXCEPT ![c] = [b.cells[c] EXCEPT !.seqs = @ \cup {to}]],
               tail  |-> [b.tail EXCEPT ![to] = c], head |-> b.head, used |-> b.used]
      BY <1>2, <2>1, <2>3, <2>5, <3>1 DEF SeqCpTo
    <3>5. /\ Good(r, d) /\ (Counted(b) => Counted(r))
          /\ \A x \in Ids : r.tail[x] = IF x = to THEN c ELSE b.tail[x]
          /\ \A x \in Ids : r.cells[x].pos = b.cells[x].pos
      <4>1. Good(r, d) /\ (Counted(b) => Counted(r))
        BY <2>2, <2>3, <3>2, <3>3, <3>4, JoinFacts
      <4>2. \A x \in Ids : r.tail[x] = IF x = to THEN c ELSE b.tail[x]
        <5>1. r.tail = [b.tail EXCEPT ![to] = c] /\ b.tail \in [Ids -> Ids \cup {None}]
          BY <2>2, <3>4, TableTypes DEF Good
        <5> QED BY <5>1
      <4>3. \A x \in Ids : r.cells[x].pos = b.cells[x].pos
        BY <2>2, <2>3, <3>2, <3>3, <3>4, JoinFacts
      <4> QED BY <4>1, <4>2, <4>3
    <3>6. \A x \in Ids : r.tail[x] = IF x = to THEN t.tail[from] ELSE t.tail[x]
      BY <2>2, <3>1, <3>5
    <3>7. ASSUME NEW x \in Ids, r.tail[x] # None
          PROVE  r.cells[r.tail[x]].pos = t.cells[r.tail[x]].pos
      <4>1. r.tail[x] \in Ids
        BY <3>5, <3>7, TableTypes DEF Good
      <4>2. CASE x = to
        <5>1. r.tail[x] = c /\ b.cells[c].pos = t.cells[c].pos
          BY <2>2, <2>3, <2>5, <3>1, <3>5, <4>2
        <5> QED BY <3>2, <3>5, <5>1
      <4>3. CASE x # to
        <5>1. r.tail[x] = t.tail[x] /\ b.tail[x] = t.tail[x]
          BY <2>2, <3>5, <4>3
        <5>2. b.cells[t.tail[x]].pos = t.cells[t.tail[x]].pos
          BY <2>2, <3>7, <5>1
        <5> QED BY <3>5, <4>1, <5>1, <5>2
      <4> QED BY <4>2, <4>3
    <3> QED BY <2>2, <3>5, <3>6, <3>7 DEF Copies
  <2> QED BY <2>4, <2>5
<1> QED BY <1>1, <1>2

(* seq_keep: what the sequence is not in is emptied.                          *)
LEMMA SeqKeepFacts ==
  ASSUME use \in Uses, NEW d, NEW t, Good(t, d), NEW s \in Ids, NEW r, r = SeqKeepTo(t, s)
  PROVE  /\ Good(r, d)
         /\ Counted(t) => Counted(r)
         /\ \A x \in Ids : r.tail[x] = IF x = s THEN t.tail[s] ELSE None
         /\ r.tail[s] # None => r.cells[r.tail[s]].pos = t.cells[t.tail[s]].pos
<1> DEFINE others == {c \in Ids : s \notin t.cells[c].seqs}
           lost == {c \in others : t.cells[c].pos >= 0}
           cell(c) == IF c \in others THEN EmptyCell ELSE [t.cells[c] EXCEPT !.seqs = {s}]
<1>1. /\ t \in Table /\ t.cells \in [Ids -> Cell] /\ t.tail \in [Ids -> Ids \cup {None}]
      /\ t.head \in Ids /\ t.used \in Int
  BY TableTypes DEF Good
<1>2. r = [cells |-> [c \in Ids |-> cell(c)],
           tail |-> [i \in Ids |-> IF i = s THEN t.tail[s] ELSE None],
           head |-> HeadAfter(t.head, others), used |-> t.used - Cardinality(lost)]
  BY DEF SeqKeepTo
<1>3. \A c \in Ids : c \notin others <=> t.tail[s] = c
  BY DEF Good, Agree
<1>4. others \in SUBSET Ids /\ lost \in SUBSET Ids
  OBVIOUS
<1>5. ASSUME NEW c \in Ids
      PROVE  /\ cell(c) \in Cell
             /\ c \in others => cell(c) = EmptyCell
             /\ c \notin others => /\ cell(c).pos = t.cells[c].pos /\ cell(c).seqs = {s}
                                   /\ cell(c).src = t.cells[c].src
  <2>1. t.cells[c] \in Cell
    BY <1>1
  <2>2. CASE c \in others
    BY <2>2, EmptyCellType
  <2>3. CASE c \notin others
    <3>1. cell(c) = [t.cells[c] EXCEPT !.seqs = {s}]
      BY <2>3
    <3> HIDE DEF cell, others
    <3> QED BY <2>1, <2>3, <3>1 DEF Cell
  <2> QED BY <2>2, <2>3
<1>6. \A c \in Ids : c \in lost <=> c \in others /\ t.cells[c].seqs # {}
  BY <1>1, TableTypes DEF Good, Entries
<1> HIDE DEF cell, others, lost
<1>7. /\ \A c \in Ids : r.cells[c] = cell(c)
      /\ \A x \in Ids : r.tail[x] = IF x = s THEN t.tail[s] ELSE None
      /\ r.used = t.used - Cardinality(lost)
  BY <1>2
<1>8. r \in Table
  <2>1. [c \in Ids |-> cell(c)] \in [Ids -> Cell]
    BY <1>5
  <2>2. HeadAfter(t.head, others) \in Ids
    BY <1>1, <1>4, HeadType
  <2>3. t.used - Cardinality(lost) \in Int
    BY <1>1, <1>4, IdsFacts
  <2>4. [i \in Ids |-> IF i = s THEN t.tail[s] ELSE None] \in [Ids -> Ids \cup {None}]
    BY <1>1
  <2> QED BY <1>2, <2>1, <2>2, <2>3, <2>4 DEF Table
<1>9. Agree(r)
  <2> SUFFICES ASSUME NEW x \in Ids, NEW y \in Ids
               PROVE  (x \in r.cells[y].seqs) <=> (r.tail[x] = y)
    BY DEF Agree
  <2>1. y # None
    BY IdsFacts
  <2>2. CASE y \in others
    BY <1>3, <1>5, <1>7, <2>1, <2>2, EmptyCellType
  <2>3. CASE y \notin others
    BY <1>3, <1>5, <1>7, <2>1, <2>3
  <2> QED BY <2>2, <2>3
<1>10. Entries(r, d)
  <2> SUFFICES ASSUME NEW y \in Ids
               PROVE  /\ r.cells[y].src \in {None, y}
                      /\ r.cells[y].seqs = {} => /\ r.cells[y].pos = -1
                                                 /\ (r.cells[y].src = y => d[y] = << >>)
                      /\ r.cells[y].seqs # {} => /\ r.cells[y].pos \in 0..(Forever - 1)
                                                 /\ r.cells[y].src = y
    BY DEF Entries
  <2>1. CASE y \in others
    <3>1. r.cells[y] = EmptyCell /\ y # None
      BY <1>5, <1>7, <2>1, IdsFacts
    <3> QED BY <3>1, EmptyCellType
  <2>2. CASE y \notin others
    <3>1. t.cells[y].seqs # {}
      BY <1>3, <2>2 DEF Good, Agree
    <3>2. t.cells[y].pos \in 0..(Forever - 1) /\ t.cells[y].src = y
      BY <3>1 DEF Good, Entries
    <3> QED BY <1>5, <1>7, <2>2, <3>2
  <2> QED BY <2>1, <2>2
<1>11. ASSUME Counted(t) PROVE Counted(r)
  <2>1. Occupied(r.cells) = Occupied(t.cells) \ lost
    <3>1. ASSUME NEW y \in Ids
          PROVE  r.cells[y].seqs # {} <=> t.cells[y].seqs # {} /\ y \notin lost
      <4>1. CASE y \in others
        BY <1>5, <1>6, <1>7, <4>1, EmptyCellType
      <4>2. CASE y \notin others
        <5>1. s \in t.cells[y].seqs
          BY <1>3, <4>2 DEF Good, Agree
        <5> QED BY <1>5, <1>6, <1>7, <4>2, <5>1
      <4> QED BY <4>1, <4>2
    <3> QED BY <3>1 DEF Occupied
  <2>2. Occupied(t.cells) \in SUBSET Ids /\ Occupied(t.cells) \cap lost = lost
    BY <1>4, <1>6 DEF Occupied
  <2>3. Cardinality(Occupied(t.cells) \ lost) = Cardinality(Occupied(t.cells)) - Cardinality(lost)
    BY <2>2, IdsFacts, FS_Difference
  <2> QED BY <1>7, <1>11, <2>1, <2>3 DEF Counted
<1>12. ASSUME r.tail[s] # None PROVE r.cells[r.tail[s]].pos = t.cells[t.tail[s]].pos
  <2>1. r.tail[s] = t.tail[s] /\ t.tail[s] \in Ids
    BY <1>1, <1>7, <1>12, TableTypes
  <2>2. t.tail[s] \notin others
    BY <1>3, <2>1
  <2>3. r.cells[t.tail[s]] = cell(t.tail[s]) /\ cell(t.tail[s]).pos = t.cells[t.tail[s]].pos
    BY <1>5, <1>7, <2>1, <2>2
  <2> QED BY <2>1, <2>3
<1> QED BY <1>7, <1>8, <1>9, <1>10, <1>11, <1>12 DEF Good

(* seq_add, seq_div: a cell changes its position.                             *)
LEMMA WithPosFacts ==
  ASSUME use \in Uses, NEW d, NEW t, Good(t, d), NEW c \in Ids, t.cells[c].seqs # {},
         NEW pos \in 0..(Forever - 1), NEW r, r = WithPos(t, c, pos)
  PROVE  /\ Good(r, d)
         /\ Counted(t) => Counted(r)
         /\ \A x \in Ids : r.tail[x] = t.tail[x]
         /\ \A x \in Ids : r.cells[x].pos = IF x = c THEN pos ELSE t.cells[x].pos
<1>1. /\ t \in Table /\ t.cells \in [Ids -> Cell] /\ t.tail \in [Ids -> Ids \cup {None}]
      /\ t.head \in Ids /\ t.used \in Int /\ t.cells[c] \in Cell
  BY TableTypes DEF Good
<1> DEFINE cell == [t.cells[c] EXCEPT !.pos = pos]
<1>2. cell \in Cell /\ cell.pos = pos /\ cell.src = t.cells[c].src /\ cell.seqs = t.cells[c].seqs
  BY <1>1, IdsFacts DEF Cell
<1>3. r = [t EXCEPT !.cells = [t.cells EXCEPT ![c] = cell]]
  BY <1>1 DEF WithPos
<1> HIDE DEF cell
<1>4. [t.cells EXCEPT ![c] = cell] \in [Ids -> Cell]
  BY <1>1, <1>2
<1>5. /\ r \in Table /\ r.cells = [t.cells EXCEPT ![c] = cell] /\ r.tail = t.tail
      /\ r.used = t.used
  BY <1>1, <1>3, <1>4 DEF Table
<1>6. \A x \in Ids : r.cells[x] = IF x = c THEN cell ELSE t.cells[x]
  BY <1>1, <1>5
<1>7. \A x \in Ids : r.cells[x].src = t.cells[x].src /\ r.cells[x].seqs = t.cells[x].seqs
  BY <1>2, <1>6
<1>8. Agree(r)
  BY <1>5, <1>7 DEF Good, Agree
<1>9. Entries(r, d)
  BY <1>2, <1>6, <1>7 DEF Good, Entries
<1>10. ASSUME Counted(t) PROVE Counted(r)
  <2>1. Occupied(r.cells) = Occupied(t.cells)
    BY <1>7 DEF Occupied
  <2> QED BY <1>5, <1>10, <2>1 DEF Counted
<1> QED BY <1>2, <1>5, <1>6, <1>8, <1>9, <1>10 DEF Good

-----------------------------------------------------------------------------
(***************************************************************************)
(* The loops of find_slot().  Each is a recursive function; that it is     *)
(* what its definition says holds because such a function exists for every *)
(* length, by induction.                                                   *)
(***************************************************************************)
LEMMA FollowersLoop ==
  ASSUME NEW t, NEW list, NEW n \in Nat, n = Len(list)
  PROVE  \E f : /\ f[0] = t /\ FollowersDetached(t, list) = f[n]
               /\ \A k \in 1..n : f[k] = IF k = 1 THEN f[k - 1] ELSE Detach(f[k - 1], list[k])
<1> DEFINE F(g, m) == [k \in 0..m |-> IF k = 0 THEN t ELSE IF k = 1 THEN g[k - 1]
                                      ELSE Detach(g[k - 1], list[k])]
           T == {m \in Nat : \E g : g = F(g, m)}
<1>1. 0 \in T
  <2>1. PICK h : h = [k \in 0..0 |-> t]
    OBVIOUS
  <2>2. h = F(h, 0)
    BY <2>1
  <2> HIDE DEF F
  <2> QED BY <2>2
<1>2. ASSUME NEW m \in T PROVE m + 1 \in T
  <2>1. PICK g : g = F(g, m)
    OBVIOUS
  <2>2. PICK h : h = F(g, m + 1)
    OBVIOUS
  <2>3. m \in Nat /\ m + 1 \in Nat
    OBVIOUS
  <2>4. ASSUME NEW k \in 0..(m + 1), k # 0 PROVE h[k - 1] = g[k - 1]
    <3>1. PICK i : i = k - 1
      OBVIOUS
    <3>2. i \in 0..m /\ i \in 0..(m + 1)
      BY <2>3, <2>4, <3>1
    <3>3. g[i] = IF i = 0 THEN t ELSE IF i = 1 THEN g[i - 1] ELSE Detach(g[i - 1], list[i])
      BY <2>1, <3>2
    <3>4. h[i] = IF i = 0 THEN t ELSE IF i = 1 THEN g[i - 1] ELSE Detach(g[i - 1], list[i])
      BY <2>2, <3>2
    <3> QED BY <3>1, <3>3, <3>4
  <2>5. h = F(h, m + 1)
    BY <2>2, <2>4
  <2> HIDE DEF F
  <2> QED BY <2>3, <2>5
<1>3. n \in T
  <2>1. T \in SUBSET Nat
    OBVIOUS
  <2> HIDE DEF T
  <2> QED BY <1>1, <1>2, <2>1, Counting
<1>4. PICK f : f = CHOOSE g : g = F(g, n)
  OBVIOUS
<1>5. FollowersDetached(t, list) = f[n]
  BY <1>4 DEF FollowersDetached, Loop
<1>6. f = F(f, n)
  <2>1. \E g : g = F(g, n)
    BY <1>3
  <2> HIDE DEF F
  <2> QED BY <1>4, <2>1
<1>7. f[0] = t /\ \A k \in 1..n : f[k] = IF k = 1 THEN f[k - 1] ELSE Detach(f[k - 1], list[k])
  BY <1>6
<1> QED BY <1>5, <1>7

LEMMA UncoupledLoop ==
  ASSUME NEW t, NEW u, NEW n \in Nat, n = Len(u)
  PROVE  \E f : /\ f[0] = t /\ Uncoupled(t, u) = f[n]
               /\ \A k \in 1..n : f[k] = FollowersDetached(f[k - 1], u[k])
<1> DEFINE F(g, m) == [k \in 0..m |-> IF k = 0 THEN t ELSE FollowersDetached(g[k - 1], u[k])]
           T == {m \in Nat : \E g : g = F(g, m)}
<1>1. 0 \in T
  <2>1. PICK h : h = [k \in 0..0 |-> t]
    OBVIOUS
  <2>2. h = F(h, 0)
    BY <2>1
  <2> HIDE DEF F
  <2> QED BY <2>2
<1>2. ASSUME NEW m \in T PROVE m + 1 \in T
  <2>1. PICK g : g = F(g, m)
    OBVIOUS
  <2>2. PICK h : h = F(g, m + 1)
    OBVIOUS
  <2>3. m \in Nat /\ m + 1 \in Nat
    OBVIOUS
  <2>4. ASSUME NEW k \in 0..(m + 1), k # 0 PROVE h[k - 1] = g[k - 1]
    <3>1. PICK i : i = k - 1
      OBVIOUS
    <3>2. i \in 0..m /\ i \in 0..(m + 1)
      BY <2>3, <2>4, <3>1
    <3>3. g[i] = IF i = 0 THEN t ELSE FollowersDetached(g[i - 1], u[i])
      BY <2>1, <3>2
    <3>4. h[i] = IF i = 0 THEN t ELSE FollowersDetached(g[i - 1], u[i])
      BY <2>2, <3>2
    <3> QED BY <3>1, <3>3, <3>4
  <2>5. h = F(h, m + 1)
    BY <2>2, <2>4
  <2> HIDE DEF F
  <2> QED BY <2>3, <2>5
<1>3. n \in T
  <2>1. T \in SUBSET Nat
    OBVIOUS
  <2> HIDE DEF T
  <2> QED BY <1>1, <1>2, <2>1, Counting
<1>4. PICK f : f = CHOOSE g : g = F(g, n)
  OBVIOUS
<1>5. Uncoupled(t, u) = f[n]
  BY <1>4 DEF Uncoupled, Loop
<1>6. f = F(f, n)
  <2>1. \E g : g = F(g, n)
    BY <1>3
  <2> HIDE DEF F
  <2> QED BY <1>4, <2>1
<1>7. f[0] = t /\ \A k \in 1..n : f[k] = FollowersDetached(f[k - 1], u[k])
  BY <1>6
<1> QED BY <1>5, <1>7

LEMMA ClaimLoop ==
  ASSUME NEW t, NEW u, NEW first, first = Unclaimed(t), NEW n \in Nat, n = Len(u)
  PROVE  \E f : /\ f[0] = first /\ Claimed(t, u) = f[n]
               /\ \A k \in 1..n : f[k] = Claim(f[k - 1], u, k)
<1> DEFINE F(g, m) == [k \in 0..m |-> IF k = 0 THEN first ELSE Claim(g[k - 1], u, k)]
           T == {m \in Nat : \E g : g = F(g, m)}
<1>1. 0 \in T
  <2>1. PICK h : h = [k \in 0..0 |-> first]
    OBVIOUS
  <2>2. h = F(h, 0)
    BY <2>1
  <2> HIDE DEF F
  <2> QED BY <2>2
<1>2. ASSUME NEW m \in T PROVE m + 1 \in T
  <2>1. PICK g : g = F(g, m)
    OBVIOUS
  <2>2. PICK h : h = F(g, m + 1)
    OBVIOUS
  <2>3. m \in Nat /\ m + 1 \in Nat
    OBVIOUS
  <2>4. ASSUME NEW k \in 0..(m + 1), k # 0 PROVE h[k - 1] = g[k - 1]
    <3>1. PICK i : i = k - 1
      OBVIOUS
    <3>2. i \in 0..m /\ i \in 0..(m + 1)
      BY <2>3, <2>4, <3>1
    <3>3. g[i] = IF i = 0 THEN first ELSE Claim(g[i - 1], u, i)
      BY <2>1, <3>2
    <3>4. h[i] = IF i = 0 THEN first ELSE Claim(g[i - 1], u, i)
      BY <2>2, <3>2
    <3> QED BY <3>1, <3>3, <3>4
  <2>5. h = F(h, m + 1)
    BY <2>2, <2>4
  <2> HIDE DEF F
  <2> QED BY <2>3, <2>5
<1>3. n \in T
  <2>1. T \in SUBSET Nat
    OBVIOUS
  <2> HIDE DEF T
  <2> QED BY <1>1, <1>2, <2>1, Counting
<1>4. PICK f : f = CHOOSE g : g = F(g, n)
  OBVIOUS
<1>5. Claimed(t, u) = f[n]
  BY <1>4 DEF Claimed, Loop
<1>6. f = F(f, n)
  <2>1. \E g : g = F(g, n)
    BY <1>3
  <2> HIDE DEF F
  <2> QED BY <1>4, <2>1
<1>7. f[0] = first /\ \A k \in 1..n : f[k] = Claim(f[k - 1], u, k)
  BY <1>6
<1> QED BY <1>5, <1>7

LEMMA GatherLoop ==
  ASSUME NEW t, NEW u, NEW lo, NEW n \in Nat, n = Len(u)
  PROVE  \E f : /\ f[0] = t /\ Gathered(t, u, lo) = f[n]
               /\ \A k \in 1..n : f[k] = Swapped(f[k - 1], lo + k - 1, f[k - 1].tail[Owner(u, k)])
<1> DEFINE F(g, m) == [k \in 0..m |->
                         IF k = 0 THEN t
                         ELSE Swapped(g[k - 1], lo + k - 1, g[k - 1].tail[Owner(u, k)])]
           T == {m \in Nat : \E g : g = F(g, m)}
<1>1. 0 \in T
  <2>1. PICK h : h = [k \in 0..0 |-> t]
    OBVIOUS
  <2>2. h = F(h, 0)
    BY <2>1
  <2> HIDE DEF F
  <2> QED BY <2>2
<1>2. ASSUME NEW m \in T PROVE m + 1 \in T
  <2>1. PICK g : g = F(g, m)
    OBVIOUS
  <2>2. PICK h : h = F(g, m + 1)
    OBVIOUS
  <2>3. m \in Nat /\ m + 1 \in Nat
    OBVIOUS
  <2>4. ASSUME NEW k \in 0..(m + 1), k # 0 PROVE h[k - 1] = g[k - 1]
    <3>1. PICK i : i = k - 1
      OBVIOUS
    <3>2. i \in 0..m /\ i \in 0..(m + 1)
      BY <2>3, <2>4, <3>1
    <3>3. g[i] = IF i = 0 THEN t ELSE Swapped(g[i - 1], lo + i - 1, g[i - 1].tail[Owner(u, i)])
      BY <2>1, <3>2
    <3>4. h[i] = IF i = 0 THEN t ELSE Swapped(g[i - 1], lo + i - 1, g[i - 1].tail[Owner(u, i)])
      BY <2>2, <3>2
    <3> QED BY <3>1, <3>3, <3>4
  <2>5. h = F(h, m + 1)
    BY <2>2, <2>4
  <2> HIDE DEF F
  <2> QED BY <2>3, <2>5
<1>3. n \in T
  <2>1. T \in SUBSET Nat
    OBVIOUS
  <2> HIDE DEF T
  <2> QED BY <1>1, <1>2, <2>1, Counting
<1>4. PICK f : f = CHOOSE g : g = F(g, n)
  OBVIOUS
<1>5. Gathered(t, u, lo) = f[n]
  BY <1>4 DEF Gathered, Loop
<1>6. f = F(f, n)
  <2>1. \E g : g = F(g, n)
    BY <1>3
  <2> HIDE DEF F
  <2> QED BY <1>4, <2>1
<1>7. f[0] = t /\ \A k \in 1..n : f[k] = Swapped(f[k - 1], lo + k - 1, f[k - 1].tail[Owner(u, k)])
  BY <1>6
<1> QED BY <1>5, <1>7

LEMMA UpdateLoop ==
  ASSUME NEW t, NEW u, NEW lo, NEW lastPos, NEW n \in Nat, n = Len(u)
  PROVE  \E f : /\ f[0] = t /\ Updated(t, u, lo, lastPos) = f[n]
               /\ \A k \in 1..n : f[k] = Occupy(f[k - 1], lo + k - 1, u[k], lastPos[k])
<1> DEFINE F(g, m) == [k \in 0..m |-> IF k = 0 THEN t
                                      ELSE Occupy(g[k - 1], lo + k - 1, u[k], lastPos[k])]
           T == {m \in Nat : \E g : g = F(g, m)}
<1>1. 0 \in T
  <2>1. PICK h : h = [k \in 0..0 |-> t]
    OBVIOUS
  <2>2. h = F(h, 0)
    BY <2>1
  <2> HIDE DEF F
  <2> QED BY <2>2
<1>2. ASSUME NEW m \in T PROVE m + 1 \in T
  <2>1. PICK g : g = F(g, m)
    OBVIOUS
  <2>2. PICK h : h = F(g, m + 1)
    OBVIOUS
  <2>3. m \in Nat /\ m + 1 \in Nat
    OBVIOUS
  <2>4. ASSUME NEW k \in 0..(m + 1), k # 0 PROVE h[k - 1] = g[k - 1]
    <3>1. PICK i : i = k - 1
      OBVIOUS
    <3>2. i \in 0..m /\ i \in 0..(m + 1)
      BY <2>3, <2>4, <3>1
    <3>3. g[i] = IF i = 0 THEN t ELSE Occupy(g[i - 1], lo + i - 1, u[i], lastPos[i])
      BY <2>1, <3>2
    <3>4. h[i] = IF i = 0 THEN t ELSE Occupy(g[i - 1], lo + i - 1, u[i], lastPos[i])
      BY <2>2, <3>2
    <3> QED BY <3>1, <3>3, <3>4
  <2>5. h = F(h, m + 1)
    BY <2>2, <2>4
  <2> HIDE DEF F
  <2> QED BY <2>3, <2>5
<1>3. n \in T
  <2>1. T \in SUBSET Nat
    OBVIOUS
  <2> HIDE DEF T
  <2> QED BY <1>1, <1>2, <2>1, Counting
<1>4. PICK f : f = CHOOSE g : g = F(g, n)
  OBVIOUS
<1>5. Updated(t, u, lo, lastPos) = f[n]
  BY <1>4 DEF Updated, Loop
<1>6. f = F(f, n)
  <2>1. \E g : g = F(g, n)
    BY <1>3
  <2> HIDE DEF F
  <2> QED BY <1>4, <2>1
<1>7. f[0] = t /\ \A k \in 1..n : f[k] = Occupy(f[k - 1], lo + k - 1, u[k], lastPos[k])
  BY <1>6
<1> QED BY <1>5, <1>7

-----------------------------------------------------------------------------
(***************************************************************************)
(* Ubatches: lists of sequences, each sequence in one of them.             *)
(***************************************************************************)
IsUbatch(u) ==
  /\ Len(u) \in Nat \ {0} /\ DOMAIN u = 1..Len(u)
  /\ \A k \in 1..Len(u) :
       /\ Len(u[k]) \in Nat \ {0} /\ DOMAIN u[k] = 1..Len(u[k])
       /\ \A j \in 1..Len(u[k]) : u[k][j] \in Ids
  /\ \A k, m \in 1..Len(u) : \A i \in 1..Len(u[k]), j \in 1..Len(u[m]) :
       u[k][i] = u[m][j] => k = m /\ i = j

LEMMA OneList ==
  ASSUME NEW s \in Ids
  PROVE  IsUbatch(<< << s >> >>)
<1> DEFINE u == << << s >> >>
<1>1. Len(u) = 1 /\ DOMAIN u = 1..1 /\ u[1] = << s >> /\ Len(u[1]) = 1
      /\ DOMAIN u[1] = 1..1 /\ u[1][1] = s
  OBVIOUS
<1> HIDE DEF u
<1>2. \A k \in 1..1 : k = 1
  OBVIOUS
<1>3. IsUbatch(u)
  BY <1>1, <1>2 DEF IsUbatch
<1> QED BY <1>3 DEF u

LEMMA SinglyUbatch ==
  ASSUME NEW p, NEW n \in Nat \ {0}, p \in [1..n -> Ids],
         \A i, j \in 1..n : p[i] = p[j] => i = j
  PROVE  /\ Singly(p) \in Seq(Seq(Ids)) /\ Len(Singly(p)) = n
         /\ \A k \in 1..n : Singly(p)[k] = << p[k] >>
         /\ IsUbatch(Singly(p))
<1> DEFINE u == Singly(p)
<1>1. u = [i \in 1..n |-> << p[i] >>]
  BY DEF Singly
<1>2. \A i \in 1..n : << p[i] >> \in Seq(Ids)
  OBVIOUS
<1>3. u \in [1..n -> Seq(Ids)]
  BY <1>1, <1>2
<1>4. \A k \in 1..n : u[k] = << p[k] >>
  BY <1>1
<1> HIDE DEF u
<1>5. u \in Seq(Seq(Ids)) /\ Len(u) = n /\ DOMAIN u = 1..n
  BY <1>3, LenProperties
<1>6. ASSUME NEW k \in 1..n PROVE Len(u[k]) = 1 /\ DOMAIN u[k] = 1..1 /\ u[k][1] = p[k]
  <2>1. PICK x : x = p[k]
    OBVIOUS
  <2>2. Len(<< x >>) = 1 /\ DOMAIN << x >> = 1..1 /\ << x >>[1] = x
    OBVIOUS
  <2> QED BY <1>4, <2>1, <2>2
<1>7. \A k \in 1..1 : k = 1
  OBVIOUS
<1>8. IsUbatch(u)
  <2>1. ASSUME NEW k \in 1..n, NEW m \in 1..n, NEW i \in 1..Len(u[k]), NEW j \in 1..Len(u[m]),
               u[k][i] = u[m][j]
        PROVE  k = m /\ i = j
    <3>1. i = 1 /\ j = 1
      BY <1>6, <1>7
    <3> QED BY <1>6, <2>1, <3>1
  <2>2. \A k \in 1..n : /\ Len(u[k]) \in Nat \ {0} /\ DOMAIN u[k] = 1..Len(u[k])
                        /\ \A j \in 1..Len(u[k]) : u[k][j] \in Ids
    BY <1>6, <1>7
  <2> QED BY <1>5, <2>1, <2>2 DEF IsUbatch
<1> QED BY <1>4, <1>5, <1>8 DEF u

LEMMA CoupledUbatch ==
  ASSUME NEW p, NEW n \in Nat \ {0}, p \in [1..n -> Ids], n > 1,
         \A i, j \in 1..n : p[i] = p[j] => i = j
  PROVE  IsUbatch(Coupled(p))
<1>1. p \in Seq(Ids) /\ Len(p) = n
  BY LenProperties
<1> DEFINE q == SubSeq(p, 3, Len(p))
           pair == << p[1], p[2] >>
           u == << pair >> \o Singly(q)
<1>2. pair \in Seq(Ids) /\ Len(pair) = 2 /\ pair[1] = p[1] /\ pair[2] = p[2]
      /\ DOMAIN pair = 1..2 /\ p[1] \in Ids /\ p[2] \in Ids
  OBVIOUS
<1> HIDE DEF pair
<1>3. << pair >> \in Seq(Seq(Ids)) /\ Len(<< pair >>) = 1 /\ << pair >>[1] = pair
  BY <1>2
<1>4. CASE n = 2
  <2>1. Singly(q) = << >>
    <3>1. q = << >>
      BY <1>1, <1>4
    <3>2. DOMAIN q = {}
      BY <3>1
    <3> HIDE DEF q
    <3>3. Singly(q) = [i \in {} |-> << q[i] >>]
      BY <3>2 DEF Singly
    <3> QED BY <3>3
  <2>2. Len(u) = 1 /\ u[1] = pair /\ DOMAIN u = 1..1
    BY <1>3, <2>1
  <2> HIDE DEF u
  <2>3. IsUbatch(u)
    <3>1. \A k \in 1..1 : k = 1
      OBVIOUS
    <3>2. \A k \in 1..2 : k = 1 \/ k = 2
      OBVIOUS
    <3>3. p[1] # p[2]
      BY <1>4
    <3>4. ASSUME NEW k \in 1..1
          PROVE  /\ u[k] = pair /\ Len(u[k]) \in Nat \ {0} /\ DOMAIN u[k] = 1..Len(u[k])
                 /\ \A j \in 1..Len(u[k]) : u[k][j] \in Ids
      <4>1. u[k] = pair
        BY <2>2, <3>1
      <4>2. \A j \in 1..2 : pair[j] \in Ids
        BY <1>2, <3>2
      <4>3. Len(pair) \in Nat \ {0} /\ DOMAIN pair = 1..Len(pair)
            /\ \A j \in 1..Len(pair) : pair[j] \in Ids
        BY <1>2, <4>2
      <4> QED BY <4>1, <4>3
    <3>5. ASSUME NEW i \in 1..2, NEW j \in 1..2, pair[i] = pair[j] PROVE i = j
      BY <1>2, <3>2, <3>3, <3>5
    <3>6. ASSUME NEW k \in 1..1, NEW m \in 1..1, NEW i \in 1..Len(u[k]),
                 NEW j \in 1..Len(u[m]), u[k][i] = u[m][j]
          PROVE  k = m /\ i = j
      <4>1. k = m /\ u[k] = pair /\ u[m] = pair
        BY <3>1, <3>4
      <4>2. i \in 1..2 /\ j \in 1..2
        BY <1>2, <4>1
      <4> QED BY <3>5, <3>6, <4>1, <4>2
    <3> QED BY <2>2, <3>4, <3>6 DEF IsUbatch
  <2> QED BY <2>3 DEF Coupled, u, q, pair
<1>5. CASE n > 2
  <2> DEFINE m == n - 2
  <2>1. /\ q \in [1..m -> Ids] /\ m \in Nat \ {0}
        /\ \A i \in 1..m : q[i] = p[i + 2]
    <3>1. /\ Len(q) = m /\ q \in Seq(Ids) /\ m \in Nat \ {0}
          /\ \A i \in 1..m : q[i] = p[i + 2]
      <4>1. 3 <= Len(p) + 1 /\ 3 \in 1..(Len(p) + 1) /\ Len(p) \in 2..Len(p)
        BY <1>1, <1>5
      <4>2. Len(q) = Len(p) - 3 + 1 /\ q \in Seq(Ids)
            /\ \A i \in 1..(Len(p) - 3 + 1) : q[i] = p[3 + i - 1]
        BY <1>1, <4>1, SubSeqProperties
      <4>3. Len(p) - 3 + 1 = m /\ m \in Nat \ {0}
        BY <1>1, <1>5
      <4>4. \A i \in 1..m : 3 + i - 1 = i + 2
        OBVIOUS
      <4> HIDE DEF q, m
      <4> QED BY <4>2, <4>3, <4>4
    <3> HIDE DEF q, m
    <3> QED BY <3>1, LenProperties
  <2>2. \A i, j \in 1..m : q[i] = q[j] => i = j
    <3>1. \A i \in 1..m : i + 2 \in 1..n
      BY <1>5
    <3> HIDE DEF q
    <3> QED BY <2>1, <3>1
  <2> HIDE DEF q, m
  <2>3. /\ Singly(q) \in Seq(Seq(Ids)) /\ Len(Singly(q)) = m
        /\ \A k \in 1..m : Singly(q)[k] = << q[k] >>
    BY <2>1, <2>2, SinglyUbatch
  <2>4. PICK v : v = Singly(q)
    OBVIOUS
  <2>5. u = << pair >> \o v /\ v \in Seq(Seq(Ids)) /\ Len(v) = m
    BY <2>3, <2>4
  <2>6. /\ u \in Seq(Seq(Ids)) /\ Len(u) = 1 + m
        /\ \A k \in 1..(1 + m) : u[k] = IF k <= 1 THEN << pair >>[k] ELSE v[k - 1]
    <3>1. PICK w : w = << pair >>
      OBVIOUS
    <3>2. u = w \o v /\ w \in Seq(Seq(Ids)) /\ Len(w) = 1
      BY <1>3, <2>5, <3>1
    <3> HIDE DEF u
    <3>3. /\ u \in Seq(Seq(Ids)) /\ Len(u) = Len(w) + Len(v)
          /\ \A k \in 1..(Len(w) + Len(v)) : u[k] = IF k <= Len(w) THEN w[k] ELSE v[k - Len(w)]
      BY <2>5, <3>2, ConcatProperties
    <3> QED BY <2>5, <3>1, <3>2, <3>3
  <2> HIDE DEF u
  <2>7. /\ u[1] = pair /\ m \in Nat \ {0}
        /\ \A k \in 2..(m + 1) : u[k] = << p[k + 1] >> /\ k + 1 \in 3..n
    <3>1. m \in Nat \ {0} /\ n = m + 2
      BY <1>5, <2>1 DEF m
    <3>2. u[1] = pair
      BY <1>3, <2>6, <3>1
    <3>3. ASSUME NEW k \in 2..(m + 1) PROVE u[k] = << p[k + 1] >> /\ k + 1 \in 3..n
      <4>1. k - 1 \in 1..m /\ k \in 1..(1 + m) /\ ~(k <= 1) /\ (k - 1) + 2 = k + 1
            /\ k + 1 \in 3..n
        BY <3>1
      <4>2. u[k] = v[k - 1] /\ v[k - 1] = << q[k - 1] >> /\ q[k - 1] = p[(k - 1) + 2]
        BY <2>1, <2>3, <2>4, <2>6, <4>1
      <4> QED BY <4>1, <4>2
    <3> QED BY <3>1, <3>2, <3>3
  <2>8. ASSUME NEW k \in 1..(m + 1), NEW i \in 1..Len(u[k])
        PROVE  /\ u[k][i] \in Ids
               /\ k = 1 => i \in 1..2 /\ u[k][i] = p[i]
               /\ k # 1 => i = 1 /\ u[k][i] = p[k + 1] /\ k + 1 \in 3..n
    <3>1. CASE k = 1
      <4>1. i \in 1..2
        BY <1>2, <2>7, <3>1
      <4>2. i = 1 \/ i = 2
        BY <4>1
      <4> QED BY <1>2, <2>7, <3>1, <4>1, <4>2
    <3>2. CASE k # 1
      <4>1. k \in 2..(m + 1)
        BY <2>7, <3>2
      <4>2. u[k] = << p[k + 1] >> /\ k + 1 \in 3..n
        BY <2>7, <4>1
      <4>3. Len(<< p[k + 1] >>) = 1 /\ << p[k + 1] >>[1] = p[k + 1]
        OBVIOUS
      <4>4. i = 1
        BY <4>2, <4>3
      <4>5. k + 1 \in 1..n
        BY <4>2
      <4> QED BY <3>2, <4>2, <4>3, <4>4, <4>5
    <3> QED BY <3>1, <3>2
  <2>9. ASSUME NEW k \in 1..(m + 1)
        PROVE  Len(u[k]) \in Nat \ {0} /\ DOMAIN u[k] = 1..Len(u[k])
    <3>1. CASE k = 1
      BY <1>2, <2>7, <3>1
    <3>2. CASE k # 1
      <4>1. k \in 2..(m + 1)
        BY <2>7, <3>2
      <4>2. u[k] = << p[k + 1] >>
        BY <2>7, <4>1
      <4> QED BY <4>2
    <3> QED BY <3>1, <3>2
  <2>10. ASSUME NEW k \in 1..(m + 1), NEW l \in 1..(m + 1),
                NEW i \in 1..Len(u[k]), NEW j \in 1..Len(u[l]), u[k][i] = u[l][j]
         PROVE  k = l /\ i = j
    <3>1. PICK a : a = IF k = 1 THEN i ELSE k + 1
      OBVIOUS
    <3>2. PICK b : b = IF l = 1 THEN j ELSE l + 1
      OBVIOUS
    <3>3. /\ a \in 1..n /\ u[k][i] = p[a] /\ (k = 1 <=> a < 3)
      BY <1>5, <2>8, <3>1
    <3>4. /\ b \in 1..n /\ u[l][j] = p[b] /\ (l = 1 <=> b < 3)
      BY <1>5, <2>8, <3>2
    <3>5. a = b
      BY <2>10, <3>3, <3>4
    <3>6. CASE k = 1
      BY <3>1, <3>2, <3>3, <3>4, <3>5, <3>6
    <3>7. CASE k # 1
      <4>1. l # 1
        BY <3>3, <3>4, <3>5, <3>7
      <4>2. i = 1 /\ j = 1
        BY <2>8, <3>7, <4>1
      <4> QED BY <3>1, <3>2, <3>5, <3>7, <4>1, <4>2
    <3> QED BY <3>6, <3>7
  <2>11. Len(u) = m + 1 /\ Len(u) \in Nat \ {0} /\ DOMAIN u = 1..Len(u)
    BY <2>6, <2>7, LenProperties
  <2>12. IsUbatch(u)
    BY <2>8, <2>9, <2>10, <2>11 DEF IsUbatch
  <2> QED BY <2>12 DEF Coupled, u, q, pair
<1> QED BY <1>4, <1>5

LEMMA UbatchesAre ==
  ASSUME use \in Uses, NEW u \in Ubatches
  PROVE  IsUbatch(u)
<1>1. \/ \E p \in Lists : u = Singly(p)
      \/ \E p \in Lists : Len(p) > 1 /\ u = Coupled(p)
  BY DEF Ubatches
<1>2. ASSUME NEW p \in Lists
      PROVE  \E n \in Nat \ {0} : /\ p \in [1..n -> Ids] /\ Len(p) = n
                                  /\ \A i, j \in 1..n : p[i] = p[j] => i = j
  <2>1. PICK n \in 1..Size : p \in [1..n -> Ids] /\ IsInjective(p)
    BY DEF Lists
  <2>2. n \in Nat \ {0}
    BY IdsFacts
  <2>3. Len(p) = n
    BY <2>1, <2>2, LenProperties
  <2>4. \A i, j \in 1..n : p[i] = p[j] => i = j
    BY <2>1 DEF IsInjective
  <2> QED BY <2>1, <2>2, <2>3, <2>4
<1>3. CASE \E p \in Lists : u = Singly(p)
  <2>1. PICK p \in Lists : u = Singly(p)
    BY <1>3
  <2>2. PICK n \in Nat \ {0} : /\ p \in [1..n -> Ids] /\ Len(p) = n
                               /\ \A i, j \in 1..n : p[i] = p[j] => i = j
    BY <1>2
  <2> QED BY <2>1, <2>2, SinglyUbatch
<1>4. CASE \E p \in Lists : Len(p) > 1 /\ u = Coupled(p)
  <2>1. PICK p \in Lists : Len(p) > 1 /\ u = Coupled(p)
    BY <1>4
  <2>2. PICK n \in Nat \ {0} : /\ p \in [1..n -> Ids] /\ Len(p) = n
                               /\ \A i, j \in 1..n : p[i] = p[j] => i = j
    BY <1>2
  <2> QED BY <2>1, <2>2, CoupledUbatch
<1> QED BY <1>1, <1>3, <1>4

-----------------------------------------------------------------------------
(***************************************************************************)
(* The followers of the lists are taken out of their cells.                *)
(***************************************************************************)
Stripped(t, d, S, r) ==
  /\ Good(r, d) /\ r.head = t.head
  /\ \A x \in Ids : r.tail[x] = IF x \in S THEN None ELSE t.tail[x]
  /\ \A x \in Ids : r.tail[x] # None => r.cells[r.tail[x]].pos = t.cells[t.tail[x]].pos

Followers(u) == {x \in Ids : \E k \in 1..Len(u) : \E j \in 2..Len(u[k]) : x = u[k][j]}

LEMMA StripOne ==
  ASSUME use \in Uses, NEW t, NEW d, NEW S, NEW b, Stripped(t, d, S, b), NEW s \in Ids,
         NEW r, r = Detach(b, s)
  PROVE  Stripped(t, d, S \cup {s}, r)
<1>1. Good(b, d)
  BY DEF Stripped
<1>2. Good(r, d) /\ r.head = b.head
  BY <1>1, DetachFacts
<1>3. \A x \in Ids : r.tail[x] = IF x = s THEN None ELSE b.tail[x]
  BY <1>1, DetachFacts
<1>4. \A x \in Ids : r.tail[x] # None => r.cells[r.tail[x]].pos = b.cells[b.tail[x]].pos
  BY <1>1, DetachFacts
<1>5. \A x \in Ids : r.tail[x] = IF x \in S \cup {s} THEN None ELSE t.tail[x]
  BY <1>3 DEF Stripped
<1>6. ASSUME NEW x \in Ids, r.tail[x] # None
      PROVE  r.cells[r.tail[x]].pos = t.cells[t.tail[x]].pos
  <2>1. b.tail[x] # None
    BY <1>3, <1>6
  <2>2. b.cells[b.tail[x]].pos = t.cells[t.tail[x]].pos
    BY <2>1 DEF Stripped
  <2> QED BY <1>4, <1>6, <2>2
<1> QED BY <1>2, <1>5, <1>6 DEF Stripped

LEMMA StripList ==
  ASSUME use \in Uses, NEW t, NEW d, NEW S, NEW b, Stripped(t, d, S, b),
         NEW list, NEW n \in Nat, n = Len(list), \A j \in 1..n : list[j] \in Ids
  PROVE  Stripped(t, d, S \cup {list[j] : j \in 2..n}, FollowersDetached(b, list))
<1>1. PICK f : /\ f[0] = b /\ FollowersDetached(b, list) = f[n]
               /\ \A k \in 1..n : f[k] = IF k = 1 THEN f[k - 1] ELSE Detach(f[k - 1], list[k])
  BY FollowersLoop
<1> DEFINE Out(k) == S \cup {list[j] : j \in 2..k}
           T == {k \in Nat : Stripped(t, d, Out(k), f[k])}
<1>2. 0 \in T
  <2>1. Out(0) = S
    OBVIOUS
  <2> HIDE DEF Out
  <2> QED BY <1>1, <2>1
<1>3. ASSUME NEW k \in T, k < n PROVE k + 1 \in T
  <2>1. k \in Nat /\ k + 1 \in 1..n /\ (k + 1) - 1 = k /\ Stripped(t, d, Out(k), f[k])
    BY <1>3
  <2>2. CASE k = 0
    <3>1. f[k + 1] = f[k]
      BY <1>1, <2>1, <2>2
    <3>2. Out(k + 1) = Out(k)
      BY <2>2
    <3> HIDE DEF Out
    <3> QED BY <2>1, <3>1, <3>2
  <2>3. CASE k # 0
    <3>1. f[k + 1] = Detach(f[k], list[k + 1]) /\ list[k + 1] \in Ids
      BY <1>1, <2>1, <2>3
    <3>2. PICK out : out = Out(k) \cup {list[k + 1]}
      OBVIOUS
    <3>3. Out(k + 1) = out
      <4>1. \A j : j \in 2..(k + 1) <=> j \in 2..k \/ j = k + 1
        BY <2>1, <2>3
      <4> QED BY <3>2, <4>1
    <3> HIDE DEF Out
    <3>4. Stripped(t, d, out, f[k + 1])
      BY <2>1, <3>1, <3>2, StripOne
    <3>5. k + 1 \in Nat
      BY <2>1
    <3> QED BY <3>3, <3>4, <3>5
  <2> QED BY <2>2, <2>3
<1>4. n \in T
  <2>1. T \in SUBSET Nat
    OBVIOUS
  <2> HIDE DEF T
  <2> QED BY <1>2, <1>3, <2>1, CountingTo
<1> QED BY <1>1, <1>4

LEMMA StripAll ==
  ASSUME use \in Uses, NEW t, NEW d, Good(t, d), NEW u, IsUbatch(u)
  PROVE  Stripped(t, d, Followers(u), Uncoupled(t, u))
<1>1. PICK n : n = Len(u)
  OBVIOUS
<1>2. n \in Nat \ {0}
  BY <1>1 DEF IsUbatch
<1>3. PICK f : /\ f[0] = t /\ Uncoupled(t, u) = f[n]
               /\ \A k \in 1..n : f[k] = FollowersDetached(f[k - 1], u[k])
  BY <1>1, <1>2, UncoupledLoop
<1> DEFINE Out(k) == {x \in Ids : \E i \in 1..k : \E j \in 2..Len(u[i]) : x = u[i][j]}
           T == {k \in Nat : Stripped(t, d, Out(k), f[k])}
<1>4. 0 \in T
  <2>1. Out(0) = {}
    OBVIOUS
  <2>2. Stripped(t, d, {}, t)
    BY DEF Stripped
  <2> HIDE DEF Out
  <2> QED BY <1>3, <2>1, <2>2
<1>5. ASSUME NEW k \in T, k < n PROVE k + 1 \in T
  <2>1. k \in Nat /\ k + 1 \in 1..n /\ (k + 1) - 1 = k /\ Stripped(t, d, Out(k), f[k])
    BY <1>2, <1>5
  <2>2. f[k + 1] = FollowersDetached(f[k], u[k + 1])
    BY <1>3, <2>1
  <2>3. PICK m : m = Len(u[k + 1])
    OBVIOUS
  <2>4. m \in Nat /\ \A j \in 1..m : u[k + 1][j] \in Ids
    BY <1>1, <2>1, <2>3 DEF IsUbatch
  <2>5. Out(k + 1) = Out(k) \cup {u[k + 1][j] : j \in 2..m}
    <3>1. \A i : i \in 1..(k + 1) <=> i \in 1..k \/ i = k + 1
      BY <2>1
    <3>2. \A j \in 2..m : u[k + 1][j] \in Ids
      BY <2>4
    <3>3. Out(k + 1) \subseteq Out(k) \cup {u[k + 1][j] : j \in 2..m}
      BY <2>3, <3>1
    <3>4. Out(k) \cup {u[k + 1][j] : j \in 2..m} \subseteq Out(k + 1)
      BY <2>3, <3>1, <3>2
    <3> HIDE DEF Out
    <3> QED BY <3>3, <3>4
  <2> HIDE DEF Out
  <2>6. Stripped(t, d, Out(k) \cup {u[k + 1][j] : j \in 2..m}, f[k + 1])
    <3>1. PICK list : list = u[k + 1]
      OBVIOUS
    <3>2. Stripped(t, d, Out(k) \cup {list[j] : j \in 2..m}, FollowersDetached(f[k], list))
      BY <2>1, <2>3, <2>4, <3>1, StripList
    <3> QED BY <2>2, <3>1, <3>2
  <2> QED BY <2>1, <2>5, <2>6
<1>6. n \in T
  <2>1. T \in SUBSET Nat
    OBVIOUS
  <2> HIDE DEF T
  <2> QED BY <1>2, <1>4, <1>5, <2>1, CountingTo
<1>7. Out(n) = Followers(u)
  BY <1>1 DEF Followers
<1> HIDE DEF Out
<1> QED BY <1>3, <1>6, <1>7

-----------------------------------------------------------------------------
(***************************************************************************)
(* The search for empty cells goes once around the table.                  *)
(***************************************************************************)
(* Steps from one cell to another, the first one may be behind the last.      *)
Dist(from, c) == IF c >= from THEN c - from ELSE c + Size - from

LEMMA DistFacts ==
  ASSUME use \in Uses, NEW from \in 0..Size, NEW c \in Ids
  PROVE  /\ Dist(from, c) \in 0..(Size - 1) /\ (from + Dist(from, c)) % Size = c
         /\ \A x \in Ids : Dist(from, x) = Dist(from, c) => x = c
<1>1. Size \in Nat \ {0} /\ c \in 0..(Size - 1)
  BY IdsFacts DEF Ids
<1>2. Dist(from, c) \in 0..(Size - 1)
  BY <1>1 DEF Dist
<1>3. from + Dist(from, c) \in 0..(2 * Size - 1)
  BY <1>1, <1>2
<1>4. (from + Dist(from, c)) % Size =
        IF from + Dist(from, c) < Size THEN from + Dist(from, c)
        ELSE (from + Dist(from, c)) - Size
  BY <1>1, <1>3, Around
<1>5. (IF from + Dist(from, c) < Size THEN from + Dist(from, c)
       ELSE (from + Dist(from, c)) - Size) = c
  BY <1>1 DEF Dist
<1>6. ASSUME NEW x \in Ids, Dist(from, x) = Dist(from, c) PROVE x = c
  <2>1. x \in 0..(Size - 1)
    BY DEF Ids
  <2> QED BY <1>1, <1>6, <2>1 DEF Dist
<1> QED BY <1>2, <1>4, <1>5, <1>6

LEMMA NextEmptyFacts ==
  ASSUME use \in Uses, NEW cells, NEW from \in 0..Size, NEW r, r = NextEmpty(cells, from)
  PROVE  /\ r \in Ids
         /\ \A c \in Ids : cells[c].seqs = {} =>
                             cells[r].seqs = {} /\ Dist(from, r) <= Dist(from, c)
<1> DEFINE steps == {i \in 0..(Size - 1) : cells[(from + i) % Size].seqs = {}}
<1>1. Size \in Nat \ {0} /\ from \in Nat
  BY IdsFacts
<1>2. steps \in SUBSET Nat
  BY <1>1
<1>3. r = (from + (IF steps = {} THEN 0 ELSE Min(steps))) % Size
  BY DEF NextEmpty
<1>4. \A i \in steps : i \in 0..(Size - 1) /\ cells[(from + i) % Size].seqs = {}
  OBVIOUS
<1>5. ASSUME NEW i \in 0..(Size - 1)
      PROVE  (from + i) % Size \in Ids /\ Dist(from, (from + i) % Size) = i
  <2>1. from + i \in 0..(2 * Size - 1)
    BY <1>1
  <2>2. (from + i) % Size = IF from + i < Size THEN from + i ELSE (from + i) - Size
    BY <1>1, <2>1, Around
  <2>3. PICK x : x = (from + i) % Size
    OBVIOUS
  <2>4. x \in 0..(Size - 1)
    BY <1>1, <2>1, <2>2, <2>3
  <2>5. Dist(from, x) = i
    BY <1>1, <2>2, <2>3, <2>4 DEF Dist
  <2> QED BY <2>3, <2>4, <2>5 DEF Ids
<1>6. ASSUME NEW c \in Ids, cells[c].seqs = {} PROVE Dist(from, c) \in steps
  BY <1>6, DistFacts
<1> HIDE DEF steps
<1>7. CASE steps = {}
  <2>1. r = (from + 0) % Size /\ 0 \in 0..(Size - 1)
    BY <1>1, <1>3, <1>7
  <2> QED BY <1>5, <1>6, <1>7, <2>1
<1>8. CASE steps # {}
  <2>1. PICK m : m = Min(steps)
    OBVIOUS
  <2>2. m \in steps /\ \A i \in steps : m <= i
    BY <1>2, <1>8, <2>1, MinFacts
  <2>3. r = (from + m) % Size
    BY <1>3, <1>8, <2>1
  <2>4. r \in Ids /\ Dist(from, r) = m /\ cells[r].seqs = {}
    BY <1>4, <1>5, <2>2, <2>3
  <2> QED BY <1>6, <2>2, <2>4
<1> QED BY <1>7, <1>8

(* Behind a cell, the cells farther from the start come before the others.    *)
LEMMA DistBehind ==
  ASSUME use \in Uses, NEW h \in Ids, NEW e \in Ids, NEW c \in Ids
  PROVE  /\ e + 1 \in 0..Size
         /\ Dist(h, c) \in Nat /\ Dist(h, c) < Size /\ Dist(h, e) \in Nat
         /\ Dist(h, c) > Dist(h, e) => Dist(e + 1, c) = Dist(h, c) - Dist(h, e) - 1
         /\ Dist(h, c) <= Dist(h, e) => Dist(e + 1, c) = Dist(h, c) - Dist(h, e) - 1 + Size
<1>1. Size \in Nat \ {0} /\ c \in 0..(Size - 1) /\ h \in 0..(Size - 1) /\ e \in 0..(Size - 1)
  BY IdsFacts DEF Ids
<1>2. e + 1 \in 0..Size
  BY <1>1
<1>3. Dist(h, c) \in 0..(Size - 1) /\ Dist(h, e) \in 0..(Size - 1)
  BY <1>1 DEF Dist
<1>4. Dist(h, c) > Dist(h, e) => Dist(e + 1, c) = Dist(h, c) - Dist(h, e) - 1
  BY <1>1 DEF Dist
<1>5. Dist(h, c) <= Dist(h, e) => Dist(e + 1, c) = Dist(h, c) - Dist(h, e) - 1 + Size
  BY <1>1 DEF Dist
<1> QED BY <1>1, <1>2, <1>3, <1>4, <1>5

-----------------------------------------------------------------------------
(***************************************************************************)
(* Each owner gets a cell of its own.  A sequence that had none has its    *)
(* tail set, but enters the cell only at the end: it is promised the cell. *)
(***************************************************************************)
Promised(b, u, k) == {s \in Ids : b.tail[s] = None /\ \E j \in 1..k : s = Owner(u, j)}

Open(t) == {c \in Ids : \A s \in Ids : t.tail[s] # c}

Reads(cell, d) == IF cell.src = None THEN << >> ELSE d[cell.src]

Seated(b, u, k, t) ==
  /\ \A s, c \in Ids : (s \in t.cells[c].seqs) <=> (t.tail[s] = c /\ s \notin Promised(b, u, k))
  /\ \A j \in 1..k : /\ t.tail[Owner(u, j)] \in Ids
                     /\ \A s \in Ids : t.tail[s] = t.tail[Owner(u, j)] => s = Owner(u, j)
  /\ \A s \in Ids : (\A j \in 1..k : s # Owner(u, j)) => t.tail[s] = b.tail[s]

(* Entries carry what their sequences were promised; only the cells of owners *)
(* read another row than their own.                                           *)
Carried(P, d, w, p, t) ==
  /\ \A s \in Ids : t.tail[s] # None => Reads(t.cells[t.tail[s]], d) = w[s]
  /\ \A s \in Ids : t.tail[s] # None /\ s \notin P =>
                      t.cells[t.tail[s]].pos = p[s] /\ p[s] \in 0..(Forever - 1)
  /\ \A c \in Open(t) : t.cells[c].pos = -1 /\ Reads(t.cells[c], d) = << >>

OwnRows(u, k, t) ==
  \A c \in Ids : \/ \E j \in 1..k : t.tail[Owner(u, j)] = c
                 \/ t.cells[c].src = c
                 \/ t.cells[c].src = None /\ c \in Open(t)

(* The next empty cell is free, and the first one around the table from h.    *)
Search(b, u, k, a, h) ==
  Open(a.t) # {} =>
    /\ a.next \in Open(a.t)
    /\ \A c \in Open(a.t) : Dist(h, a.next) <= Dist(h, c)
    /\ \A s \in Promised(b, u, k) : Dist(h, a.t.tail[s]) < Dist(h, a.next)

LEMMA OwnersApart ==
  ASSUME NEW u, IsUbatch(u)
  PROVE  /\ Len(u) \in Nat \ {0}
         /\ \A k \in 1..Len(u) : Owner(u, k) \in Ids /\ Owner(u, k) \notin Followers(u)
         /\ \A j, k \in 1..Len(u) : Owner(u, j) = Owner(u, k) => j = k
<1>1. \A k \in 1..Len(u) : 1 \in 1..Len(u[k])
  BY DEF IsUbatch
<1>2. ASSUME NEW k \in 1..Len(u) PROVE Owner(u, k) \in Ids /\ Owner(u, k) \notin Followers(u)
  <2>1. Owner(u, k) \in Ids
    BY <1>1 DEF Owner, IsUbatch
  <2>2. ASSUME NEW i \in 1..Len(u), NEW j \in 2..Len(u[i]) PROVE u[k][1] # u[i][j]
    <3>1. j \in 1..Len(u[i]) /\ j # 1
      BY DEF IsUbatch
    <3> QED BY <1>1, <3>1 DEF IsUbatch
  <2> QED BY <2>1, <2>2 DEF Owner, Followers
<1>3. \A j, k \in 1..Len(u) : Owner(u, j) = Owner(u, k) => j = k
  BY <1>1 DEF Owner, IsUbatch
<1> QED BY <1>2, <1>3 DEF IsUbatch

(* The next owner has its tail from before.                                   *)
ComesNext(b, u, k, t, s) ==
  /\ s \in Ids /\ k + 1 \in 1..Len(u)
  /\ \A j \in 1..k : s # Owner(u, j) /\ Owner(u, j) \in Ids /\ j \in 1..Len(u)
  /\ s \notin Promised(b, u, k) /\ t.tail[s] = b.tail[s]
  /\ \A j : j \in 1..(k + 1) <=> j \in 1..k \/ j = k + 1
  /\ Promised(b, u, k + 1) = Promised(b, u, k) \cup (IF t.tail[s] = None THEN {s} ELSE {})

LEMMA NextOwner ==
  ASSUME use \in Uses, NEW b, NEW u, IsUbatch(u), NEW k \in Nat, k < Len(u), NEW t \in Table,
         Seated(b, u, k, t), NEW s, s = Owner(u, k + 1)
  PROVE  ComesNext(b, u, k, t, s)
<1>1. k + 1 \in 1..Len(u) /\ Len(u) \in Nat
  BY OwnersApart
<1>2. s \in Ids
  BY <1>1, OwnersApart
<1>3. ASSUME NEW j \in 1..k PROVE s # Owner(u, j) /\ Owner(u, j) \in Ids /\ j \in 1..Len(u)
  <2>1. j \in 1..Len(u) /\ j # k + 1
    BY <1>1
  <2> QED BY <1>1, <2>1, OwnersApart
<1>4. s \notin Promised(b, u, k)
  BY <1>3 DEF Promised
<1>5. t.tail[s] = b.tail[s]
  BY <1>2, <1>3 DEF Seated
<1>6. \A j : j \in 1..(k + 1) <=> j \in 1..k \/ j = k + 1
  OBVIOUS
<1>7. Promised(b, u, k + 1) = Promised(b, u, k) \cup (IF t.tail[s] = None THEN {s} ELSE {})
  <2>1. CASE t.tail[s] = None
    BY <1>2, <1>5, <1>6, <2>1 DEF Promised
  <2>2. CASE t.tail[s] # None
    BY <1>2, <1>5, <1>6, <2>2 DEF Promised
  <2> QED BY <2>1, <2>2
<1> QED BY <1>1, <1>2, <1>3, <1>4, <1>5, <1>6, <1>7 DEF ComesNext

(* An owner that has its cell alone keeps it.                                 *)
LEMMA OwnerStays ==
  ASSUME use \in Uses, NEW b, NEW d, NEW w, NEW p, NEW u, IsUbatch(u), NEW k \in Nat, k < Len(u),
         NEW t \in Table, Seated(b, u, k, t), Carried(Promised(b, u, k), d, w, p, t),
         OwnRows(u, k, t), NEW s, s = Owner(u, k + 1), Owns(t, s)
  PROVE  /\ Seated(b, u, k + 1, t) /\ Carried(Promised(b, u, k + 1), d, w, p, t)
         /\ OwnRows(u, k + 1, t)
         /\ Promised(b, u, k + 1) = Promised(b, u, k)
<1>1. t.tail[s] # None /\ t.cells[t.tail[s]].seqs = {s}
  BY DEF Owns
<1>0. ComesNext(b, u, k, t, s)
  BY NextOwner
<1>2. /\ s \in Ids /\ s \notin Promised(b, u, k) /\ t.tail[s] = b.tail[s]
      /\ \A j : j \in 1..(k + 1) <=> j \in 1..k \/ j = k + 1
      /\ \A j \in 1..k : s # Owner(u, j) /\ Owner(u, j) \in Ids
  BY <1>0 DEF ComesNext
<1>3. Promised(b, u, k + 1) = Promised(b, u, k)
  BY <1>0, <1>1 DEF ComesNext
<1>4. t.tail[s] \in Ids
  BY <1>1, <1>2, TableTypes
<1>5. ASSUME NEW x \in Ids, t.tail[x] = t.tail[s] PROVE x = s
  <2>1. CASE x \notin Promised(b, u, k)
    <3>1. x \in t.cells[t.tail[s]].seqs
      BY <1>4, <1>5, <2>1 DEF Seated
    <3> QED BY <1>1, <3>1
  <2>2. CASE x \in Promised(b, u, k)
    <3>1. PICK j \in 1..k : x = Owner(u, j)
      BY <2>2 DEF Promised
    <3>2. s = Owner(u, j)
      BY <1>2, <1>5, <3>1 DEF Seated
    <3> QED BY <1>2, <3>2
  <2> QED BY <2>1, <2>2
<1>6. Seated(b, u, k + 1, t)
  <2>1. ASSUME NEW x \in Ids, NEW c \in Ids
        PROVE  (x \in t.cells[c].seqs) <=> (t.tail[x] = c /\ x \notin Promised(b, u, k + 1))
    BY <1>3 DEF Seated
  <2>2. ASSUME NEW j \in 1..(k + 1)
        PROVE  /\ t.tail[Owner(u, j)] \in Ids
               /\ \A x \in Ids : t.tail[x] = t.tail[Owner(u, j)] => x = Owner(u, j)
    <3>1. CASE j \in 1..k
      BY <3>1 DEF Seated
    <3>2. CASE j = k + 1
      BY <1>4, <1>5, <3>2
    <3> QED BY <1>2, <3>1, <3>2
  <2>3. ASSUME NEW x \in Ids, \A j \in 1..(k + 1) : x # Owner(u, j)
        PROVE  t.tail[x] = b.tail[x]
    BY <1>2, <2>3 DEF Seated
  <2> QED BY <2>1, <2>2, <2>3 DEF Seated
<1>7. Carried(Promised(b, u, k + 1), d, w, p, t)
  BY <1>3
<1>8. OwnRows(u, k + 1, t)
  BY <1>2 DEF OwnRows
<1> QED BY <1>3, <1>6, <1>7, <1>8

(* Otherwise it moves to a free cell.                                         *)
Moved(t, s, e, r) ==
  /\ r \in Table /\ e \in Ids /\ e # t.tail[s]
  /\ \A x \in Ids : r.tail[x] = IF x = s THEN e ELSE t.tail[x]
  /\ t.tail[s] = None => r.cells = t.cells
  /\ t.tail[s] # None =>
       /\ t.tail[s] \in Ids
       /\ r.cells[e].pos = t.cells[t.tail[s]].pos
       /\ r.cells[e].src = t.cells[t.tail[s]].src /\ r.cells[e].seqs = {s}
       /\ r.cells[t.tail[s]].seqs = t.cells[t.tail[s]].seqs \ {s}
       /\ \A x \in Ids : x # e /\ x # t.tail[s] => r.cells[x] = t.cells[x]
  /\ \A x \in Ids : x # e => r.cells[x].pos = t.cells[x].pos /\ r.cells[x].src = t.cells[x].src

LEMMA MovedFacts ==
  ASSUME use \in Uses, NEW t \in Table, NEW s \in Ids, NEW e \in Open(t), NEW r,
         r = MovedTo(t, s, e)
  PROVE  Moved(t, s, e, r)
<1>1. e \in Ids /\ e # t.tail[s]
  BY DEF Open
<1>2. /\ t.cells \in [Ids -> Cell] /\ t.tail \in [Ids -> Ids \cup {None}] /\ t.head \in Ids
      /\ t.used \in Int
  BY TableTypes
<1>3. PICK cells : cells = CellsMoved(t, s, e)
  OBVIOUS
<1>4. r = [cells |-> cells, tail |-> [t.tail EXCEPT ![s] = e], head |-> t.head, used |-> t.used]
  BY <1>3 DEF MovedTo
<1>5. r.cells = cells /\ \A x \in Ids : r.tail[x] = IF x = s THEN e ELSE t.tail[x]
  <2>1. r.cells = cells /\ r.tail = [t.tail EXCEPT ![s] = e]
    BY <1>4
  <2> QED BY <1>2, <2>1
<1>6. ASSUME cells \in [Ids -> Cell] PROVE r \in Table
  <2>1. [t.tail EXCEPT ![s] = e] \in [Ids -> Ids \cup {None}]
    BY <1>1, <1>2
  <2> QED BY <1>2, <1>4, <1>6, <2>1 DEF Table
<1>7. CASE t.tail[s] = None
  <2>1. cells = t.cells
    BY <1>3, <1>7 DEF CellsMoved
  <2> QED BY <1>1, <1>2, <1>5, <1>6, <1>7, <2>1 DEF Moved
<1>8. CASE t.tail[s] # None
  <2>1. PICK c : c = t.tail[s]
    OBVIOUS
  <2>2. c \in Ids /\ t.cells[c] \in Cell
    BY <1>8, <2>1, TableTypes
  <2>3. PICK new : new = [t.cells[c] EXCEPT !.seqs = {s}]
    OBVIOUS
  <2>4. PICK old : old = [t.cells[c] EXCEPT !.seqs = @ \ {s}]
    OBVIOUS
  <2>5. /\ new \in Cell /\ new.pos = t.cells[c].pos /\ new.src = t.cells[c].src
        /\ new.seqs = {s}
    BY <2>2, <2>3 DEF Cell
  <2>6. /\ old \in Cell /\ old.pos = t.cells[c].pos /\ old.src = t.cells[c].src
        /\ old.seqs = t.cells[c].seqs \ {s}
    BY <2>2, <2>4 DEF Cell
  <2>7. cells = [x \in Ids |-> IF x = e THEN new ELSE IF x = c THEN old ELSE t.cells[x]]
    BY <1>3, <1>8, <2>1, <2>3, <2>4 DEF CellsMoved
  <2>8. cells \in [Ids -> Cell]
    BY <1>2, <2>5, <2>6, <2>7
  <2>9. cells[e] = new /\ cells[c] = old /\ \A x \in Ids : x # e /\ x # c => cells[x] = t.cells[x]
    BY <1>1, <2>1, <2>2, <2>7
  <2> QED BY <1>1, <1>5, <1>6, <1>8, <2>1, <2>2, <2>5, <2>6, <2>8, <2>9 DEF Moved
<1> QED BY <1>7, <1>8

Claiming(b, d, w, p, u, k, t) ==
  t \in Table /\ Seated(b, u, k, t) /\ Carried(Promised(b, u, k), d, w, p, t) /\ OwnRows(u, k, t)

Leaves(t, s, e, r) ==
  /\ \A y \in Ids : y \in Open(r) <=> y \in Open(t) /\ y # e
  /\ t.tail[s] # None => s \in t.cells[t.tail[s]].seqs

LEMMA OwnerMoves ==
  ASSUME use \in Uses, NEW b, NEW d, NEW w, NEW p, NEW u, IsUbatch(u), NEW k \in Nat, k < Len(u),
         NEW t, Claiming(b, d, w, p, u, k, t), NEW s, s = Owner(u, k + 1), ~Owns(t, s),
         NEW e \in Open(t), NEW r, r = MovedTo(t, s, e), t.tail[s] = None => w[s] = << >>
  PROVE  Claiming(b, d, w, p, u, k + 1, r) /\ Leaves(t, s, e, r)
<1>1. /\ t \in Table /\ Seated(b, u, k, t) /\ Carried(Promised(b, u, k), d, w, p, t)
      /\ OwnRows(u, k, t)
  BY DEF Claiming
<1>2. ComesNext(b, u, k, t, s)
  BY <1>1, NextOwner
<1>3. /\ s \in Ids /\ s \notin Promised(b, u, k) /\ t.tail[s] = b.tail[s]
      /\ \A j : j \in 1..(k + 1) <=> j \in 1..k \/ j = k + 1
      /\ \A j \in 1..k : s # Owner(u, j) /\ Owner(u, j) \in Ids
  BY <1>2 DEF ComesNext
<1>4. Moved(t, s, e, r)
  BY <1>1, <1>3, MovedFacts
<1>5. /\ r \in Table /\ e \in Ids /\ e # t.tail[s]
      /\ \A x \in Ids : r.tail[x] = IF x = s THEN e ELSE t.tail[x]
      /\ \A x \in Ids : x # e => r.cells[x].pos = t.cells[x].pos /\ r.cells[x].src = t.cells[x].src
  BY <1>4 DEF Moved
<1>6. None \notin Ids
  BY IdsFacts
<1>7. \A x \in Ids : t.tail[x] # e
  BY DEF Open
<1>8. ASSUME t.tail[s] # None
      PROVE  /\ t.tail[s] \in Ids /\ s \in t.cells[t.tail[s]].seqs
             /\ \E x \in Ids : x # s /\ t.tail[x] = t.tail[s]
  <2>1. t.tail[s] \in Ids
    BY <1>4, <1>8 DEF Moved
  <2>2. s \in t.cells[t.tail[s]].seqs
    BY <1>1, <1>3, <2>1 DEF Seated
  <2>3. t.cells[t.tail[s]].seqs # {s}
    BY <1>8 DEF Owns
  <2>4. t.cells[t.tail[s]].seqs \subseteq Ids
    BY <1>1, <2>1, TableTypes
  <2>5. PICK x \in Ids : x # s /\ x \in t.cells[t.tail[s]].seqs
    BY <2>2, <2>3, <2>4
  <2>6. t.tail[x] = t.tail[s]
    BY <1>1, <2>1, <2>5 DEF Seated
  <2> QED BY <2>1, <2>2, <2>5, <2>6
<1>9. ASSUME NEW y \in Ids PROVE y \in Open(r) <=> y \in Open(t) /\ y # e
  <2>1. ASSUME y \in Open(t), y # e PROVE y \in Open(r)
    BY <1>5, <2>1 DEF Open
  <2>2. ASSUME y \in Open(r) PROVE y \in Open(t) /\ y # e
    <3>1. y # e
      BY <1>3, <1>5, <2>2 DEF Open
    <3>2. ASSUME NEW x \in Ids, t.tail[x] = y PROVE FALSE
      <4>1. CASE x # s
        BY <1>5, <2>2, <3>2, <4>1 DEF Open
      <4>2. CASE x = s
        <5>1. t.tail[s] # None
          BY <1>6, <3>2, <4>2
        <5>2. PICK z \in Ids : z # s /\ t.tail[z] = t.tail[s]
          BY <1>8, <5>1
        <5> QED BY <1>5, <2>2, <3>2, <4>2, <5>2 DEF Open
      <4> QED BY <4>1, <4>2
    <3> QED BY <3>1, <3>2 DEF Open
  <2> QED BY <2>1, <2>2
<1>11. \A x \in Ids : x # s => (x \in Promised(b, u, k + 1) <=> x \in Promised(b, u, k))
  BY <1>2 DEF ComesNext
<1>12. s \in Promised(b, u, k + 1) <=> t.tail[s] = None
  BY <1>2, <1>3 DEF ComesNext
<1>13. Seated(b, u, k + 1, r)
  <2>1. ASSUME NEW x \in Ids, NEW y \in Ids
        PROVE  (x \in r.cells[y].seqs) <=> (r.tail[x] = y /\ x \notin Promised(b, u, k + 1))
    <3>1. (x \in t.cells[y].seqs) <=> (t.tail[x] = y /\ x \notin Promised(b, u, k))
      BY <1>1 DEF Seated
    <3>2. CASE t.tail[s] = None
      <4>1. r.cells = t.cells
        BY <1>4, <3>2 DEF Moved
      <4> QED BY <1>3, <1>5, <1>6, <1>11, <1>12, <3>1, <3>2, <4>1
    <3>3. CASE t.tail[s] # None
      <4>1. /\ r.cells[e].seqs = {s}
            /\ r.cells[t.tail[s]].seqs = t.cells[t.tail[s]].seqs \ {s}
            /\ y # e /\ y # t.tail[s] => r.cells[y] = t.cells[y]
        BY <1>4, <3>3 DEF Moved
      <4>2. CASE y = e
        BY <1>5, <1>7, <1>12, <3>3, <4>1, <4>2
      <4>3. CASE y = t.tail[s]
        BY <1>5, <1>7, <1>11, <1>12, <3>1, <3>3, <4>1, <4>3
      <4>4. CASE y # e /\ y # t.tail[s]
        BY <1>5, <1>7, <1>11, <1>12, <3>1, <3>3, <4>1, <4>4
      <4> QED BY <4>2, <4>3, <4>4
    <3> QED BY <3>2, <3>3
  <2>2. ASSUME NEW j \in 1..(k + 1)
        PROVE  /\ r.tail[Owner(u, j)] \in Ids
               /\ \A x \in Ids : r.tail[x] = r.tail[Owner(u, j)] => x = Owner(u, j)
    <3>1. CASE j \in 1..k
      <4>1. /\ t.tail[Owner(u, j)] \in Ids
            /\ \A x \in Ids : t.tail[x] = t.tail[Owner(u, j)] => x = Owner(u, j)
        BY <1>1, <3>1 DEF Seated
      <4>2. r.tail[Owner(u, j)] = t.tail[Owner(u, j)] /\ Owner(u, j) \in Ids
        BY <1>3, <1>5, <3>1
      <4> QED BY <1>5, <1>7, <4>1, <4>2
    <3>2. CASE j = k + 1
      <4>1. Owner(u, j) = s /\ r.tail[s] = e
        BY <1>3, <1>5, <3>2
      <4> QED BY <1>5, <1>7, <4>1
    <3> QED BY <1>3, <3>1, <3>2
  <2>3. ASSUME NEW x \in Ids, \A j \in 1..(k + 1) : x # Owner(u, j)
        PROVE  r.tail[x] = b.tail[x]
    <3>1. x # s /\ \A j \in 1..k : x # Owner(u, j)
      BY <1>3, <2>3
    <3>2. t.tail[x] = b.tail[x]
      BY <1>1, <3>1 DEF Seated
    <3> QED BY <1>5, <3>1, <3>2
  <2> QED BY <2>1, <2>2, <2>3 DEF Seated
<1>14. Carried(Promised(b, u, k + 1), d, w, p, r)
  <2>1. ASSUME NEW x \in Ids, r.tail[x] # None PROVE Reads(r.cells[r.tail[x]], d) = w[x]
    <3>1. CASE x = s
      <4>1. CASE t.tail[s] = None
        <5>1. r.cells = t.cells /\ Reads(t.cells[e], d) = << >>
          BY <1>1, <1>4, <4>1 DEF Moved, Carried
        <5> QED BY <1>5, <3>1, <4>1, <5>1
      <4>2. CASE t.tail[s] # None
        <5>1. r.cells[e].src = t.cells[t.tail[s]].src
          BY <1>4, <4>2 DEF Moved
        <5>2. Reads(t.cells[t.tail[s]], d) = w[s]
          BY <1>1, <1>3, <4>2 DEF Carried
        <5> QED BY <1>5, <3>1, <5>1, <5>2 DEF Reads
      <4> QED BY <4>1, <4>2
    <3>2. CASE x # s
      <4>1. r.tail[x] = t.tail[x] /\ t.tail[x] # e /\ t.tail[x] # None
        BY <1>5, <1>7, <2>1, <3>2
      <4>2. t.tail[x] \in Ids
        BY <1>1, <4>1, TableTypes
      <4>3. Reads(t.cells[t.tail[x]], d) = w[x]
        BY <1>1, <4>1 DEF Carried
      <4> QED BY <1>5, <4>1, <4>2, <4>3 DEF Reads
    <3> QED BY <3>1, <3>2
  <2>2. ASSUME NEW x \in Ids, r.tail[x] # None, x \notin Promised(b, u, k + 1)
        PROVE  r.cells[r.tail[x]].pos = p[x] /\ p[x] \in 0..(Forever - 1)
    <3>1. CASE x = s
      <4>1. t.tail[s] # None
        BY <1>12, <2>2, <3>1
      <4>2. r.cells[e].pos = t.cells[t.tail[s]].pos
        BY <1>4, <4>1 DEF Moved
      <4>3. t.cells[t.tail[s]].pos = p[s] /\ p[s] \in 0..(Forever - 1)
        BY <1>1, <1>3, <4>1 DEF Carried
      <4> QED BY <1>5, <3>1, <4>2, <4>3
    <3>2. CASE x # s
      <4>1. r.tail[x] = t.tail[x] /\ t.tail[x] # e /\ t.tail[x] # None
        BY <1>5, <1>7, <2>2, <3>2
      <4>2. t.tail[x] \in Ids
        BY <1>1, <4>1, TableTypes
      <4>3. t.cells[t.tail[x]].pos = p[x] /\ p[x] \in 0..(Forever - 1)
        BY <1>1, <1>11, <2>2, <3>2, <4>1 DEF Carried
      <4> QED BY <1>5, <4>1, <4>2, <4>3
    <3> QED BY <3>1, <3>2
  <2>3. ASSUME NEW y \in Open(r) PROVE r.cells[y].pos = -1 /\ Reads(r.cells[y], d) = << >>
    <3>1. y \in Ids /\ y \in Open(t) /\ y # e
      BY <1>9 DEF Open
    <3>2. t.cells[y].pos = -1 /\ Reads(t.cells[y], d) = << >>
      BY <1>1, <3>1 DEF Carried
    <3> QED BY <1>5, <3>1, <3>2 DEF Reads
  <2> QED BY <2>1, <2>2, <2>3 DEF Carried
<1>15. OwnRows(u, k + 1, r)
  <2>1. ASSUME NEW y \in Ids
        PROVE  \/ \E j \in 1..(k + 1) : r.tail[Owner(u, j)] = y
               \/ r.cells[y].src = y
               \/ r.cells[y].src = None /\ y \in Open(r)
    <3>1. CASE y = e
      <4>1. k + 1 \in 1..(k + 1) /\ r.tail[Owner(u, k + 1)] = e
        BY <1>3, <1>5
      <4> QED BY <3>1, <4>1
    <3>2. CASE y # e /\ \E j \in 1..k : t.tail[Owner(u, j)] = y
      <4>1. PICK j \in 1..k : t.tail[Owner(u, j)] = y
        BY <3>2
      <4>2. j \in 1..(k + 1) /\ r.tail[Owner(u, j)] = y
        BY <1>3, <1>5, <4>1
      <4> QED BY <4>2
    <3>3. CASE y # e /\ ~\E j \in 1..k : t.tail[Owner(u, j)] = y
      BY <1>1, <1>5, <1>9, <3>3 DEF OwnRows
    <3> QED BY <3>1, <3>2, <3>3
  <2> QED BY <2>1 DEF OwnRows
<1> QED BY <1>5, <1>8, <1>9, <1>13, <1>14, <1>15 DEF Claiming, Leaves

(* Behind the cell just taken the search meets the open cells before the      *)
(* promised ones, which look empty too.                                       *)
LEMMA SearchOn ==
  ASSUME use \in Uses, NEW b, NEW u, NEW k, NEW h \in Ids, NEW O \in SUBSET Ids, NEW e \in O,
         \A c \in O : Dist(h, e) <= Dist(h, c),
         NEW r \in Table, Seated(b, u, k, r), Open(r) = O \ {e},
         \A x \in Promised(b, u, k) : r.tail[x] \in Ids /\ Dist(h, r.tail[x]) <= Dist(h, e),
         NEW m, m = NextEmpty(r.cells, e + 1)
  PROVE  /\ m \in Ids
         /\ Open(r) # {} =>
              /\ m \in Open(r) /\ \A c \in Open(r) : Dist(h, m) <= Dist(h, c)
              /\ \A x \in Promised(b, u, k) : Dist(h, r.tail[x]) < Dist(h, m)
<1>1. e \in Ids /\ e + 1 \in 0..Size /\ Size \in Nat
  <2>1. e \in Ids /\ Size \in Nat
    BY IdsFacts
  <2>2. e + 1 \in 0..Size
    BY <2>1, DistBehind
  <2> QED BY <2>1, <2>2
<1>2. /\ m \in Ids
      /\ \A c \in Ids : r.cells[c].seqs = {} =>
                          r.cells[m].seqs = {} /\ Dist(e + 1, m) <= Dist(e + 1, c)
  BY <1>1, NextEmptyFacts
<1>3. ASSUME NEW c \in Open(r)
      PROVE  c \in Ids /\ r.cells[c].seqs = {} /\ Dist(h, e) < Dist(h, c)
  <2>1. c \in Ids /\ c \in O /\ c # e
    OBVIOUS
  <2>2. r.cells[c].seqs \subseteq Ids
    BY <2>1, TableTypes
  <2>3. \A x \in Ids : x \notin r.cells[c].seqs
    BY <2>1 DEF Seated, Open
  <2>4. Dist(h, e) # Dist(h, c)
    BY <1>1, <2>1, DistFacts, IdsFacts DEF Ids
  <2>5. Dist(h, e) <= Dist(h, c) /\ Dist(h, e) \in Nat /\ Dist(h, c) \in Nat
    BY <1>1, <2>1, DistBehind
  <2> QED BY <2>1, <2>2, <2>3, <2>4, <2>5
<1>4. ASSUME NEW c \in Open(r)
      PROVE  /\ m \in Open(r) /\ Dist(h, m) <= Dist(h, c)
             /\ \A x \in Promised(b, u, k) : Dist(h, r.tail[x]) < Dist(h, m)
  <2>1. c \in Ids /\ r.cells[c].seqs = {} /\ Dist(h, e) < Dist(h, c)
    BY <1>3
  <2>2. r.cells[m].seqs = {} /\ Dist(e + 1, m) <= Dist(e + 1, c)
    BY <1>2, <2>1
  <2>3. /\ Dist(h, c) \in Nat /\ Dist(h, c) < Size /\ Dist(h, e) \in Nat
        /\ Dist(e + 1, c) = Dist(h, c) - Dist(h, e) - 1
    BY <1>1, <2>1, DistBehind
  <2>4. /\ Dist(h, m) \in Nat
        /\ Dist(h, m) > Dist(h, e) => Dist(e + 1, m) = Dist(h, m) - Dist(h, e) - 1
        /\ Dist(h, m) <= Dist(h, e) => Dist(e + 1, m) = Dist(h, m) - Dist(h, e) - 1 + Size
    BY <1>1, <1>2, DistBehind
  <2>5. Dist(h, m) > Dist(h, e) /\ Dist(h, m) <= Dist(h, c)
    BY <1>1, <2>2, <2>3, <2>4
  <2>6. ASSUME NEW x \in Promised(b, u, k) PROVE Dist(h, r.tail[x]) < Dist(h, m)
    <3>1. Dist(h, r.tail[x]) <= Dist(h, e) /\ Dist(h, r.tail[x]) \in Nat
      BY <1>1, DistBehind
    <3> QED BY <2>3, <2>4, <2>5, <3>1
  <2>7. m \in Open(r)
    <3> SUFFICES ASSUME NEW x \in Ids, r.tail[x] = m PROVE FALSE
      BY <1>2 DEF Open
    <3>1. x \in Promised(b, u, k)
      BY <1>2, <2>2 DEF Seated
    <3>2. Dist(h, m) < Dist(h, m)
      BY <2>6, <3>1
    <3> QED BY <2>4, <3>2
  <2> QED BY <2>5, <2>6, <2>7
<1> QED BY <1>2, <1>4

Going(b, d, w, p, u, k, a, h) ==
  /\ Claiming(b, d, w, p, u, k, a.t) /\ a.next \in Ids /\ a.ok
  /\ k < Len(u) => Search(b, u, k, a, h)

Allowed(a, t, s) ==
  /\ a.ok
  /\ t.tail[s] # None => s \in t.cells[t.tail[s]].seqs
  /\ Owns(t, s) \/ t.cells[a.next].seqs = {}
  /\ Owns(t, s) \/ t.tail[s] = None \/ t.cells[t.tail[s]].seqs # {s}

LEMMA ClaimFields ==
  ASSUME NEW a, NEW u, NEW k, NEW r, r = Claim(a, u, k), NEW s, s = Owner(u, k),
         NEW t, t = a.t, NEW moved, moved = MovedTo(t, s, a.next)
  PROVE  /\ Owns(t, s) => r.t = t /\ r.next = a.next
         /\ ~Owns(t, s) => r.t = moved
         /\ ~Owns(t, s) => r.next = IF k = Len(u) THEN a.next
                                    ELSE NextEmpty(moved.cells, a.next + 1)
         /\ r.ok <=> Allowed(a, t, s)
<1>1. r.t = IF Owns(t, s) THEN t ELSE moved
  BY Zenon DEF Claim
<1>2. r.next = IF Owns(t, s) \/ k = Len(u) THEN a.next ELSE NextEmpty(moved.cells, a.next + 1)
  BY Zenon DEF Claim
<1>3. r.ok <=> Allowed(a, t, s)
  BY Zenon DEF Claim, Allowed
<1> QED BY <1>1, <1>2, <1>3

(* A sequence that shares its cell or has none leaves a cell open.            *)
LEMMA SomeOpen ==
  ASSUME use \in Uses, NEW b, NEW u, NEW k, NEW t \in Table, Seated(b, u, k, t), NEW s \in Ids,
         s \notin Promised(b, u, k), ~Owns(t, s)
  PROVE  Open(t) # {}
<1> SUFFICES ASSUME Open(t) = {} PROVE FALSE
  OBVIOUS
<1>1. \A c \in Ids : \E x \in Ids : t.tail[x] = c
  BY DEF Open
<1>2. t.tail \in [Ids -> Ids \cup {None}]
  BY TableTypes
<1>3. t.tail[s] \in Ids /\ \A x \in Ids : t.tail[s] = t.tail[x] => s = x
  <2>1. PICK tail : tail = t.tail
    OBVIOUS
  <2>2. /\ \A x \in Ids : tail[x] \in Ids
        /\ \A x, y \in Ids : tail[x] = tail[y] => x = y
    BY <1>1, <1>2, <2>1, AllTaken
  <2> QED BY <2>1, <2>2
<1>4. t.cells[t.tail[s]].seqs \subseteq Ids
  BY <1>3, TableTypes
<1>5. t.cells[t.tail[s]].seqs = {s}
  BY <1>3, <1>4 DEF Seated
<1> QED BY <1>3, <1>5, IdsFacts DEF Owns

LEMMA ClaimStep ==
  ASSUME use \in Uses, NEW b, NEW d, NEW w, NEW p, NEW u, IsUbatch(u), NEW k \in Nat, k < Len(u),
         NEW h \in Ids, NEW a, Going(b, d, w, p, u, k, a, h),
         \A j \in 1..Len(u) : b.tail[Owner(u, j)] = None => w[Owner(u, j)] = << >>,
         NEW r, r = Claim(a, u, k + 1)
  PROVE  Going(b, d, w, p, u, k + 1, r, h)
<1>1. PICK t : t = a.t
  OBVIOUS
<1>2. PICK s : s = Owner(u, k + 1)
  OBVIOUS
<1>3. PICK e : e = a.next
  OBVIOUS
<1>4. PICK moved : moved = MovedTo(t, s, e)
  OBVIOUS
<1>5. Claiming(b, d, w, p, u, k, t) /\ e \in Ids /\ a.ok /\ Search(b, u, k, a, h)
  BY <1>1, <1>3 DEF Going
<1>6. /\ t \in Table /\ Seated(b, u, k, t) /\ Carried(Promised(b, u, k), d, w, p, t)
      /\ OwnRows(u, k, t)
  BY <1>5 DEF Claiming
<1>7. ComesNext(b, u, k, t, s)
  BY <1>2, <1>6, NextOwner
<1>8. /\ s \in Ids /\ s \notin Promised(b, u, k) /\ t.tail[s] = b.tail[s] /\ k + 1 \in 1..Len(u)
  BY <1>7 DEF ComesNext
<1>9. CASE Owns(t, s)
  <2>1. r.t = t /\ r.next = e
    BY <1>1, <1>2, <1>3, <1>9, ClaimFields
  <2>2. r.ok <=> Allowed(a, t, s)
    BY <1>1, <1>2, ClaimFields
  <2>3. r.ok
    BY <1>5, <1>9, <2>2 DEF Owns, Allowed
  <2>4. /\ Seated(b, u, k + 1, t) /\ Carried(Promised(b, u, k + 1), d, w, p, t)
        /\ OwnRows(u, k + 1, t)
        /\ Promised(b, u, k + 1) = Promised(b, u, k)
    BY <1>2, <1>6, <1>9, OwnerStays
  <2>5. Search(b, u, k + 1, r, h)
    BY <1>1, <1>3, <1>5, <2>1, <2>4 DEF Search
  <2> QED BY <1>5, <1>6, <2>1, <2>3, <2>4, <2>5 DEF Going, Claiming
<1>10. CASE ~Owns(t, s)
  <2>1. Open(t) # {}
    BY <1>6, <1>8, <1>10, SomeOpen
  <2>2. /\ e \in Open(t) /\ \A c \in Open(t) : Dist(h, e) <= Dist(h, c)
        /\ \A x \in Promised(b, u, k) : Dist(h, t.tail[x]) < Dist(h, e)
    BY <1>1, <1>3, <1>5, <2>1 DEF Search
  <2>3. t.tail[s] = None => w[s] = << >>
    BY <1>2, <1>8
  <2>4. Claiming(b, d, w, p, u, k + 1, moved) /\ Leaves(t, s, e, moved)
    BY <1>2, <1>4, <1>5, <1>10, <2>2, <2>3, OwnerMoves
  <2>5. Open(moved) = Open(t) \ {e}
    <3>1. \A y \in Ids : y \in Open(moved) <=> y \in Open(t) /\ y # e
      BY <2>4 DEF Leaves
    <3>2. Open(moved) \subseteq Ids /\ Open(t) \subseteq Ids
      BY DEF Open
    <3> QED BY <3>1, <3>2
  <2>6. t.tail[s] # None => s \in t.cells[t.tail[s]].seqs
    BY <2>4 DEF Leaves
  <2>7. r.t = moved
    BY <1>1, <1>2, <1>3, <1>4, <1>10, ClaimFields
  <2>8. r.next = IF k + 1 = Len(u) THEN e ELSE NextEmpty(moved.cells, e + 1)
    BY <1>1, <1>2, <1>3, <1>4, <1>10, ClaimFields
  <2>9. r.ok
    <3>1. r.ok <=> Allowed(a, t, s)
      BY <1>1, <1>2, ClaimFields
    <3>2. t.cells[e].seqs = {}
      <4>1. t.cells[e].seqs \subseteq Ids
        BY <1>5, <1>6, TableTypes
      <4>2. \A x \in Ids : x \notin t.cells[e].seqs
        BY <1>5, <1>6, <2>2 DEF Seated, Open
      <4> QED BY <4>1, <4>2
    <3> QED BY <1>3, <1>5, <1>10, <2>6, <3>1, <3>2 DEF Owns, Allowed
  <2>10. moved \in Table /\ Seated(b, u, k + 1, moved)
    BY <2>4 DEF Claiming
  <2>11. Moved(t, s, e, moved)
    BY <1>4, <1>6, <1>8, <2>2, MovedFacts
  <2>12. ASSUME NEW x \in Promised(b, u, k + 1)
         PROVE  moved.tail[x] \in Ids /\ Dist(h, moved.tail[x]) <= Dist(h, e)
    <3>1. x \in Ids /\ moved.tail[x] = IF x = s THEN e ELSE t.tail[x]
      BY <2>11 DEF Promised, Moved
    <3>2. Dist(h, e) \in Nat
      BY <1>5, DistBehind
    <3>3. CASE x = s
      BY <1>5, <3>1, <3>2, <3>3
    <3>4. CASE x # s
      <4>1. x \in Promised(b, u, k)
        BY <1>7, <3>4 DEF ComesNext
      <4>2. Dist(h, t.tail[x]) < Dist(h, e)
        BY <2>2, <4>1
      <4>3. PICK j \in 1..k : x = Owner(u, j)
        BY <4>1 DEF Promised
      <4>4. t.tail[x] \in Ids
        BY <1>6, <4>3 DEF Seated
      <4>5. Dist(h, t.tail[x]) \in Nat
        BY <4>4, DistBehind
      <4> QED BY <3>1, <3>2, <3>4, <4>2, <4>4, <4>5
    <3> QED BY <3>3, <3>4
  <2>13. CASE k + 1 = Len(u)
    <3>1. r.next = e /\ ~(k + 1 < Len(u))
      BY <2>8, <2>13
    <3> QED BY <1>5, <2>4, <2>7, <2>9, <3>1 DEF Going
  <2>14. CASE k + 1 # Len(u)
    <3>1. PICK m : m = NextEmpty(moved.cells, e + 1)
      OBVIOUS
    <3>2. PICK O : O = Open(t)
      OBVIOUS
    <3>3. O \in SUBSET Ids /\ e \in O /\ Open(moved) = O \ {e}
      BY <2>2, <2>5, <3>2 DEF Open
    <3>4. \A c \in O : Dist(h, e) <= Dist(h, c)
      BY <2>2, <3>2
    <3>5. /\ m \in Ids
          /\ Open(moved) # {} =>
               /\ m \in Open(moved) /\ \A c \in Open(moved) : Dist(h, m) <= Dist(h, c)
               /\ \A x \in Promised(b, u, k + 1) : Dist(h, moved.tail[x]) < Dist(h, m)
      BY <2>10, <2>12, <3>1, <3>3, <3>4, SearchOn
    <3>6. r.next = m
      BY <2>8, <2>14, <3>1
    <3>7. Search(b, u, k + 1, r, h)
      BY <2>7, <3>5, <3>6 DEF Search
    <3> QED BY <2>4, <2>7, <2>9, <3>5, <3>6, <3>7 DEF Going
  <2> QED BY <2>13, <2>14
<1> QED BY <1>9, <1>10

(* After the first round every owner has a cell of its own.                   *)
LEMMA ClaimAll ==
  ASSUME use \in Uses, NEW b, NEW d, NEW w, NEW p, NEW u, IsUbatch(u), Good(b, d), Kept(b, d, w, p),
         \A j \in 1..Len(u) : b.tail[Owner(u, j)] = None => w[Owner(u, j)] = << >>,
         NEW got, got = Claimed(b, u)
  PROVE  got.ok /\ Claiming(b, d, w, p, u, Len(u), got.t)
<1>1. PICK n : n = Len(u)
  OBVIOUS
<1>2. n \in Nat \ {0}
  BY <1>1, OwnersApart
<1>3. PICK first : first = Unclaimed(b)
  OBVIOUS
<1>4. PICK f : /\ f[0] = first /\ Claimed(b, u) = f[n]
               /\ \A k \in 1..n : f[k] = Claim(f[k - 1], u, k)
  BY <1>1, <1>2, <1>3, ClaimLoop
<1>5. PICK h : h = b.head
  OBVIOUS
<1>6. b \in Table /\ h \in Ids /\ Agree(b) /\ Entries(b, d)
  BY <1>5, TableTypes DEF Good
<1> DEFINE T == {k \in Nat : Going(b, d, w, p, u, k, f[k], h)}
<1>7. 0 \in T
  <2>1. first.t = b /\ first.next = NextEmpty(b.cells, h) /\ first.ok
    BY <1>3, <1>5, Zenon DEF Unclaimed
  <2>2. Promised(b, u, 0) = {}
    BY DEF Promised
  <2>3. ASSUME NEW c \in Ids PROVE c \in Open(b) <=> b.cells[c].seqs = {}
    <3>1. b.cells[c].seqs \subseteq Ids
      BY <1>6, TableTypes
    <3> QED BY <1>6, <3>1 DEF Agree, Open
  <2>4. Seated(b, u, 0, b)
    BY <1>6, <2>2 DEF Seated, Agree
  <2>5. Carried(Promised(b, u, 0), d, w, p, b)
    <3>1. ASSUME NEW s \in Ids, b.tail[s] # None
          PROVE  /\ Reads(b.cells[b.tail[s]], d) = w[s]
                 /\ b.cells[b.tail[s]].pos = p[s] /\ p[s] \in 0..(Forever - 1)
      <4>1. b.tail[s] \in Ids
        BY <1>6, <3>1, TableTypes
      <4>2. b.cells[b.tail[s]].seqs # {}
        BY <1>6, <4>1 DEF Agree
      <4>3. b.cells[b.tail[s]].pos \in 0..(Forever - 1) /\ b.cells[b.tail[s]].src = b.tail[s]
        BY <1>6, <4>1, <4>2 DEF Entries
      <4>4. w[s] = d[b.tail[s]] /\ p[s] = b.cells[b.tail[s]].pos
        BY <3>1 DEF Kept
      <4> QED BY <3>1, <4>3, <4>4 DEF Reads
    <3>2. ASSUME NEW c \in Open(b) PROVE b.cells[c].pos = -1 /\ Reads(b.cells[c], d) = << >>
      <4>1. c \in Ids /\ b.cells[c].seqs = {}
        BY <2>3 DEF Open
      <4> QED BY <1>6, <4>1 DEF Entries, Reads
    <3> QED BY <3>1, <3>2 DEF Carried
  <2>6. OwnRows(u, 0, b)
    BY <1>6, <2>3 DEF OwnRows, Entries
  <2>7. h \in 0..Size
    BY <1>6, IdsFacts DEF Ids
  <2>8. /\ first.next \in Ids
        /\ \A c \in Ids : b.cells[c].seqs = {} =>
             b.cells[first.next].seqs = {} /\ Dist(h, first.next) <= Dist(h, c)
    BY <2>1, <2>7, NextEmptyFacts
  <2>9. Search(b, u, 0, first, h)
    <3>1. \A c \in Open(b) : c \in Ids
      BY DEF Open
    <3> QED BY <2>1, <2>2, <2>3, <2>8, <3>1 DEF Search
  <2> QED BY <1>4, <1>6, <2>1, <2>4, <2>5, <2>6, <2>8, <2>9 DEF Going, Claiming
<1>8. ASSUME NEW k \in T, k < n PROVE k + 1 \in T
  <2>1. k \in Nat /\ k + 1 \in 1..n /\ (k + 1) - 1 = k /\ Going(b, d, w, p, u, k, f[k], h)
    BY <1>2, <1>8
  <2>2. f[k + 1] = Claim(f[k], u, k + 1)
    BY <1>4, <2>1
  <2>3. Going(b, d, w, p, u, k + 1, f[k + 1], h)
    BY <1>1, <1>6, <1>8, <2>1, <2>2, ClaimStep
  <2> QED BY <2>1, <2>3
<1>9. n \in T
  <2>1. T \in SUBSET Nat
    OBVIOUS
  <2> HIDE DEF T
  <2> QED BY <1>2, <1>7, <1>8, <2>1, CountingTo
<1> QED BY <1>1, <1>4, <1>9 DEF Going

-----------------------------------------------------------------------------
(***************************************************************************)
(* The cells of the owners are swapped into a run; what a cell holds moves *)
(* with the tails that name it.                                            *)
(***************************************************************************)
Other(a, e, c) == IF c = a THEN e ELSE IF c = e THEN a ELSE c

Swaps(t, a, e, r) ==
  /\ r \in Table
  /\ \A c \in Ids : Other(a, e, c) \in Ids /\ r.cells[c] = t.cells[Other(a, e, c)]
  /\ \A s \in Ids : r.tail[s] = Other(a, e, t.tail[s])
  /\ \A c : Other(a, e, Other(a, e, c)) = c
  /\ Other(a, e, None) = None

LEMMA SwapFacts ==
  ASSUME use \in Uses, NEW t \in Table, NEW a \in Ids, NEW e \in Ids, NEW r, r = Swapped(t, a, e)
  PROVE  Swaps(t, a, e, r)
<1>1. /\ t.cells \in [Ids -> Cell] /\ t.tail \in [Ids -> Ids \cup {None}] /\ t.head \in Ids
      /\ t.used \in Int
  BY TableTypes
<1>2. PICK cells : cells = [c \in Ids |-> t.cells[Other(a, e, c)]]
  OBVIOUS
<1>3. PICK tail : tail = [s \in Ids |-> Other(a, e, t.tail[s])]
  OBVIOUS
<1>4. r = [cells |-> cells, tail |-> tail, head |-> t.head, used |-> t.used]
  BY <1>2, <1>3 DEF Swapped, Other
<1>5. \A c \in Ids : Other(a, e, c) \in Ids
  BY DEF Other
<1>6. Other(a, e, None) = None /\ \A c : Other(a, e, Other(a, e, c)) = c
  BY IdsFacts DEF Other
<1>7. cells \in [Ids -> Cell]
  BY <1>1, <1>2, <1>5
<1>8. tail \in [Ids -> Ids \cup {None}]
  BY <1>1, <1>3, <1>5, <1>6
<1>9. r \in Table
  BY <1>1, <1>4, <1>7, <1>8 DEF Table
<1>10. r.cells = cells /\ r.tail = tail
  BY <1>4
<1> QED BY <1>2, <1>3, <1>5, <1>6, <1>9, <1>10 DEF Swaps

Lodged(b, u, t) ==
  /\ t \in Table
  /\ \A s, c \in Ids :
       (s \in t.cells[c].seqs) <=> (t.tail[s] = c /\ s \notin Promised(b, u, Len(u)))
  /\ \A j \in 1..Len(u) :
       /\ t.tail[Owner(u, j)] \in Ids
       /\ \A s \in Ids : t.tail[s] = t.tail[Owner(u, j)] => s = Owner(u, j)
  /\ \A s \in Ids : (\A j \in 1..Len(u) : s # Owner(u, j)) =>
                      (t.tail[s] = None <=> b.tail[s] = None)

(* The owners are in the run; outside of it every row is read in place.       *)
Inside(u, lo, hi, t) ==
  /\ \A j \in 1..Len(u) : lo <= t.tail[Owner(u, j)] /\ t.tail[Owner(u, j)] <= hi
  /\ \A c \in Ids : c < lo \/ c > hi =>
                      t.cells[c].src = c \/ (t.cells[c].src = None /\ c \in Open(t))

InRow(u, lo, k, t) == \A j \in 1..k : t.tail[Owner(u, j)] = lo + j - 1

Gathering(b, d, w, p, u, lo, hi, k, t) ==
  /\ Lodged(b, u, t) /\ Carried(Promised(b, u, Len(u)), d, w, p, t)
  /\ Inside(u, lo, hi, t) /\ InRow(u, lo, k, t)

LEMMA SwapOpen ==
  ASSUME use \in Uses, NEW t \in Table, NEW a \in Ids, NEW e \in Ids, NEW r, r = Swapped(t, a, e),
         NEW c \in Ids
  PROVE  c \in Open(r) <=> Other(a, e, c) \in Open(t)
<1>0. Swaps(t, a, e, r)
  BY SwapFacts
<1>1. Other(a, e, c) \in Ids /\ Other(a, e, Other(a, e, c)) = c
  BY <1>0 DEF Swaps
<1>2. ASSUME NEW s \in Ids PROVE r.tail[s] = c <=> t.tail[s] = Other(a, e, c)
  <2>1. r.tail[s] = Other(a, e, t.tail[s])
    BY <1>0 DEF Swaps
  <2>2. Other(a, e, Other(a, e, t.tail[s])) = t.tail[s]
    BY <1>0 DEF Swaps
  <2> QED BY <1>1, <2>1, <2>2
<1> QED BY <1>1, <1>2 DEF Open

LEMMA SwapStep ==
  ASSUME use \in Uses, NEW b, NEW d, NEW w, NEW p, NEW u, IsUbatch(u),
         NEW lo \in Ids, NEW hi \in Ids,
         Len(u) <= hi - lo + 1, NEW k \in Nat, k < Len(u), NEW t,
         Gathering(b, d, w, p, u, lo, hi, k, t), NEW e, e = t.tail[Owner(u, k + 1)],
         NEW r, r = Swapped(t, lo + k, e)
  PROVE  Gathering(b, d, w, p, u, lo, hi, k + 1, r)
<1>1. /\ Lodged(b, u, t) /\ Carried(Promised(b, u, Len(u)), d, w, p, t)
      /\ Inside(u, lo, hi, t) /\ InRow(u, lo, k, t) /\ t \in Table
  BY DEF Gathering, Lodged
<1>2. /\ Len(u) \in Nat /\ k + 1 \in 1..Len(u) /\ None \notin Ids
      /\ \A j \in 1..Len(u) : Owner(u, j) \in Ids
      /\ \A i, j \in 1..Len(u) : Owner(u, i) = Owner(u, j) => i = j
  <2>1. Len(u) \in Nat
    BY OwnersApart
  <2>2. \A j \in 1..Len(u) : Owner(u, j) \in Ids
    BY OwnersApart
  <2>3. \A i, j \in 1..Len(u) : Owner(u, i) = Owner(u, j) => i = j
    BY OwnersApart
  <2>4. None \notin Ids
    BY IdsFacts
  <2> QED BY <2>1, <2>2, <2>3, <2>4
<1>3. e \in Ids /\ lo <= e /\ e <= hi /\ \A x \in Ids : t.tail[x] = e => x = Owner(u, k + 1)
  BY <1>1, <1>2 DEF Lodged, Inside
<1>4. PICK a : a = lo + k
  OBVIOUS
<1>5. lo \in 0..(Size - 1) /\ hi \in 0..(Size - 1) /\ Size \in Nat
  BY IdsFacts DEF Ids
<1>6. a \in 0..(Size - 1) /\ lo <= a /\ a <= hi
  BY <1>2, <1>4, <1>5
<1>7. a \in Ids /\ r = Swapped(t, a, e)
  BY <1>4, <1>6 DEF Ids
<1>0. Swaps(t, a, e, r)
  BY <1>1, <1>3, <1>7, SwapFacts
<1>8. r \in Table
  BY <1>0 DEF Swaps
<1>9. \A c \in Ids : Other(a, e, c) \in Ids /\ r.cells[c] = t.cells[Other(a, e, c)]
  BY <1>0 DEF Swaps
<1>10. \A s \in Ids : r.tail[s] = Other(a, e, t.tail[s])
  BY <1>0 DEF Swaps
<1>11. \A c : Other(a, e, Other(a, e, c)) = c
  BY <1>0 DEF Swaps
<1>12. Other(a, e, None) = None
  BY <1>0 DEF Swaps
<1>13. \A c \in Ids : c \in Open(r) <=> Other(a, e, c) \in Open(t)
  BY <1>1, <1>3, <1>7, SwapOpen
<1>14. \A s \in Ids : t.tail[s] # None => r.cells[r.tail[s]] = t.cells[t.tail[s]]
  <2> SUFFICES ASSUME NEW s \in Ids, t.tail[s] # None
               PROVE  r.cells[r.tail[s]] = t.cells[t.tail[s]]
    OBVIOUS
  <2>1. t.tail[s] \in Ids
    BY <1>1, TableTypes
  <2> QED BY <1>9, <1>10, <1>11, <2>1
<1>15. \A s \in Ids : r.tail[s] = None <=> t.tail[s] = None
  BY <1>10, <1>11, <1>12
<1>16. Lodged(b, u, r)
  <2>1. ASSUME NEW s \in Ids, NEW c \in Ids
        PROVE  (s \in r.cells[c].seqs) <=> (r.tail[s] = c /\ s \notin Promised(b, u, Len(u)))
    <3>1. (s \in t.cells[Other(a, e, c)].seqs) <=>
            (t.tail[s] = Other(a, e, c) /\ s \notin Promised(b, u, Len(u)))
      BY <1>1, <1>9 DEF Lodged
    <3> QED BY <1>9, <1>10, <1>11, <3>1
  <2>2. ASSUME NEW j \in 1..Len(u)
        PROVE  /\ r.tail[Owner(u, j)] \in Ids
               /\ \A s \in Ids : r.tail[s] = r.tail[Owner(u, j)] => s = Owner(u, j)
    <3>1. /\ t.tail[Owner(u, j)] \in Ids
          /\ \A s \in Ids : t.tail[s] = t.tail[Owner(u, j)] => s = Owner(u, j)
      BY <1>1 DEF Lodged
    <3> QED BY <1>2, <1>9, <1>10, <1>11, <3>1
  <2>3. ASSUME NEW s \in Ids, \A j \in 1..Len(u) : s # Owner(u, j)
        PROVE  r.tail[s] = None <=> b.tail[s] = None
    BY <1>1, <1>15, <2>3 DEF Lodged
  <2> QED BY <1>8, <2>1, <2>2, <2>3 DEF Lodged
<1>17. Carried(Promised(b, u, Len(u)), d, w, p, r)
  <2>1. ASSUME NEW s \in Ids, r.tail[s] # None PROVE Reads(r.cells[r.tail[s]], d) = w[s]
    BY <1>1, <1>14, <1>15, <2>1 DEF Carried
  <2>2. ASSUME NEW s \in Ids, r.tail[s] # None, s \notin Promised(b, u, Len(u))
        PROVE  r.cells[r.tail[s]].pos = p[s] /\ p[s] \in 0..(Forever - 1)
    BY <1>1, <1>14, <1>15, <2>2 DEF Carried
  <2>3. ASSUME NEW c \in Open(r) PROVE r.cells[c].pos = -1 /\ Reads(r.cells[c], d) = << >>
    <3>1. c \in Ids /\ Other(a, e, c) \in Open(t)
      BY <1>13 DEF Open
    <3> QED BY <1>1, <1>9, <3>1 DEF Carried
  <2> QED BY <2>1, <2>2, <2>3 DEF Carried
<1>18. Inside(u, lo, hi, r)
  <2>1. ASSUME NEW j \in 1..Len(u)
        PROVE  lo <= r.tail[Owner(u, j)] /\ r.tail[Owner(u, j)] <= hi
    <3>1. lo <= t.tail[Owner(u, j)] /\ t.tail[Owner(u, j)] <= hi
      BY <1>1 DEF Inside
    <3> QED BY <1>2, <1>3, <1>6, <1>10, <3>1 DEF Other
  <2>2. ASSUME NEW c \in Ids, c < lo \/ c > hi
        PROVE  r.cells[c].src = c \/ (r.cells[c].src = None /\ c \in Open(r))
    <3>1. Other(a, e, c) = c
      <4>1. c \in Nat /\ e \in Nat /\ a \in Nat /\ lo \in Nat /\ hi \in Nat
        BY <1>3, <1>7, IdsFacts
      <4>2. c # a /\ c # e
        BY <1>3, <1>6, <2>2, <4>1
      <4> QED BY <4>2 DEF Other
    <3> QED BY <1>1, <1>9, <1>13, <2>2, <3>1 DEF Inside
  <2> QED BY <2>1, <2>2 DEF Inside
<1>19. InRow(u, lo, k + 1, r)
  <2> SUFFICES ASSUME NEW j \in 1..(k + 1) PROVE r.tail[Owner(u, j)] = lo + j - 1
    BY DEF InRow
  <2>1. CASE j = k + 1
    <3>1. r.tail[Owner(u, j)] = Other(a, e, e)
      BY <1>2, <1>10, <2>1
    <3>2. Other(a, e, e) = a
      BY DEF Other
    <3>3. a = lo + j - 1
      BY <1>4, <1>5, <2>1
    <3> QED BY <3>1, <3>2, <3>3
  <2>2. CASE j # k + 1
    <3>1. j \in 1..k /\ j \in 1..Len(u)
      BY <1>2, <2>2
    <3>2. t.tail[Owner(u, j)] = lo + j - 1
      BY <1>1, <3>1 DEF InRow
    <3>3. lo + j - 1 # a
      BY <1>4, <1>5, <3>1
    <3>4. t.tail[Owner(u, j)] # e
      BY <1>2, <1>3, <2>2, <3>1
    <3> QED BY <1>2, <1>10, <3>1, <3>2, <3>3, <3>4 DEF Other
  <2> QED BY <2>1, <2>2
<1> QED BY <1>16, <1>17, <1>18, <1>19 DEF Gathering

(* The run from the first to the last cell of an owner is wide enough.        *)
Spans(u, g, lo, hi) ==
  /\ lo \in Ids /\ hi \in Ids /\ Len(u) <= hi - lo + 1
  /\ \A j \in 1..Len(u) : lo <= g.tail[Owner(u, j)] /\ g.tail[Owner(u, j)] <= hi
  /\ Len(u) = 1 => lo = hi

LEMMA RunFacts ==
  ASSUME use \in Uses, NEW u, IsUbatch(u), NEW g,
         \A j \in 1..Len(u) : /\ g.tail[Owner(u, j)] \in Ids
                              /\ \A s \in Ids : g.tail[s] = g.tail[Owner(u, j)] => s = Owner(u, j),
         NEW tails, tails = {g.tail[Owner(u, k)] : k \in DOMAIN u}
  PROVE  Spans(u, g, Min(tails), Max(tails))
<1>1. PICK n : n = Len(u)
  OBVIOUS
<1>2. n \in Nat \ {0} /\ DOMAIN u = 1..n
  BY <1>1 DEF IsUbatch
<1>3. tails \in SUBSET Ids /\ g.tail[Owner(u, 1)] \in tails
  BY <1>1, <1>2
<1>4. \A j \in 1..n : g.tail[Owner(u, j)] \in tails
  BY <1>2
<1>5. PICK lo : lo = Min(tails)
  OBVIOUS
<1>6. PICK hi : hi = Max(tails)
  OBVIOUS
<1>7. lo \in tails /\ lo \in Ids /\ \A y \in tails : lo <= y
  BY <1>3, <1>5, LeastId
<1>8. hi \in tails /\ hi \in Ids /\ \A y \in tails : hi >= y
  <2>1. Size - 1 \in Nat /\ tails \in SUBSET (0..(Size - 1)) /\ tails # {}
    BY <1>3, IdsFacts DEF Ids
  <2>2. PICK m : m = Size - 1
    OBVIOUS
  <2>3. Max(tails) \in tails /\ \A y \in tails : Max(tails) >= y
    BY <2>1, <2>2, MaxFacts
  <2> QED BY <1>3, <1>6, <2>3
<1>9. lo \in Nat /\ hi \in Nat /\ \A y \in tails : y \in Nat
  BY <1>3, <1>7, <1>8, IdsFacts
<1>10. \A j \in 1..n : lo <= g.tail[Owner(u, j)] /\ g.tail[Owner(u, j)] <= hi
  <2> SUFFICES ASSUME NEW j \in 1..n
               PROVE  lo <= g.tail[Owner(u, j)] /\ g.tail[Owner(u, j)] <= hi
    OBVIOUS
  <2>1. g.tail[Owner(u, j)] \in tails
    BY <1>4
  <2> QED BY <1>7, <1>8, <1>9, <2>1
<1>11. n <= hi - lo + 1
  <2>1. PICK q : q = [j \in 1..n |-> g.tail[Owner(u, j)]]
    OBVIOUS
  <2>2. q \in [1..n -> lo..hi]
    <3>1. \A j \in 1..n : g.tail[Owner(u, j)] \in lo..hi
      BY <1>3, <1>4, <1>9, <1>10
    <3> QED BY <2>1, <3>1
  <2>3. \A j \in 1..n : Owner(u, j) \in Ids
    BY <1>1, OwnersApart
  <2>4. \A i, j \in 1..n : Owner(u, i) = Owner(u, j) => i = j
    BY <1>1, OwnersApart
  <2>5. ASSUME NEW i \in 1..n, NEW j \in 1..n, q[i] = q[j] PROVE i = j
    <3>1. g.tail[Owner(u, i)] = g.tail[Owner(u, j)]
      BY <2>1, <2>5
    <3>2. Owner(u, i) = Owner(u, j)
      BY <1>1, <2>3, <3>1
    <3> QED BY <2>4, <3>2
  <2>6. lo \in Int /\ hi \in Int /\ n \in Nat /\ n > 0
    BY <1>2, <1>9
  <2> QED BY <2>2, <2>5, <2>6, ManyApart
<1>12. ASSUME n = 1 PROVE lo = hi
  <2>1. PICK i \in 1..n : lo = g.tail[Owner(u, i)]
    BY <1>2, <1>7
  <2>2. PICK j \in 1..n : hi = g.tail[Owner(u, j)]
    BY <1>2, <1>8
  <2>3. i = j
    BY <1>12
  <2> QED BY <2>1, <2>2, <2>3
<1> QED BY <1>1, <1>5, <1>6, <1>7, <1>8, <1>10, <1>11, <1>12 DEF Spans

LEMMA GatherAll ==
  ASSUME use \in Uses, NEW b, NEW d, NEW w, NEW p, NEW u, IsUbatch(u), NEW g,
         Claiming(b, d, w, p, u, Len(u), g), NEW lo, NEW hi, Spans(u, g, lo, hi)
  PROVE  Gathering(b, d, w, p, u, lo, hi, Len(u), Gathered(g, u, lo))
<1>1. PICK n : n = Len(u)
  OBVIOUS
<1>2. n \in Nat \ {0}
  BY <1>1, OwnersApart
<1>3. lo \in Ids /\ hi \in Ids /\ n <= hi - lo + 1
  BY <1>1 DEF Spans
<1>4. PICK f : /\ f[0] = g /\ Gathered(g, u, lo) = f[n]
               /\ \A k \in 1..n : f[k] = Swapped(f[k - 1], lo + k - 1, f[k - 1].tail[Owner(u, k)])
  BY <1>1, <1>2, GatherLoop
<1> DEFINE T == {k \in Nat : Gathering(b, d, w, p, u, lo, hi, k, f[k])}
<1>5. 0 \in T
  <2>1. /\ g \in Table /\ Seated(b, u, n, g) /\ Carried(Promised(b, u, n), d, w, p, g)
        /\ OwnRows(u, n, g)
    BY <1>1 DEF Claiming
  <2>2. Lodged(b, u, g)
    BY <1>1, <2>1 DEF Lodged, Seated
  <2>3. Inside(u, lo, hi, g)
    <3>1. ASSUME NEW c \in Ids, c < lo \/ c > hi
          PROVE  g.cells[c].src = c \/ (g.cells[c].src = None /\ c \in Open(g))
      <4>1. c \in Nat /\ lo \in Nat /\ hi \in Nat
        BY <1>3, IdsFacts
      <4>2. ASSUME NEW j \in 1..n PROVE g.tail[Owner(u, j)] # c
        <5>1. lo <= g.tail[Owner(u, j)] /\ g.tail[Owner(u, j)] <= hi
          BY <1>1 DEF Spans
        <5> QED BY <3>1, <4>1, <5>1
      <4> QED BY <2>1, <4>2 DEF OwnRows
    <3> QED BY <3>1 DEF Inside, Spans
  <2>4. InRow(u, lo, 0, g)
    BY DEF InRow
  <2> QED BY <1>1, <1>4, <2>1, <2>2, <2>3, <2>4 DEF Gathering
<1>6. ASSUME NEW k \in T, k < n PROVE k + 1 \in T
  <2>1. k \in Nat /\ k + 1 \in 1..n /\ (k + 1) - 1 = k /\ lo + (k + 1) - 1 = lo + k
    BY <1>2, <1>3, <1>6, IdsFacts
  <2>2. Gathering(b, d, w, p, u, lo, hi, k, f[k])
    OBVIOUS
  <2>3. PICK e : e = f[k].tail[Owner(u, k + 1)]
    OBVIOUS
  <2>4. f[k + 1] = Swapped(f[k], lo + k, e)
    BY <1>4, <2>1, <2>3
  <2>5. Gathering(b, d, w, p, u, lo, hi, k + 1, f[k + 1])
    BY <1>1, <1>3, <1>6, <2>1, <2>2, <2>3, <2>4, SwapStep
  <2> QED BY <2>1, <2>5
<1>7. n \in T
  <2>1. T \in SUBSET Nat
    OBVIOUS
  <2> HIDE DEF T
  <2> QED BY <1>2, <1>5, <1>6, <2>1, CountingTo
<1> QED BY <1>1, <1>4, <1>7

-----------------------------------------------------------------------------
(***************************************************************************)
(* The sequences of a list enter the cell of their owner.                  *)
(***************************************************************************)
(* The first k lists have entered. *)
Entered(g, u, lo, lastPos, k, r) ==
  /\ r \in Table
  /\ \A j \in 1..k : \A s \in ToSet(u[j]) : r.tail[s] = lo + j - 1
  /\ \A s \in Ids : (\A j \in 1..k : s \notin ToSet(u[j])) => r.tail[s] = g.tail[s]
  /\ \A j \in 1..k : /\ r.cells[lo + j - 1].pos = lastPos[j]
                     /\ r.cells[lo + j - 1].seqs = ToSet(u[j])
  /\ \A c \in Ids : (\A j \in 1..k : c # lo + j - 1) => r.cells[c] = g.cells[c]
  /\ \A c \in Ids : r.cells[c].src = g.cells[c].src

LEMMA ListSets ==
  ASSUME NEW u, IsUbatch(u)
  PROVE  /\ \A j \in 1..Len(u) : ToSet(u[j]) \subseteq Ids /\ Owner(u, j) \in ToSet(u[j])
         /\ \A i, j \in 1..Len(u) : \A s : s \in ToSet(u[i]) /\ s \in ToSet(u[j]) => i = j
         /\ \A j \in 1..Len(u) : \A s \in ToSet(u[j]) : s # Owner(u, j) => s \in Followers(u)
<1>1. \A j \in 1..Len(u) : /\ Len(u[j]) \in Nat \ {0} /\ DOMAIN u[j] = 1..Len(u[j])
                           /\ \A i \in 1..Len(u[j]) : u[j][i] \in Ids
  BY DEF IsUbatch
<1>2. \A j \in 1..Len(u) : ToSet(u[j]) \subseteq Ids /\ Owner(u, j) \in ToSet(u[j])
  BY <1>1 DEF ToSet, Owner
<1>3. ASSUME NEW i \in 1..Len(u), NEW j \in 1..Len(u), NEW s, s \in ToSet(u[i]), s \in ToSet(u[j])
      PROVE  i = j
  <2>1. PICK x \in 1..Len(u[i]) : s = u[i][x]
    BY <1>1, <1>3 DEF ToSet
  <2>2. PICK y \in 1..Len(u[j]) : s = u[j][y]
    BY <1>1, <1>3 DEF ToSet
  <2> QED BY ZenonT(60), <2>1, <2>2 DEF IsUbatch
<1>4. ASSUME NEW j \in 1..Len(u), NEW s \in ToSet(u[j]), s # Owner(u, j)
      PROVE  s \in Followers(u)
  <2>1. PICK x \in 1..Len(u[j]) : s = u[j][x]
    BY <1>1 DEF ToSet
  <2>2. x \in 2..Len(u[j]) /\ s \in Ids
    BY <1>1, <1>4, <2>1 DEF Owner
  <2> QED BY <2>1, <2>2 DEF Followers
<1> QED BY <1>2, <1>3, <1>4

Occupies(t, c, set, last, r) ==
  /\ r \in Table
  /\ r.cells[c].pos = last /\ r.cells[c].seqs = set /\ r.cells[c].src = t.cells[c].src
  /\ \A x \in Ids : x # c => r.cells[x] = t.cells[x]
  /\ \A s \in Ids : r.tail[s] = IF s \in set THEN c ELSE t.tail[s]

LEMMA OccupyFacts ==
  ASSUME use \in Uses, NEW t \in Table, NEW c \in Ids, NEW list, ToSet(list) \subseteq Ids,
         NEW last \in -1..Forever, NEW r, r = Occupy(t, c, list, last)
  PROVE  Occupies(t, c, ToSet(list), last, r)
<1>1. /\ t.cells \in [Ids -> Cell] /\ t.tail \in [Ids -> Ids \cup {None}] /\ t.head \in Ids
      /\ t.used \in Int
  BY TableTypes
<1>2. PICK set : set = ToSet(list)
  OBVIOUS
<1>3. set \in SUBSET Ids
  BY <1>2
<1>4. PICK new : new = [pos |-> last, src |-> t.cells[c].src, seqs |-> set]
  OBVIOUS
<1>5. t.cells[c] \in Cell
  BY <1>1
<1>6. t.cells[c].src \in Ids \cup {None}
  BY <1>5 DEF Cell
<1>7. new \in Cell
  BY <1>3, <1>4, <1>6 DEF Cell
<1>8. PICK cells : cells = [t.cells EXCEPT ![c] = new]
  OBVIOUS
<1>9. PICK tail : tail = [s \in Ids |-> IF s \in set THEN c ELSE t.tail[s]]
  OBVIOUS
<1>10. r = [cells |-> cells, tail |-> tail, head |-> t.head, used |-> t.used]
  BY <1>2, <1>4, <1>8, <1>9 DEF Occupy
<1>11. cells \in [Ids -> Cell] /\ tail \in [Ids -> Ids \cup {None}]
  BY <1>1, <1>7, <1>8, <1>9
<1>12. r \in Table
  BY <1>1, <1>10, <1>11 DEF Table
<1>13. r.cells = cells /\ r.tail = tail
  BY <1>10
<1>14. cells[c] = new /\ \A x \in Ids : x # c => cells[x] = t.cells[x]
  BY <1>1, <1>8
<1>15. new.pos = last /\ new.seqs = set /\ new.src = t.cells[c].src
  BY <1>4
<1> QED BY <1>2, <1>9, <1>12, <1>13, <1>14, <1>15 DEF Occupies

LEMMA EnterStep ==
  ASSUME use \in Uses, NEW g, NEW u, IsUbatch(u), NEW lo \in Ids, NEW lastPos, NEW k \in Nat,
         k < Len(u), lo + Len(u) - 1 \in Ids, lastPos[k + 1] \in 0..(Forever - 1),
         NEW t, Entered(g, u, lo, lastPos, k, t),
         NEW r, r = Occupy(t, lo + k, u[k + 1], lastPos[k + 1])
  PROVE  Entered(g, u, lo, lastPos, k + 1, r)
<1>1. PICK list : list = u[k + 1]
  OBVIOUS
<1>2. PICK c : c = lo + k
  OBVIOUS
<1>3. PICK last : last = lastPos[k + 1]
  OBVIOUS
<1>4. Len(u) \in Nat /\ k + 1 \in 1..Len(u)
  BY OwnersApart
<1>5. ToSet(list) \subseteq Ids
  BY <1>1, <1>4, ListSets
<1>6. c \in Ids /\ last \in -1..Forever
  <2>1. lo \in 0..(Size - 1) /\ lo + Len(u) - 1 \in 0..(Size - 1) /\ Size \in Nat
    BY IdsFacts DEF Ids
  <2>2. c \in 0..(Size - 1)
    BY <1>2, <1>4, <2>1
  <2>3. Forever \in Nat
    BY IdsFacts
  <2>4. last \in -1..Forever
    BY <1>3, <2>3
  <2> QED BY <2>2, <2>4 DEF Ids
<1>7. t \in Table
  BY DEF Entered
<1>8. PICK set : set = ToSet(list)
  OBVIOUS
<1>9. Occupies(t, c, set, last, r)
  <2>1. r = Occupy(t, c, list, last)
    BY <1>1, <1>2, <1>3
  <2> QED BY <1>5, <1>6, <1>7, <1>8, <2>1, OccupyFacts
<1>10. \A j : j \in 1..(k + 1) <=> j \in 1..k \/ j = k + 1
  OBVIOUS
<1>11. \A j \in 1..k : j \in 1..Len(u) /\ j # k + 1
  BY <1>4
<1>12. lo + (k + 1) - 1 = c
  BY <1>2, IdsFacts
<1>13. ASSUME NEW j \in 1..k PROVE lo + j - 1 # c /\ lo + j - 1 \in Ids
  <2>1. lo \in 0..(Size - 1) /\ lo + Len(u) - 1 \in 0..(Size - 1) /\ Size \in Nat
    BY IdsFacts DEF Ids
  <2>2. lo + j - 1 # c /\ lo + j - 1 \in 0..(Size - 1)
    BY <1>2, <1>4, <2>1
  <2> QED BY <2>2 DEF Ids
<1>14. ASSUME NEW j \in 1..(k + 1), NEW s \in ToSet(u[j]) PROVE r.tail[s] = lo + j - 1
  <2>1. CASE j = k + 1
    <3>1. s \in set /\ s \in Ids
      BY <1>1, <1>5, <1>8, <2>1
    <3> QED BY <1>9, <1>12, <2>1, <3>1 DEF Occupies
  <2>2. CASE j \in 1..k
    <3>1. j \in 1..Len(u) /\ j # k + 1
      BY <1>11, <2>2
    <3>2. s \in Ids
      BY <3>1, ListSets
    <3>3. s \notin set
      BY <1>1, <1>4, <1>8, <3>1, ListSets
    <3>4. t.tail[s] = lo + j - 1
      BY <2>2 DEF Entered
    <3> QED BY <1>9, <3>2, <3>3, <3>4 DEF Occupies
  <2> QED BY <1>10, <2>1, <2>2
<1>15. ASSUME NEW s \in Ids, \A j \in 1..(k + 1) : s \notin ToSet(u[j])
       PROVE  r.tail[s] = g.tail[s]
  <2>1. s \notin set /\ \A j \in 1..k : s \notin ToSet(u[j])
    BY <1>1, <1>8, <1>10, <1>15
  <2>2. t.tail[s] = g.tail[s]
    BY <2>1 DEF Entered
  <2> QED BY <1>9, <2>1, <2>2 DEF Occupies
<1>16. ASSUME NEW j \in 1..(k + 1)
       PROVE  r.cells[lo + j - 1].pos = lastPos[j] /\ r.cells[lo + j - 1].seqs = ToSet(u[j])
  <2>1. CASE j = k + 1
    BY <1>1, <1>3, <1>8, <1>9, <1>12, <2>1 DEF Occupies
  <2>2. CASE j \in 1..k
    <3>1. r.cells[lo + j - 1] = t.cells[lo + j - 1]
      BY <1>9, <1>13, <2>2 DEF Occupies
    <3> QED BY <2>2, <3>1 DEF Entered
  <2> QED BY <1>10, <2>1, <2>2
<1>17. ASSUME NEW x \in Ids, \A j \in 1..(k + 1) : x # lo + j - 1
       PROVE  r.cells[x] = g.cells[x]
  <2>1. k + 1 \in 1..(k + 1)
    OBVIOUS
  <2>2. x # c /\ \A j \in 1..k : x # lo + j - 1
    BY <1>10, <1>12, <1>17, <2>1
  <2>3. t.cells[x] = g.cells[x]
    BY <2>2 DEF Entered
  <2> QED BY <1>9, <2>2, <2>3 DEF Occupies
<1>18. ASSUME NEW x \in Ids PROVE r.cells[x].src = g.cells[x].src
  <2>1. t.cells[x].src = g.cells[x].src
    BY DEF Entered
  <2> QED BY <1>9, <2>1 DEF Occupies
<1>19. r \in Table
  BY <1>9 DEF Occupies
<1> QED BY <1>14, <1>15, <1>16, <1>17, <1>18, <1>19 DEF Entered

LEMMA EnterAll ==
  ASSUME use \in Uses, NEW g \in Table, NEW u, IsUbatch(u), NEW lo \in Ids, NEW lastPos,
         lo + Len(u) - 1 \in Ids, \A k \in 1..Len(u) : lastPos[k] \in 0..(Forever - 1)
  PROVE  Entered(g, u, lo, lastPos, Len(u), Updated(g, u, lo, lastPos))
<1>1. PICK n : n = Len(u)
  OBVIOUS
<1>2. n \in Nat \ {0}
  BY <1>1, OwnersApart
<1>3. PICK f : /\ f[0] = g /\ Updated(g, u, lo, lastPos) = f[n]
               /\ \A k \in 1..n : f[k] = Occupy(f[k - 1], lo + k - 1, u[k], lastPos[k])
  BY <1>1, <1>2, UpdateLoop
<1> DEFINE T == {k \in Nat : Entered(g, u, lo, lastPos, k, f[k])}
<1>4. 0 \in T
  <2>1. Entered(g, u, lo, lastPos, 0, g)
    BY DEF Entered
  <2> QED BY <1>3, <2>1
<1>5. ASSUME NEW k \in T, k < n PROVE k + 1 \in T
  <2>1. k \in Nat /\ k + 1 \in 1..n /\ (k + 1) - 1 = k /\ lo + (k + 1) - 1 = lo + k
    BY <1>2, <1>5, IdsFacts
  <2>2. Entered(g, u, lo, lastPos, k, f[k])
    OBVIOUS
  <2>3. f[k + 1] = Occupy(f[k], lo + k, u[k + 1], lastPos[k + 1])
    BY <1>3, <2>1
  <2>4. Entered(g, u, lo, lastPos, k + 1, f[k + 1])
    BY <1>1, <1>5, <2>1, <2>2, <2>3, EnterStep
  <2> QED BY <2>1, <2>4
<1>6. n \in T
  <2>1. T \in SUBSET Nat
    OBVIOUS
  <2> HIDE DEF T
  <2> QED BY <1>2, <1>4, <1>5, <2>1, CountingTo
<1> QED BY <1>1, <1>3, <1>6

(* All sequences have entered: tails and cells agree again.                   *)
InNone(u, s) == \A j \in 1..Len(u) : s \notin ToSet(u[j])

Settled(b, d, w, p, u, lo, hi, lastPos, r) ==
  /\ r \in Table /\ Agree(r)
  /\ \A s \in Ids : InNone(u, s) => (r.tail[s] = None <=> b.tail[s] = None)
  /\ \A s \in Ids : InNone(u, s) /\ r.tail[s] # None =>
       /\ Reads(r.cells[r.tail[s]], d) = w[s]
       /\ r.cells[r.tail[s]].pos = p[s] /\ p[s] \in 0..(Forever - 1)
  /\ \A j \in 1..Len(u) : \A s \in ToSet(u[j]) : r.tail[s] = lo + j - 1
  /\ \A j \in 1..Len(u) :
       /\ r.cells[lo + j - 1].pos = lastPos[j] /\ r.cells[lo + j - 1].seqs = ToSet(u[j])
       /\ Reads(r.cells[lo + j - 1], d) = w[Owner(u, j)]
  /\ \A c \in Ids : c \in Open(r) => r.cells[c].pos = -1 /\ Reads(r.cells[c], d) = << >>
  /\ \A c \in Ids : c < lo \/ c > hi =>
                      r.cells[c].src = c \/ (r.cells[c].src = None /\ c \in Open(r))

LEMMA SettledAll ==
  ASSUME use \in Uses, NEW b, NEW d, NEW w, NEW p, NEW u, IsUbatch(u),
         NEW lo \in Ids, NEW hi \in Ids,
         Len(u) <= hi - lo + 1, NEW lastPos, NEW g, Gathering(b, d, w, p, u, lo, hi, Len(u), g),
         \A s \in Followers(u) : b.tail[s] = None,
         NEW r, Entered(g, u, lo, lastPos, Len(u), r)
  PROVE  Settled(b, d, w, p, u, lo, hi, lastPos, r)
<1>1. PICK n : n = Len(u)
  OBVIOUS
<1>2. PICK P : P = Promised(b, u, n)
  OBVIOUS
<1>3. Lodged(b, u, g) /\ Carried(P, d, w, p, g) /\ Inside(u, lo, hi, g) /\ InRow(u, lo, n, g)
  BY <1>1, <1>2 DEF Gathering
<1>4. n \in Nat /\ lo \in Nat /\ hi \in Nat /\ None \notin Ids
  BY <1>1, OwnersApart, IdsFacts
<1>5. \A j \in 1..n : Owner(u, j) \in Ids /\ Owner(u, j) \notin Followers(u)
  BY <1>1, OwnersApart
<1>6. \A j \in 1..n : ToSet(u[j]) \subseteq Ids /\ Owner(u, j) \in ToSet(u[j])
  BY <1>1, ListSets
<1>7. \A i, j \in 1..n : \A s : s \in ToSet(u[i]) /\ s \in ToSet(u[j]) => i = j
  BY <1>1, ListSets
<1>8. \A j \in 1..n : \A s \in ToSet(u[j]) : s # Owner(u, j) => s \in Followers(u)
  BY <1>1, ListSets
<1>9. r \in Table
  BY DEF Entered
<1>10. \A j \in 1..n : \A s \in ToSet(u[j]) : r.tail[s] = lo + j - 1
  BY <1>1 DEF Entered
<1>11. \A s \in Ids : InNone(u, s) => r.tail[s] = g.tail[s]
  BY <1>1 DEF Entered, InNone
<1>12. \A j \in 1..n : /\ r.cells[lo + j - 1].pos = lastPos[j]
                       /\ r.cells[lo + j - 1].seqs = ToSet(u[j])
  BY <1>1 DEF Entered
<1>13. \A c \in Ids : (\A j \in 1..n : c # lo + j - 1) => r.cells[c] = g.cells[c]
  BY <1>1 DEF Entered
<1>14. \A c \in Ids : r.cells[c].src = g.cells[c].src
  BY DEF Entered
<1>15. \A j \in 1..n : g.tail[Owner(u, j)] = lo + j - 1
  BY <1>3 DEF InRow
<1>16. \A j \in 1..n : /\ g.tail[Owner(u, j)] \in Ids
                       /\ \A s \in Ids : g.tail[s] = g.tail[Owner(u, j)] => s = Owner(u, j)
  BY <1>1, <1>3 DEF Lodged
<1>17. \A s, c \in Ids : (s \in g.cells[c].seqs) <=> (g.tail[s] = c /\ s \notin P)
  BY <1>1, <1>2, <1>3 DEF Lodged
<1>18. \A s \in Ids : (\A j \in 1..n : s # Owner(u, j)) => (g.tail[s] = None <=> b.tail[s] = None)
  BY <1>1, <1>3 DEF Lodged
<1>19. ASSUME NEW j \in 1..n, NEW s \in ToSet(u[j]), NEW c \in Ids, c # lo + j - 1
       PROVE  g.tail[s] # c
  <2>1. CASE s = Owner(u, j)
    BY <1>15, <1>19, <2>1
  <2>2. CASE s # Owner(u, j)
    <3>1. s \in Followers(u) /\ s \in Ids
      BY <1>6, <1>8, <2>2
    <3>2. g.tail[s] = None
      BY <1>5, <1>18, <3>1
    <3> QED BY <1>4, <3>2
  <2> QED BY <2>1, <2>2
<1>20. ASSUME NEW s \in Ids, InNone(u, s)
       PROVE  s \notin P /\ (\A j \in 1..n : s # Owner(u, j))
              /\ (\A j \in 1..n : g.tail[s] # lo + j - 1)
  <2>1. \A j \in 1..n : s # Owner(u, j)
    BY <1>1, <1>6, <1>20 DEF InNone
  <2>2. s \notin P
    BY <1>2, <2>1 DEF Promised
  <2> QED BY <1>15, <1>16, <2>1, <2>2
<1>21. Agree(r)
  <2> SUFFICES ASSUME NEW s \in Ids, NEW c \in Ids
               PROVE  (s \in r.cells[c].seqs) <=> (r.tail[s] = c)
    BY DEF Agree
  <2>1. CASE \E i \in 1..n : c = lo + i - 1
    <3>1. PICK i \in 1..n : c = lo + i - 1
      BY <2>1
    <3>2. r.cells[c].seqs = ToSet(u[i])
      BY <1>12, <3>1
    <3>3. CASE InNone(u, s)
      BY <1>1, <1>11, <1>20, <3>1, <3>2, <3>3 DEF InNone
    <3>4. CASE ~InNone(u, s)
      <4>1. PICK j \in 1..n : s \in ToSet(u[j])
        BY <1>1, <3>4 DEF InNone
      <4>2. r.tail[s] = lo + j - 1
        BY <1>10, <4>1
      <4>3. r.tail[s] = c <=> i = j
        BY <1>4, <3>1, <4>2
      <4> QED BY <1>7, <3>2, <4>1, <4>3
    <3> QED BY <3>3, <3>4
  <2>2. CASE \A i \in 1..n : c # lo + i - 1
    <3>1. r.cells[c] = g.cells[c]
      BY <1>13, <2>2
    <3>2. CASE InNone(u, s)
      BY <1>11, <1>17, <1>20, <3>1, <3>2
    <3>3. CASE ~InNone(u, s)
      <4>1. PICK j \in 1..n : s \in ToSet(u[j])
        BY <1>1, <3>3 DEF InNone
      <4>2. r.tail[s] = lo + j - 1 /\ c # lo + j - 1
        BY <1>10, <2>2, <4>1
      <4>3. g.tail[s] # c
        BY <1>19, <4>1, <4>2
      <4> QED BY <1>17, <3>1, <4>2, <4>3
    <3> QED BY <3>2, <3>3
  <2> QED BY <2>1, <2>2
<1>22. \A s \in Ids : InNone(u, s) => (r.tail[s] = None <=> b.tail[s] = None)
  BY <1>11, <1>18, <1>20
<1>23. ASSUME NEW s \in Ids, InNone(u, s), r.tail[s] # None
       PROVE  /\ Reads(r.cells[r.tail[s]], d) = w[s]
              /\ r.cells[r.tail[s]].pos = p[s] /\ p[s] \in 0..(Forever - 1)
  <2>1. r.tail[s] = g.tail[s] /\ r.tail[s] \in Ids
    BY <1>9, <1>11, <1>23, TableTypes
  <2>2. r.cells[r.tail[s]] = g.cells[g.tail[s]]
    BY <1>13, <1>20, <1>23, <2>1
  <2> QED BY <1>3, <1>20, <1>23, <2>1, <2>2 DEF Carried
<1>24. ASSUME NEW j \in 1..n PROVE Reads(r.cells[lo + j - 1], d) = w[Owner(u, j)]
  <2>1. lo + j - 1 = g.tail[Owner(u, j)] /\ lo + j - 1 \in Ids /\ Owner(u, j) \in Ids
    BY <1>5, <1>15, <1>16
  <2>2. Reads(g.cells[lo + j - 1], d) = w[Owner(u, j)]
    BY <1>3, <1>4, <2>1 DEF Carried
  <2>3. r.cells[lo + j - 1].src = g.cells[lo + j - 1].src
    BY <1>14, <2>1
  <2> QED BY <2>2, <2>3 DEF Reads
<1>25. ASSUME NEW c \in Ids, c \in Open(r)
       PROVE  r.cells[c].pos = -1 /\ Reads(r.cells[c], d) = << >>
  <2>1. ASSUME NEW j \in 1..n PROVE c # lo + j - 1
    <3>1. r.tail[Owner(u, j)] = lo + j - 1 /\ Owner(u, j) \in Ids
      BY <1>5, <1>6, <1>10
    <3> QED BY <1>25, <3>1 DEF Open
  <2>2. ASSUME NEW s \in Ids PROVE g.tail[s] # c
    <3>1. CASE InNone(u, s)
      BY <1>11, <1>25, <3>1 DEF Open
    <3>2. CASE ~InNone(u, s)
      <4>1. PICK j \in 1..n : s \in ToSet(u[j])
        BY <1>1, <3>2 DEF InNone
      <4> QED BY <1>19, <2>1, <4>1
    <3> QED BY <3>1, <3>2
  <2>3. c \in Open(g)
    BY <2>2 DEF Open
  <2>4. r.cells[c] = g.cells[c]
    BY <1>13, <2>1
  <2> QED BY <1>3, <2>3, <2>4 DEF Carried
<1>26. ASSUME NEW c \in Ids, c < lo \/ c > hi
       PROVE  r.cells[c].src = c \/ (r.cells[c].src = None /\ c \in Open(r))
  <2>1. g.cells[c].src = c \/ (g.cells[c].src = None /\ c \in Open(g))
    BY <1>3, <1>26 DEF Inside
  <2>2. ASSUME c \in Open(g) PROVE c \in Open(r)
    <3>1. ASSUME NEW s \in Ids PROVE r.tail[s] # c
      <4>1. CASE InNone(u, s)
        BY <1>11, <2>2, <4>1 DEF Open
      <4>2. CASE ~InNone(u, s)
        <5>1. PICK j \in 1..n : s \in ToSet(u[j])
          BY <1>1, <4>2 DEF InNone
        <5>2. r.tail[s] = lo + j - 1
          BY <1>10, <5>1
        <5>3. c \in Nat
          BY IdsFacts
        <5>4. lo + j - 1 # c
          BY <1>1, <1>4, <1>26, <5>3
        <5> QED BY <5>2, <5>4
      <4> QED BY <4>1, <4>2
    <3> QED BY <3>1 DEF Open
  <2> QED BY <1>14, <2>1, <2>2
<1> QED BY <1>1, <1>9, <1>10, <1>12, <1>21, <1>22, <1>23, <1>24, <1>25, <1>26 DEF Settled

-----------------------------------------------------------------------------
(***************************************************************************)
(* The rows of the run are gathered.  If a cell of the run has no source,  *)
(* some row of the run is read by nobody: that one can be cleared.         *)
(***************************************************************************)
Staged(cells, lo, hi, z, src0) ==
  /\ \A c \in lo..hi : src0[c] = IF cells[c].src = None THEN z ELSE cells[c].src
  /\ \A c \in lo..hi : src0[c] # None
  /\ z # None => z \in lo..hi /\ \A c \in Ids : cells[c].src # z

LEMMA Staging ==
  ASSUME use \in Uses, NEW r \in Table, NEW lo \in Ids, NEW hi \in Ids,
         \A c \in Ids : c < lo \/ c > hi => r.cells[c].src \in {c, None},
         NEW st, st = StagedSources(r.cells, lo, hi)
  PROVE  Staged(r.cells, lo, hi, st.zero, st.src0)
<1>1. PICK cells : cells = r.cells
  OBVIOUS
<1>2. PICK free : free = {c \in lo..hi : \A x \in Ids : cells[x].src # c}
  OBVIOUS
<1>3. PICK z : z = IF free = {} THEN None ELSE Min(free)
  OBVIOUS
<1>4. st = [zero |-> z, src0 |-> [c \in lo..hi |-> IF cells[c].src = None THEN z ELSE cells[c].src]]
  BY <1>1, <1>2, <1>3 DEF StagedSources
<1>5. st.zero = z /\ \A c \in lo..hi : st.src0[c] = IF cells[c].src = None THEN z ELSE cells[c].src
  BY <1>4
<1>6. \A c : c \in lo..hi <=> c \in Ids /\ ~(c < lo \/ c > hi)
  <2>1. lo \in 0..(Size - 1) /\ hi \in 0..(Size - 1) /\ Size \in Nat
    BY IdsFacts DEF Ids
  <2> QED BY <2>1 DEF Ids
<1>7. free \in SUBSET Ids
  BY <1>2, <1>6
<1>8. None \notin Ids
  BY IdsFacts
<1>9. CASE free # {}
  <2>1. z \in free /\ z \in Ids
    BY <1>3, <1>7, <1>9, LeastId
  <2>2. z \in lo..hi /\ \A c \in Ids : cells[c].src # z
    BY <1>2, <2>1
  <2> QED BY <1>1, <1>5, <1>8, <2>1, <2>2 DEF Staged
<1>10. CASE free = {}
  <2>1. ASSUME NEW x \in lo..hi PROVE \E c \in lo..hi : cells[c].src = x
    <3>1. PICK c \in Ids : cells[c].src = x
      BY <1>2, <1>10
    <3>2. x \in Ids
      BY <1>6
    <3>3. CASE c \in lo..hi
      BY <3>1, <3>3
    <3>4. CASE c \notin lo..hi
      <4>1. cells[c].src = c \/ cells[c].src = None
        BY <1>1, <1>6, <3>4
      <4> QED BY <1>8, <3>1, <3>2, <3>4, <4>1
    <3> QED BY <3>3, <3>4
  <2>2. PICK S : S = lo..hi
    OBVIOUS
  <2>3. IsFiniteSet(S)
    <3>1. S \in SUBSET Ids
      BY <1>6, <2>2
    <3> QED BY <3>1, IdsFacts
  <2>4. PICK f : f = [x \in S |-> CHOOSE c \in S : cells[c].src = x]
    OBVIOUS
  <2>5. ASSUME NEW x \in S PROVE f[x] \in S /\ cells[f[x]].src = x
    BY <2>1, <2>2, <2>4
  <2>6. f \in [S -> S]
    BY <2>4, <2>5
  <2>7. f \in Injection(S, S)
    BY <2>5, <2>6 DEF Injection, IsInjective
  <2>8. f \in Surjection(S, S)
    BY <2>3, <2>7, FS_Injection
  <2>9. ASSUME NEW c \in S PROVE cells[c].src # None
    <3>1. PICK x \in S : f[x] = c
      BY <2>8 DEF Surjection
    <3>2. cells[c].src = x /\ x \in Ids
      BY <1>6, <2>2, <2>5, <3>1
    <3> QED BY <1>8, <3>2
  <2>10. z = None
    BY <1>3, <1>10
  <2> QED BY <1>1, <1>5, <2>2, <2>9, <2>10 DEF Staged
<1> QED BY <1>9, <1>10

(* Rows outside of the run stay; a row of the run is what its cell reads.     *)
Computed(cells, d, u, lo, hi, R) ==
  /\ R \in [Ids -> Seq(Ids)]
  /\ \A c \in Ids : c < lo \/ c > hi => R[c] = d[c]
  /\ \A j \in 1..Len(u) :
       R[lo + j - 1] = Append(Reads(cells[lo + j - 1], d), Owner(u, j))
  /\ \A c \in Ids : c > lo + Len(u) - 1 /\ c <= hi => R[c] = Reads(cells[c], d)

LEMMA RowsFacts ==
  ASSUME use \in Uses, NEW r \in Table, NEW d \in [Ids -> Seq(Ids)], NEW u, IsUbatch(u),
         NEW lo \in Ids, NEW hi \in Ids, Len(u) <= hi - lo + 1,
         NEW slot, slot.lo = lo, slot.hi = hi, Staged(r.cells, lo, hi, slot.zero, slot.src0),
         NEW R, R = RowsAfter(d, slot, u)
  PROVE  Computed(r.cells, d, u, lo, hi, R)
<1>1. PICK cells : cells = r.cells
  OBVIOUS
<1>2. PICK z : z = slot.zero
  OBVIOUS
<1>3. PICK src0 : src0 = slot.src0
  OBVIOUS
<1>4. PICK cleared : cleared = IF z = None THEN d ELSE [d EXCEPT ![z] = << >>]
  OBVIOUS
<1>5. /\ \A c \in lo..hi : src0[c] = IF cells[c].src = None THEN z ELSE cells[c].src
      /\ \A c \in lo..hi : src0[c] # None
      /\ z # None => z \in lo..hi /\ \A c \in Ids : cells[c].src # z
  BY <1>1, <1>2, <1>3 DEF Staged
<1>6. \A c : c \in lo..hi <=> c \in Ids /\ ~(c < lo \/ c > hi)
  <2>1. lo \in 0..(Size - 1) /\ hi \in 0..(Size - 1) /\ Size \in Nat
    BY IdsFacts DEF Ids
  <2> QED BY <2>1 DEF Ids
<1>7. R = [c \in Ids |->
             IF c \notin lo..hi THEN cleared[c]
             ELSE IF c - lo < Len(u) THEN Append(cleared[src0[c]], Owner(u, c - lo + 1))
                  ELSE cleared[src0[c]]]
  BY <1>2, <1>3, <1>4 DEF RowsAfter
<1>8. ASSUME NEW c \in lo..hi
      PROVE  cleared[src0[c]] = Reads(cells[c], d) /\ Reads(cells[c], d) \in Seq(Ids)
  <2>1. c \in Ids /\ cells[c].src \in Ids \cup {None}
    <3>1. c \in Ids
      BY <1>6
    <3>2. cells[c] \in Cell
      BY <1>1, <3>1, TableTypes
    <3> QED BY <3>1, <3>2 DEF Cell
  <2>2. CASE cells[c].src = None
    <3>1. src0[c] = z /\ z # None
      BY <1>5, <2>2
    <3>2. z \in Ids
      BY <1>5, <1>6, <3>1
    <3>3. cleared[z] = << >>
      BY <1>4, <3>1, <3>2
    <3>4. Reads(cells[c], d) = << >>
      BY <2>2 DEF Reads
    <3> QED BY <3>1, <3>3, <3>4
  <2>3. CASE cells[c].src # None
    <3>1. src0[c] = cells[c].src /\ cells[c].src \in Ids
      BY <1>5, <2>1, <2>3
    <3>2. z # None => cells[c].src # z
      BY <1>5, <2>1
    <3>3. cleared[cells[c].src] = d[cells[c].src]
      BY <1>4, <3>1, <3>2
    <3>4. Reads(cells[c], d) = d[cells[c].src]
      BY <2>3 DEF Reads
    <3> QED BY <3>1, <3>3, <3>4
  <2> QED BY <2>2, <2>3
<1>9. ASSUME NEW c \in Ids, c \notin lo..hi PROVE R[c] = d[c]
  <2>1. R[c] = cleared[c]
    BY <1>7, <1>9
  <2>2. z # None => z # c
    BY <1>5, <1>9
  <2> QED BY <1>4, <2>1, <2>2
<1>10. Len(u) \in Nat /\ lo \in Nat /\ hi \in Nat /\ \A c \in Ids : c \in Nat
  BY OwnersApart, IdsFacts
<1>11. ASSUME NEW c \in lo..hi, c - lo < Len(u)
       PROVE  /\ R[c] = Append(Reads(cells[c], d), Owner(u, c - lo + 1))
              /\ R[c] \in Seq(Ids)
  <2>1. c \in Ids /\ c \in Nat /\ lo <= c
    BY <1>6, <1>10
  <2>2. R[c] = Append(cleared[src0[c]], Owner(u, c - lo + 1))
    BY <1>7, <1>11, <2>1
  <2>3. c - lo + 1 \in 1..Len(u)
    BY <1>10, <1>11, <2>1
  <2>4. Owner(u, c - lo + 1) \in Ids
    BY <2>3, OwnersApart
  <2> QED BY SMTT(60), <1>8, <2>2, <2>4
<1>12. ASSUME NEW c \in lo..hi, ~(c - lo < Len(u))
       PROVE  R[c] = Reads(cells[c], d) /\ R[c] \in Seq(Ids)
  <2>1. c \in Ids
    BY <1>6
  <2>2. R[c] = cleared[src0[c]]
    BY <1>7, <1>12, <2>1
  <2> QED BY <1>8, <2>2
<1>13. \A c \in Ids : R[c] \in Seq(Ids)
  BY <1>9, <1>11, <1>12
<1>14. R \in [Ids -> Seq(Ids)]
  BY <1>7, <1>13
<1>15. ASSUME NEW j \in 1..Len(u)
       PROVE  R[lo + j - 1] = Append(Reads(cells[lo + j - 1], d), Owner(u, j))
  <2>1. lo + j - 1 \in lo..hi /\ (lo + j - 1) - lo < Len(u) /\ (lo + j - 1) - lo + 1 = j
    BY <1>10
  <2> QED BY <1>11, <2>1
<1>16. ASSUME NEW c \in Ids, c > lo + Len(u) - 1, c <= hi PROVE R[c] = Reads(cells[c], d)
  <2>1. c \in lo..hi /\ ~(c - lo < Len(u))
    BY <1>10, <1>16
  <2> QED BY <1>12, <2>1
<1>17. ASSUME NEW c \in Ids, c < lo \/ c > hi PROVE R[c] = d[c]
  BY <1>6, <1>9, <1>17
<1> QED BY <1>1, <1>14, <1>15, <1>16, <1>17 DEF Computed

(* What a ubatch leaves behind: its sequences have the new token at the new   *)
(* position, all others what they had.                                        *)
Placed(t, d, w, p, u, lastPos, new, lo, hi, R) ==
  /\ Good(new, R) /\ Counted(new) /\ lo \in Ids /\ R \in [Ids -> Seq(Ids)]
  /\ \A c \in Ids : c < lo \/ c > hi => R[c] = d[c]
  /\ \A s \in Ids : InNone(u, s) => (new.tail[s] = None <=> t.tail[s] = None)
  /\ \A s \in Ids : InNone(u, s) /\ new.tail[s] # None =>
       /\ R[new.tail[s]] = w[s] /\ new.cells[new.tail[s]].pos = p[s]
       /\ \A j \in 1..Len(u) : new.tail[s] # lo + j - 1
  /\ \A j \in 1..Len(u) : \A s \in ToSet(u[j]) :
       /\ new.tail[s] = lo + j - 1 /\ new.cells[new.tail[s]].pos = lastPos[j]
       /\ R[new.tail[s]] = Append(w[Owner(u, j)], Owner(u, j))
  /\ Len(u) = 1 => lo = hi

LEMMA FinalTable ==
  ASSUME use \in Uses, NEW b, NEW d \in [Ids -> Seq(Ids)], NEW w, NEW p, NEW u, IsUbatch(u),
         NEW lo \in Ids, NEW hi \in Ids, Len(u) <= hi - lo + 1, Len(u) = 1 => lo = hi, NEW lastPos,
         \A k \in 1..Len(u) : lastPos[k] \in 0..(Forever - 1),
         NEW r, Settled(b, d, w, p, u, lo, hi, lastPos, r),
         NEW R, Computed(r.cells, d, u, lo, hi, R),
         NEW cells, cells = [c \in Ids |-> IF c \in lo..hi THEN [r.cells[c] EXCEPT !.src = c]
                                           ELSE r.cells[c]],
         NEW new, new = [cells |-> cells, tail |-> r.tail, head |-> lo,
                         used |-> Cardinality(Occupied(cells))]
  PROVE  Placed(b, d, w, p, u, lastPos, new, lo, hi, R)
<1>1. r \in Table /\ Agree(r)
  BY DEF Settled
<1>2. r.cells \in [Ids -> Cell] /\ r.tail \in [Ids -> Ids \cup {None}]
  BY <1>1, TableTypes
<1>3. new.cells = cells /\ new.tail = r.tail /\ new.used = Cardinality(Occupied(cells))
  OBVIOUS
<1>4. \A c : c \in lo..hi <=> c \in Ids /\ ~(c < lo \/ c > hi)
  <2>1. lo \in 0..(Size - 1) /\ hi \in 0..(Size - 1) /\ Size \in Nat
    BY IdsFacts DEF Ids
  <2> QED BY <2>1 DEF Ids
<1>5. ASSUME NEW c \in Ids
      PROVE  /\ cells[c] \in Cell /\ cells[c].pos = r.cells[c].pos
             /\ cells[c].seqs = r.cells[c].seqs
             /\ cells[c].src = IF c < lo \/ c > hi THEN r.cells[c].src ELSE c
  <2>1. r.cells[c] \in Cell
    BY <1>2
  <2>2. CASE c < lo \/ c > hi
    <3>1. cells[c] = r.cells[c]
      BY <1>4, <2>2
    <3> QED BY <2>1, <2>2, <3>1
  <2>3. CASE ~(c < lo \/ c > hi)
    <3>1. cells[c] = [r.cells[c] EXCEPT !.src = c]
      BY <1>4, <2>3
    <3>2. PICK x : x = r.cells[c]
      OBVIOUS
    <3>3. x \in Cell /\ cells[c] = [x EXCEPT !.src = c]
      BY <2>1, <3>1, <3>2
    <3>4. /\ cells[c] \in Cell /\ cells[c].pos = x.pos /\ cells[c].seqs = x.seqs
          /\ cells[c].src = c
      BY <3>3 DEF Cell
    <3> QED BY <2>3, <3>2, <3>4
  <2> QED BY <2>2, <2>3
<1>6. cells \in [Ids -> Cell]
  BY <1>5
<1>7. new \in Table
  <2>1. Cardinality(Occupied(cells)) \in Int
    <3>1. Occupied(cells) \in SUBSET Ids
      BY DEF Occupied
    <3>2. Cardinality(Occupied(cells)) \in Nat
      BY <3>1, IdsFacts
    <3> QED BY <3>2
  <2> QED BY <1>2, <1>6, <2>1 DEF Table
<1>8. Counted(new)
  BY <1>3 DEF Counted
<1>9. Agree(new)
  BY <1>1, <1>3, <1>5 DEF Agree
<1>10. PICK n : n = Len(u)
  OBVIOUS
<1>11. /\ n \in Nat /\ lo \in Nat /\ hi \in Nat /\ (\A c \in Ids : c \in Nat) /\ None \notin Ids
  BY <1>10, OwnersApart, IdsFacts
<1>12. /\ R \in [Ids -> Seq(Ids)]
       /\ \A c \in Ids : c < lo \/ c > hi => R[c] = d[c]
       /\ \A j \in 1..n : R[lo + j - 1] = Append(Reads(r.cells[lo + j - 1], d), Owner(u, j))
       /\ \A c \in Ids : c > lo + n - 1 /\ c <= hi => R[c] = Reads(r.cells[c], d)
  BY <1>10 DEF Computed
<1>13. \A j \in 1..n : \A s \in ToSet(u[j]) : r.tail[s] = lo + j - 1
  BY <1>10 DEF Settled
<1>14. \A j \in 1..n : /\ r.cells[lo + j - 1].pos = lastPos[j]
                       /\ r.cells[lo + j - 1].seqs = ToSet(u[j])
                       /\ Reads(r.cells[lo + j - 1], d) = w[Owner(u, j)]
  BY <1>10 DEF Settled
<1>15. \A j \in 1..n : ToSet(u[j]) \subseteq Ids /\ Owner(u, j) \in ToSet(u[j])
  BY <1>10, ListSets
<1>16. ASSUME NEW c \in Ids, \A j \in 1..n : c # lo + j - 1
       PROVE  c < lo \/ c > hi \/ (c > lo + n - 1 /\ c <= hi)
  <2> SUFFICES ASSUME c >= lo, c <= lo + n - 1 PROVE FALSE
    BY <1>11
  <2>1. c \in Nat
    BY <1>11
  <2>2. c - lo + 1 \in 1..n /\ c = lo + (c - lo + 1) - 1
    BY <1>11, <2>1
  <2> QED BY <1>16, <2>2
<1>17. \A c \in Ids : c < lo \/ c > hi =>
                        r.cells[c].src = c \/ (r.cells[c].src = None /\ c \in Open(r))
  BY DEF Settled
<1>18. ASSUME NEW c \in Ids, \A j \in 1..n : c # lo + j - 1
       PROVE  cells[c].src = c => R[c] = Reads(r.cells[c], d)
  <2>1. CASE c < lo \/ c > hi
    <3>1. cells[c].src = r.cells[c].src /\ R[c] = d[c]
      BY <1>5, <1>12, <2>1
    <3> QED BY <1>11, <3>1 DEF Reads
  <2>2. CASE c > lo + n - 1 /\ c <= hi
    BY <1>12, <2>2
  <2> QED BY <1>16, <1>18, <2>1, <2>2
<1>19. ASSUME NEW s \in Ids, InNone(u, s), r.tail[s] # None
       PROVE  /\ r.tail[s] \in Ids /\ r.cells[r.tail[s]].seqs # {}
              /\ (\A j \in 1..n : r.tail[s] # lo + j - 1)
              /\ cells[r.tail[s]].src = r.tail[s]
              /\ R[r.tail[s]] = w[s]
              /\ cells[r.tail[s]].pos = p[s] /\ p[s] \in 0..(Forever - 1)
  <2>1. PICK c : c = r.tail[s]
    OBVIOUS
  <2>2. c \in Ids
    BY <1>2, <1>19, <2>1
  <2>3. s \in r.cells[c].seqs
    BY <1>1, <2>1, <2>2 DEF Agree
  <2>4. ASSUME NEW j \in 1..n PROVE c # lo + j - 1
    BY <1>10, <1>14, <1>19, <2>3 DEF InNone
  <2>5. c \notin Open(r)
    BY <2>1 DEF Open
  <2>6. cells[c].src = c
    BY <1>5, <1>17, <2>2, <2>5
  <2>7. /\ Reads(r.cells[c], d) = w[s] /\ r.cells[c].pos = p[s] /\ p[s] \in 0..(Forever - 1)
    BY <1>19, <2>1 DEF Settled
  <2>8. R[c] = w[s]
    BY <1>18, <2>2, <2>4, <2>6, <2>7
  <2>9. r.cells[c].seqs # {}
    BY <2>3
  <2>10. cells[c].pos = p[s]
    BY <1>5, <2>2, <2>7
  <2> QED BY <2>1, <2>2, <2>4, <2>6, <2>7, <2>8, <2>9, <2>10
<1>20. ASSUME NEW j \in 1..n, NEW s \in ToSet(u[j])
       PROVE  /\ s \in Ids /\ new.tail[s] = lo + j - 1 /\ new.cells[new.tail[s]].pos = lastPos[j]
              /\ R[new.tail[s]] = Append(w[Owner(u, j)], Owner(u, j))
              /\ lo + j - 1 \in Ids /\ cells[lo + j - 1].src = lo + j - 1
  <2>1. s \in Ids
    BY <1>15
  <2>2. new.tail[s] = lo + j - 1
    BY <1>3, <1>13
  <2>3. lo + j - 1 \in Ids /\ ~(lo + j - 1 < lo \/ lo + j - 1 > hi)
    <3>1. lo + j - 1 \in lo..hi
      BY <1>10, <1>11
    <3> QED BY <1>4, <3>1
  <2>4. cells[lo + j - 1].pos = lastPos[j] /\ cells[lo + j - 1].src = lo + j - 1
    BY <1>5, <1>14, <2>3
  <2>5. R[lo + j - 1] = Append(w[Owner(u, j)], Owner(u, j))
    BY <1>12, <1>14
  <2> QED BY <1>3, <2>1, <2>2, <2>3, <2>4, <2>5
<1>21. Entries(new, R)
  <2> SUFFICES ASSUME NEW c \in Ids
               PROVE  /\ cells[c].src \in {None, c}
                      /\ cells[c].seqs = {} =>
                           cells[c].pos = -1 /\ (cells[c].src = c => R[c] = << >>)
                      /\ cells[c].seqs # {} => cells[c].pos \in 0..(Forever - 1) /\ cells[c].src = c
    BY <1>3 DEF Entries
  <2>1. cells[c].src \in {None, c}
    BY <1>5, <1>17
  <2>2. r.cells[c].seqs \subseteq Ids
    BY <1>1, TableTypes
  <2>3. ASSUME cells[c].seqs = {}
        PROVE  cells[c].pos = -1 /\ (cells[c].src = c => R[c] = << >>)
    <3>1. r.cells[c].seqs = {}
      BY <1>5, <2>3
    <3>2. c \in Open(r)
      BY <1>1, <3>1 DEF Agree, Open
    <3>3. r.cells[c].pos = -1 /\ Reads(r.cells[c], d) = << >>
      BY <3>2 DEF Settled
    <3>4. ASSUME NEW j \in 1..n PROVE c # lo + j - 1
      <4>1. r.tail[Owner(u, j)] = lo + j - 1 /\ Owner(u, j) \in Ids
        BY <1>13, <1>15
      <4> QED BY <3>2, <4>1 DEF Open
    <3> QED BY <1>5, <1>18, <3>3, <3>4
  <2>4. ASSUME cells[c].seqs # {}
        PROVE  cells[c].pos \in 0..(Forever - 1) /\ cells[c].src = c
    <3>1. PICK s \in Ids : s \in r.cells[c].seqs
      BY <1>5, <2>2, <2>4
    <3>2. r.tail[s] = c /\ c # None
      BY <1>1, <1>11, <3>1 DEF Agree
    <3>3. CASE InNone(u, s)
      BY <1>19, <3>2, <3>3
    <3>4. CASE ~InNone(u, s)
      <4>1. PICK j \in 1..n : s \in ToSet(u[j])
        BY <1>10, <3>4 DEF InNone
      <4>2. new.tail[s] = lo + j - 1 /\ new.cells[new.tail[s]].pos = lastPos[j]
        BY <1>20, <4>1
      <4>3. cells[lo + j - 1].src = lo + j - 1
        BY <1>20, <4>1
      <4>4. lastPos[j] \in 0..(Forever - 1)
        BY <1>10
      <4> QED BY <1>3, <3>2, <4>2, <4>3, <4>4
    <3> QED BY <3>3, <3>4
  <2> QED BY <2>1, <2>3, <2>4
<1>22. Good(new, R)
  BY <1>7, <1>9, <1>21 DEF Good
<1>23. \A s \in Ids : InNone(u, s) => (new.tail[s] = None <=> b.tail[s] = None)
  BY <1>3 DEF Settled
<1>24. \A s \in Ids : InNone(u, s) /\ new.tail[s] # None =>
         /\ R[new.tail[s]] = w[s] /\ new.cells[new.tail[s]].pos = p[s]
         /\ \A j \in 1..n : new.tail[s] # lo + j - 1
  <2> SUFFICES ASSUME NEW s \in Ids, InNone(u, s), new.tail[s] # None
               PROVE  /\ R[new.tail[s]] = w[s] /\ new.cells[new.tail[s]].pos = p[s]
                      /\ \A j \in 1..n : new.tail[s] # lo + j - 1
    OBVIOUS
  <2>1. r.tail[s] # None
    BY <1>3
  <2> QED BY <1>3, <1>19, <2>1
<1>25. \A j \in 1..n : \A s \in ToSet(u[j]) :
         /\ new.tail[s] = lo + j - 1 /\ new.cells[new.tail[s]].pos = lastPos[j]
         /\ R[new.tail[s]] = Append(w[Owner(u, j)], Owner(u, j))
  BY <1>20
<1>26. \A c \in Ids : c < lo \/ c > hi => R[c] = d[c]
  BY <1>12
<1>27. R \in [Ids -> Seq(Ids)]
  BY <1>12
<1> HIDE DEF Good, Counted
<1> QED BY <1>8, <1>10, <1>22, <1>23, <1>24, <1>25, <1>26, <1>27, Zenon DEF Placed

(* Where the search starts has no influence on what is found.                 *)
LEMMA RewoundFacts ==
  ASSUME use \in Uses, NEW t, NEW d, Good(t, d), NEW u, NEW r, r = Rewound(t, u)
  PROVE  Good(r, d) /\ r.cells = t.cells /\ r.tail = t.tail
<1>1. t \in Table
  BY DEF Good
<1>2. CASE r = t
  BY <1>2
<1>3. CASE r = [t EXCEPT !.head = 0]
  <2>1. 0 \in Ids
    BY IdsFacts
  <2>2. r \in Table /\ r.cells = t.cells /\ r.tail = t.tail
    BY <1>1, <1>3, <2>1 DEF Table
  <2> QED BY <2>2 DEF Good, Agree, Entries
<1> QED BY <1>2, <1>3 DEF Rewound

(* The followers are taken out: the others are kept.                          *)
LEMMA UncoupledKeeps ==
  ASSUME use \in Uses, NEW t, NEW d, NEW w, NEW p, Good(t, d), Kept(t, d, w, p), NEW u, IsUbatch(u),
         NEW b, b = Uncoupled(Rewound(t, u), u)
  PROVE  /\ Good(b, d) /\ Kept(b, d, w, p)
         /\ \A s \in Ids : b.tail[s] = IF s \in Followers(u) THEN None ELSE t.tail[s]
<1>1. PICK r : r = Rewound(t, u)
  OBVIOUS
<1>2. Good(r, d) /\ r.cells = t.cells /\ r.tail = t.tail
  BY <1>1, RewoundFacts
<1>3. Stripped(r, d, Followers(u), b)
  BY <1>1, <1>2, StripAll
<1>4. \A s \in Ids : b.tail[s] = IF s \in Followers(u) THEN None ELSE t.tail[s]
  BY <1>2, <1>3 DEF Stripped
<1>5. ASSUME NEW s \in Ids, b.tail[s] # None
      PROVE  w[s] = d[b.tail[s]] /\ p[s] = b.cells[b.tail[s]].pos
  <2>1. b.tail[s] = t.tail[s]
    BY <1>4, <1>5
  <2>2. b.cells[b.tail[s]].pos = t.cells[t.tail[s]].pos
    BY <1>2, <1>3, <1>5 DEF Stripped
  <2> QED BY <1>5, <2>1, <2>2 DEF Kept
<1> QED BY <1>3, <1>4, <1>5 DEF Kept, Stripped

(* find_slot(): whatever the table, a ubatch finds its cells.                 *)
LEMMA FindSlotFacts ==
  ASSUME use \in Uses, NEW t, NEW d \in [Ids -> Seq(Ids)], NEW w, NEW p,
         Good(t, d), Kept(t, d, w, p),
         NEW u, IsUbatch(u),
         \A j \in 1..Len(u) : t.tail[Owner(u, j)] = None => w[Owner(u, j)] = << >>,
         NEW lastPos, \A k \in 1..Len(u) : lastPos[k] \in 0..(Forever - 1),
         NEW slot, slot = FindSlot(t, u, lastPos)
  PROVE  slot.ok /\ Placed(t, d, w, p, u, lastPos, slot.t, slot.lo, slot.hi, RowsAfter(d, slot, u))
<1>1. PICK b : b = Uncoupled(Rewound(t, u), u)
  OBVIOUS
<1>2. PICK got : got = Claimed(b, u)
  OBVIOUS
<1>3. PICK g : g = got.t
  OBVIOUS
<1>4. PICK tails : tails = {g.tail[Owner(u, k)] : k \in DOMAIN u}
  OBVIOUS
<1>5. PICK lo : lo = Min(tails)
  OBVIOUS
<1>6. PICK hi : hi = Max(tails)
  OBVIOUS
<1>7. PICK run : run = Gathered(g, u, lo)
  OBVIOUS
<1>8. PICK r : r = Updated(run, u, lo, lastPos)
  OBVIOUS
<1>9. PICK st : st = StagedSources(r.cells, lo, hi)
  OBVIOUS
<1>10. PICK cells : cells = [c \in Ids |-> IF c \in lo..hi THEN [r.cells[c] EXCEPT !.src = c]
                                           ELSE r.cells[c]]
  OBVIOUS
<1>11. PICK new : new = [cells |-> cells, tail |-> r.tail, head |-> lo,
                         used |-> Cardinality(Occupied(cells))]
  OBVIOUS
<1>12. /\ Good(b, d) /\ Kept(b, d, w, p)
       /\ \A s \in Ids : b.tail[s] = IF s \in Followers(u) THEN None ELSE t.tail[s]
  BY <1>1, UncoupledKeeps
<1>13. \A j \in 1..Len(u) : Owner(u, j) \in Ids /\ Owner(u, j) \notin Followers(u)
  BY OwnersApart
<1>14. \A j \in 1..Len(u) : b.tail[Owner(u, j)] = None => w[Owner(u, j)] = << >>
  BY <1>12, <1>13
<1>15. got.ok /\ Claiming(b, d, w, p, u, Len(u), g)
  BY <1>2, <1>3, <1>12, <1>14, ClaimAll
<1>16. Spans(u, g, lo, hi)
  <2>1. \A j \in 1..Len(u) : /\ g.tail[Owner(u, j)] \in Ids
                             /\ \A s \in Ids : g.tail[s] = g.tail[Owner(u, j)] => s = Owner(u, j)
    BY <1>15 DEF Claiming, Seated
  <2> QED BY <1>4, <1>5, <1>6, <2>1, RunFacts
<1>17. lo \in Ids /\ hi \in Ids /\ Len(u) <= hi - lo + 1 /\ (Len(u) = 1 => lo = hi)
  BY <1>16 DEF Spans
<1>18. Gathering(b, d, w, p, u, lo, hi, Len(u), run)
  BY <1>7, <1>15, <1>16, GatherAll
<1>19. run \in Table
  BY <1>18 DEF Gathering, Lodged
<1>20. lo + Len(u) - 1 \in Ids
  <2>1. lo \in 0..(Size - 1) /\ hi \in 0..(Size - 1) /\ Size \in Nat
    BY <1>17, IdsFacts DEF Ids
  <2>2. Len(u) \in Nat \ {0}
    BY OwnersApart
  <2> QED BY <1>17, <2>1, <2>2 DEF Ids
<1>21. Entered(run, u, lo, lastPos, Len(u), r)
  BY <1>8, <1>17, <1>19, <1>20, EnterAll
<1>22. Settled(b, d, w, p, u, lo, hi, lastPos, r)
  <2>1. \A s \in Followers(u) : b.tail[s] = None
    BY <1>12 DEF Followers
  <2> QED BY <1>17, <1>18, <1>21, <2>1, SettledAll
<1>23. Staged(r.cells, lo, hi, st.zero, st.src0)
  <2>1. \A c \in Ids : c < lo \/ c > hi => r.cells[c].src \in {c, None}
    BY <1>22 DEF Settled
  <2>2. r \in Table
    BY <1>22 DEF Settled
  <2> QED BY <1>9, <1>17, <2>1, <2>2, Staging
<1>24. slot.t = new
  BY ZenonT(60), <1>1, <1>2, <1>3, <1>4, <1>5, <1>6, <1>7, <1>8, <1>10, <1>11 DEF FindSlot
<1>25. slot.lo = lo /\ slot.hi = hi /\ slot.zero = st.zero /\ slot.src0 = st.src0
  BY <1>1, <1>2, <1>3, <1>4, <1>5, <1>6, <1>7, <1>8, <1>9, Zenon DEF FindSlot
<1>26. slot.ok
  <2>1. slot.ok <=> /\ got.ok /\ hi - lo + 1 >= Len(u)
                    /\ \A c \in lo..hi : st.src0[c] # None
    <3>1. lo = Min({got.t.tail[Owner(u, k)] : k \in DOMAIN u})
      BY <1>3, <1>4, <1>5, Zenon
    <3>2. hi = Max({got.t.tail[Owner(u, k)] : k \in DOMAIN u})
      BY <1>3, <1>4, <1>6, Zenon
    <3>3. got = Claimed(Uncoupled(Rewound(t, u), u), u)
      BY <1>1, <1>2, Zenon
    <3>4. st = StagedSources(Updated(Gathered(got.t, u, lo), u, lo, lastPos).cells, lo, hi)
      BY <1>3, <1>7, <1>8, <1>9, Zenon
    <3> QED BY <3>1, <3>2, <3>3, <3>4, Zenon DEF FindSlot
  <2>2. hi - lo + 1 >= Len(u)
    BY <1>17, OwnersApart, IdsFacts
  <2> QED BY <1>15, <1>23, <2>1, <2>2 DEF Staged
<1>27. PICK R : R = RowsAfter(d, slot, u)
  OBVIOUS
<1>28. Computed(r.cells, d, u, lo, hi, R)
  <2>1. r \in Table
    BY <1>22 DEF Settled
  <2>2. Staged(r.cells, lo, hi, slot.zero, slot.src0)
    BY <1>23, <1>25
  <2> QED BY <1>17, <1>25, <1>27, <2>1, <2>2, RowsFacts
<1>29. Placed(b, d, w, p, u, lastPos, new, lo, hi, R)
  BY <1>10, <1>11, <1>17, <1>22, <1>28, FinalTable
<1>30. Placed(t, d, w, p, u, lastPos, new, lo, hi, R)
  <2>1. ASSUME NEW s \in Ids, InNone(u, s) PROVE b.tail[s] = t.tail[s]
    <3>1. s \notin Followers(u)
      <4> SUFFICES ASSUME NEW k \in 1..Len(u), NEW j \in 2..Len(u[k]), s = u[k][j] PROVE FALSE
        BY DEF Followers
      <4>1. j \in DOMAIN u[k]
        BY DEF IsUbatch
      <4> QED BY <2>1, <4>1 DEF InNone, ToSet
    <3> QED BY <1>12, <3>1
  <2> QED BY <1>29, <2>1 DEF Placed
<1> QED BY <1>24, <1>25, <1>26, <1>27, <1>30

-----------------------------------------------------------------------------
(***************************************************************************)
(* The invariant in terms of tables, before and after a call.              *)
(***************************************************************************)
LEMMA InvParts ==
  ASSUME CellsInv
  PROVE  /\ use \in Uses /\ ~aborted
         /\ data \in [Ids -> Seq(Ids)] /\ want \in [Ids -> Seq(Ids)]
         /\ wantPos \in [Ids -> -1..(Forever - 1)]
         /\ Good(table, data) /\ Counted(table)
         /\ Kept(table, data, want, wantPos) /\ Blank(table, want, wantPos)
         /\ SavedInv
<1>1. /\ use \in Uses /\ ~aborted
      /\ data \in [Ids -> Seq(Ids)] /\ want \in [Ids -> Seq(Ids)]
      /\ wantPos \in [Ids -> -1..(Forever - 1)] /\ SavedInv
  BY DEF CellsInv
<1>2. table \in Table /\ Counted(table) /\ \A c \in Ids : table.cells[c].src \in {None, c}
  BY DEF CellsInv, CellsTypeOK, Counted
<1>3. Agree(table)
  BY DEF CellsInv, TailsAgree, Agree
<1>4. None \notin Ids
  BY <1>1, IdsFacts
<1>5. Entries(table, data)
  <2> SUFFICES ASSUME NEW c \in Ids
               PROVE  /\ table.cells[c].src \in {None, c}
                      /\ table.cells[c].seqs = {} =>
                           table.cells[c].pos = -1 /\ (table.cells[c].src = c => data[c] = << >>)
                      /\ table.cells[c].seqs # {} =>
                           table.cells[c].pos \in 0..(Forever - 1) /\ table.cells[c].src = c
    BY DEF Entries
  <2>1. IF table.cells[c].seqs = {} THEN table.cells[c].pos = -1 /\ RowOf(table.cells[c]) = << >>
        ELSE table.cells[c].pos \in 0..(Forever - 1) /\ table.cells[c].src = c
    BY DEF CellsInv, EntriesInv
  <2> QED BY <1>2, <1>4, <2>1 DEF RowOf
<1>6. Kept(table, data, want, wantPos) /\ Blank(table, want, wantPos)
  BY DEF CellsInv, PromiseInv, Kept, Blank
<1> QED BY <1>1, <1>2, <1>3, <1>5, <1>6 DEF Good

(* What a sequence is promised has its type.                                  *)
LEMMA PromiseTypes ==
  ASSUME use \in Uses, NEW t, NEW d \in [Ids -> Seq(Ids)], NEW w, NEW p, Good(t, d),
         Kept(t, d, w, p), Blank(t, w, p), NEW s \in Ids
  PROVE  w[s] \in Seq(Ids) /\ p[s] \in -1..(Forever - 1)
<1>1. t \in Table /\ Forever \in Nat
  BY IdsFacts DEF Good
<1>2. CASE t.tail[s] = None
  <2>1. w[s] = << >> /\ p[s] = -1
    BY <1>2 DEF Blank
  <2> QED BY <1>1, <2>1, IdsFacts
<1>3. CASE t.tail[s] # None
  <2>1. t.tail[s] \in Ids /\ w[s] = d[t.tail[s]] /\ p[s] = t.cells[t.tail[s]].pos
    BY <1>1, <1>3, TableTypes DEF Kept
  <2>2. t.cells[t.tail[s]].seqs # {}
    BY <2>1 DEF Good, Agree
  <2>3. t.cells[t.tail[s]].pos \in 0..(Forever - 1)
    BY <2>1, <2>2 DEF Good, Entries
  <2> QED BY <1>1, <2>1, <2>3
<1> QED BY <1>2, <1>3

LEMMA InvNext ==
  ASSUME use \in Uses, use' = use, ~aborted', data' \in [Ids -> Seq(Ids)],
         want' = [s \in Ids |-> want'[s]], wantPos' = [s \in Ids |-> wantPos'[s]],
         Good(table', data'), Counted(table'),
         Kept(table', data', want', wantPos'), Blank(table', want', wantPos'), SavedInv'
  PROVE  CellsInv'
<1>1. Ids' = Ids /\ Size' = Size
  BY DEF Ids, Size
<1>2. \A s \in Ids : want'[s] \in Seq(Ids) /\ wantPos'[s] \in -1..(Forever - 1)
  BY PromiseTypes
<1>3. want' \in [Ids -> Seq(Ids)] /\ wantPos' \in [Ids -> -1..(Forever - 1)]
  BY <1>2
<1>4. Table' = Table
  BY <1>1 DEF Table, Cell
<1>5. table' \in Table /\ Agree(table') /\ Entries(table', data')
  BY DEF Good
<1>6. Occupied(table.cells)' = Occupied(table'.cells)
  BY <1>1 DEF Occupied
<1>7. CellsTypeOK'
  BY <1>1, <1>4, <1>5, <1>6 DEF CellsTypeOK, Entries, Counted
<1>8. TailsAgree'
  BY <1>1, <1>5 DEF TailsAgree, Agree
<1>9. None \notin Ids
  BY IdsFacts
<1>10. EntriesInv'
  <2>1. ASSUME NEW c \in Ids
        PROVE  IF table'.cells[c].seqs = {}
               THEN table'.cells[c].pos = -1 /\ RowOf(table.cells[c])' = << >>
               ELSE table'.cells[c].pos \in 0..(Forever - 1) /\ table'.cells[c].src = c
    BY <1>5, <1>9 DEF Entries, RowOf
  <2> QED BY <1>1, <2>1 DEF EntriesInv
<1>11. PromiseInv'
  BY <1>1 DEF PromiseInv, Kept, Blank
<1> QED BY <1>1, <1>3, <1>7, <1>8, <1>10, <1>11 DEF CellsInv

LEMMA SavedStays ==
  ASSUME SavedInv, UNCHANGED << use, saved >>
  PROVE  SavedInv'
BY DEF SavedInv, Entry, Ids, Size

(* The last position of a sequence is the one of its cell.                    *)
LEMMA PosIs ==
  ASSUME use \in Uses, NEW t, NEW d, Good(t, d), NEW s \in Ids
  PROVE  SeqPosMax(t, s) = IF t.tail[s] = None THEN -1 ELSE t.cells[t.tail[s]].pos
<1>1. t \in Table /\ Agree(t) /\ Entries(t, d) /\ None \notin Ids /\ Forever \in Nat
  BY IdsFacts DEF Good
<1>2. PICK S : S = {-1} \cup {t.cells[c].pos : c \in {x \in Ids : s \in t.cells[x].seqs}}
  OBVIOUS
<1>3. SeqPosMax(t, s) = CHOOSE x \in S : \A y \in S : x >= y
  BY <1>2 DEF SeqPosMax, Max
<1>4. CASE t.tail[s] = None
  <2>1. \A y : y \in S <=> y = -1
    BY <1>1, <1>2, <1>4 DEF Agree
  <2>2. \A x \in S : x = -1
    BY <2>1
  <2>3. -1 \in S /\ \A y \in S : -1 >= y
    BY <2>1
  <2> QED BY <1>3, <1>4, <2>2, <2>3
<1>5. CASE t.tail[s] # None
  <2>1. PICK c : c = t.tail[s]
    OBVIOUS
  <2>2. c \in Ids
    BY <1>1, <1>5, <2>1, TableTypes
  <2>3. s \in t.cells[c].seqs
    BY <1>1, <2>1, <2>2 DEF Agree
  <2>4. PICK m : m = t.cells[c].pos
    OBVIOUS
  <2>5. m \in 0..(Forever - 1)
    BY <1>1, <2>2, <2>3, <2>4 DEF Entries
  <2>6. \A x \in Ids : s \in t.cells[x].seqs <=> x = c
    BY <1>1, <2>1 DEF Agree
  <2>7. \A y : y \in S <=> y = -1 \/ y = m
    BY <1>2, <2>2, <2>4, <2>6
  <2>8. m \in Int /\ m >= 0
    BY <1>1, <2>5
  <2>9. m \in S /\ \A y \in S : m >= y
    BY <2>7, <2>8
  <2>10. ASSUME NEW x \in S, \A y \in S : x >= y PROVE x = m
    BY <2>7, <2>8, <2>10
  <2> QED BY <1>3, <1>5, <2>1, <2>4, <2>9, <2>10
<1> QED BY <1>4, <1>5

-----------------------------------------------------------------------------
(***************************************************************************)
(* The calls that change the table only.                                   *)
(***************************************************************************)
LEMMA FreshFacts ==
  ASSUME use \in Uses, NEW d
  PROVE  /\ Good(FreshTable, d) /\ Counted(FreshTable)
         /\ \A s \in Ids : FreshTable.tail[s] = None
<1>1. PICK cells : cells = [c \in Ids |-> EmptyCell]
  OBVIOUS
<1>2. PICK tail : tail = [s \in Ids |-> None]
  OBVIOUS
<1>3. FreshTable = [cells |-> cells, tail |-> tail, head |-> 0, used |-> 0]
  BY <1>1, <1>2 DEF FreshTable
<1>4. /\ EmptyCell \in Cell /\ EmptyCell.pos = -1 /\ EmptyCell.src = None /\ EmptyCell.seqs = {}
  BY EmptyCellType
<1>5. 0 \in Ids /\ None \notin Ids
  BY IdsFacts
<1>6. FreshTable \in Table
  BY <1>1, <1>2, <1>3, <1>4, <1>5 DEF Table
<1>7. FreshTable.cells = cells /\ FreshTable.tail = tail /\ FreshTable.used = 0
  BY <1>3
<1>8. \A c \in Ids : cells[c] = EmptyCell
  BY <1>1
<1>9. \A s \in Ids : tail[s] = None
  BY <1>2
<1>10. Agree(FreshTable)
  BY <1>4, <1>5, <1>7, <1>8, <1>9 DEF Agree
<1>11. Entries(FreshTable, d)
  <2> SUFFICES ASSUME NEW c \in Ids
               PROVE  /\ cells[c].src \in {None, c}
                      /\ cells[c].seqs = {} =>
                           cells[c].pos = -1 /\ (cells[c].src = c => d[c] = << >>)
                      /\ cells[c].seqs # {} => cells[c].pos \in 0..(Forever - 1) /\ cells[c].src = c
    BY <1>7 DEF Entries
  <2> QED BY <1>4, <1>5, <1>8
<1>12. Occupied(FreshTable.cells) = {}
  BY <1>4, <1>7, <1>8 DEF Occupied
<1>13. Counted(FreshTable)
  BY <1>7, <1>12, FS_EmptySet DEF Counted
<1> QED BY <1>6, <1>7, <1>9, <1>10, <1>11, <1>13 DEF Good

LEMMA InitInv ==
  ASSUME Init
  PROVE  CellsInv
<1>1. /\ use \in Uses /\ table = FreshTable /\ data = [c \in Ids |-> << >>] /\ saved = NoState
      /\ ~aborted /\ want = [s \in Ids |-> << >>] /\ wantPos = [s \in Ids |-> -1]
  BY DEF Init
<1>2. /\ Good(table, data) /\ Counted(table)
      /\ \A s \in Ids : table.tail[s] = None
  BY <1>1, FreshFacts
<1>3. Forever \in Nat /\ None \notin Ids
  BY <1>1, IdsFacts
<1>4. /\ data \in [Ids -> Seq(Ids)] /\ want \in [Ids -> Seq(Ids)]
      /\ wantPos \in [Ids -> -1..(Forever - 1)]
  BY <1>1, <1>3
<1>5. CellsTypeOK /\ TailsAgree
  BY <1>2 DEF Good, Agree, Entries, Counted, CellsTypeOK, TailsAgree
<1>6. EntriesInv
  BY <1>2, <1>3 DEF Good, Entries, EntriesInv, RowOf
<1>7. PromiseInv
  BY <1>1, <1>2 DEF PromiseInv
<1>8. SavedInv
  <2>1. saved.kind = "none" /\ saved.entries = << >>
    BY <1>1 DEF NoState
  <2>2. saved \in [kind : {"none", "seq", "all"}, entries : Seq(Entry)]
    <3>1. << >> \in Seq(Entry)
      OBVIOUS
    <3> QED BY <1>1, <3>1 DEF NoState
  <2> QED BY <2>1, <2>2 DEF SavedInv
<1> QED BY <1>1, <1>4, <1>5, <1>6, <1>7, <1>8 DEF CellsInv

LEMMA ClearInv ==
  ASSUME CellsInv, Clear \/ LoadAllFails
  PROVE  CellsInv'
<1>1. use \in Uses /\ ~aborted /\ data \in [Ids -> Seq(Ids)] /\ SavedInv
  BY InvParts
<1>2. /\ table' = FreshTable /\ want' = [s \in Ids |-> << >>] /\ wantPos' = [s \in Ids |-> -1]
      /\ use' = use /\ saved' = saved /\ aborted' = aborted
      /\ data' = data \/ data' = [c \in Ids |-> << >>]
  BY DEF Clear, LoadAllFails
<1>3. data' \in [Ids -> Seq(Ids)]
  <2>1. << >> \in Seq(Ids)
    OBVIOUS
  <2>2. [c \in Ids |-> << >>] \in [Ids -> Seq(Ids)]
    BY <2>1
  <2> QED BY <1>1, <1>2, <2>2
<1>4. Good(table', data') /\ Counted(table') /\ \A s \in Ids : table'.tail[s] = None
  BY <1>1, <1>2, FreshFacts
<1>5. \A s \in Ids : want'[s] = << >> /\ wantPos'[s] = -1
  BY <1>2
<1>6. Kept(table', data', want', wantPos') /\ Blank(table', want', wantPos')
  BY <1>4, <1>5 DEF Kept, Blank
<1>7. SavedInv'
  BY <1>1, <1>2, SavedStays
<1>8. want' = [s \in Ids |-> want'[s]] /\ wantPos' = [s \in Ids |-> wantPos'[s]]
  BY <1>2
<1> QED BY <1>1, <1>2, <1>3, <1>4, <1>6, <1>7, <1>8, InvNext

LEMMA SeqRmInv ==
  ASSUME CellsInv, SeqRm
  PROVE  CellsInv'
<1>1. /\ use \in Uses /\ ~aborted /\ data \in [Ids -> Seq(Ids)] /\ want \in [Ids -> Seq(Ids)]
      /\ wantPos \in [Ids -> -1..(Forever - 1)] /\ SavedInv
  BY InvParts
<1>2. Good(table, data) /\ Counted(table) /\ Kept(table, data, want, wantPos)
      /\ Blank(table, want, wantPos)
  BY InvParts
<1>3. PICK s \in Ids, p0 \in {0, 1}, p1 \in {1, Forever} :
        /\ table' = SeqRmTo(table, s, p0, p1)
        /\ want' = IF InRange(wantPos[s], p0, p1) THEN [want EXCEPT ![s] = << >>] ELSE want
        /\ wantPos' = IF InRange(wantPos[s], p0, p1) THEN [wantPos EXCEPT ![s] = -1] ELSE wantPos
  BY DEF SeqRm
<1>4. use' = use /\ data' = data /\ saved' = saved /\ aborted' = aborted
  BY DEF SeqRm
<1>5. p0 \in Nat /\ p1 \in Int /\ Forever \in Nat
  BY <1>1, IdsFacts
<1>6. PICK gone \in BOOLEAN : gone <=> InRange(wantPos[s], p0, p1)
  OBVIOUS
<1>7. gone <=> (table.tail[s] # None /\ InRange(table.cells[table.tail[s]].pos, p0, p1))
  <2>1. CASE table.tail[s] = None
    <3>1. wantPos[s] = -1
      BY <1>2, <2>1 DEF Blank
    <3> QED BY <1>5, <1>6, <2>1, <3>1 DEF InRange
  <2>2. CASE table.tail[s] # None
    BY <1>2, <1>6, <2>2 DEF Kept
  <2> QED BY <2>1, <2>2
<1>8. Good(table', data)
  BY <1>1, <1>2, <1>3, <1>5, <1>7, SeqRmFacts
<1>9. Counted(table')
  BY <1>1, <1>2, <1>3, <1>5, <1>7, SeqRmFacts
<1>0. PICK t, r : t = table /\ r = table'
  OBVIOUS
<1>10. Removes(table, s, gone, table')
  BY <1>1, <1>2, <1>3, <1>5, <1>7, SeqRmFacts
<1>11. /\ \A x \in Ids : r.tail[x] = IF x = s /\ gone THEN None ELSE t.tail[x]
       /\ \A x \in Ids : r.tail[x] # None => r.cells[r.tail[x]].pos = t.cells[t.tail[x]].pos
  BY <1>0, <1>10 DEF Removes
<1>12. \A x \in Ids : want'[x] = IF x = s /\ gone THEN << >> ELSE want[x]
  BY <1>1, <1>3, <1>6
<1>13. \A x \in Ids : wantPos'[x] = IF x = s /\ gone THEN -1 ELSE wantPos[x]
  BY <1>1, <1>3, <1>6
<1>14. Kept(r, data, want', wantPos')
  <2> SUFFICES ASSUME NEW x \in Ids, r.tail[x] # None
               PROVE  want'[x] = data[r.tail[x]] /\ wantPos'[x] = r.cells[r.tail[x]].pos
    BY DEF Kept
  <2>1. r.tail[x] = t.tail[x] /\ ~(x = s /\ gone)
    BY <1>11
  <2> QED BY <1>0, <1>2, <1>11, <1>12, <1>13, <2>1 DEF Kept
<1>15. Blank(r, want', wantPos')
  BY <1>0, <1>2, <1>11, <1>12, <1>13 DEF Blank
<1>16. want' = [x \in Ids |-> want'[x]] /\ wantPos' = [x \in Ids |-> wantPos'[x]]
  BY <1>1, <1>3
<1>17. SavedInv'
  BY <1>1, <1>4, SavedStays
<1> QED BY <1>0, <1>1, <1>4, <1>8, <1>9, <1>14, <1>15, <1>16, <1>17, InvNext

LEMMA SeqCpInv ==
  ASSUME CellsInv, SeqCp
  PROVE  CellsInv'
<1>1. /\ use \in Uses /\ ~aborted /\ data \in [Ids -> Seq(Ids)] /\ want \in [Ids -> Seq(Ids)]
      /\ wantPos \in [Ids -> -1..(Forever - 1)] /\ SavedInv
  BY InvParts
<1>2. Good(table, data) /\ Counted(table) /\ Kept(table, data, want, wantPos)
      /\ Blank(table, want, wantPos)
  BY InvParts
<1>3. PICK from \in Ids, to \in Ids :
        /\ table' = SeqCpTo(table, from, to)
        /\ want' = [want EXCEPT ![to] = want[from]]
        /\ wantPos' = [wantPos EXCEPT ![to] = wantPos[from]]
  BY DEF SeqCp
<1>4. use' = use /\ data' = data /\ saved' = saved /\ aborted' = aborted
  BY DEF SeqCp
<1>5. Good(table', data)
  BY <1>1, <1>2, <1>3, SeqCpFacts
<1>6. Counted(table')
  BY <1>1, <1>2, <1>3, SeqCpFacts
<1>0. PICK t, r : t = table /\ r = table'
  OBVIOUS
<1>7. Copies(table, from, to, table')
  BY <1>1, <1>2, <1>3, SeqCpFacts
<1>8. /\ \A x \in Ids : r.tail[x] = IF x = to THEN t.tail[from] ELSE t.tail[x]
      /\ \A x \in Ids : r.tail[x] # None => r.cells[r.tail[x]].pos = t.cells[r.tail[x]].pos
  BY <1>0, <1>7 DEF Copies
<1>9. \A x \in Ids : /\ want'[x] = IF x = to THEN want[from] ELSE want[x]
                     /\ wantPos'[x] = IF x = to THEN wantPos[from] ELSE wantPos[x]
  BY <1>1, <1>3
<1>10. Kept(r, data, want', wantPos')
  <2> SUFFICES ASSUME NEW x \in Ids, r.tail[x] # None
               PROVE  want'[x] = data[r.tail[x]] /\ wantPos'[x] = r.cells[r.tail[x]].pos
    BY DEF Kept
  <2>1. PICK y \in Ids : y = IF x = to THEN from ELSE x
    OBVIOUS
  <2>2. r.tail[x] = t.tail[y] /\ want'[x] = want[y] /\ wantPos'[x] = wantPos[y]
    BY <1>8, <1>9, <2>1
  <2> QED BY <1>0, <1>2, <1>8, <2>2 DEF Kept
<1>11. Blank(r, want', wantPos')
  BY <1>0, <1>2, <1>8, <1>9 DEF Blank
<1>12. want' = [x \in Ids |-> want'[x]] /\ wantPos' = [x \in Ids |-> wantPos'[x]]
  BY <1>1, <1>3
<1>13. SavedInv'
  BY <1>1, <1>4, SavedStays
<1> QED BY <1>0, <1>1, <1>4, <1>5, <1>6, <1>10, <1>11, <1>12, <1>13, InvNext

LEMMA SeqKeepInv ==
  ASSUME CellsInv, SeqKeep
  PROVE  CellsInv'
<1>1. /\ use \in Uses /\ ~aborted /\ data \in [Ids -> Seq(Ids)] /\ SavedInv
  BY InvParts
<1>2. Good(table, data) /\ Counted(table) /\ Kept(table, data, want, wantPos)
      /\ Blank(table, want, wantPos)
  BY InvParts
<1>3. PICK s \in Ids :
        /\ table' = SeqKeepTo(table, s)
        /\ want' = [i \in Ids |-> IF i = s THEN want[s] ELSE << >>]
        /\ wantPos' = [i \in Ids |-> IF i = s THEN wantPos[s] ELSE -1]
  BY DEF SeqKeep
<1>4. use' = use /\ data' = data /\ saved' = saved /\ aborted' = aborted
  BY DEF SeqKeep
<1>5. Good(table', data)
  BY <1>1, <1>2, <1>3, SeqKeepFacts
<1>6. Counted(table')
  BY <1>1, <1>2, <1>3, SeqKeepFacts
<1>7. \A x \in Ids : table'.tail[x] = IF x = s THEN table.tail[s] ELSE None
  BY <1>1, <1>2, <1>3, SeqKeepFacts
<1>8. table'.tail[s] # None => table'.cells[table'.tail[s]].pos = table.cells[table.tail[s]].pos
  BY <1>1, <1>2, <1>3, SeqKeepFacts
<1>9. Kept(table', data', want', wantPos')
  <2> SUFFICES ASSUME NEW x \in Ids, table'.tail[x] # None
               PROVE  want'[x] = data[table'.tail[x]]
                      /\ wantPos'[x] = table'.cells[table'.tail[x]].pos
    BY <1>4 DEF Kept
  <2>1. x = s /\ table'.tail[x] = table.tail[s] /\ want'[x] = want[s] /\ wantPos'[x] = wantPos[s]
    BY <1>3, <1>7
  <2> QED BY <1>2, <1>8, <2>1 DEF Kept
<1>10. Blank(table', want', wantPos')
  BY <1>2, <1>3, <1>7 DEF Blank
<1>11. want' = [x \in Ids |-> want'[x]] /\ wantPos' = [x \in Ids |-> wantPos'[x]]
  BY <1>3
<1>12. SavedInv'
  BY <1>1, <1>4, SavedStays
<1> QED BY <1>1, <1>4, <1>5, <1>6, <1>9, <1>10, <1>11, <1>12, InvNext

(* A sequence with a cell of its own gets another position.                   *)
EndsAt(p, s, pos, q) == \A x \in Ids : q[x] = IF x = s THEN pos ELSE p[x]

LEMMA Repositioned ==
  ASSUME use \in Uses, NEW t, NEW d, NEW w, NEW p, Good(t, d), Counted(t), Kept(t, d, w, p),
         Blank(t, w, p), NEW s \in Ids, t.tail[s] # None, t.cells[t.tail[s]].seqs = {s},
         NEW pos \in 0..(Forever - 1), NEW r, r = WithPos(t, t.tail[s], pos),
         NEW q, EndsAt(p, s, pos, q)
  PROVE  Good(r, d) /\ Counted(r) /\ Kept(r, d, w, q) /\ Blank(r, w, q)
<1>1. PICK c : c = t.tail[s]
  OBVIOUS
<1>2. c \in Ids /\ t.cells[c].seqs # {} /\ t \in Table
  BY <1>1, TableTypes DEF Good
<1>3. Good(r, d) /\ Counted(r)
  BY <1>1, <1>2, WithPosFacts
<1>4. \A x \in Ids : r.tail[x] = t.tail[x]
  BY <1>1, <1>2, WithPosFacts
<1>5. \A x \in Ids : r.cells[x].pos = IF x = c THEN pos ELSE t.cells[x].pos
  BY <1>1, <1>2, WithPosFacts
<1>6. ASSUME NEW x \in Ids, r.tail[x] # None
      PROVE  w[x] = d[r.tail[x]] /\ q[x] = r.cells[r.tail[x]].pos
  <2>1. r.tail[x] = t.tail[x] /\ t.tail[x] # None /\ t.tail[x] \in Ids
    BY <1>2, <1>4, <1>6, TableTypes
  <2>2. w[x] = d[t.tail[x]] /\ p[x] = t.cells[t.tail[x]].pos
    BY <2>1 DEF Kept
  <2>3. x # s => t.tail[x] # c
    BY <1>1, <1>2 DEF Good, Agree
  <2> QED BY <1>1, <1>2, <1>5, <2>1, <2>2, <2>3 DEF EndsAt
<1>7. ASSUME NEW x \in Ids, r.tail[x] = None PROVE w[x] = << >> /\ q[x] = -1
  <2>1. t.tail[x] = None /\ x # s
    BY <1>4, <1>7
  <2> QED BY <2>1 DEF Blank, EndsAt
<1> QED BY <1>3, <1>6, <1>7 DEF Kept, Blank

(* Both calls look at the cell the tail names, and change it or nothing.      *)
LEMMA ShiftInv ==
  ASSUME CellsInv, NEW s \in Ids, ~SharesCell(s), NEW p0 \in Nat, NEW pos,
         InRange(wantPos[s], p0, Forever) => pos \in 0..(Forever - 1),
         table' = IF Shifted(table, s) /\ InRange(table.cells[table.tail[s]].pos, p0, Forever)
                  THEN WithPos(table, table.tail[s], pos) ELSE table,
         wantPos' = IF InRange(wantPos[s], p0, Forever) THEN [wantPos EXCEPT ![s] = pos]
                    ELSE wantPos,
         UNCHANGED << use, data, saved, aborted, want >>
  PROVE  CellsInv'
<1>1. /\ use \in Uses /\ ~aborted /\ data \in [Ids -> Seq(Ids)] /\ want \in [Ids -> Seq(Ids)]
      /\ wantPos \in [Ids -> -1..(Forever - 1)] /\ SavedInv
  BY InvParts
<1>2. Good(table, data) /\ Counted(table) /\ Kept(table, data, want, wantPos)
      /\ Blank(table, want, wantPos)
  BY InvParts
<1>3. use' = use /\ data' = data /\ saved' = saved /\ aborted' = aborted /\ want' = want
  OBVIOUS
<1>4. want' = [x \in Ids |-> want'[x]] /\ wantPos' = [x \in Ids |-> wantPos'[x]]
  BY <1>1, <1>3
<1>5. SavedInv'
  BY <1>1, <1>3, SavedStays
<1>6. CASE ~InRange(wantPos[s], p0, Forever)
  <2>1. ~(Shifted(table, s) /\ InRange(table.cells[table.tail[s]].pos, p0, Forever))
    <3>1. CASE table.tail[s] = None
      BY <3>1 DEF Shifted, None
    <3>2. CASE table.tail[s] # None
      BY <1>2, <1>6, <3>2 DEF Kept
    <3> QED BY <3>1, <3>2
  <2>2. table' = table /\ wantPos' = wantPos
    BY <1>6, <2>1
  <2> QED BY <1>1, <1>2, <1>3, <1>4, <1>5, <2>2, InvNext
<1>7. CASE InRange(wantPos[s], p0, Forever)
  <2>1. table.tail[s] # None
    <3> SUFFICES ASSUME table.tail[s] = None PROVE FALSE
      OBVIOUS
    <3>1. wantPos[s] = -1
      BY <1>2 DEF Blank
    <3> QED BY <1>7, <3>1 DEF InRange
  <2>2. wantPos[s] = table.cells[table.tail[s]].pos
    BY <1>2, <2>1 DEF Kept
  <2>3. table.cells[table.tail[s]].seqs = {s}
    BY <2>1 DEF SharesCell
  <2>4. table.tail[s] >= 0
    <3>1. table.tail[s] \in Ids
      BY <1>1, <1>2, <2>1, TableTypes DEF Good
    <3> QED BY SMTT(60), <1>1, <3>1, IdsFacts
  <2>5. table' = WithPos(table, table.tail[s], pos)
    BY <1>7, <2>2, <2>3, <2>4 DEF Shifted
  <2>6. \A x \in Ids : wantPos'[x] = IF x = s THEN pos ELSE wantPos[x]
    BY <1>1, <1>7
  <2>7. pos \in 0..(Forever - 1)
    BY SMTT(60), <1>7
  <2>8. /\ Good(table', data) /\ Counted(table') /\ Kept(table', data, want, wantPos')
        /\ Blank(table', want, wantPos')
    <3>1. PICK t, r, q, w, p : t = table /\ r = table' /\ q = wantPos' /\ w = want /\ p = wantPos
      OBVIOUS
    <3>2. Good(t, data) /\ Counted(t) /\ Kept(t, data, w, p) /\ Blank(t, w, p)
      BY <1>2, <3>1
    <3>3. t.tail[s] # None /\ t.cells[t.tail[s]].seqs = {s} /\ r = WithPos(t, t.tail[s], pos)
      BY <2>1, <2>3, <2>5, <3>1
    <3>4. EndsAt(p, s, pos, q)
      BY <2>6, <3>1 DEF EndsAt
    <3>5. Good(r, data) /\ Counted(r) /\ Kept(r, data, w, q) /\ Blank(r, w, q)
      BY <1>1, <2>7, <3>2, <3>3, <3>4, Repositioned
    <3> QED BY <3>1, <3>5
  <2> QED BY <1>1, <1>3, <1>4, <1>5, <2>8, InvNext
<1> QED BY <1>6, <1>7

LEMMA SeqAddInv ==
  ASSUME CellsInv, SeqAdd
  PROVE  CellsInv'
<1>1. use \in Uses /\ wantPos \in [Ids -> -1..(Forever - 1)]
  BY InvParts
<1>2. PICK s \in Ids, p0 \in 0..MaxLen, shift \in {-1, 1} :
        /\ ~SharesCell(s)
        /\ InRange(wantPos[s], p0, Forever) => wantPos[s] + shift \in 0..(Forever - 1)
        /\ table' = SeqAddTo(table, s, p0, Forever, shift)
        /\ wantPos' = IF InRange(wantPos[s], p0, Forever)
                      THEN [wantPos EXCEPT ![s] = @ + shift] ELSE wantPos
  BY DEF SeqAdd
<1>3. UNCHANGED << use, data, saved, aborted, want >>
  BY DEF SeqAdd
<1>4. PICK pos : pos = wantPos[s] + shift
  OBVIOUS
<1>5. p0 \in Nat
  BY <1>1, IdsFacts
<1>6. InRange(wantPos[s], p0, Forever) => pos \in 0..(Forever - 1)
  BY <1>2, <1>4
<1>7. wantPos' = IF InRange(wantPos[s], p0, Forever) THEN [wantPos EXCEPT ![s] = pos] ELSE wantPos
  BY <1>2, <1>4
<1>8. table' = IF Shifted(table, s) /\ InRange(table.cells[table.tail[s]].pos, p0, Forever)
               THEN WithPos(table, table.tail[s], pos) ELSE table
  <2>1. Kept(table, data, want, wantPos)
    BY InvParts
  <2>2. ASSUME Shifted(table, s) PROVE wantPos[s] = table.cells[table.tail[s]].pos
    BY <2>1, <2>2 DEF Shifted, Kept, None
  <2> QED BY <1>2, <1>4, <2>2 DEF SeqAddTo
<1> QED BY <1>2, <1>3, <1>5, <1>6, <1>7, <1>8, ShiftInv

LEMMA SeqDivInv ==
  ASSUME CellsInv, SeqDiv
  PROVE  CellsInv'
<1>1. use \in Uses /\ wantPos \in [Ids -> -1..(Forever - 1)]
  BY InvParts
<1>2. PICK s \in Ids, p0 \in 0..MaxLen :
        /\ ~SharesCell(s)
        /\ table' = SeqDivTo(table, s, p0, Forever, 2)
        /\ wantPos' = IF InRange(wantPos[s], p0, Forever)
                      THEN [wantPos EXCEPT ![s] = @ \div 2] ELSE wantPos
  BY DEF SeqDiv
<1>3. UNCHANGED << use, data, saved, aborted, want >>
  BY DEF SeqDiv
<1>4. PICK pos : pos = wantPos[s] \div 2
  OBVIOUS
<1>5. p0 \in Nat /\ Forever \in Nat
  BY <1>1, IdsFacts
<1>6. InRange(wantPos[s], p0, Forever) => pos \in 0..(Forever - 1)
  BY <1>1, <1>4, <1>5 DEF InRange
<1>7. wantPos' = IF InRange(wantPos[s], p0, Forever) THEN [wantPos EXCEPT ![s] = pos] ELSE wantPos
  BY <1>2, <1>4
<1>8. table' = IF Shifted(table, s) /\ InRange(table.cells[table.tail[s]].pos, p0, Forever)
               THEN WithPos(table, table.tail[s], pos) ELSE table
  <2>1. Kept(table, data, want, wantPos)
    BY InvParts
  <2>2. ASSUME Shifted(table, s) PROVE wantPos[s] = table.cells[table.tail[s]].pos
    BY <2>1, <2>2 DEF Shifted, Kept, None
  <2> QED BY <1>2, <1>4, <2>2 DEF SeqDivTo
<1> QED BY <1>2, <1>3, <1>5, <1>6, <1>7, <1>8, ShiftInv

-----------------------------------------------------------------------------
(***************************************************************************)
(* Decoding.                                                               *)
(***************************************************************************)
LEMMA DecodeInv ==
  ASSUME CellsInv, Decode
  PROVE  CellsInv'
<1>1. /\ use \in Uses /\ ~aborted /\ data \in [Ids -> Seq(Ids)] /\ want \in [Ids -> Seq(Ids)]
      /\ wantPos \in [Ids -> -1..(Forever - 1)] /\ SavedInv
  BY InvParts
<1>2. Good(table, data) /\ Counted(table) /\ Kept(table, data, want, wantPos)
      /\ Blank(table, want, wantPos)
  BY InvParts
<1> DEFINE Pos(u) == [k \in DOMAIN u |-> SeqPosMax(table, Owner(u, k)) + 1]
           ListsOf(u, s) == {k \in DOMAIN u : s \in ToSet(u[k])}
<1>3. PICK u \in Ubatches :
        LET lastPos == Pos(u)
            slot    == FindSlot(table, u, lastPos)
        IN  /\ \A k \in DOMAIN u : Len(want[Owner(u, k)]) < MaxLen /\ lastPos[k] < Forever
            /\ aborted' = ~slot.ok
            /\ table' = IF slot.ok THEN slot.t ELSE table
            /\ data'  = IF slot.ok THEN RowsAfter(data, slot, u) ELSE data
            /\ want'  = [s \in Ids |->
                           IF ListsOf(u, s) = {} THEN want[s]
                           ELSE LET o == Owner(u, CHOOSE k \in ListsOf(u, s) : TRUE)
                                IN  Append(want[o], o)]
            /\ wantPos' = [s \in Ids |->
                             IF ListsOf(u, s) = {} THEN wantPos[s]
                             ELSE lastPos[CHOOSE k \in ListsOf(u, s) : TRUE]]
  BY DEF Decode
<1>4. use' = use /\ saved' = saved
  BY DEF Decode
<1>5. IsUbatch(u)
  BY <1>1, UbatchesAre
<1>6. Len(u) \in Nat /\ DOMAIN u = 1..Len(u)
  BY <1>5 DEF IsUbatch
<1>7. \A k \in 1..Len(u) : Owner(u, k) \in Ids
  BY <1>5, OwnersApart
<1>8. PICK lastPos : lastPos = Pos(u)
  OBVIOUS
<1>9. PICK slot : slot = FindSlot(table, u, lastPos)
  OBVIOUS
<1>10. ASSUME NEW k \in 1..Len(u) PROVE lastPos[k] \in 0..(Forever - 1)
  <2>1. PICK o : o = Owner(u, k)
    OBVIOUS
  <2>2. o \in Ids /\ lastPos[k] = SeqPosMax(table, o) + 1
    BY <1>6, <1>7, <1>8, <2>1
  <2>3. SeqPosMax(table, o) = IF table.tail[o] = None THEN -1 ELSE table.cells[table.tail[o]].pos
    BY <1>1, <1>2, <2>2, PosIs
  <2>4. SeqPosMax(table, o) = wantPos[o]
    BY <1>2, <2>2, <2>3 DEF Kept, Blank
  <2>5. wantPos[o] \in -1..(Forever - 1) /\ Forever \in Nat
    BY <1>1, <2>2, IdsFacts
  <2>6. lastPos[k] < Forever
    BY <1>3, <1>6, <1>8
  <2> QED BY <2>2, <2>4, <2>5, <2>6
<1>11. \A j \in 1..Len(u) : table.tail[Owner(u, j)] = None => want[Owner(u, j)] = << >>
  BY <1>2, <1>7 DEF Blank
<1>12. /\ slot.ok
       /\ Placed(table, data, want, wantPos, u, lastPos, slot.t, slot.lo, slot.hi,
                 RowsAfter(data, slot, u))
  BY <1>1, <1>2, <1>5, <1>9, <1>10, <1>11, FindSlotFacts
<1>13. ~aborted' /\ table' = slot.t /\ data' = RowsAfter(data, slot, u)
  BY <1>3, <1>8, <1>9, <1>12, Zenon
<1>14. ASSUME NEW s \in Ids, InNone(u, s) PROVE want'[s] = want[s] /\ wantPos'[s] = wantPos[s]
  <2>1. ListsOf(u, s) = {}
    BY <1>6, <1>14 DEF InNone
  <2> HIDE DEF ListsOf
  <2> QED BY <1>3, <2>1
<1>15. ASSUME NEW s \in Ids, NEW j \in 1..Len(u), s \in ToSet(u[j])
       PROVE  want'[s] = Append(want[Owner(u, j)], Owner(u, j)) /\ wantPos'[s] = lastPos[j]
  <2>1. \A k \in 1..Len(u) : s \in ToSet(u[k]) => k = j
    BY <1>5, <1>15, ListSets
  <2>2. j \in ListsOf(u, s) /\ \A k \in ListsOf(u, s) : k = j
    BY <1>6, <1>15, <2>1
  <2> HIDE DEF ListsOf
  <2>3. (CHOOSE k \in ListsOf(u, s) : TRUE) = j /\ ListsOf(u, s) # {}
    BY <2>2
  <2> QED BY <1>3, <1>8, <2>3
<1>16. PICK R : R = RowsAfter(data, slot, u)
  OBVIOUS
<1>17. PICK new : new = slot.t
  OBVIOUS
<1>18. PICK lo, hi : lo = slot.lo /\ hi = slot.hi
  OBVIOUS
<1>19. Placed(table, data, want, wantPos, u, lastPos, new, lo, hi, R)
  BY <1>12, <1>16, <1>17, <1>18
<1>20. Good(new, R) /\ Counted(new) /\ R \in [Ids -> Seq(Ids)]
  BY <1>19 DEF Placed
<1>21. Kept(new, R, want', wantPos')
  <2> SUFFICES ASSUME NEW s \in Ids, new.tail[s] # None
               PROVE  want'[s] = R[new.tail[s]] /\ wantPos'[s] = new.cells[new.tail[s]].pos
    BY DEF Kept
  <2>1. CASE InNone(u, s)
    BY <1>14, <1>19, <2>1 DEF Placed
  <2>2. CASE ~InNone(u, s)
    <3>1. PICK j \in 1..Len(u) : s \in ToSet(u[j])
      BY <2>2 DEF InNone
    <3>2. /\ new.cells[new.tail[s]].pos = lastPos[j]
          /\ R[new.tail[s]] = Append(want[Owner(u, j)], Owner(u, j))
      BY <1>19, <3>1 DEF Placed
    <3>3. want'[s] = Append(want[Owner(u, j)], Owner(u, j)) /\ wantPos'[s] = lastPos[j]
      BY <1>15, <3>1
    <3> QED BY <3>2, <3>3
  <2> QED BY <2>1, <2>2
<1>22. Blank(new, want', wantPos')
  <2> SUFFICES ASSUME NEW s \in Ids, new.tail[s] = None
               PROVE  want'[s] = << >> /\ wantPos'[s] = -1
    BY DEF Blank
  <2>1. CASE InNone(u, s)
    <3>1. table.tail[s] = None
      BY <1>19, <2>1 DEF Placed
    <3> QED BY <1>2, <1>14, <2>1, <3>1 DEF Blank
  <2>2. CASE ~InNone(u, s)
    <3>1. PICK j \in 1..Len(u) : s \in ToSet(u[j])
      BY <2>2 DEF InNone
    <3>2. new.tail[s] = lo + j - 1 /\ lo \in Ids
      BY <1>19, <3>1 DEF Placed
    <3>3. lo \in Nat
      BY <1>1, <3>2, IdsFacts
    <3> QED BY <3>2, <3>3 DEF None
  <2> QED BY <2>1, <2>2
<1>23. want' = [s \in Ids |-> want'[s]] /\ wantPos' = [s \in Ids |-> wantPos'[s]]
  BY <1>3
<1>24. SavedInv'
  BY <1>1, <1>4, SavedStays
<1> QED BY <1>1, <1>4, <1>13, <1>16, <1>17, <1>20, <1>21, <1>22, <1>23, <1>24, InvNext

-----------------------------------------------------------------------------
(***************************************************************************)
(* State files.                                                            *)
(***************************************************************************)
LEMMA CardUpto ==
  ASSUME NEW n \in Nat
  PROVE  IsFiniteSet(1..n) /\ Cardinality(1..n) = n
<1>1. 1 \in Int /\ n \in Int
  OBVIOUS
<1>2. /\ IsFiniteSet(1..n)
      /\ Cardinality(1..n) = IF 1 > n THEN 0 ELSE n - 1 + 1
  BY <1>1, FS_Interval
<1> QED BY <1>2

(* CellAt enumerates the cells of a set by their rank.                        *)
LEMMA CellAtFacts ==
  ASSUME use \in Uses, NEW S \in SUBSET Ids, NEW n, n = Cardinality(S)
  PROVE  /\ n \in Nat /\ n <= Size
         /\ \A i \in 1..n : CellAt(S, i) \in S
         /\ \A i, j \in 1..n : CellAt(S, i) = CellAt(S, j) => i = j
<1> DEFINE Upto(c) == {x \in S : x <= c}
           f == [c \in S |-> Cardinality(Upto(c))]
<1>1. IsFiniteSet(S) /\ n \in Nat /\ S \subseteq Nat
  BY IdsFacts
<1>2. n <= Size
  BY IdsFacts, FS_Subset
<1>3. ASSUME NEW c \in S
      PROVE  /\ IsFiniteSet(Upto(c)) /\ Cardinality(Upto(c)) \in 1..n /\ c \in Upto(c)
  <2>1. c \in Upto(c) /\ Upto(c) \in SUBSET S
    BY <1>1
  <2> HIDE DEF Upto
  <2>2. IsFiniteSet(Upto(c)) /\ Cardinality(Upto(c)) <= Cardinality(S)
    BY <1>1, <2>1, FS_Subset
  <2>3. Cardinality(Upto(c)) \in Nat
    BY <2>2, FS_CardinalityType
  <2>4. Cardinality(Upto(c)) # 0
    BY <2>1, <2>2, FS_EmptySet
  <2> QED BY <1>1, <2>1, <2>2, <2>3, <2>4
<1>4. ASSUME NEW c \in S, NEW x \in S, c < x
      PROVE  Cardinality(Upto(c)) < Cardinality(Upto(x))
  <2>1. c \in Nat /\ x \in Nat
    BY <1>1
  <2>2. x \notin Upto(c)
    BY <1>4, <2>1
  <2>3. Upto(c) \cup {x} \in SUBSET Upto(x)
    <3>1. \A y \in S : y <= c => y <= x
      BY <1>1, <1>4, <2>1
    <3>2. x \in Upto(x)
      BY <2>1
    <3> QED BY <3>1, <3>2
  <2>4. IsFiniteSet(Upto(c)) /\ IsFiniteSet(Upto(x)) /\ Cardinality(Upto(c)) \in Nat
        /\ Cardinality(Upto(x)) \in Nat
    BY <1>1, <1>3
  <2> HIDE DEF Upto
  <2>5. Cardinality(Upto(c) \cup {x}) = Cardinality(Upto(c)) + 1
    BY <2>2, <2>4, FS_AddElement
  <2>6. Cardinality(Upto(c) \cup {x}) <= Cardinality(Upto(x))
    BY <2>3, <2>4, FS_Subset
  <2> QED BY <2>4, <2>5, <2>6
<1>5. ASSUME NEW c \in S, NEW x \in S, Cardinality(Upto(c)) = Cardinality(Upto(x)) PROVE c = x
  <2>1. c \in Nat /\ x \in Nat /\ Cardinality(Upto(c)) \in Nat /\ Cardinality(Upto(x)) \in Nat
    BY <1>1, <1>3
  <2> HIDE DEF Upto
  <2>2. ~(c < x) /\ ~(x < c)
    BY <1>4, <1>5, <2>1
  <2> QED BY <2>1, <2>2
<1>6. f \in [S -> 1..n]
  <2> HIDE DEF Upto
  <2> QED BY <1>3
<1>7. f \in Injection(S, 1..n)
  <2>1. ASSUME NEW c \in S, NEW x \in S, f[c] = f[x] PROVE c = x
    <3>1. Cardinality(Upto(c)) = Cardinality(Upto(x))
      <4> HIDE DEF Upto
      <4> QED BY <2>1
    <3> QED BY <1>5, <3>1
  <2> HIDE DEF f
  <2> QED BY <1>6, <2>1 DEF Injection, IsInjective
<1>8. f \in Surjection(S, 1..n)
  <2> HIDE DEF f
  <2>1. IsFiniteSet(1..n) /\ Cardinality(1..n) = n
    BY <1>1, CardUpto
  <2>2. IsFiniteSet(S) /\ Cardinality(S) = Cardinality(1..n)
    BY <1>1, <2>1
  <2> QED BY <1>7, <2>1, <2>2, FS_Injection
<1>9. ASSUME NEW i \in 1..n
      PROVE  CellAt(S, i) \in S /\ Cardinality(Upto(CellAt(S, i))) = i
  <2>1. PICK c \in S : f[c] = i
    <3> HIDE DEF f
    <3> QED BY <1>8 DEF Surjection
  <2>2. Cardinality(Upto(c)) = i
    <3> HIDE DEF Upto
    <3> QED BY <2>1
  <2> QED BY <2>2 DEF CellAt
<1>10. ASSUME NEW i \in 1..n, NEW j \in 1..n, CellAt(S, i) = CellAt(S, j) PROVE i = j
  <2> HIDE DEF Upto
  <2>1. Cardinality(Upto(CellAt(S, i))) = i /\ Cardinality(Upto(CellAt(S, j))) = j
    BY <1>9
  <2> QED BY <1>10, <2>1
<1> QED BY <1>1, <1>2, <1>9, <1>10

(* The entries of a set of occupied cells.                                    *)
Writes(S, withSeqs, es) ==
  /\ es \in Seq(Entry) /\ Len(es) = Cardinality(S)
  /\ \A i \in 1..Len(es) :
       es[i].seqs = IF withSeqs THEN table.cells[CellAt(S, i)].seqs ELSE {}

LEMMA EntriesAre ==
  ASSUME CellsInv, NEW S \in SUBSET Occupied(table.cells), NEW withSeqs \in BOOLEAN, NEW es,
         es = EntriesOf(S, withSeqs)
  PROVE  Writes(S, withSeqs, es)
<1>1. use \in Uses /\ data \in [Ids -> Seq(Ids)] /\ Good(table, data)
  BY InvParts
<1>2. S \in SUBSET Ids
  BY DEF Occupied
<1>3. PICK n : n = Cardinality(S)
  OBVIOUS
<1>4. n \in Nat /\ \A i \in 1..n : CellAt(S, i) \in S
  BY <1>1, <1>2, <1>3, CellAtFacts
<1>5. PICK seqsOf : seqsOf = [c \in Ids |-> IF withSeqs THEN table.cells[c].seqs ELSE {}]
  OBVIOUS
<1>6. es = [i \in 1..n |-> [pos  |-> table.cells[CellAt(S, i)].pos,
                            seqs |-> IF withSeqs THEN table.cells[CellAt(S, i)].seqs ELSE {},
                            row  |-> data[CellAt(S, i)]]]
  BY <1>3, Zenon DEF EntriesOf
<1>7. ASSUME NEW i \in 1..n
      PROVE  /\ es[i] \in Entry
             /\ es[i].seqs = IF withSeqs THEN table.cells[CellAt(S, i)].seqs ELSE {}
  <2>1. PICK c : c = CellAt(S, i)
    OBVIOUS
  <2>2. c \in Ids /\ table.cells[c].seqs # {}
    BY <1>2, <1>4, <2>1 DEF Occupied
  <2>3. table.cells[c].pos \in 0..(Forever - 1)
    BY <1>1, <2>2 DEF Good, Entries
  <2>4. table.cells[c].seqs \in SUBSET Ids
    BY <1>1, <2>2, TableTypes DEF Good
  <2>5. data[c] \in Seq(Ids)
    BY <1>1, <2>2
  <2>6. PICK seqs : seqs = IF withSeqs THEN table.cells[c].seqs ELSE {}
    OBVIOUS
  <2>7. seqs \in SUBSET Ids
    BY <2>4, <2>6
  <2>8. es[i] = [pos |-> table.cells[c].pos, seqs |-> seqs, row |-> data[c]]
    BY <1>6, <2>1, <2>6
  <2>9. es[i] \in Entry
    BY <2>3, <2>5, <2>7, <2>8 DEF Entry
  <2>10. es[i].seqs = seqs
    BY <2>8
  <2> QED BY <2>1, <2>6, <2>9, <2>10
<1>8. es \in [1..n -> Entry]
  <2>1. PICK g : g = [i \in 1..n |-> es[i]]
    OBVIOUS
  <2>2. es = g
    BY <1>6, <2>1
  <2> QED BY <1>7, <2>1, <2>2
<1>9. es \in Seq(Entry) /\ Len(es) = n
  BY <1>4, <1>8, LenProperties, SeqDef
<1> QED BY <1>3, <1>7, <1>9 DEF Writes

(* A save changes the state file only. *)
LEMMA SavingInv ==
  ASSUME CellsInv, UNCHANGED << use, table, data, aborted, want, wantPos >>, SavedInv'
  PROVE  CellsInv'
<1>1. /\ use \in Uses /\ ~aborted /\ data \in [Ids -> Seq(Ids)] /\ want \in [Ids -> Seq(Ids)]
      /\ wantPos \in [Ids -> -1..(Forever - 1)]
  BY InvParts
<1>2. Good(table, data) /\ Counted(table) /\ Kept(table, data, want, wantPos)
      /\ Blank(table, want, wantPos)
  BY InvParts
<1>3. want' = [s \in Ids |-> want'[s]] /\ wantPos' = [s \in Ids |-> wantPos'[s]]
  BY <1>1
<1> QED BY <1>1, <1>2, <1>3, InvNext

LEMMA SaveSeqInv ==
  ASSUME CellsInv, SaveSeq
  PROVE  CellsInv'
<1>1. use \in Uses /\ Good(table, data) /\ Blank(table, want, wantPos)
  BY InvParts
<1>2. /\ use' = use /\ UNCHANGED << use, table, data, aborted, want, wantPos >>
  BY DEF SaveSeq
<1>3. PICK s \in Ids :
        /\ want[s] # << >>
        /\ saved' = [kind    |-> "seq",
                     entries |-> EntriesOf({c \in Ids : s \in table.cells[c].seqs}, FALSE)]
  BY Zenon DEF SaveSeq
<1>4. PICK c : c = table.tail[s]
  OBVIOUS
<1>5. c \in Ids
  BY <1>1, <1>3, <1>4, TableTypes DEF Blank, Good
<1>6. PICK S : S = {x \in Ids : s \in table.cells[x].seqs}
  OBVIOUS
<1>7. S = {c} /\ S \in SUBSET Occupied(table.cells)
  <2>1. \A x \in Ids : s \in table.cells[x].seqs <=> x = c
    BY <1>1, <1>4, <1>5 DEF Good, Agree
  <2> QED BY <1>5, <1>6, <2>1 DEF Occupied
<1>8. PICK es : es = EntriesOf(S, FALSE)
  OBVIOUS
<1>9. FALSE \in BOOLEAN
  OBVIOUS
<1>10. Writes(S, FALSE, es)
  BY <1>7, <1>8, <1>9, EntriesAre, Zenon
<1>11. es \in Seq(Entry) /\ Len(es) = Cardinality(S)
  BY <1>10, Zenon DEF Writes
<1>12. Cardinality(S) = 1
  BY <1>7, FS_Singleton
<1>13. saved' = [kind |-> "seq", entries |-> es]
  BY <1>3, <1>6, <1>8, Zenon
<1>14. Entry' = Entry /\ Size' = Size
  BY <1>2 DEF Entry, Ids, Size
<1>15. SavedInv'
  BY <1>11, <1>12, <1>13, <1>14 DEF SavedInv
<1> QED BY <1>2, <1>15, SavingInv

LEMMA SaveAllInv ==
  ASSUME CellsInv, SaveAll
  PROVE  CellsInv'
<1>1. use \in Uses /\ Good(table, data)
  BY InvParts
<1>2. UNCHANGED << use, table, data, aborted, want, wantPos >>
  BY DEF SaveAll
<1>3. PICK S : S = Occupied(table.cells)
  OBVIOUS
<1>4. PICK es : es = EntriesOf(S, TRUE)
  OBVIOUS
<1>5. TRUE \in BOOLEAN /\ S \in SUBSET Occupied(table.cells)
  BY <1>3
<1>6. Writes(S, TRUE, es)
  BY <1>4, <1>5, EntriesAre, Zenon
<1>7. es \in Seq(Entry) /\ Len(es) = Cardinality(S)
  BY <1>6, Zenon DEF Writes
<1>8. \A i \in 1..Len(es) : es[i].seqs = table.cells[CellAt(S, i)].seqs
  BY <1>6, Zenon DEF Writes
<1>9. S \in SUBSET Ids
  BY <1>3 DEF Occupied
<1>10. /\ Len(es) \in Nat /\ Len(es) <= Size
       /\ \A i \in 1..Len(es) : CellAt(S, i) \in S
       /\ \A i, j \in 1..Len(es) : CellAt(S, i) = CellAt(S, j) => i = j
  BY <1>1, <1>7, <1>9, CellAtFacts
<1>11. ASSUME NEW i \in 1..Len(es) PROVE es[i].seqs # {}
  <2>1. CellAt(S, i) \in S
    BY <1>10
  <2> QED BY <1>3, <1>8, <2>1 DEF Occupied
<1>12. ASSUME NEW i \in 1..Len(es), NEW j \in 1..Len(es), i # j
       PROVE  es[i].seqs \cap es[j].seqs = {}
  <2> SUFFICES ASSUME NEW s, s \in es[i].seqs, s \in es[j].seqs PROVE FALSE
    OBVIOUS
  <2>1. PICK c, x : c = CellAt(S, i) /\ x = CellAt(S, j)
    OBVIOUS
  <2>2. c \in Ids /\ x \in Ids /\ c # x
    BY <1>9, <1>10, <1>12, <2>1
  <2>3. s \in table.cells[c].seqs /\ s \in table.cells[x].seqs
    BY <1>8, <2>1
  <2>4. s \in Ids
    BY <1>1, <2>2, <2>3, TableTypes DEF Good
  <2> QED BY <1>1, <2>2, <2>3, <2>4 DEF Good, Agree
<1>13. saved' = [kind |-> "all", entries |-> es]
  BY <1>3, <1>4, Zenon DEF SaveAll
<1>14. Entry' = Entry /\ Size' = Size
  BY <1>2 DEF Entry, Ids, Size
<1>15. saved'.kind = "all" /\ saved'.entries = es
  BY <1>13
<1>16. saved' \in [kind : {"none", "seq", "all"}, entries : Seq(Entry)]
  BY <1>7, <1>13
<1>17. DOMAIN es = 1..Len(es)
  BY <1>7
<1>18. SavedInv'
  BY <1>10, <1>11, <1>12, <1>14, <1>15, <1>16, <1>17 DEF SavedInv
<1> QED BY <1>2, <1>18, SavingInv

(* The slot a sequence is loaded into: its own again, whatever row X is read  *)
(* into it, and the others are what they were.                                *)
Loads(s, pos, X, t, lo) ==
  /\ Good(t, X) /\ Counted(t) /\ lo \in Ids
  /\ t.tail[s] = lo /\ t.cells[lo].pos = pos
  /\ \A x \in Ids : x # s => (t.tail[x] = None <=> table.tail[x] = None)
  /\ \A x \in Ids : x # s /\ t.tail[x] # None =>
       X[t.tail[x]] = want[x] /\ t.cells[t.tail[x]].pos = wantPos[x]

LEMMA EmptiedFacts ==
  ASSUME use \in Uses, NEW t, NEW d, Good(t, d), NEW s \in Ids, NEW r, r = SeqRmTo(t, s, 0, Forever)
  PROVE  /\ Good(r, d) /\ (Counted(t) => Counted(r))
         /\ \A x \in Ids : r.tail[x] = IF x = s THEN None ELSE t.tail[x]
         /\ \A x \in Ids : r.tail[x] # None => r.cells[r.tail[x]].pos = t.cells[t.tail[x]].pos
<1>1. PICK gone \in BOOLEAN :
        gone <=> (t.tail[s] # None /\ InRange(t.cells[t.tail[s]].pos, 0, Forever))
  OBVIOUS
<1>2. 0 \in Nat /\ Forever \in Int
  BY IdsFacts
<1>3. Good(r, d)
  BY <1>1, <1>2, SeqRmFacts
<1>4. Counted(t) => Counted(r)
  BY <1>1, <1>2, SeqRmFacts
<1>5. Removes(t, s, gone, r)
  BY <1>1, <1>2, SeqRmFacts
<1>6. t.tail[s] # None => gone
  <2> SUFFICES ASSUME t.tail[s] # None PROVE InRange(t.cells[t.tail[s]].pos, 0, Forever)
    BY <1>1
  <2>1. t.tail[s] \in Ids
    BY TableTypes DEF Good
  <2>2. t.cells[t.tail[s]].seqs # {}
    BY <2>1 DEF Good, Agree
  <2>3. t.cells[t.tail[s]].pos \in 0..(Forever - 1)
    BY <2>1, <2>2 DEF Good, Entries
  <2> QED BY <1>2, <2>3 DEF InRange
<1> QED BY <1>3, <1>4, <1>5, <1>6 DEF Removes

LEMMA LoadSlot ==
  ASSUME CellsInv, saved.kind = "seq", NEW s \in Ids, NEW slot, slot = SlotToLoad(s),
         NEW X \in [Ids -> Seq(Ids)], \A c \in Ids : c # slot.lo => X[c] = data[c]
  PROVE  slot.ok /\ Loads(s, saved.entries[1].pos, X, slot.t, slot.lo)
<1>1. use \in Uses /\ data \in [Ids -> Seq(Ids)] /\ want \in [Ids -> Seq(Ids)]
      /\ Good(table, data) /\ Kept(table, data, want, wantPos)
  BY InvParts
<1>2. PICK pos : pos = saved.entries[1].pos
  OBVIOUS
<1>3. pos \in 0..(Forever - 1)
  <2>1. saved.entries \in Seq(Entry) /\ Len(saved.entries) = 1
    BY InvParts DEF SavedInv
  <2>2. saved.entries[1] \in Entry
    BY <2>1
  <2> QED BY <1>2, <2>2 DEF Entry
<1>4. PICK b : b = SeqRmTo(table, s, 0, Forever)
  OBVIOUS
<1>5. PICK u : u = << << s >> >>
  OBVIOUS
<1>6. PICK lastPos : lastPos = << pos >>
  OBVIOUS
<1>7. slot = FindSlot(b, u, lastPos)
  BY <1>2, <1>4, <1>5, <1>6 DEF SlotToLoad
<1>8. Good(b, data)
  BY <1>1, <1>4, EmptiedFacts
<1>9. /\ \A x \in Ids : b.tail[x] = IF x = s THEN None ELSE table.tail[x]
      /\ \A x \in Ids : b.tail[x] # None => b.cells[b.tail[x]].pos = table.cells[table.tail[x]].pos
  BY <1>1, <1>4, EmptiedFacts
<1>10. PICK w : w = [want EXCEPT ![s] = << >>]
  OBVIOUS
<1>11. w[s] = << >> /\ \A x \in Ids : x # s => w[x] = want[x]
  BY <1>1, <1>10
<1>12. Kept(b, data, w, wantPos)
  <2> SUFFICES ASSUME NEW x \in Ids, b.tail[x] # None
               PROVE  w[x] = data[b.tail[x]] /\ wantPos[x] = b.cells[b.tail[x]].pos
    BY DEF Kept
  <2>1. /\ x # s /\ b.tail[x] = table.tail[x]
        /\ b.cells[b.tail[x]].pos = table.cells[table.tail[x]].pos
    BY <1>9
  <2> QED BY <1>1, <1>11, <2>1 DEF Kept
<1>13. /\ IsUbatch(u) /\ Len(u) = 1 /\ Owner(u, 1) = s /\ ToSet(u[1]) = {s}
       /\ \A j \in 1..Len(u) : j = 1
  <2>1. IsUbatch(u)
    BY <1>5, OneList
  <2>2. Len(u) = 1 /\ u[1] = << s >> /\ DOMAIN u[1] = {1} /\ u[1][1] = s
    BY <1>5
  <2>3. \A x : x \in ToSet(u[1]) <=> x = s
    BY <2>2 DEF ToSet
  <2>4. ToSet(u[1]) = {s}
    BY <2>3
  <2> QED BY <2>1, <2>2, <2>4 DEF Owner
<1>14. \A j \in 1..Len(u) : b.tail[Owner(u, j)] = None => w[Owner(u, j)] = << >>
  BY <1>11, <1>13
<1>15. \A k \in 1..Len(u) : lastPos[k] \in 0..(Forever - 1)
  BY <1>3, <1>6, <1>13
<1>16. PICK R : R = RowsAfter(data, slot, u)
  OBVIOUS
<1>17. slot.ok /\ Placed(b, data, w, wantPos, u, lastPos, slot.t, slot.lo, slot.hi, R)
  <2>1. IsUbatch(u) /\ use \in Uses /\ data \in [Ids -> Seq(Ids)]
    BY <1>1, <1>13
  <2>2. /\ slot.ok
        /\ Placed(b, data, w, wantPos, u, lastPos, slot.t, slot.lo, slot.hi,
                  RowsAfter(data, slot, u))
    BY <1>7, <1>8, <1>12, <1>14, <1>15, <2>1, FindSlotFacts
  <2> QED BY <1>16, <2>2
<1>18. PICK new, lo, hi : new = slot.t /\ lo = slot.lo /\ hi = slot.hi
  OBVIOUS
<1>19. Placed(b, data, w, wantPos, u, lastPos, new, lo, hi, R)
  BY <1>17, <1>18
<1>20. Good(new, R) /\ Counted(new) /\ lo \in Ids /\ lo = hi
  BY <1>13, <1>19 DEF Placed
<1>21. \A c \in Ids : c < lo \/ c > hi => R[c] = data[c]
  BY <1>19 DEF Placed
<1>22. ASSUME NEW c \in Ids, c # lo PROVE X[c] = R[c]
  <2>1. c \in Nat /\ lo \in Nat
    BY <1>1, <1>20, IdsFacts
  <2>2. c < lo \/ c > hi
    BY <1>20, <1>22, <2>1
  <2> QED BY <1>18, <1>21, <1>22, <2>2
<1>23. new.tail[s] = lo /\ new.cells[lo].pos = pos
  <2>1. new.tail[s] = lo + 1 - 1 /\ new.cells[new.tail[s]].pos = lastPos[1]
    BY <1>13, <1>19 DEF Placed
  <2>2. lo \in Nat
    BY <1>1, <1>20, IdsFacts
  <2> QED BY <1>6, <2>1, <2>2
<1>24. Good(new, X)
  <2>1. new \in Table /\ Agree(new) /\ Entries(new, R)
    BY <1>20 DEF Good
  <2>2. new.cells[lo].seqs # {}
    BY <1>20, <1>23, <2>1 DEF Agree
  <2>3. Entries(new, X)
    BY <1>22, <2>1, <2>2 DEF Entries
  <2> QED BY <2>1, <2>3 DEF Good
<1>25. ASSUME NEW x \in Ids, x # s
       PROVE  /\ new.tail[x] = None <=> table.tail[x] = None
              /\ new.tail[x] # None =>
                   X[new.tail[x]] = want[x] /\ new.cells[new.tail[x]].pos = wantPos[x]
  <2>1. InNone(u, x)
    BY <1>13, <1>25 DEF InNone
  <2>2. new.tail[x] = None <=> b.tail[x] = None
    BY <1>19, <2>1 DEF Placed
  <2>3. ASSUME new.tail[x] # None
        PROVE  X[new.tail[x]] = want[x] /\ new.cells[new.tail[x]].pos = wantPos[x]
    <3>1. /\ R[new.tail[x]] = w[x] /\ new.cells[new.tail[x]].pos = wantPos[x]
          /\ \A j \in 1..Len(u) : new.tail[x] # lo + j - 1
      BY <1>19, <2>1, <2>3 DEF Placed
    <3>2. lo \in Nat
      BY <1>1, <1>20, IdsFacts
    <3>3. new.tail[x] # lo
      BY <1>13, <3>1, <3>2
    <3>4. new.tail[x] \in Ids
      BY <1>1, <1>20, <2>3, TableTypes DEF Good
    <3> QED BY <1>11, <1>22, <1>25, <3>1, <3>3, <3>4
  <2> QED BY <1>9, <1>25, <2>2, <2>3
<1>26. Loads(s, pos, X, new, lo)
  BY <1>20, <1>23, <1>24, <1>25 DEF Loads
<1> QED BY <1>2, <1>17, <1>18, <1>26

LEMMA LoadSeqInv ==
  ASSUME CellsInv, LoadSeq
  PROVE  CellsInv'
<1>1. /\ use \in Uses /\ ~aborted /\ data \in [Ids -> Seq(Ids)] /\ want \in [Ids -> Seq(Ids)]
      /\ wantPos \in [Ids -> -1..(Forever - 1)] /\ SavedInv
  BY InvParts
<1>2. Blank(table, want, wantPos)
  BY InvParts
<1>3. saved.kind = "seq" /\ use' = use /\ saved' = saved
  BY DEF LoadSeq
<1>4. PICK s \in Ids :
        LET entry == saved.entries[1]
            slot  == SlotToLoad(s)
        IN  /\ aborted' = ~(slot.ok /\ slot.t.cells[slot.lo].pos = entry.pos)
            /\ table' = IF slot.ok THEN slot.t ELSE table
            /\ data' = IF slot.ok THEN [data EXCEPT ![slot.lo] = entry.row] ELSE data
            /\ want' = [want EXCEPT ![s] = entry.row]
            /\ wantPos' = [wantPos EXCEPT ![s] = entry.pos]
  BY Zenon DEF LoadSeq
<1>5. PICK slot, entry : slot = SlotToLoad(s) /\ entry = saved.entries[1]
  OBVIOUS
<1>6. entry.row \in Seq(Ids) /\ entry.pos \in 0..(Forever - 1)
  <2>1. saved.entries \in Seq(Entry) /\ Len(saved.entries) = 1
    BY <1>1, <1>3 DEF SavedInv
  <2>2. saved.entries[1] \in Entry
    BY <2>1
  <2> QED BY <1>5, <2>2 DEF Entry
<1>7. PICK X : X = [data EXCEPT ![slot.lo] = entry.row]
  OBVIOUS
<1>8. X \in [Ids -> Seq(Ids)] /\ \A c \in Ids : c # slot.lo => X[c] = data[c]
  BY <1>1, <1>6, <1>7
<1>9. slot.ok /\ Loads(s, entry.pos, X, slot.t, slot.lo)
  BY <1>3, <1>5, <1>8, LoadSlot
<1>10. PICK new, lo : new = slot.t /\ lo = slot.lo
  OBVIOUS
<1>11. /\ Good(new, X) /\ Counted(new) /\ lo \in Ids
       /\ new.tail[s] = lo /\ new.cells[lo].pos = entry.pos
  BY <1>9, <1>10 DEF Loads
<1>12. X[lo] = entry.row
  BY <1>1, <1>7, <1>10, <1>11
<1>13. /\ table' = new /\ data' = X
       /\ want' = [want EXCEPT ![s] = entry.row] /\ wantPos' = [wantPos EXCEPT ![s] = entry.pos]
  BY <1>4, <1>5, <1>7, <1>9, <1>10
<1>14. ~aborted'
  BY <1>4, <1>5, <1>9, <1>10, <1>11
<1>15. \A x \in Ids : /\ want'[x] = IF x = s THEN entry.row ELSE want[x]
                      /\ wantPos'[x] = IF x = s THEN entry.pos ELSE wantPos[x]
  BY <1>1, <1>13
<1>16. /\ \A x \in Ids : x # s => (new.tail[x] = None <=> table.tail[x] = None)
       /\ \A x \in Ids : x # s /\ new.tail[x] # None =>
            X[new.tail[x]] = want[x] /\ new.cells[new.tail[x]].pos = wantPos[x]
  BY <1>9, <1>10 DEF Loads
<1>17. Kept(new, X, want', wantPos')
  BY <1>11, <1>12, <1>15, <1>16 DEF Kept
<1>18. None \notin Ids
  BY <1>1, IdsFacts
<1>19. Blank(new, want', wantPos')
  BY <1>2, <1>11, <1>15, <1>16, <1>18 DEF Blank
<1>20. want' = [x \in Ids |-> want'[x]] /\ wantPos' = [x \in Ids |-> wantPos'[x]]
  BY <1>1, <1>13
<1>21. SavedInv'
  BY <1>1, <1>3, SavedStays
<1> QED BY <1>1, <1>3, <1>8, <1>11, <1>13, <1>14, <1>17, <1>19, <1>20, <1>21, InvNext

LEMMA LoadSeqFailsInv ==
  ASSUME CellsInv, LoadSeqFails
  PROVE  CellsInv'
<1>1. /\ use \in Uses /\ ~aborted /\ data \in [Ids -> Seq(Ids)] /\ want \in [Ids -> Seq(Ids)]
      /\ wantPos \in [Ids -> -1..(Forever - 1)] /\ SavedInv
  BY InvParts
<1>2. Blank(table, want, wantPos)
  BY InvParts
<1>3. saved.kind = "seq" /\ use' = use /\ saved' = saved /\ aborted' = aborted
  BY DEF LoadSeqFails
<1>4. PICK s \in Ids :
        LET slot == SlotToLoad(s)
        IN  /\ table' = SeqRmTo(slot.t, s, 0, Forever)
            /\ data' \in {data, [data EXCEPT ![slot.lo] = saved.entries[1].row]}
            /\ want' = [want EXCEPT ![s] = << >>]
            /\ wantPos' = [wantPos EXCEPT ![s] = -1]
  BY Zenon DEF LoadSeqFails
<1>5. PICK slot, entry : slot = SlotToLoad(s) /\ entry = saved.entries[1]
  OBVIOUS
<1>6. entry.row \in Seq(Ids) /\ entry.pos \in 0..(Forever - 1)
  <2>1. saved.entries \in Seq(Entry) /\ Len(saved.entries) = 1
    BY <1>1, <1>3 DEF SavedInv
  <2>2. saved.entries[1] \in Entry
    BY <2>1
  <2> QED BY <1>5, <2>2 DEF Entry
<1>7. PICK X : X = data'
  OBVIOUS
<1>8. X = data \/ X = [data EXCEPT ![slot.lo] = entry.row]
  BY <1>4, <1>5, <1>7
<1>9. X \in [Ids -> Seq(Ids)] /\ \A c \in Ids : c # slot.lo => X[c] = data[c]
  BY <1>1, <1>6, <1>8
<1>10. Loads(s, entry.pos, X, slot.t, slot.lo)
  BY <1>3, <1>5, <1>9, LoadSlot
<1>11. PICK new, r : new = slot.t /\ r = table'
  OBVIOUS
<1>12. r = SeqRmTo(new, s, 0, Forever)
  BY <1>4, <1>5, <1>11
<1>13. Good(new, X) /\ Counted(new)
  BY <1>10, <1>11 DEF Loads
<1>14. Good(r, X) /\ Counted(r)
  BY <1>1, <1>12, <1>13, EmptiedFacts
<1>15. /\ \A x \in Ids : r.tail[x] = IF x = s THEN None ELSE new.tail[x]
       /\ \A x \in Ids : r.tail[x] # None => r.cells[r.tail[x]].pos = new.cells[new.tail[x]].pos
  BY <1>1, <1>12, <1>13, EmptiedFacts
<1>16. \A x \in Ids : /\ want'[x] = IF x = s THEN << >> ELSE want[x]
                      /\ wantPos'[x] = IF x = s THEN -1 ELSE wantPos[x]
  BY <1>1, <1>4
<1>17. /\ \A x \in Ids : x # s => (new.tail[x] = None <=> table.tail[x] = None)
       /\ \A x \in Ids : x # s /\ new.tail[x] # None =>
            X[new.tail[x]] = want[x] /\ new.cells[new.tail[x]].pos = wantPos[x]
  BY <1>10, <1>11 DEF Loads
<1>18. Kept(r, X, want', wantPos')
  <2> SUFFICES ASSUME NEW x \in Ids, r.tail[x] # None
               PROVE  want'[x] = X[r.tail[x]] /\ wantPos'[x] = r.cells[r.tail[x]].pos
    BY DEF Kept
  <2>1. x # s /\ r.tail[x] = new.tail[x] /\ r.cells[r.tail[x]].pos = new.cells[new.tail[x]].pos
    BY <1>15
  <2> QED BY <1>16, <1>17, <2>1
<1>19. Blank(r, want', wantPos')
  <2> SUFFICES ASSUME NEW x \in Ids, r.tail[x] = None PROVE want'[x] = << >> /\ wantPos'[x] = -1
    BY DEF Blank
  <2>1. CASE x = s
    BY <1>16, <2>1
  <2>2. CASE x # s
    <3>1. table.tail[x] = None
      BY <1>15, <1>17, <2>2
    <3> QED BY <1>2, <1>16, <2>2, <3>1 DEF Blank
  <2> QED BY <2>1, <2>2
<1>20. want' = [x \in Ids |-> want'[x]] /\ wantPos' = [x \in Ids |-> wantPos'[x]]
  BY <1>1, <1>4
<1>21. SavedInv'
  BY <1>1, <1>3, SavedStays
<1> QED BY <1>1, <1>3, <1>7, <1>9, <1>11, <1>14, <1>18, <1>19, <1>20, <1>21, InvNext

(* The entry of a sequence in a file of the whole state. *)
HasEntry(es, n, s, at) ==
  /\ at \in 0..(n - 1) /\ s \in es[at + 1].seqs
  /\ \A i \in 1..n : s \in es[i].seqs => i = at + 1

LEMMA EntryOf ==
  ASSUME use \in Uses, SavedInv, saved.kind = "all", NEW es, es = saved.entries,
         NEW n, n = Len(es), NEW s \in Ids, NEW of, of = {i \in 1..n : s \in es[i].seqs},
         NEW at, at = (CHOOSE i \in of : TRUE) - 1
  PROVE  of # {} => HasEntry(es, n, s, at)
<1>1. /\ n \in Nat /\ DOMAIN es = 1..n
      /\ \A i, j \in DOMAIN es : i # j => es[i].seqs \cap es[j].seqs = {}
  BY DEF SavedInv
<1> SUFFICES ASSUME of # {}
             PROVE  /\ at \in 0..(n - 1) /\ s \in es[at + 1].seqs
                    /\ \A i \in 1..n : s \in es[i].seqs => i = at + 1
  BY DEF HasEntry
<1>2. PICK k : k = CHOOSE i \in of : TRUE
  OBVIOUS
<1>3. k \in 1..n /\ s \in es[k].seqs
  BY <1>2
<1>4. at = k - 1
  BY <1>2
<1>5. at \in 0..(n - 1) /\ at + 1 = k
  BY <1>1, <1>3, <1>4
<1>6. ASSUME NEW i \in 1..n, s \in es[i].seqs PROVE i = k
  BY <1>1, <1>3, <1>6
<1> QED BY <1>3, <1>5, <1>6

LEMMA LoadAllInv ==
  ASSUME CellsInv, LoadAll
  PROVE  CellsInv'
<1>1. use \in Uses /\ ~aborted /\ SavedInv
  BY InvParts
<1>2. saved.kind = "all" /\ use' = use /\ saved' = saved /\ aborted' = aborted
  BY DEF LoadAll
<1> DEFINE es == saved.entries
           n == Len(es)
           entryOf(s) == {i \in 1..n : s \in es[i].seqs}
           cellOf(s) == (CHOOSE i \in entryOf(s) : TRUE) - 1
<1>0. /\ table' = [cells |-> [c \in Ids |-> IF c < n THEN [pos |-> es[c + 1].pos, src |-> c,
                                                           seqs |-> es[c + 1].seqs]
                                            ELSE EmptyCell],
                   tail  |-> [s \in Ids |-> IF entryOf(s) = {} THEN None ELSE cellOf(s)],
                   head  |-> 0, used |-> n]
      /\ data' = [c \in Ids |-> IF c < n THEN es[c + 1].row ELSE << >>]
      /\ want' = [s \in Ids |-> IF entryOf(s) = {} THEN << >> ELSE es[cellOf(s) + 1].row]
      /\ wantPos' = [s \in Ids |-> IF entryOf(s) = {} THEN -1 ELSE es[cellOf(s) + 1].pos]
  BY DEF LoadAll
<1>3. es = saved.entries /\ n = Len(es)
  OBVIOUS
<1> HIDE DEF es, n, cellOf
<1>4. /\ es \in Seq(Entry) /\ n \in Nat /\ DOMAIN es = 1..n /\ n <= Size
      /\ \A i \in 1..n : es[i].seqs # {}
  <2>1. es \in Seq(Entry)
    BY <1>1, <1>3 DEF SavedInv
  <2>2. n \in Nat /\ DOMAIN es = 1..n
    BY <1>3, <2>1
  <2> QED BY <1>1, <1>2, <1>3, <2>1, <2>2 DEF SavedInv
<1>5. PICK of : of = [s \in Ids |-> {i \in 1..n : s \in es[i].seqs}]
  OBVIOUS
<1>6. PICK at : at = [s \in Ids |-> (CHOOSE i \in of[s] : TRUE) - 1]
  OBVIOUS
<1>7. PICK cells : cells = [c \in Ids |-> IF c < n THEN [pos |-> es[c + 1].pos, src |-> c,
                                                         seqs |-> es[c + 1].seqs]
                                          ELSE EmptyCell]
  OBVIOUS
<1>8. PICK tail : tail = [s \in Ids |-> IF of[s] = {} THEN None ELSE at[s]]
  OBVIOUS
<1>9. /\ table' = [cells |-> cells, tail |-> tail, head |-> 0, used |-> n]
      /\ data' = [c \in Ids |-> IF c < n THEN es[c + 1].row ELSE << >>]
      /\ want' = [s \in Ids |-> IF of[s] = {} THEN << >> ELSE es[at[s] + 1].row]
      /\ wantPos' = [s \in Ids |-> IF of[s] = {} THEN -1 ELSE es[at[s] + 1].pos]
  <2>1. /\ table' = [cells |-> cells,
                     tail  |-> [s \in Ids |-> IF entryOf(s) = {} THEN None ELSE cellOf(s)],
                     head  |-> 0, used |-> n]
        /\ data' = [c \in Ids |-> IF c < n THEN es[c + 1].row ELSE << >>]
        /\ want' = [s \in Ids |-> IF entryOf(s) = {} THEN << >> ELSE es[cellOf(s) + 1].row]
        /\ wantPos' = [s \in Ids |-> IF entryOf(s) = {} THEN -1 ELSE es[cellOf(s) + 1].pos]
    BY <1>0, <1>7
  <2>2. ASSUME NEW s \in Ids PROVE of[s] = entryOf(s) /\ at[s] = cellOf(s)
    <3>1. of[s] = entryOf(s)
      BY <1>5
    <3>2. at[s] = (CHOOSE i \in of[s] : TRUE) - 1
      BY <1>6
    <3> HIDE DEF entryOf
    <3> QED BY <3>1, <3>2 DEF cellOf
  <2> HIDE DEF entryOf
  <2>3. tail = [s \in Ids |-> IF entryOf(s) = {} THEN None ELSE cellOf(s)]
    BY <1>8, <2>2
  <2>4. want' = [s \in Ids |-> IF of[s] = {} THEN << >> ELSE es[at[s] + 1].row]
    BY <2>1, <2>2
  <2>5. wantPos' = [s \in Ids |-> IF of[s] = {} THEN -1 ELSE es[at[s] + 1].pos]
    BY <2>1, <2>2
  <2> QED BY <2>1, <2>3, <2>4, <2>5
<1>10. ASSUME NEW s \in Ids
       PROVE  of[s] # {} => /\ at[s] \in 0..(n - 1) /\ s \in es[at[s] + 1].seqs
                            /\ \A i \in 1..n : s \in es[i].seqs => i = at[s] + 1
  <2>1. of[s] = {i \in 1..n : s \in es[i].seqs} /\ at[s] = (CHOOSE i \in of[s] : TRUE) - 1
    BY <1>5, <1>6
  <2>2. PICK set : set = of[s]
    OBVIOUS
  <2>3. set = {i \in 1..n : s \in es[i].seqs}
    BY <2>1, <2>2
  <2>4. PICK k : k = at[s]
    OBVIOUS
  <2>5. k = (CHOOSE i \in set : TRUE) - 1
    BY <2>1, <2>2, <2>4
  <2>6. set # {} => HasEntry(es, n, s, k)
    BY <1>1, <1>2, <1>3, <2>3, <2>5, EntryOf
  <2> QED BY <2>2, <2>4, <2>6 DEF HasEntry
<1>11. PICK new, X, w, p : new = table' /\ X = data' /\ w = want' /\ p = wantPos'
  OBVIOUS
<1>12. new.cells = cells /\ new.tail = tail /\ new.used = n
  BY <1>9, <1>11
<1>13. /\ Size \in Nat \ {0} /\ Ids \subseteq Nat /\ None \notin Ids /\ 0 \in Ids /\ Forever \in Nat
       /\ \A c : c \in Ids <=> c \in 0..(Size - 1)
  BY <1>1, IdsFacts DEF Ids
<1>14. ASSUME NEW c \in Ids, c < n
       PROVE  /\ c + 1 \in 1..n /\ es[c + 1] \in Entry
              /\ cells[c] = [pos |-> es[c + 1].pos, src |-> c, seqs |-> es[c + 1].seqs]
              /\ X[c] = es[c + 1].row
  <2>1. c + 1 \in 1..n
    BY <1>4, <1>13, <1>14
  <2>2. es[c + 1] \in Entry
    BY <1>4, <2>1
  <2>3. cells[c] = [pos |-> es[c + 1].pos, src |-> c, seqs |-> es[c + 1].seqs]
    BY <1>7, <1>14
  <2>4. X[c] = es[c + 1].row
    BY <1>9, <1>11, <1>14
  <2> QED BY <2>1, <2>2, <2>3, <2>4
<1>15. ASSUME NEW c \in Ids, ~(c < n) PROVE cells[c] = EmptyCell /\ X[c] = << >>
  BY <1>7, <1>9, <1>11, <1>15
<1>16. /\ EmptyCell \in Cell /\ EmptyCell.pos = -1 /\ EmptyCell.src = None /\ EmptyCell.seqs = {}
  BY <1>1, EmptyCellType
<1>17. ASSUME NEW c \in Ids, c < n
       PROVE  /\ cells[c] \in Cell /\ cells[c].pos = es[c + 1].pos /\ cells[c].src = c
              /\ cells[c].seqs = es[c + 1].seqs /\ es[c + 1].pos \in 0..(Forever - 1)
              /\ es[c + 1].seqs \in SUBSET Ids /\ es[c + 1].row \in Seq(Ids)
  <2>1. /\ es[c + 1].pos \in 0..(Forever - 1) /\ es[c + 1].seqs \in SUBSET Ids
        /\ es[c + 1].row \in Seq(Ids)
    BY <1>14, <1>17 DEF Entry
  <2>2. PICK e : e = es[c + 1]
    OBVIOUS
  <2>3. cells[c] = [pos |-> e.pos, src |-> c, seqs |-> e.seqs]
    BY <1>14, <1>17, <2>2
  <2>4. e.pos \in -1..Forever
    BY <1>13, <2>1, <2>2
  <2>5. cells[c] \in Cell
    BY <2>1, <2>2, <2>3, <2>4 DEF Cell
  <2>6. cells[c].pos = e.pos /\ cells[c].src = c /\ cells[c].seqs = e.seqs
    BY <2>3
  <2> QED BY <2>1, <2>2, <2>5, <2>6
<1>18. cells \in [Ids -> Cell]
  <2>1. \A c \in Ids : cells[c] \in Cell
    BY <1>15, <1>16, <1>17
  <2> QED BY <1>7, <2>1
<1>19. ASSUME NEW s \in Ids
       PROVE  \/ of[s] = {} /\ tail[s] = None /\ w[s] = << >> /\ p[s] = -1
              \/ /\ of[s] # {} /\ tail[s] = at[s] /\ at[s] \in Ids /\ at[s] < n
                 /\ w[s] = es[at[s] + 1].row /\ p[s] = es[at[s] + 1].pos
  <2>1. CASE of[s] = {}
    BY <1>8, <1>9, <1>11, <2>1
  <2>2. CASE of[s] # {}
    <3>1. at[s] \in 0..(n - 1)
      BY <1>10, <2>2
    <3>2. at[s] \in Ids /\ at[s] < n
      BY <1>4, <1>13, <3>1
    <3>3. tail[s] = at[s] /\ w[s] = es[at[s] + 1].row /\ p[s] = es[at[s] + 1].pos
      BY <1>8, <1>9, <1>11, <2>2
    <3> QED BY <2>2, <3>2, <3>3
  <2> QED BY <2>1, <2>2
<1>20. tail \in [Ids -> Ids \cup {None}]
  <2>1. \A s \in Ids : tail[s] \in Ids \cup {None}
    BY <1>19
  <2> QED BY <1>8, <2>1
<1>21. new \in Table
  BY <1>4, <1>9, <1>11, <1>13, <1>18, <1>20 DEF Table
<1>22. Agree(new)
  <2> SUFFICES ASSUME NEW s \in Ids, NEW c \in Ids
               PROVE  (s \in cells[c].seqs) <=> (tail[s] = c)
    BY <1>12 DEF Agree
  <2>1. ASSUME s \in cells[c].seqs PROVE tail[s] = c
    <3>1. c < n
      BY <1>15, <1>16, <2>1
    <3>2. s \in es[c + 1].seqs /\ c + 1 \in 1..n
      BY <1>14, <1>17, <2>1, <3>1
    <3>3. of[s] # {}
      BY <1>5, <3>2
    <3>4. c + 1 = at[s] + 1 /\ at[s] \in 0..(n - 1)
      BY <1>10, <3>2, <3>3
    <3>5. c = at[s]
      BY <1>13, <3>4
    <3> QED BY <1>19, <3>3, <3>5
  <2>2. ASSUME tail[s] = c PROVE s \in cells[c].seqs
    <3>1. of[s] # {} /\ at[s] = c /\ c < n
      BY <1>13, <1>19, <2>2
    <3>2. s \in es[c + 1].seqs
      BY <1>10, <3>1
    <3> QED BY <1>17, <3>1, <3>2
  <2> QED BY <2>1, <2>2
<1>23. Entries(new, X)
  <2> SUFFICES ASSUME NEW c \in Ids
               PROVE  /\ cells[c].src \in {None, c}
                      /\ cells[c].seqs = {} =>
                           cells[c].pos = -1 /\ (cells[c].src = c => X[c] = << >>)
                      /\ cells[c].seqs # {} => cells[c].pos \in 0..(Forever - 1) /\ cells[c].src = c
    BY <1>12 DEF Entries
  <2>1. CASE c < n
    <3>1. c + 1 \in 1..n
      BY <1>14, <2>1
    <3> QED BY <1>4, <1>17, <2>1, <3>1
  <2>2. CASE ~(c < n)
    BY <1>15, <1>16, <2>2
  <2> QED BY <2>1, <2>2
<1>24. Good(new, X)
  BY <1>21, <1>22, <1>23 DEF Good
<1>25. Counted(new)
  <2>1. ASSUME NEW c \in Ids PROVE cells[c].seqs # {} <=> c < n
    <3>1. CASE c < n
      <4>1. c + 1 \in 1..n
        BY <1>14, <3>1
      <4> QED BY <1>4, <1>17, <3>1, <4>1
    <3>2. CASE ~(c < n)
      BY <1>15, <1>16, <3>2
    <3> QED BY <3>1, <3>2
  <2>2. \A c : c \in Ids /\ c < n <=> c \in 0..(n - 1)
    BY <1>4, <1>13
  <2>3. Occupied(cells) = 0..(n - 1)
    BY <2>1, <2>2 DEF Occupied
  <2>4. Cardinality(0..(n - 1)) = IF 0 > n - 1 THEN 0 ELSE (n - 1) - 0 + 1
    <3>1. 0 \in Int /\ n - 1 \in Int
      BY <1>4
    <3> QED BY <3>1, FS_Interval
  <2>5. Cardinality(0..(n - 1)) = n
    BY <1>4, <2>4
  <2> QED BY <1>12, <2>3, <2>5 DEF Counted
<1>26. Kept(new, X, w, p)
  <2> SUFFICES ASSUME NEW s \in Ids, tail[s] # None
               PROVE  w[s] = X[tail[s]] /\ p[s] = cells[tail[s]].pos
    BY <1>12 DEF Kept
  <2>1. /\ tail[s] = at[s] /\ at[s] \in Ids /\ at[s] < n
        /\ w[s] = es[at[s] + 1].row /\ p[s] = es[at[s] + 1].pos
    BY <1>19
  <2> QED BY ZenonT(60), <1>14, <1>17, <2>1
<1>27. Blank(new, w, p)
  BY <1>12, <1>13, <1>19 DEF Blank
<1>28. X \in [Ids -> Seq(Ids)]
  <2>1. << >> \in Seq(Ids)
    OBVIOUS
  <2>2. \A c \in Ids : X[c] \in Seq(Ids)
    BY <1>14, <1>15, <1>17, <2>1
  <2>3. X = [c \in Ids |-> X[c]]
    BY <1>9, <1>11
  <2> QED BY <2>2, <2>3
<1>29. want' = [s \in Ids |-> want'[s]] /\ wantPos' = [s \in Ids |-> wantPos'[s]]
  BY <1>9
<1>30. SavedInv'
  BY <1>1, <1>2, SavedStays
<1> QED BY <1>1, <1>2, <1>11, <1>24, <1>25, <1>26, <1>27, <1>28, <1>29, <1>30, InvNext

-----------------------------------------------------------------------------
(***************************************************************************)
(* The theorems.                                                           *)
(***************************************************************************)
LEMMA NextInv ==
  ASSUME CellsInv, [Next]_vars
  PROVE  CellsInv'
<1>1. CASE Decode
  BY <1>1, DecodeInv
<1>2. CASE SeqRm
  BY <1>2, SeqRmInv
<1>3. CASE SeqCp
  BY <1>3, SeqCpInv
<1>4. CASE SeqKeep
  BY <1>4, SeqKeepInv
<1>5. CASE SeqAdd
  BY <1>5, SeqAddInv
<1>6. CASE SeqDiv
  BY <1>6, SeqDivInv
<1>7. CASE Clear \/ LoadAllFails
  BY <1>7, ClearInv
<1>8. CASE SaveSeq
  BY <1>8, SaveSeqInv
<1>9. CASE LoadSeq
  BY <1>9, LoadSeqInv
<1>10. CASE LoadSeqFails
  BY <1>10, LoadSeqFailsInv
<1>11. CASE SaveAll
  BY <1>11, SaveAllInv
<1>12. CASE LoadAll
  BY <1>12, LoadAllInv
<1>13. CASE UNCHANGED vars
  <2>1. UNCHANGED << use, table, data, aborted, want, wantPos >> /\ UNCHANGED << use, saved >>
    BY <1>13 DEF vars
  <2>2. SavedInv'
    BY <2>1, InvParts, SavedStays
  <2> QED BY <2>1, <2>2, SavingInv
<1> QED BY <1>1, <1>2, <1>3, <1>4, <1>5, <1>6, <1>7, <1>8, <1>9, <1>10, <1>11, <1>12, <1>13 DEF Next

(* Whatever is decoded, coupled, copied, removed, kept, shifted, cleared,     *)
(* saved and restored, in any order and for any number of sequences: the      *)
(* cells, the tails, the rows, the state file and what llama.h promises each  *)
(* sequence stay consistent with each other.                                  *)
THEOREM CellsInvariance == Spec => []CellsInv
<1>1. Init => CellsInv
  BY InitInv
<1>2. CellsInv /\ [Next]_vars => CellsInv'
  BY NextInv
<1> QED BY <1>1, <1>2, PTL DEF Spec

(* The table keeps its type, every source index is staged between calls, and  *)
(* the counter used, maintained by hand in five places, always counts the     *)
(* occupied cells.                                                            *)
THEOREM TableWellFormed == Spec => []CellsTypeOK
<1>1. CellsInv => CellsTypeOK
  BY DEF CellsInv
<1> QED BY <1>1, CellsInvariance, PTL

(* find_slot()'s debug check never fires: a sequence is in exactly the cell   *)
(* its tail names, however its cell was shared, moved, swapped and freed.     *)
THEOREM TailsAgreement == Spec => []TailsAgree
<1>1. CellsInv => TailsAgree
  BY DEF CellsInv
<1> QED BY <1>1, CellsInvariance, PTL

(* No assertion of find_slot() or state_read_meta() fails for any size: every *)
(* ubatch the batch allocator admits finds its empty cells, a run as wide as  *)
(* itself and a row to clear.                                                 *)
THEOREM SlotAlwaysFound == Spec => []NeverAborts
<1>1. CellsInv => NeverAborts
  BY DEF CellsInv, NeverAborts
<1> QED BY <1>1, CellsInvariance, PTL

(* Every sequence computes on its own state: the row of its cell is made of   *)
(* exactly the tokens decoded for it, never of a neighbour's or a former one. *)
THEOREM StateIsolation == Spec => []StatesIsolated
<1>1. ASSUME CellsInv PROVE StatesIsolated
  <2>1. Good(table, data) /\ Kept(table, data, want, wantPos) /\ Blank(table, want, wantPos)
        /\ use \in Uses
    BY <1>1, InvParts
  <2> SUFFICES ASSUME NEW s \in Ids, want[s] # << >>
               PROVE  /\ table.tail[s] # None
                      /\ table.cells[table.tail[s]].src = table.tail[s]
                      /\ data[table.tail[s]] = want[s]
    BY DEF StatesIsolated
  <2>2. table.tail[s] # None
    BY <2>1 DEF Blank
  <2>3. table.tail[s] \in Ids
    BY <2>1, <2>2, TableTypes DEF Good
  <2>4. table.cells[table.tail[s]].seqs # {}
    BY <2>1, <2>3 DEF Good, Agree
  <2>5. table.cells[table.tail[s]].src = table.tail[s]
    BY <2>1, <2>3, <2>4 DEF Good, Entries
  <2> QED BY <2>1, <2>2, <2>5 DEF Kept
<1> QED BY <1>1, CellsInvariance, PTL

(* Every sequence ends at the position its calls put it: through copies,      *)
(* moves between cells, shifts, divisions, saves and restores.                *)
THEOREM PositionsPromised == Spec => []PositionsAsPromised
<1>1. ASSUME CellsInv PROVE PositionsAsPromised
  <2>1. Good(table, data) /\ Kept(table, data, want, wantPos) /\ Blank(table, want, wantPos)
        /\ use \in Uses
    BY <1>1, InvParts
  <2> SUFFICES ASSUME NEW s \in Ids PROVE SeqPosMax(table, s) = wantPos[s]
    BY DEF PositionsAsPromised
  <2>2. SeqPosMax(table, s) = IF table.tail[s] = None THEN -1 ELSE table.cells[table.tail[s]].pos
    BY <2>1, PosIs
  <2> QED BY <2>1, <2>2 DEF Kept, Blank
<1> QED BY <1>1, CellsInvariance, PTL
=============================================================================
