--------------------------- MODULE RecurrentCells ---------------------------
(***************************************************************************)
(* The cell table of llama_memory_recurrent for several sequences.  A cell *)
(* holds the whole state of the sequences that share it; cell i doubles as *)
(* the record of sequence i, whose tail names the cell of that sequence.   *)
(* find_slot() makes the cells of a ubatch contiguous by swapping table    *)
(* entries only; the state rows follow when the graph gathers them through *)
(* the staged source indices (build_rs).                                   *)
(*                                                                         *)
(* A state row is the sequence of tokens folded into it, and a token is    *)
(* named after the sequence it is decoded for, so any mix-up of rows is    *)
(* visible.  want and wantPos are what llama.h promises each sequence.     *)
(***************************************************************************)
EXTENDS Integers, Sequences, FiniteSets, SequencesExt

CONSTANTS
  MaxLen,      (* bound: tokens per sequence                               *)
  Uses         (* how the memory is used: its size, the calls made on it   *)

AllOps == {"couple", "rm", "cp", "keep", "shift", "clear", "seq_state", "full_state"}

ASSUME CellsAssumption ==
  /\ MaxLen \in Nat \ {0}
  /\ Uses \subseteq [size : Nat \ {0}, ops : SUBSET AllOps]

VARIABLES
  use,         (* the use this memory is put to, a bound on behaviours     *)
  table,       (* cells, tail, head and used                               *)
  data,        (* the state row of each cell                               *)
  saved,       (* a saved state file: the entries of the cells it holds    *)
  aborted,     (* a GGML_ASSERT of find_slot() failed                      *)
  want,        (* the tokens each sequence must be made of                 *)
  wantPos      (* the position each sequence must end at                   *)

vars == << use, table, data, saved, aborted, want, wantPos >>

Size == use.size             (* cells, and sequence ids                    *)
Ids == 0..(Size - 1)
None == -1
Forever == MaxLen + 2        (* an end position behind every token         *)

Cell == [pos : -1..Forever, src : Ids \cup {None}, seqs : SUBSET Ids]

Table == [cells : [Ids -> Cell], tail : [Ids -> Ids \cup {None}], head : Ids, used : Int]

EmptyCell == [pos |-> -1, src |-> None, seqs |-> {}]

FreshTable ==
  [cells |-> [c \in Ids |-> EmptyCell], tail |-> [s \in Ids |-> None],
   head |-> 0, used |-> 0]

NoState == [kind |-> "none", entries |-> << >>]

Init ==
  /\ use \in Uses
  /\ table = FreshTable
  /\ data = [c \in Ids |-> << >>]
  /\ saved = NoState
  /\ aborted = FALSE
  /\ want = [s \in Ids |-> << >>]
  /\ wantPos = [s \in Ids |-> -1]

Occupied(cells) == {c \in Ids : cells[c].seqs # {}}

(* The position of the cells that hold the sequence, or -1. *)
SeqPosMax(t, s) ==
  Max({-1} \cup {t.cells[c].pos : c \in {d \in Ids : s \in t.cells[d].seqs}})

-----------------------------------------------------------------------------
(* seq_rm, seq_cp, seq_keep, seq_add, seq_div, clear                       *)

(* A freed slot becomes the head if it lies before it. *)
HeadAfter(head, freed) ==
  IF freed = {} \/ Min(freed) >= head THEN head ELSE Min(freed)

InRange(pos, p0, p1) == p0 <= pos /\ pos < p1

SeqRmRefused(t, s, p0, p1) ==
  /\ t.tail[s] >= 0
  /\ LET pos == t.cells[t.tail[s]].pos
     IN  (0 < p0 /\ p0 < pos) \/ (0 < p1 /\ p1 <= pos)

(* The sequence leaves every cell whose position is in the range. *)
SeqRmTo(t, s, p0, p1) ==
  LET hit   == {c \in Ids : InRange(t.cells[c].pos, p0, p1) /\ s \in t.cells[c].seqs}
      freed == {c \in hit : t.cells[c].seqs = {s}}
      gone  == t.tail[s] >= 0 /\ InRange(t.cells[t.tail[s]].pos, p0, p1)
  IN  [cells |-> [c \in Ids |->
                    IF c \in freed THEN EmptyCell
                    ELSE IF c \in hit THEN [t.cells[c] EXCEPT !.seqs = @ \ {s}]
                         ELSE t.cells[c]],
       tail  |-> IF gone THEN [t.tail EXCEPT ![s] = None] ELSE t.tail,
       head  |-> HeadAfter(t.head, freed),
       used  |-> t.used - Cardinality(freed)]

(* Mutant of Detach: the cell that became empty is not counted off. *)
DetachUncounted(t, s) ==
  IF t.tail[s] = None THEN t
  ELSE LET c == t.tail[s]
           left == t.cells[c].seqs \ {s}
       IN  [t EXCEPT !.cells[c] = IF left = {} THEN [@ EXCEPT !.pos = -1, !.src = None,
                                                             !.seqs = {}]
                                  ELSE [@ EXCEPT !.seqs = left],
                     !.tail[s]  = None]

(* A sequence is taken out of its cell, which is freed with the last one. *)
Detach(t, s) ==
  IF t.tail[s] = None THEN t
  ELSE LET c == t.tail[s]
           left == t.cells[c].seqs \ {s}
       IN  [cells |-> [t.cells EXCEPT ![c] = IF left = {} THEN EmptyCell
                                             ELSE [t.cells[c] EXCEPT !.seqs = left]],
            tail  |-> [t.tail EXCEPT ![s] = None],
            head  |-> t.head,
            used  |-> IF left = {} THEN t.used - 1 ELSE t.used]

(* The destination shares the cell of the source; positions are ignored. *)
SeqCpTo(t, from, to) ==
  LET d == Detach(t, to)
      c == d.tail[from]
  IN  IF from = to THEN t
      ELSE IF c = None THEN d
      ELSE [cells |-> [d.cells EXCEPT ![c] = [d.cells[c] EXCEPT !.seqs = @ \cup {to}]],
            tail  |-> [d.tail EXCEPT ![to] = c], head |-> d.head, used |-> d.used]

SeqKeepTo(t, s) ==
  LET others == {c \in Ids : s \notin t.cells[c].seqs}
  IN  [cells |-> [c \in Ids |-> IF c \in others THEN EmptyCell
                                ELSE [t.cells[c] EXCEPT !.seqs = {s}]],
       tail  |-> [i \in Ids |-> IF i = s THEN t.tail[s] ELSE None],
       head  |-> HeadAfter(t.head, others),
       used  |-> t.used - Cardinality({c \in others : t.cells[c].pos >= 0})]

(* seq_add and seq_div change the position of the cell the sequence is in. *)
Shifted(t, s) == t.tail[s] >= 0 /\ s \in t.cells[t.tail[s]].seqs

WithPos(t, c, pos) == [t EXCEPT !.cells = [t.cells EXCEPT ![c].pos = pos]]

SeqAddTo(t, s, p0, p1, shift) ==
  LET c == t.tail[s]
  IN  IF Shifted(t, s) /\ InRange(t.cells[c].pos, p0, p1)
      THEN WithPos(t, c, t.cells[c].pos + shift) ELSE t

(* Mutant of SeqDivTo: the start of the range is ignored. *)
SeqDivToAll(t, s, p0, p1, d) ==
  LET c == t.tail[s]
  IN  IF Shifted(t, s) /\ t.cells[c].pos < p1 THEN WithPos(t, c, t.cells[c].pos \div d) ELSE t

SeqDivTo(t, s, p0, p1, d) ==
  LET c == t.tail[s]
  IN  IF Shifted(t, s) /\ InRange(t.cells[c].pos, p0, p1)
      THEN WithPos(t, c, t.cells[c].pos \div d) ELSE t

-----------------------------------------------------------------------------
(* find_slot: a ubatch is a sequence of non-empty lists of sequence ids;   *)
(* the tokens of a list are decoded into one cell its sequences share.     *)

Owner(u, k) == u[k][1]

(* A loop over the indices 1..n that carries a value along. *)
Loop(step(_, _), start, n) ==
  LET after[k \in 0..n] == IF k = 0 THEN start ELSE step(after[k - 1], k)
  IN  after[n]

Rewound(t, u) == IF t.head > t.used + 2 * Len(u) THEN [t EXCEPT !.head = 0] ELSE t

(* Sequences that become shared give up the cell they had. *)
FollowersDetached(t, list) ==
  Loop(LAMBDA acc, j : IF j = 1 THEN acc ELSE Detach(acc, list[j]), t, Len(list))

Uncoupled(t, u) == Loop(LAMBDA acc, k : FollowersDetached(acc, u[k]), t, Len(u))

(* Mutant of NextEmpty: the search ends at the end of the table. *)
NextEmptyNoWrap(cells, from) ==
  LET steps == {d \in 0..(Size - 1) : from + d < Size /\ cells[from + d].seqs = {}}
  IN  (from + (IF steps = {} THEN 0 ELSE Min(steps))) % Size

(* The first empty cell from a position on, around the table. *)
NextEmpty(cells, from) ==
  LET steps == {d \in 0..(Size - 1) : cells[(from + d) % Size].seqs = {}}
  IN  (from + (IF steps = {} THEN 0 ELSE Min(steps))) % Size

(* An owner keeps a cell it has alone or moves to an empty one. *)
Owns(t, s) == t.tail[s] # None /\ t.cells[t.tail[s]].seqs = {s}

(* Its entry is copied into the empty cell; those who shared it keep theirs.  *)
CellsMoved(t, s, e) ==
  LET c == t.tail[s]
  IN  IF c = None THEN t.cells
      ELSE [x \in Ids |-> IF x = e THEN [t.cells[c] EXCEPT !.seqs = {s}]
                          ELSE IF x = c THEN [t.cells[c] EXCEPT !.seqs = @ \ {s}]
                          ELSE t.cells[x]]

MovedTo(t, s, e) ==
  [cells |-> CellsMoved(t, s, e), tail |-> [t.tail EXCEPT ![s] = e],
   head |-> t.head, used |-> t.used]

Claim(acc, u, k) ==
  LET s == Owner(u, k)
      c == acc.t.tail[s]
      moved == MovedTo(acc.t, s, acc.next)
  IN  [t    |-> IF Owns(acc.t, s) THEN acc.t ELSE moved,
       next |-> IF Owns(acc.t, s) \/ k = Len(u) THEN acc.next
                ELSE NextEmpty(moved.cells, acc.next + 1),
       ok   |-> /\ acc.ok
                /\ c # None => s \in acc.t.cells[c].seqs
                /\ Owns(acc.t, s) \/ acc.t.cells[acc.next].seqs = {}
                /\ Owns(acc.t, s) \/ c = None \/ acc.t.cells[c].seqs # {s}]

Unclaimed(t) == [t |-> t, next |-> NextEmpty(t.cells, t.head), ok |-> TRUE]

Claimed(t, u) == Loop(LAMBDA acc, k : Claim(acc, u, k), Unclaimed(t), Len(u))

(* Two cells change places, and the tails that name them follow. *)
Swapped(t, a, b) ==
  LET at(c) == IF c = a THEN b ELSE IF c = b THEN a ELSE c
  IN  [cells |-> [c \in Ids |-> t.cells[at(c)]], tail |-> [s \in Ids |-> at(t.tail[s])],
       head |-> t.head, used |-> t.used]

(* The cells of the owners are swapped into one run from lo on. *)
Gathered(t, u, lo) ==
  Loop(LAMBDA acc, k : Swapped(acc, lo + k - 1, acc.tail[Owner(u, k)]), t, Len(u))

(* The cells of the run take the positions and the sequences of their lists.  *)
Occupy(t, c, list, last) ==
  [cells |-> [t.cells EXCEPT ![c] = [pos |-> last, src |-> t.cells[c].src,
                                     seqs |-> ToSet(list)]],
   tail  |-> [s \in Ids |-> IF s \in ToSet(list) THEN c ELSE t.tail[s]],
   head  |-> t.head, used |-> t.used]

Updated(t, u, lo, lastPos) ==
  Loop(LAMBDA acc, k : Occupy(acc, lo + k - 1, u[k], lastPos[k]), t, Len(u))

(* Mutant of StagedSources: a cell without a source is read as it is. *)
StagedSourcesUncleared(cells, lo, hi) ==
  [zero |-> None, src0 |-> [c \in lo..hi |-> IF cells[c].src = None THEN c ELSE cells[c].src]]

(* Where the graph reads each row of the run: a cell without a source reads   *)
(* the first row of the run nobody refers to, which the graph clears first.   *)
StagedSources(cells, lo, hi) ==
  LET free == {c \in lo..hi : \A d \in Ids : cells[d].src # c}
      zero == IF free = {} THEN None ELSE Min(free)
  IN  [zero |-> zero,
       src0 |-> [c \in lo..hi |-> IF cells[c].src = None THEN zero ELSE cells[c].src]]

FindSlot(t, u, lastPos) ==
  LET got    == Claimed(Uncoupled(Rewound(t, u), u), u)
      tails  == {got.t.tail[Owner(u, k)] : k \in DOMAIN u}
      lo     == Min(tails)
      hi     == Max(tails)
      placed == Updated(Gathered(got.t, u, lo), u, lo, lastPos)
      staged == StagedSources(placed.cells, lo, hi)
      cells  == [c \in Ids |-> IF c \in lo..hi THEN [placed.cells[c] EXCEPT !.src = c]
                               ELSE placed.cells[c]]
  IN  [t  |-> [cells |-> cells, tail |-> placed.tail, head |-> lo,
               used  |-> Cardinality(Occupied(cells))],
       lo |-> lo, hi |-> hi, zero |-> staged.zero, src0 |-> staged.src0,
       ok |-> /\ got.ok
              /\ hi - lo + 1 >= Len(u)
              /\ \A c \in lo..hi : staged.src0[c] # None]

(* build_rs and the layer: the zero row is cleared, all rows of the run are   *)
(* gathered through src0, the owners' rows take the new token.                *)
RowsAfter(rows, slot, u) ==
  LET cleared == IF slot.zero = None THEN rows ELSE [rows EXCEPT ![slot.zero] = << >>]
  IN  [c \in Ids |->
         IF c \notin slot.lo..slot.hi THEN cleared[c]
         ELSE LET row == cleared[slot.src0[c]]
              IN  IF c - slot.lo < Len(u) THEN Append(row, Owner(u, c - slot.lo + 1))
                  ELSE row]

-----------------------------------------------------------------------------
(* The calls. *)

Lists == {p \in UNION {[1..n -> Ids] : n \in 1..Size} : IsInjective(p)}

Singly(p) == [i \in DOMAIN p |-> << p[i] >>]

Coupled(p) == << << p[1], p[2] >> >> \o Singly(SubSeq(p, 3, Len(p)))

(* Batches of one token per sequence, in any order; the first two sequences   *)
(* may be coupled (one token for both).                                       *)
Ubatches ==
  {Singly(p) : p \in Lists} \cup
  (IF "couple" \in use.ops THEN {Coupled(p) : p \in {q \in Lists : Len(q) > 1}} ELSE {})

(* What llama_batch_allocr admits: coupled sequences end at the same position,*)
(* and every sequence continues where it ends.                                *)
Admitted(u) ==
  \A k \in DOMAIN u : \A j \in 2..Len(u[k]) :
    SeqPosMax(table, u[k][j]) = SeqPosMax(table, Owner(u, k))

Decode ==
  /\ ~aborted
  /\ \E u \in Ubatches :
       LET lastPos == [k \in DOMAIN u |-> SeqPosMax(table, Owner(u, k)) + 1]
           slot    == FindSlot(table, u, lastPos)
           listOf(s) == {k \in DOMAIN u : s \in ToSet(u[k])}
       IN  /\ \A k \in DOMAIN u : Len(want[Owner(u, k)]) < MaxLen /\ lastPos[k] < Forever
           /\ Admitted(u)
           /\ aborted' = ~slot.ok
           /\ table' = IF slot.ok THEN slot.t ELSE table
           /\ data'  = IF slot.ok THEN RowsAfter(data, slot, u) ELSE data
           /\ want'  = [s \in Ids |->
                          IF listOf(s) = {} THEN want[s]
                          ELSE LET o == Owner(u, CHOOSE k \in listOf(s) : TRUE)
                               IN  Append(want[o], o)]
           /\ wantPos' = [s \in Ids |->
                            IF listOf(s) = {} THEN wantPos[s]
                            ELSE lastPos[CHOOSE k \in listOf(s) : TRUE]]
  /\ UNCHANGED << use, saved >>

SeqRm ==
  /\ ~aborted /\ "rm" \in use.ops
  /\ \E s \in Ids, p0 \in {0, 1}, p1 \in {1, Forever} :
       LET gone == InRange(wantPos[s], p0, p1)
       IN  /\ ~SeqRmRefused(table, s, p0, p1)
           /\ table' = SeqRmTo(table, s, p0, p1)
           /\ want' = IF gone THEN [want EXCEPT ![s] = << >>] ELSE want
           /\ wantPos' = IF gone THEN [wantPos EXCEPT ![s] = -1] ELSE wantPos
  /\ UNCHANGED << use, data, saved, aborted >>

SeqCp ==
  /\ ~aborted /\ "cp" \in use.ops
  /\ \E from, to \in Ids :
       /\ table' = SeqCpTo(table, from, to)
       /\ want' = [want EXCEPT ![to] = want[from]]
       /\ wantPos' = [wantPos EXCEPT ![to] = wantPos[from]]
  /\ UNCHANGED << use, data, saved, aborted >>

SeqKeep ==
  /\ ~aborted /\ "keep" \in use.ops
  /\ \E s \in Ids :
       /\ table' = SeqKeepTo(table, s)
       /\ want' = [i \in Ids |-> IF i = s THEN want[s] ELSE << >>]
       /\ wantPos' = [i \in Ids |-> IF i = s THEN wantPos[s] ELSE -1]
  /\ UNCHANGED << use, data, saved, aborted >>

SharesCell(s) == table.tail[s] # None /\ table.cells[table.tail[s]].seqs # {s}

(* Shifts that keep every position in 0..Forever, of sequences with a cell *)
(* of their own: sequences that share a cell would all be shifted.         *)
SeqAdd ==
  /\ ~aborted /\ "shift" \in use.ops
  /\ \E s \in Ids, p0 \in 0..MaxLen, shift \in {-1, 1} :
       /\ ~SharesCell(s)
       /\ InRange(wantPos[s], p0, Forever) => wantPos[s] + shift \in 0..(Forever - 1)
       /\ table' = SeqAddTo(table, s, p0, Forever, shift)
       /\ wantPos' = IF InRange(wantPos[s], p0, Forever)
                     THEN [wantPos EXCEPT ![s] = @ + shift] ELSE wantPos
  /\ UNCHANGED << use, data, saved, aborted, want >>

SeqDiv ==
  /\ ~aborted /\ "shift" \in use.ops
  /\ \E s \in Ids, p0 \in 0..MaxLen :
       /\ ~SharesCell(s)
       /\ table' = SeqDivTo(table, s, p0, Forever, 2)
       /\ wantPos' = IF InRange(wantPos[s], p0, Forever)
                     THEN [wantPos EXCEPT ![s] = @ \div 2] ELSE wantPos
  /\ UNCHANGED << use, data, saved, aborted, want >>

(* The state rows are cleared only on request. *)
Clear ==
  /\ ~aborted /\ "clear" \in use.ops
  /\ table' = FreshTable
  /\ data' \in {data, [c \in Ids |-> << >>]}
  /\ want' = [s \in Ids |-> << >>]
  /\ wantPos' = [s \in Ids |-> -1]
  /\ UNCHANGED << use, saved, aborted >>

-----------------------------------------------------------------------------
(* State files: state_write and state_read for one sequence and for all.   *)

(* The cells of a set in the order of the table. *)
CellAt(cellSet, i) == CHOOSE c \in cellSet : Cardinality({d \in cellSet : d <= c}) = i

EntriesOf(cellSet, withSeqs) ==
  [i \in 1..Cardinality(cellSet) |->
     LET c == CellAt(cellSet, i)
     IN  [pos  |-> table.cells[c].pos,
          seqs |-> IF withSeqs THEN table.cells[c].seqs ELSE {},
          row  |-> data[c]]]

SaveSeq ==
  /\ ~aborted /\ "seq_state" \in use.ops
  /\ \E s \in Ids :
       /\ want[s] # << >>
       /\ saved' = [kind    |-> "seq",
                    entries |-> EntriesOf({c \in Ids : s \in table.cells[c].seqs}, FALSE)]
  /\ UNCHANGED << use, table, data, aborted, want, wantPos >>

(* state_read_meta for one sequence: it is removed and gets a slot again.  *)
SlotToLoad(s) ==
  FindSlot(SeqRmTo(table, s, 0, Forever), << << s >> >>, << saved.entries[1].pos >>)

(* The cell keeps the row that is read into it. *)
LoadSeq ==
  /\ ~aborted /\ saved.kind = "seq"
  /\ \E s \in Ids :
       LET entry == saved.entries[1]
           slot  == SlotToLoad(s)
       IN  /\ aborted' = ~(slot.ok /\ slot.t.cells[slot.lo].pos = entry.pos)
           /\ table' = IF slot.ok THEN slot.t ELSE table
           /\ data' = IF slot.ok THEN [data EXCEPT ![slot.lo] = entry.row] ELSE data
           /\ want' = [want EXCEPT ![s] = entry.row]
           /\ wantPos' = [wantPos EXCEPT ![s] = entry.pos]
  /\ UNCHANGED << use, saved >>

(* Mutant of LoadSeqFails: the sequence leaves its cell, its tail stays. *)
LoadSeqFailsKept ==
  /\ ~aborted /\ saved.kind = "seq"
  /\ \E s \in Ids :
       LET slot == SlotToLoad(s)
       IN  /\ slot.ok
           /\ table' = [SeqRmTo(slot.t, s, 0, Forever) EXCEPT !.tail = slot.t.tail]
           /\ want' = [want EXCEPT ![s] = << >>]
           /\ wantPos' = [wantPos EXCEPT ![s] = -1]
  /\ UNCHANGED << use, data, saved, aborted >>

(* state_read_data refuses the rows, of which it may have copied some, and *)
(* the sequence is removed again.                                          *)
LoadSeqFails ==
  /\ ~aborted /\ saved.kind = "seq"
  /\ \E s \in Ids :
       LET slot == SlotToLoad(s)
       IN  /\ slot.ok
           /\ table' = SeqRmTo(slot.t, s, 0, Forever)
           /\ data' \in {data, [data EXCEPT ![slot.lo] = saved.entries[1].row]}
           /\ want' = [want EXCEPT ![s] = << >>]
           /\ wantPos' = [wantPos EXCEPT ![s] = -1]
  /\ UNCHANGED << use, saved, aborted >>

SaveAll ==
  /\ ~aborted /\ "full_state" \in use.ops
  /\ saved' = [kind |-> "all", entries |-> EntriesOf(Occupied(table.cells), TRUE)]
  /\ UNCHANGED << use, table, data, aborted, want, wantPos >>

LoadAll ==
  /\ ~aborted /\ saved.kind = "all"
  /\ LET n == Len(saved.entries)
         entryOf(s) == {i \in 1..n : s \in saved.entries[i].seqs}
         cellOf(s)  == (CHOOSE i \in entryOf(s) : TRUE) - 1
     IN  /\ table' = [cells |-> [c \in Ids |->
                                   IF c < n THEN [pos  |-> saved.entries[c + 1].pos,
                                                  src  |-> c,
                                                  seqs |-> saved.entries[c + 1].seqs]
                                   ELSE EmptyCell],
                      tail  |-> [s \in Ids |-> IF entryOf(s) = {} THEN None ELSE cellOf(s)],
                      head  |-> 0,
                      used  |-> n]
         /\ data' = [c \in Ids |-> IF c < n THEN saved.entries[c + 1].row ELSE << >>]
         /\ want' = [s \in Ids |-> IF entryOf(s) = {} THEN << >>
                                   ELSE saved.entries[cellOf(s) + 1].row]
         /\ wantPos' = [s \in Ids |-> IF entryOf(s) = {} THEN -1
                                      ELSE saved.entries[cellOf(s) + 1].pos]
  /\ UNCHANGED << use, saved, aborted >>

(* A failed restore of the whole state clears the memory and its rows. *)
LoadAllFails ==
  /\ ~aborted /\ saved.kind = "all"
  /\ table' = FreshTable
  /\ data' = [c \in Ids |-> << >>]
  /\ want' = [s \in Ids |-> << >>]
  /\ wantPos' = [s \in Ids |-> -1]
  /\ UNCHANGED << use, saved, aborted >>

Next ==
  \/ Decode
  \/ SeqRm \/ SeqCp \/ SeqKeep \/ SeqAdd \/ SeqDiv \/ Clear
  \/ SaveSeq \/ LoadSeq \/ LoadSeqFails \/ SaveAll \/ LoadAll \/ LoadAllFails

Spec == Init /\ [][Next]_vars

-----------------------------------------------------------------------------
(* Properties. *)

(* The table is well-formed; between calls every source index is staged (a    *)
(* cell reads its own row or none); and used, which is kept by hand in five   *)
(* places and decides where the next search starts, counts the occupied cells.*)
CellsTypeOK ==
  /\ table \in Table
  /\ \A c \in Ids : table.cells[c].src \in {None, c}
  /\ table.used = Cardinality(Occupied(table.cells))

(* find_slot()'s own debug check ("duplicate tail", "wrong tail"): a sequence *)
(* is in exactly the cell its tail names, and in none if it has no tail.      *)
TailsAgree ==
  \A s, c \in Ids : (s \in table.cells[c].seqs) <=> (table.tail[s] = c)

(* No GGML_ASSERT of find_slot() or of state_read_meta() fails: whatever was  *)
(* shared, removed or kept before, every ubatch finds enough empty cells and  *)
(* a row to clear.                                                            *)
NeverAborts == ~aborted

(* Every sequence computes on its own state: after any calls, the row of its  *)
(* cell is made of exactly the tokens decoded for it (and for the sequence it *)
(* was copied from), never of a row of another or of a former sequence.       *)
StatesIsolated ==
  \A s \in Ids : want[s] # << >> =>
    /\ table.tail[s] # None
    /\ table.cells[table.tail[s]].src = table.tail[s]
    /\ data[table.tail[s]] = want[s]

(* llama.h on seq_add and seq_div: they change "all tokens that belong to the *)
(* specified sequence".  A sequence with a cell of its own ends where its     *)
(* calls put it, also after its cell was copied, moved and saved.             *)
PositionsAsPromised == \A s \in Ids : SeqPosMax(table, s) = wantPos[s]

-----------------------------------------------------------------------------
(* The inductive invariant. *)

(* The row an entry reads; without a source it reads a cleared one. *)
RowOf(cell) == IF cell.src = None THEN << >> ELSE data[cell.src]

(* Nothing is left in an empty cell, and an occupied one reads its own row.   *)
EntriesInv ==
  \A c \in Ids :
    LET cell == table.cells[c]
    IN  IF cell.seqs = {} THEN cell.pos = -1 /\ RowOf(cell) = << >>
        ELSE cell.pos \in 0..(Forever - 1) /\ cell.src = c

(* A sequence is what its cell holds, or nothing.                             *)
PromiseInv ==
  \A s \in Ids :
    IF table.tail[s] = None THEN want[s] = << >> /\ wantPos[s] = -1
    ELSE want[s] = data[table.tail[s]] /\ wantPos[s] = table.cells[table.tail[s]].pos

Entry == [pos : 0..(Forever - 1), seqs : SUBSET Ids, row : Seq(Ids)]

(* A state file has an entry, or one for each occupied cell, for disjoint     *)
(* sets of sequences.                                                         *)
SavedInv ==
  /\ saved \in [kind : {"none", "seq", "all"}, entries : Seq(Entry)]
  /\ saved.kind = "seq" => Len(saved.entries) = 1
  /\ saved.kind = "all" =>
       /\ Len(saved.entries) <= Size
       /\ \A i \in DOMAIN saved.entries : saved.entries[i].seqs # {}
       /\ \A i, j \in DOMAIN saved.entries :
            i # j => saved.entries[i].seqs \cap saved.entries[j].seqs = {}

CellsInv ==
  /\ use \in Uses /\ ~aborted
  /\ data \in [Ids -> Seq(Ids)] /\ want \in [Ids -> Seq(Ids)]
  /\ wantPos \in [Ids -> -1..(Forever - 1)]
  /\ CellsTypeOK /\ TailsAgree /\ EntriesInv /\ PromiseInv /\ SavedInv
=============================================================================
