------------------------------ MODULE KvCells ------------------------------
(***************************************************************************)
(* The attention cache of llama-kv-cache.cpp with its cell table           *)
(* (llama-kv-cells.h): the calls of the memory API on cells, the search    *)
(* for a slot, placement and purging of a batch, deferred key shifts and   *)
(* deferred copies between streams, saving and loading.                    *)
(*                                                                         *)
(* Sequences share one stream (unified) or have one each.  A cell's data   *)
(* is the decoded token it was computed for and the position its key is    *)
(* rotated to.  "store" is what the calls promise (KvStore): the cache     *)
(* must hold it once pending copies and shifts are applied.  The two       *)
(* counters a cell table keeps beside its cells (used, seq_pos) are read   *)
(* off the cells; they agree as long as seq_cp never meets its destination *)
(* in a cell, which the cell table demands of its callers.                 *)
(***************************************************************************)
EXTENDS KvStore, Sequences

CONSTANTS
  Seqs,          (* sequence numbers, from 0                               *)
  MaxBatch,      (* bound: tokens of a batch                               *)
  MaxCopies,     (* bound: copies between streams awaiting the update      *)
  Ranges,        (* position ranges << p0, p1 >> of the client's calls     *)
  Options        (* [split, size, swa, calls, shifts, top]: a stream per   *)
                 (* sequence; cells of a stream; n_swa, or 0 for none; the *)
                 (* calls the client makes beside seq_rm and decode, and   *)
                 (* its arguments of seq_add; and, a bound, the largest    *)
                 (* position it uses                                       *)

Calls == {"clear", "rm_any", "seq_cp", "seq_keep", "state"}

ASSUME CellsAssumption ==
  /\ Seqs # {} /\ IsFiniteSet(Seqs) /\ Seqs = 0..(Cardinality(Seqs) - 1)
  /\ MaxBatch \in Nat /\ MaxCopies \in Nat
  /\ Ranges \subseteq Nat \X (Nat \ {0})
  /\ Options \subseteq [split : BOOLEAN, size : Nat \ {0}, swa : Nat, calls : SUBSET Calls,
                        shifts : SUBSET (Int \ {0}), top : Nat]

VARIABLES
  opt,
  cells, heads,     (* v_cells (pos, shift, seqs), v_heads                 *)
  shifted,          (* has_shift of each stream                            *)
  pending,          (* sc_info: stream copies to be done                   *)
  data,             (* contents of the K and V tensors                     *)
  saved,            (* the last state written for a sequence               *)
  refused,          (* was a batch refused after a ubatch found its slot?  *)
  store

vars == << opt, cells, heads, shifted, pending, data, saved, refused, store >>

Streams  == IF opt.split THEN Seqs ELSE {0}
Strm(q)  == IF opt.split THEN q ELSE 0
Size     == opt.size
Idx      == 0..(Size - 1)
Free     == [pos |-> -1, shift |-> 0, seqs |-> {}]
NoTable  == [i \in Idx |-> Free]
NoState  == [cells |-> << >>, promise |-> {}]
NoData   == [id |-> 0, rot |-> 0]

Least(S)    == CHOOSE x \in S : \A y \in S : x <= y
Greatest(S) == CHOOSE x \in S : \A y \in S : y <= x

-----------------------------------------------------------------------------
(* One cell table c. *)

Used(c)        == {i \in Idx : c[i].pos # -1}
HeldBy(c, q)   == {i \in Idx : q \in c[i].seqs}
SeqPosMin(c, q) == IF HeldBy(c, q) = {} THEN -1 ELSE Least({c[i].pos : i \in HeldBy(c, q)})
SeqPosMax(c, q) == IF HeldBy(c, q) = {} THEN -1 ELSE Greatest({c[i].pos : i \in HeldBy(c, q)})

Without(cell, q) == IF cell.seqs = {q} THEN Free ELSE [cell EXCEPT !.seqs = @ \ {q}]

CellsRm(c, q, p0, p1) ==
  [i \in Idx |-> IF q \in c[i].seqs /\ Within(c[i], p0, p1) THEN Without(c[i], q) ELSE c[i]]

CellsRmAny(c, p0, p1) ==
  [i \in Idx |-> IF Within(c[i], p0, p1) THEN Free ELSE c[i]]

CellsKeep(c, q) ==
  [i \in Idx |-> IF q \in c[i].seqs THEN [c[i] EXCEPT !.seqs = {q}] ELSE Free]

CellsCp(c, src, dst, p0, p1) ==
  [i \in Idx |-> IF src \in c[i].seqs /\ Within(c[i], p0, p1)
                 THEN [c[i] EXCEPT !.seqs = @ \cup {dst}] ELSE c[i]]

PosAdd(cell, d) ==
  IF cell.pos + d < 0 THEN Free ELSE [cell EXCEPT !.pos = @ + d, !.shift = @ + d]

CellsAdd(c, q, p0, p1, d) ==
  [i \in Idx |-> IF q \in c[i].seqs /\ Within(c[i], p0, p1) THEN PosAdd(c[i], d) ELSE c[i]]

(* Cells of c that are empty in n. *)
Freed(c, n) == Used(c) \ Used(n)

(* The search for a slot starts at a freed cell, if it lies lower. *)
HeadAfter(c, n, head) ==
  IF Freed(c, n) # {} /\ Least(Freed(c, n)) < head THEN Least(Freed(c, n)) ELSE head

-----------------------------------------------------------------------------
(* find_slot: n cells, anywhere or in one piece (cont). *)

MaskedSwa(p0, p1) == opt.swa > 0 /\ p1 - p0 >= opt.swa

(* Empty, or of one sequence and out of the window of its next token. *)
CanUse(c, i) ==
  \/ c[i].pos = -1
  \/ \E q \in Seqs : c[i].seqs = {q} /\ MaskedSwa(c[i].pos, SeqPosMax(c, q) + 1)

(* Mutant of Scanned: cells behind the head count as tested on the wrap.   *)
ScannedTwice(r, n, wrap) == r.tested + n + (IF wrap THEN 1 ELSE 0)

(* Cells tested so far, after n more or the rest of the table. *)
Scanned(r, n, wrap) == r.tested + n

(* One pass of the loop; use: the cells that can be used. *)
SearchStep(use, n, cont, r) ==
  LET test == IF cont THEN n ELSE 1
      bad  == (r.head..(r.head + test - 1)) \ use
  IN  IF r.end # "no" THEN r
      ELSE IF r.head + test > Size
      THEN [r EXCEPT !.tested = Scanned(r, Size - r.head, TRUE), !.head = 0]
      ELSE LET stop   == IF bad = {} THEN r.head + test ELSE Least(bad) + 1
               got    == IF cont
                         THEN IF bad = {} THEN [k \in 1..n |-> r.head + k - 1] ELSE << >>
                         ELSE IF bad = {} THEN Append(r.got, r.head) ELSE r.got
               tested == Scanned(r, stop - r.head, FALSE)
           IN  [head |-> stop, tested |-> tested, got |-> got,
                end  |-> IF Len(got) = n THEN "found" ELSE IF tested >= Size THEN "full" ELSE "no"]

(* The cells found, << >> if there are none. *)
FindSlot(c, head, n, cont) ==
  LET start == [head |-> IF head > Cardinality(Used(c)) + 2 * n THEN 0 ELSE head,
                tested |-> 0, got |-> << >>, end |-> "no"]
      use == {i \in Idx : CanUse(c, i)}
      f[k \in 0..(2 * Size + 2)] ==
        IF k = 0 THEN start ELSE SearchStep(use, n, cont, f[k - 1])
      r == f[2 * Size + 2]
  IN  IF n <= Size /\ r.end = "found" THEN r.got ELSE << >>

-----------------------------------------------------------------------------
(* A batch: a sequence of ubatches, each a sequence of groups of tokens    *)
(* (one group, or one for each stream, all equally long).                  *)

FindSlots(cs, hs, ub) ==
  [g \in DOMAIN ub |-> FindSlot(cs[ub[g].strm], hs[ub[g].strm], Len(ub[g].toks), FALSE)]

SlotsFound(sl) == \A g \in DOMAIN sl : sl[g] # << >>

(* Mutant of Purged: lower positions of an overwritten sequence stay. *)
PurgedNothing(c, q, top) == c

(* Positions of q up to the highest that was overwritten. *)
Purged(c, q, top) == CellsRm(c, q, SeqPosMin(c, q), top + 1)

(* apply_ubatch on the table of one group. *)
Placed(c, toks, slot) ==
  LET over(q) == {c[slot[k]].pos : k \in {j \in DOMAIN slot : q \in c[slot[j]].seqs}}
      filled == [i \in Idx |-> IF \E k \in DOMAIN slot : slot[k] = i
                               THEN LET k == CHOOSE k \in DOMAIN slot : slot[k] = i
                                    IN  [pos |-> toks[k].pos, shift |-> 0, seqs |-> toks[k].seqs]
                               ELSE c[i]]
      f[m \in 0..Cardinality(Seqs)] ==
        IF m = 0 THEN filled
        ELSE IF over(m - 1) = {} THEN f[m - 1]
             ELSE Purged(f[m - 1], m - 1, Greatest(over(m - 1)))
  IN  f[Cardinality(Seqs)]

GroupOf(ub, s) == {g \in DOMAIN ub : ub[g].strm = s}

ApplyCells(cs, ub, sl) ==
  [s \in Streams |->
     IF GroupOf(ub, s) = {} THEN cs[s]
     ELSE LET g == CHOOSE g \in GroupOf(ub, s) : TRUE IN Placed(cs[s], ub[g].toks, sl[g])]

ApplyHeads(hs, ub, sl) ==
  [s \in Streams |->
     IF GroupOf(ub, s) = {} THEN hs[s]
     ELSE LET g == CHOOSE g \in GroupOf(ub, s) : TRUE IN sl[g][Len(sl[g])] + 1]

(* prepare: place the ubatches one after the other, then put the cells of  *)
(* their slots back.  Purged cells do not come back, and the heads come    *)
(* back by the number of the group, not of the stream.                     *)
Tried(cs, hs, b) ==
  LET try(st, ub) ==
        LET sl == FindSlots(st.cells, st.heads, ub)
        IN  IF ~st.ok THEN st
            ELSE IF ~SlotsFound(sl) THEN [st EXCEPT !.ok = FALSE]
            ELSE [ok    |-> TRUE,
                  cells |-> ApplyCells(st.cells, ub, sl),
                  heads |-> ApplyHeads(st.heads, ub, sl),
                  log   |-> Append(st.log, [slots |-> sl, cells |-> st.cells, heads |-> st.heads])]
      f[k \in 0..Len(b)] ==
        IF k = 0 THEN [ok |-> TRUE, cells |-> cs, heads |-> hs, log |-> << >>]
        ELSE try(f[k - 1], b[k])
  IN  f[Len(b)]

Restored(b, t) ==
  LET undo(st, k) ==
        LET u  == t.log[k]
            in(s, i) == \E g \in GroupOf(b[k], s) : \E j \in DOMAIN u.slots[g] : u.slots[g][j] = i
        IN  [cells |-> [s \in Streams |-> [i \in Idx |->
                          IF in(s, i) THEN u.cells[s][i] ELSE st.cells[s][i]]],
             heads |-> [s \in Streams |->
                          IF GroupOf(b[k], s) = {} THEN st.heads[s]
                          ELSE u.heads[(CHOOSE g \in GroupOf(b[k], s) : TRUE) - 1]]]
      f[k \in 0..Len(t.log)] ==
        IF k = 0 THEN [cells |-> t.cells, heads |-> t.heads]
        ELSE undo(f[k - 1], Len(t.log) + 1 - k)
  IN  f[Len(t.log)]

-----------------------------------------------------------------------------
(* Deferred work: copies between streams first, then the shift of keys.    *)

Copied(d) ==
  LET f[k \in 0..Len(pending)] ==
        IF k = 0 THEN d
        ELSE [f[k - 1] EXCEPT ![pending[k][2]] = f[k - 1][pending[k][1]]]
  IN  f[Len(pending)]

Rotated(c, d) ==
  [s \in Streams |-> [i \in Idx |->
     IF c[s][i].pos = -1 THEN d[s][i] ELSE [d[s][i] EXCEPT !.rot = @ + c[s][i].shift]]]

NoShift(c) == [s \in Streams |-> [i \in Idx |-> [c[s][i] EXCEPT !.shift = 0]]]

AnyShift == \E s \in Streams : shifted[s]

(* What an empty cell holds is never read, unless a copy is to be made     *)
(* from it; what a stream holds that is first copied onto, neither.        *)
Live(c, d, p) ==
  LET onto(s, k) == \E j \in 1..k : p[j][2] = s
      from(s)    == \E k \in DOMAIN p : p[k][1] = s /\ ~onto(s, k - 1)
      live(s, i) == from(s) \/ (c[s][i].pos # -1 /\ ~onto(s, Len(p)))
  IN  [s \in Streams |-> [i \in Idx |-> IF live(s, i) THEN d[s][i] ELSE NoData]]

(* Mutant of UpdatedData: keys are rotated before the streams are copied.  *)
ShiftThenCopy == Copied(Rotated(cells, data))

(* update() *)
UpdatedData == IF AnyShift THEN Rotated(cells, Copied(data)) ELSE Copied(data)

-----------------------------------------------------------------------------
Init ==
  /\ opt \in Options
  /\ cells = [s \in Streams |-> NoTable]
  /\ heads = [s \in Streams |-> 0]
  /\ shifted = [s \in Streams |-> FALSE]
  /\ pending = << >>
  /\ data = [s \in Streams |-> [i \in Idx |-> NoData]]
  /\ saved = NoState
  /\ refused = FALSE
  /\ store = {}

Tabled(s, c, head) ==
  /\ cells' = [cells EXCEPT ![s] = c]
  /\ heads' = [heads EXCEPT ![s] = head]
  /\ data' = Live(cells', data, pending)

DoClear ==
  /\ "clear" \in opt.calls
  /\ cells' = [s \in Streams |-> NoTable]
  /\ heads' = [s \in Streams |-> 0]
  /\ shifted' = [s \in Streams |-> FALSE]
  /\ data' = Live(cells', data, pending)
  /\ store' = {}
  /\ UNCHANGED << opt, pending, saved, refused >>

(* A client of a cache with a window makes no holes itself. *)
EndOfRange(p0, p1) == opt.swa > 0 => (p0 = 0 \/ p1 = Inf)

DoSeqRm(q, p0, p1) ==
  /\ EndOfRange(p0, p1)
  /\ LET s == Strm(q)
         c == CellsRm(cells[s], q, p0, p1)
     IN  Tabled(s, c, HeadAfter(cells[s], c, heads[s]))
  /\ store' = SeqRm(store, q, p0, p1)
  /\ UNCHANGED << opt, shifted, pending, saved, refused >>

DoRmAny(p0, p1) ==
  /\ "rm_any" \in opt.calls /\ EndOfRange(p0, p1)
  /\ cells' = [s \in Streams |-> CellsRmAny(cells[s], p0, p1)]
  /\ heads' = [s \in Streams |-> HeadAfter(cells[s], cells'[s], heads[s])]
  /\ data' = Live(cells', data, pending)
  /\ store' = RmAny(store, p0, p1)
  /\ UNCHANGED << opt, shifted, pending, saved, refused >>

(* In one stream a copy is a matter of the table; the destination is in    *)
(* none of the cells (asserted by the table).                              *)
DoSeqCpShared(src, dst, p0, p1) ==
  /\ "seq_cp" \in opt.calls /\ ~opt.split /\ src # dst
  /\ IF opt.swa > 0 THEN HeldBy(cells[0], dst) = {} /\ EndOfRange(p0, p1)
     ELSE \A i \in Idx : {src, dst} \subseteq cells[0][i].seqs => ~Within(cells[0][i], p0, p1)
  /\ cells' = [cells EXCEPT ![0] = CellsCp(@, src, dst, p0, p1)]
  /\ store' = SeqCp(store, src, dst, p0, p1)
  /\ UNCHANGED << opt, heads, shifted, pending, data, saved, refused >>

CopiedTable(c, src, dst) ==
  [i \in Idx |-> IF src \in c[i].seqs
                 THEN [pos |-> c[i].pos, shift |-> c[i].shift, seqs |-> {dst}] ELSE Free]

(* Between streams the whole sequence is copied, its data with the next    *)
(* update.                                                                 *)
DoSeqCpStreams(src, dst) ==
  /\ "seq_cp" \in opt.calls /\ opt.split /\ src # dst /\ Len(pending) < MaxCopies
  /\ LET c == CopiedTable(cells[src], src, dst)
     IN  /\ cells' = [cells EXCEPT ![dst] = c]
         /\ heads' = [heads EXCEPT ![dst] = heads[src]]
         /\ shifted' = [shifted EXCEPT ![dst] = \E i \in Idx : c[i].shift # 0]
  /\ pending' = Append(pending, << src, dst >>)
  /\ data' = Live(cells', data, pending')
  /\ store' = SeqRm(store, dst, 0, Inf) \cup {[e EXCEPT !.seqs = {dst}] : e \in Of(store, src)}
  /\ UNCHANGED << opt, saved, refused >>

(* Only the cells of the sequence's own stream are looked at. *)
DoSeqKeep(q) ==
  /\ "seq_keep" \in opt.calls
  /\ LET s == Strm(q)
         c == CellsKeep(cells[s], q)
     IN  Tabled(s, c, HeadAfter(cells[s], c, heads[s]))
  /\ store' = IF opt.split THEN store ELSE SeqKeep(store, q)
  /\ UNCHANGED << opt, shifted, pending, saved, refused >>

DoSeqAdd(q, p0, p1, d) ==
  /\ LET s == Strm(q)
         c == CellsAdd(cells[s], q, p0, p1, d)
     IN  /\ \A i \in Idx : c[i].pos <= opt.top
         /\ Tabled(s, c, IF Freed(cells[s], c) = {} THEN 0 ELSE Least(Freed(cells[s], c)))
         /\ shifted' = [shifted EXCEPT ![s] =
              @ \/ \E i \in Idx : q \in cells[s][i].seqs /\ Within(cells[s][i], p0, p1)]
  /\ store' = SeqAdd(store, q, p0, p1, d)
  /\ UNCHANGED << opt, pending, saved, refused >>

-----------------------------------------------------------------------------
(* llama_decode. *)

NextPos(q) == SeqPosMax(cells[Strm(q)], q) + 1

(* The batch for the sequences of its tokens, ubatches of m tokens. *)
Batch(ss, m) ==
  LET pos(k, q) == NextPos(q) + Cardinality({j \in 1..(k - 1) : q \in ss[j]})
      tok(k) == [pos |-> pos(k, CHOOSE q \in ss[k] : TRUE), seqs |-> ss[k]]
      part(u) == {k \in DOMAIN ss : (k - 1) \div m = u - 1}
      strms(u) == {Strm(q) : q \in UNION {ss[k] : k \in part(u)}}
      of(u, s) == {k \in part(u) : \E q \in ss[k] : Strm(q) = s}
      nth(S, n) == CHOOSE x \in S : Cardinality({y \in S : y < x}) = n - 1
  IN  [u \in 1..((Len(ss) + m - 1) \div m) |->
         [g \in 1..Cardinality(strms(u)) |->
            LET s == nth(strms(u), g)
            IN  [strm |-> s,
                 toks |-> [j \in 1..Cardinality(of(u, s)) |-> tok(nth(of(u, s), j))]]]]

(* Batches the allocator can hand over: the positions continue every       *)
(* sequence, sequences that share a token agree in their positions, and    *)
(* streams get ubatches of equal length in their order.  Only a client     *)
(* that copies shares tokens.                                              *)
WellFormed(ss, m) ==
  /\ \A k \in DOMAIN ss : \A q, r \in ss[k] : q < r =>
       LET c == cells[Strm(q)] IN
       /\ Strm(r) = Strm(q) /\ "seq_cp" \in opt.calls
       /\ Cardinality({j \in 1..(k - 1) : q \in ss[j]}) =
          Cardinality({j \in 1..(k - 1) : r \in ss[j]})
       /\ SeqPosMin(c, q) = SeqPosMin(c, r) /\ SeqPosMax(c, q) = SeqPosMax(c, r)
  /\ opt.split => \A k \in DOMAIN ss : \A j \in 1..(k - 1) : Least(ss[j]) <= Least(ss[k])
  /\ LET b == Batch(ss, m)
     IN  \A u \in DOMAIN b : \A g \in DOMAIN b[u] :
           /\ Len(b[u][g].toks) = Len(b[u][1].toks)
           /\ \A j \in DOMAIN b[u][g].toks : b[u][g].toks[j].pos <= opt.top

(* A name for a token decoded into a cell that no token goes by. *)
NewId(d, s, i) ==
  LET used == {d[x][j].id : x \in Streams, j \in Idx} \cup
              {e.id : e \in store \cup saved.promise}
      step == Size * Cardinality(Streams)
  IN  Least({1 + i + Size * s + step * k : k \in 0..Cardinality(used)} \ used)

(* apply_ubatch and the computation: the tokens and their cells. *)
Computed(st, ub, sl, base) ==
  LET lands(s, i) == {x \in GroupOf(ub, s) \X (1..Size) :
                        x[2] \in DOMAIN sl[x[1]] /\ sl[x[1]][x[2]] = i}
      tok(s, i) == LET x == CHOOSE x \in lands(s, i) : TRUE IN ub[x[1]].toks[x[2]]
      into == {x \in Streams \X Idx : lands(x[1], x[2]) # {}}
  IN  [cells |-> ApplyCells(st.cells, ub, sl),
       heads |-> ApplyHeads(st.heads, ub, sl),
       data  |-> [s \in Streams |-> [i \in Idx |->
                    IF << s, i >> \in into
                    THEN [id |-> NewId(base, s, i), rot |-> tok(s, i).pos] ELSE st.data[s][i]]],
       store |-> st.store \cup
                   {[pos |-> tok(x[1], x[2]).pos, seqs |-> tok(x[1], x[2]).seqs,
                     id |-> NewId(base, x[1], x[2])] : x \in into}]

(* The update, the search for slots, and the ubatches one by one.  Without *)
(* slots the batch is refused.                                             *)
Decoded(b) ==
  LET d == Live(cells, UpdatedData, << >>)
      t == Tried(NoShift(cells), heads, b)
      r == Restored(b, t)
      f[k \in 0..Len(b)] ==
        IF k = 0 THEN [cells |-> r.cells, heads |-> r.heads, data |-> d, store |-> store]
        ELSE Computed(f[k - 1], b[k], t.log[k].slots, d)
      end == f[IF t.ok THEN Len(b) ELSE 0]
  IN  [cells |-> end.cells, heads |-> end.heads, data |-> end.data, store |-> end.store,
       undone |-> ~t.ok /\ t.log # << >>]

(* Tokens a sequence may lose to a batch: out of the window of its next    *)
(* token, and overwritten or purged.                                       *)
LetGo(m, c) ==
  Held({[e EXCEPT !.seqs = {q \in @ :
           \/ \E i \in HeldBy(c[Strm(q)], q) : c[Strm(q)][i].pos = e.pos
           \/ ~MaskedSwa(e.pos, SeqPosMax(c[Strm(q)], q) + 1)}] : e \in m})

DoDecode(ss, m) ==
  /\ WellFormed(ss, m)
  /\ \E end \in {Decoded(Batch(ss, m))} :
       /\ cells' = end.cells
       /\ heads' = end.heads
       /\ data' = Live(end.cells, end.data, << >>)
       /\ store' = LetGo(end.store, end.cells)
       /\ refused' = (refused \/ (opt.swa > 0 /\ end.undone))
  /\ shifted' = [s \in Streams |-> FALSE]
  /\ pending' = << >>
  /\ UNCHANGED << opt, saved >>

-----------------------------------------------------------------------------
(* The state of a sequence, written and read when nothing is pending. *)

Settled == pending = << >> /\ ~AnyShift

DoSave(q) ==
  /\ "state" \in opt.calls /\ Settled
  /\ LET s    == Strm(q)
         held == HeldBy(cells[s], q)
         nth(n) == CHOOSE i \in held : Cardinality({j \in held : j < i}) = n - 1
     IN  saved' = [cells   |-> [n \in 1..Cardinality(held) |->
                                  [pos |-> cells[s][nth(n)].pos, data |-> data[s][nth(n)]]],
                   promise |-> {[pos |-> e.pos, id |-> e.id] : e \in Of(store, q)}]
  /\ UNCHANGED << opt, cells, heads, shifted, pending, data, refused, store >>

(* The destination is emptied, then needs its cells in one piece.  A state *)
(* without cells changes nothing.  (A state is loaded once, a bound.)      *)
DoLoad(q) ==
  /\ "state" \in opt.calls /\ Settled /\ saved.cells # << >>
  /\ LET s     == Strm(q)
         n     == Len(saved.cells)
         c     == CellsRm(cells[s], q, 0, Inf)
         head  == HeadAfter(cells[s], c, heads[s])
         slot  == FindSlot(c, head, n, TRUE)
         toks  == [k \in 1..n |-> [pos |-> saved.cells[k].pos, seqs |-> {q}]]
         rest  == SeqRm(store, q, 0, Inf)
     IN  IF slot = << >>
         THEN Tabled(s, c, head) /\ store' = rest
         ELSE /\ cells' = [cells EXCEPT ![s] = Placed(c, toks, slot)]
              /\ heads' = [heads EXCEPT ![s] = slot[1]]
              /\ data' = Live(cells',
                   [data EXCEPT ![s] = [i \in Idx |->
                      IF \E k \in 1..n : slot[k] = i
                      THEN saved.cells[CHOOSE k \in 1..n : slot[k] = i].data ELSE data[s][i]]],
                   << >>)
              /\ store' = rest \cup {[pos |-> e.pos, seqs |-> {q}, id |-> e.id] :
                                       e \in saved.promise}
  /\ saved' = NoState
  /\ UNCHANGED << opt, shifted, pending, refused >>

-----------------------------------------------------------------------------
Tokens == UNION {[1..n -> (SUBSET Seqs) \ {{}}] : n \in 1..MaxBatch}

Next ==
  \/ DoClear
  \/ \E q \in Seqs, r \in Ranges : DoSeqRm(q, r[1], r[2])
  \/ \E r \in Ranges : DoRmAny(r[1], r[2])
  \/ \E q, o \in Seqs, r \in Ranges : DoSeqCpShared(q, o, r[1], r[2])
  \/ \E q, o \in Seqs : DoSeqCpStreams(q, o)
  \/ \E q \in Seqs : DoSeqKeep(q)
  \/ \E q \in Seqs, r \in Ranges, d \in opt.shifts : DoSeqAdd(q, r[1], r[2], d)
  \/ \E ss \in Tokens : \E m \in 1..Len(ss) : DoDecode(ss, m)
  \/ \E q \in Seqs : DoSave(q)
  \/ \E q \in Seqs : DoLoad(q)

Spec == Init /\ [][Next]_vars

-----------------------------------------------------------------------------
(* Properties. *)

(* What the cells hold of a sequence, once copies and shifts are done.     *)
HeldView(q) ==
  LET s == Strm(q)
      d == Rotated(cells, Copied(data))
  IN  {[pos |-> cells[s][i].pos, id |-> d[s][i].id, rot |-> d[s][i].rot] :
         i \in HeldBy(cells[s], q)}

Promised(q) == {[pos |-> e.pos, id |-> e.id, rot |-> e.pos] : e \in Of(store, q)}

(* The cache holds exactly the tokens the calls promised, at their         *)
(* positions and with keys rotated to them, whatever order removals,       *)
(* copies, shifts, decodes, saves and loads came in and whatever of it is  *)
(* still deferred.  A window lets go only of what the next token cannot    *)
(* see.                                                                    *)
HoldsStore == \A q \in Seqs : HeldView(q) = Promised(q)

(* The search finds a slot exactly if there is one: enough usable cells,   *)
(* or enough of them in a row; and the cells it names are usable and       *)
(* different.                                                              *)
SlotIfAny ==
  \A s \in Streams : \A n \in 1..Size : \A cont \in BOOLEAN :
    LET c     == cells[s]
        slot  == FindSlot(c, heads[s], n, cont)
        free  == {i \in Idx : CanUse(c, i)}
        fits  == IF cont THEN \E a \in 0..(Size - n) : a..(a + n - 1) \subseteq free
                 ELSE Cardinality(free) >= n
    IN  /\ slot # << >> <=> fits
        /\ slot # << >> => /\ Len(slot) = n
                           /\ \A j, k \in 1..n : /\ slot[j] \in free
                                                 /\ slot[j] = slot[k] => j = k
                                                 /\ cont /\ j < k => slot[k] - slot[j] = k - j

(* With a window, cells are overwritten in any order of positions, yet     *)
(* "all positions between [pos_min, pos_max] for each sequence will be     *)
(* present in the cache" (apply_ubatch).  Not claimed once a batch was     *)
(* refused in the middle: prepare brings overwritten cells back, but not   *)
(* the ones purged with them.                                              *)
NoHoles ==
  opt.swa > 0 /\ ~refused =>
    \A q \in Seqs : LET c == cells[Strm(q)] IN
      HeldBy(c, q) # {} =>
        SeqPosMin(c, q)..SeqPosMax(c, q) = {c[i].pos : i \in HeldBy(c, q)}
=============================================================================
