----------------------------- MODULE ExpertFetch -----------------------------
(***************************************************************************)
(* Routed experts that live in the model file (--ssd-moe): placement under *)
(* a memory budget, the name-keyed registry of the CUDA backend, and the   *)
(* multiplication ggml_cuda_mul_mat_id() that reads a cold expert into the *)
(* one static staging buffer, copies it to the device and multiplies.      *)
(*                                                                         *)
(* The host enqueues copies and kernels on a FIFO stream that the device   *)
(* works off on its own; only a synchronization makes the host wait.  A    *)
(* weight matrix is named <<model, layer, expert>>: model 1 is the one in  *)
(* SSD mode, model 0 another one in memory (a separate draft model).  The  *)
(* three projections of an expert go the same way and are one.             *)
(***************************************************************************)
EXTENDS Integers, Sequences, FiniteSets

CONSTANTS
  Layers,        (* MoE layers of the model in SSD mode                    *)
  RamLayers,     (* MoE layers of the model in memory                      *)
  NExpert,       (* ne02: experts of a layer                               *)
  NTok,          (* ne12: largest number of tokens of a call               *)
  Bundle(_),     (* bytes an expert of a layer takes when resident         *)
  Dense,         (* bytes of the weights that are not routed               *)
  Page,          (* alignment of direct reads                              *)
  MaxExpert,     (* MAX_EXPERT_SIZE                                        *)
  Configs,       (* what a process was started with, see ConfigType        *)
  MaxCalls

Experts == 0..(NExpert - 1)
Keys    == Layers \X Experts
Phases  == 0..2                    (* prefill, draft, target *)

ConfigType ==
  [budget : Nat,                   (* ssd_weight_budget, 0: none           *)
   given  : BOOLEAN,               (* a hot-expert file was given          *)
   list   : SUBSET (Nat \X Nat),   (* its experts                          *)
   place  : [Layers -> {"device", "host"}],  (* where its tensors go       *)
   bytes  : Nat,                   (* size of one expert in the file       *)
   base   : Nat,                   (* offset of the first expert           *)
   cut    : Nat,                   (* bytes missing at the end of the file *)
   direct : BOOLEAN,               (* S2MOE_SSD_DIRECT                     *)
   skew   : 0..(Page - 1)]         (* bytes lost aligning the buffer       *)

ASSUME FetchAssumption ==
  /\ Layers \subseteq Nat /\ IsFiniteSet(Layers) /\ RamLayers \subseteq Nat
  /\ Dense \in Nat /\ \A l \in Layers : Bundle(l) \in Nat
  /\ NExpert \in Nat \ {0} /\ NTok \in Nat \ {0}
  /\ Page \in Nat \ {0} /\ MaxExpert \in Nat /\ MaxExpert % Page = 0
  /\ Configs \subseteq ConfigType

VARIABLES
  pc,
  conf,             (* a member of Configs                                 *)
  hot,              (* hot_expert_indices                                  *)
  registry,         (* g_ssd_registry: data_ptr by layer and expert        *)
  call,             (* the tensor, the routed experts, ne11                *)
  sorted,           (* ids_to_sorted, ids_from_sorted                      *)
  cur, row,         (* i02; rows before dst_data_cur                       *)
  staging,          (* whose weights ssd_staging_buffer holds              *)
  device,           (* whose weights the pool buffer of the device holds   *)
  stream,           (* enqueued and not yet executed                       *)
  result, dst,      (* dst_sorted, dst                                     *)
  phase, prof,      (* g_ssd_profile_*                                     *)
  due,              (* cold experts routed to in each phase (history)      *)
  calls

vars == << pc, conf, hot, registry, call, sorted, cur, row, staging, device, stream, result,
           dst, phase, prof, due, calls >>

-----------------------------------------------------------------------------
(* Loading: placement, registration, validation. *)

AnyOf(S) == CHOOSE k \in S : TRUE

(* What a set of experts takes. *)
Bytes[S \in SUBSET Keys] ==
  IF S = {} THEN 0 ELSE Bundle(AnyOf(S)[1]) + Bytes[S \ {AnyOf(S)}]

(* Mutant of Left: the weights that are not routed are forgotten. *)
LeftForExperts(S) == conf.budget - Bytes[S]

(* What the budget has left with S resident. *)
Left(S) == conf.budget - Dense - Bytes[S]

(* Expert first, then layer. *)
Before(a, b) == a[2] < b[2] \/ (a[2] = b[2] /\ a[1] < b[1])
Rank(k)      == Cardinality({x \in Keys : Before(x, k)}) + 1

KeyAt(i)     == CHOOSE k \in Keys : Rank(k) = i

WithKey(S, k) == IF Bundle(k[1]) <= Left(S) THEN S \cup {k} ELSE S

(* The fallback: in this order, every expert that still fits. *)
Filled[i \in 0..Cardinality(Keys)] ==
  IF i = 0 THEN {} ELSE WithKey(Filled[i - 1], KeyAt(i))

Balanced == Filled[Cardinality(Keys)]

(* configure_ssd_budget() throws. *)
BudgetRefused ==
  /\ conf.budget # 0
  /\ \/ Dense > conf.budget
     \/ conf.given /\ (~(conf.list \subseteq Keys) \/ Left(conf.list) < 0)

Placement ==
  IF conf.given THEN conf.list ELSE IF conf.budget # 0 THEN Balanced ELSE {}

(* llama_validate_ssd_registry(): a requested expert is absent. *)
RegistryRefused(h) == ~(h \subseteq Keys)

Load ==
  /\ pc = "load"
  /\ IF BudgetRefused \/ RegistryRefused(Placement)
     THEN pc' = "refused" /\ UNCHANGED << hot, registry >>
     ELSE /\ pc' = "idle"
          /\ hot' = Placement
          /\ registry' = [k \in Keys |-> IF k \in Placement THEN conf.place[k[1]] ELSE "none"]
  /\ UNCHANGED << conf, call, sorted, cur, row, staging, device, stream, result, dst, phase,
                  prof, due, calls >>

-----------------------------------------------------------------------------
(* A call: the routed experts are brought to the host and sorted. *)

Slots == 1..Len(call.ids[1])

(* Pairs of token and slot, with the expert the token's slot is routed to. *)
PairsOf(ids) ==
  {p \in Experts \X (DOMAIN ids) \X (1..Len(ids[1])) : ids[p[2]][p[3]] = p[1]}

(* The order the loops of the code visit them in. *)
Earlier(a, b) == a[1] < b[1] \/ (a[1] = b[1] /\ a[2] < b[2])

SortedPairs(ids) ==
  LET pairs == PairsOf(ids)
  IN  [i \in 1..Cardinality(pairs) |->
         CHOOSE p \in pairs : Cardinality({q \in pairs : Earlier(q, p)}) = i - 1]

Rows(e) == Cardinality({i \in DOMAIN sorted.pairs : sorted.pairs[i][1] = e})

(* The row of src1 a slot of a token multiplies. *)
Input(t, x, ne11) == (t - 1) * ne11 + ((x - 1) % ne11)

(* The gathered rows of src1, and where the products go back to. *)
SortedOf(ids, ne11) ==
  LET pairs == SortedPairs(ids)
  IN  [pairs |-> pairs,
       to    |-> [i \in DOMAIN pairs |-> Input(pairs[i][2], pairs[i][3], ne11)],
       from  |-> [t \in DOMAIN ids |-> [x \in 1..Len(ids[1]) |->
                    CHOOSE i \in DOMAIN pairs : pairs[i] = << ids[t][x], t, x >>]]]

(* The registry knows tensors by name: a tensor of the model in memory is  *)
(* found there too if its layer is one of the other model's.               *)
Registered == call.layer \in Layers

Cold(l, e) == registry[<< l, e >>] = "none"

Routed(ids) == {ids[t][x] : t \in DOMAIN ids, x \in 1..Len(ids[1])}

Begin ==
  /\ pc = "idle" /\ calls < MaxCalls
  /\ stream = << >>                        (* cudaStreamSynchronize *)
  /\ \E model \in {0, 1}, n \in 1..NTok, used \in 1..NExpert :
     \E layer \in IF model = 1 THEN Layers ELSE RamLayers,
        ne11 \in {1, used}, ids \in [1..n -> [1..used -> Experts]] :
       /\ \A t \in 1..n : \A x, y \in 1..used : ids[t][x] = ids[t][y] => x = y
       /\ call' = [model |-> model, layer |-> layer, ids |-> ids, ne11 |-> ne11]
       /\ sorted' = SortedOf(ids, ne11)
       /\ due' = IF model = 1
                 THEN [due EXCEPT ![phase] = @ + Cardinality({e \in Routed(ids) : Cold(layer, e)})]
                 ELSE due
  /\ cur' = 0 /\ row' = 0 /\ calls' = calls + 1
  /\ result' = << >> /\ dst' = << >>
  /\ pc' = "expert"
  /\ UNCHANGED << conf, hot, registry, staging, device, stream, phase, prof >>

-----------------------------------------------------------------------------
(* The loop over the experts. *)

Skip ==
  /\ pc = "expert" /\ cur < NExpert /\ Rows(cur) = 0
  /\ cur' = cur + 1
  /\ UNCHANGED << pc, conf, hot, registry, call, sorted, row, staging, device, stream, result,
                  dst, phase, prof, due, calls >>

Active == pc = "expert" /\ cur < NExpert /\ Rows(cur) > 0

(* The products of the expert's rows with the weights at a source. *)
Product(source) ==
  [op |-> "mul", src |-> source, rows |-> (row + 1)..(row + Rows(cur))]

Copy(source) == [op |-> "copy", src |-> source, rows |-> {}]

Weights(model) == << model, call.layer, cur >>

Advance == cur' = cur + 1 /\ row' = row + Rows(cur)

(* Not in the registry: the weights are in the tensor. *)
InMemory ==
  /\ Active /\ ~Registered
  /\ stream' = Append(stream, Product(Weights(call.model)))
  /\ Advance
  /\ UNCHANGED << pc, conf, hot, registry, call, sorted, staging, device, result, dst, phase,
                  prof, due, calls >>

(* A hot expert on the device is used in place; in host memory it is       *)
(* copied, and the host waits.                                             *)
Hot ==
  /\ Active /\ Registered /\ ~Cold(call.layer, cur)
  /\ prof' = [prof EXCEPT !.accesses = @ + 1, !.hits = @ + 1]
  /\ IF registry[<< call.layer, cur >>] = "device"
     THEN /\ stream' = Append(stream, Product(Weights(1)))
          /\ Advance
          /\ UNCHANGED pc
     ELSE /\ stream' = stream \o << Copy(Weights(1)), Product(<< "device" >>) >>
          /\ pc' = "sync"
          /\ UNCHANGED << cur, row >>
  /\ UNCHANGED << conf, hot, registry, call, sorted, staging, device, result, dst, phase, due,
                  calls >>

Offset == conf.base + cur * conf.bytes
FileSize == conf.base + NExpert * conf.bytes - conf.cut
AlignUp(n) == ((n + Page - 1) \div Page) * Page

HeadPad   == IF conf.direct THEN Offset % Page ELSE 0
Requested == IF conf.direct THEN AlignUp(HeadPad + conf.bytes) ELSE conf.bytes

(* Mutant of StagingRoom: no room for the tail of a direct read. *)
StagingRoomTight == MaxExpert + Page - conf.skew

(* Bytes behind the aligned start of the staging buffer. *)
StagingRoom == MaxExpert + 2 * Page - conf.skew

ReadReturns ==
  LET there == FileSize - (Offset - HeadPad)
  IN  IF there <= 0 THEN 0 ELSE IF there < Requested THEN there ELSE Requested

(* Mutant of CountRead: a read counts for the draft, whatever the phase.   *)
CountReadAsDraft(p) ==
  [p EXCEPT !.accesses = @ + 1, !.misses = @ + 1, !.reads[1] = @ + 1]

CountRead(p) ==
  [p EXCEPT !.accesses = @ + 1, !.misses = @ + 1, !.reads[phase] = @ + 1]

(* A cold expert is read into the staging buffer and its copy enqueued; an *)
(* expert of a wrong size or a short read ends the process.                *)
Fetch ==
  /\ Active /\ Registered /\ Cold(call.layer, cur)
  /\ IF conf.bytes \in 1..MaxExpert /\ ReadReturns >= HeadPad + conf.bytes
     THEN /\ pc' = "sync"
          /\ prof' = CountRead(prof)
          /\ staging' = Weights(1)
          /\ stream' = stream \o << Copy(<< "staging" >>), Product(<< "device" >>) >>
     ELSE /\ pc' = "aborted"
          /\ prof' = [prof EXCEPT !.accesses = @ + 1]
          /\ UNCHANGED << staging, stream >>
  /\ UNCHANGED << conf, hot, registry, call, sorted, cur, row, device, result, dst, phase, due,
                  calls >>

(* Mutant of Sync: the host goes on while the device still copies. *)
SyncNothing ==
  /\ pc = "sync"
  /\ pc' = "expert"
  /\ Advance
  /\ UNCHANGED << conf, hot, registry, call, sorted, staging, device, stream, result, dst,
                  phase, prof, due, calls >>

(* need_sync: cudaStreamSynchronize *)
Sync ==
  /\ pc = "sync" /\ stream = << >>
  /\ pc' = "expert"
  /\ Advance
  /\ UNCHANGED << conf, hot, registry, call, sorted, staging, device, stream, result, dst,
                  phase, prof, due, calls >>

(* get_rows back into the order of tokens and slots. *)
Scatter == [op |-> "scatter", src |-> << "device" >>, rows |-> sorted.from]

(* Mutant of Return: the products stay in dst_sorted. *)
ReturnSorted ==
  /\ pc = "expert" /\ cur = NExpert
  /\ pc' = "idle"
  /\ UNCHANGED << conf, hot, registry, call, sorted, cur, row, staging, device, stream, result,
                  dst, phase, prof, due, calls >>

Return ==
  /\ pc = "expert" /\ cur = NExpert
  /\ stream' = Append(stream, Scatter)
  /\ pc' = "idle"
  /\ UNCHANGED << conf, hot, registry, call, sorted, cur, row, staging, device, result, dst,
                  phase, prof, due, calls >>

-----------------------------------------------------------------------------
(* The device executes the oldest operation (external). *)

Source(s) == CASE s = << "staging" >> -> staging [] s = << "device" >> -> device [] OTHER -> s

Execute ==
  /\ stream # << >>
  /\ LET o == Head(stream)
     IN  CASE o.op = "copy" ->
                device' = Source(o.src) /\ UNCHANGED << result, dst >>
           [] o.op = "mul" ->
                /\ result' = [i \in DOMAIN result \cup o.rows |->
                                IF i \in o.rows THEN << Source(o.src), sorted.to[i] >>
                                ELSE result[i]]
                /\ UNCHANGED << device, dst >>
           [] o.op = "scatter" ->
                /\ dst' = [t \in DOMAIN o.rows |->
                             [x \in DOMAIN o.rows[t] |-> result[o.rows[t][x]]]]
                /\ UNCHANGED << device, result >>
  /\ stream' = Tail(stream)
  /\ UNCHANGED << pc, conf, hot, registry, call, sorted, cur, row, staging, phase, prof, due,
                  calls >>

-----------------------------------------------------------------------------
(* Profile calls of the examples, between decodes. *)

NoReads == [p \in Phases |-> 0]
NoProf  == [accesses |-> 0, hits |-> 0, misses |-> 0, reads |-> NoReads]

SetPhase ==
  /\ pc = "idle" /\ calls < MaxCalls
  /\ phase' \in Phases \ {phase}
  /\ UNCHANGED << pc, conf, hot, registry, call, sorted, cur, row, staging, device, stream,
                  result, dst, prof, due, calls >>

ProfileReset ==
  /\ pc = "idle" /\ calls < MaxCalls
  /\ prof' = NoProf /\ due' = NoReads
  /\ UNCHANGED << pc, conf, hot, registry, call, sorted, cur, row, staging, device, stream,
                  result, dst, phase, calls >>

Init ==
  /\ pc = "load"
  /\ conf \in Configs
  /\ hot = {} /\ registry = << >>
  /\ call = [model |-> 1, layer |-> 0, ids |-> << >>, ne11 |-> 1]
  /\ sorted = [pairs |-> << >>, to |-> << >>, from |-> << >>]
  /\ cur = 0 /\ row = 0
  /\ staging = << >> /\ device = << >>
  /\ stream = << >> /\ result = << >> /\ dst = << >>
  /\ phase = 0 /\ prof = NoProf /\ due = NoReads
  /\ calls = 0

Host == Load \/ Begin \/ Skip \/ InMemory \/ Hot \/ Fetch \/ Sync \/ Return

Ended ==
  /\ pc \in {"refused", "aborted"} \/ (pc = "idle" /\ calls = MaxCalls)
  /\ stream = << >>
  /\ UNCHANGED vars

Next == Host \/ Execute \/ SetPhase \/ ProfileReset \/ Ended

(* The host runs on, and the device executes what was enqueued. *)
Spec == Init /\ [][Next]_vars /\ WF_vars(Host) /\ WF_vars(Execute)

-----------------------------------------------------------------------------
(* Properties. *)

(* Every product a call delivers is the one of the routed expert's own     *)
(* weights and of the token's own row, in the place of its token and slot, *)
(* though all cold experts pass through one staging buffer and one device  *)
(* buffer while the device lags behind the host.                           *)
ProductsOwnWeights ==
  dst # << >> =>
    \A t \in DOMAIN call.ids : \A x \in Slots :
      dst[t][x] = << << call.model, call.layer, call.ids[t][x] >>, Input(t, x, call.ne11) >>

(* The profile between two calls: every access was a hit or a miss, and    *)
(* the reads of a phase are the cold experts its calls were routed to, one *)
(* per expert and call, however many tokens share it.                      *)
ReadsOfPhase ==
  pc = "idle" => /\ prof.accesses = prof.hits + prof.misses
                 /\ prof.reads = due

(* A read never writes behind the staging buffer, wherever the expert lies *)
(* in the file and however the buffer was aligned.                         *)
ReadStaysInStaging ==
  Active /\ Registered /\ Cold(call.layer, cur) /\ conf.bytes \in 1..MaxExpert =>
    Requested <= StagingRoom

(* A loaded model keeps to its budget, and without a list of hot experts   *)
(* no cold expert is left that would still fit.                            *)
BudgetUsedUp ==
  pc \notin {"load", "refused"} /\ conf.budget # 0 =>
    /\ Dense + Bytes[hot] <= conf.budget
    /\ ~conf.given => \A k \in Keys \ hot : Dense + Bytes[hot \cup {k}] > conf.budget

(* A call delivers its products unless the process ends. *)
CallsComplete == pc = "expert" ~> (dst # << >> \/ pc = "aborted")

-----------------------------------------------------------------------------
(* The inductive invariant. *)

IsSeq(s) == s \in Seq({s[k] : k \in 1..Len(s)})

FetchTypeOK ==
  /\ pc \in {"load", "refused", "idle", "expert", "sync", "aborted"}
  /\ conf \in Configs
  /\ pc \notin {"load", "refused"} => registry \in [Keys -> {"device", "host", "none"}]
  /\ cur \in 0..NExpert /\ row \in Nat /\ calls \in Nat
  /\ pc = "sync" => cur < NExpert
  /\ IsSeq(stream)
  /\ phase \in Phases
  /\ prof \in [accesses : Nat, hits : Nat, misses : Nat, reads : [Phases -> Nat]]
  /\ due \in [Phases -> Nat]

Pairs == 1..Len(sorted.pairs)

(* The routed experts are distinct for each token, as top-k picks them. *)
ValidIds(ids) ==
  /\ \E n \in 1..NTok, used \in 1..NExpert : ids \in [1..n -> [1..used -> Experts]]
  /\ \A t \in DOMAIN ids : \A x, y \in 1..Len(ids[1]) : ids[t][x] = ids[t][y] => x = y

CallInv ==
  /\ calls = 0 => /\ pc \in {"load", "refused", "idle"}
                  /\ call.ids = << >> /\ sorted.pairs = << >>
  /\ calls > 0 => /\ pc \notin {"load", "refused"}
                  /\ ValidIds(call.ids)
                  /\ call.model \in {0, 1}
                  /\ call.layer \in IF call.model = 1 THEN Layers ELSE RamLayers
                  /\ sorted = SortedOf(call.ids, call.ne11)

(* row counts the rows of the experts before cur. *)
RowsBefore(e) == {i \in Pairs : sorted.pairs[i][1] < e}

RowInv == pc \in {"expert", "sync"} => row = Cardinality(RowsBefore(cur))

Own(e) == << call.model, call.layer, e >>

(* What may be enqueued, and where: products with weights that stay where   *)
(* they are; last of all, while the host waits, the copy to the device      *)
(* buffer and the product with it; and at the end of a call the scatter.    *)
InPlace(o) ==
  /\ o.op = "mul"
  /\ \E e \in Experts : /\ o.src = Own(e)
                        /\ \A i \in o.rows : i \in Pairs /\ sorted.pairs[i][1] = e

Copying(k) ==
  /\ pc = "sync" /\ k = Len(stream) - 1
  /\ stream[k].op = "copy"
  /\ \/ stream[k].src = Own(cur)
     \/ stream[k].src = << "staging" >> /\ staging = Own(cur)

Buffered(k) ==
  /\ pc = "sync" /\ k = Len(stream)
  /\ stream[k].op = "mul" /\ stream[k].src = << "device" >>
  /\ stream[k].rows = (row + 1)..(row + Rows(cur))
  /\ IF k = 1 THEN device = Own(cur) ELSE stream[k - 1].op = "copy"

Scattering(k) ==
  /\ pc = "idle" /\ k = Len(stream)
  /\ stream[k].op = "scatter" /\ stream[k].rows = sorted.from

StreamInv ==
  \A k \in 1..Len(stream) : InPlace(stream[k]) \/ Copying(k) \/ Buffered(k) \/ Scattering(k)

(* Every row the host is done with is computed or enqueued. *)
Enqueued(i) == \E k \in 1..Len(stream) : stream[k].op = "mul" /\ i \in stream[k].rows

Reached(i) == i \in DOMAIN result \/ Enqueued(i)

ProductInv ==
  /\ \A i \in DOMAIN result :
       i \in Pairs /\ result[i] = << Own(sorted.pairs[i][1]), sorted.to[i] >>
  /\ pc = "expert" => \A i \in 1..row : Reached(i)
  /\ pc = "sync" => \A i \in 1..(row + Rows(cur)) : Reached(i)
  /\ pc = "idle" => \A i \in Pairs : Reached(i)

(* The cold experts of the call that are still to be read. *)
Ahead ==
  {e \in Routed(call.ids) : /\ Cold(call.layer, e)
                            /\ IF pc = "sync" THEN e > cur ELSE e >= cur}

ReadsInv ==
  /\ pc # "aborted" => prof.accesses = prof.hits + prof.misses
  /\ pc \in {"load", "idle"} => prof.reads = due
  /\ pc \in {"expert", "sync"} =>
       \A p \in Phases :
         due[p] = prof.reads[p] + (IF p = phase /\ call.model = 1 THEN Cardinality(Ahead) ELSE 0)

(* The model in memory has no layer with a name of the model in SSD mode's. *)
OwnNames == Layers \cap RamLayers = {}

FetchInv ==
  /\ FetchTypeOK /\ CallInv /\ RowInv /\ StreamInv /\ ProductInv /\ ProductsOwnWeights
  /\ ReadsInv
=============================================================================
