------------------------------ MODULE MCKvCells ------------------------------
(* Instances of KvCells for TLC.                                           *)
EXTENDS KvCells

MCInf == 100

(* Everything, a tail, the first token. *)
MCRanges == {<< 0, Inf >>, << 1, Inf >>, << 0, 1 >>}

(* One stream with all calls; one with saving and loading; two streams     *)
(* with deferred copies and shifts; one stream with a window.              *)
MCOptions ==
  {[split |-> FALSE, size |-> 3, swa |-> 0, calls |-> Calls \ {"state"}, shifts |-> {-1, 1},
    top |-> 2],
   [split |-> FALSE, size |-> 2, swa |-> 0, calls |-> {"state"}, shifts |-> {}, top |-> 1],
   [split |-> TRUE, size |-> 2, swa |-> 0, calls |-> {"seq_cp"}, shifts |-> {-1}, top |-> 1],
   [split |-> FALSE, size |-> 3, swa |-> 2, calls |-> Calls \ {"state"}, shifts |-> {},
    top |-> 4]}
=============================================================================
