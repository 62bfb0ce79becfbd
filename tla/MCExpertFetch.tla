---------------------------- MODULE MCExpertFetch ----------------------------
(* Instances of ExpertFetch for TLC.                                       *)
EXTENDS ExpertFetch

MCBundle(l) == IF l = 0 THEN 3 ELSE 2

MCDefault ==
  [budget |-> 0, given |-> FALSE, list |-> {}, place |-> [l \in Layers |-> "device"], bytes |-> 7,
   base |-> 3, cut |-> 0, direct |-> FALSE, skew |-> 0]

(* No hot expert, direct reads from an unlucky offset into a skewed buffer;*)
(* a truncated file; budgets with and without a list, on the device and in *)
(* host memory; experts as large as the buffer, and larger; refused ones.  *)
MCConfigs ==
  {[MCDefault EXCEPT !.direct = TRUE, !.skew = 3],
   [MCDefault EXCEPT !.direct = TRUE, !.bytes = 8, !.skew = 3, !.budget = 7],
   [MCDefault EXCEPT !.cut = 1, !.given = TRUE, !.list = {<< 1, 0 >>}],
   [MCDefault EXCEPT !.bytes = 9, !.budget = 8],
   [MCDefault EXCEPT !.budget = 6, !.place = [l \in Layers |-> "host"]],
   [MCDefault EXCEPT !.budget = 9, !.given = TRUE, !.list = {<< 0, 1 >>, << 1, 0 >>}],
   [MCDefault EXCEPT !.budget = 5, !.given = TRUE, !.list = {<< 0, 1 >>, << 1, 0 >>}],
   [MCDefault EXCEPT !.budget = 1],
   [MCDefault EXCEPT !.given = TRUE, !.list = {<< 5, 5 >>}]}
=============================================================================
