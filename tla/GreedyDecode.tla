---------------------------- MODULE GreedyDecode ----------------------------
(***************************************************************************)
(* What the speculative driver promises: the output of plain greedy        *)
(* autoregressive decoding.  One token at a time, always the target's      *)
(* argmax after everything so far, until Predict tokens are out or the     *)
(* argmax is a stop token (the --ar loop of examples/speculative-next,     *)
(* without memory, drafts or trees).                                       *)
(***************************************************************************)
EXTENDS Naturals, Sequences

CONSTANTS
  Token,        (* the vocabulary                                          *)
  Greedy(_),    (* argmax of the target's logits after a token sequence    *)
  Stop,         (* tokens that end the output                              *)
  Predict,      (* -n: number of tokens asked for                          *)
  Prompts       (* tokenized prompts                                       *)

VARIABLES prompt, emitted, finished

vars == << prompt, emitted, finished >>

Init ==
  /\ prompt \in Prompts
  /\ emitted = << >>
  /\ finished = FALSE

Emit ==
  /\ ~finished
  /\ Len(emitted) < Predict
  /\ Greedy(prompt \o emitted) \notin Stop
  /\ emitted' = Append(emitted, Greedy(prompt \o emitted))
  /\ UNCHANGED << prompt, finished >>

Finish ==
  /\ ~finished
  /\ Len(emitted) = Predict \/ Greedy(prompt \o emitted) \in Stop
  /\ finished' = TRUE
  /\ UNCHANGED << prompt, emitted >>

Next == Emit \/ Finish

Spec == Init /\ [][Next]_vars
=============================================================================
