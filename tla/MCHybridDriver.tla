--------------------------- MODULE MCHybridDriver ---------------------------
(* Instances of HybridDriver for TLC.                                      *)
EXTENDS HybridDriver

(* A target over the tokens 0..2 whose answer depends on the first token,   *)
(* the last token and the length.  With 0 as stop token the prompts below   *)
(* make it stop at once, after two tokens, and not within four tokens.      *)
MCGreedy(s) == (s[1] + s[Len(s)] + Len(s) \div 2) % 3

MCTokens  == 0..2
MCPrompts == {<< 1, 1 >>, << 1 >>, << 1, 1, 2 >>}
MCAllPrompts == UNION {[1..n -> MCTokens] : n \in 1..4}  \* 4 + Predict > Context
MCPairs   == [1..2 -> MCTokens] \cup {<< 1, 0, 2, 1 >>}
MCNoProbe == -1
MCProbe   == 2
=============================================================================
