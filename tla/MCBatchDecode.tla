--------------------------- MODULE MCBatchDecode ---------------------------
(* Small instances of BatchDecode. *)
EXTENDS BatchDecode

(* The unified cache splits as the iswa cache does at its first attempt.    *)
MCContexts == {[kind |-> k, embeddings |-> FALSE] : k \in {"iswa", "streams", "hybrid"}}
              \cup {[kind |-> "hybrid", embeddings |-> TRUE]}
OneCache == {[kind |-> "unified", embeddings |-> FALSE]}

Single  == {<< 0 >>}
Coupled2 == {<< 0 >>, << 1 >>, << 0, 1 >>}
AllOut  == {1..MaxTokens}
SomeOut == {{1, 3}}
NoPos   == {<< >>}
GivenToo == {<< >>, << 1, 0 >>, << 0, 2 >>}
=============================================================================
