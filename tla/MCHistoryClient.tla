--------------------------- MODULE MCHistoryClient --------------------------
(* Instances of HistoryClient for TLC.                                     *)
EXTENDS HistoryClient

MCTokens == {1, 2}

(* No invariant of the contract run reads the last answer.                 *)
MCView == << mem, view, saved, fresh, lost >>
=============================================================================
