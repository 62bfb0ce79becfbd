--------------------------- MODULE MCRecurrentCells -------------------------
(* Instances of RecurrentCells for TLC.                                    *)
EXTENDS RecurrentCells

(* Each use leaves out calls that multiply the states of the others.      *)
MCUses == {[size |-> 3, ops |-> {"couple", "rm", "cp", "keep", "clear"}],
           [size |-> 2, ops |-> {"couple", "rm", "cp", "seq_state", "full_state"}],
           [size |-> 2, ops |-> {"couple", "rm", "cp", "shift"}]}

(* Rows of empty cells differ only in being clear or not: no source index  *)
(* but the cell's own names them (CellsTypeOK).                            *)
MCView ==
  << use, table, saved, aborted, want, wantPos,
     [c \in Ids |-> IF table.cells[c].seqs = {} /\ data[c] # << >>
                    THEN << None >> ELSE data[c]] >>
=============================================================================
