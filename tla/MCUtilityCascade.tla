--------------------------- MODULE MCUtilityCascade -------------------------
(* Instances of UtilityCascade for TLC.                                    *)
EXTENDS UtilityCascade
=============================================================================
