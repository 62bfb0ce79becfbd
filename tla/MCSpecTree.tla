----------------------------- MODULE MCSpecTree -----------------------------
(* Instances of SpecTree for TLC.                                          *)
EXTENDS SpecTree

MCTokens  == 0..2
MCPrompts == {<< 1 >>, << 1, 2 >>}

(* After some texts the target can draw two tokens, after the others one.  *)
MCSupport(s) ==
  LET n == s[1] + s[Len(s)] + Len(s)
  IN  IF n % 2 = 0 THEN {n % 3, (n + 1) % 3} ELSE {n % 3}

MCInf == 100

(* One sequence and two; a shared cache and separate ones; both drafters.  *)
MCOptions == [nseq : {1, 2}, share : BOOLEAN, prune : BOOLEAN]

Shared2 == {[nseq |-> 2, share |-> TRUE, prune |-> FALSE]}
=============================================================================
