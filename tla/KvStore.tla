------------------------------- MODULE KvStore -------------------------------
(***************************************************************************)
(* What the calls of the memory API promise about an attention cache, free *)
(* of its layout: a cache is a set of entries, each a decoded token with a *)
(* position (pos), the sequences it belongs to (seqs) and whatever else    *)
(* the user of this module keeps in it.  p1 = Inf stands for "to the end". *)
(***************************************************************************)
EXTENDS Integers, FiniteSets

CONSTANT Inf    (* larger than every position *)

Within(e, p0, p1) == p0 <= e.pos /\ e.pos < p1

(* An entry no sequence refers to is gone. *)
Held(m) == {e \in m : e.seqs # {}}

SeqRm(m, s, p0, p1) ==
  Held({IF Within(e, p0, p1) THEN [e EXCEPT !.seqs = @ \ {s}] ELSE e : e \in m})

(* seq_rm for any sequence (seq_id < 0). *)
RmAny(m, p0, p1) == {e \in m : ~Within(e, p0, p1)}

SeqCp(m, src, dst, p0, p1) ==
  {IF src \in e.seqs /\ Within(e, p0, p1) THEN [e EXCEPT !.seqs = @ \cup {dst}] ELSE e :
     e \in m}

SeqKeep(m, s) == {[e EXCEPT !.seqs = {s}] : e \in {x \in m : s \in x.seqs}}

(* The shift moves the token, so in every sequence that holds it; a token  *)
(* shifted below position 0 is dropped.                                    *)
SeqAdd(m, s, p0, p1, d) ==
  {e \in {IF s \in x.seqs /\ Within(x, p0, p1) THEN [x EXCEPT !.pos = @ + d] ELSE x : x \in m} :
     e.pos >= 0}

Of(m, s) == {e \in m : s \in e.seqs}

(* -1 for an empty sequence. *)
PosMax(m, s) ==
  LET ps == {e.pos : e \in Of(m, s)}
  IN  IF ps = {} THEN -1 ELSE CHOOSE p \in ps : \A q \in ps : q <= p
=============================================================================
