---------------------------- MODULE MCLiveScreen ----------------------------
(* Connections to one phone, all but the screenshots filming the same run. *)
EXTENDS LiveScreen, TLC

CONSTANTS c1, c2, c3, c4, d1, r1

OnePhone == [c \in Connections |-> d1]
OneRun == [c \in Connections |-> IF c \in Screenshots THEN NoRun ELSE r1]

Symmetry == Permutations(Connections \ Screenshots)
=============================================================================
