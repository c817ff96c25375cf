------------------------------ MODULE MCDispatch ------------------------------
(* Instances of Dispatch: two runs and a preflight of one phone. *)
EXTENDS Dispatch, TLC

CONSTANTS r1, r2, p1, w1, w2, c1, c2, d1

OnePhone == [j \in Jobs |-> d1]
InsertedInOrder == [r \in Runs |-> IF r = r1 THEN 1 ELSE 2]
Symmetry == Permutations(Workers) \cup Permutations(Dispatchers)
=============================================================================
