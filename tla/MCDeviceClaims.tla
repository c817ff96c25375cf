---------------------------- MODULE MCDeviceClaims ----------------------------
(* Instances of DeviceClaims for TLC, all of one phone: every id below is a *)
(* run or a preflight of device d1.                                          *)
EXTENDS DeviceClaims, TLC

CONSTANTS r1, r2, p1, w1, w2, s1, d1

OnePhone == [j \in Jobs |-> d1]

Symmetry == Permutations({w1, w2}) \cup Permutations({r1, r2})
=============================================================================
