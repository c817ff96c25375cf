------------------------------ MODULE MCRunLoop ------------------------------
(* An instance of RunLoop: two collectors, one slower, and two steps. *)
EXTENDS RunLoop, TLC

CONSTANTS cpu, memory

Intervals == cpu :> 1 @@ memory :> 2
StepTimes == <<0, 1>>
=============================================================================
