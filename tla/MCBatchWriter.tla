---------------------------- MODULE MCBatchWriter ----------------------------
(* Instances of BatchWriter: two kinds of item and the report in a queue of two. *)
EXTENDS BatchWriter, TLC

CONSTANTS sample, event, error_event
=============================================================================
