---------------------------- MODULE MCQueueTable ----------------------------
(* The queue table with three processes; see the .cfg files. *)
EXTENDS QueueTable
=============================================================================
