-------------------------- MODULE MCInterruptStubs --------------------------
(* A task that executes int 3 and int 5, and raises faults with and without *)
(* an error code. *)
EXTENDS InterruptStubs
=============================================================================
