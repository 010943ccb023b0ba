----------------------------- MODULE FifoQueues -----------------------------
(***************************************************************************)
(* What the process queues promise: queues that processes join at the end  *)
(* and leave at either end, and that never hold a process twice.  An       *)
(* implementation may give up (running becomes FALSE and nothing is        *)
(* promised any more).                                                     *)
(* Module QueueTable implements this specification.                        *)
(***************************************************************************)
EXTENDS Naturals, Sequences, SequencesExt, Functions

CONSTANTS Qids, Pids

VARIABLES
    queues,        \* a sequence of processes for every queue created
    running

vars == <<queues, running>>

OnSomeQueue(p) == \E q \in DOMAIN queues : p \in ToSet(queues[q])

Init == queues = <<>> /\ running = TRUE

Create ==
    \E q \in Qids \ DOMAIN queues :
        queues' = [r \in DOMAIN queues \union {q} |-> IF r = q THEN <<>> ELSE queues[r]]

Push ==
    \E q \in DOMAIN queues, p \in Pids :
        ~OnSomeQueue(p) /\ queues' = [queues EXCEPT ![q] = Append(@, p)]

PopFirst ==
    \E q \in DOMAIN queues :
        queues[q] # <<>> /\ queues' = [queues EXCEPT ![q] = Tail(@)]

PopLast ==
    \E q \in DOMAIN queues :
        queues[q] # <<>> /\ queues' = [queues EXCEPT ![q] = Front(@)]

GiveUp == running' = FALSE /\ queues' = <<>>

Next == running /\ (((Create \/ Push \/ PopFirst \/ PopLast) /\ UNCHANGED running) \/ GiveUp)

Spec == Init /\ [][Next]_vars
=============================================================================
