----------------------------- MODULE QueueTable -----------------------------
(***************************************************************************)
(* The table of process queues, proc/queuetable.cpp: doubly linked lists   *)
(* threaded through one array.  Slots 0 to NPROC-1 are processes, the rest *)
(* are the heads and tails of two queues.  Links hold -1 for "none", and   *)
(* the code follows them without a test, so the slot before the array is   *)
(* part of the state: it lies on the members declared before it, the key   *)
(* on padding and the two links on the halves of maxSlots, which nobody    *)
(* else uses and which start at 0 (queuetable.hpp:51-53).                  *)
(*                                                                         *)
(* The loop of insert is one step per iteration, because it may not end.   *)
(* Every other routine is one step: nothing preempts the kernel.           *)
(***************************************************************************)
EXTENDS Integers, Sequences, FiniteSets, SequencesExt

CONSTANTS
    NPROC,        \* processes the table has room for (10)
    Keys,         \* priorities given to insert
    MaxKey        \* 2^32 - 1, the value of -1 in a key

ASSUME TableAssumption ==
    /\ NPROC \in Nat \ {0} /\ MaxKey \in Nat \ {0}
    /\ Keys \subseteq 0..MaxKey

Pids == 0 .. NPROC - 1
Queues == {NPROC, NPROC + 2}          \* the ids newQueue can return in bounds
Slots == -1 .. NPROC + 3
Node == [key : 0..MaxKey, next : Slots, prev : Slots]

none == -1
idle == [proc |-> none, queue |-> none, key |-> 0, curr |-> none]

VARIABLES
    buf,          \* _buf, with the slot before it
    nextqid,
    walk,         \* the call of insert in progress: proc, queue, key, curr
    where,        \* callers: the queue each process was put on, or none
    overrun,      \* a queue was created beyond the end of the array
    spoiled,      \* history: popFirst or popLast took the only process of a queue
    wrongEnd      \* history, kept until spoiled: popLast took another process than the last

vars == <<buf, nextqid, walk, where, overrun, spoiled, wrongEnd>>

-----------------------------------------------------------------------------
\* Mistake: tails at the place of the next queue's head.
tailOneTooFar(q) == q + 2

head(q) == q
tail(q) == q + 1
firstPid(q) == buf[head(q)].next
lastPid(q) == buf[tail(q)].prev
isEmpty(q) == firstPid(q) = tail(q)

Created == {q \in Queues : q < nextqid}

\* A routine is called when no other one is in progress, on a queue that exists.
Called == walk = idle /\ ~overrun

\* A process is put on a queue by callers that have it on none, as the comment
\* of queuetable.hpp:25-29 asks of them.
Unqueued(p) == where[p] = none

-----------------------------------------------------------------------------
\* Without a test for the end of the array: a third queue is written past it.
newQueue ==
    /\ Called
    /\ nextqid' = nextqid + 2
    /\ IF nextqid \in Queues
       THEN /\ buf' = [buf EXCEPT
                 ![head(nextqid)].next = tail(nextqid),
                 ![head(nextqid)].prev = none,
                 ![tail(nextqid)] = [key |-> MaxKey, next |-> none, prev |-> head(nextqid)]]
            /\ UNCHANGED overrun
       ELSE overrun' = TRUE /\ UNCHANGED buf
    /\ UNCHANGED <<walk, where, spoiled, wrongEnd>>

\* Mistake: the tail's link to the last process not updated.
pushQueueForgettingTail(q, p) ==
    /\ Called /\ Unqueued(p)
    /\ LET oldlast == lastPid(q) IN
       buf' = [[buf EXCEPT ![oldlast].next = p]
                    EXCEPT ![p].prev = oldlast, ![p].next = tail(q)]
    /\ where' = [where EXCEPT ![p] = q]
    /\ UNCHANGED <<nextqid, walk, overrun, spoiled, wrongEnd>>

\* Four writes in this order: the later ones see the earlier ones.
pushQueue(q, p) ==
    /\ Called /\ Unqueued(p)
    /\ LET oldlast == lastPid(q) IN
       buf' = [[[buf EXCEPT ![oldlast].next = p]
                     EXCEPT ![p].prev = oldlast, ![p].next = tail(q)]
                     EXCEPT ![tail(q)].prev = p]
    /\ where' = [where EXCEPT ![p] = q]
    /\ UNCHANGED <<nextqid, walk, overrun, spoiled, wrongEnd>>

\* What a caller makes of a returned slot: that process is on no queue now.
Returned(slot) == where' = [p \in Pids |-> IF p = slot THEN none ELSE where[p]]

\* Mistake: the new first process, or the tail, still links back to the old one.
popQueueForgettingPrev(q) ==
    /\ Called
    /\ IF isEmpty(q)
       THEN UNCHANGED <<buf, where>>
       ELSE /\ buf' = [buf EXCEPT ![head(q)].next = buf[firstPid(q)].next]
            /\ Returned(firstPid(q))
    /\ UNCHANGED <<nextqid, walk, overrun, spoiled, wrongEnd>>

popQueue(q) ==
    /\ Called
    /\ IF isEmpty(q)
       THEN UNCHANGED <<buf, where>>
       ELSE LET evicted == firstPid(q)
                unlinked == [buf EXCEPT ![head(q)].next = buf[evicted].next]
                relinked == [unlinked EXCEPT ![unlinked[evicted].next].prev = head(q)]
            IN  /\ buf' = [relinked EXCEPT ![evicted].next = none, ![evicted].prev = none]
                /\ Returned(evicted)
    /\ UNCHANGED <<nextqid, walk, overrun, spoiled, wrongEnd>>

\* The common body of popFirst and popLast.  Only the head changes: the tail
\* keeps pointing to a process that was the only one.
takeFirst(q) ==
    /\ Called
    /\ IF isEmpty(q)
       THEN UNCHANGED <<buf, where, spoiled>>
       ELSE /\ buf' = [buf EXCEPT ![head(q)].next = buf[firstPid(q)].next]
            /\ Returned(firstPid(q))
            /\ spoiled' = (spoiled \/ buf[firstPid(q)].next = tail(q))
    /\ UNCHANGED <<nextqid, walk, overrun>>

popFirst(q) == takeFirst(q) /\ wrongEnd' = (wrongEnd /\ ~spoiled')

\* A copy of popFirst, which takes the first process of the queue too.
popLast(q) ==
    /\ takeFirst(q)
    /\ wrongEnd' = (/\ wrongEnd \/ (~isEmpty(q) /\ firstPid(q) # lastPid(q))
                    /\ ~spoiled')

\* A call with a negative process id returns at once and is left out.
insertBegin(q, p, k) ==
    /\ Called /\ Unqueued(p)
    /\ walk' = [proc |-> p, queue |-> q, key |-> k, curr |-> head(q)]
    /\ UNCHANGED <<buf, nextqid, where, overrun, spoiled, wrongEnd>>

\* Mistake: the comparison the other way round.
WalksOnReversed == walk.key >= buf[buf[walk.curr].next].key

WalksOn == walk.key <= buf[buf[walk.curr].next].key

insertStep ==
    /\ walk # idle /\ WalksOn
    /\ walk' = [walk EXCEPT !.curr = buf[@].next]
    /\ UNCHANGED <<buf, nextqid, where, overrun, spoiled, wrongEnd>>

\* The process goes BEFORE the slot the walk stopped at, the one whose
\* successor has the smaller key.  Its own key is not stored.
insertEnd ==
    /\ walk # idle /\ ~WalksOn
    /\ LET prev == buf[walk.curr].prev IN
       buf' = [[[buf EXCEPT ![prev].next = walk.proc]
                     EXCEPT ![walk.proc].prev = prev, ![walk.proc].next = walk.curr]
                     EXCEPT ![walk.curr].prev = walk.proc]
    /\ where' = [where EXCEPT ![walk.proc] = walk.queue]
    /\ walk' = idle
    /\ UNCHANGED <<nextqid, overrun, spoiled, wrongEnd>>

-----------------------------------------------------------------------------
\* _queueTable is zero initialised, but for nextqid.
Init ==
    /\ buf = [s \in Slots |-> [key |-> 0, next |-> 0, prev |-> 0]]
    /\ nextqid = NPROC
    /\ walk = idle
    /\ where = [p \in Pids |-> none]
    /\ overrun = FALSE
    /\ spoiled = FALSE
    /\ wrongEnd = FALSE

Next ==
    \/ newQueue
    \/ \E q \in Created :
         \/ popQueue(q) \/ popFirst(q) \/ popLast(q)
         \/ \E p \in Pids : pushQueue(q, p) \/ \E k \in Keys : insertBegin(q, p, k)
    \/ insertStep
    \/ insertEnd

\* A call of insert runs on: nothing else runs until it returns.
Fairness == WF_vars(insertStep) /\ WF_vars(insertEnd)

Spec == Init /\ [][Next]_vars /\ Fairness

-----------------------------------------------------------------------------
(* The content of a queue. *)

\* The slot reached from slot s by following n links.
Reached(s) == LET r[n \in 0 .. NPROC + 1] == IF n = 0 THEN s ELSE buf[r[n-1]].next IN r

\* Number of processes before the tail; a broken list may not reach it.
Lengths(q) == {n \in 0 .. NPROC : Reached(head(q))[n+1] = tail(q)}

Contents(q) ==
    [i \in 1 .. Min(Lengths(q)) |-> Reached(head(q))[i]]

-----------------------------------------------------------------------------
(* Properties. *)

\* Type correctness, which says that every link followed or written, by any
\* sequence of legal calls, stays in the object: the slot -1 is the worst.
TypeOK ==
    /\ buf \in [Slots -> Node]
    /\ nextqid \in {NPROC, NPROC + 2, NPROC + 4, NPROC + 6}
    /\ walk \in [proc : Pids \union {none}, queue : Queues \union {none},
                 key : 0..MaxKey, curr : Slots]
    /\ where \in [Pids -> Queues \union {none}]
    /\ overrun = (nextqid = NPROC + 6)
    /\ spoiled \in BOOLEAN /\ wrongEnd \in BOOLEAN

\* Each queue's chain ends at its own tail, and the tail knows the last process:
\* pushQueue (queuetable.cpp:29) and insert rely on it.  It needs every call to
\* respect it, but for popFirst and popLast taking the last process of a queue.
TailIsLast ==
    ~spoiled => \A q \in Created :
        /\ Lengths(q) # {}
        /\ lastPid(q) = IF isEmpty(q) THEN head(q) ELSE Last(Contents(q))

\* What has happened after which the table promises nothing any more.
Lost == spoiled \/ wrongEnd \/ overrun

Abstract == INSTANCE FifoQueues WITH
    Qids <- Queues,
    queues <- IF Lost THEN <<>> ELSE [q \in Created |-> Contents(q)],
    running <- ~Lost

\* The table is a set of FIFO queues: pushQueue appends, popQueue and popFirst
\* take the oldest, and insert either appends (to an empty queue) or leaves every
\* queue as it was (queuetable.cpp:5-94).  Nothing is promised once popFirst or
\* popLast has emptied a queue, popLast, a copy of popFirst, has taken another process
\* than the last, or a third queue was made.
ImplementsFifo == Abstract!Spec

\* A call of insert with a key above 0 returns, whatever legal calls came before
\* (queuetable.cpp:67-69): the walk stops at a process or beyond the tail.
InsertReturns == (walk # idle /\ walk.key > 0) ~> (walk = idle)

-----------------------------------------------------------------------------
(* What the comments say, and the code does not do. *)

\* queuetable.cpp:65-66, "termination is guaranteed as the key of the tail is -1".
TerminationGuaranteed == (walk # idle) ~> (walk = idle)

\* queuetable.cpp:74, "insert and update the entry", and queuetable.hpp:46, "for
\* priority queue": a process that insert put on a queue is on it.
InsertedIsQueued ==
    [][\A q \in Created, p \in Pids :
        insertEnd /\ walk.queue = q /\ walk.proc = p /\ ~spoiled
            => p \in ToSet(Contents(q))']_vars
=============================================================================
