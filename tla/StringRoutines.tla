--------------------------- MODULE StringRoutines ---------------------------
(***************************************************************************)
(* memcpy, memset, memmove and memcmp of include/string.h, which the       *)
(* compiler calls on its own.  One step is one iteration of a loop.        *)
(***************************************************************************)
EXTENDS Integers

CONSTANTS
    Bytes,          \* addresses below it are memory
    ByteValues,     \* values of a byte, 2^8
    Fills           \* values of the int memset is given

Locations == 0..Bytes - 1
Byte == 0..ByteValues - 1

ASSUME StringAssumption ==
    /\ Bytes \in Nat \ {0} /\ ByteValues \in Nat \ {0}
    /\ Fills \subseteq Int

VARIABLES
    bytes,      \* memory
    before,     \* memory when the call began
    call        \* the arguments, the counter and the result

stringVars == <<bytes, before, call>>

Routines == {"none", "memcpy", "memset", "memmove", "memcmp"}

Idle == [routine |-> "none", dest |-> 0, src |-> 0, n |-> 0, i |-> 0,
         c |-> 0, done |-> TRUE, result |-> 0]

\* Mistake: the two directions the wrong way round.
MovesUpReversed(dest, src) == src < dest

\* memmove copies from the end that the source is nearer to.
MovesUp(dest, src) == src > dest

Start(routine, dest, src, n) == IF routine = "memmove" /\ ~MovesUp(dest, src) THEN n ELSE 0

\* A call whose ranges are in memory.  memmove to the same place does nothing.
\* A behavior makes one call, since memory may hold anything when it begins.
Call(routine, dest, src, n, c) ==
    /\ call = Idle
    /\ dest + n <= Bytes /\ src + n <= Bytes
    /\ call' = [routine |-> routine, dest |-> dest, src |-> src, n |-> n,
                i |-> Start(routine, dest, src, n), c |-> c,
                done |-> routine = "memmove" /\ src = dest, result |-> 0]
    /\ before' = bytes
    /\ UNCHANGED bytes

Running(routine) == call.routine = routine /\ ~call.done

\* The end of a loop that counts up.
Return(routine) ==
    /\ Running(routine) /\ call.i = call.n
    /\ call' = [call EXCEPT !.done = TRUE]
    /\ UNCHANGED <<bytes, before>>

memcpy ==
    /\ Running("memcpy") /\ call.i < call.n
    /\ bytes' = [bytes EXCEPT ![call.dest + call.i] = bytes[call.src + call.i]]
    /\ call' = [call EXCEPT !.i = @ + 1]
    /\ UNCHANGED before

memset ==
    /\ Running("memset") /\ call.i < call.n
    /\ bytes' = [bytes EXCEPT ![call.dest + call.i] = call.c % ByteValues]
    /\ call' = [call EXCEPT !.i = @ + 1]
    /\ UNCHANGED before

Upwards == MovesUp(call.dest, call.src)

memmove_up ==
    /\ Running("memmove") /\ Upwards /\ call.i < call.n
    /\ bytes' = [bytes EXCEPT ![call.dest + call.i] = bytes[call.src + call.i]]
    /\ call' = [call EXCEPT !.i = @ + 1]
    /\ UNCHANGED before

memmove_down ==
    /\ Running("memmove") /\ ~Upwards /\ call.i > 0
    /\ bytes' = [bytes EXCEPT ![call.dest + call.i - 1] = bytes[call.src + call.i - 1]]
    /\ call' = [call EXCEPT !.i = @ - 1]
    /\ UNCHANGED before

memmove_return ==
    /\ Running("memmove") /\ call.i = (IF Upwards THEN call.n ELSE 0)
    /\ call' = [call EXCEPT !.done = TRUE]
    /\ UNCHANGED <<bytes, before>>

\* Mistake: the signs the other way round.
OrderReversed(p1, p2) == IF p1 < p2 THEN 1 ELSE -1

Order(p1, p2) == IF p1 < p2 THEN -1 ELSE 1

\* dest and src stand for s1 and s2.
memcmp ==
    /\ Running("memcmp") /\ call.i < call.n
    /\ LET p1 == bytes[call.dest + call.i]
           p2 == bytes[call.src + call.i]
       IN  call' = IF p1 # p2 THEN [call EXCEPT !.done = TRUE, !.result = Order(p1, p2)]
                   ELSE [call EXCEPT !.i = @ + 1]
    /\ UNCHANGED <<bytes, before>>

-----------------------------------------------------------------------------

StringInit ==
    /\ bytes \in [Locations -> Byte] /\ before = bytes
    /\ call = Idle

StringNext ==
    \/ \E dest, src \in Locations, n \in 0..Bytes :
        \/ \E routine \in {"memcpy", "memmove", "memcmp"} : Call(routine, dest, src, n, 0)
        \/ \E c \in Fills : Call("memset", dest, dest, n, c)
    \/ memcpy \/ memset \/ memmove_up \/ memmove_down \/ memcmp
    \/ memmove_return
    \/ \E routine \in {"memcpy", "memset", "memcmp"} : Return(routine)

StringSpec == StringInit /\ [][StringNext]_stringVars

-----------------------------------------------------------------------------
(* Properties. *)

Written == call.dest .. call.dest + call.n - 1

\* What C promises of the two ranges: any of memmove, disjoint ones of memcpy; the
\* loop also gets memcpy right where it moves down.
Defined(routine) ==
    \/ routine = "memmove"
    \/ routine = "memcpy" /\ ~ call.src \in call.dest + 1 - call.n .. call.dest - 1

\* string.h:7, "Implement them as the C specification mandates": when a copy is done
\* the destination holds what the source held before, memset has stored its byte,
\* and nothing else is changed, however the ranges overlap (string.h:14-52).
CopiesMandated ==
    /\ call.done /\ Defined(call.routine) =>
        bytes = [a \in Locations |->
                    IF a \in Written THEN before[a - call.dest + call.src] ELSE before[a]]
    /\ call.done /\ call.routine = "memset" =>
        bytes = [a \in Locations |-> IF a \in Written THEN call.c % ByteValues ELSE before[a]]

\* memcmp is zero exactly for equal ranges, and else has the sign of the first
\* difference (string.h:55-66).
ComparesMandated ==
    LET Differs(i) == bytes[call.dest + i] # bytes[call.src + i] IN
    call.done /\ call.routine = "memcmp" =>
        \/ call.result = 0 /\ \A i \in 0..call.n - 1 : ~Differs(i)
        \/ \E i \in 0..call.n - 1 :
            /\ Differs(i) /\ \A j \in 0..i - 1 : ~Differs(j)
            /\ call.result < 0 <=> bytes[call.dest + i] < bytes[call.src + i]
            /\ call.result # 0
=============================================================================
