----------------------------- MODULE Allocator -----------------------------
(***************************************************************************)
(* What a caller of the kernel's physical memory manager is promised,      *)
(* whatever structure keeps the free memory: bytes are either available or *)
(* part of one live chunk, an allocation takes available bytes only, and a *)
(* free gives back exactly the bytes of the chunk.  The manager may stop   *)
(* (a page fault in the kernel is final) but may do nothing else.          *)
(* Module FreeList implements this specification.                          *)
(***************************************************************************)
EXTENDS Naturals

CONSTANT Memories     \* the sets of bytes a machine can hand over at boot

VARIABLES
    avail,            \* bytes that may be allocated
    live,             \* chunks handed out, records with a base and a length
    running           \* FALSE once the kernel has stopped

vars == <<avail, live, running>>

BytesOf(c) == c.base .. c.base + c.length - 1

Init == avail = {} /\ live = {} /\ running = TRUE

\* Boot hands over the usable memory, once.
Boot ==
    /\ running /\ avail = {} /\ live = {}
    /\ avail' \in Memories
    /\ UNCHANGED <<live, running>>

\* An allocation moves bytes from avail to one new chunk that has at least one.
Allocate ==
    /\ running /\ running'
    /\ \E c \in live' \ live :
         /\ live' = live \union {c}
         /\ BytesOf(c) # {} /\ BytesOf(c) \subseteq avail
         /\ avail' = avail \ BytesOf(c)

\* A free returns all the bytes of one chunk and no others.
Free ==
    /\ running /\ running'
    /\ \E c \in live :
         /\ live' = live \ {c}
         /\ avail' = avail \union BytesOf(c)

Halt == running /\ running' = FALSE /\ UNCHANGED <<avail, live>>

Next == Boot \/ Allocate \/ Free \/ Halt

Spec == Init /\ [][Next]_vars
=============================================================================
