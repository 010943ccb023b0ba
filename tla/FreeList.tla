------------------------------ MODULE FreeList ------------------------------
(***************************************************************************)
(* The kernel's physical memory manager, memory/memorylist.cpp: a singly   *)
(* linked list of free blocks whose headers live in the free memory.       *)
(*                                                                         *)
(* The list is a sequence of blocks in link order, which need not be       *)
(* address order.  Addresses are physical (the offset of the higher half   *)
(* direct map cancels out).  A chunk's header keeps its length, the payload*)
(* begins one header further.  The routines run on one processor, with no  *)
(* caller in an interrupt handler, so a call is one step.                  *)
(***************************************************************************)
EXTENDS Integers, Sequences, FiniteSets, SequencesExt

CONSTANTS
    MemoryMaps,      \* boot memory maps: sequences of [base, length, usable]
    HeapRequests,    \* values of nbytes given to allocHeap
    StackRequests,   \* values of nbytes given to allocStack
    BufferEntries,   \* capacity of the local array of InitialiseHeaders (20)
    HhdmSize,        \* the direct map covers the addresses below this one
    WordMod          \* 2^64 in the code

HeaderSize == 16     \* sizeof(memoryBlock): next and length

IsUsable(entry) == entry.usable
UsableEntries(map) == SelectSeq(map, IsUsable)

End(x) == x.base + x.length
Apart(x, y) == End(x) <= y.base \/ End(y) <= x.base

\* size_t arithmetic on the sum or the difference of two words.
Wrap(x) == IF x < 0 THEN x + WordMod ELSE IF x >= WordMod THEN x - WordMod ELSE x

Block == [base : Nat, length : Nat]
Chunk == [base : Nat, length : Nat, asked : Nat, kind : {"heap", "stack"}]

ASSUME BoundsAssumption ==
    /\ BufferEntries \in Nat \ {0}
    /\ HhdmSize \in Nat /\ WordMod \in Nat /\ HhdmSize < WordMod

\* Requests that do not make the rounding of allocHeap wrap around.
ASSUME RequestAssumption ==
    /\ HeapRequests \subseteq Nat /\ StackRequests \subseteq Nat
    /\ \A n \in HeapRequests \union StackRequests : n + 2 * HeaderSize < WordMod

\* The boot protocol: usable entries ascend, do not overlap, are made of whole
\* pages (whole headers are enough here) and lie in the direct map.
ASSUME MapAssumption ==
    \A m \in MemoryMaps :
        LET u == UsableEntries(m) IN
        /\ u \in Seq([base : Nat, length : Nat \ {0}, usable : BOOLEAN])
        /\ \A i \in 1..Len(u) : End(u[i]) <= HhdmSize /\ u[i].length % HeaderSize = 0
        /\ \A i, j \in 1..Len(u) : i < j => End(u[i]) <= u[j].base

VARIABLES
    memmap,          \* the map the boot loader answered with
    free,            \* the list that begins at head.next
    live,            \* chunks handed out and not yet freed
    status           \* "uninitialised", "ready", "fault" or "corrupt"

vars == <<memmap, free, live, status>>

regions == UsableEntries(memmap)

-----------------------------------------------------------------------------
(* Sizes. *)

RoundDown(n) == (n \div HeaderSize) * HeaderSize

\* round(n, 16): to the NEAREST multiple, which can be below n.
Round(n) == RoundDown(n + HeaderSize \div 2)

\* Mistake: round(nbytes, 16) forgotten.
ChunkSizeUnrounded(n) == IF n < HeaderSize THEN HeaderSize + n ELSE n

\* What allocHeap makes of its argument.
ChunkSize(n) == Round(IF n < HeaderSize THEN HeaderSize + n ELSE n)

\* What allocStack makes of its argument: not rounded.
StackSize(n) == IF n < HeaderSize THEN 2 * HeaderSize + n ELSE n

-----------------------------------------------------------------------------
(* Outcomes of writing a header at address a. *)

Mapped(a) == 0 <= a /\ a + HeaderSize <= HhdmSize

Headers == {free[i].base : i \in DOMAIN free} \union {c.base : c \in live}

\* The header at a would overwrite another one.
Clobbers(a) == \E h \in Headers : h < a + HeaderSize /\ a < h + HeaderSize

\* A fault in the kernel is final: the handler of vector 14 never returns to
\* the faulting code (cpu/idt.S leaves the error code on the stack).
Stop(why) == status' = why /\ UNCHANGED <<memmap, free, live>>

WriteHeader(a, Effect) ==
    \/ ~Mapped(a) /\ Stop("fault")
    \/ Mapped(a) /\ Clobbers(a) /\ Stop("corrupt")
    \/ Mapped(a) /\ ~Clobbers(a) /\ Effect

-----------------------------------------------------------------------------
(* InitialiseHeaders. *)

\* A header at the start of every usable entry, linked in map order.  With no
\* usable entry head.next is an uninitialised value; with more than the local
\* array holds the array is overrun.
InitialiseHeaders ==
    /\ status = "uninitialised"
    /\ \/ /\ Len(regions) \in 1..BufferEntries
          /\ free' = [i \in 1..Len(regions) |->
                        [base |-> regions[i].base, length |-> regions[i].length]]
          /\ status' = "ready"
          /\ UNCHANGED <<memmap, live>>
       \/ Len(regions) \notin 1..BufferEntries /\ Stop("corrupt")

-----------------------------------------------------------------------------
(* allocHeap. *)

\* Mistakes: >= for >, and a size counted without its header.
FitsExactly(b, size) == b.length >= size
FitsWithoutHeader(b, size) == b.length >= size - HeaderSize

\* The comparison is strict: a block of exactly the size is passed over.
Fits(b, size) == b.length > size

FirstFit(i, size) ==
    /\ Fits(free[i], size)
    /\ \A j \in 1..i-1 : ~Fits(free[j], size)

\* The low end of block i becomes the chunk, the rest takes its place.
Carve(i, size, n) ==
    LET rest == [base |-> free[i].base + size, length |-> free[i].length - size]
        chunk == [base |-> free[i].base, length |-> size, asked |-> n, kind |-> "heap"]
    IN  WriteHeader(rest.base,
            /\ free' = [free EXCEPT ![i] = rest]
            /\ live' = live \union {chunk}
            /\ UNCHANGED <<memmap, status>>)

\* When no block fits, the walk reads the successor of the null pointer that
\* ends the list: the return of -1 after the loop is never reached.
AllocHeap(n) ==
    /\ status \in {"uninitialised", "ready"}
    /\ \/ n = 0 /\ UNCHANGED vars
       \/ /\ n > 0
          /\ \E i \in DOMAIN free : FirstFit(i, ChunkSize(n)) /\ Carve(i, ChunkSize(n), n)
       \/ /\ n > 0
          /\ \A i \in DOMAIN free : ~Fits(free[i], ChunkSize(n))
          /\ Stop("fault")

-----------------------------------------------------------------------------
(* allocStack. *)

\* Mistake: mptr->length left as it was.
ShrinkNothing(b, size) == b

\* The last block after a stack was taken from it: its base does not move.
Shrink(b, size) == [b EXCEPT !.length = Wrap(@ - size)]

\* The header goes BELOW the last block of the list, whose length shrinks
\* although its memory is not what was handed out.
AllocStack(n) ==
    /\ status \in {"uninitialised", "ready"}
    /\ \/ n = 0 /\ UNCHANGED vars
       \/ n > 0 /\ free = <<>> /\ Stop("fault")
       \/ /\ n > 0 /\ free # <<>>
          /\ LET last == free[Len(free)]
                 size == StackSize(n)
                 chunk == [base |-> last.base - size, length |-> size,
                           asked |-> n, kind |-> "stack"]
             IN  WriteHeader(chunk.base,
                     /\ free' = [free EXCEPT ![Len(free)] = Shrink(last, size)]
                     /\ live' = live \union {chunk}
                     /\ UNCHANGED <<memmap, status>>)

-----------------------------------------------------------------------------
(* free. *)

\* Mistake: the test of the loop used before the loop too.
IsBetweenInverted(c, k) == free[k].base >= c.base /\ c.base <= free[k+1].base

\* is_between for the pair (k, k+1): correct before the loop, while the test
\* inside the loop asks that BOTH blocks are above the chunk.
IsBetween(c, k) ==
    /\ IF k = 1 THEN free[k].base <= c.base ELSE free[k].base >= c.base
    /\ c.base <= free[k+1].base

FirstBetween(c, k) == IsBetween(c, k) /\ \A j \in 1..k-1 : ~IsBetween(c, j)

Adjacent(c, k) == Wrap(End(c)) = free[k+1].base

\* Mistakes: mptr->next = next where next->next is meant; the length of next
\* not added; the chunk linked after next.
LinkKeepingNext(c, k) ==
    free' = InsertAt(free, k+1, [base |-> c.base,
        length |-> IF Adjacent(c, k) THEN Wrap(c.length + free[k+1].length) ELSE c.length])
LinkLosingLength(c, k) ==
    IF Adjacent(c, k)
    THEN free' = [free EXCEPT ![k+1] = [base |-> c.base, length |-> c.length]]
    ELSE free' = InsertAt(free, k+1, [base |-> c.base, length |-> c.length])
LinkAfterNext(c, k) == free' = InsertAt(free, k+2, [base |-> c.base, length |-> c.length])

\* The chunk follows block k, or absorbs block k+1 when it ends where that
\* one begins.  It is never joined to block k.
Link(c, k) ==
    IF Adjacent(c, k)
    THEN free' = [free EXCEPT ![k+1] =
                    [base |-> c.base, length |-> Wrap(c.length + @.length)]]
    ELSE free' = InsertAt(free, k+1, [base |-> c.base, length |-> c.length])

\* Mistake: head.next not updated, the chunk linked after the head.
PushSecond(c) == free' = InsertAt(free, 2, [base |-> c.base, length |-> c.length])

\* The test that should join a chunk to the block at the head of the list
\* compares with the address of the function getHead, in the kernel's text,
\* which no chunk ends at.  A chunk below the head is pushed in front.
PushFront(c) == free' = <<[base |-> c.base, length |-> c.length]>> \o free

\* When no pair is found the walk dereferences null.
Free(c) ==
    /\ status = "ready"
    /\ \/ /\ \/ c.base < free[1].base /\ PushFront(c)
             \/ /\ c.base >= free[1].base
                /\ \E k \in 1..Len(free)-1 : FirstBetween(c, k) /\ Link(c, k)
          /\ live' = live \ {c}
          /\ UNCHANGED <<memmap, status>>
       \/ /\ c.base >= free[1].base
          /\ \A k \in 1..Len(free)-1 : ~IsBetween(c, k)
          /\ Stop("fault")

\* delete of a null pointer, or of the pointer -1 that a request of 0 bytes
\* returned: the header before it is outside every mapping.
FreeNothing == status \in {"uninitialised", "ready"} /\ Stop("fault")

-----------------------------------------------------------------------------
Init ==
    /\ memmap \in MemoryMaps
    /\ free = <<>>
    /\ live = {}
    /\ status = "uninitialised"

\* The heap interface: operator new and operator delete.
HeapNext ==
    \/ InitialiseHeaders
    \/ \E n \in HeapRequests : AllocHeap(n)
    \/ \E c \in live : Free(c)
    \/ FreeNothing

\* The whole interface.
Next == HeapNext \/ \E n \in StackRequests : AllocStack(n)

HeapSpec == Init /\ [][HeapNext]_vars
Spec == Init /\ [][Next]_vars

-----------------------------------------------------------------------------
(* Properties of the heap interface (HeapSpec). *)

\* Type correctness of the list, the chunks and the status.
TypeOK ==
    /\ memmap \in MemoryMaps
    /\ free \in Seq(Block)
    /\ live \subseteq Chunk
    /\ status \in {"uninitialised", "ready", "fault", "corrupt"}

BlocksApart == \A i, j \in DOMAIN free : i # j => Apart(free[i], free[j])
ChunksApart == \A c, d \in live : c # d => Apart(c, d)
BlocksAndChunksApart == \A i \in DOMAIN free, c \in live : Apart(free[i], c)

\* Whatever order of allocations and frees, no byte is in two live chunks, in
\* two free blocks, or both free and live: the block-splitting of allocHeap and
\* the joining of free (memorylist.cpp:93-119, 217-233) never hand out a byte
\* twice, even after free has linked a block out of address order.
NoOverlap == BlocksApart /\ ChunksApart /\ BlocksAndChunksApart

Holds(x, a) == x.base <= a /\ a < End(x)

\* After boot every usable byte stays in a free block or in a live chunk: no
\* sequence of splitting, joining and linking (memorylist.cpp:110-117, 199-233)
\* drops a block from the list.
NoLeak ==
    status = "ready" =>
        \A i \in DOMAIN regions : \A a \in regions[i].base .. End(regions[i]) - 1 :
            \/ \E j \in DOMAIN free : Holds(free[j], a)
            \/ \E c \in live : Holds(c, a)

\* The list may be out of order, but its head is always the lowest free block:
\* the only comparison free makes with the head (memorylist.cpp:199) relies on it.
HeadIsLowest == \A i \in DOMAIN free : free[1].base <= free[i].base

\* The last block of the list always ends where the usable memory ends, so the
\* list is never empty once built and allocStack's walk (memorylist.cpp:148-153)
\* ends at the topmost block.
LastIsTopmost ==
    status = "ready" => free # <<>> /\ End(free[Len(free)]) = End(regions[Len(regions)])

\* Every free block and every chunk keeps room for its own header, in whole
\* headers: the strict comparison of memorylist.cpp:93 and the rounding of 86
\* together leave no remainder too small to hold the header written into it.
RoomForHeaders ==
    \A x \in Range(free) \union live : x.length >= HeaderSize /\ x.length % HeaderSize = 0

\* The heap interface never overwrites one header with another: the list is
\* corrupted by nothing but a memory map InitialiseHeaders cannot take in.
CorruptOnlyAtBoot == status = "corrupt" => Len(regions) \notin 1..BufferEntries

\* With at most two blocks on the list every live chunk can be given back
\* without a fault (memorylist.cpp:199-212): the inverted test of the loop is
\* only reached by longer lists.
ShortListFrees ==
    status = "ready" /\ Len(free) <= 2 =>
        \A c \in live : \/ c.base < free[1].base
                        \/ \E k \in 1..Len(free)-1 : IsBetween(c, k)

-----------------------------------------------------------------------------
(* Refinement: the heap interface implements Allocator. *)

FreeBytes == UNION {free[i].base .. End(free[i]) - 1 : i \in DOMAIN free}
UsableBytes(map) ==
    UNION {e.base .. End(e) - 1 : e \in Range(UsableEntries(map))}

Abstract == INSTANCE Allocator WITH
    Memories <- {UsableBytes(m) : m \in MemoryMaps},
    avail <- FreeBytes,
    live <- live,
    running <- status \in {"uninitialised", "ready"}

\* The heap interface is an allocator: each call of allocHeap moves available
\* bytes to one chunk, each call of free moves that chunk's bytes back, and the
\* only other thing that can happen is that the kernel stops.
ImplementsAllocator == Abstract!Spec

-----------------------------------------------------------------------------
(* Properties of the whole interface (Spec). *)

\* The lengths in the headers, free and live together, always add up to the
\* usable memory modulo 2^64: allocStack (memorylist.cpp:162) accounts for what
\* it hands out even where it hands out memory of somebody else.
LengthAccounting ==
    status = "ready" =>
        ( MapThenSumSet(LAMBDA i : free[i].length, DOMAIN free)
        + MapThenSumSet(LAMBDA c : c.length, live)
        - MapThenSumSet(LAMBDA i : regions[i].length, DOMAIN regions)) % WordMod = 0

-----------------------------------------------------------------------------
(* What the comments say, and the code does not do. *)

\* memorylist.cpp:213, "current < memory_block < next": free links a block
\* between its neighbours in address order, so the list stays ordered.
FreeListOrdered == \A i, j \in DOMAIN free : i < j => free[i].base < free[j].base

\* memory/pnew.cpp:1-2, "replacement functions for the usual allocation and
\* deallocation functions": the payload has the number of bytes asked for.
RequestedBytesFit == \A c \in live : c.kind = "heap" => c.asked <= c.length - HeaderSize

=============================================================================
