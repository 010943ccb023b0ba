----------------------------- MODULE PageFrames -----------------------------
(***************************************************************************)
(* The table of page frames, memory/pages.cpp, as _start fills it          *)
(* (main.cpp:59-60): CheckBootPages, then InitialisePageFrames, which goes  *)
(* through the memory map of the boot loader and writes one descriptor for *)
(* every usable page until the map or the table ends.                      *)
(*                                                                         *)
(* One step is one iteration of a loop.  Nobody runs beside this code, so  *)
(* the steps only show the table while it is built.                        *)
(***************************************************************************)
EXTENDS Integers, Sequences, FiniteSets, FiniteSetsExt

CONSTANTS
    Maps,             \* memory maps the boot loader may hand over
    availablePages,   \* size of frameMap, 0x1fc000
    PageSize,         \* 0x1000
    IndexValues       \* values of initialBlockIndex, 2^8

\* A map is a sequence of entries; index i of the code is i + 1 here.
Entry == [usable : BOOLEAN, base : Nat, length : Nat]

EndOf(e) == e.base + e.length

\* What the boot protocol promises of usable entries: whole pages, in ascending
\* order, without overlap.
MapOK(map) ==
    /\ map \in Seq(Entry)
    /\ \A i \in DOMAIN map : map[i].usable =>
        map[i].base % PageSize = 0 /\ map[i].length % PageSize = 0
    /\ \A i, j \in DOMAIN map :
        i < j /\ map[i].usable /\ map[j].usable => EndOf(map[i]) <= map[j].base

ASSUME PagesAssumption ==
    /\ \A map \in Maps : MapOK(map)
    /\ availablePages \in Nat \ {0}
    /\ PageSize \in Nat \ {0}
    /\ IndexValues \in Nat \ {0}

VARIABLES
    memmap,        \* memorymap_request.response
    frameMap,      \* base and count of each descriptor
    startOfRam,    \* the global of the same name
    loop,          \* the locals of InitialisePageFrames
    status         \* "booting", "checked", "halted", "filling", "finished"

vars == <<memmap, frameMap, startOfRam, loop, status>>

Frames == 0..availablePages - 1

-----------------------------------------------------------------------------
(* The routines that only read. *)

GetBootPages ==
    MapThenSumSet(LAMBDA i : memmap[i].length \div PageSize,
                  {i \in DOMAIN memmap : memmap[i].usable})

GetAvailablePages == availablePages

PageAddress(n) == frameMap[n].base

\* Mistake: the nearest frame instead of the one that holds the address.
PhysicalToPageNNearest(paddr) == (paddr - startOfRam + PageSize - 1) \div PageSize

\* paddr is not below startOfRam.
PhysicalToPageN(paddr) == (paddr - startOfRam) \div PageSize

-----------------------------------------------------------------------------
(* CheckBootPages. *)

\* Mistake: the test as its message words it.
TooManyTrackedAsWorded == GetAvailablePages < GetBootPages

TooManyTracked == GetAvailablePages > GetBootPages

CheckBootPages ==
    /\ status = "booting"
    /\ status' = IF TooManyTracked THEN "halted" ELSE "checked"
    /\ UNCHANGED <<memmap, frameMap, startOfRam, loop>>

-----------------------------------------------------------------------------
(* InitialisePageFrames.  loop.inside tells the two loops apart. *)

\* The test of the outer loop.
AtEntryNumber(i) == IF i = Len(memmap) THEN "finished" ELSE "filling"

InitialisePageFrames ==
    /\ status = "checked"
    /\ status' = AtEntryNumber(0)
    /\ loop' = [i |-> 0, inside |-> FALSE, paddr |-> 0,
                frameIndex |-> 0, initialBlockIndex |-> 0]
    /\ UNCHANGED <<memmap, frameMap, startOfRam>>

Current == memmap[loop.i + 1]
AtEntry == status = "filling" /\ ~loop.inside
InBlock == status = "filling" /\ loop.inside

SkipEntry ==
    /\ AtEntry /\ ~Current.usable
    /\ loop' = [loop EXCEPT !.i = @ + 1]
    /\ status' = AtEntryNumber(loop.i + 1)
    /\ UNCHANGED <<memmap, frameMap, startOfRam>>

\* Mistake: every usable entry taken for the initial one.
InitialEveryTime(index) == loop.i % IndexValues

\* 0 stands for "not set", also when it is the index of an entry.
Initial(index) == IF index = 0 THEN loop.i % IndexValues ELSE index

EnterBlock ==
    /\ AtEntry /\ Current.usable
    /\ loop' = [loop EXCEPT !.inside = TRUE, !.paddr = Current.base,
                            !.initialBlockIndex = Initial(@)]
    /\ UNCHANGED <<memmap, frameMap, startOfRam, status>>

\* Mistakes: the end of the block taken for a page of it, every second page left
\* out, the end of the table seen one page late.
MorePagesOneTooMany == loop.paddr <= EndOf(Current)
NextPageTwo == loop.paddr + 2 * PageSize
TableFullLate == loop.frameIndex = availablePages

MorePages == loop.paddr < EndOf(Current)
NextPage == loop.paddr + PageSize
TableFull == loop.frameIndex + 1 = availablePages

\* One page.  With the table full, startOfRam is not set any more.
PopulateFrame ==
    /\ InBlock /\ MorePages
    /\ frameMap' = [frameMap EXCEPT ![loop.frameIndex] = [base |-> loop.paddr, count |-> -1]]
    /\ loop' = [loop EXCEPT !.frameIndex = @ + 1,
                            !.paddr = IF TableFull THEN @ ELSE NextPage]
    /\ status' = IF TableFull THEN "finished" ELSE status
    /\ UNCHANGED <<memmap, startOfRam>>

LeaveBlock ==
    /\ InBlock /\ ~MorePages
    /\ startOfRam' = IF loop.i = loop.initialBlockIndex THEN Current.base ELSE startOfRam
    /\ loop' = [loop EXCEPT !.inside = FALSE, !.i = @ + 1]
    /\ status' = AtEntryNumber(loop.i + 1)
    /\ UNCHANGED <<memmap, frameMap>>

-----------------------------------------------------------------------------

\* Globals begin as zero.
Init ==
    /\ memmap \in Maps
    /\ frameMap = [n \in Frames |-> [base |-> 0, count |-> 0]]
    /\ startOfRam = 0
    /\ loop = [i |-> 0, inside |-> FALSE, paddr |-> 0,
               frameIndex |-> 0, initialBlockIndex |-> 0]
    /\ status = "booting"

Next ==
    \/ CheckBootPages
    \/ InitialisePageFrames
    \/ SkipEntry \/ EnterBlock
    \/ PopulateFrame \/ LeaveBlock

Spec == Init /\ [][Next]_vars

-----------------------------------------------------------------------------
(* Properties. *)

Usable == {i \in DOMAIN memmap : memmap[i].usable}
BytesOf(i) == memmap[i].base .. EndOf(memmap[i]) - 1
PageOf(paddr) == paddr - (paddr % PageSize)
Tracked == 0..loop.frameIndex - 1

\* Type correctness.  initialBlockIndex has 8 bits; the loop never writes beyond
\* the table (pages.cpp:34).
TypeOK ==
    /\ MapOK(memmap)
    /\ frameMap \in [Frames -> [base : Nat, count : {-1, 0}]]
    /\ startOfRam \in Nat
    /\ loop \in [i : 0..Len(memmap), inside : BOOLEAN, paddr : Nat,
                 frameIndex : 0..availablePages, initialBlockIndex : 0..IndexValues - 1]
    /\ status \in {"booting", "checked", "halted", "filling", "finished"}
    /\ status = "filling" => loop.frameIndex < availablePages
    /\ status = "filling" => loop.i < Len(memmap)

\* The descriptors are of usable pages, each whole, and in ascending order, so no
\* page has two (pages.cpp:25-29).
FramesAreUsablePages ==
    /\ \A n \in Tracked : \E i \in Usable :
        PageAddress(n) % PageSize = 0 /\ PageAddress(n) .. PageAddress(n) + PageSize - 1 \subseteq BytesOf(i)
    /\ \A m, n \in Tracked : m < n => PageAddress(m) < PageAddress(n)

\* No usable page below a tracked one was left out.
NoPageSkipped ==
    \A n \in Tracked, i \in Usable : \A paddr \in BytesOf(i) :
        paddr < PageAddress(n) => \E m \in Tracked : PageAddress(m) = PageOf(paddr)

\* Past CheckBootPages the map has enough pages for every descriptor: none is left
\* as it was, without a page (main.cpp:59-60, pages.cpp:62-67).
WholeTableFilled ==
    status = "finished" => \A n \in Frames : frameMap[n].count = -1

FirstUsable == Min(Usable)

\* startOfRam is where the first usable block begins, if that is not entry 0, has
\* an index of 8 bits, and leaves room in the table (pages.cpp:19-41).
StartOfRamIsFirstBlock ==
    status = "finished" /\ FirstUsable \in 2..IndexValues
        /\ memmap[FirstUsable].length \div PageSize < availablePages =>
            startOfRam = memmap[FirstUsable].base

\* Then frame numbers and addresses are inverse to each other on the first block
\* (pages.cpp:78-80, pages.hpp:63-65).
FirstBlockNumbered ==
    status = "finished" /\ startOfRam = memmap[FirstUsable].base =>
        \A paddr \in BytesOf(FirstUsable) :
            LET n == PhysicalToPageN(paddr) IN
            n \in Tracked => PageAddress(n) = PageOf(paddr)

\* What main.cpp:97-98 prints as "page frame number" of an address is the number of
\* the frame that holds it, if a frame does.
NumbersNameFrames ==
    status = "finished" =>
        \A n \in Frames : startOfRam <= PageAddress(n) => PhysicalToPageN(PageAddress(n)) = n
=============================================================================
