----------------------------- MODULE PageTables -----------------------------
(***************************************************************************)
(* The page tables of the boot loader, as the kernel reads and edits them: *)
(* VirtualToPageBase (memory/pages.cpp), the Parse routines, SetPM4LE and  *)
(* DeletePM4LE (memory/pstructs.hpp).                                      *)
(*                                                                         *)
(* The routines use physical addresses as pointers, which works where the  *)
(* boot loader maps memory to itself.  A walk reads one entry in a step.   *)
(***************************************************************************)
EXTENDS Words, Sequences, FiniteSetsExt

CONSTANTS
    structureSize,   \* entries of a table, 512
    Cr3,             \* the register: address of the top table, and flags
    Memories,        \* contents the boot loader may leave: tables by address
    Addresses,       \* virtual addresses looked up
    Entries,         \* values SetPM4LE is given
    Junk             \* what memory that is not a table may hold

Slots == 0..structureSize - 1
Levels == 1..4

\* The upper bits of cr3 are reserved, and the boot loader leaves the first page free.
ASSUME TablesAssumption ==
    /\ structureSize \in 1..512
    /\ Cr3 \in SUBSET Low(52) /\ Addresses \subseteq Word
    /\ Entries \subseteq Word /\ Junk \subseteq Word /\ Junk # {}
    /\ \A memory \in Memories :
        /\ memory \in [DOMAIN memory -> [Slots -> Word]]
        /\ DOMAIN memory \subseteq (SUBSET (12..31)) \ {{}}
        /\ Cr3 \intersect (12..51) \in DOMAIN memory

Number(word) == MapThenSumSet(LAMBDA b : 2 ^ b, word)

\* The indices of an address are slots; those of any address are, with 512 entries.
ASSUME AddressesAssumption ==
    \A vaddr \in Addresses, level \in Levels : Number(Index(vaddr, level)) \in Slots

VARIABLES
    memory,     \* the tables, by physical address
    walk,       \* the routine in progress, its position and its status
    reported    \* pages and entries the routine wrote to the console

tableVars == <<memory, walk, reported>>

\* The boot loader maps the memory from the first page to 4 GiB to itself.
Mapped(paddr) == paddr # {} /\ paddr \subseteq 0..31

\* What a read of an entry may yield.
Read(table, slot) ==
    IF table \in DOMAIN memory THEN {memory[table][slot]} ELSE Junk

NoWalk == [routine |-> "none", status |-> "idle", vaddr |-> {},
         level |-> 4, tables |-> [l \in Levels |-> {}], slots |-> [l \in Levels |-> 0]]

GetCurrentPM4L == PM4LAddress(Cr3)

Begin(routine, vaddr) ==
    /\ walk.status # "walking"
    /\ walk' = [NoWalk EXCEPT !.routine = routine, !.status = "walking", !.vaddr = vaddr,
                            !.tables[4] = GetCurrentPM4L]
    /\ reported' = {}
    /\ UNCHANGED memory

Walking(routine) == walk.status = "walking" /\ walk.routine = routine

Level == walk.level
Table == walk.tables[Level]

Fault(routine) ==
    /\ Walking(routine) /\ ~Mapped(Table)
    /\ walk' = [walk EXCEPT !.status = "fault"]
    /\ UNCHANGED <<memory, reported>>

-----------------------------------------------------------------------------
(* VirtualToPageBase: from table to table, whatever the flags say. *)

VirtualToPageBase(vaddr) == Begin("VirtualToPageBase", vaddr)

\* Mistake: an absent entry ends the walk, with what was found so far.
AbsentEndsWalk(entry) == Level = 1 \/ ~Present(entry)

EndsWalk(entry) == Level = 1

FollowEntry ==
    /\ Walking("VirtualToPageBase") /\ Mapped(Table)
    /\ \E entry \in Read(Table, Number(Index(walk.vaddr, Level))) :
        /\ walk' = IF EndsWalk(entry) THEN [walk EXCEPT !.status = "returned"]
                   ELSE [walk EXCEPT !.level = @ - 1, !.tables[Level - 1] = address(entry)]
        /\ reported' = {address(entry)}
    /\ UNCHANGED memory

-----------------------------------------------------------------------------
(* ParseBootLoaderTable: four nested loops over all the entries. *)

ParseBootLoaderTable == Begin("ParseBootLoaderTable", {})

\* Mistake: loops that end an entry early.
LastSlotEarly == structureSize - 2

LastSlot == structureSize - 1

\* Where the loops go on behind the current entry: the innermost one that has not
\* ended.
OpenLevels == {l \in Level..4 : walk.slots[l] # LastSlot}

NextEntry ==
    IF OpenLevels = {} THEN [walk EXCEPT !.status = "returned"]
    ELSE [walk EXCEPT !.level = Min(OpenLevels), !.slots[Min(OpenLevels)] = @ + 1]

Descend(entry) ==
    [walk EXCEPT !.level = @ - 1, !.tables[Level - 1] = address(entry),
                 !.slots[Level - 1] = 0]

ParseEntry ==
    /\ Walking("ParseBootLoaderTable") /\ Mapped(Table)
    /\ \E entry \in Read(Table, walk.slots[Level]) :
        \/ /\ Present(entry) /\ Level > 1
           /\ walk' = Descend(entry)
           /\ UNCHANGED reported
        \/ /\ Present(entry) /\ Level = 1
           /\ walk' = NextEntry
           /\ reported' = reported \union {<<walk.slots, address(entry)>>}
        \/ /\ ~Present(entry)
           /\ walk' = NextEntry
           /\ UNCHANGED reported
    /\ UNCHANGED memory

-----------------------------------------------------------------------------
(* The top table alone. *)

\* ParsePM4L, and the others like it, write every entry of one table.
ParsePM4L ==
    /\ walk.status # "walking"
    /\ walk' = [NoWalk EXCEPT !.routine = "ParsePM4L", !.status = "returned"]
    /\ reported' = {<<slot, memory[GetCurrentPM4L][slot]>> : slot \in Slots}
    /\ UNCHANGED memory

\* Mistake: the flags of the old entry kept.
WriteOver(slot, entry) ==
    memory' = [memory EXCEPT ![GetCurrentPM4L][slot] = (@ \intersect Low(12)) \union entry]

Write(slot, entry) ==
    memory' = [memory EXCEPT ![GetCurrentPM4L][slot] = entry]

SetPM4LE(slot, entry) ==
    /\ walk.status # "walking"
    /\ Write(slot, entry)
    /\ walk' = NoWalk /\ reported' = {}

DeletePM4LE(slot) == SetPM4LE(slot, {})

-----------------------------------------------------------------------------

TablesInit ==
    /\ memory \in Memories
    /\ walk = NoWalk
    /\ reported = {}

TablesNext ==
    \/ \E vaddr \in Addresses : VirtualToPageBase(vaddr)
    \/ FollowEntry \/ Fault("VirtualToPageBase")
    \/ ParseBootLoaderTable
    \/ ParseEntry \/ Fault("ParseBootLoaderTable")
    \/ ParsePM4L
    \/ \E slot \in Slots : DeletePM4LE(slot)
    \/ \E slot \in Slots, entry \in Entries : SetPM4LE(slot, entry)

TablesSpec == TablesInit /\ [][TablesNext]_tableVars

-----------------------------------------------------------------------------
(* What the processor makes of the tables. *)

Paths == [Levels -> Slots]
PathOf(vaddr) == [l \in Levels |-> Number(Field(vaddr, 3 + 9 * l, 9))]

Frame(entry) == entry \intersect (12..51)
Large(entry) == 7 \in entry
HighFlags(entry) == entry \intersect (52..63)

\* The entry of a level on the way down; empty where there is no table.
EntryOn(tables, path, level) ==
    LET entry[l \in Levels] ==
            LET table == Frame(IF l = 4 THEN Cr3 ELSE entry[l + 1]) IN
            IF table \in DOMAIN tables THEN tables[table][path[l]] ELSE {}
    IN  entry[level]

PathEntry(path, level) == EntryOn(memory, path, level)

\* The table of a level on the way down.
PathTable(path, level) == Frame(IF level = 4 THEN Cr3 ELSE PathEntry(path, level + 1))

\* An entry that leads on, and one that leads to another table, through which
\* address() leads as well.
Leads(entry) == Present(entry) /\ ~Large(entry)
Plain(entry) == Leads(entry) /\ HighFlags(entry) = {} /\ Frame(entry) \in DOMAIN memory

\* Translated in pages of 4 KiB.
Translates(path) ==
    Present(PathEntry(path, 1)) /\ \A l \in 2..4 : Leads(PathEntry(path, l))

\* Behind entries that are present, down to a level.
Opened(path, level) == \A l \in level..4 : Present(PathEntry(path, l))

\* Through an entry with a flag above bit 51, such as the one that disables execution.
Flagged(path) == \E l \in 2..4 : Opened(path, l) /\ HighFlags(PathEntry(path, l)) # {}

\* All pages are of 4 KiB.
Paged ==
    \A path \in Paths, l \in 2..4 :
        Opened(path, l) => Leads(PathEntry(path, l)) /\ Frame(PathEntry(path, l)) \in DOMAIN memory

-----------------------------------------------------------------------------
(* Properties. *)

Answered(routine) == walk.routine = routine /\ walk.status \in {"returned", "fault"}

\* For an address in a page of 4 KiB VirtualToPageBase answers with the base of the
\* page the processor uses and, above it, the flags from bit 52 on of the last entry:
\* it is the base only if none is set.  Where an entry on the way to a table has such
\* a flag it faults, since the mask of address() is 0xFFFFFFFFFFFFF000, a shifted int
\* (pages.cpp:82-104, pstructs.hpp:41).
WalkFindsPage ==
    LET path == PathOf(walk.vaddr)
        last == PathEntry(path, 1)
    IN  Answered("VirtualToPageBase") /\ Translates(path) =>
            IF Flagged(path) THEN walk.status = "fault"
            ELSE walk.status = "returned" /\ reported = {Frame(last) \union HighFlags(last)}

\* It has no test for absence: what keeps it from making up an answer is that an
\* empty entry leads to the first page, which nobody maps (pages.cpp:91-100).
EmptyEntryFaults ==
    LET path == PathOf(walk.vaddr) IN
    walk.routine = "VirtualToPageBase" /\ walk.status = "returned" =>
        ~ \E l \in 2..4 : /\ PathEntry(path, l) = {}
                          /\ \A k \in l + 1..4 : Plain(PathEntry(path, k))

\* On tables without large pages ParseBootLoaderTable writes each page once for each
\* way to it, and no other, with the flags above bit 51 of its entry left in the
\* address; or it faults, exactly if an entry it goes down through has such a flag
\* (pstructs.hpp:161-209).
ParseFindsPages ==
    Answered("ParseBootLoaderTable") /\ Paged =>
        IF \E path \in Paths : Flagged(path) THEN walk.status = "fault"
        ELSE /\ walk.status = "returned"
             /\ reported = {<<path, Frame(PathEntry(path, 1)) \union HighFlags(PathEntry(path, 1))>> :
                               path \in {p \in Paths : Translates(p)}}

\* DeletePM4LE takes away every translation through its slot and no other, and
\* SetPM4LE changes only those through its own, whatever flags cr3 has, if no entry
\* leads back to the top table (pstructs.hpp:88-98, pstructs.cpp:11-15).
NoWayBack == \A path \in Paths, l \in 1..3 : PathTable(path, l) # Frame(Cr3)

EditsAreLocal ==
    [][NoWayBack => \A slot \in Slots :
        LET Elsewhere == \A path \in Paths : path[4] # slot =>
                /\ Translates(path)' = Translates(path)
                /\ PathEntry(path, 1)' = PathEntry(path, 1)
        IN  /\ DeletePM4LE(slot) =>
                Elsewhere /\ \A path \in Paths : path[4] = slot => ~Translates(path)'
            /\ \A entry \in Entries : SetPM4LE(slot, entry) =>
                Elsewhere /\ \A path \in Paths : path[4] = slot => PathEntry(path, 4)' = entry]_tableVars
=============================================================================
