---------------------------- MODULE RoutinesProofs ----------------------------
(***************************************************************************)
(* Proofs about the routines: page tables of every size and content        *)
(* (PageTables), memory and bytes of every size (StringRoutines), every    *)
(* number (Console), drives of every speed (AtaPio), and their composition *)
(* (Routines).                                                             *)
(***************************************************************************)
EXTENDS Routines, WordsProofs, SumProofs, TLAPS

-----------------------------------------------------------------------------
(* Page tables. *)

\* The top table stays where cr3 says.
MemoryInv ==
    /\ memory \in [DOMAIN memory -> [Slots -> Word]]
    /\ DOMAIN memory \subseteq (SUBSET (12..31)) \ {{}}
    /\ Frame(Cr3) \in DOMAIN memory

Walks ==
    [routine : {"none", "VirtualToPageBase", "ParseBootLoaderTable", "ParsePM4L"},
     status : {"idle", "walking", "returned", "fault"}, vaddr : Addresses \union {{}},
     level : Levels, tables : [Levels -> Word], slots : Paths]

\* Every table down to the level is reached through plain entries.
Straight(path, level) == \A k \in level + 1..4 : Plain(PathEntry(path, k))

\* The walk of VirtualToPageBase: as long as its way is straight it is in the table
\* the processor is in, and what it took for the address of the next one is what
\* address() makes of the entry.  A walk that went on found every table mapped.
LookupInv ==
    LET path == PathOf(walk.vaddr) IN
    walk.routine = "VirtualToPageBase" =>
        /\ walk.vaddr \in Addresses
        /\ \A l \in walk.level..4 :
                Straight(path, l) => walk.tables[l] = PathTable(path, l)
        /\ \A l \in walk.level + 1..4 :
                /\ Mapped(walk.tables[l])
                /\ Straight(path, l) => walk.tables[l - 1] = address(PathEntry(path, l))
        /\ walk.status = "fault" => ~Mapped(walk.tables[walk.level])
        /\ walk.status = "returned" =>
                /\ walk.level = 1 /\ Mapped(walk.tables[1])
                /\ Straight(path, 1) => reported = {address(PathEntry(path, 1))}

\* In the order of the loops of ParseBootLoaderTable, as far as the loops of the
\* levels from level up tell.
Agree(p, q, level) == \A l \in level..4 : p[l] = q[l]
Before(p, q, level) == \E l \in level..4 : p[l] < q[l] /\ Agree(p, q, l + 1)

Pages(paths) == {<<path, address(PathEntry(path, 1))>> : path \in {p \in paths : Translates(p)}}

\* The walk of ParseBootLoaderTable, if all pages are of 4 KiB: it is where its slots
\* lead, through entries that are present; all of them but the last, whose address
\* it has not tried yet, are free of flags; and so are those of the paths before its
\* slots, whose pages it has written.
ParseInv ==
    walk.routine = "ParseBootLoaderTable" /\ Paged =>
        /\ walk.status \in {"walking", "returned", "fault"}
        /\ walk.status = "walking" =>
                /\ \A l \in walk.level..4 : walk.tables[l] =
                        IF l = 4 THEN Frame(Cr3) ELSE address(PathEntry(walk.slots, l + 1))
                /\ \A l \in walk.level + 1..4 : Present(PathEntry(walk.slots, l))
                /\ \A l \in walk.level + 2..4 : HighFlags(PathEntry(walk.slots, l)) = {}
                /\ \A p \in Paths : Before(p, walk.slots, walk.level) => ~Flagged(p)
                /\ reported = Pages({p \in Paths : Before(p, walk.slots, walk.level)})
        /\ walk.status = "returned" =>
                (\A p \in Paths : ~Flagged(p)) /\ reported = Pages(Paths)
        /\ walk.status = "fault" => \E p \in Paths : Flagged(p)

TablesInv == MemoryInv /\ walk \in Walks /\ LookupInv /\ ParseInv

\* The entry found in a table, empty where there is no table.
EntryIn(tables, table, slot) == IF table \in DOMAIN tables THEN tables[table][slot] ELSE {}

\* The entries on the way down, each from the table the one above leads to.
LEMMA EntryOnWay ==
    ASSUME NEW tables, NEW path
    PROVE  /\ EntryOn(tables, path, 4) = EntryIn(tables, Frame(Cr3), path[4])
           /\ \A l \in 1..3 : EntryOn(tables, path, l) =
                EntryIn(tables, Frame(EntryOn(tables, path, l + 1)), path[l])
<1> DEFINE e4 == EntryIn(tables, Frame(Cr3), path[4])
           e3 == EntryIn(tables, Frame(e4), path[3])
           e2 == EntryIn(tables, Frame(e3), path[2])
           e1 == EntryIn(tables, Frame(e2), path[1])
           way == [l \in Levels |-> IF l = 4 THEN e4 ELSE IF l = 3 THEN e3
                                    ELSE IF l = 2 THEN e2 ELSE e1]
           Way(f) == f = [l \in Levels |->
                            EntryIn(tables, Frame(IF l = 4 THEN Cr3 ELSE f[l + 1]), path[l])]
           chosen == CHOOSE f : Way(f)
<1>1. Way(way)
  <2>1. /\ way[4] = e4 /\ way[3] = e3 /\ way[2] = e2 /\ way[1] = e1
        /\ \A l \in Levels : l = 1 \/ l = 2 \/ l = 3 \/ l = 4
    BY DEF Levels
  <2> HIDE DEF e1, e2, e3, e4
  <2>2. e4 = EntryIn(tables, Frame(Cr3), path[4]) /\ e3 = EntryIn(tables, Frame(e4), path[3])
        /\ e2 = EntryIn(tables, Frame(e3), path[2]) /\ e1 = EntryIn(tables, Frame(e2), path[1])
    BY Zenon DEF e1, e2, e3, e4
  <2>3. way = [l \in Levels |-> way[l]]
    OBVIOUS
  <2> HIDE DEF way
  <2>4. \A l \in Levels : way[l] = EntryIn(tables, Frame(IF l = 4 THEN Cr3 ELSE way[l + 1]), path[l])
    BY <2>1, <2>2
  <2> QED
    BY <2>3, <2>4, Zenon
<1> HIDE DEF way
<1>2. Way(chosen)
  BY <1>1, Zenon
<1>3. \A l \in Levels : EntryOn(tables, path, l) = chosen[l]
  BY Zenon DEF EntryOn, EntryIn
<1> HIDE DEF chosen
<1>4. \A l \in Levels : chosen[l] =
        EntryIn(tables, Frame(IF l = 4 THEN Cr3 ELSE chosen[l + 1]), path[l])
  BY <1>2, Zenon
<1>5. 4 \in Levels /\ \A l \in 1..3 : l \in Levels /\ l + 1 \in Levels /\ l # 4
  BY DEF Levels
<1> QED
  BY <1>3, <1>4, <1>5, Zenon

-----------------------------------------------------------------------------
(* Entries and tables. *)

\* Paths that agree down to a level have the same entry there.
LEMMA SameEntries ==
    ASSUME NEW tables, NEW p, NEW q, NEW level \in Levels, Agree(p, q, level)
    PROVE  EntryOn(tables, p, level) = EntryOn(tables, q, level)
<1>1. 4 \in level..4 /\ p[4] = q[4]
  BY DEF Levels, Agree
<1>2. EntryOn(tables, p, 4) = EntryOn(tables, q, 4)
  BY <1>1, EntryOnWay, Zenon
<1>3. \A l \in 1..3 : l \in level..4 => p[l] = q[l]
  BY DEF Agree
<1>4. \A l \in 1..3 : l \in level..4 /\ EntryOn(tables, p, l + 1) = EntryOn(tables, q, l + 1) =>
         EntryOn(tables, p, l) = EntryOn(tables, q, l)
  <2> SUFFICES ASSUME NEW l \in 1..3, p[l] = q[l],
                      EntryOn(tables, p, l + 1) = EntryOn(tables, q, l + 1)
               PROVE  EntryOn(tables, p, l) = EntryOn(tables, q, l)
    BY <1>3
  <2>1. EntryOn(tables, p, l) = EntryIn(tables, Frame(EntryOn(tables, p, l + 1)), p[l])
    BY EntryOnWay, Zenon
  <2>2. EntryOn(tables, q, l) = EntryIn(tables, Frame(EntryOn(tables, q, l + 1)), q[l])
    BY EntryOnWay, Zenon
  <2> QED
    BY <2>1, <2>2
<1>5. level <= 3 => EntryOn(tables, p, 3) = EntryOn(tables, q, 3)
  BY <1>2, <1>4 DEF Levels
<1>6. level <= 2 => EntryOn(tables, p, 2) = EntryOn(tables, q, 2)
  BY <1>4, <1>5 DEF Levels
<1>7. level <= 1 => EntryOn(tables, p, 1) = EntryOn(tables, q, 1)
  BY <1>4, <1>6 DEF Levels
<1>8. level = 1 \/ level = 2 \/ level = 3 \/ level = 4
  BY DEF Levels
<1> QED
  BY <1>2, <1>5, <1>6, <1>7, <1>8

\* What a read of an entry of a word of 64 bits makes of it.
LEMMA AddressOfEntry ==
    ASSUME NEW entry \in Word
    PROVE  /\ address(entry) \in Word
           /\ Frame(address(entry)) = Frame(entry)
           /\ HighFlags(entry) = {} => address(entry) = Frame(entry)
           /\ address(entry) = Frame(entry) \union HighFlags(entry)
           /\ Mapped(address(entry)) => HighFlags(entry) = {}
           /\ entry = {} => address(entry) = {}
<1>1. address(entry) = entry \intersect (12..63)
  BY AddressKeepsHighFlags
<1>2. entry \subseteq 0..63
  BY DEF Word, Low
<1>3. address(entry) \in Word /\ (entry = {} => address(entry) = {})
  BY <1>1 DEF Word
<1>4. Frame(address(entry)) = Frame(entry)
  BY <1>1 DEF Frame
<1>5. address(entry) = Frame(entry) \union HighFlags(entry)
  <2>1. \A b : b \in 12..63 <=> b \in 12..51 \/ b \in 52..63
    OBVIOUS
  <2> QED
    BY <1>1, <2>1, Zenon DEF HighFlags, Frame
<1>6. Mapped(address(entry)) => HighFlags(entry) = {}
  <2>1. \A b \in 52..63 : b \notin 0..31
    OBVIOUS
  <2> QED
    BY <1>5, <2>1, Zenon DEF Mapped, HighFlags
<1> QED
  BY <1>3, <1>4, <1>5, <1>6

\* Every table is mapped, the top one first.
LEMMA TablesMapped ==
    ASSUME MemoryInv
    PROVE  /\ \A table \in DOMAIN memory : Mapped(table)
           /\ GetCurrentPM4L = Frame(Cr3)
           /\ GetCurrentPM4L \in Word
           /\ GetCurrentPM4L \in DOMAIN memory
<1>1. ASSUME NEW table \in DOMAIN memory PROVE table \subseteq 12..31 /\ table # {}
  <2>1. table \in (SUBSET (12..31)) \ {{}}
    BY Zenon DEF MemoryInv
  <2>2. table \in SUBSET (12..31) /\ table \notin {{}}
    BY <2>1
  <2> QED
    BY <2>2
<1>2. 12..31 \subseteq 0..31
  OBVIOUS
<1>3. \A table \in DOMAIN memory : Mapped(table)
  BY <1>1, <1>2, Zenon DEF Mapped
<1>4. Cr3 \subseteq 0..51
  BY TablesAssumption DEF Low
<1>5. Cr3 \in Word
  BY <1>4 DEF Word, Low
<1>6. GetCurrentPM4L = Cr3 \intersect (12..63)
  BY <1>5, TableAddress DEF GetCurrentPM4L
<1>7. GetCurrentPM4L = Frame(Cr3)
  BY <1>4, <1>6 DEF Frame
<1>8. GetCurrentPM4L \in Word
  BY <1>5, <1>6 DEF Word
<1> QED
  BY <1>3, <1>7, <1>8 DEF MemoryInv

\* A table holds the entry of the path where the walk is in the table of the path.
LEMMA EntryOfPath ==
    ASSUME MemoryInv, NEW path \in Paths, NEW level \in Levels,
           PathTable(path, level) \in DOMAIN memory
    PROVE  /\ PathEntry(path, level) = memory[PathTable(path, level)][path[level]]
           /\ PathEntry(path, level) \in Word
<1>1. PathEntry(path, level) = EntryIn(memory, PathTable(path, level), path[level])
  <2>1. CASE level = 4
    BY <2>1, EntryOnWay, Zenon DEF PathEntry, PathTable
  <2>2. CASE level # 4
    <3>1. level \in 1..3
      BY <2>2 DEF Levels
    <3> QED
      BY <2>2, <3>1, EntryOnWay, Zenon DEF PathEntry, PathTable
  <2> QED
    BY <2>1, <2>2
<1>2. PathEntry(path, level) = memory[PathTable(path, level)][path[level]]
  BY <1>1, Zenon DEF EntryIn
<1>3. path[level] \in Slots
  BY DEF Paths
<1>4. memory[PathTable(path, level)][path[level]] \in Word
  BY <1>3 DEF MemoryInv
<1> QED
  BY <1>2, <1>4

\* Every entry of a path is a word, if only the empty one.
LEMMA EntriesAreWords ==
    ASSUME MemoryInv, NEW path \in Paths, NEW level \in Levels
    PROVE  PathEntry(path, level) \in Word
<1>1. path[level] \in Slots
  BY DEF Paths
<1>2. \E table : PathEntry(path, level) = EntryIn(memory, table, path[level])
  <2>1. CASE level = 4
    BY <2>1, EntryOnWay, Zenon DEF PathEntry
  <2>2. CASE level # 4
    <3>1. level \in 1..3
      BY <2>2 DEF Levels
    <3> QED
      BY <3>1, EntryOnWay, Zenon DEF PathEntry
  <2> QED
    BY <2>1, <2>2
<1>3. PICK table : PathEntry(path, level) = EntryIn(memory, table, path[level])
  BY <1>2
<1>4. CASE table \in DOMAIN memory
  BY <1>1, <1>3, <1>4 DEF EntryIn, MemoryInv
<1>5. CASE table \notin DOMAIN memory
  BY <1>3, <1>5 DEF EntryIn, Word
<1> QED
  BY <1>4, <1>5

\* The slots an address names.
LEMMA PathOfAddress ==
    ASSUME NEW vaddr \in Addresses
    PROVE  /\ PathOf(vaddr) \in Paths
           /\ \A l \in Levels : PathOf(vaddr)[l] = Number(Index(vaddr, l))
<1>1. \A l \in Levels : Number(Index(vaddr, l)) \in Slots
  BY AddressesAssumption
<1>2. \A l \in Levels : Number(Field(vaddr, 3 + 9 * l, 9)) = Number(Index(vaddr, l))
  BY Zenon DEF Index
<1>3. \A l \in Levels : PathOf(vaddr)[l] = Number(Index(vaddr, l))
  BY <1>2, Zenon DEF PathOf
<1>4. PathOf(vaddr) = [l \in Levels |-> PathOf(vaddr)[l]]
  BY DEF PathOf
<1> QED
  BY <1>1, <1>3, <1>4 DEF Paths

-----------------------------------------------------------------------------
(* The walk of VirtualToPageBase. *)

\* A step that leaves the tables leaves all that is read from them.
LEMMA TablesRest ==
    ASSUME UNCHANGED memory
    PROVE  /\ \A path, l : PathEntry(path, l)' = PathEntry(path, l)
           /\ \A path, l : PathTable(path, l)' = PathTable(path, l)
           /\ \A path, l : Straight(path, l)' <=> Straight(path, l)
           /\ \A entry : Plain(entry)' <=> Plain(entry)
           /\ \A path : Translates(path)' <=> Translates(path)
           /\ \A path : Flagged(path)' <=> Flagged(path)
           /\ Paged' <=> Paged
           /\ MemoryInv' <=> MemoryInv
BY DEF PathEntry, PathTable, Straight, Plain, Translates, Flagged, Opened, Paged, MemoryInv

\* Where the way is straight there is a table, and a step is in the one of its path.
LEMMA StraightTable ==
    ASSUME MemoryInv, NEW path, NEW level \in Levels, Straight(path, level)
    PROVE  PathTable(path, level) \in DOMAIN memory
<1>1. CASE level = 4
  BY <1>1, Zenon DEF PathTable, MemoryInv
<1>2. CASE level # 4
  <2>1. level + 1 \in level + 1..4
    BY <1>2 DEF Levels
  <2>2. Plain(PathEntry(path, level + 1))
    BY <2>1, Zenon DEF Straight
  <2> QED
    BY <1>2, <2>2, Zenon DEF Plain, PathTable
<1> QED
  BY <1>1, <1>2

LEMMA LookupFollows ==
    ASSUME TablesInv, FollowEntry
    PROVE  MemoryInv' /\ walk' \in Walks /\ LookupInv' /\ ParseInv'
<1> DEFINE path == PathOf(walk.vaddr)
           L == walk.level
           table == walk.tables[L]
<1>1. /\ walk \in Walks /\ MemoryInv /\ LookupInv
      /\ walk.routine = "VirtualToPageBase" /\ walk.status = "walking"
      /\ Mapped(table) /\ UNCHANGED memory
  BY Zenon DEF TablesInv, FollowEntry, Walking, Table, Level
<1>2. /\ walk.vaddr \in Addresses /\ L \in Levels
      /\ path \in Paths /\ \A l \in Levels : path[l] = Number(Index(walk.vaddr, l))
  <2>1. walk.vaddr \in Addresses
    BY <1>1, Zenon DEF LookupInv
  <2>2. L \in Levels
    BY <1>1 DEF Walks
  <2> QED
    BY <2>1, <2>2, PathOfAddress, Zenon
<1>3. PICK entry \in Read(table, path[L]) :
        /\ walk' = IF L = 1 THEN [walk EXCEPT !.status = "returned"]
                   ELSE [walk EXCEPT !.level = L - 1, !.tables[L - 1] = address(entry)]
        /\ reported' = {address(entry)}
  BY <1>2, Zenon DEF FollowEntry, EndsWalk, Table, Level
<1>4. entry \in Word
  <2>1. CASE table \in DOMAIN memory
    <3>1. entry = memory[table][path[L]] /\ path[L] \in Slots
      BY <1>2, <1>3, <2>1 DEF Read, Paths
    <3> QED
      BY <1>1, <2>1, <3>1 DEF MemoryInv
  <2>2. CASE table \notin DOMAIN memory
    BY <1>3, <2>2, TablesAssumption DEF Read
  <2> QED
    BY <2>1, <2>2
<1>5. /\ address(entry) \in Word
      /\ HighFlags(entry) = {} => address(entry) = Frame(entry)
      /\ entry = {} => address(entry) = {}
  BY <1>4, AddressOfEntry
<1> HIDE DEF path, L, table
\* On a straight way the entry is the processor's.
<1>6. Straight(path, L) => table = PathTable(path, L) /\ entry = PathEntry(path, L)
  <2> SUFFICES ASSUME Straight(path, L)
               PROVE  table = PathTable(path, L) /\ entry = PathEntry(path, L)
    OBVIOUS
  <2>1. L \in L..4
    BY <1>2 DEF Levels
  <2>2. table = PathTable(path, L)
    BY <1>1, <2>1, Zenon DEF LookupInv, path, L, table
  <2>3. PathTable(path, L) \in DOMAIN memory
    BY <1>1, <1>2, StraightTable
  <2>4. entry = memory[table][path[L]]
    BY <1>3, <2>2, <2>3 DEF Read
  <2> QED
    BY <1>1, <1>2, <2>2, <2>3, <2>4, EntryOfPath
<1>7. /\ \A p, l : PathEntry(p, l)' = PathEntry(p, l)
      /\ \A p, l : PathTable(p, l)' = PathTable(p, l)
      /\ \A p, l : Straight(p, l)' <=> Straight(p, l)
      /\ MemoryInv'
  BY <1>1, TablesRest
<1>8. walk \in [routine : {"none", "VirtualToPageBase", "ParseBootLoaderTable", "ParsePM4L"},
         status : {"idle", "walking", "returned", "fault"}, vaddr : Addresses \union {{}},
         level : Levels, tables : [Levels -> Word], slots : Paths]
  BY <1>1 DEF Walks
<1>9. CASE L = 1
  <2>1. walk' = [walk EXCEPT !.status = "returned"]
    BY <1>3, <1>9
  <2>2. /\ walk' \in Walks
        /\ walk'.routine = walk.routine /\ walk'.status = "returned" /\ walk'.vaddr = walk.vaddr
        /\ walk'.level = walk.level /\ walk'.tables = walk.tables /\ walk'.slots = walk.slots
    BY <1>8, <2>1 DEF Walks
  <2>3. Straight(path, 1) => reported' = {address(PathEntry(path, 1))}
    BY <1>3, <1>6, <1>9
  <2>4. LookupInv'
    BY <1>1, <1>7, <1>9, <2>2, <2>3 DEF LookupInv, path, L, table, Mapped
  <2> QED
    BY <1>1, <1>7, <2>2, <2>4 DEF ParseInv
<1>10. CASE L # 1
  <2>1. walk' = [walk EXCEPT !.level = L - 1, !.tables[L - 1] = address(entry)]
    BY <1>3, <1>10
  <2>2. L \in 2..4 /\ L - 1 \in Levels /\ (L - 1) + 1 = L
    BY <1>2, <1>10 DEF Levels
  <2>3. /\ walk' \in Walks
        /\ walk'.routine = walk.routine /\ walk'.status = "walking" /\ walk'.vaddr = walk.vaddr
        /\ walk'.level = L - 1
        /\ walk'.tables = [walk.tables EXCEPT ![L - 1] = address(entry)]
    BY <1>1, <1>5, <1>8, <2>1, <2>2 DEF Walks
  <2>4. /\ walk.tables \in [Levels -> Word]
        /\ walk'.tables[L - 1] = address(entry)
        /\ \A l \in Levels : l # L - 1 => walk'.tables[l] = walk.tables[l]
    BY <1>8, <2>2, <2>3
  <2>5. ASSUME NEW l \in L - 1..4, Straight(path, l)
        PROVE  walk'.tables[l] = PathTable(path, l)
    <3>1. CASE l = L - 1
      <4>1. L \in l + 1..4
        BY <2>2, <3>1
      <4>2. Plain(PathEntry(path, L)) /\ Straight(path, L)
        BY <2>2, <2>5, <3>1, <4>1 DEF Straight
      <4>3. address(entry) = Frame(PathEntry(path, L))
        BY <1>5, <1>6, <4>2 DEF Plain
      <4>4. PathTable(path, L - 1) = Frame(PathEntry(path, L))
        BY <2>2 DEF PathTable
      <4> QED
        BY <2>4, <3>1, <4>3, <4>4
    <3>2. CASE l # L - 1
      <4>1. l \in L..4 /\ l \in Levels
        BY <2>2, <3>2 DEF Levels
      <4>2. walk.tables[l] = PathTable(path, l)
        BY <1>1, <2>5, <4>1, Zenon DEF LookupInv, path, L
      <4> QED
        BY <2>4, <3>2, <4>1, <4>2
    <3> QED
      BY <3>1, <3>2
  <2>6. ASSUME NEW l \in (L - 1) + 1..4
        PROVE  /\ Mapped(walk'.tables[l])
               /\ Straight(path, l) => walk'.tables[l - 1] = address(PathEntry(path, l))
    <3>1. l \in L..4 /\ l \in Levels /\ l # L - 1 /\ walk'.tables[l] = walk.tables[l]
      BY <2>2, <2>4 DEF Levels
    <3>2. CASE l = L
      <4>1. Mapped(walk'.tables[l])
        BY <1>1, <3>1, <3>2 DEF table
      <4>2. Straight(path, l) => walk'.tables[l - 1] = address(PathEntry(path, l))
        BY <1>6, <2>4, <3>2
      <4> QED
        BY <4>1, <4>2
    <3>3. CASE l # L
      <4>1. l \in L + 1..4 /\ l - 1 \in Levels /\ l - 1 # L - 1
        BY <2>2, <3>1, <3>3 DEF Levels
      <4>2. /\ Mapped(walk.tables[l])
            /\ Straight(path, l) => walk.tables[l - 1] = address(PathEntry(path, l))
        BY <1>1, <4>1, Zenon DEF LookupInv, path, L
      <4> QED
        BY <2>4, <3>1, <4>1, <4>2
    <3> QED
      BY <3>2, <3>3
  <2>7. LookupInv'
    BY <1>2, <1>7, <2>3, <2>5, <2>6 DEF LookupInv, path, Mapped
  <2> QED
    BY <1>1, <1>7, <2>3, <2>7 DEF ParseInv
<1> QED
  BY <1>9, <1>10

-----------------------------------------------------------------------------
(* The order of the loops. *)

\* What the quantifiers of the order say, level by level.
LEMMA OrderSpelled ==
    ASSUME NEW p, NEW q
    PROVE  /\ \A level \in 1..5 : Agree(p, q, level) <=>
                /\ level <= 4 => p[4] = q[4]
                /\ level <= 3 => p[3] = q[3]
                /\ level <= 2 => p[2] = q[2]
                /\ level <= 1 => p[1] = q[1]
           /\ \A level \in Levels : Before(p, q, level) <=>
                \/ p[4] < q[4]
                \/ level <= 3 /\ p[4] = q[4] /\ p[3] < q[3]
                \/ level <= 2 /\ p[4] = q[4] /\ p[3] = q[3] /\ p[2] < q[2]
                \/ level <= 1 /\ p[4] = q[4] /\ p[3] = q[3] /\ p[2] = q[2] /\ p[1] < q[1]
<1>1. ASSUME NEW level \in 1..5
      PROVE  Agree(p, q, level) <=>
                /\ level <= 4 => p[4] = q[4]
                /\ level <= 3 => p[3] = q[3]
                /\ level <= 2 => p[2] = q[2]
                /\ level <= 1 => p[1] = q[1]
  <2>1. \A l \in level..4 : l = 1 \/ l = 2 \/ l = 3 \/ l = 4
    OBVIOUS
  <2>2. /\ level <= 4 => 4 \in level..4
        /\ level <= 3 => 3 \in level..4
        /\ level <= 2 => 2 \in level..4
        /\ level <= 1 => 1 \in level..4
        /\ \A l \in level..4 : level <= l
    OBVIOUS
  <2> QED
    BY <2>1, <2>2 DEF Agree
<1>2. ASSUME NEW level \in Levels
      PROVE  Before(p, q, level) <=>
                \/ p[4] < q[4]
                \/ level <= 3 /\ p[4] = q[4] /\ p[3] < q[3]
                \/ level <= 2 /\ p[4] = q[4] /\ p[3] = q[3] /\ p[2] < q[2]
                \/ level <= 1 /\ p[4] = q[4] /\ p[3] = q[3] /\ p[2] = q[2] /\ p[1] < q[1]
  <2>1. /\ Agree(p, q, 4 + 1)
        /\ Agree(p, q, 3 + 1) <=> p[4] = q[4]
        /\ Agree(p, q, 2 + 1) <=> p[4] = q[4] /\ p[3] = q[3]
        /\ Agree(p, q, 1 + 1) <=> p[4] = q[4] /\ p[3] = q[3] /\ p[2] = q[2]
    BY <1>1
  <2>2. /\ 4 \in level..4
        /\ level <= 3 <=> 3 \in level..4
        /\ level <= 2 <=> 2 \in level..4
        /\ level <= 1 <=> 1 \in level..4
        /\ \A l \in level..4 : l = 1 \/ l = 2 \/ l = 3 \/ l = 4
    BY DEF Levels
  <2>3. Before(p, q, level) <=>
            \/ p[4] < q[4] /\ Agree(p, q, 4 + 1)
            \/ level <= 3 /\ p[3] < q[3] /\ Agree(p, q, 3 + 1)
            \/ level <= 2 /\ p[2] < q[2] /\ Agree(p, q, 2 + 1)
            \/ level <= 1 /\ p[1] < q[1] /\ Agree(p, q, 1 + 1)
    BY <2>2, Zenon DEF Before
  <2> QED
    BY <2>1, <2>3
<1> QED
  BY <1>1, <1>2

\* The slots of a path are numbers up to the last.
LEMMA SlotsOfPath ==
    ASSUME NEW p \in Paths
    PROVE  \A l \in Levels : p[l] \in Int /\ 0 <= p[l] /\ p[l] <= LastSlot
BY TablesAssumption DEF Paths, Slots, LastSlot

\* Where the loops go on, the paths passed are those before and those through the
\* current entry; when they end, these are all.
LEMMA NextInOrder ==
    ASSUME NEW q \in Paths, NEW L \in Levels, NEW p \in Paths,
           NEW open, open = {l \in L..4 : q[l] # LastSlot}
    PROVE  /\ open = {} => Before(p, q, L) \/ Agree(p, q, L)
           /\ open # {} =>
                LET m == Min(open)
                    next == [q EXCEPT ![m] = q[m] + 1]
                IN  /\ m \in L..4 /\ next \in Paths /\ Agree(next, q, m + 1)
                    /\ Before(p, next, m) <=> Before(p, q, L) \/ Agree(p, q, L)
<1>1. /\ \A l \in Levels : p[l] \in Int /\ 0 <= p[l] /\ p[l] <= LastSlot
      /\ \A l \in Levels : q[l] \in Int /\ 0 <= q[l] /\ q[l] <= LastSlot
      /\ LastSlot \in Int
  BY SlotsOfPath, TablesAssumption DEF LastSlot
<1>2. 1 \in Levels /\ 2 \in Levels /\ 3 \in Levels /\ 4 \in Levels
  BY DEF Levels
<1>3. L = 1 \/ L = 2 \/ L = 3 \/ L = 4
  BY DEF Levels
<1>4. /\ L \in 1..5
      /\ \A l \in L..4 : l \in Levels
  BY DEF Levels
<1>5. Agree(p, q, L) <=>
                /\ L <= 4 => p[4] = q[4]
                /\ L <= 3 => p[3] = q[3]
                /\ L <= 2 => p[2] = q[2]
                /\ L <= 1 => p[1] = q[1]
  BY <1>4, OrderSpelled
<1>6. Before(p, q, L) <=>
                \/ p[4] < q[4]
                \/ L <= 3 /\ p[4] = q[4] /\ p[3] < q[3]
                \/ L <= 2 /\ p[4] = q[4] /\ p[3] = q[3] /\ p[2] < q[2]
                \/ L <= 1 /\ p[4] = q[4] /\ p[3] = q[3] /\ p[2] = q[2] /\ p[1] < q[1]
  BY OrderSpelled
<1>7. ASSUME open = {} PROVE Before(p, q, L) \/ Agree(p, q, L)
  <2>1. \A l \in L..4 : q[l] = LastSlot
    BY <1>7
  <2>2. /\ q[4] = LastSlot
        /\ L <= 3 => q[3] = LastSlot
        /\ L <= 2 => q[2] = LastSlot
        /\ L <= 1 => q[1] = LastSlot
    BY <1>3, <2>1
  <2> QED
    BY <1>1, <1>2, <1>3, <1>5, <1>6, <2>2
<1>8. ASSUME open # {}
      PROVE  LET m == Min(open)
                 next == [q EXCEPT ![m] = q[m] + 1]
             IN  /\ m \in L..4 /\ next \in Paths /\ Agree(next, q, m + 1)
                 /\ Before(p, next, m) <=> Before(p, q, L) \/ Agree(p, q, L)
  <2> DEFINE m == Min(open)
             next == [q EXCEPT ![m] = q[m] + 1]
  <2>1. open \in SUBSET Nat
    BY <1>4 DEF Levels
  <2>2. m \in open /\ \A l \in open : m <= l
    BY <1>8, <2>1, LeastElement
  <2> HIDE DEF m
  <2>3. /\ m \in L..4 /\ m \in Levels /\ q[m] # LastSlot
        /\ \A l \in L..4 : l < m => q[l] = LastSlot
    BY <1>4, <2>2 DEF Levels
  <2>4. q[m] + 1 \in Slots
    BY <1>1, <2>3, TablesAssumption DEF Slots, LastSlot
  <2>5. next \in Paths /\ next[m] = q[m] + 1 /\ \A l \in Levels : l # m => next[l] = q[l]
    BY <2>3, <2>4 DEF Paths
  <2> HIDE DEF next
  <2>6. \A l \in m + 1..4 : l \in Levels /\ l # m
    BY <2>3 DEF Levels
  <2>7. Agree(next, q, m + 1)
    BY <2>5, <2>6 DEF Agree
  <2>8. Before(p, next, m) <=>
                \/ p[4] < next[4]
                \/ m <= 3 /\ p[4] = next[4] /\ p[3] < next[3]
                \/ m <= 2 /\ p[4] = next[4] /\ p[3] = next[3] /\ p[2] < next[2]
                \/ m <= 1 /\ p[4] = next[4] /\ p[3] = next[3] /\ p[2] = next[2] /\ p[1] < next[1]
    BY <2>3, OrderSpelled
  <2>9. /\ 4 # m => next[4] = q[4]
        /\ 3 # m => next[3] = q[3]
        /\ 2 # m => next[2] = q[2]
        /\ 1 # m => next[1] = q[1]
    BY <1>2, <2>5
  <2>10. /\ L <= 3 /\ 3 < m => q[3] = LastSlot
         /\ L <= 2 /\ 2 < m => q[2] = LastSlot
         /\ L <= 1 /\ 1 < m => q[1] = LastSlot
    BY <1>3, <2>3
  <2>11. Before(p, next, m) <=> Before(p, q, L) \/ Agree(p, q, L)
    <3>1. CASE m = 4
      BY <1>1, <1>2, <1>3, <1>5, <1>6, <2>3, <2>5, <2>8, <2>9, <2>10, <3>1
    <3>2. CASE m = 3
      BY <1>1, <1>2, <1>3, <1>5, <1>6, <2>3, <2>5, <2>8, <2>9, <2>10, <3>2
    <3>3. CASE m = 2
      BY <1>1, <1>2, <1>3, <1>5, <1>6, <2>3, <2>5, <2>8, <2>9, <2>10, <3>3
    <3>4. CASE m = 1
      BY <1>1, <1>2, <1>3, <1>5, <1>6, <2>3, <2>5, <2>8, <2>9, <2>10, <3>4
    <3> QED
      BY <2>3, <3>1, <3>2, <3>3, <3>4 DEF Levels
  <2> QED
    BY <2>3, <2>5, <2>7, <2>11 DEF m, next
<1> QED
  BY <1>7, <1>8

-----------------------------------------------------------------------------
(* The walk of ParseBootLoaderTable. *)

\* Whether a path is translated shows in its entries: none is absent.
LEMMA AbsentNotTranslated ==
    ASSUME NEW path, NEW level \in Levels, ~Present(PathEntry(path, level))
    PROVE  ~Translates(path)
<1>1. CASE level = 1
  BY <1>1, Zenon DEF Translates
<1>2. CASE level # 1
  <2>1. level \in 2..4
    BY <1>2 DEF Levels
  <2> QED
    BY <2>1, Zenon DEF Translates, Leads
<1> QED
  BY <1>1, <1>2

\* Where all pages are of 4 KiB and its table is mapped, the walk reads the entry of
\* its slots, and came there through an entry without flags.
LEMMA ParseReads ==
    ASSUME TablesInv, Paged, Walking("ParseBootLoaderTable"), Mapped(Table)
    PROVE  /\ Table \in DOMAIN memory
           /\ Read(Table, walk.slots[Level]) = {PathEntry(walk.slots, Level)}
           /\ PathEntry(walk.slots, Level) \in Word
           /\ \A l \in Level + 1..4 : HighFlags(PathEntry(walk.slots, l)) = {}
<1>1. /\ walk \in Walks /\ MemoryInv /\ ParseInv
      /\ walk.routine = "ParseBootLoaderTable" /\ walk.status = "walking"
  BY Zenon DEF TablesInv, Walking
<1>2. Level \in Levels /\ walk.slots \in Paths
  BY <1>1 DEF Walks, Level
<1>3. Level \in Level..4
  BY <1>2 DEF Levels
<1>4. Table = IF Level = 4 THEN Frame(Cr3) ELSE address(PathEntry(walk.slots, Level + 1))
  BY <1>1, <1>3, Zenon DEF ParseInv, Table, Level
<1>5. /\ Table = PathTable(walk.slots, Level) /\ Table \in DOMAIN memory
      /\ Level # 4 => HighFlags(PathEntry(walk.slots, Level + 1)) = {}
  <2>1. CASE Level = 4
    BY <1>1, <1>4, <2>1, Zenon DEF PathTable, MemoryInv
  <2>2. CASE Level # 4
    <3> DEFINE entry == PathEntry(walk.slots, Level + 1)
    <3>1. Level + 1 \in 2..4 /\ \A l \in Level + 1..4 : l \in walk.level + 1..4
      BY <1>2, <2>2 DEF Levels, Level
    <3>2. Opened(walk.slots, Level + 1)
      BY <1>1, <3>1, Zenon DEF ParseInv, Opened
    <3>3. Frame(entry) \in DOMAIN memory
      BY <1>2, <3>1, <3>2, Zenon DEF Paged
    <3>4. entry \in Word
      BY <1>1, <1>2, <3>1, EntriesAreWords DEF Levels
    <3>5. Table = address(entry) /\ PathTable(walk.slots, Level) = Frame(entry)
      BY <1>4, <2>2, Zenon DEF PathTable
    <3> HIDE DEF entry
    <3>6. HighFlags(entry) = {} /\ Table = Frame(entry)
      BY <3>4, <3>5, AddressOfEntry
    <3> QED
      BY <3>3, <3>5, <3>6 DEF entry
  <2> QED
    BY <2>1, <2>2
<1>6. /\ PathEntry(walk.slots, Level) = memory[Table][walk.slots[Level]]
      /\ PathEntry(walk.slots, Level) \in Word
  BY <1>1, <1>2, <1>5, EntryOfPath
<1>7. ASSUME NEW l \in Level + 1..4 PROVE HighFlags(PathEntry(walk.slots, l)) = {}
  <2>1. CASE l = Level + 1
    <3>1. Level # 4
      BY <1>2, <2>1 DEF Levels
    <3> QED
      BY <1>5, <2>1, <3>1
  <2>2. CASE l # Level + 1
    <3>1. l \in walk.level + 2..4
      BY <1>2, <2>2 DEF Levels, Level
    <3> QED
      BY <1>1, <3>1, Zenon DEF ParseInv
  <2> QED
    BY <2>1, <2>2
<1> QED
  BY <1>5, <1>6, <1>7 DEF Read

\* A step down.
LEMMA ParseDescends ==
    ASSUME TablesInv, Walking("ParseBootLoaderTable"), UNCHANGED memory, UNCHANGED reported,
           Mapped(Table), NEW entry \in Word, entry \in Read(Table, walk.slots[Level]),
           Present(entry), Level > 1, walk' = Descend(entry)
    PROVE  MemoryInv' /\ walk' \in Walks /\ LookupInv' /\ ParseInv'
<1> DEFINE L == walk.level
<1>1. /\ walk \in Walks /\ MemoryInv /\ ParseInv
      /\ walk.routine = "ParseBootLoaderTable" /\ walk.status = "walking" /\ Level = L
  BY Zenon DEF TablesInv, Walking, Level
<1>2. L \in 2..4 /\ L \in Levels /\ L - 1 \in Levels /\ (L - 1) + 1 = L /\ walk.slots \in Paths
  BY <1>1 DEF Walks, Levels
<1>3. 0 \in Slots /\ address(entry) \in Word
  <2>1. structureSize \in 1..512
    BY TablesAssumption, Zenon
  <2>2. 0 \in Slots
    BY <2>1 DEF Slots
  <2> QED
    BY <2>2, AddressOfEntry
<1>4. walk \in [routine : {"none", "VirtualToPageBase", "ParseBootLoaderTable", "ParsePM4L"},
         status : {"idle", "walking", "returned", "fault"}, vaddr : Addresses \union {{}},
         level : Levels, tables : [Levels -> Word], slots : [Levels -> Slots]]
  BY <1>1 DEF Walks, Paths
<1>5. walk' = [walk EXCEPT !.level = L - 1, !.tables[L - 1] = address(entry), !.slots[L - 1] = 0]
  BY <1>1 DEF Descend
<1>6. /\ walk' \in [routine : {"none", "VirtualToPageBase", "ParseBootLoaderTable", "ParsePM4L"},
         status : {"idle", "walking", "returned", "fault"}, vaddr : Addresses \union {{}},
         level : Levels, tables : [Levels -> Word], slots : [Levels -> Slots]]
      /\ walk'.routine = "ParseBootLoaderTable" /\ walk'.status = "walking"
      /\ walk'.level = L - 1
      /\ walk'.tables = [walk.tables EXCEPT ![L - 1] = address(entry)]
      /\ walk'.slots = [walk.slots EXCEPT ![L - 1] = 0]
  <2>1. /\ walk'.routine = "ParseBootLoaderTable" /\ walk'.status = "walking"
        /\ walk'.level = L - 1 /\ walk'.vaddr = walk.vaddr
        /\ walk'.tables = [walk.tables EXCEPT ![L - 1] = address(entry)]
        /\ walk'.slots = [walk.slots EXCEPT ![L - 1] = 0]
    BY <1>1, <1>4, <1>5
  <2>2. walk'.tables \in [Levels -> Word] /\ walk'.slots \in [Levels -> Slots]
    BY <1>2, <1>3, <1>4, <2>1
  <2>3. walk' = [routine |-> walk'.routine, status |-> walk'.status, vaddr |-> walk'.vaddr,
                 level |-> walk'.level, tables |-> walk'.tables, slots |-> walk'.slots]
    BY <1>4, <1>5
  <2> HIDE DEF L
  <2> QED
    BY <1>2, <1>4, <2>1, <2>2, <2>3
<1>7. walk' \in Walks /\ walk'.slots \in Paths
  BY <1>6 DEF Walks, Paths
<1>8. /\ walk'.tables[L - 1] = address(entry) /\ walk'.slots[L - 1] = 0
      /\ \A l \in Levels : l # L - 1 =>
            walk'.tables[l] = walk.tables[l] /\ walk'.slots[l] = walk.slots[l]
  BY <1>2, <1>4, <1>6
<1>9. /\ \A p, l : PathEntry(p, l)' = PathEntry(p, l)
      /\ \A p, l : PathTable(p, l)' = PathTable(p, l)
      /\ \A p : Translates(p)' <=> Translates(p)
      /\ \A p : Flagged(p)' <=> Flagged(p)
      /\ Paged' <=> Paged
      /\ MemoryInv'
  BY <1>1, TablesRest
<1>10. ASSUME Paged PROVE ParseInv'
  <2> DEFINE old == walk.slots
             new == walk'.slots
  <2>1. entry = PathEntry(old, L)
    BY <1>1, <1>10, ParseReads
  <2>2. \A l \in L + 1..4 : HighFlags(PathEntry(old, l)) = {}
    BY <1>1, <1>10, ParseReads
  <2>4. \A l \in L..4 : Agree(new, old, l) /\ l \in Levels
    BY <1>2, <1>8 DEF Agree, Levels
  <2>5. \A l \in L..4 : PathEntry(new, l) = PathEntry(old, l)
    BY <2>4, SameEntries, Zenon DEF PathEntry
  <2>6. ASSUME NEW l \in L - 1..4
        PROVE  walk'.tables[l] = IF l = 4 THEN Frame(Cr3) ELSE address(PathEntry(new, l + 1))
    <3>1. CASE l = L - 1
      <4> HIDE DEF L
      <4>1. l # 4 /\ l + 1 = L /\ L \in L..4
        BY <1>2, <3>1
      <4> QED
        BY <1>8, <2>1, <2>5, <3>1, <4>1
    <3>2. CASE l # L - 1
      <4>1. l \in L..4 /\ l \in Levels /\ (l # 4 => l + 1 \in L..4)
        BY <1>2, <3>2 DEF Levels
      <4>2. walk.tables[l] = IF l = 4 THEN Frame(Cr3) ELSE address(PathEntry(old, l + 1))
        BY <1>1, <1>10, <4>1, Zenon DEF ParseInv
      <4> QED
        BY <1>8, <2>5, <3>2, <4>1, <4>2
    <3> QED
      BY <3>1, <3>2
  <2>7. ASSUME NEW l \in (L - 1) + 1..4
        PROVE  Present(PathEntry(new, l))
    <3>1. l \in L..4
      BY <1>2
    <3>2. CASE l = L
      BY <2>1, <2>5, <3>1, <3>2
    <3>3. CASE l # L
      <4>1. l \in L + 1..4
        BY <1>2, <3>1, <3>3
      <4>2. Present(PathEntry(old, l))
        BY <1>1, <1>10, <4>1, Zenon DEF ParseInv
      <4> QED
        BY <2>5, <3>1, <4>2
    <3> QED
      BY <3>2, <3>3
  <2>8. ASSUME NEW p \in Paths PROVE Before(p, new, L - 1) <=> Before(p, old, L)
    <3>1. /\ Before(p, new, L - 1) <=>
                \/ p[4] < new[4]
                \/ L - 1 <= 3 /\ p[4] = new[4] /\ p[3] < new[3]
                \/ L - 1 <= 2 /\ p[4] = new[4] /\ p[3] = new[3] /\ p[2] < new[2]
                \/ L - 1 <= 1 /\ p[4] = new[4] /\ p[3] = new[3] /\ p[2] = new[2] /\ p[1] < new[1]
          /\ Before(p, old, L) <=>
                \/ p[4] < old[4]
                \/ L <= 3 /\ p[4] = old[4] /\ p[3] < old[3]
                \/ L <= 2 /\ p[4] = old[4] /\ p[3] = old[3] /\ p[2] < old[2]
                \/ L <= 1 /\ p[4] = old[4] /\ p[3] = old[3] /\ p[2] = old[2] /\ p[1] < old[1]
      BY <1>2, OrderSpelled
    <3>2. /\ L - 1 # 4 => new[4] = old[4]
          /\ L - 1 # 3 => new[3] = old[3]
          /\ L - 1 # 2 => new[2] = old[2]
          /\ L - 1 # 1 => new[1] = old[1]
      BY <1>8 DEF Levels
    <3>3. \A l \in Levels : p[l] \in Int /\ 0 <= p[l]
      BY SlotsOfPath
    <3>4. p[1] \in Int /\ 0 <= p[1] /\ p[2] \in Int /\ 0 <= p[2] /\ p[3] \in Int /\ 0 <= p[3]
      BY <3>3 DEF Levels
    <3> HIDE DEF old, new, L
    <3>5. CASE L = 4
      BY <1>8, <3>1, <3>2, <3>4, <3>5 DEF new
    <3>6. CASE L = 3
      BY <1>8, <3>1, <3>2, <3>4, <3>6 DEF new
    <3>7. CASE L = 2
      BY <1>8, <3>1, <3>2, <3>4, <3>7 DEF new
    <3> QED
      BY <1>2, <3>5, <3>6, <3>7
  <2>9. reported = Pages({p \in Paths : Before(p, old, L)})
    BY <1>1, <1>10, Zenon DEF ParseInv
  <2>10. {p \in Paths : Before(p, new, L - 1)} = {p \in Paths : Before(p, old, L)}
    BY <2>8
  <2>11. reported' = Pages({p \in Paths : Before(p, walk.slots, walk.level)})'
    BY <1>6, <1>9, <2>9, <2>10 DEF Pages
  <2>12. \A l \in (L - 1) + 2..4 : HighFlags(PathEntry(new, l)) = {}
    <3>1. \A l \in (L - 1) + 2..4 : l \in L + 1..4 /\ l \in L..4
      BY <1>2
    <3> QED
      BY <2>2, <2>5, <3>1
  <2>13. \A p \in Paths : Before(p, new, L - 1) => ~Flagged(p)
    BY <1>1, <1>10, <2>8, Zenon DEF ParseInv
  <2> QED
    BY <1>6, <1>9, <2>6, <2>7, <2>11, <2>12, <2>13 DEF ParseInv
<1>11. ~Paged => ParseInv'
  BY <1>9, Zenon DEF ParseInv
<1>12. LookupInv'
  BY <1>6, Zenon DEF LookupInv
<1> QED
  BY <1>7, <1>9, <1>10, <1>11, <1>12, Zenon

\* A step to the next entry, where the paths through the current one have no flags,
\* and their pages are written.
LEMMA ParseGoesOn ==
    ASSUME TablesInv, Walking("ParseBootLoaderTable"), UNCHANGED memory, walk' = NextEntry,
           Paged =>
             /\ reported' = reported \union Pages({p \in Paths : Agree(p, walk.slots, Level)})
             /\ \A p \in Paths : Agree(p, walk.slots, Level) => ~Flagged(p)
    PROVE  MemoryInv' /\ walk' \in Walks /\ LookupInv' /\ ParseInv'
<1> DEFINE L == walk.level
           old == walk.slots
           m == Min(OpenLevels)
<1>1. /\ walk \in Walks /\ MemoryInv /\ ParseInv
      /\ walk.routine = "ParseBootLoaderTable" /\ walk.status = "walking" /\ Level = L
  BY Zenon DEF TablesInv, Walking, Level
<1>2. L \in Levels /\ old \in Paths
  BY <1>1 DEF Walks
<1>3. walk \in [routine : {"none", "VirtualToPageBase", "ParseBootLoaderTable", "ParsePM4L"},
         status : {"idle", "walking", "returned", "fault"}, vaddr : Addresses \union {{}},
         level : Levels, tables : [Levels -> Word], slots : Paths]
  BY <1>1 DEF Walks
<1>4. OpenLevels = {l \in L..4 : old[l] # LastSlot}
  BY <1>1 DEF OpenLevels
<1>5. \A p \in Paths :
        /\ OpenLevels = {} => Before(p, old, L) \/ Agree(p, old, L)
        /\ OpenLevels # {} =>
             /\ m \in L..4 /\ [old EXCEPT ![m] = old[m] + 1] \in Paths
             /\ Agree([old EXCEPT ![m] = old[m] + 1], old, m + 1)
             /\ Before(p, [old EXCEPT ![m] = old[m] + 1], m) <=>
                    Before(p, old, L) \/ Agree(p, old, L)
  BY <1>2, <1>4, NextInOrder
<1>6. /\ \A p, l : PathEntry(p, l)' = PathEntry(p, l)
      /\ \A p, l : PathTable(p, l)' = PathTable(p, l)
      /\ \A p : Translates(p)' <=> Translates(p)
      /\ \A p : Flagged(p)' <=> Flagged(p)
      /\ Paged' <=> Paged
      /\ MemoryInv'
  BY <1>1, TablesRest
<1>7. ASSUME Paged
      PROVE  reported' = Pages({p \in Paths : Before(p, old, L) \/ Agree(p, old, L)})
  <2>1. reported = Pages({p \in Paths : Before(p, old, L)})
    BY <1>1, <1>7, Zenon DEF ParseInv
  <2>2. reported' = reported \union Pages({p \in Paths : Agree(p, old, L)})
    BY <1>1, <1>7
  <2> HIDE DEF L, old
  <2> QED
    BY <2>1, <2>2 DEF Pages
<1>11. ASSUME Paged
       PROVE  \A p \in Paths : Before(p, old, L) \/ Agree(p, old, L) => ~Flagged(p)
  <2>1. \A p \in Paths : Before(p, old, L) => ~Flagged(p)
    BY <1>1, <1>11, Zenon DEF ParseInv
  <2> QED
    BY <1>1, <1>11, <2>1
<1>8. \A S : Pages(S)' = Pages(S)
  BY <1>6 DEF Pages
<1>9. CASE OpenLevels = {}
  <2>1. walk' = [walk EXCEPT !.status = "returned"]
    BY <1>9, Zenon DEF NextEntry
  <2>2. walk' \in Walks /\ walk'.routine = "ParseBootLoaderTable" /\ walk'.status = "returned"
    BY <1>1, <1>3, <2>1 DEF Walks
  <2>3. ASSUME Paged PROVE reported' = Pages(Paths)
    <3>1. {p \in Paths : Before(p, old, L) \/ Agree(p, old, L)} = Paths
      BY <1>5, <1>9
    <3> QED
      BY <1>7, <2>3, <3>1
  <2>4. Pages(Paths)' = Pages(Paths)
    BY <1>8
  <2>7. ASSUME Paged PROVE \A p \in Paths : ~Flagged(p)
    BY <1>5, <1>9, <1>11, <2>7
  <2>5. ParseInv'
    BY <1>6, <2>2, <2>3, <2>4, <2>7 DEF ParseInv
  <2>6. LookupInv'
    BY <2>2, Zenon DEF LookupInv
  <2> QED
    BY <1>6, <2>2, <2>5, <2>6
<1>10. CASE OpenLevels # {}
  <2> DEFINE new == [old EXCEPT ![m] = old[m] + 1]
  <2>1. /\ m \in L..4 /\ new \in Paths /\ Agree(new, old, m + 1)
        /\ \A p \in Paths : Before(p, new, m) <=> Before(p, old, L) \/ Agree(p, old, L)
    BY <1>2, <1>5, <1>10
  <2>2. m \in Levels /\ L <= m
    BY <1>2, <2>1 DEF Levels
  <2>3. walk' = [walk EXCEPT !.level = m, !.slots = new]
    BY <1>3, <1>10 DEF NextEntry
  <2> HIDE DEF new, m
  <2>4. /\ walk' \in Walks /\ walk'.routine = "ParseBootLoaderTable" /\ walk'.status = "walking"
        /\ walk'.level = m /\ walk'.slots = new /\ walk'.tables = walk.tables
    BY <1>1, <1>3, <2>1, <2>2, <2>3 DEF Walks
  <2>5. \A l \in m + 1..4 : PathEntry(new, l) = PathEntry(old, l)
    <3> SUFFICES ASSUME NEW l \in m + 1..4 PROVE PathEntry(new, l) = PathEntry(old, l)
      OBVIOUS
    <3>1. l \in Levels /\ Agree(new, old, l)
      BY <2>1, <2>2 DEF Agree, Levels
    <3> QED
      BY <3>1, SameEntries, Zenon DEF PathEntry
  <2>6. ASSUME Paged, NEW l \in m..4
        PROVE  walk.tables[l] = IF l = 4 THEN Frame(Cr3) ELSE address(PathEntry(new, l + 1))
    <3>1. l \in L..4 /\ (l # 4 => l + 1 \in m + 1..4)
      BY <1>2, <2>2 DEF Levels
    <3>2. walk.tables[l] = IF l = 4 THEN Frame(Cr3) ELSE address(PathEntry(old, l + 1))
      BY <1>1, <2>6, <3>1, Zenon DEF ParseInv
    <3> QED
      BY <2>5, <3>1, <3>2
  <2>7. ASSUME Paged, NEW l \in m + 1..4 PROVE Present(PathEntry(new, l))
    <3>1. l \in L + 1..4
      BY <1>2, <2>2 DEF Levels
    <3>2. Present(PathEntry(old, l))
      BY <1>1, <2>7, <3>1, Zenon DEF ParseInv
    <3> QED
      BY <2>5, <3>2
  <2>8. ASSUME Paged PROVE reported' = Pages({p \in Paths : Before(p, new, m)})
    <3>1. {p \in Paths : Before(p, new, m)} = {p \in Paths : Before(p, old, L) \/ Agree(p, old, L)}
      BY <2>1
    <3> QED
      BY <1>7, <2>8, <3>1
  <2>9. ASSUME Paged
        PROVE  reported' = Pages({p \in Paths : Before(p, walk.slots, walk.level)})'
    BY <1>6, <2>4, <2>8, <2>9 DEF Pages
  <2>12. ASSUME Paged, NEW l \in m + 2..4 PROVE HighFlags(PathEntry(new, l)) = {}
    <3>1. l \in L + 2..4 /\ l \in m + 1..4
      BY <1>2, <2>2 DEF Levels
    <3>2. HighFlags(PathEntry(old, l)) = {}
      BY <1>1, <2>12, <3>1, Zenon DEF ParseInv
    <3> QED
      BY <2>5, <3>1, <3>2
  <2>13. ASSUME Paged PROVE \A p \in Paths : Before(p, new, m) => ~Flagged(p)
    BY <1>11, <2>1, <2>13
  <2>10. ParseInv'
    BY <1>6, <2>4, <2>6, <2>7, <2>9, <2>12, <2>13 DEF ParseInv
  <2>11. LookupInv'
    BY <2>4, Zenon DEF LookupInv
  <2> QED
    BY <1>6, <2>4, <2>10, <2>11
<1> QED
  BY <1>9, <1>10

\* Every step of the loops.
LEMMA ParseKeeps ==
    ASSUME TablesInv, ParseEntry
    PROVE  MemoryInv' /\ walk' \in Walks /\ LookupInv' /\ ParseInv'
<1>1. /\ walk \in Walks /\ MemoryInv /\ ParseInv
      /\ Walking("ParseBootLoaderTable") /\ UNCHANGED memory /\ Mapped(Table)
      /\ Level \in Levels /\ walk.slots \in Paths
  BY DEF TablesInv, ParseEntry, Walks, Level
<1>2. PICK entry \in Read(Table, walk.slots[Level]) :
        \/ /\ Present(entry) /\ Level > 1
           /\ walk' = Descend(entry)
           /\ UNCHANGED reported
        \/ /\ Present(entry) /\ Level = 1
           /\ walk' = NextEntry
           /\ reported' = reported \union {<<walk.slots, address(entry)>>}
        \/ /\ ~Present(entry)
           /\ walk' = NextEntry
           /\ UNCHANGED reported
  BY Zenon DEF ParseEntry
<1>3. entry \in Word
  <2>1. CASE Table \in DOMAIN memory
    <3>1. entry = memory[Table][walk.slots[Level]] /\ walk.slots[Level] \in Slots
      BY <1>1, <1>2, <2>1 DEF Read, Paths
    <3> QED
      BY <1>1, <2>1, <3>1 DEF MemoryInv
  <2>2. CASE Table \notin DOMAIN memory
    BY <1>2, <2>2, TablesAssumption DEF Read
  <2> QED
    BY <2>1, <2>2
<1>4. Paged => /\ entry = PathEntry(walk.slots, Level)
               /\ \A l \in Level + 1..4 : HighFlags(PathEntry(walk.slots, l)) = {}
  BY <1>1, <1>2, ParseReads
<1>8. ASSUME NEW p \in Paths, Agree(p, walk.slots, Level)
      PROVE  \A l \in Level..4 : PathEntry(p, l) = PathEntry(walk.slots, l)
  <2> SUFFICES ASSUME NEW l \in Level..4 PROVE PathEntry(p, l) = PathEntry(walk.slots, l)
    OBVIOUS
  <2>1. l \in Levels /\ Agree(p, walk.slots, l)
    BY <1>1, <1>8 DEF Agree, Levels
  <2> QED
    BY <2>1, SameEntries, Zenon DEF PathEntry
\* No flag shows on the paths through an entry that is absent, or the last one.
<1>9. ASSUME Paged, Level = 1 \/ ~Present(entry)
      PROVE  \A p \in Paths : Agree(p, walk.slots, Level) => ~Flagged(p)
  <2> SUFFICES ASSUME NEW p \in Paths, Agree(p, walk.slots, Level),
                      NEW l \in 2..4, Opened(p, l), HighFlags(PathEntry(p, l)) # {}
               PROVE  FALSE
    BY DEF Flagged
  <2>1. CASE l > Level
    <3>1. l \in Level + 1..4 /\ l \in Level..4
      BY <1>1, <2>1 DEF Levels
    <3> QED
      BY <1>4, <1>8, <1>9, <3>1
  <2>2. CASE ~(l > Level)
    <3>1. Level \in l..4 /\ Level \in Level..4 /\ Level # 1
      BY <1>1, <2>2 DEF Levels
    <3>2. Present(PathEntry(p, Level))
      BY <3>1 DEF Opened
    <3> QED
      BY <1>4, <1>8, <1>9, <3>1, <3>2
  <2> QED
    BY <2>1, <2>2
<1>5. CASE Present(entry) /\ Level > 1 /\ walk' = Descend(entry) /\ UNCHANGED reported
  BY <1>1, <1>2, <1>3, <1>5, ParseDescends
<1>6. CASE /\ Present(entry) /\ Level = 1 /\ walk' = NextEntry
           /\ reported' = reported \union {<<walk.slots, address(entry)>>}
  <2>1. ASSUME Paged
        PROVE  Pages({p \in Paths : Agree(p, walk.slots, Level)}) = {<<walk.slots, address(entry)>>}
    <3>1. {p \in Paths : Agree(p, walk.slots, Level)} = {walk.slots}
      <4>1. ASSUME NEW p \in Paths, Agree(p, walk.slots, Level) PROVE p = walk.slots
        <5>1. \A l \in Levels : p[l] = walk.slots[l]
          BY <1>6, <4>1 DEF Agree, Levels
        <5> QED
          BY <1>1, <5>1 DEF Paths
      <4>2. Agree(walk.slots, walk.slots, Level)
        BY DEF Agree
      <4> QED
        BY <1>1, <4>1, <4>2
    <3>2. Translates(walk.slots)
      <4>1. Present(PathEntry(walk.slots, 1))
        BY <1>4, <1>6, <2>1
      <4>2. ASSUME NEW l \in 2..4 PROVE Leads(PathEntry(walk.slots, l))
        <5>3. Opened(walk.slots, l)
          <6>1. \A k \in l..4 : k \in Level + 1..4
            BY <1>6
          <6>2. \A k \in Level + 1..4 : Present(PathEntry(walk.slots, k))
            BY <1>1, <2>1, Zenon DEF ParseInv, Walking, Level
          <6> QED
            BY <6>1, <6>2, Zenon DEF Opened
        <5> QED
          BY <1>1, <2>1, <5>3, Zenon DEF Paged
      <4> QED
        BY <4>1, <4>2, Zenon DEF Translates
    <3>3. Pages({walk.slots}) = {<<walk.slots, address(PathEntry(walk.slots, 1))>>}
      BY <3>2 DEF Pages
    <3> QED
      BY <1>4, <1>6, <2>1, <3>1, <3>3
  <2> QED
    BY <1>1, <1>6, <1>9, <2>1, ParseGoesOn
<1>7. CASE ~Present(entry) /\ walk' = NextEntry /\ UNCHANGED reported
  <2>1. ASSUME Paged
        PROVE  Pages({p \in Paths : Agree(p, walk.slots, Level)}) = {}
    <3>1. ASSUME NEW p \in Paths, Agree(p, walk.slots, Level) PROVE ~Translates(p)
      <4>1. PathEntry(p, Level) = PathEntry(walk.slots, Level)
        BY <1>1, <1>8, <3>1 DEF Levels
      <4>2. ~Present(PathEntry(p, Level))
        BY <1>4, <1>7, <2>1, <4>1
      <4> QED
        BY <1>1, <4>2, AbsentNotTranslated
    <3> QED
      BY <3>1 DEF Pages
  <2> QED
    BY <1>1, <1>7, <1>9, <2>1, ParseGoesOn
<1> QED
  BY <1>2, <1>5, <1>6, <1>7

-----------------------------------------------------------------------------
(* Every step. *)

LEMMA NoWalkTypes ==
    /\ NoWalk \in Walks /\ NoWalk.level = 4
    /\ NoWalk.slots = [l \in Levels |-> 0] /\ 4 \in Levels
<1>1. structureSize \in 1..512
  BY TablesAssumption, Zenon
<1>2. 0 \in Slots
  BY <1>1 DEF Slots
<1>3. /\ [l \in Levels |-> 0] \in Paths /\ [l \in Levels |-> {}] \in [Levels -> Word]
      /\ 4 \in Levels
  BY <1>2 DEF Paths, Word, Levels
<1> DEFINE tables == [l \in Levels |-> {}]
           slots == [l \in Levels |-> 0]
<1>4. NoWalk = [routine |-> "none", status |-> "idle", vaddr |-> {},
                level |-> 4, tables |-> tables, slots |-> slots]
  BY DEF NoWalk
<1>5. tables \in [Levels -> Word] /\ slots \in Paths /\ slots = [l \in Levels |-> 0]
  BY <1>3
<1> HIDE DEF tables, slots
<1> QED
  BY <1>3, <1>4, <1>5 DEF Walks

\* A walk begins in the top table, before every path.
LEMMA BeginKeeps ==
    ASSUME MemoryInv, NEW routine \in {"VirtualToPageBase", "ParseBootLoaderTable"},
           NEW vaddr \in Addresses \union {{}},
           routine = "VirtualToPageBase" => vaddr \in Addresses,
           Begin(routine, vaddr)
    PROVE  MemoryInv' /\ walk' \in Walks /\ LookupInv' /\ ParseInv'
<1>1. /\ walk' = [NoWalk EXCEPT !.routine = routine, !.status = "walking", !.vaddr = vaddr,
                               !.tables[4] = GetCurrentPM4L]
      /\ reported' = {} /\ UNCHANGED memory
  BY Zenon DEF Begin
<1>2. /\ GetCurrentPM4L = Frame(Cr3) /\ GetCurrentPM4L \in Word
  BY TablesMapped
<1>3. /\ walk' \in Walks /\ walk'.routine = routine /\ walk'.status = "walking"
      /\ walk'.vaddr = vaddr /\ walk'.level = 4 /\ walk'.tables[4] = Frame(Cr3)
      /\ walk'.slots = [l \in Levels |-> 0]
  <2> DEFINE tables == [NoWalk.tables EXCEPT ![4] = GetCurrentPM4L]
  <2>1. /\ NoWalk \in Walks /\ NoWalk.level = 4 /\ NoWalk.slots = [l \in Levels |-> 0]
        /\ NoWalk.tables \in [Levels -> Word] /\ 4 \in Levels
    BY NoWalkTypes DEF Walks
  <2>2. tables \in [Levels -> Word] /\ tables[4] = Frame(Cr3)
    BY <1>2, <2>1
  <2>3. walk' = [NoWalk EXCEPT !.routine = routine, !.status = "walking", !.vaddr = vaddr,
                               !.tables = tables]
    BY <1>1, <2>1 DEF Walks
  <2> HIDE DEF tables
  <2> QED
    BY <2>1, <2>2, <2>3 DEF Walks
<1>4. /\ \A p, l : PathEntry(p, l)' = PathEntry(p, l)
      /\ \A p, l : PathTable(p, l)' = PathTable(p, l)
      /\ \A p : Translates(p)' <=> Translates(p)
      /\ MemoryInv'
  BY <1>1, TablesRest
<1>5. /\ \A l : l \in 4..4 => l = 4
      /\ \A l : l \notin 4 + 1..4
      /\ \A l : l \notin 4 + 2..4
      /\ \A p : PathTable(p, 4) = Frame(Cr3)
  BY DEF PathTable
<1>6. LookupInv'
  BY <1>3, <1>4, <1>5 DEF LookupInv
<1>7. ASSUME NEW p \in Paths PROVE ~Before(p, walk'.slots, 4)
  <2>1. walk'.slots[4] = 0 /\ 4 \in Levels
    BY <1>3 DEF Levels
  <2>2. Before(p, walk'.slots, 4) => p[4] < 0
    BY <2>1, OrderSpelled
  <2> QED
    BY <2>1, <2>2, SlotsOfPath
<1>8. reported' = Pages({p \in Paths : Before(p, walk.slots, walk.level)})'
  BY <1>1, <1>3, <1>7 DEF Pages
<1>9. ParseInv'
  BY <1>3, <1>4, <1>5, <1>7, <1>8 DEF ParseInv
<1> QED
  BY <1>3, <1>4, <1>6, <1>9

\* A fault leaves the walk in a table that is not mapped, which a walk through the
\* tables of pages of 4 KiB comes to only through an entry with flags.
LEMMA FaultKeeps ==
    ASSUME TablesInv, NEW routine \in {"VirtualToPageBase", "ParseBootLoaderTable"},
           Fault(routine)
    PROVE  MemoryInv' /\ walk' \in Walks /\ LookupInv' /\ ParseInv'
<1>1. /\ walk \in Walks /\ MemoryInv /\ LookupInv /\ ParseInv
      /\ walk.routine = routine /\ walk.status = "walking" /\ ~Mapped(walk.tables[walk.level])
      /\ walk' = [walk EXCEPT !.status = "fault"] /\ UNCHANGED <<memory, reported>>
  BY Zenon DEF TablesInv, Fault, Walking, Table, Level
<1>2. /\ walk' \in Walks /\ walk'.status = "fault" /\ walk'.routine = walk.routine
      /\ walk'.vaddr = walk.vaddr /\ walk'.level = walk.level /\ walk'.tables = walk.tables
  BY <1>1 DEF Walks
<1>3. /\ \A p, l : PathEntry(p, l)' = PathEntry(p, l)
      /\ \A p, l : PathTable(p, l)' = PathTable(p, l)
      /\ \A p, l : Straight(p, l)' <=> Straight(p, l)
      /\ \A p : Flagged(p)' <=> Flagged(p)
      /\ Paged' <=> Paged
      /\ MemoryInv'
  BY <1>1, TablesRest
<1>4. LookupInv'
  BY <1>1, <1>2, <1>3 DEF LookupInv, Mapped
<1>5. ASSUME walk.routine = "ParseBootLoaderTable", Paged
      PROVE  \E p \in Paths : Flagged(p)
  <2> DEFINE L == walk.level
             entry == PathEntry(walk.slots, L + 1)
  <2>1. L \in Levels /\ walk.slots \in Paths /\ L \in L..4
    BY <1>1 DEF Walks, Levels
  <2>2. walk.tables[L] = IF L = 4 THEN Frame(Cr3) ELSE address(entry)
    BY <1>1, <1>5, <2>1, Zenon DEF ParseInv
  <2>3. L # 4
    BY <1>1, <2>2, TablesMapped
  <2>4. L + 1 \in 2..4 /\ L + 1 \in Levels
    BY <2>1, <2>3 DEF Levels
  <2>5. Opened(walk.slots, L + 1)
    BY <1>1, <1>5, Zenon DEF ParseInv, Opened
  <2>6. Frame(entry) \in DOMAIN memory
    BY <1>5, <2>1, <2>4, <2>5, Zenon DEF Paged
  <2>7. entry \in Word
    BY <1>1, <2>1, <2>4, EntriesAreWords
  <2>8. ~Mapped(address(entry)) /\ Mapped(Frame(entry))
    BY <1>1, <2>2, <2>3, <2>6, TablesMapped
  <2> HIDE DEF entry
  <2>9. HighFlags(entry) # {}
    BY <2>7, <2>8, AddressOfEntry
  <2> QED
    BY <2>1, <2>4, <2>5, <2>9 DEF Flagged, entry
<1>6. ParseInv'
  BY <1>2, <1>3, <1>5, Zenon DEF ParseInv
<1> QED
  BY <1>2, <1>3, <1>4, <1>6

\* ParsePM4L and the edits are no walks.
LEMMA OthersKeep ==
    ASSUME TablesInv,
           ParsePM4L \/ \E slot \in Slots, entry \in Entries \union {{}} : SetPM4LE(slot, entry)
    PROVE  MemoryInv' /\ walk' \in Walks /\ LookupInv' /\ ParseInv'
<1>1. ASSUME ParsePM4L PROVE MemoryInv' /\ walk' \in Walks /\ LookupInv' /\ ParseInv'
  <2>1. walk' = [NoWalk EXCEPT !.routine = "ParsePM4L", !.status = "returned"] /\ memory' = memory
    BY <1>1, Zenon DEF ParsePM4L
  <2>2. NoWalk \in Walks
    BY NoWalkTypes
  <2>3. walk' \in Walks /\ walk'.routine = "ParsePM4L"
    BY <2>1, <2>2 DEF Walks
  <2>4. MemoryInv'
    BY <2>1, TablesRest DEF TablesInv
  <2> QED
    BY <2>3, <2>4 DEF LookupInv, ParseInv
<1>2. ASSUME NEW slot \in Slots, NEW entry \in Entries \union {{}}, SetPM4LE(slot, entry)
      PROVE  MemoryInv' /\ walk' \in Walks /\ LookupInv' /\ ParseInv'
  <2>1. walk' = NoWalk /\ memory' = [memory EXCEPT ![GetCurrentPM4L][slot] = entry]
    BY <1>2 DEF SetPM4LE, Write
  <2>2. walk' \in Walks /\ walk'.routine = "none"
    BY <2>1, NoWalkTypes DEF NoWalk
  <2>3. entry \in Word
    BY TablesAssumption DEF Word
  <2>4. GetCurrentPM4L \in DOMAIN memory
    BY TablesMapped DEF TablesInv
  <2>5. memory' \in [DOMAIN memory -> [Slots -> Word]]
    BY <2>1, <2>3, <2>4 DEF TablesInv, MemoryInv
  <2>6. MemoryInv'
    BY <2>5 DEF TablesInv, MemoryInv
  <2> QED
    BY <2>2, <2>6 DEF LookupInv, ParseInv
<1> QED
  BY <1>1, <1>2

\* The walks are where the tables lead them: the invariant of the page tables.
THEOREM TablesInvariant == TablesSpec => []TablesInv
<1>1. TablesInit => TablesInv
  <2> SUFFICES ASSUME TablesInit PROVE TablesInv
    OBVIOUS
  <2>1. memory \in Memories /\ walk = NoWalk
    BY DEF TablesInit
  <2>2. MemoryInv
    BY <2>1, TablesAssumption, Zenon DEF MemoryInv, Frame
  <2>3. walk \in Walks /\ walk.routine = "none"
    BY <2>1, NoWalkTypes DEF NoWalk
  <2> QED
    BY <2>2, <2>3 DEF TablesInv, LookupInv, ParseInv
<1>2. TablesInv /\ [TablesNext]_tableVars => TablesInv'
  <2> SUFFICES ASSUME TablesInv, [TablesNext]_tableVars
               PROVE  MemoryInv' /\ walk' \in Walks /\ LookupInv' /\ ParseInv'
    BY DEF TablesInv
  <2>0. MemoryInv
    BY DEF TablesInv
  <2>1. CASE \E vaddr \in Addresses : VirtualToPageBase(vaddr)
    BY <2>0, <2>1, BeginKeeps DEF VirtualToPageBase
  <2>2. CASE FollowEntry
    BY <2>2, LookupFollows
  <2>3. CASE Fault("VirtualToPageBase")
    BY <2>3, FaultKeeps
  <2>4. CASE ParseBootLoaderTable
    BY <2>0, <2>4, BeginKeeps DEF ParseBootLoaderTable
  <2>5. CASE ParseEntry
    BY <2>5, ParseKeeps
  <2>6. CASE Fault("ParseBootLoaderTable")
    BY <2>6, FaultKeeps
  <2>7. CASE ParsePM4L
    BY <2>7, OthersKeep
  <2>8. CASE \E slot \in Slots : DeletePM4LE(slot)
    BY <2>8, OthersKeep DEF DeletePM4LE
  <2>9. CASE \E slot \in Slots, entry \in Entries : SetPM4LE(slot, entry)
    BY <2>9, OthersKeep
  <2>10. CASE UNCHANGED tableVars
    <3>1. memory' = memory /\ walk' = walk /\ reported' = reported
      BY <2>10 DEF tableVars
    <3>2. MemoryInv' /\ walk' \in Walks
      BY <3>1, TablesRest DEF TablesInv
    <3>3. LookupInv'
      BY <3>1 DEF TablesInv, LookupInv, Straight, Plain, PathEntry, PathTable, Mapped
    <3>4. ParseInv'
      BY <3>1 DEF TablesInv, ParseInv, Paged, Flagged, Opened, PathEntry, Pages, Translates
    <3> QED
      BY <3>2, <3>3, <3>4
  <2> QED
    BY <2>1, <2>2, <2>3, <2>4, <2>5, <2>6, <2>7, <2>8, <2>9, <2>10, Zenon DEF TablesNext
<1> QED
  BY <1>1, <1>2, PTL DEF TablesSpec

-----------------------------------------------------------------------------
(* What the walks answer. *)

\* A page of 4 KiB is reached through tables that exist.
LEMMA TranslatesThroughTables ==
    ASSUME MemoryInv, NEW path, Translates(path), NEW l \in 2..4
    PROVE  /\ Leads(PathEntry(path, l)) /\ Frame(PathEntry(path, l)) \in DOMAIN memory
           /\ Opened(path, l)
<1>1. \A k \in 1..4 : Present(PathEntry(path, k))
  <2>1. \A k \in 1..4 : k = 1 \/ k \in 2..4
    OBVIOUS
  <2> QED
    BY <2>1, Zenon DEF Translates, Leads
<1>2. l - 1 \in 1..3 /\ l - 1 \in 1..4 /\ (l - 1) + 1 = l /\ \A k \in l..4 : k \in 1..4
  OBVIOUS
<1>3. PathEntry(path, l - 1) = EntryIn(memory, Frame(PathEntry(path, l)), path[l - 1])
  BY <1>2, EntryOnWay DEF PathEntry
<1>4. PathEntry(path, l - 1) # {}
  BY <1>1, <1>2 DEF Present
<1>5. Frame(PathEntry(path, l)) \in DOMAIN memory
  BY <1>3, <1>4 DEF EntryIn
<1>6. Opened(path, l)
  BY <1>1, <1>2, Zenon DEF Opened
<1> QED
  BY <1>5, <1>6, Zenon DEF Translates

\* The answer for an address in a page of 4 KiB is the base of the page the processor
\* uses, with the flags above bit 51 of its entry; there is none, but a fault, exactly
\* if an entry on the way to a table has such a flag: what address() makes of that
\* entry is not mapped, and on a way without one the walk is always in a table.
THEOREM LookupRight == TablesSpec => []WalkFindsPage
<1>1. TablesInv => WalkFindsPage
  <2> DEFINE path == PathOf(walk.vaddr)
             last == PathEntry(path, 1)
  <2> SUFFICES ASSUME TablesInv, Answered("VirtualToPageBase"), Translates(path)
               PROVE  IF Flagged(path) THEN walk.status = "fault"
                      ELSE /\ walk.status = "returned"
                           /\ reported = {Frame(last) \union HighFlags(last)}
    BY DEF WalkFindsPage
  <2>1. /\ MemoryInv /\ LookupInv /\ walk \in Walks /\ walk.routine = "VirtualToPageBase"
        /\ walk.status \in {"returned", "fault"}
    BY DEF TablesInv, Answered
  <2>2. walk.vaddr \in Addresses /\ path \in Paths /\ walk.level \in Levels
    BY <2>1, PathOfAddress DEF LookupInv, Walks
  <2> HIDE DEF path, last
  <2>3. \A l \in 2..4 : /\ Leads(PathEntry(path, l)) /\ Frame(PathEntry(path, l)) \in DOMAIN memory
                        /\ Opened(path, l)
    BY <2>1, TranslatesThroughTables
  <2>4. \A l \in 2..4 : HighFlags(PathEntry(path, l)) = {} => Plain(PathEntry(path, l))
    BY <2>3 DEF Plain
  <2>5. CASE ~Flagged(path)
    <3>1. \A l \in 2..4 : Plain(PathEntry(path, l))
      BY <2>3, <2>4, <2>5 DEF Flagged
    <3>2. \A l \in Levels : Straight(path, l)
      BY <3>1 DEF Straight, Levels
    <3>3. walk.status = "returned"
      <4>1. walk.level \in walk.level..4
        BY <2>2 DEF Levels
      <4>2. walk.tables[walk.level] = PathTable(path, walk.level)
        BY <2>1, <2>2, <3>2, <4>1, Zenon DEF LookupInv, path
      <4>3. Mapped(walk.tables[walk.level])
        BY <2>1, <2>2, <3>2, <4>2, StraightTable, TablesMapped
      <4> QED
        BY <2>1, <4>3, Zenon DEF LookupInv
    <3>4. 1 \in Levels
      BY DEF Levels
    <3>5. reported = {address(last)}
      BY <2>1, <3>2, <3>3, <3>4, Zenon DEF LookupInv, path, last
    <3>6. last \in Word
      BY <2>1, <2>2, <3>4, EntriesAreWords DEF last
    <3> QED
      BY <2>5, <3>3, <3>5, <3>6, AddressOfEntry
  <2>6. CASE Flagged(path)
    <3> SUFFICES ASSUME walk.status = "returned" PROVE FALSE
      BY <2>1, <2>6
    <3>1. walk.level = 1 /\ Mapped(walk.tables[1])
      BY <2>1, Zenon DEF LookupInv
    <3>2. \A l \in 2..4 : Mapped(walk.tables[l])
      <4>1. \A l \in 2..4 : l \in walk.level + 1..4
        BY <3>1
      <4> QED
        BY <2>1, <4>1, Zenon DEF LookupInv
    \* The first entry with a flag on the way down.
    <3>3. PICK l \in 2..4 : /\ HighFlags(PathEntry(path, l)) # {}
                           /\ \A k \in l + 1..4 : HighFlags(PathEntry(path, k)) = {}
      <4>1. PICK l \in 2..4 : HighFlags(PathEntry(path, l)) # {}
        BY <2>6 DEF Flagged
      <4>2. l = 2 \/ l = 3 \/ l = 4
        OBVIOUS
      <4>3. /\ \A k \in 4 + 1..4 : FALSE
            /\ \A k \in 3 + 1..4 : k = 4
            /\ \A k \in 2 + 1..4 : k = 3 \/ k = 4
            /\ 2 \in 2..4 /\ 3 \in 2..4 /\ 4 \in 2..4
        OBVIOUS
      <4>4. CASE HighFlags(PathEntry(path, 4)) # {}
        BY <4>3, <4>4
      <4>5. CASE HighFlags(PathEntry(path, 4)) = {} /\ HighFlags(PathEntry(path, 3)) # {}
        BY <4>3, <4>5
      <4>6. CASE HighFlags(PathEntry(path, 4)) = {} /\ HighFlags(PathEntry(path, 3)) = {}
        BY <4>1, <4>2, <4>3, <4>6
      <4> QED
        BY <4>4, <4>5, <4>6
    <3>4. Straight(path, l)
      <4>1. \A k \in l + 1..4 : k \in 2..4
        OBVIOUS
      <4> QED
        BY <2>4, <3>3, <4>1 DEF Straight
    <3>5. walk.tables[l - 1] = address(PathEntry(path, l))
      <4>1. l \in walk.level + 1..4
        BY <3>1
      <4> QED
        BY <2>1, <3>4, <4>1, Zenon DEF LookupInv, path
    <3>6. PathEntry(path, l) \in Word
      BY <2>1, <2>2, EntriesAreWords DEF Levels
    <3>7. ~Mapped(walk.tables[l - 1])
      BY <3>3, <3>5, <3>6, AddressOfEntry
    <3>8. l - 1 = 1 \/ l - 1 \in 2..4
      OBVIOUS
    <3> QED
      BY <3>1, <3>2, <3>7, <3>8
  <2> QED
    BY <2>5, <2>6
<1> QED
  BY <1>1, TablesInvariant, PTL

\* A walk that comes to an empty entry never returns: the first page is not mapped.
THEOREM EmptyEntriesFault == TablesSpec => []EmptyEntryFaults
<1>1. TablesInv => EmptyEntryFaults
  <2> DEFINE path == PathOf(walk.vaddr)
  <2> SUFFICES ASSUME TablesInv, walk.routine = "VirtualToPageBase", walk.status = "returned",
                      NEW l \in 2..4, PathEntry(path, l) = {},
                      \A k \in l + 1..4 : Plain(PathEntry(path, k))
               PROVE  FALSE
    BY DEF EmptyEntryFaults
  <2>1. /\ LookupInv /\ walk.level = 1 /\ Mapped(walk.tables[1])
    BY Zenon DEF TablesInv, LookupInv
  <2>2. l \in walk.level + 1..4
    BY <2>1
  <2>3. walk.tables[l - 1] = {}
    <3>1. walk.tables[l - 1] = address({})
      BY <2>1, <2>2, Zenon DEF LookupInv, Straight
    <3>2. {} \in Word
      BY DEF Word
    <3> QED
      BY <3>1, <3>2, AddressOfEntry
  <2>4. CASE l = 2
    BY <2>1, <2>3, <2>4 DEF Mapped
  <2>5. CASE l # 2
    <3>1. l - 1 \in walk.level + 1..4
      BY <2>1, <2>5
    <3>2. Mapped(walk.tables[l - 1])
      BY <2>1, <3>1, Zenon DEF LookupInv
    <3> QED
      BY <2>3, <3>2 DEF Mapped
  <2> QED
    BY <2>4, <2>5
<1> QED
  BY <1>1, TablesInvariant, PTL

\* Where all pages are of 4 KiB the four loops come by every page once for each way
\* to it and write no other; they fault exactly if an entry they go down through has
\* a flag above bit 51.
THEOREM ParseRight == TablesSpec => []ParseFindsPages
<1>1. TablesInv => ParseFindsPages
  <2> DEFINE paths == {p \in Paths : Translates(p)}
  <2> SUFFICES ASSUME TablesInv, Answered("ParseBootLoaderTable"), Paged
               PROVE  IF \E path \in Paths : Flagged(path) THEN walk.status = "fault"
                      ELSE /\ walk.status = "returned"
                           /\ reported = {<<path, Frame(PathEntry(path, 1))
                                                    \union HighFlags(PathEntry(path, 1))>> :
                                             path \in paths}
    BY DEF ParseFindsPages
  <2>1. /\ walk.status = "returned" => (\A p \in Paths : ~Flagged(p)) /\ reported = Pages(Paths)
        /\ walk.status = "fault" => \E p \in Paths : Flagged(p)
        /\ walk.status \in {"returned", "fault"} /\ MemoryInv
    BY DEF TablesInv, Answered, ParseInv
  <2>2. ASSUME NEW path \in Paths
        PROVE  address(PathEntry(path, 1)) = Frame(PathEntry(path, 1))
                                               \union HighFlags(PathEntry(path, 1))
    BY <2>1, EntriesAreWords, AddressOfEntry DEF Levels
  <2>3. Pages(Paths) = {<<path, Frame(PathEntry(path, 1)) \union HighFlags(PathEntry(path, 1))>> :
                          path \in paths}
    BY <2>2 DEF Pages
  <2> QED
    BY <2>1, <2>3
<1> QED
  BY <1>1, TablesInvariant, PTL

\* What an edit of the top table does to the entries of a path.
LEMMA EditEntries ==
    ASSUME MemoryInv, NoWayBack, NEW slot \in Slots, NEW entry, NEW path \in Paths,
           SetPM4LE(slot, entry)
    PROVE  /\ path[4] # slot => \A l \in Levels : PathEntry(path, l)' = PathEntry(path, l)
           /\ path[4] = slot => PathEntry(path, 4)' = entry
<1> DEFINE top == Frame(Cr3)
           edited == [memory EXCEPT ![top][slot] = entry]
<1>1. memory' = edited
  BY TablesMapped DEF SetPM4LE, Write
<1>2. /\ top \in DOMAIN memory /\ DOMAIN edited = DOMAIN memory
      /\ memory[top] \in [Slots -> Word] /\ path[4] \in Slots
      /\ path \in [Levels -> Slots]
  BY DEF MemoryInv, Paths, Levels
<1>3. /\ edited[top][slot] = entry
      /\ \A s \in Slots : s # slot => edited[top][s] = memory[top][s]
      /\ \A table \in DOMAIN memory : table # top => edited[table] = memory[table]
  BY <1>2
<1>4. \A l : PathEntry(path, l)' = EntryOn(edited, path, l)
  BY <1>1, Zenon DEF PathEntry
<1> HIDE DEF edited
<1>5. ASSUME path[4] = slot PROVE PathEntry(path, 4)' = entry
  <2>1. EntryOn(edited, path, 4) = EntryIn(edited, top, path[4])
    BY EntryOnWay, Zenon
  <2> QED
    BY <1>2, <1>3, <1>4, <1>5, <2>1 DEF EntryIn
<1>6. ASSUME path[4] # slot
      PROVE  \A l \in Levels : PathEntry(path, l)' = PathEntry(path, l)
  <2>1. EntryOn(edited, path, 4) = EntryOn(memory, path, 4)
    <3>1. /\ EntryOn(edited, path, 4) = EntryIn(edited, top, path[4])
          /\ EntryOn(memory, path, 4) = EntryIn(memory, top, path[4])
      BY EntryOnWay, Zenon
    <3> QED
      BY <1>2, <1>3, <1>6, <3>1 DEF EntryIn
  <2>2. ASSUME NEW l \in 1..3, EntryOn(edited, path, l + 1) = EntryOn(memory, path, l + 1)
        PROVE  EntryOn(edited, path, l) = EntryOn(memory, path, l)
    <3> DEFINE table == Frame(EntryOn(memory, path, l + 1))
    <3>1. PathTable(path, l) # top
      BY Zenon DEF NoWayBack
    <3>2. PathTable(path, l) = table
      BY DEF PathTable, PathEntry
    <3>3. /\ EntryOn(edited, path, l) = EntryIn(edited, table, path[l])
          /\ EntryOn(memory, path, l) = EntryIn(memory, table, path[l])
      BY <2>2, EntryOnWay, Zenon
    <3> HIDE DEF table, top
    <3> QED
      BY <1>2, <1>3, <3>1, <3>2, <3>3 DEF EntryIn
  <2>3. EntryOn(edited, path, 3) = EntryOn(memory, path, 3)
    BY <2>1, <2>2
  <2>4. EntryOn(edited, path, 2) = EntryOn(memory, path, 2)
    BY <2>2, <2>3
  <2>5. EntryOn(edited, path, 1) = EntryOn(memory, path, 1)
    BY <2>2, <2>4
  <2>6. \A l \in Levels : EntryOn(edited, path, l) = EntryOn(memory, path, l)
    BY <2>1, <2>3, <2>4, <2>5 DEF Levels
  <2> QED
    BY <1>4, <2>6 DEF PathEntry
<1> QED
  BY <1>5, <1>6

\* An edit of a slot of the top table changes what is translated through that slot,
\* and nothing else, as long as no entry leads back to the top table.
THEOREM EditsLocal == TablesSpec => EditsAreLocal
<1> DEFINE Elsewhere(slot) == \A path \in Paths : path[4] # slot =>
                /\ Translates(path)' = Translates(path)
                /\ PathEntry(path, 1)' = PathEntry(path, 1)
           Local ==
             NoWayBack => \A slot \in Slots :
                /\ DeletePM4LE(slot) =>
                    Elsewhere(slot) /\ \A path \in Paths : path[4] = slot => ~Translates(path)'
                /\ \A entry \in Entries : SetPM4LE(slot, entry) =>
                    Elsewhere(slot)
                        /\ \A path \in Paths : path[4] = slot => PathEntry(path, 4)' = entry
<1>1. ASSUME TablesInv, NoWayBack, NEW slot \in Slots, NEW entry, SetPM4LE(slot, entry)
      PROVE  /\ Elsewhere(slot)
             /\ \A path \in Paths : path[4] = slot => PathEntry(path, 4)' = entry
  <2>1. MemoryInv
    BY <1>1 DEF TablesInv
  <2>2. ASSUME NEW path \in Paths, path[4] # slot
        PROVE  Translates(path)' = Translates(path) /\ PathEntry(path, 1)' = PathEntry(path, 1)
    <3>1. \A l \in Levels : PathEntry(path, l)' = PathEntry(path, l)
      BY <1>1, <2>1, <2>2, EditEntries
    <3>2. /\ PathEntry(path, 1)' = PathEntry(path, 1)
          /\ \A l \in 2..4 : PathEntry(path, l)' = PathEntry(path, l)
      BY <3>1 DEF Levels
    <3> QED
      BY <3>2 DEF Translates
  <2>3. \A path \in Paths : path[4] = slot => PathEntry(path, 4)' = entry
    BY <1>1, <2>1, EditEntries
  <2> QED
    BY <2>2, <2>3
<1>2. ASSUME TablesInv, NoWayBack, NEW slot \in Slots, DeletePM4LE(slot),
             NEW path \in Paths, path[4] = slot
      PROVE  ~Translates(path)'
  <2>1. PathEntry(path, 4)' = {}
    BY <1>1, <1>2 DEF DeletePM4LE
  <2>2. ~Leads(PathEntry(path, 4))'
    BY <2>1 DEF Leads, Present
  <2>3. 4 \in 2..4
    OBVIOUS
  <2> QED
    BY <2>2, <2>3 DEF Translates
<1>3. TablesInv /\ [TablesNext]_tableVars => [Local]_tableVars
  <2> SUFFICES ASSUME TablesInv, NoWayBack, NEW slot \in Slots
               PROVE  /\ DeletePM4LE(slot) =>
                            Elsewhere(slot) /\ \A path \in Paths : path[4] = slot => ~Translates(path)'
                      /\ \A entry \in Entries : SetPM4LE(slot, entry) =>
                            Elsewhere(slot)
                                /\ \A path \in Paths : path[4] = slot => PathEntry(path, 4)' = entry
    OBVIOUS
  <2>1. ASSUME DeletePM4LE(slot)
        PROVE  Elsewhere(slot) /\ \A path \in Paths : path[4] = slot => ~Translates(path)'
    <3>1. SetPM4LE(slot, {})
      BY <2>1 DEF DeletePM4LE
    <3>2. Elsewhere(slot)
      BY <1>1, <3>1
    <3> QED
      BY <1>2, <2>1, <3>2
  <2> QED
    BY <1>1, <2>1
<1>4. EditsAreLocal <=> [][Local]_tableVars
  BY DEF EditsAreLocal
<1> QED
  BY <1>3, <1>4, TablesInvariant, PTL DEF TablesSpec

-----------------------------------------------------------------------------
(* Memory and string routines: what each loop has done after i iterations, *)
(* and so what it has done when it ends.                                   *)

CallType ==
    [routine : Routines, dest : Locations, src : Locations, n : 0..Bytes, i : Int,
     c : Int, done : BOOLEAN, result : Int]

TypeInv ==
    /\ bytes \in [Locations -> Byte] /\ before \in [Locations -> Byte]
    /\ call \in CallType
    /\ call.i \in 0..call.n
    /\ call.dest + call.n <= Bytes /\ call.src + call.n <= Bytes

\* The part of the destination that is done: from the bottom, or from the top.
Up == call.dest .. call.dest + call.i - 1
Down == call.dest + call.i .. call.dest + call.n - 1

Copied(part) ==
    \A a \in Locations :
        bytes[a] = IF a \in part THEN before[a - call.dest + call.src] ELSE before[a]

CopyInv ==
    /\ call.routine = "memcpy" /\ Defined("memcpy") => Copied(Up)
    /\ call.routine = "memmove" /\ Upwards => Copied(Up)
    /\ call.routine = "memmove" /\ ~Upwards => Copied(Down)

SetInv ==
    call.routine = "memset" =>
        \A a \in Locations : bytes[a] = IF a \in Up THEN call.c % ByteValues ELSE before[a]

CompareInv ==
    call.routine = "memcmp" =>
        /\ \A j \in 0..call.i - 1 : bytes[call.dest + j] = bytes[call.src + j]
        /\ ~call.done => call.result = 0
        /\ call.done => ComparesMandated

\* A loop is left at its end.
DoneInv ==
    call.done =>
        /\ call.routine \in {"memcpy", "memset"} => call.i = call.n
        /\ call.routine = "memmove" /\ Upwards => call.i = call.n
        /\ call.routine = "memmove" /\ call.src < call.dest => call.i = 0

StringInv == TypeInv /\ CopyInv /\ SetInv /\ CompareInv /\ DoneInv

-----------------------------------------------------------------------------

LEMMA InitInv == StringInit => StringInv
<1> SUFFICES ASSUME StringInit PROVE StringInv
    OBVIOUS
<1> USE StringAssumption
<1>1. TypeInv
    BY DEF StringInit, TypeInv, CallType, Idle, Routines, Locations, Byte
<1>2. CopyInv /\ SetInv /\ CompareInv /\ DoneInv
    BY DEF StringInit, CopyInv, SetInv, CompareInv, DoneInv, Idle
<1> QED
    BY <1>1, <1>2 DEF StringInv

LEMMA RemainderIsByte == \A c \in Int : c % ByteValues \in Byte
    BY StringAssumption DEF Byte

\* The places the loops read and write are in memory.
LEMMA PlacesInMemory ==
    ASSUME TypeInv, NEW j \in 0..call.n - 1
    PROVE  call.dest + j \in Locations /\ call.src + j \in Locations
    BY StringAssumption, SMTT(60) DEF TypeInv, CallType, Locations

\* One byte written, one iteration on.
LEMMA StepTypes ==
    ASSUME TypeInv, NEW place \in Locations, NEW byte \in Byte, NEW i \in 0..call.n,
           bytes' = [bytes EXCEPT ![place] = byte], before' = before,
           call' = [call EXCEPT !.i = i]
    PROVE  TypeInv' /\ bytes'[place] = byte
<1>1. bytes' \in [Locations -> Byte] /\ bytes'[place] = byte
    BY DEF TypeInv
<1>2. call \in CallType /\ i \in Int
    BY DEF TypeInv, CallType
<1>3. call' \in CallType
    BY <1>2 DEF CallType
<1>4. call'.i = i /\ call'.n = call.n /\ call'.dest = call.dest /\ call'.src = call.src
    BY <1>2 DEF CallType
<1> QED
    BY <1>1, <1>3, <1>4 DEF TypeInv

\* A call begins with nothing done: all of memory is as it was before.
LEMMA CallKeeps ==
    ASSUME StringInv,
           NEW dest \in Locations, NEW src \in Locations, NEW n \in 0..Bytes, NEW c \in Int,
           NEW routine \in Routines \ {"none"}, Call(routine, dest, src, n, c)
    PROVE  StringInv'
<1> USE StringAssumption
<1>1. TypeInv'
    BY DEF StringInv, TypeInv, CallType, Call, Start, MovesUp, Routines, Locations
<1>2. bytes' = before' /\ call'.dest = dest /\ call'.src = src /\ call'.n = n
    BY DEF Call
<1>3. call'.routine \in {"memcpy", "memset", "memcmp"} => call'.i = 0 /\ ~call'.done
    BY DEF Call, Start
<1>4. call'.routine = "memmove" => call'.i = (IF src > dest THEN 0 ELSE n)
    BY DEF Call, Start, MovesUp
<1>5. call'.done => call'.routine = "memmove" /\ src = dest
    BY DEF Call
<1>6. CopyInv'
    BY <1>1, <1>2, <1>3, <1>4 DEF CopyInv, TypeInv, Copied, Up, Down, Upwards, MovesUp, Locations
<1>7. SetInv' /\ CompareInv'
    BY <1>1, <1>2, <1>3, <1>5 DEF SetInv, CompareInv, TypeInv, Up, Locations, Call
<1>8. DoneInv'
    BY <1>1, <1>2, <1>3, <1>4, <1>5 DEF DoneInv, Upwards, MovesUp, Locations
<1> QED
    BY <1>1, <1>6, <1>7, <1>8 DEF StringInv

\* One byte further up.  The byte read is none of those written so far, because the
\* source lies above or the ranges do not meet.
LEMMA UpKeeps ==
    ASSUME TypeInv, call.i < call.n, Copied(Up),
           call.src \notin call.dest + 1 - call.n .. call.dest - 1,
           bytes' = [bytes EXCEPT ![call.dest + call.i] = bytes[call.src + call.i]],
           call' = [call EXCEPT !.i = @ + 1], before' = before
    PROVE  TypeInv' /\ Copied(Up)'
<1> USE StringAssumption
<1>1. TypeInv' /\ bytes'[call.dest + call.i] = bytes[call.src + call.i]
  <2>1. call.i \in 0..call.n - 1 /\ call.i + 1 \in 0..call.n
      BY SMTT(60) DEF TypeInv, CallType, Locations
  <2>2. call.dest + call.i \in Locations /\ bytes[call.src + call.i] \in Byte
      BY <2>1, PlacesInMemory DEF TypeInv
  <2> QED
      BY <2>1, <2>2, StepTypes
<1>2. call.src + call.i \notin Up
  <2> HIDE StringAssumption
  <2>1. /\ call.dest \in Int /\ call.src \in Int /\ call.i \in Nat /\ call.n \in Nat
        /\ call.i < call.n
      BY StringAssumption DEF TypeInv, CallType, Locations
  <2> QED
      BY <2>1, SMTT(60) DEF Up
<1>3. bytes[call.src + call.i] = before[call.src + call.i]
    BY <1>2, SMTT(60) DEF TypeInv, CallType, Locations, Copied
<1>4. call'.dest = call.dest /\ call'.src = call.src /\ call'.i = call.i + 1
    BY DEF TypeInv, CallType
<1>5. Copied(Up)'
  <2> SUFFICES ASSUME NEW a \in Locations
               PROVE  bytes'[a] = IF a \in Up' THEN before[a - call.dest + call.src] ELSE before[a]
      BY <1>4 DEF Copied
  <2> HIDE StringAssumption
  <2>0. a \in Int /\ call.dest \in Int /\ call.src \in Int /\ call.i \in Nat
      BY StringAssumption DEF TypeInv, CallType, Locations
  <2>1. CASE a = call.dest + call.i
    <3>1. a \in Up' /\ a - call.dest + call.src = call.src + call.i
        BY <2>0, <2>1, <1>4, SMTT(60) DEF Up
    <3> QED
        BY <2>1, <3>1, <1>1, <1>3
  <2>2. CASE a # call.dest + call.i
    <3>1. bytes'[a] = bytes[a]
        BY <2>2 DEF TypeInv
    <3>2. a \in Up' <=> a \in Up
        BY <2>0, <2>2, <1>4 DEF Up
    <3> QED
        BY <3>1, <3>2 DEF Copied
  <2> QED
      BY <2>1, <2>2
<1> QED
    BY <1>1, <1>5

\* One byte further down, with the source at or below the destination.
LEMMA DownKeeps ==
    ASSUME TypeInv, call.i > 0, Copied(Down), call.src <= call.dest,
           bytes' = [bytes EXCEPT ![call.dest + call.i - 1] = bytes[call.src + call.i - 1]],
           call' = [call EXCEPT !.i = @ - 1], before' = before
    PROVE  TypeInv' /\ Copied(Down)'
<1> USE StringAssumption
<1>1. TypeInv' /\ bytes'[call.dest + call.i - 1] = bytes[call.src + call.i - 1]
  <2>1. call.i - 1 \in 0..call.n - 1 /\ call.i - 1 \in 0..call.n
      BY SMTT(60) DEF TypeInv, CallType, Locations
  <2>2. call.dest + (call.i - 1) \in Locations /\ bytes[call.src + (call.i - 1)] \in Byte
      BY <2>1, PlacesInMemory DEF TypeInv
  <2>3. /\ call.dest + call.i - 1 = call.dest + (call.i - 1)
        /\ call.src + call.i - 1 = call.src + (call.i - 1)
      BY DEF TypeInv, CallType, Locations
  <2> QED
      BY <2>1, <2>2, <2>3, StepTypes
<1>2. call.src + call.i - 1 \notin Down
  <2> HIDE StringAssumption
  <2>1. call.dest \in Int /\ call.src \in Int /\ call.i \in Int
      BY StringAssumption DEF TypeInv, CallType, Locations
  <2> QED
      BY <2>1 DEF Down
<1>3. bytes[call.src + call.i - 1] = before[call.src + call.i - 1]
    BY <1>2 DEF TypeInv, CallType, Locations, Copied
<1>4. /\ call'.dest = call.dest /\ call'.src = call.src /\ call'.n = call.n
      /\ call'.i = call.i - 1
    BY DEF TypeInv, CallType
<1>5. Copied(Down)'
  <2> SUFFICES ASSUME NEW a \in Locations
               PROVE  bytes'[a] = IF a \in Down' THEN before[a - call.dest + call.src] ELSE before[a]
      BY <1>4 DEF Copied
  <2> HIDE StringAssumption
  <2>0. /\ a \in Int /\ call.dest \in Int /\ call.src \in Int
        /\ call.i \in Nat \ {0} /\ call.n \in Nat /\ call.i <= call.n
      BY StringAssumption DEF TypeInv, CallType, Locations
  <2>1. CASE a = call.dest + call.i - 1
    <3>1. a \in Down' /\ a - call.dest + call.src = call.src + call.i - 1
      <4>1. Down' = call.dest + (call.i - 1) .. call.dest + call.n - 1
          BY <1>4 DEF Down
      <4> QED
          BY ONLY <2>0, <2>1, <4>1, SMTT(60)
    <3> QED
        BY ONLY <2>1, <3>1, <1>1, <1>3
  <2>2. CASE a # call.dest + call.i - 1
    <3>1. bytes'[a] = bytes[a]
        BY <2>2 DEF TypeInv
    <3>2. a \in Down' <=> a \in Down
      <4>1. Down' = call.dest + (call.i - 1) .. call.dest + call.n - 1
          BY <1>4 DEF Down
      <4> QED
          BY <2>0, <2>2, <4>1 DEF Down
    <3> QED
        BY <3>1, <3>2 DEF Copied
  <2> QED
      BY <2>1, <2>2
<1> QED
    BY <1>1, <1>5

LEMMA memcpyKeeps == ASSUME StringInv, memcpy PROVE StringInv'
<1> USE StringAssumption DEF StringInv, memcpy, Running
<1>1. call.routine = "memcpy" /\ call'.routine = "memcpy" /\ ~call'.done
    BY DEF TypeInv, CallType
<1>2. Defined("memcpy") => TypeInv' /\ Copied(Up)'
    BY <1>1, UpKeeps DEF Defined, CopyInv
<1>5. TypeInv'
  <2>1. call.i \in 0..call.n - 1 /\ call.i + 1 \in 0..call.n
      BY SMTT(60) DEF TypeInv, CallType, Locations
  <2>2. call.dest + call.i \in Locations /\ bytes[call.src + call.i] \in Byte
      BY <2>1, PlacesInMemory DEF TypeInv
  <2> QED
      BY <2>1, <2>2, StepTypes
<1>3. Defined("memcpy")' => Defined("memcpy")
    BY DEF Defined, TypeInv, CallType
<1>4. CopyInv'
    BY <1>1, <1>2, <1>3 DEF CopyInv
<1> QED
    BY <1>1, <1>5, <1>4 DEF SetInv, CompareInv, DoneInv

LEMMA memsetKeeps == ASSUME StringInv, memset PROVE StringInv'
<1> USE StringAssumption DEF StringInv, memset, Running
<1>1. /\ call.routine = "memset" /\ call'.routine = "memset" /\ ~call'.done
      /\ call'.dest = call.dest /\ call'.c = call.c /\ call'.i = call.i + 1
    BY DEF TypeInv, CallType
<1>2. TypeInv' /\ bytes'[call.dest + call.i] = call.c % ByteValues
  <2>1. call.i \in 0..call.n - 1 /\ call.i + 1 \in 0..call.n /\ call.c \in Int
      BY SMTT(60) DEF TypeInv, CallType, Locations
  <2>2. call.dest + call.i \in Locations /\ call.c % ByteValues \in Byte
      BY <2>1, PlacesInMemory, RemainderIsByte
  <2> QED
      BY <2>1, <2>2, StepTypes
<1>3. SetInv'
  <2> SUFFICES ASSUME NEW a \in Locations
               PROVE  bytes'[a] = IF a \in Up' THEN call.c % ByteValues ELSE before[a]
      BY <1>1 DEF SetInv
  <2>1. CASE a = call.dest + call.i
    <3>1. call.dest \in Int /\ call.i \in Nat
        BY DEF TypeInv, CallType, Locations
    <3>2. a \in Up'
        BY <2>1, <3>1, <1>1 DEF Up
    <3> QED
        BY <2>1, <3>2, <1>2
  <2>2. CASE a # call.dest + call.i
    <3>1. bytes'[a] = bytes[a]
        BY <2>2 DEF TypeInv
    <3>2. a \in Up' <=> a \in Up
      <4>1. a \in Int /\ call.dest \in Int /\ call.i \in Nat
          BY DEF TypeInv, CallType, Locations
      <4>2. Up' = call.dest .. call.dest + (call.i + 1) - 1
          BY <1>1 DEF Up
      <4> QED
          BY <2>2, <4>1, <4>2 DEF Up
    <3> QED
        BY <3>1, <3>2, <1>1 DEF SetInv
  <2> QED
      BY <2>1, <2>2
<1> QED
    BY <1>1, <1>2, <1>3 DEF CopyInv, CompareInv, DoneInv

LEMMA memmoveUpKeeps == ASSUME StringInv, memmove_up PROVE StringInv'
<1> USE StringAssumption DEF StringInv, memmove_up, Running
<1>1. /\ call.routine = "memmove" /\ call'.routine = "memmove" /\ ~call'.done
      /\ Upwards' /\ call.src > call.dest
    BY DEF TypeInv, CallType, Upwards, MovesUp
<1>2. call.src \notin call.dest + 1 - call.n .. call.dest - 1
    BY <1>1 DEF TypeInv, CallType, Locations
<1>3. TypeInv' /\ Copied(Up)'
    BY <1>1, <1>2, UpKeeps DEF CopyInv
<1> QED
    BY <1>1, <1>3 DEF CopyInv, SetInv, CompareInv, DoneInv

LEMMA memmoveDownKeeps == ASSUME StringInv, memmove_down PROVE StringInv'
<1> USE StringAssumption DEF StringInv, memmove_down, Running
<1>1. /\ call.routine = "memmove" /\ call'.routine = "memmove" /\ ~call'.done
      /\ ~Upwards' /\ call.src <= call.dest
    BY DEF TypeInv, CallType, Upwards, MovesUp, Locations
<1>2. TypeInv' /\ Copied(Down)'
    BY <1>1, DownKeeps DEF CopyInv
<1> QED
    BY <1>1, <1>2 DEF CopyInv, SetInv, CompareInv, DoneInv

LEMMA memcmpKeeps == ASSUME StringInv, memcmp PROVE StringInv'
<1> USE StringAssumption DEF StringInv, memcmp, Running
<1> DEFINE p1 == bytes[call.dest + call.i]
           p2 == bytes[call.src + call.i]
<1>1. /\ call.routine = "memcmp" /\ call'.routine = "memcmp"
      /\ call'.dest = call.dest /\ call'.src = call.src /\ call'.n = call.n
    BY DEF TypeInv, CallType
<1>2. TypeInv'
  <2>1. call.i + 1 \in 0..call.n /\ call.i + 1 \in Int /\ call \in CallType
      BY SMTT(60) DEF TypeInv, CallType, Locations
  <2>2. call' \in CallType
    <3>1. Order(p1, p2) \in Int
        BY DEF Order
    <3> HIDE DEF p1, p2
    <3>2. CASE call' = [call EXCEPT !.done = TRUE, !.result = Order(p1, p2)]
        BY <2>1, <3>1, <3>2 DEF CallType
    <3>3. CASE call' = [call EXCEPT !.i = @ + 1]
        BY <2>1, <3>3 DEF CallType
    <3> QED
        BY <3>2, <3>3 DEF p1, p2
  <2>3. call'.i \in {call.i, call.i + 1}
      BY <2>1 DEF CallType
  <2> QED
      BY <1>1, <2>1, <2>2, <2>3 DEF TypeInv
<1>3. p1 \in Int /\ p2 \in Int
  <2>1. call.i \in 0..call.n - 1
      BY DEF TypeInv, CallType, Locations
  <2>2. p1 \in Byte /\ p2 \in Byte
      BY <2>1, PlacesInMemory DEF TypeInv
  <2> QED
      BY <2>2 DEF Byte
<1>4. CASE p1 # p2
  <2>1. call'.i = call.i /\ call'.done /\ call'.result = Order(p1, p2)
      BY <1>4 DEF TypeInv, CallType
  <2>2. ComparesMandated'
    <3>1. call.i \in 0..call.n - 1
        BY DEF TypeInv, CallType
    <3>2. call'.result # 0 /\ (call'.result < 0 <=> p1 < p2)
        BY <2>1, <1>3 DEF Order
    <3> QED
        BY <1>1, <1>4, <2>1, <3>1, <3>2 DEF ComparesMandated, CompareInv
  <2> QED
      BY <1>1, <1>2, <2>1, <2>2 DEF CopyInv, SetInv, CompareInv, DoneInv
<1>5. CASE p1 = p2
  <2>1. call'.i = call.i + 1 /\ ~call'.done /\ call'.result = call.result
      BY <1>5 DEF TypeInv, CallType
  <2>2. \A j \in 0..call'.i - 1 : bytes[call.dest + j] = bytes[call.src + j]
      BY <1>1, <1>5, <2>1 DEF TypeInv, CallType, CompareInv
  <2> QED
      BY <1>1, <1>2, <2>1, <2>2 DEF CopyInv, SetInv, CompareInv, DoneInv
<1> QED
    BY <1>4, <1>5

\* A loop at its end is left; of memcmp, nothing differed.
LEMMA ReturnKeeps ==
    ASSUME StringInv, \/ memmove_return
                      \/ \E routine \in {"memcpy", "memset", "memcmp"} : Return(routine)
    PROVE  StringInv'
<1> USE StringAssumption DEF StringInv, Return, memmove_return, Running
<1>1. /\ bytes' = bytes /\ before' = before /\ ~call.done
      /\ call' = [call EXCEPT !.done = TRUE]
    OBVIOUS
<1>2. /\ call'.routine = call.routine /\ call'.dest = call.dest /\ call'.src = call.src
      /\ call'.n = call.n /\ call'.i = call.i /\ call'.c = call.c /\ call'.done
      /\ call'.result = call.result
    BY <1>1 DEF TypeInv, CallType
<1>3. TypeInv'
    BY <1>1 DEF TypeInv, CallType
<1>4. CopyInv' /\ SetInv'
    BY <1>1, <1>2 DEF CopyInv, SetInv, Copied, Up, Down, Upwards, Defined
<1>5. DoneInv'
  <2>1. call.dest \in Int /\ call.src \in Int
      BY DEF TypeInv, CallType, Locations
  <2> QED
      BY <2>1, <1>2 DEF DoneInv, Upwards, MovesUp
<1>6. CompareInv'
  <2>1. CASE call.routine = "memcmp"
    <3>1. call.i = call.n /\ call.result = 0
        BY <2>1, <1>1 DEF CompareInv
    <3>2. ComparesMandated'
        BY <2>1, <3>1, <1>1, <1>2 DEF ComparesMandated, CompareInv
    <3> QED
        BY <2>1, <3>1, <3>2, <1>1, <1>2 DEF CompareInv
  <2>2. CASE call.routine # "memcmp"
      BY <2>2, <1>2 DEF CompareInv
  <2> QED
      BY <2>1, <2>2
<1> QED
    BY <1>3, <1>4, <1>5, <1>6

LEMMA StutterKeeps == ASSUME StringInv, UNCHANGED stringVars PROVE StringInv'
    BY DEF StringInv, stringVars, TypeInv, CopyInv, SetInv, CompareInv, DoneInv, Copied, Up,
           Down, Upwards, Defined, ComparesMandated

\* After i iterations each routine of string.h has done the part of its work that it
\* has passed, and no more, on memory of every size.
THEOREM LoopInvariant == StringSpec => []StringInv
<1>1. StringInv /\ [StringNext]_stringVars => StringInv'
  <2> SUFFICES ASSUME StringInv, [StringNext]_stringVars PROVE StringInv'
      OBVIOUS
  <2>1. ASSUME NEW dest \in Locations, NEW src \in Locations, NEW n \in 0..Bytes,
               NEW routine \in {"memcpy", "memmove", "memcmp"}, Call(routine, dest, src, n, 0)
        PROVE  StringInv'
      BY <2>1, CallKeeps DEF Routines
  <2>2. ASSUME NEW dest \in Locations, NEW n \in 0..Bytes, NEW c \in Fills,
               Call("memset", dest, dest, n, c)
        PROVE  StringInv'
      BY <2>2, CallKeeps, StringAssumption DEF Routines
  <2>3. CASE memcpy
      BY <2>3, memcpyKeeps
  <2>4. CASE memset
      BY <2>4, memsetKeeps
  <2>5. CASE memmove_up
      BY <2>5, memmoveUpKeeps
  <2>6. CASE memmove_down
      BY <2>6, memmoveDownKeeps
  <2>7. CASE memcmp
      BY <2>7, memcmpKeeps
  <2>8. CASE memmove_return \/ \E routine \in {"memcpy", "memset", "memcmp"} : Return(routine)
      BY <2>8, ReturnKeeps
  <2>9. CASE UNCHANGED stringVars
      BY <2>9, StutterKeeps
  <2> QED
      BY <2>1, <2>2, <2>3, <2>4, <2>5, <2>6, <2>7, <2>8, <2>9 DEF StringNext
<1> QED
    BY InitInv, <1>1, PTL DEF StringSpec

\* memcpy, memset and memmove do what C says when they return, for every size of
\* memory, every range and every overlap of memmove's.
THEOREM CopiesAsMandated == StringSpec => []CopiesMandated
<1>1. StringInv => CopiesMandated
  <2> SUFFICES ASSUME StringInv, call.done PROVE CopiesMandated
      BY DEF CopiesMandated
  <2> USE StringAssumption DEF StringInv
  <2>1. call.routine = "memset" =>
            bytes = [a \in Locations |->
                        IF a \in Written THEN call.c % ByteValues ELSE before[a]]
      BY DEF SetInv, DoneInv, TypeInv, CallType, Locations, Up, Written
  <2>2. Defined(call.routine) =>
            \A a \in Locations : bytes[a] =
                IF a \in Written THEN before[a - call.dest + call.src] ELSE before[a]
    <3>1. CASE call.routine = "memcpy"
        BY <3>1 DEF CopyInv, DoneInv, Copied, Up, Written
    <3>2. CASE call.routine = "memmove" /\ Upwards
        BY <3>2 DEF CopyInv, DoneInv, Copied, Up, Written
    <3>3. CASE call.routine = "memmove" /\ call.src < call.dest
        BY <3>3 DEF CopyInv, DoneInv, Copied, Down, Written, Upwards, MovesUp, TypeInv, CallType,
               Locations
    <3>4. CASE call.routine = "memmove" /\ call.src = call.dest
      <4>1. Copied(Down)
          BY <3>4 DEF CopyInv, Upwards, MovesUp, TypeInv, CallType, Locations
      <4> QED
          BY <3>4, <4>1 DEF Copied, Down, Written, TypeInv, CallType, Locations
    <3> QED
        BY <3>1, <3>2, <3>3, <3>4 DEF Defined, Upwards, MovesUp, TypeInv, CallType, Locations
  <2> QED
      BY <2>1, <2>2 DEF CopiesMandated, TypeInv
<1> QED
    BY LoopInvariant, <1>1, PTL

\* memcmp returns zero exactly for equal ranges, and else the order of the first bytes
\* that differ, for every size of memory.
THEOREM ComparesAsMandated == StringSpec => []ComparesMandated
<1>1. StringInv => ComparesMandated
    BY DEF StringInv, CompareInv, ComparesMandated
<1> QED
    BY LoopInvariant, <1>1, PTL

-----------------------------------------------------------------------------
(* The console. *)

\* What Value computes of the sets of positions below n.
ValuesOf(val, text, radix, n) ==
    val = [s \in SUBSET (1..n) |->
            IF s = {} THEN 0 ELSE val[s \ {Max(s)}] * radix + Digit(text[Max(s)])]

\* Value takes the positions of a text from the set of those left, the last one first.
LEMMA ValueUnfolded ==
    ASSUME NEW text, NEW radix, NEW n, DOMAIN text = 1..n
    PROVE  Value(text, radix) = (CHOOSE val : ValuesOf(val, text, radix, n))[1..n]
  BY DEF Value, FoldLeft, MapThenFoldSet, ValuesOf

\* The greatest of some positions up to n that n is one of.
LEMMA MaxIsLast ==
    ASSUME NEW n \in Nat, NEW s \in SUBSET (1..n), n \in s
    PROVE  Max(s) = n
<1>1. \A y \in s : n >= y /\ y \in Nat
  OBVIOUS
<1>2. \A x \in s : (\A y \in s : x >= y) <=> x = n
  BY <1>1
<1> QED
  BY <1>2, Zenon DEF Max

\* There is a function that computes the value of every set of positions.
LEMMA ValuesExist ==
    ASSUME NEW text, NEW radix, NEW n \in Nat
    PROVE  \E val : ValuesOf(val, text, radix, n)
<1> DEFINE T == {k \in Nat : \E val : ValuesOf(val, text, radix, k)}
           D(k) == Digit(text[k])
<1>1. 0 \in T
  <2>1. ValuesOf([s \in SUBSET (1..0) |-> 0], text, radix, 0)
    <3>1. \A s \in SUBSET (1..0) : s = {}
      OBVIOUS
    <3> QED
      BY ONLY <3>1 DEF ValuesOf
  <2> QED
    BY <2>1
<1>2. ASSUME NEW k \in Nat, k \in T PROVE k + 1 \in T
  <2> DEFINE Step(val, s) == IF s = {} THEN 0 ELSE val[s \ {Max(s)}] * radix + D(Max(s))
  <2>1. PICK val : val = [s \in SUBSET (1..k) |-> Step(val, s)]
    BY <1>2 DEF ValuesOf
  <2> DEFINE more == [s \in SUBSET (1..k + 1) |->
                        IF k + 1 \in s THEN val[s \ {k + 1}] * radix + D(k + 1) ELSE val[s]]
  <2>2. ASSUME NEW s \in SUBSET (1..k + 1) PROVE more[s] = Step(more, s)
    <3>1. CASE k + 1 \in s
      <4>1. Max(s) = k + 1 /\ s # {}
        BY <3>1, MaxIsLast
      <4>2. s \ {k + 1} \in SUBSET (1..k + 1) /\ k + 1 \notin s \ {k + 1}
        OBVIOUS
      <4>3. more[s \ {k + 1}] = val[s \ {k + 1}]
        BY <4>2
      <4> HIDE DEF D
      <4> QED
        BY <3>1, <4>1, <4>3
    <3>2. CASE k + 1 \notin s
      <4>1. s \in SUBSET (1..k)
        BY <3>2
      <4>2. more[s] = val[s] /\ \A x : more[s \ {x}] = val[s \ {x}]
        <5>1. ASSUME NEW x PROVE more[s \ {x}] = val[s \ {x}]
          <6>1. s \ {x} \in SUBSET (1..k + 1) /\ k + 1 \notin s \ {x}
            BY <3>2
          <6> QED
            BY <6>1
        <5> QED
          BY <3>2, <5>1
      <4>3. val[s] = Step(val, s)
        <5> HIDE DEF Step
        <5> QED
          BY <2>1, <4>1
      <4>4. Step(more, s) = Step(val, s)
        <5> HIDE DEF more, D
        <5> QED
          BY <4>2
      <4> QED
        BY <4>2, <4>3, <4>4
    <3> QED
      BY <3>1, <3>2
  <2>3. more = [s \in SUBSET (1..k + 1) |-> Step(more, s)]
    <3> HIDE DEF Step
    <3> QED
      BY <2>2
  <2>4. ValuesOf(more, text, radix, k + 1)
    <3> HIDE DEF more
    <3> QED
      BY <2>3 DEF ValuesOf
  <2> QED
    BY <2>4
<1> HIDE DEF T
<1>3. Nat \subseteq T
  BY <1>1, <1>2, SetInduction
<1> QED
  BY <1>3 DEF T

\* The value of a text from those of its beginnings.
LEMMA ValueIs ==
    ASSUME NEW n \in Nat, NEW text, DOMAIN text = 1..n, NEW radix,
           NEW h, h[0] = 0, \A k \in 1..n : h[k] = h[k - 1] * radix + Digit(text[k])
    PROVE  Value(text, radix) = h[n]
<1> DEFINE val == CHOOSE v : ValuesOf(v, text, radix, n)
           T == {k \in Nat : k <= n => val[1..k] = h[k]}
<1>1. ValuesOf(val, text, radix, n)
  BY ValuesExist
<1> HIDE DEF val
<1>2. ASSUME NEW s \in SUBSET (1..n)
      PROVE  val[s] = IF s = {} THEN 0 ELSE val[s \ {Max(s)}] * radix + Digit(text[Max(s)])
  BY <1>1 DEF ValuesOf
<1>3. 0 \in T
  <2>1. 1..0 = {} /\ {} \in SUBSET (1..n)
    OBVIOUS
  <2>2. val[{}] = 0
    BY <1>2, <2>1
  <2> QED
    BY <2>1, <2>2
<1>4. ASSUME NEW k \in Nat, k \in T PROVE k + 1 \in T
  <2> SUFFICES ASSUME k + 1 <= n PROVE val[1..k + 1] = h[k + 1]
    OBVIOUS
  <2>1. /\ 1..k + 1 \in SUBSET (1..n) /\ k + 1 \in 1..k + 1 /\ (1..k + 1) \ {k + 1} = 1..k
        /\ 1..k + 1 # {} /\ k + 1 \in 1..n /\ (k + 1) - 1 = k /\ k <= n
    <3>1. /\ 1..k + 1 \in SUBSET (1..n) /\ k + 1 \in 1..k + 1 /\ k + 1 \in 1..n
          /\ (k + 1) - 1 = k /\ k <= n
      OBVIOUS
    <3>2. (1..k + 1) \ {k + 1} = 1..k
      OBVIOUS
    <3> QED
      BY <3>1, <3>2
  <2>2. Max(1..k + 1) = k + 1
    <3>1. k + 1 \in Nat /\ 1..k + 1 \in SUBSET (1..k + 1)
      OBVIOUS
    <3> QED
      BY <2>1, <3>1, MaxIsLast
  <2>3. val[1..k + 1] = val[1..k] * radix + Digit(text[k + 1])
    BY <1>2, <2>1, <2>2
  <2>4. val[1..k] = h[k]
    BY <1>4, <2>1
  <2>5. h[k + 1] = h[k] * radix + Digit(text[k + 1])
    BY <2>1
  <2> QED
    BY <2>3, <2>4, <2>5
<1> HIDE DEF T
<1>5. n \in T
  BY <1>3, <1>4, SetInduction
<1>6. Value(text, radix) = val[1..n]
  BY ValueUnfolded DEF val
<1> QED
  BY <1>5, <1>6 DEF T

\* What is left of a number when its last digits are taken, one after the other, as
\* long as something is left.
Quotients(q, m, number, radix) ==
    /\ q \in [0..m -> Nat] /\ q[0] = number
    /\ \A k \in 1..m : q[k] = q[k - 1] \div radix /\ q[k - 1] # 0

Collected(q, k, radix) == Character(q[k - 1] % radix)

ConsoleTypes ==
    /\ m_mode \in Modes
    /\ log \in [routine : Modes \union {"int", "none"}, number : Int, x : Int,
                buffer : Seq(Nat), status : {"collecting", "sending", "returned", "overrun"}]

\* The buffer holds the digits taken so far, the last one first.
DigitsCollected(l, st) ==
    l.status = "collecting" =>
        /\ l.routine # "none" /\ st = <<>>
        /\ l.number <= 0 => l.x = l.number /\ l.buffer = <<>>
        /\ l.number > 0 => \E q :
            /\ Quotients(q, Len(l.buffer), l.number, Radix(l.routine))
            /\ l.x = q[Len(l.buffer)]
            /\ \A k \in 1..Len(l.buffer) : l.buffer[k] = Collected(q, k, Radix(l.routine))

\* What was sent and what is still in the buffer are all digits.
DigitsSent(l, st) ==
    l.status = "sending" =>
        /\ l.routine # "none" /\ l.number # 0 /\ st \in Seq(Nat)
        /\ l.number < 0 => l.buffer = <<>> /\ st = <<>>
        /\ l.number > 0 => \E m \in Nat \ {0} : \E q :
            /\ Quotients(q, m, l.number, Radix(l.routine)) /\ q[m] = 0
            /\ Len(l.buffer) + Len(st) = m
            /\ \A k \in 1..Len(l.buffer) : l.buffer[k] = Collected(q, k, Radix(l.routine))
            /\ \A i \in 1..Len(st) : st[i] = Collected(q, m - i + 1, Radix(l.routine))

DigitsInv == ConsoleTypes /\ DigitsCollected(log, sent) /\ DigitsSent(log, sent) /\ PrintedIsNumber

\* The three radixes of logger.
LEMMA RadixIs ==
    ASSUME NEW routine
    PROVE  Radix(routine) \in {2, 10, 16}
  BY DEF Radix

\* A digit reads as itself.
Reads(x, radix, digit, rest) ==
    /\ rest \in Nat /\ digit \in 0..radix - 1 /\ x = rest * radix + digit
    /\ Character(digit) \in Nat /\ Digit(Character(digit)) = digit
    /\ Character(digit) = 48 => digit = 0

\* The last digit of a number, by its character.
LEMMA DigitReads ==
    ASSUME NEW radix \in {2, 10, 16}, NEW x \in Nat
    PROVE  Reads(x, radix, x % radix, x \div radix)
<1> DEFINE digit == x % radix
           rest == x \div radix
<1>1. rest \in Nat /\ digit \in 0..radix - 1 /\ x = radix * rest + digit
  BY Division
<1> HIDE DEF digit, rest
<1>2. ASSUME NEW d \in 0..15
      PROVE  Character(d) \in Nat /\ Digit(Character(d)) = d /\ (Character(d) = 48 => d = 0)
  BY DEF Character, Digit
<1>3. digit \in 0..15 /\ x = rest * radix + digit
  BY <1>1
<1>4. Reads(x, radix, digit, rest)
  BY <1>1, <1>2, <1>3 DEF Reads
<1> QED
  BY <1>4 DEF digit, rest

\* Digits that were all sent read as the number.
SentAll(st, q, m, number, radix) ==
    /\ m \in Nat \ {0} /\ Quotients(q, m, number, radix) /\ q[m] = 0
    /\ st \in Seq(Nat) /\ Len(st) = m
    /\ \A i \in 1..m : st[i] = Collected(q, m - i + 1, radix)

ReadsAs(st, number, radix) ==
    /\ st # <<>> /\ Value(st, radix) = number
    /\ \A i \in DOMAIN st : Digit(st[i]) \in 0..radix - 1
    /\ st[1] # 48

\* The digit sent at i is what q lacks of q one place on, so the value of the first i
\* digits is the quotient that is left after the other ones.
LEMMA AllSent ==
    ASSUME NEW st, NEW q, NEW m, NEW number, NEW radix \in {2, 10, 16},
           SentAll(st, q, m, number, radix)
    PROVE  ReadsAs(st, number, radix)
<1> USE DEF SentAll
<1> DEFINE h == [k \in 0..m |-> q[m - k]]
<1>1. ASSUME NEW i \in 1..m
      PROVE  /\ m - i + 1 \in 1..m /\ m - i \in 0..m /\ q[m - i + 1] \in Nat /\ q[m - i] \in Nat
             /\ q[m - i + 1] = q[m - i] \div radix /\ q[m - i] # 0
             /\ st[i] = Character(q[m - i] % radix)
  <2>1. /\ m - i + 1 \in 1..m /\ m - i \in 0..m /\ m - i + 1 \in 0..m /\ (m - i + 1) - 1 = m - i
    OBVIOUS
  <2>2. q[m - i + 1] = q[(m - i + 1) - 1] \div radix /\ q[(m - i + 1) - 1] # 0
    BY <2>1, Zenon DEF Quotients
  <2>3. q[m - i + 1] \in Nat /\ q[m - i] \in Nat
    BY <2>1, Zenon DEF Quotients
  <2>4. st[i] = Character(q[m - i] % radix)
    BY <2>1, Zenon DEF Collected
  <2> QED
    BY <2>1, <2>2, <2>3, <2>4
<1>2. ASSUME NEW i \in 1..m
      PROVE  Reads(q[m - i], radix, Digit(st[i]), q[m - i + 1]) /\ st[i] = Character(Digit(st[i]))
  <2>1. Reads(q[m - i], radix, q[m - i] % radix, q[m - i] \div radix)
    BY <1>1, DigitReads
  <2>2. Digit(st[i]) = q[m - i] % radix
    BY <1>1, <2>1, Zenon DEF Reads
  <2> QED
    BY <1>1, <2>1, <2>2, Zenon
<1>3. h[0] = 0 /\ h[m] = number
  <2>1. m - 0 = m /\ m - m = 0 /\ 0 \in 0..m /\ m \in 0..m
    OBVIOUS
  <2> QED
    BY <2>1 DEF Quotients
<1>4. ASSUME NEW k \in 1..m PROVE h[k] = h[k - 1] * radix + Digit(st[k])
  <2>1. k \in 0..m /\ k - 1 \in 0..m /\ m - (k - 1) = m - k + 1
    OBVIOUS
  <2>2. h[k] = q[m - k] /\ h[k - 1] = q[m - k + 1]
    BY <2>1
  <2> HIDE DEF h
  <2> QED
    BY <1>2, <2>2 DEF Reads
<1>5. Value(st, radix) = h[m]
  <2> HIDE DEF h
  <2>1. DOMAIN st = 1..m /\ m \in Nat
    OBVIOUS
  <2> QED
    BY ONLY <1>3, <1>4, <2>1, ValueIs
<1>6. st[1] # 48
  <2>1. 1 \in 1..m /\ m - 1 + 1 = m
    OBVIOUS
  <2>2. Reads(q[m - 1], radix, Digit(st[1]), q[m]) /\ st[1] = Character(Digit(st[1]))
    BY <1>2, <2>1
  <2>3. q[m - 1] # 0 /\ q[m - 1] = 0 * radix + Digit(st[1])
    BY <1>1, <2>1, <2>2 DEF Reads
  <2> QED
    BY <2>2, <2>3 DEF Reads
<1> QED
  BY <1>2, <1>3, <1>5, <1>6 DEF Reads, ReadsAs

\* At the start nothing is in progress.
LEMMA DigitsInvInitially == ConsoleInit => DigitsInv
  BY DEF ConsoleInit, DigitsInv, ConsoleTypes, DigitsCollected, DigitsSent, PrintedIsNumber,
         NoLog, Modes

\* A routine begins with nothing collected.
LEMMA StartKeeps ==
    ASSUME NEW routine \in Modes \union {"int"}, NEW number \in Int,
           m_mode' \in Modes, StartLog(routine, number)
    PROVE  DigitsInv'
<1>1. /\ log' = [routine |-> routine, number |-> number, x |-> number,
                 buffer |-> <<>>, status |-> "collecting"]
      /\ sent' = <<>>
  BY DEF StartLog
<1>2. log'.routine = routine /\ log'.number = number /\ log'.x = number
      /\ log'.buffer = <<>> /\ log'.status = "collecting" /\ log'.routine # "none"
  BY <1>1 DEF Modes
<1>3. ConsoleTypes'
  BY <1>1 DEF ConsoleTypes
<1>4. ASSUME number > 0
      PROVE  \E q : /\ Quotients(q, 0, number, Radix(routine)) /\ number = q[0]
  <2>1. Quotients([k \in 0..0 |-> number], 0, number, Radix(routine))
    BY <1>4 DEF Quotients
  <2> QED
    BY <2>1 DEF Quotients
<1>5. DigitsCollected(log', sent')
  <2>1. Len(log'.buffer) = 0 /\ 1..0 = {}
    BY <1>2
  <2> QED
    BY <1>1, <1>2, <1>4, <2>1 DEF DigitsCollected
<1>6. DigitsSent(log', sent') /\ PrintedIsNumber'
  BY <1>2 DEF DigitsSent, PrintedIsNumber
<1> QED
  BY <1>3, <1>5, <1>6 DEF DigitsInv

\* Texts and modes are no numbers.
LEMMA NoLogKeeps ==
    ASSUME m_mode' \in Modes, log' = NoLog
    PROVE  DigitsInv'
  BY DEF DigitsInv, ConsoleTypes, DigitsCollected, DigitsSent, PrintedIsNumber, NoLog

\* Zero is one digit, sent without the buffer.
LEMMA LogZeroKeeps ==
    ASSUME DigitsInv, LogZero
    PROVE  DigitsInv'
<1>1. /\ log.status = "collecting" /\ log.number = 0 /\ sent' = <<48>>
      /\ log' = [log EXCEPT !.status = "returned"] /\ UNCHANGED m_mode
  BY DEF LogZero
<1>2. /\ log'.routine = log.routine /\ log'.number = 0 /\ log'.status = "returned"
      /\ ConsoleTypes' /\ log.routine # "none"
  BY <1>1 DEF DigitsInv, ConsoleTypes, DigitsCollected
<1>3. Digit(48) = 0
  BY DEF Digit
<1>4. Value(<<48>>, Radix(log.routine)) = 0
  <2> DEFINE text == <<48>>
             h == [k \in 0..1 |-> 0]
             radix == Radix(log.routine)
  <2>1. radix \in Int
    BY RadixIs
  <2>2. h[0] = 0 /\ \A k \in 1..1 : h[k] = h[k - 1] * radix + Digit(text[k])
    <3> HIDE DEF radix
    <3> QED
      BY <1>3, <2>1
  <2> DEFINE m == 1
  <2>3. DOMAIN text = 1..m /\ h[m] = 0 /\ m \in Nat
    OBVIOUS
  <2> HIDE DEF h, text, radix
  <2>4. \A k \in 1..m : h[k] = h[k - 1] * radix + Digit(text[k])
    BY <2>2
  <2> HIDE DEF m
  <2>5. Value(text, radix) = h[m]
    BY ONLY <2>2, <2>3, <2>4, ValueIs
  <2> QED
    BY <2>3, <2>5 DEF text, radix
<1>5. PrintedIsNumber'
  <2>1. 0 \in 0..Radix(log.routine) - 1
    BY RadixIs
  <2> QED
    BY <1>1, <1>2, <1>3, <1>4, <2>1 DEF PrintedIsNumber
<1> QED
  BY <1>2, <1>5 DEF DigitsInv, DigitsCollected, DigitsSent

\* One digit more, and one quotient.
LEMMA CollectKeeps ==
    ASSUME DigitsInv, CollectDigit
    PROVE  DigitsInv'
<1> DEFINE n == Len(log.buffer)
           radix == Radix(log.routine)
<1>1. /\ log.status = "collecting" /\ log.x > 0 /\ UNCHANGED <<m_mode, sent>>
      /\ log.routine # "none" /\ sent = <<>> /\ log.number > 0
  BY DEF CollectDigit, DigitsInv, DigitsCollected, ConsoleTypes
<1>2. CASE n = BufferSize(log.routine)
  <2>1. log' = [log EXCEPT !.status = "overrun"]
    BY <1>2 DEF CollectDigit
  <2> QED
    BY <1>1, <2>1 DEF DigitsInv, ConsoleTypes, DigitsCollected, DigitsSent, PrintedIsNumber
<1>3. CASE n # BufferSize(log.routine)
  <2>1. log' = [log EXCEPT !.x = @ \div radix, !.buffer = Append(@, Character(log.x % radix))]
    BY <1>3 DEF CollectDigit
  <2>2. radix \in {2, 10, 16}
    BY RadixIs
  <2>3. PICK q : /\ Quotients(q, n, log.number, radix) /\ log.x = q[n]
                 /\ \A k \in 1..n : log.buffer[k] = Collected(q, k, radix)
    BY <1>1 DEF DigitsInv, DigitsCollected
  <2> HIDE DEF radix
  <2>4. n \in Nat /\ log.buffer \in Seq(Nat) /\ log.number \in Int /\ log.x \in Nat
    BY <1>1 DEF DigitsInv, ConsoleTypes
  <2>5. log.x \div radix \in Nat /\ Character(log.x % radix) \in Nat
    BY <2>2, <2>4, DigitReads DEF Reads
  <2> DEFINE rest == log.x \div radix
             digit == Character(log.x % radix)
  <2> HIDE DEF rest, digit
  <2>6. /\ log'.routine = log.routine /\ log'.number = log.number /\ log'.x = rest
        /\ log'.buffer = Append(log.buffer, digit)
        /\ log'.status = "collecting" /\ ConsoleTypes'
    <3>1. log' = [log EXCEPT !.x = rest, !.buffer = Append(log.buffer, digit)]
      BY <2>1 DEF rest, digit
    <3>2. rest \in Int /\ Append(log.buffer, digit) \in Seq(Nat)
      BY <2>4, <2>5 DEF rest, digit
    <3> QED
      BY <1>1, <3>1, <3>2, Zenon DEF DigitsInv, ConsoleTypes
  <2> DEFINE more == [k \in 0..n + 1 |-> IF k = n + 1 THEN rest ELSE q[k]]
  <2>7. /\ \A k \in 0..n : more[k] = q[k] /\ q[k] \in Nat
        /\ more[n + 1] = rest /\ q[0] = log.number
    <3> HIDE DEF n
    <3>1. q \in [0..n -> Nat] /\ q[0] = log.number
      BY <2>3 DEF Quotients
    <3> QED
      BY ONLY <2>4, <3>1
  <2>8. Quotients(more, n + 1, log.number, radix)
    <3>1. more \in [0..n + 1 -> Nat] /\ more[0] = log.number
      <4> HIDE DEF n
      <4>1. rest \in Nat /\ 0 \in 0..n
        BY <2>4, <2>5 DEF rest
      <4>2. ASSUME NEW k \in 0..n + 1 PROVE (IF k = n + 1 THEN rest ELSE q[k]) \in Nat
        <5>1. k \in 0..n + 1 /\ q \in [0..n -> Nat] /\ n \in Nat
          BY <2>3, <2>4, <4>2 DEF Quotients
        <5> QED
          BY ONLY <4>1, <5>1
      <4>3. more[0] = log.number
        BY <2>7, <4>1
      <4> QED
        BY <4>2, <4>3
    <3>2. ASSUME NEW k \in 1..n + 1 PROVE more[k] = more[k - 1] \div radix /\ more[k - 1] # 0
      <4>1. CASE k = n + 1
        <5>1. k - 1 = n /\ n \in 0..n
          BY <2>4, <4>1
        <5>2. more[k - 1] = log.x
          BY <2>3, <2>7, <5>1
        <5> HIDE DEF more
        <5> QED
          BY <1>1, <2>4, <2>7, <4>1, <5>2 DEF rest
      <4>2. CASE k # n + 1
        <5>1. k \in 1..n /\ k \in 0..n /\ k - 1 \in 0..n
          BY <2>4, <4>2
        <5>2. q[k] = q[k - 1] \div radix /\ q[k - 1] # 0
          BY <2>3, <5>1 DEF Quotients
        <5> HIDE DEF more
        <5> QED
          BY <2>7, <5>1, <5>2
      <4> QED
        BY <4>1, <4>2
    <3> HIDE DEF more
    <3> QED
      BY <3>1, <3>2 DEF Quotients
  <2> HIDE DEF more
  <2>9. Len(log'.buffer) = n + 1
    BY <2>4, <2>5, <2>6
  <2>10. ASSUME NEW k \in 1..n + 1 PROVE log'.buffer[k] = Collected(more, k, radix)
    <3>1. CASE k = n + 1
      <4>1. log'.buffer[k] = Character(log.x % radix)
        BY <2>4, <2>6, <3>1 DEF digit
      <4>2. k - 1 = n /\ n \in 0..n
        BY <2>4, <3>1
      <4> QED
        BY <2>3, <2>7, <4>1, <4>2 DEF Collected
    <3>2. CASE k # n + 1
      <4>1. k \in 1..n /\ k - 1 \in 0..n
        BY <2>4, <3>2
      <4>2. log'.buffer[k] = log.buffer[k]
        BY <2>4, <2>6, <4>1
      <4> QED
        BY <2>3, <2>7, <4>1, <4>2 DEF Collected
    <3> QED
      BY <3>1, <3>2
  <2>11. DigitsCollected(log', sent')
    <3>1. \E r : /\ Quotients(r, n + 1, log.number, radix) /\ log'.x = r[n + 1]
                 /\ \A k \in 1..n + 1 : log'.buffer[k] = Collected(r, k, radix)
      BY <2>6, <2>7, <2>8, <2>10
    <3>2. log'.number > 0 /\ Radix(log'.routine) = radix /\ sent' = <<>>
      BY <1>1, <2>6 DEF radix
    <3> HIDE DEF n
    <3> QED
      BY <1>1, <2>4, <2>6, <2>9, <3>1, <3>2 DEF DigitsCollected
  <2> QED
    BY <2>6, <2>11 DEF DigitsInv, DigitsSent, PrintedIsNumber
<1> QED
  BY <1>2, <1>3

\* Nothing is left of the number, or it is negative.
LEMMA LastKeeps ==
    ASSUME DigitsInv, LastDigit
    PROVE  DigitsInv'
<1> DEFINE n == Len(log.buffer)
           radix == Radix(log.routine)
<1>1. /\ log.status = "collecting" /\ log.number # 0 /\ log.x <= 0
      /\ log' = [log EXCEPT !.status = "sending"] /\ UNCHANGED <<m_mode, sent>>
      /\ log.routine # "none" /\ sent = <<>> /\ log.number \in Int /\ log.x \in Int
      /\ log.buffer \in Seq(Nat)
  BY DEF LastDigit, DigitsInv, DigitsCollected, ConsoleTypes
<1>2. /\ log'.routine = log.routine /\ log'.number = log.number /\ log'.buffer = log.buffer
      /\ log'.status = "sending" /\ sent' = <<>> /\ sent' \in Seq(Nat) /\ Len(sent') = 0
      /\ ConsoleTypes'
  BY <1>1 DEF DigitsInv, ConsoleTypes
<1>3. log.number < 0 => log.buffer = <<>>
  BY <1>1 DEF DigitsInv, DigitsCollected
<1>4. ASSUME log.number > 0
      PROVE  \E m \in Nat \ {0} : \E q :
                /\ Quotients(q, m, log.number, radix) /\ q[m] = 0 /\ n + 0 = m
                /\ \A k \in 1..n : log.buffer[k] = Collected(q, k, radix)
  <2>1. PICK q : /\ Quotients(q, n, log.number, radix) /\ log.x = q[n]
                 /\ \A k \in 1..n : log.buffer[k] = Collected(q, k, radix)
    BY <1>1, <1>4 DEF DigitsInv, DigitsCollected
  <2>2. n \in Nat /\ q[n] \in Nat /\ q[0] = log.number
    <3>1. n \in Nat /\ n \in 0..n
      BY <1>1
    <3> HIDE DEF n
    <3> QED
      BY <2>1, <3>1 DEF Quotients
  <2> HIDE DEF n
  <2>3. q[n] = 0 /\ n # 0
    BY <1>1, <1>4, <2>1, <2>2
  <2> QED
    BY <2>1, <2>2, <2>3
<1>5. DigitsSent(log', sent')
  <2>1. \A i : i \notin 1..0
    OBVIOUS
  <2>2. log.number > 0 => \E m \in Nat \ {0} : \E q :
                /\ Quotients(q, m, log.number, radix) /\ q[m] = 0 /\ n + Len(sent') = m
                /\ \A k \in 1..n : log.buffer[k] = Collected(q, k, radix)
                /\ \A i \in 1..Len(sent') : sent'[i] = Collected(q, m - i + 1, radix)
    BY <1>2, <1>4, <2>1
  <2> QED
    BY <1>1, <1>2, <1>3, <2>2 DEF DigitsSent
<1> QED
  BY <1>2, <1>5 DEF DigitsInv, DigitsCollected, PrintedIsNumber

\* The last digit in the buffer is the next one to send.
LEMMA SendKeeps ==
    ASSUME DigitsInv, SendDigit
    PROVE  DigitsInv'
<1> DEFINE n == Len(log.buffer)
           j == Len(sent)
           radix == Radix(log.routine)
<1>1. /\ log.status = "sending" /\ log.buffer # <<>>
      /\ log.routine # "none" /\ log.number # 0 /\ sent \in Seq(Nat) /\ log.number \in Int
      /\ log.buffer \in Seq(Nat) /\ UNCHANGED m_mode
  BY DEF SendDigit, DigitsInv, DigitsSent, ConsoleTypes
<1>2. log.number > 0
  BY <1>1 DEF DigitsInv, DigitsSent
<1>3. PICK q : \E m \in Nat \ {0} :
            /\ Quotients(q, m, log.number, radix) /\ q[m] = 0 /\ n + j = m
            /\ \A k \in 1..n : log.buffer[k] = Collected(q, k, radix)
            /\ \A i \in 1..j : sent[i] = Collected(q, m - i + 1, radix)
  BY <1>1, <1>2 DEF DigitsInv, DigitsSent
<1>4. PICK m \in Nat \ {0} :
            /\ Quotients(q, m, log.number, radix) /\ q[m] = 0 /\ n + j = m
            /\ \A k \in 1..n : log.buffer[k] = Collected(q, k, radix)
            /\ \A i \in 1..j : sent[i] = Collected(q, m - i + 1, radix)
  BY <1>3
<1>5. /\ n \in Nat \ {0} /\ j \in Nat /\ Last(log.buffer) = log.buffer[n] /\ log.buffer[n] \in Nat
      /\ Front(log.buffer) \in Seq(Nat) /\ Len(Front(log.buffer)) = n - 1
      /\ \A k \in 1..n - 1 : Front(log.buffer)[k] = log.buffer[k]
  BY <1>1, SMTT(60) DEF Last, Front
<1> DEFINE front == Front(log.buffer)
           last == Last(log.buffer)
<1>6. /\ sent' = Append(sent, last) /\ log' = [log EXCEPT !.buffer = front]
  BY DEF SendDigit
<1> HIDE DEF front, last
<1>7. /\ front \in Seq(Nat) /\ Len(front) = n - 1 /\ last = log.buffer[n] /\ last \in Nat
      /\ \A k \in 1..n - 1 : front[k] = log.buffer[k]
  BY <1>5 DEF front, last
<1>8. /\ log'.routine = log.routine /\ log'.number = log.number /\ log'.buffer = front
      /\ log'.status = "sending" /\ ConsoleTypes'
  BY <1>1, <1>6, <1>7 DEF DigitsInv, ConsoleTypes
<1>9. /\ sent' \in Seq(Nat) /\ Len(sent') = j + 1 /\ sent'[j + 1] = last
      /\ \A i \in 1..j : sent'[i] = sent[i]
  BY <1>1, <1>5, <1>6, <1>7
<1> HIDE DEF n, j, radix
<1>10. ASSUME NEW k \in 1..n - 1 PROVE front[k] = Collected(q, k, radix)
  <2>1. k \in 1..n
    BY <1>5
  <2>2. front[k] = log.buffer[k]
    BY <1>7, Zenon
  <2> QED
    BY <1>4, <2>1, <2>2, Zenon
<1>11. ASSUME NEW i \in 1..j + 1 PROVE sent'[i] = Collected(q, m - i + 1, radix)
  <2>1. CASE i = j + 1
    <3>1. m - i + 1 = n /\ n \in 1..n
      BY <1>4, <1>5, <2>1
    <3>2. sent'[i] = Collected(q, n, radix)
      BY <1>4, <1>7, <1>9, <2>1, <3>1
    <3> QED
      BY <3>1, <3>2
  <2>2. CASE i # j + 1
    <3>1. i \in 1..j
      BY <1>5, <2>2
    <3> QED
      BY <1>4, <1>9, <3>1
  <2> QED
    BY <2>1, <2>2
<1>12. DigitsSent(log', sent')
  <2>1. Len(log'.buffer) = n - 1 /\ (n - 1) + (j + 1) = m
    BY <1>4, <1>5, <1>7, <1>8
  <2>2. \E l \in Nat \ {0} : \E r :
            /\ Quotients(r, l, log'.number, radix) /\ r[l] = 0
            /\ Len(log'.buffer) + Len(sent') = l
            /\ \A k \in 1..Len(log'.buffer) : log'.buffer[k] = Collected(r, k, radix)
            /\ \A i \in 1..Len(sent') : sent'[i] = Collected(r, l - i + 1, radix)
    BY <1>4, <1>8, <1>9, <1>10, <1>11, <2>1
  <2> QED
    BY <1>1, <1>2, <1>8, <1>9, <2>2 DEF DigitsSent, radix
<1> QED
  BY <1>8, <1>12 DEF DigitsInv, DigitsCollected, PrintedIsNumber

\* When the buffer is empty, all digits are sent.
LEMMA LogReturnKeeps ==
    ASSUME DigitsInv, LogReturns
    PROVE  DigitsInv'
<1> DEFINE radix == Radix(log.routine)
<1>1. /\ log.status = "sending" /\ log.buffer = <<>>
      /\ log.routine # "none" /\ log.number # 0 /\ sent \in Seq(Nat) /\ log.number \in Int
      /\ log' = [log EXCEPT !.status = "returned"] /\ UNCHANGED <<m_mode, sent>>
  BY DEF LogReturns, DigitsInv, DigitsSent, ConsoleTypes
<1>2. /\ log'.routine = log.routine /\ log'.number = log.number /\ log'.status = "returned"
      /\ ConsoleTypes' /\ sent' = sent
  BY <1>1 DEF DigitsInv, ConsoleTypes
<1>3. PrintedIsNumber'
  <2>1. CASE log.number < 0
    <3>1. sent = <<>>
      BY <1>1, <2>1 DEF DigitsInv, DigitsSent
    <3> QED
      BY <1>2, <2>1, <3>1 DEF PrintedIsNumber
  <2>2. CASE log.number > 0
    <3>1. PICK q : \E m \in Nat \ {0} :
            /\ Quotients(q, m, log.number, radix) /\ q[m] = 0 /\ Len(log.buffer) + Len(sent) = m
            /\ \A i \in 1..Len(sent) : sent[i] = Collected(q, m - i + 1, radix)
      BY <1>1, <2>2 DEF DigitsInv, DigitsSent
    <3>2. PICK m \in Nat \ {0} :
            /\ Quotients(q, m, log.number, radix) /\ q[m] = 0 /\ Len(log.buffer) + Len(sent) = m
            /\ \A i \in 1..Len(sent) : sent[i] = Collected(q, m - i + 1, radix)
      BY <3>1
    <3>3. SentAll(sent, q, m, log.number, radix) /\ radix \in {2, 10, 16}
      BY <1>1, <3>2, RadixIs DEF SentAll
    <3> HIDE DEF radix
    <3>4. ReadsAs(sent, log.number, radix)
      BY ONLY <3>3, AllSent, Zenon
    <3>5. PrintedIsNumber' <=>
             /\ sent # <<>> /\ Value(sent, radix) = log.number
             /\ \A i \in DOMAIN sent : Digit(sent[i]) \in 0..radix - 1
             /\ log.number # 0 => sent[1] # 48
      <4>1. ~(log.number < 0)
        BY <1>1, <2>2
      <4> QED
        BY <1>1, <1>2, <4>1, Zenon DEF PrintedIsNumber, radix
    <3> QED
      BY <3>4, <3>5, Zenon DEF ReadsAs
  <2> QED
    BY <1>1, <2>1, <2>2
<1> QED
  BY <1>2, <1>3 DEF DigitsInv, DigitsCollected, DigitsSent

\* Every step of the console keeps the invariant.
LEMMA DigitsInvKept == DigitsInv /\ [ConsoleNext]_consoleVars => DigitsInv'
<1> SUFFICES ASSUME DigitsInv, [ConsoleNext]_consoleVars PROVE DigitsInv'
  OBVIOUS
<1>1. m_mode \in Modes
  BY DEF DigitsInv, ConsoleTypes
<1>2. ASSUME NEW i \in Signed, InsertInt(i) PROVE DigitsInv'
  BY <1>1, <1>2, StartKeeps, ConsoleAssumption DEF InsertInt
<1>3. ASSUME NEW i \in Unsigned, InsertUnsigned(i) PROVE DigitsInv'
  BY <1>1, <1>3, StartKeeps, ConsoleAssumption DEF InsertUnsigned
<1>4. ASSUME NEW im \in Modes, InsertMode(im) PROVE DigitsInv'
  BY <1>4, NoLogKeeps DEF InsertMode
<1>5. ASSUME NEW st \in Texts, InsertText(st) \/ InsertString(st) PROVE DigitsInv'
  BY <1>1, <1>5, NoLogKeeps DEF InsertText, InsertString
<1>6. CASE UNCHANGED consoleVars
  BY <1>6 DEF consoleVars, DigitsInv, ConsoleTypes, DigitsCollected, DigitsSent, PrintedIsNumber
<1> QED
  BY <1>2, <1>3, <1>4, <1>5, <1>6, LogZeroKeeps, CollectKeeps, LastKeeps, SendKeeps, LogReturnKeeps
     DEF ConsoleNext

\* Between the two loops of a routine of logger the buffer and what was sent are the
\* digits of the number, whatever is inserted and in whatever mode (logger.hpp:25-106).
THEOREM DigitsInvariant == ConsoleSpec => []DigitsInv
  BY DigitsInvInitially, DigitsInvKept, PTL DEF ConsoleSpec

\* What a routine of logger has sent when it returns reads as the number it was given,
\* for every number and each radix, if it does return; of a negative int it has sent
\* nothing (logger.hpp:25-106).
THEOREM NumbersReadBack == ConsoleSpec => []PrintedIsNumber
<1>1. DigitsInv => PrintedIsNumber
  BY DEF DigitsInv
<1> QED
  BY <1>1, DigitsInvariant, PTL

\* The powers of the radixes, as far as twenty digits.
Twos ==
    <<1, 2, 4, 8, 16, 32, 64, 128, 256, 512, 1024, 2048, 4096, 8192, 16384, 32768, 65536,
      131072, 262144, 524288, 1048576>>
Tens ==
    <<1, 10, 100, 1000, 10000, 100000, 1000000, 10000000, 100000000, 1000000000,
      10000000000, 100000000000, 1000000000000, 10000000000000, 100000000000000,
      1000000000000000, 10000000000000000, 100000000000000000, 1000000000000000000,
      10000000000000000000, 100000000000000000000>>
Sixteens ==
    <<1, 16, 256, 4096, 65536, 1048576, 16777216, 268435456, 4294967296, 68719476736,
      1099511627776, 17592186044416, 281474976710656, 4503599627370496,
      72057594037927936, 1152921504606846976, 18446744073709551616,
      295147905179352825856, 4722366482869645213696, 75557863725914323419136,
      1208925819614629174706176>>
Scale(radix, n) ==
    CASE radix = 2 -> Twos[n + 1] [] radix = 10 -> Tens[n + 1] [] radix = 16 -> Sixteens[n + 1]

\* What 64 bits hold.
Wide == 18446744073709551616

\* The numbers the inserters take are below 2^64.
LEMMA NumbersFit ==
    ASSUME NEW i \in Unsigned \union Signed
    PROVE  i \in Int /\ i < Wide
<1>1. i \in Int
  BY ConsoleAssumption
<1>2. CASE i < 0
  BY <1>1, <1>2, SMT DEF Wide
<1>3. CASE i >= 0
  <2> DEFINE a == i \div 65536
             b == a \div 65536
             c == b \div 65536
  <2>1. i \in Nat
    BY <1>1, <1>3
  <2>2. a \in Nat /\ i < 65536 * (a + 1)
    BY <2>1, SMT
  <2> HIDE DEF a
  <2>3. b \in Nat /\ a < 65536 * (b + 1)
    BY <2>2, SMT
  <2> HIDE DEF b
  <2>4. c \in Nat /\ b < 65536 * (c + 1)
    BY <2>3, SMT
  <2>5. c < 65536
    BY WidthAssumption DEF a, b
  <2> HIDE DEF c
  <2>6. b + 1 <= 4294967296
    BY <2>3, <2>4, <2>5, SMT
  <2>7. a + 1 <= 281474976710656
    BY <2>2, <2>3, <2>6, SMT
  <2> QED
    BY <2>1, <2>2, <2>7, SMT DEF Wide
<1> QED
  BY <1>1, <1>2, <1>3

\* Each power is the one before, times the radix.
LEMMA ScaleSteps ==
    ASSUME NEW radix \in {2, 10, 16}, NEW n \in 0..19
    PROVE  Scale(radix, n + 1) = radix * Scale(radix, n)
<1>1. n \in Nat /\ n + 1 \in 1..20 /\ (n + 1) + 1 \in 2..21
  OBVIOUS
<1>2. \A k \in 1..20 : Twos[k + 1] = 2 * Twos[k]
  BY SMT DEF Twos
<1>3. \A k \in 1..20 : Tens[k + 1] = 10 * Tens[k]
  BY SMT DEF Tens
<1>4. \A k \in 1..20 : Sixteens[k + 1] = 16 * Sixteens[k]
  BY SMT DEF Sixteens
<1> QED
  BY <1>1, <1>2, <1>3, <1>4 DEF Scale

\* The powers are positive, and the first is one.
LEMMA ScaleIs ==
    ASSUME NEW radix \in {2, 10, 16}
    PROVE  /\ \A n \in 0..20 : Scale(radix, n) \in Nat \ {0}
           /\ Scale(radix, 0) = 1
<1>1. \A k \in 1..21 : /\ Twos[k] \in Nat \ {0} /\ Tens[k] \in Nat \ {0}
                      /\ Sixteens[k] \in Nat \ {0}
  <2>1. \A k \in 1..21 : Twos[k] \in Nat \ {0}
    BY SMT DEF Twos
  <2>2. \A k \in 1..21 : Tens[k] \in Nat \ {0}
    BY SMT DEF Tens
  <2>3. \A k \in 1..21 : Sixteens[k] \in Nat \ {0}
    BY SMT DEF Sixteens
  <2> QED
    BY <2>1, <2>2, <2>3
<1>2. Twos[1] = 1 /\ Tens[1] = 1 /\ Sixteens[1] = 1
  BY SMT DEF Twos, Tens, Sixteens
<1>3. 0 + 1 = 1 /\ \A n \in 0..20 : n + 1 \in 1..21
  OBVIOUS
<1> QED
  BY <1>1, <1>2, <1>3 DEF Scale

\* Twenty digits are enough for 64 bits, except binary ones.
LEMMA TwentyDigits ==
    /\ \A n \in 0..20 : Scale(2, n) <= 2 ^ 20
    /\ Scale(2, 20) = 2 ^ 20 /\ 2 ^ 20 \in Nat
    /\ Scale(10, 20) >= Wide /\ Scale(16, 20) >= Wide /\ Wide \in Nat
<1>1. \A k \in 1..21 : Twos[k] <= 1048576
  BY SMT DEF Twos
<1>2. Twos[21] = 1048576
  BY SMT DEF Twos
<1>3. 2 ^ 20 = 1048576
  BY SMT
<1>4. Tens[21] >= Wide /\ Sixteens[21] >= Wide /\ Wide \in Nat
  BY SMT DEF Tens, Sixteens, Wide
<1> QED
  BY <1>1, <1>2, <1>3, <1>4, SMT DEF Scale

\* After n digits, x is left of the number.
Scaled(number, x, n, radix) ==
    /\ n \in 0..20 /\ x \in Nat
    /\ Scale(radix, n) * x <= number /\ number < Scale(radix, n) * (x + 1)

\* What is left of the number at every digit, and so where the buffers end.
WidthInv ==
    /\ log.status \in {"collecting", "sending"} => log.number < Wide
    /\ log.status = "collecting" /\ log.number > 0 =>
            Scaled(log.number, log.x, Len(log.buffer), Radix(log.routine))
    /\ log.status = "sending" /\ log.routine = "bin" => log.number < 2 ^ 20
    /\ OverrunOnlyBinary

\* One digit more of a number of less than twenty.
LEMMA ScaledStep ==
    ASSUME NEW radix \in {2, 10, 16}, NEW number \in Int, NEW n, NEW x, n # 20,
           Scaled(number, x, n, radix)
    PROVE  Scaled(number, x \div radix, n + 1, radix)
<1> DEFINE s == Scale(radix, n)
           rest == x \div radix
           digit == x % radix
<1>1. /\ n \in 0..19 /\ n + 1 \in 0..20 /\ x \in Nat /\ s \in Nat
      /\ s * x <= number /\ number < s * (x + 1)
  BY ScaleIs DEF Scaled
<1>2. Scale(radix, n + 1) = radix * s
  BY <1>1, ScaleSteps
<1>3. x = radix * rest + digit /\ rest \in Nat /\ digit \in 0..radix - 1
  BY <1>1, Division
<1> HIDE DEF s, rest, digit
<1>4. radix * rest <= x /\ x + 1 <= radix * (rest + 1)
  <2>1. CASE radix = 2
    BY <1>1, <1>3, <2>1
  <2>2. CASE radix = 10
    BY <1>1, <1>3, <2>2
  <2>3. CASE radix = 16
    BY <1>1, <1>3, <2>3
  <2> QED
    BY <2>1, <2>2, <2>3
<1>5. (radix * s) * rest <= s * x /\ s * (x + 1) <= (radix * s) * (rest + 1)
  <2>1. ASSUME NEW a \in Nat, NEW b \in Nat, a <= b PROVE s * a <= s * b
    BY ONLY <1>1, <2>1
  <2>2. radix * rest \in Nat /\ radix * (rest + 1) \in Nat /\ radix \in Nat
    BY <1>3
  <2>3. s * (radix * rest) <= s * x /\ s * (x + 1) <= s * (radix * (rest + 1))
    BY <1>1, <1>4, <2>1, <2>2
  <2>4. s * (radix * rest) = (radix * s) * rest /\ s * (radix * (rest + 1)) = (radix * s) * (rest + 1)
    BY ONLY <1>1, <1>3, <2>2
  <2> QED
    BY <2>3, <2>4
<1>6. (radix * s) * rest <= number /\ number < (radix * s) * (rest + 1)
  <2>1. /\ (radix * s) * rest \in Int /\ (radix * s) * (rest + 1) \in Int
        /\ s * x \in Int /\ s * (x + 1) \in Int
    BY ONLY <1>1, <1>3, radix \in {2, 10, 16}
  <2> QED
    BY <1>1, <1>5, <2>1
<1>7. Scaled(number, rest, n + 1, radix)
  BY <1>1, <1>2, <1>3, <1>6 DEF Scaled
<1> QED
  BY <1>7 DEF rest

\* Something is left behind twenty digits of large binary numbers only.
LEMMA ScaledFull ==
    ASSUME NEW radix \in {2, 10, 16}, NEW number \in Int, NEW x, x > 0, number < Wide,
           Scaled(number, x, 20, radix)
    PROVE  radix = 2 /\ number >= 2 ^ 20
<1> DEFINE s == Scale(radix, 20)
<1>1. s \in Nat /\ x \in Nat /\ s * x <= number /\ s >= 0 /\ x >= 1
  BY ScaleIs DEF Scaled
<1> HIDE DEF s
<1>2. s <= number
  <2>1. s * 1 <= s * x
    BY ONLY <1>1
  <2>2. s * x \in Int /\ s * 1 = s
    BY ONLY <1>1
  <2> QED
    BY <1>1, <2>1, <2>2
<1>3. radix = 2 => s = 2 ^ 20
  BY TwentyDigits, Zenon DEF s
<1>4. radix # 2 => s >= Wide
  BY TwentyDigits DEF s
<1>5. 2 ^ 20 \in Nat /\ Wide \in Nat
  BY TwentyDigits
<1> QED
  BY <1>1, <1>2, <1>3, <1>4, <1>5

\* A number of which twenty binary digits leave nothing.
LEMMA ScaledLast ==
    ASSUME NEW number \in Int, NEW n, Scaled(number, 0, n, 2)
    PROVE  number < 2 ^ 20
<1>1. number < Scale(2, n) * (0 + 1) /\ Scale(2, n) \in Nat /\ Scale(2, n) <= 2 ^ 20
  BY ScaleIs, TwentyDigits DEF Scaled
<1> QED
  BY <1>1, TwentyDigits

\* No number is in progress at the start.
LEMMA WidthInvInitially == ConsoleInit => WidthInv
  BY DEF ConsoleInit, WidthInv, OverrunOnlyBinary, NoLog

\* Before the first digit all of the number is left.
LEMMA StartWidth ==
    ASSUME NEW routine \in Modes \union {"int"}, NEW number \in Int, number < Wide,
           StartLog(routine, number)
    PROVE  WidthInv'
<1>1. /\ log'.routine = routine /\ log'.number = number /\ log'.x = number
      /\ log'.buffer = <<>> /\ log'.status = "collecting"
  BY DEF StartLog
<1>2. ASSUME number > 0 PROVE Scaled(number, number, 0, Radix(routine))
  <2>1. Scale(Radix(routine), 0) = 1
    BY RadixIs, ScaleIs
  <2> QED
    BY <1>2, <2>1 DEF Scaled
<1>3. Len(log'.buffer) = 0
  BY <1>1
<1> QED
  BY <1>1, <1>2, <1>3, Zenon DEF WidthInv, OverrunOnlyBinary

\* A digit that does not fit is the twenty-first of a binary number.
LEMMA CollectWidth ==
    ASSUME DigitsInv, WidthInv, CollectDigit
    PROVE  WidthInv'
<1> DEFINE n == Len(log.buffer)
           radix == Radix(log.routine)
<1>1. /\ log.status = "collecting" /\ log.x > 0 /\ log.number \in Int /\ log.number > 0
      /\ log.buffer \in Seq(Nat) /\ n \in Nat
  BY DEF CollectDigit, DigitsInv, DigitsCollected, ConsoleTypes
<1>2. radix \in {2, 10, 16} /\ log.number < Wide /\ Scaled(log.number, log.x, n, radix)
  BY <1>1, RadixIs DEF WidthInv
<1>3. n = 20 => radix = 2 /\ log.number >= 2 ^ 20
  BY <1>1, <1>2, ScaledFull
<1>4. n \in 0..20
  BY <1>2 DEF Scaled
<1>5. log.routine \in Modes \union {"int", "none"} /\ (radix = 2 => log.routine = "bin")
  BY DEF Radix, DigitsInv, ConsoleTypes
<1>6. CASE n = BufferSize(log.routine)
  <2>1. log' = [log EXCEPT !.status = "overrun"]
    BY <1>6 DEF CollectDigit
  <2>2. log'.status = "overrun" /\ log'.routine = log.routine /\ log'.number = log.number
    BY <2>1 DEF DigitsInv, ConsoleTypes
  <2>3. n = 20
    BY <1>4, <1>6 DEF BufferSize
  <2> QED
    BY <1>3, <1>5, <2>2, <2>3 DEF WidthInv, OverrunOnlyBinary
<1>7. CASE n # BufferSize(log.routine)
  <2>1. n # 20
    BY <1>3, <1>5, <1>7 DEF BufferSize
  <2>2. log' = [log EXCEPT !.x = @ \div radix, !.buffer = Append(@, Character(log.x % radix))]
    BY <1>7 DEF CollectDigit
  <2> DEFINE digit == Character(log.x % radix)
  <2>3. Scaled(log.number, log.x \div radix, n + 1, radix)
    BY <1>1, <1>2, <2>1, ScaledStep
  <2>4. Len(Append(log.buffer, digit)) = n + 1
    BY <1>1
  <2> HIDE DEF digit
  <2>5. /\ log'.routine = log.routine /\ log'.number = log.number /\ log'.status = "collecting"
        /\ log'.x = log.x \div radix /\ log'.buffer = Append(log.buffer, digit)
    BY <1>1, <2>2, Zenon DEF DigitsInv, ConsoleTypes, digit
  <2> QED
    BY <1>1, <1>2, <2>3, <2>4, <2>5, Zenon DEF WidthInv, OverrunOnlyBinary
<1> QED
  BY <1>6, <1>7

\* A binary number of which nothing is left had twenty digits at most.
LEMMA LastWidth ==
    ASSUME DigitsInv, WidthInv, LastDigit
    PROVE  WidthInv'
<1>1. /\ log.status = "collecting" /\ log.number # 0 /\ log.x <= 0 /\ log.number \in Int
      /\ log' = [log EXCEPT !.status = "sending"] /\ log.number < Wide
  BY DEF LastDigit, DigitsInv, ConsoleTypes, WidthInv
<1>2. log'.routine = log.routine /\ log'.number = log.number /\ log'.status = "sending"
  BY <1>1 DEF DigitsInv, ConsoleTypes
<1>3. log.routine = "bin" => log.number < 2 ^ 20
  <2>1. CASE log.number > 0 /\ log.routine = "bin"
    <3>1. Scaled(log.number, log.x, Len(log.buffer), 2)
      BY <1>1, <2>1 DEF WidthInv, Radix
    <3>2. log.x = 0
      BY <1>1, <3>1 DEF Scaled
    <3> QED
      BY <1>1, <3>1, <3>2, ScaledLast
  <2>2. CASE log.number < 0
    BY <1>1, <2>2, TwentyDigits
  <2> QED
    BY <1>1, <2>1, <2>2
<1> QED
  BY <1>1, <1>2, <1>3, Zenon DEF WidthInv, OverrunOnlyBinary

\* Every step of the console keeps the widths.
LEMMA WidthInvKept == DigitsInv /\ WidthInv /\ [ConsoleNext]_consoleVars => WidthInv'
<1> SUFFICES ASSUME DigitsInv, WidthInv, [ConsoleNext]_consoleVars PROVE WidthInv'
  OBVIOUS
<1>1. m_mode \in Modes /\ ConsoleTypes
  BY DEF DigitsInv, ConsoleTypes
<1>2. ASSUME NEW i \in Signed, InsertInt(i) PROVE WidthInv'
  BY <1>2, StartWidth, NumbersFit DEF InsertInt
<1>3. ASSUME NEW i \in Unsigned, InsertUnsigned(i) PROVE WidthInv'
  BY <1>1, <1>3, StartWidth, NumbersFit DEF InsertUnsigned
<1>4. ASSUME log' = NoLog PROVE WidthInv'
  BY <1>4 DEF WidthInv, OverrunOnlyBinary, NoLog
<1>5. ASSUME NEW im \in Modes, InsertMode(im) PROVE WidthInv'
  BY <1>4, <1>5 DEF InsertMode
<1>6. ASSUME NEW st \in Texts, InsertText(st) \/ InsertString(st) PROVE WidthInv'
  BY <1>4, <1>6 DEF InsertText, InsertString
<1>7. ASSUME LogZero PROVE WidthInv'
  <2>1. log'.routine = log.routine /\ log'.number = 0 /\ log'.status = "returned"
    BY <1>1, <1>7 DEF LogZero, ConsoleTypes
  <2>2. 0 < 2 ^ 20
    BY SMT
  <2> QED
    BY <2>1, <2>2 DEF WidthInv, OverrunOnlyBinary
<1>8. ASSUME SendDigit PROVE WidthInv'
  <2>1. log'.routine = log.routine /\ log'.number = log.number /\ log'.status = log.status
        /\ log.status = "sending"
    BY <1>1, <1>8 DEF SendDigit, ConsoleTypes
  <2> QED
    BY <2>1, Zenon DEF WidthInv, OverrunOnlyBinary
<1>9. ASSUME LogReturns PROVE WidthInv'
  <2>1. log'.routine = log.routine /\ log'.number = log.number /\ log'.status = "returned"
        /\ log.status = "sending"
    BY <1>1, <1>9 DEF LogReturns, ConsoleTypes
  <2> QED
    BY <2>1, Zenon DEF WidthInv, OverrunOnlyBinary
<1>10. CASE UNCHANGED consoleVars
  BY <1>10 DEF consoleVars, WidthInv, OverrunOnlyBinary
<1> QED
  BY <1>2, <1>3, <1>5, <1>6, <1>7, <1>8, <1>9, <1>10, CollectWidth, LastWidth DEF ConsoleNext

\* No buffer but that of log_bin is too small for any number of 64 bits, and that one is
\* for exactly the numbers of more than twenty binary digits (logger.hpp:85-106).
THEOREM OverrunsAreBinary == ConsoleSpec => []OverrunOnlyBinary
<1>1. WidthInv => OverrunOnlyBinary
  BY DEF WidthInv
<1>2. DigitsInv /\ WidthInv /\ [ConsoleNext]_consoleVars => WidthInv'
  BY WidthInvKept
<1> QED
  BY <1>1, <1>2, WidthInvInitially, DigitsInvariant, PTL DEF ConsoleSpec

-----------------------------------------------------------------------------
(* The disk. *)

States == {"ready", "commanded", "working", "identified"}
Places == {"idle", "unsupported", "select", "identify", "exists", "nonexistent",
           "status", "poll", "finished"}

Types ==
    /\ drive \in [kind : Kinds, state : States]
    /\ disk \in [pc : Places, status : {0, BSY, DRDY, 255}, seen : BOOLEAN]

\* What a read that has shown BSY tells of the drive from then on: a drive that is
\* there has begun, a bus that floats shows it for ever, and no other bus shows it.
SeenMeansBegun ==
    disk.seen =>
        /\ There => drive.state \in {"working", "identified"}
        /\ drive.kind # "absent"
        /\ disk.pc \in {"exists", "status", "poll", "finished"}

\* What the status in the loop says.
StatusTold ==
    /\ disk.pc = "poll" /\ disk.seen /\ ~Busy(disk.status) =>
            There /\ drive.state = "identified"
    /\ disk.pc = "finished" /\ disk.seen => There /\ drive.state = "identified"

DiskInv == Types /\ SeenMeansBegun /\ StatusTold

\* The status of each bus, and which of them are busy.
LEMMA Statuses ==
    ASSUME Types
    PROVE  /\ StatusPort \in {0, BSY, DRDY, 255}
           /\ StatusPort >= BSY <=>
                drive.kind = "floating" \/ (There /\ drive.state = "working")
           /\ Busy(StatusPort) <=>
                drive.kind = "floating" \/ (There /\ drive.state = "working")
           /\ StatusPort = 0 <=> drive.kind = "absent"
<1>1. Busy(128) /\ Busy(255) /\ ~Busy(0) /\ ~Busy(64)
    BY DEF Busy, BSY
<1>2. CASE drive.kind = "absent"
    BY <1>1, <1>2 DEF StatusPort, There, BSY, DRDY
<1>3. CASE drive.kind = "floating"
    BY <1>1, <1>3 DEF StatusPort, There, BSY, DRDY
<1>4. CASE There
    BY <1>1, <1>4 DEF StatusPort, There, BSY, DRDY
<1> QED
    BY <1>2, <1>3, <1>4 DEF Types, Kinds, There

LEMMA DiskInvInitially == DiskInit => DiskInv
BY DEF DiskInit, DiskInv, Types, Kinds, States, Places, SeenMeansBegun, StatusTold, BSY, DRDY

LEMMA DiskInvKept == DiskInv /\ [DiskNext]_diskVars => DiskInv'
<1> SUFFICES ASSUME DiskInv, [DiskNext]_diskVars PROVE DiskInv'
    OBVIOUS
<1> USE DEF DiskInv
<1>1. ASSUME NEW number \in 0..1, NEW bus \in 0..1, InitialiseAtaPio(number, bus) PROVE DiskInv'
    BY <1>1 DEF InitialiseAtaPio, Types, SeenMeansBegun, StatusTold, Places
<1>2. CASE SelectDrive
    BY <1>2 DEF SelectDrive, Goto, Types, SeenMeansBegun, StatusTold, Places, There
<1>3. CASE SendIdentify
    BY <1>3 DEF SendIdentify, Goto, Types, SeenMeansBegun, StatusTold, Places, There, States
<1>4. CASE TestExistence
  <2>1. drive' = drive /\ There' = There /\ disk'.seen = Seen /\ disk'.status \in {0, BSY, DRDY, 255}
      BY <1>4, Statuses DEF TestExistence, Types, There
  <2>2. disk'.pc = IF drive.kind = "absent" THEN "nonexistent" ELSE "status"
      BY <1>4, Statuses DEF TestExistence, Types
  <2>3. Types'
      BY <1>4, <2>1, Statuses, ZenonT(60) DEF TestExistence, Types, Places, Seen
  <2>4. Seen => drive.kind # "absent" /\ (There => drive.state \in {"working", "identified"})
      BY Statuses DEF Seen, SeenMeansBegun, There
  <2>5. SeenMeansBegun'
      BY <2>1, <2>2, <2>4, Statuses DEF SeenMeansBegun
  <2>6. StatusTold'
      BY <2>1, <2>2, <2>4, Statuses DEF StatusTold, There, Types, Kinds
  <2> QED
      BY <2>3, <2>5, <2>6
<1>5. CASE ReadStatus
  <2>1. drive' = drive /\ There' = There /\ disk'.seen = Seen /\ disk'.status \in {0, BSY, DRDY, 255}
      BY <1>5, Statuses DEF ReadStatus, Types, There
  <2>2. disk'.pc = "poll" /\ disk'.status = StatusPort
      BY <1>5, Statuses DEF ReadStatus, Types
  <2>3. Types'
      BY <1>5, <2>1, Statuses DEF ReadStatus, Types, Places, Seen
  <2>4. Seen => drive.kind # "absent" /\ (There => drive.state \in {"working", "identified"})
      BY Statuses DEF Seen, SeenMeansBegun, There
  <2>5. SeenMeansBegun'
      BY <2>1, <2>2, <2>4, Statuses DEF SeenMeansBegun
  <2>6. StatusTold'
      BY <2>1, <2>2, <2>4, Statuses DEF StatusTold, There, Types, Kinds
  <2> QED
      BY <2>3, <2>5, <2>6
<1>6. CASE Poll
  <2>1. drive' = drive /\ There' = There /\ disk.pc = "poll"
      BY <1>6 DEF Poll, There
  <2>2. CASE Busy(disk.status)
    <3>1. disk'.pc = "poll" /\ disk'.status = StatusPort /\ disk'.seen = Seen
        BY <1>6, <2>2 DEF Poll, NextStatus, Types
    <3>2. Types'
      <4>1. disk' = [disk EXCEPT !.status = StatusPort, !.seen = Seen] /\ drive' = drive
          BY <1>6, <2>2 DEF Poll, NextStatus
      <4>2. Seen \in BOOLEAN /\ StatusPort \in {0, BSY, DRDY, 255}
          BY Statuses DEF Seen, Types
      <4>3. Types /\ disk'.pc = disk.pc
          BY <3>1, <2>1
      <4> QED
          BY ONLY <4>1, <4>2, <4>3, ZenonT(60) DEF Types
    <3>3. Seen => drive.kind # "absent" /\ (There => drive.state \in {"working", "identified"})
        BY Statuses DEF Seen, SeenMeansBegun, There
    <3>4. SeenMeansBegun'
        BY <2>1, <3>1, <3>3 DEF SeenMeansBegun
    <3>5. StatusTold'
        BY <2>1, <3>1, <3>3, Statuses DEF StatusTold, There, Types, Kinds
    <3> QED
        BY <3>2, <3>4, <3>5
  <2>3. CASE ~Busy(disk.status)
    <3>1. disk'.pc = "finished" /\ disk'.status = disk.status /\ disk'.seen = disk.seen
        BY <1>6, <2>3 DEF Poll, Types
    <3>2. Types'
        BY <1>6, <2>1, <2>3 DEF Poll, Types, Places
    <3>3. SeenMeansBegun' /\ StatusTold'
        BY <2>1, <2>3, <3>1 DEF SeenMeansBegun, StatusTold
    <3> QED
        BY <3>2, <3>3
  <2> QED
      BY <2>2, <2>3
<1>7. CASE DriveStarts
    BY <1>7 DEF DriveStarts, Types, SeenMeansBegun, StatusTold, There, States
<1>8. CASE DriveEnds
    BY <1>8 DEF DriveEnds, Types, SeenMeansBegun, StatusTold, There, States
<1>9. CASE UNCHANGED diskVars
    BY <1>9 DEF diskVars, Types, SeenMeansBegun, StatusTold, There
<1> QED
    BY <1>1, <1>2, <1>3, <1>4, <1>5, <1>6, <1>7, <1>8, <1>9 DEF DiskNext, Kernel

\* "finished polling!" is not said of a drive that was seen at work and has not
\* ended, however many calls are made and whatever the bus is (ataio.cpp:34-49).
THEOREM FinishedDrivesIdentified == DiskSpec => []FinishedMeansIdentified
<1>1. DiskInv => FinishedMeansIdentified
    BY DEF DiskInv, StatusTold, FinishedMeansIdentified
<1> QED
    BY <1>1, DiskInvInitially, DiskInvKept, PTL DEF DiskSpec

-----------------------------------------------------------------------------
(* The composition. *)

\* A behavior of all the routines is one of each group, whose other steps leave the
\* state of the group alone: what is proved of a group holds where they meet.
THEOREM RoutinesRight ==
    RoutinesSpec =>
        /\ [](WalkFindsPage /\ EmptyEntryFaults /\ ParseFindsPages)
        /\ EditsAreLocal
        /\ [](CopiesMandated /\ ComparesMandated)
        /\ [](PrintedIsNumber /\ OverrunOnlyBinary)
        /\ []FinishedMeansIdentified
<1>1. RoutinesInit => TablesInit /\ StringInit /\ ConsoleInit /\ DiskInit
  BY DEF RoutinesInit
<1>2. [RoutinesNext]_routinesVars =>
        /\ [TablesNext]_tableVars /\ [StringNext]_stringVars
        /\ [ConsoleNext]_consoleVars /\ [DiskNext]_diskVars
  <2> SUFFICES ASSUME [RoutinesNext]_routinesVars
               PROVE  /\ TablesNext \/ UNCHANGED tableVars
                      /\ StringNext \/ UNCHANGED stringVars
                      /\ ConsoleNext \/ UNCHANGED consoleVars
                      /\ DiskNext \/ UNCHANGED diskVars
    OBVIOUS
  <2>1. CASE RoutinesNext
    BY <2>1, Zenon DEF RoutinesNext
  <2>2. CASE UNCHANGED routinesVars
    BY <2>2, Zenon DEF routinesVars
  <2> QED
    BY <2>1, <2>2
<1>3. RoutinesSpec => TablesSpec /\ StringSpec /\ ConsoleSpec /\ DiskSpec
  BY <1>1, <1>2, PTL DEF RoutinesSpec, TablesSpec, StringSpec, ConsoleSpec, DiskSpec
<1>4. RoutinesSpec => [](WalkFindsPage /\ EmptyEntryFaults /\ ParseFindsPages)
  BY <1>3, LookupRight, EmptyEntriesFault, ParseRight, PTL
<1>5. RoutinesSpec => EditsAreLocal
  BY <1>3, EditsLocal
<1>6. RoutinesSpec => [](CopiesMandated /\ ComparesMandated)
  BY <1>3, CopiesAsMandated, ComparesAsMandated, PTL
<1>7. RoutinesSpec => []FinishedMeansIdentified
  BY <1>3, FinishedDrivesIdentified, PTL
<1>8. RoutinesSpec => [](PrintedIsNumber /\ OverrunOnlyBinary)
  BY <1>3, NumbersReadBack, OverrunsAreBinary, PTL
<1> QED
  BY <1>4, <1>5, <1>6, <1>7, <1>8, PTL
=============================================================================
