-------------------------- MODULE PageFramesProofs --------------------------
(***************************************************************************)
(* Theorems about PageFrames, for every memory map the boot protocol        *)
(* allows and every size of the table.                                     *)
(***************************************************************************)
EXTENDS PageFrames, SumProofs, TLAPS

-----------------------------------------------------------------------------
(* Multiples of the page size. *)

\* A multiple and what is less than one more have a unique quotient.
LEMMA Multiple ==
    ASSUME NEW q \in Nat, NEW r \in Nat, NEW P \in Nat \ {0}, r < P
    PROVE  (P * q + r) % P = r /\ (P * q + r) \div P = q
  BY SMT

LEMMA MultiplesApart ==
    ASSUME NEW k \in Nat, NEW m \in Nat, NEW P \in Nat \ {0}, P * k < P * m
    PROVE  P * k + P <= P * m
<1>1. k < m
  BY SMT
<1>2. P * (k + 1) <= P * m
  BY <1>1, SMT
<1>3. P * (k + 1) = P * k + P
  BY SMT
<1> QED BY <1>2, <1>3

\* A page that begins below an aligned end lies below it.
LEMMA PagesApart ==
    ASSUME NEW a \in Nat, NEW b \in Nat, NEW P \in Nat \ {0},
           a % P = 0, b % P = 0, a < b
    PROVE  a + P <= b
<1>1. a = P * (a \div P) /\ b = P * (b \div P) /\ a \div P \in Nat /\ b \div P \in Nat
  BY Division
<1> QED BY <1>1, MultiplesApart

\* Sums of multiples are multiples.
LEMMA SumAligned ==
    ASSUME NEW a \in Nat, NEW b \in Nat, NEW P \in Nat \ {0}, a % P = 0, b % P = 0
    PROVE  (a + b) % P = 0
<1> DEFINE j == a \div P
           k == b \div P
<1>1. a = P * j /\ b = P * k /\ j \in Nat /\ k \in Nat
  BY Division
<1>2. a + b = P * (j + k) + 0
  BY <1>1, SMT
<1>3. j + k \in Nat /\ 0 < P
  BY <1>1
<1> HIDE DEF j, k
<1>4. (P * (j + k) + 0) % P = 0
  BY <1>3, Multiple
<1> QED BY <1>2, <1>4

\* The page of an address is aligned, and at or below it.
LEMMA PageOfAligned ==
    ASSUME NEW a \in Nat, NEW P \in Nat \ {0}
    PROVE  /\ a - (a % P) \in Nat
           /\ (a - (a % P)) % P = 0
           /\ a - (a % P) <= a
           /\ a < a - (a % P) + P
<1> DEFINE q == a \div P
           r == a % P
<1>1. a = P * q + r /\ q \in Nat /\ r \in 0..P - 1
  BY Division
<1> HIDE DEF q, r
<1>2. a - r = P * q + 0 /\ P * q \in Nat
  BY <1>1, SMT
<1>3. (P * q + 0) % P = 0
  BY <1>1, Multiple
<1>4. (a - r) % P = 0
  BY <1>2, <1>3
<1>5. a - r \in Nat /\ a - r <= a /\ a < a - r + P
  BY <1>1, <1>2
<1> QED BY <1>4, <1>5 DEF r

\* The page of an address, counted from an aligned base.
LEMMA PageFromBase ==
    ASSUME NEW a \in Nat, NEW b \in Nat, NEW P \in Nat \ {0}, b % P = 0, b <= a
    PROVE  /\ (a - b) \div P \in Nat
           /\ a - (a % P) = b + ((a - b) \div P) * P
<1> DEFINE d == a - b
           q == d \div P
           r == d % P
           k == b \div P
<1>1. d \in Nat /\ a = b + d
  OBVIOUS
<1> HIDE DEF d
<1>2. d = P * q + r /\ q \in Nat /\ r \in 0..P - 1
  BY <1>1, Division
<1>3. b = P * k /\ k \in Nat
  <2>1. b = P * k + (b % P) /\ k \in Nat
    BY Division
  <2> HIDE DEF k
  <2> QED
    BY <2>1
<1> HIDE DEF q, r, k
<1>4. a = P * (k + q) + r /\ r \in Nat /\ r < P /\ k + q \in Nat
  BY <1>1, <1>2, <1>3
<1>5. a % P = r
  BY <1>4, Multiple
<1>6. a - r = b + q * P
  BY <1>1, <1>2, <1>3
<1> QED
  BY <1>2, <1>5, <1>6 DEF q, d

-----------------------------------------------------------------------------
(* The memory map. *)

\* The usable entries have natural numbers for their bounds, all aligned.
LEMMA UsableEntries ==
    ASSUME MapOK(memmap), NEW i \in Usable
    PROVE  /\ i \in 1..Len(memmap) /\ Len(memmap) \in Nat
           /\ memmap[i].base \in Nat /\ EndOf(memmap[i]) \in Nat
           /\ memmap[i].base <= EndOf(memmap[i])
           /\ memmap[i].base % PageSize = 0 /\ EndOf(memmap[i]) % PageSize = 0
<1>1. memmap \in Seq(Entry) /\ i \in DOMAIN memmap
  BY DEF MapOK, Usable
<1>2. i \in 1..Len(memmap) /\ Len(memmap) \in Nat /\ memmap[i] \in Entry
  BY <1>1
<1>3. memmap[i].base \in Nat /\ memmap[i].length \in Nat
  BY <1>2 DEF Entry
<1>4. memmap[i].base % PageSize = 0 /\ memmap[i].length % PageSize = 0
  BY <1>1 DEF MapOK, Usable
<1>5. EndOf(memmap[i]) % PageSize = 0
  BY <1>3, <1>4, SumAligned, PagesAssumption DEF EndOf
<1> QED BY <1>2, <1>3, <1>4, <1>5 DEF EndOf

\* They lie in ascending order.
LEMMA UsableAscend ==
    ASSUME MapOK(memmap), NEW i \in Usable, NEW j \in Usable, i < j
    PROVE  EndOf(memmap[i]) <= memmap[j].base
  BY DEF MapOK, Usable

-----------------------------------------------------------------------------
(* The inductive invariant. *)

\* Inside a block, the next address is the next page of it, or its end.
CursorInBlock ==
    loop.inside =>
        /\ loop.i + 1 \in Usable
        /\ loop.paddr % PageSize = 0
        /\ Current.base <= loop.paddr /\ loop.paddr <= EndOf(Current)

\* Frame n is a page of usable entry i.
FrameOf(n, i) ==
    /\ PageAddress(n) % PageSize = 0
    /\ memmap[i].base <= PageAddress(n)
    /\ PageAddress(n) + PageSize <= EndOf(memmap[i])

\* An address of entry i the loops have passed; the last one may be under way.
PassedBlock(i) == i <= loop.i
InPassedPart(paddr, i) == loop.inside /\ i = loop.i + 1 /\ paddr < loop.paddr
AtCursor(paddr, i) == status # "filling" /\ loop.inside /\ i = loop.i + 1 /\ paddr = loop.paddr

FramesPlaced ==
    \A n \in Tracked : \E i \in Usable :
        /\ FrameOf(n, i)
        /\ PassedBlock(i) \/ InPassedPart(PageAddress(n), i) \/ AtCursor(PageAddress(n), i)

FramesAscend == \A m, n \in Tracked : m < n => PageAddress(m) < PageAddress(n)

PagesCovered ==
    \A i \in Usable : \A paddr \in BytesOf(i) :
        paddr % PageSize = 0 /\ (PassedBlock(i) \/ InPassedPart(paddr, i)) =>
            \E m \in Tracked : PageAddress(m) = paddr

IInv == TypeOK /\ CursorInBlock /\ FramesPlaced /\ FramesAscend /\ PagesCovered

-----------------------------------------------------------------------------
(* Type correctness. *)

LEMMA TypeInit == Init => TypeOK
  BY PagesAssumption DEF Init, TypeOK, Frames, MapOK

LEMMA TypeStep == TypeOK /\ [Next]_vars => TypeOK'
<1> SUFFICES ASSUME TypeOK, [Next]_vars PROVE TypeOK'
  OBVIOUS
<1> USE PagesAssumption
<1> DEFINE Loops == [i : 0..Len(memmap), inside : BOOLEAN, paddr : Nat,
                     frameIndex : 0..availablePages, initialBlockIndex : 0..IndexValues - 1]
<1>0. Len(memmap) \in Nat /\ loop \in Loops /\ memmap \in Seq(Entry)
  BY DEF TypeOK, MapOK
<1>1. CASE CheckBootPages
  BY <1>0, <1>1 DEF CheckBootPages, TypeOK
<1>2. CASE InitialisePageFrames
  <2>1. loop' \in Loops
    BY <1>0, <1>2 DEF InitialisePageFrames
  <2> QED BY <1>0, <1>2, <2>1 DEF InitialisePageFrames, AtEntryNumber, TypeOK
<1>3. CASE AtEntry \/ InBlock
  <2>1. /\ status = "filling" /\ loop.i < Len(memmap)
        /\ loop.i \in Nat /\ loop.i + 1 \in 0..Len(memmap)
        /\ loop.frameIndex < availablePages
    BY <1>0, <1>3 DEF AtEntry, InBlock, TypeOK
  <2>2. Current \in Entry
    BY <1>0, <2>1 DEF Current
  <2>3. AtEntryNumber(loop.i + 1) = IF loop.i + 1 = Len(memmap) THEN "finished" ELSE "filling"
    BY DEF AtEntryNumber
  <2>4. CASE SkipEntry
    <3>1. loop' \in Loops /\ loop'.i = loop.i + 1 /\ loop'.frameIndex = loop.frameIndex
      BY <1>0, <2>1, <2>4 DEF SkipEntry
    <3> QED BY <1>0, <2>1, <2>3, <2>4, <3>1, SMTT(60) DEF SkipEntry, TypeOK
  <2>5. CASE EnterBlock
    <3>1. Current.base \in Nat /\ Initial(loop.initialBlockIndex) \in 0..IndexValues - 1
      BY <1>0, <2>1, <2>2, SMTT(60) DEF Entry, Initial
    <3>2. loop' \in Loops /\ loop'.i = loop.i /\ loop'.frameIndex = loop.frameIndex
      BY <1>0, <2>5, <3>1 DEF EnterBlock
    <3> QED BY <2>1, <2>5, <3>2 DEF EnterBlock, TypeOK
  <2>6. CASE PopulateFrame
    <3>1. /\ loop.frameIndex \in Frames /\ loop.frameIndex + 1 \in 0..availablePages
          /\ NextPage \in Nat /\ loop.paddr \in Nat
      BY <1>0, <2>1 DEF Frames, NextPage
    <3>2. frameMap' \in [Frames -> [base : Nat, count : {-1, 0}]]
      BY <2>6, <3>1 DEF PopulateFrame, TypeOK
    <3>3. loop' \in Loops
      BY <1>0, <2>6, <3>1 DEF PopulateFrame
    <3>4. loop'.frameIndex = loop.frameIndex + 1 /\ loop'.i = loop.i /\ memmap' = memmap
      BY <1>0, <2>6 DEF PopulateFrame
    <3>5. /\ status' \in {"filling", "finished"}
          /\ status' = "filling" => loop'.frameIndex < availablePages
      BY <2>1, <2>6, <3>1, <3>4 DEF PopulateFrame, TableFull, Frames
    <3> QED BY <2>1, <2>6, <3>2, <3>3, <3>4, <3>5 DEF PopulateFrame, TypeOK
  <2>7. CASE LeaveBlock
    <3>1. startOfRam' \in Nat
      BY <2>2, <2>7 DEF LeaveBlock, Entry, TypeOK
    <3>2. loop' \in Loops /\ loop'.i = loop.i + 1 /\ loop'.frameIndex = loop.frameIndex
      BY <1>0, <2>1, <2>7 DEF LeaveBlock
    <3> QED BY <1>0, <2>1, <2>3, <2>7, <3>1, <3>2, SMTT(60) DEF LeaveBlock, TypeOK
  <2>8. CASE CheckBootPages \/ InitialisePageFrames
    BY <2>1, <2>8 DEF CheckBootPages, InitialisePageFrames
  <2>9. CASE UNCHANGED vars
    BY <2>9 DEF vars, TypeOK
  <2> QED BY <2>4, <2>5, <2>6, <2>7, <2>8, <2>9 DEF Next
<1>4. CASE UNCHANGED vars
  BY <1>4 DEF vars, TypeOK
<1> QED BY <1>1, <1>2, <1>3, <1>4
        DEF Next, SkipEntry, EnterBlock, PopulateFrame, LeaveBlock

\* Type correctness of the table and of the loops (pages.cpp:9-48): no write is
\* beyond the last descriptor and no entry is read beyond the end of the map.
THEOREM TypeCorrect == Spec => []TypeOK
  BY TypeInit, TypeStep, PTL DEF Spec

-----------------------------------------------------------------------------
(* Preservation of the rest of the invariant. *)

\* What PopulateFrame writes: one frame more, the others as they were.
LEMMA Populated ==
    ASSUME TypeOK, PopulateFrame
    PROVE  /\ memmap' = memmap /\ loop'.i = loop.i /\ loop'.inside /\ loop.inside
           /\ loop.frameIndex \in Nat /\ loop'.frameIndex = loop.frameIndex + 1
           /\ loop.paddr \in Nat /\ loop.paddr < EndOf(Current)
           /\ status = "filling"
           /\ frameMap'[loop.frameIndex].base = loop.paddr
           /\ \A n \in Tracked : PageAddress(n)' = PageAddress(n) /\ PageAddress(n) \in Nat
           /\ Tracked' = Tracked \union {loop.frameIndex}
           /\ \/ status' = "finished" /\ loop'.paddr = loop.paddr
              \/ status' = "filling" /\ loop'.paddr = loop.paddr + PageSize
<1>1. loop.frameIndex \in Frames /\ \A n \in Tracked : n \in Frames /\ n # loop.frameIndex
  BY PagesAssumption DEF TypeOK, PopulateFrame, InBlock, Frames, Tracked
<1>2. /\ loop'.i = loop.i /\ loop'.inside = loop.inside
      /\ loop'.frameIndex = loop.frameIndex + 1
      /\ loop'.paddr = IF TableFull THEN loop.paddr ELSE NextPage
  BY DEF TypeOK, PopulateFrame
<1>3. frameMap'[loop.frameIndex] = [base |-> loop.paddr, count |-> -1]
  BY <1>1 DEF TypeOK, PopulateFrame
<1>4. \A n \in Tracked : frameMap'[n] = frameMap[n]
  BY <1>1 DEF TypeOK, PopulateFrame
<1>5. \A n \in Tracked : PageAddress(n) \in Nat
  BY <1>1 DEF TypeOK, PageAddress
<1>6. loop.frameIndex \in Nat /\ loop.paddr \in Nat
  BY DEF TypeOK
<1>7. Tracked' = Tracked \union {loop.frameIndex}
  BY <1>2, <1>6 DEF Tracked
<1> QED BY <1>2, <1>3, <1>4, <1>5, <1>6, <1>7 DEF PopulateFrame, InBlock, MorePages, PageAddress, NextPage

\* The other steps leave the table alone and either begin, move on by an entry,
\* enter or leave a block, or change nothing of the loops.
LEMMA OtherSteps ==
    ASSUME TypeOK, [Next]_vars, ~PopulateFrame
    PROVE  /\ memmap' = memmap /\ frameMap' = frameMap
           /\ \/ loop'.i = 0 /\ ~loop'.inside /\ loop'.frameIndex = 0
              \/ /\ loop' = loop
                 /\ (status = "filling" => status' = "filling" \/ ~loop.inside)
                 /\ (status # "filling" => status' # "filling")
              \/ /\ loop'.frameIndex = loop.frameIndex /\ status = "filling"
                 /\ \/ /\ ~loop.inside /\ ~loop'.inside /\ loop'.i = loop.i + 1
                       /\ loop.i + 1 \notin Usable
                    \/ /\ ~loop.inside /\ loop'.inside /\ loop'.i = loop.i
                       /\ loop.i + 1 \in Usable /\ loop'.paddr = Current.base
                    \/ /\ loop.inside /\ ~loop'.inside /\ loop'.i = loop.i + 1
                       /\ ~(loop.paddr < EndOf(Current))
<1>1. CASE CheckBootPages
  BY <1>1 DEF CheckBootPages
<1>2. CASE InitialisePageFrames
  BY <1>2 DEF InitialisePageFrames
<1>3. CASE SkipEntry
  BY <1>3 DEF SkipEntry, AtEntry, TypeOK, Usable, Current
<1>4. CASE EnterBlock
  <2>1. loop.i + 1 \in DOMAIN memmap
    BY <1>4 DEF EnterBlock, AtEntry, TypeOK, MapOK
  <2> QED BY <1>4, <2>1 DEF EnterBlock, AtEntry, TypeOK, Usable, Current
<1>5. CASE LeaveBlock
  BY <1>5 DEF LeaveBlock, InBlock, TypeOK, MorePages
<1>6. CASE UNCHANGED vars
  BY <1>6 DEF vars
<1> QED BY <1>1, <1>2, <1>3, <1>4, <1>5, <1>6 DEF Next

LEMMA CursorStep == IInv /\ [Next]_vars => CursorInBlock'
<1> SUFFICES ASSUME IInv, [Next]_vars PROVE CursorInBlock'
  OBVIOUS
<1> USE PagesAssumption DEF IInv
<1>0. MapOK(memmap)
  BY DEF TypeOK
<1>1. CASE PopulateFrame
  <2>1. loop.i + 1 \in Usable /\ loop.paddr % PageSize = 0
        /\ Current.base <= loop.paddr /\ loop.paddr < EndOf(Current)
    BY <1>1, Populated DEF CursorInBlock
  <2>2. /\ Current.base \in Nat /\ EndOf(Current) \in Nat /\ EndOf(Current) % PageSize = 0
        /\ loop.paddr \in Nat
    BY <1>0, <1>1, <2>1, UsableEntries, Populated DEF Current
  <2>3. loop.paddr + PageSize <= EndOf(Current) /\ (loop.paddr + PageSize) % PageSize = 0
    <3>1. PageSize % PageSize = 0
      <4>1. (PageSize * 1 + 0) % PageSize = 0
        BY Multiple
      <4> QED BY <4>1
    <3> QED BY <2>1, <2>2, <3>1, PagesApart, SumAligned
  <2>4. Usable' = Usable /\ Current' = Current
    BY <1>1, Populated DEF Usable, Current
  <2> QED BY <1>1, <2>1, <2>2, <2>3, <2>4, Populated DEF CursorInBlock, EndOf
<1>2. CASE ~PopulateFrame
  <2>1. CASE ~loop'.inside
    BY <2>1 DEF CursorInBlock
  <2>2. CASE loop' = loop
    BY <1>2, <2>2, OtherSteps DEF CursorInBlock, Current, Usable
  <2>3. CASE loop'.inside /\ loop' # loop
    <3>1. /\ loop'.i = loop.i /\ loop.i + 1 \in Usable /\ loop'.paddr = Current.base
          /\ memmap' = memmap
      BY <1>2, <2>3, OtherSteps
    <3>2. Usable' = Usable /\ Current' = Current
      BY <3>1 DEF Usable, Current
    <3> QED BY <1>0, <3>1, <3>2, UsableEntries DEF CursorInBlock, Current, EndOf
  <2> QED BY <2>1, <2>2, <2>3
<1> QED BY <1>1, <1>2

LEMMA PlacedStep == IInv /\ [Next]_vars => FramesPlaced'
<1> SUFFICES ASSUME IInv, [Next]_vars, NEW n \in Tracked'
             PROVE  \E i \in Usable' :
                      /\ FrameOf(n, i)'
                      /\ \/ PassedBlock(i)' \/ InPassedPart(PageAddress(n), i)'
                         \/ AtCursor(PageAddress(n), i)'
  BY DEF FramesPlaced
<1> USE PagesAssumption DEF IInv
<1>0. MapOK(memmap) /\ loop.i \in Nat /\ loop.paddr \in Nat
  BY DEF TypeOK
<1>1. CASE PopulateFrame
  <2>1. Usable' = Usable /\ memmap' = memmap
    BY <1>1, Populated DEF Usable
  <2>2. CASE n = loop.frameIndex
    <3>0. PICK i \in Usable : i = loop.i + 1
      BY <1>1, Populated DEF CursorInBlock
    <3>1. /\ loop.paddr % PageSize = 0
          /\ memmap[i].base <= loop.paddr /\ loop.paddr < EndOf(memmap[i])
      BY <1>1, <3>0, Populated DEF CursorInBlock, Current
    <3>2. loop.paddr + PageSize <= EndOf(memmap[i])
      BY <1>0, <3>1, UsableEntries, PagesApart
    <3>3. PageAddress(n)' = loop.paddr
      BY <1>1, <2>2, Populated DEF PageAddress
    <3>4. FrameOf(n, i)'
      BY <2>1, <3>1, <3>2, <3>3 DEF FrameOf, EndOf
    <3>5. InPassedPart(PageAddress(n), i)' \/ AtCursor(PageAddress(n), i)'
      BY <1>0, <1>1, <3>0, <3>3, Populated DEF InPassedPart, AtCursor
    <3> QED BY <2>1, <3>4, <3>5
  <2>3. CASE n # loop.frameIndex
    <3>1. n \in Tracked /\ PageAddress(n)' = PageAddress(n) /\ PageAddress(n) \in Nat
      BY <1>1, <2>3, Populated
    <3>2. PICK i \in Usable :
            /\ FrameOf(n, i)
            /\ PassedBlock(i) \/ InPassedPart(PageAddress(n), i) \/ AtCursor(PageAddress(n), i)
      BY <3>1 DEF FramesPlaced
    <3>3. FrameOf(n, i)'
      BY <2>1, <3>1, <3>2 DEF FrameOf
    <3>4. PassedBlock(i)' \/ InPassedPart(PageAddress(n), i)'
      BY <1>0, <1>1, <3>1, <3>2, Populated DEF PassedBlock, InPassedPart, AtCursor
    <3> QED BY <2>1, <3>2, <3>3, <3>4
  <2> QED BY <2>2, <2>3
<1>2. CASE ~PopulateFrame
  <2>1. Usable' = Usable /\ memmap' = memmap /\ frameMap' = frameMap
    BY <1>2, OtherSteps DEF Usable
  <2>2. loop'.frameIndex = loop.frameIndex /\ n \in Tracked
    BY <1>2, OtherSteps DEF Tracked
  <2>3. PICK i \in Usable :
          /\ FrameOf(n, i)
          /\ PassedBlock(i) \/ InPassedPart(PageAddress(n), i) \/ AtCursor(PageAddress(n), i)
    BY <2>2 DEF FramesPlaced
  <2>4. FrameOf(n, i)' /\ i \in Usable' /\ i \in Int
    BY <1>0, <2>1, <2>3, UsableEntries DEF FrameOf, PageAddress
  <2>5. PassedBlock(i)' \/ InPassedPart(PageAddress(n), i)' \/ AtCursor(PageAddress(n), i)'
    <3>1. PageAddress(n)' = PageAddress(n)
      BY <2>1 DEF PageAddress
    <3>2. CASE loop'.i = 0 /\ ~loop'.inside /\ loop'.frameIndex = 0
      BY <3>2 DEF Tracked
    <3>3. CASE loop'.i # 0 \/ loop'.inside \/ loop'.frameIndex # 0
      BY <1>0, <1>2, <2>3, <2>4, <3>1, <3>3, OtherSteps
         DEF PassedBlock, InPassedPart, AtCursor
    <3> QED BY <3>2, <3>3
  <2> QED BY <2>4, <2>5
<1> QED BY <1>1, <1>2

LEMMA AscendStep == IInv /\ [Next]_vars => FramesAscend'
<1> SUFFICES ASSUME IInv, [Next]_vars, NEW m \in Tracked', NEW n \in Tracked', m < n
             PROVE  PageAddress(m)' < PageAddress(n)'
  BY DEF FramesAscend
<1> USE PagesAssumption DEF IInv
<1>0. MapOK(memmap) /\ loop.i \in Nat
  BY DEF TypeOK
<1>1. CASE PopulateFrame
  <2>1. m \in Tracked
    BY <1>1, Populated DEF Tracked
  <2>2. PageAddress(m)' = PageAddress(m) /\ PageAddress(m) \in Nat
    BY <1>1, <2>1, Populated
  <2>3. CASE n \in Tracked
    BY <1>1, <2>1, <2>2, <2>3, Populated DEF FramesAscend
  <2>4. CASE n = loop.frameIndex
    <3>1. PageAddress(n)' = loop.paddr /\ loop.paddr \in Nat
      BY <1>1, <2>4, Populated DEF PageAddress
    <3>2. PICK i \in Usable :
            /\ FrameOf(m, i)
            /\ PassedBlock(i) \/ InPassedPart(PageAddress(m), i) \/ AtCursor(PageAddress(m), i)
      BY <2>1 DEF FramesPlaced
    <3>3. CASE PassedBlock(i)
      <4>1. loop.i + 1 \in Usable /\ i < loop.i + 1 /\ Current.base <= loop.paddr
        BY <1>0, <1>1, <3>3, UsableEntries, Populated DEF CursorInBlock, PassedBlock
      <4>2. EndOf(memmap[i]) <= Current.base
        BY <1>0, <4>1, UsableAscend DEF Current
      <4>3. PageAddress(m) + PageSize <= EndOf(memmap[i])
        BY <3>2 DEF FrameOf
      <4>4. EndOf(memmap[i]) \in Nat /\ Current.base \in Nat
        BY <1>0, <4>1, UsableEntries DEF Current
      <4> QED BY <2>2, <3>1, <4>1, <4>2, <4>3, <4>4
    <3>4. CASE ~PassedBlock(i)
      BY <1>1, <2>2, <3>1, <3>2, <3>4, Populated DEF InPassedPart, AtCursor
    <3> QED BY <3>3, <3>4
  <2> QED BY <1>1, <2>3, <2>4, Populated
<1>2. CASE ~PopulateFrame
  <2>1. frameMap' = frameMap /\ loop'.frameIndex \in {loop.frameIndex, 0}
    BY <1>2, OtherSteps
  <2>2. loop'.frameIndex = loop.frameIndex
    BY <2>1 DEF Tracked
  <2> QED BY <2>1, <2>2 DEF FramesAscend, Tracked, PageAddress
<1> QED BY <1>1, <1>2

LEMMA CoveredStep == IInv /\ [Next]_vars => PagesCovered'
<1> SUFFICES ASSUME IInv, [Next]_vars, NEW i \in Usable', NEW paddr \in BytesOf(i)',
                    paddr % PageSize = 0, PassedBlock(i)' \/ InPassedPart(paddr, i)'
             PROVE  \E m \in Tracked' : PageAddress(m)' = paddr
  BY DEF PagesCovered
<1> USE PagesAssumption DEF IInv
<1>0. MapOK(memmap) /\ loop.i \in Nat /\ loop.paddr \in Nat
  BY DEF TypeOK
<1>1. memmap' = memmap /\ i \in Usable /\ paddr \in BytesOf(i)
  BY Populated, OtherSteps DEF Usable, BytesOf
<1>2. i \in 1..Len(memmap) /\ paddr \in Nat /\ paddr < EndOf(memmap[i])
      /\ memmap[i].base <= paddr
  BY <1>0, <1>1, UsableEntries DEF BytesOf
<1>3. ASSUME PassedBlock(i) \/ InPassedPart(paddr, i)
      PROVE  \E m \in Tracked : PageAddress(m) = paddr
  BY <1>1, <1>3 DEF PagesCovered
<1>4. CASE PopulateFrame
  <2>1. CASE PassedBlock(i) \/ InPassedPart(paddr, i)
    <3>1. PICK m \in Tracked : PageAddress(m) = paddr
      BY <1>3, <2>1
    <3> QED BY <1>4, <3>1, Populated
  <2>2. CASE ~(PassedBlock(i) \/ InPassedPart(paddr, i))
    <3>1. i = loop.i + 1 /\ loop.paddr <= paddr /\ paddr < loop.paddr + PageSize
      BY <1>0, <1>2, <1>4, <2>2, Populated DEF PassedBlock, InPassedPart
    <3>2. loop.paddr % PageSize = 0
      BY <1>4, Populated DEF CursorInBlock
    <3>3. paddr = loop.paddr
      BY <1>0, <1>2, <3>1, <3>2, PagesApart
    <3>4. frameMap'[loop.frameIndex].base = paddr /\ loop.frameIndex \in Tracked'
      BY <1>4, <3>3, Populated
    <3> QED BY <3>4 DEF PageAddress
  <2> QED BY <2>1, <2>2
<1>5. CASE ~PopulateFrame
  <2>1. CASE loop'.i = 0 /\ ~loop'.inside
    BY <1>2, <2>1 DEF PassedBlock, InPassedPart
  <2>2. CASE loop'.i # 0 \/ loop'.inside
    <3>1. PassedBlock(i) \/ InPassedPart(paddr, i)
      <4>1. /\ i \in Usable /\ (i = loop.i + 1 => Current = memmap[i])
            /\ EndOf(memmap[i]) \in Nat /\ memmap[i].base \in Nat
        BY <1>0, <1>1, UsableEntries DEF Current
      <4> QED BY <1>0, <1>2, <1>5, <2>2, <4>1, OtherSteps, SMTT(60) DEF PassedBlock, InPassedPart
    <3>2. PICK m \in Tracked : PageAddress(m) = paddr
      BY <1>3, <3>1
    <3>3. frameMap' = frameMap /\ loop'.frameIndex = loop.frameIndex
      BY <1>5, <2>2, OtherSteps
    <3> QED BY <3>2, <3>3 DEF PageAddress, Tracked
  <2> QED BY <2>1, <2>2
<1> QED BY <1>4, <1>5

-----------------------------------------------------------------------------
(* The theorems. *)

LEMMA InvInit == Init => IInv
<1> SUFFICES ASSUME Init PROVE IInv
  OBVIOUS
<1>1. TypeOK
  BY TypeInit
<1>2. Tracked = {} /\ ~loop.inside /\ loop.i = 0
  BY DEF Init, Tracked
<1>3. \A i \in Usable : i \in Nat /\ ~(i <= 0)
  BY <1>1, UsableEntries DEF TypeOK
<1>4. PagesCovered
  BY <1>2, <1>3 DEF PagesCovered, PassedBlock, InPassedPart
<1> QED BY <1>1, <1>2, <1>4 DEF IInv, CursorInBlock, FramesPlaced, FramesAscend

LEMMA InvStep == IInv /\ [Next]_vars => IInv'
<1> SUFFICES ASSUME IInv, [Next]_vars PROVE IInv'
  OBVIOUS
<1> QED BY TypeStep, CursorStep, PlacedStep, AscendStep, CoveredStep DEF IInv

\* The inductive invariant: what the frames written so far have to do with the part
\* of the memory map the loops have passed (pages.cpp:16-44).
THEOREM FillingInvariant == Spec => []IInv
  BY InvInit, InvStep, PTL DEF Spec

\* Every descriptor written is of a usable page, and no page has two, for every
\* memory map and every size of the table (pages.cpp:25-29).
THEOREM OnlyUsablePages == Spec => []FramesAreUsablePages
<1>1. IInv => FramesAreUsablePages
  <2> SUFFICES ASSUME IInv, NEW n \in Tracked
               PROVE  \E i \in Usable :
                        /\ PageAddress(n) % PageSize = 0
                        /\ PageAddress(n) .. PageAddress(n) + PageSize - 1 \subseteq BytesOf(i)
    BY DEF IInv, FramesAreUsablePages, FramesAscend
  <2>1. PICK i \in Usable : FrameOf(n, i)
    BY DEF IInv, FramesPlaced
  <2>2. MapOK(memmap) /\ PageAddress(n) \in Nat
    BY PagesAssumption DEF IInv, TypeOK, Tracked, PageAddress, Frames
  <2>3. memmap[i].base \in Nat /\ EndOf(memmap[i]) \in Nat
    BY <2>2, UsableEntries
  <2> QED BY <2>1, <2>2, <2>3, PagesAssumption DEF FrameOf, BytesOf
<1> QED BY <1>1, FillingInvariant, PTL

\* Between the first frame and any other no usable page is without a descriptor
\* (pages.cpp:16-44).
THEOREM NoPageLeftOut == Spec => []NoPageSkipped
<1>1. IInv => NoPageSkipped
  <2> SUFFICES ASSUME IInv, NEW n \in Tracked, NEW i \in Usable, NEW paddr \in BytesOf(i),
                      paddr < PageAddress(n)
               PROVE  \E m \in Tracked : PageAddress(m) = PageOf(paddr)
    BY DEF NoPageSkipped
  <2> USE PagesAssumption
  <2>1. MapOK(memmap) /\ loop.i \in Nat /\ loop.paddr \in Nat /\ PageAddress(n) \in Nat
    BY DEF IInv, TypeOK, Tracked, PageAddress, Frames
  <2>2. /\ memmap[i].base \in Nat /\ EndOf(memmap[i]) \in Nat /\ i \in Nat
        /\ memmap[i].base % PageSize = 0
        /\ paddr \in Nat /\ memmap[i].base <= paddr /\ paddr < EndOf(memmap[i])
    BY <2>1, UsableEntries DEF BytesOf
  <2>3. /\ PageOf(paddr) \in Nat /\ PageOf(paddr) % PageSize = 0
        /\ PageOf(paddr) <= paddr /\ paddr < PageOf(paddr) + PageSize
    BY <2>2, PageOfAligned DEF PageOf
  <2>4. memmap[i].base <= PageOf(paddr)
    BY <2>2, <2>3, PagesApart
  <2>5. PageOf(paddr) \in BytesOf(i)
    BY <2>2, <2>3, <2>4 DEF BytesOf
  <2>6. PICK j \in Usable :
          /\ FrameOf(n, j)
          /\ PassedBlock(j) \/ InPassedPart(PageAddress(n), j) \/ AtCursor(PageAddress(n), j)
    BY DEF IInv, FramesPlaced
  <2>7. EndOf(memmap[j]) \in Nat /\ j \in Nat /\ PageAddress(n) < EndOf(memmap[j])
    BY <2>1, <2>6, UsableEntries DEF FrameOf
  <2>8. ~(j < i)
    BY <2>1, <2>2, <2>7, UsableAscend
  <2>9. PassedBlock(i) \/ InPassedPart(PageOf(paddr), i)
    <3>1. i <= j
      BY <2>2, <2>7, <2>8
    <3>2. CASE PassedBlock(j)
      BY <2>1, <2>2, <2>7, <3>1, <3>2 DEF PassedBlock
    <3>3. CASE ~PassedBlock(j)
      <4>1. loop.inside /\ j = loop.i + 1 /\ PageAddress(n) <= loop.paddr
        BY <2>1, <2>6, <3>3 DEF InPassedPart, AtCursor
      <4>2. PageOf(paddr) < loop.paddr
        BY <2>1, <2>2, <2>3, <4>1
      <4>3. i <= loop.i \/ i = loop.i + 1
        BY <2>1, <2>2, <3>1, <4>1
      <4> QED BY <4>1, <4>2, <4>3 DEF PassedBlock, InPassedPart
    <3> QED BY <3>2, <3>3
  <2> QED BY <2>3, <2>5, <2>9 DEF IInv, PagesCovered
<1> QED BY <1>1, FillingInvariant, PTL

-----------------------------------------------------------------------------
(* How many frames are written, and which come first. *)

Pages == [i \in DOMAIN memmap |-> memmap[i].length \div PageSize]

\* The pages of some entries of the map, summed as CheckBootPages sums them.
PagesOver(map, T) == MapThenSumSet(LAMBDA i : map[i].length \div PageSize, T)

PagesUpTo(n) == PagesOver(memmap, {i \in Usable : i <= n})

\* Past the test there are enough pages.
EnoughPages == status \in {"checked", "filling", "finished"} => availablePages <= GetBootPages

\* As many frames as pages the loops have passed, and at the end all of them.
FramesCounted ==
    /\ \A n \in Tracked : frameMap[n].count = -1
    /\ status = "filling" =>
        IF loop.inside
        THEN loop.paddr = Current.base + PageSize * (loop.frameIndex - PagesUpTo(loop.i))
        ELSE loop.frameIndex = PagesUpTo(loop.i)
    /\ status = "finished" => loop.frameIndex = availablePages

\* The frames in the first usable block are numbered from its beginning.
FirstFramesNumbered ==
    \A n \in Tracked : PageAddress(n) < EndOf(memmap[FirstUsable]) =>
        PageAddress(n) = memmap[FirstUsable].base + n * PageSize

\* The index of the first usable block, where it differs from "not set", is kept, and
\* startOfRam with it.
InitialBlockKept ==
    Usable # {} /\ FirstUsable \in 2..IndexValues =>
        /\ loop.initialBlockIndex =
             IF loop.inside \/ FirstUsable <= loop.i THEN FirstUsable - 1 ELSE 0
        /\ FirstUsable <= loop.i => startOfRam = memmap[FirstUsable].base
        /\ status = "finished" /\ memmap[FirstUsable].length \div PageSize < availablePages =>
             FirstUsable <= loop.i

FullInv == IInv /\ EnoughPages /\ FramesCounted /\ FirstFramesNumbered /\ InitialBlockKept

\* The usable entries are finitely many; the first of them is the least.
LEMMA UsableFinite ==
    ASSUME MapOK(memmap)
    PROVE  /\ Usable \in SUBSET Nat /\ IsFiniteSet(Usable)
           /\ Usable \subseteq DOMAIN memmap
           /\ \A i \in Usable : Pages[i] \in Nat
           /\ Usable # {} => FirstUsable \in Usable /\ \A i \in Usable : FirstUsable <= i
<1>1. memmap \in Seq(Entry) /\ Len(memmap) \in Nat /\ DOMAIN memmap = 1..Len(memmap)
  BY DEF MapOK
<1>2. Usable \in SUBSET Nat /\ Usable \subseteq 1..Len(memmap)
  BY <1>1 DEF Usable
<1>3. IsFiniteSet(Usable)
  <2>1. IsFiniteSet(1..Len(memmap))
    BY <1>1, FS_Interval
  <2>2. Usable \in SUBSET (1..Len(memmap))
    BY <1>2
  <2> QED
    BY <2>1, <2>2, FS_Subset
<1>4. \A i \in Usable : Pages[i] \in Nat
  <2> SUFFICES ASSUME NEW i \in Usable PROVE Pages[i] \in Nat
    OBVIOUS
  <2>1. memmap[i] \in Entry /\ i \in DOMAIN memmap
    BY <1>1, <1>2
  <2>2. memmap[i].length \in Nat
    BY <2>1 DEF Entry
  <2> QED
    BY <2>1, <2>2, PagesAssumption, Division DEF Pages
<1>5. Usable # {} => FirstUsable \in Usable /\ \A i \in Usable : FirstUsable <= i
  BY <1>2, LeastElement DEF FirstUsable
<1> QED
  BY <1>1, <1>2, <1>3, <1>4, <1>5

\* The sum of the code's kind over usable entries is a sum of the pages.
LEMMA PagesFold ==
    ASSUME MapOK(memmap), NEW T \in SUBSET Usable
    PROVE  \E sum : /\ Sums(sum, Pages, T)
                    /\ sum[T] = PagesOver(memmap, T)
<1> DEFINE Add(iter, s) ==
             IF s = {} THEN 0
             ELSE LET i == CHOOSE i \in s : TRUE
                  IN  (memmap[i].length \div PageSize) + iter[s \ {i}]
           Fold(iter) == iter = [s \in SUBSET T |-> Add(iter, s)]
           fold == CHOOSE iter : Fold(iter)
<1>1. /\ IsFiniteSet(T) /\ T \subseteq DOMAIN memmap
      /\ \A i \in T : Pages[i] \in Nat
  BY UsableFinite, FS_Subset
<1>2. PICK sum : Sums(sum, Pages, T)
  BY <1>1, SumsExist
<1>3. ASSUME NEW iter, NEW s \in SUBSET T, s # {}
      PROVE  Add(iter, s) = Pages[CHOOSE i \in s : TRUE] + iter[s \ {CHOOSE i \in s : TRUE}]
  <2>1. (CHOOSE i \in s : TRUE) \in T
    BY <1>3
  <2> QED
    BY <1>1, <1>3, <2>1 DEF Pages
<1>4. ASSUME NEW iter PROVE Add(iter, {}) = 0
  OBVIOUS
<1> HIDE DEF Add
<1>5. Fold(sum)
  <2>1. sum = [s \in SUBSET T |-> sum[s]]
    BY <1>2 DEF Sums
  <2>2. ASSUME NEW s \in SUBSET T PROVE sum[s] = Add(sum, s)
    <3>1. CASE s = {}
      BY <1>2, <1>4, <3>1 DEF Sums
    <3>2. CASE s # {}
      <4>1. PICK i \in s : i = CHOOSE j \in s : TRUE
        BY <3>2
      <4>2. sum[s] = Pages[i] + sum[s \ {i}]
        BY <1>2 DEF Sums
      <4> QED
        BY <1>3, <3>2, <4>1, <4>2
    <3> QED
      BY <3>1, <3>2
  <2> QED
    BY <2>1, <2>2
<1>6. Fold(fold)
  BY <1>5
<1> HIDE DEF fold
<1>7. ChosenSums(fold, Pages, T)
  <2>1. \A s \in SUBSET T : fold[s] = Add(fold, s)
    BY <1>6
  <2> QED
    BY <1>3, <1>4, <2>1 DEF ChosenSums
<1>8. fold[T] = sum[T]
  BY <1>1, <1>2, <1>7, SumsInAnyOrder
<1>9. fold[T] = PagesOver(memmap, T)
  BY DEF PagesOver, MapThenSumSet, MapThenFoldSet, fold, Add
<1> QED
  BY <1>2, <1>8, <1>9

\* The count grows by the pages of every usable entry, and ends at GetBootPages.
LEMMA PagesCount ==
    ASSUME MapOK(memmap), NEW n \in Nat
    PROVE  /\ PagesUpTo(n) \in Nat
           /\ (\A i \in Usable : n < i) => PagesUpTo(n) = 0
           /\ n + 1 \in Usable => PagesUpTo(n + 1) = PagesUpTo(n) + Pages[n + 1]
           /\ n + 1 \notin Usable => PagesUpTo(n + 1) = PagesUpTo(n)
           /\ n = Len(memmap) => PagesUpTo(n) = GetBootPages
<1> DEFINE Passed(m) == {i \in Usable : i <= m}
<1>0. Usable \in SUBSET Nat /\ Usable \subseteq 1..Len(memmap) /\ \A i \in Usable : i \in Nat
  BY UsableFinite DEF MapOK
<1>2. PICK sum : Sums(sum, Pages, Passed(n)) /\ sum[Passed(n)] = PagesOver(memmap, Passed(n))
  BY PagesFold
<1>3. PagesUpTo(n) = sum[Passed(n)] /\ PagesUpTo(n) \in Nat
  BY <1>2 DEF PagesUpTo, Sums
<1>4. (\A i \in Usable : n < i) => PagesUpTo(n) = 0
  <2> SUFFICES ASSUME \A i \in Usable : n < i PROVE PagesUpTo(n) = 0
    OBVIOUS
  <2>1. ASSUME NEW i \in Passed(n) PROVE FALSE
    BY <1>0
  <2> QED
    <3>1. Passed(n) = {}
      BY <2>1, Zenon
    <3> QED
      BY <1>2, <1>3, <3>1 DEF Sums
<1>5. ASSUME n + 1 \in Usable PROVE PagesUpTo(n + 1) = PagesUpTo(n) + Pages[n + 1]
  <2>1. PICK tot : Sums(tot, Pages, Passed(n + 1)) /\ tot[Passed(n + 1)] = PagesOver(memmap, Passed(n + 1))
    BY PagesFold
  <2>2. n + 1 \in Passed(n + 1) /\ Passed(n + 1) \ {n + 1} = Passed(n)
    <3>1. \A i \in Usable : i <= n + 1 /\ i # n + 1 <=> i <= n
      BY <1>0
    <3>2. n + 1 <= n + 1
      OBVIOUS
    <3> QED
      BY <1>5, <3>1, <3>2
  <2>3. tot[Passed(n + 1)] = Pages[n + 1] + tot[Passed(n)]
    <3> HIDE DEF Passed
    <3> QED
      BY <2>1, <2>2 DEF Sums
  <2>4. Passed(n) \in SUBSET (Passed(n) \cap Passed(n + 1)) /\ IsFiniteSet(Passed(n))
    <3>1. Passed(n) \in SUBSET Usable
      OBVIOUS
    <3> QED
      BY <2>2, <3>1, UsableFinite, FS_Subset
  <2>5. sum[Passed(n)] = tot[Passed(n)]
    BY <1>2, <2>1, <2>4, SumsAgree
  <2>6. Pages[n + 1] \in Nat
    BY <1>5, UsableFinite
  <2> HIDE DEF Passed
  <2> QED
    BY <1>3, <2>1, <2>3, <2>5, <2>6 DEF PagesUpTo, Passed
<1>6. ASSUME n + 1 \notin Usable PROVE PagesUpTo(n + 1) = PagesUpTo(n)
  <2>1. Passed(n + 1) = Passed(n)
    <3>1. \A i \in Usable : i <= n + 1 <=> i <= n
      BY <1>0, <1>6
    <3> QED
      BY <3>1
  <2> QED
    BY <2>1 DEF PagesUpTo
<1>7. ASSUME n = Len(memmap) PROVE PagesUpTo(n) = GetBootPages
  <2>1. Passed(n) = Usable
    <3>1. \A i \in Usable : i <= n
      BY <1>0, <1>7
    <3> QED
      BY <3>1
  <2>2. PagesOver(memmap, Usable) = GetBootPages
    BY DEF PagesOver, GetBootPages, Usable
  <2> QED
    BY <2>1, <2>2 DEF PagesUpTo
<1> QED
  BY <1>3, <1>4, <1>5, <1>6, <1>7

\* The map stays as it is, and so does what depends only on it.
LEMMA MapStays ==
    ASSUME [Next]_vars
    PROVE  /\ memmap' = memmap /\ Usable' = Usable /\ Pages' = Pages
           /\ FirstUsable' = FirstUsable /\ GetBootPages' = GetBootPages
           /\ \A n : PagesUpTo(n)' = PagesUpTo(n)
<1>1. memmap' = memmap
  BY DEF Next, vars, CheckBootPages, InitialisePageFrames, SkipEntry, EnterBlock,
         PopulateFrame, LeaveBlock
<1>2. Usable' = Usable /\ Pages' = Pages
  BY <1>1 DEF Usable, Pages
<1>3. FirstUsable' = FirstUsable
  BY <1>2 DEF FirstUsable
<1>4. GetBootPages = PagesOver(memmap, Usable) /\ GetBootPages' = PagesOver(memmap', Usable')
  <2>1. GetBootPages = PagesOver(memmap, Usable)
    BY DEF GetBootPages, PagesOver, Usable
  <2>2. GetBootPages' = PagesOver(memmap, Usable)'
    BY DEF GetBootPages, PagesOver, Usable
  <2>3. PagesOver(memmap, Usable)' = PagesOver(memmap', Usable')
    OBVIOUS
  <2> QED
    BY <2>1, <2>2, <2>3
<1>5. ASSUME NEW n PROVE PagesUpTo(n)' = PagesUpTo(n)
  BY <1>1, <1>2 DEF PagesUpTo
<1> QED
  BY <1>1, <1>2, <1>3, <1>4, <1>5

LEMMA EnoughStep == FullInv /\ [Next]_vars => EnoughPages'
<1> SUFFICES ASSUME FullInv, [Next]_vars PROVE EnoughPages'
  OBVIOUS
<1>0. GetBootPages' = GetBootPages /\ GetBootPages \in Nat /\ availablePages \in Nat
  <2>1. MapOK(memmap) /\ Len(memmap) \in Nat
    BY DEF FullInv, IInv, TypeOK, MapOK
  <2> QED
    BY <2>1, MapStays, PagesCount, PagesAssumption
<1>1. CASE CheckBootPages
  BY <1>0, <1>1 DEF CheckBootPages, EnoughPages, TooManyTracked, GetAvailablePages
<1>2. CASE ~CheckBootPages
  <2>1. status' # status => status \in {"checked", "filling", "finished"}
    BY <1>2 DEF Next, vars, InitialisePageFrames, SkipEntry, EnterBlock, PopulateFrame,
                LeaveBlock, AtEntry, InBlock
  <2> QED
    BY <1>0, <2>1 DEF FullInv, EnoughPages
<1> QED
  BY <1>1, <1>2

\* Usable entries are whole pages.
LEMMA WholePages ==
    ASSUME MapOK(memmap), NEW i \in Usable
    PROVE  /\ Pages[i] \in Nat
           /\ EndOf(memmap[i]) = memmap[i].base + PageSize * Pages[i]
           /\ memmap[i].length \div PageSize = Pages[i]
<1>1. memmap[i].length \in Nat /\ i \in DOMAIN memmap
  <2>1. memmap \in Seq(Entry) /\ i \in DOMAIN memmap
    BY DEF MapOK, Usable
  <2>2. memmap[i] \in Entry
    BY <2>1
  <2> QED
    BY <2>1, <2>2 DEF Entry
<1>2. memmap[i].length % PageSize = 0
  BY DEF MapOK, Usable
<1>3. memmap[i].length = PageSize * (memmap[i].length \div PageSize)
  <2> DEFINE a == memmap[i].length
  <2>1. a \in Nat /\ a % PageSize = 0
    BY <1>1, <1>2
  <2> HIDE DEF a
  <2>2. a = PageSize * (a \div PageSize) + (a % PageSize) /\ a \div PageSize \in Nat
    BY <2>1, Division, PagesAssumption
  <2>3. a = PageSize * (a \div PageSize)
    BY <2>1, <2>2, PagesAssumption
  <2> QED
    BY <2>3 DEF a
<1> QED
  BY <1>1, <1>3, UsableFinite DEF Pages, EndOf

LEMMA SameMultiple ==
    ASSUME NEW a \in Int, NEW b \in Int, NEW P \in Nat \ {0}, P * a = P * b
    PROVE  a = b
<1>1. P * (a - b) = 0
  BY SMT
<1> QED
  BY <1>1, SMT

\* The loops do not pass the last entry with room left in the table.
LEMMA RoomNotLeft ==
    ASSUME FullInv, NEW n \in Nat, PagesUpTo(n) < availablePages,
           status \in {"checked", "filling"}
    PROVE  AtEntryNumber(n) = "filling"
<1>1. MapOK(memmap) /\ Len(memmap) \in Nat
  BY DEF FullInv, IInv, TypeOK, MapOK
<1>2. availablePages <= GetBootPages
  BY DEF FullInv, EnoughPages
<1>3. n # Len(memmap)
  BY <1>1, <1>2, PagesCount, PagesAssumption
<1> QED
  BY <1>3 DEF AtEntryNumber

LEMMA CountedStep == FullInv /\ [Next]_vars => FramesCounted'
<1> SUFFICES ASSUME FullInv, [Next]_vars PROVE FramesCounted'
  OBVIOUS
<1> USE PagesAssumption
<1>0. /\ TypeOK /\ MapOK(memmap) /\ Len(memmap) \in Nat /\ loop.i \in Nat /\ loop.paddr \in Nat
      /\ loop.frameIndex \in Nat /\ PagesUpTo(loop.i) \in Nat
  <2>1. TypeOK /\ MapOK(memmap) /\ Len(memmap) \in Nat /\ loop.i \in Nat
    BY DEF FullInv, IInv, TypeOK, MapOK
  <2> QED
    BY <2>1, PagesCount DEF TypeOK
<1>1. CASE PopulateFrame
  <2>1. /\ loop.inside /\ status = "filling" /\ loop'.i = loop.i /\ loop'.inside
        /\ loop'.frameIndex = loop.frameIndex + 1
        /\ Tracked' = Tracked \union {loop.frameIndex}
    BY <1>0, <1>1, Populated
  <2>2. \A n \in Tracked' : frameMap'[n].count = -1
    <3>1. loop.frameIndex \in Frames /\ \A n \in Tracked : n \in Frames /\ n # loop.frameIndex
      BY <1>0, <2>1, SMTT(60) DEF TypeOK, Frames, Tracked
    <3>2. frameMap' = [frameMap EXCEPT ![loop.frameIndex] = [base |-> loop.paddr, count |-> -1]]
      BY <1>1 DEF PopulateFrame
    <3>3. frameMap \in [Frames -> [base : Nat, count : {-1, 0}]]
      BY <1>0 DEF TypeOK
    <3> QED
      BY <2>1, <3>1, <3>2, <3>3 DEF FullInv, FramesCounted
  <2>3. CASE TableFull
    BY <1>1, <2>1, <2>2, <2>3 DEF PopulateFrame, TableFull, FramesCounted
  <2>4. CASE ~TableFull
    <3>1. status' = "filling" /\ loop'.paddr = loop.paddr + PageSize
      BY <1>0, <1>1, <2>1, <2>4 DEF PopulateFrame, NextPage, TypeOK
    <3>2. Current' = Current /\ PagesUpTo(loop.i)' = PagesUpTo(loop.i)
      BY <2>1, MapStays DEF Current, PagesUpTo
    <3>3. loop.paddr = Current.base + PageSize * (loop.frameIndex - PagesUpTo(loop.i))
      BY <2>1 DEF FullInv, FramesCounted
    <3>4. Current.base \in Nat
      BY <1>0, <2>1, UsableEntries DEF FullInv, IInv, CursorInBlock, Current
    <3>5. PageSize * ((loop.frameIndex + 1) - PagesUpTo(loop.i))
            = PageSize * (loop.frameIndex - PagesUpTo(loop.i)) + PageSize
      <4> DEFINE a == loop.frameIndex
                 b == PagesUpTo(loop.i)
      <4>1. a \in Int /\ b \in Int /\ PageSize \in Int
        BY <1>0
      <4> HIDE DEF a, b
      <4>2. PageSize * ((a + 1) - b) = PageSize * (a - b) + PageSize
        BY <4>1, SMT
      <4> QED
        BY <4>2 DEF a, b
    <3>6. PageSize * (loop.frameIndex - PagesUpTo(loop.i)) \in Int
      BY <1>0
    <3>7. loop'.paddr = Current.base + PageSize * ((loop.frameIndex + 1) - PagesUpTo(loop.i))
      BY <3>1, <3>3, <3>4, <3>5, <3>6
    <3> QED
      BY <2>1, <2>2, <3>1, <3>2, <3>7 DEF FramesCounted
  <2> QED
    BY <2>3, <2>4
<1>2. CASE InitialisePageFrames
  <2>1. loop'.i = 0 /\ ~loop'.inside /\ loop'.frameIndex = 0 /\ status = "checked"
        /\ status' = AtEntryNumber(0)
    BY <1>2 DEF InitialisePageFrames
  <2>2. PagesUpTo(0) = 0
    BY <1>0, PagesCount, UsableFinite, UsableEntries
  <2>3. status' = "filling"
    BY <2>1, <2>2, RoomNotLeft
  <2>4. Tracked' = {}
    BY <2>1 DEF Tracked
  <2> QED
    BY <2>1, <2>2, <2>3, <2>4, MapStays DEF FramesCounted
<1>3. CASE loop'.i = loop.i + 1 /\ status = "filling" /\ status' = AtEntryNumber(loop.i + 1)
           /\ ~loop'.inside /\ loop'.frameIndex = loop.frameIndex /\ frameMap' = frameMap
           /\ loop.frameIndex = PagesUpTo(loop.i + 1)
  <2>1. status' = "filling"
    BY <1>0, <1>3, RoomNotLeft DEF TypeOK
  <2>2. PagesUpTo(loop.i)' = loop'.frameIndex
    BY <1>3, MapStays DEF PagesUpTo
  <2> QED
    BY <1>3, <2>1, <2>2 DEF FullInv, FramesCounted, Tracked
<1>4. CASE SkipEntry
  <2>1. loop.i + 1 \notin Usable /\ loop.frameIndex = PagesUpTo(loop.i)
    BY <1>4 DEF SkipEntry, AtEntry, Usable, Current, FullInv, FramesCounted
  <2>2. PagesUpTo(loop.i + 1) = PagesUpTo(loop.i)
    BY <1>0, <2>1, PagesCount
  <2> QED
    BY <1>0, <1>3, <1>4, <2>1, <2>2 DEF SkipEntry, AtEntry, TypeOK
<1>5. CASE LeaveBlock
  <2>1. /\ loop.i + 1 \in Usable /\ Current.base <= loop.paddr /\ loop.paddr <= EndOf(Current)
        /\ ~(loop.paddr < EndOf(Current)) /\ status = "filling" /\ loop.inside
    BY <1>5 DEF LeaveBlock, InBlock, MorePages, FullInv, IInv, CursorInBlock
  <2>2. /\ EndOf(Current) = Current.base + PageSize * Pages[loop.i + 1]
        /\ Pages[loop.i + 1] \in Nat /\ Current.base \in Nat /\ EndOf(Current) \in Nat
    BY <1>0, <2>1, WholePages, UsableEntries DEF Current
  <2>3. loop.paddr = Current.base + PageSize * (loop.frameIndex - PagesUpTo(loop.i))
    BY <2>1 DEF FullInv, FramesCounted
  <2>4. loop.frameIndex - PagesUpTo(loop.i) = Pages[loop.i + 1]
    <3> DEFINE a == loop.frameIndex - PagesUpTo(loop.i)
               b == Pages[loop.i + 1]
    <3>1. a \in Int /\ b \in Int /\ PageSize * a \in Int /\ PageSize * b \in Int
      BY <1>0, <2>2, SMTT(60)
    <3>2. Current.base + PageSize * a = Current.base + PageSize * b
      BY <1>0, <2>1, <2>2, <2>3
    <3> HIDE DEF a, b
    <3>3. PageSize * a = PageSize * b
      BY <2>2, <3>1, <3>2
    <3>4. a = b
      BY <3>1, <3>3, SameMultiple
    <3> QED
      BY <3>4 DEF a, b
  <2>5. PagesUpTo(loop.i + 1) = PagesUpTo(loop.i) + Pages[loop.i + 1]
    BY <1>0, <2>1, PagesCount
  <2>6. loop.frameIndex = PagesUpTo(loop.i + 1)
    BY <1>0, <2>2, <2>4, <2>5
  <2> QED
    BY <1>0, <1>3, <1>5, <2>1, <2>6 DEF LeaveBlock, TypeOK
<1>6. CASE EnterBlock
  <2>1. /\ loop'.inside /\ loop'.i = loop.i /\ loop'.frameIndex = loop.frameIndex
        /\ loop'.paddr = Current.base /\ status = "filling" /\ status' = "filling" /\ ~loop.inside
        /\ frameMap' = frameMap
    BY <1>0, <1>6 DEF EnterBlock, AtEntry, TypeOK
  <2>2. Current' = Current /\ PagesUpTo(loop.i)' = PagesUpTo(loop.i)
    BY <2>1, MapStays DEF Current, PagesUpTo
  <2>3. loop.frameIndex = PagesUpTo(loop.i)
    BY <2>1 DEF FullInv, FramesCounted
  <2>4. loop.i + 1 \in Usable
    BY <1>0, <1>6 DEF EnterBlock, AtEntry, TypeOK, Usable, Current
  <2>5. Current.base \in Nat
    BY <1>0, <2>4, UsableEntries DEF Current
  <2>6. PageSize * (loop.frameIndex - PagesUpTo(loop.i)) = 0
    BY <1>0, <2>3
  <2> QED
    BY <2>1, <2>2, <2>5, <2>6 DEF FullInv, FramesCounted, Tracked
<1>7. CASE CheckBootPages
  BY <1>7 DEF CheckBootPages, FullInv, FramesCounted, Tracked
<1>8. CASE UNCHANGED vars
  <2>1. Current' = Current /\ Tracked' = Tracked /\ loop' = loop /\ status' = status
        /\ frameMap' = frameMap /\ PagesUpTo(loop.i)' = PagesUpTo(loop.i)
    BY <1>8, MapStays DEF vars, Current, Tracked, PagesUpTo
  <2> QED
    BY <2>1 DEF FullInv, FramesCounted
<1> QED
  BY <1>1, <1>2, <1>4, <1>5, <1>6, <1>7, <1>8 DEF Next

\* Inside the first usable block the frames are counted from its beginning.
LEMMA InFirstBlock ==
    ASSUME FullInv, status = "filling", loop.inside
    PROVE  /\ FirstUsable \in Usable /\ FirstUsable <= loop.i + 1 /\ loop.i + 1 \in Usable
           /\ FirstUsable < loop.i + 1 => EndOf(memmap[FirstUsable]) <= loop.paddr
           /\ FirstUsable = loop.i + 1 =>
                loop.paddr = memmap[FirstUsable].base + PageSize * loop.frameIndex
<1> USE PagesAssumption
<1>0. /\ MapOK(memmap) /\ loop.i \in Nat /\ loop.paddr \in Nat /\ loop.frameIndex \in Nat
  BY DEF FullInv, IInv, TypeOK
<1>1. loop.i + 1 \in Usable /\ Current.base <= loop.paddr
  BY DEF FullInv, IInv, CursorInBlock
<1>2. /\ FirstUsable \in Usable /\ FirstUsable <= loop.i + 1 /\ FirstUsable \in Nat
      /\ \A i \in Usable : FirstUsable <= i /\ i \in Nat
  BY <1>0, <1>1, UsableFinite
<1>3. ASSUME FirstUsable < loop.i + 1 PROVE EndOf(memmap[FirstUsable]) <= loop.paddr
  <2>1. EndOf(memmap[FirstUsable]) <= Current.base
    BY <1>0, <1>1, <1>2, <1>3, UsableAscend DEF Current
  <2>2. EndOf(memmap[FirstUsable]) \in Nat /\ Current.base \in Nat
    BY <1>0, <1>1, <1>2, UsableEntries DEF Current
  <2> QED
    BY <1>0, <1>1, <2>1, <2>2
<1>4. ASSUME FirstUsable = loop.i + 1
      PROVE  loop.paddr = memmap[FirstUsable].base + PageSize * loop.frameIndex
  <2>1. \A i \in Usable : loop.i < i
    BY <1>0, <1>2, <1>4
  <2>2. PagesUpTo(loop.i) = 0
    BY <1>0, <2>1, PagesCount
  <2>3. loop.paddr = Current.base + PageSize * (loop.frameIndex - PagesUpTo(loop.i))
    BY DEF FullInv, FramesCounted
  <2>4. loop.frameIndex - PagesUpTo(loop.i) = loop.frameIndex
    BY <1>0, <2>2
  <2> QED
    BY <1>4, <2>3, <2>4 DEF Current
<1> QED
  BY <1>1, <1>2, <1>3, <1>4

LEMMA NumberedStep == FullInv /\ [Next]_vars => FirstFramesNumbered'
<1> SUFFICES ASSUME FullInv, [Next]_vars, NEW n \in Tracked',
                    PageAddress(n)' < EndOf(memmap[FirstUsable])'
             PROVE  PageAddress(n)' = (memmap[FirstUsable].base + n * PageSize)'
  BY DEF FirstFramesNumbered
<1> USE PagesAssumption
<1>0. TypeOK /\ MapOK(memmap) /\ memmap' = memmap /\ FirstUsable' = FirstUsable
  BY MapStays DEF FullInv, IInv, TypeOK
<1>1. PageAddress(n)' < EndOf(memmap[FirstUsable])
  BY <1>0 DEF EndOf
<1>2. CASE n \in Tracked /\ PageAddress(n)' = PageAddress(n)
  BY <1>0, <1>1, <1>2 DEF FullInv, FirstFramesNumbered
<1>3. CASE PopulateFrame
  <2>1. CASE n \in Tracked
    BY <1>0, <1>2, <1>3, <2>1, Populated
  <2>2. CASE n = loop.frameIndex
    <3>1. /\ PageAddress(n)' = loop.paddr /\ loop.paddr \in Nat /\ loop.frameIndex \in Nat
          /\ status = "filling" /\ loop.inside
      BY <1>0, <1>3, <2>2, Populated DEF PageAddress
    <3>2. FirstUsable \in Nat /\ EndOf(memmap[FirstUsable]) \in Nat /\ loop.i \in Nat
      BY <1>0, <3>1, InFirstBlock, UsableEntries, SMTT(60) DEF TypeOK
    <3>3. FirstUsable = loop.i + 1
      BY <1>1, <3>1, <3>2, InFirstBlock
    <3>4. loop.paddr = memmap[FirstUsable].base + PageSize * loop.frameIndex
      BY <3>1, <3>3, InFirstBlock
    <3>5. PageSize * loop.frameIndex = loop.frameIndex * PageSize
      BY <3>1
    <3> QED
      BY <1>0, <2>2, <3>1, <3>4, <3>5
  <2> QED
    BY <1>0, <1>3, <2>1, <2>2, Populated
<1>4. CASE ~PopulateFrame
  <2>1. frameMap' = frameMap /\ (loop'.frameIndex = 0 \/ loop'.frameIndex = loop.frameIndex)
    BY <1>0, <1>4, OtherSteps
  <2>2. loop'.frameIndex = loop.frameIndex
    BY <2>1 DEF Tracked
  <2> QED
    BY <1>2, <2>1, <2>2 DEF Tracked, PageAddress
<1> QED
  BY <1>3, <1>4

LEMMA InitialStep == FullInv /\ [Next]_vars => InitialBlockKept'
<1> SUFFICES ASSUME FullInv, [Next]_vars, Usable # {}, FirstUsable \in 2..IndexValues
             PROVE  /\ loop'.initialBlockIndex =
                         IF loop'.inside \/ FirstUsable <= loop'.i THEN FirstUsable - 1 ELSE 0
                    /\ FirstUsable <= loop'.i => startOfRam' = memmap[FirstUsable].base
                    /\ status' = "finished"
                         /\ memmap[FirstUsable].length \div PageSize < availablePages =>
                           FirstUsable <= loop'.i
  BY MapStays DEF InitialBlockKept
<1> USE PagesAssumption
<1>0. /\ TypeOK /\ MapOK(memmap) /\ loop.i \in Nat /\ FirstUsable \in Nat /\ FirstUsable \in Usable
      /\ \A i \in Usable : FirstUsable <= i /\ i \in Nat
  BY UsableFinite DEF FullInv, IInv, TypeOK
<1>1. /\ loop.initialBlockIndex =
           IF loop.inside \/ FirstUsable <= loop.i THEN FirstUsable - 1 ELSE 0
      /\ FirstUsable <= loop.i => startOfRam = memmap[FirstUsable].base
      /\ status = "finished"
           /\ memmap[FirstUsable].length \div PageSize < availablePages => FirstUsable <= loop.i
  BY DEF FullInv, InitialBlockKept
<1>2. CASE CheckBootPages
  BY <1>1, <1>2 DEF CheckBootPages
<1>3. CASE UNCHANGED vars
  BY <1>1, <1>3 DEF vars
<1>4. CASE InitialisePageFrames
  <2>1. /\ loop'.i = 0 /\ ~loop'.inside /\ loop'.initialBlockIndex = 0
        /\ status = "checked" /\ status' = AtEntryNumber(0)
    BY <1>4 DEF InitialisePageFrames
  <2>2. status' = "filling"
    <3>1. PagesUpTo(0) = 0
      BY <1>0, PagesCount, UsableEntries
    <3> QED
      BY <2>1, <3>1, RoomNotLeft
  <2> QED
    BY <2>1, <2>2
<1>5. CASE SkipEntry
  <2>1. /\ loop'.i = loop.i + 1 /\ ~loop'.inside /\ ~loop.inside
        /\ loop'.initialBlockIndex = loop.initialBlockIndex /\ startOfRam' = startOfRam
        /\ status = "filling" /\ status' = AtEntryNumber(loop.i + 1)
        /\ loop.i + 1 \notin Usable
    BY <1>0, <1>5 DEF SkipEntry, AtEntry, TypeOK, Usable, Current
  <2>2. FirstUsable <= loop.i + 1 <=> FirstUsable <= loop.i
    BY <1>0, <2>1
  <2>3. status' = "filling"
    <3>1. loop.frameIndex = PagesUpTo(loop.i) /\ loop.frameIndex < availablePages
      BY <2>1 DEF FullInv, FramesCounted, IInv, TypeOK
    <3>2. PagesUpTo(loop.i + 1) = PagesUpTo(loop.i)
      BY <1>0, <2>1, PagesCount
    <3> QED
      BY <1>0, <2>1, <3>1, <3>2, RoomNotLeft
  <2> QED
    BY <1>1, <2>1, <2>2, <2>3
<1>6. CASE EnterBlock
  <2>1. /\ loop'.i = loop.i /\ loop'.inside /\ ~loop.inside /\ loop.i + 1 \in Usable
        /\ loop'.initialBlockIndex = Initial(loop.initialBlockIndex) /\ startOfRam' = startOfRam
        /\ status = "filling" /\ status' = "filling"
    BY <1>0, <1>6, SMTT(60) DEF EnterBlock, AtEntry, TypeOK, Usable, Current, MapOK
  <2>2. Initial(loop.initialBlockIndex) = FirstUsable - 1
    <3>1. CASE FirstUsable <= loop.i
      BY <1>0, <1>1, <3>1 DEF Initial
    <3>2. CASE ~(FirstUsable <= loop.i)
      <4>1. loop.i = FirstUsable - 1 /\ loop.i \in 0..IndexValues - 1
        BY <1>0, <2>1, <3>2
      <4>2. loop.i % IndexValues = loop.i
        BY <4>1
      <4> QED
        BY <1>1, <2>1, <3>2, <4>1, <4>2 DEF Initial
    <3> QED
      BY <3>1, <3>2
  <2> QED
    BY <1>1, <2>1, <2>2
<1>7. CASE PopulateFrame
  <2>1. /\ loop'.i = loop.i /\ loop'.inside /\ loop.inside /\ status = "filling"
        /\ loop'.initialBlockIndex = loop.initialBlockIndex /\ startOfRam' = startOfRam
        /\ loop.paddr \in Nat /\ loop.paddr < EndOf(Current) /\ loop.frameIndex \in Nat
        /\ status' = IF TableFull THEN "finished" ELSE status
    BY <1>0, <1>7, Populated DEF PopulateFrame, TypeOK
  <2>2. ASSUME status' = "finished", memmap[FirstUsable].length \div PageSize < availablePages,
               ~(FirstUsable <= loop.i)
        PROVE  FALSE
    <3>1. FirstUsable = loop.i + 1 /\ loop.frameIndex + 1 = availablePages
      BY <1>0, <2>1, <2>2, InFirstBlock DEF TableFull
    <3>2. loop.paddr = memmap[FirstUsable].base + PageSize * loop.frameIndex
      BY <2>1, <3>1, InFirstBlock
    <3>3. /\ EndOf(memmap[FirstUsable]) = memmap[FirstUsable].base + PageSize * Pages[FirstUsable]
          /\ Pages[FirstUsable] \in Nat /\ Pages[FirstUsable] < availablePages
          /\ memmap[FirstUsable].base \in Nat
      BY <1>0, <2>2, WholePages, UsableEntries
    <3>4. PageSize * loop.frameIndex < PageSize * Pages[FirstUsable]
      BY <2>1, <3>1, <3>2, <3>3 DEF Current
    <3> DEFINE a == Pages[FirstUsable]
               b == loop.frameIndex
    <3>5. a \in Nat /\ b \in Nat /\ a <= b /\ PageSize * b < PageSize * a
      BY <2>1, <3>1, <3>3, <3>4
    <3> HIDE DEF a, b
    <3>6. PageSize * a <= PageSize * b
      BY <3>5, SMT
    <3> QED
      BY <3>5, <3>6
  <2> QED
    BY <1>1, <2>1, <2>2
<1>8. CASE LeaveBlock
  <2>1. /\ loop'.i = loop.i + 1 /\ ~loop'.inside /\ loop.inside /\ status = "filling"
        /\ loop'.initialBlockIndex = loop.initialBlockIndex
        /\ startOfRam' = IF loop.i = loop.initialBlockIndex THEN Current.base ELSE startOfRam
    BY <1>0, <1>8 DEF LeaveBlock, InBlock, TypeOK
  <2>2. loop.initialBlockIndex = FirstUsable - 1 /\ FirstUsable <= loop.i + 1
    BY <1>1, <2>1, InFirstBlock
  <2>3. startOfRam' = memmap[FirstUsable].base
    BY <1>0, <1>1, <2>1, <2>2 DEF Current
  <2> QED
    BY <1>0, <2>1, <2>2, <2>3
<1> QED
  BY <1>2, <1>3, <1>4, <1>5, <1>6, <1>7, <1>8 DEF Next

LEMMA FullInit == Init => FullInv
<1> SUFFICES ASSUME Init PROVE FullInv
  OBVIOUS
<1>1. IInv /\ MapOK(memmap) /\ Tracked = {} /\ status = "booting"
  BY InvInit DEF Init, Tracked, IInv, TypeOK
<1>2. \A i \in Usable : i \in Nat /\ ~(i <= 0)
  BY <1>1, UsableEntries
<1>3. Usable # {} => ~(FirstUsable <= loop.i)
  BY <1>1, <1>2, UsableFinite DEF Init
<1>4. InitialBlockKept
  BY <1>1, <1>3 DEF Init, InitialBlockKept
<1> QED
  BY <1>1, <1>4 DEF FullInv, EnoughPages, FramesCounted, FirstFramesNumbered

LEMMA FullStep == FullInv /\ [Next]_vars => FullInv'
<1> SUFFICES ASSUME FullInv, [Next]_vars PROVE FullInv'
  OBVIOUS
<1>1. IInv'
  BY InvStep DEF FullInv
<1> QED
  BY <1>1, EnoughStep, CountedStep, NumberedStep, InitialStep DEF FullInv

-----------------------------------------------------------------------------
(* What the table and startOfRam are in the end. *)

\* The whole invariant: beside IInv, how many frames there are at every point of the
\* loops, how those of the first block are numbered, and which index and which base
\* the code keeps of it (pages.cpp:9-48).
THEOREM CountingInvariant == Spec => []FullInv
  BY FullInit, FullStep, PTL DEF Spec

\* When the loops end every descriptor has a page: the test before them, inverted as
\* it is, lets only such maps pass (pages.cpp:62-67, main.cpp:59-60).
THEOREM TableFilled == Spec => []WholeTableFilled
<1>1. FullInv => WholeTableFilled
  BY DEF FullInv, FramesCounted, WholeTableFilled, Tracked, Frames
<1> QED
  BY <1>1, CountingInvariant, PTL

\* startOfRam is the first usable block for every map whose first usable entry is
\* not entry 0, has an index the variable can hold, and leaves room in the table
\* (pages.cpp:19-41).
THEOREM StartOfRamSet == Spec => []StartOfRamIsFirstBlock
<1>1. FullInv => StartOfRamIsFirstBlock
  <2> SUFFICES ASSUME FullInv, status = "finished", FirstUsable \in 2..IndexValues,
                      memmap[FirstUsable].length \div PageSize < availablePages
               PROVE  startOfRam = memmap[FirstUsable].base
    BY DEF StartOfRamIsFirstBlock
  <2>1. Usable # {}
    <3>1. MapOK(memmap) /\ loop.frameIndex = availablePages
      BY DEF FullInv, FramesCounted, IInv, TypeOK
    <3>2. 0 \in Tracked
      BY <3>1, PagesAssumption DEF Tracked
    <3> QED
      BY <3>2 DEF FullInv, IInv, FramesPlaced
  <2> QED
    BY <2>1 DEF FullInv, InitialBlockKept
<1> QED
  BY <1>1, CountingInvariant, PTL

\* With startOfRam there, the number computed from an address of the first block is
\* that of the frame of its page (pages.cpp:78-80, pages.hpp:63-65).
THEOREM FirstBlockNumbers == Spec => []FirstBlockNumbered
<1>1. FullInv /\ NoPageSkipped => FirstBlockNumbered
  <2> SUFFICES ASSUME FullInv, NoPageSkipped, startOfRam = memmap[FirstUsable].base,
                      NEW paddr \in BytesOf(FirstUsable), PhysicalToPageN(paddr) \in Tracked
               PROVE  PageAddress(PhysicalToPageN(paddr)) = PageOf(paddr)
    BY DEF FirstBlockNumbered
  <2> USE PagesAssumption
  <2> DEFINE n == PhysicalToPageN(paddr)
             base == memmap[FirstUsable].base
             end == EndOf(memmap[FirstUsable])
  <2>0. MapOK(memmap)
    BY DEF FullInv, IInv, TypeOK
  <2>1. FirstUsable \in Usable
    <3>1. \E i \in Usable : TRUE
      BY DEF FullInv, IInv, FramesPlaced
    <3> QED
      BY <2>0, <3>1, UsableFinite
  <2>2. /\ base \in Nat /\ end \in Nat /\ base % PageSize = 0
        /\ paddr \in Nat /\ base <= paddr /\ paddr < end
    BY <2>0, <2>1, UsableEntries DEF BytesOf
  <2>3. n \in Nat /\ PageOf(paddr) = base + n * PageSize /\ PageOf(paddr) <= paddr
    <3> HIDE DEF base
    <3>1. /\ (paddr - base) \div PageSize \in Nat
          /\ paddr - (paddr % PageSize) = base + ((paddr - base) \div PageSize) * PageSize
      BY <2>2, PageFromBase, ZenonT(60)
    <3>2. n = (paddr - base) \div PageSize
      BY DEF PhysicalToPageN, base
    <3>3. PageOf(paddr) <= paddr
      BY <2>2, PageOfAligned DEF PageOf
    <3> HIDE DEF n
    <3> QED
      BY <3>1, <3>2, <3>3 DEF PageOf
  <2>4. PageAddress(n) \in Nat /\ n \in Tracked
    BY SMTT(60) DEF FullInv, IInv, TypeOK, Tracked, PageAddress, Frames
  <2> HIDE DEF n, base, end
  <2>5. ASSUME NEW m \in Tracked, PageAddress(m) < end
        PROVE  PageAddress(m) = base + m * PageSize
    BY <2>5 DEF FullInv, FirstFramesNumbered, base, end
  <2>6. CASE PageAddress(n) < end
    BY <2>3, <2>4, <2>5, <2>6 DEF n
  <2>7. CASE ~(PageAddress(n) < end)
    <3>1. paddr < PageAddress(n)
      BY <2>2, <2>4, <2>7
    <3>2. PICK m \in Tracked : PageAddress(m) = PageOf(paddr)
      BY <2>1, <2>4, <3>1 DEF NoPageSkipped
    <3>3. base + m * PageSize = base + n * PageSize /\ m \in Nat
      BY <2>2, <2>3, <2>5, <3>2 DEF Tracked
    <3>4. PageSize * m = PageSize * n
      BY <2>2, <2>3, <3>3
    <3>5. m = n
      BY <2>3, <3>3, <3>4, SameMultiple
    <3> QED
      BY <3>2, <3>5 DEF n
  <2> QED
    BY <2>6, <2>7
<1> QED
  BY <1>1, CountingInvariant, NoPageLeftOut, PTL
=============================================================================
