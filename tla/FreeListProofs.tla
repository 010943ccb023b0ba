--------------------------- MODULE FreeListProofs ---------------------------
(***************************************************************************)
(* Theorems about FreeList, for every memory map, every set of requests    *)
(* and every width of a word: the heap interface keeps the memory, and the *)
(* whole interface, stacks included, keeps account of the lengths.         *)
(***************************************************************************)
EXTENDS FreeList, SumProofs, TLAPS, SequenceTheorems

-----------------------------------------------------------------------------
(* The operators the specification is built from. *)

\* What the rounding of allocHeap returns: a positive multiple of a header.
LEMMA ChunkSizeLemma ==
    ASSUME NEW n \in Nat, n > 0
    PROVE  /\ ChunkSize(n) \in Nat
           /\ ChunkSize(n) >= HeaderSize
           /\ ChunkSize(n) % HeaderSize = 0
  BY DEF ChunkSize, Round, RoundDown, HeaderSize

\* Whole numbers of headers.
LEMMA WholeHeadersLemma ==
    ASSUME NEW a \in Nat, NEW b \in Nat, a % HeaderSize = 0, b % HeaderSize = 0
    PROVE  /\ (a + b) % HeaderSize = 0
           /\ a > b => a - b >= HeaderSize /\ (a - b) % HeaderSize = 0
           /\ a > 0 => a >= HeaderSize
  BY DEF HeaderSize

\* A sequence with one element replaced.
LEMMA ReplaceLemma ==
    ASSUME NEW S, NEW s \in Seq(S), NEW i \in 1..Len(s), NEW e \in S
    PROVE  LET t == [s EXCEPT ![i] = e] IN
           /\ t \in Seq(S)
           /\ Len(t) = Len(s)
           /\ \A j \in 1..Len(s) : t[j] = IF j = i THEN e ELSE s[j]
  BY ExceptSeq, LenProperties

\* A sequence with one element inserted.
LEMMA InsertLemma ==
    ASSUME NEW S, NEW s \in Seq(S), NEW i \in 1..Len(s)+1, NEW e \in S
    PROVE  /\ InsertAt(s, i, e) \in Seq(S)
           /\ Len(InsertAt(s, i, e)) = Len(s) + 1
           /\ \A j \in 1..i-1 : InsertAt(s, i, e)[j] = s[j]
           /\ InsertAt(s, i, e)[i] = e
           /\ \A j \in i+1..Len(s)+1 : InsertAt(s, i, e)[j] = s[j-1]
<1> DEFINE low == SubSeq(s, 1, i-1)
           high == SubSeq(s, i, Len(s))
<1>1. Len(s) \in Nat
  BY LenProperties
<1>2. /\ low \in Seq(S)
      /\ Len(low) = i - 1
      /\ \A j \in 1..i-1 : low[j] = s[j]
  BY <1>1, SubSeqProperties
<1>3. /\ high \in Seq(S)
      /\ Len(high) = Len(s) - i + 1
      /\ \A j \in 1..Len(s)-i+1 : high[j] = s[j + i - 1]
  BY <1>1, SubSeqProperties
<1>4. /\ <<e>> \in Seq(S)
      /\ Len(<<e>>) = 1
      /\ <<e>>[1] = e
  OBVIOUS
<1> HIDE DEF low, high
<1> DEFINE mid == low \o <<e>>
           all == mid \o high
<1>5. /\ mid \in Seq(S)
      /\ Len(mid) = i
      /\ \A j \in 1..i-1 : mid[j] = s[j]
      /\ mid[i] = e
  BY <1>1, <1>2, <1>4, ConcatProperties
<1> HIDE DEF mid
<1>6. /\ all \in Seq(S)
      /\ Len(all) = Len(s) + 1
      /\ \A j \in 1..i : all[j] = mid[j]
      /\ \A j \in i+1..Len(s)+1 : all[j] = high[j - i]
  <2>1. /\ all \in Seq(S)
        /\ Len(all) = Len(mid) + Len(high)
        /\ \A j \in 1 .. Len(mid) + Len(high) :
             all[j] = IF j <= Len(mid) THEN mid[j] ELSE high[j - Len(mid)]
    BY <1>3, <1>5, ConcatProperties
  <2> HIDE DEF all
  <2> QED
    BY <1>1, <1>3, <1>5, <2>1, SMTT(60)
<1>7. \A j \in i+1..Len(s)+1 : high[j - i] = s[j - 1]
  BY <1>1, <1>3
<1>8. InsertAt(s, i, e) = all
  BY DEF InsertAt, low, high, mid
<1> HIDE DEF all
<1>9. /\ \A j \in 1..i-1 : all[j] = s[j]
      /\ all[i] = e
      /\ \A j \in i+1..Len(s)+1 : all[j] = s[j-1]
  BY <1>1, <1>5, <1>6, <1>7
<1> QED
  BY <1>6, <1>8, <1>9

\* A sequence with one element in front.
LEMMA PushLemma ==
    ASSUME NEW S, NEW s \in Seq(S), NEW e \in S
    PROVE  LET t == <<e>> \o s IN
           /\ t \in Seq(S)
           /\ Len(t) = Len(s) + 1
           /\ t[1] = e
           /\ \A j \in 2..Len(s)+1 : t[j] = s[j-1]
<1>1. <<e>> \in Seq(S) /\ Len(<<e>>) = 1 /\ <<e>>[1] = e
  OBVIOUS
<1> QED
  BY <1>1, LenProperties, ConcatProperties

-----------------------------------------------------------------------------
(* The list of an initialised heap. *)

LEMMA RegionsLemma ==
    ASSUME memmap \in MemoryMaps
    PROVE  /\ Len(regions) \in Nat
           /\ \A i \in 1..Len(regions) :
                /\ regions[i].base \in Nat /\ regions[i].length \in Nat \ {0}
                /\ End(regions[i]) <= HhdmSize
                /\ regions[i].length % HeaderSize = 0
           /\ \A i, j \in 1..Len(regions) : i < j => End(regions[i]) <= regions[j].base
<1> DEFINE Region == [base : Nat, length : Nat \ {0}, usable : BOOLEAN]
<1>1. regions \in Seq(Region)
  BY MapAssumption DEF regions
<1>2. Len(regions) \in Nat /\ \A i \in 1..Len(regions) : regions[i] \in Region
  BY <1>1, LenProperties, ElementOfSeq
<1> QED
  BY <1>2, MapAssumption DEF regions

-----------------------------------------------------------------------------
(* Type correctness, with stacks and without. *)

LEMMA InitTypeOK == Init => TypeOK
  BY DEF Init, TypeOK

LEMMA InitialiseHeadersTypeOK ==
    ASSUME TypeOK, InitialiseHeaders
    PROVE  TypeOK'
<1>1. CASE Stop("corrupt")
  BY <1>1 DEF Stop, TypeOK
<1>2. CASE ~Stop("corrupt")
  <2>1. /\ free' = [i \in 1..Len(regions) |->
                      [base |-> regions[i].base, length |-> regions[i].length]]
        /\ status' = "ready"
        /\ UNCHANGED <<memmap, live>>
    BY <1>2 DEF InitialiseHeaders
  <2>2. /\ Len(regions) \in Nat
        /\ \A i \in 1..Len(regions) :
             [base |-> regions[i].base, length |-> regions[i].length] \in Block
    BY RegionsLemma DEF TypeOK, Block
  <2>3. free' \in Seq(Block)
    BY <2>1, <2>2
  <2> QED
    BY <2>1, <2>3 DEF TypeOK
<1> QED
  BY <1>1, <1>2

LEMMA AllocHeapTypeOK ==
    ASSUME TypeOK, NEW n \in HeapRequests, AllocHeap(n)
    PROVE  TypeOK'
<1> DEFINE size == ChunkSize(n)
<1>1. CASE UNCHANGED vars \/ Stop("fault") \/ Stop("corrupt")
  BY <1>1 DEF Stop, TypeOK, vars
<1>2. CASE ~(UNCHANGED vars \/ Stop("fault") \/ Stop("corrupt"))
  <2>1. n \in Nat /\ n > 0
    BY <1>2, RequestAssumption DEF AllocHeap
  <2>2. size \in Nat
    BY <2>1, ChunkSizeLemma
  <2> HIDE DEF size
  <2>3. PICK i \in DOMAIN free : FirstFit(i, size) /\ Carve(i, size, n)
    BY <1>2 DEF AllocHeap, size
  <2> DEFINE rest == [base |-> free[i].base + size, length |-> free[i].length - size]
             chunk == [base |-> free[i].base, length |-> size, asked |-> n, kind |-> "heap"]
  <2>4. /\ free' = [free EXCEPT ![i] = rest]
        /\ live' = live \union {chunk}
        /\ UNCHANGED <<memmap, status>>
    BY <1>2, <2>3 DEF Carve, WriteHeader
  <2>5. i \in 1..Len(free) /\ free[i] \in Block
    BY LenProperties, ElementOfSeq DEF TypeOK
  <2>6. free[i].length > size
    BY <2>3 DEF FirstFit, Fits
  <2>7. rest \in Block /\ chunk \in Chunk
    BY <2>1, <2>2, <2>5, <2>6 DEF Block, Chunk
  <2> HIDE DEF rest, chunk
  <2>8. free' \in Seq(Block)
    BY <2>4, <2>5, <2>7, ReplaceLemma DEF TypeOK
  <2> QED
    BY <2>4, <2>7, <2>8 DEF TypeOK
<1> QED
  BY <1>1, <1>2

LEMMA AllocStackTypeOK ==
    ASSUME TypeOK, NEW n \in StackRequests, AllocStack(n)
    PROVE  TypeOK'
<1> DEFINE last == free[Len(free)]
           size == StackSize(n)
           chunk == [base |-> last.base - size, length |-> size,
                     asked |-> n, kind |-> "stack"]
           shrunk == Shrink(last, size)
<1>1. CASE UNCHANGED vars \/ Stop("fault") \/ Stop("corrupt")
  BY <1>1 DEF Stop, TypeOK, vars
<1>2. CASE ~(UNCHANGED vars \/ Stop("fault") \/ Stop("corrupt"))
  <2>1. /\ n \in Nat /\ n > 0 /\ n + 2 * HeaderSize < WordMod
        /\ free # <<>>
    BY <1>2, RequestAssumption DEF AllocStack
  <2>2. size \in Nat /\ size < WordMod
    BY <2>1, BoundsAssumption DEF StackSize, HeaderSize
  <2>3. /\ Mapped(chunk.base)
        /\ free' = [free EXCEPT ![Len(free)] = shrunk]
        /\ live' = live \union {chunk}
        /\ UNCHANGED <<memmap, status>>
    BY <1>2 DEF AllocStack, WriteHeader
  <2>4. Len(free) \in 1..Len(free) /\ last \in Block
    BY <2>1, LenProperties, ElementOfSeq, EmptySeq DEF TypeOK
  <2>5. chunk \in Chunk
    BY <2>1, <2>2, <2>3, <2>4 DEF Mapped, Chunk, Block
  <2>6. shrunk = [base |-> last.base, length |-> Wrap(last.length - size)]
    BY <2>4 DEF Shrink, Block
  <2>7. shrunk \in Block
    BY <2>2, <2>4, <2>6, BoundsAssumption DEF Wrap, Block
  <2> HIDE DEF last, size, chunk, shrunk
  <2>8. free' \in Seq(Block)
    BY <2>3, <2>4, <2>7, ReplaceLemma DEF TypeOK
  <2> QED
    BY <2>3, <2>5, <2>8 DEF TypeOK
<1> QED
  BY <1>1, <1>2

LEMMA FreeTypeOK ==
    ASSUME TypeOK, NEW c \in live, Free(c)
    PROVE  TypeOK'
<1> DEFINE block == [base |-> c.base, length |-> c.length]
<1>1. CASE Stop("fault")
  BY <1>1 DEF Stop, TypeOK
<1>2. CASE ~Stop("fault")
  <2>1. /\ live' = live \ {c}
        /\ UNCHANGED <<memmap, status>>
        /\ \/ PushFront(c)
           \/ \E k \in 1..Len(free)-1 : Link(c, k)
    BY <1>2 DEF Free
  <2>2. block \in Block /\ c.length \in Nat /\ c.base \in Nat
    BY DEF TypeOK, Block, Chunk
  <2> SUFFICES free' \in Seq(Block)
    BY <2>1 DEF TypeOK
  <2>3. CASE PushFront(c)
    BY <2>2, <2>3, PushLemma DEF PushFront, TypeOK
  <2>4. ASSUME NEW k \in 1..Len(free)-1, Link(c, k)
        PROVE  free' \in Seq(Block)
    <3>1. k + 1 \in 1..Len(free) /\ k + 1 \in 1..Len(free)+1 /\ free[k+1] \in Block
      BY LenProperties, ElementOfSeq DEF TypeOK
    <3> DEFINE joined == [base |-> c.base, length |-> Wrap(c.length + free[k+1].length)]
    <3>2. joined \in Block
      BY <2>2, <3>1, BoundsAssumption DEF Wrap, Block
    <3>3. \/ free' = [free EXCEPT ![k+1] = joined]
          \/ free' = InsertAt(free, k+1, block)
      BY <2>4, <3>1 DEF Link
    <3>4. free \in Seq(Block)
      BY DEF TypeOK
    <3> HIDE DEF joined, block
    <3>5. [free EXCEPT ![k+1] = joined] \in Seq(Block)
      BY <3>1, <3>2, <3>4, ReplaceLemma
    <3>6. InsertAt(free, k+1, block) \in Seq(Block)
      BY <2>2, <3>1, <3>4, InsertLemma
    <3> QED
      BY <3>3, <3>5, <3>6
  <2> QED
    BY <2>1, <2>3, <2>4
<1> QED
  BY <1>1, <1>2

\* Every step of the whole interface preserves the types.
LEMMA NextTypeOK == TypeOK /\ [Next]_vars => TypeOK'
<1> SUFFICES ASSUME TypeOK, [Next]_vars PROVE TypeOK'
  OBVIOUS
<1>1. CASE InitialiseHeaders
  BY <1>1, InitialiseHeadersTypeOK
<1>2. ASSUME NEW n \in HeapRequests, AllocHeap(n) PROVE TypeOK'
  BY <1>2, AllocHeapTypeOK
<1>3. ASSUME NEW c \in live, Free(c) PROVE TypeOK'
  BY <1>3, FreeTypeOK
<1>4. CASE FreeNothing
  BY <1>4 DEF FreeNothing, Stop, TypeOK
<1>5. ASSUME NEW n \in StackRequests, AllocStack(n) PROVE TypeOK'
  BY <1>5, AllocStackTypeOK
<1>6. CASE UNCHANGED vars
  BY <1>6 DEF vars, TypeOK
<1> QED
  BY <1>1, <1>2, <1>3, <1>4, <1>5, <1>6 DEF Next, HeapNext

\* The types of the list, the chunks and the status hold whatever calls are
\* made, stacks included (memorylist.cpp:8-238).
THEOREM TypeCorrect == Spec => []TypeOK
<1>1. Init => TypeOK
  BY InitTypeOK
<1>2. TypeOK /\ [Next]_vars => TypeOK'
  BY NextTypeOK
<1> QED
  BY <1>1, <1>2, PTL DEF Spec

-----------------------------------------------------------------------------
(* What a step of the heap interface does to the list, element by element.  *)
(* Every invariant below is proved over these shapes instead of the actions.*)

\* Free blocks and chunks lie in the direct map, so no sum of theirs wraps.
InWindow ==
    /\ \A i \in DOMAIN free : End(free[i]) <= HhdmSize
    /\ \A c \in live : End(c) <= HhdmSize

NotEmpty == status = "ready" => Len(free) > 0

SameMemory ==
    /\ UNCHANGED <<memmap, free, live>>
    /\ status' \in {status, "fault", "corrupt"}

Booted ==
    /\ status = "uninitialised" /\ status' = "ready"
    /\ Len(regions) \in 1..BufferEntries
    /\ Len(free') = Len(regions)
    /\ \A i \in 1..Len(regions) :
         free'[i].base = regions[i].base /\ free'[i].length = regions[i].length
    /\ UNCHANGED <<memmap, live>>

Carved(i, c) ==
    /\ status \in {"uninitialised", "ready"}
    /\ i \in 1..Len(free)
    /\ c \in Chunk /\ c.base \in Nat /\ c.length \in Nat
    /\ c.base = free[i].base
    /\ c.length >= HeaderSize /\ c.length % HeaderSize = 0
    /\ c.length < free[i].length
    /\ Len(free') = Len(free)
    /\ free'[i].base = free[i].base + c.length
    /\ free'[i].length = free[i].length - c.length
    /\ \A j \in 1..Len(free) : j # i => free'[j] = free[j]
    /\ live' = live \union {c}
    /\ UNCHANGED <<memmap, status>>

\* c becomes block p, in front of a block that was there: never the last one.
Linked(p, c) ==
    /\ status = "ready"
    /\ c \in live /\ p \in 1..Len(free)
    /\ IF p = 1 THEN c.base < free[1].base ELSE c.base >= free[1].base
    /\ Len(free') = Len(free) + 1
    /\ free'[p].base = c.base /\ free'[p].length = c.length
    /\ \A j \in 1..p-1 : free'[j] = free[j]
    /\ \A j \in p+1..Len(free)+1 : free'[j] = free[j-1]
    /\ live' = live \ {c}
    /\ UNCHANGED <<memmap, status>>

Joined(p, c) ==
    /\ status = "ready"
    /\ c \in live /\ p \in 2..Len(free)
    /\ c.base >= free[1].base
    /\ End(c) = free[p].base
    /\ Len(free') = Len(free)
    /\ free'[p].base = c.base
    /\ free'[p].length = c.length + free[p].length
    /\ \A j \in 1..Len(free) : j # p => free'[j] = free[j]
    /\ live' = live \ {c}
    /\ UNCHANGED <<memmap, status>>

\* A list is a sequence of blocks: the facts the shapes are used with.
LEMMA ListLemma ==
    ASSUME TypeOK
    PROVE  /\ Len(free) \in Nat
           /\ DOMAIN free = 1..Len(free)
           /\ \A i \in 1..Len(free) : free[i] \in Block
           /\ \A i \in 1..Len(free) : free[i].base \in Nat /\ free[i].length \in Nat
           /\ \A c \in live : c \in Chunk /\ c.base \in Nat /\ c.length \in Nat
<1>1. \A i \in 1..Len(free) : free[i] \in Block
  BY ElementOfSeq DEF TypeOK
<1> QED
  BY <1>1, LenProperties DEF TypeOK, Block, Chunk

LEMMA AllocHeapShape ==
    ASSUME TypeOK, NEW n \in HeapRequests, AllocHeap(n)
    PROVE  SameMemory \/ \E i \in 1..Len(free), c \in Chunk : Carved(i, c)
<1> DEFINE size == ChunkSize(n)
<1>1. CASE UNCHANGED vars \/ Stop("fault") \/ Stop("corrupt")
  BY <1>1 DEF Stop, SameMemory, vars
<1>2. CASE ~(UNCHANGED vars \/ Stop("fault") \/ Stop("corrupt"))
  <2>1. n \in Nat /\ n > 0
    BY <1>2, RequestAssumption DEF AllocHeap
  <2>2. size \in Nat /\ size >= HeaderSize /\ size % HeaderSize = 0
    BY <2>1, ChunkSizeLemma
  <2> HIDE DEF size
  <2>3. PICK i \in 1..Len(free) : FirstFit(i, size) /\ Carve(i, size, n)
    BY <1>2, ListLemma DEF AllocHeap, size
  <2> DEFINE rest == [base |-> free[i].base + size, length |-> free[i].length - size]
             chunk == [base |-> free[i].base, length |-> size, asked |-> n, kind |-> "heap"]
  <2>4. /\ free' = [free EXCEPT ![i] = rest]
        /\ live' = live \union {chunk}
        /\ UNCHANGED <<memmap, status>>
        /\ status \in {"uninitialised", "ready"}
    BY <1>2, <2>3 DEF Carve, WriteHeader, AllocHeap
  <2>5. free[i] \in Block /\ free[i].length > size
    BY <2>3, ListLemma DEF FirstFit, Fits
  <2>6. rest \in Block /\ chunk \in Chunk
    BY <2>1, <2>2, <2>5 DEF Block, Chunk
  <2>7. /\ Len(free') = Len(free)
        /\ \A j \in 1..Len(free) : free'[j] = IF j = i THEN rest ELSE free[j]
    <3> HIDE DEF rest
    <3> QED
      BY <2>4, <2>6, ReplaceLemma DEF TypeOK
  <2>8. Carved(i, chunk)
    BY <2>2, <2>4, <2>5, <2>6, <2>7 DEF Carved, Block
  <2> QED
    BY <2>6, <2>8
<1> QED
  BY <1>1, <1>2

LEMMA FreeShape ==
    ASSUME TypeOK, InWindow, NotEmpty, NEW c \in live, Free(c)
    PROVE  SameMemory \/ \E p \in 1..Len(free) : Linked(p, c) \/ Joined(p, c)
<1> DEFINE block == [base |-> c.base, length |-> c.length]
<1>1. CASE Stop("fault")
  BY <1>1 DEF Stop, SameMemory
<1>2. CASE ~Stop("fault")
  <2>1. /\ live' = live \ {c}
        /\ UNCHANGED <<memmap, status>>
        /\ status = "ready"
        /\ \/ c.base < free[1].base /\ PushFront(c)
           \/ /\ c.base >= free[1].base
              /\ \E k \in 1..Len(free)-1 : Link(c, k)
        /\ Len(free) > 0
    BY <1>2 DEF Free, NotEmpty
  <2>2. block \in Block /\ c \in Chunk
    BY DEF TypeOK, Block, Chunk
  <2>3. free \in Seq(Block) /\ Len(free) \in Nat
    BY ListLemma DEF TypeOK
  <2> HIDE DEF block
  <2>4. ASSUME c.base < free[1].base, PushFront(c), Len(free) > 0
        PROVE  Linked(1, c)
    <3>1. free' = <<block>> \o free
      BY <2>4 DEF PushFront, block
    <3>2. /\ Len(free') = Len(free) + 1
          /\ free'[1] = block
          /\ \A j \in 2..Len(free)+1 : free'[j] = free[j-1]
      BY <2>2, <2>3, <3>1, PushLemma
    <3> QED
      BY <2>1, <2>3, <2>4, <3>2 DEF Linked, block
  <2>5. ASSUME NEW k \in 1..Len(free)-1, Link(c, k), c.base >= free[1].base
        PROVE  Linked(k+1, c) \/ Joined(k+1, c)
    <3>1. k + 1 \in 2..Len(free) /\ k + 1 \in 1..Len(free) /\ free[k+1] \in Block
      BY <2>3, ListLemma
    <3>2. End(c) \in Nat /\ End(c) <= HhdmSize
      BY <2>2 DEF InWindow, End, Chunk
    <3>3. End(free[k+1]) <= HhdmSize
      BY <3>1, ListLemma DEF InWindow
    <3>4. CASE Adjacent(c, k)
      <4>1. End(c) = free[k+1].base
        BY <3>2, <3>4, BoundsAssumption DEF Adjacent, Wrap
      <4>2. Wrap(c.length + free[k+1].length) = c.length + free[k+1].length
        <5>1. /\ c.length \in Nat /\ c.base \in Nat
              /\ free[k+1].length \in Nat /\ free[k+1].base \in Nat
          BY <2>2, <3>1 DEF Block, Chunk
        <5>2. c.length + free[k+1].length < WordMod
          BY <3>3, <4>1, <5>1, BoundsAssumption, SMTT(30) DEF End
        <5> QED
          BY ONLY <5>1, <5>2, BoundsAssumption DEF Wrap
      <4> DEFINE joined == [base |-> c.base, length |-> c.length + free[k+1].length]
      <4>3. joined \in Block
        BY <2>2, <3>1 DEF Block, Chunk
      <4>4. free' = [free EXCEPT ![k+1] = joined]
        BY <2>5, <3>4, <4>2 DEF Link
      <4>5. /\ Len(free') = Len(free)
            /\ \A j \in 1..Len(free) : free'[j] = IF j = k + 1 THEN joined ELSE free[j]
        <5> HIDE DEF joined
        <5> QED
          BY <2>3, <3>1, <4>3, <4>4, ReplaceLemma
      <4> QED
        BY <2>1, <2>5, <3>1, <4>1, <4>5 DEF Joined
    <3>5. CASE ~Adjacent(c, k)
      <4>1. free' = InsertAt(free, k+1, block)
        BY <2>5, <3>5 DEF Link, block
      <4>2. k + 1 \in 1..Len(free)+1
        BY <2>3
      <4> DEFINE i == k + 1
      <4>3. /\ i \in 1..Len(free)+1 /\ i \in 2..Len(free)
            /\ free' = InsertAt(free, i, block)
        BY <2>3, <4>1, <4>2
      <4> HIDE DEF i
      <4>4. /\ Len(InsertAt(free, i, block)) = Len(free) + 1
            /\ InsertAt(free, i, block)[i] = block
            /\ \A j \in 1..i-1 : InsertAt(free, i, block)[j] = free[j]
            /\ \A j \in i+1..Len(free)+1 : InsertAt(free, i, block)[j] = free[j-1]
        <5>1. block \in Block /\ free \in Seq(Block) /\ i \in 1..Len(free)+1
          BY <2>2, <2>3, <4>3
        <5> QED
          BY ONLY <5>1, InsertLemma, SMTT(30)
      <4>5. block.base = c.base /\ block.length = c.length
        BY DEF block
      <4>6. /\ Len(free') = Len(free) + 1
            /\ free'[i].base = c.base /\ free'[i].length = c.length
            /\ \A j \in 1..i-1 : free'[j] = free[j]
            /\ \A j \in i+1..Len(free)+1 : free'[j] = free[j-1]
        BY <4>3, <4>4, <4>5
      <4>7. Linked(i, c)
        BY <2>1, <2>3, <2>5, <4>3, <4>6 DEF Linked
      <4> QED
        BY <4>7 DEF i
    <3> QED
      BY <3>4, <3>5
  <2>6. CASE c.base < free[1].base /\ PushFront(c)
    BY <2>1, <2>3, <2>4, <2>6
  <2>7. CASE c.base >= free[1].base /\ \E k \in 1..Len(free)-1 : Link(c, k)
    <3>1. PICK k \in 1..Len(free)-1 : Link(c, k)
      BY <2>7
    <3>2. k + 1 \in 1..Len(free)
      BY <2>3
    <3> QED
      BY <2>5, <2>7, <3>1, <3>2
  <2> QED
    BY <2>1, <2>6, <2>7
<1> QED
  BY <1>1, <1>2

\* The five shapes of a step of the heap interface.
LEMMA StepShape ==
    ASSUME TypeOK, InWindow, NotEmpty, [HeapNext]_vars
    PROVE  \/ SameMemory
           \/ Booted
           \/ \E i \in 1..Len(free), c \in Chunk : Carved(i, c)
           \/ \E p \in 1..Len(free), c \in live : Linked(p, c)
           \/ \E p \in 1..Len(free), c \in live : Joined(p, c)
<1>1. CASE InitialiseHeaders
  <2>1. CASE Stop("corrupt")
    BY <2>1 DEF Stop, SameMemory
  <2>2. CASE ~Stop("corrupt")
    <3>1. /\ status = "uninitialised" /\ status' = "ready"
          /\ Len(regions) \in 1..BufferEntries
          /\ free' = [i \in 1..Len(regions) |->
                        [base |-> regions[i].base, length |-> regions[i].length]]
          /\ UNCHANGED <<memmap, live>>
      BY <1>1, <2>2 DEF InitialiseHeaders
    <3>2. Len(free') = Len(regions)
      BY <3>1, RegionsLemma DEF TypeOK
    <3>3. Booted
      BY <3>1, <3>2 DEF Booted
    <3> QED
      BY <3>3
  <2> QED
    BY <2>1, <2>2
<1>2. ASSUME NEW n \in HeapRequests, AllocHeap(n)
      PROVE  SameMemory \/ \E i \in 1..Len(free), c \in Chunk : Carved(i, c)
  BY <1>2, AllocHeapShape
<1>3. ASSUME NEW c \in live, Free(c)
      PROVE  SameMemory \/ \E p \in 1..Len(free) : Linked(p, c) \/ Joined(p, c)
  BY <1>3, FreeShape
<1>4. CASE FreeNothing
  BY <1>4 DEF FreeNothing, Stop, SameMemory
<1>5. CASE UNCHANGED vars
  BY <1>5 DEF vars, SameMemory
<1> QED
  BY <1>1, <1>2, <1>3, <1>4, <1>5 DEF HeapNext

-----------------------------------------------------------------------------
(* The inductive invariant of the heap interface. *)

\* Before boot there is no list and no chunk.
Unbooted == status = "uninitialised" => free = <<>> /\ live = {}

\* Every length is a positive number of whole headers.
IsWhole(n) == n >= HeaderSize /\ n % HeaderSize = 0
WholeHeaders ==
    /\ \A i \in DOMAIN free : IsWhole(free[i].length)
    /\ \A c \in live : IsWhole(c.length)

\* The chunks and blocks are disjoint pieces of the direct map.  Joining two
\* extents keeps them apart from a third only if none is empty, which is why
\* the lengths are part of the invariant.
HeapInv ==
    TypeOK /\ InWindow /\ NotEmpty /\ Unbooted /\ WholeHeaders /\ NoOverlap

LEMMA InitHeapInv == Init => HeapInv
<1> SUFFICES ASSUME Init PROVE HeapInv
  OBVIOUS
<1>1. TypeOK
  BY InitTypeOK
<1>2. /\ free = <<>> /\ DOMAIN free = {} /\ live = {}
      /\ status = "uninitialised"
  BY DEF Init
<1> QED
  BY <1>1, <1>2 DEF HeapInv, InWindow, NotEmpty, Unbooted, WholeHeaders, NoOverlap,
     BlocksApart, ChunksApart, BlocksAndChunksApart

\* The bookkeeping conjuncts.
LEMMA StepBookkeeping ==
    ASSUME HeapInv, [HeapNext]_vars
    PROVE  InWindow' /\ NotEmpty' /\ Unbooted'
<1> USE DEF HeapInv
<1>1. TypeOK' /\ DOMAIN free' = 1..Len(free')
  <2>1. TypeOK'
    BY NextTypeOK DEF Next
  <2> QED
    BY <2>1, LenProperties DEF TypeOK
<1>2. /\ Len(free) \in Nat
      /\ \A i \in 1..Len(free) :
           /\ free[i].base \in Nat /\ free[i].length \in Nat
           /\ free[i].base + free[i].length <= HhdmSize
      /\ \A c \in live :
           /\ c.base \in Nat /\ c.length \in Nat
           /\ c.base + c.length <= HhdmSize
  BY ListLemma DEF InWindow, End
<1>3. CASE SameMemory
  BY <1>3 DEF SameMemory, InWindow, NotEmpty, Unbooted
<1>4. CASE Booted
  <2>1. Len(regions) \in Nat /\ Len(regions) > 0
    BY <1>4, RegionsLemma DEF Booted, TypeOK
  <2>2. \A i \in 1..Len(regions) : End(free'[i]) <= HhdmSize
    BY <1>4, RegionsLemma DEF Booted, TypeOK, End
  <2>3. live' = {}
    BY <1>4 DEF Booted, Unbooted
  <2> QED
    BY <1>1, <1>4, <2>1, <2>2, <2>3 DEF Booted, InWindow, NotEmpty, Unbooted
<1>5. ASSUME NEW i \in 1..Len(free), NEW c \in Chunk, Carved(i, c)
      PROVE  InWindow' /\ NotEmpty' /\ Unbooted'
  <2>1. /\ Len(free') = Len(free) /\ live' = live \union {c} /\ status' = status
        /\ c.base = free[i].base /\ c.length \in Nat /\ c.length < free[i].length
        /\ free'[i].base = free[i].base + c.length
        /\ free'[i].length = free[i].length - c.length
        /\ \A j \in 1..Len(free) : j # i => free'[j] = free[j]
    BY <1>5 DEF Carved
  <2>2. ASSUME NEW j \in 1..Len(free') PROVE End(free'[j]) <= HhdmSize
    <3>1. CASE j = i
      BY <1>2, <2>1, <3>1 DEF End
    <3>2. CASE j # i
      BY <1>2, <2>1, <3>2 DEF End
    <3> QED
      BY <3>1, <3>2
  <2>3. \A d \in live' : End(d) <= HhdmSize
    BY <1>2, <2>1, BoundsAssumption DEF End
  <2> QED
    BY <1>1, <1>2, <2>1, <2>2, <2>3 DEF InWindow, NotEmpty, Unbooted
<1>6. ASSUME NEW p \in 1..Len(free), NEW c \in live, Linked(p, c)
      PROVE  InWindow' /\ NotEmpty' /\ Unbooted'
  <2>1. /\ Len(free') = Len(free) + 1 /\ live' = live \ {c} /\ status' = status
        /\ free'[p].base = c.base /\ free'[p].length = c.length
        /\ \A j \in 1..p-1 : free'[j] = free[j]
        /\ \A j \in p+1..Len(free)+1 : free'[j] = free[j-1]
    BY <1>6 DEF Linked
  <2>2. ASSUME NEW j \in 1..Len(free') PROVE End(free'[j]) <= HhdmSize
    <3>1. CASE j < p
      <4>1. j \in 1..Len(free) /\ free'[j] = free[j]
        BY <1>2, <2>1, <3>1
      <4> QED
        BY <1>2, <4>1 DEF End
    <3>2. CASE j = p
      BY <1>2, <2>1, <3>2 DEF End
    <3>3. CASE j > p
      <4>1. j - 1 \in 1..Len(free) /\ free'[j] = free[j-1]
        BY <1>2, <2>1, <3>3
      <4> QED
        BY <1>2, <4>1 DEF End
    <3> QED
      BY <1>2, <2>1, <3>1, <3>2, <3>3
  <2> QED
    BY <1>1, <1>2, <2>1, <2>2 DEF InWindow, NotEmpty, Unbooted
<1>7. ASSUME NEW p \in 1..Len(free), NEW c \in live, Joined(p, c)
      PROVE  InWindow' /\ NotEmpty' /\ Unbooted'
  <2>1. /\ Len(free') = Len(free) /\ live' = live \ {c} /\ status' = status
        /\ c.base + c.length = free[p].base
        /\ free'[p].base = c.base
        /\ free'[p].length = c.length + free[p].length
        /\ \A j \in 1..Len(free) : j # p => free'[j] = free[j]
    BY <1>7 DEF Joined, End
  <2>2. \A j \in 1..Len(free') : End(free'[j]) <= HhdmSize
    BY <1>2, <2>1, SMTT(60) DEF End
  <2> QED
    BY <1>1, <1>2, <2>1, <2>2 DEF InWindow, NotEmpty, Unbooted
<1> QED
  BY <1>3, <1>4, <1>5, <1>6, <1>7, StepShape

LEMMA StepWholeHeaders ==
    ASSUME HeapInv, [HeapNext]_vars
    PROVE  WholeHeaders'
<1> USE DEF HeapInv
<1>1. TypeOK' /\ DOMAIN free' = 1..Len(free')
  <2>1. TypeOK'
    BY NextTypeOK DEF Next
  <2> QED
    BY <2>1, LenProperties DEF TypeOK
<1>2. /\ Len(free) \in Nat
      /\ \A i \in 1..Len(free) : free[i].length \in Nat /\ IsWhole(free[i].length)
      /\ \A c \in live : c.length \in Nat /\ IsWhole(c.length)
  BY ListLemma DEF WholeHeaders
<1>3. CASE SameMemory
  BY <1>3 DEF SameMemory, WholeHeaders
<1>4. CASE Booted
  <2>1. live' = {}
    BY <1>4 DEF Booted, Unbooted
  <2>2. ASSUME NEW i \in 1..Len(free') PROVE IsWhole(free'[i].length)
    <3>1. /\ free'[i].length = regions[i].length
          /\ regions[i].length \in Nat \ {0} /\ regions[i].length % HeaderSize = 0
      BY <1>4, RegionsLemma DEF Booted, TypeOK
    <3>2. regions[i].length >= HeaderSize
      BY <3>1 DEF HeaderSize
    <3> QED
      BY <3>1, <3>2 DEF IsWhole
  <2> QED
    BY <1>1, <2>1, <2>2 DEF WholeHeaders
<1>5. ASSUME NEW i \in 1..Len(free), NEW c \in Chunk, Carved(i, c)
      PROVE  WholeHeaders'
  <2>1. /\ Len(free') = Len(free) /\ live' = live \union {c}
        /\ c.length \in Nat /\ IsWhole(c.length) /\ c.length < free[i].length
        /\ free'[i].length = free[i].length - c.length
        /\ \A j \in 1..Len(free) : j # i => free'[j] = free[j]
    BY <1>5 DEF Carved, IsWhole
  <2>2. IsWhole(free'[i].length)
    <3> DEFINE l == free[i].length
    <3>1. /\ l \in Nat /\ l % HeaderSize = 0
          /\ c.length \in Nat /\ c.length % HeaderSize = 0 /\ l > c.length
      BY <1>2, <2>1 DEF IsWhole
    <3> HIDE DEF l
    <3>2. l - c.length >= HeaderSize /\ (l - c.length) % HeaderSize = 0
      BY ONLY <3>1, WholeHeadersLemma
    <3> QED
      BY <2>1, <3>2 DEF IsWhole, l
  <2> QED
    BY <1>1, <1>2, <2>1, <2>2 DEF WholeHeaders
<1>6. ASSUME NEW p \in 1..Len(free), NEW c \in live, Linked(p, c)
      PROVE  WholeHeaders'
  <2>0. Len(free) \in Nat
    BY <1>2
  <2>1. /\ Len(free') = Len(free) + 1 /\ live' = live \ {c}
        /\ free'[p].length = c.length
        /\ \A j \in 1..p-1 : free'[j] = free[j]
        /\ \A j \in p+1..Len(free)+1 : free'[j] = free[j-1]
    BY <1>6 DEF Linked
  <2>2. ASSUME NEW j \in 1..Len(free') PROVE IsWhole(free'[j].length)
    <3>1. CASE j < p
      <4>1. j \in 1..Len(free) /\ free'[j] = free[j]
        BY <2>0, <2>1, <3>1
      <4> QED
        BY <1>2, <4>1
    <3>2. CASE j = p
      BY <1>2, <2>1, <3>2
    <3>3. CASE j > p
      <4>1. j - 1 \in 1..Len(free) /\ free'[j] = free[j-1]
        BY <2>0, <2>1, <3>3
      <4> QED
        BY <1>2, <4>1
    <3> QED
      BY <1>2, <2>1, <3>1, <3>2, <3>3
  <2> QED
    BY <1>1, <1>2, <2>1, <2>2 DEF WholeHeaders
<1>7. ASSUME NEW p \in 1..Len(free), NEW c \in live, Joined(p, c)
      PROVE  WholeHeaders'
  <2>1. /\ Len(free') = Len(free) /\ live' = live \ {c}
        /\ free'[p].length = c.length + free[p].length
        /\ \A j \in 1..Len(free) : j # p => free'[j] = free[j]
    BY <1>7 DEF Joined
  <2>2. IsWhole(free'[p].length)
    <3>1. (c.length + free[p].length) % HeaderSize = 0
      BY <1>2, WholeHeadersLemma DEF IsWhole
    <3> QED
      BY <1>2, <2>1, <3>1 DEF IsWhole, HeaderSize
  <2> QED
    BY <1>1, <1>2, <2>1, <2>2 DEF WholeHeaders
<1> QED
  BY <1>3, <1>4, <1>5, <1>6, <1>7, StepShape

LEMMA StepNoOverlap ==
    ASSUME HeapInv, [HeapNext]_vars
    PROVE  NoOverlap'
<1> USE DEF HeapInv
<1>1. TypeOK' /\ DOMAIN free' = 1..Len(free')
  <2>1. TypeOK'
    BY NextTypeOK DEF Next
  <2> QED
    BY <2>1, LenProperties DEF TypeOK
<1>2. /\ Len(free) \in Nat
      /\ DOMAIN free = 1..Len(free)
      /\ \A i \in 1..Len(free) : free[i].base \in Nat /\ free[i].length \in Nat
      /\ \A c \in live : c.base \in Nat /\ c.length \in Nat
  BY ListLemma
<1>3. CASE SameMemory
  BY <1>3 DEF SameMemory, NoOverlap, BlocksApart, ChunksApart, BlocksAndChunksApart
<1>4. CASE Booted
  <2>1. live' = {}
    BY <1>4 DEF Booted, Unbooted
  <2>2. ASSUME NEW i \in 1..Len(regions), NEW j \in 1..Len(regions), i # j
        PROVE  Apart(free'[i], free'[j])
    BY <1>4, <2>2, RegionsLemma DEF Booted, TypeOK, Apart, End
  <2> QED
    BY <1>1, <1>4, <2>1, <2>2
       DEF Booted, NoOverlap, BlocksApart, ChunksApart, BlocksAndChunksApart
<1>5. ASSUME NEW i \in 1..Len(free), NEW c \in Chunk, Carved(i, c)
      PROVE  NoOverlap'
  <2>1. ASSUME NEW x, x.base \in Nat, x.length \in Nat, Apart(free[i], x)
        PROVE  Apart(free'[i], x) /\ Apart(c, x)
    <3>1. /\ c.base = free[i].base /\ c.length \in Nat /\ c.length < free[i].length
          /\ free'[i].base = free[i].base + c.length
          /\ free'[i].length = free[i].length - c.length
      BY <1>5 DEF Carved
    <3>2. free[i].base \in Nat /\ free[i].length \in Nat
      BY <1>2
    <3> QED
      BY ONLY <2>1, <3>1, <3>2, SMTT(30) DEF Apart, End
  <2>2. Apart(free'[i], c)
    BY <1>2, <1>5 DEF Carved, Apart, End, Block, Chunk
  <2>3. BlocksApart'
    BY <1>1, <1>2, <1>5, <2>1 DEF Carved, NoOverlap, BlocksApart, Apart, Block
  <2>4. ChunksApart'
    BY <1>2, <1>5, <2>1 DEF Carved, NoOverlap, ChunksApart, BlocksAndChunksApart, Apart, Chunk
  <2>5. BlocksAndChunksApart'
    BY <1>1, <1>2, <1>5, <2>1, <2>2
       DEF Carved, NoOverlap, BlocksApart, BlocksAndChunksApart, Apart, Block, Chunk
  <2> QED
    BY <2>3, <2>4, <2>5 DEF NoOverlap
<1>6. ASSUME NEW p \in 1..Len(free), NEW c \in live, Linked(p, c)
      PROVE  NoOverlap'
  <2>1. ASSUME NEW x, Apart(c, x)
        PROVE  Apart(free'[p], x)
    BY <1>2, <1>6, <2>1 DEF Linked, Apart, End
  <2>2. BlocksApart'
    <3>1. /\ Len(free') = Len(free) + 1
          /\ \A j \in 1..p-1 : free'[j] = free[j]
          /\ \A j \in p+1..Len(free)+1 : free'[j] = free[j-1]
      BY <1>6 DEF Linked
    <3> DEFINE old(j) == IF j < p THEN j ELSE j - 1
    <3>2. ASSUME NEW j \in 1..Len(free)+1, j # p
          PROVE  old(j) \in 1..Len(free) /\ free'[j] = free[old(j)]
      BY <1>2, <3>1, <3>2
    <3>3. ASSUME NEW i \in 1..Len(free)+1, NEW j \in 1..Len(free)+1, i # j
          PROVE  Apart(free'[i], free'[j])
      <4>1. CASE i # p /\ j # p
        <5>1. old(i) # old(j)
          BY <1>2, <3>3, <4>1
        <5> QED
          BY <1>2, <3>2, <4>1, <5>1 DEF NoOverlap, BlocksApart
      <4>2. CASE i = p
        <5>1. Apart(c, free'[j])
          BY <1>2, <3>2, <3>3, <4>2 DEF NoOverlap, BlocksAndChunksApart, Apart
        <5> QED
          BY <2>1, <4>2, <5>1
      <4>3. CASE j = p
        <5>1. Apart(c, free'[i])
          BY <1>2, <3>2, <3>3, <4>3 DEF NoOverlap, BlocksAndChunksApart, Apart
        <5> QED
          BY <2>1, <4>3, <5>1 DEF Apart
      <4> QED
        BY <4>1, <4>2, <4>3
    <3> QED
      BY <1>1, <3>1, <3>3 DEF BlocksApart
  <2>3. ChunksApart'
    BY <1>6 DEF Linked, NoOverlap, ChunksApart
  <2>4. BlocksAndChunksApart'
    <3>1. /\ Len(free') = Len(free) + 1 /\ live' = live \ {c}
          /\ \A j \in 1..p-1 : free'[j] = free[j]
          /\ \A j \in p+1..Len(free)+1 : free'[j] = free[j-1]
      BY <1>6 DEF Linked
    <3>2. ASSUME NEW j \in 1..Len(free)+1, NEW d \in live, d # c
          PROVE  Apart(free'[j], d)
      <4>1. CASE j < p
        <5>1. j \in 1..Len(free) /\ free'[j] = free[j]
          BY <1>2, <3>1, <4>1
        <5> QED
          BY <1>2, <5>1 DEF NoOverlap, BlocksAndChunksApart
      <4>2. CASE j = p
        BY <2>1, <3>2, <4>2 DEF NoOverlap, ChunksApart
      <4>3. CASE j > p
        <5>1. j - 1 \in 1..Len(free) /\ free'[j] = free[j-1]
          BY <1>2, <3>1, <4>3
        <5> QED
          BY <1>2, <5>1 DEF NoOverlap, BlocksAndChunksApart
      <4> QED
        BY <4>1, <4>2, <4>3
    <3> QED
      BY <1>1, <3>1, <3>2 DEF BlocksAndChunksApart
  <2> QED
    BY <2>2, <2>3, <2>4 DEF NoOverlap
<1>7. ASSUME NEW p \in 1..Len(free), NEW c \in live, Joined(p, c)
      PROVE  NoOverlap'
  <2>1. /\ Len(free') = Len(free) /\ live' = live \ {c}
        /\ c.base + c.length = free[p].base
        /\ free'[p].base = c.base
        /\ free'[p].length = c.length + free[p].length
        /\ \A j \in 1..Len(free) : j # p => free'[j] = free[j]
    BY <1>7 DEF Joined, End
  <2>2. ASSUME NEW x, x.base \in Nat, x.length \in Nat, x.length > 0,
               Apart(c, x), Apart(free[p], x)
        PROVE  Apart(free'[p], x)
    BY <1>2, <2>1, <2>2, SMTT(30) DEF Apart, End
  <2>3. /\ \A j \in 1..Len(free) : free[j].length > 0
        /\ \A d \in live : d.length > 0
    BY <1>2, SMTT(60) DEF WholeHeaders, IsWhole, HeaderSize
  <2>4. BlocksApart'
    <3>1. ASSUME NEW j \in 1..Len(free), j # p
          PROVE  Apart(free'[p], free'[j])
      <4>1. free'[j] = free[j] /\ Apart(c, free[j]) /\ Apart(free[p], free[j])
        BY <1>2, <2>1, <3>1 DEF NoOverlap, BlocksApart, BlocksAndChunksApart, Apart
      <4> QED
        BY <1>2, <2>2, <2>3, <4>1
    <3>2. \A i, j \in 1..Len(free) : i # p /\ j # p /\ i # j => Apart(free'[i], free'[j])
      BY <1>2, <2>1 DEF NoOverlap, BlocksApart
    <3> QED
      BY <1>1, <2>1, <3>1, <3>2 DEF BlocksApart, Apart
  <2>5. ChunksApart'
    BY <2>1 DEF NoOverlap, ChunksApart
  <2>6. BlocksAndChunksApart'
    <3>1. ASSUME NEW d \in live, d # c PROVE Apart(free'[p], d)
      <4>1. Apart(c, d) /\ Apart(free[p], d)
        BY <1>2, <3>1 DEF NoOverlap, ChunksApart, BlocksAndChunksApart
      <4> QED
        BY <1>2, <2>2, <2>3, <4>1
    <3>2. \A j \in 1..Len(free), d \in live : j # p => Apart(free'[j], d)
      BY <1>2, <2>1 DEF NoOverlap, BlocksAndChunksApart
    <3> QED
      BY <1>1, <2>1, <3>1, <3>2 DEF BlocksAndChunksApart
  <2> QED
    BY <2>4, <2>5, <2>6 DEF NoOverlap
<1> QED
  BY <1>3, <1>4, <1>5, <1>6, <1>7, StepShape

\* The inductive invariant holds of every behaviour of the heap interface.
THEOREM HeapInvariant == HeapSpec => []HeapInv
<1>1. Init => HeapInv
  BY InitHeapInv
<1>2. HeapInv /\ [HeapNext]_vars => HeapInv'
  BY NextTypeOK, StepBookkeeping, StepWholeHeaders, StepNoOverlap DEF HeapInv, Next
<1> QED
  BY <1>1, <1>2, PTL DEF HeapSpec

\* No byte is ever in two chunks, in two free blocks, or both free and live,
\* whatever the map, the requests and the order of the calls: allocHeap and
\* free (memorylist.cpp:74-129, 166-234) never hand out a byte twice.
THEOREM HeapNeverOverlaps == HeapSpec => []NoOverlap
<1>1. HeapInv => NoOverlap
  BY DEF HeapInv
<1> QED
  BY <1>1, HeapInvariant, PTL

\* Every free block and every chunk is a positive number of whole headers: the
\* strict comparison and the rounding of allocHeap (memorylist.cpp:86-93) never
\* leave a remainder that its own header does not fit in.
THEOREM HeadersFit == HeapSpec => []RoomForHeaders
<1>1. HeapInv => RoomForHeaders
  <2> SUFFICES ASSUME HeapInv PROVE RoomForHeaders
    OBVIOUS
  <2>1. ASSUME NEW x \in Range(free) PROVE IsWhole(x.length)
    BY ListLemma DEF HeapInv, WholeHeaders, Range
  <2>2. \A x \in live : IsWhole(x.length)
    BY DEF HeapInv, WholeHeaders
  <2> QED
    BY <2>1, <2>2 DEF RoomForHeaders, IsWhole
<1> QED
  BY <1>1, HeapInvariant, PTL

-----------------------------------------------------------------------------
(* The head of the list, its last block, and its integrity. *)

LEMMA StepHeadIsLowest ==
    ASSUME HeapInv, HeadIsLowest, [HeapNext]_vars
    PROVE  HeadIsLowest'
<1> USE DEF HeapInv
<1>1. TypeOK' /\ DOMAIN free' = 1..Len(free')
  <2>1. TypeOK'
    BY NextTypeOK DEF Next
  <2> QED
    BY <2>1, LenProperties DEF TypeOK
<1>2. /\ Len(free) \in Nat /\ DOMAIN free = 1..Len(free)
      /\ \A i \in 1..Len(free) :
           /\ free[i].base \in Nat /\ free[i].length \in Nat /\ free[i].length > 0
           /\ free[1].base <= free[i].base
      /\ \A c \in live : c.base \in Nat /\ c.length \in Nat
  BY ListLemma DEF WholeHeaders, IsWhole, HeaderSize, HeadIsLowest
<1>3. CASE SameMemory
  BY <1>3 DEF SameMemory, HeadIsLowest
<1>4. CASE Booted
  <2>1. Len(regions) \in Nat /\ 1 \in 1..Len(regions)
    BY <1>4, RegionsLemma DEF Booted, TypeOK
  <2>2. \A j \in 1..Len(regions) : regions[1].base <= regions[j].base
    BY <2>1, RegionsLemma DEF TypeOK, End
  <2> QED
    BY <1>1, <1>4, <2>1, <2>2 DEF Booted, HeadIsLowest
<1>5. ASSUME NEW i \in 1..Len(free), NEW c \in Chunk, Carved(i, c)
      PROVE  HeadIsLowest'
  <2>1. /\ Len(free') = Len(free) /\ c.length \in Nat /\ c.length < free[i].length
        /\ free'[i].base = free[i].base + c.length
        /\ \A j \in 1..Len(free) : j # i => free'[j] = free[j]
    BY <1>5 DEF Carved
  <2>2. ASSUME NEW j \in 1..Len(free), j # 1
        PROVE  free'[1].base <= free'[j].base
    <3>1. 1 \in 1..Len(free)
      BY <1>2
    <3>2. End(free[1]) <= free[j].base
      BY <1>2, <2>2, <3>1 DEF NoOverlap, BlocksApart, Apart, End
    <3>3. CASE i = 1
      <4>1. free'[1].base = free[1].base + c.length /\ c.length < free[1].length
        BY <2>1, <3>3
      <4>2. /\ free[1].base \in Nat /\ free[1].length \in Nat /\ free[j].base \in Nat
            /\ free'[j] = free[j]
        BY <1>2, <2>1, <2>2, <3>1, <3>3
      <4> QED
        BY <2>1, <3>2, <4>1, <4>2 DEF End
    <3>4. CASE i # 1
      BY <1>2, <2>1, <2>2, <3>1, <3>4
    <3> QED
      BY <3>3, <3>4
  <2>3. 1 \in 1..Len(free) => free'[1].base <= free'[1].base
    BY <1>2, <2>1
  <2> QED
    BY <1>1, <2>1, <2>2, <2>3 DEF HeadIsLowest
<1>6. ASSUME NEW p \in 1..Len(free), NEW c \in live, Linked(p, c)
      PROVE  HeadIsLowest'
  <2>1. /\ Len(free') = Len(free) + 1 /\ free'[p].base = c.base
        /\ IF p = 1 THEN c.base < free[1].base ELSE c.base >= free[1].base
        /\ \A j \in 1..p-1 : free'[j] = free[j]
        /\ \A j \in p+1..Len(free)+1 : free'[j] = free[j-1]
    BY <1>6 DEF Linked
  <2>2. free'[1].base = IF p = 1 THEN c.base ELSE free[1].base
    BY <1>2, <2>1, SMTT(60)
  <2>3. ASSUME NEW j \in 1..Len(free)+1
        PROVE  free'[1].base <= free'[j].base
    <3>1. CASE j = p
      BY <1>2, <2>1, <2>2, <3>1
    <3>2. CASE j < p
      <4>1. j \in 1..Len(free) /\ free'[j] = free[j]
        BY <1>2, <2>1, <3>2
      <4> QED
        BY <1>2, <2>1, <2>2, <4>1
    <3>3. CASE j > p
      <4>1. j - 1 \in 1..Len(free) /\ free'[j] = free[j-1]
        BY <1>2, <2>1, <3>3
      <4> QED
        BY <1>2, <2>1, <2>2, <4>1
    <3> QED
      BY <1>2, <3>1, <3>2, <3>3
  <2> QED
    BY <1>1, <2>1, <2>3 DEF HeadIsLowest
<1>7. ASSUME NEW p \in 1..Len(free), NEW c \in live, Joined(p, c)
      PROVE  HeadIsLowest'
  <2>1. /\ p # 1 /\ c.base >= free[1].base
        /\ Len(free') = Len(free) /\ free'[p].base = c.base
        /\ \A j \in 1..Len(free) : j # p => free'[j] = free[j]
    BY <1>7 DEF Joined
  <2>2. 1 \in 1..Len(free) /\ free'[1] = free[1]
    BY <1>2, <2>1
  <2>3. \A j \in 1..Len(free) : free'[1].base <= free'[j].base
    BY <1>2, <2>1, <2>2
  <2> QED
    BY <1>1, <2>1, <2>3 DEF HeadIsLowest
<1> QED
  BY <1>3, <1>4, <1>5, <1>6, <1>7, StepShape

\* free may link a block out of address order, yet the head of the list stays
\* the lowest free block: the comparison with the head (memorylist.cpp:199) is
\* right, whatever disorder lies behind it.
THEOREM HeadStaysLowest == HeapSpec => []HeadIsLowest
<1>1. Init => HeadIsLowest
  BY DEF Init, HeadIsLowest
<1>2. HeapInv /\ HeadIsLowest /\ [HeapNext]_vars => HeadIsLowest'
  BY StepHeadIsLowest
<1> QED
  BY <1>1, <1>2, HeapInvariant, PTL DEF HeapSpec

LEMMA StepLastIsTopmost ==
    ASSUME HeapInv, LastIsTopmost, [HeapNext]_vars
    PROVE  LastIsTopmost'
<1> USE DEF HeapInv
<1> DEFINE n == Len(free)
<1>1. TypeOK' /\ (Len(free') > 0 => free' # <<>>)
  <2>1. TypeOK'
    BY NextTypeOK DEF Next
  <2> QED
    BY <2>1, EmptySeq
<1>2. /\ n \in Nat /\ (status = "ready" => n \in 1..n)
      /\ \A i \in 1..n : free[i].base \in Nat /\ free[i].length \in Nat
      /\ \A c \in live : c.base \in Nat /\ c.length \in Nat
  BY ListLemma DEF NotEmpty
<1> HIDE DEF n
<1>3. CASE SameMemory
  BY <1>3 DEF SameMemory, LastIsTopmost, regions
<1>4. CASE Booted
  <2>1. Len(regions) \in 1..Len(regions) /\ Len(free') = Len(regions) /\ regions' = regions
    BY <1>4, RegionsLemma DEF Booted, TypeOK, regions
  <2>2. End(free'[Len(regions)]) = End(regions[Len(regions)])
    BY <1>4, <2>1 DEF Booted, End
  <2> QED
    BY <1>1, <2>1, <2>2 DEF LastIsTopmost
<1>5. ASSUME NEW i \in 1..Len(free), NEW c \in Chunk, Carved(i, c)
      PROVE  LastIsTopmost'
  <2>1. /\ Len(free') = n /\ regions' = regions /\ status' = status
        /\ c.length \in Nat
        /\ free'[i].base = free[i].base + c.length
        /\ free'[i].length = free[i].length - c.length
        /\ \A j \in 1..n : j # i => free'[j] = free[j]
    BY <1>5 DEF Carved, regions, n
  <2>2. i \in 1..n /\ n \in 1..n
    BY <1>2 DEF n
  <2>3. End(free'[n]) = End(free[n])
    <3>1. CASE i = n
      BY <1>2, <2>1, <2>2, <3>1 DEF End
    <3>2. CASE i # n
      BY <2>1, <2>2, <3>2
    <3> QED
      BY <3>1, <3>2
  <2>4. Len(free') > 0
    BY <1>2, <2>1, <2>2
  <2> QED
    BY <1>1, <2>1, <2>3, <2>4 DEF LastIsTopmost, n
<1>6. ASSUME NEW p \in 1..Len(free), NEW c \in live, Linked(p, c)
      PROVE  LastIsTopmost'
  <2>1. /\ Len(free') = n + 1 /\ regions' = regions /\ status' = status
        /\ p \in 1..n
        /\ \A j \in p+1..n+1 : free'[j] = free[j-1]
    BY <1>6 DEF Linked, regions, n
  <2>2. free'[n+1] = free[n]
    BY <1>2, <2>1
  <2>3. Len(free') > 0
    BY <1>2, <2>1
  <2> QED
    BY <1>1, <2>1, <2>2, <2>3 DEF LastIsTopmost, n
<1>7. ASSUME NEW p \in 1..Len(free), NEW c \in live, Joined(p, c)
      PROVE  LastIsTopmost'
  <2>1. /\ Len(free') = n /\ regions' = regions /\ status' = status
        /\ p \in 1..n /\ n \in 1..n
        /\ c.base + c.length = free[p].base
        /\ free'[p].base = c.base
        /\ free'[p].length = c.length + free[p].length
        /\ \A j \in 1..n : j # p => free'[j] = free[j]
    BY <1>2, <1>7 DEF Joined, regions, n, End
  <2>2. End(free'[n]) = End(free[n])
    <3>1. CASE p = n
      BY <1>2, <2>1, <3>1 DEF End
    <3>2. CASE p # n
      BY <2>1, <3>2
    <3> QED
      BY <3>1, <3>2
  <2>3. Len(free') > 0
    BY <1>2, <2>1
  <2> QED
    BY <1>1, <2>1, <2>2, <2>3 DEF LastIsTopmost, n
<1> QED
  BY <1>3, <1>4, <1>5, <1>6, <1>7, StepShape

\* The list always ends with the block at the end of the usable memory: no
\* sequence of calls links a chunk behind it or leaves the list empty, which is
\* what allocStack's walk (memorylist.cpp:148-153) takes for granted.
THEOREM LastStaysTopmost == HeapSpec => []LastIsTopmost
<1>1. Init => LastIsTopmost
  BY DEF Init, LastIsTopmost
<1>2. HeapInv /\ LastIsTopmost /\ [HeapNext]_vars => LastIsTopmost'
  BY StepLastIsTopmost
<1> QED
  BY <1>1, <1>2, HeapInvariant, PTL DEF HeapSpec

\* A header written behind a carved chunk lies inside the block it was carved
\* from, where there is no other header.
LEMMA CarveClobbersNothing ==
    ASSUME HeapInv, NEW i \in 1..Len(free), NEW size \in Nat,
           size >= HeaderSize, size % HeaderSize = 0, free[i].length > size
    PROVE  ~Clobbers(free[i].base + size)
<1> USE DEF HeapInv
<1> DEFINE a == free[i].base + size
<1>1. /\ Len(free) \in Nat /\ DOMAIN free = 1..Len(free)
      /\ \A j \in 1..Len(free) :
           /\ free[j].base \in Nat /\ free[j].length \in Nat
           /\ free[j].length >= HeaderSize /\ free[j].length % HeaderSize = 0
      /\ \A c \in live : c.base \in Nat /\ c.length \in Nat /\ c.length >= HeaderSize
  BY ListLemma DEF WholeHeaders, IsWhole
<1>2. a + HeaderSize <= free[i].base + free[i].length /\ a \in Nat
      /\ a >= free[i].base + HeaderSize
  <2> DEFINE l == free[i].length
  <2>1. l \in Nat /\ l % HeaderSize = 0 /\ free[i].base \in Nat
    BY <1>1
  <2> HIDE DEF l
  <2>2. l - size >= HeaderSize
    <3>1. l > size
      BY DEF l
    <3> QED
      BY ONLY <2>1, <3>1, size \in Nat, size % HeaderSize = 0, WholeHeadersLemma
  <2> QED
    BY <2>1, <2>2, SMTT(60) DEF HeaderSize, l
<1> HIDE DEF a
<1>3. ASSUME NEW h \in Headers PROVE ~(h < a + HeaderSize /\ a < h + HeaderSize)
  <2>1. CASE h \in {free[j].base : j \in DOMAIN free}
    <3>1. PICK j \in 1..Len(free) : h = free[j].base
      BY <1>1, <2>1
    <3>2. CASE j = i
      BY <1>1, <1>2, <3>1, <3>2 DEF HeaderSize
    <3>3. CASE j # i
      <4>1. Apart(free[i], free[j])
        BY <1>1, <3>3 DEF NoOverlap, BlocksApart
      <4>2. /\ free[i].base \in Nat /\ free[i].length \in Nat
            /\ free[j].base \in Nat /\ free[j].length \in Nat
            /\ free[j].length >= HeaderSize
        BY <1>1
      <4> QED
        BY ONLY <1>2, <3>1, <4>1, <4>2, SMTT(30) DEF HeaderSize, Apart, End
    <3> QED
      BY <3>2, <3>3
  <2>2. CASE h \in {c.base : c \in live}
    <3>1. PICK c \in live : h = c.base
      BY <2>2
    <3>2. Apart(free[i], c)
      BY <1>1 DEF NoOverlap, BlocksAndChunksApart
    <3>3. /\ free[i].base \in Nat /\ free[i].length \in Nat
          /\ c.base \in Nat /\ c.length \in Nat /\ c.length >= HeaderSize
      BY <1>1
    <3> QED
      BY ONLY <1>2, <3>1, <3>2, <3>3, SMTT(30) DEF HeaderSize, Apart, End
  <2> QED
    BY <1>3, <2>1, <2>2 DEF Headers
<1> QED
  BY <1>3 DEF Clobbers, a

LEMMA StepCorruptOnlyAtBoot ==
    ASSUME HeapInv, CorruptOnlyAtBoot, [HeapNext]_vars
    PROVE  CorruptOnlyAtBoot'
<1> USE DEF HeapInv
<1>1. memmap' = memmap /\ regions' = regions
  <2>1. memmap' = memmap
    BY StepShape DEF SameMemory, Booted, Carved, Linked, Joined
  <2> QED
    BY <2>1 DEF regions
<1>2. ASSUME status' # "corrupt" \/ status' = status PROVE CorruptOnlyAtBoot'
  BY <1>1, <1>2 DEF CorruptOnlyAtBoot
<1>3. CASE InitialiseHeaders
  BY <1>1, <1>3 DEF InitialiseHeaders, Stop, CorruptOnlyAtBoot
<1>4. ASSUME NEW n \in HeapRequests, AllocHeap(n)
      PROVE  status' # "corrupt" \/ status' = status
  <2>1. CASE UNCHANGED vars \/ Stop("fault")
    BY <2>1 DEF vars, Stop
  <2>2. CASE ~(UNCHANGED vars \/ Stop("fault"))
    <3>1. n \in Nat /\ n > 0
      BY <1>4, <2>2, RequestAssumption DEF AllocHeap
    <3> DEFINE size == ChunkSize(n)
    <3>2. size \in Nat /\ size >= HeaderSize /\ size % HeaderSize = 0
      BY <3>1, ChunkSizeLemma
    <3> HIDE DEF size
    <3>3. PICK i \in 1..Len(free) : FirstFit(i, size) /\ Carve(i, size, n)
      BY <1>4, <2>2, ListLemma DEF AllocHeap, size
    <3>4. ~Clobbers(free[i].base + size)
      BY <3>2, <3>3, CarveClobbersNothing DEF FirstFit, Fits
    <3> QED
      BY <2>2, <3>3, <3>4 DEF Carve, WriteHeader
  <2> QED
    BY <2>1, <2>2
<1>5. ASSUME NEW c \in live, Free(c)
      PROVE  status' # "corrupt" \/ status' = status
  BY <1>5 DEF Free, Stop
<1>6. CASE FreeNothing
  BY <1>2, <1>6 DEF FreeNothing, Stop
<1>7. CASE UNCHANGED vars
  BY <1>2, <1>7 DEF vars
<1> QED
  BY <1>2, <1>3, <1>4, <1>5, <1>6, <1>7 DEF HeapNext

\* allocHeap and free never write one header over another (memorylist.cpp:
\* 101-114, 199-233): a corrupted list comes from a memory map with no usable
\* entry, or with more of them than the array of InitialiseHeaders holds.
THEOREM ListNeverCorrupted == HeapSpec => []CorruptOnlyAtBoot
<1>1. Init => CorruptOnlyAtBoot
  BY DEF Init, CorruptOnlyAtBoot
<1>2. HeapInv /\ CorruptOnlyAtBoot /\ [HeapNext]_vars => CorruptOnlyAtBoot'
  BY StepCorruptOnlyAtBoot
<1> QED
  BY <1>1, <1>2, HeapInvariant, PTL DEF HeapSpec

-----------------------------------------------------------------------------
(* The bytes the list and the chunks are made of. *)

Bytes(x) == x.base .. End(x) - 1
LiveBytes == UNION {Bytes(c) : c \in live}

LEMMA UsableBytesLemma ==
    ASSUME memmap \in MemoryMaps
    PROVE  \A a : a \in UsableBytes(memmap)
                   <=> \E i \in 1..Len(regions) : a \in Bytes(regions[i])
<1>1. Len(regions) \in Nat /\ DOMAIN regions = 1..Len(regions)
  <2>1. regions \in Seq([base : Nat, length : Nat \ {0}, usable : BOOLEAN])
    BY MapAssumption DEF regions
  <2> QED
    BY <2>1, LenProperties
<1>2. Range(regions) = {regions[i] : i \in 1..Len(regions)}
  BY <1>1 DEF Range
<1> QED
  BY <1>2 DEF UsableBytes, Bytes, regions

\* What the shapes do to the free bytes.
LEMMA BootedBytes ==
    ASSUME TypeOK, TypeOK', Booted
    PROVE  FreeBytes' = UsableBytes(memmap)
<1>1. /\ Len(free') \in Nat /\ DOMAIN free' = 1..Len(free')
      /\ Len(free') = Len(regions)
  BY LenProperties DEF TypeOK, Booted
<1>2. \A i \in 1..Len(regions) : Bytes(free'[i]) = Bytes(regions[i])
  BY DEF Booted, Bytes, End
<1>3. \A a : a \in FreeBytes' <=> \E i \in 1..Len(free') : a \in Bytes(free'[i])
  BY <1>1 DEF FreeBytes, Bytes
<1>4. \A a : a \in UsableBytes(memmap)
                <=> \E i \in 1..Len(regions) : a \in Bytes(regions[i])
  BY UsableBytesLemma DEF TypeOK
<1>5. \A a : a \in FreeBytes' <=> a \in UsableBytes(memmap)
  BY <1>1, <1>2, <1>3, <1>4
<1> QED
  BY <1>5

LEMMA CarvedBytes ==
    ASSUME HeapInv, TypeOK', NEW i \in 1..Len(free), NEW c \in Chunk, Carved(i, c)
    PROVE  /\ c \notin live
           /\ Bytes(c) # {} /\ Bytes(c) \subseteq FreeBytes
           /\ FreeBytes' = FreeBytes \ Bytes(c)
<1> USE DEF HeapInv
<1>1. /\ Len(free) \in Nat /\ DOMAIN free = 1..Len(free)
      /\ DOMAIN free' = 1..Len(free')
      /\ \A j \in 1..Len(free) : free[j].base \in Nat /\ free[j].length \in Nat
  BY ListLemma, LenProperties DEF TypeOK
<1>2. /\ c.base \in Nat /\ c.length \in Nat /\ c.length > 0
      /\ c.base = free[i].base /\ c.length < free[i].length
      /\ Len(free') = Len(free)
      /\ free'[i].base = free[i].base + c.length
      /\ free'[i].length = free[i].length - c.length
      /\ \A j \in 1..Len(free) : j # i => free'[j] = free[j]
  BY DEF Carved, HeaderSize
<1>3. c \notin live
  <2> SUFFICES ASSUME c \in live PROVE FALSE
    OBVIOUS
  <2>1. Apart(free[i], c)
    BY <1>1 DEF NoOverlap, BlocksAndChunksApart
  <2>2. free[i].base \in Nat /\ free[i].length \in Nat
    BY <1>1
  <2> QED
    BY ONLY <1>2, <2>1, <2>2 DEF Apart, End
<1>4. /\ c.base \in Bytes(c)
      /\ Bytes(c) \subseteq Bytes(free[i])
      /\ Bytes(free'[i]) = Bytes(free[i]) \ Bytes(c)
  <2>1. free[i].base \in Nat /\ free[i].length \in Nat
    BY <1>1
  <2> QED
    BY ONLY <1>2, <2>1, SMTT(60) DEF Bytes, End
<1>5. \A j \in 1..Len(free) : j # i => Bytes(free[j]) \intersect Bytes(c) = {}
  <2> SUFFICES ASSUME NEW j \in 1..Len(free), j # i,
                      NEW a, a \in Bytes(free[j]), a \in Bytes(free[i])
               PROVE  FALSE
    BY <1>4
  <2>1. Apart(free[i], free[j])
    BY <1>1 DEF NoOverlap, BlocksApart
  <2>2. /\ free[i].base \in Nat /\ free[i].length \in Nat
        /\ free[j].base \in Nat /\ free[j].length \in Nat
        /\ a \in Bytes(free[j]) /\ a \in Bytes(free[i])
    BY <1>1
  <2> QED
    BY ONLY <2>1, <2>2, SMTT(60) DEF Apart, End, Bytes
<1>6. /\ \A a : a \in FreeBytes <=> \E j \in 1..Len(free) : a \in Bytes(free[j])
      /\ \A a : a \in FreeBytes' <=> \E j \in 1..Len(free) : a \in Bytes(free'[j])
  BY <1>1, <1>2 DEF FreeBytes, Bytes
<1>7. Bytes(c) \subseteq FreeBytes
  BY <1>4, <1>6
<1>8. ASSUME NEW a PROVE a \in FreeBytes' <=> a \in FreeBytes /\ a \notin Bytes(c)
  <2>1. ASSUME NEW j \in 1..Len(free), a \in Bytes(free'[j])
        PROVE  a \in Bytes(free[j]) /\ a \notin Bytes(c)
    BY <1>2, <1>4, <1>5, <2>1
  <2>2. ASSUME NEW j \in 1..Len(free), a \in Bytes(free[j]), a \notin Bytes(c)
        PROVE  a \in Bytes(free'[j])
    BY <1>2, <1>4, <2>2
  <2> QED
    BY <1>6, <2>1, <2>2
<1> QED
  BY <1>3, <1>4, <1>7, <1>8

LEMMA LinkedBytes ==
    ASSUME HeapInv, TypeOK', NEW p \in 1..Len(free), NEW c \in live, Linked(p, c)
    PROVE  FreeBytes' = FreeBytes \union Bytes(c)
<1>1. /\ Len(free) \in Nat /\ DOMAIN free = 1..Len(free)
      /\ DOMAIN free' = 1..Len(free')
  BY ListLemma, LenProperties DEF TypeOK, HeapInv
<1>2. /\ Len(free') = Len(free) + 1
      /\ free'[p].base = c.base /\ free'[p].length = c.length
      /\ \A j \in 1..p-1 : free'[j] = free[j]
      /\ \A j \in p+1..Len(free)+1 : free'[j] = free[j-1]
  BY DEF Linked
<1>3. /\ \A a : a \in FreeBytes <=> \E j \in 1..Len(free) : a \in Bytes(free[j])
      /\ \A a : a \in FreeBytes' <=> \E j \in 1..Len(free)+1 : a \in Bytes(free'[j])
  BY <1>1, <1>2 DEF FreeBytes, Bytes
<1>4. Bytes(free'[p]) = Bytes(c) /\ p \in 1..Len(free)+1
  BY <1>1, <1>2 DEF Bytes, End
<1>5. ASSUME NEW j \in 1..Len(free)
      PROVE  \E k \in 1..Len(free)+1 : free'[k] = free[j]
  <2>1. CASE j < p
    BY <1>1, <1>2, <2>1
  <2>2. CASE j >= p
    <3>1. j + 1 \in p+1..Len(free)+1 /\ j + 1 \in 1..Len(free)+1 /\ (j + 1) - 1 = j
      BY <1>1, <2>2
    <3> QED
      BY <1>2, <3>1
  <2> QED
    BY <1>1, <2>1, <2>2
<1>6. ASSUME NEW k \in 1..Len(free)+1, k # p
      PROVE  \E j \in 1..Len(free) : free'[k] = free[j]
  <2>1. CASE k < p
    BY <1>1, <1>2, <2>1
  <2>2. CASE k > p
    BY <1>1, <1>2, <2>2
  <2> QED
    BY <1>1, <1>6, <2>1, <2>2
<1>7. ASSUME NEW a PROVE a \in FreeBytes' <=> a \in FreeBytes \/ a \in Bytes(c)
  <2>1. ASSUME a \in FreeBytes PROVE a \in FreeBytes'
    BY <1>3, <1>5, <2>1
  <2>2. ASSUME a \in FreeBytes' PROVE a \in FreeBytes \/ a \in Bytes(c)
    BY <1>3, <1>4, <1>6, <2>2
  <2>3. ASSUME a \in Bytes(c) PROVE a \in FreeBytes'
    BY <1>3, <1>4, <2>3
  <2> QED
    BY <2>1, <2>2, <2>3
<1> QED
  BY <1>7

LEMMA JoinedBytes ==
    ASSUME HeapInv, TypeOK', NEW p \in 1..Len(free), NEW c \in live, Joined(p, c)
    PROVE  FreeBytes' = FreeBytes \union Bytes(c)
<1>1. /\ Len(free) \in Nat /\ DOMAIN free = 1..Len(free)
      /\ DOMAIN free' = 1..Len(free')
      /\ \A j \in 1..Len(free) : free[j].base \in Nat /\ free[j].length \in Nat
      /\ c.base \in Nat /\ c.length \in Nat
  BY ListLemma, LenProperties DEF TypeOK, HeapInv
<1>2. /\ Len(free') = Len(free)
      /\ End(c) = free[p].base
      /\ free'[p].base = c.base
      /\ free'[p].length = c.length + free[p].length
      /\ \A j \in 1..Len(free) : j # p => free'[j] = free[j]
  BY DEF Joined
<1>3. /\ \A a : a \in FreeBytes <=> \E j \in 1..Len(free) : a \in Bytes(free[j])
      /\ \A a : a \in FreeBytes' <=> \E j \in 1..Len(free) : a \in Bytes(free'[j])
  BY <1>1, <1>2 DEF FreeBytes, Bytes
<1>4. Bytes(free'[p]) = Bytes(free[p]) \union Bytes(c)
  <2>1. /\ free[p].base \in Nat /\ free[p].length \in Nat
        /\ c.base \in Nat /\ c.length \in Nat
    BY <1>1
  <2> QED
    BY ONLY <1>2, <2>1, SMTT(30) DEF Bytes, End
<1> QED
  BY <1>2, <1>3, <1>4

-----------------------------------------------------------------------------
(* No byte is lost. *)

\* What NoLeak needs to be inductive, and more than it says: the list and the
\* chunks are made of the usable bytes, all of them and no others.
Conserved ==
    status = "ready" => FreeBytes \union LiveBytes = UsableBytes(memmap)

LEMMA StepConserved ==
    ASSUME HeapInv, Conserved, [HeapNext]_vars
    PROVE  Conserved'
<1> USE DEF HeapInv
<1>1. TypeOK'
  BY NextTypeOK DEF Next
<1>2. CASE SameMemory
  BY <1>2 DEF SameMemory, Conserved, FreeBytes, LiveBytes, Bytes
<1>3. CASE Booted
  <2>1. live' = {} /\ memmap' = memmap
    BY <1>3 DEF Booted, Unbooted
  <2>2. LiveBytes' = {}
    BY <2>1 DEF LiveBytes
  <2>3. FreeBytes' = UsableBytes(memmap)
    BY <1>1, <1>3, BootedBytes
  <2> QED
    BY <2>1, <2>2, <2>3 DEF Conserved
<1>4. ASSUME NEW i \in 1..Len(free), NEW c \in Chunk, Carved(i, c)
      PROVE  Conserved'
  <2>1. live' = live \union {c} /\ memmap' = memmap /\ status' = status
    BY <1>4 DEF Carved
  <2>2. LiveBytes' = LiveBytes \union Bytes(c)
    BY <2>1 DEF LiveBytes, Bytes
  <2>3. Bytes(c) \subseteq FreeBytes /\ FreeBytes' = FreeBytes \ Bytes(c)
    BY <1>1, <1>4, CarvedBytes
  <2> QED
    BY <2>1, <2>2, <2>3 DEF Conserved
<1>5. ASSUME NEW c \in live, live' = live \ {c}, memmap' = memmap, status' = status,
             FreeBytes' = FreeBytes \union Bytes(c)
      PROVE  Conserved'
  <2>1. LiveBytes = LiveBytes' \union Bytes(c)
    BY <1>5 DEF LiveBytes, Bytes
  <2> QED
    BY <1>5, <2>1 DEF Conserved
<1>6. ASSUME NEW p \in 1..Len(free), NEW c \in live, Linked(p, c)
      PROVE  Conserved'
  <2>1. live' = live \ {c} /\ memmap' = memmap /\ status' = status
    BY <1>6 DEF Linked
  <2> QED
    BY <1>1, <1>5, <1>6, <2>1, LinkedBytes
<1>7. ASSUME NEW p \in 1..Len(free), NEW c \in live, Joined(p, c)
      PROVE  Conserved'
  <2>1. live' = live \ {c} /\ memmap' = memmap /\ status' = status
    BY <1>7 DEF Joined
  <2> QED
    BY <1>1, <1>5, <1>7, <2>1, JoinedBytes
<1> QED
  BY <1>2, <1>3, <1>4, <1>6, <1>7, StepShape

\* After boot the free blocks and the live chunks together are the usable
\* memory, byte for byte, whatever the calls and their order: allocHeap and
\* free (memorylist.cpp:74-129, 166-234) neither lose nor invent memory.
THEOREM MemoryConserved == HeapSpec => []Conserved
<1>1. Init => Conserved
  BY DEF Init, Conserved
<1>2. HeapInv /\ Conserved /\ [HeapNext]_vars => Conserved'
  BY StepConserved
<1> QED
  BY <1>1, <1>2, HeapInvariant, PTL DEF HeapSpec

\* No usable byte ever drops out of the list and the chunks: splitting, joining
\* and linking (memorylist.cpp:110-117, 199-233) keep every byte reachable.
THEOREM HeapNeverLeaks == HeapSpec => []NoLeak
<1>1. HeapInv /\ Conserved => NoLeak
  <2> SUFFICES ASSUME HeapInv, Conserved, status = "ready",
                      NEW i \in DOMAIN regions,
                      NEW a \in regions[i].base .. End(regions[i]) - 1
               PROVE  \/ \E j \in DOMAIN free : Holds(free[j], a)
                      \/ \E c \in live : Holds(c, a)
    BY DEF NoLeak
  <2>1. a \in UsableBytes(memmap)
    BY DEF UsableBytes, Range, regions
  <2>2. a \in FreeBytes \/ a \in LiveBytes
    BY <2>1 DEF Conserved
  <2>3. ASSUME NEW x, x.base \in Nat, x.length \in Nat, a \in Bytes(x)
        PROVE  Holds(x, a)
    BY <2>3 DEF Bytes, Holds, End
  <2>4. CASE a \in FreeBytes
    <3>1. PICK j \in DOMAIN free : a \in Bytes(free[j])
      BY <2>4 DEF FreeBytes, Bytes
    <3> QED
      BY <2>3, <3>1, ListLemma DEF HeapInv
  <2>5. CASE a \in LiveBytes
    <3>1. PICK c \in live : a \in Bytes(c)
      BY <2>5 DEF LiveBytes
    <3> QED
      BY <2>3, <3>1, ListLemma DEF HeapInv
  <2> QED
    BY <2>2, <2>4, <2>5
<1> QED
  BY <1>1, HeapInvariant, MemoryConserved, PTL

\* A chunk ends at or below the end of the memory, so the block that is at the
\* end of the memory is above every chunk.
LEMMA ChunksBelowTop ==
    ASSUME HeapInv, Conserved, LastIsTopmost, status = "ready", NEW c \in live
    PROVE  End(c) <= free[Len(free)].base
<1> USE DEF HeapInv
<1> DEFINE last == free[Len(free)]
           n == Len(regions)
<1>1. /\ Len(free) \in 1..Len(free) /\ DOMAIN free = 1..Len(free)
      /\ last.base \in Nat /\ last.length \in Nat /\ last.length > 0
      /\ c.base \in Nat /\ c.length \in Nat /\ c.length > 0
  BY ListLemma DEF NotEmpty, WholeHeaders, IsWhole, HeaderSize
<1>2. Apart(last, c)
  BY <1>1 DEF NoOverlap, BlocksAndChunksApart
<1>3. End(c) - 1 \in UsableBytes(memmap)
  <2>1. End(c) - 1 \in Bytes(c)
    BY <1>1 DEF Bytes, End
  <2> QED
    BY <2>1 DEF Conserved, LiveBytes
<1>4. PICK i \in 1..n : End(c) - 1 \in Bytes(regions[i])
  BY <1>3, UsableBytesLemma DEF TypeOK
<1>5. /\ n \in Nat
      /\ regions[i].base \in Nat /\ regions[i].length \in Nat
      /\ regions[n].base \in Nat /\ regions[n].length \in Nat
      /\ i < n => End(regions[i]) <= regions[n].base
  <2>1. n \in Nat
    BY RegionsLemma DEF TypeOK
  <2>2. n \in 1..n
    BY <1>4, <2>1
  <2> QED
    BY <2>1, <2>2, RegionsLemma DEF TypeOK
<1>6. End(last) = End(regions[n])
  BY DEF LastIsTopmost
<1> HIDE DEF n, last
<1>7. End(c) <= End(last)
  <2>0. End(c) \in Int /\ End(regions[i]) \in Int /\ End(regions[n]) \in Int
    <3>1. ASSUME NEW x, x.base \in Nat, x.length \in Nat PROVE End(x) \in Int
      BY <3>1 DEF End
    <3> QED
      BY <1>1, <1>5, <3>1
  <2>1. End(c) <= End(regions[i])
    <3>1. End(c) - 1 \in regions[i].base .. End(regions[i]) - 1
      BY <1>4 DEF Bytes
    <3> QED
      BY <1>5, <2>0, <3>1
  <2>2. End(regions[i]) <= End(regions[n])
    <3>1. CASE i = n
      BY <1>5, <3>1 DEF End
    <3>2. CASE i # n
      <4>1. i < n
        BY <1>5, <3>2
      <4> QED
        BY <1>5, <4>1 DEF End
    <3> QED
      BY <3>1, <3>2
  <2> QED
    BY <1>6, <2>0, <2>1, <2>2
<1>8. End(c) <= last.base
  BY ONLY <1>1, <1>2, <1>7 DEF Apart, End
<1> QED
  BY <1>8 DEF last

\* On a list of at most two blocks the walk of free finds a place for every
\* live chunk (memorylist.cpp:199-212), so delete does not fault: the inverted
\* test inside its loop is met by longer lists only.
THEOREM ShortListsTakeChunks == HeapSpec => []ShortListFrees
<1>1. HeapInv /\ Conserved /\ LastIsTopmost => ShortListFrees
  <2> SUFFICES ASSUME HeapInv, Conserved, LastIsTopmost,
                      status = "ready", Len(free) <= 2,
                      NEW c \in live, ~(c.base < free[1].base)
               PROVE  \E k \in 1..Len(free)-1 : IsBetween(c, k)
    BY DEF ShortListFrees
  <2>1. /\ Len(free) \in 1..2
        /\ \A i \in 1..Len(free) : free[i].base \in Nat
        /\ c.base \in Nat /\ c.length \in Nat /\ c.length > 0
    BY ListLemma DEF HeapInv, NotEmpty, WholeHeaders, IsWhole, HeaderSize
  <2>2. End(c) <= free[Len(free)].base
    BY ChunksBelowTop
  <2>3. Len(free) = 2 /\ free[1].base \in Nat /\ free[2].base \in Nat
    BY <2>1, <2>2 DEF End
  <2>4. IsBetween(c, 1)
    BY <2>1, <2>2, <2>3 DEF IsBetween, End
  <2> QED
    BY <2>3, <2>4
<1> QED
  BY <1>1, HeapInvariant, MemoryConserved, LastStaysTopmost, PTL

-----------------------------------------------------------------------------
(* The heap interface implements Allocator. *)

Running == status \in {"uninitialised", "ready"}

LEMMA BytesOfLemma ==
    ASSUME NEW c \in Chunk
    PROVE  Abstract!BytesOf(c) = Bytes(c)
<1>1. Abstract!BytesOf(c) = c.base .. c.base + (c.length - 1)
  BY DEF Abstract!BytesOf
<1>2. c.base \in Nat /\ c.length \in Nat
  BY DEF Chunk
<1>3. c.base + (c.length - 1) = End(c) - 1
  BY <1>2 DEF End
<1> QED
  BY <1>1, <1>3 DEF Bytes

LEMMA InitRefines == Init => Abstract!Init
<1> SUFFICES ASSUME Init PROVE Abstract!Init
  OBVIOUS
<1>1. DOMAIN free = {} /\ live = {} /\ status = "uninitialised"
  BY DEF Init
<1>2. FreeBytes = {}
  BY <1>1 DEF FreeBytes
<1> QED
  BY <1>1, <1>2 DEF Abstract!Init

\* Every step of the heap interface is one operation of the allocator or none.
LEMMA StepRefines ==
    ASSUME HeapInv, [HeapNext]_vars
    PROVE  Abstract!Next \/ UNCHANGED Abstract!vars
<1> USE DEF HeapInv
<1>1. TypeOK'
  BY NextTypeOK DEF Next
<1>2. CASE SameMemory
  <2>1. FreeBytes' = FreeBytes /\ live' = live
    BY <1>2 DEF SameMemory, FreeBytes
  <2>2. CASE Running /\ ~Running'
    BY <2>1, <2>2 DEF Abstract!Next, Abstract!Halt, Running
  <2>3. CASE Running' = Running
    BY <2>1, <2>3 DEF Abstract!vars, Running
  <2>4. Running' => Running
    BY <1>2 DEF SameMemory, Running, TypeOK
  <2> QED
    BY <2>2, <2>3, <2>4 DEF Running
<1>3. CASE Booted
  <2>1. /\ live' = live /\ live = {} /\ free = <<>>
        /\ status = "uninitialised" /\ status' = "ready"
    BY <1>3 DEF Booted, Unbooted
  <2>2. FreeBytes = {}
    <3>1. DOMAIN free = {}
      BY <2>1
    <3> QED
      BY <3>1 DEF FreeBytes
  <2>3. FreeBytes' \in {UsableBytes(m) : m \in MemoryMaps}
    BY <1>1, <1>3, BootedBytes DEF TypeOK
  <2>4. Abstract!Boot
    BY <2>1, <2>2, <2>3 DEF Abstract!Boot
  <2> QED
    BY <2>4 DEF Abstract!Next
<1>4. ASSUME NEW i \in 1..Len(free), NEW c \in Chunk, Carved(i, c)
      PROVE  Abstract!Next
  <2>1. /\ live' = live \union {c} /\ Running /\ Running'
    BY <1>4 DEF Carved, Running
  <2>2. /\ c \notin live
        /\ Bytes(c) # {} /\ Bytes(c) \subseteq FreeBytes
        /\ FreeBytes' = FreeBytes \ Bytes(c)
    BY <1>1, <1>4, CarvedBytes
  <2>3. Abstract!BytesOf(c) = Bytes(c)
    BY BytesOfLemma
  <2>4. Abstract!Allocate
    BY <2>1, <2>2, <2>3 DEF Abstract!Allocate, Running
  <2> QED
    BY <2>4 DEF Abstract!Next
<1>5. ASSUME NEW c \in live, live' = live \ {c}, Running, Running',
             FreeBytes' = FreeBytes \union Bytes(c)
      PROVE  Abstract!Next
  <2>1. Abstract!BytesOf(c) = Bytes(c)
    BY BytesOfLemma DEF TypeOK
  <2>2. Abstract!Free
    BY <1>5, <2>1 DEF Abstract!Free, Running
  <2> QED
    BY <2>2 DEF Abstract!Next
<1>6. ASSUME NEW p \in 1..Len(free), NEW c \in live, Linked(p, c)
      PROVE  Abstract!Next
  <2>1. live' = live \ {c} /\ Running /\ Running'
    BY <1>6 DEF Linked, Running
  <2> QED
    BY <1>1, <1>5, <1>6, <2>1, LinkedBytes
<1>7. ASSUME NEW p \in 1..Len(free), NEW c \in live, Joined(p, c)
      PROVE  Abstract!Next
  <2>1. live' = live \ {c} /\ Running /\ Running'
    BY <1>7 DEF Joined, Running
  <2> QED
    BY <1>1, <1>5, <1>7, <2>1, JoinedBytes
<1> QED
  BY <1>2, <1>3, <1>4, <1>6, <1>7, StepShape

\* The heap interface is an allocator: whatever the calls, allocHeap
\* (memorylist.cpp:74-129) moves available bytes to one new chunk, free
\* (166-234) moves that chunk's bytes back, and the only other thing that can
\* happen is that the kernel stops.
THEOREM HeapIsAllocator == HeapSpec => ImplementsAllocator
<1>1. Init => Abstract!Init
  BY InitRefines
<1>2. HeapInv /\ [HeapNext]_vars => [Abstract!Next]_(Abstract!vars)
  BY StepRefines
<1> QED
  BY <1>1, <1>2, HeapInvariant, PTL DEF HeapSpec, ImplementsAllocator, Abstract!Spec

-----------------------------------------------------------------------------
(* The lengths in the headers, stacks included. *)

ListTotal(list) == MapThenSumSet(LAMBDA i : list[i].length, DOMAIN list)
ChunkTotal(chunks) == MapThenSumSet(LAMBDA c : c.length, chunks)

ListLengths(list) == [i \in DOMAIN list |-> list[i].length]
ChunkLengths(chunks) == [c \in chunks |-> c.length]

\* A list whose lengths are numbers.
IsList(list) ==
    /\ Len(list) \in Nat /\ DOMAIN list = 1..Len(list)
    /\ \A i \in 1..Len(list) : list[i].length \in Nat

\* The sum over a list is a total.
LEMMA ListTotalIs ==
    ASSUME NEW list, IsList(list)
    PROVE  /\ IsTotal(ListTotal(list), DOMAIN list, ListLengths(list))
           /\ IsFiniteSet(DOMAIN list)
<1> DEFINE S == DOMAIN list
           val == ListLengths(list)
           First(s) == CHOOSE i \in s : TRUE
           Sum(iter) ==
             iter = [s \in SUBSET S |->
                       IF s = {} THEN 0 ELSE list[First(s)].length + iter[s \ {First(s)}]]
           fold == CHOOSE iter : Sum(iter)
<1>1. IsFiniteSet(S) /\ \A i \in S : val[i] \in Nat /\ val[i] = list[i].length
  <2>1. IsFiniteSet(1..Len(list))
    BY FS_Interval DEF IsList
  <2> QED
    BY <2>1 DEF IsList, ListLengths
<1> HIDE DEF S, val
<1>2. \A s \in SUBSET S : s # {} => First(s) \in S
  OBVIOUS
<1>3. ASSUME NEW iter PROVE Sum(iter) <=> Folded(iter, val, S)
  <2> HIDE DEF First
  <2>1. ASSUME NEW s \in SUBSET S
        PROVE  (IF s = {} THEN 0 ELSE list[First(s)].length + iter[s \ {First(s)}])
               = (IF s = {} THEN 0 ELSE val[First(s)] + iter[s \ {First(s)}])
    BY <1>1, <1>2
  <2>2. Folded(iter, val, S) <=>
          iter = [s \in SUBSET S |-> IF s = {} THEN 0 ELSE val[First(s)] + iter[s \ {First(s)}]]
    BY DEF Folded, First
  <2> QED
    BY <2>1, <2>2
<1>4. \E iter : Folded(iter, val, S)
  BY <1>1, FoldedExists
<1> HIDE DEF Sum
<1>5. Folded(fold, val, S)
  BY <1>3, <1>4
<1>6. IsTotal(fold[S], S, val)
  BY <1>1, <1>5, FoldedIsTotal
<1>7. fold[S] = ListTotal(list)
  BY DEF ListTotal, MapThenSumSet, MapThenFoldSet, fold, Sum, S
<1> QED
  BY <1>1, <1>6, <1>7 DEF S, val

\* The sum over the chunks is a total.
LEMMA ChunkTotalIs ==
    ASSUME NEW chunks, IsFiniteSet(chunks), \A c \in chunks : c.length \in Nat
    PROVE  IsTotal(ChunkTotal(chunks), chunks, ChunkLengths(chunks))
<1> DEFINE val == ChunkLengths(chunks)
           First(s) == CHOOSE c \in s : TRUE
           Sum(iter) ==
             iter = [s \in SUBSET chunks |->
                       IF s = {} THEN 0 ELSE First(s).length + iter[s \ {First(s)}]]
           fold == CHOOSE iter : Sum(iter)
<1>1. \A c \in chunks : val[c] \in Nat /\ val[c] = c.length
  BY DEF ChunkLengths
<1> HIDE DEF val
<1>2. \A s \in SUBSET chunks : s # {} => First(s) \in chunks
  OBVIOUS
<1>3. ASSUME NEW iter PROVE Sum(iter) <=> Folded(iter, val, chunks)
  <2> HIDE DEF First
  <2>1. ASSUME NEW s \in SUBSET chunks
        PROVE  (IF s = {} THEN 0 ELSE First(s).length + iter[s \ {First(s)}])
               = (IF s = {} THEN 0 ELSE val[First(s)] + iter[s \ {First(s)}])
    BY <1>1, <1>2
  <2>2. Folded(iter, val, chunks) <=>
          iter = [s \in SUBSET chunks |-> IF s = {} THEN 0 ELSE val[First(s)] + iter[s \ {First(s)}]]
    BY DEF Folded, First
  <2> QED
    BY <2>1, <2>2
<1>4. \E iter : Folded(iter, val, chunks)
  BY <1>1, FoldedExists
<1> HIDE DEF Sum
<1>5. Folded(fold, val, chunks)
  BY <1>3, <1>4
<1>6. IsTotal(fold[chunks], chunks, val)
  BY <1>1, <1>5, FoldedIsTotal
<1>7. fold[chunks] = ChunkTotal(chunks)
  BY DEF ChunkTotal, MapThenSumSet, MapThenFoldSet, fold, Sum
<1> QED
  BY <1>6, <1>7 DEF val

\* The total with one length changed.
LEMMA ListReplaced ==
    ASSUME NEW s, NEW t, IsList(s), IsList(t), Len(t) = Len(s), NEW i \in 1..Len(s),
           \A j \in 1..Len(s) : j # i => t[j].length = s[j].length
    PROVE  /\ ListTotal(s) \in Nat /\ ListTotal(t) \in Nat
           /\ ListTotal(t) = ListTotal(s) - s[i].length + t[i].length
<1> DEFINE S == 1..Len(s)
           v == ListLengths(s)
           w == ListLengths(t)
<1>1. /\ DOMAIN s = S /\ DOMAIN t = S /\ i \in S /\ v[i] = s[i].length /\ w[i] = t[i].length
      /\ v[i] \in Nat /\ w[i] \in Nat /\ \A j \in S \ {i} : v[j] = w[j] /\ v[j] \in Nat
  BY DEF IsList, ListLengths
<1>2. /\ IsTotal(ListTotal(s), S, v) /\ IsTotal(ListTotal(t), S, w)
      /\ IsFiniteSet(S) /\ IsFiniteSet(S \ {i})
  BY <1>1, ListTotalIs, FS_Subset
<1> HIDE DEF S, v, w
<1>3. PICK m \in Nat : IsTotal(m, S \ {i}, v)
  BY <1>1, <1>2, TotalExists
<1>4. ListTotal(s) = v[i] + m /\ ListTotal(t) = w[i] + m
  BY <1>1, <1>2, <1>3, TotalWithout
<1> QED
  BY <1>1, <1>3, <1>4

\* Lists of the same lengths.
LEMMA ListSame ==
    ASSUME NEW s, NEW t, IsList(s), IsList(t), Len(t) = Len(s),
           \A j \in 1..Len(s) : t[j].length = s[j].length
    PROVE  ListTotal(t) = ListTotal(s)
<1> DEFINE S == 1..Len(s)
           v == ListLengths(s)
           w == ListLengths(t)
<1>1. DOMAIN s = S /\ DOMAIN t = S /\ \A j \in S : w[j] = v[j]
  BY DEF IsList, ListLengths
<1>2. IsTotal(ListTotal(s), S, v) /\ IsTotal(ListTotal(t), S, w) /\ IsFiniteSet(S)
  BY <1>1, ListTotalIs
<1> HIDE DEF S, v, w
<1> QED
  BY <1>1, <1>2, TotalsAgree

\* The total with one element more, those behind it moved up.
LEMMA ListInserted ==
    ASSUME NEW s, NEW t, IsList(s), IsList(t), Len(t) = Len(s) + 1, NEW p \in 1..Len(t),
           \A j \in 1..p-1 : t[j] = s[j], \A j \in p+1..Len(s)+1 : t[j] = s[j-1]
    PROVE  /\ ListTotal(s) \in Nat /\ ListTotal(t) \in Nat
           /\ ListTotal(t) = ListTotal(s) + t[p].length
<1> DEFINE S == 1..Len(s)
           T == 1..Len(t)
           R == T \ {p}
           v == ListLengths(s)
           w == ListLengths(t)
           f == [j \in S |-> IF j < p THEN j ELSE j + 1]
<1>1. /\ DOMAIN s = S /\ DOMAIN t = T /\ p \in T /\ w[p] = t[p].length
      /\ \A j \in T : w[j] \in Nat /\ w[j] = t[j].length
      /\ \A j \in S : v[j] \in Nat /\ v[j] = s[j].length
      /\ Len(s) \in Nat /\ p \in Nat /\ p <= Len(s) + 1
  BY DEF IsList, ListLengths
<1>2. ASSUME NEW j \in S PROVE f[j] \in R /\ t[f[j]] = s[j]
  <2>1. CASE j < p
    <3>1. f[j] = j /\ j \in R /\ j \in 1..p - 1
      BY <1>1, <2>1
    <3> QED
      BY <3>1
  <2>2. CASE ~(j < p)
    <3>1. f[j] = j + 1 /\ j + 1 \in R /\ j + 1 \in p + 1..Len(s) + 1 /\ (j + 1) - 1 = j
      BY <1>1, <2>2
    <3> QED
      BY <3>1
  <2> QED
    BY <2>1, <2>2
<1>3. OneToOne(f, S, R)
  <2>1. \A x, y \in S : f[x] = f[y] => x = y
    BY <1>1
  <2> QED
    BY <1>2, <2>1 DEF OneToOne
<1>4. ASSUME NEW z \in R PROVE \E x \in S : z = f[x]
  <2>1. CASE z < p
    <3>1. z \in S /\ f[z] = z
      BY <1>1, <2>1
    <3> QED
      BY <3>1
  <2>2. CASE ~(z < p)
    <3>1. z - 1 \in S /\ f[z - 1] = z
      BY <1>1, <2>2
    <3> QED
      BY <3>1
  <2> QED
    BY <2>1, <2>2
<1>5. /\ IsTotal(ListTotal(s), S, v) /\ IsTotal(ListTotal(t), T, w)
      /\ IsFiniteSet(S) /\ IsFiniteSet(T) /\ IsFiniteSet(R)
  BY <1>1, ListTotalIs, FS_Subset
<1>6. \A j \in S : v[j] = w[f[j]]
  BY <1>1, <1>2
<1> HIDE DEF S, T, v, w, f
<1>7. PICK m \in Nat : IsTotal(m, R, w)
  BY <1>1, <1>5, TotalExists
<1>8. ListTotal(s) = m
  <2> HIDE DEF R
  <2> QED
    BY <1>3, <1>4, <1>5, <1>6, <1>7, TotalRenamed
<1>9. ListTotal(t) = w[p] + m
  <2>1. p \in T /\ \A j \in T \ {p} : w[j] = w[j]
    BY <1>1
  <2> QED
    BY ONLY <1>5, <1>7, <2>1, TotalWithout, ZenonT(60)
<1> QED
  BY <1>1, <1>7, <1>8, <1>9

\* The total with one chunk more.
LEMMA ChunkAdded ==
    ASSUME NEW chunks, IsFiniteSet(chunks), \A d \in chunks : d.length \in Nat,
           NEW c, c.length \in Nat, c \notin chunks
    PROVE  /\ ChunkTotal(chunks) \in Nat
           /\ IsFiniteSet(chunks \union {c})
           /\ ChunkTotal(chunks \union {c}) = ChunkTotal(chunks) + c.length
<1> DEFINE more == chunks \union {c}
           v == ChunkLengths(chunks)
           w == ChunkLengths(more)
<1>1. /\ more \ {c} = chunks /\ c \in more /\ w[c] = c.length
      /\ \A d \in chunks : w[d] = v[d] /\ v[d] \in Nat
      /\ \A d \in more : d.length \in Nat
  BY DEF ChunkLengths
<1>2. IsFiniteSet(more)
  BY FS_AddElement
<1>3. IsTotal(ChunkTotal(chunks), chunks, v) /\ IsTotal(ChunkTotal(more), more, w)
  BY <1>1, <1>2, ChunkTotalIs
<1>4. ChunkTotal(chunks) \in Nat
  BY <1>3, TotalIsNat
<1> HIDE DEF more, v, w
<1>5. ChunkTotal(more) = w[c] + ChunkTotal(chunks)
  BY <1>1, <1>2, <1>3, TotalWithout
<1> QED
  BY <1>1, <1>2, <1>4, <1>5 DEF more

\* Equal modulo the word, by one wrap at most.
Congruent(x, y) == x - y \in {0, WordMod, 0 - WordMod}

\* The arithmetic of words stays congruent.
LEMMA WrapCongruent ==
    ASSUME NEW x \in Int
    PROVE  Wrap(x) \in Int /\ Congruent(Wrap(x), x)
  BY BoundsAssumption DEF Wrap, Congruent

\* Congruent numbers are multiples of the word together.
LEMMA BalanceKept ==
    ASSUME NEW a \in Int, NEW b \in Int, Congruent(b, a), a % WordMod = 0
    PROVE  b % WordMod = 0
<1> DEFINE W == WordMod
           q == a \div W
<1>1. W \in Nat \ {0}
  BY BoundsAssumption
<1>2. b - a \in {0, W, 0 - W} /\ a % W = 0
  BY DEF Congruent
<1> HIDE DEF W
<1>3. q \in Int /\ a = W * q
  BY <1>1, <1>2, SMT
<1> HIDE DEF q
<1>4. W * (q + 1) = W * q + W /\ W * (q - 1) = W * q - W
  BY <1>1, <1>3, SMT
<1>5. ASSUME NEW k \in Int PROVE (W * k) % W = 0
  BY <1>1, <1>5, SMT
<1>6. b = W * q \/ b = W * (q + 1) \/ b = W * (q - 1)
  BY <1>1, <1>2, <1>3, <1>4, SMT
<1>7. b % W = 0
  <2>1. q + 1 \in Int /\ q - 1 \in Int
    BY <1>3
  <2> QED
    BY <1>3, <1>5, <1>6, <2>1
<1> QED
  BY <1>7 DEF W

\* No two headers lie at the same address.
HeadersDistinct ==
    /\ \A i, j \in DOMAIN free : i # j => free[i].base # free[j].base
    /\ \A i \in DOMAIN free, c \in live : free[i].base # c.base
    /\ \A c, d \in live : c # d => c.base # d.base

AccountInv ==
    /\ TypeOK /\ NotEmpty /\ Unbooted
    /\ HeadersDistinct /\ IsFiniteSet(live) /\ LengthAccounting

\* A header that overwrites none lies where none was.
LEMMA NotClobbered ==
    ASSUME TypeOK, NEW a \in Int, ~Clobbers(a)
    PROVE  a \notin Headers
<1> SUFFICES ASSUME a \in Headers PROVE FALSE
  OBVIOUS
<1> QED
  BY DEF Clobbers, HeaderSize

\* A chunk c is taken from the length of block i: one of the two headers is where
\* that of the block was, the other one where none was.
Allocated(i, c) ==
    /\ i \in 1..Len(free) /\ Len(free') = Len(free)
    /\ Congruent(free'[i].length, free[i].length - c.length)
    /\ \A j \in 1..Len(free) : j # i => free'[j] = free[j]
    /\ \/ c.base = free[i].base /\ free'[i].base \notin Headers
       \/ free'[i].base = free[i].base /\ c.base \notin Headers
    /\ live' = live \union {c}
    /\ UNCHANGED <<memmap, status>>

Inserted(p, c) ==
    /\ p \in 1..Len(free) + 1 /\ Len(free') = Len(free) + 1
    /\ free'[p].base = c.base /\ free'[p].length = c.length
    /\ \A j \in 1..p-1 : free'[j] = free[j]
    /\ \A j \in p+1..Len(free)+1 : free'[j] = free[j-1]
    /\ live' = live \ {c}
    /\ UNCHANGED <<memmap, status>>

Absorbed(p, c) ==
    /\ p \in 1..Len(free) /\ Len(free') = Len(free)
    /\ free'[p].base = c.base
    /\ Congruent(free'[p].length, c.length + free[p].length)
    /\ \A j \in 1..Len(free) : j # p => free'[j] = free[j]
    /\ live' = live \ {c}
    /\ UNCHANGED <<memmap, status>>

\* What allocHeap does to the lengths.
LEMMA HeapAllocated ==
    ASSUME TypeOK, NEW n \in HeapRequests, AllocHeap(n)
    PROVE  SameMemory \/ \E i \in 1..Len(free), c \in Chunk : Allocated(i, c)
<1> DEFINE size == ChunkSize(n)
<1>1. CASE UNCHANGED vars \/ Stop("fault") \/ Stop("corrupt")
  BY <1>1 DEF Stop, SameMemory, vars
<1>2. CASE ~(UNCHANGED vars \/ Stop("fault") \/ Stop("corrupt"))
  <2>1. n \in Nat /\ n > 0
    BY <1>2, RequestAssumption DEF AllocHeap
  <2>2. size \in Nat
    BY <2>1, ChunkSizeLemma
  <2> HIDE DEF size
  <2>3. PICK i \in 1..Len(free) : FirstFit(i, size) /\ Carve(i, size, n)
    BY <1>2, ListLemma DEF AllocHeap, size
  <2> DEFINE rest == [base |-> free[i].base + size, length |-> free[i].length - size]
             chunk == [base |-> free[i].base, length |-> size, asked |-> n, kind |-> "heap"]
  <2>4. /\ free' = [free EXCEPT ![i] = rest]
        /\ live' = live \union {chunk}
        /\ UNCHANGED <<memmap, status>>
        /\ ~Clobbers(rest.base)
    BY <1>2, <2>3 DEF Carve, WriteHeader
  <2>5. free[i] \in Block /\ free[i].length > size
    BY <2>3, ListLemma DEF FirstFit, Fits
  <2>6. rest \in Block /\ chunk \in Chunk /\ free[i].length - chunk.length = rest.length
    BY <2>1, <2>2, <2>5 DEF Block, Chunk
  <2>7. rest.base \notin Headers /\ chunk.base = free[i].base
    <3>1. rest.base \in Int
      BY <2>6 DEF Block
    <3> HIDE DEF rest
    <3> QED
      BY <2>4, <3>1, NotClobbered
  <2> HIDE DEF rest, chunk
  <2>8. /\ Len(free') = Len(free)
        /\ \A j \in 1..Len(free) : free'[j] = IF j = i THEN rest ELSE free[j]
    BY <2>4, <2>6, ReplaceLemma DEF TypeOK
  <2>9. Congruent(free'[i].length, free[i].length - chunk.length)
    BY <2>3, <2>6, <2>8 DEF Congruent, Block
  <2>10. Allocated(i, chunk)
    BY <2>3, <2>4, <2>7, <2>8, <2>9 DEF Allocated
  <2> QED
    BY <2>6, <2>10
<1> QED
  BY <1>1, <1>2

\* And what allocStack does.
LEMMA StackAllocated ==
    ASSUME TypeOK, NEW n \in StackRequests, AllocStack(n)
    PROVE  SameMemory \/ \E i \in 1..Len(free), c \in Chunk : Allocated(i, c)
<1> DEFINE last == free[Len(free)]
           size == StackSize(n)
           chunk == [base |-> last.base - size, length |-> size,
                     asked |-> n, kind |-> "stack"]
           shrunk == Shrink(last, size)
<1>1. CASE UNCHANGED vars \/ Stop("fault") \/ Stop("corrupt")
  BY <1>1 DEF Stop, SameMemory, vars
<1>2. CASE ~(UNCHANGED vars \/ Stop("fault") \/ Stop("corrupt"))
  <2>1. /\ n \in Nat /\ n > 0 /\ n + 2 * HeaderSize < WordMod
        /\ free # <<>>
    BY <1>2, RequestAssumption DEF AllocStack
  <2>2. size \in Nat /\ size < WordMod
    BY <2>1, BoundsAssumption DEF StackSize, HeaderSize
  <2>3. /\ Mapped(chunk.base) /\ ~Clobbers(chunk.base)
        /\ free' = [free EXCEPT ![Len(free)] = shrunk]
        /\ live' = live \union {chunk}
        /\ UNCHANGED <<memmap, status>>
    BY <1>2 DEF AllocStack, WriteHeader
  <2>4. Len(free) \in 1..Len(free) /\ last \in Block
    BY <2>1, LenProperties, ElementOfSeq, EmptySeq DEF TypeOK
  <2>5. chunk \in Chunk /\ chunk.length = size /\ chunk.base \in Int
    BY <2>1, <2>2, <2>3, <2>4 DEF Mapped, Chunk, Block
  <2>6. shrunk = [base |-> last.base, length |-> Wrap(last.length - size)]
    BY <2>4 DEF Shrink, Block
  <2>7. shrunk \in Block
    BY <2>2, <2>4, <2>6, BoundsAssumption DEF Wrap, Block
  <2>8. Congruent(shrunk.length, last.length - size)
    <3>1. last.length - size \in Int /\ shrunk.length = Wrap(last.length - size)
      BY <2>2, <2>4, <2>6 DEF Block
    <3> HIDE DEF shrunk, last, size
    <3> QED
      BY <3>1, WrapCongruent
  <2>9. shrunk.base = last.base
    BY <2>6
  <2> HIDE DEF size, chunk, shrunk
  <2>10. chunk.base \notin Headers
    BY <2>3, <2>5, NotClobbered
  <2>11. /\ Len(free') = Len(free)
         /\ \A j \in 1..Len(free) : free'[j] = IF j = Len(free) THEN shrunk ELSE free[j]
    BY <2>3, <2>4, <2>7, ReplaceLemma DEF TypeOK
  <2>12. Allocated(Len(free), chunk)
    BY <2>3, <2>4, <2>5, <2>8, <2>9, <2>10, <2>11 DEF Allocated
  <2> QED
    BY <2>4, <2>5, <2>12
<1> QED
  BY <1>1, <1>2

\* What free does.
LEMMA ChunkReturned ==
    ASSUME TypeOK, NEW c \in live, Free(c)
    PROVE  SameMemory \/ (\E p \in 1..Len(free) + 1 : Inserted(p, c))
                      \/ (\E p \in 1..Len(free) : Absorbed(p, c))
<1> DEFINE block == [base |-> c.base, length |-> c.length]
<1>1. CASE Stop("fault")
  BY <1>1 DEF Stop, SameMemory
<1>2. CASE ~Stop("fault")
  <2>1. /\ live' = live \ {c}
        /\ UNCHANGED <<memmap, status>>
        /\ PushFront(c) \/ \E k \in 1..Len(free)-1 : Link(c, k)
    BY <1>2 DEF Free
  <2>2. block \in Block /\ c \in Chunk /\ block.base = c.base /\ block.length = c.length
    BY DEF TypeOK, Block, Chunk
  <2>3. free \in Seq(Block) /\ Len(free) \in Nat
    BY ListLemma DEF TypeOK
  <2> HIDE DEF block
  <2>4. ASSUME PushFront(c) PROVE Inserted(1, c)
    <3>1. free' = <<block>> \o free
      BY <2>4 DEF PushFront, block
    <3>2. /\ Len(free') = Len(free) + 1
          /\ free'[1] = block
          /\ \A j \in 2..Len(free)+1 : free'[j] = free[j-1]
      BY <2>2, <2>3, <3>1, PushLemma
    <3> QED
      BY <2>1, <2>2, <2>3, <3>2 DEF Inserted
  <2>5. ASSUME NEW i \in 1..Len(free), free' = InsertAt(free, i, block)
        PROVE  Inserted(i, c)
    <3>1. i \in 1..Len(free) + 1
      BY <2>3
    <3>2. /\ Len(InsertAt(free, i, block)) = Len(free) + 1
          /\ InsertAt(free, i, block)[i] = block
          /\ \A j \in 1..i-1 : InsertAt(free, i, block)[j] = free[j]
          /\ \A j \in i+1..Len(free)+1 : InsertAt(free, i, block)[j] = free[j-1]
      <4>1. block \in Block /\ free \in Seq(Block) /\ i \in 1..Len(free)+1
        BY <2>2, <2>3, <3>1
      <4> QED
        BY ONLY <4>1, InsertLemma, SMTT(30)
    <3>3. /\ Len(free') = Len(free) + 1
          /\ free'[i].base = c.base /\ free'[i].length = c.length
          /\ \A j \in 1..i-1 : free'[j] = free[j]
          /\ \A j \in i+1..Len(free)+1 : free'[j] = free[j-1]
      BY <2>2, <2>5, <3>2
    <3> QED
      BY <2>1, <3>1, <3>3 DEF Inserted
  <2>6. ASSUME NEW i \in 1..Len(free),
               free' = [free EXCEPT ![i] =
                          [base |-> c.base, length |-> Wrap(c.length + free[i].length)]]
        PROVE  Absorbed(i, c)
    <3> DEFINE joined == [base |-> c.base, length |-> Wrap(c.length + free[i].length)]
    <3>1. free[i] \in Block /\ c.length + free[i].length \in Int
      BY <2>2, ListLemma DEF Block, Chunk
    <3>2. joined \in Block
      BY <2>2, <3>1, BoundsAssumption DEF Wrap, Block, Chunk
    <3>3. Congruent(joined.length, c.length + free[i].length) /\ joined.base = c.base
      BY <3>1, WrapCongruent
    <3>4. free' = [free EXCEPT ![i] = joined]
      BY <2>6
    <3> HIDE DEF joined
    <3>5. /\ Len(free') = Len(free)
          /\ \A j \in 1..Len(free) : free'[j] = IF j = i THEN joined ELSE free[j]
      BY <2>3, <3>2, <3>4, ReplaceLemma
    <3> QED
      BY <2>1, <3>3, <3>5 DEF Absorbed
  <2>7. ASSUME NEW k \in 1..Len(free)-1, Link(c, k)
        PROVE  Inserted(k+1, c) \/ Absorbed(k+1, c)
    <3>1. k + 1 \in 1..Len(free)
      BY <2>3
    <3>2. \/ free' = [free EXCEPT ![k+1] =
                        [base |-> c.base, length |-> Wrap(c.length + free[k+1].length)]]
          \/ free' = InsertAt(free, k+1, block)
      BY <2>7, <3>1, ListLemma DEF Link, block
    <3> QED
      BY <2>5, <2>6, <3>1, <3>2
  <2>8. CASE PushFront(c)
    BY <2>3, <2>4, <2>8
  <2>9. CASE \E k \in 1..Len(free)-1 : Link(c, k)
    <3>1. PICK k \in 1..Len(free)-1 : Link(c, k)
      BY <2>9
    <3>2. k + 1 \in 1..Len(free) /\ k + 1 \in 1..Len(free) + 1
      BY <2>3
    <3> QED
      BY <2>7, <3>1, <3>2
  <2> QED
    BY <2>1, <2>8, <2>9
<1> QED
  BY <1>1, <1>2

\* The shapes of a step of the whole interface, as far as lengths go.
LEMMA NextShape ==
    ASSUME TypeOK, [Next]_vars
    PROVE  \/ SameMemory
           \/ Booted
           \/ \E i \in 1..Len(free), c \in Chunk : Allocated(i, c)
           \/ \E p \in 1..Len(free) + 1, c \in live : Inserted(p, c)
           \/ \E p \in 1..Len(free), c \in live : Absorbed(p, c)
<1>1. CASE InitialiseHeaders
  <2>1. CASE Stop("corrupt")
    BY <2>1 DEF Stop, SameMemory
  <2>2. CASE ~Stop("corrupt")
    <3>1. /\ status = "uninitialised" /\ status' = "ready"
          /\ Len(regions) \in 1..BufferEntries
          /\ free' = [i \in 1..Len(regions) |->
                        [base |-> regions[i].base, length |-> regions[i].length]]
          /\ UNCHANGED <<memmap, live>>
      BY <1>1, <2>2 DEF InitialiseHeaders
    <3>2. Len(free') = Len(regions)
      BY <3>1, RegionsLemma DEF TypeOK
    <3> QED
      BY <3>1, <3>2 DEF Booted
  <2> QED
    BY <2>1, <2>2
<1>2. CASE FreeNothing \/ UNCHANGED vars
  BY <1>2 DEF FreeNothing, Stop, vars, SameMemory
<1> QED
  BY <1>1, <1>2, HeapAllocated, StackAllocated, ChunkReturned DEF Next, HeapNext

\* The lists and the chunks before and after a step.
LEMMA ListsOfSteps ==
    ASSUME TypeOK, [Next]_vars
    PROVE  /\ IsList(free) /\ IsList(free')
           /\ \A i \in 1..Len(free) : free[i].base \in Nat /\ free[i] \in Block
           /\ \A c \in live : c.length \in Nat /\ c.base \in Nat
           /\ \A c \in live' : c.length \in Nat
           /\ TypeOK'
<1>1. TypeOK'
  BY NextTypeOK
<1>2. IsList(free') /\ \A c \in live' : c.length \in Nat
  <2>1. \A i \in 1..Len(free') : free'[i] \in Block
    BY <1>1, ElementOfSeq DEF TypeOK
  <2> QED
    BY <1>1, <2>1, LenProperties DEF TypeOK, IsList, Block, Chunk
<1> QED
  BY <1>1, <1>2, ListLemma DEF IsList

\* Headers stay distinct: a step that leaves the memory alone,
LEMMA SameDistinct ==
    ASSUME SameMemory, HeadersDistinct
    PROVE  HeadersDistinct'
  BY DEF SameMemory, HeadersDistinct

\* the headers of the usable entries,
LEMMA BootedDistinct ==
    ASSUME TypeOK, TypeOK', Unbooted, Booted
    PROVE  HeadersDistinct'
<1>1. live' = {} /\ DOMAIN free' = 1..Len(regions)
  BY LenProperties DEF Booted, Unbooted, TypeOK
<1>2. ASSUME NEW i \in 1..Len(regions), NEW j \in 1..Len(regions), i < j
      PROVE  free'[i].base # free'[j].base
  <2>1. /\ regions[i].base \in Nat /\ regions[i].length \in Nat \ {0}
        /\ End(regions[i]) <= regions[j].base /\ regions[j].base \in Nat
    BY <1>2, RegionsLemma DEF TypeOK
  <2>2. regions[i].base < regions[j].base
    BY <2>1 DEF End
  <2> QED
    BY <2>1, <2>2 DEF Booted
<1>3. \A i, j \in 1..Len(regions) : i # j => i < j \/ j < i
  OBVIOUS
<1> QED
  BY <1>1, <1>2, <1>3 DEF HeadersDistinct

\* and a header more for a chunk, which is therefore a new one.
LEMMA AllocatedDistinct ==
    ASSUME IsList(free), IsList(free'), HeadersDistinct,
           NEW i \in 1..Len(free), NEW c, Allocated(i, c)
    PROVE  HeadersDistinct' /\ c \notin live
<1>1. /\ DOMAIN free = 1..Len(free) /\ DOMAIN free' = 1..Len(free) /\ live' = live \union {c}
      /\ \A j \in 1..Len(free) : j # i => free'[j] = free[j]
  BY DEF Allocated, IsList
<1>2. /\ \A j \in 1..Len(free), k \in 1..Len(free) : j # k => free[j].base # free[k].base
      /\ \A j \in 1..Len(free), d \in live : free[j].base # d.base
      /\ \A d, e \in live : d # e => d.base # e.base
  BY <1>1 DEF HeadersDistinct
<1>3. PICK a : /\ a \notin Headers
               /\ \/ c.base = free[i].base /\ free'[i].base = a
                  \/ free'[i].base = free[i].base /\ c.base = a
  BY DEF Allocated
<1>4. /\ \A j \in 1..Len(free) : free[j].base # a
      /\ \A d \in live : d.base # a
  BY <1>1, <1>3 DEF Headers
<1>5. /\ c.base # free'[i].base
      /\ \A d \in live : d.base # c.base /\ d.base # free'[i].base
      /\ \A j \in 1..Len(free) : j # i => free[j].base # c.base /\ free[j].base # free'[i].base
  BY <1>2, <1>3, <1>4
<1>6. c \notin live
  BY <1>5
<1>7. \A j, k \in 1..Len(free) : j # k => free'[j].base # free'[k].base
  BY <1>1, <1>2, <1>5
<1>8. \A j \in 1..Len(free), d \in live' : free'[j].base # d.base
  BY <1>1, <1>2, <1>5
<1>9. \A d, e \in live' : d # e => d.base # e.base
  BY <1>1, <1>2, <1>5
<1> QED
  BY <1>1, <1>6, <1>7, <1>8, <1>9 DEF HeadersDistinct

\* The block that a chunk becomes has the chunk's header, another one moves up.
LEMMA InsertedDistinct ==
    ASSUME IsList(free), IsList(free'), HeadersDistinct,
           NEW p \in 1..Len(free) + 1, NEW c \in live, Inserted(p, c)
    PROVE  HeadersDistinct'
<1>1. /\ Len(free) \in Nat /\ DOMAIN free = 1..Len(free) /\ DOMAIN free' = 1..Len(free) + 1
      /\ live' = live \ {c} /\ free'[p].base = c.base
      /\ \A j \in 1..p-1 : free'[j] = free[j]
      /\ \A j \in p+1..Len(free)+1 : free'[j] = free[j-1]
  BY DEF Inserted, IsList
<1> DEFINE old(j) == IF j < p THEN j ELSE j - 1
<1>2. ASSUME NEW j \in 1..Len(free) + 1, j # p
      PROVE  old(j) \in 1..Len(free) /\ free'[j] = free[old(j)]
  <2>1. CASE j < p
    BY <1>1, <2>1
  <2>2. CASE ~(j < p)
    BY <1>1, <1>2, <2>2
  <2> QED
    BY <2>1, <2>2
<1>3. \A j, k \in 1..Len(free) + 1 : j # p /\ k # p /\ j # k => old(j) # old(k)
  BY <1>1
<1> HIDE DEF old
<1>4. /\ \A j, k \in 1..Len(free) : j # k => free[j].base # free[k].base
      /\ \A j \in 1..Len(free), d \in live : free[j].base # d.base
      /\ \A d, e \in live : d # e => d.base # e.base
  BY <1>1 DEF HeadersDistinct
<1>5. \A j, k \in 1..Len(free) + 1 : j # k => free'[j].base # free'[k].base
  <2> SUFFICES ASSUME NEW j \in 1..Len(free) + 1, NEW k \in 1..Len(free) + 1, j # k
               PROVE  free'[j].base # free'[k].base
    OBVIOUS
  <2>1. CASE j = p
    BY <1>1, <1>2, <1>4, <2>1
  <2>2. CASE k = p
    BY <1>1, <1>2, <1>4, <2>2
  <2>3. CASE j # p /\ k # p
    BY <1>2, <1>3, <1>4, <2>3
  <2> QED
    BY <2>1, <2>2, <2>3
<1>6. \A j \in 1..Len(free) + 1, d \in live' : free'[j].base # d.base
  <2> SUFFICES ASSUME NEW j \in 1..Len(free) + 1, NEW d \in live'
               PROVE  free'[j].base # d.base
    OBVIOUS
  <2>1. d \in live /\ d # c
    BY <1>1
  <2>2. CASE j = p
    BY <1>1, <1>4, <2>1, <2>2
  <2>3. CASE j # p
    BY <1>2, <1>4, <2>1, <2>3
  <2> QED
    BY <2>2, <2>3
<1> QED
  BY <1>1, <1>4, <1>5, <1>6 DEF HeadersDistinct

\* The joined block has the chunk's header.
LEMMA AbsorbedDistinct ==
    ASSUME IsList(free), IsList(free'), HeadersDistinct,
           NEW p \in 1..Len(free), NEW c \in live, Absorbed(p, c)
    PROVE  HeadersDistinct'
<1>1. /\ DOMAIN free = 1..Len(free) /\ DOMAIN free' = 1..Len(free)
      /\ live' = live \ {c} /\ free'[p].base = c.base
      /\ \A j \in 1..Len(free) : j # p => free'[j] = free[j]
  BY DEF Absorbed, IsList
<1>2. /\ \A j, k \in 1..Len(free) : j # k => free[j].base # free[k].base
      /\ \A j \in 1..Len(free), d \in live : free[j].base # d.base
      /\ \A d, e \in live : d # e => d.base # e.base
  BY <1>1 DEF HeadersDistinct
<1>3. \A j, k \in 1..Len(free) : j # k => free'[j].base # free'[k].base
  BY <1>1, <1>2
<1>4. \A j \in 1..Len(free), d \in live' : free'[j].base # d.base
  BY <1>1, <1>2
<1> QED
  BY <1>1, <1>2, <1>3, <1>4 DEF HeadersDistinct

\* The totals of a state, as LengthAccounting takes them.
Balance(list, chunks, map) == ListTotal(list) + ChunkTotal(chunks) - ListTotal(map)

\* The property, in terms of the balance.
LEMMA AccountingIs ==
    /\ LengthAccounting <=> (status = "ready" => Balance(free, live, regions) % WordMod = 0)
    /\ LengthAccounting' <=> (status' = "ready" => Balance(free', live', regions') % WordMod = 0)
<1>1. LengthAccounting <=>
        (status = "ready" => (ListTotal(free) + ChunkTotal(live) - ListTotal(regions)) % WordMod = 0)
  BY DEF LengthAccounting, ListTotal, ChunkTotal
<1>2. (LengthAccounting <=>
        (status = "ready" => (ListTotal(free) + ChunkTotal(live) - ListTotal(regions)) % WordMod = 0))'
  BY DEF LengthAccounting, ListTotal, ChunkTotal
<1>3. /\ ListTotal(free)' = ListTotal(free')
      /\ ChunkTotal(live)' = ChunkTotal(live')
      /\ ListTotal(regions)' = ListTotal(regions')
  BY DEF ListTotal, ChunkTotal, MapThenSumSet, MapThenFoldSet
<1> QED
  BY <1>1, <1>2, <1>3 DEF Balance

\* The usable entries are a list.
LEMMA RegionsListed ==
    ASSUME memmap \in MemoryMaps
    PROVE  IsList(regions)
<1>1. regions \in Seq([base : Nat, length : Nat \ {0}, usable : BOOLEAN])
  BY MapAssumption DEF regions
<1> QED
  BY <1>1, RegionsLemma, LenProperties DEF IsList

\* The totals are numbers.
LEMMA ListTotalIsNat ==
    ASSUME NEW list, IsList(list)
    PROVE  ListTotal(list) \in Nat
  BY ListTotalIs, TotalIsNat

\* And of the chunks.
LEMMA ChunkTotalIsNat ==
    ASSUME NEW chunks, IsFiniteSet(chunks), \A c \in chunks : c.length \in Nat
    PROVE  ChunkTotal(chunks) \in Nat
  BY ChunkTotalIs, TotalIsNat

\* The total without one chunk.
LEMMA ChunkRemoved ==
    ASSUME NEW chunks, IsFiniteSet(chunks), \A d \in chunks : d.length \in Nat, NEW c \in chunks
    PROVE  /\ IsFiniteSet(chunks \ {c}) /\ ChunkTotal(chunks \ {c}) \in Nat
           /\ ChunkTotal(chunks) = ChunkTotal(chunks \ {c}) + c.length
<1> DEFINE less == chunks \ {c}
<1>1. IsFiniteSet(less) /\ (\A d \in less : d.length \in Nat) /\ c \notin less
      /\ c.length \in Nat /\ less \union {c} = chunks
  BY FS_Subset
<1> HIDE DEF less
<1>2. ChunkTotal(less \union {c}) = ChunkTotal(less) + c.length /\ ChunkTotal(less) \in Nat
  BY <1>1, ChunkAdded
<1> QED
  BY <1>1, <1>2 DEF less

\* What a step does to the balance when one length goes from x to y in the list
\* and the chunks change by z.
LEMMA LengthMoved ==
    ASSUME NEW a \in Int, NEW b \in Int, NEW m \in Int, NEW x \in Int, NEW y \in Int,
           NEW z \in Int, Congruent(y, x - z)
    PROVE  Congruent((a - x + y) + (b + z) - m, a + b - m)
<1>1. WordMod \in Nat
  BY BoundsAssumption
<1>2. ((a - x + y) + (b + z) - m) - (a + b - m) = y - (x - z)
  OBVIOUS
<1> QED
  BY <1>2 DEF Congruent

\* Allocating moves a length from a block to a chunk, up to the word.
LEMMA AllocatedBalance ==
    ASSUME IsList(free), IsList(free'), IsFiniteSet(live), \A d \in live : d.length \in Nat,
           NEW i \in 1..Len(free), NEW c, c.length \in Nat, c \notin live, Allocated(i, c),
           NEW map, IsList(map)
    PROVE  /\ IsFiniteSet(live')
           /\ Balance(free, live, map) \in Int /\ Balance(free', live', map) \in Int
           /\ Congruent(Balance(free', live', map), Balance(free, live, map))
<1>1. /\ IsFiniteSet(live') /\ ChunkTotal(live) \in Nat
      /\ ChunkTotal(live') = ChunkTotal(live) + c.length
  BY ChunkAdded DEF Allocated
<1>2. /\ ListTotal(free) \in Nat /\ ListTotal(free') \in Nat
      /\ ListTotal(free') = ListTotal(free) - free[i].length + free'[i].length
  BY ListReplaced DEF Allocated
<1>3. free[i].length \in Nat /\ free'[i].length \in Nat /\ ListTotal(map) \in Nat
  BY ListTotalIsNat DEF IsList, Allocated
<1>4. Congruent((ListTotal(free) - free[i].length + free'[i].length)
                + (ChunkTotal(live) + c.length) - ListTotal(map),
                ListTotal(free) + ChunkTotal(live) - ListTotal(map))
  <2> DEFINE a == ListTotal(free)
             b == ChunkTotal(live)
             m == ListTotal(map)
             x == free[i].length
             y == free'[i].length
             z == c.length
  <2>1. /\ a \in Int /\ b \in Int /\ m \in Int /\ x \in Int /\ y \in Int /\ z \in Int
        /\ Congruent(y, x - z)
    <3>1. Congruent(y, x - z)
      BY DEF Allocated
    <3> QED
      BY ONLY <1>1, <1>2, <1>3, <3>1, c.length \in Nat
  <2> HIDE DEF a, b, m, x, y, z
  <2>2. Congruent((a - x + y) + (b + z) - m, a + b - m)
    BY <2>1, LengthMoved
  <2> QED
    BY <2>2 DEF a, b, m, x, y, z
<1>5. /\ Balance(free, live, map) = ListTotal(free) + ChunkTotal(live) - ListTotal(map)
      /\ Balance(free', live', map) = (ListTotal(free) - free[i].length + free'[i].length)
                + (ChunkTotal(live) + c.length) - ListTotal(map)
  BY <1>1, <1>2 DEF Balance
<1>6. Balance(free, live, map) \in Int /\ Balance(free', live', map) \in Int
  <2>1. /\ ListTotal(free) \in Int /\ ListTotal(free') \in Int /\ ListTotal(map) \in Int
        /\ ChunkTotal(live') \in Int /\ ChunkTotal(live) \in Int
    BY ONLY <1>1, <1>2, <1>3, c.length \in Nat
  <2> QED
    BY ONLY <2>1 DEF Balance
<1> QED
  BY <1>1, <1>4, <1>5, <1>6

\* A chunk that becomes a block takes its length with it.
LEMMA InsertedBalance ==
    ASSUME IsList(free), IsList(free'), IsFiniteSet(live), \A d \in live : d.length \in Nat,
           NEW p \in 1..Len(free) + 1, NEW c \in live, Inserted(p, c),
           NEW map, IsList(map)
    PROVE  /\ IsFiniteSet(live')
           /\ Balance(free, live, map) \in Int /\ Balance(free', live', map) \in Int
           /\ Congruent(Balance(free', live', map), Balance(free, live, map))
<1>1. /\ IsFiniteSet(live') /\ ChunkTotal(live') \in Nat
      /\ ChunkTotal(live) = ChunkTotal(live') + c.length
  BY ChunkRemoved DEF Inserted
<1>2. /\ ListTotal(free) \in Nat /\ ListTotal(free') \in Nat
      /\ ListTotal(free') = ListTotal(free) + c.length
  BY ListInserted DEF Inserted
<1>3. c.length \in Nat /\ ListTotal(map) \in Nat
  BY ListTotalIsNat
<1>4. /\ ListTotal(free) \in Int /\ ListTotal(free') \in Int /\ ListTotal(map) \in Int
      /\ ChunkTotal(live') \in Int /\ ChunkTotal(live) \in Int
      /\ ListTotal(free') + ChunkTotal(live') = ListTotal(free) + ChunkTotal(live)
  BY ONLY <1>1, <1>2, <1>3
<1> DEFINE was == Balance(free, live, map)
           is == Balance(free', live', map)
<1>5. was \in Int /\ is = was
  BY ONLY <1>4 DEF Balance
<1> HIDE DEF was, is
<1>6. Congruent(is, was)
  BY <1>5 DEF Congruent
<1> QED
  BY <1>1, <1>5, <1>6 DEF was, is

\* A block that absorbs a chunk takes its length, up to the word.
LEMMA AbsorbedBalance ==
    ASSUME IsList(free), IsList(free'), IsFiniteSet(live), \A d \in live : d.length \in Nat,
           NEW p \in 1..Len(free), NEW c \in live, Absorbed(p, c),
           NEW map, IsList(map)
    PROVE  /\ IsFiniteSet(live')
           /\ Balance(free, live, map) \in Int /\ Balance(free', live', map) \in Int
           /\ Congruent(Balance(free', live', map), Balance(free, live, map))
<1>1. /\ IsFiniteSet(live') /\ ChunkTotal(live') \in Nat
      /\ ChunkTotal(live) = ChunkTotal(live') + c.length
  BY ChunkRemoved DEF Absorbed
<1>2. /\ ListTotal(free) \in Nat /\ ListTotal(free') \in Nat
      /\ ListTotal(free') = ListTotal(free) - free[p].length + free'[p].length
  BY ListReplaced DEF Absorbed
<1>3. /\ c.length \in Nat /\ free[p].length \in Nat /\ free'[p].length \in Nat
      /\ ListTotal(map) \in Nat
  BY ListTotalIsNat DEF IsList, Absorbed
<1>4. Congruent((ListTotal(free) - free[p].length + free'[p].length)
                + (ChunkTotal(live) + (0 - c.length)) - ListTotal(map),
                ListTotal(free) + ChunkTotal(live) - ListTotal(map))
  <2> DEFINE a == ListTotal(free)
             b == ChunkTotal(live)
             m == ListTotal(map)
             x == free[p].length
             y == free'[p].length
             z == 0 - c.length
  <2>1. /\ a \in Int /\ b \in Int /\ m \in Int /\ x \in Int /\ y \in Int /\ z \in Int
        /\ c.length + x = x - z
    <3>1. \A k, l \in Int : k + l = l - (0 - k)
      OBVIOUS
    <3>2. /\ a \in Int /\ b \in Int /\ m \in Int /\ x \in Int /\ y \in Int /\ z \in Int
          /\ c.length \in Int
      BY ONLY <1>1, <1>2, <1>3
    <3> HIDE DEF a, b, m, x, y
    <3>3. c.length + x = x - z
      BY ONLY <3>1, <3>2 DEF z
    <3> QED
      BY <3>2, <3>3
  <2>2. Congruent(y, x - z)
    <3>1. Congruent(y, c.length + x)
      BY DEF Absorbed
    <3> QED
      BY ONLY <2>1, <3>1
  <2> HIDE DEF a, b, m, x, y, z
  <2>3. Congruent((a - x + y) + (b + z) - m, a + b - m)
    BY <2>1, <2>2, LengthMoved
  <2> QED
    BY <2>3 DEF a, b, m, x, y, z
<1>5. /\ Balance(free, live, map) = ListTotal(free) + ChunkTotal(live) - ListTotal(map)
      /\ Balance(free', live', map) = (ListTotal(free) - free[p].length + free'[p].length)
                + (ChunkTotal(live) + (0 - c.length)) - ListTotal(map)
  BY <1>1, <1>2, <1>3 DEF Balance
<1>6. Balance(free, live, map) \in Int /\ Balance(free', live', map) \in Int
  <2>1. /\ ListTotal(free) \in Int /\ ListTotal(free') \in Int /\ ListTotal(map) \in Int
        /\ ChunkTotal(live') \in Int /\ ChunkTotal(live) \in Int
    BY ONLY <1>1, <1>2, <1>3
  <2> QED
    BY ONLY <2>1 DEF Balance
<1>7. Congruent(Balance(free', live', map), Balance(free, live, map))
  BY ONLY <1>4, <1>5, Zenon
<1> QED
  BY <1>1, <1>6, <1>7

\* Before boot there is nothing to account for.
LEMMA AccountInvInitially == Init => AccountInv
<1> SUFFICES ASSUME Init PROVE AccountInv
  OBVIOUS
<1>1. TypeOK
  BY InitTypeOK
<1>2. free = <<>> /\ DOMAIN free = {} /\ live = {} /\ status = "uninitialised"
  BY DEF Init
<1>3. IsFiniteSet(live)
  BY <1>2, FS_EmptySet
<1> QED
  BY <1>1, <1>2, <1>3 DEF AccountInv, NotEmpty, Unbooted, HeadersDistinct, LengthAccounting

\* Every step of the whole interface keeps the account.
LEMMA AccountInvKept == AccountInv /\ [Next]_vars => AccountInv'
<1> SUFFICES ASSUME AccountInv, [Next]_vars PROVE AccountInv'
  OBVIOUS
<1>1. /\ TypeOK /\ NotEmpty /\ Unbooted /\ HeadersDistinct /\ IsFiniteSet(live)
      /\ status = "ready" => Balance(free, live, regions) % WordMod = 0
  BY AccountingIs DEF AccountInv
<1>2. /\ IsList(free) /\ IsList(free') /\ TypeOK' /\ IsList(regions)
      /\ \A c \in live : c.length \in Nat
  BY <1>1, ListsOfSteps, RegionsListed DEF TypeOK
<1> DEFINE Kept == /\ NotEmpty' /\ Unbooted' /\ HeadersDistinct' /\ IsFiniteSet(live')
                   /\ status' = "ready" => Balance(free', live', regions') % WordMod = 0
<1>3. ASSUME SameMemory PROVE Kept
  <2>1. /\ UNCHANGED <<memmap, free, live>>
        /\ status' # "uninitialised" \/ status' = status
        /\ status' = "ready" => status = "ready"
    BY <1>3 DEF SameMemory
  <2>2. regions' = regions
    BY <2>1 DEF regions
  <2>3. HeadersDistinct'
    BY <1>1, <1>3, SameDistinct
  <2>4. status' = "ready" => Balance(free', live', regions') % WordMod = 0
    BY <1>1, <2>1, <2>2
  <2>5. NotEmpty' /\ Unbooted'
    BY <1>1, <1>3 DEF SameMemory, NotEmpty, Unbooted
  <2> QED
    BY <1>1, <2>1, <2>3, <2>4, <2>5
<1>4. ASSUME Booted PROVE Kept
  <2>1. live' = {} /\ memmap' = memmap /\ status' = "ready" /\ Len(free') = Len(regions)
        /\ Len(regions) \in 1..BufferEntries
        /\ \A i \in 1..Len(regions) : free'[i].length = regions[i].length
    BY <1>1, <1>4 DEF Booted, Unbooted
  <2>2. regions' = regions
    BY <2>1 DEF regions
  <2>3. ListTotal(free') = ListTotal(regions) /\ ListTotal(regions) \in Nat
    BY <1>2, <2>1, ListSame, ListTotalIsNat
  <2>4. IsTotal(ChunkTotal({}), {}, ChunkLengths({})) /\ IsFiniteSet({})
    BY ChunkTotalIs, FS_EmptySet
  <2>5. ChunkTotal({}) = 0
    BY <2>4 DEF IsTotal, Sums
  <2>6. Balance(free', live', regions') = 0
    BY <2>1, <2>2, <2>3, <2>5 DEF Balance
  <2>7. 0 % WordMod = 0
    BY BoundsAssumption
  <2>8. NotEmpty' /\ Unbooted'
    BY <1>2, <2>1 DEF NotEmpty, Unbooted, IsList
  <2> QED
    BY <1>1, <1>2, <1>4, <2>1, <2>4, <2>6, <2>7, <2>8, BootedDistinct
<1>5. ASSUME UNCHANGED <<memmap, status>>, status # "uninitialised", Len(free') > 0,
             IsFiniteSet(live'), HeadersDistinct',
             Balance(free, live, regions) \in Int, Balance(free', live', regions) \in Int,
             Congruent(Balance(free', live', regions), Balance(free, live, regions))
      PROVE  Kept
  <2>1. regions' = regions /\ status' = status
    BY <1>5 DEF regions
  <2>2. status = "ready" => Balance(free', live', regions) % WordMod = 0
    BY <1>1, <1>5, BalanceKept
  <2> QED
    BY <1>5, <2>1, <2>2 DEF NotEmpty, Unbooted
<1>6. ASSUME NEW i \in 1..Len(free), NEW c \in Chunk, Allocated(i, c) PROVE Kept
  <2>1. HeadersDistinct' /\ c \notin live /\ c.length \in Nat
    BY <1>1, <1>2, <1>6, AllocatedDistinct DEF Chunk
  <2>2. /\ IsFiniteSet(live')
        /\ Balance(free, live, regions) \in Int /\ Balance(free', live', regions) \in Int
        /\ Congruent(Balance(free', live', regions), Balance(free, live, regions))
    BY <1>1, <1>2, <1>6, <2>1, AllocatedBalance
  <2>3. /\ UNCHANGED <<memmap, status>> /\ Len(free') > 0 /\ status # "uninitialised"
    BY <1>1, <1>2, <1>6 DEF Allocated, Unbooted, IsList
  <2> QED
    BY <1>5, <2>1, <2>2, <2>3
<1>7. ASSUME NEW p \in 1..Len(free) + 1, NEW c \in live, Inserted(p, c) PROVE Kept
  <2>1. HeadersDistinct'
    BY <1>1, <1>2, <1>7, InsertedDistinct
  <2>2. /\ IsFiniteSet(live')
        /\ Balance(free, live, regions) \in Int /\ Balance(free', live', regions) \in Int
        /\ Congruent(Balance(free', live', regions), Balance(free, live, regions))
    BY <1>1, <1>2, <1>7, InsertedBalance
  <2>3. /\ UNCHANGED <<memmap, status>> /\ Len(free') > 0 /\ status # "uninitialised"
    BY <1>1, <1>2, <1>7 DEF Inserted, Unbooted, IsList
  <2> QED
    BY <1>5, <2>1, <2>2, <2>3
<1>8. ASSUME NEW p \in 1..Len(free), NEW c \in live, Absorbed(p, c) PROVE Kept
  <2>1. HeadersDistinct'
    BY <1>1, <1>2, <1>8, AbsorbedDistinct
  <2>2. /\ IsFiniteSet(live')
        /\ Balance(free, live, regions) \in Int /\ Balance(free', live', regions) \in Int
        /\ Congruent(Balance(free', live', regions), Balance(free, live, regions))
    BY <1>1, <1>2, <1>8, AbsorbedBalance
  <2>3. /\ UNCHANGED <<memmap, status>> /\ Len(free') > 0 /\ status # "uninitialised"
    BY <1>1, <1>2, <1>8 DEF Absorbed, Unbooted, IsList
  <2> QED
    BY <1>5, <2>1, <2>2, <2>3
<1>9. Kept
  <2> HIDE DEF Kept
  <2> QED
    BY <1>1, <1>3, <1>4, <1>6, <1>7, <1>8, NextShape
<1> QED
  BY <1>2, <1>9, AccountingIs DEF AccountInv

\* Whatever stacks are taken from below the list, the lengths in the headers add up to
\* the usable memory modulo the word, and no two headers are in one place: allocStack
\* shrinks the last block by what it hands out (memorylist.cpp:132-163), allocHeap and
\* free move lengths between blocks and chunks (memorylist.cpp:93-119, 199-233).
THEOREM AccountInvariant == Spec => []AccountInv
  BY AccountInvInitially, AccountInvKept, PTL DEF Spec

\* Nothing is lost from the account (memorylist.cpp:162).
THEOREM LengthsAddUp == Spec => []LengthAccounting
<1>1. AccountInv => LengthAccounting
  BY DEF AccountInv
<1> QED
  BY <1>1, AccountInvariant, PTL
=============================================================================
