----------------------------- MODULE BootProofs -----------------------------
(***************************************************************************)
(* Proofs about Boot, for every set of answers of the boot loader, every   *)
(* memory map and every address the stubs may have: in what order _start   *)
(* puts the tables of the processor into place, and what an interrupt that *)
(* comes between two of its statements finds.                              *)
(***************************************************************************)
EXTENDS Boot, WordsProofs, SumProofs, SequenceTheorems

-----------------------------------------------------------------------------
(* The statements, by index. *)

LEMMA StatementsLemma ==
    /\ Len(Statements) = 21
    /\ Statements[1] = "is_limine_supported"
    /\ Statements[2] = "constructors"
    /\ Statements[3] = "initialiseFramebuffer"
    /\ Statements[4] = "setupGdt"
    /\ Statements[5] = "load_gdt"
    /\ Statements[6] = "load_tsr"
    /\ Statements[7] = "reload_segments"
    /\ Statements[8] = "setIdtEntry"
    /\ Statements[9] = "load_idt"
    /\ Statements[10] = "GetBootPages"
    /\ Statements[11] = "printMemoryMap"
    /\ Statements[12] = "CheckBootPages"
    /\ Statements[13] = "InitialisePageFrames"
    /\ Statements[14] = "bootmessage"
    /\ Statements[15] = "PrintSizeofPagetorMap"
    /\ Statements[16] = "probePhysicalWidth"
    /\ Statements[17] = "ExtractPagingIndices"
    /\ Statements[18] = "ReadDeviceHeader"
    /\ Statements[19] = "EnumeratePCI"
    /\ Statements[20] = "pony"
    /\ Statements[21] = "haltAndCatchFire"
  BY DEF Statements, Prologue, Tables, initialiseGDT, initialiseIdt

-----------------------------------------------------------------------------
(* The numbers that bytes stand for. *)

Powers == [b \in 0..7 |-> 2 ^ b]

LEMMA PowersLemma ==
    /\ Powers[0] = 1 /\ Powers[1] = 2 /\ Powers[2] = 4 /\ Powers[3] = 8
    /\ Powers[4] = 16 /\ Powers[5] = 32 /\ Powers[6] = 64 /\ Powers[7] = 128
    /\ \A b \in 0..7 : Powers[b] = 2 ^ b /\ Powers[b] \in Nat
<1>1. /\ 2 ^ 0 = 1 /\ 2 ^ 1 = 2 /\ 2 ^ 2 = 4 /\ 2 ^ 3 = 8
      /\ 2 ^ 4 = 16 /\ 2 ^ 5 = 32 /\ 2 ^ 6 = 64 /\ 2 ^ 7 = 128
  OBVIOUS
<1> QED
  BY <1>1 DEF Powers

LEMMA ByteFinite ==
    ASSUME NEW word \in SUBSET (0..7)
    PROVE  IsFiniteSet(word)
<1> DEFINE last == 7
<1>1. last \in Int /\ 0 \in Int /\ word \in SUBSET (0..last)
  OBVIOUS
<1> HIDE DEF last
<1>2. IsFiniteSet(0..last)
  BY <1>1, FS_Interval, Zenon
<1> QED
  BY <1>1, <1>2, FS_Subset

\* The number of a byte is a sum of powers of two, in whatever order.
LEMMA NumberIsSum ==
    ASSUME NEW word \in SUBSET (0..7)
    PROVE  \E sum : Sums(sum, Powers, word) /\ sum[word] = Number(word)
<1> DEFINE Add(iter, s) ==
             IF s = {} THEN 0 ELSE LET x == CHOOSE x \in s : TRUE IN 2 ^ x + iter[s \ {x}]
           Fold(iter) == iter = [s \in SUBSET word |-> Add(iter, s)]
           fold == CHOOSE iter : Fold(iter)
<1>1. IsFiniteSet(word)
  BY ByteFinite
<1>2. PICK sum : Sums(sum, Powers, word)
  <2>1. \A b \in word : Powers[b] \in Nat
    BY PowersLemma
  <2> QED
    BY <1>1, <2>1, SumsExist
<1>3. ASSUME NEW iter, NEW s \in SUBSET word, s # {}
      PROVE  Add(iter, s) = Powers[CHOOSE b \in s : TRUE] + iter[s \ {CHOOSE b \in s : TRUE}]
  <2>1. (CHOOSE b \in s : TRUE) \in 0..7
    BY <1>3
  <2> QED
    BY <1>3, <2>1, PowersLemma
<1>4. ASSUME NEW iter PROVE Add(iter, {}) = 0
  OBVIOUS
<1> HIDE DEF Add
<1>5. Fold(sum)
  <2>1. sum = [s \in SUBSET word |-> sum[s]]
    BY <1>2 DEF Sums
  <2>2. ASSUME NEW s \in SUBSET word PROVE sum[s] = Add(sum, s)
    <3>1. CASE s = {}
      BY <1>2, <1>4, <3>1 DEF Sums
    <3>2. CASE s # {}
      <4>1. PICK b \in s : b = CHOOSE x \in s : TRUE
        BY <3>2
      <4>2. sum[s] = Powers[b] + sum[s \ {b}]
        BY <1>2 DEF Sums
      <4> QED
        BY <1>3, <3>2, <4>1, <4>2
    <3> QED
      BY <3>1, <3>2
  <2> QED
    BY <2>1, <2>2
<1>6. Fold(fold)
  BY <1>5
<1> HIDE DEF fold
<1>7. ChosenSums(fold, Powers, word)
  <2>1. \A s \in SUBSET word : fold[s] = Add(fold, s)
    BY <1>6
  <2> QED
    BY <1>3, <1>4, <2>1 DEF ChosenSums
<1>8. fold[word] = sum[word]
  BY <1>1, <1>2, <1>7, SumsInAnyOrder
<1>9. fold[word] = Number(word)
  BY DEF Number, MapThenSumSet, MapThenFoldSet, fold, Add
<1> QED
  BY <1>2, <1>8, <1>9

LEMMA FirstNumber == Number({0}) = 1
<1>1. PICK sum : Sums(sum, Powers, {0}) /\ sum[{0}] = Number({0})
  BY NumberIsSum
<1>2. sum[{0}] = Powers[0] + sum[{}]
  <2>1. {0} \ {0} = {}
    OBVIOUS
  <2> QED
    BY <1>1, <2>1 DEF Sums
<1> QED
  BY <1>1, <1>2, PowersLemma DEF Sums

\* Of two bytes that differ by one bit, which only the second has, the second is
\* larger by the power of that bit.
LEMMA OneBitMore ==
    ASSUME NEW word \in SUBSET (0..7), NEW b \in word
    PROVE  Number(word) = Powers[b] + Number(word \ {b})
<1>1. PICK sum : Sums(sum, Powers, word) /\ sum[word] = Number(word)
  BY NumberIsSum
<1>2. word \ {b} \in SUBSET (0..7)
  OBVIOUS
<1>3. PICK rest : Sums(rest, Powers, word \ {b}) /\ rest[word \ {b}] = Number(word \ {b})
  BY <1>2, NumberIsSum
<1>4. IsFiniteSet(word \ {b})
  BY <1>2, ByteFinite
<1>5. sum[word] = Powers[b] + rest[word \ {b}]
  BY <1>1, <1>3, <1>4, SumWithout
<1> QED
  BY <1>1, <1>3, <1>5

\* Taking the bits of a byte from the lowest on, as far as bit k.
LEMMA BitByBit ==
    ASSUME NEW word \in SUBSET (0..7), NEW k \in 0..7
    PROVE  Number(word \cap (0..k)) =
             Number(word \cap (0..k - 1)) + (IF k \in word THEN Powers[k] ELSE 0)
<1> DEFINE upto == word \cap (0..k)
           below == word \cap (0..k - 1)
<1>1. \A i \in 0..7 : i \in 0..k <=> i \in 0..k - 1 \/ i = k
  OBVIOUS
<1>2. below \in SUBSET (0..7) /\ upto \in SUBSET (0..7) /\ k \notin 0..k - 1
  OBVIOUS
<1>3. PICK sum : Sums(sum, Powers, below) /\ sum[below] = Number(below)
  BY <1>2, NumberIsSum
<1>4. Number(below) \in Nat
  BY <1>3 DEF Sums
<1>5. CASE k \in word
  <2>1. k \in upto /\ upto \ {k} = below
    BY <1>1, <1>2, <1>5
  <2> HIDE DEF upto, below
  <2>2. Number(upto) = Powers[k] + Number(below)
    BY <1>2, <2>1, OneBitMore
  <2> QED
    BY <1>4, <1>5, <2>2, PowersLemma DEF upto, below
<1>6. CASE k \notin word
  <2>1. upto = below
    BY <1>1, <1>6
  <2> QED
    BY <1>4, <1>6, <2>1
<1> QED
  BY <1>5, <1>6

\* The number of the bits of a byte is the byte.
LEMMA NumberOfBits ==
    ASSUME NEW n \in 0..255
    PROVE  BitsOf(n) \in SUBSET (0..7) /\ Number(BitsOf(n)) = n
<1> DEFINE word == BitsOf(n)
           Part(k) == Number(word \cap (0..k))
<1>1. /\ word \in SUBSET (0..7)
      /\ \A b \in 0..7 : b \in word <=> (n \div Powers[b]) % 2 = 1
  <2>1. Low(8) = 0..7
    BY DEF Low
  <2>2. \A b : b \in word <=> b \in 0..7 /\ (n \div 2 ^ b) % 2 = 1
    BY <2>1, Zenon DEF BitsOf
  <2>3. \A b \in 0..7 : Powers[b] = 2 ^ b
    BY PowersLemma
  <2>4. ASSUME NEW b \in 0..7 PROVE b \in word <=> (n \div Powers[b]) % 2 = 1
    BY <2>2, <2>3, Zenon
  <2>5. word \subseteq 0..7
    BY <2>2, Zenon
  <2> QED
    BY <2>4, <2>5, Zenon
<1> HIDE DEF word
<1>2. /\ 0 \in word <=> (n \div 1) % 2 = 1
      /\ 1 \in word <=> (n \div 2) % 2 = 1
      /\ 2 \in word <=> (n \div 4) % 2 = 1
      /\ 3 \in word <=> (n \div 8) % 2 = 1
      /\ 4 \in word <=> (n \div 16) % 2 = 1
      /\ 5 \in word <=> (n \div 32) % 2 = 1
      /\ 6 \in word <=> (n \div 64) % 2 = 1
      /\ 7 \in word <=> (n \div 128) % 2 = 1
  BY <1>1, PowersLemma, SMTT(60)
<1>3. Number({}) = 0
  <2>1. PICK sum : Sums(sum, Powers, {}) /\ sum[{}] = Number({})
    BY NumberIsSum
  <2> QED
    BY <2>1 DEF Sums
<1>4. word \cap (0..0 - 1) = {} /\ word \cap (0..7) = word
  <2>1. \A b : b \notin 0..0 - 1
    OBVIOUS
  <2> QED
    BY <1>1, <2>1, Zenon
<1>5. \A k \in 0..7 : Number(word \cap (0..k)) =
          Number(word \cap (0..k - 1)) + (IF k \in word THEN Powers[k] ELSE 0)
  BY <1>1, BitByBit
<1>6. /\ Part(0) = IF 0 \in word THEN 1 ELSE 0
      /\ Part(1) = Part(0) + (IF 1 \in word THEN 2 ELSE 0)
      /\ Part(2) = Part(1) + (IF 2 \in word THEN 4 ELSE 0)
      /\ Part(3) = Part(2) + (IF 3 \in word THEN 8 ELSE 0)
      /\ Part(4) = Part(3) + (IF 4 \in word THEN 16 ELSE 0)
      /\ Part(5) = Part(4) + (IF 5 \in word THEN 32 ELSE 0)
      /\ Part(6) = Part(5) + (IF 6 \in word THEN 64 ELSE 0)
      /\ Part(7) = Part(6) + (IF 7 \in word THEN 128 ELSE 0)
  <2>1. /\ Part(0) = Number(word \cap (0..0 - 1)) + (IF 0 \in word THEN Powers[0] ELSE 0)
        /\ Part(1) = Part(0) + (IF 1 \in word THEN Powers[1] ELSE 0)
        /\ Part(2) = Part(1) + (IF 2 \in word THEN Powers[2] ELSE 0)
        /\ Part(3) = Part(2) + (IF 3 \in word THEN Powers[3] ELSE 0)
    BY <1>5
  <2>2. /\ Part(4) = Part(3) + (IF 4 \in word THEN Powers[4] ELSE 0)
        /\ Part(5) = Part(4) + (IF 5 \in word THEN Powers[5] ELSE 0)
        /\ Part(6) = Part(5) + (IF 6 \in word THEN Powers[6] ELSE 0)
        /\ Part(7) = Part(6) + (IF 7 \in word THEN Powers[7] ELSE 0)
    BY <1>5
  <2> HIDE DEF Part
  <2> QED
    BY <1>3, <1>4, <2>1, <2>2, PowersLemma
<1> HIDE DEF Part
<1>7. Part(3) = n % 16
  BY <1>2, <1>6
<1>8. Part(7) = n
  BY <1>2, <1>6, <1>7
<1> QED
  BY <1>1, <1>4, <1>8 DEF Part, word

-----------------------------------------------------------------------------
(* The segment a selector names. *)

\* The selector that the gates and cs name: a kernel code segment.
LEMMA KernelCode ==
    ASSUME cpu.gdtr = "kernel"
    PROVE  Code64(Segment({3}))
<1>1. Shr({3}, 3) = {0}
  BY DEF Shr
<1>2. Segment({3}) = KernelGdt[1]
  BY <1>1, FirstNumber DEF Segment
<1>3. KernelGdt[1] = constructSegtor({}, Low(16), {1, 3, 4, 7}, Low(4) \union {5, 7})
  BY DEF KernelGdt
<1> QED
  BY <1>2, <1>3 DEF Code64, constructSegtor

-----------------------------------------------------------------------------
(* The inductive invariant: what is in place when a statement begins. *)

BootTypes ==
    /\ pc \in 1..21
    /\ machine \in {"running", "halted", "faulting", "lost", "reset"}
    /\ cpu \in [gdtr : {"loader", "kernel"}, cs : SUBSET Int, tr : SUBSET Int,
                idtr : {"loader", "kernel"}]

\* The segment table and cs come before the interrupt table.
TablesLoaded ==
    /\ pc > 5 => cpu.gdtr = "kernel"
    /\ pc > 7 => cpu.cs = {3}
    /\ cpu.idtr = "kernel" => pc > 9

\* The gates are set from the first, all of them when the loop is left.
GatesBuilt ==
    \E k \in 0..34 :
        /\ DOMAIN idt_table = 0..k - 1
        /\ \A v \in 0..k - 1 : idt_table[v] = constructIdtGate(isr[v])
        /\ pc > 8 <=> k = 34

PortOpen == port = IF pc > 2 THEN 1016 ELSE 0

BootInv ==
    /\ BootTypes /\ TablesLoaded /\ GatesBuilt /\ PortOpen
    /\ MessagesReachSerial

LEMMA InitBootInv == BootInit => BootInv
<1> SUFFICES ASSUME BootInit PROVE BootInv
  OBVIOUS
<1>1. GatesBuilt
  <2>1. idt_table = <<>> /\ DOMAIN idt_table = 0..0 - 1 /\ pc = 1
    BY DEF BootInit
  <2> QED
    BY <2>1 DEF GatesBuilt
<1>2. /\ pc = 1 /\ machine = "running" /\ port = 0 /\ printed = {}
      /\ cpu = [gdtr |-> "loader", cs |-> {3, 5}, tr |-> {}, idtr |-> "loader"]
  BY DEF BootInit
<1> QED
  BY <1>1, <1>2 DEF BootInv, BootTypes, TablesLoaded, PortOpen, MessagesReachSerial

\* Once the kernel's interrupt table is loaded, an interrupt finds its stub.
LEMMA InterruptHandled ==
    ASSUME BootInv, cpu.idtr = "kernel"
    PROVE  Handles(2)
<1>1. pc > 9 /\ pc \in 1..21 /\ cpu.gdtr = "kernel" /\ cpu.cs = {3}
  BY DEF BootInv, BootTypes, TablesLoaded
<1>2. 2 \in DOMAIN idt_table /\ idt_table[2] = constructIdtGate(isr[2])
  BY <1>1 DEF BootInv, GatesBuilt
<1>3. isr[2] \in Word
  BY BootAssumption
<1>4. GatePresent(idt_table[2]) /\ GateOffset(idt_table[2]) = isr[2]
  BY <1>2, <1>3, GatesKeepOffset
<1>5. idt_table[2].segment_selector = {3}
  BY <1>2 DEF constructIdtGate
<1>6. Code64(Segment({3}))
  BY <1>1, KernelCode
<1> QED
  BY <1>1, <1>2, <1>4, <1>5, <1>6 DEF Handles

-----------------------------------------------------------------------------
(* The inductive invariant, statement by statement. *)

\* Where in _start a statement is.
LEMMA AtLemma ==
    ASSUME BootInv, NEW k \in 1..21, Statements[k] = Statement
    PROVE  k = pc
<1>1. pc \in 1..21 /\ Statements[pc] = Statements[k]
  BY DEF BootInv, BootTypes, Statement
<1> QED
  BY <1>1, StatementsLemma

\* The gates that are set stay set.
LEMMA GatesKept ==
    ASSUME BootInv, idt_table' = idt_table, (pc' > 8) <=> (pc > 8)
    PROVE  GatesBuilt'
<1>1. PICK k \in 0..34 :
        /\ DOMAIN idt_table = 0..k - 1
        /\ \A v \in 0..k - 1 : idt_table[v] = constructIdtGate(isr[v])
        /\ pc > 8 <=> k = 34
  BY DEF BootInv, GatesBuilt
<1>2. pc' > 8 <=> k = 34
  BY <1>1
<1> QED
  BY <1>1, <1>2 DEF GatesBuilt

\* A statement that only goes on, or prints something else than the first one.
LEMMA GoesOn ==
    ASSUME BootInv, machine = "running", pc \in 3..20,
           pc' \in {pc, pc + 1}, pc \notin {5, 7, 8},
           machine' \in {"running", "halted", "lost"}, UNCHANGED <<port, cpu, idt_table>>,
           printed' = printed \/ \E text : text # "is_limine_supported" /\ Prints(text)
    PROVE  BootInv'
<1>1. port = 1016
  BY DEF BootInv, PortOpen
<1>2. BootTypes' /\ TablesLoaded' /\ PortOpen'
  BY <1>1 DEF BootInv, BootTypes, TablesLoaded, PortOpen
<1>3. GatesBuilt'
  BY GatesKept
<1>4. MessagesReachSerial'
  BY <1>1 DEF BootInv, MessagesReachSerial, Prints
<1> QED
  BY <1>2, <1>3, <1>4 DEF BootInv

LEMMA RevisionStep ==
    ASSUME BootInv, is_limine_supported
    PROVE  BootInv'
<1>1. pc = 1 /\ Statement = "is_limine_supported" /\ machine = "running"
  BY AtLemma, StatementsLemma DEF is_limine_supported, At
<1>2. /\ pc' = 2 /\ machine' = "running"
      /\ printed' = printed \union {<<"is_limine_supported", port>>}
      /\ UNCHANGED <<port, cpu, idt_table>>
  BY <1>1 DEF is_limine_supported, RevisionWord, Advance, Prints
<1>3. port = 0
  BY <1>1 DEF BootInv, PortOpen
<1>4. MessagesReachSerial'
  BY <1>2, <1>3 DEF BootInv, MessagesReachSerial
<1>5. GatesBuilt'
  BY <1>1, <1>2, GatesKept
<1> QED
  BY <1>1, <1>2, <1>3, <1>4, <1>5
     DEF BootInv, BootTypes, TablesLoaded, PortOpen

LEMMA ConstructorsStep ==
    ASSUME BootInv, Constructors
    PROVE  BootInv'
<1>1. pc = 2 /\ machine = "running"
  BY AtLemma, StatementsLemma DEF Constructors, At
<1>2. pc' = 3 /\ port' = 1016 /\ UNCHANGED <<machine, printed, cpu, idt_table>>
  BY <1>1 DEF Constructors, Advance
<1>3. GatesBuilt'
  BY <1>1, <1>2, GatesKept
<1> QED
  BY <1>1, <1>2, <1>3
     DEF BootInv, BootTypes, TablesLoaded, PortOpen, MessagesReachSerial

\* The three routines that load a register, one after the other.
LEMMA LoadStep ==
    ASSUME BootInv, load_gdt \/ load_tsr \/ reload_segments
    PROVE  BootInv'
<1>1. machine' = machine /\ port' = port /\ printed' = printed /\ idt_table' = idt_table
  BY DEF load_gdt, load_tsr, reload_segments
<1>2. machine = "running" /\ pc' = pc + 1
  BY DEF load_gdt, load_tsr, reload_segments, At, Advance
<1>3. \/ pc = 5 /\ cpu' = [cpu EXCEPT !.gdtr = "kernel"]
      \/ pc = 6 /\ cpu' = [cpu EXCEPT !.tr = {3, 5}]
      \/ pc = 7 /\ cpu' = [cpu EXCEPT !.cs = {3}]
  BY AtLemma, StatementsLemma DEF load_gdt, load_tsr, reload_segments, At
<1>4. BootTypes' /\ cpu'.idtr = cpu.idtr
  BY <1>1, <1>2, <1>3 DEF BootInv, BootTypes
<1>5. TablesLoaded'
  BY <1>2, <1>3 DEF BootInv, BootTypes, TablesLoaded
<1>6. GatesBuilt'
  BY <1>1, <1>2, <1>3, GatesKept
<1> QED
  BY <1>1, <1>2, <1>3, <1>4, <1>5, <1>6
     DEF BootInv, PortOpen, MessagesReachSerial

LEMMA GateStep ==
    ASSUME BootInv, setIdtEntry
    PROVE  BootInv'
<1>1. pc = 8 /\ machine = "running" /\ Statement = "setIdtEntry"
  BY AtLemma, StatementsLemma DEF setIdtEntry, At
<1>2. port = 1016
  BY <1>1 DEF BootInv, PortOpen
<1>3. PICK k \in 0..33 :
        /\ DOMAIN idt_table = 0..k - 1
        /\ \A v \in 0..k - 1 : idt_table[v] = constructIdtGate(isr[v])
  <2>1. PICK k \in 0..34 :
          /\ DOMAIN idt_table = 0..k - 1
          /\ \A v \in 0..k - 1 : idt_table[v] = constructIdtGate(isr[v])
          /\ pc > 8 <=> k = 34
    BY DEF BootInv, GatesBuilt
  <2>2. k \in 0..33
    BY <1>1, <2>1
  <2> QED
    BY <2>1, <2>2
<1>4. Cardinality(DOMAIN idt_table) = k /\ Cardinality(Gates) = 34
  <2>1. Cardinality(0..k - 1) = k
    BY FS_Interval
  <2>2. Cardinality(0..33) = 34
    <3> DEFINE last == 33
    <3>1. last \in Int /\ 0 \in Int /\ ~(0 > last) /\ last - 0 + 1 = 34
      OBVIOUS
    <3> HIDE DEF last
    <3>2. Cardinality(0..last) = 34
      BY <3>1, FS_Interval
    <3> QED
      BY <3>2, Zenon DEF last
  <2> QED
    BY <1>3, <2>1, <2>2, BootAssumption
<1>5. /\ idt_table' = [v \in 0..k |-> IF v < k THEN idt_table[v] ELSE constructIdtGate(isr[k])]
      /\ pc' = IF k + 1 = 34 THEN 9 ELSE 8
      /\ printed' = printed \union {<<"setIdtEntry", 1016>>}
      /\ UNCHANGED <<machine, port, cpu>>
  BY <1>1, <1>2, <1>4 DEF setIdtEntry, Prints
<1>6. GatesBuilt'
  <2>1. k + 1 \in 0..34 /\ DOMAIN idt_table' = 0..(k + 1) - 1
    BY <1>5
  <2>2. \A v \in 0..(k + 1) - 1 : idt_table'[v] = constructIdtGate(isr[v])
    BY <1>3, <1>5
  <2>3. pc' > 8 <=> k + 1 = 34
    BY <1>5
  <2> QED
    BY <2>1, <2>2, <2>3 DEF GatesBuilt
<1>7. MessagesReachSerial'
  BY <1>5 DEF BootInv, MessagesReachSerial
<1> QED
  BY <1>1, <1>2, <1>5, <1>6, <1>7
     DEF BootInv, BootTypes, TablesLoaded, PortOpen

LEMMA IdtStep ==
    ASSUME BootInv, load_idt
    PROVE  BootInv'
<1>1. pc = 9 /\ machine = "running" /\ Statement = "load_idt"
  BY AtLemma, StatementsLemma DEF load_idt, At
<1>2. port = 1016
  BY <1>1 DEF BootInv, PortOpen
<1>3. /\ cpu' = [cpu EXCEPT !.idtr = "kernel"] /\ pc' = 10
      /\ printed' = printed \union {<<"load_idt", 1016>>}
      /\ UNCHANGED <<machine, port, idt_table>>
  BY <1>1, <1>2 DEF load_idt, Prints, Advance
<1>4. GatesBuilt'
  BY <1>1, <1>3, GatesKept
<1>5. MessagesReachSerial'
  BY <1>3 DEF BootInv, MessagesReachSerial
<1>6. BootTypes' /\ cpu'.gdtr = cpu.gdtr /\ cpu'.cs = cpu.cs
  BY <1>1, <1>3 DEF BootInv, BootTypes
<1> QED
  BY <1>1, <1>2, <1>3, <1>4, <1>5, <1>6
     DEF BootInv, TablesLoaded, PortOpen

\* An interrupt, with its stub or without.
LEMMA InterruptStep ==
    ASSUME BootInv, NonMaskable
    PROVE  BootInv'
<1>1. UNCHANGED <<pc, port, cpu, idt_table>>
  BY DEF NonMaskable
<1>2. machine' \in {machine, "lost", "reset"}
  BY DEF NonMaskable, SparesRegisters, ClobbersRegisters
<1>3. BootTypes' /\ TablesLoaded' /\ PortOpen'
  BY <1>1, <1>2 DEF BootInv, BootTypes, TablesLoaded, PortOpen
<1>4. GatesBuilt'
  BY <1>1, GatesKept
<1>5. MessagesReachSerial'
  <2>1. CASE Handles(2) /\ Prints("NMI")
    <3>1. cpu.idtr = "kernel"
      BY <2>1 DEF Handles
    <3>2. port = 1016
      BY <3>1 DEF BootInv, BootTypes, TablesLoaded, PortOpen
    <3> QED
      BY <2>1, <3>2 DEF BootInv, MessagesReachSerial, Prints
  <2>2. CASE printed' = printed
    BY <2>2 DEF BootInv, MessagesReachSerial
  <2> QED
    BY <2>1, <2>2 DEF NonMaskable
<1> QED
  BY <1>3, <1>4, <1>5 DEF BootInv

LEMMA FaultStep ==
    ASSUME BootInv, PageFault \/ FaultChain
    PROVE  BootInv'
<1>1. /\ UNCHANGED <<pc, port, printed, cpu, idt_table>>
      /\ machine' \in {"faulting", "lost", "reset"}
  BY DEF PageFault, FaultChain
<1>2. GatesBuilt'
  BY <1>1, GatesKept
<1> QED
  BY <1>1, <1>2 DEF BootInv, BootTypes, TablesLoaded, PortOpen, MessagesReachSerial

\* Where in _start an access to the PCI is.
LEMMA AccessAt ==
    ASSUME BootInv, FormAddress \/ outl \/ CallInl \/ inl \/ EnumerateDevice
    PROVE  pc \in {18, 19} /\ machine = "running"
<1>1. At("ReadDeviceHeader") \/ At("EnumeratePCI")
  BY Zenon DEF FormAddress, outl, CallInl, inl, EnumerateDevice, AtAccess
<1>2. machine = "running" /\ (Statement = "ReadDeviceHeader" \/ Statement = "EnumeratePCI")
  BY <1>1 DEF At
<1> QED
  BY <1>2, AtLemma, StatementsLemma

LEMMA StepBootInv ==
    ASSUME BootInv, [BootNext]_bootVars
    PROVE  BootInv'
<1>1. CASE UNCHANGED bootVars
  <2>1. UNCHANGED <<pc, machine, port, printed, cpu, idt_table>>
    BY <1>1 DEF bootVars, kernel
  <2>2. GatesBuilt'
    BY <2>1, GatesKept
  <2> QED
    BY <2>1, <2>2 DEF BootInv, BootTypes, TablesLoaded, PortOpen, MessagesReachSerial
<1>2. CASE is_limine_supported
  BY <1>2, RevisionStep
<1>3. CASE Constructors
  BY <1>3, ConstructorsStep
<1>4. CASE initialiseFramebuffer
  <2>1. pc = 3 /\ machine = "running"
    BY <1>4, AtLemma, StatementsLemma DEF initialiseFramebuffer, At
  <2>2. /\ pc' \in {pc, pc + 1} /\ machine' \in {"running", "halted"}
        /\ UNCHANGED <<port, cpu, idt_table>> /\ printed' = printed
    BY <1>4, <2>1 DEF initialiseFramebuffer, Advance
  <2> QED
    BY <2>1, <2>2, GoesOn
<1>5. CASE setupGdt
  <2>1. pc = 4 /\ machine = "running" /\ Statement = "setupGdt"
    BY <1>5, AtLemma, StatementsLemma DEF setupGdt, At
  <2>2. /\ pc' = pc + 1 /\ machine' = machine
        /\ UNCHANGED <<port, cpu, idt_table>> /\ Prints("setupGdt")
    BY <1>5, <2>1 DEF setupGdt, Advance
  <2> QED
    BY <2>1, <2>2, GoesOn
<1>6. CASE load_gdt \/ load_tsr \/ reload_segments
  BY <1>6, LoadStep
<1>7. CASE setIdtEntry
  BY <1>7, GateStep
<1>8. CASE load_idt
  BY <1>8, IdtStep
<1>9. CASE PageFault \/ FaultChain
  BY <1>9, FaultStep
<1>10. CASE CheckPages
  <2>1. pc = 12 /\ machine = "running" /\ Statement = "CheckBootPages"
    BY <1>10, AtLemma, StatementsLemma DEF CheckPages, At
  <2>2. /\ pc' \in {pc, pc + 1} /\ machine' \in {"running", "halted"}
        /\ UNCHANGED <<port, cpu, idt_table>>
        /\ printed' = printed \/ Prints("CheckBootPages")
    BY <1>10, <2>1 DEF CheckPages, Advance
  <2> QED
    BY <2>1, <2>2, GoesOn
<1>11. CASE FillFrames
  <2>1. pc = 13 /\ machine = "running"
    BY <1>11, AtLemma, StatementsLemma DEF FillFrames, At
  <2>2. /\ pc' \in {pc, pc + 1} /\ machine' = machine
        /\ UNCHANGED <<port, cpu, idt_table>> /\ printed' = printed
    BY <1>11 DEF FillFrames
  <2> QED
    BY <2>1, <2>2, GoesOn
<1>12. CASE PrintStatement
  <2>1. /\ pc \in {10, 11, 14, 15, 16, 17, 20} /\ machine = "running"
        /\ Statement # "is_limine_supported"
    BY <1>12, AtLemma, StatementsLemma DEF PrintStatement, JustPrints, At
  <2>2. /\ pc' = pc + 1 /\ machine' = machine
        /\ UNCHANGED <<port, cpu, idt_table>> /\ Prints(Statement)
    BY <1>12 DEF PrintStatement, Advance
  <2> QED
    BY <2>1, <2>2, GoesOn
<1>13. CASE ReadDeviceHeader
  <2>1. pc = 18 /\ machine = "running" /\ Statement = "ReadDeviceHeader"
    BY <1>13, AtLemma, StatementsLemma DEF ReadDeviceHeader, At
  <2>2. /\ pc' = pc + 1 /\ machine' = machine
        /\ UNCHANGED <<port, cpu, idt_table>> /\ Prints("ReadDeviceHeader")
    BY <1>13, <2>1 DEF ReadDeviceHeader, Advance
  <2> QED
    BY <2>1, <2>2, GoesOn
<1>14. CASE FormAddress \/ outl \/ CallInl \/ inl \/ EnumerateDevice
  <2>1. pc \in {18, 19} /\ machine = "running"
    BY <1>14, AccessAt
  <2>2. /\ pc' \in {pc, pc + 1} /\ machine' \in {machine, "lost"}
        /\ UNCHANGED <<port, cpu, idt_table>> /\ printed' = printed
    BY <1>14 DEF FormAddress, outl, CallInl, inl, EnumerateDevice
  <2> QED
    BY <2>1, <2>2, GoesOn
<1>15. CASE haltAndCatchFire
  <2>1. machine' = "halted" /\ UNCHANGED <<pc, port, printed, cpu, idt_table>>
    BY <1>15 DEF haltAndCatchFire
  <2>2. GatesBuilt'
    BY <2>1, GatesKept
  <2> QED
    BY <2>1, <2>2 DEF BootInv, BootTypes, TablesLoaded, PortOpen, MessagesReachSerial
<1>16. CASE NonMaskable
  BY <1>16, InterruptStep
<1> QED
  BY <1>1, <1>2, <1>3, <1>4, <1>5, <1>6, <1>7, <1>8, <1>9, <1>10, <1>11, <1>12,
     <1>13, <1>14, <1>15, <1>16 DEF BootNext, Execute

\* The segment table, cs and all 34 gates are in place before the interrupt table
\* is loaded, whatever interrupts come and whatever the boot loader left unanswered
\* (main.cpp:43-110).
THEOREM BootInvariant == BootSpec => []BootInv
<1>1. BootInit => BootInv
  BY InitBootInv
<1>2. BootInv /\ [BootNext]_bootVars => BootInv'
  BY StepBootInv
<1> QED
  BY <1>1, <1>2, PTL DEF BootSpec

\* Every message goes to the serial port but the one about the revision, which is
\* written before kout is constructed (main.cpp:44-51, requests.hpp:17).
THEOREM MessagesSent == BootSpec => []MessagesReachSerial
<1>1. BootInv => MessagesReachSerial
  BY DEF BootInv
<1> QED
  BY <1>1, BootInvariant, PTL

-----------------------------------------------------------------------------
(* The devices of the PCI. *)

Passed(bus, dev) == bus < scan.bus \/ (bus = scan.bus /\ dev < scan.dev)

Scans ==
    [bus : 0..Buses, dev : 0..Devices - 1,
     found : SUBSET ((0..Buses - 1) \X (0..Devices - 1)), address : SUBSET Int,
     stage : Live \union {"none", "written"}, edx : Ports, eax : SUBSET Int]

\* Where the two loops of EnumeratePCI are.
LoopsPlaced ==
    /\ scan \in Scans
    /\ pc < 19 => scan.bus = 0 /\ scan.dev = 0
    /\ pc = 19 => scan.bus < Buses
    /\ pc > 19 => scan.bus = Buses
    /\ scan.stage # "none" => pc \in {18, 19}

\* A register holds the wrong port only behind an interrupt.
PortsKept == scan.stage \in {"outl", "inl"} /\ scan.edx = "other" => disturbed # {}

LoopAddress == FormConfigAddress(TRUE, BitsOf(scan.bus), BitsOf(scan.dev), {}, {})
AtDevice == <<scan.bus, scan.dev>>
Spoiled(bus, dev) == <<"EnumeratePCI", bus, dev>> \in disturbed

\* What the stages of an access have left, if no interrupt came into it.
AccessKept ==
    pc = 19 /\ ~Spoiled(scan.bus, scan.dev) =>
        /\ scan.stage = "outl" => scan.edx = "CONFIG_ADDR" /\ scan.eax = LoopAddress
        /\ scan.stage \in {"written", "inl"} => scan.address = LoopAddress
        /\ scan.stage = "inl" => scan.edx = "CONFIG_DATA"
        /\ scan.stage = "ids" => (NoDevice <=> AtDevice \notin devices)

\* Found are the devices the loops have passed, but where an interrupt came.
PassedFound ==
    \A bus \in 0..Buses - 1, dev \in 0..Devices - 1 :
        ~Spoiled(bus, dev) =>
            (<<bus, dev>> \in scan.found <=> <<bus, dev>> \in devices /\ Passed(bus, dev))

ScanInv == LoopsPlaced /\ PortsKept /\ AccessKept /\ PassedFound

\* The host bridge answers for the device whose address was written.
LEMMA AnswersLemma ==
    ASSUME NEW bus \in 0..255, NEW dev \in 0..31
    PROVE  Answers(FormConfigAddress(TRUE, BitsOf(bus), BitsOf(dev), {}, {}))
             <=> <<bus, dev>> \in devices
<1> DEFINE address32 == FormConfigAddress(TRUE, BitsOf(bus), BitsOf(dev), {}, {})
<1>1. /\ BitsOf(bus) \in SUBSET (0..7) /\ Number(BitsOf(bus)) = bus
      /\ BitsOf(dev) \in SUBSET (0..7) /\ Number(BitsOf(dev)) = dev
  BY NumberOfBits
<1>2. BitsOf(dev) \subseteq 0..4
  <2> SUFFICES ASSUME NEW b \in BitsOf(dev), b \notin 0..4 PROVE FALSE
    OBVIOUS
  <2>1. b \in {5, 6, 7} /\ (dev \div 2 ^ b) % 2 = 1
    BY <1>1 DEF BitsOf
  <2>2. (dev \div 32) % 2 = 0 /\ (dev \div 64) % 2 = 0 /\ (dev \div 128) % 2 = 0
    OBVIOUS
  <2>3. 2 ^ 5 = 32 /\ 2 ^ 6 = 64 /\ 2 ^ 7 = 128
    OBVIOUS
  <2>4. (dev \div 2 ^ 5) % 2 = 0 /\ (dev \div 2 ^ 6) % 2 = 0 /\ (dev \div 2 ^ 7) % 2 = 0
    BY <2>2, <2>3
  <2>5. 0 # 1
    OBVIOUS
  <2>6. b = 5 \/ b = 6 \/ b = 7
    BY <2>1
  <2> QED
    BY <2>1, <2>4, <2>5, <2>6, Zenon
<1>3. BitsOf(bus) \in SUBSET Low(8) /\ BitsOf(dev) \in SUBSET Low(5)
  BY <1>1, <1>2 DEF Low
<1>4. ConfigBus(address32) = BitsOf(bus) /\ ConfigDevice(address32) = BitsOf(dev)
  <2>1. {} \in SUBSET Low(3) /\ {} \in SUBSET Low(8) /\ TRUE \in BOOLEAN
    OBVIOUS
  <2> QED
    BY <1>3, <2>1, ConfigAddressKept, ZenonT(60)
<1>5. 31 \in address32
  BY DEF FormConfigAddress
<1> HIDE DEF address32
<1>6. Answers(address32) <=> <<bus, dev>> \in devices
  BY <1>1, <1>4, <1>5 DEF Answers
<1> QED
  BY <1>6 DEF address32

LEMMA AddressPositions ==
    ASSUME NEW busn \in SUBSET (0..7), NEW devn \in SUBSET (0..7)
    PROVE  FormConfigAddress(TRUE, busn, devn, {}, {}) \in SUBSET Int
<1>1. Shl(busn, 16) \in SUBSET Int /\ Shl(devn, 11) \in SUBSET Int
  BY DEF Shl
<1>2. Shl({}, 8) = {}
  BY DEF Shl
<1> QED
  BY <1>1, <1>2 DEF FormConfigAddress

LEMMA InitScan == BootInit => ScanInv
<1> SUFFICES ASSUME BootInit PROVE ScanInv
  OBVIOUS
<1>1. /\ scan = [bus |-> 0, dev |-> 0, found |-> {}, address |-> {},
                 stage |-> "none", edx |-> "other", eax |-> {}]
      /\ pc = 1
  BY DEF BootInit
<1>2. LoopsPlaced
  BY <1>1, BootAssumption DEF LoopsPlaced, Scans, Ports, Live
<1>3. \A bus \in 0..Buses - 1, dev \in 0..Devices - 1 : ~Passed(bus, dev)
  BY <1>1, BootAssumption DEF Passed
<1> QED
  BY <1>1, <1>2, <1>3 DEF ScanInv, PortsKept, AccessKept, PassedFound

\* All steps but those of an access to the PCI, and those of an interrupt, leave its
\* state alone, and none of them reaches or leaves the statements that make one.
LEMMA ScanKept ==
    ASSUME BootInv, [BootNext]_bootVars, ~NonMaskable, ~ReadDeviceHeader,
           ~FormAddress, ~outl, ~CallInl, ~inl, ~EnumerateDevice
    PROVE  /\ scan' = scan /\ devices' = devices /\ disturbed' = disturbed
           /\ pc' = pc \/ (pc' = pc + 1 /\ pc \notin {18, 19})
<1>1. CASE UNCHANGED bootVars
  BY <1>1 DEF bootVars, kernel
<1>2. devices' = devices /\ disturbed' = disturbed
  BY <1>1 DEF BootNext, bootVars, kernel
<1>3. CASE is_limine_supported \/ Constructors \/ initialiseFramebuffer
  <2>1. pc \in {1, 2, 3}
    BY <1>3, AtLemma, StatementsLemma
       DEF is_limine_supported, Constructors, initialiseFramebuffer, At
  <2> QED
    BY <1>2, <1>3, <2>1 DEF is_limine_supported, Constructors, initialiseFramebuffer, Advance
<1>4. CASE setupGdt \/ load_gdt \/ load_tsr \/ reload_segments
  <2>1. pc \in {4, 5, 6, 7}
    BY <1>4, AtLemma, StatementsLemma DEF setupGdt, load_gdt, load_tsr, reload_segments, At
  <2> QED
    BY <1>2, <1>4, <2>1 DEF setupGdt, load_gdt, load_tsr, reload_segments, Advance
<1>5. CASE setIdtEntry \/ load_idt
  <2>1. pc \in {8, 9}
    BY <1>5, AtLemma, StatementsLemma DEF setIdtEntry, load_idt, At
  <2> QED
    BY <1>2, <1>5, <2>1 DEF setIdtEntry, load_idt, Advance
<1>6. CASE CheckPages \/ FillFrames
  <2>1. pc \in {12, 13}
    BY <1>6, AtLemma, StatementsLemma DEF CheckPages, FillFrames, At
  <2> QED
    BY <1>2, <1>6, <2>1 DEF CheckPages, FillFrames, Advance
<1>7. CASE PrintStatement
  <2>1. pc \in {10, 11, 14, 15, 16, 17, 20}
    BY <1>7, AtLemma, StatementsLemma DEF PrintStatement, JustPrints, At
  <2> QED
    BY <1>2, <1>7, <2>1 DEF PrintStatement, Advance
<1>8. CASE PageFault \/ FaultChain \/ haltAndCatchFire
  BY <1>2, <1>8 DEF PageFault, FaultChain, haltAndCatchFire
<1> QED
  BY <1>1, <1>3, <1>4, <1>5, <1>6, <1>7, <1>8 DEF BootNext, Execute

\* An interrupt leaves the loops where they are, and what it spoils it spoils for the
\* address they are at.
LEMMA InterruptScan ==
    ASSUME BootInv, ScanInv, NonMaskable, devices' = devices
    PROVE  ScanInv'
<1>1. pc' = pc
  BY DEF NonMaskable
<1>2. CASE SparesRegisters \/ ~Handles(2)
  <2>1. scan' = scan /\ disturbed' = disturbed
    BY <1>2 DEF NonMaskable, SparesRegisters
  <2>2. LoopsPlaced' /\ PortsKept'
    BY <1>1, <2>1 DEF ScanInv, LoopsPlaced, PortsKept
  <2>3. AccessKept'
    BY <1>1, <2>1 DEF ScanInv, AccessKept, Spoiled, LoopAddress, AtDevice, NoDevice
  <2>4. PassedFound'
    BY <2>1 DEF ScanInv, PassedFound, Passed, Spoiled
  <2> QED
    BY <2>2, <2>3, <2>4 DEF ScanInv
<1>3. CASE ClobbersRegisters
  <2>1. /\ scan \in Scans
        /\ disturbed' = disturbed \union {<<Statement, scan.bus, scan.dev>>}
    BY <1>3 DEF ClobbersRegisters, ScanInv, LoopsPlaced
  <2>2. \/ scan' = scan
        \/ \E p \in Ports, word \in Junk : scan' = [scan EXCEPT !.edx = p, !.eax = word]
    BY <1>3 DEF ClobbersRegisters
  <2>3. /\ scan' \in Scans
        /\ UNCHANGED <<scan.bus, scan.dev, scan.found, scan.stage>>
    <3>1. CASE scan' = scan
      BY <2>1, <3>1
    <3>2. ASSUME NEW p \in Ports, NEW word \in Junk,
                 scan' = [scan EXCEPT !.edx = p, !.eax = word]
          PROVE  /\ scan' \in Scans
                 /\ UNCHANGED <<scan.bus, scan.dev, scan.found, scan.stage>>
      <4>1. word \in SUBSET Int
        BY <3>2, BootAssumption DEF Word, Low
      <4> QED
        BY <2>1, <3>2, <4>1 DEF Scans
    <3> QED
      BY <2>2, <3>1, <3>2
  <2>4. LoopsPlaced'
    BY <1>1, <2>3 DEF ScanInv, LoopsPlaced
  <2>5. PortsKept'
    BY <2>1 DEF PortsKept
  <2>6. AccessKept'
    <3>1. pc = 19 => Spoiled(scan.bus, scan.dev)'
      <4>1. pc = 19 => Statement = "EnumeratePCI"
        BY StatementsLemma DEF Statement
      <4> QED
        BY <2>1, <2>3, <4>1 DEF Spoiled
    <3> QED
      BY <1>1, <3>1 DEF AccessKept
  <2>7. PassedFound'
    <3>1. \A bus, dev : ~Spoiled(bus, dev)' => ~Spoiled(bus, dev)
      BY <2>1 DEF Spoiled
    <3>2. \A bus, dev : Passed(bus, dev)' <=> Passed(bus, dev)
      BY <2>3 DEF Passed
    <3> QED
      BY <2>3, <3>1, <3>2 DEF ScanInv, PassedFound
  <2> QED
    BY <2>4, <2>5, <2>6, <2>7 DEF ScanInv
<1> QED
  BY <1>2, <1>3 DEF NonMaskable

\* The words that are read from a port.
LEMMA PortWordsLemma ==
    ASSUME ScanInv, NEW p \in Ports, NEW word \in PortWords(p)
    PROVE  word \in SUBSET Int
<1>1. scan.address \in SUBSET Int
  BY DEF ScanInv, LoopsPlaced, Scans
<1>2. Low(32) \in SUBSET Int /\ Junk \subseteq SUBSET Int
  BY BootAssumption DEF Word, Low
<1>3. CASE p = "CONFIG_ADDR"
  BY <1>1, <1>3 DEF PortWords
<1>4. CASE p = "CONFIG_DATA"
  BY <1>2, <1>4 DEF PortWords
<1>5. CASE p = "other"
  BY <1>2, <1>5 DEF PortWords
<1> QED
  BY <1>3, <1>4, <1>5 DEF Ports

\* The stages of an access, at the address where the loops are.
LEMMA AccessStep ==
    ASSUME BootInv, ScanInv, FormAddress \/ outl \/ CallInl \/ inl,
           UNCHANGED <<devices, disturbed>>
    PROVE  ScanInv'
<1>1. pc \in {18, 19} /\ pc' = pc /\ devices' = devices /\ disturbed' = disturbed
  BY AccessAt DEF FormAddress, outl, CallInl, inl
<1>2. scan \in Scans
  BY DEF ScanInv, LoopsPlaced
<1>3. AccessAddress \in SUBSET Int /\ (pc = 19 => AccessAddress = LoopAddress)
  <2>1. scan.bus \in 0..255 /\ scan.dev \in 0..255
    BY <1>1, <1>2, BootAssumption DEF Scans, ScanInv, LoopsPlaced
  <2>2. BitsOf(scan.bus) \in SUBSET (0..7) /\ BitsOf(scan.dev) \in SUBSET (0..7)
    BY <2>1, NumberOfBits
  <2>3. LoopAddress \in SUBSET Int /\ FormConfigAddress(TRUE, {}, {}, {}, {}) \in SUBSET Int
    BY <2>2, AddressPositions DEF LoopAddress
  <2>4. pc = 19 => Statement = "EnumeratePCI"
    BY StatementsLemma DEF Statement
  <2> QED
    BY <2>3, <2>4 DEF AccessAddress, LoopAddress
<1>4. PICK stage \in Live \union {"none", "written"}, latched \in SUBSET Int,
           p \in Ports, word \in SUBSET Int :
        /\ scan' = [scan EXCEPT !.stage = stage, !.address = latched, !.edx = p, !.eax = word]
        /\ \/ /\ FormAddress /\ stage = "outl" /\ latched = scan.address
              /\ p = "CONFIG_ADDR" /\ word = AccessAddress
           \/ /\ scan.stage = "outl" /\ stage = "written" /\ p = scan.edx /\ word = scan.eax
              /\ latched = IF scan.edx = "CONFIG_ADDR" THEN scan.eax ELSE scan.address
           \/ /\ scan.stage = "written" /\ stage = "inl" /\ latched = scan.address
              /\ p = "CONFIG_DATA" /\ word = scan.eax
           \/ /\ scan.stage = "inl" /\ stage = "ids" /\ latched = scan.address
              /\ p = scan.edx /\ word \in PortWords(p)
  <2> HIDE DEF AccessAddress
  <2>1. CASE FormAddress
    BY <1>2, <1>3, <2>1 DEF FormAddress, Scans, Live, Ports
  <2>2. CASE outl
    BY <1>2, <2>2 DEF outl, AtAccess, Scans, Live, Ports
  <2>3. CASE CallInl
    BY <1>2, <2>3 DEF CallInl, AtAccess, Scans, Live, Ports
  <2>4. CASE inl
    <3>1. scan.stage = "inl" /\ scan.edx \in Ports
      BY <1>2, <2>4 DEF inl, AtAccess, Scans
    <3>2. PICK word \in PortWords(scan.edx) :
            scan' = [scan EXCEPT !.stage = "ids", !.eax = word]
      BY <2>4 DEF inl
    <3>3. word \in SUBSET Int
      BY <3>1, <3>2, PortWordsLemma
    <3>4. scan' = [scan EXCEPT !.stage = "ids", !.address = scan.address,
                               !.edx = scan.edx, !.eax = word]
      BY <1>2, <3>2 DEF Scans
    <3>5. "ids" \in Live \union {"none", "written"} /\ scan.address \in SUBSET Int
      BY <1>2 DEF Scans, Live
    <3> QED
      BY <3>1, <3>2, <3>3, <3>4, <3>5
  <2> QED
    BY <2>1, <2>2, <2>3, <2>4
<1>5. /\ scan' \in Scans /\ UNCHANGED <<scan.bus, scan.dev, scan.found>>
      /\ scan'.stage = stage /\ scan'.address = latched /\ scan'.edx = p /\ scan'.eax = word
  BY <1>2, <1>4 DEF Scans
<1>6. LoopsPlaced'
  BY <1>1, <1>5 DEF ScanInv, LoopsPlaced
<1>7. PortsKept'
  BY <1>1, <1>4, <1>5 DEF ScanInv, PortsKept
<1>8. PassedFound'
  BY <1>1, <1>5 DEF ScanInv, PassedFound, Passed, Spoiled
<1>9. AccessKept'
  <2> SUFFICES ASSUME pc = 19, ~Spoiled(scan.bus, scan.dev)
               PROVE  /\ stage = "outl" => p = "CONFIG_ADDR" /\ word = LoopAddress
                      /\ stage \in {"written", "inl"} => latched = LoopAddress
                      /\ stage = "inl" => p = "CONFIG_DATA"
                      /\ stage = "ids" => (Low(16) \subseteq word <=> AtDevice \notin devices)
    BY <1>1, <1>5 DEF AccessKept, Spoiled, LoopAddress, AtDevice, NoDevice
  <2>1. /\ scan.stage = "outl" => scan.edx = "CONFIG_ADDR" /\ scan.eax = LoopAddress
        /\ scan.stage \in {"written", "inl"} => scan.address = LoopAddress
        /\ scan.stage = "inl" => scan.edx = "CONFIG_DATA"
    BY DEF ScanInv, AccessKept
  <2>2. CASE stage = "ids"
    <3>1. word = IF Answers(LoopAddress) THEN {} ELSE Low(32)
      BY <1>4, <2>1, <2>2 DEF PortWords
    <3>2. Low(16) \subseteq Low(32) /\ ~(Low(16) \subseteq {})
      BY DEF Low
    <3>3. Answers(LoopAddress) <=> AtDevice \in devices
      <4>1. scan.bus \in 0..255 /\ scan.dev \in 0..31
        BY <1>2, BootAssumption DEF Scans, ScanInv, LoopsPlaced
      <4> QED
        BY <4>1, AnswersLemma, Zenon DEF LoopAddress, AtDevice
    <3> QED
      BY <2>2, <3>1, <3>2, <3>3
  <2> HIDE DEF AccessAddress, LoopAddress
  <2>3. CASE stage # "ids"
    BY <1>3, <1>4, <2>1, <2>3
  <2> QED
    BY <2>2, <2>3
<1> QED
  BY <1>6, <1>7, <1>8, <1>9 DEF ScanInv

\* The end of an iteration: the device the loops were at is now one they have passed.
LEMMA IterationStep ==
    ASSUME BootInv, ScanInv, EnumerateDevice, UNCHANGED <<devices, disturbed>>
    PROVE  ScanInv'
<1> USE BootAssumption
<1>1. pc = 19 /\ scan.stage = "ids" /\ devices' = devices /\ disturbed' = disturbed
  BY AtLemma, StatementsLemma DEF EnumerateDevice, At
<1>2. /\ scan.bus \in 0..Buses - 1 /\ scan.dev \in 0..Devices - 1
      /\ scan \in Scans
  BY <1>1 DEF ScanInv, LoopsPlaced, Scans
<1> DEFINE found == IF NoDevice THEN scan.found ELSE scan.found \union {AtDevice}
<1>3. /\ NextDevice.found = scan.found
      /\ \/ /\ scan.dev + 1 = Devices /\ NextDevice.bus = scan.bus + 1 /\ NextDevice.dev = 0
         \/ /\ scan.dev + 1 # Devices /\ NextDevice.bus = scan.bus
            /\ NextDevice.dev = scan.dev + 1
  BY <1>2 DEF NextDevice, Scans
<1>4. /\ scan'.bus = NextDevice.bus /\ scan'.dev = NextDevice.dev
      /\ scan'.stage = "none" /\ scan'.found = found
      /\ pc' = IF NextDevice.bus = Buses THEN pc + 1 ELSE pc
  BY <1>2, <1>3 DEF EnumerateDevice, NextDevice, Scans, AtDevice
<1>5. NextDevice \in Scans
  <2>1. CASE scan.dev + 1 = Devices
    <3>1. NextDevice = [scan EXCEPT !.bus = scan.bus + 1, !.dev = 0]
      BY <2>1 DEF NextDevice
    <3>2. scan.bus + 1 \in 0..Buses /\ 0 \in 0..Devices - 1
      BY <1>2
    <3> QED
      BY <1>2, <3>1, <3>2 DEF Scans
  <2>2. CASE scan.dev + 1 # Devices
    <3>1. NextDevice = [scan EXCEPT !.dev = scan.dev + 1]
      BY <2>2 DEF NextDevice
    <3>2. scan.dev + 1 \in 0..Devices - 1
      BY <1>2, <2>2
    <3> QED
      BY <1>2, <3>1, <3>2 DEF Scans
  <2> QED
    BY <2>1, <2>2
<1>6. LoopsPlaced'
  <2>1. scan' \in Scans
    <3>1. found \in SUBSET ((0..Buses - 1) \X (0..Devices - 1))
      BY <1>2 DEF Scans, AtDevice
    <3>2. scan' = [NextDevice EXCEPT !.stage = "none", !.found = found]
      BY <1>3 DEF EnumerateDevice, AtDevice
    <3> HIDE DEF found
    <3> QED
      BY <1>5, <3>1, <3>2 DEF Scans
  <2>2. NextDevice.bus \in 0..Buses
    BY <1>2, <1>3
  <2> QED
    BY <1>1, <1>4, <2>1, <2>2 DEF LoopsPlaced
<1>7. ASSUME NEW bus \in 0..Buses - 1, NEW dev \in 0..Devices - 1
      PROVE  Passed(bus, dev)' <=> Passed(bus, dev) \/ (bus = scan.bus /\ dev = scan.dev)
  BY <1>2, <1>3, <1>4 DEF Passed
<1>8. PassedFound'
  <2> SUFFICES ASSUME NEW bus \in 0..Buses - 1, NEW dev \in 0..Devices - 1,
                      ~Spoiled(bus, dev)
               PROVE  <<bus, dev>> \in found <=> <<bus, dev>> \in devices /\ Passed(bus, dev)'
    BY <1>1, <1>4 DEF PassedFound, Spoiled
  <2>1. <<bus, dev>> \in scan.found <=> <<bus, dev>> \in devices /\ Passed(bus, dev)
    BY DEF ScanInv, PassedFound
  <2>2. CASE bus = scan.bus /\ dev = scan.dev
    <3>1. NoDevice <=> AtDevice \notin devices
      BY <1>1, <2>2 DEF ScanInv, AccessKept
    <3>2. Passed(bus, dev)' /\ AtDevice = <<bus, dev>>
      BY <1>7, <2>2 DEF AtDevice
    <3> QED
      BY <2>1, <3>1, <3>2
  <2>3. CASE ~(bus = scan.bus /\ dev = scan.dev)
    <3>1. AtDevice # <<bus, dev>>
      BY <2>3 DEF AtDevice
    <3> QED
      BY <1>7, <2>1, <2>3, <3>1
  <2> QED
    BY <2>2, <2>3
<1>9. AccessKept' /\ PortsKept'
  BY <1>4 DEF AccessKept, PortsKept
<1> QED
  BY <1>6, <1>8, <1>9 DEF ScanInv

\* The one access of ReadDeviceHeader is over.
LEMMA HeaderStep ==
    ASSUME BootInv, ScanInv, ReadDeviceHeader, UNCHANGED <<devices, disturbed>>
    PROVE  ScanInv'
<1>1. pc = 18 /\ pc' = 19 /\ devices' = devices /\ disturbed' = disturbed
  BY AtLemma, StatementsLemma DEF ReadDeviceHeader, At, Advance
<1>2. scan \in Scans /\ scan' = [scan EXCEPT !.stage = "none"]
  BY DEF ScanInv, LoopsPlaced, ReadDeviceHeader
<1>3. /\ scan' \in Scans /\ scan'.stage = "none"
      /\ UNCHANGED <<scan.bus, scan.dev, scan.found>>
  BY <1>2 DEF Scans
<1>4. LoopsPlaced'
  BY <1>1, <1>3, BootAssumption DEF ScanInv, LoopsPlaced
<1>5. AccessKept' /\ PortsKept'
  BY <1>3 DEF AccessKept, PortsKept
<1>6. PassedFound'
  BY <1>1, <1>3 DEF ScanInv, PassedFound, Passed, Spoiled
<1> QED
  BY <1>4, <1>5, <1>6 DEF ScanInv

LEMMA ScanStep ==
    ASSUME BootInv, ScanInv, [BootNext]_bootVars
    PROVE  ScanInv'
<1>1. devices' = devices
  BY DEF BootNext, bootVars
<1>2. CASE NonMaskable
  BY <1>1, <1>2, InterruptScan
<1>3. CASE ~NonMaskable
  <2>1. disturbed' = disturbed
    BY <1>3 DEF BootNext, bootVars, kernel
  <2>2. CASE FormAddress \/ outl \/ CallInl \/ inl
    BY <1>1, <2>1, <2>2, AccessStep
  <2>3. CASE EnumerateDevice
    BY <1>1, <2>1, <2>3, IterationStep
  <2>4. CASE ReadDeviceHeader
    BY <1>1, <2>1, <2>4, HeaderStep
  <2>5. CASE ~(FormAddress \/ outl \/ CallInl \/ inl \/ EnumerateDevice \/ ReadDeviceHeader)
    <3>1. /\ scan' = scan
          /\ pc' = pc \/ (pc' = pc + 1 /\ pc \notin {18, 19})
      BY <1>3, <2>5, ScanKept
    <3>2. pc \in 1..21
      BY DEF BootInv, BootTypes
    <3>3. LoopsPlaced'
      BY <3>1, <3>2 DEF ScanInv, LoopsPlaced, Scans
    <3>4. PortsKept'
      BY <2>1, <3>1 DEF ScanInv, PortsKept
    <3>5. AccessKept'
      <4>1. pc' = 19 => pc = 19 \/ (pc = 18 /\ scan.stage = "none")
        BY <3>1, <3>2
      <4> QED
        BY <1>1, <2>1, <3>1, <4>1
           DEF ScanInv, AccessKept, Spoiled, LoopAddress, AtDevice, NoDevice
    <3>6. PassedFound'
      BY <1>1, <2>1, <3>1 DEF ScanInv, PassedFound, Passed, Spoiled
    <3> QED
      BY <3>3, <3>4, <3>5, <3>6 DEF ScanInv
  <2> QED
    BY <2>2, <2>3, <2>4, <2>5
<1> QED
  BY <1>2, <1>3

\* After the scan of the PCI the devices found are those there are, but for the
\* addresses that an interrupt came into: what it leaves in edx and eax is written
\* to a port, or taken for an answer, for that address and no other, and between the
\* write and the read it changes nothing (pci.hpp:12-24, 37-54, ioports.S:8-26).
THEOREM ScanComplete == BootSpec => []EnumeratesPresent
<1>1. BootInit => BootInv /\ ScanInv
  BY InitBootInv, InitScan
<1>2. BootInv /\ ScanInv /\ [BootNext]_bootVars => BootInv' /\ ScanInv'
  BY StepBootInv, ScanStep
<1>3. BootInv /\ ScanInv => EnumeratesPresent
  <2> SUFFICES ASSUME BootInv, ScanInv, Statement = "pony",
                      NEW bus \in 0..Buses - 1, NEW dev \in 0..Devices - 1,
                      ~Spoiled(bus, dev)
               PROVE  <<bus, dev>> \in scan.found <=> <<bus, dev>> \in devices
    BY DEF EnumeratesPresent, Spoiled
  <2>1. pc = 20
    BY AtLemma, StatementsLemma
  <2>2. scan.bus = Buses
    BY <2>1 DEF ScanInv, LoopsPlaced, Scans
  <2>3. Passed(bus, dev)
    BY <2>2, BootAssumption DEF Passed
  <2> QED
    BY <2>3 DEF ScanInv, PassedFound
<1> QED
  BY <1>1, <1>2, <1>3, PTL DEF BootSpec

-----------------------------------------------------------------------------
(* Where control is lost. *)

\* Where all responses a statement needs are there and no interrupt has caught a
\* register in use, no step leaves the code of the kernel.
LEMMA ControlStep ==
    ASSUME BootInv, ScanInv, ControlKept, [BootNext]_bootVars
    PROVE  ControlKept'
<1> SUFFICES ASSUME cpu'.idtr = "kernel", (Needs(Statement) \subseteq responses)',
                    disturbed' = {}
             PROVE  machine' \in {"running", "halted"}
  BY DEF ControlKept
<1>1. responses' = responses
  BY DEF BootNext, bootVars
<1>2. CASE NonMaskable
  <2>1. /\ cpu' = cpu /\ pc' = pc
        /\ cpu.idtr = "kernel" /\ Needs(Statement) \subseteq responses
    BY <1>1, <1>2 DEF NonMaskable, Statement, Needs
  <2>2. Handles(2)
    BY <2>1, InterruptHandled
  <2>3. ~ClobbersRegisters
    BY DEF ClobbersRegisters
  <2>4. machine' = machine /\ disturbed' = disturbed
    BY <1>2, <2>2, <2>3 DEF NonMaskable, SparesRegisters
  <2> QED
    BY <2>1, <2>4 DEF ControlKept
<1>3. CASE ~NonMaskable
  <2>1. disturbed = {}
    BY <1>3 DEF BootNext, bootVars, kernel
  <2>2. CASE UNCHANGED bootVars
    BY <1>1, <2>2 DEF ControlKept, Statement, Needs, bootVars, kernel
  <2>3. CASE PageFault
    BY <1>1, <2>3 DEF PageFault, Statement, Needs
  <2>4. CASE FaultChain
    BY <1>1, <2>1, <2>4 DEF FaultChain, ControlKept, Statement, Needs
  <2>5. CASE outl \/ inl
    BY <2>1, <2>5 DEF outl, inl, AtAccess, At, ScanInv, PortsKept
  <2>6. CASE is_limine_supported \/ Constructors \/ initialiseFramebuffer
    BY <2>6 DEF is_limine_supported, Constructors, initialiseFramebuffer, At
  <2>7. CASE setupGdt \/ load_gdt \/ load_tsr \/ reload_segments
    BY <2>7 DEF setupGdt, load_gdt, load_tsr, reload_segments, At
  <2>8. CASE setIdtEntry \/ load_idt
    BY <2>8 DEF setIdtEntry, load_idt, At
  <2>9. CASE CheckPages \/ FillFrames
    BY <2>9 DEF CheckPages, FillFrames, At
  <2>10. CASE PrintStatement
    BY <2>10 DEF PrintStatement, At
  <2>11. CASE FormAddress \/ CallInl \/ ReadDeviceHeader \/ EnumerateDevice
    BY <2>11 DEF FormAddress, CallInl, ReadDeviceHeader, EnumerateDevice, AtAccess, At
  <2>12. CASE haltAndCatchFire
    BY <2>12 DEF haltAndCatchFire
  <2> QED
    BY <1>3, <2>2, <2>3, <2>4, <2>5, <2>6, <2>7, <2>8, <2>9, <2>10, <2>11, <2>12
       DEF BootNext, Execute
<1> QED
  BY <1>2, <1>3

\* From load_idt on an interrupt finds its gate, its stub and the code segments that
\* the gate and cs name, and gives control back; what remains to lose control by is
\* a null response, or an interrupt that caught registers in use (main.cpp:54-55,
\* idt.cpp:86-93).
THEOREM TablesKeepControl == BootSpec => []ControlKept
<1>1. BootInit => BootInv /\ ScanInv /\ ControlKept
  BY InitBootInv, InitScan DEF BootInit, ControlKept
<1>2. BootInv /\ ScanInv /\ ControlKept /\ [BootNext]_bootVars
        => BootInv' /\ ScanInv' /\ ControlKept'
  BY StepBootInv, ScanStep, ControlStep
<1> QED
  BY <1>1, <1>2, PTL DEF BootSpec
=============================================================================
