# PenelopeOS in TLA+

PenelopeOS is a small x86-64 kernel in C++, booted by Limine.  This directory
models its parts in TLA+, checks them with TLC on small instances, and proves
the most important results with TLAPS for every value of the parameters.

Paths below are relative to `src/kernel/src/` unless they begin with `src/`.

## 1. The system

The kernel runs on one processor, in one thread: `_start` (`main.cpp`) runs the
global constructors, then a fixed sequence of initialisations, then halts.
Nothing is scheduled yet.  The only concurrency is that of interrupts and of the
devices.  `initialiseIdt` enables maskable interrupts, but the boot loader leaves
both interrupt controllers masked and the kernel never undoes that; what is left
are non-maskable interrupts, traps and faults.

| part | state | operations | who calls it |
|---|---|---|---|
| physical memory allocator (`memory/memorylist.*`, `memory/pnew.cpp`) | `head`, and a header `{next, length}` inside every free block and every live chunk | `InitialiseHeaders`, `allocHeap`, `allocStack`, `free`; `operator new` and `operator delete` | C++ code of the kernel; `_start` has the call of `InitialiseHeaders` in a comment |
| process queues (`proc/queuetable.*`) | one array of `{key, next, prev}`, `nextqid` | `newQueue`, `pushQueue`, `popQueue`, `popFirst`, `popLast`, `insert`, `printQueue` | the scheduler to come |
| process table (`proc/proctable.*`) | 32 entries with a state, `last` | `newpid`, `create` (a stub) | the scheduler to come |
| page frames (`memory/pages.*`) | `frameMap`, `startOfRam` | `InitialisePageFrames`, `CheckBootPages`, `PhysicalToPageN`, `PageAddress` | `_start` |
| boot sequence (`main.cpp`, `limine/*`) | what is initialised so far | `_start` | the boot loader |
| interrupt entry (`cpu/idt.*`, `cpu/interrupts.*`) | registers, stack, interrupt flag, the gate table | the stubs of `idt.S`, `initialiseIdt` | the processor |
| segment tables (`cpu/gdt.*`) | the descriptor table | `initialiseGDT` | `_start` |
| paging structures, addresses (`memory/pstructs.*`, `memory/memory.*`) | page tables of the boot loader | `ExtractPagingIndices`, `FormLinearAddress`, `VirtualToPageBase`, `Parse*`, `SetPM4LE`, `DeletePM4LE` | `_start`, in comments |
| ATA disk (`io/ataio.*`) | the drive's registers | `InitialiseAtaPio` | in a comment in `_start` |
| PCI (`io/pci.hpp`, `ioports.S`) | the configuration port pair | `ReadDeviceHeader`, `EnumeratePCI` | `_start` |
| console (`src/kernel/include/kostream.hpp`, `logger.hpp`) | port, radix (`m_mode`), digit buffers | `operator<<` | everybody |
| memory and string routines (`src/kernel/include/string.h`) | none | `memcpy`, `memmove`, `memset`, `memcmp` | everybody |
| processor features (`cpu/features.*`) | none | reads and prints | `_start` |

How the parts interact: the allocator, the page frames and the boot sequence all
read the memory map of the boot loader; the queues hold ids of the process
table, without sharing its limit (10 against 32); the fault of any part goes to
the interrupt entry; everybody writes to the console, whose port is set by a
global constructor.

### What is hard, and what makes each part correct

* **Allocator.**  The list lives in the memory it manages, so a wrong length or
  link is only seen several calls later.  `free` looks for a place with a test
  that is inverted (`memorylist.cpp:211`), so from three blocks on the list
  loses its address order and every later walk runs over a disordered list; the
  walks have no test for null; sizes are rounded to the *nearest* multiple and do
  not count the header; stacks come from below the last block.  Correct means:
  no byte is handed out twice or lost, headers do not overwrite each other, the
  head is the lowest block, the last block is the topmost, and a request is
  served or refused.
* **Queues.**  Links of -1 are followed without a test, so calls reach the slot
  before the array; `popFirst` and `popLast` forget the tail, and `popLast` takes
  the first process like `popFirst`; `insert` compares
  with the successor and links before the current slot.  Correct means: each
  queue is a FIFO list that ends at its own tail, and `insert` returns.
* **Page frames.**  0 stands for "not set" of an index; the frame number is
  computed as if memory had no holes; once the table is full, the loop leaves
  without setting `startOfRam`.  (`CheckBootPages` halts when *fewer* pages exist
  than are tracked; its message, `pages.cpp:64`, says the opposite of the test.)
  Correct means: the descriptors are the usable pages in order, and
  `PhysicalToPageN` and `PageAddress` are inverse on them.
* **Boot.**  The support check prints before the constructor of the console has
  run, and its name and its test are both the wrong way round.  Between
  `load_gdt` and `load_idt` the selectors belong to one table and the descriptors
  to another.  Two responses of the boot loader are dereferenced before they are
  tested.  Correct means: messages reach the serial port, once the interrupt
  table is loaded an interrupt gives control back, and a boot with enough memory
  reaches its last statement.
* **Interrupt entry.**  The stubs save some registers or none; the page fault
  stub leaves the error code on the stack; the flags the handler prints are pushed
  after the processor and `cli` have cleared the interrupt flag.  Correct means: the interrupted code
  finds its registers, its stack and its flags as they were.
* **Paging structures.**  The walks follow whatever an entry holds, present or
  not, large or not, with an address mask that keeps the flags above bit 51.
  Correct means: on tables the kernel can meet, the walk finds the page that the
  processor uses, and an edit changes the translations of its slot and no other.
* **ATA disk.**  `InitialiseAtaPio` polls without a limit and trusts its first
  read of the status.  Correct means: it returns, and "finished" means that the
  drive has identified itself.
* **PCI.**  Address and data are two ports, written and read in turn, through
  registers that an interrupt does not save.  Correct means: the scan finds the
  devices there are.
* **Console, strings, words.**  Digit loops over a buffer of fixed size, copy
  loops over ranges that overlap, packing and unpacking of bit fields with masks
  that are signed ints.  Each is held against what its result is read as.

`PROJECT.json` lists each of these hazards at its line, with the properties that
watch it.

## 2. Modules

| module | models | kind |
|---|---|---|
| `Allocator` | what a heap promises: a set of available bytes, chunks handed out and taken back | abstract specification |
| `FreeList` | `memory/memorylist.cpp`, `memory/pnew.cpp` | detailed; `HeapSpec` implements `Allocator` |
| `MCFreeList` | small memory maps | model values |
| `FreeListProofs` | theorems about `FreeList` | proofs |
| `FifoQueues` | what the queue table promises: FIFO sequences | abstract specification |
| `QueueTable` | `proc/queuetable.cpp`, on the array | detailed; implements `FifoQueues` until a queue is spoiled or `popLast` takes another process than the last |
| `MCQueueTable` | the instance TLC runs | model values |
| `QueueTableProofs` | theorems about `QueueTable` | proofs |
| `InterruptStubs` | `cpu/idt.S`, and the C functions of `cpu/idt.cpp` it calls | detailed |
| `MCInterruptStubs` | the instance TLC runs | model values |
| `InterruptStubsProofs` | theorems about `InterruptStubs` | proofs |
| `PageFrames` | `memory/pages.cpp`, `memory/pages.hpp` | detailed |
| `MCPageFrames` | every small memory map | model values |
| `PageFramesProofs` | theorems about `PageFrames` | proofs |
| `Words` | machine words as sets of bits; linear addresses (`memory/memory.cpp`), entries (`memory/pstructs.hpp`), descriptors (`cpu/gdt.cpp`), gates (`cpu/idt.cpp`, `cpu/interrupts.cpp`), `cr3` (`cpu/features.cpp`), PCI addresses (`io/pci.hpp`) | operators |
| `WordsProofs` | theorems about `Words` | proofs |
| `Boot` | `main.cpp`, `cpu/gdt.cpp`, `initialiseIdt`, `EnumeratePCI`, `limine/requests.hpp`; extends `PageFrames` and `Words` | composition |
| `MCBoot` | the instance TLC runs | model values |
| `BootProofs` | theorems about `Boot` | proofs |
| `PageTables` | `VirtualToPageBase` (`memory/pages.cpp`), `ParseBootLoaderTable`, `ParsePM4L`, `SetPM4LE`, `DeletePM4LE` (`memory/pstructs.hpp`); extends `Words` | detailed |
| `StringRoutines` | `src/kernel/include/string.h` | detailed |
| `Console` | `src/kernel/include/kostream.hpp`, `logger.hpp` | detailed |
| `AtaPio` | `io/ataio.cpp` and the drive behind its ports | detailed, with an environment |
| `Routines` | one of `PageTables`, `StringRoutines`, `Console`, `AtaPio` at a time | composition |
| `MCRoutines` | the instance TLC runs | model values |
| `RoutinesProofs` | theorems about `PageTables`, `StringRoutines`, `Console`, `AtaPio` and their composition | proofs |
| `SumProofs` | least elements, division, sums over finite sets | lemmas for the other proofs |

### FreeList

| variable | code |
|---|---|
| `memmap` | the answer to the memory map request; `regions` are its usable entries |
| `free` | the list that begins at `head.next`, in **link** order: a sequence of `[base, length]` |
| `live` | chunks handed out: `base` is the header, `length` what the header says, `asked` the argument, `kind` the routine |
| `status` | `uninitialised` before `InitialiseHeaders`, `ready`, `fault` after an access outside the direct map, `corrupt` after a header was written over another one |

| action | code |
|---|---|
| `InitialiseHeaders` | `memorylist.cpp:8-47`: one header per usable entry, linked in map order; no usable entry or more than the local array of 20 holds is `corrupt` |
| `AllocHeap(n)` | `:74-129`: size, first block that is strictly larger, carve its low end, write the header of the rest; no such block is a null dereference |
| `AllocStack(n)` | `:131-164`: the header goes below the base of the last block, whose length shrinks |
| `Free(c)` | `:166-234`: push in front, or walk for a pair that passes the (inverted) test, join with the following block or link; no pair is a null dereference |
| `FreeNothing` | `pnew.cpp:13-22` on null, or on the -1 that `new` of 0 bytes gives |

The list is a sequence because the code only ever reaches blocks by following
links; the order of the sequence is the order of the links, not of addresses, so
the disorder `free` creates is in the model.  Whether the bytes of a header
survive is modelled by `Clobbers`: a write that overlaps another header ends in
`corrupt`, whatever the bytes become.  `HeapSpec` is the interface of C++ code
(`new` and `delete`), `Spec` adds `allocStack`, which nobody can mix with the heap
safely (see the findings).  Both include a call before initialisation.

What the model leaves out: lines 182-191, the join with the head, because the
condition compares a chunk with the address of the *function* `getHead` and is
never true; what callers write into their payload (they are taken to stay inside
their chunk, which is itself too small for the request, see `RequestedBytesFit`);
requests within two headers of 2^64 (`RequestAssumption`), for which the rounding
wraps.

### QueueTable

| variable | code |
|---|---|
| `buf` | `_buf`, extended by the slot -1 that the untested links reach: its key lies on padding and its links on `maxSlots`, which nobody uses |
| `nextqid` | the same |
| `walk` | the locals of a call of `insert` in progress |
| `where` | callers: on which queue each process was put and not yet returned from.  Callers respect the comment of `queuetable.hpp:25-29`, a process is on one queue at a time |
| `overrun` | a third `newQueue` wrote beyond the array; nothing is modelled after it |
| `spoiled` | history: `popFirst` or `popLast` took the only process of a queue |
| `wrongEnd` | history: `popLast` took another process than the last |

Each routine is one action, but `insert`, whose loop has one step per iteration
(`insertBegin`, `insertStep`, `insertEnd`), because it may not end.  `popFirst` and
`popLast` have the same body (`takeFirst`), which takes the first process.
`FifoQueues` specifies what the names say: `PopFirst` takes the first and `PopLast` the
last.  A `popLast` on a queue of several processes therefore ends what the table
implements, as a forgotten tail does (`Lost`), and `PopLastEndsPromise` proves that every
`popLast` of a process does one of the two.  The
order of the writes of each routine is kept, since with a slot -1 in play they may hit the
same slot.

### InterruptStubs

| variable | code |
|---|---|
| `regs` | the general registers and the flags: what the task keeps there, junk, or an address in the stack |
| `stack` | the words below the task's frame; the top is at the end |
| `at` | the next instruction: a vector and a position in its stub, or the task (position 1 is behind its `int`) |
| `status` | `lost` after control left the kernel's code: the stack is exhausted, or `iretq` was given something else than a frame and the processor took it |
| `printed` | the context `contextSwitchISR` wrote to the console, the flags included |
| `frames` | history: the interrupts in progress and the state each of them found |
| `nmis` | bound: non-maskable interrupts since the last step of the task |

| action | code |
|---|---|
| `Instruction` | the next instruction of the stub, `idt.S:14-274`; a C function (`idt.cpp`) is one step and leaves junk in every register a callee need not save |
| `TaskTraps(v)`, `TaskFaults(v)` | the processor enters vector `v`: alignment, the five words of the frame, the error code of those vectors that have one |
| `NonMaskable` | vector 2 between any two instructions, in the task or in a stub, but not within itself |
| `TaskContinues` | the task runs on behind its `int` |

A stub is a sequence of instructions (`isr_n`, `isr_13`, `isr_ctxtsw`, `isr_pf`),
and `isr` is the table the gates are made from.  Maskable interrupts are left
out: every gate is an interrupt gate, and the boot loader leaves the interrupt
controllers masked, which the kernel never undoes.  For the same reason `cli`, and
`cld` likewise, do nothing here.  The stack a C function uses for itself, and
interrupts inside of it, are left out.

The delivery clears the interrupt flag (`Masked`), so the flags `isr_ctxtsw` pushes for
`contextSwitchISR` to print are not those of the interrupted code, which the processor
has pushed before.  `ContextPrinted` says so of that field and demands the interrupted
code's own value of every other.

`isr_pf` and `isr_13` reach `iretq` with the wrong word on top of the stack
(`isr_13` adds 16 to `rsp` for an error code of 8 bytes), so no fault with an error
code is ever returned from; this is why a fault is final in `FreeList`.

### PageFrames

| variable | code |
|---|---|
| `memmap` | the answer to the memory map request |
| `frameMap`, `startOfRam` | the globals of the same names |
| `loop` | the locals of `InitialisePageFrames`; `inside` tells the two loops apart |
| `status` | how far `_start` has got: `booting`, `checked`, `halted`, `filling`, `finished` |

| action | code |
|---|---|
| `CheckBootPages` | `pages.cpp:62-67`: halts if more pages are tracked than exist |
| `InitialisePageFrames` | entry of the routine |
| `SkipEntry`, `EnterBlock` | one turn of the outer loop, entry not usable or usable; `EnterBlock` sets `initialBlockIndex` if it is 0 |
| `PopulateFrame` | one turn of the inner loop: a descriptor is written; the routine returns when the table is full |
| `LeaveBlock` | the end of the inner loop, where `startOfRam` is set |

`WholeTableFilled` says that past `CheckBootPages` the routine always returns from
the inner loop, with a full table, and never because the map ends.

### Words

A word is the set of the positions of its ones: `&` is intersection, `|` is union,
and shifts move the elements.  Operators carry the names of the routines
(`FormLinearAddress`, `constructTsstor`, `constructIdtGate`, `FormConfigAddress`,
...); next to each stands what the processor or the host bridge reads of the
result (`GateOffset`, `TssBase`, `Limit`, `ConfigBus`, ...).  What C++ does with
the types is part of the model: a mask that is a negative `int` is extended
(`SignExtended`), and `>>` binds tighter than `&` in `constructSegtor`.

### Boot

| variable | code |
|---|---|
| those of `PageFrames` | the frame table, which `_start` fills |
| `responses`, `devices` | which requests the boot loader has answered, which devices are on the PCI; they do not change |
| `pc` | the statement of `_start`, or of the two routines that load tables |
| `machine` | `running`; `halted` in `haltAndCatchFire`; `faulting` in the stub of a page fault, which faults again and again; `lost` when control has left the kernel; `reset` |
| `port`, `printed` | `m_port` of `kout`'s logger; which statements have written, and to which port |
| `cpu` | whose tables `gdtr` and `idtr` name, the selectors `cs` and `tr` |
| `idt_table` | the gates written so far |
| `scan` | the locals of `EnumeratePCI`, the address register of the host bridge, the devices found; how far an access to the ports is (`stage`), and `edx` and `eax` during it |
| `disturbed` | history: in which statements (and at which address of the scan) an interrupt changed registers in use; `MaxDisturbed` bounds it |

| action | code |
|---|---|
| `is_limine_supported`, `Constructors`, `initialiseFramebuffer` | `main.cpp:44-53`, `limine/requests.hpp` |
| `setupGdt`, `load_gdt`, `load_tsr`, `reload_segments` | `cpu/gdt.cpp`, `cpu/gdt.S`; the loads have the processor's condition on the descriptor as their guard, so that a refused selector would stop the boot |
| `setIdtEntry`, `load_idt` | `initialiseIdt`, `cpu/idt.cpp:82`, one gate in a step |
| `CheckPages`, `FillFrames` | the actions of `PageFrames` |
| `FormAddress`, `outl`, `CallInl`, `inl` | an access, `io/pci.hpp` and `ioports.S`: arguments to registers, write of the address, port to `edx`, read of the data |
| `ReadDeviceHeader`, `EnumerateDevice` | the rest of the statement, or of one turn of the loop |
| `PrintStatement` | the statements that only read and print |
| `PageFault`, `FaultChain` | a null response dereferenced (`Needs`): without the kernel's interrupt table a reset, with it `isr_pf`, which faults again until control is lost (`FaultEnds` of `InterruptStubs`) |
| `NonMaskable` | vector 2: handled if gate, code segment and the interrupted `cs` are good in the tables that are loaded, else a double fault without a handler, which resets.  When it is handled nothing changes if no register is in use (`SparesRegisters`); else it may leave any port in `edx` and any word of `Junk` in `eax`, or the machine `lost` (`ClobbersRegisters`) |
| `haltAndCatchFire` | the last statement |

`isr_2` saves no register, and `generalIRQ` may change those that a caller has to save.
Between two statements of `_start` nothing lives in them, because the kernel is built
with `-O0` (`src/kernel/GNUmakefile`), nor below the stack pointer (`-mno-red-zone`).
Within a statement something does.  For the accesses to the PCI the registers are in the
model: an interrupt that comes while `edx` or `eax` is in use sends the access to another
port or the wrong word to the test.  Of any other statement so interrupted the model
says that it goes on unharmed or that the machine is `lost`.  `ControlKept`,
`EnumeratesPresent` and `BootCompletes` say what holds nevertheless, and name the rest.
A response that is null faults as the kernel is started by a loader that
leaves the first page unmapped.  The data segment registers are loaded together
with `cs` and not told apart from it.

### PageTables, StringRoutines, Console, AtaPio

| variable | code |
|---|---|
| `memory`, `walk`, `reported` | tables by physical address; the pointers and counters of the walk in progress; the pages and entries it wrote to the console |
| `bytes`, `before`, `call` | memory; memory when the call began (history); arguments, counter and result of the call |
| `m_mode`, `log`, `sent` | the radix, which stays from insertion to insertion; the digit loop in progress with its buffer; the characters written |
| `drive`, `disk` | what is on the bus and what the drive does; where `InitialiseAtaPio` is, the status it read, and whether a read has shown BSY (history) |

`PageTables` reads one entry in a step; a table that the boot loader does not map
to itself faults, and memory that is mapped and not a table holds anything
(`Junk`).  `StringRoutines` and `Console` take one turn of a loop in a step.  A
behavior of `StringRoutines` makes one call, because memory may hold anything when
it begins.  In `AtaPio` the drive raises and lowers BSY in its own time; it may be
absent (ports read 0), `floating` (all ones) or `stuck` (it never ends).

The four groups share no state and the kernel makes one call at a time, so in a
behavior of `Routines` one group runs and the others rest.

## 3. Runs

| run | checks | shows |
|---|---|---|
| `freelist_heap` | `TypeOK`, `NoOverlap`, `NoLeak`, `HeadIsLowest`, `LastIsTopmost`, `RoomForHeaders`, `CorruptOnlyAtBoot`, `ShortListFrees`, `ImplementsAllocator` | every sequence of `new` and `delete` keeps the heap sound, although the list gets out of order |
| `freelist_full` | `LengthAccounting` | with stacks too, lengths add up modulo the word |
| `freelist_order` | `FreeListOrdered`, violated | `free` links a chunk behind a block above it, against the comment at `memorylist.cpp:213` |
| `freelist_payload` | `RequestedBytesFit`, violated | `new` hands out fewer bytes than asked for |
| `queue_table` | `TypeOK`, `TailIsLast`, `ImplementsFifo`, `InsertReturns` | links stay in the object, queues are FIFO until spoiled or popped at the wrong end, `insert` with a positive key returns |
| `queue_termination` | `TerminationGuaranteed`, violated | `insert` with key 0 runs for ever, against the comment at `queuetable.cpp:65` |
| `queue_insert` | `InsertedIsQueued`, violated | `insert` into a queue that is not empty loses the process |
| `interrupt_stubs` | `ReturnsToInterrupted`, `ContextKept`, `ContextPrinted`, `FaultNeverResumes`, `TrapReturns`, `FaultEnds` | what returns, returns to the code interrupted, however interrupts nest; a fault with an error code never returns |
| `page_frames` | `TypeOK`, `FramesAreUsablePages`, `NoPageSkipped`, `WholeTableFilled`, `StartOfRamIsFirstBlock`, `FirstBlockNumbered` | the table holds the lowest usable pages in order, and numbers are right on the first block |
| `page_frames_number` | `NumbersNameFrames`, violated | behind a hole, the "page frame number" of an address is that of another frame |
| `boot` | `MessagesReachSerial`, `ControlKept`, `EnumeratesPresent`, `BootCompletes` | only the message about the revision misses the serial port; from `load_idt` on an interrupt gives control back unless it caught registers in use; the scan of the PCI is right at every address where none did; a boot with every response and enough memory ends where it should |
| `routines` | `WalkFindsPage`, `EmptyEntryFaults`, `ParseFindsPages`, `EditsAreLocal`, `CopiesMandated`, `ComparesMandated`, `PrintedIsNumber`, `OverrunOnlyBinary`, `FinishedMeansIdentified`, `IdentifyReturns` | what exactly the walks answer for pages of 4 KiB, and when they fault; copies are right for every overlap; numbers read as themselves, unless `log_bin` overruns its buffer; when the disk may be taken for identified, and when the call returns |

**Bounds.**  `freelist_heap`: addresses below 512 and a word of 10 bits, so that
wrapping is possible and sums of valid addresses stay below it; headers keep
their 16 bytes.  The maps are one region, three regions of which two touch, no
region, and more regions than the array (3 instead of 20) holds.  The requests
(0, 4, 12, 40) cover the zero request, the two ways a small size is rounded (to
16 and to 32) and one that is rounded up.  The three regions give lists of up to
a dozen blocks, in and out of order; blocks are joined, pushed in front, linked
in the middle and not found a place for, and requests meet blocks of exactly
their size.  `freelist_full`: two maps below 208, where stacks run into holes,
into other regions and below address 0, and lengths wrap below 0.

`queue_table`: two processes and both queues, which is every queue the table can
hold; two processes are enough for a queue to have a first and a last that
differ, and for both queues to be in use.  The key is 1, so that the walk meets
keys above and below it: processes have key 0 (insert stores none), tails have
the largest.  `queue_termination` and `queue_insert` have three processes and
also the keys 0 and 2^32-1.

`interrupt_stubs`: the task executes `int` 3, 5 and 33 and raises 6 (no error
code), 13 and 14, which takes every stub; it starts with the stack aligned and not
aligned.  The stack has 48 words: the deepest nesting that can return (`isr_ctxtsw`
interrupted by a non-maskable interrupt) takes about half of it, and a chain of
faults still fills it.  Two non-maskable interrupts
between two steps of the task are enough to disturb a stub before and after it
has been returned to.

`page_frames`: *every* map of up to four entries, each of no, one or two pages,
usable or not, adjacent to the one before or behind a hole; a table of three
frames, so that it fills in the first block, in a later one, at the end of a
block and in the middle; 3 values of the block index instead of 256, so that it
wraps within the map.

`boot`: all eight sets of answered requests; maps with too few, with enough and with
scattered pages for a table of two frames; all 34 gates with addresses that use
bits of all three fields; two buses of 32 devices, so that the device number wraps
and the bus number goes on, with no device, one, and four that leave gaps at both
ends of a bus; non-maskable interrupts between any two steps, any number of times, of
which one (`MaxDisturbed`) catches registers in use and leaves one of three words in
`eax`: the ids of a device, those of none, and an address of the PCI.  What one such
interrupt spoils does not reach the next address, and another one would spoil another;
the theorems have any number of them and any words.  The maps are `page_frames`' matter.

`routines`: tables of two entries, one table on each level, since a walk holds one
pointer a level; the entries that lead on are absent, plain, with execution
disabled, or large (naming a page at 1 GiB), in every combination on two levels, and the lowest one names a
page above 4 GiB or nothing; edits of both slots make every top table from those
entries.  Addresses choose either slot on every level.  Four bytes of three values
and every range give each kind of overlap of ranges of length 0 to 4; the values
for `memset` are negative and within the range.  The numbers lie where the number
of digits changes in a radix and on both sides of 2^20, where the binary buffer
ends; TLC's integers end at 2^31, so the overrun is shown but not its full length.

**Deadlock** is not checked where the kernel may really stop: `fault`, `corrupt`,
`overrun`, `lost`, `reset` and the last halt have no successor.

**Fairness.**  `FreeList` states none and has no liveness property.  In
`QueueTable`, `insertStep` and `insertEnd` are weakly fair: a call of `insert` in
progress runs on, because the kernel has one thread and nothing preempts it.
No fairness is assumed of callers.  In `InterruptStubs`, `Instruction` is weakly
fair: the processor executes the next instruction of a stub.  Nothing is assumed
of the task or of non-maskable interrupts.  `PageFrames` states no fairness.  In
`Boot`, `Execute` is weakly fair: behind an interrupt that returned, the processor
goes on with the next statement; nothing is assumed of interrupts.  In `AtaPio` the
polling kernel goes on, and a drive that is not stuck raises BSY for a command
and lowers it in the end, as the standard asks of it; how soon is left open, and a
stuck drive, whose `DriveEnds` is never enabled, is one of the cases.

## 4. Proofs

Every theorem is proved by TLAPS for all values of the constants, from these named
assumptions and nothing else:

| assumption | of | says |
|---|---|---|
| `BoundsAssumption`, `RequestAssumption` | `FreeList` | the direct map ends below the word; no request is within two headers of 2^64 |
| `MapAssumption` | `FreeList` | what the boot protocol promises of usable entries |
| `TableAssumption` | `QueueTable` | there is a process and a key; keys are at most `MaxKey` |
| `StubAssumption` | `InterruptStubs` | the task uses `int` with vectors that have no error code |
| `PagesAssumption` | `PageFrames` | what the boot protocol promises of the memory map; the sizes are positive |
| `BootAssumption` | `Boot` | 256 buses of 32 devices at most; the stubs of the 34 gates have addresses of 64 bits, any |
| `TablesAssumption` | `PageTables` | the tables lie in the first 4 GiB and none in the first page; `cr3` has no bit above 51 and names one |
| `AddressesAssumption` | `PageTables` | the indices of the addresses looked up are indices of the tables |
| `StringAssumption` | `StringRoutines` | there is a byte of memory and a value |
| `ConsoleAssumption`, `WidthAssumption` | `Console` | what is inserted as unsigned is not negative; no number has more than 64 bits |

`Words` and `AtaPio` have no constants: their theorems hold for every word of 64
bits and for every speed of the drive.

| theorem | says |
|---|---|
| **`FreeListProofs`** | |
| `TypeCorrect` | `Spec => []TypeOK`, stacks included |
| `HeapInvariant` | `HeapSpec => []HeapInv`, the inductive invariant |
| `HeapNeverOverlaps` | no byte is in two chunks, two blocks, or both |
| `MemoryConserved` | free blocks and live chunks together are the usable memory, byte for byte |
| `HeapNeverLeaks` | no usable byte drops out of the list and the chunks |
| `HeadersFit` | every length is a positive number of whole headers |
| `HeadStaysLowest` | the head is the lowest block, whatever disorder follows |
| `LastStaysTopmost` | the list is never empty and its last block ends the memory |
| `ListNeverCorrupted` | no call writes a header over another one |
| `ShortListsTakeChunks` | with at most two blocks on the list, `free` finds a place for every chunk |
| `HeapIsAllocator` | `HeapSpec` implements `Allocator` |
| `AccountInvariant` | `Spec => []AccountInv`, the inductive invariant of the lengths, stacks included |
| `LengthsAddUp` | the lengths in the headers add up to the usable memory, modulo the word |
| **`QueueTableProofs`** | |
| `LinksStayInObject` | no link of the queue table leads outside slots -1 to NPROC+3 |
| `QueueInvariant` | `Spec => []QueueInv`, the inductive invariant |
| `TailKnown` | each queue's chain ends at its own tail, which links back to the last process |
| `TableIsFifo` | `QueueTable` implements `FifoQueues`, until a pop forgets the tail or `popLast` takes another process than the last |
| `PopLastEndsPromise` | one of the two is true of every `popLast` that takes a process |
| **`InterruptStubsProofs`** | |
| `StubInvariant` | `Spec => []StubInv`, the inductive invariant |
| `ReturnsRight` | an `iretq` that succeeds resumes what was interrupted, with its stack, flags and callee-saved registers |
| `ContextRestored`, `ContextRead` | `isr_ctxtsw`, undisturbed, restores every register it saves; the handler prints the interrupted code's registers, and its flags without the interrupt flag |
| `NoFaultResumes` | a fault with an error code is never returned from |
| **`PageFramesProofs`** | |
| `TypeCorrect` | `Spec => []TypeOK`: the loop never writes beyond `frameMap` |
| `FillingInvariant`, `CountingInvariant` | `Spec => []IInv` and `Spec => []FullInv`, the inductive invariants of the loop |
| `OnlyUsablePages` | each descriptor is of one whole usable page, and they ascend |
| `NoPageLeftOut` | no usable page below a tracked one is missing |
| `TableFilled` | a boot that passes `CheckBootPages` fills the whole table |
| `StartOfRamSet` | `startOfRam` is the base of the first usable block, under the property's conditions |
| `FirstBlockNumbers` | numbers are right on the first block |
| **`BootProofs`** | |
| `BootInvariant` | `BootSpec => []BootInv`, the inductive invariant |
| `TablesKeepControl` | from `load_idt` on an interrupt gives control back, unless it caught registers in use |
| `MessagesSent` | every message but the one about the revision reaches the serial port |
| `ScanComplete` | the scan of the PCI is right at every address, but where an interrupt changed the registers of the access |
| **`RoutinesProofs`** | |
| `TablesInvariant` | `TablesSpec => []TablesInv`, the inductive invariant of the walks |
| `LookupRight` | what `VirtualToPageBase` answers for an address in a page of 4 KiB, bit for bit, and exactly when it faults |
| `EmptyEntriesFault` | a walk that meets an entry of zero faults |
| `ParseRight` | what `ParseBootLoaderTable` reports on tables without large pages, and exactly when it faults |
| `EditsLocal` | an edit changes the translations of its slot and no other |
| `LoopInvariant` | `StringSpec => []StringInv`: what each loop of `string.h` has done after `i` turns |
| `CopiesAsMandated` | `memcpy`, `memset` and `memmove` leave what C says, for memory of every size and every overlap |
| `ComparesAsMandated` | `memcmp` is 0 for equal ranges, else the order at the first difference |
| `DigitsInvariant` | `ConsoleSpec => []DigitsInv`, the inductive invariant of the digit loops |
| `NumbersReadBack` | what was sent when a routine of `logger` returns reads as its number, for every number and radix |
| `OverrunsAreBinary` | of the numbers of 64 bits only binary ones of more than 20 digits overrun their buffer, and all of these do |
| `FinishedDrivesIdentified` | a drive seen busy has ended when the polling ends |
| `RoutinesRight` | the composition keeps the proved properties of each group |
| **`WordsProofs`** | |
| `IndicesFormAddress`, `FormedAddressHasIndices` | `FormLinearAddress` and `ExtractPagingIndices` are inverse, for addresses whose upper 16 bits are set |
| `CanonicalInUpperHalf` | a formed address is canonical if and only if its top index is at least 0x100 |
| `GatesKeepOffset` | the processor finds in a gate the address that was put in |
| `TssKeepsBase` | the same of the task state segment, with its limit |
| `AddressKeepsHighFlags` | `address()` keeps bits 12 to 63, not 12 to 51 |
| `TableAddress`, `RoutinesNameSameTable` | the table `cr3` names; `getPML4` and `GetCurrentPM4L` mean the same |
| `ConfigAddressKept` | the host bridge reads bus and device back |

### Arguments

**Heap.**  `NoOverlap` is not inductive.  Joining a chunk with the block behind
it keeps the result apart from a third extent only if no extent is empty: an
empty one could sit on the seam.  That no extent is empty follows from lengths
being whole headers (`WholeHeaders`), which in turn needs the strict comparison of
`allocHeap` and the rounding; that `free`'s sums do not wrap needs everything to
lie in the direct map (`InWindow`); and `getHead` needs a list (`NotEmpty`).
`HeapInv` is the conjunction of these.  The proof first shows that every step has
one of five *shapes* (`SameMemory`, `Booted`, `Carved`, `Linked`, `Joined`), which
say element by element what happens to the list, and then proves each conjunct
over the shapes.  `HeadStaysLowest`, `LastStaysTopmost` and `ListNeverCorrupted`
are proved from `HeapInv` over the same shapes.

`NoLeak` speaks of lists and is awkward to keep; `Conserved` says it of sets of bytes
(`FreeBytes` and `LiveBytes` together are `UsableBytes`), which each shape changes by
moving the bytes of one chunk.  The refinement goes through the same sets: the mapping
of `HeapSpec` to `Allocator` is the bytes of the list, so `Carved` takes a chunk's bytes
from the available ones, `Linked` and `Joined` give them back, and `NoOverlap` is what
makes the abstract steps exact.  `ShortListsTakeChunks` combines `Conserved`
with `LastIsTopmost`: no chunk lies above the last block (`ChunksBelowTop`).

With stacks little of `HeapInv` is left: chunks overlap, and a length may wrap.  What
`LengthsAddUp` says holds all the same, because each call of the interface moves one
length, which at most wraps once (`Congruent`).  It is not inductive alone: `live` is a
set, and a chunk that is already in it would be handed out for nothing.  That
needs `HeadersDistinct`, no two headers are in one place, and this
holds because a call that would put a header on another one leaves the list
corrupted, which ends the account.  `AccountInv` has both.  The steps again have shapes
(`SameMemory`, `Booted`, `Allocated`, `Inserted`, `Absorbed`), now without a word
about where extents lie; for each, `HeadersDistinct` is followed header by header, and
the `Balance` of the totals by lemmas for a list with one length changed, a list with one
more block (whose others move up: `TotalRenamed`), and a set with a chunk more or less.

**Queues.**  `TypeOK` is inductive as it stands, once it says that `overrun` is a third
queue.  `TailIsLast` is not: it follows links from the head and knows nothing of other
queues, but a write for one queue may hit another's slot.  `QueueInv` instead says that
there are sequences `qs` whose links the array holds (`Linked`): every queue is a chain
from its head to its tail over its sequence, no process is twice on them, and none is on
them that callers have on no queue.  It holds until a queue is spoiled.  A process that
`insert` put in front of a head is on no queue though callers think so, and `Linked`
has to say what it is, because the next `insert` follows the link of the head to it
and writes there.  `KeysKept` (only tails have a key) and `WalkKept` make the loop of `insert`
stop where it begins or at once behind the head.  Each operation is proved to take
`qs` to the sequences the abstract queue table has; `ContentsAre` shows that what the
refinement mapping reads off the links is `qs`, and the refinement follows.

**Interrupts.**  `ReturnsToInterrupted` speaks of the top of the stack at an `iretq`, which
depends on every push and pop since the entry, also of the interrupts in between.
`StubInv` describes the whole stack: for each interrupt in progress, `FrameKept` says
where its five words, its error code and the registers it has saved so far lie,
given how far its stub has got.  What an interrupt has to leave alone is below its
`depth`; `Nested` says that the frames lie in the order they came.  `TopRestored` follows the
registers of a stub that nothing disturbed.  The proof of a step goes by the kind of
the instruction, after lemmas that spell out the text of each stub (`StubText`,
`SavingText`).  `NoFaultResumes` is the arithmetic of it: the error code is between
`iretq` and its frame, for every vector that has one.

**Page frames.**  What a reader wants to know of the table is not inductive
because it does not mention the loop.  `IInv` adds where the cursor is
(`CursorInBlock`: on a page boundary of the current block), that every descriptor
is a page of an entry already passed or of the current one below the cursor
(`FramesPlaced`), that they ascend (`FramesAscend`), and that every page of those
places has one (`PagesCovered`).  That a new descriptor is above all others then
follows from the order of the entries, and that no page fits between two turns of
the inner loop from two facts about division by the page size (`Division`,
`Multiple`).

`TableFilled` has to count: `FullInv` adds that the frames written are the pages of the
entries passed (`FramesCounted`), a sum that grows by one entry with each turn of the
outer loop, while `CheckBootPages` has compared the sum over all entries.  Sums of the
community modules are recursive functions over sets that take their elements in the
order of `CHOOSE`.  `SumProofs` proves what is needed of them, although induction
theorems with an operator parameter cannot be used: a set of numbers without a least
one is empty (`WFMin` of the library), so a set with 0 and every successor is `Nat`, and
what is to be proved is put into such a set.

**Boot.**  `ControlKept` needs to know at each statement what is loaded.
`BootInv` orders it: the segment table before `cs`, both before the interrupt table
(`TablesLoaded`), and all 34 gates written before `load_idt` (`GatesBuilt`).  A
non-maskable interrupt then finds its gate (`GatesKeepOffset`) and its code segment
(`KernelCode`), whatever the addresses of the stubs.  What remains is an access to a
port that nobody meant, and `PortsKept` says that only an interrupt leads there.
`ScanInv` says that the devices found are those of the addresses passed, but for the
spoiled ones (`PassedFound`), and what the registers and the address register hold at
each stage of an access that was not spoiled (`AccessKept`).  Every turn of the loop
writes the address before it reads, so what an interrupt has spoiled is gone
with the turn.  That the bridge reads the numbers back needs `ConfigAddressKept` and
that a number is that of its bits (`NumberOfBits`).

**Tables.**  `TablesInv` follows a walk down: as long as no entry it has passed has a
flag above bit 51, the pointer at each level is the table the processor is in
(`LookupInv`), and the pages reported are those of the paths before the position
(`ParseInv`).  At the first entry with such a flag `address()` is above 2^52 and not
mapped, so the walk faults there; a walk that has returned has met none.  That gives
the two properties both their halves, and the answer with every bit of it: the flags of
the *last* entry are in it, since nothing follows that pointer.  `ParseFindsPages` asks
that no page is large and that present entries name tables (`Paged`), which the boot
loader guarantees; without it the walk reads `Junk`.  `EditsAreLocal` has the condition `NoWayBack`: if an
entry below leads back to the top table (a recursive mapping), an edit of one slot does
change the translations of others.

**String routines, disk.**  The loops of `string.h` need what is done so far
(`Copied(Up)` or `Copied(Down)`), and that the byte read next is not one already
written: for `memmove` upwards the source is above the destination and the byte above all
written ones, downwards it is below; for `memcpy` the source does not begin in the
`n - 1` bytes below the destination (`Defined`).  `DoneInv` says at which end a loop is
left.  For the drive, `SeenMeansBegun` and `StatusTold` connect what was read to what the
drive has done since.

**Console.**  `PrintedIsNumber` reads a text with a fold over its characters, and the
digits come in the opposite order.  `DigitsInv` needs neither the fold nor powers of the
radix: it says that there is a sequence of `Quotients`, each the one before divided by
the radix, and that the buffer and what was sent hold the remainders.  Only when the
routine returns does `AllSent` read them: the value of the first `i` digits is the
quotient that is left after the others.  `ValueIs` justifies that; the fold takes the
positions of a text from a set, the last one first, so it has the recursion of
`ValuesOf`, and by `SetInduction` the value of a text is that of its beginning, times
the radix, plus its last digit.  `OverrunOnlyBinary` needs a bound on what is left of the
number after `n` digits (`WidthInv`), with the powers of the three radixes up to twenty
digits as tables: they are compared number by number, because the prover computes
products of number literals in machine words.

**Words.**  The theorems are proved bit by bit: `ShlBits`, `ShrBits` and `FieldBits` say
where one bit of a shifted or masked word comes from, `SameBits` that words with the
same bits are equal.

### Only model-checked

* `InsertReturns`, `TrapReturns`, `FaultEnds`, `BootCompletes`, `IdentifyReturns`: liveness under
  fairness is out of the prover's reach.
* The violated runs are counterexamples, which TLC gives.

## 5. Findings

The violated runs each refute something the source says of itself:
`freelist_order`, `freelist_payload`, `queue_termination`, `queue_insert` and
`page_frames_number`.  `PROJECT.json` has the lines.

Seen on the way, where the code and its words part or a caller would be surprised,
without a run of their own:

* The body of `popLast` is that of `popFirst`: it takes the first process of the queue
  (`queuetable.cpp:16-25`), although `queuetable.hpp:32-42` declares it as one of the
  "xinu specified functions", with `lastPid` to find the last one.  No call of it does
  what `FifoQueues` promises (`PopLastEndsPromise`).
* `allocStack` takes stacks from below the last block and does not move its base
  (`memorylist.cpp:132-162`); `freelist_full` has its consequences.
* `FormLinearAddress` sets the upper 16 bits for the "canoncality requirement"
  (`memory.cpp:129`), which makes addresses of the lower half not canonical
  (`CanonicalInUpperHalf`).
* `formInterruptGate` sets neither selector nor flags, so its gates are never present
  (`GatesKeepOffset`); nobody loads them.
* `constructSegtor` loses the upper bytes of a base; only base 0 is passed to it.
* `address()` keeps the flags above bit 51, so a table behind an entry with
  execution disabled is looked for at no address and the walk faults, and the answer
  for such a page has the flag in bit 63 (`WalkFindsPage`, `ParseFindsPages` say exactly
  when and what).
* `contextSwitchISR` prints the flags of its own stub, in which interrupts are off, as
  those of the interrupted code (`idt.S:234`, `idt.cpp:34,45`; `ContextPrinted`).
* `isr_2` saves no register, so a non-maskable interrupt during an access to the PCI can
  make the scan miss or invent a device, or write to another port (`EnumeratesPresent`).
* No walk tests the bit of large pages: a page of 2 MiB or 1 GiB is itself read as a
  table, and the answer is what the page happens to hold (`pages.cpp:97`,
  `pstructs.hpp:196-207`).  `WalkFindsPage` and `ParseFindsPages` speak of pages of
  4 KiB.
* `VirtualToPageBase` does not test the present bit: an entry of zero leads to the
  unmapped first page, any other absent entry is followed (`EmptyEntryFaults`).
* The revision word is a local array, and the test of it is inverted; the two cancel
  out (`BootCompletes` breaks if either is put right).  The message itself goes to port
  0 (`MessagesReachSerial`).
* The null test in `printMemoryMap` comes after `GetBootPages` has dereferenced the
  response.
* `log_bin` overruns its 20 bytes from 2^20 on; a negative `int` prints nothing; the
  inserter of `std::string` does not expand line feeds.
* `CheckBootPages`' message says the opposite of its test.
* A drive that takes longer than two reads to raise BSY passes for one that has
  finished; a floating bus or a stuck drive hangs the caller.

## 6. Plan

Done: `FreeList` with `Allocator`, `QueueTable` with `FifoQueues`, `PageFrames`,
`InterruptStubs`, `Words`, `Boot`, `PageTables`, `StringRoutines`, `Console`, `AtaPio`,
`Routines`, and the proofs of section 4, which are all of the safety and
action properties of the passing runs.

Models to come: `MemoryList`, the routines of `FreeList` on pointers and headers in
memory with one step a link, as a refinement of `FreeList`; `ProcessTable` with
`QueueTable`, once `create` does something.

## 7. Not modelled

* The process table (`proc/proctable.*`): `create` takes a pid, ignores it and
  returns 0, and nothing marks an entry as used, so nothing ever changes.
* `ParsePDPT`, `ParsePD`, `ParsePT`, `ParsePageTableCommon` and `ParsePage`: each is
  `ParsePM4L` with another address.  `set_paging_table` has no caller.
* The probes of `memory/memory.cpp` and `corruptMemory`, which overwrite all memory on
  purpose, and `calculateAvailableMemory`, a sum nobody asks for.
* `cpu/features.*` but `getPML4`: registers read and printed.  `disablePaging`, which
  would clear `cr0` but for one bit, has no caller.
* `parseAddress` and the `idt` array of `cpu/interrupts.cpp`, which nothing fills.
* The processor's cache of translations: no edit is made to an entry in use.
* What text says, the picture in `misc/ascii.hpp`, the vendored `limine.h`, the build.
