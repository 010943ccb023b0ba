-------------------------------- MODULE Boot --------------------------------
(***************************************************************************)
(* The boot of the kernel: _start (main.cpp:43-110) statement by statement,*)
(* on a processor that a non-maskable interrupt can reach between any two  *)
(* of them, with a boot loader that may have left requests unanswered.     *)
(* The table of page frames is filled by the actions of PageFrames, one    *)
(* iteration at a time.                                                    *)
(*                                                                         *)
(* Between two statements nothing lives in a register (the Makefile builds *)
(* with -O0).  Within one something does, and isr_2 saves none of it       *)
(* (idt.S:26-30, as InterruptStubs has it).  An access to the PCI is       *)
(* modelled with its registers; of any other statement so interrupted      *)
(* nothing is known from then on.                                          *)
(***************************************************************************)
EXTENDS PageFrames, Words

CONSTANTS
    Responses,      \* sets of requests the boot loader may have answered
    Attached,       \* sets of <<bus, device>> that may answer on the PCI
    Buses, Devices, \* 256 and 32
    isr,            \* addresses of the stubs by vector
    TssAddress,     \* address of the task state segment
    Junk,           \* words an interrupt, or another port, may leave in eax
    MaxDisturbed    \* how often an interrupt may catch registers in use

Requests == {"framebuffer", "memmap", "hhdm"}
Gates == DOMAIN isr

ASSUME BootAssumption ==
    /\ Responses \subseteq SUBSET Requests
    /\ Buses \in 1..256 /\ Devices \in 1..32
    /\ Attached \subseteq SUBSET ((0..Buses - 1) \X (0..Devices - 1))
    /\ isr \in [Gates -> Word] /\ Gates = 0..33
    /\ TssAddress \in Word
    /\ Junk \subseteq Word /\ MaxDisturbed \in Nat

VARIABLES
    responses,  \* requests with a response that is not null
    devices,    \* the devices of the PCI
    pc,         \* index of the statement of _start
    machine,    \* "running", "halted", "faulting", "lost" or "reset"
    port,       \* m_port of kout's logger
    printed,    \* what was written, and to which port
    cpu,        \* gdtr, cs, tr and idtr
    idt_table,  \* the gates that are set
    scan,       \* the PCI: bus, dev and the devices found, the address register,
                \* the stage of an access and its registers edx and eax
    disturbed   \* history: the statements (and addresses) an interrupt clobbered

kernel == <<pc, machine, port, printed, cpu, idt_table, scan, disturbed>>
bootVars == <<vars, kernel, responses, devices>>

Number(word) == MapThenSumSet(LAMBDA b : 2 ^ b, word)

\* The parameters of FormConfigAddress have 8 bits.
BitsOf(n) == {b \in Low(8) : (n \div 2 ^ b) % 2 = 1}

-----------------------------------------------------------------------------
(* The statements of _start, and of the two routines that load a register. *)

\* Mistake: the loop over the constructors left out.
PrologueUnconstructed == <<"is_limine_supported", "initialiseFramebuffer">>

Prologue == <<"is_limine_supported", "constructors", "initialiseFramebuffer">>

initialiseGDT == <<"setupGdt", "load_gdt", "load_tsr", "reload_segments">>
initialiseIdt == <<"setIdtEntry", "load_idt">>

\* Mistake: interrupts before segments.
TablesIdtFirst == initialiseIdt \o initialiseGDT

Tables == initialiseGDT \o initialiseIdt

Statements ==
    Prologue \o Tables \o
    <<"GetBootPages", "printMemoryMap", "CheckBootPages", "InitialisePageFrames",
      "bootmessage", "PrintSizeofPagetorMap", "probePhysicalWidth", "ExtractPagingIndices",
      "ReadDeviceHeader", "EnumeratePCI", "pony", "haltAndCatchFire">>

\* The responses a statement dereferences without a test, or before it.
Needs(statement) ==
    CASE statement = "setupGdt" -> {"hhdm"}
      [] statement \in {"GetBootPages", "CheckBootPages", "InitialisePageFrames"} -> {"memmap"}
      [] statement = "printMemoryMap" -> {"memmap", "hhdm"}
      [] OTHER -> {}

Statement == Statements[pc]
At(statement) ==
    machine = "running" /\ Statement = statement /\ Needs(statement) \subseteq responses
Advance == pc' = pc + 1
Prints(text) == printed' = printed \union {<<text, port>>}

-----------------------------------------------------------------------------
(* Before the tables. *)

\* Mistake: the word where the boot loader looks for it, which it sets to 0.
RevisionWordShared == 0

\* LIMINE_BASE_REVISION(2) in a function: the boot loader does not see it.
RevisionWord == 2

\* The name of the function and the test in _start are both the wrong way round.
is_limine_supported ==
    /\ At("is_limine_supported")
    /\ IF RevisionWord = 0
       THEN machine' = "halted" /\ UNCHANGED <<pc, printed>>
       ELSE Advance /\ Prints(Statement) /\ UNCHANGED machine
    /\ UNCHANGED <<vars, port, cpu, idt_table, scan>>

\* kout is the only global with a constructor.
Constructors ==
    /\ At("constructors")
    /\ port' = 1016
    /\ Advance
    /\ UNCHANGED <<vars, machine, printed, cpu, idt_table, scan>>

initialiseFramebuffer ==
    /\ At("initialiseFramebuffer")
    /\ IF "framebuffer" \in responses
       THEN Advance /\ UNCHANGED machine
       ELSE machine' = "halted" /\ UNCHANGED pc
    /\ UNCHANGED <<vars, port, printed, cpu, idt_table, scan>>

-----------------------------------------------------------------------------
(* The segment table. *)

\* What setupGdt writes, by index.
KernelGdt ==
    [i \in 0..5 |->
        CASE i = 0 -> constructSegtor({}, {}, {}, {})
          [] i = 1 -> constructSegtor({}, Low(16), {1, 3, 4, 7}, Low(4) \union {5, 7})
          [] i = 2 -> constructSegtor({}, Low(16), {1, 4, 7}, Low(4) \union {6, 7})
          [] i = 3 -> constructSegtor({}, Low(16), {1, 3, 4, 5, 6, 7}, Low(4) \union {5, 7})
          [] i = 4 -> constructSegtor({}, Low(16), {1, 4, 5, 6, 7}, Low(4) \union {6, 7})
          [] i = 5 -> constructTsstor(TssAddress, {0, 2, 5, 6})]

\* The boot loader's: 64 bit code at 5, 16 bit code at 1.
LoaderGdt ==
    [i \in 0..5 |->
        CASE i = 5 -> constructSegtor({}, {}, {1, 3, 4, 7}, {5})
          [] i = 1 -> constructSegtor({}, Low(16), {1, 3, 4, 7}, {})
          [] OTHER -> constructSegtor({}, {}, {1, 4, 7}, {})]

Segment(selector) ==
    LET index == Number(Shr(selector, 3)) IN
    IF cpu.gdtr = "kernel" THEN KernelGdt[index] ELSE LoaderGdt[index]

Code64(d) == {3, 4, 7} \subseteq d.accessbyte /\ 5 \in d.flags_limit
AvailableTss(d) == d.accessbyte \intersect {0, 1, 2, 3, 4, 7} = {0, 3, 7}

setupGdt ==
    /\ At("setupGdt")
    /\ Prints(Statement)
    /\ Advance
    /\ UNCHANGED <<vars, machine, port, cpu, idt_table, scan>>

load_gdt ==
    /\ At("load_gdt")
    /\ cpu' = [cpu EXCEPT !.gdtr = "kernel"]
    /\ Advance
    /\ UNCHANGED <<vars, machine, port, printed, idt_table, scan>>

\* The processor refuses a selector of anything else.
load_tsr ==
    /\ At("load_tsr") /\ AvailableTss(Segment({3, 5}))
    /\ cpu' = [cpu EXCEPT !.tr = {3, 5}]
    /\ Advance
    /\ UNCHANGED <<vars, machine, port, printed, idt_table, scan>>

reload_segments ==
    /\ At("reload_segments") /\ Code64(Segment({3}))
    /\ cpu' = [cpu EXCEPT !.cs = {3}]
    /\ Advance
    /\ UNCHANGED <<vars, machine, port, printed, idt_table, scan>>

-----------------------------------------------------------------------------
(* The interrupt table. *)

\* One iteration for each vector.
setIdtEntry ==
    /\ At("setIdtEntry")
    /\ LET index == Cardinality(DOMAIN idt_table) IN
       /\ idt_table' = [v \in 0..index |-> IF v < index THEN idt_table[v]
                                           ELSE constructIdtGate(isr[index])]
       /\ pc' = IF index + 1 = Cardinality(Gates) THEN pc + 1 ELSE pc
    /\ Prints(Statement)
    /\ UNCHANGED <<vars, machine, port, cpu, scan>>

\* With enable_interrupts, behind which the interrupt controllers are still masked.
load_idt ==
    /\ At("load_idt")
    /\ cpu' = [cpu EXCEPT !.idtr = "kernel"]
    /\ Prints(Statement)
    /\ Advance
    /\ UNCHANGED <<vars, machine, port, idt_table, scan>>

-----------------------------------------------------------------------------
(* Interrupts and faults. *)

Ports == {"CONFIG_ADDR", "CONFIG_DATA", "other"}

\* The stages of an access to the PCI that keep a value in edx or eax.
Live == {"outl", "inl", "ids"}

\* The processor finds the stub of a vector, and can go back to where it was.
Handles(vector) ==
    /\ cpu.idtr = "kernel" /\ vector \in DOMAIN idt_table
    /\ GatePresent(idt_table[vector])
    /\ Code64(Segment(idt_table[vector].segment_selector))
    /\ GateOffset(idt_table[vector]) = isr[vector]
    /\ Code64(Segment(cpu.cs))

\* Nothing lives in a register where the interrupt comes.
SparesRegisters ==
    /\ machine # "running" \/ scan.stage \notin Live
    /\ UNCHANGED <<machine, scan, disturbed>>

\* generalIRQ returns with other values in the registers a caller has to save.
ClobbersRegisters ==
    /\ machine = "running" /\ Cardinality(disturbed) < MaxDisturbed
    /\ disturbed' = disturbed \union {<<Statement, scan.bus, scan.dev>>}
    /\ \/ machine' = "lost" /\ UNCHANGED scan
       \/ /\ scan.stage \in Live
          /\ \E p \in Ports, word \in Junk : scan' = [scan EXCEPT !.edx = p, !.eax = word]
          /\ UNCHANGED machine

\* A vector without a handler is a double fault, and that one a reset.
NonMaskable ==
    /\ machine \in {"running", "halted", "faulting"}
    /\ \/ Handles(2) /\ Prints("NMI") /\ (SparesRegisters \/ ClobbersRegisters)
       \/ ~Handles(2) /\ machine' = "reset" /\ UNCHANGED <<printed, scan, disturbed>>
    /\ UNCHANGED <<vars, pc, port, cpu, idt_table>>

\* A response that is null.
PageFault ==
    /\ machine = "running" /\ ~ Needs(Statement) \subseteq responses
    /\ machine' = IF cpu.idtr = "kernel" THEN "faulting" ELSE "reset"
    /\ UNCHANGED <<vars, pc, port, printed, cpu, idt_table, scan>>

\* isr_pf takes the error code for the address to return to and faults again, until
\* control or the stack is lost (FaultEnds of InterruptStubs).
FaultChain ==
    /\ machine = "faulting"
    /\ machine' \in {"lost", "reset"}
    /\ UNCHANGED <<vars, pc, port, printed, cpu, idt_table, scan>>

-----------------------------------------------------------------------------
(* The table of page frames. *)

CheckPages ==
    /\ At("CheckBootPages") /\ CheckBootPages
    /\ IF status' = "halted"
       THEN machine' = "halted" /\ Prints(Statement) /\ UNCHANGED pc
       ELSE Advance /\ UNCHANGED <<machine, printed>>
    /\ UNCHANGED <<port, cpu, idt_table, scan>>

FillFrames ==
    /\ At("InitialisePageFrames")
    /\ InitialisePageFrames \/ SkipEntry \/ EnterBlock \/ PopulateFrame \/ LeaveBlock
    /\ pc' = IF status' = "finished" THEN pc + 1 ELSE pc
    /\ UNCHANGED <<machine, port, printed, cpu, idt_table, scan>>

-----------------------------------------------------------------------------
(* The PCI, and what only prints. *)

\* What the host bridge does with a read of CONFIG_DATA: the register of function 0
\* that holds the ids, all ones where no device is.
Answers(configAddress) ==
    /\ 31 \in configAddress
    /\ <<Number(ConfigBus(configAddress)), Number(ConfigDevice(configAddress))>> \in devices

JustPrints ==
    {"GetBootPages", "printMemoryMap", "bootmessage", "PrintSizeofPagetorMap",
     "probePhysicalWidth", "ExtractPagingIndices", "pony"}

PrintStatement ==
    /\ \E statement \in JustPrints : At(statement)
    /\ Prints(Statement)
    /\ Advance
    /\ UNCHANGED <<vars, machine, port, cpu, idt_table, scan>>

AccessAddress ==
    IF Statement = "EnumeratePCI"
    THEN FormConfigAddress(TRUE, BitsOf(scan.bus), BitsOf(scan.dev), {}, {})
    ELSE FormConfigAddress(TRUE, {}, {}, {}, {})

AtAccess(stage) ==
    /\ scan.stage = stage
    /\ At("ReadDeviceHeader") \/ At("EnumeratePCI")

\* The arguments of outl, which it moves to edx and eax.
FormAddress ==
    /\ AtAccess("none")
    /\ scan' = [scan EXCEPT !.stage = "outl", !.edx = "CONFIG_ADDR", !.eax = AccessAddress]
    /\ UNCHANGED <<vars, pc, machine, port, printed, cpu, idt_table>>

\* A write to a port that happens to be in edx can do anything.
outl ==
    /\ AtAccess("outl")
    /\ scan' = [scan EXCEPT !.stage = "written",
                            !.address = IF scan.edx = "CONFIG_ADDR" THEN scan.eax ELSE @]
    /\ machine' \in IF scan.edx = "other" THEN {machine, "lost"} ELSE {machine}
    /\ UNCHANGED <<vars, pc, port, printed, cpu, idt_table>>

\* The argument of inl, which it moves to edx.
CallInl ==
    /\ AtAccess("written")
    /\ scan' = [scan EXCEPT !.stage = "inl", !.edx = "CONFIG_DATA"]
    /\ UNCHANGED <<vars, pc, machine, port, printed, cpu, idt_table>>

PortWords(p) ==
    CASE p = "CONFIG_ADDR" -> {scan.address}
      [] p = "CONFIG_DATA" -> {IF Answers(scan.address) THEN {} ELSE Low(32)}
      [] OTHER -> Junk

inl ==
    /\ AtAccess("inl")
    /\ \E word \in PortWords(scan.edx) : scan' = [scan EXCEPT !.stage = "ids", !.eax = word]
    /\ machine' \in IF scan.edx = "other" THEN {machine, "lost"} ELSE {machine}
    /\ UNCHANGED <<vars, pc, port, printed, cpu, idt_table>>

ReadDeviceHeader ==
    /\ At("ReadDeviceHeader") /\ scan.stage = "ids"
    /\ scan' = [scan EXCEPT !.stage = "none"]
    /\ Prints(Statement)
    /\ Advance
    /\ UNCHANGED <<vars, machine, port, cpu, idt_table>>

NoDevice == Low(16) \subseteq scan.eax

\* Mistake: a row of devices left after its first gap.
NextDeviceAfterGap ==
    IF scan.dev + 1 = Devices \/ NoDevice
    THEN [scan EXCEPT !.bus = @ + 1, !.dev = 0] ELSE [scan EXCEPT !.dev = @ + 1]

NextDevice ==
    IF scan.dev + 1 = Devices
    THEN [scan EXCEPT !.bus = @ + 1, !.dev = 0] ELSE [scan EXCEPT !.dev = @ + 1]

\* The rest of one iteration, with the test of the ids that were read.
EnumerateDevice ==
    /\ At("EnumeratePCI") /\ scan.stage = "ids"
    /\ scan' = [NextDevice EXCEPT !.stage = "none",
                    !.found = IF NoDevice THEN @ ELSE @ \union {<<scan.bus, scan.dev>>}]
    /\ pc' = IF NextDevice.bus = Buses THEN pc + 1 ELSE pc
    /\ UNCHANGED <<vars, machine, port, printed, cpu, idt_table>>

haltAndCatchFire ==
    /\ At("haltAndCatchFire")
    /\ machine' = "halted"
    /\ UNCHANGED <<vars, pc, port, printed, cpu, idt_table, scan>>

-----------------------------------------------------------------------------

BootInit ==
    /\ Init
    /\ responses \in Responses /\ devices \in Attached
    /\ pc = 1 /\ machine = "running"
    /\ port = 0 /\ printed = {}
    /\ cpu = [gdtr |-> "loader", cs |-> {3, 5}, tr |-> {}, idtr |-> "loader"]
    /\ idt_table = <<>>
    /\ scan = [bus |-> 0, dev |-> 0, found |-> {}, address |-> {},
               stage |-> "none", edx |-> "other", eax |-> {}]
    /\ disturbed = {}

Execute ==
    \/ is_limine_supported \/ Constructors \/ initialiseFramebuffer
    \/ setupGdt \/ load_gdt \/ load_tsr \/ reload_segments
    \/ setIdtEntry \/ load_idt \/ PageFault \/ FaultChain
    \/ CheckPages \/ FillFrames
    \/ PrintStatement \/ FormAddress \/ outl \/ CallInl \/ inl
    \/ ReadDeviceHeader \/ EnumerateDevice
    \/ haltAndCatchFire

BootNext ==
    /\ (Execute /\ UNCHANGED disturbed) \/ NonMaskable
    /\ UNCHANGED <<responses, devices>>

\* The processor goes on with the next instruction.
BootSpec == BootInit /\ [][BootNext]_bootVars /\ WF_bootVars(BootNext /\ Execute)

-----------------------------------------------------------------------------
(* Properties. *)

\* All that is printed goes to the serial port, except the message that the boot
\* loader's revision is not supported, which is written before the constructor of
\* kout has run (main.cpp:44-51, requests.hpp:17).
MessagesReachSerial ==
    \A p \in printed : p[2] = 1016 <=> p[1] # "is_limine_supported"

\* From load_idt on an interrupt gives control back: the gate leads to its stub, and
\* the segment table that the gate and cs name is already in place (main.cpp:54-55).
\* The exceptions are a null response, and an interrupt that caught registers in use.
ControlKept ==
    cpu.idtr = "kernel" /\ Needs(Statement) \subseteq responses /\ disturbed = {}
        => machine \in {"running", "halted"}

\* At the end EnumeratePCI has found the devices there are.  An interrupt between
\* the write of one port and the read of the other changes nothing; one that comes
\* while either is under way, and leaves its own values in edx and eax, spoils what
\* is found at that address and at no other (pci.hpp:37-54, ioports.S:8-26).
EnumeratesPresent ==
    Statement = "pony" =>
        \A d \in (0..Buses - 1) \X (0..Devices - 1) :
            <<"EnumeratePCI", d[1], d[2]>> \notin disturbed => (d \in scan.found <=> d \in devices)

\* A boot with every response and enough memory reaches its last halt, whatever the
\* boot loader says of the revision (main.cpp:43-110), unless an interrupt comes
\* before load_idt or catches registers in use (ControlKept: there is no other way
\* to be lost or reset).  Any number of other interrupts only delays it.
BootCompletes ==
    responses = Requests /\ ~TooManyTracked =>
        <>[](\/ machine \in {"lost", "reset"}
             \/ machine = "halted" /\ Statement = "haltAndCatchFire")
=============================================================================
