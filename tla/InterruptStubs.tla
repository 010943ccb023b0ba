--------------------------- MODULE InterruptStubs ---------------------------
(***************************************************************************)
(* The entry and exit of interrupts, cpu/idt.S: a kernel task is           *)
(* interrupted, a stub saves some registers on the stack the task was      *)
(* using, calls a C function, restores them and returns with iretq.        *)
(*                                                                         *)
(* One step is one instruction of a stub.  A call of a C function is one   *)
(* step too.  Non-maskable interrupts come between any two steps; the      *)
(* maskable ones cannot, since every gate is an interrupt gate and the     *)
(* boot loader leaves the interrupt controllers masked (so cli and cld     *)
(* change nothing here and are left out).                                  *)
(***************************************************************************)
EXTENDS Integers, Sequences, FiniteSets, SequencesExt

CONSTANTS
    Traps,        \* vectors of the int instructions the task executes
    Faults,       \* vectors of the exceptions its instructions raise
    StackWords,   \* size of the stack, in words of 8 bytes
    MaxNmi        \* non-maskable interrupts between two steps of the task

task == -1        \* the "vector" of the task's own code
Nmi == 2
PageFault == 14
GeneralProtection == 13

\* The exceptions for which the processor pushes an error code.
HasErrorCode(v) == v \in {8, 10, 11, 12, 13, 14, 17, 21}

ASSUME StubAssumption ==
    /\ Traps \subseteq 0..7 \union {33} /\ Faults \subseteq 0..21
    /\ \A v \in Traps : ~HasErrorCode(v)
    /\ StackWords \in Nat /\ MaxNmi \in Nat

\* r8 stands for r8 to r11 and r12 for r12 to r15.
Registers == {"rax", "rcx", "rdx", "rbx", "rbp", "rsi", "rdi", "r8", "r12", "rflags"}
CalleeSaved == {"rbx", "rbp", "r12"}

VARIABLES
    regs,         \* the general registers and the flags
    stack,        \* the words below the task's frame, the top at the end
    at,           \* the next instruction: a vector's stub, or the task
    status,       \* "running", or "lost": control left the kernel's code
    printed,      \* the context contextSwitchISR wrote to the console
    frames,       \* history: interrupts in progress, the state each found
    nmis          \* bound: non-maskable interrupts since the task's last step

vars == <<regs, stack, at, status, printed, frames, nmis>>

-----------------------------------------------------------------------------
(* Words. *)

Word == [kind : {"own", "masked", "junk", "address", "code", "selector", "error"},
         reg : Registers \union {""}, vector : task..33, pc : Nat]

Plain(kind) == [kind |-> kind, reg |-> "", vector |-> 0, pc |-> 0]
Junk == Plain("junk")                                \* any value
Own(r) == [Plain("own") EXCEPT !.reg = r]            \* what the task keeps in r
Masked(w) ==                                         \* flags, without the interrupt flag
    IF w.kind = "own" THEN [w EXCEPT !.kind = "masked"] ELSE w
Address(i) == [Plain("address") EXCEPT !.pc = i]     \* of the i-th word
Code(l) == [Plain("code") EXCEPT !.vector = l.vector, !.pc = l.pc]

-----------------------------------------------------------------------------
(* The stubs. *)

push(r) == <<"push", r>>
pop(r) == <<"pop", r>>
vectorToRdi == <<"vector", "rdi">>
rspToRdi == <<"rsp", "rdi">>
call(f) == <<"call", f>>
skip2 == <<"skip", "">>               \* add $16, %rsp
iretq == <<"iretq", "">>

isr_n == <<vectorToRdi, call("generalIRQ"), iretq>>

isr_13 == <<vectorToRdi, call("generalIRQ"), skip2, iretq>>

Saving ==
    <<push("rdi"), rspToRdi, push("rax"), push("rcx"), push("rdx"), push("rbx"),
      push("rbp"), push("rsi"), push("rflags")>>

\* Mistakes: two registers restored in the order they were saved, a pair a C
\* function keeps or a pair it does not; one pop forgotten; the flags too late.
RestoringBaseSwapped ==
    <<pop("rflags"), pop("rsi"), pop("rbx"), pop("rbp"), pop("rdx"),
      pop("rcx"), pop("rax"), pop("rdi")>>
RestoringDataSwapped ==
    <<pop("rflags"), pop("rsi"), pop("rbp"), pop("rbx"), pop("rcx"),
      pop("rdx"), pop("rax"), pop("rdi")>>
RestoringTooFew ==
    <<pop("rflags"), pop("rsi"), pop("rbp"), pop("rbx"), pop("rdx"), pop("rcx"), pop("rax")>>

Restoring ==
    <<pop("rflags"), pop("rsi"), pop("rbp"), pop("rbx"), pop("rdx"),
      pop("rcx"), pop("rax"), pop("rdi")>>

isr_ctxtsw == Saving \o <<call("contextSwitchISR")>> \o Restoring \o <<iretq>>

\* The error code is still on the stack when iretq is reached.
isr_pf == Saving \o <<call("PageFaultISR")>> \o Restoring \o <<iretq>>

\* The other outcome: the error code removed before iretq.
isrWithoutErrorCode(v) ==
    CASE v \in {5, 33} -> isr_ctxtsw
      [] v = PageFault -> Saving \o <<call("PageFaultISR")>> \o Restoring \o <<pop("r8"), iretq>>
      [] v = GeneralProtection -> isr_13
      [] OTHER -> isr_n

\* The table isr: vector 5 is isr_ctxtsw "for now".
isr(v) ==
    CASE v \in {5, 33} -> isr_ctxtsw
      [] v = PageFault -> isr_pf
      [] v = GeneralProtection -> isr_13
      [] OTHER -> isr_n

-----------------------------------------------------------------------------
(* The processor. *)

\* Into vector v, to return to ret.  The gates name no stack of their own, so
\* the frame goes on the current stack, aligned to two words.  The interrupt flag
\* is cleared when the flags are in the frame.
Deliver(v, ret) ==
    LET pad == IF Len(stack) % 2 = 0 THEN <<>> ELSE <<Junk>>
        frame == <<Plain("selector"), Address(Len(stack)), regs["rflags"],
                   Plain("selector"), Code(ret)>>
        error == IF HasErrorCode(v) THEN <<Plain("error")>> ELSE <<>>
        entered == stack \o pad \o frame \o error
        before == [vector |-> v, at |-> ret, regs |-> regs, depth |-> Len(stack),
                   disturbed |-> FALSE]
    IN  \/ /\ Len(entered) <= StackWords
           /\ stack' = entered
           /\ regs' = [regs EXCEPT !["rflags"] = Masked(@)]
           /\ at' = [vector |-> v, pc |-> 1]
           /\ frames' = Append([i \in DOMAIN frames |->
                                  [frames[i] EXCEPT !.disturbed = TRUE]], before)
           /\ UNCHANGED <<status, printed>>
        \/ /\ Len(entered) > StackWords
           /\ status' = "lost"
           /\ UNCHANGED <<regs, stack, at, printed, frames>>

\* iretq finds a return address and a code selector, as the processor left them.
GoodFrame ==
    /\ Len(stack) >= 5
    /\ stack[Len(stack)].kind = "code"
    /\ stack[Len(stack) - 1].kind = "selector"

Return ==
    LET top == Len(stack) IN
    /\ at' = [vector |-> stack[top].vector, pc |-> stack[top].pc]
    /\ regs' = [regs EXCEPT !["rflags"] = stack[top - 2]]
    /\ stack' = SubSeq(stack, 1, stack[top - 3].pc)
    /\ frames' = Front(frames)
    /\ UNCHANGED <<status, printed>>

\* With anything else on the stack the selector is refused, which raises a
\* general protection fault AT the iretq, or by chance is accepted.
Iretq ==
    \/ GoodFrame /\ Return
    \/ ~GoodFrame /\ Deliver(GeneralProtection, at)
    \/ ~GoodFrame /\ status' = "lost" /\ UNCHANGED <<regs, stack, at, printed, frames>>

-----------------------------------------------------------------------------
(* Instructions and C functions. *)

Op == isr(at.vector)[at.pc]
NextPc == at' = [at EXCEPT !.pc = @ + 1]

Push(r) ==
    IF Len(stack) < StackWords
    THEN /\ stack' = Append(stack, regs[r])
         /\ NextPc
         /\ UNCHANGED <<regs, status, printed, frames>>
    ELSE status' = "lost" /\ UNCHANGED <<regs, stack, at, printed, frames>>

Pop(r) ==
    /\ regs' = [regs EXCEPT ![r] = Last(stack)]
    /\ stack' = Front(stack)
    /\ NextPc
    /\ UNCHANGED <<status, printed, frames>>

Load(word) ==
    /\ regs' = [regs EXCEPT !["rdi"] = word]
    /\ NextPc
    /\ UNCHANGED <<stack, status, printed, frames>>

Skip ==
    /\ stack' = SubSeq(stack, 1, Len(stack) - 2)
    /\ NextPc
    /\ UNCHANGED <<regs, status, printed, frames>>

\* A C function may change every register that is not saved by the callee.
Returned ==
    /\ regs' = [r \in Registers |-> IF r \in CalleeSaved THEN regs[r] ELSE Junk]
    /\ NextPc
    /\ UNCHANGED <<stack, status, frames>>

generalIRQ == Returned /\ UNCHANGED printed
PageFaultISR == Returned /\ UNCHANGED printed

\* Mistake: rbp and rbx taken for each other.
FieldSwapped ==
    [rdi |-> 0, rax |-> 1, rcx |-> 2, rdx |-> 3, rbp |-> 4, rbx |-> 5, rsi |-> 6,
     rflags |-> 7]

\* Distance of each saved register from the address in rdi, in words.
Field ==
    [rdi |-> 0, rax |-> 1, rcx |-> 2, rdx |-> 3, rbx |-> 4, rbp |-> 5, rsi |-> 6,
     rflags |-> 7]

\* A pointer that is not one is read as junk, or faults.
contextSwitchISR ==
    IF regs["rdi"].kind = "address"
    THEN /\ printed' = [r \in DOMAIN Field |-> stack[regs["rdi"].pc + Field[r]]]
         /\ Returned
    ELSE \/ printed' = [r \in DOMAIN Field |-> Junk] /\ Returned
         \/ Deliver(PageFault, at)

CallC(f) ==
    \/ f = "generalIRQ" /\ generalIRQ
    \/ f = "PageFaultISR" /\ PageFaultISR
    \/ f = "contextSwitchISR" /\ contextSwitchISR

\* The stub's next instruction.
Instruction ==
    /\ status = "running" /\ at.vector # task
    /\ \/ Op[1] = "push" /\ Push(Op[2])
       \/ Op[1] = "pop" /\ Pop(Op[2])
       \/ Op[1] = "vector" /\ Load(Junk)
       \/ Op[1] = "rsp" /\ Load(Address(Len(stack)))
       \/ Op[1] = "skip" /\ Skip
       \/ Op[1] = "call" /\ CallC(Op[2])
       \/ Op[1] = "iretq" /\ Iretq
    /\ UNCHANGED nmis

-----------------------------------------------------------------------------
(* The task and the outside. *)

\* The task runs on after an int, with values of its own in every register.
TaskContinues ==
    /\ status = "running" /\ at = [vector |-> task, pc |-> 1]
    /\ at' = [at EXCEPT !.pc = 0]
    /\ regs' = [r \in Registers |-> Own(r)]
    /\ nmis' = 0
    /\ UNCHANGED <<stack, status, printed, frames>>

\* A trap returns behind the instruction, a fault to the instruction itself.
TaskTraps(v) ==
    /\ status = "running" /\ at = [vector |-> task, pc |-> 0]
    /\ Deliver(v, [at EXCEPT !.pc = 1])
    /\ UNCHANGED nmis

TaskFaults(v) ==
    /\ status = "running" /\ at = [vector |-> task, pc |-> 0]
    /\ Deliver(v, at)
    /\ UNCHANGED nmis

\* At any instruction, but one at a time.
NonMaskable ==
    /\ status = "running" /\ nmis < MaxNmi
    /\ \A i \in DOMAIN frames : frames[i].vector # Nmi
    /\ Deliver(Nmi, at)
    /\ nmis' = nmis + 1

Init ==
    /\ regs = [r \in Registers |-> Own(r)]
    /\ stack \in {<<>>, <<Junk>>}
    /\ at = [vector |-> task, pc |-> 0]
    /\ status = "running"
    /\ printed = [r \in DOMAIN Field |-> Junk]
    /\ frames = <<>>
    /\ nmis = 0

Next ==
    \/ Instruction
    \/ TaskContinues
    \/ \E v \in Traps : TaskTraps(v)
    \/ \E v \in Faults : TaskFaults(v)
    \/ NonMaskable

\* The processor executes the next instruction of a stub.
Spec == Init /\ [][Next]_vars /\ WF_vars(Instruction)

-----------------------------------------------------------------------------
(* Properties. *)

Returning == Len(frames') < Len(frames)

\* An iretq that succeeds resumes the code that was interrupted, with its stack,
\* its flags and the registers a C function keeps, however interrupts nest
\* (idt.S:14-274): what is on top of the stack is the frame of THIS interrupt.
ReturnsToInterrupted ==
    [][Returning =>
        LET f == Last(frames) IN
        /\ at' = f.at
        /\ Len(stack') = f.depth
        /\ \A r \in CalleeSaved \union {"rflags"} : regs'[r] = f.regs[r]]_vars

Saved == {"rax", "rcx", "rdx", "rbx", "rbp", "rsi", "rdi", "rflags"}

\* isr_ctxtsw gives the interrupted code back all the registers it saves
\* (idt.S:225-246), if nothing interrupted the stub itself.
ContextKept ==
    [][Returning =>
        LET f == Last(frames) IN
        f.vector \in {5, 33} /\ ~f.disturbed =>
            \A r \in Saved : regs'[r] = f.regs[r]]_vars

\* What contextSwitchISR prints (idt.cpp:22-47), if nothing interrupted the stub:
\* the general registers of the code that was interrupted, since its offsets agree
\* with the pushes of idt.S:225-234, but not its flags.  Those are in the frame of
\* the processor; the flags pushed at idt.S:234 and printed are the stub's own,
\* without the interrupt flag.
ContextPrinted ==
    [][printed' # printed =>
        LET f == Last(frames) IN
        ~f.disturbed =>
            /\ \A r \in DOMAIN Field \ {"rflags"} : printed'[r] = f.regs[r]
            /\ printed'["rflags"] = Masked(f.regs["rflags"])]_vars

\* An exception with an error code is never returned from: neither isr_pf
\* (idt.S:274) nor isr_13 (idt.S:97) leaves iretq the frame it needs.
FaultNeverResumes == [][Returning => ~HasErrorCode(Last(frames).vector)]_vars

Faulted == \E i \in DOMAIN frames : HasErrorCode(frames[i].vector)

\* What came is returned from, whatever non-maskable interrupts disturb the stub,
\* unless it was a fault with an error code or contextSwitchISR, misled by a
\* disturbed rdi, made a page fault (idt.S:226-236).
TrapReturns ==
    (frames # <<>>) ~>
        \/ frames = <<>>
        \/ HasErrorCode(frames[1].vector)
        \/ \E i \in DOMAIN frames : frames[i].vector = PageFault

\* A fault with an error code ends in a loss of control, not in a loop: each
\* fault of an iretq leaves more on the stack than isr_13 takes from it.
FaultEnds == Faulted ~> (status = "lost")
=============================================================================
