------------------------ MODULE InterruptStubsProofs ------------------------
(***************************************************************************)
(* Proofs about InterruptStubs, for every stack, every number of nested    *)
(* interrupts and every set of vectors: where the stub of each interrupt   *)
(* in progress is, what it has on the stack and what is in the registers.  *)
(***************************************************************************)
EXTENDS InterruptStubs, SequenceTheorems, TLAPS

-----------------------------------------------------------------------------
(* The inductive invariant. *)

\* The stubs that save registers, and the order in which they do.
Saves(v) == v \in {5, 14, 33}
SavedAt == <<"rdi", "rax", "rcx", "rdx", "rbx", "rbp", "rsi", "rflags">>

\* The words a stub has pushed more than popped before each of its instructions.
SavingPushed == <<0, 1, 1, 2, 3, 4, 5, 6, 7, 8, 8, 7, 6, 5, 4, 3, 2, 1, 0>>
Pushed(v, pc) ==
    IF Saves(v) THEN SavingPushed[pc]
    ELSE IF v = GeneralProtection /\ pc = 4 THEN -2 ELSE 0

StubLength(v) == IF Saves(v) THEN 19 ELSE IF v = GeneralProtection THEN 4 ELSE 3

\* Below an interrupt's words, and above those the processor pushed.
Under(f) == f.depth + (f.depth % 2)
Base(f) == Under(f) + (IF HasErrorCode(f.vector) THEN 6 ELSE 5)

\* What a stub finds in the k-th of the registers it saves, and whether it is still known
\* at its push: a register that a C function keeps, or any if nothing disturbs the stub.
Found(f, k) == IF k = 8 THEN Masked(f.regs["rflags"]) ELSE f.regs[SavedAt[k]]
Known(f, k) == SavedAt[k] \in CalleeSaved \/ ~f.disturbed

\* The words of an interrupt whose stub is at l and whose part of the stack s ends at e.
FrameKept(f, l, e, s) ==
    /\ l.vector = f.vector /\ l.pc \in 1..StubLength(f.vector)
    /\ e = Base(f) + Pushed(f.vector, l.pc)
    /\ s[Under(f) + 2] = Address(f.depth)
    /\ s[Under(f) + 3] = f.regs["rflags"]
    /\ s[Under(f) + 4] = Plain("selector")
    /\ Under(f) + 5 <= e => s[Under(f) + 5] = Code(f.at)
    /\ HasErrorCode(f.vector) /\ Under(f) + 6 <= e => s[Under(f) + 6] = Plain("error")
    /\ \A k \in 1..8 : Base(f) + k <= e /\ Known(f, k) => s[Base(f) + k] = Found(f, k)

\* Where the stub of the i-th interrupt is, how far its part of the stack goes, and
\* what it left in the registers: what the next interrupt found, or the current state.
Spot(fs, a, i) == IF i = Len(fs) THEN a ELSE fs[i + 1].at
Extent(fs, s, i) == IF i = Len(fs) THEN Len(s) ELSE fs[i + 1].depth
Left(fs, rg, i) == IF i = Len(fs) THEN rg ELSE fs[i + 1].regs

Places == [vector : task..33, pc : Nat]
Frames == [vector : 0..33, at : Places, regs : [Registers -> Word], depth : Nat,
           disturbed : BOOLEAN]

StubTypes ==
    /\ regs \in [Registers -> Word]
    /\ stack \in Seq(Word)
    /\ at \in Places
    /\ frames \in Seq(Frames)

\* The interrupts lie on the stack in the order they came, the first one on the task.
Nested ==
    /\ at.vector = task <=> frames = <<>>
    /\ frames # <<>> => frames[1].at.vector = task
    /\ \A i \in DOMAIN frames : frames[i].depth <= Len(stack)
    /\ \A i, j \in DOMAIN frames : i < j => frames[i].depth <= frames[j].depth
    /\ \A i \in DOMAIN frames : i < Len(frames) => frames[i].disturbed

\* Every stub has its words on the stack, and has kept what a C function keeps.
StubsKept ==
    \A i \in DOMAIN frames :
        /\ FrameKept(frames[i], Spot(frames, at, i), Extent(frames, stack, i), stack)
        /\ \A r \in CalleeSaved : Left(frames, regs, i)[r] = frames[i].regs[r]

\* The registers of a stub that nothing has disturbed: as they were, but for rdi, until
\* the call, and behind it those that were restored.
Restored(f, rg, pc) ==
    /\ pc <= 10 => \A k \in 2..8 : rg[SavedAt[k]] = Found(f, k)
    /\ pc <= 2 => rg["rdi"] = f.regs["rdi"]
    /\ pc \in 3..10 => rg["rdi"] = Address(Base(f) + 1)
    /\ pc > 10 => \A k \in 1..7 : k > SavingPushed[pc] => rg[SavedAt[k]] = f.regs[SavedAt[k]]

TopRestored ==
    frames # <<>> =>
        LET f == frames[Len(frames)] IN
        Saves(f.vector) /\ ~f.disturbed => Restored(f, regs, at.pc)

StubInv == StubTypes /\ Nested /\ StubsKept /\ TopRestored

-----------------------------------------------------------------------------
(* The text of the stubs. *)

LEMMA SavingText ==
    ASSUME NEW c
    PROVE  LET text == Saving \o <<c>> \o Restoring \o <<iretq>> IN
           /\ text[1] = push("rdi") /\ text[2] = rspToRdi /\ text[10] = c /\ text[19] = iretq
           /\ \A pc \in 3..9 : text[pc] = push(SavedAt[pc - 1])
           /\ \A pc \in 11..18 : text[pc] = pop(SavedAt[19 - pc])
<1> DEFINE S == {Saving[i] : i \in 1..9} \union {c, iretq} \union {Restoring[i] : i \in 1..8}
           t1 == Saving \o <<c>>
           t2 == t1 \o Restoring
           text == t2 \o <<iretq>>
<1>1. /\ Saving \in Seq(S) /\ Len(Saving) = 9
      /\ Restoring \in Seq(S) /\ Len(Restoring) = 8
      /\ <<c>> \in Seq(S) /\ Len(<<c>>) = 1 /\ <<c>>[1] = c
      /\ <<iretq>> \in Seq(S) /\ Len(<<iretq>>) = 1 /\ <<iretq>>[1] = iretq
  BY DEF Saving, Restoring
<1> HIDE DEF S
<1>2. /\ t1 \in Seq(S) /\ Len(t1) = 10 /\ t1[10] = c
      /\ \A i \in 1..9 : t1[i] = Saving[i]
  <2>1. /\ t1 \in Seq(S) /\ Len(t1) = Len(Saving) + Len(<<c>>)
        /\ \A i \in 1..Len(Saving) + Len(<<c>>) :
             t1[i] = IF i <= Len(Saving) THEN Saving[i] ELSE <<c>>[i - Len(Saving)]
    BY <1>1, ConcatProperties, Zenon
  <2> HIDE DEF t1
  <2> QED
    BY <1>1, <2>1
<1> HIDE DEF t1
<1>3. /\ t2 \in Seq(S) /\ Len(t2) = 18
      /\ \A i \in 1..10 : t2[i] = t1[i]
      /\ \A i \in 11..18 : t2[i] = Restoring[i - 10]
  <2>1. /\ t2 \in Seq(S) /\ Len(t2) = Len(t1) + Len(Restoring)
        /\ \A i \in 1..Len(t1) + Len(Restoring) :
             t2[i] = IF i <= Len(t1) THEN t1[i] ELSE Restoring[i - Len(t1)]
    BY <1>1, <1>2, ConcatProperties, ZenonT(60)
  <2> HIDE DEF t2
  <2> QED
    BY <1>1, <1>2, <2>1
<1> HIDE DEF t2
<1>4. /\ \A i \in 1..18 : text[i] = t2[i]
      /\ text[19] = iretq
  <2>1. \A i \in 1..Len(t2) + Len(<<iretq>>) :
             text[i] = IF i <= Len(t2) THEN t2[i] ELSE <<iretq>>[i - Len(t2)]
    BY <1>1, <1>3, ConcatProperties, ZenonT(60)
  <2> HIDE DEF text
  <2> QED
    BY <1>1, <1>3, <2>1, SMTT(60)
<1>5. /\ Saving[1] = push("rdi") /\ Saving[2] = rspToRdi
      /\ \A pc \in 3..9 : Saving[pc] = push(SavedAt[pc - 1])
  <2>1. \A pc \in 3..9 : pc = 3 \/ pc = 4 \/ pc = 5 \/ pc = 6 \/ pc = 7 \/ pc = 8 \/ pc = 9
    OBVIOUS
  <2> QED
    BY <2>1 DEF Saving, SavedAt
<1>6. \A i \in 1..8 : Restoring[i] = pop(SavedAt[9 - i])
  <2>1. \A i \in 1..8 : i = 1 \/ i = 2 \/ i = 3 \/ i = 4 \/ i = 5 \/ i = 6 \/ i = 7 \/ i = 8
    OBVIOUS
  <2> QED
    BY <2>1 DEF Restoring, SavedAt
<1>7. \A pc \in 11..18 : pc - 10 \in 1..8 /\ 9 - (pc - 10) = 19 - pc
  OBVIOUS
<1> HIDE DEF text
<1>8. \A pc \in 11..18 : text[pc] = pop(SavedAt[19 - pc])
  BY <1>3, <1>4, <1>6, <1>7, SMTT(60)
<1>9. /\ text[1] = push("rdi") /\ text[2] = rspToRdi /\ text[10] = c
      /\ \A pc \in 3..9 : text[pc] = push(SavedAt[pc - 1])
  BY <1>2, <1>3, <1>4, <1>5, SMTT(60)
<1> QED
  BY <1>4, <1>8, <1>9 DEF text, t2, t1

\* Which instruction is where.
LEMMA StubText ==
    ASSUME NEW v \in 0..33, NEW pc \in 1..StubLength(v)
    PROVE  LET op == isr(v)[pc] IN
           \/ Saves(v) /\ pc = 1 /\ op = push("rdi")
           \/ Saves(v) /\ pc = 2 /\ op = rspToRdi
           \/ Saves(v) /\ pc \in 3..9 /\ op = push(SavedAt[pc - 1])
           \/ v = PageFault /\ pc = 10 /\ op = call("PageFaultISR")
           \/ Saves(v) /\ v # PageFault /\ pc = 10 /\ op = call("contextSwitchISR")
           \/ Saves(v) /\ pc \in 11..18 /\ op = pop(SavedAt[19 - pc])
           \/ ~Saves(v) /\ pc = 1 /\ op = vectorToRdi
           \/ ~Saves(v) /\ pc = 2 /\ op = call("generalIRQ")
           \/ v = GeneralProtection /\ pc = 3 /\ op = skip2
           \/ pc = StubLength(v) /\ op = iretq
<1>1. CASE Saves(v)
  <2>1. pc \in 1..19 /\ StubLength(v) = 19
    BY <1>1 DEF StubLength
  <2>2. /\ v = PageFault => isr(v) = isr_pf
        /\ v # PageFault => isr(v) = isr_ctxtsw
    BY <1>1 DEF isr, Saves, PageFault, GeneralProtection
  <2>3. pc = 1 \/ pc = 2 \/ pc \in 3..9 \/ pc = 10 \/ pc \in 11..18 \/ pc = 19
    BY <2>1
  <2> DEFINE text(f) == Saving \o <<call(f)>> \o Restoring \o <<iretq>>
  <2>4. \A f : /\ text(f)[1] = push("rdi") /\ text(f)[2] = rspToRdi /\ text(f)[10] = call(f)
               /\ text(f)[19] = iretq
               /\ \A i \in 3..9 : text(f)[i] = push(SavedAt[i - 1])
               /\ \A i \in 11..18 : text(f)[i] = pop(SavedAt[19 - i])
    BY SavingText
  <2> HIDE DEF text
  <2>5. CASE v = PageFault
    <3>1. isr(v) = text("PageFaultISR")
      BY <2>2, <2>5 DEF isr_pf, text
    <3> QED
      BY <1>1, <2>1, <2>3, <2>4, <2>5, <3>1
  <2>6. CASE v # PageFault
    <3>1. isr(v) = text("contextSwitchISR")
      BY <2>2, <2>6 DEF isr_ctxtsw, text
    <3> QED
      BY <1>1, <2>1, <2>3, <2>4, <2>6, <3>1
  <2> QED
    BY <2>5, <2>6
<1>2. CASE v = GeneralProtection
  <2>1. ~Saves(v) /\ pc \in 1..4 /\ isr(v) = isr_13 /\ StubLength(v) = 4
    BY <1>2 DEF GeneralProtection, PageFault, Saves, StubLength, isr
  <2> QED
    BY <1>2, <2>1 DEF isr_13
<1>3. CASE ~Saves(v) /\ v # GeneralProtection
  <2>1. pc \in 1..3 /\ isr(v) = isr_n /\ StubLength(v) = 3
    BY <1>3 DEF GeneralProtection, PageFault, Saves, StubLength, isr
  <2> QED
    BY <1>3, <2>1 DEF isr_n
<1> QED
  BY <1>1, <1>2, <1>3

\* What the stubs have on the stack.
LEMMA PushedSpelled ==
    /\ SavingPushed[1] = 0 /\ SavingPushed[2] = 1 /\ SavingPushed[10] = 8 /\ SavingPushed[19] = 0
    /\ \A pc \in 3..9 : SavingPushed[pc] = pc - 2
    /\ \A pc \in 11..18 : SavingPushed[pc] = 19 - pc
    /\ \A pc \in 1..19 : SavingPushed[pc] \in 0..8
<1>1. /\ \A pc \in 3..9 : pc = 3 \/ pc = 4 \/ pc = 5 \/ pc = 6 \/ pc = 7 \/ pc = 8 \/ pc = 9
      /\ \A pc \in 11..18 : pc = 11 \/ pc = 12 \/ pc = 13 \/ pc = 14 \/ pc = 15 \/ pc = 16
                            \/ pc = 17 \/ pc = 18
      /\ \A pc \in 1..19 : pc = 1 \/ pc = 2 \/ pc \in 3..9 \/ pc = 10 \/ pc \in 11..18 \/ pc = 19
  OBVIOUS
<1>2. /\ SavingPushed[1] = 0 /\ SavingPushed[2] = 1 /\ SavingPushed[10] = 8 /\ SavingPushed[19] = 0
  BY DEF SavingPushed
<1>3. \A pc \in 3..9 : SavingPushed[pc] = pc - 2
  BY <1>1 DEF SavingPushed
<1>4. \A pc \in 11..18 : SavingPushed[pc] = 19 - pc
  BY <1>1 DEF SavingPushed
<1> QED
  BY <1>1, <1>2, <1>3, <1>4

LEMMA SavedSpelled ==
    /\ \A k \in 1..8 : SavedAt[k] \in Registers
    /\ SavedAt[1] = "rdi" /\ SavedAt[8] = "rflags"
    /\ \A k \in 2..8 : SavedAt[k] # "rdi"
    /\ \A k \in 1..7 : SavedAt[k] # "rflags"
    /\ \A j, k \in 1..8 : j # k => SavedAt[j] # SavedAt[k]
<1>1. \A k \in 1..8 : k = 1 \/ k = 2 \/ k = 3 \/ k = 4 \/ k = 5 \/ k = 6 \/ k = 7 \/ k = 8
  OBVIOUS
<1>2. /\ \A k \in 1..8 : SavedAt[k] \in Registers
      /\ SavedAt[1] = "rdi" /\ SavedAt[8] = "rflags"
      /\ \A k \in 2..8 : SavedAt[k] # "rdi"
      /\ \A k \in 1..7 : SavedAt[k] # "rflags"
  BY <1>1 DEF SavedAt, Registers
<1>3. ASSUME NEW j \in 1..8, NEW k \in 1..8, j # k PROVE SavedAt[j] # SavedAt[k]
  BY <1>1, <1>3 DEF SavedAt
<1> QED
  BY <1>2, <1>3

-----------------------------------------------------------------------------
(* The parts of the stack. *)

LEMMA StubVectors ==
    /\ PageFault = 14 /\ GeneralProtection = 13 /\ Nmi = 2 /\ task = -1
    /\ \A v \in 0..33 : Saves(v) => v # 13 /\ StubLength(v) = 19
    /\ \A v \in 0..33 : ~Saves(v) => StubLength(v) = IF v = 13 THEN 4 ELSE 3
    /\ HasErrorCode(13) /\ HasErrorCode(14)
BY DEF PageFault, GeneralProtection, Nmi, task, Saves, StubLength, HasErrorCode

\* How long the stubs are, and how much they have pushed.
LEMMA StubShape ==
    ASSUME NEW v \in 0..33
    PROVE  /\ Saves(v) =>
                /\ StubLength(v) = 19
                /\ Pushed(v, 1) = 0 /\ Pushed(v, 2) = 1 /\ Pushed(v, 10) = 8 /\ Pushed(v, 19) = 0
                /\ \A pc \in 3..9 : Pushed(v, pc) = pc - 2
                /\ \A pc \in 11..18 : Pushed(v, pc) = 19 - pc
           /\ ~Saves(v) =>
                /\ StubLength(v) \in 3..4 /\ (StubLength(v) = 4 <=> v = GeneralProtection)
                /\ Pushed(v, 1) = 0 /\ Pushed(v, 2) = 0 /\ Pushed(v, 3) = 0
                /\ v = GeneralProtection => Pushed(v, 4) = -2
<1>1. CASE Saves(v)
  BY <1>1, PushedSpelled DEF StubLength, Pushed
<1>2. CASE ~Saves(v)
  BY <1>2 DEF StubLength, Pushed
<1> QED
  BY <1>1, <1>2

\* The part of an interrupt begins with the frame, of which a stub takes no more than
\* two words.
LEMMA PartOfFrame ==
    ASSUME NEW f \in Frames, NEW pc \in 1..StubLength(f.vector)
    PROVE  /\ Under(f) \in Nat /\ f.depth <= Under(f) /\ Base(f) \in Nat
           /\ Base(f) = Under(f) + (IF HasErrorCode(f.vector) THEN 6 ELSE 5)
           /\ Pushed(f.vector, pc) \in -2..8
           /\ Under(f) + 4 <= Base(f) + Pushed(f.vector, pc)
           /\ ~Saves(f.vector) => Base(f) + Pushed(f.vector, pc) <= Base(f)
           /\ Saves(f.vector) => Base(f) <= Base(f) + Pushed(f.vector, pc)
<1>1. f.depth \in Nat /\ f.vector \in 0..33 /\ f.depth % 2 \in 0..1
  BY DEF Frames
<1>2. /\ Under(f) \in Nat /\ f.depth <= Under(f)
  BY <1>1 DEF Under
<1>3. Base(f) = Under(f) + (IF HasErrorCode(f.vector) THEN 6 ELSE 5)
  BY DEF Base
<1>4. CASE Saves(f.vector)
  <2>1. pc \in 1..19 /\ Pushed(f.vector, pc) = SavingPushed[pc]
    BY <1>1, <1>4, StubVectors DEF Pushed
  <2>2. Pushed(f.vector, pc) \in 0..8
    BY <2>1, PushedSpelled
  <2> QED
    BY <1>2, <1>3, <1>4, <2>2
<1>5. CASE ~Saves(f.vector)
  <2>1. /\ Pushed(f.vector, pc) \in {0, -2}
        /\ Pushed(f.vector, pc) = -2 => HasErrorCode(f.vector)
    BY <1>5, StubVectors DEF Pushed
  <2> QED
    BY <1>2, <1>3, <1>5, <2>1
<1> QED
  BY <1>4, <1>5

\* An interrupt keeps its words when they stay on the stack, disturbed or not.
LEMMA FrameStays ==
    ASSUME NEW f \in Frames, NEW g \in Frames, NEW l \in Places, NEW e, NEW s, NEW t,
           g.vector = f.vector, g.at = f.at, g.regs = f.regs, g.depth = f.depth,
           f.disturbed => g.disturbed,
           FrameKept(f, l, e, s), \A j \in 1..e : t[j] = s[j]
    PROVE  FrameKept(g, l, e, t)
<1>1. /\ l.vector = f.vector /\ l.pc \in 1..StubLength(f.vector)
      /\ e = Base(f) + Pushed(f.vector, l.pc)
  BY DEF FrameKept
<1>2. Under(g) = Under(f) /\ Base(g) = Base(f) /\ \A k : Known(g, k) => Known(f, k)
  BY DEF Under, Base, Known
<1>5. \A k : Found(g, k) = Found(f, k)
  BY Zenon DEF Found
<1>3. /\ Under(f) \in Nat /\ Base(f) \in Nat /\ Under(f) + 4 <= e /\ e \in Int
      /\ Pushed(f.vector, l.pc) \in -2..8
  BY <1>1, PartOfFrame
<1>4. /\ Under(f) + 2 \in 1..e /\ Under(f) + 3 \in 1..e /\ Under(f) + 4 \in 1..e
      /\ Under(f) + 5 <= e => Under(f) + 5 \in 1..e
      /\ Under(f) + 6 <= e => Under(f) + 6 \in 1..e
      /\ \A k \in 1..8 : Base(f) + k <= e => Base(f) + k \in 1..e
  BY <1>3
<1> QED
  BY <1>1, <1>2, <1>4, <1>5 DEF FrameKept

\* A step of the stub on top, which leaves everything below its own part alone.
LEMMA TopStep ==
    ASSUME StubInv, frames # <<>>, UNCHANGED frames,
           regs' \in [Registers -> Word], stack' \in Seq(Word), at' \in Places,
           NEW f, f = frames[Len(frames)],
           f.depth <= Len(stack'), \A j \in 1..f.depth : stack'[j] = stack[j],
           FrameKept(f, at', Len(stack'), stack'),
           \A r \in CalleeSaved : regs'[r] = f.regs[r],
           Saves(f.vector) /\ ~f.disturbed => Restored(f, regs', at'.pc)
    PROVE  StubInv'
<1> DEFINE n == Len(frames)
<1>1. /\ n \in Nat \ {0} /\ DOMAIN frames = 1..n /\ frames \in Seq(Frames) /\ f \in Frames
      /\ \A i \in 1..n : frames[i] \in Frames
  BY DEF StubInv, StubTypes
<1> HIDE DEF n
<1>2. frames' = frames /\ Len(frames') = n /\ f = frames[n] /\ n \in 1..n
  BY <1>1 DEF n
<1>3. StubTypes'
  BY <1>1 DEF StubTypes
<1>4. \A i \in 1..n : frames[i].depth <= f.depth /\ frames[i].depth \in Nat
  <2>1. \A i \in 1..n : frames[i].depth \in Nat
    BY <1>1 DEF Frames
  <2>2. \A i, j \in 1..n : i < j => frames[i].depth <= frames[j].depth
    BY <1>1 DEF StubInv, Nested
  <2>3. \A i \in 1..n : i < n \/ i = n
    BY <1>1
  <2> QED
    BY <1>2, <2>1, <2>2, <2>3
<1>5. Nested'
  <2>1. at'.vector # task
    <3>1. at'.vector = f.vector /\ f.vector \in 0..33
      BY <1>1 DEF FrameKept, Frames
    <3> QED
      BY ONLY <3>1 DEF task
  <2>2. f.depth \in Nat /\ Len(stack') \in Nat
    BY <1>1 DEF Frames
  <2>3. \A i \in 1..n : frames[i].depth <= Len(stack')
    BY <1>4, <2>2
  <2> QED
    BY <1>1, <1>2, <2>1, <2>3 DEF StubInv, Nested
<1>6. ASSUME NEW i \in 1..n
      PROVE  /\ FrameKept(frames[i], Spot(frames, at', i), Extent(frames, stack', i), stack')
             /\ \A r \in CalleeSaved : Left(frames, regs', i)[r] = frames[i].regs[r]
  <2>1. CASE i = n
    BY <1>2, <2>1 DEF Spot, Extent, Left, n
  <2>2. CASE i # n
    <3>0. n = Len(frames) /\ n \in Nat
      BY <1>1 DEF n
    <3>1. i + 1 \in 1..n /\ i # Len(frames)
      BY <2>2, <3>0
    <3>2. /\ Spot(frames, at', i) = frames[i + 1].at
          /\ Extent(frames, stack', i) = frames[i + 1].depth
          /\ Left(frames, regs', i) = frames[i + 1].regs
          /\ Spot(frames, at, i) = frames[i + 1].at
          /\ Extent(frames, stack, i) = frames[i + 1].depth
          /\ Left(frames, regs, i) = frames[i + 1].regs
      BY <3>1 DEF Spot, Extent, Left
    <3>3. /\ FrameKept(frames[i], frames[i + 1].at, frames[i + 1].depth, stack)
          /\ \A r \in CalleeSaved : frames[i + 1].regs[r] = frames[i].regs[r]
      BY <1>1, <3>2 DEF StubInv, StubsKept
    <3>4. frames[i + 1].at \in Places /\ frames[i] \in Frames
      BY <1>1, <3>1 DEF Frames
    <3>5. \A j \in 1..frames[i + 1].depth : stack'[j] = stack[j]
      <4>1. frames[i + 1].depth <= f.depth /\ frames[i + 1].depth \in Nat /\ f.depth \in Nat
        BY <1>1, <1>4, <3>1 DEF Frames
      <4> QED
        BY <4>1
    <3>6. FrameKept(frames[i], frames[i + 1].at, frames[i + 1].depth, stack')
      BY <3>3, <3>4, <3>5, FrameStays
    <3> QED
      BY <3>2, <3>3, <3>6
  <2> QED
    BY <2>1, <2>2
<1>7. StubsKept'
  BY <1>1, <1>2, <1>6 DEF StubsKept
<1>8. TopRestored'
  BY <1>2 DEF TopRestored
<1> QED
  BY <1>3, <1>5, <1>7, <1>8 DEF StubInv

-----------------------------------------------------------------------------
(* The instructions of the stub on top. *)

\* What the invariant says of the stub that runs.
TopFrame(f) ==
    /\ frames # <<>> /\ f = frames[Len(frames)] /\ f \in Frames
    /\ f.vector \in 0..33 /\ at \in Places /\ at.vector = f.vector
    /\ at.pc \in 1..StubLength(f.vector)
    /\ stack \in Seq(Word) /\ regs \in [Registers -> Word]
    /\ f.depth \in Nat /\ f.depth <= Base(f) - 2 /\ Base(f) \in Nat
    /\ Len(stack) = Base(f) + Pushed(f.vector, at.pc)
    /\ FrameKept(f, at, Len(stack), stack)
    /\ \A r \in CalleeSaved : regs[r] = f.regs[r]
    /\ Saves(f.vector) /\ ~f.disturbed => Restored(f, regs, at.pc)

LEMMA TopKept ==
    ASSUME StubInv, at.vector # task
    PROVE  TopFrame(frames[Len(frames)])
<1> DEFINE n == Len(frames)
           f == frames[n]
<1>1. frames # <<>> /\ frames \in Seq(Frames) /\ stack \in Seq(Word)
      /\ at \in Places /\ regs \in [Registers -> Word]
  BY DEF StubInv, Nested, StubTypes
<1>2. n \in DOMAIN frames /\ f \in Frames
  BY <1>1
<1>3. /\ FrameKept(f, Spot(frames, at, n), Extent(frames, stack, n), stack)
      /\ \A r \in CalleeSaved : Left(frames, regs, n)[r] = f.regs[r]
  BY <1>2, Zenon DEF StubInv, StubsKept
<1>4. Spot(frames, at, n) = at /\ Extent(frames, stack, n) = Len(stack) /\ Left(frames, regs, n) = regs
  BY Zenon DEF Spot, Extent, Left
<1>5. /\ FrameKept(f, at, Len(stack), stack)
      /\ \A r \in CalleeSaved : regs[r] = f.regs[r]
  BY <1>3, <1>4
<1>6. /\ at.vector = f.vector /\ at.pc \in 1..StubLength(f.vector)
      /\ Len(stack) = Base(f) + Pushed(f.vector, at.pc)
  BY <1>5, Zenon DEF FrameKept
<1>7. f.vector \in 0..33 /\ f.depth \in Nat
  BY <1>2 DEF Frames
<1>8. Base(f) \in Nat /\ f.depth <= Base(f) - 2
  <2>1. Under(f) \in Nat /\ f.depth <= Under(f) /\ Base(f) \in Nat
        /\ Base(f) = Under(f) + (IF HasErrorCode(f.vector) THEN 6 ELSE 5)
    BY <1>2, <1>6, PartOfFrame
  <2> QED
    BY <1>7, <2>1
<1>9. Saves(f.vector) /\ ~f.disturbed => Restored(f, regs, at.pc)
  BY <1>1, Zenon DEF StubInv, TopRestored
<1> QED
  BY <1>1, <1>2, <1>5, <1>6, <1>7, <1>8, <1>9 DEF TopFrame

\* The next instruction of the same stub.
LEMMA NextPlace ==
    ASSUME NEW f, TopFrame(f), NextPc, at.pc + 1 <= StubLength(f.vector)
    PROVE  /\ at' \in Places /\ at'.vector = f.vector /\ at'.pc = at.pc + 1
           /\ at'.pc \in 1..StubLength(f.vector)
<1>1. at \in Places /\ at.pc \in Nat /\ at.vector = f.vector /\ f.vector \in 0..33
  BY DEF TopFrame, Places
<1>2. StubLength(f.vector) \in Nat
  BY DEF StubLength
<1>3. at' = [at EXCEPT !.pc = at.pc + 1]
  BY DEF NextPc
<1> QED
  BY <1>1, <1>2, <1>3 DEF Places

\* A push: the k-th of the registers a stub saves.
LEMMA PushKeeps ==
    ASSUME StubInv, at.vector # task, NEW k \in 1..8,
           Saves(at.vector), at.pc = IF k = 1 THEN 1 ELSE k + 1, Push(SavedAt[k])
    PROVE  StubInv'
<1> DEFINE f == frames[Len(frames)]
           r == SavedAt[k]
<1>0. TopFrame(f)
  BY TopKept
<1> HIDE DEF f
<1>1. CASE UNCHANGED <<regs, stack, at, frames>>
  BY <1>1, Zenon DEF StubInv, StubTypes, Nested, StubsKept, TopRestored, Spot, Extent, Left
<1>2. CASE ~ UNCHANGED <<regs, stack, at, frames>>
  <2>1. stack' = Append(stack, regs[r]) /\ NextPc /\ regs' = regs /\ frames' = frames
    BY <1>2, Zenon DEF Push
  <2>2. /\ Saves(f.vector) /\ StubLength(f.vector) = 19 /\ at.pc \in 1..9
        /\ SavingPushed[at.pc] = k - 1 /\ SavingPushed[at.pc + 1] = k
    <3>1. Saves(f.vector) /\ f.vector \in 0..33
      BY <1>0 DEF TopFrame
    <3>2. CASE k = 1
      BY <3>1, <3>2, PushedSpelled, StubVectors
    <3>3. CASE k = 8
      BY <3>1, <3>3, PushedSpelled, StubVectors
    <3>4. CASE k \in 2..7
      <4>1. at.pc = k + 1 /\ at.pc \in 3..9 /\ at.pc + 1 \in 3..9
        BY <3>4
      <4> QED
        BY <3>1, <4>1, PushedSpelled, StubVectors
    <3> QED
      BY <3>2, <3>3, <3>4
  <2>3. /\ at' \in Places /\ at'.vector = f.vector /\ at'.pc = at.pc + 1
        /\ at'.pc \in 1..StubLength(f.vector)
    BY <1>0, <2>1, <2>2, NextPlace, SMTT(60)
  <2>4. /\ Len(stack) = Base(f) + k - 1 /\ Base(f) \in Nat /\ f \in Frames
        /\ Pushed(f.vector, at'.pc) = k
        /\ stack \in Seq(Word) /\ regs \in [Registers -> Word] /\ regs[r] \in Word
    <3>1. r \in Registers
      BY SavedSpelled
    <3> QED
      BY <1>0, <2>2, <2>3, <3>1 DEF TopFrame, Pushed
  <2>5. /\ stack' \in Seq(Word) /\ Len(stack') = Base(f) + k /\ stack'[Base(f) + k] = regs[r]
        /\ \A j \in 1..Base(f) + k - 1 : stack'[j] = stack[j]
    BY <2>1, <2>4
  <2>6. Known(f, k) => regs[r] = Found(f, k)
    <3> SUFFICES ASSUME Known(f, k) PROVE regs[r] = Found(f, k)
      OBVIOUS
    <3>1. CASE r \in CalleeSaved
      <4>1. k # 8
        BY <3>1, SavedSpelled DEF CalleeSaved
      <4> QED
        BY <1>0, <3>1, <4>1 DEF TopFrame, Found
    <3>2. CASE r \notin CalleeSaved
      <4>1. ~f.disturbed
        BY <3>2 DEF Known
      <4>2. Restored(f, regs, at.pc)
        BY <1>0, <2>2, <4>1 DEF TopFrame
      <4>3. CASE k = 1
        BY <2>2, <4>2, <4>3, SavedSpelled DEF Restored, Found
      <4>4. CASE k \in 2..8
        BY <2>2, <4>2, <4>4 DEF Restored
      <4> QED
        BY <4>1, <4>3, <4>4
    <3> QED
      BY <3>1, <3>2
  <2>7. FrameKept(f, at', Len(stack'), stack')
    <3>1. FrameKept(f, at, Len(stack), stack)
      BY <1>0 DEF TopFrame
    <3>2. \A j \in 1..8 : Base(f) + j <= Base(f) + k => j = k \/ Base(f) + j <= Base(f) + k - 1
      BY <2>4
    <3>3. /\ Under(f) \in Nat /\ Under(f) + 5 <= Base(f)
          /\ HasErrorCode(f.vector) => Under(f) + 6 <= Base(f)
      BY <1>0, PartOfFrame, SMTT(60) DEF TopFrame
    <3>4. \A j \in 1..8 : Base(f) + j <= Base(f) + k /\ Known(f, j) =>
              stack'[Base(f) + j] = Found(f, j)
      <4> SUFFICES ASSUME NEW j \in 1..8, Base(f) + j <= Base(f) + k, Known(f, j)
                   PROVE  stack'[Base(f) + j] = Found(f, j)
        OBVIOUS
      <4>1. CASE j = k
        BY <2>5, <2>6, <4>1
      <4>2. CASE j # k
        <5>1. Base(f) + j <= Len(stack) /\ Base(f) + j \in 1..Base(f) + k - 1
          <6> DEFINE b == Base(f)
                     top == Len(stack)
          <6>1. b \in Nat /\ top = b + (k - 1) /\ b + j <= b + k
            BY <2>4
          <6> HIDE DEF b, top
          <6>2. b + j <= top /\ b + j \in 1..b + (k - 1)
            BY <4>2, <6>1
          <6> QED
            BY <6>2 DEF b, top
        <5>2. stack[Base(f) + j] = Found(f, j)
          BY <3>1, <5>1 DEF FrameKept
        <5> QED
          BY <2>5, <5>1, <5>2
      <4> QED
        BY <4>1, <4>2
    <3>5. \A i \in 2..6 : Under(f) + i <= Base(f) =>
            Under(f) + i <= Len(stack) /\ stack'[Under(f) + i] = stack[Under(f) + i]
      <4> SUFFICES ASSUME NEW i \in 2..6, Under(f) + i <= Base(f)
                   PROVE  Under(f) + i <= Len(stack) /\ stack'[Under(f) + i] = stack[Under(f) + i]
        OBVIOUS
      <4> DEFINE b == Base(f)
                 u == Under(f)
                 top == Len(stack)
      <4>1. b \in Nat /\ top = b + (k - 1) /\ u \in Nat /\ u + i <= b
        BY <2>4, <3>3
      <4> HIDE DEF b, top, u
      <4>2. u + i <= top /\ u + i \in 1..b + (k - 1)
        BY <4>1
      <4> QED
        BY <2>5, <4>2 DEF b, top, u
    <3>6. /\ stack'[Under(f) + 2] = Address(f.depth)
          /\ stack'[Under(f) + 3] = f.regs["rflags"]
          /\ stack'[Under(f) + 4] = Plain("selector")
          /\ stack'[Under(f) + 5] = Code(f.at)
          /\ HasErrorCode(f.vector) => stack'[Under(f) + 6] = Plain("error")
      <4>1. /\ Under(f) + 2 <= Base(f) /\ Under(f) + 3 <= Base(f) /\ Under(f) + 4 <= Base(f)
            /\ Under(f) + 5 <= Base(f) /\ (HasErrorCode(f.vector) => Under(f) + 6 <= Base(f))
        BY <2>4, <3>3
      <4> QED
        BY <3>1, <3>5, <4>1 DEF FrameKept
    <3> QED
      BY <2>3, <2>4, <2>5, <3>4, <3>6 DEF FrameKept
  <2>8. ASSUME ~f.disturbed PROVE Restored(f, regs', at'.pc)
    <3>1. Restored(f, regs, at.pc)
      BY <1>0, <2>2, <2>8 DEF TopFrame
    <3>2. at.pc + 1 <= 10 /\ (at.pc + 1 <= 2 => at.pc <= 2)
          /\ (at.pc + 1 \in 3..10 => at.pc \in 3..10)
      BY <2>2
    <3> QED
      BY <2>1, <2>2, <2>3, <3>1, <3>2 DEF Restored
  <2>9. f.depth <= Len(stack') /\ \A j \in 1..f.depth : stack'[j] = stack[j]
    <3>1. f.depth \in Nat /\ f.depth <= Base(f) - 2
      BY <1>0 DEF TopFrame
    <3> QED
      BY <2>4, <2>5, <3>1, SMTT(60)
  <2>10. frames # <<>> /\ (\A q \in CalleeSaved : regs'[q] = f.regs[q]) /\ regs' \in [Registers -> Word]
    BY <1>0, <2>1, <2>4 DEF TopFrame
  <2> QED
    BY <2>1, <2>3, <2>5, <2>7, <2>8, <2>9, <2>10, TopStep, ZenonT(60) DEF f
<1> QED
  BY <1>1, <1>2

\* An instruction that leaves no more on the stack than before.
LEMMA FrameMoves ==
    ASSUME NEW f \in Frames, NEW l \in Places, NEW m \in Places, NEW e, NEW d, NEW s, NEW t,
           FrameKept(f, l, e, s), m.vector = f.vector, m.pc \in 1..StubLength(f.vector),
           d = Base(f) + Pushed(f.vector, m.pc), d <= e, \A j \in 1..d : t[j] = s[j]
    PROVE  FrameKept(f, m, d, t)
<1>1. /\ l.pc \in 1..StubLength(f.vector) /\ e = Base(f) + Pushed(f.vector, l.pc)
  BY DEF FrameKept
<1>2. /\ Under(f) \in Nat /\ Base(f) \in Nat /\ Under(f) + 4 <= d /\ d \in Int /\ e \in Int
      /\ Pushed(f.vector, m.pc) \in -2..8
  BY <1>1, PartOfFrame
<1>3. /\ Under(f) + 2 \in 1..d /\ Under(f) + 3 \in 1..d /\ Under(f) + 4 \in 1..d
      /\ Under(f) + 5 <= d => Under(f) + 5 \in 1..d /\ Under(f) + 5 <= e
      /\ Under(f) + 6 <= d => Under(f) + 6 \in 1..d /\ Under(f) + 6 <= e
      /\ \A k \in 1..8 : Base(f) + k <= d => Base(f) + k \in 1..d /\ Base(f) + k <= e
  BY <1>2
<1> QED
  BY <1>3 DEF FrameKept

\* A step to the next instruction that pushes nothing.
LEMMA MovesOn ==
    ASSUME StubInv, at.vector # task, NEW f, f = frames[Len(frames)], UNCHANGED frames, NextPc,
           at.pc + 1 <= StubLength(f.vector),
           stack' \in Seq(Word), Len(stack') <= Len(stack),
           Len(stack') = Base(f) + Pushed(f.vector, at.pc + 1),
           \A j \in 1..Len(stack') : stack'[j] = stack[j],
           regs' \in [Registers -> Word],
           \A r \in CalleeSaved : regs'[r] = f.regs[r],
           Saves(f.vector) /\ ~f.disturbed => Restored(f, regs', at.pc + 1)
    PROVE  StubInv'
<1>1. TopFrame(f)
  BY TopKept
<1>2. /\ at' \in Places /\ at'.vector = f.vector /\ at'.pc = at.pc + 1
      /\ at'.pc \in 1..StubLength(f.vector)
  BY <1>1, NextPlace
<1>3. /\ f \in Frames /\ at \in Places /\ FrameKept(f, at, Len(stack), stack)
      /\ Len(stack) = Base(f) + Pushed(f.vector, at.pc) /\ Len(stack) \in Nat
      /\ Base(f) \in Nat /\ f.depth \in Nat /\ frames # <<>> /\ at.pc \in 1..StubLength(f.vector)
  BY <1>1 DEF TopFrame
<1>4. Pushed(f.vector, at.pc) \in -2..8 /\ Pushed(f.vector, at'.pc) \in -2..8
      /\ Under(f) + 4 <= Base(f) + Pushed(f.vector, at'.pc) /\ f.depth <= Under(f) /\ Under(f) \in Nat
  BY <1>2, <1>3, PartOfFrame
<1>5. /\ Len(stack') = Base(f) + Pushed(f.vector, at'.pc) /\ Len(stack') <= Len(stack)
      /\ f.depth <= Len(stack') /\ Len(stack') \in Nat
  <2> DEFINE new == Len(stack')
             old == Len(stack)
             b == Base(f)
             u == Under(f)
             q == Pushed(f.vector, at'.pc)
  <2>1. /\ new = b + q /\ new <= old /\ b \in Nat /\ q \in Int
        /\ u + 4 <= b + q /\ f.depth <= u /\ u \in Nat /\ f.depth \in Nat
    BY <1>2, <1>3, <1>4, SMTT(60)
  <2> HIDE DEF new, old, b, u, q
  <2>2. new = b + q /\ new <= old /\ f.depth <= new /\ new \in Nat
    BY ONLY <2>1
  <2> QED
    BY <2>2 DEF new, old, b, q
<1>6. FrameKept(f, at', Len(stack'), stack')
  BY <1>2, <1>3, <1>5, FrameMoves
<1>7. \A j \in 1..f.depth : stack'[j] = stack[j]
  BY <1>3, <1>5
<1> QED
  BY <1>2, <1>3, <1>5, <1>6, <1>7, TopStep

\* The addresses and values loaded into rdi.
LEMMA LoadKeeps ==
    ASSUME StubInv, at.vector # task, NEW word \in Word, Load(word),
           \/ ~Saves(at.vector) /\ at.pc = 1
           \/ Saves(at.vector) /\ at.pc = 2 /\ word = Address(Len(stack))
    PROVE  StubInv'
<1> DEFINE f == frames[Len(frames)]
<1>0. TopFrame(f)
  BY TopKept
<1> HIDE DEF f
<1>1. /\ regs' = [regs EXCEPT !["rdi"] = word] /\ NextPc
      /\ stack' = stack /\ frames' = frames
  BY DEF Load
<1>2. /\ f.vector = at.vector /\ f.vector \in 0..33 /\ regs \in [Registers -> Word]
      /\ stack \in Seq(Word) /\ Len(stack) \in Nat /\ f.depth \in Nat /\ Base(f) \in Nat
      /\ Len(stack) = Base(f) + Pushed(f.vector, at.pc)
      /\ \A r \in CalleeSaved : regs[r] = f.regs[r]
      /\ Saves(f.vector) /\ ~f.disturbed => Restored(f, regs, at.pc)
  BY <1>0 DEF TopFrame
<1>3. /\ "rdi" \in Registers /\ \A r \in CalleeSaved : r # "rdi" /\ r \in Registers
  BY DEF Registers, CalleeSaved
<1>4. /\ regs' \in [Registers -> Word] /\ regs'["rdi"] = word
      /\ \A r \in Registers : r # "rdi" => regs'[r] = regs[r]
  BY <1>1, <1>2, <1>3
<1>5. \A r \in CalleeSaved : regs'[r] = f.regs[r]
  BY <1>2, <1>3, <1>4
<1>6. /\ at.pc + 1 <= StubLength(f.vector)
      /\ Pushed(f.vector, at.pc + 1) = Pushed(f.vector, at.pc)
  <2>1. CASE Saves(f.vector)
    <3>1. at.pc = 2 /\ at.pc + 1 \in 3..9
      BY <1>2, <2>1
    <3>2. /\ StubLength(f.vector) = 19 /\ Pushed(f.vector, at.pc) = 1
          /\ Pushed(f.vector, at.pc + 1) = (at.pc + 1) - 2
      BY <1>2, <2>1, <3>1, StubShape
    <3> QED
      BY <3>1, <3>2
  <2>2. CASE ~Saves(f.vector)
    <3>1. at.pc = 1 /\ at.pc + 1 = 2
      BY <1>2, <2>2
    <3>2. StubLength(f.vector) \in 3..4 /\ Pushed(f.vector, 1) = 0 /\ Pushed(f.vector, 2) = 0
      BY <1>2, <2>2, StubShape
    <3> QED
      BY <3>1, <3>2
  <2> QED
    BY <2>1, <2>2
<1>7. Saves(f.vector) /\ ~f.disturbed => Restored(f, regs', at.pc + 1)
  <2> SUFFICES ASSUME Saves(f.vector), ~f.disturbed PROVE Restored(f, regs', at.pc + 1)
    OBVIOUS
  <2>1. Restored(f, regs, 2) /\ at.pc = 2 /\ word = Address(Len(stack))
    BY <1>2
  <2>2. Len(stack) = Base(f) + 1
    BY <1>2, <2>1, PushedSpelled DEF Pushed
  <2>3. \A k \in 2..8 : SavedAt[k] # "rdi" /\ SavedAt[k] \in Registers
    BY SavedSpelled
  <2>4. \A k \in 2..8 : regs'[SavedAt[k]] = Found(f, k)
    BY <1>4, <2>1, <2>3 DEF Restored
  <2> QED
    BY <1>4, <2>1, <2>2, <2>4 DEF Restored
<1>8. /\ UNCHANGED frames /\ stack' \in Seq(Word) /\ Len(stack') <= Len(stack)
      /\ \A j \in 1..Len(stack') : stack'[j] = stack[j]
      /\ Len(stack') = Base(f) + Pushed(f.vector, at.pc + 1)
  BY <1>1, <1>2, <1>6
<1> QED
  BY <1>1, <1>4, <1>5, <1>6, <1>7, <1>8, MovesOn DEF f

\* The error code, and one word more than that, dropped from the stack.
LEMMA SkipKeeps ==
    ASSUME StubInv, at.vector = GeneralProtection, at.pc = 3, Skip
    PROVE  StubInv'
<1> DEFINE f == frames[Len(frames)]
<1>00. at.vector # task
  BY DEF task, GeneralProtection
<1>0. TopFrame(f)
  BY <1>00, TopKept
<1> HIDE DEF f
<1>1. /\ f.vector = GeneralProtection /\ regs \in [Registers -> Word]
      /\ stack \in Seq(Word) /\ Len(stack) \in Nat /\ f.depth \in Nat /\ Base(f) \in Nat
      /\ Len(stack) = Base(f) + Pushed(f.vector, at.pc) /\ f.depth <= Base(f) - 2
      /\ \A r \in CalleeSaved : regs[r] = f.regs[r]
  BY <1>0 DEF TopFrame
<1>2. ~Saves(f.vector) /\ StubLength(f.vector) = 4 /\ Pushed(f.vector, 3) = 0 /\ Pushed(f.vector, 4) = -2
  BY <1>1 DEF Saves, StubLength, Pushed, GeneralProtection
<1>3. /\ NextPc /\ frames' = frames /\ regs' = regs /\ stack' = SubSeq(stack, 1, Len(stack) - 2)
  BY DEF Skip
<1>4. Len(stack) - 2 \in 0..Len(stack)
  BY <1>1, <1>2
<1>5. /\ stack' \in Seq(Word) /\ Len(stack') = Len(stack) - 2
      /\ \A j \in 1..Len(stack') : stack'[j] = stack[j]
  BY <1>1, <1>3, <1>4
<1>6. /\ UNCHANGED frames /\ at.pc + 1 <= StubLength(f.vector) /\ Len(stack') <= Len(stack)
      /\ Len(stack') = Base(f) + Pushed(f.vector, at.pc + 1)
  BY <1>1, <1>2, <1>3, <1>5
<1>7. regs' \in [Registers -> Word] /\ \A r \in CalleeSaved : regs'[r] = f.regs[r]
  BY <1>1, <1>3
<1> QED
  BY <1>00, <1>2, <1>3, <1>5, <1>6, <1>7, MovesOn DEF f

\* A C function that returns keeps what it has to keep.
LEMMA CallKeeps ==
    ASSUME StubInv, at.vector # task, Returned,
           at.pc = IF Saves(at.vector) THEN 10 ELSE 2
    PROVE  StubInv'
<1> DEFINE f == frames[Len(frames)]
<1>0. TopFrame(f)
  BY TopKept
<1> HIDE DEF f
<1>1. /\ f.vector = at.vector /\ f.vector \in 0..33 /\ regs \in [Registers -> Word]
      /\ stack \in Seq(Word) /\ Len(stack) \in Nat
      /\ \A r \in CalleeSaved : regs[r] = f.regs[r]
      /\ Len(stack) = Base(f) + Pushed(f.vector, at.pc)
  BY <1>0 DEF TopFrame
<1>2. /\ NextPc /\ frames' = frames /\ stack' = stack
      /\ regs' = [r \in Registers |-> IF r \in CalleeSaved THEN regs[r] ELSE Junk]
  BY DEF Returned
<1>3. Junk \in Word
  BY DEF Junk, Plain, Word, task
<1>4. regs' \in [Registers -> Word] /\ \A r \in CalleeSaved : regs'[r] = f.regs[r]
  BY <1>1, <1>2, <1>3 DEF CalleeSaved, Registers
<1>5. /\ at.pc + 1 <= StubLength(f.vector)
      /\ Pushed(f.vector, at.pc + 1) = Pushed(f.vector, at.pc)
      /\ Saves(f.vector) => Restored(f, regs', at.pc + 1)
  <2>1. CASE Saves(f.vector)
    <3>1. at.pc = 10 /\ at.pc + 1 \in 11..18
      BY <1>1, <2>1
    <3>2. /\ StubLength(f.vector) = 19 /\ Pushed(f.vector, at.pc) = 8
          /\ Pushed(f.vector, at.pc + 1) = 19 - (at.pc + 1)
      BY <1>1, <2>1, <3>1, StubShape
    <3>3. Restored(f, regs', at.pc + 1)
      <4>1. at.pc + 1 = 11 /\ SavingPushed[11] = 8
        BY <3>1, PushedSpelled
      <4>2. Restored(f, regs', 11)
        BY <4>1 DEF Restored
      <4> QED
        BY <4>1, <4>2
    <3> QED
      BY <3>1, <3>2, <3>3
  <2>2. CASE ~Saves(f.vector)
    <3>1. at.pc = 2 /\ at.pc + 1 = 3
      BY <1>1, <2>2
    <3>2. StubLength(f.vector) \in 3..4 /\ Pushed(f.vector, 2) = 0 /\ Pushed(f.vector, 3) = 0
      BY <1>1, <2>2, StubShape
    <3> QED
      BY <2>2, <3>1, <3>2
  <2> QED
    BY <2>1, <2>2
<1>6. /\ UNCHANGED frames /\ stack' \in Seq(Word) /\ Len(stack') <= Len(stack)
      /\ \A j \in 1..Len(stack') : stack'[j] = stack[j]
      /\ Len(stack') = Base(f) + Pushed(f.vector, at.pc + 1)
  BY <1>1, <1>2, <1>5
<1> QED
  BY <1>2, <1>4, <1>5, <1>6, MovesOn DEF f

\* A pop: the k-th of the registers a stub saves, from where its push left it.
LEMMA PopKeeps ==
    ASSUME StubInv, at.vector # task, NEW k \in 1..8,
           Saves(at.vector), at.pc = 19 - k, Pop(SavedAt[k])
    PROVE  StubInv'
<1> DEFINE f == frames[Len(frames)]
           r == SavedAt[k]
<1>0. TopFrame(f)
  BY TopKept
<1> HIDE DEF f
<1>1. /\ f.vector = at.vector /\ f.vector \in 0..33 /\ regs \in [Registers -> Word]
      /\ stack \in Seq(Word) /\ Len(stack) \in Nat /\ Base(f) \in Nat
      /\ Len(stack) = Base(f) + Pushed(f.vector, at.pc)
      /\ FrameKept(f, at, Len(stack), stack)
      /\ \A q \in CalleeSaved : regs[q] = f.regs[q]
      /\ ~f.disturbed => Restored(f, regs, at.pc)
  BY <1>0 DEF TopFrame
<1>2. /\ NextPc /\ frames' = frames /\ stack' = Front(stack)
      /\ regs' = [regs EXCEPT ![r] = Last(stack)]
  BY DEF Pop
<1>3. /\ at.pc \in 11..18 /\ StubLength(f.vector) = 19 /\ at.pc + 1 <= 19
      /\ Pushed(f.vector, at.pc) = k /\ SavingPushed[at.pc] = k
      /\ Pushed(f.vector, at.pc + 1) = k - 1 /\ SavingPushed[at.pc + 1] = k - 1
  <2>1. at.pc \in 11..18 /\ 19 - at.pc = k /\ (k = 1 => at.pc + 1 = 19)
        /\ (k # 1 => at.pc + 1 \in 11..18 /\ 19 - (at.pc + 1) = k - 1)
    OBVIOUS
  <2>2. /\ StubLength(f.vector) = 19 /\ Pushed(f.vector, at.pc) = k /\ SavingPushed[at.pc] = k
    BY <1>1, <2>1, StubShape, PushedSpelled
  <2>3. CASE k = 1
    <3>1. at.pc + 1 = 19 /\ k - 1 = 0
      BY <2>3
    <3>2. Pushed(f.vector, 19) = 0 /\ SavingPushed[19] = 0
      BY <1>1, StubShape, PushedSpelled
    <3> QED
      BY <2>1, <2>2, <3>1, <3>2
  <2>4. CASE k # 1
    <3>1. at.pc + 1 \in 11..18 /\ 19 - (at.pc + 1) = k - 1
      BY <2>1, <2>4
    <3>2. Pushed(f.vector, at.pc + 1) = 19 - (at.pc + 1)
      BY <1>1, <3>1, StubShape
    <3>3. SavingPushed[at.pc + 1] = 19 - (at.pc + 1)
      BY <3>1, PushedSpelled
    <3> QED
      BY <2>1, <2>2, <3>1, <3>2, <3>3
  <2> QED
    BY <2>3, <2>4
<1>4. /\ Len(stack) = Base(f) + k /\ Base(f) + k \in 1..Len(stack)
      /\ Last(stack) = stack[Base(f) + k] /\ stack[Base(f) + k] \in Word
      /\ stack' = SubSeq(stack, 1, Base(f) + (k - 1))
  <2>1. Len(stack) = Base(f) + k /\ Base(f) + k \in 1..Len(stack) /\ Len(stack) - 1 = Base(f) + (k - 1)
    BY <1>1, <1>3
  <2> QED
    BY <1>1, <1>2, <2>1 DEF Front, Last
<1>5. /\ UNCHANGED frames /\ stack' \in Seq(Word) /\ Len(stack') = Base(f) + (k - 1)
      /\ Len(stack') <= Len(stack) /\ \A j \in 1..Len(stack') : stack'[j] = stack[j]
  <2> DEFINE n == Base(f) + (k - 1)
  <2>1. n \in 0..Len(stack)
    BY <1>1, <1>4
  <2>2. stack \in Seq(Word) /\ stack' = SubSeq(stack, 1, n) /\ UNCHANGED frames
    BY <1>1, <1>2, <1>4
  <2> HIDE DEF n
  <2>3. /\ stack' \in Seq(Word) /\ Len(stack') = n
        /\ Len(stack') <= Len(stack) /\ \A j \in 1..Len(stack') : stack'[j] = stack[j]
    BY ONLY <2>1, <2>2
  <2> QED
    BY <2>2, <2>3, Zenon DEF n
<1>6. Known(f, k) /\ k # 8 => stack[Base(f) + k] = f.regs[r]
  <2>1. Known(f, k) => stack[Base(f) + k] = Found(f, k)
    BY <1>1, <1>4, SMTT(60) DEF FrameKept
  <2> QED
    BY <2>1, Zenon DEF Found
<1>7. /\ r \in Registers /\ regs' \in [Registers -> Word] /\ regs'[r] = stack[Base(f) + k]
      /\ \A q \in Registers : q # r => regs'[q] = regs[q]
  BY <1>1, <1>2, <1>4, SavedSpelled
<1>8. \A q \in CalleeSaved : regs'[q] = f.regs[q]
  <2>1. \A q \in CalleeSaved : q \in Registers
    BY DEF CalleeSaved, Registers
  <2>2. r \in CalleeSaved => Known(f, k) /\ k # 8
    BY SavedSpelled DEF Known, CalleeSaved
  <2> QED
    BY <1>1, <1>6, <1>7, <2>1, <2>2
<1>9. ASSUME ~f.disturbed PROVE Restored(f, regs', at.pc + 1)
  <2>1. \A j \in 1..7 : j > k => regs[SavedAt[j]] = f.regs[SavedAt[j]]
    BY <1>1, <1>3, <1>9, SMTT(60) DEF Restored
  <2>2. \A j \in 1..7 : j > k - 1 => regs'[SavedAt[j]] = f.regs[SavedAt[j]]
    <3> SUFFICES ASSUME NEW j \in 1..7, j > k - 1 PROVE regs'[SavedAt[j]] = f.regs[SavedAt[j]]
      OBVIOUS
    <3>1. CASE j = k
      BY <1>6, <1>7, <1>9, <3>1 DEF Known
    <3>2. CASE j # k
      <4>1. j > k /\ SavedAt[j] # r /\ SavedAt[j] \in Registers
        BY <3>2, SavedSpelled
      <4> QED
        BY <1>7, <2>1, <4>1
    <3> QED
      BY <3>1, <3>2
  <2>3. at.pc + 1 > 10 /\ at.pc + 1 \notin 3..10
    BY <1>3
  <2> QED
    BY <1>3, <2>2, <2>3 DEF Restored
<1>10. at.pc + 1 <= StubLength(f.vector) /\ Len(stack') = Base(f) + Pushed(f.vector, at.pc + 1)
       /\ (Saves(f.vector) /\ ~f.disturbed => Restored(f, regs', at.pc + 1))
  BY <1>3, <1>5, <1>9
<1> QED
  BY <1>2, <1>5, <1>7, <1>8, <1>10, MovesOn DEF f

-----------------------------------------------------------------------------
(* Returns. *)

\* iretq finds the frame of its own interrupt, and one without an error code, or none.
LEMMA ReturnGives ==
    ASSUME NEW f, TopFrame(f), at.pc = StubLength(f.vector), GoodFrame, Return
    PROVE  /\ ~HasErrorCode(f.vector)
           /\ at' = f.at /\ stack' \in Seq(Word) /\ Len(stack') = f.depth
           /\ \A j \in 1..f.depth : stack'[j] = stack[j]
           /\ regs' \in [Registers -> Word] /\ regs'["rflags"] = f.regs["rflags"]
           /\ \A r \in Registers : r # "rflags" => regs'[r] = regs[r]
           /\ frames' = Front(frames)
<1>1. /\ f \in Frames /\ f.vector \in 0..33 /\ stack \in Seq(Word) /\ regs \in [Registers -> Word]
      /\ f.depth \in Nat /\ Base(f) \in Nat /\ f.depth <= Base(f) - 2
      /\ Len(stack) = Base(f) + Pushed(f.vector, at.pc)
      /\ FrameKept(f, at, Len(stack), stack)
      /\ at.pc \in 1..StubLength(f.vector)
  BY DEF TopFrame
<1>2. /\ Under(f) \in Nat /\ f.depth <= Under(f)
      /\ Base(f) = Under(f) + (IF HasErrorCode(f.vector) THEN 6 ELSE 5)
  BY <1>1, PartOfFrame
<1>3. /\ f.vector = GeneralProtection => Pushed(f.vector, at.pc) = -2
      /\ f.vector # GeneralProtection => Pushed(f.vector, at.pc) = 0
      /\ HasErrorCode(GeneralProtection)
  <2>1. Saves(GeneralProtection) = FALSE /\ HasErrorCode(GeneralProtection)
    BY DEF Saves, GeneralProtection, HasErrorCode
  <2>2. CASE Saves(f.vector)
    BY <1>1, <2>1, <2>2, StubShape
  <2>3. CASE ~Saves(f.vector)
    <3>1. /\ StubLength(f.vector) \in 3..4
          /\ StubLength(f.vector) = 4 <=> f.vector = GeneralProtection
          /\ Pushed(f.vector, 3) = 0 /\ (f.vector = GeneralProtection => Pushed(f.vector, 4) = -2)
      BY <1>1, <2>3, StubShape
    <3>2. at.pc = 3 \/ at.pc = 4
      BY <3>1
    <3> QED
      BY <2>1, <3>1, <3>2
  <2> QED
    BY <2>2, <2>3, <2>1
<1>4. Plain("selector").kind = "selector" /\ Plain("error").kind = "error"
  BY DEF Plain
<1>5. stack[Len(stack)].kind = "code"
  BY DEF GoodFrame
<1>6. f.vector # GeneralProtection
  <2> SUFFICES ASSUME f.vector = GeneralProtection PROVE FALSE
    OBVIOUS
  <2>1. Len(stack) = Under(f) + 4
    BY <1>1, <1>2, <1>3
  <2>2. stack[Under(f) + 4] = Plain("selector")
    BY <1>1 DEF FrameKept
  <2> QED
    BY <1>4, <1>5, <2>1, <2>2
<1>7. ~HasErrorCode(f.vector)
  <2> SUFFICES ASSUME HasErrorCode(f.vector) PROVE FALSE
    OBVIOUS
  <2>1. Len(stack) = Under(f) + 6
    BY <1>1, <1>2, <1>3, <1>6
  <2>2. stack[Under(f) + 6] = Plain("error")
    BY <1>1, <1>2, <2>1 DEF FrameKept
  <2> QED
    BY <1>4, <1>5, <2>1, <2>2
<1> DEFINE top == Len(stack)
<1>8. /\ top = Under(f) + 5 /\ top - 2 = Under(f) + 3 /\ top - 3 = Under(f) + 2
      /\ stack[top] = Code(f.at) /\ stack[top - 2] = f.regs["rflags"]
      /\ stack[top - 3] = Address(f.depth)
  <2>1. top = Under(f) + 5
    BY <1>1, <1>2, <1>3, <1>6, <1>7
  <2>2. top - 2 = Under(f) + 3 /\ top - 3 = Under(f) + 2 /\ Under(f) + 5 <= top
    BY <1>2, <2>1
  <2> QED
    BY <1>1, <2>1, <2>2 DEF FrameKept
<1>9. /\ stack[top].vector = f.at.vector /\ stack[top].pc = f.at.pc /\ stack[top - 3].pc = f.depth
  BY <1>8 DEF Code, Address, Plain
<1>10. f.at \in Places /\ f.regs \in [Registers -> Word]
  BY <1>1 DEF Frames
<1>11. /\ at' = [vector |-> stack[top].vector, pc |-> stack[top].pc]
       /\ regs' = [regs EXCEPT !["rflags"] = stack[top - 2]]
       /\ stack' = SubSeq(stack, 1, stack[top - 3].pc)
       /\ frames' = Front(frames)
  BY DEF Return
<1> HIDE DEF top
<1>12. at' = f.at
  <2>1. at' = [vector |-> f.at.vector, pc |-> f.at.pc]
    BY <1>9, <1>11
  <2> QED
    BY <1>10, <2>1 DEF Places
<1>13. stack' = SubSeq(stack, 1, f.depth) /\ f.depth \in 0..Len(stack)
  BY <1>1, <1>2, <1>8, <1>9, <1>11, SMTT(60) DEF top
<1>14. /\ stack' \in Seq(Word) /\ Len(stack') = f.depth
       /\ \A j \in 1..f.depth : stack'[j] = stack[j]
  BY <1>1, <1>13
<1>15. /\ "rflags" \in Registers /\ f.regs["rflags"] \in Word
       /\ regs' = [regs EXCEPT !["rflags"] = f.regs["rflags"]]
  BY <1>8, <1>10, <1>11 DEF Registers
<1>16. /\ regs' \in [Registers -> Word] /\ regs'["rflags"] = f.regs["rflags"]
       /\ \A r \in Registers : r # "rflags" => regs'[r] = regs[r]
  BY <1>1, <1>15
<1> QED
  BY <1>7, <1>11, <1>12, <1>14, <1>16

LEMMA ReturnKeeps ==
    ASSUME StubInv, at.vector # task, at.pc = StubLength(at.vector), GoodFrame, Return
    PROVE  StubInv'
<1> DEFINE n == Len(frames)
           f == frames[n]
<1>0. TopFrame(f)
  BY TopKept
<1>1. /\ n \in Nat \ {0} /\ DOMAIN frames = 1..n /\ frames \in Seq(Frames) /\ f \in Frames
      /\ \A i \in 1..n : frames[i] \in Frames
  BY <1>0 DEF StubInv, StubTypes, TopFrame
<1>2. /\ at' = f.at /\ stack' \in Seq(Word) /\ Len(stack') = f.depth
      /\ \A j \in 1..f.depth : stack'[j] = stack[j]
      /\ regs' \in [Registers -> Word]
      /\ \A r \in Registers : r # "rflags" => regs'[r] = regs[r]
      /\ frames' = Front(frames)
  <2>1. at.pc = StubLength(f.vector)
    BY <1>0 DEF TopFrame
  <2> QED
    BY <1>0, <2>1, ReturnGives
<1>3. /\ frames' \in Seq(Frames) /\ Len(frames') = n - 1 /\ DOMAIN frames' = 1..n - 1
      /\ \A i \in 1..n - 1 : frames'[i] = frames[i]
  BY <1>1, <1>2 DEF Front
<1> HIDE DEF n
<1>4. n = Len(frames) /\ n \in 1..n /\ f = frames[n] /\ f.depth \in Nat /\ f.at \in Places
  BY <1>1 DEF n, Frames
<1>5. StubTypes'
  BY <1>2, <1>3, <1>4 DEF StubTypes
<1>6. /\ \A i \in 1..n : frames[i].depth <= f.depth /\ frames[i].depth \in Nat
      /\ \A i, j \in 1..n : i < j => frames[i].depth <= frames[j].depth
      /\ \A i \in 1..n : i < n => frames[i].disturbed
      /\ frames[1].at.vector = task
  <2>1. \A i \in 1..n : frames[i].depth \in Nat
    BY <1>1 DEF Frames
  <2>2. /\ \A i, j \in 1..n : i < j => frames[i].depth <= frames[j].depth
        /\ \A i \in 1..n : i < n => frames[i].disturbed
        /\ frames[1].at.vector = task
    BY <1>0, <1>1, <1>4 DEF StubInv, Nested, TopFrame
  <2>3. \A i \in 1..n : i < n \/ i = n
    BY <1>1
  <2> QED
    BY <1>4, <2>1, <2>2, <2>3
<1>7. ASSUME NEW i \in 1..n - 1
      PROVE  /\ Spot(frames, at, i) = frames[i + 1].at /\ Extent(frames, stack, i) = frames[i + 1].depth
             /\ Left(frames, regs, i) = frames[i + 1].regs
             /\ Spot(frames', at', i) = frames[i + 1].at
             /\ Extent(frames', stack', i) = frames[i + 1].depth
             /\ \A r \in CalleeSaved : Left(frames', regs', i)[r] = frames[i + 1].regs[r]
  <2>1. i # n /\ i \in 1..n /\ i + 1 \in 1..n
    BY <1>1
  <2>2. /\ Spot(frames, at, i) = frames[i + 1].at /\ Extent(frames, stack, i) = frames[i + 1].depth
        /\ Left(frames, regs, i) = frames[i + 1].regs
    BY <1>4, <2>1 DEF Spot, Extent, Left
  <2>3. CASE i = n - 1
    <3>1. frames[i + 1] = f /\ i = Len(frames')
      BY <1>1, <1>3, <1>4, <2>3
    <3>2. \A r \in CalleeSaved : regs'[r] = f.regs[r]
      <4>1. \A r \in CalleeSaved : r \in Registers /\ r # "rflags"
        BY DEF CalleeSaved, Registers
      <4> QED
        BY <1>0, <1>2, <4>1 DEF TopFrame
    <3> QED
      BY <1>2, <2>2, <3>1, <3>2 DEF Spot, Extent, Left
  <2>4. CASE i # n - 1
    <3>1. i # Len(frames') /\ i + 1 \in 1..n - 1
      BY <1>1, <1>3, <2>4
    <3>2. frames'[i + 1] = frames[i + 1]
      BY <1>3, <3>1
    <3> QED
      BY <2>2, <3>1, <3>2 DEF Spot, Extent, Left
  <2> QED
    BY <2>3, <2>4
<1>8. ASSUME NEW i \in 1..n - 1
      PROVE  /\ FrameKept(frames[i], frames[i + 1].at, frames[i + 1].depth, stack)
             /\ \A r \in CalleeSaved : frames[i + 1].regs[r] = frames[i].regs[r]
  <2>1. i \in DOMAIN frames
    BY <1>1
  <2> QED
    BY <1>7, <2>1 DEF StubInv, StubsKept
<1>9. StubsKept'
  <2> SUFFICES ASSUME NEW i \in 1..n - 1
               PROVE  /\ FrameKept(frames'[i], Spot(frames', at', i), Extent(frames', stack', i), stack')
                      /\ \A r \in CalleeSaved : Left(frames', regs', i)[r] = frames'[i].regs[r]
    BY <1>3 DEF StubsKept
  <2>1. i \in 1..n /\ i + 1 \in 1..n
    BY <1>1
  <2>2. frames[i] \in Frames /\ frames[i + 1].at \in Places
    BY <1>1, <2>1 DEF Frames
  <2>3. \A j \in 1..frames[i + 1].depth : stack'[j] = stack[j]
    <3>1. frames[i + 1].depth <= f.depth /\ frames[i + 1].depth \in Nat
      BY <1>6, <2>1
    <3> QED
      BY <1>2, <1>4, <3>1
  <2>4. FrameKept(frames[i], frames[i + 1].at, frames[i + 1].depth, stack')
    BY <1>8, <2>2, <2>3, FrameStays
  <2> QED
    BY <1>3, <1>7, <1>8, <2>4
<1>10. Nested'
  <2>1. at'.vector = task <=> frames' = <<>>
    <3>1. CASE n = 1
      BY <1>2, <1>3, <1>4, <1>6, <3>1
    <3>2. CASE n # 1
      <4>1. n - 1 \in 1..n - 1 /\ n - 1 \in 1..n /\ (n - 1) + 1 = n
        BY <1>1, <3>2
      <4>2. FrameKept(frames[n - 1], f.at, f.depth, stack)
        BY <1>4, <1>8, <4>1
      <4>3. f.at.vector = frames[n - 1].vector /\ frames[n - 1].vector \in 0..33
        BY <1>1, <4>1, <4>2 DEF FrameKept, Frames
      <4>4. frames' # <<>>
        BY <1>3, <4>1
      <4> QED
        <5>1. f.at.vector # task
          BY ONLY <4>3 DEF task
        <5> QED
          BY <1>2, <4>4, <5>1
    <3> QED
      BY <3>1, <3>2
  <2>2. frames' # <<>> => frames'[1].at.vector = task
    BY <1>1, <1>3, <1>6
  <2>3. \A i \in 1..n - 1 : frames'[i].depth <= Len(stack') /\ frames'[i].disturbed
    <3>1. \A i \in 1..n - 1 : i \in 1..n /\ i < n
      BY <1>1
    <3> QED
      BY <1>2, <1>3, <1>6, <3>1
  <2>4. \A i, j \in 1..n - 1 : i < j => frames'[i].depth <= frames'[j].depth
    <3>1. \A i \in 1..n - 1 : i \in 1..n
      BY <1>1
    <3> QED
      BY <1>3, <1>6, <3>1
  <2> QED
    BY <1>3, <2>1, <2>2, <2>3, <2>4 DEF Nested
<1>11. TopRestored'
  <2>1. frames' # <<>> => frames'[Len(frames')].disturbed
    <3> SUFFICES ASSUME frames' # <<>> PROVE frames'[Len(frames')].disturbed
      OBVIOUS
    <3>1. n - 1 \in 1..n - 1 /\ n - 1 \in 1..n /\ n - 1 < n
      BY <1>1, <1>3
    <3> QED
      BY <1>3, <1>6, <3>1
  <2> QED
    BY <2>1 DEF TopRestored
<1> QED
  BY <1>5, <1>9, <1>10, <1>11 DEF StubInv

-----------------------------------------------------------------------------
(* Deliveries. *)

\* s is the sequences a, b, c and d, one behind the other.
Joined(s, S, a, b, c, d) ==
    /\ s \in Seq(S) /\ Len(s) = Len(a) + Len(b) + Len(c) + Len(d)
    /\ \A i \in 1..Len(a) : s[i] = a[i]
    /\ \A i \in 1..Len(c) : s[Len(a) + Len(b) + i] = c[i]
    /\ \A i \in 1..Len(d) : s[Len(a) + Len(b) + Len(c) + i] = d[i]

LEMMA FourParts ==
    ASSUME NEW S, NEW a \in Seq(S), NEW b \in Seq(S), NEW c \in Seq(S), NEW d \in Seq(S)
    PROVE  Joined(a \o b \o c \o d, S, a, b, c, d)
<1> DEFINE ab == a \o b
           abc == ab \o c
           s == abc \o d
<1>1. /\ Len(a) \in Nat /\ Len(b) \in Nat /\ Len(c) \in Nat /\ Len(d) \in Nat
  OBVIOUS
<1>2. /\ ab \in Seq(S) /\ Len(ab) = Len(a) + Len(b)
      /\ \A i \in 1..Len(a) + Len(b) : ab[i] = IF i <= Len(a) THEN a[i] ELSE b[i - Len(a)]
  BY ConcatProperties, Zenon
<1>2a. ab \in Seq(S) /\ c \in Seq(S) /\ d \in Seq(S)
  BY <1>2
<1> HIDE DEF ab
<1>3. /\ abc \in Seq(S) /\ Len(abc) = Len(ab) + Len(c)
      /\ \A i \in 1..Len(ab) + Len(c) : abc[i] = IF i <= Len(ab) THEN ab[i] ELSE c[i - Len(ab)]
  BY ONLY <1>2a, ConcatProperties, Zenon
<1>3a. abc \in Seq(S)
  BY <1>3
<1> HIDE DEF abc
<1>4. /\ s \in Seq(S) /\ Len(s) = Len(abc) + Len(d)
      /\ \A i \in 1..Len(abc) + Len(d) : s[i] = IF i <= Len(abc) THEN abc[i] ELSE d[i - Len(abc)]
  BY ONLY <1>2a, <1>3a, ConcatProperties, Zenon
<1> HIDE DEF s
<1> DEFINE n == Len(a) + Len(b)
<1>5. /\ n \in Nat /\ Len(ab) = n /\ Len(abc) = n + Len(c) /\ Len(s) = n + Len(c) + Len(d)
      /\ Len(a) <= n
  BY <1>1, <1>2, <1>3, <1>4
<1>6. ASSUME NEW i \in 1..Len(a) PROVE s[i] = a[i]
  BY <1>1, <1>2, <1>3, <1>4, <1>5, SMTT(60)
<1>7. ASSUME NEW i \in 1..Len(c) PROVE s[n + i] = c[i]
  <2>1. n + i \in 1..n + Len(c) /\ n + i > n /\ (n + i) - n = i /\ n + i \in 1..Len(abc) + Len(d)
        /\ n + i <= Len(abc)
    BY <1>1, <1>5
  <2> HIDE DEF n
  <2> QED
    BY <1>3, <1>4, <1>5, <2>1
<1>8. ASSUME NEW i \in 1..Len(d) PROVE s[n + Len(c) + i] = d[i]
  <2> DEFINE m == n + Len(c)
  <2>1. m + i \in 1..m + Len(d) /\ m + i > m /\ (m + i) - m = i /\ m = Len(abc)
    BY <1>1, <1>5
  <2> HIDE DEF m
  <2>2. s[m + i] = d[i]
    BY <1>4, <2>1
  <2> QED
    BY <2>2 DEF m
<1>9. Joined(s, S, a, b, c, d)
  BY <1>4, <1>5, <1>6, <1>7, <1>8, Zenon DEF Joined
<1> QED
  BY <1>9 DEF s, abc, ab

\* What the processor pushes for an interrupt.
LEMMA Entered ==
    ASSUME StubTypes, NEW v \in 0..33, NEW ret \in Places,
           NEW f \in Frames, f.vector = v, f.at = ret, f.regs = regs, f.depth = Len(stack)
    PROVE  LET pad == IF Len(stack) % 2 = 0 THEN <<>> ELSE <<Junk>>
               frame == <<Plain("selector"), Address(Len(stack)), regs["rflags"],
                          Plain("selector"), Code(ret)>>
               error == IF HasErrorCode(v) THEN <<Plain("error")>> ELSE <<>>
               s == stack \o pad \o frame \o error
           IN  /\ s \in Seq(Word) /\ Len(stack) <= Len(s)
               /\ \A j \in 1..Len(stack) : s[j] = stack[j]
               /\ FrameKept(f, [vector |-> v, pc |-> 1], Len(s), s)
<1> DEFINE pad == IF Len(stack) % 2 = 0 THEN <<>> ELSE <<Junk>>
           frame == <<Plain("selector"), Address(Len(stack)), regs["rflags"],
                      Plain("selector"), Code(ret)>>
           error == IF HasErrorCode(v) THEN <<Plain("error")>> ELSE <<>>
           s == stack \o pad \o frame \o error
<1>1. /\ stack \in Seq(Word) /\ Len(stack) \in Nat /\ regs \in [Registers -> Word]
      /\ ret.vector \in task..33 /\ ret.pc \in Nat
  BY DEF StubTypes, Places
<1>2. /\ Junk \in Word /\ Plain("selector") \in Word /\ Plain("error") \in Word
      /\ Address(Len(stack)) \in Word /\ Code(ret) \in Word /\ regs["rflags"] \in Word
  <2>1. 0 \in task..33
    BY DEF task
  <2> QED
    BY <1>1, <2>1 DEF Junk, Plain, Address, Code, Word, Registers
<1>3. /\ pad \in Seq(Word) /\ Len(pad) = Len(stack) % 2
      /\ frame \in Seq(Word) /\ Len(frame) = 5
      /\ frame[2] = Address(Len(stack)) /\ frame[3] = regs["rflags"]
      /\ frame[4] = Plain("selector") /\ frame[5] = Code(ret)
      /\ error \in Seq(Word) /\ Len(error) = (IF HasErrorCode(v) THEN 1 ELSE 0)
      /\ HasErrorCode(v) => error[1] = Plain("error")
  <2>1. pad \in Seq(Word) /\ Len(pad) = Len(stack) % 2
    <3>1. Len(stack) % 2 = 0 \/ Len(stack) % 2 = 1
      BY <1>1
    <3> QED
      BY <1>2, <3>1
  <2>2. /\ frame \in Seq(Word) /\ Len(frame) = 5
        /\ frame[2] = Address(Len(stack)) /\ frame[3] = regs["rflags"]
        /\ frame[4] = Plain("selector") /\ frame[5] = Code(ret)
    BY <1>2
  <2>3. /\ error \in Seq(Word) /\ Len(error) = (IF HasErrorCode(v) THEN 1 ELSE 0)
        /\ HasErrorCode(v) => error[1] = Plain("error")
    BY <1>2
  <2> QED
    BY <2>1, <2>2, <2>3
<1> HIDE DEF pad, frame, error
<1>4. /\ s \in Seq(Word) /\ Len(s) = Len(stack) + Len(pad) + Len(frame) + Len(error)
      /\ \A i \in 1..Len(stack) : s[i] = stack[i]
      /\ \A i \in 1..Len(frame) : s[Len(stack) + Len(pad) + i] = frame[i]
      /\ \A i \in 1..Len(error) : s[Len(stack) + Len(pad) + Len(frame) + i] = error[i]
  <2>1. stack \in Seq(Word) /\ pad \in Seq(Word) /\ frame \in Seq(Word) /\ error \in Seq(Word)
    BY <1>1, <1>3
  <2>2. Joined(s, Word, stack, pad, frame, error)
    BY ONLY <2>1, FourParts, Zenon DEF s
  <2> QED
    BY ONLY <2>2, Zenon DEF Joined
<1> HIDE DEF s
<1> DEFINE u == Under(f)
<1>5. u = Len(stack) + Len(pad) /\ u \in Nat /\ Len(stack) <= u
  BY <1>1, <1>3, SMTT(60) DEF Under
<1> HIDE DEF u
<1>6. /\ s[u + 2] = Address(Len(stack)) /\ s[u + 3] = regs["rflags"]
      /\ s[u + 4] = Plain("selector") /\ s[u + 5] = Code(ret)
  <2>1. \A i \in 1..5 : s[u + i] = frame[i]
    BY <1>3, <1>4, <1>5
  <2> QED
    BY <1>3, <2>1
<1>7. HasErrorCode(v) => s[u + 6] = Plain("error")
  <2> SUFFICES ASSUME HasErrorCode(v) PROVE s[u + 6] = Plain("error")
    OBVIOUS
  <2>1. 1 \in 1..Len(error) /\ u + Len(frame) + 1 = u + 6
    BY <1>3, <1>5
  <2> QED
    BY <1>3, <1>4, <1>5, <2>1
<1>8. Base(f) = u + (IF HasErrorCode(v) THEN 6 ELSE 5) /\ Len(s) = Base(f)
  <2>1. Base(f) = u + (IF HasErrorCode(v) THEN 6 ELSE 5)
    <3>1. f.vector = v
      OBVIOUS
    <3> QED
      BY ONLY <3>1, Zenon DEF Base, u
  <2>2. Len(s) = u + 5 + (IF HasErrorCode(v) THEN 1 ELSE 0)
    BY <1>3, <1>4, <1>5
  <2> QED
    BY ONLY <1>5, <2>1, <2>2
<1>9. Pushed(v, 1) = 0 /\ 1 \in 1..StubLength(v)
  <2>1. Pushed(v, 1) = 0 /\ StubLength(v) \in {3, 4, 19}
    <3>1. CASE Saves(v)
      BY <3>1, StubShape
    <3>2. CASE ~Saves(v)
      <4>1. StubLength(v) \in 3..4 /\ Pushed(v, 1) = 0
        BY <3>2, StubShape
      <4> QED
        BY ONLY <4>1
    <3> QED
      BY <3>1, <3>2
  <2> QED
    BY ONLY <2>1
<1>10. \A k \in 1..8 : ~(Base(f) + k <= Len(s))
  BY <1>5, <1>8
<1> DEFINE l == [vector |-> v, pc |-> 1]
<1>11. FrameKept(f, l, Len(s), s)
  <2>1. l.vector = v /\ l.pc = 1 /\ Len(s) = Base(f) + 0
    BY <1>5, <1>8
  <2> HIDE DEF l
  <2> QED
    BY <1>6, <1>7, <1>9, <1>10, <2>1 DEF FrameKept, u
<1>12. Len(stack) <= Len(s)
  BY <1>1, <1>5, <1>8
<1> QED
  BY <1>4, <1>11, <1>12, Zenon DEF s, pad, frame, error, l

\* An interrupt of the stub on top, or of the task when there is none.
LEMMA DeliverKeeps ==
    ASSUME StubInv, NEW v \in 0..33, NEW ret \in Places,
           frames # <<>> => ret = at, frames = <<>> => ret.vector = task, Deliver(v, ret)
    PROVE  StubInv'
<1> DEFINE n == Len(frames)
           before == [vector |-> v, at |-> ret, regs |-> regs, depth |-> Len(stack),
                      disturbed |-> FALSE]
           older == [i \in DOMAIN frames |-> [frames[i] EXCEPT !.disturbed = TRUE]]
           pad == IF Len(stack) % 2 = 0 THEN <<>> ELSE <<Junk>>
           frame == <<Plain("selector"), Address(Len(stack)), regs["rflags"],
                      Plain("selector"), Code(ret)>>
           error == IF HasErrorCode(v) THEN <<Plain("error")>> ELSE <<>>
           s == stack \o pad \o frame \o error
<1>1. CASE UNCHANGED <<regs, stack, at, frames>>
  BY <1>1, Zenon DEF StubInv, StubTypes, Nested, StubsKept, TopRestored, Spot, Extent, Left
<1>2. CASE ~ UNCHANGED <<regs, stack, at, frames>>
  <2>1. /\ stack' = s /\ regs' = [regs EXCEPT !["rflags"] = Masked(@)]
        /\ at' = [vector |-> v, pc |-> 1] /\ frames' = Append(older, before)
    BY <1>2, Zenon DEF Deliver
  <2>2. /\ StubTypes /\ n \in Nat /\ DOMAIN frames = 1..n /\ frames \in Seq(Frames)
        /\ stack \in Seq(Word) /\ Len(stack) \in Nat /\ regs \in [Registers -> Word]
        /\ \A i \in 1..n : frames[i] \in Frames
    BY DEF StubInv, StubTypes
  <2>3. before \in Frames
    BY <2>2 DEF Frames
  <2>4. /\ s \in Seq(Word) /\ Len(stack) <= Len(s) /\ \A j \in 1..Len(stack) : s[j] = stack[j]
        /\ FrameKept(before, [vector |-> v, pc |-> 1], Len(s), s)
    <3>1. before.vector = v /\ before.at = ret /\ before.regs = regs /\ before.depth = Len(stack)
      OBVIOUS
    <3> HIDE DEF before
    <3> QED
      BY <2>2, <2>3, <3>1, Entered, ZenonT(60)
  <2> HIDE DEF s
  <2>5. /\ stack' \in Seq(Word) /\ Len(stack) <= Len(stack')
        /\ \A j \in 1..Len(stack) : stack'[j] = stack[j]
        /\ FrameKept(before, at', Len(stack'), stack')
    BY <2>1, <2>4
  <2>6. \A i \in 1..n : /\ older[i] \in Frames /\ older[i].vector = frames[i].vector
                        /\ older[i].at = frames[i].at /\ older[i].regs = frames[i].regs
                        /\ older[i].depth = frames[i].depth /\ older[i].disturbed = TRUE
    BY <2>2 DEF Frames
  <2>7. older \in Seq(Frames) /\ Len(older) = n
    <3>1. older \in [1..n -> Frames]
      BY <2>2, <2>6
    <3> HIDE DEF older
    <3> QED
      BY <2>2, <3>1
  <2> HIDE DEF older
  <2>8. /\ before.vector = v /\ before.at = ret /\ before.regs = regs
        /\ before.depth = Len(stack) /\ before.disturbed = FALSE
    OBVIOUS
  <2> HIDE DEF before
  <2>9. /\ frames' \in Seq(Frames) /\ Len(frames') = n + 1 /\ DOMAIN frames' = 1..n + 1
        /\ frames'[n + 1] = before /\ \A i \in 1..n : frames'[i] = older[i]
    BY <2>1, <2>2, <2>3, <2>7
  <2>10. n = Len(frames)
    OBVIOUS
  <2> HIDE DEF n
  <2>11. /\ "rflags" \in Registers /\ Masked(regs["rflags"]) \in Word
         /\ at' \in Places /\ at'.vector = v /\ at'.pc = 1 /\ v # task
    <3>1. /\ "rflags" \in Registers /\ \A w \in Word : Masked(w) \in Word
          /\ \A w \in 0..33 : [vector |-> w, pc |-> 1] \in Places /\ w # task
      <4>1. ASSUME NEW w \in Word PROVE Masked(w) \in Word
        BY ONLY TRUE DEF Masked, Word
      <4>2. "rflags" \in Registers /\ \A w \in 0..33 : [vector |-> w, pc |-> 1] \in Places /\ w # task
        BY ONLY TRUE DEF Registers, Places, task
      <4> QED
        BY <4>1, <4>2
    <3>2. regs["rflags"] \in Word
      BY <2>2, <3>1
    <3> QED
      BY <2>1, <3>1, <3>2
  <2>12. /\ regs' \in [Registers -> Word] /\ regs'["rflags"] = Masked(regs["rflags"])
         /\ \A r \in Registers : r # "rflags" => regs'[r] = regs[r]
    BY <2>1, <2>2, <2>11
  <2>13. StubTypes'
    BY <2>5, <2>9, <2>11, <2>12 DEF StubTypes
  <2>14. /\ \A i \in 1..n : frames[i].depth <= Len(stack) /\ frames[i].depth \in Nat
         /\ \A i, j \in 1..n : i < j => frames[i].depth <= frames[j].depth
         /\ n # 0 => frames[1].at.vector = task
    <3>1. \A i \in 1..n : frames[i].depth \in Nat
      BY <2>2 DEF Frames
    <3>2. n # 0 => frames # <<>>
      BY <2>2, <2>10
    <3> QED
      BY <2>2, <3>1, <3>2 DEF StubInv, Nested
  <2>15. ASSUME NEW i \in 1..n
         PROVE  /\ Spot(frames', at', i) = Spot(frames, at, i)
                /\ Extent(frames', stack', i) = Extent(frames, stack, i)
                /\ Left(frames', regs', i) = Left(frames, regs, i)
                /\ Extent(frames, stack, i) \in Nat /\ Extent(frames, stack, i) <= Len(stack)
    <3>1. i # Len(frames') /\ i + 1 \in 1..n + 1
      BY <2>2, <2>9
    <3>2. CASE i = n
      <4>1. frames'[i + 1] = before /\ frames # <<>>
        BY <2>2, <2>9, <2>10, <3>2
      <4> QED
        BY <2>2, <2>8, <2>10, <3>1, <3>2, <4>1 DEF Spot, Extent, Left
    <3>3. CASE i # n
      <4>1. i + 1 \in 1..n /\ frames'[i + 1] = older[i + 1]
        BY <2>2, <2>9, <3>3
      <4> QED
        BY <2>6, <2>10, <2>14, <3>1, <3>3, <4>1 DEF Spot, Extent, Left
    <3> QED
      BY <3>2, <3>3
  <2>16. StubsKept'
    <3> SUFFICES ASSUME NEW i \in 1..n + 1
                 PROVE  /\ FrameKept(frames'[i], Spot(frames', at', i), Extent(frames', stack', i), stack')
                        /\ \A r \in CalleeSaved : Left(frames', regs', i)[r] = frames'[i].regs[r]
      BY <2>9 DEF StubsKept
    <3>1. CASE i = n + 1
      <4>1. \A r \in CalleeSaved : regs'[r] = regs[r]
        BY <2>12 DEF CalleeSaved, Registers
      <4> QED
        BY <2>5, <2>8, <2>9, <3>1, <4>1 DEF Spot, Extent, Left
    <3>2. CASE i # n + 1
      <4>1. i \in 1..n
        BY <2>2, <3>2
      <4>2. /\ FrameKept(frames[i], Spot(frames, at, i), Extent(frames, stack, i), stack)
            /\ \A r \in CalleeSaved : Left(frames, regs, i)[r] = frames[i].regs[r]
        BY <2>2, <4>1 DEF StubInv, StubsKept
      <4>3. Spot(frames, at, i) \in Places
        <5>1. i + 1 \in 1..n \/ i = n
          BY <2>2, <4>1
        <5>2. at \in Places /\ \A j \in 1..n : frames[j].at \in Places
          BY <2>2 DEF StubTypes, Frames
        <5> QED
          BY <2>10, <5>1, <5>2 DEF Spot
      <4>4. \A j \in 1..Extent(frames, stack, i) : stack'[j] = stack[j]
        BY <2>2, <2>5, <2>15, <4>1
      <4>5. FrameKept(frames'[i], Spot(frames, at, i), Extent(frames, stack, i), stack')
        <5>1. /\ frames'[i] \in Frames /\ frames[i] \in Frames /\ frames'[i].vector = frames[i].vector
              /\ frames'[i].at = frames[i].at /\ frames'[i].regs = frames[i].regs
              /\ frames'[i].depth = frames[i].depth /\ frames'[i].disturbed
          BY <2>2, <2>6, <2>9, <4>1
        <5> QED
          BY <4>2, <4>3, <4>4, <5>1, FrameStays
      <4>6. frames'[i].regs = frames[i].regs
        BY <2>6, <2>9, <4>1
      <4> QED
        BY <2>15, <4>1, <4>2, <4>5, <4>6
    <3> QED
      BY <3>1, <3>2
  <2>17. Nested'
    <3>1. at'.vector # task /\ frames' # <<>>
      BY <2>2, <2>9, <2>11
    <3>2. frames'[1].at.vector = task
      <4>1. CASE n = 0
        BY <2>8, <2>9, <2>10, <2>2, <4>1
      <4>2. CASE n # 0
        <5>1. 1 \in 1..n
          BY <2>2, <4>2
        <5> QED
          BY <2>6, <2>9, <2>14, <4>2, <5>1
      <4> QED
        BY <4>1, <4>2
    <3>3. \A i \in 1..n + 1 : i \in 1..n \/ i = n + 1
      BY <2>2
    <3>4. \A i \in 1..n + 1 : frames'[i].depth <= Len(stack)
      BY <2>2, <2>6, <2>8, <2>9, <2>14, <3>3, SMTT(60)
    <3>5. \A i \in 1..n + 1 : frames'[i].depth <= Len(stack') /\ frames'[i].depth \in Nat
      <4>1. \A i \in 1..n + 1 : frames'[i].depth \in Nat
        BY <2>2, <2>6, <2>8, <2>9, <2>14, <3>3
      <4>2. Len(stack') \in Nat
        BY <2>5
      <4> HIDE DEF n
      <4> QED
        BY <2>2, <2>5, <3>4, <4>1, <4>2
    <3>6. \A i, j \in 1..n + 1 : i < j => frames'[i].depth <= frames'[j].depth
      <4> SUFFICES ASSUME NEW i \in 1..n + 1, NEW j \in 1..n + 1, i < j
                   PROVE  frames'[i].depth <= frames'[j].depth
        OBVIOUS
      <4>1. CASE j = n + 1
        BY <2>8, <2>9, <3>4, <4>1
      <4>2. CASE j # n + 1
        <5>1. i \in 1..n /\ j \in 1..n
          BY <2>2, <4>2
        <5> QED
          BY <2>6, <2>9, <2>14, <5>1
      <4> QED
        BY <4>1, <4>2
    <3>7. \A i \in 1..n + 1 : i < n + 1 => frames'[i].disturbed
      BY <2>6, <2>9, <3>3
    <3> QED
      BY <2>9, <3>1, <3>2, <3>5, <3>6, <3>7 DEF Nested
  <2>18. TopRestored'
    <3>1. Restored(before, regs', at'.pc)
      <4>1. /\ \A k \in 1..7 : SavedAt[k] \in Registers /\ SavedAt[k] # "rflags"
            /\ SavedAt[8] = "rflags" /\ \A k \in 2..8 : k # 8 => k \in 1..7
        BY SavedSpelled
      <4>2. "rdi" \in Registers /\ "rdi" # "rflags"
        BY DEF Registers
      <4>3. \A k \in 2..8 : regs'[SavedAt[k]] = Found(before, k)
        BY <2>8, <2>12, <4>1 DEF Found
      <4> QED
        BY <2>8, <2>11, <2>12, <4>2, <4>3 DEF Restored
    <3> QED
      BY <2>9, <3>1 DEF TopRestored
  <2> QED
    BY <2>13, <2>16, <2>17, <2>18 DEF StubInv
<1> QED
  BY <1>1, <1>2

-----------------------------------------------------------------------------
(* The invariant. *)

\* What an instruction does, by its place in the stub.
StubStep ==
    \/ \E k \in 1..8 : Saves(at.vector) /\ at.pc = (IF k = 1 THEN 1 ELSE k + 1) /\ Push(SavedAt[k])
    \/ ~Saves(at.vector) /\ at.pc = 1 /\ Load(Junk)
    \/ Saves(at.vector) /\ at.pc = 2 /\ Load(Address(Len(stack)))
    \/ at.vector = GeneralProtection /\ at.pc = 3 /\ Skip
    \/ at.pc = (IF Saves(at.vector) THEN 10 ELSE 2) /\ Returned /\ UNCHANGED printed
    \/ Saves(at.vector) /\ at.pc = 10 /\ contextSwitchISR
    \/ \E k \in 1..8 : Saves(at.vector) /\ at.pc = 19 - k /\ Pop(SavedAt[k])
    \/ at.pc = StubLength(at.vector) /\ Iretq

LEMMA OpActs ==
    ASSUME Instruction, NEW arg
    PROVE  /\ Op = push(arg) => Push(arg)
           /\ Op = pop(arg) => Pop(arg)
           /\ Op = vectorToRdi => Load(Junk)
           /\ Op = rspToRdi => Load(Address(Len(stack)))
           /\ Op = skip2 => Skip
           /\ Op = call(arg) => CallC(arg)
           /\ Op = iretq => Iretq
<1> DEFINE op == Op
<1>1. \/ op[1] = "push" /\ Push(op[2])
      \/ op[1] = "pop" /\ Pop(op[2])
      \/ op[1] = "vector" /\ Load(Junk)
      \/ op[1] = "rsp" /\ Load(Address(Len(stack)))
      \/ op[1] = "skip" /\ Skip
      \/ op[1] = "call" /\ CallC(op[2])
      \/ op[1] = "iretq" /\ Iretq
  BY DEF Instruction
<1> HIDE DEF op
<1>2. /\ op = push(arg) => op[1] = "push" /\ op[2] = arg
      /\ op = pop(arg) => op[1] = "pop" /\ op[2] = arg
      /\ op = vectorToRdi => op[1] = "vector"
      /\ op = rspToRdi => op[1] = "rsp"
      /\ op = skip2 => op[1] = "skip"
      /\ op = call(arg) => op[1] = "call" /\ op[2] = arg
      /\ op = iretq => op[1] = "iretq"
  <2>1. /\ push(arg)[1] = "push" /\ push(arg)[2] = arg
        /\ pop(arg)[1] = "pop" /\ pop(arg)[2] = arg
        /\ call(arg)[1] = "call" /\ call(arg)[2] = arg
        /\ vectorToRdi[1] = "vector" /\ rspToRdi[1] = "rsp" /\ skip2[1] = "skip"
        /\ iretq[1] = "iretq"
    BY DEF push, pop, vectorToRdi, rspToRdi, skip2, call, iretq
  <2> QED
    BY ONLY <2>1, Zenon
<1> QED
  BY <1>1, <1>2 DEF op

LEMMA StubSteps ==
    ASSUME StubInv, Instruction
    PROVE  at.vector # task /\ StubStep
<1>1. at.vector # task
  BY DEF Instruction
<1> DEFINE v == at.vector
           pc == at.pc
<1>2. v \in 0..33 /\ pc \in 1..StubLength(v)
  BY <1>1, TopKept DEF TopFrame
<1>3. /\ \A arg : Op = push(arg) => Push(arg)
      /\ \A arg : Op = pop(arg) => Pop(arg)
      /\ Op = vectorToRdi => Load(Junk)
      /\ Op = rspToRdi => Load(Address(Len(stack)))
      /\ Op = skip2 => Skip
      /\ \A arg : Op = call(arg) => CallC(arg)
      /\ Op = iretq => Iretq
  BY OpActs
<1>4. /\ CallC("PageFaultISR") => Returned /\ UNCHANGED printed
      /\ CallC("generalIRQ") => Returned /\ UNCHANGED printed
      /\ CallC("contextSwitchISR") => contextSwitchISR
  BY DEF CallC, PageFaultISR, generalIRQ
<1>5. Op = isr(v)[pc]
  BY DEF Op
<1> HIDE DEF v, pc
<1>6. \/ Saves(v) /\ pc = 1 /\ Push("rdi")
      \/ Saves(v) /\ pc = 2 /\ Load(Address(Len(stack)))
      \/ Saves(v) /\ pc \in 3..9 /\ Push(SavedAt[pc - 1])
      \/ v = PageFault /\ pc = 10 /\ Returned /\ UNCHANGED printed
      \/ Saves(v) /\ pc = 10 /\ contextSwitchISR
      \/ Saves(v) /\ pc \in 11..18 /\ Pop(SavedAt[19 - pc])
      \/ ~Saves(v) /\ pc = 1 /\ Load(Junk)
      \/ ~Saves(v) /\ pc = 2 /\ Returned /\ UNCHANGED printed
      \/ v = GeneralProtection /\ pc = 3 /\ Skip
      \/ pc = StubLength(v) /\ Iretq
  <2>1. LET op == Op IN
        \/ Saves(v) /\ pc = 1 /\ op = push("rdi")
        \/ Saves(v) /\ pc = 2 /\ op = rspToRdi
        \/ Saves(v) /\ pc \in 3..9 /\ op = push(SavedAt[pc - 1])
        \/ v = PageFault /\ pc = 10 /\ op = call("PageFaultISR")
        \/ Saves(v) /\ v # PageFault /\ pc = 10 /\ op = call("contextSwitchISR")
        \/ Saves(v) /\ pc \in 11..18 /\ op = pop(SavedAt[19 - pc])
        \/ ~Saves(v) /\ pc = 1 /\ op = vectorToRdi
        \/ ~Saves(v) /\ pc = 2 /\ op = call("generalIRQ")
        \/ v = GeneralProtection /\ pc = 3 /\ op = skip2
        \/ pc = StubLength(v) /\ op = iretq
    BY <1>2, <1>5, StubText, SMTT(60)
  <2> QED
    BY <1>3, <1>4, <2>1, Zenon
<1>7. CASE Saves(v) /\ pc = 1 /\ Push("rdi")
  <2>1. SavedAt[1] = "rdi" /\ 1 \in 1..8
    BY SavedSpelled
  <2> QED
    BY <1>1, <1>7, <2>1 DEF StubStep, v, pc
<1>8. CASE Saves(v) /\ pc \in 3..9 /\ Push(SavedAt[pc - 1])
  <2> DEFINE k == pc - 1
  <2>1. k \in 1..8 /\ pc = IF k = 1 THEN 1 ELSE k + 1
    BY <1>8
  <2>2. Push(SavedAt[k])
    BY <1>8
  <2> HIDE DEF k
  <2>3. StubStep
    BY <1>8, <2>1, <2>2, Zenon DEF StubStep, v, pc
  <2> QED
    BY <1>1, <2>3
<1>9. CASE Saves(v) /\ pc \in 11..18 /\ Pop(SavedAt[19 - pc])
  <2> DEFINE k == 19 - pc
  <2>1. k \in 1..8 /\ pc = 19 - k
    BY <1>9
  <2>2. Pop(SavedAt[k])
    BY <1>9
  <2> HIDE DEF k
  <2>3. StubStep
    BY <1>9, <2>1, <2>2, Zenon DEF StubStep, v, pc
  <2> QED
    BY <1>1, <2>3
<1>10. CASE v = PageFault /\ pc = 10 /\ Returned /\ UNCHANGED printed
  <2>1. Saves(v)
    BY <1>10 DEF Saves, PageFault
  <2> QED
    BY <1>1, <1>10, <2>1, Zenon DEF StubStep, v, pc
<1>11. CASE \/ Saves(v) /\ pc = 2 /\ Load(Address(Len(stack)))
            \/ Saves(v) /\ pc = 10 /\ contextSwitchISR
            \/ ~Saves(v) /\ pc = 1 /\ Load(Junk)
            \/ ~Saves(v) /\ pc = 2 /\ Returned /\ UNCHANGED printed
            \/ v = GeneralProtection /\ pc = 3 /\ Skip
            \/ pc = StubLength(v) /\ Iretq
  BY <1>1, <1>11, Zenon DEF StubStep, v, pc
<1> QED
  BY <1>6, <1>7, <1>8, <1>9, <1>10, <1>11

LEMMA InstructionKeeps ==
    ASSUME StubInv, Instruction
    PROVE  StubInv'
<1>1. at.vector # task /\ StubStep
  BY StubSteps
<1>2. at \in Places /\ frames # <<>>
  BY <1>1, TopKept DEF TopFrame
<1>3. 13 \in 0..33 /\ 14 \in 0..33 /\ GeneralProtection = 13 /\ PageFault = 14
  BY DEF GeneralProtection, PageFault
<1>4. ASSUME NEW v \in {13, 14}, Deliver(v, at) PROVE StubInv'
  BY <1>2, <1>3, <1>4, DeliverKeeps
<1>5. ASSUME NEW k \in 1..8, Saves(at.vector), at.pc = (IF k = 1 THEN 1 ELSE k + 1), Push(SavedAt[k])
      PROVE  StubInv'
  BY <1>1, <1>5, PushKeeps
<1>6. ASSUME NEW k \in 1..8, Saves(at.vector), at.pc = 19 - k, Pop(SavedAt[k])
      PROVE  StubInv'
  BY <1>1, <1>6, PopKeeps
<1>7. CASE ~Saves(at.vector) /\ at.pc = 1 /\ Load(Junk)
  <2>1. Junk \in Word
    BY DEF Junk, Plain, Word, task
  <2> QED
    BY <1>1, <1>7, <2>1, LoadKeeps
<1>8. CASE Saves(at.vector) /\ at.pc = 2 /\ Load(Address(Len(stack)))
  <2>1. Len(stack) \in Nat
    BY DEF StubInv, StubTypes
  <2>2. Address(Len(stack)) \in Word
    <3>1. 0 \in task..33
      BY DEF task
    <3> QED
      BY <2>1, <3>1 DEF Address, Plain, Word
  <2> QED
    BY <1>1, <1>8, <2>2, LoadKeeps
<1>9. CASE at.vector = GeneralProtection /\ at.pc = 3 /\ Skip
  BY <1>9, SkipKeeps
<1>10. ASSUME at.pc = (IF Saves(at.vector) THEN 10 ELSE 2), Returned PROVE StubInv'
  BY <1>1, <1>10, CallKeeps
<1>11. CASE Saves(at.vector) /\ at.pc = 10 /\ contextSwitchISR
  <2>1. Returned \/ Deliver(PageFault, at)
    BY <1>11, Zenon DEF contextSwitchISR
  <2> QED
    BY <1>3, <1>4, <1>10, <1>11, <2>1
<1>12. CASE at.pc = StubLength(at.vector) /\ Iretq
  <2>1. CASE GoodFrame /\ Return
    BY <1>1, <1>12, <2>1, ReturnKeeps
  <2>2. CASE Deliver(GeneralProtection, at)
    BY <1>3, <1>4, <2>2
  <2>3. CASE UNCHANGED <<regs, stack, at, printed, frames>>
    BY <2>3, Zenon DEF StubInv, StubTypes, Nested, StubsKept, TopRestored, Spot, Extent, Left
  <2> QED
    BY <1>12, <2>1, <2>2, <2>3 DEF Iretq
<1> QED
  BY <1>1, <1>5, <1>6, <1>7, <1>8, <1>9, <1>10, <1>11, <1>12 DEF StubStep

LEMMA TaskKeeps ==
    ASSUME StubInv, TaskContinues
    PROVE  StubInv'
<1>1. /\ at = [vector |-> task, pc |-> 1] /\ at' = [at EXCEPT !.pc = 0]
      /\ regs' = [r \in Registers |-> Own(r)] /\ stack' = stack /\ frames' = frames
  BY DEF TaskContinues
<1>2. frames = <<>> /\ stack \in Seq(Word)
  BY <1>1 DEF StubInv, Nested, StubTypes
<1>3. at' = [vector |-> task, pc |-> 0] /\ at' \in Places /\ at'.vector = task
  BY <1>1 DEF Places, task
<1>4. regs' \in [Registers -> Word]
  <2>1. \A r \in Registers : Own(r) \in Word
    <3>1. 0 \in task..33
      BY DEF task
    <3> QED
      BY <3>1 DEF Own, Plain, Word
  <2> QED
    BY <1>1, <2>1
<1>5. frames' = <<>> /\ DOMAIN frames' = {}
  BY <1>1, <1>2
<1> QED
  BY <1>1, <1>2, <1>3, <1>4, <1>5 DEF StubInv, StubTypes, Nested, StubsKept, TopRestored

LEMMA StubInit == Init => StubInv
<1> SUFFICES ASSUME Init PROVE StubInv
  OBVIOUS
<1>1. /\ regs = [r \in Registers |-> Own(r)] /\ stack \in {<<>>, <<Junk>>}
      /\ at = [vector |-> task, pc |-> 0] /\ frames = <<>>
  BY DEF Init
<1>2. 0 \in task..33 /\ task \in task..33
  BY DEF task
<1>3. regs \in [Registers -> Word]
  <2>1. \A r \in Registers : Own(r) \in Word
    BY <1>2 DEF Own, Plain, Word
  <2> QED
    BY <1>1, <2>1
<1>4. stack \in Seq(Word)
  <2>1. Junk \in Word
    BY <1>2 DEF Junk, Plain, Word
  <2>2. CASE stack = <<>>
    BY <2>2
  <2>3. CASE stack = <<Junk>>
    BY <2>1, <2>3
  <2> QED
    BY <1>1, <2>2, <2>3
<1>5. at \in Places /\ at.vector = task
  BY <1>1, <1>2 DEF Places
<1>6. DOMAIN frames = {} /\ frames \in Seq(Frames)
  BY <1>1
<1> QED
  BY <1>1, <1>3, <1>4, <1>5, <1>6 DEF StubInv, StubTypes, Nested, StubsKept, TopRestored

\* An interrupt of the task, or one that nothing holds back.
LEMMA OutsideKeeps ==
    ASSUME StubInv, (\E v \in Traps : TaskTraps(v)) \/ (\E v \in Faults : TaskFaults(v)) \/ NonMaskable
    PROVE  StubInv'
<1>1. at \in Places /\ (at.vector = task <=> frames = <<>>)
  BY DEF StubInv, StubTypes, Nested
<1>2. ASSUME NEW v \in Traps, TaskTraps(v) PROVE StubInv'
  <2>1. v \in 0..33
    BY StubAssumption
  <2> DEFINE ret == [at EXCEPT !.pc = 1]
  <2>2. at = [vector |-> task, pc |-> 0] /\ Deliver(v, ret)
    BY <1>2 DEF TaskTraps
  <2>3. ret \in Places /\ ret.vector = task /\ frames = <<>>
    BY <1>1, <2>2 DEF Places
  <2> HIDE DEF ret
  <2> QED
    BY <2>1, <2>2, <2>3, DeliverKeeps
<1>3. ASSUME NEW v \in Faults, TaskFaults(v) PROVE StubInv'
  <2>1. v \in 0..33
    BY StubAssumption
  <2>2. at.vector = task /\ Deliver(v, at)
    BY <1>3 DEF TaskFaults
  <2> QED
    BY <1>1, <2>1, <2>2, DeliverKeeps
<1>4. CASE NonMaskable
  <2>1. Deliver(2, at) /\ 2 \in 0..33
    BY <1>4 DEF NonMaskable, Nmi
  <2> QED
    BY <1>1, <2>1, DeliverKeeps
<1> QED
  BY <1>2, <1>3, <1>4

\* At every instruction of every stub, however interrupts nest: the frame of each
\* interrupt in progress is where its stub will look for it, under the words that stub
\* has pushed and not yet popped, and so are the registers saved among them (idt.S:14-274).
THEOREM StubInvariant == Spec => []StubInv
<1>1. Init => StubInv
  BY StubInit
<1>2. StubInv /\ [Next]_vars => StubInv'
  <2> SUFFICES ASSUME StubInv, [Next]_vars PROVE StubInv'
    OBVIOUS
  <2>1. CASE Instruction
    BY <2>1, InstructionKeeps
  <2>2. CASE TaskContinues
    BY <2>2, TaskKeeps
  <2>3. CASE (\E v \in Traps : TaskTraps(v)) \/ (\E v \in Faults : TaskFaults(v)) \/ NonMaskable
    BY <2>3, OutsideKeeps
  <2>4. CASE UNCHANGED vars
    <3>1. UNCHANGED <<regs, stack, at, frames>>
      BY <2>4 DEF vars
    <3> QED
      BY <3>1, Zenon DEF StubInv, StubTypes, Nested, StubsKept, TopRestored, Spot, Extent, Left
  <2> QED
    BY <2>1, <2>2, <2>3, <2>4 DEF Next
<1> QED
  BY <1>1, <1>2, PTL DEF Spec

-----------------------------------------------------------------------------
(* What the steps do. *)

LEMMA DeliveriesAdd ==
    ASSUME StubInv, NEW v, NEW ret, Deliver(v, ret)
    PROVE  ~Returning /\ UNCHANGED printed
<1>1. frames \in Seq(Frames)
  BY DEF StubInv, StubTypes
<1> DEFINE older == [i \in DOMAIN frames |-> [frames[i] EXCEPT !.disturbed = TRUE]]
<1>2. Len(older) = Len(frames) /\ Len(frames) \in Nat /\ older \in Seq({older[i] : i \in DOMAIN frames})
  BY <1>1
<1>3. (\E f : frames' = Append(older, f)) \/ frames' = frames
  BY Zenon DEF Deliver
<1> HIDE DEF older
<1>4. UNCHANGED printed
  BY Zenon DEF Deliver
<1>5. \A f : Len(Append(older, f)) = Len(older) + 1
  BY <1>2
<1> QED
  BY <1>2, <1>3, <1>4, <1>5 DEF Returning

\* The number of interrupts in progress falls, and what was printed changes, in one
\* way each.
LEMMA StepsReturn ==
    ASSUME StubInv, [Next]_vars
    PROVE  /\ Returning =>
                /\ at.vector # task /\ at.pc = StubLength(at.vector)
                /\ GoodFrame /\ Return
           /\ printed' # printed =>
                /\ at.vector # task /\ Saves(at.vector) /\ at.pc = 10
                /\ contextSwitchISR /\ ~ \E ret : Deliver(PageFault, ret)
<1>1. UNCHANGED frames => ~Returning
  <2>1. Len(frames) \in Nat
    BY DEF StubInv, StubTypes
  <2> QED
    BY <2>1 DEF Returning
<1>2. ASSUME NEW v, NEW ret, Deliver(v, ret) PROVE ~Returning /\ UNCHANGED printed
  BY <1>2, DeliveriesAdd
<1>3. CASE Instruction
  <2>1. at.vector # task /\ StubStep
    BY <1>3, StubSteps
  <2>2. CASE Saves(at.vector) /\ at.pc = 10 /\ contextSwitchISR
    <3>1. Returned \/ Deliver(PageFault, at)
      BY <2>2, Zenon DEF contextSwitchISR
    <3>2. Returned => UNCHANGED frames
      BY Zenon DEF Returned
    <3> QED
      BY <1>1, <1>2, <2>1, <2>2, <3>1, <3>2
  <2>3. CASE at.pc = StubLength(at.vector) /\ Iretq
    <3>1. \/ GoodFrame /\ Return
          \/ Deliver(GeneralProtection, at)
          \/ UNCHANGED <<frames, printed>>
      BY <2>3, Zenon DEF Iretq
    <3>2. Return => UNCHANGED printed
      BY Zenon DEF Return
    <3> QED
      BY <1>1, <1>2, <2>1, <2>3, <3>1, <3>2
  <2>4. CASE \/ \E k \in 1..8 : Push(SavedAt[k])
             \/ \E k \in 1..8 : Pop(SavedAt[k])
             \/ \E word : Load(word)
             \/ Skip
             \/ Returned /\ UNCHANGED printed
    <3>1. UNCHANGED frames /\ UNCHANGED printed
      BY <2>4, Zenon DEF Push, Pop, Load, Skip, Returned
    <3> QED
      BY <1>1, <3>1
  <2> QED
    BY <2>1, <2>2, <2>3, <2>4 DEF StubStep
<1>4. CASE TaskContinues \/ UNCHANGED vars
  <2>1. UNCHANGED frames /\ UNCHANGED printed
    BY <1>4, Zenon DEF TaskContinues, vars
  <2> QED
    BY <1>1, <2>1
<1>5. CASE (\E v \in Traps : TaskTraps(v)) \/ (\E v \in Faults : TaskFaults(v)) \/ NonMaskable
  <2>1. \E v, ret : Deliver(v, ret)
    BY <1>5 DEF TaskTraps, TaskFaults, NonMaskable
  <2> QED
    BY <1>2, <2>1
<1> QED
  BY <1>3, <1>4, <1>5 DEF Next

LEMMA ReturnsAsFound ==
    ASSUME StubInv, [Next]_vars, Returning
    PROVE  LET f == Last(frames) IN
           /\ TopFrame(f) /\ at.pc = StubLength(f.vector)
           /\ ~HasErrorCode(f.vector) /\ at' = f.at /\ Len(stack') = f.depth
           /\ \A r \in CalleeSaved \union {"rflags"} : regs'[r] = f.regs[r]
           /\ \A r \in Registers : r # "rflags" => regs'[r] = regs[r]
<1> DEFINE f == frames[Len(frames)]
<1>1. /\ at.vector # task /\ at.pc = StubLength(at.vector) /\ GoodFrame /\ Return
  BY StepsReturn
<1>2. TopFrame(f)
  BY <1>1, TopKept
<1>3. f = Last(frames)
  BY DEF Last
<1> HIDE DEF f
<1>4. at.pc = StubLength(f.vector)
  BY <1>1, <1>2 DEF TopFrame
<1>5. /\ ~HasErrorCode(f.vector) /\ at' = f.at /\ Len(stack') = f.depth
      /\ regs'["rflags"] = f.regs["rflags"]
      /\ \A r \in Registers : r # "rflags" => regs'[r] = regs[r]
  BY <1>1, <1>2, <1>4, ReturnGives
<1>6. \A r \in CalleeSaved : r \in Registers /\ r # "rflags" /\ regs[r] = f.regs[r]
  BY <1>2 DEF TopFrame, CalleeSaved, Registers
<1>7. \A r \in CalleeSaved \union {"rflags"} : regs'[r] = f.regs[r]
  BY <1>5, <1>6
<1> QED
  BY <1>2, <1>3, <1>4, <1>5, <1>7

\* An iretq that succeeds resumes the code that was interrupted, with its stack, its
\* flags and the registers a C function keeps (idt.S:14-274).
THEOREM ReturnsRight == Spec => ReturnsToInterrupted
<1>1. StubInv /\ [Next]_vars =>
        [Returning =>
            LET f == Last(frames) IN
            /\ at' = f.at
            /\ Len(stack') = f.depth
            /\ \A r \in CalleeSaved \union {"rflags"} : regs'[r] = f.regs[r]]_vars
  BY ReturnsAsFound
<1> QED
  BY <1>1, StubInvariant, PTL DEF Spec, ReturnsToInterrupted

\* No interrupt with an error code is ever returned from (idt.S:97, idt.S:274).
THEOREM NoFaultResumes == Spec => FaultNeverResumes
<1>1. StubInv /\ [Next]_vars => [Returning => ~HasErrorCode(Last(frames).vector)]_vars
  BY ReturnsAsFound
<1> QED
  BY <1>1, StubInvariant, PTL DEF Spec, FaultNeverResumes

\* isr_ctxtsw, undisturbed, gives back every register it saves (idt.S:225-246).
THEOREM ContextRestored == Spec => ContextKept
<1>1. StubInv /\ [Next]_vars =>
        [Returning =>
            LET f == Last(frames) IN
            f.vector \in {5, 33} /\ ~f.disturbed => \A r \in Saved : regs'[r] = f.regs[r]]_vars
  <2> SUFFICES ASSUME StubInv, [Next]_vars, Returning,
                      NEW f, f = Last(frames), f.vector \in {5, 33}, ~f.disturbed, NEW r \in Saved
               PROVE  regs'[r] = f.regs[r]
    BY Zenon
  <2>1. /\ TopFrame(f) /\ at.pc = StubLength(f.vector)
        /\ regs'["rflags"] = f.regs["rflags"]
        /\ \A q \in Registers : q # "rflags" => regs'[q] = regs[q]
    BY ReturnsAsFound
  <2>2. Saves(f.vector) /\ StubLength(f.vector) = 19
    BY DEF Saves, StubLength
  <2>3. Restored(f, regs, 19)
    BY <2>1, <2>2 DEF TopFrame
  <2>4. \A k \in 1..7 : regs[SavedAt[k]] = f.regs[SavedAt[k]]
    <3>1. SavingPushed[19] = 0
      BY PushedSpelled
    <3>2. 19 > 10 /\ \A k \in 1..7 : k > 0
      OBVIOUS
    <3> QED
      BY ONLY <2>3, <3>1, <3>2 DEF Restored
  <2>5. r = "rflags" \/ \E k \in 1..7 : r = SavedAt[k]
    <3>1. /\ SavedAt[1] = "rdi" /\ SavedAt[2] = "rax" /\ SavedAt[3] = "rcx" /\ SavedAt[4] = "rdx"
          /\ SavedAt[5] = "rbx" /\ SavedAt[6] = "rbp" /\ SavedAt[7] = "rsi"
      BY DEF SavedAt
    <3>2. r \in {"rax", "rcx", "rdx", "rbx", "rbp", "rsi", "rdi", "rflags"}
      BY DEF Saved
    <3> QED
      BY <3>1, <3>2
  <2>6. CASE r = "rflags"
    BY <2>1, <2>6
  <2>7. ASSUME NEW k \in 1..7, r = SavedAt[k] PROVE regs'[r] = f.regs[r]
    <3>1. SavedAt[k] \in Registers /\ SavedAt[k] # "rflags"
      BY SavedSpelled
    <3> QED
      BY <2>1, <2>4, <2>7, <3>1
  <2> QED
    BY <2>5, <2>6, <2>7
<1> QED
  BY <1>1, StubInvariant, PTL DEF Spec, ContextKept

\* contextSwitchISR, undisturbed, prints the general registers of the code that was
\* interrupted (idt.cpp:22-47).  The flags it prints, those of idt.S:234, are the
\* interrupted code's without the interrupt flag, which the processor cleared before.
THEOREM ContextRead == Spec => ContextPrinted
<1>1. StubInv /\ [Next]_vars =>
        [printed' # printed =>
            LET f == Last(frames) IN
            ~f.disturbed =>
                /\ \A r \in DOMAIN Field \ {"rflags"} : printed'[r] = f.regs[r]
                /\ printed'["rflags"] = Masked(f.regs["rflags"])]_vars
  <2> SUFFICES ASSUME StubInv, [Next]_vars, printed' # printed,
                      NEW f, f = Last(frames), ~f.disturbed
               PROVE  /\ \A r \in DOMAIN Field \ {"rflags"} : printed'[r] = f.regs[r]
                      /\ printed'["rflags"] = Masked(f.regs["rflags"])
    BY Zenon
  <2>1. /\ at.vector # task /\ Saves(at.vector) /\ at.pc = 10
        /\ contextSwitchISR /\ ~Deliver(PageFault, at)
    BY StepsReturn
  <2>2. TopFrame(f)
    BY <2>1, TopKept DEF Last
  <2>3. /\ Saves(f.vector) /\ f.vector \in 0..33 /\ Restored(f, regs, 10)
        /\ Len(stack) = Base(f) + Pushed(f.vector, 10) /\ Base(f) \in Nat
        /\ FrameKept(f, at, Len(stack), stack)
    BY <2>1, <2>2 DEF TopFrame
  <2>4. regs["rdi"] = Address(Base(f) + 1)
    BY <2>3 DEF Restored
  <2>5. regs["rdi"].kind = "address" /\ regs["rdi"].pc = Base(f) + 1
    BY <2>4 DEF Address, Plain
  <2>6. printed' = [q \in DOMAIN Field |-> stack[regs["rdi"].pc + Field[q]]]
    BY <2>1, <2>5, Zenon DEF contextSwitchISR
  <2>7. ASSUME NEW r \in DOMAIN Field, NEW k \in 1..8, Field[r] = k - 1
        PROVE  printed'[r] = Found(f, k)
    <3>1. Pushed(f.vector, 10) = 8
      BY <2>3, StubShape
    <3>2. Base(f) + k <= Len(stack) /\ (Base(f) + 1) + Field[r] = Base(f) + k
      BY <2>3, <2>7, <3>1
    <3>3. Known(f, k)
      BY DEF Known
    <3>4. stack[Base(f) + k] = Found(f, k)
      BY <2>3, <3>2, <3>3 DEF FrameKept
    <3> QED
      BY <2>5, <2>6, <3>2, <3>4
  <2>8. /\ Field.rdi = 0 /\ Field.rax = 1 /\ Field.rcx = 2 /\ Field.rdx = 3 /\ Field.rbx = 4
        /\ Field.rbp = 5 /\ Field.rsi = 6 /\ Field.rflags = 7
        /\ DOMAIN Field = {"rdi", "rax", "rcx", "rdx", "rbx", "rbp", "rsi", "rflags"}
    BY DEF Field
  <2>9. /\ SavedAt[1] = "rdi" /\ SavedAt[2] = "rax" /\ SavedAt[3] = "rcx" /\ SavedAt[4] = "rdx"
        /\ SavedAt[5] = "rbx" /\ SavedAt[6] = "rbp" /\ SavedAt[7] = "rsi"
    BY DEF SavedAt
  <2>10. ASSUME NEW r \in DOMAIN Field \ {"rflags"} PROVE printed'[r] = f.regs[r]
    <3>1. \E k \in 1..7 : Field[r] = k - 1 /\ r = SavedAt[k]
      <4>1. Field[r] \in 0..6 /\ r = SavedAt[Field[r] + 1]
        BY <2>8, <2>9
      <4>2. Field[r] + 1 \in 1..7 /\ Field[r] = (Field[r] + 1) - 1
        BY <4>1
      <4> QED
        BY <4>1, <4>2
    <3>2. PICK k \in 1..7 : Field[r] = k - 1 /\ r = SavedAt[k]
      BY <3>1
    <3>3. k \in 1..8 /\ k # 8
      OBVIOUS
    <3> QED
      BY <2>7, <3>2, <3>3 DEF Found
  <2>11. printed'["rflags"] = Masked(f.regs["rflags"])
    <3>1. "rflags" \in DOMAIN Field /\ 8 \in 1..8 /\ Field["rflags"] = 8 - 1
      BY <2>8
    <3>2. printed'["rflags"] = Found(f, 8)
      BY <2>7, <3>1
    <3> QED
      BY <3>2 DEF Found
  <2> QED
    BY <2>10, <2>11
<1> QED
  BY <1>1, StubInvariant, PTL DEF Spec, ContextPrinted
=============================================================================
