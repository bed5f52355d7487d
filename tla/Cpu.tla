-------------------------------- MODULE Cpu --------------------------------
(***************************************************************************)
(* One instruction of the J-11 (core_step of core/core.c): fetch, operand  *)
(* addressing, the accesses it makes, and what happens when an access is   *)
(* refused in the middle: the trap is taken inside the access, fAbort is   *)
(* set, and the code of the instruction has to notice and leave.  After    *)
(* the instruction come the trace trap, the yellow stack trap and the      *)
(* interrupts.                                                             *)
(*                                                                         *)
(* A machine m is threaded through operators named for the functions of    *)
(* the code; Access numbers the accesses of a step, and those numbered in  *)
(* m.fails are refused, by the MMU or by the bus.  The PC counts from the  *)
(* start of the instruction, so it starts each step at 0, and HandlerPc    *)
(* stands for what a vector holds.  Every word read gives m.value.         *)
(* Results, condition codes (module Alu) and floating point are left out,  *)
(* but for the codes an instruction sets after its own fault.              *)
(* Vectors and locations 0 to 7 of kernel space are in memory: their loads *)
(* are not refused (a refused vector load of the code calls itself without *)
(* end).  CSM finds its handler in supervisor space, by an access like any *)
(* other.                                                                  *)
(***************************************************************************)
EXTENDS Integers, Sequences, FiniteSets

CONSTANTS
    WordSize,       \* bound: registers count modulo WordSize, 2^16 in the code
    Levels,         \* interrupt levels with a device
    Operands,       \* bound: addressing modes and registers instructions use, <<mode, reg>>
    SecondOperands, \* bound: those of second operands
    Values,         \* bound: values words in memory have
    PoppedPsws,     \* bound: PSWs that RTI finds on the stack
    Ops,            \* bound: instructions the program uses
    Refusals,       \* bound: who refuses accesses, and the numbers of those refused
    MaxSteps        \* bound: number of steps

Regs == {0, 1, 6, 7}
Modes == {0, 1, 3}             \* kernel, supervisor, user
YellowLimit == 8               \* bound: DCJ11_STACK_YEL_LIMIT is 0400
Words == 0 .. WordSize - 1
Psws == [cur : Modes, prev : Modes, set : {0, 1}, ipl : 0 .. 7, t : BOOLEAN]

ASSUME CpuAssumption ==
    /\ WordSize \in Nat /\ WordSize > YellowLimit
    /\ Levels \subseteq 1 .. 7
    /\ Operands \subseteq (0 .. 7) \X Regs /\ SecondOperands \subseteq (0 .. 7) \X Regs
    /\ Values \subseteq Words /\ PoppedPsws \subseteq Psws

HandlerPc == WordSize          \* no other PC is as large

VARIABLES
    m,        \* the machine
    steps     \* bookkeeping for MaxSteps

vars == <<m, steps>>

Word(n) == n % WordSize

-----------------------------------------------------------------------------
(* The PSW, the stack pointers and the register sets.                      *)

Kernel(psw) == psw.cur = 0
InitPsw == [cur |-> 0, prev |-> 0, set |-> 0, ipl |-> 7, t |-> FALSE]

NoBank == <<>>                 \* the register sets before the first switch

\* The bits of a mode or-ed: 01 for supervisor, 11 for user.
OrMode(a, b) == IF a > b THEN a ELSE b

SpInit(x) == IF x.spInit THEN x ELSE [x EXCEPT !.spInit = TRUE, !.sp = [k \in Modes |-> x.r[6]]]

\* Mutant of SwitchStack: the stack pointer of the new mode is not loaded.
SwitchStackSaves(x, new) ==
    IF x.psw.cur = new.cur THEN x ELSE [SpInit(x) EXCEPT !.sp[x.psw.cur] = x.r[6]]

\* dcj11_switch_stack_mode
SwitchStack(x, new) ==
    IF x.psw.cur = new.cur THEN x
    ELSE LET y == [SpInit(x) EXCEPT !.sp[x.psw.cur] = x.r[6]]
         IN  [y EXCEPT !.r[6] = y.sp[new.cur]]

\* dcj11_regset_init: the first switch fills both sets with the registers as they are.
Banks(x) ==
    IF x.bank = NoBank THEN [set \in {0, 1} |-> [k \in {0, 1} |-> x.r[k]]] ELSE x.bank

\* dcj11_switch_regset
SwitchSet(x, new) ==
    IF x.psw.set = new.set THEN x
    ELSE LET bank == Banks(x)
         IN  [x EXCEPT !.bank = [bank EXCEPT ![x.psw.set] = [k \in {0, 1} |-> x.r[k]]],
                       !.r = [k \in Regs |-> IF k \in {0, 1} THEN bank[new.set][k] ELSE x.r[k]]]

\* dcj11_set_psw
SetPsw(x, new) == [SwitchSet(SwitchStack(x, new), new) EXCEPT !.psw = new]

\* trap_psw: what the vectors hold, in kernel mode, with the mode trapped from.
TrapPsw(old, ipl) == [cur |-> 0, prev |-> old.cur, set |-> 0, ipl |-> ipl, t |-> FALSE]

\* Mutant of ProtectPsw: a program outside kernel mode may clear bits of its mode.
ProtectPswLoads(old, new) == [new EXCEPT !.ipl = old.ipl]

\* dcj11_rti_rtt_protect_psw: mode and register set bits may only be set, IPL stays.
ProtectPsw(old, new) ==
    [new EXCEPT !.cur = OrMode(old.cur, @), !.prev = OrMode(old.prev, @),
                !.set = IF old.set = 1 THEN 1 ELSE @, !.ipl = old.ipl]

\* The stack pointer of a mode, wherever it is kept.
StackPointer(x, mode) == IF x.psw.cur = mode \/ ~x.spInit THEN x.r[6] ELSE x.sp[mode]

\* Register k of a register set, which is in use, not told apart yet, or kept.
SetRegister(x, set, k) ==
    IF x.psw.set = set \/ x.bank = NoBank THEN x.r[k] ELSE x.bank[set][k]

-----------------------------------------------------------------------------
(* Traps.                                                                  *)

\* dcj11_note_stack_reference
NoteStack(x) ==
    IF ~x.inStackTrap /\ Kernel(x.psw) /\ x.r[6] < YellowLimit
    THEN [x EXCEPT !.yellow = TRUE, !.did = @ \cup {"yellow"}] ELSE x

\* dcj11_take_red_stack_abort: an access of a trap's own pushes is refused.  The frame
\* of the state before the trap goes to locations 0 and 2, by their physical addresses.
Red(x, pc, psw) ==
    LET before == [SetPsw([x EXCEPT !.yellow = FALSE, !.did = @ \cup {"red"}], psw)
                     EXCEPT !.r[7] = pc]
        y      == SpInit(SetPsw(before, TrapPsw(psw, 7)))
    IN  [y EXCEPT !.sp[0] = 4, !.r = [@ EXCEPT ![6] = 0, ![7] = HandlerPc], !.abort = TRUE,
                  !.frame = [pc |-> pc, psw |-> psw, at |-> 0]]

\* One word of a trap's frame.
PushFrame(x, pc, psw) ==
    LET y == [NoteStack([x EXCEPT !.r[6] = Word(@ - 2)]) EXCEPT !.accesses = @ + 1]
    IN  IF y.accesses \in y.fails THEN Red(y, pc, psw) ELSE y

\* core_take_vector: after an abort nothing is loaded and nothing is pushed.
TakeVector(x, pc, psw, ipl) ==
    IF x.abort THEN x
    ELSE LET one == PushFrame(SetPsw(x, TrapPsw(psw, ipl)), pc, psw)
             two == IF one.abort THEN one ELSE PushFrame(one, pc, psw)
         IN  IF two.abort THEN two
             ELSE [two EXCEPT !.r[7] = HandlerPc,
                              !.frame = [pc |-> pc, psw |-> psw, at |-> two.r[6]]]

\* A trap of the instruction itself.
Trap(x) == TakeVector(x, x.r[7], x.psw, 7)

\* bus_error_trap, and mmu_fault_trap, whose mmu_record_fault stops MMR1 at the first fault.
Refuse(x) ==
    LET noted == IF x.kind = "mmu" THEN [x EXCEPT !.frozen = TRUE] ELSE x
    IN  [TakeVector(noted, x.r[7], x.psw, 7) EXCEPT !.abort = TRUE, !.value = 0, !.did = @ \cup {"refused"}]

\* An access that may be refused.  One made after an abort goes its way, and may be
\* refused in turn.
Access(x) ==
    LET y == [x EXCEPT !.accesses = @ + 1]
    IN  IF y.accesses \in y.fails THEN Refuse(y) ELSE y

\* Push of an instruction.
Push(x) == Access(NoteStack([x EXCEPT !.r[6] = Word(@ - 2)]))

\* mmu_mmr1_record_delta
Delta(x, reg, d) ==
    IF x.frozen \/ Len(x.mmr1) = 2 THEN x ELSE [x EXCEPT !.mmr1 = Append(@, <<reg, d>>)]

\* Mutant of Move: the stepping of the stack pointer is not recorded.
MoveUnrecorded(x, reg, d) ==
    LET y == [x EXCEPT !.r[reg] = Word(@ + d)] IN IF reg = 6 THEN y ELSE Delta(y, reg, d)

Move(x, reg, d) == Delta([x EXCEPT !.r[reg] = Word(@ + d)], reg, d)

-----------------------------------------------------------------------------
(* Operands.                                                               *)

\* decode_data: the accesses and the register changes of an addressing mode.
Decode(x, operand, byte) ==
    LET mode == operand[1]
        reg  == operand[2]
        step == IF byte /\ reg \notin {6, 7} /\ mode \in {2, 4} THEN 1 ELSE 2
    IN  CASE mode < 2        -> x
          [] mode = 2        -> Move(x, reg, step)
          [] mode = 3        -> Access(Move(x, reg, 2))
          [] mode \in {4, 5} -> LET y == Move(x, reg, 0 - step)
                                    z == IF reg = 6 THEN NoteStack(y) ELSE y
                                IN  IF mode = 4 THEN z ELSE Access(z)
          [] mode > 5        -> LET y == Access(x)
                                    z == IF y.abort THEN y ELSE Move(y, 7, 2)
                                IN  IF mode = 6 \/ z.abort THEN z ELSE Access(z)

IsReg(operand) == operand[1] = 0

\* The parts of an instruction: nothing more is done after an abort.
Get(x, operand) == IF x.abort \/ IsReg(operand) THEN x ELSE Access(x)
Put(x, operand) ==
    IF x.abort THEN x
    ELSE IF IsReg(operand) THEN [x EXCEPT !.r[operand[2]] = x.value] ELSE Access(x)
DecodeNext(x, operand, byte) == IF x.abort THEN x ELSE Decode(x, operand, byte)

\* "return 0" after an abort, in place of "goto step_end".
Leave(x) == IF x.abort THEN [x EXCEPT !.did = @ \cup {"left"}] ELSE x

-----------------------------------------------------------------------------
(* Instructions: what the switch statements of core_step do.               *)

\* CLR, SXT, MFPS, WRTLCK: an operand written.
Write(x, dst, byte) == Leave(Put(Decode(x, dst, byte), dst))

\* TST, MUL, DIV, ASH, ASHC, CMP, BIT with a register: an operand read.
Read(x, dst, byte) == Leave(Get(Decode(x, dst, byte), dst))

\* COM, INC, ADC, ROR, SWAB, XOR ...: an operand read and written.
Modify(x, dst, byte) == Leave(Put(Get(Decode(x, dst, byte), dst), dst))

\* MOV and MOVB; CMP and BIT; ADD, SUB, BIC and BIS.
Copy(x, src, dst, byte) ==
    Leave(Put(DecodeNext(Get(Decode(x, src, byte), src), dst, byte), dst))
Compare(x, src, dst, byte) ==
    Leave(Get(DecodeNext(Get(Decode(x, src, byte), src), dst, byte), dst))
Combine(x, src, dst, byte) ==
    Leave(Put(Get(DecodeNext(Get(Decode(x, src, byte), src), dst, byte), dst), dst))

\* MUL and DIV write a register and the odd one beside it.
Multiply(x, dst) ==
    LET y == Read(x, dst, FALSE)
    IN  IF y.abort THEN y ELSE [y EXCEPT !.r[0] = x.value, !.r[1] = x.value]

\* TSTSET: R0 gets the operand before it is written back.
TestAndSet(x, dst) ==
    LET y == Get(Decode(x, dst, FALSE), dst)
    IN  IF IsReg(dst) THEN Trap(x)
        ELSE Leave(IF y.abort THEN y ELSE Put([y EXCEPT !.r[0] = x.value], dst))

Jump(x, dst) ==
    IF IsReg(dst) THEN Trap(x)
    ELSE LET y == Decode(x, dst, FALSE) IN Leave(IF y.abort THEN y ELSE [y EXCEPT !.r[7] = x.value])

\* JSR: an abort of the push goes on to step_end.
Call(x, reg, dst) ==
    IF IsReg(dst) THEN Trap(x)
    ELSE LET y == Leave(Decode(x, dst, FALSE))
             z == IF y.abort THEN y
                  ELSE Access(NoteStack(Move(y, 6, 0 - 2)))
         IN  IF z.abort THEN z
             ELSE [z EXCEPT !.r = [[@ EXCEPT ![reg] = z.r[7]] EXCEPT ![7] = x.value]]

\* pullw, which looks at no abort.
Pull(x) == LET y == Access(x) IN [y EXCEPT !.r[6] = Word(@ + 2), !.did = @ \cup {"pull"}]

\* RTS and MARK
Return(x, reg) ==
    LET y == Pull([x EXCEPT !.r[7] = x.r[reg]]) IN [y EXCEPT !.r[reg] = x.value]
Mark(x) == Pull([x EXCEPT !.r[6] = Word(x.r[7] + 2), !.r[7] = x.r[1]])

\* RTI and RTT: the mode before the instruction decides what may be loaded.
ReturnInterrupt(x, popped, rtt) ==
    LET one   == Pull(x)
        two   == Pull(one)
        found == IF two.accesses \in two.fails THEN [InitPsw EXCEPT !.ipl = 0] ELSE popped
        new   == IF Kernel(x.psw) THEN found ELSE ProtectPsw(x.psw, found)
    IN  [SetPsw([two EXCEPT !.r[7] = one.value], new) EXCEPT
            !.trace = IF ~rtt /\ new.t THEN "trap" ELSE "none"]

\* MFPI and MFPD: the operand in the previous mode's space goes to the stack.
\* dcj11_read_mode_reg reads the place a stack pointer is kept while another is in use.
PrevMode(psw) == psw.prev
FromPrevious(x, dst) ==
    LET sp   == dst = <<0, 6>>
        y    == IF sp THEN SpInit(x) ELSE Get(Decode(x, dst, FALSE), dst)
        word == IF ~sp THEN y.value ELSE y.sp[PrevMode(y.psw)]
        z    == Access(NoteStack(Move(y, 6, 0 - 2)))
    IN  IF y.abort THEN y ELSE [z EXCEPT !.pushed = IF sp /\ ~z.abort THEN word ELSE @]

\* Condition codes set whatever happened: after an abort they are the vector's.
Codes(x) == IF x.abort THEN [x EXCEPT !.did = @ \cup {"codes"}] ELSE x

\* MTPI and MTPD: an abort of the store is not looked at, and goes on to the condition
\* codes and to step_end.
ToPrevious(x, dst) ==
    LET y    == Decode(x, dst, FALSE)
        z    == IF y.abort THEN y ELSE Access(y)
        p    == Move(z, 6, 2)
        mode == PrevMode(x.psw)
        q    == [SpInit(p) EXCEPT !.sp[mode] = x.value, !.did = @ \cup {"other stack"}]
    IN  IF z.abort THEN z
        ELSE IF dst = <<0, 6>> THEN [q EXCEPT !.r[6] = IF x.psw.cur = mode THEN x.value ELSE @]
        ELSE Codes(Put(p, dst))

\* CSM: three words go to the supervisor stack before anything changes.
Pushes(x, dst) ==
    LET y   == Leave(Get(Decode(x, dst, FALSE), dst))
        one == IF y.abort THEN y ELSE Access(y)
        two == IF one.abort THEN one ELSE Access(one)
    IN  IF two.abort THEN two ELSE Access(two)

\* Its change of stack and mode.
EnterSupervisor(x) ==
    LET sp  == Word(x.r[6] - 6)
        y   == [SpInit(x) EXCEPT !.sp = [[@ EXCEPT ![x.psw.cur] = x.r[6]] EXCEPT ![1] = sp]]
        new == [x.psw EXCEPT !.prev = x.psw.cur, !.cur = 1, !.t = FALSE]
    IN  [SetPsw(y, new) EXCEPT !.r[6] = sp, !.sp[1] = sp, !.did = @ \cup {"other stack"}]

\* The new PC comes last, from supervisor space; a refused load gives 0, which goes to the PC.
CallSupervisor(x, dst) ==
    LET y == Pushes(x, dst)
        z == Access(EnterSupervisor(y))
    IN  IF x.psw.cur = 0 THEN Trap(x)
        ELSE IF y.abort THEN y ELSE [z EXCEPT !.r[7] = z.value]

\* handle_halt: the pushes are not looked at.
HandleHalt(x) ==
    [SetPsw(Push(Push(x)), [cur |-> 0, prev |-> 0, set |-> 0, ipl |-> 7, t |-> FALSE])
       EXCEPT !.r[7] = HandlerPc, !.did = @ \cup {"halt"}]

Halt(x) == IF Kernel(x.psw) THEN HandleHalt(x) ELSE Trap(x)

\* MTPS, and SPL, which is for kernel mode alone.
LoadPriority(x, dst, ipl) ==
    LET y == Read(x, dst, TRUE)
    IN  IF y.abort \/ ~Kernel(x.psw) THEN y ELSE [y EXCEPT !.psw.ipl = ipl]
SetPriority(x, ipl) == IF Kernel(x.psw) THEN [x EXCEPT !.psw.ipl = ipl] ELSE x

Wait(x) == [x EXCEPT !.wait = TRUE, !.trace = "none"]

\* RESET clears the requests of the devices and the freeze of MMR0.
Reset(x) == IF Kernel(x.psw) THEN [x EXCEPT !.irq = {}, !.frozen = FALSE] ELSE x

-----------------------------------------------------------------------------
(* The end of an instruction.                                              *)

\* dcj11_service_stack_trap
StackTrap(x) ==
    [TakeVector([x EXCEPT !.yellow = FALSE, !.inStackTrap = TRUE,
                          !.did = IF x.abort THEN @ ELSE @ \cup {"served"}], x.r[7], x.psw, 7)
       EXCEPT !.inStackTrap = FALSE]

Asking(x) == {l \in x.irq : l > x.psw.ipl}

\* core_poll_irq_any acknowledges the highest request; irq_accept agrees; the vector.
Interrupt(x) ==
    LET l == CHOOSE k \in Asking(x) : \A j \in Asking(x) : j <= k
        y == [x EXCEPT !.irq = @ \ {l}, !.acked = @ \cup {l}]
    IN  [TakeVector(y, x.r[7], x.psw, l) EXCEPT !.taken = IF x.abort THEN @ ELSE @ \cup {l}]

\* Mutant of Interrupts: the loop does not stop at an abort.
InterruptsAll(x) ==
    LET loop[n \in 0 .. Cardinality(Levels)] ==
            IF n = 0 THEN x
            ELSE IF Asking(loop[n - 1]) = {} THEN loop[n - 1] ELSE Interrupt(loop[n - 1])
    IN  loop[Cardinality(Levels)]

\* The loop at the end of core_step: as long as a request beats the priority of the last
\* vector, until one aborts.
Interrupts(x) ==
    LET loop[n \in 0 .. Cardinality(Levels)] ==
            IF n = 0 THEN x
            ELSE LET y == loop[n - 1]
                 IN  IF Asking(y) = {} \/ (n > 1 /\ y.abort) THEN y ELSE Interrupt(y)
    IN  loop[Cardinality(Levels)]

\* Mutant of Finish: nothing stays pending after the interrupts.
FinishForgets(x, before) ==
    LET trap == x.trace = "trap" \/ (x.trace = "before" /\ before.t)
        y    == IF trap THEN Trap(x) ELSE x
    IN  IF "left" \in x.did THEN x
        ELSE IF y.yellow THEN StackTrap(y)
        ELSE IF trap THEN y ELSE [Interrupts(y) EXCEPT !.yellow = FALSE]

\* step_end
Finish(x, before) ==
    LET trap == x.trace = "trap" \/ (x.trace = "before" /\ before.t)
        y    == IF trap THEN Trap(x) ELSE x
    IN  IF "left" \in x.did THEN x
        ELSE IF y.yellow THEN StackTrap(y)
        ELSE IF trap THEN y ELSE Interrupts(y)

-----------------------------------------------------------------------------
(* Steps.                                                                  *)

NoFrame == [pc |-> 0, psw |-> InitPsw, at |-> WordSize]

\* Nothing of the last step is left; mmu_mmr1_instruction_start.
Clear(x) ==
    [x EXCEPT !.accesses = 0, !.fails = {}, !.kind = "mmu", !.did = {}, !.trace = "before",
              !.frame = NoFrame, !.acked = {}, !.taken = {}, !.pushed = WordSize]
Start(x) == [Clear(x) EXCEPT !.r[7] = 0, !.mmr1 = IF x.frozen THEN @ ELSE <<>>]

\* core_reset
Init ==
    /\ m = [r |-> [k \in Regs |-> 0], psw |-> InitPsw, sp |-> [k \in Modes |-> 0], spInit |-> FALSE,
            bank |-> NoBank, abort |-> FALSE, wait |-> FALSE,
            yellow |-> FALSE, inStackTrap |-> FALSE, frozen |-> FALSE, mmr1 |-> <<>>, irq |-> {},
            accesses |-> 0, fails |-> {}, kind |-> "mmu", value |-> 0, did |-> {},
            trace |-> "before", frame |-> NoFrame, acked |-> {}, taken |-> {},
            pushed |-> WordSize]
    /\ steps = 0

Count == steps < MaxSteps /\ steps' = steps + 1

\* One call of core_step that fetches an instruction.
Execute(op, Effect(_)) ==
    /\ op \in Ops /\ Count /\ ~m.abort /\ ~m.wait
    /\ \E refusal \in Refusals, value \in Values :
          LET x == Access([Start(m) EXCEPT !.fails = refusal.at, !.kind = refusal.by, !.value = value])
          IN  m' = IF x.abort THEN [x EXCEPT !.abort = FALSE]
                   ELSE Finish(Effect([x EXCEPT !.r[7] = 2]), m.psw)

DoWrite == \E dst \in Operands, byte \in BOOLEAN : Execute("write", LAMBDA x : Write(x, dst, byte))
DoRead == \E dst \in Operands, byte \in BOOLEAN : Execute("read", LAMBDA x : Read(x, dst, byte))
DoModify == \E dst \in Operands, byte \in BOOLEAN : Execute("modify", LAMBDA x : Modify(x, dst, byte))
DoCopy ==
    \E src \in Operands, dst \in SecondOperands : Execute("copy", LAMBDA x : Copy(x, src, dst, FALSE))
DoCompare ==
    \E src \in Operands, dst \in SecondOperands : Execute("compare", LAMBDA x : Compare(x, src, dst, TRUE))
DoCombine ==
    \E src \in Operands, dst \in SecondOperands : Execute("combine", LAMBDA x : Combine(x, src, dst, FALSE))
DoMultiply == \E dst \in Operands : Execute("multiply", LAMBDA x : Multiply(x, dst))
DoTestAndSet == \E dst \in Operands : Execute("tstset", LAMBDA x : TestAndSet(x, dst))
DoJump == \E dst \in Operands : Execute("jmp", LAMBDA x : Jump(x, dst))
DoCall == \E reg \in {1, 7}, dst \in Operands : Execute("jsr", LAMBDA x : Call(x, reg, dst))
DoReturn == \E reg \in {1, 7} : Execute("rts", LAMBDA x : Return(x, reg))
DoMark == Execute("mark", Mark)
DoReturnInterrupt ==
    \E popped \in PoppedPsws, rtt \in BOOLEAN :
        Execute("rti", LAMBDA x : ReturnInterrupt(x, popped, rtt))
DoFromPrevious == \E dst \in Operands : Execute("mfp", LAMBDA x : FromPrevious(x, dst))
DoToPrevious == \E dst \in Operands : Execute("mtp", LAMBDA x : ToPrevious(x, dst))
DoCallSupervisor == \E dst \in Operands : Execute("csm", LAMBDA x : CallSupervisor(x, dst))
DoLoadPriority ==
    \E dst \in Operands, ipl \in {0, 7} : Execute("mtps", LAMBDA x : LoadPriority(x, dst, ipl))
DoSetPriority == \E ipl \in {0, 7} : Execute("spl", LAMBDA x : SetPriority(x, ipl))
DoTrap == Execute("trap", Trap)
DoHalt == Execute("halt", Halt)
DoWait == Execute("wait", Wait)
DoReset == Execute("reset", Reset)

\* The step after an abort only clears it.
Resume == m.abort /\ m' = [Clear(m) EXCEPT !.abort = FALSE] /\ UNCHANGED steps

\* WAIT: the trace trap, or a request that is accepted.
Waiting ==
    /\ Count /\ ~m.abort /\ m.wait
    /\ LET x == [Clear(m) EXCEPT !.wait = FALSE]
       IN  \/ m.psw.t /\ m' = Trap(x)
           \/ ~m.psw.t /\ Asking(m) # {} /\ m' = Interrupt(x)

\* The HALT switch, looked at before all else but an abort.
HaltSwitch ==
    Count /\ "halt switch" \in Ops /\ ~m.abort /\ m' = HandleHalt([Clear(m) EXCEPT !.wait = FALSE])

\* A device asks; the program takes note of a fault and clears MMR0.
Request == \E l \in Levels \ m.irq : m' = [Clear(m) EXCEPT !.irq = @ \cup {l}] /\ UNCHANGED steps
ClearMmr0 == Count /\ m.frozen /\ Kernel(m.psw) /\ m' = [Clear(m) EXCEPT !.frozen = FALSE]

Next ==
    \/ DoWrite \/ DoRead \/ DoModify \/ DoCopy \/ DoCompare \/ DoCombine \/ DoMultiply
    \/ DoTestAndSet \/ DoJump \/ DoCall \/ DoReturn \/ DoMark \/ DoReturnInterrupt
    \/ DoFromPrevious \/ DoToPrevious \/ DoCallSupervisor \/ DoLoadPriority \/ DoSetPriority
    \/ DoTrap \/ DoHalt \/ DoWait \/ DoReset
    \/ Resume \/ Waiting \/ HaltSwitch \/ Request \/ ClearMmr0

Spec == Init /\ [][Next]_vars

-----------------------------------------------------------------------------
(* Properties.                                                             *)

\* By how much MMR1 says a register was moved.
Moved(x, reg) ==
    LET d(i) == IF i <= Len(x.mmr1) /\ x.mmr1[i][1] = reg THEN x.mmr1[i][2] ELSE 0
    IN  d(1) + d(2)

Framed(x) == x.frame # NoFrame \/ "halt" \in x.did

\* A fault of memory management leaves the instruction to be tried again: whatever access
\* of it was refused, the handler gets the PSW of the instruction, and register 1 and the
\* stack pointers of all modes as they were once the moves recorded in MMR1 are undone;
\* nothing the instruction does afterwards touches the PC, the mode or the priority of the
\* vector.  RTS, RTI, RTT, MARK and HALT are left out, which pull and push without looking
\* at the abort, and CSM once it has changed stacks: the code breaks them, as it breaks the
\* vector's condition codes in MTPI and MTPD (FaultEntersHandler).
AbortClean ==
    [][LET x     == m'
           fault == "refused" \in x.did /\ x.kind = "mmu" /\ ~m.frozen
           left  == {"pull", "halt", "other stack"} \cap x.did = {}
           red   == "red" \in x.did
           sp(k) == IF k = 0 THEN Word(StackPointer(x, 0) + 4) ELSE StackPointer(x, k)
       IN  fault /\ left =>
               /\ x.frame.psw = m.psw /\ x.psw = TrapPsw(m.psw, 7) /\ x.r[7] = HandlerPc
               /\ Word(SetRegister(x, m.psw.set, 1) - Moved(x, 1)) = m.r[1]
               /\ Word(sp(m.psw.cur) - Moved(x, 6)) = m.r[6] \/ (red /\ Kernel(m.psw))
               /\ m.spInit => \A k \in Modes \ {m.psw.cur} : sp(k) = m.sp[k] \/ (red /\ k = 0)]_vars

\* "An operand fault must not overwrite the completed trap frame" (core_step): after a
\* refused access the machine is at the start of the handler, with the PSW of its vector.
\* The code does not keep this: pulls, CSM, MTPI and MTPD break it.
FaultEntersHandler ==
    [][("refused" \in m'.did) => (m'.r[7] = HandlerPc /\ "codes" \notin m'.did)]_vars

\* A program in user or supervisor mode reaches kernel mode, or another priority, by a trap,
\* an interrupt or the HALT switch only: not by RTI, RTT, MTPS, SPL or CSM.
KernelEntry ==
    [][~Kernel(m.psw) /\ (Kernel(m'.psw) \/ m'.psw.ipl # m.psw.ipl) => Framed(m')]_vars

\* A stack pointer that is not in use is changed only by what is meant to: MTPI and CSM, and
\* that of the kernel by the frames of traps.
OtherStacks ==
    [][m.spInit =>
          \A k \in Modes \ {m.psw.cur} :
              \/ StackPointer(m', k) = StackPointer(m, k)
              \/ "other stack" \in m'.did
              \/ k = 0 /\ Framed(m')]_vars

\* An interrupt acknowledged to its device is delivered, unless the instruction before it
\* was refused an access or the frame cannot be pushed; and then no other is acknowledged.
NoSecondLost ==
    [][/\ m'.acked # m'.taken => m'.abort
       /\ Cardinality(m'.acked \ m'.taken) <= 1]_vars

\* A reference of the kernel stack below the limit is answered by the stack trap, at the end of
\* this instruction or, if the reference is that of a frame, of a later one, unless an access
\* is refused in between.
YellowNotLost ==
    [][m.yellow \/ "yellow" \in m'.did =>
          \/ m'.yellow \/ "served" \in m'.did
          \/ {"refused", "red"} \cap m'.did # {}]_vars

=============================================================================
