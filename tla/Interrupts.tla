----------------------------- MODULE Interrupts -----------------------------
(***************************************************************************)
(* From a device event to the guest's handler: the console (DL11 receiver  *)
(* and transmitter), the line printer (LP11) and the line clock (KW11-L),  *)
(* the arbiter irq_poll with its grant-time acknowledge, the program       *)
(* interrupt requests of the J-11, and the part of core_step that decides  *)
(* when a pending interrupt is taken.                                      *)
(*                                                                         *)
(* The guest is any program that obeys the machine's conventions: vectors  *)
(* load the priority of the source that uses them and a handler never      *)
(* lowers the priority below the one it was entered with.                  *)
(*                                                                         *)
(* On the Pico core 0 polls the devices under io_lock, which the accesses  *)
(* of core 1 to a device register and its calls of irq_poll take too; a    *)
(* RESET of core 1 does not take it, so its stores fall between any two    *)
(* steps of a poll.                                                        *)
(***************************************************************************)
EXTENDS Integers, Sequences, FiniteSets, IrqLatch

CONSTANTS
    Model,       \* CPU model: "DCJ11", "VM1" or "VM2"
    Devices,     \* the devices of device_mask, a subset of {"dl11", "kw11", "lp11"}
    DualCore,    \* TRUE: core 0 polls the devices while core 1 runs the CPU (Pico)
    UsesWait,    \* TRUE: the guest idles with the WAIT instruction
    GuestPris,   \* the processor priorities the guest selects
    PirqLevels,  \* the PIRQ levels the guest requests
    MaxChars,    \* bound: characters the host types
    MaxTicks     \* bound: clock ticks

ASSUME InterruptsAssumption ==
    /\ Model \in {"DCJ11", "VM1", "VM2"}
    /\ Devices \subseteq {"dl11", "kw11", "lp11"}
    /\ DualCore \in BOOLEAN
    /\ UsesWait \in BOOLEAN
    /\ GuestPris \subseteq 0..7
    /\ PirqLevels \subseteq 1..7
    /\ MaxChars \in Nat
    /\ MaxTicks \in Nat

VARIABLES
    latch,    \* rx_l, tx_l of the DL11 and lp_l of the LP11
    rxbuf,    \* rx_buf: the character in the receiver
    kw,       \* kwl_done, kwl_ie, kwl_irq_req
    pirq,     \* levels requested in J11_PIRQ
    psw,      \* PSW<7:5>, and PSW<10> of the VM1 ("hold")
    frames,   \* the guest's stack of interrupt frames
    wait,     \* fWait
    stepEnd,  \* core_step is at its end-of-instruction interrupt test
    polling,  \* what the poll of core 0 does next; "idle" when it does not hold the lock
    resetting,\* the stores the RESET under way has not made yet
    typed,    \* characters that have left the host's keyboard
    ticks,    \* clock ticks so far
    consumed, \* history: number of the last character the guest took or dropped
    last,     \* history: the latest of a source's DONE event, its grant, and the
              \* raising of its IE after a grant
    disturbed \* history: a RESET overlapped a poll of the receiver, whose DONE the
              \* guest has not cleared since

pollVars == <<polling, typed, ticks>>
vars == <<latch, rxbuf, kw, pirq, psw, frames, wait, stepEnd, polling, resetting, typed, ticks,
          consumed, last, disturbed>>

Latched == {"rx", "tx", "lp"}
Sources == Latched \cup {"kw"}
Psw == [pri : 0..7, hold : BOOLEAN]

-----------------------------------------------------------------------------
(* The table of sources.                                                   *)

DeviceOf(s) == CASE s \in {"rx", "tx"} -> "dl11" [] s = "kw" -> "kw11" [] s = "lp" -> "lp11"

\* irq_source_t.priority
Priority(s) == IF s = "kw" THEN 6 ELSE 4

\* Position in g_irq[]: impl_init registers DL11 RX, DL11 TX, KW11, LP11 in this order.
Rank(s) == CASE s = "rx" -> 1 [] s = "tx" -> 2 [] s = "kw" -> 3 [] s = "lp" -> 4

Registered == {s \in Sources : DeviceOf(s) \in Devices}

Pending(s) == IF s = "kw" THEN kw.req ELSE latch[s].irq_req
Done(s)    == IF s = "kw" THEN kw.done ELSE latch[s].done
Enabled(s) == IF s = "kw" THEN kw.ie ELSE latch[s].ie

\* Bit 0200 of the PSW, the single mask bit of the VM1 and VM2.
FlagP == psw.pri >= 4

-----------------------------------------------------------------------------
(* irq_poll and irq_accept.                                                *)

\* Pending sources that the priority of a J-11 does not mask.
Candidates ==
    {s \in Registered : Pending(s) /\ (Model = "DCJ11" => psw.pri < Priority(s))}

\* The highest priority wins, the source registered first among equals.
Best(C) ==
    CHOOSE s \in C : \A t \in C \ {s} :
        \/ Priority(t) < Priority(s)
        \/ Priority(t) = Priority(s) /\ Rank(s) < Rank(t)

\* Mutant of Acceptable: the request is acknowledged before the PSW is looked at.
AcceptableAlways == TRUE

\* The test of the VM1 and VM2 that follows the selection.
Acceptable ==
    CASE Model = "VM1" -> ~psw.hold /\ ~FlagP
      [] Model = "VM2" -> ~FlagP
      [] OTHER -> TRUE

\* The source irq_poll acknowledges and returns, in a set that is empty when it returns 0.
IrqPoll == IF Candidates # {} /\ Acceptable THEN {Best(Candidates)} ELSE {}

\* dcj11_pirq_poll: the highest requested level, unless it is masked.
PirqPoll ==
    {l \in pirq : Model = "DCJ11" /\ psw.pri < l /\ \A k \in pirq : k <= l}

\* irq_accept: the core's own test, made after the arbiter has acknowledged.
IrqAccept(level) ==
    CASE Model = "VM1" -> ~psw.hold /\ ~FlagP
      [] Model = "VM2" -> ~FlagP
      [] OTHER -> psw.pri < level

\* An interrupt is a source and its level.
LevelOf(src) == src[2]

\* What core_poll_irq_any offers: PIRQ is looked at before the devices.
Offered ==
    IF PirqPoll # {}
    THEN {"pirq"} \X PirqPoll
    ELSE {<<s, Priority(s)>> : s \in IrqPoll}

\* Mutant of VectorPsw: the new PSW loses its priority.
VectorPswUnmasked(level) == [pri |-> 0, hold |-> FALSE]

\* The PSW in the vector of an interrupt of that level.
VectorPsw(level) == [pri |-> IF Model = "DCJ11" THEN level ELSE 4, hold |-> FALSE]

\* Mutant of Acknowledge: the clock's callback leaves its request set.
AcknowledgeKeepsClock(src) ==
    /\ latch' = [s \in Latched |-> IF s = src[1] THEN LatchAck(latch[s]) ELSE latch[s]]
    /\ kw' = kw
    /\ last' = [s \in Sources |-> IF s = src[1] THEN "grant" ELSE last[s]]

\* The acknowledge callback of the source: kw11_irq_ack, irq_latch_ack.
Acknowledge(src) ==
    /\ latch' = [s \in Latched |-> IF s = src[1] THEN LatchAck(latch[s]) ELSE latch[s]]
    /\ kw' = IF src[1] = "kw" THEN [kw EXCEPT !.req = FALSE] ELSE kw
    /\ last' = [s \in Sources |-> IF s = src[1] THEN "grant" ELSE last[s]]

\* core_take_vector, when irq_accept agrees.
TakeVector(src) ==
    IF IrqAccept(LevelOf(src))
    THEN /\ frames' = Append(frames, [saved |-> psw, src |-> src])
         /\ psw' = VectorPsw(LevelOf(src))
    ELSE UNCHANGED <<frames, psw>>

\* io_lock is free.
Unlocked == polling = "idle"

\* core_poll_irq_any: PIRQ needs no lock, the arbiter does.
MayOffer == Unlocked \/ (DualCore /\ PirqPoll # {})

\* The interrupt test at the end of an instruction: a J-11 repeats it until
\* nothing is accepted, the others make it once.  fWait is left alone.
StepEndIrq ==
    /\ stepEnd
    /\ MayOffer
    /\ \E src \in Offered :
          /\ Acknowledge(src)
          /\ TakeVector(src)
          /\ stepEnd' = (Model = "DCJ11" /\ IrqAccept(LevelOf(src)))
    /\ UNCHANGED <<rxbuf, pirq, wait, pollVars, resetting, consumed, disturbed>>

StepEndNone ==
    /\ stepEnd
    /\ Unlocked
    /\ Offered = {}
    /\ stepEnd' = FALSE
    /\ UNCHANGED <<latch, rxbuf, kw, pirq, psw, frames, wait, pollVars, resetting, consumed, last,
                   disturbed>>

\* core_step of a waiting CPU: an accepted interrupt ends the wait.
WaitIrq ==
    /\ wait
    /\ ~stepEnd
    /\ MayOffer
    /\ \E src \in Offered :
          /\ Acknowledge(src)
          /\ TakeVector(src)
          /\ wait' = (wait /\ ~IrqAccept(LevelOf(src)))
    /\ UNCHANGED <<rxbuf, pirq, stepEnd, pollVars, resetting, consumed, disturbed>>

-----------------------------------------------------------------------------
(* The guest's instructions.  Each ends with the interrupt test.           *)

Ready ==
    /\ ~wait
    /\ ~stepEnd
    /\ resetting = {}
    /\ DualCore \/ Unlocked

Instruction ==
    /\ Ready
    /\ stepEnd' = TRUE
    /\ UNCHANGED <<pollVars, resetting>>

\* devio_read8 and devio_write8: a register is accessed under io_lock.
DeviceAccess(device) ==
    /\ device \in Devices
    /\ Unlocked
    /\ Instruction

\* The history of source s when its DONE is cleared, or its IE is raised.
Cleared(s) == [last EXCEPT ![s] = "event"]
Raised(s, raise) == [last EXCEPT ![s] = IF raise /\ @ = "grant" THEN "enable" ELSE @]

\* The characters gone when DONE is cleared: the one in the buffer, or what is left
\* of the one a RESET disturbed.
Gone == IF disturbed THEN typed ELSE IF latch["rx"].done THEN rxbuf ELSE consumed

\* A read of RBUF takes the character; a write of RBUF, and RE, drop it.
TakeChar ==
    /\ latch' = [latch EXCEPT !["rx"] = SwClearDone(@)]
    /\ consumed' = Gone
    /\ disturbed' = FALSE
    /\ last' = Cleared("rx")

AccessRbuf ==
    /\ DeviceAccess("dl11")
    /\ TakeChar
    /\ UNCHANGED <<rxbuf, kw, pirq, psw, frames, wait>>

\* Writing IE into RCSR or TCSR of the DL11 requests at once when DONE is set.
DlSetIe(l, ie) ==
    [l EXCEPT !.irq_req = @ \/ (ie /\ ~l.ie /\ l.done), !.ie = ie]

WriteRcsr(ie, re) ==
    /\ DeviceAccess("dl11")
    /\ LET l == DlSetIe(latch["rx"], ie)
       IN  latch' = [latch EXCEPT !["rx"] = IF re THEN SwClearDone(l) ELSE l]
    /\ consumed' = IF re THEN Gone ELSE consumed
    /\ disturbed' = (disturbed /\ ~re)
    /\ last' = IF re THEN Cleared("rx") ELSE Raised("rx", ie /\ ~Enabled("rx"))
    /\ UNCHANGED <<rxbuf, kw, pirq, psw, frames, wait>>

WriteTcsr(ie) ==
    /\ DeviceAccess("dl11")
    /\ latch' = [latch EXCEPT !["tx"] = DlSetIe(@, ie)]
    /\ last' = Raised("tx", ie /\ ~Enabled("tx"))
    /\ UNCHANGED <<rxbuf, kw, pirq, psw, frames, wait, consumed, disturbed>>

\* The transmitter and the printer are ready again before the write returns.
WriteTbuf ==
    /\ DeviceAccess("dl11")
    /\ latch' = [latch EXCEPT !["tx"] = EventSetDone(SwClearDone(@))]
    /\ last' = Cleared("tx")
    /\ UNCHANGED <<rxbuf, kw, pirq, psw, frames, wait, consumed, disturbed>>

\* The LP11 requests when IE is enabled while DONE is set.
LpSetIe(l, ie) ==
    [SetIe(l, ie) EXCEPT !.irq_req = @ \/ (~l.ie /\ ie /\ l.done)]

LpWriteCsr(ie) ==
    /\ DeviceAccess("lp11")
    /\ latch' = [latch EXCEPT !["lp"] = LpSetIe(@, ie)]
    /\ last' = Raised("lp", ie /\ ~Enabled("lp"))
    /\ UNCHANGED <<rxbuf, kw, pirq, psw, frames, wait, consumed, disturbed>>

LpWriteDbr ==
    /\ DeviceAccess("lp11")
    /\ latch' = [latch EXCEPT !["lp"] = EventSetDone(SwClearDone(@))]
    /\ last' = Cleared("lp")
    /\ UNCHANGED <<rxbuf, kw, pirq, psw, frames, wait, consumed, disturbed>>

\* The monitor bit of the KW11-L is cleared by reading it.
KwReadCsr ==
    /\ DeviceAccess("kw11")
    /\ kw' = [kw EXCEPT !.done = FALSE, !.req = FALSE]
    /\ last' = Cleared("kw")
    /\ UNCHANGED <<latch, rxbuf, pirq, psw, frames, wait, consumed, disturbed>>

KwWriteCsr(ie, d) ==
    /\ DeviceAccess("kw11")
    /\ kw' = [done |-> kw.done /\ d,
              ie   |-> ie,
              req  |-> (kw.req /\ d) \/ (ie /\ kw.done /\ d)]
    /\ last' = IF ~d THEN Cleared("kw") ELSE Raised("kw", ie)
    /\ UNCHANGED <<latch, rxbuf, pirq, psw, frames, wait, consumed, disturbed>>

WritePirq(levels) ==
    /\ Model = "DCJ11"
    /\ Instruction
    /\ pirq' = levels
    /\ UNCHANGED <<latch, rxbuf, kw, psw, frames, wait, consumed, last, disturbed>>

\* SPL, MTPS or a write of the PSW, never below the priority of the handler.
SetPsw(pri, hold) ==
    /\ Instruction
    /\ frames # <<>> => pri >= VectorPsw(LevelOf(frames[Len(frames)].src)).pri
    /\ hold => Model = "VM1"
    /\ psw' = [pri |-> pri, hold |-> hold]
    /\ UNCHANGED <<latch, rxbuf, kw, pirq, frames, wait, consumed, last, disturbed>>

Rti ==
    /\ frames # <<>>
    /\ Instruction
    /\ psw' = frames[Len(frames)].saved
    /\ frames' = SubSeq(frames, 1, Len(frames) - 1)
    /\ UNCHANGED <<latch, rxbuf, kw, pirq, wait, consumed, last, disturbed>>

WaitInstruction ==
    /\ UsesWait
    /\ Instruction
    /\ wait' = TRUE
    /\ UNCHANGED <<latch, rxbuf, kw, pirq, psw, frames, consumed, last, disturbed>>

\* dl11_reset and lp11_reset: the receiver is empty, transmitter and printer are ready.
ResetLatches ==
    [s \in Latched |-> IF s = "rx" THEN LatchReset ELSE EventSetDone(LatchReset)]

\* What core 0 may touch at the same time: the receiver in dl11_reset, then the clock
\* in kw11_reset.  "end" stands for the return of impl_reset.
RxStores == IF "dl11" \in Devices THEN {"done", "ie", "request", "armed", "char"} ELSE {}
KwStores == IF "kw11" \in Devices THEN {"kwDone", "kwIe", "kwRequest"} ELSE {}

\* Core 0 is between its test of the receiver's DONE and the end of that poll.
RxPolling == polling \in {"char", "done", "request", "disarm"}

\* The RESET instruction: dcj11_reset_instruction_state, then impl_reset, of which this
\* step does what no other core looks at: the transmitter and the printer.
Reset ==
    /\ Ready
    /\ resetting' = RxStores \cup KwStores \cup {"end"}
    /\ latch' = [s \in Latched |-> IF s = "rx" THEN latch[s] ELSE ResetLatches[s]]
    /\ pirq' = {}
    /\ wait' = FALSE
    /\ consumed' = Gone
    /\ disturbed' = RxPolling
    /\ last' = [s \in Sources |-> "event"]
    /\ UNCHANGED <<rxbuf, kw, psw, frames, stepEnd, pollVars>>

\* One store of the reset.  Nothing orders those of one function: the fields are not
\* volatile and no lock is taken.
ResetStore(x) ==
    /\ DualCore \/ Unlocked
    /\ x \in resetting \ {"end"}
    /\ x \in KwStores => resetting \cap RxStores = {}
    /\ resetting' = resetting \ {x}
    /\ latch' = [latch EXCEPT !["rx"] =
                    CASE x = "done"    -> [@ EXCEPT !.done = FALSE]
                      [] x = "ie"      -> [@ EXCEPT !.ie = FALSE]
                      [] x = "request" -> [@ EXCEPT !.irq_req = FALSE]
                      [] x = "armed"   -> [@ EXCEPT !.irq_armed = TRUE]
                      [] OTHER         -> @]
    /\ rxbuf' = IF x = "char" THEN 0 ELSE rxbuf
    /\ kw' = CASE x = "kwDone"    -> [kw EXCEPT !.done = TRUE]
               [] x = "kwIe"      -> [kw EXCEPT !.ie = FALSE]
               [] x = "kwRequest" -> [kw EXCEPT !.req = FALSE]
               [] OTHER           -> kw
    /\ UNCHANGED <<pirq, psw, frames, wait, stepEnd, pollVars, consumed, last, disturbed>>

ResetEnd ==
    /\ resetting = {"end"}
    /\ resetting' = {}
    /\ stepEnd' = TRUE
    /\ UNCHANGED <<latch, rxbuf, kw, pirq, psw, frames, wait, pollVars, consumed, last, disturbed>>

-----------------------------------------------------------------------------
(* lsi11_poll_devices: on the host between two instructions, on the Pico   *)
(* at any moment, since core 0 makes them.  A poll holds io_lock from its  *)
(* first step to the return to "idle".                                     *)

MayPoll == Unlocked /\ (DualCore \/ (~stepEnd /\ resetting = {}))

\* Mutant of RxEmpty: the next character overwrites an unread one.
RxEmptyAlways == TRUE

\* dl11_poll looks at DONE before it asks the host for a character.
RxEmpty == ~latch["rx"].done

\* dl11_poll: the next character stays with the host while DONE is set.
Dl11Poll ==
    /\ "dl11" \in Devices
    /\ MayPoll
    /\ RxEmpty
    /\ typed < MaxChars
    /\ typed' = typed + 1
    /\ polling' = "char"
    /\ disturbed' = (disturbed \/ resetting # {})
    /\ UNCHANGED <<latch, rxbuf, kw, pirq, psw, frames, wait, stepEnd, resetting, ticks, consumed, last>>

PollChar ==
    /\ polling = "char"
    /\ polling' = "done"
    /\ rxbuf' = typed
    /\ UNCHANGED <<latch, kw, pirq, psw, frames, wait, stepEnd, resetting, typed, ticks, consumed, last,
                   disturbed>>

\* irq_latch_event_set_done, its look at IE and irq_armed with its store of DONE, and
\* then the two stores of a request.
PollDone ==
    /\ polling = "done"
    /\ latch' = [latch EXCEPT !["rx"].done = TRUE]
    /\ polling' = IF latch["rx"].ie /\ latch["rx"].irq_armed THEN "request" ELSE "idle"
    /\ last' = Cleared("rx")
    /\ UNCHANGED <<rxbuf, kw, pirq, psw, frames, wait, stepEnd, resetting, typed, ticks, consumed,
                   disturbed>>

PollRequest ==
    /\ polling = "request"
    /\ polling' = "disarm"
    /\ latch' = [latch EXCEPT !["rx"].irq_req = TRUE]
    /\ UNCHANGED <<rxbuf, kw, pirq, psw, frames, wait, stepEnd, resetting, typed, ticks, consumed, last,
                   disturbed>>

PollDisarm ==
    /\ polling = "disarm"
    /\ polling' = "idle"
    /\ latch' = [latch EXCEPT !["rx"].irq_armed = FALSE]
    /\ UNCHANGED <<rxbuf, kw, pirq, psw, frames, wait, stepEnd, resetting, typed, ticks, consumed, last,
                   disturbed>>

\* kw11_poll_steps when a tick is due: DONE and the look at IE, then the request.
KwTick ==
    /\ "kw11" \in Devices
    /\ MayPoll
    /\ ticks < MaxTicks
    /\ ticks' = ticks + 1
    /\ kw' = [kw EXCEPT !.done = TRUE]
    /\ polling' = IF kw.ie THEN "tick" ELSE "idle"
    /\ last' = Cleared("kw")
    /\ UNCHANGED <<latch, rxbuf, pirq, psw, frames, wait, stepEnd, resetting, typed, consumed, disturbed>>

PollTick ==
    /\ polling = "tick"
    /\ polling' = "idle"
    /\ kw' = [kw EXCEPT !.req = TRUE]
    /\ UNCHANGED <<latch, rxbuf, pirq, psw, frames, wait, stepEnd, resetting, typed, ticks, consumed, last,
                   disturbed>>

-----------------------------------------------------------------------------
Init ==
    /\ latch = ResetLatches
    /\ rxbuf = 0
    /\ kw = [done |-> TRUE, ie |-> FALSE, req |-> FALSE]
    /\ pirq = {}
    /\ psw = [pri |-> 0, hold |-> FALSE]
    /\ frames = <<>>
    /\ wait = FALSE
    /\ stepEnd = FALSE
    /\ polling = "idle"
    /\ resetting = {}
    /\ typed = 0
    /\ ticks = 0
    /\ consumed = 0
    /\ last = [s \in Sources |-> "event"]
    /\ disturbed = FALSE

GuestDevice ==
    \/ AccessRbuf
    \/ \E ie, re \in BOOLEAN : WriteRcsr(ie, re)
    \/ \E ie \in BOOLEAN : WriteTcsr(ie)
    \/ WriteTbuf
    \/ \E ie \in BOOLEAN : LpWriteCsr(ie)
    \/ LpWriteDbr
    \/ KwReadCsr
    \/ \E ie, d \in BOOLEAN : KwWriteCsr(ie, d)

GuestCpu ==
    \/ \E levels \in SUBSET PirqLevels : WritePirq(levels)
    \/ \E pri \in GuestPris, hold \in BOOLEAN : SetPsw(pri, hold)
    \/ Rti
    \/ WaitInstruction
    \/ Reset

Irq == StepEndIrq \/ StepEndNone \/ WaitIrq

ResetGoesOn == ResetEnd \/ \E x \in RxStores \cup KwStores : ResetStore(x)

PollGoesOn == PollChar \/ PollDone \/ PollRequest \/ PollDisarm \/ PollTick

Next == GuestDevice \/ GuestCpu \/ Irq \/ ResetGoesOn \/ Dl11Poll \/ KwTick \/ PollGoesOn

Spec == Init /\ [][Next]_vars

\* The CPU keeps executing instructions and making its interrupt tests (core_step
\* is called for ever), a reset and a poll that have begun end, and every handler of
\* the guest returns.
FairSpec ==
    /\ Spec
    /\ WF_vars(StepEndIrq) /\ WF_vars(StepEndNone) /\ WF_vars(WaitIrq)
    /\ WF_vars(GuestDevice \/ GuestCpu) /\ SF_vars(Rti)
    /\ WF_vars(ResetGoesOn) /\ WF_vars(PollGoesOn)

-----------------------------------------------------------------------------
(* Properties.                                                             *)

SourceOrPirq == {<<s, Priority(s)>> : s \in Sources} \cup ({"pirq"} \X PirqLevels)
Frame == [saved : Psw, src : SourceOrPirq]

TypeOK ==
    /\ latch \in [Latched -> Latch]
    /\ rxbuf \in 0..MaxChars
    /\ kw \in [done : BOOLEAN, ie : BOOLEAN, req : BOOLEAN]
    /\ pirq \subseteq PirqLevels
    /\ psw \in Psw
    /\ frames \in Seq(Frame)
    /\ wait \in BOOLEAN
    /\ stepEnd \in BOOLEAN
    /\ polling \in {"idle", "char", "done", "request", "disarm", "tick"}
    /\ resetting \subseteq RxStores \cup KwStores \cup {"end"}
    /\ typed \in 0..MaxChars
    /\ ticks \in 0..MaxTicks
    /\ consumed \in 0..MaxChars
    /\ last \in [Sources -> {"event", "grant", "enable"}]
    /\ disturbed \in BOOLEAN

\* Between polls and resets, and of the receiver only as long as no RESET has overlapped
\* one of its polls, or again since the program has cleared its DONE or made a RESET
\* that none overlapped.
Settled(s) == Unlocked /\ resetting = {} /\ (s = "rx" => ~disturbed)

\* A request never outlives the condition it reports: whatever the guest
\* writes and whenever the device polls come in between, a pending request
\* of a device has its DONE set (irq_latch_sw_clear_done, kw11_read8).
RequestImpliesDone == \A s \in Sources : Settled(s) /\ Pending(s) => Done(s)

\* No interrupt is lost: a device that is done, with IE set, and was not
\* granted since its DONE last rose or its IE was raised, has its request
\* pending, in every order of device events, IE writes, grants and the stores
\* of a RESET (irq_latch_event_set_done, and the IE rules of the DL11, LP11 and
\* KW11-L).  A RESET amid a poll spoils the receiver at most, and that only
\* until its DONE is next cleared.
NoLostInterrupt ==
    \A s \in Sources : Settled(s) /\ Done(s) /\ Enabled(s) /\ last[s] # "grant" => Pending(s)

\* Characters reach the guest in the order they are typed, each of them once:
\* dl11_poll never overwrites a character the guest has not taken.  A RESET amid
\* a poll costs the character of that poll and no later one.
RxInOrder ==
    Settled("rx") =>
        /\ latch["rx"].done => rxbuf = typed
        /\ consumed = IF latch["rx"].done THEN typed - 1 ELSE typed

\* Handlers nest by strictly rising level on a J-11 and not at all on a VM1
\* or VM2, so the guest's stack holds at most one frame per level.
NestingRises ==
    \A i, j \in 1..Len(frames) :
        i < j => /\ Model = "DCJ11"
                 /\ LevelOf(frames[i].src) < LevelOf(frames[j].src)

Taken(src) == /\ Len(frames') = Len(frames) + 1
              /\ frames'[Len(frames) + 1].src = src

\* A source interrupts at most once for one DONE event or one raising of IE, and only
\* while its DONE is set (the grant-time acknowledge of irq_poll), the receiver that a
\* RESET has disturbed excepted.
GrantedOncePerEvent ==
    [][\A s \in Sources : Taken(<<s, Priority(s)>>) =>
          (s = "rx" /\ disturbed) \/ (Done(s) /\ last[s] # "grant")]_vars

\* "Shared device register and IRQ state is protected by a hardware spinlock": what a
\* request of the receiver and its DONE say of one another does not depend on where a
\* RESET of the other core falls.
ReceiverProtected == Unlocked /\ resetting = {} /\ Pending("rx") => Done("rx")

\* A request is acknowledged only in a step that enters its handler:
\* irq_accept never refuses what irq_poll has acknowledged.
AcknowledgedIsTaken ==
    [][\A s \in Sources : last[s] # "grant" /\ last'[s] = "grant" => Taken(<<s, Priority(s)>>)]_vars

\* Of several pending interrupts, program requests included, the one of the highest
\* level is taken first: "Selection rule: highest priority first".
HighestFirst ==
    [][\A src \in SourceOrPirq : Taken(src) =>
          /\ \A s \in Registered : Pending(s) => Priority(s) <= LevelOf(src)
          /\ \A l \in pirq : l <= LevelOf(src)]_vars

\* The clock's request is granted or withdrawn in the end, whatever the other devices request,
\* if instructions end again and again with the clock unmasked.
ClockServed == []<>(stepEnd /\ IrqAccept(Priority("kw"))) => (kw.req ~> ~kw.req)

\* An accepted interrupt ends the wait state of the CPU.
IrqClearsWait ==
    [][\A src \in SourceOrPirq : Taken(src) => ~wait']_vars

=============================================================================
