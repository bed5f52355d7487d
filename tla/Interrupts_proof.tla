-------------------------- MODULE Interrupts_proof --------------------------
(***************************************************************************)
(* Proofs about the interrupt path, for every set of devices, CPU model,   *)
(* priority set, PIRQ level set and bound.                                 *)
(***************************************************************************)
EXTENDS Interrupts, SequenceTheorems, TLAPS

\* What holds between a latch and the history h of its source.  Beyond the two
\* checked invariants: an idle latch is armed, so that the next event can raise
\* a request, and a granted one asks for nothing until its history changes.
LatchOK(l, h) ==
    /\ ~l.done => l.irq_armed /\ ~l.irq_req /\ h # "grant"
    /\ l.done /\ l.ie /\ h # "grant" => l.irq_req
    /\ h = "grant" => ~l.irq_req

\* The same for the clock.
KwOK(k, h) ==
    /\ ~k.done => ~k.req /\ h # "grant"
    /\ k.done /\ k.ie /\ h # "grant" => k.req
    /\ h = "grant" => ~k.req

\* The transmitter and the printer, which core 0 never touches.
OthersOK == \A s \in {"tx", "lp"} : LatchOK(latch[s], last[s])

\* The clock: amid a tick and amid a reset it is known what the other step, whichever
\* comes last, leaves behind.
ClockOK ==
    /\ polling = "tick" => kw.done /\ last["kw"] = "event"
    /\ resetting # {} =>
          /\ last["kw"] = "event"
          /\ "kwDone" \in resetting \/ kw.done
          /\ "kwIe" \in resetting \/ ~kw.ie
    /\ polling # "tick" /\ resetting = {} => KwOK(kw, last["kw"])
    /\ "kw11" \notin Devices =>
          kw = [done |-> TRUE, ie |-> FALSE, req |-> FALSE] /\ polling # "tick"

\* The receiver, its latch l with history h, its buffer b, the t characters typed and
\* the c that are gone: at rest, between the steps of a poll of which p is the next,
\* and amid a reset that has the stores r to make.
RxRest(l, h, b, t, c) ==
    /\ LatchOK(l, h)
    /\ l.done => b = t
    /\ c = IF l.done THEN t - 1 ELSE t

RxAmidPoll(l, h, b, t, c, p) ==
    /\ c = t - 1
    /\ p \in {"char", "done"} => ~l.done /\ l.irq_armed /\ ~l.irq_req /\ h # "grant"
    /\ p \in {"request", "disarm"} => l.done /\ h # "grant"
    /\ p # "char" => b = t
    /\ p = "disarm" => l.irq_req

RxAmidReset(l, h, t, c, r) ==
    /\ c = t
    /\ h = "event"
    /\ "done" \in r \/ ~l.done
    /\ "request" \in r \/ ~l.irq_req
    /\ "armed" \in r \/ l.irq_armed

RxOK ==
    /\ RxPolling => /\ resetting = {}
                    /\ RxAmidPoll(latch["rx"], last["rx"], rxbuf, typed, consumed, polling)
    /\ resetting # {} => RxAmidReset(latch["rx"], last["rx"], typed, consumed, resetting)
    /\ ~RxPolling /\ resetting = {} =>
          RxRest(latch["rx"], last["rx"], rxbuf, typed, consumed)

\* A machine without a DL11 has an idle receiver.
NoReceiver == "dl11" \notin Devices => latch["rx"] = LatchReset /\ ~RxPolling

\* Core 1 does nothing else while it resets the bus, which it leaves by the last step.
CoreOK == resetting # {} => ~wait /\ ~stepEnd /\ "end" \in resetting

\* The inductive invariant of the latches, the clock, the history and the receiver's
\* characters: nothing is known of a receiver that a reset has disturbed.
LatchInv == CoreOK /\ OthersOK /\ ClockOK /\ NoReceiver /\ (~disturbed => RxOK)

\* What the latch operators return.
LEMMA ResetLatch == LatchReset \in Latch
BY DEF LatchReset, Latch

LEMMA LatchOps ==
    ASSUME NEW l \in Latch
    PROVE  EventSetDone(l) \in Latch /\ SwClearDone(l) \in Latch /\ LatchAck(l) \in Latch
BY DEF Latch, EventSetDone, SwClearDone, LatchAck

LEMMA LatchIeOps ==
    ASSUME NEW l \in Latch, NEW ie \in BOOLEAN
    PROVE  DlSetIe(l, ie) \in Latch /\ LpSetIe(l, ie) \in Latch
BY DEF Latch, SetIe, DlSetIe, LpSetIe

LEMMA ResetLatchesType == ResetLatches \in [Latched -> Latch]
BY ResetLatch, LatchOps DEF ResetLatches

\* Type correctness of the state the program starts in.
LEMMA InitType == Init => TypeOK
<1>. SUFFICES ASSUME Init PROVE TypeOK
     OBVIOUS
<1>1. latch \in [Latched -> Latch]
      BY ResetLatchesType DEF Init
<1>2. psw \in Psw /\ frames \in Seq(Frame)
      BY DEF Init, Psw
<1>4. kw \in [done : BOOLEAN, ie : BOOLEAN, req : BOOLEAN]
      BY DEF Init
<1>3. last \in [Sources -> {"event", "grant", "enable"}]
      BY DEF Init
<1>5. /\ wait \in BOOLEAN /\ stepEnd \in BOOLEAN /\ pirq \subseteq PirqLevels
      /\ polling = "idle" /\ resetting = {} /\ disturbed \in BOOLEAN
      BY DEF Init
<1>6. /\ rxbuf \in 0..MaxChars /\ typed \in 0..MaxChars /\ consumed \in 0..MaxChars
      /\ ticks \in 0..MaxTicks
      BY InterruptsAssumption DEF Init
<1>. QED BY <1>1, <1>2, <1>3, <1>4, <1>5, <1>6 DEF TypeOK

\* The arbiter's choice is one of the candidates.
LEMMA BestInCandidates ==
    ASSUME NEW C \in SUBSET Sources, C # {}
    PROVE  Best(C) \in C
<1>. DEFINE Wins(s) == \A t \in C \ {s} :
               \/ Priority(t) < Priority(s)
               \/ Priority(t) = Priority(s) /\ Rank(s) < Rank(t)
<1>1. \E s \in C : Wins(s)
  <2>1. CASE "kw" \in C
        <3>1. Wins("kw")  BY DEF Priority, Sources, Latched
        <3>.  QED BY <2>1, <3>1
  <2>2. CASE "kw" \notin C /\ "rx" \in C
        <3>1. Wins("rx")  BY <2>2 DEF Priority, Rank, Sources, Latched
        <3>.  QED BY <2>2, <3>1
  <2>3. CASE "kw" \notin C /\ "rx" \notin C /\ "tx" \in C
        <3>1. Wins("tx")  BY <2>3 DEF Priority, Rank, Sources, Latched
        <3>.  QED BY <2>3, <3>1
  <2>4. CASE C = {"lp"}
        BY <2>4
  <2>.  QED BY <2>1, <2>2, <2>3, <2>4 DEF Sources, Latched
<1>. QED BY <1>1 DEF Best

\* An offered interrupt is a source with its level.
LEMMA OfferedType ==
    ASSUME TypeOK, NEW src \in Offered
    PROVE  src \in SourceOrPirq /\ LevelOf(src) \in 1..7
<1>1. CASE PirqPoll # {}
  <2>1. PICK l \in PirqPoll : src = <<"pirq", l>>
        BY <1>1 DEF Offered
  <2>2. l \in PirqLevels /\ l \in 1..7
        BY <2>1, InterruptsAssumption DEF PirqPoll, TypeOK
  <2>.  QED BY <2>1, <2>2 DEF SourceOrPirq, LevelOf
<1>2. CASE PirqPoll = {}
  <2>1. PICK s \in IrqPoll : src = <<s, Priority(s)>>
        BY <1>2 DEF Offered
  <2>2. Candidates # {} /\ s = Best(Candidates)
        BY <2>1 DEF IrqPoll
  <2>3. Candidates \subseteq Sources
        BY DEF Candidates, Registered
  <2>4. s \in Candidates
        BY <2>2, <2>3, BestInCandidates
  <2>.  QED BY <2>1, <2>3, <2>4 DEF SourceOrPirq, LevelOf, Priority
<1>. QED BY <1>1, <1>2

-----------------------------------------------------------------------------
\* The history operators keep their type.
LEMMA HistoryType ==
    ASSUME TypeOK, NEW s \in Sources, NEW raise \in BOOLEAN
    PROVE  /\ Cleared(s) \in [Sources -> {"event", "grant", "enable"}]
           /\ Raised(s, raise) \in [Sources -> {"event", "grant", "enable"}]
BY DEF TypeOK, Cleared, Raised

\* Taking an interrupt keeps the types of what it changes.
LEMMA GrantType ==
    ASSUME TypeOK, NEW src \in Offered, Acknowledge(src), TakeVector(src)
    PROVE  /\ latch' \in [Latched -> Latch]
           /\ kw' \in [done : BOOLEAN, ie : BOOLEAN, req : BOOLEAN]
           /\ last' \in [Sources -> {"event", "grant", "enable"}]
           /\ psw' \in Psw
           /\ frames' \in Seq(Frame)
<1>1. src \in SourceOrPirq /\ LevelOf(src) \in 1..7
      BY OfferedType
<1>2. latch' \in [Latched -> Latch]
      BY LatchOps DEF Acknowledge, TypeOK
<1>3. kw' \in [done : BOOLEAN, ie : BOOLEAN, req : BOOLEAN]
      BY DEF Acknowledge, TypeOK
<1>4. last' \in [Sources -> {"event", "grant", "enable"}]
      BY DEF Acknowledge, TypeOK
<1>5. VectorPsw(LevelOf(src)) \in Psw
      BY <1>1 DEF VectorPsw, Psw
<1>6. [saved |-> psw, src |-> src] \in Frame
      BY <1>1 DEF Frame, TypeOK
<1>7. psw' \in Psw /\ frames' \in Seq(Frame)
  <2>1. CASE IrqAccept(LevelOf(src))
        BY <2>1, <1>5, <1>6 DEF TakeVector, TypeOK
  <2>2. CASE ~IrqAccept(LevelOf(src))
        BY <2>2 DEF TakeVector, TypeOK
  <2>.  QED BY <2>1, <2>2
<1>. QED BY <1>2, <1>3, <1>4, <1>7

\* Every step keeps the types.
LEMMA TypeStep == TypeOK /\ [Next]_vars => TypeOK'
<1>. SUFFICES ASSUME TypeOK, [Next]_vars PROVE TypeOK'
     OBVIOUS
<1>. USE DEF Instruction, DeviceAccess, pollVars
<1>0. {"rx", "tx", "lp", "kw"} \subseteq Sources /\ {"rx", "tx", "lp"} \subseteq Latched
      BY DEF Sources, Latched
<1>20. Gone \in 0..MaxChars
      BY DEF Gone, TypeOK
<1>1. CASE AccessRbuf
      BY <1>1, <1>0, <1>20, LatchOps, HistoryType DEF AccessRbuf, TakeChar, TypeOK
<1>2. ASSUME NEW ie \in BOOLEAN, NEW re \in BOOLEAN, WriteRcsr(ie, re) PROVE TypeOK'
  <2>1. latch' \in [Latched -> Latch]
        BY <1>2, <1>0, LatchOps, LatchIeOps DEF WriteRcsr, TypeOK
  <2>2. last' \in [Sources -> {"event", "grant", "enable"}]
        BY <1>2, <1>0, HistoryType DEF WriteRcsr, Enabled
  <2>3. consumed' \in 0..MaxChars /\ disturbed' \in BOOLEAN /\ stepEnd' \in BOOLEAN
        BY <1>2, <1>20 DEF WriteRcsr, TypeOK
  <2>.  QED BY <1>2, <2>1, <2>2, <2>3 DEF WriteRcsr, TypeOK
<1>3. ASSUME NEW ie \in BOOLEAN, WriteTcsr(ie) PROVE TypeOK'
      BY <1>3, <1>0, LatchIeOps, HistoryType DEF WriteTcsr, TypeOK, Enabled
<1>4. CASE WriteTbuf
      BY <1>4, <1>0, LatchOps, HistoryType DEF WriteTbuf, TypeOK
<1>5. ASSUME NEW ie \in BOOLEAN, LpWriteCsr(ie) PROVE TypeOK'
      BY <1>5, <1>0, LatchIeOps, HistoryType DEF LpWriteCsr, TypeOK, Enabled
<1>6. CASE LpWriteDbr
      BY <1>6, <1>0, LatchOps, HistoryType DEF LpWriteDbr, TypeOK
<1>7. CASE KwReadCsr
      BY <1>7, <1>0, HistoryType DEF KwReadCsr, TypeOK
<1>8. ASSUME NEW ie \in BOOLEAN, NEW d \in BOOLEAN, KwWriteCsr(ie, d) PROVE TypeOK'
      BY <1>8, <1>0, HistoryType DEF KwWriteCsr, TypeOK
<1>9. ASSUME NEW levels \in SUBSET PirqLevels, WritePirq(levels) PROVE TypeOK'
      BY <1>9 DEF WritePirq, TypeOK
<1>10. ASSUME NEW pri \in GuestPris, NEW hold \in BOOLEAN, SetPsw(pri, hold) PROVE TypeOK'
      BY <1>10, InterruptsAssumption DEF SetPsw, TypeOK, Psw
<1>11. CASE Rti
  <2>1. Len(frames) \in Nat \ {0} /\ frames[Len(frames)] \in Frame
        BY <1>11 DEF Rti, TypeOK
  <2>2. SubSeq(frames, 1, Len(frames) - 1) \in Seq(Frame)
        BY <2>1 DEF TypeOK
  <2>.  QED BY <1>11, <2>1, <2>2 DEF Rti, TypeOK, Frame
<1>12. CASE WaitInstruction
      BY <1>12 DEF WaitInstruction, TypeOK
<1>13. CASE Reset
  <2>1. latch' \in [Latched -> Latch]
        BY <1>13, ResetLatchesType DEF Reset, TypeOK
  <2>2. /\ resetting' \subseteq RxStores \cup KwStores \cup {"end"}
        /\ disturbed' \in BOOLEAN
        BY <1>13 DEF Reset, RxPolling
  <2>3. /\ consumed' \in 0..MaxChars /\ pirq' \subseteq PirqLevels
        /\ last' \in [Sources -> {"event", "grant", "enable"}]
        BY <1>13, <1>20 DEF Reset, TypeOK
  <2>4. wait' \in BOOLEAN /\ UNCHANGED <<rxbuf, kw, psw, frames, stepEnd, pollVars>>
        BY <1>13 DEF Reset
  <2>.  QED BY <2>1, <2>2, <2>3, <2>4 DEF TypeOK
<1>14. CASE StepEndIrq
  <2>1. PICK src \in Offered : /\ Acknowledge(src)
                               /\ TakeVector(src)
                               /\ stepEnd' = (Model = "DCJ11" /\ IrqAccept(LevelOf(src)))
        BY <1>14 DEF StepEndIrq
  <2>2. UNCHANGED <<rxbuf, pirq, wait, pollVars, resetting, consumed, disturbed>>
        BY <1>14 DEF StepEndIrq
  <2>3. stepEnd' \in BOOLEAN
        BY <2>1
  <2>.  QED BY <2>1, <2>2, <2>3, GrantType DEF TypeOK
<1>15. CASE StepEndNone
      BY <1>15 DEF StepEndNone, TypeOK
<1>16. CASE WaitIrq
  <2>1. PICK src \in Offered : /\ Acknowledge(src)
                               /\ TakeVector(src)
                               /\ wait' = (wait /\ ~IrqAccept(LevelOf(src)))
        BY <1>16 DEF WaitIrq
  <2>2. UNCHANGED <<rxbuf, pirq, stepEnd, pollVars, resetting, consumed, disturbed>>
        BY <1>16 DEF WaitIrq
  <2>3. wait' \in BOOLEAN
        BY <2>1
  <2>.  QED BY <2>1, <2>2, <2>3, GrantType DEF TypeOK
<1>17. CASE Dl11Poll
      BY <1>17, InterruptsAssumption DEF Dl11Poll, TypeOK
<1>18. CASE KwTick
  <2>1. kw' \in [done : BOOLEAN, ie : BOOLEAN, req : BOOLEAN]
        BY <1>18 DEF KwTick, TypeOK
  <2>2. ticks' \in 0..MaxTicks
        BY <1>18, InterruptsAssumption DEF KwTick, TypeOK
  <2>3. last' \in [Sources -> {"event", "grant", "enable"}]
        BY <1>18, <1>0, HistoryType DEF KwTick, TypeOK
  <2>.  QED BY <1>18, <2>1, <2>2, <2>3 DEF KwTick, TypeOK
<1>21. ASSUME NEW x \in RxStores \cup KwStores, ResetStore(x) PROVE TypeOK'
  <2>1. latch' \in [Latched -> Latch]
    <3>. DEFINE l == CASE x = "done"    -> [latch["rx"] EXCEPT !.done = FALSE]
                       [] x = "ie"      -> [latch["rx"] EXCEPT !.ie = FALSE]
                       [] x = "request" -> [latch["rx"] EXCEPT !.irq_req = FALSE]
                       [] x = "armed"   -> [latch["rx"] EXCEPT !.irq_armed = TRUE]
                       [] OTHER         -> latch["rx"]
    <3>1. latch' = [latch EXCEPT !["rx"] = l]
          BY <1>21 DEF ResetStore
    <3>2. latch["rx"] \in Latch
          BY <1>0 DEF TypeOK
    <3>3. l \in Latch
          BY <3>2 DEF Latch
    <3>. HIDE DEF l
    <3>.  QED BY <3>1, <3>3 DEF TypeOK
  <2>2. kw' \in [done : BOOLEAN, ie : BOOLEAN, req : BOOLEAN]
        BY <1>21 DEF ResetStore, TypeOK
  <2>3. rxbuf' \in 0..MaxChars /\ resetting' \subseteq RxStores \cup KwStores \cup {"end"}
        BY <1>21, InterruptsAssumption DEF ResetStore, TypeOK
  <2>.  QED BY <1>21, <2>1, <2>2, <2>3 DEF ResetStore, TypeOK
<1>22. CASE ResetEnd
      BY <1>22 DEF ResetEnd, TypeOK
<1>23. CASE PollChar
      BY <1>23 DEF PollChar, TypeOK
<1>24. CASE PollDone
  <2>1. latch' \in [Latched -> Latch]
        BY <1>24, <1>0 DEF PollDone, TypeOK, Latch
  <2>2. last' \in [Sources -> {"event", "grant", "enable"}]
        BY <1>24, <1>0, HistoryType DEF PollDone
  <2>.  QED BY <1>24, <2>1, <2>2 DEF PollDone, TypeOK
<1>25. CASE PollRequest \/ PollDisarm
  <2>1. latch' \in [Latched -> Latch]
    <3>1. latch["rx"] \in Latch
          BY <1>0 DEF TypeOK
    <3>2. /\ [latch["rx"] EXCEPT !.irq_req = TRUE] \in Latch
          /\ [latch["rx"] EXCEPT !.irq_armed = FALSE] \in Latch
          BY <3>1 DEF Latch
    <3>.  QED BY <1>25, <3>2 DEF PollRequest, PollDisarm, TypeOK
  <2>.  QED BY <1>25, <2>1 DEF PollRequest, PollDisarm, TypeOK
<1>26. CASE PollTick
      BY <1>26 DEF PollTick, TypeOK
<1>19. CASE UNCHANGED vars
      BY <1>19 DEF vars, TypeOK
<1>. QED BY <1>1, <1>2, <1>3, <1>4, <1>5, <1>6, <1>7, <1>8, <1>9, <1>10, <1>11, <1>12, <1>13,
            <1>14, <1>15, <1>16, <1>17, <1>18, <1>19, <1>21, <1>22, <1>23, <1>24, <1>25, <1>26
         DEF Next, GuestDevice, GuestCpu, Irq, ResetGoesOn, PollGoesOn

\* Every variable keeps its type in every reachable state, for all parameters.
THEOREM TypeCorrect == Spec => []TypeOK
<1>. QED BY InitType, TypeStep, PTL DEF Spec

-----------------------------------------------------------------------------
(* Requests follow DONE, none is lost and none is granted twice.           *)

\* The latch operators keep the relation of a latch to its history.
LEMMA LatchOKOps ==
    ASSUME NEW l \in Latch, NEW h \in {"event", "grant", "enable"}, LatchOK(l, h)
    PROVE  /\ LatchOK(EventSetDone(l), h)
           /\ LatchOK(SwClearDone(l), "event")
           /\ LatchOK(EventSetDone(SwClearDone(l)), "event")
           /\ l.irq_req => LatchOK(LatchAck(l), "grant")
BY DEF Latch, LatchOK, EventSetDone, SwClearDone, LatchAck

\* Writing IE keeps it too, with the history that follows a raised IE.
LEMMA LatchOKIe ==
    ASSUME NEW l \in Latch, NEW h \in {"event", "grant", "enable"}, LatchOK(l, h), NEW ie \in BOOLEAN
    PROVE  LET g == IF (ie /\ ~l.ie) /\ h = "grant" THEN "enable" ELSE h
           IN  LatchOK(DlSetIe(l, ie), g) /\ LatchOK(LpSetIe(l, ie), g)
BY DEF Latch, LatchOK, DlSetIe, LpSetIe, SetIe

\* The state after power-on and after RESET.
LEMMA LatchOKReset ==
    /\ \A s \in Latched : LatchOK(ResetLatches[s], "event")
    /\ KwOK([done |-> TRUE, ie |-> FALSE, req |-> FALSE], "event")
BY DEF ResetLatches, LatchOK, KwOK, LatchReset, EventSetDone

\* An offered device has its request pending.
LEMMA OfferedPending ==
    ASSUME TypeOK, NEW src \in Offered
    PROVE  \A s \in Sources : src[1] = s => Pending(s) /\ src = <<s, Priority(s)>>
<1>1. CASE PirqPoll # {}
  <2>1. src[1] = "pirq"
        BY <1>1 DEF Offered
  <2>.  QED BY <2>1 DEF Sources, Latched
<1>2. CASE PirqPoll = {}
  <2>1. PICK s \in IrqPoll : src = <<s, Priority(s)>>
        BY <1>2 DEF Offered
  <2>2. Candidates # {} /\ s = Best(Candidates) /\ Candidates \in SUBSET Sources
        BY <2>1 DEF IrqPoll, Candidates, Registered
  <2>3. s \in Candidates
        BY <2>2, BestInCandidates
  <2>.  QED BY <2>1, <2>3 DEF Candidates
<1>. QED BY <1>1, <1>2

\* The clock of a machine without a KW11, and after power-on.
KwIdle == [done |-> TRUE, ie |-> FALSE, req |-> FALSE]

\* Between polls and resets.
LEMMA AtRest ==
    ASSUME LatchInv, Unlocked, resetting = {}
    PROVE  /\ OthersOK
           /\ KwOK(kw, last["kw"])
           /\ ~disturbed => RxRest(latch["rx"], last["rx"], rxbuf, typed, consumed)
           /\ "kw11" \notin Devices => kw = KwIdle
           /\ "dl11" \notin Devices => latch["rx"] = LatchReset
BY DEF LatchInv, ClockOK, RxOK, NoReceiver, Unlocked, RxPolling, KwIdle

LEMMA StillAtRest ==
    ASSUME Unlocked', resetting' = {}, OthersOK', KwOK(kw', last'["kw"]),
           ~disturbed' => RxRest(latch'["rx"], last'["rx"], rxbuf', typed', consumed'),
           "kw11" \notin Devices => kw' = KwIdle,
           "dl11" \notin Devices => latch'["rx"] = LatchReset
    PROVE  LatchInv'
BY DEF LatchInv, CoreOK, ClockOK, RxOK, NoReceiver, Unlocked, RxPolling, KwIdle

\* An access of the transmitter or the printer.
LEMMA OneLatch ==
    ASSUME TypeOK, LatchInv, Unlocked, resetting = {}, NEW d \in {"tx", "lp"}, NEW l, NEW h,
           latch' = [latch EXCEPT ![d] = l], last' = [last EXCEPT ![d] = h], LatchOK(l, h),
           UNCHANGED <<kw, rxbuf, typed, consumed, disturbed, polling, resetting>>
    PROVE  LatchInv'
<1>1. OthersOK'
      BY AtRest DEF OthersOK, TypeOK, Sources, Latched
<1>2. latch'["rx"] = latch["rx"] /\ last'["rx"] = last["rx"] /\ last'["kw"] = last["kw"]
      BY DEF TypeOK, Sources, Latched
<1>3. Unlocked' /\ resetting' = {}
      BY DEF Unlocked
<1>. QED BY <1>1, <1>2, <1>3, AtRest, StillAtRest

\* An access of the receiver.
LEMMA OneRx ==
    ASSUME TypeOK, LatchInv, Unlocked, resetting = {}, "dl11" \in Devices, NEW l, NEW h,
           latch' = [latch EXCEPT !["rx"] = l], last' = [last EXCEPT !["rx"] = h],
           ~disturbed' => RxRest(l, h, rxbuf', typed', consumed'),
           UNCHANGED <<kw, polling, resetting>>
    PROVE  LatchInv'
<1>1. OthersOK'
      BY AtRest DEF OthersOK, TypeOK, Sources, Latched
<1>2. latch'["rx"] = l /\ last'["rx"] = h /\ last'["kw"] = last["kw"]
      BY DEF TypeOK, Sources, Latched
<1>3. Unlocked' /\ resetting' = {}
      BY DEF Unlocked
<1>. QED BY <1>1, <1>2, <1>3, AtRest, StillAtRest

\* An access of the clock.
LEMMA OneKw ==
    ASSUME TypeOK, LatchInv, Unlocked, resetting = {}, "kw11" \in Devices, NEW h,
           last' = [last EXCEPT !["kw"] = h], KwOK(kw', h),
           UNCHANGED <<latch, rxbuf, typed, consumed, disturbed, polling, resetting>>
    PROVE  LatchInv'
<1>1. OthersOK'
      BY AtRest DEF OthersOK, TypeOK, Sources, Latched
<1>2. last'["rx"] = last["rx"] /\ last'["kw"] = h
      BY DEF TypeOK, Sources, Latched
<1>3. Unlocked' /\ resetting' = {}
      BY DEF Unlocked
<1>. QED BY <1>1, <1>2, <1>3, AtRest, StillAtRest

\* A step that the invariant does not see.
LEMMA SameLatches ==
    ASSUME LatchInv, CoreOK',
           UNCHANGED <<latch, rxbuf, kw, polling, resetting, typed, consumed, last, disturbed>>
    PROVE  LatchInv'
<1>1. OthersOK' /\ ClockOK' /\ NoReceiver'
      BY DEF LatchInv, OthersOK, ClockOK, NoReceiver, RxPolling
<1>2. ~disturbed' => RxOK'
      BY DEF LatchInv, RxOK, RxPolling
<1>. QED BY <1>1, <1>2 DEF LatchInv

\* A device interrupts only when the lock is free and no reset is under way.
LEMMA DeviceGrantAtRest ==
    ASSUME LatchInv, wait \/ stepEnd, MayOffer, NEW src \in Offered
    PROVE  src[1] \in Sources => Unlocked /\ resetting = {}
<1>1. resetting = {}
      BY DEF LatchInv, CoreOK
<1>2. PirqPoll # {} => src[1] = "pirq"
      BY DEF Offered
<1>. QED BY <1>1, <1>2 DEF MayOffer, Sources, Latched

\* A grant keeps the invariant.
LEMMA GrantLatch ==
    ASSUME TypeOK, LatchInv, wait \/ stepEnd, MayOffer, NEW src \in Offered, Acknowledge(src),
           UNCHANGED <<rxbuf, pollVars, resetting, consumed, disturbed>>
    PROVE  LatchInv'
<1>0. UNCHANGED <<polling, typed>> /\ resetting = {}
      BY DEF pollVars, LatchInv, CoreOK
<1>1. CASE src[1] \notin Sources
  <2>1. latch' = latch /\ last' = last /\ kw' = kw
        BY <1>1 DEF Acknowledge, TypeOK, Sources
  <2>.  QED BY <1>0, <2>1, SameLatches DEF CoreOK
<1>2. CASE src[1] \in Sources
  <2>1. Unlocked
        BY <1>2, DeviceGrantAtRest
  <2>2. Unlocked' /\ resetting' = {}
        BY <1>0, <2>1 DEF Unlocked
  <2>3. /\ OthersOK /\ KwOK(kw, last["kw"])
        /\ ~disturbed => RxRest(latch["rx"], last["rx"], rxbuf, typed, consumed)
        /\ "kw11" \notin Devices => kw = KwIdle
        /\ "dl11" \notin Devices => latch["rx"] = LatchReset
        BY <1>0, <2>1, AtRest
  <2>4. ASSUME NEW s \in Latched
        PROVE  /\ latch[s] \in Latch /\ latch'[s].done = latch[s].done
               /\ s = src[1] => latch'[s] = LatchAck(latch[s]) /\ last'[s] = "grant" /\ latch[s].irq_req
               /\ s # src[1] => latch'[s] = latch[s] /\ last'[s] = last[s]
    <3>1. s = src[1] => latch[s].irq_req
          BY OfferedPending DEF Pending, Sources, Latched
    <3>2. latch[s] \in Latch /\ latch'[s] = IF s = src[1] THEN LatchAck(latch[s]) ELSE latch[s]
          BY DEF Acknowledge, TypeOK
    <3>3. last'[s] = IF s = src[1] THEN "grant" ELSE last[s]
          BY DEF Acknowledge, Sources
    <3>.  QED BY <3>1, <3>2, <3>3 DEF LatchAck, Latch
  <2>5. ASSUME NEW s \in Latched, LatchOK(latch[s], last[s]) PROVE LatchOK(latch'[s], last'[s])
    <3>1. last[s] \in {"event", "grant", "enable"}
          BY DEF TypeOK, Sources
    <3>.  QED BY <2>4, <2>5, <3>1, LatchOKOps
  <2>6. OthersOK'
        BY <2>3, <2>5 DEF OthersOK, Latched
  <2>7. ~disturbed' => RxRest(latch'["rx"], last'["rx"], rxbuf', typed', consumed')
        BY <1>0, <2>3, <2>4, <2>5 DEF RxRest, Latched
  <2>8. KwOK(kw', last'["kw"])
    <3>1. CASE src[1] = "kw"
      <4>1. kw.req
            BY <3>1, OfferedPending DEF Pending, Sources
      <4>2. kw' = [kw EXCEPT !.req = FALSE] /\ last'["kw"] = "grant"
            BY <3>1 DEF Acknowledge, Sources
      <4>.  QED BY <2>3, <4>1, <4>2 DEF KwOK, TypeOK
    <3>2. CASE src[1] # "kw"
          BY <2>3, <3>2 DEF Acknowledge, Sources
    <3>.  QED BY <3>1, <3>2
  <2>9. "kw11" \notin Devices => kw' = KwIdle
    <3>1. kw' = kw \/ kw' = [done |-> kw.done, ie |-> kw.ie, req |-> FALSE]
          BY DEF Acknowledge, TypeOK
    <3>.  QED BY <2>3, <3>1 DEF KwIdle
  <2>10. "dl11" \notin Devices => latch'["rx"] = LatchReset
        BY <2>3, <2>4 DEF Latched, LatchAck, LatchReset
  <2>.  QED BY <2>2, <2>6, <2>7, <2>8, <2>9, <2>10, StillAtRest
<1>. QED BY <1>1, <1>2

\* What the guest's accesses do to DONE, which is all that the characters see of it.
LEMMA DoneOps ==
    ASSUME NEW l \in Latch, NEW ie \in BOOLEAN
    PROVE  ~SwClearDone(l).done /\ DlSetIe(l, ie).done = l.done
BY DEF Latch, SwClearDone, DlSetIe

\* Clearing DONE puts the receiver to rest, disturbed or not.
LEMMA ClearedRx ==
    ASSUME TypeOK, LatchInv, Unlocked, resetting = {}, NEW l \in Latch, NEW b
    PROVE  RxRest(SwClearDone(l), "event", b, typed, Gone)
<1>1. Gone = typed
  <2>1. typed \in Int /\ consumed \in Int
        BY InterruptsAssumption DEF TypeOK
  <2>.  QED BY <2>1, AtRest DEF Gone, RxRest
<1>. QED BY <1>1 DEF RxRest, LatchOK, SwClearDone, Latch

\* The guest's accesses of the devices keep the invariant.
LEMMA DeviceStep ==
    ASSUME TypeOK, LatchInv, GuestDevice
    PROVE  LatchInv'
<1>. USE DEF DeviceAccess, Instruction, Ready, pollVars
<1>0. /\ "rx" \in Latched /\ "tx" \in Latched /\ "lp" \in Latched
      /\ \A s \in Latched : latch[s] \in Latch /\ last[s] \in {"event", "grant", "enable"}
      BY DEF Latched, Sources, TypeOK
<1>20. Unlocked /\ resetting = {} => /\ LatchOK(latch["tx"], last["tx"])
                                     /\ LatchOK(latch["lp"], last["lp"])
      BY AtRest DEF OthersOK
<1>1. CASE AccessRbuf
  <2>1. RxRest(SwClearDone(latch["rx"]), "event", rxbuf, typed, Gone)
        BY <1>1, <1>0, ClearedRx DEF AccessRbuf
  <2>.  QED BY <1>1, <2>1, OneRx DEF AccessRbuf, TakeChar, Cleared
<1>2. ASSUME NEW ie \in BOOLEAN, NEW re \in BOOLEAN, WriteRcsr(ie, re) PROVE LatchInv'
  <2>. DEFINE l == DlSetIe(latch["rx"], ie)
              g == IF (ie /\ ~latch["rx"].ie) /\ last["rx"] = "grant" THEN "enable" ELSE last["rx"]
  <2>1. l \in Latch /\ l.done = latch["rx"].done
        BY <1>0, LatchIeOps, DoneOps
  <2>2. CASE re
    <3>1. RxRest(SwClearDone(l), "event", rxbuf, typed, Gone)
          BY <1>2, <2>1, ClearedRx DEF WriteRcsr
    <3>2. /\ latch' = [latch EXCEPT !["rx"] = SwClearDone(l)] /\ last' = [last EXCEPT !["rx"] = "event"]
          /\ consumed' = Gone /\ UNCHANGED <<rxbuf, typed, kw, polling, resetting>>
          /\ Unlocked /\ resetting = {} /\ "dl11" \in Devices
          BY <1>2, <2>2 DEF WriteRcsr, Cleared
    <3>. HIDE DEF l
    <3>.  QED BY <3>1, <3>2, OneRx
  <2>3. CASE ~re
    <3>1. /\ latch' = [latch EXCEPT !["rx"] = l]
          /\ last' = [last EXCEPT !["rx"] = g]
          /\ UNCHANGED <<rxbuf, typed, consumed, kw, polling, resetting>>
          /\ disturbed' = disturbed
          /\ Unlocked /\ resetting = {} /\ "dl11" \in Devices
          BY <1>2, <2>3 DEF WriteRcsr, Raised, Enabled, TypeOK
    <3>2. ASSUME ~disturbed PROVE RxRest(l, g, rxbuf, typed, consumed)
      <4>1. RxRest(latch["rx"], last["rx"], rxbuf, typed, consumed)
            BY <3>1, <3>2, AtRest
      <4>2. LatchOK(l, g)
            BY <4>1, <1>0, LatchOKIe DEF RxRest
      <4>3. QED BY <2>1, <4>1, <4>2 DEF RxRest
    <3>. HIDE DEF l, g
    <3>.  QED BY <3>1, <3>2, OneRx
  <2>.  QED BY <2>2, <2>3
<1>3. ASSUME NEW ie \in BOOLEAN, WriteTcsr(ie) PROVE LatchInv'
  <2>. DEFINE g == IF (ie /\ ~latch["tx"].ie) /\ last["tx"] = "grant" THEN "enable" ELSE last["tx"]
  <2>1. /\ latch' = [latch EXCEPT !["tx"] = DlSetIe(latch["tx"], ie)]
        /\ last' = [last EXCEPT !["tx"] = g]
        BY <1>3 DEF WriteTcsr, Raised, Enabled
  <2>2. LatchOK(DlSetIe(latch["tx"], ie), g)
        BY <1>3, <1>20, <1>0, LatchOKIe DEF WriteTcsr
  <2>. HIDE DEF g
  <2>.  QED BY <1>3, <2>1, <2>2, OneLatch DEF WriteTcsr
<1>4. CASE WriteTbuf
  <2>1. LatchOK(EventSetDone(SwClearDone(latch["tx"])), "event")
        BY <1>4, <1>20, <1>0, LatchOKOps DEF WriteTbuf
  <2>.  QED BY <1>4, <2>1, OneLatch DEF WriteTbuf, Cleared
<1>5. ASSUME NEW ie \in BOOLEAN, LpWriteCsr(ie) PROVE LatchInv'
  <2>. DEFINE g == IF (ie /\ ~latch["lp"].ie) /\ last["lp"] = "grant" THEN "enable" ELSE last["lp"]
  <2>1. /\ latch' = [latch EXCEPT !["lp"] = LpSetIe(latch["lp"], ie)]
        /\ last' = [last EXCEPT !["lp"] = g]
        BY <1>5 DEF LpWriteCsr, Raised, Enabled
  <2>2. LatchOK(LpSetIe(latch["lp"], ie), g)
        BY <1>5, <1>20, <1>0, LatchOKIe DEF LpWriteCsr
  <2>. HIDE DEF g
  <2>.  QED BY <1>5, <2>1, <2>2, OneLatch DEF LpWriteCsr
<1>6. CASE LpWriteDbr
  <2>1. LatchOK(EventSetDone(SwClearDone(latch["lp"])), "event")
        BY <1>6, <1>20, <1>0, LatchOKOps DEF LpWriteDbr
  <2>.  QED BY <1>6, <2>1, OneLatch DEF LpWriteDbr, Cleared
<1>7. CASE KwReadCsr
  <2>1. KwOK(kw', "event")
        BY <1>7 DEF KwReadCsr, KwOK, TypeOK
  <2>.  QED BY <1>7, <2>1, OneKw DEF KwReadCsr, Cleared
<1>8. ASSUME NEW ie \in BOOLEAN, NEW d \in BOOLEAN, KwWriteCsr(ie, d) PROVE LatchInv'
  <2>1. CASE ~d
    <3>1. KwOK(kw', "event")
          BY <1>8, <2>1 DEF KwWriteCsr, KwOK
    <3>.  QED BY <1>8, <2>1, <3>1, OneKw DEF KwWriteCsr, Cleared
  <2>2. CASE d
    <3>. DEFINE g == IF ie /\ last["kw"] = "grant" THEN "enable" ELSE last["kw"]
    <3>1. kw' = [done |-> kw.done, ie |-> ie, req |-> kw.req \/ (ie /\ kw.done)]
          BY <1>8, <2>2 DEF KwWriteCsr, TypeOK
    <3>2. KwOK(kw, last["kw"])
          BY <1>8, AtRest DEF KwWriteCsr
    <3>3. KwOK(kw', g)
          BY <3>1, <3>2 DEF KwOK, TypeOK
    <3>4. last' = [last EXCEPT !["kw"] = g]
          BY <1>8, <2>2 DEF KwWriteCsr, Raised
    <3>. HIDE DEF g
    <3>.  QED BY <1>8, <3>3, <3>4, OneKw DEF KwWriteCsr
  <2>.  QED BY <2>1, <2>2
<1>. QED BY <1>1, <1>2, <1>3, <1>4, <1>5, <1>6, <1>7, <1>8 DEF GuestDevice

\* The steps of a reset keep the invariant.
LEMMA ResetStep ==
    ASSUME TypeOK, LatchInv, Reset \/ ResetGoesOn
    PROVE  LatchInv'
<1>0. latch \in [Latched -> Latch] /\ last \in [Sources -> {"event", "grant", "enable"}]
      BY DEF TypeOK
<1>1. CASE Reset
  <2>1. resetting = {} /\ resetting' = RxStores \cup KwStores \cup {"end"} /\ ~wait' /\ ~stepEnd'
        BY <1>1 DEF Reset, Ready
  <2>2. /\ \A s \in Sources : last'[s] = "event"
        /\ latch'["tx"] = ResetLatches["tx"] /\ latch'["lp"] = ResetLatches["lp"]
        /\ latch'["rx"] = latch["rx"]
        BY <1>1 DEF Reset, Latched
  <2>3. OthersOK'
        BY <2>2, LatchOKReset DEF OthersOK, Sources, Latched
  <2>4. UNCHANGED <<kw, polling, typed>>
        BY <1>1 DEF Reset, pollVars
  <2>5. ClockOK'
    <3>1. "kw11" \in Devices => "kwDone" \in resetting' /\ "kwIe" \in resetting'
          BY <2>1 DEF KwStores
    <3>2. "kw11" \notin Devices => kw.done /\ ~kw.ie
          BY DEF LatchInv, ClockOK
    <3>3. resetting' # {} /\ last'["kw"] = "event"
          BY <2>1, <2>2 DEF Sources
    <3>.  QED BY <2>4, <3>1, <3>2, <3>3 DEF ClockOK, LatchInv
  <2>6. NoReceiver'
        BY <2>2, <2>4 DEF NoReceiver, LatchInv, RxPolling
  <2>7. ASSUME ~disturbed' PROVE RxOK'
    <3>1. ~RxPolling /\ ~RxPolling'
          BY <1>1, <2>4, <2>7 DEF Reset, RxPolling
    <3>2. consumed' = typed
      <4>1. ~disturbed => RxRest(latch["rx"], last["rx"], rxbuf, typed, consumed)
            BY <2>1, <3>1 DEF LatchInv, RxOK
      <4>2. typed \in Int /\ consumed \in Int
            BY InterruptsAssumption DEF TypeOK
      <4>.  QED BY <1>1, <4>1, <4>2 DEF Reset, Gone, RxRest
    <3>3. "dl11" \in Devices => {"done", "request", "armed"} \subseteq resetting'
          BY <2>1 DEF RxStores
    <3>4. "dl11" \notin Devices => latch'["rx"] = LatchReset
          BY <2>2 DEF LatchInv, NoReceiver
    <3>5. RxAmidReset(latch'["rx"], last'["rx"], typed', consumed', resetting')
          BY <2>2, <2>4, <3>2, <3>3, <3>4 DEF RxAmidReset, Sources, Latched, LatchReset
    <3>.  QED BY <2>1, <3>1, <3>5 DEF RxOK
  <2>.  QED BY <2>1, <2>3, <2>5, <2>6, <2>7 DEF LatchInv, CoreOK
<1>2. ASSUME NEW x \in RxStores \cup KwStores, ResetStore(x) PROVE LatchInv'
  <2>. DEFINE Known == {"done", "ie", "request", "armed", "char", "kwDone", "kwIe", "kwRequest"}
  <2>0. x \in Known
        BY DEF RxStores, KwStores
  <2>1. /\ x \in resetting /\ x # "end" /\ resetting' = resetting \ {x}
        /\ UNCHANGED <<wait, stepEnd, polling, typed, consumed, last, disturbed>>
        BY <1>2 DEF ResetStore, pollVars
  <2>2. /\ \A s \in {"tx", "lp"} : latch'[s] = latch[s]
        /\ latch["rx"] \in Latch
        /\ latch'["rx"].done = (latch["rx"].done /\ x # "done")
        /\ latch'["rx"].irq_req = (latch["rx"].irq_req /\ x # "request")
        /\ latch'["rx"].irq_armed = (latch["rx"].irq_armed \/ x = "armed")
        /\ "dl11" \notin Devices => latch'["rx"] = latch["rx"]
        BY <1>0, <1>2 DEF ResetStore, Latched, Latch, RxStores, KwStores
  <2>3. /\ kw'.done = (kw.done \/ x = "kwDone") /\ kw'.ie = (kw.ie /\ x # "kwIe")
        /\ "kw11" \notin Devices => kw' = kw
        BY <1>2 DEF ResetStore, TypeOK, RxStores, KwStores
  <2>4. OthersOK' /\ NoReceiver'
        BY <2>1, <2>2 DEF OthersOK, NoReceiver, LatchInv, RxPolling
  <2>5. resetting # {} /\ last["kw"] = "event"
        BY <2>1 DEF LatchInv, ClockOK
  <2>7. "end" \in resetting
        BY <2>1 DEF CoreOK, LatchInv
  <2>6. ClockOK'
        BY <2>1, <2>3, <2>5, <2>7 DEF ClockOK, LatchInv
  <2>8. ASSUME ~disturbed' PROVE RxOK'
    <3>1. RxOK /\ ~RxPolling /\ ~RxPolling'
          BY <2>1, <2>8 DEF LatchInv, RxOK, RxPolling
    <3>2. RxAmidReset(latch'["rx"], last'["rx"], typed', consumed', resetting')
          BY <2>1, <2>2, <2>5, <3>1 DEF RxOK, RxAmidReset
    <3>.  QED BY <2>1, <2>7, <3>1, <3>2 DEF RxOK
  <2>.  QED BY <2>1, <2>4, <2>6, <2>8 DEF LatchInv, CoreOK
<1>3. CASE ResetEnd
  <2>1. /\ resetting = {"end"} /\ resetting' = {}
        /\ UNCHANGED <<latch, rxbuf, kw, polling, typed, consumed, last, disturbed>>
        BY <1>3 DEF ResetEnd, pollVars
  <2>2. OthersOK' /\ NoReceiver' /\ CoreOK'
        BY <2>1 DEF OthersOK, NoReceiver, CoreOK, LatchInv, RxPolling
  <2>3. last["kw"] = "event" /\ kw.done /\ ~kw.ie
        BY <2>1 DEF LatchInv, ClockOK
  <2>4. ClockOK'
        BY <2>1, <2>3 DEF ClockOK, LatchInv, KwOK
  <2>5. ASSUME ~disturbed' PROVE RxOK'
    <3>1. ~RxPolling /\ ~RxPolling' /\ RxAmidReset(latch["rx"], last["rx"], typed, consumed, resetting)
          BY <2>1, <2>5 DEF LatchInv, RxOK, RxPolling
    <3>2. RxRest(latch["rx"], last["rx"], rxbuf, typed, consumed)
          BY <2>1, <3>1 DEF RxAmidReset, RxRest, LatchOK
    <3>.  QED BY <2>1, <3>1, <3>2 DEF RxOK
  <2>.  QED BY <2>2, <2>4, <2>5 DEF LatchInv
<1>. QED BY <1>1, <1>2, <1>3 DEF ResetGoesOn

\* The steps of a poll keep the invariant.
LEMMA PollStep ==
    ASSUME TypeOK, LatchInv, Dl11Poll \/ KwTick \/ PollGoesOn
    PROVE  LatchInv'
<1>0. /\ latch \in [Latched -> Latch] /\ last \in [Sources -> {"event", "grant", "enable"}]
      /\ latch["rx"] \in Latch /\ typed \in Int /\ consumed \in Int
      BY InterruptsAssumption DEF TypeOK, Latched
<1>1. CASE Dl11Poll
  <2>1. /\ polling = "idle" /\ polling' = "char" /\ typed' = typed + 1 /\ "dl11" \in Devices
        /\ disturbed' = (disturbed \/ resetting # {})
        /\ UNCHANGED <<latch, rxbuf, kw, wait, stepEnd, resetting, consumed, last>>
        BY <1>1 DEF Dl11Poll, MayPoll, Unlocked
  <2>2. CoreOK' /\ OthersOK' /\ NoReceiver'
        BY <2>1 DEF CoreOK, OthersOK, NoReceiver, LatchInv
  <2>3. ClockOK'
        BY <2>1 DEF ClockOK, LatchInv
  <2>4. ASSUME ~disturbed' PROVE RxOK'
    <3>1. resetting = {} /\ resetting' = {} /\ ~disturbed
          BY <2>1, <2>4
    <3>2. RxRest(latch["rx"], last["rx"], rxbuf, typed, consumed) /\ ~latch["rx"].done
          BY <1>1, <2>1, <3>1 DEF LatchInv, RxOK, RxPolling, Dl11Poll, RxEmpty
    <3>3. RxAmidPoll(latch'["rx"], last'["rx"], rxbuf', typed', consumed', polling')
          BY <1>0, <2>1, <3>2 DEF RxRest, RxAmidPoll, LatchOK
    <3>4. RxPolling'
          BY <2>1 DEF RxPolling
    <3>.  QED BY <3>1, <3>3, <3>4 DEF RxOK
  <2>.  QED BY <2>2, <2>3, <2>4 DEF LatchInv
<1>2. CASE KwTick
  <2>1. /\ polling = "idle" /\ polling' = IF kw.ie THEN "tick" ELSE "idle"
        /\ kw'.done /\ kw'.ie = kw.ie /\ kw'.req = kw.req
        /\ last' = [last EXCEPT !["kw"] = "event"] /\ "kw11" \in Devices
        /\ UNCHANGED <<latch, rxbuf, wait, stepEnd, resetting, typed, consumed, disturbed>>
        BY <1>2 DEF KwTick, MayPoll, Unlocked, Cleared, TypeOK
  <2>2. last'["kw"] = "event" /\ \A s \in Latched : last'[s] = last[s]
        BY <1>0, <2>1 DEF Sources, Latched
  <2>3. ~RxPolling /\ ~RxPolling'
        BY <2>1 DEF RxPolling
  <2>4. CoreOK' /\ OthersOK' /\ NoReceiver'
        BY <2>1, <2>2, <2>3 DEF CoreOK, OthersOK, NoReceiver, LatchInv, Latched
  <2>5. ClockOK'
        BY <2>1, <2>2 DEF ClockOK, KwOK, LatchInv
  <2>6. ~disturbed' => RxOK'
        BY <2>1, <2>2, <2>3 DEF RxOK, LatchInv, Latched
  <2>.  QED BY <2>4, <2>5, <2>6 DEF LatchInv
<1>3. CASE PollTick
  <2>1. /\ polling = "tick" /\ polling' = "idle"
        /\ kw'.done = kw.done /\ kw'.ie = kw.ie /\ kw'.req
        /\ UNCHANGED <<latch, rxbuf, wait, stepEnd, resetting, typed, consumed, last, disturbed>>
        BY <1>3 DEF PollTick, TypeOK
  <2>2. ~RxPolling /\ ~RxPolling'
        BY <2>1 DEF RxPolling
  <2>3. CoreOK' /\ OthersOK' /\ NoReceiver'
        BY <2>1, <2>2 DEF CoreOK, OthersOK, NoReceiver, LatchInv
  <2>4. kw.done /\ last["kw"] = "event" /\ "kw11" \in Devices
        BY <2>1 DEF ClockOK, LatchInv
  <2>5. ClockOK'
        BY <2>1, <2>4 DEF ClockOK, KwOK, LatchInv
  <2>6. ~disturbed' => RxOK'
        BY <2>1, <2>2 DEF RxOK, LatchInv
  <2>.  QED BY <2>3, <2>5, <2>6 DEF LatchInv
<1>4. CASE PollChar \/ PollDone \/ PollRequest \/ PollDisarm
  <2>1. /\ RxPolling /\ polling' # "tick" /\ polling # "tick" /\ polling' # "char"
        /\ UNCHANGED <<kw, wait, stepEnd, resetting, typed, consumed, disturbed>>
        BY <1>4 DEF PollChar, PollDone, PollRequest, PollDisarm, RxPolling
  <2>2. \A s \in Sources \ {"rx"} : last'[s] = last[s]
        BY <1>0, <1>4 DEF PollChar, PollDone, PollRequest, PollDisarm, Cleared
  <2>3. \A s \in Latched \ {"rx"} : latch'[s] = latch[s]
        BY <1>0, <1>4 DEF PollChar, PollDone, PollRequest, PollDisarm
  <2>4. "dl11" \in Devices
        BY <2>1 DEF NoReceiver, LatchInv
  <2>5. CoreOK' /\ NoReceiver' /\ OthersOK'
        BY <2>1, <2>2, <2>3, <2>4 DEF CoreOK, NoReceiver, OthersOK, LatchInv, Sources, Latched
  <2>6. ClockOK'
        BY <2>1, <2>2 DEF ClockOK, LatchInv, Sources, Latched
  <2>7. ASSUME ~disturbed' PROVE RxOK'
    <3>1. /\ resetting = {} /\ resetting' = {}
          /\ RxAmidPoll(latch["rx"], last["rx"], rxbuf, typed, consumed, polling)
          BY <2>1, <2>7 DEF RxOK, LatchInv
    <3>2. CASE PollChar
      <4>1. /\ polling = "char" /\ polling' = "done" /\ rxbuf' = typed
            /\ latch' = latch /\ last' = last
            BY <3>2 DEF PollChar
      <4>.  QED BY <2>1, <3>1, <4>1 DEF RxOK, RxAmidPoll, RxPolling
    <3>3. CASE PollDone
      <4>1. /\ polling = "done" /\ rxbuf' = rxbuf /\ last'["rx"] = "event"
            /\ latch'["rx"] = [latch["rx"] EXCEPT !.done = TRUE]
            /\ polling' = IF latch["rx"].ie /\ latch["rx"].irq_armed THEN "request" ELSE "idle"
            BY <1>0, <3>3 DEF PollDone, Cleared, Sources, Latched
      <4>2. /\ latch'["rx"].done /\ latch'["rx"].ie = latch["rx"].ie
            /\ latch'["rx"].irq_req = latch["rx"].irq_req
            BY <1>0, <4>1 DEF Latch
      <4>3. CASE polling' = "request"
            BY <2>1, <3>1, <4>1, <4>2, <4>3 DEF RxOK, RxAmidPoll, RxPolling
      <4>4. CASE polling' = "idle"
        <5>1. RxRest(latch'["rx"], last'["rx"], rxbuf', typed', consumed')
              BY <2>1, <3>1, <4>1, <4>2, <4>4 DEF RxRest, RxAmidPoll, LatchOK
        <5>.  QED BY <3>1, <4>4, <5>1 DEF RxOK, RxPolling
      <4>.  QED BY <4>1, <4>3, <4>4
    <3>4. CASE PollRequest
      <4>1. /\ polling = "request" /\ polling' = "disarm" /\ rxbuf' = rxbuf /\ last' = last
            /\ latch'["rx"] = [latch["rx"] EXCEPT !.irq_req = TRUE]
            BY <1>0, <3>4 DEF PollRequest, Latched
      <4>2. latch'["rx"].done = latch["rx"].done /\ latch'["rx"].irq_req
            BY <1>0, <4>1 DEF Latch
      <4>.  QED BY <2>1, <3>1, <4>1, <4>2 DEF RxOK, RxAmidPoll, RxPolling
    <3>5. CASE PollDisarm
      <4>1. /\ polling = "disarm" /\ polling' = "idle" /\ rxbuf' = rxbuf /\ last' = last
            /\ latch'["rx"] = [latch["rx"] EXCEPT !.irq_armed = FALSE]
            BY <1>0, <3>5 DEF PollDisarm, Latched
      <4>2. latch'["rx"].done = latch["rx"].done /\ latch'["rx"].irq_req = latch["rx"].irq_req
            BY <1>0, <4>1 DEF Latch
      <4>3. RxRest(latch'["rx"], last'["rx"], rxbuf', typed', consumed')
            BY <2>1, <3>1, <4>1, <4>2 DEF RxRest, RxAmidPoll, LatchOK
      <4>.  QED BY <3>1, <4>1, <4>3 DEF RxOK, RxPolling
    <3>.  QED BY <1>4, <3>2, <3>3, <3>4, <3>5
  <2>.  QED BY <2>5, <2>6, <2>7 DEF LatchInv
<1>. QED BY <1>1, <1>2, <1>3, <1>4 DEF PollGoesOn

LEMMA LatchStep == TypeOK /\ LatchInv /\ [Next]_vars => LatchInv'
<1>. SUFFICES ASSUME TypeOK, LatchInv, [Next]_vars PROVE LatchInv'
     OBVIOUS
<1>1. CASE GuestDevice
      BY <1>1, DeviceStep
<1>2. CASE Reset \/ ResetGoesOn
      BY <1>2, ResetStep
<1>3. CASE Dl11Poll \/ KwTick \/ PollGoesOn
      BY <1>3, PollStep
<1>4. CASE GuestCpu /\ ~Reset
  <2>1. /\ UNCHANGED <<latch, rxbuf, kw, pollVars, resetting, consumed, last, disturbed>>
        /\ resetting = {}
        BY <1>4 DEF GuestCpu, WritePirq, SetPsw, Rti, WaitInstruction, Instruction, Ready
  <2>.  QED BY <2>1, SameLatches DEF CoreOK, pollVars
<1>5. CASE StepEndIrq
      BY <1>5, GrantLatch DEF StepEndIrq
<1>6. CASE WaitIrq
      BY <1>6, GrantLatch DEF WaitIrq
<1>7. CASE StepEndNone
  <2>1. /\ UNCHANGED <<latch, rxbuf, kw, polling, resetting, typed, consumed, last, disturbed>>
        /\ resetting = {}
        BY <1>7 DEF StepEndNone, LatchInv, CoreOK, pollVars
  <2>.  QED BY <2>1, SameLatches DEF CoreOK
<1>8. CASE UNCHANGED vars
  <2>1. /\ UNCHANGED <<latch, rxbuf, kw, polling, resetting, typed, consumed, last, disturbed>>
        /\ UNCHANGED <<wait, stepEnd>>
        BY <1>8 DEF vars
  <2>.  QED BY <2>1, SameLatches DEF CoreOK, LatchInv
<1>. QED BY <1>1, <1>2, <1>3, <1>4, <1>5, <1>6, <1>7, <1>8 DEF Next, Irq

LEMMA LatchStart == Init => LatchInv
<1>. SUFFICES ASSUME Init PROVE LatchInv
     OBVIOUS
<1>1. \A s \in Latched : LatchOK(latch[s], last[s])
      BY LatchOKReset DEF Init, Sources
<1>2. latch["rx"] = LatchReset /\ last["kw"] = "event" /\ "rx" \in Latched
      BY DEF Init, ResetLatches, Latched, Sources
<1>3. KwOK(kw, last["kw"])
      BY <1>2, LatchOKReset DEF Init
<1>4. RxRest(latch["rx"], last["rx"], rxbuf, typed, consumed)
      BY <1>1, <1>2 DEF Init, RxRest, LatchReset
<1>. QED BY <1>1, <1>2, <1>3, <1>4
         DEF Init, LatchInv, CoreOK, OthersOK, ClockOK, NoReceiver, RxOK, RxPolling, Latched

\* In every reachable state, outside the polls and resets themselves, a pending request
\* has its DONE set, and a device that is done and enabled and not yet granted has its
\* request pending: no order of device events, IE writes, grants and the stores of a
\* RESET loses an interrupt, except one of the receiver whose poll a RESET overlapped.
THEOREM InterruptsFollowDone == Spec => [](RequestImpliesDone /\ NoLostInterrupt)
<1>1. LatchInv => RequestImpliesDone /\ NoLostInterrupt
  <2>. SUFFICES ASSUME LatchInv, NEW s \in Sources, Settled(s)
                PROVE  /\ Pending(s) => Done(s)
                       /\ Done(s) /\ Enabled(s) /\ last[s] # "grant" => Pending(s)
       BY DEF RequestImpliesDone, NoLostInterrupt
  <2>1. CASE s = "kw"
        BY <2>1, AtRest DEF Settled, KwOK, Pending, Done, Enabled
  <2>2. CASE s \in {"tx", "lp"}
        BY <2>2, AtRest DEF Settled, OthersOK, LatchOK, Pending, Done, Enabled
  <2>3. CASE s = "rx"
        BY <2>3, AtRest DEF Settled, RxRest, LatchOK, Pending, Done, Enabled
  <2>.  QED BY <2>1, <2>2, <2>3 DEF Sources, Latched
<1>. QED BY <1>1, LatchStart, InitType, TypeStep, LatchStep, PTL DEF Spec

\* Characters reach the guest in order and once, for any number of them, and a RESET
\* that overlaps a poll costs the one of that poll at most.
THEOREM CharactersInOrder == Spec => []RxInOrder
<1>1. LatchInv => RxInOrder
      BY AtRest DEF RxInOrder, Settled, RxRest
<1>. QED BY <1>1, LatchStart, InitType, TypeStep, LatchStep, PTL DEF Spec

-----------------------------------------------------------------------------
(* Grants.                                                                 *)

\* A stack without its top frame.
LEMMA PopFrame ==
    ASSUME frames \in Seq(Frame), frames # <<>>
    PROVE  LET rest == SubSeq(frames, 1, Len(frames) - 1)
           IN  /\ Len(rest) = Len(frames) - 1
               /\ \A i \in 1..(Len(frames) - 1) : rest[i] = frames[i]
<1>. DEFINE n == Len(frames)
            rest == SubSeq(frames, 1, n - 1)
<1>1. n \in Nat \ {0}
      BY EmptySeq
<1>2. 1 \in Int /\ n - 1 \in Int /\ \A i \in 1..(n - 1) : frames[i] \in Frame
      BY <1>1
<1>3. /\ Len(rest) = IF 1 <= n - 1 THEN (n - 1) - 1 + 1 ELSE 0
      /\ \A i \in 1..((n - 1) - 1 + 1) : rest[i] = frames[1 + i - 1]
      BY <1>2, SubSeqProperties
<1>. HIDE DEF n, rest
<1>4. Len(rest) = n - 1 /\ \A i \in 1..(n - 1) : rest[i] = frames[i]
      BY <1>1, <1>3
<1>. QED BY <1>4 DEF n, rest

\* Only a grant enters a handler.
LEMMA OnlyGrantsTake ==
    ASSUME TypeOK, [Next]_vars, NEW src, Taken(src)
    PROVE  /\ src \in Offered
           /\ StepEndIrq \/ WaitIrq
<1>. DEFINE Longer == Len(frames') = Len(frames) + 1
<1>0. Len(frames) \in Nat
      BY DEF TypeOK
<1>1. UNCHANGED frames => ~Longer
      BY <1>0
<1>2. Rti => ~Longer
  <2>. SUFFICES ASSUME Rti PROVE ~Longer
       OBVIOUS
  <2>1. frames # <<>> /\ frames' = SubSeq(frames, 1, Len(frames) - 1)
        BY DEF Rti
  <2>2. Len(frames') = Len(frames) - 1
        BY <2>1, PopFrame DEF TypeOK
  <2>.  QED BY <1>0, <2>2
<1>3. ASSUME ~(StepEndIrq \/ WaitIrq) PROVE UNCHANGED frames \/ Rti
  <2>1. GuestDevice => UNCHANGED frames
        BY DEF GuestDevice, AccessRbuf, WriteRcsr, WriteTcsr, WriteTbuf, LpWriteCsr, LpWriteDbr,
               KwReadCsr, KwWriteCsr
  <2>2. GuestCpu => UNCHANGED frames \/ Rti
        BY DEF GuestCpu, WritePirq, SetPsw, WaitInstruction, Reset
  <2>3. Dl11Poll \/ KwTick \/ StepEndNone \/ UNCHANGED vars => UNCHANGED frames
        BY DEF Dl11Poll, KwTick, StepEndNone, vars
  <2>4. ResetGoesOn \/ PollGoesOn => UNCHANGED frames
        BY DEF ResetGoesOn, ResetStore, ResetEnd, PollGoesOn, PollChar, PollDone, PollRequest,
               PollDisarm, PollTick
  <2>.  QED BY <1>3, <2>1, <2>2, <2>3, <2>4 DEF Next, Irq
<1>4. StepEndIrq \/ WaitIrq
      BY <1>1, <1>2, <1>3 DEF Taken
<1>5. PICK s \in Offered : TakeVector(s)
      BY <1>4 DEF StepEndIrq, WaitIrq
<1>6. frames' = Append(frames, [saved |-> psw, src |-> s])
      BY <1>1, <1>5 DEF TakeVector, Taken
<1>7. frames'[Len(frames) + 1] = [saved |-> psw, src |-> s]
      BY <1>6 DEF TypeOK
<1>. QED BY <1>4, <1>5, <1>7 DEF Taken

\* A source interrupts once for one event and only while it is done.
LEMMA GrantOnceStep ==
    ASSUME TypeOK, LatchInv, [Next]_vars
    PROVE  \A s \in Sources : Taken(<<s, Priority(s)>>) =>
               (s = "rx" /\ disturbed) \/ (Done(s) /\ last[s] # "grant")
<1>. SUFFICES ASSUME NEW s \in Sources, Taken(<<s, Priority(s)>>), ~(s = "rx" /\ disturbed)
              PROVE  Done(s) /\ last[s] # "grant"
     OBVIOUS
<1>1. Pending(s)
      BY OnlyGrantsTake, OfferedPending
<1>2. Unlocked /\ resetting = {}
  <2>1. /\ <<s, Priority(s)>> \in Offered
        /\ (wait \/ stepEnd) /\ MayOffer
        BY OnlyGrantsTake DEF StepEndIrq, WaitIrq
  <2>.  QED BY <2>1, DeviceGrantAtRest
<1>3. CASE s = "kw"
      BY <1>1, <1>2, <1>3, AtRest DEF KwOK, Pending, Done
<1>4. CASE s \in {"tx", "lp"}
      BY <1>1, <1>2, <1>4, AtRest DEF OthersOK, LatchOK, Pending, Done
<1>5. CASE s = "rx"
      BY <1>1, <1>2, <1>5, AtRest DEF RxRest, LatchOK, Pending, Done
<1>. QED BY <1>3, <1>4, <1>5 DEF Sources, Latched

\* No source is granted twice for one event, on any machine, with any program, but for
\* a receiver that a RESET of the other core has disturbed.
THEOREM GrantedOnce == Spec => GrantedOncePerEvent
<1>1. TypeOK /\ LatchInv /\ [Next]_vars =>
          [\A s \in Sources : Taken(<<s, Priority(s)>>) =>
               (s = "rx" /\ disturbed) \/ (Done(s) /\ last[s] # "grant")]_vars
      BY GrantOnceStep
<1>. QED BY <1>1, LatchStart, InitType, TypeStep, LatchStep, PTL DEF Spec, GrantedOncePerEvent

\* What the arbiter acknowledges the core accepts.
LEMMA OfferedAccepted ==
    ASSUME TypeOK, NEW src \in Offered
    PROVE  src[1] \in Sources => IrqAccept(LevelOf(src))
<1>. SUFFICES ASSUME src[1] \in Sources PROVE IrqAccept(LevelOf(src))
     OBVIOUS
<1>1. PirqPoll = {}
  <2>1. PirqPoll # {} => src[1] = "pirq"
        BY DEF Offered
  <2>.  QED BY <2>1 DEF Sources, Latched
<1>2. PICK s \in IrqPoll : src = <<s, Priority(s)>>
      BY <1>1 DEF Offered
<1>3. Candidates # {} /\ s = Best(Candidates) /\ Acceptable /\ Candidates \in SUBSET Sources
      BY <1>2 DEF IrqPoll, Candidates, Registered
<1>4. s \in Candidates
      BY <1>3, BestInCandidates
<1>. QED BY <1>2, <1>3, <1>4, InterruptsAssumption DEF Candidates, Acceptable, IrqAccept, LevelOf

\* Only a grant writes "grant" into the history of a source.
LEMMA AckTakenStep ==
    ASSUME TypeOK, [Next]_vars
    PROVE  \A s \in Sources :
               last[s] # "grant" /\ last'[s] = "grant" => Taken(<<s, Priority(s)>>)
<1>. SUFFICES ASSUME NEW s \in Sources, last[s] # "grant", last'[s] = "grant"
              PROVE  Taken(<<s, Priority(s)>>)
     OBVIOUS
<1>0. last \in [Sources -> {"event", "grant", "enable"}]
      BY DEF TypeOK
<1>1. ASSUME NEW d, last' = Cleared(d) PROVE FALSE
      BY <1>0, <1>1 DEF Cleared
<1>2. ASSUME NEW d, NEW raise, last' = Raised(d, raise) PROVE FALSE
      BY <1>0, <1>2 DEF Raised
<1>3. ASSUME UNCHANGED last PROVE FALSE
      BY <1>3
<1>4. GuestDevice => FALSE
  <2>1. AccessRbuf \/ WriteTbuf \/ LpWriteDbr \/ KwReadCsr => FALSE
        BY <1>1 DEF AccessRbuf, TakeChar, WriteTbuf, LpWriteDbr, KwReadCsr
  <2>2. ASSUME NEW ie \in BOOLEAN, WriteTcsr(ie) \/ LpWriteCsr(ie) PROVE FALSE
        BY <1>2, <2>2 DEF WriteTcsr, LpWriteCsr
  <2>3. ASSUME NEW ie \in BOOLEAN, NEW re \in BOOLEAN, WriteRcsr(ie, re) PROVE FALSE
    <3>1. last' = Cleared("rx") \/ last' = Raised("rx", ie /\ ~Enabled("rx"))
          BY <2>3 DEF WriteRcsr
    <3>.  QED BY <1>1, <1>2, <3>1
  <2>4. ASSUME NEW ie \in BOOLEAN, NEW d \in BOOLEAN, KwWriteCsr(ie, d) PROVE FALSE
    <3>1. last' = Cleared("kw") \/ last' = Raised("kw", ie)
          BY <2>4 DEF KwWriteCsr
    <3>.  QED BY <1>1, <1>2, <3>1
  <2>.  QED BY <2>1, <2>2, <2>3, <2>4 DEF GuestDevice
<1>5. GuestCpu => FALSE
  <2>1. Reset => FALSE
        BY DEF Reset
  <2>.  QED BY <1>3, <2>1 DEF GuestCpu, WritePirq, SetPsw, Rti, WaitInstruction
<1>6. Dl11Poll \/ KwTick \/ StepEndNone \/ UNCHANGED vars => FALSE
      BY <1>1, <1>3 DEF Dl11Poll, KwTick, StepEndNone, vars
<1>11. ResetGoesOn \/ PollGoesOn => FALSE
      BY <1>1, <1>3 DEF ResetGoesOn, ResetStore, ResetEnd, PollGoesOn, PollChar, PollDone, PollRequest,
                        PollDisarm, PollTick
<1>7. PICK src \in Offered : Acknowledge(src) /\ TakeVector(src)
      BY <1>4, <1>5, <1>6, <1>11 DEF Next, Irq, StepEndIrq, WaitIrq
<1>8. src[1] = s
      BY <1>7 DEF Acknowledge
<1>9. src = <<s, Priority(s)>> /\ IrqAccept(LevelOf(src))
      BY <1>8, OfferedPending, OfferedAccepted
<1>10. frames' = Append(frames, [saved |-> psw, src |-> src])
      BY <1>7, <1>9 DEF TakeVector
<1>. QED BY <1>9, <1>10 DEF Taken, TypeOK

\* irq_accept never refuses what irq_poll has acknowledged, on every model.
THEOREM AcknowledgedAlwaysTaken == Spec => AcknowledgedIsTaken
<1>1. TypeOK /\ [Next]_vars =>
          [\A s \in Sources : last[s] # "grant" /\ last'[s] = "grant" => Taken(<<s, Priority(s)>>)]_vars
      BY AckTakenStep
<1>. QED BY <1>1, InitType, TypeStep, PTL DEF Spec, AcknowledgedIsTaken

-----------------------------------------------------------------------------
(* Nesting.                                                                *)

\* The priority the handler of frame f was entered with.
EntryPri(f) == VectorPsw(LevelOf(f.src)).pri

\* What the stack fs remembers when the processor's priority is p: every frame was
\* accepted at the priority it saves, no frame saves a priority below that of a
\* handler under it, and p is not below that of any handler.
NestOK(fs, p) ==
    /\ \A i \in 1..Len(fs) :
          /\ fs[i].saved.pri < EntryPri(fs[i])
          /\ EntryPri(fs[i]) <= p
    /\ \A i, j \in 1..Len(fs) : i < j => EntryPri(fs[i]) <= fs[j].saved.pri

LEMMA FrameTypes ==
    ASSUME NEW f \in Frame
    PROVE  /\ EntryPri(f) \in Int /\ f.saved.pri \in Int
           /\ LevelOf(f.src) \in Int
           /\ Model = "DCJ11" => EntryPri(f) = LevelOf(f.src)
           /\ Model # "DCJ11" => EntryPri(f) = 4
<1>1. f.saved \in Psw /\ f.src \in SourceOrPirq
      BY DEF Frame
<1>2. f.saved.pri \in Int
      BY <1>1 DEF Psw
<1>3. LevelOf(f.src) \in Int
  <2>1. CASE f.src \in {"pirq"} \X PirqLevels
    <3>1. PICK l \in PirqLevels : f.src = <<"pirq", l>>
          BY <2>1
    <3>2. l \in 1..7
          BY InterruptsAssumption
    <3>.  QED BY <3>1, <3>2 DEF LevelOf
  <2>2. CASE f.src \in {<<s, Priority(s)>> : s \in Sources}
        BY <2>2 DEF LevelOf, Priority
  <2>.  QED BY <1>1, <2>1, <2>2 DEF SourceOrPirq
<1>. QED BY <1>2, <1>3 DEF EntryPri, VectorPsw

\* The stack of a nested guest rises.
LEMMA NestOKRises ==
    ASSUME TypeOK, NestOK(frames, psw.pri)
    PROVE  NestingRises
<1>. SUFFICES ASSUME NEW i \in 1..Len(frames), NEW j \in 1..Len(frames), i < j
              PROVE  Model = "DCJ11" /\ LevelOf(frames[i].src) < LevelOf(frames[j].src)
     BY DEF NestingRises
<1>1. frames[i] \in Frame /\ frames[j] \in Frame
      BY DEF TypeOK
<1>2. EntryPri(frames[i]) <= frames[j].saved.pri /\ frames[j].saved.pri < EntryPri(frames[j])
      BY DEF NestOK
<1>3. EntryPri(frames[i]) < EntryPri(frames[j])
      BY <1>1, <1>2, FrameTypes
<1>. QED BY <1>1, <1>3, FrameTypes

\* An accepted interrupt raises the priority above the one it saves.
LEMMA AcceptRaises ==
    ASSUME TypeOK, NEW level \in Int, IrqAccept(level)
    PROVE  psw.pri < VectorPsw(level).pri
BY InterruptsAssumption DEF IrqAccept, VectorPsw, TypeOK, Psw, FlagP

LEMMA NestStep ==
    ASSUME TypeOK, TypeOK', NestOK(frames, psw.pri), [Next]_vars
    PROVE  NestOK(frames', psw'.pri)
<1>. DEFINE n == Len(frames)
<1>0. frames \in Seq(Frame) /\ n \in Nat /\ psw.pri \in Int /\ \A i \in 1..n : frames[i] \in Frame
      BY DEF TypeOK, Psw
<1>1. CASE UNCHANGED <<frames, psw>>
      BY <1>1
<1>2. ASSUME NEW pri \in GuestPris, NEW hold \in BOOLEAN, SetPsw(pri, hold)
      PROVE  NestOK(frames', psw'.pri)
  <2>1. frames' = frames /\ psw'.pri = pri /\ pri \in Int
        BY <1>2, InterruptsAssumption DEF SetPsw
  <2>2. \A i \in 1..n : EntryPri(frames[i]) <= pri
    <3>. SUFFICES ASSUME NEW i \in 1..n PROVE EntryPri(frames[i]) <= pri
         OBVIOUS
    <3>1. frames # <<>> /\ n \in 1..n /\ frames[n] \in Frame /\ frames[i] \in Frame
          BY <1>0, EmptySeq
    <3>2. EntryPri(frames[n]) <= pri
          BY <1>2, <3>1 DEF SetPsw, EntryPri
    <3>3. i # n => EntryPri(frames[i]) <= frames[n].saved.pri
          BY <1>0, <3>1 DEF NestOK
    <3>4. frames[n].saved.pri < EntryPri(frames[n])
          BY <3>1 DEF NestOK
    <3>.  QED BY <2>1, <3>1, <3>2, <3>3, <3>4, FrameTypes
  <2>.  QED BY <2>1, <2>2 DEF NestOK
<1>3. CASE Rti
  <2>1. n \in 1..n /\ psw' = frames[n].saved
        BY <1>0, <1>3, EmptySeq DEF Rti
  <2>2. frames' = SubSeq(frames, 1, n - 1) /\ n - 1 \in Nat /\ \A i \in 1..(n - 1) : frames[i] \in Frame
        BY <1>0, <1>3, <2>1 DEF Rti
  <2>3. Len(frames') = n - 1 /\ \A i \in 1..(n - 1) : frames'[i] = frames[i]
        BY <1>0, <1>3, <2>2, PopFrame DEF Rti
  <2>.  QED BY <1>0, <2>1, <2>3 DEF NestOK
<1>4. ASSUME NEW src \in Offered, TakeVector(src) PROVE NestOK(frames', psw'.pri)
  <2>1. CASE ~IrqAccept(LevelOf(src))
        BY <1>1, <1>4, <2>1 DEF TakeVector
  <2>2. CASE IrqAccept(LevelOf(src))
    <3>. DEFINE f == [saved |-> psw, src |-> src]
    <3>1. frames' = Append(frames, f) /\ psw' = VectorPsw(LevelOf(src))
          BY <1>4, <2>2 DEF TakeVector
    <3>2. Len(frames') = n + 1 /\ frames'[n + 1] = f /\ \A i \in 1..n : frames'[i] = frames[i]
          BY <1>0, <3>1
    <3>3. frames'[n + 1] \in Frame
          BY <1>0, <3>2 DEF TypeOK
    <3>4. EntryPri(f) = psw'.pri /\ psw'.pri \in Int
          BY <3>1, <3>2, <3>3, FrameTypes DEF EntryPri
    <3>5. psw.pri < psw'.pri
          BY <2>2, <3>1, <3>2, <3>3, FrameTypes, AcceptRaises
    <3>6. \A i \in 1..n : EntryPri(frames[i]) \in Int /\ frames[i].saved.pri \in Int
          BY <1>0, FrameTypes
    <3>7. ASSUME NEW i \in 1..(n + 1)
          PROVE  frames'[i].saved.pri < EntryPri(frames'[i]) /\ EntryPri(frames'[i]) <= psw'.pri
      <4>1. CASE i = n + 1
            BY <4>1, <3>2, <3>4, <3>5
      <4>2. CASE i \in 1..n
            BY <4>2, <1>0, <3>2, <3>4, <3>5, <3>6 DEF NestOK
      <4>.  QED BY <1>0, <4>1, <4>2
    <3>8. ASSUME NEW i \in 1..(n + 1), NEW j \in 1..(n + 1), i < j
          PROVE  EntryPri(frames'[i]) <= frames'[j].saved.pri
      <4>1. i \in 1..n
            BY <1>0, <3>8
      <4>2. CASE j = n + 1
            BY <4>1, <4>2, <3>2 DEF NestOK
      <4>3. CASE j \in 1..n
            BY <4>1, <4>3, <3>2, <3>8 DEF NestOK
      <4>.  QED BY <1>0, <4>2, <4>3
    <3>.  QED BY <3>2, <3>7, <3>8 DEF NestOK
  <2>.  QED BY <2>1, <2>2
<1>5. CASE StepEndIrq \/ WaitIrq
      BY <1>4, <1>5 DEF StepEndIrq, WaitIrq
<1>6. GuestDevice => UNCHANGED <<frames, psw>>
      BY DEF GuestDevice, AccessRbuf, WriteRcsr, WriteTcsr, WriteTbuf, LpWriteCsr, LpWriteDbr,
             KwReadCsr, KwWriteCsr
<1>7. GuestCpu => NestOK(frames', psw'.pri)
  <2>1. (\E levels \in SUBSET PirqLevels : WritePirq(levels)) \/ WaitInstruction \/ Reset
        => UNCHANGED <<frames, psw>>
        BY DEF WritePirq, WaitInstruction, Reset
  <2>.  QED BY <1>1, <1>2, <1>3, <2>1 DEF GuestCpu
<1>8. Dl11Poll \/ KwTick \/ StepEndNone \/ UNCHANGED vars => UNCHANGED <<frames, psw>>
      BY DEF Dl11Poll, KwTick, StepEndNone, vars
<1>9. ResetGoesOn \/ PollGoesOn => UNCHANGED <<frames, psw>>
      BY DEF ResetGoesOn, ResetStore, ResetEnd, PollGoesOn, PollChar, PollDone, PollRequest,
             PollDisarm, PollTick
<1>. QED BY <1>1, <1>5, <1>6, <1>7, <1>8, <1>9 DEF Next, Irq

\* The guest's handlers nest by strictly rising level on a J-11 and not at all on a
\* VM1 or VM2, however many devices and program requests there are.
THEOREM HandlersNest == Spec => []NestingRises
<1>1. Init => NestOK(frames, psw.pri)
      BY DEF Init, NestOK
<1>2. TypeOK /\ TypeOK' /\ NestOK(frames, psw.pri) /\ [Next]_vars => NestOK(frames, psw.pri)'
      BY NestStep
<1>. QED BY <1>1, <1>2, NestOKRises, InitType, TypeStep, PTL DEF Spec

=============================================================================
