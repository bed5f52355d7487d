-------------------------------- MODULE Uqssp --------------------------------
(***************************************************************************)
(* The port of the MSCP disk controller (dev_rq11.c) and of the TMSCP tape *)
(* controller (dev_tq11.c): the four-step start of the SA register, the    *)
(* command and response rings in guest memory, the polling loop that turns *)
(* commands into responses, attention messages, credits, the interrupt.    *)
(* The two files share this code almost line by line; Tape selects the     *)
(* places where they differ.                                               *)
(*                                                                         *)
(* The other actor is the guest's driver (external, modelled from what the *)
(* port expects of it): it owns a slot of a ring while the slot's OWN bit  *)
(* is clear.  On a host build the poll runs between two instructions of    *)
(* the guest; on the Pico it runs on the other core, outside the I/O lock, *)
(* and DualCore lets the guest run between any two steps of the poll.      *)
(***************************************************************************)
EXTENDS Integers, Sequences, FiniteSets

CONSTANTS
  Tape,          \* TRUE: dev_tq11.c, FALSE: dev_rq11.c
  DualCore,      \* TRUE: the poll runs on another core than the guest
  QuietReset,    \* TRUE: the guest resets the port only when no poll is running
  PollBudget,    \* commands and attentions one poll serves (8 in the code)
  CmdSlots,      \* slots of the command ring
  RspSlots,      \* slots of the response ring
  Units,         \* the units the driver addresses
  Attached,      \* the units that have an image
  Ops,           \* the kinds of command the driver posts
  SaWords,       \* words the guest writes to SA, each the set of its one bits
  MaxCmds,       \* bound: commands posted in a behaviour
  MaxResets      \* bound: resets in a behaviour

\* Commands that are served; a packet below address 4 or in no memory; any of those that are
\* served, whose answer is to go where there is no memory.
Served == {"scc", "onl", "avl", "rd"}
AllOps == Served \cup {"low", "nxm", "void"}

ASSUME FlagsAssumption == {Tape, DualCore, QuietReset} \subseteq BOOLEAN
ASSUME RingAssumption == {PollBudget, CmdSlots, RspSlots} \subseteq Nat \ {0}
ASSUME UnitsAssumption == Units \subseteq Nat /\ Attached \subseteq Units
ASSUME OpsAssumption == Ops \subseteq AllOps
ASSUME SaAssumption == SaWords \subseteq SUBSET (0..15)
ASSUME BoundAssumption == MaxCmds \in Nat /\ MaxResets \in Nat

VARIABLES
  \* the port
  state,         \* rq_state
  comm,          \* rq_comm, the set of its one bits
  irqEn,         \* rq_irq_en
  irqReq,        \* rq_irq_req
  pollPending,   \* rq_poll_pending
  attn,          \* RQ_CF_ATN of rq_cflgs
  credits,       \* rq_credits
  online,        \* units with u->online set
  una,           \* units with u->una_pending set
  ring,          \* [live, cmd, rsp]: the rings have a length; their next slots
  \* a poll in progress: the local variables of rq_service_poll and its callees
  pc, left, held, reply,
  \* guest memory: the two rings and the transition words before them
  cmdRing, rspRing, flags,
  \* the driver
  up,            \* it has written GO
  host,          \* [cmd, rsp]: its next slots
  hostCredits,   \* commands it may still post
  owesIp,        \* it has posted or returned a slot and not read IP since
  isr,           \* it is in its interrupt routine
  posted,        \* commands posted so far
  waiting,       \* commands posted and not seen answered
  resets

port == <<state, comm, irqEn, irqReq, pollPending, attn, credits, online, una, ring>>
poll == <<pc, left, held, reply>>
memory == <<cmdRing, rspRing, flags>>
driver == <<up, host, hostCredits, owesIp, isr, posted, waiting, resets>>
vars == <<port, poll, memory, driver>>

FirstCredits == 7
MaxGrant == 14
States == {"S1", "WRAP", "S2", "S3", "PPA", "PPB", "S4", "UP", "DEAD"}

Command == [ref : 1..MaxCmds, op : Ops, unit : Units]
NoCommand == [ref |-> 0, op |-> "none", unit |-> 0]
NoMessage == [kind |-> "none", id |-> 0, op |-> "none", unit |-> 0, ok |-> FALSE, cr |-> 0]
Attention(u) == [kind |-> "una", id |-> u, op |-> "none", unit |-> 0, ok |-> FALSE, cr |-> 0]
Empty == [own |-> FALSE, cmd |-> NoCommand]
Cleared == [own |-> FALSE, msg |-> NoMessage]
Returned == [own |-> TRUE, msg |-> NoMessage]
Unheld == [cmd |-> 0, rsp |-> 0, unit |-> 0]

Init ==
  /\ state = "S1" /\ comm = {} /\ irqEn = FALSE /\ irqReq = FALSE
  /\ pollPending = FALSE /\ attn = FALSE /\ credits = FirstCredits
  /\ online = {} /\ una = {} /\ ring = [live |-> FALSE, cmd |-> 0, rsp |-> 0]
  /\ pc = "idle" /\ left = 0 /\ held = Unheld /\ reply = NoMessage
  /\ cmdRing = [s \in 0..CmdSlots - 1 |-> Empty]
  /\ rspRing = [s \in 0..RspSlots - 1 |-> Cleared]
  /\ flags = {}
  /\ up = FALSE /\ host = [cmd |-> 0, rsp |-> 0] /\ hostCredits = 0
  /\ owesIp = FALSE /\ isr = FALSE /\ posted = 0 /\ waiting = {}
  /\ resets = 0

-----------------------------------------------------------------------------
(* Pieces of the port. *)

\* The slot k places after slot i of a ring of the given size.
Place(i, k, size) == (i + k) % size

RaiseIrq(enabled) == irqReq' = (irqReq \/ enabled)

\* rq_ring_advance: nothing moves in a ring of no length.
Advance(which) ==
  LET size == IF which = "cmd" THEN CmdSlots ELSE RspSlots IN
  ring' = [ring EXCEPT ![which] = IF ~ring.live THEN @
                                  ELSE IF @ + 1 >= size THEN 0 ELSE @ + 1]

WriteIntrFlag(f) == flags' = IF comm = {} THEN flags ELSE flags \cup {f}

\* Mutant of RspOwned: the OWN bit of the response slot is not looked at.
RspOwnedUnchecked == ring.live /\ ring.rsp >= 0

CmdOwned == ring.live /\ cmdRing[ring.cmd].own
RspOwned == ring.live /\ rspRing[ring.rsp].own

Fail == state' = "DEAD" /\ RaiseIrq(irqEn)

\* Memory ends at 64 KB in the modelled machine, so a higher address does not answer.
CommUsable(c) == c \subseteq 0..15 /\ ~(c \subseteq {1})

\* rq_step4 with the communications area at c.
Step4(c) ==
  /\ ring' = [live |-> TRUE, cmd |-> 0, rsp |-> 0]
  /\ IF CommUsable(c)
     THEN /\ cmdRing' = [s \in DOMAIN cmdRing |-> Empty]
          /\ rspRing' = [s \in DOMAIN rspRing |-> Cleared]
          /\ flags' = {}
          /\ state' = "S4" /\ RaiseIrq(irqEn)
     ELSE UNCHANGED memory /\ Fail

-----------------------------------------------------------------------------
(* Register accesses.  A word access is two byte accesses; the second one   *)
(* of IP repeats the first without further effect, and SA is acted upon     *)
(* only when its high byte is written.                                      *)

GuestRuns == DualCore \/ pc = "idle"

\* A read of IP: step four of a purge start, or a request to poll.
ReadIp ==
  /\ GuestRuns
  /\ owesIp' = FALSE
  /\ IF state = "PPB" THEN Step4(comm) /\ UNCHANGED pollPending
     ELSE /\ pollPending' = (pollPending \/ state = "UP")
          /\ UNCHANGED <<state, irqReq, ring, memory>>
  /\ UNCHANGED <<comm, irqEn, attn, credits, online, una, poll,
                 up, host, hostCredits, isr, posted, waiting, resets>>

\* A write of SA with the bits v.
WriteSa(v) ==
  /\ GuestRuns
  /\ \/ /\ state \in {"S1", "WRAP"} /\ 14 \in v
        /\ state' = "WRAP"
        /\ UNCHANGED <<comm, irqEn, irqReq, ring, memory, up, host, hostCredits>>
     \/ /\ state \in {"S1", "WRAP"} /\ 14 \notin v /\ 15 \in v
        /\ state' = "S2" /\ irqEn' = (7 \in v) /\ RaiseIrq(irqEn')
        /\ UNCHANGED <<comm, ring, memory, up, host, hostCredits>>
     \/ /\ state = "S2"
        /\ state' = "S3" /\ comm' = v \ {0} /\ RaiseIrq(irqEn)
        /\ UNCHANGED <<irqEn, ring, memory, up, host, hostCredits>>
     \/ /\ state = "S3"
        /\ comm' = comm \cup {b + 16 : b \in v \ {15}}
        /\ IF 15 \in v
           THEN state' = "PPA" /\ RaiseIrq(irqEn) /\ UNCHANGED <<ring, memory>>
           ELSE Step4(comm')
        /\ UNCHANGED <<irqEn, up, host, hostCredits>>
     \/ /\ state = "PPA" /\ v = {}
        /\ state' = "PPB"
        /\ UNCHANGED <<comm, irqEn, irqReq, ring, memory, up, host, hostCredits>>
     \/ /\ state = "S4" /\ 0 \in v          \* the driver has filled the response ring
        /\ state' = "UP" /\ up' = TRUE
        /\ rspRing' = [s \in DOMAIN rspRing |-> Returned]
        /\ host' = [cmd |-> 0, rsp |-> 0] /\ hostCredits' = 1
        /\ UNCHANGED <<comm, irqEn, irqReq, ring, cmdRing, flags>>
  /\ UNCHANGED <<pollPending, attn, credits, online, una, poll,
                 owesIp, isr, posted, waiting, resets>>

\* Mutant of ResetPort: the credits already granted are not taken back.
ResetPortKeepsCredits ==
  /\ state' = "S1" /\ comm' = {} /\ irqEn' = FALSE /\ irqReq' = FALSE
  /\ pollPending' = FALSE /\ attn' = FALSE /\ UNCHANGED credits
  /\ online' = {} /\ una' = {} /\ ring' = [live |-> FALSE, cmd |-> 0, rsp |-> 0]

\* rq11_reset: a write of IP, or a RESET instruction.
ResetPort ==
  /\ state' = "S1" /\ comm' = {} /\ irqEn' = FALSE /\ irqReq' = FALSE
  /\ pollPending' = FALSE /\ attn' = FALSE /\ credits' = FirstCredits
  /\ online' = {} /\ una' = {} /\ ring' = [live |-> FALSE, cmd |-> 0, rsp |-> 0]

WriteIp ==
  /\ GuestRuns /\ (QuietReset => pc = "idle")
  /\ resets < MaxResets /\ resets' = resets + 1
  /\ ResetPort
  /\ up' = FALSE /\ owesIp' = FALSE /\ isr' = FALSE /\ waiting' = {}
  /\ hostCredits' = 0 /\ host' = [cmd |-> 0, rsp |-> 0]
  /\ UNCHANGED <<poll, memory, posted>>

-----------------------------------------------------------------------------
(* The poll: rq11_poll, one step per access to state the guest can change. *)

StartPoll ==
  /\ pc = "idle" /\ state = "UP" /\ pollPending
  /\ pc' = "una" /\ left' = PollBudget
  /\ UNCHANGED <<port, held, reply, memory, driver>>

\* Mutant of PollAttention: a poll that has spent its budget forgets the rest.
PollAttentionForgets ==
  /\ pc = "una"
  /\ IF left = 0 THEN pc' = "idle" /\ pollPending' = FALSE /\ UNCHANGED <<left, held>>
     ELSE /\ left' = left - 1
          /\ UNCHANGED pollPending
          /\ IF (Tape \/ attn) /\ una # {} /\ RspOwned
             THEN /\ pc' = "post"
                  /\ held' = [held EXCEPT !.rsp = ring.rsp,
                              !.unit = CHOOSE u \in una : \A w \in una : u <= w]
             ELSE pc' = "cmd" /\ UNCHANGED held
  /\ UNCHANGED <<state, comm, irqEn, irqReq, attn, credits, online, una, ring,
                 reply, memory, driver>>

\* The head of the loop and the first half of rq_post_attention_una.
PollAttention ==
  /\ pc = "una"
  /\ IF left = 0 THEN pc' = "idle" /\ UNCHANGED <<left, held>>
     ELSE /\ left' = left - 1
          /\ IF (Tape \/ attn) /\ una # {} /\ RspOwned
             THEN /\ pc' = "post"
                  /\ held' = [held EXCEPT !.rsp = ring.rsp,
                              !.unit = CHOOSE u \in una : \A w \in una : u <= w]
             ELSE pc' = "cmd" /\ UNCHANGED held
  /\ UNCHANGED <<port, reply, memory, driver>>

\* The second half: the message, the slot, una_pending, the interrupt.
PollPostAttention ==
  /\ pc = "post"
  /\ rspRing' = [rspRing EXCEPT ![held.rsp] = [own |-> FALSE, msg |-> Attention(held.unit)]]
  /\ WriteIntrFlag("ri") /\ Advance("rsp")
  /\ una' = una \ {held.unit}
  /\ RaiseIrq(irqEn)
  /\ pc' = "una"
  /\ UNCHANGED <<state, comm, irqEn, pollPending, attn, credits, online,
                 left, held, reply, cmdRing, driver>>

PollPeekCommand ==
  /\ pc = "cmd"
  /\ IF CmdOwned THEN pc' = "rsp" /\ held' = [held EXCEPT !.cmd = ring.cmd]
     ELSE pc' = "stop" /\ UNCHANGED held
  /\ UNCHANGED <<port, left, reply, memory, driver>>

PollPeekResponse ==
  /\ pc = "rsp"
  /\ IF RspOwned THEN pc' = "exec" /\ held' = [held EXCEPT !.rsp = ring.rsp]
     ELSE pc' = "stop" /\ UNCHANGED held
  /\ UNCHANGED <<port, left, reply, memory, driver>>

Grant == IF Tape THEN 0 ELSE (IF credits >= MaxGrant THEN MaxGrant ELSE credits) + 1

\* What a command does to the controller and its units; ok is its success.
Perform(c, ok) ==
  /\ attn' = (attn \/ c.op = "scc")
  /\ una' = IF Tape /\ c.op = "scc" /\ state = "UP" THEN una \cup Attached ELSE una
  /\ pollPending' = (pollPending \/ (Tape /\ c.op = "scc" /\ state = "UP" /\ Attached # {}))
  /\ online' = CASE c.op = "onl" /\ ok -> online \cup {c.unit}
                 [] c.op = "avl" /\ ok -> online \ {c.unit}
                 [] OTHER -> online

\* The outcomes of a command: only a transfer on line can go either way.
Outcomes(c) ==
  CASE c.op = "rd" /\ c.unit \in Attached \cap online -> BOOLEAN
    [] c.op = "rd" -> {FALSE}
    [] c.op \in {"onl", "avl"} -> {c.unit \in Attached}
    [] OTHER -> {TRUE}

PayCredits == credits' = IF Tape THEN credits ELSE credits - (Grant - 1)

\* rq_process_one up to the response packet, which is written when the command has been
\* performed and the credits are taken.
PollExecute ==
  /\ pc = "exec"
  /\ LET c == cmdRing[held.cmd].cmd IN
     \/ /\ c.op \in {"low", "nxm"}
        /\ Fail /\ pc' = "stop"
        /\ UNCHANGED <<pollPending, attn, credits, online, una, reply>>
     \/ /\ c.op = "void"
        /\ \E op \in Served :
              LET d == [c EXCEPT !.op = op] IN \E ok \in Outcomes(d) : Perform(d, ok)
        /\ PayCredits /\ Fail /\ pc' = "stop"
        /\ UNCHANGED reply
     \/ /\ c.op \in Served
        /\ \E ok \in Outcomes(c) :
              /\ Perform(c, ok)
              /\ reply' = [kind |-> "end", id |-> c.ref, op |-> c.op, unit |-> c.unit,
                           ok |-> ok, cr |-> Grant]
        /\ PayCredits /\ pc' = "relCmd"
        /\ UNCHANGED <<state, irqReq>>
  /\ UNCHANGED <<comm, irqEn, ring, left, held, memory, driver>>

\* Mutant of PollReleaseCommand: the OWN bit stays set.
PollReleaseCommandKeepsOwn ==
  /\ pc = "relCmd"
  /\ WriteIntrFlag("ci") /\ Advance("cmd")
  /\ pc' = "relRsp"
  /\ UNCHANGED <<state, comm, irqEn, irqReq, pollPending, attn, credits, online, una,
                 left, held, reply, cmdRing, rspRing, driver>>

PollReleaseCommand ==
  /\ pc = "relCmd"
  /\ cmdRing' = [cmdRing EXCEPT ![held.cmd] = Empty]
  /\ WriteIntrFlag("ci") /\ Advance("cmd")
  /\ pc' = "relRsp"
  /\ UNCHANGED <<state, comm, irqEn, irqReq, pollPending, attn, credits, online, una,
                 left, held, reply, rspRing, driver>>

PollReleaseResponse ==
  /\ pc = "relRsp"
  /\ rspRing' = [rspRing EXCEPT ![held.rsp] = [own |-> FALSE, msg |-> reply]]
  /\ WriteIntrFlag("ri") /\ Advance("rsp")
  /\ pc' = "notify"
  /\ UNCHANGED <<state, comm, irqEn, irqReq, pollPending, attn, credits, online, una,
                 left, held, reply, cmdRing, driver>>

\* Mutant of PollNotify: the interrupt is raised only for a ring that was empty.
PollNotifyOnlyFirst ==
  /\ pc = "notify"
  /\ RaiseIrq(irqEn /\ held.rsp = 0)
  /\ pc' = "una" /\ held' = Unheld /\ reply' = NoMessage
  /\ UNCHANGED <<state, comm, irqEn, pollPending, attn, credits, online, una, ring,
                 left, memory, driver>>

PollNotify ==
  /\ pc = "notify"
  /\ RaiseIrq(irqEn)
  /\ pc' = "una" /\ held' = Unheld /\ reply' = NoMessage
  /\ UNCHANGED <<state, comm, irqEn, pollPending, attn, credits, online, una, ring,
                 left, memory, driver>>

\* rq_service_poll found nothing to do, or failed.
PollStop ==
  /\ pc = "stop"
  /\ pollPending' = FALSE
  /\ pc' = "idle" /\ left' = 0 /\ held' = Unheld /\ reply' = NoMessage
  /\ UNCHANGED <<state, comm, irqEn, irqReq, attn, credits, online, una, ring, memory, driver>>

PollStep ==
  \/ PollAttention \/ PollPostAttention \/ PollPeekCommand \/ PollPeekResponse
  \/ PollExecute \/ PollReleaseCommand \/ PollReleaseResponse \/ PollNotify \/ PollStop

-----------------------------------------------------------------------------
(* The driver. *)

\* It posts a command in its next slot when the slot and a credit are free.
PostCommand(op, unit) ==
  /\ GuestRuns /\ up /\ posted < MaxCmds
  /\ ~cmdRing[host.cmd].own
  /\ Tape \/ hostCredits > 0
  /\ posted' = posted + 1
  /\ cmdRing' = [cmdRing EXCEPT ![host.cmd] =
                   [own |-> TRUE, cmd |-> [ref |-> posted', op |-> op, unit |-> unit]]]
  /\ host' = [host EXCEPT !.cmd = Place(@, 1, CmdSlots)]
  /\ hostCredits' = IF Tape THEN hostCredits ELSE hostCredits - 1
  /\ waiting' = waiting \cup {posted'}
  /\ owesIp' = TRUE
  /\ UNCHANGED <<port, poll, rspRing, flags, up, isr, resets>>

\* irq_ack, then the interrupt routine clears the transition words.
TakeInterrupt ==
  /\ GuestRuns /\ up /\ irqReq /\ ~isr
  /\ irqReq' = FALSE /\ isr' = TRUE /\ flags' = {}
  /\ UNCHANGED <<state, comm, irqEn, pollPending, attn, credits, online, una, ring, poll,
                 cmdRing, rspRing, up, host, hostCredits, owesIp, posted, waiting, resets>>

\* It takes the message of its next slot, gives the slot back, and asks for
\* another poll while commands are waiting.
CollectMessage ==
  /\ GuestRuns /\ up /\ (isr \/ ~irqEn) /\ ~rspRing[host.rsp].own
  /\ LET m == rspRing[host.rsp].msg IN
     /\ waiting' = IF m.kind = "end" THEN waiting \ {m.id} ELSE waiting
     /\ hostCredits' = IF Tape THEN hostCredits ELSE hostCredits + m.cr
  /\ rspRing' = [rspRing EXCEPT ![host.rsp] = Returned]
  /\ host' = [host EXCEPT !.rsp = Place(@, 1, RspSlots)]
  /\ owesIp' = (owesIp \/ waiting' # {})
  /\ UNCHANGED <<port, poll, cmdRing, flags, up, isr, posted, resets>>

LeaveInterrupt ==
  /\ GuestRuns /\ isr /\ rspRing[host.rsp].own
  /\ isr' = FALSE
  /\ UNCHANGED <<port, poll, memory, up, host, hostCredits, owesIp, posted, waiting, resets>>

Next ==
  \/ ReadIp
  \/ \E v \in SaWords : WriteSa(v)
  \/ WriteIp
  \/ StartPoll
  \/ PollStep
  \/ \E op \in Ops, unit \in Units : PostCommand(op, unit)
  \/ TakeInterrupt
  \/ CollectMessage
  \/ LeaveInterrupt

Spec == Init /\ [][Next]_vars

\* The main loop comes back to rq11_poll for ever, and gives the processor to the guest
\* between two polls.  A driver that has begun goes on when it runs; strong fairness,
\* because a poll takes the processor from it on a host build.
FairSpec ==
  /\ Spec
  /\ WF_vars(StartPoll) /\ WF_vars(PollStep)
  /\ SF_vars(ReadIp /\ owesIp)
  /\ SF_vars(TakeInterrupt) /\ SF_vars(CollectMessage) /\ SF_vars(LeaveInterrupt)

-----------------------------------------------------------------------------
(* Properties. *)

\* The port changes a slot of a ring only while the slot is the port's: what
\* the descriptors of rq_ring_peek_owned and rq_release_desc are about.
PortWritesOwnSlots ==
  [][pc # "idle" /\ pc' # pc =>
       /\ \A s \in DOMAIN rspRing : rspRing'[s] # rspRing[s] => rspRing[s].own
       /\ \A s \in DOMAIN cmdRing : cmdRing'[s] # cmdRing[s] => cmdRing[s].own]_vars

\* The slots that hold a command of the driver, and those that hold a message for it.
Posted == {s \in DOMAIN cmdRing : up /\ cmdRing[s].own}
Uncollected == {s \in DOMAIN rspRing : up /\ ~rspRing[s].own}
InReply == pc \in {"relCmd", "relRsp"}

\* The credits of a message beyond the one its command had used.
Extra(m) == IF m.kind = "end" THEN m.cr - 1 ELSE 0

\* One element for each such credit that travels in the response ring.
Travelling == {t \in Uncollected \X (1..MaxGrant) : t[2] <= Extra(rspRing[t[1]].msg)}

\* No credit is lost or made while the port works: the driver's, those of the commands under
\* way, those travelling in responses and the port's own are always rq_credits' first value
\* plus one.
CreditsConserved ==
  (~Tape /\ state = "UP") =>
    hostCredits + Cardinality(waiting) + Cardinality(Travelling)
      + (IF InReply THEN Extra(reply) ELSE 0) + credits = FirstCredits + 1

\* A message the driver has not collected is announced: an interrupt is pending, the
\* driver is in its interrupt routine, or the port is about to raise the interrupt.
AnswerAnnounced ==
  (up /\ irqEn /\ ~rspRing[host.rsp].own) => irqReq \/ isr \/ pc = "notify"

\* When no poll is pending and the driver has read IP since it last posted a command
\* or returned a slot, no command is left in the ring that the port could answer.
NoForgottenCommand ==
  (state = "UP" /\ pc = "idle" /\ ~pollPending /\ ~owesIp) => ~(CmdOwned /\ RspOwned)

\* A response in the ring answers a command posted since the last reset and not yet
\* seen answered.
AnswersWaiting ==
  \A s \in Uncollected : rspRing[s].msg.kind = "end" => rspRing[s].msg.id \in waiting

\* Every command is answered in the end, unless the port is reset or fails.
CommandAnswered ==
  \A r \in 1..MaxCmds :
    (r \in waiting) ~> (r \notin waiting \/ state # "UP")

-----------------------------------------------------------------------------
(* The promise of CommandPort, read off the rings. *)

\* How many slots of a ring of the given size, from i on, lie in S before one does not.
RunLength(i, size, S) ==
  CHOOSE n \in 0..size :
    /\ \A k \in 0..n - 1 : Place(i, k, size) \in S
    /\ n < size => Place(i, n, size) \notin S

\* What f says of those slots, in the order of the ring.
Run(i, size, S, f) == [k \in 1..RunLength(i, size, S) |-> f[Place(i, k - 1, size)]]

Inbox ==
  (IF pc = "relRsp" THEN <<reply.id>> ELSE <<>>)
    \o Run(ring.cmd, CmdSlots, Posted, [s \in DOMAIN cmdRing |-> cmdRing[s].cmd.ref])

Outbox ==
  Run(host.rsp, RspSlots, Uncollected,
      [s \in DOMAIN rspRing |-> [kind |-> rspRing[s].msg.kind, id |-> rspRing[s].msg.id]])

Promise == INSTANCE CommandPort WITH
             Commands <- 1..MaxCmds, Events <- Units, inbox <- Inbox, outbox <- Outbox

\* The port implements CommandPort.
ImplementsCommandPort == Promise!Spec
=============================================================================
