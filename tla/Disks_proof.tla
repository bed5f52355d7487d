---------------------------- MODULE Disks_proof ----------------------------
(***************************************************************************)
(* Proofs about the disk controllers, for every set of drives, geometry,   *)
(* memory size, set of counts and addresses, and bound.  What concerns DONE *)
(* and the request is proved of the host's loop, where a poll runs to its   *)
(* end between two instructions (HostLoop); protection of both.            *)
(***************************************************************************)
EXTENDS Disks, NumberLemmas, TLAPS

HostLoop == ~DualCore

\* The fields of a transfer.
XferFields == {"on", "fn", "drive", "wc", "ba", "da", "inh", "limit", "n", "at", "cur",
               "lba", "buf", "dirty", "err", "mem0", "disk0"}

\* The types the proofs need: those of the registers that choose what a command
\* does, of a store under way, and the domain of the images.
Types ==
    /\ kind \in Kinds
    /\ latch \in Latch /\ go \in BOOLEAN
    /\ fn \in Functions(kind) /\ drive \in Drives /\ locked \subseteq Drives
    /\ wc \in Nat /\ da \in Int /\ da >= BadDa
    /\ half = <<>> \/ \E v : half = <<v>> /\ v.drive \in Drives
    /\ DOMAIN xfer = XferFields /\ DOMAIN disk = Drives
    /\ xfer.on \in BOOLEAN /\ xfer.cur \in Int /\ xfer.cur >= BadDa

\* The counts of a transfer: the loop moves a word only below its limit.
Counting ==
    /\ xfer.n \in Nat /\ xfer.limit \in Nat /\ xfer.wc \in Nat
    /\ xfer.n <= xfer.limit /\ xfer.limit <= xfer.wc
    /\ xfer.at \in {"fetch", "move"} => xfer.n < xfer.limit

\* The inductive invariant behind BusyOrDone and CompletionInterrupts: with
\* DONE clear the latch is armed, so that the end of the command can raise the
\* request, and no poll is half way while a store is.
Ready ==
    /\ go = ~latch.done
    /\ latch.irq_req => latch.done
    /\ ~latch.done => latch.irq_armed
    /\ xfer.on => go /\ half = <<>>

----------------------------------------------------------------------------
(* The operators of the latch. *)

LEMMA ResetDone ==
    LET l == EventSetDone(LatchReset)
    IN  l \in Latch /\ l.done /\ ~l.irq_req /\ ~l.ie
BY DEF EventSetDone, LatchReset, Latch

LEMMA EventDone ==
    ASSUME NEW l \in Latch
    PROVE  /\ EventSetDone(l) \in Latch
           /\ EventSetDone(l).done
           /\ EventSetDone(l).ie = l.ie
           /\ ~l.done /\ l.irq_armed /\ l.ie => EventSetDone(l).irq_req
BY DEF EventSetDone, Latch

LEMMA ClearDone ==
    ASSUME NEW l \in Latch
    PROVE  /\ SwClearDone(l) \in Latch
           /\ ~SwClearDone(l).done /\ ~SwClearDone(l).irq_req /\ SwClearDone(l).irq_armed
BY DEF SwClearDone, Latch

LEMMA SetIeLatch ==
    ASSUME NEW l \in Latch, NEW b \in BOOLEAN
    PROVE  /\ SetIe(l, b) \in Latch
           /\ SetIe(l, b).ie = b
           /\ SetIe(l, b).done = l.done
           /\ SetIe(l, b).irq_req = l.irq_req
           /\ SetIe(l, b).irq_armed = l.irq_armed
BY DEF SetIe, Latch

LEMMA AckLatch ==
    ASSUME NEW l \in Latch
    PROVE  /\ LatchAck(l) \in Latch
           /\ ~LatchAck(l).irq_req /\ LatchAck(l).ie = l.ie
           /\ LatchAck(l).done = l.done /\ LatchAck(l).irq_armed = l.irq_armed
BY DEF LatchAck, Latch

----------------------------------------------------------------------------
(* The processor's operations.  A store is one of Store, and a command can only *)
(* name a function its controller decodes.                                   *)

LEMMA StoresType ==
    ASSUME Types, NEW ready \in BOOLEAN, NEW v \in Stores(ready)
    PROVE  /\ v.go \in BOOLEAN /\ v.ie \in BOOLEAN /\ v.fn \in Functions(kind) /\ v.drive \in Drives
           /\ v.rdy = ready
           /\ v.clr => ~v.go
BY DEF Stores, Types

LEMMA StoreLowTypes ==
    ASSUME Types, NEW ready \in BOOLEAN, NEW v \in Stores(ready),
           StoreLow(v), UNCHANGED <<kind, disk, mem, xfer, faults>>
    PROVE  Types'
<1>1. v.ie \in BOOLEAN /\ v.go \in BOOLEAN /\ v.fn \in Functions(kind) /\ v.drive \in Drives
      BY StoresType
<1>2. half' = <<v>> /\ fn' = v.fn
      BY DEF StoreLow
<1>3. latch' \in Latch
  <2>. DEFINE l == SetIe(latch, v.ie)
  <2>1. latch \in Latch
        BY DEF Types
  <2>2. l \in Latch
        BY <1>1, <2>1, SetIeLatch
  <2>3. EventSetDone(l) \in Latch /\ SwClearDone(l) \in Latch
        BY <2>2, EventDone, ClearDone
  <2>4. CASE kind = "rk" /\ RkStoreLow(v)
        BY <2>2, <2>3, <2>4 DEF RkStoreLow
  <2>5. CASE kind = "rl" /\ RlStoreLow(v)
        BY <2>2, <2>3, <2>5 DEF RlStoreLow
  <2>6. ASSUME NEW rdy, NEW shown, MassbusStoreLow(v, rdy, shown)
        PROVE  latch' \in Latch
    <3>. DEFINE m == [l EXCEPT !.irq_req = @ \/ (~latch.ie /\ v.ie /\ rdy)]
    <3>1. m \in Latch
          BY <2>2 DEF Latch
    <3>2. EventSetDone(m) \in Latch /\ SwClearDone(m) \in Latch
          BY <3>1, EventDone, ClearDone
    <3>. QED BY <2>6, <3>1, <3>2 DEF MassbusStoreLow
  <2>. QED BY <2>4, <2>5, <2>6 DEF StoreLow, RhStoreLow, XpStoreLow
<1>4. go' \in BOOLEAN
      BY <1>1 DEF StoreLow, RkStoreLow, RlStoreLow, MassbusStoreLow, RhStoreLow, XpStoreLow, Types, Latch
<1>. QED BY <1>1, <1>2, <1>3, <1>4 DEF StoreLow, Types

\* A store of the control register keeps GO and DONE opposite; one that ends a
\* command (GO again while the Massbus controllers are busy) requests the
\* interrupt.
LEMMA StoreLowReady ==
    ASSUME Types, Ready, NEW ready \in BOOLEAN, NEW v \in Stores(ready),
           ready => latch.done, v.go \/ v.go = go, half' # <<>> => ~xfer.on,
           StoreLow(v), UNCHANGED <<kind, disk, mem, xfer, faults>>
    PROVE  /\ Ready'
           /\ go /\ ~go' /\ latch'.ie => latch'.irq_req
<1>. DEFINE l == SetIe(latch, v.ie)
<1>1. v.ie \in BOOLEAN /\ v.go \in BOOLEAN /\ v.rdy = ready
      BY StoresType
<1>2. latch \in Latch /\ go \in BOOLEAN
      BY DEF Types
<1>3. /\ l \in Latch /\ l.done = latch.done /\ l.irq_req = latch.irq_req
      /\ l.irq_armed = latch.irq_armed
      BY <1>1, <1>2, SetIeLatch
<1>4. /\ SwClearDone(l) \in Latch /\ ~SwClearDone(l).done
      /\ ~SwClearDone(l).irq_req /\ SwClearDone(l).irq_armed
      BY <1>3, ClearDone
<1>5. /\ go' = ~latch'.done
      /\ latch'.irq_req => latch'.done
      /\ ~latch'.done => latch'.irq_armed
      /\ go /\ ~go' /\ latch'.ie => latch'.irq_req
  <2>1. CASE kind = "rk" /\ RkStoreLow(v)
    <3>1. CASE v.go /\ latch.done
          BY <1>1, <1>2, <1>4, <2>1, <3>1 DEF RkStoreLow
    <3>2. CASE ~(v.go /\ latch.done)
      <4>1. latch' = l /\ go' = (v.go /\ (latch.done \/ go))
            BY <2>1, <3>2 DEF RkStoreLow
      <4>2. go' = go
            BY <1>1, <1>2, <3>2, <4>1 DEF Ready
      <4>. QED BY <1>3, <4>1, <4>2 DEF Ready
    <3>. QED BY <3>1, <3>2
  <2>2. CASE kind = "rl" /\ RlStoreLow(v)
    <3>1. CASE ~v.rdy /\ latch.done
          BY <1>1, <1>2, <1>4, <2>2, <3>1 DEF RlStoreLow
    <3>2. CASE ~(~v.rdy /\ latch.done)
      <4>1. latch' = l /\ go' = go
            BY <1>2, <2>2, <3>2 DEF RlStoreLow
      <4>. QED BY <1>3, <4>1 DEF Ready
    <3>. QED BY <3>1, <3>2
  <2>3. ASSUME NEW rdy \in BOOLEAN, NEW shown, rdy => latch.done, MassbusStoreLow(v, rdy, shown)
        PROVE  /\ go' = ~latch'.done
               /\ latch'.irq_req => latch'.done
               /\ ~latch'.done => latch'.irq_armed
               /\ go /\ ~go' /\ latch'.ie => latch'.irq_req
    <3>. DEFINE m == [l EXCEPT !.irq_req = @ \/ (~latch.ie /\ v.ie /\ rdy)]
    <3>1. /\ m \in Latch /\ m.done = l.done /\ m.irq_armed = l.irq_armed /\ m.ie = l.ie
          BY <1>3 DEF Latch
    <3>2. m.irq_req => l.irq_req \/ rdy
          BY <1>3 DEF Latch
    <3>3. /\ SwClearDone(m) \in Latch /\ ~SwClearDone(m).done
          /\ ~SwClearDone(m).irq_req /\ SwClearDone(m).irq_armed
          BY <3>1, ClearDone
    <3>4. /\ EventSetDone(m) \in Latch /\ EventSetDone(m).done /\ EventSetDone(m).ie = m.ie
          /\ ~m.done /\ m.irq_armed /\ m.ie => EventSetDone(m).irq_req
          BY <3>1, EventDone
    <3>5. CASE v.go /\ latch.done
      <4>1. latch' = SwClearDone(m) /\ go' = TRUE
            BY <1>1, <1>2, <2>3, <3>5 DEF MassbusStoreLow, Ready
      <4>. QED BY <3>3, <4>1
    <3>6. CASE v.go /\ ~latch.done
      <4>1. latch' = EventSetDone(m) /\ go' = FALSE
            BY <1>1, <1>2, <2>3, <3>6 DEF MassbusStoreLow, Ready
      <4>2. ~m.done /\ m.irq_armed
            BY <1>3, <3>1, <3>6 DEF Ready
      <4>. QED BY <3>4, <4>1, <4>2
    <3>7. CASE ~v.go
      <4>1. latch' = m /\ go' = go
            BY <1>1, <1>2, <2>3, <3>7 DEF MassbusStoreLow
      <4>2. m.irq_req => m.done
            BY <1>3, <2>3, <3>1, <3>2 DEF Ready
      <4>. QED BY <1>3, <3>1, <4>1, <4>2 DEF Ready
    <3>. QED BY <1>1, <3>5, <3>6, <3>7
  <2>. QED BY <1>1, <1>2, <2>1, <2>2, <2>3 DEF StoreLow, RhStoreLow, XpStoreLow, Types, Latch
<1>6. half' = <<v>> /\ xfer' = xfer
      BY DEF StoreLow
<1>7. ~xfer.on
      BY <1>6
<1>. QED BY <1>5, <1>6, <1>7 DEF Ready

LEMMA ZeroPlace == 0 \in Nat /\ 0 \in Int /\ 0 >= BadDa
BY DEF BadDa

\* The high byte of a store.
LEMMA StoreHighStep ==
    ASSUME Types, NEW v, half = <<v>>, StoreHigh(v), UNCHANGED <<kind, disk, mem, xfer, faults>>
    PROVE  /\ Types'
           /\ locked' = locked
           /\ Ready => Ready' /\ (latch'.ie => go' = go)
<1>1. v.drive \in Drives /\ half # <<>> /\ half' = <<>>
      BY DEF Types, StoreHigh
<1>2. \/ latch' = latch /\ go' = go /\ wc' = wc /\ da' = da
      \/ RhControllerClear
      BY DEF StoreHigh, regs
<1>3. drive' \in Drives /\ fn' = fn /\ locked' = locked
      BY <1>1 DEF StoreHigh, regs, Types, RhControllerClear
<1>4. CASE latch' = latch /\ go' = go /\ wc' = wc /\ da' = da
      BY <1>1, <1>3, <1>4 DEF Types, Ready
<1>5. CASE RhControllerClear
  <2>1. /\ latch' \in Latch /\ latch'.done /\ ~latch'.ie /\ go' = FALSE /\ wc' = 0 /\ da' = 0
        BY <1>5, ResetDone DEF RhControllerClear
  <2>2. Types'
        BY <1>1, <1>3, <2>1, ZeroPlace DEF Types
  <2>. QED BY <1>1, <1>3, <2>1, <2>2 DEF Ready
<1>. QED BY <1>2, <1>4, <1>5

\* A reset of the controller.
Cleared ==
    /\ latch' = EventSetDone(LatchReset) /\ go' = FALSE
    /\ wc' = 0 /\ da' \in {0, da} /\ fn' \in {"position", fn} /\ drive' \in {0, drive}
    /\ locked' \in {{}, locked}

\* Every other operation of the processor: a register is written, refused, or
\* the controller cleared.
Plain ==
    /\ UNCHANGED half
    /\ \/ Cleared
       \/ /\ UNCHANGED <<latch, go, fn, locked>>
          /\ drive' \in Drives /\ wc' \in Nat /\ da' \in Int /\ da' >= BadDa
       \/ Acknowledge

LEMMA PlainStep ==
    ASSUME Types, Plain, UNCHANGED <<kind, disk, mem, xfer, faults>>
    PROVE  /\ Types'
           /\ locked' \in {{}, locked}
           /\ Ready /\ ~xfer.on => Ready' /\ (latch'.ie => go' = go)
<1>0. 0 \in Drives /\ "position" \in Functions(kind)
      BY DiskAssumption DEF Functions
<1>1. CASE Cleared
  <2>1. latch' \in Latch /\ latch'.done /\ ~latch'.ie
        BY <1>1, ResetDone DEF Cleared
  <2>2. /\ go' \in BOOLEAN /\ wc' \in Nat /\ da' \in Int /\ da' >= BadDa
        /\ fn' \in Functions(kind) /\ drive' \in Drives /\ locked' \subseteq Drives
        BY <1>0, <1>1, ZeroPlace DEF Types, Cleared
  <2>3. Types'
        BY <2>1, <2>2 DEF Types, Plain
  <2>. QED BY <1>1, <2>1, <2>3 DEF Cleared, Ready
<1>2. CASE /\ UNCHANGED <<latch, go, fn, locked>>
           /\ drive' \in Drives /\ wc' \in Nat /\ da' \in Int /\ da' >= BadDa
      BY <1>2 DEF Plain, Types, Ready
<1>3. CASE Acknowledge
  <2>1. latch' = LatchAck(latch) /\ UNCHANGED <<go, fn, drive, wc, da, locked>>
        BY <1>3 DEF Acknowledge, regs
  <2>2. latch \in Latch
        BY DEF Types
  <2>3. /\ latch' \in Latch /\ ~latch'.irq_req /\ latch'.ie = latch.ie
        /\ latch'.done = latch.done /\ latch'.irq_armed = latch.irq_armed
        BY <2>1, <2>2, AckLatch
  <2>. QED BY <2>1, <2>3 DEF Plain, Types, Ready
<1>. QED BY <1>1, <1>2, <1>3 DEF Plain

LEMMA WritesArePlain ==
    ASSUME Types, UNCHANGED half, UNCHANGED kind,
           \/ \E n \in Counts : WriteCount(n)
           \/ \E a \in {0, MemWords - 1} : WriteBusAddress(a)
           \/ \E d \in Places \cup {BadDa}, u \in Drives : WriteDiskAddress(d, u)
           \/ \E u \in Drives, i \in BOOLEAN : SelectDrive(u, i)
           \/ ClearByCs2
           \/ BusReset
           \/ Acknowledge
    PROVE  Plain
<1>1. ASSUME RefuseWhileBusy PROVE Plain
      BY <1>1 DEF RefuseWhileBusy, regs, Plain, Types
<1>2. ASSUME NEW n \in Counts, WriteCount(n) PROVE Plain
  <2>1. n \in Nat
        BY DiskAssumption
  <2>. QED BY <1>1, <1>2, <2>1 DEF WriteCount, Plain, Types
<1>3. ASSUME NEW a, WriteBusAddress(a) PROVE Plain
      BY <1>1, <1>3 DEF WriteBusAddress, Plain, Types
<1>4. ASSUME NEW d \in Places \cup {BadDa}, NEW u \in Drives, WriteDiskAddress(d, u) PROVE Plain
  <2>1. d \in Int /\ d >= BadDa
        BY DiskAssumption DEF BadDa
  <2>. QED BY <1>1, <1>4, <2>1 DEF WriteDiskAddress, regs, Plain, Types
<1>5. ASSUME NEW u \in Drives, NEW i \in BOOLEAN, SelectDrive(u, i) PROVE Plain
      BY <1>1, <1>5 DEF SelectDrive, Plain, Types
<1>6. ASSUME BusReset PROVE Plain
      BY <1>6 DEF BusReset, Cleared, Plain
<1>7. ASSUME ClearByCs2 PROVE Plain
      BY <1>1, <1>6, <1>7 DEF ClearByCs2, XpControllerClear, Cleared, Plain
<1>8. ASSUME Acknowledge PROVE Plain
      BY <1>8 DEF Plain
<1>. QED BY <1>2, <1>3, <1>4, <1>5, <1>6, <1>7, <1>8

\* Every step of the processor keeps the types; on the host it keeps GO and DONE
\* opposite too, and takes GO away with a request or with interrupts disabled.
LEMMA ProcessorStep ==
    ASSUME Types, Processor
    PROVE  /\ Types'
           /\ locked' \in {{}, locked}
           /\ UNCHANGED <<kind, disk, xfer>>
           /\ HostLoop /\ Ready => Ready' /\ (go /\ ~go' /\ latch'.ie => latch'.irq_req)
<1>. USE DEF HostLoop
<1>0. UNCHANGED <<kind, disk, mem, xfer, faults>>
      BY DEF Processor
<1>1. ASSUME NEW ready \in BOOLEAN, NEW v \in Stores(ready), ready => latch.done,
             v.go \/ v.go = go, ProcessorFree, StoreLow(v)
      PROVE  /\ Types'
             /\ locked' \in {{}, locked}
             /\ UNCHANGED <<kind, disk, xfer>>
             /\ HostLoop /\ Ready => Ready' /\ (go /\ ~go' /\ latch'.ie => latch'.irq_req)
  <2>1. Types'
        BY <1>0, <1>1, StoreLowTypes
  <2>2. locked' = locked
        BY <1>1 DEF StoreLow
  <2>3. ASSUME HostLoop, Ready
        PROVE  Ready' /\ (go /\ ~go' /\ latch'.ie => latch'.irq_req)
    <3>1. ~xfer.on
          BY <1>1, <2>3 DEF ProcessorFree
    <3>. QED BY <1>0, <1>1, <2>3, <3>1, StoreLowReady
  <2>. QED BY <1>0, <2>1, <2>2, <2>3
<1>2. CASE ProcessorFree /\ StartCommand
  <2>1. PICK v \in Stores(FALSE) : v.go /\ StoreLow(v)
        BY <1>2 DEF StartCommand
  <2>. QED BY <1>1, <1>2, <2>1
<1>3. CASE ProcessorFree /\ ChangeIe
  <2>1. PICK v \in Stores(latch.done) : v.go = go /\ StoreLow(v)
        BY <1>3 DEF ChangeIe
  <2>2. latch.done \in BOOLEAN
        BY DEF Types, Latch
  <2>. QED BY <1>1, <1>3, <2>1, <2>2
<1>4. ASSUME NEW v \in {half[i] : i \in DOMAIN half}, StoreHigh(v)
      PROVE  /\ Types'
             /\ locked' \in {{}, locked}
             /\ UNCHANGED <<kind, disk, xfer>>
             /\ HostLoop /\ Ready => Ready' /\ (go /\ ~go' /\ latch'.ie => latch'.irq_req)
  <2>1. half = <<v>>
        BY <1>4 DEF Types
  <2>2. go \in BOOLEAN
        BY DEF Types
  <2>. QED BY <1>0, <1>4, <2>1, <2>2, StoreHighStep
<1>5. ASSUME Plain, ProcessorFree
      PROVE  /\ Types'
             /\ locked' \in {{}, locked}
             /\ UNCHANGED <<kind, disk, xfer>>
             /\ HostLoop /\ Ready => Ready' /\ (go /\ ~go' /\ latch'.ie => latch'.irq_req)
  <2>1. go \in BOOLEAN
        BY DEF Types
  <2>2. HostLoop => ~xfer.on
        BY <1>5 DEF ProcessorFree
  <2>. QED BY <1>0, <1>5, <2>1, <2>2, PlainStep
<1>6. \/ ProcessorFree /\ Plain
      \/ ProcessorFree /\ (StartCommand \/ ChangeIe)
      \/ \E v \in {half[i] : i \in DOMAIN half} : StoreHigh(v)
      BY <1>0, WritesArePlain DEF Processor
<1>. QED BY <1>2, <1>3, <1>4, <1>5, <1>6

----------------------------------------------------------------------------
(* The poll. *)

\* What protects the images: only the RK11 locks a drive; a buffer is dirty only
\* in a write; and a write that moves words runs on a drive that allows it.
Allowed ==
    /\ kind # "rk" => locked = {}
    /\ xfer.dirty => xfer.fn = "write" /\ xfer.limit > 0
    /\ xfer.on /\ xfer.fn = "write" /\ xfer.limit > 0 => xfer.drive \notin ReadOnly \cup locked

LEMMA ProductNat == ASSUME NEW a \in Nat, NEW b \in Nat PROVE a * b \in Nat
OBVIOUS

LEMMA TouchedNat == ASSUME NEW n \in Nat PROVE SectorsTouched(n) \in Nat
<1>. DEFINE W == WordsPerSector
<1>1. W \in Nat \ {0} /\ n + W - 1 \in Nat
      BY DiskAssumption
<1>2. (n + W - 1) \div W \in Nat
      BY <1>1
<1>. QED BY <1>2 DEF SectorsTouched

\* Finish, from a state where DONE is clear, requests the interrupt.
LEMMA FinishStep ==
    ASSUME latch \in Latch, Finish
    PROVE  /\ latch' \in Latch /\ go' = FALSE /\ latch'.done
           /\ ~latch.done /\ latch.irq_armed /\ latch'.ie => latch'.irq_req
BY EventDone DEF Finish

\* What one poll step does to the rest of the state.
PollStep ==
    /\ Types' /\ Counting' /\ (Allowed => Allowed')
    /\ UNCHANGED kind
    /\ \/ UNCHANGED <<latch, go>> /\ (xfer'.on => xfer.on \/ go)
       \/ Finish /\ ~xfer'.on

LEMMA RunSimpleStep ==
    ASSUME Types, Counting, ~xfer.on, RunSimple, UNCHANGED <<kind, half>>
    PROVE  PollStep /\ UNCHANGED disk
<1>1. /\ fn' = fn /\ UNCHANGED <<disk, xfer>> /\ Finish
      BY DEF RunSimple
<1>2. latch' \in Latch /\ go' \in BOOLEAN
      BY <1>1, FinishStep DEF Types
<1>3. /\ drive' \in Drives /\ wc' \in Nat /\ da' \in Int /\ da' >= BadDa
      BY DiskAssumption, ZeroPlace DEF RunSimple, Types
<1>4. /\ locked' \subseteq Drives
      /\ kind # "rk" => locked' = locked
      BY DiskAssumption DEF RunSimple, Types, Functions
<1>5. Types'
      BY <1>1, <1>2, <1>3, <1>4 DEF Types
<1>6. Allowed => Allowed'
      BY <1>1, <1>4 DEF Allowed
<1>. QED BY <1>1, <1>5, <1>6 DEF PollStep, Counting

LEMMA RefuseStep ==
    ASSUME Types, Counting, ~xfer.on, RefuseTransfer, UNCHANGED <<kind, half>>
    PROVE  PollStep /\ UNCHANGED disk
<1>1. UNCHANGED <<regs, locked, disk, xfer>> /\ Finish
      BY DEF RefuseTransfer
<1>2. latch' \in Latch /\ go' \in BOOLEAN
      BY <1>1, FinishStep DEF Types
<1>. QED BY <1>1, <1>2 DEF PollStep, Types, Counting, Allowed, regs

\* A transfer that passes the checks of its controller has a place on the drive
\* where the loop counts from there, and a drive that may be written if it will
\* write anything.
LEMMA LimitBound ==
    ASSUME Types, Refusal = {}, fn \in Transfers
    PROVE  Limit \in Nat /\ Limit <= wc
<1>. DEFINE room == (Sectors - da) * WordsPerSector
<1>1. CASE kind \in {"rl", "xp"} /\ wc > room
  <2>1. ~NoPlace
        BY <1>1 DEF Refusal, RlRefusal, XpRefusal
  <2>2. Sectors - da \in Nat /\ WordsPerSector \in Nat
        BY <2>1, DiskAssumption DEF NoPlace, Types
  <2>3. room \in Nat
        BY <2>2, ProductNat
  <2>. QED BY <1>1, <2>3 DEF Limit, Types
<1>2. CASE ~(kind \in {"rl", "xp"} /\ wc > room)
      BY <1>2 DEF Limit, Types
<1>. QED BY <1>1, <1>2

LEMMA WriteAllowed ==
    ASSUME Types, Allowed, Refusal = {}, fn = "write", Limit > 0
    PROVE  drive \notin ReadOnly \cup locked
<1>0. kind \in {"rk", "rl", "rh", "xp"} /\ fn \in Transfers
      BY DiskAssumption DEF Types, Transfers
<1>1. CASE kind = "rk"
      BY <1>1 DEF Refusal, RkRefusal, Protected
<1>2. CASE kind = "rl"
      BY <1>2 DEF Refusal, RlRefusal, Protected
<1>3. CASE kind = "rh"
      BY <1>0, <1>3 DEF Refusal, RhRefusal, Allowed
<1>4. CASE kind = "xp"
  <2>1. wc > 0
        BY <1>0, LimitBound DEF Types
  <2>. QED BY <1>4, <2>1 DEF Refusal, XpRefusal, Protected
<1>. QED BY <1>0, <1>1, <1>2, <1>3, <1>4

LEMMA BeginStep ==
    ASSUME Types, Counting, go, BeginTransfer, UNCHANGED <<kind, half>>
    PROVE  PollStep /\ UNCHANGED disk
<1>1. UNCHANGED <<latch, go, regs, locked, disk>>
      BY DEF BeginTransfer
<1>2. Limit \in Nat /\ Limit <= wc
      BY LimitBound DEF BeginTransfer
<1>3. /\ DOMAIN xfer' = XferFields
      /\ xfer'.on = TRUE /\ xfer'.fn = fn /\ xfer'.drive = drive /\ xfer'.wc = wc
      /\ xfer'.cur = da /\ xfer'.limit = Limit /\ xfer'.n = 0 /\ xfer'.dirty = FALSE
      /\ xfer'.at = IF Limit = 0 THEN "close" ELSE "fetch"
      BY DEF BeginTransfer, IdleXfer, XferFields
<1>4. Types'
      BY <1>1, <1>3 DEF Types, regs
<1>5. Counting'
      BY <1>2, <1>3 DEF Counting, Types
<1>6. ASSUME Allowed PROVE Allowed'
      BY <1>1, <1>3, <1>6, WriteAllowed DEF Allowed, BeginTransfer
<1>. QED BY <1>1, <1>4, <1>5, <1>6 DEF PollStep

\* What a turn of the loop keeps, and what it may do.
Turn ==
    /\ DOMAIN xfer' = XferFields /\ DOMAIN disk' = Drives
    /\ xfer'.on = xfer.on /\ xfer'.fn = xfer.fn /\ xfer'.drive = xfer.drive
    /\ xfer'.limit = xfer.limit /\ xfer'.wc = xfer.wc
    /\ xfer'.cur \in Int /\ xfer'.cur >= BadDa
    /\ Counting'
    /\ xfer'.dirty => xfer.dirty \/ (xfer.fn = "write" /\ xfer.limit > 0)

\* The images a step may change: the one of the transfer's drive, in a write.
Written ==
    /\ DOMAIN disk' = DOMAIN disk
    /\ \/ disk' = disk
       \/ /\ xfer.fn = "write" /\ xfer.limit > 0
          /\ \A u \in DOMAIN disk \ {xfer.drive} : disk'[u] = disk[u]

LEMMA FlushWrites ==
    ASSUME NEW b, NEW lba, disk' = [disk EXCEPT ![xfer.drive][lba] = b],
           xfer.fn = "write", xfer.limit > 0
    PROVE  Written
BY DEF Written

\* A lost flush touches one sector more, of the same drive.
LEMMA LossWrites ==
    ASSUME NEW d, NEW k, DOMAIN d = DOMAIN disk,
           \A u \in DOMAIN disk \ {xfer.drive} : d[u] = disk[u],
           disk' = Unflushed(d, k), xfer.fn = "write", xfer.limit > 0
    PROVE  Written
BY DEF Written, Unflushed

LEMMA BreakTurn ==
    ASSUME Types, Counting, NEW e, Break(e), disk' = disk
    PROVE  Turn
<1>1. xfer' = [xfer EXCEPT !.at = "close", !.err = TRUE]
      BY DEF Break
<1>. QED BY <1>1 DEF Turn, Types, Counting, XferFields

LEMMA NextSectorTurn ==
    ASSUME Types, Counting, xfer' = NextSector, DOMAIN disk' = Drives
    PROVE  Turn
<1>1. xfer.cur + 1 \in Int /\ xfer.cur + 1 >= BadDa
      BY DEF Types, BadDa
<1>2. /\ DOMAIN xfer' = XferFields
      /\ xfer'.on = xfer.on /\ xfer'.fn = xfer.fn /\ xfer'.drive = xfer.drive
      /\ xfer'.limit = xfer.limit /\ xfer'.wc = xfer.wc /\ xfer'.n = xfer.n
      /\ xfer'.cur = xfer.cur + 1 /\ xfer'.dirty = FALSE
      /\ xfer'.at = IF xfer.n = xfer.limit THEN "close" ELSE "fetch"
      BY DEF NextSector, Types, XferFields
<1>3. Counting'
      BY <1>2 DEF Counting
<1>. QED BY <1>1, <1>2, <1>3 DEF Turn

LEMMA FetchTurn ==
    ASSUME Types, Counting, Allowed, NEW ok \in BOOLEAN, FetchSector(ok)
    PROVE  Turn /\ Written
<1>0. xfer.at = "fetch" /\ xfer.n < xfer.limit
      BY DEF FetchSector, Counting
<1>1. ASSUME NEW e, Break(e), UNCHANGED disk
      PROVE  Turn /\ Written
      BY <1>1, BreakTurn DEF Written
<1>2. CASE /\ xfer.dirty
           /\ disk' = Flushed(xfer.buf)
           /\ xfer' = [xfer EXCEPT !.dirty = FALSE]
  <2>1. Written
        BY <1>2, FlushWrites DEF Flushed, Allowed
  <2>2. Turn
        BY <1>0, <1>2, <2>1 DEF Turn, Written, Types, Counting, XferFields
  <2>. QED BY <2>1, <2>2
<1>3. CASE /\ xfer' = IF Buffered
                      THEN [xfer EXCEPT !.at = "move", !.lba = SectorOf(xfer.n),
                                        !.buf = disk[xfer.drive][SectorOf(xfer.n)]]
                      ELSE [xfer EXCEPT !.at = "move"]
           /\ disk' = disk
  <2>1. Turn
        BY <1>0, <1>3 DEF Turn, Types, Counting, XferFields
  <2>. QED BY <1>3, <2>1 DEF Written
<1>. QED BY <1>1, <1>2, <1>3 DEF FetchSector

\* The transfer with one more word, in a write to the buffer perhaps.
Moved ==
    \/ xfer' = OneMore
    \/ \E k, w : xfer.fn = "write" /\ xfer' = [OneMore EXCEPT !.buf[k] = w, !.dirty = TRUE]

LEMMA OneMoreTurn ==
    ASSUME Types, Counting, xfer.at = "move", DOMAIN disk' = Drives, Moved
    PROVE  Turn
<1>1. /\ DOMAIN xfer' = XferFields
      /\ xfer'.on = xfer.on /\ xfer'.fn = xfer.fn /\ xfer'.drive = xfer.drive
      /\ xfer'.limit = xfer.limit /\ xfer'.wc = xfer.wc /\ xfer'.n = xfer.n + 1
      /\ xfer'.cur = xfer.cur /\ xfer'.at = After(xfer.n + 1)
      /\ xfer'.dirty => xfer.dirty \/ xfer.fn = "write"
      BY DEF Moved, OneMore, Types, XferFields
<1>2. xfer.n < xfer.limit
      BY DEF Counting
<1>3. After(xfer.n + 1) \in {"fetch", "move"} => xfer.n + 1 # xfer.limit
      BY DEF After
<1>4. Counting'
      BY <1>1, <1>2, <1>3 DEF Counting
<1>5. xfer.limit > 0
      BY <1>2 DEF Counting
<1>. QED BY <1>1, <1>4, <1>5 DEF Turn, Types

LEMMA MoveTurn ==
    ASSUME Types, Counting, NEW ok \in BOOLEAN, MoveWord(ok)
    PROVE  Turn /\ Written
<1>0. xfer.at = "move" /\ xfer.limit > 0
      BY DEF MoveWord, Counting
<1>1. ASSUME NEW e, Break(e), UNCHANGED disk
      PROVE  Turn /\ Written
      BY <1>1, BreakTurn DEF Written
<1>2. CASE xfer' = OneMore /\ UNCHANGED disk
      BY <1>0, <1>2, OneMoreTurn DEF Types, Written, Moved
<1>3. ASSUME NEW k, NEW w, xfer.fn = "write", UNCHANGED disk,
             xfer' = [OneMore EXCEPT !.buf[k] = w, !.dirty = TRUE]
      PROVE  Turn /\ Written
      BY <1>0, <1>3, OneMoreTurn DEF Types, Written, Moved
<1>4. ASSUME NEW lba, NEW k, NEW w, xfer.fn = "write", xfer' = OneMore,
             disk' = [disk EXCEPT ![xfer.drive][lba][k] = w]
      PROVE  Turn /\ Written
  <2>1. Written
        BY <1>0, <1>4 DEF Written
  <2>. QED BY <1>0, <1>4, <2>1, OneMoreTurn DEF Types, Written, Moved
<1>5. CASE xfer.fn = "write" /\ Buffered
  <2>1. \/ \E e : Break(e) /\ UNCHANGED disk
        \/ \E k, w : xfer' = [OneMore EXCEPT !.buf[k] = w, !.dirty = TRUE] /\ UNCHANGED disk
        BY <1>5 DEF MoveWord
  <2>. QED BY <1>1, <1>3, <1>5, <2>1
<1>6. CASE xfer.fn = "write" /\ ~Buffered
  <2>1. \/ \E e : Break(e) /\ UNCHANGED disk
        \/ /\ xfer' = OneMore
           /\ disk' = [disk EXCEPT ![xfer.drive][SectorOf(xfer.n)][xfer.n % WordsPerSector]
                                 = mem[Address(xfer.n)]]
        BY <1>6 DEF MoveWord
  <2>. QED BY <1>1, <1>4, <1>6, <2>1
<1>7. CASE xfer.fn # "write"
  <2>1. \/ \E e : Break(e) /\ UNCHANGED disk
        \/ xfer' = OneMore /\ UNCHANGED disk
        BY <1>7 DEF MoveWord
  <2>. QED BY <1>1, <1>2, <2>1
<1>. QED BY <1>5, <1>6, <1>7

LEMMA EndTurn ==
    ASSUME Types, Counting, Allowed, NEW ok \in BOOLEAN, EndSector(ok)
    PROVE  Turn /\ Written
<1>1. ASSUME NEW e, Break(e), UNCHANGED disk
      PROVE  Turn /\ Written
      BY <1>1, BreakTurn DEF Written
<1>2. CASE xfer' = [xfer EXCEPT !.at = "close"] /\ UNCHANGED disk
      BY <1>2 DEF Turn, Written, Types, Counting, XferFields
<1>3. CASE xfer' = NextSector /\ UNCHANGED disk
      BY <1>3, NextSectorTurn DEF Written, Types
<1>4. CASE xfer' = NextSector /\ xfer.dirty /\ disk' = Flushed(xfer.buf)
  <2>1. Written
        BY <1>4, FlushWrites DEF Flushed, Allowed
  <2>. QED BY <1>4, <2>1, NextSectorTurn DEF Written, Types
<1>. QED BY <1>1, <1>2, <1>3, <1>4 DEF EndSector

\* The loop's end: the registers take the place reached and the command finishes.
LEMMA CloseStep ==
    ASSUME Types, Counting, Allowed, NEW ok \in BOOLEAN, CloseTransfer(ok), UNCHANGED locked,
           UNCHANGED <<kind, half>>
    PROVE  PollStep /\ Written
<1>1. Finish /\ xfer' = IdleXfer /\ UNCHANGED <<fn, drive>>
      BY DEF CloseTransfer
<1>2. latch' \in Latch /\ go' \in BOOLEAN
      BY <1>1, FinishStep DEF Types
<1>3. wc' \in Nat
      BY DEF CloseTransfer, Counting
<1>4. da' \in Int /\ da' >= BadDa
  <2>1. SectorsTouched(xfer.n) \in Nat
        BY TouchedNat DEF Counting
  <2>2. Sectors - 1 \in Int /\ Sectors - 1 >= BadDa
        BY DiskAssumption DEF BadDa
  <2>3. da + SectorsTouched(xfer.n) \in Int /\ da + SectorsTouched(xfer.n) >= BadDa
        BY <2>1 DEF Types, BadDa
  <2>4. \/ da' = xfer.cur
        \/ da' = da + SectorsTouched(xfer.n)
        \/ da' = Sectors - 1
    <3>1. kind \in {"rk", "rl", "rh", "xp"}
          BY DiskAssumption DEF Types
    <3>. QED BY <3>1 DEF CloseTransfer
  <2>. QED BY <2>2, <2>3, <2>4 DEF Types
<1>5. Written
  <2>1. CASE disk' = Flushed(LastBuffer) /\ (xfer.dirty \/ ZeroFill)
    <3>1. xfer.fn = "write"
          BY <2>1 DEF Allowed, ZeroFill
    <3>2. ASSUME ZeroFill PROVE xfer.limit > 0
      <4>1. xfer.n # 0
            BY <3>2, DiskAssumption DEF ZeroFill
      <4>. QED BY <4>1 DEF Counting
    <3>3. xfer.limit > 0
          BY <2>1, <3>2 DEF Allowed
    <3>. QED BY <2>1, <3>1, <3>3, FlushWrites DEF Flushed
  <2>2. CASE disk' = disk
        BY <2>2 DEF Written
  <2>3. ASSUME NEW k, NEW d, d = disk \/ d = Flushed(LastBuffer),
               xfer.fn = "write", xfer.n > 0, disk' = Unflushed(d, k)
        PROVE  Written
    <3>1. xfer.limit > 0
          BY <2>3 DEF Counting
    <3>2. DOMAIN d = DOMAIN disk /\ \A u \in DOMAIN disk \ {xfer.drive} : d[u] = disk[u]
          BY <2>3 DEF Flushed
    <3>. QED BY <2>3, <3>1, <3>2, LossWrites
  <2>. QED BY <2>1, <2>2, <2>3 DEF CloseTransfer
<1>6. /\ DOMAIN IdleXfer = XferFields
      /\ IdleXfer.on = FALSE /\ IdleXfer.cur = 0 /\ IdleXfer.n = 0 /\ IdleXfer.limit = 0
      /\ IdleXfer.wc = 0 /\ IdleXfer.at = "close" /\ IdleXfer.dirty = FALSE
      BY DEF IdleXfer, XferFields
<1>7. Types'
      BY <1>1, <1>2, <1>3, <1>4, <1>5, <1>6, ZeroPlace DEF Types, Written
<1>8. Counting' /\ Allowed'
      BY <1>1, <1>6 DEF Counting, Allowed
<1>. QED BY <1>1, <1>5, <1>6, <1>7, <1>8 DEF PollStep

LEMMA LoopStep ==
    ASSUME Types, Counting, Allowed, Turn, Written, xfer.on,
           UNCHANGED <<latch, go, regs, locked>>, UNCHANGED <<kind, half>>
    PROVE  PollStep
<1>1. Types'
      BY DEF Types, Turn, regs
<1>2. Allowed'
      BY DEF Turn, Allowed
<1>. QED BY <1>1, <1>2 DEF PollStep, Turn

LEMMA PollSteps ==
    ASSUME Types, Counting, Allowed, Poll
    PROVE  PollStep /\ ((Written /\ xfer.on) \/ UNCHANGED disk)
<1>0. UNCHANGED <<kind, half>>
      BY DEF Poll
<1>1. CASE StartPoll
      BY <1>0, <1>1, RunSimpleStep, RefuseStep, BeginStep DEF StartPoll
<1>2. CASE TransferStep
  <2>1. PICK ok \in BOOLEAN :
           \/ /\ FetchSector(ok) \/ MoveWord(ok) \/ EndSector(ok)
              /\ UNCHANGED <<latch, go, regs>>
           \/ CloseTransfer(ok)
        BY <1>2 DEF TransferStep
  <2>2. xfer.on /\ UNCHANGED locked
        BY <1>2 DEF TransferStep
  <2>3. CASE CloseTransfer(ok)
        BY <1>0, <2>2, <2>3, CloseStep
  <2>4. CASE /\ FetchSector(ok) \/ MoveWord(ok) \/ EndSector(ok)
             /\ UNCHANGED <<latch, go, regs>>
    <3>1. Turn /\ Written
          BY <2>4, FetchTurn, MoveTurn, EndTurn
    <3>. QED BY <1>0, <2>2, <2>4, <3>1, LoopStep
  <2>. QED BY <2>1, <2>3, <2>4
<1>. QED BY <1>1, <1>2 DEF Poll

----------------------------------------------------------------------------
(* The invariant and the theorems. *)

\* What both kinds of machine keep.
Safe == Types /\ Counting /\ Allowed

LEMMA InitSafe == Init => Safe /\ Ready
<1>. SUFFICES ASSUME Init PROVE Safe /\ Ready
     OBVIOUS
<1>1. /\ latch \in Latch /\ latch.done /\ ~latch.irq_req
      BY ResetDone DEF Init
<1>2. /\ DOMAIN IdleXfer = XferFields
      /\ IdleXfer.on = FALSE /\ IdleXfer.cur = 0 /\ IdleXfer.n = 0 /\ IdleXfer.limit = 0
      /\ IdleXfer.wc = 0 /\ IdleXfer.at = "close" /\ IdleXfer.dirty = FALSE
      BY DEF IdleXfer, XferFields
<1>3. DOMAIN disk = Drives
      BY DEF Init, InitialDisk
<1>4. "position" \in Functions(kind) /\ 0 \in Drives
      BY DiskAssumption DEF Functions
<1>5. Types
      BY <1>1, <1>2, <1>3, <1>4, ZeroPlace DEF Init, Types
<1>6. Counting
      BY <1>2 DEF Init, Counting
<1>7. Allowed
      BY <1>2 DEF Init, Allowed
<1>8. Ready
      BY <1>1, <1>2 DEF Init, Ready, Latch
<1>. QED BY <1>5, <1>6, <1>7, <1>8 DEF Safe

\* Every step keeps Safe; a poll changes only the image of a drive it may write.
LEMMA NextSafe ==
    ASSUME Safe, [Next]_vars
    PROVE  /\ Safe'
           /\ \A u \in Drives : u \in locked \cup ReadOnly => disk'[u] = disk[u]
<1>1. CASE Processor
      BY <1>1, ProcessorStep DEF Safe, Counting, Allowed
<1>2. CASE Poll
  <2>1. Types /\ Counting /\ Allowed /\ DOMAIN disk = Drives
        BY DEF Safe, Types
  <2>2. PollStep /\ ((Written /\ xfer.on) \/ UNCHANGED disk)
        BY <1>2, <2>1, PollSteps
  <2>3. Safe'
        BY <2>1, <2>2 DEF PollStep, Safe
  <2>4. ASSUME NEW u \in Drives, u \in locked \cup ReadOnly
        PROVE  disk'[u] = disk[u]
        BY <2>1, <2>2, <2>4 DEF Written, Allowed
  <2>. QED BY <2>3, <2>4
<1>3. CASE UNCHANGED vars
      BY <1>3 DEF vars, regs, Safe, Types, Counting, Allowed
<1>. QED BY <1>1, <1>2, <1>3 DEF Next

\* On the host a poll also keeps GO and DONE opposite, and one that ends a
\* command with interrupts enabled requests one.
LEMMA NextReady ==
    ASSUME HostLoop, Safe, Ready, [Next]_vars
    PROVE  /\ Ready'
           /\ go /\ ~go' /\ latch'.ie => latch'.irq_req
<1>1. CASE Processor
      BY <1>1, ProcessorStep DEF Safe
<1>2. CASE Poll
  <2>1. PollStep /\ half = <<>> /\ half' = half /\ go \in BOOLEAN /\ latch \in Latch
        BY <1>2, PollSteps DEF Safe, Poll, StartPoll, TransferStep, PollMayRun, HostLoop, Types
  <2>2. CASE UNCHANGED <<latch, go>> /\ (xfer'.on => xfer.on \/ go)
        BY <2>1, <2>2 DEF Ready
  <2>3. CASE Finish /\ ~xfer'.on
    <3>1. /\ go' = FALSE /\ latch'.done
          /\ ~latch.done /\ latch.irq_armed /\ latch'.ie => latch'.irq_req
          BY <2>1, <2>3, FinishStep
    <3>. QED BY <2>3, <3>1 DEF Ready
  <2>. QED BY <2>1, <2>2, <2>3 DEF PollStep
<1>3. CASE UNCHANGED vars
      BY <1>3 DEF vars, Ready
<1>. QED BY <1>1, <1>2, <1>3 DEF Next

\* BusyOrDone: on the host a controller is busy or shows DONE, never both or
\* neither, and requests an interrupt only with DONE.
THEOREM HostBusyOrDone == ASSUME HostLoop PROVE Spec => []BusyOrDone
<1>1. Init => Safe /\ Ready
      BY InitSafe
<1>2. Safe /\ Ready /\ [Next]_vars => (Safe /\ Ready)'
      BY NextSafe, NextReady
<1>3. Safe /\ Ready => BusyOrDone
      BY DEF Ready, BusyOrDone
<1>. QED BY <1>1, <1>2, <1>3, PTL DEF Spec

\* CompletionInterrupts: on the host a command that ends while interrupts are
\* enabled requests one, after any history of requests, grants and resets.
THEOREM HostCompletionInterrupts == ASSUME HostLoop PROVE Spec => CompletionInterrupts
<1>1. Init => Safe /\ Ready
      BY InitSafe
<1>2. Safe /\ Ready /\ [Next]_vars => (Safe /\ Ready)'
      BY NextSafe, NextReady
<1>3. Safe /\ Ready /\ [Next]_vars
         => [go /\ ~go' /\ latch.ie /\ latch'.ie => latch'.irq_req]_vars
      BY NextReady
<1>. QED BY <1>1, <1>2, <1>3, PTL DEF Spec, CompletionInterrupts

\* ProtectedKept: no step, of the host's loop or of the Pico's two cores, writes
\* the image of a drive that is write-locked or was opened for reading only.
THEOREM ProtectedDrivesKept == Spec => ProtectedKept
<1>1. Init => Safe
      BY InitSafe
<1>2. Safe /\ [Next]_vars => Safe'
      BY NextSafe
<1>3. Safe /\ [Next]_vars
         => [\A u \in Drives : u \in locked \cup ReadOnly => disk'[u] = disk[u]]_vars
      BY NextSafe
<1>. QED BY <1>1, <1>2, <1>3, PTL DEF Spec, ProtectedKept

----------------------------------------------------------------------------
(* The end of the drive. *)

\* The RK11 counts the sectors it has passed as well as the words.
Tracked ==
    /\ xfer.cur < Sectors
    /\ xfer.at \in {"fetch", "move"} => SectorOf(xfer.n) = xfer.cur
    /\ xfer.at = "sector" => SectorOf(xfer.n) = xfer.cur + 1

\* The last word moved lies on the drive: a failed flush loses words of its sector.
Behind == xfer.n > 0 => SectorOf(xfer.n - 1) \in Int /\ SectorOf(xfer.n - 1) < Sectors

\* A transfer begins on the drive; its buffer is of a sector of the drive; and its
\* next word lies on the drive, on the RL11 and the XP because the limit ends there.
Below ==
    xfer.on => /\ Behind
               /\ xfer.lba \in Int /\ xfer.lba < Sectors
               /\ xfer.da \in Nat /\ xfer.da < Sectors
               /\ kind # "rk" => xfer.limit <= (Sectors - xfer.da) * WordsPerSector
               /\ kind = "rk" => Tracked

Shaped == \A u \in Drives : DOMAIN disk[u] = ImageSectors
OnDrive == kind # "rh" => Below /\ Shaped /\ InsideTheDrive

\* The sector of the next word.
LEMMA SectorInside ==
    ASSUME Types, Counting, Below, xfer.on, xfer.at \in {"fetch", "move"}
    PROVE  SectorOf(xfer.n) \in Int /\ SectorOf(xfer.n) < Sectors
<1>. DEFINE n == xfer.n
            W == WordsPerSector
<1>1. W \in Nat \ {0} /\ Sectors \in Nat \ {0}
      BY DiskAssumption
<1>2. n \in Nat /\ n < xfer.limit /\ xfer.limit \in Nat /\ xfer.da \in Nat
      BY DEF Counting, Below
<1>3. n \div W \in Int
      BY <1>1, <1>2, Euclid
<1>4. CASE kind = "rk"
  <2>1. SectorOf(xfer.n) = xfer.cur /\ xfer.cur < Sectors /\ xfer.cur \in Int
        BY <1>4 DEF Below, Tracked, Types
  <2>. QED BY <2>1
<1>5. CASE kind # "rk"
  <2>. DEFINE room == Sectors - xfer.da
  <2>1. room \in Int /\ xfer.limit <= room * W
        BY <1>1, <1>2, <1>5 DEF Below
  <2>. HIDE DEF room
  <2>2. room * W \in Int
        BY <1>1, <2>1
  <2>3. n < room * W
        BY <1>2, <2>1, <2>2
  <2>4. n \div W < room
        BY <1>1, <1>2, <2>1, <2>3, DivBelow
  <2>. QED BY <1>1, <1>2, <1>3, <2>4 DEF room, SectorOf
<1>. QED BY <1>4, <1>5

\* Writing a sector of the drive, or a word of one.
LEMMA FlushInside ==
    ASSUME Types, Shaped, InsideTheDrive, UNCHANGED kind, NEW d, NEW lba \in Int, NEW b,
           lba < Sectors, disk' = [disk EXCEPT ![d][lba] = b]
    PROVE  Shaped' /\ InsideTheDrive'
<1>1. DOMAIN disk = Drives /\ DOMAIN disk' = Drives
      BY DEF Types
<1>2. ASSUME NEW u \in Drives PROVE DOMAIN disk'[u] = ImageSectors
      BY <1>1 DEF Shaped
<1>3. ASSUME NEW u \in Drives, NEW s \in ImageSectors, s >= Sectors
      PROVE  disk'[u][s] = disk[u][s]
  <2>1. s # lba
        BY <1>3, DiskAssumption DEF ImageSectors
  <2>. QED BY <1>1, <2>1 DEF Shaped
<1>. QED BY <1>2, <1>3 DEF Shaped, InsideTheDrive

\* The same, when words of a second sector are lost in the flush.
LEMMA LossInside ==
    ASSUME Types, Shaped, InsideTheDrive, UNCHANGED kind, NEW d, NEW lba \in Int, NEW b,
           NEW s \in Int, NEW c, lba < Sectors, s < Sectors,
           disk' = [[disk EXCEPT ![d][lba] = b] EXCEPT ![d][s] = c]
    PROVE  Shaped' /\ InsideTheDrive'
<1>1. DOMAIN disk = Drives /\ DOMAIN disk' = Drives
      BY DEF Types
<1>2. ASSUME NEW u \in Drives PROVE DOMAIN disk'[u] = ImageSectors
      BY <1>1 DEF Shaped
<1>3. ASSUME NEW u \in Drives, NEW t \in ImageSectors, t >= Sectors
      PROVE  disk'[u][t] = disk[u][t]
  <2>1. t # lba /\ t # s
        BY <1>3, DiskAssumption DEF ImageSectors
  <2>. QED BY <1>1, <2>1 DEF Shaped
<1>. QED BY <1>2, <1>3 DEF Shaped, InsideTheDrive

LEMMA WordInside ==
    ASSUME Types, Shaped, InsideTheDrive, UNCHANGED kind, NEW d, NEW lba \in Int, NEW k, NEW w,
           lba < Sectors, disk' = [disk EXCEPT ![d][lba][k] = w]
    PROVE  Shaped' /\ InsideTheDrive'
<1>1. disk' = [disk EXCEPT ![d][lba] = [disk[d][lba] EXCEPT ![k] = w]]
      BY DEF Types
<1>. QED BY <1>1, FlushInside

\* What a turn of the loop must keep for the place to stay on the drive.
Kept ==
    /\ \/ xfer'.n = xfer.n
       \/ xfer'.n = xfer.n + 1 /\ xfer.at = "move"
    /\ xfer'.on = xfer.on /\ xfer'.da = xfer.da /\ xfer'.limit = xfer.limit
    /\ \/ xfer'.lba \in {xfer.lba, NoSector}
       \/ xfer'.lba = SectorOf(xfer.n) /\ xfer.at = "fetch"

LEMMA KeptBelow ==
    ASSUME Types, Counting, Below, xfer.on, UNCHANGED kind, Kept, kind = "rk" => Tracked'
    PROVE  Below'
<1>1. xfer'.lba \in Int /\ xfer'.lba < Sectors
  <2>1. NoSector \in Int /\ NoSector < Sectors
        BY DiskAssumption DEF NoSector
  <2>2. CASE xfer'.lba = SectorOf(xfer.n) /\ xfer.at = "fetch"
        BY <2>2, SectorInside
  <2>. QED BY <2>1, <2>2 DEF Kept, Below
<1>2. Behind'
  <2>1. CASE xfer'.n = xfer.n
    <3>1. SectorOf(xfer.n - 1)' = SectorOf(xfer.n - 1)
          BY <2>1 DEF Kept, SectorOf
    <3>. QED BY <2>1, <3>1 DEF Below, Behind
  <2>2. CASE xfer'.n = xfer.n + 1 /\ xfer.at = "move"
    <3>1. xfer'.n - 1 = xfer.n
          BY <2>2 DEF Counting
    <3>2. SectorOf(xfer.n - 1)' = SectorOf(xfer.n)
          BY <3>1 DEF Kept, SectorOf
    <3>. QED BY <2>2, <3>2, SectorInside DEF Behind
  <2>. QED BY <2>1, <2>2 DEF Kept
<1>. QED BY <1>1, <1>2 DEF Kept, Below

LEMMA BreakInside ==
    ASSUME Types, Counting, Below, xfer.on, UNCHANGED kind, NEW e, Break(e)
    PROVE  Below'
<1>1. xfer' = [xfer EXCEPT !.at = "close", !.err = TRUE]
      BY DEF Break
<1>2. /\ xfer'.on = xfer.on /\ xfer'.da = xfer.da /\ xfer'.limit = xfer.limit
      /\ xfer'.lba = xfer.lba /\ xfer'.cur = xfer.cur /\ xfer'.at = "close" /\ xfer'.n = xfer.n
      BY <1>1 DEF Types, XferFields
<1>3. kind = "rk" => Tracked'
      BY <1>2 DEF Below, Tracked
<1>4. Kept
      BY <1>2 DEF Kept
<1>. QED BY <1>3, <1>4, KeptBelow

LEMMA NextSectorInside ==
    ASSUME Types, Counting, Below, xfer.on, UNCHANGED kind, xfer' = NextSector, xfer.at = "sector",
           kind = "rk" => xfer.cur + 1 < Sectors
    PROVE  Below'
<1>1. /\ xfer'.on = xfer.on /\ xfer'.da = xfer.da /\ xfer'.limit = xfer.limit
      /\ xfer'.lba = NoSector /\ xfer'.cur = xfer.cur + 1 /\ xfer'.n = xfer.n
      /\ xfer'.at \in {"close", "fetch"}
      BY DEF NextSector, Types, XferFields
<1>2. SectorOf(xfer.n)' = SectorOf(xfer.n)
      BY <1>1 DEF SectorOf
<1>3. kind = "rk" => Tracked'
      BY <1>1, <1>2 DEF Below, Tracked, SectorOf
<1>4. Kept
      BY <1>1 DEF Kept
<1>. QED BY <1>3, <1>4, KeptBelow

LEMMA FetchInside ==
    ASSUME Types, Counting, Below, Shaped, InsideTheDrive, xfer.on, UNCHANGED kind,
           NEW ok \in BOOLEAN, FetchSector(ok)
    PROVE  Below' /\ Shaped' /\ InsideTheDrive'
<1>0. xfer.at = "fetch"
      BY DEF FetchSector
<1>1. ASSUME UNCHANGED disk PROVE Shaped' /\ InsideTheDrive'
      BY <1>1 DEF Shaped, InsideTheDrive
<1>2. ASSUME NEW e, Break(e), UNCHANGED disk PROVE Below' /\ Shaped' /\ InsideTheDrive'
      BY <1>1, <1>2, BreakInside
<1>3. CASE disk' = Flushed(xfer.buf) /\ xfer' = [xfer EXCEPT !.dirty = FALSE]
  <2>1. /\ xfer'.on = xfer.on /\ xfer'.da = xfer.da /\ xfer'.limit = xfer.limit
        /\ xfer'.lba = xfer.lba /\ xfer'.cur = xfer.cur /\ xfer'.at = xfer.at
        /\ xfer'.n = xfer.n
        BY <1>3 DEF Types, XferFields
  <2>2. kind = "rk" => Tracked'
        BY <2>1 DEF Below, Tracked, SectorOf
  <2>5. Kept
        BY <2>1 DEF Kept
  <2>3. Below'
        BY <2>2, <2>5, KeptBelow
  <2>4. xfer.lba \in Int /\ xfer.lba < Sectors
        BY DEF Below
  <2>. QED BY <1>3, <2>3, <2>4, FlushInside DEF Flushed
<1>4. CASE /\ xfer' = IF Buffered
                      THEN [xfer EXCEPT !.at = "move", !.lba = SectorOf(xfer.n),
                                        !.buf = disk[xfer.drive][SectorOf(xfer.n)]]
                      ELSE [xfer EXCEPT !.at = "move"]
           /\ disk' = disk
  <2>1. /\ xfer'.on = xfer.on /\ xfer'.da = xfer.da /\ xfer'.limit = xfer.limit
        /\ xfer'.lba = xfer.lba \/ xfer'.lba = SectorOf(xfer.n)
        /\ xfer'.cur = xfer.cur /\ xfer'.at = "move" /\ xfer'.n = xfer.n
        BY <1>4 DEF Types, XferFields
  <2>2. kind = "rk" => Tracked'
        BY <1>0, <2>1 DEF Below, Tracked, SectorOf
  <2>5. Kept
        BY <1>0, <2>1 DEF Kept
  <2>3. Below'
        BY <2>2, <2>5, KeptBelow
  <2>. QED BY <1>1, <1>4, <2>3
<1>. QED BY <1>2, <1>3, <1>4 DEF FetchSector

\* One more word: on the RK11 the sector changes only as the loop comes to its end.
LEMMA MovedInside ==
    ASSUME Types, Counting, Below, xfer.on, UNCHANGED kind, xfer.at = "move", Moved
    PROVE  Below'
<1>1. /\ xfer'.on = xfer.on /\ xfer'.da = xfer.da /\ xfer'.limit = xfer.limit
      /\ xfer'.lba = xfer.lba /\ xfer'.cur = xfer.cur /\ xfer'.n = xfer.n + 1
      /\ xfer'.at = After(xfer.n + 1)
      BY DEF Moved, OneMore, Types, XferFields
<1>2. ASSUME kind = "rk" PROVE Tracked'
  <2>. DEFINE n == xfer.n
              W == WordsPerSector
  <2>0. W \in Nat \ {0} /\ n \in Int /\ xfer.cur \in Int /\ xfer.da \in Int
        BY DiskAssumption DEF Counting, Types, Below
  <2>1. n \div W \in Int
        BY <2>0, Euclid
  <2>2. (n + 1) \div W = IF (n + 1) % W = 0 THEN (n \div W) + 1 ELSE n \div W
        BY <2>0, DivNext
  <2>3. After(n + 1) = IF (n + 1) % W = 0 THEN "sector"
                       ELSE IF n + 1 = xfer.limit THEN "close" ELSE "move"
        BY <1>2 DEF After
  <2>4. xfer.cur < Sectors /\ xfer.da + (n \div W) = xfer.cur
        BY <1>2 DEF Below, Tracked, SectorOf
  <2>5. SectorOf(xfer.n)' = xfer.da + ((n + 1) \div W)
        BY <1>1 DEF SectorOf
  <2>6. xfer'.at = "sector" => SectorOf(xfer.n)' = xfer.cur + 1
        BY <1>1, <2>0, <2>1, <2>2, <2>3, <2>4, <2>5
  <2>7. xfer'.at = "move" => SectorOf(xfer.n)' = xfer.cur
        BY <1>1, <2>0, <2>1, <2>2, <2>3, <2>4, <2>5
  <2>8. xfer'.at # "fetch"
        BY <1>1, <2>3
  <2>. QED BY <1>1, <2>4, <2>6, <2>7, <2>8 DEF Tracked
<1>3. Kept
      BY <1>1 DEF Kept
<1>. QED BY <1>2, <1>3, KeptBelow

LEMMA MoveInside ==
    ASSUME Types, Counting, Below, Shaped, InsideTheDrive, xfer.on, UNCHANGED kind,
           NEW ok \in BOOLEAN, MoveWord(ok)
    PROVE  Below' /\ Shaped' /\ InsideTheDrive'
<1>0. xfer.at = "move"
      BY DEF MoveWord
<1>1. \/ UNCHANGED disk
      \/ \E k, w : disk' = [disk EXCEPT ![xfer.drive][SectorOf(xfer.n)][k] = w]
      BY DEF MoveWord
<1>2. Moved \/ \E e : Break(e)
      BY DEF MoveWord, Moved
<1>3. Below'
      BY <1>0, <1>2, MovedInside, BreakInside
<1>4. SectorOf(xfer.n) \in Int /\ SectorOf(xfer.n) < Sectors
      BY <1>0, SectorInside
<1>5. Shaped' /\ InsideTheDrive'
  <2>1. CASE UNCHANGED disk
        BY <2>1 DEF Shaped, InsideTheDrive
  <2>. QED BY <1>1, <1>4, <2>1, WordInside
<1>. QED BY <1>3, <1>5

LEMMA EndInside ==
    ASSUME Types, Counting, Below, Shaped, InsideTheDrive, xfer.on, UNCHANGED kind,
           NEW ok \in BOOLEAN, EndSector(ok)
    PROVE  Below' /\ Shaped' /\ InsideTheDrive'
<1>1. UNCHANGED disk \/ disk' = Flushed(xfer.buf)
      BY DEF EndSector
<1>2. xfer.lba \in Int /\ xfer.lba < Sectors
      BY DEF Below
<1>3. Shaped' /\ InsideTheDrive'
  <2>1. CASE UNCHANGED disk
        BY <2>1 DEF Shaped, InsideTheDrive
  <2>. QED BY <1>1, <1>2, <2>1, FlushInside DEF Flushed
<1>4. CASE xfer' = [xfer EXCEPT !.at = "close"]
  <2>1. /\ xfer'.on = xfer.on /\ xfer'.da = xfer.da /\ xfer'.limit = xfer.limit
        /\ xfer'.lba = xfer.lba /\ xfer'.cur = xfer.cur /\ xfer'.at = "close" /\ xfer'.n = xfer.n
        BY <1>4 DEF Types, XferFields
  <2>2. kind = "rk" => Tracked'
        BY <2>1 DEF Below, Tracked
  <2>5. Kept
        BY <2>1 DEF Kept
  <2>3. Below'
        BY <2>2, <2>5, KeptBelow
  <2>. QED BY <1>3, <2>3
<1>5. CASE xfer' = NextSector /\ (kind = "rk" => xfer.cur + 1 < Sectors)
  <2>1. xfer.at = "sector"
        BY DEF EndSector
  <2>. QED BY <1>3, <1>5, <2>1, NextSectorInside
<1>6. CASE \E e : Break(e)
      BY <1>3, <1>6, BreakInside
<1>7. \/ xfer' = [xfer EXCEPT !.at = "close"]
      \/ xfer' = NextSector /\ (kind = "rk" => xfer.cur + 1 < Sectors)
      \/ \E e : Break(e)
      BY DEF EndSector, Buffered
<1>. QED BY <1>4, <1>5, <1>6, <1>7

LEMMA CloseInside ==
    ASSUME Types, Counting, Below, Shaped, InsideTheDrive, xfer.on, UNCHANGED kind,
           NEW ok \in BOOLEAN, CloseTransfer(ok)
    PROVE  Below' /\ Shaped' /\ InsideTheDrive'
<1>1. xfer'.on = FALSE
      BY DEF CloseTransfer, IdleXfer
<1>2. \/ UNCHANGED disk
      \/ disk' = Flushed(LastBuffer)
      \/ \E k, d : (d = disk \/ d = Flushed(LastBuffer)) /\ xfer.n > 0 /\ disk' = Unflushed(d, k)
      BY DEF CloseTransfer
<1>3. xfer.lba \in Int /\ xfer.lba < Sectors
      BY DEF Below
<1>4. Shaped' /\ InsideTheDrive'
  <2>1. CASE UNCHANGED disk
        BY <2>1 DEF Shaped, InsideTheDrive
  <2>2. CASE disk' = Flushed(LastBuffer)
        BY <1>3, <2>2, FlushInside DEF Flushed
  <2>3. ASSUME NEW k, NEW d, d = disk \/ d = Flushed(LastBuffer), xfer.n > 0,
               disk' = Unflushed(d, k)
        PROVE  Shaped' /\ InsideTheDrive'
    <3>. DEFINE s == SectorOf(xfer.n - 1)
                c == [j \in Offsets |-> IF j < k THEN d[xfer.drive][s][j]
                                        ELSE xfer.disk0[xfer.drive][s][j]]
    <3>1. s \in Int /\ s < Sectors
          BY <2>3 DEF Below, Behind
    <3>2. disk' = [d EXCEPT ![xfer.drive][s] = c]
          BY <2>3 DEF Unflushed
    <3>. HIDE DEF s, c
    <3>3. CASE d = disk
          BY <3>1, <3>2, <3>3, FlushInside
    <3>4. CASE d = Flushed(LastBuffer)
      <4>. DEFINE b == LastBuffer
      <4>1. disk' = [[disk EXCEPT ![xfer.drive][xfer.lba] = b] EXCEPT ![xfer.drive][s] = c]
            BY <3>2, <3>4 DEF Flushed
      <4>. HIDE DEF b
      <4>. QED BY <1>3, <3>1, <4>1, LossInside
    <3>. QED BY <2>3, <3>3, <3>4
  <2>. QED BY <1>2, <2>1, <2>2, <2>3
<1>. QED BY <1>1, <1>4 DEF Below

LEMMA BeginInside ==
    ASSUME Types, Shaped, InsideTheDrive, kind # "rh", UNCHANGED kind, BeginTransfer
    PROVE  Below' /\ Shaped' /\ InsideTheDrive'
<1>0. UNCHANGED disk
      BY DEF BeginTransfer
<1>1. /\ xfer'.on = TRUE /\ xfer'.da = da /\ xfer'.cur = da /\ xfer'.n = 0
      /\ xfer'.limit = Limit /\ xfer'.lba = NoSector /\ xfer'.at \in {"close", "fetch"}
      BY DEF BeginTransfer, IdleXfer
<1>2. da \in Nat /\ da < Sectors
  <2>1. kind \in {"rk", "rl", "xp"}
        BY DiskAssumption DEF Types
  <2>2. ~NoPlace
    <3>1. fn \in Transfers /\ fn # "illegal" /\ Refusal = {}
          BY DEF BeginTransfer, Transfers
    <3>. QED BY <2>1, <3>1 DEF Refusal, RkRefusal, RlRefusal, XpRefusal
  <2>3. Sectors \in Nat
        BY DiskAssumption
  <2>. QED BY <2>2, <2>3 DEF NoPlace, Types, BadDa
<1>3. kind # "rk" => Limit <= (Sectors - da) * WordsPerSector
  <2>. DEFINE room == (Sectors - da) * WordsPerSector
  <2>1. room \in Int
        BY <1>2, DiskAssumption
  <2>2. kind \in {"rk", "rl", "xp"} /\ wc \in Nat
        BY DiskAssumption DEF Types
  <2>3. Limit = IF kind \in {"rl", "xp"} /\ wc > room THEN room ELSE wc
        BY DEF Limit, TooLong
  <2>. HIDE DEF room
  <2>4. kind # "rk" => Limit <= room
        BY <2>1, <2>2, <2>3
  <2>. QED BY <2>4 DEF room
<1>4. Tracked'
  <2>1. 0 \div WordsPerSector = 0
        BY DivZero, DiskAssumption
  <2>2. SectorOf(xfer.n)' = da
        BY <1>1, <1>2, <2>1 DEF SectorOf
  <2>. QED BY <1>1, <1>2, <2>2 DEF Tracked
<1>5. NoSector \in Int /\ NoSector < Sectors
      BY DiskAssumption DEF NoSector
<1>6. Below'
  <2>1. Behind'
        BY <1>1 DEF Behind
  <2>. QED BY <1>1, <1>2, <1>3, <1>4, <1>5, <2>1 DEF Below
<1>. QED BY <1>0, <1>6 DEF Shaped, InsideTheDrive

\* Every step keeps a transfer on its drive.
LEMMA NextInside ==
    ASSUME Safe, OnDrive, [Next]_vars
    PROVE  OnDrive'
<1>. SUFFICES ASSUME kind' # "rh" PROVE Below' /\ Shaped' /\ InsideTheDrive'
     BY DEF OnDrive
<1>0. UNCHANGED kind /\ kind # "rh" /\ Types /\ Counting /\ Below /\ Shaped /\ InsideTheDrive
  <2>1. UNCHANGED kind
        BY DEF Next, Processor, Poll, vars
  <2>. QED BY <2>1 DEF OnDrive, Safe
<1>1. CASE UNCHANGED <<xfer, disk>>
      BY <1>0, <1>1 DEF Below, Behind, Tracked, SectorOf, Shaped, InsideTheDrive
<1>2. CASE Poll
  <2>1. CASE StartPoll
    <3>1. CASE BeginTransfer
          BY <1>0, <3>1, BeginInside
    <3>2. CASE RunSimple \/ RefuseTransfer
      <4>1. UNCHANGED <<xfer, disk>>
            BY <3>2 DEF RunSimple, RefuseTransfer
      <4>. QED BY <1>1, <4>1
    <3>. QED BY <2>1, <3>1, <3>2 DEF StartPoll
  <2>2. CASE TransferStep
    <3>1. xfer.on
          BY <2>2 DEF TransferStep
    <3>. QED BY <1>0, <2>2, <3>1, FetchInside, MoveInside, EndInside, CloseInside
         DEF TransferStep
  <2>. QED BY <1>2, <2>1, <2>2 DEF Poll
<1>. QED BY <1>1, <1>2 DEF Next, Processor, vars

\* InsideTheDrive: on the host and on the Pico, no transfer of any length from any
\* place, whatever fails on the way, changes an image past the end of the drive.
THEOREM DrivesEndKept == Spec => []InsideTheDrive
<1>1. Init => Safe /\ OnDrive
  <2>1. Init => Shaped /\ InsideTheDrive
        BY DEF Init, Shaped, InsideTheDrive, InitialDisk
  <2>2. Init => Below
        BY DEF Init, Below, IdleXfer
  <2>. QED BY <2>1, <2>2, InitSafe DEF OnDrive
<1>2. Safe /\ OnDrive /\ [Next]_vars => (Safe /\ OnDrive)'
      BY NextSafe, NextInside
<1>3. Safe /\ OnDrive => InsideTheDrive
      BY DEF OnDrive, InsideTheDrive
<1>. QED BY <1>1, <1>2, <1>3, PTL DEF Spec

=============================================================================
