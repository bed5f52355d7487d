------------------------------- MODULE Disks -------------------------------
(***************************************************************************)
(* The four disk controllers with a control/status register: RK11, RL11,   *)
(* RH11 and XP (lsi11/dev_rk11.c, dev_rl11.c, dev_rh11.c, dev_xp.c).  The  *)
(* program loads the count, address and disk registers and stores the      *)
(* control register; a poll of the devices later runs the command: it      *)
(* moves words between memory and the image, through a sector buffer on    *)
(* all but the RK11, and leaves DONE, the errors and the registers.        *)
(*                                                                         *)
(* A word store of the processor reaches the device as two byte stores,    *)
(* low byte first.  On the host (DualCore = FALSE) a poll runs between     *)
(* instructions and to its end; on the Pico (DualCore = TRUE) core 0 polls *)
(* the disks outside the lock while core 1 runs the program.               *)
(*                                                                         *)
(* Abstractions: a disk address is a sector number, Sectors the end of the *)
(* drive (of the track on the RL11) and BadDa a sector or surface field    *)
(* out of range; the word count is the number of words asked for; the bus  *)
(* address and its extension bits are one word address that wraps at       *)
(* AddrWords; an error bit is named for what it reports; the errors the XP *)
(* keeps for each drive are one set.  Attention bits, the words of the     *)
(* RL11's read header and GET STATUS and the layout of the registers are   *)
(* left out.                                                               *)
(*                                                                         *)
(* The program is a driver: it reads and writes back a control register in *)
(* one instruction, and stores GO when it stores the register of a busy    *)
(* RK11 (a store without it would clear GO and leave DONE clear for ever). *)
(***************************************************************************)
EXTENDS Integers, IrqLatch

CONSTANTS
    Kinds,         \* the controllers to explore, among "rk", "rl", "rh", "xp"
    DualCore,      \* the Pico's two cores, or the host's single loop
    Drives,        \* the drives the program selects; 0 after a reset
    Attached,      \* those with an image
    ReadOnly,      \* those whose image could only be opened for reading
    WordsPerSector, Sectors, MemWords,
    Counts,        \* the word counts the program loads
    SignedWords,   \* the largest count the RH11 takes: 2^15
    Places,        \* the disk addresses the program loads, beside BadDa
    MaxCmds,       \* bound on the commands the program starts
    MaxWrites,     \* bound on its stores into the other registers
    MaxFaults      \* bound on the accesses to an image that fail

ASSUME DiskAssumption ==
    /\ Kinds \subseteq {"rk", "rl", "rh", "xp"}
    /\ DualCore \in BOOLEAN
    /\ Drives \subseteq Nat /\ 0 \in Drives
    /\ Attached \subseteq Drives /\ ReadOnly \subseteq Drives
    /\ WordsPerSector \in Nat \ {0} /\ Sectors \in Nat \ {0} /\ MemWords \in Nat \ {0}
    /\ Counts \subseteq Nat /\ SignedWords \in Nat \ {0}
    /\ Places \subseteq 0 .. Sectors
    /\ MaxCmds \in Nat /\ MaxWrites \in Nat /\ MaxFaults \in Nat

VARIABLES
    kind,      \* the controller; never changes
    latch,     \* DONE, IE and the request
    go,        \* the GO bit of RKCS, RHCS1 and XPCS1; rl_busy on the RL11
    fn,        \* the function field of the control register
    drive,     \* the selected drive (RLCS, RKDA, RHCS2, XPCS2)
    inhibit,   \* bus address increment inhibited (IBA, BAI, UAI)
    wc, ba, da,\* words still to move, bus address, disk address
    er,        \* the errors shown
    locked,    \* rk_write_lock
    disk, mem, \* the images and the memory, word by word
    xfer,      \* the locals of the transfer a poll is running
    half,      \* the store of which only the low byte has arrived: <<>> or <<v>>
    cmds, writes, faults

regs == <<fn, drive, inhibit, wc, ba, da>>
bounds == <<cmds, writes, faults>>
vars == <<kind, latch, go, regs, er, locked, disk, mem, xfer, half, bounds>>

BadDa == -1
Mem == 0 .. MemWords - 1
AddrWords == MemWords + 1
NoSector == -1

\* The sectors of an image, those past the drive's end included: the RH11
\* does not check the cylinder.
ImageSectors == 0 .. Sectors + MaxCmds * (1 + Sectors)
Offsets == 0 .. WordsPerSector - 1

\* The words: zero, what memory held, what the images held.
Zero == <<0, 0>>
InitialMem == [a \in Mem |-> <<1, a>>]
InitialDisk ==
    [u \in Drives |-> [s \in ImageSectors |->
        [k \in Offsets |-> IF s < Sectors THEN <<2 + u, s * WordsPerSector + k>> ELSE Zero]]]
Words == {Zero} \cup {<<1, a>> : a \in Mem}
         \cup {<<2 + u, i>> : u \in Drives, i \in 0 .. Sectors * WordsPerSector - 1}

Errors == {"NoDrive", "BadAddress", "NoMemory", "Mismatch", "WriteLocked",
           "Overrun", "MediumFault", "Program", "Illegal"}

Transfers == {"read", "write", "check", "verify"}

\* The functions a controller decodes, grouped by what they do here.
Functions(k) ==
    {"read", "write", "check", "position"}
    \cup (IF k = "rk" THEN {"verify", "clear", "lock", "home"} ELSE {})
    \cup (IF k = "rh" THEN {"illegal"} ELSE {})
    \cup (IF k = "xp" THEN {"clear", "home", "illegal"} ELSE {})

IdleXfer == [on |-> FALSE, fn |-> "read", drive |-> 0, wc |-> 0, ba |-> 0, da |-> 0,
             inh |-> FALSE, limit |-> 0, n |-> 0, at |-> "close", cur |-> 0,
             lba |-> NoSector, buf |-> [k \in Offsets |-> Zero], dirty |-> FALSE,
             err |-> FALSE, mem0 |-> InitialMem, disk0 |-> InitialDisk]

Init ==
    /\ kind \in Kinds
    /\ latch = EventSetDone(LatchReset)
    /\ go = FALSE /\ fn = "position" /\ drive = 0 /\ inhibit = FALSE
    /\ wc = 0 /\ ba = 0 /\ da = 0
    /\ er = {} /\ locked = {}
    /\ disk = InitialDisk /\ mem = InitialMem
    /\ xfer = IdleXfer /\ half = <<>>
    /\ cmds = 0 /\ writes = 0 /\ faults = 0

----------------------------------------------------------------------------
(* The processor's side: byte stores into the registers, each under the lock. *)

\* Between instructions; on the host no poll is then half way.
ProcessorFree == half = <<>> /\ (DualCore \/ ~xfer.on)

\* RH11 and XP refuse every register but the control register while GO is set.
Massbus == kind \in {"rh", "xp"}

RefuseWhileBusy ==
    /\ Massbus /\ go
    /\ er' = er \cup {"Program"}
    /\ UNCHANGED <<latch, go, regs, locked>>

\* RKWC, RHWC, XPWC, and RLMP for the RL11
WriteCount(n) ==
    \/ RefuseWhileBusy
    \/ /\ ~(Massbus /\ go)
       /\ wc' = n
       /\ UNCHANGED <<latch, go, fn, drive, inhibit, ba, da, er, locked>>

WriteBusAddress(a) ==
    \/ RefuseWhileBusy
    \/ /\ ~(Massbus /\ go)
       /\ ba' = a
       /\ UNCHANGED <<latch, go, fn, drive, inhibit, wc, da, er, locked>>

\* RKDA also selects the drive and is ignored until DONE.
WriteDiskAddress(d, u) ==
    \/ RefuseWhileBusy
    \/ /\ kind = "rk" /\ ~latch.done
       /\ UNCHANGED <<latch, go, regs, er, locked>>
    \/ /\ ~(Massbus /\ go) /\ ~(kind = "rk" /\ ~latch.done)
       /\ da' = d
       /\ drive' = IF kind = "rk" THEN u ELSE drive
       /\ UNCHANGED <<latch, go, fn, inhibit, wc, ba, er, locked>>

\* The low byte of RHCS2 and XPCS2
SelectDrive(u, i) ==
    /\ Massbus
    /\ \/ RefuseWhileBusy
       \/ /\ ~go
          /\ drive' = u /\ inhibit' = i
          /\ UNCHANGED <<latch, go, fn, wc, ba, da, er, locked>>

\* What GO forgives: the RK11 its soft errors, the XP those of CS2, the others
\* everything.
SoftErrors == {"Mismatch"}
Cs2Errors == {"Program", "NoMemory", "Mismatch", "MediumFault"}
ErrorsAfterGo ==
    CASE kind = "rk" -> er \ SoftErrors
      [] kind = "xp" -> er \ Cs2Errors
      [] OTHER -> {}

\* RKCS: GO is honoured only with DONE; a store without GO clears the bit even
\* while a command waits.
RkStoreLow(v) ==
    LET l == SetIe(latch, v.ie)
        start == v.go /\ latch.done
    IN  /\ latch' = IF start THEN SwClearDone(l) ELSE l
        /\ er' = IF start THEN ErrorsAfterGo ELSE er
        /\ go' = (v.go /\ (latch.done \/ go))
        /\ cmds' = IF start THEN cmds + 1 ELSE cmds

\* RLCS: a store with CRDY clear starts the command.
RlStoreLow(v) ==
    LET l == SetIe(latch, v.ie)
        start == ~v.rdy /\ latch.done
    IN  /\ latch' = IF start THEN SwClearDone(l) ELSE l
        /\ er' = IF start THEN {} ELSE er
        /\ go' = (go \/ start)
        /\ cmds' = IF start THEN cmds + 1 ELSE cmds

\* RHCS1 and XPCS1: IE set while ready raises the request at once; GO while a
\* command waits is a program error and ends that command.
MassbusStoreLow(v, ready, shown) ==
    LET l == [SetIe(latch, v.ie) EXCEPT !.irq_req = @ \/ (~latch.ie /\ v.ie /\ ready)]
        start == v.go /\ ~go /\ latch.done
        again == v.go /\ ~latch.done
    IN  /\ latch' = IF start THEN SwClearDone(l)
                    ELSE IF again /\ go THEN EventSetDone(l) ELSE l
        /\ er' = IF start THEN ErrorsAfterGo
                 ELSE IF again THEN shown \cup {"Program"} ELSE shown
        /\ go' = IF start THEN TRUE ELSE IF again THEN FALSE ELSE go
        /\ cmds' = IF start THEN cmds + 1 ELSE cmds

\* The RH11 looks at the ready bit of the stored byte.
RhStoreLow(v) == MassbusStoreLow(v, v.rdy, er)

\* The XP extends the byte with the register's own high byte, whose TRE bit,
\* set with any error, then clears the errors of CS2.
XpStoreLow(v) == MassbusStoreLow(v, latch.done, er \ Cs2Errors)

StoreLow(v) ==
    /\ fn' = v.fn
    /\ \/ kind = "rk" /\ RkStoreLow(v)
       \/ kind = "rl" /\ RlStoreLow(v)
       \/ kind = "rh" /\ RhStoreLow(v)
       \/ kind = "xp" /\ XpStoreLow(v)
    /\ half' = <<v>>
    /\ UNCHANGED <<drive, inhibit, wc, ba, da, locked>>

\* rh_controller_clear, by the clear bit of RHCS1
RhControllerClear ==
    /\ latch' = EventSetDone(LatchReset)
    /\ go' = FALSE /\ er' = {} /\ inhibit' = FALSE
    /\ wc' = 0 /\ ba' = 0 /\ da' = 0
    /\ UNCHANGED <<fn, drive, locked>>

\* The high byte: the RL11's drive select, the RK11's increment inhibit, the
\* RH11's controller clear, the XP's error clear.
StoreHigh(v) ==
    /\ half' = <<>>
    /\ \/ /\ kind = "rl"
          /\ drive' = v.drive
          /\ UNCHANGED <<latch, go, fn, inhibit, wc, ba, da, er, locked>>
       \/ /\ kind = "rk"
          /\ inhibit' = v.inh
          /\ UNCHANGED <<latch, go, fn, drive, wc, ba, da, er, locked>>
       \/ kind = "rh" /\ v.clr /\ RhControllerClear
       \/ /\ Massbus /\ ~(kind = "rh" /\ v.clr)
          /\ er' = IF v.clr THEN er \ Cs2Errors ELSE er
          /\ UNCHANGED <<latch, go, regs, locked>>

\* The control register as a store writes it, the fields a kind lacks fixed.
\* A new command has the ready bit clear; a store that only changes the
\* function or IE is the register read and written back (a BIS or BIC).
Stores(ready) ==
    {v \in [go : BOOLEAN, fn : Functions(kind), ie : BOOLEAN, rdy : {ready},
            drive : IF kind = "rl" THEN Drives ELSE {drive},
            inh : IF kind = "rk" THEN BOOLEAN ELSE {inhibit},
            clr : IF Massbus THEN BOOLEAN ELSE {FALSE}] : v.clr => ~v.go}

StartCommand ==
    /\ cmds < MaxCmds
    /\ \E v \in Stores(FALSE) : v.go /\ StoreLow(v)

ChangeIe ==
    \E v \in Stores(latch.done) :
        /\ v.go = go /\ v.fn = fn /\ v.drive = drive /\ v.inh = inhibit
        /\ v.ie # latch.ie \/ v.clr
        /\ StoreLow(v)

\* xp_controller_clear keeps the drive and its disk address.
XpControllerClear ==
    /\ latch' = EventSetDone(LatchReset)
    /\ go' = FALSE /\ er' = {} /\ inhibit' = FALSE
    /\ wc' = 0 /\ ba' = 0 /\ fn' = "position"
    /\ UNCHANGED <<drive, da, locked>>

\* rk11_reset, rl11_reset, rh11_reset, xp_reset: the RESET instruction
BusReset ==
    /\ latch' = EventSetDone(LatchReset)
    /\ go' = FALSE /\ fn' = "position" /\ drive' = 0 /\ inhibit' = FALSE
    /\ wc' = 0 /\ ba' = 0 /\ da' = 0
    /\ er' = {} /\ locked' = {}

\* The clear bit of RHCS2 and XPCS2, refused like any register while GO is set
ClearByCs2 ==
    /\ Massbus
    /\ \/ RefuseWhileBusy
       \/ kind = "rh" /\ ~go /\ BusReset
       \/ kind = "xp" /\ ~go /\ XpControllerClear

\* The interrupt is granted.
Acknowledge ==
    /\ latch.irq_req
    /\ latch' = LatchAck(latch)
    /\ UNCHANGED <<go, regs, er, locked>>

Processor ==
    /\ UNCHANGED <<kind, disk, mem, xfer, faults>>
    /\ \/ /\ ProcessorFree /\ writes < MaxWrites
          /\ \/ \E n \in Counts : WriteCount(n)
             \/ \E a \in {0, MemWords - 1} : WriteBusAddress(a)
             \/ \E d \in Places \cup {BadDa}, u \in Drives : WriteDiskAddress(d, u)
             \/ \E u \in Drives, i \in BOOLEAN : SelectDrive(u, i)
          /\ writes' = writes + 1
          /\ UNCHANGED <<half, cmds>>
       \/ /\ ProcessorFree
          /\ ClearByCs2 \/ Acknowledge \/ BusReset
          /\ UNCHANGED <<half, cmds, writes>>
       \/ ProcessorFree /\ (StartCommand \/ ChangeIe) /\ UNCHANGED writes
       \/ \E v \in {half[i] : i \in DOMAIN half} : StoreHigh(v) /\ UNCHANGED <<cmds, writes>>

----------------------------------------------------------------------------
(* The poll: one command from its function to DONE. *)

PollMayRun == DualCore \/ half = <<>>

\* The RL11 keeps one error code, the last.
WithErrors(e) == IF e = {} THEN er ELSE IF kind = "rl" THEN e ELSE er \cup e

\* Mutant of Finish: GO stays set, and the command runs again.
FinishKeepingGo == latch' = EventSetDone(latch) /\ UNCHANGED go

\* rk_finish_command, rl_finish_command, rh_finish_command, xp_finish_command
Finish ==
    /\ go' = FALSE
    /\ latch' = EventSetDone(latch)

\* Mutant of Protected: the RK11's own write lock is forgotten.
ProtectedByImage == drive \in ReadOnly

\* Writing is refused on the RK11 also after a write lock of the drive.
Protected == drive \in ReadOnly \cup locked

\* The checks each controller makes before it does anything for a function, in
\* their order: the first that fails is the error shown.
NoPlace == da = BadDa \/ da >= Sectors
Absent == drive \notin Attached

RkRefusal ==
    IF Absent THEN {"NoDrive"}
    ELSE IF NoPlace THEN {"BadAddress"}
    ELSE IF fn \in {"write", "check"} /\ Protected THEN {"WriteLocked"} ELSE {}

RlRefusal ==
    IF Absent THEN {"NoDrive"}
    ELSE IF fn = "write" /\ Protected THEN {"WriteLocked"}
    ELSE IF fn \in Transfers /\ NoPlace THEN {"BadAddress"} ELSE {}

\* The RH11 attaches no image it cannot write, and looks at the address only as
\* it moves the first word of a sector.
RhRefusal ==
    IF fn = "illegal" THEN {"Illegal"}
    ELSE IF fn \in Transfers /\ (Absent \/ drive \in ReadOnly) THEN {"NoDrive"} ELSE {}

\* The XP looks at the count, and notes an overrun, before it minds that the
\* image is read-only.
XpOverrun ==
    IF kind = "xp" /\ wc > (Sectors - da) * WordsPerSector THEN {"Overrun"} ELSE {}
XpRefusal ==
    IF fn = "illegal" THEN {"Illegal"}
    ELSE IF fn \in Transfers /\ Absent THEN {"NoDrive"}
    ELSE IF NoPlace THEN {"BadAddress"}
    ELSE IF fn = "write" /\ wc > 0 /\ Protected THEN {"WriteLocked"} \cup XpOverrun ELSE {}

Refusal ==
    CASE kind = "rk" -> RkRefusal
      [] kind = "rl" -> RlRefusal
      [] kind = "rh" -> RhRefusal
      [] kind = "xp" -> XpRefusal

\* Functions that move nothing: rk_do_control_reset, the RK11's drive reset and
\* write lock, drive clear and preset of the XP, seeks.
RunSimple ==
    /\ fn \notin Transfers
    /\ Finish
    /\ CASE fn = "clear" /\ kind = "rk" ->
              /\ er' = {} /\ locked' = {}
              /\ wc' = 0 /\ ba' = 0 /\ da' = 0 /\ drive' = 0
         [] fn = "clear" /\ kind = "xp" ->
              er' = er \cap Cs2Errors /\ UNCHANGED <<locked, wc, ba, da, drive>>
         [] fn = "lock" ->
              locked' = locked \cup {drive} /\ UNCHANGED <<er, wc, ba, da, drive>>
         [] fn = "home" ->
              da' = 0 /\ UNCHANGED <<er, locked, wc, ba, drive>>
         [] OTHER ->
              er' = WithErrors(Refusal) /\ UNCHANGED <<locked, wc, ba, da, drive>>
    /\ UNCHANGED <<fn, inhibit, disk, mem, xfer, faults>>

\* Mutant of RefuseTransfer: the error is shown and the command left waiting.
RefuseSilently ==
    /\ fn \in Transfers
    /\ Refusal # {} /\ er' = WithErrors(Refusal)
    /\ UNCHANGED <<latch, go, regs, locked, disk, mem, xfer, faults>>

\* A transfer that fails its checks.
RefuseTransfer ==
    /\ fn \in Transfers
    /\ Refusal # {} /\ er' = WithErrors(Refusal)
    /\ Finish
    /\ UNCHANGED <<regs, locked, disk, mem, xfer, faults>>

\* Mutant of Limit: the end of the track or drive does not bound the transfer.
Unlimited == wc

\* The RH11 takes its count as a signed 16-bit word: a longer one is none.
TooLong(n) == kind = "rh" /\ n > SignedWords

\* The words the loop may move: the RL11 stops at the end of the track, the XP
\* at the end of the drive, the RK11 finds the end as it reaches it.
Limit ==
    LET room == (Sectors - da) * WordsPerSector
    IN  IF TooLong(wc) THEN 0
        ELSE IF kind \in {"rl", "xp"} /\ wc > room THEN room ELSE wc

BeginTransfer ==
    /\ fn \in Transfers
    /\ Refusal = {}
    /\ er' = WithErrors(XpOverrun)
    /\ xfer' = [IdleXfer EXCEPT
                   !.on = TRUE, !.fn = fn, !.drive = drive,
                   !.wc = wc, !.ba = ba, !.da = da, !.cur = da, !.inh = inhibit,
                   !.limit = Limit, !.at = IF Limit = 0 THEN "close" ELSE "fetch",
                   !.mem0 = mem, !.disk0 = disk]
    /\ UNCHANGED <<latch, go, regs, locked, disk, mem, faults>>

StartPoll ==
    /\ PollMayRun /\ go /\ ~xfer.on
    /\ RunSimple \/ RefuseTransfer \/ BeginTransfer

----------------------------------------------------------------------------
(* The loop of rk_transfer, rl_exec_xfer, rh_transfer and xp_transfer. *)

Buffered == kind # "rk"
SectorOf(n) == xfer.da + n \div WordsPerSector
Address(n) == IF xfer.inh THEN xfer.ba ELSE (xfer.ba + n) % AddrWords

\* An access to the image succeeds, or one of the bounded failures occurs.
Access(ok) == ok \/ faults < MaxFaults
CountFault(ok) == faults' = IF ok THEN faults ELSE faults + 1

\* Mutant of Break: the word that failed is counted as moved.
BreakCounted(e) ==
    /\ er' = WithErrors({e})
    /\ xfer' = [xfer EXCEPT !.n = @ + 1, !.at = "close", !.err = TRUE]

\* The loop ends with an error.
Break(e) ==
    /\ er' = WithErrors({e})
    /\ xfer' = [xfer EXCEPT !.at = "close", !.err = TRUE]

\* Write the sector buffer to the image.
Flushed(b) == [disk EXCEPT ![xfer.drive][xfer.lba] = b]

\* At the first word of a sector: the XP writes the sector before, then all but
\* the RK11 read the new one; the RH11 first looks at the sector and head.
FetchSector(ok) ==
    /\ xfer.at = "fetch"
    /\ Access(ok) /\ CountFault(ok)
    /\ UNCHANGED mem
    /\ \/ /\ kind = "rh" /\ xfer.da = BadDa /\ ok
          /\ Break("BadAddress")
          /\ UNCHANGED disk
       \/ /\ ~(kind = "rh" /\ xfer.da = BadDa) /\ ~ok
          /\ Break("MediumFault")
          /\ UNCHANGED disk
       \/ /\ xfer.dirty /\ ok
          /\ disk' = Flushed(xfer.buf)
          /\ xfer' = [xfer EXCEPT !.dirty = FALSE]
          /\ UNCHANGED er
       \/ /\ ~(kind = "rh" /\ xfer.da = BadDa) /\ ~xfer.dirty /\ ok
          /\ xfer' = IF Buffered
                     THEN [xfer EXCEPT !.at = "move", !.lba = SectorOf(xfer.n),
                                       !.buf = disk[xfer.drive][SectorOf(xfer.n)]]
                     ELSE [xfer EXCEPT !.at = "move"]
          /\ UNCHANGED <<er, disk>>

\* Where the loop goes after n words.
After(n) ==
    IF n % WordsPerSector = 0 /\ kind # "xp" THEN "sector"
    ELSE IF n = xfer.limit THEN "close"
    ELSE IF n % WordsPerSector = 0 THEN "fetch" ELSE "move"

\* The transfer with one more word moved.
OneMore == [xfer EXCEPT !.n = @ + 1, !.at = After(xfer.n + 1)]

\* One word.  Missing memory and, but for the RK11, a mismatch end the loop
\* before the word is counted.  The RK11 goes to the image for every word.
MoveWord(ok) ==
    LET n == xfer.n
        k == n % WordsPerSector
        a == Address(n)
        word == IF Buffered THEN xfer.buf[k] ELSE disk[xfer.drive][SectorOf(n)][k]
        missing == xfer.fn # "verify" /\ a \notin Mem
        differs == xfer.fn = "check" /\ a \in Mem /\ mem[a] # word
    IN  /\ xfer.at = "move"
        /\ Access(ok) /\ CountFault(ok)
        /\ \/ /\ ~ok /\ ~Buffered /\ ~(xfer.fn = "write" /\ missing)
              /\ Break("MediumFault")
              /\ UNCHANGED <<disk, mem>>
           \/ /\ ok /\ missing
              /\ Break("NoMemory")
              /\ UNCHANGED <<disk, mem>>
           \/ /\ ok /\ differs /\ Buffered
              /\ Break("Mismatch")
              /\ UNCHANGED <<disk, mem>>
           \/ /\ ok /\ ~missing /\ xfer.fn = "read"
              /\ mem' = [mem EXCEPT ![a] = word]
              /\ xfer' = OneMore
              /\ UNCHANGED <<er, disk>>
           \/ /\ ok /\ ~missing /\ xfer.fn = "write" /\ Buffered
              /\ xfer' = [OneMore EXCEPT !.buf[k] = mem[a], !.dirty = TRUE]
              /\ UNCHANGED <<er, disk, mem>>
           \/ /\ ok /\ ~missing /\ xfer.fn = "write" /\ ~Buffered
              /\ disk' = [disk EXCEPT ![xfer.drive][SectorOf(n)][k] = mem[a]]
              /\ xfer' = OneMore
              /\ UNCHANGED <<er, mem>>
           \/ /\ ok /\ ~missing /\ xfer.fn \in {"check", "verify"} /\ ~(differs /\ Buffered)
              /\ er' = WithErrors(IF differs THEN {"Mismatch"} ELSE {})
              /\ xfer' = OneMore
              /\ UNCHANGED <<disk, mem>>

NextSector ==
    [xfer EXCEPT !.cur = @ + 1, !.lba = NoSector, !.dirty = FALSE,
                 !.at = IF xfer.n = xfer.limit THEN "close" ELSE "fetch"]

\* After the last word of a sector: the RK11 steps its disk address, which
\* stays on the last sector of the drive; the RL11 and RH11 write the buffer.
EndSector(ok) ==
    /\ xfer.at = "sector"
    /\ Access(ok) /\ CountFault(ok)
    /\ UNCHANGED mem
    /\ \/ /\ kind = "rk" /\ ok /\ xfer.cur + 1 >= Sectors
          /\ er' = WithErrors(IF xfer.n = xfer.limit THEN {} ELSE {"Overrun"})
          /\ xfer' = [xfer EXCEPT !.at = "close"]
          /\ UNCHANGED disk
       \/ /\ kind = "rk" /\ ok /\ xfer.cur + 1 < Sectors
          /\ xfer' = NextSector
          /\ UNCHANGED <<er, disk>>
       \/ /\ Buffered /\ xfer.dirty /\ ~ok
          /\ Break("MediumFault")
          /\ UNCHANGED disk
       \/ /\ Buffered /\ ok
          /\ disk' = IF xfer.dirty THEN Flushed(xfer.buf) ELSE disk
          /\ xfer' = NextSector
          /\ UNCHANGED er

\* The rest of a sector the RL11 wrote in part is zero.
ZeroFill ==
    /\ kind = "rl" /\ xfer.fn = "write" /\ ~xfer.err
    /\ xfer.n % WordsPerSector # 0
LastBuffer ==
    [k \in Offsets |-> IF ZeroFill /\ k >= xfer.n % WordsPerSector THEN Zero ELSE xfer.buf[k]]

\* The sectors n words touch, the last one perhaps in part.
SectorsTouched(n) == (n + WordsPerSector - 1) \div WordsPerSector

\* The images d when the flush at the end of a write fails.  The host has taken k
\* words of the last sector and not the rest; the sectors before it were forced
\* out as the file was positioned for the next.
Unflushed(d, k) ==
    LET s == SectorOf(xfer.n - 1)
        old == xfer.disk0[xfer.drive][s]
    IN  [d EXCEPT ![xfer.drive][s] =
            [j \in Offsets |-> IF j < k THEN d[xfer.drive][s][j] ELSE old[j]]]

\* After the loop: what is left in the buffer is written, a write is flushed,
\* the registers take the place reached, and the command finishes.  A failed
\* write is shown; nobody looks at the result of the flush.
CloseTransfer(ok) ==
    LET n == xfer.n
        dirty == xfer.dirty \/ ZeroFill
        written == IF dirty THEN Flushed(LastBuffer) ELSE disk
        short == IF kind = "rl" /\ ~xfer.err /\ xfer.wc > xfer.limit THEN {"Overrun"} ELSE {}
        past == da + SectorsTouched(n)
    IN  /\ xfer.at = "close"
        /\ Access(ok) /\ CountFault(ok)
        /\ \/ ok /\ disk' = written /\ er' = WithErrors(short)
           \/ ~ok /\ dirty /\ disk' = disk /\ er' = WithErrors({"MediumFault"})
           \/ /\ ~ok /\ xfer.fn = "write" /\ n > 0
              /\ \E k \in Offsets : disk' = Unflushed(written, k)
              /\ er' = WithErrors(short)
        /\ wc' = xfer.wc - n
        /\ ba' = Address(n)
        /\ da' = CASE kind \in {"rk", "rh"} -> xfer.cur
                   [] kind = "rl" -> past
                   [] kind = "xp" -> IF n > 0 /\ past >= Sectors THEN Sectors - 1 ELSE past
        /\ Finish
        /\ xfer' = IdleXfer
        /\ UNCHANGED <<fn, drive, inhibit, mem>>

TransferStep ==
    /\ PollMayRun /\ xfer.on
    /\ \E ok \in BOOLEAN :
          \/ /\ FetchSector(ok) \/ MoveWord(ok) \/ EndSector(ok)
             /\ UNCHANGED <<latch, go, regs>>
          \/ CloseTransfer(ok)
    /\ UNCHANGED locked

Poll == (StartPoll \/ TransferStep) /\ UNCHANGED <<kind, half, cmds, writes>>

Next == Processor \/ Poll

Spec == Init /\ [][Next]_vars

\* The host's loop polls after every instruction, and core 0 of the Pico does
\* nothing else: the poll runs again and again, however often it is held up by
\* a store; the processor finishes a store it began.
FairSpec == Spec /\ SF_vars(Poll) /\ WF_vars(half # <<>> /\ Processor)

----------------------------------------------------------------------------
(* Properties *)

\* A controller is busy or shows DONE, never both or neither, and requests an
\* interrupt only with DONE: the GO bit (rl_busy) and the latch, which different
\* functions set and clear, never part, and a program waiting for either wakes.
BusyOrDone ==
    /\ go = ~latch.done
    /\ latch.irq_req => latch.done
    /\ xfer.on => go

\* What the words moved so far leave: word i of the transfer is read from, or
\* written to, word i after the disk address, at the i-th bus address; nothing
\* else changes.
Original(i) == xfer.disk0[xfer.drive][SectorOf(i)][i % WordsPerSector]
MemAfter(n) ==
    [a \in Mem |->
        LET I == {i \in 0 .. n - 1 : Address(i) = a}
        IN  IF xfer.fn = "read" /\ I # {}
            THEN Original(CHOOSE i \in I : \A j \in I : j <= i) ELSE xfer.mem0[a]]
DiskAfter(n, filled) ==
    [u \in Drives |-> [s \in ImageSectors |-> [k \in Offsets |->
        LET i == (s - xfer.da) * WordsPerSector + k
        IN  IF xfer.fn = "write" /\ u = xfer.drive /\ i \in 0 .. n - 1
            THEN xfer.mem0[Address(i)]
            ELSE IF xfer.fn = "write" /\ u = xfer.drive /\ i \in n .. filled - 1
            THEN Zero ELSE xfer.disk0[u][s][k]]]]

\* No controller but the RH11, which does not look at the cylinder, writes past
\* the end of the drive.
InsideTheDrive ==
    kind # "rh" =>
        \A u \in Drives, s \in ImageSectors : s >= Sectors => disk[u][s] = InitialDisk[u][s]

\* The words asked of the images, and what they may hold after a transfer that
\* shows no error: all of the words (and zeros to the end of the sector on the
\* RL11), but for the end of the last sector when the flush failed, a failure
\* no controller shows.
Asked == IF TooLong(xfer.wc) THEN 0 ELSE xfer.wc
Filled == IF kind = "rl" THEN SectorsTouched(Asked) * WordsPerSector ELSE 0
DiskKept(d, flushed) ==
    LET wanted == DiskAfter(Asked, Filled)
    IN  IF flushed THEN d = wanted ELSE \E k \in Offsets : d = Unflushed(wanted, k)

\* A transfer that ends with no error shown has moved every word asked for, none
\* beside them, and when it ended inside the drive on whole sectors has left the
\* disk address where the next transfer continues.  The code breaks this claim in
\* two places, which are allowed by name: a count too long for the RH11 moves
\* nothing, but leaves the count register as it was; and the result of the last
\* flush is ignored.  A transfer that ran out of memory shows the missing address,
\* so that the program can go on from there.
TransferHonest ==
    [][xfer.on /\ ~xfer'.on =>
        /\ er' = {} =>
              /\ wc' = IF TooLong(xfer.wc) THEN xfer.wc ELSE 0
              /\ mem' = MemAfter(Asked)
              /\ DiskKept(disk', faults' = faults)
              /\ Asked % WordsPerSector = 0 /\ SectorOf(Asked) < Sectors =>
                    da' = SectorOf(Asked)
        /\ "NoMemory" \in er' /\ kind # "rk" => ba' \notin Mem]_vars

\* The image of a drive that is write-locked, or was opened for reading only, is
\* never written.
ProtectedKept ==
    [][\A u \in Drives : u \in locked \cup ReadOnly => disk'[u] = disk[u]]_vars

\* A command that ends while interrupts are enabled requests one, whatever
\* requests and grants went before it.
CompletionInterrupts ==
    [][go /\ ~go' /\ latch.ie /\ latch'.ie => latch'.irq_req]_vars

\* Every command started ends.
CommandEnds == go ~> latch.done

\* No transfer runs on another drive than the one the store that started it
\* selects.
RunsOnSelectedDrive ==
    xfer.on /\ half # <<>> => half[1].drive = xfer.drive

=============================================================================
