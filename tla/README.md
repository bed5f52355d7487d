# A TLA+ model of k1801vm1

k1801vm1 emulates PDP-11 processors of the K1801 family and the J-11, and the
machines built around them: a UNIBUS/Q-bus system with consoles, clocks, disks
and tapes (`lsi11`), the same system on a Raspberry Pi Pico (`pico-lsi11`), an
MK-90 pocket computer (`mk90`), a BK-0010-01 (`bk0010-01`) and tools around
them. This directory models the parts in which several things happen at once,
on the host's single loop and on the Pico's two cores: the path of an interrupt
from a device to the handler, the ring protocol of the MSCP and TMSCP
controllers, the register-controlled disks and the terminal multiplexer; the
parts of the processor in which one step meets many conditions: memory
management with its fast path, an instruction whose accesses are refused, and
the arithmetic of words; and the two places where an image is written piece by
piece and a write may fail anywhere: the tape drive, and the tool that changes an
RT-11 volume.

## 1. Inventory

### The machine

A CPU core (`core/core.c`) executes one instruction in `core_step` and calls
back into an adapter (`lsi11/adapter_core.c`) for memory, for the RESET
instruction, and for a pending interrupt. The adapter holds the memory, the
devices and the table of interrupt sources. The main loop calls
`lsi11_poll_devices_steps` between batches of instructions. On the Pico core 1
calls `core_step` and core 0 polls; a spinlock (`io_lock.h`) guards register
accesses and the arbiter, and the polls of the simple devices but **not** those
of the disks and tapes, which `adapter_core.c:693` moves behind the release, and
**not** the bus reset of core 1 (`impl_reset`, `adapter_core.c:558`).

| component | state it keeps | operations | interacts with |
|---|---|---|---|
| interrupt latch and arbiter (`irq_latch.h`, `irq.c`) | DONE, IE, request, armed of each device; the table of sources | DONE event, clear, IE, grant; `irq_poll` | devices write the latch, the core polls, the acknowledge callback writes back |
| CPU core (`core.c`) | registers, PSW, PIRQ, wait flag, stack pointers of three modes | `core_step`: operands, results, traps, vectors | adapter callbacks |
| memory management (`core.c`, decode in `bus.c`) | page registers, SSR0 to SSR3, the table of the fast path | data and instruction accesses, stores to its own registers | CPU core, bus |
| console, printer, line clock (`dev_dl11.c`, `dev_lp11.c`, `dev_kw11.c`) | CSR bits, one character, ticks | byte register accesses, polls | latch, host terminal and clock |
| programmable clock KW11-P (`dev_kw11.c`) | count, buffer, mode, second request on the source of the L clock | register accesses, pulses | latch, arbiter |
| terminal multiplexer DZ11 (`dev_dz11.c`) | silo, scanner, line parameters | register accesses, polls of sockets | latch, sockets |
| MSCP port (`dev_rq11.c`), TMSCP port (`dev_tq11.c`) | start-up state, ring indices, credits, units, attention flags | SA and IP accesses, poll, commands | guest memory (rings), images, arbiter |
| tape drive (`dev_tq11.c`) | the image, the host file's position and `tape_pos` beside it, on line, write protection | read, write, write mark, space, rewind, on line, available | TMSCP port, image |
| RK11, RL11, RH11, XP | registers, latch, GO, one running command | byte register accesses, poll, reset | guest memory, images, arbiter |
| bus, UNIBUS map (`bus.c`, `ubmap.c`, `devio.c`) | memory, map registers | byte and word accesses, DMA | everything |
| FP11, disassembler | - | pure functions of their operands | CPU core, user |
| file-system tools (`lsi11/tools`) | images of RT-11 and RSX-11 volumes: directory segments, blocks | list, extract, add, remove, protect, squeeze, check, initialise | files |
| Pico port | two cores, menus, SD card | main loops | all devices |
| MK-90 | memory packs, clock, LCD, keyboard | serial commands, alarm | CPU core |
| BK-0010-01 | video, keyboard, tape | pulse decoding | CPU core |
| HG host disk (`lsi11-fpga/host/hg`) | requests of an FPGA, image | request and answer | USB |

`PROJECT.json` lists every component with its files and its status.

### What is hard in it, and what makes each part correct

* **Interrupts.** A request is raised by a poll, changed by register writes,
  granted by the arbiter and taken by the core, each with conditions of its own.
  Correct means: none lost, none granted twice for one event, none granted and
  then refused, the highest first, handlers nested by rising level, no
  character overwritten, the clock served in the end.
* **MSCP/TMSCP port.** Two rings in memory are shared with a driver, by OWN
  bits. Correct means: the port writes only its own slots; every command is
  answered once, in order, and in the end; credits are neither lost nor made;
  no answer is left without an interrupt; no command left without a poll; no
  answer crosses a reset.
* **Tape drive.** The position is kept twice, in the host's file and in `tape_pos`, and
  a command that fails in the middle of a record moves the one and not the other.
  Correct means: through any sequence of commands, failures and resets the image is a
  reel of records and marks with a head, or the head is known to be lost; a write touches
  nothing before the position the controller reports, as long as that is not ahead of the
  file, which only a failed write may leave it.
* **Disks.** GO, DONE and the request are kept apart, in different places, and a
  transfer has many ends: the count, the end of the track or drive, missing
  memory, a failed read or write, a mismatch. Correct means: busy or done,
  never both or neither; every completion interrupts; no error shown means that
  memory and image hold every word asked for (two faults of the code excepted, which
  section 3 lists); nothing past the drive and
  nothing on a protected drive is written; every command ends.
* **Terminal multiplexer.** One scanner and one silo serve eight lines, and
  every look at the flags changes them. Correct means: TRDY speaks for a line
  that may transmit, no transmit interrupt is lost or repeated, the receive
  flags are exact, and characters keep their order.
* **Memory management.** A store to a page register goes through a page, and the
  table that answers most accesses is rebuilt only there. Correct means: every
  entry is the one the registers give, and a hit is what translation would have
  done.
* **An instruction cut off.** The trap of a refused access is taken inside the
  access, and the code that made it has to notice. Correct means: the handler is
  entered with the PSW of its vector, and
  finds the machine as it was but for the moves MMR1 records; no other mode's
  stack moves; a program leaves its mode by a trap only; an acknowledged
  interrupt and a stack trap are delivered.
* **Arithmetic.** V and C come from conditions on signs, each instruction its
  own. Correct means: signed and unsigned arithmetic, order after CMP, `n` shifts
  of one bit, and a quotient with its remainder.
* **Volumes.** Blocks and directory are written apart, and two failures of a read
  pass for something else (a name that is not there, the end of the host file).
  Correct means: a request is answered "done" with its whole effect on the files or
  not at all, no other file is spoilt even by a failure that went unnoticed, the segments
  stay exact, and a squeeze cut short spoils only what it must.
* **Two cores.** The polls of the disks and tapes run outside the lock, and so does a
  bus reset. Three of the findings in section 3 are consequences.

The hazards, each at its line with the properties that watch it, are in
`PROJECT.json`; those no property watches yet say why.

## 2. Modules

| module | stands for | how its state corresponds |
|---|---|---|
| `IrqLatch` | `irq_latch.h` | one operator per inline function, on the record `irq_latch_t` |
| `Interrupts` | `irq.c`, `dev_dl11.c`, `dev_lp11.c`, the L clock of `dev_kw11.c`, and the interrupt part of `core_step` | `latch`, `rxbuf`, `kw` are the devices; `pirq`, `psw`, `wait` the core; `frames` the guest's stack; `stepEnd` says `core_step` is at its end-of-instruction test; `polling` is where core 0 is in its poll, which holds the lock; `resetting` the stores a RESET has still to make; `last`, `consumed`, `disturbed` are history |
| `CommandPort` | the promise of an MSCP port: a queue in, a queue out | abstract |
| `Uqssp` | the port of `dev_rq11.c` and `dev_tq11.c` | the `rq_*` variables under their names; `pc`, `left`, `held`, `reply` are the locals of a poll in progress; `cmdRing`, `rspRing`, `flags` are guest memory; the rest is the driver |
| `UqsspMC` | - | the sets of SA words the runs use |
| `Reel` | what a tape drive promises: records and marks, a head between two of them, or lost | abstract |
| `TapeImage` | the tape commands of `dev_tq11.c` and the `.tap` format | `cells` is the file in words of 16 bits; `fp` the host's position, `pos` is `tape_pos`; `online`, `readOnly`, `swProtect` under their names; `tape`, a history, is the image read as objects |
| `TapeImageMC` | - | six images, and the view |
| `Disks` | `dev_rk11.c`, `dev_rl11.c`, `dev_rh11.c`, `dev_xp.c` | `kind` selects the controller; `latch`, `go`, `fn`, `drive`, `wc`, `ba`, `da`, `er` are its registers; `xfer` holds the locals of its transfer loop; `half` the store of which only the low byte has arrived; `disk`, `mem` the words |
| `Dz11` | `dev_dz11.c` | `dz` holds the bits of the CSR (`ctl`, `rx`, `tx`), TCR, the receivers and the silo; `taken` says how far the sockets were read; `read`, `seen`, `last` are history |
| `Mmu` | memory management in `core.c`, its registers, and the decode of `bus.c` | `apr`, `ssr0`, `ssr3`, `psw` are the registers; `tlb` is `mmu_tlb`, with host pointers as offsets in RAM |
| `MmuMC` | - | 4 MB of RAM, values of page registers and the offsets accessed |
| `Cpu` | `core_step` of a J-11 | the record `m` is the state of the core; a step threads it through operators named for the functions; `m.fails` numbers the accesses that are refused, `m.did` what the step did; the other register set is `NoBank` until the first switch copies the registers to it (`Banks`) |
| `CpuMC` | - | operands, instructions, PSWs, refusals, and the view |
| `Alu` | the arithmetic cases of `core_step` | `r` is a register pair, `cc` the condition codes |
| `FileStore` | what a user of `rt11tool` is promised: for each name its files, contents and protection, a request, an answer; and what a read that failed unnoticed (`hidden`) may do to the file being added | abstract |
| `Rt11Volume` | `tools/rt11fs.c` | `dir` holds the segments in the order of their chain, `data` the blocks; `job` the locals of a request in progress; `req`, `said` the user's side |
| `Rt11VolumeMC` | - | four volumes |
| `NumberLemmas` | - | the least of a set of naturals, remainders and quotients |
| `Interrupts_proof`, `Disks_proof`, `Dz11_proof`, `Mmu_proof`, `Alu_proof`, `Uqssp_proof`, `Cpu_proof` | - | theorems |

`map` in `PROJECT.json` ties every definition to its lines.

### Steps

* `Interrupts`: a guest instruction is one step and leaves the core at its
  interrupt test (`StepEndIrq`, `StepEndNone`), which a J-11 repeats until
  nothing is accepted. On the host the devices are polled only when no test is
  due; with `DualCore` at any moment. A register access and an arbiter call are
  atomic, because both take the lock. A poll of the receiver or the clock is a step per
  store (`Dl11Poll`, `PollChar`, `PollDone`, `PollRequest`, `PollDisarm`; `KwTick`,
  `PollTick`) and holds the lock throughout. A RESET takes no lock: it is a step per
  store into what core 0 may touch at the same time (`ResetStore`), in any order within
  one device's function, because the fields are plain memory, and with `DualCore` any of
  them falls between any two steps of a poll; the PIRQ, the transmitter and the printer, which
  no poll touches, go with its first step. `disturbed` notes that a RESET and a
  poll of the receiver have overlapped, until the program clears the receiver's DONE. The guest
  is any program that obeys two rules: a vector loads the priority of the source that uses
  it, and a handler does not lower the priority below that.
* `Uqssp`: a poll is a sequence of steps, one per access to a word that the
  guest can change (`PollAttention` ... `PollStop`). With `DualCore` the
  driver, the register accesses and resets come between any two of them. The command
  `"void"` is one that is performed, and has its credits taken, before the port finds that the
  answer's address is in no memory, and fails. The driver is external, modelled from what the port expects: it posts in slots
  whose OWN bit is clear, returns the slots it has read, and reads IP after
  posting and, while it waits for an answer, after returning.
* `TapeImage`: a step is one command, because the port serves one after the other and
  nothing else touches the image; a reset comes between two. In a write that fails the host
  accepts any number of words into its buffer, by whose pieces `tape_pos` moves, and any
  part of these reaches the file: fewer when the flush at the end is what fails.
* `Disks`: a word store is two byte stores, each under the lock, `StoreLow` and
  then `StoreHigh`. A poll is one step up to the first word, then one step per
  word and one per access to the image, any of which may fail; the flush that ends a write
  may fail too, which leaves any part of the last sector in the image (the seek to a sector has
  written the ones before), and no controller looks
  at its result. `SignedWords` is the largest count the RH11 takes for one (2^15). On the host the
  processor stands still while `xfer.on`, so the steps of a transfer are atomic
  for it, and the poll waits for the second half of a store.

* `Dz11`: a program's access, an arbiter's look and a poll are one step each, in
  any order; a word store is its two byte stores one after the other, because
  the multiplexer has lines only on the host, where nothing comes between them.
* `Mmu`: a step is one access of one width at one offset, by the table if it
  hits and by translation and decode if not; a store may land in the registers
  of the page it goes through. `WritePsw` and an abort change the mode.
* `Cpu`: a step is one call of `core_step`. Which of its accesses are refused,
  and by whom, is chosen at the start; the operators then do what the code does
  with the flag `fAbort`: look at it, or go on. `Finish` is `step_end`. The codes are not
  modelled, but that MTPI and MTPD set them in the PSW of the vector after a refused store is
  (`Codes`); CSM is its pushes, the change of mode (`EnterSupervisor`) and the load of its new PC,
  which may be refused and is put in R7 all the same.
* `Alu`: a step is one instruction on the pair or on a register of it, with any
  operand; the properties quantify over all operands in each state.
* `Rt11Volume`: a step writes one block or one segment; `Fail` may end a request
  at any step, with the block about to be written torn or as it was. Two failures
  do not end it: of the lookup before an addition (`AddBegin`), taken for "not there", and
  of a read of the host file (`HostFails`), whose blocks are then zeros. Requests come
  one at a time, as the tool serves one per run.

### What is abstracted

Characters are numbers in order of typing; ticks are counted. A disk address is
a sector number, with one value for a field out of range; memory and the images
are a few distinct words, so that a word in the wrong place shows; errors are
named for what they report. Of the MSCP commands the model has SET CONTROLLER
CHARACTERISTICS, ON LINE, AVAILABLE, a read that succeeds or fails, packets
at an address the port rejects, and commands whose answer has nowhere to go. An
attention message always has somewhere. The tape has one unit with an image attached; what its packets report
beyond status and counts is left out, and data is whole 16-bit words, so that the pad byte of an odd
record is the upper half of its last word and a file is cut between two words only. What the
host's library keeps of a failed write and may write later counts as written at once. The
same delay is not modelled of the disks, where it would come after a flush that failed.
Memory of the MSCP machine ends at
64 KB and slots of the rings are always readable. The history variables
(`last`, `consumed`, `disturbed`, `waiting`, `mem0`, `disk0`, `read`, `seen`) are read by no code action's guard.

`Mmu` has no contents of memory: what it compares is where an access goes and
whether it is allowed. `Cpu` has no results and no condition codes (they are
`Alu`'s): every word read has one value, and what matters is which registers,
stacks and frames a step changes; vectors themselves are always readable, because
a refused vector load of the code calls itself without end. `Alu` has words of
any width. In `Rt11Volume` a segment of two blocks is written whole, files lie
inside the volume and each segment ends with its end mark; a write
that stays in the C library's buffer and fails when the image is closed is not modelled
(`rt11_close_image` reports nothing, so the tool would say "done").

## 3. Runs

| run | question | bounds |
|---|---|---|
| `irq_j11` | On a J-11 polled by another core, with a RESET between any two stores of a poll: is no request lost or granted twice, do characters stay in order (the receiver excepted while such a RESET has disturbed it), do handlers nest by rising level? | console and clock, 2 characters, 1 tick (a second tick adds nothing: the first already meets every state of the latch); guest priority 0 with the handlers' own 4, 5, 6; one PIRQ level between the devices'; no bound on resets |
| `irq_vm1` | On a VM1, with a single mask bit and PSW\<10\>, a program that waits: is every acknowledged request taken, and the clock served in the end? | clock and printer, 2 ticks, guest priorities on both sides of the mask |
| `uq_disk` | A disk port on the host, started with any words: are credits kept, answers those of waiting commands, no command forgotten, and every command answered in the end? | 2 slots in each ring, so that both wrap and fill; 3 commands, among them one whose answer has nowhere to go; one reset, one command per poll so that the budget runs out |
| `uq_dual` | A tape port on the Pico, with attention messages: own slots only, announced answers, refinement of `CommandPort` | 2 units, 2 slots, 3 commands, one reset while no poll runs |
| `tape` | Whatever a guest sends a tape drive, and wherever a write fails: is the image a `Reel`, and is the position ahead of the file, where a write would reach back, from a failed write until it goes back and at no other time? | six images: blank, whole, with an odd record between marks, cut off in data, cut off in a trailer, ended by a marker; records of 2 and 3 bytes in chunks of 2, so that one has two chunks and a pad; 10 words; spacing over 2; 1 failed write |
| `disk_transfer` | All four controllers on the host: every property of section 1 | 2 sectors of 2 words, memory of 3 words (a transfer can pass every boundary), counts that end on and inside a sector, one of them more than the RH11 takes, three drives (two with an image, one of these read-only, one without), 2 commands, 2 stores, 1 failed access (a failed flush included) |
| `dz_scan` | The multiplexer under a program that stores anything anywhere: every property of section 1 | 2 lines, a silo of 2 that one recv can fill, 2 characters per line; no bound on the program |
| `mmu` | Under a program that loads page registers, SSR0, SSR3 and the PSW through page 7: is the table current and the fast path faithful? | 4 MB of RAM; the kernel's page in both spaces; bases at RAM, at the I/O page of either size and across its start; controls of two kinds; no bound on the number of accesses |
| `cpu` | Every instruction, with any of its accesses refused by memory management or the bus, interrupts, traces and stack traps: every property of section 1 | 3 instructions; registers modulo 16 with the stack limit at 8; modes on a register, the SP and the PC; two levels; refusals of the first, second, third and fifth access, and of two in a row |
| `alu` | Every register pair, operand, count and condition code: are the results those of arithmetic? | words of 4 bits, so all 256 pairs and all 16 operands; counts from -8 to 7, which reach past both ends of a word |
| `rt11` | Whatever a user asks of a volume, wherever a request is cut off and whichever read fails unnoticed: is the volume a `FileStore`, are the segments exact, what does a squeeze spoil? | 7 blocks, segments of 5 entries, files of 1 and 2 blocks, 4 requests, 1 failure, noticed or not; four volumes: new; with an area first, so that files move over themselves; with a tentative file in the second segment; longer than its directory says |

`cpu` is checked with a VIEW: states that differ only in the log of the last
step, in the PC (each step starts it at 0) and in register 0 (which only receives
results) are one. No step reads any of these, and no property looks at the
log of the state before, so the view hides no violation of these properties.

`tape` has a VIEW too, which leaves out the answer (no guard reads it, and the properties
look at the answer of the step just made only) and the history, which is a function of the image.

One run shows a program that does not do what the repository says of it:

| run | what happens | said at |
|---|---|---|
| `uq_lost_poll` | a read of IP between the poll's look at the empty ring and `rq_poll_pending = 0` (`dev_rq11.c:1380`) is erased, and the command stays | pico-lsi11/README.md:15-17 |

More disagreements were met. Those with a definition are stated beside
the properties, and TLC refutes each of them on instances of the size of
the runs above; no run is spent on them:

| definition | what happens | said at |
|---|---|---|
| `Interrupts!HighestFirst` | `core.c:745` offers a program request before it polls the devices: level 1 overtakes the clock's level 6 | README.md:197 |
| `Interrupts!IrqClearsWait` | WAIT sets its flag and then makes the end-of-instruction test (`core.c:4749`), which takes a vector and leaves the flag: the CPU waits at the first instruction of the handler | core_tests.c:2627 |
| `Interrupts!ReceiverProtected` (with `DualCore`) | `impl_reset` takes no `io_lock` (`adapter_core.c:558`): among the stores of `dl11_poll` it leaves DONE over an erased character, or a request without DONE and a disarmed latch, so that a handler is entered for nothing and the next character interrupts nobody; clearing DONE makes the receiver whole again | pico-lsi11/README.md:15 |
| `Disks!RunsOnSelectedDrive` (with `DualCore`) | RLCS starts its command with the low byte, and the drive comes with the high byte; a poll of the other core in between uses the old drive | pico-lsi11/README.md:15-17 |
| `Dz11!SentWhereRead` | the arbiter's look at the end of the instruction that read TLINE moves it (`dev_dz11.c:159`), and the character goes to the next line | lsi11/README.md:419 |
| `Mmu!IoPageNeverHit` | with 18-bit addresses and more than 256 KB of RAM the table holds RAM for the page the I/O page is decoded at (`core.c:1287`) | core.c:1290 |
| `Disks!TransferHonest`, without its exceptions | all four controllers ignore the result of the flush that ends a write (`dev_rk11.c:495`): data is lost and no error shown | dev_tq11.c:1021-1023 |
| `Disks!TransferHonest`, without its exceptions | `rh_transfer` takes its count for a signed word (`dev_rh11.c:467`): above 32768 words it ends at once, nothing moved and no error shown | dev_rk11.c:419, dev_xp.c:434 |
| `Cpu!FaultEntersHandler` | `pullw` (`core.c:678`) looks at no abort: after a refused pull RTS, RTI and RTT load the 0 it returns over the PC of the vector | core.c:4018 |
| `Cpu!FaultEntersHandler` | CSM loads its new PC and looks at the abort after it has put the 0 of a refused load in R7 (`core.c:3777`) | core.c:4018 |
| `Cpu!FaultEntersHandler` | MTPI and MTPD set N, Z and V after a refused store, in the PSW of the vector (`core.c:3932`, `3966`) | core.c:4018 |
| `Rt11Volume!NameOnce` | `rt11_add_file` takes a lookup that failed for "not there" (`rt11fs.c:1012`) and adds a file beside one of its name | rt11fs.c:1013 |
| - | a host file that cannot be read is added as zeros, and the answer is "done" (`rt11fs.c:1085`); `HostFails` shows it, and `FileStore` has it as an exception | - |
| `TapeImage!NeverAhead` | `tape_pos` moves with the pieces stdio accepts and stays there when the flush fails (`dev_tq11.c:1021`): it is ahead of the file, and the next write lands before it | - |
| `TapeImage!SpacesBack` | behind the end-of-medium marker (0xFFFFFFFF) the tape cannot be spaced back: the marker is taken for a length that is too long (`dev_tq11.c:896`) | lsi11/README.md:318-322 |
| - | MFPI SP with equal modes pushes the stack pointer saved at the last switch and not R6 (`core.c:648`); `FromPrevious` shows it | core.c:657 |

And four the models contain and nothing is spent on: `dev_rh11.c:730`
requests an interrupt when IE is set while ready, against lsi11/README.md:264;
a reset of the MSCP port does not stop a command half served on the other core,
whose answer then reaches the ring of the new start (`QuietReset = FALSE`
refutes `AnswersWaiting`; no property of the runs watches it, because they suppose that the
driver resets between two polls); a DZ11 program that clears TIE while a request is pending
gets none when it sets TIE again, which `TxRequestKept` allows for by name ("withdrawn");
and `squeeze` "refuses volumes with tentative files" (lsi11/README.md:127) only
when it reaches the segment that has one, with the segments before squeezed.

`CHECK_DEADLOCK FALSE` is set where the modelled system may stop: in the
`irq_*` runs a guest that waits at a raised priority has nothing to wake it
once the bounds on characters and ticks are used up; in the `uq_*` runs the
port and its driver rest when the last command is answered or the port is dead;
and in `cpu` and `rt11` the bounds on instructions and requests are used
up in the end.

### Fairness

* `Interrupts!FairSpec`: weak fairness of the end-of-instruction test and of
  the guest's instructions, because the main loop calls `core_step` for ever;
  strong fairness of `Rti`, because the clock is promised service only if
  handlers return. Nothing is assumed of the devices' polls. `ClockServed` promises
  nothing to a program that masks the clock for ever: it supposes that the
  core comes to its interrupt test again and again with a priority the clock beats.
* `Uqssp!FairSpec`: weak fairness of the poll, to which the main loop returns
  for ever; strong fairness of the driver's next steps, because on the host a poll
  takes the processor away from it again and again. Nothing is assumed of
  posting or of resets.
* `Disks!FairSpec`: strong fairness of the poll, which a store half done holds
  up again and again, and weak fairness of the second half of a store.

## 4. Proofs

`tlapm` checks every leaf. The assumptions are those the modules name for their
constants (`InterruptsAssumption`, `DiskAssumption`, `DzAssumption`, `MmuAssumption`,
`WordAssumption`, `PowersAssumption`, `CpuAssumption` and the six of `Uqssp`); the bounds on
characters, ticks, commands, stores and failures are arbitrary natural numbers.
Where a proof needs an induction it takes the least counterexample
(`NumberLemmas!LeastNatural`, from the well-foundedness of the naturals): the provers
cannot instantiate the library's induction theorems, whose parameter is an operator.

* `Interrupts_proof!TypeCorrect`: `Spec => []TypeOK`. Inductive as it stands,
  one step per action; the only delicate place is that the arbiter's `CHOOSE`
  has a value (`BestInCandidates`), by cases on the four sources.
* `Interrupts_proof!InterruptsFollowDone`: between polls and resets a request implies DONE and
  none is lost, for every machine, device set and bound, on one core or two, with a
  RESET falling anywhere into a poll; of the receiver as long as no RESET has overlapped
  one of its polls since its DONE was last cleared. Neither
  invariant is inductive: after a clear the next event must find the latch
  armed, and after a grant the request must stay away until something happens.
  `LatchInv` says so, source by source, at rest and in the middle: what a poll has stored
  (`RxAmidPoll`), what a RESET has still to store (`RxAmidReset`), and for the clock what is left
  when the two meet (`ClockOK`), which is always in order, because DONE of the clock is
  set by both. Nothing is known of a disturbed receiver; that the program's next clear mends it
  is `ClearedRx`.
* `Interrupts_proof!GrantedOnce`, from `LatchInv`: only a grant lengthens the stack
  (`OnlyGrantsTake`), the arbiter grants what is pending, and what is pending is done and
  ungranted, the disturbed receiver excepted. `AcknowledgedAlwaysTaken`: the tests of
  `irq_poll`, taken together, imply the
  core's (`OfferedAccepted`), and only a grant writes "grant" into the history.
* `Interrupts_proof!CharactersInOrder`, from `LatchInv` too, which ties the buffer to the
  characters typed and gone; the exception is the same.
* `Interrupts_proof!HandlersNest`: `NestingRises` says nothing of the priorities the frames save, to
  which RTI returns. `NestOK` adds them: no frame saves a priority below
  that of a handler under it. The assumption on the guest, that a handler does not lower
  its own priority, enters with `SetPsw` and nowhere else.
* `Disks_proof!HostBusyOrDone` and `HostCompletionInterrupts`, from the
  hypothesis `HostLoop` (the poll and the processor alternate). `BusyOrDone` is
  not inductive: a completion requests only if the latch is armed, which `Ready`
  adds, with the fact that no store is half done while a transfer runs. They
  rest on the types of the registers (`Types`) and the loop's own bound (`Counting`).
  On the Pico both can fail, when a reset meets a transfer, which is why the
  hypothesis is there.
* `Disks_proof!ProtectedDrivesKept`: on the host and on the Pico alike. A
  controller checks protection once, when a command starts, and writes later,
  so the invariant (`Allowed`) carries the check through the loop: a dirty
  buffer belongs to a write, a running write to a drive that is not
  protected. It holds on two cores because no register store locks a drive:
  only a command does, and two commands never run at once.
* `Dz11_proof!ReadyLineAlwaysEnabled`, `TxRequestAlwaysKept` and `TxInterruptsOnce`,
  for one to eight lines (TLINE has three bits) and a silo of any depth. `TxInv`
  relates the device and the history: an armed latch has seen no TIE since TRDY
  was set, one that is not armed has requested, and a request granted or
  withdrawn does not come back. An update of the flags re-establishes it from
  `Latched` alone (`UpdatedGood`), which is why a store to TCR or MSE that
  strands TLINE is harmless. That the scanner finds a line is `NextLineEnabled`; the
  least of at most eight numbers exists by cases (`LeastExists`).

* `Mmu_proof!MmuTypeCorrect`, `TlbNeverStale` and `FastPathIsFaithful`, for any
  RAM size, any devices and any values a program loads. `TlbCurrent` needs the types, and that
  the page registers of the reserved mode 2 stay as they were (they have no address, which
  the proof shows for each address range). A store goes through `Noted`, which may only
  take PDR\<W\> ahead of the table, hence `Lags`. That a hit is faithful then follows in each
  state from the table alone: the window of 8 KB is contiguous RAM because
  its first and last byte are, and no finalised address wraps in between.
* `Alu_proof!AluTypeCorrect`, `ArithmeticIsExact` and `BranchesAreOrder`, for words of
  any length, 8 and 16 bits included. Each instruction has one lemma of linear
  arithmetic on its value, V and C (`AddValues` and the like), from which its
  part of `ArithmeticExact` follows without the state. `PowersAssumption` is what the standard modules define `^`
  to be (twice the power before), which the provers do not know; that powers are positive
  and multiply is proved from it.
* `Alu_proof!ShiftsByStep`: ASH and ASHC by every count, for words of any length. The
  reference is a recursive function of shifts by one bit, so there is an invariant of
  its steps: after n shifts to the left the pair is what is left of x * 2^n below a double
  word, C is the last bit of what has gone, and V is clear as long as that and the sign
  repeat the sign of x (`Lefts`); after n to the right it is x divided by 2^n and rounded down
  (`Rights`). The code's masks then say the same: `Spill` for V and C of a left shift,
  for the word and the pair, `RightResult` for a right one.
* `Alu_proof!DivisionIsExact`: DIV as the C code writes it (absolute values, then
  signs) is division towards zero with the remainder's sign of the dividend, V is set
  exactly when no word is the quotient, and DIV takes back MUL. Uniqueness of
  quotient and remainder (`Euclid`) and the sign of a product are in `NumberLemmas`.
* `Dz11_proof!SiloAlwaysShown` and `AlwaysInOrder`, by one invariant, `RxInv`: the
  flags are those of the silo (`Shown`), and behind what the program read each line's
  characters stand in the silo in the order they were taken (`Kept`). The poll over all lines is a
  recursive function; that it keeps `Kept` line by line goes by the least line at
  which it would not.
* `Disks_proof!DrivesEndKept`: `InsideTheDrive` on the host and on the Pico. The loop's
  own position and the sector in its buffer are tied to the limit that was computed
  when the command started.

### The MSCP and TMSCP port

`Uqssp_proof` starts from windows of a ring: `Window(first, next, size, S)` says that the
slots in S are those from one index up to another, round the ring. `Windows` of the
invariant says it of the commands posted, between the port's index and the driver's,
and of the answers not collected. A full ring and an empty one have equal indices,
and the number of slots inside tells them apart.

* `TypesAlways` and `AnnouncedAlways` hold with two cores and resets at any moment.
* `WritesOwnSlots`, `AnswersWaitAlways`, `CreditsAlways` and `PortImplements` suppose
  `Quiet`: the driver resets the port between two polls. On the host it cannot do
  otherwise (`~DualCore`); on the Pico nothing but its own discipline
  makes it (`QuietReset`), and without it the properties fail (section 3).
* `NothingForgotten` supposes `~DualCore`: on the Pico it is false, as `uq_lost_poll` shows.

`RingInv` (types, windows, what a poll holds) gives the first; `CommandInv` adds that commands in the
ring and answers in the other are of different commands, all still waited for;
`CreditInv` adds that a poll carries no credit of its own, and counts credits
carried by messages as pairs (slot, number), so that the sum is a cardinality
(`Tokens`); it speaks of a port that is up (`UpStates`), because one that fails after it has taken
the credits of an answer keeps them; `ForgetInv` adds what a poll has seen of the ring. For the refinement
`Run` reads a queue off a window, and each of the five things that happen to a ring
(a command posted, answered; a message stored, collected; nothing) is one
step of `CommandPort` or none (`PostQueues`, `ReleaseQueues`, ...).

### An instruction of the J-11

In `Cpu_proof` a step is a chain of operators on a machine, so there is one lemma per
operator, relative to the machine `s` the step began at: `Running(x, s)` says that
the instruction is going on, with the PSW of `s` or, after a refused access, in kernel
mode with a frame; `Whole(x, s)`, for what comes after, that PSW, stacks and notes
are in order whether or not the instruction went to its end. The three predicates
inside are the properties: `Guarded`, `Stacked`, `Noted`.
`Ends(x, s)` is what an action leaves, with the invariant of all states,
`Machine`: types, and that outside kernel mode the stack pointers are kept
apart (`spInit`), without which a trap would copy the program's stack
pointer to the kernel.

* `MachineAlways`, `KernelEntryAlways`, `OtherStacksAlways`, `YellowAlways`, `OneLostAtMost` and
  `AbortCleanAlways`: for every size of a word, set of levels, program, PSW found on the stack and choice of
  refused accesses. `OneLostAtMost` follows the loop of interrupts at the end of
  an instruction to the turn in which one aborts (`InterruptsOwe`).
* `AbortCleanAlways` needs an invariant of the instruction half done: `Unwound(x, s, n)` says
  that nothing was refused so far, that PSW and kept stack pointers are those of `s`,
  and that register 1 and the stack pointer less the moves in MMR1 are those of `s`, with
  at most `n` moves. Each addressing mode adds one move (`n` counts them, because MMR1 has room for
  two, and a third would be lost), and a refused access of such a machine, which traps
  at once, leaves it `Restored`. What comes after the instruction (the stack trap, the trace
  trap, interrupts) keeps that (`Tidy`), because the core looks at the abort before
  each. Three things are excepted, which the code does not make safe and the table in section 3
  lists: a refused pull, the HALT instruction, and CSM once it is on the supervisor's stack
  (`CutOff`); the condition codes, which `Cpu` does not have, are left to `FaultEntersHandler`.
  The proof covers refusals by the bus and by memory management alike; the
  property speaks of the latter, whose handlers retry.
* `CpuAssumption` asks that a word is larger than the stack limit, that levels are
  those of the processor, and that operands, values and PSWs are ones
  the processor can meet.

### Only model-checked

Liveness (`ClockServed`, `CommandAnswered`, `CommandEnds`), which the provers do
not reach. The refinements of `FileStore` and `Reel` and everything else
of `Rt11Volume` and `TapeImage`: their images are read by recursive operators.
`TransferHonest`, which compares all of memory with all of the image at the end
of a transfer; it is in the plan.

## 5. Not modelled

FP11 arithmetic (its state of 64-bit words is beyond TLC, and its rounding is stated
nowhere but in the code); disassembly and other formatting; command lines,
menus, displays and terminal settings (input and output done once); the RSX-11
volumes of `rsx11fs.c`, the MK-90, the BK-0010-01 and the HG protocol (in the plan);
Verilog and microcode of `lsi11-fpga` and `uJ11-fpga`; vendored code (`FatFs_SPI`,
`st7565_lcd`), which is more than a third of the repository's C.

Left out of modelled parts: connections and modem control of the DZ11; the KW11-P;
several units behind one MSCP or TMSCP port at the level of their images; attention bits and the register layout of the
disks; RL11 headers; of the core what the VM1 and VM2 do otherwise (HALT memory
included), logical instructions, and the register blocks of the 11/84; contents and
write errors at close of RT-11 volumes, chains with a loop, partitions; data races
below one C statement between the two cores.

## 6. Plan

In this order, the first ones being those with the most interaction left:

1. The KW11-P beside the L clock on one source, in `Interrupts`; attention bits of RH11 and
   XP, whose register a word store writes twice; connections of the DZ11.
2. `Bus`: I/O page decoding, UNIBUS map and DMA, with `Mmu` for the processor's side.
3. `Fp11` as functions on words of a few bits, like `Alu`, if a reference for its
   rounding can be stated.
4. `Smp` (the MK-90's memory packs), the BK-0010-01's tape decoder, the HG protocol, the
   RSX-11 volume.
5. Theorems: `TransferHonest` of `Disks`; the refinements of the volume and the tape, if their
   images are read by recursive functions in place of recursive operators.

Runs are kept to one per question; when a component is added, its variants
become values of a variable that `Init` chooses and no action changes, like
`kind` in `Disks`.
