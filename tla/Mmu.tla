-------------------------------- MODULE Mmu --------------------------------
(***************************************************************************)
(* Memory management of the J-11 (core/core.c) on the PDP-11/84 bus        *)
(* (lsi11/bus.c).  A data access first asks a table, mmu_tlb, that holds   *)
(* for each page register pair the legal offsets and a host pointer into   *)
(* RAM; a hit touches RAM and nothing else.  All other accesses translate  *)
(* the address and decode the physical one: CPU registers, device          *)
(* registers, RAM or nothing.  The table is rebuilt by writes to the page  *)
(* registers and to SSR0 and SSR3, which are themselves reached through    *)
(* pages, so what must hold between two accesses is that a hit is the      *)
(* access the long way would have made.                                    *)
(*                                                                         *)
(* Between two instructions the host sets the I/O windows of the bus from  *)
(* SSR0 and SSR3 (bus_iowin_sync_from_cpu), so the decode is a function of *)
(* them.  Memory contents are left out, and so is PDR<A>, which nothing    *)
(* here depends on, and a word access at an odd address, which traps       *)
(* before all else.  An abort's own references                             *)
(* (vector and frame) and its record in SSR0 are left to module Cpu: here  *)
(* it only changes the mode.                                               *)
(***************************************************************************)
EXTENDS Integers

CONSTANTS
    RamBytes,    \* bus_ram_bytes, also ram_fast_size
    Devices,     \* 16-bit addresses devices have registered (devio_has)
    Pages,       \* bound: the virtual pages of the accesses, within 0 .. 7
    Loadable,    \* bound: the page registers a program loads, a set of Entries
    Bases,       \* bound: values of a PAR
    Controls,    \* bound: values of a PDR, records of len, down and acf
    PswModes,    \* bound: modes the PSW is set to
    Splits,      \* bound: sets of modes with split I and D space
    Offsets      \* bound: offsets within a page of the accesses

Words == 0 .. \o177777
Word(n) == n % \o200000
PageBytes == \o20000
InPage == 0 .. PageBytes - 1         \* offsets within a page
Modes == 0 .. 3                      \* kernel, supervisor, illegal, user
Entries == Modes \X {0, 1} \X Pages  \* mode, I or D space, page

ASSUME MmuAssumption ==
    /\ RamBytes \in Nat
    /\ Pages \subseteq 0 .. 7
    /\ Bases \subseteq Words
    /\ Controls \subseteq [len : 0 .. 127, down : BOOLEAN, acf : {0, 2, 4, 6}]
    /\ Splits \subseteq SUBSET {0, 1, 3}
    /\ Offsets \subseteq InPage
    /\ PswModes \subseteq Modes
    /\ Loadable \subseteq {e \in Entries : e[1] # 2}

VARIABLES
    apr,     \* the PAR (base) and PDR (len, down, acf, and W as written) of each entry
    ssr0,    \* on: ENABLE
    ssr3,    \* m22e: 22-bit addresses; split: the modes with a D space of their own
    psw,     \* current and previous mode
    tlb      \* mmu_tlb: valid_min, valid_max, WRITE_ALLOWED, host_base as an offset in RAM

vars == <<apr, ssr0, ssr3, psw, tlb>>

-----------------------------------------------------------------------------
(* Addresses.                                                              *)

NoAddress == 0 - 1
IoStart16 == \o160000
IoStart18 == \o760000
IoStart22 == \o17760000
InIoPage(pa, start) == start <= pa /\ pa < start + PageBytes

EvenOffsets == {off \in Offsets : off % 2 = 0}

\* psw_mode_normalize, and dcj11_psw_prev_mode_mxpi for the previous mode.
Normal(mode) == IF mode = 2 THEN 0 ELSE mode
PrevMode(mode) == IF mode = 2 THEN 3 ELSE mode

\* mmu_phys_finalize
Finalize(pa, wide) == pa % (IF wide THEN \o20000000 ELSE \o1000000)

\* mmu_decode_parpdr: a mode's registers are its PDRs, then its PARs, I space first.
GroupOf == [m \in {0, 1, 3} |->
              CASE m = 0 -> \o172300 [] m = 1 -> \o172200 [] m = 3 -> \o177600]
PdrAddr(e) == GroupOf[e[1]] + 16 * e[2] + 2 * e[3]
ParAddr(e) == PdrAddr(e) + 32
Ssr0Addr == \o177572
Ssr3Addr == \o172516
PswAddr == \o177776

\* mmu_is_reg_address and the J-11's own register block, of which only the PSW matters here.
Internal(a) ==
    \/ a \in {Ssr0Addr, Ssr3Addr, PswAddr}
    \/ \E e \in Entries : e[1] # 2 /\ a \in {PdrAddr(e), ParAddr(e)}

\* The I/O page of the present address size: bus_iowin_sync_from_cpu for the devices
\* and for RAM, dcj11_io_alias_offset for the processor's registers.
IoStart == IF ~ssr0.on THEN IoStart16 ELSE IF ssr3.m22e THEN IoStart22 ELSE IoStart18

\* What answers at a physical address, a register or a device by its word:
\* raw_load_word_phys, then the bus.
Place(pa) ==
    LET a16 == IoStart16 + 2 * ((pa % PageBytes) \div 2)
    IN  IF InIoPage(pa, IoStart)
        THEN [kind |-> IF Internal(a16) THEN "register"
                       ELSE IF a16 \in Devices THEN "device" ELSE "none", at |-> a16]
        ELSE [kind |-> IF pa < RamBytes THEN "ram" ELSE "none", at |-> pa]

-----------------------------------------------------------------------------
(* The table.                                                              *)

\* mmu_split_enabled
Space(mode, data) == IF data /\ mode \in ssr3.split THEN 1 ELSE 0

Readable(pdr) == pdr.acf \in {2, 6}

\* Mutant of TlbOf: the last byte of the window is not looked at.
TlbOfFirstByte(r, wide) ==
    LET first == Finalize(r.base * 64, wide)
        ram   == ~InIoPage(first, IoStart22) /\ first + PageBytes <= RamBytes
    IN  IF ~Readable(r)
        THEN [lo |-> 0, hi |-> 0, write |-> FALSE, host |-> NoAddress]
        ELSE [lo    |-> IF r.down THEN r.len * 64 ELSE 0,
              hi    |-> IF r.down THEN PageBytes - 1 ELSE r.len * 64 + 63,
              write |-> r.written /\ r.acf = 6,
              host  |-> IF ram THEN first ELSE NoAddress]

\* mmu_tlb_update: the entry of a page register pair.
TlbOf(r, wide) ==
    LET first == Finalize(r.base * 64, wide)
        end   == Finalize(r.base * 64 + (PageBytes - 1), wide)
        ram   == /\ end - first = PageBytes - 1
                 /\ ~InIoPage(first, IoStart22) /\ ~InIoPage(end, IoStart22)
                 /\ first + PageBytes <= RamBytes
    IN  IF ~Readable(r)
        THEN [lo |-> 0, hi |-> 0, write |-> FALSE, host |-> NoAddress]
        ELSE [lo    |-> IF r.down THEN r.len * 64 ELSE 0,
              hi    |-> IF r.down THEN PageBytes - 1 ELSE r.len * 64 + 63,
              write |-> r.written /\ r.acf = 6,
              host  |-> IF ram THEN first ELSE NoAddress]

\* mmu_tlb_flush_all rebuilds every entry.
Flush(pages, wide) == [e \in Entries |-> TlbOf(pages[e], wide)]

\* mmu_tlb_ptr: the fast path answers for width bytes at an offset.
Hit(e, off, width, write) ==
    LET t == tlb[e]
    IN  /\ t.host # NoAddress
        /\ t.lo <= off /\ off + width - 1 <= t.hi
        /\ write => t.write

-----------------------------------------------------------------------------
(* Translation.                                                            *)

\* translate_va_ex and translate_va_mode_space, which agree but for the mode their
\* caller has normalised: the refusal, "none" when the access is legal.  The length
\* is judged before the access code.
Refusal(e, off, write) ==
    LET r     == apr[e]
        block == off \div 64
    IN  IF e[1] = 2 THEN "nonres"
        ELSE IF (~r.down /\ block > r.len) \/ (r.down /\ block < r.len) THEN "length"
        ELSE IF write /\ r.acf = 2 THEN "protect"
        ELSE IF (write /\ r.acf # 6) \/ ~Readable(r) THEN "nonres"
        ELSE "none"

\* The physical address of a legal access.
Physical(e, off) ==
    LET block == Word(apr[e].base + off \div 64)
    IN  Finalize(block * 64 + (off % 64), ssr3.m22e)

Init ==
    /\ apr = [e \in Entries |-> [base |-> 0, len |-> 0, down |-> FALSE, acf |-> 0,
                                 written |-> FALSE]]
    /\ ssr0 = [on |-> FALSE]
    /\ ssr3 = [m22e |-> FALSE, split |-> {}]
    /\ psw = [cur |-> 0, prev |-> 0]
    /\ tlb = Flush(apr, FALSE)

\* PDR<W> after an access to a page, legal or refused (mmu_note_write_pdrw).
Noted(pages, e, write) == [pages EXCEPT ![e].written = @ \/ write]

\* mmu_fault_trap: core_take_vector enters kernel mode.
Abort(e, write) ==
    /\ apr' = Noted(apr, e, write)
    /\ psw' = [cur |-> 0, prev |-> Normal(psw.cur)]
    /\ UNCHANGED <<ssr0, ssr3, tlb>>

\* Nothing answers, or the instruction stream runs into a register (bus_error_trap):
\* the trap enters kernel mode.
BusError == psw' = [cur |-> 0, prev |-> Normal(psw.cur)]

-----------------------------------------------------------------------------
(* Loads.                                                                  *)

\* core_load_byte_ex, core_load_word_ex, core_load_word_mode_space
Load(e, off, width, fetch) ==
    LET pa    == IF ssr0.on THEN Physical(e, off) ELSE PageBytes * e[3] + off
        fast  == ssr0.on /\ ~fetch /\ Hit(e, off, width, FALSE)
        there == Place(pa).kind
    IN  \/ /\ ssr0.on /\ ~fast /\ Refusal(e, off, FALSE) # "none"
           /\ Abort(e, FALSE)
        \/ /\ ssr0.on => fast \/ Refusal(e, off, FALSE) = "none"
           /\ IF ~fast /\ (there = "none" \/ (fetch /\ there = "register"))
              THEN BusError ELSE UNCHANGED psw
           /\ UNCHANGED <<apr, ssr0, ssr3, tlb>>

CpuLoad ==
    \E p \in Pages, off \in Offsets, width \in {1, 2} :
        (off % 2 = 0 \/ width = 1) /\ Load(<<psw.cur, Space(psw.cur, TRUE), p>>, off, width, FALSE)

\* The instruction stream: never the fast path, and from I space.
Fetch ==
    \E p \in Pages, off \in EvenOffsets : Load(<<psw.cur, 0, p>>, off, 2, TRUE)

\* MFPI and MFPD, and the loads of a vector, which are of kernel D space.
ModeLoad ==
    \E p \in Pages, off \in EvenOffsets, mode \in {PrevMode(psw.prev), 0}, data \in BOOLEAN :
        Load(<<mode, Space(mode, data), p>>, off, 2, FALSE)

-----------------------------------------------------------------------------
(* Stores.                                                                 *)

\* mmu_io_write_word.  Loading a PAR or a PDR clears the status bits of the PDR and
\* rebuilds the entry; SSR0 rebuilds the table when ENABLE changes.
\* pages holds the page registers as the store's own translation left them.
LoadPar(e, pages) ==
    \E base \in Bases :
        LET r == [pages[e] EXCEPT !.base = base, !.written = FALSE]
        IN  /\ apr' = [pages EXCEPT ![e] = r]
            /\ tlb' = [tlb EXCEPT ![e] = TlbOf(r, ssr3.m22e)]
            /\ UNCHANGED <<ssr0, ssr3, psw>>

LoadPdr(e, pages) ==
    \E c \in Controls :
        LET r == [base |-> pages[e].base, len |-> c.len, down |-> c.down, acf |-> c.acf,
                  written |-> FALSE]
        IN  /\ apr' = [pages EXCEPT ![e] = r]
            /\ tlb' = [tlb EXCEPT ![e] = TlbOf(r, ssr3.m22e)]
            /\ UNCHANGED <<ssr0, ssr3, psw>>

WriteSsr0(pages) ==
    \E on \in BOOLEAN :
        /\ ssr0' = [on |-> on]
        /\ tlb' = IF on # ssr0.on THEN Flush(pages, ssr3.m22e) ELSE tlb
        /\ UNCHANGED <<ssr3, psw>>

\* Mutant of WriteSsr3: the table is rebuilt only when a space is split.
WriteSsr3KeepsTable(pages) ==
    \E wide \in BOOLEAN, split \in Splits :
        /\ ssr3' = [m22e |-> wide, split |-> split]
        /\ tlb' = IF split # ssr3.split THEN Flush(pages, wide) ELSE tlb
        /\ apr' = pages
        /\ UNCHANGED <<ssr0, psw>>

WriteSsr3(pages) ==
    \E wide \in BOOLEAN, split \in Splits :
        /\ ssr3' = [m22e |-> wide, split |-> split]
        /\ tlb' = Flush(pages, wide)
        /\ apr' = pages
        /\ UNCHANGED <<ssr0, psw>>

\* A word stored into the PSW by its address, or a PSW loaded by RTI or by a trap.
SetPsw == \E cur, prev \in PswModes : psw' = [cur |-> cur, prev |-> prev]

\* A store that reached a register, made through entry e.  With the MMU off the status
\* bit of e is noted after the write (mmu_note_internal_reg_write), when the write may
\* have turned it on.
WriteRegister(a, e, pages) ==
    \/ /\ a = Ssr0Addr /\ WriteSsr0(pages)
       /\ apr' = IF ~ssr0.on /\ ssr0'.on THEN Noted(pages, e, TRUE) ELSE pages
    \/ a = Ssr3Addr /\ WriteSsr3(pages)
    \/ a = PswAddr /\ SetPsw /\ apr' = pages /\ UNCHANGED <<ssr0, ssr3, tlb>>
    \/ \E f \in Loadable : \/ a = ParAddr(f) /\ LoadPar(f, pages)
                           \/ a = PdrAddr(f) /\ LoadPdr(f, pages)

\* core_store_byte_ex, core_store_word_ex, core_store_word_mode_space
Store(e, off, width) ==
    LET pa    == IF ssr0.on THEN Physical(e, off) ELSE PageBytes * e[3] + off
        fast  == ssr0.on /\ Hit(e, off, width, TRUE)
        legal == ssr0.on => fast \/ Refusal(e, off, TRUE) = "none"
        pages == IF ssr0.on THEN Noted(apr, e, TRUE) ELSE apr
        there == Place(pa)
    IN  \/ ~legal /\ Abort(e, TRUE)
        \/ /\ legal /\ (fast \/ there.kind # "register")
           /\ apr' = pages
           /\ IF ~fast /\ there.kind = "none" THEN BusError ELSE UNCHANGED psw
           /\ UNCHANGED <<ssr0, ssr3, tlb>>
        \/ legal /\ ~fast /\ there.kind = "register" /\ WriteRegister(there.at, e, pages)

CpuStore ==
    \E p \in Pages, off \in Offsets, width \in {1, 2} :
        (off % 2 = 0 \/ width = 1) /\ Store(<<psw.cur, Space(psw.cur, TRUE), p>>, off, width)

\* MTPI and MTPD
ModeStore ==
    \E p \in Pages, off \in EvenOffsets, data \in BOOLEAN :
        LET mode == PrevMode(psw.prev)
        IN  Store(<<mode, Space(mode, data), p>>, off, 2)

-----------------------------------------------------------------------------
(* The rest of the processor.                                              *)

\* RTI, RTT and the traps of other instructions.
ChangeMode == SetPsw /\ UNCHANGED <<apr, ssr0, ssr3, tlb>>

\* The RESET instruction (dcj11_reset_instruction_state).
Reset ==
    /\ ssr0' = [on |-> FALSE]
    /\ ssr3' = [m22e |-> FALSE, split |-> {}]
    /\ tlb' = Flush(apr, FALSE)
    /\ UNCHANGED <<apr, psw>>

Next == CpuLoad \/ Fetch \/ ModeLoad \/ CpuStore \/ ModeStore \/ ChangeMode \/ Reset

Spec == Init /\ [][Next]_vars

-----------------------------------------------------------------------------
(* Properties.                                                             *)

PageRegisters ==
    [base : Words, len : 0 .. 127, down : BOOLEAN, acf : {0, 2, 4, 6}, written : BOOLEAN]
TlbEntry ==
    [lo : InPage, hi : InPage, write : BOOLEAN, host : {NoAddress} \cup 0 .. RamBytes]

\* The registers of mode 2 have no addresses and stay as they were at power-up.
TypeOK ==
    /\ apr \in [Entries -> PageRegisters]
    /\ \A e \in Entries : e[1] = 2 => apr[e].acf = 0
    /\ ssr0 \in [on : BOOLEAN] /\ ssr3 \in [m22e : BOOLEAN, split : SUBSET Modes]
    /\ psw \in [cur : Modes, prev : Modes]
    /\ tlb \in [Entries -> TlbEntry]

\* The table is never stale: whatever registers were loaded, through whichever path and
\* with the MMU on or off, each entry is the one its page registers give now; only the
\* leave to store may lag behind PDR<W>, never run ahead of it.
Lags(t, r, wide) == t \in {TlbOf(r, wide), [TlbOf(r, wide) EXCEPT !.write = FALSE]}
TlbCurrent == \A e \in Entries : Lags(tlb[e], apr[e], ssr3.m22e)

\* A hit is the access translation would have made: the same byte or word of RAM, legal
\* for the mode and the space, and neither a register nor a device.  Left out is the
\* page the 18-bit I/O page is decoded at, which IoPageNeverHit is about.
FastPathFaithful ==
    ssr0.on =>
    \A e \in Entries, off \in Offsets, width \in {1, 2}, write \in BOOLEAN :
        Hit(e, off, width, write) /\ (width = 1 \/ off % 2 = 0) =>
        /\ Refusal(e, off, write) = "none"
        /\ Refusal(e, off + width - 1, write) = "none"
        /\ Physical(e, off) = tlb[e].host + off
        /\ InIoPage(Physical(e, off), IoStart18) \/ Place(Physical(e, off)).kind = "ram"

\* "Never bypass I/O page ... through ram_fast": no hit in the I/O page of the present
\* address size.
IoPageNeverHit ==
    ssr0.on =>
    \A e \in Entries, off \in Offsets :
        Hit(e, off, 1, FALSE) => ~InIoPage(tlb[e].host + off, IoStart)

=============================================================================
