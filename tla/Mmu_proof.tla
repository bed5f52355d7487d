----------------------------- MODULE Mmu_proof -----------------------------
(***************************************************************************)
(* The fast path of memory management is faithful for every size of RAM,   *)
(* every set of devices and whatever a program loads: the table is current *)
(* (TlbCurrent), because every store that changes what an entry depends on *)
(* rebuilds it, and a current entry answers only for accesses translation  *)
(* would have allowed and sent to the same place.                          *)
(***************************************************************************)
EXTENDS Mmu, TLAPS

-----------------------------------------------------------------------------
(* Operators.                                                              *)

LEMMA FinalizeRange ==
    ASSUME NEW pa \in Nat, NEW wide \in BOOLEAN
    PROVE  Finalize(pa, wide) \in Nat
BY SMT DEF Finalize

LEMMA LimitsRange ==
    ASSUME NEW len \in 0 .. 127, NEW down \in BOOLEAN
    PROVE  /\ (IF down THEN len * 64 ELSE 0) \in InPage
           /\ (IF down THEN PageBytes - 1 ELSE len * 64 + 63) \in InPage
BY SMT DEF InPage, PageBytes

LEMMA Blocks == ASSUME NEW b \in Words PROVE b * 64 \in Nat
BY SMT DEF Words

LEMMA Registers ==
    ASSUME NEW r \in PageRegisters
    PROVE  /\ r.base \in Words /\ r.base * 64 \in Nat
           /\ r.len \in 0 .. 127
           /\ r.down \in BOOLEAN
           /\ r.acf \in {0, 2, 4, 6}
           /\ r.written \in BOOLEAN
<1>1. r.base \in Words /\ r.len \in 0 .. 127 /\ r.acf \in {0, 2, 4, 6}
  BY Zenon DEF PageRegisters
<1>2. r.down \in BOOLEAN
  BY Zenon DEF PageRegisters
<1>3. r.written \in BOOLEAN
  BY Zenon DEF PageRegisters
<1>4. r.base * 64 \in Nat
  BY <1>1, Blocks, Zenon
<1> QED BY <1>1, <1>2, <1>3, <1>4, Zenon

LEMMA TlbOfType ==
    ASSUME NEW r \in PageRegisters, NEW wide \in BOOLEAN, MmuAssumption
    PROVE  TlbOf(r, wide) \in TlbEntry
<1> DEFINE first == Finalize(r.base * 64, wide)
           end   == Finalize(r.base * 64 + (PageBytes - 1), wide)
           ram   == /\ end - first = PageBytes - 1
                    /\ ~InIoPage(first, IoStart22) /\ ~InIoPage(end, IoStart22)
                    /\ first + PageBytes <= RamBytes
           lo    == IF r.down THEN r.len * 64 ELSE 0
           hi    == IF r.down THEN PageBytes - 1 ELSE r.len * 64 + 63
           write == r.written /\ r.acf = 6
           host  == IF ram THEN first ELSE NoAddress
<1>1. first \in Nat
  BY Registers, FinalizeRange, Zenon
<1>2. lo \in InPage /\ hi \in InPage
  BY Registers, LimitsRange, Zenon
<1>3. host \in {NoAddress} \cup 0 .. RamBytes
  <2> HIDE DEF first, end
  <2>1. RamBytes \in Nat
    BY DEF MmuAssumption
  <2>2. ram => first + PageBytes <= RamBytes
    BY Zenon
  <2> HIDE DEF ram
  <2> QED BY <1>1, <2>1, <2>2, SMT DEF PageBytes
<1>4. TlbOf(r, wide) = IF ~Readable(r)
                       THEN [lo |-> 0, hi |-> 0, write |-> FALSE, host |-> NoAddress]
                       ELSE [lo |-> lo, hi |-> hi, write |-> write, host |-> host]
  BY Zenon DEF TlbOf
<1>5. write \in BOOLEAN
  BY Zenon
<1> HIDE DEF first, end, ram, lo, hi, write, host
<1>6. [lo |-> lo, hi |-> hi, write |-> write, host |-> host] \in TlbEntry
  BY <1>2, <1>3, <1>5 DEF TlbEntry
<1>7. [lo |-> 0, hi |-> 0, write |-> FALSE, host |-> NoAddress] \in TlbEntry
  <2>1. 0 \in InPage
    BY SMT DEF InPage, PageBytes
  <2> QED BY <2>1 DEF TlbEntry
<1> QED BY <1>4, <1>6, <1>7

\* Setting W leaves an entry current: it may only lag.
LEMMA NotedLags ==
    ASSUME NEW r \in PageRegisters, NEW wide \in BOOLEAN, NEW t, Lags(t, r, wide),
           NEW w \in BOOLEAN, MmuAssumption
    PROVE  Lags(t, [r EXCEPT !.written = @ \/ w], wide)
<1> DEFINE q == [r EXCEPT !.written = @ \/ w]
<1>0. q \in PageRegisters /\ q.acf = r.acf /\ q.base = r.base /\ q.len = r.len
      /\ q.down = r.down /\ q.written = (r.written \/ w)
  BY DEF PageRegisters
<1> HIDE DEF q
<1>1. TlbOf(r, wide) \in TlbEntry /\ TlbOf(q, wide) \in TlbEntry
  BY <1>0, TlbOfType
<1>2. /\ TlbOf(q, wide).lo = TlbOf(r, wide).lo /\ TlbOf(q, wide).hi = TlbOf(r, wide).hi
      /\ TlbOf(q, wide).host = TlbOf(r, wide).host
      /\ TlbOf(r, wide).write => TlbOf(q, wide).write
  BY <1>0 DEF TlbOf, Readable
<1>3. [TlbOf(q, wide) EXCEPT !.write = FALSE] = [TlbOf(r, wide) EXCEPT !.write = FALSE]
  BY <1>1, <1>2 DEF TlbEntry
<1>4. TlbOf(r, wide).write = FALSE => TlbOf(r, wide) = [TlbOf(r, wide) EXCEPT !.write = FALSE]
  BY <1>1 DEF TlbEntry
<1>5. TlbOf(r, wide).write = TRUE => TlbOf(r, wide) = TlbOf(q, wide)
  BY <1>1, <1>2 DEF TlbEntry
<1>6. TlbOf(r, wide).write \in BOOLEAN
  BY <1>1 DEF TlbEntry
<1> QED BY <1>3, <1>4, <1>5, <1>6 DEF Lags, q

-----------------------------------------------------------------------------
(* The table and the page registers.                                       *)

PagesOK(pages) ==
    /\ pages \in [Entries -> PageRegisters]
    /\ \A e \in Entries : e[1] = 2 => pages[e].acf = 0

Current(table, pages, wide) == \A e \in Entries : Lags(table[e], pages[e], wide)

Inv == TypeOK /\ TlbCurrent

\* The invariant, by the parts an action leaves alone or replaces.
Good(pages, on, mode3, mode, table) ==
    /\ PagesOK(pages)
    /\ on \in [on : BOOLEAN] /\ mode3 \in [m22e : BOOLEAN, split : SUBSET Modes]
    /\ mode \in [cur : Modes, prev : Modes]
    /\ table \in [Entries -> TlbEntry]
    /\ Current(table, pages, mode3.m22e)

LEMMA InvIsGood == Inv <=> Good(apr, ssr0, ssr3, psw, tlb)
BY Zenon DEF Inv, Good, TypeOK, TlbCurrent, PagesOK, Current

LEMMA InvIsGoodNext == Inv' <=> Good(apr', ssr0', ssr3', psw', tlb')
BY Zenon DEF Inv, Good, TypeOK, TlbCurrent, PagesOK, Current

LEMMA FlushCurrent ==
    ASSUME NEW pages, PagesOK(pages), NEW wide \in BOOLEAN, MmuAssumption
    PROVE  /\ Flush(pages, wide) \in [Entries -> TlbEntry]
           /\ Current(Flush(pages, wide), pages, wide)
<1>1. \A e \in Entries : TlbOf(pages[e], wide) \in TlbEntry
  BY TlbOfType, Zenon DEF PagesOK
<1> QED BY <1>1, Zenon DEF Flush, Current, Lags

LEMMA NotedRegisters ==
    ASSUME NEW r \in PageRegisters, NEW w \in BOOLEAN
    PROVE  /\ [r EXCEPT !.written = @ \/ w] \in PageRegisters
           /\ [r EXCEPT !.written = @ \/ w].acf = r.acf
BY DEF PageRegisters

LEMMA NotedCurrent ==
    ASSUME NEW pages, PagesOK(pages), NEW e \in Entries, NEW w \in BOOLEAN,
           NEW wide \in BOOLEAN, NEW table, Current(table, pages, wide), MmuAssumption
    PROVE  PagesOK(Noted(pages, e, w)) /\ Current(table, Noted(pages, e, w), wide)
<1> DEFINE r == [pages[e] EXCEPT !.written = @ \/ w]
<1>0. \A f \in Entries : pages[f] \in PageRegisters
  BY Zenon DEF PagesOK
<1>1. r \in PageRegisters /\ r.acf = pages[e].acf
  BY <1>0, NotedRegisters, Zenon
<1>2. Noted(pages, e, w) = [pages EXCEPT ![e] = r]
  BY DEF Noted, PagesOK
<1>3. Lags(table[e], r, wide)
  BY <1>0, NotedLags, Zenon DEF Current
<1> HIDE DEF r
<1>4. \A f \in Entries : Noted(pages, e, w)[f] = IF f = e THEN r ELSE pages[f]
  BY <1>2 DEF PagesOK
<1>5. Noted(pages, e, w) \in [Entries -> PageRegisters]
  BY <1>1, <1>2 DEF PagesOK
<1>6. \A f \in Entries : Noted(pages, e, w)[f].acf = pages[f].acf
  BY <1>1, <1>4, Zenon
<1>7. \A f \in Entries : Lags(table[f], Noted(pages, e, w)[f], wide)
  BY <1>3, <1>4, Zenon DEF Current
<1> QED BY <1>5, <1>6, <1>7, Zenon DEF PagesOK, Current

-----------------------------------------------------------------------------
(* The actions.                                                            *)

LEMMA ModesOK ==
    /\ \A m \in Modes : Normal(m) \in Modes /\ PrevMode(m) \in Modes
    /\ \A m \in Modes : \A data \in BOOLEAN : \A p \in Pages :
           <<m, Space(m, data), p>> \in Entries /\ <<m, 0, p>> \in Entries
    /\ 0 \in Modes
<1>1. 0 \in Modes /\ \A m \in Modes : Normal(m) \in Modes /\ PrevMode(m) \in Modes
  BY SMT DEF Modes, Normal, PrevMode
<1>2. \A m \in Modes : \A data \in BOOLEAN : Space(m, data) \in {0, 1}
  BY DEF Space
<1>3. \A m \in Modes : \A d \in {0, 1} : \A p \in Pages : <<m, d, p>> \in Entries
  BY DEF Entries
<1> QED BY <1>1, <1>2, <1>3

LEMMA TrapGood ==
    ASSUME NEW pages, NEW on, NEW mode3, NEW mode, NEW table, Good(pages, on, mode3, mode, table)
    PROVE  Good(pages, on, mode3, [cur |-> 0, prev |-> Normal(mode.cur)], table)
<1>1. mode.cur \in Modes
  BY DEF Good
<1>2. [cur |-> 0, prev |-> Normal(mode.cur)] \in [cur : Modes, prev : Modes]
  BY <1>1, ModesOK
<1> QED BY <1>2, Zenon DEF Good

LEMMA Switches ==
    ASSUME NEW on, NEW mode3, on \in [on : BOOLEAN], mode3 \in [m22e : BOOLEAN, split : SUBSET Modes]
    PROVE  on.on \in BOOLEAN /\ mode3.m22e \in BOOLEAN
BY Zenon

LEMMA NotedGood ==
    ASSUME NEW pages, NEW on, NEW mode3, NEW mode, NEW table, NEW e \in Entries,
           NEW w \in BOOLEAN, Good(pages, on, mode3, mode, table), MmuAssumption
    PROVE  Good(Noted(pages, e, w), on, mode3, mode, table)
<1>1. mode3.m22e \in BOOLEAN
  BY Switches, Zenon DEF Good
<1>2. PagesOK(pages) /\ Current(table, pages, mode3.m22e)
  BY Zenon DEF Good
<1>3. PagesOK(Noted(pages, e, w)) /\ Current(table, Noted(pages, e, w), mode3.m22e)
  BY <1>1, <1>2, NotedCurrent, Zenon
<1> QED BY <1>3, Zenon DEF Good

LEMMA AbortStep ==
    ASSUME Inv, NEW e \in Entries, NEW write \in BOOLEAN, Abort(e, write), MmuAssumption
    PROVE  Inv'
<1>1. Good(Noted(apr, e, write), ssr0, ssr3, [cur |-> 0, prev |-> Normal(psw.cur)], tlb)
  BY InvIsGood, NotedGood, TrapGood, Zenon
<1> QED BY <1>1, InvIsGoodNext, Zenon DEF Abort

LEMMA LoadStep ==
    ASSUME Inv, NEW e \in Entries, NEW off, NEW width, NEW fetch, Load(e, off, width, fetch),
           MmuAssumption
    PROVE  Inv'
<1>1. Abort(e, FALSE) \/ (UNCHANGED <<apr, ssr0, ssr3, tlb>> /\ (BusError \/ UNCHANGED psw))
  BY Zenon DEF Load
<1>2. CASE Abort(e, FALSE)
  BY <1>2, AbortStep, Zenon
<1>3. CASE UNCHANGED <<apr, ssr0, ssr3, tlb>> /\ UNCHANGED psw
  BY <1>3, InvIsGood, InvIsGoodNext, Zenon
<1>4. CASE UNCHANGED <<apr, ssr0, ssr3, tlb>> /\ BusError
  <2>1. Good(apr, ssr0, ssr3, [cur |-> 0, prev |-> Normal(psw.cur)], tlb)
    BY InvIsGood, TrapGood, Zenon
  <2> QED BY <1>4, <2>1, InvIsGoodNext, Zenon DEF BusError
<1> QED BY <1>1, <1>2, <1>3, <1>4, Zenon

LEMMA SetPswGood ==
    ASSUME NEW pages, NEW on, NEW mode3, NEW mode, NEW table, NEW cur \in PswModes,
           NEW prev \in PswModes, Good(pages, on, mode3, mode, table), MmuAssumption
    PROVE  Good(pages, on, mode3, [cur |-> cur, prev |-> prev], table)
<1>1. cur \in Modes /\ prev \in Modes
  BY Zenon DEF MmuAssumption
<1>2. [cur |-> cur, prev |-> prev] \in [cur : Modes, prev : Modes]
  BY <1>1
<1> QED BY <1>2, Zenon DEF Good

\* A load of a PAR or a PDR, which rebuilds the entry, on the page registers a store's translation left.
LEMMA LoadAprGood ==
    ASSUME NEW pages, NEW on, NEW mode3, NEW mode, NEW table, NEW e \in Entries, e[1] # 2,
           NEW r \in PageRegisters, Good(pages, on, mode3, mode, table), MmuAssumption
    PROVE  Good([pages EXCEPT ![e] = r], on, mode3, mode,
                [table EXCEPT ![e] = TlbOf(r, mode3.m22e)])
<1> DEFINE wide == mode3.m22e
           p == [pages EXCEPT ![e] = r]
           t == [table EXCEPT ![e] = TlbOf(r, wide)]
<1>1. wide \in BOOLEAN
  BY Switches, Zenon DEF Good
<1>2. PagesOK(pages) /\ table \in [Entries -> TlbEntry] /\ Current(table, pages, wide)
  BY Zenon DEF Good
<1> HIDE DEF wide
<1>3. PagesOK(p) /\ t \in [Entries -> TlbEntry] /\ Current(t, p, wide)
  <2>1. TlbOf(r, wide) \in TlbEntry
    BY <1>1, TlbOfType, Zenon
  <2>2. p \in [Entries -> PageRegisters] /\ t \in [Entries -> TlbEntry]
    BY <1>2, <2>1 DEF PagesOK
  <2>3. \A f \in Entries : /\ p[f] = IF f = e THEN r ELSE pages[f]
                           /\ t[f] = IF f = e THEN TlbOf(r, wide) ELSE table[f]
    BY <1>2, <2>1 DEF PagesOK
  <2> HIDE DEF p, t
  <2>4. Current(t, p, wide)
    BY <1>2, <2>3, Zenon DEF Current, Lags
  <2>5. PagesOK(p)
    BY <1>2, <2>2, <2>3, Zenon DEF PagesOK
  <2> QED BY <2>2, <2>4, <2>5, Zenon
<1> HIDE DEF p, t
<1>4. Good(p, on, mode3, mode, t)
  BY <1>3, Zenon DEF Good, wide
<1> QED BY <1>4, Zenon DEF p, t, wide

LEMMA LoadParStep ==
    ASSUME NEW pages, NEW e \in Entries, e[1] # 2, Good(pages, ssr0, ssr3, psw, tlb),
           LoadPar(e, pages), MmuAssumption
    PROVE  Inv'
<1>1. PICK base \in Bases :
        LET r == [pages[e] EXCEPT !.base = base, !.written = FALSE]
        IN  /\ apr' = [pages EXCEPT ![e] = r]
            /\ tlb' = [tlb EXCEPT ![e] = TlbOf(r, ssr3.m22e)]
            /\ UNCHANGED <<ssr0, ssr3, psw>>
  BY Zenon DEF LoadPar
<1> DEFINE r == [pages[e] EXCEPT !.base = base, !.written = FALSE]
<1>2. pages[e] \in PageRegisters /\ base \in Words
  BY Zenon DEF Good, PagesOK, MmuAssumption
<1>3. r \in PageRegisters
  BY <1>2 DEF PageRegisters
<1> HIDE DEF r
<1>4. Good([pages EXCEPT ![e] = r], ssr0, ssr3, psw, [tlb EXCEPT ![e] = TlbOf(r, ssr3.m22e)])
  BY <1>3, LoadAprGood, Zenon
<1> QED BY <1>1, <1>4, InvIsGoodNext, Zenon DEF r

LEMMA LoadPdrStep ==
    ASSUME NEW pages, NEW e \in Entries, e[1] # 2, Good(pages, ssr0, ssr3, psw, tlb),
           LoadPdr(e, pages), MmuAssumption
    PROVE  Inv'
<1>1. PICK c \in Controls :
        LET r == [base |-> pages[e].base, len |-> c.len, down |-> c.down, acf |-> c.acf,
                  written |-> FALSE]
        IN  /\ apr' = [pages EXCEPT ![e] = r]
            /\ tlb' = [tlb EXCEPT ![e] = TlbOf(r, ssr3.m22e)]
            /\ UNCHANGED <<ssr0, ssr3, psw>>
  BY Zenon DEF LoadPdr
<1> DEFINE r == [base |-> pages[e].base, len |-> c.len, down |-> c.down, acf |-> c.acf,
                 written |-> FALSE]
<1>2. pages[e] \in PageRegisters /\ pages[e].base \in Words
  BY Registers, Zenon DEF Good, PagesOK
<1>3. c.len \in 0 .. 127 /\ c.down \in BOOLEAN /\ c.acf \in {0, 2, 4, 6}
  BY Zenon DEF MmuAssumption
<1>4. r \in PageRegisters
  BY <1>2, <1>3 DEF PageRegisters
<1> HIDE DEF r
<1>5. Good([pages EXCEPT ![e] = r], ssr0, ssr3, psw, [tlb EXCEPT ![e] = TlbOf(r, ssr3.m22e)])
  BY <1>4, LoadAprGood, Zenon
<1> QED BY <1>1, <1>5, InvIsGoodNext, Zenon DEF r

LEMMA WriteSsr0Step ==
    ASSUME NEW pages, NEW e \in Entries, Good(pages, ssr0, ssr3, psw, tlb), WriteSsr0(pages),
           apr' = (IF ~ssr0.on /\ ssr0'.on THEN Noted(pages, e, TRUE) ELSE pages),
           MmuAssumption
    PROVE  Inv'
<1>1. PICK on \in BOOLEAN :
        /\ ssr0' = [on |-> on]
        /\ tlb' = IF on # ssr0.on THEN Flush(pages, ssr3.m22e) ELSE tlb
        /\ UNCHANGED <<ssr3, psw>>
  BY Zenon DEF WriteSsr0
<1>2. ssr3.m22e \in BOOLEAN /\ PagesOK(pages)
  BY Switches, Zenon DEF Good
<1>3. tlb' \in [Entries -> TlbEntry] /\ Current(tlb', pages, ssr3.m22e)
  <2>1. tlb \in [Entries -> TlbEntry] /\ Current(tlb, pages, ssr3.m22e)
    BY Zenon DEF Good
  <2>2. /\ Flush(pages, ssr3.m22e) \in [Entries -> TlbEntry]
        /\ Current(Flush(pages, ssr3.m22e), pages, ssr3.m22e)
    BY <1>2, FlushCurrent, Zenon
  <2> QED BY <1>1, <2>1, <2>2, Zenon
<1>4. ssr0' \in [on : BOOLEAN]
  BY <1>1
<1>5. Good(pages, ssr0', ssr3', psw', tlb')
  BY <1>1, <1>2, <1>3, <1>4, Zenon DEF Good
<1>6. Good(Noted(pages, e, TRUE), ssr0', ssr3', psw', tlb')
  BY <1>5, NotedGood, Zenon
<1> QED BY <1>5, <1>6, InvIsGoodNext, Zenon

LEMMA FlushStep ==
    ASSUME NEW pages, NEW wide \in BOOLEAN, NEW split \in SUBSET Modes,
           Good(pages, ssr0, ssr3, psw, tlb), ssr3' = [m22e |-> wide, split |-> split],
           tlb' = Flush(pages, wide), apr' = pages, psw' = psw, ssr0' \in [on : BOOLEAN],
           MmuAssumption
    PROVE  Inv'
<1>1. ssr3' \in [m22e : BOOLEAN, split : SUBSET Modes] /\ ssr3'.m22e = wide
  OBVIOUS
<1>2. PagesOK(pages)
  BY Zenon DEF Good
<1>3. tlb' \in [Entries -> TlbEntry] /\ Current(tlb', pages, wide)
  BY <1>2, FlushCurrent, Zenon
<1> QED BY <1>1, <1>2, <1>3, InvIsGoodNext, Zenon DEF Good

LEMMA WriteSsr3Step ==
    ASSUME NEW pages, Good(pages, ssr0, ssr3, psw, tlb), WriteSsr3(pages), MmuAssumption
    PROVE  Inv'
<1>1. PICK wide \in BOOLEAN, split \in Splits :
        /\ ssr3' = [m22e |-> wide, split |-> split]
        /\ tlb' = Flush(pages, wide)
        /\ apr' = pages
        /\ UNCHANGED <<ssr0, psw>>
  BY Zenon DEF WriteSsr3
<1>2. split \in SUBSET Modes
  <2>1. split \in SUBSET {0, 1, 3}
    BY Zenon DEF MmuAssumption
  <2>2. {0, 1, 3} \subseteq Modes
    BY SMT DEF Modes
  <2> QED BY <2>1, <2>2, Zenon
<1>3. ssr0' \in [on : BOOLEAN]
  BY <1>1, Zenon DEF Good
<1> QED BY <1>1, <1>2, <1>3, FlushStep, Zenon

LEMMA RegisterStep ==
    ASSUME NEW pages, NEW e \in Entries, NEW a, Good(pages, ssr0, ssr3, psw, tlb),
           WriteRegister(a, e, pages), MmuAssumption
    PROVE  Inv'
<1>1. CASE /\ WriteSsr0(pages)
           /\ apr' = IF ~ssr0.on /\ ssr0'.on THEN Noted(pages, e, TRUE) ELSE pages
  BY <1>1, WriteSsr0Step, Zenon
<1>2. CASE WriteSsr3(pages)
  BY <1>2, WriteSsr3Step, Zenon
<1>3. CASE SetPsw /\ apr' = pages /\ UNCHANGED <<ssr0, ssr3, tlb>>
  <2>1. PICK cur \in PswModes, prev \in PswModes : psw' = [cur |-> cur, prev |-> prev]
    BY <1>3, Zenon DEF SetPsw
  <2>2. Good(pages, ssr0, ssr3, psw', tlb)
    BY <2>1, SetPswGood, Zenon
  <2> QED BY <1>3, <2>2, InvIsGoodNext, Zenon
<1>4. CASE \E f \in Loadable : LoadPar(f, pages) \/ LoadPdr(f, pages)
  <2>1. \A f \in Loadable : f \in Entries /\ f[1] # 2
    BY Zenon DEF MmuAssumption
  <2> QED BY <1>4, <2>1, LoadParStep, LoadPdrStep, Zenon
<1> QED BY <1>1, <1>2, <1>3, <1>4, Zenon DEF WriteRegister

LEMMA StoreStep ==
    ASSUME Inv, NEW e \in Entries, NEW off, NEW width, Store(e, off, width), MmuAssumption
    PROVE  Inv'
<1> DEFINE pages == IF ssr0.on THEN Noted(apr, e, TRUE) ELSE apr
<1>1. \/ Abort(e, TRUE)
      \/ apr' = pages /\ (BusError \/ UNCHANGED psw) /\ UNCHANGED <<ssr0, ssr3, tlb>>
      \/ \E a : WriteRegister(a, e, pages)
  BY Zenon DEF Store
<1>2. Good(pages, ssr0, ssr3, psw, tlb)
  BY InvIsGood, NotedGood, Zenon
<1> HIDE DEF pages
<1>3. CASE Abort(e, TRUE)
  BY <1>3, AbortStep, Zenon
<1>4. CASE apr' = pages /\ UNCHANGED psw /\ UNCHANGED <<ssr0, ssr3, tlb>>
  BY <1>2, <1>4, InvIsGoodNext, Zenon
<1>5. CASE apr' = pages /\ BusError /\ UNCHANGED <<ssr0, ssr3, tlb>>
  <2>1. Good(pages, ssr0, ssr3, [cur |-> 0, prev |-> Normal(psw.cur)], tlb)
    BY <1>2, TrapGood, Zenon
  <2> QED BY <1>5, <2>1, InvIsGoodNext, Zenon DEF BusError
<1>6. CASE \E a : WriteRegister(a, e, pages)
  BY <1>2, <1>6, RegisterStep, Zenon
<1> QED BY <1>1, <1>3, <1>4, <1>5, <1>6, Zenon

-----------------------------------------------------------------------------
(* The invariant.                                                          *)

LEMMA InitInv == ASSUME Init, MmuAssumption PROVE Inv
<1> DEFINE r == [base |-> 0, len |-> 0, down |-> FALSE, acf |-> 0, written |-> FALSE]
<1>1. r \in PageRegisters /\ r.acf = 0
  <2>1. 0 \in Words
    BY SMT DEF Words
  <2> QED BY <2>1 DEF PageRegisters
<1>2. apr = [e \in Entries |-> r]
  BY Zenon DEF Init
<1> HIDE DEF r
<1>3. PagesOK(apr)
  BY <1>1, <1>2, Zenon DEF PagesOK
<1>4. tlb \in [Entries -> TlbEntry] /\ Current(tlb, apr, FALSE)
  BY <1>3, FlushCurrent, Zenon DEF Init
<1>5. ssr0 \in [on : BOOLEAN] /\ ssr3 \in [m22e : BOOLEAN, split : SUBSET Modes] /\ ssr3.m22e = FALSE
  BY DEF Init
<1>6. psw \in [cur : Modes, prev : Modes]
  BY DEF Init, Modes
<1> QED BY <1>3, <1>4, <1>5, <1>6, InvIsGood, Zenon DEF Good

LEMMA ResetStep == ASSUME Inv, Reset, MmuAssumption PROVE Inv'
<1>1. Good(apr, ssr0, ssr3, psw, tlb)
  BY InvIsGood, Zenon
<1>2. ssr0' \in [on : BOOLEAN]
  BY DEF Reset
<1>3. {} \in SUBSET Modes
  OBVIOUS
<1> QED BY <1>1, <1>2, <1>3, FlushStep, Zenon DEF Reset

LEMMA NextInv == ASSUME Inv, [Next]_vars, MmuAssumption PROVE Inv'
<1>1. Good(apr, ssr0, ssr3, psw, tlb) /\ psw.cur \in Modes /\ psw.prev \in Modes
  BY InvIsGood, Zenon DEF Good
<1>2. CASE CpuLoad
  <2>1. PICK p \in Pages, off \in Offsets, width \in {1, 2} :
            Load(<<psw.cur, Space(psw.cur, TRUE), p>>, off, width, FALSE)
    BY <1>2, Zenon DEF CpuLoad
  <2> QED BY <1>1, <2>1, ModesOK, LoadStep, Zenon
<1>3. CASE Fetch
  <2>1. PICK p \in Pages, off \in EvenOffsets : Load(<<psw.cur, 0, p>>, off, 2, TRUE)
    BY <1>3, Zenon DEF Fetch
  <2>2. <<psw.cur, 0, p>> \in Entries
    BY <1>1, ModesOK, Zenon
  <2> QED BY <2>1, <2>2, LoadStep, Zenon
<1>4. CASE ModeLoad
  <2>1. PICK p \in Pages, off \in EvenOffsets, mode \in {PrevMode(psw.prev), 0}, data \in BOOLEAN :
            Load(<<mode, Space(mode, data), p>>, off, 2, FALSE)
    BY <1>4, Zenon DEF ModeLoad
  <2>2. mode \in Modes
    BY <1>1, ModesOK, Zenon
  <2>3. <<mode, Space(mode, data), p>> \in Entries
    BY <2>2, ModesOK, Zenon
  <2> QED BY <2>1, <2>3, LoadStep, Zenon
<1>5. CASE CpuStore
  <2>1. PICK p \in Pages, off \in Offsets, width \in {1, 2} :
            Store(<<psw.cur, Space(psw.cur, TRUE), p>>, off, width)
    BY <1>5, Zenon DEF CpuStore
  <2> QED BY <1>1, <2>1, ModesOK, StoreStep, Zenon
<1>6. CASE ModeStore
  <2>1. PICK p \in Pages, off \in EvenOffsets, data \in BOOLEAN :
            Store(<<PrevMode(psw.prev), Space(PrevMode(psw.prev), data), p>>, off, 2)
    BY <1>6, Zenon DEF ModeStore
  <2> QED BY <1>1, <2>1, ModesOK, StoreStep, Zenon
<1>7. CASE ChangeMode
  <2>1. PICK cur \in PswModes, prev \in PswModes : psw' = [cur |-> cur, prev |-> prev]
    BY <1>7, Zenon DEF ChangeMode, SetPsw
  <2>2. Good(apr, ssr0, ssr3, psw', tlb)
    BY <1>1, <2>1, SetPswGood, Zenon
  <2> QED BY <1>7, <2>2, InvIsGoodNext, Zenon DEF ChangeMode
<1>8. CASE Reset
  BY <1>8, ResetStep, Zenon
<1>9. CASE UNCHANGED vars
  BY <1>1, <1>9, InvIsGoodNext, Zenon DEF vars
<1> QED BY <1>2, <1>3, <1>4, <1>5, <1>6, <1>7, <1>8, <1>9, Zenon DEF Next

\* The page registers, the mode and the table keep their types, and a reserved mode never
\* gets page registers of its own (mmu_decode_parpdr).
THEOREM MmuTypeCorrect == Spec => []TypeOK
<1>1. Init => Inv
  BY InitInv, MmuAssumption
<1>2. Inv /\ [Next]_vars => Inv'
  BY NextInv, MmuAssumption
<1>3. Inv => TypeOK
  BY DEF Inv
<1> QED BY <1>1, <1>2, <1>3, PTL DEF Spec

\* The table is current after every access, register write and mode change
\* (mmu_tlb_update, mmu_tlb_flush_all and their callers).
THEOREM TlbNeverStale == Spec => []TlbCurrent
<1>1. Init => Inv
  BY InitInv, MmuAssumption
<1>2. Inv /\ [Next]_vars => Inv'
  BY NextInv, MmuAssumption
<1>3. Inv => TlbCurrent
  BY DEF Inv
<1> QED BY <1>1, <1>2, <1>3, PTL DEF Spec

-----------------------------------------------------------------------------
(* A hit.                                                                  *)

\* A window that neither wraps around nor leaves RAM is contiguous, block by block.
LEMMA NoWrap ==
    ASSUME NEW x \in Nat, NEW off \in InPage, NEW wide \in BOOLEAN,
           Finalize(x + (PageBytes - 1), wide) - Finalize(x, wide) = PageBytes - 1
    PROVE  Finalize(x + off, wide) = Finalize(x, wide) + off
<1>1. CASE wide
  BY <1>1, SMT DEF Finalize, InPage, PageBytes
<1>2. CASE ~wide
  BY <1>2, SMT DEF Finalize, InPage, PageBytes
<1> QED BY <1>1, <1>2, Zenon

\* A PAR past the end of memory wraps to its beginning in either size.
LEMMA BlockWraps ==
    ASSUME NEW n \in Nat, NEW m \in Nat, NEW wide \in BOOLEAN
    PROVE  Finalize(Word(n) * 64 + m, wide) = Finalize(n * 64 + m, wide)
<1> DEFINE k == n \div \o200000
<1>1. k \in Nat /\ n = \o200000 * k + Word(n) /\ Word(n) \in Nat
  BY SMT DEF Word
<1> DEFINE v == Word(n)
<1> HIDE DEF k, v
<1>2. v \in Nat /\ k \in Nat /\ n = \o200000 * k + v
  BY <1>1, SMT DEF v
<1>3. n * 64 + m = (v * 64 + m) + (\o20000000 * k)
  BY <1>2, SMT
<1>4. CASE wide
  <2>1. ((v * 64 + m) + (\o20000000 * k)) % \o20000000 = (v * 64 + m) % \o20000000
    BY <1>2, SMT
  <2> QED BY <1>3, <1>4, <2>1, SMT DEF Finalize, v
<1>5. CASE ~wide
  <2>1. ((v * 64 + m) + (\o20000000 * k)) % \o1000000 = (v * 64 + m) % \o1000000
    BY <1>2, SMT
  <2> QED BY <1>3, <1>5, <2>1, SMT DEF Finalize, v
<1> QED BY <1>4, <1>5, SMT

LEMMA Contiguous ==
    ASSUME NEW base \in Words, NEW off \in InPage, NEW wide \in BOOLEAN,
           Finalize(base * 64 + (PageBytes - 1), wide) - Finalize(base * 64, wide) = PageBytes - 1
    PROVE  Finalize((Word(base + off \div 64) * 64) + (off % 64), wide)
             = Finalize(base * 64, wide) + off
<1> DEFINE q == off \div 64
           m == off % 64
<1>1. q \in Nat /\ m \in Nat /\ off = 64 * q + m
  BY SMT DEF InPage, PageBytes
<1>2. base * 64 \in Nat /\ base + q \in Nat
  BY <1>1, SMT DEF Words
<1> HIDE DEF q, m
<1>3. Finalize(base * 64 + off, wide) = Finalize(base * 64, wide) + off
  BY <1>2, NoWrap, Zenon
<1>4. (base + q) * 64 + m = base * 64 + off
  BY <1>1, SMT DEF Words
<1>5. Finalize(Word(base + q) * 64 + m, wide) = Finalize((base + q) * 64 + m, wide)
  BY <1>1, <1>2, BlockWraps, Zenon
<1> QED BY <1>3, <1>4, <1>5, Zenon DEF q, m

\* What a current entry that answers says of its page registers.
First(r, wide) == Finalize(r.base * 64, wide)
Last(r, wide) == Finalize(r.base * 64 + (PageBytes - 1), wide)
Lo(r) == IF r.down THEN r.len * 64 ELSE 0
Hi(r) == IF r.down THEN PageBytes - 1 ELSE r.len * 64 + 63
Answers(t, r, wide) ==
    /\ Readable(r)
    /\ t.host = First(r, wide) /\ Last(r, wide) - First(r, wide) = PageBytes - 1
    /\ ~InIoPage(First(r, wide), IoStart22) /\ ~InIoPage(Last(r, wide), IoStart22)
    /\ First(r, wide) + PageBytes <= RamBytes
    /\ t.lo = Lo(r) /\ t.hi = Hi(r)
    /\ t.write => r.acf = 6

LEMMA EntryOfHit ==
    ASSUME NEW r \in PageRegisters, NEW wide \in BOOLEAN, NEW t, Lags(t, r, wide),
           t.host # NoAddress, MmuAssumption
    PROVE  Answers(t, r, wide)
<1> DEFINE b == TlbOf(r, wide)
<1>1. b \in TlbEntry
  BY TlbOfType, Zenon
<1>2. t.host = b.host /\ t.lo = b.lo /\ t.hi = b.hi /\ (t.write => b.write)
  <2> HIDE DEF b
  <2>1. t = b \/ t = [b EXCEPT !.write = FALSE]
    BY Zenon DEF Lags, b
  <2> QED BY <1>1, <2>1 DEF TlbEntry
<1>3. Readable(r)
  BY <1>2 DEF TlbOf
<1> DEFINE first == Finalize(r.base * 64, wide)
           end   == Finalize(r.base * 64 + (PageBytes - 1), wide)
           ram   == /\ end - first = PageBytes - 1
                    /\ ~InIoPage(first, IoStart22) /\ ~InIoPage(end, IoStart22)
                    /\ first + PageBytes <= RamBytes
           lo    == IF r.down THEN r.len * 64 ELSE 0
           hi    == IF r.down THEN PageBytes - 1 ELSE r.len * 64 + 63
           write == r.written /\ r.acf = 6
           host  == IF ram THEN first ELSE NoAddress
<1>4. b = [lo |-> lo, hi |-> hi, write |-> write, host |-> host]
  BY <1>3, Zenon DEF TlbOf
<1> HIDE DEF b
<1>5. /\ b.host = host /\ b.lo = lo /\ b.hi = hi /\ b.write = write
  <2> HIDE DEF host, lo, hi, write
  <2> QED BY <1>4
<1>6. ram /\ t.host = first
  BY <1>2, <1>5, Zenon
<1>7. t.lo = lo /\ t.hi = hi /\ (t.write => write)
  BY <1>2, <1>5, Zenon
<1> QED BY <1>3, <1>6, <1>7, Zenon DEF Answers, First, Last, Lo, Hi

LEMMA LegalHit ==
    ASSUME NEW e \in Entries, NEW off \in InPage, NEW write \in BOOLEAN,
           apr[e] \in PageRegisters, e[1] = 2 => apr[e].acf = 0, Readable(apr[e]),
           write => apr[e].acf = 6,
           Lo(apr[e]) <= off, off <= Hi(apr[e])
    PROVE  Refusal(e, off, write) = "none"
<1> DEFINE r == apr[e]
<1>1. r.len \in 0 .. 127 /\ r.down \in BOOLEAN /\ r.acf \in {2, 6} /\ e[1] # 2
  <2>1. r.len \in 0 .. 127 /\ r.down \in BOOLEAN
    BY Registers, Zenon
  <2>2. r.acf \in {2, 6}
    BY Zenon DEF Readable
  <2> QED BY <2>1, <2>2
<1>2. ~((~r.down /\ off \div 64 > r.len) \/ (r.down /\ off \div 64 < r.len))
  <2> DEFINE len == r.len
  <2>0. len \in 0 .. 127
    BY <1>1
  <2>1. CASE r.down
    <3>1. len * 64 <= off
      BY <2>1 DEF Lo
    <3> HIDE DEF len
    <3>2. ~(off \div 64 < len)
      BY <2>0, <3>1, SMT DEF InPage, PageBytes
    <3> QED BY <2>1, <3>2, Zenon DEF len
  <2>2. CASE ~r.down
    <3>1. off <= len * 64 + 63
      BY <2>2 DEF Hi
    <3> HIDE DEF len
    <3>2. ~(off \div 64 > len)
      BY <2>0, <3>1, SMT DEF InPage, PageBytes
    <3> QED BY <2>2, <3>2, Zenon DEF len
  <2> QED BY <1>1, <2>1, <2>2, Zenon
<1>3. ~(write /\ r.acf = 2) /\ ~((write /\ r.acf # 6) \/ ~Readable(r))
  BY <1>1
<1> QED BY <1>1, <1>2, <1>3, Zenon DEF Refusal

\* No hit is in the I/O page of 22-bit addresses: a window that held part of it would
\* have to end beyond it.
LEMMA OutsideIoPage ==
    ASSUME NEW x \in Nat, NEW wide \in BOOLEAN, NEW off \in InPage,
           Finalize(x + (PageBytes - 1), wide) - Finalize(x, wide) = PageBytes - 1,
           ~InIoPage(Finalize(x, wide), IoStart22),
           ~InIoPage(Finalize(x + (PageBytes - 1), wide), IoStart22)
    PROVE  ~InIoPage(Finalize(x, wide) + off, IoStart22)
<1>1. CASE wide
  BY <1>1, SMT DEF Finalize, InPage, PageBytes, InIoPage, IoStart22
<1>2. CASE ~wide
  BY <1>2, SMT DEF Finalize, InPage, PageBytes, InIoPage, IoStart22
<1> QED BY <1>1, <1>2, Zenon

LEMMA WithinBounds ==
    ASSUME NEW lo \in InPage, NEW hi \in InPage, NEW off \in InPage, NEW width \in {1, 2},
           lo <= off, off + width - 1 <= hi
    PROVE  off <= hi /\ lo <= off + width - 1 /\ off + width - 1 \in InPage
BY SMT DEF InPage, PageBytes

LEMMA HitIsFaithful ==
    ASSUME Inv, ssr0.on, NEW e \in Entries, NEW off \in Offsets, NEW width \in {1, 2},
           NEW write \in BOOLEAN, Hit(e, off, width, write), width = 1 \/ off % 2 = 0,
           MmuAssumption
    PROVE  /\ Refusal(e, off, write) = "none"
           /\ Refusal(e, off + width - 1, write) = "none"
           /\ Physical(e, off) = tlb[e].host + off
           /\ InIoPage(Physical(e, off), IoStart18) \/ Place(Physical(e, off)).kind = "ram"
<1> DEFINE r == apr[e]
           t == tlb[e]
           wide == ssr3.m22e
<1>1. /\ r \in PageRegisters /\ (e[1] = 2 => r.acf = 0) /\ wide \in BOOLEAN
      /\ Lags(t, r, wide)
  <2>1. Good(apr, ssr0, ssr3, psw, tlb)
    BY InvIsGood, Zenon
  <2>2. wide \in BOOLEAN
    BY <2>1, Switches, Zenon DEF Good
  <2>3. PagesOK(apr) /\ Current(tlb, apr, wide)
    BY <2>1, Zenon DEF Good
  <2> QED BY <2>2, <2>3, Zenon DEF PagesOK, Current
<1>2. /\ t.host # NoAddress /\ t.lo <= off /\ off + width - 1 <= t.hi /\ (write => t.write)
  BY Zenon DEF Hit
<1>3. off \in InPage /\ off \in Nat /\ RamBytes \in Nat
  <2>1. off \in InPage /\ RamBytes \in Nat
    BY Zenon DEF MmuAssumption
  <2> QED BY <2>1, SMT DEF InPage, PageBytes
<1> HIDE DEF r, t, wide
<1>4. Answers(t, r, wide)
  BY <1>1, <1>2, EntryOfHit, Zenon
<1> DEFINE x == r.base * 64
           first == Finalize(x, wide)
           lo == Lo(r)
           hi == Hi(r)
<1>5. lo \in InPage /\ hi \in InPage /\ r.base \in Words /\ x \in Nat
  BY <1>1, Registers, LimitsRange, Zenon DEF Lo, Hi
<1>6. first \in Nat /\ Finalize(x + (PageBytes - 1), wide) - first = PageBytes - 1
  <2>1. Finalize(x + (PageBytes - 1), wide) - first = PageBytes - 1
    BY <1>4, Zenon DEF Answers, First, Last
  <2> QED BY <1>1, <1>5, <2>1, FinalizeRange, Zenon
<1>7. lo <= off /\ off + width - 1 <= hi
  BY <1>2, <1>4, Zenon DEF Answers
<1>8. Physical(e, off) = first + off
  <2>1. Finalize((Word(r.base + off \div 64) * 64) + (off % 64), wide) = first + off
    <3> DEFINE base == r.base
    <3>1. base \in Words /\ wide \in BOOLEAN /\ off \in InPage
      BY <1>1, <1>3, <1>5, Zenon
    <3>2. Finalize(base * 64 + (PageBytes - 1), wide) - Finalize(base * 64, wide) = PageBytes - 1
      BY <1>6, Zenon
    <3> HIDE DEF base
    <3> QED BY <3>1, <3>2, Contiguous, Zenon DEF base
  <2> QED BY <2>1, Zenon DEF Physical, r, wide
<1>9. ~InIoPage(first + off, IoStart22)
  <2>1. /\ ~InIoPage(Finalize(x, wide), IoStart22)
        /\ ~InIoPage(Finalize(x + (PageBytes - 1), wide), IoStart22)
    BY <1>4, Zenon DEF Answers, First, Last
  <2> HIDE DEF x
  <2> QED BY <1>1, <1>3, <1>5, <1>6, <2>1, OutsideIoPage, Zenon
<1>10. first + off < RamBytes /\ t.host = first
  <2>1. first + PageBytes <= RamBytes /\ t.host = first
    BY <1>4, Zenon DEF Answers, First
  <2> HIDE DEF first
  <2> QED BY <1>3, <1>6, <2>1, SMT DEF InPage, PageBytes
<1> HIDE DEF first, lo, hi, x
<1>11. /\ off <= hi /\ lo <= off + width - 1
       /\ off + width - 1 \in InPage
  BY <1>3, <1>5, <1>7, WithinBounds, Zenon
<1>12. (write => r.acf = 6) /\ Readable(r)
  BY <1>2, <1>4, Zenon DEF Answers
<1>13. Refusal(e, off, write) = "none"
  BY <1>1, <1>3, <1>7, <1>11, <1>12, LegalHit, Zenon DEF lo, hi, r
<1>14. Refusal(e, off + width - 1, write) = "none"
  BY <1>1, <1>3, <1>7, <1>11, <1>12, LegalHit, Zenon DEF lo, hi, r
<1>15. InIoPage(first + off, IoStart18) \/ Place(first + off).kind = "ram"
  <2>1. IoStart = IoStart22 \/ IoStart = IoStart18
    BY Zenon DEF IoStart
  <2>2. SUFFICES ASSUME ~InIoPage(first + off, IoStart18)
                 PROVE  Place(first + off).kind = "ram"
    BY Zenon
  <2>3. ~InIoPage(first + off, IoStart)
    BY <1>9, <2>1, <2>2, Zenon
  <2> DEFINE pa == first + off
  <2>4. pa < RamBytes
    BY <1>10, Zenon
  <2> HIDE DEF pa
  <2>5. Place(pa) = [kind |-> "ram", at |-> pa]
    BY <2>3, <2>4, Zenon DEF Place, pa
  <2>6. Place(pa).kind = "ram"
    BY <2>5
  <2> QED BY <2>6, Zenon DEF pa
<1> QED BY <1>8, <1>10, <1>13, <1>14, <1>15, Zenon DEF t

\* A hit of the fast path is the access the long way would have made: legal, the same
\* byte of RAM, and neither a register nor a device, but for the page the 18-bit I/O page
\* is decoded at (core_load_byte_ex, core_store_byte_ex and their word forms).
THEOREM FastPathIsFaithful == Spec => []FastPathFaithful
<1>1. Init => Inv
  BY InitInv, MmuAssumption
<1>2. Inv /\ [Next]_vars => Inv'
  BY NextInv, MmuAssumption
<1>3. Inv => FastPathFaithful
  BY HitIsFaithful, MmuAssumption, Zenon DEF FastPathFaithful
<1> QED BY <1>1, <1>2, <1>3, PTL DEF Spec

=============================================================================
