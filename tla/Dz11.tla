-------------------------------- MODULE Dz11 --------------------------------
(***************************************************************************)
(* The DZ11 terminal multiplexer (lsi11/dev_dz11.c) of the host build:     *)
(* eight lines, each a TCP client, that share one receive silo and one     *)
(* transmit buffer.  The scanner names in TLINE the line the next stored   *)
(* character goes to; it moves at every look at the flags.                 *)
(*                                                                         *)
(* The main loop polls the device between two instructions, and the core   *)
(* asks for a pending interrupt at the end of each, so a word access is    *)
(* one step although it is two byte accesses.  The clients and the masking *)
(* of the interrupts are external: a recv may return any number of         *)
(* characters, none when no client is connected, and any look of the       *)
(* arbiter may find the level masked.  A character is its number among     *)
(* those its line has received.  Modem control, connections, and the       *)
(* parameters of a line but its receiver are left out.                     *)
(***************************************************************************)
EXTENDS Integers, Sequences, FiniteSetsExt

CONSTANTS
    LineCount,   \* DZ11_LINES, 8 in the code
    SiloDepth,   \* DZ_SILO_ALM, 16 in the code
    RecvMax,     \* characters one recv takes, 64 in the code
    MaxIn        \* bound: characters a line receives

ASSUME DzAssumption ==
    /\ LineCount \in 1 .. 8                           \* TLINE has three bits
    /\ {SiloDepth, RecvMax} \subseteq Nat \ {0}
    /\ MaxIn \in Nat

VARIABLES
    dz,       \* the device: ctl, rx and tx hold the bits of the CSR and of the
              \* transmit interrupt, tcr and rcve the enabled transmitters and receivers
    taken,    \* for each line, characters taken from its client
    read,     \* history: for each line, the last character the program has read
    seen,     \* history: TLINE as the program's last read of the CSR showed it with
              \* TRDY, NoLine once it has stored into a register
    last      \* history: the latest of TRDY set, transmit interrupt granted, and
              \* its request withdrawn by clearing TIE

vars == <<dz, taken, read, seen, last>>

Lines == 0 .. LineCount - 1
NoLine == LineCount

-----------------------------------------------------------------------------
(* The device.                                                             *)

\* dz_soft_clear
SoftClear ==
    [ctl  |-> [mse |-> FALSE, rie |-> FALSE, tie |-> FALSE, sae |-> FALSE],
     rx   |-> [rdone |-> FALSE, sa |-> FALSE],
     tx   |-> [trdy |-> FALSE, tline |-> 0, req |-> FALSE, armed |-> TRUE],
     tcr  |-> {}, rcve |-> {}, silo |-> <<>>]

\* dz_find_next_tx_line: the next enabled line, the present one last.
NextLine(line, enabled) ==
    (line + Min({i \in 1 .. LineCount : (line + i) % LineCount \in enabled})) % LineCount

\* Mutant of RxUpdate: the alarm waits for one character more than the silo holds.
RxUpdateLate(rx, ctl, n) ==
    [rdone |-> ctl.mse /\ n > 0,
     sa    |-> ctl.mse /\ n > SiloDepth /\ (ctl.sae \/ rx.sa)]

\* dz_update_receive_flags with n characters in the silo
RxUpdate(rx, ctl, n) ==
    [rdone |-> ctl.mse /\ n > 0,
     sa    |-> ctl.mse /\ n >= SiloDepth /\ (ctl.sae \/ rx.sa)]

\* Mutant of TxUpdate: a raised request leaves the latch armed.
TxUpdateStaysArmed(tx, ctl, enabled) ==
    IF ~ctl.mse \/ enabled = {}
    THEN [tx EXCEPT !.trdy = FALSE, !.req = FALSE, !.armed = TRUE]
    ELSE [trdy  |-> TRUE,
          tline |-> NextLine(tx.tline, enabled),
          req   |-> (tx.req \/ (ctl.tie /\ tx.armed)) /\ ctl.tie,
          armed |-> tx.armed]

\* dz_update_transmit_flags: with a line enabled TRDY is set, a request is raised as it
\* rises, and the scanner moves on even when it was set before.
TxUpdate(tx, ctl, enabled) ==
    IF ~ctl.mse \/ enabled = {}
    THEN [tx EXCEPT !.trdy = FALSE, !.req = FALSE, !.armed = TRUE]
    ELSE LET raised == ~tx.trdy /\ ctl.tie /\ tx.armed
         IN  [trdy  |-> TRUE,
              tline |-> NextLine(tx.tline, enabled),
              req   |-> (tx.req \/ raised) /\ ctl.tie,
              armed |-> tx.armed /\ ~raised]

\* Both flags are brought up to date.
UpdateTx(d) == [d EXCEPT !.tx = TxUpdate(d.tx, d.ctl, d.tcr)]
Update(d) == UpdateTx([d EXCEPT !.rx = RxUpdate(d.rx, d.ctl, Len(d.silo))])

\* Mutant of StoreCsr: raising TIE requests nothing.
StoreCsrNoRaise(d, ctl, clr) ==
    Update([(IF clr THEN SoftClear ELSE d) EXCEPT !.ctl = ctl])

\* dz_write_csr: clear, the new bits, the flags, and a request when TIE rises while
\* TRDY is set and none was raised for it.
StoreCsr(d, ctl, clr) ==
    LET u == Update([(IF clr THEN SoftClear ELSE d) EXCEPT !.ctl = ctl])
        raised == ~d.ctl.tie /\ ctl.tie /\ u.tx.trdy /\ u.tx.armed
    IN  [u EXCEPT !.tx.req = (@ \/ raised) /\ ctl.tie, !.tx.armed = @ /\ ~raised]

\* The bytes of the CSR; CLR is in the low one and is not kept.
LowByte == [mse : BOOLEAN, rie : BOOLEAN, clr : BOOLEAN]
HighByte == [tie : BOOLEAN, sae : BOOLEAN]

StoreCsrLow(d, b) == StoreCsr(d, [d.ctl EXCEPT !.mse = b.mse, !.rie = b.rie], b.clr)
StoreCsrHigh(d, b) == StoreCsr(d, [d.ctl EXCEPT !.tie = b.tie, !.sae = b.sae], FALSE)

-----------------------------------------------------------------------------
(* The program.                                                            *)

\* What taking the device from d to e does to the history h of its transmit interrupt.
History(h, d, e) ==
    IF ~d.tx.trdy \/ ~e.tx.trdy THEN "ready"
    ELSE IF d.tx.req /\ ~e.ctl.tie THEN "withdrawn" ELSE h
Track(h, d) == last' = History(h, d, dz')

WriteCsrLow(low) ==
    /\ dz' = StoreCsrLow(dz, low)
    /\ Track(last, dz)
    /\ seen' = NoLine
    /\ UNCHANGED <<taken, read>>

WriteCsrHigh(high) ==
    /\ dz' = StoreCsrHigh(dz, high)
    /\ Track(last, dz)
    /\ seen' = NoLine
    /\ UNCHANGED <<taken, read>>

\* A word: the low byte, then the high one.
WriteCsr(low, high) ==
    /\ LET half == StoreCsrLow(dz, low)
       IN  /\ dz' = StoreCsrHigh(half, high)
           /\ Track(History(last, dz, half), half)
    /\ seen' = NoLine
    /\ UNCHANGED <<taken, read>>

\* Each byte read brings the flags up to date; TLINE and TRDY are in the high byte.
ReadCsr ==
    /\ \/ dz' = Update(dz) /\ seen' = NoLine
       \/ /\ dz' = Update(dz) \/ dz' = Update(Update(dz))
          /\ seen' = IF dz'.tx.trdy THEN dz'.tx.tline ELSE NoLine
    /\ Track(last, dz)
    /\ UNCHANGED <<taken, read>>

\* LPR switches the receiver of the line it names.
WriteLpr(line, on) ==
    /\ dz' = [dz EXCEPT !.rcve = IF on THEN @ \cup {line} ELSE @ \ {line}]
    /\ seen' = NoLine
    /\ UNCHANGED <<taken, read, last>>

\* Mutant of WriteTcr: the scanner stays where it is.
WriteTcrNoScan(enabled) ==
    /\ dz' = [dz EXCEPT !.tcr = enabled]
    /\ seen' = NoLine
    /\ Track(last, dz)
    /\ UNCHANGED <<taken, read>>

\* The enables are in the low byte of TCR, and each byte moves the scanner.
WriteTcr(enabled) ==
    /\ LET d == UpdateTx([dz EXCEPT !.tcr = enabled]) IN dz' \in {d, UpdateTx(d)}
    /\ seen' = NoLine
    /\ Track(last, dz)
    /\ UNCHANGED <<taken, read>>

\* The low byte of TDR: a character for the line of the scanner, refused without TRDY.
Sending == dz.ctl.mse /\ dz.tx.trdy /\ dz.tx.tline \in dz.tcr

WriteTdr ==
    /\ dz' = IF Sending
             THEN UpdateTx([dz EXCEPT !.tx.trdy = FALSE, !.tx.req = FALSE, !.tx.armed = TRUE])
             ELSE dz
    /\ seen' = NoLine
    /\ last' = IF Sending THEN "ready" ELSE last
    /\ UNCHANGED <<taken, read>>

\* Mutant of Pop: the latest character leaves the silo first.
PopLatest(silo) == SubSeq(silo, 1, Len(silo) - 1)

\* dz_silo_pop
Pop(silo) == IF silo = <<>> THEN silo ELSE Tail(silo)

\* The low byte of RBUF takes a character, while the scanner runs.
ReadRbuf ==
    /\ LET cleared == [dz EXCEPT !.rx.sa = FALSE]
           silo == Pop(dz.silo)
       IN  IF dz.ctl.mse
           THEN /\ dz' = [cleared EXCEPT !.silo = silo,
                                         !.rx = RxUpdate(cleared.rx, dz.ctl, Len(silo))]
                /\ read' = [l \in Lines |->
                              IF dz.silo # <<>> /\ Head(dz.silo).line = l
                              THEN Head(dz.silo).char ELSE read[l]]
           ELSE dz' = cleared /\ UNCHANGED read
    /\ UNCHANGED <<taken, seen, last>>

\* dz11_reset
BusReset ==
    /\ dz' = SoftClear
    /\ seen' = NoLine /\ last' = "ready"
    /\ UNCHANGED <<taken, read>>

-----------------------------------------------------------------------------
(* The arbiter's look: both pending functions, of which the receiver's is  *)
(* asked first and wins; only the transmitter's has an acknowledge.        *)

RxPending(d) == d.ctl.rie /\ (IF d.ctl.sae THEN d.rx.sa ELSE d.rx.rdone)

Look ==
    /\ dz' = Update(dz)
    /\ Track(last, dz)
    /\ UNCHANGED <<taken, read, seen>>

GrantTx ==
    LET d == Update(dz)
    IN  /\ ~RxPending(d) /\ d.tx.req
        /\ dz' = [d EXCEPT !.tx.req = FALSE]
        /\ last' = "grant"
        /\ UNCHANGED <<taken, read, seen>>

-----------------------------------------------------------------------------
(* dz11_poll.                                                              *)

\* One line of dz_poll_receive_lines: nothing is taken while the silo is full; of the
\* n characters of a recv those the silo has no room for are dropped.
Receive(s, line, n) ==
    IF line \notin dz.rcve \/ Len(s.silo) >= SiloDepth THEN s
    ELSE LET kept == Min({n, SiloDepth - Len(s.silo)})
         IN  [silo  |-> s.silo \o [i \in 1 .. kept |-> [line |-> line, char |-> taken[line] + i]],
              taken |-> [s.taken EXCEPT ![line] = @ + n]]

\* All lines in order; got[l] is the number of characters a recv on line l returns.
ReceiveAll(got) ==
    LET after[l \in 0 .. LineCount] ==
          IF l = 0 THEN [silo |-> dz.silo, taken |-> taken]
          ELSE Receive(after[l - 1], l - 1, got[l - 1])
    IN  after[LineCount]

Poll ==
    \E got \in [Lines -> 0 .. RecvMax] :
        LET s == ReceiveAll(got)
        IN  /\ \A l \in Lines : taken[l] + got[l] <= MaxIn
            /\ dz' = Update([dz EXCEPT !.silo = s.silo])
            /\ taken' = s.taken
            /\ Track(last, dz)
            /\ UNCHANGED <<read, seen>>

-----------------------------------------------------------------------------
Init ==
    /\ dz = SoftClear
    /\ taken = [l \in Lines |-> 0] /\ read = [l \in Lines |-> 0]
    /\ seen = NoLine /\ last = "ready"

Program ==
    \/ WriteTdr
    \/ ReadCsr
    \/ \E low \in LowByte : WriteCsrLow(low)
    \/ \E high \in HighByte : WriteCsrHigh(high)
    \/ \E low \in LowByte, high \in HighByte : WriteCsr(low, high)
    \/ \E line \in Lines, on \in BOOLEAN : WriteLpr(line, on)
    \/ \E enabled \in SUBSET Lines : WriteTcr(enabled)
    \/ ReadRbuf
    \/ BusReset

Next == Program \/ Look \/ GrantTx \/ Poll

Spec == Init /\ [][Next]_vars

-----------------------------------------------------------------------------
(* Properties.                                                             *)

\* TRDY always speaks for a line that may transmit: however TCR and MSE change under a
\* TRDY already set, a character stored with it set goes to an enabled line.
ReadyLineEnabled == dz.tx.trdy => dz.ctl.mse /\ dz.tx.tline \in dz.tcr

\* The silo's flags are exact between any two accesses: RDONE says there is a
\* character the program can take, the alarm that the silo is full, and neither
\* survives MSE; so the receive interrupt, which follows them, needs no latch.
SiloShown ==
    /\ dz.rx.rdone = (dz.ctl.mse /\ dz.silo # <<>>)
    /\ dz.rx.sa => dz.ctl.mse /\ Len(dz.silo) = SiloDepth
    /\ dz.ctl.mse /\ dz.ctl.sae /\ Len(dz.silo) = SiloDepth => dz.rx.sa

\* No transmit interrupt is lost: a line that became ready has its request pending, once
\* TIE is set, until it is granted or the program withdraws it by clearing TIE; and
\* a request never outlives TRDY or TIE.
TxRequestKept ==
    /\ dz.tx.trdy /\ dz.ctl.tie /\ last = "ready" => dz.tx.req
    /\ dz.tx.req => dz.tx.trdy /\ dz.ctl.tie

\* The transmitter interrupts once for each time TRDY is set, and not for a request
\* the program has withdrawn.
TxOncePerReady == [][GrantTx => last = "ready"]_vars

\* Characters reach the program in the order their line received them and none of
\* them twice, whatever the other lines put between them and whatever was dropped.
RxInOrder ==
    \A i \in 1 .. Len(dz.silo) :
        LET c == dz.silo[i]
        IN  /\ read[c.line] < c.char /\ c.char <= taken[c.line]
            /\ \A j \in 1 .. i - 1 : dz.silo[j].line = c.line => dz.silo[j].char < c.char

\* A character goes to the line that TLINE named when the program read it: "Round-robin
\* transmit line selection via CSR TLINE + TCR enables".
SentWhereRead ==
    [][WriteTdr /\ Sending => seen \in {NoLine, dz.tx.tline}]_vars

=============================================================================
