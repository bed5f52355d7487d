----------------------------- MODULE Dz11_proof -----------------------------
(***************************************************************************)
(* Theorems about the DZ11.  Its transmitter: TRDY speaks for an enabled   *)
(* line, and each time it is set requests one interrupt and no more.  Its  *)
(* receiver: the flags are exact, and the characters of a line reach the   *)
(* program in the order of their arrival.                                  *)
(***************************************************************************)
EXTENDS Dz11, NumberLemmas, SequenceTheorems, TLAPS

\* Types of the control bits and of the transmitter.
Control == [mse : BOOLEAN, rie : BOOLEAN, tie : BOOLEAN, sae : BOOLEAN]
Tx == [trdy : BOOLEAN, tline : Lines, req : BOOLEAN, armed : BOOLEAN]

\* The parts of a device d that the transmitter uses, and their types.
Fields(d) ==
    /\ DOMAIN d = {"ctl", "rx", "tx", "tcr", "rcve", "silo"}
    /\ d.ctl \in Control /\ d.tx \in Tx /\ d.tcr \subseteq Lines

\* TRDY speaks for an enabled line.
Spoken(d) == d.tx.trdy => d.ctl.mse /\ d.tx.tline \in d.tcr

\* What the latch of d and the history h of its request have in common: a latch still
\* armed has seen no TIE since TRDY was set, so that raising TIE requests; one that is
\* not armed has requested, and once that request is granted or withdrawn nothing
\* requests again before TRDY is next set.
Latched(d, h) ==
    /\ ~d.tx.trdy => d.tx.armed /\ ~d.tx.req /\ h = "ready"
    /\ d.tx.trdy /\ h = "ready" =>
          IF d.tx.armed THEN ~d.ctl.tie /\ ~d.tx.req ELSE d.tx.req
    /\ h # "ready" => ~d.tx.armed /\ ~d.tx.req
    /\ d.tx.req => d.ctl.tie

Histories == {"ready", "grant", "withdrawn"}

\* The inductive invariant, as a relation of the device and the history.
Good(d, h) == Fields(d) /\ h \in Histories /\ Spoken(d) /\ Latched(d, h)
TxInv == Good(dz, last)

-----------------------------------------------------------------------------
\* A set of at most eight numbers from 1 on has a least one.
LEMMA LeastExists ==
    ASSUME NEW S \in SUBSET (1 .. 8), S # {}
    PROVE  Min(S) \in S
<1>1. \E x \in S : \A y \in S : x <= y
  <2>1. CASE 1 \in S
        BY <2>1
  <2>2. CASE 1 \notin S /\ 2 \in S
        BY <2>2
  <2>3. CASE 1 \notin S /\ 2 \notin S /\ 3 \in S
        BY <2>3
  <2>4. CASE 1 \notin S /\ 2 \notin S /\ 3 \notin S /\ 4 \in S
        BY <2>4
  <2>5. CASE S \subseteq 5 .. 8 /\ 5 \in S
        BY <2>5
  <2>6. CASE S \subseteq 6 .. 8 /\ 6 \in S
        BY <2>6
  <2>7. CASE S \subseteq 7 .. 8 /\ 7 \in S
        BY <2>7
  <2>8. CASE S \subseteq 8 .. 8 /\ 8 \in S
        BY <2>8
  <2>9. S \subseteq 8 .. 8 => 8 \in S
    <3>1. PICK x \in S : TRUE
          OBVIOUS
    <3>2. x \in 8 .. 8 => x = 8
          OBVIOUS
    <3>.  QED BY <3>1, <3>2
  <2>.  QED BY <2>1, <2>2, <2>3, <2>4, <2>5, <2>6, <2>7, <2>8, <2>9
<1>. QED BY <1>1 DEF Min

\* The scanner finds an enabled line when there is one.
LEMMA NextLineEnabled ==
    ASSUME NEW line \in Lines, NEW enabled \in SUBSET Lines, enabled # {}
    PROVE  NextLine(line, enabled) \in enabled
<1>. DEFINE S == {i \in 1 .. LineCount : (line + i) % LineCount \in enabled}
<1>1. PICK l \in enabled : TRUE
      OBVIOUS
<1>2. LineCount \in 1 .. 8 /\ line \in 0 .. LineCount - 1 /\ l \in 0 .. LineCount - 1
      BY DzAssumption DEF Lines
<1>3. \E i \in 1 .. LineCount : (line + i) % LineCount = l
  <2>1. CASE l > line
    <3>1. l - line \in 1 .. LineCount /\ line + (l - line) = l /\ l % LineCount = l
          BY <1>2, <2>1
    <3>.  QED BY <3>1
  <2>2. CASE l <= line
    <3>1. /\ l - line + LineCount \in 1 .. LineCount
          /\ line + (l - line + LineCount) = l + LineCount
          /\ (l + LineCount) % LineCount = l
          BY <1>2, <2>2
    <3>.  QED BY <3>1
  <2>.  QED BY <1>2, <2>1, <2>2
<1>4. S # {} /\ S \subseteq 1 .. 8
  <2>1. PICK i \in 1 .. LineCount : (line + i) % LineCount = l
        BY <1>3
  <2>2. i \in S
        BY <2>1
  <2>3. 1 .. LineCount \subseteq 1 .. 8
        BY <1>2
  <2>4. S \subseteq 1 .. LineCount
        OBVIOUS
  <2>.  QED BY <2>2, <2>3, <2>4
<1>5. Min(S) \in S
      BY <1>4, LeastExists
<1>. QED BY <1>5 DEF NextLine

-----------------------------------------------------------------------------
(* An update of the flags.                                                 *)

\* e is d with the flags of the transmitter brought up to date.
Updated(d, e) ==
    /\ DOMAIN e = DOMAIN d /\ e.ctl = d.ctl /\ e.tcr = d.tcr
    /\ e.tx = TxUpdate(d.tx, d.ctl, d.tcr)

LEMMA UpdateTxParts ==
    ASSUME NEW d, Fields(d)
    PROVE  Updated(d, UpdateTx(d))
BY DEF Updated, UpdateTx, Fields

\* The flags of the receiver are no part of the transmitter.
LEMMA UpdateParts ==
    ASSUME NEW d, Fields(d)
    PROVE  Updated(d, Update(d))
<1>. DEFINE r == [d EXCEPT !.rx = RxUpdate(d.rx, d.ctl, Len(d.silo))]
<1>1. /\ DOMAIN r = DOMAIN d
      /\ r.ctl = d.ctl /\ r.tx = d.tx /\ r.tcr = d.tcr
      BY DEF Fields
<1>2. Fields(r)
      BY <1>1 DEF Fields
<1>3. Updated(r, UpdateTx(r))
      BY <1>2, UpdateTxParts
<1>4. Update(d) = UpdateTx(r)
      BY DEF Update
<1>. QED BY <1>1, <1>3, <1>4 DEF Updated

\* What an update computes, for the two cases of its condition.
LEMMA TxUpdateOff ==
    ASSUME NEW tx \in Tx, NEW ctl \in Control, NEW enabled \in SUBSET Lines,
           ~ctl.mse \/ enabled = {}
    PROVE  LET t == TxUpdate(tx, ctl, enabled)
           IN  t \in Tx /\ ~t.trdy /\ ~t.req /\ t.armed
BY DEF TxUpdate, Tx

LEMMA TxUpdateOn ==
    ASSUME NEW tx \in Tx, NEW ctl \in Control, NEW enabled \in SUBSET Lines,
           ctl.mse, enabled # {}
    PROVE  LET t == TxUpdate(tx, ctl, enabled)
               raised == ~tx.trdy /\ ctl.tie /\ tx.armed
           IN  /\ t \in Tx /\ t.trdy /\ t.tline \in enabled
               /\ t.req <=> (tx.req \/ raised) /\ ctl.tie
               /\ t.armed <=> tx.armed /\ ~raised
<1>1. NextLine(tx.tline, enabled) \in enabled
      BY NextLineEnabled DEF Tx
<1>. QED BY <1>1 DEF TxUpdate, Tx, Control

\* An update keeps the latch and the history together, and makes TRDY speak for an
\* enabled line whatever it spoke for before.
LEMMA UpdatedGood ==
    ASSUME NEW d, Fields(d), NEW h \in Histories, Latched(d, h),
           NEW e, Updated(d, e)
    PROVE  Good(e, History(h, d, e))
<1>. DEFINE g == History(h, d, e)
<1>1. d.tx \in Tx /\ d.ctl \in Control /\ d.tcr \in SUBSET Lines
      BY DEF Fields
<1>2. CASE ~d.ctl.mse \/ d.tcr = {}
  <2>1. e.tx \in Tx /\ ~e.tx.trdy /\ ~e.tx.req /\ e.tx.armed
        BY <1>1, <1>2, TxUpdateOff DEF Updated
  <2>2. g = "ready"
        BY <2>1 DEF History
  <2>.  QED BY <2>1, <2>2 DEF Good, Fields, Updated, Spoken, Latched, Histories
<1>3. CASE ~(~d.ctl.mse \/ d.tcr = {})
  <2>1. /\ e.tx \in Tx /\ e.tx.trdy /\ e.tx.tline \in d.tcr
        /\ e.tx.req <=> (d.tx.req \/ (~d.tx.trdy /\ d.ctl.tie /\ d.tx.armed)) /\ d.ctl.tie
        /\ e.tx.armed <=> d.tx.armed /\ ~(~d.tx.trdy /\ d.ctl.tie /\ d.tx.armed)
        BY <1>1, <1>3, TxUpdateOn DEF Updated
  <2>2. Fields(e) /\ Spoken(e)
        BY <1>3, <2>1 DEF Fields, Updated, Spoken
  <2>3. g = IF d.tx.trdy THEN h ELSE "ready"
        BY <2>1 DEF History, Updated, Latched
  <2>4. Latched(e, g)
        BY <2>1, <2>3 DEF Updated, Latched
  <2>.  QED BY <2>2, <2>3, <2>4 DEF Good, Histories
<1>. QED BY <1>2, <1>3

\* A second update adds nothing to the history.
LEMMA UpdatedTwice ==
    ASSUME NEW d, Fields(d), NEW h \in Histories, Latched(d, h),
           NEW e, Updated(d, e), NEW f, Updated(e, f)
    PROVE  Good(f, History(h, d, f))
<1>1. Good(e, History(h, d, e))
      BY UpdatedGood
<1>2. Good(f, History(History(h, d, e), e, f))
      BY <1>1, UpdatedGood DEF Good
<1>3. History(History(h, d, e), e, f) = History(h, d, f)
  <2>1. CASE ~d.ctl.mse \/ d.tcr = {}
    <3>1. ~f.tx.trdy
          BY <1>1, <2>1, TxUpdateOff DEF Good, Fields, Updated
    <3>.  QED BY <3>1 DEF History
  <2>2. CASE ~(~d.ctl.mse \/ d.tcr = {})
    <3>1. e.tx.trdy
          BY <2>2, TxUpdateOn DEF Fields, Updated
    <3>2. d.tx.req => d.ctl.tie
          BY DEF Latched
    <3>3. e.tx.req => e.ctl.tie
          BY <1>1 DEF Good, Latched
    <3>4. f.ctl.tie = d.ctl.tie /\ e.ctl.tie = d.ctl.tie
          BY DEF Updated
    <3>.  QED BY <3>1, <3>2, <3>3, <3>4 DEF History
  <2>.  QED BY <2>1, <2>2
<1>. QED BY <1>2, <1>3

-----------------------------------------------------------------------------
(* A store into the CSR.                                                   *)

LEMMA SoftClearGood == Good(SoftClear, "ready")
<1>1. SoftClear.tx \in Tx /\ SoftClear.ctl \in Control /\ SoftClear.tcr = {}
      BY DzAssumption DEF SoftClear, Tx, Control, Lines
<1>2. ~SoftClear.tx.trdy /\ SoftClear.tx.armed /\ ~SoftClear.tx.req
      BY DEF SoftClear
<1>3. DOMAIN SoftClear = {"ctl", "rx", "tx", "tcr", "rcve", "silo"}
      BY DEF SoftClear
<1>. QED BY <1>1, <1>2, <1>3 DEF Good, Fields, Spoken, Latched, Histories

\* The flags are brought up to date from the device b that the clear leaves, and then
\* a rise of TIE may request.
Stored(d, b, ctl, e) ==
    LET t == TxUpdate(b.tx, ctl, b.tcr)
        raised == ~d.ctl.tie /\ ctl.tie /\ t.trdy /\ t.armed
    IN  /\ DOMAIN e = DOMAIN d /\ e.ctl = ctl /\ e.tcr = b.tcr
        /\ e.tx = [t EXCEPT !.req = (@ \/ raised) /\ ctl.tie, !.armed = @ /\ ~raised]

LEMMA StoreCsrParts ==
    ASSUME NEW d, Fields(d), NEW ctl \in Control, NEW clr \in BOOLEAN
    PROVE  Stored(d, IF clr THEN SoftClear ELSE d, ctl, StoreCsr(d, ctl, clr))
<1>. DEFINE b == IF clr THEN SoftClear ELSE d
            c == [b EXCEPT !.ctl = ctl]
            u == Update(c)
            t == TxUpdate(b.tx, ctl, b.tcr)
            raised == ~d.ctl.tie /\ ctl.tie /\ t.trdy /\ t.armed
<1>1. Fields(b)
      BY SoftClearGood DEF Good
<1>2. /\ DOMAIN c = DOMAIN b /\ c.ctl = ctl
      /\ c.tx = b.tx /\ c.tcr = b.tcr
      BY <1>1 DEF Fields
<1>3. Fields(c)
      BY <1>1, <1>2 DEF Fields
<1>4. Updated(c, u)
      BY <1>3, UpdateParts
<1>5. /\ DOMAIN u = {"ctl", "rx", "tx", "tcr", "rcve", "silo"}
      /\ u.ctl = ctl /\ u.tcr = b.tcr /\ u.tx = t
      BY <1>2, <1>3, <1>4 DEF Updated, Fields
<1>6. t \in Tx
      BY <1>1, TxUpdateOff, TxUpdateOn DEF Fields
<1>. HIDE DEF b, t
<1>7. StoreCsr(d, ctl, clr) = [u EXCEPT !.tx.req = (@ \/ raised) /\ ctl.tie,
                                        !.tx.armed = @ /\ ~raised]
      BY <1>5 DEF StoreCsr, b
<1>. HIDE DEF u
<1>. QED BY <1>5, <1>6, <1>7 DEF Fields, Tx, b, t, Stored

\* A store into the CSR keeps the latch and the history together.
LEMMA StoreCsrGood ==
    ASSUME NEW d, NEW h \in Histories, Good(d, h), NEW ctl \in Control, NEW clr \in BOOLEAN
    PROVE  LET e == StoreCsr(d, ctl, clr) IN Good(e, History(h, d, e))
<1>. DEFINE e == StoreCsr(d, ctl, clr)
            b == IF clr THEN SoftClear ELSE d
            t == TxUpdate(b.tx, ctl, b.tcr)
            raised == ~d.ctl.tie /\ ctl.tie /\ t.trdy /\ t.armed
<1>1. Fields(d) /\ Fields(b) /\ Latched(d, h)
      BY SoftClearGood DEF Good
<1>2. /\ DOMAIN e = DOMAIN d /\ e.ctl = ctl /\ e.tcr = b.tcr
      /\ e.tx = [t EXCEPT !.req = (@ \/ raised) /\ ctl.tie, !.armed = @ /\ ~raised]
  <2>1. Stored(d, b, ctl, e)
        BY <1>1, StoreCsrParts
  <2>.  QED BY <2>1 DEF Stored
<1>3. b.tx \in Tx /\ b.tcr \in SUBSET Lines
      BY <1>1 DEF Fields
<1>. HIDE DEF b, e
<1>4. CASE ~ctl.mse \/ b.tcr = {}
  <2>1. t \in Tx /\ ~t.trdy /\ ~t.req /\ t.armed
        BY <1>3, <1>4, TxUpdateOff
  <2>2. e.tx \in Tx /\ ~e.tx.trdy /\ ~e.tx.req /\ e.tx.armed
        BY <1>2, <2>1 DEF Tx, Control
  <2>3. History(h, d, e) = "ready"
        BY <2>2 DEF History
  <2>.  QED BY <1>1, <1>2, <1>3, <2>2, <2>3 DEF Good, Fields, Spoken, Latched, Histories, e
<1>5. CASE ~(~ctl.mse \/ b.tcr = {})
  <2>1. b = d
        BY <1>5 DEF b, SoftClear
  <2>2. LET rise == ~d.tx.trdy /\ ctl.tie /\ d.tx.armed
        IN  /\ t \in Tx /\ t.trdy /\ t.tline \in d.tcr
            /\ t.req <=> (d.tx.req \/ rise) /\ ctl.tie
            /\ t.armed <=> d.tx.armed /\ ~rise
        BY <1>3, <1>5, <2>1, TxUpdateOn
  <2>. HIDE DEF t
  <2>3. /\ e.tx \in Tx /\ e.tx.trdy /\ e.tx.tline \in d.tcr
        /\ e.tx.req <=> (t.req \/ raised) /\ ctl.tie
        /\ e.tx.armed <=> t.armed /\ ~raised
        BY <1>2, <2>2 DEF Tx, Control
  <2>4. Fields(e) /\ Spoken(e)
        BY <1>1, <1>2, <1>5, <2>1, <2>3 DEF Fields, Spoken
  <2>5. Latched(e, History(h, d, e)) /\ History(h, d, e) \in Histories
        BY <1>1, <1>2, <2>2, <2>3 DEF Latched, History, Histories
  <2>.  QED BY <2>4, <2>5 DEF Good, e
<1>. QED BY <1>4, <1>5

\* Its two bytes.
LEMMA StoreBytesGood ==
    ASSUME NEW d, NEW h \in Histories, Good(d, h)
    PROVE  /\ \A low \in LowByte :
                 Good(StoreCsrLow(d, low), History(h, d, StoreCsrLow(d, low)))
           /\ \A high \in HighByte :
                 Good(StoreCsrHigh(d, high), History(h, d, StoreCsrHigh(d, high)))
<1>1. d.ctl \in Control
      BY DEF Good, Fields
<1>2. ASSUME NEW low \in LowByte
      PROVE  Good(StoreCsrLow(d, low), History(h, d, StoreCsrLow(d, low)))
  <2>1. [d.ctl EXCEPT !.mse = low.mse, !.rie = low.rie] \in Control /\ low.clr \in BOOLEAN
        BY <1>1 DEF Control, LowByte
  <2>.  QED BY <2>1, StoreCsrGood DEF StoreCsrLow
<1>3. ASSUME NEW high \in HighByte
      PROVE  Good(StoreCsrHigh(d, high), History(h, d, StoreCsrHigh(d, high)))
  <2>1. [d.ctl EXCEPT !.tie = high.tie, !.sae = high.sae] \in Control
        BY <1>1 DEF Control, HighByte
  <2>.  QED BY <2>1, StoreCsrGood DEF StoreCsrHigh
<1>. QED BY <1>2, <1>3

-----------------------------------------------------------------------------
(* The actions.                                                            *)

\* A step that leaves what the transmitter uses as it is.
LEMMA Untouched ==
    ASSUME NEW d, NEW h, Good(d, h), NEW e,
           DOMAIN e = DOMAIN d, e.ctl = d.ctl, e.tx = d.tx, e.tcr = d.tcr
    PROVE  Good(e, h)
BY DEF Good, Fields, Spoken, Latched

LEMMA CsrKeeps ==
    ASSUME TxInv, NEW low \in LowByte, NEW high \in HighByte,
           WriteCsrLow(low) \/ WriteCsrHigh(high) \/ WriteCsr(low, high)
    PROVE  TxInv'
<1>1. last \in Histories
      BY DEF TxInv, Good
<1>2. CASE WriteCsrLow(low)
      BY <1>1, <1>2, StoreBytesGood DEF WriteCsrLow, Track, TxInv
<1>3. CASE WriteCsrHigh(high)
      BY <1>1, <1>3, StoreBytesGood DEF WriteCsrHigh, Track, TxInv
<1>4. CASE WriteCsr(low, high)
  <2>. DEFINE half == StoreCsrLow(dz, low)
              h == History(last, dz, half)
  <2>1. Good(half, h) /\ h \in Histories
        BY <1>1, StoreBytesGood DEF TxInv, Good
  <2>2. dz' = StoreCsrHigh(half, high) /\ last' = History(h, half, dz')
        BY <1>4 DEF WriteCsr, Track
  <2>. HIDE DEF half, h
  <2>.  QED BY <2>1, <2>2, StoreBytesGood DEF TxInv
<1>. QED BY <1>2, <1>3, <1>4

LEMMA ReadCsrKeeps ==
    ASSUME TxInv, ReadCsr
    PROVE  TxInv'
<1>1. Fields(dz) /\ last \in Histories /\ Latched(dz, last)
      BY DEF TxInv, Good
<1>2. last' = History(last, dz, dz')
      BY DEF ReadCsr, Track
<1>3. Updated(dz, Update(dz))
      BY <1>1, UpdateParts
<1>4. CASE dz' = Update(dz)
      BY <1>1, <1>2, <1>3, <1>4, UpdatedGood DEF TxInv
<1>5. CASE dz' = Update(Update(dz))
  <2>1. Fields(Update(dz))
        BY <1>1, <1>3, UpdatedGood DEF Good
  <2>2. Updated(Update(dz), Update(Update(dz)))
        BY <2>1, UpdateParts
  <2>.  QED BY <1>1, <1>2, <1>3, <1>5, <2>2, UpdatedTwice DEF TxInv
<1>. QED BY <1>4, <1>5 DEF ReadCsr

\* TRDY may have spoken for a line that TCR disables: the update moves the scanner.
LEMMA WriteTcrKeeps ==
    ASSUME TxInv, NEW enabled \in SUBSET Lines, WriteTcr(enabled)
    PROVE  TxInv'
<1>. DEFINE c == [dz EXCEPT !.tcr = enabled]
            d == UpdateTx(c)
<1>1. Fields(dz) /\ last \in Histories /\ Latched(dz, last)
      BY DEF TxInv, Good
<1>2. c.ctl = dz.ctl /\ c.tx = dz.tx /\ c.tcr = enabled /\ DOMAIN c = DOMAIN dz
      BY <1>1 DEF Fields
<1>3. Fields(c) /\ Latched(c, last)
      BY <1>1, <1>2 DEF Fields, Latched
<1>4. History(last, c, dz') = History(last, dz, dz')
      BY <1>2 DEF History
<1>5. last' = History(last, c, dz')
      BY <1>4 DEF WriteTcr, Track
<1>6. dz' = d \/ dz' = UpdateTx(d)
      BY DEF WriteTcr
<1>. HIDE DEF c
<1>7. Updated(c, d)
      BY <1>3, UpdateTxParts
<1>8. Fields(d)
      BY <1>1, <1>3, <1>7, UpdatedGood DEF Good
<1>9. Updated(d, UpdateTx(d))
      BY <1>8, UpdateTxParts
<1>10. CASE dz' = d
      BY <1>1, <1>3, <1>5, <1>7, <1>10, UpdatedGood DEF TxInv
<1>11. CASE dz' = UpdateTx(d)
      BY <1>1, <1>3, <1>5, <1>7, <1>9, <1>11, UpdatedTwice DEF TxInv
<1>. QED BY <1>6, <1>10, <1>11

\* A character sent clears TRDY and arms the latch; the update may set TRDY again.
LEMMA WriteTdrKeeps ==
    ASSUME TxInv, WriteTdr
    PROVE  TxInv'
<1>1. Good(dz, last)
      BY DEF TxInv
<1>2. CASE Sending
  <2>. DEFINE c == [dz EXCEPT !.tx.trdy = FALSE, !.tx.req = FALSE, !.tx.armed = TRUE]
  <2>1. /\ DOMAIN c = DOMAIN dz /\ c.ctl = dz.ctl /\ c.tcr = dz.tcr /\ c.tx \in Tx
        /\ ~c.tx.trdy /\ ~c.tx.req /\ c.tx.armed
        BY <1>1 DEF Good, Fields, Tx
  <2>2. dz' = UpdateTx(c) /\ last' = "ready"
        BY <1>2 DEF WriteTdr
  <2>. HIDE DEF c
  <2>3. Fields(c) /\ Latched(c, "ready") /\ "ready" \in Histories
        BY <1>1, <2>1 DEF Good, Fields, Latched, Histories
  <2>4. Updated(c, UpdateTx(c))
        BY <2>3, UpdateTxParts
  <2>5. History("ready", c, UpdateTx(c)) = "ready"
        BY <2>1 DEF History
  <2>6. Good(UpdateTx(c), History("ready", c, UpdateTx(c)))
        BY <2>3, <2>4, UpdatedGood
  <2>.  QED BY <2>2, <2>5, <2>6 DEF TxInv
<1>3. CASE ~Sending
      BY <1>1, <1>3 DEF WriteTdr, TxInv
<1>. QED BY <1>2, <1>3

LEMMA ReceiverKeeps ==
    ASSUME TxInv, ReadRbuf \/ \E line \in Lines, on \in BOOLEAN : WriteLpr(line, on)
    PROVE  TxInv'
<1>1. Good(dz, last) /\ Fields(dz)
      BY DEF TxInv, Good
<1>2. last' = last
      BY DEF ReadRbuf, WriteLpr
<1>3. DOMAIN dz' = DOMAIN dz /\ dz'.ctl = dz.ctl /\ dz'.tx = dz.tx /\ dz'.tcr = dz.tcr
      BY <1>1 DEF ReadRbuf, WriteLpr, Fields
<1>. QED BY <1>1, <1>2, <1>3, Untouched DEF TxInv

LEMMA PollKeeps ==
    ASSUME TxInv, Look \/ Poll
    PROVE  TxInv'
<1>1. Fields(dz) /\ last \in Histories /\ Latched(dz, last)
      BY DEF TxInv, Good
<1>2. last' = History(last, dz, dz')
      BY DEF Look, Poll, Track
<1>3. CASE Look
  <2>1. Updated(dz, Update(dz))
        BY <1>1, UpdateParts
  <2>.  QED BY <1>1, <1>2, <1>3, <2>1, UpdatedGood DEF Look, TxInv
<1>4. CASE Poll
  <2>1. PICK silo : dz' = Update([dz EXCEPT !.silo = silo])
        BY <1>4 DEF Poll
  <2>. DEFINE c == [dz EXCEPT !.silo = silo]
  <2>2. c.ctl = dz.ctl /\ c.tx = dz.tx /\ c.tcr = dz.tcr /\ DOMAIN c = DOMAIN dz
        BY <1>1 DEF Fields
  <2>3. Fields(c) /\ Latched(c, last)
        BY <1>1, <2>2 DEF Fields, Latched
  <2>4. History(last, c, dz') = History(last, dz, dz')
        BY <2>2 DEF History
  <2>. HIDE DEF c
  <2>5. Updated(c, dz')
        BY <2>1, <2>3, UpdateParts DEF c
  <2>.  QED BY <1>1, <1>2, <2>3, <2>4, <2>5, UpdatedGood DEF TxInv
<1>. QED BY <1>3, <1>4

\* Only a request not yet granted is there to grant.
LEMMA GrantKeeps ==
    ASSUME TxInv, GrantTx
    PROVE  TxInv' /\ last = "ready"
<1>. DEFINE d == Update(dz)
            h == History(last, dz, d)
<1>1. Fields(dz) /\ last \in Histories /\ Latched(dz, last)
      BY DEF TxInv, Good
<1>2. d.tx.req /\ dz' = [d EXCEPT !.tx.req = FALSE] /\ last' = "grant"
      BY DEF GrantTx
<1>3. Updated(dz, d)
      BY <1>1, UpdateParts
<1>4. Good(d, h)
      BY <1>1, <1>3, UpdatedGood
<1>. HIDE DEF d
<1>5. h = "ready" /\ d.tx.trdy /\ ~d.tx.armed
      BY <1>2, <1>4 DEF Good, Latched
<1>6. last = "ready"
      BY <1>1, <1>5 DEF History, Latched
<1>7. /\ DOMAIN dz' = DOMAIN d /\ dz'.ctl = d.ctl /\ dz'.tcr = d.tcr
      /\ dz'.tx = [d.tx EXCEPT !.req = FALSE]
      BY <1>2, <1>4 DEF Good, Fields
<1>8. /\ dz'.tx \in Tx /\ ~dz'.tx.req /\ ~dz'.tx.armed
      /\ dz'.tx.trdy /\ dz'.tx.tline = d.tx.tline
      BY <1>4, <1>5, <1>7 DEF Good, Fields, Tx
<1>9. Good(dz', "grant")
      BY <1>4, <1>7, <1>8 DEF Good, Fields, Spoken, Latched, Histories
<1>. QED BY <1>2, <1>6, <1>9 DEF TxInv

-----------------------------------------------------------------------------
(* The invariant and what follows from it.                                 *)

LEMMA TxInvInit ==
    ASSUME Init PROVE TxInv
BY SoftClearGood DEF Init, TxInv

LEMMA TxInvStep ==
    ASSUME TxInv, [Next]_vars PROVE TxInv'
<1>1. CASE WriteTdr
      BY <1>1, WriteTdrKeeps
<1>2. CASE ReadCsr
      BY <1>2, ReadCsrKeeps
<1>3. CASE \E low \in LowByte : WriteCsrLow(low)
  <2>1. [tie |-> TRUE, sae |-> TRUE] \in HighByte
        BY DEF HighByte
  <2>.  QED BY <1>3, <2>1, CsrKeeps
<1>4. CASE \E high \in HighByte : WriteCsrHigh(high)
  <2>1. [mse |-> TRUE, rie |-> TRUE, clr |-> TRUE] \in LowByte
        BY DEF LowByte
  <2>.  QED BY <1>4, <2>1, CsrKeeps
<1>5. CASE \E low \in LowByte, high \in HighByte : WriteCsr(low, high)
      BY <1>5, CsrKeeps
<1>6. CASE ReadRbuf \/ \E line \in Lines, on \in BOOLEAN : WriteLpr(line, on)
      BY <1>6, ReceiverKeeps
<1>7. CASE \E enabled \in SUBSET Lines : WriteTcr(enabled)
      BY <1>7, WriteTcrKeeps
<1>8. CASE BusReset
      BY <1>8, SoftClearGood DEF BusReset, TxInv
<1>9. CASE Look \/ Poll
      BY <1>9, PollKeeps
<1>10. CASE GrantTx
      BY <1>10, GrantKeeps
<1>11. CASE UNCHANGED vars
      BY <1>11 DEF vars, TxInv
<1>. QED BY <1>1, <1>2, <1>3, <1>4, <1>5, <1>6, <1>7, <1>8, <1>9, <1>10, <1>11
         DEF Next, Program

LEMMA TxInvariant == Spec => []TxInv
<1>. QED BY TxInvInit, TxInvStep, PTL DEF Spec

\* TRDY always speaks for a line that may transmit, for any number of lines: the
\* scanner of dz_update_transmit_flags is never left behind by TCR or MSE.
THEOREM ReadyLineAlwaysEnabled == Spec => []ReadyLineEnabled
<1>1. TxInv => ReadyLineEnabled
      BY DEF TxInv, Good, Spoken, ReadyLineEnabled
<1>. QED BY <1>1, TxInvariant, PTL

\* No transmit interrupt is lost or outlives its cause: the latch that dz_write_csr and
\* dz_update_transmit_flags share holds a request for each TRDY that TIE admits.
THEOREM TxRequestAlwaysKept == Spec => []TxRequestKept
<1>1. TxInv => TxRequestKept
      BY DEF TxInv, Good, Latched, TxRequestKept
<1>. QED BY <1>1, TxInvariant, PTL

\* One TRDY, one interrupt: dz11_irq_ack grants only what became ready since the last
\* grant, and nothing the program has withdrawn.
THEOREM TxInterruptsOnce == Spec => TxOncePerReady
<1>1. TxInv /\ [Next]_vars => [GrantTx => last = "ready"]_vars
      BY GrantKeeps
<1>. QED BY <1>1, TxInvariant, PTL DEF Spec, TxOncePerReady

-----------------------------------------------------------------------------
(* The receiver: what the silo holds, and what its flags show of it.       *)

Chars == [line : Lines, char : Nat]

\* The characters of the silo s are after those the program has read of their line,
\* among those taken, and of one line in the order of their arrival.
Ordered(s, t, r) ==
    \A i \in 1 .. Len(s) :
        /\ r[s[i].line] < s[i].char /\ s[i].char <= t[s[i].line]
        /\ \A j \in 1 .. i - 1 : s[j].line = s[i].line => s[j].char < s[i].char

Kept(s, t, r) ==
    /\ s \in Seq(Chars) /\ Len(s) <= SiloDepth
    /\ t \in [Lines -> Nat] /\ r \in [Lines -> Nat]
    /\ \A l \in Lines : r[l] <= t[l]
    /\ Ordered(s, t, r)

Shown(rx, ctl, s) ==
    /\ rx.rdone = (ctl.mse /\ s # <<>>)
    /\ rx.sa => ctl.mse /\ Len(s) = SiloDepth
    /\ ctl.mse /\ ctl.sae /\ Len(s) = SiloDepth => rx.sa

RxTyped(d) == d.rx \in [rdone : BOOLEAN, sa : BOOLEAN]

\* The inductive invariant, for a device d and the two histories of its characters.
Received(d, t, r) == Kept(d.silo, t, r) /\ Shown(d.rx, d.ctl, d.silo) /\ RxTyped(d)
RxInv == Received(dz, taken, read)

\* Nothing is held back by an empty silo.
LEMMA KeptEmpty ==
    ASSUME NEW t \in [Lines -> Nat], NEW r \in [Lines -> Nat],
           \A l \in Lines : r[l] <= t[l]
    PROVE  Kept(<<>>, t, r)
<1>1. <<>> \in Seq(Chars) /\ Len(<<>>) = 0 /\ 0 <= SiloDepth
      BY EmptySeq, DzAssumption
<1>2. Ordered(<<>>, t, r)
      BY <1>1 DEF Ordered
<1>. QED BY <1>1, <1>2 DEF Kept

\* The characters of a recv on one line, as many of them as there is room for.
LEMMA KeptAppend ==
    ASSUME NEW s, NEW t, NEW r, Kept(s, t, r), NEW line \in Lines, NEW n \in Nat,
           NEW k \in Nat, k <= n, Len(s) + k <= SiloDepth
    PROVE  Kept(s \o [i \in 1 .. k |-> [line |-> line, char |-> t[line] + i]],
                [t EXCEPT ![line] = @ + n], r)
<1>. DEFINE new == [i \in 1 .. k |-> [line |-> line, char |-> t[line] + i]]
            a == s \o new
            u == [t EXCEPT ![line] = @ + n]
<1>1. /\ s \in Seq(Chars) /\ Len(s) \in Nat /\ Len(s) <= SiloDepth
      /\ t \in [Lines -> Nat] /\ r \in [Lines -> Nat] /\ Ordered(s, t, r)
      /\ \A l \in Lines : r[l] <= t[l]
      BY DEF Kept
<1>2. new \in Seq(Chars) /\ Len(new) = k
  <2>1. \A i \in 1 .. k : [line |-> line, char |-> t[line] + i] \in Chars
        BY <1>1 DEF Chars
  <2>2. new \in Seq(Chars)
        BY <2>1
  <2>3. DOMAIN new = 1 .. k
        OBVIOUS
  <2>.  QED BY <2>2, <2>3, LenProperties
<1>3. u \in [Lines -> Nat] /\ u[line] = t[line] + n
      /\ \A l \in Lines : t[l] <= u[l]
      BY <1>1
<1>4. \A i \in 1 .. k : new[i] = [line |-> line, char |-> t[line] + i]
      OBVIOUS
<1>. HIDE DEF new, u
<1>5. /\ a \in Seq(Chars) /\ Len(a) = Len(s) + k
      /\ \A i \in 1 .. Len(a) : a[i] = IF i <= Len(s) THEN s[i] ELSE new[i - Len(s)]
      BY <1>1, <1>2, ConcatProperties
<1>. HIDE DEF a
<1>6. \A i \in 1 .. Len(s) : a[i] = s[i] /\ s[i] \in Chars
      BY <1>1, <1>5, ElementOfSeq
<1>7. ASSUME NEW i \in 1 .. Len(a), i > Len(s)
      PROVE  a[i].line = line /\ a[i].char = t[line] + (i - Len(s))
  <2>1. i - Len(s) \in 1 .. k /\ a[i] = new[i - Len(s)]
        BY <1>1, <1>5, <1>7
  <2>2. new[i - Len(s)] = [line |-> line, char |-> t[line] + (i - Len(s))]
        BY <1>4, <2>1
  <2>.  QED BY <2>1, <2>2
<1>8. ASSUME NEW i \in 1 .. Len(a)
      PROVE  /\ r[a[i].line] < a[i].char /\ a[i].char <= u[a[i].line]
             /\ \A j \in 1 .. i - 1 : a[j].line = a[i].line => a[j].char < a[i].char
  <2>1. CASE i <= Len(s)
    <3>1. i \in 1 .. Len(s) /\ a[i] = s[i] /\ s[i].line \in Lines /\ s[i].char \in Nat
          BY <1>1, <1>6, <2>1 DEF Chars
    <3>2. /\ r[s[i].line] < s[i].char /\ s[i].char <= t[s[i].line]
          /\ \A j \in 1 .. i - 1 : s[j].line = s[i].line => s[j].char < s[i].char
          BY <1>1, <3>1 DEF Ordered
    <3>3. s[i].char <= u[s[i].line]
          BY <1>1, <1>3, <3>1, <3>2
    <3>4. \A j \in 1 .. i - 1 : a[j] = s[j]
          BY <1>1, <1>6, <3>1
    <3>.  QED BY <3>1, <3>2, <3>3, <3>4
  <2>2. CASE i > Len(s)
    <3>1. /\ a[i].line = line /\ a[i].char = t[line] + (i - Len(s))
          /\ i - Len(s) \in 1 .. k
          BY <1>1, <1>5, <1>7, <2>2
    <3>2. r[line] < a[i].char /\ a[i].char <= u[line]
          BY <1>1, <1>3, <3>1
    <3>3. ASSUME NEW j \in 1 .. i - 1, a[j].line = line
          PROVE  a[j].char < a[i].char
      <4>1. CASE j <= Len(s)
        <5>1. j \in 1 .. Len(s) /\ a[j] = s[j] /\ s[j].char \in Nat
              BY <1>1, <1>6, <4>1 DEF Chars
        <5>2. s[j].char <= t[line]
              BY <1>1, <3>3, <5>1 DEF Ordered
        <5>.  QED BY <1>1, <3>1, <5>1, <5>2
      <4>2. CASE j > Len(s)
        <5>1. j \in 1 .. Len(a)
              BY <1>5
        <5>2. a[j].char = t[line] + (j - Len(s))
              BY <1>7, <4>2, <5>1
        <5>.  QED BY <1>1, <3>1, <5>2
      <4>.  QED BY <1>1, <4>1, <4>2
    <3>.  QED BY <3>1, <3>2, <3>3
  <2>.  QED BY <1>1, <2>1, <2>2
<1>9. Ordered(a, u, r)
      BY <1>8 DEF Ordered
<1>10. \A l \in Lines : r[l] <= u[l]
      BY <1>1, <1>3
<1>11. Kept(a, u, r)
      BY <1>1, <1>3, <1>5, <1>9, <1>10 DEF Kept
<1>. QED BY <1>11 DEF a, u, new

\* The oldest character leaves the silo, and is the last its line has read.
LEMMA KeptPop ==
    ASSUME NEW s, NEW t, NEW r, Kept(s, t, r), s # <<>>
    PROVE  Kept(Tail(s), t, [l \in Lines |-> IF Head(s).line = l THEN Head(s).char ELSE r[l]])
<1>. DEFINE q == [l \in Lines |-> IF Head(s).line = l THEN Head(s).char ELSE r[l]]
            a == Tail(s)
<1>1. /\ s \in Seq(Chars) /\ Len(s) \in Nat /\ Len(s) <= SiloDepth
      /\ t \in [Lines -> Nat] /\ r \in [Lines -> Nat] /\ Ordered(s, t, r)
      /\ \A l \in Lines : r[l] <= t[l]
      BY DEF Kept
<1>2. /\ Head(s) = s[1] /\ a \in Seq(Chars) /\ Len(a) = Len(s) - 1
      /\ \A i \in 1 .. Len(a) : a[i] = s[i + 1]
      BY <1>1, HeadTailProperties
<1>3. Len(s) >= 1
      BY <1>1, EmptySeq
<1>4. ASSUME NEW i \in 1 .. Len(s) PROVE s[i].line \in Lines /\ s[i].char \in Nat
  <2>1. s[i] \in Chars
        BY <1>1, ElementOfSeq
  <2>.  QED BY <2>1 DEF Chars
<1>5. s[1].char <= t[s[1].line]
      BY <1>1, <1>3 DEF Ordered
<1>6. /\ q \in [Lines -> Nat] /\ \A l \in Lines : q[l] <= t[l]
      /\ \A l \in Lines : q[l] = IF s[1].line = l THEN s[1].char ELSE r[l]
      BY <1>1, <1>2, <1>3, <1>4, <1>5
<1>. HIDE DEF q, a
<1>7. ASSUME NEW i \in 1 .. Len(a)
      PROVE  /\ q[a[i].line] < a[i].char /\ a[i].char <= t[a[i].line]
             /\ \A j \in 1 .. i - 1 : a[j].line = a[i].line => a[j].char < a[i].char
  <2>1. i + 1 \in 1 .. Len(s) /\ a[i] = s[i + 1]
        BY <1>1, <1>2
  <2>2. /\ r[s[i + 1].line] < s[i + 1].char /\ s[i + 1].char <= t[s[i + 1].line]
        /\ \A j \in 1 .. i : s[j].line = s[i + 1].line => s[j].char < s[i + 1].char
        BY <1>1, <2>1 DEF Ordered
  <2>3. q[s[i + 1].line] < s[i + 1].char
        BY <1>4, <1>6, <2>1, <2>2
  <2>4. ASSUME NEW j \in 1 .. i - 1, a[j].line = a[i].line PROVE a[j].char < a[i].char
    <3>1. j \in 1 .. Len(a) /\ j + 1 \in 1 .. i
          BY <1>1, <1>2
    <3>2. a[j] = s[j + 1]
          BY <1>2, <3>1
    <3>.  QED BY <2>1, <2>2, <2>4, <3>1, <3>2
  <2>.  QED BY <2>1, <2>2, <2>3, <2>4
<1>8. Ordered(a, t, q)
      BY <1>7 DEF Ordered
<1>9. Kept(a, t, q)
      BY <1>1, <1>2, <1>6, <1>8, DzAssumption DEF Kept
<1>. QED BY <1>9 DEF a, q

-----------------------------------------------------------------------------
(* A poll of all lines.  The state after each line is the value of a       *)
(* recursive function; that there is one is itself an induction.           *)

\* f follows the loop of dz_poll_receive_lines over the first n lines.
Follows(n, f, got) ==
    f = [l \in 0 .. n |-> IF l = 0 THEN [silo |-> dz.silo, taken |-> taken]
                          ELSE Receive(f[l - 1], l - 1, got[l - 1])]

After(got) == CHOOSE f : Follows(LineCount, f, got)

LEMMA LoopFollowed ==
    ASSUME NEW got
    PROVE  Follows(LineCount, After(got), got)
<1>. DEFINE Fails == {n \in Nat : ~\E f : Follows(n, f, got)}
<1>1. Fails = {}
  <2>1. SUFFICES ASSUME Fails # {} PROVE FALSE
        OBVIOUS
  <2>2. PICK n \in Fails : \A m \in Fails : n <= m
        BY <2>1, LeastNatural
  <2>3. CASE n = 0
    <3>1. Follows(0, [l \in 0 .. 0 |-> [silo |-> dz.silo, taken |-> taken]], got)
          BY DEF Follows
    <3>.  QED BY <2>2, <2>3, <3>1
  <2>4. CASE n # 0
    <3>1. n \in Nat /\ n - 1 \in Nat /\ ~(n <= n - 1)
          BY <2>2, <2>4
    <3>2. PICK f : Follows(n - 1, f, got)
          BY <2>2, <3>1
    <3>. DEFINE g == [l \in 0 .. n |-> IF l = n THEN Receive(f[n - 1], n - 1, got[n - 1])
                                       ELSE f[l]]
    <3>3. \A l \in 0 .. n - 1 : g[l] = f[l]
          BY <3>1
    <3>4. g[n] = Receive(f[n - 1], n - 1, got[n - 1])
          BY <3>1
    <3>5. DOMAIN g = 0 .. n /\ g = [l \in 0 .. n |-> g[l]]
          OBVIOUS
    <3>. HIDE DEF g
    <3>6. ASSUME NEW l \in 0 .. n
          PROVE  g[l] = IF l = 0 THEN [silo |-> dz.silo, taken |-> taken]
                        ELSE Receive(g[l - 1], l - 1, got[l - 1])
      <4>1. CASE l = n
        <5>1. n - 1 \in 0 .. n - 1
              BY <3>1
        <5>2. g[n - 1] = f[n - 1]
              BY <3>3, <5>1
        <5>.  QED BY <2>4, <3>4, <4>1, <5>2
      <4>2. CASE l # n
        <5>1. l \in 0 .. n - 1
              BY <3>1, <4>2
        <5>2. f[l] = IF l = 0 THEN [silo |-> dz.silo, taken |-> taken]
                     ELSE Receive(f[l - 1], l - 1, got[l - 1])
              BY <3>2, <5>1 DEF Follows
        <5>3. l # 0 => g[l - 1] = f[l - 1]
              BY <3>1, <3>3, <5>1
        <5>.  QED BY <3>3, <5>1, <5>2, <5>3
      <4>.  QED BY <4>1, <4>2
    <3>7. Follows(n, g, got)
          BY <3>5, <3>6 DEF Follows
    <3>.  QED BY <2>2, <3>7
  <2>.  QED BY <2>3, <2>4
<1>2. LineCount \in Nat
      BY DzAssumption
<1>3. \E f : Follows(LineCount, f, got)
      BY <1>1, <1>2
<1>. QED BY <1>3 DEF After

\* A state s of the loop before it comes to the line: what is in the silo is in order,
\* and of the lines still to come nothing has been taken.
Polled(s, line) ==
    /\ Kept(s.silo, s.taken, read)
    /\ \A m \in Lines : m >= line => s.taken[m] = taken[m]

LEMMA ReceivePolled ==
    ASSUME NEW s, NEW line \in Lines, NEW n \in 0 .. RecvMax, Polled(s, line)
    PROVE  Polled(Receive(s, line, n), line + 1)
<1>1. Kept(s.silo, s.taken, read)
      /\ s.taken[line] = taken[line] /\ line \in Nat /\ n \in Nat
      /\ \A m \in Lines : m >= line => s.taken[m] = taken[m]
      BY DEF Polled, Lines
<1>2. CASE line \notin dz.rcve \/ Len(s.silo) >= SiloDepth
  <2>1. Receive(s, line, n) = s
        BY <1>2 DEF Receive
  <2>2. \A m \in Lines : m >= line + 1 => s.taken[m] = taken[m]
        BY <1>1 DEF Lines
  <2>.  QED BY <1>1, <2>1, <2>2 DEF Polled
<1>3. CASE ~(line \notin dz.rcve \/ Len(s.silo) >= SiloDepth)
  <2>. DEFINE k == Min({n, SiloDepth - Len(s.silo)})
              new == [i \in 1 .. k |-> [line |-> line, char |-> taken[line] + i]]
              e == Receive(s, line, n)
  <2>1. Len(s.silo) \in Nat /\ SiloDepth \in Nat /\ s.silo \in Seq(Chars)
        BY <1>1, DzAssumption DEF Kept
  <2>2. k \in Nat /\ k <= n /\ Len(s.silo) + k <= SiloDepth
    <3>. DEFINE room == SiloDepth - Len(s.silo)
    <3>1. room \in Nat
          BY <1>3, <2>1
    <3>. HIDE DEF room
    <3>2. \E x \in {n, room} : \A y \in {n, room} : x <= y
          BY <1>1, <3>1
    <3>3. Min({n, room}) \in {n, room} /\ \A y \in {n, room} : Min({n, room}) <= y
          BY <3>2, Zenon DEF Min
    <3>4. k \in Nat /\ k <= n /\ k <= room
          BY <1>1, <3>1, <3>3 DEF room
    <3>.  QED BY <2>1, <3>4 DEF room
  <2>. HIDE DEF k
  <2>3. e.silo = s.silo \o new /\ e.taken = [s.taken EXCEPT ![line] = @ + n]
        BY <1>3 DEF Receive, k
  <2>4. Kept(s.silo \o [i \in 1 .. k |-> [line |-> line, char |-> s.taken[line] + i]],
             [s.taken EXCEPT ![line] = @ + n], read)
        BY <1>1, <2>2, KeptAppend
  <2>5. Kept(e.silo, e.taken, read)
        BY <1>1, <2>3, <2>4
  <2>6. \A m \in Lines : m >= line + 1 => e.taken[m] = taken[m]
    <3>1. s.taken \in [Lines -> Nat]
          BY <1>1 DEF Kept
    <3>.  QED BY <1>1, <2>3, <3>1 DEF Lines
  <2>.  QED BY <2>5, <2>6 DEF Polled
<1>. QED BY <1>2, <1>3

LEMMA ReceiveAllKept ==
    ASSUME RxInv, NEW got \in [Lines -> 0 .. RecvMax]
    PROVE  Kept(ReceiveAll(got).silo, ReceiveAll(got).taken, read)
<1>. DEFINE a == After(got)
            Fails == {l \in Nat : l <= LineCount /\ ~Polled(a[l], l)}
<1>1. LineCount \in Nat
      BY DzAssumption
<1>2. Follows(LineCount, a, got)
      BY LoopFollowed
<1>3. /\ a[0] = [silo |-> dz.silo, taken |-> taken]
      /\ \A l \in 1 .. LineCount : a[l] = Receive(a[l - 1], l - 1, got[l - 1])
  <2>1. \A l \in 0 .. LineCount :
           a[l] = IF l = 0 THEN [silo |-> dz.silo, taken |-> taken]
                  ELSE Receive(a[l - 1], l - 1, got[l - 1])
        BY <1>2 DEF Follows
  <2>.  QED BY <1>1, <2>1
<1>4. ReceiveAll(got) = a[LineCount]
      BY DEF ReceiveAll, After, Follows
<1>. HIDE DEF a
<1>5. Polled(a[0], 0)
      BY <1>3 DEF Polled, RxInv, Received
<1>6. Fails = {}
  <2>1. SUFFICES ASSUME Fails # {} PROVE FALSE
        OBVIOUS
  <2>2. PICK l \in Fails : \A m \in Fails : l <= m
        BY <2>1, LeastNatural
  <2>3. l \in Nat /\ l <= LineCount /\ ~Polled(a[l], l) /\ l # 0
        BY <1>5, <2>2
  <2>4. l - 1 \in Nat /\ l - 1 <= LineCount /\ l - 1 \in Lines /\ l \in 1 .. LineCount
        BY <1>1, <2>3 DEF Lines
  <2>5. Polled(a[l - 1], l - 1)
    <3>1. l - 1 \notin Fails
          BY <2>2, <2>3
    <3>.  QED BY <2>4, <3>1
  <2>6. Polled(Receive(a[l - 1], l - 1, got[l - 1]), (l - 1) + 1)
        BY <2>4, <2>5, ReceivePolled
  <2>.  QED BY <1>3, <2>3, <2>4, <2>6
<1>7. Polled(a[LineCount], LineCount)
      BY <1>1, <1>6
<1>. QED BY <1>4, <1>7 DEF Polled

-----------------------------------------------------------------------------
(* The flags after an update are those of the silo.                        *)

LEMMA UpdateShows ==
    ASSUME NEW d, Fields(d), RxTyped(d), NEW t, NEW r, Kept(d.silo, t, r)
    PROVE  Received(Update(d), t, r)
<1>. DEFINE e == [d EXCEPT !.rx = RxUpdate(d.rx, d.ctl, Len(d.silo))]
            n == Len(d.silo)
<1>1. Update(d) = [e EXCEPT !.tx = TxUpdate(e.tx, e.ctl, e.tcr)]
      BY DEF Update, UpdateTx
<1>2. /\ DOMAIN e = {"ctl", "rx", "tx", "tcr", "rcve", "silo"}
      /\ e.rx = RxUpdate(d.rx, d.ctl, n)
      /\ e.ctl = d.ctl /\ e.silo = d.silo
      BY DEF Fields
<1>. HIDE DEF e
<1>3. /\ Update(d).rx = RxUpdate(d.rx, d.ctl, n)
      /\ Update(d).ctl = d.ctl /\ Update(d).silo = d.silo
      BY <1>1, <1>2
<1>4. n \in Nat /\ n <= SiloDepth /\ SiloDepth \in Nat /\ (n = 0 <=> d.silo = <<>>)
      BY EmptySeq, DzAssumption DEF Kept
<1>5. d.ctl.mse \in BOOLEAN /\ d.ctl.sae \in BOOLEAN /\ d.rx.sa \in BOOLEAN
      BY DEF Fields, Control, RxTyped
<1>. HIDE DEF n
<1>6. RxTyped(Update(d))
      BY <1>3, <1>5 DEF RxTyped, RxUpdate
<1>7. Shown(Update(d).rx, Update(d).ctl, Update(d).silo)
  <2>1. /\ Update(d).rx.rdone = (d.ctl.mse /\ n > 0)
        /\ Update(d).rx.sa = (d.ctl.mse /\ n >= SiloDepth /\ (d.ctl.sae \/ d.rx.sa))
        BY <1>3 DEF RxUpdate
  <2>2. /\ Update(d).rx.rdone = (Update(d).ctl.mse /\ Update(d).silo # <<>>)
        /\ Update(d).rx.sa => Update(d).ctl.mse /\ n = SiloDepth
        /\ Update(d).ctl.mse /\ Update(d).ctl.sae /\ n = SiloDepth => Update(d).rx.sa
    <3>1. n > 0 <=> d.silo # <<>>
          BY <1>4
    <3>2. n >= SiloDepth <=> n = SiloDepth
          BY <1>4
    <3>.  QED BY <1>3, <1>5, <2>1, <3>1, <3>2
  <2>.  QED BY <1>3, <2>2 DEF Shown, n
<1>. QED BY <1>3, <1>6, <1>7 DEF Received

\* A step of the transmitter leaves the receiver as it is.
LEMMA SameReceived ==
    ASSUME NEW d, NEW t, NEW r, Received(d, t, r), NEW e,
           e.ctl = d.ctl, e.rx = d.rx, e.silo = d.silo
    PROVE  Received(e, t, r)
BY DEF Received, RxTyped

LEMMA UpdateTxSame ==
    ASSUME NEW d, Fields(d)
    PROVE  UpdateTx(d).ctl = d.ctl /\ UpdateTx(d).rx = d.rx /\ UpdateTx(d).silo = d.silo
BY DEF UpdateTx, Fields

LEMMA SoftClearShown ==
    RxTyped(SoftClear) /\ Shown(SoftClear.rx, SoftClear.ctl, SoftClear.silo)
<1>1. /\ SoftClear.rx = [rdone |-> FALSE, sa |-> FALSE] /\ SoftClear.ctl.mse = FALSE
      /\ SoftClear.rx.rdone = FALSE /\ SoftClear.rx.sa = FALSE
      BY DEF SoftClear
<1>2. RxTyped(SoftClear)
      BY <1>1 DEF RxTyped
<1>3. SoftClear.rx.rdone = (SoftClear.ctl.mse /\ SoftClear.silo # <<>>)
      BY <1>1
<1>. QED BY <1>1, <1>2, <1>3 DEF Shown

LEMMA SoftClearReceived ==
    ASSUME NEW d, NEW t, NEW r, Received(d, t, r)
    PROVE  Received(SoftClear, t, r)
<1>1. t \in [Lines -> Nat] /\ r \in [Lines -> Nat] /\ \A l \in Lines : r[l] <= t[l]
      BY DEF Received, Kept
<1>2. Kept(<<>>, t, r)
      BY <1>1, KeptEmpty
<1>3. SoftClear.silo = <<>>
      BY DEF SoftClear
<1>. QED BY <1>2, <1>3, SoftClearShown DEF Received

\* A store into the CSR clears the silo or leaves it, and then updates its flags.
LEMMA StoreCsrReceived ==
    ASSUME NEW d, Fields(d), NEW t, NEW r, Received(d, t, r),
           NEW ctl \in Control, NEW clr \in BOOLEAN
    PROVE  Received(StoreCsr(d, ctl, clr), t, r)
<1>. DEFINE b == IF clr THEN SoftClear ELSE d
            c == [b EXCEPT !.ctl = ctl]
            u == Update(c)
<1>1. Fields(b) /\ Received(b, t, r)
      BY SoftClearGood, SoftClearReceived DEF Good
<1>. HIDE DEF b
<1>2. /\ DOMAIN c = DOMAIN b /\ c.ctl = ctl
      /\ c.tx = b.tx /\ c.tcr = b.tcr /\ c.silo = b.silo /\ c.rx = b.rx
      BY <1>1 DEF Fields
<1>3. Fields(c)
      BY <1>1, <1>2 DEF Fields
<1>4. RxTyped(c) /\ Kept(c.silo, t, r)
      BY <1>1, <1>2 DEF Received, RxTyped
<1>5. Received(u, t, r)
      BY <1>3, <1>4, UpdateShows
<1>6. DOMAIN u = {"ctl", "rx", "tx", "tcr", "rcve", "silo"}
      BY <1>3, UpdateParts DEF Fields, Updated
<1>7. \E x, y : StoreCsr(d, ctl, clr) = [u EXCEPT !.tx.req = x, !.tx.armed = y]
      BY DEF StoreCsr, b
<1>. HIDE DEF u
<1>8. /\ StoreCsr(d, ctl, clr).ctl = u.ctl
      /\ StoreCsr(d, ctl, clr).rx = u.rx
      /\ StoreCsr(d, ctl, clr).silo = u.silo
      BY <1>6, <1>7
<1>. QED BY <1>5, <1>8, SameReceived

LEMMA StoreBytesReceived ==
    ASSUME NEW d, Fields(d), NEW t, NEW r, Received(d, t, r)
    PROVE  /\ \A low \in LowByte : Received(StoreCsrLow(d, low), t, r)
           /\ \A high \in HighByte : Received(StoreCsrHigh(d, high), t, r)
<1>1. d.ctl \in Control
      BY DEF Fields
<1>2. ASSUME NEW low \in LowByte PROVE Received(StoreCsrLow(d, low), t, r)
  <2>1. [d.ctl EXCEPT !.mse = low.mse, !.rie = low.rie] \in Control /\ low.clr \in BOOLEAN
        BY <1>1 DEF Control, LowByte
  <2>.  QED BY <2>1, StoreCsrReceived DEF StoreCsrLow
<1>3. ASSUME NEW high \in HighByte PROVE Received(StoreCsrHigh(d, high), t, r)
  <2>1. [d.ctl EXCEPT !.tie = high.tie, !.sae = high.sae] \in Control
        BY <1>1 DEF Control, HighByte
  <2>.  QED BY <2>1, StoreCsrReceived DEF StoreCsrHigh
<1>. QED BY <1>2, <1>3

-----------------------------------------------------------------------------
(* The actions, for the receiver.                                          *)

LEMMA CsrReceives ==
    ASSUME TxInv, RxInv, NEW low \in LowByte, NEW high \in HighByte,
           WriteCsrLow(low) \/ WriteCsrHigh(high) \/ WriteCsr(low, high)
    PROVE  RxInv'
<1>1. taken' = taken /\ read' = read
      BY DEF WriteCsrLow, WriteCsrHigh, WriteCsr
<1>2. Good(dz, last) /\ Fields(dz) /\ last \in Histories /\ Received(dz, taken, read)
      BY DEF TxInv, RxInv, Good
<1>3. Received(dz', taken, read)
  <2>1. CASE WriteCsrLow(low)
        BY <1>2, <2>1, StoreBytesReceived DEF WriteCsrLow
  <2>2. CASE WriteCsrHigh(high)
        BY <1>2, <2>2, StoreBytesReceived DEF WriteCsrHigh
  <2>3. CASE WriteCsr(low, high)
    <3>. DEFINE half == StoreCsrLow(dz, low)
    <3>1. Fields(half)
          BY <1>2, StoreBytesGood DEF Good
    <3>2. Received(half, taken, read)
          BY <1>2, StoreBytesReceived
    <3>3. dz' = StoreCsrHigh(half, high)
          BY <2>3 DEF WriteCsr
    <3>. HIDE DEF half
    <3>.  QED BY <3>1, <3>2, <3>3, StoreBytesReceived
  <2>.  QED BY <2>1, <2>2, <2>3
<1>. QED BY <1>1, <1>3 DEF RxInv

\* One update of the flags, or two.
LEMMA LookReceives ==
    ASSUME TxInv, RxInv, ReadCsr \/ Look \/ GrantTx
    PROVE  RxInv'
<1>. DEFINE d == Update(dz)
<1>1. Fields(dz) /\ last \in Histories /\ Latched(dz, last)
      /\ Kept(dz.silo, taken, read) /\ RxTyped(dz)
      BY DEF TxInv, RxInv, Good, Received
<1>2. taken' = taken /\ read' = read
      BY DEF ReadCsr, Look, GrantTx
<1>3. Received(d, taken, read)
      BY <1>1, UpdateShows
<1>4. Fields(d)
      BY <1>1, UpdateParts, UpdatedGood DEF Good
<1>5. Received(Update(d), taken, read)
      BY <1>3, <1>4, UpdateShows DEF Received
<1>6. dz' = d \/ dz' = Update(d) \/ dz' = [d EXCEPT !.tx.req = FALSE]
      BY DEF ReadCsr, Look, GrantTx
<1>. HIDE DEF d
<1>7. Received([d EXCEPT !.tx.req = FALSE], taken, read)
  <2>. DEFINE e == [d EXCEPT !.tx.req = FALSE]
  <2>1. e.ctl = d.ctl /\ e.rx = d.rx /\ e.silo = d.silo
        BY <1>4 DEF Fields
  <2>. HIDE DEF e
  <2>2. Received(e, taken, read)
        BY <1>3, <2>1, SameReceived
  <2>.  QED BY <2>2 DEF e
<1>8. Received(dz', taken, read)
      BY <1>3, <1>5, <1>6, <1>7
<1>. QED BY <1>2, <1>8 DEF RxInv

\* The registers of the transmitter and of a line.
LEMMA TransmitReceives ==
    ASSUME TxInv, RxInv,
           \/ WriteTdr
           \/ \E line \in Lines, on \in BOOLEAN : WriteLpr(line, on)
           \/ \E enabled \in SUBSET Lines : WriteTcr(enabled)
    PROVE  RxInv'
<1>1. Fields(dz) /\ last \in Histories /\ Latched(dz, last) /\ Received(dz, taken, read)
      BY DEF TxInv, RxInv, Good
<1>2. taken' = taken /\ read' = read
      BY DEF WriteTdr, WriteLpr, WriteTcr
<1>3. dz'.ctl = dz.ctl /\ dz'.rx = dz.rx /\ dz'.silo = dz.silo
  <2>1. CASE WriteTdr
    <3>. DEFINE c == [dz EXCEPT !.tx.trdy = FALSE, !.tx.req = FALSE, !.tx.armed = TRUE]
    <3>1. /\ DOMAIN c = DOMAIN dz /\ c.ctl = dz.ctl /\ c.tcr = dz.tcr /\ c.tx \in Tx
          /\ c.rx = dz.rx /\ c.silo = dz.silo
          BY <1>1 DEF Fields, Tx
    <3>2. dz' = UpdateTx(c) \/ dz' = dz
          BY <2>1 DEF WriteTdr
    <3>. HIDE DEF c
    <3>3. Fields(c)
          BY <1>1, <3>1 DEF Fields
    <3>.  QED BY <3>1, <3>2, <3>3, UpdateTxSame
  <2>2. CASE \E line \in Lines, on \in BOOLEAN : WriteLpr(line, on)
        BY <1>1, <2>2 DEF WriteLpr, Fields
  <2>3. ASSUME NEW enabled \in SUBSET Lines, WriteTcr(enabled)
        PROVE  dz'.ctl = dz.ctl /\ dz'.rx = dz.rx /\ dz'.silo = dz.silo
    <3>. DEFINE c == [dz EXCEPT !.tcr = enabled]
                d == UpdateTx(c)
    <3>1. /\ DOMAIN c = DOMAIN dz /\ c.ctl = dz.ctl /\ c.tcr = enabled /\ c.tx = dz.tx
          /\ c.rx = dz.rx /\ c.silo = dz.silo
          BY <1>1 DEF Fields
    <3>2. dz' = d \/ dz' = UpdateTx(d)
          BY <2>3 DEF WriteTcr
    <3>. HIDE DEF c
    <3>3. Fields(c) /\ Latched(c, last)
          BY <1>1, <3>1 DEF Fields, Latched
    <3>4. Fields(d)
          BY <1>1, <3>3, UpdateTxParts, UpdatedGood DEF Good
    <3>5. d.ctl = c.ctl /\ d.rx = c.rx /\ d.silo = c.silo
          BY <3>3, UpdateTxSame
    <3>. HIDE DEF d
    <3>.  QED BY <3>1, <3>2, <3>4, <3>5, UpdateTxSame
  <2>.  QED BY <2>1, <2>2, <2>3
<1>. QED BY <1>1, <1>2, <1>3, SameReceived DEF RxInv

\* The program takes the oldest character, and the alarm is lowered before the flags are
\* those of the shorter silo.
LEMMA ReadRbufReceives ==
    ASSUME TxInv, RxInv, ReadRbuf
    PROVE  RxInv'
<1>. DEFINE cleared == [dz EXCEPT !.rx.sa = FALSE]
            silo == Pop(dz.silo)
            n == Len(silo)
<1>1. /\ Fields(dz) /\ Kept(dz.silo, taken, read) /\ Shown(dz.rx, dz.ctl, dz.silo)
      /\ RxTyped(dz) /\ taken' = taken
      BY DEF TxInv, RxInv, Good, Received, ReadRbuf
<1>2. /\ DOMAIN cleared = DOMAIN dz /\ cleared.ctl = dz.ctl /\ cleared.silo = dz.silo
      /\ cleared.rx = [rdone |-> dz.rx.rdone, sa |-> FALSE]
      BY <1>1 DEF Fields, RxTyped
<1>3. CASE ~dz.ctl.mse
  <2>1. dz' = cleared /\ read' = read
        BY <1>3 DEF ReadRbuf
  <2>2. /\ dz'.silo = dz.silo /\ dz'.ctl = dz.ctl
        /\ dz'.rx.rdone = dz.rx.rdone /\ dz'.rx.sa = FALSE
        BY <1>2, <2>1
  <2>. HIDE DEF cleared, silo, n
  <2>3. Shown(dz'.rx, dz'.ctl, dz'.silo)
    <3>1. dz.rx.rdone = (dz.ctl.mse /\ dz.silo # <<>>)
          BY <1>1 DEF Shown
    <3>2. dz'.rx.rdone = (dz'.ctl.mse /\ dz'.silo # <<>>)
          BY <2>2, <3>1
    <3>.  QED BY <1>3, <2>2, <3>2 DEF Shown
  <2>4. RxTyped(dz')
    <3>1. dz.rx.rdone \in BOOLEAN
          BY <1>1 DEF RxTyped
    <3>2. dz'.rx = [rdone |-> dz.rx.rdone, sa |-> FALSE]
          BY <1>2, <2>1
    <3>.  QED BY <3>1, <3>2 DEF RxTyped
  <2>.  QED BY <1>1, <2>1, <2>2, <2>3, <2>4 DEF RxInv, Received
<1>4. CASE dz.ctl.mse
  <2>1. /\ dz' = [cleared EXCEPT !.silo = silo, !.rx = RxUpdate(cleared.rx, dz.ctl, n)]
        /\ read' = [l \in Lines |-> IF dz.silo # <<>> /\ Head(dz.silo).line = l
                                    THEN Head(dz.silo).char ELSE read[l]]
        BY <1>4 DEF ReadRbuf
  <2>2. Kept(silo, taken, read')
    <3>1. CASE dz.silo = <<>>
      <4>1. read \in [Lines -> Nat]
            BY <1>1 DEF Kept
      <4>2. read' = read /\ silo = dz.silo
            BY <2>1, <3>1, <4>1 DEF Pop
      <4>.  QED BY <1>1, <4>2
    <3>2. CASE dz.silo # <<>>
      <4>1. silo = Tail(dz.silo)
            BY <3>2 DEF Pop
      <4>2. read' = [l \in Lines |-> IF Head(dz.silo).line = l
                                     THEN Head(dz.silo).char ELSE read[l]]
            BY <2>1, <3>2
      <4>.  QED BY <1>1, <3>2, <4>1, <4>2, KeptPop
    <3>.  QED BY <3>1, <3>2
  <2>3. n \in Nat /\ n <= SiloDepth /\ SiloDepth \in Nat /\ (n = 0 <=> silo = <<>>)
        BY <2>2, EmptySeq, DzAssumption DEF Kept
  <2>. HIDE DEF silo, n
  <2>4. dz'.silo = silo /\ dz'.ctl = dz.ctl /\ dz'.rx = RxUpdate(cleared.rx, dz.ctl, n)
        BY <1>1, <1>2, <2>1 DEF Fields
  <2>5. dz.ctl.mse \in BOOLEAN /\ dz.ctl.sae \in BOOLEAN
        BY <1>1 DEF Fields, Control
  <2>6. /\ dz'.rx.rdone = (dz'.ctl.mse /\ silo # <<>>)
        /\ dz'.rx.sa => dz'.ctl.mse /\ n = SiloDepth
        /\ dz'.ctl.mse /\ dz'.ctl.sae /\ n = SiloDepth => dz'.rx.sa
        /\ dz'.rx \in [rdone : BOOLEAN, sa : BOOLEAN]
    <3>1. n > 0 <=> silo # <<>>
          BY <2>3
    <3>2. n >= SiloDepth <=> n = SiloDepth
          BY <2>3
    <3>3. dz'.rx = [rdone |-> dz.ctl.mse /\ n > 0,
                    sa |-> dz.ctl.mse /\ n >= SiloDepth /\ (dz.ctl.sae \/ FALSE)]
          BY <1>2, <2>4 DEF RxUpdate
    <3>4. /\ dz'.rx.rdone = (dz.ctl.mse /\ n > 0)
          /\ dz'.rx.sa = (dz.ctl.mse /\ n >= SiloDepth /\ dz.ctl.sae)
          BY <2>5, <3>3
    <3>5. dz'.rx \in [rdone : BOOLEAN, sa : BOOLEAN]
          BY <2>5, <3>3
    <3>.  QED BY <2>4, <2>5, <3>1, <3>2, <3>4, <3>5
  <2>7. Shown(dz'.rx, dz'.ctl, dz'.silo) /\ RxTyped(dz')
        BY <2>4, <2>6 DEF Shown, RxTyped, n
  <2>.  QED BY <1>1, <2>2, <2>4, <2>7 DEF RxInv, Received
<1>. QED BY <1>3, <1>4

LEMMA PollReceives ==
    ASSUME TxInv, RxInv, Poll
    PROVE  RxInv'
<1>1. Fields(dz) /\ RxTyped(dz) /\ read' = read
      BY DEF TxInv, RxInv, Good, Received, Poll
<1>2. PICK got \in [Lines -> 0 .. RecvMax] :
          /\ dz' = Update([dz EXCEPT !.silo = ReceiveAll(got).silo])
          /\ taken' = ReceiveAll(got).taken
      BY DEF Poll
<1>. DEFINE silo == ReceiveAll(got).silo
            d == [dz EXCEPT !.silo = silo]
<1>3. Kept(silo, taken', read)
      BY <1>2, ReceiveAllKept
<1>. HIDE DEF silo
<1>4. /\ DOMAIN d = DOMAIN dz /\ d.ctl = dz.ctl /\ d.tx = dz.tx /\ d.tcr = dz.tcr
      /\ d.rx = dz.rx /\ d.silo = silo
      BY <1>1 DEF Fields
<1>5. dz' = Update(d)
      BY <1>2 DEF silo
<1>. HIDE DEF d
<1>6. Fields(d) /\ RxTyped(d) /\ Kept(d.silo, taken', read)
      BY <1>1, <1>3, <1>4 DEF Fields, RxTyped
<1>7. Received(Update(d), taken', read)
      BY <1>6, UpdateShows
<1>. QED BY <1>1, <1>5, <1>7 DEF RxInv

LEMMA RxInvInit ==
    ASSUME Init PROVE RxInv
<1>1. taken \in [Lines -> Nat] /\ read \in [Lines -> Nat]
      /\ \A l \in Lines : read[l] <= taken[l]
      BY DEF Init
<1>2. dz = SoftClear
      BY DEF Init
<1>3. Kept(SoftClear.silo, taken, read)
      BY <1>1, KeptEmpty DEF SoftClear
<1>. QED BY <1>2, <1>3, SoftClearShown DEF RxInv, Received

LEMMA RxInvStep ==
    ASSUME TxInv, RxInv, [Next]_vars PROVE RxInv'
<1>1. CASE ReadCsr \/ Look \/ GrantTx
      BY <1>1, LookReceives
<1>2. CASE \E low \in LowByte : WriteCsrLow(low)
  <2>1. [tie |-> TRUE, sae |-> TRUE] \in HighByte
        BY DEF HighByte
  <2>.  QED BY <1>2, <2>1, CsrReceives
<1>3. CASE \E high \in HighByte : WriteCsrHigh(high)
  <2>1. [mse |-> TRUE, rie |-> TRUE, clr |-> TRUE] \in LowByte
        BY DEF LowByte
  <2>.  QED BY <1>3, <2>1, CsrReceives
<1>4. CASE \E low \in LowByte, high \in HighByte : WriteCsr(low, high)
      BY <1>4, CsrReceives
<1>5. CASE \/ WriteTdr
           \/ \E line \in Lines, on \in BOOLEAN : WriteLpr(line, on)
           \/ \E enabled \in SUBSET Lines : WriteTcr(enabled)
      BY <1>5, TransmitReceives
<1>6. CASE ReadRbuf
      BY <1>6, ReadRbufReceives
<1>7. CASE BusReset
  <2>1. dz' = SoftClear /\ taken' = taken /\ read' = read
        BY <1>7 DEF BusReset
  <2>.  QED BY <2>1, SoftClearReceived DEF RxInv
<1>8. CASE Poll
      BY <1>8, PollReceives
<1>9. CASE UNCHANGED vars
      BY <1>9 DEF vars, RxInv
<1>. QED BY <1>1, <1>2, <1>3, <1>4, <1>5, <1>6, <1>7, <1>8, <1>9 DEF Next, Program

LEMMA RxInvariant == Spec => []RxInv
<1>. QED BY TxInvariant, RxInvInit, RxInvStep, PTL DEF Spec

\* The flags of the receiver are exact between any two accesses, for any depth of the
\* silo: what dz_update_receive_flags, a read of RBUF and a clear leave is always what
\* dz11_rx_pending has to look at.
THEOREM SiloAlwaysShown == Spec => []SiloShown
<1>1. RxInv => SiloShown
      BY DEF RxInv, Received, Shown, SiloShown
<1>. QED BY <1>1, RxInvariant, PTL

\* Characters of a line reach the program in order and once, for any number of lines, any
\* depth of the silo and any number of characters a recv returns or drops.
THEOREM AlwaysInOrder == Spec => []RxInOrder
<1>1. RxInv => RxInOrder
      BY DEF RxInv, Received, Kept, Ordered, RxInOrder
<1>. QED BY <1>1, RxInvariant, PTL
=============================================================================
