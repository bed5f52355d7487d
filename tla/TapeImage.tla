----------------------------- MODULE TapeImage -----------------------------
(***************************************************************************)
(* The tape behind the TMSCP port (dev_tq11.c): a .tap image, the file's   *)
(* own position, the position the controller keeps beside it, and the      *)
(* commands that move the one and the other.  A record of the image is its *)
(* length, its data, padded to an even length, and its length again; a     *)
(* mark is a length of zero.  The image is a sequence of 16-bit cells, of  *)
(* which a length takes two.  The port serves one command after the other, *)
(* so that a command is a step; a guest may send any, in any order.        *)
(***************************************************************************)
EXTENDS Integers, SequencesExt, FiniteSetsExt

CONSTANTS
    Images,      \* images the unit is attached with
    Lengths,     \* lengths in bytes of the transfers the guest asks for
    Cells,       \* values of the cells the guest writes
    MaxCount,    \* the guest spaces over at most so many objects
    Chunk,       \* TQ_IO_CHUNK, in cells
    MaxCells,    \* bound: cells of an image
    MaxFaults    \* bound: writes of the host that fail

ASSUME TapeAssumption ==
    /\ Lengths \subseteq Nat \ {0} /\ Cells \subseteq 0..65535
    /\ Chunk \in Nat \ {0} /\ {MaxCount, MaxCells, MaxFaults} \subseteq Nat

VARIABLES
    cells,       \* the image
    fp,          \* position of the host's file
    pos,         \* tape_pos: where the controller believes the file to be
    readOnly,    \* read_only: the image could not be opened for writing
    online,      \* online
    swProtect,   \* sw_write_protect
    said,        \* the response: operation, status, what was asked, counts and data
    faults,
    tape         \* history: what the image holds, see Contents

vars == <<cells, fp, pos, readOnly, online, swProtect, said, faults, tape>>
image == <<cells, faults, tape>>
drive == <<readOnly, online, swProtect>>

-----------------------------------------------------------------------------
(* The format.                                                             *)

Mark == [len |-> 0, data |-> <<>>]

\* tq_tap_padded, in cells.
DataCells(len) == (len + 1) \div 2

\* A length as the file has it.
Length(l) == <<l % 65536, l \div 65536>>

Record(len, data) == [len |-> len, data |-> data]

\* The bytes of an object.
Encoded(o) == IF o.len = 0 THEN Length(0) ELSE Length(o.len) \o o.data \o Length(o.len)

\* The longest length is 2^24 - 1; greater ones are errors, the end of medium among them.
TooLong(c, p) == c[p + 2] > 255
LengthAt(c, p) == c[p + 1] + 65536 * c[p + 2]

\* The objects of the image c from position p on, up to the first place that holds none,
\* added to those found before, and where each of them ends.
RECURSIVE ContentsFrom(_, _, _)
ContentsFrom(c, p, found) ==
    LET left == Len(c) - p
        len  == LengthAt(c, p)
        o    == IF len = 0 THEN Mark ELSE Record(len, SubSeq(c, p + 3, p + 2 + DataCells(len)))
        next == p + Len(Encoded(o))
    IN  IF left < 2 \/ TooLong(c, p) \/ (len # 0 /\ left < DataCells(len) + 4) THEN found
        ELSE IF SubSeq(c, p + 1, next) # Encoded(o) THEN found
        ELSE ContentsFrom(c, next, [objects |-> Append(found.objects, o),
                                    ends |-> Append(found.ends, next)])

Contents(c) == ContentsFrom(c, 0, [objects |-> <<>>, ends |-> <<0>>])

\* Whole chunks among n cells.
Chunks(n) == (n \div Chunk) * Chunk

-----------------------------------------------------------------------------
(* Motion.  A motion stops at a pair of positions, with an outcome.         *)

StopAt(f, p, st) == [fp |-> f, pos |-> p, st |-> st, len |-> 0, data |-> <<>>]

\* tq_tap_read_forward_stream: what cannot be read whole leaves the file at its end and
\* tape_pos at the last piece that was.
Forward(h) ==
    LET end  == Len(cells)
        mark == LengthAt(cells, h.fp)
        size == DataCells(mark)
    IN  IF h.fp + 2 > end THEN StopAt(Max({h.fp, end}), h.pos, "eot")
        ELSE IF TooLong(cells, h.fp) THEN StopAt(h.fp + 2, h.pos + 2, "exc")
        ELSE IF mark = 0 THEN StopAt(h.fp + 2, h.pos + 2, "mark")
        ELSE IF h.fp + 2 + size > end THEN StopAt(end, h.pos + 2 + Chunks(end - h.fp - 2), "exc")
        ELSE IF h.fp + size + 4 > end THEN StopAt(end, h.pos + 2 + size, "exc")
        ELSE IF TooLong(cells, h.fp + 2 + size) \/ LengthAt(cells, h.fp + 2 + size) # mark
             THEN StopAt(h.fp + size + 4, h.pos + size + 4, "exc")
        ELSE [StopAt(h.fp + size + 4, h.pos + size + 4, "ok") EXCEPT
                 !.len = mark, !.data = SubSeq(cells, h.fp + 3, h.fp + 2 + size)]

\* Mutant of Backward: the pad byte of an odd record is forgotten.
BackwardUnpadded(h) ==
    LET mark == LengthAt(cells, h.pos - 2)
        size == mark \div 2
    IN  IF h.pos < 2 THEN [h EXCEPT !.st = "bot"]
        ELSE IF h.pos > Len(cells) THEN StopAt(Max({h.pos - 2, Len(cells)}), h.pos - 2, "exc")
        ELSE IF TooLong(cells, h.pos - 2) THEN StopAt(h.pos, h.pos, "exc")
        ELSE IF mark = 0 THEN StopAt(h.pos - 2, h.pos - 2, "mark")
        ELSE IF h.pos < size + 4 THEN StopAt(h.pos, h.pos, "exc")
        ELSE StopAt(h.pos - size - 4, h.pos - size - 4, "ok")

\* tq_tap_peek_prev and the seek to the start it finds.  It seeks to where the last length
\* should be, which may be behind the end of the file, and stays there when it is not.
Backward(h) ==
    LET mark == LengthAt(cells, h.pos - 2)
        size == DataCells(mark)
    IN  IF h.pos < 2 THEN [h EXCEPT !.st = "bot"]
        ELSE IF h.pos > Len(cells) THEN StopAt(Max({h.pos - 2, Len(cells)}), h.pos - 2, "exc")
        ELSE IF TooLong(cells, h.pos - 2) THEN StopAt(h.pos, h.pos, "exc")
        ELSE IF mark = 0 THEN StopAt(h.pos - 2, h.pos - 2, "mark")
        ELSE IF h.pos < size + 4 THEN StopAt(h.pos, h.pos, "exc")
        ELSE StopAt(h.pos - size - 4, h.pos - size - 4, "ok")

\* What a spacing counts: the marks, or the records.
Counts(marks, st) == IF marks THEN st = "mark" ELSE st = "ok"

\* tq_tap_space_forward_records and its three siblings: n counts what has been passed.
RECURSIVE Spaced(_, _, _, _, _)
Spaced(h, back, marks, count, n) ==
    IF n = count THEN [h |-> [h EXCEPT !.st = "ok"], n |-> n]
    ELSE LET to == IF back THEN Backward(h) ELSE Forward(h)
             m  == IF Counts(marks, to.st) THEN n + 1 ELSE n
         IN  IF to.st = "ok" \/ (marks /\ to.st = "mark")
             THEN Spaced(to, back, marks, count, m)
             ELSE [h |-> to, n |-> m]

-----------------------------------------------------------------------------
(* The commands.                                                           *)

Answer(op, st, asked, n, data) ==
    said' = [op |-> op, st |-> st, asked |-> asked, n |-> n, data |-> data]

Here == StopAt(fp, pos, "ok")
MoveTo(h) == fp' = h.fp /\ pos' = h.pos

\* tq_motion_valid, and the command is refused.
Refuse(op, st) ==
    /\ Answer(op, st, 0, 0, <<>>)
    /\ UNCHANGED <<image, fp, pos, drive>>

\* tq11_reset, by a write of IP or by a RESET: the file stays where it is.
Reset ==
    /\ Answer("rewind", "ok", 0, 0, <<>>)
    /\ pos' = 0 /\ online' = FALSE /\ swProtect' = FALSE
    /\ UNCHANGED <<image, fp, readOnly>>

\* Mutant of Rewound: the file is moved and the position is not set.
RewoundFileOnly == fp' = 0 /\ pos' = pos

\* tq_tap_rewind.
Rewound == fp' = 0 /\ pos' = 0

\* tq_cmd_avl.
Available ==
    /\ Answer("rewind", "ok", 0, 0, <<>>)
    /\ online' = FALSE /\ swProtect' = FALSE
    /\ Rewound
    /\ UNCHANGED <<image, readOnly>>

\* tq_cmd_onl of a unit that is off line; on line it changes nothing.
BringOnline(protect) ==
    /\ ~online
    /\ Answer("rewind", "ok", 0, 0, <<>>)
    /\ online' = TRUE /\ swProtect' = protect
    /\ Rewound
    /\ UNCHANGED <<image, readOnly>>

\* tq_cmd_suc.
SetCharacteristics(protect) ==
    /\ swProtect' = protect
    /\ UNCHANGED <<image, fp, pos, readOnly, online, said>>

\* tq_cmd_read_like: memory answers to all, to none, or holds something else than a
\* COMPARE expects.  The record is passed in any case.
ReadLike(bc, memory) ==
    IF ~online THEN Refuse("read", "avl")
    ELSE IF bc = 0 THEN Refuse("read", "cmd")
    ELSE LET h == Forward(Here)
             n == Min({bc, h.len})
         IN  /\ MoveTo(h)
             /\ UNCHANGED <<image, drive>>
             /\ CASE h.st # "ok" -> Answer("read", h.st, bc, 0, <<>>)
                  [] h.st = "ok" /\ memory = "nxm" -> Answer("read", "nxm", bc, 0, <<>>)
                  [] h.st = "ok" /\ memory = "differs" -> Answer("read", "differs", bc, n, <<>>)
                  [] OTHER -> Answer("read", IF h.len > bc THEN "long" ELSE "ok", bc, n,
                                     SubSeq(h.data, 1, DataCells(n)))

\* The image c with the cells s written at position p; a gap in front of them reads as zeros.
Over(c, p, s) ==
    IF s = <<>> THEN c
    ELSE [k \in 1..Max({Len(c), p + Len(s)}) |->
             IF k - p \in 1..Len(s) THEN s[k - p] ELSE IF k <= Len(c) THEN c[k] ELSE 0]

\* How far tape_pos goes when the host has accepted n cells of an object: by whole pieces,
\* which are a length, a chunk of data or the length again.
Accounted(o, n) ==
    LET size == DataCells(o.len)
    IN  IF n < 2 THEN 0
        ELSE IF n < size + 2 THEN 2 + Chunks(n - 2)
        ELSE IF n < size + 4 THEN size + 2
        ELSE n

\* tq_tap_write_record_dma and tq_tap_write_mark.  The host accepts the pieces, and tape_pos
\* counts them; what it has accepted may be in its buffer, and when the buffer is written, by
\* the flush at the last, only a part of it may reach the file.
Put(o) ==
    LET whole == Encoded(o)
        Take(n) == /\ cells' = Over(cells, fp, SubSeq(whole, 1, n))
                   /\ tape' = Contents(cells')
                   /\ fp' = fp + n
    IN  \/ /\ Take(Len(whole)) /\ pos' = pos + Len(whole)
           /\ Answer("write", "ok", o, o.len, <<>>)
           /\ UNCHANGED faults
        \/ /\ faults < MaxFaults /\ faults' = faults + 1
           /\ \E accepted \in 0..Len(whole) : \E n \in 0..accepted :
                 Take(n) /\ pos' = pos + Accounted(o, accepted)
           /\ Answer("write", "exc", o, 0, <<>>)

\* tq_cmd_write and tq_cmd_wtm.  A count out of range ("cmd") and memory that does not
\* answer ("nxm") refuse a record before its first byte is written.
WriteObject(o, trouble) ==
    IF ~online THEN Refuse("write", "avl")
    ELSE IF swProtect \/ readOnly THEN Refuse("write", "wpr")
    ELSE IF o # Mark /\ trouble # "none" THEN Refuse("write", trouble)
    ELSE /\ fp + Len(Encoded(o)) <= MaxCells
         /\ Put(o)
         /\ UNCHANGED drive

\* tq_cmd_pos with RWD.
PositionRewind ==
    IF ~online THEN Refuse("rewind", "avl")
    ELSE /\ Rewound
         /\ Answer("rewind", "ok", 0, 0, <<>>)
         /\ UNCHANGED <<image, drive>>

\* tq_cmd_pos without: a count of marks goes before a count of records.
Position(back, marks, count) ==
    IF ~online THEN Refuse("space", "avl")
    ELSE LET end == Spaced(Here, back, marks, count, 0)
         IN  /\ MoveTo(end.h)
             /\ Answer("space", end.h.st, count, end.n, <<>>)
             /\ UNCHANGED <<image, drive>>

-----------------------------------------------------------------------------
Init ==
    /\ cells \in Images
    /\ fp = 0 /\ pos = 0
    /\ readOnly \in BOOLEAN /\ online = FALSE /\ swProtect = FALSE
    /\ said = [op |-> "none", st |-> "ok", asked |-> 0, n |-> 0, data |-> <<>>]
    /\ faults = 0
    /\ tape = Contents(cells)

\* Records the guest writes: every cell of one has the same value.
Records == {Record(l, [k \in 1..DataCells(l) |-> v]) : l \in Lengths, v \in Cells}

Next ==
    \/ Reset \/ Available
    \/ \E protect \in BOOLEAN : BringOnline(protect) \/ SetCharacteristics(protect)
    \/ \E bc \in Lengths \cup {0}, memory \in {"ok", "nxm", "differs"} : ReadLike(bc, memory)
    \/ \E o \in Records \cup {Mark}, trouble \in {"none", "cmd", "nxm"} : WriteObject(o, trouble)
    \/ PositionRewind
    \/ \E back, marks \in BOOLEAN, count \in 0..MaxCount : Position(back, marks, count)

Spec == Init /\ [][Next]_vars

-----------------------------------------------------------------------------
(* Properties.                                                             *)

\* Where the head stands among the objects; lost, when the controller and the file
\* disagree, or agree on a place inside an object or beyond them.
Lost == -1
At ==
    LET here == {k \in 1..Len(tape.ends) : tape.ends[k] = pos}
    IN  IF ~online THEN 0
        ELSE IF fp # pos \/ here = {} THEN Lost
        ELSE CHOOSE k \in {e - 1 : e \in here} : TRUE

\* "variable-length records, tape marks, forward/reverse spacing, rewind"
\* (lsi11/README.md): through any sequence of commands, resets and failed
\* writes, and on damaged images, the image is a reel.
ABS == INSTANCE Reel WITH reel <- tape.objects, at <- At,
                         blank <- tape.ends[Len(tape.ends)] = Len(cells)
ImplementsReel == ABS!Spec

\* tape_pos may be behind the file after damage or a reset, which is harmless: a write then
\* touches nothing in front of the position the controller reports.  It may be ahead of it
\* only from a write that failed, and only until it goes back, in whatever way.
Ahead == pos > fp
OnlyAhead ==
    [][/\ ~Ahead /\ cells' # cells => \A k \in 1..Min({pos, Len(cells)}) : cells'[k] = cells[k]
       /\ ~Ahead /\ Ahead' => said'.op = "write" /\ said'.st = "exc"
       /\ pos' < pos => ~Ahead']_vars

\* "tape_pos, kept beside the file's own position, is never ahead of it" would be the stronger
\* claim.  It is false after a failed flush, and then the next write, which goes where the
\* file stands, lands in front of the position the controller reported.  No run has it.
NeverAhead == ~Ahead

\* "SIMH .tap format", "forward/reverse spacing" (lsi11/README.md): a program that has come to
\* the end of the medium can space back from there.
SpacesBack ==
    online /\ At = Len(tape.objects) /\ SubSeq(cells, pos + 1, Len(cells)) = <<65535, 65535>>
        => Backward(Forward(Here)).st # "exc"

=============================================================================
