---------------------------- MODULE TapeImageMC ----------------------------
(* Images for TapeImage, and the view of the run.                           *)
EXTENDS TapeImage

Rec(len, v) == Encoded(Record(len, [k \in 1..DataCells(len) |-> v]))
Tmk == Encoded(Mark)
Eom == <<65535, 65535>>

\* Blank; a record and a mark; an odd record between marks; a record cut off in its data;
\* one that ends in half a length; one behind which the medium ends.
SomeImages ==
    {<<>>, Rec(2, 7) \o Tmk, Tmk \o Rec(3, 0) \o Tmk,
     Rec(2, 2) \o SubSeq(Rec(3, 7), 1, 3), Rec(3, 2) \o <<2>>, Rec(2, 7) \o Eom}

\* The answer is read by no step, and the history is a function of the image.
State == <<cells, fp, pos, readOnly, online, swProtect, faults>>

=============================================================================
