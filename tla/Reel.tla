-------------------------------- MODULE Reel --------------------------------
(***************************************************************************)
(* What a tape drive promises the program that uses it: a reel of records  *)
(* and marks, and a head that stands between two of them.  The head may be *)
(* lost when it runs over something that is neither, or when the medium    *)
(* fails; until it is rewound nothing is said about where it stands.       *)
(***************************************************************************)
EXTENDS Integers, Sequences, FiniteSets

CONSTANTS
    Mark,      \* a tape mark; every other object is a record [len, data]
    Lost       \* a position that is none

VARIABLES
    reel,      \* the objects, up to the first place that holds none
    blank,     \* nothing follows them
    at,        \* the objects before the head, or Lost
    said       \* the last answer: [op, st, asked, n, data]; a write asks for an object

vars == <<reel, blank, at, said>>

Standing == at # Lost
Unwritten == UNCHANGED <<reel, blank>>

\* How many records, or marks, lie between the positions i and j.
Passed(i, j, marks) ==
    LET lo == IF i < j THEN i ELSE j
        hi == IF i < j THEN j ELSE i
    IN  Cardinality({k \in lo + 1..hi : (reel[k] = Mark) = marks})

Init == at = 0

\* Rewinding, mounting, unloading and a reset of the port put the head before the
\* first object; so it stands while the drive is off line.
Rewind == said'.op = "rewind" /\ at' = 0 /\ Unwritten

\* A command that is refused moves nothing.
Refused == said'.st \in {"avl", "wpr", "cmd"} /\ at' = at /\ Unwritten

\* A transfer passes one object.  It delivers the record, or as much as was asked for.
Read ==
    /\ said'.op = "read"
    /\ Standing /\ at < Len(reel)
    /\ at' = at + 1
    /\ LET o == reel[at + 1]
       IN  IF o = Mark THEN said'.st = "mark" /\ said'.n = 0
           ELSE \/ said'.st = "ok" /\ said'.n = o.len /\ o.len <= said'.asked /\ said'.data = o.data
                \/ /\ said'.st = "long" /\ said'.n = said'.asked /\ said'.asked < o.len
                   /\ said'.data = SubSeq(o.data, 1, Len(said'.data))
                \/ said'.st = "nxm" /\ said'.n = 0
                \/ said'.st = "differs"
    /\ Unwritten

\* Past the last object there is nothing, and the head stays; or something that is no
\* object, and the head is lost.
PastEnd(st, there) ==
    IF blank THEN st = "eot" /\ there = Len(reel)
    ELSE st \in {"eot", "exc"} /\ there = Lost

ReadEnd ==
    /\ said'.op = "read" /\ said'.n = 0
    /\ at = Len(reel)
    /\ PastEnd(said'.st, at')
    /\ Unwritten

\* A write puts one object under the head.  What was before it stays; what was behind
\* it is anything, but nothing if nothing was there.
Write ==
    /\ said'.op = "write" /\ said'.st = "ok"
    /\ Standing
    /\ at' = at + 1
    /\ Len(reel') > at
    /\ SubSeq(reel', 1, at + 1) = Append(SubSeq(reel, 1, at), said'.asked)
    /\ blank /\ at = Len(reel) => blank' /\ Len(reel') = at + 1

\* A write that fails spares what was before it.
WriteFails ==
    /\ said'.op = "write" /\ said'.st \in {"exc", "nxm"}
    /\ Standing
    /\ said'.st = "nxm" => at' = at /\ Unwritten
    /\ Len(reel') >= at
    /\ SubSeq(reel', 1, at) = SubSeq(reel, 1, at)

\* Spacing passes as many records as it was asked for, unless it meets a mark, which it
\* passes too, or an end; spacing by marks passes as many marks, and the records between
\* them.  The answer counts what was passed.
Space(back, marks) ==
    /\ said'.op = "space"
    /\ Standing
    /\ LET end  == at' = IF back THEN 0 ELSE Len(reel)
           stop == IF at' = Lost THEN Len(reel) ELSE at'
           last == IF back THEN stop + 1 ELSE stop
       IN  /\ IF back THEN stop <= at ELSE stop >= at
           /\ said'.n = Passed(at, stop, marks)
           /\ CASE said'.st = "ok" ->
                     /\ said'.n = said'.asked /\ at' # Lost
                     /\ IF marks THEN said'.n > 0 => reel[last] = Mark
                        ELSE Passed(at, stop, TRUE) = 0
                [] said'.st = "mark" ->
                     /\ ~marks /\ at' # Lost
                     /\ reel[last] = Mark /\ Passed(at, stop, TRUE) = 1
                     /\ said'.n < said'.asked
                [] said'.st = "bot" -> back /\ at' = 0 /\ said'.n < said'.asked
                [] OTHER -> /\ ~back /\ said'.n < said'.asked
                            /\ PastEnd(said'.st, at')
           /\ ~marks /\ said'.st # "mark" => Passed(at, stop, TRUE) = 0
    /\ Unwritten

\* Nothing is promised of a lost head, but only a write changes the reel.
Astray == at = Lost /\ (said'.op # "write" => Unwritten)

Next ==
    \/ Rewind \/ Refused
    \/ Read \/ ReadEnd
    \/ Write \/ WriteFails
    \/ \E back, marks \in BOOLEAN : Space(back, marks)
    \/ Astray

Spec == Init /\ [][Next]_vars

=============================================================================
