----------------------------- MODULE Rt11Volume -----------------------------
(***************************************************************************)
(* An RT-11 volume under rt11tool (lsi11/tools/rt11fs.c): a chain of       *)
(* directory segments, each with the entries that divide its part of the   *)
(* volume into files and empty areas, and the blocks themselves.  A        *)
(* request reads the directory, moves blocks one by one and writes one     *)
(* segment at the end; any access to the image may fail, or the tool may   *)
(* be killed, and then what is written stays.  Two failures go unnoticed:  *)
(* of the lookup before a file is added, and of a read of the host file.   *)
(*                                                                         *)
(* Blocks count from the start of the data area.  A segment is written     *)
(* whole.  The chain has no loop and every segment ends with E.EOS; dates, *)
(* job words, extra words, the home block and partitions are left out.     *)
(***************************************************************************)
EXTENDS Naturals, SequencesExt

CONSTANTS
    Names,          \* bound: names of files
    NoFile,
    NoRequest,
    Blocks,         \* bound: blocks of the data area
    MaxEntries,     \* bound: entries of a segment, 72 in the code
    Volumes,        \* volumes a program starts with
    Lengths,        \* bound: lengths of host files, in blocks
    MaxAsks,        \* bound: number of requests
    MaxFaults       \* bound: number of failed accesses

VARIABLES
    dir,        \* the segments in the order of their chain: start, entries, length in E.EOS
    data,       \* what each block holds
    req,        \* the request, or NoRequest
    said,       \* its answer
    job,        \* locals of a request in progress
    asked,      \* number of requests, which also numbers the contents of host files
    faults      \* bookkeeping for MaxFaults

vars == <<dir, data, req, said, job, asked, faults>>

Block == 0 .. Blocks - 1
Torn == <<0, Blocks>>            \* a block whose write has failed holds nothing known
Zeros == <<0, Blocks + 1>>       \* what is written for a block the host file did not give

-----------------------------------------------------------------------------
(* The directory.                                                          *)

IsFile(e) == e.status \in {"file", "tent"}      \* rt11_entry_is_file
IsEmpty(e) == e.status = "empty"                \* rt11_entry_is_empty
Empty(len) == [status |-> "empty", name |-> NoFile, len |-> len, prot |-> FALSE]

Sum(entries) == FoldSeq(LAMBDA e, n : n + e.len, 0, entries)

\* A place is the segment and the index of an entry, in the order rt11_walk_next visits.
Places == UNION {{s} \X DOMAIN dir[s].entries : s \in DOMAIN dir}
At(p) == dir[p[1]].entries[p[2]]
Start(p) == dir[p[1]].start + Sum(SubSeq(dir[p[1]].entries, 1, p[2] - 1))
Before(p, q) == p[1] < q[1] \/ (p[1] = q[1] /\ p[2] < q[2])
First(P) == CHOOSE p \in P : \A q \in P \ {p} : Before(p, q)

\* rt11_find_file
Found(name) == {p \in Places : IsFile(At(p)) /\ At(p).name = name}

\* rt11_add_file: the first empty area that is long enough.
Holes(len) == {p \in Places : IsEmpty(At(p)) /\ At(p).len >= len}

Extent(s) == (IF s < Len(dir) THEN dir[s + 1].start ELSE Blocks) - dir[s].start

\* rt11_extract_file
Extract(p) == [i \in 1 .. At(p).len |-> data[Start(p) + i - 1]]

\* The files of each name in the order of the directory; every request means the first.
InOrder(name) == SetToSortSeq(Found(name), Before)
Files ==
    [n \in Names |-> [i \in DOMAIN InOrder(n) |->
                         [content |-> Extract(InOrder(n)[i]), locked |-> At(InOrder(n)[i]).prot]]]

-----------------------------------------------------------------------------
(* Requests.                                                               *)

\* Block i of the k-th request's host file.
HostFile(k, len) == [i \in 1 .. len |-> <<k, i>>]

Requests(k) ==
    [op : {"add"}, name : Names, content : {HostFile(k, len) : len \in Lengths}, flag : {FALSE}]
    \cup [op : {"remove", "protect"}, name : Names, content : {<<>>}, flag : BOOLEAN]
    \cup [op : {"squeeze", "fsck"}, name : {NoFile}, content : {<<>>}, flag : BOOLEAN]

Idle == [at |-> "idle"]

Init ==
    /\ \E v \in Volumes : dir = v.dir /\ data = v.data
    /\ req = NoRequest /\ said = "nothing" /\ job = Idle /\ asked = 0 /\ faults = 0

Ask ==
    /\ req = NoRequest /\ asked < MaxAsks
    /\ asked' = asked + 1
    /\ req' \in Requests(asked + 1)
    /\ said' = "nothing"
    /\ UNCHANGED <<dir, data, job, faults>>

Answer(answer) ==
    /\ req' = NoRequest /\ said' = answer /\ job' = Idle
    /\ UNCHANGED asked

Begun(op) == req # NoRequest /\ req.op = op /\ job = Idle
Doing(place) == req # NoRequest /\ job.at = place

-----------------------------------------------------------------------------
(* rt11_add_file: blocks first, then the segment.                          *)

AddRefused ==
    /\ Begun("add")
    /\ Found(req.name) # {} \/ Holes(Len(req.content)) = {}
    /\ Answer("refused")
    /\ UNCHANGED <<dir, data, faults>>

\* rt11_find_file returns -1 for a failed read as for a name it did not find, and either is
\* taken for "not there".  job.hidden keeps the reads that failed unnoticed: 0 is the
\* lookup, i is block i of the host file.
AddBegin ==
    /\ Begun("add") /\ Holes(Len(req.content)) # {}
    /\ \E missed \in BOOLEAN :
          /\ Found(req.name) = {} \/ missed
          /\ IF missed THEN faults < MaxFaults /\ faults' = faults + 1 ELSE UNCHANGED faults
          /\ LET p == First(Holes(Len(req.content)))
             IN  IF Start(p) + Len(req.content) > Blocks
                 THEN Answer("refused")
                 ELSE /\ job' = [at |-> "copy", place |-> p, n |-> 0,
                                 hidden |-> IF missed THEN {0} ELSE {}]
                      /\ UNCHANGED <<req, said, asked>>
    /\ UNCHANGED <<dir, data>>

\* fread gives less than a block, of this one or of all that follow.
HostFails ==
    /\ Doing("copy") /\ job.n < Len(req.content) /\ faults < MaxFaults
    /\ faults' = faults + 1
    /\ \E last \in {job.n + 1, Len(req.content)} :
          job' = [job EXCEPT !.hidden = @ \cup (job.n + 1 .. last)]
    /\ UNCHANGED <<dir, data, req, said, asked>>

CopyBlock ==
    /\ Doing("copy") /\ job.n < Len(req.content)
    /\ data' = [data EXCEPT ![Start(job.place) + job.n] =
                  IF job.n + 1 \in job.hidden THEN Zeros ELSE req.content[job.n + 1]]
    /\ job' = [job EXCEPT !.n = @ + 1]
    /\ UNCHANGED <<dir, req, said, asked, faults>>

\* Mutant of Filled: what is left of the area is forgotten.
FilledForgets(entries, i, name, len) ==
    [entries EXCEPT ![i] = [status |-> "file", name |-> name, len |-> len, prot |-> FALSE]]

\* The entries with a file at the start of the empty area i, and what is left of it behind.
Filled(entries, i, name, len) ==
    LET file == [status |-> "file", name |-> name, len |-> len, prot |-> FALSE]
        rest == entries[i].len - len
    IN  IF rest = 0 THEN [entries EXCEPT ![i] = file]
        ELSE InsertAt([entries EXCEPT ![i] = file], i + 1, Empty(rest))

\* rt11_insert_entry refuses when no entry is free behind E.EOS.
AddFinish ==
    /\ Doing("copy") /\ job.n = Len(req.content)
    /\ LET s       == job.place[1]
           entries == dir[s].entries
           n       == Len(req.content)
       IN  IF At(job.place).len > n /\ Len(entries) >= MaxEntries - 1
           THEN Answer("refused") /\ UNCHANGED dir
           ELSE /\ dir' = [dir EXCEPT ![s].entries = Filled(entries, job.place[2], req.name, n)]
                /\ Answer("done")
    /\ UNCHANGED <<data, faults>>

-----------------------------------------------------------------------------
(* rt11_remove_file and rt11_set_protect: one entry of one segment.        *)

Change(entry) ==
    LET p == First(Found(req.name)) IN dir' = [dir EXCEPT ![p[1]].entries[p[2]] = entry]

RemoveFile ==
    /\ Begun("remove")
    /\ IF Found(req.name) = {} \/ (At(First(Found(req.name))).prot /\ ~req.flag)
       THEN Answer("refused") /\ UNCHANGED dir
       ELSE Change(Empty(At(First(Found(req.name))).len)) /\ Answer("done")
    /\ UNCHANGED <<data, faults>>

SetProtect ==
    /\ Begun("protect")
    /\ IF Found(req.name) = {} \/ (req.flag /\ At(First(Found(req.name))).status = "tent")
       THEN Answer("refused") /\ UNCHANGED dir
       ELSE Change([At(First(Found(req.name))) EXCEPT !.prot = req.flag]) /\ Answer("done")
    /\ UNCHANGED <<data, faults>>

-----------------------------------------------------------------------------
(* rt11_squeeze: segment by segment, files towards the start.              *)

\* The files of a segment, and the places they have.
FilesOf(s) == SelectSeq(dir[s].entries, IsFile)
FilePlace(s, k) ==
    LET P == {p \in Places : p[1] = s /\ IsFile(At(p))}
    IN  CHOOSE p \in P : Cardinality({q \in P : q[2] <= p[2]}) = k

\* Mutant of NewStart: files go to the start of the volume.
NewStartFirst(s, k) == dir[1].start + Sum(SubSeq(FilesOf(s), 1, k - 1))

NewStart(s, k) == dir[s].start + Sum(SubSeq(FilesOf(s), 1, k - 1))

\* Mutant of Offset: the last block first, as rt11_move_blocks does for a move to the end.
OffsetLast(n, len) == len - 1 - n

\* rt11_move_blocks towards the start: the first block first.
Offset(n, len) == n

SqueezeBegin ==
    /\ Begun("squeeze")
    /\ job' = [at |-> "move", seg |-> 1, file |-> 1, n |-> 0, view |-> Files]
    /\ UNCHANGED <<dir, data, req, said, asked, faults>>

Segment == IF job.seg \in DOMAIN dir THEN {dir[job.seg]} ELSE {}
HasTent == \E g \in Segment : \E i \in DOMAIN g.entries : g.entries[i].status = "tent"
HasEmpty == \E g \in Segment : \E i \in DOMAIN g.entries : IsEmpty(g.entries[i])

SqueezeTent ==
    /\ Doing("move") /\ HasTent
    /\ Answer("refused")
    /\ UNCHANGED <<dir, data, faults>>

NextSegment == job' = [job EXCEPT !.seg = @ + 1, !.file = 1, !.n = 0]

SqueezeSkip ==
    /\ Doing("move") /\ Segment # {} /\ ~HasTent /\ ~HasEmpty
    /\ NextSegment
    /\ UNCHANGED <<dir, data, req, said, asked, faults>>

Moving == Doing("move") /\ HasEmpty /\ ~HasTent /\ job.file <= Len(FilesOf(job.seg))
Current == FilePlace(job.seg, job.file)
InPlace == job.n = At(Current).len \/ Start(Current) = NewStart(job.seg, job.file)

MoveBlock ==
    /\ Moving
    /\ IF InPlace
       THEN job' = [job EXCEPT !.file = @ + 1, !.n = 0] /\ UNCHANGED data
       ELSE LET i == Offset(job.n, At(Current).len)
            IN  /\ job' = [job EXCEPT !.n = @ + 1]
                /\ data' = [data EXCEPT ![NewStart(job.seg, job.file) + i] = data[Start(Current) + i]]
    /\ UNCHANGED <<dir, req, said, asked, faults>>

\* The files, one empty area with all the rest, and E.EOS of no length.
SqueezeWrite ==
    /\ Doing("move") /\ HasEmpty /\ ~HasTent /\ job.file > Len(FilesOf(job.seg))
    /\ LET s    == job.seg
           rest == Sum(dir[s].entries) + dir[s].eos - Sum(FilesOf(s))
       IN  dir' = [dir EXCEPT ![s].eos = 0,
                              ![s].entries = FilesOf(s) \o (IF rest > 0 THEN <<Empty(rest)>> ELSE <<>>)]
    /\ NextSegment
    /\ UNCHANGED <<data, req, said, asked, faults>>

SqueezeDone ==
    /\ Doing("move") /\ Segment = {}
    /\ Answer("done")
    /\ UNCHANGED <<dir, data, faults>>

-----------------------------------------------------------------------------
(* rt11_fsck, with --repair: the length in E.EOS.                          *)

Repaired(s) ==
    IF Sum(dir[s].entries) > Extent(s) \/ Extent(s) = 0 THEN dir[s]
    ELSE [dir[s] EXCEPT !.eos = Extent(s) - Sum(dir[s].entries)]

Fsck ==
    /\ Begun("fsck")
    /\ dir' = IF req.flag THEN [s \in DOMAIN dir |-> Repaired(s)] ELSE dir
    /\ Answer("done")
    /\ UNCHANGED <<data, faults>>

-----------------------------------------------------------------------------
(* An access fails and the tool notices, or the tool is killed.            *)

\* The block that the next write would change.
Target ==
    CASE job.at = "copy" /\ job.n < Len(req.content) -> {Start(job.place) + job.n}
      [] Moving /\ ~InPlace ->
           {NewStart(job.seg, job.file) + Offset(job.n, At(Current).len)}
      [] OTHER -> {}

Fail ==
    /\ req # NoRequest /\ faults < MaxFaults
    /\ faults' = faults + 1
    /\ \/ UNCHANGED data
       \/ \E b \in Target \cap Block : data' = [data EXCEPT ![b] = Torn]
    /\ Answer("refused")
    /\ dir' \in IF Begun("fsck") /\ req.flag
               THEN {[s \in DOMAIN dir |-> IF s < k THEN Repaired(s) ELSE dir[s]] : k \in DOMAIN dir}
               ELSE {dir}

Next ==
    \/ Ask \/ AddRefused \/ AddBegin \/ HostFails \/ CopyBlock \/ AddFinish \/ RemoveFile
    \/ SetProtect \/ SqueezeBegin \/ SqueezeTent \/ SqueezeSkip \/ MoveBlock \/ SqueezeWrite \/ SqueezeDone
    \/ Fsck \/ Fail

Spec == Init /\ [][Next]_vars

-----------------------------------------------------------------------------
(* Properties.                                                             *)

\* The volume is the store of files the user sees: what is done has exactly its effect on
\* names, contents and protection, and what is refused or fails has none, but for a
\* squeeze cut short; a file added wrongly, or beside another of its name, answers to a read
\* that failed unnoticed.  While a squeeze moves blocks the store is the one it found.
Store == INSTANCE FileStore WITH
            files  <- IF job.at = "move" THEN job.view ELSE Files,
            hidden <- IF job.at = "copy" THEN job.hidden ELSE {}

ImplementsFileStore == Store!Spec

\* What the code means by refusing a file that is there (EEXIST, rt11fs.c:1012-1015), and
\* does not keep: no two entries have one name.  A failed lookup breaks it, so no run has it.
NameOnce == \A n \in Names : Cardinality(Found(n)) <= 1

\* A segment that fsck finds nothing wrong with: its entries and E.EOS cover its part of the
\* volume exactly, and E.EOS is inside the segment.
Clean(s) == Sum(dir[s].entries) + dir[s].eos = Extent(s) /\ Len(dir[s].entries) < MaxEntries

\* No request leaves a clean segment with a gap, an overlap or no end, failed or done, and a
\* repair leaves all of them clean whose entries fit.
SegmentsStayClean ==
    [][\A s \in DOMAIN dir :
          /\ Clean(s) => Clean(s)'
          /\ req # NoRequest /\ req.op = "fsck" /\ req.flag /\ said' = "done" => Clean(s)']_vars

\* A squeeze cut short, by a failed access or by a tentative file it meets in a later
\* segment, spoils no file in another segment, and in its own none before the first empty
\* area; all the others of the volume read as before.
CutSqueezeSpoilsTail ==
    [][Doing("move") /\ said' = "refused" =>
          \A n \in Names : \A i \in DOMAIN InOrder(n) :
              LET p == InOrder(n)[i]
              IN  \/ p[1] = job.seg /\ \E q \in Places : q[1] = p[1] /\ q[2] < p[2] /\ IsEmpty(At(q))
                  \/ Files'[n][i] = job.view[n][i]]_vars

=============================================================================
