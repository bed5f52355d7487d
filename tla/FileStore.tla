------------------------------ MODULE FileStore ------------------------------
(***************************************************************************)
(* What the user of rt11tool is promised of a volume: named files with     *)
(* contents, some of them protected.  A request is asked and answered; it  *)
(* is "done" with its effect on the files, or "refused" without one.  Only *)
(* a squeeze that is cut short may spoil contents, though never names.     *)
(*                                                                         *)
(* The promise of adding a file has an exception: a read may fail          *)
(* unnoticed.  Then the file may get a name that is taken already, and     *)
(* zeros where its own blocks should be.                                   *)
(***************************************************************************)
EXTENDS Naturals, SequencesExt

CONSTANTS
    Names,
    NoRequest,
    Zeros

VARIABLES
    files,      \* the files of each name, the one that requests mean first
    hidden,     \* reads that failed unnoticed: 0 the lookup, i block i of the host file
    req,        \* the request in progress, or NoRequest
    said        \* the answer to the last one

vars == <<files, hidden, req, said>>

Init == hidden = {} /\ req = NoRequest /\ said = "nothing"

Ask ==
    /\ req = NoRequest
    /\ req' # NoRequest
    /\ said' = "nothing"
    /\ UNCHANGED <<files, hidden>>

Miss ==
    /\ req # NoRequest /\ req.op = "add"
    /\ hidden \subseteq hidden' /\ hidden' \subseteq 0 .. Len(req.content)
    /\ UNCHANGED <<files, req, said>>

Answer(op, answer) ==
    /\ req # NoRequest /\ req.op = op
    /\ req' = NoRequest /\ said' = answer /\ hidden' = {}

There == files[req.name] # <<>>
Put(entries) == files' = [files EXCEPT ![req.name] = entries]

Add ==
    /\ Answer("add", "done")
    /\ There => 0 \in hidden
    /\ LET content == [i \in DOMAIN req.content |-> IF i \in hidden THEN Zeros ELSE req.content[i]]
       IN  \E i \in 1 .. Len(files[req.name]) + 1 :
              Put(InsertAt(files[req.name], i, [content |-> content, locked |-> FALSE]))

Delete ==
    /\ Answer("remove", "done")
    /\ There /\ (files[req.name][1].locked => req.flag)
    /\ Put(Tail(files[req.name]))

Protect ==
    /\ Answer("protect", "done")
    /\ There
    /\ Put([files[req.name] EXCEPT ![1].locked = req.flag])

Tidy == (Answer("squeeze", "done") \/ Answer("fsck", "done")) /\ UNCHANGED files

Refuse ==
    /\ \E op \in {"add", "remove", "protect", "squeeze", "fsck"} : Answer(op, "refused")
    /\ UNCHANGED files

Outline(entries) == [i \in DOMAIN entries |-> <<Len(entries[i].content), entries[i].locked>>]

Spoil ==
    /\ Answer("squeeze", "refused")
    /\ \A n \in Names : Outline(files'[n]) = Outline(files[n])

Next == Ask \/ Miss \/ Add \/ Delete \/ Protect \/ Tidy \/ Refuse \/ Spoil

Spec == Init /\ [][Next]_vars

=============================================================================
