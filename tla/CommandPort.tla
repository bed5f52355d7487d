---------------------------- MODULE CommandPort ----------------------------
(***************************************************************************)
(* What an MSCP/TMSCP port promises its driver, whatever its rings look    *)
(* like: commands are answered one at a time, in the order in which they   *)
(* were posted, each exactly once; an attention message may come between   *)
(* two answers; messages reach the driver in the order in which the port   *)
(* sent them; a reset forgets everything.  Uqssp refines this module.      *)
(***************************************************************************)
EXTENDS Naturals, Sequences

CONSTANTS
  Commands,    \* the commands a driver can post
  Events       \* the attention messages a port can send

VARIABLES
  inbox,       \* commands posted and not answered, oldest first
  outbox       \* messages sent and not collected, oldest first

portVars == <<inbox, outbox>>

Messages == [kind : {"end", "una"}, id : Commands \cup Events]

Init == inbox = <<>> /\ outbox = <<>>

Post(c) ==
  /\ inbox' = Append(inbox, c)
  /\ UNCHANGED outbox

Answer ==
  /\ inbox # <<>>
  /\ outbox' = Append(outbox, [kind |-> "end", id |-> Head(inbox)])
  /\ inbox' = Tail(inbox)

Attention(u) ==
  /\ outbox' = Append(outbox, [kind |-> "una", id |-> u])
  /\ UNCHANGED inbox

Collect ==
  /\ outbox # <<>>
  /\ outbox' = Tail(outbox)
  /\ UNCHANGED inbox

Reset == inbox' = <<>> /\ outbox' = <<>>

Next ==
  \/ \E c \in Commands : Post(c)
  \/ Answer
  \/ \E u \in Events : Attention(u)
  \/ Collect
  \/ Reset

Spec == Init /\ [][Next]_portVars
=============================================================================
