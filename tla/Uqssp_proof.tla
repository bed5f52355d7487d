----------------------------- MODULE Uqssp_proof -----------------------------
(***************************************************************************)
(* Theorems about the MSCP and TMSCP port: what the port and its driver    *)
(* agree on while they work on the two rings, and that the port implements *)
(* CommandPort.                                                            *)
(***************************************************************************)
EXTENDS Uqssp, NumberLemmas, FiniteSetTheorems, SequenceTheorems

\* The guest resets the port only between two polls: by its own discipline, or
\* because it does not run during one.
Quiet == QuietReset \/ ~DualCore

-----------------------------------------------------------------------------
(* Windows of a ring. *)

\* The slots in S are those from first on, up to next and without it.
Window(first, next, size, S) ==
    \E n \in 0 .. size :
        /\ next = Place(first, n, size)
        /\ \A k \in 0 .. size - 1 : Place(first, k, size) \in S <=> k < n

\* The slots in S of a ring of that size are those from first to next, without next.
Ring(first, next, size, S) ==
    /\ size \in Nat \ {0} /\ first \in 0 .. size - 1 /\ next \in 0 .. size - 1
    /\ Window(first, next, size, S)

\* f gives each slot of a ring of that size a value in V.
Valued(size, V, f) == f \in [0 .. size - 1 -> V]

\* The slot k places after another, round the ring.
LEMMA Around ==
    ASSUME NEW size \in Nat \ {0}, NEW i \in 0 .. size - 1, NEW k \in 0 .. size
    PROVE  /\ Place(i, k, size) = IF i + k < size THEN i + k ELSE i + k - size
           /\ Place(i, k, size) \in 0 .. size - 1
<1> DEFINE x == i + k
<1>1. x \in Nat /\ x < size + size
  OBVIOUS
<1> HIDE DEF x
<1>2. x % size = IF x < size THEN x ELSE x - size
  BY <1>1, ModWrap
<1>3. Place(i, k, size) = x % size
  BY DEF Place, x
<1>4. Place(i, k, size) = IF x < size THEN x ELSE x - size
  BY <1>2, <1>3
<1> QED BY <1>4 DEF x

\* A run is as long as the window it runs through.
LEMMA WindowLength ==
    ASSUME NEW size \in Nat \ {0}, NEW first \in 0 .. size - 1, NEW S, NEW n \in 0 .. size,
           \A k \in 0 .. size - 1 : Place(first, k, size) \in S <=> k < n
    PROVE  RunLength(first, size, S) = n
<1> DEFINE P(m) == /\ \A k \in 0 .. m - 1 : Place(first, k, size) \in S
                   /\ m < size => Place(first, m, size) \notin S
<1>1. P(n)
  OBVIOUS
<1>2. ASSUME NEW m \in 0 .. size, P(m) PROVE m = n
  <2>1. ~(m < n)
    <3> SUFFICES ASSUME m < n PROVE FALSE
      OBVIOUS
    <3>1. m \in 0 .. size - 1
      OBVIOUS
    <3> QED BY <1>2, <3>1
  <2>2. ~(n < m)
    <3> SUFFICES ASSUME n < m PROVE FALSE
      OBVIOUS
    <3>1. n \in 0 .. m - 1 /\ n \in 0 .. size - 1
      OBVIOUS
    <3> QED BY <1>2, <3>1
  <2> QED BY <2>1, <2>2
<1>3. RunLength(first, size, S) = CHOOSE m \in 0 .. size : P(m)
  BY DEF RunLength
<1> HIDE DEF P
<1> QED BY <1>1, <1>2, <1>3

\* A window that has not closed grows by its next slot.
LEMMA WindowAdd ==
    ASSUME NEW size, NEW first, NEW next, NEW S, NEW T, Ring(first, next, size, S),
           next \notin S, \A x : x \in T <=> x \in S \/ x = next
    PROVE  /\ Ring(first, Place(next, 1, size), size, T)
           /\ RunLength(first, size, S) \in 0 .. size - 1
           /\ next = Place(first, RunLength(first, size, S), size)
           /\ RunLength(first, size, T) = RunLength(first, size, S) + 1
<1> USE DEF Ring
<1>1. PICK n \in 0 .. size : /\ next = Place(first, n, size)
                             /\ \A k \in 0 .. size - 1 : Place(first, k, size) \in S <=> k < n
  BY DEF Window
<1>2. n < size
  <2> SUFFICES ASSUME n = size PROVE FALSE
    OBVIOUS
  <2>1. next = first
    BY <1>1, Around
  <2>2. Place(first, 0, size) = first
    BY Around
  <2>3. 0 \in 0 .. size - 1
    OBVIOUS
  <2> QED BY <1>1, <2>1, <2>2, <2>3
<1>3. Place(next, 1, size) = Place(first, n + 1, size)
  <2>1. n \in 0 .. size /\ n + 1 \in 0 .. size /\ 1 \in 0 .. size
    BY <1>2
  <2>2. next = IF first + n < size THEN first + n ELSE first + n - size
    BY <1>1, <2>1, Around
  <2>3. Place(next, 1, size) = IF next + 1 < size THEN next + 1 ELSE next + 1 - size
    BY <2>1, Around
  <2>4. Place(first, n + 1, size) = IF first + (n + 1) < size THEN first + (n + 1)
                                    ELSE first + (n + 1) - size
    BY <2>1, Around
  <2> QED BY <1>2, <2>2, <2>3, <2>4
<1>4. ASSUME NEW k \in 0 .. size - 1
      PROVE  Place(first, k, size) \in T <=> k < n + 1
  <2>1. Place(first, k, size) = next <=> k = n
    <3>1. Place(first, k, size) = IF first + k < size THEN first + k ELSE first + k - size
      <4>1. k \in 0 .. size
        OBVIOUS
      <4> QED BY <4>1, Around
    <3>2. next = IF first + n < size THEN first + n ELSE first + n - size
      BY <1>1, Around
    <3>3. ASSUME k # n PROVE Place(first, k, size) # next
      BY <1>2, <3>1, <3>2, <3>3
    <3> QED BY <1>1, <3>3
  <2> QED BY <1>1, <2>1
<1>5. RunLength(first, size, S) = n
  BY <1>1, WindowLength
<1>6. RunLength(first, size, T) = n + 1
  BY <1>2, <1>4, WindowLength
<1>7. Window(first, Place(next, 1, size), size, T)
  <2>1. n + 1 \in 0 .. size
    BY <1>2
  <2> QED BY <1>3, <1>4, <2>1 DEF Window
<1>8. Place(next, 1, size) \in 0 .. size - 1
  <2>1. 1 \in 0 .. size
    OBVIOUS
  <2> QED BY <2>1, Around
<1> QED BY <1>1, <1>2, <1>5, <1>6, <1>7, <1>8

\* The slot k places after the next one.
LEMMA PlaceNext ==
    ASSUME NEW size \in Nat \ {0}, NEW i \in 0 .. size - 1, NEW k \in 0 .. size - 1
    PROVE  Place(Place(i, 1, size), k, size) = Place(i, k + 1, size)
<1> DEFINE second == Place(i, 1, size)
<1>1. 1 \in 0 .. size /\ k \in 0 .. size /\ k + 1 \in 0 .. size
  OBVIOUS
<1>2. /\ second \in 0 .. size - 1
      /\ second = IF i + 1 < size THEN i + 1 ELSE i + 1 - size
  BY <1>1, Around
<1> HIDE DEF second
<1>3. Place(second, k, size) = IF second + k < size THEN second + k ELSE second + k - size
  BY <1>1, <1>2, Around
<1>4. Place(i, k + 1, size) = IF i + (k + 1) < size THEN i + (k + 1)
                              ELSE i + (k + 1) - size
  BY <1>1, Around
<1> QED BY <1>2, <1>3, <1>4 DEF second

\* A window loses its first slot.
LEMMA WindowRemove ==
    ASSUME NEW size, NEW first, NEW next, NEW S, NEW T, Ring(first, next, size, S),
           first \in S, \A x : x \in T <=> x \in S /\ x # first
    PROVE  /\ Ring(Place(first, 1, size), next, size, T)
           /\ RunLength(first, size, S) \in 1 .. size
           /\ RunLength(Place(first, 1, size), size, T) = RunLength(first, size, S) - 1
<1> DEFINE second == Place(first, 1, size)
<1> USE DEF Ring
<1>1. PICK n \in 0 .. size : /\ next = Place(first, n, size)
                             /\ \A k \in 0 .. size - 1 : Place(first, k, size) \in S <=> k < n
  BY DEF Window
<1>2. n > 0
  <2>1. Place(first, 0, size) = first
    BY Around
  <2>2. 0 \in 0 .. size - 1
    OBVIOUS
  <2> QED BY <1>1, <2>1, <2>2
<1>3. /\ second \in 0 .. size - 1
      /\ second = IF first + 1 < size THEN first + 1 ELSE 0
  <2>1. 1 \in 0 .. size
    OBVIOUS
  <2>2. second = IF first + 1 < size THEN first + 1 ELSE first + 1 - size
    BY <2>1, Around
  <2> QED BY <2>2
<1>4. ASSUME NEW k \in 0 .. size - 1
      PROVE  Place(second, k, size) = Place(first, k + 1, size)
  BY PlaceNext
<1>5. next = Place(second, n - 1, size)
  BY <1>1, <1>2, <1>4
<1>6. ASSUME NEW k \in 0 .. size - 1
      PROVE  Place(second, k, size) \in T <=> k < n - 1
  <2>1. CASE k = size - 1
    <3>1. Place(second, k, size) = first
      BY <1>4, <2>1, Around
    <3> QED BY <2>1, <3>1
  <2>2. CASE k < size - 1
    <3>1. Place(second, k, size) \in S <=> k + 1 < n
      BY <1>1, <1>4, <2>2
    <3>2. Place(second, k, size) # first
      <4>1. k + 1 \in 0 .. size
        OBVIOUS
      <4>2. Place(first, k + 1, size) = IF first + (k + 1) < size THEN first + (k + 1)
                                        ELSE first + (k + 1) - size
        BY <4>1, Around
      <4> QED BY <1>4, <2>2, <4>2
    <3> QED BY <3>1, <3>2
  <2> QED BY <2>1, <2>2
<1>7. RunLength(first, size, S) = n
  BY <1>1, WindowLength
<1>8. RunLength(second, size, T) = n - 1
  <2>1. n - 1 \in 0 .. size
    BY <1>2
  <2> QED BY <1>3, <1>6, <2>1, WindowLength
<1>9. Window(second, next, size, T)
  <2>1. n - 1 \in 0 .. size
    BY <1>2
  <2> QED BY <1>5, <1>6, <2>1 DEF Window
<1> QED BY <1>2, <1>3, <1>7, <1>8, <1>9

\* A run through a window is a sequence of the values of its slots.
LEMMA RunTyped ==
    ASSUME NEW size, NEW first, NEW next, NEW S, NEW V, NEW f,
           Ring(first, next, size, S), Valued(size, V, f)
    PROVE  /\ Run(first, size, S, f) \in Seq(V)
           /\ RunLength(first, size, S) \in 0 .. size
           /\ Len(Run(first, size, S, f)) = RunLength(first, size, S)
<1> DEFINE n == RunLength(first, size, S)
<1> USE DEF Ring, Valued
<1>1. n \in 0 .. size
  BY WindowLength DEF Window
<1> HIDE DEF n
<1>2. ASSUME NEW k \in 1 .. n PROVE f[Place(first, k - 1, size)] \in V
  <2>1. k - 1 \in 0 .. size
    BY <1>1
  <2>2. Place(first, k - 1, size) \in 0 .. size - 1
    BY <2>1, Around
  <2> QED BY <2>2
<1>3. Run(first, size, S, f) = [k \in 1 .. n |-> f[Place(first, k - 1, size)]]
  BY DEF Run, n
<1>4. Run(first, size, S, f) \in [1 .. n -> V]
  BY <1>2, <1>3
<1>5. n \in Nat
  BY <1>1
<1>6. Run(first, size, S, f) \in Seq(V) /\ Len(Run(first, size, S, f)) = n
  BY <1>4, <1>5
<1> QED BY <1>1, <1>6 DEF n

\* The values of a run are those of its slots.
LEMMA RunValue ==
    ASSUME NEW size, NEW first, NEW S, NEW f, NEW k \in 1 .. RunLength(first, size, S)
    PROVE  Run(first, size, S, f)[k] = f[Place(first, k - 1, size)]
  BY DEF Run

\* A run only depends on what its slots hold.
LEMMA RunSame ==
    ASSUME NEW size, NEW first, NEW next, NEW S, NEW V, NEW f, NEW g,
           Ring(first, next, size, S), Valued(size, V, f), Valued(size, V, g),
           \A s \in 0 .. size - 1 : s \in S => g[s] = f[s]
    PROVE  Run(first, size, S, g) = Run(first, size, S, f)
<1> DEFINE n == RunLength(first, size, S)
<1> USE DEF Ring, Valued
<1>1. PICK m \in 0 .. size : \A k \in 0 .. size - 1 : Place(first, k, size) \in S <=> k < m
  BY DEF Window
<1>2. n = m
  BY <1>1, WindowLength
<1> HIDE DEF n
<1>3. ASSUME NEW k \in 1 .. n
      PROVE  g[Place(first, k - 1, size)] = f[Place(first, k - 1, size)]
  <2>1. k - 1 \in 0 .. size - 1 /\ k - 1 \in 0 .. size /\ k - 1 < m
    BY <1>2
  <2>2. Place(first, k - 1, size) \in S /\ Place(first, k - 1, size) \in 0 .. size - 1
    BY <1>1, <2>1, Around
  <2> QED BY <2>2
<1> QED BY <1>3 DEF Run, n

\* The run through a window that has grown by one slot has one value more at its end.
LEMMA RunAdd ==
    ASSUME NEW size, NEW first, NEW next, NEW S, NEW T, NEW V, NEW f, NEW g,
           Ring(first, next, size, S), Valued(size, V, f), Valued(size, V, g),
           next \notin S, \A x : x \in T <=> x \in S \/ x = next,
           \A s \in 0 .. size - 1 : s \in S => g[s] = f[s]
    PROVE  Run(first, size, T, g) = Append(Run(first, size, S, f), g[next])
<1> DEFINE n == RunLength(first, size, S)
           r == Run(first, size, S, g)
           q == Run(first, size, T, g)
<1>1. /\ Ring(first, Place(next, 1, size), size, T)
      /\ n \in 0 .. size - 1
      /\ next = Place(first, n, size)
      /\ RunLength(first, size, T) = n + 1
  BY WindowAdd
<1>2. r \in Seq(V) /\ Len(r) = n
  BY RunTyped
<1>3. q \in Seq(V) /\ Len(q) = n + 1
  BY <1>1, RunTyped
<1>9. ASSUME NEW k \in 1 .. n PROVE r[k] = g[Place(first, k - 1, size)]
  BY RunValue
<1>10. ASSUME NEW k \in 1 .. n + 1 PROVE q[k] = g[Place(first, k - 1, size)]
  BY <1>1, RunValue
<1> HIDE DEF n, r, q
<1>4. g[next] \in V /\ size \in Nat
  BY DEF Ring, Valued
<1>5. /\ Append(r, g[next]) \in Seq(V) /\ Len(Append(r, g[next])) = n + 1
      /\ \A k \in 1 .. n : Append(r, g[next])[k] = r[k]
      /\ Append(r, g[next])[n + 1] = g[next]
  BY <1>2, <1>4, AppendProperties
<1>6. ASSUME NEW k \in 1 .. n + 1 PROVE q[k] = Append(r, g[next])[k]
  <2>1. CASE k \in 1 .. n
    <3>1. k \in 1 .. n + 1
      BY <1>1, <1>4, <2>1
    <3> QED BY <1>5, <1>9, <1>10, <2>1, <3>1
  <2>2. CASE k = n + 1
    <3>1. k - 1 = n
      BY <1>1, <2>2
    <3> QED BY <1>1, <1>5, <1>10, <2>2, <3>1
  <2>3. k \in 1 .. n \/ k = n + 1
    BY <1>1, <1>4
  <2> QED BY <2>1, <2>2, <2>3
<1>7. q = Append(r, g[next])
  BY <1>3, <1>5, <1>6, SeqEqual
<1>8. r = Run(first, size, S, f)
  BY RunSame DEF r
<1> QED BY <1>7, <1>8 DEF q

\* T is S without x, and g is f on the slots of T.
Rest(size, S, x, T, f, g) ==
    /\ \A y : y \in T <=> y \in S /\ y # x
    /\ \A s \in 0 .. size - 1 : s \in T => g[s] = f[s]

\* The run through a window that has lost its first slot has lost its first value.
LEMMA RunRemove ==
    ASSUME NEW size, NEW first, NEW next, NEW S, NEW T, NEW V, NEW f, NEW g,
           Ring(first, next, size, S), Valued(size, V, f), Valued(size, V, g),
           first \in S, Rest(size, S, first, T, f, g)
    PROVE  /\ Run(first, size, S, f) # <<>>
           /\ Head(Run(first, size, S, f)) = f[first]
           /\ Tail(Run(first, size, S, f))
                = Run(Place(first, 1, size), size, T, g)
<1> DEFINE n == RunLength(first, size, S)
           second == Place(first, 1, size)
           r == Run(first, size, S, f)
           q == Run(second, size, T, f)
<1> USE DEF Rest
<1>1. /\ Ring(second, next, size, T)
      /\ n \in 1 .. size
      /\ RunLength(second, size, T) = n - 1
  BY WindowRemove
<1>2. size \in Nat \ {0} /\ first \in 0 .. size - 1
  BY DEF Ring
<1>3. r \in Seq(V) /\ Len(r) = n
  BY RunTyped
<1>4. q \in Seq(V) /\ Len(q) = n - 1
  BY <1>1, RunTyped
<1>11. ASSUME NEW k \in 1 .. n PROVE r[k] = f[Place(first, k - 1, size)]
  BY RunValue
<1>12. ASSUME NEW k \in 1 .. n - 1 PROVE q[k] = f[Place(second, k - 1, size)]
  BY <1>1, RunValue
<1>13. ASSUME NEW k \in 0 .. size - 1
       PROVE  Place(second, k, size) = Place(first, k + 1, size)
  BY <1>2, PlaceNext
<1>5. q = Run(second, size, T, g)
  BY <1>1, RunSame
<1> HIDE DEF n, r, q, second
<1>6. r # <<>>
  BY <1>1, <1>3
<1>7. Head(r) = f[first]
  <2>1. Head(r) = r[1]
    BY <1>3, <1>6
  <2>2. 0 \in 0 .. size /\ 1 \in 1 .. n /\ 1 - 1 = 0
    BY <1>1, <1>2
  <2>3. Place(first, 0, size) = first
    BY <1>2, <2>2, Around
  <2> QED BY <1>11, <2>1, <2>2, <2>3
<1>8. /\ Tail(r) \in Seq(V) /\ Len(Tail(r)) = n - 1
      /\ \A k \in 1 .. n - 1 : Tail(r)[k] = r[k + 1]
  BY <1>3, <1>6, HeadTailProperties
<1>9. ASSUME NEW k \in 1 .. n - 1 PROVE Tail(r)[k] = q[k]
  <2>1. /\ k + 1 \in 1 .. n /\ k - 1 \in 0 .. size - 1
        /\ (k + 1) - 1 = k /\ (k - 1) + 1 = k
    BY <1>1, <1>2
  <2>2. Tail(r)[k] = f[Place(first, k, size)]
    BY <1>8, <1>11, <2>1
  <2>3. q[k] = f[Place(first, k, size)]
    BY <1>12, <1>13, <2>1
  <2> QED BY <2>2, <2>3
<1>10. Tail(r) = q
  BY <1>4, <1>8, <1>9, SeqEqual
<1> QED BY <1>5, <1>6, <1>7, <1>10 DEF r, second

-----------------------------------------------------------------------------
(* The invariants. *)

CmdIndex == 0 .. CmdSlots - 1
RspIndex == 0 .. RspSlots - 1
Locations == {"idle", "una", "post", "cmd", "rsp", "exec", "relCmd", "relRsp",
              "notify", "stop"}
Packets == [ref : 0 .. MaxCmds, op : Ops \cup {"none"}, unit : Nat]
Messages == [kind : {"none", "end", "una"}, id : Nat, op : Ops \cup {"none"},
             unit : Nat, ok : BOOLEAN, cr : 0 .. MaxGrant + 1]

PortTypes ==
    /\ state \in States /\ irqEn \in BOOLEAN /\ irqReq \in BOOLEAN
    /\ pollPending \in BOOLEAN /\ attn \in BOOLEAN /\ credits \in Nat
    /\ una \subseteq Units
    /\ ring \in [live : BOOLEAN, cmd : CmdIndex, rsp : RspIndex]

PollTypes ==
    /\ pc \in Locations /\ left \in Nat
    /\ held \in [cmd : CmdIndex, rsp : RspIndex, unit : Nat]
    /\ reply \in Messages

MemoryTypes ==
    /\ cmdRing \in [CmdIndex -> [own : BOOLEAN, cmd : Packets]]
    /\ rspRing \in [RspIndex -> [own : BOOLEAN, msg : Messages]]

DriverTypes ==
    /\ up \in BOOLEAN /\ host \in [cmd : CmdIndex, rsp : RspIndex]
    /\ hostCredits \in Nat /\ owesIp \in BOOLEAN /\ isr \in BOOLEAN
    /\ posted \in 0 .. MaxCmds /\ waiting \subseteq 1 .. posted

TypeOK == PortTypes /\ PollTypes /\ MemoryTypes /\ DriverTypes

\* The driver and the port agree on whether the port has been started.
Started ==
    /\ up => state \in {"UP", "DEAD"} /\ ring.live
    /\ state = "UP" => up
    /\ state = "S4" => ring.live
    /\ ~up => waiting = {}

\* The port has started on empty rings when the driver writes GO.
Fresh ==
    state = "S4" => /\ ring = [live |-> TRUE, cmd |-> 0, rsp |-> 0]
                    /\ \A s \in CmdIndex : ~cmdRing[s].own

\* A poll runs only on a port that has been started, and credits are given out only
\* by a poll.
PollsWhenUp == ~up => pc = "idle" /\ credits = FirstCredits

\* The slots a poll has peeked at are still the port's, and still its next ones.
HoldsCommand ==
    pc \in {"rsp", "exec", "relCmd"} =>
        held.cmd = ring.cmd /\ cmdRing[ring.cmd].own
HoldsResponse ==
    pc \in {"post", "exec", "relCmd", "relRsp"} =>
        held.rsp = ring.rsp /\ rspRing[ring.rsp].own
HoldsUnit == pc = "post" => held.unit \in Units

\* The commands of the driver lie between the port's next slot and the driver's, its
\* messages between the driver's and the port's.
Windows ==
    up => /\ Ring(ring.cmd, host.cmd, CmdSlots, Posted)
          /\ Ring(host.rsp, ring.rsp, RspSlots, Uncollected)

\* The slots whose message answers a command.
Answers == {s \in Uncollected : rspRing[s].msg.kind = "end"}
Ref(s) == cmdRing[s].cmd.ref
Id(s) == rspRing[s].msg.id

\* A command waits in one place only: in a slot of the command ring, as the reply
\* under way, or in a slot of the response ring.
CommandsWait ==
    /\ \A s \in Posted : Ref(s) \in waiting
    /\ \A s, t \in Posted : Ref(s) = Ref(t) => s = t
AnswersWait ==
    /\ \A s \in Answers : Id(s) \in waiting
    /\ \A s, t \in Answers : Id(s) = Id(t) => s = t
    /\ \A s \in Posted, t \in Answers : Ref(s) # Id(t)
ReplyWaits ==
    /\ pc = "relCmd" => reply.kind = "end" /\ reply.id = Ref(ring.cmd)
    /\ pc = "relRsp" => /\ reply.kind = "end" /\ reply.id \in waiting
                        /\ \A s \in Posted : Ref(s) # reply.id
                        /\ \A s \in Answers : Id(s) # reply.id

\* Only answers carry credits, and on a disk port each carries its command's own.
CreditsCarried ==
    /\ \A s \in Uncollected :
          /\ rspRing[s].msg.kind # "end" => rspRing[s].msg.cr = 0
          /\ rspRing[s].msg.kind = "end" /\ ~Tape => rspRing[s].msg.cr >= 1
    /\ InReply /\ ~Tape => reply.cr >= 1

RingInv == /\ TypeOK /\ Started /\ Fresh /\ PollsWhenUp
           /\ HoldsCommand /\ HoldsResponse /\ HoldsUnit /\ Windows
CommandInv == RingInv /\ CommandsWait /\ AnswersWait /\ ReplyWaits
CreditInv == CommandInv /\ CreditsCarried /\ CreditsConserved

\* A poll that has given up found nothing to do, or the port has failed; and while one
\* runs its request stays noted.
PollLooked ==
    /\ pc = "stop" => state = "DEAD" \/ ~(CmdOwned /\ RspOwned)
    /\ pc # "idle" => pollPending
ForgetInv == CommandInv /\ PollLooked /\ NoForgottenCommand

-----------------------------------------------------------------------------
(* Types. *)

\* The next slot of a ring moves on by one, round the ring.
LEMMA AdvanceCommand ==
    ASSUME TypeOK, Advance("cmd")
    PROVE  /\ ring' \in [live : BOOLEAN, cmd : CmdIndex, rsp : RspIndex]
           /\ ring'.live = ring.live /\ ring'.rsp = ring.rsp
           /\ ring.live => ring'.cmd = Place(ring.cmd, 1, CmdSlots)
  BY RingAssumption DEF TypeOK, PortTypes, Advance, Place, CmdIndex, RspIndex

LEMMA AdvanceResponse ==
    ASSUME TypeOK, Advance("rsp")
    PROVE  /\ ring' \in [live : BOOLEAN, cmd : CmdIndex, rsp : RspIndex]
           /\ ring'.live = ring.live /\ ring'.cmd = ring.cmd
           /\ ring.live => ring'.rsp = Place(ring.rsp, 1, RspSlots)
  BY RingAssumption DEF TypeOK, PortTypes, Advance, Place, CmdIndex, RspIndex

\* The unit of an attention message is one that has one pending.
LEMMA LeastUnit ==
    ASSUME una \subseteq Units, una # {}
    PROVE  (CHOOSE u \in una : \A w \in una : u <= w) \in una
<1>1. \E u \in una : \A w \in una : u <= w
  BY LeastNatural, UnitsAssumption
<1> QED BY <1>1

\* The rings have a first slot, and the values of a slot without an owner are typed.
LEMMA FirstSlots ==
    /\ 0 \in CmdIndex /\ 0 \in RspIndex
    /\ Unheld \in [cmd : CmdIndex, rsp : RspIndex, unit : Nat]
    /\ NoMessage \in Messages
    /\ Empty \in [own : BOOLEAN, cmd : Packets]
    /\ Cleared \in [own : BOOLEAN, msg : Messages]
    /\ Returned \in [own : BOOLEAN, msg : Messages]
<1>1. 0 \in CmdIndex /\ 0 \in RspIndex
  BY RingAssumption DEF CmdIndex, RspIndex
<1>2. NoMessage \in Messages
  BY DEF NoMessage, Messages, MaxGrant
<1>3. NoCommand \in Packets
  BY BoundAssumption DEF NoCommand, Packets
<1> QED BY <1>1, <1>2, <1>3 DEF Unheld, Empty, Cleared, Returned

\* The initial state is well typed.
LEMMA TypesInit == Init => TypeOK
<1> SUFFICES ASSUME Init PROVE TypeOK
  OBVIOUS
<1>1. PortTypes
  BY FirstSlots DEF Init, PortTypes, States, FirstCredits
<1>2. PollTypes
  BY FirstSlots DEF Init, PollTypes, Locations
<1>3. MemoryTypes
  BY FirstSlots DEF Init, MemoryTypes, CmdIndex, RspIndex
<1>4. DriverTypes
  <2>1. host \in [cmd : CmdIndex, rsp : RspIndex]
    BY FirstSlots DEF Init
  <2>2. posted \in 0 .. MaxCmds /\ waiting \subseteq 1 .. posted
    BY BoundAssumption DEF Init
  <2> QED BY <2>1, <2>2 DEF Init, DriverTypes
<1> QED BY <1>1, <1>2, <1>3, <1>4 DEF TypeOK

\* What a step of the guest leaves typed.
LEMMA TypesGuest ==
    ASSUME TypeOK
    PROVE  /\ ReadIp => TypeOK'
           /\ \A v \in SaWords : WriteSa(v) => TypeOK'
           /\ WriteIp => TypeOK'
           /\ \A op \in Ops, unit \in Units : PostCommand(op, unit) => TypeOK'
           /\ TakeInterrupt => TypeOK'
           /\ CollectMessage => TypeOK'
           /\ LeaveInterrupt => TypeOK'
<1>2. ASSUME NEW c, Step4(c)
      PROVE  /\ state' \in States /\ irqReq' \in BOOLEAN
             /\ ring' \in [live : BOOLEAN, cmd : CmdIndex, rsp : RspIndex]
             /\ MemoryTypes'
  BY FirstSlots, <1>2 DEF TypeOK, PortTypes, MemoryTypes, Step4, Fail, RaiseIrq, States, memory
<1>3. ASSUME ReadIp PROVE TypeOK'
  <2>1. PortTypes' /\ MemoryTypes'
    <3>1. CASE state = "PPB"
      BY <1>2, <1>3, <3>1 DEF ReadIp, TypeOK, PortTypes
    <3>2. CASE state # "PPB"
      BY <1>3, <3>2 DEF ReadIp, TypeOK, PortTypes, MemoryTypes, memory
    <3> QED BY <3>1, <3>2
  <2>2. PollTypes' /\ DriverTypes'
    BY <1>3 DEF ReadIp, TypeOK, PollTypes, DriverTypes, poll
  <2> QED BY <2>1, <2>2 DEF TypeOK
<1>4. ASSUME NEW v \in SaWords, WriteSa(v) PROVE TypeOK'
  <2>1. PollTypes'
    BY <1>4 DEF WriteSa, TypeOK, PollTypes, poll
  <2>2. DriverTypes'
    <3>1. [cmd |-> 0, rsp |-> 0] \in [cmd : CmdIndex, rsp : RspIndex]
      BY FirstSlots
    <3>2. /\ up' \in BOOLEAN /\ hostCredits' \in Nat
          /\ host' \in [cmd : CmdIndex, rsp : RspIndex]
      <4>1. CASE up' = up /\ host' = host /\ hostCredits' = hostCredits
        BY <4>1 DEF TypeOK, DriverTypes
      <4>2. CASE up' = TRUE /\ host' = [cmd |-> 0, rsp |-> 0] /\ hostCredits' = 1
        BY <4>2, <3>1
      <4> QED BY <1>4, <4>1, <4>2 DEF WriteSa
    <3> QED BY <1>4, <3>2 DEF WriteSa, TypeOK, DriverTypes
  <2>3. MemoryTypes'
    <3>1. CASE \E c : Step4(c)
      BY <1>2, <3>1
    <3>2. CASE UNCHANGED memory
      BY <3>2 DEF memory, TypeOK, MemoryTypes
    <3>3. CASE rspRing' = [s \in DOMAIN rspRing |-> Returned] /\ UNCHANGED cmdRing
      BY FirstSlots, <3>3 DEF TypeOK, MemoryTypes
    <3> QED BY <1>4, <3>1, <3>2, <3>3 DEF WriteSa, memory
  <2>4. PortTypes'
    <3>1. ring' \in [live : BOOLEAN, cmd : CmdIndex, rsp : RspIndex]
      BY <1>2, <1>4 DEF WriteSa, TypeOK, PortTypes
    <3>2. state' \in States /\ irqEn' \in BOOLEAN /\ irqReq' \in BOOLEAN
      <4>1. CASE \E c : Step4(c) /\ irqEn' = irqEn
        BY <1>2, <4>1 DEF TypeOK, PortTypes
      <4>2. CASE ~\E c : Step4(c) /\ irqEn' = irqEn
        <5>1. state' \in States /\ irqEn' \in BOOLEAN
          <6>1. state' \in States
            BY <1>4, <4>2 DEF WriteSa, States
          <6>2. irqEn' = irqEn \/ irqEn' = (7 \in v)
            BY <1>4, <4>2 DEF WriteSa
          <6>3. irqEn' \in BOOLEAN
            <7>1. (7 \in v) \in BOOLEAN
              OBVIOUS
            <7> QED BY <6>2, <7>1, Zenon DEF TypeOK, PortTypes
          <6> QED BY <6>1, <6>3
        <5>2. irqReq' \in BOOLEAN
          BY <1>4, <4>2, <5>1 DEF WriteSa, TypeOK, PortTypes, RaiseIrq
        <5> QED BY <5>1, <5>2
      <4> QED BY <4>1, <4>2
    <3> QED BY <1>4, <3>1, <3>2 DEF WriteSa, TypeOK, PortTypes
  <2> QED BY <2>1, <2>2, <2>3, <2>4 DEF TypeOK
<1>5. ASSUME WriteIp PROVE TypeOK'
  <2>1. PortTypes'
    BY FirstSlots, <1>5 DEF WriteIp, ResetPort, PortTypes, States, FirstCredits
  <2>2. PollTypes' /\ MemoryTypes'
    BY <1>5 DEF WriteIp, TypeOK, PollTypes, MemoryTypes, poll, memory
  <2>3. DriverTypes'
    BY FirstSlots, <1>5 DEF WriteIp, TypeOK, DriverTypes
  <2> QED BY <2>1, <2>2, <2>3 DEF TypeOK
<1>6. ASSUME NEW op \in Ops, NEW unit \in Units, PostCommand(op, unit) PROVE TypeOK'
  <2>1. PortTypes' /\ PollTypes'
    BY <1>6 DEF PostCommand, TypeOK, PortTypes, PollTypes, port, poll
  <2>2. MemoryTypes'
    <3>1. [ref |-> posted', op |-> op, unit |-> unit] \in Packets
      BY <1>6, UnitsAssumption, BoundAssumption DEF PostCommand, TypeOK, DriverTypes, Packets
    <3> QED BY <1>6, <3>1 DEF PostCommand, TypeOK, MemoryTypes
  <2>3. DriverTypes'
    <3>1. posted' \in 0 .. MaxCmds /\ waiting' \subseteq 1 .. posted'
      BY <1>6, BoundAssumption DEF PostCommand, TypeOK, DriverTypes
    <3>2. host' \in [cmd : CmdIndex, rsp : RspIndex]
      BY <1>6, RingAssumption DEF PostCommand, TypeOK, DriverTypes, Place, CmdIndex
    <3>3. hostCredits' \in Nat
      BY <1>6 DEF PostCommand, TypeOK, DriverTypes
    <3> QED BY <1>6, <3>1, <3>2, <3>3 DEF PostCommand, TypeOK, DriverTypes
  <2> QED BY <2>1, <2>2, <2>3 DEF TypeOK
<1>7. ASSUME TakeInterrupt PROVE TypeOK'
  BY <1>7 DEF TakeInterrupt, TypeOK, PortTypes, PollTypes, MemoryTypes, DriverTypes, poll
<1>8. ASSUME CollectMessage PROVE TypeOK'
  <2>1. PortTypes' /\ PollTypes'
    BY <1>8 DEF CollectMessage, TypeOK, PortTypes, PollTypes, port, poll
  <2>2. MemoryTypes'
    BY FirstSlots, <1>8 DEF CollectMessage, TypeOK, MemoryTypes
  <2>3. DriverTypes'
    <3>1. rspRing[host.rsp].msg.cr \in Nat
      BY DEF TypeOK, MemoryTypes, DriverTypes, Messages
    <3>2. hostCredits' \in Nat
      BY <1>8, <3>1 DEF CollectMessage, TypeOK, DriverTypes
    <3>3. host' \in [cmd : CmdIndex, rsp : RspIndex]
      BY <1>8, RingAssumption DEF CollectMessage, TypeOK, DriverTypes, Place, RspIndex
    <3> QED BY <1>8, <3>2, <3>3 DEF CollectMessage, TypeOK, DriverTypes
  <2> QED BY <2>1, <2>2, <2>3 DEF TypeOK
<1>9. ASSUME LeaveInterrupt PROVE TypeOK'
  BY <1>9 DEF LeaveInterrupt, TypeOK, PortTypes, PollTypes, MemoryTypes, DriverTypes, port,
              poll, memory
<1> QED BY <1>3, <1>4, <1>5, <1>6, <1>7, <1>8, <1>9

\* What a step of a poll leaves typed.
LEMMA TypesPoll ==
    ASSUME TypeOK
    PROVE  StartPoll \/ PollStep => TypeOK'
<1>1. ASSUME StartPoll PROVE TypeOK'
  BY <1>1, RingAssumption
  DEF StartPoll, TypeOK, PortTypes, PollTypes, MemoryTypes, DriverTypes, port, memory, driver,
      Locations
<1>2. ASSUME PollAttention PROVE TypeOK'
  <2>1. PollTypes'
    <3>1. CASE held' = held
      BY <1>2, <3>1 DEF PollAttention, TypeOK, PollTypes, Locations
    <3>2. CASE held' # held
      <4>1. una # {} /\ pc' = "post" /\ left' = left - 1 /\ left # 0
        BY <1>2, <3>2 DEF PollAttention
      <4>2. (CHOOSE u \in una : \A w \in una : u <= w) \in Nat
        BY <4>1, LeastUnit, UnitsAssumption DEF TypeOK, PortTypes
      <4>3. held' \in [cmd : CmdIndex, rsp : RspIndex, unit : Nat]
        BY <1>2, <3>2, <4>2 DEF PollAttention, TypeOK, PortTypes, PollTypes
      <4> QED BY <1>2, <4>1, <4>3 DEF PollAttention, TypeOK, PollTypes, Locations
    <3> QED BY <3>1, <3>2
  <2> QED BY <1>2, <2>1 DEF PollAttention, TypeOK, PortTypes, MemoryTypes, DriverTypes, port,
                            memory, driver
<1>3. ASSUME PollPostAttention PROVE TypeOK'
  <2>1. PortTypes'
    BY <1>3, AdvanceResponse DEF PollPostAttention, TypeOK, PortTypes, RaiseIrq
  <2>2. Attention(held.unit) \in Messages
    BY DEF TypeOK, PollTypes, Attention, Messages, MaxGrant
  <2>3. MemoryTypes'
    BY <1>3, <2>2 DEF PollPostAttention, TypeOK, MemoryTypes
  <2> QED BY <1>3, <2>1, <2>3 DEF PollPostAttention, TypeOK, PollTypes, DriverTypes, driver,
                                  Locations
<1>4. ASSUME PollPeekCommand PROVE TypeOK'
  BY <1>4 DEF PollPeekCommand, TypeOK, PortTypes, PollTypes, MemoryTypes, DriverTypes, port,
              memory, driver, Locations
<1>5. ASSUME PollPeekResponse PROVE TypeOK'
  BY <1>5 DEF PollPeekResponse, TypeOK, PortTypes, PollTypes, MemoryTypes, DriverTypes, port,
              memory, driver, Locations
<1>6. ASSUME PollExecute PROVE TypeOK'
  <2> DEFINE c == cmdRing[held.cmd].cmd
  <2>1. c \in Packets
    BY DEF TypeOK, PollTypes, MemoryTypes
  <2>2. CASE c.op \in {"low", "nxm"}
    BY <1>6, <2>2 DEF PollExecute, Served, TypeOK, PortTypes, PollTypes, MemoryTypes,
                      DriverTypes, memory, driver, Locations, States, Fail, RaiseIrq
  <2>3. /\ Grant \in 0 .. MaxGrant + 1
        /\ ~Tape => Grant - 1 \in 0 .. credits
    BY DEF Grant, TypeOK, PortTypes, MaxGrant
  <2>4. PayCredits => credits' \in Nat
    BY <2>3 DEF PayCredits, TypeOK, PortTypes
  <2>5. ASSUME NEW d, NEW ok, Perform(d, ok)
        PROVE  attn' \in BOOLEAN /\ pollPending' \in BOOLEAN /\ una' \subseteq Units
    <3>1. una' \subseteq Units
      BY <2>5, UnitsAssumption DEF Perform, TypeOK, PortTypes
    <3>2. attn' \in BOOLEAN /\ pollPending' \in BOOLEAN
      BY <2>5, Zenon DEF Perform, TypeOK, PortTypes
    <3> QED BY <3>1, <3>2
  <2>6. CASE c.op = "void"
    <3>1. \E d : \E ok : Perform(d, ok)
      BY <1>6, <2>6 DEF PollExecute, Served
    <3>2. attn' \in BOOLEAN /\ pollPending' \in BOOLEAN /\ una' \subseteq Units
      BY <2>5, <3>1
    <3>3. PayCredits /\ Fail /\ pc' = "stop" /\ UNCHANGED reply
      BY <1>6, <2>6 DEF PollExecute, Served
    <3>4. PortTypes'
      BY <1>6, <2>4, <3>2, <3>3 DEF PollExecute, Fail, RaiseIrq, TypeOK, PortTypes, States
    <3> QED BY <1>6, <3>3, <3>4
            DEF PollExecute, TypeOK, PollTypes, MemoryTypes, DriverTypes, memory, driver,
                Locations
  <2>7. CASE c.op \notin {"low", "nxm", "void"}
    <3>1. PICK ok \in Outcomes(c) :
             /\ Perform(c, ok)
             /\ reply' = [kind |-> "end", id |-> c.ref, op |-> c.op, unit |-> c.unit,
                          ok |-> ok, cr |-> Grant]
             /\ PayCredits /\ pc' = "relCmd"
             /\ UNCHANGED <<state, irqReq>>
      BY <1>6, <2>7 DEF PollExecute
    <3>2. ok \in BOOLEAN
      <4>1. CASE c.op = "rd"
        BY <3>1, <4>1 DEF Outcomes
      <4>2. CASE c.op \in {"onl", "avl"}
        <5>1. ok = (c.unit \in Attached)
          BY <3>1, <4>2 DEF Outcomes
        <5> QED BY <5>1
      <4>3. CASE c.op \notin {"rd", "onl", "avl"}
        BY <3>1, <4>3 DEF Outcomes
      <4> QED BY <4>1, <4>2, <4>3
    <3>3. reply' \in Messages
      BY <2>1, <2>3, <3>1, <3>2, BoundAssumption DEF Packets, Messages
    <3>4. PortTypes'
      <4>1. attn' \in BOOLEAN /\ pollPending' \in BOOLEAN /\ una' \subseteq Units
        BY <2>5, <3>1
      <4> QED BY <1>6, <2>4, <3>1, <4>1 DEF PollExecute, TypeOK, PortTypes
    <3> QED BY <1>6, <3>1, <3>3, <3>4
            DEF PollExecute, TypeOK, PollTypes, MemoryTypes, DriverTypes, memory, driver,
                Locations
  <2> QED BY <2>2, <2>6, <2>7
<1>7. ASSUME PollReleaseCommand PROVE TypeOK'
  <2>1. PortTypes'
    BY <1>7, AdvanceCommand DEF PollReleaseCommand, TypeOK, PortTypes
  <2>2. MemoryTypes'
    BY <1>7, FirstSlots DEF PollReleaseCommand, TypeOK, MemoryTypes
  <2> QED BY <1>7, <2>1, <2>2 DEF PollReleaseCommand, TypeOK, PollTypes, DriverTypes, driver,
                                  Locations
<1>8. ASSUME PollReleaseResponse PROVE TypeOK'
  <2>1. PortTypes'
    BY <1>8, AdvanceResponse DEF PollReleaseResponse, TypeOK, PortTypes
  <2>2. MemoryTypes'
    BY <1>8 DEF PollReleaseResponse, TypeOK, PollTypes, MemoryTypes
  <2> QED BY <1>8, <2>1, <2>2 DEF PollReleaseResponse, TypeOK, PollTypes, DriverTypes, driver,
                                  Locations
<1>9. ASSUME PollNotify PROVE TypeOK'
  BY <1>9, FirstSlots
  DEF PollNotify, TypeOK, PortTypes, PollTypes, MemoryTypes, DriverTypes, memory, driver,
      Locations, RaiseIrq
<1>10. ASSUME PollStop PROVE TypeOK'
  BY <1>10, FirstSlots
  DEF PollStop, TypeOK, PortTypes, PollTypes, MemoryTypes, DriverTypes, memory, driver,
      Locations
<1> QED BY <1>1, <1>2, <1>3, <1>4, <1>5, <1>6, <1>7, <1>8, <1>9, <1>10 DEF PollStep

\* A step that changes nothing, and so every step, keeps the types.
LEMMA TypesNext == TypeOK /\ [Next]_vars => TypeOK'
<1> SUFFICES ASSUME TypeOK, [Next]_vars PROVE TypeOK'
  OBVIOUS
<1>1. CASE UNCHANGED vars
  BY <1>1 DEF vars, port, poll, memory, driver, TypeOK, PortTypes, PollTypes, MemoryTypes,
              DriverTypes
<1>2. CASE Next
  BY <1>2, TypesGuest, TypesPoll DEF Next
<1> QED BY <1>1, <1>2

\* In every state of the port, of a poll under way, of the rings and of the driver each
\* value has its type, whenever the driver resets the port: the indices stay inside the
\* rings and credits are never negative.
THEOREM TypesAlways == Spec => []TypeOK
<1>1. QED BY TypesInit, TypesNext, PTL DEF Spec

-----------------------------------------------------------------------------
(* The start of the port. *)

\* A fourth step of the start succeeds, or the port fails.
LEMMA StepFour ==
    ASSUME TypeOK, NEW c, Step4(c)
    PROVE  /\ ring' = [live |-> TRUE, cmd |-> 0, rsp |-> 0]
           /\ state' \in {"S4", "DEAD"}
           /\ state' = "S4" => \A s \in CmdIndex : ~cmdRing'[s].own
  BY DEF Step4, Fail, TypeOK, MemoryTypes, Empty

\* The driver and the port go on agreeing whether the port has been started.
LEMMA StartedNext == TypeOK /\ Started /\ [Next]_vars => Started'
<1> SUFFICES ASSUME TypeOK, Started, [Next]_vars PROVE Started'
  OBVIOUS
<1> USE DEF Started
<1>1. CASE UNCHANGED vars
  BY <1>1 DEF vars, port, driver
<1>2. CASE ReadIp
  <2>1. CASE state = "PPB"
    BY <1>2, <2>1, StepFour DEF ReadIp
  <2>2. CASE state # "PPB"
    BY <1>2, <2>2 DEF ReadIp
  <2> QED BY <2>1, <2>2
<1>3. ASSUME NEW v \in SaWords, WriteSa(v) PROVE Started'
  <2>1. CASE state = "S4"
    BY <1>3, <2>1 DEF WriteSa
  <2>2. CASE state # "S4"
    <3>1. up' = up /\ ~up /\ waiting' = waiting
      BY <1>3, <2>2 DEF WriteSa
    <3>2. state' \in States \ {"UP", "S4"} \/ Step4(comm')
      BY <1>3, <2>2 DEF WriteSa, Fail, States
    <3> QED BY <3>1, <3>2, StepFour
  <2> QED BY <2>1, <2>2
<1>4. CASE WriteIp
  BY <1>4 DEF WriteIp, ResetPort
<1>5. CASE StartPoll
  BY <1>5 DEF StartPoll, port, driver
<1>6. CASE PollStep
  <2>1. CASE PollPostAttention
    BY <2>1, AdvanceResponse DEF PollPostAttention, driver
  <2>2. CASE PollReleaseResponse
    BY <2>2, AdvanceResponse DEF PollReleaseResponse, driver
  <2>3. CASE PollReleaseCommand
    BY <2>3, AdvanceCommand DEF PollReleaseCommand, driver
  <2>4. CASE PollExecute
    BY <2>4 DEF PollExecute, Fail, driver
  <2>5. CASE PollAttention \/ PollPeekCommand \/ PollPeekResponse \/ PollNotify \/ PollStop
    BY <2>5 DEF PollAttention, PollPeekCommand, PollPeekResponse, PollNotify, PollStop, port,
                driver
  <2> QED BY <1>6, <2>1, <2>2, <2>3, <2>4, <2>5 DEF PollStep
<1>7. ASSUME NEW op \in Ops, NEW unit \in Units, PostCommand(op, unit) PROVE Started'
  BY <1>7 DEF PostCommand, port
<1>8. CASE TakeInterrupt
  BY <1>8 DEF TakeInterrupt
<1>9. CASE CollectMessage
  BY <1>9 DEF CollectMessage, port
<1>10. CASE LeaveInterrupt
  BY <1>10 DEF LeaveInterrupt, port
<1> QED BY <1>1, <1>2, <1>3, <1>4, <1>5, <1>6, <1>7, <1>8, <1>9, <1>10 DEF Next

\* A message in the driver's next slot goes on being announced.
LEMMA AnnouncedNext == TypeOK /\ Started /\ AnswerAnnounced /\ [Next]_vars => AnswerAnnounced'
<1> SUFFICES ASSUME TypeOK, Started, AnswerAnnounced, [Next]_vars,
                    up', irqEn', ~rspRing'[host'.rsp].own
             PROVE  irqReq' \/ isr' \/ pc' = "notify"
  BY DEF AnswerAnnounced
<1> USE DEF AnswerAnnounced
<1>1. CASE UNCHANGED vars
  BY <1>1 DEF vars, port, poll, memory, driver
<1>2. CASE ReadIp
  <2>1. CASE state = "PPB"
    BY <1>2, <2>1 DEF ReadIp, Started
  <2>2. CASE state # "PPB"
    BY <1>2, <2>2 DEF ReadIp, memory, poll
  <2> QED BY <2>1, <2>2
<1>3. ASSUME NEW v \in SaWords, WriteSa(v) PROVE FALSE
  <2>1. CASE state = "S4"
    <3>1. rspRing' = [s \in DOMAIN rspRing |-> Returned] /\ host'.rsp = 0
      BY <1>3, <2>1 DEF WriteSa
    <3>2. rspRing'[0].own
      BY <3>1, FirstSlots DEF TypeOK, MemoryTypes, Returned
    <3> QED BY <3>1, <3>2
  <2>2. CASE state # "S4"
    BY <1>3, <2>2 DEF WriteSa, Started
  <2> QED BY <2>1, <2>2
<1>4. CASE WriteIp
  BY <1>4 DEF WriteIp
<1>5. CASE StartPoll
  BY <1>5 DEF StartPoll, port, memory, driver
<1>6. CASE PollPostAttention \/ PollNotify
  BY <1>6 DEF PollPostAttention, PollNotify, RaiseIrq
<1>7. CASE PollReleaseResponse
  BY <1>7 DEF PollReleaseResponse
<1>8. CASE PollReleaseCommand
  BY <1>8 DEF PollReleaseCommand, driver
<1>9. CASE PollExecute
  BY <1>9 DEF PollExecute, Fail, RaiseIrq, memory, driver
<1>10. CASE PollAttention \/ PollPeekCommand \/ PollPeekResponse \/ PollStop
  BY <1>10 DEF PollAttention, PollPeekCommand, PollPeekResponse, PollStop, port, memory, driver
<1>11. ASSUME NEW op \in Ops, NEW unit \in Units, PostCommand(op, unit)
       PROVE  irqReq' \/ isr' \/ pc' = "notify"
  <2>1. host'.rsp = host.rsp
    BY <1>11 DEF PostCommand, TypeOK, DriverTypes
  <2> QED BY <1>11, <2>1 DEF PostCommand, port, poll
<1>12. CASE TakeInterrupt
  BY <1>12 DEF TakeInterrupt
<1>13. CASE CollectMessage
  BY <1>13 DEF CollectMessage, port
<1>14. CASE LeaveInterrupt
  BY <1>14 DEF LeaveInterrupt, memory
<1> QED BY <1>1, <1>2, <1>3, <1>4, <1>5, <1>6, <1>7, <1>8, <1>9, <1>10, <1>11, <1>12, <1>13,
           <1>14 DEF Next, PollStep

\* A message that the driver has not collected is announced to it by an interrupt that is
\* pending, being served or about to be raised, however the poll and the driver interleave
\* and whenever the driver resets the port.
THEOREM AnnouncedAlways == Spec => []AnswerAnnounced
<1>1. Init => Started /\ AnswerAnnounced
  BY DEF Init, Started, AnswerAnnounced
<1>2. Spec => [](TypeOK /\ Started /\ AnswerAnnounced)
  BY <1>1, TypesInit, TypesNext, StartedNext, AnnouncedNext, PTL DEF Spec
<1> QED BY <1>2, PTL

-----------------------------------------------------------------------------
(* The rings.  From here on the guest resets the port only between two polls. *)

\* A step that leaves the rings and what the driver and the port know of them alone.
Still == UNCHANGED <<up, ring, host, cmdRing, rspRing, posted, waiting>>

\* The driver's slots of a port that has not been started hold nothing.
LEMMA NothingWhenDown == ~up => Posted = {} /\ Uncollected = {}
  BY DEF Posted, Uncollected

\* The driver posts a command.
LEMMA PostEffect ==
    ASSUME TypeOK, NEW op, NEW unit, PostCommand(op, unit)
    PROVE  /\ up /\ up' = up /\ ring' = ring
           /\ host.cmd \in CmdIndex /\ host.cmd \notin Posted
           /\ \A s : s \in Posted' <=> s \in Posted \/ s = host.cmd
           /\ host'.cmd = Place(host.cmd, 1, CmdSlots) /\ host'.rsp = host.rsp
           /\ \A s \in CmdIndex : s # host.cmd => cmdRing'[s] = cmdRing[s]
           /\ cmdRing'[host.cmd].own /\ cmdRing'[host.cmd].cmd.ref = posted'
           /\ Uncollected' = Uncollected /\ rspRing' = rspRing
<1>1. /\ host.cmd \in CmdIndex /\ up /\ up' = up /\ ring' = ring /\ rspRing' = rspRing
      /\ ~cmdRing[host.cmd].own
      /\ host'.cmd = Place(host.cmd, 1, CmdSlots) /\ host'.rsp = host.rsp
  BY DEF PostCommand, TypeOK, DriverTypes, port
<1>2. /\ DOMAIN cmdRing = CmdIndex /\ DOMAIN cmdRing' = CmdIndex
      /\ \A s \in CmdIndex : s # host.cmd => cmdRing'[s] = cmdRing[s]
      /\ cmdRing'[host.cmd].own /\ cmdRing'[host.cmd].cmd.ref = posted'
  BY <1>1 DEF PostCommand, TypeOK, MemoryTypes
<1>3. Uncollected' = Uncollected
  BY <1>1 DEF Uncollected
<1> QED BY <1>1, <1>2, <1>3 DEF Posted

\* The driver takes a message and gives the slot back.
LEMMA CollectEffect ==
    ASSUME TypeOK, CollectMessage
    PROVE  /\ up /\ up' = up /\ ring' = ring
           /\ host.rsp \in Uncollected
           /\ \A s : s \in Uncollected' <=> s \in Uncollected /\ s # host.rsp
           /\ host'.rsp = Place(host.rsp, 1, RspSlots) /\ host'.cmd = host.cmd
           /\ \A s \in RspIndex : s # host.rsp => rspRing'[s] = rspRing[s]
           /\ Posted' = Posted /\ cmdRing' = cmdRing
<1>1. /\ host.rsp \in RspIndex /\ up /\ up' = up /\ ring' = ring /\ cmdRing' = cmdRing
      /\ ~rspRing[host.rsp].own
      /\ host'.rsp = Place(host.rsp, 1, RspSlots) /\ host'.cmd = host.cmd
  BY DEF CollectMessage, TypeOK, DriverTypes, port
<1>2. /\ DOMAIN rspRing = RspIndex /\ DOMAIN rspRing' = RspIndex
      /\ \A s \in RspIndex : s # host.rsp => rspRing'[s] = rspRing[s]
      /\ rspRing'[host.rsp].own
  BY <1>1 DEF CollectMessage, TypeOK, MemoryTypes, Returned
<1>3. Posted' = Posted
  BY <1>1 DEF Posted
<1> QED BY <1>1, <1>2, <1>3 DEF Uncollected

\* The port takes a command out of its ring.
LEMMA ReleaseEffect ==
    ASSUME TypeOK, Started, PollsWhenUp, HoldsCommand, PollReleaseCommand
    PROVE  /\ up /\ up' = up /\ host' = host
           /\ ring.cmd \in Posted
           /\ \A s : s \in Posted' <=> s \in Posted /\ s # ring.cmd
           /\ ring'.cmd = Place(ring.cmd, 1, CmdSlots) /\ ring'.rsp = ring.rsp
           /\ \A s \in CmdIndex : s # ring.cmd => cmdRing'[s] = cmdRing[s]
           /\ Uncollected' = Uncollected /\ rspRing' = rspRing
<1>1. /\ ring.cmd \in CmdIndex /\ up /\ ring.live /\ up' = up /\ host' = host
      /\ rspRing' = rspRing /\ cmdRing[ring.cmd].own
      /\ cmdRing' = [cmdRing EXCEPT ![ring.cmd] = Empty]
  BY DEF PollReleaseCommand, HoldsCommand, PollsWhenUp, Started, TypeOK, PortTypes, driver
<1>2. ring'.cmd = Place(ring.cmd, 1, CmdSlots) /\ ring'.rsp = ring.rsp
  BY <1>1, AdvanceCommand DEF PollReleaseCommand
<1>3. /\ DOMAIN cmdRing = CmdIndex /\ DOMAIN cmdRing' = CmdIndex
      /\ \A s \in CmdIndex : s # ring.cmd => cmdRing'[s] = cmdRing[s]
      /\ ~cmdRing'[ring.cmd].own
  BY <1>1 DEF TypeOK, MemoryTypes, Empty
<1>4. Uncollected' = Uncollected
  BY <1>1 DEF Uncollected
<1> QED BY <1>1, <1>2, <1>3, <1>4 DEF Posted

\* The port puts a message in its next slot: an answer, or an attention message.
LEMMA MessageEffect ==
    ASSUME TypeOK, Started, PollsWhenUp, HoldsResponse,
           PollReleaseResponse \/ PollPostAttention
    PROVE  /\ up /\ up' = up /\ host' = host
           /\ ring.rsp \in RspIndex /\ ring.rsp \notin Uncollected
           /\ \A s : s \in Uncollected' <=> s \in Uncollected \/ s = ring.rsp
           /\ ring'.rsp = Place(ring.rsp, 1, RspSlots) /\ ring'.cmd = ring.cmd
           /\ \A s \in RspIndex : s # ring.rsp => rspRing'[s] = rspRing[s]
           /\ rspRing'[ring.rsp].msg = IF PollReleaseResponse THEN reply
                                       ELSE Attention(held.unit)
           /\ Posted' = Posted /\ cmdRing' = cmdRing
<1> DEFINE m == IF PollReleaseResponse THEN reply ELSE Attention(held.unit)
<1>1. /\ ring.rsp \in RspIndex /\ up /\ ring.live /\ up' = up /\ host' = host
      /\ cmdRing' = cmdRing /\ rspRing[ring.rsp].own
      /\ rspRing' = [rspRing EXCEPT ![ring.rsp] = [own |-> FALSE, msg |-> m]]
  BY DEF PollReleaseResponse, PollPostAttention, HoldsResponse, PollsWhenUp, Started, TypeOK,
         PortTypes, driver
<1>2. ring'.rsp = Place(ring.rsp, 1, RspSlots) /\ ring'.cmd = ring.cmd
  BY <1>1, AdvanceResponse DEF PollReleaseResponse, PollPostAttention
<1> HIDE DEF m
<1>3. /\ DOMAIN rspRing = RspIndex /\ DOMAIN rspRing' = RspIndex
      /\ \A s \in RspIndex : s # ring.rsp => rspRing'[s] = rspRing[s]
      /\ ~rspRing'[ring.rsp].own /\ rspRing'[ring.rsp].msg = m
  BY <1>1 DEF TypeOK, MemoryTypes
<1>4. Posted' = Posted
  BY <1>1 DEF Posted
<1> QED BY <1>1, <1>2, <1>3, <1>4 DEF Uncollected, m

\* A step that leaves the rings alone keeps the windows.
LEMMA StillWindows ==
    Windows /\ Still => Windows' /\ Posted' = Posted /\ Uncollected' = Uncollected
  BY DEF Still, Windows, Posted, Uncollected

\* What the steps leave alone while the port is started.
LEMMA StillSteps ==
    ASSUME TypeOK, Started, up
    PROVE  /\ ReadIp => Still
           /\ \A v \in SaWords : ~WriteSa(v)
           /\ StartPoll \/ PollAttention \/ PollPeekCommand \/ PollPeekResponse
                \/ PollExecute \/ PollNotify \/ PollStop => Still
           /\ TakeInterrupt \/ LeaveInterrupt => Still
<1>1. state \in {"UP", "DEAD"}
  BY DEF Started
<1>2. ReadIp => Still
  BY <1>1 DEF ReadIp, memory, Still
<1>3. ASSUME NEW v \in SaWords PROVE ~WriteSa(v)
  BY <1>1 DEF WriteSa
<1>4. StartPoll \/ PollAttention \/ PollPeekCommand \/ PollPeekResponse => Still
  BY DEF StartPoll, PollAttention, PollPeekCommand, PollPeekResponse, port, memory, driver, Still
<1>5. PollExecute \/ PollNotify \/ PollStop => Still
  BY DEF PollExecute, PollNotify, PollStop, memory, driver, Still
<1>6. TakeInterrupt \/ LeaveInterrupt => Still
  BY DEF TakeInterrupt, LeaveInterrupt, port, memory, Still
<1> QED BY <1>2, <1>3, <1>4, <1>5, <1>6

\* While the port is not started only the driver moves, and only on the port's registers.
LEMMA DownSteps ==
    ASSUME TypeOK, Started, PollsWhenUp, ~up
    PROVE  /\ ~StartPoll /\ ~PollStep /\ ~TakeInterrupt /\ ~CollectMessage
           /\ \A op, unit : ~PostCommand(op, unit)
           /\ ReadIp \/ WriteIp => ~up' /\ pc' = pc
           /\ \A v \in SaWords : WriteSa(v) /\ state # "S4" => ~up' /\ pc' = pc
           /\ LeaveInterrupt => ~up' /\ pc' = pc /\ state' = state
<1>1. pc = "idle" /\ state # "UP"
  BY DEF PollsWhenUp, Started
<1>2. ~StartPoll /\ ~PollStep /\ ~TakeInterrupt /\ ~CollectMessage
  BY <1>1 DEF StartPoll, PollStep, PollAttention, PollPostAttention, PollPeekCommand,
              PollPeekResponse, PollExecute, PollReleaseCommand, PollReleaseResponse,
              PollNotify, PollStop, TakeInterrupt, CollectMessage
<1>3. ASSUME NEW op, NEW unit PROVE ~PostCommand(op, unit)
  BY DEF PostCommand
<1>4. ReadIp \/ WriteIp => ~up' /\ pc' = pc
  BY DEF ReadIp, WriteIp, poll
<1>5. ASSUME NEW v \in SaWords, WriteSa(v), state # "S4" PROVE ~up' /\ pc' = pc
  BY <1>5 DEF WriteSa, poll
<1>6. LeaveInterrupt => ~up' /\ pc' = pc /\ state' = state
  BY DEF LeaveInterrupt, port, poll
<1> QED BY <1>2, <1>3, <1>4, <1>5, <1>6

\* The windows of the two rings go on from step to step.
LEMMA WindowsNext ==
    ASSUME Quiet, RingInv, TypeOK', [Next]_vars
    PROVE  Windows'
<1> USE DEF RingInv
<1>1. CASE ~up
  <2>1. ASSUME NEW v \in SaWords, WriteSa(v), state = "S4" PROVE Windows'
    <3>1. /\ ring' = [live |-> TRUE, cmd |-> 0, rsp |-> 0]
          /\ host' = [cmd |-> 0, rsp |-> 0] /\ cmdRing' = cmdRing
          /\ rspRing' = [s \in DOMAIN rspRing |-> Returned]
      BY <2>1 DEF WriteSa, Fresh
    <3>2. Posted' = {} /\ Uncollected' = {}
      BY <2>1, <3>1 DEF Fresh, Posted, Uncollected, Returned, TypeOK, MemoryTypes
    <3>3. ASSUME NEW size \in Nat \ {0} PROVE Ring(0, 0, size, {})
      <4>1. 0 \in 0 .. size /\ 0 \in 0 .. size - 1
        OBVIOUS
      <4>2. Place(0, 0, size) = 0
        BY <4>1, Around
      <4>3. \A k \in 0 .. size - 1 : ~(k < 0)
        OBVIOUS
      <4> QED BY <4>1, <4>2, <4>3 DEF Ring, Window
    <3>4. CmdSlots \in Nat \ {0} /\ RspSlots \in Nat \ {0}
      BY RingAssumption
    <3>5. Ring(0, 0, CmdSlots, {}) /\ Ring(0, 0, RspSlots, {})
      BY <3>3, <3>4
    <3>6. ring'.cmd = 0 /\ ring'.rsp = 0 /\ host'.cmd = 0 /\ host'.rsp = 0
      BY <3>1
    <3> QED BY <3>2, <3>5, <3>6 DEF Windows
  <2>2. CASE ~\E v \in SaWords : WriteSa(v) /\ state = "S4"
    <3>1. ~up'
      BY <1>1, <2>2, DownSteps DEF Next, vars, driver
    <3> QED BY <3>1 DEF Windows
  <2> QED BY <2>1, <2>2
<1>2. CASE up
  <2>1. CASE Still
    BY <2>1, StillWindows
  <2>2. CASE WriteIp
    BY <2>2 DEF WriteIp, Windows
  <2>3. ASSUME NEW op \in Ops, NEW unit \in Units, PostCommand(op, unit) PROVE Windows'
    <3>1. Ring(ring'.cmd, host'.cmd, CmdSlots, Posted')
      <4>1. /\ Ring(ring.cmd, host.cmd, CmdSlots, Posted) /\ host.cmd \notin Posted
            /\ \A s : s \in Posted' <=> s \in Posted \/ s = host.cmd
        BY <1>2, <2>3, PostEffect DEF Windows
      <4>2. Ring(ring.cmd, Place(host.cmd, 1, CmdSlots), CmdSlots, Posted')
        BY <4>1, WindowAdd
      <4> QED BY <2>3, <4>2, PostEffect
    <3>2. Ring(host'.rsp, ring'.rsp, RspSlots, Uncollected')
      BY <1>2, <2>3, PostEffect DEF Windows
    <3> QED BY <3>1, <3>2 DEF Windows
  <2>4. CASE CollectMessage
    <3>1. Ring(ring'.cmd, host'.cmd, CmdSlots, Posted')
      BY <1>2, <2>4, CollectEffect DEF Windows
    <3>2. Ring(host'.rsp, ring'.rsp, RspSlots, Uncollected')
      BY <1>2, <2>4, CollectEffect, WindowRemove DEF Windows
    <3> QED BY <3>1, <3>2 DEF Windows
  <2>5. CASE PollReleaseCommand
    <3>1. Ring(ring'.cmd, host'.cmd, CmdSlots, Posted')
      BY <1>2, <2>5, ReleaseEffect, WindowRemove DEF Windows
    <3>2. Ring(host'.rsp, ring'.rsp, RspSlots, Uncollected')
      BY <1>2, <2>5, ReleaseEffect DEF Windows
    <3> QED BY <3>1, <3>2 DEF Windows
  <2>6. CASE PollReleaseResponse \/ PollPostAttention
    <3>1. Ring(ring'.cmd, host'.cmd, CmdSlots, Posted')
      BY <1>2, <2>6, MessageEffect DEF Windows
    <3>2. Ring(host'.rsp, ring'.rsp, RspSlots, Uncollected')
      <4>1. /\ Ring(host.rsp, ring.rsp, RspSlots, Uncollected) /\ ring.rsp \notin Uncollected
            /\ \A s : s \in Uncollected' <=> s \in Uncollected \/ s = ring.rsp
        BY <1>2, <2>6, MessageEffect DEF Windows
      <4>2. Ring(host.rsp, Place(ring.rsp, 1, RspSlots), RspSlots, Uncollected')
        BY <4>1, WindowAdd
      <4> QED BY <2>6, <4>2, MessageEffect
    <3> QED BY <3>1, <3>2 DEF Windows
  <2>7. UNCHANGED vars => Still
    BY DEF vars, port, memory, driver, Still
  <2> QED BY <1>2, <2>1, <2>2, <2>3, <2>4, <2>5, <2>6, <2>7, StillSteps DEF Next, PollStep
<1> QED BY <1>1, <1>2

\* A poll goes on only on a port that has been started, and credits wait until then.
LEMMA PollsNext ==
    ASSUME Quiet, RingInv, TypeOK', [Next]_vars
    PROVE  PollsWhenUp'
<1> USE DEF RingInv
<1>1. CASE ~up
  <2>1. pc = "idle" /\ credits = FirstCredits
    BY <1>1 DEF PollsWhenUp
  <2>2. CASE WriteIp
    BY <2>1, <2>2 DEF WriteIp, ResetPort, PollsWhenUp, poll
  <2>3. CASE ~WriteIp
    <3>1. UNCHANGED <<pc, credits>>
      BY <1>1, <2>3, DownSteps DEF Next, vars, poll, port, ReadIp, WriteSa, LeaveInterrupt
    <3> QED BY <2>1, <3>1 DEF PollsWhenUp
  <2> QED BY <2>2, <2>3
<1>2. CASE up
  <2>1. CASE WriteIp
    <3>1. pc = "idle"
      BY <2>1 DEF WriteIp, GuestRuns, Quiet
    <3> QED BY <2>1, <3>1 DEF WriteIp, ResetPort, PollsWhenUp, poll
  <2>2. CASE ~WriteIp
    <3>1. Still \/ UNCHANGED vars => up'
      BY <1>2 DEF Still, vars, driver
    <3> QED BY <1>2, <2>2, <3>1, StillSteps, PostEffect, CollectEffect, ReleaseEffect,
               MessageEffect DEF Next, PollStep, PollsWhenUp
  <2> QED BY <2>1, <2>2
<1> QED BY <1>1, <1>2

\* A port that is started stays in its state, or fails, or is reset.
LEMMA UpStates ==
    ASSUME TypeOK, Started, up, [Next]_vars
    PROVE  state' \in {state, "DEAD", "S1"}
<1>1. state # "S4" /\ state # "PPB"
  BY DEF Started
<1>2. PollStep => state' \in {state, "DEAD"}
  BY DEF PollStep, PollAttention, PollPostAttention, PollPeekCommand, PollPeekResponse,
         PollExecute, PollReleaseCommand, PollReleaseResponse, PollNotify, PollStop, Fail,
         port
<1>3. ReadIp => state' = state
  BY <1>1 DEF ReadIp
<1>4. WriteIp => state' = "S1"
  BY DEF WriteIp, ResetPort
<1>5. StartPoll \/ TakeInterrupt \/ CollectMessage \/ LeaveInterrupt \/ UNCHANGED vars
        => state' = state
  BY DEF StartPoll, TakeInterrupt, CollectMessage, LeaveInterrupt, vars, port
<1>6. \A op, unit : PostCommand(op, unit) => state' = state
  BY DEF PostCommand, port
<1> QED BY <1>2, <1>3, <1>4, <1>5, <1>6, StillSteps DEF Next

\* The port starts on empty rings.
LEMMA FreshNext ==
    ASSUME Quiet, RingInv, TypeOK', [Next]_vars
    PROVE  Fresh'
<1> USE DEF RingInv
<1>1. CASE ~up
  <2>1. ASSUME ReadIp PROVE Fresh'
    <3>1. CASE state = "PPB"
      BY <2>1, <3>1, StepFour DEF ReadIp, Fresh
    <3>2. CASE state # "PPB"
      BY <2>1, <3>2 DEF ReadIp, Fresh, memory
    <3> QED BY <3>1, <3>2
  <2>2. ASSUME NEW v \in SaWords, WriteSa(v) PROVE Fresh'
    <3>1. state' \in States \ {"S4"} \/ Step4(comm')
      BY <2>2 DEF WriteSa, Fail, States
    <3> QED BY <3>1, StepFour DEF Fresh
  <2>3. WriteIp => Fresh'
    BY DEF WriteIp, ResetPort, Fresh
  <2>4. LeaveInterrupt \/ UNCHANGED vars => Fresh'
    BY DEF LeaveInterrupt, vars, port, memory, Fresh
  <2> QED BY <1>1, <2>1, <2>2, <2>3, <2>4, DownSteps DEF Next
<1>2. CASE up
  <2>1. state # "S4" /\ state # "PPB"
    BY <1>2 DEF Started
  <2>2. state' # "S4"
    BY <1>2, <2>1, UpStates
  <2> QED BY <2>2 DEF Fresh
<1> QED BY <1>1, <1>2

\* What a poll holds goes on being the port's, and its next: the driver never takes a slot
\* whose OWN bit is set, and no other step moves the port's next slots.
LEMMA HoldsNext ==
    ASSUME Quiet, RingInv, TypeOK', [Next]_vars
    PROVE  HoldsCommand' /\ HoldsResponse' /\ HoldsUnit'
<1> USE DEF RingInv
<1>1. CASE pc' \notin {"post", "rsp", "exec", "relCmd", "relRsp"}
  BY <1>1 DEF HoldsCommand, HoldsResponse, HoldsUnit
<1>2. CASE UNCHANGED poll
  <2>1. CASE ~up
    <3>1. pc' = "idle"
      BY <1>2, <2>1 DEF PollsWhenUp, poll
    <3> QED BY <3>1 DEF HoldsCommand, HoldsResponse, HoldsUnit
  <2>2. CASE Still
    BY <1>2, <2>2 DEF Still, poll, HoldsCommand, HoldsResponse, HoldsUnit
  <2>3. ASSUME NEW op \in Ops, NEW unit \in Units, PostCommand(op, unit)
        PROVE  HoldsCommand' /\ HoldsResponse' /\ HoldsUnit'
    <3>1. /\ ring' = ring /\ rspRing' = rspRing /\ ring.cmd \in CmdIndex
          /\ cmdRing[ring.cmd].own => cmdRing'[ring.cmd].own
      BY <2>3, PostEffect DEF TypeOK, PortTypes
    <3> QED BY <1>2, <3>1 DEF poll, HoldsCommand, HoldsResponse, HoldsUnit
  <2>4. CASE CollectMessage
    <3>1. /\ ring' = ring /\ cmdRing' = cmdRing /\ ring.rsp \in RspIndex
          /\ rspRing[ring.rsp].own => rspRing'[ring.rsp].own
      BY <2>4, CollectEffect DEF TypeOK, PortTypes, Uncollected
    <3> QED BY <1>2, <3>1 DEF poll, HoldsCommand, HoldsResponse, HoldsUnit
  <2>5. CASE WriteIp
    <3>1. pc = "idle"
      BY <2>5 DEF WriteIp, GuestRuns, Quiet
    <3> QED BY <1>1, <1>2, <3>1 DEF poll
  <2>6. CASE PollStep \/ StartPoll
    <3>1. pc' # pc
      BY <2>6 DEF PollStep, StartPoll, PollAttention, PollPostAttention, PollPeekCommand,
                  PollPeekResponse, PollExecute, PollReleaseCommand, PollReleaseResponse,
                  PollNotify, PollStop
    <3> QED BY <1>2, <3>1 DEF poll
  <2>7. UNCHANGED vars => Still
    BY DEF vars, port, memory, driver, Still
  <2> QED BY <2>1, <2>2, <2>3, <2>4, <2>5, <2>6, <2>7, StillSteps DEF Next
<1>3. CASE PollAttention
  <2>1. CASE pc' = "post"
    <3>1. /\ una # {} /\ RspOwned /\ ring' = ring /\ rspRing' = rspRing
          /\ held' = [held EXCEPT !.rsp = ring.rsp,
                                  !.unit = CHOOSE u \in una : \A w \in una : u <= w]
      BY <1>3, <2>1 DEF PollAttention, port, memory
    <3>2. (CHOOSE u \in una : \A w \in una : u <= w) \in Units
      BY <3>1, LeastUnit DEF TypeOK, PortTypes
    <3>3. /\ held'.rsp = ring.rsp
          /\ held'.unit = CHOOSE u \in una : \A w \in una : u <= w
      BY <3>1 DEF TypeOK, PollTypes
    <3> QED BY <2>1, <3>1, <3>2, <3>3 DEF HoldsCommand, HoldsResponse, HoldsUnit, RspOwned
  <2> QED BY <1>1, <1>3, <2>1 DEF PollAttention
<1>4. CASE PollPeekCommand
  BY <1>4 DEF PollPeekCommand, CmdOwned, port, memory, HoldsCommand, HoldsResponse, HoldsUnit,
              TypeOK, PollTypes
<1>5. CASE PollPeekResponse
  BY <1>5 DEF PollPeekResponse, RspOwned, port, memory, HoldsCommand, HoldsResponse, HoldsUnit,
              TypeOK, PollTypes
<1>6. CASE PollExecute
  BY <1>6 DEF PollExecute, memory, HoldsCommand, HoldsResponse, HoldsUnit
<1>7. CASE PollReleaseCommand
  <2>1. /\ pc' = "relRsp" /\ held' = held /\ ring'.rsp = ring.rsp /\ rspRing' = rspRing
        /\ pc = "relCmd"
    BY <1>7, ReleaseEffect DEF PollReleaseCommand
  <2> QED BY <2>1 DEF HoldsCommand, HoldsResponse, HoldsUnit
<1>8. CASE StartPoll \/ PollPostAttention \/ PollReleaseResponse \/ PollNotify \/ PollStop
  BY <1>1, <1>8 DEF StartPoll, PollPostAttention, PollReleaseResponse, PollNotify, PollStop
<1>9. UNCHANGED poll \/ StartPoll \/ PollStep
  BY DEF Next, vars, ReadIp, WriteSa, WriteIp, PostCommand, TakeInterrupt, CollectMessage,
         LeaveInterrupt
<1> QED BY <1>2, <1>3, <1>4, <1>5, <1>6, <1>7, <1>8, <1>9 DEF PollStep

\* The invariant of the rings holds at first, and goes on holding.
LEMMA RingInit == Init => RingInv
<1> SUFFICES ASSUME Init PROVE RingInv
  OBVIOUS
<1>1. Started /\ Fresh /\ PollsWhenUp /\ HoldsCommand /\ HoldsResponse /\ HoldsUnit /\ Windows
  BY DEF Init, Started, Fresh, PollsWhenUp, HoldsCommand, HoldsResponse, HoldsUnit, Windows
<1> QED BY <1>1, TypesInit DEF RingInv

LEMMA RingNext == Quiet /\ RingInv /\ [Next]_vars => RingInv'
<1> SUFFICES ASSUME Quiet, RingInv, [Next]_vars PROVE RingInv'
  OBVIOUS
<1>1. TypeOK' /\ Started'
  BY TypesNext, StartedNext DEF RingInv
<1>2. Fresh' /\ PollsWhenUp' /\ HoldsCommand' /\ HoldsResponse' /\ HoldsUnit' /\ Windows'
  BY <1>1, FreshNext, PollsNext, HoldsNext, WindowsNext
<1> QED BY <1>1, <1>2 DEF RingInv

\* The port changes a slot of a ring only while the slot's OWN bit says that it is the
\* port's: no step of rq_service_poll, on the same core as the driver or on another one,
\* writes a descriptor or a packet that the driver has, as long as the driver does not
\* reset the port during a poll.
THEOREM WritesOwnSlots ==
    ASSUME Quiet
    PROVE  Spec => PortWritesOwnSlots
<1>1. ASSUME RingInv, [Next]_vars, pc # "idle", pc' # pc
      PROVE  /\ \A s \in DOMAIN rspRing : rspRing'[s] # rspRing[s] => rspRing[s].own
             /\ \A s \in DOMAIN cmdRing : cmdRing'[s] # cmdRing[s] => cmdRing[s].own
  <2> USE <1>1 DEF RingInv
  <2>1. PollStep
    BY DEF Next, vars, poll, ReadIp, WriteSa, WriteIp, StartPoll, PostCommand, TakeInterrupt,
           CollectMessage, LeaveInterrupt
  <2>2. DOMAIN rspRing = RspIndex /\ DOMAIN cmdRing = CmdIndex
    BY DEF TypeOK, MemoryTypes
  <2>3. CASE Still
    BY <2>3 DEF Still
  <2>4. CASE PollReleaseCommand
    <3>1. cmdRing[ring.cmd].own
      BY <2>4, ReleaseEffect DEF Posted
    <3> QED BY <2>2, <2>4, <3>1, ReleaseEffect
  <2>5. CASE PollReleaseResponse \/ PollPostAttention
    <3>1. rspRing[ring.rsp].own
      BY <2>5 DEF PollReleaseResponse, PollPostAttention, HoldsResponse
    <3> QED BY <2>2, <2>5, <3>1, MessageEffect
  <2>6. up
    BY DEF PollsWhenUp
  <2> QED BY <2>1, <2>3, <2>4, <2>5, <2>6, StillSteps DEF PollStep
<1>2. RingInv /\ [Next]_vars => RingInv'
  BY RingNext
<1>3. RingInv /\ [Next]_vars
        => (pc # "idle" /\ pc' # pc =>
              /\ \A s \in DOMAIN rspRing : rspRing'[s] # rspRing[s] => rspRing[s].own
              /\ \A s \in DOMAIN cmdRing : cmdRing'[s] # cmdRing[s] => cmdRing[s].own)
  BY <1>1
<1> QED BY RingInit, <1>2, <1>3, PTL DEF Spec, PortWritesOwnSlots

-----------------------------------------------------------------------------
(* Commands and answers. *)

\* What the slots hold is what they held, when nothing has touched them.
LEMMA StillWaits ==
    ASSUME CommandsWait, AnswersWait, Still
    PROVE  CommandsWait' /\ AnswersWait' /\ Posted' = Posted /\ Answers' = Answers
<1>1. Posted' = Posted /\ Uncollected' = Uncollected /\ rspRing' = rspRing /\ waiting' = waiting
      /\ cmdRing' = cmdRing
  BY DEF Still, Posted, Uncollected
<1>2. Answers' = Answers
  BY <1>1 DEF Answers
<1> QED BY <1>1, <1>2 DEF CommandsWait, AnswersWait, Ref, Id

\* Nothing waits on a port that has not been started.
LEMMA DownWaits ==
    ASSUME ~up \/ (Posted = {} /\ Uncollected = {})
    PROVE  CommandsWait /\ AnswersWait
<1>1. Posted = {} /\ Uncollected = {} /\ Answers = {}
  BY DEF Posted, Uncollected, Answers
<1> QED BY <1>1 DEF CommandsWait, AnswersWait

\* A command is posted: its number is new.
LEMMA PostWaits ==
    ASSUME CommandInv, NEW op, NEW unit, PostCommand(op, unit)
    PROVE  CommandsWait' /\ AnswersWait' /\ ReplyWaits'
<1> USE DEF CommandInv, RingInv
<1>0. PICK h : h = host.cmd
  OBVIOUS
<1>1. /\ h \in CmdIndex /\ h \notin Posted
      /\ \A s : s \in Posted' <=> s \in Posted \/ s = h
      /\ \A s \in CmdIndex : s # h => Ref(s)' = Ref(s)
      /\ Ref(h)' = posted'
      /\ Uncollected' = Uncollected /\ rspRing' = rspRing
  BY <1>0, PostEffect DEF Ref
<1>2. /\ waiting' = waiting \cup {posted'} /\ posted' \notin waiting
      /\ pc' = pc /\ reply' = reply /\ ring' = ring
  BY DEF PostCommand, TypeOK, DriverTypes, poll, port
<1>3. Answers' = Answers /\ \A s \in Answers : Id(s)' = Id(s)
  BY <1>1 DEF Answers, Id
<1>4. /\ \A s \in Posted : Ref(s)' = Ref(s) /\ Ref(s) \in waiting
      /\ \A s \in Answers : Id(s) \in waiting
  BY <1>1 DEF Posted, TypeOK, MemoryTypes, CommandsWait, AnswersWait
<1>5. CommandsWait'
  <2>1. \A s \in Posted' : Ref(s)' \in waiting'
    BY <1>1, <1>2, <1>4
  <2>2. ASSUME NEW s \in Posted', NEW t \in Posted', Ref(s)' = Ref(t)' PROVE s = t
    BY <1>1, <1>2, <1>4, <2>2 DEF CommandsWait
  <2> QED BY <2>1, <2>2 DEF CommandsWait, Ref
<1>6. AnswersWait'
  <2>1. \A s \in Answers' : Id(s)' \in waiting'
    BY <1>2, <1>3, <1>4
  <2>2. \A s, t \in Answers' : Id(s)' = Id(t)' => s = t
    BY <1>3 DEF AnswersWait
  <2>3. \A s \in Posted', t \in Answers' : Ref(s)' # Id(t)'
    BY <1>1, <1>2, <1>3, <1>4 DEF AnswersWait
  <2> QED BY <2>1, <2>2, <2>3 DEF AnswersWait, Ref, Id
<1>7. ReplyWaits'
  <2>1. pc' = "relCmd" => reply'.kind = "end" /\ reply'.id = Ref(ring.cmd)'
    <3>1. pc = "relCmd" => ring.cmd \in Posted
      BY DEF HoldsCommand, PollsWhenUp, Posted, TypeOK, PortTypes, MemoryTypes
    <3> QED BY <1>2, <1>4, <3>1 DEF ReplyWaits
  <2>2. pc' = "relRsp" => /\ reply'.kind = "end" /\ reply'.id \in waiting'
                          /\ \A s \in Posted' : Ref(s)' # reply'.id
                          /\ \A s \in Answers' : Id(s)' # reply'.id
    BY <1>1, <1>2, <1>3, <1>4 DEF ReplyWaits
  <2> QED BY <1>2, <2>1, <2>2 DEF ReplyWaits, Ref, Id
<1> QED BY <1>5, <1>6, <1>7

\* The driver sees an answer: the command waits no longer, and nowhere else.
LEMMA CollectWaits ==
    ASSUME CommandInv, CollectMessage
    PROVE  CommandsWait' /\ AnswersWait' /\ ReplyWaits'
<1> USE DEF CommandInv, RingInv
<1>0. PICK h : h = host.rsp
  OBVIOUS
<1>1. /\ h \in Uncollected
      /\ \A s : s \in Uncollected' <=> s \in Uncollected /\ s # h
      /\ \A s \in RspIndex : s # h => rspRing'[s] = rspRing[s]
      /\ Posted' = Posted /\ cmdRing' = cmdRing /\ ring' = ring
      /\ Uncollected \subseteq RspIndex
  BY <1>0, CollectEffect DEF Uncollected, TypeOK, MemoryTypes
<1>2. /\ waiting' = IF h \in Answers THEN waiting \ {Id(h)} ELSE waiting
      /\ pc' = pc /\ reply' = reply
  BY <1>0, <1>1 DEF CollectMessage, Answers, Id, poll
<1>3. /\ \A s : s \in Answers' <=> s \in Answers /\ s # h
      /\ \A s \in Answers' : Id(s)' = Id(s)
      /\ \A s \in Posted : Ref(s)' = Ref(s)
  BY <1>1 DEF Answers, Id, Ref
<1>4. CommandsWait'
  <2>1. \A s \in Posted : Ref(s) \in waiting'
    BY <1>2 DEF CommandsWait, AnswersWait
  <2>2. \A s, t \in Posted : Ref(s)' = Ref(t)' => s = t
    BY <1>3 DEF CommandsWait
  <2> QED BY <1>1, <1>3, <2>1, <2>2 DEF CommandsWait, Ref
<1>5. AnswersWait'
  <2>1. \A s \in Answers' : Id(s)' \in waiting'
    BY <1>2, <1>3 DEF AnswersWait
  <2>2. \A s, t \in Answers' : Id(s)' = Id(t)' => s = t
    BY <1>3 DEF AnswersWait
  <2>3. \A s \in Posted', t \in Answers' : Ref(s)' # Id(t)'
    BY <1>1, <1>3 DEF AnswersWait
  <2> QED BY <2>1, <2>2, <2>3 DEF AnswersWait, Ref, Id
<1>6. ReplyWaits'
  <2>1. pc' = "relCmd" => reply'.kind = "end" /\ reply'.id = Ref(ring.cmd)'
    BY <1>1, <1>2 DEF ReplyWaits, Ref
  <2>2. pc' = "relRsp" => /\ reply'.kind = "end" /\ reply'.id \in waiting'
                          /\ \A s \in Posted' : Ref(s)' # reply'.id
                          /\ \A s \in Answers' : Id(s)' # reply'.id
    BY <1>1, <1>2, <1>3 DEF ReplyWaits
  <2> QED BY <1>1, <1>2, <2>1, <2>2 DEF ReplyWaits, Ref, Id
<1> QED BY <1>4, <1>5, <1>6

\* The port takes a command out of the ring: from then on it is the reply that waits.
LEMMA ReleaseWaits ==
    ASSUME CommandInv, PollReleaseCommand
    PROVE  CommandsWait' /\ AnswersWait' /\ ReplyWaits'
<1> USE DEF CommandInv, RingInv
<1>1. /\ ring.cmd \in Posted
      /\ \A s : s \in Posted' <=> s \in Posted /\ s # ring.cmd
      /\ \A s \in CmdIndex : s # ring.cmd => cmdRing'[s] = cmdRing[s]
      /\ Uncollected' = Uncollected /\ rspRing' = rspRing
      /\ Posted \subseteq CmdIndex
  BY ReleaseEffect DEF Posted, TypeOK, MemoryTypes
<1>2. pc = "relCmd" /\ pc' = "relRsp" /\ reply' = reply /\ waiting' = waiting
  BY DEF PollReleaseCommand, driver
<1>3. /\ \A s \in Posted' : Ref(s)' = Ref(s)
      /\ Answers' = Answers /\ \A s \in Answers : Id(s)' = Id(s)
  BY <1>1 DEF Answers, Id, Ref
<1>4. reply.kind = "end" /\ reply.id = Ref(ring.cmd)
  BY <1>2 DEF ReplyWaits
<1>5. CommandsWait'
  <2>1. \A s \in Posted' : Ref(s)' \in waiting'
    BY <1>1, <1>2, <1>3 DEF CommandsWait
  <2>2. \A s, t \in Posted' : Ref(s)' = Ref(t)' => s = t
    BY <1>1, <1>3 DEF CommandsWait
  <2> QED BY <2>1, <2>2 DEF CommandsWait, Ref
<1>6. AnswersWait'
  <2>1. \A s \in Answers' : Id(s)' \in waiting'
    BY <1>2, <1>3 DEF AnswersWait
  <2>2. \A s, t \in Answers' : Id(s)' = Id(t)' => s = t
    BY <1>3 DEF AnswersWait
  <2>3. \A s \in Posted', t \in Answers' : Ref(s)' # Id(t)'
    BY <1>1, <1>3 DEF AnswersWait
  <2> QED BY <2>1, <2>2, <2>3 DEF AnswersWait, Ref, Id
<1>7. ReplyWaits'
  <2>1. reply'.id \in waiting' /\ reply'.kind = "end"
    BY <1>1, <1>2, <1>4 DEF CommandsWait
  <2>2. \A s \in Posted' : Ref(s)' # reply'.id
    BY <1>1, <1>2, <1>3, <1>4 DEF CommandsWait
  <2>3. \A s \in Answers' : Id(s)' # reply'.id
    BY <1>1, <1>2, <1>3, <1>4 DEF AnswersWait
  <2> QED BY <1>2, <2>1, <2>2, <2>3 DEF ReplyWaits, Ref, Id
<1> QED BY <1>5, <1>6, <1>7

\* The port puts a message in the response ring.
LEMMA MessageWaits ==
    ASSUME CommandInv, PollReleaseResponse \/ PollPostAttention
    PROVE  CommandsWait' /\ AnswersWait' /\ ReplyWaits'
<1> USE DEF CommandInv, RingInv
<1>0. PICK r : r = ring.rsp
  OBVIOUS
<1>1. /\ r \notin Uncollected
      /\ \A s : s \in Uncollected' <=> s \in Uncollected \/ s = r
      /\ \A s \in RspIndex : s # r => rspRing'[s] = rspRing[s]
      /\ rspRing'[r].msg = IF PollReleaseResponse THEN reply
                                  ELSE Attention(held.unit)
      /\ Posted' = Posted /\ cmdRing' = cmdRing
      /\ Uncollected \subseteq RspIndex
  BY <1>0, MessageEffect DEF Uncollected, TypeOK, MemoryTypes
<1>2. /\ waiting' = waiting /\ pc' \notin {"relCmd", "relRsp"}
      /\ PollReleaseResponse => pc = "relRsp"
  BY DEF PollReleaseResponse, PollPostAttention, driver
<1>3. ReplyWaits'
  BY <1>2 DEF ReplyWaits
<1>4. \A s \in Posted : Ref(s)' = Ref(s)
  BY <1>1 DEF Ref
<1>5. CommandsWait'
  BY <1>1, <1>2, <1>4 DEF CommandsWait, Ref
<1>6. \A s \in Answers : Id(s)' = Id(s)
  BY <1>1 DEF Answers, Id
<1>7. CASE PollReleaseResponse
  <2>1. /\ \A s : s \in Answers' <=> s \in Answers \/ s = r
        /\ Id(r)' = reply.id
    BY <1>1, <1>2, <1>7 DEF Answers, Id, ReplyWaits
  <2>2. \A s \in Answers' : Id(s)' \in waiting'
    BY <1>2, <1>6, <1>7, <2>1 DEF AnswersWait, ReplyWaits
  <2>3. \A s, t \in Answers' : Id(s)' = Id(t)' => s = t
    BY <1>2, <1>6, <1>7, <2>1 DEF AnswersWait, ReplyWaits
  <2>4. \A s \in Posted', t \in Answers' : Ref(s)' # Id(t)'
    BY <1>1, <1>2, <1>4, <1>6, <1>7, <2>1 DEF AnswersWait, ReplyWaits
  <2>5. AnswersWait'
    BY <2>2, <2>3, <2>4 DEF AnswersWait, Ref, Id
  <2> QED BY <1>3, <1>5, <2>5
<1>8. CASE ~PollReleaseResponse
  <2>1. Answers' = Answers
    BY <1>1, <1>8 DEF Answers, Attention
  <2>2. \A s \in Answers' : Id(s)' \in waiting'
    BY <1>2, <1>6, <2>1 DEF AnswersWait
  <2>3. \A s, t \in Answers' : Id(s)' = Id(t)' => s = t
    BY <1>6, <2>1 DEF AnswersWait
  <2>4. \A s \in Posted', t \in Answers' : Ref(s)' # Id(t)'
    BY <1>1, <1>4, <1>6, <2>1 DEF AnswersWait
  <2>5. AnswersWait'
    BY <2>2, <2>3, <2>4 DEF AnswersWait, Ref, Id
  <2> QED BY <1>3, <1>5, <2>5
<1> QED BY <1>7, <1>8

\* A step that leaves the rings alone, and may be the one that performs a command.
LEMMA StillReply ==
    ASSUME CommandInv, TypeOK', Still, [Next]_vars
    PROVE  CommandsWait' /\ AnswersWait' /\ ReplyWaits'
<1> USE DEF CommandInv, RingInv
<1>1. CommandsWait' /\ AnswersWait' /\ Posted' = Posted /\ Answers' = Answers
  BY StillWaits
<1>2. CASE pc' \notin {"relCmd", "relRsp"}
  BY <1>1, <1>2 DEF ReplyWaits
<1>3. CASE UNCHANGED <<pc, reply>>
  BY <1>1, <1>3 DEF ReplyWaits, Still, Ref, Id
<1>4. CASE PollExecute
  <2>1. CASE pc' = "stop"
    BY <1>2, <2>1
  <2>2. CASE pc' # "stop"
    <3>1. pc' = "relCmd" /\ reply'.kind = "end" /\ reply'.id = cmdRing[held.cmd].cmd.ref
      BY <1>4, <2>2 DEF PollExecute
    <3>2. held.cmd = ring.cmd
      BY <1>4 DEF PollExecute, HoldsCommand
    <3> QED BY <1>1, <3>1, <3>2 DEF ReplyWaits, Ref, Still
  <2> QED BY <2>1, <2>2
<1>5. CASE PollReleaseCommand \/ PollReleaseResponse \/ PollPostAttention
  <2>1. up
    BY <1>5 DEF PollsWhenUp, PollReleaseCommand, PollReleaseResponse, PollPostAttention
  <2>2. CASE PollReleaseCommand
    BY <1>1, <2>2, ReleaseWaits
  <2>3. CASE PollReleaseResponse \/ PollPostAttention
    BY <2>3, MessageWaits
  <2> QED BY <1>5, <2>2, <2>3
<1>6. pc' \notin {"relCmd", "relRsp"} \/ UNCHANGED <<pc, reply>> \/ PollExecute
        \/ PollReleaseCommand \/ PollReleaseResponse \/ PollPostAttention
  BY DEF Next, vars, poll, PollStep, ReadIp, WriteSa, WriteIp, StartPoll, PollAttention,
         PollPeekCommand, PollPeekResponse, PollNotify, PollStop, PostCommand, TakeInterrupt,
         CollectMessage, LeaveInterrupt
<1> QED BY <1>1, <1>2, <1>3, <1>4, <1>5, <1>6

\* The invariant of commands and answers holds at first, and goes on holding.
LEMMA CommandInit == Init => CommandInv
<1> SUFFICES ASSUME Init PROVE CommandInv
  OBVIOUS
<1>1. ~up /\ pc = "idle"
  BY DEF Init
<1> QED BY <1>1, RingInit, DownWaits DEF CommandInv, ReplyWaits

LEMMA CommandNext == Quiet /\ CommandInv /\ [Next]_vars => CommandInv'
<1> SUFFICES ASSUME Quiet, CommandInv, [Next]_vars PROVE CommandInv'
  OBVIOUS
<1> USE DEF CommandInv
<1>1. RingInv'
  BY RingNext
<1>2. CommandsWait' /\ AnswersWait' /\ ReplyWaits'
  <2> USE DEF RingInv
  <2>1. CASE Still
    BY <1>1, <2>1, StillReply
  <2>2. CASE ~up'
    <3>1. Posted' = {} /\ Uncollected' = {} /\ Answers' = {}
      BY <2>2 DEF Posted, Uncollected, Answers
    <3>2. pc' = "idle"
      BY <1>1, <2>2 DEF PollsWhenUp
    <3> QED BY <3>1, <3>2 DEF CommandsWait, AnswersWait, ReplyWaits
  <2>3. CASE ~up /\ up'
    <3>1. PICK v \in SaWords : WriteSa(v) /\ state = "S4"
      BY <2>3, DownSteps DEF Next, vars, driver
    <3>2. /\ cmdRing' = cmdRing /\ rspRing' = [s \in DOMAIN rspRing |-> Returned]
          /\ pc' = pc
      BY <3>1 DEF WriteSa, poll
    <3>3. Posted' = {} /\ Uncollected' = {}
      BY <3>1, <3>2 DEF Fresh, Posted, Uncollected, Returned, TypeOK, MemoryTypes
    <3>4. Answers' = {}
      BY <3>3 DEF Answers
    <3>5. pc' = "idle"
      BY <2>3, <3>2 DEF PollsWhenUp
    <3> QED BY <3>3, <3>4, <3>5 DEF CommandsWait, AnswersWait, ReplyWaits
  <2>4. CASE up /\ up'
    <3>1. ASSUME NEW op \in Ops, NEW unit \in Units, PostCommand(op, unit)
          PROVE  CommandsWait' /\ AnswersWait' /\ ReplyWaits'
      BY <3>1, PostWaits
    <3>2. CASE CollectMessage
      BY <3>2, CollectWaits
    <3>3. CASE PollReleaseCommand
      BY <3>3, ReleaseWaits
    <3>4. CASE PollReleaseResponse \/ PollPostAttention
      BY <3>4, MessageWaits
    <3>5. ~WriteIp
      BY <2>4 DEF WriteIp
    <3>6. UNCHANGED vars => Still
      BY DEF vars, port, memory, driver, Still
    <3> QED BY <2>1, <2>4, <3>1, <3>2, <3>3, <3>4, <3>5, <3>6, StillSteps DEF Next, PollStep
  <2>5. up \in BOOLEAN /\ up' \in BOOLEAN
    BY <1>1 DEF TypeOK, DriverTypes
  <2> QED BY <2>2, <2>3, <2>4, <2>5
<1> QED BY <1>1, <1>2

\* Every answer in the response ring answers a command that was posted since the last
\* reset and that the driver has not seen answered: no command is answered twice, none is
\* answered that was not posted, and a reset leaves no answer behind.
THEOREM AnswersWaitAlways ==
    ASSUME Quiet
    PROVE  Spec => []AnswersWaiting
<1>1. CommandInv /\ [Next]_vars => CommandInv'
  BY CommandNext
<1>2. CommandInv => AnswersWaiting
  BY DEF CommandInv, AnswersWait, Answers, Id, AnswersWaiting
<1> QED BY CommandInit, <1>1, <1>2, PTL DEF Spec

-----------------------------------------------------------------------------
(* No command is forgotten. *)

\* Between two instructions of the guest a poll runs to its end: what it has looked at
\* stays as it was, and the request to poll with it.
LEMMA LookedNext ==
    ASSUME ~DualCore, CommandInv, PollLooked, NoForgottenCommand, [Next]_vars
    PROVE  PollLooked' /\ NoForgottenCommand'
<1> USE DEF CommandInv, RingInv
<1>1. CASE pc # "idle"
  <2>1. PollStep \/ UNCHANGED vars
    BY <1>1 DEF Next, ReadIp, WriteSa, WriteIp, StartPoll, PostCommand, TakeInterrupt,
                CollectMessage, LeaveInterrupt, GuestRuns
  <2>2. CASE PollAttention
    BY <1>1, <2>2 DEF PollAttention, port, PollLooked, NoForgottenCommand
  <2>3. CASE PollPeekCommand \/ PollPeekResponse
    <3>1. /\ UNCHANGED <<state, ring, cmdRing, rspRing, pollPending>>
          /\ pc' # "idle" /\ pc' = "stop" => ~(CmdOwned /\ RspOwned)
      BY <2>3 DEF PollPeekCommand, PollPeekResponse, port, memory
    <3> QED BY <1>1, <3>1 DEF PollLooked, NoForgottenCommand, CmdOwned, RspOwned
  <2>4. CASE PollExecute
    BY <1>1, <2>4 DEF PollExecute, Fail, Perform, PollLooked, NoForgottenCommand
  <2>5. CASE PollReleaseCommand \/ PollReleaseResponse \/ PollNotify \/ PollPostAttention
    BY <1>1, <2>5 DEF PollReleaseCommand, PollReleaseResponse, PollNotify, PollPostAttention,
                      PollLooked, NoForgottenCommand
  <2>6. CASE PollStop
    BY <1>1, <2>6 DEF PollStop, memory, PollLooked, NoForgottenCommand, CmdOwned, RspOwned
  <2>7. CASE UNCHANGED vars
    BY <2>7 DEF vars, port, poll, memory, driver, PollLooked, NoForgottenCommand, CmdOwned,
                RspOwned
  <2> QED BY <2>1, <2>2, <2>3, <2>4, <2>5, <2>6, <2>7 DEF PollStep
<1>2. CASE pc = "idle"
  <2>1. ~PollStep
    BY <1>2 DEF PollStep, PollAttention, PollPostAttention, PollPeekCommand, PollPeekResponse,
                PollExecute, PollReleaseCommand, PollReleaseResponse, PollNotify, PollStop
  <2>2. CASE StartPoll
    BY <2>2 DEF StartPoll, port, PollLooked, NoForgottenCommand
  <2>3. CASE UNCHANGED vars
    BY <2>3 DEF vars, port, poll, memory, driver, PollLooked, NoForgottenCommand, CmdOwned,
                RspOwned
  <2>4. CASE ~StartPoll /\ ~UNCHANGED vars
    <3>1. pc' = "idle"
      BY <1>2, <2>1, <2>4 DEF Next, ReadIp, WriteSa, WriteIp, PostCommand, TakeInterrupt,
                              CollectMessage, LeaveInterrupt, poll
    <3>2. PollLooked'
      BY <3>1 DEF PollLooked
    <3>3. CASE ReadIp
      <4>1. CASE state = "PPB"
        BY <3>2, <3>3, <4>1, StepFour DEF ReadIp, NoForgottenCommand
      <4>2. CASE state # "PPB"
        BY <3>2, <3>3, <4>2 DEF ReadIp, NoForgottenCommand
      <4> QED BY <4>1, <4>2
    <3>4. ASSUME NEW v \in SaWords, WriteSa(v) PROVE NoForgottenCommand'
      <4>1. CASE state = "S4"
        <5>1. cmdRing' = cmdRing /\ ring' = ring /\ ring.cmd \in CmdIndex
          BY <3>4, <4>1 DEF WriteSa, TypeOK, PortTypes
        <5>2. ~CmdOwned'
          BY <4>1, <5>1 DEF Fresh, CmdOwned
        <5> QED BY <5>2 DEF NoForgottenCommand
      <4>2. CASE state # "S4"
        <5>1. state' \in States \ {"UP", "S4"} \/ Step4(comm')
          BY <3>4, <4>2 DEF WriteSa, Fail, States
        <5> QED BY <5>1, StepFour DEF NoForgottenCommand
      <4> QED BY <4>1, <4>2
    <3>5. CASE WriteIp
      BY <3>2, <3>5 DEF WriteIp, ResetPort, NoForgottenCommand
    <3>6. ASSUME NEW op \in Ops, NEW unit \in Units, PostCommand(op, unit)
          PROVE  NoForgottenCommand'
      BY <3>6 DEF PostCommand, NoForgottenCommand
    <3>7. CASE TakeInterrupt
      BY <3>2, <3>7 DEF TakeInterrupt, poll, NoForgottenCommand, CmdOwned, RspOwned
    <3>8. CASE CollectMessage
      <4>1. SUFFICES ASSUME ~owesIp', CmdOwned' PROVE FALSE
        BY <3>2 DEF NoForgottenCommand
      <4>2. waiting' = {} /\ up'
        BY <3>8, <4>1, CollectEffect DEF CollectMessage
      <4>3. CommandInv'
        BY CommandNext DEF Quiet
      <4>4. ring'.cmd \in Posted'
        BY <4>1, <4>2, <4>3 DEF TypeOK, PortTypes, MemoryTypes, CmdOwned, Posted
      <4>5. Posted' # {} => waiting' # {}
        BY <4>3 DEF CommandsWait
      <4> QED BY <4>2, <4>4, <4>5
    <3>9. CASE LeaveInterrupt
      BY <3>2, <3>9 DEF LeaveInterrupt, port, poll, memory, NoForgottenCommand, CmdOwned, RspOwned
    <3> QED BY <2>1, <2>4, <3>2, <3>3, <3>4, <3>5, <3>6, <3>7, <3>8, <3>9 DEF Next
  <2> QED BY <2>2, <2>3, <2>4
<1> QED BY <1>1, <1>2

\* On a host build, where rq11_poll runs between two instructions of the guest, no command
\* is left in the ring once the driver has read IP and no poll is pending: a poll gives up
\* its request only after it has found no command, or no room for its answer.
THEOREM NothingForgotten ==
    ASSUME ~DualCore
    PROVE  Spec => []NoForgottenCommand
<1>1. Init => ForgetInv
  BY CommandInit DEF Init, ForgetInv, PollLooked, NoForgottenCommand
<1>2. ForgetInv /\ [Next]_vars => ForgetInv'
  BY CommandNext, LookedNext DEF ForgetInv, Quiet
<1>3. ForgetInv => NoForgottenCommand
  BY DEF ForgetInv
<1> QED BY <1>1, <1>2, <1>3, PTL DEF Spec

-----------------------------------------------------------------------------
(* Credits. *)

\* One element for each number up to the one that e gives to a member of S.
Tokens(S, e) == {t \in S \X (1 .. MaxGrant) : t[2] <= e[t[1]]}

\* The tokens of a set with one member more.
LEMMA TokensAdd ==
    ASSUME NEW S, NEW T, NEW r, NEW e, NEW f, IsFiniteSet(S), r \notin S,
           \A x : x \in T <=> x \in S \/ x = r, \A x \in S : f[x] = e[x], f[r] \in 0 .. MaxGrant
    PROVE  /\ IsFiniteSet(Tokens(S, e)) /\ IsFiniteSet(Tokens(T, f))
           /\ Cardinality(Tokens(S, e)) \in Nat
           /\ Cardinality(Tokens(T, f)) = Cardinality(Tokens(S, e)) + f[r]
<1> DEFINE New == {r} \X (1 .. f[r])
<1> DEFINE G == 1 .. MaxGrant
<1>1. IsFiniteSet(G)
  <2>1. MaxGrant \in Int
    BY DEF MaxGrant
  <2> QED BY <2>1, FS_Interval
<1> HIDE DEF G
<1>2. IsFiniteSet(S \X G)
  BY <1>1, FS_Product
<1>3. IsFiniteSet(Tokens(S, e))
  <2>1. Tokens(S, e) \in SUBSET (S \X G)
    BY DEF Tokens, G
  <2> QED BY <1>2, <2>1, FS_Subset
<1>4. /\ IsFiniteSet(1 .. f[r]) /\ Cardinality(1 .. f[r]) = f[r]
  <2> DEFINE k == f[r]
  <2>1. k \in Nat
    BY DEF MaxGrant
  <2> HIDE DEF k
  <2>2. IsFiniteSet(1 .. k) /\ Cardinality(1 .. k) = IF 1 > k THEN 0 ELSE k - 1 + 1
    BY ONLY <2>1, FS_Interval
  <2>3. IsFiniteSet(1 .. k) /\ Cardinality(1 .. k) = k
    BY <2>1, <2>2
  <2> QED BY <2>3 DEF k
<1>5. IsFiniteSet({r}) /\ Cardinality({r}) = 1
  BY FS_Singleton
<1>6. IsFiniteSet(New) /\ Cardinality(New) = f[r]
  <2>1. Cardinality(New) = 1 * f[r] /\ IsFiniteSet(New)
    BY <1>4, <1>5, FS_Product
  <2> QED BY <2>1 DEF MaxGrant
<1>7. Tokens(T, f) = Tokens(S, e) \cup New
  <2>1. ASSUME NEW t \in Tokens(T, f) PROVE t \in Tokens(S, e) \cup New
    BY <2>1 DEF Tokens
  <2>2. ASSUME NEW t \in Tokens(S, e) PROVE t \in Tokens(T, f)
    BY DEF Tokens
  <2>3. ASSUME NEW t \in New PROVE t \in Tokens(T, f)
    BY DEF Tokens, MaxGrant
  <2> QED BY <2>1, <2>2, <2>3
<1>8. Tokens(S, e) \cap New = {}
  BY DEF Tokens
<1> HIDE DEF New
<1>9. Cardinality(Tokens(S, e)) \in Nat
  BY <1>3, FS_CardinalityType
<1>10. Cardinality(Tokens(S, e) \cap New) = 0
  BY <1>8, FS_EmptySet
<1> DEFINE Old == Tokens(S, e)
<1> HIDE DEF Old
<1>11. /\ IsFiniteSet(Old \cup New)
       /\ Cardinality(Old \cup New)
            = Cardinality(Old) + Cardinality(New) - Cardinality(Old \cap New)
  BY <1>3, <1>6, FS_Union DEF Old
<1>12. Cardinality(Old \cup New) = Cardinality(Old) + f[r]
  BY <1>6, <1>9, <1>10, <1>11 DEF Old, MaxGrant
<1> QED BY <1>3, <1>7, <1>9, <1>11, <1>12 DEF Old

Extras == [s \in RspIndex |-> Extra(rspRing[s].msg)]

\* The credits under way are finitely many.
LEMMA CreditTypes ==
    ASSUME TypeOK
    PROVE  /\ Travelling = Tokens(Uncollected, Extras)
           /\ IsFiniteSet(Uncollected) /\ IsFiniteSet(waiting)
           /\ Cardinality(waiting) \in Nat
<1>1. Travelling = Tokens(Uncollected, Extras)
  BY DEF Travelling, Tokens, Extras, Uncollected, TypeOK, MemoryTypes
<1>2. IsFiniteSet(Uncollected)
  <2>1. 0 \in Int /\ RspSlots - 1 \in Int
    BY RingAssumption
  <2>2. IsFiniteSet(RspIndex)
    BY <2>1, FS_Interval DEF RspIndex
  <2>3. Uncollected \in SUBSET RspIndex
    BY DEF Uncollected, TypeOK, MemoryTypes
  <2> QED BY <2>2, <2>3, FS_Subset
<1>3. IsFiniteSet(waiting)
  <2>1. 1 \in Int /\ posted \in Int
    BY DEF TypeOK, DriverTypes
  <2>2. IsFiniteSet(1 .. posted)
    BY <2>1, FS_Interval
  <2>3. waiting \in SUBSET (1 .. posted)
    BY DEF TypeOK, DriverTypes
  <2> QED BY <2>2, <2>3, FS_Subset
<1> QED BY <1>1, <1>2, <1>3, FS_CardinalityType

\* The credits of an answer fit, and an attention message has none.
LEMMA ExtraTypes ==
    ASSUME TypeOK, CreditsCarried, ~Tape
    PROVE  /\ \A s \in Uncollected : Extra(rspRing[s].msg) \in 0 .. MaxGrant
           /\ InReply /\ reply.kind = "end" => Extra(reply) \in 0 .. MaxGrant
           /\ \A u : Extra(Attention(u)) = 0
<1>1. \A m \in Messages : m.kind = "end" /\ m.cr >= 1 => Extra(m) \in 0 .. MaxGrant
  BY DEF Messages, Extra, MaxGrant
<1>2. \A m \in Messages : m.kind # "end" => Extra(m) \in 0 .. MaxGrant
  BY DEF Messages, Extra, MaxGrant
<1>3. \A s \in Uncollected : rspRing[s].msg \in Messages
  BY DEF Uncollected, TypeOK, MemoryTypes
<1>4. \A u : Extra(Attention(u)) = 0
  BY DEF Extra, Attention
<1> QED BY <1>1, <1>2, <1>3, <1>4 DEF CreditsCarried, TypeOK, PollTypes

\* Credits as the driver, its commands and the answers hold them.
Total == hostCredits + Cardinality(waiting) + Cardinality(Travelling)
           + (IF InReply THEN Extra(reply) ELSE 0) + credits

\* A step that moves no credit.
LEMMA CreditsStill ==
    ASSUME CreditsCarried, up, up' = up, rspRing' = rspRing, waiting' = waiting,
           hostCredits' = hostCredits, credits' = credits, InReply' = InReply,
           InReply => reply' = reply
    PROVE  CreditsCarried' /\ Total' = Total
<1>1. Uncollected' = Uncollected
  BY DEF Uncollected
<1>2. Travelling' = Travelling
  BY <1>1 DEF Travelling
<1>3. CreditsCarried'
  BY <1>1 DEF CreditsCarried
<1> QED BY <1>2, <1>3 DEF Total

\* Performing a command moves credits from the port to its answer.
LEMMA CreditsExecute ==
    ASSUME CommandInv, CreditsCarried, up, ~Tape, PollExecute
    PROVE  CreditsCarried' /\ (state' = "UP" => Total' = Total)
<1> USE DEF CommandInv, RingInv
<1>1. /\ up' = up /\ rspRing' = rspRing /\ waiting' = waiting
      /\ hostCredits' = hostCredits /\ ~InReply
  BY DEF PollExecute, memory, driver, InReply
<1>2. CASE pc' = "stop"
  <2>1. state' = "DEAD" /\ ~InReply' /\ Uncollected' = Uncollected
    BY <1>1, <1>2 DEF PollExecute, InReply, Fail, Uncollected
  <2> QED BY <1>1, <2>1 DEF CreditsCarried
<1>3. CASE pc' # "stop"
  <2>1. /\ reply'.kind = "end" /\ reply'.cr = Grant
        /\ credits' = credits - (Grant - 1) /\ pc' = "relCmd"
    BY <1>3 DEF PollExecute, PayCredits
  <2>2. Grant \in Nat /\ Grant >= 1 /\ credits \in Nat /\ hostCredits \in Nat
    BY DEF Grant, MaxGrant, TypeOK, PortTypes, DriverTypes
  <2>3. Uncollected' = Uncollected
    BY <1>1 DEF Uncollected
  <2>4. Travelling' = Travelling
    BY <1>1, <2>3 DEF Travelling
  <2>5. CreditsCarried'
    BY <1>1, <2>1, <2>2, <2>3 DEF CreditsCarried
  <2>6. InReply' /\ Extra(reply') = Grant - 1
    BY <2>1 DEF InReply, Extra
  <2>7. Cardinality(waiting) \in Nat
    BY CreditTypes
  <2>8. Cardinality(Travelling) \in Nat
    <3>1. Travelling \in SUBSET (Uncollected \X (1 .. MaxGrant))
      BY DEF Travelling
    <3> DEFINE G == 1 .. MaxGrant
    <3>2. IsFiniteSet(G)
      <4>1. MaxGrant \in Int
        BY DEF MaxGrant
      <4> QED BY <4>1, FS_Interval
    <3> HIDE DEF G
    <3>3. IsFiniteSet(Uncollected \X G)
      BY <3>2, CreditTypes, FS_Product
    <3>4. Travelling \in SUBSET (Uncollected \X G)
      BY <3>1 DEF G
    <3> QED BY <3>3, <3>4, FS_Subset, FS_CardinalityType
  <2>9. Total = hostCredits + Cardinality(waiting) + Cardinality(Travelling) + credits
    BY <1>1, <2>2, <2>7, <2>8 DEF Total
  <2>10. Total' = hostCredits + Cardinality(waiting) + Cardinality(Travelling)
                    + (Grant - 1) + (credits - (Grant - 1))
    BY <1>1, <2>1, <2>4, <2>6 DEF Total
  <2> QED BY <2>2, <2>5, <2>7, <2>8, <2>9, <2>10
<1> QED BY <1>2, <1>3

\* A message in the response ring carries the credits of the reply under way.
LEMMA CreditsMessage ==
    ASSUME CommandInv, CommandInv', CreditsCarried, up, ~Tape,
           PollReleaseResponse \/ PollPostAttention
    PROVE  CreditsCarried' /\ Total' = Total
<1> USE DEF CommandInv, RingInv
<1>0. PICK r : r = ring.rsp
  OBVIOUS
<1>1. /\ r \in RspIndex /\ r \notin Uncollected
      /\ \A s : s \in Uncollected' <=> s \in Uncollected \/ s = r
      /\ \A s \in RspIndex : s # r => rspRing'[s] = rspRing[s]
      /\ rspRing'[r].msg = IF PollReleaseResponse THEN reply ELSE Attention(held.unit)
      /\ Uncollected \subseteq RspIndex
  BY <1>0, MessageEffect DEF Uncollected, TypeOK, MemoryTypes
<1>2. /\ waiting' = waiting /\ hostCredits' = hostCredits /\ credits' = credits
      /\ ~InReply'
      /\ PollReleaseResponse => pc = "relRsp"
      /\ ~PollReleaseResponse => pc = "post"
  BY DEF PollReleaseResponse, PollPostAttention, driver, InReply
<1> DEFINE e == IF InReply THEN Extra(reply) ELSE 0
<1>3. Extra(rspRing'[r].msg) = e /\ e \in 0 .. MaxGrant
  <2>1. CASE PollReleaseResponse
    <3>1. InReply /\ reply.kind = "end"
      BY <1>2, <2>1 DEF InReply, ReplyWaits
    <3> QED BY <1>1, <2>1, <3>1, ExtraTypes
  <2>2. CASE ~PollReleaseResponse
    BY <1>1, <1>2, <2>2, ExtraTypes DEF InReply, MaxGrant
  <2> QED BY <2>1, <2>2
<1>4. CreditsCarried'
  <2>1. ASSUME NEW s \in Uncollected'
        PROVE  /\ rspRing'[s].msg.kind # "end" => rspRing'[s].msg.cr = 0
               /\ rspRing'[s].msg.kind = "end" => rspRing'[s].msg.cr >= 1
    <3>1. CASE s \in Uncollected
      BY <1>1, <3>1 DEF CreditsCarried
    <3>2. CASE s = r /\ PollReleaseResponse
      BY <1>1, <1>2, <3>2 DEF CreditsCarried, InReply, ReplyWaits
    <3>3. CASE s = r /\ ~PollReleaseResponse
      BY <1>1, <3>3 DEF Attention
    <3> QED BY <1>1, <3>1, <3>2, <3>3
  <2> QED BY <1>2, <2>1 DEF CreditsCarried
<1> HIDE DEF e
<1>5. /\ Cardinality(Travelling) \in Nat
      /\ Cardinality(Travelling') = Cardinality(Travelling) + e
  <2>1. Extras'[r] = e /\ \A s \in Uncollected : Extras'[s] = Extras[s]
    BY <1>1, <1>3 DEF Extras
  <2>2. IsFiniteSet(Uncollected) /\ Travelling = Tokens(Uncollected, Extras)
    BY CreditTypes
  <2>3. Travelling' = Tokens(Uncollected', Extras')
    BY DEF Travelling, Tokens, Extras, Uncollected, TypeOK, MemoryTypes
  <2>4. /\ IsFiniteSet(Uncollected) /\ r \notin Uncollected
        /\ \A x : x \in Uncollected' <=> x \in Uncollected \/ x = r
        /\ \A x \in Uncollected : Extras'[x] = Extras[x]
        /\ Extras'[r] \in 0 .. MaxGrant
    BY <1>1, <1>3, <2>1, <2>2
  <2>5. /\ Cardinality(Tokens(Uncollected, Extras)) \in Nat
        /\ Cardinality(Tokens(Uncollected', Extras'))
             = Cardinality(Tokens(Uncollected, Extras)) + Extras'[r]
    BY ONLY <2>4, TokensAdd
  <2> QED BY <2>1, <2>2, <2>3, <2>5
<1>6. /\ hostCredits \in Nat /\ Cardinality(waiting) \in Nat /\ credits \in Nat
      /\ e \in Int
  BY <1>3, CreditTypes DEF TypeOK, PortTypes, DriverTypes, MaxGrant
<1>7. Total = hostCredits + Cardinality(waiting) + Cardinality(Travelling) + e + credits
  BY DEF Total, e
<1>8. Total' = hostCredits + Cardinality(waiting) + (Cardinality(Travelling) + e) + 0 + credits
  BY <1>2, <1>5 DEF Total
<1> QED BY <1>4, <1>5, <1>6, <1>7, <1>8

\* The driver takes the credits of the message it collects.
LEMMA CreditsCollect ==
    ASSUME CommandInv, CommandInv', CreditsCarried, up, ~Tape, CollectMessage
    PROVE  CreditsCarried' /\ Total' = Total
<1> USE DEF CommandInv, RingInv
<1>0. PICK h : h = host.rsp
  OBVIOUS
<1>1. /\ h \in Uncollected /\ h \notin Uncollected'
      /\ \A s : s \in Uncollected <=> s \in Uncollected' \/ s = h
      /\ \A s \in RspIndex : s # h => rspRing'[s] = rspRing[s]
      /\ Uncollected \subseteq RspIndex
  BY <1>0, CollectEffect DEF Uncollected, TypeOK, MemoryTypes
<1> DEFINE m == rspRing[h].msg
<1>2. /\ waiting' = IF m.kind = "end" THEN waiting \ {m.id} ELSE waiting
      /\ hostCredits' = hostCredits + m.cr /\ credits' = credits
      /\ pc' = pc /\ reply' = reply
  BY <1>0 DEF CollectMessage, poll, port
<1>3. InReply' = InReply
  BY <1>2 DEF InReply
<1>4. CreditsCarried'
  BY <1>1, <1>2, <1>3 DEF CreditsCarried
<1>5. Extra(m) \in 0 .. MaxGrant /\ m \in Messages
  BY <1>1, ExtraTypes DEF Uncollected, TypeOK, MemoryTypes
<1>6. /\ Cardinality(waiting') \in Nat /\ Cardinality(waiting) \in Nat
      /\ Cardinality(waiting) + Extra(m) = Cardinality(waiting') + m.cr
  <2>1. IsFiniteSet(waiting) /\ Cardinality(waiting) \in Nat
    BY CreditTypes
  <2>2. CASE m.kind = "end"
    <3>1. m.id \in waiting
      BY <1>1, <2>2 DEF AnswersWait, Answers, Id
    <3>2. /\ IsFiniteSet(waiting \ {m.id})
          /\ Cardinality(waiting \ {m.id}) = Cardinality(waiting) - 1
      BY <2>1, <3>1, FS_RemoveElement
    <3>3. Cardinality(waiting \ {m.id}) \in Nat
      BY <3>2, FS_CardinalityType
    <3>4. Extra(m) = m.cr - 1 /\ m.cr \in Int
      BY <1>5, <2>2 DEF Extra, Messages
    <3> HIDE DEF m
    <3> QED BY <1>2, <2>1, <2>2, <3>2, <3>3, <3>4
  <2>3. CASE m.kind # "end"
    <3>1. Extra(m) = 0 /\ m.cr = 0
      BY <1>1, <2>3 DEF Extra, CreditsCarried
    <3> HIDE DEF m
    <3> QED BY <1>2, <2>1, <2>3, <3>1
  <2> QED BY <2>2, <2>3
<1>7. /\ Cardinality(Travelling') \in Nat
      /\ Cardinality(Travelling) = Cardinality(Travelling') + Extra(m)
  <2>1. Extras[h] = Extra(m) /\ \A s \in Uncollected' : Extras[s] = Extras'[s]
    BY <1>1 DEF Extras
  <2>2. IsFiniteSet(Uncollected) /\ Travelling = Tokens(Uncollected, Extras)
    BY CreditTypes
  <2>3. Travelling' = Tokens(Uncollected', Extras')
    BY DEF Travelling, Tokens, Extras, Uncollected, TypeOK, MemoryTypes
  <2>4. IsFiniteSet(Uncollected')
    <3>1. Uncollected' \in SUBSET Uncollected
      BY <1>1
    <3> QED BY <2>2, <3>1, FS_Subset
  <2>5. /\ IsFiniteSet(Uncollected') /\ h \notin Uncollected'
        /\ \A x : x \in Uncollected <=> x \in Uncollected' \/ x = h
        /\ \A x \in Uncollected' : Extras[x] = Extras'[x]
        /\ Extras[h] \in 0 .. MaxGrant
    BY <1>1, <1>5, <2>1, <2>4
  <2>6. /\ Cardinality(Tokens(Uncollected', Extras')) \in Nat
        /\ Cardinality(Tokens(Uncollected, Extras))
             = Cardinality(Tokens(Uncollected', Extras')) + Extras[h]
    BY ONLY <2>5, TokensAdd
  <2> QED BY <2>1, <2>2, <2>3, <2>6
<1> DEFINE e == IF InReply THEN Extra(reply) ELSE 0
<1>8. /\ hostCredits \in Nat /\ credits \in Nat /\ m.cr \in Int /\ Extra(m) \in Int
      /\ e \in Int
  <2>1. hostCredits \in Nat /\ credits \in Nat
    BY DEF TypeOK, PortTypes, DriverTypes
  <2>2. m.cr \in Int /\ Extra(m) \in Int /\ reply.cr \in Int
    BY <1>5 DEF Messages, MaxGrant, TypeOK, PollTypes
  <2>3. e \in Int
    BY <2>2 DEF Extra
  <2> QED BY <2>1, <2>2, <2>3
<1>9. Total = hostCredits + Cardinality(waiting) + Cardinality(Travelling) + e + credits
  BY DEF Total
<1>10. Total' = (hostCredits + m.cr) + Cardinality(waiting') + Cardinality(Travelling')
                  + e + credits
  BY <1>2, <1>3 DEF Total
<1> HIDE DEF m, e
<1> QED BY <1>4, <1>6, <1>7, <1>8, <1>9, <1>10

\* The driver pays a credit for a command.
LEMMA CreditsPost ==
    ASSUME CommandInv, CreditsCarried, up, ~Tape, NEW op, NEW unit, PostCommand(op, unit)
    PROVE  CreditsCarried' /\ Total' = Total
<1> USE DEF CommandInv, RingInv
<1>1. /\ up' = up /\ rspRing' = rspRing /\ credits' = credits /\ pc' = pc /\ reply' = reply
      /\ hostCredits' = hostCredits - 1 /\ waiting' = waiting \cup {posted'}
      /\ posted' \notin waiting
  BY DEF PostCommand, TypeOK, DriverTypes, port, poll
<1>2. Uncollected' = Uncollected /\ InReply' = InReply
  BY <1>1 DEF Uncollected, InReply
<1>3. Travelling' = Travelling
  BY <1>1, <1>2 DEF Travelling
<1>4. CreditsCarried'
  BY <1>1, <1>2 DEF CreditsCarried
<1>5. /\ Cardinality(waiting) \in Nat
      /\ Cardinality(waiting \cup {posted'}) = Cardinality(waiting) + 1
  BY <1>1, CreditTypes, FS_AddElement
<1> DEFINE e == Cardinality(Travelling) + (IF InReply THEN Extra(reply) ELSE 0) + credits
<1>6. hostCredits \in Nat
  BY DEF TypeOK, DriverTypes
<1>7. Total' = Total
  <2>1. /\ Total = hostCredits + Cardinality(waiting) + Cardinality(Travelling)
                    + (IF InReply THEN Extra(reply) ELSE 0) + credits
        /\ Total' = (hostCredits - 1) + (Cardinality(waiting) + 1) + Cardinality(Travelling)
                     + (IF InReply THEN Extra(reply) ELSE 0) + credits
    BY <1>1, <1>2, <1>3, <1>5 DEF Total
  <2>2. (hostCredits - 1) + (Cardinality(waiting) + 1) = hostCredits + Cardinality(waiting)
    BY <1>5, <1>6
  <2> QED BY <2>1, <2>2
<1> QED BY <1>4, <1>7

\* The steps that move no credit.
LEMMA CreditsAside ==
    ASSUME CommandInv, CreditsCarried, up,
           \/ ReadIp \/ StartPoll \/ PollAttention \/ PollPeekCommand \/ PollPeekResponse
           \/ PollReleaseCommand \/ PollNotify \/ PollStop \/ TakeInterrupt
           \/ LeaveInterrupt \/ UNCHANGED vars
    PROVE  CreditsCarried' /\ Total' = Total
<1> USE DEF CommandInv, RingInv
<1>1. /\ up' = up /\ rspRing' = rspRing /\ waiting' = waiting /\ hostCredits' = hostCredits
      /\ credits' = credits
  <2>1. ReadIp => memory' = memory
    BY DEF ReadIp, Started
  <2> QED BY <2>1
      DEF ReadIp, StartPoll, PollAttention, PollPeekCommand, PollPeekResponse,
          PollReleaseCommand, PollNotify, PollStop, TakeInterrupt, LeaveInterrupt, vars, port,
          memory, driver
<1>2. InReply' = InReply /\ (InReply => reply' = reply)
  <2>1. CASE pc' = pc /\ reply' = reply
    BY <2>1 DEF InReply
  <2>2. CASE PollReleaseCommand
    <3>1. InReply /\ InReply' /\ reply' = reply
      BY <2>2 DEF PollReleaseCommand, InReply
    <3> QED BY <3>1 DEF InReply
  <2>3. CASE StartPoll \/ PollAttention \/ PollPeekCommand \/ PollPeekResponse \/ PollNotify
               \/ PollStop
    <3>1. ~InReply /\ ~InReply'
      BY <2>3 DEF StartPoll, PollAttention, PollPeekCommand, PollPeekResponse, PollNotify,
                  PollStop, InReply
    <3> QED BY <3>1 DEF InReply
  <2> QED BY <2>1, <2>2, <2>3 DEF ReadIp, TakeInterrupt, LeaveInterrupt, vars, poll
<1> QED BY <1>1, <1>2, CreditsStill

\* The invariant of credits goes on holding on a disk port.
LEMMA CreditNext ==
    ASSUME Quiet, ~Tape, CommandInv, CommandInv', CreditsCarried, CreditsConserved, [Next]_vars
    PROVE  CreditsCarried' /\ CreditsConserved'
<1> USE DEF CommandInv, RingInv
<1>1. CASE ~up'
  <2>1. Uncollected' = {} /\ ~InReply'
    BY <1>1 DEF Uncollected, PollsWhenUp, InReply
  <2>2. state' # "UP"
    BY <1>1 DEF Started
  <2> QED BY <2>1, <2>2 DEF CreditsCarried, CreditsConserved
<1>2. CASE ~up /\ up'
  <2>1. PICK v \in SaWords : WriteSa(v) /\ state = "S4"
    BY <1>2, DownSteps DEF Next, vars, driver
  <2>2. /\ hostCredits' = 1 /\ waiting' = {} /\ credits' = FirstCredits /\ ~InReply'
        /\ rspRing' = [s \in DOMAIN rspRing |-> Returned]
    BY <1>2, <2>1 DEF WriteSa, Started, PollsWhenUp, poll, InReply
  <2>3. Uncollected' = {}
    BY <2>2 DEF Uncollected, Returned
  <2>4. Travelling' = {}
    BY <2>3 DEF Travelling
  <2>5. Cardinality({}) = 0
    BY FS_EmptySet
  <2>6. CreditsConserved'
    BY <2>2, <2>4, <2>5 DEF CreditsConserved, FirstCredits
  <2> QED BY <2>2, <2>3, <2>6 DEF CreditsCarried
<1>3. CASE up /\ up'
  <2>1. CreditsCarried' /\ (state' = "UP" => Total' = Total)
    <3>1. ~WriteIp /\ \A v \in SaWords : ~WriteSa(v)
      BY <1>3, StillSteps DEF WriteIp
    <3>2. ASSUME NEW op \in Ops, NEW unit \in Units, PostCommand(op, unit)
          PROVE  CreditsCarried' /\ Total' = Total
      BY <1>3, <3>2, CreditsPost
    <3>3. CASE CollectMessage
      BY <1>3, <3>3, CreditsCollect
    <3>4. CASE PollExecute
      BY <1>3, <3>4, CreditsExecute
    <3>5. CASE PollReleaseResponse \/ PollPostAttention
      BY <1>3, <3>5, CreditsMessage
    <3> QED BY <1>3, <3>1, <3>2, <3>3, <3>4, <3>5, CreditsAside DEF Next, PollStep
  <2>2. /\ CreditsConserved <=> (state = "UP" => Total = FirstCredits + 1)
        /\ CreditsConserved' <=> (state' = "UP" => Total' = FirstCredits + 1)
    BY DEF CreditsConserved, Total
  <2>3. state' = "UP" => state = "UP"
    BY <1>3, UpStates DEF Started
  <2> QED BY <2>1, <2>2, <2>3
<1>4. up \in BOOLEAN /\ up' \in BOOLEAN
  BY DEF TypeOK, DriverTypes
<1> QED BY <1>1, <1>2, <1>3, <1>4

\* On a disk port no credit is lost and none is made: the driver's, one for each command
\* that waits, those in answers and the port's own are always those of the start.
THEOREM CreditsAlways ==
    ASSUME Quiet
    PROVE  Spec => []CreditsConserved
<1>1. CASE Tape
  <2>1. CreditsConserved
    BY <1>1 DEF CreditsConserved
  <2> QED BY <2>1, PTL
<1>2. CASE ~Tape
  <2>1. Init => CreditInv
    <3>1. Init => state = "S1" /\ pc = "idle" /\ Uncollected = {}
      BY DEF Init, Uncollected
    <3> QED BY <3>1, CommandInit DEF CreditInv, CreditsCarried, CreditsConserved, InReply
  <2>2. CreditInv /\ [Next]_vars => CreditInv'
    BY <1>2, CommandNext, CreditNext DEF CreditInv
  <2>3. CreditInv => CreditsConserved
    BY DEF CreditInv
  <2> QED BY <2>1, <2>2, <2>3, PTL DEF Spec
<1>3. Tape \in BOOLEAN
  BY FlagsAssumption
<1> QED BY <1>1, <1>2, <1>3

-----------------------------------------------------------------------------
(* The port implements CommandPort. *)

CmdRefs == [s \in DOMAIN cmdRing |-> cmdRing[s].cmd.ref]
RspMessages == [s \in DOMAIN rspRing |-> [kind |-> rspRing[s].msg.kind, id |-> rspRing[s].msg.id]]
Seen == [kind : {"none", "end", "una"}, id : Nat]

\* The values that the two runs are made of.
LEMMA ValuedRings ==
    ASSUME TypeOK
    PROVE  Valued(CmdSlots, Nat, CmdRefs) /\ Valued(RspSlots, Seen, RspMessages)
<1>1. Valued(CmdSlots, Nat, CmdRefs)
  BY BoundAssumption DEF TypeOK, MemoryTypes, Packets, CmdIndex, Valued, CmdRefs
<1>2. Valued(RspSlots, Seen, RspMessages)
  BY DEF TypeOK, MemoryTypes, Messages, RspIndex, Valued, RspMessages, Seen
<1> QED BY <1>1, <1>2

CmdRun == Run(ring.cmd, CmdSlots, Posted, CmdRefs)
RspRun == Run(host.rsp, RspSlots, Uncollected, RspMessages)

\* The queues of the promise are the runs of the two rings and the reply under way.
LEMMA Queues ==
    /\ Inbox = (IF pc = "relRsp" THEN <<reply.id>> ELSE <<>>) \o CmdRun
    /\ Outbox = RspRun
  BY DEF Inbox, Outbox, CmdRun, RspRun, CmdRefs, RspMessages

\* A run through no slots is empty.
LEMMA RunNone ==
    ASSUME NEW size \in Nat \ {0}, NEW i \in 0 .. size - 1, NEW f
    PROVE  Run(i, size, {}, f) = <<>>
<1>1. 0 \in 0 .. size /\ \A k \in 0 .. size - 1 : Place(i, k, size) \in {} <=> k < 0
  OBVIOUS
<1>2. RunLength(i, size, {}) = 0
  BY <1>1, WindowLength
<1> QED BY <1>2 DEF Run

\* A sequence behind one element.
LEMMA ConsHeadTail ==
    ASSUME NEW V, NEW a \in V, NEW s \in Seq(V)
    PROVE  /\ <<a>> \o s # <<>> /\ Head(<<a>> \o s) = a /\ Tail(<<a>> \o s) = s
<1> DEFINE q == <<a>> \o s
<1>1. <<a>> \in Seq(V) /\ Len(<<a>>) = 1 /\ <<a>>[1] = a
  OBVIOUS
<1>2. /\ q \in Seq(V) /\ Len(q) = 1 + Len(s) /\ Len(s) \in Nat
      /\ \A i \in 1 .. 1 + Len(s) : q[i] = IF i <= 1 THEN <<a>>[i] ELSE s[i - 1]
  BY <1>1, ConcatProperties
<1> HIDE DEF q
<1>3. q # <<>> /\ Head(q) = q[1]
  BY <1>2
<1>4. q[1] = a
  BY <1>1, <1>2
<1>5. /\ Tail(q) \in Seq(V) /\ Len(Tail(q)) = Len(s)
      /\ \A i \in 1 .. Len(s) : Tail(q)[i] = q[i + 1]
  BY <1>2, <1>3, HeadTailProperties
<1>6. ASSUME NEW i \in 1 .. Len(s) PROVE Tail(q)[i] = s[i]
  <2>1. i + 1 \in 1 .. 1 + Len(s) /\ ~(i + 1 <= 1) /\ (i + 1) - 1 = i
    BY <1>2
  <2> QED BY <1>2, <1>5, <2>1
<1>7. Tail(q) = s
  BY <1>5, <1>6, SeqEqual
<1> QED BY <1>3, <1>4, <1>7 DEF q

\* A sequence is its first element and the rest.
LEMMA HeadConsTail ==
    ASSUME NEW V, NEW s \in Seq(V), s # <<>>
    PROVE  <<Head(s)>> \o Tail(s) = s
<1> DEFINE a == Head(s)
           t == Tail(s)
<1>1. /\ a \in V /\ t \in Seq(V) /\ Len(t) = Len(s) - 1 /\ a = s[1]
      /\ \A i \in 1 .. Len(t) : t[i] = s[i + 1]
  BY HeadTailProperties
<1>2. Len(s) \in Nat
  OBVIOUS
<1> HIDE DEF a, t
<1>3. <<a>> \in Seq(V) /\ Len(<<a>>) = 1 /\ <<a>>[1] = a
  BY <1>1
<1>4. /\ <<a>> \o t \in Seq(V) /\ Len(<<a>> \o t) = 1 + Len(t)
      /\ \A i \in 1 .. 1 + Len(t) : (<<a>> \o t)[i] = IF i <= 1 THEN <<a>>[i] ELSE t[i - 1]
  BY <1>1, <1>3, ConcatProperties
<1>5. ASSUME NEW i \in 1 .. Len(s) PROVE (<<a>> \o t)[i] = s[i]
  <2>1. i \in 1 .. 1 + Len(t)
    BY <1>1, <1>2
  <2>2. CASE i = 1
    BY <1>1, <1>3, <1>4, <2>1, <2>2
  <2>3. CASE i # 1
    <3>1. i - 1 \in 1 .. Len(t) /\ ~(i <= 1) /\ (i - 1) + 1 = i
      BY <1>1, <1>2, <2>3
    <3> QED BY <1>1, <1>4, <2>1, <3>1
  <2> QED BY <2>2, <2>3
<1> DEFINE q == <<a>> \o t
<1>6. q \in Seq(V) /\ Len(q) = Len(s) /\ \A i \in 1 .. Len(q) : q[i] = s[i]
  <2>1. Len(q) = Len(s)
    BY <1>1, <1>2, <1>4
  <2> QED BY <1>4, <1>5, <2>1
<1> HIDE DEF q
<1>7. q = s
  BY <1>6, SeqEqual
<1> QED BY <1>7 DEF q, a, t

\* Adding an element behind a sequence, before or after putting one in front of it.
LEMMA ConsAppend ==
    ASSUME NEW V, NEW a \in V, NEW s \in Seq(V), NEW b \in V
    PROVE  <<a>> \o Append(s, b) = Append(<<a>> \o s, b)
<1>1. <<a>> \in Seq(V) /\ <<b>> \in Seq(V) /\ <<a>> \o s \in Seq(V)
  OBVIOUS
<1>2. Append(s, b) = s \o <<b>> /\ Append(<<a>> \o s, b) = (<<a>> \o s) \o <<b>>
  BY <1>1, AppendIsConcat
<1>3. (<<a>> \o s) \o <<b>> = <<a>> \o (s \o <<b>>)
  BY <1>1, ConcatAssociative
<1> QED BY <1>2, <1>3

\* The types of the queues while the port is started.
LEMMA RunTypes ==
    ASSUME RingInv, up
    PROVE  CmdRun \in Seq(Nat) /\ RspRun \in Seq(Seen)
<1>1. /\ Ring(ring.cmd, host.cmd, CmdSlots, Posted)
      /\ Ring(host.rsp, ring.rsp, RspSlots, Uncollected)
      /\ Valued(CmdSlots, Nat, CmdRefs) /\ Valued(RspSlots, Seen, RspMessages)
  BY ValuedRings DEF RingInv, Windows
<1>2. CmdRun \in Seq(Nat)
  BY <1>1, RunTyped DEF CmdRun
<1>3. RspRun \in Seq(Seen)
  BY <1>1, RunTyped DEF RspRun
<1> QED BY <1>2, <1>3

\* A port that is not started has empty queues, and so has one that has just been.
LEMMA EmptyQueues ==
    ASSUME TypeOK, pc # "relRsp", Posted = {}, Uncollected = {}
    PROVE  Inbox = <<>> /\ Outbox = <<>>
<1>1. /\ CmdSlots \in Nat \ {0} /\ RspSlots \in Nat \ {0}
      /\ ring.cmd \in 0 .. CmdSlots - 1 /\ host.rsp \in 0 .. RspSlots - 1
  BY RingAssumption DEF TypeOK, PortTypes, DriverTypes, CmdIndex, RspIndex
<1>2. CmdRun = <<>> /\ RspRun = <<>>
  BY <1>1, RunNone DEF CmdRun, RspRun
<1> QED BY <1>2, Queues

\* Leaving the rings alone leaves the queues alone.
LEMMA StillQueues ==
    ASSUME Still
    PROVE  CmdRun' = CmdRun /\ RspRun' = RspRun
  BY DEF Still, CmdRun, RspRun, Posted, Uncollected, CmdRefs, RspMessages

\* Posting a command puts it at the end of the inbox.
LEMMA PostQueues ==
    ASSUME CommandInv, CommandInv', NEW op, NEW unit, PostCommand(op, unit)
    PROVE  /\ CmdRun' = Append(CmdRun, posted') /\ RspRun' = RspRun
           /\ posted' \in 1 .. MaxCmds
<1> USE DEF CommandInv, RingInv
<1>0. PICK h : h = host.cmd
  OBVIOUS
<1>1. /\ up /\ ring' = ring /\ h \in CmdIndex /\ h \notin Posted
      /\ \A s : s \in Posted' <=> s \in Posted \/ s = h
      /\ \A s \in CmdIndex : s # h => cmdRing'[s] = cmdRing[s]
      /\ cmdRing'[h].cmd.ref = posted'
      /\ Uncollected' = Uncollected /\ rspRing' = rspRing /\ host'.rsp = host.rsp
  BY <1>0, PostEffect
<1>2. /\ Ring(ring.cmd, h, CmdSlots, Posted)
      /\ Valued(CmdSlots, Nat, CmdRefs) /\ Valued(CmdSlots, Nat, CmdRefs')
      /\ \A s \in 0 .. CmdSlots - 1 : s \in Posted => CmdRefs'[s] = CmdRefs[s]
  <2>1. \A s \in 0 .. CmdSlots - 1 : s \in Posted => CmdRefs'[s] = CmdRefs[s]
    BY <1>1 DEF CmdRefs, TypeOK, MemoryTypes, CmdIndex
  <2>2. Valued(CmdSlots, Nat, CmdRefs')
    BY BoundAssumption DEF TypeOK, MemoryTypes, Packets, CmdIndex, Valued, CmdRefs
  <2> QED BY <1>0, <1>1, <2>1, <2>2, ValuedRings DEF Windows
<1>3. Run(ring.cmd, CmdSlots, Posted', CmdRefs')
        = Append(Run(ring.cmd, CmdSlots, Posted, CmdRefs), CmdRefs'[h])
  BY ONLY <1>1, <1>2, RunAdd
<1>4. CmdRefs'[h] = posted'
  BY <1>1 DEF CmdRefs, TypeOK, MemoryTypes
<1>5. CmdRun' = Append(CmdRun, posted')
  BY <1>1, <1>3, <1>4 DEF CmdRun
<1>6. RspRun' = RspRun
  BY <1>1 DEF RspRun, RspMessages
<1>7. posted' \in 1 .. MaxCmds
  BY BoundAssumption DEF PostCommand, TypeOK, DriverTypes
<1> QED BY <1>5, <1>6, <1>7

\* Collecting a message takes it from the front of the outbox.
LEMMA CollectQueues ==
    ASSUME CommandInv, CommandInv', CollectMessage
    PROVE  /\ CmdRun' = CmdRun /\ RspRun # <<>> /\ RspRun' = Tail(RspRun)
<1> USE DEF CommandInv, RingInv
<1>0. PICK h : h = host.rsp
  OBVIOUS
<1>1. /\ up /\ ring' = ring /\ h \in Uncollected
      /\ \A s : s \in Uncollected' <=> s \in Uncollected /\ s # h
      /\ host'.rsp = Place(h, 1, RspSlots)
      /\ \A s \in RspIndex : s # h => rspRing'[s] = rspRing[s]
      /\ Posted' = Posted /\ cmdRing' = cmdRing
  BY <1>0, CollectEffect
<1>2. /\ Ring(h, ring.rsp, RspSlots, Uncollected)
      /\ Valued(RspSlots, Seen, RspMessages) /\ Valued(RspSlots, Seen, RspMessages')
      /\ \A s \in 0 .. RspSlots - 1 : s \in Uncollected' => RspMessages'[s] = RspMessages[s]
  <2>1. \A s \in 0 .. RspSlots - 1 : s \in Uncollected' => RspMessages'[s] = RspMessages[s]
    BY <1>1 DEF RspMessages, TypeOK, MemoryTypes, RspIndex
  <2>2. Valued(RspSlots, Seen, RspMessages')
    BY DEF TypeOK, MemoryTypes, Messages, RspIndex, Valued, RspMessages, Seen
  <2> QED BY <1>0, <1>1, <2>1, <2>2, ValuedRings DEF Windows
<1>3. /\ Run(h, RspSlots, Uncollected, RspMessages) # <<>>
      /\ Head(Run(h, RspSlots, Uncollected, RspMessages)) = RspMessages[h]
      /\ Tail(Run(h, RspSlots, Uncollected, RspMessages))
           = Run(Place(h, 1, RspSlots), RspSlots, Uncollected', RspMessages')
  <2>1. h \in Uncollected
        /\ Rest(RspSlots, Uncollected, h, Uncollected', RspMessages, RspMessages')
    BY <1>1, <1>2 DEF Rest
  <2> QED BY ONLY <1>2, <2>1, RunRemove
<1>4. RspRun # <<>> /\ RspRun' = Tail(RspRun)
  BY <1>0, <1>1, <1>3 DEF RspRun
<1>5. CmdRun' = CmdRun
  BY <1>1 DEF CmdRun, CmdRefs
<1> QED BY <1>4, <1>5

\* The port takes a command from the front of its ring; the reply is for that command.
LEMMA ReleaseQueues ==
    ASSUME CommandInv, CommandInv', PollReleaseCommand
    PROVE  /\ RspRun' = RspRun /\ CmdRun # <<>> /\ CmdRun' = Tail(CmdRun)
           /\ Head(CmdRun) = reply.id
<1> USE DEF CommandInv, RingInv
<1>0. PICK h : h = ring.cmd
  OBVIOUS
<1>1. /\ up /\ host' = host /\ h \in Posted
      /\ \A s : s \in Posted' <=> s \in Posted /\ s # h
      /\ ring'.cmd = Place(h, 1, CmdSlots)
      /\ \A s \in CmdIndex : s # h => cmdRing'[s] = cmdRing[s]
      /\ Uncollected' = Uncollected /\ rspRing' = rspRing
  BY <1>0, ReleaseEffect
<1>2. /\ Ring(h, host.cmd, CmdSlots, Posted)
      /\ Valued(CmdSlots, Nat, CmdRefs) /\ Valued(CmdSlots, Nat, CmdRefs')
      /\ \A s \in 0 .. CmdSlots - 1 : s \in Posted' => CmdRefs'[s] = CmdRefs[s]
  <2>1. \A s \in 0 .. CmdSlots - 1 : s \in Posted' => CmdRefs'[s] = CmdRefs[s]
    BY <1>1 DEF CmdRefs, TypeOK, MemoryTypes, CmdIndex
  <2>2. Valued(CmdSlots, Nat, CmdRefs')
    BY BoundAssumption DEF TypeOK, MemoryTypes, Packets, CmdIndex, Valued, CmdRefs
  <2> QED BY <1>0, <1>1, <2>1, <2>2, ValuedRings DEF Windows
<1>3. /\ Run(h, CmdSlots, Posted, CmdRefs) # <<>>
      /\ Head(Run(h, CmdSlots, Posted, CmdRefs)) = CmdRefs[h]
      /\ Tail(Run(h, CmdSlots, Posted, CmdRefs))
           = Run(Place(h, 1, CmdSlots), CmdSlots, Posted', CmdRefs')
  <2>1. h \in Posted /\ Rest(CmdSlots, Posted, h, Posted', CmdRefs, CmdRefs')
    BY <1>1, <1>2 DEF Rest
  <2> QED BY ONLY <1>2, <2>1, RunRemove
<1>4. CmdRefs[h] = reply.id
  <2>1. reply.id = Ref(ring.cmd)
    BY DEF PollReleaseCommand, ReplyWaits
  <2> QED BY <1>0, <1>1, <2>1 DEF CmdRefs, Ref, Posted
<1>5. CmdRun # <<>> /\ CmdRun' = Tail(CmdRun) /\ Head(CmdRun) = reply.id
  BY <1>0, <1>1, <1>3, <1>4 DEF CmdRun
<1>6. RspRun' = RspRun
  BY <1>1 DEF RspRun, RspMessages
<1> QED BY <1>5, <1>6

\* The port puts a message at the end of the outbox.
LEMMA MessageQueues ==
    ASSUME CommandInv, CommandInv', PollReleaseResponse \/ PollPostAttention
    PROVE  /\ CmdRun' = CmdRun
           /\ RspRun' = Append(RspRun, IF PollReleaseResponse
                                       THEN [kind |-> "end", id |-> reply.id]
                                       ELSE [kind |-> "una", id |-> held.unit])
<1> USE DEF CommandInv, RingInv
<1>0. PICK h : h = ring.rsp
  OBVIOUS
<1>1. /\ up /\ host' = host /\ h \in RspIndex /\ h \notin Uncollected
      /\ \A s : s \in Uncollected' <=> s \in Uncollected \/ s = h
      /\ \A s \in RspIndex : s # h => rspRing'[s] = rspRing[s]
      /\ rspRing'[h].msg = IF PollReleaseResponse THEN reply ELSE Attention(held.unit)
      /\ Posted' = Posted /\ cmdRing' = cmdRing /\ ring'.cmd = ring.cmd
  BY <1>0, MessageEffect
<1>2. /\ Ring(host.rsp, h, RspSlots, Uncollected)
      /\ Valued(RspSlots, Seen, RspMessages) /\ Valued(RspSlots, Seen, RspMessages')
      /\ \A s \in 0 .. RspSlots - 1 : s \in Uncollected => RspMessages'[s] = RspMessages[s]
  <2>1. \A s \in 0 .. RspSlots - 1 : s \in Uncollected => RspMessages'[s] = RspMessages[s]
    BY <1>1 DEF RspMessages, TypeOK, MemoryTypes, RspIndex
  <2>2. Valued(RspSlots, Seen, RspMessages')
    BY DEF TypeOK, MemoryTypes, Messages, RspIndex, Valued, RspMessages, Seen
  <2> QED BY <1>0, <1>1, <2>1, <2>2, ValuedRings DEF Windows
<1>3. Run(host.rsp, RspSlots, Uncollected', RspMessages')
        = Append(Run(host.rsp, RspSlots, Uncollected, RspMessages), RspMessages'[h])
  BY ONLY <1>1, <1>2, RunAdd
<1>4. RspMessages'[h] = [kind |-> rspRing'[h].msg.kind, id |-> rspRing'[h].msg.id]
  BY <1>1 DEF RspMessages, TypeOK, MemoryTypes
<1>5. RspMessages'[h] = IF PollReleaseResponse THEN [kind |-> "end", id |-> reply.id]
                        ELSE [kind |-> "una", id |-> held.unit]
  <2>1. CASE PollReleaseResponse
    <3>1. reply.kind = "end"
      BY <2>1 DEF PollReleaseResponse, ReplyWaits
    <3> QED BY <1>1, <1>4, <2>1, <3>1
  <2>2. CASE ~PollReleaseResponse
    BY <1>1, <1>4, <2>2 DEF Attention
  <2> QED BY <2>1, <2>2
<1>6. CmdRun' = CmdRun
  BY <1>1 DEF CmdRun, CmdRefs
<1> QED BY <1>1, <1>3, <1>5, <1>6 DEF RspRun

\* The queue of commands: the one whose reply is under way, then those in the ring.
LEMMA Inboxes ==
    /\ pc # "relRsp" /\ CmdRun \in Seq(Nat) => Inbox = CmdRun
    /\ pc = "relRsp" => Inbox = <<reply.id>> \o CmdRun
<1>1. ASSUME CmdRun \in Seq(Nat) PROVE <<>> \o CmdRun = CmdRun
  BY <1>1, ConcatEmptySeq
<1> QED BY <1>1, Queues

\* What the last lemmas say of a state holds of the next one too.
QueueFacts ==
    /\ Inbox = (IF pc = "relRsp" THEN <<reply.id>> ELSE <<>>) \o CmdRun
    /\ Outbox = RspRun
    /\ pc # "relRsp" /\ CmdRun \in Seq(Nat) => Inbox = CmdRun
    /\ pc = "relRsp" => Inbox = <<reply.id>> \o CmdRun
    /\ RingInv /\ up => CmdRun \in Seq(Nat) /\ RspRun \in Seq(Seen)
    /\ TypeOK /\ pc # "relRsp" /\ Posted = {} /\ Uncollected = {} =>
         Inbox = <<>> /\ Outbox = <<>>

LEMMA QueuesNow == QueueFacts
  BY Queues, Inboxes, RunTypes, EmptyQueues DEF QueueFacts

LEMMA QueuesLater == QueueFacts'
  BY QueuesNow, PTL

\* A step that leaves the runs alone, and does not take a command up or answer it,
\* leaves both queues alone.
LEMMA StillPromise ==
    ASSUME CmdRun' = CmdRun, RspRun' = RspRun,
           pc = "relRsp" <=> pc' = "relRsp", pc = "relRsp" => reply' = reply
    PROVE  UNCHANGED <<Inbox, Outbox>>
  BY QueuesNow, QueuesLater DEF QueueFacts

\* Every step of a port that is started, and stays so, is one of the promise.
LEMMA PromiseUp ==
    ASSUME CommandInv, CommandInv', up, up', Next
    PROVE  Promise!Next \/ UNCHANGED <<Inbox, Outbox>>
<1> USE DEF CommandInv, RingInv
<1>0. CmdRun \in Seq(Nat) /\ RspRun \in Seq(Seen) /\ CmdRun' \in Seq(Nat) /\ RspRun' \in Seq(Seen)
  BY QueuesNow, QueuesLater DEF QueueFacts
<1>1. ASSUME NEW op \in Ops, NEW unit \in Units, PostCommand(op, unit)
      PROVE  Promise!Post(posted') /\ posted' \in 1 .. MaxCmds
  <2>1. CmdRun' = Append(CmdRun, posted') /\ RspRun' = RspRun /\ posted' \in 1 .. MaxCmds
    BY <1>1, PostQueues
  <2>2. pc' = pc /\ reply' = reply
    BY <1>1 DEF PostCommand, poll
  <2>3. Inbox' = Append(Inbox, posted')
    <3>1. CASE pc # "relRsp"
      BY <1>0, <2>1, <2>2, <3>1, QueuesNow, QueuesLater DEF QueueFacts
    <3>2. CASE pc = "relRsp"
      <4>1. reply.id \in Nat /\ posted' \in Nat
        BY <2>1 DEF TypeOK, PollTypes, Messages
      <4>2. <<reply.id>> \o Append(CmdRun, posted') = Append(<<reply.id>> \o CmdRun, posted')
        BY <1>0, <4>1, ConsAppend
      <4> QED BY <2>1, <2>2, <3>2, <4>2, QueuesNow, QueuesLater DEF QueueFacts
    <3> QED BY <3>1, <3>2
  <2>4. Outbox' = Outbox
    BY <2>1, QueuesNow, QueuesLater DEF QueueFacts
  <2> QED BY <2>1, <2>3, <2>4 DEF Promise!Post
<1>2. ASSUME CollectMessage PROVE Promise!Collect
  <2>1. CmdRun' = CmdRun /\ RspRun # <<>> /\ RspRun' = Tail(RspRun)
    BY <1>2, CollectQueues
  <2>2. pc' = pc /\ reply' = reply
    BY <1>2 DEF CollectMessage, poll
  <2> QED BY <2>1, <2>2, QueuesNow, QueuesLater DEF QueueFacts, Promise!Collect
<1>3. ASSUME PollReleaseCommand PROVE UNCHANGED <<Inbox, Outbox>>
  <2>1. /\ RspRun' = RspRun /\ CmdRun # <<>> /\ CmdRun' = Tail(CmdRun)
        /\ Head(CmdRun) = reply.id
    BY <1>3, ReleaseQueues
  <2>2. pc = "relCmd" /\ pc' = "relRsp" /\ reply' = reply
    BY <1>3 DEF PollReleaseCommand
  <2>3. <<Head(CmdRun)>> \o Tail(CmdRun) = CmdRun
    BY <1>0, <2>1, HeadConsTail
  <2>4. Inbox' = Inbox
    BY <1>0, <2>1, <2>2, <2>3, QueuesNow, QueuesLater DEF QueueFacts
  <2> QED BY <2>1, <2>4, QueuesNow, QueuesLater DEF QueueFacts
<1>4. ASSUME PollReleaseResponse PROVE Promise!Answer
  <2>1. CmdRun' = CmdRun /\ RspRun' = Append(RspRun, [kind |-> "end", id |-> reply.id])
    BY <1>4, MessageQueues
  <2>2. pc = "relRsp" /\ pc' = "notify" /\ reply.id \in Nat
    BY <1>4 DEF PollReleaseResponse, TypeOK, PollTypes, Messages
  <2>3. Inbox = <<reply.id>> \o CmdRun /\ Inbox' = CmdRun
    BY <1>0, <2>1, <2>2, QueuesNow, QueuesLater DEF QueueFacts
  <2>4. Inbox # <<>> /\ Head(Inbox) = reply.id /\ Tail(Inbox) = CmdRun
    BY <1>0, <2>2, <2>3, ConsHeadTail
  <2> QED BY <2>1, <2>3, <2>4, QueuesNow, QueuesLater DEF QueueFacts, Promise!Answer
<1>5. ASSUME PollPostAttention PROVE Promise!Attention(held.unit) /\ held.unit \in Units
  <2>1. pc = "post" /\ pc' = "una"
    BY <1>5 DEF PollPostAttention
  <2>2. CmdRun' = CmdRun /\ RspRun' = Append(RspRun, [kind |-> "una", id |-> held.unit])
    <3>1. ~PollReleaseResponse
      BY <2>1 DEF PollReleaseResponse
    <3> QED BY <1>5, <3>1, MessageQueues
  <2>3. Inbox' = Inbox
    BY <1>0, <2>1, <2>2, QueuesNow, QueuesLater DEF QueueFacts
  <2>4. held.unit \in Units
    BY <2>1 DEF HoldsUnit
  <2> QED BY <2>2, <2>3, <2>4, QueuesNow, QueuesLater DEF QueueFacts, Promise!Attention
<1>6. ASSUME \/ ReadIp \/ StartPoll \/ PollAttention \/ PollPeekCommand \/ PollPeekResponse
             \/ PollExecute \/ PollNotify \/ PollStop \/ TakeInterrupt \/ LeaveInterrupt
      PROVE  UNCHANGED <<Inbox, Outbox>>
  <2>1. Still
    BY <1>6, StillSteps
  <2>2. (pc = "relRsp" <=> pc' = "relRsp") /\ (pc = "relRsp" => reply' = reply)
    BY <1>6 DEF ReadIp, StartPoll, PollAttention, PollPeekCommand, PollPeekResponse,
                PollExecute, PollNotify, PollStop, TakeInterrupt, LeaveInterrupt, poll
  <2> QED BY <2>1, <2>2, StillQueues, StillPromise
<1>7. ~WriteIp /\ \A v \in SaWords : ~WriteSa(v)
  BY StillSteps DEF WriteIp
<1> QED BY <1>1, <1>2, <1>3, <1>4, <1>5, <1>6, <1>7 DEF Next, PollStep, Promise!Next

\* Every step of a port whose invariant holds is one of the promise.
LEMMA PromiseNext ==
    ASSUME CommandInv, CommandInv', [Next]_vars
    PROVE  [Promise!Next]_<<Inbox, Outbox>>
<1> USE DEF CommandInv, RingInv
<1>1. CASE UNCHANGED vars
  <2>1. Still /\ pc' = pc /\ reply' = reply
    BY <1>1 DEF vars, port, poll, memory, driver, Still
  <2> QED BY <2>1, StillQueues, StillPromise
<1>2. CASE Next /\ up /\ up'
  BY <1>2, PromiseUp
<1>3. ASSUME ~up \/ ~up', Next PROVE Inbox' = <<>> /\ Outbox' = <<>>
  <2>1. pc' # "relRsp" /\ Posted' = {} /\ Uncollected' = {}
    <3>1. CASE ~up'
      BY <3>1 DEF PollsWhenUp, Posted, Uncollected
    <3>2. CASE ~up /\ up'
      <4>1. PICK v \in SaWords : WriteSa(v) /\ state = "S4"
        BY <1>3, <3>2, DownSteps DEF Next
      <4>2. /\ rspRing' = [s \in DOMAIN rspRing |-> Returned] /\ cmdRing' = cmdRing
            /\ pc' = "idle"
        BY <3>2, <4>1 DEF WriteSa, PollsWhenUp, poll
      <4> QED BY <4>1, <4>2 DEF Posted, Uncollected, Returned, Fresh, TypeOK, MemoryTypes
    <3> QED BY <1>3, <3>1, <3>2 DEF TypeOK, DriverTypes
  <2>2. TypeOK'
    OBVIOUS
  <2> QED BY <2>1, <2>2, QueuesNow, QueuesLater DEF QueueFacts
<1> QED BY <1>1, <1>2, <1>3 DEF Promise!Next, Promise!Reset

\* The port implements CommandPort: with the queues read off its rings, it answers the
\* commands one at a time, in their order and each once, and its messages reach the
\* driver in the order in which it sent them.
THEOREM PortImplements ==
    ASSUME Quiet
    PROVE  Spec => ImplementsCommandPort
<1>1. Init => Promise!Init
  <2> SUFFICES ASSUME Init PROVE Promise!Init
    OBVIOUS
  <2>1. TypeOK /\ pc # "relRsp" /\ Posted = {} /\ Uncollected = {}
    BY TypesInit DEF Init, Posted, Uncollected
  <2> QED BY <2>1, QueuesNow, QueuesLater DEF QueueFacts, Promise!Init
<1>2. Init => CommandInv
  BY CommandInit
<1>3. CommandInv /\ [Next]_vars => CommandInv'
  BY CommandNext
<1>4. CommandInv /\ CommandInv' /\ [Next]_vars => [Promise!Next]_<<Inbox, Outbox>>
  BY PromiseNext
<1> QED BY <1>1, <1>2, <1>3, <1>4, PTL
    DEF Spec, ImplementsCommandPort, Promise!Spec, Promise!portVars

=============================================================================
