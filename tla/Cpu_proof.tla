------------------------------ MODULE Cpu_proof ------------------------------
(***************************************************************************)
(* Theorems about an instruction of the J-11: what every step leaves,      *)
(* whatever the program runs, whatever accesses are refused and whenever   *)
(* the devices ask.                                                        *)
(*                                                                         *)
(* A step is a chain of operators on a machine, and the lemmas go along    *)
(* that chain.  Those in -Parts and those on Entered say what an operator  *)
(* changes; those in -Runs and -Whole say that it keeps Running or Whole,  *)
(* which compare the machine with the one, s, that the step began at;      *)
(* those in -Tidy, -Going and -Unwound that it can still be undone from    *)
(* MMR1 when an access is refused; those in -Ends say what an action       *)
(* leaves.                                                                 *)
(***************************************************************************)
EXTENDS Cpu, NumberLemmas, FiniteSetTheorems, SequenceTheorems, TLAPS

\* What the register file may hold: HandlerPc is no word, and in the PC only.
Registers == {f \in [Regs -> 0 .. WordSize] : \A k \in {0, 1, 6} : f[k] \in Words}

\* What the register sets may hold.
Sets == [{0, 1} -> [{0, 1} -> Words]]

\* The fields that the proofs are about.
Fields(x) ==
    /\ "r" \in DOMAIN x /\ "psw" \in DOMAIN x /\ "sp" \in DOMAIN x /\ "spInit" \in DOMAIN x
    /\ "bank" \in DOMAIN x /\ "abort" \in DOMAIN x /\ "yellow" \in DOMAIN x
    /\ "frozen" \in DOMAIN x /\ "mmr1" \in DOMAIN x /\ "irq" \in DOMAIN x
    /\ "kind" \in DOMAIN x /\ "value" \in DOMAIN x /\ "did" \in DOMAIN x
    /\ "frame" \in DOMAIN x /\ "acked" \in DOMAIN x /\ "taken" \in DOMAIN x

Typed(x) ==
    /\ Fields(x)
    /\ x.r \in Registers /\ x.psw \in Psws /\ x.sp \in [Modes -> Words]
    /\ x.spInit \in BOOLEAN /\ (x.bank = NoBank \/ x.bank \in Sets)
    /\ x.irq \subseteq Levels /\ x.value \in Words /\ x.abort \in BOOLEAN

\* Everything but the PSW and what it selects is the same.
Beside(x, y) ==
    /\ y.abort = x.abort /\ y.yellow = x.yellow /\ y.frozen = x.frozen /\ y.mmr1 = x.mmr1
    /\ y.irq = x.irq /\ y.kind = x.kind /\ y.value = x.value /\ y.did = x.did
    /\ y.frame = x.frame /\ y.acked = x.acked /\ y.taken = x.taken

LEMMA WordFacts ==
    /\ WordSize \in Nat /\ WordSize > 8
    /\ Words \subseteq 0 .. WordSize /\ \A w \in Words : w \in Int /\ w # WordSize
    /\ 0 \in Words /\ 2 \in Words /\ 4 \in Words
BY CpuAssumption DEF Words, YellowLimit

LEMMA WordType ==
    ASSUME NEW n \in Int
    PROVE  Word(n) \in Words /\ Word(n) \in 0 .. WordSize
<1>1. n % WordSize \in 0 .. WordSize - 1
  BY WordFacts
<1>2. Word(n) \in Words
  BY <1>1 DEF Word, Words
<1>. QED BY <1>2, WordFacts

LEMMA SpInitParts ==
    ASSUME NEW x, Typed(x)
    PROVE  /\ Typed(SpInit(x)) /\ Beside(x, SpInit(x))
           /\ SpInit(x).r = x.r /\ SpInit(x).psw = x.psw /\ SpInit(x).bank = x.bank
           /\ SpInit(x).spInit
           /\ \A k \in Modes : SpInit(x).sp[k] = IF x.spInit THEN x.sp[k] ELSE x.r[6]
<1>1. CASE x.spInit
      BY <1>1 DEF SpInit, Beside
<1>2. CASE ~x.spInit
  <2>. DEFINE g == [k \in Modes |-> x.r[6]]
  <2>1. g \in [Modes -> Words] /\ \A k \in Modes : g[k] = x.r[6]
    BY DEF Typed, Registers
  <2>. HIDE DEF g
  <2>2. SpInit(x) = [x EXCEPT !.spInit = TRUE, !.sp = g]
    BY <1>2 DEF SpInit, g
  <2>3. Fields(SpInit(x)) /\ Beside(x, SpInit(x)) /\ SpInit(x).r = x.r /\ SpInit(x).psw = x.psw
        /\ SpInit(x).bank = x.bank /\ SpInit(x).spInit = TRUE /\ SpInit(x).sp = g
    BY <2>2 DEF Typed, Fields, Beside
  <2> QED BY <1>2, <2>1, <2>3 DEF Typed, Beside
<1>. QED BY <1>1, <1>2 

LEMMA SwitchStackParts ==
    ASSUME NEW x, Typed(x), NEW new \in Psws
    PROVE  LET y == SwitchStack(x, new)
           IN  /\ Typed(y) /\ Beside(x, y) /\ y.psw = x.psw /\ y.bank = x.bank
               /\ \A k \in Regs \ {6} : y.r[k] = x.r[k]
               /\ x.spInit \/ x.psw.cur # new.cur => y.spInit
               /\ \A k \in Modes : (IF new.cur = k \/ ~y.spInit THEN y.r[6] ELSE y.sp[k])
                                   = StackPointer(x, k)
<1>. DEFINE y == SwitchStack(x, new)
<1>1. CASE x.psw.cur = new.cur
  <2>1. y = x
    BY <1>1 DEF SwitchStack
  <2> QED BY <1>1, <2>1 DEF Beside, StackPointer
<1>2. CASE x.psw.cur # new.cur
  <2>. DEFINE i == SpInit(x)
              g == [i.sp EXCEPT ![x.psw.cur] = x.r[6]]
              h == [i.r EXCEPT ![6] = g[new.cur]]
  <2>1. Typed(i) /\ Beside(x, i) /\ i.r = x.r /\ i.psw = x.psw /\ i.bank = x.bank
        /\ i.spInit /\ \A k \in Modes : i.sp[k] = IF x.spInit THEN x.sp[k] ELSE x.r[6]
    BY SpInitParts
  <2>3. x.r[6] \in Words /\ x.psw.cur \in Modes /\ new.cur \in Modes
    BY DEF Typed, Registers, Psws
  <2>. HIDE DEF i
  <2>4. g \in [Modes -> Words] /\ \A k \in Modes : g[k] = IF k = x.psw.cur THEN x.r[6] ELSE i.sp[k]
    BY <2>1, <2>3 DEF Typed
  <2>. HIDE DEF g
  <2>5. h \in Registers /\ h[6] = g[new.cur] /\ \A k \in Regs \ {6} : h[k] = i.r[k]
    <3>1. i.r \in [Regs -> 0 .. WordSize] /\ i.r[0] \in Words /\ i.r[1] \in Words
          /\ g[new.cur] \in Words
      BY <2>1, <2>3, <2>4 DEF Typed, Registers
    <3>2. Words \subseteq 0 .. WordSize
      BY WordFacts
    <3> QED BY <3>1, <3>2 DEF Registers, Regs
  <2>. HIDE DEF h
  <2>6. y = [[i EXCEPT !.sp = g] EXCEPT !.r = h]
    <3>1. [i EXCEPT !.sp[x.psw.cur] = x.r[6]] = [i EXCEPT !.sp = g]
      BY DEF g
    <3>2. [i EXCEPT !.sp = g].sp = g /\ [i EXCEPT !.sp = g].r = i.r
      BY <2>1 DEF Typed, Fields
    <3> QED BY <1>2, <3>1, <3>2 DEF SwitchStack, i, h
  <2>. HIDE DEF y
  <2>7. Fields(y) /\ Beside(i, y) /\ y.r = h /\ y.sp = g /\ y.psw = i.psw
        /\ y.bank = i.bank /\ y.spInit = i.spInit
    BY <2>1, <2>6 DEF Typed, Fields, Beside
  <2>8. Typed(y) /\ Beside(x, y)
    BY <2>1, <2>4, <2>5, <2>7 DEF Typed, Beside
  <2>9. ASSUME NEW k \in Modes
        PROVE  (IF new.cur = k \/ ~y.spInit THEN y.r[6] ELSE y.sp[k]) = StackPointer(x, k)
    <3>1. (IF new.cur = k \/ ~y.spInit THEN y.r[6] ELSE y.sp[k]) = g[k]
      BY <2>1, <2>5, <2>7
    <3>2. g[k] = StackPointer(x, k)
      BY <2>1, <2>4 DEF StackPointer
    <3> QED BY <3>1, <3>2
  <2> QED BY <2>1, <2>5, <2>7, <2>8, <2>9 DEF y
<1>. QED BY <1>1, <1>2

\* The register sets as the first switch finds or makes them.
LEMMA BanksParts ==
    ASSUME NEW x, Typed(x)
    PROVE  /\ Banks(x) \in Sets
           /\ \A st \in {0, 1}, k \in {0, 1} :
                 Banks(x)[st][k] = IF x.bank = NoBank THEN x.r[k] ELSE x.bank[st][k]
<1>1. CASE x.bank = NoBank
  <2>. DEFINE e == [k \in {0, 1} |-> x.r[k]]
              g == [st \in {0, 1} |-> e]
  <2>1. e \in [{0, 1} -> Words] /\ \A k \in {0, 1} : e[k] = x.r[k]
    BY DEF Typed, Registers
  <2>2. Banks(x) = g
    BY <1>1 DEF Banks
  <2>. HIDE DEF e
  <2>3. g \in Sets /\ \A st \in {0, 1} : g[st] = e
    BY <2>1 DEF Sets
  <2>. HIDE DEF g
  <2> QED BY <1>1, <2>1, <2>2, <2>3
<1>2. CASE x.bank # NoBank
  <2>1. Banks(x) = x.bank
    BY <1>2 DEF Banks
  <2> QED BY <1>2, <2>1 DEF Typed
<1>. QED BY <1>1, <1>2

LEMMA SetsMade == ASSUME NEW g \in Sets PROVE g # NoBank
<1>1. DOMAIN g = {0, 1}
  BY DEF Sets
<1>2. DOMAIN NoBank = 1 .. 0
  BY DEF NoBank
<1>. QED BY <1>1, <1>2

\* The registers and the stack pointers that a PSW selects may change places, and nothing
\* else does.
Selected(x, y) ==
    /\ \A k \in Modes : StackPointer(y, k) = StackPointer(x, k)
    /\ \A st \in {0, 1}, k \in {0, 1} : SetRegister(y, st, k) = SetRegister(x, st, k)
    /\ y.r[7] = x.r[7] /\ (x.spInit \/ x.psw.cur # y.psw.cur => y.spInit)

LEMMA SetPswParts ==
    ASSUME NEW x, Typed(x), NEW new \in Psws
    PROVE  LET y == SetPsw(x, new)
           IN  Typed(y) /\ Beside(x, y) /\ y.psw = new /\ Selected(x, y)
<1>. DEFINE i == SwitchStack(x, new)
            w == SwitchSet(i, new)
            y == SetPsw(x, new)
<1>1. /\ Typed(i) /\ Beside(x, i) /\ i.psw = x.psw /\ i.bank = x.bank
      /\ \A k \in Regs \ {6} : i.r[k] = x.r[k]
      /\ x.spInit \/ x.psw.cur # new.cur => i.spInit
      /\ \A k \in Modes : (IF new.cur = k \/ ~i.spInit THEN i.r[6] ELSE i.sp[k])
                          = StackPointer(x, k)
  BY SwitchStackParts
<1>. HIDE DEF i
<1>2. x.psw.set \in {0, 1} /\ new.set \in {0, 1} /\ x.psw \in Psws
  BY DEF Typed, Psws
<1>3. /\ Typed(w) /\ Beside(i, w) /\ w.psw = i.psw /\ w.spInit = i.spInit /\ w.sp = i.sp
      /\ w.r[6] = i.r[6] /\ w.r[7] = i.r[7]
      /\ \A st \in {0, 1}, k \in {0, 1} :
            (IF new.set = st \/ w.bank = NoBank THEN w.r[k] ELSE w.bank[st][k]) = SetRegister(x, st, k)
  <2>1. CASE x.psw.set = new.set
    <3>1. w = i
      BY <1>1, <2>1 DEF SwitchSet
    <3>2. \A st \in {0, 1}, k \in {0, 1} :
            (IF new.set = st \/ w.bank = NoBank THEN w.r[k] ELSE w.bank[st][k]) = SetRegister(x, st, k)
      BY <1>1, <2>1, <3>1 DEF SetRegister, Regs
    <3> QED BY <1>1, <3>1, <3>2 DEF Beside
  <2>2. CASE x.psw.set # new.set
    <3>. DEFINE bank == Banks(i)
                g == [bank EXCEPT ![x.psw.set] = [k \in {0, 1} |-> i.r[k]]]
                h == [k \in Regs |-> IF k \in {0, 1} THEN bank[new.set][k] ELSE i.r[k]]
    <3>1. w = [i EXCEPT !.bank = g, !.r = h]
      BY <1>1, <2>2 DEF SwitchSet
    <3>2. /\ bank \in Sets
          /\ \A st \in {0, 1}, k \in {0, 1} :
                bank[st][k] = IF i.bank = NoBank THEN i.r[k] ELSE i.bank[st][k]
      BY <1>1, BanksParts
    <3>. HIDE DEF bank
    <3>3. /\ g \in Sets
          /\ \A st \in {0, 1}, k \in {0, 1} :
                g[st][k] = IF st = x.psw.set THEN i.r[k] ELSE bank[st][k]
      <4>. DEFINE e == [k \in {0, 1} |-> i.r[k]]
      <4>1. e \in [{0, 1} -> Words] /\ \A k \in {0, 1} : e[k] = i.r[k]
        BY <1>1 DEF Typed, Registers
      <4>. HIDE DEF e
      <4> QED BY <1>2, <3>2, <4>1 DEF Sets
    <3>4. /\ h \in Registers /\ h[6] = i.r[6] /\ h[7] = i.r[7]
          /\ \A k \in {0, 1} : h[k] = bank[new.set][k]
      <4>1. Words \subseteq 0 .. WordSize
        BY WordFacts
      <4>2. i.r \in [Regs -> 0 .. WordSize] /\ i.r[6] \in Words
            /\ \A k \in {0, 1} : bank[new.set][k] \in Words
        BY <1>1, <1>2, <3>2 DEF Typed, Registers, Sets
      <4>3. \A k \in Regs : h[k] = IF k \in {0, 1} THEN bank[new.set][k] ELSE i.r[k]
        OBVIOUS
      <4>4. h \in [Regs -> 0 .. WordSize]
        BY <4>1, <4>2
      <4>. HIDE DEF h
      <4> QED BY <4>2, <4>3, <4>4 DEF Registers, Regs
    <3>. HIDE DEF g, h, w
    <3>5. /\ Fields(w) /\ Beside(i, w) /\ w.psw = i.psw /\ w.spInit = i.spInit
          /\ w.sp = i.sp /\ w.r = h /\ w.bank = g
      BY <1>1, <3>1 DEF Typed, Fields, Beside
    <3>6. Typed(w)
      BY <1>1, <3>3, <3>4, <3>5 DEF Typed, Beside
    <3>7. w.bank # NoBank
      BY <3>3, <3>5, SetsMade
    <3>8. ASSUME NEW st \in {0, 1}, NEW k \in {0, 1}
          PROVE  (IF new.set = st \/ w.bank = NoBank THEN w.r[k] ELSE w.bank[st][k]) = SetRegister(x, st, k)
      <4>1. k \in Regs \ {6}
        BY DEF Regs
      <4>2. i.r[k] = x.r[k] /\ i.bank = x.bank
        BY <1>1, <4>1
      <4> QED BY <1>2, <2>2, <3>2, <3>3, <3>4, <3>5, <3>7, <4>2 DEF SetRegister
    <3> QED BY <3>4, <3>5, <3>6, <3>8 DEF w
  <2> QED BY <2>1, <2>2
<1>. HIDE DEF w
<1>4. y = [w EXCEPT !.psw = new]
  BY DEF SetPsw, w, i
<1>. HIDE DEF y
<1>5. /\ Fields(y) /\ Beside(w, y) /\ y.psw = new /\ y.spInit = w.spInit
      /\ y.sp = w.sp /\ y.r = w.r /\ y.bank = w.bank
  BY <1>3, <1>4 DEF Typed, Fields, Beside
<1>6. Typed(y)
  BY <1>3, <1>5 DEF Typed, Beside
<1>7. Beside(x, y)
  BY <1>1, <1>3, <1>5 DEF Beside
<1>8. ASSUME NEW k \in Modes PROVE StackPointer(y, k) = StackPointer(x, k)
  BY <1>1, <1>3, <1>5 DEF StackPointer
<1>9. ASSUME NEW st \in {0, 1}, NEW k \in {0, 1} PROVE SetRegister(y, st, k) = SetRegister(x, st, k)
  <2>1. SetRegister(y, st, k) = IF new.set = st \/ w.bank = NoBank THEN w.r[k] ELSE w.bank[st][k]
    BY <1>5 DEF SetRegister
  <2> QED BY <1>3, <2>1
<1>10. y.r[7] = x.r[7] /\ (x.spInit \/ x.psw.cur # y.psw.cur => y.spInit)
  BY <1>1, <1>3, <1>5 DEF Regs
<1>. QED BY <1>5, <1>6, <1>7, <1>8, <1>9, <1>10 DEF Selected, y

-----------------------------------------------------------------------------
(* Registers and pushes.                                                   *)

LEMMA RegisterFacts ==
    ASSUME NEW f \in Registers
    PROVE  /\ \A k \in Regs : f[k] \in 0 .. WordSize /\ f[k] \in Int
           /\ f[0] \in Words /\ f[1] \in Words /\ f[6] \in Words
BY WordFacts DEF Registers

\* A register set to a word.
LEMMA RegisterSet ==
    ASSUME NEW f \in Registers, NEW k \in Regs, NEW v \in 0 .. WordSize, v \in Words \/ k = 7
    PROVE  LET g == [f EXCEPT ![k] = v]
           IN  g \in Registers /\ g[k] = v /\ \A j \in Regs \ {k} : g[j] = f[j]
BY DEF Registers, Regs

\* Everything but the registers is the same.
Around(x, y) ==
    /\ Beside(x, y) /\ y.psw = x.psw /\ y.bank = x.bank /\ y.sp = x.sp /\ y.spInit = x.spInit

LEMMA RegistersPut ==
    ASSUME NEW x, Typed(x), NEW f \in Registers
    PROVE  LET y == [x EXCEPT !.r = f] IN Typed(y) /\ y.r = f /\ Around(x, y)
<1>. DEFINE y == [x EXCEPT !.r = f]
<1>1. Fields(y) /\ y.r = f /\ Around(x, y)
  BY DEF Typed, Fields, Around, Beside
<1>. HIDE DEF y
<1>2. Typed(y)
  BY <1>1 DEF Typed, Around, Beside
<1>. QED BY <1>1, <1>2 DEF y

\* NoteStack leaves y, equal to x but for the note.
Noting(x, y) ==
    /\ Typed(y) /\ y.r = x.r /\ y.psw = x.psw /\ y.bank = x.bank /\ y.sp = x.sp
    /\ y.spInit = x.spInit
    /\ y.abort = x.abort /\ y.frozen = x.frozen /\ y.mmr1 = x.mmr1
    /\ y.irq = x.irq /\ y.kind = x.kind /\ y.value = x.value
    /\ y.frame = x.frame /\ y.acked = x.acked /\ y.taken = x.taken
    /\ \/ y.yellow = x.yellow /\ y.did = x.did
       \/ y.yellow = TRUE /\ y.did = x.did \cup {"yellow"}

LEMMA NoteParts ==
    ASSUME NEW x, Typed(x)
    PROVE  Noting(x, NoteStack(x))
<1>1. CASE NoteStack(x) = x
  BY <1>1 DEF Noting
<1>2. CASE NoteStack(x) = [x EXCEPT !.yellow = TRUE, !.did = @ \cup {"yellow"}]
  <2>. DEFINE y == NoteStack(x)
              d == x.did \cup {"yellow"}
  <2>1. y = [x EXCEPT !.yellow = TRUE, !.did = d]
    BY <1>2
  <2>. HIDE DEF y, d
  <2>2. Fields(y) /\ y.yellow = TRUE /\ y.did = d
        /\ y.r = x.r /\ y.psw = x.psw /\ y.bank = x.bank /\ y.sp = x.sp
        /\ y.spInit = x.spInit
        /\ y.abort = x.abort /\ y.frozen = x.frozen /\ y.mmr1 = x.mmr1
        /\ y.irq = x.irq /\ y.kind = x.kind /\ y.value = x.value
        /\ y.frame = x.frame /\ y.acked = x.acked /\ y.taken = x.taken
    BY <2>1 DEF Typed, Fields
  <2>3. Typed(y)
    BY <2>2 DEF Typed
  <2> QED BY <2>2, <2>3 DEF Noting, y, d
<1>. DEFINE P == ~x.inStackTrap /\ Kernel(x.psw) /\ x.r[6] < YellowLimit
<1>3. NoteStack(x) = IF P THEN [x EXCEPT !.yellow = TRUE, !.did = @ \cup {"yellow"}] ELSE x
  BY DEF NoteStack
<1>. HIDE DEF P
<1>. QED BY <1>1, <1>2, <1>3

LEMMA StackMoved ==
    ASSUME NEW x, Typed(x)
    PROVE  LET y == [x EXCEPT !.r[6] = Word(@ - 2)]
           IN  /\ Typed(y) /\ Around(x, y) /\ y.r[6] = Word(x.r[6] - 2)
               /\ \A k \in Regs \ {6} : y.r[k] = x.r[k]
<1>. DEFINE f == [x.r EXCEPT ![6] = Word(x.r[6] - 2)]
            y == [x EXCEPT !.r[6] = Word(@ - 2)]
<1>1. x.r \in Registers /\ x.r[6] \in Int
  BY RegisterFacts DEF Typed, Regs
<1>2. Word(x.r[6] - 2) \in Words /\ Word(x.r[6] - 2) \in 0 .. WordSize
  <2>1. x.r[6] - 2 \in Int
    BY <1>1
  <2> QED BY <2>1, WordType
<1>3. f \in Registers /\ f[6] = Word(x.r[6] - 2) /\ \A k \in Regs \ {6} : f[k] = x.r[k]
  BY <1>1, <1>2, RegisterSet DEF Regs
<1>4. y = [x EXCEPT !.r = f]
  OBVIOUS
<1>. HIDE DEF f, y
<1>5. Typed(y) /\ y.r = f /\ Around(x, y)
  BY <1>3, <1>4, RegistersPut
<1>. QED BY <1>3, <1>5 DEF y

\* A word of a frame goes to the kernel stack.
Pushed(x, y) ==
    /\ Typed(y) /\ y.r[6] = Word(x.r[6] - 2) /\ \A k \in Regs \ {6} : y.r[k] = x.r[k]
    /\ y.psw = x.psw /\ y.bank = x.bank /\ y.sp = x.sp /\ y.spInit = x.spInit
    /\ y.abort = x.abort /\ y.frozen = x.frozen /\ y.mmr1 = x.mmr1
    /\ y.irq = x.irq /\ y.kind = x.kind /\ y.value = x.value
    /\ y.frame = x.frame /\ y.acked = x.acked /\ y.taken = x.taken
    /\ \/ y.yellow = x.yellow /\ y.did = x.did
       \/ y.yellow = TRUE /\ y.did = x.did \cup {"yellow"}

\* Neither the number of an access nor what refuses it is any concern of the rest.
LEMMA CountParts ==
    ASSUME NEW x, Typed(x), NEW n
    PROVE  LET y == [x EXCEPT !.accesses = n]
           IN  Typed(y) /\ Around(x, y) /\ y.r = x.r
<1>. DEFINE y == [x EXCEPT !.accesses = n]
<1>1. Fields(y) /\ Around(x, y) /\ y.r = x.r
  BY DEF Typed, Fields, Around, Beside
<1>. HIDE DEF y
<1>2. Typed(y)
  BY <1>1 DEF Typed, Around, Beside
<1>. QED BY <1>1, <1>2 DEF y

\* A push before its access.
LEMMA PushParts ==
    ASSUME NEW x, Typed(x)
    PROVE  Pushed(x, NoteStack([x EXCEPT !.r[6] = Word(@ - 2)]))
<1>. DEFINE a == [x EXCEPT !.r[6] = Word(@ - 2)]
            b == NoteStack(a)
<1>1. /\ Typed(a) /\ Around(x, a) /\ a.r[6] = Word(x.r[6] - 2)
      /\ \A k \in Regs \ {6} : a.r[k] = x.r[k]
  BY StackMoved
<1>. HIDE DEF a
<1>2. Noting(a, b)
  BY <1>1, NoteParts
<1>. HIDE DEF b
<1>3. Pushed(x, b)
  BY <1>1, <1>2 DEF Noting, Pushed, Around, Beside
<1>. QED BY <1>3 DEF a, b

\* The stack abort: the machine enters the kernel with its frame at location 0.
Reddened(x, y, pc, psw) ==
    /\ Typed(y) /\ y.psw = TrapPsw(psw, 7) /\ y.r[7] = HandlerPc /\ y.abort = TRUE
    /\ y.did = x.did \cup {"red"} /\ y.frame = [pc |-> pc, psw |-> psw, at |-> 0]
    /\ \A st \in {0, 1}, k \in {0, 1} : SetRegister(y, st, k) = SetRegister(x, st, k)
    /\ y.spInit /\ (x.spInit => \A k \in Modes \ {0} : StackPointer(y, k) = StackPointer(x, k))
    /\ y.frozen = x.frozen /\ y.mmr1 = x.mmr1 /\ y.irq = x.irq /\ y.kind = x.kind
    /\ y.value = x.value /\ y.acked = x.acked /\ y.taken = x.taken

LEMMA TrapPswType ==
    ASSUME NEW p \in Psws, NEW l \in 0 .. 7
    PROVE  TrapPsw(p, l) \in Psws /\ TrapPsw(p, l).cur = 0
BY DEF TrapPsw, Psws, Modes

LEMMA RedParts ==
    ASSUME NEW x, Typed(x), NEW pc \in 0 .. WordSize, NEW psw \in Psws
    PROVE  Reddened(x, Red(x, pc, psw), pc, psw)
<1>. DEFINE d == x.did \cup {"red"}
            a == [x EXCEPT !.yellow = FALSE, !.did = d]
            b == SetPsw(a, psw)
            c == [b EXCEPT !.r[7] = pc]
            e == SetPsw(c, TrapPsw(psw, 7))
            i == SpInit(e)
            y == Red(x, pc, psw)
<1>0. 7 \in 0 .. 7
  OBVIOUS
<1>1. TrapPsw(psw, 7) \in Psws /\ TrapPsw(psw, 7).cur = 0
  BY <1>0, TrapPswType
<1>2. /\ Typed(a) /\ a.did = d /\ a.abort = x.abort /\ a.r = x.r /\ a.psw = x.psw /\ a.sp = x.sp /\ a.bank = x.bank
      /\ a.spInit = x.spInit /\ a.frozen = x.frozen /\ a.mmr1 = x.mmr1 /\ a.irq = x.irq
      /\ a.kind = x.kind /\ a.value = x.value /\ a.acked = x.acked /\ a.taken = x.taken
  <2>1. /\ Fields(a) /\ a.did = d /\ a.abort = x.abort /\ a.r = x.r /\ a.psw = x.psw /\ a.sp = x.sp /\ a.bank = x.bank
        /\ a.spInit = x.spInit /\ a.frozen = x.frozen /\ a.mmr1 = x.mmr1 /\ a.irq = x.irq
        /\ a.kind = x.kind /\ a.value = x.value /\ a.acked = x.acked /\ a.taken = x.taken
    BY DEF Typed, Fields
  <2>. HIDE DEF a
  <2> QED BY <2>1 DEF Typed
<1>. HIDE DEF d, a
<1>3. Typed(b) /\ Beside(a, b) /\ b.psw = psw /\ Selected(a, b)
  BY <1>2, SetPswParts
<1>. HIDE DEF b
<1>4. /\ Typed(c) /\ Around(b, c) /\ c.r[7] = pc /\ \A k \in Regs \ {7} : c.r[k] = b.r[k]
  <2>. DEFINE f == [b.r EXCEPT ![7] = pc]
  <2>1. f \in Registers /\ f[7] = pc /\ \A k \in Regs \ {7} : f[k] = b.r[k]
    BY <1>3, RegisterSet DEF Typed, Regs
  <2>2. c = [b EXCEPT !.r = f]
    OBVIOUS
  <2>. HIDE DEF f, c
  <2>3. Typed(c) /\ c.r = f /\ Around(b, c)
    BY <1>3, <2>1, <2>2, RegistersPut
  <2> QED BY <2>1, <2>3
<1>. HIDE DEF c
<1>5. Typed(e) /\ Beside(c, e) /\ e.psw = TrapPsw(psw, 7) /\ Selected(c, e)
  BY <1>1, <1>4, SetPswParts
<1>. HIDE DEF e
<1>6. /\ Typed(i) /\ Beside(e, i) /\ i.r = e.r /\ i.psw = e.psw /\ i.bank = e.bank
      /\ i.spInit /\ \A k \in Modes : i.sp[k] = IF e.spInit THEN e.sp[k] ELSE e.r[6]
  BY <1>5, SpInitParts
<1>. HIDE DEF i
<1>. DEFINE g == [i.sp EXCEPT ![0] = 4]
            f == [[i.r EXCEPT ![6] = 0] EXCEPT ![7] = HandlerPc]
            frame == [pc |-> pc, psw |-> psw, at |-> 0]
<1>7. y = [i EXCEPT !.sp = g, !.r = f, !.abort = TRUE, !.frame = frame]
  BY DEF Red, i, e, c, b, a, d
<1>8. g \in [Modes -> Words] /\ \A k \in Modes \ {0} : g[k] = i.sp[k]
  BY <1>6, WordFacts DEF Typed, Modes
<1>9. f \in Registers /\ f[7] = HandlerPc /\ f[6] = 0 /\ \A k \in Regs \ {6, 7} : f[k] = i.r[k]
  BY <1>6, WordFacts DEF Typed, Registers, Regs, HandlerPc
<1>. HIDE DEF y, f, g, frame
<1>10. /\ Fields(y) /\ y.psw = i.psw /\ y.sp = g /\ y.r = f /\ y.abort = TRUE /\ y.frame = frame
       /\ y.did = i.did /\ y.spInit = i.spInit /\ y.bank = i.bank
       /\ y.frozen = i.frozen /\ y.mmr1 = i.mmr1 /\ y.irq = i.irq /\ y.kind = i.kind
       /\ y.value = i.value /\ y.acked = i.acked /\ y.taken = i.taken
  BY <1>6, <1>7 DEF Typed, Fields
<1>11. Typed(y)
  BY <1>6, <1>8, <1>9, <1>10 DEF Typed
<1>12. /\ y.did = d /\ y.frozen = x.frozen /\ y.mmr1 = x.mmr1 /\ y.irq = x.irq /\ y.kind = x.kind
       /\ y.value = x.value /\ y.acked = x.acked /\ y.taken = x.taken
  BY <1>2, <1>3, <1>4, <1>5, <1>6, <1>10 DEF Beside, Around
<1>13. ASSUME NEW st \in {0, 1}, NEW k \in {0, 1}
       PROVE  SetRegister(y, st, k) = SetRegister(x, st, k)
  <2>0. k \in Regs \ {6, 7}
    BY DEF Regs
  <2>1. SetRegister(a, st, k) = SetRegister(x, st, k)
    BY <1>2 DEF SetRegister
  <2>2. SetRegister(b, st, k) = SetRegister(a, st, k)
    BY <1>3 DEF Selected
  <2>3. SetRegister(c, st, k) = SetRegister(b, st, k)
    BY <1>4, <2>0 DEF SetRegister, Around
  <2>4. SetRegister(e, st, k) = SetRegister(c, st, k)
    BY <1>5 DEF Selected
  <2>5. SetRegister(y, st, k) = SetRegister(e, st, k)
    BY <1>6, <1>9, <1>10, <2>0 DEF SetRegister
  <2> QED BY <2>1, <2>2, <2>3, <2>4, <2>5
<1>14. ASSUME x.spInit, NEW k \in Modes \ {0} PROVE StackPointer(y, k) = StackPointer(x, k)
  <2>1. StackPointer(a, k) = StackPointer(x, k)
    BY <1>2 DEF StackPointer
  <2>2. StackPointer(b, k) = StackPointer(a, k) /\ b.spInit
    BY <1>2, <1>3, <1>14 DEF Selected
  <2>3. StackPointer(c, k) = StackPointer(b, k) /\ c.spInit
    BY <1>4, <2>2 DEF StackPointer, Around, Regs
  <2>4. StackPointer(e, k) = StackPointer(c, k) /\ e.spInit
    BY <1>5, <2>3 DEF Selected
  <2>5. StackPointer(y, k) = StackPointer(e, k)
    BY <1>1, <1>5, <1>6, <1>8, <1>10, <2>4 DEF StackPointer
  <2> QED BY <2>1, <2>2, <2>3, <2>4, <2>5
<1>15. y.psw = TrapPsw(psw, 7) /\ y.r[7] = HandlerPc /\ y.abort = TRUE /\ y.spInit
  BY <1>5, <1>6, <1>9, <1>10
<1>. QED BY <1>10, <1>11, <1>12, <1>13, <1>14, <1>15 DEF Reddened, d, frame, y

LEMMA PushFrameParts ==
    ASSUME NEW x, Typed(x), NEW pc \in 0 .. WordSize, NEW psw \in Psws
    PROVE  LET y == PushFrame(x, pc, psw)
           IN  \/ Pushed(x, y)
               \/ \E z : Pushed(x, z) /\ Reddened(z, y, pc, psw)
<1>. DEFINE a == NoteStack([x EXCEPT !.r[6] = Word(@ - 2)])
            b == [a EXCEPT !.accesses = @ + 1]
            y == PushFrame(x, pc, psw)
<1>1. Pushed(x, a)
  BY PushParts
<1>2. y = IF b.accesses \in b.fails THEN Red(b, pc, psw) ELSE b
  BY DEF PushFrame
<1>. HIDE DEF a, y
<1>3. Typed(b) /\ Around(a, b) /\ b.r = a.r
  BY <1>1, CountParts DEF Pushed
<1>. HIDE DEF b
<1>4. Pushed(x, b)
  BY <1>1, <1>3 DEF Pushed, Around, Beside
<1>5. Reddened(b, Red(b, pc, psw), pc, psw)
  BY <1>3, RedParts
<1>6. y = b \/ y = Red(b, pc, psw)
  BY <1>2
<1>. QED BY <1>4, <1>5, <1>6 DEF y

\* The kernel stack, the PC and the PSW are all that changes.
Kept(x, y) ==
    /\ \A st \in {0, 1}, k \in {0, 1} : SetRegister(y, st, k) = SetRegister(x, st, k)
    /\ x.spInit => y.spInit /\ \A k \in Modes \ {0} : StackPointer(y, k) = StackPointer(x, k)
    /\ y.frozen = x.frozen /\ y.mmr1 = x.mmr1 /\ y.irq = x.irq /\ y.kind = x.kind
    /\ y.value = x.value /\ y.acked = x.acked /\ y.taken = x.taken

LEMMA KeptTransitive == ASSUME NEW x, NEW y, NEW z, Kept(x, y), Kept(y, z) PROVE Kept(x, z)
BY DEF Kept

LEMMA PushedKeeps ==
    ASSUME NEW x, NEW y, Typed(x), x.psw.cur = 0, Pushed(x, y)
    PROVE  /\ Kept(x, y) /\ y.psw.cur = 0
           /\ StackPointer(y, 0) = Word(StackPointer(x, 0) - 2)
<1>1. ASSUME NEW st \in {0, 1}, NEW k \in {0, 1}
      PROVE  SetRegister(y, st, k) = SetRegister(x, st, k)
  <2>1. k \in Regs \ {6}
    BY DEF Regs
  <2> QED BY <2>1 DEF Pushed, SetRegister
<1>2. ASSUME x.spInit, NEW k \in Modes \ {0} PROVE StackPointer(y, k) = StackPointer(x, k)
  BY <1>2 DEF StackPointer, Pushed
<1>3. StackPointer(y, 0) = Word(StackPointer(x, 0) - 2)
  BY DEF StackPointer, Pushed
<1>. QED BY <1>1, <1>2, <1>3 DEF Kept, Pushed

LEMMA ReddenedKeeps == ASSUME NEW x, NEW y, NEW pc, NEW psw, Reddened(x, y, pc, psw) PROVE Kept(x, y)
BY DEF Reddened, Kept

-----------------------------------------------------------------------------
(* A vector taken.                                                         *)

\* What a trap or an interrupt of x with this PSW leaves.
Entered(x, y, psw, ipl) ==
    /\ Typed(y) /\ y.r[7] = HandlerPc
    /\ y.frame.psw = psw /\ y.frame # NoFrame
    /\ \A st \in {0, 1}, k \in {0, 1} : SetRegister(y, st, k) = SetRegister(x, st, k)
    /\ x.spInit \/ x.psw.cur # 0 =>
          y.spInit /\ \A k \in Modes \ {0} : StackPointer(y, k) = StackPointer(x, k)
    /\ y.frozen = x.frozen /\ y.mmr1 = x.mmr1 /\ y.irq = x.irq /\ y.kind = x.kind
    /\ y.value = x.value /\ y.acked = x.acked /\ y.taken = x.taken
    /\ \/ /\ y.abort = FALSE /\ y.psw = TrapPsw(psw, ipl)
          /\ StackPointer(y, 0) = Word(Word(StackPointer(x, 0) - 2) - 2)
          /\ \/ y.did = x.did /\ y.yellow = x.yellow
             \/ y.did = x.did \cup {"yellow"} /\ y.yellow = TRUE
       \/ /\ y.abort = TRUE /\ y.psw = TrapPsw(psw, 7)
          /\ "red" \in y.did /\ y.did \in {x.did \cup {"red"}, x.did \cup {"yellow", "red"}}

LEMMA FrameMade ==
    ASSUME NEW pc, NEW psw, NEW at \in Words
    PROVE  /\ [pc |-> pc, psw |-> psw, at |-> at] # NoFrame
           /\ [pc |-> pc, psw |-> psw, at |-> at].psw = psw
BY WordFacts DEF NoFrame

\* Two words and the vector.
LEMMA VectorTaken ==
    ASSUME NEW x, Typed(x), x.abort = FALSE, NEW pc \in 0 .. WordSize, NEW psw \in Psws,
           psw.cur = x.psw.cur, NEW ipl \in 0 .. 7
    PROVE  Entered(x, TakeVector(x, pc, psw, ipl), psw, ipl)
<1>. DEFINE s   == SetPsw(x, TrapPsw(psw, ipl))
            one == PushFrame(s, pc, psw)
            two == IF one.abort THEN one ELSE PushFrame(one, pc, psw)
            y   == TakeVector(x, pc, psw, ipl)
<1>1. y = IF two.abort THEN two
          ELSE [two EXCEPT !.r[7] = HandlerPc, !.frame = [pc |-> pc, psw |-> psw, at |-> two.r[6]]]
  BY DEF TakeVector
<1>2. TrapPsw(psw, ipl) \in Psws /\ TrapPsw(psw, ipl).cur = 0
  BY TrapPswType
<1>3. /\ Typed(s) /\ Beside(x, s) /\ s.psw = TrapPsw(psw, ipl) /\ s.psw.cur = 0 /\ Selected(x, s)
      /\ s.abort = FALSE
  BY <1>2, SetPswParts DEF Beside
<1>4. \/ Pushed(s, one)
      \/ \E z : Pushed(s, z) /\ Reddened(z, one, pc, psw)
  BY <1>3, PushFrameParts
<1>. HIDE DEF s, one
<1>5. (one.abort = FALSE /\ Pushed(s, one)) \/ one.abort = TRUE
  BY <1>3, <1>4 DEF Pushed, Reddened
<1>6. Kept(s, one)
  <2>1. CASE Pushed(s, one)
    BY <1>3, <2>1, PushedKeeps
  <2>2. ASSUME NEW z, Pushed(s, z), Reddened(z, one, pc, psw)
        PROVE  Kept(s, one)
    BY <1>3, <2>2, PushedKeeps, ReddenedKeeps, KeptTransitive
  <2> QED BY <1>4, <2>1, <2>2
<1>7. ASSUME NEW w, Kept(s, w), Typed(w), w.r[7] = HandlerPc, w.frame.psw = psw, w.frame # NoFrame,
             \/ /\ w.abort = FALSE /\ w.psw = TrapPsw(psw, ipl)
                /\ StackPointer(w, 0) = Word(Word(StackPointer(s, 0) - 2) - 2)
                /\ \/ w.did = s.did /\ w.yellow = s.yellow
                   \/ w.did = s.did \cup {"yellow"} /\ w.yellow = TRUE
             \/ /\ w.abort = TRUE /\ w.psw = TrapPsw(psw, 7)
                /\ "red" \in w.did /\ w.did \in {s.did \cup {"red"}, s.did \cup {"yellow", "red"}}
      PROVE  Entered(x, w, psw, ipl)
  <2>1. \A k \in Modes : StackPointer(s, k) = StackPointer(x, k)
    BY <1>3 DEF Selected
  <2>2. StackPointer(s, 0) = StackPointer(x, 0)
    BY <2>1 DEF Modes
  <2>3. ASSUME NEW st \in {0, 1}, NEW k \in {0, 1}
        PROVE  SetRegister(w, st, k) = SetRegister(x, st, k)
    BY <1>3, <1>7 DEF Selected, Kept
  <2>4. ASSUME x.spInit \/ x.psw.cur # 0
        PROVE  w.spInit /\ \A k \in Modes \ {0} : StackPointer(w, k) = StackPointer(x, k)
    <3>1. s.spInit
      BY <1>3, <2>4 DEF Selected
    <3>. QED BY <1>7, <2>1, <3>1 DEF Kept
  <2>5. /\ w.frozen = x.frozen /\ w.mmr1 = x.mmr1 /\ w.irq = x.irq /\ w.kind = x.kind
        /\ w.value = x.value /\ w.acked = x.acked /\ w.taken = x.taken
        /\ s.did = x.did /\ s.yellow = x.yellow
    BY <1>3, <1>7 DEF Kept, Beside
  <2> QED BY <1>7, <2>2, <2>3, <2>4, <2>5 DEF Entered
<1>8. [pc |-> pc, psw |-> psw, at |-> 0] # NoFrame /\ [pc |-> pc, psw |-> psw, at |-> 0].psw = psw
  BY FrameMade, WordFacts
<1>9. ASSUME one.abort = TRUE
      PROVE  Entered(x, y, psw, ipl)
  <2>1. y = one
    BY <1>1, <1>9
  <2>2. PICK z : Pushed(s, z) /\ Reddened(z, one, pc, psw)
    BY <1>3, <1>4, <1>9 DEF Pushed
  <2>3. one.did \in {s.did \cup {"red"}, s.did \cup {"yellow", "red"}}
    <3>1. z.did = s.did \/ z.did = s.did \cup {"yellow"}
      BY <2>2 DEF Pushed
    <3>2. one.did = z.did \cup {"red"}
      BY <2>2 DEF Reddened
    <3>. QED BY <3>1, <3>2
  <2>4. /\ Typed(one) /\ one.r[7] = HandlerPc /\ one.psw = TrapPsw(psw, 7)
        /\ one.frame = [pc |-> pc, psw |-> psw, at |-> 0] /\ "red" \in one.did
    BY <2>2 DEF Reddened
  <2>5. Entered(x, one, psw, ipl)
    BY <1>6, <1>7, <1>8, <1>9, <2>3, <2>4
  <2>. QED BY <2>1, <2>5
<1>10. ASSUME one.abort = FALSE
       PROVE  Entered(x, y, psw, ipl)
  <2>. DEFINE t == PushFrame(one, pc, psw)
              u == [t EXCEPT !.r[7] = HandlerPc, !.frame = [pc |-> pc, psw |-> psw, at |-> t.r[6]]]
  <2>1. Pushed(s, one)
    BY <1>3, <1>4, <1>10 DEF Reddened
  <2>2. Typed(one) /\ one.psw = s.psw /\ one.psw.cur = 0
    BY <1>3, <2>1 DEF Pushed
  <2>3. \/ Pushed(one, t)
        \/ \E z : Pushed(one, z) /\ Reddened(z, t, pc, psw)
    BY <2>2, PushFrameParts
  <2>4. y = IF t.abort THEN t ELSE u
    BY <1>1, <1>10
  <2>5. \/ one.did = s.did /\ one.yellow = s.yellow
        \/ one.did = s.did \cup {"yellow"} /\ one.yellow = TRUE
    BY <2>1 DEF Pushed
  <2>. HIDE DEF t
  <2>6. CASE Pushed(one, t)
    <3>1. /\ Typed(t) /\ t.abort = FALSE /\ t.psw = one.psw /\ Kept(one, t)
          /\ StackPointer(t, 0) = Word(StackPointer(one, 0) - 2)
          /\ \/ t.did = one.did /\ t.yellow = one.yellow
             \/ t.did = one.did \cup {"yellow"} /\ t.yellow = TRUE
      BY <1>10, <2>2, <2>6, PushedKeeps DEF Pushed
    <3>2. StackPointer(one, 0) = Word(StackPointer(s, 0) - 2)
      BY <1>3, <2>1, PushedKeeps
    <3>. DEFINE frame == [pc |-> pc, psw |-> psw, at |-> t.r[6]]
                f == [t.r EXCEPT ![7] = HandlerPc]
    <3>3. frame # NoFrame /\ frame.psw = psw
      <4>1. t.r[6] \in Words
        BY <3>1 DEF Typed, Registers
      <4> QED BY <4>1, FrameMade
    <3>4. f \in Registers /\ f[7] = HandlerPc /\ \A k \in Regs \ {7} : f[k] = t.r[k]
      <4>1. t.r \in Registers /\ 7 \in Regs /\ HandlerPc \in 0 .. WordSize
        BY <3>1, WordFacts DEF Typed, Regs, HandlerPc
      <4> QED BY <4>1, RegisterSet
    <3>5. u = [t EXCEPT !.r = f, !.frame = frame]
      OBVIOUS
    <3>. HIDE DEF frame, f, u
    <3>6. /\ Fields(u) /\ u.r = f /\ u.frame = frame /\ u.psw = t.psw /\ u.sp = t.sp /\ u.bank = t.bank
          /\ u.spInit = t.spInit /\ u.abort = t.abort /\ u.did = t.did /\ u.yellow = t.yellow
          /\ u.frozen = t.frozen /\ u.mmr1 = t.mmr1 /\ u.irq = t.irq /\ u.kind = t.kind
          /\ u.value = t.value /\ u.acked = t.acked /\ u.taken = t.taken
      BY <3>1, <3>5 DEF Typed, Fields
    <3>7. Typed(u)
      BY <3>1, <3>4, <3>6 DEF Typed
    <3>8. Kept(t, u) /\ StackPointer(u, 0) = StackPointer(t, 0)
      <4>1. f[0] = t.r[0] /\ f[1] = t.r[1] /\ f[6] = t.r[6]
        BY <3>4 DEF Regs
      <4>2. \A k \in {0, 1} : f[k] = t.r[k]
        BY <4>1
      <4>3. \A k \in Modes : StackPointer(u, k) = StackPointer(t, k)
        BY <3>6, <4>1 DEF StackPointer
      <4>4. \A st \in {0, 1}, k \in {0, 1} : SetRegister(u, st, k) = SetRegister(t, st, k)
        BY <3>6, <4>2 DEF SetRegister
      <4> QED BY <3>6, <4>3, <4>4 DEF Kept, Modes
    <3>9. Kept(s, u)
      BY <1>6, <3>1, <3>8, KeptTransitive
    <3>10. \/ u.did = s.did /\ u.yellow = s.yellow
           \/ u.did = s.did \cup {"yellow"} /\ u.yellow = TRUE
      BY <2>5, <3>1, <3>6
    <3>11. /\ u.r[7] = HandlerPc /\ u.frame.psw = psw /\ u.frame # NoFrame
           /\ u.abort = FALSE /\ u.psw = TrapPsw(psw, ipl)
      BY <1>3, <2>2, <3>1, <3>3, <3>4, <3>6
    <3>12. StackPointer(u, 0) = Word(Word(StackPointer(s, 0) - 2) - 2)
      BY <3>1, <3>2, <3>8
    <3>13. Entered(x, u, psw, ipl)
      BY <1>7, <3>7, <3>9, <3>10, <3>11, <3>12
    <3>. QED BY <2>4, <3>1, <3>13
  <2>7. ASSUME NEW z, Pushed(one, z), Reddened(z, t, pc, psw)
        PROVE  Entered(x, y, psw, ipl)
    <3>1. Kept(s, t)
      BY <1>6, <2>2, <2>7, PushedKeeps, ReddenedKeeps, KeptTransitive
    <3>2. /\ Typed(t) /\ t.r[7] = HandlerPc /\ t.psw = TrapPsw(psw, 7) /\ t.abort = TRUE
          /\ t.frame = [pc |-> pc, psw |-> psw, at |-> 0] /\ t.did = z.did \cup {"red"}
      BY <2>7 DEF Reddened
    <3>3. z.did = one.did \/ z.did = one.did \cup {"yellow"}
      BY <2>7 DEF Pushed
    <3>4. z.did = s.did \/ z.did = s.did \cup {"yellow"}
      BY <2>5, <3>3
    <3>5. "red" \in t.did /\ t.did \in {s.did \cup {"red"}, s.did \cup {"yellow", "red"}}
      BY <3>2, <3>4
    <3>6. Entered(x, t, psw, ipl)
      BY <1>7, <1>8, <3>1, <3>2, <3>5
    <3>. QED BY <2>4, <3>2, <3>6
  <2>. HIDE DEF y
  <2> QED BY <2>3, <2>6, <2>7
<1>. QED BY <1>5, <1>9, <1>10 DEF y

-----------------------------------------------------------------------------
(* What holds during a step that begins at machine s.                      *)

\* Kernel mode and another priority are reached by a frame.
Guarded(x, s) == Kernel(s.psw) \/ Framed(x) \/ (~Kernel(x.psw) /\ x.psw.ipl = s.psw.ipl)

\* The stack pointers that s does not use.
Stacked(x, s) ==
    s.spInit =>
        /\ x.spInit
        /\ \A k \in Modes \ {s.psw.cur} :
              \/ StackPointer(x, k) = StackPointer(s, k)
              \/ "other stack" \in x.did
              \/ k = 0 /\ Framed(x)

\* The stack trap asked for.
Noted(x, s) ==
    s.yellow \/ "yellow" \in x.did =>
        \/ x.yellow \/ "served" \in x.did
        \/ {"refused", "red"} \cap x.did # {}

\* The part of it that TakeVector keeps too.
Sound(x, s) ==
    /\ Typed(x) /\ Guarded(x, s) /\ Stacked(x, s) /\ Noted(x, s)
    /\ x.psw.cur # 0 => x.spInit
    /\ x.abort => {"refused", "red"} \cap x.did # {}

\* And no interrupt is owed.
Whole(x, s) == Sound(x, s) /\ x.acked = x.taken

\* The instruction goes on, or is at the start of the handler that its fault entered.
Running(x, s) ==
    /\ Whole(x, s)
    /\ IF x.abort THEN Kernel(x.psw) /\ Framed(x) /\ "refused" \in x.did
       ELSE x.psw = s.psw /\ x.r[7] \in Words \cup {s.r[7]}

\* Neither the PSW nor the stacks of other modes change, and no note is lost.
Stepped(x, y) ==
    /\ Typed(y) /\ y.psw = x.psw /\ y.sp = x.sp /\ y.spInit = x.spInit /\ y.abort = x.abort
    /\ y.frame = x.frame /\ y.acked = x.acked /\ y.taken = x.taken /\ x.did \subseteq y.did
    /\ (x.yellow => y.yellow) /\ ("yellow" \in y.did \ x.did => y.yellow)

LEMMA FramedGrows == ASSUME NEW x, NEW y, Stepped(x, y), Framed(x) PROVE Framed(y)
BY DEF Stepped, Framed

LEMMA NotedGrows == ASSUME NEW x, NEW y, NEW s, Stepped(x, y), Noted(x, s) PROVE Noted(y, s)
<1>1. x.did \subseteq y.did /\ (x.yellow => y.yellow) /\ ("yellow" \in y.did \ x.did => y.yellow)
  BY DEF Stepped
<1>2. {"refused", "red"} \cap x.did # {} => {"refused", "red"} \cap y.did # {}
  BY <1>1
<1>. QED BY <1>1, <1>2 DEF Noted

LEMMA SteppedSound ==
    ASSUME NEW x, NEW y, NEW s, Sound(x, s), Stepped(x, y),
           y.r[6] = x.r[6] \/ (~x.abort /\ x.psw = s.psw) \/ (Kernel(x.psw) /\ Framed(x))
    PROVE  Sound(y, s)
<1>1. Noted(y, s)
  BY NotedGrows DEF Sound
<1>2. Guarded(y, s)
  BY FramedGrows DEF Guarded, Sound, Stepped
<1>3. y.abort => {"refused", "red"} \cap y.did # {}
  <2>1. x.did \subseteq y.did /\ y.abort = x.abort
    BY DEF Stepped
  <2>2. {"refused", "red"} \cap x.did # {} => {"refused", "red"} \cap y.did # {}
    BY <2>1
  <2> QED BY <2>1, <2>2 DEF Sound
<1>4. Stacked(y, s)
  <2>1. SUFFICES ASSUME s.spInit PROVE Stacked(y, s)
    BY DEF Stacked
  <2>2. x.spInit /\ y.spInit = x.spInit /\ y.sp = x.sp /\ y.psw = x.psw /\ x.did \subseteq y.did
    BY <2>1 DEF Sound, Stacked, Stepped
  <2>3. ASSUME NEW k \in Modes \ {s.psw.cur}
        PROVE  \/ StackPointer(y, k) = StackPointer(s, k)
               \/ "other stack" \in y.did
               \/ k = 0 /\ Framed(y)
    <3>1. \/ StackPointer(x, k) = StackPointer(s, k)
          \/ "other stack" \in x.did
          \/ k = 0 /\ Framed(x)
      BY <2>1 DEF Sound, Stacked
    <3>2. k = 0 /\ Framed(x) => Framed(y)
      BY FramedGrows
    <3>3. ASSUME y.r[6] = x.r[6] \/ x.psw.cur # k
          PROVE  StackPointer(y, k) = StackPointer(x, k)
      BY <2>2, <3>3 DEF StackPointer
    <3>4. CASE x.psw = s.psw
      <4>1. k # s.psw.cur
        BY <2>3
      <4>2. x.psw.cur # k
        BY <3>4, <4>1
      <4> QED BY <2>2, <3>1, <3>2, <3>3, <4>2
    <3>5. CASE Kernel(x.psw) /\ Framed(x)
      BY <2>2, <3>1, <3>2, <3>3, <3>5 DEF Kernel
    <3>6. CASE y.r[6] = x.r[6]
      BY <2>2, <3>1, <3>2, <3>3, <3>6
    <3> QED BY <3>4, <3>5, <3>6
  <2> QED BY <2>1, <2>2, <2>3 DEF Stacked
<1>. QED BY <1>1, <1>2, <1>3, <1>4 DEF Sound, Stepped

LEMMA SteppedRuns ==
    ASSUME NEW x, NEW y, NEW s, Running(x, s), Stepped(x, y),
           x.abort \/ y.r[7] \in Words \/ y.r[7] = x.r[7]
    PROVE  Running(y, s)
<1>1. Sound(y, s)
  BY SteppedSound DEF Running, Whole
<1>2. CASE x.abort
  BY <1>1, <1>2, FramedGrows DEF Running, Whole, Stepped
<1>3. CASE ~x.abort
  BY <1>1, <1>3 DEF Running, Whole, Stepped
<1>. QED BY <1>2, <1>3

-----------------------------------------------------------------------------
(* Traps and refused accesses.                                             *)

LEMMA EnteredSound ==
    ASSUME NEW x, NEW y, NEW s, NEW psw, NEW ipl \in 0 .. 7, psw \in Psws,
           Sound(x, s), Entered(x, y, psw, ipl)
    PROVE  Sound(y, s) /\ Kernel(y.psw) /\ Framed(y)
<1>1. Framed(y)
  BY DEF Entered, Framed
<1>2. Kernel(y.psw)
  BY TrapPswType DEF Entered, Kernel, TrapPsw
<1>3. x.did \subseteq y.did
  BY DEF Entered
<1>4. y.abort => {"refused", "red"} \cap y.did # {}
  BY DEF Entered
<1>5. Noted(y, s)
  <2>1. CASE y.abort = TRUE
    BY <1>4, <2>1 DEF Noted
  <2>2. CASE /\ y.abort = FALSE
             /\ \/ y.did = x.did /\ y.yellow = x.yellow
                \/ y.did = x.did \cup {"yellow"} /\ y.yellow = TRUE
    BY <2>2 DEF Sound, Noted
  <2> QED BY <2>1, <2>2 DEF Entered
<1>6. Stacked(y, s)
  <2>1. SUFFICES ASSUME s.spInit PROVE Stacked(y, s)
    BY DEF Stacked
  <2>2. y.spInit /\ \A k \in Modes \ {0} : StackPointer(y, k) = StackPointer(x, k)
    BY <2>1 DEF Sound, Stacked, Entered
  <2> QED BY <1>1, <1>3, <2>1, <2>2 DEF Sound, Stacked
<1>. QED BY <1>1, <1>2, <1>4, <1>5, <1>6 DEF Sound, Guarded, Entered, Kernel

LEMMA TrapSound ==
    ASSUME NEW x, NEW s, Sound(x, s), NEW ipl \in 0 .. 7
    PROVE  LET y == TakeVector(x, x.r[7], x.psw, ipl)
           IN  /\ Sound(y, s)
               /\ y = x \/ Entered(x, y, x.psw, ipl)
               /\ (x.abort => y = x) /\ (~x.abort => Kernel(y.psw) /\ Framed(y))
               /\ y.acked = x.acked /\ y.taken = x.taken
<1>. DEFINE y == TakeVector(x, x.r[7], x.psw, ipl)
<1>1. CASE x.abort
  BY <1>1 DEF TakeVector
<1>2. CASE ~x.abort
  <2>1. Typed(x) /\ x.abort = FALSE /\ x.psw \in Psws /\ x.r[7] \in 0 .. WordSize
    <3>1. x.r \in Registers /\ 7 \in Regs
      BY DEF Sound, Typed, Regs
    <3> QED BY <1>2, <3>1, RegisterFacts DEF Sound, Typed
  <2>2. Entered(x, y, x.psw, ipl)
    BY <2>1, VectorTaken
  <2>. HIDE DEF y
  <2>3. Sound(y, s) /\ Kernel(y.psw) /\ Framed(y)
    BY <2>1, <2>2, EnteredSound
  <2>4. y.acked = x.acked /\ y.taken = x.taken
    BY <2>2 DEF Entered
  <2> QED BY <1>2, <2>2, <2>3, <2>4 DEF y
<1>. QED BY <1>1, <1>2

\* Nothing changes but what MMR0 stops.
Alike(x, y) ==
    /\ Typed(y) /\ y.r = x.r /\ y.psw = x.psw /\ y.sp = x.sp /\ y.spInit = x.spInit /\ y.bank = x.bank
    /\ y.abort = x.abort /\ y.yellow = x.yellow /\ y.mmr1 = x.mmr1 /\ y.irq = x.irq
    /\ y.kind = x.kind /\ y.value = x.value /\ y.did = x.did /\ y.frame = x.frame
    /\ y.acked = x.acked /\ y.taken = x.taken

\* After the trap of a refused access, z, comes y.
Closed(z, y) ==
    /\ Typed(y) /\ y.r = z.r /\ y.psw = z.psw /\ y.sp = z.sp /\ y.spInit = z.spInit /\ y.bank = z.bank
    /\ y.abort = TRUE /\ y.yellow = z.yellow /\ y.mmr1 = z.mmr1 /\ y.irq = z.irq
    /\ y.kind = z.kind /\ y.did = z.did \cup {"refused"} /\ y.frame = z.frame
    /\ y.acked = z.acked /\ y.taken = z.taken

\* An access of x that is refused leaves y.
Refused(x, y) == \E w : Alike(x, w) /\ Closed(TakeVector(w, w.r[7], w.psw, 7), y)

LEMMA VectorType ==
    ASSUME NEW x, Typed(x), NEW ipl \in 0 .. 7
    PROVE  Typed(TakeVector(x, x.r[7], x.psw, ipl))
<1>1. CASE x.abort
  BY <1>1 DEF TakeVector
<1>2. CASE ~x.abort
  <2>1. x.abort = FALSE /\ x.psw \in Psws /\ x.r[7] \in 0 .. WordSize
    <3>1. x.r \in Registers /\ 7 \in Regs
      BY DEF Typed, Regs
    <3> QED BY <1>2, <3>1, RegisterFacts DEF Typed
  <2>2. Entered(x, TakeVector(x, x.r[7], x.psw, ipl), x.psw, ipl)
    BY <2>1, VectorTaken
  <2> QED BY <2>2 DEF Entered
<1>. QED BY <1>1, <1>2

LEMMA RefuseParts == ASSUME NEW x, Typed(x) PROVE Refused(x, Refuse(x))
<1>. DEFINE w == IF x.kind = "mmu" THEN [x EXCEPT !.frozen = TRUE] ELSE x
            z == TakeVector(w, w.r[7], w.psw, 7)
            d == z.did \cup {"refused"}
            y == Refuse(x)
<1>1. Alike(x, w)
  <2>1. CASE x.kind = "mmu"
    <3>. DEFINE v == [x EXCEPT !.frozen = TRUE]
    <3>1. /\ Fields(v) /\ v.r = x.r /\ v.psw = x.psw /\ v.sp = x.sp /\ v.spInit = x.spInit
          /\ v.bank = x.bank /\ v.abort = x.abort /\ v.yellow = x.yellow /\ v.mmr1 = x.mmr1
          /\ v.irq = x.irq /\ v.kind = x.kind /\ v.value = x.value /\ v.did = x.did
          /\ v.frame = x.frame /\ v.acked = x.acked /\ v.taken = x.taken
      BY DEF Typed, Fields
    <3>2. w = v
      BY <2>1
    <3>. HIDE DEF v, w
    <3>3. Typed(v)
      BY <3>1 DEF Typed
    <3> QED BY <3>1, <3>2, <3>3 DEF Alike
  <2>2. CASE x.kind # "mmu"
    BY <2>2 DEF Alike
  <2> QED BY <2>1, <2>2
<1>2. w.r[7] = x.r[7] /\ w.psw = x.psw
  BY <1>1 DEF Alike
<1>3. y = [z EXCEPT !.abort = TRUE, !.value = 0, !.did = d]
  <2>1. z = TakeVector(w, x.r[7], x.psw, 7)
    BY <1>2
  <2> QED BY <2>1 DEF Refuse
<1>4. 7 \in 0 .. 7
  OBVIOUS
<1>. HIDE DEF w
<1>5. Typed(z)
  BY <1>1, <1>4, VectorType DEF Alike
<1>. HIDE DEF y, z, d
<1>6. /\ Fields(y) /\ y.r = z.r /\ y.psw = z.psw /\ y.sp = z.sp /\ y.spInit = z.spInit
      /\ y.bank = z.bank /\ y.abort = TRUE /\ y.yellow = z.yellow /\ y.mmr1 = z.mmr1
      /\ y.irq = z.irq /\ y.kind = z.kind /\ y.did = d /\ y.frame = z.frame
      /\ y.acked = z.acked /\ y.taken = z.taken /\ y.value = 0
  BY <1>3, <1>5 DEF Typed, Fields
<1>7. Typed(y)
  BY <1>5, <1>6, WordFacts DEF Typed
<1>8. Closed(z, y)
  BY <1>6, <1>7 DEF Closed, d
<1>. QED BY <1>1, <1>8 DEF Refused, z, y

\* An access goes its way or is refused.
LEMMA AccessParts ==
    ASSUME NEW x, Typed(x)
    PROVE  LET y == Access(x)
           IN  \/ Typed(y) /\ Around(x, y) /\ y.r = x.r
               \/ Refused(x, y)
<1>. DEFINE a == [x EXCEPT !.accesses = @ + 1]
            y == Access(x)
<1>1. Typed(a) /\ Around(x, a) /\ a.r = x.r
  BY CountParts
<1>2. y = a \/ y = Refuse(a)
  <2>1. Access(x) = IF a.accesses \in a.fails THEN Refuse(a) ELSE a
    BY DEF Access
  <2>. HIDE DEF a
  <2> QED BY <2>1
<1>. HIDE DEF a, y
<1>3. Refused(a, Refuse(a))
  BY <1>1, RefuseParts
<1>4. ASSUME NEW w, Alike(a, w) PROVE Alike(x, w)
  BY <1>1, <1>4 DEF Alike, Around, Beside
<1>5. Refused(x, Refuse(a))
  BY <1>3, <1>4 DEF Refused
<1>. QED BY <1>1, <1>2, <1>5 DEF y

LEMMA AlikeSteps ==
    ASSUME NEW x, NEW y, Typed(x), Alike(x, y) \/ (Typed(y) /\ Around(x, y) /\ y.r = x.r)
    PROVE  Stepped(x, y) /\ y.r = x.r
BY DEF Alike, Around, Beside, Stepped

\* After an abort the machine is in a handler.
Handling(x) == x.abort => Kernel(x.psw) /\ Framed(x)

LEMMA RefusedWhole ==
    ASSUME NEW x, NEW y, NEW s, Whole(x, s), Handling(x), Refused(x, y)
    PROVE  /\ Whole(y, s) /\ y.abort = TRUE
           /\ Kernel(y.psw) /\ Framed(y) /\ x.did \cup {"refused"} \subseteq y.did
<1>1. PICK w : Alike(x, w) /\ Closed(TakeVector(w, w.r[7], w.psw, 7), y)
  BY DEF Refused
<1>2. Stepped(x, w) /\ w.r = x.r
  BY <1>1, AlikeSteps DEF Whole, Sound
<1>3. Sound(w, s) /\ w.acked = w.taken /\ (w.abort => Kernel(w.psw) /\ Framed(w))
  <2>1. Sound(w, s)
    BY <1>2, SteppedSound DEF Whole
  <2>2. Framed(x) => Framed(w)
    BY <1>2, FramedGrows
  <2> QED BY <1>2, <2>1, <2>2 DEF Whole, Stepped, Handling
<1>. DEFINE z == TakeVector(w, w.r[7], w.psw, 7)
<1>4. 7 \in 0 .. 7
  OBVIOUS
<1>5. /\ Sound(z, s) /\ (w.abort => z = w) /\ (~w.abort => Kernel(z.psw) /\ Framed(z))
      /\ z.acked = w.acked /\ z.taken = w.taken
  BY <1>3, <1>4, TrapSound
<1>6. w.did \subseteq z.did
  <2>1. z = w \/ Entered(w, z, w.psw, 7)
    BY <1>3, <1>4, TrapSound
  <2> QED BY <2>1 DEF Entered
<1>7. Closed(z, y)
  BY <1>1
<1>. HIDE DEF z
<1>8. Kernel(z.psw) /\ Framed(z)
  BY <1>3, <1>5
<1>9. Typed(y) /\ y.abort = TRUE /\ "refused" \in y.did /\ z.did \subseteq y.did /\ Kernel(y.psw)
  BY <1>7, <1>8 DEF Closed
<1>10. Framed(y)
  BY <1>7, <1>8, <1>9 DEF Closed, Framed
<1>11. {"refused", "red"} \cap y.did # {}
  BY <1>9
<1>12. Stacked(y, s)
  <2>1. y.sp = z.sp /\ y.r = z.r /\ y.psw = z.psw /\ y.spInit = z.spInit /\ z.did \subseteq y.did
    BY <1>7, <1>9 DEF Closed
  <2>2. \A k \in Modes : StackPointer(y, k) = StackPointer(z, k)
    BY <2>1 DEF StackPointer
  <2> QED BY <1>5, <1>9, <1>10, <2>1, <2>2 DEF Sound, Stacked
<1>13. Sound(y, s)
  BY <1>5, <1>7, <1>9, <1>10, <1>11, <1>12 DEF Sound, Guarded, Noted, Closed, Kernel
<1>14. y.acked = y.taken
  BY <1>3, <1>5, <1>7 DEF Closed
<1>15. x.did \cup {"refused"} \subseteq y.did
  <2>1. x.did \subseteq w.did
    BY <1>2 DEF Stepped
  <2> QED BY <1>9, <1>6, <2>1
<1>. QED BY <1>9, <1>10, <1>13, <1>14, <1>15 DEF Whole

LEMMA RefusedRuns ==
    ASSUME NEW x, NEW y, NEW s, Running(x, s), Refused(x, y)
    PROVE  Running(y, s) /\ y.abort = TRUE
BY RefusedWhole DEF Running, Handling

\* An access of an instruction that has left its mode.
LEMMA AccessWhole ==
    ASSUME NEW x, NEW s, Whole(x, s), ~x.abort
    PROVE  LET y == Access(x)
           IN  /\ Whole(y, s) /\ x.did \subseteq y.did
               /\ IF y.abort THEN Kernel(y.psw) /\ Framed(y) ELSE y.psw = x.psw
<1>. DEFINE y == Access(x)
<1>1. (Typed(y) /\ Around(x, y) /\ y.r = x.r) \/ Refused(x, y)
  BY AccessParts DEF Whole, Sound
<1>. HIDE DEF y
<1>2. CASE Typed(y) /\ Around(x, y) /\ y.r = x.r
  <2>1. Stepped(x, y) /\ y.r = x.r
    BY <1>2, AlikeSteps DEF Whole, Sound
  <2>2. Sound(y, s)
    BY <2>1, SteppedSound DEF Whole
  <2> QED BY <2>1, <2>2 DEF Whole, Stepped, y
<1>3. CASE Refused(x, y)
  <2>1. /\ Whole(y, s) /\ y.abort = TRUE
        /\ Kernel(y.psw) /\ Framed(y) /\ x.did \cup {"refused"} \subseteq y.did
    BY <1>3, RefusedWhole DEF Handling
  <2> QED BY <2>1 DEF y
<1>. QED BY <1>1, <1>2, <1>3

LEMMA AccessRuns == ASSUME NEW x, NEW s, Running(x, s) PROVE Running(Access(x), s)
<1>. DEFINE y == Access(x)
<1>1. (Typed(y) /\ Around(x, y) /\ y.r = x.r) \/ Refused(x, y)
  BY AccessParts DEF Running, Whole, Sound
<1>. HIDE DEF y
<1>2. CASE Typed(y) /\ Around(x, y) /\ y.r = x.r
  <2>1. Stepped(x, y)
    BY <1>2, AlikeSteps DEF Running, Whole, Sound
  <2> QED BY <1>2, <2>1, SteppedRuns DEF Running, y
<1>. QED BY <1>1, <1>2, RefusedRuns DEF y

-----------------------------------------------------------------------------
(* Registers that an instruction moves.                                    *)

LEMMA NoteSteps ==
    ASSUME NEW x, Typed(x)
    PROVE  Stepped(x, NoteStack(x)) /\ NoteStack(x).r = x.r
BY NoteParts DEF Noting, Stepped

LEMMA NoteRuns == ASSUME NEW x, NEW s, Running(x, s) PROVE Running(NoteStack(x), s)
BY NoteSteps, SteppedRuns DEF Running, Whole, Sound

\* A register moved, with the note of it that MMR1 takes.
Shifted(x, y, reg, d) ==
    /\ Typed(y) /\ y.r[reg] = Word(x.r[reg] + d) /\ \A k \in Regs \ {reg} : y.r[k] = x.r[k]
    /\ y.psw = x.psw /\ y.sp = x.sp /\ y.spInit = x.spInit /\ y.bank = x.bank
    /\ y.abort = x.abort /\ y.yellow = x.yellow /\ y.frozen = x.frozen /\ y.irq = x.irq
    /\ y.kind = x.kind /\ y.value = x.value /\ y.did = x.did /\ y.frame = x.frame
    /\ y.acked = x.acked /\ y.taken = x.taken
    /\ y.mmr1 = IF x.frozen \/ Len(x.mmr1) = 2 THEN x.mmr1 ELSE Append(x.mmr1, <<reg, d>>)

LEMMA MoveParts ==
    ASSUME NEW x, Typed(x), NEW reg \in Regs, NEW d \in Int
    PROVE  Shifted(x, Move(x, reg, d), reg, d)
<1>. DEFINE f == [x.r EXCEPT ![reg] = Word(x.r[reg] + d)]
            a == [x EXCEPT !.r[reg] = Word(@ + d)]
            e == Append(a.mmr1, <<reg, d>>)
            y == Move(x, reg, d)
<1>1. x.r \in Registers /\ x.r[reg] \in Int
  BY RegisterFacts DEF Typed
<1>2. Word(x.r[reg] + d) \in Words /\ Word(x.r[reg] + d) \in 0 .. WordSize
  <2>1. x.r[reg] + d \in Int
    BY <1>1
  <2> QED BY <2>1, WordType
<1>3. f \in Registers /\ f[reg] = Word(x.r[reg] + d) /\ \A k \in Regs \ {reg} : f[k] = x.r[k]
  BY <1>1, <1>2, RegisterSet
<1>4. a = [x EXCEPT !.r = f]
  OBVIOUS
<1>5. y = IF a.frozen \/ Len(a.mmr1) = 2 THEN a ELSE [a EXCEPT !.mmr1 = e]
  BY DEF Move, Delta
<1>. HIDE DEF f, a, y
<1>6. Typed(a) /\ a.r = f /\ Around(x, a)
  BY <1>3, <1>4, RegistersPut
<1>7. a.frozen = x.frozen /\ a.mmr1 = x.mmr1
  BY <1>6 DEF Around, Beside
<1>8. CASE x.frozen \/ Len(x.mmr1) = 2
  <2>1. y = a
    BY <1>5, <1>7, <1>8
  <2> QED BY <1>3, <1>6, <1>8, <2>1 DEF Shifted, Around, Beside, y
<1>9. CASE ~(x.frozen \/ Len(x.mmr1) = 2)
  <2>1. y = [a EXCEPT !.mmr1 = e]
    BY <1>5, <1>7, <1>9
  <2>2. e = Append(x.mmr1, <<reg, d>>)
    BY <1>7
  <2>. HIDE DEF e
  <2>3. /\ Fields(y) /\ y.mmr1 = e /\ y.r = a.r /\ y.psw = a.psw /\ y.sp = a.sp
        /\ y.spInit = a.spInit /\ y.bank = a.bank /\ y.abort = a.abort /\ y.yellow = a.yellow
        /\ y.frozen = a.frozen /\ y.irq = a.irq /\ y.kind = a.kind /\ y.value = a.value
        /\ y.did = a.did /\ y.frame = a.frame /\ y.acked = a.acked /\ y.taken = a.taken
    BY <1>6, <2>1 DEF Typed, Fields
  <2>4. Typed(y)
    BY <1>6, <2>3 DEF Typed
  <2> QED BY <1>3, <1>6, <1>9, <2>2, <2>3, <2>4 DEF Shifted, Around, Beside, y
<1>. QED BY <1>8, <1>9

LEMMA ShiftedRuns ==
    ASSUME NEW x, NEW y, NEW s, Running(x, s), NEW reg \in Regs, NEW d \in Int, Shifted(x, y, reg, d)
    PROVE  Running(y, s)
<1>1. Stepped(x, y)
  BY DEF Shifted, Stepped
<1>2. y.r[7] \in Words \/ y.r[7] = x.r[7]
  <2>1. CASE reg = 7
    <3>1. x.r[7] \in Int
      BY RegisterFacts DEF Running, Whole, Sound, Typed, Regs
    <3>2. x.r[7] + d \in Int
      BY <3>1
    <3> QED BY <2>1, <3>2, WordType DEF Shifted
  <2>2. CASE reg # 7
    BY <2>2 DEF Shifted, Regs
  <2> QED BY <2>1, <2>2
<1>. QED BY <1>1, <1>2, SteppedRuns

LEMMA MoveRuns ==
    ASSUME NEW x, NEW s, Running(x, s), NEW reg \in Regs, NEW d \in Int
    PROVE  Running(Move(x, reg, d), s)
BY MoveParts, ShiftedRuns DEF Running, Whole, Sound

-----------------------------------------------------------------------------
(* Operands.                                                               *)

Operand == (0 .. 7) \X Regs

LEMMA DecodeRuns ==
    ASSUME NEW x, NEW s, Running(x, s), NEW operand \in Operand, NEW byte
    PROVE  Running(Decode(x, operand, byte), s)
<1>. DEFINE mode == operand[1]
            reg  == operand[2]
            step == IF byte /\ reg \notin {6, 7} /\ mode \in {2, 4} THEN 1 ELSE 2
            y == Move(x, reg, 0 - step)
            z == IF reg = 6 THEN NoteStack(y) ELSE y
            a == Access(x)
            b == IF a.abort THEN a ELSE Move(a, 7, 2)
<1>1. mode \in 0 .. 7 /\ reg \in Regs /\ 7 \in Regs /\ step \in Int /\ 0 - step \in Int
  BY DEF Operand, Regs
<1>2. Decode(x, operand, byte) =
        CASE mode < 2        -> x
          [] mode = 2        -> Move(x, reg, step)
          [] mode = 3        -> Access(Move(x, reg, 2))
          [] mode \in {4, 5} -> (IF mode = 4 THEN z ELSE Access(z))
          [] mode > 5        -> (IF mode = 6 \/ b.abort THEN b ELSE Access(b))
  BY DEF Decode
<1>. HIDE DEF mode, reg, step
<1>3. Running(y, s) /\ Running(z, s) /\ Running(a, s)
  BY <1>1, MoveRuns, NoteRuns, AccessRuns
<1>4. Running(b, s)
  BY <1>1, <1>3, MoveRuns
<1>5. Running(Move(x, reg, step), s) /\ Running(Move(x, reg, 2), s)
  BY <1>1, MoveRuns
<1>. HIDE DEF y, z, a, b
<1>6. Running(Access(Move(x, reg, 2)), s) /\ Running(Access(z), s) /\ Running(Access(b), s)
  BY <1>3, <1>4, <1>5, AccessRuns
<1>7. CASE mode < 2
  BY <1>1, <1>2, <1>7
<1>8. CASE mode = 2
  BY <1>1, <1>2, <1>5, <1>8
<1>9. CASE mode = 3
  BY <1>1, <1>2, <1>6, <1>9
<1>10. CASE mode \in {4, 5}
  BY <1>1, <1>2, <1>3, <1>6, <1>10
<1>11. CASE mode > 5
  BY <1>1, <1>2, <1>4, <1>6, <1>11
<1>. QED BY <1>1, <1>7, <1>8, <1>9, <1>10, <1>11

LEMMA GetRuns ==
    ASSUME NEW x, NEW s, Running(x, s), NEW operand
    PROVE  Running(Get(x, operand), s)
BY AccessRuns DEF Get

\* A register that receives a word.
LEMMA LoadParts ==
    ASSUME NEW x, Typed(x), NEW k \in Regs, NEW v \in Words
    PROVE  LET y == [x EXCEPT !.r[k] = v]
           IN  /\ Typed(y) /\ Around(x, y) /\ y.r[k] = v /\ \A j \in Regs \ {k} : y.r[j] = x.r[j]
               /\ Stepped(x, y)
<1>. DEFINE f == [x.r EXCEPT ![k] = v]
            y == [x EXCEPT !.r[k] = v]
<1>1. x.r \in Registers /\ v \in 0 .. WordSize
  BY WordFacts DEF Typed
<1>2. f \in Registers /\ f[k] = v /\ \A j \in Regs \ {k} : f[j] = x.r[j]
  BY <1>1, RegisterSet
<1>3. y = [x EXCEPT !.r = f]
  OBVIOUS
<1>. HIDE DEF f, y
<1>4. Typed(y) /\ y.r = f /\ Around(x, y)
  BY <1>2, <1>3, RegistersPut
<1>5. Stepped(x, y)
  BY <1>4 DEF Stepped, Around, Beside
<1>. QED BY <1>2, <1>4, <1>5 DEF y

LEMMA LoadRuns ==
    ASSUME NEW x, NEW s, Running(x, s), NEW k \in Regs, NEW v \in Words
    PROVE  Running([x EXCEPT !.r[k] = v], s)
<1>. DEFINE y == [x EXCEPT !.r[k] = v]
<1>1. Stepped(x, y) /\ y.r[k] = v /\ \A j \in Regs \ {k} : y.r[j] = x.r[j]
  BY LoadParts DEF Running, Whole, Sound
<1>. HIDE DEF y
<1>2. y.r[7] \in Words \/ y.r[7] = x.r[7]
  BY <1>1 DEF Regs
<1>3. Running(y, s)
  BY <1>1, <1>2, SteppedRuns
<1>. QED BY <1>3 DEF y

LEMMA LoadWhole ==
    ASSUME NEW x, NEW s, Whole(x, s), NEW k \in Regs \ {6}, NEW v \in Words
    PROVE  LET y == [x EXCEPT !.r[k] = v] IN Whole(y, s) /\ x.did \subseteq y.did
<1>. DEFINE y == [x EXCEPT !.r[k] = v]
<1>1. Stepped(x, y) /\ \A j \in Regs \ {k} : y.r[j] = x.r[j]
  BY LoadParts DEF Whole, Sound
<1>. HIDE DEF y
<1>2. y.r[6] = x.r[6]
  BY <1>1 DEF Regs
<1>3. Sound(y, s)
  BY <1>1, <1>2, SteppedSound DEF Whole
<1>. QED BY <1>1, <1>3 DEF Whole, Stepped, y

LEMMA PutRuns ==
    ASSUME NEW x, NEW s, Running(x, s), NEW operand \in Operand
    PROVE  Running(Put(x, operand), s)
<1>1. operand[2] \in Regs /\ x.value \in Words
  BY DEF Operand, Running, Whole, Sound, Typed
<1>2. Running([x EXCEPT !.r[operand[2]] = x.value], s) /\ Running(Access(x), s)
  BY <1>1, LoadRuns, AccessRuns
<1>. DEFINE v == [x EXCEPT !.r[operand[2]] = x.value]
<1>3. Put(x, operand) \in {x, v, Access(x)}
  BY DEF Put
<1>. HIDE DEF v
<1>. QED BY <1>2, <1>3 DEF v

LEMMA DecodeNextRuns ==
    ASSUME NEW x, NEW s, Running(x, s), NEW operand \in Operand, NEW byte
    PROVE  Running(DecodeNext(x, operand, byte), s)
BY DecodeRuns DEF DecodeNext

\* A word of the log that nothing but its own property looks at.
LEMMA LogSteps ==
    ASSUME NEW x, Typed(x), NEW word, word # "yellow"
    PROVE  LET y == [x EXCEPT !.did = @ \cup {word}]
           IN  Typed(y) /\ Stepped(x, y) /\ y.r = x.r /\ y.did = x.did \cup {word}
<1>. DEFINE d == x.did \cup {word}
            y == [x EXCEPT !.did = d]
<1>. HIDE DEF d
<1>1. /\ Fields(y) /\ y.did = d /\ y.r = x.r /\ y.psw = x.psw /\ y.sp = x.sp
      /\ y.spInit = x.spInit /\ y.bank = x.bank /\ y.abort = x.abort /\ y.yellow = x.yellow
      /\ y.irq = x.irq /\ y.value = x.value /\ y.frame = x.frame
      /\ y.acked = x.acked /\ y.taken = x.taken
  BY DEF Typed, Fields
<1>. HIDE DEF y
<1>2. Typed(y)
  BY <1>1 DEF Typed
<1>. QED BY <1>1, <1>2 DEF Stepped, y, d

LEMMA LeaveRuns == ASSUME NEW x, NEW s, Running(x, s) PROVE Running(Leave(x), s)
<1>. DEFINE y == [x EXCEPT !.did = @ \cup {"left"}]
<1>1. Stepped(x, y) /\ y.r = x.r
  BY LogSteps DEF Running, Whole, Sound
<1>2. Leave(x) = IF x.abort THEN y ELSE x
  BY DEF Leave
<1>. HIDE DEF y
<1>3. Running(y, s)
  BY <1>1, SteppedRuns DEF Running
<1>. QED BY <1>2, <1>3

LEMMA CodesRuns == ASSUME NEW x, NEW s, Running(x, s) PROVE Running(Codes(x), s)
<1>. DEFINE y == [x EXCEPT !.did = @ \cup {"codes"}]
<1>1. Stepped(x, y) /\ y.r = x.r
  BY LogSteps DEF Running, Whole, Sound
<1>2. Codes(x) = IF x.abort THEN y ELSE x
  BY DEF Codes
<1>. HIDE DEF y
<1>3. Running(y, s)
  BY <1>1, SteppedRuns DEF Running
<1>. QED BY <1>2, <1>3

-----------------------------------------------------------------------------
(* Instructions that stay in their mode.                                   *)

LEMMA TrapWhole == ASSUME NEW x, NEW s, Whole(x, s) PROVE Whole(Trap(x), s)
<1>1. 7 \in 0 .. 7
  OBVIOUS
<1>2. LET y == TakeVector(x, x.r[7], x.psw, 7)
      IN  Sound(y, s) /\ y.acked = x.acked /\ y.taken = x.taken
  BY <1>1, TrapSound DEF Whole
<1>. QED BY <1>2 DEF Whole, Trap

LEMMA RunningWhole == ASSUME NEW x, NEW s, Running(x, s) PROVE Whole(x, s)
BY DEF Running

LEMMA OneOperandRuns ==
    ASSUME NEW x, NEW s, Running(x, s), NEW dst \in Operand, NEW byte
    PROVE  /\ Running(Write(x, dst, byte), s) /\ Running(Read(x, dst, byte), s)
           /\ Running(Modify(x, dst, byte), s)
<1>1. Running(Decode(x, dst, byte), s)
  BY DecodeRuns
<1>2. Running(Get(Decode(x, dst, byte), dst), s) /\ Running(Put(Decode(x, dst, byte), dst), s)
  BY <1>1, GetRuns, PutRuns
<1>3. Running(Put(Get(Decode(x, dst, byte), dst), dst), s)
  BY <1>2, PutRuns
<1>. QED BY <1>2, <1>3, LeaveRuns DEF Write, Read, Modify

LEMMA TwoOperandRuns ==
    ASSUME NEW x, NEW s, Running(x, s), NEW src \in Operand, NEW dst \in Operand, NEW byte
    PROVE  /\ Running(Copy(x, src, dst, byte), s) /\ Running(Compare(x, src, dst, byte), s)
           /\ Running(Combine(x, src, dst, byte), s)
<1>. DEFINE y == DecodeNext(Get(Decode(x, src, byte), src), dst, byte)
<1>1. Running(y, s)
  <2>1. Running(Get(Decode(x, src, byte), src), s)
    BY DecodeRuns, GetRuns
  <2> QED BY <2>1, DecodeNextRuns
<1>2. /\ Copy(x, src, dst, byte) = Leave(Put(y, dst)) /\ Compare(x, src, dst, byte) = Leave(Get(y, dst))
      /\ Combine(x, src, dst, byte) = Leave(Put(Get(y, dst), dst))
  BY DEF Copy, Compare, Combine
<1>. HIDE DEF y
<1>3. Running(Put(y, dst), s) /\ Running(Get(y, dst), s)
  BY <1>1, PutRuns, GetRuns
<1>4. Running(Put(Get(y, dst), dst), s)
  BY <1>3, PutRuns
<1>. QED BY <1>2, <1>3, <1>4, LeaveRuns

LEMMA MultiplyRuns ==
    ASSUME NEW x, NEW s, Running(x, s), NEW dst \in Operand
    PROVE  Running(Multiply(x, dst), s)
<1>. DEFINE y == Read(x, dst, FALSE)
            a == [y EXCEPT !.r[0] = x.value]
            b == [a EXCEPT !.r[1] = x.value]
<1>1. Running(y, s)
  BY OneOperandRuns
<1>2. Multiply(x, dst) = IF y.abort THEN y ELSE b
  BY DEF Multiply
<1>3. x.value \in Words /\ 0 \in Regs /\ 1 \in Regs
  BY DEF Running, Whole, Sound, Typed, Regs
<1>. HIDE DEF y
<1>4. Running(a, s)
  BY <1>1, <1>3, LoadRuns
<1>. HIDE DEF a
<1>5. Running(b, s)
  BY <1>3, <1>4, LoadRuns
<1>. QED BY <1>1, <1>2, <1>5

LEMMA TestAndSetWhole ==
    ASSUME NEW x, NEW s, Running(x, s), NEW dst \in Operand
    PROVE  Whole(TestAndSet(x, dst), s)
<1>. DEFINE y == Get(Decode(x, dst, FALSE), dst)
            a == [y EXCEPT !.r[0] = x.value]
            b == IF y.abort THEN y ELSE Put(a, dst)
<1>1. Running(y, s)
  BY DecodeRuns, GetRuns
<1>2. x.value \in Words /\ 0 \in Regs
  BY DEF Running, Whole, Sound, Typed, Regs
<1>3. TestAndSet(x, dst) = IF IsReg(dst) THEN Trap(x) ELSE Leave(b)
  BY DEF TestAndSet
<1>. HIDE DEF y
<1>4. Running(a, s)
  BY <1>1, <1>2, LoadRuns
<1>. HIDE DEF a
<1>5. Running(b, s)
  BY <1>1, <1>4, PutRuns
<1>. HIDE DEF b
<1>6. Whole(Leave(b), s) /\ Whole(Trap(x), s)
  BY <1>5, LeaveRuns, RunningWhole, TrapWhole
<1>. QED BY <1>3, <1>6

LEMMA JumpWhole ==
    ASSUME NEW x, NEW s, Running(x, s), NEW dst \in Operand
    PROVE  Whole(Jump(x, dst), s)
<1>. DEFINE y == Decode(x, dst, FALSE)
            a == [y EXCEPT !.r[7] = x.value]
            b == IF y.abort THEN y ELSE a
<1>1. Running(y, s)
  BY DecodeRuns
<1>2. x.value \in Words /\ 7 \in Regs
  BY DEF Running, Whole, Sound, Typed, Regs
<1>3. Jump(x, dst) = IF IsReg(dst) THEN Trap(x) ELSE Leave(b)
  BY DEF Jump
<1>. HIDE DEF y
<1>4. Running(a, s)
  BY <1>1, <1>2, LoadRuns
<1>. HIDE DEF a
<1>5. Running(b, s)
  BY <1>1, <1>4
<1>. HIDE DEF b
<1>6. Whole(Leave(b), s) /\ Whole(Trap(x), s)
  BY <1>5, LeaveRuns, RunningWhole, TrapWhole
<1>. QED BY <1>3, <1>6

LEMMA CallWhole ==
    ASSUME NEW x, NEW s, Running(x, s), s.r[7] \in Words, NEW reg \in {1, 7}, NEW dst \in Operand
    PROVE  Whole(Call(x, reg, dst), s)
<1>. DEFINE y == Leave(Decode(x, dst, FALSE))
            z == IF y.abort THEN y ELSE Access(NoteStack(Move(y, 6, 0 - 2)))
            a == [z EXCEPT !.r[reg] = z.r[7]]
            b == [a EXCEPT !.r[7] = x.value]
            c == [z EXCEPT !.r = [[@ EXCEPT ![reg] = z.r[7]] EXCEPT ![7] = x.value]]
<1>1. Running(y, s)
  BY DecodeRuns, LeaveRuns
<1>2. x.value \in Words /\ 7 \in Regs /\ 6 \in Regs /\ 0 - 2 \in Int /\ reg \in Regs
  BY DEF Running, Whole, Sound, Typed, Regs
<1>3. Call(x, reg, dst) = IF IsReg(dst) THEN Trap(x) ELSE IF z.abort THEN z ELSE c
  BY DEF Call
<1>. HIDE DEF y
<1>4. Running(z, s)
  BY <1>1, <1>2, MoveRuns, NoteRuns, AccessRuns
<1>. HIDE DEF z
<1>5. ASSUME ~z.abort PROVE Running(c, s)
  <2>1. z.r[7] \in Words
    BY <1>4, <1>5 DEF Running
  <2>2. Running(a, s)
    BY <1>2, <1>4, <2>1, LoadRuns
  <2>3. "r" \in DOMAIN z
    BY <1>4 DEF Running, Whole, Sound, Typed, Fields
  <2>4. c = b
    BY <2>3
  <2>. HIDE DEF a, c
  <2>5. Running(b, s)
    BY <1>2, <2>2, LoadRuns
  <2> QED BY <2>4, <2>5
<1>. HIDE DEF c
<1>6. Whole(z, s) /\ Whole(Trap(x), s) /\ (~z.abort => Whole(c, s))
  BY <1>4, <1>5, RunningWhole, TrapWhole
<1>. QED BY <1>3, <1>6

LEMMA PullRuns == ASSUME NEW x, NEW s, Running(x, s) PROVE Running(Pull(x), s)
<1>. DEFINE y == Access(x)
            a == [y EXCEPT !.r[6] = Word(y.r[6] + 2)]
            b == [a EXCEPT !.did = @ \cup {"pull"}]
<1>1. Running(y, s)
  BY AccessRuns
<1>2. Pull(x) = b
  BY DEF Pull
<1>. HIDE DEF y
<1>3. Word(y.r[6] + 2) \in Words /\ 6 \in Regs
  <2>0. y.r[6] \in Int
    <3>1. y.r[6] \in Words
      BY <1>1, RegisterFacts DEF Running, Whole, Sound, Typed
    <3> QED BY <3>1, WordFacts
  <2>1. y.r[6] + 2 \in Int
    BY <2>0
  <2> QED BY <2>1, WordType DEF Regs
<1>4. Running(a, s)
  BY <1>1, <1>3, LoadRuns
<1>. HIDE DEF a
<1>5. Stepped(a, b) /\ b.r = a.r
  BY <1>4, LogSteps DEF Running, Whole, Sound
<1>. HIDE DEF b
<1>6. Running(b, s)
  BY <1>4, <1>5, SteppedRuns DEF Running
<1>. QED BY <1>2, <1>6

LEMMA ReturnRuns ==
    ASSUME NEW x, NEW s, Running(x, s), ~x.abort, s.r[7] \in Words, NEW reg \in {1, 7}
    PROVE  Running(Return(x, reg), s)
<1>. DEFINE a == [x EXCEPT !.r[7] = x.r[reg]]
            y == Pull(a)
            b == [y EXCEPT !.r[reg] = x.value]
<1>1. x.value \in Words /\ x.r[reg] \in Words /\ 7 \in Regs /\ reg \in Regs
  BY RegisterFacts DEF Running, Whole, Sound, Typed, Regs
<1>2. Return(x, reg) = b
  BY DEF Return
<1>3. Running(a, s)
  BY <1>1, LoadRuns
<1>. HIDE DEF a
<1>4. Running(y, s)
  BY <1>3, PullRuns
<1>. HIDE DEF y
<1>5. Running(b, s)
  BY <1>1, <1>4, LoadRuns
<1>. QED BY <1>2, <1>5

LEMMA MarkRuns ==
    ASSUME NEW x, NEW s, Running(x, s), ~x.abort, s.r[7] \in Words
    PROVE  Running(Mark(x), s)
<1>. DEFINE v == Word(x.r[7] + 2)
            a == [x EXCEPT !.r[6] = v]
            b == [a EXCEPT !.r[7] = x.r[1]]
<1>1. v \in Words /\ x.r[1] \in Words /\ 6 \in Regs /\ 7 \in Regs
  <2>0. x.r[7] \in Int
    <3>1. x.r[7] \in Words
      BY DEF Running
    <3> QED BY <3>1, WordFacts
  <2>1. x.r[7] + 2 \in Int
    BY <2>0
  <2> QED BY <2>1, WordType, RegisterFacts DEF Running, Whole, Sound, Typed, Regs
<1>2. Mark(x) = Pull(b)
  BY DEF Mark
<1>. HIDE DEF v
<1>3. Running(a, s)
  BY <1>1, LoadRuns
<1>. HIDE DEF a
<1>4. Running(b, s)
  BY <1>1, <1>3, LoadRuns
<1>. HIDE DEF b
<1>. QED BY <1>2, <1>4, PullRuns

-----------------------------------------------------------------------------
(* Instructions that change the PSW or the stack pointer of another mode.  *)

\* A new PSW changes nothing that is not its own.
LEMMA PswWhole ==
    ASSUME NEW x, NEW s, Whole(x, s), NEW new \in Psws,
           Kernel(s.psw) \/ Framed(x) \/ (new.cur # 0 /\ new.ipl = s.psw.ipl)
    PROVE  Whole(SetPsw(x, new), s)
<1>. DEFINE y == SetPsw(x, new)
<1>1. Typed(y) /\ Beside(x, y) /\ y.psw = new /\ Selected(x, y)
  BY SetPswParts DEF Whole, Sound
<1>. HIDE DEF y
<1>2. Framed(y) <=> Framed(x)
  BY <1>1 DEF Beside, Framed
<1>3. Stacked(y, s)
  BY <1>1, <1>2 DEF Beside, Selected, Whole, Sound, Stacked
<1>4. Noted(y, s)
  BY <1>1 DEF Beside, Whole, Sound, Noted
<1>5. y.psw.cur # 0 => y.spInit
  BY <1>1 DEF Selected, Whole, Sound
<1>6. Guarded(y, s)
  BY <1>1, <1>2 DEF Guarded, Kernel
<1>7. y.abort = x.abort /\ y.did = x.did /\ y.acked = x.acked /\ y.taken = x.taken
  BY <1>1 DEF Beside
<1>8. Whole(y, s)
  BY <1>1, <1>3, <1>4, <1>5, <1>6, <1>7 DEF Whole, Sound
<1>. QED BY <1>8 DEF y

\* Fields that the proofs are not about.
Twin(x, y) == Typed(y) /\ Around(x, y) /\ y.r = x.r

LEMMA OtherFields ==
    ASSUME NEW x, Typed(x), NEW v
    PROVE  /\ Twin(x, [x EXCEPT !.trace = v]) /\ Twin(x, [x EXCEPT !.wait = v])
           /\ Twin(x, [x EXCEPT !.pushed = v]) /\ Twin(x, [x EXCEPT !.inStackTrap = v])
           /\ Twin(x, [x EXCEPT !.fails = v])
<1>. DEFINE a == [x EXCEPT !.trace = v]
            b == [x EXCEPT !.wait = v]
            c == [x EXCEPT !.pushed = v]
            d == [x EXCEPT !.inStackTrap = v]
            e == [x EXCEPT !.fails = v]
<1>1. Fields(a) /\ Around(x, a) /\ a.r = x.r
  BY DEF Typed, Fields, Around, Beside
<1>2. Fields(b) /\ Around(x, b) /\ b.r = x.r
  BY DEF Typed, Fields, Around, Beside
<1>3. Fields(c) /\ Around(x, c) /\ c.r = x.r
  BY DEF Typed, Fields, Around, Beside
<1>4. Fields(d) /\ Around(x, d) /\ d.r = x.r
  BY DEF Typed, Fields, Around, Beside
<1>5. Fields(e) /\ Around(x, e) /\ e.r = x.r
  BY DEF Typed, Fields, Around, Beside
<1>. HIDE DEF a, b, c, d, e
<1>6. ASSUME NEW y, Fields(y), Around(x, y), y.r = x.r PROVE Twin(x, y)
  BY <1>6 DEF Typed, Around, Beside, Twin
<1>7. Twin(x, a) /\ Twin(x, b) /\ Twin(x, c) /\ Twin(x, d) /\ Twin(x, e)
  BY <1>1, <1>2, <1>3, <1>4, <1>5, <1>6
<1>. QED BY <1>7 DEF a, b, c, d, e

LEMMA TwinSteps == ASSUME NEW x, NEW y, Typed(x), Twin(x, y) PROVE Stepped(x, y) /\ y.r = x.r
BY AlikeSteps DEF Twin

LEMMA TwinRuns == ASSUME NEW x, NEW y, NEW s, Running(x, s), Twin(x, y) PROVE Running(y, s)
BY TwinSteps, SteppedRuns DEF Running, Whole, Sound

LEMMA TwinWhole == ASSUME NEW x, NEW y, NEW s, Whole(x, s), Twin(x, y) PROVE Whole(y, s)
BY TwinSteps, SteppedSound DEF Whole, Sound, Stepped

LEMMA ProtectPswType ==
    ASSUME NEW old \in Psws, NEW new \in Psws
    PROVE  LET p == ProtectPsw(old, new)
           IN  p \in Psws /\ p.ipl = old.ipl /\ (old.cur # 0 => p.cur # 0)
<1>. DEFINE p == ProtectPsw(old, new)
            c == OrMode(old.cur, new.cur)
            v == OrMode(old.prev, new.prev)
            t == IF old.set = 1 THEN 1 ELSE new.set
<1>1. c \in Modes /\ v \in Modes /\ t \in {0, 1} /\ (old.cur # 0 => c # 0)
  BY DEF Psws, Modes, OrMode
<1>2. p = [new EXCEPT !.cur = c, !.prev = v, !.set = t, !.ipl = old.ipl]
  BY DEF ProtectPsw
<1>3. old.ipl \in 0 .. 7
  BY DEF Psws
<1>. HIDE DEF p, c, v, t
<1>4. p = [cur |-> c, prev |-> v, set |-> t, ipl |-> old.ipl, t |-> new.t] /\ new.t \in BOOLEAN
  BY <1>2 DEF Psws
<1>5. p \in Psws
  BY <1>1, <1>3, <1>4 DEF Psws
<1>. QED BY <1>1, <1>4, <1>5 DEF p

LEMMA ReturnInterruptWhole ==
    ASSUME NEW x, NEW s, Running(x, s), ~x.abort, NEW popped \in PoppedPsws, NEW rtt
    PROVE  Whole(ReturnInterrupt(x, popped, rtt), s)
<1>. DEFINE one   == Pull(x)
            two   == Pull(one)
            found == IF two.accesses \in two.fails THEN [InitPsw EXCEPT !.ipl = 0] ELSE popped
            new   == IF Kernel(x.psw) THEN found ELSE ProtectPsw(x.psw, found)
            a     == [two EXCEPT !.r[7] = one.value]
            b     == SetPsw(a, new)
            v     == IF ~rtt /\ new.t THEN "trap" ELSE "none"
            c     == [b EXCEPT !.trace = v]
<1>1. Running(one, s) /\ Running(two, s)
  BY PullRuns
<1>2. ReturnInterrupt(x, popped, rtt) = c
  BY DEF ReturnInterrupt
<1>3. one.value \in Words /\ 7 \in Regs /\ x.psw \in Psws /\ x.psw = s.psw
  BY <1>1 DEF Running, Whole, Sound, Typed, Regs
<1>4. found \in Psws
  <2>1. popped \in Psws
    BY CpuAssumption
  <2>2. [InitPsw EXCEPT !.ipl = 0] \in Psws
    <3>1. InitPsw \in Psws
      BY DEF InitPsw, Psws, Modes
    <3> QED BY <3>1 DEF Psws
  <2> QED BY <2>1, <2>2
<1>. HIDE DEF one, two, found
<1>5. new \in Psws /\ (Kernel(s.psw) \/ (new.cur # 0 /\ new.ipl = s.psw.ipl))
  BY <1>3, <1>4, ProtectPswType DEF Kernel
<1>. HIDE DEF new, v
<1>6. Running(a, s)
  BY <1>1, <1>3, LoadRuns
<1>. HIDE DEF a
<1>7. Whole(b, s)
  BY <1>5, <1>6, PswWhole, RunningWhole
<1>. HIDE DEF b
<1>8. Whole(c, s)
  BY <1>7, OtherFields, TwinWhole DEF Whole, Sound
<1>. QED BY <1>2, <1>8

LEMMA InitRuns == ASSUME NEW x, NEW s, Running(x, s) PROVE Running(SpInit(x), s)
<1>. DEFINE y == SpInit(x)
<1>1. /\ Typed(y) /\ Beside(x, y) /\ y.r = x.r /\ y.psw = x.psw /\ y.bank = x.bank
      /\ y.spInit /\ \A k \in Modes : y.sp[k] = IF x.spInit THEN x.sp[k] ELSE x.r[6]
  BY SpInitParts DEF Running, Whole, Sound
<1>. HIDE DEF y
<1>2. Framed(y) <=> Framed(x)
  BY <1>1 DEF Beside, Framed
<1>3. \A k \in Modes : StackPointer(y, k) = StackPointer(x, k)
  BY <1>1 DEF StackPointer
<1>4. Stacked(y, s)
  BY <1>1, <1>2, <1>3 DEF Beside, Running, Whole, Sound, Stacked
<1>5. Sound(y, s)
  BY <1>1, <1>2, <1>4 DEF Beside, Running, Whole, Sound, Guarded, Noted
<1>6. Running(y, s)
  BY <1>1, <1>2, <1>5 DEF Beside, Running, Whole
<1>. QED BY <1>6 DEF y

LEMMA FromPreviousRuns ==
    ASSUME NEW x, NEW s, Running(x, s), NEW dst \in Operand
    PROVE  Running(FromPrevious(x, dst), s)
<1>. DEFINE sp   == dst = <<0, 6>>
            y    == IF sp THEN SpInit(x) ELSE Get(Decode(x, dst, FALSE), dst)
            word == IF ~sp THEN y.value ELSE y.sp[PrevMode(y.psw)]
            z    == Access(NoteStack(Move(y, 6, 0 - 2)))
            v    == IF sp /\ ~z.abort THEN word ELSE z.pushed
            c    == [z EXCEPT !.pushed = v]
<1>1. Running(y, s)
  BY InitRuns, DecodeRuns, GetRuns
<1>2. FromPrevious(x, dst) = IF y.abort THEN y ELSE c
  BY DEF FromPrevious
<1>3. 6 \in Regs /\ 0 - 2 \in Int
  BY DEF Regs
<1>. HIDE DEF y
<1>4. Running(z, s)
  BY <1>1, <1>3, MoveRuns, NoteRuns, AccessRuns
<1>. HIDE DEF z, v
<1>5. Running(c, s)
  BY <1>4, OtherFields, TwinRuns DEF Running, Whole, Sound
<1>. QED BY <1>1, <1>2, <1>5

\* A step that may set other stack pointers, and says so.
LEMMA OtherStackWhole ==
    ASSUME NEW x, NEW y, NEW s, Whole(x, s), Typed(y), "other stack" \in y.did, y.spInit,
           x.did \subseteq y.did, y.did \subseteq x.did \cup {"other stack"},
           y.yellow = x.yellow, y.abort = x.abort, y.acked = x.acked, y.taken = x.taken,
           Guarded(y, s)
    PROVE  Whole(y, s)
<1>1. Stacked(y, s)
  BY DEF Stacked
<1>2. {"refused", "red"} \cap x.did # {} => {"refused", "red"} \cap y.did # {}
  OBVIOUS
<1>3. "yellow" \in y.did => "yellow" \in x.did
  OBVIOUS
<1>4. Noted(y, s)
  BY <1>2, <1>3 DEF Whole, Sound, Noted
<1>. QED BY <1>1, <1>2, <1>4 DEF Whole, Sound

LEMMA ToPreviousWhole ==
    ASSUME NEW x, NEW s, Running(x, s), ~x.abort, NEW dst \in Operand
    PROVE  Whole(ToPrevious(x, dst), s)
<1>. DEFINE y    == Decode(x, dst, FALSE)
            z    == IF y.abort THEN y ELSE Access(y)
            p    == Move(z, 6, 2)
            mode == PrevMode(x.psw)
            i    == SpInit(p)
            g    == [i.sp EXCEPT ![mode] = x.value]
            d    == i.did \cup {"other stack"}
            q    == [i EXCEPT !.sp = g, !.did = d]
            v    == IF x.psw.cur = mode THEN x.value ELSE q.r[6]
            w    == [q EXCEPT !.r[6] = v]
<1>1. Running(y, s)
  BY DecodeRuns
<1>2. ToPrevious(x, dst) = IF z.abort THEN z ELSE IF dst = <<0, 6>> THEN w ELSE Codes(Put(p, dst))
  BY DEF ToPrevious
<1>3. 6 \in Regs /\ 2 \in Int /\ x.value \in Words
  BY DEF Running, Whole, Sound, Typed, Regs
<1>. HIDE DEF y, mode
<1>4. Running(z, s)
  BY <1>1, AccessRuns
<1>. HIDE DEF z
<1>5. Running(p, s)
  BY <1>3, <1>4, MoveRuns
<1>. HIDE DEF p
<1>6. Running(i, s) /\ i.spInit
  BY <1>5, InitRuns, SpInitParts DEF Running, Whole, Sound
<1>. HIDE DEF i
<1>7. g \in [Modes -> Words]
  BY <1>3, <1>6 DEF Running, Whole, Sound, Typed
<1>. HIDE DEF g, d
<1>8. Fields(q) /\ q.sp = g /\ q.did = d /\ q.r = i.r /\ q.psw = i.psw /\ q.spInit = i.spInit
      /\ q.bank = i.bank /\ q.abort = i.abort /\ q.yellow = i.yellow
      /\ q.irq = i.irq /\ q.value = i.value /\ q.frame = i.frame
      /\ q.acked = i.acked /\ q.taken = i.taken
  BY <1>6 DEF Running, Whole, Sound, Typed, Fields
<1>. HIDE DEF q
<1>9. Typed(q)
  BY <1>6, <1>7, <1>8 DEF Running, Whole, Sound, Typed
<1>10. v \in Words
  BY <1>3, <1>9, RegisterFacts DEF Typed
<1>. HIDE DEF v
<1>11. Typed(w) /\ Around(q, w)
  BY <1>3, <1>9, <1>10, LoadParts
<1>. HIDE DEF w
<1>12. /\ w.did = i.did \cup {"other stack"} /\ w.psw = i.psw /\ w.spInit = i.spInit
       /\ w.abort = i.abort /\ w.yellow = i.yellow /\ w.frame = i.frame
       /\ w.acked = i.acked /\ w.taken = i.taken
  BY <1>8, <1>11 DEF Around, Beside, d
<1>13. Guarded(w, s)
  BY <1>6, <1>12 DEF Running, Whole, Sound, Guarded, Framed
<1>14. Whole(w, s)
  BY <1>6, <1>11, <1>12, <1>13, OtherStackWhole DEF Running
<1>15. Whole(z, s) /\ Whole(Codes(Put(p, dst)), s)
  BY <1>4, <1>5, PutRuns, CodesRuns, RunningWhole
<1>. QED BY <1>2, <1>14, <1>15

LEMMA PushesRun ==
    ASSUME NEW x, NEW s, Running(x, s), NEW dst \in Operand
    PROVE  Running(Pushes(x, dst), s)
<1>. DEFINE y   == Leave(Get(Decode(x, dst, FALSE), dst))
            one == IF y.abort THEN y ELSE Access(y)
            two == IF one.abort THEN one ELSE Access(one)
            z   == IF two.abort THEN two ELSE Access(two)
<1>1. Running(y, s)
  BY DecodeRuns, GetRuns, LeaveRuns
<1>2. Pushes(x, dst) = z
  BY DEF Pushes
<1>. HIDE DEF y
<1>3. Running(one, s)
  BY <1>1, AccessRuns
<1>. HIDE DEF one
<1>4. Running(two, s)
  BY <1>3, AccessRuns
<1>. HIDE DEF two
<1>5. Running(z, s)
  BY <1>4, AccessRuns
<1>. QED BY <1>2, <1>5

LEMMA EnterSupervisorWhole ==
    ASSUME NEW x, NEW s, Running(x, s), ~x.abort
    PROVE  LET y == EnterSupervisor(x)
           IN  Whole(y, s) /\ "other stack" \in y.did /\ ~y.abort
<1>. DEFINE sp    == Word(x.r[6] - 6)
            i     == SpInit(x)
            g     == [i.sp EXCEPT ![x.psw.cur] = x.r[6]]
            h     == [g EXCEPT ![1] = sp]
            e     == [i EXCEPT !.sp = h]
            new   == [x.psw EXCEPT !.prev = x.psw.cur, !.cur = 1, !.t = FALSE]
            p     == SetPsw(e, new)
            c     == [p EXCEPT !.r[6] = sp, !.sp[1] = sp, !.did = @ \cup {"other stack"}]
<1>1. /\ x.psw \in Psws /\ x.psw = s.psw /\ x.psw.cur \in Modes
      /\ 6 \in Regs /\ 1 \in Modes
  BY DEF Running, Whole, Sound, Typed, Regs, Modes, Psws
<1>2. EnterSupervisor(x) = c
  BY DEF EnterSupervisor
<1>3. new \in Psws /\ new.cur = 1 /\ new.ipl = s.psw.ipl
  <2>. DEFINE u == [x.psw EXCEPT !.prev = x.psw.cur]
              v == [u EXCEPT !.cur = 1]
  <2>1. u \in Psws /\ u.ipl = x.psw.ipl
    BY <1>1 DEF Psws
  <2>. HIDE DEF u
  <2>2. v \in Psws /\ v.cur = 1 /\ v.ipl = x.psw.ipl
    BY <1>1, <2>1 DEF Psws
  <2>. HIDE DEF v
  <2>3. [v EXCEPT !.t = FALSE] \in Psws /\ [v EXCEPT !.t = FALSE].cur = 1
        /\ [v EXCEPT !.t = FALSE].ipl = x.psw.ipl
    BY <2>2 DEF Psws
  <2>4. new = [v EXCEPT !.t = FALSE]
    BY DEF u, v
  <2>. HIDE DEF new
  <2> QED BY <1>1, <2>3, <2>4
<1>. HIDE DEF new
<1>4. Running(i, s) /\ i.spInit /\ i.did = x.did /\ i.abort = x.abort
  BY InitRuns, SpInitParts DEF Running, Whole, Sound, Beside
<1>. HIDE DEF i
<1>5. x.r[6] \in Words /\ sp \in Words
  <2>1. x.r[6] \in Words
    BY RegisterFacts DEF Running, Whole, Sound, Typed
  <2>2. x.r[6] \in Int
    BY <2>1, WordFacts
  <2>3. x.r[6] - 6 \in Int
    BY <2>2
  <2> QED BY <2>1, <2>3, WordType
<1>. HIDE DEF sp
<1>6. g \in [Modes -> Words]
  BY <1>1, <1>4, <1>5 DEF Running, Whole, Sound, Typed
<1>7. h \in [Modes -> Words]
  BY <1>1, <1>5, <1>6
<1>8. Typed(i)
  BY <1>4 DEF Running, Whole, Sound
<1>. HIDE DEF g, h, e
<1>9. Fields(e) /\ e.sp = h /\ e.r = i.r /\ e.psw = i.psw /\ e.spInit = i.spInit
       /\ e.did = i.did /\ e.bank = i.bank /\ e.abort = i.abort /\ e.yellow = i.yellow
       /\ e.irq = i.irq /\ e.value = i.value /\ e.frame = i.frame
       /\ e.acked = i.acked /\ e.taken = i.taken
  BY <1>8 DEF Typed, Fields, e
<1>10. Typed(e)
  BY <1>7, <1>8, <1>9 DEF Typed
<1>11. Typed(p) /\ Beside(e, p) /\ p.psw = new /\ Selected(e, p)
  BY <1>3, <1>10, SetPswParts
<1>. HIDE DEF p
<1>12. p.spInit
  BY <1>4, <1>9, <1>11 DEF Selected
<1>. DEFINE f == [p.r EXCEPT ![6] = sp]
            j == [p.sp EXCEPT ![1] = sp]
            d == p.did \cup {"other stack"}
<1>13. f \in Registers
  BY <1>1, <1>5, <1>11, WordFacts, RegisterSet DEF Typed
<1>14. j \in [Modes -> Words]
  BY <1>1, <1>5, <1>11 DEF Typed
<1>15. c = [p EXCEPT !.r = f, !.sp = j, !.did = d]
  OBVIOUS
<1>. HIDE DEF c, j, d, f
<1>16. Fields(c) /\ c.r = f /\ c.sp = j /\ c.did = d /\ c.psw = p.psw /\ c.spInit = p.spInit
       /\ c.bank = p.bank /\ c.abort = p.abort /\ c.yellow = p.yellow
       /\ c.irq = p.irq /\ c.value = p.value /\ c.frame = p.frame
       /\ c.acked = p.acked /\ c.taken = p.taken
  BY <1>11, <1>15 DEF Typed, Fields
<1>17. Typed(c)
  BY <1>11, <1>13, <1>14, <1>16 DEF Typed
<1>18. /\ c.did = i.did \cup {"other stack"} /\ c.psw = new /\ c.spInit
       /\ c.abort = i.abort /\ c.yellow = i.yellow /\ c.acked = i.acked /\ c.taken = i.taken
  BY <1>9, <1>11, <1>12, <1>16 DEF Beside, d
<1>19. Guarded(c, s)
  <2>1. c.psw.cur = 1 /\ c.psw.ipl = s.psw.ipl
    BY <1>3, <1>18
  <2> QED BY <2>1 DEF Guarded, Kernel
<1>20. Whole(c, s) /\ "other stack" \in c.did /\ ~c.abort
  BY <1>4, <1>17, <1>18, <1>19, OtherStackWhole DEF Running
<1>. QED BY <1>2, <1>20

LEMMA CallSupervisorWhole ==
    ASSUME NEW x, NEW s, Running(x, s), ~x.abort, NEW dst \in Operand
    PROVE  LET y == CallSupervisor(x, dst)
           IN  Whole(y, s) /\ (y = Trap(x) \/ y = Pushes(x, dst) \/ "other stack" \in y.did)
<1>. DEFINE y == Pushes(x, dst)
            w == EnterSupervisor(y)
            z == Access(w)
            e == [z EXCEPT !.r[7] = z.value]
<1>1. CallSupervisor(x, dst) = IF x.psw.cur = 0 THEN Trap(x) ELSE IF y.abort THEN y ELSE e
  BY DEF CallSupervisor
<1>2. Running(y, s) /\ Whole(y, s) /\ Whole(Trap(x), s)
  BY PushesRun, RunningWhole, TrapWhole
<1>3. ASSUME ~y.abort PROVE Whole(e, s) /\ "other stack" \in e.did
  <2>. HIDE DEF y
  <2>1. Whole(w, s) /\ "other stack" \in w.did /\ ~w.abort
    BY <1>2, <1>3, EnterSupervisorWhole
  <2>. HIDE DEF w
  <2>2. Whole(z, s) /\ w.did \subseteq z.did
    BY <2>1, AccessWhole
  <2>. HIDE DEF z
  <2>3. 7 \in Regs \ {6} /\ z.value \in Words
    BY <2>2 DEF Whole, Sound, Typed, Regs
  <2>4. Whole(e, s) /\ z.did \subseteq e.did
    BY <2>2, <2>3, LoadWhole
  <2> QED BY <2>1, <2>2, <2>4
<1>. HIDE DEF e
<1>. QED BY <1>1, <1>2, <1>3

LEMMA PushRuns == ASSUME NEW x, NEW s, Running(x, s) PROVE Running(Push(x), s)
<1>. DEFINE v == Word(x.r[6] - 2)
            a == [x EXCEPT !.r[6] = v]
<1>1. v \in Words /\ 6 \in Regs
  <2>1. x.r[6] \in Words
    BY RegisterFacts DEF Running, Whole, Sound, Typed
  <2>2. x.r[6] \in Int
    BY <2>1, WordFacts
  <2>3. x.r[6] - 2 \in Int
    BY <2>2
  <2> QED BY <2>3, WordType DEF Regs
<1>2. Push(x) = Access(NoteStack(a))
  BY DEF Push
<1>. HIDE DEF v
<1>3. Running(a, s)
  BY <1>1, LoadRuns
<1>. HIDE DEF a
<1>. QED BY <1>2, <1>3, NoteRuns, AccessRuns

LEMMA HandleHaltWhole == ASSUME NEW x, NEW s, Running(x, s) PROVE Whole(HandleHalt(x), s)
<1>. DEFINE p   == Push(Push(x))
            new == [cur |-> 0, prev |-> 0, set |-> 0, ipl |-> 7, t |-> FALSE]
            q   == SetPsw(p, new)
            f   == [q.r EXCEPT ![7] = HandlerPc]
            d   == q.did \cup {"halt"}
            y   == [q EXCEPT !.r = f, !.did = d]
<1>1. Running(p, s)
  BY PushRuns
<1>2. HandleHalt(x) = y
  BY DEF HandleHalt
<1>. HIDE DEF p
<1>3. new \in Psws /\ new.cur = 0
  BY DEF Psws, Modes
<1>. HIDE DEF new
<1>4. Typed(q) /\ Beside(p, q) /\ q.psw = new /\ Selected(p, q)
  BY <1>1, <1>3, SetPswParts DEF Running, Whole, Sound
<1>. HIDE DEF q
<1>5. f \in Registers /\ \A k \in Regs \ {7} : f[k] = q.r[k]
  BY <1>4, WordFacts, RegisterSet DEF Typed, Regs, HandlerPc
<1>. HIDE DEF f, d
<1>6. Fields(y) /\ y.r = f /\ y.did = d /\ y.psw = q.psw /\ y.sp = q.sp /\ y.spInit = q.spInit
      /\ y.bank = q.bank /\ y.abort = q.abort /\ y.yellow = q.yellow
      /\ y.irq = q.irq /\ y.value = q.value /\ y.frame = q.frame
      /\ y.acked = q.acked /\ y.taken = q.taken
  BY <1>4 DEF Typed, Fields
<1>. HIDE DEF y
<1>7. Typed(y)
  BY <1>4, <1>5, <1>6 DEF Typed
<1>8. y.did = p.did \cup {"halt"}
  BY <1>4, <1>6 DEF Beside, d
<1>9. Framed(y)
  BY <1>8 DEF Framed
<1>10. Stacked(y, s)
  <2>1. ASSUME NEW k \in Modes PROVE StackPointer(y, k) = StackPointer(p, k)
    <3>1. y.r[6] = q.r[6]
      BY <1>5, <1>6 DEF Regs
    <3>2. StackPointer(y, k) = StackPointer(q, k)
      BY <1>6, <3>1 DEF StackPointer
    <3> QED BY <1>4, <3>2 DEF Selected
  <2>2. p.spInit => y.spInit
    BY <1>4, <1>6 DEF Selected
  <2> QED BY <1>1, <1>8, <1>9, <2>1, <2>2 DEF Running, Whole, Sound, Stacked
<1>11. {"refused", "red"} \cap p.did # {} => {"refused", "red"} \cap y.did # {}
  BY <1>8
<1>12. Noted(y, s) /\ (y.abort => {"refused", "red"} \cap y.did # {}) /\ y.acked = y.taken
  BY <1>1, <1>4, <1>6, <1>8, <1>11 DEF Running, Whole, Sound, Noted, Beside
<1>13. y.psw.cur = 0
  BY <1>3, <1>4, <1>6
<1>14. Whole(y, s)
  BY <1>7, <1>9, <1>10, <1>12, <1>13 DEF Whole, Sound, Guarded
<1>. QED BY <1>2, <1>14

LEMMA HaltWhole == ASSUME NEW x, NEW s, Running(x, s) PROVE Whole(Halt(x), s)
BY HandleHaltWhole, TrapWhole, RunningWhole DEF Halt

\* The priority changes, in kernel mode.
LEMMA PriorityWhole ==
    ASSUME NEW x, NEW s, Whole(x, s), Kernel(s.psw), NEW ipl \in 0 .. 7
    PROVE  Whole([x EXCEPT !.psw.ipl = ipl], s)
<1>. DEFINE new == [x.psw EXCEPT !.ipl = ipl]
            y   == [x EXCEPT !.psw.ipl = ipl]
<1>1. y = [x EXCEPT !.psw = new]
  OBVIOUS
<1>2. new \in Psws /\ new.cur = x.psw.cur
  BY DEF Whole, Sound, Typed, Psws
<1>. HIDE DEF new, y
<1>3. Fields(y) /\ y.psw = new /\ y.r = x.r /\ y.sp = x.sp /\ y.spInit = x.spInit
      /\ y.did = x.did /\ y.bank = x.bank /\ y.abort = x.abort /\ y.yellow = x.yellow
      /\ y.irq = x.irq /\ y.value = x.value /\ y.frame = x.frame
      /\ y.acked = x.acked /\ y.taken = x.taken
  BY <1>1 DEF Whole, Sound, Typed, Fields
<1>4. Typed(y)
  BY <1>2, <1>3 DEF Whole, Sound, Typed
<1>5. \A k \in Modes : StackPointer(y, k) = StackPointer(x, k)
  BY <1>2, <1>3 DEF StackPointer
<1>6. Framed(y) <=> Framed(x)
  BY <1>3 DEF Framed
<1>7. Stacked(y, s)
  BY <1>3, <1>5, <1>6 DEF Whole, Sound, Stacked
<1>8. Whole(y, s)
  BY <1>2, <1>3, <1>4, <1>7 DEF Whole, Sound, Guarded, Noted
<1>. QED BY <1>8 DEF y

LEMMA LoadPriorityWhole ==
    ASSUME NEW x, NEW s, Running(x, s), ~x.abort, NEW dst \in Operand, NEW ipl \in {0, 7}
    PROVE  Whole(LoadPriority(x, dst, ipl), s) /\ Whole(SetPriority(x, ipl), s)
<1>. DEFINE y == Read(x, dst, TRUE)
            a == [y EXCEPT !.psw.ipl = ipl]
            b == [x EXCEPT !.psw.ipl = ipl]
<1>1. Whole(y, s) /\ Whole(x, s) /\ ipl \in 0 .. 7
  <2>1. Running(y, s)
    BY OneOperandRuns
  <2>. HIDE DEF y
  <2> QED BY <2>1, RunningWhole
<1>2. LoadPriority(x, dst, ipl) = IF y.abort \/ ~Kernel(x.psw) THEN y ELSE a
  BY DEF LoadPriority
<1>3. SetPriority(x, ipl) = IF Kernel(x.psw) THEN b ELSE x
  BY DEF SetPriority
<1>4. x.psw = s.psw
  BY DEF Running
<1>. HIDE DEF y
<1>5. ASSUME Kernel(x.psw) PROVE Whole(a, s) /\ Whole(b, s)
  BY <1>1, <1>4, <1>5, PriorityWhole
<1>. HIDE DEF a, b
<1>. QED BY <1>1, <1>2, <1>3, <1>5

LEMMA WaitRuns == ASSUME NEW x, NEW s, Running(x, s) PROVE Running(Wait(x), s)
<1>. DEFINE a == [x EXCEPT !.wait = TRUE]
            b == [a EXCEPT !.trace = "none"]
<1>1. Wait(x) = b
  BY DEF Wait
<1>2. Running(a, s)
  BY OtherFields, TwinRuns DEF Running, Whole, Sound
<1>. HIDE DEF a
<1>3. Running(b, s)
  BY <1>2, OtherFields, TwinRuns DEF Running, Whole, Sound
<1>. QED BY <1>1, <1>3

LEMMA ResetRuns == ASSUME NEW x, NEW s, Running(x, s) PROVE Running(Reset(x), s)
<1>. DEFINE y == [x EXCEPT !.irq = {}, !.frozen = FALSE]
<1>1. Fields(y) /\ y.irq = {} /\ y.psw = x.psw /\ y.r = x.r /\ y.sp = x.sp /\ y.spInit = x.spInit
      /\ y.did = x.did /\ y.bank = x.bank /\ y.abort = x.abort /\ y.yellow = x.yellow
      /\ y.value = x.value /\ y.frame = x.frame /\ y.acked = x.acked /\ y.taken = x.taken
  BY DEF Running, Whole, Sound, Typed, Fields
<1>2. Reset(x) = IF Kernel(x.psw) THEN y ELSE x
  BY DEF Reset
<1>. HIDE DEF y
<1>3. Typed(y)
  BY <1>1 DEF Running, Whole, Sound, Typed
<1>4. Stepped(x, y) /\ y.r = x.r
  BY <1>1, <1>3 DEF Stepped
<1>5. Running(y, s)
  BY <1>4, SteppedRuns DEF Running
<1>. QED BY <1>2, <1>5

-----------------------------------------------------------------------------
(* Interrupts.                                                             *)

\* One acknowledged by a machine that is at the start of a handler is owed.
Owes(x) == x.acked = x.taken \/ (x.abort /\ \E l : x.acked = x.taken \cup {l})

LEMMA HighestAsks ==
    ASSUME NEW S \in SUBSET (1 .. 7), S # {}
    PROVE  \E k \in S : \A j \in S : j <= k
<1>. DEFINE T == {n \in Nat : n <= 7 /\ 7 - n \in S}
<1>1. T # {} /\ T \in SUBSET Nat
  <2>1. PICK k : k \in S
    OBVIOUS
  <2>2. 7 - k \in Nat /\ 7 - k <= 7 /\ 7 - (7 - k) = k
    BY <2>1
  <2>3. 7 - k \in T
    BY <2>1, <2>2
  <2> QED BY <2>3
<1>2. PICK n \in T : \A i \in T : n <= i
  BY <1>1, LeastNatural
<1>3. ASSUME NEW j \in S PROVE j <= 7 - n
  <2>1. 7 - j \in Nat /\ 7 - j <= 7 /\ 7 - (7 - j) = j
    OBVIOUS
  <2>2. 7 - j \in T
    BY <2>1
  <2>3. n <= 7 - j /\ n \in Nat
    BY <1>2, <2>2
  <2> QED BY <2>3
<1>. QED BY <1>2, <1>3

LEMMA InterruptOwes ==
    ASSUME NEW x, NEW s, Whole(x, s), Asking(x) # {}
    PROVE  Sound(Interrupt(x), s) /\ Owes(Interrupt(x))
<1>. DEFINE l == CHOOSE k \in Asking(x) : \A j \in Asking(x) : j <= k
            i == x.irq \ {l}
            c == x.acked \cup {l}
            a == [x EXCEPT !.irq = i, !.acked = c]
            t == TakeVector(a, x.r[7], x.psw, l)
            k == IF x.abort THEN t.taken ELSE t.taken \cup {l}
            y == [t EXCEPT !.taken = k]
<1>1. Interrupt(x) = y
  BY DEF Interrupt
<1>2. l \in 0 .. 7
  <2>1. Asking(x) \in SUBSET (1 .. 7)
    BY CpuAssumption DEF Asking, Whole, Sound, Typed
  <2>2. \E b \in Asking(x) : \A j \in Asking(x) : j <= b
    BY <2>1, HighestAsks
  <2>3. l \in Asking(x)
    BY <2>2
  <2>4. l \in 1 .. 7
    BY <2>1, <2>3
  <2> QED BY <2>4
<1>. HIDE DEF l
<1>3. i \subseteq Levels
  BY DEF Whole, Sound, Typed
<1>. HIDE DEF i, c
<1>4. /\ Fields(a) /\ a.irq = i /\ a.acked = c /\ a.psw = x.psw /\ a.r = x.r /\ a.sp = x.sp
      /\ a.spInit = x.spInit /\ a.did = x.did /\ a.bank = x.bank /\ a.abort = x.abort
      /\ a.yellow = x.yellow /\ a.value = x.value /\ a.frame = x.frame /\ a.taken = x.taken
  BY DEF Whole, Sound, Typed, Fields
<1>. HIDE DEF a
<1>5. Typed(a)
  BY <1>3, <1>4 DEF Whole, Sound, Typed
<1>6. Sound(a, s)
  <2>1. \A m_ \in Modes : StackPointer(a, m_) = StackPointer(x, m_)
    BY <1>4 DEF StackPointer
  <2>2. Framed(a) <=> Framed(x)
    BY <1>4 DEF Framed
  <2>3. Stacked(a, s)
    BY <1>4, <2>1, <2>2 DEF Whole, Sound, Stacked
  <2> QED BY <1>4, <1>5, <2>2, <2>3 DEF Whole, Sound, Guarded, Noted
<1>7. /\ Sound(t, s) /\ (a.abort => t = a) /\ t.acked = a.acked /\ t.taken = a.taken
  <2>1. t = TakeVector(a, a.r[7], a.psw, l)
    BY <1>4
  <2>. HIDE DEF t
  <2> QED BY <1>2, <1>6, <2>1, TrapSound
<1>. HIDE DEF t
<1>. HIDE DEF k
<1>8. /\ Fields(y) /\ y.taken = k /\ y.irq = t.irq /\ y.acked = t.acked /\ y.psw = t.psw
      /\ y.r = t.r /\ y.sp = t.sp /\ y.spInit = t.spInit /\ y.did = t.did /\ y.bank = t.bank
      /\ y.abort = t.abort /\ y.yellow = t.yellow /\ y.value = t.value /\ y.frame = t.frame
  BY <1>7 DEF Sound, Typed, Fields
<1>. HIDE DEF y
<1>9. Typed(y)
  BY <1>7, <1>8 DEF Sound, Typed
<1>10. Sound(y, s)
  <2>1. \A m_ \in Modes : StackPointer(y, m_) = StackPointer(t, m_)
    BY <1>8 DEF StackPointer
  <2>2. Framed(y) <=> Framed(t)
    BY <1>8 DEF Framed
  <2>3. Stacked(y, s)
    BY <1>7, <1>8, <2>1, <2>2 DEF Sound, Stacked
  <2> QED BY <1>7, <1>8, <1>9, <2>2, <2>3 DEF Sound, Guarded, Noted
<1>11. CASE x.abort
  <2>1. y.abort /\ y.acked = x.acked \cup {l} /\ y.taken = x.taken
    BY <1>4, <1>7, <1>8, <1>11 DEF k, c
  <2>2. y.acked = y.taken \cup {l}
    BY <2>1 DEF Whole
  <2>3. Owes(y)
    BY <2>1, <2>2 DEF Owes
  <2> QED BY <1>1, <1>10, <2>3
<1>12. CASE ~x.abort
  <2>1. y.acked = x.acked \cup {l} /\ y.taken = x.taken \cup {l}
    BY <1>4, <1>7, <1>8, <1>12 DEF k, c
  <2>2. Owes(y)
    BY <2>1 DEF Whole, Owes
  <2> QED BY <1>1, <1>10, <2>2
<1>. QED BY <1>11, <1>12

\* One turn of the loop of Interrupts.
Turn(y, n) == IF Asking(y) = {} \/ (n > 1 /\ y.abort) THEN y ELSE Interrupt(y)

Loop(x, n, f) == f = [k \in 0 .. n |-> IF k = 0 THEN x ELSE Turn(f[k - 1], k)]

LEMMA LoopRuns == ASSUME NEW x, NEW n \in Nat PROVE \E f : Loop(x, n, f)
<1>. DEFINE Fails == {k \in Nat : ~\E f : Loop(x, k, f)}
<1>1. Fails = {}
  <2>1. SUFFICES ASSUME Fails # {} PROVE FALSE
    OBVIOUS
  <2>2. PICK k \in Fails : \A j \in Fails : k <= j
    BY <2>1, LeastNatural
  <2>3. CASE k = 0
    <3>1. Loop(x, 0, [j \in 0 .. 0 |-> x])
      BY DEF Loop
    <3> QED BY <2>2, <2>3, <3>1
  <2>4. CASE k # 0
    <3>1. k \in Nat /\ k - 1 \in Nat /\ ~(k <= k - 1)
      BY <2>2, <2>4
    <3>2. PICK f : Loop(x, k - 1, f)
      BY <2>2, <3>1
    <3>. DEFINE g == [j \in 0 .. k |-> IF j = k THEN Turn(f[k - 1], k) ELSE f[j]]
    <3>3. \A j \in 0 .. k - 1 : g[j] = f[j]
      BY <3>1
    <3>4. g[k] = Turn(f[k - 1], k)
      BY <3>1
    <3>5. g = [j \in 0 .. k |-> g[j]]
      OBVIOUS
    <3>. HIDE DEF g
    <3>6. ASSUME NEW j \in 0 .. k
          PROVE  g[j] = IF j = 0 THEN x ELSE Turn(g[j - 1], j)
      <4>1. CASE j = k
        <5>1. k - 1 \in 0 .. k - 1
          BY <3>1
        <5>2. g[k - 1] = f[k - 1]
          BY <3>3, <5>1
        <5> QED BY <2>4, <3>4, <4>1, <5>2
      <4>2. CASE j # k
        <5>1. j \in 0 .. k - 1
          BY <3>1, <4>2
        <5>2. f[j] = IF j = 0 THEN x ELSE Turn(f[j - 1], j)
          BY <3>2, <5>1 DEF Loop
        <5>3. j # 0 => g[j - 1] = f[j - 1]
          BY <3>1, <3>3, <5>1
        <5> QED BY <3>3, <5>1, <5>2, <5>3
      <4> QED BY <4>1, <4>2
    <3>7. Loop(x, k, g)
      BY <3>5, <3>6 DEF Loop
    <3> QED BY <2>2, <3>7
  <2> QED BY <2>3, <2>4
<1>. QED BY <1>1

LEMMA InterruptsOwe ==
    ASSUME NEW x, NEW s, Whole(x, s)
    PROVE  Sound(Interrupts(x), s) /\ Owes(Interrupts(x))
<1>. DEFINE n == Cardinality(Levels)
            a == CHOOSE f : Loop(x, n, f)
            Holds(k) == IF k = 0 THEN Whole(a[k], s) ELSE Sound(a[k], s) /\ Owes(a[k])
            Fails == {k \in Nat : k <= n /\ ~Holds(k)}
<1>1. n \in Nat
  <2>0. 1 \in Int /\ 7 \in Int
    OBVIOUS
  <2>1. IsFiniteSet(1 .. 7)
    BY <2>0, FS_Interval
  <2>2. IsFiniteSet(Levels)
    BY <2>1, CpuAssumption, FS_Subset
  <2> QED BY <2>2, FS_CardinalityType
<1>2. Interrupts(x) = a[n]
  BY DEF Interrupts, Loop, Turn
<1>. HIDE DEF n
<1>3. Loop(x, n, a)
  BY <1>1, LoopRuns
<1>. HIDE DEF a
<1>4. a[0] = x /\ \A k \in 1 .. n : a[k] = Turn(a[k - 1], k)
  <2>1. \A k \in 0 .. n : a[k] = IF k = 0 THEN x ELSE Turn(a[k - 1], k)
    BY <1>3 DEF Loop
  <2> QED BY <1>1, <2>1
<1>5. Holds(0)
  BY <1>4
<1>6. Fails = {}
  <2>1. SUFFICES ASSUME Fails # {} PROVE FALSE
    OBVIOUS
  <2>2. PICK k \in Fails : \A j \in Fails : k <= j
    BY <2>1, LeastNatural
  <2>3. k \in Nat /\ k <= n /\ ~Holds(k) /\ k # 0
    BY <1>5, <2>2
  <2>4. k - 1 \in Nat /\ k - 1 <= n /\ k \in 1 .. n /\ (k > 1 <=> k - 1 # 0)
    BY <1>1, <2>3
  <2>5. Holds(k - 1)
    <3>1. k - 1 \notin Fails
      BY <2>2, <2>3
    <3> QED BY <2>4, <3>1
  <2>6. a[k] = Turn(a[k - 1], k)
    BY <1>4, <2>4
  <2>. DEFINE b == a[k - 1]
  <2>7. Sound(b, s) /\ Owes(b)
    BY <2>5 DEF Whole, Owes
  <2>8. (k > 1 /\ b.abort) \/ Whole(b, s)
    BY <2>4, <2>5 DEF Whole, Owes
  <2>. HIDE DEF b
  <2>9. Sound(Turn(b, k), s) /\ Owes(Turn(b, k))
    BY <2>7, <2>8, InterruptOwes DEF Turn
  <2>10. Sound(a[k], s) /\ Owes(a[k])
    BY <2>6, <2>9 DEF b
  <2> QED BY <2>3, <2>10
<1>7. Holds(n)
  BY <1>1, <1>6
<1>8. Sound(a[n], s) /\ Owes(a[n])
  BY <1>7 DEF Whole, Owes
<1>. QED BY <1>2, <1>8

-----------------------------------------------------------------------------
(* The end of an instruction.                                              *)

LEMMA TwinSound == ASSUME NEW x, NEW y, NEW s, Sound(x, s), Twin(x, y) PROVE Sound(y, s)
BY TwinSteps, SteppedSound DEF Sound

LEMMA StackTrapWhole == ASSUME NEW x, NEW s, Whole(x, s) PROVE Whole(StackTrap(x), s)
<1>. DEFINE d == IF x.abort THEN x.did ELSE x.did \cup {"served"}
            a == [x EXCEPT !.yellow = FALSE, !.did = d]
            b == [x EXCEPT !.yellow = FALSE, !.inStackTrap = TRUE, !.did = d]
            t == TakeVector(b, x.r[7], x.psw, 7)
            y == [t EXCEPT !.inStackTrap = FALSE]
<1>1. StackTrap(x) = y
  <2>1. b = [x EXCEPT !.yellow = FALSE, !.inStackTrap = TRUE,
                      !.did = IF x.abort THEN @ ELSE @ \cup {"served"}]
    OBVIOUS
  <2>. HIDE DEF b
  <2> QED BY <2>1 DEF StackTrap
<1>2. x.abort => {"refused", "red"} \cap d # {}
  BY DEF Whole, Sound
<1>3. ~x.abort => "served" \in d
  OBVIOUS
<1>4. /\ "halt" \in d <=> "halt" \in x.did
      /\ "other stack" \in d <=> "other stack" \in x.did
  OBVIOUS
<1>. HIDE DEF d
<1>5. /\ Fields(b) /\ b.did = d /\ b.yellow = FALSE /\ b.irq = x.irq /\ b.acked = x.acked
      /\ b.taken = x.taken /\ b.psw = x.psw /\ b.r = x.r /\ b.sp = x.sp /\ b.spInit = x.spInit
      /\ b.bank = x.bank /\ b.abort = x.abort /\ b.value = x.value /\ b.frame = x.frame
  BY DEF Whole, Sound, Typed, Fields
<1>. HIDE DEF b
<1>6. Typed(b)
  BY <1>5 DEF Whole, Sound, Typed
<1>7. Sound(b, s)
  <2>1. \A k \in Modes : StackPointer(b, k) = StackPointer(x, k)
    BY <1>5 DEF StackPointer
  <2>2. Framed(b) <=> Framed(x)
    BY <1>4, <1>5 DEF Framed
  <2>3. Stacked(b, s)
    BY <1>4, <1>5, <2>1, <2>2 DEF Whole, Sound, Stacked
  <2>4. Noted(b, s)
    BY <1>2, <1>3, <1>5 DEF Noted
  <2> QED BY <1>2, <1>5, <1>6, <2>2, <2>3, <2>4 DEF Whole, Sound, Guarded
<1>8. Whole(t, s)
  <2>1. t = TakeVector(b, b.r[7], b.psw, 7) /\ 7 \in 0 .. 7
    BY <1>5
  <2>. HIDE DEF t
  <2>2. Sound(t, s) /\ t.acked = b.acked /\ t.taken = b.taken
    BY <1>7, <2>1, TrapSound
  <2> QED BY <1>5, <2>2 DEF Whole
<1>. HIDE DEF t
<1>9. Whole(y, s)
  BY <1>8, OtherFields, TwinWhole DEF Whole, Sound
<1>. QED BY <1>1, <1>9

LEMMA WholeOwes == ASSUME NEW x, NEW s, Whole(x, s) PROVE Sound(x, s) /\ Owes(x)
BY DEF Whole, Owes

LEMMA FinishOwes ==
    ASSUME NEW x, NEW s, Whole(x, s), NEW before
    PROVE  Sound(Finish(x, before), s) /\ Owes(Finish(x, before))
<1>. DEFINE trap == x.trace = "trap" \/ (x.trace = "before" /\ before.t)
            y    == IF trap THEN Trap(x) ELSE x
<1>1. Finish(x, before) = IF "left" \in x.did THEN x
                          ELSE IF y.yellow THEN StackTrap(y)
                          ELSE IF trap THEN y ELSE Interrupts(y)
  BY DEF Finish
<1>2. Whole(y, s)
  BY TrapWhole
<1>. HIDE DEF trap, y
<1>3. Whole(StackTrap(y), s) /\ Sound(Interrupts(y), s) /\ Owes(Interrupts(y))
  BY <1>2, StackTrapWhole, InterruptsOwe
<1>4. /\ Sound(x, s) /\ Owes(x) /\ Sound(y, s) /\ Owes(y)
      /\ Sound(StackTrap(y), s) /\ Owes(StackTrap(y))
  BY <1>2, <1>3, WholeOwes
<1>. QED BY <1>1, <1>3, <1>4

-----------------------------------------------------------------------------
(* An instruction cut off: what MMR1 says of the registers it has moved.   *)

\* Moves of a register add up.
LEMMA WordSum ==
    ASSUME NEW a \in Int, NEW b \in Int
    PROVE  Word(Word(a) + b) = Word(a + b)
<1>. DEFINE n == WordSize
            q == a \div n
            w == a % n
            p == (a + b) \div n
            t == (a + b) % n
<1>1. n \in Nat \ {0} /\ a + b \in Int
  BY WordFacts
<1>2. q \in Int /\ w \in 0 .. n - 1 /\ a = q * n + w
  BY <1>1, Euclid
<1>3. p \in Int /\ t \in 0 .. n - 1 /\ a + b = p * n + t
  BY <1>1, Euclid
<1>4. Word(a) = w /\ Word(a + b) = t /\ Word(w + b) = (w + b) % n
  BY DEF Word
<1>. HIDE DEF q, w, p, t, n
<1>5. (p - q) * n = p * n - q * n /\ p - q \in Int
  BY <1>1, <1>2, <1>3
<1>. DEFINE u == p * n
            v == q * n
<1>6. u \in Int /\ v \in Int
  BY <1>1, <1>2, <1>3
<1>7. w + b = (p - q) * n + t /\ w + b \in Int
  <2>1. a + b = u + t /\ a = v + w /\ (p - q) * n = u - v
    BY <1>2, <1>3, <1>5
  <2>. HIDE DEF u, v
  <2>2. w \in Int /\ t \in Int
    BY <1>1, <1>2, <1>3
  <2>3. w + b = (u - v) + t
    BY <1>6, <2>1, <2>2
  <2> QED BY <2>1, <2>2, <2>3
<1>8. t = (w + b) % n
  <2>. DEFINE e == w + b
              g == p - q
  <2>1. e \in Int /\ g \in Int /\ e = g * n + t
    BY <1>5, <1>7
  <2>. HIDE DEF e, g
  <2>2. t = e % n
    BY <1>1, <1>3, <2>1, Euclid
  <2> QED BY <2>2 DEF e
<1>. QED BY <1>4, <1>8

LEMMA WordSame == ASSUME NEW a \in Words PROVE Word(a) = a
<1>1. a \in 0 .. WordSize - 1 /\ WordSize \in Nat \ {0}
  BY WordFacts DEF Words
<1>2. a \in Int /\ a = 0 * WordSize + a /\ 0 \in Int
  BY <1>1
<1>3. a = a % WordSize
  BY <1>1, <1>2, Euclid
<1>. QED BY <1>3 DEF Word

\* The two words of a frame, and the stack pointer before it.
LEMMA WordBack == ASSUME NEW a \in Words PROVE Word(Word(Word(a - 2) - 2) + 4) = a
<1>1. a \in Int /\ a - 2 \in Int /\ (a - 2) + (0 - 2) \in Int
  BY WordFacts
<1>2. Word(Word(a - 2) + (0 - 2)) = Word((a - 2) + (0 - 2))
  BY <1>1, WordSum
<1>3. Word(a - 2) \in Int
  BY <1>1, WordType, WordFacts
<1>4. Word(a - 2) - 2 = Word(a - 2) + (0 - 2) /\ (a - 2) + (0 - 2) = a - 4 /\ a - 4 \in Int
  BY <1>1, <1>3
<1>5. Word(Word(a - 4) + 4) = Word((a - 4) + 4)
  BY <1>4, WordSum
<1>6. (a - 4) + 4 = a
  BY <1>1
<1>. QED BY <1>2, <1>4, <1>5, <1>6, WordSame

\* A move and its record cancel out.
LEMMA WordMoved ==
    ASSUME NEW a \in Int, NEW d \in Int, NEW k \in Int
    PROVE  Word(Word(a + d) - (k + d)) = Word(a - k)
<1>1. a + d \in Int /\ 0 - (k + d) \in Int
  OBVIOUS
<1>2. Word(Word(a + d) + (0 - (k + d))) = Word((a + d) + (0 - (k + d)))
  BY <1>1, WordSum
<1>3. Word(a + d) \in Int
  BY <1>1, WordType, WordFacts
<1>4. Word(a + d) - (k + d) = Word(a + d) + (0 - (k + d)) /\ (a + d) + (0 - (k + d)) = a - k
  BY <1>1, <1>3
<1>. QED BY <1>2, <1>4

Moves == Seq(Regs \X Int)

\* What entry i of MMR1 says of a register.
Entry(u, i, k) == IF i <= Len(u) /\ u[i][1] = k THEN u[i][2] ELSE 0

LEMMA MovedEntries == ASSUME NEW x, NEW k PROVE Moved(x, k) = Entry(x.mmr1, 1, k) + Entry(x.mmr1, 2, k)
BY DEF Moved, Entry

LEMMA EntryType ==
    ASSUME NEW u \in Moves, NEW i \in {1, 2}, NEW k
    PROVE  Entry(u, i, k) \in Int
<1>1. CASE i <= Len(u)
  <2>1. i \in 1 .. Len(u)
    BY <1>1 DEF Moves
  <2>2. u[i] \in Regs \X Int
    BY <2>1, ElementOfSeq DEF Moves
  <2> QED BY <2>2 DEF Entry
<1>2. CASE ~(i <= Len(u))
  BY <1>2 DEF Entry
<1>. QED BY <1>1, <1>2

LEMMA MovedType ==
    ASSUME NEW x, x.mmr1 \in Moves, NEW k
    PROVE  Moved(x, k) \in Int
BY MovedEntries, EntryType

LEMMA MovedMore ==
    ASSUME NEW x, NEW y, x.mmr1 \in Moves, Len(x.mmr1) < 2, NEW reg \in Regs, NEW d \in Int,
           y.mmr1 = Append(x.mmr1, <<reg, d>>), NEW k
    PROVE  Moved(y, k) = Moved(x, k) + (IF k = reg THEN d ELSE 0)
<1>. DEFINE u == x.mmr1
            v == y.mmr1
            e == <<reg, d>>
<1>1. e \in Regs \X Int /\ e[1] = reg /\ e[2] = d
  OBVIOUS
<1>2. v = Append(u, e)
  OBVIOUS
<1>3. u \in Moves /\ Len(u) \in {0, 1}
  <2>1. u \in Moves /\ Len(u) < 2
    OBVIOUS
  <2>. HIDE DEF u
  <2>. DEFINE l == Len(u)
  <2>2. l \in Nat /\ l < 2
    BY <2>1 DEF Moves
  <2>. HIDE DEF l
  <2>3. l \in {0, 1}
    BY <2>2
  <2> QED BY <2>1, <2>3 DEF l
<1>. HIDE DEF u, v, e
<1>4. Len(v) = Len(u) + 1 /\ v[Len(u) + 1] = e /\ \A i \in 1 .. Len(u) : v[i] = u[i]
  BY <1>1, <1>2, <1>3, AppendProperties DEF Moves
<1>5. Entry(v, 1, k) + Entry(v, 2, k) = (Entry(u, 1, k) + Entry(u, 2, k)) + (IF k = reg THEN d ELSE 0)
  <2>1. CASE Len(u) = 0
    <3>1. Len(v) = 1 /\ v[1] = e
      BY <1>4, <2>1
    <3>2. Entry(v, 1, k) = IF k = reg THEN d ELSE 0
      BY <1>1, <3>1 DEF Entry
    <3>3. Entry(v, 2, k) = 0 /\ Entry(u, 1, k) = 0 /\ Entry(u, 2, k) = 0
      BY <2>1, <3>1 DEF Entry
    <3> QED BY <3>2, <3>3
  <2>2. CASE Len(u) = 1
    <3>1. Len(v) = 2 /\ v[2] = e /\ v[1] = u[1]
      BY <1>4, <2>2
    <3>2. Entry(v, 2, k) = IF k = reg THEN d ELSE 0
      BY <1>1, <3>1 DEF Entry
    <3>3. Entry(v, 1, k) = Entry(u, 1, k) /\ Entry(u, 2, k) = 0 /\ Entry(u, 1, k) \in Int
      BY <1>3, <2>2, <3>1, EntryType DEF Entry
    <3> QED BY <3>2, <3>3
  <2> QED BY <1>3, <2>1, <2>2
<1>. QED BY <1>5, MovedEntries DEF u, v

\* The stack pointer a mode had before a frame was pushed, the frame taken off again.
Before(x, k) == IF k = 0 THEN Word(StackPointer(x, 0) + 4) ELSE StackPointer(x, k)

\* Of s, all that the handler needs to run the instruction again; after the abort of a red
\* stack the kernel's own pointer is gone.
Restored(x, s) ==
    /\ x.frame.psw = s.psw /\ x.psw = TrapPsw(s.psw, 7) /\ x.r[7] = HandlerPc
    /\ Word(SetRegister(x, s.psw.set, 1) - Moved(x, 1)) = s.r[1]
    /\ Word(Before(x, s.psw.cur) - Moved(x, 6)) = s.r[6] \/ ("red" \in x.did /\ Kernel(s.psw))
    /\ s.spInit => \A k \in Modes \ {s.psw.cur} : Before(x, k) = s.sp[k] \/ ("red" \in x.did /\ k = 0)

\* The instruction of s has made n moves at most, and MMR1 tells them.
Unwound(x, s, n) ==
    /\ Typed(x) /\ x.abort = FALSE /\ ~x.frozen /\ "refused" \notin x.did
    /\ x.psw = s.psw /\ (x.psw.cur # 0 => x.spInit)
    /\ s.spInit => x.spInit /\ x.sp = s.sp
    /\ x.mmr1 \in Moves /\ Len(x.mmr1) <= n
    /\ Word(x.r[1] - Moved(x, 1)) = s.r[1]
    /\ Word(x.r[6] - Moved(x, 6)) = s.r[6]

\* It goes on, or it is cut off.
Going(x, s, n) ==
    Typed(x) /\ IF x.abort THEN Restored(x, s) ELSE Unwound(x, s, n)

\* Cut off where the code looks at the abort.
CutOff(x) == "refused" \in x.did /\ {"pull", "halt", "other stack"} \cap x.did = {}

Tidy(x, s) == Typed(x) /\ (CutOff(x) => x.abort /\ Restored(x, s))

\* Nothing changes that Restored is about.
Same(x, y) ==
    /\ y.r = x.r /\ y.psw = x.psw /\ y.sp = x.sp /\ y.spInit = x.spInit /\ y.bank = x.bank
    /\ y.mmr1 = x.mmr1 /\ y.frame = x.frame /\ ("red" \in x.did => "red" \in y.did)

LEMMA SameRestored ==
    ASSUME NEW x, NEW y, NEW s, Same(x, y), Restored(x, s)
    PROVE  Restored(y, s)
<1>1. \A k \in Modes : StackPointer(y, k) = StackPointer(x, k)
  BY DEF Same, StackPointer
<1>2. \A k \in Modes : Before(y, k) = Before(x, k)
  BY <1>1 DEF Before, Modes
<1>3. Before(y, s.psw.cur) = Before(x, s.psw.cur)
  BY DEF Before, StackPointer, Same
<1>4. Moved(y, 1) = Moved(x, 1) /\ Moved(y, 6) = Moved(x, 6)
  BY DEF Same, Moved
<1>5. SetRegister(y, s.psw.set, 1) = SetRegister(x, s.psw.set, 1)
  BY DEF Same, SetRegister
<1>. QED BY <1>2, <1>3, <1>4, <1>5 DEF Restored, Same

LEMMA GoingTidy == ASSUME NEW x, NEW s, NEW n, Going(x, s, n) PROVE Tidy(x, s)
<1>1. CASE x.abort
  BY <1>1 DEF Going, Tidy
<1>2. CASE ~x.abort
  BY <1>2 DEF Going, Unwound, CutOff, Tidy
<1>. QED BY <1>1, <1>2

LEMMA UnwoundGoing == ASSUME NEW x, NEW s, NEW n, Unwound(x, s, n) PROVE Going(x, s, n)
BY DEF Going, Unwound

\* A step of the instruction that moves neither register 1 nor the stack pointer.
LEMMA UnwoundSame ==
    ASSUME NEW x, NEW y, NEW s, NEW n, Unwound(x, s, n), Typed(y), y.r[1] = x.r[1], y.r[6] = x.r[6],
           y.psw = x.psw, y.abort = FALSE, ~y.frozen, y.mmr1 = x.mmr1,
           "refused" \notin y.did, x.spInit => y.spInit /\ y.sp = x.sp
    PROVE  Unwound(y, s, n)
<1>1. Moved(y, 1) = Moved(x, 1) /\ Moved(y, 6) = Moved(x, 6)
  BY DEF Moved
<1>. QED BY <1>1 DEF Unwound

LEMMA RefusedRestores ==
    ASSUME NEW x, NEW y, NEW s, NEW n, Unwound(x, s, n), Refused(x, y)
    PROVE  Typed(y) /\ y.abort = TRUE /\ Restored(y, s)
<1>1. PICK w : Alike(x, w) /\ Closed(TakeVector(w, w.r[7], w.psw, 7), y)
  BY DEF Refused
<1>. DEFINE t == TakeVector(w, w.r[7], w.psw, 7)
<1>2. Typed(w) /\ w.abort = FALSE /\ w.psw \in Psws /\ w.psw = s.psw /\ w.r[7] \in 0 .. WordSize
      /\ w.r[1] \in Words /\ w.r[6] \in Words /\ w.psw.cur \in Modes
  <2>1. Typed(w) /\ w.abort = FALSE /\ w.psw = s.psw
    BY <1>1 DEF Alike, Unwound
  <2>2. w.r \in Registers /\ 7 \in Regs /\ w.psw \in Psws
    BY <2>1 DEF Typed, Regs
  <2>3. w.psw.cur \in Modes
    BY <2>2 DEF Psws
  <2> QED BY <2>1, <2>2, <2>3, RegisterFacts
<1>3. Entered(w, t, w.psw, 7)
  <2>1. 7 \in 0 .. 7
    OBVIOUS
  <2> QED BY <1>2, <2>1, VectorTaken
<1>4. Closed(t, y)
  BY <1>1
<1>. HIDE DEF t
<1>5. /\ w.r = x.r /\ w.sp = x.sp /\ w.spInit = x.spInit /\ w.mmr1 = x.mmr1
      /\ (w.psw.cur # 0 => w.spInit) /\ (s.spInit => w.spInit /\ w.sp = s.sp)
      /\ Word(w.r[1] - Moved(x, 1)) = s.r[1] /\ Word(w.r[6] - Moved(x, 6)) = s.r[6]
  BY <1>1 DEF Alike, Unwound
<1>6. y.mmr1 = w.mmr1
  BY <1>3, <1>4 DEF Entered, Closed
<1>7. Moved(y, 1) = Moved(x, 1) /\ Moved(y, 6) = Moved(x, 6)
  BY <1>5, <1>6 DEF Moved
<1>8. y.frame.psw = s.psw /\ y.psw = TrapPsw(s.psw, 7) /\ y.r[7] = HandlerPc
  BY <1>2, <1>3, <1>4 DEF Entered, Closed
<1>9. \A k \in Modes : StackPointer(y, k) = StackPointer(t, k)
  BY <1>4 DEF Closed, StackPointer
<1>10. SetRegister(y, s.psw.set, 1) = w.r[1]
  <2>1. s.psw.set \in {0, 1}
    BY <1>2 DEF Psws
  <2>2. SetRegister(y, s.psw.set, 1) = SetRegister(t, s.psw.set, 1)
    BY <1>4 DEF Closed, SetRegister
  <2>3. SetRegister(t, s.psw.set, 1) = SetRegister(w, s.psw.set, 1)
    BY <1>3, <2>1 DEF Entered
  <2> QED BY <1>2, <2>2, <2>3 DEF SetRegister
<1>11. ASSUME NEW k \in Modes \ {0}, w.spInit PROVE Before(y, k) = StackPointer(w, k)
  <2>1. StackPointer(t, k) = StackPointer(w, k)
    BY <1>3, <1>11 DEF Entered
  <2> QED BY <1>9, <2>1 DEF Before
<1>12. "red" \in y.did \/ Before(y, 0) = StackPointer(w, 0)
  <2>1. CASE t.abort = TRUE
    BY <1>3, <1>4, <2>1 DEF Entered, Closed
  <2>2. CASE t.abort = FALSE
    <3>1. StackPointer(t, 0) = Word(Word(StackPointer(w, 0) - 2) - 2)
      BY <1>3, <2>2 DEF Entered
    <3>2. StackPointer(w, 0) \in Words
      BY <1>2 DEF StackPointer, Typed, Modes
    <3>3. StackPointer(y, 0) = StackPointer(t, 0)
      BY <1>9 DEF Modes
    <3>4. Before(y, 0) = Word(Word(Word(StackPointer(w, 0) - 2) - 2) + 4)
      BY <3>1, <3>3 DEF Before
    <3> QED BY <3>2, <3>4, WordBack
  <2> QED BY <1>3, <2>1, <2>2 DEF Entered
<1>13. Word(Before(y, s.psw.cur) - Moved(y, 6)) = s.r[6] \/ ("red" \in y.did /\ Kernel(s.psw))
  <2>1. StackPointer(w, w.psw.cur) = w.r[6]
    BY DEF StackPointer
  <2>2. CASE w.psw.cur = 0
    BY <1>2, <1>5, <1>7, <1>12, <2>1, <2>2 DEF Kernel
  <2>3. CASE w.psw.cur # 0
    BY <1>2, <1>5, <1>7, <1>11, <2>1, <2>3
  <2> QED BY <2>2, <2>3
<1>14. ASSUME s.spInit, NEW k \in Modes \ {s.psw.cur}
       PROVE  Before(y, k) = s.sp[k] \/ ("red" \in y.did /\ k = 0)
  <2>1. w.spInit /\ w.sp = s.sp /\ w.psw.cur # k
    BY <1>2, <1>5, <1>14
  <2>2. StackPointer(w, k) = s.sp[k]
    BY <2>1 DEF StackPointer
  <2>3. CASE k = 0
    BY <1>12, <2>2, <2>3
  <2>4. CASE k # 0
    BY <1>11, <2>1, <2>2, <2>4
  <2> QED BY <2>3, <2>4
<1>15. Typed(y) /\ y.abort = TRUE
  BY <1>4 DEF Closed
<1>. QED BY <1>5, <1>7, <1>8, <1>10, <1>13, <1>14, <1>15 DEF Restored

LEMMA AccessGoing ==
    ASSUME NEW x, NEW s, NEW n, Unwound(x, s, n)
    PROVE  Going(Access(x), s, n)
<1>. DEFINE y == Access(x)
<1>1. (Typed(y) /\ Around(x, y) /\ y.r = x.r) \/ Refused(x, y)
  BY AccessParts DEF Unwound
<1>. HIDE DEF y
<1>2. CASE Typed(y) /\ Around(x, y) /\ y.r = x.r
  <2>1. /\ y.r[1] = x.r[1] /\ y.r[6] = x.r[6] /\ y.psw = x.psw /\ y.abort = FALSE /\ ~y.frozen
        /\ y.mmr1 = x.mmr1 /\ "refused" \notin y.did /\ y.spInit = x.spInit /\ y.sp = x.sp
    BY <1>2 DEF Around, Beside, Unwound
  <2>2. Unwound(y, s, n)
    BY <1>2, <2>1, UnwoundSame
  <2> QED BY <2>2, UnwoundGoing DEF y
<1>3. CASE Refused(x, y)
  <2>1. Typed(y) /\ y.abort = TRUE /\ Restored(y, s)
    BY <1>3, RefusedRestores
  <2> QED BY <2>1 DEF Going, y
<1>. QED BY <1>1, <1>2, <1>3

LEMMA NoteUnwound ==
    ASSUME NEW x, NEW s, NEW n, Unwound(x, s, n)
    PROVE  Unwound(NoteStack(x), s, n)
<1>. DEFINE y == NoteStack(x)
<1>1. Noting(x, y)
  BY NoteParts DEF Unwound
<1>. HIDE DEF y
<1>2. /\ y.r = x.r /\ y.psw = x.psw /\ y.abort = FALSE /\ ~y.frozen /\ y.mmr1 = x.mmr1
      /\ y.spInit = x.spInit /\ y.sp = x.sp /\ Typed(y)
  BY <1>1 DEF Noting, Unwound
<1>3. "refused" \notin y.did
  <2>1. "refused" \notin x.did
    BY DEF Unwound
  <2>2. y.did = x.did \/ y.did = x.did \cup {"yellow"}
    BY <1>1 DEF Noting
  <2> QED BY <2>1, <2>2
<1>4. Unwound(y, s, n)
  BY <1>2, <1>3, UnwoundSame
<1>. QED BY <1>4 DEF y

LEMMA MoveUnwound ==
    ASSUME NEW x, NEW s, NEW n \in {0, 1}, Unwound(x, s, n), NEW reg \in Regs, NEW d \in Int
    PROVE  Unwound(Move(x, reg, d), s, n + 1)
<1>. DEFINE y == Move(x, reg, d)
            e == <<reg, d>>
<1>1. Shifted(x, y, reg, d)
  BY MoveParts DEF Unwound
<1>. HIDE DEF y
<1>2. x.mmr1 \in Moves /\ Len(x.mmr1) <= n /\ Len(x.mmr1) \in Nat /\ Len(x.mmr1) < 2
      /\ Len(x.mmr1) # 2
  <2>1. x.mmr1 \in Moves /\ Len(x.mmr1) <= n
    BY DEF Unwound
  <2>. DEFINE l == Len(x.mmr1)
  <2>2. l \in Nat /\ l <= n
    BY <2>1 DEF Moves
  <2>. HIDE DEF l
  <2>3. l < 2 /\ l # 2
    BY <2>2
  <2> QED BY <2>1, <2>2, <2>3 DEF l
<1>3. ~x.frozen /\ Len(x.mmr1) # 2
  BY <1>2 DEF Unwound
<1>4. y.mmr1 = Append(x.mmr1, e)
  BY <1>1, <1>3 DEF Shifted
<1>5. y.mmr1 \in Moves /\ Len(y.mmr1) = Len(x.mmr1) + 1
  <2>1. e \in Regs \X Int
    OBVIOUS
  <2>. HIDE DEF e
  <2> QED BY <1>2, <1>4, <2>1, AppendProperties DEF Moves
<1>6. Len(y.mmr1) <= n + 1
  BY <1>2, <1>5
<1>7. ASSUME NEW k \in {1, 6}
      PROVE  Word(y.r[k] - Moved(y, k)) = Word(x.r[k] - Moved(x, k))
  <2>1. Moved(y, k) = Moved(x, k) + (IF k = reg THEN d ELSE 0) /\ Moved(x, k) \in Int
    BY <1>2, <1>4, MovedMore, MovedType
  <2>2. x.r[k] \in Int
    BY RegisterFacts DEF Unwound, Typed, Regs
  <2>3. CASE k = reg
    <3>1. y.r[k] = Word(x.r[k] + d) /\ Moved(y, k) = Moved(x, k) + d
      BY <1>1, <2>1, <2>3 DEF Shifted
    <3> QED BY <2>1, <2>2, <3>1, WordMoved
  <2>4. CASE k # reg
    <3>1. y.r[k] = x.r[k]
      BY <1>1, <2>4 DEF Shifted, Regs
    <3>2. Moved(y, k) = Moved(x, k)
      BY <2>1, <2>4
    <3> QED BY <3>1, <3>2
  <2> QED BY <2>3, <2>4
<1>8. Word(y.r[1] - Moved(y, 1)) = s.r[1] /\ Word(y.r[6] - Moved(y, 6)) = s.r[6]
  BY <1>7 DEF Unwound
<1>9. Unwound(y, s, n + 1)
  BY <1>1, <1>5, <1>6, <1>8 DEF Shifted, Unwound
<1>. QED BY <1>9 DEF y

LEMMA UnwoundMore ==
    ASSUME NEW x, NEW s, NEW n \in {0, 1}, Unwound(x, s, n)
    PROVE  Unwound(x, s, n + 1)
<1>1. x.mmr1 \in Moves
  BY DEF Unwound
<1>2. Len(x.mmr1) \in Nat
  BY <1>1 DEF Moves
<1>3. Len(x.mmr1) <= n + 1
  BY <1>2 DEF Unwound
<1>. QED BY <1>3 DEF Unwound

LEMMA DecodeGoing ==
    ASSUME NEW x, NEW s, NEW n \in {0, 1}, Unwound(x, s, n), NEW operand \in Operand, NEW byte
    PROVE  Going(Decode(x, operand, byte), s, n + 1)
<1>. DEFINE mode == operand[1]
            reg  == operand[2]
            step == IF byte /\ reg \notin {6, 7} /\ mode \in {2, 4} THEN 1 ELSE 2
            y == Move(x, reg, 0 - step)
            z == IF reg = 6 THEN NoteStack(y) ELSE y
            a == Access(x)
            b == IF a.abort THEN a ELSE Move(a, 7, 2)
            k == n + 1
<1>1. mode \in 0 .. 7 /\ reg \in Regs /\ 7 \in Regs /\ step \in Int /\ 0 - step \in Int /\ 2 \in Int
  BY DEF Operand, Regs
<1>2. Decode(x, operand, byte) =
        CASE mode < 2        -> x
          [] mode = 2        -> Move(x, reg, step)
          [] mode = 3        -> Access(Move(x, reg, 2))
          [] mode \in {4, 5} -> (IF mode = 4 THEN z ELSE Access(z))
          [] mode > 5        -> (IF mode = 6 \/ b.abort THEN b ELSE Access(b))
  BY DEF Decode
<1>. HIDE DEF mode, reg, step
<1>3. Unwound(y, s, k) /\ Unwound(Move(x, reg, step), s, k) /\ Unwound(Move(x, reg, 2), s, k)
  BY <1>1, MoveUnwound
<1>4. Unwound(x, s, k)
  BY UnwoundMore
<1>5. Going(a, s, n)
  BY AccessGoing
<1>. HIDE DEF a
<1>6. Going(b, s, k) /\ (~b.abort => Unwound(b, s, k))
  <2>1. CASE a.abort
    BY <1>5, <2>1 DEF Going
  <2>2. CASE ~a.abort
    <3>1. Unwound(a, s, n)
      BY <1>5, <2>2 DEF Going
    <3>2. Unwound(Move(a, 7, 2), s, k)
      BY <1>1, <3>1, MoveUnwound
    <3>3. b = Move(a, 7, 2)
      BY <2>2
    <3>. HIDE DEF b, k
    <3> QED BY <3>2, <3>3, UnwoundGoing
  <2> QED BY <2>1, <2>2
<1>. HIDE DEF y, b, k
<1>7. Unwound(z, s, k)
  BY <1>3, NoteUnwound
<1>. HIDE DEF z
<1>8. CASE mode < 2
  BY <1>1, <1>2, <1>4, <1>8, UnwoundGoing DEF k
<1>9. CASE mode = 2
  <2>1. Decode(x, operand, byte) = Move(x, reg, step)
    BY <1>1, <1>2, <1>9
  <2> QED BY <1>3, <2>1, UnwoundGoing DEF k
<1>10. CASE mode = 3
  <2>1. Decode(x, operand, byte) = Access(Move(x, reg, 2))
    BY <1>1, <1>2, <1>10
  <2> QED BY <1>3, <2>1, AccessGoing DEF k
<1>11. CASE mode \in {4, 5}
  <2>1. Decode(x, operand, byte) \in {z, Access(z)}
    BY <1>1, <1>2, <1>11
  <2> QED BY <1>7, <2>1, AccessGoing, UnwoundGoing DEF k
<1>12. CASE mode > 5
  <2>1. Decode(x, operand, byte) = IF mode = 6 \/ b.abort THEN b ELSE Access(b)
    BY <1>1, <1>2, <1>12
  <2> QED BY <1>6, <2>1, AccessGoing DEF k
<1>. QED BY <1>1, <1>8, <1>9, <1>10, <1>11, <1>12

LEMMA GetGoing ==
    ASSUME NEW x, NEW s, NEW n, Going(x, s, n), NEW operand
    PROVE  Going(Get(x, operand), s, n)
<1>1. CASE x.abort
  BY <1>1 DEF Get
<1>2. CASE ~x.abort
  <2>1. Unwound(x, s, n)
    BY <1>2 DEF Going
  <2> QED BY <2>1, AccessGoing DEF Get
<1>. QED BY <1>1, <1>2

LEMMA DecodeNextGoing ==
    ASSUME NEW x, NEW s, Going(x, s, 1), NEW operand \in Operand, NEW byte
    PROVE  Going(DecodeNext(x, operand, byte), s, 2)
<1>1. CASE x.abort
  BY <1>1 DEF DecodeNext, Going
<1>2. CASE ~x.abort
  <2>1. Unwound(x, s, 1) /\ 1 \in {0, 1} /\ 1 + 1 = 2
    BY <1>2 DEF Going
  <2>2. Going(Decode(x, operand, byte), s, 1 + 1)
    BY <2>1, DecodeGoing
  <2> QED BY <1>2, <2>1, <2>2 DEF DecodeNext
<1>. QED BY <1>1, <1>2

\* Registers loaded by an instruction that was not cut off.
LEMMA LoadTidy ==
    ASSUME NEW x, NEW s, NEW n, Going(x, s, n), ~x.abort, NEW k \in Regs, NEW v \in Words
    PROVE  Tidy([x EXCEPT !.r[k] = v], s)
<1>. DEFINE y == [x EXCEPT !.r[k] = v]
<1>1. Typed(y) /\ Around(x, y)
  BY LoadParts DEF Going
<1>. HIDE DEF y
<1>2. Tidy(y, s)
  BY <1>1 DEF Tidy, CutOff, Going, Unwound, Around, Beside
<1>. QED BY <1>2 DEF y

LEMMA PutTidy ==
    ASSUME NEW x, NEW s, NEW n, Going(x, s, n), NEW operand \in Operand
    PROVE  Tidy(Put(x, operand), s)
<1>1. CASE x.abort
  BY <1>1, GoingTidy DEF Put
<1>2. CASE ~x.abort
  <2>1. Unwound(x, s, n)
    BY <1>2 DEF Going
  <2>2. operand[2] \in Regs /\ x.value \in Words
    BY DEF Operand, Going, Typed
  <2>3. Tidy([x EXCEPT !.r[operand[2]] = x.value], s)
    BY <1>2, <2>2, LoadTidy
  <2>4. Tidy(Access(x), s)
    BY <2>1, AccessGoing, GoingTidy
  <2> QED BY <1>2, <2>3, <2>4 DEF Put
<1>. QED BY <1>1, <1>2

\* A note that an instruction was cut off.
LEMMA NotedParts ==
    ASSUME NEW x, Typed(x), NEW note \in {"left", "codes"}
    PROVE  LET y == IF x.abort THEN [x EXCEPT !.did = @ \cup {note}] ELSE x
           IN  /\ Typed(y) /\ Same(x, y) /\ y.abort = x.abort /\ (~x.abort => y = x)
               /\ \A word : word # note => (word \in y.did <=> word \in x.did)
<1>. DEFINE d == x.did \cup {note}
            a == [x EXCEPT !.did = d]
            y == IF x.abort THEN [x EXCEPT !.did = @ \cup {note}] ELSE x
<1>1. y = IF x.abort THEN a ELSE x
  OBVIOUS
<1>2. \A word : word # note => (word \in d <=> word \in x.did)
  OBVIOUS
<1>. HIDE DEF d, y
<1>3. /\ Fields(a) /\ a.did = d /\ a.r = x.r /\ a.psw = x.psw /\ a.sp = x.sp
      /\ a.spInit = x.spInit /\ a.bank = x.bank /\ a.abort = x.abort /\ a.mmr1 = x.mmr1
      /\ a.irq = x.irq /\ a.value = x.value /\ a.frame = x.frame
  BY DEF Typed, Fields
<1>. HIDE DEF a
<1>4. Typed(a)
  BY <1>3 DEF Typed
<1>5. Same(x, a)
  BY <1>2, <1>3 DEF Same
<1>6. CASE x.abort
  BY <1>1, <1>2, <1>3, <1>4, <1>5, <1>6 DEF y
<1>7. CASE ~x.abort
  BY <1>1, <1>7 DEF Same, y
<1>. QED BY <1>6, <1>7

LEMMA LeaveParts ==
    ASSUME NEW x, Typed(x)
    PROVE  LET y == Leave(x)
           IN  /\ Typed(y) /\ Same(x, y) /\ y.abort = x.abort /\ (~x.abort => y = x)
               /\ \A word : word # "left" => (word \in y.did <=> word \in x.did)
BY NotedParts DEF Leave

LEMMA LeaveTidy == ASSUME NEW x, NEW s, Tidy(x, s) PROVE Tidy(Leave(x), s)
<1>. DEFINE y == Leave(x)
<1>1. /\ Typed(y) /\ Same(x, y) /\ y.abort = x.abort
      /\ \A word : word # "left" => (word \in y.did <=> word \in x.did)
  BY LeaveParts DEF Tidy
<1>. HIDE DEF y
<1>2. CutOff(y) => CutOff(x)
  BY <1>1 DEF CutOff
<1>3. Tidy(y, s)
  BY <1>1, <1>2, SameRestored DEF Tidy
<1>. QED BY <1>3 DEF y

LEMMA CodesTidy == ASSUME NEW x, NEW s, Tidy(x, s) PROVE Tidy(Codes(x), s)
<1>. DEFINE y == Codes(x)
<1>1. /\ Typed(y) /\ Same(x, y) /\ y.abort = x.abort
      /\ \A word : word # "codes" => (word \in y.did <=> word \in x.did)
  BY NotedParts DEF Tidy, Codes
<1>. HIDE DEF y
<1>2. CutOff(y) => CutOff(x)
  BY <1>1 DEF CutOff
<1>3. Tidy(y, s)
  BY <1>1, <1>2, SameRestored DEF Tidy
<1>. QED BY <1>3 DEF y

LEMMA LeaveGoing == ASSUME NEW x, NEW s, NEW n, Going(x, s, n) PROVE Going(Leave(x), s, n)
<1>. DEFINE y == Leave(x)
<1>1. Typed(y) /\ Same(x, y) /\ y.abort = x.abort /\ (~x.abort => y = x)
  BY LeaveParts DEF Going
<1>. HIDE DEF y
<1>2. Going(y, s, n)
  BY <1>1, SameRestored DEF Going
<1>. QED BY <1>2 DEF y

\* Steps that change nothing of what Tidy looks at.
LEMMA StillTidy ==
    ASSUME NEW x, NEW y, NEW s, Tidy(x, s), Typed(y), Same(x, y), y.abort = x.abort,
           CutOff(y) => CutOff(x)
    PROVE  Tidy(y, s)
BY SameRestored DEF Tidy

LEMMA TwinTidy == ASSUME NEW x, NEW y, NEW s, Tidy(x, s), Twin(x, y) PROVE Tidy(y, s)
<1>1. Typed(y) /\ Same(x, y) /\ y.abort = x.abort /\ y.did = x.did
  BY DEF Twin, Around, Beside, Same
<1>2. CutOff(y) => CutOff(x)
  BY <1>1 DEF CutOff
<1>. QED BY <1>1, <1>2, StillTidy

\* Nothing was refused, or the instruction pulls, halts or has changed other stacks.
LEMMA WholeTidy ==
    ASSUME NEW x, NEW s, NEW t, Whole(x, t),
           "refused" \notin x.did \/ "pull" \in x.did \/ "halt" \in x.did \/ "other stack" \in x.did
    PROVE  Tidy(x, s)
<1>1. ~CutOff(x)
  BY DEF CutOff
<1>. QED BY <1>1 DEF Tidy, Whole, Sound

LEMMA VectorTidy ==
    ASSUME NEW x, NEW s, Tidy(x, s), NEW ipl \in 0 .. 7
    PROVE  Tidy(TakeVector(x, x.r[7], x.psw, ipl), s)
<1>. DEFINE y == TakeVector(x, x.r[7], x.psw, ipl)
<1>1. CASE x.abort
  BY <1>1 DEF TakeVector
<1>2. CASE ~x.abort
  <2>1. Typed(x) /\ x.abort = FALSE /\ x.psw \in Psws /\ x.r[7] \in 0 .. WordSize
    <3>1. x.r \in Registers /\ 7 \in Regs
      BY DEF Tidy, Typed, Regs
    <3> QED BY <1>2, <3>1, RegisterFacts DEF Tidy, Typed
  <2>2. Entered(x, y, x.psw, ipl)
    BY <2>1, VectorTaken
  <2>. HIDE DEF y
  <2>3. Typed(y)
    BY <2>2 DEF Entered
  <2>4. x.did \subseteq y.did /\ ("refused" \in y.did => "refused" \in x.did)
    <3>1. \/ y.did = x.did \/ y.did = x.did \cup {"yellow"}
          \/ y.did = x.did \cup {"red"} \/ y.did = x.did \cup {"yellow", "red"}
      BY <2>2 DEF Entered
    <3> QED BY <3>1
  <2>5. CutOff(y) => CutOff(x)
    BY <2>4 DEF CutOff
  <2>6. ~CutOff(y)
    BY <1>2, <2>5 DEF Tidy
  <2> QED BY <2>3, <2>6 DEF Tidy, y
<1>. QED BY <1>1, <1>2

LEMMA TrapTidy == ASSUME NEW x, NEW s, Tidy(x, s) PROVE Tidy(Trap(x), s)
<1>1. 7 \in 0 .. 7
  OBVIOUS
<1>. QED BY <1>1, VectorTidy DEF Trap

LEMMA FirstDecode ==
    ASSUME NEW x, NEW s, Unwound(x, s, 0), NEW dst \in Operand, NEW byte
    PROVE  Going(Decode(x, dst, byte), s, 1)
<1>1. 0 \in {0, 1} /\ 0 + 1 = 1
  OBVIOUS
<1>2. Going(Decode(x, dst, byte), s, 0 + 1)
  BY <1>1, DecodeGoing
<1>. QED BY <1>1, <1>2

LEMMA OneOperandTidy ==
    ASSUME NEW x, NEW s, Unwound(x, s, 0), NEW dst \in Operand, NEW byte
    PROVE  /\ Tidy(Write(x, dst, byte), s) /\ Going(Read(x, dst, byte), s, 1)
           /\ Tidy(Modify(x, dst, byte), s)
<1>1. Going(Decode(x, dst, byte), s, 1)
  BY FirstDecode
<1>2. Going(Get(Decode(x, dst, byte), dst), s, 1) /\ Tidy(Put(Decode(x, dst, byte), dst), s)
  BY <1>1, GetGoing, PutTidy
<1>3. Tidy(Put(Get(Decode(x, dst, byte), dst), dst), s)
  BY <1>2, PutTidy
<1>. QED BY <1>2, <1>3, LeaveTidy, LeaveGoing DEF Write, Read, Modify

LEMMA TwoOperandTidy ==
    ASSUME NEW x, NEW s, Unwound(x, s, 0), NEW src \in Operand, NEW dst \in Operand, NEW byte
    PROVE  /\ Tidy(Copy(x, src, dst, byte), s) /\ Tidy(Compare(x, src, dst, byte), s)
           /\ Tidy(Combine(x, src, dst, byte), s)
<1>. DEFINE y == DecodeNext(Get(Decode(x, src, byte), src), dst, byte)
<1>1. Going(y, s, 2)
  <2>1. Going(Get(Decode(x, src, byte), src), s, 1)
    BY FirstDecode, GetGoing
  <2> QED BY <2>1, DecodeNextGoing
<1>2. /\ Copy(x, src, dst, byte) = Leave(Put(y, dst)) /\ Compare(x, src, dst, byte) = Leave(Get(y, dst))
      /\ Combine(x, src, dst, byte) = Leave(Put(Get(y, dst), dst))
  BY DEF Copy, Compare, Combine
<1>. HIDE DEF y
<1>3. Tidy(Put(y, dst), s) /\ Going(Get(y, dst), s, 2)
  BY <1>1, PutTidy, GetGoing
<1>4. Tidy(Put(Get(y, dst), dst), s) /\ Tidy(Get(y, dst), s)
  BY <1>3, PutTidy, GoingTidy
<1>. QED BY <1>2, <1>3, <1>4, LeaveTidy

\* The second of two registers loaded.
LEMMA LoadAgain ==
    ASSUME NEW x, NEW s, Tidy(x, s), ~CutOff(x), NEW k \in Regs, NEW v \in Words
    PROVE  Tidy([x EXCEPT !.r[k] = v], s) /\ ~CutOff([x EXCEPT !.r[k] = v])
<1>. DEFINE y == [x EXCEPT !.r[k] = v]
<1>1. Typed(y) /\ Around(x, y)
  BY LoadParts DEF Tidy
<1>. HIDE DEF y
<1>2. ~CutOff(y)
  BY <1>1 DEF CutOff, Around, Beside
<1>3. Tidy(y, s)
  BY <1>1, <1>2 DEF Tidy
<1>. QED BY <1>2, <1>3 DEF y

LEMMA GoingOn ==
    ASSUME NEW x, NEW s, NEW n, Going(x, s, n), ~x.abort
    PROVE  Unwound(x, s, n) /\ Tidy(x, s) /\ ~CutOff(x) /\ "refused" \notin x.did
BY GoingTidy DEF Going, Unwound, CutOff

LEMMA MultiplyTidy ==
    ASSUME NEW x, NEW s, Unwound(x, s, 0), NEW dst \in Operand
    PROVE  Tidy(Multiply(x, dst), s)
<1>. DEFINE y == Read(x, dst, FALSE)
            a == [y EXCEPT !.r[0] = x.value]
            b == [a EXCEPT !.r[1] = x.value]
<1>1. Going(y, s, 1) /\ Tidy(y, s)
  <2>1. Going(y, s, 1)
    BY OneOperandTidy
  <2>. HIDE DEF y
  <2> QED BY <2>1, GoingTidy
<1>2. Multiply(x, dst) = IF y.abort THEN y ELSE b
  BY DEF Multiply
<1>3. x.value \in Words /\ 0 \in Regs /\ 1 \in Regs
  BY DEF Unwound, Typed, Regs
<1>. HIDE DEF y
<1>4. ASSUME ~y.abort PROVE Tidy(b, s)
  <2>1. ~CutOff(y)
    BY <1>1, <1>4, GoingOn
  <2>2. Tidy(a, s) /\ ~CutOff(a)
    BY <1>1, <1>3, <2>1, LoadAgain
  <2>. HIDE DEF a
  <2> QED BY <1>3, <2>2, LoadAgain
<1>. HIDE DEF b
<1>. QED BY <1>1, <1>2, <1>4

LEMMA TestAndSetTidy ==
    ASSUME NEW x, NEW s, Unwound(x, s, 0), NEW dst \in Operand
    PROVE  Tidy(TestAndSet(x, dst), s)
<1>. DEFINE y == Get(Decode(x, dst, FALSE), dst)
            a == [y EXCEPT !.r[0] = x.value]
            b == IF y.abort THEN y ELSE Put(a, dst)
<1>1. Going(y, s, 1) /\ Tidy(y, s)
  <2>1. Going(y, s, 1)
    BY FirstDecode, GetGoing
  <2>. HIDE DEF y
  <2> QED BY <2>1, GoingTidy
<1>2. x.value \in Words /\ 0 \in Regs
  BY DEF Unwound, Typed, Regs
<1>3. TestAndSet(x, dst) = IF IsReg(dst) THEN Trap(x) ELSE Leave(b)
  BY DEF TestAndSet
<1>. HIDE DEF y
<1>4. ASSUME ~y.abort PROVE Going(a, s, 1)
  <2>1. Unwound(y, s, 1)
    BY <1>1, <1>4, GoingOn
  <2>2. Typed(y)
    BY <1>1 DEF Going
  <2>3. Typed(a) /\ Around(y, a) /\ a.r[1] = y.r[1] /\ a.r[6] = y.r[6]
    BY <1>2, <2>2, LoadParts DEF Regs
  <2>. HIDE DEF a
  <2>4. /\ a.psw = y.psw /\ a.abort = FALSE /\ ~a.frozen /\ a.mmr1 = y.mmr1
        /\ "refused" \notin a.did /\ a.spInit = y.spInit /\ a.sp = y.sp
    BY <2>1, <2>3 DEF Around, Beside, Unwound
  <2>5. Unwound(a, s, 1)
    BY <2>1, <2>3, <2>4, UnwoundSame
  <2> QED BY <2>5, UnwoundGoing
<1>. HIDE DEF a
<1>5. Tidy(b, s)
  BY <1>1, <1>4, PutTidy
<1>. HIDE DEF b
<1>6. Tidy(Leave(b), s) /\ Tidy(Trap(x), s)
  BY <1>5, LeaveTidy, UnwoundGoing, GoingTidy, TrapTidy
<1>. QED BY <1>3, <1>6

LEMMA JumpTidy ==
    ASSUME NEW x, NEW s, Unwound(x, s, 0), NEW dst \in Operand
    PROVE  Tidy(Jump(x, dst), s)
<1>. DEFINE y == Decode(x, dst, FALSE)
            a == [y EXCEPT !.r[7] = x.value]
            b == IF y.abort THEN y ELSE a
<1>1. Going(y, s, 1)
  BY FirstDecode
<1>2. x.value \in Words /\ 7 \in Regs
  BY DEF Unwound, Typed, Regs
<1>3. Jump(x, dst) = IF IsReg(dst) THEN Trap(x) ELSE Leave(b)
  BY DEF Jump
<1>. HIDE DEF y
<1>4. Tidy(y, s) /\ (~y.abort => Tidy(a, s))
  BY <1>1, <1>2, GoingTidy, LoadTidy
<1>. HIDE DEF a
<1>5. Tidy(b, s)
  BY <1>4
<1>. HIDE DEF b
<1>6. Tidy(Leave(b), s) /\ Tidy(Trap(x), s)
  BY <1>5, LeaveTidy, UnwoundGoing, GoingTidy, TrapTidy
<1>. QED BY <1>3, <1>6

\* A word pushed by an instruction that has moved a register already.
LEMMA PushGoing ==
    ASSUME NEW x, NEW s, Unwound(x, s, 1)
    PROVE  Going(Access(NoteStack(Move(x, 6, 0 - 2))), s, 2)
<1>1. 6 \in Regs /\ 0 - 2 \in Int /\ 1 \in {0, 1} /\ 1 + 1 = 2
  BY DEF Regs
<1>2. Unwound(Move(x, 6, 0 - 2), s, 1 + 1)
  BY <1>1, MoveUnwound
<1>. QED BY <1>1, <1>2, NoteUnwound, AccessGoing

LEMMA CallTidy ==
    ASSUME NEW x, NEW s, Running(x, s), s.r[7] \in Words, Unwound(x, s, 0), NEW reg \in {1, 7},
           NEW dst \in Operand
    PROVE  Tidy(Call(x, reg, dst), s)
<1>. DEFINE y == Leave(Decode(x, dst, FALSE))
            z == IF y.abort THEN y ELSE Access(NoteStack(Move(y, 6, 0 - 2)))
            a == [z EXCEPT !.r[reg] = z.r[7]]
            b == [a EXCEPT !.r[7] = x.value]
            c == [z EXCEPT !.r = [[@ EXCEPT ![reg] = z.r[7]] EXCEPT ![7] = x.value]]
<1>1. Going(y, s, 1) /\ Running(y, s)
  BY FirstDecode, LeaveGoing, DecodeRuns, LeaveRuns
<1>2. x.value \in Words /\ 7 \in Regs /\ reg \in Regs /\ 6 \in Regs /\ 0 - 2 \in Int
  BY DEF Unwound, Typed, Regs
<1>3. Call(x, reg, dst) = IF IsReg(dst) THEN Trap(x) ELSE IF z.abort THEN z ELSE c
  BY DEF Call
<1>. HIDE DEF y
<1>4. Tidy(z, s) /\ (~z.abort => ~CutOff(z)) /\ Running(z, s)
  <2>1. CASE y.abort
    BY <1>1, <2>1, GoingTidy
  <2>2. CASE ~y.abort
    <3>1. z = Access(NoteStack(Move(y, 6, 0 - 2)))
      BY <2>2
    <3>2. Going(z, s, 2)
      BY <1>1, <2>2, <3>1, GoingOn, PushGoing
    <3>3. Running(z, s)
      BY <1>1, <1>2, <3>1, MoveRuns, NoteRuns, AccessRuns
    <3>. HIDE DEF z
    <3> QED BY <3>2, <3>3, GoingTidy, GoingOn
  <2> QED BY <2>1, <2>2
<1>. HIDE DEF z
<1>5. ASSUME ~z.abort PROVE Tidy(c, s)
  <2>1. z.r[7] \in Words /\ "r" \in DOMAIN z
    BY <1>4, <1>5 DEF Running, Whole, Sound, Typed, Fields
  <2>2. Tidy(a, s) /\ ~CutOff(a)
    BY <1>2, <1>4, <1>5, <2>1, LoadAgain
  <2>3. c = b
    BY <2>1
  <2>. HIDE DEF a, c
  <2>4. Tidy(b, s)
    BY <1>2, <2>2, LoadAgain
  <2> QED BY <2>3, <2>4
<1>. HIDE DEF c
<1>6. Tidy(Trap(x), s)
  BY UnwoundGoing, GoingTidy, TrapTidy
<1>. QED BY <1>3, <1>4, <1>5, <1>6

\* An instruction that pulls, or halts, says so.
LEMMA PullSays == ASSUME NEW x, NEW s, Running(x, s) PROVE "pull" \in Pull(x).did
<1>. DEFINE y == Access(x)
            a == [y EXCEPT !.r[6] = Word(@ + 2)]
            d == y.did \cup {"pull"}
<1>1. "did" \in DOMAIN y
  BY AccessRuns DEF Running, Whole, Sound, Typed, Fields
<1>2. Pull(x) = [y EXCEPT !.r[6] = Word(@ + 2), !.did = @ \cup {"pull"}]
  BY DEF Pull
<1>. HIDE DEF y
<1>. QED BY <1>1, <1>2

LEMMA ReturnTidy ==
    ASSUME NEW x, NEW s, Running(x, s), ~x.abort, s.r[7] \in Words, NEW reg \in {1, 7}
    PROVE  Tidy(Return(x, reg), s)
<1>. DEFINE a == [x EXCEPT !.r[7] = x.r[reg]]
            y == Pull(a)
            b == [y EXCEPT !.r[reg] = x.value]
<1>1. x.value \in Words /\ x.r[reg] \in Words /\ 7 \in Regs /\ reg \in Regs
  BY RegisterFacts DEF Running, Whole, Sound, Typed, Regs
<1>2. Return(x, reg) = b
  BY DEF Return
<1>3. Running(a, s)
  BY <1>1, LoadRuns
<1>. HIDE DEF a
<1>4. "pull" \in y.did /\ Typed(y)
  BY <1>3, PullSays, PullRuns DEF Running, Whole, Sound
<1>. HIDE DEF y
<1>5. "pull" \in b.did
  BY <1>1, <1>4, LoadParts DEF Around, Beside
<1>. HIDE DEF b
<1>6. Whole(b, s)
  BY <1>2, ReturnRuns, RunningWhole
<1>. QED BY <1>2, <1>5, <1>6, WholeTidy

LEMMA MarkTidy ==
    ASSUME NEW x, NEW s, Running(x, s), ~x.abort, s.r[7] \in Words
    PROVE  Tidy(Mark(x), s)
<1>. DEFINE v == Word(x.r[7] + 2)
            a == [x EXCEPT !.r[6] = v]
            b == [a EXCEPT !.r[7] = x.r[1]]
<1>1. v \in Words /\ x.r[1] \in Words /\ 6 \in Regs /\ 7 \in Regs
  <2>0. x.r[7] \in Int
    <3>1. x.r[7] \in Words
      BY DEF Running
    <3> QED BY <3>1, WordFacts
  <2>1. x.r[7] + 2 \in Int
    BY <2>0
  <2> QED BY <2>1, WordType, RegisterFacts DEF Running, Whole, Sound, Typed, Regs
<1>2. Mark(x) = Pull(b)
  BY DEF Mark
<1>. HIDE DEF v
<1>3. Running(a, s)
  BY <1>1, LoadRuns
<1>. HIDE DEF a
<1>4. Running(b, s)
  BY <1>1, <1>3, LoadRuns
<1>. HIDE DEF b
<1>5. "pull" \in Pull(b).did /\ Whole(Pull(b), s)
  BY <1>4, PullSays, PullRuns, RunningWhole
<1>. QED BY <1>2, <1>5, WholeTidy

LEMMA ReturnInterruptTidy ==
    ASSUME NEW x, NEW s, Running(x, s), ~x.abort, NEW popped \in PoppedPsws, NEW rtt
    PROVE  Tidy(ReturnInterrupt(x, popped, rtt), s)
<1>. DEFINE one   == Pull(x)
            two   == Pull(one)
            found == IF two.accesses \in two.fails THEN [InitPsw EXCEPT !.ipl = 0] ELSE popped
            new   == IF Kernel(x.psw) THEN found ELSE ProtectPsw(x.psw, found)
            a     == [two EXCEPT !.r[7] = one.value]
            b     == SetPsw(a, new)
            v     == IF ~rtt /\ new.t THEN "trap" ELSE "none"
            c     == [b EXCEPT !.trace = v]
<1>1. Running(one, s) /\ Running(two, s) /\ "pull" \in two.did
  <2>1. Running(one, s)
    BY PullRuns
  <2>. HIDE DEF one
  <2> QED BY <2>1, PullRuns, PullSays
<1>2. ReturnInterrupt(x, popped, rtt) = c
  BY DEF ReturnInterrupt
<1>3. one.value \in Words /\ 7 \in Regs /\ x.psw \in Psws
  BY <1>1 DEF Running, Whole, Sound, Typed, Regs
<1>4. found \in Psws
  <2>1. popped \in Psws
    BY CpuAssumption
  <2>2. [InitPsw EXCEPT !.ipl = 0] \in Psws
    <3>1. InitPsw \in Psws
      BY DEF InitPsw, Psws, Modes
    <3> QED BY <3>1 DEF Psws
  <2> QED BY <2>1, <2>2
<1>. HIDE DEF one, two, found
<1>5. new \in Psws
  BY <1>3, <1>4, ProtectPswType
<1>. HIDE DEF new, v
<1>6. Typed(a) /\ a.did = two.did
  BY <1>1, <1>3, LoadParts DEF Running, Whole, Sound, Around, Beside
<1>. HIDE DEF a
<1>7. Typed(b) /\ b.did = a.did
  BY <1>5, <1>6, SetPswParts DEF Beside
<1>. HIDE DEF b
<1>8. c.did = b.did
  OBVIOUS
<1>. HIDE DEF c
<1>9. "pull" \in c.did /\ Whole(c, s)
  BY <1>1, <1>2, <1>6, <1>7, <1>8, ReturnInterruptWhole
<1>. QED BY <1>2, <1>9, WholeTidy

LEMMA InitUnwound ==
    ASSUME NEW x, NEW s, NEW n, Unwound(x, s, n)
    PROVE  Unwound(SpInit(x), s, n)
<1>. DEFINE y == SpInit(x)
<1>1. /\ Typed(y) /\ Beside(x, y) /\ y.r = x.r /\ y.psw = x.psw /\ y.bank = x.bank /\ y.spInit
      /\ x.spInit => y.sp = x.sp
  BY SpInitParts DEF Unwound, SpInit
<1>. HIDE DEF y
<1>2. /\ y.abort = FALSE /\ ~y.frozen /\ y.mmr1 = x.mmr1 /\ "refused" \notin y.did
  BY <1>1 DEF Beside, Unwound
<1>3. Unwound(y, s, n)
  BY <1>1, <1>2, UnwoundSame
<1>. QED BY <1>3 DEF y

LEMMA FromPreviousTidy ==
    ASSUME NEW x, NEW s, Unwound(x, s, 0), NEW dst \in Operand
    PROVE  Tidy(FromPrevious(x, dst), s)
<1>. DEFINE sp   == dst = <<0, 6>>
            y    == IF sp THEN SpInit(x) ELSE Get(Decode(x, dst, FALSE), dst)
            word == IF ~sp THEN y.value ELSE y.sp[PrevMode(y.psw)]
            z    == Access(NoteStack(Move(y, 6, 0 - 2)))
            v    == IF sp /\ ~z.abort THEN word ELSE z.pushed
            c    == [z EXCEPT !.pushed = v]
<1>1. Going(y, s, 1)
  <2>1. Going(Get(Decode(x, dst, FALSE), dst), s, 1)
    BY FirstDecode, GetGoing
  <2>2. Unwound(SpInit(x), s, 1)
    <3>1. 0 \in {0, 1} /\ 0 + 1 = 1
      OBVIOUS
    <3>2. Unwound(SpInit(x), s, 0 + 1)
      BY <3>1, InitUnwound, UnwoundMore
    <3> QED BY <3>1, <3>2
  <2>3. Going(SpInit(x), s, 1)
    BY <2>2, UnwoundGoing
  <2> QED BY <2>1, <2>3
<1>2. FromPrevious(x, dst) = IF y.abort THEN y ELSE c
  BY DEF FromPrevious
<1>. HIDE DEF y
<1>3. ASSUME ~y.abort PROVE Tidy(z, s)
  <2>1. Going(z, s, 2)
    BY <1>1, <1>3, GoingOn, PushGoing
  <2>. HIDE DEF z
  <2> QED BY <2>1, GoingTidy
<1>. HIDE DEF z, v
<1>4. ASSUME ~y.abort PROVE Tidy(c, s)
  <2>1. Tidy(z, s)
    BY <1>3, <1>4
  <2>2. Twin(z, c)
    BY <2>1, OtherFields DEF Tidy
  <2> QED BY <2>1, <2>2, TwinTidy
<1>5. Tidy(y, s)
  BY <1>1, GoingTidy
<1>. QED BY <1>2, <1>4, <1>5

LEMMA ToPreviousTidy ==
    ASSUME NEW x, NEW s, Running(x, s), ~x.abort, Unwound(x, s, 0), NEW dst \in Operand
    PROVE  Tidy(ToPrevious(x, dst), s)
<1>. DEFINE y    == Decode(x, dst, FALSE)
            z    == IF y.abort THEN y ELSE Access(y)
            p    == Move(z, 6, 2)
            mode == PrevMode(x.psw)
            i    == SpInit(p)
            q    == [i EXCEPT !.sp[mode] = x.value, !.did = @ \cup {"other stack"}]
            w    == [q EXCEPT !.r[6] = IF x.psw.cur = mode THEN x.value ELSE @]
<1>1. Going(y, s, 1)
  BY FirstDecode
<1>2. ToPrevious(x, dst) = IF z.abort THEN z ELSE IF dst = <<0, 6>> THEN w ELSE Codes(Put(p, dst))
  BY DEF ToPrevious
<1>. HIDE DEF y, mode
<1>3. Going(z, s, 1)
  BY <1>1, GoingOn, AccessGoing
<1>. HIDE DEF z
<1>4. ASSUME ~z.abort PROVE Unwound(p, s, 2)
  <2>1. 6 \in Regs /\ 2 \in Int /\ 1 \in {0, 1} /\ 1 + 1 = 2
    BY DEF Regs
  <2>2. Unwound(p, s, 1 + 1)
    BY <1>3, <1>4, <2>1, GoingOn, MoveUnwound
  <2>. HIDE DEF p
  <2> QED BY <2>1, <2>2
<1>. HIDE DEF p
<1>5. ASSUME ~z.abort PROVE "refused" \notin w.did
  <2>1. Typed(i) /\ "refused" \notin i.did
    BY <1>4, <1>5, InitUnwound DEF Unwound
  <2>. HIDE DEF i
  <2>. DEFINE d == i.did \cup {"other stack"}
  <2>2. "did" \in DOMAIN i /\ "refused" \notin d
    BY <2>1 DEF Typed, Fields
  <2>. HIDE DEF d
  <2>3. q = [i EXCEPT !.sp[mode] = x.value, !.did = d]
    BY DEF d
  <2>4. w.did = d
    BY <2>2, <2>3
  <2> QED BY <2>2, <2>4
<1>. HIDE DEF w
<1>6. CASE z.abort
  BY <1>2, <1>3, <1>6, GoingTidy
<1>7. CASE ~z.abort /\ dst = <<0, 6>>
  <2>1. ToPrevious(x, dst) = w
    BY <1>2, <1>7
  <2>2. Whole(w, s)
    BY <2>1, ToPreviousWhole
  <2> QED BY <1>5, <1>7, <2>1, <2>2, WholeTidy
<1>8. CASE ~z.abort /\ dst # <<0, 6>>
  <2>1. ToPrevious(x, dst) = Codes(Put(p, dst))
    BY <1>2, <1>8
  <2> QED BY <1>4, <1>8, <2>1, UnwoundGoing, PutTidy, CodesTidy
<1>. QED BY <1>6, <1>7, <1>8

LEMMA CallSupervisorTidy ==
    ASSUME NEW x, NEW s, Running(x, s), ~x.abort, Unwound(x, s, 0), NEW dst \in Operand
    PROVE  Tidy(CallSupervisor(x, dst), s)
<1>. DEFINE y   == Leave(Get(Decode(x, dst, FALSE), dst))
            one == IF y.abort THEN y ELSE Access(y)
            two == IF one.abort THEN one ELSE Access(one)
            z   == Pushes(x, dst)
            e   == CallSupervisor(x, dst)
<1>1. z = IF two.abort THEN two ELSE Access(two)
  BY DEF Pushes
<1>2. Going(y, s, 1)
  BY FirstDecode, GetGoing, LeaveGoing
<1>. HIDE DEF y
<1>3. Going(one, s, 1)
  BY <1>2, GoingOn, AccessGoing
<1>. HIDE DEF one
<1>4. Going(two, s, 1)
  BY <1>3, GoingOn, AccessGoing
<1>. HIDE DEF two, z
<1>5. Going(z, s, 1)
  BY <1>1, <1>4, GoingOn, AccessGoing
<1>6. /\ Whole(e, s)
      /\ e = Trap(x) \/ e = z \/ "other stack" \in e.did
  BY CallSupervisorWhole DEF z
<1>. HIDE DEF e
<1>7. CASE e = Trap(x)
  BY <1>7, UnwoundGoing, GoingTidy, TrapTidy DEF e
<1>8. CASE e = z
  BY <1>5, <1>8, GoingTidy DEF e
<1>9. CASE "other stack" \in e.did
  BY <1>6, <1>9, WholeTidy DEF e
<1>. QED BY <1>6, <1>7, <1>8, <1>9

LEMMA HandleHaltTidy == ASSUME NEW x, NEW s, Running(x, s) PROVE Tidy(HandleHalt(x), s)
<1>. DEFINE p   == Push(Push(x))
            new == [cur |-> 0, prev |-> 0, set |-> 0, ipl |-> 7, t |-> FALSE]
            q   == SetPsw(p, new)
            d   == q.did \cup {"halt"}
            y   == [q EXCEPT !.r[7] = HandlerPc, !.did = d]
<1>1. HandleHalt(x) = y
  BY DEF HandleHalt
<1>2. Running(p, s)
  BY PushRuns
<1>. HIDE DEF p
<1>3. new \in Psws
  BY DEF Psws, Modes
<1>. HIDE DEF new
<1>4. Typed(q)
  BY <1>2, <1>3, SetPswParts DEF Running, Whole, Sound
<1>. HIDE DEF q
<1>5. y.did = d /\ "halt" \in d
  BY <1>4 DEF Typed, Fields
<1>. HIDE DEF y, d
<1>. QED BY <1>1, <1>5, HandleHaltWhole, WholeTidy

LEMMA HaltTidy ==
    ASSUME NEW x, NEW s, Running(x, s), Unwound(x, s, 0)
    PROVE  Tidy(Halt(x), s)
BY HandleHaltTidy, UnwoundGoing, GoingTidy, TrapTidy DEF Halt

LEMMA PriorityTidy ==
    ASSUME NEW x, NEW s, Running(x, s), ~x.abort, Unwound(x, s, 0), NEW dst \in Operand, NEW ipl \in {0, 7}
    PROVE  Tidy(LoadPriority(x, dst, ipl), s) /\ Tidy(SetPriority(x, ipl), s)
<1>. DEFINE y == Read(x, dst, TRUE)
            a == [y EXCEPT !.psw.ipl = ipl]
            b == [x EXCEPT !.psw.ipl = ipl]
            e == LoadPriority(x, dst, ipl)
            f == SetPriority(x, ipl)
<1>1. Going(y, s, 1)
  BY OneOperandTidy
<1>2. e = IF y.abort \/ ~Kernel(x.psw) THEN y ELSE a
  BY DEF LoadPriority
<1>3. f = IF Kernel(x.psw) THEN b ELSE x
  BY DEF SetPriority
<1>4. Whole(e, s) /\ Whole(f, s)
  BY LoadPriorityWhole
<1>. HIDE DEF y, e, f
<1>5. a.did = y.did /\ b.did = x.did
  OBVIOUS
<1>. HIDE DEF a, b
<1>6. "refused" \notin x.did
  BY DEF Unwound
<1>7. Tidy(f, s)
  BY <1>3, <1>4, <1>5, <1>6, WholeTidy
<1>8. CASE y.abort
  BY <1>1, <1>2, <1>7, <1>8, GoingTidy DEF e, f
<1>9. CASE ~y.abort
  <2>1. "refused" \notin y.did
    BY <1>1, <1>9, GoingOn
  <2>2. "refused" \notin e.did
    BY <1>2, <1>5, <2>1
  <2> QED BY <1>4, <1>7, <2>2, WholeTidy DEF e, f
<1>. QED BY <1>8, <1>9

LEMMA WaitResetTidy ==
    ASSUME NEW x, NEW s, Running(x, s), Unwound(x, s, 0)
    PROVE  Tidy(Wait(x), s) /\ Tidy(Reset(x), s)
<1>1. "refused" \notin x.did
  BY DEF Unwound
<1>2. Wait(x).did = x.did /\ Reset(x).did = x.did
  BY DEF Wait, Reset
<1>. QED BY <1>1, <1>2, WaitRuns, ResetRuns, RunningWhole, WholeTidy

\* The end of the instruction.
LEMMA StackTrapTidy == ASSUME NEW x, NEW s, Tidy(x, s) PROVE Tidy(StackTrap(x), s)
<1>. DEFINE d == IF x.abort THEN x.did ELSE x.did \cup {"served"}
            b == [x EXCEPT !.yellow = FALSE, !.inStackTrap = TRUE, !.did = d]
            t == TakeVector(b, b.r[7], b.psw, 7)
            y == [t EXCEPT !.inStackTrap = FALSE]
<1>1. b.r = x.r /\ b.psw = x.psw
  OBVIOUS
<1>2. StackTrap(x) = y
  <2>1. b = [x EXCEPT !.yellow = FALSE, !.inStackTrap = TRUE,
                      !.did = IF x.abort THEN @ ELSE @ \cup {"served"}]
    OBVIOUS
  <2>2. t = TakeVector(b, x.r[7], x.psw, 7)
    BY <1>1
  <2>. HIDE DEF b, t
  <2>3. [TakeVector(b, x.r[7], x.psw, 7) EXCEPT !.inStackTrap = FALSE] = y
    BY <2>2
  <2>. HIDE DEF y
  <2> QED BY <2>1, <2>3 DEF StackTrap
<1>3. \A word : word # "served" => (word \in d <=> word \in x.did)
  OBVIOUS
<1>. HIDE DEF d
<1>4. /\ Fields(b) /\ b.did = d /\ b.mmr1 = x.mmr1 /\ b.irq = x.irq /\ b.psw = x.psw /\ b.r = x.r
      /\ b.sp = x.sp /\ b.spInit = x.spInit
      /\ b.bank = x.bank /\ b.abort = x.abort /\ b.value = x.value /\ b.frame = x.frame
  BY DEF Tidy, Typed, Fields
<1>. HIDE DEF b
<1>5. Typed(b)
  BY <1>4 DEF Tidy, Typed
<1>6. Same(x, b) /\ (CutOff(b) => CutOff(x))
  BY <1>3, <1>4 DEF Same, CutOff
<1>7. Tidy(b, s)
  BY <1>4, <1>5, <1>6, StillTidy
<1>8. Tidy(t, s)
  <2>1. 7 \in 0 .. 7
    OBVIOUS
  <2> QED BY <1>7, <2>1, VectorTidy
<1>. HIDE DEF t
<1>9. Twin(t, y)
  BY <1>8, OtherFields DEF Tidy
<1>. HIDE DEF y
<1>. QED BY <1>2, <1>8, <1>9, TwinTidy

LEMMA InterruptTidy ==
    ASSUME NEW x, NEW s, Tidy(x, s), Asking(x) # {}
    PROVE  Tidy(Interrupt(x), s)
<1>. DEFINE l == CHOOSE k \in Asking(x) : \A j \in Asking(x) : j <= k
            i == x.irq \ {l}
            c == x.acked \cup {l}
            a == [x EXCEPT !.irq = i, !.acked = c]
            t == TakeVector(a, x.r[7], x.psw, l)
            k == IF x.abort THEN t.taken ELSE t.taken \cup {l}
            y == [t EXCEPT !.taken = k]
<1>1. Interrupt(x) = y
  BY DEF Interrupt
<1>2. l \in 0 .. 7
  <2>1. Asking(x) \in SUBSET (1 .. 7)
    BY CpuAssumption DEF Asking, Tidy, Typed
  <2>2. \E b \in Asking(x) : \A j \in Asking(x) : j <= b
    BY <2>1, HighestAsks
  <2>3. l \in Asking(x)
    BY <2>2
  <2>4. l \in 1 .. 7
    BY <2>1, <2>3
  <2> QED BY <2>4
<1>. HIDE DEF l
<1>3. i \subseteq Levels
  BY DEF Tidy, Typed
<1>. HIDE DEF i, c
<1>4. /\ Fields(a) /\ a.irq = i /\ a.psw = x.psw /\ a.r = x.r /\ a.sp = x.sp /\ a.mmr1 = x.mmr1
      /\ a.spInit = x.spInit /\ a.did = x.did /\ a.bank = x.bank /\ a.abort = x.abort
      /\ a.value = x.value /\ a.frame = x.frame
  BY DEF Tidy, Typed, Fields
<1>. HIDE DEF a
<1>5. Typed(a)
  BY <1>3, <1>4 DEF Tidy, Typed
<1>6. Tidy(a, s)
  BY <1>4, <1>5, StillTidy DEF Same, CutOff
<1>7. Tidy(t, s)
  <2>1. t = TakeVector(a, a.r[7], a.psw, l)
    BY <1>4
  <2>. HIDE DEF t
  <2> QED BY <1>2, <1>6, <2>1, VectorTidy
<1>. HIDE DEF t, k
<1>8. /\ Fields(y) /\ y.irq = t.irq /\ y.psw = t.psw /\ y.mmr1 = t.mmr1
      /\ y.r = t.r /\ y.sp = t.sp /\ y.spInit = t.spInit /\ y.did = t.did /\ y.bank = t.bank
      /\ y.abort = t.abort /\ y.value = t.value /\ y.frame = t.frame
  BY <1>7 DEF Tidy, Typed, Fields
<1>. HIDE DEF y
<1>9. Typed(y)
  BY <1>7, <1>8 DEF Tidy, Typed
<1>. QED BY <1>1, <1>7, <1>8, <1>9, StillTidy DEF Same, CutOff

LEMMA InterruptsTidy == ASSUME NEW x, NEW s, Tidy(x, s) PROVE Tidy(Interrupts(x), s)
<1>. DEFINE n == Cardinality(Levels)
            a == CHOOSE f : Loop(x, n, f)
            Fails == {k \in Nat : k <= n /\ ~Tidy(a[k], s)}
<1>1. n \in Nat
  <2>0. 1 \in Int /\ 7 \in Int
    OBVIOUS
  <2>1. IsFiniteSet(1 .. 7)
    BY <2>0, FS_Interval
  <2>2. IsFiniteSet(Levels)
    BY <2>1, CpuAssumption, FS_Subset
  <2> QED BY <2>2, FS_CardinalityType
<1>2. Interrupts(x) = a[n]
  BY DEF Interrupts, Loop, Turn
<1>. HIDE DEF n
<1>3. Loop(x, n, a)
  BY <1>1, LoopRuns
<1>. HIDE DEF a
<1>4. a[0] = x /\ \A k \in 1 .. n : a[k] = Turn(a[k - 1], k)
  <2>1. \A k \in 0 .. n : a[k] = IF k = 0 THEN x ELSE Turn(a[k - 1], k)
    BY <1>3 DEF Loop
  <2> QED BY <1>1, <2>1
<1>5. Fails = {}
  <2>1. SUFFICES ASSUME Fails # {} PROVE FALSE
    OBVIOUS
  <2>2. PICK k \in Fails : \A j \in Fails : k <= j
    BY <2>1, LeastNatural
  <2>3. k \in Nat /\ k <= n /\ ~Tidy(a[k], s) /\ k # 0
    BY <1>4, <2>2
  <2>4. k - 1 \in Nat /\ k - 1 <= n /\ k \in 1 .. n
    BY <1>1, <2>3
  <2>5. Tidy(a[k - 1], s)
    <3>1. k - 1 \notin Fails
      BY <2>2, <2>3
    <3> QED BY <2>4, <3>1
  <2>6. a[k] = Turn(a[k - 1], k)
    BY <1>4, <2>4
  <2>7. Tidy(a[k], s)
    BY <2>5, <2>6, InterruptTidy DEF Turn
  <2> QED BY <2>3, <2>7
<1>6. Tidy(a[n], s)
  BY <1>1, <1>5
<1>. QED BY <1>2, <1>6

LEMMA FinishTidy ==
    ASSUME NEW x, NEW s, Tidy(x, s), NEW before
    PROVE  Tidy(Finish(x, before), s)
<1>. DEFINE trap == x.trace = "trap" \/ (x.trace = "before" /\ before.t)
            y    == IF trap THEN Trap(x) ELSE x
<1>1. Finish(x, before) = IF "left" \in x.did THEN x
                          ELSE IF y.yellow THEN StackTrap(y)
                          ELSE IF trap THEN y ELSE Interrupts(y)
  BY DEF Finish
<1>2. Tidy(y, s)
  BY TrapTidy
<1>. HIDE DEF trap, y
<1>. QED BY <1>1, <1>2, StackTrapTidy, InterruptsTidy

-----------------------------------------------------------------------------
(* The steps.                                                              *)

\* A machine between two steps: once the processor has left kernel mode, each mode has a
\* stack pointer of its own.
Machine(x) == Typed(x) /\ (x.psw.cur # 0 => x.spInit)

\* What a step from s leaves.
Ends(x, s) ==
    /\ Machine(x) /\ Guarded(x, s) /\ Stacked(x, s) /\ Noted(x, s) /\ Owes(x)
    /\ CutOff(x) /\ ~s.frozen => Restored(x, s)

\* Two machines that a step cannot tell apart as its beginning.
Begin(s, t) ==
    /\ t.psw = s.psw /\ t.sp = s.sp /\ t.spInit = s.spInit /\ t.r[1] = s.r[1] /\ t.r[6] = s.r[6]
    /\ t.yellow = s.yellow

LEMMA SoundEnds ==
    ASSUME NEW x, NEW s, NEW t, Begin(s, t), Sound(x, t), Owes(x),
           CutOff(x) /\ ~s.frozen => Restored(x, t)
    PROVE  Ends(x, s)
<1>1. \A k \in Modes : StackPointer(t, k) = StackPointer(s, k)
  BY DEF Begin, StackPointer
<1>2. Stacked(x, s)
  BY <1>1 DEF Begin, Sound, Stacked
<1>3. CutOff(x) /\ ~s.frozen => Restored(x, s)
  BY DEF Begin, Restored
<1>4. Machine(x) /\ Guarded(x, s) /\ Noted(x, s)
  BY DEF Begin, Sound, Guarded, Noted, Machine
<1>. QED BY <1>2, <1>3, <1>4 DEF Ends

LEMMA ClearParts ==
    ASSUME NEW x, Machine(x)
    PROVE  LET y == Clear(x)
           IN  /\ Typed(y) /\ y.r = x.r /\ y.psw = x.psw /\ y.sp = x.sp /\ y.spInit = x.spInit
               /\ y.bank = x.bank /\ y.abort = x.abort /\ y.yellow = x.yellow /\ y.irq = x.irq
               /\ y.frozen = x.frozen /\ y.mmr1 = x.mmr1 /\ y.kind = "mmu"
               /\ y.did = {} /\ y.frame = NoFrame /\ y.acked = {} /\ y.taken = {}
<1>. DEFINE y == Clear(x)
<1>1. /\ Fields(y) /\ y.r = x.r /\ y.psw = x.psw /\ y.sp = x.sp /\ y.spInit = x.spInit
      /\ y.bank = x.bank /\ y.abort = x.abort /\ y.yellow = x.yellow /\ y.irq = x.irq
      /\ y.frozen = x.frozen /\ y.mmr1 = x.mmr1 /\ y.kind = "mmu" /\ y.value = x.value
      /\ y.did = {} /\ y.frame = NoFrame /\ y.acked = {} /\ y.taken = {}
  BY DEF Clear, Machine, Typed, Fields
<1>. HIDE DEF y
<1>2. Typed(y)
  BY <1>1 DEF Machine, Typed
<1>. QED BY <1>1, <1>2 DEF y

\* Nothing has happened yet.
LEMMA FreshRuns ==
    ASSUME NEW x, Typed(x), x.psw.cur # 0 => x.spInit, x.abort = FALSE,
           x.did = {}, x.acked = {}, x.taken = {}, NEW s, Begin(s, x), x.r[7] = s.r[7]
    PROVE  Running(x, s)
<1>1. \A k \in Modes : StackPointer(x, k) = StackPointer(s, k)
  BY DEF Begin, StackPointer
<1>2. Stacked(x, s)
  BY <1>1 DEF Begin, Stacked
<1>3. Guarded(x, s) /\ Noted(x, s)
  BY DEF Begin, Guarded, Noted, Kernel
<1>. QED BY <1>2, <1>3 DEF Running, Whole, Sound, Begin

LEMMA FreshUnwound ==
    ASSUME NEW x, Typed(x), x.psw.cur # 0 => x.spInit, x.abort = FALSE, ~x.frozen, x.did = {},
           x.mmr1 = <<>>, NEW s, Begin(s, x)
    PROVE  Unwound(x, s, 0)
<1>1. x.mmr1 \in Moves /\ Len(x.mmr1) = 0
  BY DEF Moves
<1>2. \A k : Moved(x, k) = 0
  <2>1. \A k : Entry(x.mmr1, 1, k) = 0 /\ Entry(x.mmr1, 2, k) = 0
    BY <1>1 DEF Entry
  <2> QED BY <2>1, MovedEntries
<1>3. x.r[1] \in Words /\ x.r[6] \in Words
  BY RegisterFacts DEF Typed
<1>4. Word(x.r[1] - 0) = x.r[1] /\ Word(x.r[6] - 0) = x.r[6]
  <2>1. x.r[1] \in Int /\ x.r[6] \in Int
    BY <1>3, WordFacts
  <2>2. x.r[1] - 0 = x.r[1] /\ x.r[6] - 0 = x.r[6]
    BY <2>1
  <2> QED BY <1>3, <2>2, WordSame
<1>5. Word(x.r[1] - Moved(x, 1)) = s.r[1] /\ Word(x.r[6] - Moved(x, 6)) = s.r[6]
  BY <1>2, <1>4 DEF Begin
<1>. QED BY <1>1, <1>5 DEF Begin, Unwound

\* An instruction is fetched, and begins.
Fetch(x, refusal, value) ==
    Access([Start(x) EXCEPT !.fails = refusal.at, !.kind = refusal.by, !.value = value])
Body(x) == [x EXCEPT !.r[7] = 2]

LEMMA FetchRuns ==
    ASSUME NEW x, Machine(x), x.abort = FALSE, NEW refusal, NEW value \in Values
    PROVE  LET y == Fetch(x, refusal, value)
           IN  /\ Begin(x, Start(x)) /\ Start(x).r[7] \in Words /\ Running(y, Start(x))
               /\ ~y.abort => Running(Body(y), Start(x)) /\ ~Body(y).abort
               /\ ~x.frozen => /\ Going(y, Start(x), 0)
                               /\ ~y.abort => Unwound(Body(y), Start(x), 0)
<1>. DEFINE c == Clear(x)
            f == [c.r EXCEPT ![7] = 0]
            u == IF x.frozen THEN c.mmr1 ELSE <<>>
            b == Start(x)
            a == [b EXCEPT !.fails = refusal.at, !.kind = refusal.by, !.value = value]
            y == Access(a)
            z == Body(y)
<1>1. /\ Typed(c) /\ c.r = x.r /\ c.psw = x.psw /\ c.sp = x.sp /\ c.spInit = x.spInit
      /\ c.bank = x.bank /\ c.abort = x.abort /\ c.yellow = x.yellow /\ c.irq = x.irq
      /\ c.did = {} /\ c.frame = NoFrame /\ c.acked = {} /\ c.taken = {} /\ c.frozen = x.frozen
  BY ClearParts
<1>2. f \in Registers /\ f[7] = 0 /\ f[6] = x.r[6] /\ f[1] = x.r[1]
  BY <1>1, WordFacts, RegisterSet DEF Typed, Regs
<1>3. b = [c EXCEPT !.r = f, !.mmr1 = u]
  BY DEF Start
<1>0. ~x.frozen => u = <<>>
  OBVIOUS
<1>. HIDE DEF b, f, u, c
<1>4. /\ Fields(b) /\ b.r = f /\ b.psw = c.psw /\ b.sp = c.sp /\ b.spInit = c.spInit
      /\ b.bank = c.bank /\ b.abort = c.abort /\ b.yellow = c.yellow /\ b.irq = c.irq
      /\ b.did = c.did /\ b.frame = c.frame /\ b.acked = c.acked /\ b.taken = c.taken
      /\ b.value = c.value /\ b.frozen = c.frozen /\ b.mmr1 = u
  BY <1>1, <1>3 DEF Typed, Fields
<1>5. Begin(x, b) /\ b.r[7] \in Words
  BY <1>1, <1>2, <1>4, WordFacts DEF Begin
<1>6. /\ Fields(a) /\ a.r = b.r /\ a.psw = b.psw /\ a.sp = b.sp /\ a.spInit = b.spInit
      /\ a.bank = b.bank /\ a.abort = b.abort /\ a.yellow = b.yellow /\ a.irq = b.irq
      /\ a.did = b.did /\ a.frame = b.frame /\ a.acked = b.acked /\ a.taken = b.taken
      /\ a.value = value /\ a.frozen = b.frozen /\ a.mmr1 = b.mmr1
  BY <1>4 DEF Fields
<1>. HIDE DEF a
<1>7. Typed(a)
  <2>1. value \in Words
    BY CpuAssumption
  <2> QED BY <1>1, <1>2, <1>4, <1>6, <2>1 DEF Typed
<1>8. Running(a, b) /\ (~x.frozen => Unwound(a, b, 0))
  <2>1. a.psw.cur # 0 => a.spInit
    BY <1>1, <1>4, <1>6 DEF Machine
  <2>2. Begin(b, a) /\ a.r[7] = b.r[7]
    BY <1>6 DEF Begin
  <2>3. a.abort = FALSE /\ a.did = {} /\ a.acked = {} /\ a.taken = {}
    BY <1>1, <1>4, <1>6
  <2>4. ~x.frozen => ~a.frozen /\ a.mmr1 = <<>>
    BY <1>0, <1>1, <1>4, <1>6
  <2> QED BY <1>7, <2>1, <2>2, <2>3, <2>4, FreshRuns, FreshUnwound
<1>9. Running(y, b) /\ (~x.frozen => Going(y, b, 0))
  BY <1>8, AccessRuns, AccessGoing
<1>10. y = Fetch(x, refusal, value)
  BY DEF Fetch, a, b
<1>. HIDE DEF y
<1>11. ASSUME ~y.abort PROVE Running(z, b) /\ ~z.abort /\ (~x.frozen => Unwound(z, b, 0))
  <2>1. 7 \in Regs /\ 2 \in Words
    BY WordFacts DEF Regs
  <2>2. z = [y EXCEPT !.r[7] = 2]
    BY DEF Body
  <2>3. Running(z, b)
    BY <1>9, <2>1, <2>2, LoadRuns
  <2>4. Typed(z) /\ Around(y, z) /\ z.r[1] = y.r[1] /\ z.r[6] = y.r[6]
    BY <1>9, <2>1, <2>2, LoadParts DEF Running, Whole, Sound, Regs
  <2>. HIDE DEF z
  <2>5. ASSUME ~x.frozen PROVE Unwound(z, b, 0)
    <3>1. Unwound(y, b, 0)
      BY <1>9, <1>11, <2>5, GoingOn
    <3>2. /\ z.psw = y.psw /\ z.abort = FALSE /\ ~z.frozen /\ z.mmr1 = y.mmr1
          /\ "refused" \notin z.did /\ z.spInit = y.spInit /\ z.sp = y.sp
      BY <2>4, <3>1 DEF Around, Beside, Unwound
    <3> QED BY <2>4, <3>1, <3>2, UnwoundSame
  <2>6. ~z.abort
    BY <1>11, <2>4 DEF Around, Beside
  <2> QED BY <2>3, <2>5, <2>6
<1>12. /\ Begin(x, b) /\ b.r[7] \in Words /\ Running(y, b)
       /\ ~y.abort => Running(Body(y), b) /\ ~Body(y).abort
       /\ ~x.frozen => Going(y, b, 0) /\ (~y.abort => Unwound(Body(y), b, 0))
  BY <1>5, <1>9, <1>11
<1>. QED BY <1>10, <1>12 DEF b

\* The step of an instruction whose fetch is refused, and of one whose effect is e.
LEMMA RefusedFetchEnds ==
    ASSUME NEW x, Machine(x), x.abort = FALSE, NEW refusal, NEW value \in Values,
           Fetch(x, refusal, value).abort
    PROVE  Ends([Fetch(x, refusal, value) EXCEPT !.abort = FALSE], x)
<1>. DEFINE y == Fetch(x, refusal, value)
            z == [y EXCEPT !.abort = FALSE]
            t == Start(x)
<1>1. Begin(x, t) /\ Running(y, t) /\ y.abort /\ (~x.frozen => Going(y, t, 0))
  BY FetchRuns
<1>. HIDE DEF y, t
<1>2. /\ Fields(z) /\ z.abort = FALSE /\ z.r = y.r /\ z.psw = y.psw /\ z.sp = y.sp
      /\ z.spInit = y.spInit /\ z.bank = y.bank /\ z.yellow = y.yellow /\ z.irq = y.irq
      /\ z.did = y.did /\ z.frame = y.frame /\ z.acked = y.acked /\ z.taken = y.taken
      /\ z.value = y.value /\ z.mmr1 = y.mmr1
  BY <1>1 DEF Running, Whole, Sound, Typed, Fields
<1>. HIDE DEF z
<1>3. Typed(z)
  BY <1>1, <1>2 DEF Running, Whole, Sound, Typed
<1>4. Sound(z, t)
  <2>1. \A k \in Modes : StackPointer(z, k) = StackPointer(y, k)
    BY <1>2 DEF StackPointer
  <2>2. Framed(z) <=> Framed(y)
    BY <1>2 DEF Framed
  <2>3. Stacked(z, t)
    BY <1>1, <1>2, <2>1, <2>2 DEF Running, Whole, Sound, Stacked
  <2> QED BY <1>1, <1>2, <1>3, <2>2, <2>3 DEF Running, Whole, Sound, Guarded, Noted
<1>5. Owes(z)
  BY <1>1, <1>2 DEF Running, Whole, Owes
<1>6. ~x.frozen => Restored(z, t)
  BY <1>1, <1>2, SameRestored DEF Going, Same
<1>7. Ends(z, x)
  BY <1>1, <1>4, <1>5, <1>6, SoundEnds
<1>. QED BY <1>7 DEF z, y

LEMMA EffectEnds ==
    ASSUME NEW x, NEW e, Begin(x, Start(x)), Whole(e, Start(x)), ~x.frozen => Tidy(e, Start(x)),
           NEW before
    PROVE  Ends(Finish(e, before), x)
<1>1. Sound(Finish(e, before), Start(x)) /\ Owes(Finish(e, before))
  BY FinishOwes
<1>2. ~x.frozen => Tidy(Finish(e, before), Start(x))
  BY FinishTidy
<1>. QED BY <1>1, <1>2, SoundEnds DEF Tidy

\* The steps of instructions: one lemma for each, whose parts are those of Fetch.
Ended(effect, fetched) ==
    m' = IF fetched.abort THEN [fetched EXCEPT !.abort = FALSE] ELSE Finish(effect, m.psw)

LEMMA InstructionEnds ==
    ASSUME Machine(m), m.abort = FALSE, NEW refusal, NEW value \in Values, NEW e,
           Ended(e, Fetch(m, refusal, value)),
           ~Fetch(m, refusal, value).abort => Whole(e, Start(m)),
           ~Fetch(m, refusal, value).abort /\ ~m.frozen => Tidy(e, Start(m))
    PROVE  Ends(m', m)
<1>. DEFINE y == Fetch(m, refusal, value)
<1>1. Begin(m, Start(m))
  BY FetchRuns
<1>2. CASE y.abort
  <2>1. m' = [y EXCEPT !.abort = FALSE]
    BY <1>2 DEF Ended
  <2> QED BY <1>2, <2>1, RefusedFetchEnds
<1>3. CASE ~y.abort
  <2>1. m' = Finish(e, m.psw)
    BY <1>3 DEF Ended
  <2> QED BY <1>1, <1>3, <2>1, EffectEnds
<1>. QED BY <1>2, <1>3

LEMMA WriteEnds == ASSUME Machine(m), DoWrite PROVE Ends(m', m)
<1>1. PICK refusal \in Refusals, value \in Values, dst \in Operands, byte \in BOOLEAN :
         ~m.abort /\ Ended(Write(Body(Fetch(m, refusal, value)), dst, byte), Fetch(m, refusal, value))
  BY DEF DoWrite, Execute, Ended, Body, Fetch
<1>. DEFINE y == Fetch(m, refusal, value)
            e == Write(Body(y), dst, byte)
<1>2. m.abort = FALSE
  BY <1>1 DEF Machine, Typed
<1>3. /\ Start(m).r[7] \in Words
      /\ ~y.abort => Running(Body(y), Start(m)) /\ ~Body(y).abort
      /\ ~y.abort /\ ~m.frozen => Unwound(Body(y), Start(m), 0)
  BY <1>2, FetchRuns
<1>. HIDE DEF y
<1>4. dst \in Operand
  BY CpuAssumption DEF Operand
<1>5. ASSUME ~y.abort PROVE Running(e, Start(m))
  BY <1>5, <1>3, OneOperandRuns, <1>4
<1>6. ASSUME ~y.abort, ~m.frozen PROVE Tidy(e, Start(m))
  BY <1>6, <1>3, OneOperandTidy, <1>4
<1>. HIDE DEF e
<1>7. ~y.abort => Whole(e, Start(m))
  BY <1>5, RunningWhole
<1>8. Ended(e, y)
  BY <1>1 DEF y, e
<1>. QED BY <1>2, <1>6, <1>7, <1>8, InstructionEnds DEF y

LEMMA ReadEnds == ASSUME Machine(m), DoRead PROVE Ends(m', m)
<1>1. PICK refusal \in Refusals, value \in Values, dst \in Operands, byte \in BOOLEAN :
         ~m.abort /\ Ended(Read(Body(Fetch(m, refusal, value)), dst, byte), Fetch(m, refusal, value))
  BY DEF DoRead, Execute, Ended, Body, Fetch
<1>. DEFINE y == Fetch(m, refusal, value)
            e == Read(Body(y), dst, byte)
<1>2. m.abort = FALSE
  BY <1>1 DEF Machine, Typed
<1>3. /\ Start(m).r[7] \in Words
      /\ ~y.abort => Running(Body(y), Start(m)) /\ ~Body(y).abort
      /\ ~y.abort /\ ~m.frozen => Unwound(Body(y), Start(m), 0)
  BY <1>2, FetchRuns
<1>. HIDE DEF y
<1>4. dst \in Operand
  BY CpuAssumption DEF Operand
<1>5. ASSUME ~y.abort PROVE Running(e, Start(m))
  BY <1>5, <1>3, OneOperandRuns, <1>4
<1>6. ASSUME ~y.abort, ~m.frozen PROVE Tidy(e, Start(m))
  BY <1>6, <1>3, OneOperandTidy, <1>4, GoingTidy
<1>. HIDE DEF e
<1>7. ~y.abort => Whole(e, Start(m))
  BY <1>5, RunningWhole
<1>8. Ended(e, y)
  BY <1>1 DEF y, e
<1>. QED BY <1>2, <1>6, <1>7, <1>8, InstructionEnds DEF y

LEMMA ModifyEnds == ASSUME Machine(m), DoModify PROVE Ends(m', m)
<1>1. PICK refusal \in Refusals, value \in Values, dst \in Operands, byte \in BOOLEAN :
         ~m.abort /\ Ended(Modify(Body(Fetch(m, refusal, value)), dst, byte), Fetch(m, refusal, value))
  BY DEF DoModify, Execute, Ended, Body, Fetch
<1>. DEFINE y == Fetch(m, refusal, value)
            e == Modify(Body(y), dst, byte)
<1>2. m.abort = FALSE
  BY <1>1 DEF Machine, Typed
<1>3. /\ Start(m).r[7] \in Words
      /\ ~y.abort => Running(Body(y), Start(m)) /\ ~Body(y).abort
      /\ ~y.abort /\ ~m.frozen => Unwound(Body(y), Start(m), 0)
  BY <1>2, FetchRuns
<1>. HIDE DEF y
<1>4. dst \in Operand
  BY CpuAssumption DEF Operand
<1>5. ASSUME ~y.abort PROVE Running(e, Start(m))
  BY <1>5, <1>3, OneOperandRuns, <1>4
<1>6. ASSUME ~y.abort, ~m.frozen PROVE Tidy(e, Start(m))
  BY <1>6, <1>3, OneOperandTidy, <1>4
<1>. HIDE DEF e
<1>7. ~y.abort => Whole(e, Start(m))
  BY <1>5, RunningWhole
<1>8. Ended(e, y)
  BY <1>1 DEF y, e
<1>. QED BY <1>2, <1>6, <1>7, <1>8, InstructionEnds DEF y

LEMMA CopyEnds == ASSUME Machine(m), DoCopy PROVE Ends(m', m)
<1>1. PICK refusal \in Refusals, value \in Values, src \in Operands, dst \in SecondOperands :
         ~m.abort /\ Ended(Copy(Body(Fetch(m, refusal, value)), src, dst, FALSE), Fetch(m, refusal, value))
  BY DEF DoCopy, Execute, Ended, Body, Fetch
<1>. DEFINE y == Fetch(m, refusal, value)
            e == Copy(Body(y), src, dst, FALSE)
<1>2. m.abort = FALSE
  BY <1>1 DEF Machine, Typed
<1>3. /\ Start(m).r[7] \in Words
      /\ ~y.abort => Running(Body(y), Start(m)) /\ ~Body(y).abort
      /\ ~y.abort /\ ~m.frozen => Unwound(Body(y), Start(m), 0)
  BY <1>2, FetchRuns
<1>. HIDE DEF y
<1>4. src \in Operand /\ dst \in Operand
  BY CpuAssumption DEF Operand
<1>5. ASSUME ~y.abort PROVE Running(e, Start(m))
  BY <1>5, <1>3, TwoOperandRuns, <1>4
<1>6. ASSUME ~y.abort, ~m.frozen PROVE Tidy(e, Start(m))
  BY <1>6, <1>3, TwoOperandTidy, <1>4
<1>. HIDE DEF e
<1>7. ~y.abort => Whole(e, Start(m))
  BY <1>5, RunningWhole
<1>8. Ended(e, y)
  BY <1>1 DEF y, e
<1>. QED BY <1>2, <1>6, <1>7, <1>8, InstructionEnds DEF y

LEMMA CompareEnds == ASSUME Machine(m), DoCompare PROVE Ends(m', m)
<1>1. PICK refusal \in Refusals, value \in Values, src \in Operands, dst \in SecondOperands :
         ~m.abort /\ Ended(Compare(Body(Fetch(m, refusal, value)), src, dst, TRUE), Fetch(m, refusal, value))
  BY DEF DoCompare, Execute, Ended, Body, Fetch
<1>. DEFINE y == Fetch(m, refusal, value)
            e == Compare(Body(y), src, dst, TRUE)
<1>2. m.abort = FALSE
  BY <1>1 DEF Machine, Typed
<1>3. /\ Start(m).r[7] \in Words
      /\ ~y.abort => Running(Body(y), Start(m)) /\ ~Body(y).abort
      /\ ~y.abort /\ ~m.frozen => Unwound(Body(y), Start(m), 0)
  BY <1>2, FetchRuns
<1>. HIDE DEF y
<1>4. src \in Operand /\ dst \in Operand
  BY CpuAssumption DEF Operand
<1>5. ASSUME ~y.abort PROVE Running(e, Start(m))
  BY <1>5, <1>3, TwoOperandRuns, <1>4
<1>6. ASSUME ~y.abort, ~m.frozen PROVE Tidy(e, Start(m))
  BY <1>6, <1>3, TwoOperandTidy, <1>4
<1>. HIDE DEF e
<1>7. ~y.abort => Whole(e, Start(m))
  BY <1>5, RunningWhole
<1>8. Ended(e, y)
  BY <1>1 DEF y, e
<1>. QED BY <1>2, <1>6, <1>7, <1>8, InstructionEnds DEF y

LEMMA CombineEnds == ASSUME Machine(m), DoCombine PROVE Ends(m', m)
<1>1. PICK refusal \in Refusals, value \in Values, src \in Operands, dst \in SecondOperands :
         ~m.abort /\ Ended(Combine(Body(Fetch(m, refusal, value)), src, dst, FALSE), Fetch(m, refusal, value))
  BY DEF DoCombine, Execute, Ended, Body, Fetch
<1>. DEFINE y == Fetch(m, refusal, value)
            e == Combine(Body(y), src, dst, FALSE)
<1>2. m.abort = FALSE
  BY <1>1 DEF Machine, Typed
<1>3. /\ Start(m).r[7] \in Words
      /\ ~y.abort => Running(Body(y), Start(m)) /\ ~Body(y).abort
      /\ ~y.abort /\ ~m.frozen => Unwound(Body(y), Start(m), 0)
  BY <1>2, FetchRuns
<1>. HIDE DEF y
<1>4. src \in Operand /\ dst \in Operand
  BY CpuAssumption DEF Operand
<1>5. ASSUME ~y.abort PROVE Running(e, Start(m))
  BY <1>5, <1>3, TwoOperandRuns, <1>4
<1>6. ASSUME ~y.abort, ~m.frozen PROVE Tidy(e, Start(m))
  BY <1>6, <1>3, TwoOperandTidy, <1>4
<1>. HIDE DEF e
<1>7. ~y.abort => Whole(e, Start(m))
  BY <1>5, RunningWhole
<1>8. Ended(e, y)
  BY <1>1 DEF y, e
<1>. QED BY <1>2, <1>6, <1>7, <1>8, InstructionEnds DEF y

LEMMA MultiplyEnds == ASSUME Machine(m), DoMultiply PROVE Ends(m', m)
<1>1. PICK refusal \in Refusals, value \in Values, dst \in Operands :
         ~m.abort /\ Ended(Multiply(Body(Fetch(m, refusal, value)), dst), Fetch(m, refusal, value))
  BY DEF DoMultiply, Execute, Ended, Body, Fetch
<1>. DEFINE y == Fetch(m, refusal, value)
            e == Multiply(Body(y), dst)
<1>2. m.abort = FALSE
  BY <1>1 DEF Machine, Typed
<1>3. /\ Start(m).r[7] \in Words
      /\ ~y.abort => Running(Body(y), Start(m)) /\ ~Body(y).abort
      /\ ~y.abort /\ ~m.frozen => Unwound(Body(y), Start(m), 0)
  BY <1>2, FetchRuns
<1>. HIDE DEF y
<1>4. dst \in Operand
  BY CpuAssumption DEF Operand
<1>5. ASSUME ~y.abort PROVE Running(e, Start(m))
  BY <1>5, <1>3, MultiplyRuns, <1>4
<1>6. ASSUME ~y.abort, ~m.frozen PROVE Tidy(e, Start(m))
  BY <1>6, <1>3, MultiplyTidy, <1>4
<1>. HIDE DEF e
<1>7. ~y.abort => Whole(e, Start(m))
  BY <1>5, RunningWhole
<1>8. Ended(e, y)
  BY <1>1 DEF y, e
<1>. QED BY <1>2, <1>6, <1>7, <1>8, InstructionEnds DEF y

LEMMA TestAndSetEnds == ASSUME Machine(m), DoTestAndSet PROVE Ends(m', m)
<1>1. PICK refusal \in Refusals, value \in Values, dst \in Operands :
         ~m.abort /\ Ended(TestAndSet(Body(Fetch(m, refusal, value)), dst), Fetch(m, refusal, value))
  BY DEF DoTestAndSet, Execute, Ended, Body, Fetch
<1>. DEFINE y == Fetch(m, refusal, value)
            e == TestAndSet(Body(y), dst)
<1>2. m.abort = FALSE
  BY <1>1 DEF Machine, Typed
<1>3. /\ Start(m).r[7] \in Words
      /\ ~y.abort => Running(Body(y), Start(m)) /\ ~Body(y).abort
      /\ ~y.abort /\ ~m.frozen => Unwound(Body(y), Start(m), 0)
  BY <1>2, FetchRuns
<1>. HIDE DEF y
<1>4. dst \in Operand
  BY CpuAssumption DEF Operand
<1>6. ASSUME ~y.abort PROVE Whole(e, Start(m))
  BY <1>6, <1>3, TestAndSetWhole, <1>4
<1>7. ASSUME ~y.abort, ~m.frozen PROVE Tidy(e, Start(m))
  BY <1>7, <1>3, TestAndSetTidy, <1>4
<1>. HIDE DEF e
<1>8. Ended(e, y)
  BY <1>1 DEF y, e
<1>. QED BY <1>2, <1>6, <1>7, <1>8, InstructionEnds DEF y

LEMMA JumpEnds == ASSUME Machine(m), DoJump PROVE Ends(m', m)
<1>1. PICK refusal \in Refusals, value \in Values, dst \in Operands :
         ~m.abort /\ Ended(Jump(Body(Fetch(m, refusal, value)), dst), Fetch(m, refusal, value))
  BY DEF DoJump, Execute, Ended, Body, Fetch
<1>. DEFINE y == Fetch(m, refusal, value)
            e == Jump(Body(y), dst)
<1>2. m.abort = FALSE
  BY <1>1 DEF Machine, Typed
<1>3. /\ Start(m).r[7] \in Words
      /\ ~y.abort => Running(Body(y), Start(m)) /\ ~Body(y).abort
      /\ ~y.abort /\ ~m.frozen => Unwound(Body(y), Start(m), 0)
  BY <1>2, FetchRuns
<1>. HIDE DEF y
<1>4. dst \in Operand
  BY CpuAssumption DEF Operand
<1>6. ASSUME ~y.abort PROVE Whole(e, Start(m))
  BY <1>6, <1>3, JumpWhole, <1>4
<1>7. ASSUME ~y.abort, ~m.frozen PROVE Tidy(e, Start(m))
  BY <1>7, <1>3, JumpTidy, <1>4
<1>. HIDE DEF e
<1>8. Ended(e, y)
  BY <1>1 DEF y, e
<1>. QED BY <1>2, <1>6, <1>7, <1>8, InstructionEnds DEF y

LEMMA CallEnds == ASSUME Machine(m), DoCall PROVE Ends(m', m)
<1>1. PICK refusal \in Refusals, value \in Values, reg \in {1, 7}, dst \in Operands :
         ~m.abort /\ Ended(Call(Body(Fetch(m, refusal, value)), reg, dst), Fetch(m, refusal, value))
  BY DEF DoCall, Execute, Ended, Body, Fetch
<1>. DEFINE y == Fetch(m, refusal, value)
            e == Call(Body(y), reg, dst)
<1>2. m.abort = FALSE
  BY <1>1 DEF Machine, Typed
<1>3. /\ Start(m).r[7] \in Words
      /\ ~y.abort => Running(Body(y), Start(m)) /\ ~Body(y).abort
      /\ ~y.abort /\ ~m.frozen => Unwound(Body(y), Start(m), 0)
  BY <1>2, FetchRuns
<1>. HIDE DEF y
<1>4. dst \in Operand
  BY CpuAssumption DEF Operand
<1>6. ASSUME ~y.abort PROVE Whole(e, Start(m))
  BY <1>6, <1>3, CallWhole, <1>4
<1>7. ASSUME ~y.abort, ~m.frozen PROVE Tidy(e, Start(m))
  BY <1>7, <1>3, CallTidy, <1>4
<1>. HIDE DEF e
<1>8. Ended(e, y)
  BY <1>1 DEF y, e
<1>. QED BY <1>2, <1>6, <1>7, <1>8, InstructionEnds DEF y

LEMMA ReturnEnds == ASSUME Machine(m), DoReturn PROVE Ends(m', m)
<1>1. PICK refusal \in Refusals, value \in Values, reg \in {1, 7} :
         ~m.abort /\ Ended(Return(Body(Fetch(m, refusal, value)), reg), Fetch(m, refusal, value))
  BY DEF DoReturn, Execute, Ended, Body, Fetch
<1>. DEFINE y == Fetch(m, refusal, value)
            e == Return(Body(y), reg)
<1>2. m.abort = FALSE
  BY <1>1 DEF Machine, Typed
<1>3. /\ Start(m).r[7] \in Words
      /\ ~y.abort => Running(Body(y), Start(m)) /\ ~Body(y).abort
      /\ ~y.abort /\ ~m.frozen => Unwound(Body(y), Start(m), 0)
  BY <1>2, FetchRuns
<1>. HIDE DEF y
<1>5. ASSUME ~y.abort PROVE Running(e, Start(m))
  BY <1>5, <1>3, ReturnRuns
<1>6. ASSUME ~y.abort, ~m.frozen PROVE Tidy(e, Start(m))
  BY <1>6, <1>3, ReturnTidy
<1>. HIDE DEF e
<1>7. ~y.abort => Whole(e, Start(m))
  BY <1>5, RunningWhole
<1>8. Ended(e, y)
  BY <1>1 DEF y, e
<1>. QED BY <1>2, <1>6, <1>7, <1>8, InstructionEnds DEF y

LEMMA MarkEnds == ASSUME Machine(m), DoMark PROVE Ends(m', m)
<1>1. PICK refusal \in Refusals, value \in Values :
         ~m.abort /\ Ended(Mark(Body(Fetch(m, refusal, value))), Fetch(m, refusal, value))
  BY DEF DoMark, Execute, Ended, Body, Fetch
<1>. DEFINE y == Fetch(m, refusal, value)
            e == Mark(Body(y))
<1>2. m.abort = FALSE
  BY <1>1 DEF Machine, Typed
<1>3. /\ Start(m).r[7] \in Words
      /\ ~y.abort => Running(Body(y), Start(m)) /\ ~Body(y).abort
      /\ ~y.abort /\ ~m.frozen => Unwound(Body(y), Start(m), 0)
  BY <1>2, FetchRuns
<1>. HIDE DEF y
<1>5. ASSUME ~y.abort PROVE Running(e, Start(m))
  BY <1>5, <1>3, MarkRuns
<1>6. ASSUME ~y.abort, ~m.frozen PROVE Tidy(e, Start(m))
  BY <1>6, <1>3, MarkTidy
<1>. HIDE DEF e
<1>7. ~y.abort => Whole(e, Start(m))
  BY <1>5, RunningWhole
<1>8. Ended(e, y)
  BY <1>1 DEF y, e
<1>. QED BY <1>2, <1>6, <1>7, <1>8, InstructionEnds DEF y

LEMMA ReturnInterruptEnds == ASSUME Machine(m), DoReturnInterrupt PROVE Ends(m', m)
<1>1. PICK refusal \in Refusals, value \in Values, popped \in PoppedPsws, rtt \in BOOLEAN :
         ~m.abort /\ Ended(ReturnInterrupt(Body(Fetch(m, refusal, value)), popped, rtt), Fetch(m, refusal, value))
  BY DEF DoReturnInterrupt, Execute, Ended, Body, Fetch
<1>. DEFINE y == Fetch(m, refusal, value)
            e == ReturnInterrupt(Body(y), popped, rtt)
<1>2. m.abort = FALSE
  BY <1>1 DEF Machine, Typed
<1>3. /\ Start(m).r[7] \in Words
      /\ ~y.abort => Running(Body(y), Start(m)) /\ ~Body(y).abort
      /\ ~y.abort /\ ~m.frozen => Unwound(Body(y), Start(m), 0)
  BY <1>2, FetchRuns
<1>. HIDE DEF y
<1>6. ASSUME ~y.abort PROVE Whole(e, Start(m))
  BY <1>6, <1>3, ReturnInterruptWhole
<1>7. ASSUME ~y.abort, ~m.frozen PROVE Tidy(e, Start(m))
  BY <1>7, <1>3, ReturnInterruptTidy
<1>. HIDE DEF e
<1>8. Ended(e, y)
  BY <1>1 DEF y, e
<1>. QED BY <1>2, <1>6, <1>7, <1>8, InstructionEnds DEF y

LEMMA FromPreviousEnds == ASSUME Machine(m), DoFromPrevious PROVE Ends(m', m)
<1>1. PICK refusal \in Refusals, value \in Values, dst \in Operands :
         ~m.abort /\ Ended(FromPrevious(Body(Fetch(m, refusal, value)), dst), Fetch(m, refusal, value))
  BY DEF DoFromPrevious, Execute, Ended, Body, Fetch
<1>. DEFINE y == Fetch(m, refusal, value)
            e == FromPrevious(Body(y), dst)
<1>2. m.abort = FALSE
  BY <1>1 DEF Machine, Typed
<1>3. /\ Start(m).r[7] \in Words
      /\ ~y.abort => Running(Body(y), Start(m)) /\ ~Body(y).abort
      /\ ~y.abort /\ ~m.frozen => Unwound(Body(y), Start(m), 0)
  BY <1>2, FetchRuns
<1>. HIDE DEF y
<1>4. dst \in Operand
  BY CpuAssumption DEF Operand
<1>5. ASSUME ~y.abort PROVE Running(e, Start(m))
  BY <1>5, <1>3, FromPreviousRuns, <1>4
<1>6. ASSUME ~y.abort, ~m.frozen PROVE Tidy(e, Start(m))
  BY <1>6, <1>3, FromPreviousTidy, <1>4
<1>. HIDE DEF e
<1>7. ~y.abort => Whole(e, Start(m))
  BY <1>5, RunningWhole
<1>8. Ended(e, y)
  BY <1>1 DEF y, e
<1>. QED BY <1>2, <1>6, <1>7, <1>8, InstructionEnds DEF y

LEMMA ToPreviousEnds == ASSUME Machine(m), DoToPrevious PROVE Ends(m', m)
<1>1. PICK refusal \in Refusals, value \in Values, dst \in Operands :
         ~m.abort /\ Ended(ToPrevious(Body(Fetch(m, refusal, value)), dst), Fetch(m, refusal, value))
  BY DEF DoToPrevious, Execute, Ended, Body, Fetch
<1>. DEFINE y == Fetch(m, refusal, value)
            e == ToPrevious(Body(y), dst)
<1>2. m.abort = FALSE
  BY <1>1 DEF Machine, Typed
<1>3. /\ Start(m).r[7] \in Words
      /\ ~y.abort => Running(Body(y), Start(m)) /\ ~Body(y).abort
      /\ ~y.abort /\ ~m.frozen => Unwound(Body(y), Start(m), 0)
  BY <1>2, FetchRuns
<1>. HIDE DEF y
<1>4. dst \in Operand
  BY CpuAssumption DEF Operand
<1>6. ASSUME ~y.abort PROVE Whole(e, Start(m))
  BY <1>6, <1>3, ToPreviousWhole, <1>4
<1>7. ASSUME ~y.abort, ~m.frozen PROVE Tidy(e, Start(m))
  BY <1>7, <1>3, ToPreviousTidy, <1>4
<1>. HIDE DEF e
<1>8. Ended(e, y)
  BY <1>1 DEF y, e
<1>. QED BY <1>2, <1>6, <1>7, <1>8, InstructionEnds DEF y

LEMMA CallSupervisorEnds == ASSUME Machine(m), DoCallSupervisor PROVE Ends(m', m)
<1>1. PICK refusal \in Refusals, value \in Values, dst \in Operands :
         ~m.abort /\ Ended(CallSupervisor(Body(Fetch(m, refusal, value)), dst), Fetch(m, refusal, value))
  BY DEF DoCallSupervisor, Execute, Ended, Body, Fetch
<1>. DEFINE y == Fetch(m, refusal, value)
            e == CallSupervisor(Body(y), dst)
<1>2. m.abort = FALSE
  BY <1>1 DEF Machine, Typed
<1>3. /\ Start(m).r[7] \in Words
      /\ ~y.abort => Running(Body(y), Start(m)) /\ ~Body(y).abort
      /\ ~y.abort /\ ~m.frozen => Unwound(Body(y), Start(m), 0)
  BY <1>2, FetchRuns
<1>. HIDE DEF y
<1>4. dst \in Operand
  BY CpuAssumption DEF Operand
<1>6. ASSUME ~y.abort PROVE Whole(e, Start(m))
  BY <1>6, <1>3, CallSupervisorWhole, <1>4
<1>7. ASSUME ~y.abort, ~m.frozen PROVE Tidy(e, Start(m))
  BY <1>7, <1>3, CallSupervisorTidy, <1>4
<1>. HIDE DEF e
<1>8. Ended(e, y)
  BY <1>1 DEF y, e
<1>. QED BY <1>2, <1>6, <1>7, <1>8, InstructionEnds DEF y

LEMMA LoadPriorityEnds == ASSUME Machine(m), DoLoadPriority PROVE Ends(m', m)
<1>1. PICK refusal \in Refusals, value \in Values, dst \in Operands, ipl \in {0, 7} :
         ~m.abort /\ Ended(LoadPriority(Body(Fetch(m, refusal, value)), dst, ipl), Fetch(m, refusal, value))
  BY DEF DoLoadPriority, Execute, Ended, Body, Fetch
<1>. DEFINE y == Fetch(m, refusal, value)
            e == LoadPriority(Body(y), dst, ipl)
<1>2. m.abort = FALSE
  BY <1>1 DEF Machine, Typed
<1>3. /\ Start(m).r[7] \in Words
      /\ ~y.abort => Running(Body(y), Start(m)) /\ ~Body(y).abort
      /\ ~y.abort /\ ~m.frozen => Unwound(Body(y), Start(m), 0)
  BY <1>2, FetchRuns
<1>. HIDE DEF y
<1>4. dst \in Operand
  BY CpuAssumption DEF Operand
<1>6. ASSUME ~y.abort PROVE Whole(e, Start(m))
  BY <1>6, <1>3, LoadPriorityWhole, <1>4
<1>7. ASSUME ~y.abort, ~m.frozen PROVE Tidy(e, Start(m))
  BY <1>7, <1>3, PriorityTidy, <1>4
<1>. HIDE DEF e
<1>8. Ended(e, y)
  BY <1>1 DEF y, e
<1>. QED BY <1>2, <1>6, <1>7, <1>8, InstructionEnds DEF y

LEMMA SetPriorityEnds == ASSUME Machine(m), DoSetPriority PROVE Ends(m', m)
<1>1. PICK refusal \in Refusals, value \in Values, ipl \in {0, 7} :
         ~m.abort /\ Ended(SetPriority(Body(Fetch(m, refusal, value)), ipl), Fetch(m, refusal, value))
  BY DEF DoSetPriority, Execute, Ended, Body, Fetch
<1>. DEFINE y == Fetch(m, refusal, value)
            e == SetPriority(Body(y), ipl)
<1>2. m.abort = FALSE
  BY <1>1 DEF Machine, Typed
<1>3. /\ Start(m).r[7] \in Words
      /\ ~y.abort => Running(Body(y), Start(m)) /\ ~Body(y).abort
      /\ ~y.abort /\ ~m.frozen => Unwound(Body(y), Start(m), 0)
  BY <1>2, FetchRuns
<1>. HIDE DEF y
<1>4. <<0, 0>> \in Operand
  BY DEF Operand, Regs
<1>6. ASSUME ~y.abort PROVE Whole(e, Start(m))
  BY <1>6, <1>3, LoadPriorityWhole, <1>4
<1>7. ASSUME ~y.abort, ~m.frozen PROVE Tidy(e, Start(m))
  BY <1>7, <1>3, PriorityTidy, <1>4
<1>. HIDE DEF e
<1>8. Ended(e, y)
  BY <1>1 DEF y, e
<1>. QED BY <1>2, <1>6, <1>7, <1>8, InstructionEnds DEF y

LEMMA TrapEnds == ASSUME Machine(m), DoTrap PROVE Ends(m', m)
<1>1. PICK refusal \in Refusals, value \in Values :
         ~m.abort /\ Ended(Trap(Body(Fetch(m, refusal, value))), Fetch(m, refusal, value))
  BY DEF DoTrap, Execute, Ended, Body, Fetch
<1>. DEFINE y == Fetch(m, refusal, value)
            e == Trap(Body(y))
<1>2. m.abort = FALSE
  BY <1>1 DEF Machine, Typed
<1>3. /\ Start(m).r[7] \in Words
      /\ ~y.abort => Running(Body(y), Start(m)) /\ ~Body(y).abort
      /\ ~y.abort /\ ~m.frozen => Unwound(Body(y), Start(m), 0)
  BY <1>2, FetchRuns
<1>. HIDE DEF y
<1>5. ASSUME ~y.abort PROVE Whole(Body(y), Start(m))
  BY <1>3, <1>5, RunningWhole
<1>6. ~y.abort => Whole(e, Start(m))
  BY <1>5, TrapWhole
<1>7. ASSUME ~y.abort, ~m.frozen PROVE Tidy(e, Start(m))
  BY <1>7, <1>3, UnwoundGoing, GoingTidy, TrapTidy
<1>. HIDE DEF e
<1>8. Ended(e, y)
  BY <1>1 DEF y, e
<1>. QED BY <1>2, <1>6, <1>7, <1>8, InstructionEnds DEF y

LEMMA HaltEnds == ASSUME Machine(m), DoHalt PROVE Ends(m', m)
<1>1. PICK refusal \in Refusals, value \in Values :
         ~m.abort /\ Ended(Halt(Body(Fetch(m, refusal, value))), Fetch(m, refusal, value))
  BY DEF DoHalt, Execute, Ended, Body, Fetch
<1>. DEFINE y == Fetch(m, refusal, value)
            e == Halt(Body(y))
<1>2. m.abort = FALSE
  BY <1>1 DEF Machine, Typed
<1>3. /\ Start(m).r[7] \in Words
      /\ ~y.abort => Running(Body(y), Start(m)) /\ ~Body(y).abort
      /\ ~y.abort /\ ~m.frozen => Unwound(Body(y), Start(m), 0)
  BY <1>2, FetchRuns
<1>. HIDE DEF y
<1>6. ASSUME ~y.abort PROVE Whole(e, Start(m))
  BY <1>6, <1>3, HaltWhole
<1>7. ASSUME ~y.abort, ~m.frozen PROVE Tidy(e, Start(m))
  BY <1>7, <1>3, HaltTidy
<1>. HIDE DEF e
<1>8. Ended(e, y)
  BY <1>1 DEF y, e
<1>. QED BY <1>2, <1>6, <1>7, <1>8, InstructionEnds DEF y

LEMMA WaitEnds == ASSUME Machine(m), DoWait PROVE Ends(m', m)
<1>1. PICK refusal \in Refusals, value \in Values :
         ~m.abort /\ Ended(Wait(Body(Fetch(m, refusal, value))), Fetch(m, refusal, value))
  BY DEF DoWait, Execute, Ended, Body, Fetch
<1>. DEFINE y == Fetch(m, refusal, value)
            e == Wait(Body(y))
<1>2. m.abort = FALSE
  BY <1>1 DEF Machine, Typed
<1>3. /\ Start(m).r[7] \in Words
      /\ ~y.abort => Running(Body(y), Start(m)) /\ ~Body(y).abort
      /\ ~y.abort /\ ~m.frozen => Unwound(Body(y), Start(m), 0)
  BY <1>2, FetchRuns
<1>. HIDE DEF y
<1>5. ASSUME ~y.abort PROVE Running(e, Start(m))
  BY <1>5, <1>3, WaitRuns
<1>6. ASSUME ~y.abort, ~m.frozen PROVE Tidy(e, Start(m))
  BY <1>6, <1>3, WaitResetTidy
<1>. HIDE DEF e
<1>7. ~y.abort => Whole(e, Start(m))
  BY <1>5, RunningWhole
<1>8. Ended(e, y)
  BY <1>1 DEF y, e
<1>. QED BY <1>2, <1>6, <1>7, <1>8, InstructionEnds DEF y

LEMMA ResetEnds == ASSUME Machine(m), DoReset PROVE Ends(m', m)
<1>1. PICK refusal \in Refusals, value \in Values :
         ~m.abort /\ Ended(Reset(Body(Fetch(m, refusal, value))), Fetch(m, refusal, value))
  BY DEF DoReset, Execute, Ended, Body, Fetch
<1>. DEFINE y == Fetch(m, refusal, value)
            e == Reset(Body(y))
<1>2. m.abort = FALSE
  BY <1>1 DEF Machine, Typed
<1>3. /\ Start(m).r[7] \in Words
      /\ ~y.abort => Running(Body(y), Start(m)) /\ ~Body(y).abort
      /\ ~y.abort /\ ~m.frozen => Unwound(Body(y), Start(m), 0)
  BY <1>2, FetchRuns
<1>. HIDE DEF y
<1>5. ASSUME ~y.abort PROVE Running(e, Start(m))
  BY <1>5, <1>3, ResetRuns
<1>6. ASSUME ~y.abort, ~m.frozen PROVE Tidy(e, Start(m))
  BY <1>6, <1>3, WaitResetTidy
<1>. HIDE DEF e
<1>7. ~y.abort => Whole(e, Start(m))
  BY <1>5, RunningWhole
<1>8. Ended(e, y)
  BY <1>1 DEF y, e
<1>. QED BY <1>2, <1>6, <1>7, <1>8, InstructionEnds DEF y

-----------------------------------------------------------------------------
(* The steps that fetch no instruction.                                    *)

LEMMA ResumeEnds == ASSUME Machine(m), Resume PROVE Ends(m', m)
<1>. DEFINE c == Clear(m)
            y == [c EXCEPT !.abort = FALSE]
<1>1. m' = y
  BY DEF Resume
<1>2. /\ Typed(c) /\ c.r = m.r /\ c.psw = m.psw /\ c.sp = m.sp /\ c.spInit = m.spInit
      /\ c.yellow = m.yellow /\ c.did = {} /\ c.acked = {} /\ c.taken = {}
  BY ClearParts
<1>. HIDE DEF c
<1>3. /\ Fields(y) /\ y.abort = FALSE /\ y.r = c.r /\ y.psw = c.psw /\ y.sp = c.sp
      /\ y.spInit = c.spInit /\ y.bank = c.bank /\ y.yellow = c.yellow /\ y.irq = c.irq
      /\ y.did = c.did /\ y.value = c.value /\ y.acked = c.acked /\ y.taken = c.taken
  BY <1>2 DEF Typed, Fields
<1>. HIDE DEF y
<1>4. Typed(y)
  BY <1>2, <1>3 DEF Typed
<1>5. Begin(m, y) /\ y.r[7] = m.r[7]
  BY <1>2, <1>3 DEF Begin
<1>6. Running(y, m)
  BY <1>2, <1>3, <1>4, <1>5, FreshRuns DEF Machine
<1>7. Sound(y, m) /\ Owes(y) /\ Begin(m, m)
  BY <1>6, WholeOwes DEF Running, Begin
<1>8. ~CutOff(y)
  BY <1>2, <1>3 DEF CutOff
<1>. QED BY <1>1, <1>7, <1>8, SoundEnds

\* The machine cleared, and no longer waiting.
Awake(x) == [Clear(x) EXCEPT !.wait = FALSE]

LEMMA AwakeRuns ==
    ASSUME NEW x, Machine(x), ~x.abort
    PROVE  /\ Running(Awake(x), x) /\ Awake(x).irq = x.irq /\ Awake(x).psw = x.psw
           /\ Tidy(Awake(x), x)
<1>. DEFINE c == Clear(x)
            y == [c EXCEPT !.wait = FALSE]
<1>1. /\ Typed(c) /\ c.r = x.r /\ c.psw = x.psw /\ c.sp = x.sp /\ c.spInit = x.spInit
      /\ c.abort = x.abort /\ c.yellow = x.yellow /\ c.irq = x.irq
      /\ c.did = {} /\ c.acked = {} /\ c.taken = {}
  BY ClearParts
<1>. HIDE DEF c
<1>2. c.abort = FALSE
  BY <1>1 DEF Typed
<1>3. Begin(x, c) /\ c.r[7] = x.r[7]
  BY <1>1 DEF Begin
<1>4. Running(c, x)
  BY <1>1, <1>2, <1>3, FreshRuns DEF Machine
<1>5. Twin(c, y)
  BY <1>1, OtherFields
<1>. HIDE DEF y
<1>6. Running(y, x)
  BY <1>4, <1>5, TwinRuns
<1>7. y.irq = x.irq /\ y.psw = x.psw /\ y.did = {}
  BY <1>1, <1>5 DEF Twin, Around, Beside
<1>8. Tidy(y, x)
  BY <1>6, <1>7, RunningWhole, WholeTidy
<1>. QED BY <1>6, <1>7, <1>8 DEF Awake, y, c

LEMMA WaitingEnds == ASSUME Machine(m), Waiting PROVE Ends(m', m)
<1>. DEFINE x == Awake(m)
<1>1. ~m.abort /\ (m' = Trap(x) \/ (Asking(m) # {} /\ m' = Interrupt(x)))
  BY DEF Waiting, Awake
<1>2. Running(x, m) /\ x.irq = m.irq /\ x.psw = m.psw /\ Tidy(x, m)
  BY <1>1, AwakeRuns
<1>3. Whole(x, m) /\ Asking(x) = Asking(m) /\ Begin(m, m)
  BY <1>2 DEF Running, Asking, Begin
<1>. HIDE DEF x
<1>4. CASE m' = Trap(x)
  <2>1. Sound(Trap(x), m) /\ Owes(Trap(x))
    BY <1>3, TrapWhole, WholeOwes
  <2>2. CutOff(Trap(x)) => Restored(Trap(x), m)
    BY <1>2, TrapTidy DEF Tidy
  <2> QED BY <1>3, <1>4, <2>1, <2>2, SoundEnds
<1>5. CASE Asking(m) # {} /\ m' = Interrupt(x)
  <2>1. Sound(Interrupt(x), m) /\ Owes(Interrupt(x))
    BY <1>3, <1>5, InterruptOwes
  <2>2. CutOff(Interrupt(x)) => Restored(Interrupt(x), m)
    BY <1>2, <1>3, <1>5, InterruptTidy DEF Tidy
  <2> QED BY <1>3, <1>5, <2>1, <2>2, SoundEnds
<1>. QED BY <1>1, <1>4, <1>5

LEMMA HaltSwitchEnds == ASSUME Machine(m), HaltSwitch PROVE Ends(m', m)
<1>1. ~m.abort /\ m' = HandleHalt(Awake(m))
  BY DEF HaltSwitch, Awake
<1>2. Sound(m', m) /\ Owes(m') /\ Begin(m, m) /\ (CutOff(m') => Restored(m', m))
  <2>1. Whole(HandleHalt(Awake(m)), m) /\ Tidy(HandleHalt(Awake(m)), m)
    BY <1>1, AwakeRuns, HandleHaltWhole, HandleHaltTidy
  <2> QED BY <1>1, <2>1, WholeOwes DEF Begin, Tidy
<1>. QED BY <1>2, SoundEnds

\* A request of a device, and the note of a fault that the program clears.
LEMMA BetweenEnds ==
    ASSUME Machine(m), Request \/ ClearMmr0
    PROVE  Ends(m', m)
<1>. DEFINE c == Clear(m)
<1>1. /\ Typed(c) /\ c.r = m.r /\ c.psw = m.psw /\ c.sp = m.sp /\ c.spInit = m.spInit
      /\ c.yellow = m.yellow /\ c.irq = m.irq /\ c.did = {} /\ c.acked = {} /\ c.taken = {}
  BY ClearParts
<1>2. /\ Fields(m') /\ m'.r = c.r /\ m'.psw = c.psw /\ m'.sp = c.sp /\ m'.spInit = c.spInit
      /\ m'.bank = c.bank /\ m'.abort = c.abort /\ m'.yellow = c.yellow /\ m'.value = c.value
      /\ m'.did = c.did /\ m'.acked = c.acked /\ m'.taken = c.taken /\ m'.irq \subseteq Levels
  <2>1. CASE Request
    <3>1. PICK l \in Levels : m' = [c EXCEPT !.irq = c.irq \cup {l}]
      BY <2>1 DEF Request
    <3>. DEFINE i == c.irq \cup {l}
    <3>2. i \subseteq Levels
      BY <1>1 DEF Typed
    <3>3. m' = [c EXCEPT !.irq = i]
      BY <3>1
    <3>. HIDE DEF c, i
    <3> QED BY <1>1, <3>2, <3>3 DEF Typed, Fields
  <2>2. CASE ClearMmr0
    <3>1. m' = [c EXCEPT !.frozen = FALSE]
      BY <2>2 DEF ClearMmr0
    <3>. HIDE DEF c
    <3> QED BY <1>1, <3>1 DEF Typed, Fields
  <2> QED BY <2>1, <2>2
<1>. HIDE DEF c
<1>3. Typed(m')
  BY <1>1, <1>2 DEF Typed
<1>4. Begin(m, m')
  BY <1>1, <1>2 DEF Begin
<1>5. \A k \in Modes : StackPointer(m', k) = StackPointer(m, k)
  BY <1>4 DEF Begin, StackPointer
<1>6. Stacked(m', m)
  BY <1>4, <1>5 DEF Begin, Stacked
<1>7. Guarded(m', m) /\ Noted(m', m)
  BY <1>1, <1>2, <1>4 DEF Begin, Guarded, Noted, Kernel
<1>8. Owes(m')
  BY <1>1, <1>2 DEF Owes
<1>9. ~CutOff(m')
  BY <1>1, <1>2 DEF CutOff
<1>. QED BY <1>3, <1>4, <1>6, <1>7, <1>8, <1>9 DEF Ends, Machine, Begin

-----------------------------------------------------------------------------
(* The machine of every state, and what every step leaves.                 *)

LEMMA InitMachine == ASSUME Init PROVE Machine(m)
<1>1. m.r = [k \in Regs |-> 0] /\ m.sp = [k \in Modes |-> 0]
      /\ m.bank = NoBank
  BY DEF Init
<1>2. m.psw = InitPsw /\ m.spInit = FALSE /\ m.abort = FALSE /\ m.irq = {} /\ m.value = 0
      /\ Fields(m)
  BY DEF Init, Fields
<1>3. 0 \in Words /\ 0 \in 0 .. WordSize
  BY WordFacts
<1>4. m.r \in Registers
  BY <1>1, <1>3 DEF Registers, Regs
<1>5. m.psw \in Psws /\ m.psw.cur = 0
  BY <1>2 DEF InitPsw, Psws, Modes
<1>6. m.sp \in [Modes -> Words]
  BY <1>1, <1>3
<1>7. m.irq \subseteq Levels /\ m.value \in Words /\ m.spInit \in BOOLEAN /\ m.abort \in BOOLEAN
  BY <1>2, <1>3
<1>. QED BY <1>1, <1>2, <1>4, <1>5, <1>6, <1>7 DEF Machine, Typed

LEMMA StepEnds == ASSUME Machine(m), Next PROVE Ends(m', m)
<1>1. CASE \/ DoWrite \/ DoRead \/ DoModify \/ DoCopy \/ DoCompare \/ DoCombine \/ DoMultiply
  BY <1>1, WriteEnds, ReadEnds, ModifyEnds, CopyEnds, CompareEnds, CombineEnds, MultiplyEnds
<1>2. CASE \/ DoTestAndSet \/ DoJump \/ DoCall \/ DoReturn \/ DoMark \/ DoReturnInterrupt
  BY <1>2, TestAndSetEnds, JumpEnds, CallEnds, ReturnEnds, MarkEnds, ReturnInterruptEnds
<1>3. CASE \/ DoFromPrevious \/ DoToPrevious \/ DoCallSupervisor \/ DoLoadPriority
           \/ DoSetPriority
  BY <1>3, FromPreviousEnds, ToPreviousEnds, CallSupervisorEnds, LoadPriorityEnds, SetPriorityEnds
<1>4. CASE DoTrap \/ DoHalt \/ DoWait \/ DoReset
  BY <1>4, TrapEnds, HaltEnds, WaitEnds, ResetEnds
<1>5. CASE Resume \/ Waiting \/ HaltSwitch \/ Request \/ ClearMmr0
  BY <1>5, ResumeEnds, WaitingEnds, HaltSwitchEnds, BetweenEnds
<1>. QED BY <1>1, <1>2, <1>3, <1>4, <1>5 DEF Next

\* Whatever instructions a program runs, whatever accesses are refused and whenever the
\* devices ask, registers and kept stack pointers are words, the PSW is one that the
\* processor has, and outside kernel mode the stack pointers of the modes are kept apart.
THEOREM MachineAlways == Spec => []Machine(m)
<1>1. Init => Machine(m)
  BY InitMachine
<1>2. Machine(m) /\ [Next]_vars => Machine(m)'
  <2>1. CASE Next
    BY <2>1, StepEnds DEF Ends
  <2>2. CASE UNCHANGED vars
    BY <2>2 DEF vars, Machine
  <2> QED BY <2>1, <2>2
<1>. QED BY <1>1, <1>2, PTL DEF Spec

\* A program outside kernel mode comes into it, or to another priority, by a trap, an
\* interrupt or the HALT switch only.
THEOREM KernelEntryAlways == Spec => KernelEntry
<1>1. Machine(m) /\ [Next]_vars =>
        [~Kernel(m.psw) /\ (Kernel(m'.psw) \/ m'.psw.ipl # m.psw.ipl) => Framed(m')]_vars
  <2>1. Machine(m) /\ Next => Guarded(m', m)
    BY StepEnds DEF Ends
  <2> QED BY <2>1 DEF Guarded
<1>. QED BY <1>1, MachineAlways, PTL DEF Spec, KernelEntry

\* The stack pointers of the modes a program is not in are out of its reach, but for MTPI,
\* MTPD and CSM, and that of the kernel for the frames of traps.
THEOREM OtherStacksAlways == Spec => OtherStacks
<1>1. Machine(m) /\ [Next]_vars =>
        [m.spInit =>
          \A k \in Modes \ {m.psw.cur} :
              \/ StackPointer(m', k) = StackPointer(m, k)
              \/ "other stack" \in m'.did
              \/ k = 0 /\ Framed(m')]_vars
  <2>1. Machine(m) /\ Next => Stacked(m', m)
    BY StepEnds DEF Ends
  <2> QED BY <2>1 DEF Stacked
<1>. QED BY <1>1, MachineAlways, PTL DEF Spec, OtherStacks

\* A stack trap asked for stays asked for until it is served or an access is refused.
THEOREM YellowAlways == Spec => YellowNotLost
<1>1. Machine(m) /\ [Next]_vars =>
        [m.yellow \/ "yellow" \in m'.did =>
          \/ m'.yellow \/ "served" \in m'.did
          \/ {"refused", "red"} \cap m'.did # {}]_vars
  <2>1. Machine(m) /\ Next => Noted(m', m)
    BY StepEnds DEF Ends
  <2> QED BY <2>1 DEF Noted
<1>. QED BY <1>1, MachineAlways, PTL DEF Spec, YellowNotLost

\* However many levels ask at the end of an instruction, one acknowledged interrupt is lost
\* at most, and only to an abort.
THEOREM OneLostAtMost == Spec => NoSecondLost
<1>1. Machine(m) /\ [Next]_vars =>
        [/\ m'.acked # m'.taken => m'.abort
         /\ Cardinality(m'.acked \ m'.taken) <= 1]_vars
  <2>1. SUFFICES ASSUME Machine(m), Next
                 PROVE  /\ m'.acked # m'.taken => m'.abort
                        /\ Cardinality(m'.acked \ m'.taken) <= 1
    OBVIOUS
  <2>2. Owes(m')
    BY <2>1, StepEnds DEF Ends
  <2>3. CASE m'.acked = m'.taken
    <3>1. m'.acked \ m'.taken = {}
      BY <2>3
    <3> QED BY <2>3, <3>1, FS_EmptySet
  <2>4. CASE m'.abort /\ \E l : m'.acked = m'.taken \cup {l}
    <3>1. PICK l : m'.acked = m'.taken \cup {l}
      BY <2>4
    <3>2. m'.acked \ m'.taken = {} \/ m'.acked \ m'.taken = {l}
      BY <3>1
    <3>3. Cardinality({l}) = 1 /\ Cardinality({}) = 0
      BY FS_EmptySet, FS_Singleton
    <3> QED BY <2>4, <3>2, <3>3
  <2> QED BY <2>2, <2>3, <2>4 DEF Owes
<1>. QED BY <1>1, MachineAlways, PTL DEF Spec, NoSecondLost

\* An instruction that is refused an access leaves, of the registers, what the handler needs
\* to undo its moves and run it again, whatever access it was and whatever came before it.
THEOREM AbortCleanAlways == Spec => AbortClean
<1>1. Machine(m) /\ [Next]_vars =>
        [LET x     == m'
             fault == "refused" \in x.did /\ x.kind = "mmu" /\ ~m.frozen
             left  == {"pull", "halt", "other stack"} \cap x.did = {}
             red   == "red" \in x.did
             sp(k) == IF k = 0 THEN Word(StackPointer(x, 0) + 4) ELSE StackPointer(x, k)
         IN  fault /\ left =>
               /\ x.frame.psw = m.psw /\ x.psw = TrapPsw(m.psw, 7) /\ x.r[7] = HandlerPc
               /\ Word(SetRegister(x, m.psw.set, 1) - Moved(x, 1)) = m.r[1]
               /\ Word(sp(m.psw.cur) - Moved(x, 6)) = m.r[6] \/ (red /\ Kernel(m.psw))
               /\ m.spInit => \A k \in Modes \ {m.psw.cur} : sp(k) = m.sp[k] \/ (red /\ k = 0)]_vars
  <2>1. Machine(m) /\ Next => (CutOff(m') /\ ~m.frozen => Restored(m', m))
    BY StepEnds DEF Ends
  <2> QED BY <2>1 DEF CutOff, Restored, Before
<1>. QED BY <1>1, MachineAlways, PTL DEF Spec, AbortClean
=============================================================================
