------------------------------- MODULE CpuMC -------------------------------
(* Bounds of Cpu: modes of each kind, on a general register, the SP and the PC. *)
EXTENDS Cpu

MCOperands == {<<0, 6>>, <<2, 1>>, <<4, 6>>, <<7, 1>>}
MCSecond == {<<0, 1>>, <<5, 1>>}
MCPsws == {[cur |-> 3, prev |-> 1, set |-> 1, ipl |-> 0, t |-> FALSE],
           [cur |-> 1, prev |-> 3, set |-> 0, ipl |-> 0, t |-> TRUE],
           [cur |-> 0, prev |-> 3, set |-> 0, ipl |-> 4, t |-> FALSE]}
MCOps == {"write", "read", "modify", "copy", "compare", "combine", "multiply", "tstset", "jmp",
          "jsr", "rts", "mark", "rti", "mfp", "mtp", "csm", "mtps", "spl", "trap", "halt",
          "wait", "reset", "halt switch"}
MCRefusals == [by : {"mmu"}, at : {{}, {1}, {2}, {3}, {5}, {3, 4}}] \cup [by : {"bus"}, at : {{3}}]

\* What later steps see of the machine: neither the log of the last step nor the PC, which
\* starts each step at 0, nor register 0, which only receives results.
MCView ==
    <<m.r[1], m.r[6], IF m.bank = NoBank THEN <<>> ELSE <<m.bank[0][1], m.bank[1][1]>>,
      m.psw, m.sp, m.spInit, m.abort, m.wait,
      m.yellow, m.frozen, IF m.frozen THEN m.mmr1 ELSE <<>>, m.irq, steps>>

=============================================================================
