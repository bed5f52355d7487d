------------------------------- MODULE MmuMC -------------------------------
(* Memory management with 4 MB of RAM, the default of the PDP-11/84.  All  *)
(* accesses are in page 7, where the registers lie while the MMU is off.   *)
EXTENDS Mmu

\* The kernel's page, as instruction and as data.
KernelPage == {<<0, 0, 7>>, <<0, 1, 7>>}

\* RAM at 0; a window that is the 18-bit I/O page, and RAM with 22-bit addresses; one that
\* runs into the I/O page of either size; and the I/O page.
SomeBases == {0, \o7600, \o177500, \o177600}

\* A page to read and write, and a stack of one block only to read.
SomeControls ==
    {[len |-> 127, down |-> FALSE, acf |-> 6], [len |-> 127, down |-> TRUE, acf |-> 2]}

\* The registers of the pages loaded, SSR0, SSR3, the PSW and the console.
SomeOffsets ==
    {0, \o12316, \o12336, \o12356, \o12376, \o12516, \o17560, \o17572, \o17776, \o17777}

SomeSplits == {{}, {0}}
Console == {\o177560}

=============================================================================
