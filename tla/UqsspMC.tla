------------------------------- MODULE UqsspMC -------------------------------
(* Values for the constants of Uqssp that a .cfg file cannot write. *)
EXTENDS Uqssp

\* The four words of an ordinary start with interrupts: valid and IE, a
\* communications area at 0200, its high part, GO.
MCSaStart == {{15, 7}, {7}, {}, {0}}

\* The same and every single bit the steps look at, IE left out, wrap and purge.
MCSaAll == {{}, {0}, {1}, {7}, {14}, {15}, {15, 7}}
=============================================================================
