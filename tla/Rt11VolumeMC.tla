---------------------------- MODULE Rt11VolumeMC ----------------------------
(* Volumes of Rt11Volume: one just made by rt11_mkfs, and volumes RT-11 has used. *)
EXTENDS Rt11Volume

CONSTANTS A, B, C

File(name, len) == [status |-> "file", name |-> name, len |-> len, prot |-> FALSE]
Tent(name, len) == [File(name, len) EXCEPT !.status = "tent"]
Locked(name, len) == [File(name, len) EXCEPT !.prot = TRUE]
Segm(start, entries, eos) == [start |-> start, entries |-> entries, eos |-> eos]

\* Every block holds something of its own; 0 is no request.
Volume(segments) == [dir |-> segments, data |-> [b \in Block |-> <<0, b>>]]

MCVolumes ==
    {Volume(<<Segm(0, <<Empty(Blocks)>>, 0)>>),
     \* an area at the start, so that both files move, the second over itself
     Volume(<<Segm(0, <<Empty(1), File(A, 1), File(B, 3)>>, 0), Segm(5, <<Locked(C, 1), Empty(1)>>, 0)>>),
     \* two segments with areas, the second with a tentative file
     Volume(<<Segm(0, <<Locked(A, 1), Empty(1), File(B, 2)>>, 0), Segm(4, <<Empty(2), Tent(C, 1)>>, 0)>>),
     \* a volume longer than its directory says, and a file of no length
     Volume(<<Segm(0, <<File(A, 2), File(B, 0), Empty(1), File(C, 2)>>, 0)>>)}

=============================================================================
