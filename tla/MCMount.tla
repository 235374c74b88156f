------------------------------- MODULE MCMount -------------------------------
(***************************************************************************)
(* A volume of two nodes, one of them a node of the snapshot tree that has *)
(* the address of a free block for its oid, through three transactions,    *)
(* in a container with a neighbour behind an emptied slot; or with no      *)
(* volume, a volume the map does not know, one slot more than the cap, a   *)
(* bad block size.                                                         *)
(***************************************************************************)
EXTENDS Mount

S(size, slots, maxFs) == [size |-> size, slots |-> slots, maxFs |-> maxFs]

MCSnapNodes == <<10>>

MCHome == [o \in Oids |-> IF o = 1 THEN 6 ELSE 7]

MCSuper == S(1, <<9, 0, 10>>, 8)

MCOddSupers ==
    {S(1, <<0, 0>>, 2), S(1, <<9, 7>>, 2), S(1, <<9, 0, 10, 7>>, 8), S(0, <<9>>, 1)}
=============================================================================
