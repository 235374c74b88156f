-------------------------------- MODULE MCVfs --------------------------------
(***************************************************************************)
(* Four objects, walks of one to three blocks: object 1 has an inode that  *)
(* leads to object 2, object 2 a record two blocks away, object 3 a damaged*)
(* block, object 4 no record.                                              *)
(***************************************************************************)
EXTENDS Vfs

B(next, data, sound) == [next |-> next, data |-> data, sound |-> sound]

MCBlocks ==
    <<B(2, 0, TRUE), B(0, 2, TRUE), B(4, 0, TRUE), B(0, 3, TRUE),
      B(0, 1, FALSE), B(0, 0, TRUE), B(1, 0, TRUE)>>
MCFirst == <<7, 3, 5, 6>>
MCOutcome ==
    <<Answer("ok", 2), Answer("ok", 2), Answer("ok", 3), Answer("ok", 3),
      Answer("Decode", 0), Answer("ok", 0), Answer("ok", 2)>>

C(op, oid, xid) ==
    [op |-> op, domain |-> "apfs", oid |-> oid, xid |-> xid, plain |-> TRUE]

MCCalls ==
    {C("read_dir", 2, 7), C("read_at", 1, 7), C("meta", 2, 7), C("lookup", 3, 7),
     C("extents", 4, 7), C("lookup", 4, 6),
     [C("lookup", 1, 7) EXCEPT !.plain = FALSE],
     [C("read_at", 1, 7) EXCEPT !.plain = FALSE],
     [C("meta", 1, 7) EXCEPT !.domain = "foreign"]}

OldIdCalls == {C("read_at", 1, 6)}
=============================================================================
