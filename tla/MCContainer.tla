----------------------------- MODULE MCContainer -----------------------------
(***************************************************************************)
(* Small images for Container: a bootstrap block followed by a ring of up  *)
(* to three blocks.  Lengths are in units of the minimum block size.       *)
(***************************************************************************)
EXTENDS Container

Geo(size, fusion, tree, base, len) ==
    [blockSize |-> size, fusion |-> fusion, descTree |-> tree,
     descBase |-> base, descBlocks |-> len]

Plain(len) == Geo(1, FALSE, FALSE, 1, len)

Blk(kind, magic, cksum, xid, geo, count, maps) ==
    [kind |-> kind, magic |-> magic, cksum |-> cksum, xid |-> xid,
     geo |-> geo, count |-> count, maps |-> maps]

Sb(xid, cksum, geo) == Blk("nxsb", TRUE, cksum, xid, geo, 0, <<>>)
Cpm(xid, cksum, count, maps) ==
    Blk("cpm", FALSE, cksum, xid, NoGeometry, count, maps)
M(oid, paddr) == [oid |-> oid, paddr |-> paddr]

\* What a ring slot can hold: superblocks of three transactions, torn,
\* without magic or under another type; maps live, stale, torn, overlong.
Slots ==
    {Sb(1, 1, Plain(3)), Sb(2, 1, Plain(3)), Sb(3, 0, Plain(3)),
     Blk("nxsb", FALSE, 1, 3, Plain(3), 0, <<>>),
     Blk("other", TRUE, 1, 3, Plain(3), 0, <<>>),
     Cpm(2, 1, 1, <<M(7, 20)>>), Cpm(2, 1, 2, <<M(8, 21), M(7, 22)>>),
     Cpm(2, 1, 7, <<M(8, 23)>>), Cpm(1, 1, 1, <<M(7, 24)>>),
     Cpm(2, 0, 1, <<M(9, 25)>>)}

Image(b0, ring) == [a \in 0 .. Len(ring) |-> IF a = 0 THEN b0 ELSE ring[a]]

Rings(n) == [1 .. n -> Slots]

FewRings == {<<Sb(1, 1, Plain(2)), Cpm(1, 1, 1, <<M(7, 24)>>)>>,
             <<Sb(1, 2, Plain(2)), Sb(2, 2, Plain(2))>>}

\* Bootstraps that open must refuse, or that lead it beyond the image.
OddBoots ==
    {Blk("nxsb", FALSE, 1, 1, Plain(2), 0, <<>>), Sb(1, 0, Plain(2)),
     Sb(1, 1, Geo(1, TRUE, TRUE, 1, 2)), Sb(1, 1, Geo(1, FALSE, TRUE, 1, 2)),
     Sb(1, 1, Geo(0, FALSE, FALSE, 1, 2)), Sb(1, 1, Geo(3, FALSE, FALSE, 1, 2)),
     Sb(1, 1, Geo(2, FALSE, FALSE, 1, 2)), Sb(1, 2, Geo(2, FALSE, FALSE, 1, 2)),
     Sb(1, 1, Plain(0)), Sb(1, 1, Plain(3)),
     Sb(1, 1, Geo(1, FALSE, FALSE, AddrSpace - 1, 3))}

MCImages ==
    {Image(Sb(1, 1, Plain(3)), r) : r \in Rings(3)}
      \cup {Image(b0, r) : b0 \in OddBoots, r \in FewRings}
      \cup {<<>>}
=============================================================================
