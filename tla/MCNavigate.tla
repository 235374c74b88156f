------------------------------ MODULE MCNavigate ------------------------------
(***************************************************************************)
(* A small file system, written with plain and with hashed directory keys, *)
(* in one leaf or in three under an index node, the root directory's       *)
(* records in two of them; two snapshots and an object map beside it.      *)
(* Variants: any one node damaged; any one cell of any table of contents   *)
(* wrong; inodes with every order of extended fields, some of them absurd. *)
(***************************************************************************)
EXTENDS Navigate, TLC

\* Writing nodes

Sum(s) == FoldLeft(+, 0, s)

\* Keys forward behind the table of contents, values backward from the end.
NodeOf(es, root, leaf, fixed) ==
    LET koff(k) == Sum([j \in 1 .. k - 1 |-> Len(es[j].key)])
        voff(k) == Sum([j \in 1 .. k |-> Len(es[j].value)])
        toc == FlattenSeq([k \in DOMAIN es |->
                  IF fixed THEN <<koff(k), voff(k)>>
                  ELSE <<koff(k), Len(es[k].key), voff(k), Len(es[k].value)>>])
        keys == FlattenSeq([k \in DOMAIN es |-> es[k].key])
        vals == FlattenSeq([k \in DOMAIN es |-> es[Len(es) + 1 - k].value])
    IN  <<(IF root THEN 1 ELSE 0) + (IF leaf THEN 2 ELSE 0) + (IF fixed THEN 4 ELSE 0),
          IF leaf THEN 0 ELSE 1, Len(es), IF root THEN 1 ELSE 0, Len(toc)>>
        \o (IF root THEN <<0>> ELSE <<>>) \o toc \o keys \o <<0>> \o vals
        \o (IF root THEN [k \in 1 .. BTREE_INFO_LEN |-> 0] ELSE <<>>)

JKey(type, oid) == type * 2 ^ ObjIdBits + oid
Str(n) == Append(n, 0)

\* Writing records: what was encoded, and its key and value.
Rec(type, oid, entry, key, value) ==
    [type |-> type, oid |-> oid, entry |-> entry, harmed |-> FALSE,
     key |-> <<JKey(type, oid)>> \o key, value |-> value]

Drec(oid, name, child, flags, hashed) ==
    Rec(DirRec, oid,
        [name |-> name, file_id |-> child, date_added |-> 20 + child, flags |-> flags],
        (IF hashed THEN <<Len(name) + 1 + NameLenSpan * child, 3>>
         ELSE <<Len(name) + 1>>) \o Str(name),
        <<child, 20 + child, flags>>)

\* fields: the descriptors and values as stored; name and size: what they say.
InodeRec(oid, mode, nlink, fields, name, size) ==
    Rec(InodeType, oid,
        [oid |-> oid, parent_id |-> 2, private_id |-> oid + 20,
         times |-> <<31, 32, 33, 34>>, internal_flags |-> 6, nlink |-> nlink,
         bsd_flags |-> 8, uid |-> 501, gid |-> 20, mode |-> mode,
         name |-> name, size |-> size],
        <<>>,
        <<2, oid + 20, 31, 32, 33, 34, 6, nlink, 8, 501, 20, mode>> \o fields)

Xattr(oid, name, flags, stored, data) ==
    Rec(XattrType, oid,
        [name |-> name, flags |-> flags, stream |-> flags % 2 = 1, data |-> data],
        <<Len(name) + 1>> \o Str(name), <<flags, Len(stored)>> \o stored)

SnapMeta(xid, name) ==
    Rec(SnapMetadata, xid,
        [xid |-> xid, extentref_tree_oid |-> 1, sblock_oid |-> xid + 30,
         create_time |-> 3, change_time |-> 4, inum |-> 5, flags |-> 7, name |-> name],
        <<>>, <<1, xid + 30, 3, 4, 5, 6, 7, Len(name) + 1>> \o Str(name))

SnapNamed(xid, name) ==
    Rec(SnapName, 2 ^ ObjIdBits - 1, [name |-> name, xid |-> xid],
        <<Len(name) + 1>> \o Str(name), <<xid>>)

Mapped(oid, xid, paddr) ==
    [type |-> NoType, oid |-> oid, harmed |-> FALSE,
     entry |-> [key |-> <<oid, xid>>, value |-> <<0, 1, paddr>>],
     key |-> <<oid, xid>>, value |-> <<0, 1, paddr>>]

DIR == 4 * 4096 + 493
REG == 8 * 4096 + 420
LNK == 10 * 4096 + 511

\* (count, used), (type, size) ..., values padded to an even length.
NameThenSize(n, s) ==
    <<2, 0, 4, Len(n) + 1, 8, 1>> \o Str(n) \o (IF Len(n) % 2 = 0 THEN <<0>> ELSE <<>>)
       \o <<s, 0>>

-----------------------------------------------------------------------------
\* The file system

A == <<1>>
AB == <<1, 2>>
C == <<3>>

\* The longest name a hashed key can say the length of, and a plain key whose
\* length is one beyond that: read as a hashed one, it has length zero.
Longest(h) == [k \in 1 .. NameLenSpan - (IF h THEN 2 ELSE 1) |-> 4]

FsRecs(h) ==
    <<InodeRec(2, DIR, 4, <<1, 0, 4, 2>> \o Str(A), {A}, {}),
      Drec(2, A, 3, 4, h), Drec(2, AB, 4, 16 + 8, h),
      Drec(2, C, 5, 10, h), Drec(2, Longest(h), 9, 1, h),
      InodeRec(3, DIR, 1, <<>>, {}, {}),
      Drec(3, A, 6, 8, h), Drec(3, C, 7, 8, h),
      InodeRec(4, REG, 1, NameThenSize(AB, 77), {AB}, {77}),
      InodeRec(5, LNK, 1, NameThenSize(C, 0), {C}, {0}),
      Xattr(5, SYMLINK, 2, Str(AB), Str(AB)),
      Xattr(5, <<8>>, 1, <<25, 3>>, <<25, 3>>),
      InodeRec(6, REG, 15, NameThenSize(A, 5), {A}, {5}),
      Xattr(6, SYMLINK, 1, <<26, 2>>, <<26, 2>>),
      Xattr(6, DECMPFS, 2, <<99, 3, 44>>, <<99, 3, 44>>),
      InodeRec(7, REG, 1, <<>>, {}, {}),
      Xattr(7, DECMPFS, 1, <<27, 4>>, <<27, 4>>)>>

\* The content of each: of 6 and 7 it is compressed, the header of 7 a stream.
Sizes == 2 :> 0 @@ 3 :> 0 @@ 4 :> 77 @@ 5 :> 0 @@ 6 :> 44 @@ 7 :> 55

Streams == 27 :> <<99, 8, 55, 0>> @@ 28 :> <<98, 8, 55>>

SnapRecs == <<SnapMeta(3, AB), SnapMeta(5, A), SnapNamed(5, A), SnapNamed(3, AB)>>

OmapRecs == <<Mapped(2, 1, 50), Mapped(2, 4, 51), Mapped(3, 1, 52)>>

\* Leaves at 10 * root + 1, ... under an index node, or the root alone.
Tree(root, recs, cuts, fixed) ==
    LET ends == Append(cuts, Len(recs))
        From(k) == IF k = 1 THEN 1 ELSE ends[k - 1] + 1
        seps == [k \in DOMAIN ends |->
                   [key |-> recs[From(k)].key, value |-> <<10 * root + k>>]]
    IN  IF cuts = <<>> THEN root :> NodeOf(recs, TRUE, TRUE, fixed)
        ELSE (root :> NodeOf(seps, TRUE, FALSE, fixed)) @@
             [a \in {10 * root + k : k \in DOMAIN ends} |->
                NodeOf(SubSeq(recs, From(a - 10 * root), ends[a - 10 * root]),
                       FALSE, TRUE, fixed)]

\* Records without their encoding.
Said(recs) ==
    [k \in DOMAIN recs |-> [type |-> recs[k].type, oid |-> recs[k].oid,
                            entry |-> recs[k].entry, harmed |-> recs[k].harmed]]

Ask(op, oid, path) == [op |-> op, oid |-> oid, path |-> path]

Paths ==
    {<<>>, <<<<>>, A>>, <<A, <<>>, A, <<>>>>, <<AB>>, <<C>>, <<Longest(TRUE)>>, <<Longest(FALSE)>>, <<C, A>>,
     <<A, AB>>, <<A, A, A>>, <<A, C>>}

AllCalls ==
    {Ask(op, oid, <<>>) : op \in {"list_dir", "read_dir", "load_inode", "meta",
                                  "list_xattrs", "symlink_target"}, oid \in {2, 3, 4, 5, 6, 7, 9}}
      \cup {Ask("lookup_child", oid, <<n>>) : oid \in {2, 3, 4}, n \in {A, AB, Longest(TRUE), Longest(FALSE), <<2>>}}
      \cup {Ask("open_path", 0, p) : p \in Paths}
      \cup {Ask("list_snapshots", 0, <<>>), Ask("for_each_leaf_entry", 0, <<>>)}
      \cup {Ask("resolve_snapshot_xid", 0, <<n>>) : n \in {A, AB, C}}

Vol(nodes, bad, recs, calls) ==
    [nodes |-> nodes, bad |-> bad, root |-> 1, snap |-> 2, omap |-> 3,
     streams |-> Streams, written |-> Said(recs), sizes |-> Sizes,
     calls |-> calls]

Nodes(h, cuts, snapCuts, omapCuts) ==
    Tree(1, FsRecs(h), cuts, FALSE) @@ Tree(2, SnapRecs, snapCuts, FALSE)
       @@ Tree(3, OmapRecs, omapCuts, TRUE)

AllRecs(h) == FsRecs(h) \o SnapRecs \o OmapRecs

Flat(h) == Nodes(h, <<>>, <<>>, <<>>)
Deep(h) == Nodes(h, <<3, 9>>, <<2>>, <<2>>)

\* More keys are claimed than the table of contents holds.
Overstated(nodes) == [a \in DOMAIN nodes |-> [nodes[a] EXCEPT ![OFF_BTN_NKEYS + 1] = 99]]

Whole ==
    {Vol(n, {}, AllRecs(FALSE), AllCalls) :
        n \in {Flat(FALSE), Deep(FALSE), Overstated(Deep(FALSE))}}
      \cup {Vol(n, {}, AllRecs(TRUE), AllCalls) : n \in {Flat(TRUE), Deep(TRUE)}}
      \cup {Vol(Deep(TRUE), {b}, AllRecs(TRUE), AllCalls) : b \in DOMAIN Deep(TRUE)}

-----------------------------------------------------------------------------
\* One wrong cell in a table of contents

\* The records under leaf k of three.
Under(k) == CASE k = 1 -> 1 .. 3 [] k = 2 -> 4 .. 9 [] k = 3 -> 10 .. 17

\* The records a wrong cell in node a may cost.
Cost(a) == IF a = 1 THEN 1 .. 17 ELSE Under(a - 10)

Wrong(a, p, v) ==
    [Vol([Deep(FALSE) EXCEPT ![a] = [@ EXCEPT ![p] = v]], {}, AllRecs(FALSE),
         {Ask("list_dir", 2, <<>>), Ask("list_dir", 3, <<>>)})
        EXCEPT !.written = [k \in DOMAIN @ |->
                    [@[k] EXCEPT !.harmed = k \in Cost(a)]]]

WrongSlots ==
    UNION {LET b == Deep(FALSE)[a]
           IN  UNION {LET p == TocStart(b) + 1 + c
                      IN  {Wrong(a, p, v) :
                              v \in {0, 1, 2, b[p] + 1, b[p] + 4, 99} \ {b[p]}} :
                      c \in 0 .. 4 * b[OFF_BTN_NKEYS + 1] - 1} :
           a \in {1, 11, 12, 13}}

-----------------------------------------------------------------------------
\* Extended fields in every order and state; unusable decmpfs headers: with
\* another magic, longer than the cap, cut short

OddInodes ==
    LET Odd(oid, fields, name, size) == InodeRec(oid, REG, 1, fields, name, size)
    IN  <<InodeRec(2, DIR, 1, NameThenSize(AB, 9), {AB}, {9}),
          Odd(3, <<3, 0, 8, 1, 14, 3, 4, 2, 9, 0, 1, 1, 1, 0, 1, 0>>, {A}, {9}),
          Xattr(3, DECMPFS, 1, <<28, 3>>, <<28, 3>>),
          Odd(4, <<2, 0, 4, 2, 4, 3, 1, 0, 1, 2, 0, 0>>, {AB}, {}),
          Xattr(4, DECMPFS, 1, <<27, 5>>, <<27, 5>>),
          Odd(5, <<3, 0, 4, 2, 14, 50, 8, 1, 1, 0, 9, 0>>, {A}, {}),
          Xattr(5, DECMPFS, 0, <<99, 3>>, <<99, 3>>),
          Odd(6, <<99, 0, 4, 2, 1, 0>>, {}, {}),
          Odd(7, <<1>>, {}, {}),
          Odd(8, <<2, 0, 14, 0, 8, 0>>, {}, {0})>>

OddVol == Vol((1 :> NodeOf(OddInodes, TRUE, TRUE, FALSE)) @@ Tree(2, SnapRecs, <<>>, FALSE),
              {}, OddInodes, {Ask("load_inode", o, <<>>) : o \in 2 .. 9}
                                \cup {Ask("meta", o, <<>>) : o \in 3 .. 5}
                                \cup {Ask("for_each_leaf_entry", 0, <<>>)})

MCVolumes == Whole \cup WrongSlots \cup {OddVol}
=============================================================================
