------------------------------- MODULE BTreeNode -------------------------------
(***************************************************************************)
(* One B-tree node at cell level (btree.rs): its header, its table of      *)
(* contents and the keys and values it points at.  A block is a sequence   *)
(* of cells; a cell is a field that is always read whole, so an integer of *)
(* any width is one cell, and offsets and lengths count cells from 0.      *)
(***************************************************************************)
EXTENDS Naturals, Sequences, SequencesExt

CONSTANTS
    MAX_BTN_NKEYS,     \* btree.rs: 2^20
    BTREE_INFO_LEN     \* length of the footer of a root node

ASSUME NodeAssumption == MAX_BTN_NKEYS \in Nat /\ BTREE_INFO_LEN \in Nat

\* le_u16, le_u32, le_u64: a field past the end reads as zero.
Cell(b, o) == IF o < Len(b) THEN b[o + 1] ELSE 0

\* data.get(from .. from + n): one slice, or none if it leaves the data.
Slice(b, from, n) ==
    IF from + n <= Len(b) THEN {SubSeq(b, from + 1, from + n)} ELSE {}

Least(m, n) == IF m < n THEN m ELSE n

OFF_BTN_FLAGS == 0
OFF_BTN_LEVEL == 1
OFF_BTN_NKEYS == 2
OFF_BTN_TABLE_SPACE == 3
BTN_DATA_OFF == 5

\* The flag bits: 1 root, 2 leaf, 4 fixed-size entries.
Flag(b, bit) == (Cell(b, OFF_BTN_FLAGS) \div bit) % 2 = 1

IsRoot(b) == Flag(b, 1)
IsLeaf(b) == Flag(b, 2) \/ Cell(b, OFF_BTN_LEVEL) = 0
IsFixedKv(b) == Flag(b, 4)

\* The sizes a subtype fixes: an object map's key is (oid, xid), its leaf
\* value (flags, size, paddr), its branch value a block number.
FixedKeyLen(subtype) == IF subtype = "Omap" THEN 2 ELSE 0
FixedValLen(subtype, leaf) ==
    IF ~leaf THEN 1 ELSE IF subtype = "Omap" THEN 3 ELSE 0

-----------------------------------------------------------------------------
\* The table of contents: (koff, voff), or (koff, klen, voff, vlen).

TocStart(b) == BTN_DATA_OFF + Cell(b, OFF_BTN_TABLE_SPACE)
KeyArea(b) == TocStart(b) + Cell(b, OFF_BTN_TABLE_SPACE + 1)
TocEntryLen(b) == IF IsFixedKv(b) THEN 2 ELSE 4

\* Value offsets count backward from here; a root ends in a footer.
ValBase(b) ==
    IF ~IsRoot(b) THEN Len(b)
    ELSE IF Len(b) < BTREE_INFO_LEN THEN 0 ELSE Len(b) - BTREE_INFO_LEN

TocEntry(b, i, subtype) ==
    LET e == TocStart(b) + i * TocEntryLen(b)
    IN  IF IsFixedKv(b)
        THEN [koff |-> Cell(b, e), klen |-> FixedKeyLen(subtype),
              voff |-> Cell(b, e + 1), vlen |-> FixedValLen(subtype, IsLeaf(b))]
        ELSE [koff |-> Cell(b, e), klen |-> Cell(b, e + 1),
              voff |-> Cell(b, e + 2), vlen |-> Cell(b, e + 3)]

\* The table ends at the first entry that leaves the table or the node.
InToc(b, i) ==
    LET end == TocStart(b) + (i + 1) * TocEntryLen(b)
    IN  end <= KeyArea(b) /\ end <= Len(b)

KeySlice(b, t) == Slice(b, KeyArea(b) + t.koff, t.klen)

ValueSlice(b, t) ==
    IF t.voff > ValBase(b) THEN {} ELSE Slice(b, ValBase(b) - t.voff, t.vlen)

\* Entry i of the node, if the table has it and its key and value lie within
\* the node.
EntryAt(b, i, subtype) ==
    IF ~InToc(b, i) THEN {}
    ELSE LET t == TocEntry(b, i, subtype)
         IN  {[key |-> k, value |-> v] : k \in KeySlice(b, t), v \in ValueSlice(b, t)}

KeyCount(b) == Least(Cell(b, OFF_BTN_NKEYS), MAX_BTN_NKEYS)

\* node_entries: an entry whose key or value leaves the node is passed over.
NodeEntries(b, subtype) ==
    LET out[n \in 0 .. KeyCount(b)] ==
          IF n = 0 THEN <<>>
          ELSE out[n - 1] \o SetToSeq(EntryAt(b, n - 1, subtype))
    IN  out[KeyCount(b)]
=============================================================================
