------------------------------- MODULE FsRecord -------------------------------
(***************************************************************************)
(* What the records of a volume decode to: keys and extended fields        *)
(* (fsrecord.rs), inodes (inode.rs), directory entries (dir.rs), extended  *)
(* attributes (xattr.rs) and snapshots (snapshot.rs).  Keys and values are *)
(* cells (BTreeNode); a name is a sequence of cells, stored with a         *)
(* terminating zero.  Sizes are those of the format, in cells.             *)
(***************************************************************************)
EXTENDS BTreeNode, FiniteSets, SequencesExt

CONSTANTS
    ObjIdBits,           \* fsrecord.rs: OBJ_TYPE_SHIFT, 60
    NameLenSpan,         \* dir.rs: J_DREC_LEN_MASK + 1, 2^10
    XfAlign,             \* fsrecord.rs: values are aligned to 8 bytes
    MAX_XF_NUM_EXTS,     \* fsrecord.rs: 4096
    MAX_SNAP_NAME_LEN,   \* snapshot.rs: 4096
    IntBits              \* width of the link count, 32

ASSUME RecordAssumption ==
    /\ {ObjIdBits, NameLenSpan, XfAlign, IntBits} \subseteq Nat \ {0}
    /\ {MAX_XF_NUM_EXTS, MAX_SNAP_NAME_LEN} \subseteq Nat

\* Record types, as on disk; undefined codes decode to NoType.
NoType == 0
SnapMetadata == 1
InodeType == 3
XattrType == 4
DirRec == 9
SnapName == 11

from_u4(v) == IF v \in 1 .. 13 THEN v ELSE NoType

decode_jkey(x) ==
    [oid |-> x % 2 ^ ObjIdBits, type |-> from_u4((x \div 2 ^ ObjIdBits) % 16)]

KeyOf(key) == decode_jkey(Cell(key, 0))

\* Up to the first zero.
decode_cstr(s) ==
    LET end == SelectInSeq(s, LAMBDA c : c = 0)
    IN  IF end = 0 THEN s ELSE SubSeq(s, 1, end - 1)

\* The string of n cells at `from`, if it fits.
StringAt(b, from, n) == {decode_cstr(s) : s \in Slice(b, from, n)}

-----------------------------------------------------------------------------
\* Extended fields: (count, used), descriptors (type, size), aligned values.

XF_DESC_OFF == 2
XF_DESC_LEN == 2

\* Fault: values are taken to follow one another without padding.
AlignedNot(n) == n

Aligned(n) == XfAlign * ((n + XfAlign - 1) \div XfAlign)

\* The first value that leaves the blob ends the walk.
parse_xfields(b) ==
    LET num == Least(Cell(b, 0), MAX_XF_NUM_EXTS)
        desc_end == XF_DESC_OFF + num * XF_DESC_LEN
        Size(k) == Cell(b, XF_DESC_OFF + (k - 1) * XF_DESC_LEN + 1)
        off[k \in 1 .. num] == IF k = 1 THEN desc_end
                               ELSE off[k - 1] + Aligned(Size(k - 1))
        fit == {k \in 1 .. num : \A j \in 1 .. k : off[j] + Size(j) <= Len(b)}
    IN  IF Len(b) < XF_DESC_OFF \/ desc_end > Len(b) THEN <<>>
        ELSE [k \in 1 .. Cardinality(fit) |->
                [type |-> Cell(b, XF_DESC_OFF + (k - 1) * XF_DESC_LEN),
                 value |-> SubSeq(b, off[k] + 1, off[k] + Size(k))]]

-----------------------------------------------------------------------------
\* Inodes

INO_EXT_TYPE_NAME == 4
INO_EXT_TYPE_DSTREAM == 8
OFF_XFIELDS == 12

\* The values of the fields of one type; the last one counts.
FieldsOf(b, type) == SelectSeq(parse_xfields(b), LAMBDA f : f.type = type)

LastOf(s) == IF s = <<>> THEN {} ELSE {s[Len(s)].value}

InodeParse(oid, v) ==
    LET xf == SubSeq(v, OFF_XFIELDS + 1, Len(v))
    IN  [oid |-> oid, parent_id |-> Cell(v, 0), private_id |-> Cell(v, 1),
         times |-> [k \in 1 .. 4 |-> Cell(v, 1 + k)],
         internal_flags |-> Cell(v, 6), nlink |-> Cell(v, 7),
         bsd_flags |-> Cell(v, 8), uid |-> Cell(v, 9), gid |-> Cell(v, 10),
         mode |-> Cell(v, 11),
         name |-> {decode_cstr(x) : x \in LastOf(FieldsOf(xf, INO_EXT_TYPE_NAME))},
         size |-> {Cell(x, 0) : x \in LastOf(FieldsOf(xf, INO_EXT_TYPE_DSTREAM))}]

-----------------------------------------------------------------------------
\* Directory entries.  After the key's header: name_len and the name, or a
\* word of name_len and hash (two cells) and the name.

\* Fault: the length of a hashed key is not masked.
HashedLenUnmasked(key) == IF Len(key) < 3 THEN 0 ELSE Cell(key, 1)

HashedLen(key) == IF Len(key) < 3 THEN 0 ELSE Cell(key, 1) % NameLenSpan

\* The hashed form is tried first.
decode_drec_name(key) ==
    LET hashed == IF HashedLen(key) = 0 THEN {}
                  ELSE StringAt(key, 3, HashedLen(key))
        plain == IF Cell(key, 1) = 0 THEN {} ELSE StringAt(key, 2, Cell(key, 1))
    IN  IF hashed # {} THEN hashed ELSE plain

parse_dir_entry(key, v) ==
    {[name |-> n, file_id |-> Cell(v, 0), date_added |-> Cell(v, 1),
      flags |-> Cell(v, 2)] : n \in decode_drec_name(key)}

\* Directory entry types and file types share their codes.
NodeKind(code) ==
    CASE code = 4 -> "Dir" [] code = 8 -> "File" [] code = 10 -> "Symlink"
      [] OTHER -> "Other"

dt_to_kind(flags) == NodeKind(flags % 16)

mode_to_kind(mode) == NodeKind(mode \div 4096)

\* nlink_or_nchildren is an i32, never shown below zero.
ShownLinks(n) == IF n >= 2 ^ (IntBits - 1) THEN 0 ELSE n

build_meta(ino, size) ==
    [ino |-> ino.oid, kind |-> mode_to_kind(ino.mode), size |-> size,
     nlink |-> ShownLinks(ino.nlink), uid |-> ino.uid, gid |-> ino.gid,
     mode |-> ino.mode, times |-> ino.times]

-----------------------------------------------------------------------------
\* Extended attributes

XATTR_DATA_STREAM == 1

parse_xattr(key, v) ==
    LET len == Cell(key, 1)
        flags == Cell(v, 0)
        data == Slice(v, 2, Cell(v, 1))
        xdata == IF data = {} THEN <<>> ELSE CHOOSE d \in data : TRUE
        stream == flags % 2 = XATTR_DATA_STREAM
    IN  {[name |-> n, flags |-> flags, stream |-> stream,
          data |-> IF stream THEN <<Cell(xdata, 0), Cell(xdata, 1)>> ELSE xdata] :
            n \in IF len = 0 THEN {} ELSE StringAt(key, 2, len)}

\* uncompressed_size of a decmpfs header: (magic, type, size), or an error.
DECMPFS_MAGIC == 99
DECMPFS_HEADER_LEN == 3

uncompressed_size(h) ==
    IF Len(h) < DECMPFS_HEADER_LEN \/ Cell(h, 0) # DECMPFS_MAGIC THEN {}
    ELSE {Cell(h, 2)}

-----------------------------------------------------------------------------
\* Snapshots

parse_snap_metadata(xid, v) ==
    LET len == Least(Cell(v, 7), MAX_SNAP_NAME_LEN)
        name == StringAt(v, 8, len)
    IN  [xid |-> xid, extentref_tree_oid |-> Cell(v, 0), sblock_oid |-> Cell(v, 1),
         create_time |-> Cell(v, 2), change_time |-> Cell(v, 3),
         inum |-> Cell(v, 4), flags |-> Cell(v, 6),
         name |-> IF name = {} THEN <<>> ELSE CHOOSE n \in name : TRUE]

decode_snap_name_key(key) ==
    LET len == Least(Cell(key, 1), MAX_SNAP_NAME_LEN)
    IN  IF len = 0 THEN {} ELSE StringAt(key, 2, len)
=============================================================================
