------------------------------- MODULE Navigate -------------------------------
(***************************************************************************)
(* One navigation call on a mounted volume: list_dir, lookup_child,        *)
(* load_inode and open_path (dir.rs), list_xattrs and symlink_target       *)
(* (xattr.rs), list_snapshots and resolve_snapshot_xid (snapshot.rs),      *)
(* for_each_leaf_entry over a physical object map (btree.rs), and read_dir *)
(* and meta of the adapter (vfs.rs).  Each is one or more tree walks, one  *)
(* node per step, over nodes at cell level; open_path starts a new walk    *)
(* for every component, and meta one for the inode and one for the         *)
(* attributes data_size (extent.rs) looks the size of the content up in.   *)
(*                                                                         *)
(* TreeWalk has the addressing and the depth cap of the walks; here a      *)
(* reference is the number of a node.  Stream has the reading of a data    *)
(* stream; here streams maps its oid to its bytes.  The field written of a *)
(* volume holds what a writer encoded in its nodes, in key order, as       *)
(* [type, oid, entry, harmed], and sizes the length of what it stored;     *)
(* only the properties look at these two.                                  *)
(***************************************************************************)
EXTENDS FsRecord

CONSTANTS
    MAX_DECMPFS_XATTR_BYTES,   \* xattr.rs: 1 MiB
    Volumes                    \* volumes that may be mounted, with their calls

\* oid the object asked about, path the names asked for.
Call == [op : {"list_dir", "read_dir", "lookup_child", "load_inode", "meta",
               "open_path", "list_xattrs", "symlink_target", "list_snapshots",
               "resolve_snapshot_xid", "for_each_leaf_entry"},
         oid : Nat, path : Seq(Seq(Nat))]

IsVolume(v) ==
    /\ DOMAIN v.nodes \subseteq Nat
    /\ \A a \in DOMAIN v.nodes : v.nodes[a] \in Seq(Nat)
    /\ v.bad \subseteq DOMAIN v.nodes
    /\ {v.root, v.snap, v.omap} \subseteq Nat
    /\ \A o \in DOMAIN v.streams : v.streams[o] \in Seq(Nat)
    /\ v.calls \subseteq Call

ASSUME VolumesAssumption ==
    MAX_DECMPFS_XATTR_BYTES \in Nat /\ \A v \in Volumes : IsVolume(v)

VARIABLES
    vol,      \* the volume mounted
    call,     \* the call under way
    stage,    \* "start", "walk" or "done"
    cur,      \* the object whose records are walked for
    rest,     \* names still to be found
    todo,     \* nodes still to be read by this walk, next first
    seen,     \* nodes this walk has read
    acc,      \* what the visit callback has kept, in order
    inode,    \* the inode meta has loaded: none or one
    answer    \* [status, value] returned

vars == <<vol, call, stage, cur, rest, todo, seen, acc, inode, answer>>

ROOT_DIR_INO_NUM == 2

Init ==
    /\ vol \in Volumes
    /\ call \in vol.calls
    /\ stage = "start"
    /\ cur = 0 /\ rest = <<>>
    /\ todo = <<>> /\ seen = {} /\ acc = <<>> /\ inode = <<>>
    /\ answer = [status |-> "none", value |-> <<>>]

-----------------------------------------------------------------------------
\* Walks

InSnapTree == call.op \in {"list_snapshots", "resolve_snapshot_xid"}
InOmap == call.op = "for_each_leaf_entry"
Keyed == ~InSnapTree /\ ~InOmap

TreeRoot == IF InSnapTree THEN vol.snap ELSE IF InOmap THEN vol.omap ELSE vol.root

Subtype == IF InOmap THEN "Omap" ELSE "FsTree"

StartWalk(oid, names, found) ==
    /\ stage' = "walk"
    /\ cur' = oid /\ rest' = names
    /\ todo' = <<TreeRoot>> /\ seen' = {} /\ acc' = <<>>
    /\ inode' = found
    /\ UNCHANGED <<vol, call, answer>>

Answered(status, value) ==
    /\ stage' = "done"
    /\ answer' = [status |-> status, value |-> value]
    /\ UNCHANGED <<vol, call, cur, rest, todo, seen, acc, inode>>

\* path.split('/'), without the empty components.
Components(path) == SelectSeq(path, LAMBDA c : c # <<>>)

Begin ==
    /\ stage = "start"
    /\ IF call.op = "open_path"
       THEN StartWalk(ROOT_DIR_INO_NUM, Components(call.path), <<>>)
       ELSE StartWalk(call.oid, call.path, <<>>)

\* What this walk is after.
WantsInode ==
    \/ call.op \in {"load_inode", "meta"} /\ inode = <<>>
    \/ call.op = "open_path" /\ rest = <<>>
WantsEntries ==
    \/ call.op \in {"list_dir", "read_dir", "lookup_child"}
    \/ call.op = "open_path" /\ rest # <<>>
WantsXattrs ==
    call.op \in {"list_xattrs", "symlink_target"} \/ inode # <<>>

\* The callbacks: what is kept of one leaf entry.
Visit(e) ==
    LET k == KeyOf(e.key) IN
    CASE InOmap -> {e}
      [] WantsInode /\ k.type = InodeType /\ k.oid = cur -> {InodeParse(cur, e.value)}
      [] WantsEntries /\ k.type = DirRec /\ k.oid = cur ->
            parse_dir_entry(e.key, e.value)
      [] WantsXattrs /\ k.type = XattrType /\ k.oid = cur -> parse_xattr(e.key, e.value)
      [] call.op = "list_snapshots" /\ k.type = SnapMetadata ->
            {parse_snap_metadata(k.oid, e.value)}
      [] call.op = "resolve_snapshot_xid" /\ k.type = SnapName ->
            {[name |-> n, xid |-> Cell(e.value, 0)] : n \in decode_snap_name_key(e.key)}
      [] OTHER -> {}

Visited(es) ==
    LET kept[k \in 0 .. Len(es)] ==
          IF k = 0 THEN <<>> ELSE kept[k - 1] \o SetToSeq(Visit(es[k]))
    IN  kept[Len(es)]

\* child_may_contain_oid, on the keys of an index node.
Covers(es, k) ==
    /\ KeyOf(es[k].key).oid <= cur
    /\ k < Len(es) => KeyOf(es[k + 1].key).oid >= cur

Children(es) ==
    LET kept == SelectSeq([k \in DOMAIN es |-> k], LAMBDA k : Keyed => Covers(es, k))
    IN  [j \in DOMAIN kept |-> Cell(es[kept[j]].value, 0)]

AtNode == stage = "walk" /\ todo # <<>>

Looped ==
    /\ AtNode
    /\ Head(todo) \in seen
    /\ Answered("CycleGuard", <<>>)

\* Fault: a child that does not resolve is passed over.
MissingSkipped ==
    /\ AtNode
    /\ Head(todo) \notin seen
    /\ Head(todo) \notin DOMAIN vol.nodes
    /\ seen' = seen \cup {Head(todo)}
    /\ todo' = Tail(todo)
    /\ UNCHANGED <<vol, call, stage, cur, rest, acc, inode, answer>>

\* A virtual reference has no mapping, a block address lies past the image.
Missing ==
    /\ AtNode
    /\ Head(todo) \notin seen
    /\ Head(todo) \notin DOMAIN vol.nodes
    /\ Answered(IF InOmap THEN "Io" ELSE "OmapUnresolved", <<>>)

Readable == AtNode /\ Head(todo) \notin seen /\ Head(todo) \in DOMAIN vol.nodes

\* Fault: a damaged node is passed over.
DamagedSkipped ==
    /\ Readable
    /\ Head(todo) \in vol.bad
    /\ todo' = Tail(todo)
    /\ seen' = seen \cup {Head(todo)}
    /\ UNCHANGED <<vol, call, stage, cur, rest, acc, inode, answer>>

\* Fault: a damaged node is read again.
DamagedRetried ==
    /\ Readable
    /\ Head(todo) \in vol.bad
    /\ UNCHANGED vars

Damaged ==
    /\ Readable
    /\ Head(todo) \in vol.bad
    /\ Answered("ChecksumMismatch", <<>>)

ReadFails ==
    /\ Readable
    /\ Answered("Io", <<>>)

\* Fault: a leaf with fewer entries than it claims ends the walk.
ReadLeafEnding ==
    LET b == vol.nodes[Head(todo)] IN
    /\ Readable
    /\ Head(todo) \notin vol.bad
    /\ IsLeaf(b)
    /\ \E es \in {NodeEntries(b, Subtype)} :
         /\ acc' = acc \o Visited(es)
         /\ todo' = IF Len(es) < KeyCount(b) THEN <<>> ELSE Tail(todo)
    /\ seen' = seen \cup {Head(todo)}
    /\ UNCHANGED <<vol, call, stage, cur, rest, inode, answer>>

ReadLeaf ==
    LET b == vol.nodes[Head(todo)] IN
    /\ Readable
    /\ Head(todo) \notin vol.bad
    /\ IsLeaf(b)
    /\ \E es \in {NodeEntries(b, Subtype)} : acc' = acc \o Visited(es)
    /\ todo' = Tail(todo)
    /\ seen' = seen \cup {Head(todo)}
    /\ UNCHANGED <<vol, call, stage, cur, rest, inode, answer>>

ReadIndex ==
    LET b == vol.nodes[Head(todo)] IN
    /\ Readable
    /\ Head(todo) \notin vol.bad
    /\ ~IsLeaf(b)
    /\ \E es \in {NodeEntries(b, Subtype)} : todo' = Children(es) \o Tail(todo)
    /\ seen' = seen \cup {Head(todo)}
    /\ UNCHANGED <<vol, call, stage, cur, rest, acc, inode, answer>>

-----------------------------------------------------------------------------
\* What the calls do once a walk is over

WalkOver == stage = "walk" /\ todo = <<>>

\* The first entry called n.
Named(n) ==
    LET k == SelectInSeq(acc, LAMBDA e : e.name = n)
    IN  IF k = 0 THEN {} ELSE {acc[k]}

ByXid(a, b) == a.xid < b.xid

SYMLINK == <<7, 7>>    \* com.apple.fs.symlink
DECMPFS == <<9, 9>>    \* com.apple.decmpfs

Listing ==
    CASE call.op = "read_dir" ->
            [k \in DOMAIN acc |-> [name |-> acc[k].name, id |-> acc[k].file_id,
                                   kind |-> dt_to_kind(acc[k].flags)]]
      [] call.op = "list_snapshots" -> SortSeq(acc, ByXid)
      [] OTHER -> acc

Listed ==
    /\ WalkOver
    /\ call.op \in {"list_dir", "read_dir", "list_xattrs", "list_snapshots",
                    "for_each_leaf_entry"}
    /\ Answered("Ok", Listing)

\* Ok(None) is the empty sequence.
LookedUp ==
    /\ WalkOver
    /\ \/ /\ call.op = "lookup_child"
          /\ Answered("Ok", SetToSeq({e.file_id : e \in Named(rest[1])}))
       \/ /\ call.op = "resolve_snapshot_xid"
          /\ Answered("Ok", SetToSeq({e.xid : e \in Named(rest[1])}))
       \/ /\ call.op = "symlink_target"
          /\ Answered("Ok", SetToSeq({decode_cstr(x.data) :
                                x \in {y \in Named(SYMLINK) : ~y.stream}}))

ComponentMissing ==
    /\ WalkOver
    /\ call.op = "open_path" /\ rest # <<>>
    /\ Named(rest[1]) = {}
    /\ Answered("OmapUnresolved", <<>>)

ComponentFound ==
    /\ WalkOver
    /\ call.op = "open_path" /\ rest # <<>>
    /\ \E e \in Named(rest[1]) : StartWalk(e.file_id, Tail(rest), <<>>)

InodeMissing ==
    /\ WalkOver
    /\ WantsInode
    /\ acc = <<>>
    /\ Answered("OmapUnresolved", <<>>)

InodeLoaded ==
    /\ WalkOver
    /\ WantsInode
    /\ acc # <<>>
    /\ IF call.op = "meta" THEN StartWalk(cur, rest, <<acc[1]>>)
       ELSE Answered("Ok", <<acc[1]>>)

\* data_size, and with it meta: the inode's size, or that in the header of a
\* compressed file, embedded or in a stream of its own.
AtSize == WalkOver /\ inode # <<>>

SizeOf(ino) == IF ino.size = {} THEN 0 ELSE CHOOSE n \in ino.size : TRUE

PlainSize ==
    /\ AtSize
    /\ Named(DECMPFS) = {}
    /\ Answered("Ok", <<build_meta(inode[1], SizeOf(inode[1]))>>)

HeaderTooLong ==
    /\ AtSize
    /\ \E x \in Named(DECMPFS) : x.stream /\ x.data[2] > MAX_DECMPFS_XATTR_BYTES
    /\ Answered("FieldOutOfRange", <<>>)

\* The header's bytes; a stream read is as long as the attribute says.
HeaderBytes(x) ==
    IF ~x.stream THEN x.data
    ELSE [k \in 1 .. x.data[2] |->
            IF x.data[1] \in DOMAIN vol.streams
            THEN Cell(vol.streams[x.data[1]], k - 1) ELSE 0]

CompressedSize ==
    /\ AtSize
    /\ \E x \in Named(DECMPFS) :
         /\ x.stream => x.data[2] <= MAX_DECMPFS_XATTR_BYTES
         /\ LET size == uncompressed_size(HeaderBytes(x))
            IN  \/ /\ size = {}
                   /\ Answered("Decmpfs", <<>>)
                \/ \E n \in size : Answered("Ok", <<build_meta(inode[1], n)>>)

\* Reading the stream of a header may fail as well.
HeaderReadFails ==
    /\ AtSize
    /\ \E x \in Named(DECMPFS) :
         x.stream /\ x.data[2] <= MAX_DECMPFS_XATTR_BYTES
    /\ Answered("Io", <<>>)

Advance ==
    \/ Begin \/ Looped \/ Missing \/ Damaged \/ ReadLeaf \/ ReadIndex
    \/ Listed \/ LookedUp \/ ComponentMissing \/ ComponentFound
    \/ InodeMissing \/ InodeLoaded
    \/ PlainSize \/ HeaderTooLong \/ CompressedSize

Returned == stage = "done" /\ UNCHANGED vars

Next == Advance \/ ReadFails \/ HeaderReadFails \/ Returned

\* A sequential call runs until it returns.
Spec == Init /\ [][Next]_vars /\ WF_vars(Advance)

-----------------------------------------------------------------------------
\* Properties

\* The records written for an object, and what they say.
WrittenFor(type, oid) ==
    SelectSeq(vol.written, LAMBDA r : r.type = type /\ r.oid = oid)
OfType(type) == SelectSeq(vol.written, LAMBDA r : r.type = type)
Entries(recs) == [k \in DOMAIN recs |-> recs[k].entry]

Intact == \A k \in DOMAIN vol.written : ~vol.written[k].harmed

Ok(op) == answer.status = "Ok" /\ call.op = op

InodesOf(oid) == ToSet(Entries(WrittenFor(InodeType, oid)))

\* Every variable keeps its type.
TypeOK ==
    /\ stage \in {"start", "walk", "done"}
    /\ cur \in Nat
    /\ rest \in Seq(Seq(Nat))
    /\ todo \in Seq(Nat)
    /\ seen \subseteq DOMAIN vol.nodes
    /\ Len(rest) <= Len(call.path)
    /\ Len(inode) <= 1
    /\ answer.status \in {"none", "Ok", "Io", "ChecksumMismatch", "CycleGuard",
                          "OmapUnresolved", "FieldOutOfRange", "Decmpfs"}

\* dir.rs, xattr.rs, snapshot.rs, btree.rs: a listing that returns Ok is the
\* whole listing, each record once and in key order, whichever leaves its
\* records lie in, however its names are stored and whatever the walk met.
\* vfs.rs: the kind read_dir gives an entry, from its directory record, is
\* the kind meta gives the file, from its inode.
ListingIsExact ==
    Intact =>
        /\ Ok("list_dir") => answer.value = Entries(WrittenFor(DirRec, call.oid))
        /\ Ok("list_xattrs") => answer.value = Entries(WrittenFor(XattrType, call.oid))
        /\ Ok("list_snapshots") => answer.value = Entries(OfType(SnapMetadata))
        /\ Ok("for_each_leaf_entry") => answer.value = Entries(OfType(NoType))
        /\ Ok("read_dir") =>
             LET dir == Entries(WrittenFor(DirRec, call.oid)) IN
             /\ Len(answer.value) = Len(dir)
             /\ \A k \in DOMAIN dir :
                  /\ answer.value[k].name = dir[k].name
                  /\ answer.value[k].id = dir[k].file_id
                  /\ \A i \in InodesOf(dir[k].file_id) :
                       answer.value[k].kind = mode_to_kind(i.mode)

\* The objects a path leads to, name by name.
LeadsTo(path) ==
    LET p == SelectSeq(path, LAMBDA c : c # <<>>)
        Step(oid, n) == {r.file_id : r \in
                {e \in ToSet(Entries(WrittenFor(DirRec, oid))) : e.name = n}}
        at[k \in 0 .. Len(p)] ==
            IF k = 0 THEN {ROOT_DIR_INO_NUM}
            ELSE UNION {Step(o, p[k]) : o \in at[k - 1]}
    IN  at[Len(p)]

\* dir.rs, open_path: what a path opens is the inode its names lead to, and
\* every field of it is the one written, behind extended fields of any length
\* and order.  vfs.rs, meta: the size it gives is the length of the content
\* stored, found in the inode or, for a compressed file, in an attribute that
\* a second walk looks for; a link count is never shown negative.
PathIsTrue ==
    (answer.status = "Ok" /\ Intact) =>
        /\ call.op = "open_path" =>
             answer.value[1] \in UNION {InodesOf(o) : o \in LeadsTo(call.path)}
        /\ call.op = "load_inode" => answer.value[1] \in InodesOf(call.oid)
        /\ call.op = "meta" =>
             LET m == answer.value[1] IN
             /\ m.ino = call.oid
             /\ m.size = vol.sizes[call.oid]
             /\ m.nlink < 2 ^ (IntBits - 1)
             /\ \E i \in InodesOf(call.oid) :
                  /\ m.mode = i.mode /\ m.uid = i.uid /\ m.gid = i.gid
                  /\ m.times = i.times
                  /\ m.nlink \in {0, i.nlink}

\* A file that exists is never reported as missing, not even by a walk that
\* failed half way: "not found" is an answer about the volume.  (A child that
\* does not resolve gives the same error; sound index nodes have none.)  What
\* a name finds, in a directory, among attributes or, from another kind of
\* record (snapshot.rs), among snapshots, is what is listed under that name.
MissIsTrue ==
    Intact =>
        /\ answer.status = "OmapUnresolved" =>
             CASE call.op = "open_path" ->
                    UNION {InodesOf(o) : o \in LeadsTo(call.path)} = {}
               [] call.op \in {"load_inode", "meta"} -> InodesOf(call.oid) = {}
               [] OTHER -> FALSE
        /\ Ok("lookup_child") =>
             ToSet(answer.value) = {e.file_id : e \in
                {d \in ToSet(Entries(WrittenFor(DirRec, call.oid))) :
                    d.name = call.path[1]}}
        /\ Ok("symlink_target") =>
             ToSet(answer.value) = {decode_cstr(x.data) : x \in
                {y \in ToSet(Entries(WrittenFor(XattrType, call.oid))) :
                    y.name = SYMLINK /\ ~y.stream}}
        /\ Ok("resolve_snapshot_xid") =>
             ToSet(answer.value) = {s.xid : s \in
                {t \in ToSet(Entries(OfType(SnapMetadata))) : t.name = call.path[1]}}

\* Some of s, in its order.  (s repeats nothing.)
IsPartOf(v, s) == SelectSeq(s, LAMBDA e : e \in ToSet(v)) = v

\* btree.rs, node_entries: a wrong cell in the table of contents of a leaf
\* stays in that leaf.  A directory listing that returns Ok has every record
\* of the other leaves and, but for at most one entry (the wrong slot's own),
\* nothing that was not written: all of it once and in order.  A wrong cell in
\* an index node may cost records, but puts none in.
WrongCellStaysLocal ==
    Ok("list_dir") =>
        LET all == WrittenFor(DirRec, call.oid)
            safe == ToSet(Entries(SelectSeq(all, LAMBDA r : ~r.harmed)))
            less == {RemoveAt(answer.value, k) : k \in DOMAIN answer.value}
        IN  \E v \in {answer.value} \cup less :
               IsPartOf(v, Entries(all)) /\ safe \subseteq ToSet(v)

\* Every call returns, the path with the most components included.
NavigateReturns == <>(stage = "done")
=============================================================================
