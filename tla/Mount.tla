-------------------------------- MODULE Mount --------------------------------
(***************************************************************************)
(* From an open container to a mounted volume, live or as it stood at a    *)
(* snapshot: ApfsContainer::volume_superblock_addrs (lib.rs),              *)
(* ApfsVolume::parse (volume.rs), ApfsFs::open and open_snapshot (vfs.rs), *)
(* list_snapshots and mount_snapshot (snapshot.rs), and then reads through *)
(* the volume's object map at its xid, as every walk of dir.rs makes them. *)
(*                                                                         *)
(* What the image holds comes from an external writer: a copy-on-write     *)
(* file system that commits transactions, takes and deletes snapshots, and *)
(* reuses every block that neither the live volume nor a snapshot needs.   *)
(* The writer then stops, at most one thing goes wrong, the reader runs.   *)
(* Lookups in an object map are those VersionedMap promises.               *)
(***************************************************************************)
EXTENDS Naturals, Sequences

CONSTANTS
    NX_MINIMUM_BLOCK_SIZE, NX_MAXIMUM_BLOCK_SIZE,
    NX_MAX_FILE_SYSTEMS,   \* container.rs: 100
    VolOid,                \* virtual oid of the volume superblock
    Oids,                  \* virtual oids of the volume's tree nodes
    SnapNodes,             \* those under the root of the snapshot-metadata
                           \* tree, in key order
    Home,                  \* oid -> the block a node is formatted in
    Super,                 \* the container superblock: [size, slots, maxFs]
    OddSupers,             \* others it may turn out to be
    MaxXid,                \* bound: last transaction of the writer
    MaxAddr                \* bound: blocks of the image, 0 .. MaxAddr

NxOmap == 1                \* nx_omap_oid, where the container's map is
VolOmap == 2               \* apfs_omap_oid of the live volume
Neighbour == VolOid + 1    \* a second volume, when a slot names it
NeighbourAddr == 3
FirstSnap == 5             \* first root of the snapshot-metadata tree

\* A block as the parsers see it; snap is apfs_snap_meta_tree_oid, a block
\* address; ver tells two states of a node apart.
Block == [type : {"nxsb", "omap", "fs", "node"}, magic : BOOLEAN,
          cksum : BOOLEAN, xid : Nat, omap : Nat, root : Nat, snap : Nat,
          ver : Nat]

\* NxSuperblock::parse keeps the non-zero slots below the capped count.
FsOids(slots, maxFs) ==
    LET cap == IF maxFs < NX_MAX_FILE_SYSTEMS THEN maxFs ELSE NX_MAX_FILE_SYSTEMS
    IN  SelectSeq([k \in 1 .. (IF cap < Len(slots) THEN cap ELSE Len(slots))
                     |-> slots[k]],
                  LAMBDA oid : oid # 0)

ASSUME MountAssumption ==
    /\ Oids \subseteq Nat \ {0} /\ Oids # {} /\ VolOid \in Nat \ {0}
    /\ MaxXid \in Nat \ {0} /\ MaxAddr \in Nat
    /\ \A s \in OddSupers \cup {Super} :
          s.slots \in Seq(Nat) /\ s.size \in Nat /\ s.maxFs \in Nat

\* The image has room for the freshly formatted container.
ASSUME RoomAssumption ==
    /\ Home \in [Oids -> FirstSnap + 1 .. MaxAddr]
    /\ \A o, p \in Oids : o # p => Home[o] # Home[p]

\* No node of the snapshot-metadata tree has two parents.
ASSUME SnapNodesAssumption ==
    /\ SnapNodes \in Seq(Oids)
    /\ \A j, k \in DOMAIN SnapNodes : j # k => SnapNodes[j] # SnapNodes[k]

\* The first volume, the one ApfsFs mounts, is the one the writer writes to
\* and not its neighbour.
ASSUME FirstVolumeAssumption ==
    \A s \in OddSupers \cup {Super} :
        LET oids == FsOids(s.slots, s.maxFs)
        IN  oids \in Seq(Nat) /\ (oids # <<>> => oids[1] # Neighbour)

VARIABLES
    nx,        \* the live container superblock: [size, slots, maxFs, xid]
    cmap,      \* entries of the container's object map
    vmap,      \* entries of the volume's object map
    disk,      \* block address -> Block
    snaps,     \* records of the snapshot-metadata tree: [xid, sblock]
    history,   \* xid -> the volume's root and node versions as of xid
    damaged,   \* the block that went bad: a set of at most one address
    phase,     \* "writing", then where the reader is
    request,   \* 0: ApfsFs::open; otherwise the xid given to open_snapshot
    addrs,     \* volume superblock addresses resolved so far
    live,      \* the live volume superblock, as parsed
    volume,    \* the volume superblock mounted
    rootXid,   \* ApfsFs.root_xid
    got,       \* what the last read of a node returned: [oid, status, ver]
    error      \* the error the open returned, "none" before that

image == <<nx, cmap, vmap, disk, snaps, history>>
reader == <<addrs, live, volume, rootXid, got>>
vars == <<image, damaged, phase, request, reader, error>>

VM == INSTANCE VersionedMap WITH
        map <- vmap, sound <- TRUE, query <- request, answer <- error

Entry(oid, xid, a) == [oid |-> oid, xid |-> xid, paddr |-> a]

Blk(type, xid, omap, root, snap, ver) ==
    [type |-> type, magic |-> TRUE, cksum |-> TRUE, xid |-> xid,
     omap |-> omap, root |-> root, snap |-> snap, ver |-> ver]

NoVolume == Blk("fs", 0, 0, 0, 0, 0)
Unread == [oid |-> 0, status |-> "unread", ver |-> 0]

-----------------------------------------------------------------------------
\* The writer (external)

LiveSb == CHOOSE e \in VM!Floor(cmap, VolOid, nx.xid) : TRUE

\* Blocks some superblock, snapshot or map entry still needs.
InUse ==
    {0, NxOmap, VolOmap, NeighbourAddr, LiveSb.paddr, disk[LiveSb.paddr].snap}
      \cup {e.paddr : e \in vmap} \cup {s.sblock : s \in snaps}

FreeBlocks == (0 .. MaxAddr) \ InUse

\* Two free blocks, whichever the allocator takes.
FreeA == CHOOSE a \in FreeBlocks : TRUE
FreeB == CHOOSE b \in FreeBlocks \ {FreeA} : TRUE

HasRoom == \E a, b \in FreeBlocks : a # b

FirstRoot == CHOOSE r \in Oids : TRUE

\* The superblock s as of transaction xid.
Found(s, xid) ==
    [size |-> s.size, slots |-> s.slots, maxFs |-> s.maxFs, xid |-> xid]

\* A freshly formatted container, its transaction 1 on disk.
Init ==
    /\ nx = Found(Super, 1)
    /\ cmap = {Entry(VolOid, 1, 4), Entry(Neighbour, 1, NeighbourAddr)}
    /\ vmap = {Entry(o, 1, Home[o]) : o \in Oids}
    /\ disk = [a \in 0 .. MaxAddr |->
                  CASE a \in {NxOmap, VolOmap} -> Blk("omap", 1, 0, 0, 0, 0)
                    [] a = 4 -> Blk("fs", 1, VolOmap, FirstRoot, FirstSnap, 0)
                    [] a = NeighbourAddr -> Blk("fs", 1, 0, 0, 0, 0)
                    [] a = 0 -> Blk("nxsb", 1, 0, 0, 0, 0)
                    [] OTHER -> Blk("node", 1, 0, 0, 0, 1)]
    /\ snaps = {}
    /\ history = [x \in {1} |-> [root |-> FirstRoot, ver |-> [o \in Oids |-> 1]]]
    /\ damaged = {}
    /\ phase = "writing" /\ request = 0
    /\ addrs = <<>> /\ live = NoVolume /\ volume = NoVolume /\ rootXid = 0
    /\ got = Unread
    /\ error = "none"

Writing == phase = "writing" /\ nx.xid < MaxXid

LiveState == history[disk[LiveSb.paddr].xid]

\* The live volume superblock goes to block a in transaction xid.
Checkpoint(xid, a) ==
    /\ nx' = [nx EXCEPT !.xid = xid]
    /\ cmap' = cmap \cup {Entry(VolOid, xid, a)}

\* One transaction: rewrite node o elsewhere, possibly under a new root.
Commit ==
    \E o \in Oids, r \in Oids :
        LET xid == nx.xid + 1 IN
        /\ Writing /\ HasRoom
        /\ Checkpoint(xid, FreeA)
        /\ vmap' = vmap \cup {Entry(o, xid, FreeB)}
        /\ disk' = [disk EXCEPT
                      ![FreeA] = Blk("fs", xid, VolOmap, r, disk[LiveSb.paddr].snap, 0),
                      ![FreeB] = Blk("node", xid, 0, 0, 0, xid)]
        /\ history' = [x \in DOMAIN history \cup {xid} |->
                          IF x = xid
                          THEN [root |-> r, ver |-> [LiveState.ver EXCEPT ![o] = xid]]
                          ELSE history[x]]
        /\ UNCHANGED <<snaps, damaged, phase, request, reader, error>>

\* A transaction of another volume: only the container's xid moves.
CommitElsewhere ==
    /\ Writing
    /\ nx' = [nx EXCEPT !.xid = @ + 1]
    /\ UNCHANGED <<cmap, vmap, disk, snaps, history, damaged, phase, request,
                   reader, error>>

\* Freeze the volume: a superblock without an object map of its own, and a
\* metadata record that names it; the tree of these records gets a new root.
TakeSnapshot ==
    LET xid == nx.xid + 1
        root == LiveState.root
    IN  /\ Writing /\ HasRoom
        /\ Checkpoint(xid, FreeA)
        /\ \E c \in FreeBlocks \ {FreeA, FreeB} :
              disk' = [disk EXCEPT ![FreeA] = Blk("fs", xid, VolOmap, root, c, 0),
                                   ![FreeB] = Blk("fs", xid, 0, root, 0, 0),
                                   ![c] = Blk("node", xid, 0, 0, 0, xid)]
        /\ snaps' = snaps \cup {[xid |-> xid, sblock |-> FreeB]}
        /\ history' = [x \in DOMAIN history \cup {xid} |->
                          IF x = xid THEN LiveState ELSE history[x]]
        /\ UNCHANGED <<vmap, damaged, phase, request, reader, error>>

DeleteSnapshot ==
    /\ phase = "writing"
    /\ \E s \in snaps : snaps' = snaps \ {s}
    /\ UNCHANGED <<nx, cmap, vmap, disk, history, damaged, phase, request,
                   reader, error>>

\* Map entries the live volume or a snapshot resolves to; the rest may go.
Pinned ==
    UNION {VM!Floor(vmap, o, x) :
           o \in Oids, x \in {nx.xid} \cup {s.xid : s \in snaps}}

Reclaim ==
    /\ phase = "writing"
    /\ vmap # Pinned
    /\ vmap' = Pinned
    /\ UNCHANGED <<nx, cmap, disk, snaps, history, damaged, phase, request,
                   reader, error>>

\* The image is handed to the reader: sound, with one block gone bad, or
\* with an unusual container superblock.
HandOver ==
    /\ phase = "writing"
    /\ \/ damaged' \in {{}} \cup {{a} : a \in InUse} /\ nx' = nx
       \/ damaged' = {} /\ nx' \in {Found(s, nx.xid) : s \in OddSupers}
    /\ disk' = [a \in DOMAIN disk |->
                   IF a \in damaged' THEN [disk[a] EXCEPT !.cksum = FALSE]
                   ELSE disk[a]]
    /\ request' \in 0 .. MaxXid
    /\ phase' = "header"
    /\ UNCHANGED <<cmap, vmap, snaps, history, reader, error>>

-----------------------------------------------------------------------------
\* The reader: parsers

\* ObjectMap::parse: type, then checksum.
OmapHeader(b) ==
    IF b.type # "omap" THEN "UnexpectedObjectType"
    ELSE IF ~b.cksum THEN "ChecksumMismatch"
    ELSE "ok"

\* ApfsVolume::parse: type, signature, then checksum.
ParseVolume(b) ==
    IF b.type # "fs" \/ ~b.magic THEN "UnexpectedObjectType"
    ELSE IF ~b.cksum THEN "ChecksumMismatch"
    ELSE "ok"

-----------------------------------------------------------------------------
\* The reader: volume_superblock_addrs

Volumes == FsOids(nx.slots, nx.maxFs)

Fail(e) ==
    /\ phase' = "failed"
    /\ error' = e
    /\ UNCHANGED <<image, damaged, request, reader>>

\* The live superblock's own block size is checked again.
SizeRejected ==
    /\ phase = "header"
    /\ nx.size \notin NX_MINIMUM_BLOCK_SIZE .. NX_MAXIMUM_BLOCK_SIZE
    /\ Fail("FieldOutOfRange")

SizeAccepted ==
    phase = "header" /\ nx.size \in NX_MINIMUM_BLOCK_SIZE .. NX_MAXIMUM_BLOCK_SIZE

HeaderRejected ==
    /\ SizeAccepted
    /\ OmapHeader(disk[NxOmap]) # "ok"
    /\ Fail(OmapHeader(disk[NxOmap]))

HeaderRead ==
    /\ SizeAccepted
    /\ OmapHeader(disk[NxOmap]) = "ok"
    /\ phase' = "volumes"
    /\ UNCHANGED <<image, damaged, request, reader, error>>

Resolving == phase = "volumes" /\ Len(addrs) < Len(Volumes)

\* Every volume is resolved, at the container's xid, before the first is used.
ResolveVolume ==
    /\ Resolving
    /\ \E e \in VM!Floor(cmap, Volumes[Len(addrs) + 1], nx.xid) :
          addrs' = Append(addrs, e.paddr)
    /\ UNCHANGED <<image, damaged, phase, request, live, volume, rootXid, got,
                   error>>

\* Fault: a sentinel address stands in for a volume that is not mapped.
VolumeUnresolvedSentinel ==
    /\ Resolving
    /\ VM!Floor(cmap, Volumes[Len(addrs) + 1], nx.xid) = {}
    /\ addrs' = Append(addrs, MaxAddr + 1)
    /\ UNCHANGED <<image, damaged, phase, request, live, volume, rootXid, got,
                   error>>

VolumeUnresolved ==
    /\ Resolving
    /\ VM!Floor(cmap, Volumes[Len(addrs) + 1], nx.xid) = {}
    /\ Fail("OmapUnresolved")

-----------------------------------------------------------------------------
\* The reader: open_first_volume, open and open_snapshot

AllResolved == phase = "volumes" /\ Len(addrs) = Len(Volumes)

NoVolumes ==
    /\ AllResolved
    /\ addrs = <<>>
    /\ Fail("NoValidSuperblock")

VolumeRejected ==
    /\ AllResolved
    /\ addrs # <<>>
    /\ ParseVolume(disk[addrs[1]]) # "ok"
    /\ Fail(ParseVolume(disk[addrs[1]]))

\* ApfsFs::open, and open_snapshot at the live volume's own xid.
MountLive ==
    LET sb == disk[addrs[1]] IN
    /\ AllResolved
    /\ addrs # <<>>
    /\ ParseVolume(sb) = "ok"
    /\ request \in {0, sb.xid}
    /\ live' = sb /\ volume' = sb /\ rootXid' = sb.xid
    /\ phase' = "mounted"
    /\ UNCHANGED <<image, damaged, request, addrs, got, error>>

LookForSnapshot ==
    LET sb == disk[addrs[1]] IN
    /\ AllResolved
    /\ addrs # <<>>
    /\ ParseVolume(sb) = "ok"
    /\ request \notin {0, sb.xid}
    /\ live' = sb
    /\ phase' = "snapshots"
    /\ UNCHANGED <<image, damaged, request, addrs, volume, rootXid, got, error>>

\* Reading a node of the snapshot-metadata tree: its checksum decides.
SnapNode(b) == IF b.cksum THEN "ok" ELSE "ChecksumMismatch"

\* descend_snap at the k-th node below the root: the visited set first, which
\* holds the root's block address beside the oids of the nodes before this
\* one; then the object map at the volume's xid; then the node.
SnapChild(k) ==
    LET oid == SnapNodes[k]
        floor == VM!Floor(vmap, oid, live.xid)
    IN  IF oid = live.snap \/ \E j \in 1 .. k - 1 : SnapNodes[j] = oid
        THEN "CycleGuard"
        ELSE IF floor = {} THEN "OmapUnresolved"
        ELSE SnapNode(disk[(CHOOSE e \in floor : TRUE).paddr])

\* for_each_snap_record, read by read: the header of the volume's object map,
\* the root at its block address, the nodes below it.
SnapWalk ==
    <<OmapHeader(disk[live.omap]), SnapNode(disk[live.snap])>>
      \o [k \in 1 .. Len(SnapNodes) |-> SnapChild(k)]

\* The first read that does not succeed ends list_snapshots, and the open.
SnapshotsUnlisted ==
    /\ phase = "snapshots"
    /\ \E k \in DOMAIN SnapWalk :
          /\ \A j \in 1 .. k - 1 : SnapWalk[j] = "ok"
          /\ SnapWalk[k] # "ok"
          /\ Fail(SnapWalk[k])

SnapshotsListed ==
    /\ phase = "snapshots"
    /\ \A k \in DOMAIN SnapWalk : SnapWalk[k] = "ok"

\* Of the records listed, those whose xid is the one asked for.
Named == {s \in snaps : s.xid = request}

SnapshotMissing ==
    /\ SnapshotsListed
    /\ Named = {}
    /\ Fail("SnapshotNotFound")

SnapshotRejected ==
    /\ SnapshotsListed
    /\ \E s \in Named :
          /\ ParseVolume(disk[s.sblock]) # "ok"
          /\ Fail(ParseVolume(disk[s.sblock]))

\* Fault: the frozen superblock keeps its own, empty, omap_oid.
WithOwnOmapOid(sb, omap) == sb

\* ApfsVolume::with_omap_oid: the frozen superblock, the live object map.
WithOmapOid(sb, omap) == [sb EXCEPT !.omap = omap]

MountSnapshot ==
    /\ SnapshotsListed
    /\ \E s \in Named :
          /\ ParseVolume(disk[s.sblock]) = "ok"
          /\ volume' = WithOmapOid(disk[s.sblock], live.omap)
    /\ rootXid' = request
    /\ phase' = "mounted"
    /\ UNCHANGED <<image, damaged, request, addrs, live, got, error>>

\* Any of these reads may fail.
ReadFails ==
    /\ \/ SizeAccepted
       \/ phase = "volumes" /\ (Volumes # <<>>)
       \/ phase = "snapshots"
    /\ Fail("Io")

-----------------------------------------------------------------------------
\* The reader: nodes of the mounted volume

\* Fault: nodes are resolved at the live volume's xid.
FetchAtLiveXid(o) ==
    LET header == OmapHeader(disk[volume.omap])
        floor == VM!Floor(vmap, o, live.xid)
        node == disk[(CHOOSE e \in floor : TRUE).paddr]
        Miss(e) == [oid |-> o, status |-> e, ver |-> 0]
    IN  IF header # "ok" THEN Miss(header)
        ELSE IF floor = {} THEN Miss("OmapUnresolved")
        ELSE IF ~node.cksum THEN Miss("ChecksumMismatch")
        ELSE [oid |-> o, status |-> "ok", ver |-> node.ver]

\* The map header at the volume's omap_oid, the node's floor at the volume's
\* xid, the node and its checksum.
Fetch(o) ==
    LET header == OmapHeader(disk[volume.omap])
        floor == VM!Floor(vmap, o, volume.xid)
        node == disk[(CHOOSE e \in floor : TRUE).paddr]
        Miss(e) == [oid |-> o, status |-> e, ver |-> 0]
    IN  IF header # "ok" THEN Miss(header)
        ELSE IF floor = {} THEN Miss("OmapUnresolved")
        ELSE IF ~node.cksum THEN Miss("ChecksumMismatch")
        ELSE [oid |-> o, status |-> "ok", ver |-> node.ver]

ReadNode ==
    /\ phase = "mounted"
    /\ \E o \in Oids :
          got' \in {Fetch(o), [oid |-> o, status |-> "Io", ver |-> 0]}
    /\ UNCHANGED <<image, damaged, phase, request, addrs, live, volume, rootXid,
                   error>>

\* The open failed; nothing more happens.
Finished == phase = "failed" /\ UNCHANGED vars

Write ==
    \/ Commit \/ CommitElsewhere \/ TakeSnapshot \/ DeleteSnapshot \/ Reclaim
    \/ HandOver

Open ==
    \/ SizeRejected \/ HeaderRejected \/ HeaderRead \/ ResolveVolume
    \/ VolumeUnresolved \/ NoVolumes \/ VolumeRejected \/ MountLive
    \/ LookForSnapshot \/ SnapshotsUnlisted \/ SnapshotMissing
    \/ SnapshotRejected \/ MountSnapshot

Next == Write \/ Open \/ ReadFails \/ ReadNode \/ Finished

Spec == Init /\ [][Next]_vars

-----------------------------------------------------------------------------
\* Properties

\* Every variable keeps its type.
TypeOK ==
    /\ disk \in [0 .. MaxAddr -> Block]
    /\ addrs \in Seq(0 .. MaxAddr)
    /\ live \in Block /\ volume \in Block
    /\ rootXid \in 0 .. MaxXid
    /\ got.oid \in Oids \cup {0}
    /\ phase \in {"writing", "header", "volumes", "snapshots", "mounted", "failed"}
    /\ (error = "none") <=> (phase # "failed")

\* open_snapshot: "every subsequent read reflects the snapshot, not the live
\* volume".  A mounted volume shows the root and the node versions of the
\* transaction asked for, whatever was committed, reclaimed, overwritten or
\* damaged since: a read is right or an error.  ApfsFs::open, which asks for
\* no transaction, mounts the newest on disk.
PointInTime ==
    phase = "mounted" =>
        /\ volume.xid = rootXid /\ request \in {0, rootXid}
        /\ rootXid \in DOMAIN history
        /\ request = 0 => \A x \in DOMAIN history : x <= rootXid
        /\ volume.root = history[rootXid].root
        /\ got.status = "ok" => got.ver = history[rootXid].ver[got.oid]

\* A volume of the container that its object map does not know.
Unmapped == \E k \in DOMAIN Volumes : VM!Floor(cmap, Volumes[k], nx.xid) = {}

\* The live superblock names the root of the snapshot-metadata tree by a block
\* address that is also the oid of a node below it.
Clash ==
    \E k \in DOMAIN SnapNodes : SnapNodes[k] = disk[LiveSb.paddr].snap

\* The errors an open may return on an image no block of which is damaged.
Refusable(e) ==
    \/ e \in {"none", "Io"}
    \/ e = "FieldOutOfRange"
       /\ nx.size \notin NX_MINIMUM_BLOCK_SIZE .. NX_MAXIMUM_BLOCK_SIZE
    \/ e = "OmapUnresolved" /\ Unmapped
    \/ e = "NoValidSuperblock" /\ Volumes = <<>>
    \/ e = "CycleGuard" /\ Clash /\ request \notin {0, disk[LiveSb.paddr].xid}

\* What is retained in an undamaged image, the live volume or a snapshot, is
\* mountable and readable down to its last node.  Besides a failing source
\* only this gets in the way: a block size out of range, a container without
\* a volume, any volume at all that is not mapped (lib.rs resolves every one
\* before the first is used), and, for a snapshot, a clash in the visited set
\* of descend_snap, which takes a block address for an oid.
RetainedIsReadable ==
    LET Retained == {0, disk[LiveSb.paddr].xid} \cup {s.xid : s \in snaps}
    IN  /\ Unmapped => phase # "mounted"
        /\ (damaged = {} /\ request \in Retained) =>
             /\ Refusable(error)
             /\ got.status \in {"unread", "ok", "Io"}
=============================================================================
