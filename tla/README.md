# A TLA+ model of apfs-core

This directory specifies, model-checks and in part proves the reader in `src/`:
a library that opens an APFS container from any `Read + Seek` source, finds the
state its writer last completed, mounts a volume or one of its snapshots, and
reads directories, files and compressed content from it. An analyst can also ask
it which blocks are free, which objects wait to be reaped, and whether a volume
is sealed or encrypted. The library only
reads, never writes, and does not trust a byte of what it reads: most of what
can go wrong is a block that is torn, stale, foreign, cyclic or missing, a
source that fails in the middle, or two callers that share one source.

Paths such as `checkpoint.rs:96` are relative to `src/src/`.

## The system

| component | state it keeps | operations | modelled in |
|---|---|---|---|
| container bootstrap (`lib.rs`, `container.rs`) | live superblock, checkpoint mappings | `open`, `NxSuperblock::parse`, `resolve_ephemeral`, `volume_superblock_addrs` | Container, Mount |
| checkpoint ring (`checkpoint.rs`) | candidate superblock, mappings so far | `resolve_live_checkpoint`, `read_block` | Container, Recovery |
| object header, Fletcher-64 (`object.rs`) | none | `fletcher64_checksum` | Fletcher; elsewhere a property of blocks |
| object map (`omap.rs`) | map header | `parse`, `resolve` | ObjectMap, VersionedMap, Mount |
| B-tree (`btree.rs`) | visited set, depth | `find_leaf`, `for_each_leaf_entry`, `node_entries` | ObjectMap, TreeWalk, BTreeNode, Navigate |
| fs-tree walk (`dir.rs`) | visited set, depth, records found | `for_each_fs_record_for_oid`, `list_dir`, `lookup_child`, `load_inode`, `open_path` | TreeWalk, Navigate, Vfs |
| fs records, inode (`fsrecord.rs`, `inode.rs`) | none | `decode_jkey`, `parse_xfields`, `Inode::parse` | FsRecord, Navigate |
| snapshots (`snapshot.rs`) | visited set | `list_snapshots`, `mount_snapshot`, `resolve_snapshot_xid` | TreeWalk, Mount, Navigate |
| volume superblock (`volume.rs`) | parsed fields | `parse`, `with_omap_oid` | Mount |
| extents (`extent.rs`) | buffer | `list_extents`, `read_stream`, `read_data`, `data_size` | Stream |
| attributes (`xattr.rs`) | none | `list_xattrs`, `symlink_target`, `decmpfs_header`, `resource_fork` | Navigate, Stream |
| compression (`compression.rs`, `decmpfs.rs`) | decoded bytes, table position | `decompress_decmpfs` and the fork layouts | Stream |
| vfs adapter (`vfs.rs`) | mutex over the source, volume, root xid | the `FileSystem` methods, `open`, `open_snapshot` | Vfs, Mount, Stream, Navigate |
| reaper (`reaper.rs`) | lists seen, objects found | `pending_objects` | Reaper |
| space manager (`spaceman.rs`) | none | `is_block_free`, `read_obj_block` | Spaceman, Ephemeral |
| sealed volumes, encryption (`sealed.rs`, `encryption.rs`) | none | `IntegrityMeta::parse`, `read_keybag` | Inspect |
| Fusion (`fusion.rs`) | none | `is_fusion`, `translate_address` | as the refusal in Container |

**How they interact.** `ApfsContainer::open` reads block zero, follows the
geometry found there to the checkpoint ring, picks a superblock, collects the
mappings of ephemeral objects and re-reads the superblock it picked.
`volume_superblock_addrs` resolves each volume's oid through the container's
object map at the superblock's xid. A volume superblock names its own object
map and its tree roots; every walk of a tree reads the map's header again,
resolves each node's virtual oid at the volume's xid, checks the node and
recurses. A snapshot is a frozen volume superblock grafted onto the live
object map. File content takes further walks: for the inode, for its
attributes, for the extents of one or two streams. `ApfsFs` puts all of that
behind one mutex, so that several threads can share the source and its cursor.
The space manager and the reaper are ephemeral: they are found through the
checkpoint mappings that `open` collected, and so is each further reap list.
There are no callbacks across components but the visit closures of the walks.

**What is hard.** Which of the blocks in a ring describe the last complete
checkpoint after power was lost anywhere; whether a descent along a single
path can miss the version it looks for; whether pruning a walk loses records
that straddle two leaves; whether the loop guards end every walk and refuse
none that is sound; whether one wrong offset in a node costs more than the
entry it belongs to; whether "not found" is ever said of a file that is there;
whether a queue of reap lists that loops is noticed; whether a bit lost in a
block is believed; whether a snapshot stays readable while its volume moves
on; whether the size announced for a file is the size delivered; whether
threads can disturb each other through the cursor. `PROJECT.json` lists these
under "hazards" with the line where each bites and the properties aimed at it.

**What makes each part correct.** The ring: the highest complete checkpoint,
first in ring order among equals, its mappings and no others, and an error
only when there is nothing to open. The object map: the newest version not
after the transaction asked for. A walk: every record of its object, once, in
key order, or an error. A mount: the volume exactly as it stood. A read: what
was stored, at the length announced, or an error. The handle: answers
independent of who else is reading. A query: the queue, allocation or seal as
it was written, or an error, whatever a checksummed block has lost.

## Modules

Each module has a header comment that says what it abstracts; "map" in
`PROJECT.json` gives the source lines of every definition.

* **Container** — `ApfsContainer::open` as a sequential process over an
  arbitrary image. One action is one block read with all that the code does
  with the block: `Block0*`, `ScanBlock` (first pass), `MapBlock` (second
  pass), `Reread`. `pc` is the position in the code, `boot`, `best`,
  `mappings` are its local variables. A block is what its bytes decode to; its
  checksum is the length over which it is right, so a checksum taken over
  another length does not match. `overflowChecks` is the build profile: an
  addition that overflows panics or wraps.
* **Recovery** — Container composed with an external writer that writes
  checkpoints into the ring and loses power between or within block writes,
  is mounted again and goes on. The maps of a checkpoint place its objects in
  any order, so that those of an abandoned attempt may stand before or behind
  the maps that replace them.
* **VersionedMap** — what an object map promises, in one step: the floor of
  `(oid, xid)` in a set of entries, or some answer when the map is not sound.
* **ObjectMap** — `ObjectMap::resolve` over `find_leaf`: the descent along one
  path with its cap, visited set, overflow check and checksum checks. Shown to
  implement VersionedMap, whose answers are exact when the tree is well formed
  (`WellFormed`) and its levels fit the cap (`Leveled`: a child stands below its
  parent). Ordered keys alone would admit a node that is its own child.
* **TreeWalk** — the three recursive walks (`descend_virtual`, `descend_snap`,
  `descend`), which share guards and differ in addressing and pruning. The
  recursion is an explicit stack, in which a reference that the keyed walk will
  not descend into is marked rather than left out, as the loop over a node's
  children passes it by. Lookups in the object map use VersionedMap; in a map
  that is itself damaged (`mapsound`) they may also be refused. `below` and
  `height` annotate a tree with what its writer put under a node and at which
  level; the code never sees them.
* **Mount** — from the container to a mounted volume, live or at a snapshot,
  composed with an external copy-on-write writer that commits, takes and
  deletes snapshots and reuses blocks, and with one damaged block or an unusual
  container superblock. `open_snapshot` lists the snapshots before it looks for
  one; `SnapWalk` is that listing read by read, the map's header, the root at
  its block address, the nodes below it (`SnapNodes`) through the object map,
  with the one visited set they share. `Home` says where each node is formatted.
  The writer allocates with `CHOOSE`: some
  block that neither the live volume nor a snapshot needs, the theorems hold
  whichever that is, and TLC takes the first, so blocks are reused at once.
* **Stream** — `data_size` followed by `read_data` on one file: attribute,
  extents, resource fork, chunk tables. One step per extent and per chunk. A
  field or a byte is one cell; codecs are an abstract run-length decoder. The
  walks for attributes and extents deliver what TreeWalk shows or end in one of
  its errors (`WalkFailures`).
  `plain` annotates a file with its text, and `StoredAs` says from the writer's
  side what it means that the records hold that text.
* **BTreeNode** — `node_entries` over a block of cells: header, table of
  contents in both layouts, keys forward and values backward, each malformed
  entry skipped. A cell is a field that the code reads whole.
* **FsRecord** — what keys and values decode to: `decode_jkey`,
  `parse_xfields` with its alignment, `Inode::parse`, plain and hashed
  directory keys, attributes, snapshot names and metadata.
* **Navigate** — one call that navigates a mounted volume (`list_dir`,
  `lookup_child`, `load_inode`, `open_path`, `list_xattrs`, `symlink_target`,
  `list_snapshots`, `resolve_snapshot_xid`, `for_each_leaf_entry`, and
  `read_dir` and `meta` of the adapter) over nodes of cells. One step is one
  node read; `open_path` starts a new walk for each name, and `meta` a second
  one for the compression header in which `data_size` finds the size of a
  compressed file. A volume carries what its writer encoded and the length of
  what it stored (`written`, `sizes`), to compare the answers with; `streams`
  holds the bytes of stream-backed attributes, whose reading is in Stream.
* **Fletcher** — the checksum over words of any width, with the stored words
  counted as zero.
* **Ephemeral** — Container's `open` followed by one query, up to what queries
  share: resolving an ephemeral object, `read_obj_block`, and a medium that
  loses words. A disk is annotated with what its writer encoded and where;
  `Placed`, and `QueueStored`, `SpaceStored`, `SealStored` and `KeysStored` in
  the modules below, tie the annotations of a sound disk to its words. The code
  never sees them.
* **Reaper**, **Spaceman** — `pending_objects` and `is_block_free`, one block
  read per step. Which lists a queue reaches is the least set closed under the
  links on disk (`Chain`), so a queue loops when that set lacks the end.
  **Inspect** puts both beside the decoding of integrity
  metadata and keybags and is the whole specification.
* **Vfs** — threads over one handle, interleaved at every seek, read and lock
  operation, with failures and panics of the source.
* **MC\*** — constants for TLC. **\*_proofs** — theorems.

Operators under a comment `Fault:` are wrong variants of the definition that
follows them (a dropped guard, an off-by-one, a missing check). They are used
by no specification; substituting one for its definition must make TLC find
the property named with it in `PROJECT.json` violated, which shows that the
property depends on that piece of code.

## Runs

| run | what it shows |
|---|---|
| `container` | Over all 1000 rings of three slots drawn from ten kinds of block, and odd bootstraps: the live superblock is the highest acceptable one (`LiveIsHighest`), its mappings are those listed in the live maps, within the cap and with nothing but empty ones besides (`MappingsAreLive`), the earliest first (`EarliestMapWins`), `NoValidSuperblock` is true (`NoSuperblockIsTrue`), bad neighbours, or a ring cut off by the end of the image, never refuse a legal container (`LegalOpens`), both validations agree (`RereadAgrees`). And, on containers that hold the objects, one query with a word lost anywhere: the reap queue is complete and in order (`PendingIsQueue`), a looping one refused and no other (`LoopedQueueIsRefused`), a block is free as it was written and every block of the device has an answer (`FreeIsTrue`), a seal is never misread and key material never overlooked (`ProtectionIsTrue`), the open and the query return (`QueryReturns`). |
| `recovery` | Two power losses anywhere in three checkpoints of up to three maps: open settles on the last complete checkpoint, finds all its maps, and resolves each object to its place unless a map of an abandoned attempt shadows it (`RecoversLastCheckpoint`), and fails only with the source (`CrashNeverBlocksOpen`). |
| `object_map` | Lookups in every well-formed tree over five entries of two objects, and in every graph of three nodes from a stock of sound, damaged, cyclic and foreign ones: the floor, as VersionedMap says (`ResolvesFloor`, `ImplementsVersionedMap`); in any graph a descent ends (the abstract step is fair), and an answer is a real entry that only checksummed nodes led to (`AnswerIsReal`). |
| `tree_walk` | Walks, whole and keyed, of every well-formed tree over five records: complete and in key order (`WalkIsComplete`), never called cyclic; and of arbitrary graphs, chains deeper than the cap and damaged object maps included: they return (`WalkReturns`), deliver only checksummed records (`OnlyRealRecords`) and never report a cyclic tree as complete (`CycleGuardIsTrue`). |
| `mount` | Three further transactions, snapshots, deletions, reuse, and one bad block or an unusual container superblock (no volume, an unmapped one, too many, a bad size): what is read is the state asked for, the newest if none is (`PointInTime`), and whatever is retained in an undamaged image can be read (`RetainedIsReadable`), but for the refusals `Refusable` lists: a failing source, a block size out of range, no volume, a volume that is not mapped, which refuses the others with it, and for a snapshot the clash that `snap_clash` is about. |
| `navigate` | Eleven kinds of call on a small volume, plain and hashed names, one leaf or three under an index, any node damaged or any cell of any table of contents wrong, inodes with extended fields in every order, files compressed in both ways: listings are exact, and directory records and inodes give a file the same kind (`ListingIsExact`), a path opens the inode it leads to and `meta` tells the size of what was stored (`PathIsTrue`), what exists is never reported missing and a name finds what is listed under it, snapshots included (`MissIsTrue`), a wrong cell in a leaf costs a listing nothing of the other leaves and adds at most one entry (`WrongCellStaysLocal`), every call returns (`NavigateReturns`). |
| `stream` | Plain files over any two of 48 extents and compressed files of all types, intact or changed at any cell: the stored content or an error (`ContentIsRestored`), nothing made up (`NothingInvented`), the length announced (`SizeIsLength`), and the read returns (`ReadReturnsAtLast`). |
| `vfs` | Two workers, nine calls, failures and panics: a call reads its own blocks (`OwnBlock`) and answers as if alone (`SameAsAlone`), no read after a panic (`PoisonIsFinal`), the lock always comes back (`LockComesBack`). |

Type invariants are also checked in TreeWalk, Mount, Stream and Navigate
(`TypeOK`); only Navigate's is not proved. The query modules state none of their
own.

Four runs expect a violation; each is a finding, where the code does
something a comment or a document of the repository says it does not:

| run | what the code does |
|---|---|
| `container_panic` | `desc_base + i` overflows for an on-disk base near the end of the address space: a panic where overflow is checked. |
| `container_size` | Block zero is checksummed over 4096 bytes whatever block size it declares, so a legal container with larger blocks is refused. |
| `snap_clash` | A sound snapshot tree is called cyclic when a node's virtual oid equals the root's block address. |
| `vfs_xid` | The xid in a `FileId` is never compared with that of the mount. |

Further divergences are visible in the modules without a run of their own.

* `NxSuperblock::parse` drops every zero of `nx_fs_oid[]`, not only trailing
  ones as `container.rs:89` says, so the positions of the addresses resolved do
  not match `apfs_fs_index` behind an emptied slot (`FsOids` in Mount); nothing
  in the crate uses the position.
* An extent that leads out of the image is reported as an I/O error and not as
  the range error `extent.rs:97` documents (`ExtentPastImage` in Stream).
* `checkpoint.rs:127` speaks of the mappings of the live checkpoint. Maps are
  told apart by xid alone (the superblock's `nx_xp_desc_index` and
  `nx_xp_desc_len`, which delimit a checkpoint in the ring, are not read), so
  those an interrupted checkpoint left behind are collected with the completed
  one that reused its xid, and one that stands earlier in the ring shadows the
  right mapping of its object (`Shadowed` in Recovery). `recovery` reaches that
  case and shows that it is the only one in which an object resolves wrongly.
* `btree.rs:167` announces an empty vector for a malformed node; only the
  malformed entry is skipped, as the comment inside says. The two differ inside
  one leaf, and `WrongCellStaysLocal` claims only what holds under both.
* `spaceman.rs` announces `FieldOutOfRange` for inconsistent fields. An index
  array that runs past its block reads as address zero instead
  (`spaceman.rs:122`), and block zero, a sound object of another kind, is then
  taken for a chunk-info block.
* `OmapUnresolved` means both that a path component is not in its directory and
  that a node's oid is not in the object map. In a damaged index a caller
  cannot tell them apart, so `MissIsTrue` speaks of intact index nodes.
* `vfs.rs` answers `read_link` with an empty target although
  `symlink_target` would find it.

**Bounds.** Every bound is a constant, given in a cfg. Sizes are in units of
the minimum block size (two sizes suffice to tell "minimum" from "declared").
A ring of three slots holds two superblocks and a map, or a superblock and two
maps, in every order, which is what order, ties and staleness need; `recovery`
uses eight slots so that three checkpoints wrap around. Trees have two or three
levels and five records, so that an object can span two leaves below two index
nodes; depth caps are lowered to three, so that the deepest sound tree just
fits and longer chains reach them. `mount`
has two nodes, one of which is rewritten by each of three transactions, and
enough blocks that reuse is possible but not inevitable. One node belongs to
the snapshot tree and has the number of a free block for its oid, so that the
root of that tree comes to stand there and the clash happens. `stream` has blocks
and chunks of two cells and contents of up to five, so that a last block and a
last chunk are partial.

The queries of `container` run over words of 8 bits in blocks of 11, so a
bitmap block covers 88 blocks; the device has 200, hence three chunks, the last
one partial, in two chunk-info blocks. Chains of reap lists are as long as
their cap of three, or one longer, or loop. One fault may befall a behaviour: a
bit flipped, a word all zeros or all ones, or two neighbouring words exchanged,
in any place of any block a query reads. It happens when that block is the next
to be read; no query reads a block twice, so an earlier moment would be the
same. A word that turns from zeros into ones is left out: the two are equal in
the arithmetic of the checksum, which cannot see the change, in the code
either. `navigate` has 13 records, the root directory's in two leaves so that a
listing must cross them, and every cell of every table of contents takes up to
six wrong values. Names, oids and the width of a link count are cut down
(`NameLenSpan`, `ObjIdBits`, `IntBits`) so that each reaches its limit: the
longest hashed name fills the length mask, and a plain one is longer than the
mask could say. A hashed name longer than the mask is not written, as no writer
can. `vfs`
has two workers; the theorems cover any number.

**Fairness.** Container, Inspect, ObjectMap, TreeWalk, Navigate and Stream are
sequential calls: weak fairness of their own steps says that a running thread
goes on, nothing more; failures of the source, losses of the medium and all
writer steps are unfair. Vfs has weak fairness of each worker's steps inside a
call. A mutex promises nobody a turn, so no run claims that a call returns,
only that the lock comes back. Recovery and Mount have no fairness and make no
liveness claim.

## Proofs

The theorems hold for every value of the constants that satisfies the
assumptions named in the modules. Most of these give the constants their types
and say that images, trees and files are what the reader can be handed. The
others are these.

* Container: `IsImage`, block addresses are u64 and without gaps;
  `SizeAssumption`, the minimum block size is not above the maximum.
* Recovery: `RingAssumption`, the ring has room for the last complete
  checkpoint beside the one being written, and a map block holds an entry.
* TreeWalk: `KeysAreUnique`, an object map has one entry per key.
* Mount: `RoomAssumption`, the freshly formatted container fits the image;
  `SnapNodesAssumption`, the nodes of the snapshot tree are nodes of the volume,
  each once;
  `FirstVolumeAssumption`, the first volume named is the one written to.
* Stream: `StreamAssumption`, the cap on an attribute is within that on a file;
  `SoundAssumption`, a file marked sound holds its text as `StoredAs` says:
  extents inside the image that hold no cell twice, a header with the text's
  length, a payload that codes it, or a table whose slots lead to its chunks.
* Fletcher: `WordBitsAssumption`, a word has two bits or more (the prover does
  not know that powers of two are numbers, so that is stated too).
* Ephemeral, Reaper, Spaceman, Inspect: `PlaceAssumption`, `QueueAssumption`,
  `SpaceAssumption`, `ProtectionAssumption`: on a disk marked sound the newest
  checkpoint maps each object to its place, and reap lists, chunk-info blocks,
  bitmaps, seals and keybags hold what the annotations say.

The last two kinds say what a writer does, not what the reader finds: they are
conditions on a file or a disk, and anything else is a file or disk that is not
sound. TLC evaluates each assumption in the runs of its module.
* Vfs: `Outcome` describes the volume's chains.

* **Container_proofs.** Inductive invariant: types, what holds before a pass
  starts, `ScanProgress` (the candidate is the best of the ring prefix already
  scanned), `LiveIsHighest`, `MapsProgress` (the mappings are those of the
  prefix), `Bounded` (as many as the cap allows for it) and
  `NoSuperblockIsTrue`. The prefix forms are needed because the
  properties speak only of a finished pass. `ScanStep` and `MapStep` extend a
  prefix by one block. From it: `TypeCorrect`, `LiveSuperblock`,
  `LiveMappings`, `LoudFailure`, and the action property `RereadAgreement`.
  Two further invariants are carried on top. `OrderInv` (the mappings so far
  stand in ring order) gives `EarliestMapping`. `BootInv` (the bootstrap
  accepted is that of block zero) gives `LegalContainerOpens`.
* **Recovery_proofs.** `DiskInv` says where the last complete checkpoint stands
  in the ring: whole, its superblock the only valid one of its transaction and
  none newer, its maps right behind it. `WriterInv` says how far a checkpoint
  under way has come, so that it cannot have overwritten the last one. A
  mapping that is found but does not come first was preceded by one of the same
  xid that is not the checkpoint's: the ring position of its block witnesses
  `Shadowed`.
  `ReaderInv` is the invariant of Container_proofs, or an idle reader. From it:
  `RecoveryInvariance`, `CrashSafety`, `LastCheckpoint`, for any ring, any
  number of maps, checkpoints and power losses.
* **ObjectMap_proofs.** Inductive invariant: types, `CoversFloor` (in a
  well-formed tree the floor of the query below the current node is the floor
  below the root), `ResolvesFloor`, `AnswerIsReal`. The core is
  `ChildKeepsFloor`: the child chosen by the last separator not greater than
  the query covers the floor, or there is none anywhere. From it:
  `TypeCorrect`, `FloorFound`, `NoInventedAnswer`, for trees of any size and
  shape. With `DepthInv` (in a tree the cap covers, a
  descent goes strictly down, so it meets no node twice and does not run out of
  turns) every step is a step of VersionedMap or a stutter:
  `RefinesVersionedMap`.
* **TreeWalk_proofs.** `WalkInv`: every reference on the stack leads to a node,
  the stack and what was delivered are in key order, and what was delivered
  with what lies under the stack is what lies under the root, apart from records
  not asked for. It gives `CompleteWalk`; `TypeCorrect` and `RealRecords` need
  no well-formed tree. `GuardInv` (a node still to come differs from every node
  visited in the keys below it or in its level) excludes a false alarm;
  `LoopInv` (the references entered can be ranked so that each links only to
  later or pending ones) excludes a missed loop. Together: `TrueCycleGuard`.
  `GuardInv` leaves out the snapshot walk, whose false alarm is the finding of
  `snap_clash`.
* **Mount_proofs.** `MapInv`, `HistoryInv`, `DiskInv` and `NodesInv` say of the
  image that the superblock and every node of each retained transaction are on
  disk and that the object maps lead to them; reuse cannot disturb this because
  a block in use is not free. `OpenInv` and `MountedInv` say that the reader
  holds one of these; for the listing of snapshots, that each read of `SnapWalk`
  succeeds on an undamaged image unless the root's address is the oid of a node
  below it. From it: `MountInvariance`, `TypeCorrect`,
  `MountsPointInTime`, `RetainedReadable`.
* **Stream_proofs.** Sorting extents by offset loses and invents none
  (`SortedExtents`, from the pigeonhole principle for finite sets). `Filled`
  says which extent decided each cell of a buffer; it is kept by each extent
  (`FillStep`) and determines the buffer (`FillUnique`), so `data_size` and
  `read_data`, which each assemble the compression header, see the same one.
  The invariant `SInv` then ties what was announced to what is returned. From
  it: `StreamInvariance`, `TypeCorrect`, `AnnouncedLength`,
  `NoInventedContent`.
  For what was stored: extents that hold no cell twice leave `Filled` one
  outcome, what was laid down (`FilledIsLaid`), and the abstract decoder undoes
  a coded payload (`CodedDecodes`, `InlineDecodes`). `RestoreInv` follows the
  calls over a sound file: nothing but the source can fail, the fork in hand is
  the one stored, and (`ChunksInv`) before slot `n` the output is the first `n`
  chunks of the text, or all of it when padding slots follow. It is not
  inductive without `SInv`, which says where in the code each buffer is
  complete. From it: `RestoreInvariance` and `WhatWasStored`, for every length,
  layout, form of compression and window.
* **Inspect_proofs.** Queries and losses of the medium leave the open alone
  (`OpenUndisturbed`: the composition is an open as Container specifies it).
  `OnChain` keeps that the reap lists entered lie on the chain on disk and that
  each link from one of them leads to another or to the list at hand; meeting a
  list again therefore closes the set before it reached the end. From it:
  `InspectInvariance` and `ReapGuardIsTrue`, for any number of faults.
  What queries answer is proved for one fault at most, at any moment: two
  faults in one block can cancel each other in a sum, in the code as in the
  model. The argument has three layers. The checksum notices a changed word
  (`LostWordShows`) and two neighbours exchanged (`SwapShows`), for every word
  size and block length, so a sealed block that is accepted is as written
  (`MediumInv`). The mappings the open collected, first match in ring order,
  lead to where the writer put each object (`PlaceIsFound`, from the invariants
  of Container_proofs). And each query's arithmetic undoes the writer's:
  `PendingInv` says that the objects collected are those of the lists entered,
  in order; `FreeInv` that the chunk-info block and bitmap in hand are those of
  the block asked about. Together `AnswerInvariance`, and from it
  `QueueIsComplete`, `BlockStateIsTrue`, `ProtectionIsReported`.
* **Vfs_proofs.** Inductive invariant: types, `Exclusion` (whoever is inside a
  call holds the lock), `OwnBlock`, `OnCourse` (what remains of a call leads
  to the answer it gives alone), `SameAsAlone`. From it: `TypeCorrect`,
  `CursorIsPrivate`, `WorkersAreIsolated`, `PanicStopsReads`, for any number
  of workers and any volume.

The library's induction theorems take an operator, which the prover cannot
instantiate. Two things stand in for them. A non-empty set of numbers has a
least element (`WFMin`): ObjectMap_proofs and TreeWalk_proofs use that to pick
the last separator and the last node of a loop. From it Inspect_proofs derives
induction for a set of numbers (`UpTo`) and that a recursive function exists
(`Recursion`), and so what the running sums, the entries of a reap list and the
offsets in a keybag compute for every input.

Only model-checked:

* all liveness properties, and the fairness of `ImplementsVersionedMap`: the
  prover does not reason about fairness and ENABLED;
* Navigate's invariants, its types included. What `node_entries` and
  `parse_xfields` return depends on a recursion over their input that also
  carries where the next field begins, and the answers are compared with
  filtered and sorted sequences of records; each would need a theory of its own,
  of which the type invariant already needs a part.

## Not modelled

Codecs and the mutex are libraries and appear by what the code relies on.
Unicode, the conversion of a timestamp to a calendar date and uuids do not
affect the properties. Walks at cell level (Navigate) refer to nodes by number;
oids, addresses and the depth cap are in TreeWalk. `translate_address` in
`fusion.rs` is a bit test that nothing in the crate calls; Fusion appears as the
refusal in `open`. `read_link`, `deleted` and `unallocated` of the adapter
return constants. The length check of `IntegrityMeta::parse` cannot fail on a
whole block, which is all the model hands it. Tests, fuzz targets and the tools
that write test images are not part of the reader.

## Plan

1. Done: Container, Recovery, VersionedMap, ObjectMap, TreeWalk, Mount, Vfs,
   Stream, Fletcher, Ephemeral, Reaper, Spaceman, Inspect, BTreeNode, FsRecord,
   Navigate, and the proofs above. Every component that keeps state is modelled.
2. Open: proofs for Navigate. `UpTo` and `Recursion` of Inspect_proofs would
   carry over to `parse_xfields` (a field starts at an aligned place behind the
   one before it, as in a keybag) and to `node_entries`; then that encoding a
   record and decoding it gives the record, then `ListingIsExact`, `PathIsTrue`
   and `MissIsTrue` for every volume whose tree holds what was written, and
   `WrongCellStaysLocal` for every wrong cell of a leaf.
