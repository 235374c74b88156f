------------------------------ MODULE Container ------------------------------
(***************************************************************************)
(* Opening a container: ApfsContainer::open (lib.rs), the superblock gate  *)
(* NxSuperblock::parse (container.rs) and the two passes over the          *)
(* checkpoint descriptor ring in resolve_live_checkpoint (checkpoint.rs).  *)
(*                                                                         *)
(* The reader is one sequential thread over an immutable image; what it    *)
(* cannot control is the image (any block may be foreign, torn, stale or   *)
(* beyond the end) and the source, which may fail any read.  One action is *)
(* one block read together with all that the code does with that block.    *)
(***************************************************************************)
EXTENDS Naturals, Sequences, FiniteSets

CONSTANTS
    NX_MINIMUM_BLOCK_SIZE,   \* container.rs: 4096
    NX_MAXIMUM_BLOCK_SIZE,   \* container.rs: 65536
    MAX_CPM_COUNT,           \* checkpoint.rs: 4096, cap on cpm_count
    AddrSpace,               \* number of block addresses a u64 can name: 2^64
    Images                   \* the images the reader may be handed

(***************************************************************************)
(* A block is what its bytes decode to.  kind is o_type & 0xffff, magic    *)
(* says whether nx_magic = NX_MAGIC, and cksum is the length over which    *)
(* the stored Fletcher-64 is right (0 for a torn or altered block): a      *)
(* checksum taken over any other length does not match.  geo holds the     *)
(* nx_superblock fields open relies on, count / maps the cpm_count and     *)
(* cpm_map[] a checkpoint-map block has room for.                          *)
(***************************************************************************)
Mapping == [oid : Nat, paddr : Nat]

Geometry == [blockSize : Nat, fusion : BOOLEAN, descTree : BOOLEAN,
             descBase : 0 .. AddrSpace - 1, descBlocks : Nat]

Block == [kind : {"nxsb", "cpm", "other"}, magic : BOOLEAN, cksum : Nat,
          xid : Nat, geo : Geometry, count : Nat, maps : Seq(Mapping)]

ASSUME SizeAssumption ==
    /\ NX_MINIMUM_BLOCK_SIZE \in Nat \ {0}
    /\ NX_MAXIMUM_BLOCK_SIZE \in Nat
    /\ NX_MINIMUM_BLOCK_SIZE <= NX_MAXIMUM_BLOCK_SIZE
    /\ MAX_CPM_COUNT \in Nat
    /\ AddrSpace \in Nat \ {0}

\* An image is a run of blocks from address 0, each with a u64 address;
\* reading past it is an EOF, and so is, to read_block, an address whose byte
\* offset overflows.
IsImage(im) ==
    /\ DOMAIN im \subseteq 0 .. AddrSpace - 1
    /\ im \in [DOMAIN im -> Block]
    /\ \A a \in DOMAIN im : 0 .. a \subseteq DOMAIN im

ASSUME ImageAssumption == \A im \in Images : IsImage(im)

VARIABLES
    img,              \* the image behind the Read + Seek source
    overflowChecks,   \* build profile: arithmetic overflow panics or wraps
    pc,               \* where open is
    boot,             \* geometry of the block-zero superblock
    i,                \* ring index of the pass under way
    best,             \* the candidate live superblock of the first pass
    mappings,         \* checkpoint mappings collected by the second pass
    error             \* the ApfsError open returned, "none" before that

vars == <<img, overflowChecks, pc, boot, i, best, mappings, error>>

NoGeometry == [blockSize |-> 0, fusion |-> FALSE, descTree |-> FALSE,
               descBase |-> 0, descBlocks |-> 0]

NoCandidate == [found |-> FALSE, xid |-> 0, paddr |-> 0]

Init ==
    /\ img \in Images
    /\ overflowChecks \in BOOLEAN
    /\ pc = "block0"
    /\ boot = NoGeometry
    /\ i = 0
    /\ best = NoCandidate
    /\ mappings = <<>>
    /\ error = "none"

-----------------------------------------------------------------------------
\* Blocks and the ring

InImage(paddr) == paddr \in DOMAIN img

\* desc_base + i in u64 arithmetic.
RingAddr(k) == (boot.descBase + k) % AddrSpace

RingOverflows(k) == boot.descBase + k >= AddrSpace

ChecksumOk(b, len) == b.cksum = len

\* NxSuperblock::parse on a block read as `len` bytes: magic, then checksum.
ParseResult(b, len) ==
    IF ~b.magic THEN "NoValidSuperblock"
    ELSE IF ~ChecksumOk(b, len) THEN "ChecksumMismatch"
    ELSE "Ok"

BlockSizeInRange(size) ==
    size \in NX_MINIMUM_BLOCK_SIZE .. NX_MAXIMUM_BLOCK_SIZE

\* Fault: the first pass trusts a superblock without its checksum.
IsSuperblockUnchecked(b) == b.kind = "nxsb" /\ b.magic

\* The gates of the first pass: a superblock by type, magic and checksum.
IsSuperblock(b) ==
    b.kind = "nxsb" /\ b.magic /\ ChecksumOk(b, boot.blockSize)

\* The gates of the second pass: a map block of the chosen transaction.
IsLiveMap(b) ==
    b.kind = "cpm" /\ b.xid = best.xid /\ ChecksumOk(b, boot.blockSize)

ZeroMapping == [oid |-> 0, paddr |-> 0]

\* Fault: cpm_count is believed whatever it says.
MapEntriesUncapped(b) ==
    [m \in 1 .. b.count |->
        IF m <= Len(b.maps) THEN b.maps[m] ELSE ZeroMapping]

\* cpm_map[] up to the capped cpm_count; a field past the block reads as 0.
MapEntries(b) ==
    [m \in 1 .. (IF b.count < MAX_CPM_COUNT THEN b.count ELSE MAX_CPM_COUNT) |->
        IF m <= Len(b.maps) THEN b.maps[m] ELSE ZeroMapping]

-----------------------------------------------------------------------------
\* Actions

Fail(e) ==
    /\ pc' = "failed"
    /\ error' = e
    /\ UNCHANGED <<img, overflowChecks, boot, i, best, mappings>>

\* The error the bootstrap checks return, in the order the code makes them.
BootError(b) ==
    LET parsed == ParseResult(b, NX_MINIMUM_BLOCK_SIZE)
    IN  IF parsed # "Ok" THEN parsed
        ELSE IF b.geo.fusion THEN "UnsupportedFusion"
        ELSE IF b.geo.descTree THEN "CheckpointTreeUnsupported"
        ELSE IF ~BlockSizeInRange(b.geo.blockSize) THEN "FieldOutOfRange"
        ELSE "none"

\* Block zero is read as NX_MINIMUM_BLOCK_SIZE bytes, whatever its block size.
Block0Missing ==
    /\ pc = "block0"
    /\ ~InImage(0)
    /\ Fail("NoValidSuperblock")

Block0Rejected ==
    /\ pc = "block0"
    /\ InImage(0)
    /\ BootError(img[0]) # "none"
    /\ Fail(BootError(img[0]))

Block0Accepted ==
    /\ pc = "block0"
    /\ InImage(0)
    /\ BootError(img[0]) = "none"
    /\ boot' = img[0].geo
    /\ pc' = "scan"
    /\ UNCHANGED <<img, overflowChecks, i, best, mappings, error>>

\* Computing the next ring address; an overflow panics in a checked build.
RingPanic ==
    /\ pc \in {"scan", "maps"}
    /\ i < boot.descBlocks
    /\ overflowChecks /\ RingOverflows(i)
    /\ Fail("Panic")

AtRingBlock(p) ==
    /\ pc = p
    /\ i < boot.descBlocks
    /\ ~(overflowChecks /\ RingOverflows(i))

\* Fault: a later block with an equal xid replaces the candidate.
SupersedesOrTies(b) == ~best.found \/ b.xid >= best.xid

\* First pass: a strictly larger xid replaces the candidate.
Supersedes(b) == ~best.found \/ b.xid > best.xid

\* Fault: a ring block with a bad checksum ends the open.
ScanBlockStrict ==
    LET paddr == RingAddr(i)
        bad == InImage(paddr) /\ ~ChecksumOk(img[paddr], boot.blockSize)
    IN  /\ AtRingBlock("scan")
        /\ pc' = IF bad THEN "failed" ELSE pc
        /\ error' = IF bad THEN "ChecksumMismatch" ELSE error
        /\ best' = IF /\ InImage(paddr)
                      /\ IsSuperblock(img[paddr])
                      /\ Supersedes(img[paddr])
                   THEN [found |-> TRUE, xid |-> img[paddr].xid, paddr |-> paddr]
                   ELSE best
        /\ i' = i + 1
        /\ UNCHANGED <<img, overflowChecks, boot, mappings>>

ScanBlock ==
    LET paddr == RingAddr(i) IN
    /\ AtRingBlock("scan")
    /\ best' = IF /\ InImage(paddr)
                  /\ IsSuperblock(img[paddr])
                  /\ Supersedes(img[paddr])
               THEN [found |-> TRUE, xid |-> img[paddr].xid, paddr |-> paddr]
               ELSE best
    /\ i' = i + 1
    /\ UNCHANGED <<img, overflowChecks, pc, boot, mappings, error>>

\* Fault: the last ring block is left out.
NoSuperblockEarly ==
    /\ pc = "scan"
    /\ i + 1 >= boot.descBlocks
    /\ ~best.found
    /\ Fail("NoValidSuperblock")

NoSuperblock ==
    /\ pc = "scan"
    /\ i >= boot.descBlocks
    /\ ~best.found
    /\ Fail("NoValidSuperblock")

ScanDone ==
    /\ pc = "scan"
    /\ i >= boot.descBlocks
    /\ best.found
    /\ pc' = "maps"
    /\ i' = 0
    /\ UNCHANGED <<img, overflowChecks, boot, best, mappings, error>>

\* Second pass: append the mappings of each map block of the live xid.
MapBlock ==
    LET paddr == RingAddr(i) IN
    /\ AtRingBlock("maps")
    /\ mappings' = IF InImage(paddr) /\ IsLiveMap(img[paddr])
                   THEN mappings \o MapEntries(img[paddr])
                   ELSE mappings
    /\ i' = i + 1
    /\ UNCHANGED <<img, overflowChecks, pc, boot, best, error>>

MapsDone ==
    /\ pc = "maps"
    /\ i >= boot.descBlocks
    /\ pc' = "reread"
    /\ UNCHANGED <<img, overflowChecks, boot, i, best, mappings, error>>

\* Fault: the re-read takes the bootstrap's length again.
RereadErrorShort ==
    IF ~InImage(best.paddr) THEN "Io"
    ELSE ParseResult(img[best.paddr], NX_MINIMUM_BLOCK_SIZE)

\* Re-reading the chosen superblock: past the end is an Io error here.
RereadError ==
    IF ~InImage(best.paddr) THEN "Io"
    ELSE ParseResult(img[best.paddr], boot.blockSize)

Reread ==
    /\ pc = "reread"
    /\ pc' = IF RereadError = "Ok" THEN "open" ELSE "failed"
    /\ error' = IF RereadError = "Ok" THEN "none" ELSE RereadError
    /\ UNCHANGED <<img, overflowChecks, boot, i, best, mappings>>

\* Any seek or read may fail with an error other than UnexpectedEof.
ReadFails ==
    /\ \/ pc \in {"block0", "reread"}
       \/ AtRingBlock("scan")
       \/ AtRingBlock("maps")
    /\ Fail("Io")

Finished == pc \in {"open", "failed"}

\* open has returned; nothing more happens.
Returned == Finished /\ UNCHANGED vars

Advance ==
    \/ Block0Missing \/ Block0Rejected \/ Block0Accepted
    \/ RingPanic \/ ScanBlock \/ NoSuperblock \/ ScanDone
    \/ MapBlock \/ MapsDone \/ Reread

Next == Advance \/ ReadFails \/ Returned

\* A sequential call runs until it returns.
Spec == Init /\ [][Next]_vars /\ WF_vars(Advance)

-----------------------------------------------------------------------------
\* The live superblock, the container's ephemeral objects

\* Fault: the last mapping of an oid wins.
ResolveEphemeralLast(oid) ==
    LET hits == {k \in DOMAIN mappings : mappings[k].oid = oid}
    IN  {mappings[k].paddr : k \in {h \in hits : \A g \in hits : g <= h}}

\* resolve_ephemeral: the first mapping of an oid; 0-or-1-element sequence.
ResolveEphemeral(oid) ==
    LET hits == {k \in DOMAIN mappings : mappings[k].oid = oid}
    IN  {mappings[k].paddr : k \in {h \in hits : \A g \in hits : h <= g}}

-----------------------------------------------------------------------------
\* Properties

\* Ring positions the two passes have to consider, and those of them that
\* hold a superblock passing every gate.
RingIndex == 0 .. boot.descBlocks - 1

Candidates(K) ==
    {k \in K : InImage(RingAddr(k)) /\ IsSuperblock(img[RingAddr(k)])}

MapIndexes(K) ==
    {k \in K : InImage(RingAddr(k)) /\ IsLiveMap(img[RingAddr(k)])}

\* Every variable stays in its type; error is set exactly on failure.
TypeOK ==
    /\ IsImage(img)
    /\ overflowChecks \in BOOLEAN
    /\ pc \in {"block0", "scan", "maps", "reread", "open", "failed"}
    /\ boot \in Geometry
    /\ i \in Nat
    /\ best \in [found : BOOLEAN, xid : Nat, paddr : Nat]
    /\ mappings \in Seq(Mapping)
    /\ error \in {"none", "NoValidSuperblock", "ChecksumMismatch",
                  "UnsupportedFusion", "CheckpointTreeUnsupported",
                  "FieldOutOfRange", "Io", "Panic"}
    /\ (error = "none") <=> (pc # "failed")

\* best describes the highest-xid superblock among ring positions K, the
\* first of them in ring order when several carry that xid.
BestOf(K) ==
    IF Candidates(K) = {} THEN ~best.found
    ELSE /\ best.found
         /\ \E k \in Candidates(K) :
              /\ best.paddr = RingAddr(k)
              /\ best.xid = img[RingAddr(k)].xid
              /\ \A j \in Candidates(K) :
                   /\ img[RingAddr(j)].xid <= best.xid
                   /\ (j < k => img[RingAddr(j)].xid < best.xid)

\* checkpoint.rs "choose the cksum-valid NX_SUPERBLOCK with the largest xid":
\* past the first pass the candidate is the best of the whole ring, whatever
\* torn, foreign, missing or older blocks surround it.
LiveIsHighest ==
    pc \in {"maps", "reread", "open"} => best.found /\ BestOf(RingIndex)

\* The entries that are really in the block at ring position k, within its
\* cpm_count and the cap; and whether its cpm_count points past them.
Listed(k) ==
    LET b == img[RingAddr(k)]
    IN  {b.maps[m] : m \in {m \in DOMAIN b.maps :
                              m <= b.count /\ m <= MAX_CPM_COUNT}}

Overlong(k) == img[RingAddr(k)].count > Len(img[RingAddr(k)].maps)

\* lib.rs "mappings from the live checkpoint map": an opened container holds
\* the entries of the map blocks that carry the live xid, and none of another
\* transaction or of a damaged block.  A lying cpm_count adds nothing but the
\* empty mapping, and no block contributes more than MAX_CPM_COUNT of them.
MappingsAreLive ==
    LET live == MapIndexes(RingIndex)
        got == {mappings[n] : n \in DOMAIN mappings}
        listed == UNION {Listed(k) : k \in live}
    IN  pc = "open" =>
          /\ listed \subseteq got
          /\ \A mp \in got \ listed :
                mp = ZeroMapping /\ \E k \in live : Overlong(k)
          /\ Len(mappings) <= MAX_CPM_COUNT * Cardinality(live)

\* What the map block at ring position k contributes.
RingEntries(k) == MapEntries(img[RingAddr(k)])

\* The ring order of map blocks decides which duplicate wins: an ephemeral
\* oid resolves to the paddr given by the earliest live map block naming it.
EarliestMapWins ==
    pc = "open" =>
        \A k \in MapIndexes(RingIndex) : \A m \in DOMAIN RingEntries(k) :
            LET Earlier(j, n) == j < k \/ (j = k /\ n < m)
                First == \A j \in MapIndexes(RingIndex) :
                            \A n \in DOMAIN RingEntries(j) :
                               Earlier(j, n) =>
                                 RingEntries(j)[n].oid # RingEntries(k)[m].oid
            IN  First => ResolveEphemeral(RingEntries(k)[m].oid)
                           = {RingEntries(k)[m].paddr}

\* checkpoint.rs "a loud bootstrap failure, never an empty Ok": once block
\* zero is accepted, NoValidSuperblock is reported only for a ring without
\* any acceptable superblock.
NoSuperblockIsTrue ==
    (pc = "failed" /\ error = "NoValidSuperblock" /\ boot # NoGeometry) =>
        Candidates(RingIndex) = {}

\* A container as its writer leaves it, perhaps cut short: block zero a
\* superblock sealed over its own block size, plain addressing, and among the
\* ring blocks that the image still holds a superblock.
Legal ==
    LET g == img[0].geo
        InRing(paddr) == paddr \in g.descBase .. g.descBase + g.descBlocks - 1
    IN  /\ InImage(0)
        /\ img[0].magic /\ img[0].cksum = g.blockSize
        /\ BlockSizeInRange(g.blockSize)
        /\ ~g.fusion /\ ~g.descTree
        /\ g.descBase + g.descBlocks <= AddrSpace
        /\ \E a \in DOMAIN img :
              /\ InRing(a)
              /\ img[a].kind = "nxsb" /\ img[a].magic
              /\ img[a].cksum = g.blockSize

\* No legal container of the minimum block size is refused: torn, stale or
\* cut-off neighbours in the ring never turn into an error of the whole open.
LegalOpens ==
    (pc = "failed" /\ Legal /\ img[0].geo.blockSize = NX_MINIMUM_BLOCK_SIZE)
        => error = "Io"

\* container.rs takes nx_block_size as "the authoritative block size (never
\* assumed)", "max 65536": legal containers of every such size open.
LegalOpensAtAnySize == (pc = "failed" /\ Legal) => error = "Io"

\* The two validations agree: a superblock the ring scan chose is never
\* refused by NxSuperblock::parse on the re-read; only the source can fail.
RereadAgrees ==
    [][pc = "reread" => (pc' = "open" \/ error' = "Io")]_vars

\* lib.rs: the reader "never panics on malformed input".
NeverPanics == error # "Panic"
=============================================================================
