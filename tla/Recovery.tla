------------------------------ MODULE Recovery ------------------------------
(***************************************************************************)
(* Container composed with what fills the ring: a file system that writes  *)
(* checkpoints and may lose power between, or in the middle of, any two    *)
(* block writes.  The writer is external to this code base; it is modelled *)
(* from what resolve_live_checkpoint relies on.  A checkpoint is a run of  *)
(* checkpoint-map blocks closed by a superblock, all of one xid, at the    *)
(* ring positions after the previous checkpoint; it exists once its        *)
(* superblock is whole.  After a power loss the writer resumes behind the  *)
(* last complete checkpoint, with the transaction id that follows it.      *)
(***************************************************************************)
EXTENDS Container

CONSTANTS
    RingSize,      \* nx_xp_desc_blocks
    MaxMaps,       \* most checkpoint-map blocks in one checkpoint
    MaxXid,        \* bound: last transaction the writer starts
    MaxCrashes     \* bound: power losses in a behaviour

\* The superblock of the last complete checkpoint, and its maps, are out of
\* the way of the next one; a map block has room for an entry.
ASSUME RingAssumption ==
    /\ MaxMaps \in Nat \ {0} /\ MaxXid \in Nat /\ MaxCrashes \in Nat
    /\ MAX_CPM_COUNT >= 1
    /\ RingSize \in Nat /\ RingSize >= 2 * (MaxMaps + 1)
    /\ RingSize < AddrSpace

VARIABLES
    plan,        \* blocks of the checkpoint being written, still to write
    pending,     \* the mappings of that checkpoint
    slot,        \* ring position the next block goes to
    attempt,     \* number of checkpoints started; tells their mappings apart
    committed,   \* last complete checkpoint: xid, address, mappings
    crashes

writerVars == <<plan, pending, slot, attempt, committed, crashes>>
readerVars == <<overflowChecks, pc, boot, i, best, mappings, error>>

RingGeo == [blockSize |-> NX_MINIMUM_BLOCK_SIZE, fusion |-> FALSE,
            descTree |-> FALSE, descBase |-> 1, descBlocks |-> RingSize]

Whole(kind, xid, maps) ==
    [kind |-> kind, magic |-> kind = "nxsb", cksum |-> NX_MINIMUM_BLOCK_SIZE,
     xid |-> xid, geo |-> RingGeo, count |-> Len(maps), maps |-> maps]

\* A map block that places ephemeral object m.
MapOf(xid, att, m) ==
    Whole("cpm", xid, <<[oid |-> m, paddr |-> 100 * att + m]>>)

\* A block whose write was cut off: header on disk, checksum not right.
Torn(b) == [b EXCEPT !.cksum = 0]

FreshImage ==
    [a \in 0 .. RingSize |->
        CASE a = 0 -> Whole("nxsb", 1, <<>>)
          [] a = 1 -> MapOf(1, 1, 1)
          [] a = 2 -> Whole("nxsb", 1, <<>>)
          [] OTHER -> Torn(Whole("other", 0, <<>>))]

RecoveryInit ==
    /\ img = FreshImage
    /\ overflowChecks = TRUE
    /\ pc = "down"
    /\ boot = NoGeometry /\ i = 0 /\ best = NoCandidate
    /\ mappings = <<>> /\ error = "none"
    /\ plan = <<>> /\ pending = {} /\ slot = 2 /\ attempt = 1
    /\ committed = [xid |-> 1, paddr |-> 2,
                    maps |-> {MapOf(1, 1, 1).maps[1]}]
    /\ crashes = 0

-----------------------------------------------------------------------------
\* The writer (external)

SlotAddr(s) == 1 + (s % RingSize)

\* The orders in which n map blocks may place the objects 1 .. n.
Orders(n) ==
    {f \in [1 .. n -> 1 .. n] : \A m \in 1 .. n : \E k \in 1 .. n : f[k] = m}

BeginCheckpoint ==
    /\ pc = "down"
    /\ plan = <<>>
    /\ committed.xid < MaxXid
    /\ \E n \in 1 .. MaxMaps : \E order \in Orders(n) :
         LET xid == committed.xid + 1
             maps == [m \in 1 .. n |-> MapOf(xid, attempt + 1, order[m])]
         IN  /\ plan' = Append(maps, Whole("nxsb", xid, <<>>))
             /\ pending' = {maps[m].maps[1] : m \in 1 .. n}
    /\ attempt' = attempt + 1
    /\ UNCHANGED <<img, readerVars, slot, committed, crashes>>

WriteBlock ==
    /\ pc = "down"
    /\ plan # <<>>
    /\ img' = [img EXCEPT ![SlotAddr(slot)] = Head(plan)]
    /\ plan' = Tail(plan)
    /\ slot' = (slot + 1) % RingSize
    /\ committed' = IF Head(plan).kind = "nxsb"
                    THEN [xid |-> Head(plan).xid, paddr |-> SlotAddr(slot),
                          maps |-> pending]
                    ELSE committed
    /\ UNCHANGED <<readerVars, pending, attempt, crashes>>

\* Power is lost, the block under way possibly torn; then the reader is
\* pointed at what is on disk.
PowerLoss ==
    /\ pc = "down"
    /\ crashes < MaxCrashes
    /\ img' \in {img} \cup
                (IF plan = <<>> THEN {}
                 ELSE {[img EXCEPT ![SlotAddr(slot)] = Torn(Head(plan))]})
    /\ plan' = <<>>
    /\ slot' = committed.paddr % RingSize   \* the position after it
    /\ crashes' = crashes + 1
    /\ pc' = "block0"
    /\ UNCHANGED <<overflowChecks, boot, i, best, mappings, error, pending,
                   attempt, committed>>

\* The reader has returned; the file system is mounted for writing again.
Remount ==
    /\ Finished
    /\ pc' = "down"
    /\ boot' = NoGeometry /\ i' = 0 /\ best' = NoCandidate
    /\ mappings' = <<>> /\ error' = "none"
    /\ UNCHANGED <<img, overflowChecks, writerVars>>

Read == (Advance \/ ReadFails) /\ UNCHANGED writerVars

\* Both bounds are spent: no checkpoint and no power loss is left.
Exhausted ==
    /\ pc = "down" /\ plan = <<>>
    /\ committed.xid = MaxXid /\ crashes = MaxCrashes
    /\ UNCHANGED <<vars, writerVars>>

RecoveryNext ==
    \/ BeginCheckpoint \/ WriteBlock \/ PowerLoss \/ Remount \/ Read \/ Exhausted

RecoverySpec == RecoveryInit /\ [][RecoveryNext]_<<vars, writerVars>>

-----------------------------------------------------------------------------
\* Properties

MappingSet == {mappings[k] : k \in DOMAIN mappings}

\* The block at a is a whole map of the committed xid that names mp's oid.
Names(a, mp) ==
    /\ img[a].kind = "cpm" /\ img[a].cksum = NX_MINIMUM_BLOCK_SIZE
    /\ img[a].xid = committed.xid
    /\ img[a].maps[1].oid = mp.oid

\* A map block of an abandoned attempt at the committed transaction places
\* mp's object elsewhere, and stands in the ring before the map that holds mp.
Shadowed(mp) ==
    \E a, c \in 1 .. RingSize :
        /\ a < c
        /\ Names(a, mp) /\ img[a].maps[1] \notin committed.maps
        /\ Names(c, mp) /\ img[c].maps[1] = mp

\* Wherever power was lost, the live superblock the reader settles on is that
\* of the last complete checkpoint, never a torn or an older one.  Every
\* ephemeral object of that checkpoint is among the mappings and resolves to
\* its place there, unless a map left by an abandoned attempt at the same
\* transaction comes before it in the ring: the reader knows the maps of a
\* checkpoint by their xid alone (checkpoint.rs, second pass; resolve_ephemeral).
RecoversLastCheckpoint ==
    /\ pc \in {"maps", "reread", "open"} =>
         best.xid = committed.xid /\ best.paddr = committed.paddr
    /\ pc = "open" =>
         \A mp \in committed.maps :
            /\ mp \in MappingSet
            /\ ResolveEphemeral(mp.oid) = {mp.paddr} \/ Shadowed(mp)

\* A power loss never makes the container unreadable: only the source fails.
CrashNeverBlocksOpen == pc = "failed" => error = "Io"
=============================================================================
