------------------------------ MODULE Ephemeral ------------------------------
(***************************************************************************)
(* The queries an analyst makes of an opened container, up to what they    *)
(* share: the objects behind the checkpoint mappings, read at word level   *)
(* and checksummed before use (read_obj_block, spaceman.rs), and a medium  *)
(* that may spoil a word of them at any moment, between two reads of one   *)
(* query too.  Container opens the image first and never reads content.    *)
(*                                                                         *)
(* A disk is an image with the words of the blocks outside the ring.  Its  *)
(* other fields say what a writer encoded in them, and where: place gives  *)
(* the addresses of the ephemeral objects, queue and lists what the reaper *)
(* holds, alloc, blocks, cibs and bitmapOf the state of the space manager, *)
(* seal and keys the volume's protection.  sound says that it was done by  *)
(* the format; only the properties and what is assumed of disks look at    *)
(* those.                                                                  *)
(***************************************************************************)
EXTENDS Container, Fletcher, FiniteSets

CONSTANTS
    BlockWords,    \* words in a block: block_size / 4
    SpacemanOid,   \* nx_spaceman_oid
    ReaperOid,     \* nx_reaper_oid
    Disks,         \* disks that may be opened
    MaxFaults      \* bound: faults of the medium in a behaviour

IsDisk(d) ==
    /\ d.img \in Images
    /\ DOMAIN d.content \subseteq Nat
    /\ \A a \in DOMAIN d.content :
          d.content[a] \in Seq(Word) /\ Len(d.content[a]) = BlockWords
    /\ d.sound \in BOOLEAN

\* The block at a was written with its checksum.
Sealed(d, a) == a \in DOMAIN d.content /\ Verified(d.content[a])

\* The newest checkpoint on the disk puts each object of d.place there: among
\* the map blocks of that transaction, the first entry that names it.
Placed(d) ==
    LET g == d.img[0].geo
        Slot(k) == d.img[g.descBase + k]
        whole == {k \in 0 .. g.descBlocks - 1 :
                     g.descBase + k \in DOMAIN d.img /\ Slot(k).cksum = g.blockSize}
        supers == {k \in whole : Slot(k).kind = "nxsb" /\ Slot(k).magic}
        Maps(x) == {k \in whole : Slot(k).kind = "cpm" /\ Slot(k).xid = x}
        Names(k, m, oid) == /\ m \in DOMAIN MapEntries(Slot(k))
                            /\ MapEntries(Slot(k))[m].oid = oid
        First(k, m, oid, x) ==
            \A j \in Maps(x) : \A n \in DOMAIN MapEntries(Slot(j)) :
                Names(j, n, oid) => k < j \/ (k = j /\ m <= n)
    IN  /\ g.descBase + g.descBlocks <= AddrSpace
        /\ \E s \in supers :
             /\ \A t \in supers : Slot(t).xid <= Slot(s).xid
             /\ \A oid \in DOMAIN d.place : \E k \in Maps(Slot(s).xid) :
                  \E m \in DOMAIN MapEntries(Slot(k)) :
                     /\ Names(k, m, oid) /\ First(k, m, oid, Slot(s).xid)
                     /\ d.place[oid] = MapEntries(Slot(k))[m].paddr

\* pending_objects, is_block_free, IntegrityMeta::parse, read_keybag.
Call == [op : {"none", "pending", "free", "integrity", "keybag"}, arg : Nat]

ASSUME DiskAssumption == \A d \in Disks : IsDisk(d) /\ d.calls \subseteq Call
ASSUME PlaceAssumption == \A d \in Disks : d.sound => Placed(d)
ASSUME BlockWordsAssumption == BlockWords \in Nat /\ MaxFaults \in Nat

VARIABLES
    disk,      \* what was written
    content,   \* what the medium holds: block address -> words
    faults,    \* what the medium did to them: [addr, words]
    call,      \* the query that follows the open
    stage,     \* what is read next; "idle" before, "done" after
    at,        \* oid or address of what is read next
    answer     \* [status, value] returned

queryVars == <<call, stage, at, answer>>
ephemeralVars == <<disk, content, faults, queryVars>>

NoAnswer == [status |-> "none", value |-> <<>>]

EphemeralInit ==
    /\ disk \in Disks
    /\ img = disk.img
    /\ Init
    /\ content = disk.content
    /\ faults = {}
    /\ call \in disk.calls
    /\ stage = "idle"
    /\ at = 0
    /\ answer = NoAnswer

-----------------------------------------------------------------------------
\* The medium

\* A flipped bit, a word stuck at zeros or at ones.  Zeros and ones are equal
\* modulo Mod, so the one change the checksum cannot see is left out.
Flip(v, k) == IF (v \div 2 ^ k) % 2 = 0 THEN v + 2 ^ k ELSE v - 2 ^ k

Damaged(v) ==
    {w \in Word \cap ({Flip(v, k) : k \in 0 .. WordBits - 1} \cup {0, Mod}) :
        w # v /\ {v, w} # {0, Mod}}

\* A query reads no block twice: losing a word of a block is the same at any
\* time before that block is read, and it happens here when it is next.
ReadNext ==
    CASE stage \in {"idle", "done"} -> {}
      [] stage = "list" -> ResolveEphemeral(at)
      [] OTHER -> {at}

FaultAt(a, words, b) ==
    /\ Cardinality(faults) < MaxFaults
    /\ content' = [content EXCEPT ![a] = b]
    /\ faults' = faults \cup {[addr |-> a, words |-> words]}
    /\ UNCHANGED <<vars, disk, queryVars>>

LoseWord ==
    \E a \in ReadNext \cap DOMAIN content : \E k \in 1 .. BlockWords :
        \E w \in Damaged(content[a][k]) :
            FaultAt(a, {k}, [content[a] EXCEPT ![k] = w])

\* Two neighbouring words change places.
SwapWords ==
    \E a \in ReadNext \cap DOMAIN content : \E k \in 3 .. BlockWords - 1 :
        LET b == content[a] IN
        /\ b[k + 1] # b[k] /\ {b[k], b[k + 1]} # {0, Mod}
        /\ FaultAt(a, {k, k + 1}, [b EXCEPT ![k] = b[k + 1], ![k + 1] = b[k]])

-----------------------------------------------------------------------------
\* What every query does

\* read_obj_block: the outcome of reading paddr, apart from a failing source.
ReadObj(paddr) ==
    IF paddr \notin DOMAIN content THEN "Io"
    ELSE IF ~Verified(content[paddr]) THEN "ChecksumMismatch"
    ELSE "Ok"

Answered(status, value) ==
    /\ stage' = "done"
    /\ answer' = [status |-> status, value |-> value]
    /\ UNCHANGED <<call, at>>

Refused(status) == Answered(status, <<>>)

\* On to the object at x.
Proceed(s, x) ==
    /\ stage' = s
    /\ at' = x
    /\ UNCHANGED <<call, answer>>

\* spaceman_paddr, reaper_paddr: the caller has nothing to ask if unmapped.
Located(op, oid, s) ==
    /\ pc = "open" /\ stage = "idle" /\ call.op = op
    /\ \/ \E paddr \in ResolveEphemeral(oid) : Proceed(s, paddr)
       \/ ResolveEphemeral(oid) = {} /\ Refused("None")

Quiet == UNCHANGED <<vars, disk, content, faults>>
=============================================================================
