-------------------------------- MODULE Reaper --------------------------------
(***************************************************************************)
(* pending_objects (reaper.rs): the objects that are deleted but still on  *)
(* disk.  The reaper names the one in progress and the first of a chain of *)
(* reap lists; lists are ephemeral, so each link is resolved through the   *)
(* mappings Container collected.  One step is one block read.              *)
(***************************************************************************)
EXTENDS Ephemeral

CONSTANT MAX_REAP_LISTS   \* reaper.rs: 4096

ASSUME ReapCapAssumption == MAX_REAP_LISTS \in Nat

\* Word positions; an entry is the object's type followed by its oid.
NR_HEAD == 3
NR_TYPE == 4
NR_OID == 5
NRL_NEXT == 3
NRL_COUNT == 4
NRL_ENTRIES == 5
NRLE_LEN == 2

VARIABLES
    seen,   \* oids of the lists entered
    out     \* pending objects so far

reaperVars == <<seen, out>>

ReaperInit == seen = {} /\ out = <<>>

-----------------------------------------------------------------------------
\* Operators

Pending(b, oidAt, typeAt) == [oid |-> Field(b, oidAt), type |-> Field(b, typeAt)]

\* nrl_count, capped by what fits in the block.
ListCount(b) ==
    LET room == (BlockWords - (NRL_ENTRIES - 1)) \div NRLE_LEN
    IN  IF Field(b, NRL_COUNT) < room THEN Field(b, NRL_COUNT) ELSE room

ListEntry(b, k) == Pending(b, NRL_ENTRIES + NRLE_LEN * (k - 1) + 1,
                              NRL_ENTRIES + NRLE_LEN * (k - 1))

\* The entries of a reap list; an empty slot has oid 0.
ListEntries(b) ==
    LET kept[k \in 0 .. ListCount(b)] ==
          IF k = 0 THEN <<>>
          ELSE IF ListEntry(b, k).oid = 0 THEN kept[k - 1]
          ELSE Append(kept[k - 1], ListEntry(b, k))
    IN  kept[ListCount(b)]

InProgress(b) ==
    IF Field(b, NR_OID) = 0 THEN <<>> ELSE <<Pending(b, NR_OID, NR_TYPE)>>

\* Block b lists the objects es, the k-th in slots[k] and every other slot
\* empty.
ListHolds(b, es, slots) ==
    LET n == Field(b, NRL_COUNT) IN
    /\ NRL_ENTRIES - 1 + NRLE_LEN * n <= BlockWords
    /\ slots \in [1 .. Len(es) -> 1 .. n]
    /\ \A k, m \in 1 .. Len(es) : k < m => slots[k] < slots[m]
    /\ \A k \in 1 .. Len(es) : es[k].oid # 0 /\ ListEntry(b, slots[k]) = es[k]
    /\ \A j \in 1 .. n :
          (\A k \in 1 .. Len(es) : slots[k] # j) => ListEntry(b, j).oid = 0

\* The oid of the k-th list of the queue; 0 behind the last.
ListOid(d, k) == IF k <= Len(d.lists) THEN d.lists[k].oid ELSE 0

\* The queue as a writer stores it: lists are its parts, in order, as [oid,
\* es, slots], and upto[k] counts what is queued in the first k of them and
\* in progress.
QueueStored(d) ==
    LET n == Len(d.lists)
        Stored(oid) == d.content[d.place[oid]]
    IN  /\ n \in Nat /\ d.queue \in Seq([oid : Word, type : Word])
        /\ d.upto \in [0 .. n -> 0 .. Len(d.queue)] /\ d.upto[n] = Len(d.queue)
        /\ \A oid \in {ReaperOid} \cup {ListOid(d, k) : k \in 1 .. n} :
              oid \in DOMAIN d.place /\ Sealed(d, d.place[oid])
        /\ Field(Stored(ReaperOid), NR_HEAD) = ListOid(d, 1)
        /\ InProgress(Stored(ReaperOid)) = SubSeq(d.queue, 1, d.upto[0])
        /\ \A k \in 1 .. n :
              /\ ListOid(d, k) # 0
              /\ Field(Stored(ListOid(d, k)), NRL_NEXT) = ListOid(d, k + 1)
              /\ d.upto[k - 1] <= d.upto[k]
              /\ d.lists[k].es = SubSeq(d.queue, d.upto[k - 1] + 1, d.upto[k])
              /\ ListHolds(Stored(ListOid(d, k)), d.lists[k].es, d.lists[k].slots)

ASSUME QueueAssumption == \A d \in Disks : d.sound => QueueStored(d)

-----------------------------------------------------------------------------
\* Actions

LocateReaper == Located("pending", ReaperOid, "reaper") /\ UNCHANGED reaperVars /\ Quiet

ReaperRejected ==
    /\ stage = "reaper"
    /\ ReadObj(at) # "Ok"
    /\ Refused(ReadObj(at))
    /\ UNCHANGED reaperVars /\ Quiet

ReadReaper ==
    /\ stage = "reaper"
    /\ ReadObj(at) = "Ok"
    /\ out' = InProgress(content[at])
    /\ Proceed("list", Field(content[at], NR_HEAD))
    /\ UNCHANGED seen /\ Quiet

\* seen is inserted into before its size is compared with the cap.
CapExceeded == at \in seen \/ Cardinality(seen) + 1 > MAX_REAP_LISTS

\* Fault: a list met again ends the chain.
ListGuardedQuietly ==
    /\ stage = "list" /\ at # 0
    /\ CapExceeded
    /\ Answered("Ok", out)
    /\ UNCHANGED reaperVars /\ Quiet

\* Fault: a list met again is retried for ever.
ListGuardedRetried ==
    /\ stage = "list" /\ at # 0
    /\ CapExceeded
    /\ UNCHANGED <<reaperVars, queryVars>> /\ Quiet

ListGuarded ==
    /\ stage = "list" /\ at # 0
    /\ CapExceeded
    /\ Refused("CycleGuard")
    /\ UNCHANGED reaperVars /\ Quiet

EnterList ==
    /\ stage = "list" /\ at # 0
    /\ ~CapExceeded
    /\ seen' = seen \cup {at}

ListUnmapped ==
    /\ EnterList
    /\ ResolveEphemeral(at) = {}
    /\ Refused("OmapUnresolved")
    /\ UNCHANGED out /\ Quiet

ListRejected ==
    /\ EnterList
    /\ \E paddr \in ResolveEphemeral(at) :
          ReadObj(paddr) # "Ok" /\ Refused(ReadObj(paddr))
    /\ UNCHANGED out /\ Quiet

ReadList ==
    /\ EnterList
    /\ \E paddr \in ResolveEphemeral(at) :
          /\ ReadObj(paddr) = "Ok"
          /\ out' = out \o ListEntries(content[paddr])
          /\ Proceed("list", Field(content[paddr], NRL_NEXT))
    /\ Quiet

ChainEnds ==
    /\ stage = "list" /\ at = 0
    /\ Answered("Ok", out)
    /\ UNCHANGED reaperVars /\ Quiet

ReaperStep ==
    \/ LocateReaper \/ ReaperRejected \/ ReadReaper \/ ListGuarded
    \/ ListUnmapped \/ ListRejected \/ ReadList \/ ChainEnds

-----------------------------------------------------------------------------
\* Properties

\* reaper.rs "the in-progress object plus every queued reap-list entry": the
\* chain through the first mapping of each oid gives all that was queued, in
\* that order, or an error; a lost word anywhere never shortens or alters it.
PendingIsQueue ==
    (call.op = "pending" /\ answer.status = "Ok" /\ disk.sound) =>
        answer.value = disk.queue

\* The list that follows list oid on the disk as written; 0 ends the chain.
NextList(oid) ==
    LET hit == {a \in ResolveEphemeral(oid) : a \in DOMAIN disk.content}
    IN  IF hit = {} THEN 0 ELSE Field(disk.content[CHOOSE a \in hit : TRUE], NRL_NEXT)

\* Where the links of a chain from oid on can lead.
Links(oid) == {0, oid} \cup {NextList(mappings[k].oid) : k \in DOMAIN mappings}

\* The chain from oid on: the least set with oid and with the successor of
\* each of its lists.
Chain(oid) ==
    {p \in Links(oid) : \A S \in SUBSET Links(oid) :
        (oid \in S /\ \A q \in S \ {0} : NextList(q) \in S) => p \in S}

Head1 == {Field(disk.content[a], NR_HEAD) :
             a \in ResolveEphemeral(ReaperOid) \cap DOMAIN disk.content}

\* The chain on disk never comes to an end: a list has one successor, so the
\* chain comes back to itself.
ChainLoops == \E o \in Head1 : 0 \notin Chain(o)

\* reaper.rs "a reap-list chain longer than this is a cyclic/corrupt graph":
\* a loop is never reported as a complete queue, and nothing but a loop or a
\* chain over the cap is reported as one.
LoopedQueueIsRefused ==
    (call.op = "pending" /\ stage = "done" /\ faults = {}) =>
        /\ answer.status = "Ok" => ~ChainLoops
        /\ answer.status = "CycleGuard" =>
             \/ ChainLoops
             \/ \E o \in Head1 : Cardinality(Chain(o) \ {0}) > MAX_REAP_LISTS
=============================================================================
