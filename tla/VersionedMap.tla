----------------------------- MODULE VersionedMap -----------------------------
(***************************************************************************)
(* What an object map promises, without its B-tree: a set of entries       *)
(* (oid, xid) -> paddr in which one lookup answers, in one step, with the  *)
(* state of an object at or before a transaction.  ObjectMap implements    *)
(* it; the modules above it use Floor for ObjectMap::resolve.              *)
(***************************************************************************)
EXTENDS Naturals

\* Entries of `map` that describe `oid` no later than `xid`.
Versions(map, oid, xid) == {e \in map : e.oid = oid /\ e.xid <= xid}

\* The most recent of them: a set of one entry, empty when there is none.
Floor(map, oid, xid) ==
    {e \in Versions(map, oid, xid) :
        \A f \in Versions(map, oid, xid) : f.xid <= e.xid}

VARIABLES
    map,      \* the entries
    sound,    \* is every block of the map intact and in its place
    query,    \* what is asked: [oid, xid]
    answer    \* [status, entry], entry a set of at most one entry

vmVars == <<map, sound, query, answer>>

Pending == [status |-> "pending", entry |-> {}]
Failed(e) == [status |-> e, entry |-> {}]

\* The answer a sound map gives.
Resolved(m, q) ==
    IF Floor(m, q.oid, q.xid) = {} THEN Failed("OmapUnresolved")
    ELSE [status |-> "ok", entry |-> Floor(m, q.oid, q.xid)]

VMInit == answer = Pending

\* The one step: the right answer, or a failure of the source.  Of a map
\* that is not sound nothing is promised but that some answer comes.
Answer ==
    /\ answer = Pending
    /\ \/ answer' \in {Resolved(map, query), Failed("Io")}
       \/ ~sound /\ answer' # Pending
    /\ UNCHANGED <<map, sound, query>>

\* What may happen, and that it does happen.
VMSafety == VMInit /\ [][Answer]_vmVars

VMSpec == VMSafety /\ WF_vmVars(Answer)
=============================================================================
