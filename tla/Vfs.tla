--------------------------------- MODULE Vfs ---------------------------------
(***************************************************************************)
(* ApfsFs as a FileSystem (vfs.rs): one mounted handle that serves many    *)
(* workers over one Read + Seek source behind a Mutex.  Every apfs-core    *)
(* call is a chain of seek / read pairs in which what one block holds says *)
(* where the next one is, and the source has a single cursor: a seek of    *)
(* another worker between the two would silently change what is read.      *)
(* Workers interleave at every seek, every read and every lock operation.  *)
(*                                                                         *)
(* The volume is immutable and abstract: a walk starts at First[oid] and   *)
(* follows next until it is 0; the block there decides its outcome.        *)
(***************************************************************************)
EXTENDS Naturals

CONSTANTS
    Workers,    \* threads that share the handle
    Blocks,     \* address -> [next, data, sound]
    First,      \* oid -> address where the walk for that object starts
    Outcome,    \* address -> outcome of a walk from there, undisturbed
    RootXid,    \* ApfsFs.root_xid
    Calls,      \* calls a worker may make: [op, domain, oid, xid, plain]
    NoWorker    \* the lock is free

\* meta, extents and read_at load the inode and then read what it points to.
OneWalk == {"read_dir", "lookup"}
TwoWalks == {"meta", "extents", "read_at"}

\* plain: the default stream (extents, read_at), a UTF-8 name (lookup).
Call == [op : OneWalk \cup TwoWalks, domain : {"apfs", "foreign"},
         oid : DOMAIN First, xid : Nat, plain : BOOLEAN]

Result == [status : {"none", "ok", "Unsupported", "Bootstrap", "Io", "Decode",
                     "panicked"}, data : Nat]

\* next leads to another block or ends the walk; data 0 is a record not
\* found, another value the object a second walk starts from.
ASSUME BlocksAssumption ==
    /\ DOMAIN Blocks \subseteq Nat \ {0}
    /\ DOMAIN First \subseteq Nat \ {0}
    /\ \A a \in DOMAIN Blocks :
          /\ Blocks[a].next \in DOMAIN Blocks \cup {0}
          /\ Blocks[a].data \in DOMAIN First \cup {0}
          /\ Blocks[a].sound \in BOOLEAN
    /\ First \in [DOMAIN First -> DOMAIN Blocks]

ASSUME CallsAssumption ==
    Calls \subseteq Call /\ RootXid \in Nat /\ NoWorker \notin Workers

Answer(status, data) == [status |-> status, data |-> data]

\* Outcome is what following the chain alone gives: damage ends it at once.
ASSUME OutcomeAssumption ==
    /\ DOMAIN Outcome = DOMAIN Blocks
    /\ \A a \in DOMAIN Blocks :
          Outcome[a] = IF ~Blocks[a].sound THEN Answer("Decode", 0)
                       ELSE IF Blocks[a].next # 0 THEN Outcome[Blocks[a].next]
                       ELSE Answer("ok", Blocks[a].data)

VARIABLES
    lock,       \* holder of the reader mutex
    poisoned,   \* the mutex is poisoned
    cursor,     \* position of the source
    pc,         \* worker -> "idle", "lock", "seek", "read" or "dead"
    call,       \* worker -> its call
    walk,       \* worker -> 1 or 2: which walk of the call is under way
    pos,        \* worker -> block it wants next
    result      \* worker -> what its last call returned

vars == <<lock, poisoned, cursor, pc, call, walk, pos, result>>

NoResult == Answer("none", 0)

Init ==
    /\ lock = NoWorker
    /\ poisoned = FALSE
    /\ cursor = 0
    /\ pc = [w \in Workers |-> "idle"]
    /\ call \in [Workers -> Calls]
    /\ walk = [w \in Workers |-> 1]
    /\ pos = [w \in Workers |-> 0]
    /\ result = [w \in Workers |-> NoResult]

-----------------------------------------------------------------------------
\* Actions

\* oid_of, require_default_stream and the UTF-8 check of lookup come first.
Refusal(c) ==
    IF c.domain # "apfs" THEN Answer("Unsupported", 0)
    ELSE IF c.plain \/ c.op \in {"read_dir", "meta"} THEN NoResult
    ELSE IF c.op = "lookup" THEN Answer("ok", 0)
    ELSE Answer("Unsupported", 0)

Refused(w) ==
    \E c \in Calls :
        /\ pc[w] = "idle"
        /\ Refusal(c) # NoResult
        /\ call' = [call EXCEPT ![w] = c]
        /\ result' = [result EXCEPT ![w] = Refusal(c)]
        /\ UNCHANGED <<lock, poisoned, cursor, pc, walk, pos>>

Begin(w) ==
    \E c \in Calls :
        /\ pc[w] = "idle"
        /\ Refusal(c) = NoResult
        /\ call' = [call EXCEPT ![w] = c]
        /\ result' = [result EXCEPT ![w] = NoResult]
        /\ pc' = [pc EXCEPT ![w] = "lock"]
        /\ UNCHANGED <<lock, poisoned, cursor, walk, pos>>

\* reader.lock() on a poisoned mutex is a named error; the lock stays free.
LockPoisoned(w) ==
    /\ pc[w] = "lock"
    /\ lock = NoWorker
    /\ poisoned
    /\ result' = [result EXCEPT ![w] = Answer("Bootstrap", 0)]
    /\ pc' = [pc EXCEPT ![w] = "idle"]
    /\ UNCHANGED <<lock, poisoned, cursor, call, walk, pos>>

\* Fault: the lock is shared, as a reader-writer lock taken for reading.
LockShared(w) ==
    /\ pc[w] = "lock"
    /\ ~poisoned
    /\ lock' = w
    /\ pc' = [pc EXCEPT ![w] = "seek"]
    /\ walk' = [walk EXCEPT ![w] = 1]
    /\ pos' = [pos EXCEPT ![w] = First[call[w].oid]]
    /\ UNCHANGED <<poisoned, cursor, call, result>>

\* Fault: the guard is recovered from a poisoned lock.
LockIgnoringPoison(w) ==
    /\ pc[w] = "lock"
    /\ lock = NoWorker
    /\ lock' = w
    /\ pc' = [pc EXCEPT ![w] = "seek"]
    /\ walk' = [walk EXCEPT ![w] = 1]
    /\ pos' = [pos EXCEPT ![w] = First[call[w].oid]]
    /\ UNCHANGED <<poisoned, cursor, call, result>>

Lock(w) ==
    /\ pc[w] = "lock"
    /\ lock = NoWorker
    /\ ~poisoned
    /\ lock' = w
    /\ pc' = [pc EXCEPT ![w] = "seek"]
    /\ walk' = [walk EXCEPT ![w] = 1]
    /\ pos' = [pos EXCEPT ![w] = First[call[w].oid]]
    /\ UNCHANGED <<poisoned, cursor, call, result>>

Seek(w) ==
    /\ pc[w] = "seek"
    /\ cursor' = pos[w]
    /\ pc' = [pc EXCEPT ![w] = "read"]
    /\ UNCHANGED <<lock, poisoned, call, walk, pos, result>>

\* The call returns; the guard is dropped.
Leave(w, r) ==
    /\ result' = [result EXCEPT ![w] = r]
    /\ lock' = NoWorker
    /\ pc' = [pc EXCEPT ![w] = "idle"]
    /\ UNCHANGED <<call, walk, pos>>

AtBlock(w) == pc[w] = "read" /\ cursor \in DOMAIN Blocks /\ cursor' = cursor + 1

ReadDamaged(w) ==
    /\ AtBlock(w)
    /\ ~Blocks[cursor].sound
    /\ Leave(w, Answer("Decode", 0))
    /\ UNCHANGED poisoned

\* On to block a, still holding the lock.
GoTo(w, n, a) ==
    /\ walk' = [walk EXCEPT ![w] = n]
    /\ pos' = [pos EXCEPT ![w] = a]
    /\ pc' = [pc EXCEPT ![w] = "seek"]
    /\ UNCHANGED <<lock, poisoned, call, result>>

\* Fault: the same block is read again.
ReadInnerAgain(w) ==
    /\ AtBlock(w)
    /\ Blocks[cursor].sound
    /\ Blocks[cursor].next # 0
    /\ GoTo(w, walk[w], pos[w])

ReadInner(w) ==
    /\ AtBlock(w)
    /\ Blocks[cursor].sound
    /\ Blocks[cursor].next # 0
    /\ GoTo(w, walk[w], Blocks[cursor].next)

\* load_inode is done, the guard is kept for read_data and its like.
Halfway(w) == call[w].op \in TwoWalks /\ walk[w] = 1

AtEnd(w) == AtBlock(w) /\ Blocks[cursor].sound /\ Blocks[cursor].next = 0

ReadInode(w) ==
    /\ AtEnd(w)
    /\ Halfway(w)
    /\ Blocks[cursor].data # 0
    /\ GoTo(w, 2, First[Blocks[cursor].data])

\* Fault: a missing inode is answered as an empty success.
InodeMissingIsEmpty(w) ==
    /\ AtEnd(w)
    /\ Halfway(w)
    /\ Blocks[cursor].data = 0
    /\ Leave(w, Answer("ok", 0))
    /\ UNCHANGED poisoned

\* load_inode finds no record.
InodeMissing(w) ==
    /\ AtEnd(w)
    /\ Halfway(w)
    /\ Blocks[cursor].data = 0
    /\ Leave(w, Answer("Decode", 0))
    /\ UNCHANGED poisoned

ReadLast(w) ==
    /\ AtEnd(w)
    /\ ~Halfway(w)
    /\ Leave(w, Answer("ok", Blocks[cursor].data))
    /\ UNCHANGED poisoned

\* A seek or a read fails; where that leaves the cursor is up to the source.
SourceFails(w) ==
    /\ pc[w] \in {"seek", "read"}
    /\ cursor' \in DOMAIN Blocks \cup {0}
    /\ Leave(w, Answer("Io", 0))
    /\ UNCHANGED poisoned

\* The source panics: unwinding drops the guard and poisons the mutex.
SourcePanics(w) ==
    /\ pc[w] \in {"seek", "read"}
    /\ poisoned' = TRUE
    /\ cursor' \in DOMAIN Blocks \cup {0}
    /\ lock' = NoWorker
    /\ pc' = [pc EXCEPT ![w] = "dead"]
    /\ result' = [result EXCEPT ![w] = Answer("panicked", 0)]
    /\ UNCHANGED <<call, walk, pos>>

\* The steps of a call under way.
Proceed(w) ==
    \/ LockPoisoned(w) \/ Lock(w) \/ Seek(w)
    \/ ReadDamaged(w) \/ ReadInner(w) \/ ReadInode(w) \/ InodeMissing(w)
    \/ ReadLast(w)

Step(w) ==
    Refused(w) \/ Begin(w) \/ Proceed(w) \/ SourceFails(w) \/ SourcePanics(w)

Next == \E w \in Workers : Step(w)

\* A thread that can run does; the mutex promises no one a turn.
Spec == Init /\ [][Next]_vars /\ \A w \in Workers : WF_vars(Proceed(w))

-----------------------------------------------------------------------------
\* Properties

\* Every variable keeps its type.
TypeOK ==
    /\ lock \in Workers \cup {NoWorker}
    /\ poisoned \in BOOLEAN
    /\ cursor \in Nat
    /\ pc \in [Workers -> {"idle", "lock", "seek", "read", "dead"}]
    /\ call \in [Workers -> Calls]
    /\ walk \in [Workers -> {1, 2}]
    /\ pos \in [Workers -> Nat]
    /\ result \in [Workers -> Result]

\* Between a worker's seek and its read nobody moves the shared cursor: what
\* it reads is the block it asked for, however many workers there are.
OwnBlock ==
    \A w \in Workers : pc[w] = "read" => lock = w /\ cursor = pos[w]

\* What a call makes of the outcome of its first walk, and what it returns
\* when it runs alone.
Continue(c, one) ==
    IF c.op \in OneWalk \/ one.status # "ok" THEN one
    ELSE IF one.data = 0 THEN Answer("Decode", 0)
    ELSE Outcome[First[one.data]]

Alone(c) ==
    IF Refusal(c) # NoResult THEN Refusal(c)
    ELSE Continue(c, Outcome[First[c.oid]])

\* vfs.rs: "one mounted handle backs N workers".  A call that neither loses
\* the source nor meets a poisoned lock returns what it would return alone.
SameAsAlone ==
    \A w \in Workers :
        result[w].status \in {"ok", "Decode", "Unsupported"} =>
            result[w] = Alone(call[w])

\* A panic of one worker never lets another one read on over a source left in
\* an unknown state: from then on no call returns data read from it.
PoisonIsFinal ==
    [][poisoned => \A w \in Workers :
          result'[w] # result[w] =>
              result'[w] \in {NoResult, Answer("Bootstrap", 0), Refusal(call'[w])}]_vars

\* The lock is never kept: whoever has it, by error, panic or success, lets
\* it go.
LockComesBack == \A w \in Workers : (lock = w) ~> (lock # w)

\* vfs.rs: the xid is stamped into every FileId "so a reused oid at a
\* different xid is never confused with this snapshot".
ForeignXidIsRefused ==
    \A w \in Workers :
        (result[w].status = "ok" /\ result[w].data # 0) => call[w].xid = RootXid
=============================================================================
