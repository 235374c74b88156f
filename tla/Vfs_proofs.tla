------------------------------ MODULE Vfs_proofs ------------------------------
(***************************************************************************)
(* For any number of workers, any volume and any set of calls: the shared  *)
(* cursor is private while the lock is held, every answer is the one the   *)
(* call gives when it runs alone, and a panic stops every later read.      *)
(***************************************************************************)
EXTENDS Vfs, TLAPS

Inside(w) == pc[w] \in {"seek", "read"}

\* The mutex: who is inside a core call holds it, and after a panic nobody is.
Exclusion ==
    /\ \A w \in Workers : Inside(w) => lock = w
    /\ poisoned => lock = NoWorker

\* What worker w will return if nothing interferes from here on.
Rest(w) ==
    IF walk[w] = 2 THEN Outcome[pos[w]] ELSE Continue(call[w], Outcome[pos[w]])

\* A call that waits or runs was not refused, and the way it still has to go
\* ends where the whole call would.
OnCourse ==
    \A w \in Workers :
        /\ pc[w] = "lock" \/ Inside(w) => Refusal(call[w]) = NoResult
        /\ Inside(w) =>
              /\ pos[w] \in DOMAIN Blocks
              /\ walk[w] = 2 => call[w].op \in TwoWalks
              /\ Rest(w) = Alone(call[w])

IInv == TypeOK /\ Exclusion /\ OwnBlock /\ OnCourse /\ SameAsAlone

\* Answers have the type of results.
LEMMA AnswerType ==
    ASSUME NEW s \in {"none", "ok", "Unsupported", "Bootstrap", "Io", "Decode",
                      "panicked"}, NEW d \in Nat
    PROVE  /\ Answer(s, d) \in Result
           /\ Answer(s, d).status = s
           /\ Answer(s, d).data = d
  BY DEF Answer, Result

\* A refusal is a result: none, unsupported or an empty lookup.
LEMMA RefusalType ==
    ASSUME NEW c \in Call
    PROVE  Refusal(c) \in Result
  BY AnswerType DEF Refusal, NoResult

\* Where a call starts lies in the volume.
LEMMA FirstType ==
    ASSUME NEW c \in Calls
    PROVE  /\ c \in Call
           /\ First[c.oid] \in DOMAIN Blocks
           /\ DOMAIN Blocks \subseteq Nat
  BY CallsAssumption, BlocksAssumption DEF Call

\* The two kinds of operation are disjoint.
LEMMA OpKinds ==
    ASSUME NEW c \in Call
    PROVE  c.op \in TwoWalks <=> c.op \notin OneWalk
  BY DEF Call, OneWalk, TwoWalks

\* Every step keeps the types.
LEMMA TypeStep ==
    ASSUME TypeOK, [Next]_vars
    PROVE  TypeOK'
<1>1. CASE UNCHANGED vars
  BY <1>1 DEF TypeOK, vars
<1>2. ASSUME NEW w \in Workers, Step(w) PROVE TypeOK'
  <2> USE <1>2 DEF TypeOK
  <2>1. CASE Refused(w)
    BY <2>1, RefusalType, CallsAssumption DEF Refused
  <2>2. CASE Begin(w)
    BY <2>2, AnswerType DEF Begin, NoResult
  <2>3. CASE LockPoisoned(w)
    BY <2>3, AnswerType DEF LockPoisoned
  <2>4. CASE Lock(w)
    BY <2>4, FirstType DEF Lock
  <2>5. CASE Seek(w)
    BY <2>5 DEF Seek
  <2>6. CASE ReadDamaged(w)
    BY <2>6, AnswerType DEF ReadDamaged, AtBlock, Leave
  <2>7. CASE ReadInner(w)
    BY <2>7, BlocksAssumption DEF ReadInner, AtBlock, GoTo
  <2>8. CASE ReadInode(w)
    BY <2>8, BlocksAssumption DEF ReadInode, AtEnd, AtBlock, GoTo
  <2>9. CASE InodeMissing(w)
    BY <2>9, AnswerType DEF InodeMissing, AtEnd, AtBlock, Leave
  <2>10. CASE ReadLast(w)
    <3>1. Blocks[cursor].data \in Nat
      BY <2>10, BlocksAssumption DEF ReadLast, AtEnd, AtBlock
    <3>2. QED
      BY <2>10, <3>1, AnswerType DEF ReadLast, AtEnd, AtBlock, Leave
  <2>11. CASE SourceFails(w)
    BY <2>11, AnswerType, BlocksAssumption DEF SourceFails, Leave
  <2>12. CASE SourcePanics(w)
    BY <2>12, AnswerType, BlocksAssumption DEF SourcePanics
  <2>13. QED
    BY <2>1, <2>2, <2>3, <2>4, <2>5, <2>6, <2>7, <2>8, <2>9, <2>10, <2>11,
       <2>12 DEF Step, Proceed
<1>3. QED
  BY <1>1, <1>2 DEF Next

\* The initial state satisfies the invariant: nobody is inside a call.
LEMMA InitIInv == Init => IInv
<1> SUFFICES ASSUME Init PROVE IInv
  OBVIOUS
<1>1. NoResult \in Result /\ NoResult.status = "none"
  BY AnswerType DEF NoResult
<1>2. TypeOK
  BY <1>1, CallsAssumption DEF Init, TypeOK
<1>3. \A w \in Workers : pc[w] = "idle" /\ result[w] = NoResult
  BY DEF Init
<1>4. Exclusion /\ OwnBlock /\ OnCourse
  BY <1>3 DEF Init, Exclusion, OwnBlock, OnCourse, Inside
<1>5. SameAsAlone
  BY <1>1, <1>3 DEF SameAsAlone
<1>6. QED
  BY <1>2, <1>4, <1>5 DEF IInv

\* A step of w that leaves the other workers' variables alone.
Others(w) ==
    \A v \in Workers \ {w} :
        /\ pc'[v] = pc[v] /\ call'[v] = call[v] /\ walk'[v] = walk[v]
        /\ pos'[v] = pos[v] /\ result'[v] = result[v]

\* No step of w touches what another worker keeps to itself.
LEMMA Locality ==
    ASSUME TypeOK, NEW w \in Workers, Step(w)
    PROVE  Others(w)
  BY DEF TypeOK, Step, Proceed, Refused, Begin, LockPoisoned, Lock, Seek,
     ReadDamaged, ReadInner, ReadInode, InodeMissing, ReadLast, SourceFails,
     SourcePanics, AtBlock, AtEnd, Leave, GoTo, Others

\* What a step of w does to the lock, the cursor and the mutex's poison, by
\* where w is: nothing outside, and only while w holds the lock inside.
LEMMA LockStep ==
    ASSUME TypeOK, Exclusion, NEW w \in Workers, Step(w)
    PROVE  /\ ~Inside(w) =>
                 /\ cursor' = cursor /\ poisoned' = poisoned
                 /\ \/ lock' = lock
                    \/ lock = NoWorker /\ ~poisoned /\ lock' = w
           /\ Inside(w) => lock = w /\ lock' \in {w, NoWorker}
           /\ Inside(w)' => lock' = w
           /\ poisoned' => lock' = NoWorker
  BY CallsAssumption
     DEF TypeOK, Exclusion, Inside, Step, Proceed, Refused, Begin, LockPoisoned,
     Lock, Seek, ReadDamaged, ReadInner, ReadInode, InodeMissing, ReadLast,
     SourceFails, SourcePanics, AtBlock, AtEnd, Leave, GoTo

\* The mutex excludes.
LEMMA ExclusionStep ==
    ASSUME TypeOK, Exclusion, NEW w \in Workers, Step(w)
    PROVE  Exclusion'
<1>1. ASSUME NEW v \in Workers, Inside(v)' PROVE lock' = v
  <2>1. CASE v = w
    BY <2>1, <1>1, LockStep
  <2>2. CASE v # w
    <3>1. Inside(v) /\ lock = v
      BY <1>1, <2>2, Locality DEF Others, Inside, Exclusion
    <3>2. QED
      BY <3>1, <2>2, LockStep, CallsAssumption
  <2>3. QED
    BY <2>1, <2>2
<1>2. QED
  BY <1>1, LockStep DEF Exclusion

\* The cursor stays where its holder put it until that holder has read.
LEMMA CursorStep ==
    ASSUME TypeOK, Exclusion, OwnBlock, NEW w \in Workers, Step(w)
    PROVE  OwnBlock'
<1> SUFFICES ASSUME NEW v \in Workers, pc'[v] = "read"
             PROVE  lock' = v /\ cursor' = pos'[v]
  BY DEF OwnBlock
<1>1. CASE v = w
  <2>1. Seek(w)
    BY <1>1 DEF TypeOK, Step, Proceed, Refused, Begin, LockPoisoned, Lock, Seek,
       ReadDamaged, ReadInner, ReadInode, InodeMissing, ReadLast, SourceFails,
       SourcePanics, AtBlock, AtEnd, Leave, GoTo
  <2>2. QED
    BY <1>1, <2>1 DEF Seek, TypeOK, Exclusion, Inside
<1>2. CASE v # w
  <2>1. pc[v] = "read" /\ pos'[v] = pos[v] /\ lock = v /\ cursor = pos[v]
    BY <1>2, Locality DEF Others, OwnBlock
  <2>2. ~Inside(w) /\ lock # NoWorker
    BY <2>1, <1>2, CallsAssumption DEF Exclusion
  <2>3. QED
    BY <2>1, <2>2, LockStep
<1>3. QED
  BY <1>1, <1>2

\* For the worker that steps: it stays on course, and what it returns is what
\* the whole call returns alone.
LEMMA CourseStep ==
    ASSUME IInv, TypeOK', NEW w \in Workers, Step(w)
    PROVE  /\ (pc[w] = "lock" \/ Inside(w))' => Refusal(call'[w]) = NoResult
           /\ Inside(w)' =>
                 /\ pos'[w] \in DOMAIN Blocks
                 /\ walk'[w] = 2 => call'[w].op \in TwoWalks
                 /\ Rest(w)' = Alone(call'[w])
           /\ result'[w].status \in {"ok", "Decode", "Unsupported"} =>
                 result'[w] = Alone(call'[w])
<1> DEFINE OK(c, r) ==
        r.status \in {"ok", "Decode", "Unsupported"} => r = Alone(c)
<1>t. TypeOK /\ call[w] \in Call /\ call[w] \in Calls /\ OK(call[w], result[w])
  BY FirstType DEF IInv, TypeOK, SameAsAlone
<1>s. /\ Answer("none", 0).status = "none" /\ Answer("Bootstrap", 0).status = "Bootstrap"
      /\ Answer("Io", 0).status = "Io" /\ Answer("panicked", 0).status = "panicked"
  BY AnswerType
<1>1. CASE Refused(w)
  <2>1. pc'[w] = "idle" /\ result'[w] = Refusal(call'[w]) /\ Refusal(call'[w]) # NoResult
    BY <1>1, <1>t DEF Refused, TypeOK
  <2>2. QED
    BY <2>1 DEF Inside, Alone
<1>2. CASE Begin(w)
  <2>1. /\ pc'[w] = "lock" /\ Refusal(call'[w]) = NoResult
        /\ result'[w] = Answer("none", 0)
    BY <1>2, <1>t DEF Begin, TypeOK, NoResult
  <2>2. QED
    BY <2>1, <1>s DEF Inside
<1>3. CASE LockPoisoned(w)
  <2>1. pc'[w] = "idle" /\ result'[w] = Answer("Bootstrap", 0)
    BY <1>3, <1>t DEF LockPoisoned, TypeOK
  <2>2. QED
    BY <2>1, <1>s DEF Inside
<1>4. CASE Lock(w)
  <2>1. /\ pc'[w] = "seek" /\ call'[w] = call[w] /\ result'[w] = result[w]
        /\ walk'[w] = 1 /\ pos'[w] = First[call[w].oid]
        /\ Refusal(call[w]) = NoResult
    BY <1>4, <1>t DEF Lock, TypeOK, IInv, OnCourse
  <2>2. Rest(w)' = Alone(call'[w])
    BY <2>1 DEF Rest, Alone
  <2>3. QED
    BY <2>1, <2>2, <1>t, FirstType
<1>5. CASE Seek(w)
  <2>1. /\ Inside(w) /\ call'[w] = call[w] /\ result'[w] = result[w]
        /\ walk'[w] = walk[w] /\ pos'[w] = pos[w]
    BY <1>5 DEF Seek, Inside
  <2>2. Rest(w)' = Rest(w)
    BY <2>1 DEF Rest
  <2>3. QED
    BY <2>1, <2>2, <1>t DEF IInv, OnCourse
<1>6. ASSUME AtBlock(w)
      PROVE  /\ Refusal(call[w]) = NoResult /\ cursor = pos[w]
             /\ cursor \in DOMAIN Blocks
             /\ walk[w] = 2 => call[w].op \in TwoWalks
             /\ Rest(w) = Alone(call[w])
             /\ walk[w] \in {1, 2}
  BY <1>6 DEF AtBlock, IInv, TypeOK, OwnBlock, OnCourse, Inside
<1>d. Answer("Decode", 0).status = "Decode"
  BY AnswerType
<1>7. CASE ReadDamaged(w)
  <2>1. /\ pc'[w] = "idle" /\ call'[w] = call[w]
        /\ result'[w] = Answer("Decode", 0)
    BY <1>7, <1>t DEF ReadDamaged, Leave, TypeOK
  <2>2. Outcome[pos[w]] = Answer("Decode", 0)
    BY <1>7, <1>6, OutcomeAssumption DEF ReadDamaged
  <2>3. Rest(w) = Answer("Decode", 0)
    BY <2>2, <1>d DEF Rest, Continue
  <2>4. QED
    BY <2>1, <2>3, <1>6, <1>7 DEF Inside, ReadDamaged
<1>8. CASE ReadInner(w)
  <2>1. /\ pc'[w] = "seek" /\ call'[w] = call[w] /\ result'[w] = result[w]
        /\ walk'[w] = walk[w] /\ pos'[w] = Blocks[cursor].next
    BY <1>8, <1>t DEF ReadInner, GoTo, TypeOK
  <2>2. Blocks[cursor].next \in DOMAIN Blocks
    BY <1>8, <1>6, BlocksAssumption DEF ReadInner
  <2>3. Outcome[pos[w]] = Outcome[pos'[w]]
    BY <2>1, <1>8, <1>6, OutcomeAssumption DEF ReadInner
  <2>4. Rest(w)' = Rest(w)
    BY <2>1, <2>3 DEF Rest
  <2>5. QED
    BY <2>1, <2>2, <2>4, <1>6, <1>8, <1>t DEF ReadInner
<1>9. ASSUME AtEnd(w)
      PROVE  /\ AtBlock(w) /\ Blocks[cursor].data \in Nat
             /\ Outcome[pos[w]] = Answer("ok", Blocks[cursor].data)
             /\ Answer("ok", Blocks[cursor].data).status = "ok"
             /\ Answer("ok", Blocks[cursor].data).data = Blocks[cursor].data
             /\ Blocks[cursor].data # 0 =>
                   First[Blocks[cursor].data] \in DOMAIN Blocks
  <2>1. AtBlock(w)
    BY <1>9 DEF AtEnd
  <2>2. /\ Blocks[cursor].data \in Nat
        /\ Blocks[cursor].data # 0 => First[Blocks[cursor].data] \in DOMAIN Blocks
    BY <2>1, BlocksAssumption DEF AtBlock
  <2>3. Outcome[pos[w]] = Answer("ok", Blocks[cursor].data)
    BY <2>1, <1>6, <1>9, OutcomeAssumption DEF AtEnd
  <2>4. QED
    BY <2>1, <2>2, <2>3, AnswerType
<1>10. CASE ReadInode(w)
  <2>1. /\ AtEnd(w) /\ pc'[w] = "seek" /\ call'[w] = call[w]
        /\ result'[w] = result[w] /\ walk'[w] = 2 /\ walk[w] = 1
        /\ call[w].op \in TwoWalks /\ Blocks[cursor].data # 0
        /\ pos'[w] = First[Blocks[cursor].data]
    BY <1>10, <1>t DEF ReadInode, Halfway, GoTo, TypeOK
  <2>2. Rest(w) = Outcome[First[Blocks[cursor].data]]
    BY <2>1, <1>9, <1>t, OpKinds DEF Rest, Continue
  <2>3. Rest(w)' = Rest(w)
    BY <2>1, <2>2 DEF Rest
  <2>4. QED
    BY <2>1, <2>3, <1>6, <1>9, <1>t
<1>11. CASE InodeMissing(w)
  <2>1. /\ AtEnd(w) /\ pc'[w] = "idle" /\ call'[w] = call[w] /\ walk[w] = 1
        /\ call[w].op \in TwoWalks /\ Blocks[cursor].data = 0
        /\ result'[w] = Answer("Decode", 0)
    BY <1>11, <1>t DEF InodeMissing, Halfway, Leave, TypeOK
  <2>2. Rest(w) = Answer("Decode", 0)
    BY <2>1, <1>9, <1>t, OpKinds DEF Rest, Continue
  <2>3. QED
    BY <2>1, <2>2, <1>6, <1>9 DEF Inside
<1>12. CASE ReadLast(w)
  <2>1. /\ AtEnd(w) /\ pc'[w] = "idle" /\ call'[w] = call[w]
        /\ walk[w] = 2 \/ call[w].op \in OneWalk
        /\ result'[w] = Answer("ok", Blocks[cursor].data)
    BY <1>12, <1>6, <1>9, <1>t, OpKinds
       DEF ReadLast, Halfway, Leave, TypeOK
  <2>2. Rest(w) = Answer("ok", Blocks[cursor].data)
    BY <2>1, <1>9 DEF Rest, Continue
  <2>3. QED
    BY <2>1, <2>2, <1>6, <1>9 DEF Inside
<1>13. CASE SourceFails(w)
  <2>1. pc'[w] = "idle" /\ result'[w] = Answer("Io", 0)
    BY <1>13, <1>t DEF SourceFails, Leave, TypeOK
  <2>2. QED
    BY <2>1, <1>s DEF Inside
<1>14. CASE SourcePanics(w)
  <2>1. pc'[w] = "dead" /\ result'[w] = Answer("panicked", 0)
    BY <1>14, <1>t DEF SourcePanics, TypeOK
  <2>2. QED
    BY <2>1, <1>s DEF Inside
<1>15. QED
  BY <1>1, <1>2, <1>3, <1>4, <1>5, <1>7, <1>8, <1>10, <1>11, <1>12, <1>13,
     <1>14 DEF Step, Proceed

\* The invariant is inductive.
LEMMA InductiveStep == IInv /\ [Next]_vars => IInv'
<1> SUFFICES ASSUME IInv, [Next]_vars PROVE IInv'
  OBVIOUS
<1>1. CASE UNCHANGED vars
  BY <1>1 DEF vars, IInv, TypeOK, Exclusion, OwnBlock, OnCourse, SameAsAlone,
     Inside, Rest
<1>2. ASSUME NEW w \in Workers, Step(w) PROVE IInv'
  <2>1. TypeOK'
    BY <1>2, TypeStep DEF IInv
  <2>2. Exclusion' /\ OwnBlock'
    BY <1>2, ExclusionStep, CursorStep DEF IInv
  <2>3. Others(w)
    BY <1>2, Locality DEF IInv
  <2>4. OnCourse'
    <3> SUFFICES ASSUME NEW v \in Workers
                 PROVE  /\ (pc[v] = "lock" \/ Inside(v))' => Refusal(call'[v]) = NoResult
                        /\ Inside(v)' =>
                              /\ pos'[v] \in DOMAIN Blocks
                              /\ walk'[v] = 2 => call'[v].op \in TwoWalks
                              /\ Rest(v)' = Alone(call'[v])
      BY DEF OnCourse
    <3>1. CASE v = w
      BY <3>1, <1>2, <2>1, CourseStep
    <3>2. CASE v # w
      <4>1. Rest(v)' = Rest(v) /\ Inside(v)' = Inside(v)
        BY <3>2, <2>3 DEF Others, Rest, Inside
      <4>2. QED
        BY <3>2, <4>1, <2>3 DEF Others, IInv, OnCourse
    <3>3. QED
      BY <3>1, <3>2
  <2>5. SameAsAlone'
    BY <1>2, <2>1, <2>3, CourseStep DEF SameAsAlone, Others, IInv
  <2>6. QED
    BY <2>1, <2>2, <2>4, <2>5 DEF IInv
<1>3. QED
  BY <1>1, <1>2 DEF Next

\* The invariant holds throughout.
THEOREM Invariance == Spec => []IInv
  BY InitIInv, InductiveStep, PTL DEF Spec

\* vfs.rs: every variable keeps its type, for any number of workers.
THEOREM TypeCorrect == Spec => []TypeOK
<1>1. IInv => TypeOK
  BY DEF IInv
<1>2. QED
  BY <1>1, Invariance, PTL

\* vfs.rs: the block a worker reads is the one it seeked to; no interleaving
\* of any number of workers moves the shared cursor in between.
THEOREM CursorIsPrivate == Spec => []OwnBlock
<1>1. IInv => OwnBlock
  BY DEF IInv
<1>2. QED
  BY <1>1, Invariance, PTL

\* vfs.rs: "one mounted handle backs N workers" - an answer never depends on
\* what the other workers do.
THEOREM WorkersAreIsolated == Spec => []SameAsAlone
<1>1. IInv => SameAsAlone
  BY DEF IInv
<1>2. QED
  BY <1>1, Invariance, PTL

\* vfs.rs, poisoned(): after a panic no call returns data from the source.
THEOREM PanicStopsReads == Spec => PoisonIsFinal
<1> DEFINE Silent ==
        \A w \in Workers :
            result'[w] # result[w] =>
              result'[w] \in {NoResult, Answer("Bootstrap", 0), Refusal(call'[w])}
<1>1. IInv /\ [Next]_vars => [poisoned => Silent]_vars
  <2> SUFFICES ASSUME IInv, NEW w \in Workers, Step(w), poisoned PROVE Silent
    BY DEF Next, vars
  <2>1. TypeOK /\ ~Inside(w)
    BY CallsAssumption DEF IInv, Exclusion
  <2>2. Refused(w) \/ Begin(w) \/ LockPoisoned(w) \/ Lock(w)
    BY <2>1 DEF Step, Proceed, Inside, Seek, ReadDamaged, ReadInner, ReadInode,
       InodeMissing, ReadLast, SourceFails, SourcePanics, AtBlock, AtEnd
  <2>3. \A v \in Workers \ {w} : result'[v] = result[v]
    BY <2>1, Locality DEF Others
  <2>4. \/ result'[w] = result[w]
        \/ result'[w] \in {NoResult, Answer("Bootstrap", 0), Refusal(call'[w])}
    BY <2>1, <2>2 DEF Refused, Begin, LockPoisoned, Lock, TypeOK
  <2>5. QED
    BY <2>3, <2>4
<1>2. QED
  BY <1>1, Invariance, PTL DEF Spec, PoisonIsFinal
=============================================================================
