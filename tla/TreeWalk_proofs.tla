--------------------------- MODULE TreeWalk_proofs ---------------------------
(***************************************************************************)
(* For every tree, depth cap and walk: the walks are type correct, hand    *)
(* over only records of checksummed leaves, and, in a well-formed tree,    *)
(* hand over in key order exactly the wanted records although the keyed    *)
(* walk passes over most of the tree.  The loop guard raises no false      *)
(* alarm in a well-formed tree that the cap covers, and no walk that has   *)
(* met a loop is reported as complete.                                     *)
(***************************************************************************)
EXTENDS TreeWalk, TLAPS, WellFoundedInduction

Ref == [oid : Nat, phys : BOOLEAN, depth : 0 .. MAX_DEPTH, kept : BOOLEAN]

\* The leaf records a reference leads to.
UnderRef(ref) == UNION {tree.below[a] : a \in Addr(tree, ref)}

\* Every reference on the stack leads to a node of the tree.
StackResolves ==
    \A k \in DOMAIN stack :
        /\ Addr(tree, stack[k]) # {}
        /\ Addr(tree, stack[k]) \subseteq DOMAIN tree.nodes

\* What lies under the stack is part of the tree, in key order from the first
\* reference to the last, and behind everything handed over.
StackInOrder ==
    /\ \A k \in DOMAIN stack : UnderRef(stack[k]) \subseteq All
    /\ \A k, m \in DOMAIN stack : k < m =>
          \A r \in UnderRef(stack[k]), s \in UnderRef(stack[m]) : KeyLess(r, s)
    /\ \A j \in DOMAIN out, k \in DOMAIN stack :
          \A r \in UnderRef(stack[k]) : KeyLess(out[j], r)

\* No wanted record is lost: it is handed over or still to come.
NothingLost ==
    \A r \in All : Wanted(r) =>
        \/ r \in Delivered
        \/ \E k \in DOMAIN stack : stack[k].kept /\ r \in UnderRef(stack[k])

\* What is handed over is part of the tree and in key order.
OutInOrder ==
    /\ Delivered \subseteq All
    /\ \A k, m \in DOMAIN out : k < m => KeyLess(out[k], out[m])

\* The invariant of a walk of a well-formed tree.
WalkInv ==
    WellFormed(tree, walk) =>
        /\ OutInOrder
        /\ status = "start" => out = <<>>
        /\ status = "walking" => StackResolves /\ StackInOrder /\ NothingLost
        /\ status = "ok" => \A r \in All : Wanted(r) => r \in Delivered

-----------------------------------------------------------------------------
\* Key order, addressing and pruning

\* A record before a key and one not before it are in order.
LEMMA KeyOrder ==
    ASSUME NEW r \in Record, NEW s \in Record, NEW e \in Record,
           KeyLess(r, e), ~KeyLess(s, e)
    PROVE  KeyLess(r, s)
BY DEF Record, KeyLess

\* A reference of a map with unique keys leads to one block.
LEMMA OneAddress ==
    ASSUME IsTree(tree),
           NEW ref, NEW a \in Addr(tree, ref), NEW b \in Addr(tree, ref)
    PROVE  a = b
<1>1. CASE ref.phys
  BY <1>1 DEF Addr
<1>2. CASE ~ref.phys
  <2>1. PICK e \in VM!Floor(tree.map, ref.oid, tree.xid) : a = e.paddr
    BY <1>2 DEF Addr
  <2>2. PICK f \in VM!Floor(tree.map, ref.oid, tree.xid) : b = f.paddr
    BY <1>2 DEF Addr
  <2>3. /\ e \in tree.map /\ f \in tree.map /\ e.oid = f.oid
        /\ e.xid <= f.xid /\ f.xid <= e.xid
    BY DEF VM!Floor, VM!Versions
  <2>4. e.xid \in Nat /\ f.xid \in Nat
    BY <2>3 DEF IsTree
  <2> QED
    BY <2>1, <2>2, <2>3, <2>4 DEF IsTree, KeysAreUnique
<1> QED
  BY <1>1, <1>2

\* So what lies under a reference is what lies under the node it leads to.
LEMMA UnderNode ==
    ASSUME IsTree(tree),
           NEW ref, NEW a \in Addr(tree, ref)
    PROVE  UnderRef(ref) = tree.below[a]
<1>1. Addr(tree, ref) = {a}
  BY OneAddress
<1> QED
  BY <1>1 DEF UnderRef

\* The records under entry k of a node with entries es.
UnderEntry(es, k) == UNION {tree.below[c] : c \in ChildAddr(tree, walk, es[k])}

\* A child reference leads where its entry does.
LEMMA ChildRefAddr ==
    ASSUME NEW es, NEW k, NEW d
    PROVE  /\ Addr(tree, ChildRef(es, k, d)) = ChildAddr(tree, walk, es[k])
           /\ UnderRef(ChildRef(es, k, d)) = UnderEntry(es, k)
BY DEF Addr, ChildAddr, ChildRef, UnderRef, UnderEntry

\* An index node of a well-formed tree, in terms of UnderEntry.
LEMMA IndexNode ==
    ASSUME IsTree(tree), WellFormed(tree, walk), NEW a \in DOMAIN tree.nodes,
           ~tree.nodes[a].leaf
    PROVE  LET es == tree.nodes[a].entries IN
           /\ es \in Seq(Record)
           /\ tree.below[a] \subseteq Record
           /\ tree.below[a] = UNION {UnderEntry(es, k) : k \in DOMAIN es}
           /\ \A k \in DOMAIN es :
                /\ ChildAddr(tree, walk, es[k]) # {}
                /\ ChildAddr(tree, walk, es[k]) \subseteq DOMAIN tree.nodes
                /\ es[k] \in Record
                /\ UnderEntry(es, k) \subseteq tree.below[a]
                /\ \A r \in UnderEntry(es, k) : ~KeyLess(r, es[k])
                /\ \A m \in DOMAIN es : m > k =>
                     \A r \in UnderEntry(es, k) : KeyLess(r, es[m])
                /\ UnderEntry(es, k) # {}
                /\ \A c \in ChildAddr(tree, walk, es[k]) :
                     tree.height[c] < tree.height[a]
<1> DEFINE es == tree.nodes[a].entries
<1>1. NodeWellFormed(tree, walk, a)
  BY DEF WellFormed
<1>2. tree.nodes[a] \in Node
  BY DEF IsTree
<1>3. es \in Seq(Record)
  BY <1>2 DEF Node
<1>4. \A k \in DOMAIN es : es[k] \in Record
  BY <1>3
<1>5. /\ tree.below[a] \subseteq Record
      /\ tree.below[a] = UNION {UnderEntry(es, k) : k \in DOMAIN es}
      /\ \A k \in DOMAIN es :
           /\ ChildAddr(tree, walk, es[k]) # {}
           /\ ChildAddr(tree, walk, es[k]) \subseteq DOMAIN tree.nodes
           /\ \A r \in UnderEntry(es, k) : ~KeyLess(r, es[k])
           /\ \A m \in DOMAIN es : m > k =>
                \A r \in UnderEntry(es, k) : KeyLess(r, es[m])
           /\ UnderEntry(es, k) # {}
           /\ \A c \in ChildAddr(tree, walk, es[k]) :
                tree.height[c] < tree.height[a]
  BY <1>1 DEF NodeWellFormed, UnderEntry
<1> HIDE DEF es
<1>6. \A k \in DOMAIN es : UnderEntry(es, k) \subseteq tree.below[a]
  BY <1>5
<1> QED
  BY <1>3, <1>4, <1>5, <1>6 DEF es

\* child_may_contain_oid never turns down a child with a wanted record, the
\* last of its object just before the next separator included (dir.rs).
LEMMA WantedIsKept ==
    ASSUME TypeOK, WellFormed(tree, walk), NEW a \in DOMAIN tree.nodes,
           ~tree.nodes[a].leaf, NEW k \in DOMAIN tree.nodes[a].entries,
           NEW r \in UnderEntry(tree.nodes[a].entries, k), Wanted(r)
    PROVE  Kept(tree.nodes[a].entries, k)
<1> DEFINE es == tree.nodes[a].entries
<1>1. IsTree(tree) /\ walk \in Walk
  BY DEF TypeOK
<1>2. /\ es \in Seq(Record) /\ es[k] \in Record /\ r \in Record
      /\ ~KeyLess(r, es[k])
      /\ \A m \in DOMAIN es : m > k => es[m] \in Record /\ KeyLess(r, es[m])
  BY <1>1, IndexNode
<1> HIDE DEF es
<1>3. SUFFICES ASSUME walk.keyed
               PROVE  ChildMayContainOid(es, k, walk.target)
  BY DEF Kept, es
<1>4. r.oid = walk.target
  BY <1>3 DEF Wanted
<1>5. es[k].oid <= walk.target
  BY <1>2, <1>4 DEF KeyLess, Record
<1>6. ASSUME k < Len(es) PROVE es[k + 1].oid >= walk.target
  <2>1. k + 1 \in DOMAIN es /\ k + 1 > k
    BY <1>2, <1>6 DEF es
  <2>2. es[k + 1] \in Record /\ KeyLess(r, es[k + 1])
    BY <1>2, <2>1
  <2> QED
    BY <1>2, <1>4, <2>2 DEF KeyLess, Record
<1> QED
  BY <1>5, <1>6 DEF ChildMayContainOid

-----------------------------------------------------------------------------
\* Type correctness

\* The references an index node pushes are references.
LEMMA ChildRefs ==
    ASSUME TypeOK, Enter, NEW a \in DOMAIN tree.nodes
    PROVE  LET es == tree.nodes[a].entries
               d == Head(stack).depth + 1
               kids == [k \in 1 .. Len(es) |-> ChildRef(es, k, d)]
           IN  kids \in Seq(Ref) /\ Len(kids) = Len(es)
<1> DEFINE es == tree.nodes[a].entries
           d == Head(stack).depth + 1
           kids == [k \in 1 .. Len(es) |-> ChildRef(es, k, d)]
<1>1. tree.nodes[a] \in Node
  BY DEF TypeOK, IsTree
<1>2. es \in Seq(Record)
  BY <1>1 DEF Node
<1>3. Head(stack) \in Ref
  <2>1. stack \in Seq(Ref) /\ stack # <<>>
    BY DEF TypeOK, Enter, AtNode, Ref
  <2> QED
    BY <2>1
<1>4. d \in 0 .. MAX_DEPTH
  BY <1>3, DepthAssumption DEF Enter, Ref
<1>5. ASSUME NEW k \in 1 .. Len(es) PROVE ChildRef(es, k, d) \in Ref
  <2>1. es[k].value \in Nat
    <3> HIDE DEF es
    <3>1. es[k] \in Record
      BY <1>2
    <3> QED
      BY <3>1 DEF Record
  <2>2. Kept(es, k) \in BOOLEAN /\ (walk.kind = "phys") \in BOOLEAN
    BY DEF Kept
  <2> QED
    BY <1>4, <2>1, <2>2 DEF ChildRef, Ref
<1>6. kids \in [1 .. Len(es) -> Ref] /\ Len(es) \in Nat
  BY <1>2, <1>5
<1> HIDE DEF kids
<1>7. kids \in Seq(Ref) /\ Len(kids) = Len(es)
  BY <1>6
<1> QED
  BY <1>7 DEF kids

\* Every step of a walk, a return and an error included, keeps the types.
LEMMA TypeStep == TypeOK /\ [Next]_vars => TypeOK'
<1> SUFFICES ASSUME TypeOK, [Next]_vars PROVE TypeOK'
  OBVIOUS
<1>0. /\ IsTree(tree) /\ walk \in Walk /\ stack \in Seq(Ref)
      /\ visited \subseteq Nat /\ out \in Seq(Record)
  BY DEF TypeOK, Ref
<1>a. SUFFICES /\ tree' = tree /\ walk' = walk /\ stack' \in Seq(Ref)
               /\ visited' \subseteq Nat /\ out' \in Seq(Record)
               /\ status' \in {"start", "walking", "ok", "OmapUnresolved",
                     "CycleGuard", "ChecksumMismatch", "UnexpectedObjectType",
                     "Io"}
  BY <1>0 DEF TypeOK, Ref
<1>b. ASSUME Enter PROVE visited' \subseteq Nat /\ Head(stack) \in Ref
  <2>1. stack # <<>> /\ visited' = visited \cup {Head(stack).oid}
    BY <1>b DEF Enter, AtNode
  <2>2. Head(stack) \in Ref
    BY <1>0, <2>1
  <2>3. Head(stack).oid \in Nat
    BY <2>2 DEF Ref
  <2> QED
    BY <1>0, <2>1, <2>2, <2>3
<1>c. stack # <<>> => Tail(stack) \in Seq(Ref)
  BY <1>0
<1>1. CASE HeaderRejected
  BY <1>0, <1>1 DEF HeaderRejected, Return, TypeOK, IsTree
<1>2. CASE HeaderUnreadable
  BY <1>0, <1>2 DEF HeaderUnreadable, Return
<1>3. CASE Begin
  <2>1. RootRef \in Ref
    <3>1. tree.root \in Nat /\ (walk.kind # "fs") \in BOOLEAN
      BY <1>0 DEF IsTree
    <3> QED
      BY <3>1, DepthAssumption DEF RootRef, Ref
  <2> QED
    BY <1>0, <1>3, <2>1 DEF Begin
<1>4. CASE Prune
  BY <1>0, <1>c, <1>4 DEF Prune, TypeOK
<1>5. CASE TooDeep
  BY <1>0, <1>5 DEF TooDeep, Return
<1>6. CASE Seen
  BY <1>0, <1>6 DEF Seen, Return
<1>7. CASE Unresolved
  BY <1>0, <1>b, <1>7 DEF Unresolved, Return
<1>8. CASE Skip
  BY <1>0, <1>b, <1>c, <1>8 DEF Skip, Enter, AtNode, TypeOK
<1>9. CASE Unreadable
  BY <1>0, <1>b, <1>9 DEF Unreadable, Return
<1>10. CASE Corrupt
  BY <1>0, <1>b, <1>10 DEF Corrupt, ReadAt, Return
<1>11. CASE Leaf
  <2>1. PICK a \in DOMAIN tree.nodes :
          /\ Enter /\ out' = out \o tree.nodes[a].entries
          /\ stack' = Tail(stack) /\ UNCHANGED <<tree, walk, status>>
    BY <1>11 DEF Leaf, ReadAt
  <2>2. tree.nodes[a].entries \in Seq(Record)
    BY <1>0 DEF IsTree, Node
  <2>3. out' \in Seq(Record)
    BY <1>0, <2>1, <2>2
  <2> QED
    BY <1>b, <1>c, <2>1, <2>3 DEF Enter, AtNode, TypeOK
<1>12. CASE Index
  <2>1. PICK a \in DOMAIN tree.nodes :
          /\ Enter
          /\ stack' = [k \in 1 .. Len(tree.nodes[a].entries) |->
                          ChildRef(tree.nodes[a].entries, k,
                                   Head(stack).depth + 1)]
                      \o Tail(stack)
          /\ UNCHANGED <<tree, walk, out, status>>
    BY <1>12 DEF Index, ReadAt
  <2>2. [k \in 1 .. Len(tree.nodes[a].entries) |->
            ChildRef(tree.nodes[a].entries, k, Head(stack).depth + 1)]
          \in Seq(Ref)
    BY <2>1, ChildRefs
  <2>3. Tail(stack) \in Seq(Ref)
    BY <1>c, <2>1 DEF Enter, AtNode
  <2>4. stack' \in Seq(Ref)
    BY <2>1, <2>2, <2>3
  <2> QED
    BY <1>0, <1>b, <2>1, <2>4 DEF TypeOK
<1>13. CASE Finish
  BY <1>0, <1>13 DEF Finish, Return
<1>14. CASE MapDamaged
  BY <1>0, <1>b, <1>14 DEF MapDamaged, Return
<1>15. CASE UNCHANGED vars
  BY <1>0, <1>15 DEF vars, TypeOK
<1> QED
  BY <1>1, <1>2, <1>3, <1>4, <1>5, <1>6, <1>7, <1>8, <1>9, <1>10, <1>11,
     <1>12, <1>13, <1>14, <1>15 DEF Next, Advance, Returned

\* A walk starts with state of the right types.
LEMMA InitType == Init => TypeOK
BY TreesAssumption, WalksAssumption DEF Init, TypeOK

\* The walks never leave the types of their state; no node is entered below
\* the depth cap (dir.rs, snapshot.rs, btree.rs).
THEOREM TypeCorrect == Spec => []TypeOK
BY InitType, TypeStep, PTL DEF Spec

-----------------------------------------------------------------------------
\* What a step does to the records handed over

\* Only a leaf hands records over; everything else leaves out alone.
LEMMA OutStep ==
    ASSUME TypeOK, [Next]_vars
    PROVE  /\ tree' = tree /\ walk' = walk
           /\ \/ out' = out
              \/ \E a \in DOMAIN tree.nodes :
                   /\ Enter /\ a \in Addr(tree, Head(stack))
                   /\ tree.nodes[a].cksum /\ tree.nodes[a].leaf
                   /\ tree.nodes[a].entries \in Seq(Record)
                   /\ out' = out \o tree.nodes[a].entries
                   /\ stack' = Tail(stack)
                   /\ status' = status
<1>1. CASE Leaf
  <2>1. PICK a \in DOMAIN tree.nodes :
          /\ Enter /\ a \in Addr(tree, Head(stack))
          /\ tree.nodes[a].cksum /\ tree.nodes[a].leaf
          /\ out' = out \o tree.nodes[a].entries
          /\ stack' = Tail(stack) /\ UNCHANGED <<tree, walk, status>>
    BY <1>1 DEF Leaf, ReadAt
  <2>2. tree.nodes[a].entries \in Seq(Record)
    BY DEF TypeOK, IsTree, Node
  <2> QED
    BY <2>1, <2>2
<1>2. CASE [Next]_vars /\ ~Leaf
  BY <1>2
  DEF Next, Advance, Returned, HeaderRejected, HeaderUnreadable, Begin, Prune,
      TooDeep, Seen, Unresolved, Skip, Unreadable, MapDamaged, Corrupt, Index,
      Finish,
      Return, vars
<1> QED
  BY <1>1, <1>2

\* Appending es hands over what es holds.
LEMMA DeliveredAppend ==
    ASSUME out \in Seq(Record), NEW es \in Seq(Record), out' = out \o es
    PROVE  /\ Delivered' = Delivered \cup {es[k] : k \in DOMAIN es}
           /\ \A j \in DOMAIN out' :
                \/ j \in DOMAIN out /\ out'[j] = out[j]
                \/ /\ j - Len(out) \in DOMAIN es
                   /\ out'[j] = es[j - Len(out)]
                   /\ j > Len(out)
<1>1. \A j \in DOMAIN out' :
        \/ j \in DOMAIN out /\ out'[j] = out[j]
        \/ /\ j - Len(out) \in DOMAIN es
           /\ out'[j] = es[j - Len(out)]
           /\ j > Len(out)
  OBVIOUS
<1>2. /\ \A j \in DOMAIN out : j \in DOMAIN out' /\ out'[j] = out[j]
      /\ \A k \in DOMAIN es : /\ Len(out) + k \in DOMAIN out'
                              /\ out'[Len(out) + k] = es[k]
  OBVIOUS
<1>3. Delivered' = {out'[j] : j \in DOMAIN out'}
  BY DEF Delivered
<1>4. Delivered' \subseteq Delivered \cup {es[k] : k \in DOMAIN es}
  BY <1>1, <1>3 DEF Delivered
<1>5. Delivered \subseteq Delivered'
  BY <1>2, <1>3 DEF Delivered
<1>6. {es[k] : k \in DOMAIN es} \subseteq Delivered'
  BY <1>2, <1>3
<1> QED
  BY <1>1, <1>4, <1>5, <1>6

\* A damaged tree yields no invented record: whatever is handed over stands
\* in a leaf whose checksum was right (read_verified_node).
THEOREM RealRecords == Spec => []OnlyRealRecords
<1>1. Init => OnlyRealRecords
  BY DEF Init, OnlyRealRecords, Delivered
<1>2. TypeOK /\ OnlyRealRecords /\ [Next]_vars => OnlyRealRecords'
  <2> SUFFICES ASSUME TypeOK, OnlyRealRecords, [Next]_vars
               PROVE  OnlyRealRecords'
    OBVIOUS
  <2>1. tree' = tree
    BY OutStep
  <2>2. CASE out' = out
    BY <2>1, <2>2 DEF OnlyRealRecords, Delivered
  <2>3. CASE out' # out
    <3>1. PICK a \in DOMAIN tree.nodes :
            /\ tree.nodes[a].cksum /\ tree.nodes[a].leaf
            /\ tree.nodes[a].entries \in Seq(Record)
            /\ out' = out \o tree.nodes[a].entries
      BY <2>3, OutStep
    <3>2. Delivered' = Delivered \cup {tree.nodes[a].entries[k] :
                                          k \in DOMAIN tree.nodes[a].entries}
      BY <3>1, DeliveredAppend DEF TypeOK
    <3> QED
      BY <2>1, <3>1, <3>2 DEF OnlyRealRecords
  <2> QED
    BY <2>2, <2>3
<1> QED
  BY <1>1, <1>2, TypeCorrect, PTL DEF Spec

-----------------------------------------------------------------------------
\* Completeness: one lemma per kind of step on the stack

\* The terms of the invariant depend on tree, walk, stack and out.
LEMMA SameTree ==
    ASSUME tree' = tree, walk' = walk
    PROVE  /\ \A ref : Addr(tree, ref)' = Addr(tree, ref)
           /\ \A ref : UnderRef(ref)' = UnderRef(ref)
           /\ All' = All
           /\ \A r : Wanted(r)' <=> Wanted(r)
           /\ WellFormed(tree, walk)' <=> WellFormed(tree, walk)
<1>1. \A ref : Addr(tree, ref)' = Addr(tree, ref)
  BY DEF Addr, VM!Floor, VM!Versions
<1>2. RootRef' = RootRef
  BY DEF RootRef
<1>3. WellFormed(tree, walk)' <=> WellFormed(tree, walk)
  OBVIOUS
<1> QED
  BY <1>1, <1>2, <1>3 DEF UnderRef, All, Wanted

\* Positions before and after the head of the stack is taken off.
LEMMA TailFacts ==
    ASSUME stack \in Seq(Ref), stack # <<>>, stack' = Tail(stack)
    PROVE  /\ 1 \in DOMAIN stack /\ Head(stack) = stack[1]
           /\ \A k \in DOMAIN stack' :
                /\ k + 1 \in DOMAIN stack /\ k + 1 > 1
                /\ stack'[k] = stack[k + 1]
           /\ \A k \in DOMAIN stack :
                k = 1 \/ (k - 1 \in DOMAIN stack' /\ stack'[k - 1] = stack[k])
           /\ \A k, m \in DOMAIN stack' : k < m => k + 1 < m + 1
OBVIOUS

\* Taking the head off the stack keeps what is left resolved and in order.
LEMMA PopKeepsStack ==
    ASSUME TypeOK, StackResolves, StackInOrder, stack # <<>>,
           stack' = Tail(stack), tree' = tree, walk' = walk, out' = out
    PROVE  StackResolves' /\ StackInOrder'
<1>1. stack \in Seq(Ref)
  BY DEF TypeOK, Ref
<1>2. \A k \in DOMAIN stack' :
        /\ k + 1 \in DOMAIN stack /\ stack'[k] = stack[k + 1]
  BY <1>1, TailFacts
<1>3. \A k, m \in DOMAIN stack' : k < m => k + 1 < m + 1
  BY <1>1, TailFacts
<1>4. StackResolves'
  BY <1>2, SameTree DEF StackResolves
<1>5. StackInOrder'
  <2>1. ASSUME NEW k \in DOMAIN stack'
        PROVE  UnderRef(stack'[k]) \subseteq All
    BY <1>2 DEF StackInOrder
  <2>2. ASSUME NEW k \in DOMAIN stack', NEW m \in DOMAIN stack', k < m,
               NEW r \in UnderRef(stack'[k]), NEW q \in UnderRef(stack'[m])
        PROVE  KeyLess(r, q)
    BY <1>2, <1>3, <2>2 DEF StackInOrder
  <2>3. ASSUME NEW j \in DOMAIN out, NEW k \in DOMAIN stack',
               NEW r \in UnderRef(stack'[k])
        PROVE  KeyLess(out[j], r)
    BY <1>2 DEF StackInOrder
  <2> QED
    BY <2>1, <2>2, <2>3, SameTree DEF StackInOrder
<1> QED
  BY <1>4, <1>5

\* Passing over a child that is not kept loses nothing.
LEMMA PruneStep ==
    ASSUME TypeOK, WellFormed(tree, walk), status = "walking", WalkInv, Prune
    PROVE  WalkInv'
<1>1. /\ OutInOrder /\ StackResolves /\ StackInOrder /\ NothingLost
  BY DEF WalkInv
<1>2. /\ stack # <<>> /\ ~Head(stack).kept /\ stack' = Tail(stack)
      /\ tree' = tree /\ walk' = walk /\ out' = out /\ status' = "walking"
  BY DEF Prune
<1>3. StackResolves' /\ StackInOrder'
  BY <1>1, <1>2, PopKeepsStack
<1>4. OutInOrder' /\ Delivered' = Delivered
  BY <1>1, <1>2, SameTree DEF OutInOrder, Delivered
<1>5. NothingLost'
  <2>1. stack \in Seq(Ref)
    BY DEF TypeOK, Ref
  <2>2. \A k \in DOMAIN stack : stack[k].kept =>
           k - 1 \in DOMAIN stack' /\ stack'[k - 1] = stack[k]
    BY <1>2, <2>1, TailFacts
  <2>3. ASSUME NEW r \in All, Wanted(r), r \notin Delivered
        PROVE  \E k \in DOMAIN stack' : stack'[k].kept /\ r \in UnderRef(stack'[k])
    BY <1>1, <2>2, <2>3 DEF NothingLost
  <2> QED
    BY <1>2, <1>4, <2>3, SameTree DEF NothingLost
<1> QED
  BY <1>2, <1>3, <1>4, <1>5 DEF WalkInv

\* A leaf: its records are the next ones in key order, and all of them.
LEMMA LeafStep ==
    ASSUME TypeOK, WellFormed(tree, walk), status = "walking", WalkInv,
           NEW a \in DOMAIN tree.nodes, Enter, a \in Addr(tree, Head(stack)),
           tree.nodes[a].leaf, out' = out \o tree.nodes[a].entries,
           stack' = Tail(stack), tree' = tree, walk' = walk, status' = status
    PROVE  WalkInv'
<1> DEFINE es == tree.nodes[a].entries
<1>1. /\ OutInOrder /\ StackResolves /\ StackInOrder /\ NothingLost
  BY DEF WalkInv
<1>2. /\ IsTree(tree) /\ NodeWellFormed(tree, walk, a)
      /\ stack \in Seq(Ref) /\ stack # <<>> /\ out \in Seq(Record)
  BY DEF TypeOK, WellFormed, Ref, Enter, AtNode
<1>3. es \in Seq(Record)
  BY <1>2 DEF IsTree, Node
<1>4. /\ UnderRef(stack[1]) = {es[k] : k \in DOMAIN es}
      /\ \A k, m \in DOMAIN es : k < m => KeyLess(es[k], es[m])
  <2>1. UnderRef(Head(stack)) = tree.below[a] /\ Head(stack) = stack[1]
    BY <1>2, UnderNode, TailFacts
  <2> QED
    BY <1>2, <2>1 DEF NodeWellFormed
<1>5. out' = out \o es
  OBVIOUS
<1> HIDE DEF es
<1>6. /\ 1 \in DOMAIN stack
      /\ \A k \in DOMAIN stack' : /\ k + 1 \in DOMAIN stack /\ k + 1 > 1
                                  /\ stack'[k] = stack[k + 1]
      /\ \A k \in DOMAIN stack :
            k = 1 \/ (k - 1 \in DOMAIN stack' /\ stack'[k - 1] = stack[k])
      /\ \A k, m \in DOMAIN stack' : k < m => k + 1 < m + 1
  BY <1>2, TailFacts
<1>7. /\ Delivered' = Delivered \cup {es[k] : k \in DOMAIN es}
      /\ \A j \in DOMAIN out' :
           \/ j \in DOMAIN out /\ out'[j] = out[j]
           \/ /\ j - Len(out) \in DOMAIN es
              /\ out'[j] = es[j - Len(out)]
              /\ j > Len(out)
  BY <1>2, <1>3, <1>5, DeliveredAppend
<1>8. \A j \in DOMAIN out, k \in DOMAIN es : KeyLess(out[j], es[k])
  BY <1>1, <1>4, <1>6 DEF StackInOrder
<1>9. OutInOrder'
  <2>1. Delivered' \subseteq All
    <3>1. {es[k] : k \in DOMAIN es} \subseteq All
      BY <1>1, <1>4, <1>6 DEF StackInOrder
    <3> QED
      BY <1>1, <1>7, <3>1 DEF OutInOrder
  <2>2. ASSUME NEW k \in DOMAIN out', NEW m \in DOMAIN out', k < m
        PROVE  KeyLess(out'[k], out'[m])
    <3>0. /\ DOMAIN out' \subseteq Nat /\ DOMAIN out = 1 .. Len(out)
          /\ Len(out) \in Nat
      BY <1>2, <1>3, <1>5
    <3>1. CASE m \in DOMAIN out /\ out'[m] = out[m]
      <4>1. k \in DOMAIN out /\ out'[k] = out[k]
        BY <1>7, <2>2, <3>0, <3>1
      <4> QED
        BY <1>1, <2>2, <3>1, <4>1 DEF OutInOrder
    <3>2. CASE /\ m - Len(out) \in DOMAIN es
               /\ out'[m] = es[m - Len(out)]
      <4>1. CASE k \in DOMAIN out /\ out'[k] = out[k]
        BY <1>8, <3>2, <4>1
      <4>2. CASE k - Len(out) \in DOMAIN es /\ out'[k] = es[k - Len(out)]
        <5>1. k - Len(out) < m - Len(out)
          BY <2>2, <3>0
        <5> QED
          BY <1>4, <3>2, <4>2, <5>1
      <4> QED
        BY <1>7, <4>1, <4>2
    <3> QED
      BY <1>7, <3>1, <3>2
  <2> QED
    BY <2>1, <2>2, SameTree DEF OutInOrder
<1>10. StackResolves'
  BY <1>1, <1>6, SameTree DEF StackResolves
<1>11. StackInOrder'
  <2>1. ASSUME NEW k \in DOMAIN stack'
        PROVE  UnderRef(stack'[k]) \subseteq All
    BY <1>1, <1>6 DEF StackInOrder
  <2>2. ASSUME NEW k \in DOMAIN stack', NEW m \in DOMAIN stack', k < m,
               NEW r \in UnderRef(stack'[k]), NEW q \in UnderRef(stack'[m])
        PROVE  KeyLess(r, q)
    BY <1>1, <1>6, <2>2 DEF StackInOrder
  <2>3. ASSUME NEW j \in DOMAIN out', NEW k \in DOMAIN stack',
               NEW r \in UnderRef(stack'[k])
        PROVE  KeyLess(out'[j], r)
    <3>1. k + 1 \in DOMAIN stack /\ 1 < k + 1 /\ r \in UnderRef(stack[k + 1])
      BY <1>6
    <3>2. CASE j \in DOMAIN out /\ out'[j] = out[j]
      BY <1>1, <3>1, <3>2 DEF StackInOrder
    <3>3. CASE j - Len(out) \in DOMAIN es /\ out'[j] = es[j - Len(out)]
      <4>1. out'[j] \in UnderRef(stack[1])
        BY <1>4, <3>3
      <4> QED
        BY <1>1, <1>6, <3>1, <4>1 DEF StackInOrder
    <3> QED
      BY <1>7, <3>2, <3>3
  <2>4. /\ All' = All
        /\ \A k \in DOMAIN stack' : UnderRef(stack[k])' = UnderRef(stack'[k])
    BY SameTree
  <2>5. \A k \in DOMAIN stack' : UnderRef(stack[k])' \subseteq All'
    BY <2>1, <2>4
  <2>6. \A k, m \in DOMAIN stack' : k < m =>
          \A r \in UnderRef(stack[k])', q \in UnderRef(stack[m])' : KeyLess(r, q)
    BY <2>2, <2>4
  <2>7. \A j \in DOMAIN out', k \in DOMAIN stack' :
          \A r \in UnderRef(stack[k])' : KeyLess(out'[j], r)
    BY <2>3, <2>4, Zenon
  <2> QED
    BY <2>5, <2>6, <2>7, Zenon DEF StackInOrder
<1>12. NothingLost'
  <2>1. ASSUME NEW r \in All, Wanted(r), r \notin Delivered'
        PROVE  \E k \in DOMAIN stack' : stack'[k].kept /\ r \in UnderRef(stack'[k])
    <3>1. PICK k \in DOMAIN stack : stack[k].kept /\ r \in UnderRef(stack[k])
      BY <1>1, <1>7, <2>1 DEF NothingLost
    <3>2. k # 1
      BY <1>4, <1>7, <2>1, <3>1
    <3> QED
      BY <1>6, <3>1, <3>2
  <2> QED
    BY <2>1, SameTree DEF NothingLost
<1> QED
  BY <1>9, <1>10, <1>11, <1>12 DEF WalkInv

\* Positions before and after the head of the stack is replaced by kids.
LEMMA ReplaceFacts ==
    ASSUME stack \in Seq(Ref), stack # <<>>, NEW kids \in Seq(Ref),
           stack' = kids \o Tail(stack)
    PROVE  /\ \A q \in DOMAIN stack' :
                \/ q \in DOMAIN kids /\ stack'[q] = kids[q]
                \/ /\ q > Len(kids) /\ (q - Len(kids)) + 1 > 1
                   /\ (q - Len(kids)) + 1 \in DOMAIN stack
                   /\ stack'[q] = stack[(q - Len(kids)) + 1]
           /\ \A q \in DOMAIN kids : q \in DOMAIN stack' /\ stack'[q] = kids[q]
           /\ \A k \in DOMAIN stack : k # 1 =>
                /\ (k - 1) + Len(kids) \in DOMAIN stack'
                /\ stack'[(k - 1) + Len(kids)] = stack[k]
<1> DEFINE rest == Tail(stack)
<1>1. /\ rest \in Seq(Ref)
      /\ \A k \in DOMAIN rest : k + 1 \in DOMAIN stack /\ rest[k] = stack[k + 1]
      /\ \A k \in DOMAIN stack : k # 1 => k - 1 \in DOMAIN rest /\ rest[k - 1] = stack[k]
      /\ DOMAIN stack \subseteq Nat
  OBVIOUS
<1>2. stack' = kids \o rest
  OBVIOUS
<1> HIDE DEF rest
<1>3. \A q \in DOMAIN stack' :
        \/ q \in DOMAIN kids /\ stack'[q] = kids[q]
        \/ /\ q > Len(kids) /\ q - Len(kids) \in DOMAIN rest
           /\ stack'[q] = rest[q - Len(kids)]
  BY <1>1, <1>2
<1>4. /\ \A q \in DOMAIN kids : q \in DOMAIN stack' /\ stack'[q] = kids[q]
      /\ \A k \in DOMAIN rest : /\ k + Len(kids) \in DOMAIN stack'
                                /\ stack'[k + Len(kids)] = rest[k]
  BY <1>1, <1>2
<1>5. \A q \in DOMAIN stack' : q - Len(kids) \in DOMAIN rest =>
         (q - Len(kids)) + 1 > 1
  BY <1>1
<1> QED
  BY <1>1, <1>3, <1>4, <1>5

\* An index node: its children take its place, in order, and every wanted
\* record under it is under a child that is kept.
LEMMA IndexStep ==
    ASSUME TypeOK, WellFormed(tree, walk), status = "walking", WalkInv, Index
    PROVE  WalkInv'
<1>1. PICK a \in DOMAIN tree.nodes :
        /\ Enter /\ a \in Addr(tree, Head(stack)) /\ ~tree.nodes[a].leaf
        /\ stack' = [k \in 1 .. Len(tree.nodes[a].entries) |->
                        ChildRef(tree.nodes[a].entries, k, Head(stack).depth + 1)]
                    \o Tail(stack)
        /\ tree' = tree /\ walk' = walk /\ out' = out /\ status' = status
  BY DEF Index, ReadAt
<1> DEFINE es == tree.nodes[a].entries
           d == Head(stack).depth + 1
           kids == [k \in 1 .. Len(es) |-> ChildRef(es, k, d)]
<1>2. /\ OutInOrder /\ StackResolves /\ StackInOrder /\ NothingLost
  BY DEF WalkInv
<1>3. /\ IsTree(tree)
      /\ stack \in Seq(Ref) /\ stack # <<>>
  BY <1>1 DEF TypeOK, WellFormed, Ref, Enter, AtNode
<1>4. /\ es \in Seq(Record)
      /\ tree.below[a] \subseteq Record
      /\ tree.below[a] = UNION {UnderEntry(es, k) : k \in DOMAIN es}
      /\ \A k \in DOMAIN es :
           /\ ChildAddr(tree, walk, es[k]) # {}
           /\ ChildAddr(tree, walk, es[k]) \subseteq DOMAIN tree.nodes
           /\ es[k] \in Record
           /\ UnderEntry(es, k) \subseteq tree.below[a]
           /\ \A r \in UnderEntry(es, k) : ~KeyLess(r, es[k])
           /\ \A m \in DOMAIN es : m > k =>
                \A r \in UnderEntry(es, k) : KeyLess(r, es[m])
  BY <1>1, <1>3, IndexNode
<1>5. UnderRef(stack[1]) = tree.below[a] /\ 1 \in DOMAIN stack
  <2>1. Head(stack) = stack[1] /\ 1 \in DOMAIN stack
    BY <1>3
  <2> QED
    BY <1>1, <1>3, <2>1, UnderNode
<1>6. kids \in Seq(Ref) /\ Len(kids) = Len(es) /\ stack' = kids \o Tail(stack)
  BY <1>1, ChildRefs
<1>8. \A k \in DOMAIN es : \A r \in UnderEntry(es, k) :
         Wanted(r) => Kept(es, k)
  BY <1>1, WantedIsKept
<1> HIDE DEF es, d
<1>9. \A k \in DOMAIN es : /\ k \in DOMAIN kids
                           /\ Addr(tree, kids[k]) = ChildAddr(tree, walk, es[k])
                           /\ UnderRef(kids[k]) = UnderEntry(es, k)
                           /\ kids[k].kept = Kept(es, k)
  <2>1. DOMAIN es = 1 .. Len(es)
    BY <1>4
  <2>2. \A k \in DOMAIN es : k \in DOMAIN kids /\ kids[k] = ChildRef(es, k, d)
    BY <2>1
  <2>3. \A k : ChildRef(es, k, d).kept = Kept(es, k)
    BY DEF ChildRef
  <2> HIDE DEF kids
  <2> QED
    BY <2>2, <2>3, ChildRefAddr
<1>10. DOMAIN kids = DOMAIN es
  BY <1>4
<1> HIDE DEF kids
<1> DEFINE n == Len(kids)
<1>11. /\ \A q \in DOMAIN stack' :
            \/ q \in DOMAIN es /\ stack'[q] = kids[q]
            \/ /\ q > n /\ (q - n) + 1 > 1 /\ (q - n) + 1 \in DOMAIN stack
               /\ stack'[q] = stack[(q - n) + 1]
       /\ \A q \in DOMAIN es : q \in DOMAIN stack' /\ stack'[q] = kids[q]
       /\ \A k \in DOMAIN stack : k # 1 =>
            /\ (k - 1) + n \in DOMAIN stack'
            /\ stack'[(k - 1) + n] = stack[k]
  BY <1>3, <1>6, <1>10, ReplaceFacts
<1>12. /\ n \in Nat /\ DOMAIN stack' \subseteq Nat /\ DOMAIN es = 1 .. n
  BY <1>3, <1>4, <1>6
<1> HIDE DEF n
<1>13. /\ Delivered' = Delivered /\ All' = All
       /\ \A q \in DOMAIN stack' : UnderRef(stack[q])' = UnderRef(stack'[q])
  BY <1>1, SameTree DEF Delivered
<1>14. OutInOrder'
  BY <1>1, <1>2, <1>13 DEF OutInOrder
<1>15. StackResolves'
  <2>1. ASSUME NEW q \in DOMAIN stack'
        PROVE  /\ Addr(tree, stack'[q]) # {}
               /\ Addr(tree, stack'[q]) \subseteq DOMAIN tree.nodes
    BY <1>2, <1>4, <1>9, <1>11 DEF StackResolves
  <2> QED
    BY <1>1, <2>1, SameTree DEF StackResolves
<1>16. ASSUME NEW q \in DOMAIN stack'
       PROVE  /\ q \in DOMAIN es => /\ UnderRef(stack'[q]) = UnderEntry(es, q)
                                    /\ UnderRef(stack'[q]) \subseteq UnderRef(stack[1])
              /\ q \notin DOMAIN es =>
                   /\ UnderRef(stack'[q]) = UnderRef(stack[(q - n) + 1])
                   /\ (q - n) + 1 > 1 /\ (q - n) + 1 \in DOMAIN stack
  BY <1>4, <1>5, <1>9, <1>11
<1>17. StackInOrder'
  <2>1. ASSUME NEW q \in DOMAIN stack'
        PROVE  UnderRef(stack'[q]) \subseteq All
    BY <1>2, <1>5, <1>16 DEF StackInOrder
  <2>2. ASSUME NEW k \in DOMAIN stack', NEW m \in DOMAIN stack', k < m,
               NEW r \in UnderRef(stack'[k]), NEW q \in UnderRef(stack'[m])
        PROVE  KeyLess(r, q)
    <3>1. CASE k \in DOMAIN es /\ m \in DOMAIN es
      <4>1. r \in UnderEntry(es, k) /\ q \in UnderEntry(es, m)
        BY <1>16, <3>1
      <4>2. /\ KeyLess(r, es[m]) /\ ~KeyLess(q, es[m])
            /\ r \in Record /\ q \in Record /\ es[m] \in Record
        <5>1. m > k
          BY <1>12, <2>2
        <5> QED
          BY <1>4, <3>1, <4>1, <5>1
      <4> QED
        BY <4>2, KeyOrder
    <3>2. CASE k \in DOMAIN es /\ m \notin DOMAIN es
      <4>1. r \in UnderRef(stack[1]) /\ q \in UnderRef(stack[(m - n) + 1])
        BY <1>16, <3>2
      <4>2. (m - n) + 1 \in DOMAIN stack /\ 1 < (m - n) + 1
        BY <1>12, <1>16, <3>2
      <4> QED
        BY <1>2, <1>5, <4>1, <4>2 DEF StackInOrder
    <3>3. CASE k \notin DOMAIN es
      <4>1. m \notin DOMAIN es
        <5>1. (k - n) + 1 > 1
          BY <1>16, <3>3
        <5> QED
          BY <1>12, <2>2, <5>1
      <4>2. /\ r \in UnderRef(stack[(k - n) + 1])
            /\ q \in UnderRef(stack[(m - n) + 1])
            /\ (k - n) + 1 \in DOMAIN stack /\ (m - n) + 1 \in DOMAIN stack
        BY <1>16, <3>3, <4>1
      <4>3. (k - n) + 1 < (m - n) + 1
        BY <1>12, <2>2
      <4> QED
        BY <1>2, <4>2, <4>3 DEF StackInOrder
    <3> QED
      BY <3>1, <3>2, <3>3
  <2>3. ASSUME NEW j \in DOMAIN out', NEW k \in DOMAIN stack',
               NEW r \in UnderRef(stack'[k])
        PROVE  KeyLess(out'[j], r)
    BY <1>1, <1>2, <1>5, <1>16 DEF StackInOrder
  <2> QED
    BY <1>13, <2>1, <2>2, <2>3 DEF StackInOrder
<1>18. NothingLost'
  <2>1. ASSUME NEW r \in All, Wanted(r), r \notin Delivered
        PROVE  \E k \in DOMAIN stack' : stack'[k].kept /\ r \in UnderRef(stack'[k])
    <3>1. PICK k \in DOMAIN stack : stack[k].kept /\ r \in UnderRef(stack[k])
      BY <1>2, <2>1 DEF NothingLost
    <3>2. CASE k = 1
      <4>1. PICK m \in DOMAIN es : r \in UnderEntry(es, m)
        BY <1>4, <1>5, <3>1, <3>2
      <4>2. /\ m \in DOMAIN stack' /\ stack'[m].kept
            /\ r \in UnderRef(stack'[m])
        BY <1>8, <1>9, <1>11, <2>1, <4>1
      <4> QED
        BY <4>2
    <3>3. CASE k # 1
      BY <1>11, <3>1, <3>3
    <3> QED
      BY <3>2, <3>3
  <2> QED
    BY <1>1, <1>13, <2>1, SameTree DEF NothingLost
<1> QED
  BY <1>1, <1>14, <1>15, <1>17, <1>18 DEF WalkInv

\* Every other step leaves what is handed over alone, and Ok is returned only
\* with an empty stack.
LEMMA WalkStep == TypeOK /\ WalkInv /\ [Next]_vars => WalkInv'
<1> SUFFICES ASSUME TypeOK, WalkInv, [Next]_vars PROVE WalkInv'
  OBVIOUS
<1>0. tree' = tree /\ walk' = walk
  BY OutStep
<1> SUFFICES ASSUME WellFormed(tree, walk) PROVE WalkInv'
  BY <1>0, SameTree DEF WalkInv
<1>1. OutInOrder
  BY DEF WalkInv
<1>2. ASSUME out' = out PROVE OutInOrder' /\ Delivered' = Delivered /\ All' = All
  BY <1>0, <1>1, <1>2, SameTree DEF OutInOrder, Delivered
<1>3. CASE Begin
  <2>1. /\ status = "start" /\ status' = "walking" /\ out' = out
        /\ stack' = <<RootRef>>
    BY <1>3 DEF Begin
  <2>2. out = <<>>
    BY <2>1 DEF WalkInv
  <2>3. DOMAIN stack' = {1} /\ stack'[1] = RootRef /\ RootRef.kept
    BY <2>1 DEF RootRef
  <2>4. UnderRef(RootRef) = All
    BY DEF UnderRef, All
  <2>5. UnderRef(stack[1])' = UnderRef(stack'[1]) /\ All' = All
    BY <1>0, SameTree
  <2>6. /\ Addr(tree, RootRef) # {}
        /\ Addr(tree, RootRef) \subseteq DOMAIN tree.nodes
    BY DEF WellFormed, Addr, RootRef
  <2>7. StackResolves'
    BY <1>0, <2>3, <2>6, SameTree DEF StackResolves
  <2>8. StackInOrder'
    BY <2>1, <2>2, <2>3, <2>4, <2>5 DEF StackInOrder
  <2>9. NothingLost'
    BY <2>3, <2>4, <2>5 DEF NothingLost
  <2> QED
    BY <1>2, <2>1, <2>7, <2>8, <2>9 DEF WalkInv
<1>4. CASE Prune
  BY <1>4, PruneStep DEF Prune
<1>5. CASE Leaf
  <2>1. PICK a \in DOMAIN tree.nodes :
          /\ Enter /\ a \in Addr(tree, Head(stack)) /\ tree.nodes[a].leaf
          /\ out' = out \o tree.nodes[a].entries
          /\ stack' = Tail(stack) /\ UNCHANGED <<tree, walk, status>>
    BY <1>5 DEF Leaf, ReadAt
  <2>2. status = "walking"
    BY <2>1 DEF Enter, AtNode
  <2> QED
    BY <2>1, <2>2, LeafStep
<1>6. CASE Index
  BY <1>6, IndexStep DEF Index, ReadAt, Enter, AtNode
<1>7. CASE Skip
  <2>1. /\ Enter /\ Overflows /\ status = "walking" /\ stack # <<>>
    BY <1>7 DEF Skip, Enter, AtNode
  <2>2. stack \in Seq(Ref) /\ 1 \in DOMAIN stack /\ Head(stack) = stack[1]
    BY <2>1 DEF TypeOK, Ref
  <2>3. Addr(tree, Head(stack)) \subseteq DOMAIN tree.nodes
    BY <2>1, <2>2 DEF WalkInv, StackResolves
  <2>4. Head(stack).oid \in DOMAIN tree.nodes
    BY <2>1, <2>3 DEF Overflows, Addr
  <2>5. Head(stack).oid \in 0 .. AddrLimit - 1 /\ Head(stack).oid >= AddrLimit
    BY <2>1, <2>4 DEF Overflows, TypeOK, IsTree
  <2> QED
    BY <2>5, DepthAssumption
<1>8. CASE Finish
  <2>1. /\ status = "walking" /\ stack = <<>> /\ status' = "ok" /\ out' = out
    BY <1>8 DEF Finish, Return
  <2>2. \A r \in All : Wanted(r) => r \in Delivered
    BY <2>1 DEF WalkInv, NothingLost
  <2>3. \A r \in All' : Wanted(r)' => r \in Delivered'
    BY <1>0, <1>2, <2>1, <2>2, SameTree
  <2> QED
    BY <1>2, <2>1, <2>3 DEF WalkInv
<1>9. CASE UNCHANGED vars
  <2>1. /\ out' = out /\ stack' = stack /\ status' = status
    BY <1>9 DEF vars
  <2>2. /\ \A k \in DOMAIN stack : UnderRef(stack[k])' = UnderRef(stack[k])
        /\ \A k \in DOMAIN stack : Addr(tree, stack[k])' = Addr(tree, stack[k])
        /\ \A r : Wanted(r)' <=> Wanted(r)
    BY <1>0, <2>1, SameTree
  <2>3. StackResolves => StackResolves'
    BY <1>0, <2>1, <2>2 DEF StackResolves
  <2>4. StackInOrder => StackInOrder'
    BY <1>2, <2>1, <2>2 DEF StackInOrder
  <2>5. NothingLost => NothingLost'
    BY <1>2, <2>1, <2>2 DEF NothingLost
  <2> QED
    BY <1>2, <2>1, <2>2, <2>3, <2>4, <2>5 DEF WalkInv
<1>10. CASE \E e : Return(e) /\ e \notin {"start", "walking", "ok"}
  BY <1>2, <1>10 DEF Return, WalkInv
<1> QED
  <2>1. HeaderRejected => Return(tree.header)
    BY DEF HeaderRejected
  <2>2. HeaderRejected => tree.header \notin {"start", "walking", "ok"}
    BY DEF HeaderRejected, TypeOK, IsTree
  <2>3. HeaderUnreadable \/ Unreadable => Return("Io")
    BY DEF HeaderUnreadable, Unreadable
  <2>4. TooDeep \/ Seen => Return("CycleGuard")
    BY DEF TooDeep, Seen
  <2>5. Unresolved => Return("OmapUnresolved")
    BY DEF Unresolved
  <2>6. Corrupt => Return("ChecksumMismatch")
    BY DEF Corrupt
  <2>7. MapDamaged => Return("ChecksumMismatch") \/ Return("CycleGuard")
    BY DEF MapDamaged
  <2> QED
    BY <1>3, <1>4, <1>5, <1>6, <1>7, <1>8, <1>9, <1>10, <2>1, <2>2, <2>3, <2>4,
       <2>5, <2>6, <2>7 DEF Next, Advance, Returned

\* A keyed walk of a well-formed tree hands over, in strictly ascending key
\* order, exactly the records of its object that a walk of the whole tree
\* would, whatever the tree's shape (dir.rs, child_may_contain_oid).
THEOREM CompleteWalk == Spec => []WalkIsComplete
<1>1. Init => WalkInv
  BY DEF Init, WalkInv, OutInOrder, Delivered
<1>2. WalkInv => WalkIsComplete
  <2> SUFFICES ASSUME WalkInv, WellFormed(tree, walk)
               PROVE  /\ status = "ok" => {r \in Delivered : Wanted(r)}
                                            = {r \in All : Wanted(r)}
                      /\ \A k, m \in DOMAIN out : k < m => KeyLess(out[k], out[m])
    BY DEF WalkIsComplete
  <2> QED
    BY DEF WalkInv, OutInOrder
<1> QED
  BY <1>1, <1>2, WalkStep, TypeCorrect, PTL DEF Spec

-----------------------------------------------------------------------------
\* The cycle guard gives no false alarm

\* The reference by which v was entered, in a walk whose references are all
\* of one kind.
NodeRef(v) == [oid |-> v, phys |-> walk.kind = "phys", depth |-> 0, kept |-> TRUE]

\* A reference still to come is not v's: it lies behind everything under v,
\* or deeper in the tree than v.
Apart(v, ref) ==
    \/ \A r \in UnderRef(NodeRef(v)), q \in UnderRef(ref) : KeyLess(r, q)
    \/ \A c \in Addr(tree, NodeRef(v)), e \in Addr(tree, ref) :
          c \in DOMAIN tree.nodes /\ tree.height[e] < tree.height[c]

\* What keeps a walk of a well-formed tree clear of the depth cap and of the
\* set of visited references.
GuardInv ==
    (WellFormed(tree, walk) /\ walk.kind # "snap") =>
        /\ status # "CycleGuard"
        /\ status = "start" => visited = {}
        /\ status = "walking" =>
             /\ \A k \in DOMAIN stack : stack[k].phys = (walk.kind = "phys")
             /\ \A k \in DOMAIN stack : \A e \in Addr(tree, stack[k]) :
                   tree.height[e] + stack[k].depth < MAX_DEPTH
             /\ visited = {} => \A k \in DOMAIN stack : k = 1
             /\ visited # {} => \A k \in DOMAIN stack : UnderRef(stack[k]) # {}
             /\ \A k \in DOMAIN stack, v \in visited : Apart(v, stack[k])

\* A reference of the walk's kind leads where its oid does.
LEMMA SameAddr ==
    ASSUME NEW ref \in Ref, ref.phys = (walk.kind = "phys")
    PROVE  /\ Addr(tree, ref) = Addr(tree, NodeRef(ref.oid))
           /\ UnderRef(ref) = UnderRef(NodeRef(ref.oid))
BY DEF Addr, NodeRef, UnderRef

\* No record is before itself, no address above itself: the head of the stack
\* is apart from nothing that leads to the same node.
LEMMA HeadIsNew ==
    ASSUME TypeOK, WellFormed(tree, walk), walk.kind # "snap", WalkInv, GuardInv,
           status = "walking", stack # <<>>
    PROVE  /\ Head(stack).oid \notin visited
           /\ Head(stack).depth < MAX_DEPTH
<1>0. stack \in Seq(Ref)
  BY DEF TypeOK, Ref
<1>1. /\ 1 \in DOMAIN stack /\ Head(stack) = stack[1]
      /\ stack[1] \in Ref
  BY <1>0
<1>2. /\ stack[1].phys = (walk.kind = "phys")
      /\ \A e \in Addr(tree, stack[1]) :
            tree.height[e] + stack[1].depth < MAX_DEPTH
      /\ visited # {} => UnderRef(stack[1]) # {}
      /\ \A v \in visited : Apart(v, stack[1])
  BY <1>1 DEF GuardInv
<1>3. PICK e \in Addr(tree, stack[1]) : e \in DOMAIN tree.nodes
  BY <1>1 DEF WalkInv, StackResolves
<1>4. tree.height[e] \in Nat
  BY <1>3, DepthAssumption DEF WellFormed
<1>5. stack[1].depth < MAX_DEPTH
  BY <1>1, <1>2, <1>3, <1>4, DepthAssumption DEF Ref
<1>6. ASSUME stack[1].oid \in visited PROVE FALSE
  <2>1. Apart(stack[1].oid, stack[1]) /\ UnderRef(stack[1]) # {}
    BY <1>2, <1>6
  <2>2. /\ Addr(tree, stack[1]) = Addr(tree, NodeRef(stack[1].oid))
        /\ UnderRef(stack[1]) = UnderRef(NodeRef(stack[1].oid))
    BY <1>1, <1>2, SameAddr
  <2>3. PICK r \in UnderRef(stack[1]) : TRUE
    BY <2>1
  <2>4. ~KeyLess(r, r)
    <3>1. UnderRef(stack[1]) = tree.below[e]
      BY UnderNode DEF TypeOK
    <3>2. r \in Record
      BY <1>3, <3>1 DEF WellFormed, NodeWellFormed
    <3> QED
      BY <3>2 DEF KeyLess, Record
  <2>5. ~(tree.height[e] < tree.height[e])
    BY <1>4
  <2> QED
    BY <2>1, <2>2, <2>3, <2>4, <2>5 DEF Apart
<1> QED
  BY <1>1, <1>5, <1>6

\* What an index node of a well-formed tree puts on the stack: every
\* reference afterwards is one of its children or was there behind it.
LEMMA IndexSplit ==
    ASSUME TypeOK, WellFormed(tree, walk), Index
    PROVE  /\ visited' = visited \cup {stack[1].oid} /\ 1 \in DOMAIN stack
           /\ tree' = tree /\ walk' = walk /\ status' = "walking"
           /\ status = "walking"
           /\ \E a \in Addr(tree, stack[1]) : \A q \in DOMAIN stack' :
                \/ /\ stack'[q].phys = (walk.kind = "phys")
                   /\ stack'[q].depth = stack[1].depth + 1
                   /\ \A c \in Addr(tree, stack'[q]) :
                        c \in DOMAIN tree.nodes /\ tree.height[c] < tree.height[a]
                   /\ UnderRef(stack'[q]) \subseteq UnderRef(stack[1])
                   /\ UnderRef(stack'[q]) # {}
                \/ \E m \in DOMAIN stack : m > 1 /\ stack'[q] = stack[m]
<1>1. PICK a \in DOMAIN tree.nodes :
        /\ Enter /\ a \in Addr(tree, Head(stack)) /\ ~tree.nodes[a].leaf
        /\ stack' = [k \in 1 .. Len(tree.nodes[a].entries) |->
                        ChildRef(tree.nodes[a].entries, k, Head(stack).depth + 1)]
                    \o Tail(stack)
        /\ tree' = tree /\ walk' = walk /\ out' = out /\ status' = status
  BY DEF Index, ReadAt
<1> DEFINE es == tree.nodes[a].entries
           d == Head(stack).depth + 1
           kids == [k \in 1 .. Len(es) |-> ChildRef(es, k, d)]
<1>2. /\ IsTree(tree) /\ stack \in Seq(Ref) /\ stack # <<>>
      /\ status = "walking" /\ visited' = visited \cup {Head(stack).oid}
  BY <1>1 DEF TypeOK, Ref, Enter, AtNode
<1>3. 1 \in DOMAIN stack /\ Head(stack) = stack[1]
  BY <1>2
<1>4. /\ es \in Seq(Record)
      /\ \A k \in DOMAIN es :
           /\ ChildAddr(tree, walk, es[k]) \subseteq DOMAIN tree.nodes
           /\ UnderEntry(es, k) \subseteq tree.below[a]
           /\ UnderEntry(es, k) # {}
           /\ \A c \in ChildAddr(tree, walk, es[k]) :
                tree.height[c] < tree.height[a]
  BY <1>1, <1>2, IndexNode
<1>5. UnderRef(stack[1]) = tree.below[a]
  BY <1>1, <1>2, <1>3, UnderNode
<1>6. kids \in Seq(Ref) /\ stack' = kids \o Tail(stack) /\ DOMAIN kids = DOMAIN es
  BY <1>1, <1>4, ChildRefs
<1>7. \A k \in DOMAIN es : kids[k] = ChildRef(es, k, d)
  BY <1>4
<1>8. d = stack[1].depth + 1
  BY <1>3
<1> HIDE DEF es, d, kids
<1>9. ASSUME NEW k \in DOMAIN es
      PROVE  /\ kids[k].phys = (walk.kind = "phys")
             /\ kids[k].depth = stack[1].depth + 1
             /\ \A c \in Addr(tree, kids[k]) :
                  c \in DOMAIN tree.nodes /\ tree.height[c] < tree.height[a]
             /\ UnderRef(kids[k]) \subseteq UnderRef(stack[1])
             /\ UnderRef(kids[k]) # {}
  <2>1. kids[k] = ChildRef(es, k, d)
    BY <1>7
  <2>2. kids[k].phys = (walk.kind = "phys") /\ kids[k].depth = d
    BY <2>1 DEF ChildRef
  <2>3. /\ Addr(tree, kids[k]) = ChildAddr(tree, walk, es[k])
        /\ UnderRef(kids[k]) = UnderEntry(es, k)
    BY <2>1, ChildRefAddr
  <2> QED
    BY <1>4, <1>5, <1>8, <2>2, <2>3
<1>10. \A q \in DOMAIN stack' :
         \/ q \in DOMAIN es /\ stack'[q] = kids[q]
         \/ \E m \in DOMAIN stack : m > 1 /\ stack'[q] = stack[m]
  BY <1>2, <1>6, ReplaceFacts
<1>11. \A q \in DOMAIN stack' :
         \/ /\ stack'[q].phys = (walk.kind = "phys")
            /\ stack'[q].depth = stack[1].depth + 1
            /\ \A c \in Addr(tree, stack'[q]) :
                 c \in DOMAIN tree.nodes /\ tree.height[c] < tree.height[a]
            /\ UnderRef(stack'[q]) \subseteq UnderRef(stack[1])
            /\ UnderRef(stack'[q]) # {}
         \/ \E m \in DOMAIN stack : m > 1 /\ stack'[q] = stack[m]
  BY <1>9, <1>10, Zenon
<1>12. a \in Addr(tree, stack[1])
  BY <1>1, <1>3
<1>13. /\ visited' = visited \cup {stack[1].oid}
       /\ tree' = tree /\ walk' = walk /\ status' = "walking"
  BY <1>1, <1>2, <1>3
<1> QED
  BY <1>2, <1>3, <1>11, <1>12, <1>13, Zenon

\* GuardInv is inductive relative to WalkInv.
LEMMA GuardStep == TypeOK /\ WalkInv /\ GuardInv /\ [Next]_vars => GuardInv'
<1> SUFFICES ASSUME TypeOK, WalkInv, GuardInv, [Next]_vars PROVE GuardInv'
  OBVIOUS
<1>0. tree' = tree /\ walk' = walk
  BY OutStep
<1> SUFFICES ASSUME WellFormed(tree, walk), walk.kind # "snap" PROVE GuardInv'
  BY <1>0, SameTree DEF GuardInv
<1>1. ASSUME status' \notin {"start", "walking", "CycleGuard"} PROVE GuardInv'
  BY <1>1 DEF GuardInv
<1>2. stack \in Seq(Ref) /\ \A k \in DOMAIN stack : stack[k] \in Ref
  <2>1. stack \in Seq(Ref)
    BY DEF TypeOK, Ref
  <2> QED
    BY <2>1
<1>3. /\ \A v, ref : Apart(v, ref)' <=> Apart(v, ref)
      /\ \A ref : Addr(tree, ref)' = Addr(tree, ref)
      /\ \A ref : UnderRef(ref)' = UnderRef(ref)
  <2>1. \A v : NodeRef(v)' = NodeRef(v)
    BY <1>0 DEF NodeRef
  <2>2. /\ \A ref : Addr(tree, ref)' = Addr(tree, ref)
        /\ \A ref : UnderRef(ref)' = UnderRef(ref)
    BY <1>0, SameTree
  <2> QED
    BY <1>0, <2>1, <2>2 DEF Apart
<1>4. ASSUME status = "walking", status' = "walking",
             \A q \in DOMAIN stack' :
               /\ stack'[q].phys = (walk.kind = "phys")
               /\ \A e \in Addr(tree, stack'[q]) :
                     tree.height[e] + stack'[q].depth < MAX_DEPTH
               /\ visited' # {} => UnderRef(stack'[q]) # {}
               /\ \A v \in visited' : Apart(v, stack'[q]),
             visited' = {} => \A q \in DOMAIN stack' : q = 1
      PROVE  GuardInv'
  <2>1. \A q \in DOMAIN stack' :
          /\ Addr(tree, stack[q])' = Addr(tree, stack'[q])
          /\ UnderRef(stack[q])' = UnderRef(stack'[q])
          /\ \A v : Apart(v, stack[q])' <=> Apart(v, stack'[q])
    BY <1>3
  <2>2. \A q \in DOMAIN stack' : \A e \in Addr(tree, stack[q])' :
           tree'.height[e] + stack'[q].depth < MAX_DEPTH
    BY <1>0, <1>4, <2>1
  <2>3. \A q \in DOMAIN stack', v \in visited' : Apart(v, stack[q])'
    BY <1>4, <2>1
  <2>4. visited' # {} => \A q \in DOMAIN stack' : UnderRef(stack[q])' # {}
    BY <1>4, <2>1
  <2> QED
    BY <1>0, <1>4, <2>2, <2>3, <2>4 DEF GuardInv
<1>5. ASSUME status = "walking", stack # <<>>, stack' = Tail(stack)
      PROVE  \A q \in DOMAIN stack' :
               \E m \in DOMAIN stack : m > 1 /\ stack'[q] = stack[m]
  BY <1>2, <1>5, TailFacts
<1>6. ASSUME status = "walking"
      PROVE  \A m \in DOMAIN stack :
               /\ stack[m].phys = (walk.kind = "phys")
               /\ \A e \in Addr(tree, stack[m]) :
                     tree.height[e] + stack[m].depth < MAX_DEPTH
               /\ visited # {} => UnderRef(stack[m]) # {}
               /\ \A v \in visited : Apart(v, stack[m])
               /\ m > 1 => visited # {}
               /\ m > 1 => \A r \in UnderRef(stack[1]), q \in UnderRef(stack[m]) :
                              KeyLess(r, q)
  <2>1. \A m \in DOMAIN stack : m > 1 => m # 1 /\ 1 \in DOMAIN stack /\ 1 < m
    BY <1>2
  <2> QED
    BY <1>6, <2>1 DEF GuardInv, WalkInv, StackInOrder
<1>7. ASSUME status = "walking", NEW m \in DOMAIN stack, m > 1
      PROVE  Apart(stack[1].oid, stack[m])
  <2>1. 1 \in DOMAIN stack /\ stack[1] \in Ref
    BY <1>2, <1>7
  <2>2. UnderRef(stack[1]) = UnderRef(NodeRef(stack[1].oid))
    BY <1>6, <1>7, <2>1, SameAddr
  <2> QED
    BY <1>6, <1>7, <2>2 DEF Apart
<1>8. CASE HeaderRejected \/ HeaderUnreadable \/ Unresolved \/ Unreadable
           \/ Corrupt \/ Finish
  <2>1. status' \in {"UnexpectedObjectType", "ChecksumMismatch", "Io",
                     "OmapUnresolved", "ok"}
    BY <1>8 DEF HeaderRejected, HeaderUnreadable, Unresolved, Unreadable,
                Corrupt, Finish, Return, TypeOK, IsTree
  <2> QED
    BY <1>1, <2>1
<1>9. CASE Begin
  <2>1. /\ status = "start" /\ status' = "walking" /\ visited' = visited
        /\ stack' = <<RootRef>>
    BY <1>9 DEF Begin
  <2>2. visited' = {} /\ DOMAIN stack' = {1} /\ stack'[1] = RootRef
    BY <2>1 DEF GuardInv
  <2>3. RootRef.phys = (walk.kind = "phys") /\ RootRef.depth = 0
    BY DEF RootRef, TypeOK, Walk
  <2>4. \A e \in Addr(tree, RootRef) : tree.height[e] + 0 < MAX_DEPTH
    <3>1. Addr(tree, RootRef) \subseteq DOMAIN tree.nodes
      BY DEF WellFormed, Addr, RootRef
    <3> QED
      BY <3>1, DepthAssumption DEF WellFormed
  <2>5. Addr(tree, stack[1])' = Addr(tree, stack'[1])
    BY <1>3
  <2> QED
    BY <1>0, <2>1, <2>2, <2>3, <2>4, <2>5 DEF GuardInv
<1>10. CASE Prune
  <2>1. /\ status = "walking" /\ status' = "walking" /\ stack # <<>>
        /\ stack' = Tail(stack) /\ visited' = visited
    BY <1>10 DEF Prune
  <2>2. ASSUME NEW q \in DOMAIN stack'
        PROVE  /\ stack'[q].phys = (walk.kind = "phys")
               /\ \A e \in Addr(tree, stack'[q]) :
                     tree.height[e] + stack'[q].depth < MAX_DEPTH
               /\ UnderRef(stack'[q]) # {}
               /\ \A v \in visited' : Apart(v, stack'[q])
               /\ visited' # {}
    BY <1>5, <1>6, <2>1
  <2>3. visited' = {} => \A q \in DOMAIN stack' : q = 1
    BY <2>2
  <2>4. \A q \in DOMAIN stack' :
               /\ stack'[q].phys = (walk.kind = "phys")
               /\ \A e \in Addr(tree, stack'[q]) :
                     tree.height[e] + stack'[q].depth < MAX_DEPTH
               /\ visited' # {} => UnderRef(stack'[q]) # {}
               /\ \A v \in visited' : Apart(v, stack'[q])
    BY <2>2
  <2>5. status = "walking" /\ status' = "walking"
    BY <2>1
  <2> QED
    BY <1>4, <2>3, <2>4, <2>5
<1>11. CASE TooDeep \/ Seen
  <2>1. /\ status = "walking" /\ stack # <<>>
        /\ Head(stack).depth >= MAX_DEPTH \/ Head(stack).oid \in visited
    BY <1>11 DEF TooDeep, Seen, AtNode
  <2>2. Head(stack).oid \notin visited /\ Head(stack).depth < MAX_DEPTH
    BY <2>1, HeadIsNew
  <2>3. Head(stack) \in Ref
    BY <1>2, <2>1
  <2>4. Head(stack).depth \in Nat
    BY <2>3 DEF Ref
  <2> QED
    BY <2>1, <2>2, <2>4, DepthAssumption
<1>12. CASE Skip \/ Leaf
  <2>1. /\ status = "walking" /\ status' = "walking" /\ stack # <<>>
        /\ stack' = Tail(stack) /\ visited' = visited \cup {Head(stack).oid}
    BY <1>12 DEF Skip, Leaf, ReadAt, Enter, AtNode
  <2>2. Head(stack) = stack[1]
    BY <1>2, <2>1
  <2>3. ASSUME NEW q \in DOMAIN stack'
        PROVE  /\ stack'[q].phys = (walk.kind = "phys")
               /\ \A e \in Addr(tree, stack'[q]) :
                     tree.height[e] + stack'[q].depth < MAX_DEPTH
               /\ UnderRef(stack'[q]) # {}
               /\ \A v \in visited' : Apart(v, stack'[q])
    BY <1>5, <1>6, <1>7, <2>1, <2>2
  <2>4. visited' # {}
    BY <2>1
  <2> QED
    BY <1>4, <2>1, <2>3, <2>4
<1>13. CASE Index
  <2>1. /\ visited' = visited \cup {stack[1].oid} /\ status' = "walking"
        /\ status = "walking" /\ 1 \in DOMAIN stack
    BY <1>13, IndexSplit
  <2>2. PICK a \in Addr(tree, stack[1]) : \A q \in DOMAIN stack' :
                \/ /\ stack'[q].phys = (walk.kind = "phys")
                   /\ stack'[q].depth = stack[1].depth + 1
                   /\ \A c \in Addr(tree, stack'[q]) :
                        c \in DOMAIN tree.nodes /\ tree.height[c] < tree.height[a]
                   /\ UnderRef(stack'[q]) \subseteq UnderRef(stack[1])
                   /\ UnderRef(stack'[q]) # {}
                \/ \E m \in DOMAIN stack : m > 1 /\ stack'[q] = stack[m]
    BY <1>13, IndexSplit
  <2>3. /\ stack[1] \in Ref /\ stack[1].depth \in Nat
        /\ a \in DOMAIN tree.nodes
        /\ tree.height[a] + stack[1].depth < MAX_DEPTH
        /\ \A c \in DOMAIN tree.nodes : tree.height[c] \in Nat
    <3>1. stack[1] \in Ref /\ stack[1].depth \in Nat
      BY <1>2, <2>1, DepthAssumption DEF Ref
    <3>2. a \in DOMAIN tree.nodes
      BY <2>1, <2>2 DEF WalkInv, StackResolves
    <3>3. \A c \in DOMAIN tree.nodes : tree.height[c] \in Nat
      BY DepthAssumption DEF WellFormed
    <3> QED
      BY <1>6, <2>1, <2>2, <3>1, <3>2, <3>3
  <2>4. Addr(tree, NodeRef(stack[1].oid)) = {a}
    <3>1. Addr(tree, stack[1]) = {a}
      BY <2>2, OneAddress DEF TypeOK
    <3> QED
      BY <1>6, <2>1, <2>3, <3>1, SameAddr
  <2>5. ASSUME NEW q \in DOMAIN stack'
        PROVE  /\ stack'[q].phys = (walk.kind = "phys")
               /\ \A e \in Addr(tree, stack'[q]) :
                     tree.height[e] + stack'[q].depth < MAX_DEPTH
               /\ UnderRef(stack'[q]) # {}
               /\ \A v \in visited' : Apart(v, stack'[q])
    <3>1. CASE \E m \in DOMAIN stack : m > 1 /\ stack'[q] = stack[m]
      BY <1>6, <1>7, <2>1, <3>1
    <3>2. CASE /\ stack'[q].phys = (walk.kind = "phys")
               /\ stack'[q].depth = stack[1].depth + 1
               /\ \A c \in Addr(tree, stack'[q]) :
                    c \in DOMAIN tree.nodes /\ tree.height[c] < tree.height[a]
               /\ UnderRef(stack'[q]) \subseteq UnderRef(stack[1])
               /\ UnderRef(stack'[q]) # {}
      <4>1. \A e \in Addr(tree, stack'[q]) :
               tree.height[e] + stack'[q].depth < MAX_DEPTH
        BY <2>3, <3>2, DepthAssumption
      <4>2. Apart(stack[1].oid, stack'[q])
        BY <2>3, <2>4, <3>2 DEF Apart
      <4>3. ASSUME NEW v \in visited PROVE Apart(v, stack'[q])
        <5>1. Apart(v, stack[1])
          BY <1>6, <2>1
        <5>2. CASE \A r \in UnderRef(NodeRef(v)), p \in UnderRef(stack[1]) :
                      KeyLess(r, p)
          BY <3>2, <5>2 DEF Apart
        <5>3. CASE \A c \in Addr(tree, NodeRef(v)), e \in Addr(tree, stack[1]) :
                      c \in DOMAIN tree.nodes /\ tree.height[e] < tree.height[c]
          <6>1. ASSUME NEW c \in Addr(tree, NodeRef(v)), NEW e \in Addr(tree, stack'[q])
                PROVE  c \in DOMAIN tree.nodes /\ tree.height[e] < tree.height[c]
            <7>1. /\ tree.height[e] < tree.height[a]
                  /\ tree.height[a] < tree.height[c]
                  /\ e \in DOMAIN tree.nodes /\ c \in DOMAIN tree.nodes
              BY <2>2, <3>2, <5>3
            <7> QED
              BY <2>3, <7>1
          <6> QED
            BY <6>1 DEF Apart
        <5> QED
          BY <5>1, <5>2, <5>3 DEF Apart
      <4> QED
        BY <2>1, <3>2, <4>1, <4>2, <4>3
    <3> QED
      BY <2>2, <3>1, <3>2
  <2>6. visited' # {}
    BY <2>1
  <2> QED
    BY <1>4, <2>1, <2>5, <2>6
<1>14. CASE UNCHANGED vars
  <2>1. stack' = stack /\ visited' = visited /\ status' = status
    BY <1>14 DEF vars
  <2>2. CASE status = "walking"
    <3>1. visited = {} => \A k \in DOMAIN stack : k = 1
      BY <2>2 DEF GuardInv
    <3> QED
      BY <1>4, <1>6, <2>1, <2>2, <3>1
  <2>3. CASE status # "walking"
    BY <2>1, <2>3 DEF GuardInv
  <2> QED
    BY <2>2, <2>3
<1>15. CASE MapDamaged
  BY <1>15 DEF MapDamaged, WellFormed
<1> QED
  BY <1>8, <1>9, <1>10, <1>11, <1>12, <1>13, <1>14, <1>15
  DEF Next, Advance, Returned

-----------------------------------------------------------------------------
\* The cycle guard misses no loop

\* The reference by which v was entered: the root's may be of another kind.
EnteredRef(v) ==
    [oid |-> v, depth |-> 0, kept |-> TRUE,
     phys |-> IF v = tree.root THEN walk.kind # "fs" ELSE walk.kind = "phys"]

\* The numbers the index node v leads to refers to.
Links(v) ==
    {x \in Nat : \E c \in Addr(tree, EnteredRef(v)) \cap DOMAIN tree.nodes :
        /\ ~tree.nodes[c].leaf
        /\ \E k \in DOMAIN tree.nodes[c].entries : tree.nodes[c].entries[k].value = x}

\* The numbers still to be entered.
Pending == {stack[k].oid : k \in DOMAIN stack}

\* f ranks the numbers entered, all below N, the root first: each links only
\* to numbers entered after it or still pending.
Ranked(f, N) ==
    /\ \A v \in visited : f[v] < N /\ f[tree.root] <= f[v]
    /\ \A v \in visited : \A x \in Links(v) :
         x \in Pending \/ (x \in visited /\ f[v] < f[x])

\* A walk of the whole tree has entered its references in an order that no
\* loop allows.
LoopInv ==
    ~walk.keyed =>
        /\ status = "start" => visited = {}
        /\ status \in {"walking", "ok"} =>
             /\ status = "ok" => stack = <<>>
             /\ \A k \in DOMAIN stack : stack[k].kept
             /\ visited = {} => status = "walking" /\ stack = <<RootRef>>
             /\ visited # {} =>
                  /\ tree.root \in visited
                  /\ \A k \in DOMAIN stack : stack[k].phys = (walk.kind = "phys")
                  /\ \E N \in Nat, f \in [visited -> Nat] : Ranked(f, N)

\* A set of numbers below a bound has a largest one.
LEMMA LargestBelow ==
    ASSUME NEW T, T # {}, NEW f, NEW N \in Nat,
           \A v \in T : f[v] \in Nat /\ f[v] < N
    PROVE  \E v \in T : \A x \in T : ~(f[v] < f[x])
<1> DEFINE R == OpToRel(<, Nat)
           D == {N - f[v] : v \in T}
<1>1. IsWellFoundedOn(R, Nat)
  BY NatLessThanWellFounded DEF OpToRel
<1>2. \A x, y \in Nat : <<x, y>> \in R <=> x < y
  BY DEF OpToRel
<1> HIDE DEF R
<1>3. D \subseteq Nat /\ D # {}
  OBVIOUS
<1>4. PICK d \in D : \A y \in D : ~(<<y, d>> \in R)
  <2> HIDE DEF D
  <2> QED
    BY <1>1, <1>3, WFMin
<1>5. PICK v \in T : d = N - f[v]
  BY <1>4
<1>6. ASSUME NEW x \in T PROVE ~(f[v] < f[x])
  <2>1. ~(N - f[x] < d)
    BY <1>2, <1>3, <1>4
  <2>2. f[x] \in Nat /\ f[v] \in Nat
    OBVIOUS
  <2> QED
    BY <1>5, <2>1, <2>2
<1> QED
  BY <1>5, <1>6

\* The tree does not change, so neither does what a number leads to.
LEMMA SameLinks ==
    ASSUME tree' = tree, walk' = walk
    PROVE  /\ \A v : Links(v)' = Links(v)
           /\ RootRef' = RootRef
<1>1. \A ref : Addr(tree, ref)' = Addr(tree, ref)
  BY SameTree
<1>2. \A v : EnteredRef(v)' = EnteredRef(v)
  BY DEF EnteredRef
<1>3. \A v : Addr(tree, EnteredRef(v))' = Addr(tree, EnteredRef(v))
  BY <1>1, <1>2
<1> QED
  BY <1>3 DEF Links, RootRef

\* The head of the stack leads where the number entered for it does.
LEMMA HeadLeads ==
    ASSUME TypeOK, LoopInv, ~walk.keyed, Enter
    PROVE  /\ Addr(tree, EnteredRef(Head(stack).oid)) = Addr(tree, Head(stack))
           /\ visited = {} => /\ Head(stack).oid = tree.root
                              /\ DOMAIN stack = {1}
<1>1. stack \in Seq(Ref) /\ stack # <<>>
  BY DEF TypeOK, Ref, Enter, AtNode
<1>2. 1 \in DOMAIN stack /\ Head(stack) = stack[1] /\ stack[1] \in Ref
  BY <1>1
<1>3. status = "walking" /\ Head(stack).oid \notin visited
  BY DEF Enter, AtNode
<1>4. CASE visited = {}
  <2>1. stack = <<RootRef>>
    BY <1>3, <1>4 DEF LoopInv
  <2>2. DOMAIN stack = {1} /\ Head(stack) = RootRef
    BY <2>1
  <2>3. Head(stack).oid = tree.root /\ Head(stack).phys = (walk.kind # "fs")
    BY <2>2 DEF RootRef
  <2> QED
    BY <2>2, <2>3 DEF Addr, EnteredRef
<1>5. CASE visited # {}
  <2>1. Head(stack).phys = (walk.kind = "phys") /\ Head(stack).oid # tree.root
    BY <1>2, <1>3, <1>5 DEF LoopInv
  <2> QED
    BY <1>5, <2>1 DEF Addr, EnteredRef
<1> QED
  BY <1>4, <1>5

\* Entering the head keeps LoopInv when its links become pending and nothing
\* else pending is dropped: the head gets the next rank.
LEMMA EnterRanks ==
    ASSUME TypeOK, LoopInv, ~walk.keyed, Enter,
           tree' = tree, walk' = walk, status' = "walking",
           Pending \subseteq Pending' \cup {Head(stack).oid},
           Links(Head(stack).oid) \subseteq Pending',
           \A q \in DOMAIN stack' :
              stack'[q].kept /\ stack'[q].phys = (walk.kind = "phys")
    PROVE  LoopInv'
<1> DEFINE w == Head(stack).oid
<1>1. /\ visited' = visited \cup {w} /\ w \notin visited /\ status = "walking"
  BY DEF Enter, AtNode
<1>2. visited = {} => w = tree.root
  BY HeadLeads
<1> HIDE DEF w
<1>3. \A v : Links(v)' = Links(v)
  BY SameLinks
<1>4. PICK N \in Nat, f \in [visited -> Nat] :
         visited # {} => tree.root \in visited /\ Ranked(f, N)
  <2>1. CASE visited = {}
    <3>1. [v \in visited |-> 0] \in [visited -> Nat]
      OBVIOUS
    <3> QED
      BY <2>1, <3>1
  <2>2. CASE visited # {}
    BY <1>1, <2>2 DEF LoopInv
  <2> QED
    BY <2>1, <2>2
<1>5. PICK g \in [visited' -> Nat] :
         g[w] = N /\ \A v \in visited : g[v] = f[v] /\ v # w
  <2> DEFINE h == [v \in visited' |-> IF v = w THEN N ELSE f[v]]
  <2>1. /\ h \in [visited' -> Nat] /\ h[w] = N
        /\ \A v \in visited : h[v] = f[v] /\ v # w
    BY <1>1
  <2> QED
    BY <2>1
<1>6. \A v \in visited : f[v] \in Nat /\ f[v] < N /\ f[tree.root] <= f[v]
  BY <1>4 DEF Ranked
<1>7. tree.root \in visited'
  BY <1>1, <1>2, <1>4
<1>8. \A v \in visited' : g[v] < N + 1 /\ g[tree.root] <= g[v]
  <2>1. CASE visited = {}
    BY <1>1, <1>2, <1>5, <2>1
  <2>2. CASE visited # {}
    <3>1. /\ g[tree.root] = f[tree.root] /\ f[tree.root] \in Nat
          /\ f[tree.root] < N
      BY <1>4, <1>5, <1>6, <2>2
    <3> QED
      BY <1>1, <1>5, <1>6, <3>1
  <2> QED
    BY <2>1, <2>2
<1>9. ASSUME NEW v \in visited', NEW x \in Links(v)
      PROVE  x \in Pending' \/ (x \in visited' /\ g[v] < g[x])
  <2>1. CASE v = w
    BY <2>1 DEF w
  <2>2. CASE v \in visited
    <3>1. x \in Pending \/ (x \in visited /\ f[v] < f[x])
      BY <1>4, <2>2 DEF Ranked
    <3>2. CASE x \in Pending
      <4>1. x \in Pending' \/ x = w
        BY <3>2 DEF w
      <4> QED
        BY <1>1, <1>5, <1>6, <2>2, <4>1
    <3>3. CASE x \in visited /\ f[v] < f[x]
      BY <1>1, <1>5, <2>2, <3>3
    <3> QED
      BY <3>1, <3>2, <3>3
  <2> QED
    BY <1>1, <2>1, <2>2
<1>10. Ranked(g, N + 1)'
  BY <1>3, <1>8, <1>9 DEF Ranked
<1>11. \E M \in Nat, h \in [visited' -> Nat] : Ranked(h, M)'
  BY <1>5, <1>10
<1>12. visited' # {}
  BY <1>1
<1> QED
  BY <1>7, <1>11, <1>12 DEF LoopInv

\* Popping the head drops nothing else.
LEMMA PopPending ==
    ASSUME TypeOK, LoopInv, ~walk.keyed, Enter, stack' = Tail(stack)
    PROVE  /\ Pending \subseteq Pending' \cup {Head(stack).oid}
           /\ \A q \in DOMAIN stack' :
                stack'[q].kept /\ stack'[q].phys = (walk.kind = "phys")
<1>1. stack \in Seq(Ref) /\ stack # <<>> /\ status = "walking"
  BY DEF TypeOK, Ref, Enter, AtNode
<1>2. /\ 1 \in DOMAIN stack /\ Head(stack) = stack[1]
      /\ \A q \in DOMAIN stack' :
           /\ q + 1 \in DOMAIN stack /\ q + 1 > 1
           /\ stack'[q] = stack[q + 1]
      /\ \A k \in DOMAIN stack :
           k = 1 \/ (k - 1 \in DOMAIN stack' /\ stack'[k - 1] = stack[k])
  BY <1>1, TailFacts
<1>3. Pending \subseteq Pending' \cup {Head(stack).oid}
  <2>1. ASSUME NEW k \in DOMAIN stack
        PROVE  \/ stack[k].oid = Head(stack).oid
               \/ \E q \in DOMAIN stack' : stack[k].oid = stack'[q].oid
    BY <1>2
  <2> QED
    BY <2>1 DEF Pending
<1>4. ASSUME NEW q \in DOMAIN stack'
      PROVE  stack'[q].kept /\ stack'[q].phys = (walk.kind = "phys")
  <2>1. visited # {}
    <3>1. q + 1 \in DOMAIN stack /\ q + 1 # 1
      BY <1>2
    <3> QED
      BY <3>1, HeadLeads
  <2> QED
    BY <1>1, <1>2, <2>1 DEF LoopInv
<1> QED
  BY <1>3, <1>4

\* A reference that is skipped, or leads to a leaf, links to nothing.
LEMMA NoLinks ==
    ASSUME TypeOK, LoopInv, ~walk.keyed, Skip \/ Leaf
    PROVE  Links(Head(stack).oid) = {}
<1>1. Enter
  BY DEF Skip, Leaf, ReadAt
<1>2. Addr(tree, EnteredRef(Head(stack).oid)) = Addr(tree, Head(stack))
  BY <1>1, HeadLeads
<1>3. CASE Skip
  <2>1. /\ Addr(tree, Head(stack)) = {Head(stack).oid}
        /\ Head(stack).oid >= AddrLimit
    BY <1>3 DEF Skip, Overflows, Addr
  <2>2. Head(stack).oid \in Nat
    <3>1. stack \in Seq(Ref) /\ stack # <<>>
      BY <1>1 DEF TypeOK, Ref, Enter, AtNode
    <3>2. Head(stack) \in Ref
      BY <3>1
    <3> QED
      BY <3>2 DEF Ref
  <2>3. Head(stack).oid \notin DOMAIN tree.nodes
    BY <2>1, <2>2, DepthAssumption DEF TypeOK, IsTree
  <2> QED
    BY <1>2, <2>1, <2>3 DEF Links
<1>4. CASE Leaf
  <2>1. PICK a \in DOMAIN tree.nodes : a \in Addr(tree, Head(stack)) /\ tree.nodes[a].leaf
    BY <1>4 DEF Leaf, ReadAt
  <2>2. \A c \in Addr(tree, Head(stack)) : c = a
    BY <2>1, OneAddress DEF TypeOK
  <2> QED
    BY <1>2, <2>1, <2>2 DEF Links
<1> QED
  BY <1>3, <1>4

\* An index node puts everything it links to on the stack.
LEMMA IndexPending ==
    ASSUME TypeOK, LoopInv, ~walk.keyed, Index
    PROVE  /\ Enter
           /\ Pending \subseteq Pending' \cup {Head(stack).oid}
           /\ Links(Head(stack).oid) \subseteq Pending'
           /\ \A q \in DOMAIN stack' :
                stack'[q].kept /\ stack'[q].phys = (walk.kind = "phys")
<1>1. PICK a \in DOMAIN tree.nodes :
        /\ Enter /\ a \in Addr(tree, Head(stack)) /\ ~tree.nodes[a].leaf
        /\ stack' = [k \in 1 .. Len(tree.nodes[a].entries) |->
                        ChildRef(tree.nodes[a].entries, k, Head(stack).depth + 1)]
                    \o Tail(stack)
  BY DEF Index, ReadAt
<1> DEFINE es == tree.nodes[a].entries
           d == Head(stack).depth + 1
           kids == [k \in 1 .. Len(es) |-> ChildRef(es, k, d)]
<1>2. stack \in Seq(Ref) /\ stack # <<>> /\ status = "walking"
  BY <1>1 DEF TypeOK, Ref, Enter, AtNode
<1>3. es \in Seq(Record)
  <2>1. tree.nodes[a] \in Node
    BY DEF TypeOK, IsTree
  <2> QED
    BY <2>1 DEF Node
<1>4. kids \in Seq(Ref) /\ stack' = kids \o Tail(stack)
  BY <1>1, ChildRefs
<1>5. DOMAIN kids = DOMAIN es /\ \A k \in DOMAIN es : kids[k] = ChildRef(es, k, d)
  BY <1>3
<1> HIDE DEF kids, d
<1>6. \A k \in DOMAIN es :
        /\ kids[k].oid = es[k].value /\ kids[k].kept
        /\ kids[k].phys = (walk.kind = "phys")
  <2> HIDE DEF es
  <2>1. \A k : Kept(es, k)
    BY DEF Kept
  <2>2. \A k : /\ ChildRef(es, k, d).oid = es[k].value
               /\ ChildRef(es, k, d).phys = (walk.kind = "phys")
               /\ ChildRef(es, k, d).kept = Kept(es, k)
    BY DEF ChildRef
  <2> QED
    BY <1>5, <2>1, <2>2
<1>7. /\ \A q \in DOMAIN stack' :
           \/ q \in DOMAIN kids /\ stack'[q] = kids[q]
           \/ /\ (q - Len(kids)) + 1 > 1
              /\ (q - Len(kids)) + 1 \in DOMAIN stack
              /\ stack'[q] = stack[(q - Len(kids)) + 1]
      /\ \A q \in DOMAIN kids : q \in DOMAIN stack' /\ stack'[q] = kids[q]
      /\ \A k \in DOMAIN stack : k # 1 =>
           /\ (k - 1) + Len(kids) \in DOMAIN stack'
           /\ stack'[(k - 1) + Len(kids)] = stack[k]
  BY <1>2, <1>4, ReplaceFacts
<1>8. Pending \subseteq Pending' \cup {Head(stack).oid}
  <2>1. 1 \in DOMAIN stack /\ Head(stack) = stack[1]
    BY <1>2
  <2> QED
    BY <1>7, <2>1 DEF Pending
<1>9. \A k \in DOMAIN es : es[k].value \in Pending'
  <2> HIDE DEF es
  <2> QED
    BY <1>5, <1>6, <1>7 DEF Pending
<1>10. Links(Head(stack).oid) \subseteq Pending'
  <2>1. Addr(tree, EnteredRef(Head(stack).oid)) = Addr(tree, Head(stack))
    BY <1>1, HeadLeads
  <2>2. \A c \in Addr(tree, Head(stack)) : c = a
    BY <1>1, OneAddress DEF TypeOK
  <2> QED
    BY <1>9, <2>1, <2>2 DEF Links
<1>11. ASSUME NEW q \in DOMAIN stack'
       PROVE  stack'[q].kept /\ stack'[q].phys = (walk.kind = "phys")
  <2>1. CASE q \in DOMAIN kids /\ stack'[q] = kids[q]
    BY <1>5, <1>6, <2>1
  <2>2. CASE \E m \in DOMAIN stack : m > 1 /\ stack'[q] = stack[m]
    <3>1. PICK m \in DOMAIN stack : m > 1 /\ stack'[q] = stack[m]
      BY <2>2
    <3>2. visited # {}
      BY <1>1, <3>1, HeadLeads
    <3> QED
      BY <1>2, <3>1, <3>2 DEF LoopInv
  <2> QED
    BY <1>7, <2>1, <2>2
<1> QED
  BY <1>1, <1>8, <1>10, <1>11

\* LoopInv is inductive.
LEMMA LoopStep == TypeOK /\ LoopInv /\ [Next]_vars => LoopInv'
<1> SUFFICES ASSUME TypeOK, LoopInv, [Next]_vars PROVE LoopInv'
  OBVIOUS
<1>0. tree' = tree /\ walk' = walk
  BY OutStep
<1> SUFFICES ASSUME ~walk.keyed PROVE LoopInv'
  BY <1>0 DEF LoopInv
<1>1. ASSUME status' \notin {"start", "walking", "ok"} PROVE LoopInv'
  BY <1>1 DEF LoopInv
<1>2. RootRef' = RootRef /\ \A v : Links(v)' = Links(v)
  BY <1>0, SameLinks
<1>3. CASE Begin
  <2>1. /\ visited' = {} /\ stack' = <<RootRef>> /\ status' = "walking"
    BY <1>3 DEF Begin, LoopInv
  <2>2. \A q \in DOMAIN stack' : stack'[q].kept
    BY <2>1 DEF RootRef
  <2> QED
    BY <1>2, <2>1, <2>2 DEF LoopInv
<1>4. CASE Prune
  <2>1. status = "walking" /\ stack # <<>> /\ ~Head(stack).kept
    BY <1>4 DEF Prune
  <2>2. stack \in Seq(Ref)
    BY DEF TypeOK, Ref
  <2>3. 1 \in DOMAIN stack /\ Head(stack) = stack[1]
    BY <2>1, <2>2
  <2> QED
    BY <2>1, <2>3 DEF LoopInv
<1>5. CASE Skip \/ Leaf
  <2>1. Enter /\ stack' = Tail(stack) /\ status' = "walking"
    BY <1>5 DEF Skip, Leaf, ReadAt, Enter, AtNode
  <2>2. Links(Head(stack).oid) \subseteq Pending'
    BY <1>5, NoLinks
  <2>3. /\ Pending \subseteq Pending' \cup {Head(stack).oid}
        /\ \A q \in DOMAIN stack' :
             stack'[q].kept /\ stack'[q].phys = (walk.kind = "phys")
    BY <2>1, PopPending
  <2> QED
    BY <1>0, <2>1, <2>2, <2>3, EnterRanks
<1>6. CASE Index
  <2>1. status' = "walking"
    BY <1>6 DEF Index, ReadAt, Enter, AtNode
  <2> QED
    BY <1>0, <1>6, <2>1, IndexPending, EnterRanks
<1>7. CASE Finish \/ UNCHANGED vars
  <2>1. /\ visited' = visited /\ stack' = stack
        /\ status' = status \/ (status = "walking" /\ status' = "ok" /\ stack = <<>>)
    BY <1>7 DEF Finish, Return, vars
  <2>2. Pending' = Pending
    BY <2>1 DEF Pending
  <2>3. \A f, N : Ranked(f, N)' <=> Ranked(f, N)
    BY <1>0, <1>2, <2>1, <2>2 DEF Ranked
  <2>4. CASE status \in {"walking", "ok"}
    <3>1. status' = "ok" => stack' = <<>>
      BY <2>1, <2>4 DEF LoopInv
    <3>2. visited' = {} => status' = "walking" /\ stack' = <<RootRef>>
      BY <2>1, <2>4 DEF LoopInv
    <3>3. visited' # {} => \E N \in Nat, f \in [visited' -> Nat] : Ranked(f, N)'
      BY <2>1, <2>3, <2>4 DEF LoopInv
    <3>4. /\ \A k \in DOMAIN stack' : stack'[k].kept
          /\ visited' # {} =>
               /\ tree'.root \in visited'
               /\ \A k \in DOMAIN stack' : stack'[k].phys = (walk'.kind = "phys")
      BY <1>0, <2>1, <2>4 DEF LoopInv
    <3>5. status' # "start"
      BY <2>1, <2>4
    <3> QED
      BY <1>2, <3>1, <3>2, <3>3, <3>4, <3>5 DEF LoopInv
  <2>5. CASE status \notin {"walking", "ok"}
    BY <2>1, <2>5 DEF LoopInv
  <2> QED
    BY <2>4, <2>5
<1>8. CASE HeaderRejected \/ HeaderUnreadable \/ TooDeep \/ Seen \/ Unresolved
           \/ Unreadable \/ MapDamaged \/ Corrupt
  <2>1. status' \in {"UnexpectedObjectType", "ChecksumMismatch", "Io",
                     "OmapUnresolved", "CycleGuard"}
    BY <1>8 DEF HeaderRejected, HeaderUnreadable, TooDeep, Seen, Unresolved,
                Unreadable, MapDamaged, Corrupt, Return, TypeOK, IsTree
  <2> QED
    BY <1>1, <2>1
<1> QED
  BY <1>3, <1>4, <1>5, <1>6, <1>7, <1>8 DEF Next, Advance, Returned

\* Once the walk has returned Ok, no node under the root is under itself: of
\* the numbers that lead to it take the one entered last; everything under it
\* was entered later, and so leads to other nodes.
LEMMA NoMissedLoop ==
    ASSUME TypeOK, LoopInv, status = "ok", ~walk.keyed,
           NEW r \in Addr(tree, RootRef) \cap DOMAIN tree.nodes,
           NEW a \in {r} \cup Descendants(r), a \in Descendants(a)
    PROVE  FALSE
<1>1. /\ stack = <<>> /\ visited # {} /\ tree.root \in visited
      /\ \E N \in Nat, f \in [visited -> Nat] : Ranked(f, N)
  BY DEF LoopInv
<1>2. PICK N \in Nat, f \in [visited -> Nat] : Ranked(f, N)
  BY <1>1
<1>3. Pending = {}
  BY <1>1 DEF Pending
<1>4. \A v \in visited : f[v] \in Nat /\ f[v] < N /\ f[tree.root] <= f[v]
  BY <1>2 DEF Ranked
<1> DEFINE Leads(v) == Addr(tree, EnteredRef(v)) \cap DOMAIN tree.nodes
           After(n) == {b \in DOMAIN tree.nodes :
                          \E x \in visited : n <= f[x] /\ b \in Leads(x)}
<1>5. ASSUME NEW v \in visited, NEW c \in Leads(v), NEW b \in Children(c)
      PROVE  \E x \in visited : f[v] < f[x] /\ b \in Leads(x)
  <2>1. ~tree.nodes[c].leaf /\ b \in DOMAIN tree.nodes
    <3>1. CASE tree.nodes[c].leaf
      <4>1. Children(c) = {}
        BY <3>1 DEF Children
      <4> QED
        BY <4>1
    <3>2. CASE ~tree.nodes[c].leaf
      <4> DEFINE U == UNION {ChildAddr(tree, walk, tree.nodes[c].entries[k]) :
                               k \in DOMAIN tree.nodes[c].entries}
      <4>1. Children(c) = DOMAIN tree.nodes \cap U
        BY <3>2 DEF Children
      <4> HIDE DEF U
      <4> QED
        BY <3>2, <4>1
    <3> QED
      BY <3>1, <3>2
  <2>2. PICK k \in DOMAIN tree.nodes[c].entries :
           b \in ChildAddr(tree, walk, tree.nodes[c].entries[k])
    BY <1>5, <2>1 DEF Children
  <2> DEFINE x == tree.nodes[c].entries[k].value
  <2>3. x \in Nat
    <3>1. tree.nodes[c] \in Node
      BY <1>5 DEF TypeOK, IsTree
    <3>2. tree.nodes[c].entries[k] \in Record
      BY <3>1 DEF Node
    <3> QED
      BY <3>2 DEF Record
  <2>4. b \in Addr(tree, [oid |-> x, phys |-> walk.kind = "phys", depth |-> 0])
    BY <2>2 DEF ChildAddr
  <2>5. x \in Links(v)
    BY <1>5, <2>1, <2>3 DEF Links
  <2> HIDE DEF x
  <2>6. x \in visited /\ f[v] < f[x]
    BY <1>2, <1>3, <2>5 DEF Ranked
  <2>7. x # tree.root
    BY <1>4, <2>6
  <2>8. b \in Leads(x)
    BY <2>1, <2>4, <2>7 DEF Addr, EnteredRef
  <2> QED
    BY <2>6, <2>8
<1>6. ASSUME NEW n \in Nat PROVE \A c \in After(n) : Children(c) \subseteq After(n)
  <2> SUFFICES ASSUME NEW c \in After(n), NEW b \in Children(c) PROVE b \in After(n)
    OBVIOUS
  <2>1. PICK v \in visited : n <= f[v] /\ c \in Leads(v)
    OBVIOUS
  <2>2. PICK x \in visited : f[v] < f[x] /\ b \in Leads(x)
    BY <1>5, <2>1
  <2>3. n <= f[x]
    BY <1>4, <2>1, <2>2
  <2> QED
    BY <2>2, <2>3
<1>7. \A n : After(n) \in SUBSET DOMAIN tree.nodes
  OBVIOUS
<1>8. ASSUME NEW c, NEW n \in Nat, NEW b \in Descendants(c),
             Children(c) \subseteq After(n)
      PROVE  b \in After(n)
  <2> HIDE DEF After
  <2> QED
    BY <1>6, <1>7, <1>8 DEF Descendants
<1>9. a \in After(0)
  <2>1. r \in After(0)
    <3>1. r \in Leads(tree.root)
      BY DEF Addr, EnteredRef, RootRef
    <3> QED
      BY <1>1, <1>4, <3>1
  <2>2. Children(r) \subseteq After(0)
    BY <1>6, <2>1
  <2> QED
    BY <1>8, <2>1, <2>2
<1> DEFINE T == {v \in visited : a \in Leads(v)}
<1>10. T # {} /\ \A v \in T : f[v] \in Nat /\ f[v] < N
  BY <1>4, <1>9
<1>11. PICK v \in T : \A x \in T : ~(f[v] < f[x])
  <2> HIDE DEF T
  <2> QED
    BY <1>10, LargestBelow
<1>12. Children(a) \subseteq After(f[v] + 1)
  <2> SUFFICES ASSUME NEW b \in Children(a) PROVE b \in After(f[v] + 1)
    OBVIOUS
  <2>1. PICK x \in visited : f[v] < f[x] /\ b \in Leads(x)
    BY <1>5, <1>11
  <2>2. f[v] + 1 <= f[x]
    BY <1>4, <1>11, <2>1
  <2> QED
    BY <2>1, <2>2
<1>13. a \in After(f[v] + 1)
  BY <1>8, <1>10, <1>11, <1>12
<1>14. PICK x \in visited : f[v] + 1 <= f[x] /\ a \in Leads(x)
  BY <1>13
<1>15. x \in T /\ f[v] < f[x]
  BY <1>4, <1>11, <1>14
<1> QED
  BY <1>11, <1>15

\* A walk of the whole tree that meets a loop anywhere never returns Ok, and a
\* well-formed tree is never refused as cyclic, whatever its shape or depth
\* below the cap (dir.rs and btree.rs, visited and the depth caps).
THEOREM TrueCycleGuard == Spec => []CycleGuardIsTrue
<1>1. Init => WalkInv /\ GuardInv /\ LoopInv
  BY DEF Init, WalkInv, OutInOrder, Delivered, GuardInv, LoopInv
<1>2. TypeOK /\ GuardInv /\ LoopInv => CycleGuardIsTrue
  <2>1. GuardInv => ((WellFormed(tree, walk) /\ walk.kind # "snap")
                        => status # "CycleGuard")
    BY DEF GuardInv
  <2>2. ASSUME TypeOK, LoopInv, status = "ok", ~walk.keyed,
               NEW r \in Addr(tree, RootRef) \cap DOMAIN tree.nodes,
               NEW a \in {r} \cup Descendants(r)
        PROVE  a \notin Descendants(a)
    BY <2>2, NoMissedLoop
  <2> QED
    BY <2>1, <2>2 DEF CycleGuardIsTrue
<1> QED
  BY <1>1, <1>2, WalkStep, GuardStep, LoopStep, TypeCorrect, PTL DEF Spec
=============================================================================
