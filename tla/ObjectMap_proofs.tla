--------------------------- MODULE ObjectMap_proofs ---------------------------
(***************************************************************************)
(* For every tree, every lookup and every depth cap: a lookup in a         *)
(* well-formed tree answers with the floor of (oid, xid) over the whole    *)
(* tree although it reads one path, and in any tree at all an answer is a  *)
(* real entry and only checksummed nodes direct the descent.  Every step   *)
(* maps to a step of VersionedMap or to a stutter.                         *)
(***************************************************************************)
EXTENDS ObjectMap, WellFoundedInduction, TLAPS

\* Why one path suffices: whatever the descent has left behind, the answer
\* for the subtree it is about to read is the answer for the whole tree.
CoversFloor ==
    (WellFormed(tree) /\ Running) =>
        /\ paddr \in DOMAIN tree.nodes
        /\ VM!Floor(tree.below[paddr], query.oid, query.xid) =
             VM!Floor(tree.below[tree.root], query.oid, query.xid)

\* Only checksummed nodes have directed the descent so far.
TrustInv ==
    Running =>
        \A b \in visited : b \in DOMAIN tree.nodes /\ tree.nodes[b].cksum

IInv == TypeOK /\ CoversFloor /\ TrustInv /\ ResolvesFloor /\ AnswerIsReal

-----------------------------------------------------------------------------
\* A non-empty set of naturals has a least element.
LEMMA Least ==
    ASSUME NEW S \in SUBSET Nat, S # {}
    PROVE  \E x \in S : \A y \in S : x <= y
<1>1. PICK x \in S : \A y \in S : ~(<<y, x>> \in OpToRel(<, Nat))
  BY NatLessThanWellFounded, WFMin, Zenon
<1>2. \A y \in S : ~(y < x)
  BY <1>1 DEF OpToRel
<1> QED
  BY <1>2

\* The scan for the child of a non-empty index node (btree.rs, find_leaf)
\* always ends on an entry, the last before the first greater separator.
LEMMA ChildExists ==
    ASSUME NEW es \in Seq(Entry), es # <<>>
    PROVE  LET c == ChildIndex(es)
           IN  /\ c \in DOMAIN es
               /\ \A k \in 1 .. c : k > 1 => ~KeyGreater(es[k], query)
               /\ \/ c = Len(es)
                  \/ KeyGreater(es[c + 1], query)
                  \/ c = 1 /\ KeyGreater(es[1], query)
<1> DEFINE G == {k \in 2 .. Len(es) : KeyGreater(es[k], query)}
           Good(c) == /\ \A k \in 1 .. c : KeyGreater(es[k], query) => c = 1
                      /\ \/ c = Len(es)
                         \/ KeyGreater(es[c + 1], query)
                         \/ KeyGreater(es[1], query)
<1>1. Len(es) \in Nat /\ Len(es) >= 1 /\ DOMAIN es = 1 .. Len(es)
  OBVIOUS
<1>2. \E c \in DOMAIN es : Good(c)
  <2>0. CASE KeyGreater(es[1], query)
    <3>1. 1 \in DOMAIN es /\ Good(1)
      BY <1>1, <2>0
    <3> QED
      BY <3>1
  <2>1. CASE ~KeyGreater(es[1], query) /\ G = {}
    <3>1. Len(es) \in DOMAIN es /\ Good(Len(es))
      BY <1>1, <2>1
    <3> QED
      BY <3>1
  <2>2. CASE ~KeyGreater(es[1], query) /\ G # {}
    <3>0. G \in SUBSET Nat
      BY <1>1
    <3>1. PICK g \in G : \A y \in G : g <= y
      <4> HIDE DEF G
      <4> QED
        BY <2>2, <3>0, Least
    <3>2. g - 1 \in DOMAIN es /\ Good(g - 1)
      BY <3>1, <1>1, <2>2
    <3> QED
      BY <3>2
  <2> QED
    BY <2>0, <2>1, <2>2
<1>3. ChildIndex(es) = CHOOSE c \in DOMAIN es : Good(c)
  BY DEF ChildIndex
<1> HIDE DEF Good
<1>4. ChildIndex(es) \in DOMAIN es /\ Good(ChildIndex(es))
  BY <1>2, <1>3
<1>5. \A k \in 1 .. ChildIndex(es) : KeyGreater(es[k], query) => ChildIndex(es) = 1
  BY <1>4 DEF Good
<1>6. \/ ChildIndex(es) = Len(es)
      \/ KeyGreater(es[ChildIndex(es) + 1], query)
      \/ KeyGreater(es[1], query)
  BY <1>4 DEF Good
<1>7. KeyGreater(es[1], query) => ChildIndex(es) = 1
  BY <1>1, <1>4, <1>5
<1> QED
  BY <1>1, <1>4, <1>5, <1>6, <1>7

\* The entry read at an index node leads to a subtree with the same floor as
\* the node's own: keys left of it are older versions or other objects, keys
\* right of it lie after the one looked up.
LEMMA ChildKeepsFloor ==
    ASSUME IsTree(tree), query \in [oid : Nat, xid : Nat],
           WellFormed(tree), NEW a \in DOMAIN tree.nodes,
           ~tree.nodes[a].leaf
    PROVE  LET es == tree.nodes[a].entries
               child == es[ChildIndex(es)].value
           IN  /\ child \in DOMAIN tree.nodes
               /\ VM!Floor(tree.below[child], query.oid, query.xid) =
                    VM!Floor(tree.below[a], query.oid, query.xid)
<1> DEFINE es == tree.nodes[a].entries
           c == ChildIndex(es)
           Under(k) == tree.below[es[k].value]
           B == tree.below[a]
<1>1. es \in Seq(Entry) /\ es # <<>>
  BY DEF IsTree, Node, WellFormed, NodeWellFormed
<1>2. /\ \A k \in DOMAIN es : es[k].value \in DOMAIN tree.nodes
      /\ B = UNION {Under(k) : k \in DOMAIN es}
      /\ \A k \in DOMAIN es :
           /\ \E e \in Under(k) : e.oid = es[k].oid /\ e.xid = es[k].xid
           /\ \A e \in Under(k) : ~KeyLess(e, es[k])
           /\ \A m \in DOMAIN es : m > k =>
                \A e \in Under(k) : KeyLess(e, es[m])
  BY Zenon DEF WellFormed, NodeWellFormed
<1>3. \A k \in DOMAIN es : Under(k) \subseteq Entry
  BY <1>2, Zenon DEF WellFormed, NodeWellFormed
<1>4. /\ c \in DOMAIN es
      /\ \A k \in 1 .. c : k > 1 => ~KeyGreater(es[k], query)
      /\ \/ c = Len(es)
         \/ KeyGreater(es[c + 1], query)
         \/ c = 1 /\ KeyGreater(es[1], query)
  BY <1>1, ChildExists
<1> HIDE DEF es, c, Under, B
<1>5. /\ DOMAIN es = 1 .. Len(es) /\ Len(es) \in Nat
      /\ \A k \in DOMAIN es : es[k].oid \in Nat /\ es[k].xid \in Nat
  <2>1. DOMAIN es = 1 .. Len(es) /\ Len(es) \in Nat
    BY <1>1
  <2>2. \A k \in DOMAIN es : es[k] \in Entry
    BY <1>1, <2>1
  <2> QED
    BY <2>1, <2>2 DEF Entry
<1> DEFINE Match(e) == e.oid = query.oid /\ e.xid <= query.xid
<1>6. /\ \A e \in B : \E k \in DOMAIN es : e \in Under(k)
      /\ Under(c) \subseteq B
      /\ \A e \in B : e.oid \in Nat /\ e.xid \in Nat
  <2>1. \A e \in B : \E k \in DOMAIN es : e \in Under(k)
    BY <1>2
  <2>2. Under(c) \subseteq B
    BY <1>2, <1>4
  <2>3. \A e \in B : e \in Entry
    BY <2>1, <1>3, Zenon
  <2> QED
    BY <2>1, <2>2, <2>3 DEF Entry
<1>7. query.oid \in Nat /\ query.xid \in Nat
  OBVIOUS
\* Separators ascend.
<1>8. \A k, m \in DOMAIN es : k < m => KeyLess(es[k], es[m])
  <2> SUFFICES ASSUME NEW k \in DOMAIN es, NEW m \in DOMAIN es, k < m
               PROVE  KeyLess(es[k], es[m])
    OBVIOUS
  <2>1. PICK e \in Under(k) : e.oid = es[k].oid /\ e.xid = es[k].xid
    BY <1>2
  <2>2. KeyLess(e, es[m])
    BY <1>2, <1>5
  <2> QED
    BY <2>1, <2>2 DEF KeyLess
\* No version of the object looked up lies right of the child.
<1>9. ASSUME NEW e \in B, Match(e), NEW k \in DOMAIN es, e \in Under(k)
      PROVE  k <= c
  <2> SUFFICES ASSUME k > c PROVE FALSE
    BY <1>4, <1>5
  <2>1. ~KeyLess(e, es[k])
    BY <1>2, <1>9
  <2>2. PICK s \in DOMAIN es : s <= k /\ KeyGreater(es[s], query)
    BY <1>4, <1>5, <1>9
  <2>3. s = k \/ KeyLess(es[s], es[k])
    BY <2>2, <1>8, <1>5
  <2> QED
    BY <2>1, <2>2, <2>3, <1>5, <1>6, <1>7, <1>9 DEF KeyLess, KeyGreater
\* A version left of the child is older than some version in the child.
<1>10. ASSUME NEW e \in B, Match(e), e \notin Under(c)
       PROVE  \E f \in Under(c) : Match(f) /\ e.xid < f.xid
  <2>1. PICK k \in DOMAIN es : e \in Under(k)
    BY <1>6
  <2>2. k < c
    BY <2>1, <1>9, <1>10, <1>4, <1>5
  <2>3. KeyLess(e, es[c]) /\ ~KeyGreater(es[c], query)
    BY <2>1, <2>2, <1>2, <1>4, <1>5
  <2>4. PICK f \in Under(c) : f.oid = es[c].oid /\ f.xid = es[c].xid
    BY <1>2, <1>4
  <2>5. Match(f) /\ e.xid < f.xid
    BY <2>3, <2>4, <1>4, <1>5, <1>6, <1>7, <1>10 DEF KeyLess, KeyGreater
  <2> QED
    BY <2>5
<1>11. \A e \in VM!Floor(B, query.oid, query.xid) :
          e \in VM!Floor(Under(c), query.oid, query.xid)
  <2> SUFFICES ASSUME NEW e \in VM!Floor(B, query.oid, query.xid)
               PROVE  e \in VM!Floor(Under(c), query.oid, query.xid)
    OBVIOUS
  <2>1. e \in B /\ Match(e) /\ \A f \in B : Match(f) => f.xid <= e.xid
    BY DEF VM!Floor, VM!Versions
  <2>2. e \in Under(c)
    BY <2>1, <1>6, <1>10
  <2> QED
    BY <2>1, <2>2, <1>6 DEF VM!Floor, VM!Versions
<1>12. \A e \in VM!Floor(Under(c), query.oid, query.xid) :
          e \in VM!Floor(B, query.oid, query.xid)
  <2> SUFFICES ASSUME NEW e \in VM!Floor(Under(c), query.oid, query.xid)
               PROVE  e \in VM!Floor(B, query.oid, query.xid)
    OBVIOUS
  <2>1. /\ e \in Under(c) /\ Match(e)
        /\ \A f \in Under(c) : Match(f) => f.xid <= e.xid
    BY DEF VM!Floor, VM!Versions
  <2>2. ASSUME NEW g \in B, Match(g) PROVE g.xid <= e.xid
    <3>1. CASE g \in Under(c)
      BY <2>1, <2>2, <3>1
    <3>2. CASE g \notin Under(c)
      <4>1. PICK f \in Under(c) : Match(f) /\ g.xid < f.xid
        BY <1>10, <2>2, <3>2
      <4> QED
        BY <4>1, <2>1, <1>6
    <3> QED
      BY <3>1, <3>2
  <2> QED
    BY <2>1, <2>2, <1>6 DEF VM!Floor, VM!Versions
<1>13. VM!Floor(Under(c), query.oid, query.xid) =
         VM!Floor(B, query.oid, query.xid)
  BY <1>11, <1>12
<1> QED
  BY <1>13, <1>2, <1>4 DEF es, c, Under, B

\* The scan of the landing leaf (omap.rs, the visit closure) computes the
\* floor of that leaf; keys ascend strictly, so no two versions tie.
LEMMA LeafIsFloor ==
    ASSUME IsTree(tree), WellFormed(tree), NEW a \in DOMAIN tree.nodes,
           tree.nodes[a].leaf
    PROVE  LeafBest(tree.nodes[a].entries) =
             VM!Floor(tree.below[a], query.oid, query.xid)
<1> DEFINE es == tree.nodes[a].entries
           B == tree.below[a]
<1>1. es \in Seq(Entry)
  BY DEF IsTree, Node
<1>2. /\ B = {es[k] : k \in DOMAIN es}
      /\ \A k, m \in DOMAIN es : k < m => KeyLess(es[k], es[m])
  BY Zenon DEF WellFormed, NodeWellFormed
<1> HIDE DEF es, B
<1>3. /\ DOMAIN es \subseteq Nat
      /\ \A k \in DOMAIN es : es[k].oid \in Nat /\ es[k].xid \in Nat
  <2>1. DOMAIN es = 1 .. Len(es) /\ Len(es) \in Nat
    BY <1>1
  <2>2. \A k \in DOMAIN es : es[k] \in Entry
    BY <1>1, <2>1
  <2> QED
    BY <2>1, <2>2 DEF Entry
<1>4. ASSUME NEW e \in LeafBest(es)
      PROVE  e \in VM!Floor(B, query.oid, query.xid)
  BY <1>2, <1>3 DEF LeafBest, Matches, VM!Floor, VM!Versions
<1>5. ASSUME NEW e \in VM!Floor(B, query.oid, query.xid)
      PROVE  e \in LeafBest(es)
  <2>1. PICK m \in DOMAIN es : e = es[m]
    BY <1>2 DEF VM!Floor, VM!Versions
  <2>2. /\ m \in Matches(es)
        /\ \A n \in Matches(es) : es[n].xid <= es[m].xid
    BY <2>1, <1>2 DEF VM!Floor, VM!Versions, Matches
  <2>3. ASSUME NEW n \in Matches(es), n < m
        PROVE  es[n].xid < es[m].xid
    BY <2>2, <2>3, <1>2, <1>3 DEF Matches, KeyLess
  <2> QED
    BY <2>1, <2>2, <2>3 DEF LeafBest
<1> QED
  BY <1>4, <1>5 DEF es, B

-----------------------------------------------------------------------------
\* What reading a node reveals is an entry sequence.
LEMMA NodeType ==
    ASSUME IsTree(tree), NEW a \in DOMAIN tree.nodes
    PROVE  /\ tree.nodes[a].entries \in Seq(Entry)
           /\ tree.nodes[a].cksum \in BOOLEAN /\ tree.nodes[a].leaf \in BOOLEAN
BY DEF IsTree, Node

\* Type correctness of one step.
LEMMA TypeStep == TypeOK /\ [Next]_vars => TypeOK'
<1> SUFFICES ASSUME TypeOK, [Next]_vars PROVE TypeOK'
  OBVIOUS
<1> USE DepthAssumption DEF Return, Visit, Turn, Running, VM!Failed
<1>1. CASE TooDeep
  BY <1>1 DEF TypeOK, TooDeep
<1>2. CASE CycleFound
  BY <1>2 DEF TypeOK, CycleFound
<1>3. CASE NodeUnreadable
  BY <1>3 DEF TypeOK, NodeUnreadable
<1>4. CASE NodeCorrupt
  BY <1>4 DEF TypeOK, NodeCorrupt
<1>5. CASE AtLeaf
  BY <1>5 DEF TypeOK, AtLeaf
<1>6. CASE AtEmptyIndex
  BY <1>6 DEF TypeOK, AtEmptyIndex
<1>7. CASE Descend
  <2> DEFINE es == tree.nodes[paddr].entries
  <2>1. es \in Seq(Entry) /\ es # <<>> /\ paddr' = es[ChildIndex(es)].value
    BY <1>7, NodeType DEF TypeOK, Descend, Sound, Readable
  <2> HIDE DEF es
  <2>2. es[ChildIndex(es)] \in Entry
    BY <2>1, ChildExists
  <2>3. paddr' \in Nat
    BY <2>1, <2>2 DEF Entry
  <2>4. /\ tree' = tree /\ query' = query /\ answer' = answer
        /\ turn < MAX_BTREE_DEPTH /\ turn' = turn + 1
        /\ visited' = visited \cup {paddr}
    BY <1>7 DEF Descend
  <2> QED
    BY <2>3, <2>4 DEF TypeOK
<1>8. CASE UNCHANGED vars
  BY <1>8 DEF TypeOK, vars
<1>9. CASE AddressOverflows
  BY <1>9 DEF TypeOK, AddressOverflows
<1> QED
  BY <1>1, <1>2, <1>3, <1>4, <1>5, <1>6, <1>7, <1>8, <1>9 DEF Next, Advance, Returned

\* Whether a tree is well formed, and the floor in it, depend on it alone.
LEMMA SameTree ==
    ASSUME tree' = tree, query' = query
    PROVE  /\ WellFormed(tree)' <=> WellFormed(tree)
           /\ VM!Resolved(tree.below[tree.root], query)' =
                VM!Resolved(tree.below[tree.root], query)
<1>1. WellFormed(tree)' <=> WellFormed(tree)
  BY DEF WellFormed, NodeWellFormed, KeyLess
<1>2. VM!Resolved(tree.below[tree.root], query)' =
        VM!Resolved(tree.below[tree.root], query)
  BY DEF VM!Resolved, VM!Floor, VM!Versions, VM!Failed
<1> QED
  BY <1>1, <1>2

\* IInv is inductive: one step per action.
LEMMA InductiveStep == IInv /\ [Next]_vars => IInv'
<1> SUFFICES ASSUME IInv, [Next]_vars PROVE IInv'
  OBVIOUS
<1>0. TypeOK /\ TypeOK' /\ CoversFloor /\ TrustInv /\ ResolvesFloor /\ AnswerIsReal
  BY TypeStep DEF IInv
\* A step that returns an error leaves nothing to show.
<1>1. CASE /\ tree' = tree /\ query' = query
           /\ answer'.status \notin {"pending", "ok", "OmapUnresolved"}
           /\ answer'.entry = {}
  BY <1>0, <1>1
  DEF IInv, CoversFloor, TrustInv, ResolvesFloor, AnswerIsReal, Running
<1>2. CASE TooDeep \/ CycleFound \/ NodeUnreadable \/ NodeCorrupt
  <2>1. /\ tree' = tree /\ query' = query
        /\ answer'.status \in {"CycleGuard", "Io", "ChecksumMismatch"}
        /\ answer'.entry = {}
    BY <1>2
    DEF TooDeep, CycleFound, NodeUnreadable, NodeCorrupt, Return, VM!Failed
  <2> QED
    BY <1>1, <2>1
<1>3. CASE AtLeaf
  <2> DEFINE es == tree.nodes[paddr].entries
             found == LeafBest(es)
             F == VM!Floor(tree.below[tree.root], query.oid, query.xid)
  <2>1. /\ tree' = tree /\ query' = query
        /\ paddr \in DOMAIN tree.nodes /\ visited' = visited \cup {paddr}
        /\ tree.nodes[paddr].cksum /\ tree.nodes[paddr].leaf
        /\ answer' = IF found = {} THEN VM!Failed("OmapUnresolved")
                     ELSE [status |-> "ok", entry |-> found]
        /\ Running
    BY <1>3 DEF AtLeaf, Return, Visit, Turn, Sound, Readable
  <2>2. WellFormed(tree) => found = F
    BY <2>1, <1>0, LeafIsFloor DEF CoversFloor, TypeOK
  <2>3. ResolvesFloor'
    <3>1. WellFormed(tree) =>
            answer' = VM!Resolved(tree.below[tree.root], query)
      BY <2>1, <2>2 DEF VM!Resolved
    <3> QED
      BY <2>1, <3>1, SameTree DEF ResolvesFloor
  <2>4. answer'.entry \subseteq found
    BY <2>1 DEF VM!Failed
  <2>5. AnswerIsReal'
    <3>1. \A b \in visited' : b \in DOMAIN tree.nodes /\ tree.nodes[b].cksum
      BY <1>0, <2>1 DEF TrustInv
    <3>2. ASSUME NEW e \in answer'.entry
          PROVE  /\ e.oid = query.oid /\ e.xid <= query.xid
                 /\ \E k \in DOMAIN es : es[k] = e
      BY <2>4, <3>2 DEF LeafBest, Matches
    <3> QED
      BY <2>1, <3>1, <3>2 DEF AnswerIsReal
  <2>6. CoversFloor' /\ TrustInv'
    BY <2>1 DEF CoversFloor, TrustInv, Running, VM!Failed
  <2> QED
    BY <1>0, <2>3, <2>5, <2>6 DEF IInv
<1>4. CASE AtEmptyIndex
  <2>1. /\ tree' = tree /\ query' = query /\ answer'.entry = {}
        /\ answer'.status = "OmapUnresolved"
        /\ Running /\ paddr \in DOMAIN tree.nodes
        /\ ~tree.nodes[paddr].leaf /\ tree.nodes[paddr].entries = <<>>
    BY <1>4 DEF AtEmptyIndex, Return, Visit, Turn, Sound, Readable, VM!Failed
  <2>2. ~WellFormed(tree)
    BY <2>1 DEF WellFormed, NodeWellFormed
  <2>3. ~WellFormed(tree)'
    BY <2>1, <2>2, SameTree
  <2> QED
    BY <1>0, <2>1, <2>3
    DEF IInv, CoversFloor, TrustInv, ResolvesFloor, AnswerIsReal, Running
<1>5. CASE Descend
  <2> DEFINE es == tree.nodes[paddr].entries
  <2>1. /\ tree' = tree /\ query' = query /\ answer' = answer /\ Running
        /\ visited' = visited \cup {paddr}
        /\ paddr \in DOMAIN tree.nodes /\ ~tree.nodes[paddr].leaf
        /\ tree.nodes[paddr].cksum
        /\ paddr' = es[ChildIndex(es)].value
    BY <1>5 DEF Descend, Visit, Turn, Sound, Readable
  <2>2. CoversFloor'
    <3>1. WellFormed(tree)' <=> WellFormed(tree)
      BY <2>1, SameTree
    <3>2. WellFormed(tree) =>
            /\ paddr' \in DOMAIN tree.nodes
            /\ VM!Floor(tree.below[paddr'], query.oid, query.xid) =
                 VM!Floor(tree.below[tree.root], query.oid, query.xid)
      BY <2>1, <1>0, ChildKeepsFloor DEF CoversFloor, TypeOK
    <3> QED
      BY <2>1, <3>1, <3>2 DEF CoversFloor, VM!Floor, VM!Versions
  <2>3. TrustInv' /\ ResolvesFloor' /\ AnswerIsReal'
    BY <2>1, <1>0 DEF Running, TrustInv, ResolvesFloor, AnswerIsReal, TypeOK
  <2> QED
    BY <1>0, <2>2, <2>3 DEF IInv
<1>6. CASE UNCHANGED vars
  <2>1. /\ tree' = tree /\ query' = query /\ answer' = answer
        /\ paddr' = paddr /\ visited' = visited
    BY <1>6 DEF vars
  <2>2. CoversFloor'
    BY <2>1, <1>0, SameTree DEF CoversFloor, Running, VM!Floor, VM!Versions
  <2>3. ResolvesFloor'
    BY <2>1, <1>0, SameTree DEF ResolvesFloor
  <2>4. TrustInv' /\ AnswerIsReal'
    BY <2>1, <1>0 DEF AnswerIsReal, TrustInv, Running
  <2> QED
    BY <1>0, <2>2, <2>3, <2>4 DEF IInv
<1>7. CASE AddressOverflows
  <2>1. /\ tree' = tree /\ query' = query /\ answer'.entry = {}
        /\ answer'.status = "OmapUnresolved"
        /\ Running /\ paddr >= AddrLimit
    BY <1>7 DEF AddressOverflows, Return, Visit, Turn, VM!Failed
  <2>2. paddr \notin DOMAIN tree.nodes
    BY <2>1, <1>0, DepthAssumption DEF TypeOK, IsTree
  <2>3. ~WellFormed(tree)'
    BY <2>1, <2>2, <1>0, SameTree DEF CoversFloor
  <2> QED
    BY <1>0, <2>1, <2>3
    DEF IInv, CoversFloor, TrustInv, ResolvesFloor, AnswerIsReal, Running
<1> QED
  BY <1>2, <1>3, <1>4, <1>5, <1>6, <1>7 DEF Next, Advance, Returned

\* The initial states satisfy IInv.
LEMMA InitIInv == Init => IInv
<1> SUFFICES ASSUME Init PROVE IInv
  OBVIOUS
<1>1. TypeOK
  BY TreeAssumption, QueryAssumption, DepthAssumption
  DEF Init, TypeOK, IsTree, VM!Pending
<1>2. CoversFloor
  BY DEF Init, CoversFloor, WellFormed
<1> QED
  BY <1>1, <1>2
  DEF Init, IInv, TrustInv, ResolvesFloor, AnswerIsReal, VM!Pending

-----------------------------------------------------------------------------
\* IInv holds throughout every lookup.
THEOREM Invariance == Spec => []IInv
BY InitIInv, InductiveStep, PTL DEF Spec

\* A lookup never leaves the types of its state (btree.rs, find_leaf).
THEOREM TypeCorrect == Spec => []TypeOK
<1>1. IInv => TypeOK
  BY DEF IInv
<1> QED
  BY <1>1, Invariance, PTL

\* In a well-formed tree of any size the single path finds the newest
\* version of the object not after xid (omap.rs, resolve).
THEOREM FloorFound == Spec => []ResolvesFloor
<1>1. IInv => ResolvesFloor
  BY DEF IInv
<1> QED
  BY <1>1, Invariance, PTL

\* In any tree an answer is a checksummed leaf entry of the right object,
\* reached through checksummed nodes only (btree.rs, read_verified_node).
THEOREM NoInventedAnswer == Spec => []AnswerIsReal
<1>1. IInv => AnswerIsReal
  BY DEF IInv
<1> QED
  BY <1>1, Invariance, PTL

-----------------------------------------------------------------------------
\* Refinement

\* In a well-formed tree that the cap covers a descent only goes down: it
\* neither meets a node again nor runs out of turns.
DepthInv ==
    /\ Running => answer = VM!Pending
    /\ (WellFormed(tree) /\ Leveled(tree) /\ Running) =>
         /\ tree.height[paddr] + turn <= tree.height[tree.root]
         /\ \A v \in visited : /\ v \in DOMAIN tree.nodes
                               /\ tree.height[paddr] < tree.height[v]

\* DepthInv holds at first.
LEMMA InitDepth == Init => DepthInv
<1> SUFFICES ASSUME Init, WellFormed(tree), Leveled(tree) PROVE DepthInv
  BY DEF DepthInv, Init
<1>1. tree.height[tree.root] \in Nat
  BY DEF WellFormed, Leveled
<1> QED
  BY <1>1 DEF Init, DepthInv

\* Whether the cap covers a tree depends on the tree alone.
LEMMA SameLevels ==
    ASSUME tree' = tree
    PROVE  Leveled(tree)' <=> Leveled(tree)
BY DEF Leveled

\* A descent keeps DepthInv.
LEMMA DepthStep == IInv /\ DepthInv /\ [Next]_vars => DepthInv'
<1>0. [Next]_vars => ~Running' \/ UNCHANGED vars \/ Descend
  BY DEF Next, Advance, Returned, TooDeep, CycleFound, AddressOverflows,
         NodeUnreadable, NodeCorrupt, AtLeaf, AtEmptyIndex, Return, Running,
         VM!Failed
<1> SUFFICES ASSUME IInv, DepthInv, [Next]_vars,
                    WellFormed(tree)', Leveled(tree)', Running'
             PROVE  DepthInv'
  <2>1. ASSUME DepthInv, [Next]_vars, Running'
        PROVE  answer' = VM!Pending
    BY <1>0, <2>1 DEF DepthInv, Running, Descend, vars
  <2> QED  BY <2>1 DEF DepthInv, VM!Pending
<1>1. tree' = tree /\ query' = query
  BY DEF Next, Advance, Returned, TooDeep, CycleFound, AddressOverflows,
         NodeUnreadable, NodeCorrupt, AtLeaf, AtEmptyIndex, Descend, Return, vars
<1>2. WellFormed(tree) /\ Leveled(tree)
  BY <1>1, SameTree, SameLevels
<1>3. CASE UNCHANGED vars
  BY <1>2, <1>3 DEF DepthInv, vars, Running
<1>4. CASE Descend
  <2>1. Running
    BY <1>4 DEF Descend, Visit, Turn
  <2>2. /\ tree.height[paddr] + turn <= tree.height[tree.root]
        /\ \A v \in visited : /\ v \in DOMAIN tree.nodes
                              /\ tree.height[paddr] < tree.height[v]
    BY <1>2, <2>1 DEF DepthInv
  <2>3. PICK es : es = tree.nodes[paddr].entries
    OBVIOUS
  <2>4. /\ paddr \in DOMAIN tree.nodes /\ ~tree.nodes[paddr].leaf /\ es # <<>>
        /\ paddr' = es[ChildIndex(es)].value /\ turn' = turn + 1
        /\ visited' = visited \cup {paddr}
    BY <1>4, <2>3 DEF Descend, Visit, Sound, Readable
  <2>5. es \in Seq(Entry)
    BY <2>3, <2>4, NodeType DEF IInv, TypeOK
  <2>6. ChildIndex(es) \in DOMAIN es
    BY <2>4, <2>5, ChildExists
  <2>7. paddr' \in DOMAIN tree.nodes
    BY <1>2, <2>3, <2>4, <2>6 DEF WellFormed, NodeWellFormed
  <2>8. tree.height[paddr'] < tree.height[paddr]
    BY <1>2, <2>3, <2>4, <2>6 DEF Leveled
  <2>9. /\ tree.height[paddr'] \in Nat /\ tree.height[paddr] \in Nat
        /\ tree.height[tree.root] \in Nat /\ turn \in Nat
        /\ \A v \in visited : tree.height[v] \in Nat
    BY <1>2, <2>2, <2>4, <2>7 DEF WellFormed, Leveled, IInv, TypeOK
  <2>10. tree.height[paddr'] + turn' <= tree.height[tree.root]
    BY <2>2, <2>4, <2>8, <2>9
  <2>11. \A v \in visited' : /\ v \in DOMAIN tree.nodes
                             /\ tree.height[paddr'] < tree.height[v]
    BY <2>2, <2>4, <2>8, <2>9
  <2>12. answer' = VM!Pending
    BY <1>4, <2>1 DEF DepthInv, Descend
  <2> QED
    BY <1>1, <2>10, <2>11, <2>12 DEF DepthInv, VM!Pending
<1> QED
  BY <1>0, <1>3, <1>4

\* Every step of a descent is the step of VersionedMap, or is not seen by it.
LEMMA StepRefines ==
    ASSUME IInv, IInv', DepthInv, [Next]_vars
    PROVE  [VM!Answer]_(VM!vmVars)
<1>1. tree' = tree /\ query' = query
  BY DEF Next, Advance, Returned, TooDeep, CycleFound, AddressOverflows,
         NodeUnreadable, NodeCorrupt, AtLeaf, AtEmptyIndex, Descend, Return, vars
<1>2. (WellFormed(tree) /\ Leveled(tree))' = (WellFormed(tree) /\ Leveled(tree))
  BY <1>1, SameTree, SameLevels
<1>3. tree.below[tree.root]' = tree.below[tree.root]
  BY <1>1
<1>4. CASE answer' = answer
  BY <1>1, <1>2, <1>3, <1>4 DEF VM!vmVars
<1>5. CASE answer' # answer
  <2>1. Running /\ Advance
    BY <1>5 DEF Next, Returned, Advance, TooDeep, CycleFound, AddressOverflows,
           NodeUnreadable, NodeCorrupt, AtLeaf, AtEmptyIndex, Descend, Visit,
           Turn, vars
  <2>2. answer = VM!Pending
    BY <2>1 DEF DepthInv
  <2>3. answer' # VM!Pending
    BY <1>5, <2>2
  <2>4. CASE WellFormed(tree) /\ Leveled(tree)
    <3>1. answer' \in {VM!Resolved(tree.below[tree.root], query), VM!Failed("Io")}
      <4>1. /\ tree.height[paddr] + turn <= tree.height[tree.root]
            /\ \A v \in visited : /\ v \in DOMAIN tree.nodes
                                  /\ tree.height[paddr] < tree.height[v]
            /\ paddr \in DOMAIN tree.nodes
        BY <2>1, <2>4 DEF DepthInv, IInv, CoversFloor
      <4>2. /\ tree.height[paddr] \in Nat /\ tree.height[tree.root] \in Nat
            /\ tree.height[tree.root] < MAX_BTREE_DEPTH
            /\ MAX_BTREE_DEPTH \in Nat /\ turn \in Nat
        BY <2>4, <4>1, DepthAssumption DEF WellFormed, Leveled, IInv, TypeOK
      <4>3. ~TooDeep
        BY <4>1, <4>2 DEF TooDeep
      <4>4. ~CycleFound
        BY <4>1, <4>2 DEF CycleFound
      <4>5. ~AddressOverflows
        BY <4>1, DepthAssumption DEF AddressOverflows, IInv, TypeOK, IsTree
      <4>6. ~NodeCorrupt /\ ~AtEmptyIndex
        BY <2>4, <4>1 DEF NodeCorrupt, AtEmptyIndex, WellFormed, NodeWellFormed
      <4>7. CASE NodeUnreadable
        BY <4>7 DEF NodeUnreadable, Return
      <4>8. CASE AtLeaf
        <5>1. answer'.status \in {"ok", "OmapUnresolved"}
          BY <4>8 DEF AtLeaf, Return, VM!Failed
        <5>2. answer' = VM!Resolved(tree.below[tree.root], query)'
          BY <1>1, <2>4, <5>1, SameTree DEF IInv, ResolvesFloor
        <5> QED
          BY <1>1, <5>2, SameTree
      <4>9. ~Descend
        BY <1>5 DEF Descend
      <4> QED
        BY <2>1, <4>3, <4>4, <4>5, <4>6, <4>7, <4>8, <4>9 DEF Advance
    <3> QED
      BY <1>1, <1>2, <1>3, <2>2, <3>1 DEF VM!Answer
  <2>5. CASE ~(WellFormed(tree) /\ Leveled(tree))
    BY <1>1, <1>2, <1>3, <2>2, <2>3, <2>5 DEF VM!Answer
  <2> QED
    BY <2>4, <2>5
<1> QED
  BY <1>4, <1>5

\* resolve implements the one-step lookup of VersionedMap: in a well-formed
\* tree that the depth cap covers it answers with the floor or a failure of
\* the source, and never calls such a tree cyclic or damaged.
THEOREM RefinesVersionedMap == Spec => VM!VMSafety
<1>1. Init => VM!VMInit
  BY DEF Init, VM!VMInit
<1>2. Spec => [](IInv /\ DepthInv)
  <2>1. Init => IInv /\ DepthInv
    BY InitIInv, InitDepth
  <2>2. IInv /\ DepthInv /\ [Next]_vars => (IInv /\ DepthInv)'
    BY InductiveStep, DepthStep
  <2> QED
    BY <2>1, <2>2, PTL DEF Spec
<1>3. IInv /\ IInv' /\ DepthInv /\ [Next]_vars => [VM!Answer]_(VM!vmVars)
  BY StepRefines
<1> QED
  BY <1>1, <1>2, <1>3, PTL DEF Spec, VM!VMSafety
=============================================================================
