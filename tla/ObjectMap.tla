------------------------------ MODULE ObjectMap ------------------------------
(***************************************************************************)
(* ObjectMap::resolve (omap.rs) and the keyed descent it makes,            *)
(* btree::find_leaf (btree.rs): one root-to-leaf path through a physically *)
(* stored B-tree, one node read per step, with the visited set, the depth  *)
(* cap and the checksum gate in front of every node.                       *)
(*                                                                         *)
(* A tree is a record: nodes maps a block address to the node its bytes    *)
(* decode to, root is om_tree_oid.  A node's entries are what node_entries *)
(* yields; the value of an index entry is a child address, of a leaf entry *)
(* an ov_paddr.  below and height are not in the image: they annotate each *)
(* address with the entries of the leaves under it and with its distance   *)
(* from them, and serve only to say when a tree is well formed.            *)
(***************************************************************************)
EXTENDS Naturals, Sequences

CONSTANTS
    MAX_BTREE_DEPTH,   \* btree.rs: 64
    AddrLimit,         \* first block address whose byte offset overflows u64
    Trees,             \* trees a lookup may be made in
    Queries            \* lookups: [oid, xid]

Entry == [oid : Nat, xid : Nat, value : Nat]

Node == [cksum : BOOLEAN, leaf : BOOLEAN, entries : Seq(Entry)]

ASSUME DepthAssumption == MAX_BTREE_DEPTH \in Nat \ {0} /\ AddrLimit \in Nat

IsTree(t) ==
    /\ t.root \in Nat
    /\ DOMAIN t.nodes \subseteq 0 .. AddrLimit - 1
    /\ t.nodes \in [DOMAIN t.nodes -> Node]

ASSUME TreeAssumption == \A t \in Trees : IsTree(t)

ASSUME QueryAssumption == Queries \subseteq [oid : Nat, xid : Nat]

VARIABLES
    tree,      \* the tree on disk
    query,     \* the (oid, xid) looked up
    paddr,     \* block the descent reads next
    visited,   \* blocks read so far
    turn,      \* iterations of the descent loop
    answer     \* [status, entry]: what resolve returned

vars == <<tree, query, paddr, visited, turn, answer>>

-----------------------------------------------------------------------------
\* Well-formed trees

KeyLess(e, f) == e.oid < f.oid \/ (e.oid = f.oid /\ e.xid < f.xid)

\* btree.rs: "separator key i is the smallest key of child i's subtree".
\* The subtree of child k holds the key of entry k, nothing before it, and
\* nothing from the key of entry k + 1 on.
NodeWellFormed(t, a) ==
    LET n == t.nodes[a]
        es == n.entries
        Under(k) == t.below[es[k].value]
    IN  /\ n.cksum
        /\ t.below[a] \subseteq Entry
        /\ n.leaf =>
             /\ t.below[a] = {es[k] : k \in DOMAIN es}
             /\ \A k, m \in DOMAIN es : k < m => KeyLess(es[k], es[m])
        /\ ~n.leaf =>
             /\ es # <<>>
             /\ \A k \in DOMAIN es : es[k].value \in DOMAIN t.nodes
             /\ t.below[a] = UNION {Under(k) : k \in DOMAIN es}
             /\ \A k \in DOMAIN es :
                  /\ \E e \in Under(k) : e.oid = es[k].oid /\ e.xid = es[k].xid
                  /\ \A e \in Under(k) : ~KeyLess(e, es[k])
                  /\ \A m \in DOMAIN es : m > k =>
                       \A e \in Under(k) : KeyLess(e, es[m])

WellFormed(t) ==
    /\ t.root \in DOMAIN t.nodes
    /\ DOMAIN t.below = DOMAIN t.nodes
    /\ \A a \in DOMAIN t.nodes : NodeWellFormed(t, a)

\* Children lie below their parent, and the depth cap covers the root.
Leveled(t) ==
    /\ DOMAIN t.height = DOMAIN t.nodes
    /\ \A a \in DOMAIN t.nodes :
          /\ t.height[a] \in Nat
          /\ ~t.nodes[a].leaf =>
               \A k \in DOMAIN t.nodes[a].entries :
                  t.height[t.nodes[a].entries[k].value] < t.height[a]
    /\ t.height[t.root] < MAX_BTREE_DEPTH

VM == INSTANCE VersionedMap WITH
        map <- tree.below[tree.root],
        sound <- WellFormed(tree) /\ Leveled(tree)

-----------------------------------------------------------------------------
Init ==
    /\ tree \in Trees
    /\ query \in Queries
    /\ paddr = tree.root
    /\ visited = {}
    /\ turn = 0
    /\ answer = VM!Pending

-----------------------------------------------------------------------------
\* Keys and nodes

\* Fault: a separator equal to the key already counts as past it.
KeyGreaterOrEqual(e, q) == e.oid > q.oid \/ (e.oid = q.oid /\ e.xid >= q.xid)

\* The comparison closure of resolve: lexicographic on (ok_oid, ok_xid).
KeyGreater(e, q) == e.oid > q.oid \/ (e.oid = q.oid /\ e.xid > q.xid)

\* The child followed: the last one before the first greater separator, or
\* the first one.
ChildIndex(entries) ==
    CHOOSE c \in DOMAIN entries :
        /\ \A k \in 1 .. c : KeyGreater(entries[k], query) => c = 1
        /\ \/ c = Len(entries)
           \/ KeyGreater(entries[c + 1], query)
           \/ KeyGreater(entries[1], query)

\* The visit closure of resolve over a leaf: of the entries of this oid no
\* newer than xid, the first with the largest xid.
Matches(entries) ==
    {k \in DOMAIN entries :
        entries[k].oid = query.oid /\ entries[k].xid <= query.xid}

LeafBest(entries) ==
    {entries[k] : k \in
        {m \in Matches(entries) : \A n \in Matches(entries) :
            /\ entries[n].xid <= entries[m].xid
            /\ (n < m => entries[n].xid < entries[m].xid)}}

-----------------------------------------------------------------------------
\* Actions

Return(a) ==
    /\ answer' = a
    /\ UNCHANGED <<tree, query, paddr>>

Running == answer.status = "pending"

\* Fault: the cap bites one level early.
TooDeepEarly ==
    /\ Running
    /\ turn + 1 >= MAX_BTREE_DEPTH
    /\ Return(VM!Failed("CycleGuard"))
    /\ UNCHANGED <<visited, turn>>

\* The loop ran MAX_BTREE_DEPTH times without meeting a leaf.
TooDeep ==
    /\ Running
    /\ turn >= MAX_BTREE_DEPTH
    /\ Return(VM!Failed("CycleGuard"))
    /\ UNCHANGED <<visited, turn>>

Turn == Running /\ turn < MAX_BTREE_DEPTH

\* visited.insert(paddr) found the block already there.
CycleFound ==
    /\ Turn
    /\ paddr \in visited
    /\ Return(VM!Failed("CycleGuard"))
    /\ UNCHANGED <<visited, turn>>

Visit ==
    /\ Turn
    /\ paddr \notin visited
    /\ visited' = visited \cup {paddr}
    /\ turn' = turn + 1

Readable == paddr \in DOMAIN tree.nodes

\* read_verified_node gives no node for such an address: the descent ends
\* with nothing visited.
AddressOverflows ==
    /\ Visit
    /\ paddr >= AddrLimit
    /\ Return(VM!Failed("OmapUnresolved"))

\* read_exact fails: the block lies past the image, or the source fails.
NodeUnreadable ==
    /\ Visit
    /\ paddr < AddrLimit
    /\ Return(VM!Failed("Io"))

NodeCorrupt ==
    /\ Visit
    /\ Readable
    /\ ~tree.nodes[paddr].cksum
    /\ Return(VM!Failed("ChecksumMismatch"))

\* Fault: the checksum is not looked at.
SoundUnchecked == Readable

Sound == Readable /\ tree.nodes[paddr].cksum

\* The landing leaf: scan all its entries and return.
AtLeaf ==
    LET found == LeafBest(tree.nodes[paddr].entries) IN
    /\ Visit
    /\ Sound
    /\ tree.nodes[paddr].leaf
    /\ Return(IF found = {} THEN VM!Failed("OmapUnresolved")
              ELSE [status |-> "ok", entry |-> found])

\* An index node without entries ends the descent with nothing visited.
AtEmptyIndex ==
    /\ Visit
    /\ Sound
    /\ ~tree.nodes[paddr].leaf
    /\ tree.nodes[paddr].entries = <<>>
    /\ Return(VM!Failed("OmapUnresolved"))

Descend ==
    LET entries == tree.nodes[paddr].entries IN
    /\ Visit
    /\ Sound
    /\ ~tree.nodes[paddr].leaf
    /\ entries # <<>>
    /\ paddr' = entries[ChildIndex(entries)].value
    /\ UNCHANGED <<tree, query, answer>>

Advance ==
    \/ TooDeep \/ CycleFound \/ AddressOverflows \/ NodeUnreadable
    \/ NodeCorrupt \/ AtLeaf \/ AtEmptyIndex \/ Descend

\* resolve has returned.
Returned == ~Running /\ UNCHANGED vars

Next == Advance \/ Returned

\* A sequential call runs until it returns.
Spec == Init /\ [][Next]_vars /\ WF_vars(Advance)

-----------------------------------------------------------------------------
\* Properties

\* The loop counter and the visited set keep step; the answer has a shape.
TypeOK ==
    /\ IsTree(tree)
    /\ query \in [oid : Nat, xid : Nat]
    /\ paddr \in Nat
    /\ visited \subseteq Nat
    /\ turn \in 0 .. MAX_BTREE_DEPTH
    /\ answer.status \in {"pending", "ok", "OmapUnresolved", "CycleGuard",
                          "ChecksumMismatch", "Io"}
    /\ answer.entry # {} <=> answer.status = "ok"

\* omap.rs: the floor of (oid, xid) "lives in the single leaf this descent
\* lands on, so scanning that leaf suffices".  In a well-formed tree resolve
\* finds an entry exactly when one exists anywhere in the tree, and the
\* newest one not after xid.
ResolvesFloor ==
    (WellFormed(tree) /\ answer.status \in {"ok", "OmapUnresolved"}) =>
        answer = VM!Resolved(tree.below[tree.root], query)

\* In any tree, however damaged, an answer is an entry of a checksummed leaf
\* that was read on this descent, of this oid, and no newer than xid; and
\* every block on the way to it passed its checksum (read_verified_node), so
\* nothing a damaged node says has led there.
AnswerIsReal ==
    \A e \in answer.entry :
        /\ e.oid = query.oid /\ e.xid <= query.xid
        /\ \A b \in visited : b \in DOMAIN tree.nodes /\ tree.nodes[b].cksum
        /\ \E a \in visited \cap DOMAIN tree.nodes :
             /\ tree.nodes[a].cksum /\ tree.nodes[a].leaf
             /\ \E k \in DOMAIN tree.nodes[a].entries :
                  tree.nodes[a].entries[k] = e

\* Refinement: resolve is the one-step lookup of VersionedMap, exact in a
\* well-formed tree that the depth cap covers, and an answer in any tree,
\* a cyclic one included (btree.rs): the abstract step is fair.
ImplementsVersionedMap == VM!VMSpec
=============================================================================
