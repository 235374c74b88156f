------------------------------- MODULE TreeWalk -------------------------------
(***************************************************************************)
(* The recursive B-tree walks: descend_virtual over a volume's fs-tree,    *)
(* whole or keyed to one object id (dir.rs), descend_snap over the         *)
(* snapshot-metadata tree (snapshot.rs) and descend over a physically      *)
(* stored tree (btree.rs).  They differ in how a node is addressed and in  *)
(* whether children are pruned; the guards, and the order of everything,   *)
(* are the same.  The recursion is an explicit stack of node references,   *)
(* one node read per step.                                                 *)
(*                                                                         *)
(* A tree is a record: root, nodes (block address -> decoded node), map    *)
(* (the volume's object map, a set of [oid, xid, paddr]), xid (the         *)
(* volume's), header, what ObjectMap::parse says of the map's header, and  *)
(* mapsound, whether the map's own nodes are undamaged and acyclic.        *)
(* As in ObjectMap, below annotates each node address with the leaf        *)
(* records under it, and height with its level over the leaves; both only  *)
(* serve to define WellFormed.  A lookup in the map is what VersionedMap   *)
(* promises: its floor, or an Io error; in a map that is not sound also    *)
(* the refusals of find_leaf.                                              *)
(***************************************************************************)
EXTENDS Naturals, Sequences

CONSTANTS
    AddrLimit,   \* first block address whose byte offset overflows u64
    MAX_DEPTH,   \* MAX_FSTREE_DEPTH, MAX_SNAP_TREE_DEPTH, MAX_BTREE_DEPTH: 64
    Trees,       \* trees that may be walked
    Walks        \* walks made: [kind, keyed, target]

\* A record key is (object id, rest of the key); the value of an index entry
\* is a child reference, of a leaf entry its payload.
Record == [oid : Nat, sub : Nat, value : Nat]

Node == [cksum : BOOLEAN, leaf : BOOLEAN, entries : Seq(Record)]

\* An object map has one entry per key (oid, xid): of equal keys a lookup,
\* which reads nothing but the tree, always answers the same one.
KeysAreUnique(map) ==
    \A e, f \in map : (e.oid = f.oid /\ e.xid = f.xid) => e = f

IsTree(t) ==
    /\ t.root \in Nat /\ t.xid \in Nat
    /\ t.map \subseteq [oid : Nat, xid : Nat, paddr : Nat]
    /\ KeysAreUnique(t.map)
    /\ t.mapsound \in BOOLEAN
    /\ t.header \in {"ok", "UnexpectedObjectType", "ChecksumMismatch"}
    /\ DOMAIN t.nodes \subseteq 0 .. AddrLimit - 1
    /\ t.nodes \in [DOMAIN t.nodes -> Node]

\* keyed walks (for_each_fs_record_for_oid) exist for the fs-tree only.
Walk == {w \in [kind : {"fs", "snap", "phys"}, keyed : BOOLEAN, target : Nat] :
            w.keyed => w.kind = "fs"}

ASSUME DepthAssumption == MAX_DEPTH \in Nat \ {0} /\ AddrLimit \in Nat
ASSUME TreesAssumption == \A t \in Trees : IsTree(t)
ASSUME WalksAssumption == \A w \in Walks : w \in Walk

VARIABLES
    tree,      \* the tree on disk
    walk,      \* the walk under way
    stack,     \* references still to come, next first: [oid, phys, depth,
               \* kept], kept saying whether the loop will descend into it
    visited,   \* node references entered, as the code keeps them: the number
    out,       \* records handed to the visit callback, in order
    status     \* "start", "walking", "ok" or the error returned

vars == <<tree, walk, stack, visited, out, status>>

VM == INSTANCE VersionedMap WITH
        map <- tree.map, sound <- TRUE, query <- walk, answer <- status

\* The root of the fs-tree is virtual, those of the other two physical; the
\* children of a physical tree are physical, all others virtual.
RootRef ==
    [oid |-> tree.root, phys |-> walk.kind # "fs", depth |-> 0, kept |-> TRUE]

Init ==
    /\ tree \in Trees
    /\ walk \in Walks
    /\ stack = <<>>
    /\ visited = {}
    /\ out = <<>>
    /\ status = "start"

-----------------------------------------------------------------------------
\* Addressing and pruning

\* Where a reference leads in tree t: one address, or none if unresolved.
Addr(t, ref) ==
    IF ref.phys THEN {ref.oid}
    ELSE {e.paddr : e \in VM!Floor(t.map, ref.oid, t.xid)}

\* Fault: a child whose upper bound is the target is pruned.
ChildMayContainOidStrict(entries, k, target) ==
    /\ entries[k].oid <= target
    /\ k < Len(entries) => entries[k + 1].oid > target

\* Entry k covers [sep, next_sep); a separator is a full key, so a record of
\* the next separator's object may still sit at the end of this child.
ChildMayContainOid(entries, k, target) ==
    /\ entries[k].oid <= target
    /\ k < Len(entries) => entries[k + 1].oid >= target

Kept(entries, k) ==
    walk.keyed => ChildMayContainOid(entries, k, walk.target)

ChildRef(entries, k, depth) ==
    [oid |-> entries[k].value, phys |-> walk.kind = "phys", depth |-> depth,
     kept |-> Kept(entries, k)]

-----------------------------------------------------------------------------
\* Actions

Return(s) ==
    /\ status' = s
    /\ UNCHANGED <<tree, walk, stack, out>>

\* The walks through an object map read its header first, every time.
HeaderRejected ==
    /\ status = "start"
    /\ walk.kind # "phys"
    /\ tree.header # "ok"
    /\ Return(tree.header)
    /\ UNCHANGED visited

Begin ==
    /\ status = "start"
    /\ walk.kind = "phys" \/ tree.header = "ok"
    /\ stack' = <<RootRef>>
    /\ status' = "walking"
    /\ UNCHANGED <<tree, walk, visited, out>>

\* The loop over the children passes over one that cannot hold the target.
Prune ==
    /\ status = "walking"
    /\ stack # <<>>
    /\ ~Head(stack).kept
    /\ stack' = Tail(stack)
    /\ UNCHANGED <<tree, walk, visited, out, status>>

AtNode == status = "walking" /\ stack # <<>> /\ Head(stack).kept

\* Fault: the cap bites one level early.
TooDeepEarly ==
    /\ AtNode
    /\ Head(stack).depth + 1 >= MAX_DEPTH
    /\ Return("CycleGuard")
    /\ UNCHANGED visited

TooDeep ==
    /\ AtNode
    /\ Head(stack).depth >= MAX_DEPTH
    /\ Return("CycleGuard")
    /\ UNCHANGED visited

\* Fault: a node met again is retried for ever.
SeenRetried ==
    /\ AtNode
    /\ Head(stack).depth < MAX_DEPTH
    /\ Head(stack).oid \in visited
    /\ UNCHANGED vars

Seen ==
    /\ AtNode
    /\ Head(stack).depth < MAX_DEPTH
    /\ Head(stack).oid \in visited
    /\ Return("CycleGuard")
    /\ UNCHANGED visited

\* Fault: the depth cap is off by one.
EnterDeeper ==
    /\ AtNode
    /\ Head(stack).depth <= MAX_DEPTH
    /\ Head(stack).oid \notin visited
    /\ visited' = visited \cup {Head(stack).oid}

Enter ==
    /\ AtNode
    /\ Head(stack).depth < MAX_DEPTH
    /\ Head(stack).oid \notin visited
    /\ visited' = visited \cup {Head(stack).oid}

Unresolved ==
    /\ Enter
    /\ Addr(tree, Head(stack)) = {}
    /\ Return("OmapUnresolved")

\* Only the physical walk multiplies with a check, and skips such a child;
\* the others saturate and fail to read.
Overflows == Head(stack).phys /\ walk.kind = "phys" /\ Head(stack).oid >= AddrLimit

Skip ==
    /\ Enter
    /\ Overflows
    /\ stack' = Tail(stack)
    /\ UNCHANGED <<tree, walk, out, status>>

\* The node, or a node of the object map, cannot be read.
Unreadable ==
    /\ Enter
    /\ ~Overflows
    /\ Return("Io")

\* The lookup meets a damaged node of the object map, or goes round in it.
MapDamaged ==
    /\ Enter
    /\ ~Head(stack).phys /\ ~tree.mapsound
    /\ Return("ChecksumMismatch") \/ Return("CycleGuard")

\* The address a node is read from, once it is resolved and inside the image.
ReadAt(a) == Enter /\ a \in Addr(tree, Head(stack)) /\ a \in DOMAIN tree.nodes

Corrupt ==
    \E a \in DOMAIN tree.nodes :
        /\ ReadAt(a)
        /\ ~tree.nodes[a].cksum
        /\ Return("ChecksumMismatch")

\* Fault: a leaf is trusted without its checksum.
LeafUnchecked ==
    \E a \in DOMAIN tree.nodes :
        /\ ReadAt(a)
        /\ tree.nodes[a].leaf
        /\ out' = out \o tree.nodes[a].entries
        /\ stack' = Tail(stack)
        /\ UNCHANGED <<tree, walk, status>>

Leaf ==
    \E a \in DOMAIN tree.nodes :
        /\ ReadAt(a)
        /\ tree.nodes[a].cksum /\ tree.nodes[a].leaf
        /\ out' = out \o tree.nodes[a].entries
        /\ stack' = Tail(stack)
        /\ UNCHANGED <<tree, walk, status>>

Index ==
    \E a \in DOMAIN tree.nodes :
        LET es == tree.nodes[a].entries
        IN  /\ ReadAt(a)
            /\ tree.nodes[a].cksum /\ ~tree.nodes[a].leaf
            /\ stack' = [k \in 1 .. Len(es) |->
                            ChildRef(es, k, Head(stack).depth + 1)]
                        \o Tail(stack)
            /\ UNCHANGED <<tree, walk, out, status>>

Finish ==
    /\ status = "walking"
    /\ stack = <<>>
    /\ Return("ok")
    /\ UNCHANGED visited

\* Reading the object map's header fails.
HeaderUnreadable ==
    /\ status = "start"
    /\ walk.kind # "phys"
    /\ Return("Io")
    /\ UNCHANGED visited

Advance ==
    \/ HeaderRejected \/ HeaderUnreadable \/ Begin \/ Prune \/ TooDeep
    \/ Seen \/ Unresolved \/ Skip \/ Unreadable \/ MapDamaged \/ Corrupt
    \/ Leaf \/ Index \/ Finish

Done == status \notin {"start", "walking"}

\* The walk has returned.
Returned == Done /\ UNCHANGED vars

Next == Advance \/ Returned

\* A sequential call runs until it returns.
Spec == Init /\ [][Next]_vars /\ WF_vars(Advance)

-----------------------------------------------------------------------------
\* Well-formed trees

KeyLess(r, s) == r.oid < s.oid \/ (r.oid = s.oid /\ r.sub < s.sub)

\* Where the children of the node at a lead in tree t, for a walk of w's kind.
ChildAddr(t, w, e) ==
    Addr(t, [oid |-> e.value, phys |-> w.kind = "phys", depth |-> 0])

NodeWellFormed(t, w, a) ==
    LET n == t.nodes[a]
        es == n.entries
        Under(k) == UNION {t.below[c] : c \in ChildAddr(t, w, es[k])}
    IN  /\ n.cksum
        /\ t.below[a] \subseteq Record
        /\ n.leaf =>
             /\ t.below[a] = {es[k] : k \in DOMAIN es}
             /\ \A k, m \in DOMAIN es : k < m => KeyLess(es[k], es[m])
        /\ ~n.leaf =>
             /\ \A k \in DOMAIN es :
                  /\ ChildAddr(t, w, es[k]) # {}
                  /\ ChildAddr(t, w, es[k]) \subseteq DOMAIN t.nodes
                  /\ \A c \in ChildAddr(t, w, es[k]) : t.height[c] < t.height[a]
             /\ t.below[a] = UNION {Under(k) : k \in DOMAIN es}
             /\ \A k \in DOMAIN es :
                  /\ \E r \in Under(k) : r.oid = es[k].oid /\ r.sub = es[k].sub
                  /\ \A r \in Under(k) : ~KeyLess(r, es[k])
                  /\ \A m \in DOMAIN es : m > k =>
                       \A r \in Under(k) : KeyLess(r, es[m])

WellFormed(t, w) ==
    /\ t.mapsound
    /\ Addr(t, [oid |-> t.root, phys |-> w.kind # "fs", depth |-> 0]) # {}
    /\ Addr(t, [oid |-> t.root, phys |-> w.kind # "fs", depth |-> 0])
         \subseteq DOMAIN t.nodes
    /\ DOMAIN t.below = DOMAIN t.nodes
    /\ t.height \in [DOMAIN t.nodes -> 0 .. MAX_DEPTH - 1]
    /\ \A a \in DOMAIN t.nodes : NodeWellFormed(t, w, a)

-----------------------------------------------------------------------------
\* Properties

Wanted(r) == walk.keyed => r.oid = walk.target

Delivered == {out[k] : k \in DOMAIN out}

\* The records under the root.
All == UNION {tree.below[a] : a \in Addr(tree, RootRef)}

\* Every variable keeps its type; no node is entered below the depth cap.
TypeOK ==
    /\ IsTree(tree)
    /\ walk \in Walk
    /\ stack \in Seq([oid : Nat, phys : BOOLEAN, depth : 0 .. MAX_DEPTH,
                      kept : BOOLEAN])
    /\ visited \subseteq Nat
    /\ out \in Seq(Record)
    /\ status \in {"start", "walking", "ok", "OmapUnresolved", "CycleGuard",
                   "ChecksumMismatch", "UnexpectedObjectType", "Io"}

\* dir.rs, child_may_contain_oid: a keyed walk of a well-formed tree reads few
\* nodes, yet delivers exactly the records of its object that a walk of the
\* whole tree would, the ones split across neighbouring leaves included; and
\* in strictly ascending key order, so none twice, and a first match is the
\* one with the smallest key.
WalkIsComplete ==
    WellFormed(tree, walk) =>
        /\ status = "ok" => {r \in Delivered : Wanted(r)} = {r \in All : Wanted(r)}
        /\ \A k, m \in DOMAIN out : k < m => KeyLess(out[k], out[m])

\* However damaged the tree, a delivered record is one of a checksummed leaf.
OnlyRealRecords ==
    \A r \in Delivered : \E a \in DOMAIN tree.nodes :
        /\ tree.nodes[a].cksum /\ tree.nodes[a].leaf
        /\ \E k \in DOMAIN tree.nodes[a].entries : tree.nodes[a].entries[k] = r

\* Addresses one step below a, and any number of steps below it: what every
\* set closed under Children holds.
Children(a) ==
    IF tree.nodes[a].leaf THEN {}
    ELSE DOMAIN tree.nodes \cap
            UNION {ChildAddr(tree, walk, tree.nodes[a].entries[k]) :
                   k \in DOMAIN tree.nodes[a].entries}

Descendants(a) ==
    {b \in DOMAIN tree.nodes :
        \A S \in SUBSET DOMAIN tree.nodes :
            (Children(a) \subseteq S /\ \A c \in S : Children(c) \subseteq S)
                => b \in S}

\* The guard "guards against cyclic node oids" and against nothing else: a
\* walk of the whole tree that meets a loop anywhere never returns Ok, so no
\* listing is cut short or repeated in silence; and a well-formed tree is
\* never refused as cyclic.
CycleGuardIsTrue ==
    /\ (status = "ok" /\ ~walk.keyed) =>
         \A r \in Addr(tree, RootRef) \cap DOMAIN tree.nodes :
             \A a \in {r} \cup Descendants(r) : a \notin Descendants(a)
    /\ (WellFormed(tree, walk) /\ walk.kind # "snap") => status # "CycleGuard"

\* snapshot.rs says so of the snapshot-metadata tree too.
NoFalseCycleInSnapTree == WellFormed(tree, walk) => status # "CycleGuard"

\* Every walk returns.
WalkReturns == <>Done
=============================================================================
