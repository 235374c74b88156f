------------------------------ MODULE MCTreeWalk ------------------------------
(***************************************************************************)
(* Well-formed trees over five records of three objects, cut into leaves   *)
(* in every way under one or two index levels, their nodes numbered three  *)
(* ways; and every graph of three nodes drawn from a small stock.          *)
(***************************************************************************)
EXTENDS TreeWalk, SequencesExt, FiniteSets

R(oid, sub) == [oid |-> oid, sub |-> sub, value |-> 0]

AllRecords == {R(1, 1), R(2, 1), R(2, 2), R(2, 3), R(3, 1)}

MkNode(ok, leaf, es) == [cksum |-> ok, leaf |-> leaf, entries |-> es]

\* The runs of `s` between the cut positions C.
Chunks(s, C) ==
    LET ends == SetToSortSeq(C \cup {Len(s)}, <)
    IN  [k \in 1 .. Len(ends) |->
            SubSeq(s, IF k = 1 THEN 1 ELSE ends[k - 1] + 1, ends[k])]

CutUps ==
    UNION {LET s == SetToSortSeq(S, KeyLess)
           IN  {Chunks(s, C) : C \in {D \in SUBSET (1 .. Len(s) - 1) :
                                         Cardinality(D) <= 2}} :
           S \in (SUBSET AllRecords) \ {{}}}

Sep(r, a) == [r EXCEPT !.value = a]

\* Leaves at 4, 5, ...; index nodes 2 and 3 when j > 0; root at 1.
Shape(cs, j) ==
    LET leafs == 4 .. 3 + Len(cs)
        seps == [k \in 1 .. Len(cs) |-> Sep(cs[k][1], k + 3)]
        part == <<SubSeq(seps, 1, j), SubSeq(seps, j + 1, Len(seps))>>
    IN  [a \in leafs \cup {1} \cup (IF j = 0 THEN {} ELSE {2, 3}) |->
            CASE a \in leafs -> MkNode(TRUE, TRUE, cs[a - 3])
              [] a = 1 /\ j = 0 -> MkNode(TRUE, FALSE, seps)
              [] a = 1 /\ j > 0 -> MkNode(TRUE, FALSE,
                    <<Sep(part[1][1], 2), Sep(part[2][1], 3)>>)
              [] OTHER -> MkNode(TRUE, FALSE, part[a - 1])]

Below(nodes) ==
    LET Leaves(a) == ToSet(nodes[a].entries)
        Kids(a) == {nodes[a].entries[k].value : k \in DOMAIN nodes[a].entries}
        Two(a) == IF nodes[a].leaf THEN Leaves(a) ELSE UNION {Leaves(b) : b \in Kids(a)}
    IN  [a \in DOMAIN nodes |->
            IF nodes[a].leaf THEN Leaves(a) ELSE UNION {Two(b) : b \in Kids(a)}]

\* The root is at 1, the leaves at 4, 5, ...
Height(nodes) ==
    [a \in DOMAIN nodes |-> CASE nodes[a].leaf -> 0
                              [] a = 1 /\ 2 \in DOMAIN nodes -> 2
                              [] OTHER -> 1]

\* The node at address a is called Name(a) by its parent; the map knows an
\* older and a newer place for it too.
Named(nodes, Name(_)) ==
    [root |-> Name(1), xid |-> 3, header |-> "ok", mapsound |-> TRUE,
     map |-> UNION {{[oid |-> Name(a), xid |-> 1, paddr |-> 98],
                     [oid |-> Name(a), xid |-> 2, paddr |-> a],
                     [oid |-> Name(a), xid |-> 4, paddr |-> 99]} :
                    a \in DOMAIN nodes},
     nodes |-> [a \in DOMAIN nodes |->
        IF nodes[a].leaf THEN nodes[a]
        ELSE [nodes[a] EXCEPT !.entries =
                [k \in DOMAIN @ |-> [@[k] EXCEPT !.value = Name(@)]]]],
     below |-> Below(nodes), height |-> Height(nodes)]

Same(a) == a
Far(a) == a + 10

Shapes == UNION {{Shape(cs, j) : j \in 0 .. Len(cs) - 1} : cs \in CutUps}

GoodTrees == {Named(n, Same) : n \in Shapes} \cup {Named(n, Far) : n \in Shapes}

\* The root block is 1 and a leaf carries the virtual oid 1.
Clash(a) == IF a >= 4 THEN a - 3 ELSE a + 10
ClashTrees == {[Named(n, Clash) EXCEPT !.root = 1] : n \in Shapes}

Stock ==
    {MkNode(TRUE, TRUE, <<R(1, 1)>>), MkNode(TRUE, TRUE, <<R(2, 1), R(3, 1)>>),
     MkNode(FALSE, TRUE, <<R(1, 1)>>), MkNode(TRUE, FALSE, <<>>)}
      \cup {MkNode(TRUE, FALSE, <<Sep(R(1, 1), a)>>) : a \in {1, 2, 3, 9, 200}}
      \cup {MkNode(TRUE, FALSE, <<Sep(R(1, 1), a), Sep(R(2, 1), b)>>) :
               a, b \in {1, 2, 3}}

Wild(nodes, header) ==
    [root |-> 1, xid |-> 3, header |-> header, mapsound |-> TRUE,
     nodes |-> nodes, below |-> <<>>, height |-> <<>>,
     map |-> {[oid |-> a, xid |-> 2, paddr |-> a] : a \in 1 .. 5}]

\* A chain two levels deeper than the cap.
Chain ==
    LET Link(a) == MkNode(TRUE, FALSE, <<Sep(R(1, 1), a)>>)
    IN  <<Link(2), Link(3), Link(4), Link(5), MkNode(TRUE, TRUE, <<R(1, 1)>>)>>

\* An index node and a leaf, reached through a damaged object map.
LostMap ==
    [Wild(<<MkNode(TRUE, FALSE, <<Sep(R(1, 1), 2)>>),
            MkNode(TRUE, TRUE, <<R(1, 1)>>)>>, "ok") EXCEPT !.mapsound = FALSE]

WildTrees ==
    {Wild(f, "ok") : f \in [1 .. 3 -> Stock] \cup {Chain}}
      \cup {Wild(<<MkNode(TRUE, TRUE, <<>>)>>, h) :
               h \in {"UnexpectedObjectType", "ChecksumMismatch"}}
      \cup {LostMap}

MCTrees == GoodTrees \cup WildTrees

W(kind, keyed, target) == [kind |-> kind, keyed |-> keyed, target |-> target]

AllWalks ==
    {W("fs", FALSE, 0), W("snap", FALSE, 0), W("phys", FALSE, 0)}
      \cup {W("fs", TRUE, t) : t \in 1 .. 4}
SnapWalks == {W("snap", FALSE, 0)}
=============================================================================
