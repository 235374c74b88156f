----------------------------- MODULE MCObjectMap -----------------------------
(***************************************************************************)
(* Well-formed trees over two objects with up to three versions each, cut  *)
(* into leaves in every way, one or two index levels above them; and every *)
(* graph of three nodes drawn from a small stock, cycles included.         *)
(***************************************************************************)
EXTENDS ObjectMap, FiniteSets, SequencesExt

E(oid, xid) == [oid |-> oid, xid |-> xid, value |-> 10 * oid + xid]

AllEntries == {E(1, 1), E(1, 2), E(1, 3), E(2, 1), E(2, 2)}

MkNode(ok, leaf, es) == [cksum |-> ok, leaf |-> leaf, entries |-> es]

\* The runs of `s` between the cut positions C.
Chunks(s, C) ==
    LET ends == SetToSortSeq(C \cup {Len(s)}, <)
    IN  [k \in 1 .. Len(ends) |->
            SubSeq(s, IF k = 1 THEN 1 ELSE ends[k - 1] + 1, ends[k])]

CutUps ==
    UNION {LET s == SetToSortSeq(S, KeyLess)
           IN  {Chunks(s, C) : C \in {D \in SUBSET (1 .. Len(s) - 1) :
                                         Cardinality(D) <= 2}} :
           S \in (SUBSET AllEntries) \ {{}}}

\* The index entry for a child at address a whose first key is e.
Sep(e, a) == [e EXCEPT !.value = a]

\* Root 1 over leaves 4, 5, ...
TwoLevels(cs) ==
    LET leafs == [a \in 4 .. 3 + Len(cs) |-> MkNode(TRUE, TRUE, cs[a - 3])]
        root == MkNode(TRUE, FALSE,
                       [k \in 1 .. Len(cs) |-> Sep(cs[k][1], k + 3)])
        all == UNION {ToSet(cs[k]) : k \in DOMAIN cs}
    IN  [root |-> 1,
         nodes |-> [a \in {1} \cup DOMAIN leafs |->
                      IF a = 1 THEN root ELSE leafs[a]],
         below |-> [a \in {1} \cup DOMAIN leafs |->
                      IF a = 1 THEN all ELSE ToSet(cs[a - 3])],
         height |-> [a \in {1} \cup DOMAIN leafs |-> IF a = 1 THEN 1 ELSE 0]]

\* Root 1 over index nodes 2 and 3; the first j leaves hang under 2.
ThreeLevels(cs, j) ==
    LET flat == TwoLevels(cs)
        es == flat.nodes[1].entries
        parts == <<SubSeq(es, 1, j), SubSeq(es, j + 1, Len(es))>>
        Below(p) == UNION {flat.below[p[k].value] : k \in DOMAIN p}
        D == {2, 3} \cup DOMAIN flat.nodes
    IN  [root |-> 1,
         nodes |-> [a \in D |->
            CASE a = 1 -> MkNode(TRUE, FALSE,
                            <<Sep(parts[1][1], 2), Sep(parts[2][1], 3)>>)
              [] a \in {2, 3} -> MkNode(TRUE, FALSE, parts[a - 1])
              [] OTHER -> flat.nodes[a]],
         below |-> [a \in D |-> IF a \in {2, 3} THEN Below(parts[a - 1])
                                ELSE flat.below[a]],
         height |-> [a \in D |-> CASE a = 1 -> 2
                                    [] a \in {2, 3} -> 1
                                    [] OTHER -> 0]]

EmptyRoot ==
    [root |-> 1, nodes |-> <<MkNode(TRUE, TRUE, <<>>)>>, below |-> <<{}>>,
     height |-> <<0>>]

GoodTrees ==
    {TwoLevels(cs) : cs \in CutUps}
      \cup UNION {{ThreeLevels(cs, j) : j \in 1 .. Len(cs) - 1} : cs \in CutUps}
      \cup {EmptyRoot}

\* Any three nodes: leaves, a damaged one, index nodes to anywhere.
Stock ==
    {MkNode(TRUE, TRUE, <<E(1, 1)>>), MkNode(TRUE, TRUE, <<E(1, 2), E(2, 1)>>),
     MkNode(FALSE, TRUE, <<E(1, 1)>>), MkNode(FALSE, FALSE, <<Sep(E(1, 1), 2)>>),
     MkNode(TRUE, FALSE, <<>>)}
      \cup {MkNode(TRUE, FALSE, <<Sep(E(1, 1), a)>>) : a \in {1, 2, 3, 9, 50}}
      \cup {MkNode(TRUE, FALSE, <<Sep(E(2, 2), 2), Sep(E(1, 1), 3)>>)}
      \cup {MkNode(TRUE, FALSE, <<Sep(E(1, 2), a), Sep(E(2, 1), b)>>) :
               a, b \in {1, 2, 3}}

WildTrees ==
    {[root |-> 1, nodes |-> f, below |-> <<{}, {}, {}>>, height |-> <<2, 1, 0>>] :
        f \in [1 .. 3 -> Stock]}

MCTrees == GoodTrees \cup WildTrees

MCQueries == [oid : {1, 2}, xid : 0 .. 3]
=============================================================================
