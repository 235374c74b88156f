------------------------------- MODULE MCInspect -------------------------------
(***************************************************************************)
(* The ring images of MCContainer without a query, and containers with     *)
(* ephemeral objects: words of 8 bits, blocks of 11 words, hence 88 blocks *)
(* to a chunk; 200 blocks in three chunks, two chunks to a CIB.            *)
(***************************************************************************)
EXTENDS MCContainer, Inspect, SequencesExt

Pad(s) == [k \in 1 .. BlockWords |-> IF k <= Len(s) THEN s[k] ELSE 0]

Seal(s) ==
    LET b == Pad(<<0, 0>> \o s) IN [b EXCEPT ![1] = fletcher64_checksum(b)[1],
                                             ![2] = fletcher64_checksum(b)[2]]

\* Ephemeral oids: 1 the space manager, 2 the reaper, 3 .. 6 reap lists.
ReapBlock(head, oid) == Seal(<<head, 13, oid>>)
ListBlock(next, count, es) == Seal(<<next, count>> \o es)

SpaceBlock(perChunk, perCib, blocks, chunks, cibs, cabs, off, addrs) ==
    Seal(<<perChunk, perCib, blocks, chunks, cibs, cabs, off>> \o addrs)
CibBlock(count, addrs) == Seal(<<count>> \o addrs)

MCBlocks == 200
MCAlloc == {0, 1, 87, 89, 176, 199}

\* The bitmap of chunk c.
BitmapBlock(alloc, c) ==
    [k \in 1 .. BlockWords |->
        FoldLeft(+, 0, [j \in 1 .. 8 |->
            IF 88 * c + 8 * (k - 1) + j - 1 \in alloc THEN 2 ^ (j - 1) ELSE 0])]

P(oid, type) == [oid |-> oid, type |-> type]

Key(tag, len, off) == [tag |-> tag, len |-> len, off |-> off]

\* A keybag: unknown tag 9 with a one-word key, a hint, a volume key.
KeyBlock == Pad(<<3, 9, 1, 77, 0, 4, 0, 2, 2, 5>>)

RingOf(maps) == Image(Sb(1, 1, Plain(2)), <<Cpm(1, 1, Len(maps), maps),
                                             Sb(1, 1, Plain(2))>>)

Queries ==
    {[op |-> "pending", arg |-> 0], [op |-> "integrity", arg |-> 17],
     [op |-> "keybag", arg |-> 18]}
      \cup {[op |-> "free", arg |-> b] : b \in {0, 87, 88, 89, 176, 199, 200}}

Wellformed(maps, lists, queue, parts, upto, oid) ==
    [img |-> RingOf(maps),
     content |-> lists @@
        (10 :> SpaceBlock(88, 2, MCBlocks, 3, 2, 0, 10, <<11, 12>>)) @@
        (11 :> CibBlock(2, <<13, 14>>)) @@ (12 :> CibBlock(1, <<15>>)) @@
        (13 :> BitmapBlock(MCAlloc, 0)) @@ (14 :> BitmapBlock(MCAlloc, 1)) @@
        (15 :> BitmapBlock(MCAlloc, 2)) @@
        (16 :> ReapBlock(3, oid)) @@ (17 :> Seal(<<1, 5, 42>>)) @@ (18 :> KeyBlock),
     calls |-> Queries, sound |-> TRUE,
     place |-> [o \in {m.oid : m \in ToSet(maps)} |->
                  maps[SelectInSeq(maps, LAMBDA m : m.oid = o)].paddr],
     queue |-> queue, lists |-> parts, upto |-> upto,
     alloc |-> MCAlloc, blocks |-> MCBlocks, bitmaps |-> {13, 14, 15},
     cibs |-> (0 :> 11) @@ (1 :> 12),
     bitmapOf |-> (0 :> 13) @@ (1 :> 14) @@ (2 :> 15),
     seal |-> [version |-> 1, hash |-> 5, broken |-> 42], tags |-> {9, 4, 2},
     keys |-> <<Key(9, 1, 2), Key(4, 0, 6), Key(2, 2, 8)>>]

Part(oid, es, slots) == [oid |-> oid, es |-> es, slots |-> slots]

Base == <<M(1, 10), M(2, 16)>>

\* The queue in two lists, one of them full and with an empty slot; the second
\* mapping of list 3 is not the one that counts.
TwoLists ==
    Wellformed(Base \o <<M(3, 20), M(4, 21), M(3, 22)>>,
        (20 :> ListBlock(4, 3, <<2, 50, 2, 0, 3, 51>>)) @@
        (21 :> ListBlock(0, 1, <<2, 52, 2, 99>>)) @@
        (22 :> ListBlock(0, 1, <<2, 60>>)),
        <<P(40, 13), P(50, 2), P(51, 3), P(52, 2)>>,
        <<Part(3, <<P(50, 2), P(51, 3)>>, <<1, 3>>), Part(4, <<P(52, 2)>>, <<1>>)>>,
        (0 :> 1) @@ (1 :> 3) @@ (2 :> 4), 40)

\* The middle chunk has no bitmap; nothing is in progress; one list.
OneList ==
    LET d == Wellformed(Base \o <<M(3, 20)>>,
                        20 :> ListBlock(0, 1, <<2, 50>>), <<P(50, 2)>>,
                        <<Part(3, <<P(50, 2)>>, <<1>>)>>, (0 :> 0) @@ (1 :> 1), 0)
        alloc == MCAlloc \ (88 .. 175)
    IN  [d EXCEPT !.alloc = alloc, !.bitmapOf[1] = 0, !.content[11] = CibBlock(2, <<13, 0>>),
                  !.content[13] = BitmapBlock(alloc, 0),
                  !.content[15] = BitmapBlock(alloc, 2)]

\* What no writer leaves: loops, chains over the cap, missing mappings, counts
\* beyond the block, geometry that contradicts itself.
Odd(maps, words, calls) ==
    [img |-> RingOf(maps), content |-> words, calls |-> calls, sound |-> FALSE]

Lists == <<M(2, 16), M(3, 20), M(4, 21), M(5, 22), M(6, 23)>>

OddChains ==
    {Odd(Lists, (16 :> ReapBlock(3, 0)) @@ c, {[op |-> "pending", arg |-> 0]}) :
        c \in {20 :> ListBlock(3, 0, <<>>),
               (20 :> ListBlock(4, 1, <<1, 1>>)) @@ (21 :> ListBlock(3, 1, <<1, 2>>)),
               (20 :> ListBlock(4, 200, <<1, 1, 1, 2, 1, 3>>)) @@
                  (21 :> ListBlock(5, 0, <<>>)) @@ (22 :> ListBlock(6, 0, <<>>)) @@
                  (23 :> ListBlock(0, 0, <<>>)),
               20 :> ListBlock(9, 1, <<1, 1>>),
               20 :> ListBlock(4, 1, <<1, 1>>)}}
      \cup {Odd(<<>>, <<>>, {[op |-> "pending", arg |-> 0]})}

OddSpace ==
    {Odd(<<M(1, 10)>>,
         (10 :> s) @@ (11 :> CibBlock(1, <<13>>)) @@ (13 :> BitmapBlock({}, 0)) @@
         (0 :> Seal(<<7, 0, 13>>)),
         {[op |-> "free", arg |-> b] : b \in {0, 100, 199}}) :
        s \in {SpaceBlock(88, 2, 200, 3, 2, 0, 10, <<11, 12>>),
               SpaceBlock(88, 2, 200, 3, 1, 0, 10, <<11, 12>>),
               SpaceBlock(88, 2, 200, 1, 2, 0, 10, <<11, 12>>),
               SpaceBlock(0, 2, 200, 3, 2, 0, 10, <<11, 12>>),
               SpaceBlock(88, 2, 200, 3, 2, 1, 10, <<11, 12>>),
               SpaceBlock(200, 1, 200, 1, 1, 0, 10, <<11>>),
               SpaceBlock(88, 1, 200, 3, 3, 0, 11, <<11, 11>>)}}

RingOnly ==
    {[Odd(<<>>, <<>>, {[op |-> "none", arg |-> 0]}) EXCEPT !.img = im] :
        im \in MCImages}

MCDisks == {TwoLists, OneList} \cup OddChains \cup OddSpace \cup RingOnly

AllImages == {d.img : d \in MCDisks}
=============================================================================
