--------------------------- MODULE Container_proofs ---------------------------
(***************************************************************************)
(* For every image, ring length and pair of block-size limits: opening a   *)
(* container is type correct, chooses the highest valid superblock of the  *)
(* ring, reports a ring without one only when there is none, and never     *)
(* refuses on the re-read what the scan accepted.  The mapping in force    *)
(* for an object is the one the earliest live map block gives, and a legal *)
(* container of the minimum block size is refused by nothing but its       *)
(* source.                                                                 *)
(***************************************************************************)
EXTENDS Container, FiniteSetTheorems, TLAPS

\* LiveIsHighest says nothing while the first pass is under way; this is what
\* holds then: best is the best of the ring positions already scanned.
ScanProgress ==
    pc = "scan" => i <= boot.descBlocks /\ BestOf(0 .. i - 1)

\* The mappings collected are those of the live maps at positions K: none
\* comes from elsewhere, and none of theirs is missing.
Collected(K) ==
    /\ \A n \in DOMAIN mappings :
          \E k \in MapIndexes(K) : \E m \in DOMAIN RingEntries(k) :
             mappings[n] = RingEntries(k)[m]
    /\ \A k \in MapIndexes(K) : \A m \in DOMAIN RingEntries(k) :
          \E n \in DOMAIN mappings : mappings[n] = RingEntries(k)[m]

\* No more mappings than the cap allows the live maps at positions K.
Bounded(K) ==
    /\ IsFiniteSet(MapIndexes(K))
    /\ Len(mappings) <= MAX_CPM_COUNT * Cardinality(MapIndexes(K))

\* The same for the second pass and MappingsAreLive.
MapsProgress ==
    /\ pc = "maps" => /\ i <= boot.descBlocks
                      /\ Collected(0 .. i - 1) /\ Bounded(0 .. i - 1)
    /\ pc \in {"reread", "open"} => Collected(RingIndex) /\ Bounded(RingIndex)

\* Before the bootstrap is accepted nothing has been found, and nothing is
\* collected before the second pass.
FreshStart ==
    /\ pc = "block0" => i = 0 /\ best = NoCandidate /\ boot = NoGeometry
    /\ pc \in {"block0", "scan"} => mappings = <<>>

IInv ==
    /\ TypeOK
    /\ FreshStart
    /\ ScanProgress
    /\ LiveIsHighest
    /\ MapsProgress
    /\ NoSuperblockIsTrue

-----------------------------------------------------------------------------
\* MapEntries yields a sequence of mappings for every block, also when
\* cpm_count exceeds what the block holds (checkpoint.rs, cpm_map loop).
LEMMA MapEntriesType ==
    ASSUME NEW b \in Block
    PROVE  MapEntries(b) \in Seq(Mapping)
<1> DEFINE n == IF b.count < MAX_CPM_COUNT THEN b.count ELSE MAX_CPM_COUNT
           f == [m \in 1 .. n |->
                    IF m <= Len(b.maps) THEN b.maps[m] ELSE ZeroMapping]
<1>1. n \in Nat
  BY SizeAssumption DEF Block
<1>2. ASSUME NEW m \in 1 .. n
      PROVE  (IF m <= Len(b.maps) THEN b.maps[m] ELSE ZeroMapping) \in Mapping
  <2>1. b.maps \in Seq(Mapping)
    BY DEF Block
  <2>2. ZeroMapping \in Mapping
    BY DEF ZeroMapping, Mapping
  <2>3. CASE m <= Len(b.maps)
    <3>1. m \in 1 .. Len(b.maps)
      BY <1>1, <2>1, <2>3
    <3> QED
      BY <3>1, <2>1, <2>3
  <2>4. CASE ~(m <= Len(b.maps))
    BY <2>2, <2>4
  <2> QED
    BY <2>3, <2>4
<1>3. f \in [1 .. n -> Mapping]
  BY <1>2
<1>4. f \in Seq(Mapping)
  <2> HIDE DEF f, n
  <2> QED
    BY <1>1, <1>3
<1>5. MapEntries(b) = f
  BY DEF MapEntries
<1> QED
  BY <1>4, <1>5

\* Every block of an image decodes to a Block with a known geometry.
LEMMA BlockType ==
    ASSUME TypeOK, NEW a, InImage(a)
    PROVE  /\ a \in Nat
           /\ img[a] \in Block
           /\ img[a].geo \in Geometry
           /\ img[a].xid \in Nat
<1>1. /\ DOMAIN img \subseteq Nat
      /\ img \in [DOMAIN img -> Block]
  BY SizeAssumption DEF TypeOK, IsImage
<1>2. a \in Nat /\ img[a] \in Block
  BY <1>1 DEF InImage
<1> QED
  BY <1>2 DEF Block

\* desc_base + i stays in the address space.
LEMMA RingAddrType ==
    ASSUME TypeOK, NEW k \in Nat
    PROVE  RingAddr(k) \in Nat
<1>1. boot.descBase \in Nat
  BY SizeAssumption DEF TypeOK, Geometry
<1> QED
  BY <1>1, SizeAssumption DEF RingAddr

\* One turn of the first pass (checkpoint.rs, scan loop): if best is the best
\* of the first i positions, the updated candidate is the best of i + 1.
LEMMA ScanStep ==
    ASSUME TypeOK, ScanProgress, ScanBlock
    PROVE  BestOf(0 .. i - 1)'
<1> DEFINE a == RingAddr(i)
           Old == Candidates(0 .. i - 1)
           New == Candidates(0 .. i)
<1>1. /\ i \in Nat /\ BestOf(0 .. i - 1)
      /\ img' = img /\ boot' = boot
  BY DEF ScanBlock, AtRingBlock, ScanProgress, TypeOK
<1>2. \A k : RingAddr(k)' = RingAddr(k)
  BY <1>1 DEF RingAddr
<1>3. Candidates(0 .. i - 1)' = New
  BY <1>1 DEF Candidates, InImage, IsSuperblock, ChecksumOk, RingAddr, ScanBlock
<1>4. New = IF InImage(a) /\ IsSuperblock(img[a]) THEN Old \cup {i} ELSE Old
  BY <1>1 DEF Candidates
<1>5. \A k \in New : k \in Nat /\ k <= i /\ img[RingAddr(k)].xid \in Nat
  BY <1>1, BlockType DEF Candidates
<1>6. \A k \in Old : k < i /\ k \in New
  BY <1>1 DEF Candidates
<1>7. best.xid \in Nat
  BY DEF TypeOK
<1>8. BestOf(0 .. i - 1)' =
        IF New = {} THEN ~best'.found
        ELSE /\ best'.found
             /\ \E k \in New :
                  /\ best'.paddr = RingAddr(k)
                  /\ best'.xid = img[RingAddr(k)].xid
                  /\ \A j \in New :
                       /\ img[RingAddr(j)].xid <= best'.xid
                       /\ (j < k => img[RingAddr(j)].xid < best'.xid)
  <2>1. i' = i + 1
    BY DEF ScanBlock
  <2> QED
    BY <1>1, <1>2, <1>3 DEF BestOf
<1> HIDE DEF a
<1>9. CASE InImage(a) /\ IsSuperblock(img[a]) /\ Supersedes(img[a])
  <2>1. best' = [found |-> TRUE, xid |-> img[a].xid, paddr |-> a]
    BY <1>9 DEF ScanBlock, a
  <2>2. i \in New /\ New = Old \cup {i}
    BY <1>4, <1>9
  <2>3. \A j \in Old : img[RingAddr(j)].xid < img[a].xid
    <3>1. CASE Old = {}
      BY <3>1
    <3>2. CASE Old # {}
      <4>1. best.found /\ \A j \in Old : img[RingAddr(j)].xid <= best.xid
        BY <1>1, <3>2 DEF BestOf
      <4>2. img[a].xid > best.xid
        BY <1>9, <4>1 DEF Supersedes
      <4>3. img[a].xid \in Nat
        BY <1>5, <2>2 DEF a
      <4> QED
        BY <4>1, <4>2, <4>3, <1>5, <1>6, <1>7
    <3> QED
      BY <3>1, <3>2
  <2>4. /\ best'.found
        /\ best'.paddr = RingAddr(i)
        /\ best'.xid = img[RingAddr(i)].xid
        /\ \A j \in New :
             /\ img[RingAddr(j)].xid <= best'.xid
             /\ (j < i => img[RingAddr(j)].xid < best'.xid)
    BY <2>1, <2>2, <2>3, <1>5, <1>6, <1>1 DEF a
  <2> QED
    BY <2>2, <2>4, <1>8
<1>10. CASE ~(InImage(a) /\ IsSuperblock(img[a]) /\ Supersedes(img[a]))
  <2>1. best' = best
    BY <1>10 DEF ScanBlock, a
  <2>2. CASE InImage(a) /\ IsSuperblock(img[a])
    <3>1. best.found /\ ~(img[a].xid > best.xid)
      BY <1>10, <2>2 DEF Supersedes
    <3>2. Old # {}
      BY <3>1, <1>1 DEF BestOf
    <3>3. PICK k \in Old :
            /\ best.paddr = RingAddr(k)
            /\ best.xid = img[RingAddr(k)].xid
            /\ \A j \in Old :
                 /\ img[RingAddr(j)].xid <= best.xid
                 /\ (j < k => img[RingAddr(j)].xid < best.xid)
      BY <1>1, <3>2 DEF BestOf
    <3>4. New = Old \cup {i} /\ k \in New /\ k < i
      BY <1>4, <1>6, <2>2
    <3>5. img[RingAddr(i)].xid <= best.xid
      BY <3>1, <3>4, <1>5, <1>7 DEF a
    <3>6. \A j \in New :
             /\ img[RingAddr(j)].xid <= best.xid
             /\ (j < k => img[RingAddr(j)].xid < best.xid)
      BY <3>3, <3>4, <3>5, <1>5, <1>1
    <3> QED
      BY <3>1, <3>3, <3>4, <3>6, <2>1, <1>8
  <2>3. CASE ~(InImage(a) /\ IsSuperblock(img[a]))
    <3>1. New = Old
      BY <1>4, <2>3
    <3> QED
      BY <3>1, <2>1, <1>1, <1>8 DEF BestOf
  <2> QED
    BY <2>2, <2>3
<1> QED
  BY <1>9, <1>10

\* One turn of the second pass (checkpoint.rs, mapping loop): appending the
\* block's entries extends what is collected to i + 1 positions.
LEMMA MapStep ==
    ASSUME TypeOK, Collected(0 .. i - 1), MapBlock
    PROVE  Collected(0 .. i - 1)'
<1> DEFINE a == RingAddr(i)
           Old == MapIndexes(0 .. i - 1)
           New == MapIndexes(0 .. i)
<1>1. /\ i \in Nat /\ i' = i + 1
      /\ img' = img /\ boot' = boot /\ best' = best
      /\ mappings \in Seq(Mapping)
  BY DEF MapBlock, TypeOK
<1>2. MapIndexes(0 .. i - 1)' = New
  BY <1>1 DEF MapIndexes, InImage, IsLiveMap, ChecksumOk, RingAddr
<1>3. \A k : RingEntries(k)' = RingEntries(k)
  BY <1>1 DEF RingAddr, RingEntries, MapEntries
<1>4. New = IF InImage(a) /\ IsLiveMap(img[a]) THEN Old \cup {i} ELSE Old
  BY <1>1 DEF MapIndexes
<1>5. Collected(0 .. i - 1)' <=>
        /\ \A n \in DOMAIN mappings' :
              \E k \in New : \E m \in DOMAIN RingEntries(k) :
                 mappings'[n] = RingEntries(k)[m]
        /\ \A k \in New : \A m \in DOMAIN RingEntries(k) :
              \E n \in DOMAIN mappings' : mappings'[n] = RingEntries(k)[m]
  BY <1>2, <1>3 DEF Collected
<1> HIDE DEF a, Old, New
<1>6. CASE InImage(a) /\ IsLiveMap(img[a])
  <2> DEFINE e == RingEntries(i)
  <2>1. e \in Seq(Mapping) /\ mappings' = mappings \o e
    BY <1>6, MapEntriesType, BlockType DEF MapBlock, RingEntries, a
  <2> HIDE DEF e
  <2>2. \A n \in DOMAIN mappings : /\ n \in DOMAIN mappings'
                                   /\ mappings'[n] = mappings[n]
    BY <2>1, <1>1
  <2>3. \A m \in DOMAIN e : /\ Len(mappings) + m \in DOMAIN mappings'
                            /\ mappings'[Len(mappings) + m] = e[m]
    BY <2>1, <1>1
  <2>4. \A n \in DOMAIN mappings' :
          \/ n \in DOMAIN mappings /\ mappings'[n] = mappings[n]
          \/ n - Len(mappings) \in DOMAIN e /\ mappings'[n] = e[n - Len(mappings)]
    BY <2>1, <1>1
  <2>5. New = Old \cup {i}
    BY <1>4, <1>6
  <2>6. ASSUME NEW n \in DOMAIN mappings'
        PROVE  \E k \in New : \E m \in DOMAIN RingEntries(k) :
                 mappings'[n] = RingEntries(k)[m]
    BY <2>4, <2>5 DEF Collected, e, Old
  <2>7. ASSUME NEW k \in New, NEW m \in DOMAIN RingEntries(k)
        PROVE  \E n \in DOMAIN mappings' : mappings'[n] = RingEntries(k)[m]
    BY <2>2, <2>3, <2>5 DEF Collected, e, Old
  <2> QED
    BY <1>5, <2>6, <2>7
<1>7. CASE ~(InImage(a) /\ IsLiveMap(img[a]))
  <2>1. mappings' = mappings /\ New = Old
    BY <1>4, <1>7 DEF MapBlock, a
  <2> QED
    BY <2>1, <1>5 DEF Collected, Old
<1> QED
  BY <1>6, <1>7

\* One block contributes at most MAX_CPM_COUNT mappings.
LEMMA MapEntriesBound ==
    ASSUME NEW b \in Block
    PROVE  Len(MapEntries(b)) <= MAX_CPM_COUNT
<1> DEFINE n == IF b.count < MAX_CPM_COUNT THEN b.count ELSE MAX_CPM_COUNT
<1>1. n \in Nat /\ n <= MAX_CPM_COUNT
  BY SizeAssumption DEF Block
<1>2. DOMAIN MapEntries(b) = 1 .. n
  BY DEF MapEntries
<1>3. MapEntries(b) \in Seq(Mapping)
  BY MapEntriesType
<1> HIDE DEF n
<1>4. Len(MapEntries(b)) = n
  BY <1>1, <1>2, <1>3
<1> QED
  BY <1>1, <1>4

\* One turn of the second pass keeps the bound: a block at a new position.
LEMMA BoundStep ==
    ASSUME TypeOK, Bounded(0 .. i - 1), MapBlock
    PROVE  Bounded(0 .. i - 1)'
<1> DEFINE a == RingAddr(i)
           Old == MapIndexes(0 .. i - 1)
           New == MapIndexes(0 .. i)
<1>1. /\ i \in Nat /\ i' = i + 1
      /\ img' = img /\ boot' = boot /\ best' = best
      /\ mappings \in Seq(Mapping)
  BY DEF MapBlock, TypeOK
<1>2. MapIndexes(0 .. i - 1)' = New
  BY <1>1 DEF MapIndexes, InImage, IsLiveMap, ChecksumOk, RingAddr
<1>3. /\ New = IF InImage(a) /\ IsLiveMap(img[a]) THEN Old \cup {i} ELSE Old
      /\ i \notin Old
  BY <1>1 DEF MapIndexes
<1>4. IsFiniteSet(Old) /\ Len(mappings) <= MAX_CPM_COUNT * Cardinality(Old)
  BY DEF Bounded
<1>5. Bounded(0 .. i - 1)' <=>
        /\ IsFiniteSet(New)
        /\ Len(mappings') <= MAX_CPM_COUNT * Cardinality(New)
  BY <1>2 DEF Bounded
<1> HIDE DEF a, Old, New
<1>6. CASE InImage(a) /\ IsLiveMap(img[a])
  <2> DEFINE e == MapEntries(img[a])
  <2>1. e \in Seq(Mapping) /\ Len(e) <= MAX_CPM_COUNT
    BY <1>6, MapEntriesType, MapEntriesBound, BlockType
  <2>2. mappings' = mappings \o e
    BY <1>6 DEF MapBlock, a
  <2> HIDE DEF e
  <2>3. Len(mappings') = Len(mappings) + Len(e)
    BY <2>1, <2>2, <1>1
  <2>4. IsFiniteSet(New) /\ Cardinality(New) = Cardinality(Old) + 1
    BY <1>3, <1>4, <1>6, FS_AddElement
  <2>5. Cardinality(Old) \in Nat
    BY <1>4, FS_CardinalityType
  <2>6. ASSUME NEW c \in Nat, NEW m \in Nat
        PROVE  m * (c + 1) = m * c + m
    OBVIOUS
  <2>7. MAX_CPM_COUNT * Cardinality(New) =
          MAX_CPM_COUNT * Cardinality(Old) + MAX_CPM_COUNT
    BY <2>4, <2>5, <2>6, SizeAssumption
  <2>8. ASSUME NEW x \in Nat
        PROVE  MAX_CPM_COUNT * x \in Nat
    BY SizeAssumption
  <2>9. MAX_CPM_COUNT * Cardinality(Old) \in Nat
    BY <2>5, <2>8
  <2>10. Len(mappings) \in Nat /\ Len(e) \in Nat
    BY <1>1, <2>1
  <2> QED
    BY <1>4, <1>5, <2>1, <2>3, <2>4, <2>7, <2>9, <2>10, SizeAssumption
<1>7. CASE ~(InImage(a) /\ IsLiveMap(img[a]))
  BY <1>3, <1>4, <1>5, <1>7 DEF MapBlock, a
<1> QED
  BY <1>6, <1>7

\* The capped, zero-filled entries are the ones the block lists, and the
\* empty mapping where cpm_count points past them.
LEMMA EntriesAreListed ==
    ASSUME TypeOK, NEW k, InImage(RingAddr(k))
    PROVE  /\ \A mp \in Listed(k) : \E m \in DOMAIN RingEntries(k) :
                 RingEntries(k)[m] = mp
           /\ \A m \in DOMAIN RingEntries(k) :
                 \/ RingEntries(k)[m] \in Listed(k)
                 \/ RingEntries(k)[m] = ZeroMapping /\ Overlong(k)
<1> DEFINE b == img[RingAddr(k)]
           n == IF b.count < MAX_CPM_COUNT THEN b.count ELSE MAX_CPM_COUNT
<1>1. b \in Block
  BY BlockType
<1>2. b.count \in Nat /\ b.maps \in Seq(Mapping) /\ n \in Nat
  BY <1>1, SizeAssumption DEF Block
<1>3. RingEntries(k) = [m \in 1 .. n |->
        IF m <= Len(b.maps) THEN b.maps[m] ELSE ZeroMapping]
  BY DEF RingEntries, MapEntries
<1>4. Listed(k) = {b.maps[m] : m \in {m \in DOMAIN b.maps :
                                        m <= b.count /\ m <= MAX_CPM_COUNT}}
  BY DEF Listed
<1>5. Overlong(k) <=> b.count > Len(b.maps)
  BY DEF Overlong
<1>6. /\ n <= b.count /\ n <= MAX_CPM_COUNT
      /\ n = b.count \/ n = MAX_CPM_COUNT
  BY <1>2, SizeAssumption
<1> HIDE DEF b, n
<1>7. ASSUME NEW mp \in Listed(k)
      PROVE  \E m \in DOMAIN RingEntries(k) : RingEntries(k)[m] = mp
  <2>1. PICK m \in DOMAIN b.maps :
          m <= b.count /\ m <= MAX_CPM_COUNT /\ mp = b.maps[m]
    BY <1>4
  <2>2. m \in 1 .. n /\ m <= Len(b.maps)
    BY <2>1, <1>2, <1>6
  <2> QED
    BY <2>1, <2>2, <1>3
<1>8. ASSUME NEW m \in DOMAIN RingEntries(k)
      PROVE  \/ RingEntries(k)[m] \in Listed(k)
             \/ RingEntries(k)[m] = ZeroMapping /\ Overlong(k)
  <2>1. m \in 1 .. n
    BY <1>3
  <2>2. CASE m <= Len(b.maps)
    <3>1. m \in DOMAIN b.maps /\ m <= b.count /\ m <= MAX_CPM_COUNT
      BY <2>1, <2>2, <1>2, <1>6, SizeAssumption
    <3>2. RingEntries(k)[m] = b.maps[m]
      BY <2>1, <2>2, <1>3
    <3> QED
      BY <3>1, <3>2, <1>4
  <2>3. CASE ~(m <= Len(b.maps))
    <3>1. RingEntries(k)[m] = ZeroMapping
      BY <2>1, <2>3, <1>3
    <3>2. b.count > Len(b.maps)
      BY <2>1, <2>3, <1>2, <1>6
    <3> QED
      BY <3>1, <3>2, <1>5
  <2> QED
    BY <2>2, <2>3
<1> QED
  BY <1>7, <1>8

-----------------------------------------------------------------------------
\* Type correctness of one step.
LEMMA TypeStep == TypeOK /\ [Next]_vars => TypeOK'
<1> SUFFICES ASSUME TypeOK, [Next]_vars PROVE TypeOK'
  OBVIOUS
<1> USE SizeAssumption
<1>1. CASE Block0Missing
  BY <1>1 DEF TypeOK, Block0Missing, Fail
<1>2. CASE Block0Rejected
  BY <1>2 DEF TypeOK, Block0Rejected, BootError, ParseResult, Fail
<1>3. CASE Block0Accepted
  <2>1. boot' \in Geometry
    BY <1>3, BlockType DEF Block0Accepted
  <2> QED
    BY <1>3, <2>1 DEF TypeOK, Block0Accepted
<1>4. CASE RingPanic
  BY <1>4 DEF TypeOK, RingPanic, Fail
<1>5. CASE ScanBlock
  <2>1. best' \in [found : BOOLEAN, xid : Nat, paddr : Nat]
    <3> DEFINE a == RingAddr(i)
    <3>1. CASE InImage(a) /\ IsSuperblock(img[a]) /\ Supersedes(img[a])
      <4>1. best' = [found |-> TRUE, xid |-> img[a].xid, paddr |-> a]
        BY <1>5, <3>1 DEF ScanBlock
      <4>2. a \in Nat /\ img[a].xid \in Nat
        BY <3>1, BlockType
      <4> QED
        BY <4>1, <4>2
    <3>2. CASE ~(InImage(a) /\ IsSuperblock(img[a]) /\ Supersedes(img[a]))
      BY <1>5, <3>2 DEF ScanBlock, TypeOK
    <3> QED
      BY <3>1, <3>2
  <2> QED
    BY <1>5, <2>1 DEF TypeOK, ScanBlock, AtRingBlock
<1>6. CASE NoSuperblock
  BY <1>6 DEF TypeOK, NoSuperblock, Fail
<1>7. CASE ScanDone
  BY <1>7 DEF TypeOK, ScanDone
<1>8. CASE MapBlock
  <2>1. mappings' \in Seq(Mapping)
    <3>1. CASE InImage(RingAddr(i)) /\ IsLiveMap(img[RingAddr(i)])
      <4>1. MapEntries(img[RingAddr(i)]) \in Seq(Mapping)
        BY <3>1, BlockType, MapEntriesType
      <4> QED
        BY <1>8, <3>1, <4>1 DEF MapBlock, TypeOK
    <3>2. CASE ~(InImage(RingAddr(i)) /\ IsLiveMap(img[RingAddr(i)]))
      BY <1>8, <3>2 DEF MapBlock, TypeOK
    <3> QED
      BY <3>1, <3>2
  <2> QED
    BY <1>8, <2>1 DEF TypeOK, MapBlock, AtRingBlock
<1>9. CASE MapsDone
  BY <1>9 DEF TypeOK, MapsDone
<1>10. CASE Reread
  BY <1>10 DEF TypeOK, Reread, RereadError, ParseResult
<1>11. CASE ReadFails
  BY <1>11 DEF TypeOK, ReadFails, Fail
<1>12. CASE UNCHANGED vars
  BY <1>12 DEF TypeOK, vars
<1> QED
  BY <1>1, <1>2, <1>3, <1>4, <1>5, <1>6, <1>7, <1>8, <1>9, <1>10, <1>11,
     <1>12 DEF Next, Advance, Returned

\* While the image, the geometry and the candidate stay put, so do the ring
\* positions that count, the verdict on the candidate and on the mappings.
LEMMA SameRing ==
    ASSUME img' = img, boot' = boot, best' = best
    PROVE  /\ Candidates(RingIndex)' = Candidates(RingIndex)
           /\ BestOf(RingIndex)' <=> BestOf(RingIndex)
           /\ mappings' = mappings =>
                /\ Collected(RingIndex)' <=> Collected(RingIndex)
                /\ Bounded(RingIndex)' <=> Bounded(RingIndex)
<1>1. RingIndex' = RingIndex /\ \A k : RingAddr(k)' = RingAddr(k)
  BY DEF RingIndex, RingAddr
<1>2. Candidates(RingIndex)' = Candidates(RingIndex)
  BY <1>1 DEF Candidates, InImage, IsSuperblock, ChecksumOk
<1>3. MapIndexes(RingIndex)' = MapIndexes(RingIndex)
  BY <1>1 DEF MapIndexes, InImage, IsLiveMap, ChecksumOk
<1>4. \A k : RingEntries(k)' = RingEntries(k)
  BY <1>1 DEF RingEntries, MapEntries
<1> QED
  BY <1>1, <1>2, <1>3, <1>4 DEF BestOf, Collected, Bounded

\* The scanned prefix of a finished pass is the whole ring.
LEMMA WholeRing ==
    ASSUME TypeOK, i <= boot.descBlocks, i >= boot.descBlocks
    PROVE  0 .. i - 1 = RingIndex
BY DEF TypeOK, Geometry, RingIndex

\* What passed the gates of the scan passes NxSuperblock::parse again.
LEMMA RereadSucceeds ==
    ASSUME IInv, Reread
    PROVE  pc' = "open" /\ error' = "none"
<1>1. Candidates(RingIndex) # {} /\ BestOf(RingIndex)
  BY DEF IInv, LiveIsHighest, BestOf, Reread
<1>2. PICK k \in Candidates(RingIndex) : best.paddr = RingAddr(k)
  BY <1>1 DEF BestOf
<1>3. InImage(best.paddr) /\ IsSuperblock(img[best.paddr])
  BY <1>2 DEF Candidates
<1> QED
  BY <1>3 DEF Reread, RereadError, ParseResult, IsSuperblock

\* IInv is inductive: one step per action.
LEMMA InductiveStep == IInv /\ [Next]_vars => IInv'
<1> SUFFICES ASSUME IInv, [Next]_vars PROVE IInv'
  OBVIOUS
<1>0. TypeOK /\ TypeOK'
  BY TypeStep DEF IInv
<1> USE DEF IInv
<1>1. CASE \E e : Fail(e) /\ (e = "NoValidSuperblock" =>
                              pc = "block0" \/ Candidates(RingIndex) = {})
  <2>1. /\ pc' = "failed" /\ img' = img /\ boot' = boot /\ best' = best
        /\ error' = "NoValidSuperblock" =>
             pc = "block0" \/ Candidates(RingIndex) = {}
    BY <1>1 DEF Fail
  <2>2. NoSuperblockIsTrue'
    BY <2>1, SameRing DEF NoSuperblockIsTrue, FreshStart, NoGeometry
  <2> QED
    BY <1>0, <2>1, <2>2 DEF FreshStart, ScanProgress, LiveIsHighest, MapsProgress
<1>2. CASE Block0Missing \/ Block0Rejected
  <2>1. pc = "block0" /\ \E e : Fail(e)
    BY <1>2 DEF Block0Missing, Block0Rejected
  <2> QED
    BY <1>1, <2>1
<1>3. CASE Block0Accepted
  <2>1. /\ pc = "block0" /\ pc' = "scan" /\ i' = i /\ best' = best
        /\ mappings' = mappings
    BY <1>3 DEF Block0Accepted
  <2>2. i = 0 /\ ~best.found /\ mappings = <<>>
    BY <2>1 DEF FreshStart, NoCandidate
  <2>3. Candidates(0 .. i - 1)' = {}
    BY <2>1, <2>2 DEF Candidates
  <2>4. i' <= boot'.descBlocks
    BY <1>0, <2>1, <2>2 DEF TypeOK, Geometry
  <2> QED
    BY <1>0, <2>1, <2>2, <2>3, <2>4
    DEF FreshStart, ScanProgress, BestOf, LiveIsHighest, MapsProgress,
        NoSuperblockIsTrue
<1>4. CASE RingPanic
  BY <1>1, <1>4 DEF RingPanic
<1>5. CASE ScanBlock
  <2>1. BestOf(0 .. i - 1)'
    BY <1>0, <1>5, ScanStep
  <2>2. /\ pc = "scan" /\ pc' = "scan" /\ i' = i + 1 /\ i < boot.descBlocks
        /\ boot' = boot /\ mappings' = mappings
    BY <1>5 DEF ScanBlock, AtRingBlock
  <2>3. i' <= boot'.descBlocks
    BY <1>0, <2>2 DEF TypeOK, Geometry
  <2> QED
    BY <1>0, <2>1, <2>2, <2>3
    DEF FreshStart, ScanProgress, LiveIsHighest, MapsProgress,
        NoSuperblockIsTrue
<1>6. CASE NoSuperblock
  <2>1. Candidates(RingIndex) = {}
    BY <1>0, <1>6, WholeRing DEF NoSuperblock, ScanProgress, BestOf
  <2> QED
    BY <1>1, <1>6, <2>1 DEF NoSuperblock
<1>7. CASE ScanDone
  <2>1. /\ pc = "scan" /\ pc' = "maps" /\ i' = 0 /\ best.found
        /\ img' = img /\ boot' = boot /\ best' = best
        /\ mappings' = mappings
    BY <1>7 DEF ScanDone
  <2>2. BestOf(RingIndex)
    BY <1>0, <1>7, WholeRing DEF ScanDone, ScanProgress
  <2>3. BestOf(RingIndex)'
    BY <2>1, <2>2, SameRing
  <2>4. MapIndexes(0 .. i - 1)' = {} /\ mappings' = <<>>
    BY <2>1 DEF MapIndexes, FreshStart
  <2>5. Collected(0 .. i - 1)' /\ Bounded(0 .. i - 1)'
    <3>1. Collected(0 .. i - 1)'
      BY <2>4 DEF Collected
    <3>2. IsFiniteSet(MapIndexes(0 .. i - 1)')
      BY <2>4, FS_EmptySet
    <3>3. Cardinality(MapIndexes(0 .. i - 1)') = 0
      BY <2>4, FS_EmptySet
    <3>4. Len(mappings') = 0 /\ MAX_CPM_COUNT * 0 = 0
      BY <2>4, SizeAssumption
    <3> QED
      BY <3>1, <3>2, <3>3, <3>4 DEF Bounded
  <2>6. i' <= boot'.descBlocks
    BY <1>0, <2>1 DEF TypeOK, Geometry
  <2> QED
    BY <1>0, <2>1, <2>3, <2>5, <2>6
    DEF FreshStart, ScanProgress, LiveIsHighest, MapsProgress,
        NoSuperblockIsTrue
<1>8. CASE MapBlock
  <2>1. /\ pc = "maps" /\ pc' = "maps" /\ i' = i + 1 /\ i < boot.descBlocks
        /\ img' = img /\ boot' = boot /\ best' = best
    BY <1>8 DEF MapBlock, AtRingBlock
  <2>2. Collected(0 .. i - 1)' /\ Bounded(0 .. i - 1)'
    BY <1>0, <1>8, <2>1, MapStep, BoundStep DEF MapsProgress
  <2>3. BestOf(RingIndex)' /\ best'.found
    BY <2>1, SameRing DEF LiveIsHighest
  <2>4. i' <= boot'.descBlocks
    BY <1>0, <2>1 DEF TypeOK, Geometry
  <2> QED
    BY <1>0, <2>1, <2>2, <2>3, <2>4
    DEF FreshStart, ScanProgress, LiveIsHighest, MapsProgress,
        NoSuperblockIsTrue
<1>9. CASE MapsDone
  <2>1. /\ pc = "maps" /\ pc' = "reread" /\ mappings' = mappings
        /\ img' = img /\ boot' = boot /\ best' = best
    BY <1>9 DEF MapsDone
  <2>2. Collected(RingIndex) /\ Bounded(RingIndex)
    BY <1>0, <1>9, WholeRing DEF MapsDone, MapsProgress
  <2>3. /\ BestOf(RingIndex)' /\ best'.found
        /\ Collected(RingIndex)' /\ Bounded(RingIndex)'
    BY <2>1, <2>2, SameRing DEF LiveIsHighest
  <2> QED
    BY <1>0, <2>1, <2>3
    DEF FreshStart, ScanProgress, LiveIsHighest, MapsProgress,
        NoSuperblockIsTrue
<1>10. CASE Reread
  <2>1. /\ pc = "reread" /\ pc' \in {"open", "failed"}
        /\ mappings' = mappings /\ img' = img /\ boot' = boot /\ best' = best
    BY <1>10 DEF Reread
  <2>2. /\ BestOf(RingIndex)' /\ best'.found
        /\ Collected(RingIndex)' /\ Bounded(RingIndex)'
    BY <2>1, SameRing DEF LiveIsHighest, MapsProgress
  <2>3. pc' = "open" /\ error' = "none"
    BY <1>10, RereadSucceeds
  <2> QED
    BY <1>0, <2>1, <2>2, <2>3
    DEF FreshStart, ScanProgress, LiveIsHighest, MapsProgress,
        NoSuperblockIsTrue
<1>11. CASE ReadFails
  BY <1>1, <1>11 DEF ReadFails
<1>12. CASE UNCHANGED vars
  <2>1. /\ pc' = pc /\ i' = i /\ mappings' = mappings /\ error' = error
        /\ img' = img /\ boot' = boot /\ best' = best
    BY <1>12 DEF vars
  <2>2. /\ BestOf(0 .. i - 1)' <=> BestOf(0 .. i - 1)
        /\ Collected(0 .. i - 1)' <=> Collected(0 .. i - 1)
        /\ Bounded(0 .. i - 1)' <=> Bounded(0 .. i - 1)
    <3>1. \A k : RingAddr(k)' = RingAddr(k) /\ RingEntries(k)' = RingEntries(k)
      BY <2>1 DEF RingAddr, RingEntries, MapEntries
    <3>2. Candidates(0 .. i - 1)' = Candidates(0 .. i - 1)
      BY <2>1, <3>1 DEF Candidates, InImage, IsSuperblock, ChecksumOk
    <3>3. MapIndexes(0 .. i - 1)' = MapIndexes(0 .. i - 1)
      BY <2>1, <3>1 DEF MapIndexes, InImage, IsLiveMap, ChecksumOk
    <3> QED
      BY <2>1, <3>1, <3>2, <3>3 DEF BestOf, Collected, Bounded
  <2>3. FreshStart' /\ ScanProgress'
    BY <2>1, <2>2 DEF FreshStart, ScanProgress
  <2>4. LiveIsHighest' /\ NoSuperblockIsTrue'
    BY <2>1, SameRing DEF LiveIsHighest, NoSuperblockIsTrue
  <2>5. MapsProgress'
    BY <2>1, <2>2, SameRing DEF MapsProgress
  <2> QED
    BY <1>0, <2>3, <2>4, <2>5
<1> QED
  BY <1>2, <1>3, <1>4, <1>5, <1>6, <1>7, <1>8, <1>9, <1>10, <1>11, <1>12
  DEF Next, Advance, Returned

\* The initial states satisfy IInv.
LEMMA InitIInv == Init => IInv
<1> SUFFICES ASSUME Init PROVE IInv
  OBVIOUS
<1>1. TypeOK
  BY SizeAssumption, ImageAssumption DEF Init, TypeOK, NoGeometry, Geometry, NoCandidate
<1> QED
  BY <1>1
  DEF Init, IInv, FreshStart, ScanProgress, LiveIsHighest, MapsProgress,
      NoSuperblockIsTrue

-----------------------------------------------------------------------------
\* IInv holds throughout every behaviour of the specification.
THEOREM Invariance == Spec => []IInv
BY InitIInv, InductiveStep, PTL DEF Spec

\* Opening a container never leaves the types of its state (lib.rs, open).
THEOREM TypeCorrect == Spec => []TypeOK
<1>1. IInv => TypeOK
  BY DEF IInv
<1> QED
  BY <1>1, Invariance, PTL

\* The live superblock of an opened container is the valid one with the
\* highest xid in the ring (checkpoint.rs, resolve_live_checkpoint).
THEOREM LiveSuperblock == Spec => []LiveIsHighest
<1>1. IInv => LiveIsHighest
  BY DEF IInv
<1> QED
  BY <1>1, Invariance, PTL

\* The mappings of an opened container are those the map blocks of the live
\* xid list, the empty one apart, and no block gives more of them than the cap
\* (checkpoint.rs, second pass).
THEOREM LiveMappings == Spec => []MappingsAreLive
<1>1. IInv => MappingsAreLive
  <2> SUFFICES ASSUME IInv, pc = "open" PROVE MappingsAreLive
    BY DEF MappingsAreLive
  <2> DEFINE live == MapIndexes(RingIndex)
             got == {mappings[n] : n \in DOMAIN mappings}
             listed == UNION {Listed(k) : k \in live}
  <2>1. TypeOK /\ Collected(RingIndex) /\ Bounded(RingIndex)
    BY DEF IInv, MapsProgress
  <2>2. \A k \in live : InImage(RingAddr(k))
    BY DEF MapIndexes
  <2>3. listed \subseteq got
    <3> SUFFICES ASSUME NEW k \in live, NEW mp \in Listed(k) PROVE mp \in got
      OBVIOUS
    <3>1. PICK m \in DOMAIN RingEntries(k) : RingEntries(k)[m] = mp
      BY <2>1, <2>2, EntriesAreListed
    <3> QED
      BY <3>1, <2>1 DEF Collected
  <2>4. ASSUME NEW mp \in got \ listed
        PROVE  mp = ZeroMapping /\ \E k \in live : Overlong(k)
    <3>1. PICK k \in live : \E m \in DOMAIN RingEntries(k) :
            mp = RingEntries(k)[m]
      BY <2>1 DEF Collected
    <3>2. mp \notin Listed(k)
      OBVIOUS
    <3> QED
      BY <2>1, <2>2, <3>1, <3>2, EntriesAreListed
  <2>5. Len(mappings) <= MAX_CPM_COUNT * Cardinality(live)
    BY <2>1 DEF Bounded
  <2> QED
    BY <2>3, <2>4, <2>5 DEF MappingsAreLive
<1> QED
  BY <1>1, Invariance, PTL

\* NoValidSuperblock after an accepted block zero is never a false alarm.
THEOREM LoudFailure == Spec => []NoSuperblockIsTrue
<1>1. IInv => NoSuperblockIsTrue
  BY DEF IInv
<1> QED
  BY <1>1, Invariance, PTL

\* No step of open refuses at the re-read but for the source.
LEMMA RereadStep ==
    IInv /\ [Next]_vars => [pc = "reread" => (pc' = "open" \/ error' = "Io")]_vars
<1> SUFFICES ASSUME IInv, Next, pc = "reread"
             PROVE  pc' = "open" \/ error' = "Io"
  OBVIOUS
<1>1. CASE Reread
  BY <1>1, RereadSucceeds
<1>2. CASE ReadFails
  BY <1>2 DEF ReadFails, Fail
<1> QED
  BY <1>1, <1>2
  DEF Next, Advance, Returned, Finished, Block0Missing, Block0Rejected,
      Block0Accepted, RingPanic, ScanBlock, NoSuperblock, ScanDone, MapBlock,
      MapsDone, AtRingBlock

\* The re-read never refuses what the scan chose (lib.rs, end of open).
THEOREM RereadAgreement == Spec => RereadAgrees
BY RereadStep, Invariance, PTL DEF Spec, RereadAgrees

-----------------------------------------------------------------------------
\* Which duplicate wins.  Entry l of the ring position j comes before entry m
\* of position k in the order of the second pass.
Precedes(j, l, k, m) == j < k \/ (j = k /\ l < m)

\* Every entry of the live maps at positions K stands in mappings at a place
\* that only entries before it come ahead of: the pass keeps the ring order.
InRingOrder(K) ==
    \A k \in MapIndexes(K) : \A m \in DOMAIN RingEntries(k) :
        \E n \in DOMAIN mappings :
            /\ mappings[n] = RingEntries(k)[m]
            /\ \A p \in DOMAIN mappings : p < n =>
                 \E j \in MapIndexes(K) : \E l \in DOMAIN RingEntries(j) :
                     Precedes(j, l, k, m) /\ mappings[p] = RingEntries(j)[l]

\* What EarliestMapWins needs while the second pass is under way.
OrderInv ==
    /\ pc = "maps" => InRingOrder(0 .. i - 1)
    /\ pc \in {"reread", "open"} => InRingOrder(RingIndex)

\* One turn of the second pass appends, so it keeps the ring order.
LEMMA OrderStep ==
    ASSUME TypeOK, Collected(0 .. i - 1), InRingOrder(0 .. i - 1), MapBlock
    PROVE  InRingOrder(0 .. i - 1)'
<1> DEFINE a == RingAddr(i)
           Old == MapIndexes(0 .. i - 1)
           New == MapIndexes(0 .. i)
<1>1. /\ i \in Nat /\ i' = i + 1
      /\ img' = img /\ boot' = boot /\ best' = best
      /\ mappings \in Seq(Mapping)
  BY DEF MapBlock, TypeOK
<1>2. MapIndexes(0 .. i - 1)' = New
  BY <1>1 DEF MapIndexes, InImage, IsLiveMap, ChecksumOk, RingAddr
<1>3. \A k : RingEntries(k)' = RingEntries(k)
  BY <1>1 DEF RingAddr, RingEntries, MapEntries
<1>4. /\ New = IF InImage(a) /\ IsLiveMap(img[a]) THEN Old \cup {i} ELSE Old
      /\ \A k \in Old : k \in Nat /\ k < i
  BY <1>1 DEF MapIndexes
<1>5. ASSUME \A k \in New : \A m \in DOMAIN RingEntries(k) :
               \E n \in DOMAIN mappings' :
                 /\ mappings'[n] = RingEntries(k)[m]
                 /\ \A p \in DOMAIN mappings' : p < n =>
                      \E j \in New : \E l \in DOMAIN RingEntries(j) :
                        Precedes(j, l, k, m) /\ mappings'[p] = RingEntries(j)[l]
      PROVE  InRingOrder(0 .. i - 1)'
  BY <1>2, <1>3, <1>5 DEF InRingOrder, Precedes
<1> HIDE DEF a, Old, New
<1>6. CASE InImage(a) /\ IsLiveMap(img[a])
  <2> DEFINE e == RingEntries(i)
  <2>1. e \in Seq(Mapping) /\ mappings' = mappings \o e
    BY <1>6, MapEntriesType, BlockType DEF MapBlock, RingEntries, a
  <2>2. New = Old \cup {i}
    BY <1>4, <1>6
  <2> HIDE DEF e
  <2>3. \A n \in DOMAIN mappings : /\ n \in DOMAIN mappings'
                                   /\ mappings'[n] = mappings[n]
    BY <2>1, <1>1
  <2>4. \A m \in DOMAIN e : /\ Len(mappings) + m \in DOMAIN mappings'
                            /\ mappings'[Len(mappings) + m] = e[m]
    BY <2>1, <1>1
  <2>5. \A n \in DOMAIN mappings, p \in DOMAIN mappings' :
           p < n => p \in DOMAIN mappings
    BY <2>1, <1>1
  <2>6. \A m \in DOMAIN e, p \in DOMAIN mappings' :
           p < Len(mappings) + m =>
             \/ p \in DOMAIN mappings
             \/ \E l \in DOMAIN e : l < m /\ p = Len(mappings) + l
    <3> SUFFICES ASSUME NEW m \in DOMAIN e, NEW p \in DOMAIN mappings',
                        p < Len(mappings) + m, p \notin DOMAIN mappings
                 PROVE  \E l \in DOMAIN e : l < m /\ p = Len(mappings) + l
      OBVIOUS
    <3>1. /\ p - Len(mappings) \in DOMAIN e
          /\ p - Len(mappings) < m
          /\ p = Len(mappings) + (p - Len(mappings))
      BY <2>1, <1>1
    <3> QED
      BY <3>1
  <2>7. ASSUME NEW k \in Old, NEW m \in DOMAIN RingEntries(k)
        PROVE  \E n \in DOMAIN mappings' :
                 /\ mappings'[n] = RingEntries(k)[m]
                 /\ \A p \in DOMAIN mappings' : p < n =>
                      \E j \in New : \E l \in DOMAIN RingEntries(j) :
                        Precedes(j, l, k, m) /\ mappings'[p] = RingEntries(j)[l]
    <3>1. PICK n \in DOMAIN mappings :
            /\ mappings[n] = RingEntries(k)[m]
            /\ \A p \in DOMAIN mappings : p < n =>
                 \E j \in Old : \E l \in DOMAIN RingEntries(j) :
                   Precedes(j, l, k, m) /\ mappings[p] = RingEntries(j)[l]
      BY DEF InRingOrder, Old
    <3>2. ASSUME NEW p \in DOMAIN mappings', p < n
          PROVE  \E j \in New : \E l \in DOMAIN RingEntries(j) :
                   Precedes(j, l, k, m) /\ mappings'[p] = RingEntries(j)[l]
      <4>1. p \in DOMAIN mappings /\ mappings'[p] = mappings[p]
        BY <3>2, <2>3, <2>5
      <4> QED
        BY <4>1, <3>1, <3>2, <2>2
    <3> QED
      BY <3>1, <3>2, <2>3
  <2>8. ASSUME NEW m \in DOMAIN e
        PROVE  \E n \in DOMAIN mappings' :
                 /\ mappings'[n] = e[m]
                 /\ \A p \in DOMAIN mappings' : p < n =>
                      \E j \in New : \E l \in DOMAIN RingEntries(j) :
                        Precedes(j, l, i, m) /\ mappings'[p] = RingEntries(j)[l]
    <3> DEFINE n == Len(mappings) + m
    <3>1. ASSUME NEW p \in DOMAIN mappings', p < n
          PROVE  \E j \in New : \E l \in DOMAIN RingEntries(j) :
                   Precedes(j, l, i, m) /\ mappings'[p] = RingEntries(j)[l]
      <4>1. CASE p \in DOMAIN mappings
        <5>1. PICK k \in Old : \E l \in DOMAIN RingEntries(k) :
                mappings[p] = RingEntries(k)[l]
          BY <4>1 DEF Collected, Old
        <5>2. k < i /\ k \in New
          BY <1>4, <2>2
        <5> QED
          BY <5>1, <5>2, <4>1, <2>3 DEF Precedes
      <4>2. CASE \E l \in DOMAIN e : l < m /\ p = Len(mappings) + l
        <5>1. PICK l \in DOMAIN e : l < m /\ p = Len(mappings) + l
          BY <4>2
        <5>2. mappings'[p] = e[l] /\ i \in New
          BY <5>1, <2>4, <2>2
        <5> QED
          BY <5>1, <5>2 DEF Precedes, e
      <4> QED
        BY <4>1, <4>2, <3>1, <2>6
    <3> QED
      BY <3>1, <2>4
  <2> QED
    BY <1>5, <2>2, <2>7, <2>8 DEF e
<1>7. CASE ~(InImage(a) /\ IsLiveMap(img[a]))
  <2>1. mappings' = mappings /\ New = Old
    BY <1>4, <1>7 DEF MapBlock, a
  <2> QED
    BY <2>1, <1>5 DEF InRingOrder, Old
<1> QED
  BY <1>6, <1>7

\* Steps that leave the second pass's data alone leave its order alone.
LEMMA SameOrder ==
    ASSUME img' = img, boot' = boot, best' = best, mappings' = mappings, i' = i
    PROVE  /\ InRingOrder(RingIndex)' <=> InRingOrder(RingIndex)
           /\ InRingOrder(0 .. i - 1)' <=> InRingOrder(0 .. i - 1)
<1>1. RingIndex' = RingIndex /\ \A k : RingAddr(k)' = RingAddr(k)
  BY DEF RingIndex, RingAddr
<1>2. /\ MapIndexes(RingIndex)' = MapIndexes(RingIndex)
      /\ MapIndexes(0 .. i - 1)' = MapIndexes(0 .. i - 1)
  BY <1>1 DEF MapIndexes, InImage, IsLiveMap, ChecksumOk
<1>3. \A k : RingEntries(k)' = RingEntries(k)
  BY <1>1 DEF RingEntries, MapEntries
<1> QED
  BY <1>2, <1>3 DEF InRingOrder, Precedes

\* OrderInv is inductive relative to IInv.
LEMMA OrderInductive == IInv /\ OrderInv /\ [Next]_vars => OrderInv'
<1> SUFFICES ASSUME IInv, OrderInv, [Next]_vars PROVE OrderInv'
  OBVIOUS
<1>0. TypeOK
  BY DEF IInv
<1>1. CASE pc' \notin {"maps", "reread", "open"}
  BY <1>1 DEF OrderInv
<1>2. CASE ScanDone
  <2>1. pc' = "maps" /\ i' = 0
    BY <1>2 DEF ScanDone
  <2>2. MapIndexes(0 .. i - 1)' = {}
    BY <2>1 DEF MapIndexes
  <2> QED
    BY <2>1, <2>2 DEF OrderInv, InRingOrder
<1>3. CASE MapBlock
  <2>1. pc = "maps" /\ pc' = "maps"
    BY <1>3 DEF MapBlock, AtRingBlock
  <2>2. Collected(0 .. i - 1) /\ InRingOrder(0 .. i - 1)
    BY <2>1 DEF OrderInv, IInv, MapsProgress
  <2>3. InRingOrder(0 .. i - 1)'
    BY <1>0, <1>3, <2>2, OrderStep
  <2> QED
    BY <2>1, <2>3 DEF OrderInv
<1>4. CASE MapsDone
  <2>1. /\ pc = "maps" /\ pc' = "reread" /\ i >= boot.descBlocks
        /\ UNCHANGED <<img, boot, best, mappings, i>>
    BY <1>4 DEF MapsDone
  <2>2. 0 .. i - 1 = RingIndex
    BY <1>0, <2>1, WholeRing DEF IInv, MapsProgress
  <2>3. InRingOrder(RingIndex)'
    BY <2>1, <2>2, SameOrder DEF OrderInv
  <2> QED
    BY <2>1, <2>3 DEF OrderInv
<1>5. CASE Reread
  <2>1. /\ pc = "reread" /\ pc' # "maps"
        /\ UNCHANGED <<img, boot, best, mappings, i>>
    BY <1>5 DEF Reread
  <2> QED
    BY <2>1, SameOrder DEF OrderInv
<1>6. CASE UNCHANGED vars
  BY <1>6, SameOrder DEF OrderInv, vars
<1> QED
  BY <1>1, <1>2, <1>3, <1>4, <1>5, <1>6
  DEF Next, Advance, Returned, Block0Missing, Block0Rejected, Block0Accepted,
      RingPanic, ScanBlock, AtRingBlock, NoSuperblock, ReadFails, Fail

\* With the mappings in ring order, the earliest of two is the first found.
LEMMA OrderDecides == IInv /\ OrderInv => EarliestMapWins
<1> SUFFICES ASSUME IInv, OrderInv, pc = "open",
                    NEW k \in MapIndexes(RingIndex),
                    NEW m \in DOMAIN RingEntries(k),
                    \A j \in MapIndexes(RingIndex) :
                      \A n \in DOMAIN RingEntries(j) :
                        (j < k \/ (j = k /\ n < m)) =>
                          RingEntries(j)[n].oid # RingEntries(k)[m].oid
             PROVE  ResolveEphemeral(RingEntries(k)[m].oid)
                      = {RingEntries(k)[m].paddr}
  BY DEF EarliestMapWins
<1> DEFINE oid == RingEntries(k)[m].oid
<1>1. PICK n \in DOMAIN mappings :
        /\ mappings[n] = RingEntries(k)[m]
        /\ \A p \in DOMAIN mappings : p < n =>
             \E j \in MapIndexes(RingIndex) : \E l \in DOMAIN RingEntries(j) :
               Precedes(j, l, k, m) /\ mappings[p] = RingEntries(j)[l]
  BY DEF OrderInv, InRingOrder
<1>2. \A p \in DOMAIN mappings : p < n => mappings[p].oid # oid
  BY <1>1 DEF Precedes
<1>3. DOMAIN mappings \subseteq Nat
  BY DEF IInv, TypeOK
<1> DEFINE hits == {h \in DOMAIN mappings : mappings[h].oid = oid}
           first == {h \in hits : \A g \in hits : h <= g}
<1>4. first = {n}
  <2>1. n \in hits /\ \A g \in hits : n <= g
    BY <1>1, <1>2, <1>3
  <2>2. \A h \in first : h = n
    BY <2>1, <1>3
  <2> QED
    BY <2>1, <2>2
<1>5. ResolveEphemeral(oid) = {mappings[h].paddr : h \in first}
  BY DEF ResolveEphemeral
<1> QED
  BY <1>1, <1>4, <1>5

\* The second pass starts with nothing out of order.
LEMMA InitOrder == Init => OrderInv
BY DEF Init, OrderInv

\* The ring order decides which of two mappings of an oid wins (lib.rs,
\* resolve_ephemeral): the one of the earliest live map block naming it.
THEOREM EarliestMapping == Spec => []EarliestMapWins
BY InitOrder, OrderDecides, OrderInductive, Invariance, PTL DEF Spec

-----------------------------------------------------------------------------
\* No legal container is refused.  Past block zero the geometry in use is
\* that of block zero, which passed every check of the bootstrap.
BootInv ==
    pc \in {"scan", "maps", "reread", "open"} => boot = img[0].geo

\* Every ring address of a legal container is a plain sum.
LEMMA LegalRing ==
    ASSUME TypeOK, Legal, boot = img[0].geo, NEW k \in RingIndex
    PROVE  /\ ~RingOverflows(k)
           /\ RingAddr(k) = boot.descBase + k
<1>1. boot.descBase \in Nat /\ boot.descBlocks \in Nat
  BY SizeAssumption DEF TypeOK, Geometry
<1>2. k \in Nat /\ k <= boot.descBlocks - 1
  BY <1>1 DEF RingIndex
<1>3. boot.descBase + boot.descBlocks <= AddrSpace
  BY DEF Legal
<1>4. boot.descBase + k \in 0 .. AddrSpace - 1
  BY <1>1, <1>2, <1>3, SizeAssumption
<1>5. (boot.descBase + k) % AddrSpace = boot.descBase + k
  BY <1>4, SizeAssumption
<1> QED
  BY <1>4, <1>5, SizeAssumption DEF RingOverflows, RingAddr

\* The ring of a legal container has a superblock that passes every gate.
LEMMA LegalCandidate ==
    ASSUME TypeOK, Legal, boot = img[0].geo
    PROVE  Candidates(RingIndex) # {}
<1>1. PICK a \in DOMAIN img :
        /\ a \in boot.descBase .. boot.descBase + boot.descBlocks - 1
        /\ img[a].kind = "nxsb" /\ img[a].magic
        /\ img[a].cksum = boot.blockSize
  BY DEF Legal
<1>2. boot.descBase \in Nat /\ boot.descBlocks \in Nat
  BY SizeAssumption DEF TypeOK, Geometry
<1>3. /\ a - boot.descBase \in RingIndex
      /\ boot.descBase + (a - boot.descBase) = a
  BY <1>1, <1>2 DEF RingIndex
<1>4. RingAddr(a - boot.descBase) = a
  BY <1>3, LegalRing
<1>5. a - boot.descBase \in Candidates(RingIndex)
  BY <1>1, <1>3, <1>4 DEF Candidates, InImage, IsSuperblock, ChecksumOk
<1> QED
  BY <1>5

\* One step refuses a legal container of the minimum block size only when
\* the source fails.
LEMMA LegalStep ==
    ASSUME IInv, BootInv, LegalOpens, [Next]_vars
    PROVE  BootInv' /\ LegalOpens'
<1>0. TypeOK
  BY DEF IInv
<1>1. img' = img /\ (Legal' <=> Legal)
  <2>1. img' = img
    BY DEF Next, Advance, Block0Missing, Block0Rejected, Block0Accepted,
           RingPanic, ScanBlock, NoSuperblock, ScanDone, MapBlock, MapsDone,
           Reread, ReadFails, Fail, Returned, vars
  <2> QED
    BY <2>1 DEF Legal, InImage
<1>2. BootInv'
  <2>1. CASE Block0Accepted
    BY <2>1, <1>1 DEF BootInv, Block0Accepted
  <2>2. CASE pc' = "failed"
    BY <2>2 DEF BootInv
  <2>3. CASE /\ boot' = boot
             /\ pc' \in {"scan", "maps", "reread", "open"} =>
                   pc \in {"scan", "maps", "reread", "open"}
    BY <2>3, <1>1 DEF BootInv
  <2> QED
    BY <2>1, <2>2, <2>3
    DEF Next, Advance, Block0Missing, Block0Rejected, RingPanic, ScanBlock,
        NoSuperblock, ScanDone, MapBlock, MapsDone, Reread, ReadFails, Fail,
        Returned, AtRingBlock, vars
<1>3. ASSUME pc' = "failed", Legal,
             img[0].geo.blockSize = NX_MINIMUM_BLOCK_SIZE
      PROVE  error' = "Io"
  <2>1. CASE Block0Missing
    BY <2>1, <1>3 DEF Block0Missing, Legal
  <2>2. CASE Block0Rejected
    BY <2>2, <1>3 DEF Block0Rejected, BootError, ParseResult, ChecksumOk, Legal
  <2>3. CASE RingPanic
    <3>1. boot = img[0].geo /\ i \in RingIndex
      BY <2>3, <1>0 DEF RingPanic, BootInv, RingIndex, TypeOK, Geometry
    <3> QED
      BY <2>3, <3>1, <1>0, <1>3, LegalRing DEF RingPanic
  <2>4. CASE NoSuperblock
    <3>1. boot = img[0].geo
      BY <2>4 DEF NoSuperblock, BootInv
    <3>2. Candidates(RingIndex) = {}
      BY <1>0, <2>4, WholeRing DEF NoSuperblock, IInv, ScanProgress, BestOf
    <3> QED
      BY <3>1, <3>2, <1>0, <1>3, LegalCandidate
  <2>5. CASE Reread
    BY <2>5, <1>3, RereadSucceeds
  <2>6. CASE ReadFails
    BY <2>6 DEF ReadFails, Fail
  <2>7. CASE UNCHANGED vars
    BY <2>7, <1>3 DEF LegalOpens, vars
  <2> QED
    BY <2>1, <2>2, <2>3, <2>4, <2>5, <2>6, <2>7, <1>3
    DEF Next, Advance, Returned, Block0Accepted, ScanBlock, ScanDone,
        MapBlock, MapsDone, AtRingBlock
<1>4. LegalOpens'
  BY <1>1, <1>3 DEF LegalOpens
<1> QED
  BY <1>2, <1>4

\* A legal container of the minimum block size is refused only by its source:
\* neither a torn neighbour nor the address arithmetic of the ring stops it
\* (lib.rs, open; checkpoint.rs, resolve_live_checkpoint).
THEOREM LegalContainerOpens == Spec => []LegalOpens
<1>1. Init => BootInv /\ LegalOpens
  BY DEF Init, BootInv, LegalOpens
<1>2. IInv /\ BootInv /\ LegalOpens /\ [Next]_vars => BootInv' /\ LegalOpens'
  BY LegalStep
<1> QED
  BY <1>1, <1>2, Invariance, PTL DEF Spec
=============================================================================
