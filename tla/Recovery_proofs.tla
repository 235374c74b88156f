--------------------------- MODULE Recovery_proofs ---------------------------
(***************************************************************************)
(* For every ring length, number of maps per checkpoint, number of         *)
(* transactions and of power losses: the reader settles on the last        *)
(* complete checkpoint, resolves its ephemeral objects to their places in  *)
(* it but for the maps of an abandoned attempt that come first, and is     *)
(* refused by nothing but its source.  The reader's half of the argument is the       *)
(* invariant of Container_proofs; the half added here says where the       *)
(* writer's blocks stand on disk.                                          *)
(***************************************************************************)
EXTENDS Recovery, Container_proofs, NaturalsInduction, WellFoundedInduction

\* The ring address d positions after, and before, the one at a.
Forward(a, d) == IF a + d <= RingSize THEN a + d ELSE a + d - RingSize
Backward(a, d) == IF a > d THEN a - d ELSE a - d + RingSize

\* A superblock of transaction x that passes the gates of the scan, and a map
\* block of transaction x whose one entry is mp.
IsWholeSb(b, x) ==
    b.kind = "nxsb" /\ b.magic /\ b.cksum = NX_MINIMUM_BLOCK_SIZE /\ b.xid = x

HoldsMap(b, x, mp) ==
    /\ b.kind = "cpm" /\ b.cksum = NX_MINIMUM_BLOCK_SIZE /\ b.xid = x
    /\ b.count = 1 /\ b.maps = <<mp>>

\* A map block with one entry, and mappings that give each oid one place.
OneEntry(b) == b.count = 1 /\ \E mp \in Mapping : b.maps = <<mp>>

Distinct(maps) == \A mp, mq \in maps : mp.oid = mq.oid => mp = mq

MappingOf(att, m) == [oid |-> m, paddr |-> 100 * att + m]

\* What is on disk, whether the writer or the reader is at work: the last
\* complete checkpoint is whole, its superblock is the only valid one of its
\* transaction and none is newer, its maps stand right behind it, and every
\* whole map block has one entry.
DiskInv ==
    /\ img \in [0 .. RingSize -> Block]
    /\ img[0].magic /\ img[0].cksum = NX_MINIMUM_BLOCK_SIZE
    /\ img[0].geo = RingGeo
    /\ committed \in [xid : Nat, paddr : 1 .. RingSize, maps : SUBSET Mapping]
    /\ IsWholeSb(img[committed.paddr], committed.xid)
    /\ \A a \in 1 .. RingSize :
          (img[a].kind = "nxsb" /\ img[a].cksum = NX_MINIMUM_BLOCK_SIZE) =>
             /\ img[a].xid <= committed.xid
             /\ img[a].xid = committed.xid => a = committed.paddr
    /\ \A mp \in committed.maps : \E d \in 1 .. MaxMaps :
          HoldsMap(img[Backward(committed.paddr, d)], committed.xid, mp)
    /\ Distinct(committed.maps)
    /\ \A a \in 1 .. RingSize :
          (img[a].kind = "cpm" /\ img[a].cksum = NX_MINIMUM_BLOCK_SIZE) =>
             OneEntry(img[a])

\* w blocks of the checkpoint under way are on disk, the rest is in plan.
Writing(w) ==
    /\ slot + 1 = Forward(committed.paddr, w + 1)
    /\ plan \in Seq(Block)
    /\ w + Len(plan) <= MaxMaps + 1
    /\ pending \in SUBSET Mapping /\ Distinct(pending)
    /\ \A mp \in pending :
          \/ \E d \in 1 .. w :
                HoldsMap(img[Forward(committed.paddr, d)], committed.xid + 1, mp)
          \/ \E j \in 1 .. Len(plan) - 1 :
                HoldsMap(plan[j], committed.xid + 1, mp)
    /\ \A j \in 1 .. Len(plan) - 1 :
          \E mp \in Mapping : HoldsMap(plan[j], committed.xid + 1, mp)
    /\ IsWholeSb(plan[Len(plan)], committed.xid + 1)

WriterInv ==
    /\ slot \in 0 .. RingSize - 1
    /\ attempt \in Nat
    /\ pc # "down" => plan = <<>>
    /\ plan = <<>> => slot + 1 = Forward(committed.paddr, 1)
    /\ plan # <<>> => \E w \in 0 .. MaxMaps : Writing(w)

\* Between two opens the reader's state is that of a call not yet made.
Idle ==
    /\ overflowChecks \in BOOLEAN
    /\ boot = NoGeometry /\ i = 0 /\ best = NoCandidate
    /\ mappings = <<>> /\ error = "none"

ReaderInv ==
    /\ pc = "down" => Idle
    /\ pc # "down" => IInv /\ BootInv /\ LegalOpens /\ OrderInv

RInv == DiskInv /\ WriterInv /\ ReaderInv

-----------------------------------------------------------------------------
\* Blocks the writer makes, and the geometry of the ring

\* The blocks of a checkpoint are blocks with the fields the scan looks at.
LEMMA WrittenBlocks ==
    ASSUME NEW x \in Nat, NEW att \in Nat, NEW m \in Nat
    PROVE  /\ MappingOf(att, m) \in Mapping
           /\ MapOf(x, att, m) \in Block
           /\ HoldsMap(MapOf(x, att, m), x, MappingOf(att, m))
           /\ MapOf(x, att, m).maps[1] = MappingOf(att, m)
           /\ Whole("nxsb", x, <<>>) \in Block
           /\ Whole("nxsb", x, <<>>).geo = RingGeo
           /\ IsWholeSb(Whole("nxsb", x, <<>>), x)
           /\ Whole("other", x, <<>>) \in Block
<1>1. MappingOf(att, m) \in Mapping
  BY DEF MappingOf, Mapping
<1>2. RingGeo \in Geometry
  BY SizeAssumption, RingAssumption DEF RingGeo, Geometry
<1>3. /\ <<MappingOf(att, m)>> \in Seq(Mapping)
      /\ Len(<<MappingOf(att, m)>>) = 1
      /\ <<MappingOf(att, m)>>[1] = MappingOf(att, m)
  BY <1>1
<1>4. MapOf(x, att, m) = Whole("cpm", x, <<MappingOf(att, m)>>)
  BY DEF MapOf, MappingOf
<1>5. ASSUME NEW kind \in {"nxsb", "cpm", "other"},
             NEW maps \in Seq(Mapping)
      PROVE  Whole(kind, x, maps) \in Block
  BY <1>2, SizeAssumption DEF Whole, Block
<1>6. <<>> \in Seq(Mapping)
  OBVIOUS
<1>7. /\ MapOf(x, att, m) \in Block
      /\ Whole("nxsb", x, <<>>) \in Block /\ Whole("other", x, <<>>) \in Block
  BY <1>1, <1>3, <1>4, <1>5, <1>6
<1>8. HoldsMap(MapOf(x, att, m), x, MappingOf(att, m))
  BY <1>3, <1>4 DEF HoldsMap, Whole
<1>9. MapOf(x, att, m).maps[1] = MappingOf(att, m)
  BY <1>3, <1>4 DEF Whole
<1>10. /\ Whole("nxsb", x, <<>>).geo = RingGeo
       /\ IsWholeSb(Whole("nxsb", x, <<>>), x)
  BY DEF IsWholeSb, Whole
<1> QED
  BY <1>1, <1>7, <1>8, <1>9, <1>10

\* A whole map block of one mapping is one the disk invariant allows.
LEMMA HoldsOne ==
    ASSUME NEW b, NEW x, NEW mp \in Mapping, HoldsMap(b, x, mp)
    PROVE  OneEntry(b) /\ b.kind # "nxsb"
BY DEF HoldsMap, OneEntry

\* A torn block stays a block, and its checksum is right over no length.
LEMMA TornBlock ==
    ASSUME NEW b \in Block
    PROVE  /\ Torn(b) \in Block
           /\ Torn(b).cksum # NX_MINIMUM_BLOCK_SIZE
BY SizeAssumption DEF Torn, Block

\* The position after s, cyclically, and the address of a position.
LEMMA RingStep ==
    ASSUME NEW s \in 0 .. RingSize - 1
    PROVE  /\ s % RingSize = s
           /\ SlotAddr(s) = 1 + s
           /\ (s + 1) % RingSize = IF s + 1 = RingSize THEN 0 ELSE s + 1
<1>1. RingSize \in Nat /\ RingSize > 0
  BY RingAssumption
<1>2. s % RingSize = s
  BY <1>1
<1>3. CASE s + 1 = RingSize
  <2>1. RingSize % RingSize = 0
    BY <1>1
  <2> QED
    BY <1>2, <1>3, <2>1 DEF SlotAddr
<1>4. CASE s + 1 # RingSize
  <2>1. (s + 1) % RingSize = s + 1
    BY <1>1, <1>4
  <2> QED
    BY <1>2, <1>4, <2>1 DEF SlotAddr
<1> QED
  BY <1>3, <1>4

\* The next checkpoint's positions keep clear of the last superblock and of
\* the maps right behind it: the reason for RingAssumption.
LEMMA KeepsClear ==
    ASSUME NEW a \in 1 .. RingSize, NEW w \in 1 .. MaxMaps + 1
    PROVE  /\ Forward(a, w) \in 1 .. RingSize
           /\ Forward(a, w) # a
           /\ \A d \in 1 .. MaxMaps : /\ Backward(a, d) \in 1 .. RingSize
                                      /\ Backward(a, d) # Forward(a, w)
           /\ \A d \in 1 .. MaxMaps + 1 :
                 /\ Forward(a, d) \in 1 .. RingSize
                 /\ d # w => Forward(a, d) # Forward(a, w)
           /\ \A d \in 1 .. w - 1 :
                 Backward(Forward(a, w), w - d) = Forward(a, d)
BY RingAssumption DEF Forward, Backward

\* The slot after the one of Forward(a, w).
LEMMA NextSlot ==
    ASSUME NEW a \in 1 .. RingSize, NEW w \in 1 .. MaxMaps + 1,
           NEW s \in 0 .. RingSize - 1, s + 1 = Forward(a, w)
    PROVE  /\ (s + 1) % RingSize \in 0 .. RingSize - 1
           /\ ((s + 1) % RingSize) + 1 = Forward(s + 1, 1)
           /\ w <= MaxMaps => ((s + 1) % RingSize) + 1 = Forward(a, w + 1)
<1>1. (s + 1) % RingSize = IF s + 1 = RingSize THEN 0 ELSE s + 1
  BY RingStep
<1> DEFINE n == (s + 1) % RingSize
<1>2. n = IF s + 1 = RingSize THEN 0 ELSE s + 1
  BY <1>1
<1> HIDE DEF n
<1>3. /\ n \in 0 .. RingSize - 1
      /\ n + 1 = Forward(s + 1, 1)
      /\ w <= MaxMaps => n + 1 = Forward(a, w + 1)
  BY <1>2, RingAssumption DEF Forward
<1> QED
  BY <1>3 DEF n

-----------------------------------------------------------------------------
\* What a write does to the disk

\* A write at the slot of the checkpoint under way that is no valid
\* superblock leaves the last complete checkpoint as it is.
LEMMA WriteKeepsDisk ==
    ASSUME DiskInv, NEW w \in 1 .. MaxMaps + 1, NEW b \in Block,
           b.cksum = NX_MINIMUM_BLOCK_SIZE => b.kind # "nxsb" /\ OneEntry(b),
           img' = [img EXCEPT ![Forward(committed.paddr, w)] = b],
           committed' = committed
    PROVE  DiskInv'
<1> DEFINE p == committed.paddr
           a == Forward(p, w)
<1>1. p \in 1 .. RingSize
  BY DEF DiskInv
<1>2. /\ a \in 1 .. RingSize /\ a # p
      /\ \A d \in 1 .. MaxMaps : /\ Backward(p, d) \in 1 .. RingSize
                                 /\ Backward(p, d) # a
  BY <1>1, KeepsClear
<1> HIDE DEF a
<1>3. /\ img' \in [0 .. RingSize -> Block]
      /\ img'[a] = b
      /\ \A c \in 0 .. RingSize : c # a => img'[c] = img[c]
  BY <1>2 DEF DiskInv, a
<1>4. img'[0] = img[0] /\ img'[p] = img[p]
  BY <1>1, <1>2, <1>3, RingAssumption
<1>5. \A c \in 1 .. RingSize :
        (img'[c].kind = "nxsb" /\ img'[c].cksum = NX_MINIMUM_BLOCK_SIZE) =>
          /\ img'[c].xid <= committed.xid
          /\ img'[c].xid = committed.xid => c = p
  <2> SUFFICES ASSUME NEW c \in 1 .. RingSize, img'[c].kind = "nxsb",
                      img'[c].cksum = NX_MINIMUM_BLOCK_SIZE
               PROVE  /\ img'[c].xid <= committed.xid
                      /\ img'[c].xid = committed.xid => c = p
    OBVIOUS
  <2>1. c # a
    BY <1>3
  <2>2. img'[c] = img[c]
    BY <1>3, <2>1
  <2> QED
    BY <2>2 DEF DiskInv
<1>6. \A d \in 1 .. MaxMaps : img'[Backward(p, d)] = img[Backward(p, d)]
  BY <1>2, <1>3
<1>7. \A mp \in committed.maps : \E d \in 1 .. MaxMaps :
         HoldsMap(img'[Backward(p, d)], committed.xid, mp)
  BY <1>6 DEF DiskInv
<1>8. IsWholeSb(img'[p], committed.xid)
  BY <1>4 DEF DiskInv
<1>9. /\ img'[0].magic /\ img'[0].cksum = NX_MINIMUM_BLOCK_SIZE
      /\ img'[0].geo = RingGeo
  BY <1>4 DEF DiskInv
<1>10. committed' \in [xid : Nat, paddr : 1 .. RingSize, maps : SUBSET Mapping]
  BY DEF DiskInv
<1>11. committed'.paddr = p /\ committed'.xid = committed.xid
       /\ committed'.maps = committed.maps
  OBVIOUS
<1>12. \A c \in 1 .. RingSize :
         (img'[c].kind = "cpm" /\ img'[c].cksum = NX_MINIMUM_BLOCK_SIZE) =>
            OneEntry(img'[c])
  <2> SUFFICES ASSUME NEW c \in 1 .. RingSize, img'[c].kind = "cpm",
                      img'[c].cksum = NX_MINIMUM_BLOCK_SIZE
               PROVE  OneEntry(img'[c])
    OBVIOUS
  <2>1. CASE c = a
    BY <1>3, <2>1
  <2>2. CASE c # a
    <3>1. img'[c] = img[c]
      BY <1>3, <2>2
    <3> QED
      BY <3>1 DEF DiskInv
  <2> QED
    BY <2>1, <2>2
<1>13. Distinct(committed'.maps)
  BY <1>11 DEF DiskInv
<1> HIDE DEF p
<1> QED
  BY <1>3, <1>5, <1>7, <1>8, <1>9, <1>10, <1>11, <1>12, <1>13 DEF DiskInv

\* The superblock that closes a checkpoint makes it the last complete one.
LEMMA CommitKeepsDisk ==
    ASSUME DiskInv, NEW w \in 0 .. MaxMaps, Writing(w),
           NEW b \in Block, IsWholeSb(b, committed.xid + 1), Len(plan) = 1,
           img' = [img EXCEPT ![Forward(committed.paddr, w + 1)] = b],
           committed' = [xid |-> committed.xid + 1,
                         paddr |-> Forward(committed.paddr, w + 1),
                         maps |-> pending]
    PROVE  DiskInv'
<1> DEFINE p == committed.paddr
           x == committed.xid
           a == Forward(p, w + 1)
<1>1. p \in 1 .. RingSize /\ x \in Nat
  BY DEF DiskInv
<1>2. w + 1 \in 1 .. MaxMaps + 1
  BY RingAssumption
<1>3. /\ a \in 1 .. RingSize /\ a # p
      /\ \A d \in 1 .. w : /\ Backward(a, w + 1 - d) = Forward(p, d)
                           /\ Forward(p, d) \in 1 .. RingSize
                           /\ Forward(p, d) # a
  <2>1. \A d \in 1 .. w : d \in 1 .. MaxMaps + 1 /\ d # w + 1 /\ d \in 1 .. (w + 1) - 1
    BY RingAssumption
  <2> QED
    BY <1>1, <1>2, <2>1, KeepsClear
<1> HIDE DEF a
<1>4. /\ img' \in [0 .. RingSize -> Block]
      /\ img'[a] = b
      /\ \A c \in 0 .. RingSize : c # a => img'[c] = img[c]
  BY <1>3 DEF DiskInv, a
<1>5. img'[0] = img[0]
  BY <1>3, <1>4, RingAssumption
<1>6. /\ pending \in SUBSET Mapping /\ Distinct(pending)
      /\ \A mp \in pending : \E d \in 1 .. w :
            HoldsMap(img[Forward(p, d)], x + 1, mp)
  <2>1. 1 .. Len(plan) - 1 = {}
    OBVIOUS
  <2> QED
    BY <2>1 DEF Writing
<1>7. committed' \in [xid : Nat, paddr : 1 .. RingSize, maps : SUBSET Mapping]
  BY <1>1, <1>3, <1>6 DEF a
<1>8. /\ committed'.xid = x + 1 /\ committed'.paddr = a
      /\ committed'.maps = pending
  BY DEF a
<1>9. ASSUME NEW c \in 1 .. RingSize, img'[c].kind = "nxsb",
             img'[c].cksum = NX_MINIMUM_BLOCK_SIZE
      PROVE  img'[c].xid <= x + 1 /\ (img'[c].xid = x + 1 => c = a)
  <2>1. CASE c = a
    BY <1>1, <1>4, <2>1 DEF IsWholeSb
  <2>2. CASE c # a
    <3>1. img'[c] = img[c] /\ img[c] \in Block
      BY <1>4, <2>2 DEF DiskInv
    <3>2. img[c].xid \in Nat
      BY <3>1 DEF Block
    <3>3. img[c].xid <= x
      BY <1>9, <3>1 DEF DiskInv
    <3> QED
      BY <1>1, <3>1, <3>2, <3>3
  <2> QED
    BY <2>1, <2>2
<1>10. ASSUME NEW mp \in pending
       PROVE  \E d \in 1 .. MaxMaps : HoldsMap(img'[Backward(a, d)], x + 1, mp)
  <2>2. PICK m \in 1 .. w : HoldsMap(img[Forward(p, m)], x + 1, mp)
    BY <1>6
  <2>3. img'[Backward(a, w + 1 - m)] = img[Forward(p, m)]
    BY <1>3, <1>4
  <2>4. w + 1 - m \in 1 .. MaxMaps
    BY RingAssumption
  <2> QED
    BY <2>2, <2>3, <2>4
<1>11. IsWholeSb(img'[a], x + 1)
  BY <1>4
<1>12. img'[0].magic /\ img'[0].cksum = NX_MINIMUM_BLOCK_SIZE /\ img'[0].geo = RingGeo
  BY <1>5 DEF DiskInv
<1>13. ASSUME NEW c \in 1 .. RingSize, img'[c].kind = "cpm",
              img'[c].cksum = NX_MINIMUM_BLOCK_SIZE
       PROVE  OneEntry(img'[c])
  <2>1. c # a
    BY <1>4, <1>13 DEF IsWholeSb
  <2>2. img'[c] = img[c]
    BY <1>4, <2>1
  <2> QED
    BY <1>13, <2>2 DEF DiskInv
<1> QED
  BY <1>4, <1>6, <1>7, <1>8, <1>9, <1>10, <1>11, <1>12, <1>13 DEF DiskInv

\* The disk invariant is about img and committed only.
LEMMA SameDisk ==
    ASSUME DiskInv, img' = img, committed' = committed
    PROVE  DiskInv'
BY DEF DiskInv

\* While the writer and the image rest, the writer's invariant does.
LEMMA SameWriter ==
    ASSUME WriterInv, UNCHANGED writerVars, img' = img,
           pc' # "down" => plan = <<>>
    PROVE  WriterInv'
<1>1. UNCHANGED <<plan, pending, slot, attempt, committed>>
  BY DEF writerVars
<1>2. \A w : Writing(w)' <=> Writing(w)
  BY <1>1 DEF Writing
<1> QED
  BY <1>1, <1>2 DEF WriterInv

\* A call of open that has just been made.
FreshCall == DiskInv /\ Idle /\ pc = "block0"

\* It satisfies the reader's invariant.
LEMMA FreshReader == FreshCall => IInv /\ BootInv /\ LegalOpens /\ OrderInv
<1> SUFFICES ASSUME DiskInv, Idle, pc = "block0"
             PROVE  IInv /\ BootInv /\ LegalOpens /\ OrderInv
  BY DEF FreshCall
<1>1. IsImage(img)
  BY RingAssumption, SizeAssumption DEF DiskInv, IsImage
<1>2. TypeOK
  BY <1>1, SizeAssumption
  DEF Idle, TypeOK, NoGeometry, Geometry, NoCandidate
<1> QED
  BY <1>2
  DEF Idle, IInv, FreshStart, ScanProgress, LiveIsHighest, MapsProgress,
      NoSuperblockIsTrue, BootInv, LegalOpens, OrderInv

\* The same after a step, where a crash or a remount makes the call.
LEMMA FreshReaderNext ==
    FreshCall' => IInv' /\ BootInv' /\ LegalOpens' /\ OrderInv'
BY FreshReader, PTL

-----------------------------------------------------------------------------
\* One lemma per action

\* Planning a checkpoint writes nothing.
LEMMA BeginStep == ASSUME RInv, BeginCheckpoint PROVE RInv'
<1>1. /\ pc = "down" /\ plan = <<>> /\ attempt' = attempt + 1
      /\ UNCHANGED <<img, readerVars, slot, committed, crashes>>
  BY DEF BeginCheckpoint
<1>2. DiskInv'
  BY <1>1, SameDisk DEF RInv
<1>3. ReaderInv'
  BY <1>1 DEF RInv, ReaderInv, Idle, readerVars
<1>4. committed.xid \in Nat /\ attempt \in Nat
  BY DEF RInv, DiskInv, WriterInv
<1> DEFINE x == committed.xid + 1
           t == attempt + 1
<1>5. x \in Nat /\ t \in Nat
  BY <1>4
<1>6. PICK n \in 1 .. MaxMaps : \E order \in Orders(n) :
        /\ plan' = Append([m \in 1 .. n |-> MapOf(x, t, order[m])],
                          Whole("nxsb", x, <<>>))
        /\ pending' =
             {[m \in 1 .. n |-> MapOf(x, t, order[m])][k].maps[1] : k \in 1 .. n}
  BY DEF BeginCheckpoint
<1>6a. PICK order \in Orders(n) :
        /\ plan' = Append([m \in 1 .. n |-> MapOf(x, t, order[m])],
                          Whole("nxsb", x, <<>>))
        /\ pending' =
             {[m \in 1 .. n |-> MapOf(x, t, order[m])][k].maps[1] : k \in 1 .. n}
  BY <1>6
<1> DEFINE maps == [m \in 1 .. n |-> MapOf(x, t, order[m])]
           sb == Whole("nxsb", x, <<>>)
<1> HIDE DEF x, t
<1>7. n \in Nat /\ n >= 1 /\ n <= MaxMaps
  BY RingAssumption
<1>8. \A m \in 1 .. n : /\ order[m] \in Nat
                        /\ maps[m] \in Block
                        /\ MappingOf(t, order[m]) \in Mapping
                        /\ HoldsMap(maps[m], x, MappingOf(t, order[m]))
                        /\ maps[m].maps[1] = MappingOf(t, order[m])
  <2>1. \A m \in 1 .. n : order[m] \in Nat
    <3>1. order \in [1 .. n -> 1 .. n]
      BY <1>6a, Zenon DEF Orders
    <3> QED
      BY <1>7, <3>1
  <2> QED
    BY <1>5, <2>1, WrittenBlocks
<1>9. maps \in [1 .. n -> Block]
  BY <1>8
<1>10. sb \in Block /\ IsWholeSb(sb, x)
  BY <1>5, WrittenBlocks
<1>11. plan' = Append(maps, sb) /\ pending' = {maps[m].maps[1] : m \in 1 .. n}
  BY <1>6a
<1> HIDE DEF maps, sb
<1>12. maps \in Seq(Block) /\ Len(maps) = n
  BY <1>7, <1>9
<1>13. /\ plan' \in Seq(Block) /\ Len(plan') = n + 1
       /\ plan'[n + 1] = sb
       /\ \A j \in 1 .. n : plan'[j] = maps[j]
  BY <1>10, <1>11, <1>12
<1>14. /\ pending' \in SUBSET Mapping /\ Distinct(pending')
       /\ \A mp \in pending' : \E m \in 1 .. n : mp = MappingOf(t, order[m])
  <2>1. \A mp \in pending' : \E m \in 1 .. n : mp = MappingOf(t, order[m])
    BY <1>8, <1>11
  <2>2. pending' \in SUBSET Mapping
    BY <1>8, <2>1
  <2>3. \A m, l : MappingOf(t, m).oid = MappingOf(t, l).oid =>
                   MappingOf(t, m) = MappingOf(t, l)
    BY DEF MappingOf
  <2>4. ASSUME NEW mp \in pending', NEW mq \in pending', mp.oid = mq.oid
        PROVE  mp = mq
    <3>1. PICK m \in 1 .. n : mp = MappingOf(t, order[m])
      BY <2>1
    <3>2. PICK l \in 1 .. n : mq = MappingOf(t, order[l])
      BY <2>1
    <3> QED
      BY <2>3, <2>4, <3>1, <3>2
  <2> QED
    BY <2>1, <2>2, <2>4 DEF Distinct
<1>15. slot + 1 = Forward(committed.paddr, 0 + 1) /\ slot \in 0 .. RingSize - 1
  BY <1>1 DEF RInv, WriterInv
<1>16. Writing(0)'
  <2>0. 1 .. Len(plan') - 1 = 1 .. n
    BY <1>7, <1>13
  <2>1. \A j \in 1 .. Len(plan') - 1 :
           \E mp \in Mapping : HoldsMap(plan'[j], x, mp)
    BY <2>0, <1>8, <1>13
  <2>6. \A mp \in pending' : \E j \in 1 .. Len(plan') - 1 :
           HoldsMap(plan'[j], x, mp)
    BY <2>0, <1>8, <1>13, <1>14
  <2>2. IsWholeSb(plan'[Len(plan')], x)
    BY <1>10, <1>13
  <2>3. 0 + Len(plan') <= MaxMaps + 1
    BY <1>7, <1>13, RingAssumption
  <2>5. slot' = slot /\ committed' = committed
    BY <1>1
  <2> QED
    BY <1>13, <1>14, <1>15, <2>1, <2>2, <2>3, <2>5, <2>6 DEF Writing, x
<1>17. WriterInv'
  <2>1. pc' = "down" /\ plan' # <<>> /\ slot' = slot /\ attempt' \in Nat
    BY <1>1, <1>4, <1>7, <1>13 DEF readerVars
  <2>2. 0 \in 0 .. MaxMaps
    BY RingAssumption
  <2> QED
    BY <1>15, <1>16, <2>1, <2>2 DEF WriterInv
<1> QED
  BY <1>2, <1>3, <1>17 DEF RInv

\* Writing the next block: a map leaves the last checkpoint complete, the
\* superblock replaces it.
LEMMA WriteStep == ASSUME RInv, WriteBlock PROVE RInv'
<1>1. /\ pc = "down" /\ plan # <<>>
      /\ img' = [img EXCEPT ![SlotAddr(slot)] = Head(plan)]
      /\ plan' = Tail(plan)
      /\ slot' = (slot + 1) % RingSize
      /\ UNCHANGED <<readerVars, pending, attempt, crashes>>
  BY DEF WriteBlock
<1>2. ReaderInv' /\ pc' = "down"
  BY <1>1 DEF RInv, ReaderInv, Idle, readerVars
<1>3. PICK w \in 0 .. MaxMaps : Writing(w)
  BY <1>1 DEF RInv, WriterInv
<1> DEFINE p == committed.paddr
           x == committed.xid
           a == Forward(p, w + 1)
<1>4. /\ p \in 1 .. RingSize /\ x \in Nat /\ attempt \in Nat
      /\ slot \in 0 .. RingSize - 1 /\ slot + 1 = a
  BY <1>3 DEF RInv, DiskInv, WriterInv, Writing
<1>5. SlotAddr(slot) = a
  BY <1>4, RingStep
<1>6. w + 1 \in 1 .. MaxMaps + 1
  BY RingAssumption
<1>7. /\ slot' \in 0 .. RingSize - 1
      /\ slot' + 1 = Forward(a, 1)
      /\ w + 1 <= MaxMaps => slot' + 1 = Forward(p, w + 2)
  <2>1. (w + 1) + 1 = w + 2
    OBVIOUS
  <2> QED
    BY <1>1, <1>4, <1>6, <2>1, NextSlot
<1>8. /\ plan \in Seq(Block) /\ Len(plan) \in Nat /\ Len(plan) >= 1
      /\ Head(plan) = plan[1] /\ Head(plan) \in Block
      /\ w + Len(plan) <= MaxMaps + 1
  BY <1>1, <1>3 DEF Writing
<1>9. CASE Len(plan) = 1
  <2>1. IsWholeSb(Head(plan), x + 1)
    BY <1>3, <1>8, <1>9 DEF Writing
  <2>2. committed' = [xid |-> x + 1, paddr |-> a, maps |-> pending]
    BY <1>5, <2>1 DEF WriteBlock, IsWholeSb
  <2>3. DiskInv'
    BY <1>1, <1>3, <1>4, <1>5, <1>8, <1>9, <2>1, <2>2, CommitKeepsDisk DEF RInv
  <2>4. plan' = <<>> /\ committed'.paddr = a
    BY <1>1, <1>8, <1>9, <2>2
  <2>5. WriterInv'
    BY <1>1, <1>4, <1>7, <2>4 DEF WriterInv
  <2> QED
    BY <1>2, <2>3, <2>5 DEF RInv
<1>10. CASE Len(plan) # 1
  <2>1. /\ Len(plan) >= 2 /\ 1 \in 1 .. Len(plan) - 1
        /\ w + 1 <= MaxMaps /\ w + 1 \in 0 .. MaxMaps
    <3> DEFINE len == Len(plan)
    <3>1. /\ len \in Nat /\ len >= 1 /\ len # 1 /\ w + len <= MaxMaps + 1
          /\ w \in Nat /\ MaxMaps \in Nat
      BY <1>8, <1>10, RingAssumption
    <3> HIDE DEF len
    <3>2. /\ len >= 2 /\ 1 \in 1 .. len - 1
          /\ w + 1 <= MaxMaps /\ w + 1 \in 0 .. MaxMaps
      BY <3>1
    <3> QED
      BY <3>2 DEF len
  <2>2. PICK hd \in Mapping : HoldsMap(Head(plan), x + 1, hd)
    BY <1>3, <1>8, <2>1 DEF Writing
  <2>3. /\ committed' = committed /\ Head(plan).kind # "nxsb"
        /\ OneEntry(Head(plan))
    <3>1. Head(plan).kind # "nxsb" /\ OneEntry(Head(plan))
      BY <2>2, HoldsOne
    <3> QED
      BY <3>1 DEF WriteBlock
  <2>4. DiskInv'
    BY <1>1, <1>5, <1>6, <1>8, <2>3, WriteKeepsDisk DEF RInv
  <2>5. /\ plan' \in Seq(Block) /\ Len(plan') = Len(plan) - 1
        /\ \A j \in 1 .. Len(plan) - 1 : plan'[j] = plan[j + 1]
        /\ plan' # <<>>
    <3>1. plan \in Seq(Block) /\ plan # <<>> /\ plan' = Tail(plan)
      BY <1>1, <1>8
    <3>2. /\ plan' \in Seq(Block) /\ Len(plan') = Len(plan) - 1
          /\ \A j \in 1 .. Len(plan) - 1 : plan'[j] = plan[j + 1]
      BY <3>1
    <3>3. Len(plan') # 0
      BY <3>2, <2>1, <1>8
    <3> QED
      BY <3>2, <3>3
  <2>6. ASSUME NEW d \in 1 .. w + 1
        PROVE  img'[Forward(p, d)] =
                 IF d = w + 1 THEN plan[1] ELSE img[Forward(p, d)]
    <3>1. d \in 1 .. MaxMaps + 1
      <4>1. w \in Nat /\ MaxMaps \in Nat /\ w <= MaxMaps
        BY RingAssumption
      <4> QED
        BY <4>1
    <3>2. /\ Forward(p, d) \in 0 .. RingSize
          /\ d # w + 1 => Forward(p, d) # a
      <4>1. /\ Forward(p, d) \in 1 .. RingSize
            /\ d # w + 1 => Forward(p, d) # Forward(p, w + 1)
        BY <1>4, <1>6, <3>1, KeepsClear
      <4> QED
        BY <4>1, RingAssumption
    <3>3. img'[Forward(p, d)] =
            IF Forward(p, d) = a THEN Head(plan) ELSE img[Forward(p, d)]
      BY <1>1, <1>5, <3>2 DEF RInv, DiskInv
    <3> QED
      BY <1>8, <3>2, <3>3
  <2>7. ASSUME NEW j \in 1 .. Len(plan') - 1
        PROVE  \E mp \in Mapping : HoldsMap(plan'[j], x + 1, mp)
    <3>1. j \in 1 .. Len(plan) - 1 /\ j + 1 \in 1 .. Len(plan) - 1
      BY <1>8, <2>5
    <3>2. \E mp \in Mapping : HoldsMap(plan[j + 1], x + 1, mp)
      BY <1>3, <3>1 DEF Writing
    <3> QED
      BY <2>5, <3>1, <3>2
  <2>8. IsWholeSb(plan'[Len(plan')], x + 1)
    <3>1. plan'[Len(plan')] = plan[Len(plan)]
      BY <1>8, <2>1, <2>5
    <3> QED
      BY <1>3, <3>1 DEF Writing
  <2>9. (w + 1) + Len(plan') <= MaxMaps + 1
    <3>1. (w + 1) + Len(plan') = w + Len(plan)
      BY <1>8, <2>5
    <3> QED
      BY <1>8, <3>1
  <2>12. ASSUME NEW mp \in pending
         PROVE  \/ \E d \in 1 .. w + 1 : HoldsMap(img'[Forward(p, d)], x + 1, mp)
                \/ \E j \in 1 .. Len(plan') - 1 : HoldsMap(plan'[j], x + 1, mp)
    <3>1. CASE \E d \in 1 .. w : HoldsMap(img[Forward(p, d)], x + 1, mp)
      <4>1. PICK d \in 1 .. w : HoldsMap(img[Forward(p, d)], x + 1, mp)
        BY <3>1
      <4>2. d \in 1 .. w + 1 /\ d # w + 1
        OBVIOUS
      <4> QED
        BY <2>6, <4>1, <4>2
    <3>2. CASE \E j \in 1 .. Len(plan) - 1 : HoldsMap(plan[j], x + 1, mp)
      <4>1. PICK j \in 1 .. Len(plan) - 1 : HoldsMap(plan[j], x + 1, mp)
        BY <3>2
      <4>2. CASE j = 1
        <5>1. w + 1 \in 1 .. w + 1
          OBVIOUS
        <5> QED
          BY <2>6, <4>1, <4>2, <5>1
      <4>3. CASE j # 1
        <5>1. /\ j - 1 \in 1 .. Len(plan') - 1 /\ j - 1 \in 1 .. Len(plan) - 1
              /\ (j - 1) + 1 = j
          BY <1>8, <2>5, <4>3
        <5>2. plan'[j - 1] = plan[j]
          BY <2>5, <5>1
        <5> QED
          BY <4>1, <5>1, <5>2
      <4> QED
        BY <4>2, <4>3
    <3> QED
      BY <1>3, <3>1, <3>2 DEF Writing
  <2>13. pending' = pending /\ pending \in SUBSET Mapping /\ Distinct(pending)
    BY <1>1, <1>3 DEF Writing
  <2>10. Writing(w + 1)'
    <3>1. (w + 1) + 1 = w + 2
      OBVIOUS
    <3>2. slot' + 1 = Forward(p, (w + 1) + 1)
      BY <1>7, <2>1, <3>1
    <3> QED
      BY <2>3, <2>5, <2>7, <2>8, <2>9, <2>12, <2>13, <3>2 DEF Writing
  <2>11. WriterInv'
    BY <1>1, <1>2, <1>4, <1>7, <2>1, <2>5, <2>10 DEF WriterInv
  <2> QED
    BY <1>2, <2>4, <2>11 DEF RInv
<1> QED
  BY <1>9, <1>10

\* Losing power, with the block under way whole, missing or torn.
LEMMA PowerLossStep == ASSUME RInv, PowerLoss PROVE RInv'
<1>1. /\ pc = "down" /\ pc' = "block0" /\ plan' = <<>>
      /\ slot' = committed.paddr % RingSize
      /\ img' \in {img} \cup
           (IF plan = <<>> THEN {}
            ELSE {[img EXCEPT ![SlotAddr(slot)] = Torn(Head(plan))]})
      /\ UNCHANGED <<overflowChecks, boot, i, best, mappings, error, pending,
                     attempt, committed>>
  BY DEF PowerLoss
<1>2. /\ committed.paddr \in 1 .. RingSize /\ attempt \in Nat
      /\ slot \in 0 .. RingSize - 1
  BY DEF RInv, DiskInv, WriterInv
<1>3. DiskInv'
  <2>1. CASE img' = img
    BY <1>1, <2>1, SameDisk DEF RInv
  <2>2. CASE img' # img
    <3>1. plan # <<>> /\ img' = [img EXCEPT ![SlotAddr(slot)] = Torn(Head(plan))]
      BY <1>1, <2>2
    <3>2. PICK w \in 0 .. MaxMaps : Writing(w)
      BY <3>1 DEF RInv, WriterInv
    <3>3. Head(plan) \in Block
      BY <3>1, <3>2 DEF Writing
    <3>4. SlotAddr(slot) = Forward(committed.paddr, w + 1)
      BY <1>2, <3>2, RingStep DEF Writing
    <3>5. w + 1 \in 1 .. MaxMaps + 1
      BY RingAssumption
    <3> QED
      BY <1>1, <3>1, <3>3, <3>4, <3>5, TornBlock, WriteKeepsDisk DEF RInv
  <2> QED
    BY <2>1, <2>2
<1>4. WriterInv'
  <2>1. committed.paddr - 1 \in 0 .. RingSize - 1
    BY <1>2, RingAssumption
  <2>2. (committed.paddr - 1) + 1 = committed.paddr
    BY <1>2
  <2>3. slot' = IF committed.paddr = RingSize THEN 0 ELSE committed.paddr
    BY <1>1, <2>1, <2>2, RingStep
  <2>4. slot' \in 0 .. RingSize - 1 /\ slot' + 1 = Forward(committed.paddr, 1)
    BY <1>2, <2>3, RingAssumption DEF Forward
  <2> QED
    BY <1>1, <1>2, <2>4 DEF WriterInv
<1>5. ReaderInv'
  <2>1. Idle'
    BY <1>1 DEF RInv, ReaderInv, Idle
  <2> QED
    BY <1>1, <1>3, <2>1, FreshReaderNext DEF ReaderInv, FreshCall
<1> QED
  BY <1>3, <1>4, <1>5 DEF RInv

\* A step of the reader is a step of Container, and writes nothing.
LEMMA ReadStep == ASSUME RInv, Read PROVE RInv'
<1>1. /\ Next /\ UNCHANGED writerVars /\ img' = img /\ pc # "down"
  BY DEF Read, Next, Advance, Block0Missing, Block0Rejected, Block0Accepted,
         RingPanic, ScanBlock, NoSuperblock, ScanDone, MapBlock, MapsDone,
         Reread, ReadFails, Fail, AtRingBlock
<1>2. IInv /\ BootInv /\ LegalOpens /\ OrderInv
  BY <1>1 DEF RInv, ReaderInv
<1>3. IInv' /\ BootInv' /\ LegalOpens' /\ OrderInv'
  BY <1>1, <1>2, InductiveStep, LegalStep, OrderInductive
<1>4. pc' # "down"
  BY <1>3 DEF IInv, TypeOK
<1>5. DiskInv' /\ WriterInv'
  <2>1. plan = <<>> /\ committed' = committed
    BY <1>1 DEF RInv, WriterInv, writerVars
  <2> QED
    BY <1>1, <2>1, SameDisk, SameWriter DEF RInv
<1> QED
  BY <1>3, <1>4, <1>5 DEF RInv, ReaderInv

\* Mounting for writing again resets the reader.
LEMMA RemountStep == ASSUME RInv, Remount PROVE RInv'
<1>1. /\ pc \in {"open", "failed"} /\ pc' = "down" /\ img' = img
      /\ UNCHANGED writerVars
      /\ boot' = NoGeometry /\ i' = 0 /\ best' = NoCandidate
      /\ mappings' = <<>> /\ error' = "none" /\ overflowChecks' = overflowChecks
  BY DEF Remount, Finished
<1>2. overflowChecks \in BOOLEAN
  BY <1>1 DEF RInv, ReaderInv, IInv, TypeOK
<1>3. DiskInv' /\ WriterInv'
  <2>1. committed' = committed
    BY <1>1 DEF writerVars
  <2> QED
    BY <1>1, <2>1, SameDisk, SameWriter DEF RInv
<1> QED
  BY <1>1, <1>2, <1>3 DEF RInv, ReaderInv, Idle

\* A stuttering step, Exhausted included.
LEMMA StutterStep == ASSUME RInv, UNCHANGED <<vars, writerVars>> PROVE RInv'
<1>1. UNCHANGED vars /\ UNCHANGED writerVars /\ img' = img /\ pc' = pc
  BY DEF vars
<1>2. DiskInv' /\ WriterInv'
  <2>1. committed' = committed
    BY <1>1 DEF writerVars
  <2> QED
    BY <1>1, <2>1, SameDisk, SameWriter DEF RInv, WriterInv
<1>3. ReaderInv'
  <2>1. CASE pc = "down"
    BY <1>1, <2>1 DEF RInv, ReaderInv, Idle, vars
  <2>2. CASE pc # "down"
    BY <1>1, <2>2, InductiveStep, LegalStep, OrderInductive DEF RInv, ReaderInv
  <2> QED
    BY <2>1, <2>2
<1> QED
  BY <1>2, <1>3 DEF RInv

\* The disk as the file system is created satisfies the invariant.
LEMMA InitRInv == RecoveryInit => RInv
<1> SUFFICES ASSUME RecoveryInit PROVE RInv
  OBVIOUS
<1> USE RingAssumption, SizeAssumption
<1>1. /\ img = FreshImage /\ plan = <<>> /\ slot = 2 /\ attempt = 1
      /\ committed = [xid |-> 1, paddr |-> 2,
                      maps |-> {MapOf(1, 1, 1).maps[1]}]
  BY DEF RecoveryInit
<1>2. /\ MapOf(1, 1, 1) \in Block
      /\ MappingOf(1, 1) \in Mapping
      /\ HoldsMap(MapOf(1, 1, 1), 1, MappingOf(1, 1))
      /\ MapOf(1, 1, 1).maps[1] = MappingOf(1, 1)
      /\ Whole("nxsb", 1, <<>>) \in Block
      /\ Whole("nxsb", 1, <<>>).geo = RingGeo
      /\ IsWholeSb(Whole("nxsb", 1, <<>>), 1)
      /\ Whole("other", 0, <<>>) \in Block
  BY WrittenBlocks
<1> DEFINE torn == Torn(Whole("other", 0, <<>>))
<1>3. torn \in Block /\ torn.cksum # NX_MINIMUM_BLOCK_SIZE
  BY <1>2, TornBlock
<1>4. \A a \in 0 .. RingSize :
        img[a] = CASE a = 0 -> Whole("nxsb", 1, <<>>)
                   [] a = 1 -> MapOf(1, 1, 1)
                   [] a = 2 -> Whole("nxsb", 1, <<>>)
                   [] OTHER -> torn
  BY <1>1 DEF FreshImage
<1> HIDE DEF torn
<1>5. /\ img[0] = Whole("nxsb", 1, <<>>)
      /\ img[1] = MapOf(1, 1, 1)
      /\ img[2] = Whole("nxsb", 1, <<>>)
      /\ \A a \in 3 .. RingSize : img[a] = torn
  <2>1. 0 \in 0 .. RingSize /\ 1 \in 0 .. RingSize /\ 2 \in 0 .. RingSize
    OBVIOUS
  <2>2. \A a \in 3 .. RingSize : a \in 0 .. RingSize /\ a \notin {0, 1, 2}
    OBVIOUS
  <2>3. img[0] = Whole("nxsb", 1, <<>>)
    BY <1>4, <2>1
  <2>4. img[1] = MapOf(1, 1, 1)
    BY <1>4, <2>1
  <2>5. img[2] = Whole("nxsb", 1, <<>>)
    BY <1>4, <2>1
  <2>6. \A a \in 3 .. RingSize : img[a] = torn
    BY <1>4, <2>2
  <2> QED
    BY <2>3, <2>4, <2>5, <2>6
<1>6. \A a \in 0 .. RingSize : img[a] \in Block
  <2>1. \A a \in 0 .. RingSize : a \in {0, 1, 2} \/ a \in 3 .. RingSize
    OBVIOUS
  <2> QED
    BY <1>2, <1>3, <1>5, <2>1
<1>7. img \in [0 .. RingSize -> Block]
  BY <1>1, <1>6 DEF FreshImage
<1>8. ASSUME NEW a \in 1 .. RingSize, img[a].kind = "nxsb",
             img[a].cksum = NX_MINIMUM_BLOCK_SIZE
      PROVE  a = 2
  <2>1. a # 1
    BY <1>2, <1>5, <1>8 DEF HoldsMap
  <2>2. a \notin 3 .. RingSize
    BY <1>3, <1>5, <1>8
  <2> QED
    BY <2>1, <2>2
<1>9. Backward(2, 1) = 1 /\ 1 \in 1 .. MaxMaps /\ Forward(2, 1) = 3
  BY DEF Backward, Forward
<1>10. DiskInv
  <2>1. /\ img[0].magic /\ img[0].cksum = NX_MINIMUM_BLOCK_SIZE
        /\ img[0].geo = RingGeo
        /\ img[2].xid = 1
    BY <1>2, <1>5 DEF IsWholeSb
  <2>2. /\ committed.xid = 1 /\ committed.paddr = 2
        /\ committed.maps = {MappingOf(1, 1)}
        /\ committed \in [xid : Nat, paddr : 1 .. RingSize, maps : SUBSET Mapping]
    BY <1>1, <1>2
  <2>3. HoldsMap(img[Backward(2, 1)], 1, MappingOf(1, 1))
    BY <1>2, <1>5, <1>9
  <2>4. \A a \in 1 .. RingSize :
          (img[a].kind = "nxsb" /\ img[a].cksum = NX_MINIMUM_BLOCK_SIZE) =>
             img[a].xid <= 1 /\ (img[a].xid = 1 => a = 2)
    BY <1>8, <2>1
  <2>5. \A mp \in committed.maps : \E d \in 1 .. MaxMaps :
          HoldsMap(img[Backward(2, d)], 1, mp)
    BY <1>9, <2>2, <2>3
  <2>6. Distinct(committed.maps)
    BY <2>2 DEF Distinct
  <2>7. ASSUME NEW a \in 1 .. RingSize, img[a].kind = "cpm",
               img[a].cksum = NX_MINIMUM_BLOCK_SIZE
        PROVE  OneEntry(img[a])
    <3>1. a \notin 3 .. RingSize /\ a # 2
      BY <1>2, <1>3, <1>5, <2>7 DEF IsWholeSb
    <3>2. img[a] = MapOf(1, 1, 1)
      BY <1>5, <3>1
    <3> QED
      BY <1>2, <3>2, HoldsOne
  <2> QED
    BY <1>2, <1>5, <1>7, <2>1, <2>2, <2>4, <2>5, <2>6, <2>7 DEF DiskInv
<1>11. WriterInv
  BY <1>1, <1>9 DEF WriterInv, RecoveryInit
<1>12. ReaderInv
  BY DEF RecoveryInit, ReaderInv, Idle
<1> QED
  BY <1>10, <1>11, <1>12 DEF RInv

-----------------------------------------------------------------------------
\* RInv holds throughout, over any number of checkpoints and power losses.
THEOREM RecoveryInvariance == RecoverySpec => []RInv
<1>1. RInv /\ [RecoveryNext]_<<vars, writerVars>> => RInv'
  BY BeginStep, WriteStep, PowerLossStep, ReadStep, RemountStep, StutterStep
  DEF RecoveryNext, Exhausted
<1> QED
  BY <1>1, InitRInv, PTL DEF RecoverySpec

\* With the disk invariant, the image handed to the reader is a legal one.
LEMMA DiskIsLegal ==
    ASSUME DiskInv
    PROVE  Legal /\ img[0].geo.blockSize = NX_MINIMUM_BLOCK_SIZE
<1> USE RingAssumption, SizeAssumption
<1>1. /\ img[0].geo.descBase = 1 /\ img[0].geo.descBlocks = RingSize
      /\ img[0].geo.blockSize = NX_MINIMUM_BLOCK_SIZE
      /\ ~img[0].geo.fusion /\ ~img[0].geo.descTree
  BY DEF DiskInv, RingGeo
<1>2. DOMAIN img = 0 .. RingSize
  BY DEF DiskInv
<1>3. committed.paddr \in 1 .. RingSize
  BY DEF DiskInv
<1>4. /\ img[committed.paddr].kind = "nxsb" /\ img[committed.paddr].magic
      /\ img[committed.paddr].cksum = NX_MINIMUM_BLOCK_SIZE
  BY DEF DiskInv, IsWholeSb
<1> QED
  BY <1>1, <1>2, <1>3, <1>4 DEF Legal, InImage, DiskInv, BlockSizeInRange

\* A power loss, wherever it falls, never makes the container unreadable
\* (lib.rs, open): of all its errors only the source's own remains.
THEOREM CrashSafety == RecoverySpec => []CrashNeverBlocksOpen
<1>1. RInv => CrashNeverBlocksOpen
  BY DiskIsLegal DEF RInv, ReaderInv, LegalOpens, CrashNeverBlocksOpen
<1> QED
  BY <1>1, RecoveryInvariance, PTL

\* A non-empty set of naturals has a least element.
LEMMA LeastNat ==
    ASSUME NEW S \in SUBSET Nat, NEW e \in S
    PROVE  \E m \in S : \A k \in S : m <= k
<1>1. PICK m \in S : \A k \in S : ~(<<k, m>> \in OpToRel(<, Nat))
  BY NatLessThanWellFounded, WFMin, Zenon
<1>2. \A k \in S : ~(k < m)
  BY <1>1 DEF OpToRel
<1> QED
  BY <1>2

\* The reader recovers the last complete checkpoint, its superblock and the
\* places of its objects, those an abandoned map shadows apart (checkpoint.rs,
\* resolve_live_checkpoint; lib.rs, resolve_ephemeral).
THEOREM LastCheckpoint == RecoverySpec => []RecoversLastCheckpoint
<1>1. RInv => RecoversLastCheckpoint
  <2> SUFFICES ASSUME RInv, pc \in {"maps", "reread", "open"}
               PROVE  /\ best.xid = committed.xid
                      /\ best.paddr = committed.paddr
                      /\ pc = "open" => \A mp \in committed.maps :
                           /\ mp \in MappingSet
                           /\ \/ ResolveEphemeral(mp.oid) = {mp.paddr}
                              \/ Shadowed(mp)
    BY DEF RecoversLastCheckpoint
  <2> DEFINE p == committed.paddr
             x == committed.xid
  <2>1. /\ TypeOK /\ DiskInv /\ Legal
        /\ best.found /\ BestOf(RingIndex)
        /\ boot = img[0].geo
    BY DiskIsLegal DEF RInv, ReaderInv, IInv, LiveIsHighest, BootInv
  <2>2. /\ boot.descBase = 1 /\ boot.descBlocks = RingSize
        /\ boot.blockSize = NX_MINIMUM_BLOCK_SIZE
        /\ RingIndex = 0 .. RingSize - 1
    BY <2>1 DEF DiskInv, RingGeo, RingIndex
  <2>3. p \in 1 .. RingSize /\ x \in Nat
    BY <2>1 DEF DiskInv
  <2>4. \A k \in RingIndex : RingAddr(k) = 1 + k /\ InImage(1 + k)
    <3>1. DOMAIN img = 0 .. RingSize
      BY <2>1 DEF DiskInv
    <3>2. \A k \in RingIndex : 1 + k \in 0 .. RingSize
      BY <2>2, RingAssumption
    <3> QED
      BY <2>1, <2>2, <3>1, <3>2, LegalRing DEF InImage
  <2>5. p - 1 \in Candidates(RingIndex) /\ RingAddr(p - 1) = p
    <3>1. p - 1 \in RingIndex /\ 1 + (p - 1) = p
      BY <2>2, <2>3, RingAssumption
    <3>2. RingAddr(p - 1) = p /\ InImage(p)
      BY <2>4, <3>1
    <3> QED
      BY <2>1, <2>2, <3>1, <3>2
      DEF Candidates, IsSuperblock, ChecksumOk, DiskInv, IsWholeSb
  <2>6. PICK k \in Candidates(RingIndex) :
          /\ best.paddr = RingAddr(k)
          /\ best.xid = img[RingAddr(k)].xid
          /\ \A j \in Candidates(RingIndex) : img[RingAddr(j)].xid <= best.xid
    BY <2>1, <2>5 DEF BestOf
  <2>7. /\ RingAddr(k) \in 1 .. RingSize
        /\ img[RingAddr(k)].kind = "nxsb"
        /\ img[RingAddr(k)].cksum = NX_MINIMUM_BLOCK_SIZE
    <3>1. k \in RingIndex /\ IsSuperblock(img[RingAddr(k)])
      BY DEF Candidates
    <3> QED
      BY <3>1, <2>2, <2>4, RingAssumption DEF IsSuperblock, ChecksumOk
  <2>8. best.xid <= x /\ (best.xid = x => best.paddr = p)
    BY <2>1, <2>6, <2>7 DEF DiskInv
  <2>9. x <= best.xid
    BY <2>1, <2>5, <2>6 DEF DiskInv, IsWholeSb
  <2>10. best.xid = x /\ best.paddr = p
    <3>1. best.xid \in Nat
      BY <2>1 DEF TypeOK
    <3> QED
      BY <2>3, <2>8, <2>9, <3>1
  <2>11. ASSUME pc = "open", NEW mp \in committed.maps
         PROVE  /\ mp \in MappingSet
                /\ ResolveEphemeral(mp.oid) = {mp.paddr} \/ Shadowed(mp)
    <3>1. PICK d \in 1 .. MaxMaps : HoldsMap(img[Backward(p, d)], x, mp)
      BY <2>1 DEF DiskInv
    <3> DEFINE a == Backward(p, d)
    <3>2. a \in 1 .. RingSize
      <4>1. 1 \in 1 .. MaxMaps + 1
        BY RingAssumption
      <4> QED
        BY <2>3, <4>1, KeepsClear
    <3> HIDE DEF a
    <3>3. a - 1 \in RingIndex /\ 1 + (a - 1) = a
      BY <2>2, <3>2, RingAssumption
    <3>4. RingAddr(a - 1) = a /\ InImage(a)
      BY <2>4, <3>3
    <3>5. HoldsMap(img[a], x, mp)
      BY <3>1 DEF a
    <3>6. a - 1 \in MapIndexes(RingIndex)
      BY <2>2, <2>10, <3>3, <3>4, <3>5
      DEF MapIndexes, IsLiveMap, ChecksumOk, HoldsMap
    <3>7. 1 \in DOMAIN RingEntries(a - 1) /\ RingEntries(a - 1)[1] = mp
      <4>1. RingEntries(a - 1) = MapEntries(img[a])
        BY <3>4 DEF RingEntries
      <4>2. img[a].count = 1 /\ img[a].maps = <<mp>>
        BY <3>5 DEF HoldsMap
      <4>3. (IF img[a].count < MAX_CPM_COUNT THEN img[a].count
             ELSE MAX_CPM_COUNT) = 1
        BY <4>2, RingAssumption, SizeAssumption
      <4>4. MapEntries(img[a]) =
              [m \in 1 .. 1 |-> IF m <= Len(<<mp>>) THEN <<mp>>[m]
                                ELSE ZeroMapping]
        BY <4>2, <4>3 DEF MapEntries
      <4> QED
        BY <4>1, <4>4
    <3>8. Collected(RingIndex)
      BY <2>11 DEF RInv, ReaderInv, IInv, MapsProgress
    <3>9. InRingOrder(RingIndex) /\ mappings \in Seq(Mapping)
      BY <2>1, <2>11 DEF RInv, ReaderInv, OrderInv, TypeOK
    <3>10. PICK n \in DOMAIN mappings :
             /\ mappings[n] = mp
             /\ \A q \in DOMAIN mappings : q < n =>
                  \E j \in MapIndexes(RingIndex) : \E l \in DOMAIN RingEntries(j) :
                    /\ Precedes(j, l, a - 1, 1)
                    /\ mappings[q] = RingEntries(j)[l]
      BY <3>6, <3>7, <3>9 DEF InRingOrder
    <3>11. mp \in MappingSet
      BY <3>10 DEF MappingSet
    <3>12. ASSUME ~Shadowed(mp), NEW q \in DOMAIN mappings, q < n,
                  mappings[q].oid = mp.oid
           PROVE  mappings[q] = mp
      <4>1. PICK j \in MapIndexes(RingIndex) : \E l \in DOMAIN RingEntries(j) :
              /\ Precedes(j, l, a - 1, 1)
              /\ mappings[q] = RingEntries(j)[l]
        BY <3>10, <3>12
      <4>2. PICK l \in DOMAIN RingEntries(j) :
              /\ Precedes(j, l, a - 1, 1)
              /\ mappings[q] = RingEntries(j)[l]
        BY <4>1
      <4> DEFINE c == 1 + j
      <4>3. /\ j \in RingIndex /\ RingAddr(j) = c /\ c \in 1 .. RingSize
            /\ img[c].kind = "cpm" /\ img[c].xid = x
            /\ img[c].cksum = NX_MINIMUM_BLOCK_SIZE
        <5>1. j \in RingIndex /\ IsLiveMap(img[RingAddr(j)])
          BY DEF MapIndexes
        <5>2. RingAddr(j) = c /\ c \in 1 .. RingSize
          BY <2>2, <2>4, <5>1, RingAssumption
        <5> QED
          BY <2>2, <2>10, <5>1, <5>2 DEF IsLiveMap, ChecksumOk
      <4>4. OneEntry(img[c])
        BY <2>1, <4>3 DEF DiskInv
      <4> HIDE DEF c
      <4>5. PICK mq \in Mapping : img[c].maps = <<mq>> /\ img[c].count = 1
        BY <4>4 DEF OneEntry
      <4>6. DOMAIN RingEntries(j) = 1 .. 1 /\ RingEntries(j)[1] = mq
        <5>1. RingEntries(j) = MapEntries(img[c])
          BY <4>3 DEF RingEntries
        <5>2. (IF img[c].count < MAX_CPM_COUNT THEN img[c].count
               ELSE MAX_CPM_COUNT) = 1
          BY <4>5, RingAssumption, SizeAssumption
        <5>3. MapEntries(img[c]) =
                [m \in 1 .. 1 |-> IF m <= Len(<<mq>>) THEN <<mq>>[m]
                                  ELSE ZeroMapping]
          BY <4>5, <5>2 DEF MapEntries
        <5> QED
          BY <5>1, <5>3
      <4>7. l = 1 /\ mappings[q] = mq /\ img[c].maps[1] = mq
        BY <4>2, <4>5, <4>6
      <4>8. c < a
        BY <3>2, <4>2, <4>3, <4>7, <2>2, RingAssumption DEF Precedes, c
      <4>9. Names(c, mp) /\ Names(a, mp) /\ img[a].maps[1] = mp
        BY <3>5, <3>12, <4>3, <4>7 DEF Names, HoldsMap
      <4>10. mq \in committed.maps
        BY <3>2, <3>12, <4>3, <4>7, <4>8, <4>9 DEF Shadowed
      <4>11. Distinct(committed.maps)
        BY <2>1 DEF DiskInv
      <4> QED
        BY <3>12, <4>7, <4>10, <4>11 DEF Distinct
    <3>13. ASSUME ~Shadowed(mp)
           PROVE  ResolveEphemeral(mp.oid) = {mp.paddr}
      <4> DEFINE hits == {h \in DOMAIN mappings : mappings[h].oid = mp.oid}
                 first == {h \in hits : \A g \in hits : h <= g}
      <4>1. hits \in SUBSET Nat /\ n \in hits
        BY <3>9, <3>10
      <4>2. PICK h \in hits : \A g \in hits : h <= g
        BY <4>1, LeastNat
      <4>3. mappings[h] = mp
        <5>1. CASE h = n
          BY <3>10, <5>1
        <5>2. CASE h # n
          <6>1. h < n /\ h \in DOMAIN mappings /\ mappings[h].oid = mp.oid
            BY <4>1, <4>2, <5>2
          <6> QED
            BY <3>12, <3>13, <6>1
        <5> QED
          BY <5>1, <5>2
      <4>4. first = {h}
        <5>1. h \in first
          BY <4>2
        <5>2. \A g \in first : g = h
          BY <4>1, <4>2
        <5> QED
          BY <5>1, <5>2
      <4>5. ResolveEphemeral(mp.oid) = {mappings[g].paddr : g \in first}
        BY DEF ResolveEphemeral
      <4> QED
        BY <4>3, <4>4, <4>5
    <3> QED
      BY <3>11, <3>13
  <2> QED
    BY <2>10, <2>11
<1> QED
  BY <1>1, RecoveryInvariance, PTL
=============================================================================
