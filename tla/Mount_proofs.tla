----------------------------- MODULE Mount_proofs -----------------------------
(***************************************************************************)
(* For every volume, history of transactions and image size: what is       *)
(* mounted is the transaction asked for, node by node, and what is         *)
(* retained in an undamaged image can be mounted and read, or is refused   *)
(* for one of four reasons.                                                *)
(*                                                                         *)
(* MapInv: the container's map has one live superblock.  HistoryInv: its   *)
(* transaction is on record.  DiskInv: it, and the frozen superblock of    *)
(* every snapshot, are on disk with the root of their transaction, and it  *)
(* names the root of the snapshot tree by a block of the image.            *)
(* NodesInv: at each of these transactions the volume's map resolves every *)
(* node to the version of that transaction.  OpenInv and MountedInv: what  *)
(* the reader holds is one of these superblocks.                           *)
(***************************************************************************)
EXTENDS Mount, TLAPS

Supers == OddSupers \cup {Super}

MapInv ==
    /\ nx.xid \in 1 .. MaxXid
    /\ \E s \in Supers : nx = Found(s, nx.xid)
    /\ cmap \subseteq [oid : {VolOid, Neighbour}, xid : Nat, paddr : 0 .. MaxAddr]
    /\ \A e \in cmap : e.xid <= nx.xid
    /\ VM!Floor(cmap, VolOid, nx.xid) = {LiveSb}
    /\ VM!Floor(cmap, Neighbour, nx.xid) # {}

\* Transactions up to the live superblock's are on record.
HistoryInv ==
    /\ LiveSb.xid \in DOMAIN history
    /\ \A x \in DOMAIN history :
          /\ x \in 1 .. LiveSb.xid
          /\ history[x] \in [root : Nat, ver : [Oids -> Nat]]

\* Block b is a superblock as of transaction x.
AsOf(b, x) ==
    b.type = "fs" /\ b.magic = TRUE /\ b.xid = x /\ b.root = history[x].root

DiskInv ==
    /\ disk \in [0 .. MaxAddr -> Block]
    /\ \A a \in {NxOmap, VolOmap} : disk[a].type = "omap"
    /\ AsOf(disk[LiveSb.paddr], LiveSb.xid)
    /\ disk[LiveSb.paddr].omap = VolOmap
    /\ disk[LiveSb.paddr].snap \in 0 .. MaxAddr
    /\ \A s \in snaps : /\ s.sblock \in 0 .. MaxAddr /\ s.xid \in DOMAIN history
                        /\ AsOf(disk[s.sblock], s.xid)
    /\ damaged = {} => \A a \in 0 .. MaxAddr : disk[a].cksum = TRUE

\* The transactions that can be mounted.
Points == {LiveSb.xid} \cup {s.xid : s \in snaps}

\* At transaction x, map m leads from o to its version as of x.
Shows(m, x, o) ==
    \E e \in m : VM!Floor(m, o, x) = {e} /\ e.xid = history[x].ver[o]

NodesInv ==
    /\ vmap \subseteq [oid : Oids, xid : Nat, paddr : 0 .. MaxAddr]
    /\ \A e \in vmap : e.xid <= LiveSb.xid /\ disk[e.paddr].ver = e.xid
    /\ \A x \in Points, o \in Oids : Shows(vmap, x, o)

ImageInv == MapInv /\ HistoryInv /\ DiskInv /\ NodesInv

\* One address for each of the first volumes, every one of them mapped.
Mapped(as) ==
    /\ Len(as) <= Len(Volumes)
    /\ \A k \in 1 .. Len(as) : VM!Floor(cmap, Volumes[k], nx.xid) # {}

OpenInv ==
    /\ request \in 0 .. MaxXid
    /\ phase = "writing" => damaged = {} /\ request = 0
    /\ phase \in {"writing", "header"} => addrs = <<>>
    /\ addrs # <<>> => addrs[1] = LiveSb.paddr
    /\ Mapped(addrs)
    /\ phase \in {"snapshots", "mounted"} => Len(addrs) = Len(Volumes)
    /\ phase = "snapshots" =>
          live = disk[LiveSb.paddr] /\ request \notin {0, LiveSb.xid}

MountedInv ==
    /\ phase = "mounted" =>
          /\ rootXid \in Points
          /\ request \in {0, rootXid}
          /\ request = 0 => rootXid = LiveSb.xid
          /\ volume.xid = rootXid /\ volume.omap = VolOmap
          /\ volume.root = history[rootXid].root
    /\ phase # "mounted" => got = Unread
    /\ got.status = "ok" => got.ver = history[rootXid].ver[got.oid]

MInv == TypeOK /\ ImageInv /\ OpenInv /\ MountedInv /\ RetainedIsReadable

-----------------------------------------------------------------------------
\* Floors

\* Nothing is in the map between x and y.
LEMMA FloorLater ==
    ASSUME NEW m, NEW o, NEW x \in Nat, NEW y \in Nat, x <= y,
           \A e \in m : e.xid \in Nat /\ e.xid <= x
    PROVE  VM!Floor(m, o, y) = VM!Floor(m, o, x)
BY DEF VM!Floor, VM!Versions

\* An entry later than all others of its object is its floor from then on.
LEMMA FloorOfNew ==
    ASSUME NEW m, NEW n, NEW y \in Nat, n.xid \in Nat, n.xid <= y,
           \A e \in m : e.oid = n.oid => e.xid \in Nat /\ e.xid < n.xid
    PROVE  VM!Floor(m \cup {n}, n.oid, y) = {n}
<1>1. n \in VM!Floor(m \cup {n}, n.oid, y)
  BY DEF VM!Floor, VM!Versions
<1>2. ASSUME NEW e \in VM!Floor(m \cup {n}, n.oid, y) PROVE e = n
  <2>1. e \in m \cup {n} /\ e.oid = n.oid /\ n.xid <= e.xid
    BY DEF VM!Floor, VM!Versions
  <2> QED
    BY <2>1
<1> QED
  BY <1>1, <1>2

\* An entry of another object, or later, changes no floor.
LEMMA FloorOfOld ==
    ASSUME NEW m, NEW n, NEW o, NEW x, o # n.oid \/ ~(n.xid <= x)
    PROVE  VM!Floor(m \cup {n}, o, x) = VM!Floor(m, o, x)
<1>1. VM!Versions(m \cup {n}, o, x) = VM!Versions(m, o, x)
  BY DEF VM!Versions
<1> QED
  BY <1>1 DEF VM!Floor

\* A part of the map that has the floor has the same one.
LEMMA FloorOfPart ==
    ASSUME NEW m, NEW p, p \subseteq m, NEW o, NEW x, NEW e,
           VM!Floor(m, o, x) = {e}, e \in p,
           \A f \in m : f.xid \in Nat
    PROVE  VM!Floor(p, o, x) = {e}
<1>1. /\ e \in m /\ e.oid = o /\ e.xid <= x
      /\ \A f \in m : (f.oid = o /\ f.xid <= x) => f.xid <= e.xid
  BY DEF VM!Floor, VM!Versions
<1>2. e \in VM!Floor(p, o, x)
  BY <1>1 DEF VM!Floor, VM!Versions
<1>3. ASSUME NEW f \in VM!Floor(p, o, x) PROVE f = e
  <2>1. /\ f \in m /\ f.oid = o /\ f.xid <= x /\ e.xid <= f.xid
    BY <1>1 DEF VM!Floor, VM!Versions
  <2>2. \A g \in m : (g.oid = o /\ g.xid <= x) => g.xid <= f.xid
    BY <1>1, <2>1
  <2>3. f \in VM!Floor(m, o, x)
    BY <2>1, <2>2 DEF VM!Floor, VM!Versions
  <2> QED
    BY <2>3
<1> QED
  BY <1>2, <1>3

\* What an entry of a floor is.
LEMMA FloorEntry ==
    ASSUME NEW m, NEW o, NEW x, NEW e \in VM!Floor(m, o, x)
    PROVE  /\ e \in m /\ e.oid = o /\ e.xid <= x
           /\ \A f \in m : (f.oid = o /\ f.xid <= x) => f.xid <= e.xid
BY DEF VM!Floor, VM!Versions

-----------------------------------------------------------------------------
\* The image

\* The live superblock is the newest entry of its volume.
LEMMA LiveEntry ==
    ASSUME MapInv
    PROVE  /\ LiveSb \in cmap /\ LiveSb.oid = VolOid
           /\ LiveSb.xid \in Nat /\ LiveSb.paddr \in 0 .. MaxAddr
           /\ LiveSb.xid <= nx.xid
<1>1. LiveSb \in VM!Floor(cmap, VolOid, nx.xid)
  BY DEF MapInv
<1>2. LiveSb \in cmap /\ LiveSb.oid = VolOid /\ LiveSb.xid <= nx.xid
  BY <1>1, FloorEntry
<1> QED
  BY <1>2 DEF MapInv

\* A floor of one entry is the live superblock.
LEMMA LiveIs ==
    ASSUME NEW e, VM!Floor(cmap, VolOid, nx.xid)' = {e}
    PROVE  LiveSb' = e
BY DEF LiveSb

\* There are two free blocks.
LEMMA FreshBlocks ==
    ASSUME HasRoom
    PROVE  /\ FreeA \in 0 .. MaxAddr /\ FreeB \in 0 .. MaxAddr /\ FreeA # FreeB
           /\ FreeA \in FreeBlocks /\ FreeB \in FreeBlocks
<1>1. FreeA \in FreeBlocks
  BY DEF HasRoom, FreeA
<1>2. FreeB \in FreeBlocks \ {FreeA}
  BY DEF HasRoom, FreeB
<1>3. /\ FreeA \in 0 .. MaxAddr /\ FreeB \in 0 .. MaxAddr /\ FreeA # FreeB
      /\ FreeA \notin InUse /\ FreeB \notin InUse
  BY <1>1, <1>2 DEF FreeBlocks
<1> QED
  BY <1>1, <1>2, <1>3

\* The fixed blocks lie inside the image.
LEMMA OmapBlocks ==
    /\ NxOmap \in 0 .. MaxAddr /\ VolOmap \in 0 .. MaxAddr
    /\ NeighbourAddr \in 0 .. MaxAddr /\ 4 \in 0 .. MaxAddr
    /\ FirstSnap \in 0 .. MaxAddr
<1>1. PICK o \in Oids : o \in Nat
  BY MountAssumption
<1>2. Home[o] \in FirstSnap + 1 .. MaxAddr /\ MaxAddr \in Nat
  BY <1>1, MountAssumption, RoomAssumption
<1> QED
  BY <1>1, <1>2 DEF NxOmap, VolOmap, NeighbourAddr, FirstSnap

\* A checkpoint makes its superblock the live one.
LEMMA CheckpointMap ==
    ASSUME MapInv, nx.xid < MaxXid, NEW a \in 0 .. MaxAddr,
           Checkpoint(nx.xid + 1, a)
    PROVE  /\ MapInv'
           /\ LiveSb' = Entry(VolOid, nx.xid + 1, a)
           /\ nx'.xid = nx.xid + 1
<1> DEFINE n == Entry(VolOid, nx.xid + 1, a)
<1>1. /\ n.oid = VolOid /\ n.xid = nx.xid + 1 /\ n.paddr = a
      /\ n \in [oid : {VolOid, Neighbour}, xid : Nat, paddr : 0 .. MaxAddr]
  BY DEF Entry, MapInv
<1>2. nx.xid \in Nat /\ nx.xid + 1 \in 1 .. MaxXid
  BY MountAssumption DEF MapInv
<1>3. PICK s \in Supers : nx = Found(s, nx.xid)
  BY DEF MapInv
<1>4. nx'.xid = nx.xid + 1 /\ nx' = Found(s, nx'.xid)
  BY <1>3 DEF Checkpoint, Found
<1>5. cmap' = cmap \cup {n}
  BY DEF Checkpoint
<1> HIDE DEF n
<1>6. \A e \in cmap : e.xid \in Nat /\ e.xid < nx.xid + 1
  BY <1>2 DEF MapInv
<1>7. VM!Floor(cmap', VolOid, nx.xid + 1) = {n}
  <2>1. n.xid \in Nat /\ nx.xid + 1 \in Nat /\ n.xid <= nx.xid + 1
    BY <1>1, <1>2
  <2>2. \A e \in cmap : e.oid = n.oid => e.xid \in Nat /\ e.xid < n.xid
    BY <1>1, <1>6
  <2>3. VM!Floor(cmap \cup {n}, n.oid, nx.xid + 1) = {n}
    BY <2>1, <2>2, FloorOfNew
  <2> QED
    BY <1>1, <1>5, <2>3
<1>8. VM!Floor(cmap', Neighbour, nx.xid + 1) # {}
  <2>1. VM!Floor(cmap, Neighbour, nx.xid + 1) = VM!Floor(cmap, Neighbour, nx.xid)
    <3>1. \A e \in cmap : e.xid \in Nat /\ e.xid <= nx.xid
      BY DEF MapInv
    <3> QED
      BY <1>2, <3>1, FloorLater
  <2>2. Neighbour # n.oid
    BY <1>1, MountAssumption DEF Neighbour
  <2>3. VM!Floor(cmap \cup {n}, Neighbour, nx.xid + 1)
          = VM!Floor(cmap, Neighbour, nx.xid + 1)
    BY <2>2, FloorOfOld
  <2> QED
    BY <1>5, <2>1, <2>3 DEF MapInv
<1>9. LiveSb' = n
  BY <1>4, <1>7, LiveIs
<1>10. \A e \in cmap' : e.xid <= nx'.xid
  BY <1>1, <1>2, <1>4, <1>5, <1>6
<1>11. cmap' \subseteq [oid : {VolOid, Neighbour}, xid : Nat, paddr : 0 .. MaxAddr]
  BY <1>1, <1>5 DEF MapInv
<1>12. MapInv'
  BY <1>2, <1>4, <1>7, <1>8, <1>9, <1>10, <1>11 DEF MapInv
<1> QED
  BY <1>4, <1>9, <1>12 DEF n

\* A transaction is added behind all others.
LEMMA HistoryStep ==
    ASSUME MapInv, HistoryInv, LiveSb'.xid = nx.xid + 1,
           NEW h \in [root : Nat, ver : [Oids -> Nat]],
           history' = [x \in DOMAIN history \cup {nx.xid + 1} |->
                         IF x = nx.xid + 1 THEN h ELSE history[x]]
    PROVE  /\ HistoryInv'
           /\ nx.xid + 1 \in DOMAIN history' /\ history'[nx.xid + 1] = h
           /\ \A x \in DOMAIN history :
                /\ x \in DOMAIN history' /\ history'[x] = history[x]
                /\ x \in Nat /\ x <= LiveSb.xid /\ x < nx.xid + 1
<1>1. nx.xid \in Nat /\ LiveSb.xid \in Nat /\ LiveSb.xid <= nx.xid
  BY LiveEntry DEF MapInv
<1>2. \A x \in DOMAIN history :
        /\ x \in Nat /\ 1 <= x /\ x <= LiveSb.xid /\ x < nx.xid + 1
        /\ history[x] \in [root : Nat, ver : [Oids -> Nat]]
  BY <1>1 DEF HistoryInv
<1>3. /\ DOMAIN history' = DOMAIN history \cup {nx.xid + 1}
      /\ history'[nx.xid + 1] = h
      /\ \A x \in DOMAIN history : history'[x] = history[x]
  BY <1>1, <1>2
<1>4. ASSUME NEW x \in DOMAIN history'
      PROVE  /\ x \in 1 .. LiveSb'.xid
             /\ history'[x] \in [root : Nat, ver : [Oids -> Nat]]
  BY <1>1, <1>2, <1>3
<1> QED
  BY <1>2, <1>3, <1>4 DEF HistoryInv

\* What the live volume shows.
LEMMA LiveStateIs ==
    ASSUME HistoryInv, DiskInv
    PROVE  /\ LiveState = history[LiveSb.xid]
           /\ LiveState \in [root : Nat, ver : [Oids -> Nat]]
BY DEF LiveState, HistoryInv, DiskInv, AsOf

\* Free blocks are written; what was on disk and is needed stays.
LEMMA DiskStep ==
    ASSUME DiskInv, NodesInv, disk' \in [0 .. MaxAddr -> Block],
           NEW F \in SUBSET FreeBlocks,
           \A a \in 0 .. MaxAddr : a \notin F => disk'[a] = disk[a],
           \A a \in F : disk'[a].cksum = TRUE
    PROVE  /\ \A a \in {NxOmap, VolOmap} : disk'[a].type = "omap"
           /\ \A s \in snaps : disk'[s.sblock] = disk[s.sblock]
           /\ \A e \in vmap : disk'[e.paddr] = disk[e.paddr]
           /\ damaged = {} => \A a \in 0 .. MaxAddr : disk'[a].cksum = TRUE
<1>1. \A a \in F : /\ a \notin {NxOmap, VolOmap}
                   /\ \A e \in vmap : a # e.paddr
                   /\ \A s \in snaps : a # s.sblock
  BY DEF FreeBlocks, InUse
<1>2. \A a \in {NxOmap, VolOmap} : disk'[a].type = "omap"
  BY <1>1, OmapBlocks DEF DiskInv
<1>3. /\ \A e \in vmap : e.paddr \in 0 .. MaxAddr /\ e.paddr \notin F
      /\ \A s \in snaps : s.sblock \in 0 .. MaxAddr /\ s.sblock \notin F
  BY <1>1 DEF DiskInv, NodesInv
<1>4. damaged = {} => \A a \in 0 .. MaxAddr : disk'[a].cksum = TRUE
  BY DEF DiskInv
<1> QED
  BY <1>2, <1>3, <1>4

\* A commit preserves the image.
LEMMA CommitStep == ImageInv /\ Commit => ImageInv'
<1> SUFFICES ASSUME ImageInv, Commit PROVE ImageInv'
  OBVIOUS
<1>0. MapInv /\ HistoryInv /\ DiskInv /\ NodesInv
  BY DEF ImageInv
<1>b. PICK o \in Oids, r \in Oids :
        LET xid == nx.xid + 1 IN
        /\ nx.xid < MaxXid /\ HasRoom
        /\ Checkpoint(xid, FreeA)
        /\ vmap' = vmap \cup {Entry(o, xid, FreeB)}
        /\ disk' = [disk EXCEPT
                      ![FreeA] = Blk("fs", xid, VolOmap, r, disk[LiveSb.paddr].snap, 0),
                      ![FreeB] = Blk("node", xid, 0, 0, 0, xid)]
        /\ history' = [x \in DOMAIN history \cup {xid} |->
                          IF x = xid
                          THEN [root |-> r, ver |-> [LiveState.ver EXCEPT ![o] = xid]]
                          ELSE history[x]]
        /\ snaps' = snaps /\ damaged' = damaged
  BY DEF Commit, Writing
<1>a. PICK xid : xid = nx.xid + 1
  OBVIOUS
<1>s. PICK sa : sa = disk[LiveSb.paddr].snap
  OBVIOUS
<1>1. /\ nx.xid < MaxXid /\ HasRoom
      /\ Checkpoint(xid, FreeA)
      /\ vmap' = vmap \cup {Entry(o, xid, FreeB)}
      /\ disk' = [disk EXCEPT ![FreeA] = Blk("fs", xid, VolOmap, r, sa, 0),
                              ![FreeB] = Blk("node", xid, 0, 0, 0, xid)]
      /\ history' = [x \in DOMAIN history \cup {xid} |->
                        IF x = xid
                        THEN [root |-> r, ver |-> [LiveState.ver EXCEPT ![o] = xid]]
                        ELSE history[x]]
      /\ snaps' = snaps /\ damaged' = damaged
  BY <1>a, <1>b, <1>s
<1> DEFINE n == Entry(o, xid, FreeB)
           h == [root |-> r, ver |-> [LiveState.ver EXCEPT ![o] = xid]]
<1>2. /\ FreeA \in 0 .. MaxAddr /\ FreeB \in 0 .. MaxAddr
  BY <1>1, FreshBlocks
<1>3. /\ MapInv' /\ LiveSb' = Entry(VolOid, xid, FreeA)
  BY <1>0, <1>a, <1>1, <1>2, CheckpointMap
<1>4. LiveSb'.xid = xid /\ LiveSb'.paddr = FreeA
  BY <1>3 DEF Entry
<1>5. /\ xid \in Nat /\ r \in Nat /\ LiveSb.xid \in Nat /\ LiveSb.xid < xid
      /\ VolOmap \in Nat /\ 0 \in Nat /\ sa \in 0 .. MaxAddr /\ sa \in Nat
  BY <1>0, <1>a, <1>s, LiveEntry, MountAssumption DEF MapInv, VolOmap, DiskInv
<1>6. /\ h \in [root : Nat, ver : [Oids -> Nat]]
      /\ h.root = r /\ h.ver[o] = xid
      /\ \A p \in Oids : p # o => h.ver[p] = history[LiveSb.xid].ver[p]
  <2>1. LiveState.ver \in [Oids -> Nat] /\ LiveState = history[LiveSb.xid]
    BY <1>0, LiveStateIs
  <2> QED
    BY <1>5, <2>1
<1>7. /\ n.oid = o /\ n.xid = xid /\ n.paddr = FreeB
      /\ n \in [oid : Oids, xid : Nat, paddr : 0 .. MaxAddr]
  BY <1>2, <1>5 DEF Entry
<1>8. vmap' = vmap \cup {n} /\ Checkpoint(xid, FreeA)
  BY <1>1
<1>9. /\ HistoryInv'
      /\ xid \in DOMAIN history' /\ history'[xid] = h
      /\ \A x \in DOMAIN history :
           /\ x \in DOMAIN history' /\ history'[x] = history[x]
           /\ x \in Nat /\ x <= LiveSb.xid /\ x < xid
  <2>1. history' = [x \in DOMAIN history \cup {nx.xid + 1} |->
                         IF x = nx.xid + 1 THEN h ELSE history[x]]
    BY <1>a, <1>1
  <2>2. LiveSb'.xid = nx.xid + 1
    BY <1>a, <1>4
  <2> HIDE DEF h
  <2> QED
    BY <1>0, <1>a, <1>6, <2>1, <2>2, HistoryStep
<1>10. /\ disk' \in [0 .. MaxAddr -> Block]
       /\ \A a \in {NxOmap, VolOmap} : disk'[a].type = "omap"
       /\ disk'[FreeA] = Blk("fs", xid, VolOmap, r, sa, 0)
       /\ disk'[FreeB] = Blk("node", xid, 0, 0, 0, xid)
       /\ \A s \in snaps : disk'[s.sblock] = disk[s.sblock]
       /\ \A e \in vmap : disk'[e.paddr] = disk[e.paddr]
       /\ damaged = {} => \A a \in 0 .. MaxAddr : disk'[a].cksum = TRUE
  <2>1. /\ Blk("fs", xid, VolOmap, r, sa, 0) \in Block
        /\ Blk("fs", xid, VolOmap, r, sa, 0).cksum = TRUE
    BY <1>5 DEF Blk, Block
  <2>2. /\ Blk("node", xid, 0, 0, 0, xid) \in Block
        /\ Blk("node", xid, 0, 0, 0, xid).cksum = TRUE
    BY <1>5 DEF Blk, Block
  <2>3. /\ FreeA # FreeB /\ {FreeA, FreeB} \in SUBSET FreeBlocks
        /\ disk \in [0 .. MaxAddr -> Block]
    BY <1>0, <1>1, FreshBlocks DEF DiskInv
  <2>4. /\ disk' \in [0 .. MaxAddr -> Block]
        /\ disk'[FreeA] = Blk("fs", xid, VolOmap, r, sa, 0)
        /\ disk'[FreeB] = Blk("node", xid, 0, 0, 0, xid)
        /\ \A a \in 0 .. MaxAddr : a \notin {FreeA, FreeB} => disk'[a] = disk[a]
    BY <1>1, <1>2, <2>1, <2>2, <2>3
  <2>5. \A a \in {FreeA, FreeB} : disk'[a].cksum = TRUE
    BY <2>1, <2>2, <2>4
  <2> QED
    BY <1>0, <2>3, <2>4, <2>5, DiskStep
<1> HIDE DEF n, h
<1>11. DiskInv'
  <2>1. /\ disk'[FreeA].type = "fs" /\ disk'[FreeA].magic = TRUE
        /\ disk'[FreeA].xid = xid /\ disk'[FreeA].root = r
        /\ disk'[FreeA].omap = VolOmap /\ disk'[FreeA].snap \in 0 .. MaxAddr
    BY <1>5, <1>10 DEF Blk
  <2>2. /\ AsOf(disk[LiveSb.paddr], LiveSb.xid)' /\ disk'[LiveSb'.paddr].omap = VolOmap
        /\ disk'[LiveSb'.paddr].snap \in 0 .. MaxAddr
    BY <1>4, <1>6, <1>9, <2>1 DEF AsOf
  <2>3. \A s \in snaps' : /\ s.sblock \in 0 .. MaxAddr /\ s.xid \in DOMAIN history'
                          /\ AsOf(disk[s.sblock], s.xid)'
    <3>1. \A s \in snaps : /\ s.sblock \in 0 .. MaxAddr /\ s.xid \in DOMAIN history
                           /\ AsOf(disk[s.sblock], s.xid)
      BY <1>0 DEF DiskInv
    <3> QED
      BY <1>1, <1>9, <1>10, <3>1 DEF AsOf
  <2> QED
    BY <1>1, <1>10, <2>2, <2>3 DEF DiskInv
<1>12. \A e \in vmap' : e.xid <= LiveSb'.xid /\ disk'[e.paddr].ver = e.xid
  <2>1. disk'[FreeB].ver = xid
    BY <1>10 DEF Blk
  <2>2. \A e \in vmap : e.xid \in Nat /\ e.xid <= LiveSb.xid /\ disk[e.paddr].ver = e.xid
    BY <1>0 DEF NodesInv
  <2> QED
    BY <1>4, <1>5, <1>7, <1>8, <1>10, <2>1, <2>2
<1>13. \A e \in vmap : e.xid \in Nat /\ e.xid <= LiveSb.xid /\ e.xid < xid
  BY <1>0, <1>5 DEF NodesInv
<1>14. ASSUME NEW p \in Oids PROVE Shows(vmap, xid, p)'
  <2>1. CASE p = o
    <3>1. n.xid \in Nat /\ n.xid <= xid
      BY <1>5, <1>7
    <3>2. \A e \in vmap : e.oid = n.oid => e.xid \in Nat /\ e.xid < n.xid
      BY <1>7, <1>13
    <3>3. VM!Floor(vmap \cup {n}, n.oid, xid) = {n}
      BY <1>5, <3>1, <3>2, FloorOfNew
    <3>4. VM!Floor(vmap', p, xid) = {n} /\ n \in vmap'
      BY <1>7, <1>8, <2>1, <3>3
    <3>5. n.xid = history'[xid].ver[p]
      BY <1>6, <1>7, <1>9, <2>1
    <3> QED
      BY <3>4, <3>5 DEF Shows
  <2>2. CASE p # o
    <3>1. PICK e \in vmap : /\ VM!Floor(vmap, p, LiveSb.xid) = {e}
                            /\ e.xid = history[LiveSb.xid].ver[p]
      BY <1>0 DEF NodesInv, Points, Shows
    <3>2. VM!Floor(vmap, p, xid) = {e}
      BY <1>5, <1>13, <3>1, FloorLater
    <3>3. VM!Floor(vmap \cup {n}, p, xid) = {e}
      BY <1>7, <2>2, <3>2, FloorOfOld
    <3>4. VM!Floor(vmap', p, xid) = {e} /\ e \in vmap'
      BY <1>8, <3>3
    <3>5. e.xid = history'[xid].ver[p]
      BY <1>6, <1>9, <2>2, <3>1
    <3> QED
      BY <3>4, <3>5 DEF Shows
  <2> QED
    BY <2>1, <2>2
<1>15. ASSUME NEW s \in snaps, NEW p \in Oids PROVE Shows(vmap, s.xid, p)'
  <2>1. PICK e \in vmap : /\ VM!Floor(vmap, p, s.xid) = {e}
                          /\ e.xid = history[s.xid].ver[p]
    BY <1>0 DEF NodesInv, Points, Shows
  <2>2. s.xid \in DOMAIN history
    BY <1>0 DEF DiskInv
  <2>3. s.xid \in Nat /\ s.xid < xid /\ history'[s.xid] = history[s.xid]
    BY <1>9, <2>2
  <2>4. VM!Floor(vmap \cup {n}, p, s.xid) = {e}
    <3>1. ~(n.xid <= s.xid)
      BY <1>5, <1>7, <2>3
    <3> QED
      BY <2>1, <3>1, FloorOfOld
  <2> QED
    BY <1>8, <2>1, <2>3, <2>4 DEF Shows
<1>16. vmap' \subseteq [oid : Oids, xid : Nat, paddr : 0 .. MaxAddr]
  BY <1>0, <1>7, <1>8 DEF NodesInv
<1>17. \A x \in Points', p \in Oids : Shows(vmap, x, p)'
  <2>1. \A x \in Points' : x = xid \/ \E s \in snaps : x = s.xid
    BY <1>1, <1>4 DEF Points
  <2> QED
    BY <1>14, <1>15, <2>1
<1>18. NodesInv'
  BY <1>12, <1>16, <1>17 DEF NodesInv
<1> QED
  BY <1>3, <1>9, <1>11, <1>18 DEF ImageInv

\* Taking a snapshot preserves the image: nothing is in the map since the
\* live transaction, so the new one shows the same nodes.
LEMMA TakeSnapshotStep == ImageInv /\ TakeSnapshot => ImageInv'
<1> SUFFICES ASSUME ImageInv, TakeSnapshot PROVE ImageInv'
  OBVIOUS
<1>0. MapInv /\ HistoryInv /\ DiskInv /\ NodesInv
  BY DEF ImageInv
<1>b. LET xid == nx.xid + 1
          root == LiveState.root
      IN  /\ nx.xid < MaxXid /\ HasRoom
          /\ Checkpoint(xid, FreeA)
          /\ \E c \in FreeBlocks \ {FreeA, FreeB} :
                disk' = [disk EXCEPT ![FreeA] = Blk("fs", xid, VolOmap, root, c, 0),
                                     ![FreeB] = Blk("fs", xid, 0, root, 0, 0),
                                     ![c] = Blk("node", xid, 0, 0, 0, xid)]
          /\ snaps' = snaps \cup {[xid |-> xid, sblock |-> FreeB]}
          /\ history' = [x \in DOMAIN history \cup {xid} |->
                            IF x = xid THEN LiveState ELSE history[x]]
          /\ vmap' = vmap /\ damaged' = damaged
  BY DEF TakeSnapshot, Writing
<1>a. PICK xid : xid = nx.xid + 1
  OBVIOUS
<1>h. PICK h : h = LiveState
  OBVIOUS
<1>c. PICK c \in FreeBlocks \ {FreeA, FreeB} :
        disk' = [disk EXCEPT ![FreeA] = Blk("fs", xid, VolOmap, h.root, c, 0),
                             ![FreeB] = Blk("fs", xid, 0, h.root, 0, 0),
                             ![c] = Blk("node", xid, 0, 0, 0, xid)]
  BY <1>a, <1>b, <1>h
<1>1. /\ nx.xid < MaxXid /\ HasRoom
      /\ Checkpoint(xid, FreeA)
      /\ snaps' = snaps \cup {[xid |-> xid, sblock |-> FreeB]}
      /\ history' = [x \in DOMAIN history \cup {xid} |->
                        IF x = xid THEN h ELSE history[x]]
      /\ vmap' = vmap /\ damaged' = damaged
  BY <1>a, <1>b, <1>h
<1>2. /\ FreeA \in 0 .. MaxAddr /\ FreeB \in 0 .. MaxAddr /\ c \in 0 .. MaxAddr
      /\ c \in Nat
  BY <1>1, <1>c, FreshBlocks, MountAssumption DEF FreeBlocks
<1>3. /\ MapInv' /\ LiveSb' = Entry(VolOid, xid, FreeA)
  BY <1>0, <1>a, <1>1, <1>2, CheckpointMap
<1>4. LiveSb'.xid = xid /\ LiveSb'.paddr = FreeA
  BY <1>3 DEF Entry
<1>5. /\ xid \in Nat /\ LiveSb.xid \in Nat /\ LiveSb.xid < xid
      /\ VolOmap \in Nat /\ 0 \in Nat
  BY <1>0, <1>a, LiveEntry DEF MapInv, VolOmap
<1>6. /\ h \in [root : Nat, ver : [Oids -> Nat]] /\ h.root \in Nat
      /\ h = history[LiveSb.xid]
  BY <1>0, <1>h, LiveStateIs
<1>9. /\ HistoryInv'
      /\ xid \in DOMAIN history' /\ history'[xid] = h
      /\ \A x \in DOMAIN history :
           /\ x \in DOMAIN history' /\ history'[x] = history[x]
           /\ x \in Nat /\ x <= LiveSb.xid /\ x < xid
  <2>1. history' = [x \in DOMAIN history \cup {nx.xid + 1} |->
                         IF x = nx.xid + 1 THEN h ELSE history[x]]
    BY <1>a, <1>1
  <2>2. LiveSb'.xid = nx.xid + 1
    BY <1>a, <1>4
  <2> QED
    BY <1>0, <1>a, <1>6, <2>1, <2>2, HistoryStep
<1>10. /\ disk' \in [0 .. MaxAddr -> Block]
       /\ \A a \in {NxOmap, VolOmap} : disk'[a].type = "omap"
       /\ disk'[FreeA] = Blk("fs", xid, VolOmap, h.root, c, 0)
       /\ disk'[FreeB] = Blk("fs", xid, 0, h.root, 0, 0)
       /\ \A s \in snaps : disk'[s.sblock] = disk[s.sblock]
       /\ \A e \in vmap : disk'[e.paddr] = disk[e.paddr]
       /\ damaged = {} => \A a \in 0 .. MaxAddr : disk'[a].cksum = TRUE
  <2>1. /\ Blk("fs", xid, VolOmap, h.root, c, 0) \in Block
        /\ Blk("fs", xid, VolOmap, h.root, c, 0).cksum = TRUE
    BY <1>2, <1>5, <1>6 DEF Blk, Block
  <2>2. /\ Blk("fs", xid, 0, h.root, 0, 0) \in Block
        /\ Blk("fs", xid, 0, h.root, 0, 0).cksum = TRUE
    BY <1>5, <1>6 DEF Blk, Block
  <2>3. /\ Blk("node", xid, 0, 0, 0, xid) \in Block
        /\ Blk("node", xid, 0, 0, 0, xid).cksum = TRUE
    BY <1>5 DEF Blk, Block
  <2>4. /\ FreeA # FreeB /\ FreeA # c /\ FreeB # c
        /\ {FreeA, FreeB, c} \in SUBSET FreeBlocks
        /\ disk \in [0 .. MaxAddr -> Block]
    BY <1>0, <1>1, <1>c, FreshBlocks DEF DiskInv
  <2>5. /\ disk' \in [0 .. MaxAddr -> Block]
        /\ disk'[FreeA] = Blk("fs", xid, VolOmap, h.root, c, 0)
        /\ disk'[FreeB] = Blk("fs", xid, 0, h.root, 0, 0)
        /\ disk'[c] = Blk("node", xid, 0, 0, 0, xid)
        /\ \A a \in 0 .. MaxAddr : a \notin {FreeA, FreeB, c} => disk'[a] = disk[a]
    BY <1>c, <1>2, <2>1, <2>2, <2>3, <2>4
  <2>6. \A a \in {FreeA, FreeB, c} : disk'[a].cksum = TRUE
    BY <2>1, <2>2, <2>3, <2>5
  <2> QED
    BY <1>0, <2>4, <2>5, <2>6, DiskStep
<1>11. DiskInv'
  <2>1. /\ disk'[FreeA].type = "fs" /\ disk'[FreeA].magic = TRUE
        /\ disk'[FreeA].xid = xid /\ disk'[FreeA].root = h.root
        /\ disk'[FreeA].omap = VolOmap /\ disk'[FreeA].snap = c
    BY <1>10 DEF Blk
  <2>2. /\ AsOf(disk[LiveSb.paddr], LiveSb.xid)' /\ disk'[LiveSb'.paddr].omap = VolOmap
        /\ disk'[LiveSb'.paddr].snap \in 0 .. MaxAddr
    BY <1>2, <1>4, <1>9, <2>1 DEF AsOf
  <2>3. \A s \in snaps : /\ s.sblock \in 0 .. MaxAddr /\ s.xid \in DOMAIN history'
                         /\ AsOf(disk[s.sblock], s.xid)'
    <3>1. \A s \in snaps : /\ s.sblock \in 0 .. MaxAddr /\ s.xid \in DOMAIN history
                           /\ AsOf(disk[s.sblock], s.xid)
      BY <1>0 DEF DiskInv
    <3> QED
      BY <1>9, <1>10, <3>1 DEF AsOf
  <2>4. ASSUME NEW s, s = [xid |-> xid, sblock |-> FreeB]
        PROVE  /\ s.sblock \in 0 .. MaxAddr /\ s.xid \in DOMAIN history'
               /\ AsOf(disk[s.sblock], s.xid)'
    <3>1. s.xid = xid /\ s.sblock = FreeB
      BY <2>4
    <3>2. /\ disk'[FreeB].type = "fs" /\ disk'[FreeB].magic = TRUE
          /\ disk'[FreeB].xid = xid /\ disk'[FreeB].root = h.root
      BY <1>10 DEF Blk
    <3> QED
      BY <1>2, <1>9, <3>1, <3>2 DEF AsOf
  <2>5. \A s \in snaps' : /\ s.sblock \in 0 .. MaxAddr /\ s.xid \in DOMAIN history'
                          /\ AsOf(disk[s.sblock], s.xid)'
    BY <1>1, <2>3, <2>4
  <2> QED
    BY <1>1, <1>10, <2>2, <2>5 DEF DiskInv
<1>13. \A e \in vmap : /\ e.xid \in Nat /\ e.xid <= LiveSb.xid /\ e.xid < xid
                       /\ disk[e.paddr].ver = e.xid
  BY <1>0, <1>5 DEF NodesInv
<1>12. \A e \in vmap' : e.xid <= LiveSb'.xid /\ disk'[e.paddr].ver = e.xid
  <2>1. vmap' = vmap /\ \A e \in vmap : disk'[e.paddr] = disk[e.paddr]
    BY <1>1, <1>10
  <2> QED
    BY <1>4, <1>5, <1>13, <2>1
<1>14. ASSUME NEW p \in Oids PROVE Shows(vmap, xid, p)'
  <2>1. PICK e \in vmap : /\ VM!Floor(vmap, p, LiveSb.xid) = {e}
                          /\ e.xid = history[LiveSb.xid].ver[p]
    BY <1>0 DEF NodesInv, Points, Shows
  <2>2. VM!Floor(vmap, p, xid) = {e}
    BY <1>5, <1>13, <2>1, FloorLater
  <2>3. e.xid = history'[xid].ver[p]
    BY <1>6, <1>9, <2>1
  <2> QED
    BY <1>1, <2>2, <2>3 DEF Shows
<1>15. ASSUME NEW s \in snaps, NEW p \in Oids PROVE Shows(vmap, s.xid, p)'
  <2>1. PICK e \in vmap : /\ VM!Floor(vmap, p, s.xid) = {e}
                          /\ e.xid = history[s.xid].ver[p]
    BY <1>0 DEF NodesInv, Points, Shows
  <2>2. s.xid \in DOMAIN history
    BY <1>0 DEF DiskInv
  <2>3. history'[s.xid] = history[s.xid]
    BY <1>9, <2>2
  <2> QED
    BY <1>1, <2>1, <2>3 DEF Shows
<1>17. \A x \in Points', p \in Oids : Shows(vmap, x, p)'
  <2>1. \A x \in Points' : x = xid \/ \E s \in snaps : x = s.xid
    BY <1>1, <1>4 DEF Points
  <2> QED
    BY <1>14, <1>15, <2>1
<1>18. NodesInv'
  BY <1>0, <1>1, <1>12, <1>17 DEF NodesInv
<1> QED
  BY <1>3, <1>9, <1>11, <1>18 DEF ImageInv

\* With the container's map and its floor the same, the live superblock is.
LEMMA SameLive ==
    ASSUME MapInv, cmap' = cmap,
           VM!Floor(cmap, VolOid, nx'.xid) = VM!Floor(cmap, VolOid, nx.xid)
    PROVE  LiveSb' = LiveSb
BY DEF LiveSb

\* A transaction of another volume, and the deletion of a snapshot, preserve
\* the image.
LEMMA QuietSteps == ImageInv /\ (CommitElsewhere \/ DeleteSnapshot) => ImageInv'
<1> SUFFICES ASSUME ImageInv, CommitElsewhere \/ DeleteSnapshot PROVE ImageInv'
  OBVIOUS
<1>0. MapInv /\ HistoryInv /\ DiskInv /\ NodesInv
  BY DEF ImageInv
<1>1. /\ cmap' = cmap /\ vmap' = vmap /\ disk' = disk /\ history' = history
      /\ damaged' = damaged /\ snaps' \subseteq snaps
  BY DEF CommitElsewhere, DeleteSnapshot
<1>2. /\ nx'.xid \in 1 .. MaxXid /\ nx.xid \in Nat /\ nx'.xid \in Nat
      /\ nx.xid <= nx'.xid /\ \E s \in Supers : nx' = Found(s, nx'.xid)
  <2>1. PICK s \in Supers : nx = Found(s, nx.xid)
    BY <1>0 DEF MapInv
  <2>2. CASE CommitElsewhere
    <3>1. nx' = [nx EXCEPT !.xid = @ + 1] /\ nx.xid < MaxXid
      BY <2>2 DEF CommitElsewhere, Writing
    <3>2. nx'.xid = nx.xid + 1 /\ nx' = Found(s, nx'.xid)
      BY <2>1, <3>1 DEF Found
    <3> QED
      BY <1>0, <3>1, <3>2, MountAssumption DEF MapInv
  <2>3. CASE DeleteSnapshot
    <3>1. nx' = nx
      BY <2>3 DEF DeleteSnapshot
    <3> QED
      BY <1>0, <3>1 DEF MapInv
  <2> QED
    BY <2>2, <2>3
<1>3. \A o : VM!Floor(cmap, o, nx'.xid) = VM!Floor(cmap, o, nx.xid)
  <2>1. \A e \in cmap : e.xid \in Nat /\ e.xid <= nx.xid
    BY <1>0 DEF MapInv
  <2> QED
    BY <1>2, <2>1, FloorLater
<1>4. LiveSb' = LiveSb
  BY <1>0, <1>1, <1>3, SameLive
<1>5. MapInv'
  <2>1. \A e \in cmap : e.xid <= nx'.xid
    BY <1>0, <1>2 DEF MapInv
  <2> QED
    BY <1>0, <1>1, <1>2, <1>3, <1>4, <2>1 DEF MapInv
<1>6. HistoryInv' /\ DiskInv'
  BY <1>0, <1>1, <1>4 DEF HistoryInv, DiskInv, AsOf
<1>7. NodesInv'
  <2>1. Points' \subseteq Points
    BY <1>1, <1>4 DEF Points
  <2>2. \A x, o : Shows(vmap, x, o)' <=> Shows(vmap, x, o)
    BY <1>1 DEF Shows
  <2> QED
    BY <1>0, <1>1, <1>4, <2>1, <2>2 DEF NodesInv
<1> QED
  BY <1>5, <1>6, <1>7 DEF ImageInv

\* Dropping every entry that no mountable transaction resolves to preserves
\* the image.
LEMMA ReclaimStep == ImageInv /\ Reclaim => ImageInv'
<1> SUFFICES ASSUME ImageInv, Reclaim PROVE ImageInv'
  OBVIOUS
<1>0. MapInv /\ HistoryInv /\ DiskInv /\ NodesInv
  BY DEF ImageInv
<1>1. /\ cmap' = cmap /\ vmap' = Pinned /\ disk' = disk /\ history' = history
      /\ damaged' = damaged /\ snaps' = snaps /\ nx' = nx
  BY DEF Reclaim
<1>2. LiveSb' = LiveSb
  BY <1>0, <1>1, SameLive
<1>3. MapInv' /\ HistoryInv' /\ DiskInv'
  BY <1>0, <1>1, <1>2 DEF MapInv, HistoryInv, DiskInv, AsOf
<1>4. Pinned \subseteq vmap
  BY FloorEntry DEF Pinned
<1>5. \A e \in vmap : e.xid \in Nat /\ e.xid <= LiveSb.xid
  BY <1>0 DEF NodesInv
<1>6. ASSUME NEW x \in Points, NEW o \in Oids PROVE Shows(vmap, x, o)'
  <2>1. PICK e \in vmap : VM!Floor(vmap, o, x) = {e} /\ e.xid = history[x].ver[o]
    BY <1>0 DEF NodesInv, Shows
  <2>2. e \in Pinned
    <3>1. CASE x = LiveSb.xid
      <4>1. VM!Floor(vmap, o, nx.xid) = VM!Floor(vmap, o, x)
        <5>1. x \in Nat /\ nx.xid \in Nat /\ x <= nx.xid
          BY <1>0, <3>1, LiveEntry DEF MapInv
        <5> QED
          BY <1>5, <3>1, <5>1, FloorLater
      <4> QED
        BY <2>1, <4>1 DEF Pinned
    <3>2. CASE x \in {s.xid : s \in snaps}
      BY <2>1, <3>2 DEF Pinned
    <3> QED
      BY <3>1, <3>2 DEF Points
  <2>3. VM!Floor(Pinned, o, x) = {e}
    BY <1>4, <1>5, <2>1, <2>2, FloorOfPart
  <2> QED
    BY <1>1, <2>1, <2>2, <2>3 DEF Shows
<1>7. Points' = Points
  BY <1>1, <1>2 DEF Points
<1>8. NodesInv'
  BY <1>0, <1>1, <1>2, <1>4, <1>6, <1>7 DEF NodesInv
<1> QED
  BY <1>3, <1>8 DEF ImageInv

\* Handing the image over preserves it, but for a checksum.
LEMMA HandOverStep == ImageInv /\ damaged = {} /\ HandOver => ImageInv'
<1> SUFFICES ASSUME ImageInv, damaged = {}, HandOver PROVE ImageInv'
  OBVIOUS
<1>0. MapInv /\ HistoryInv /\ DiskInv /\ NodesInv
  BY DEF ImageInv
<1>1. /\ cmap' = cmap /\ vmap' = vmap /\ history' = history /\ snaps' = snaps
      /\ disk' = [a \in DOMAIN disk |->
                   IF a \in damaged' THEN [disk[a] EXCEPT !.cksum = FALSE]
                   ELSE disk[a]]
  BY DEF HandOver
<1>2. nx'.xid = nx.xid /\ \E s \in Supers : nx' = Found(s, nx'.xid)
  <2>1. CASE nx' = nx
    BY <1>0, <2>1 DEF MapInv
  <2>2. CASE nx' \in {Found(s, nx.xid) : s \in OddSupers}
    BY <2>2 DEF Found, Supers
  <2> QED
    BY <2>1, <2>2 DEF HandOver
<1>3. LiveSb' = LiveSb
  BY <1>0, <1>1, <1>2, SameLive
<1>4. MapInv'
  BY <1>0, <1>1, <1>2, <1>3 DEF MapInv
<1>5. HistoryInv'
  BY <1>0, <1>1, <1>3 DEF HistoryInv
<1>6. /\ DOMAIN disk = 0 .. MaxAddr
      /\ \A a \in 0 .. MaxAddr : disk[a] \in Block
  BY <1>0 DEF DiskInv
<1>7. \A a \in 0 .. MaxAddr :
        /\ disk'[a] \in Block
        /\ disk'[a].type = disk[a].type /\ disk'[a].magic = disk[a].magic
        /\ disk'[a].xid = disk[a].xid /\ disk'[a].omap = disk[a].omap
        /\ disk'[a].root = disk[a].root /\ disk'[a].ver = disk[a].ver
        /\ disk'[a].snap = disk[a].snap
        /\ a \notin damaged' => disk'[a] = disk[a]
  BY <1>1, <1>6 DEF Block
<1>8. disk' \in [0 .. MaxAddr -> Block]
  BY <1>1, <1>6, <1>7
<1>9. damaged' = {} => \A a \in 0 .. MaxAddr : disk'[a].cksum = TRUE
  <2>1. damaged = {} => \A a \in 0 .. MaxAddr : disk[a].cksum = TRUE
    BY <1>0 DEF DiskInv
  <2> QED
    BY <1>7, <2>1
<1>10. NxOmap \in 0 .. MaxAddr /\ VolOmap \in 0 .. MaxAddr
  BY OmapBlocks
<1>11. DiskInv'
  <2>1. \A a \in {NxOmap, VolOmap} : disk'[a].type = "omap"
    BY <1>0, <1>7, <1>10 DEF DiskInv
  <2>2. LiveSb.paddr \in 0 .. MaxAddr
    BY <1>0, LiveEntry
  <2>3. /\ AsOf(disk[LiveSb.paddr], LiveSb.xid)'
        /\ disk'[LiveSb'.paddr].omap = VolOmap
        /\ disk'[LiveSb'.paddr].snap \in 0 .. MaxAddr
    BY <1>0, <1>1, <1>3, <1>7, <2>2 DEF DiskInv, AsOf
  <2>4. \A s \in snaps' : /\ s.sblock \in 0 .. MaxAddr /\ s.xid \in DOMAIN history'
                          /\ AsOf(disk[s.sblock], s.xid)'
    BY <1>0, <1>1, <1>7 DEF DiskInv, AsOf
  <2> QED
    BY <1>8, <1>9, <2>1, <2>3, <2>4 DEF DiskInv
<1>12. NodesInv'
  <2>1. Points' = Points
    BY <1>1, <1>3 DEF Points
  <2>2. \A x, o : Shows(vmap, x, o)' <=> Shows(vmap, x, o)
    BY <1>1 DEF Shows
  <2>3. \A e \in vmap : e.paddr \in 0 .. MaxAddr
    BY <1>0 DEF NodesInv
  <2> QED
    BY <1>0, <1>1, <1>3, <1>7, <2>1, <2>2, <2>3 DEF NodesInv
<1> QED
  BY <1>4, <1>5, <1>11, <1>12 DEF ImageInv

\* A step of the reader leaves the image as it is.
LEMMA SameImage ==
    ASSUME ImageInv, UNCHANGED image, damaged' = damaged
    PROVE  /\ ImageInv' /\ LiveSb' = LiveSb /\ Points' = Points /\ Volumes' = Volumes
           /\ nx' = nx /\ cmap' = cmap /\ vmap' = vmap /\ disk' = disk
           /\ snaps' = snaps /\ history' = history
<1>0. MapInv /\ HistoryInv /\ DiskInv /\ NodesInv
  BY DEF ImageInv
<1>1. /\ nx' = nx /\ cmap' = cmap /\ vmap' = vmap /\ disk' = disk
      /\ snaps' = snaps /\ history' = history
  BY DEF image
<1>2. LiveSb' = LiveSb
  BY <1>0, <1>1, SameLive
<1>3. Points' = Points /\ Volumes' = Volumes
  BY <1>1, <1>2 DEF Points, Volumes
<1>4. MapInv' /\ HistoryInv' /\ DiskInv'
  BY <1>0, <1>1, <1>2 DEF MapInv, HistoryInv, DiskInv, AsOf
<1>5. \A x, o : Shows(vmap, x, o)' <=> Shows(vmap, x, o)
  BY <1>1 DEF Shows
<1>6. NodesInv'
  BY <1>0, <1>1, <1>2, <1>3, <1>5 DEF NodesInv
<1> QED
  BY <1>1, <1>2, <1>3, <1>4, <1>6 DEF ImageInv

\* A freshly formatted container satisfies it.
LEMMA InitImage == Init => ImageInv
<1> SUFFICES ASSUME Init PROVE ImageInv
  OBVIOUS
<1> DEFINE n == Entry(VolOid, 1, 4)
           m == Entry(Neighbour, 1, NeighbourAddr)
<1>1. /\ n.oid = VolOid /\ n.xid = 1 /\ n.paddr = 4
      /\ m.oid = Neighbour /\ m.xid = 1 /\ m.paddr = NeighbourAddr
      /\ VolOid # Neighbour
      /\ {n, m} \subseteq [oid : {VolOid, Neighbour}, xid : Nat, paddr : 0 .. MaxAddr]
  BY OmapBlocks, MountAssumption DEF Entry, Neighbour
<1>2. nx = Found(Super, 1) /\ nx.xid = 1 /\ cmap = {n, m}
  BY DEF Init, Found
<1> HIDE DEF n, m
<1>3. /\ VM!Floor(cmap, VolOid, nx.xid) = {n}
      /\ VM!Floor(cmap, Neighbour, nx.xid) # {}
  BY <1>1, <1>2 DEF VM!Floor, VM!Versions
<1>4. LiveSb = n
  BY <1>3 DEF LiveSb
<1>5. MapInv
  <2>1. \A e \in cmap : e.xid <= nx.xid
    BY <1>1, <1>2
  <2>2. \E s \in Supers : nx = Found(s, nx.xid)
    BY <1>2 DEF Supers
  <2>3. nx.xid \in 1 .. MaxXid
    BY <1>2, MountAssumption
  <2> QED
    BY <1>1, <1>2, <1>3, <1>4, <2>1, <2>2, <2>3 DEF MapInv
<1>6. FirstRoot \in Nat
  BY MountAssumption DEF FirstRoot
<1>7. /\ DOMAIN history = {1} /\ history[1].root = FirstRoot
      /\ history[1] \in [root : Nat, ver : [Oids -> Nat]]
      /\ \A o \in Oids : history[1].ver[o] = 1
  BY <1>6 DEF Init
<1>8. HistoryInv
  BY <1>1, <1>4, <1>7 DEF HistoryInv
<1>9. /\ disk \in [0 .. MaxAddr -> Block]
      /\ disk[NxOmap].type = "omap" /\ disk[VolOmap].type = "omap"
      /\ disk[4] = Blk("fs", 1, VolOmap, FirstRoot, FirstSnap, 0)
      /\ \A a \in 0 .. MaxAddr : disk[a].cksum = TRUE
      /\ \A a \in 0 .. MaxAddr : a > 4 => disk[a].ver = 1
  <2> DEFINE D(a) == CASE a \in {NxOmap, VolOmap} -> Blk("omap", 1, 0, 0, 0, 0)
                       [] a = 4 -> Blk("fs", 1, VolOmap, FirstRoot, FirstSnap, 0)
                       [] a = NeighbourAddr -> Blk("fs", 1, 0, 0, 0, 0)
                       [] a = 0 -> Blk("nxsb", 1, 0, 0, 0, 0)
                       [] OTHER -> Blk("node", 1, 0, 0, 0, 1)
  <2>1. disk = [a \in 0 .. MaxAddr |-> D(a)]
    BY DEF Init
  <2>2. ASSUME NEW a \in 0 .. MaxAddr
        PROVE  /\ D(a) \in Block /\ D(a).cksum = TRUE
               /\ a \in {NxOmap, VolOmap} => D(a).type = "omap"
               /\ a = 4 => D(a) = Blk("fs", 1, VolOmap, FirstRoot, FirstSnap, 0)
               /\ a > 4 => D(a).ver = 1
    <3>1. CASE a \in {NxOmap, VolOmap}
      <4>1. D(a) = Blk("omap", 1, 0, 0, 0, 0) /\ a # 4 /\ ~(a > 4)
        BY <3>1 DEF NxOmap, VolOmap, NeighbourAddr
      <4> HIDE DEF D
      <4> QED
        BY <4>1 DEF Blk, Block
    <3>2. CASE a = 4
      <4>1. /\ D(a) = Blk("fs", 1, VolOmap, FirstRoot, FirstSnap, 0) /\ ~(a > 4)
            /\ a \notin {NxOmap, VolOmap}
        BY <3>2 DEF NxOmap, VolOmap, NeighbourAddr
      <4>2. /\ Blk("fs", 1, VolOmap, FirstRoot, FirstSnap, 0) \in Block
            /\ Blk("fs", 1, VolOmap, FirstRoot, FirstSnap, 0).cksum = TRUE
        BY <1>6 DEF Blk, Block, VolOmap, FirstSnap
      <4> HIDE DEF D
      <4> QED
        BY <4>1, <4>2
    <3>3. CASE a = NeighbourAddr
      <4>1. D(a) = Blk("fs", 1, 0, 0, 0, 0) /\ a = 3 /\ a \notin {NxOmap, VolOmap}
        BY <3>3 DEF NxOmap, VolOmap, NeighbourAddr
      <4> HIDE DEF D
      <4> QED
        BY <4>1 DEF Blk, Block
    <3>4. CASE a = 0
      <4>1. /\ D(a) = Blk("nxsb", 1, 0, 0, 0, 0) /\ ~(a > 4) /\ a # 4
            /\ a \notin {NxOmap, VolOmap}
        BY <3>4 DEF NxOmap, VolOmap, NeighbourAddr
      <4> HIDE DEF D
      <4> QED
        BY <4>1 DEF Blk, Block
    <3>5. CASE a \notin {NxOmap, VolOmap, 4, NeighbourAddr, 0}
      <4>1. D(a) = Blk("node", 1, 0, 0, 0, 1)
        BY <3>5
      <4> HIDE DEF D
      <4> QED
        BY <3>5, <4>1 DEF Blk, Block
    <3> QED
      BY <3>1, <3>2, <3>3, <3>4, <3>5
  <2> HIDE DEF D
  <2> QED
    BY <2>1, <2>2, OmapBlocks
<1>10. DiskInv
  <2>1. /\ disk[4].type = "fs" /\ disk[4].magic = TRUE /\ disk[4].xid = 1
        /\ disk[4].root = FirstRoot /\ disk[4].omap = VolOmap
        /\ disk[4].snap \in 0 .. MaxAddr
    BY <1>9, OmapBlocks DEF Blk
  <2>2. snaps = {}
    BY DEF Init
  <2>3. /\ AsOf(disk[LiveSb.paddr], LiveSb.xid) /\ disk[LiveSb.paddr].omap = VolOmap
        /\ disk[LiveSb.paddr].snap \in 0 .. MaxAddr
    BY <1>1, <1>4, <1>7, <2>1 DEF AsOf
  <2> QED
    BY <1>9, <2>2, <2>3 DEF DiskInv
<1>11. /\ vmap = {Entry(o, 1, Home[o]) : o \in Oids} /\ Points = {1}
  BY <1>1, <1>4 DEF Init, Points
<1>12. \A o \in Oids :
         /\ Entry(o, 1, Home[o]).oid = o /\ Entry(o, 1, Home[o]).xid = 1
         /\ Entry(o, 1, Home[o]).paddr \in 0 .. MaxAddr
         /\ Entry(o, 1, Home[o]).paddr > 4
         /\ Entry(o, 1, Home[o]) \in [oid : Oids, xid : Nat, paddr : 0 .. MaxAddr]
  BY MountAssumption, RoomAssumption DEF Entry, FirstSnap
<1>13. ASSUME NEW o \in Oids PROVE Shows(vmap, 1, o)
  <2> DEFINE e == Entry(o, 1, Home[o])
  <2>1. e \in vmap /\ e.oid = o /\ e.xid = 1 /\ e.xid = history[1].ver[o]
    BY <1>7, <1>11, <1>12
  <2>2. \A f \in vmap : f.oid = o => f = e
    BY <1>11, <1>12
  <2> HIDE DEF e
  <2>3. VM!Floor(vmap, o, 1) = {e}
    BY <2>1, <2>2 DEF VM!Floor, VM!Versions
  <2> QED
    BY <2>1, <2>3 DEF Shows
<1>14. NodesInv
  <2>1. vmap \subseteq [oid : Oids, xid : Nat, paddr : 0 .. MaxAddr]
    BY <1>11, <1>12
  <2>2. \A e \in vmap : e.xid <= LiveSb.xid /\ disk[e.paddr].ver = e.xid
    <3>1. \A e \in vmap : e.xid = 1 /\ e.paddr \in 0 .. MaxAddr /\ e.paddr > 4
      BY <1>11, <1>12
    <3> QED
      BY <1>1, <1>4, <1>9, <3>1
  <2> QED
    BY <1>11, <1>13, <2>1, <2>2 DEF NodesInv
<1> QED
  BY <1>5, <1>8, <1>10, <1>14 DEF ImageInv

-----------------------------------------------------------------------------
\* The reader

\* The image is undamaged and what is asked for is retained.
Due == damaged = {} /\ request \in {0} \cup Points

\* The parsers accept an undamaged image, and refuse with an error.
LEMMA SoundParse ==
    ASSUME ImageInv
    PROVE  /\ damaged = {} =>
                /\ OmapHeader(disk[NxOmap]) = "ok" /\ OmapHeader(disk[VolOmap]) = "ok"
                /\ ParseVolume(disk[LiveSb.paddr]) = "ok"
                /\ \A s \in snaps : ParseVolume(disk[s.sblock]) = "ok"
                /\ SnapNode(disk[disk[LiveSb.paddr].snap]) = "ok"
                /\ \A e \in vmap : SnapNode(disk[e.paddr]) = "ok"
           /\ \A b : /\ OmapHeader(b) # "none" /\ ParseVolume(b) # "none"
                     /\ SnapNode(b) # "none"
<1>1. damaged = {} => \A a \in 0 .. MaxAddr : disk[a].cksum = TRUE
  BY DEF ImageInv, DiskInv
<1>2. LiveSb.paddr \in 0 .. MaxAddr
  BY LiveEntry DEF ImageInv
<1>3. /\ disk[NxOmap].type = "omap" /\ disk[VolOmap].type = "omap"
      /\ disk[LiveSb.paddr].type = "fs" /\ disk[LiveSb.paddr].magic = TRUE
      /\ \A s \in snaps : /\ s.sblock \in 0 .. MaxAddr
                          /\ disk[s.sblock].type = "fs" /\ disk[s.sblock].magic = TRUE
  BY DEF ImageInv, DiskInv, AsOf
<1>4. /\ disk[LiveSb.paddr].snap \in 0 .. MaxAddr
      /\ \A e \in vmap : e.paddr \in 0 .. MaxAddr
  BY DEF ImageInv, DiskInv, NodesInv
<1> QED
  BY <1>1, <1>2, <1>3, <1>4, OmapBlocks DEF OmapHeader, ParseVolume, SnapNode

\* The list of volumes begins with the one written to.
LEMMA FirstVolume ==
    ASSUME ImageInv
    PROVE  Volumes \in Seq(Nat) /\ (Volumes # <<>> => Volumes[1] # Neighbour)
<1>1. PICK s \in Supers : nx = Found(s, nx.xid)
  BY DEF ImageInv, MapInv
<1>2. nx.slots = s.slots /\ nx.maxFs = s.maxFs
  BY <1>1 DEF Found
<1>3. Volumes = FsOids(s.slots, s.maxFs)
  BY <1>2 DEF Volumes
<1> QED
  BY <1>3, FirstVolumeAssumption DEF Supers

\* What a step of the reader has to show.
LEMMA ReaderStep ==
    ASSUME MInv, UNCHANGED image, damaged' = damaged, request' = request,
           phase' \in {"volumes", "snapshots", "mounted", "failed"},
           addrs' \in Seq(0 .. MaxAddr), live' \in Block, volume' \in Block,
           rootXid' \in 0 .. MaxXid, got'.oid \in Oids \cup {0},
           (error' = "none") <=> (phase' # "failed"),
           addrs' # <<>> => addrs'[1] = LiveSb.paddr,
           Mapped(addrs'),
           phase' \in {"snapshots", "mounted"} => Len(addrs') = Len(Volumes),
           phase' = "snapshots" =>
              live' = disk[LiveSb.paddr] /\ request \notin {0, LiveSb.xid},
           phase' = "mounted" =>
              /\ rootXid' \in Points
              /\ request \in {0, rootXid'}
              /\ request = 0 => rootXid' = LiveSb.xid
              /\ volume'.xid = rootXid' /\ volume'.omap = VolOmap
              /\ volume'.root = history[rootXid'].root,
           phase' # "mounted" => got' = Unread,
           got'.status = "ok" => got'.ver = history[rootXid'].ver[got'.oid],
           Due => Refusable(error') /\ got'.status \in {"unread", "ok", "Io"}
    PROVE  MInv'
<1>1. ImageInv /\ TypeOK /\ OpenInv
  BY DEF MInv
<1>2. /\ ImageInv' /\ LiveSb' = LiveSb /\ Points' = Points /\ Volumes' = Volumes
      /\ nx' = nx /\ disk' = disk /\ history' = history /\ cmap' = cmap
  BY <1>1, SameImage
<1>3. TypeOK'
  BY <1>1, <1>2 DEF TypeOK
<1>m. Mapped(addrs)'
  BY <1>2 DEF Mapped, VM!Floor, VM!Versions
<1>4. OpenInv'
  BY <1>1, <1>2, <1>m DEF OpenInv
<1>5. MountedInv'
  BY <1>2 DEF MountedInv, Unread
<1>6. Due' <=> Due
  BY <1>2 DEF Due
<1>7. RetainedIsReadable'
  <2>1. disk'[LiveSb'.paddr].xid = LiveSb'.xid
    BY <1>2 DEF ImageInv, DiskInv, AsOf
  <2>2. {0, disk'[LiveSb'.paddr].xid} \cup {s.xid : s \in snaps'} = {0} \cup Points'
    BY <2>1 DEF Points
  <2>3. (Due => Refusable(error)' /\ got'.status \in {"unread", "ok", "Io"})
    <3>1. Refusable(error') => Refusable(error)'
      BY <1>2 DEF Refusable, Unmapped, Clash, VM!Floor, VM!Versions
    <3> QED
      BY <3>1
  <2>4. phase' = "mounted" => ~Unmapped'
    BY <1>m, <1>2, FirstVolume DEF Mapped, Unmapped
  <2> QED
    BY <1>6, <2>2, <2>3, <2>4 DEF RetainedIsReadable, Due
<1> QED
  BY <1>2, <1>3, <1>4, <1>5, <1>7 DEF MInv

\* An open that fails was of something damaged or not retained, or may be
\* refused.
LEMMA FailStep ==
    ASSUME MInv, NEW e, Fail(e), e # "none",
           phase \in {"header", "volumes", "snapshots"}, Due => Refusable(e)
    PROVE  MInv'
<1>1. /\ phase' = "failed" /\ error' = e
      /\ UNCHANGED image /\ damaged' = damaged /\ request' = request
      /\ addrs' = addrs /\ live' = live /\ volume' = volume
      /\ rootXid' = rootXid /\ got' = got
  BY DEF Fail, reader
<1>2. TypeOK /\ OpenInv /\ MountedInv
  BY DEF MInv
<1>3. /\ addrs \in Seq(0 .. MaxAddr) /\ live \in Block /\ volume \in Block
      /\ rootXid \in 0 .. MaxXid
  BY <1>2 DEF TypeOK
<1>4. got = Unread /\ (addrs # <<>> => addrs[1] = LiveSb.paddr) /\ Mapped(addrs)
  BY <1>2 DEF OpenInv, MountedInv
<1>5. got.oid = 0 /\ got.status = "unread"
  BY <1>4 DEF Unread
<1> QED
  BY <1>1, <1>3, <1>4, <1>5, ReaderStep

\* Resolving the next volume.
LEMMA ResolveStep == MInv /\ ResolveVolume => MInv'
<1> SUFFICES ASSUME MInv, ResolveVolume PROVE MInv'
  OBVIOUS
<1>1. /\ phase = "volumes" /\ phase' = phase /\ Len(addrs) < Len(Volumes)
      /\ UNCHANGED image /\ damaged' = damaged /\ request' = request
      /\ live' = live /\ volume' = volume
      /\ rootXid' = rootXid /\ got' = got /\ error' = error
  BY DEF ResolveVolume, Resolving
<1>2. PICK e \in VM!Floor(cmap, Volumes[Len(addrs) + 1], nx.xid) :
         addrs' = Append(addrs, e.paddr)
  BY DEF ResolveVolume
<1>3. TypeOK /\ OpenInv /\ MountedInv /\ ImageInv /\ MapInv /\ RetainedIsReadable
  BY DEF MInv, ImageInv
<1>4. e \in cmap /\ e.oid = Volumes[Len(addrs) + 1]
  BY <1>2, FloorEntry
<1>5. e.paddr \in 0 .. MaxAddr /\ e.oid \in {VolOid, Neighbour}
  BY <1>3, <1>4 DEF MapInv
<1>6. /\ addrs \in Seq(0 .. MaxAddr) /\ live \in Block /\ volume \in Block
      /\ rootXid \in 0 .. MaxXid /\ (error = "none" <=> phase # "failed")
  BY <1>3 DEF TypeOK
<1>7. addrs' \in Seq(0 .. MaxAddr)
  BY <1>2, <1>5, <1>6
<1>8. addrs'[1] = LiveSb.paddr
  <2>1. CASE addrs = <<>>
    <3>1. Volumes \in Seq(Nat) /\ (Volumes # <<>> => Volumes[1] # Neighbour)
      BY <1>3, FirstVolume
    <3>2. Len(addrs) = 0 /\ Volumes # <<>>
      BY <1>1, <2>1, <3>1
    <3>3. e.oid = Volumes[1]
      BY <1>4, <3>2
    <3>4. e.oid = VolOid
      BY <1>5, <3>1, <3>2, <3>3
    <3>5. e \in VM!Floor(cmap, VolOid, nx.xid)
      BY <1>2, <1>4, <3>4
    <3>6. e = LiveSb
      BY <1>3, <3>5 DEF MapInv
    <3> QED
      BY <1>2, <2>1, <3>6
  <2>2. CASE addrs # <<>>
    <3>1. addrs'[1] = addrs[1]
      BY <1>2, <1>5, <1>6, <2>2
    <3> QED
      BY <1>3, <2>2, <3>1 DEF OpenInv
  <2> QED
    BY <2>1, <2>2
<1>9. got = Unread
  BY <1>1, <1>3 DEF MountedInv
<1>10. got.oid = 0 /\ got.status = "unread"
  BY <1>9 DEF Unread
<1>11. Mapped(addrs')
  <2>1. Len(addrs') = Len(addrs) + 1 /\ Len(addrs) \in Nat /\ Len(Volumes) \in Nat
    BY <1>2, <1>3, <1>5, <1>6, FirstVolume
  <2>2. VM!Floor(cmap, Volumes[Len(addrs) + 1], nx.xid) # {}
    BY <1>2
  <2> QED
    BY <1>1, <1>3, <2>1, <2>2 DEF OpenInv, Mapped
<1>12. Refusable("none")
  BY DEF Refusable
<1> QED
  BY <1>1, <1>6, <1>7, <1>8, <1>9, <1>10, <1>11, <1>12, ReaderStep

\* The reader's first volume is the live superblock.
LEMMA MountLiveStep == MInv /\ (MountLive \/ LookForSnapshot) => MInv'
<1> SUFFICES ASSUME MInv, MountLive \/ LookForSnapshot PROVE MInv'
  OBVIOUS
<1>1. TypeOK /\ OpenInv /\ MountedInv /\ ImageInv /\ MapInv /\ HistoryInv /\ DiskInv
  BY DEF MInv, ImageInv
<1> DEFINE sb == disk[LiveSb.paddr]
<1>2. /\ phase = "volumes" /\ addrs # <<>> /\ UNCHANGED image /\ damaged' = damaged
      /\ request' = request /\ addrs' = addrs /\ got' = got /\ error' = error
      /\ Len(addrs) = Len(Volumes)
  BY DEF MountLive, LookForSnapshot, AllResolved
<1>3. addrs[1] = LiveSb.paddr /\ Mapped(addrs) /\ Refusable("none")
  BY <1>1, <1>2 DEF OpenInv, Refusable
<1>4. LiveSb.paddr \in 0 .. MaxAddr /\ LiveSb.xid \in Nat /\ LiveSb.xid <= nx.xid
  BY <1>1, LiveEntry
<1>5. /\ sb \in Block /\ sb.xid = LiveSb.xid /\ sb.omap = VolOmap
      /\ sb.root = history[LiveSb.xid].root
  BY <1>1, <1>4 DEF DiskInv, AsOf
<1>6. LiveSb.xid \in 0 .. MaxXid /\ LiveSb.xid \in Points
  BY <1>1, <1>4, MountAssumption DEF MapInv, Points
<1>7. /\ addrs \in Seq(0 .. MaxAddr) /\ volume \in Block
      /\ rootXid \in 0 .. MaxXid /\ error = "none"
  BY <1>1, <1>2 DEF TypeOK
<1>8. got = Unread
  BY <1>1, <1>2 DEF MountedInv
<1>9. got.oid = 0 /\ got.status = "unread"
  BY <1>8 DEF Unread
<1> HIDE DEF sb
<1>10. CASE MountLive
  <2>1. /\ phase' = "mounted" /\ live' = sb /\ volume' = sb /\ rootXid' = sb.xid
        /\ request \in {0, sb.xid}
    BY <1>3, <1>10 DEF MountLive, sb
  <2> QED
    BY <1>2, <1>3, <1>5, <1>6, <1>7, <1>9, <2>1, ReaderStep
<1>11. CASE LookForSnapshot
  <2>1. /\ phase' = "snapshots" /\ live' = sb /\ volume' = volume
        /\ rootXid' = rootXid /\ request \notin {0, sb.xid}
    BY <1>3, <1>11 DEF LookForSnapshot, sb
  <2>2. live' = disk[LiveSb.paddr]
    BY <2>1 DEF sb
  <2> QED
    BY <1>2, <1>3, <1>5, <1>7, <1>8, <1>9, <2>1, <2>2, ReaderStep
<1> QED
  BY <1>10, <1>11

\* The frozen superblock with the live object map.
LEMMA MountSnapshotStep == MInv /\ MountSnapshot => MInv'
<1> SUFFICES ASSUME MInv, MountSnapshot PROVE MInv'
  OBVIOUS
<1>1. TypeOK /\ OpenInv /\ MountedInv /\ ImageInv /\ DiskInv
  BY DEF MInv, ImageInv
<1>2. /\ phase = "snapshots" /\ UNCHANGED image /\ damaged' = damaged
      /\ request' = request /\ addrs' = addrs /\ live' = live /\ got' = got
      /\ error' = error /\ rootXid' = request /\ phase' = "mounted"
  BY DEF MountSnapshot, SnapshotsListed
<1>3. PICK s \in snaps : /\ s.xid = request
                         /\ volume' = [disk[s.sblock] EXCEPT !.omap = live.omap]
  BY DEF MountSnapshot, Named, WithOmapOid
<1>4. /\ live = disk[LiveSb.paddr] /\ request \notin {0, LiveSb.xid}
      /\ request \in 0 .. MaxXid
      /\ addrs # <<>> => addrs[1] = LiveSb.paddr
      /\ Mapped(addrs) /\ Len(addrs) = Len(Volumes) /\ Refusable("none")
  BY <1>1, <1>2 DEF OpenInv, Refusable
<1>5. live.omap = VolOmap
  BY <1>1, <1>4 DEF DiskInv
<1>6. /\ disk[s.sblock] \in Block /\ disk[s.sblock].xid = s.xid
      /\ disk[s.sblock].root = history[s.xid].root
  BY <1>1 DEF DiskInv, AsOf
<1>7. /\ volume' \in Block /\ volume'.xid = request /\ volume'.omap = VolOmap
      /\ volume'.root = history[request].root
  <2>1. VolOmap \in Nat
    BY DEF VolOmap
  <2> QED
    BY <1>3, <1>5, <1>6, <2>1 DEF Block
<1>8. request \in Points
  BY <1>3 DEF Points
<1>9. /\ addrs \in Seq(0 .. MaxAddr) /\ live \in Block /\ error = "none"
  BY <1>1, <1>2 DEF TypeOK
<1>10. got = Unread
  BY <1>1, <1>2 DEF MountedInv
<1>11. got.oid = 0 /\ got.status = "unread"
  BY <1>10 DEF Unread
<1> QED
  BY <1>2, <1>4, <1>7, <1>8, <1>9, <1>11, ReaderStep

\* A read of a node resolves it as of the transaction mounted.
LEMMA ReadNodeStep == MInv /\ ReadNode => MInv'
<1> SUFFICES ASSUME MInv, ReadNode PROVE MInv'
  OBVIOUS
<1>1. /\ TypeOK /\ OpenInv /\ MountedInv /\ ImageInv /\ DiskInv /\ NodesInv
      /\ RetainedIsReadable
  BY DEF MInv, ImageInv
<1>2. /\ phase = "mounted" /\ UNCHANGED image /\ damaged' = damaged
      /\ request' = request /\ addrs' = addrs /\ live' = live /\ phase' = phase
      /\ volume' = volume /\ rootXid' = rootXid /\ error' = error
  BY DEF ReadNode
<1>3. PICK o \in Oids : got' \in {Fetch(o), [oid |-> o, status |-> "Io", ver |-> 0]}
  BY DEF ReadNode
<1>4. /\ rootXid \in Points /\ request \in {0, rootXid}
      /\ request = 0 => rootXid = LiveSb.xid
      /\ volume.xid = rootXid /\ volume.omap = VolOmap
      /\ volume.root = history[rootXid].root
  BY <1>1, <1>2 DEF MountedInv
<1>5. PICK e \in vmap : /\ VM!Floor(vmap, o, rootXid) = {e}
                        /\ e.xid = history[rootXid].ver[o]
  BY <1>1, <1>4 DEF NodesInv, Shows
<1>6. e.paddr \in 0 .. MaxAddr /\ disk[e.paddr].ver = history[rootXid].ver[o]
  BY <1>1, <1>5 DEF NodesInv
<1> DEFINE hd == OmapHeader(disk[VolOmap])
           node == disk[e.paddr]
<1>7. Fetch(o) = IF hd # "ok" THEN [oid |-> o, status |-> hd, ver |-> 0]
                 ELSE IF ~node.cksum
                      THEN [oid |-> o, status |-> "ChecksumMismatch", ver |-> 0]
                 ELSE [oid |-> o, status |-> "ok", ver |-> node.ver]
  <2>1. (CHOOSE f \in {e} : TRUE) = e
    OBVIOUS
  <2> QED
    BY <1>4, <1>5, <2>1 DEF Fetch
<1>8. damaged = {} => hd = "ok" /\ node.cksum = TRUE
  BY <1>1, <1>6, SoundParse DEF DiskInv
<1>9. hd # "ok" \/ hd = "ok"
  OBVIOUS
<1> HIDE DEF hd, node
<1>10. /\ got'.oid = o
       /\ got'.status = "ok" => got'.ver = node.ver
       /\ damaged = {} => got'.status \in {"ok", "Io"}
  BY <1>3, <1>7, <1>8
<1>11. got'.status = "ok" => got'.ver = history[rootXid'].ver[got'.oid]
  BY <1>2, <1>6, <1>10 DEF node
<1>12. Due => got'.status \in {"unread", "ok", "Io"}
  BY <1>10 DEF Due
<1>13. /\ addrs \in Seq(0 .. MaxAddr) /\ live \in Block /\ error = "none"
       /\ volume \in Block /\ rootXid \in 0 .. MaxXid
  BY <1>1, <1>2 DEF TypeOK
<1>14. /\ addrs # <<>> => addrs[1] = LiveSb.paddr
       /\ Mapped(addrs) /\ Len(addrs) = Len(Volumes) /\ Refusable("none")
  BY <1>1, <1>2 DEF OpenInv, Refusable
<1> QED
  BY <1>2, <1>4, <1>10, <1>11, <1>12, <1>13, <1>14, ReaderStep

\* No address, nothing to map.
LEMMA NoneMapped == /\ ImageInv /\ addrs = <<>> => Mapped(addrs)
                    /\ (ImageInv /\ addrs = <<>> => Mapped(addrs))'
<1>1. ImageInv /\ addrs = <<>> => Mapped(addrs)
  BY FirstVolume DEF Mapped
<1>2. (ImageInv /\ addrs = <<>> => Mapped(addrs))'
  BY <1>1, PTL
<1> QED
  BY <1>1, <1>2

\* A step of the writer.
LEMMA WriterStep == MInv /\ Write => MInv'
<1> SUFFICES ASSUME MInv, Write PROVE MInv'
  OBVIOUS
<1>1. TypeOK /\ OpenInv /\ MountedInv /\ ImageInv
  BY DEF MInv
<1>2. /\ phase = "writing" /\ UNCHANGED reader /\ error' = error
      /\ \/ phase' = phase /\ request' = request /\ damaged' = damaged
         \/ phase' = "header" /\ request' \in 0 .. MaxXid
  BY DEF Write, Commit, CommitElsewhere, TakeSnapshot, DeleteSnapshot, Reclaim,
         HandOver, Writing
<1>3. damaged = {} /\ request = 0 /\ addrs = <<>> /\ got = Unread /\ error = "none"
  BY <1>1, <1>2 DEF OpenInv, MountedInv, TypeOK
<1>4. ImageInv'
  BY <1>1, <1>3, CommitStep, TakeSnapshotStep, QuietSteps, ReclaimStep, HandOverStep
     DEF Write
<1>5. /\ addrs' = <<>> /\ live' = live /\ volume' = volume /\ rootXid' = rootXid
      /\ got' = Unread
  BY <1>2, <1>3 DEF reader
<1>6. disk' \in [0 .. MaxAddr -> Block]
  BY <1>4 DEF ImageInv, DiskInv
<1>7. TypeOK'
  BY <1>1, <1>2, <1>3, <1>5, <1>6 DEF TypeOK, Unread
<1>8. OpenInv' /\ MountedInv'
  <2>1. Mapped(addrs)'
    BY <1>4, <1>5, NoneMapped
  <2> QED
    BY <1>2, <1>3, <1>5, <2>1, MountAssumption DEF OpenInv, MountedInv, Unread
<1>9. RetainedIsReadable'
  BY <1>2, <1>3, <1>5 DEF RetainedIsReadable, Refusable, Unread
<1> QED
  BY <1>4, <1>7, <1>8, <1>9 DEF MInv

\* On an undamaged image the walk of the snapshot tree fails in one way only:
\* the root's block address is the oid of a node below it.
LEMMA WalkErrors ==
    ASSUME ImageInv, live = disk[LiveSb.paddr],
           NEW k \in DOMAIN SnapWalk, SnapWalk[k] # "ok"
    PROVE  /\ SnapWalk[k] # "none"
           /\ damaged = {} => SnapWalk[k] = "CycleGuard" /\ Clash
<1> DEFINE head == <<OmapHeader(disk[live.omap]), SnapNode(disk[live.snap])>>
           rest == [j \in 1 .. Len(SnapNodes) |-> SnapChild(j)]
           N == Len(SnapNodes)
<1>1. SnapNodes \in Seq(Oids) /\ N \in Nat /\ DOMAIN SnapNodes = 1 .. N
  BY SnapNodesAssumption
<1>2. /\ live.omap = VolOmap /\ live.xid = LiveSb.xid
      /\ live.snap = disk[LiveSb.paddr].snap
  BY DEF ImageInv, DiskInv, AsOf
<1>3. SnapWalk = head \o rest
  BY DEF SnapWalk
<1>4. /\ SnapWalk[1] = head[1] /\ SnapWalk[2] = head[2]
      /\ \A j \in 1 .. N : SnapWalk[j + 2] = SnapChild(j)
      /\ DOMAIN SnapWalk = 1 .. N + 2
  <2>1. /\ Len(head) = 2 /\ Len(rest) = N
        /\ \A j \in 1 .. N : rest[j] = SnapChild(j)
        /\ head = [j \in 1 .. 2 |-> head[j]] /\ rest = [j \in 1 .. N |-> rest[j]]
    BY <1>1
  <2> HIDE DEF head, rest, N
  <2>2. head \o rest = [j \in 1 .. 2 + N |-> IF j <= 2 THEN head[j] ELSE rest[j - 2]]
    BY <1>1, <2>1
  <2> QED
    BY <1>1, <1>3, <2>1, <2>2
<1>5. \/ k \in {1, 2}
      \/ \E j \in 1 .. N : k = j + 2
  <2>1. k \in 1 .. N + 2 /\ N \in Nat
    BY <1>1, <1>4
  <2> HIDE DEF N
  <2>2. k \in {1, 2} \/ (k - 2 \in 1 .. N /\ k = (k - 2) + 2)
    BY <2>1
  <2> QED
    BY <2>2
<1>6. CASE k \in {1, 2}
  <2>1. SnapWalk[k] \in {OmapHeader(disk[VolOmap]), SnapNode(disk[disk[LiveSb.paddr].snap])}
    BY <1>2, <1>4, <1>6
  <2> QED
    BY <2>1, SoundParse
<1>7. ASSUME NEW j \in 1 .. N, k = j + 2
      PROVE  /\ SnapWalk[k] # "none"
             /\ damaged = {} => SnapWalk[k] = "CycleGuard" /\ Clash
  <2>1. SnapWalk[k] = SnapChild(j) /\ SnapNodes[j] \in Oids
    BY <1>1, <1>4, <1>7
  <2>2. PICK e \in vmap : VM!Floor(vmap, SnapNodes[j], live.xid) = {e}
    BY <1>2, <2>1 DEF ImageInv, NodesInv, Points, Shows
  <2>3. (CHOOSE f \in {e} : TRUE) = e
    OBVIOUS
  <2>4. \A i \in 1 .. j - 1 : SnapNodes[i] # SnapNodes[j]
    BY <1>1, SnapNodesAssumption
  <2>5. SnapChild(j) = IF SnapNodes[j] = live.snap THEN "CycleGuard"
                       ELSE SnapNode(disk[e.paddr])
    BY <2>2, <2>3, <2>4 DEF SnapChild
  <2>6. SnapNodes[j] = live.snap => Clash
    BY <1>1, <1>2 DEF Clash
  <2> QED
    BY <2>1, <2>2, <2>5, <2>6, SoundParse
<1> QED
  BY <1>5, <1>6, <1>7

\* Every step of the open preserves MInv.
LEMMA OpenStep == MInv /\ (Open \/ ReadFails) => MInv'
<1> SUFFICES ASSUME MInv, Open \/ ReadFails PROVE MInv'
  OBVIOUS
<1>1. TypeOK /\ OpenInv /\ MountedInv /\ ImageInv /\ MapInv /\ DiskInv
  BY DEF MInv, ImageInv
<1>2. CASE SizeRejected
  BY <1>2, FailStep DEF SizeRejected, Refusable
<1>3. CASE HeaderRejected
  <2>1. /\ phase = "header" /\ OmapHeader(disk[NxOmap]) # "ok"
        /\ Fail(OmapHeader(disk[NxOmap]))
    BY <1>3 DEF HeaderRejected, SizeAccepted
  <2>2. ~Due /\ OmapHeader(disk[NxOmap]) # "none"
    BY <1>1, <2>1, SoundParse DEF Due
  <2> QED
    BY <2>1, <2>2, FailStep
<1>4. CASE HeaderRead
  <2>1. /\ phase = "header" /\ phase' = "volumes" /\ UNCHANGED image
        /\ damaged' = damaged /\ request' = request /\ error' = error
        /\ addrs' = addrs /\ live' = live /\ volume' = volume
        /\ rootXid' = rootXid /\ got' = got
    BY <1>4 DEF HeaderRead, SizeAccepted, reader
  <2>2. addrs = <<>> /\ got = Unread /\ error = "none"
    BY <1>1, <2>1 DEF OpenInv, MountedInv, TypeOK
  <2>3. /\ addrs \in Seq(0 .. MaxAddr) /\ live \in Block /\ volume \in Block
        /\ rootXid \in 0 .. MaxXid
    BY <1>1 DEF TypeOK
  <2>4. got.oid = 0 /\ got.status = "unread"
    BY <2>2 DEF Unread
  <2>5. Mapped(addrs) /\ Refusable("none")
    BY <1>1 DEF OpenInv, Refusable
  <2> QED
    BY <2>1, <2>2, <2>3, <2>4, <2>5, ReaderStep
<1>5. CASE VolumeUnresolved
  <2>1. /\ phase = "volumes" /\ Len(addrs) < Len(Volumes) /\ Fail("OmapUnresolved")
        /\ VM!Floor(cmap, Volumes[Len(addrs) + 1], nx.xid) = {}
    BY <1>5 DEF VolumeUnresolved, Resolving
  <2>2. Refusable("OmapUnresolved")
    <3>1. Volumes \in Seq(Nat) /\ addrs \in Seq(0 .. MaxAddr)
      BY <1>1, FirstVolume DEF TypeOK
    <3>2. Len(addrs) + 1 \in DOMAIN Volumes
      BY <2>1, <3>1
    <3> QED
      BY <2>1, <3>2 DEF Refusable, Unmapped
  <2> QED
    BY <2>1, <2>2, FailStep
<1>6. CASE NoVolumes
  <2>1. /\ phase = "volumes" /\ Len(addrs) = Len(Volumes) /\ addrs = <<>>
        /\ Fail("NoValidSuperblock")
    BY <1>6 DEF NoVolumes, AllResolved
  <2>2. Volumes = <<>>
    BY <1>1, <2>1, FirstVolume
  <2> QED
    BY <2>1, <2>2, FailStep DEF Refusable
<1>7. CASE VolumeRejected
  <2>1. /\ phase = "volumes" /\ addrs # <<>>
        /\ ParseVolume(disk[addrs[1]]) # "ok" /\ Fail(ParseVolume(disk[addrs[1]]))
    BY <1>7 DEF VolumeRejected, AllResolved
  <2>2. addrs[1] = LiveSb.paddr
    BY <1>1, <2>1 DEF OpenInv
  <2>3. ~Due /\ ParseVolume(disk[addrs[1]]) # "none"
    BY <1>1, <2>1, <2>2, SoundParse DEF Due
  <2> QED
    BY <2>1, <2>3, FailStep
<1>8. CASE SnapshotMissing
  <2>1. phase = "snapshots" /\ Named = {} /\ Fail("SnapshotNotFound")
    BY <1>8 DEF SnapshotMissing, SnapshotsListed
  <2>2. request \notin {0, LiveSb.xid}
    BY <1>1, <2>1 DEF OpenInv
  <2>3. ~Due
    BY <2>1, <2>2 DEF Due, Points, Named
  <2> QED
    BY <2>1, <2>3, FailStep
<1>9. CASE SnapshotRejected
  <2>1. PICK s \in snaps : /\ ParseVolume(disk[s.sblock]) # "ok"
                           /\ Fail(ParseVolume(disk[s.sblock]))
    BY <1>9 DEF SnapshotRejected, Named
  <2>2. phase = "snapshots"
    BY <1>9 DEF SnapshotRejected, SnapshotsListed
  <2>3. ~Due /\ ParseVolume(disk[s.sblock]) # "none"
    BY <1>1, <2>1, SoundParse DEF Due
  <2> QED
    BY <2>1, <2>2, <2>3, FailStep
<1>10. CASE ReadFails
  <2>1. phase \in {"header", "volumes", "snapshots"} /\ Fail("Io")
    BY <1>10 DEF ReadFails, SizeAccepted
  <2> QED
    BY <2>1, FailStep DEF Refusable
<1>11. CASE SnapshotsUnlisted
  <2>1. PICK k \in DOMAIN SnapWalk : SnapWalk[k] # "ok" /\ Fail(SnapWalk[k])
    BY <1>11 DEF SnapshotsUnlisted
  <2>2. phase = "snapshots"
    BY <1>11 DEF SnapshotsUnlisted
  <2>3. live = disk[LiveSb.paddr] /\ request \notin {0, LiveSb.xid}
    BY <1>1, <2>2 DEF OpenInv
  <2>4. /\ SnapWalk[k] # "none"
        /\ damaged = {} => SnapWalk[k] = "CycleGuard" /\ Clash
    BY <1>1, <2>1, <2>3, WalkErrors
  <2>5. disk[LiveSb.paddr].xid = LiveSb.xid
    BY <1>1 DEF DiskInv, AsOf
  <2>6. Due => Refusable(SnapWalk[k])
    BY <2>3, <2>4, <2>5 DEF Due, Refusable
  <2> QED
    BY <2>1, <2>2, <2>4, <2>6, FailStep
<1> QED
  BY <1>2, <1>3, <1>4, <1>5, <1>6, <1>7, <1>8, <1>9, <1>10, <1>11, ResolveStep,
     MountLiveStep, MountSnapshotStep DEF Open

-----------------------------------------------------------------------------
\* MInv holds throughout.
THEOREM MountInvariance == Spec => []MInv
<1>1. Init => MInv
  <2> SUFFICES ASSUME Init PROVE MInv
    OBVIOUS
  <2>1. ImageInv
    BY InitImage
  <2>2. disk \in [0 .. MaxAddr -> Block]
    BY <2>1 DEF ImageInv, DiskInv
  <2>3. /\ phase = "writing" /\ request = 0 /\ addrs = <<>> /\ live = NoVolume
        /\ volume = NoVolume /\ rootXid = 0 /\ got = Unread /\ error = "none"
        /\ damaged = {}
    BY DEF Init
  <2>4. NoVolume \in Block
    BY DEF NoVolume, Blk, Block
  <2>5. TypeOK
    BY <2>2, <2>3, <2>4, MountAssumption DEF TypeOK, Unread
  <2>6. OpenInv /\ MountedInv
    BY <2>1, <2>3, NoneMapped, MountAssumption DEF OpenInv, MountedInv, Unread
  <2>7. RetainedIsReadable
    BY <2>3 DEF RetainedIsReadable, Refusable, Unread
  <2> QED
    BY <2>1, <2>5, <2>6, <2>7 DEF MInv
<1>2. MInv /\ [Next]_vars => MInv'
  <2> SUFFICES ASSUME MInv, [Next]_vars PROVE MInv'
    OBVIOUS
  <2>1. CASE UNCHANGED vars
    <3>1. /\ UNCHANGED image /\ damaged' = damaged /\ request' = request
          /\ addrs' = addrs /\ live' = live /\ phase' = phase
          /\ volume' = volume /\ rootXid' = rootXid /\ error' = error /\ got' = got
      BY <2>1 DEF vars, reader
    <3>2. TypeOK /\ OpenInv /\ MountedInv /\ ImageInv /\ RetainedIsReadable
      BY DEF MInv
    <3>3. /\ ImageInv' /\ LiveSb' = LiveSb /\ Points' = Points /\ Volumes' = Volumes
          /\ nx' = nx /\ disk' = disk /\ snaps' = snaps /\ history' = history
          /\ cmap' = cmap
      BY <3>1, <3>2, SameImage
    <3> QED
      BY <3>1, <3>2, <3>3
         DEF MInv, TypeOK, OpenInv, MountedInv, RetainedIsReadable, Mapped,
             Refusable, Unmapped, Clash, VM!Floor, VM!Versions
  <2>2. CASE Write \/ Open \/ ReadFails \/ ReadNode
    BY <2>2, WriterStep, OpenStep, ReadNodeStep
  <2> QED
    BY <2>1, <2>2 DEF Next, Finished
<1> QED
  BY <1>1, <1>2, PTL DEF Spec

\* Every variable keeps its type; no address outside the image is held.
THEOREM TypeCorrect == Spec => []TypeOK
<1>1. MInv => TypeOK
  BY DEF MInv
<1> QED
  BY <1>1, MountInvariance, PTL

\* A mounted volume shows the root and the node versions of the transaction
\* asked for, whatever was committed, reclaimed, reused or damaged since
\* (vfs.rs, open_snapshot; snapshot.rs, mount_snapshot).
THEOREM MountsPointInTime == Spec => []PointInTime
<1>1. MInv => PointInTime
  <2> SUFFICES ASSUME MInv, phase = "mounted"
               PROVE  /\ volume.xid = rootXid /\ request \in {0, rootXid}
                      /\ rootXid \in DOMAIN history
                      /\ request = 0 => \A x \in DOMAIN history : x <= rootXid
                      /\ volume.root = history[rootXid].root
                      /\ got.status = "ok" => got.ver = history[rootXid].ver[got.oid]
    BY DEF PointInTime
  <2>1. MountedInv /\ HistoryInv /\ DiskInv
    BY DEF MInv, ImageInv
  <2>2. rootXid \in Points /\ LiveSb.xid \in DOMAIN history
    BY <2>1 DEF MountedInv, HistoryInv
  <2>3. rootXid \in DOMAIN history
    BY <2>1, <2>2 DEF DiskInv, Points
  <2>4. request = 0 => \A x \in DOMAIN history : x <= rootXid
    BY <2>1 DEF MountedInv, HistoryInv
  <2> QED
    BY <2>1, <2>3, <2>4 DEF MountedInv
<1> QED
  BY <1>1, MountInvariance, PTL

\* What is retained in an undamaged image is mountable and readable down to
\* its last node, but for a failing source and the four refusals named in
\* Refusable; no open gets past a volume that is not mapped (lib.rs,
\* volume_superblock_addrs; vfs.rs, open_snapshot; snapshot.rs, descend_snap).
THEOREM RetainedReadable == Spec => []RetainedIsReadable
<1>1. MInv => RetainedIsReadable
  BY DEF MInv
<1> QED
  BY <1>1, MountInvariance, PTL
=============================================================================
