---------------------------- MODULE Stream_proofs ----------------------------
(***************************************************************************)
(* For every file, image and limit: a read that succeeds has the length    *)
(* that was announced, plain content is zero or what the image holds where *)
(* an extent puts it, and a file that was stored correctly is read back as *)
(* it was stored.                                                          *)
(*                                                                         *)
(* data_size and read_data each assemble the com.apple.decmpfs value for   *)
(* themselves, so the proof needs that assembling a stream has one         *)
(* outcome.  Filled says of a buffer, cell by cell, which of the extents   *)
(* behind it decided the cell: the last one that covers it.  It is kept by *)
(* every extent (FillStep) and determines the buffer (FillUnique).         *)
(*                                                                         *)
(* For content as stored, extents that hold no cell twice leave no choice  *)
(* (FilledIsLaid), the decoder undoes the coding of a payload              *)
(* (CodedDecodes), and RestoreInv follows the read of a fork chunk by      *)
(* chunk: ChunksInv keeps that the output so far is a whole number of      *)
(* chunks of the text, or all of it.                                       *)
(***************************************************************************)
EXTENDS Stream, FiniteSetTheorems, SequenceTheorems, TLAPS

-----------------------------------------------------------------------------
\* Sorting by offset

\* A place lies in the sequence, and no two elements have the same.
LEMMA PlaceIsInjective ==
    ASSUME NEW s \in Seq(FileExtent)
    PROVE  /\ \A k \in DOMAIN s : Place(s, k) \in DOMAIN s
           /\ \A k, m \in DOMAIN s : Place(s, k) = Place(s, m) => k = m
  <1> DEFINE Before(k) == {m \in DOMAIN s : s[m].off < s[k].off
                                  \/ (s[m].off = s[k].off /\ m <= k)}
  <1>1. /\ DOMAIN s = 1 .. Len(s) /\ Len(s) \in Nat
        /\ \A k \in DOMAIN s : s[k].off \in Nat
    <2>1. DOMAIN s = 1 .. Len(s) /\ Len(s) \in Nat
      OBVIOUS
    <2>2. \A k \in DOMAIN s : s[k] \in FileExtent
      OBVIOUS
    <2> QED  BY <2>1, <2>2 DEF FileExtent
  <1>2. IsFiniteSet(DOMAIN s) /\ Cardinality(DOMAIN s) = Len(s)
    BY <1>1, FS_Interval
  <1>3. \A k \in DOMAIN s : /\ IsFiniteSet(Before(k))
                            /\ Cardinality(Before(k)) <= Len(s)
                            /\ Cardinality(Before(k)) \in Nat
    <2> SUFFICES ASSUME NEW k \in DOMAIN s
                 PROVE  /\ IsFiniteSet(Before(k))
                        /\ Cardinality(Before(k)) <= Len(s)
                        /\ Cardinality(Before(k)) \in Nat
      OBVIOUS
    <2>1. Before(k) \in SUBSET DOMAIN s
      OBVIOUS
    <2> HIDE DEF Before
    <2> QED
      BY <1>2, <2>1, FS_Subset, FS_CardinalityType
  <1>4. ASSUME NEW k \in DOMAIN s PROVE Cardinality(Before(k)) # 0
    <2>1. k \in Before(k)
      BY <1>1
    <2> HIDE DEF Before
    <2> QED
      BY <1>3, <2>1, FS_EmptySet
  <1>5. ASSUME NEW k \in DOMAIN s, NEW m \in DOMAIN s,
               Cardinality(Before(k)) = Cardinality(Before(m))
        PROVE  Before(k) = Before(m)
    <2>1. Before(k) \in SUBSET Before(m) \/ Before(m) \in SUBSET Before(k)
      BY <1>1
    <2> HIDE DEF Before
    <2> QED
      BY <1>3, <1>5, <2>1, FS_Subset
  <1>6. ASSUME NEW k \in DOMAIN s, NEW m \in DOMAIN s, Before(k) = Before(m)
        PROVE  k = m
    <2>1. k \in Before(m) /\ m \in Before(k)
      BY <1>1, <1>6
    <2> QED
      BY <1>1, <2>1
  <1>7. \A k \in DOMAIN s : Place(s, k) = Cardinality(Before(k))
    BY DEF Place
  <1> HIDE DEF Before
  <1> QED
    BY <1>1, <1>3, <1>4, <1>5, <1>6, <1>7

\* Sorting neither loses nor makes up an extent.
LEMMA SortedExtents ==
    ASSUME NEW s \in Seq(FileExtent)
    PROVE  /\ ByOffset(s) \in Seq(FileExtent)
           /\ Len(ByOffset(s)) = Len(s)
           /\ \A n \in DOMAIN s : \E k \in DOMAIN s : ByOffset(s)[n] = s[k]
  <1> DEFINE f == [k \in DOMAIN s |-> Place(s, k)]
  <1>1. DOMAIN s = 1 .. Len(s) /\ Len(s) \in Nat
    OBVIOUS
  <1>2. IsFiniteSet(DOMAIN s)
    BY <1>1, FS_Interval
  <1>3. f \in Injection(DOMAIN s, DOMAIN s)
    BY PlaceIsInjective DEF Injection, IsInjective
  <1>4. f \in Surjection(DOMAIN s, DOMAIN s)
    <2> HIDE DEF f
    <2> QED  BY <1>2, <1>3, FS_Injection
  <1>5. ASSUME NEW n \in DOMAIN s PROVE \E k \in DOMAIN s : Place(s, k) = n
    BY <1>4 DEF Surjection
  <1>6. ASSUME NEW n \in DOMAIN s
        PROVE  /\ (CHOOSE k \in DOMAIN s : Place(s, k) = n) \in DOMAIN s
               /\ ByOffset(s)[n] = s[CHOOSE k \in DOMAIN s : Place(s, k) = n]
    BY <1>5 DEF ByOffset
  <1>7. \A n \in DOMAIN s : \E k \in DOMAIN s : ByOffset(s)[n] = s[k]
    BY <1>6
  <1>8. ByOffset(s) \in [1 .. Len(s) -> FileExtent]
    <2>1. \A n \in 1 .. Len(s) : ByOffset(s)[n] \in FileExtent
      BY <1>1, <1>7
    <2> QED  BY <1>1, <2>1 DEF ByOffset
  <1> QED
    BY <1>1, <1>7, <1>8

-----------------------------------------------------------------------------
\* Assembling a stream

\* Extent e decides cell i of a buffer of that size.
Covers(e, i, size) ==
    ~Ignored(e, size) /\ e.off < i /\ i <= e.off + CopyLen(e, size)

\* read_stream stops at e with an error that is not the source's.
Stops(e, size) ==
    ~Ignored(e, size) /\ (e.phys >= AddrLimit \/ PastImage(e, size))

Stored(e, i) == Image[e.phys * BlockSize + (i - e.off)]

\* b is the buffer behind the first n extents of s.
Filled(b, s, n, size) ==
    /\ b \in Seq(Nat) /\ Len(b) = size
    /\ \A k \in 1 .. n : ~Stops(s[k], size)
    /\ \A i \in 1 .. size :
         \/ b[i] = 0 /\ \A k \in 1 .. n : ~Covers(s[k], i, size)
         \/ \E k \in 1 .. n : /\ Covers(s[k], i, size)
                              /\ b[i] = Stored(s[k], i)
                              /\ \A m \in k + 1 .. n : ~Covers(s[m], i, size)

\* Assembling a stream has one outcome.
LEMMA FillUnique ==
    ASSUME NEW s, NEW n \in Nat, NEW size \in Nat, NEW b, NEW c,
           Filled(b, s, n, size), Filled(c, s, n, size)
    PROVE  b = c
  <1>1. ASSUME NEW i \in 1 .. size PROVE b[i] = c[i]
    <2> HIDE DEF Covers, Stored, Stops
    <2>1. CASE \A k \in 1 .. n : ~Covers(s[k], i, size)
      BY <2>1 DEF Filled
    <2>2. CASE \E k \in 1 .. n : Covers(s[k], i, size)
      <3>1. PICK k \in 1 .. n : /\ Covers(s[k], i, size)
                                /\ b[i] = Stored(s[k], i)
                                /\ \A m \in k + 1 .. n : ~Covers(s[m], i, size)
        BY <2>2 DEF Filled
      <3>2. PICK l \in 1 .. n : /\ Covers(s[l], i, size)
                                /\ c[i] = Stored(s[l], i)
                                /\ \A m \in l + 1 .. n : ~Covers(s[m], i, size)
        BY <2>2 DEF Filled
      <3>3. k = l
        BY <3>1, <3>2
      <3> QED  BY <3>1, <3>2, <3>3
    <2> QED  BY <2>1, <2>2
  <1>2. /\ b \in Seq(Nat) /\ c \in Seq(Nat) /\ Len(b) = size /\ Len(c) = size
    BY DEF Filled
  <1> QED
    BY <1>1, <1>2

\* What an extent that does not stop the reading puts into a cell is a cell
\* of the image.
LEMMA StoredIsNat ==
    ASSUME NEW e \in FileExtent, NEW size \in Nat, NEW i \in 1 .. size,
           ~Stops(e, size), Covers(e, i, size)
    PROVE  Stored(e, i) \in Nat
  <1>1. /\ e.off \in Nat /\ e.len \in Nat /\ e.phys \in Nat
        /\ BlockSize \in Nat /\ Image \in Seq(Nat) /\ AddrLimit \in Nat
    BY StreamAssumption DEF FileExtent
  <1>2. PICK p \in Nat : p = e.phys * BlockSize
    BY <1>1
  <1>3. i - e.off \in 1 .. CopyLen(e, size)
    BY <1>1 DEF Covers, CopyLen, Ignored
  <1>4. p + CopyLen(e, size) <= Len(Image)
    <2>1. CopyLen(e, size) > 0
      BY <1>1, <1>3 DEF CopyLen, Ignored, Covers
    <2>2. ~PastImage(e, size)
      BY DEF Stops, Covers
    <2>3. CopyLen(e, size) \in Nat
      BY <1>1 DEF CopyLen, Ignored, Covers
    <2> QED  BY <1>1, <1>2, <2>1, <2>2, <2>3 DEF PastImage
  <1>5. CopyLen(e, size) \in Nat
    BY <1>1 DEF CopyLen, Ignored, Covers
  <1>6. PICK j \in Int : j = i - e.off
    BY <1>1
  <1>7. p + j \in 1 .. Len(Image)
    <2>1. PICK l \in Nat : l = CopyLen(e, size)
      BY <1>5
    <2>2. p + l <= Len(Image) /\ j \in 1 .. l
      BY <1>3, <1>4, <1>6, <2>1
    <2>3. Len(Image) \in Nat
      BY <1>1
    <2> QED  BY <2>2, <2>3
  <1>8. Image[p + j] \in Nat
    BY <1>1, <1>7
  <1> QED
    BY <1>2, <1>6, <1>8 DEF Stored

\* One more extent, skipped or copied.
LEMMA FillStep ==
    ASSUME NEW s \in Seq(FileExtent), NEW n \in Nat, n < Len(s),
           NEW size \in Nat, NEW b, Filled(b, s, n, size),
           ~Stops(s[n + 1], size)
    PROVE  Filled(IF Ignored(s[n + 1], size) THEN b ELSE Copied(b, s[n + 1]),
                  s, n + 1, size)
  <1>1. PICK e \in FileExtent : e = s[n + 1]
    OBVIOUS
  <1>2. PICK c : c = IF Ignored(e, size) THEN b ELSE Copied(b, e)
    OBVIOUS
  <1>3. b \in Seq(Nat) /\ Len(b) = size /\ DOMAIN b = 1 .. size
    BY DEF Filled
  <1>4. ASSUME NEW i \in 1 .. size, Covers(e, i, size)
        PROVE  c[i] = Stored(e, i)
    BY <1>2, <1>3, <1>4 DEF Covers, Copied, Stored
  <1>5. ASSUME NEW i \in 1 .. size, ~Covers(e, i, size)
        PROVE  c[i] = b[i]
    BY <1>2, <1>3, <1>5 DEF Covers, Copied
  <1>6. c \in Seq(Nat) /\ Len(c) = size
    <2>1. \A i \in 1 .. size : c[i] \in Nat
      BY <1>1, <1>3, <1>4, <1>5, StoredIsNat
    <2>2. c = [i \in 1 .. size |-> c[i]]
      <3>1. CASE Ignored(e, size)
        BY <1>2, <1>3, <3>1
      <3>2. CASE ~Ignored(e, size)
        BY <1>2, <1>3, <3>2 DEF Copied
      <3> QED  BY <3>1, <3>2
    <2> QED  BY <2>1, <2>2
  <1>7. \A k \in 1 .. n + 1 : ~Stops(s[k], size)
    BY <1>1 DEF Filled
  <1>8. ASSUME NEW i \in 1 .. size
        PROVE  \/ c[i] = 0 /\ \A k \in 1 .. n + 1 : ~Covers(s[k], i, size)
               \/ \E k \in 1 .. n + 1 :
                     /\ Covers(s[k], i, size)
                     /\ c[i] = Stored(s[k], i)
                     /\ \A m \in k + 1 .. n + 1 : ~Covers(s[m], i, size)
    <2>1. CASE Covers(e, i, size)
      <3>1. c[i] = Stored(s[n + 1], i) /\ Covers(s[n + 1], i, size)
        BY <1>1, <1>4, <2>1
      <3> QED  BY <3>1
    <2>2. CASE ~Covers(e, i, size)
      <3>1. c[i] = b[i]
        BY <1>5, <2>2
      <3>2. \/ b[i] = 0 /\ \A k \in 1 .. n : ~Covers(s[k], i, size)
            \/ \E k \in 1 .. n : /\ Covers(s[k], i, size)
                                 /\ b[i] = Stored(s[k], i)
                                 /\ \A m \in k + 1 .. n : ~Covers(s[m], i, size)
        BY DEF Filled
      <3>3. ~Covers(s[n + 1], i, size)
        BY <1>1, <2>2
      <3> QED  BY <3>1, <3>2, <3>3
    <2> QED  BY <2>1, <2>2
  <1> QED
    BY <1>1, <1>2, <1>6, <1>7, <1>8 DEF Filled
-----------------------------------------------------------------------------
\* The inductive invariant

\* h is the com.apple.decmpfs value of f, as assembled without a failure.
RightHeader(f, h) ==
    \/ f.decmpfs.kind = "embedded" /\ h = f.decmpfs.bytes
    \/ /\ f.decmpfs.kind = "stream"
       /\ f.decmpfs.size <= MAX_DECMPFS_XATTR_BYTES
       /\ Filled(h, ByOffset(f.decmpfs.extents), Len(f.decmpfs.extents),
                 f.decmpfs.size)

\* n is the length that the records of f give its content.
Announced(f, n) ==
    \/ f.decmpfs.kind = "absent" /\ n = f.size
    \/ /\ f.decmpfs.kind # "absent"
       /\ \E h : RightHeader(f, h) /\ HeaderValid(h) /\ n = h[3]

\* No read of f gets past its com.apple.decmpfs value.
Unreadable(f) ==
    /\ f.decmpfs.kind # "absent"
    /\ \A h : RightHeader(f, h) => ~HeaderValid(h)

StreamOf(f, p) ==
    CASE p = "data" -> f.extents
      [] p = "header" -> f.decmpfs.extents
      [] p = "fork" -> f.fork.extents

SizeOf(f, p) ==
    CASE p = "data" -> f.size
      [] p = "header" -> f.decmpfs.size
      [] p = "fork" -> f.fork.size

\* t is what is left of s behind its first n elements.
IsRest(t, s, n) ==
    /\ n \in Nat /\ Len(s) = n + Len(t)
    /\ \A j \in 1 .. Len(t) : t[j] = s[n + j]

Assembling(f, p, t, b) ==
    \E n \in Nat : /\ IsRest(t, ByOffset(StreamOf(f, p)), n)
                   /\ Filled(b, ByOffset(StreamOf(f, p)), n, SizeOf(f, p))

\* Where the two calls can be.
PhaseInv ==
    /\ file \in Files
    /\ op = "data_size" => status = "none" /\ sized.status = "none"
    /\ op = "read_data" => sized.status # "none"
    /\ pc \in {"fork", "decode", "chunks", "done"} => op = "read_data"
    /\ status # "none" => pc = "done"

\* The stream being assembled, and what it is for.
StreamInv ==
    pc = "extents" =>
        /\ Assembling(file, purpose, todo, buf)
        /\ purpose = "data" => op = "read_data" /\ file.decmpfs.kind = "absent"
        /\ purpose = "header" =>
               /\ file.decmpfs.kind = "stream"
               /\ file.decmpfs.size <= MAX_DECMPFS_XATTR_BYTES
        /\ purpose = "fork" => op = "read_data"

\* The header in hand.
HeaderInv ==
    /\ (pc \in {"header", "fork", "decode", "chunks"}
        \/ (pc = "extents" /\ purpose = "fork")) =>
           file.decmpfs.kind # "absent" /\ RightHeader(file, header)
    /\ pc = "chunks" => HeaderValid(header)

\* What the calls have returned.
ResultInv ==
    /\ sized.status = "ok" => Announced(file, sized.size)
    /\ sized.status \notin {"none", "ok"} \cup WalkFailures => Unreadable(file)
    /\ status = "ok" =>
           /\ Announced(file, Len(out))
           /\ file.decmpfs.kind = "absent" =>
                  Filled(out, ByOffset(file.extents), Len(file.extents), file.size)

SInv == TypeOK /\ PhaseInv /\ StreamInv /\ HeaderInv /\ ResultInv

\* The types of a file's records.
LEMMA FileType ==
    ASSUME NEW f \in Files
    PROVE  /\ f.size \in Nat /\ f.extents \in Seq(FileExtent)
           /\ f.decmpfs.kind \in {"absent", "embedded", "stream"}
           /\ f.decmpfs.bytes \in Seq(Nat) /\ f.decmpfs.size \in Nat
           /\ f.decmpfs.extents \in Seq(FileExtent)
           /\ f.fork.kind \in {"absent", "embedded", "stream"}
           /\ f.fork.bytes \in Seq(Nat) /\ f.fork.size \in Nat
           /\ f.fork.extents \in Seq(FileExtent)
  BY FilesAssumption DEF IsFile, Xattr

\* A file has one com.apple.decmpfs value.
LEMMA HeaderUnique ==
    ASSUME NEW f \in Files, NEW h, NEW g, RightHeader(f, h), RightHeader(f, g)
    PROVE  h = g
  <1>1. f.decmpfs.size \in Nat /\ Len(f.decmpfs.extents) \in Nat
    BY FileType
  <1> QED
    BY <1>1, FillUnique DEF RightHeader

\* The records of a file give one length, and an unreadable file none.
LEMMA OneLength ==
    ASSUME NEW f \in Files, NEW n, Announced(f, n)
    PROVE  /\ \A m : Announced(f, m) => m = n
           /\ ~Unreadable(f)
  <1>1. CASE f.decmpfs.kind = "absent"
    BY <1>1 DEF Announced, Unreadable
  <1>2. CASE f.decmpfs.kind # "absent"
    <2>1. PICK h : RightHeader(f, h) /\ HeaderValid(h) /\ n = h[3]
      BY <1>2 DEF Announced
    <2>2. ASSUME NEW m, Announced(f, m) PROVE m = n
      <3>1. PICK g : RightHeader(f, g) /\ HeaderValid(g) /\ m = g[3]
        BY <1>2, <2>2 DEF Announced
      <3> QED  BY <2>1, <3>1, HeaderUnique
    <2> QED  BY <2>1, <2>2 DEF Unreadable
  <1> QED  BY <1>1, <1>2

\* read_stream has begun.
LEMMA StreamBegins ==
    ASSUME NEW f \in Files, NEW p \in {"data", "header", "fork"}
    PROVE  /\ ByOffset(StreamOf(f, p)) \in Seq(FileExtent)
           /\ Len(ByOffset(StreamOf(f, p))) = Len(StreamOf(f, p))
           /\ SizeOf(f, p) \in Nat
           /\ [i \in 1 .. SizeOf(f, p) |-> 0] \in Seq(Nat)
           /\ Len([i \in 1 .. SizeOf(f, p) |-> 0]) = SizeOf(f, p)
           /\ Assembling(f, p, ByOffset(StreamOf(f, p)),
                         [i \in 1 .. SizeOf(f, p) |-> 0])
  <1>1. StreamOf(f, p) \in Seq(FileExtent) /\ SizeOf(f, p) \in Nat
    BY FileType DEF StreamOf, SizeOf
  <1>2. PICK s : s = ByOffset(StreamOf(f, p))
    OBVIOUS
  <1>3. PICK n \in Nat : n = SizeOf(f, p)
    BY <1>1
  <1>4. s \in Seq(FileExtent) /\ Len(s) = Len(StreamOf(f, p))
    BY <1>1, <1>2, SortedExtents
  <1>5. [i \in 1 .. n |-> 0] \in Seq(Nat) /\ Len([i \in 1 .. n |-> 0]) = n
    OBVIOUS
  <1>6. IsRest(s, s, 0)
    BY <1>4 DEF IsRest
  <1>7. Filled([i \in 1 .. n |-> 0], s, 0, n)
    BY <1>5 DEF Filled
  <1> QED
    BY <1>2, <1>3, <1>4, <1>5, <1>6, <1>7 DEF Assembling

\* The extent at hand, what stops at it, and the buffer behind it.
LEMMA StreamGoesOn ==
    ASSUME NEW f \in Files, NEW p \in {"data", "header", "fork"},
           NEW t \in Seq(FileExtent), NEW b \in Seq(Nat), Assembling(f, p, t, b),
           t # <<>>
    PROVE  /\ Len(b) = SizeOf(f, p)
           /\ Stops(Head(t), Len(b)) => 
                \E k \in 1 .. Len(StreamOf(f, p)) :
                   Stops(ByOffset(StreamOf(f, p))[k], SizeOf(f, p))
           /\ ~Stops(Head(t), Len(b)) =>
                /\ Ignored(Head(t), Len(b)) => Assembling(f, p, Tail(t), b)
                /\ ~Ignored(Head(t), Len(b)) =>
                     Assembling(f, p, Tail(t), Copied(b, Head(t)))
  <1>1. PICK s : s = ByOffset(StreamOf(f, p))
    OBVIOUS
  <1>2. s \in Seq(FileExtent) /\ Len(s) = Len(StreamOf(f, p))
    BY <1>1, StreamBegins
  <1>3. PICK size \in Nat : size = SizeOf(f, p)
    BY StreamBegins
  <1>4. PICK n \in Nat : IsRest(t, s, n) /\ Filled(b, s, n, size)
    BY <1>1, <1>3 DEF Assembling
  <1>5. Len(b) = size
    BY <1>4 DEF Filled
  <1>6. /\ n + 1 \in 1 .. Len(s) /\ n < Len(s)
        /\ Head(t) = s[n + 1] /\ IsRest(Tail(t), s, n + 1)
    BY <1>2, <1>4 DEF IsRest
  <1>7. Stops(Head(t), Len(b)) => \E k \in 1 .. Len(s) : Stops(s[k], size)
    BY <1>5, <1>6
  <1>8. ASSUME ~Stops(Head(t), Len(b))
        PROVE  Filled(IF Ignored(s[n + 1], size) THEN b ELSE Copied(b, s[n + 1]),
                      s, n + 1, size)
    BY <1>2, <1>4, <1>5, <1>6, <1>8, FillStep
  <1> QED
    BY <1>1, <1>2, <1>3, <1>4, <1>5, <1>6, <1>7, <1>8 DEF Assembling

\* The stream is complete.
LEMMA StreamEnds ==
    ASSUME NEW f \in Files, NEW p \in {"data", "header", "fork"}, NEW b,
           Assembling(f, p, <<>>, b)
    PROVE  Filled(b, ByOffset(StreamOf(f, p)), Len(StreamOf(f, p)), SizeOf(f, p))
  <1>1. /\ ByOffset(StreamOf(f, p)) \in Seq(FileExtent)
        /\ Len(ByOffset(StreamOf(f, p))) = Len(StreamOf(f, p))
    BY StreamBegins
  <1>2. PICK n \in Nat : /\ IsRest(<<>>, ByOffset(StreamOf(f, p)), n)
                         /\ Filled(b, ByOffset(StreamOf(f, p)), n, SizeOf(f, p))
    BY DEF Assembling
  <1>3. n = Len(StreamOf(f, p))
    BY <1>1, <1>2 DEF IsRest
  <1> QED
    BY <1>2, <1>3

\* Whatever stops the assembling of the header makes the file unreadable.
LEMMA StopIsFinal ==
    ASSUME NEW f \in Files, f.decmpfs.kind = "stream",
           \/ f.decmpfs.size > MAX_DECMPFS_XATTR_BYTES
           \/ \E k \in 1 .. Len(f.decmpfs.extents) :
                Stops(ByOffset(f.decmpfs.extents)[k], f.decmpfs.size)
    PROVE  Unreadable(f)
  <1>1. f.decmpfs.size \in Nat /\ MAX_DECMPFS_XATTR_BYTES \in Nat
    BY FileType, StreamAssumption
  <1>2. ASSUME NEW h, RightHeader(f, h) PROVE FALSE
    BY <1>1, <1>2 DEF RightHeader, Filled
  <1> QED
    BY <1>2 DEF Unreadable
-----------------------------------------------------------------------------
\* Returning

\* data_size returns with a status.
LEMMA SizeReturned ==
    ASSUME SInv, op = "data_size", NEW s \in Statuses \ {"none"}, NEW n \in Nat,
           SizeReturns(s, n),
           s = "ok" => Announced(file, n),
           s \notin {"ok"} \cup WalkFailures => Unreadable(file)
    PROVE  SInv'
  <1> USE DEF SInv, SizeReturns, reading
  <1>1. TypeOK'
    BY DEF TypeOK
  <1>2. PhaseInv'
    BY DEF PhaseInv
  <1>3. StreamInv' /\ HeaderInv'
    BY DEF StreamInv, HeaderInv
  <1>4. ResultInv'
    BY DEF ResultInv, PhaseInv
  <1> QED
    BY <1>1, <1>2, <1>3, <1>4

\* A call fails.  data_size may fail for another reason than the source only
\* when the file is unreadable.
LEMMA Failed ==
    ASSUME SInv, pc # "done", NEW s \in Statuses \ {"none", "ok"}, Fail(s),
           (op = "data_size" /\ s \notin WalkFailures) => Unreadable(file)
    PROVE  SInv'
  <1>1. CASE op = "data_size" /\ SizeReturns(s, 0)
    BY <1>1, SizeReturned
  <1>2. CASE op = "read_data" /\ ~(op = "data_size" /\ SizeReturns(s, 0))
    <2>1. /\ status' = s /\ pc' = "done"
          /\ UNCHANGED <<file, window, op, reading, decoding, sized>>
      BY <1>2 DEF Fail
    <2>2. TypeOK'
      BY <2>1 DEF SInv, TypeOK, reading, decoding
    <2>3. PhaseInv'
      BY <1>2, <2>1 DEF SInv, PhaseInv
    <2>4. StreamInv' /\ HeaderInv'
      BY <2>1 DEF SInv, StreamInv, HeaderInv
    <2>5. ResultInv'
      BY <2>1 DEF SInv, ResultInv, decoding
    <2> QED  BY <2>2, <2>3, <2>4, <2>5 DEF SInv
  <1> QED
    BY <1>1, <1>2 DEF Fail

\* read_data returns the content.
LEMMA ReadReturned ==
    ASSUME SInv, op = "read_data", NEW b \in Seq(Nat), ReadReturns(b),
           Announced(file, Len(b)),
           file.decmpfs.kind = "absent" =>
               Filled(b, ByOffset(file.extents), Len(file.extents), file.size)
    PROVE  SInv'
  <1> USE DEF SInv, ReadReturns, reading
  <1>1. TypeOK'
    BY DEF TypeOK, Statuses, WalkFailures
  <1>2. PhaseInv'
    BY DEF PhaseInv
  <1>3. StreamInv' /\ HeaderInv'
    BY DEF StreamInv, HeaderInv
  <1>4. ResultInv'
    BY DEF ResultInv
  <1> QED
    BY <1>1, <1>2, <1>3, <1>4

\* A step of the call with the header in hand.
LEMMA Proceeded ==
    ASSUME SInv, pc # "done", NEW h \in Seq(Nat), NEW f \in Seq(Nat),
           NEW p \in {"header", "fork", "decode"}, Proceed(h, f, p),
           file.decmpfs.kind # "absent", RightHeader(file, h),
           p # "header" => op = "read_data"
    PROVE  SInv'
  <1> USE DEF SInv, Proceed, reading
  <1>1. TypeOK'
    BY DEF TypeOK
  <1>2. PhaseInv'
    BY DEF PhaseInv
  <1>3. StreamInv' /\ HeaderInv'
    BY DEF StreamInv, HeaderInv
  <1>4. ResultInv'
    BY DEF ResultInv
  <1> QED
    BY <1>1, <1>2, <1>3, <1>4

\* read_stream begins, or refuses the size.
LEMMA Opened ==
    ASSUME SInv, pc # "done", NEW p \in {"data", "header", "fork"},
           Open(p, StreamOf(file, p), SizeOf(file, p)),
           p = "data" => op = "read_data" /\ file.decmpfs.kind = "absent",
           p = "header" => /\ file.decmpfs.kind = "stream"
                           /\ file.decmpfs.size <= MAX_DECMPFS_XATTR_BYTES,
           p = "fork" => pc = "fork"
    PROVE  SInv'
  <1>1. file \in Files
    BY DEF SInv, PhaseInv
  <1>2. CASE SizeOf(file, p) > MAX_FILE_BYTES /\ Fail("FieldOutOfRange")
    <2>1. p # "header"
      BY <1>1, <1>2, FileType, StreamAssumption DEF SizeOf
    <2>2. op = "read_data"
      BY <2>1 DEF SInv, PhaseInv
    <2> QED  BY <1>2, <2>2, Failed DEF Statuses, WalkFailures
  <1>3. CASE /\ SizeOf(file, p) <= MAX_FILE_BYTES
             /\ purpose' = p
             /\ todo' = ByOffset(StreamOf(file, p))
             /\ buf' = [i \in 1 .. SizeOf(file, p) |-> 0]
             /\ pc' = "extents"
             /\ UNCHANGED <<file, window, op, decoding, sized, status>>
    <2>1. /\ todo' \in Seq(FileExtent) /\ buf' \in Seq(Nat)
          /\ Len(buf') = SizeOf(file, p)
          /\ Assembling(file', purpose', todo', buf')
      BY <1>1, <1>3, StreamBegins
    <2>2. p = "header" => SizeOf(file, p) <= MAX_DECMPFS_XATTR_BYTES
      BY DEF SizeOf
    <2>3. TypeOK'
      BY <1>3, <2>1, <2>2 DEF SInv, TypeOK, decoding
    <2>4. p = "fork" => op = "read_data"
      BY DEF SInv, PhaseInv
    <2>5. PhaseInv'
      BY <1>3, <2>4 DEF SInv, PhaseInv
    <2>6. StreamInv'
      BY <1>3, <2>1, <2>4 DEF StreamInv
    <2>7. HeaderInv'
      BY <1>3 DEF SInv, HeaderInv, decoding
    <2>8. ResultInv'
      BY <1>3 DEF SInv, ResultInv, decoding
    <2> QED  BY <2>3, <2>5, <2>6, <2>7, <2>8 DEF SInv
  <1> QED
    BY <1>2, <1>3 DEF Open

\* The copy loop moves on to the next extent.
LEMMA ExtentDone ==
    ASSUME SInv, AtExtent, NEW b \in Seq(Nat), NextExtent(b),
           Len(b) = Len(buf), Assembling(file, purpose, Tail(todo), b)
    PROVE  SInv'
  <1> USE DEF SInv, NextExtent, AtExtent
  <1>1. todo' \in Seq(FileExtent)
    BY DEF TypeOK
  <1>2. TypeOK'
    BY <1>1 DEF TypeOK, decoding
  <1>3. PhaseInv'
    BY DEF PhaseInv
  <1>4. StreamInv'
    BY DEF StreamInv
  <1>5. HeaderInv'
    BY DEF HeaderInv, decoding
  <1>6. ResultInv'
    BY DEF ResultInv, decoding
  <1> QED
    BY <1>2, <1>3, <1>4, <1>5, <1>6
-----------------------------------------------------------------------------
\* The steps: attributes and streams

\* SizeOfPlain, HeaderEmbedded and HeaderTooLong keep the invariant.
LEMMA AttributeSteps ==
    ASSUME SInv, SizeOfPlain \/ HeaderEmbedded \/ HeaderTooLong
    PROVE  SInv'
  <1>1. file \in Files
    BY DEF SInv, PhaseInv
  <1>2. CASE SizeOfPlain
    <2>1. Announced(file, file.size)
      BY <1>2 DEF SizeOfPlain, Announced
    <2> QED
      BY <1>1, <1>2, <2>1, SizeReturned, FileType DEF SizeOfPlain, Statuses, WalkFailures
  <1>3. CASE HeaderEmbedded
    <2>1. RightHeader(file, file.decmpfs.bytes) /\ file.decmpfs.kind # "absent"
      BY <1>3 DEF HeaderEmbedded, RightHeader
    <2>2. file.decmpfs.bytes \in Seq(Nat) /\ <<>> \in Seq(Nat)
      BY <1>1, FileType
    <2>3. pc # "done" /\ Proceed(file.decmpfs.bytes, <<>>, "header")
      BY <1>3 DEF HeaderEmbedded
    <2> QED  BY <2>1, <2>2, <2>3, Proceeded
  <1>4. CASE HeaderTooLong
    <2>1. Unreadable(file)
      BY <1>1, <1>4, StopIsFinal DEF HeaderTooLong
    <2> QED  BY <1>4, <2>1, Failed DEF HeaderTooLong, Statuses, WalkFailures
  <1> QED
    BY <1>2, <1>3, <1>4

\* OpenData, HeaderStreamed and ForkStreamed keep the invariant.
LEMMA OpenSteps ==
    ASSUME SInv, OpenData \/ HeaderStreamed \/ ForkStreamed
    PROVE  SInv'
  <1>1. CASE OpenData
    <2>1. /\ pc # "done" /\ op = "read_data" /\ file.decmpfs.kind = "absent"
          /\ Open("data", StreamOf(file, "data"), SizeOf(file, "data"))
      BY <1>1 DEF OpenData, StreamOf, SizeOf
    <2> QED  BY <2>1, Opened
  <1>2. CASE HeaderStreamed
    <2>1. /\ pc # "done" /\ file.decmpfs.kind = "stream"
          /\ file.decmpfs.size <= MAX_DECMPFS_XATTR_BYTES
          /\ Open("header", StreamOf(file, "header"), SizeOf(file, "header"))
      BY <1>2 DEF HeaderStreamed, StreamOf, SizeOf
    <2> QED  BY <2>1, Opened
  <1>3. CASE ForkStreamed
    <2>1. /\ pc = "fork"
          /\ Open("fork", StreamOf(file, "fork"), SizeOf(file, "fork"))
      BY <1>3 DEF ForkStreamed, StreamOf, SizeOf
    <2> QED  BY <2>1, Opened
  <1> QED
    BY <1>1, <1>2, <1>3

\* The steps of the copy loop keep the invariant.
LEMMA ExtentSteps ==
    ASSUME SInv,
           SkipExtent \/ ExtentOverflows \/ ExtentPastImage \/ CopyExtent
    PROVE  SInv'
  <1>1. AtExtent
    BY DEF SkipExtent, ExtentOverflows, ExtentPastImage, CopyExtent
  <1>2. /\ file \in Files /\ purpose \in {"data", "header", "fork"}
        /\ todo \in Seq(FileExtent) /\ todo # <<>> /\ buf \in Seq(Nat)
        /\ Assembling(file, purpose, todo, buf) /\ pc = "extents"
    BY <1>1 DEF SInv, PhaseInv, TypeOK, StreamInv, AtExtent
  <1>3. /\ Len(buf) = SizeOf(file, purpose)
        /\ Stops(Head(todo), Len(buf)) =>
             \E k \in 1 .. Len(StreamOf(file, purpose)) :
                Stops(ByOffset(StreamOf(file, purpose))[k], SizeOf(file, purpose))
        /\ ~Stops(Head(todo), Len(buf)) =>
             /\ Ignored(Head(todo), Len(buf)) =>
                  Assembling(file, purpose, Tail(todo), buf)
             /\ ~Ignored(Head(todo), Len(buf)) =>
                  Assembling(file, purpose, Tail(todo), Copied(buf, Head(todo)))
    BY <1>2, StreamGoesOn
  <1>4. CASE SkipExtent
    <2>1. Ignored(Head(todo), Len(buf)) /\ ~Stops(Head(todo), Len(buf))
      BY <1>4 DEF SkipExtent, Stops
    <2> QED  BY <1>1, <1>2, <1>3, <1>4, <2>1, ExtentDone DEF SkipExtent
  <1>5. CASE ExtentOverflows \/ ExtentPastImage
    <2>1. Stops(Head(todo), Len(buf))
      BY <1>5 DEF ExtentOverflows, ExtentPastImage, Stops
    <2>2. op = "data_size" => Unreadable(file)
      <3>1. CASE op = "data_size"
        <4>1. purpose = "header" /\ file.decmpfs.kind = "stream"
          BY <1>2, <3>1 DEF SInv, StreamInv
        <4>2. \E k \in 1 .. Len(file.decmpfs.extents) :
                 Stops(ByOffset(file.decmpfs.extents)[k], file.decmpfs.size)
          BY <1>3, <2>1, <4>1 DEF StreamOf, SizeOf
        <4> QED  BY <1>2, <4>1, <4>2, StopIsFinal
      <3> QED  BY <3>1
    <2> QED
      BY <1>2, <1>5, <2>2, Failed DEF ExtentOverflows, ExtentPastImage, Statuses, WalkFailures
  <1>6. CASE CopyExtent
    <2>1. /\ ~Ignored(Head(todo), Len(buf)) /\ ~Stops(Head(todo), Len(buf))
          /\ NextExtent(Copied(buf, Head(todo)))
      <3>1. Head(todo).phys \in Nat /\ AddrLimit \in Nat
        <4>1. Head(todo) \in FileExtent
          BY <1>2
        <4> QED  BY <4>1, StreamAssumption DEF FileExtent
      <3> QED  BY <1>6, <3>1 DEF CopyExtent, Stops
    <2>2. PICK b : b = Copied(buf, Head(todo))
      OBVIOUS
    <2>3. Assembling(file, purpose, Tail(todo), b) /\ NextExtent(b)
      BY <1>3, <2>1, <2>2
    <2>4. b \in Seq(Nat) /\ Len(b) = Len(buf)
      BY <1>3, <2>3 DEF Assembling, Filled
    <2> QED  BY <1>1, <2>3, <2>4, ExtentDone
  <1> QED
    BY <1>4, <1>5, <1>6

\* The end of a stream keeps the invariant.
LEMMA StreamReadStep ==
    ASSUME SInv, StreamRead
    PROVE  SInv'
  <1>1. /\ pc = "extents" /\ pc # "done" /\ file \in Files
        /\ purpose \in {"data", "header", "fork"}
        /\ buf \in Seq(Nat) /\ header \in Seq(Nat) /\ <<>> \in Seq(Nat)
    BY DEF SInv, PhaseInv, TypeOK, StreamRead
  <1>2. Filled(buf, ByOffset(StreamOf(file, purpose)),
               Len(StreamOf(file, purpose)), SizeOf(file, purpose))
    BY <1>1, StreamEnds DEF SInv, StreamInv, StreamRead
  <1>3. CASE purpose = "data" /\ ReadReturns(buf)
    <2>1. /\ op = "read_data" /\ file.decmpfs.kind = "absent"
          /\ Filled(buf, ByOffset(file.extents), Len(file.extents), file.size)
      BY <1>1, <1>2, <1>3 DEF SInv, StreamInv, StreamOf, SizeOf
    <2>2. Announced(file, Len(buf))
      BY <2>1 DEF Announced, Filled
    <2> QED  BY <1>1, <1>3, <2>1, <2>2, ReadReturned
  <1>4. CASE purpose = "header" /\ Proceed(buf, <<>>, "header")
    <2>1. /\ file.decmpfs.kind = "stream"
          /\ file.decmpfs.size <= MAX_DECMPFS_XATTR_BYTES
      BY <1>1, <1>4 DEF SInv, StreamInv
    <2>2. RightHeader(file, buf) /\ file.decmpfs.kind # "absent"
      BY <1>2, <1>4, <2>1 DEF RightHeader, StreamOf, SizeOf
    <2> QED  BY <1>1, <1>4, <2>2, Proceeded
  <1>5. CASE purpose = "fork" /\ Proceed(header, buf, "decode")
    <2>1. /\ op = "read_data"
          /\ file.decmpfs.kind # "absent" /\ RightHeader(file, header)
      BY <1>1, <1>5 DEF SInv, StreamInv, HeaderInv
    <2> QED  BY <1>1, <1>5, <2>1, Proceeded
  <1> QED
    BY <1>3, <1>4, <1>5 DEF StreamRead

\* A failure of the source keeps the invariant.
LEMMA SourceFailsStep ==
    ASSUME SInv, SourceFails
    PROVE  SInv'
  BY Failed DEF SourceFails, Statuses, WalkFailures

-----------------------------------------------------------------------------
\* The steps: decompression

\* The steps between the header and the decoder keep the invariant.
LEMMA HeaderSteps ==
    ASSUME SInv,
           \/ SizeDeclared \/ SizeUnknown \/ NoType \/ NeedsFork \/ NeedsNoFork
           \/ ForkInHand
    PROVE  SInv'
  <1>1. /\ pc \in {"header", "fork"} /\ pc # "done" /\ file \in Files
        /\ file.decmpfs.kind # "absent" /\ RightHeader(file, header)
        /\ header \in Seq(Nat) /\ <<>> \in Seq(Nat)
    BY DEF SInv, PhaseInv, HeaderInv, TypeOK, SizeDeclared, SizeUnknown, NoType,
           NeedsFork, NeedsNoFork, ForkInHand
  <1>2. CASE SizeDeclared
    <2>1. Announced(file, header[3])
      BY <1>1, <1>2 DEF SizeDeclared, Announced
    <2>2. header[3] \in Nat
      BY <1>1, <1>2 DEF SizeDeclared, HeaderValid, HEADER_LEN
    <2> QED  BY <1>2, <2>1, <2>2, SizeReturned DEF SizeDeclared, Statuses, WalkFailures
  <1>3. CASE SizeUnknown
    <2>1. Unreadable(file)
      BY <1>1, <1>3, HeaderUnique DEF SizeUnknown, Unreadable
    <2> QED  BY <1>1, <1>3, <2>1, Failed DEF SizeUnknown, Statuses, WalkFailures
  <1>4. CASE NoType
    BY <1>1, <1>4, Failed DEF NoType, Statuses, WalkFailures
  <1>5. CASE NeedsFork
    BY <1>1, <1>5, Proceeded DEF NeedsFork
  <1>6. CASE NeedsNoFork
    BY <1>1, <1>6, Proceeded DEF NeedsNoFork
  <1>7. CASE ForkInHand
    <2>1. op = "read_data"
      BY <1>7 DEF ForkInHand, SInv, PhaseInv
    <2>2. file.fork.bytes \in Seq(Nat)
      BY <1>1, FileType
    <2> QED  BY <1>1, <1>7, <2>1, <2>2, Proceeded DEF ForkInHand
  <1> QED
    BY <1>2, <1>3, <1>4, <1>5, <1>6, <1>7

\* What the decoders produce are cells.
LEMMA DecoderType ==
    ASSUME NEW p \in Seq(Nat), NEW d, \/ d \in Decoder(p)
                                      \/ \E w : d \in Lzvn(p, w)
                                      \/ d = p
                                      \/ Len(p) >= 1 /\ d = From(p, 2)
                                      \/ p = <<>> /\ d = From(p, 2)
    PROVE  d \in Seq(Nat)
  <1>1. CASE d \in Decoder(p)
    <2>1. Len(p) >= 2 /\ d = [i \in 1 .. p[1] |-> p[2]]
      BY <1>1 DEF Decoder
    <2>2. p[1] \in Nat /\ p[2] \in Nat
      BY <2>1
    <2>3. PICK n \in Nat, v \in Nat : n = p[1] /\ v = p[2]
      BY <2>2
    <2>4. [i \in 1 .. n |-> v] \in Seq(Nat)
      OBVIOUS
    <2> QED  BY <2>1, <2>3, <2>4
  <1>2. CASE d = From(p, 2)
    BY <1>2 DEF From
  <1> QED
    BY <1>1, <1>2 DEF Lzvn

\* Finishing keeps the invariant: only the declared length is returned.
LEMMA Finished ==
    ASSUME SInv, pc \in {"decode", "chunks"}, HeaderValid(header),
           NEW b \in Seq(Nat), Finish(b)
    PROVE  SInv'
  <1>1. /\ op = "read_data" /\ pc # "done"
        /\ file.decmpfs.kind # "absent" /\ RightHeader(file, header)
    BY DEF SInv, PhaseInv, HeaderInv
  <1>2. CASE Len(b) = Declared /\ ReadReturns(b)
    <2>1. Announced(file, Len(b))
      BY <1>1, <1>2 DEF Announced, Declared
    <2> QED  BY <1>1, <1>2, <2>1, ReadReturned
  <1>3. CASE Fail("Decmpfs")
    BY <1>1, <1>3, Failed DEF Statuses, WalkFailures
  <1> QED
    BY <1>2, <1>3 DEF Finish

\* The inline decoder keeps the invariant.
LEMMA DecodeInlineStep ==
    ASSUME SInv, DecodeInline
    PROVE  SInv'
  <1>1. /\ pc = "decode" /\ HeaderValid(header) /\ op = "read_data"
        /\ header \in Seq(Nat) /\ Len(header) >= 3
    BY DEF DecodeInline, Decodable, SInv, PhaseInv, TypeOK, HeaderValid, HEADER_LEN
  <1>2. PICK p : p = From(header, HEADER_LEN + 1)
    OBVIOUS
  <1>3. p \in Seq(Nat)
    BY <1>1, <1>2 DEF From, HEADER_LEN
  <1>4. ASSUME NEW b \in Inline(Type, p, Declared) PROVE b \in Seq(Nat)
    <2>1. \/ b \in Decoder(p) \/ b \in Lzvn(p, Declared) \/ b = p
          \/ b = From(p, 2)
      BY <1>4 DEF Inline
    <2>2. Len(p) >= 1 \/ p = <<>>
      BY <1>3
    <2> QED  BY <1>3, <2>1, <2>2, DecoderType
  <1>5. CASE Fail("Decmpfs")
    BY <1>1, <1>5, Failed DEF Statuses, WalkFailures
  <1>6. CASE \E b \in Inline(Type, p, Declared) : Finish(b)
    BY <1>1, <1>4, <1>6, Finished
  <1> QED
    BY <1>2, <1>5, <1>6 DEF DecodeInline

\* Every refusal of the decoder keeps the invariant.
LEMMA RefusalSteps ==
    ASSUME SInv, Refused \/ NoTable \/ BadSlot \/ BadChunk
    PROVE  SInv'
  <1>1. /\ pc \in {"decode", "chunks"} /\ Fail("Decmpfs")
    BY DEF Refused, NoTable, BadSlot, BadChunk
  <1>2. op = "read_data"
    BY <1>1 DEF SInv, PhaseInv
  <1> QED
    BY <1>1, <1>2, Failed DEF Statuses, WalkFailures

\* Opening the table of a fork keeps the invariant.
LEMMA OpenTableStep ==
    ASSUME SInv, OpenTable
    PROVE  SInv'
  <1>1. fork \in Seq(Nat)
    BY DEF SInv, TypeOK
  <1>2. src' \in Nat
    <2>1. Cell(0) \in Nat
      BY <1>1 DEF OpenTable, TableValid, Has, Cell
    <2> QED  BY <2>1 DEF OpenTable
  <1>3. TypeOK'
    BY <1>2 DEF SInv, TypeOK, OpenTable, reading
  <1>4. PhaseInv'
    BY DEF SInv, PhaseInv, OpenTable
  <1>5. StreamInv' /\ HeaderInv'
    BY DEF SInv, StreamInv, HeaderInv, OpenTable, Decodable, reading
  <1>6. ResultInv'
    BY DEF SInv, ResultInv, OpenTable
  <1> QED
    BY <1>3, <1>4, <1>5, <1>6 DEF SInv

\* Decoding a chunk keeps the invariant.
LEMMA DecodeChunkStep ==
    ASSUME SInv, DecodeChunk
    PROVE  SInv'
  <1>1. /\ fork \in Seq(Nat) /\ src \in Nat /\ next \in Nat /\ out \in Seq(Nat)
    BY DEF SInv, TypeOK
  <1>2. Start \in Nat /\ End \in Nat /\ End <= Len(fork)
    <2>1. SlotThere /\ Start <= End /\ End <= Len(fork)
      BY DEF DecodeChunk, SlotValid
    <2>2. CASE Type = 4
      <3>1. /\ src + 2 * next + 1 \in Nat /\ src + 2 * next + 2 \in Nat
            /\ src + 2 * next + 2 < Len(fork)
        BY <1>1, <2>1, <2>2 DEF SlotThere, Has
      <3>2. Cell(src + 2 * next + 1) \in Nat /\ Cell(src + 2 * next + 2) \in Nat
        BY <1>1, <3>1 DEF Cell
      <3> QED  BY <1>1, <2>1, <2>2, <3>2 DEF Start, End
    <2>3. CASE Type # 4
      <3>1. Cell(next + 1) \in Nat
        BY <1>1, <2>1, <2>3 DEF SlotThere, Has, Cell
      <3> QED  BY <1>1, <2>1, <2>3, <3>1 DEF Start, End
    <2> QED  BY <2>2, <2>3
  <1>3. SubSeq(fork, Start + 1, End) \in Seq(Nat)
    BY <1>1, <1>2
  <1>4. PICK d \in Decoded(SubSeq(fork, Start + 1, End)) : out' = out \o d
    BY DEF DecodeChunk
  <1>5. d \in Seq(Nat)
    BY <1>3, <1>4, DecoderType DEF Decoded
  <1>6. src' \in Nat /\ next' \in Nat /\ out' \in Seq(Nat)
    BY <1>1, <1>2, <1>4, <1>5 DEF DecodeChunk
  <1>7. TypeOK'
    BY <1>6 DEF SInv, TypeOK, DecodeChunk, reading
  <1>8. PhaseInv'
    BY DEF SInv, PhaseInv, DecodeChunk
  <1>9. StreamInv' /\ HeaderInv'
    BY DEF SInv, StreamInv, HeaderInv, DecodeChunk, reading
  <1>10. ResultInv'
    BY DEF SInv, ResultInv, PhaseInv, DecodeChunk
  <1> QED
    BY <1>7, <1>8, <1>9, <1>10 DEF SInv

\* The end of the table keeps the invariant.
LEMMA TableDoneStep ==
    ASSUME SInv, TableDone
    PROVE  SInv'
  <1>1. pc = "chunks" /\ HeaderValid(header) /\ out \in Seq(Nat)
    BY DEF TableDone, SInv, HeaderInv, TypeOK
  <1> QED
    BY <1>1, Finished DEF TableDone

-----------------------------------------------------------------------------
\* What the writer stored

\* Every extent is somewhere in the sorted sequence.
LEMMA SortedHasAll ==
    ASSUME NEW s \in Seq(FileExtent), NEW k \in DOMAIN s
    PROVE  \E n \in 1 .. Len(s) : ByOffset(s)[n] = s[k]
  <1>1. /\ Place(s, k) \in DOMAIN s
        /\ \A m \in DOMAIN s : Place(s, m) = Place(s, k) => m = k
    BY PlaceIsInjective
  <1>2. (CHOOSE m \in DOMAIN s : Place(s, m) = Place(s, k)) = k
    BY <1>1
  <1>3. ByOffset(s)[Place(s, k)] = s[k]
    BY <1>1, <1>2 DEF ByOffset
  <1> QED
    BY <1>1, <1>3

\* Inside the size, the extent that decides a cell is one that holds it.
LEMMA CoversIsHolding ==
    ASSUME NEW s \in Seq(FileExtent), NEW k \in DOMAIN s, NEW size \in Nat,
           NEW i \in 1 .. size
    PROVE  Covers(s[k], i, size) <=> k \in Holding(s, i)
  <1>1. PICK e \in FileExtent : e = s[k]
    OBVIOUS
  <1>2. e.off \in Nat /\ e.len \in Nat /\ e.phys \in Nat
    BY DEF FileExtent
  <1>3. Covers(e, i, size) <=> (e.phys # 0 /\ e.off < i /\ i <= e.off + e.len)
    BY <1>2 DEF Covers, Ignored, CopyLen
  <1> QED
    BY <1>1, <1>3 DEF Holding

\* Nothing stops the reading of a well laid stream.
LEMMA NothingStops ==
    ASSUME NEW s \in Seq(FileExtent), NEW size \in Nat, WellLaid(s, size),
           NEW n \in 1 .. Len(s)
    PROVE  ~Stops(ByOffset(s)[n], size)
  <1>1. PICK k \in DOMAIN s : ByOffset(s)[n] = s[k]
    BY SortedExtents
  <1>2. PICK e \in FileExtent : e = s[k]
    OBVIOUS
  <1>3. /\ e.off \in Nat /\ e.len \in Nat /\ e.phys \in Nat
        /\ AddrLimit \in Nat /\ BlockSize \in Nat /\ Len(Image) \in Nat
    BY StreamAssumption DEF FileExtent
  <1>4. PICK at \in Nat : at = e.phys * BlockSize
    BY <1>3
  <1>5. e.phys # 0 => e.phys < AddrLimit /\ at + e.len <= Len(Image)
    BY <1>2, <1>4 DEF WellLaid
  <1>6. ASSUME ~Ignored(e, size)
        PROVE  ~(e.phys >= AddrLimit) /\ ~PastImage(e, size)
    <2>1. e.phys # 0 /\ e.off < size
      BY <1>3, <1>6 DEF Ignored
    <2>2. CopyLen(e, size) \in Nat /\ CopyLen(e, size) <= e.len
      BY <1>3, <2>1 DEF CopyLen
    <2>3. PICK l \in Nat : l = CopyLen(e, size)
      BY <2>2
    <2>4. ~(at + l > Len(Image))
      BY <1>3, <1>5, <2>1, <2>2, <2>3
    <2> QED  BY <1>3, <1>4, <1>5, <2>1, <2>3, <2>4 DEF PastImage
  <1> QED
    BY <1>1, <1>2, <1>6 DEF Stops

\* The buffer assembled from a well laid stream is what was laid down: the
\* order of the extents does not matter.
LEMMA FilledIsLaid ==
    ASSUME NEW s \in Seq(FileExtent), NEW size \in Nat, WellLaid(s, size),
           NEW b, Filled(b, ByOffset(s), Len(s), size)
    PROVE  b = Laid(s, size)
  <1>1. b \in Seq(Nat) /\ Len(b) = size
    BY DEF Filled
  <1>2. ASSUME NEW i \in 1 .. size PROVE b[i] = Laid(s, size)[i]
    <2>1. CASE \A n \in 1 .. Len(s) : ~Covers(ByOffset(s)[n], i, size)
      <3>1. b[i] = 0
        BY <2>1 DEF Filled
      <3>2. Holding(s, i) = {}
        <4>1. ASSUME NEW k \in Holding(s, i) PROVE FALSE
          <5>1. k \in DOMAIN s
            BY DEF Holding
          <5> QED  BY <2>1, <5>1, SortedHasAll, CoversIsHolding
        <4> QED  BY <4>1
      <3> QED  BY <3>1, <3>2 DEF Laid
    <2>2. CASE \E n \in 1 .. Len(s) : Covers(ByOffset(s)[n], i, size)
      <3>1. PICK n \in 1 .. Len(s) : /\ Covers(ByOffset(s)[n], i, size)
                                     /\ b[i] = Stored(ByOffset(s)[n], i)
        BY <2>2 DEF Filled
      <3>2. PICK k \in DOMAIN s : ByOffset(s)[n] = s[k]
        BY SortedExtents
      <3>3. k \in Holding(s, i)
        BY <3>1, <3>2, CoversIsHolding
      <3>4. \A m \in Holding(s, i) : m = k
        BY <3>3 DEF WellLaid
      <3>5. (CHOOSE m \in Holding(s, i) : TRUE) = k
        BY <3>3, <3>4
      <3> QED  BY <3>1, <3>2, <3>3, <3>5 DEF Laid, Stored
    <2> QED  BY <2>1, <2>2
  <1>3. DOMAIN Laid(s, size) = 1 .. size
    BY DEF Laid
  <1>4. Laid(s, size) = [i \in 1 .. size |-> Laid(s, size)[i]]
    BY <1>3 DEF Laid
  <1>5. b = [i \in 1 .. size |-> b[i]]
    BY <1>1
  <1> QED
    BY <1>2, <1>4, <1>5

\* What a codec made of a text it decodes to that text.
LEMMA CodedDecodes ==
    ASSUME NEW p \in Seq(Nat), NEW text \in Seq(Nat), Coded(p, text)
    PROVE  Decoder(p) = {text}
  <1>1. /\ Len(p) >= 2 /\ p[1] = Len(text) /\ p[1] \in Nat
        /\ \A i \in DOMAIN text : text[i] = p[2]
    BY DEF Coded
  <1>2. text = [i \in 1 .. Len(text) |-> p[2]]
    BY <1>1
  <1> QED
    BY <1>1, <1>2 DEF Decoder

\* What is left behind a marker.
LEMMA BehindMarker ==
    ASSUME NEW text \in Seq(Nat), NEW v \in Nat
    PROVE  /\ <<v>> \o text \in Seq(Nat) /\ <<v>> \o text # <<>>
           /\ (<<v>> \o text)[1] = v
           /\ From(<<v>> \o text, 2) = text
  <1>1. <<v>> \in Seq(Nat) /\ Len(<<v>>) = 1 /\ <<v>>[1] = v
    OBVIOUS
  <1>2. PICK p : p = <<v>> \o text
    OBVIOUS
  <1>3. p \in Seq(Nat) /\ Len(p) = Len(text) + 1
    BY <1>1, <1>2, ConcatProperties
  <1>4. \A i \in 1 .. 1 + Len(text) : p[i] = IF i <= 1 THEN v ELSE text[i - 1]
    BY <1>1, <1>2, ConcatProperties
  <1>5. p # <<>> /\ p[1] = v
    BY <1>3, <1>4
  <1>6. Tail(p) = text
    <2>1. /\ Tail(p) \in Seq(Nat) /\ Len(Tail(p)) = Len(text)
          /\ \A i \in 1 .. Len(Tail(p)) : Tail(p)[i] = p[i + 1]
      BY <1>3, <1>5, HeadTailProperties
    <2>2. ASSUME NEW i \in 1 .. Len(Tail(p)) PROVE Tail(p)[i] = text[i]
      <3>1. i + 1 \in 1 .. 1 + Len(text) /\ ~(i + 1 <= 1) /\ (i + 1) - 1 = i
        BY <2>1
      <3> QED  BY <1>4, <2>1, <3>1
    <2> QED  BY <2>1, <2>2, SeqEqual
  <1>7. From(p, 2) = Tail(p)
    BY <1>3, <1>5, TailIsSubSeq DEF From
  <1> QED
    BY <1>2, <1>3, <1>5, <1>6, <1>7

\* compression.rs, decode_inline: every inline form decodes to what it holds.
LEMMA InlineDecodes ==
    ASSUME NEW p \in Seq(Nat), NEW text \in Seq(Nat), NEW t \in Nat,
           InlineStored(t, p, text)
    PROVE  /\ t \in {1, 3, 7, 9, 11}
           /\ Inline(t, p, Len(text)) = {text}
  <1>1. t \in {1, 3, 7, 9, 11}
    BY DEF InlineStored
  <1>2. CASE t = 1
    BY <1>2 DEF InlineStored, Inline
  <1>3. CASE t = 9
    <2>1. p # <<>> /\ Tail(p) = text
      BY <1>3 DEF InlineStored
    <2>2. From(p, 2) = text
      BY <2>1, TailIsSubSeq DEF From
    <2> QED  BY <1>3, <2>2 DEF Inline
  <1>4. CASE t = 3
    <2>1. CASE p = <<RawZlib>> \o text
      <3>1. p # <<>> /\ p[1] = RawZlib /\ From(p, 2) = text
        BY <2>1, BehindMarker DEF RawZlib
      <3> QED  BY <1>4, <3>1 DEF Inline
    <2>2. CASE Coded(p, text) /\ p[1] # RawZlib
      BY <1>4, <2>2, CodedDecodes DEF Inline
    <2> QED  BY <1>4, <2>1, <2>2 DEF InlineStored
  <1>5. CASE t = 7
    <2>1. CASE p = <<RawLzvn>> \o text
      <3>1. p # <<>> /\ p[1] = RawLzvn /\ From(p, 2) = text
        BY <2>1, BehindMarker DEF RawLzvn
      <3> QED  BY <1>5, <3>1 DEF Inline
    <2>2. CASE Coded(p, text) /\ p[1] # RawLzvn
      <3>1. Lzvn(p, Len(text)) = {text}
        BY <2>2, CodedDecodes DEF Lzvn
      <3> QED  BY <1>5, <2>2, <3>1 DEF Inline
    <2> QED  BY <1>5, <2>1, <2>2 DEF InlineStored
  <1>6. CASE t = 11
    BY <1>6, CodedDecodes DEF Inline, InlineStored
  <1> QED
    BY <1>1, <1>2, <1>3, <1>4, <1>5, <1>6

-----------------------------------------------------------------------------
\* The files a writer stored correctly

\* What the decoder has done when it comes to slot next.
ChunksInv ==
    /\ InResourceFork(Type)
    /\ next <= Slots
    /\ src = IF Type = 4 THEN fork[1] + 1 ELSE fork[next + 1]
    /\ out = SubSeq(file.plain, 1, Reach(file.plain, next * CHUNK_SIZE))

RestoreInv ==
    file.sound =>
        /\ sized.status \in {"none", "ok"} \cup WalkFailures
        /\ sized.status = "ok" => sized.size = Len(file.plain)
        /\ status \in {"none", "ok"} \cup WalkFailures
        /\ status = "ok" => out = file.plain
        /\ pc \notin {"chunks", "done"} => next = 0 /\ out = <<>>
        /\ pc = "fork" \/ (pc = "extents" /\ purpose = "fork") =>
               InResourceFork(Type)
        /\ pc = "extents" /\ purpose = "fork" => file.fork.kind = "stream"
        /\ pc \in {"decode", "chunks"} /\ InResourceFork(Type) =>
               fork = Value(file.fork)
        /\ pc = "chunks" => ChunksInv

\* What is known of a file that its writer stored correctly.
LEMMA SoundStored ==
    ASSUME NEW f \in Files, f.sound
    PROVE  StoredAs(f, f.plain) /\ f.plain \in Seq(Nat)
  BY SoundAssumption, FilesAssumption DEF IsFile

\* Its com.apple.decmpfs value declares the length, and says where the
\* content is.
LEMMA SoundHeader ==
    ASSUME NEW f \in Files, f.sound, f.decmpfs.kind # "absent",
           NEW h \in Seq(Nat), RightHeader(f, h)
    PROVE  /\ HeaderValid(h) /\ Len(h) >= 3 /\ h[2] \in Nat
           /\ h[3] = Len(f.plain)
           /\ \/ /\ InlineStored(h[2], From(h, HEADER_LEN + 1), f.plain)
                 /\ ~InResourceFork(h[2])
              \/ ForkStored(f.fork, h[2], f.plain) /\ InResourceFork(h[2])
           /\ Algorithm(h[2]) \notin {"none", "LzBitmap"}
  <1>1. /\ f.decmpfs.extents \in Seq(FileExtent) /\ f.decmpfs.size \in Nat
        /\ f.decmpfs.kind \in {"absent", "embedded", "stream"}
        /\ StoredAs(f, f.plain) /\ f.plain \in Seq(Nat)
    BY FileType, SoundStored
  <1>2. h = Value(f.decmpfs)
    <2>1. CASE f.decmpfs.kind = "embedded"
      BY <2>1 DEF RightHeader, Value
    <2>2. CASE f.decmpfs.kind = "stream"
      <3>1. WellLaid(f.decmpfs.extents, f.decmpfs.size)
        BY <1>1, <2>2 DEF StoredAs
      <3>2. Filled(h, ByOffset(f.decmpfs.extents), Len(f.decmpfs.extents),
                   f.decmpfs.size)
        BY <2>2 DEF RightHeader
      <3> QED  BY <1>1, <2>2, <3>1, <3>2, FilledIsLaid DEF Value
    <2> QED  BY <1>1, <2>1, <2>2
  <1>3. /\ HeaderValid(h) /\ h[3] = Len(f.plain)
        /\ \/ InlineStored(h[2], From(h, HEADER_LEN + 1), f.plain)
           \/ ForkStored(f.fork, h[2], f.plain)
    BY <1>1, <1>2 DEF StoredAs
  <1>4. Len(h) >= 3 /\ h[2] \in Nat
    BY <1>3 DEF HeaderValid, HEADER_LEN
  <1>5. CASE InlineStored(h[2], From(h, HEADER_LEN + 1), f.plain)
    <2>1. h[2] \in {1, 3, 7, 9, 11}
      BY <1>5 DEF InlineStored
    <2>2. ~InResourceFork(h[2]) /\ Algorithm(h[2]) \notin {"none", "LzBitmap"}
      BY <2>1 DEF InResourceFork, Algorithm
    <2> QED  BY <1>3, <1>4, <1>5, <2>2
  <1>6. CASE ForkStored(f.fork, h[2], f.plain)
    <2>1. h[2] \in {4, 8, 10, 12}
      BY <1>6 DEF ForkStored
    <2>2. InResourceFork(h[2]) /\ Algorithm(h[2]) \notin {"none", "LzBitmap"}
      BY <2>1 DEF InResourceFork, Algorithm
    <2> QED  BY <1>3, <1>4, <1>6, <2>2
  <1> QED
    BY <1>3, <1>5, <1>6

\* The header in hand is that header.
LEMMA HeaderInHand ==
    ASSUME SInv, file.sound,
           \/ pc \in {"header", "fork", "decode", "chunks"}
           \/ pc = "extents" /\ purpose = "fork"
    PROVE  /\ file \in Files /\ file.decmpfs.kind # "absent"
           /\ header \in Seq(Nat) /\ file.plain \in Seq(Nat)
           /\ HeaderValid(header) /\ Len(header) >= 3 /\ Type \in Nat
           /\ Declared = Len(file.plain)
           /\ \/ /\ InlineStored(Type, From(header, HEADER_LEN + 1), file.plain)
                 /\ ~InResourceFork(Type)
              \/ ForkStored(file.fork, Type, file.plain) /\ InResourceFork(Type)
           /\ Algorithm(Type) \notin {"none", "LzBitmap"}
  <1>1. /\ file \in Files /\ file.decmpfs.kind # "absent"
        /\ header \in Seq(Nat) /\ RightHeader(file, header)
    BY DEF SInv, PhaseInv, HeaderInv, TypeOK
  <1> QED
    BY <1>1, SoundHeader, SoundStored DEF Type, Declared

\* Every stream that is read for such a file is well laid.
LEMMA SoundStream ==
    ASSUME SInv, RestoreInv, file.sound, pc = "extents"
    PROVE  /\ file \in Files /\ purpose \in {"data", "header", "fork"}
           /\ StreamOf(file, purpose) \in Seq(FileExtent)
           /\ SizeOf(file, purpose) \in Nat
           /\ WellLaid(StreamOf(file, purpose), SizeOf(file, purpose))
  <1>1. /\ file \in Files /\ purpose \in {"data", "header", "fork"}
        /\ StoredAs(file, file.plain)
    BY SoundStored DEF SInv, PhaseInv, TypeOK
  <1>2. StreamOf(file, purpose) \in Seq(FileExtent) /\ SizeOf(file, purpose) \in Nat
    BY <1>1, FileType DEF StreamOf, SizeOf
  <1>3. CASE purpose = "data"
    <2>1. file.decmpfs.kind = "absent"
      BY <1>3 DEF SInv, StreamInv
    <2>2. WellLaid(file.extents, file.size)
      BY <1>1, <2>1 DEF StoredAs
    <2>3. StreamOf(file, purpose) = file.extents /\ SizeOf(file, purpose) = file.size
      BY <1>3 DEF StreamOf, SizeOf
    <2> QED  BY <1>1, <1>2, <2>2, <2>3
  <1>4. CASE purpose = "header"
    <2>1. file.decmpfs.kind = "stream"
      BY <1>4 DEF SInv, StreamInv
    <2>2. WellLaid(file.decmpfs.extents, file.decmpfs.size)
      BY <1>1, <2>1 DEF StoredAs
    <2>3. /\ StreamOf(file, purpose) = file.decmpfs.extents
          /\ SizeOf(file, purpose) = file.decmpfs.size
      BY <1>4 DEF StreamOf, SizeOf
    <2> QED  BY <1>1, <1>2, <2>2, <2>3
  <1>5. CASE purpose = "fork"
    <2>1. file.fork.kind = "stream" /\ InResourceFork(Type)
      BY <1>5 DEF RestoreInv
    <2>2. ForkStored(file.fork, Type, file.plain)
      BY <1>5, <2>1, HeaderInHand
    <2>3. WellLaid(file.fork.extents, file.fork.size)
      BY <2>1, <2>2 DEF ForkStored
    <2>4. /\ StreamOf(file, purpose) = file.fork.extents
          /\ SizeOf(file, purpose) = file.fork.size
      BY <1>5 DEF StreamOf, SizeOf
    <2> QED  BY <1>1, <1>2, <2>3, <2>4
  <1> QED
    BY <1>1, <1>2, <1>3, <1>4, <1>5

\* One chunk more is the next piece of the text.
LEMMA CutGoesOn ==
    ASSUME NEW text \in Seq(Nat), NEW k \in Nat
    PROVE  /\ Cut(text, k) \in Seq(Nat)
           /\ k * CHUNK_SIZE < Len(text) =>
                 /\ Len(SubSeq(text, 1, Reach(text, k * CHUNK_SIZE))) = k * CHUNK_SIZE
                 /\ Len(Cut(text, k)) <= CHUNK_SIZE
                 /\ Len(Cut(text, k)) <= Len(text) - k * CHUNK_SIZE
           /\ SubSeq(text, 1, Reach(text, k * CHUNK_SIZE)) \o Cut(text, k)
                = SubSeq(text, 1, Reach(text, (k + 1) * CHUNK_SIZE))
  <1>1. CHUNK_SIZE \in Nat
    BY StreamAssumption
  <1>2. PICK c \in Nat : c = k * CHUNK_SIZE
    BY <1>1
  <1>3. (k + 1) * CHUNK_SIZE = c + CHUNK_SIZE
    BY <1>1, <1>2
  <1>4. PICK a \in Nat : a = Reach(text, c)
    BY DEF Reach
  <1>5. PICK z \in Nat : z = Reach(text, c + CHUNK_SIZE)
    BY <1>1 DEF Reach
  <1>6. /\ a <= z /\ z <= Len(text) /\ a <= c
        /\ (a = c /\ c <= Len(text)) \/ (a = Len(text) /\ z = Len(text) /\ c > Len(text))
        /\ c < Len(text) => z <= c + CHUNK_SIZE
    BY <1>1, <1>4, <1>5 DEF Reach
  <1>7. PICK d : d = SubSeq(text, c + 1, z)
    OBVIOUS
  <1>8. PICK b : b = SubSeq(text, 1, a)
    OBVIOUS
  <1>9. b \in Seq(Nat) /\ Len(b) = a
    <2>1. \A i \in 1 .. a : text[i] \in Nat
      BY <1>6
    <2> QED  BY <1>8, <2>1, SubSeqProperties
  <1>10. /\ d \in Seq(Nat) /\ Len(d) = z - a
         /\ b \o d = SubSeq(text, 1, z)
    <2>1. CASE a = c /\ c <= Len(text)
      <3>1. \A i \in c + 1 .. z : text[i] \in Nat
        BY <1>6
      <3>2. d \in Seq(Nat) /\ Len(d) = z - a
        BY <1>6, <1>7, <2>1, <3>1, SubSeqProperties
      <3>3. /\ 1 \in 1 .. Len(text) + 1 /\ a \in 1 - 1 .. Len(text)
            /\ z \in a .. Len(text)
        BY <1>6
      <3> QED  BY <1>7, <1>8, <2>1, <3>2, <3>3, ConcatAdjacentSubSeq
    <2>2. CASE a = Len(text) /\ z = Len(text) /\ c > Len(text)
      <3>1. d = <<>>
        BY <1>7, <2>2, SubSeqEmpty
      <3>2. b \o d = b
        BY <1>9, <3>1, ConcatEmptySeq
      <3> QED  BY <1>8, <2>2, <3>1, <3>2
    <2> QED  BY <1>6, <2>1, <2>2
  <1>11. Cut(text, k) = d
    BY <1>2, <1>5, <1>7 DEF Cut
  <1>12. c < Len(text) => /\ Len(b) = c /\ Len(d) <= CHUNK_SIZE
                          /\ Len(d) <= Len(text) - c
    BY <1>1, <1>6, <1>9, <1>10
  <1> QED
    BY <1>2, <1>3, <1>4, <1>5, <1>8, <1>9, <1>10, <1>11, <1>12

\* The chunk at hand is where the table says, and decodes to the next piece.
LEMMA ChunkIsThere ==
    ASSUME SInv, RestoreInv, file.sound, pc = "chunks", More
    PROVE  /\ SlotValid
           /\ Decoded(SubSeq(fork, Start + 1, End)) = {Cut(file.plain, next)}
           /\ Type # 4 => End = fork[next + 2]
  <1>1. /\ file.plain \in Seq(Nat) /\ Declared = Len(file.plain)
        /\ ForkStored(file.fork, Type, file.plain) \/ ~InResourceFork(Type)
    BY HeaderInHand
  <1>2. ChunksInv /\ fork = Value(file.fork)
    BY DEF RestoreInv, ChunksInv
  <1>3. ForkStored(file.fork, Type, file.plain)
    BY <1>1, <1>2 DEF ChunksInv
  <1>4. /\ fork \in Seq(Nat) /\ next \in Nat /\ src \in Nat /\ out \in Seq(Nat)
        /\ CHUNK_SIZE \in Nat
    BY StreamAssumption DEF SInv, TypeOK
  <1>5. PICK text \in Seq(Nat) : text = file.plain
    BY <1>1
  <1>6. Cut(text, next) \in Seq(Nat)
    BY <1>4, CutGoesOn
  <1>7. CASE Type = 4
    <2>1. PairsStored(fork, text)
      BY <1>2, <1>3, <1>5, <1>7 DEF ForkStored
    <2>2. src = fork[1] + 1 /\ next < fork[src + 1]
      BY <1>2, <1>7 DEF ChunksInv, More, Slots, Cell
    <2>3. /\ fork # <<>> /\ fork[1] \in Nat /\ src + 1 \in 1 .. Len(fork)
          /\ fork[src + 1] \in Nat /\ next \in 0 .. fork[src + 1] - 1
      <3>1. fork # <<>> /\ fork[1] + 2 <= Len(fork)
        BY <2>1 DEF PairsStored
      <3>2. fork[1] \in Nat
        BY <1>4, <3>1
      <3>3. src + 1 \in 1 .. Len(fork)
        BY <1>4, <2>2, <3>1, <3>2
      <3>4. fork[src + 1] \in Nat
        BY <1>4, <3>3
      <3> QED  BY <1>4, <2>2, <3>1, <3>2, <3>3, <3>4
    <2>4. /\ src + 2 * next + 3 <= Len(fork)
          /\ LET s == src + fork[src + 2 * next + 2]
             IN  ChunkAt(4, fork, s, s + fork[src + 2 * next + 3], text, next)
      BY <2>1, <2>2, <2>3 DEF PairsStored
    <2>5. /\ (src + 2 * next + 1) + 1 = src + 2 * next + 2
          /\ (src + 2 * next + 2) + 1 = src + 2 * next + 3
          /\ src + 2 * next + 2 < Len(fork)
      BY <1>4, <2>4
    <2>6. /\ Start = src + fork[src + 2 * next + 2]
          /\ End = Start + fork[src + 2 * next + 3]
          /\ SlotThere
      BY <1>7, <2>5 DEF Start, End, Cell, SlotThere, Has
    <2>7. ChunkAt(4, fork, Start, End, text, next)
      BY <2>4, <2>6
    <2>8. SlotValid
      BY <2>6, <2>7 DEF ChunkAt, SlotValid
    <2>9. fork[src + 2 * next + 2] \in Nat /\ fork[src + 2 * next + 3] \in Nat
      BY <1>4, <2>4
    <2>10. SubSeq(fork, Start + 1, End) \in Seq(Nat)
      <3>1. Start \in Nat /\ End \in Nat
        <4>1. PICK a \in Nat, b \in Nat : /\ a = fork[src + 2 * next + 2]
                                          /\ b = fork[src + 2 * next + 3]
          BY <2>9
        <4>2. Start = src + a /\ End = Start + b
          BY <2>6, <4>1
        <4>3. a \in Nat /\ b \in Nat /\ src \in Nat
          BY <1>4, <4>1
        <4>4. Start \in Nat
          BY <4>2, <4>3
        <4> QED  BY <4>2, <4>3, <4>4
      <3>2. End <= Len(fork)
        BY <2>7 DEF ChunkAt
      <3> QED  BY <1>4, <3>1, <3>2
    <2>11. Coded(SubSeq(fork, Start + 1, End), Cut(text, next))
      BY <2>7 DEF ChunkAt
    <2>12. Decoder(SubSeq(fork, Start + 1, End)) = {Cut(text, next)}
      BY <1>5, <1>6, <2>10, <2>11, CodedDecodes
    <2>13. Decoded(SubSeq(fork, Start + 1, End)) = {Cut(text, next)}
      BY <1>7, <2>12 DEF Decoded
    <2> QED  BY <1>5, <1>7, <2>8, <2>13
  <1>8. CASE Type # 4
    <2>1. Type \in {8, 10, 12} /\ EndsStored(Type, fork, text)
      BY <1>2, <1>3, <1>5, <1>8 DEF ForkStored
    <2>2. /\ src = fork[next + 1] /\ next < fork[1] - 1
          /\ Len(out) < Len(text)
          /\ out = SubSeq(text, 1, Reach(text, next * CHUNK_SIZE))
      <3>1. Slots = fork[1] - 1
        BY <1>8 DEF Slots, Cell
      <3> QED  BY <1>1, <1>2, <1>5, <1>8, <3>1 DEF ChunksInv, More
    <2>3. PICK c \in Nat : c = next * CHUNK_SIZE
      BY <1>4
    <2>4. c < Len(text)
      <3>1. CASE c >= Len(text)
        <4>1. Reach(text, c) = Len(text)
          BY <1>5, <2>3, <3>1 DEF Reach
        <4>2. out = text
          BY <1>5, <2>2, <2>3, <4>1, SubSeqFull
        <4>3. Len(text) < Len(text)
          BY <2>2, <4>2
        <4> QED  BY <1>5, <4>3
      <3> QED  BY <1>5, <2>3, <3>1
    <2>5. fork # <<>> /\ fork[1] \in Nat /\ next \in 0 .. fork[1] - 2
      <3>1. fork # <<>>
        BY <2>1 DEF EndsStored
      <3>2. fork[1] \in Nat
        BY <1>4, <3>1
      <3>3. PICK n \in Nat : n = fork[1]
        BY <3>2
      <3>4. next < n - 1
        BY <2>2, <3>3
      <3> QED  BY <1>4, <3>1, <3>3, <3>4
    <2>6. /\ next + 2 <= Len(fork)
          /\ ChunkAt(Type, fork, fork[next + 1], fork[next + 2], text, next)
      BY <2>1, <2>3, <2>4, <2>5 DEF EndsStored
    <2>7. Start = fork[next + 1] /\ End = fork[next + 2] /\ SlotThere
      BY <1>4, <1>8, <2>2, <2>6 DEF Start, End, Cell, SlotThere, Has
    <2>8. ChunkAt(Type, fork, Start, End, text, next)
      BY <2>6, <2>7
    <2>9. SlotValid
      BY <2>7, <2>8 DEF ChunkAt, SlotValid
    <2>10. SubSeq(fork, Start + 1, End) \in Seq(Nat)
      <3>1. Start \in Nat /\ End \in Nat /\ End <= Len(fork)
        BY <1>4, <2>6, <2>7, <2>8 DEF ChunkAt
      <3> QED  BY <1>4, <3>1
    <2>11. CASE Type = 10
      <3>1. SubSeq(fork, Start + 1, End) = Cut(text, next)
        BY <2>8, <2>11 DEF ChunkAt
      <3>2. Decoded(SubSeq(fork, Start + 1, End)) = {SubSeq(fork, Start + 1, End)}
        BY <2>11 DEF Decoded
      <3> QED  BY <1>5, <2>7, <2>9, <3>1, <3>2
    <2>12. CASE Type # 10
      <3>1. Coded(SubSeq(fork, Start + 1, End), Cut(text, next))
        BY <2>8, <2>12 DEF ChunkAt
      <3>2. Decoder(SubSeq(fork, Start + 1, End)) = {Cut(text, next)}
        BY <1>6, <2>10, <3>1, CodedDecodes
      <3>3. Len(Cut(text, next)) <= Remaining
        <4>1. /\ Len(out) = c /\ Len(Cut(text, next)) <= CHUNK_SIZE
              /\ Len(Cut(text, next)) <= Len(text) - c
          BY <1>4, <2>2, <2>3, <2>4, CutGoesOn
        <4> QED  BY <1>1, <1>5, <4>1 DEF Remaining
      <3>4. Decoded(SubSeq(fork, Start + 1, End)) = {Cut(text, next)}
        BY <1>8, <2>12, <3>2, <3>3 DEF Decoded, Lzvn
      <3> QED  BY <1>5, <2>7, <2>9, <3>4
    <2> QED  BY <2>11, <2>12
  <1> QED
    BY <1>7, <1>8

\* The table has a slot for every chunk.
LEMMA SlotsEnough ==
    ASSUME SInv, RestoreInv, file.sound, pc = "chunks"
    PROVE  Slots \in Int /\ Len(file.plain) <= Slots * CHUNK_SIZE
  <1>1. ForkStored(file.fork, Type, file.plain) \/ ~InResourceFork(Type)
    BY HeaderInHand
  <1>2. ChunksInv /\ fork = Value(file.fork)
    BY DEF RestoreInv, ChunksInv
  <1>3. ForkStored(file.fork, Type, file.plain)
    BY <1>1, <1>2 DEF ChunksInv
  <1>4. fork \in Seq(Nat)
    BY DEF SInv, TypeOK
  <1>5. CASE Type = 4
    <2>1. PairsStored(fork, file.plain)
      BY <1>2, <1>3, <1>5 DEF ForkStored
    <2>2. fork # <<>> /\ fork[1] + 2 <= Len(fork)
      BY <2>1 DEF PairsStored
    <2>3. fork[1] \in Nat
      BY <1>4, <2>2
    <2>4. src = fork[1] + 1
      BY <1>2, <1>5 DEF ChunksInv
    <2>5. src + 1 \in 1 .. Len(fork) /\ Slots = fork[src + 1]
      BY <1>4, <1>5, <2>2, <2>3, <2>4 DEF Slots, Cell
    <2>6. Len(file.plain) <= fork[src + 1] * CHUNK_SIZE
      BY <2>1, <2>4 DEF PairsStored
    <2> QED  BY <1>4, <2>5, <2>6
  <1>6. CASE Type # 4
    <2>1. EndsStored(Type, fork, file.plain)
      BY <1>2, <1>3, <1>6 DEF ForkStored
    <2>2. Slots = fork[1] - 1
      BY <1>6 DEF Slots, Cell
    <2>3. fork # <<>> /\ Len(file.plain) <= (fork[1] - 1) * CHUNK_SIZE
      BY <2>1 DEF EndsStored
    <2>4. fork[1] \in Nat
      BY <1>4, <2>3
    <2> QED  BY <2>2, <2>3, <2>4
  <1> QED
    BY <1>5, <1>6

\* Behind the last chunk that is looked at, all of the text is there.
LEMMA ChunksAreAll ==
    ASSUME SInv, RestoreInv, file.sound, pc = "chunks", ~More
    PROVE  out = file.plain
  <1>1. /\ file.plain \in Seq(Nat) /\ Declared = Len(file.plain)
        /\ ForkStored(file.fork, Type, file.plain) \/ ~InResourceFork(Type)
    BY HeaderInHand
  <1>2. ChunksInv /\ fork = Value(file.fork)
    BY DEF RestoreInv, ChunksInv
  <1>3. ForkStored(file.fork, Type, file.plain)
    BY <1>1, <1>2 DEF ChunksInv
  <1>4. /\ fork \in Seq(Nat) /\ next \in Nat /\ CHUNK_SIZE \in Nat
    BY StreamAssumption DEF SInv, TypeOK
  <1>5. PICK text \in Seq(Nat) : text = file.plain
    BY <1>1
  <1>6. PICK c \in Nat : c = next * CHUNK_SIZE
    BY <1>4
  <1>7. out = SubSeq(text, 1, Reach(text, c))
    BY <1>2, <1>5, <1>6 DEF ChunksInv
  <1>8. Slots \in Int /\ Len(text) <= Slots * CHUNK_SIZE
    BY <1>5, SlotsEnough
  <1>9. CASE ~(next < Slots)
    <2>1. next = Slots
      BY <1>2, <1>4, <1>8, <1>9 DEF ChunksInv
    <2>2. Reach(text, c) = Len(text)
      BY <1>6, <1>8, <2>1 DEF Reach
    <2> QED  BY <1>5, <1>7, <2>2, SubSeqFull
  <1>10. CASE ~(Len(out) < Declared)
    <2>1. CASE c < Len(text)
      <3>1. Len(out) = c
        BY <1>4, <1>6, <1>7, <2>1, CutGoesOn
      <3> QED  BY <1>1, <1>5, <1>10, <2>1, <3>1
    <2>2. CASE c >= Len(text)
      <3>1. Reach(text, c) = Len(text)
        BY <2>2 DEF Reach
      <3> QED  BY <1>5, <1>7, <3>1, SubSeqFull
    <2> QED  BY <2>1, <2>2
  <1> QED
    BY <1>9, <1>10 DEF More

\* Nothing changes the file.
LEMMA FileKept ==
    ASSUME [Next]_vars
    PROVE  file' = file /\ window' = window
  <1> USE DEF Fail, SizeReturns, ReadReturns, Open, Proceed, NextExtent, Finish
  <1>1. CASE UNCHANGED vars
    BY <1>1 DEF vars
  <1>2. CASE \/ SizeOfPlain \/ OpenData \/ HeaderEmbedded \/ HeaderTooLong
             \/ HeaderStreamed
    BY <1>2 DEF SizeOfPlain, OpenData, HeaderEmbedded, HeaderTooLong, HeaderStreamed
  <1>3. CASE \/ SkipExtent \/ ExtentOverflows \/ ExtentPastImage \/ CopyExtent
             \/ StreamRead \/ SourceFails
    BY <1>3 DEF SkipExtent, ExtentOverflows, ExtentPastImage, CopyExtent,
                StreamRead, SourceFails
  <1>4. CASE \/ SizeDeclared \/ SizeUnknown \/ NoType \/ NeedsFork \/ NeedsNoFork
             \/ ForkInHand \/ ForkStreamed
    BY <1>4 DEF SizeDeclared, SizeUnknown, NoType, NeedsFork, NeedsNoFork,
                ForkInHand, ForkStreamed
  <1>5. CASE \/ Refused \/ DecodeInline \/ OpenTable \/ NoTable \/ BadSlot
             \/ BadChunk \/ DecodeChunk \/ TableDone
    BY <1>5 DEF Refused, DecodeInline, OpenTable, NoTable, BadSlot, BadChunk,
                DecodeChunk, TableDone
  <1> QED
    BY <1>1, <1>2, <1>3, <1>4, <1>5 DEF Next, Advance, Returned

\* A walk or the source fails a call.
LEMMA SourceFailed ==
    ASSUME SInv, RestoreInv, file.sound, pc \notin {"chunks", "done"},
           NEW s \in WalkFailures, Fail(s)
    PROVE  RestoreInv'
  <1>1. CASE op = "data_size" /\ SizeReturns(s, 0)
    BY <1>1 DEF RestoreInv, SizeReturns, SInv, PhaseInv, WalkFailures
  <1>2. CASE /\ status' = s /\ pc' = "done"
             /\ UNCHANGED <<file, window, op, reading, decoding, sized>>
    BY <1>2 DEF RestoreInv, decoding, WalkFailures
  <1> QED
    BY <1>1, <1>2 DEF Fail

\* data_size returns the length of the text.
LEMMA RightSize ==
    ASSUME SInv, RestoreInv, file.sound, op = "data_size",
           SizeReturns("ok", Len(file.plain))
    PROVE  RestoreInv'
  <1>1. pc \notin {"chunks", "done"} /\ status = "none"
    BY DEF SInv, PhaseInv
  <1> QED
    BY <1>1 DEF RestoreInv, SizeReturns

\* read_data returns the text.
LEMMA RightContent ==
    ASSUME RestoreInv, file.sound, ReadReturns(file.plain)
    PROVE  RestoreInv'
  BY DEF RestoreInv, ReadReturns

\* The call goes on with the header or the fork in hand.
LEMMA RightStep ==
    ASSUME RestoreInv, file.sound, pc \notin {"chunks", "done"}, NEW h, NEW f,
           NEW p \in {"header", "fork", "decode"}, Proceed(h, f, p),
           p = "fork" => InResourceFork(h[2]),
           p = "decode" /\ InResourceFork(h[2]) => f = Value(file.fork)
    PROVE  RestoreInv'
  BY DEF RestoreInv, Proceed, Type

\* A stream of a sound file opens.
LEMMA RightOpen ==
    ASSUME RestoreInv, file.sound, pc \notin {"chunks", "done"},
           NEW p \in {"data", "header", "fork"}, NEW s, NEW size \in Nat,
           Open(p, s, size), size <= MAX_FILE_BYTES,
           p = "fork" => pc = "fork" /\ file.fork.kind = "stream"
    PROVE  RestoreInv'
  <1>1. /\ purpose' = p /\ pc' = "extents"
        /\ UNCHANGED <<file, window, op, decoding, sized, status>>
    BY StreamAssumption DEF Open
  <1> QED
    BY <1>1 DEF RestoreInv, Type, decoding

\* Attributes, and the streams that are opened.
LEMMA RestoreOpens ==
    ASSUME SInv, RestoreInv, file.sound,
           \/ SizeOfPlain \/ HeaderEmbedded \/ HeaderTooLong
           \/ OpenData \/ HeaderStreamed \/ ForkStreamed
    PROVE  RestoreInv'
  <1>1. /\ file \in Files /\ StoredAs(file, file.plain)
        /\ file.size \in Nat /\ file.decmpfs.size \in Nat /\ file.fork.size \in Nat
        /\ MAX_FILE_BYTES \in Nat /\ MAX_DECMPFS_XATTR_BYTES \in Nat
    BY SoundStored, FileType, StreamAssumption DEF SInv, PhaseInv
  <1>2. pc \notin {"chunks", "done"}
    BY DEF SizeOfPlain, HeaderEmbedded, HeaderTooLong, OpenData, HeaderStreamed,
           ForkStreamed
  <1>3. CASE SizeOfPlain
    <2>1. Laid(file.extents, file.size) = file.plain
      BY <1>1, <1>3 DEF SizeOfPlain, StoredAs
    <2>2. Len(Laid(file.extents, file.size)) = file.size
      <3>1. PICK n \in Nat : n = file.size
        BY <1>1
      <3>2. DOMAIN Laid(file.extents, n) = 1 .. n
        BY DEF Laid
      <3>3. file.plain \in Seq(Nat)
        BY <1>1, SoundStored
      <3> QED  BY <2>1, <3>1, <3>2, <3>3
    <2> QED  BY <1>3, <2>1, <2>2, RightSize DEF SizeOfPlain
  <1>4. CASE HeaderEmbedded
    BY <1>2, <1>4, RightStep DEF HeaderEmbedded
  <1>5. CASE HeaderTooLong
    BY <1>1, <1>5 DEF HeaderTooLong, StoredAs
  <1>6. CASE OpenData
    <2>1. file.size <= MAX_FILE_BYTES
      BY <1>1, <1>6 DEF OpenData, StoredAs, WellLaid
    <2> QED  BY <1>1, <1>2, <1>6, <2>1, RightOpen DEF OpenData
  <1>7. CASE HeaderStreamed
    <2>1. file.decmpfs.size <= MAX_FILE_BYTES
      BY <1>1, <1>7 DEF HeaderStreamed, StoredAs, WellLaid
    <2> QED  BY <1>1, <1>2, <1>7, <2>1, RightOpen DEF HeaderStreamed
  <1>8. CASE ForkStreamed
    <2>1. pc = "fork" /\ file.fork.kind = "stream"
      BY <1>8 DEF ForkStreamed
    <2>2. InResourceFork(Type)
      BY <2>1 DEF RestoreInv
    <2>3. ForkStored(file.fork, Type, file.plain)
      BY <2>1, <2>2, HeaderInHand
    <2>4. file.fork.size <= MAX_FILE_BYTES
      BY <2>1, <2>3 DEF ForkStored, WellLaid
    <2> QED  BY <1>1, <1>2, <1>8, <2>1, <2>4, RightOpen DEF ForkStreamed
  <1> QED
    BY <1>3, <1>4, <1>5, <1>6, <1>7, <1>8

\* The copy loop goes through to the end of the stream.
LEMMA RestoreExtents ==
    ASSUME SInv, RestoreInv, file.sound,
           \/ SkipExtent \/ ExtentOverflows \/ ExtentPastImage \/ CopyExtent
    PROVE  RestoreInv'
  <1>1. CASE SkipExtent \/ CopyExtent
    <2>1. /\ pc = "extents"
          /\ UNCHANGED <<file, window, op, pc, purpose, decoding, sized, status>>
      BY <1>1 DEF SkipExtent, CopyExtent, AtExtent, NextExtent
    <2> QED  BY <2>1 DEF RestoreInv, Type, decoding
  <1>2. CASE ExtentOverflows \/ ExtentPastImage
    <2>1. AtExtent /\ Stops(Head(todo), Len(buf)) /\ pc = "extents"
      BY <1>2 DEF ExtentOverflows, ExtentPastImage, Stops, AtExtent
    <2>2. /\ file \in Files /\ purpose \in {"data", "header", "fork"}
          /\ StreamOf(file, purpose) \in Seq(FileExtent)
          /\ SizeOf(file, purpose) \in Nat
          /\ WellLaid(StreamOf(file, purpose), SizeOf(file, purpose))
      BY <2>1, SoundStream
    <2>3. /\ todo \in Seq(FileExtent) /\ todo # <<>> /\ buf \in Seq(Nat)
          /\ Assembling(file, purpose, todo, buf)
      BY <2>1 DEF SInv, TypeOK, StreamInv, AtExtent
    <2>4. PICK k \in 1 .. Len(StreamOf(file, purpose)) :
             Stops(ByOffset(StreamOf(file, purpose))[k], SizeOf(file, purpose))
      BY <2>1, <2>2, <2>3, StreamGoesOn
    <2> QED  BY <2>2, <2>4, NothingStops
  <1> QED
    BY <1>1, <1>2

\* The stream that was read is the one that was laid down.
LEMMA RestoreStream ==
    ASSUME SInv, RestoreInv, file.sound, StreamRead
    PROVE  RestoreInv'
  <1>1. pc = "extents" /\ todo = <<>>
    BY DEF StreamRead
  <1>2. /\ file \in Files /\ purpose \in {"data", "header", "fork"}
        /\ StreamOf(file, purpose) \in Seq(FileExtent)
        /\ SizeOf(file, purpose) \in Nat
        /\ WellLaid(StreamOf(file, purpose), SizeOf(file, purpose))
    BY <1>1, SoundStream
  <1>3. Filled(buf, ByOffset(StreamOf(file, purpose)),
               Len(StreamOf(file, purpose)), SizeOf(file, purpose))
    BY <1>1, <1>2, StreamEnds DEF SInv, StreamInv
  <1>4. buf = Laid(StreamOf(file, purpose), SizeOf(file, purpose))
    BY <1>2, <1>3, FilledIsLaid
  <1>5. CASE purpose = "data" /\ ReadReturns(buf)
    <2>1. file.decmpfs.kind = "absent"
      BY <1>1, <1>5 DEF SInv, StreamInv
    <2>2. Laid(file.extents, file.size) = file.plain
      BY <1>2, <2>1, SoundStored DEF StoredAs
    <2>3. buf = file.plain
      BY <1>4, <1>5, <2>2 DEF StreamOf, SizeOf
    <2> QED  BY <1>5, <2>3, RightContent
  <1>6. CASE purpose = "header" /\ Proceed(buf, <<>>, "header")
    BY <1>1, <1>6, RightStep
  <1>7. CASE purpose = "fork" /\ Proceed(header, buf, "decode")
    <2>1. file.fork.kind = "stream"
      BY <1>1, <1>7 DEF RestoreInv
    <2>2. buf = Value(file.fork)
      BY <1>4, <1>7, <2>1 DEF StreamOf, SizeOf, Value
    <2> QED  BY <1>1, <1>7, <2>2, RightStep
  <1> QED
    BY <1>5, <1>6, <1>7 DEF StreamRead

\* The header is recognised, and the fork fetched when it is needed.
LEMMA RestoreHeader ==
    ASSUME SInv, RestoreInv, file.sound,
           \/ SizeDeclared \/ SizeUnknown \/ NoType \/ NeedsFork \/ NeedsNoFork
           \/ ForkInHand
    PROVE  RestoreInv'
  <1>1. /\ pc \in {"header", "fork"}
    BY DEF SizeDeclared, SizeUnknown, NoType, NeedsFork, NeedsNoFork, ForkInHand
  <1>2. /\ HeaderValid(header) /\ Len(header) >= 3
        /\ header[3] = Len(file.plain)
    BY <1>1, HeaderInHand DEF Declared
  <1>3. CASE SizeDeclared
    BY <1>2, <1>3, RightSize DEF SizeDeclared
  <1>4. CASE SizeUnknown \/ NoType
    BY <1>2, <1>4 DEF SizeUnknown, NoType
  <1>5. CASE NeedsFork
    BY <1>1, <1>5, RightStep DEF NeedsFork
  <1>6. CASE NeedsNoFork
    BY <1>1, <1>6, RightStep DEF NeedsNoFork
  <1>7. CASE ForkInHand
    <2>1. file.fork.bytes = Value(file.fork)
      BY <1>7 DEF ForkInHand, Value
    <2> QED  BY <1>1, <1>7, <2>1, RightStep DEF ForkInHand
  <1> QED
    BY <1>3, <1>4, <1>5, <1>6, <1>7

\* An inline payload is decoded to the text; nothing is refused.
LEMMA RestoreInline ==
    ASSUME SInv, RestoreInv, file.sound, Refused \/ DecodeInline
    PROVE  RestoreInv'
  <1>1. pc = "decode"
    BY DEF Refused, DecodeInline
  <1>2. /\ file.plain \in Seq(Nat) /\ header \in Seq(Nat)
        /\ HeaderValid(header) /\ Len(header) >= 3 /\ Type \in Nat
        /\ Declared = Len(file.plain)
        /\ \/ /\ InlineStored(Type, From(header, HEADER_LEN + 1), file.plain)
              /\ ~InResourceFork(Type)
           \/ ForkStored(file.fork, Type, file.plain) /\ InResourceFork(Type)
        /\ Algorithm(Type) \notin {"none", "LzBitmap"}
    BY <1>1, HeaderInHand
  <1>3. CASE Refused
    <2>1. InResourceFork(Type) => file.fork.kind # "absent"
      BY <1>2 DEF ForkStored
    <2> QED  BY <1>2, <1>3, <2>1 DEF Refused, Decodable
  <1>4. CASE DecodeInline
    <2>1. InlineStored(Type, From(header, HEADER_LEN + 1), file.plain)
      BY <1>2, <1>4 DEF DecodeInline
    <2>2. From(header, HEADER_LEN + 1) \in Seq(Nat)
      BY <1>2 DEF From, HEADER_LEN
    <2>3. Inline(Type, From(header, HEADER_LEN + 1), Declared) = {file.plain}
      BY <1>2, <2>1, <2>2, InlineDecodes
    <2>4. Finish(file.plain)
      BY <1>4, <2>3 DEF DecodeInline
    <2>5. ReadReturns(file.plain)
      BY <1>2, <2>4 DEF Finish
    <2> QED  BY <2>5, RightContent
  <1> QED
    BY <1>3, <1>4

\* The table of a fork is there, and no chunk is decoded yet.
LEMMA RestoreTable ==
    ASSUME SInv, RestoreInv, file.sound, OpenTable \/ NoTable
    PROVE  RestoreInv'
  <1>1. pc = "decode" /\ InResourceFork(Type)
    BY DEF OpenTable, NoTable
  <1>2. /\ file.plain \in Seq(Nat) /\ ForkStored(file.fork, Type, file.plain)
    BY <1>1, HeaderInHand
  <1>3. fork = Value(file.fork) /\ next = 0 /\ out = <<>> /\ fork \in Seq(Nat)
    BY <1>1 DEF RestoreInv, SInv, TypeOK
  <1>4. /\ fork # <<>> /\ fork[1] \in Nat
        /\ Type = 4 => fork[1] + 2 <= Len(fork)
        /\ Type # 4 => fork[1] > 0
    <2>1. /\ fork # <<>>
          /\ Type = 4 => fork[1] + 2 <= Len(fork)
          /\ Type # 4 => fork[1] > 0
      BY <1>2, <1>3 DEF ForkStored, PairsStored, EndsStored
    <2> QED  BY <1>3, <2>1
  <1>5. TableValid
    <2>1. Has(0) /\ Cell(0) = fork[1]
      BY <1>3, <1>4 DEF Has, Cell
    <2>2. Type = 4 => Has(Cell(0) + 1)
      BY <1>3, <1>4, <2>1 DEF Has
    <2> QED  BY <1>4, <2>1, <2>2 DEF TableValid
  <1>6. CASE NoTable
    BY <1>5, <1>6 DEF NoTable
  <1>7. CASE OpenTable
    <2>1. /\ pc' = "chunks" /\ src' = IF Type = 4 THEN fork[1] + 1 ELSE fork[1]
          /\ UNCHANGED <<file, window, op, reading, header, fork, next, out, sized,
                         status>>
      BY <1>7 DEF OpenTable, Cell
    <2>2. Type' = Type
      BY <2>1 DEF Type
    <2>3. (next <= Slots)'
      <3>1. CASE Type = 4
        <4>1. Slots' = fork[(fork[1] + 1) + 1] /\ (fork[1] + 1) + 1 = fork[1] + 2
          BY <1>4, <2>1, <2>2, <3>1 DEF Slots, Cell
        <4>2. fork[fork[1] + 2] \in Nat
          BY <1>3, <1>4, <3>1
        <4> QED  BY <1>3, <2>1, <4>1, <4>2
      <3>2. CASE Type # 4
        <4>1. Slots' = fork[1] - 1
          BY <2>1, <2>2, <3>2 DEF Slots, Cell
        <4> QED  BY <1>3, <1>4, <2>1, <3>2, <4>1
      <3> QED  BY <3>1, <3>2
    <2>4. out = SubSeq(file.plain, 1, Reach(file.plain, next * CHUNK_SIZE))
      <3>1. next * CHUNK_SIZE = 0
        BY <1>3, StreamAssumption
      <3>2. Reach(file.plain, 0) = 0
        BY <1>2 DEF Reach
      <3> QED  BY <1>3, <3>1, <3>2, SubSeqEmpty
    <2>5. ChunksInv'
      BY <1>1, <1>3, <2>1, <2>2, <2>3, <2>4 DEF ChunksInv
    <2> QED  BY <1>1, <1>3, <2>1, <2>2, <2>5 DEF RestoreInv
  <1> QED
    BY <1>6, <1>7

\* Chunk by chunk the text is put together; no slot and no chunk is refused.
LEMMA RestoreChunks ==
    ASSUME SInv, RestoreInv, file.sound,
           BadSlot \/ BadChunk \/ DecodeChunk \/ TableDone
    PROVE  RestoreInv'
  <1>1. pc = "chunks"
    BY DEF BadSlot, BadChunk, DecodeChunk, TableDone
  <1>2. file.plain \in Seq(Nat) /\ Declared = Len(file.plain)
    BY <1>1, HeaderInHand
  <1>3. ChunksInv /\ fork = Value(file.fork) /\ next \in Nat
    BY <1>1 DEF RestoreInv, ChunksInv, SInv, TypeOK
  <1>4. CASE BadSlot \/ BadChunk
    BY <1>1, <1>4, ChunkIsThere DEF BadSlot, BadChunk
  <1>5. CASE TableDone
    <2>1. out = file.plain
      BY <1>1, <1>5, ChunksAreAll DEF TableDone
    <2>2. ReadReturns(file.plain)
      BY <1>2, <1>5, <2>1 DEF TableDone, Finish
    <2> QED  BY <2>2, RightContent
  <1>6. CASE DecodeChunk
    <2>1. /\ Decoded(SubSeq(fork, Start + 1, End)) = {Cut(file.plain, next)}
          /\ Type # 4 => End = fork[next + 2]
      BY <1>1, <1>6, ChunkIsThere DEF DecodeChunk
    <2>2. /\ out' = out \o Cut(file.plain, next)
          /\ src' = IF Type = 4 THEN src ELSE fork[next + 2]
          /\ next' = next + 1
          /\ UNCHANGED <<file, window, op, pc, reading, header, fork, sized, status>>
      BY <1>6, <2>1 DEF DecodeChunk
    <2>3. Type' = Type /\ Slots' = Slots
      BY <2>2 DEF Type, Slots, Cell
    <2>4. next < Slots /\ Slots \in Int
      <3>1. next < Slots
        BY <1>6 DEF DecodeChunk, More
      <3> QED  BY <1>1, <3>1, SlotsEnough
    <2>5. out' = SubSeq(file.plain, 1, Reach(file.plain, (next + 1) * CHUNK_SIZE))
      BY <1>2, <1>3, <2>2, CutGoesOn DEF ChunksInv
    <2>6. (next + 1) + 1 = next + 2
      BY <1>3
    <2>7. ChunksInv'
      <3>1. next' <= Slots'
        BY <1>3, <2>2, <2>3, <2>4
      <3>2. src' = IF Type' = 4 THEN fork'[1] + 1 ELSE fork'[next' + 1]
        BY <1>3, <2>2, <2>3, <2>6 DEF ChunksInv
      <3>3. InResourceFork(Type)'
        BY <1>3, <2>3 DEF ChunksInv, InResourceFork
      <3>4. out' = SubSeq(file'.plain, 1, Reach(file'.plain, next' * CHUNK_SIZE))
        BY <2>2, <2>5
      <3> QED  BY <3>1, <3>2, <3>3, <3>4 DEF ChunksInv
    <2>8. pc' = "chunks" /\ fork' = Value(file'.fork)
      BY <1>1, <1>3, <2>2
    <2>9. sized' = sized /\ status' = status /\ status # "ok"
      BY <1>1, <2>2 DEF SInv, PhaseInv
    <2> QED  BY <1>1, <2>2, <2>7, <2>8, <2>9 DEF RestoreInv
  <1> QED
    BY <1>4, <1>5, <1>6

\* vfs.rs, read_at: a cell of the window is the cell of the content it shows.
LEMMA WindowCell ==
    ASSUME NEW text \in Seq(Nat), NEW w \in [off : Nat, len : Nat],
           NEW i \in 1 .. w.len, w.off + i <= Len(text)
    PROVE  Window(text, w)[i] = text[w.off + i]
  <1>1. PICK o \in Nat, l \in Nat, n \in Nat :
           o = w.off /\ l = w.len /\ n = Len(text)
    OBVIOUS
  <1>2. i \in 1 .. l /\ o + i <= n
    BY <1>1
  <1>3. PICK z \in Nat : z = IF l < n - o THEN o + l ELSE n
    BY <1>1
  <1>4. ~(o >= n) /\ o + i <= z /\ z <= n
    BY <1>1, <1>2, <1>3
  <1>5. Window(text, w) = SubSeq(text, o + 1, z)
    BY <1>1, <1>3, <1>4 DEF Window
  <1>6. o \in Nat /\ z \in Nat /\ i \in Nat /\ i >= 1 /\ Len(text) \in Nat
    BY <1>1, <1>2, <1>3
  <1>7. i \in 1 .. z - (o + 1) + 1 /\ (o + 1) + i - 1 = o + i
    BY <1>4, <1>6
  <1>8. SubSeq(text, o + 1, z)[i] = text[(o + 1) + i - 1]
    <2>1. z <= Len(text)
      BY <1>1, <1>4
    <2>2. \A j \in o + 1 .. z : text[j] \in Nat
      BY <1>6, <2>1
    <2>3. o + 1 \in Int /\ z \in Int
      BY <1>6
    <2> QED  BY <1>7, <2>2, <2>3, SubSeqProperties
  <1> QED
    BY <1>1, <1>5, <1>7, <1>8

-----------------------------------------------------------------------------
\* Theorems

\* Both calls keep the inductive invariant, for every file, image and limit.
THEOREM StreamInvariance == Spec => []SInv
  <1>1. Init => SInv
    <2> SUFFICES ASSUME Init PROVE SInv
      OBVIOUS
    <2>1. TypeOK
      BY StreamAssumption DEF Init, TypeOK, Statuses, WalkFailures
    <2>2. PhaseInv /\ StreamInv /\ HeaderInv /\ ResultInv
      BY DEF Init, PhaseInv, StreamInv, HeaderInv, ResultInv
    <2> QED  BY <2>1, <2>2 DEF SInv
  <1>2. SInv /\ [Next]_vars => SInv'
    <2> SUFFICES ASSUME SInv, [Next]_vars PROVE SInv'
      OBVIOUS
    <2>1. CASE UNCHANGED vars
      BY <2>1 DEF SInv, TypeOK, PhaseInv, StreamInv, HeaderInv, ResultInv, vars
    <2>2. CASE SizeOfPlain \/ HeaderEmbedded \/ HeaderTooLong
      BY <2>2, AttributeSteps
    <2>3. CASE OpenData \/ HeaderStreamed \/ ForkStreamed
      BY <2>3, OpenSteps
    <2>4. CASE SkipExtent \/ ExtentOverflows \/ ExtentPastImage \/ CopyExtent
      BY <2>4, ExtentSteps
    <2>5. CASE StreamRead
      BY <2>5, StreamReadStep
    <2>6. CASE \/ SizeDeclared \/ SizeUnknown \/ NoType \/ NeedsFork
               \/ NeedsNoFork \/ ForkInHand
      BY <2>6, HeaderSteps
    <2>7. CASE Refused \/ NoTable \/ BadSlot \/ BadChunk
      BY <2>7, RefusalSteps
    <2>8. CASE DecodeInline
      BY <2>8, DecodeInlineStep
    <2>9. CASE OpenTable
      BY <2>9, OpenTableStep
    <2>10. CASE DecodeChunk
      BY <2>10, DecodeChunkStep
    <2>11. CASE TableDone
      BY <2>11, TableDoneStep
    <2>12. CASE SourceFails
      BY <2>12, SourceFailsStep
    <2> QED
      BY <2>1, <2>2, <2>3, <2>4, <2>5, <2>6, <2>7, <2>8, <2>9, <2>10, <2>11,
         <2>12 DEF Next, Advance, Returned
  <1> QED
    BY <1>1, <1>2, PTL DEF Spec

\* Every variable keeps its type and no buffer outgrows the caps of extent.rs
\* and xattr.rs, whatever the records say.
THEOREM TypeCorrect == Spec => []TypeOK
  <1>1. SInv => TypeOK
    BY DEF SInv
  <1> QED
    BY <1>1, StreamInvariance, PTL

\* However malformed the records, a read that succeeds has the length that
\* data_size told, and a size that could not be told for another reason than
\* the source belongs to a content that cannot be read.
THEOREM AnnouncedLength == Spec => []SizeIsLength
  <1>1. SInv => SizeIsLength
    <2> SUFFICES ASSUME SInv, status = "ok" PROVE SizeIsLength
      BY DEF SizeIsLength
    <2>1. file \in Files /\ Announced(file, Len(out))
      BY DEF SInv, PhaseInv, ResultInv
    <2>2. sized.status # "none"
      BY DEF SInv, PhaseInv, TypeOK
    <2>3. CASE sized.status = "ok"
      BY <2>1, <2>3, OneLength DEF SInv, ResultInv, SizeIsLength
    <2>4. CASE sized.status \notin {"none", "ok"} \cup WalkFailures
      BY <2>1, <2>4, OneLength DEF SInv, ResultInv
    <2> QED  BY <2>2, <2>3, <2>4 DEF SizeIsLength
  <1> QED
    BY <1>1, StreamInvariance, PTL

\* No cell of plain content is made up by read_stream, for any extents: they
\* may overlap, leave holes or reach behind the size.
THEOREM NoInventedContent == Spec => []NothingInvented
  <1>1. SInv => NothingInvented
    <2> SUFFICES ASSUME SInv, status = "ok", file.decmpfs.kind = "absent",
                        NEW i \in DOMAIN out, out[i] # 0
                 PROVE  \E k \in DOMAIN file.extents :
                          LET e == file.extents[k] IN
                          /\ e.phys # 0 /\ e.off < i /\ i <= e.off + e.len
                          /\ out[i] = Image[e.phys * BlockSize + (i - e.off)]
      BY DEF NothingInvented
    <2>1. /\ file \in Files
          /\ Filled(out, ByOffset(file.extents), Len(file.extents), file.size)
      BY DEF SInv, PhaseInv, ResultInv
    <2>2. file.extents \in Seq(FileExtent) /\ file.size \in Nat
      BY <2>1, FileType
    <2>3. i \in 1 .. file.size
      BY <2>1 DEF Filled
    <2>4. PICK n \in 1 .. Len(file.extents) :
             /\ Covers(ByOffset(file.extents)[n], i, file.size)
             /\ out[i] = Stored(ByOffset(file.extents)[n], i)
      BY <2>1, <2>3 DEF Filled
    <2>5. PICK k \in DOMAIN file.extents : ByOffset(file.extents)[n] = file.extents[k]
      BY <2>2, SortedExtents
    <2>6. PICK e \in FileExtent : e = file.extents[k]
      BY <2>2
    <2>7. Covers(e, i, file.size) /\ out[i] = Stored(e, i)
      BY <2>4, <2>5, <2>6
    <2>8. /\ e.off \in Nat /\ e.len \in Nat
          /\ e.phys # 0 /\ e.off < i /\ i <= e.off + CopyLen(e, file.size)
          /\ e.off < file.size
      BY <2>2, <2>7 DEF Covers, Ignored, FileExtent
    <2>9. i <= e.off + e.len
      BY <2>2, <2>3, <2>8 DEF CopyLen
    <2> QED  BY <2>5, <2>6, <2>7, <2>8, <2>9 DEF Stored
  <1> QED
    BY <1>1, StreamInvariance, PTL

\* Reading a file that its writer stored correctly keeps the invariant.
THEOREM RestoreInvariance == Spec => [](SInv /\ RestoreInv /\ window \in Windows)
  <1>1. Init => RestoreInv /\ window \in Windows
    BY DEF Init, RestoreInv
  <1>2. SInv /\ RestoreInv /\ [Next]_vars => RestoreInv'
    <2> SUFFICES ASSUME SInv, RestoreInv, [Next]_vars PROVE RestoreInv'
      OBVIOUS
    <2>1. CASE ~file.sound
      BY <2>1, FileKept DEF RestoreInv
    <2>2. CASE file.sound
      <3>1. CASE UNCHANGED vars
        BY <3>1 DEF RestoreInv, ChunksInv, Type, Slots, Cell, vars
      <3>2. CASE \/ SizeOfPlain \/ HeaderEmbedded \/ HeaderTooLong
                 \/ OpenData \/ HeaderStreamed \/ ForkStreamed
        BY <2>2, <3>2, RestoreOpens
      <3>3. CASE SkipExtent \/ ExtentOverflows \/ ExtentPastImage \/ CopyExtent
        BY <2>2, <3>3, RestoreExtents
      <3>4. CASE StreamRead
        BY <2>2, <3>4, RestoreStream
      <3>5. CASE \/ SizeDeclared \/ SizeUnknown \/ NoType \/ NeedsFork
                 \/ NeedsNoFork \/ ForkInHand
        BY <2>2, <3>5, RestoreHeader
      <3>6. CASE Refused \/ DecodeInline
        BY <2>2, <3>6, RestoreInline
      <3>7. CASE OpenTable \/ NoTable
        BY <2>2, <3>7, RestoreTable
      <3>8. CASE BadSlot \/ BadChunk \/ DecodeChunk \/ TableDone
        BY <2>2, <3>8, RestoreChunks
      <3>9. CASE SourceFails
        BY <2>2, <3>9, SourceFailed DEF SourceFails, WalkFailures
      <3> QED
        BY <3>1, <3>2, <3>3, <3>4, <3>5, <3>6, <3>7, <3>8, <3>9
           DEF Next, Advance, Returned
    <2> QED  BY <2>1, <2>2
  <1>3. ASSUME window \in Windows, [Next]_vars PROVE (window \in Windows)'
    BY <1>3, FileKept
  <1> QED
    BY <1>1, <1>2, <1>3, StreamInvariance, PTL DEF Spec

\* extent.rs, compression.rs, vfs.rs: a file that its writer stored correctly,
\* whatever its length, extents, form of compression, chunks and padding, is
\* read back as it was stored, every window of it, unless the source fails.
THEOREM WhatWasStored == Spec => []ContentIsRestored
  <1>1. SInv /\ RestoreInv /\ window \in Windows => ContentIsRestored
    <2> SUFFICES ASSUME SInv, RestoreInv, window \in Windows, file.sound,
                        status = "ok",
                        NEW i \in 1 .. window.len,
                        window.off + i <= Len(file.plain)
                 PROVE  Window(out, window)[i] = file.plain[window.off + i]
      BY DEF RestoreInv, ContentIsRestored
    <2>1. file \in Files /\ window \in Windows /\ out = file.plain
      BY DEF SInv, PhaseInv, RestoreInv
    <2>2. file.plain \in Seq(Nat) /\ window \in [off : Nat, len : Nat]
      BY <2>1, SoundStored, FilesAssumption
    <2> QED  BY <2>1, <2>2, WindowCell
  <1> QED
    BY <1>1, RestoreInvariance, PTL
==============================================================================
