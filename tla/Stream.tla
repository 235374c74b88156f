-------------------------------- MODULE Stream --------------------------------
(***************************************************************************)
(* The content of a file: data_size and read_data (extent.rs), the         *)
(* com.apple.decmpfs and com.apple.ResourceFork attributes they go through *)
(* (xattr.rs), the decmpfs decoder (compression.rs) and the window that    *)
(* read_at copies out (vfs.rs).  A caller asks for the size, as meta does, *)
(* and then reads.  One step is one walk of the fs-tree, one extent or one *)
(* chunk; any of the first two may fail in the source.                     *)
(*                                                                         *)
(* Bytes are cells: a field of a decmpfs header or of a fork's tables is   *)
(* one cell, so is a byte of content, and all lengths and offsets count    *)
(* cells.  A walk for one object delivers what TreeWalk shows it to, so a  *)
(* file is given by its records.                                           *)
(***************************************************************************)
EXTENDS Naturals, Sequences, FiniteSets

CONSTANTS
    BlockSize,                 \* cells of a block
    Image,                     \* the cells of the image, block 0 first
    AddrLimit,                 \* first block number whose offset overflows u64
    CHUNK_SIZE,                \* decmpfs.rs: 65536
    MAX_FILE_BYTES,            \* extent.rs: 16 GiB
    MAX_DECMPFS_XATTR_BYTES,   \* xattr.rs: 1 MiB
    Files,                     \* files that may be read
    Windows                    \* windows read_at is called with: [off, len]

MAGIC == 99                    \* 'cmpf'
HEADER_LEN == 3                \* magic, compression_type, uncompressed_size
RawZlib == 255                 \* marks an inline payload stored as it is
RawLzvn == 6

\* phys 0 is a sparse hole.
FileExtent == [off : Nat, len : Nat, phys : Nat]

\* An attribute: its kind, its embedded bytes, or its stream and its length.
Xattr == [kind : {"absent", "embedded", "stream"}, bytes : Seq(Nat),
          extents : Seq(FileExtent), size : Nat]

\* The records of a file: size is inode.size, 0 for None; extents are those
\* of private_id.  sound annotates a file that its writer stored correctly,
\* plain what it stored (StoredAs); they are no part of the image.
IsFile(f) ==
    /\ f.size \in Nat
    /\ f.extents \in Seq(FileExtent)
    /\ f.decmpfs \in Xattr
    /\ f.fork \in Xattr
    /\ f.sound \in BOOLEAN
    /\ f.plain \in Seq(Nat)

ASSUME StreamAssumption ==
    /\ BlockSize \in Nat \ {0} /\ CHUNK_SIZE \in Nat \ {0}
    /\ AddrLimit \in Nat /\ MAX_FILE_BYTES \in Nat
    /\ MAX_DECMPFS_XATTR_BYTES <= MAX_FILE_BYTES
    /\ MAX_DECMPFS_XATTR_BYTES \in Nat
    /\ Image \in Seq(Nat)

ASSUME FilesAssumption ==
    (\A f \in Files : IsFile(f)) /\ Windows \subseteq [off : Nat, len : Nat]

VARIABLES
    file,      \* the file
    window,    \* the window read_at is asked for
    op,        \* "data_size", then "read_data"
    pc,        \* what the call does next
    purpose,   \* what the stream being read is: "data", "header" or "fork"
    todo,      \* its extents still to copy
    buf,       \* its bytes so far
    header,    \* the com.apple.decmpfs value
    fork,      \* the resource fork
    next,      \* the table slot to decode next, from 0
    src,       \* where its chunk begins
    out,       \* the bytes decoded so far, in the end the content
    sized,     \* what data_size returned: [status, size]
    status     \* of the call under way: "none", "ok" or its error

vars == <<file, window, op, pc, purpose, todo, buf, header, fork, next, src,
          out, sized, status>>

reading == <<purpose, todo, buf>>
decoding == <<header, fork, next, src, out>>

Init ==
    /\ file \in Files
    /\ window \in Windows
    /\ op = "data_size"
    /\ pc = "xattrs"
    /\ purpose = "data" /\ todo = <<>> /\ buf = <<>>
    /\ header = <<>> /\ fork = <<>> /\ next = 0 /\ src = 0 /\ out = <<>>
    /\ sized = [status |-> "none", size |-> 0]
    /\ status = "none"

-----------------------------------------------------------------------------
\* Extents and windows

\* out.sort_by_key(logical_offset): a stable sort.
Place(s, k) ==
    Cardinality({m \in DOMAIN s : s[m].off < s[k].off
                                  \/ (s[m].off = s[k].off /\ m <= k)})

ByOffset(s) == [n \in DOMAIN s |-> s[CHOOSE k \in DOMAIN s : Place(s, k) = n]]

\* What read_at copies into the caller's buffer out of the content.
Window(bytes, w) ==
    IF w.off >= Len(bytes) THEN <<>>
    ELSE SubSeq(bytes, w.off + 1,
                IF w.len < Len(bytes) - w.off THEN w.off + w.len ELSE Len(bytes))

\* Holes, and what begins behind the logical size, leave the zeroes.
Ignored(e, size) == e.off >= size \/ e.phys = 0

\* Fault: an extent is copied up to the logical size, not to its own end.
CopyLenToEnd(e, size) == size - e.off

CopyLen(e, size) == IF e.len <= size - e.off THEN e.len ELSE size - e.off

\* read_exact of the span: an empty one succeeds anywhere.
PastImage(e, size) ==
    CopyLen(e, size) > 0 /\ e.phys * BlockSize + CopyLen(e, size) > Len(Image)

Copied(b, e) ==
    [i \in DOMAIN b |->
        IF e.off < i /\ i <= e.off + CopyLen(e, Len(b))
        THEN Image[e.phys * BlockSize + (i - e.off)] ELSE b[i]]

-----------------------------------------------------------------------------
\* Codecs (external) and the decmpfs header

\* A library decoder: a payload <<n, v, ...>> stands for n times v, anything
\* shorter is rejected.  The outcome is a set: empty for an error.
Decoder(p) == IF Len(p) < 2 THEN {} ELSE {[i \in 1 .. p[1] |-> p[2]]}

\* LZVN is told how much to produce.
Lzvn(p, want) == {d \in Decoder(p) : Len(d) <= want}

\* What decmpfs::classify knows; type 5 and the rest have no payload here.
Algorithm(t) ==
    CASE t \in {1, 9, 10} -> "Uncompressed"
      [] t \in {3, 4} -> "Zlib"
      [] t \in {7, 8} -> "Lzvn"
      [] t \in {11, 12} -> "Lzfse"
      [] t \in {13, 14} -> "LzBitmap"
      [] OTHER -> "none"

InResourceFork(t) == t \in {4, 8, 10, 12, 14}

HeaderValid(h) == Len(h) >= HEADER_LEN /\ h[1] = MAGIC

From(s, k) == SubSeq(s, k, Len(s))

\* decode_inline: the bytes behind the header, or behind their marker.
Inline(t, p, size) ==
    CASE t = 1 -> {p}
      [] t = 9 -> {From(p, 2)}
      [] t = 3 -> IF p # <<>> /\ p[1] = RawZlib THEN {From(p, 2)} ELSE Decoder(p)
      [] t = 7 -> IF p # <<>> /\ p[1] = RawLzvn THEN {From(p, 2)}
                  ELSE Lzvn(p, size)
      [] OTHER -> Decoder(p)

-----------------------------------------------------------------------------
\* What a writer stores

\* The extents of a stream that hold its cell i.
Holding(extents, i) ==
    {k \in DOMAIN extents : /\ extents[k].phys # 0 /\ extents[k].off < i
                            /\ i <= extents[k].off + extents[k].len}

\* The stream that extents lay down: zero where none holds the cell.
Laid(extents, size) ==
    [i \in 1 .. size |->
        IF Holding(extents, i) = {} THEN 0
        ELSE LET e == extents[CHOOSE k \in Holding(extents, i) : TRUE]
             IN  Image[e.phys * BlockSize + (i - e.off)]]

\* Extents inside the image that hold no cell twice, in any order.
WellLaid(extents, size) ==
    /\ size <= MAX_FILE_BYTES
    /\ \A k \in DOMAIN extents : extents[k].phys # 0 =>
          /\ extents[k].phys < AddrLimit
          /\ extents[k].phys * BlockSize + extents[k].len <= Len(Image)
    /\ \A i \in 1 .. size : \A k, m \in Holding(extents, i) : k = m

Value(x) == IF x.kind = "stream" THEN Laid(x.extents, x.size) ELSE x.bytes

\* A codec's payload for text: see Decoder.
Coded(p, text) ==
    Len(p) >= 2 /\ p[1] = Len(text) /\ \A i \in DOMAIN text : text[i] = p[2]

\* No codec begins a payload with the marker of a raw one.
InlineStored(t, p, text) ==
    CASE t = 1 -> p = text
      [] t = 9 -> p # <<>> /\ Tail(p) = text
      [] t = 3 -> \/ p = <<RawZlib>> \o text
                  \/ Coded(p, text) /\ p[1] # RawZlib
      [] t = 7 -> \/ p = <<RawLzvn>> \o text
                  \/ Coded(p, text) /\ p[1] # RawLzvn
      [] t = 11 -> Coded(p, text)
      [] OTHER -> FALSE

\* The first n cells of text, and its k-th chunk, from 0.
Reach(text, n) == IF n <= Len(text) THEN n ELSE Len(text)
Cut(text, k) ==
    SubSeq(text, k * CHUNK_SIZE + 1, Reach(text, k * CHUNK_SIZE + CHUNK_SIZE))

\* The cells from s to e, counted from 0, hold the k-th chunk.
ChunkAt(t, r, s, e, text, k) ==
    /\ s <= e /\ e <= Len(r)
    /\ LET p == SubSeq(r, s + 1, e)
       IN  IF t = 10 THEN p = Cut(text, k) ELSE Coded(p, Cut(text, k))

\* Type 4: one pair for every chunk, its offset counted from the table.
PairsStored(r, text) ==
    /\ r # <<>> /\ r[1] + 2 <= Len(r)
    /\ LET table == r[1] + 1
           count == r[table + 1] IN
       /\ Len(text) <= count * CHUNK_SIZE
       /\ \A k \in 0 .. count - 1 :
             /\ table + 2 * k + 3 <= Len(r)
             /\ LET s == table + r[table + 2 * k + 2]
                IN  ChunkAt(4, r, s, s + r[table + 2 * k + 3], text, k)

\* The other types: every chunk begins where the one before it ends.
EndsStored(t, r, text) ==
    /\ r # <<>> /\ r[1] > 0
    /\ Len(text) <= (r[1] - 1) * CHUNK_SIZE
    /\ \A k \in 0 .. r[1] - 2 : k * CHUNK_SIZE < Len(text) =>
          /\ k + 2 <= Len(r)
          /\ ChunkAt(t, r, r[k + 1], r[k + 2], text, k)

ForkStored(x, t, text) ==
    /\ x.kind # "absent"
    /\ x.kind = "stream" => WellLaid(x.extents, x.size)
    /\ \/ t = 4 /\ PairsStored(Value(x), text)
       \/ t \in {8, 10, 12} /\ EndsStored(t, Value(x), text)

\* The records of f hold text, plain, inline or in a resource fork.
StoredAs(f, text) ==
    \/ /\ f.decmpfs.kind = "absent"
       /\ WellLaid(f.extents, f.size)
       /\ Laid(f.extents, f.size) = text
    \/ /\ f.decmpfs.kind # "absent"
       /\ f.decmpfs.kind = "stream" =>
             /\ f.decmpfs.size <= MAX_DECMPFS_XATTR_BYTES
             /\ WellLaid(f.decmpfs.extents, f.decmpfs.size)
       /\ LET h == Value(f.decmpfs) IN
          /\ HeaderValid(h) /\ h[3] = Len(text)
          /\ \/ InlineStored(h[2], From(h, HEADER_LEN + 1), text)
             \/ ForkStored(f.fork, h[2], text)

ASSUME SoundAssumption == \A f \in Files : f.sound => StoredAs(f, f.plain)

-----------------------------------------------------------------------------
\* Returning

\* data_size returns; the caller goes on to read.
SizeReturns(s, n) ==
    /\ sized' = [status |-> s, size |-> n]
    /\ op' = "read_data"
    /\ pc' = "xattrs"
    /\ header' = <<>>
    /\ UNCHANGED <<file, window, reading, fork, next, src, out, status>>

Fail(s) ==
    \/ op = "data_size" /\ SizeReturns(s, 0)
    \/ /\ op = "read_data"
       /\ status' = s
       /\ pc' = "done"
       /\ UNCHANGED <<file, window, op, reading, decoding, sized>>

\* read_data returns all of the bytes.
ReadReturns(bytes) ==
    /\ out' = bytes
    /\ status' = "ok"
    /\ pc' = "done"
    /\ UNCHANGED <<file, window, op, reading, header, fork, next, src, sized>>

-----------------------------------------------------------------------------
\* The attribute and the streams

\* read_stream from its cap to the zeroed buffer.
Open(p, extents, size) ==
    \/ size > MAX_FILE_BYTES /\ Fail("FieldOutOfRange")
    \/ /\ size <= MAX_FILE_BYTES
       /\ purpose' = p
       /\ todo' = ByOffset(extents)
       /\ buf' = [i \in 1 .. size |-> 0]
       /\ pc' = "extents"
       /\ UNCHANGED <<file, window, op, decoding, sized, status>>

SizeOfPlain ==
    /\ pc = "xattrs" /\ op = "data_size"
    /\ file.decmpfs.kind = "absent"
    /\ SizeReturns("ok", file.size)

OpenData ==
    /\ pc = "xattrs" /\ op = "read_data"
    /\ file.decmpfs.kind = "absent"
    /\ Open("data", file.extents, file.size)

\* On to step p, with the header or the fork in hand.
Proceed(h, f, p) ==
    /\ header' = h
    /\ fork' = f
    /\ pc' = p
    /\ UNCHANGED <<file, window, op, reading, next, src, out, sized, status>>

HeaderEmbedded ==
    /\ pc = "xattrs"
    /\ file.decmpfs.kind = "embedded"
    /\ Proceed(file.decmpfs.bytes, <<>>, "header")

HeaderTooLong ==
    /\ pc = "xattrs"
    /\ file.decmpfs.kind = "stream"
    /\ file.decmpfs.size > MAX_DECMPFS_XATTR_BYTES
    /\ Fail("FieldOutOfRange")

\* Fault: the length of a stream-backed header is not capped.
HeaderStreamedUncapped ==
    /\ pc = "xattrs"
    /\ file.decmpfs.kind = "stream"
    /\ Open("header", file.decmpfs.extents, file.decmpfs.size)

HeaderStreamed ==
    /\ pc = "xattrs"
    /\ file.decmpfs.kind = "stream"
    /\ file.decmpfs.size <= MAX_DECMPFS_XATTR_BYTES
    /\ Open("header", file.decmpfs.extents, file.decmpfs.size)

AtExtent == pc = "extents" /\ todo # <<>>

NextExtent(b) ==
    /\ buf' = b
    /\ todo' = Tail(todo)
    /\ UNCHANGED <<file, window, op, pc, purpose, decoding, sized, status>>

\* Fault: the loop goes on without moving to the next extent.
SkipExtentStuck ==
    /\ AtExtent
    /\ Ignored(Head(todo), Len(buf))
    /\ UNCHANGED vars

SkipExtent ==
    /\ AtExtent
    /\ Ignored(Head(todo), Len(buf))
    /\ NextExtent(buf)

ExtentOverflows ==
    /\ AtExtent
    /\ ~Ignored(Head(todo), Len(buf))
    /\ Head(todo).phys >= AddrLimit
    /\ Fail("FieldOutOfRange")

\* read_exact meets the end of the image: an I/O error of that kind.
ExtentPastImage ==
    /\ AtExtent
    /\ ~Ignored(Head(todo), Len(buf))
    /\ Head(todo).phys < AddrLimit
    /\ PastImage(Head(todo), Len(buf))
    /\ Fail("UnexpectedEof")

CopyExtent ==
    /\ AtExtent
    /\ ~Ignored(Head(todo), Len(buf))
    /\ Head(todo).phys < AddrLimit
    /\ ~PastImage(Head(todo), Len(buf))
    /\ NextExtent(Copied(buf, Head(todo)))

StreamRead ==
    /\ pc = "extents"
    /\ todo = <<>>
    /\ \/ purpose = "data" /\ ReadReturns(buf)
       \/ purpose = "header" /\ Proceed(buf, <<>>, "header")
       \/ purpose = "fork" /\ Proceed(header, buf, "decode")

\* What a walk for the records of one object may end in, see TreeWalk.
WalkFailures ==
    {"Io", "UnexpectedObjectType", "ChecksumMismatch", "OmapUnresolved",
     "CycleGuard"}

\* A walk for attributes or extents fails, or a read of the stream does:
\* nothing is returned.
SourceFails ==
    \/ pc \in {"xattrs", "fork"} /\ \E e \in WalkFailures : Fail(e)
    \/ pc = "extents" /\ Fail("Io")

-----------------------------------------------------------------------------
\* Decompression

SizeDeclared ==
    /\ pc = "header" /\ op = "data_size"
    /\ HeaderValid(header)
    /\ SizeReturns("ok", header[3])

SizeUnknown ==
    /\ pc = "header" /\ op = "data_size"
    /\ ~HeaderValid(header)
    /\ Fail("Decmpfs")

\* read_compressed looks at the type alone before it fetches the fork.
NoType ==
    /\ pc = "header" /\ op = "read_data"
    /\ Len(header) < 2
    /\ Fail("Decmpfs")

NeedsFork ==
    /\ pc = "header" /\ op = "read_data"
    /\ Len(header) >= 2
    /\ InResourceFork(header[2])
    /\ Proceed(header, <<>>, "fork")

NeedsNoFork ==
    /\ pc = "header" /\ op = "read_data"
    /\ Len(header) >= 2
    /\ ~InResourceFork(header[2])
    /\ Proceed(header, <<>>, "decode")

ForkInHand ==
    /\ pc = "fork"
    /\ file.fork.kind # "stream"
    /\ Proceed(header, file.fork.bytes, "decode")

ForkStreamed ==
    /\ pc = "fork"
    /\ file.fork.kind = "stream"
    /\ Open("fork", file.fork.extents, file.fork.size)

Type == header[2]
Declared == header[3]

Decodable ==
    /\ HeaderValid(header)
    /\ Algorithm(Type) \notin {"none", "LzBitmap"}
    /\ InResourceFork(Type) => file.fork.kind # "absent"

Refused == pc = "decode" /\ ~Decodable /\ Fail("Decmpfs")

\* Fault: the decoded length is not compared with the declared one.
FinishUnchecked(bytes) == ReadReturns(bytes)

\* decompress_decmpfs never returns a buffer of another length.
Finish(bytes) ==
    \/ Len(bytes) = Declared /\ ReadReturns(bytes)
    \/ Len(bytes) # Declared /\ Fail("Decmpfs")

DecodeInline ==
    LET d == Inline(Type, From(header, HEADER_LEN + 1), Declared) IN
    /\ pc = "decode" /\ Decodable
    /\ ~InResourceFork(Type)
    /\ \/ d = {} /\ Fail("Decmpfs")
       \/ \E bytes \in d : Finish(bytes)

\* Cells of the fork, counted from 0 as the code counts bytes.
Has(k) == k < Len(fork)
Cell(k) == fork[k + 1]

\* Type 4 has the classic header, a prefix cell and a table of (offset, size)
\* pairs with its count; the others begin with the header's size and one end
\* offset per slot, which may be more slots than chunks.
TableValid ==
    Has(0) /\ IF Type = 4 THEN Has(Cell(0) + 1) ELSE Cell(0) > 0

OpenTable ==
    /\ pc = "decode" /\ Decodable
    /\ InResourceFork(Type)
    /\ TableValid
    /\ src' = IF Type = 4 THEN Cell(0) + 1 ELSE Cell(0)
    /\ pc' = "chunks"
    /\ UNCHANGED <<file, window, op, reading, header, fork, next, out, sized,
                   status>>

NoTable ==
    /\ pc = "decode" /\ Decodable
    /\ InResourceFork(Type)
    /\ ~TableValid
    /\ Fail("Decmpfs")

\* A table of pairs holds its count; a table of end offsets is as long as the
\* header, whose length comes first.  A cell is a word: a header that ends
\* inside a word is not represented.
Slots == IF Type = 4 THEN Cell(src) ELSE Cell(0) - 1

\* Fault: every slot is taken for a chunk.
MoreSlots == next < Slots

\* Padding slots are never looked at: the loop ends at the declared size.
More == next < Slots /\ (Type = 4 \/ Len(out) < Declared)

SlotThere == IF Type = 4 THEN Has(src + 2 * next + 2) ELSE Has(next + 1)

Start == IF Type = 4 THEN src + Cell(src + 2 * next + 1) ELSE src
End == IF Type = 4 THEN Start + Cell(src + 2 * next + 2) ELSE Cell(next + 1)

SlotValid == SlotThere /\ Start <= End /\ End <= Len(fork)

Remaining ==
    IF Declared - Len(out) < CHUNK_SIZE THEN Declared - Len(out) ELSE CHUNK_SIZE

Decoded(chunk) ==
    CASE Type = 8 -> Lzvn(chunk, Remaining)
      [] Type = 10 -> {chunk}
      [] OTHER -> Decoder(chunk)

BadSlot ==
    /\ pc = "chunks" /\ More
    /\ ~SlotValid
    /\ Fail("Decmpfs")

BadChunk ==
    /\ pc = "chunks" /\ More
    /\ SlotValid
    /\ Decoded(SubSeq(fork, Start + 1, End)) = {}
    /\ Fail("Decmpfs")

DecodeChunk ==
    /\ pc = "chunks" /\ More
    /\ SlotValid
    /\ \E d \in Decoded(SubSeq(fork, Start + 1, End)) : out' = out \o d
    /\ src' = IF Type = 4 THEN src ELSE End
    /\ next' = next + 1
    /\ UNCHANGED <<file, window, op, pc, reading, header, fork, sized, status>>

TableDone == pc = "chunks" /\ ~More /\ Finish(out)

Advance ==
    \/ SizeOfPlain \/ OpenData \/ HeaderEmbedded \/ HeaderTooLong
    \/ HeaderStreamed \/ SkipExtent \/ ExtentOverflows \/ ExtentPastImage
    \/ CopyExtent \/ StreamRead \/ SizeDeclared \/ SizeUnknown \/ NoType
    \/ NeedsFork \/ NeedsNoFork \/ ForkInHand \/ ForkStreamed \/ Refused
    \/ DecodeInline \/ OpenTable \/ NoTable \/ BadSlot \/ BadChunk
    \/ DecodeChunk \/ TableDone

\* Both calls have returned.
Returned == pc = "done" /\ UNCHANGED vars

Next == Advance \/ SourceFails \/ Returned

\* A sequential call runs until it returns.
Spec == Init /\ [][Next]_vars /\ WF_vars(Advance)

-----------------------------------------------------------------------------
\* Properties

Statuses ==
    {"none", "ok", "UnexpectedEof", "FieldOutOfRange", "Decmpfs"} \cup WalkFailures

\* Every variable keeps its type; no buffer outgrows the caps.
TypeOK ==
    /\ op \in {"data_size", "read_data"}
    /\ pc \in {"xattrs", "extents", "header", "fork", "decode", "chunks", "done"}
    /\ purpose \in {"data", "header", "fork"}
    /\ todo \in Seq(FileExtent)
    /\ buf \in Seq(Nat) /\ Len(buf) <= MAX_FILE_BYTES
    /\ purpose = "header" => Len(buf) <= MAX_DECMPFS_XATTR_BYTES
    /\ header \in Seq(Nat) /\ fork \in Seq(Nat) /\ out \in Seq(Nat)
    /\ next \in Nat /\ src \in Nat
    /\ sized \in [status : Statuses, size : Nat]
    /\ status \in Statuses

\* A file its writer stored correctly, plain or compressed, in whatever form
\* and with whatever holes and padding, is read back as it was stored: its
\* size, its content and every window of it.  Only a walk or the source may
\* fail it, never the assembly or the decoding.
ContentIsRestored ==
    file.sound =>
        /\ sized.status \in {"none", "ok"} \cup WalkFailures
        /\ sized.status = "ok" => sized.size = Len(file.plain)
        /\ status \in {"none", "ok"} \cup WalkFailures
        /\ status = "ok" =>
             /\ out = file.plain
             /\ \A i \in 1 .. window.len :
                  window.off + i <= Len(file.plain) =>
                      Window(out, window)[i] = file.plain[window.off + i]

\* data_size: "the number of bytes read_data returns".  However malformed the
\* records, a read that succeeds has the length announced, and a size that
\* could not be told belongs to a content that cannot be read, unless only the
\* walk for it failed.
SizeIsLength ==
    status = "ok" => \/ sized.status = "ok" /\ sized.size = Len(out)
                     \/ sized.status \in WalkFailures

\* Plain content is never made up: a cell is zero or what the image holds
\* where some extent of the stream puts it.
NothingInvented ==
    (status = "ok" /\ file.decmpfs.kind = "absent") =>
        \A i \in DOMAIN out :
            \/ out[i] = 0
            \/ \E k \in DOMAIN file.extents :
                 LET e == file.extents[k] IN
                 /\ e.phys # 0 /\ e.off < i /\ i <= e.off + e.len
                 /\ out[i] = Image[e.phys * BlockSize + (i - e.off)]

\* Both calls return, whatever the tables say.
ReadReturnsAtLast == <>(pc = "done")
=============================================================================
