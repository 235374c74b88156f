------------------------------ MODULE MCStream ------------------------------
(***************************************************************************)
(* Blocks of two cells.  Block 0 is the container superblock, 1 and 2 hold *)
(* content, 3 and 4 a decmpfs header, 5 to 8 a resource fork.              *)
(***************************************************************************)
EXTENDS Stream

LzvnFork == <<4, 6, 8, 0, 2, 5, 1, 7>>
ZlibFork == <<1, 0, 2, 5, 2, 7, 2, 2, 5, 1, 7>>
RawFork == <<4, 6, 7, 0, 5, 5, 7>>

MCImage == <<0, 0, 5, 5, 7, 8, MAGIC, 8, 3, 0>> \o LzvnFork

Ext(off, len, phys) == [off |-> off, len |-> len, phys |-> phys]

Absent == [kind |-> "absent", bytes |-> <<>>, extents |-> <<>>, size |-> 0]
Embedded(b) == [Absent EXCEPT !.kind = "embedded", !.bytes = b]
Streamed(phys, len, size) ==
    [kind |-> "stream", bytes |-> <<>>, extents |-> <<Ext(0, len, phys)>>,
     size |-> size]

\* Plain files: any two extents, the ones a writer makes among them.
Extents == {Ext(off, len, phys) : off \in {0, 1, 2}, len \in {0, 2, 3, 4},
                                  phys \in {0, 1, 8, AddrLimit}}

PlainFiles ==
    {[size |-> n, extents |-> es, decmpfs |-> Absent, fork |-> Absent,
      sound |-> WellLaid(es, n),
      plain |-> IF WellLaid(es, n) THEN Laid(es, n) ELSE <<>>] :
        es \in Extents \X Extents, n \in {0, 3, 5, 9}}

\* Compressed files as a writer makes them.
Packed(xattr, resource, text) ==
    [size |-> 0, extents |-> <<>>, decmpfs |-> xattr, fork |-> resource,
     sound |-> TRUE, plain |-> text]

H(type, size, payload) == <<MAGIC, type, size>> \o payload

Text == <<5, 5, 7>>

SoundFiles ==
    {Packed(Embedded(H(1, 3, Text)), Absent, Text),
     Packed(Embedded(H(9, 3, <<0>> \o Text)), Absent, Text),
     Packed(Embedded(H(3, 3, <<RawZlib>> \o Text)), Absent, Text),
     Packed(Embedded(H(7, 3, <<RawLzvn>> \o Text)), Absent, Text),
     Packed(Embedded(H(3, 2, <<2, 5>>)), Absent, <<5, 5>>),
     Packed(Embedded(H(7, 2, <<2, 5>>)), Absent, <<5, 5>>),
     Packed(Embedded(H(11, 2, <<2, 5>>)), Absent, <<5, 5>>),
     Packed(Embedded(H(4, 3, <<>>)), Embedded(ZlibFork), Text),
     Packed(Embedded(H(8, 3, <<>>)), Embedded(LzvnFork), Text),
     Packed(Embedded(H(12, 3, <<>>)), Embedded(LzvnFork), Text),
     Packed(Embedded(H(10, 3, <<>>)), Embedded(RawFork), Text),
     Packed(Embedded(H(8, 0, <<>>)), Embedded(<<1>>), <<>>),
     Packed(Embedded(H(8, 3, <<>>)), Streamed(5, 8, 8), Text),
     Packed(Streamed(3, 4, 3), Streamed(5, 8, 8), Text),
     Packed(Streamed(3, 4, 3), Embedded(LzvnFork), Text)}

\* The same files with one cell changed, or cut short, anywhere.
Mangled(b) ==
    {[b EXCEPT ![k] = v] : k \in DOMAIN b, v \in {0, 3, 7, 9, 14}}
      \cup {SubSeq(b, 1, n) : n \in 0 .. Len(b) - 1}

Unsound(f) == [f EXCEPT !.sound = FALSE]

MangledXattr(x) ==
    IF x.kind = "embedded" THEN {Embedded(b) : b \in Mangled(x.bytes)}
    ELSE IF x.kind = "stream"
    THEN {[x EXCEPT !.size = n] : n \in {0, 1, 2, 4, 8, 9}}
         \cup {[x EXCEPT !.extents = <<Ext(0, 4, AddrLimit)>>],
               [x EXCEPT !.extents = <<Ext(0, 4, 8)>>], Absent}
    ELSE {}

MangledFiles ==
    UNION {{Unsound([f EXCEPT !.decmpfs = x]) : x \in MangledXattr(f.decmpfs)}
             \cup {Unsound([f EXCEPT !.fork = x]) : x \in MangledXattr(f.fork)} :
           f \in SoundFiles}
      \cup {Unsound([f EXCEPT !.fork = Absent]) : f \in SoundFiles}

MCFiles == PlainFiles \cup SoundFiles \cup MangledFiles

MCWindows == {[off |-> 1, len |-> 1], [off |-> 2, len |-> 9]}
=============================================================================
