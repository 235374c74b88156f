------------------------------- MODULE Spaceman -------------------------------
(***************************************************************************)
(* is_block_free (spaceman.rs): space manager, then the chunk-info block   *)
(* (CIB) that covers the block, then the bitmap of its chunk.  The first   *)
(* two are checksummed, the bitmap is raw.  One step is one block read.    *)
(***************************************************************************)
EXTENDS Ephemeral

\* Word positions in spaceman_phys_t and chunk_info_block_t.
SM_BLOCKS_PER_CHUNK == 3
SM_CHUNKS_PER_CIB == 4
DEV_BLOCK_COUNT == 5
DEV_CHUNK_COUNT == 6
DEV_CIB_COUNT == 7
DEV_CAB_COUNT == 8
DEV_ADDR_OFFSET == 9
CIB_CHUNK_INFO_COUNT == 3
CIB_CHUNK_INFO == 4

VARIABLE sm   \* the space manager as it was read

SpacemanInit == sm = <<>>

-----------------------------------------------------------------------------
\* Operators

ChunkIndex(s, block) == block \div Field(s, SM_BLOCKS_PER_CHUNK)

CibIndex(s, block) == ChunkIndex(s, block) \div Field(s, SM_CHUNKS_PER_CIB)

WithinCib(s, block) == ChunkIndex(s, block) % Field(s, SM_CHUNKS_PER_CIB)

\* The checks on the space manager, in the order the code makes them.
GeometryError(s, block) ==
    IF \/ Field(s, SM_BLOCKS_PER_CHUNK) = 0
       \/ Field(s, SM_CHUNKS_PER_CIB) = 0
       \/ block >= Field(s, DEV_BLOCK_COUNT) THEN "FieldOutOfRange"
    ELSE IF Field(s, DEV_CAB_COUNT) # 0 THEN "UnsupportedSpacemanCab"
    ELSE IF \/ ChunkIndex(s, block) >= Field(s, DEV_CHUNK_COUNT)
            \/ CibIndex(s, block) >= Field(s, DEV_CIB_COUNT) THEN "FieldOutOfRange"
    ELSE "none"

\* An address past the end of the space manager's block reads as 0.
CibAddr(s, block) == Field(s, Field(s, DEV_ADDR_OFFSET) + CibIndex(s, block))

ChunkInfoError(cib, n) ==
    IF n >= Field(cib, CIB_CHUNK_INFO_COUNT) THEN "FieldOutOfRange" ELSE "none"

BitmapAddr(cib, n) == Field(cib, CIB_CHUNK_INFO + n)

\* Bit j of word w is set.
IsSet(w, j) == (w \div 2 ^ j) % 2 = 1

\* Fault: bits are numbered from the most significant one.
AllocatedMsb(bitmap, bit) ==
    IsSet(Field(bitmap, bit \div WordBits + 1), (WordBits - 1) - (bit % WordBits))

\* Bits are numbered from the least significant one; past the block: clear.
Allocated(bitmap, bit) ==
    IsSet(Field(bitmap, bit \div WordBits + 1), bit % WordBits)

\* The allocation as a writer stores it.  CIB n is at d.cibs[n] and describes
\* up to perCib chunks from number n * perCib on; chunk c has perChunk blocks
\* from c * perChunk on, and their bits in the bitmap at d.bitmapOf[c], or no
\* bitmap and no allocated block.
SpaceStored(d) ==
    LET s == d.content[d.place[SpacemanOid]]
        perChunk == Field(s, SM_BLOCKS_PER_CHUNK)
        perCib == Field(s, SM_CHUNKS_PER_CIB)
        chunks == Field(s, DEV_CHUNK_COUNT)
        cibs == Field(s, DEV_CIB_COUNT)
        InCib(n) == {j \in 0 .. perCib - 1 : n * perCib + j < chunks}
    IN  /\ SpacemanOid \in DOMAIN d.place /\ Sealed(d, d.place[SpacemanOid])
        /\ perChunk # 0 /\ perCib # 0
        /\ Field(s, DEV_BLOCK_COUNT) = d.blocks /\ Field(s, DEV_CAB_COUNT) = 0
        /\ d.blocks <= chunks * perChunk /\ chunks <= cibs * perCib
        /\ d.alloc \subseteq 0 .. d.blocks - 1
        /\ \A n \in 0 .. cibs - 1 :
              /\ Field(s, Field(s, DEV_ADDR_OFFSET) + n) = d.cibs[n]
              /\ Sealed(d, d.cibs[n])
              /\ \A j \in InCib(n) :
                   /\ j < Field(d.content[d.cibs[n]], CIB_CHUNK_INFO_COUNT)
                   /\ Field(d.content[d.cibs[n]], CIB_CHUNK_INFO + j)
                        = d.bitmapOf[n * perCib + j]
        /\ \A c \in 0 .. chunks - 1 :
             IF d.bitmapOf[c] = 0
             THEN d.alloc \cap (c * perChunk .. (c + 1) * perChunk - 1) = {}
             ELSE /\ d.bitmapOf[c] \in d.bitmaps \cap DOMAIN d.content
                  /\ \A k \in 0 .. BlockWords - 1, j \in 0 .. WordBits - 1 :
                        k * WordBits + j < perChunk =>
                           (IsSet(d.content[d.bitmapOf[c]][k + 1], j) <=>
                              c * perChunk + k * WordBits + j \in d.alloc)
                  /\ perChunk <= BlockWords * WordBits

ASSUME SpaceAssumption == \A d \in Disks : d.sound => SpaceStored(d)

-----------------------------------------------------------------------------
\* Actions

LocateSpaceman ==
    Located("free", SpacemanOid, "spaceman") /\ UNCHANGED sm /\ Quiet

SpacemanRejected ==
    /\ stage = "spaceman"
    /\ LET e == IF ReadObj(at) # "Ok" THEN ReadObj(at)
                ELSE GeometryError(content[at], call.arg)
       IN  e # "none" /\ Refused(e)
    /\ UNCHANGED sm /\ Quiet

ReadSpaceman ==
    /\ stage = "spaceman"
    /\ ReadObj(at) = "Ok"
    /\ GeometryError(content[at], call.arg) = "none"
    /\ sm' = content[at]
    /\ Proceed("cib", CibAddr(content[at], call.arg))
    /\ Quiet

CibRejected ==
    /\ stage = "cib"
    /\ LET e == IF ReadObj(at) # "Ok" THEN ReadObj(at)
                ELSE ChunkInfoError(content[at], WithinCib(sm, call.arg))
       IN  e # "none" /\ Refused(e)
    /\ UNCHANGED sm /\ Quiet

CibRead ==
    /\ stage = "cib"
    /\ ReadObj(at) = "Ok"
    /\ ChunkInfoError(content[at], WithinCib(sm, call.arg)) = "none"
    /\ UNCHANGED sm /\ Quiet

\* A chunk without a bitmap is free altogether.
ChunkAllFree ==
    /\ CibRead
    /\ BitmapAddr(content[at], WithinCib(sm, call.arg)) = 0
    /\ Answered("Ok", TRUE)

ChunkHasBitmap ==
    /\ CibRead
    /\ BitmapAddr(content[at], WithinCib(sm, call.arg)) # 0
    /\ Proceed("bitmap", BitmapAddr(content[at], WithinCib(sm, call.arg)))

BitmapMissing ==
    /\ stage = "bitmap"
    /\ at \notin DOMAIN content
    /\ Refused("Io")
    /\ UNCHANGED sm /\ Quiet

ReadBitmap ==
    /\ stage = "bitmap"
    /\ at \in DOMAIN content
    /\ Answered("Ok", ~Allocated(content[at],
                                 call.arg % Field(sm, SM_BLOCKS_PER_CHUNK)))
    /\ UNCHANGED sm /\ Quiet

SpacemanStep ==
    \/ LocateSpaceman \/ SpacemanRejected \/ ReadSpaceman \/ CibRejected
    \/ ChunkAllFree \/ ChunkHasBitmap \/ BitmapMissing \/ ReadBitmap

-----------------------------------------------------------------------------
\* Properties

\* spaceman.rs "Resolves block to its chunk, ... reads the bit for the block
\* in that chunk": over several chunks and CIBs the answer is what the writer
\* allocated.  A lost word of the space manager or a CIB is never believed;
\* one of the raw bitmap, which the answer was read from, may mislead.  And
\* without loss every block of the device has an answer, and none behind it.
FreeIsTrue ==
    (call.op = "free" /\ stage = "done" /\ disk.sound) =>
        /\ answer.status = "Ok" =>
             \/ answer.value = (call.arg \notin disk.alloc)
             \/ \E f \in faults : f.addr \in disk.bitmaps
        /\ (faults = {} /\ answer.status # "Io") =>
             ((answer.status = "Ok") <=> (call.arg < disk.blocks))
=============================================================================
