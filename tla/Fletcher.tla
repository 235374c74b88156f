------------------------------- MODULE Fletcher -------------------------------
(***************************************************************************)
(* The object checksum (object.rs).  A block is a sequence of words of     *)
(* WordBits bits (32 in the code); the first two are the stored checksum,  *)
(* low word first, and count as zero in the sums.                          *)
(***************************************************************************)
EXTENDS Naturals, Sequences

CONSTANT WordBits

\* The second conjunct follows from the first, by an induction on WordBits.
ASSUME WordBitsAssumption ==
    WordBits \in Nat \ {0, 1} /\ 2 ^ WordBits \in Nat \ {0, 1}

Word == 0 .. 2 ^ WordBits - 1

Mod == 2 ^ WordBits - 1

\* Fault: every word weighs the same, a plain sum twice over.
FletcherSumsFlat(b) ==
    LET lo[k \in 0 .. Len(b)] ==
          IF k = 0 THEN 0 ELSE (lo[k - 1] + IF k <= 2 THEN 0 ELSE b[k]) % Mod
    IN  [lo |-> lo[Len(b)], hi |-> lo[Len(b)]]

\* The two running sums after all words of b.
FletcherSums(b) ==
    LET lo[k \in 0 .. Len(b)] ==
          IF k = 0 THEN 0 ELSE (lo[k - 1] + IF k <= 2 THEN 0 ELSE b[k]) % Mod
        hi[k \in 0 .. Len(b)] ==
          IF k = 0 THEN 0 ELSE (hi[k - 1] + lo[k]) % Mod
    IN  [lo |-> lo[Len(b)], hi |-> hi[Len(b)]]

fletcher64_checksum(b) ==
    LET s == FletcherSums(b)
        lo == Mod - ((s.lo + s.hi) % Mod)
    IN  <<lo, Mod - ((s.lo + lo) % Mod)>>

fletcher64_stored(b) == <<b[1], b[2]>>

Verified(b) == fletcher64_stored(b) = fletcher64_checksum(b)

\* le_u32, le_u64: a field past the end of the block reads as zero.
Field(b, k) == IF k \in DOMAIN b THEN b[k] ELSE 0
=============================================================================
