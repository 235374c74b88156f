---------------------------- MODULE Inspect_proofs ----------------------------
(***************************************************************************)
(* A container that is opened and then queried, for every disk and every   *)
(* call.  What Container_proofs shows of the open alone holds here too:    *)
(* queries and the medium leave the open undisturbed.                      *)
(*                                                                         *)
(* For any number of faults, a chain of reap lists is called cyclic only   *)
(* when it never ends or exceeds the cap, and reported as complete only    *)
(* when it ends.  The chain is a least set closed under the links on disk. *)
(* OnChain keeps that the lists entered lie on it and that each link from  *)
(* one of them leads to one of them or to the list at hand: when the list  *)
(* at hand was entered before, the lists entered are closed and the chain  *)
(* has no end.                                                             *)
(*                                                                         *)
(* With one fault at most (two in one block can cancel each other), the    *)
(* answers are what a writer stored.  The argument has three layers.  The  *)
(* checksum notices one lost word and two neighbours that change places,   *)
(* so a sealed block that is accepted is as it was written (MediumInv).    *)
(* The mappings of the open lead to where the writer put each object       *)
(* (PlaceIsFound).  And each query's arithmetic undoes the writer's: list  *)
(* slots, chunks and CIBs, aligned key entries.                            *)
(*                                                                         *)
(* The running sums, the entries of a list and the offsets in a keybag are *)
(* recursive functions.  Recursion gives their existence and UpTo what     *)
(* they compute; both are inductions over a set of numbers.                *)
(***************************************************************************)
EXTENDS Inspect, Container_proofs, FiniteSetTheorems, WellFoundedInduction

\* What holds of the open by itself.
OpenInv == IInv /\ OrderInv /\ BootInv /\ LegalOpens

\* The reap lists entered, and the one at hand, on the chain from o.
OnChain(o) ==
    /\ at \in Chain(o)
    /\ seen \subseteq Chain(o) \ {0}
    /\ o \in seen \cup {at}
    /\ \A q \in seen : NextList(q) \in seen \cup {at}

\* A query for the reap queue on a disk that has lost nothing.
Asking == call.op = "pending" /\ faults = {}

QueryInv ==
    /\ stage # "idle" => pc = "open"
    /\ call.op = "pending" => stage \in {"idle", "reaper", "list", "done"}
    /\ IsFiniteSet(seen)
    /\ stage \in {"idle", "reaper"} => seen = {}
    /\ faults = {} => content = disk.content
    /\ (Asking /\ stage = "reaper") => at \in ResolveEphemeral(ReaperOid)
    /\ (Asking /\ stage = "list") => \E o \in Head1 : OnChain(o)

InspectInv == OpenInv /\ QueryInv /\ LoopedQueueIsRefused

-----------------------------------------------------------------------------
\* Induction and recursion on numbers

\* Induction in the form of sets: a set that holds 0 and, with each number
\* below n, the next one, holds all numbers up to n.
LEMMA UpTo ==
    ASSUME NEW n \in Nat, NEW S, 0 \in S,
           \A k \in 0 .. n - 1 : k \in S => k + 1 \in S
    PROVE  0 .. n \subseteq S
  <1> DEFINE T == (0 .. n) \ S
  <1> SUFFICES ASSUME T # {} PROVE FALSE
    OBVIOUS
  <1>0. T \in SUBSET Nat
    OBVIOUS
  <1> HIDE DEF T
  <1>1. PICK x \in T : \A y \in T : ~(<<y, x>> \in OpToRel(<, Nat))
    BY <1>0, NatLessThanWellFounded, WFMin, Zenon
  <1>2. \A y \in T : ~(y < x)
    BY <1>0, <1>1 DEF OpToRel
  <1>3. x \in 1 .. n /\ x - 1 \notin T
    BY <1>0, <1>2 DEF T
  <1> QED
    BY <1>3 DEF T

\* F[k] takes S to S, for each step k; f begins with s and its value at k is
\* F[k] of its value at k - 1.
Steps(F, n, S) == \A k \in 1 .. n : \A x \in S : F[k][x] \in S

Iterates(f, F, n, S, s) ==
    /\ f \in [0 .. n -> S]
    /\ f[0] = s
    /\ \A k \in 1 .. n : f[k] = F[k][f[k - 1]]

\* A function defined by recursion on a number exists.
LEMMA Recursion ==
    ASSUME NEW n \in Nat, NEW S, NEW s \in S, NEW F, Steps(F, n, S)
    PROVE  \E f : Iterates(f, F, n, S, s)
  <1> DEFINE Def(f, m) == /\ f \in [0 .. m -> S] /\ f[0] = s
                          /\ \A k \in 1 .. m : f[k] = F[k][f[k - 1]]
             T == {m \in 0 .. n : \E f : Def(f, m)}
  <1>1. 0 \in T
    <2>1. Def([k \in 0 .. 0 |-> s], 0)
      OBVIOUS
    <2> HIDE DEF Def
    <2>2. \E f : Def(f, 0)
      BY <2>1
    <2> QED  BY <2>2
  <1>2. ASSUME NEW m \in 0 .. n - 1, m \in T
        PROVE  m + 1 \in T
    <2>1. PICK f : Def(f, m)
      BY <1>2
    <2> DEFINE g == [k \in 0 .. m + 1 |-> IF k <= m THEN f[k] ELSE F[m + 1][f[m]]]
    <2>2. F[m + 1][f[m]] \in S
      BY <2>1 DEF Steps
    <2>3. g \in [0 .. m + 1 -> S] /\ g[0] = s
      BY <2>1, <2>2
    <2>4. ASSUME NEW k \in 1 .. m + 1
          PROVE  g[k] = F[k][g[k - 1]]
      <3>1. g[k - 1] = f[k - 1]
        OBVIOUS
      <3>2. CASE k <= m
        BY <2>1, <3>1, <3>2
      <3>3. CASE k = m + 1
        BY <3>1, <3>3
      <3> QED  BY <3>2, <3>3
    <2>5. Def(g, m + 1)
      BY <2>3, <2>4
    <2> HIDE DEF Def
    <2>6. \E h : Def(h, m + 1)
      BY <2>5
    <2> QED  BY <2>6
  <1> HIDE DEF T
  <1>3. n \in T
    BY <1>1, <1>2, UpTo
  <1> QED
    BY <1>3 DEF T, Iterates

-----------------------------------------------------------------------------
\* The checksum

\* Mod is a number above 0, and words go up to it.
LEMMA ModType == Mod \in Nat \ {0} /\ Word = 0 .. Mod
  BY WordBitsAssumption DEF Mod, Word

\* The residue of a sum of two residues, or of a residue and a word.
LEMMA ModSmall ==
    ASSUME NEW m \in Nat \ {0}, NEW a \in Nat, a < 2 * m
    PROVE  a % m = IF a < m THEN a ELSE a - m
  BY SMTT(60)

\* A word added to a residue.
LEMMA AddWord ==
    ASSUME NEW m \in Nat \ {0}, NEW x \in 0 .. m - 1, NEW u \in 0 .. m
    PROVE  /\ (x + u) % m = IF x + u < m THEN x + u ELSE x + u - m
           /\ (x + u) % m \in 0 .. m - 1
  <1> DEFINE a == x + u
  <1>1. a \in Nat /\ a < 2 * m
    OBVIOUS
  <1> HIDE DEF a
  <1>2. a % m = IF a < m THEN a ELSE a - m
    BY <1>1, ModSmall
  <1>3. a % m \in 0 .. m - 1
    BY <1>1
  <1> QED  BY <1>2, <1>3 DEF a

\* Adding the same word to two residues keeps their distance.
LEMMA AddKeeps ==
    ASSUME NEW m \in Nat \ {0}, NEW x \in 0 .. m - 1, NEW y \in 0 .. m - 1,
           NEW u \in 0 .. m, NEW d \in 0 .. m - 1, y = x + d \/ y = x + d - m
    PROVE  \/ (y + u) % m = ((x + u) % m) + d
           \/ (y + u) % m = ((x + u) % m) + d - m
  <1>1. (x + u) % m = IF x + u < m THEN x + u ELSE x + u - m
    BY AddWord
  <1>2. (y + u) % m = IF y + u < m THEN y + u ELSE y + u - m
    BY AddWord
  <1> QED  BY <1>1, <1>2

\* p and q differ and are not 0 and m.
Apart(p, q, m) == p # q /\ ~(p = 0 /\ q = m) /\ ~(p = m /\ q = 0)

\* As Damaged and SwapWords say it.
LEMMA ApartPair ==
    ASSUME NEW m, NEW p, NEW q, p # q, {p, q} # {0, m}
    PROVE  Apart(p, q, m)
  BY DEF Apart

\* Adding two words that are apart to a residue gives two.
LEMMA AddDiffers ==
    ASSUME NEW m \in Nat \ {0}, NEW x \in 0 .. m - 1, NEW p \in 0 .. m,
           NEW q \in 0 .. m, Apart(p, q, m)
    PROVE  (x + p) % m # (x + q) % m
  <1>1. (x + p) % m = IF x + p < m THEN x + p ELSE x + p - m
    BY AddWord
  <1>2. (x + q) % m = IF x + q < m THEN x + q ELSE x + q - m
    BY AddWord
  <1> QED  BY <1>1, <1>2 DEF Apart

\* The same with a word added to two residues.
LEMMA AddDiffersLeft ==
    ASSUME NEW m \in Nat \ {0}, NEW x \in 0 .. m - 1, NEW y \in 0 .. m - 1,
           NEW u \in 0 .. m, x # y
    PROVE  (x + u) % m # (y + u) % m
  <1>1. (x + u) % m = IF x + u < m THEN x + u ELSE x + u - m
    BY AddWord
  <1>2. (y + u) % m = IF y + u < m THEN y + u ELSE y + u - m
    BY AddWord
  <1> QED  BY <1>1, <1>2

\* The order of two words does not matter to their sum.
LEMMA AddSwap ==
    ASSUME NEW m \in Nat \ {0}, NEW x \in 0 .. m - 1, NEW p \in 0 .. m,
           NEW q \in 0 .. m
    PROVE  (((x + p) % m) + q) % m = (((x + q) % m) + p) % m
  <1> DEFINE y == (x + p) % m
             z == (x + q) % m
  <1>1. /\ y = IF x + p < m THEN x + p ELSE x + p - m
        /\ y \in 0 .. m - 1
    BY AddWord
  <1>2. /\ z = IF x + q < m THEN x + q ELSE x + q - m
        /\ z \in 0 .. m - 1
    BY AddWord
  <1> HIDE DEF y, z
  <1>3. (y + q) % m = IF y + q < m THEN y + q ELSE y + q - m
    BY <1>1, AddWord
  <1>4. (z + p) % m = IF z + p < m THEN z + p ELSE z + p - m
    BY <1>2, AddWord
  <1>5. (y + q) % m = (z + p) % m
    BY <1>1, <1>2, <1>3, <1>4
  <1> QED  BY <1>5 DEF y, z

\* f is the running sum of the weights w[1], ..., w[n].
IsSum(f, w, n) ==
    /\ f \in [0 .. n -> 0 .. Mod - 1]
    /\ f[0] = 0
    /\ \A k \in 1 .. n : f[k] = (f[k - 1] + w[k]) % Mod

\* Weights have a running sum.
LEMMA SumExists ==
    ASSUME NEW n \in Nat, NEW w, \A k \in 1 .. n : w[k] \in 0 .. Mod
    PROVE  \E f : IsSum(f, w, n)
  <1> DEFINE S == 0 .. Mod - 1
             F == [k \in 1 .. n |-> [x \in S |-> (x + w[k]) % Mod]]
  <1>1. 0 \in S
    BY ModType
  <1>2. ASSUME NEW k \in 1 .. n, NEW x \in S
        PROVE  F[k][x] = (x + w[k]) % Mod /\ F[k][x] \in S
    <2>1. F[k][x] = (x + w[k]) % Mod
      OBVIOUS
    <2>2. (x + w[k]) % Mod \in S
      BY AddWord, ModType
    <2> QED  BY <2>1, <2>2
  <1> HIDE DEF S, F
  <1>3. Steps(F, n, S)
    BY <1>2 DEF Steps
  <1>4. PICK f : Iterates(f, F, n, S, 0)
    BY <1>1, <1>3, Recursion
  <1>5. \A k \in 1 .. n : f[k - 1] \in S
    BY <1>4 DEF Iterates
  <1>6. \A k \in 1 .. n : f[k] = (f[k - 1] + w[k]) % Mod
    BY <1>2, <1>4, <1>5 DEF Iterates
  <1>7. IsSum(f, w, n)
    BY <1>4, <1>6 DEF IsSum, S, Iterates
  <1> QED
    BY <1>7

\* The equation a running sum is defined by.
Solves(f, w, n) ==
    f = [k \in 0 .. n |-> IF k = 0 THEN 0 ELSE (f[k - 1] + w[k]) % Mod]

\* It has a solution, and its solutions are running sums.
LEMMA SumSolves ==
    ASSUME NEW n \in Nat, NEW w, \A k \in 1 .. n : w[k] \in 0 .. Mod
    PROVE  /\ \E f : Solves(f, w, n)
           /\ \A f : Solves(f, w, n) => IsSum(f, w, n)
  <1>1. \E f : Solves(f, w, n)
    <2>1. PICK f : IsSum(f, w, n)
      BY SumExists
    <2>2. Solves(f, w, n)
      BY <2>1 DEF IsSum, Solves
    <2> QED  BY <2>2
  <1>2. ASSUME NEW f, Solves(f, w, n)
        PROVE  IsSum(f, w, n)
    <2> DEFINE S == {k \in 0 .. n : f[k] \in 0 .. Mod - 1}
    <2>1. f[0] = 0 /\ \A k \in 1 .. n : f[k] = (f[k - 1] + w[k]) % Mod
      BY <1>2 DEF Solves
    <2>2. 0 \in S
      BY <2>1, ModType
    <2>3. ASSUME NEW k \in 0 .. n - 1, k \in S
          PROVE  k + 1 \in S
      <3>1. f[k + 1] = (f[k] + w[k + 1]) % Mod
        BY <2>1
      <3>2. f[k] \in 0 .. Mod - 1 /\ w[k + 1] \in 0 .. Mod
        BY <2>3
      <3>3. f[k + 1] \in 0 .. Mod - 1
        BY <3>1, <3>2, AddWord, ModType
      <3> QED  BY <3>3
    <2> HIDE DEF S
    <2>4. 0 .. n \subseteq S
      BY <2>2, <2>3, UpTo
    <2>5. f \in [0 .. n -> 0 .. Mod - 1]
      <3>1. \A k \in 0 .. n : f[k] \in 0 .. Mod - 1
        BY <2>4 DEF S
      <3>2. f = [k \in 0 .. n |-> f[k]]
        BY <1>2 DEF Solves
      <3> HIDE DEF Solves
      <3> QED  BY <3>1, <3>2
    <2> QED  BY <2>1, <2>5 DEF IsSum
  <1> QED
    BY <1>1, <1>2

\* What each word weighs in the sums.
Weights(b) == [k \in 1 .. Len(b) |-> IF k <= 2 THEN 0 ELSE b[k]]

\* The two sums of a block.
LEMMA SumsOfBlock ==
    ASSUME NEW b \in Seq(Word)
    PROVE  \E lo, hi : /\ IsSum(lo, Weights(b), Len(b))
                       /\ IsSum(hi, lo, Len(b))
                       /\ FletcherSums(b) = [lo |-> lo[Len(b)], hi |-> hi[Len(b)]]
  <1> DEFINE n == Len(b)
             Lo(f) == f = [k \in 0 .. n |-> IF k = 0 THEN 0
                        ELSE (f[k - 1] + IF k <= 2 THEN 0 ELSE b[k]) % Mod]
             lo == CHOOSE f : Lo(f)
             Hi(f) == f = [k \in 0 .. n |-> IF k = 0 THEN 0
                                            ELSE (f[k - 1] + lo[k]) % Mod]
             hi == CHOOSE f : Hi(f)
  <1>0. n \in Nat /\ \A k \in 1 .. n : Weights(b)[k] \in 0 .. Mod
    BY ModType DEF Weights
  <1>1. ASSUME NEW f
        PROVE  Lo(f) <=> Solves(f, Weights(b), n)
    BY <1>0 DEF Solves, Weights
  <1>2. Lo(lo)
    BY <1>0, <1>1, SumSolves
  <1>3. IsSum(lo, Weights(b), n)
    BY <1>0, <1>1, <1>2, SumSolves
  <1> HIDE DEF Lo, lo
  <1>4. \A k \in 1 .. n : lo[k] \in 0 .. Mod
    BY <1>3, ModType DEF IsSum
  <1>5. ASSUME NEW f
        PROVE  Hi(f) <=> Solves(f, lo, n)
    BY DEF Solves
  <1>6. Hi(hi)
    BY <1>0, <1>4, <1>5, SumSolves
  <1>7. IsSum(hi, lo, n)
    BY <1>0, <1>4, <1>5, <1>6, SumSolves
  <1>8. FletcherSums(b) = [lo |-> lo[n], hi |-> hi[n]]
    BY DEF FletcherSums, lo, Lo
  <1> QED
    BY <1>3, <1>7, <1>8

\* y is x shifted by d, in the arithmetic of the checksum.
Shifted(x, y, d) == y = x + d \/ y = x + d - Mod

\* Where two sums differ by d they do so as long as the weights agree.
LEMMA SumShift ==
    ASSUME NEW n \in Nat, NEW f, NEW g, NEW w, NEW v, IsSum(f, w, n), IsSum(g, v, n),
           NEW j \in 0 .. n, NEW m \in j .. n, NEW d \in 0 .. Mod - 1,
           Shifted(f[j], g[j], d),
           \A k \in j + 1 .. m : w[k] = v[k] /\ w[k] \in 0 .. Mod
    PROVE  Shifted(f[m], g[m], d)
  <1> DEFINE S == {k \in 0 .. m - j : Shifted(f[j + k], g[j + k], d)}
  <1>1. 0 \in S
    OBVIOUS
  <1>2. ASSUME NEW k \in 0 .. m - j - 1, k \in S
        PROVE  k + 1 \in S
    <2> DEFINE x == f[j + k]
               y == g[j + k]
               u == w[j + k + 1]
    <2>1. x \in 0 .. Mod - 1 /\ y \in 0 .. Mod - 1 /\ u \in 0 .. Mod
      BY DEF IsSum
    <2>2. f[j + k + 1] = (x + u) % Mod /\ g[j + k + 1] = (y + u) % Mod
      BY DEF IsSum
    <2>3. Shifted(x, y, d)
      BY <1>2
    <2> HIDE DEF x, y, u
    <2>4. Mod \in Nat \ {0} /\ (y = x + d \/ y = x + d - Mod)
      BY <2>3, ModType DEF Shifted
    <2>5. \/ (y + u) % Mod = ((x + u) % Mod) + d
          \/ (y + u) % Mod = ((x + u) % Mod) + d - Mod
      BY <2>1, <2>4, AddKeeps
    <2>6. Shifted(f[j + k + 1], g[j + k + 1], d)
      BY <2>2, <2>5 DEF Shifted
    <2> QED  BY <2>6
  <1>3. m - j \in Nat
    OBVIOUS
  <1> HIDE DEF S
  <1>4. 0 .. m - j \subseteq S
    BY <1>1, <1>2, <1>3, UpTo
  <1>5. m - j \in S
    BY <1>3, <1>4
  <1> QED
    BY <1>5 DEF S

\* One weight changed, and not from 0 to Mod or back: the sums agree before
\* it and differ from there on.
LEMMA OneWeight ==
    ASSUME NEW n \in Nat, NEW f, NEW g, NEW w, NEW v, IsSum(f, w, n), IsSum(g, v, n),
           NEW j \in 1 .. n,
           \A k \in 1 .. n : w[k] \in 0 .. Mod /\ (k # j => v[k] = w[k]),
           v[j] \in 0 .. Mod, Apart(w[j], v[j], Mod)
    PROVE  /\ \A k \in 0 .. j - 1 : f[k] = g[k]
           /\ \A k \in j .. n : f[k] # g[k]
  <1>0. /\ \A k \in 0 .. n : f[k] \in 0 .. Mod - 1 /\ g[k] \in 0 .. Mod - 1
        /\ f[0] = 0 /\ g[0] = 0
    BY DEF IsSum
  <1>1. ASSUME NEW k \in 0 .. j - 1
        PROVE  f[k] = g[k]
    <2>1. Shifted(f[0], g[0], 0)
      BY <1>0, ModType DEF Shifted
    <2>2. Shifted(f[k], g[k], 0)
      BY <2>1, SumShift, ModType
    <2> QED  BY <1>0, <2>2, ModType DEF Shifted
  <1>2. PICK d \in 1 .. Mod - 1 : Shifted(f[j], g[j], d)
    <2> DEFINE x == f[j - 1]
               p == w[j]
               q == v[j]
    <2>1. x \in 0 .. Mod - 1 /\ p \in 0 .. Mod /\ q \in 0 .. Mod
      BY <1>0
    <2>2. f[j] = (x + p) % Mod /\ g[j] = (x + q) % Mod
      BY <1>1 DEF IsSum
    <2>3. Apart(p, q, Mod)
      OBVIOUS
    <2> HIDE DEF x, p, q
    <2>5. f[j] # g[j]
      BY <2>1, <2>2, <2>3, AddDiffers, ModType
    <2>6. \E d \in 1 .. Mod - 1 : Shifted(f[j], g[j], d)
      <3>1. CASE f[j] < g[j]
        <4>1. g[j] - f[j] \in 1 .. Mod - 1 /\ Shifted(f[j], g[j], g[j] - f[j])
          BY <1>0, <3>1, ModType DEF Shifted
        <4> QED  BY <4>1
      <3>2. CASE g[j] < f[j]
        <4>1. /\ g[j] - f[j] + Mod \in 1 .. Mod - 1
              /\ Shifted(f[j], g[j], g[j] - f[j] + Mod)
          BY <1>0, <3>2, ModType DEF Shifted
        <4> QED  BY <4>1
      <3> QED  BY <1>0, <2>5, <3>1, <3>2
    <2> QED  BY <2>6
  <1>3. ASSUME NEW k \in j .. n
        PROVE  f[k] # g[k]
    <2>1. Shifted(f[k], g[k], d)
      BY <1>2, SumShift, ModType
    <2> QED  BY <1>0, <2>1, ModType DEF Shifted
  <1> QED
    BY <1>1, <1>3

\* Equal weights have one running sum.
LEMMA SumUnique ==
    ASSUME NEW n \in Nat, NEW f, NEW g, NEW w, NEW v, IsSum(f, w, n), IsSum(g, v, n),
           \A k \in 1 .. n : w[k] \in 0 .. Mod /\ v[k] = w[k]
    PROVE  f = g
  <1>1. ASSUME NEW k \in 0 .. n
        PROVE  f[k] = g[k]
    <2>0. f[k] \in 0 .. Mod - 1 /\ g[k] \in 0 .. Mod - 1 /\ f[0] = 0 /\ g[0] = 0
      BY DEF IsSum
    <2>1. Shifted(f[0], g[0], 0)
      BY <2>0, ModType DEF Shifted
    <2>2. Shifted(f[k], g[k], 0)
      BY <2>1, SumShift, ModType
    <2> QED  BY <2>0, <2>2, ModType DEF Shifted
  <1> QED
    BY <1>1 DEF IsSum

\* The checksum of a block of the right words.
LEMMA VerifiedBlock ==
    ASSUME NEW b, NEW x \in 0 .. Mod - 1, NEW y \in 0 .. Mod - 1,
           FletcherSums(b) = [lo |-> x, hi |-> y]
    PROVE  /\ Mod - ((x + y) % Mod) \in 1 .. Mod
           /\ Verified(b) <=> /\ b[1] = Mod - ((x + y) % Mod)
                              /\ b[2] = Mod - ((x + b[1]) % Mod)
  <1>1. Mod - ((x + y) % Mod) \in 1 .. Mod
    <2>1. (x + y) % Mod \in 0 .. Mod - 1
      BY AddWord, ModType
    <2> QED  BY <2>1, ModType
  <1> QED
    BY <1>1 DEF Verified, fletcher64_stored, fletcher64_checksum

\* A residue is a word, and is not Mod.
LEMMA ResidueIsWord ==
    ASSUME NEW x \in 0 .. Mod - 1, NEW y \in 0 .. Mod - 1
    PROVE  x \in 0 .. Mod /\ (x # y => Apart(x, y, Mod))
  <1>1. Mod \in Nat \ {0}
    BY ModType
  <1> QED  BY <1>1 DEF Apart

\* Blocks whose low sums differ are not both verified by the same checksum,
\* nor are blocks with equal low sums and different high sums.
LEMMA SumsShow ==
    ASSUME NEW b, NEW c, Verified(b), Verified(c),
           NEW x \in 0 .. Mod - 1, NEW y \in 0 .. Mod - 1,
           NEW u \in 0 .. Mod - 1, NEW v \in 0 .. Mod - 1,
           FletcherSums(b) = [lo |-> x, hi |-> y],
           FletcherSums(c) = [lo |-> u, hi |-> v],
           c[1] = b[1], c[2] = b[2]
    PROVE  x = u /\ y = v
  <1>0. Mod \in Nat \ {0}
    BY ModType
  <1>1. /\ b[1] = Mod - ((x + y) % Mod) /\ b[1] \in 1 .. Mod
        /\ b[2] = Mod - ((x + b[1]) % Mod)
    BY VerifiedBlock
  <1>2. /\ b[1] = Mod - ((u + v) % Mod)
        /\ b[2] = Mod - ((u + b[1]) % Mod)
    BY VerifiedBlock
  <1> DEFINE p == b[1]
  <1>3. p \in 0 .. Mod
    BY <1>0, <1>1
  <1>4. p = Mod - ((u + v) % Mod) /\ p = Mod - ((x + y) % Mod)
        /\ Mod - ((u + p) % Mod) = Mod - ((x + p) % Mod)
    BY <1>1, <1>2
  <1> HIDE DEF p
  <1>5. (x + p) % Mod \in 0 .. Mod - 1 /\ (u + p) % Mod \in 0 .. Mod - 1
    BY <1>0, <1>3, AddWord
  <1>6. (x + p) % Mod = (u + p) % Mod
    BY <1>0, <1>4, <1>5
  <1>7. x = u
    BY <1>0, <1>3, <1>6, AddDiffersLeft
  <1>8. y \in 0 .. Mod /\ v \in 0 .. Mod /\ (y # v => Apart(y, v, Mod))
    BY ResidueIsWord
  <1>9. (x + y) % Mod \in 0 .. Mod - 1 /\ (x + v) % Mod \in 0 .. Mod - 1
    BY <1>0, <1>8, AddWord
  <1>10. (x + y) % Mod = (x + v) % Mod
    BY <1>0, <1>4, <1>7, <1>9
  <1>11. y = v
    BY <1>0, <1>8, <1>10, AddDiffers
  <1> QED
    BY <1>7, <1>11

\* The weights of a block are words.
LEMMA WeightsOfBlock ==
    ASSUME NEW b \in Seq(Word)
    PROVE  /\ Len(b) \in Nat
           /\ \A j \in 1 .. Len(b) : /\ b[j] \in 0 .. Mod /\ Weights(b)[j] \in 0 .. Mod
                                     /\ Weights(b)[j] = IF j <= 2 THEN 0 ELSE b[j]
  BY ModType DEF Weights

\* Two blocks that are both verified by the same checksum, and the sums of
\* their weights: the totals are equal.
LEMMA EqualTotals ==
    ASSUME NEW b \in Seq(Word), NEW c \in Seq(Word), Len(c) = Len(b), Verified(b),
           Verified(c), c[1] = b[1], c[2] = b[2]
    PROVE  \E lo, hi, mo, ho :
             /\ IsSum(lo, Weights(b), Len(b)) /\ IsSum(hi, lo, Len(b))
             /\ IsSum(mo, Weights(c), Len(b)) /\ IsSum(ho, mo, Len(b))
             /\ lo[Len(b)] = mo[Len(b)] /\ hi[Len(b)] = ho[Len(b)]
  <1>3. PICK lo, hi : /\ IsSum(lo, Weights(b), Len(b)) /\ IsSum(hi, lo, Len(b))
                      /\ FletcherSums(b) = [lo |-> lo[Len(b)], hi |-> hi[Len(b)]]
    BY SumsOfBlock
  <1>4. PICK mo, ho : /\ IsSum(mo, Weights(c), Len(b)) /\ IsSum(ho, mo, Len(b))
                      /\ FletcherSums(c) = [lo |-> mo[Len(b)], hi |-> ho[Len(b)]]
    BY SumsOfBlock
  <1>5. Len(b) \in 0 .. Len(b)
    OBVIOUS
  <1>6. /\ lo[Len(b)] \in 0 .. Mod - 1 /\ hi[Len(b)] \in 0 .. Mod - 1
        /\ mo[Len(b)] \in 0 .. Mod - 1 /\ ho[Len(b)] \in 0 .. Mod - 1
    BY <1>3, <1>4, <1>5 DEF IsSum
  <1>7. lo[Len(b)] = mo[Len(b)] /\ hi[Len(b)] = ho[Len(b)]
    BY <1>3, <1>4, <1>6, SumsShow
  <1> QED
    BY <1>3, <1>4, <1>7

\* object.rs, fletcher64: a word lost in a block that was sealed is noticed,
\* wherever it lies: only zeros that turn into ones, or back, are not.
THEOREM LostWordShows ==
    ASSUME NEW b \in Seq(Word), Verified(b), NEW k \in 1 .. Len(b), NEW w \in Word,
           w # b[k], {b[k], w} # {0, Mod}
    PROVE  ~Verified([b EXCEPT ![k] = w])
  <1> DEFINE c == [b EXCEPT ![k] = w]
  <1>1. /\ c \in Seq(Word) /\ Len(c) = Len(b)
        /\ c[k] = w /\ \A j \in 1 .. Len(b) : j # k => c[j] = b[j]
    OBVIOUS
  <1> HIDE DEF c
  <1> SUFFICES ASSUME Verified(c) PROVE FALSE
    BY DEF c
  <1>2. CASE k > 2
    <2>1. k \in Nat /\ Len(b) \in Nat /\ k <= Len(b)
      OBVIOUS
    <2>2. c[1] = b[1] /\ c[2] = b[2]
      BY <1>1, <1>2, <2>1
    <2>3. PICK lo, mo : /\ IsSum(lo, Weights(b), Len(b))
                        /\ IsSum(mo, Weights(c), Len(b))
                        /\ lo[Len(b)] = mo[Len(b)]
      BY <1>1, <2>2, EqualTotals
    <2>4. /\ \A j \in 1 .. Len(b) : /\ Weights(b)[j] \in 0 .. Mod
                                    /\ j # k => Weights(c)[j] = Weights(b)[j]
          /\ Weights(b)[k] = b[k] /\ Weights(c)[k] = w
      BY <1>1, <1>2, WeightsOfBlock
    <2>4a. Weights(c)[k] \in 0 .. Mod /\ Apart(Weights(b)[k], Weights(c)[k], Mod)
      BY <2>4, ApartPair, ModType
    <2>5. \A j \in k .. Len(b) : lo[j] # mo[j]
      BY <2>1, <2>3, <2>4, <2>4a, OneWeight
    <2>6. Len(b) \in k .. Len(b)
      BY <2>1
    <2> QED  BY <2>3, <2>5, <2>6
  <1>3. CASE k \in {1, 2}
    <2>1. PICK lo, hi : /\ IsSum(lo, Weights(b), Len(b)) /\ IsSum(hi, lo, Len(b))
                        /\ FletcherSums(b) = [lo |-> lo[Len(b)], hi |-> hi[Len(b)]]
      BY SumsOfBlock
    <2>2. PICK mo, ho : /\ IsSum(mo, Weights(c), Len(b)) /\ IsSum(ho, mo, Len(b))
                        /\ FletcherSums(c) = [lo |-> mo[Len(b)], hi |-> ho[Len(b)]]
      BY <1>1, SumsOfBlock
    <2>3. \A j \in 1 .. Len(b) : /\ Weights(b)[j] \in 0 .. Mod
                                 /\ Weights(c)[j] = Weights(b)[j]
      BY <1>1, <1>3, WeightsOfBlock
    <2>4. lo = mo
      BY <2>1, <2>2, <2>3, SumUnique, WeightsOfBlock
    <2>5. \A j \in 1 .. Len(b) : lo[j] \in 0 .. Mod
      <3>1. \A j \in 1 .. Len(b) : lo[j] \in 0 .. Mod - 1
        BY <2>1, WeightsOfBlock DEF IsSum
      <3> QED  BY <3>1, ResidueIsWord
    <2>6. hi = ho
      BY <2>1, <2>2, <2>4, <2>5, SumUnique, WeightsOfBlock
    <2>7. FletcherSums(c) = FletcherSums(b)
      BY <2>1, <2>2, <2>4, <2>6
    <2>8. <<c[1], c[2]>> = <<b[1], b[2]>>
      BY <2>7 DEF Verified, fletcher64_stored, fletcher64_checksum
    <2> QED  BY <1>1, <1>3, <2>8
  <1> QED
    BY <1>2, <1>3

\* Two neighbouring weights that changed places: the low sums differ at the
\* first of them only, and the totals of the high sums differ.
LEMMA SwapSums ==
    ASSUME NEW n \in Nat, NEW lo, NEW hi, NEW mo, NEW ho, NEW w, NEW v,
           IsSum(lo, w, n), IsSum(hi, lo, n), IsSum(mo, v, n), IsSum(ho, mo, n),
           NEW k \in 1 .. n - 1, \A j \in 1 .. n : w[j] \in 0 .. Mod,
           \A j \in 1 .. n : j \notin {k, k + 1} => v[j] = w[j],
           v[k] = w[k + 1], v[k + 1] = w[k], Apart(w[k], w[k + 1], Mod)
    PROVE  hi[n] # ho[n]
  <1>0. Mod \in Nat \ {0}
    BY ModType
  <1>1. /\ k \in 1 .. n /\ k + 1 \in 1 .. n /\ k - 1 \in 0 .. n /\ k + 1 \in 0 .. n
        /\ k \in 0 .. n /\ (k + 1) - 1 = k /\ 0 \in 0 .. n /\ k \in Nat
    OBVIOUS
  <1>2. /\ \A j \in 0 .. n : lo[j] \in 0 .. Mod - 1 /\ mo[j] \in 0 .. Mod - 1
        /\ lo[0] = 0 /\ mo[0] = 0
    BY DEF IsSum
  <1>2a. 0 \in 0 .. Mod - 1 /\ \A x \in 0 .. Mod - 1 : Shifted(x, x, 0)
    BY <1>0 DEF Shifted
  <1>2b. \A x, y \in 0 .. Mod - 1 : Shifted(x, y, 0) => x = y
    BY <1>0 DEF Shifted
  <1>3. ASSUME NEW j \in 0 .. k - 1
        PROVE  lo[j] = mo[j]
    <2>1. Shifted(lo[0], mo[0], 0)
      BY <1>2, <1>2a
    <2>2. \A m \in 0 + 1 .. j : w[m] = v[m] /\ w[m] \in 0 .. Mod
      BY <1>1
    <2>3. j \in 0 .. n
      BY <1>1
    <2>4. Shifted(lo[j], mo[j], 0)
      BY <1>1, <1>2a, <2>1, <2>2, <2>3, SumShift
    <2> QED  BY <1>2, <1>2b, <2>3, <2>4
  <1>4. /\ lo[k] = (lo[k - 1] + w[k]) % Mod /\ mo[k] = (mo[k - 1] + w[k + 1]) % Mod
        /\ lo[k + 1] = (lo[k] + w[k + 1]) % Mod /\ mo[k + 1] = (mo[k] + w[k]) % Mod
    BY <1>1 DEF IsSum
  <1>5. lo[k - 1] = mo[k - 1]
    BY <1>1, <1>3
  <1> DEFINE x == lo[k - 1]
             p == w[k]
             q == w[k + 1]
  <1>6. x \in 0 .. Mod - 1 /\ p \in 0 .. Mod /\ q \in 0 .. Mod
    BY <1>1, <1>2
  <1>7. Apart(p, q, Mod)
    OBVIOUS
  <1>8. /\ lo[k] = (x + p) % Mod /\ mo[k] = (x + q) % Mod
        /\ lo[k + 1] = (((x + p) % Mod) + q) % Mod
        /\ mo[k + 1] = (((x + q) % Mod) + p) % Mod
    BY <1>4, <1>5
  <1> HIDE DEF x, p, q
  <1>9. lo[k] # mo[k]
    BY <1>0, <1>6, <1>7, <1>8, AddDiffers
  <1>10. lo[k + 1] = mo[k + 1]
    BY <1>0, <1>6, <1>8, AddSwap
  <1>11. ASSUME NEW j \in k + 1 .. n
         PROVE  lo[j] = mo[j]
    <2>1. Shifted(lo[k + 1], mo[k + 1], 0)
      BY <1>1, <1>2, <1>2a, <1>10
    <2>2. \A m \in (k + 1) + 1 .. j : w[m] = v[m] /\ w[m] \in 0 .. Mod
      BY <1>1
    <2>3. j \in 0 .. n
      BY <1>1
    <2>4. Shifted(lo[j], mo[j], 0)
      BY <1>1, <1>2a, <2>1, <2>2, SumShift
    <2> QED  BY <1>2, <1>2b, <2>3, <2>4
  <1>12. ASSUME NEW j \in 1 .. n
         PROVE  lo[j] \in 0 .. Mod /\ (j # k => mo[j] = lo[j])
    <2>1. lo[j] \in 0 .. Mod - 1
      BY <1>2
    <2>2. j # k => j \in 0 .. k - 1 \/ j \in k + 1 .. n
      BY <1>1
    <2> QED  BY <1>3, <1>11, <2>1, <2>2, ResidueIsWord
  <1>13. mo[k] \in 0 .. Mod /\ Apart(lo[k], mo[k], Mod)
    BY <1>1, <1>2, <1>9, ResidueIsWord
  <1>14. \A j \in k .. n : hi[j] # ho[j]
    BY <1>1, <1>12, <1>13, OneWeight
  <1> QED
    BY <1>1, <1>14

\* object.rs, fletcher64: two neighbouring words that changed places are
\* noticed, for every word size and block length; a plain sum would not.
THEOREM SwapShows ==
    ASSUME NEW b \in Seq(Word), Verified(b), NEW k \in 3 .. Len(b) - 1,
           b[k + 1] # b[k], {b[k], b[k + 1]} # {0, Mod}
    PROVE  ~Verified([b EXCEPT ![k] = b[k + 1], ![k + 1] = b[k]])
  <1> DEFINE c == [b EXCEPT ![k] = b[k + 1], ![k + 1] = b[k]]
  <1>1. /\ c \in Seq(Word) /\ Len(c) = Len(b)
        /\ c[k] = b[k + 1] /\ c[k + 1] = b[k]
        /\ \A j \in 1 .. Len(b) : j \notin {k, k + 1} => c[j] = b[j]
    OBVIOUS
  <1> HIDE DEF c
  <1> SUFFICES ASSUME Verified(c) PROVE FALSE
    BY DEF c
  <1>2. /\ Len(b) \in Nat /\ k \in 1 .. Len(b) - 1
        /\ 1 \in 1 .. Len(b) /\ 2 \in 1 .. Len(b) /\ k > 2
        /\ k \in 1 .. Len(b) /\ k + 1 \in 1 .. Len(b)
    OBVIOUS
  <1>3. c[1] = b[1] /\ c[2] = b[2]
    BY <1>1, <1>2
  <1>4. PICK lo, hi, mo, ho :
          /\ IsSum(lo, Weights(b), Len(b)) /\ IsSum(hi, lo, Len(b))
          /\ IsSum(mo, Weights(c), Len(b)) /\ IsSum(ho, mo, Len(b))
          /\ lo[Len(b)] = mo[Len(b)] /\ hi[Len(b)] = ho[Len(b)]
    BY <1>1, <1>3, EqualTotals
  <1>5. \A j \in 1 .. Len(b) : /\ Weights(b)[j] \in 0 .. Mod
                               /\ Weights(b)[j] = IF j <= 2 THEN 0 ELSE b[j]
                               /\ Weights(c)[j] = IF j <= 2 THEN 0 ELSE c[j]
    BY <1>1, WeightsOfBlock
  <1>6. \A j \in 1 .. Len(b) : j \notin {k, k + 1} => Weights(c)[j] = Weights(b)[j]
    BY <1>1, <1>5
  <1>7. /\ Weights(b)[k] = b[k] /\ Weights(b)[k + 1] = b[k + 1]
        /\ Weights(c)[k] = b[k + 1] /\ Weights(c)[k + 1] = b[k]
    BY <1>1, <1>2, <1>5
  <1>8. Apart(Weights(b)[k], Weights(b)[k + 1], Mod)
    BY <1>7, ApartPair
  <1>9. \A j \in 1 .. Len(b) : Weights(b)[j] \in 0 .. Mod
    BY <1>5
  <1>10. Weights(c)[k] = Weights(b)[k + 1] /\ Weights(c)[k + 1] = Weights(b)[k]
    BY <1>7
  <1>11. hi[Len(b)] # ho[Len(b)]
    BY <1>2, <1>4, <1>6, <1>8, <1>9, <1>10, SwapSums
  <1> QED
    BY <1>4, <1>11

-----------------------------------------------------------------------------
\* The open

\* Every step is a step of open or leaves its state alone.
LEMMA StepOfOpen == [InspectNext]_allVars => [Next]_vars
  BY DEF InspectNext, Open, OpenReadFails, Next, Query, QueryReadFails, Fault,
         LoseWord, SwapWords, FaultAt, InspectReturned, allVars, Quiet, ReaperStep,
         LocateReaper, ReaperRejected, ReadReaper, ListGuarded, ListUnmapped,
         ListRejected, ReadList, ChainEnds, SpacemanStep, LocateSpaceman,
         SpacemanRejected, ReadSpaceman, CibRejected, ChunkAllFree, ChunkHasBitmap,
         CibRead, BitmapMissing, ReadBitmap, BeginQuery, ReadIntegrity,
         IntegrityRejected, ReadKeybag

\* The open keeps its invariant among queries and losses.
LEMMA OpenInvStep == OpenInv /\ [InspectNext]_allVars => OpenInv'
  BY StepOfOpen, InductiveStep, OrderInductive, LegalStep DEF OpenInv

\* The invariant of the open holds at first.
LEMMA InitOpenInv == InspectInit => OpenInv
  BY InitIInv, InitOrder
  DEF InspectInit, EphemeralInit, OpenInv, Init, BootInv, LegalOpens

-----------------------------------------------------------------------------
\* Chains

\* An oid resolves to one address at most.
LEMMA OneAddress ==
    ASSUME TypeOK, NEW oid, NEW a \in ResolveEphemeral(oid),
           NEW b \in ResolveEphemeral(oid)
    PROVE  a = b
  <1>1. DOMAIN mappings \subseteq Nat
    BY DEF TypeOK
  <1>2. PICK k \in DOMAIN mappings : 
          /\ a = mappings[k].paddr /\ mappings[k].oid = oid
          /\ \A g \in DOMAIN mappings : mappings[g].oid = oid => k <= g
    BY DEF ResolveEphemeral
  <1>3. PICK l \in DOMAIN mappings : 
          /\ b = mappings[l].paddr /\ mappings[l].oid = oid
          /\ \A g \in DOMAIN mappings : mappings[g].oid = oid => l <= g
    BY DEF ResolveEphemeral
  <1>4. k = l
    BY <1>1, <1>2, <1>3
  <1> QED
    BY <1>2, <1>3, <1>4

\* The block read for a list gives its successor.
LEMMA LinkRead ==
    ASSUME TypeOK, NEW oid, NEW a \in ResolveEphemeral(oid), a \in DOMAIN disk.content
    PROVE  NextList(oid) = Field(disk.content[a], NRL_NEXT)
  <1> DEFINE hit == {b \in ResolveEphemeral(oid) : b \in DOMAIN disk.content}
  <1>1. hit = {a}
    BY OneAddress
  <1>2. (CHOOSE b \in hit : TRUE) = a
    BY <1>1
  <1> QED
    BY <1>1, <1>2 DEF NextList

\* The head of the chain is one list.
LEMMA OneHead ==
    ASSUME TypeOK, NEW o \in Head1, NEW p \in Head1
    PROVE  o = p
  BY OneAddress DEF Head1

\* A chain begins with its head and goes on from each of its mapped lists.
LEMMA ChainGoesOn ==
    ASSUME NEW o
    PROVE  /\ o \in Chain(o)
           /\ \A q \in Chain(o) \ {0} :
                ResolveEphemeral(q) # {} => NextList(q) \in Chain(o)
  <1>1. o \in Chain(o)
    BY DEF Chain, Links
  <1>2. ASSUME NEW q \in Chain(o) \ {0}, ResolveEphemeral(q) # {}
        PROVE  NextList(q) \in Chain(o)
    <2>1. NextList(q) \in Links(o)
      BY <1>2 DEF ResolveEphemeral, Links
    <2>2. ASSUME NEW S \in SUBSET Links(o), o \in S,
                 \A r \in S \ {0} : NextList(r) \in S
          PROVE  NextList(q) \in S
      BY <2>2 DEF Chain
    <2> QED  BY <2>1, <2>2 DEF Chain
  <1> QED
    BY <1>1, <1>2

\* A set of lists that holds the head and all links from its members holds
\* the chain.
LEMMA ChainIsLeast ==
    ASSUME NEW o, NEW S, S \subseteq Chain(o), o \in S,
           \A q \in S \ {0} : NextList(q) \in S
    PROVE  Chain(o) \subseteq S
  BY DEF Chain

\* A chain is finite.
LEMMA ChainIsFinite ==
    ASSUME TypeOK, NEW o
    PROVE  IsFiniteSet(Chain(o) \ {0})
  <1> DEFINE f == [k \in DOMAIN mappings |-> NextList(mappings[k].oid)]
             T == {NextList(mappings[k].oid) : k \in DOMAIN mappings}
  <1>1. IsFiniteSet(DOMAIN mappings)
    <2>1. DOMAIN mappings = 1 .. Len(mappings) /\ Len(mappings) \in Nat
      BY DEF TypeOK
    <2> QED  BY <2>1, FS_Interval
  <1>2. f \in Surjection(DOMAIN mappings, T)
    BY DEF Surjection
  <1>3. IsFiniteSet(T)
    <2> HIDE DEF f, T
    <2> QED  BY <1>1, <1>2, FS_Surjection
  <1>4. Chain(o) \ {0} \in SUBSET (T \cup {o})
    BY DEF Chain, Links
  <1> HIDE DEF T
  <1>5. IsFiniteSet(T \cup {o})
    BY <1>3, FS_AddElement
  <1> QED
    BY <1>4, <1>5, FS_Subset

\* A list met again closes the chain: it has no end.
LEMMA MetAgainLoops ==
    ASSUME NEW o \in Head1, OnChain(o), at \in seen
    PROVE  ChainLoops
  <1>1. Chain(o) \subseteq seen
    BY ChainIsLeast DEF OnChain
  <1>2. 0 \notin Chain(o)
    BY <1>1 DEF OnChain
  <1> QED
    BY <1>2 DEF ChainLoops

\* The cap refuses only a chain with more lists.
LEMMA CapIsTrue ==
    ASSUME TypeOK, NEW o \in Head1, OnChain(o), IsFiniteSet(seen), at \notin seen,
           at # 0, Cardinality(seen) + 1 > MAX_REAP_LISTS
    PROVE  Cardinality(Chain(o) \ {0}) > MAX_REAP_LISTS
  <1>1. /\ IsFiniteSet(seen \cup {at})
        /\ Cardinality(seen \cup {at}) = Cardinality(seen) + 1
    BY FS_AddElement
  <1>2. seen \cup {at} \in SUBSET (Chain(o) \ {0})
    BY DEF OnChain
  <1>3. Cardinality(seen \cup {at}) <= Cardinality(Chain(o) \ {0})
    BY <1>2, ChainIsFinite, FS_Subset
  <1>4. /\ Cardinality(seen \cup {at}) \in Nat
        /\ Cardinality(Chain(o) \ {0}) \in Nat
    BY <1>1, ChainIsFinite, FS_CardinalityType
  <1> QED
    BY <1>1, <1>3, <1>4, ReapCapAssumption
-----------------------------------------------------------------------------
\* The steps of a query

\* Heads and chains depend on the mappings and on the disk alone.
LEMMA SameChains ==
    ASSUME mappings' = mappings, disk' = disk
    PROVE  /\ \A q : ResolveEphemeral(q)' = ResolveEphemeral(q)
           /\ \A q : NextList(q)' = NextList(q)
           /\ \A q : Chain(q)' = Chain(q)
           /\ Head1' = Head1
           /\ ChainLoops' <=> ChainLoops
  <1>1. \A q : ResolveEphemeral(q)' = ResolveEphemeral(q)
    BY DEF ResolveEphemeral
  <1>2. \A q : NextList(q)' = NextList(q)
    BY DEF NextList, ResolveEphemeral, Field, NRL_NEXT
  <1>3. \A q : Links(q)' = Links(q)
    BY <1>2 DEF Links
  <1>4. \A q : Chain(q)' = Chain(q)
    BY <1>2, <1>3 DEF Chain
  <1>5. Head1' = Head1
    BY <1>1 DEF Head1, Field
  <1> QED
    BY <1>1, <1>2, <1>4, <1>5 DEF ChainLoops

\* A step of the open: there is no query yet.
LEMMA OpenStep ==
    ASSUME OpenInv, QueryInv, LoopedQueueIsRefused, Open \/ OpenReadFails
    PROVE  QueryInv' /\ LoopedQueueIsRefused'
  <1>1. UNCHANGED <<ephemeralVars, reaperVars, sm>>
    BY DEF Open, OpenReadFails
  <1>2. pc # "open"
    BY DEF Open, OpenReadFails, Advance, ReadFails, Block0Missing, Block0Rejected,
           Block0Accepted, RingPanic, ScanBlock, NoSuperblock, ScanDone, MapBlock,
           MapsDone, Reread, AtRingBlock
  <1>3. stage = "idle" /\ stage' = "idle"
    BY <1>1, <1>2 DEF QueryInv, ephemeralVars, queryVars
  <1> QED
    BY <1>1, <1>3
    DEF QueryInv, LoopedQueueIsRefused, Asking, ephemeralVars, queryVars, reaperVars

\* A step that asks for something else than the reap queue.
LEMMA OtherStep ==
    ASSUME OpenInv, QueryInv, LoopedQueueIsRefused,
           \/ SpacemanStep /\ UNCHANGED reaperVars
           \/ BeginQuery \/ ReadIntegrity \/ IntegrityRejected \/ ReadKeybag
    PROVE  QueryInv' /\ LoopedQueueIsRefused'
  <1>1. call.op # "pending"
    BY DEF QueryInv, SpacemanStep, LocateSpaceman, Located, SpacemanRejected,
           ReadSpaceman, CibRejected, ChunkAllFree, ChunkHasBitmap, CibRead,
           BitmapMissing, ReadBitmap, BeginQuery, ReadIntegrity,
           IntegrityRejected, ReadKeybag
  <1>2. /\ UNCHANGED <<seen, call, disk, content, faults, pc>>
        /\ stage' \notin {"idle", "reaper"} /\ pc = "open"
    BY DEF QueryInv, SpacemanStep, LocateSpaceman, Located, SpacemanRejected,
           ReadSpaceman, CibRejected, ChunkAllFree, ChunkHasBitmap, CibRead,
           BitmapMissing, ReadBitmap, BeginQuery, ReadIntegrity,
           IntegrityRejected, ReadKeybag, Quiet, vars, reaperVars, Proceed,
           Refused, Answered
  <1> QED
    BY <1>1, <1>2 DEF QueryInv, LoopedQueueIsRefused, Asking

\* A step that ends the query with an error that is not CycleGuard.
LEMMA QueryRefused ==
    ASSUME OpenInv, QueryInv, LoopedQueueIsRefused,
           stage' = "done", answer'.status \notin {"Ok", "CycleGuard"},
           pc = "open", IsFiniteSet(seen'), Quiet, UNCHANGED call
    PROVE  QueryInv' /\ LoopedQueueIsRefused'
  <1>1. UNCHANGED <<pc, disk, content, faults>>
    BY DEF Quiet, vars
  <1> QED
    BY <1>1 DEF QueryInv, LoopedQueueIsRefused, Asking

\* The medium spoils a word: nothing is asked of a spoilt disk.
LEMMA FaultStep ==
    ASSUME OpenInv, QueryInv, LoopedQueueIsRefused, Fault
    PROVE  QueryInv' /\ LoopedQueueIsRefused'
  <1>1. UNCHANGED <<vars, disk, queryVars, reaperVars>> /\ faults' # {}
    BY DEF Fault, LoseWord, SwapWords, FaultAt
  <1> QED
    BY <1>1 DEF QueryInv, LoopedQueueIsRefused, Asking, queryVars, reaperVars, vars

\* Locating the reaper.
LEMMA LocateReaperStep ==
    ASSUME OpenInv, QueryInv, LoopedQueueIsRefused, LocateReaper
    PROVE  QueryInv' /\ LoopedQueueIsRefused'
  <1>1. /\ pc = "open" /\ stage = "idle" /\ Quiet /\ UNCHANGED <<seen, call>>
    BY DEF LocateReaper, Located, reaperVars, Proceed, Refused, Answered
  <1>2. UNCHANGED <<pc, disk, content, faults, mappings>>
    BY <1>1 DEF Quiet, vars
  <1>3. CASE Refused("None")
    BY <1>1, <1>3, QueryRefused DEF Refused, Answered, QueryInv
  <1>4. CASE \E paddr \in ResolveEphemeral(ReaperOid) : Proceed("reaper", paddr)
    <2>1. stage' = "reaper" /\ at' \in ResolveEphemeral(ReaperOid)'
      BY <1>2, <1>4, SameChains DEF Proceed
    <2> QED
      BY <1>1, <1>2, <2>1 DEF QueryInv, LoopedQueueIsRefused
  <1> QED
    BY <1>3, <1>4 DEF LocateReaper, Located

\* Reading the reaper: the list at hand is the head of the chain.
LEMMA ReadReaperStep ==
    ASSUME OpenInv, QueryInv, LoopedQueueIsRefused, ReadReaper
    PROVE  QueryInv' /\ LoopedQueueIsRefused'
  <1>1. /\ stage = "reaper" /\ stage' = "list" /\ UNCHANGED <<seen, call>>
        /\ at' = Field(content[at], NR_HEAD) /\ at \in DOMAIN content
    BY DEF ReadReaper, Proceed, ReadObj
  <1>2. UNCHANGED <<pc, disk, content, faults, mappings>>
    BY DEF ReadReaper, Quiet, vars
  <1>3. pc = "open" /\ seen = {}
    BY <1>1 DEF QueryInv
  <1>4. ASSUME Asking PROVE \E o \in Head1' : OnChain(o)'
    <2>1. at \in ResolveEphemeral(ReaperOid) /\ content = disk.content
      BY <1>1, <1>4 DEF QueryInv, Asking
    <2>2. at' \in Head1
      BY <1>1, <2>1 DEF Head1
    <2>3. at' \in Chain(at')
      BY ChainGoesOn
    <2>4. PICK o : o = at'
      OBVIOUS
    <2>5. Chain(o)' = Chain(o) /\ Head1' = Head1
      BY <1>2, SameChains
    <2>6. OnChain(o)'
      BY <1>1, <1>3, <2>3, <2>4, <2>5 DEF OnChain
    <2> QED  BY <2>2, <2>4, <2>5, <2>6
  <1>5. Asking' => Asking
    BY <1>1, <1>2 DEF Asking
  <1> QED
    BY <1>1, <1>2, <1>3, <1>4, <1>5 DEF QueryInv, LoopedQueueIsRefused

\* A list is refused by the guard: the chain never ends or exceeds the cap.
LEMMA ListGuardedStep ==
    ASSUME OpenInv, QueryInv, LoopedQueueIsRefused, ListGuarded
    PROVE  QueryInv' /\ LoopedQueueIsRefused'
  <1>1. /\ stage = "list" /\ stage' = "done" /\ at # 0 /\ CapExceeded
        /\ answer'.status = "CycleGuard" /\ UNCHANGED <<seen, call>>
    BY DEF ListGuarded, Refused, Answered, reaperVars
  <1>2. UNCHANGED <<pc, disk, content, faults, mappings>>
    BY DEF ListGuarded, Quiet, vars
  <1>3. ASSUME Asking
        PROVE  \/ ChainLoops
               \/ \E o \in Head1 : Cardinality(Chain(o) \ {0}) > MAX_REAP_LISTS
    <2>1. PICK o \in Head1 : OnChain(o)
      BY <1>1, <1>3 DEF QueryInv
    <2>2. CASE at \in seen
      BY <2>1, <2>2, MetAgainLoops
    <2>3. CASE at \notin seen
      BY <1>1, <2>1, <2>3, CapIsTrue DEF CapExceeded, OpenInv, IInv, QueryInv
    <2> QED  BY <2>2, <2>3
  <1>4. /\ ChainLoops' <=> ChainLoops
        /\ Head1' = Head1 /\ \A q : Chain(q)' = Chain(q)
    BY <1>2, SameChains
  <1>5. LoopedQueueIsRefused'
    BY <1>1, <1>2, <1>3, <1>4 DEF LoopedQueueIsRefused, Asking
  <1>6. QueryInv'
    BY <1>1, <1>2 DEF QueryInv
  <1> QED
    BY <1>5, <1>6

\* A list is read: the next one lies on the chain too.
LEMMA ReadListStep ==
    ASSUME OpenInv, QueryInv, LoopedQueueIsRefused, ReadList
    PROVE  QueryInv' /\ LoopedQueueIsRefused'
  <1>1. PICK paddr \in ResolveEphemeral(at) :
          /\ ReadObj(paddr) = "Ok"
          /\ Proceed("list", Field(content[paddr], NRL_NEXT))
    BY DEF ReadList
  <1>2. /\ stage = "list" /\ stage' = "list" /\ at # 0 /\ UNCHANGED call
        /\ seen' = seen \cup {at} /\ at' = Field(content[paddr], NRL_NEXT)
        /\ paddr \in DOMAIN content
    BY <1>1 DEF ReadList, EnterList, Proceed, ReadObj
  <1>3. UNCHANGED <<pc, disk, content, faults, mappings>>
    BY DEF ReadList, Quiet, vars
  <1>4. IsFiniteSet(seen')
    BY <1>2, FS_AddElement DEF QueryInv
  <1>5. ASSUME Asking PROVE \E o \in Head1' : OnChain(o)'
    <2>1. PICK o \in Head1 : OnChain(o)
      BY <1>2, <1>5 DEF QueryInv
    <2>2. at' = NextList(at)
      BY <1>2, <1>5, LinkRead DEF QueryInv, Asking, OpenInv, IInv
    <2>3. at' \in Chain(o)
      BY <1>2, <2>1, <2>2, ChainGoesOn DEF OnChain
    <2>4. /\ seen' \subseteq Chain(o) \ {0} /\ o \in seen' \cup {at'}
          /\ \A q \in seen' : NextList(q) \in seen' \cup {at'}
      BY <1>2, <2>1, <2>2 DEF OnChain
    <2>5. Chain(o)' = Chain(o) /\ Head1' = Head1 /\ \A q : NextList(q)' = NextList(q)
      BY <1>3, SameChains
    <2>6. OnChain(o)'
      BY <2>3, <2>4, <2>5 DEF OnChain
    <2> QED  BY <2>1, <2>5, <2>6
  <1>6. Asking' => Asking
    BY <1>2, <1>3 DEF Asking
  <1> QED
    BY <1>2, <1>3, <1>4, <1>5, <1>6 DEF QueryInv, LoopedQueueIsRefused

\* The chain has come to its end: it does not loop.
LEMMA ChainEndsStep ==
    ASSUME OpenInv, QueryInv, LoopedQueueIsRefused, ChainEnds
    PROVE  QueryInv' /\ LoopedQueueIsRefused'
  <1>1. /\ stage = "list" /\ stage' = "done" /\ at = 0 /\ answer'.status = "Ok"
        /\ UNCHANGED <<seen, call>>
    BY DEF ChainEnds, Answered, reaperVars
  <1>2. UNCHANGED <<pc, disk, content, faults, mappings>>
    BY DEF ChainEnds, Quiet, vars
  <1>3. ASSUME Asking PROVE ~ChainLoops
    <2>1. PICK o \in Head1 : OnChain(o)
      BY <1>1, <1>3 DEF QueryInv
    <2>2. 0 \in Chain(o)
      BY <1>1, <2>1 DEF OnChain
    <2>3. \A p \in Head1 : p = o
      BY <2>1, OneHead DEF OpenInv, IInv
    <2> QED  BY <2>2, <2>3 DEF ChainLoops
  <1>4. ChainLoops' <=> ChainLoops
    BY <1>2, SameChains
  <1>5. LoopedQueueIsRefused'
    BY <1>1, <1>2, <1>3, <1>4 DEF LoopedQueueIsRefused, Asking
  <1>6. QueryInv'
    BY <1>1, <1>2 DEF QueryInv
  <1> QED
    BY <1>5, <1>6

\* Whatever else ends a query for the queue.
LEMMA RefusalStep ==
    ASSUME OpenInv, QueryInv, LoopedQueueIsRefused,
           ReaperRejected \/ ListUnmapped \/ ListRejected \/ QueryReadFails
    PROVE  QueryInv' /\ LoopedQueueIsRefused'
  <1>1. \A a : ReadObj(a) # "CycleGuard"
    BY DEF ReadObj
  <1>2. /\ stage' = "done" /\ answer'.status \notin {"Ok", "CycleGuard"}
        /\ stage # "idle" /\ Quiet /\ UNCHANGED call
        /\ seen' = seen \/ seen' = seen \cup {at}
    BY <1>1 DEF ReaperRejected, ListUnmapped, ListRejected, QueryReadFails,
                EnterList, Refused, Answered, reaperVars
  <1>3. pc = "open" /\ IsFiniteSet(seen')
    BY <1>2, FS_AddElement DEF QueryInv
  <1> QED
    BY <1>2, <1>3, QueryRefused

-----------------------------------------------------------------------------
\* Theorems: any number of faults

\* Both calls keep the invariant, for every disk and any number of losses.
THEOREM InspectInvariance == InspectSpec => []InspectInv
  <1>1. InspectInit => InspectInv
    <2> SUFFICES ASSUME InspectInit PROVE InspectInv
      OBVIOUS
    <2>1. OpenInv
      BY InitOpenInv
    <2>2. QueryInv /\ LoopedQueueIsRefused
      BY FS_EmptySet
      DEF InspectInit, EphemeralInit, ReaperInit, QueryInv, LoopedQueueIsRefused
    <2> QED  BY <2>1, <2>2 DEF InspectInv
  <1>2. InspectInv /\ [InspectNext]_allVars => InspectInv'
    <2> SUFFICES ASSUME InspectInv, [InspectNext]_allVars PROVE InspectInv'
      OBVIOUS
    <2>0. OpenInv /\ QueryInv /\ LoopedQueueIsRefused
      BY DEF InspectInv
    <2>1. OpenInv'
      BY <2>0, OpenInvStep
    <2>2. CASE Open \/ OpenReadFails
      BY <2>0, <2>1, <2>2, OpenStep DEF InspectInv
    <2>3. CASE \/ SpacemanStep /\ UNCHANGED reaperVars
               \/ BeginQuery \/ ReadIntegrity \/ IntegrityRejected \/ ReadKeybag
      BY <2>0, <2>1, <2>3, OtherStep DEF InspectInv
    <2>4. CASE ReaperStep
      BY <2>0, <2>1, <2>4, LocateReaperStep, ReadReaperStep, ListGuardedStep,
         ReadListStep, ChainEndsStep, RefusalStep DEF InspectInv, ReaperStep
    <2>5. CASE QueryReadFails
      BY <2>0, <2>1, <2>5, RefusalStep DEF InspectInv
    <2>6. CASE Fault
      BY <2>0, <2>1, <2>6, FaultStep DEF InspectInv
    <2>7. CASE UNCHANGED allVars
      <3>1. UNCHANGED <<pc, mappings, disk, content, faults, call, stage, at, answer,
                        seen>>
        BY <2>7 DEF allVars, vars, ephemeralVars, queryVars, reaperVars
      <3>2. /\ \A q : ResolveEphemeral(q)' = ResolveEphemeral(q)
            /\ \A q : NextList(q)' = NextList(q)
            /\ \A q : Chain(q)' = Chain(q)
            /\ Head1' = Head1
            /\ ChainLoops' <=> ChainLoops
        BY <3>1, SameChains
      <3>3. QueryInv'
        BY <2>0, <3>1, <3>2 DEF QueryInv, Asking, OnChain
      <3>4. LoopedQueueIsRefused'
        BY <2>0, <3>1, <3>2 DEF LoopedQueueIsRefused
      <3> QED  BY <2>1, <3>3, <3>4 DEF InspectInv
    <2> QED
      BY <2>2, <2>3, <2>4, <2>5, <2>6, <2>7
      DEF InspectNext, Query, InspectReturned
  <1> QED
    BY <1>1, <1>2, PTL DEF InspectSpec

\* A container that is queried is opened as Container says, step by step: no
\* query and no loss of the medium disturbs the open.
THEOREM OpenUndisturbed == InspectSpec => Init /\ [][Next]_vars
  <1>1. InspectInit => Init
    BY DEF InspectInit, EphemeralInit
  <1> QED
    BY <1>1, StepOfOpen, PTL DEF InspectSpec

\* reaper.rs, pending_objects: for every chain of reap lists and every cap, a
\* chain that never ends is not reported as a complete queue, and only such a
\* chain or one with more lists than the cap is reported as cyclic.
THEOREM ReapGuardIsTrue == InspectSpec => []LoopedQueueIsRefused
  <1>1. InspectInv => LoopedQueueIsRefused
    BY DEF InspectInv
  <1> QED
    BY <1>1, InspectInvariance, PTL

-----------------------------------------------------------------------------
\* What the medium can hide, and where the objects are

\* One fault at most: a block is as it was written, or there was a fault in
\* it, and then its checksum, if it had one, no longer fits.
MediumInv ==
    /\ disk \in Disks /\ call \in disk.calls /\ img = disk.img
    /\ IsFiniteSet(faults)
    /\ DOMAIN content = DOMAIN disk.content
    /\ \A a \in DOMAIN content :
          \/ content[a] = disk.content[a]
          \/ /\ Verified(disk.content[a]) => ~Verified(content[a])
             /\ \E f \in faults : f.addr = a
    /\ faults = {} => content = disk.content

\* A disk's blocks are sequences of words.
LEMMA DiskBlocks ==
    ASSUME MediumInv, NEW a \in DOMAIN disk.content
    PROVE  disk.content[a] \in Seq(Word) /\ Len(disk.content[a]) = BlockWords
  BY DiskAssumption DEF MediumInv, IsDisk

\* The only fault spoils a block as it was written.
LEMMA FaultMedium ==
    ASSUME MaxFaults <= 1, MediumInv, Fault
    PROVE  MediumInv'
  <1>1. PICK a, ws, b :
          /\ a \in DOMAIN content /\ FaultAt(a, ws, b)
          /\ content[a] = disk.content[a] =>
               (Verified(disk.content[a]) => ~Verified(b))
    <2>1. CASE LoseWord
      <3>1. PICK a \in ReadNext \cap DOMAIN content, k \in 1 .. BlockWords :
              \E w \in Damaged(content[a][k]) :
                 FaultAt(a, {k}, [content[a] EXCEPT ![k] = w])
        BY <2>1 DEF LoseWord
      <3>2. PICK w \in Damaged(content[a][k]) :
              FaultAt(a, {k}, [content[a] EXCEPT ![k] = w])
        BY <3>1
      <3>3. /\ w \in Word /\ w # content[a][k] /\ {content[a][k], w} # {0, Mod}
        BY DEF Damaged
      <3>4. a \in DOMAIN disk.content
        BY DEF MediumInv
      <3>5. ASSUME content[a] = disk.content[a], Verified(disk.content[a])
            PROVE  ~Verified([content[a] EXCEPT ![k] = w])
        <4> DEFINE c == content[a]
        <4>1. c \in Seq(Word) /\ k \in 1 .. Len(c) /\ Verified(c)
          BY <3>4, <3>5, DiskBlocks
        <4>2. w # c[k] /\ {c[k], w} # {0, Mod}
          BY <3>3
        <4> HIDE DEF c
        <4>3. ~Verified([c EXCEPT ![k] = w])
          BY <3>3, <4>1, <4>2, LostWordShows
        <4> QED  BY <4>3 DEF c
      <3> QED  BY <3>2, <3>5
    <2>2. CASE SwapWords
      <3>1. PICK a \in ReadNext \cap DOMAIN content, k \in 3 .. BlockWords - 1 :
              LET b == content[a] IN
              /\ b[k + 1] # b[k] /\ {b[k], b[k + 1]} # {0, Mod}
              /\ FaultAt(a, {k, k + 1}, [b EXCEPT ![k] = b[k + 1], ![k + 1] = b[k]])
        BY <2>2 DEF SwapWords
      <3> DEFINE c == content[a]
                 b == [c EXCEPT ![k] = c[k + 1], ![k + 1] = c[k]]
      <3>2. FaultAt(a, {k, k + 1}, b)
        BY <3>1
      <3>3. c[k + 1] # c[k] /\ {c[k], c[k + 1]} # {0, Mod}
        BY <3>1
      <3>4. a \in DOMAIN disk.content
        BY DEF MediumInv
      <3>5. ASSUME content[a] = disk.content[a], Verified(disk.content[a])
            PROVE  ~Verified(b)
        <4>1. c \in Seq(Word) /\ k \in 3 .. Len(c) - 1 /\ Verified(c)
          BY <3>4, <3>5, DiskBlocks
        <4> HIDE DEF c
        <4> QED  BY <3>3, <4>1, SwapShows
      <3> HIDE DEF b, c
      <3> QED  BY <3>2, <3>5
    <2> QED  BY <2>1, <2>2 DEF Fault
  <1>2. faults = {}
    <2>1. Cardinality(faults) < MaxFaults
      BY <1>1 DEF FaultAt
    <2>2. Cardinality(faults) \in Nat
      BY FS_CardinalityType DEF MediumInv
    <2>3. Cardinality(faults) = 0
      BY <2>1, <2>2, BlockWordsAssumption
    <2> QED  BY <2>3, FS_EmptySet DEF MediumInv
  <1>3. content = disk.content
    BY <1>2 DEF MediumInv
  <1>4. /\ content' = [content EXCEPT ![a] = b]
        /\ faults' = faults \cup {[addr |-> a, words |-> ws]}
        /\ UNCHANGED <<disk, call, img>>
    BY <1>1 DEF FaultAt, vars, queryVars
  <1>5. IsFiniteSet(faults')
    BY <1>4, FS_AddElement DEF MediumInv
  <1>6. DOMAIN content' = DOMAIN disk.content'
    BY <1>3, <1>4
  <1>7. ASSUME NEW e \in DOMAIN content'
        PROVE  \/ content'[e] = disk'.content[e]
               \/ /\ Verified(disk'.content[e]) => ~Verified(content'[e])
                  /\ \E f \in faults' : f.addr = e
    <2>1. CASE e = a
      <3>1. content'[e] = b /\ disk'.content[e] = disk.content[a]
        BY <1>4, <1>6, <2>1
      <3>2. [addr |-> a, words |-> ws] \in faults'
        BY <1>4
      <3>3. \E f \in faults' : f.addr = e
        BY <2>1, <3>2
      <3> QED  BY <1>1, <1>3, <3>1, <3>3
    <2>2. CASE e # a
      BY <1>3, <1>4, <2>2
    <2> QED  BY <2>1, <2>2
  <1>8. faults' # {}
    BY <1>4
  <1> QED
    BY <1>4, <1>5, <1>6, <1>7, <1>8 DEF MediumInv

\* Every other step leaves the medium alone.
LEMMA MediumStep ==
    ASSUME MaxFaults <= 1, MediumInv, [InspectNext]_allVars
    PROVE  MediumInv'
  <1>1. CASE Fault
    BY <1>1, FaultMedium
  <1>2. CASE ~Fault
    <2>1. UNCHANGED <<disk, content, faults, call>>
      BY <1>2
      DEF InspectNext, Open, OpenReadFails, Query, QueryReadFails, InspectReturned,
          allVars, ephemeralVars, queryVars, Quiet, ReaperStep, LocateReaper,
          ReaperRejected, ReadReaper, ListGuarded, ListUnmapped, ListRejected,
          ReadList, ChainEnds, SpacemanStep, LocateSpaceman, Located,
          SpacemanRejected, ReadSpaceman, CibRejected, ChunkAllFree, ChunkHasBitmap,
          CibRead, BitmapMissing, ReadBitmap, BeginQuery, ReadIntegrity,
          IntegrityRejected, ReadKeybag, Refused, Answered, Proceed
    <2>2. img' = img
      BY StepOfOpen
      DEF Next, Advance, Returned, vars, ReadFails, Fail, Block0Missing,
          Block0Rejected, Block0Accepted, RingPanic, ScanBlock, NoSuperblock,
          ScanDone, MapBlock, MapsDone, Reread
    <2> QED  BY <2>1, <2>2 DEF MediumInv
  <1> QED
    BY <1>1, <1>2

\* A sealed block that is accepted is as it was written.
LEMMA AcceptedIsWritten ==
    ASSUME MediumInv, NEW a, Sealed(disk, a)
    PROVE  /\ ReadObj(a) = "Ok" => content[a] = disk.content[a]
           /\ faults = {} => ReadObj(a) = "Ok"
  BY DEF MediumInv, Sealed, ReadObj

\* A raw block without a fault in it is as it was written.
LEMMA RawIsWritten ==
    ASSUME MediumInv, NEW a \in DOMAIN disk.content, \A f \in faults : f.addr # a
    PROVE  a \in DOMAIN content /\ content[a] = disk.content[a]
  BY DEF MediumInv

\* On a sound disk the mappings lead to where the writer put each object.
LEMMA PlaceIsFound ==
    ASSUME OpenInv, MediumInv, disk.sound, pc = "open",
           NEW oid \in DOMAIN disk.place
    PROVE  ResolveEphemeral(oid) = {disk.place[oid]}
  <1> DEFINE g == disk.img[0].geo
             Slot(k) == disk.img[g.descBase + k]
             whole == {k \in 0 .. g.descBlocks - 1 :
                          g.descBase + k \in DOMAIN disk.img /\ Slot(k).cksum = g.blockSize}
             supers == {k \in whole : Slot(k).kind = "nxsb" /\ Slot(k).magic}
             Maps(x) == {k \in whole : Slot(k).kind = "cpm" /\ Slot(k).xid = x}
             Names(k, m) == /\ m \in DOMAIN MapEntries(Slot(k))
                            /\ MapEntries(Slot(k))[m].oid = oid
  <1>1. g = boot /\ img = disk.img
    BY DEF OpenInv, BootInv, MediumInv
  <1>2. Placed(disk)
    BY PlaceAssumption DEF MediumInv
  <1>3. g.descBase + g.descBlocks <= AddrSpace
    BY <1>2 DEF Placed
  <1>4. PICK s \in supers :
          /\ \A t \in supers : Slot(t).xid <= Slot(s).xid
          /\ \E k \in Maps(Slot(s).xid) : \E m \in DOMAIN MapEntries(Slot(k)) :
               /\ Names(k, m) /\ disk.place[oid] = MapEntries(Slot(k))[m].paddr
               /\ \A j \in Maps(Slot(s).xid) : \A n \in DOMAIN MapEntries(Slot(j)) :
                     Names(j, n) => k < j \/ (k = j /\ m <= n)
    BY <1>2 DEF Placed
  <1>5. /\ boot.descBase \in Nat /\ boot.descBlocks \in Nat /\ AddrSpace \in Nat \ {0}
    BY SizeAssumption DEF OpenInv, IInv, TypeOK, Geometry
  <1>6. ASSUME NEW k \in 0 .. g.descBlocks - 1
        PROVE  RingAddr(k) = g.descBase + k
    <2>1. boot.descBase + k \in Nat /\ boot.descBase + k < AddrSpace
      BY <1>1, <1>3, <1>5
    <2>2. boot.descBase + k < 2 * AddrSpace
      BY <1>5, <2>1
    <2>3. (boot.descBase + k) % AddrSpace = boot.descBase + k
      BY <1>5, <2>1, <2>2, ModSmall
    <2> QED  BY <1>1, <2>3 DEF RingAddr
  <1>7. supers = Candidates(RingIndex)
    BY <1>1, <1>6 DEF Candidates, RingIndex, InImage, IsSuperblock, ChecksumOk
  <1>8. \A x : x = best.xid => Maps(x) = MapIndexes(RingIndex)
    BY <1>1, <1>6 DEF MapIndexes, RingIndex, InImage, IsLiveMap, ChecksumOk
  <1>9. Slot(s).xid = best.xid
    <2>1. BestOf(RingIndex)
      BY DEF OpenInv, IInv, LiveIsHighest
    <2>2. s \in Candidates(RingIndex)
      BY <1>4, <1>7
    <2>3. PICK k \in Candidates(RingIndex) :
            /\ best.xid = img[RingAddr(k)].xid
            /\ \A j \in Candidates(RingIndex) : img[RingAddr(j)].xid <= best.xid
      BY <2>1, <2>2 DEF BestOf
    <2>4. img[RingAddr(k)] = Slot(k) /\ img[RingAddr(s)] = Slot(s)
      BY <1>1, <1>6, <1>7, <2>2, <2>3
    <2>5. Slot(k).xid <= Slot(s).xid /\ Slot(s).xid <= Slot(k).xid
      BY <1>4, <1>7, <2>2, <2>3, <2>4
    <2>6. Slot(k).xid \in Nat /\ Slot(s).xid \in Nat
      BY <2>2, <2>3, <2>4, BlockType DEF Candidates, OpenInv, IInv
    <2> QED  BY <2>3, <2>4, <2>5, <2>6
  <1>10. ASSUME NEW k \in MapIndexes(RingIndex)
         PROVE  RingEntries(k) = MapEntries(Slot(k))
    BY <1>1, <1>6 DEF RingEntries, MapIndexes, RingIndex
  <1>11. PICK k, m :
          /\ k \in MapIndexes(RingIndex) /\ m \in DOMAIN RingEntries(k)
          /\ RingEntries(k)[m].oid = oid /\ disk.place[oid] = RingEntries(k)[m].paddr
          /\ \A j \in MapIndexes(RingIndex) : \A n \in DOMAIN RingEntries(j) :
                RingEntries(j)[n].oid = oid => k < j \/ (k = j /\ m <= n)
    <2> HIDE DEF Slot, Maps, supers, g
    <2>1. Maps(Slot(s).xid) = MapIndexes(RingIndex)
      BY <1>8, <1>9
    <2>2. PICK k \in MapIndexes(RingIndex) : \E m \in DOMAIN MapEntries(Slot(k)) :
               /\ Names(k, m) /\ disk.place[oid] = MapEntries(Slot(k))[m].paddr
               /\ \A j \in MapIndexes(RingIndex) : \A n \in DOMAIN MapEntries(Slot(j)) :
                     Names(j, n) => k < j \/ (k = j /\ m <= n)
      BY <1>4, <2>1
    <2> QED  BY <1>10, <2>2
  <1>12. \A j \in MapIndexes(RingIndex) : \A n \in DOMAIN RingEntries(j) :
            (j < k \/ (j = k /\ n < m)) => RingEntries(j)[n].oid # RingEntries(k)[m].oid
    <2>1. \A j \in MapIndexes(RingIndex) : j \in Nat /\ DOMAIN RingEntries(j) \subseteq Nat
      BY <1>5 DEF MapIndexes, RingIndex, RingEntries, MapEntries
    <2> QED  BY <1>11, <2>1
  <1>13. EarliestMapWins
    BY OrderDecides DEF OpenInv
  <1>14. ResolveEphemeral(RingEntries(k)[m].oid) = {RingEntries(k)[m].paddr}
    BY <1>11, <1>12, <1>13 DEF EarliestMapWins
  <1> QED
    BY <1>11, <1>14

-----------------------------------------------------------------------------
\* The reap queue

Pendings == Seq([oid : Word, type : Word])

\* A field of a block is a word.
LEMMA FieldType ==
    ASSUME NEW b \in Seq(Word), NEW k \in Nat
    PROVE  Field(b, k) \in Word /\ Field(b, k) \in Nat
  <1>1. 0 \in Word /\ \A x \in Word : x \in Nat
    BY ModType
  <1> QED
    BY <1>1 DEF Field

\* One more of a sequence.
LEMMA SubSeqNext ==
    ASSUME NEW S, NEW s \in Seq(S), NEW c \in 0 .. Len(s) - 1
    PROVE  Append(SubSeq(s, 1, c), s[c + 1]) = SubSeq(s, 1, c + 1)
  OBVIOUS

\* The parts of a sequence up to m, and from there up to n.
LEMMA SubSeqJoin ==
    ASSUME NEW S, NEW s \in Seq(S), NEW m \in 0 .. Len(s), NEW n \in m .. Len(s)
    PROVE  /\ SubSeq(s, m + 1, n) \in Seq(S)
           /\ SubSeq(s, 1, m) \o SubSeq(s, m + 1, n) = SubSeq(s, 1, n)
  OBVIOUS

\* The whole of a sequence.
LEMMA SubSeqAll ==
    ASSUME NEW S, NEW s \in Seq(S)
    PROVE  SubSeq(s, 1, Len(s)) = s
  OBVIOUS

\* The entries of a list that holds es are es, whatever slots are empty.
LEMMA ListEntriesHeld ==
    ASSUME NEW b \in Seq(Word), NEW es \in Pendings, NEW slots,
           ListHolds(b, es, slots)
    PROVE  ListEntries(b) = es
  <1> DEFINE n == Field(b, NRL_COUNT)
             Next1(k, x) == IF ListEntry(b, k).oid = 0 THEN x
                            ELSE Append(x, ListEntry(b, k))
             F == [k \in 1 .. n |-> [x \in Pendings |-> Next1(k, x)]]
             K(f) == f = [k \in 0 .. n |-> IF k = 0 THEN <<>>
                            ELSE IF ListEntry(b, k).oid = 0 THEN f[k - 1]
                            ELSE Append(f[k - 1], ListEntry(b, k))]
             kept == CHOOSE f : K(f)
  <1>1. n \in Nat /\ n = Field(b, NRL_COUNT)
    BY FieldType DEF NRL_COUNT
  <1>2. ListCount(b) = n
    <2>1. 4 + 2 * n <= BlockWords
      BY DEF ListHolds, NRL_ENTRIES, NRLE_LEN
    <2>2. n <= (BlockWords - 4) \div 2
      BY <1>1, <2>1, BlockWordsAssumption
    <2>3. (BlockWords - 4) \div 2 \in Int
      BY BlockWordsAssumption
    <2> QED  BY <1>1, <2>2, <2>3 DEF ListCount, NRL_ENTRIES, NRLE_LEN
  <1>3. ListEntries(b) = kept[n]
    BY <1>2 DEF ListEntries
  <1> HIDE DEF n
  <1>4. \A k \in 1 .. n : ListEntry(b, k) \in [oid : Word, type : Word]
    BY <1>1, FieldType DEF ListEntry, Pending, NRL_ENTRIES, NRLE_LEN
  <1>5. K(kept)
    <2>1. \A k \in 1 .. n : \A x \in Pendings : F[k][x] = Next1(k, x)
      OBVIOUS
    <2>2. ASSUME NEW k \in 1 .. n, NEW x \in Pendings
          PROVE  Next1(k, x) \in Pendings
      <3>1. ListEntry(b, k) \in [oid : Word, type : Word]
        BY <1>4
      <3>2. \A R : \A s \in Seq(R) : \A e \in R : Append(s, e) \in Seq(R)
        OBVIOUS
      <3>3. Append(x, ListEntry(b, k)) \in Pendings
        BY <3>1, <3>2 DEF Pendings
      <3> QED  BY <3>3
    <2>3. Steps(F, n, Pendings)
      BY <2>1, <2>2 DEF Steps
    <2>4. <<>> \in Pendings
      BY DEF Pendings
    <2> HIDE DEF F
    <2>5. PICK f : Iterates(f, F, n, Pendings, <<>>)
      BY <1>1, <2>3, <2>4, Recursion
    <2>6. /\ f = [k \in 0 .. n |-> f[k]] /\ f[0] = <<>>
          /\ \A k \in 1 .. n : f[k] = Next1(k, f[k - 1])
      BY <1>1, <2>1, <2>5 DEF Iterates
    <2>7. K(f)
      BY <1>1, <2>6
    <2> HIDE DEF K
    <2> QED  BY <2>7
  <1> HIDE DEF kept
  <1>6. kept[0] = <<>> /\ \A k \in 1 .. n : kept[k] = Next1(k, kept[k - 1])
    <2>1. 0 \in 0 .. n /\ \A k \in 1 .. n : k \in 0 .. n /\ k # 0
      BY <1>1
    <2> QED  BY <1>5, <2>1
  <1> HIDE DEF K
  <1> DEFINE Cut(k, c) == /\ kept[k] = SubSeq(es, 1, c)
                          /\ \A j \in 1 .. c : slots[j] <= k
                          /\ \A j \in c + 1 .. Len(es) : slots[j] > k
             T == {k \in 0 .. n : \E c \in 0 .. Len(es) : Cut(k, c)}
  <1>7. /\ Len(es) \in Nat /\ slots \in [1 .. Len(es) -> 1 .. n]
        /\ \A k, m \in 1 .. Len(es) : k < m => slots[k] < slots[m]
        /\ \A k \in 1 .. Len(es) : es[k].oid # 0 /\ ListEntry(b, slots[k]) = es[k]
        /\ \A j \in 1 .. n :
              (\A k \in 1 .. Len(es) : slots[k] # j) => ListEntry(b, j).oid = 0
    BY DEF ListHolds, n, Pendings
  <1>8. 0 \in T
    <2>1. kept[0] = SubSeq(es, 1, 0)
      BY <1>6 DEF Pendings
    <2>2. \A j \in 1 .. Len(es) : slots[j] > 0
      BY <1>7
    <2>3. Cut(0, 0)
      BY <2>1, <2>2
    <2> HIDE DEF Cut
    <2>4. \E c \in 0 .. Len(es) : Cut(0, c)
      BY <1>7, <2>3
    <2> QED  BY <1>1, <2>4
  <1>9. ASSUME NEW k \in 0 .. n - 1, k \in T
        PROVE  k + 1 \in T
    <2>1. PICK c \in 0 .. Len(es) : Cut(k, c)
      BY <1>9
    <2>2. k + 1 \in 1 .. n /\ kept[k + 1] = Next1(k + 1, kept[k])
      BY <1>1, <1>6
    <2>3. CASE \E j \in 1 .. Len(es) : slots[j] = k + 1
      <3>1. PICK j \in 1 .. Len(es) : slots[j] = k + 1
        BY <2>3
      <3>2. j = c + 1
        <4>1. ~(j <= c)
          BY <1>7, <2>1, <3>1
        <4>2. ~(c + 1 < j)
          <5> SUFFICES ASSUME c + 1 < j PROVE FALSE
            OBVIOUS
          <5>1. c + 1 \in 1 .. Len(es) /\ slots[c + 1] < slots[j] /\ slots[c + 1] > k
            BY <1>7, <2>1
          <5>2. slots[c + 1] \in Nat
            BY <1>7, <5>1
          <5> QED  BY <3>1, <5>1, <5>2
        <4> QED  BY <4>1, <4>2, <1>7
      <3>3. kept[k + 1] = Append(SubSeq(es, 1, c), es[c + 1])
        BY <1>7, <2>1, <2>2, <3>1, <3>2
      <3>4. c \in 0 .. Len(es) - 1
        BY <1>7, <3>2
      <3>5. kept[k + 1] = SubSeq(es, 1, c + 1)
        BY <3>3, <3>4, SubSeqNext DEF Pendings
      <3>6. \A m \in 1 .. c + 1 : slots[m] <= k + 1
        <4> SUFFICES ASSUME NEW m \in 1 .. c + 1 PROVE slots[m] <= k + 1
          OBVIOUS
        <4>1. m \in 1 .. Len(es) /\ slots[m] \in Nat
          BY <1>7, <3>4
        <4> QED  BY <2>1, <3>1, <3>2, <4>1
      <3>7. \A m \in (c + 1) + 1 .. Len(es) : slots[m] > k + 1
        <4> SUFFICES ASSUME NEW m \in (c + 1) + 1 .. Len(es) PROVE slots[m] > k + 1
          OBVIOUS
        <4>1. m \in 1 .. Len(es) /\ c + 1 \in 1 .. Len(es) /\ c + 1 < m
          BY <1>7, <3>4
        <4>2. slots[c + 1] < slots[m]
          BY <1>7, <4>1
        <4> QED  BY <3>1, <3>2, <4>2
      <3>8. Cut(k + 1, c + 1) /\ c + 1 \in 0 .. Len(es)
        BY <1>7, <3>4, <3>5, <3>6, <3>7
      <3> HIDE DEF Cut
      <3>9. \E d \in 0 .. Len(es) : Cut(k + 1, d)
        BY <3>8
      <3> QED  BY <2>2, <3>9
    <2>4. CASE \A j \in 1 .. Len(es) : slots[j] # k + 1
      <3>1. kept[k + 1] = SubSeq(es, 1, c)
        BY <1>7, <2>1, <2>2, <2>4
      <3>2. \A j \in 1 .. Len(es) : slots[j] \in Nat
        BY <1>7
      <3>3. Cut(k + 1, c)
        BY <1>7, <2>1, <2>4, <3>1, <3>2
      <3> HIDE DEF Cut
      <3>4. \E d \in 0 .. Len(es) : Cut(k + 1, d)
        BY <3>3
      <3> QED  BY <2>2, <3>4
    <2> QED  BY <2>3, <2>4
  <1> HIDE DEF T
  <1>10. n \in T
    BY <1>1, <1>8, <1>9, UpTo
  <1>11. PICK c \in 0 .. Len(es) : Cut(n, c)
    BY <1>10 DEF T
  <1>12. c = Len(es)
    <2> SUFFICES ASSUME c < Len(es) PROVE FALSE
      BY <1>7
    <2>1. c + 1 \in 1 .. Len(es) /\ slots[c + 1] > n
      BY <1>7, <1>11
    <2> QED  BY <1>1, <1>7, <2>1
  <1> QED
    BY <1>3, <1>11, <1>12, SubSeqAll DEF Pendings

\* What is read next tells the query, and only a query that is done answers.
StageInv ==
    /\ stage # "idle" => pc = "open"
    /\ stage # "done" => answer = NoAnswer
    /\ stage \in {"reaper", "list"} => call.op = "pending"
    /\ stage \in {"spaceman", "cib", "bitmap"} => call.op = "free"
    /\ stage = "integrity" => call.op = "integrity" /\ at = call.arg
    /\ stage = "keybag" => call.op = "keybag" /\ at = call.arg

\* No step changes the disk or the call, and none leaves its query.
LEMMA StageStep ==
    ASSUME StageInv, [InspectNext]_allVars
    PROVE  StageInv' /\ UNCHANGED <<disk, call>>
  <1> USE DEF StageInv, NoAnswer
  <1>1. CASE Open \/ OpenReadFails
    <2>1. pc # "open"
      BY <1>1
      DEF Open, OpenReadFails, Advance, ReadFails, Block0Missing, Block0Rejected,
          Block0Accepted, RingPanic, ScanBlock, NoSuperblock, ScanDone, MapBlock,
          MapsDone, Reread, AtRingBlock
    <2> QED
      BY <1>1, <2>1 DEF Open, OpenReadFails, ephemeralVars, queryVars
  <1>2. CASE ReaperStep
    BY <1>2
    DEF ReaperStep, LocateReaper, Located, ReaperRejected, ReadReaper, ListGuarded,
        ListUnmapped, ListRejected, ReadList, ChainEnds, EnterList, Refused,
        Answered, Proceed, Quiet, vars
  <1>3. CASE SpacemanStep
    BY <1>3
    DEF SpacemanStep, LocateSpaceman, Located, SpacemanRejected, ReadSpaceman,
        CibRejected, ChunkAllFree, ChunkHasBitmap, CibRead, BitmapMissing,
        ReadBitmap, Refused, Answered, Proceed, Quiet, vars
  <1>4. CASE BeginQuery \/ ReadIntegrity \/ IntegrityRejected \/ ReadKeybag
    BY <1>4
    DEF BeginQuery, ReadIntegrity, IntegrityRejected, ReadKeybag, Refused,
        Answered, Proceed, Quiet, vars
  <1>5. CASE QueryReadFails
    BY <1>5 DEF QueryReadFails, Refused, Answered, Quiet, vars
  <1>6. CASE Fault \/ UNCHANGED allVars
    BY <1>6
    DEF Fault, LoseWord, SwapWords, FaultAt, allVars, ephemeralVars, queryVars, vars
  <1> QED
    BY <1>1, <1>2, <1>3, <1>4, <1>5, <1>6 DEF InspectNext, Query, InspectReturned

\* A step of a query, of whatever kind, that is not one of its own: the open,
\* the medium, a step of nobody.
LEMMA OutsideStep ==
    ASSUME [InspectNext]_allVars, ~Query, ~QueryReadFails
    PROVE  UNCHANGED <<disk, queryVars, reaperVars, sm>>
  BY DEF InspectNext, InspectReturned, Open, OpenReadFails, Fault, LoseWord, SwapWords,
         FaultAt, allVars, ephemeralVars

\* The lists read so far are the first k, and gave what those hold.
PendingInv ==
    disk.sound =>
        /\ stage = "reaper" => at = disk.place[ReaperOid]
        /\ stage = "list" => \E k \in 0 .. Len(disk.lists) :
              at = ListOid(disk, k + 1) /\ out = SubSeq(disk.queue, 1, disk.upto[k])

\* The reaper's place, and what it holds.
LEMMA ReaperStored ==
    ASSUME MediumInv, disk.sound, NEW a, a = disk.place[ReaperOid]
    PROVE  /\ ReaperOid \in DOMAIN disk.place /\ Sealed(disk, a)
           /\ Field(disk.content[a], NR_HEAD) = ListOid(disk, 1)
           /\ InProgress(disk.content[a]) = SubSeq(disk.queue, 1, disk.upto[0])
           /\ Len(disk.lists) \in Nat
  <1>1. QueueStored(disk)
    BY QueueAssumption DEF MediumInv
  <1> QED
    BY <1>1 DEF QueueStored

\* The list at hand, its place and what it holds.
LEMMA ListStored ==
    ASSUME MediumInv, disk.sound, NEW k \in 0 .. Len(disk.lists),
           ListOid(disk, k + 1) # 0, NEW a, a = disk.place[ListOid(disk, k + 1)]
    PROVE  /\ k + 1 \in 0 .. Len(disk.lists)
           /\ ListOid(disk, k + 1) \in DOMAIN disk.place /\ Sealed(disk, a)
           /\ Field(disk.content[a], NRL_NEXT) = ListOid(disk, (k + 1) + 1)
           /\ SubSeq(disk.queue, 1, disk.upto[k]) \o ListEntries(disk.content[a])
                = SubSeq(disk.queue, 1, disk.upto[k + 1])
  <1> DEFINE q == disk.queue
             n == Len(disk.lists)
             m == k + 1
             lower == disk.upto[k]
             upper == disk.upto[m]
             es == disk.lists[m].es
  <1>1. QueueStored(disk)
    BY QueueAssumption DEF MediumInv
  <1>2. /\ n \in Nat /\ q \in Pendings
        /\ disk.upto \in [0 .. n -> 0 .. Len(q)]
    BY <1>1 DEF QueueStored, Pendings
  <1>3. m \in 1 .. n /\ m - 1 = k /\ m \in 0 .. n
    BY <1>2 DEF ListOid
  <1>4. /\ Field(disk.content[a], NRL_NEXT) = ListOid(disk, m + 1)
        /\ disk.upto[m - 1] <= disk.upto[m]
        /\ es = SubSeq(q, disk.upto[m - 1] + 1, disk.upto[m])
        /\ ListHolds(disk.content[a], es, disk.lists[m].slots)
    BY <1>1, <1>3 DEF QueueStored
  <1>5. ListOid(disk, m) \in DOMAIN disk.place /\ Sealed(disk, a)
    BY <1>1, <1>3 DEF QueueStored
  <1>6. lower \in 0 .. Len(q) /\ upper \in lower .. Len(q) /\ Len(q) \in Nat
    BY <1>2, <1>3, <1>4 DEF Pendings
  <1>7. es = SubSeq(q, lower + 1, upper)
    BY <1>3, <1>4
  <1> HIDE DEF q, es, lower, upper
  <1>8. es \in Pendings
    BY <1>2, <1>6, <1>7, SubSeqJoin DEF Pendings
  <1>9. disk.content[a] \in Seq(Word)
    BY <1>5, DiskBlocks DEF Sealed
  <1>10. ListEntries(disk.content[a]) = es
    BY <1>4, <1>8, <1>9, ListEntriesHeld
  <1>11. SubSeq(q, 1, lower) \o es = SubSeq(q, 1, upper)
    BY <1>2, <1>6, <1>7, SubSeqJoin DEF Pendings
  <1> QED
    BY <1>3, <1>4, <1>5, <1>10, <1>11 DEF q, lower, upper

\* The end of the chain is the end of the queue.
LEMMA QueueEnds ==
    ASSUME MediumInv, disk.sound, NEW k \in 0 .. Len(disk.lists),
           ListOid(disk, k + 1) = 0
    PROVE  SubSeq(disk.queue, 1, disk.upto[k]) = disk.queue
  <1>1. QueueStored(disk)
    BY QueueAssumption DEF MediumInv
  <1>2. k = Len(disk.lists)
    <2> SUFFICES ASSUME k # Len(disk.lists) PROVE FALSE
      OBVIOUS
    <2>1. k + 1 \in 1 .. Len(disk.lists)
      BY <1>1 DEF QueueStored
    <2> QED  BY <1>1, <2>1 DEF QueueStored
  <1>3. disk.upto[k] = Len(disk.queue) /\ disk.queue \in Pendings
    BY <1>1, <1>2 DEF QueueStored, Pendings
  <1> QED
    BY <1>3, SubSeqAll DEF Pendings

\* A step keeps that.
LEMMA PendingStep ==
    ASSUME OpenInv, MediumInv, StageInv, PendingInv, PendingIsQueue,
           [InspectNext]_allVars
    PROVE  PendingInv' /\ PendingIsQueue'
  <1>0. StageInv' /\ UNCHANGED <<disk, call>>
    BY StageStep
  <1> SUFFICES ASSUME disk.sound, call.op = "pending"
               PROVE  PendingInv' /\ PendingIsQueue'
    BY <1>0 DEF PendingInv, PendingIsQueue, StageInv
  <1>1. CASE ~Query /\ ~QueryReadFails
    BY <1>1, OutsideStep DEF PendingInv, PendingIsQueue, queryVars, reaperVars
  <1>2. CASE \/ ReaperRejected \/ ListGuarded \/ ListUnmapped \/ ListRejected
             \/ QueryReadFails
    <2>1. stage' = "done" /\ answer'.status # "Ok"
      BY <1>2 DEF ReaperRejected, ListGuarded, ListUnmapped, ListRejected,
                  QueryReadFails, Refused, Answered
    <2> QED  BY <2>1 DEF PendingInv, PendingIsQueue
  <1>3. CASE LocateReaper
    <2>1. PICK a : a = disk.place[ReaperOid]
      OBVIOUS
    <2>2. ResolveEphemeral(ReaperOid) = {a}
      BY <1>3, <2>1, ReaperStored, PlaceIsFound DEF LocateReaper, Located
    <2>3. stage' = "reaper" /\ at' = a
      BY <1>3, <2>2 DEF LocateReaper, Located, Proceed
    <2>4. answer'.status # "Ok"
      BY <1>0, <2>3 DEF StageInv, NoAnswer
    <2> QED  BY <1>0, <2>1, <2>3, <2>4 DEF PendingInv, PendingIsQueue
  <1>4. CASE ReadReaper
    <2>1. stage = "reaper" /\ ReadObj(at) = "Ok" /\ at = disk.place[ReaperOid]
      BY <1>4 DEF ReadReaper, PendingInv
    <2>2. content[at] = disk.content[at]
      BY <2>1, ReaperStored, AcceptedIsWritten
    <2>3. /\ stage' = "list" /\ at' = ListOid(disk, 1)
          /\ out' = SubSeq(disk.queue, 1, disk.upto[0])
      BY <1>4, <2>1, <2>2, ReaperStored DEF ReadReaper, Proceed
    <2>4. 0 \in 0 .. Len(disk.lists) /\ 0 + 1 = 1
      BY <2>1, ReaperStored
    <2>5. answer'.status # "Ok"
      BY <1>0, <2>3 DEF StageInv, NoAnswer
    <2>6. \E k \in 0 .. Len(disk.lists) :
            at' = ListOid(disk, k + 1) /\ out' = SubSeq(disk.queue, 1, disk.upto[k])
      BY <2>3, <2>4
    <2> QED  BY <1>0, <2>3, <2>5, <2>6 DEF PendingInv, PendingIsQueue, ListOid
  <1>5. CASE ReadList
    <2>1. stage = "list" /\ at # 0
      BY <1>5 DEF ReadList, EnterList
    <2>2. PICK k \in 0 .. Len(disk.lists) :
            at = ListOid(disk, k + 1) /\ out = SubSeq(disk.queue, 1, disk.upto[k])
      BY <2>1 DEF PendingInv
    <2>3. PICK a : a = disk.place[at]
      OBVIOUS
    <2>4. /\ k + 1 \in 0 .. Len(disk.lists)
          /\ at \in DOMAIN disk.place /\ Sealed(disk, a)
          /\ Field(disk.content[a], NRL_NEXT) = ListOid(disk, (k + 1) + 1)
          /\ out \o ListEntries(disk.content[a])
               = SubSeq(disk.queue, 1, disk.upto[k + 1])
      BY <2>1, <2>2, <2>3, ListStored
    <2>5. ResolveEphemeral(at) = {a}
      BY <2>1, <2>3, <2>4, PlaceIsFound DEF StageInv
    <2>6. /\ ReadObj(a) = "Ok" /\ out' = out \o ListEntries(content[a])
          /\ stage' = "list" /\ at' = Field(content[a], NRL_NEXT)
      BY <1>5, <2>5 DEF ReadList, Proceed
    <2>7. content[a] = disk.content[a]
      BY <2>4, <2>6, AcceptedIsWritten
    <2>8. \E m \in 0 .. Len(disk.lists) :
            at' = ListOid(disk, m + 1) /\ out' = SubSeq(disk.queue, 1, disk.upto[m])
      BY <2>4, <2>6, <2>7
    <2>9. answer'.status # "Ok"
      BY <1>0, <2>6 DEF StageInv, NoAnswer
    <2> QED  BY <1>0, <2>6, <2>8, <2>9 DEF PendingInv, PendingIsQueue, ListOid
  <1>6. CASE ChainEnds
    <2>1. stage = "list" /\ at = 0 /\ stage' = "done" /\ answer'.value = out
      BY <1>6 DEF ChainEnds, Answered
    <2>2. PICK k \in 0 .. Len(disk.lists) :
            at = ListOid(disk, k + 1) /\ out = SubSeq(disk.queue, 1, disk.upto[k])
      BY <2>1 DEF PendingInv
    <2>3. out = disk.queue
      BY <2>1, <2>2, QueueEnds
    <2> QED  BY <1>0, <2>1, <2>3 DEF PendingInv, PendingIsQueue
  <1>7. CASE SpacemanStep \/ BeginQuery \/ ReadIntegrity \/ IntegrityRejected
             \/ ReadKeybag
    <2>1. call.op # "pending"
      BY <1>7
      DEF StageInv, SpacemanStep, LocateSpaceman, Located, SpacemanRejected,
          ReadSpaceman, CibRejected, ChunkAllFree, ChunkHasBitmap, CibRead,
          BitmapMissing, ReadBitmap, BeginQuery, ReadIntegrity, IntegrityRejected,
          ReadKeybag
    <2> QED  BY <2>1
  <1> QED
    BY <1>1, <1>2, <1>3, <1>4, <1>5, <1>6, <1>7 DEF Query, ReaperStep

-----------------------------------------------------------------------------
\* The space manager

\* A number and its quotient and remainder.
LEMMA DivMod ==
    ASSUME NEW m \in Nat \ {0}, NEW x \in Nat
    PROVE  /\ x \div m \in Nat /\ x % m \in 0 .. m - 1
           /\ x = m * (x \div m) + (x % m)
  OBVIOUS

\* Multiples keep the order.
LEMMA TimesKeepsOrder ==
    ASSUME NEW m \in Nat, NEW c \in Nat, NEW q \in Nat, c <= q
    PROVE  m * c <= m * q
  <1>1. PICK e \in Nat : q = c + e
    <2>1. q - c \in Nat /\ q = c + (q - c)
      OBVIOUS
    <2> QED  BY <2>1
  <1>2. m * q = m * c + m * e /\ m * c \in Nat /\ m * e \in Nat
    BY <1>1
  <1> QED
    BY <1>2

\* What is below c times m has a quotient below c.
LEMMA DivBelow ==
    ASSUME NEW m \in Nat \ {0}, NEW x \in Nat, NEW c \in Nat, x < m * c
    PROVE  x \div m < c
  <1> DEFINE q == x \div m
  <1>1. q \in Nat /\ m * q <= x /\ m * q \in Nat
    BY DivMod
  <1> HIDE DEF q
  <1>2. ~(c <= q)
    <2> SUFFICES ASSUME c <= q PROVE FALSE
      OBVIOUS
    <2>1. m * c <= m * q /\ m * c \in Nat
      BY <1>1, TimesKeepsOrder
    <2> QED  BY <1>1, <2>1
  <1>3. q < c
    BY <1>1, <1>2
  <1> QED
    BY <1>3 DEF q

\* The space manager of a disk.
Space(d) == d.content[d.place[SpacemanOid]]

FreeInv ==
    disk.sound =>
        /\ stage = "spaceman" => at = disk.place[SpacemanOid]
        /\ stage \in {"cib", "bitmap"} => sm = Space(disk) /\ call.arg < disk.blocks
        /\ stage = "cib" => at = disk.cibs[CibIndex(sm, call.arg)]
        /\ stage = "bitmap" =>
             at = disk.bitmapOf[ChunkIndex(sm, call.arg)] /\ at # 0

\* The writer's geometry: the fields of the space manager are numbers, and
\* every block of the device lies in a chunk, every chunk in a CIB.
LEMMA SpaceGeometry ==
    ASSUME MediumInv, disk.sound, NEW x \in Nat
    PROVE  LET s == Space(disk)
               p == Field(s, SM_BLOCKS_PER_CHUNK)
               r == Field(s, SM_CHUNKS_PER_CIB)
               c == ChunkIndex(s, x)
           IN  /\ SpacemanOid \in DOMAIN disk.place
               /\ Sealed(disk, disk.place[SpacemanOid])
               /\ p \in Nat \ {0} /\ r \in Nat \ {0}
               /\ Field(s, DEV_CHUNK_COUNT) \in Nat /\ Field(s, DEV_CIB_COUNT) \in Nat
               /\ disk.blocks \in Nat /\ c \in Nat
               /\ x % p \in 0 .. p - 1 /\ x = p * c + (x % p)
               /\ CibIndex(s, x) \in Nat /\ WithinCib(s, x) \in 0 .. r - 1
               /\ c = r * CibIndex(s, x) + WithinCib(s, x)
               /\ x < disk.blocks => /\ c < Field(s, DEV_CHUNK_COUNT)
                                     /\ CibIndex(s, x) < Field(s, DEV_CIB_COUNT)
               /\ GeometryError(s, x) = "none" <=> x < disk.blocks
  <1> DEFINE s == Space(disk)
             p == Field(s, SM_BLOCKS_PER_CHUNK)
             r == Field(s, SM_CHUNKS_PER_CIB)
             chunks == Field(s, DEV_CHUNK_COUNT)
             cibs == Field(s, DEV_CIB_COUNT)
             c == ChunkIndex(s, x)
             n == CibIndex(s, x)
  <1>1. SpaceStored(disk)
    BY SpaceAssumption DEF MediumInv
  <1>2. /\ SpacemanOid \in DOMAIN disk.place
        /\ Sealed(disk, disk.place[SpacemanOid])
        /\ p # 0 /\ r # 0 /\ Field(s, DEV_BLOCK_COUNT) = disk.blocks
        /\ Field(s, DEV_CAB_COUNT) = 0
        /\ disk.blocks <= chunks * p /\ chunks <= cibs * r
    BY <1>1 DEF SpaceStored, Space
  <1>3. s \in Seq(Word)
    BY <1>2, DiskBlocks DEF Sealed, Space
  <1>4. /\ p \in Nat \ {0} /\ r \in Nat \ {0} /\ chunks \in Nat /\ cibs \in Nat
        /\ disk.blocks \in Nat
    <2> HIDE DEF s
    <2> QED
      BY <1>2, <1>3, FieldType
      DEF SM_BLOCKS_PER_CHUNK, SM_CHUNKS_PER_CIB, DEV_BLOCK_COUNT, DEV_CHUNK_COUNT,
          DEV_CIB_COUNT
  <1>5. c = x \div p /\ n = c \div r /\ WithinCib(s, x) = c % r
    BY DEF ChunkIndex, CibIndex, WithinCib
  <1>6. GeometryError(s, x) =
          IF p = 0 \/ r = 0 \/ x >= disk.blocks THEN "FieldOutOfRange"
          ELSE IF c >= chunks \/ n >= cibs THEN "FieldOutOfRange" ELSE "none"
    BY <1>2 DEF GeometryError
  <1> HIDE DEF s, p, r, chunks, cibs, c, n
  <1>7. c \in Nat /\ x % p \in 0 .. p - 1 /\ x = p * c + (x % p)
    BY <1>4, <1>5, DivMod
  <1>8. n \in Nat /\ c % r \in 0 .. r - 1 /\ c = r * n + (c % r)
    BY <1>4, <1>5, <1>7, DivMod
  <1>9. ASSUME x < disk.blocks PROVE c < chunks /\ n < cibs
    <2>1. x < p * chunks
      BY <1>2, <1>4, <1>9
    <2>2. c < chunks
      BY <1>4, <1>5, <2>1, DivBelow
    <2>3. c < r * cibs
      BY <1>2, <1>4, <1>7, <2>2
    <2>4. n < cibs
      BY <1>4, <1>5, <1>7, <2>3, DivBelow
    <2> QED  BY <2>2, <2>4
  <1>10. GeometryError(s, x) = "none" <=> x < disk.blocks
    BY <1>4, <1>6, <1>7, <1>8, <1>9
  <1> QED
    BY <1>2, <1>4, <1>5, <1>7, <1>8, <1>9, <1>10 DEF s, p, r, chunks, cibs, c, n

\* The CIB of a block of the device, and the bitmap it names.
LEMMA CibStored ==
    ASSUME MediumInv, disk.sound, NEW x \in Nat, x < disk.blocks
    PROVE  LET s == Space(disk)
               a == disk.cibs[CibIndex(s, x)]
           IN  /\ CibAddr(s, x) = a /\ Sealed(disk, a)
               /\ ChunkInfoError(disk.content[a], WithinCib(s, x)) = "none"
               /\ BitmapAddr(disk.content[a], WithinCib(s, x))
                    = disk.bitmapOf[ChunkIndex(s, x)]
  <1> DEFINE s == Space(disk)
             r == Field(s, SM_CHUNKS_PER_CIB)
             chunks == Field(s, DEV_CHUNK_COUNT)
             cibs == Field(s, DEV_CIB_COUNT)
             c == ChunkIndex(s, x)
             n == CibIndex(s, x)
             j == WithinCib(s, x)
             a == disk.cibs[n]
  <1>1. SpaceStored(disk)
    BY SpaceAssumption DEF MediumInv
  <1>2. /\ r \in Nat \ {0} /\ chunks \in Nat /\ cibs \in Nat /\ c \in Nat /\ n \in Nat
        /\ j \in 0 .. r - 1 /\ c = r * n + j /\ c < chunks /\ n < cibs
    BY SpaceGeometry
  <1>3. n \in 0 .. cibs - 1
    BY <1>2
  <1>4. c = n * r + j
    BY <1>2
  <1>5. /\ Field(s, Field(s, DEV_ADDR_OFFSET) + n) = a
        /\ Sealed(disk, a)
        /\ \A k \in {k \in 0 .. r - 1 : n * r + k < chunks} :
             /\ k < Field(disk.content[a], CIB_CHUNK_INFO_COUNT)
             /\ Field(disk.content[a], CIB_CHUNK_INFO + k) = disk.bitmapOf[n * r + k]
    BY <1>1, <1>3 DEF SpaceStored, Space
  <1>6. /\ j < Field(disk.content[a], CIB_CHUNK_INFO_COUNT)
        /\ Field(disk.content[a], CIB_CHUNK_INFO + j) = disk.bitmapOf[c]
    <2> HIDE DEF s, r, chunks, cibs, c, n, j, a
    <2>1. j \in {k \in 0 .. r - 1 : n * r + k < chunks}
      BY <1>2, <1>4
    <2> QED  BY <1>4, <1>5, <2>1
  <1>7. ~(j >= Field(disk.content[a], CIB_CHUNK_INFO_COUNT))
    <2>1. Field(disk.content[a], CIB_CHUNK_INFO_COUNT) \in Nat
      <3>1. disk.content[a] \in Seq(Word)
        BY <1>5, DiskBlocks DEF Sealed
      <3> HIDE DEF a
      <3> QED  BY <3>1, FieldType DEF CIB_CHUNK_INFO_COUNT
    <2> HIDE DEF a, j, r
    <2> QED  BY <1>2, <1>6, <2>1
  <1> QED
    BY <1>5, <1>6, <1>7 DEF CibAddr, ChunkInfoError, BitmapAddr

\* The bit of a block of the device.
LEMMA BitmapStored ==
    ASSUME MediumInv, disk.sound, NEW x \in Nat, x < disk.blocks
    PROVE  LET s == Space(disk)
               a == disk.bitmapOf[ChunkIndex(s, x)]
               bit == x % Field(s, SM_BLOCKS_PER_CHUNK)
           IN  IF a = 0 THEN x \notin disk.alloc
               ELSE /\ a \in disk.bitmaps /\ a \in DOMAIN disk.content
                    /\ Allocated(disk.content[a], bit) <=> x \in disk.alloc
  <1> DEFINE s == Space(disk)
             p == Field(s, SM_BLOCKS_PER_CHUNK)
             chunks == Field(s, DEV_CHUNK_COUNT)
             c == ChunkIndex(s, x)
             a == disk.bitmapOf[c]
             bit == x % p
  <1>1. SpaceStored(disk)
    BY SpaceAssumption DEF MediumInv
  <1>2. /\ p \in Nat \ {0} /\ chunks \in Nat /\ c \in Nat /\ c < chunks
        /\ bit \in 0 .. p - 1 /\ x = p * c + bit
    BY SpaceGeometry
  <1>3. c \in 0 .. chunks - 1
    BY <1>2
  <1>4. IF a = 0
        THEN disk.alloc \cap (c * p .. (c + 1) * p - 1) = {}
        ELSE /\ a \in disk.bitmaps \cap DOMAIN disk.content
             /\ \A k \in 0 .. BlockWords - 1, j \in 0 .. WordBits - 1 :
                   k * WordBits + j < p =>
                      (IsSet(disk.content[a][k + 1], j) <=>
                         c * p + k * WordBits + j \in disk.alloc)
             /\ p <= BlockWords * WordBits
    BY <1>1, <1>3 DEF SpaceStored, Space
  <1>5. CASE a = 0
    <2>1. x \in c * p .. (c + 1) * p - 1
      <3> HIDE DEF s, p, chunks, c, a, bit
      <3>1. (c + 1) * p = p * c + p /\ c * p = p * c /\ p * c \in Nat
        BY <1>2
      <3> QED  BY <1>2, <3>1
    <2> QED  BY <1>4, <1>5, <2>1
  <1>6. CASE a # 0
    <2> DEFINE k == bit \div WordBits
               j == bit % WordBits
    <2>0. WordBits \in Nat \ {0} /\ BlockWords \in Nat
      BY WordBitsAssumption, BlockWordsAssumption
    <2>1. p <= BlockWords * WordBits
      BY <1>4, <1>6
    <2>2. /\ k \in 0 .. BlockWords - 1 /\ j \in 0 .. WordBits - 1
          /\ k * WordBits + j = bit
      <3> HIDE DEF bit, p
      <3>1. bit \in Nat /\ bit < WordBits * BlockWords
        BY <1>2, <2>0, <2>1
      <3>2. k \in Nat /\ j \in 0 .. WordBits - 1 /\ bit = WordBits * k + j
        BY <2>0, <3>1, DivMod
      <3>3. k < BlockWords
        BY <2>0, <3>1, DivBelow
      <3> HIDE DEF k, j
      <3> QED  BY <2>0, <3>2, <3>3
    <2>3. a \in DOMAIN disk.content /\ a \in disk.bitmaps
      BY <1>4, <1>6
    <2>4. Field(disk.content[a], k + 1) = disk.content[a][k + 1]
      <3>1. disk.content[a] \in Seq(Word) /\ Len(disk.content[a]) = BlockWords
        BY <2>3, DiskBlocks
      <3> HIDE DEF a, k
      <3>2. k + 1 \in DOMAIN disk.content[a]
        BY <2>0, <2>2, <3>1
      <3> QED  BY <3>2 DEF Field
    <2>5. IsSet(disk.content[a][k + 1], j) <=> c * p + k * WordBits + j \in disk.alloc
      <3>1. k * WordBits + j < p
        BY <1>2, <2>2
      <3> HIDE DEF k, j, a, c, p
      <3> QED  BY <1>4, <1>6, <2>2, <3>1
    <2>6. c * p + k * WordBits + j = x
      <3> HIDE DEF k, j, c, p, bit
      <3>1. c * p = p * c /\ p * c \in Nat /\ k * WordBits \in Nat /\ j \in Nat
        BY <1>2, <2>0, <2>2
      <3> QED  BY <1>2, <2>2, <3>1
    <2>7. Allocated(disk.content[a], bit) <=> x \in disk.alloc
      BY <2>4, <2>5, <2>6 DEF Allocated
    <2> QED  BY <1>6, <2>3, <2>7
  <1> QED
    BY <1>5, <1>6

\* A step keeps that.
LEMMA FreeStep ==
    ASSUME OpenInv, MediumInv, StageInv, FreeInv, FreeIsTrue,
           [InspectNext]_allVars
    PROVE  FreeInv' /\ FreeIsTrue'
  <1>0. StageInv' /\ UNCHANGED <<disk, call>>
    BY StageStep
  <1> SUFFICES ASSUME disk.sound, call.op = "free"
               PROVE  FreeInv' /\ FreeIsTrue'
    BY <1>0 DEF FreeInv, FreeIsTrue, StageInv
  <1> DEFINE s == Space(disk)
             x == call.arg
  <1>a. x \in Nat
    BY DiskAssumption DEF MediumInv, Call
  <1>b. ASSUME UNCHANGED <<content, faults>>, stage' = "done",
               answer'.status \notin {"Ok", "Io"}, faults = {} => ~(x < disk.blocks)
        PROVE  FreeInv' /\ FreeIsTrue'
    BY <1>0, <1>b DEF FreeInv, FreeIsTrue
  <1>c. ASSUME stage' = "done", answer'.status = "Io"
        PROVE  FreeInv' /\ FreeIsTrue'
    BY <1>0, <1>c DEF FreeInv, FreeIsTrue
  <1>d. \A a : ReadObj(a) # "Ok" /\ ReadObj(a) # "Io" => ReadObj(a) = "ChecksumMismatch"
    BY DEF ReadObj
  <1>1. CASE ~Query /\ ~QueryReadFails
    <2>1. UNCHANGED <<call, stage, at, answer, sm, disk>>
      BY <1>1, OutsideStep DEF queryVars
    <2>2. faults \subseteq faults'
      BY <1>1
      DEF InspectNext, InspectReturned, Open, OpenReadFails, Fault, LoseWord,
          SwapWords, FaultAt, allVars, ephemeralVars
    <2>3. faults' = {} => faults = {}
      BY <2>2
    <2> QED  BY <2>1, <2>2, <2>3 DEF FreeInv, FreeIsTrue, ChunkIndex, CibIndex
  <1>2. CASE QueryReadFails \/ BitmapMissing
    <2>1. stage' = "done" /\ answer'.status = "Io"
      BY <1>2 DEF QueryReadFails, BitmapMissing, Refused, Answered
    <2> QED  BY <1>c, <2>1
  <1>3. CASE LocateSpaceman
    <2>1. PICK a : a = disk.place[SpacemanOid]
      OBVIOUS
    <2>2. ResolveEphemeral(SpacemanOid) = {a}
      BY <1>3, <1>a, <2>1, SpaceGeometry, PlaceIsFound DEF LocateSpaceman, Located
    <2>3. stage' = "spaceman" /\ at' = a
      BY <1>3, <2>2 DEF LocateSpaceman, Located, Proceed
    <2> QED  BY <1>0, <2>1, <2>3 DEF FreeInv, FreeIsTrue
  <1>4. CASE SpacemanRejected
    <2>1. /\ stage = "spaceman" /\ at = disk.place[SpacemanOid] /\ stage' = "done"
          /\ answer'.status = IF ReadObj(at) # "Ok" THEN ReadObj(at)
                              ELSE GeometryError(content[at], x)
          /\ answer'.status # "none" /\ UNCHANGED <<content, faults>>
      BY <1>4 DEF SpacemanRejected, FreeInv, Refused, Answered, Quiet
    <2>2. Sealed(disk, at)
      BY <1>a, <2>1, SpaceGeometry
    <2>3. ReadObj(at) = "Ok" => content[at] = s
      BY <2>1, <2>2, AcceptedIsWritten DEF Space
    <2>4. CASE ReadObj(at) # "Ok"
      BY <1>b, <1>c, <1>d, <2>1, <2>2, <2>4, AcceptedIsWritten
    <2>5. CASE ReadObj(at) = "Ok"
      <3>1. answer'.status = GeometryError(s, x) /\ GeometryError(s, x) # "none"
        BY <2>1, <2>3, <2>5
      <3>2. ~(x < disk.blocks)
        BY <1>a, <3>1, SpaceGeometry
      <3>3. GeometryError(s, x) \notin {"Ok", "Io"}
        BY DEF GeometryError
      <3> QED  BY <1>b, <2>1, <3>1, <3>2, <3>3
    <2> QED  BY <2>4, <2>5
  <1>5. CASE ReadSpaceman
    <2>1. /\ stage = "spaceman" /\ at = disk.place[SpacemanOid] /\ ReadObj(at) = "Ok"
          /\ GeometryError(content[at], x) = "none" /\ sm' = content[at]
          /\ stage' = "cib" /\ at' = CibAddr(content[at], x)
      BY <1>5 DEF ReadSpaceman, FreeInv, Proceed
    <2>2. content[at] = s
      BY <1>a, <2>1, SpaceGeometry, AcceptedIsWritten DEF Space
    <2>3. x < disk.blocks
      BY <1>a, <2>1, <2>2, SpaceGeometry
    <2>4. at' = disk.cibs[CibIndex(s, x)]
      BY <1>a, <2>1, <2>2, <2>3, CibStored
    <2>5. CibIndex(sm, call.arg)' = CibIndex(s, x) /\ sm' = s /\ s = Space(disk)'
      BY <1>0, <2>1, <2>2 DEF CibIndex, ChunkIndex, Field, Space
    <2> QED  BY <1>0, <2>1, <2>3, <2>4, <2>5 DEF FreeInv, FreeIsTrue
  <1>6. ASSUME stage = "cib"
        PROVE  LET a == disk.cibs[CibIndex(s, x)] IN
               /\ at = a /\ sm = s /\ x < disk.blocks /\ Sealed(disk, a)
               /\ ReadObj(a) = "Ok" =>
                    /\ content[a] = disk.content[a]
                    /\ ChunkInfoError(content[a], WithinCib(sm, x)) = "none"
                    /\ BitmapAddr(content[a], WithinCib(sm, x))
                         = disk.bitmapOf[ChunkIndex(s, x)]
    <2>1. sm = s /\ x < disk.blocks /\ at = disk.cibs[CibIndex(s, x)]
      BY <1>6 DEF FreeInv
    <2>2. Sealed(disk, at)
      BY <1>a, <2>1, CibStored
    <2>3. ReadObj(at) = "Ok" => content[at] = disk.content[at]
      BY <2>2, AcceptedIsWritten
    <2> QED  BY <1>a, <2>1, <2>2, <2>3, CibStored
  <1>7. CASE CibRejected
    <2>1. /\ stage = "cib" /\ stage' = "done"
          /\ answer'.status = IF ReadObj(at) # "Ok" THEN ReadObj(at)
                              ELSE ChunkInfoError(content[at], WithinCib(sm, x))
          /\ answer'.status # "none" /\ UNCHANGED <<content, faults>>
      BY <1>7 DEF CibRejected, Refused, Answered, Quiet
    <2>2. ReadObj(at) # "Ok"
      BY <1>6, <2>1
    <2>3. faults # {}
      BY <1>6, <2>1, <2>2, AcceptedIsWritten
    <2> QED  BY <1>b, <1>c, <1>d, <2>1, <2>2, <2>3
  <1>8. CASE ChunkAllFree
    <2>1. /\ stage = "cib" /\ ReadObj(at) = "Ok" /\ stage' = "done"
          /\ BitmapAddr(content[at], WithinCib(sm, x)) = 0
          /\ answer' = [status |-> "Ok", value |-> TRUE]
      BY <1>8 DEF ChunkAllFree, CibRead, Answered
    <2>2. disk.bitmapOf[ChunkIndex(s, x)] = 0 /\ x < disk.blocks
      BY <1>6, <2>1
    <2>3. x \notin disk.alloc
      BY <1>a, <2>2, BitmapStored
    <2>4. answer'.value = (x \notin disk.alloc) /\ answer'.status = "Ok"
      BY <2>1, <2>3
    <2> QED  BY <1>0, <2>1, <2>2, <2>4 DEF FreeInv, FreeIsTrue
  <1>9. CASE ChunkHasBitmap
    <2>1. /\ stage = "cib" /\ ReadObj(at) = "Ok" /\ stage' = "bitmap" /\ sm' = sm
          /\ BitmapAddr(content[at], WithinCib(sm, x)) # 0
          /\ at' = BitmapAddr(content[at], WithinCib(sm, x))
      BY <1>9 DEF ChunkHasBitmap, CibRead, Proceed
    <2>2. /\ sm = s /\ x < disk.blocks
          /\ at' = disk.bitmapOf[ChunkIndex(s, x)] /\ at' # 0
      BY <1>6, <2>1
    <2>3. ChunkIndex(sm, call.arg)' = ChunkIndex(s, x) /\ Space(disk)' = s
      BY <1>0, <2>1, <2>2 DEF ChunkIndex, Field, Space
    <2> QED  BY <1>0, <2>1, <2>2, <2>3 DEF FreeInv, FreeIsTrue
  <1>10. CASE ReadBitmap
    <2>1. /\ stage = "bitmap" /\ at \in DOMAIN content /\ stage' = "done"
          /\ answer' = [status |-> "Ok", value |->
                          ~Allocated(content[at], x % Field(sm, SM_BLOCKS_PER_CHUNK))]
          /\ UNCHANGED <<content, faults>>
      BY <1>10 DEF ReadBitmap, Answered, Quiet
    <2>2. /\ sm = s /\ x < disk.blocks /\ at # 0
          /\ at = disk.bitmapOf[ChunkIndex(s, x)]
      BY <2>1 DEF FreeInv
    <2>3. /\ at \in disk.bitmaps /\ at \in DOMAIN disk.content
          /\ Allocated(disk.content[at], x % Field(s, SM_BLOCKS_PER_CHUNK))
               <=> x \in disk.alloc
      BY <1>a, <2>2, BitmapStored
    <2>4. CASE \A f \in faults : f.addr # at
      <3>1. content[at] = disk.content[at]
        BY <2>3, <2>4, RawIsWritten
      <3>2. answer'.value = (x \notin disk.alloc)
        BY <2>1, <2>2, <2>3, <3>1 DEF Allocated, IsSet
      <3> QED  BY <1>0, <2>1, <2>2, <3>2 DEF FreeInv, FreeIsTrue
    <2>5. CASE \E f \in faults : f.addr = at
      BY <1>0, <2>1, <2>2, <2>3, <2>5 DEF FreeInv, FreeIsTrue
    <2> QED  BY <2>4, <2>5
  <1>11. CASE ReaperStep \/ BeginQuery \/ ReadIntegrity \/ IntegrityRejected \/ ReadKeybag
    <2>1. call.op # "free"
      BY <1>11
      DEF StageInv, ReaperStep, LocateReaper, Located, ReaperRejected, ReadReaper,
          ListGuarded, ListUnmapped, ListRejected, ReadList, EnterList, ChainEnds,
          BeginQuery, ReadIntegrity, IntegrityRejected, ReadKeybag
    <2> QED  BY <2>1
  <1> QED
    BY <1>1, <1>2, <1>3, <1>4, <1>5, <1>7, <1>8, <1>9, <1>10, <1>11
    DEF Query, SpacemanStep

-----------------------------------------------------------------------------
\* Protection

\* The first multiple of m that is not below y - m + 1 is the only one in
\* reach.
LEMMA DivUnique ==
    ASSUME NEW m \in Nat \ {0}, NEW y \in Nat, NEW q \in Nat, m * q <= y, y < m * q + m
    PROVE  y \div m = q
  <1> DEFINE e == y \div m
  <1>1. e \in Nat /\ m * e <= y /\ y < m * e + m /\ m * e \in Nat /\ m * q \in Nat
    BY DivMod
  <1> HIDE DEF e
  <1>2. ~(e + 1 <= q)
    <2> SUFFICES ASSUME e + 1 <= q PROVE FALSE
      OBVIOUS
    <2>1. m * (e + 1) <= m * q
      BY <1>1, TimesKeepsOrder
    <2>2. m * (e + 1) = m * e + m
      BY <1>1
    <2> QED  BY <1>1, <2>1, <2>2
  <1>3. ~(q + 1 <= e)
    <2> SUFFICES ASSUME q + 1 <= e PROVE FALSE
      OBVIOUS
    <2>1. m * (q + 1) <= m * e
      BY <1>1, TimesKeepsOrder
    <2>2. m * (q + 1) = m * q + m
      OBVIOUS
    <2> QED  BY <1>1, <2>1, <2>2
  <1>4. e = q
    BY <1>1, <1>2, <1>3
  <1> QED
    BY <1>4 DEF e

\* Lengths of entries are numbers.
LEMMA EntryLenType ==
    ASSUME NEW b \in Seq(Word), NEW o \in Nat
    PROVE  EntryLen(b, o) \in Nat
  <1> DEFINE m == KE_HEADER_LEN + Field(b, o + KE_KEYLEN)
  <1>1. m \in Nat
    BY FieldType DEF KE_HEADER_LEN, KE_KEYLEN
  <1>2. KeyAlign \in Nat \ {0}
    BY KeybagAssumption
  <1>3. EntryLen(b, o) = KeyAlign * ((m + KeyAlign - 1) \div KeyAlign)
    BY DEF EntryLen
  <1> HIDE DEF m
  <1>4. m + KeyAlign - 1 \in Nat
    BY <1>1, <1>2
  <1>5. (m + KeyAlign - 1) \div KeyAlign \in Nat
    BY <1>2, <1>4, DivMod
  <1> QED
    BY <1>2, <1>3, <1>5

\* Where entries start.
LEMMA OffsetsIterate ==
    ASSUME NEW b \in Seq(Word), NEW n \in Nat
    PROVE  /\ EntryOffsets(b, n)[0] = KL_ENTRIES_OFF
           /\ \A k \in 1 .. n : EntryOffsets(b, n)[k] =
                EntryOffsets(b, n)[k - 1] + EntryLen(b, EntryOffsets(b, n)[k - 1])
  <1> DEFINE F == [k \in 1 .. n |-> [o \in Nat |-> o + EntryLen(b, o)]]
             K(f) == f = [k \in 0 .. n |-> IF k = 0 THEN KL_ENTRIES_OFF
                                           ELSE f[k - 1] + EntryLen(b, f[k - 1])]
             off == CHOOSE f : K(f)
  <1>1. \A k \in 1 .. n : \A o \in Nat : F[k][o] = o + EntryLen(b, o)
    OBVIOUS
  <1>2. \A o \in Nat : o + EntryLen(b, o) \in Nat
    BY EntryLenType
  <1>3. Steps(F, n, Nat)
    BY <1>1, <1>2 DEF Steps
  <1>4. KL_ENTRIES_OFF \in Nat
    BY DEF KL_ENTRIES_OFF
  <1> HIDE DEF F
  <1>5. PICK f : Iterates(f, F, n, Nat, KL_ENTRIES_OFF)
    BY <1>3, <1>4, Recursion
  <1>6. /\ f = [k \in 0 .. n |-> f[k]] /\ f[0] = KL_ENTRIES_OFF
        /\ \A k \in 1 .. n : f[k] = f[k - 1] + EntryLen(b, f[k - 1])
    <2>1. /\ f \in [0 .. n -> Nat] /\ f[0] = KL_ENTRIES_OFF
          /\ \A k \in 1 .. n : f[k] = F[k][f[k - 1]]
      BY <1>5 DEF Iterates
    <2>2. \A k \in 1 .. n : f[k - 1] \in Nat
      BY <2>1
    <2>3. \A k \in 1 .. n : F[k][f[k - 1]] = f[k - 1] + EntryLen(b, f[k - 1])
      BY <1>1, <2>2
    <2> QED  BY <2>1, <2>3
  <1>7. K(f)
    BY <1>6
  <1>8. K(off)
    <2> HIDE DEF K
    <2> QED  BY <1>7
  <1>9. EntryOffsets(b, n) = off
    BY DEF EntryOffsets
  <1> HIDE DEF off
  <1>10. /\ off[0] = KL_ENTRIES_OFF
         /\ \A k \in 1 .. n : off[k] = off[k - 1] + EntryLen(b, off[k - 1])
    <2>1. 0 \in 0 .. n /\ \A k \in 1 .. n : k \in 0 .. n /\ k # 0
      OBVIOUS
    <2> QED  BY <1>8, <2>1
  <1> QED
    BY <1>9, <1>10

\* The walk over a keybag as it was written meets every entry where it is.
LEMMA KeysFound ==
    ASSUME MediumInv, NEW a, KeysStored(disk, a)
    PROVE  LET b == disk.content[a]
               st == EncryptionState(b)
           IN  /\ st.tags = {KnownTag(t) : t \in disk.tags}
               /\ st.encrypted <=> disk.tags \cap KeyTags # {}
  <1> DEFINE b == disk.content[a]
             n == Len(disk.keys)
             key == disk.keys
             off == EntryOffsets(b, n)
             Off(k) == key[k].off
  <1>1. b \in Seq(Word)
    BY DiskBlocks DEF KeysStored
  <1>2. /\ n \in Nat /\ key \in Seq([tag : Word, len : Word, off : Nat])
        /\ n <= MAX_KEYBAG_ENTRIES /\ Field(b, KL_NKEYS) = n
        /\ disk.tags = {key[k].tag : k \in 1 .. n}
        /\ n > 0 => Off(1) = KL_ENTRIES_OFF
    BY DEF KeysStored
  <1>3. ASSUME NEW k \in 1 .. n
        PROVE  /\ Off(k) + KE_HEADER_LEN - 1 <= Len(b)
               /\ Field(b, Off(k) + KE_TAG) = key[k].tag
               /\ Field(b, Off(k) + KE_KEYLEN) = key[k].len
               /\ Off(k) \in Nat /\ key[k].len \in Nat
    <2>1. /\ Off(k) + KE_HEADER_LEN - 1 <= Len(b)
          /\ Field(b, Off(k) + KE_TAG) = key[k].tag
          /\ Field(b, Off(k) + KE_KEYLEN) = key[k].len
      BY DEF KeysStored
    <2>2. key[k] \in [tag : Word, len : Word, off : Nat]
      <3>1. \A R : \A s \in Seq(R) : \A j \in 1 .. Len(s) : s[j] \in R
        OBVIOUS
      <3> HIDE DEF key
      <3> QED  BY <1>2, <3>1 DEF key
    <2> HIDE DEF key
    <2> QED  BY <2>1, <2>2, ModType
  <1>4. ASSUME NEW k \in 1 .. n - 1
        PROVE  Off(k + 1) = Off(k) + EntryLen(b, Off(k))
    <2> DEFINE need == KE_HEADER_LEN + key[k].len
               dist == Off(k + 1) - Off(k)
    <2>1. PICK q \in 0 .. BlockWords : dist = KeyAlign * q
      BY DEF KeysStored
    <2>2. need <= dist /\ dist < need + KeyAlign
      BY DEF KeysStored
    <2>3. k \in 1 .. n /\ k + 1 \in 1 .. n
      BY <1>2
    <2>4. need \in Nat /\ KeyAlign \in Nat \ {0} /\ q \in Nat
      BY <1>3, <2>3, KeybagAssumption, BlockWordsAssumption DEF KE_HEADER_LEN
    <2>5. EntryLen(b, Off(k)) = KeyAlign * ((need + KeyAlign - 1) \div KeyAlign)
      BY <1>3, <2>3 DEF EntryLen
    <2>6. Off(k) \in Nat /\ Off(k + 1) \in Nat
      BY <1>3, <2>3
    <2>6a. Off(k + 1) = Off(k) + dist
      BY <2>6
    <2> HIDE DEF need, dist
    <2>7. (need + KeyAlign - 1) \div KeyAlign = q
      <3>1. /\ need + KeyAlign - 1 \in Nat /\ KeyAlign * q <= need + KeyAlign - 1
            /\ need + KeyAlign - 1 < KeyAlign * q + KeyAlign
        BY <2>1, <2>2, <2>4
      <3> QED  BY <2>4, <3>1, DivUnique
    <2> QED  BY <2>1, <2>5, <2>6a, <2>7
  <1>5. ASSUME NEW k \in 0 .. n - 1
        PROVE  off[k] = Off(k + 1)
    <2> DEFINE T == {j \in 0 .. n - 1 : off[j] = Off(j + 1)}
    <2>1. off[0] = KL_ENTRIES_OFF
      BY <1>1, <1>2, OffsetsIterate
    <2>2. 0 \in T
      BY <1>2, <2>1
    <2>3. ASSUME NEW j \in 0 .. n - 1 - 1, j \in T
          PROVE  j + 1 \in T
      <3>1. j + 1 \in 1 .. n /\ (j + 1) - 1 = j /\ j + 1 \in 1 .. n - 1
        BY <1>2
      <3>2. off[j] = Off(j + 1)
        BY <2>3
      <3>3. off[j + 1] = off[j] + EntryLen(b, off[j])
        BY <1>1, <1>2, <3>1, OffsetsIterate
      <3>4. off[j + 1] = Off((j + 1) + 1)
        BY <1>4, <3>1, <3>2, <3>3
      <3>5. j + 1 \in 0 .. n - 1
        BY <1>2, <3>1
      <3> HIDE DEF off
      <3> QED  BY <3>4, <3>5
    <2>4. n - 1 \in Nat
      BY <1>2
    <2> HIDE DEF T
    <2>5. 0 .. n - 1 \subseteq T
      BY <2>2, <2>3, <2>4, UpTo
    <2>6. k \in T
      BY <2>5
    <2> QED  BY <2>6 DEF T
  <1>6. KeybagEntries(b) = {Off(k) : k \in 1 .. n}
    <2>1. KeybagEntries(b) = {off[k] : k \in {j \in 0 .. n - 1 :
                                 off[j] + KE_HEADER_LEN - 1 <= Len(b)}}
      <3>1. (IF Field(b, KL_NKEYS) < MAX_KEYBAG_ENTRIES
             THEN Field(b, KL_NKEYS) ELSE MAX_KEYBAG_ENTRIES) = n
        BY <1>2, KeybagAssumption
      <3> QED  BY <3>1 DEF KeybagEntries
    <2> HIDE DEF off, Off
    <2>2. \A j \in 0 .. n - 1 : j + 1 \in 1 .. n
      BY <1>2
    <2>3. \A j \in 0 .. n - 1 : off[j] + KE_HEADER_LEN - 1 <= Len(b)
      BY <1>3, <1>5, <2>2
    <2>4. KeybagEntries(b) = {off[k] : k \in 0 .. n - 1}
      BY <2>1, <2>3
    <2>5. \A k \in 1 .. n : k - 1 \in 0 .. n - 1 /\ off[k - 1] = Off(k)
      <3> SUFFICES ASSUME NEW k \in 1 .. n
                   PROVE  k - 1 \in 0 .. n - 1 /\ off[k - 1] = Off(k)
        OBVIOUS
      <3>1. k - 1 \in 0 .. n - 1 /\ (k - 1) + 1 = k
        BY <1>2
      <3> QED  BY <1>5, <3>1
    <2> QED  BY <1>5, <2>2, <2>4, <2>5
  <1> DEFINE raw == [o \in KeybagEntries(b) |-> Field(b, o + KE_TAG)]
             tags == {KnownTag(raw[o]) : o \in DOMAIN raw}
  <1>7. tags = {KnownTag(t) : t \in disk.tags}
    <2>1. \A k \in 1 .. n : Off(k) \in KeybagEntries(b) /\ raw[Off(k)] = key[k].tag
      BY <1>3, <1>6
    <2>2. \A o \in DOMAIN raw : \E k \in 1 .. n : o = Off(k)
      BY <1>6
    <2> HIDE DEF raw, Off
    <2>3. \A k \in 1 .. n : Off(k) \in DOMAIN raw
      BY <2>1 DEF raw
    <2>4. \A o \in DOMAIN raw : raw[o] \in disk.tags
      BY <1>2, <2>1, <2>2
    <2>5. \A t \in disk.tags : \E o \in DOMAIN raw : raw[o] = t
      BY <1>2, <2>1, <2>3
    <2> QED  BY <2>4, <2>5
  <1>8. /\ EncryptionState(b).tags = tags
        /\ EncryptionState(b).encrypted <=> tags \cap KeyTags # {}
    BY DEF EncryptionState
  <1>9. \A t : KnownTag(t) \in KeyTags <=> t \in KeyTags
    BY DEF KnownTag, KeyTags, HintTag
  <1>10. \A t \in KeyTags : KnownTag(t) = t
    BY DEF KnownTag
  <1>11. tags \cap KeyTags # {} <=> disk.tags \cap KeyTags # {}
    <2> HIDE DEF tags
    <2> QED  BY <1>7, <1>9, <1>10
  <1> QED
    BY <1>7, <1>8, <1>11

\* A step keeps what the answers on a volume's protection say.
LEMMA ProtectionStep ==
    ASSUME MediumInv, StageInv, ProtectionIsTrue, [InspectNext]_allVars
    PROVE  ProtectionIsTrue'
  <1>0. StageInv' /\ UNCHANGED <<disk, call>>
    BY StageStep
  <1> SUFFICES ASSUME disk.sound, answer'.status = "Ok",
                      call.op \in {"integrity", "keybag"}
               PROVE  ProtectionIsTrue'
    BY <1>0 DEF ProtectionIsTrue
  <1>1. CASE ~Query /\ ~QueryReadFails
    <2>1. UNCHANGED <<call, answer, disk>>
      BY <1>1, OutsideStep DEF queryVars
    <2>2. faults' = {} => faults = {}
      BY <1>1
      DEF InspectNext, InspectReturned, Open, OpenReadFails, Fault, LoseWord,
          SwapWords, FaultAt, allVars, ephemeralVars
    <2> QED  BY <2>1, <2>2 DEF ProtectionIsTrue
  <1>2. CASE ReadIntegrity
    <2>1. /\ call.op = "integrity" /\ at = call.arg /\ ReadObj(at) = "Ok"
          /\ answer'.value = Integrity(content[at])
      BY <1>2 DEF ReadIntegrity, StageInv, Answered
    <2>2. SealStored(disk, at)
      BY <2>1, ProtectionAssumption DEF MediumInv
    <2>3. answer'.value = disk.seal
      BY <2>1, <2>2, AcceptedIsWritten DEF SealStored
    <2> QED  BY <1>0, <2>1, <2>3 DEF ProtectionIsTrue
  <1>3. CASE ReadKeybag
    <2>1. /\ call.op = "keybag" /\ at = call.arg /\ UNCHANGED faults
          /\ answer'.value = EncryptionState(content[at])
      BY <1>3 DEF ReadKeybag, StageInv, Answered, Quiet
    <2>2. KeysStored(disk, at)
      BY <2>1, ProtectionAssumption DEF MediumInv
    <2>3. faults = {} => content = disk.content
      BY DEF MediumInv
    <2> QED
      BY <1>0, <2>1, <2>2, <2>3, KeysFound DEF ProtectionIsTrue, KnownTag, KeyTags
  <1>4. CASE BeginQuery \/ IntegrityRejected \/ QueryReadFails
    <2>1. answer'.status # "Ok"
      BY <1>4
      DEF BeginQuery, IntegrityRejected, QueryReadFails, Refused, Answered, Proceed,
          StageInv, NoAnswer
    <2> QED  BY <2>1
  <1>5. CASE ReaperStep \/ SpacemanStep
    <2>1. call.op \notin {"integrity", "keybag"}
      BY <1>5
      DEF StageInv, ReaperStep, LocateReaper, Located, ReaperRejected, ReadReaper,
          ListGuarded, ListUnmapped, ListRejected, ReadList, EnterList, ChainEnds,
          SpacemanStep, LocateSpaceman, SpacemanRejected, ReadSpaceman, CibRejected,
          ChunkAllFree, ChunkHasBitmap, CibRead, BitmapMissing, ReadBitmap
    <2> QED  BY <2>1
  <1> QED
    BY <1>1, <1>2, <1>3, <1>4, <1>5 DEF Query

-----------------------------------------------------------------------------
\* Theorems: one fault at most

AnswerInv ==
    /\ OpenInv /\ MediumInv /\ StageInv /\ PendingInv /\ FreeInv
    /\ PendingIsQueue /\ FreeIsTrue /\ ProtectionIsTrue

\* Every step of a query, and one fault at any moment of it, keep that what
\* was read is what was written.
THEOREM AnswerInvariance ==
    ASSUME MaxFaults <= 1
    PROVE  InspectSpec => []AnswerInv
  <1>1. InspectInit => AnswerInv
    <2> SUFFICES ASSUME InspectInit PROVE AnswerInv
      OBVIOUS
    <2>1. OpenInv
      BY InitOpenInv
    <2>2. MediumInv
      BY FS_EmptySet DEF InspectInit, EphemeralInit, MediumInv
    <2>3. /\ StageInv /\ PendingInv /\ FreeInv
          /\ PendingIsQueue /\ FreeIsTrue /\ ProtectionIsTrue
      BY DEF InspectInit, EphemeralInit, StageInv, PendingInv, FreeInv,
             PendingIsQueue, FreeIsTrue, ProtectionIsTrue, NoAnswer
    <2> QED  BY <2>1, <2>2, <2>3 DEF AnswerInv
  <1>2. AnswerInv /\ [InspectNext]_allVars => AnswerInv'
    <2> SUFFICES ASSUME AnswerInv, [InspectNext]_allVars PROVE AnswerInv'
      OBVIOUS
    <2>0. /\ OpenInv /\ MediumInv /\ StageInv /\ PendingInv /\ FreeInv
          /\ PendingIsQueue /\ FreeIsTrue /\ ProtectionIsTrue
      BY DEF AnswerInv
    <2>1. OpenInv'
      BY <2>0, OpenInvStep
    <2>2. MediumInv'
      BY <2>0, MediumStep
    <2>3. StageInv'
      BY <2>0, StageStep
    <2>4. PendingInv' /\ PendingIsQueue'
      BY <2>0, PendingStep
    <2>5. FreeInv' /\ FreeIsTrue'
      BY <2>0, FreeStep
    <2>6. ProtectionIsTrue'
      BY <2>0, ProtectionStep
    <2> QED  BY <2>1, <2>2, <2>3, <2>4, <2>5, <2>6 DEF AnswerInv
  <1> QED
    BY <1>1, <1>2, PTL DEF InspectSpec

\* reaper.rs, pending_objects "the in-progress object plus every queued
\* reap-list entry": for every queue, over any number of lists, slots and map
\* blocks, the answer is the whole queue in order or an error, whatever word
\* is lost and whenever.
THEOREM QueueIsComplete ==
    ASSUME MaxFaults <= 1
    PROVE  InspectSpec => []PendingIsQueue
  <1>1. AnswerInv => PendingIsQueue
    BY DEF AnswerInv
  <1> QED
    BY <1>1, AnswerInvariance, PTL

\* spaceman.rs, is_block_free: for every geometry of chunks and CIBs and every
\* block number, the answer is what the writer allocated unless the raw bitmap
\* was spoilt, and every block of the device has one.
THEOREM BlockStateIsTrue ==
    ASSUME MaxFaults <= 1
    PROVE  InspectSpec => []FreeIsTrue
  <1>1. AnswerInv => FreeIsTrue
    BY DEF AnswerInv
  <1> QED
    BY <1>1, AnswerInvariance, PTL

\* sealed.rs and encryption.rs: for every block size, key length and number of
\* keys, a seal reads as it was written or not at all, and a volume with key
\* material is never reported as unencrypted.
THEOREM ProtectionIsReported ==
    ASSUME MaxFaults <= 1
    PROVE  InspectSpec => []ProtectionIsTrue
  <1>1. AnswerInv => ProtectionIsTrue
    BY DEF AnswerInv
  <1> QED
    BY <1>1, AnswerInvariance, PTL
==============================================================================
