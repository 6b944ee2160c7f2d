----------------------------- MODULE CobsProofs -----------------------------
(***************************************************************************)
(* What the two recursive functions of the COBS framing compute, for every *)
(* byte string and every block length: each satisfies its own equation at  *)
(* every place of its input.  The equations are what the proofs about the  *)
(* encoder use.  The reader of frames needs, besides, what a line of       *)
(* frames is and what the end of a frame decodes to.                       *)
(***************************************************************************)
EXTENDS Cobs, WellFoundedInduction, TLAPS

-----------------------------------------------------------------------------
(* Recursion from the end of a sequence to its start.                      *)

\* A set of naturals has a least element.
LEMMA LeastNat ==
  ASSUME NEW T, T \subseteq Nat, T # {}
  PROVE  \E x \in T : \A y \in T : x <= y
<1> DEFINE Less == OpToRel(<, Nat)
<1>0. IsWellFoundedOn(Less, Nat)
  BY Zenon, NatLessThanWellFounded
<1>2. \A x, y \in Nat : <<y, x>> \in Less <=> y < x
  BY DEF OpToRel
<1> HIDE DEF Less
<1>1. PICK x \in T : \A y \in T : ~(<<y, x>> \in Less)
  BY Zenon, <1>0, WFMin
<1>3. \A y \in T : ~(y < x)
  <2> TAKE y \in T
  <2>1. x \in Nat /\ y \in Nat
    OBVIOUS
  <2>2. ~(<<y, x>> \in Less)
    BY Zenon, <1>1
  <2> QED BY Zenon, <2>1, <2>2, <1>2
<1>4. \A y \in T : x <= y
  BY <1>3
<1> QED BY Zenon, <1>4

\* Induction from the end of 1 .. n + 1 to its start.
LEMMA BackwardInduction ==
  ASSUME NEW n \in Nat, NEW S, n + 1 \in S,
         \A i \in 1 .. n : (\A j \in i + 1 .. n + 1 : j \in S) => i \in S
  PROVE  \A i \in 1 .. n + 1 : i \in S
<1> DEFINE T == {m \in 0 .. n : n + 1 - m \notin S}
<1>1. SUFFICES ASSUME T # {} PROVE FALSE
  <2>1. SUFFICES ASSUME NEW i \in 1 .. n + 1 PROVE i \in S
    OBVIOUS
  <2>2. n + 1 - i \in 0 .. n /\ n + 1 - (n + 1 - i) = i
    OBVIOUS
  <2> QED BY Zenon, <1>1, <2>2
<1>2. T \subseteq Nat
  OBVIOUS
<1>3. PICK m \in T : \A y \in T : m <= y
  <2> HIDE DEF T
  <2> QED BY Zenon, LeastNat, <1>1, <1>2
<1>4. m \in 0 .. n /\ n + 1 - m \notin S
  OBVIOUS
<1>5. m # 0
  BY <1>4
<1>6. n + 1 - m \in 1 .. n
  BY <1>4, <1>5
<1>7. ASSUME NEW j \in n + 1 - m + 1 .. n + 1 PROVE j \in S
  <2>1. n + 1 - j \in 0 .. n /\ ~(m <= n + 1 - j) /\ n + 1 - (n + 1 - j) = j
    BY <1>4, <1>6
  <2>2. n + 1 - j \notin T
    <3> HIDE DEF T
    <3> QED BY Zenon, <1>3, <2>1
  <2> QED BY <2>1, <2>2
<1> QED BY <1>4, <1>6, <1>7

\* The value at each place of a sequence of length n is given by H from the
\* value at a later place nx.
Backward(n, D, base, nx, H) ==
  /\ n \in Nat /\ base \in D
  /\ nx \in [1 .. n -> 1 .. n + 1] /\ \A i \in 1 .. n : nx[i] > i
  /\ H \in [(1 .. n) \X D -> D]

Solution(f, n, D, base, nx, H) ==
  /\ f \in [1 .. n + 1 -> D]
  /\ f[n + 1] = base
  /\ \A i \in 1 .. n : f[i] = H[<<i, f[nx[i]]>>]

LEMMA BackwardRecursion ==
  ASSUME NEW n, NEW D, NEW base, NEW nx, NEW H, Backward(n, D, base, nx, H)
  PROVE  \E f : Solution(f, n, D, base, nx, H)
<1> USE DEF Backward
<1> DEFINE Solves(f, m) ==
             f[n + 1] = base /\ \A i \in n - m + 1 .. n : f[i] = H[<<i, f[nx[i]]>>]
           T == {m \in 0 .. n : ~ \E f \in [1 .. n + 1 -> D] : Solves(f, m)}
<1>1. SUFFICES ASSUME T # {} PROVE FALSE
  <2>1. n \notin T
    BY Zenon, <1>1
  <2>2. PICK f \in [1 .. n + 1 -> D] : Solves(f, n)
    BY <2>1
  <2>3. n - n + 1 = 1
    OBVIOUS
  <2>4. f[n + 1] = base /\ \A i \in 1 .. n : f[i] = H[<<i, f[nx[i]]>>]
    BY <2>2, <2>3
  <2> QED BY Zenon, <2>4 DEF Solution
<1>a. T \subseteq Nat /\ \A m \in T : m \in 0 .. n
  OBVIOUS
<1>2. PICK m \in T : \A y \in T : m <= y
  <2> HIDE DEF T
  <2> QED BY Zenon, LeastNat, <1>1, <1>a
<1>3. m # 0
  <2> DEFINE f == [i \in 1 .. n + 1 |-> base]
  <2>1. f \in [1 .. n + 1 -> D]
    OBVIOUS
  <2>2. Solves(f, 0)
    OBVIOUS
  <2> QED BY <2>1, <2>2
<1>4. m - 1 \in 0 .. n /\ m - 1 \notin T
  <2> HIDE DEF T
  <2>1. m \in 0 .. n
    BY Zenon, <1>a
  <2>2. m - 1 \in T => m <= m - 1
    BY Zenon, <1>2
  <2> QED BY <2>1, <2>2, <1>3
<1>5. PICK f \in [1 .. n + 1 -> D] : Solves(f, m - 1)
  BY Zenon, <1>4
<1> DEFINE j == n - m + 1
           g == [f EXCEPT ![j] = H[<<j, f[nx[j]]>>]]
<1>6. j \in 1 .. n /\ m \in 0 .. n
  BY <1>3
<1>7. g \in [1 .. n + 1 -> D]
  <2>1. H[<<j, f[nx[j]]>>] \in D
    BY <1>6
  <2> QED BY <2>1
<1>8. Solves(g, m)
  <2>1. g[n + 1] = base
    BY <1>5, <1>6
  <2>2. ASSUME NEW i \in n - m + 1 .. n PROVE g[i] = H[<<i, g[nx[i]]>>]
    <3>1. i \in 1 .. n /\ nx[i] \in 1 .. n + 1 /\ nx[i] > i /\ i >= j
      BY <1>6
    <3>2. g[nx[i]] = f[nx[i]]
      BY <3>1, <1>6
    <3>3. CASE i = j
      <4>1. g[j] = H[<<j, f[nx[j]]>>]
        BY <1>6
      <4> HIDE DEF g, j
      <4> QED BY Zenon, <3>2, <3>3, <4>1
    <3>4. CASE i # j
      <4>1. i \in n - (m - 1) + 1 .. n
        BY <3>1, <3>4, <1>6
      <4>2. f[i] = H[<<i, f[nx[i]]>>]
        BY <4>1, <1>5
      <4>3. g[i] = f[i]
        BY <3>1, <3>4
      <4> QED BY Zenon, <4>2, <4>3, <3>2
    <3> QED BY <3>3, <3>4
  <2> QED BY <2>1, <2>2
<1> QED BY Zenon, <1>7, <1>8

-----------------------------------------------------------------------------
(* The decoder.                                                            *)

LEMMA BlockType ==
  ASSUME NEW x \in Seq(Nat), NEW i \in 1 .. Len(x), Acceptable(x, i)
  PROVE  DecodedBlock(x, i) \in Seq(Nat)
<1>1. x[i] \in Nat /\ Len(x) \in Nat /\ i \in Nat
  OBVIOUS
<1>2. SubSeq(x, i + 1, i + x[i] - 1) \in Seq(Nat)
  <2>1. \A m \in i + 1 .. i + x[i] - 1 : m \in 1 .. Len(x)
    BY <1>1 DEF Acceptable
  <2>2. \A m \in i + 1 .. i + x[i] - 1 : x[m] \in Nat
    BY <2>1
  <2> QED BY <1>1, <2>2
<1>3. <<0>> \in Seq(Nat) /\ << >> \in Seq(Nat)
  OBVIOUS
<1> QED BY <1>2, <1>3 DEF DecodedBlock

\* The equation of DecodeFrom.
LEMMA DecodeUnfold ==
  ASSUME NEW x \in Seq(Nat)
  PROVE  /\ DecodeFrom(x) \in [1 .. Len(x) + 1 -> SUBSET Seq(Nat)]
         /\ DecodeFrom(x)[Len(x) + 1] = {<< >>}
         /\ \A i \in 1 .. Len(x) :
              DecodeFrom(x)[i] =
                IF Acceptable(x, i)
                THEN {DecodedBlock(x, i) \o rest : rest \in DecodeFrom(x)[i + x[i]]}
                ELSE {}
<1> DEFINE n == Len(x)
           D == SUBSET Seq(Nat)
           Step(i, v) == IF Acceptable(x, i)
                         THEN {DecodedBlock(x, i) \o rest : rest \in v}
                         ELSE {}
           Body(g) == [i \in 1 .. n + 1 |->
                         IF i = n + 1 THEN {<< >>} ELSE Step(i, g[i + x[i]])]
           nx == [i \in 1 .. n |-> IF Acceptable(x, i) THEN i + x[i] ELSE n + 1]
           H == [p \in (1 .. n) \X D |-> Step(p[1], p[2])]
<1>1. DecodeFrom(x) = CHOOSE g : g = Body(g)
  BY Zenon DEF DecodeFrom
<1>2. n \in Nat /\ \A i \in 1 .. n : x[i] \in Nat
  OBVIOUS
<1>3. nx \in [1 .. n -> 1 .. n + 1] /\ \A i \in 1 .. n : nx[i] > i
  BY <1>2 DEF Acceptable
<1>5. ASSUME NEW i \in 1 .. n, NEW v \in D PROVE Step(i, v) \in D
  <2>1. CASE Acceptable(x, i)
    <3>1. \A rest \in v : DecodedBlock(x, i) \o rest \in Seq(Nat)
      BY <2>1, BlockType
    <3>2. Step(i, v) = {DecodedBlock(x, i) \o rest : rest \in v}
      BY Zenon, <2>1
    <3> QED BY Zenon, <3>1, <3>2
  <2>2. CASE ~ Acceptable(x, i)
    BY <2>2
  <2> QED BY Zenon, <2>1, <2>2
<1>6. H \in [(1 .. n) \X D -> D]
  <2> HIDE DEF Step
  <2> QED BY <1>5
<1>7. {<< >>} \in D
  OBVIOUS
<1>8. PICK f : Solution(f, n, D, {<< >>}, nx, H)
  <2>1. Backward(n, D, {<< >>}, nx, H)
    BY Zenon, <1>2, <1>3, <1>6, <1>7 DEF Backward
  <2> HIDE DEF H, nx, D, n
  <2> QED BY Zenon, <2>1, BackwardRecursion
<1> USE DEF Solution
<1>9. ASSUME NEW i \in 1 .. n PROVE f[i] = Step(i, f[i + x[i]])
  <2>1. f[i] = Step(i, f[nx[i]])
    <3> HIDE DEF Step
    <3>1. <<i, f[nx[i]]>> \in (1 .. n) \X D
      BY Zenon, <1>3, <1>8
    <3>2. H[<<i, f[nx[i]]>>] = Step(i, f[nx[i]])
      BY <3>1
    <3> QED BY Zenon, <3>2, <1>8
  <2>2. CASE Acceptable(x, i)
    <3>1. nx[i] = i + x[i]
      BY Zenon, <2>2
    <3> HIDE DEF nx, Step
    <3> QED BY Zenon, <2>1, <3>1
  <2>3. CASE ~ Acceptable(x, i)
    BY Zenon, <2>1, <2>3
  <2> QED BY <2>2, <2>3
<1>10. f = Body(f)
  <2> HIDE DEF Step
  <2> QED BY <1>2, <1>8, <1>9
<1> DEFINE d == DecodeFrom(x)
<1>11. d = Body(d)
  <2> HIDE DEF Body
  <2> QED BY Zenon, <1>1, <1>10
<1>12. /\ d[n + 1] = {<< >>}
       /\ \A i \in 1 .. n : d[i] = Step(i, d[i + x[i]])
  <2> HIDE DEF Step, d
  <2>1. \A i \in 1 .. n + 1 : d[i] = IF i = n + 1 THEN {<< >>} ELSE Step(i, d[i + x[i]])
    BY Zenon, <1>11
  <2>2. \A i \in 1 .. n : i \in 1 .. n + 1 /\ i # n + 1
    BY <1>2
  <2>3. n + 1 \in 1 .. n + 1
    BY <1>2
  <2> QED BY Zenon, <2>1, <2>2, <2>3
<1>13. \A i \in 1 .. n + 1 : d[i] \in D
  <2> DEFINE S == {i \in 1 .. n + 1 : d[i] \in D}
  <2>1. n + 1 \in S
    <3>1. n + 1 \in 1 .. n + 1
      BY <1>2
    <3> HIDE DEF d, D, n
    <3> QED BY Zenon, <3>1, <1>7, <1>12
  <2>2. ASSUME NEW i \in 1 .. n, \A j \in i + 1 .. n + 1 : j \in S PROVE i \in S
    <3>1. CASE Acceptable(x, i)
      <4>1. i + x[i] \in i + 1 .. n + 1
        BY <1>2, <3>1 DEF Acceptable
      <4>2. d[i + x[i]] \in D
        BY <4>1, <2>2
      <4> HIDE DEF Step, d
      <4>3. d[i] \in D
        BY <4>2, <1>5, <1>12
      <4> QED BY <4>3, <1>2
    <3>2. CASE ~ Acceptable(x, i)
      <4>1. i \in 1 .. n + 1 /\ {} \in D
        BY <1>2
      <4> HIDE DEF d, D, n
      <4> QED BY Zenon, <4>1, <1>12, <3>2
    <3> QED BY <3>1, <3>2
  <2>3. \A i \in 1 .. n + 1 : i \in S
    <3> HIDE DEF S, d, n
    <3> QED BY Zenon, <2>1, <2>2, <1>2, BackwardInduction
  <2> QED BY <2>3
<1>14. d = [i \in 1 .. n + 1 |-> d[i]]
  <2> HIDE DEF Step, d
  <2> QED BY <1>11
<1>15. d \in [1 .. n + 1 -> D]
  <2> HIDE DEF Step, d, D
  <2> QED BY Zenon, <1>13, <1>14
<1> QED BY Zenon, <1>12, <1>15

-----------------------------------------------------------------------------
(* The encoding.                                                           *)

\* BlockLength is the length of the block it describes: there is only one.
LEMMA BlockLengthIs ==
  ASSUME NEW x \in Seq(Nat), NEW i \in 1 .. Len(x) + 1, NEW k \in 0 .. BlockMax,
         i + k <= Len(x) + 1,
         \A m \in i .. i + k - 1 : x[m] # 0,
         k = BlockMax \/ i + k = Len(x) + 1 \/ x[i + k] = 0
  PROVE  BlockLength(x, i) = k
<1> DEFINE P(q) == /\ i + q <= Len(x) + 1
                   /\ \A m \in i .. i + q - 1 : x[m] # 0
                   /\ q = BlockMax \/ i + q = Len(x) + 1 \/ x[i + q] = 0
<1>0. BlockMax \in Nat /\ Len(x) \in Nat
  BY FullAssumption DEF BlockMax
<1>1. ASSUME NEW q \in 0 .. BlockMax, P(q) PROVE q = k
  <2>1. CASE q < k
    <3>1. i + q \in i .. i + k - 1 /\ q # BlockMax /\ i + q # Len(x) + 1
      BY <1>0, <2>1
    <3> QED BY <3>1, <1>1
  <2>2. CASE k < q
    <3>1. i + k \in i .. i + q - 1 /\ k # BlockMax /\ i + k # Len(x) + 1
      BY <1>0, <1>1, <2>2
    <3> QED BY <3>1, <1>1
  <2> QED BY <1>0, <2>1, <2>2
<1>2. BlockLength(x, i) = CHOOSE q \in 0 .. BlockMax : P(q)
  BY Zenon DEF BlockLength
<1>3. P(k)
  OBVIOUS
<1> HIDE DEF P
<1> QED BY Zenon, <1>1, <1>2, <1>3

\* Every place of a byte string starts a block.
LEMMA BlockLengthProperties ==
  ASSUME NEW x \in Seq(Nat), NEW i \in 1 .. Len(x) + 1
  PROVE  /\ BlockLength(x, i) \in 0 .. BlockMax
         /\ i + BlockLength(x, i) <= Len(x) + 1
         /\ \/ BlockLength(x, i) = BlockMax
            \/ i + BlockLength(x, i) = Len(x) + 1
            \/ x[i + BlockLength(x, i)] = 0
         /\ IsLast(x, i) \/ NextBlock(x, i) \in i + 1 .. Len(x) + 1
<1> DEFINE T == {k \in 0 .. BlockMax :
                   k = BlockMax \/ i + k = Len(x) + 1 \/ (i + k <= Len(x) /\ x[i + k] = 0)}
<1>0. BlockMax \in Nat /\ BlockMax >= 1 /\ Len(x) \in Nat
  BY FullAssumption DEF BlockMax
<1>1. T \subseteq Nat /\ BlockMax \in T
  BY <1>0
<1>2. PICK k \in T : \A y \in T : k <= y
  <2> HIDE DEF T
  <2> QED BY Zenon, LeastNat, <1>1
<1>3. /\ k \in 0 .. BlockMax
      /\ k = BlockMax \/ i + k = Len(x) + 1 \/ (i + k <= Len(x) /\ x[i + k] = 0)
  OBVIOUS
<1>4. i + k <= Len(x) + 1
  <2>1. SUFFICES ASSUME i + k > Len(x) + 1 PROVE FALSE
    BY <1>0, <1>3
  <2>2. Len(x) + 1 - i \in T /\ ~(k <= Len(x) + 1 - i)
    BY <1>0, <1>3, <2>1
  <2> HIDE DEF T
  <2> QED BY Zenon, <1>2, <2>2
<1>5. ASSUME NEW m \in i .. i + k - 1 PROVE x[m] # 0
  <2>1. SUFFICES ASSUME x[m] = 0 PROVE FALSE
    OBVIOUS
  <2>2. m - i \in 0 .. BlockMax /\ i + (m - i) = m /\ m <= Len(x) /\ ~(k <= m - i)
    BY <1>0, <1>3, <1>4
  <2>3. m - i \in T
    BY <2>1, <2>2
  <2> HIDE DEF T
  <2> QED BY Zenon, <1>2, <2>2, <2>3
<1>6. BlockLength(x, i) = k
  <2> HIDE DEF T
  <2>1. k = BlockMax \/ i + k = Len(x) + 1 \/ x[i + k] = 0
    BY Zenon, <1>3
  <2> QED BY <1>3, <1>4, <1>5, <2>1, BlockLengthIs
<1>7. IsLast(x, i) \/ NextBlock(x, i) \in i + 1 .. Len(x) + 1
  <2> HIDE DEF T
  <2> QED BY <1>0, <1>3, <1>4, <1>6 DEF IsLast, NextBlock
<1>8. k = BlockMax \/ i + k = Len(x) + 1 \/ x[i + k] = 0
  BY Zenon, <1>3
<1> HIDE DEF T
<1> QED BY Zenon, <1>3, <1>4, <1>6, <1>7, <1>8

\* The code of the block at place i and its data.
CodedBlock(x, i) == <<BlockLength(x, i) + 1>> \o DataOf(x, i)

LEMMA CodedBlockType ==
  ASSUME NEW x \in Seq(Nat), NEW i \in 1 .. Len(x) + 1
  PROVE  CodedBlock(x, i) \in Seq(Nat)
<1> DEFINE k == BlockLength(x, i)
<1>1. k \in Nat /\ i + k <= Len(x) + 1 /\ i \in Nat /\ Len(x) \in Nat
  BY BlockLengthProperties, FullAssumption DEF BlockMax
<1> HIDE DEF k
<1>2. \A m \in i .. i + k - 1 : m \in 1 .. Len(x)
  BY <1>1
<1>3. \A m \in i .. i + k - 1 : x[m] \in Nat
  BY <1>2
<1>4. SubSeq(x, i, i + k - 1) \in Seq(Nat)
  BY <1>1, <1>3
<1>5. <<k + 1>> \in Seq(Nat)
  BY <1>1
<1> QED BY <1>4, <1>5 DEF CodedBlock, DataOf, k

\* The equation of EncodeFrom.
LEMMA EncodeUnfold ==
  ASSUME NEW x \in Seq(Nat)
  PROVE  /\ EncodeFrom(x) \in [1 .. Len(x) + 1 -> Seq(Nat)]
         /\ \A i \in 1 .. Len(x) + 1 :
              EncodeFrom(x)[i] =
                CodedBlock(x, i) \o
                  (IF IsLast(x, i) THEN << >> ELSE EncodeFrom(x)[NextBlock(x, i)])
<1> DEFINE n == Len(x)
           D == Seq(Nat)
           Step(i, v) == CodedBlock(x, i) \o (IF IsLast(x, i) THEN << >> ELSE v)
           Body(g) == [i \in 1 .. n + 1 |->
                         CodedBlock(x, i) \o
                           (IF IsLast(x, i) THEN << >> ELSE g[NextBlock(x, i)])]
           nx == [i \in 1 .. n |-> IF IsLast(x, i) THEN n + 1 ELSE NextBlock(x, i)]
           H == [p \in (1 .. n) \X D |-> Step(p[1], p[2])]
           base == Step(n + 1, << >>)
<1>1. EncodeFrom(x) = CHOOSE g : g = Body(g)
  BY Zenon DEF EncodeFrom, CodedBlock
<1>2. n \in Nat
  OBVIOUS
<1>3. \A i \in 1 .. n + 1 : IsLast(x, i) \/ NextBlock(x, i) \in i + 1 .. n + 1
  BY Zenon, BlockLengthProperties
<1>4. nx \in [1 .. n -> 1 .. n + 1] /\ \A i \in 1 .. n : nx[i] > i
  BY <1>2, <1>3
<1>5. ASSUME NEW i \in 1 .. n + 1, NEW v \in D PROVE Step(i, v) \in D
  BY CodedBlockType
<1>6. IsLast(x, n + 1)
  <2>1. n + 1 \in 1 .. n + 1 /\ n + 2 .. n + 1 = {}
    BY <1>2
  <2>2. NextBlock(x, n + 1) \notin n + 1 + 1 .. n + 1
    BY <1>2
  <2> QED BY Zenon, <1>3, <2>1, <2>2
<1>7. base \in D
  BY <1>2, <1>5
<1>8. H \in [(1 .. n) \X D -> D]
  <2>1. \A i \in 1 .. n : i \in 1 .. n + 1
    BY <1>2
  <2> HIDE DEF Step, D
  <2> QED BY <1>5, <2>1
<1>9. PICK f : Solution(f, n, D, base, nx, H)
  <2>1. Backward(n, D, base, nx, H)
    <3> HIDE DEF H, nx, D, n, base
    <3> QED BY Zenon, <1>2, <1>4, <1>7, <1>8 DEF Backward
  <2> HIDE DEF H, nx, D, n, base
  <2> QED BY Zenon, <2>1, BackwardRecursion
<1> USE DEF Solution
<1>10. \A i \in 1 .. n + 1 : f[i] = Step(i, f[NextBlock(x, i)])
  <2> TAKE i \in 1 .. n + 1
  <2>1. CASE i = n + 1
    BY Zenon, <1>6, <1>9, <2>1
  <2>2. CASE i # n + 1
    <3>1. i \in 1 .. n
      BY <1>2, <2>2
    <3>2. f[i] = Step(i, f[nx[i]])
      <4> HIDE DEF Step
      <4>1. <<i, f[nx[i]]>> \in (1 .. n) \X D
        BY <1>4, <1>9, <3>1
      <4>2. H[<<i, f[nx[i]]>>] = Step(i, f[nx[i]])
        BY <4>1
      <4> QED BY Zenon, <4>2, <1>9, <3>1
    <3>3. nx[i] = IF IsLast(x, i) THEN n + 1 ELSE NextBlock(x, i)
      BY Zenon, <3>1
    <3> HIDE DEF nx
    <3> QED BY Zenon, <3>2, <3>3
  <2> QED BY <2>1, <2>2
<1>11. f = Body(f)
  <2>1. f = [i \in 1 .. n + 1 |-> f[i]]
    BY <1>9
  <2> QED BY Zenon, <2>1, <1>10
<1> DEFINE d == EncodeFrom(x)
<1>12. d = Body(d)
  <2> HIDE DEF Body
  <2> QED BY <1>1, <1>11
<1>13. \A i \in 1 .. n + 1 : d[i] = Step(i, d[NextBlock(x, i)])
  <2> HIDE DEF d
  <2> QED BY Zenon, <1>12
<1>14. \A i \in 1 .. n + 1 : d[i] \in D
  <2> DEFINE S == {i \in 1 .. n + 1 : d[i] \in D}
  <2>1. ASSUME NEW i \in 1 .. n + 1, IsLast(x, i) PROVE i \in S
    <3>1. d[i] = Step(i, << >>)
      <4> HIDE DEF d
      <4> QED BY Zenon, <1>13, <2>1
    <3>2. << >> \in D
      OBVIOUS
    <3> HIDE DEF Step, D, d
    <3> QED BY Zenon, <3>1, <3>2, <1>5
  <2>2. n + 1 \in S
    <3>1. n + 1 \in 1 .. n + 1
      BY <1>2
    <3> HIDE DEF S
    <3> QED BY Zenon, <3>1, <2>1, <1>6
  <2>3. ASSUME NEW i \in 1 .. n, \A j \in i + 1 .. n + 1 : j \in S PROVE i \in S
    <3>0. i \in 1 .. n + 1
      BY <1>2
    <3>1. CASE IsLast(x, i)
      <4> HIDE DEF S
      <4> QED BY Zenon, <2>1, <3>0, <3>1
    <3>2. CASE ~ IsLast(x, i)
      <4>1. NextBlock(x, i) \in i + 1 .. n + 1
        BY Zenon, <1>3, <3>0, <3>2
      <4>2. d[NextBlock(x, i)] \in D
        BY Zenon, <4>1, <2>3
      <4> HIDE DEF Step, D, d
      <4>3. d[i] \in D
        BY Zenon, <3>0, <4>2, <1>5, <1>13
      <4> QED BY Zenon, <3>0, <4>3
    <3> QED BY <3>1, <3>2
  <2>4. \A i \in 1 .. n + 1 : i \in S
    <3> HIDE DEF S, d, n
    <3> QED BY Zenon, <2>2, <2>3, <1>2, BackwardInduction
  <2> QED BY <2>4
<1>15. d = [i \in 1 .. n + 1 |-> d[i]]
  <2> HIDE DEF Step, d
  <2> QED BY <1>12
<1>16. d \in [1 .. n + 1 -> D]
  <2> HIDE DEF Step, d, D
  <2> QED BY Zenon, <1>14, <1>15
<1> QED BY Zenon, <1>13, <1>16

-----------------------------------------------------------------------------
(* The decoder undoes the encoding.                                        *)

\* Strings with the same bytes are equal.
LEMMA SameBytes ==
  ASSUME NEW s \in Seq(Nat), NEW t \in Seq(Nat), Len(s) = Len(t),
         \A m \in 1 .. Len(t) : s[m] = t[m]
  PROVE  s = t
<1>1. \A q \in Seq(Nat) : q = [m \in 1 .. Len(q) |-> q[m]]
  OBVIOUS
<1>2. [m \in 1 .. Len(s) |-> s[m]] = [m \in 1 .. Len(t) |-> t[m]]
  BY Zenon
<1>3. s = [m \in 1 .. Len(s) |-> s[m]] /\ t = [m \in 1 .. Len(t) |-> t[m]]
  BY Zenon, <1>1
<1> QED BY Zenon, <1>2, <1>3

\* The bytes of two strings in a row.
LEMMA Join ==
  ASSUME NEW s \in Seq(Nat), NEW t \in Seq(Nat)
  PROVE  /\ s \o t \in Seq(Nat)
         /\ Len(s \o t) = Len(s) + Len(t)
         /\ \A m \in 1 .. Len(s) : (s \o t)[m] = s[m]
         /\ \A m \in 1 .. Len(t) : (s \o t)[Len(s) + m] = t[m]
OBVIOUS

\* A string with the bytes of s and then those of t is s \o t.
LEMMA Glue ==
  ASSUME NEW s \in Seq(Nat), NEW t \in Seq(Nat), NEW w \in Seq(Nat),
         Len(w) = Len(s) + Len(t),
         \A m \in 1 .. Len(s) : w[m] = s[m],
         \A m \in 1 .. Len(t) : w[Len(s) + m] = t[m]
  PROVE  s \o t = w
<1>1. s \o t \in Seq(Nat) /\ Len(s \o t) = Len(w)
  BY Join
<1>2. ASSUME NEW m \in 1 .. Len(w) PROVE (s \o t)[m] = w[m]
  <2>1. CASE m <= Len(s)
    BY <2>1
  <2>2. CASE m > Len(s)
    <3>1. m - Len(s) \in 1 .. Len(t) /\ m = Len(s) + (m - Len(s))
      BY <2>2
    <3>2. PICK q \in 1 .. Len(t) : m = Len(s) + q
      BY Zenon, <3>1
    <3>3. (s \o t)[Len(s) + q] = t[q]
      BY Zenon, Join
    <3> QED BY Zenon, <3>2, <3>3
  <2> QED BY <2>1, <2>2
<1> DEFINE z == s \o t
<1> HIDE DEF z
<1>3. z = w
  <2>1. z \in Seq(Nat) /\ Len(z) = Len(w) /\ \A m \in 1 .. Len(w) : z[m] = w[m]
    BY Zenon, <1>1, <1>2 DEF z
  <2> QED BY Zenon, <2>1, SameBytes
<1> QED BY Zenon, <1>3 DEF z

LEMMA Assoc ==
  ASSUME NEW s \in Seq(Nat), NEW t \in Seq(Nat), NEW u \in Seq(Nat)
  PROVE  (s \o t) \o u = s \o (t \o u)
BY SMTT(30)

\* The bytes of a part of a byte string.
LEMMA Part ==
  ASSUME NEW x \in Seq(Nat), NEW a \in Nat, NEW b \in Nat,
         a >= 1, b <= Len(x), a <= b + 1
  PROVE  /\ SubSeq(x, a, b) \in Seq(Nat)
         /\ Len(SubSeq(x, a, b)) = b + 1 - a
         /\ \A m \in 1 .. b + 1 - a : SubSeq(x, a, b)[m] = x[a + m - 1]
<1>1. \A m \in a .. b : m \in 1 .. Len(x)
  OBVIOUS
<1>2. \A m \in a .. b : x[m] \in Nat
  BY <1>1
<1> QED BY <1>2

\* Two adjacent parts, without and with a byte between them.
LEMMA AdjacentParts ==
  ASSUME NEW x \in Seq(Nat), NEW a \in Nat, NEW b \in Nat, NEW c \in Nat,
         a >= 1, a <= b + 1, b <= c, c <= Len(x)
  PROVE  SubSeq(x, a, b) \o SubSeq(x, b + 1, c) = SubSeq(x, a, c)
<1> DEFINE s == SubSeq(x, a, b)
           t == SubSeq(x, b + 1, c)
           w == SubSeq(x, a, c)
<1>0. Len(x) \in Nat
  OBVIOUS
<1>1. s \in Seq(Nat) /\ Len(s) = b + 1 - a /\ \A m \in 1 .. b + 1 - a : s[m] = x[a + m - 1]
  BY <1>0, Part
<1>2. /\ t \in Seq(Nat) /\ Len(t) = c + 1 - (b + 1)
      /\ \A m \in 1 .. c + 1 - (b + 1) : t[m] = x[b + 1 + m - 1]
  <2>1. b + 1 \in Nat /\ b + 1 >= 1 /\ b + 1 <= c + 1
    OBVIOUS
  <2> QED BY ZenonT(40), <2>1, Part
<1>3. w \in Seq(Nat) /\ Len(w) = c + 1 - a /\ \A m \in 1 .. c + 1 - a : w[m] = x[a + m - 1]
  BY <1>0, Part
<1> HIDE DEF s, t, w
<1>4. Len(w) = Len(s) + Len(t)
  BY <1>1, <1>2, <1>3
<1>5. ASSUME NEW m \in 1 .. Len(s) PROVE w[m] = s[m]
  <2>1. m \in 1 .. b + 1 - a /\ m \in 1 .. c + 1 - a
    BY <1>1
  <2> QED BY Zenon, <2>1, <1>1, <1>3
<1>6. ASSUME NEW m \in 1 .. Len(t) PROVE w[Len(s) + m] = t[m]
  <2>1. /\ m \in 1 .. c + 1 - (b + 1) /\ Len(s) + m \in 1 .. c + 1 - a
        /\ a + (Len(s) + m) - 1 = b + 1 + m - 1
    BY <1>1, <1>2
  <2> QED BY Zenon, <2>1, <1>2, <1>3
<1>7. s \o t = w
  BY Zenon, <1>1, <1>2, <1>3, <1>4, <1>5, <1>6, Glue
<1> QED BY Zenon, <1>7 DEF s, t, w

\* A part that is one byte.
LEMMA OneByte ==
  ASSUME NEW x \in Seq(Nat), NEW a \in 1 .. Len(x)
  PROVE  SubSeq(x, a, a) = <<x[a]>>
<1>1. x[a] \in Nat /\ a \in Nat /\ a >= 1 /\ a <= Len(x)
  OBVIOUS
<1>2. /\ SubSeq(x, a, a) \in Seq(Nat) /\ Len(SubSeq(x, a, a)) = a + 1 - a
      /\ \A m \in 1 .. a + 1 - a : SubSeq(x, a, a)[m] = x[a + m - 1]
  <2>1. a <= a + 1
    BY <1>1
  <2> QED BY Zenon, <1>1, <2>1, Part
<1> DEFINE s == SubSeq(x, a, a)
<1> HIDE DEF s
<1>3. Len(s) = 1 /\ s[1] = x[a]
  BY <1>1, <1>2 DEF s
<1>4. \A z \in Seq(Nat) : Len(z) = 1 => z = <<z[1]>>
  OBVIOUS
<1> QED BY Zenon, <1>2, <1>3, <1>4 DEF s

\* The code and the data of a block, byte by byte.
LEMMA CodedBlockBytes ==
  ASSUME NEW x \in Seq(Nat), NEW i \in 1 .. Len(x) + 1
  PROVE  LET k == BlockLength(x, i)
             c == CodedBlock(x, i)
         IN  /\ k \in Nat /\ k <= BlockMax /\ i + k <= Len(x) + 1
             /\ DataOf(x, i) \in Seq(Nat) /\ Len(DataOf(x, i)) = k
             /\ c \in Seq(Nat) /\ Len(c) = k + 1 /\ c[1] = k + 1
             /\ \A m \in 1 .. k : c[1 + m] = DataOf(x, i)[m]
             /\ \A m \in 1 .. k : DataOf(x, i)[m] = x[i + m - 1]
<1> DEFINE k == BlockLength(x, i)
           s == DataOf(x, i)
<1>1. k \in Nat /\ k <= BlockMax /\ i + k <= Len(x) + 1 /\ i \in Nat /\ Len(x) \in Nat
  BY BlockLengthProperties, FullAssumption DEF BlockMax
<1>2. s \in Seq(Nat) /\ Len(s) = k /\ \A m \in 1 .. k : s[m] = x[i + m - 1]
  <2> HIDE DEF k
  <2>1. i + k - 1 \in Nat /\ i + k - 1 <= Len(x) /\ i <= i + k - 1 + 1 /\ i >= 1
        /\ i + k - 1 + 1 - i = k
    BY <1>1
  <2>2. /\ SubSeq(x, i, i + k - 1) \in Seq(Nat)
        /\ Len(SubSeq(x, i, i + k - 1)) = i + k - 1 + 1 - i
        /\ \A m \in 1 .. i + k - 1 + 1 - i : SubSeq(x, i, i + k - 1)[m] = x[i + m - 1]
    BY ZenonT(40), <1>1, <2>1, Part
  <2> QED BY Zenon, <2>1, <2>2 DEF DataOf, k
<1> DEFINE h == <<k + 1>>
<1> HIDE DEF k, s
<1>3. h \in Seq(Nat) /\ Len(h) = 1 /\ h[1] = k + 1
  BY <1>1
<1> HIDE DEF h
<1>4. /\ h \o s \in Seq(Nat)
      /\ Len(h \o s) = 1 + k
      /\ (h \o s)[1] = k + 1
      /\ \A m \in 1 .. k : (h \o s)[1 + m] = s[m]
  <2>1. /\ h \o s \in Seq(Nat) /\ Len(h \o s) = Len(h) + Len(s)
        /\ \A m \in 1 .. Len(h) : (h \o s)[m] = h[m]
        /\ \A m \in 1 .. Len(s) : (h \o s)[Len(h) + m] = s[m]
    BY Zenon, <1>2, <1>3, Join
  <2>2. 1 \in 1 .. 1
    OBVIOUS
  <2> QED BY Zenon, <1>2, <1>3, <2>1, <2>2
<1>5. CodedBlock(x, i) = h \o s
  BY Zenon DEF CodedBlock, h, k, s
<1>6. 1 + k = k + 1
  BY <1>1
<1> QED BY Zenon, <1>1, <1>2, <1>4, <1>5, <1>6 DEF k, s

\* Where a coded block stands in a string, cobs_decode accepts it, adds its data
\* and, if the block is not full and something follows, the zero it stands for.
LEMMA ReadBlock ==
  ASSUME NEW x \in Seq(Nat), NEW i \in 1 .. Len(x) + 1,
         NEW p \in Seq(Nat), NEW r \in Seq(Nat), NEW y,
         y = p \o (CodedBlock(x, i) \o r)
  PROVE  LET j == Len(p) + 1
         IN  /\ y \in Seq(Nat) /\ j \in 1 .. Len(y)
             /\ Acceptable(y, j)
             /\ j + y[j] = Len(p \o CodedBlock(x, i)) + 1
             /\ Len(y) = Len(p \o CodedBlock(x, i)) + Len(r)
             /\ DecodedBlock(y, j) =
                  DataOf(x, i) \o
                    (IF BlockLength(x, i) # BlockMax /\ r # << >> THEN <<0>> ELSE << >>)
<1> DEFINE k == BlockLength(x, i)
           c == CodedBlock(x, i)
           s == DataOf(x, i)
           j == Len(p) + 1
<1>1. /\ k \in Nat /\ k <= BlockMax /\ i + k <= Len(x) + 1
      /\ s \in Seq(Nat) /\ Len(s) = k
      /\ c \in Seq(Nat) /\ Len(c) = k + 1 /\ c[1] = k + 1
      /\ \A m \in 1 .. k : c[1 + m] = s[m]
  BY Zenon, CodedBlockBytes
<1>a. y = p \o (c \o r)
  OBVIOUS
<1> HIDE DEF k, c, s
<1>2. /\ c \o r \in Seq(Nat) /\ Len(c \o r) = Len(c) + Len(r)
      /\ \A m \in 1 .. Len(c) : (c \o r)[m] = c[m]
  BY ZenonT(40), <1>1, Join
<1>3. /\ y \in Seq(Nat) /\ Len(y) = Len(p) + Len(c \o r)
      /\ \A m \in 1 .. Len(c \o r) : y[Len(p) + m] = (c \o r)[m]
  <2> DEFINE z == p \o (c \o r)
  <2>1. /\ z \in Seq(Nat) /\ Len(z) = Len(p) + Len(c \o r)
        /\ \A m \in 1 .. Len(c \o r) : z[Len(p) + m] = (c \o r)[m]
    BY Zenon, <1>2, Join
  <2> HIDE DEF z
  <2>2. y = z
    BY Zenon, <1>a DEF z
  <2> QED BY Zenon, <2>1, <2>2
<1> DEFINE lp == Len(p)
           lr == Len(r)
           ly == Len(y)
           yj == y[j]
<1>4. /\ lp \in Nat /\ lr \in Nat /\ k \in Nat
      /\ ly = lp + ((k + 1) + lr)
  <2>1. lp \in Nat /\ lr \in Nat
    OBVIOUS
  <2> QED BY Zenon, <1>1, <1>2, <1>3, <2>1
<1>b. j = lp + 1
  OBVIOUS
<1> HIDE DEF lp, lr, ly, j
<1>5. \A m \in 1 .. k + 1 : y[Len(p) + m] = c[m]
  <2>1. \A m \in 1 .. k + 1 : m \in 1 .. (k + 1) + lr
    BY <1>4
  <2>2. Len(c) = k + 1 /\ Len(c \o r) = (k + 1) + lr
    BY Zenon, <1>1, <1>2 DEF lr
  <2> QED BY Zenon, <2>1, <2>2, <1>2, <1>3
<1>6. y[j] = k + 1
  <2>1. 1 \in 1 .. k + 1
    BY <1>4
  <2> QED BY Zenon, <2>1, <1>1, <1>5 DEF j
<1> HIDE DEF yj
<1>c. yj = k + 1
  BY Zenon, <1>6 DEF yj
<1>7. Len(p \o c) = lp + (k + 1)
  <2>1. Len(p \o c) = Len(p) + Len(c)
    BY Zenon, <1>1, Join
  <2> QED BY Zenon, <1>1, <2>1 DEF lp
<1>8. /\ j \in 1 .. Len(y)
      /\ Acceptable(y, j)
      /\ j + y[j] = Len(p \o c) + 1
      /\ Len(y) = Len(p \o c) + Len(r)
  <2>1. /\ j \in 1 .. ly /\ yj # 0 /\ j + yj <= ly + 1
        /\ j + yj = lp + (k + 1) + 1 /\ ly = lp + (k + 1) + lr
    BY <1>4, <1>b, <1>c
  <2> QED BY Zenon, <1>7, <2>1 DEF Acceptable, yj, ly, lr
<1>9. SubSeq(y, j + 1, j + y[j] - 1) = s
  <2> DEFINE e == j + yj - 1
             w == SubSeq(y, j + 1, e)
  <2>1. /\ j + 1 \in Nat /\ e \in Nat
        /\ j + 1 >= 1 /\ e <= ly /\ j + 1 <= e + 1
        /\ e + 1 - (j + 1) = k
    BY <1>4, <1>b, <1>c
  <2> HIDE DEF e
  <2>2. /\ w \in Seq(Nat) /\ Len(w) = k
        /\ \A m \in 1 .. k : w[m] = y[j + 1 + m - 1]
    <3>1. /\ w \in Seq(Nat) /\ Len(w) = e + 1 - (j + 1)
          /\ \A m \in 1 .. e + 1 - (j + 1) : w[m] = y[j + 1 + m - 1]
      BY ZenonT(40), <1>3, <2>1, Part DEF ly
    <3> QED BY Zenon, <3>1, <2>1
  <2> HIDE DEF w
  <2>3. ASSUME NEW m \in 1 .. k PROVE w[m] = s[m]
    <3>1. j + 1 + m - 1 = lp + (1 + m) /\ 1 + m \in 1 .. k + 1
      BY <1>4, <1>b
    <3> QED BY Zenon, <3>1, <2>2, <1>1, <1>5 DEF lp
  <2>4. s \in Seq(Nat) /\ Len(s) = k
    BY Zenon, <1>1
  <2>5. w = s
    BY Zenon, <2>2, <2>3, <2>4, SameBytes
  <2> QED BY Zenon, <2>5 DEF w, e, yj
<1>10. (y[j] # Full /\ j + y[j] <= Len(y)) <=> (k # BlockMax /\ r # << >>)
  <2>1. r # << >> <=> lr > 0
    BY DEF lr
  <2>2. yj # Full <=> k # BlockMax
    BY <1>4, <1>c, FullAssumption DEF BlockMax
  <2>3. j + yj <= ly <=> lr > 0
    BY <1>4, <1>b, <1>c
  <2> QED BY Zenon, <2>1, <2>2, <2>3 DEF yj, ly
<1>11. DecodedBlock(y, j) = s \o (IF k # BlockMax /\ r # << >> THEN <<0>> ELSE << >>)
  <2>1. CASE k # BlockMax /\ r # << >>
    BY Zenon, <1>9, <1>10, <2>1 DEF DecodedBlock
  <2>2. CASE ~(k # BlockMax /\ r # << >>)
    BY Zenon, <1>9, <1>10, <2>2 DEF DecodedBlock
  <2> QED BY Zenon, <2>1, <2>2
<1> QED BY Zenon, <1>3, <1>8, <1>11 DEF k, c, s, j

\* cobs_decode gives back the rest of x from the encoding of that rest, whatever
\* comes before it.
LEMMA DecodeRest ==
  ASSUME NEW x \in Seq(Nat)
  PROVE  \A i \in 1 .. Len(x) + 1, p \in Seq(Nat) :
           DecodeFrom(p \o EncodeFrom(x)[i])[Len(p) + 1] = {SubSeq(x, i, Len(x))}
<1> DEFINE n == Len(x)
           E == EncodeFrom(x)
           S == {i \in 1 .. n + 1 : \A p \in Seq(Nat) :
                   DecodeFrom(p \o E[i])[Len(p) + 1] = {SubSeq(x, i, n)}}
<1>0. n \in Nat
  OBVIOUS
<1>1. E \in [1 .. n + 1 -> Seq(Nat)]
  BY Zenon, EncodeUnfold
<1>2. ASSUME NEW i \in 1 .. n + 1, \A j \in i + 1 .. n + 1 : j \in S PROVE i \in S
  <2> SUFFICES ASSUME NEW p \in Seq(Nat)
               PROVE  DecodeFrom(p \o E[i])[Len(p) + 1] = {SubSeq(x, i, n)}
    OBVIOUS
  <2> DEFINE k == BlockLength(x, i)
             c == CodedBlock(x, i)
             s == DataOf(x, i)
             r == IF IsLast(x, i) THEN << >> ELSE E[NextBlock(x, i)]
             y == p \o E[i]
             j == Len(p) + 1
             d == DecodeFrom(y)
             b == s \o (IF k # BlockMax /\ r # << >> THEN <<0>> ELSE << >>)
  <2>1. E[i] = c \o r
    BY Zenon, EncodeUnfold
  <2>2. /\ k \in Nat /\ k <= BlockMax /\ i + k <= n + 1
        /\ s \in Seq(Nat) /\ c \in Seq(Nat)
        /\ s = SubSeq(x, i, i + k - 1)
    BY Zenon, CodedBlockBytes DEF DataOf
  <2>3. k = BlockMax \/ i + k = n + 1 \/ x[i + k] = 0
    BY Zenon, BlockLengthProperties
  <2>4. r \in Seq(Nat)
    <3>1. CASE IsLast(x, i)
      BY <3>1
    <3>2. CASE ~ IsLast(x, i)
      <4>1. NextBlock(x, i) \in i + 1 .. n + 1
        BY Zenon, <3>2, BlockLengthProperties
      <4>2. NextBlock(x, i) \in 1 .. n + 1
        BY <4>1, <1>0
      <4> HIDE DEF E
      <4> QED BY Zenon, <3>2, <4>2, <1>1
    <3> QED BY Zenon, <3>1, <3>2
  <2>5. /\ y \in Seq(Nat) /\ j \in 1 .. Len(y)
        /\ Acceptable(y, j)
        /\ j + y[j] = Len(p \o c) + 1
        /\ Len(y) = Len(p \o c) + Len(r)
        /\ DecodedBlock(y, j) = b
    <3>1. y = p \o (c \o r)
      BY Zenon, <2>1
    <3> HIDE DEF y, r, c, j, b
    <3>2. \A z : z = p \o (c \o r) =>
                 /\ z \in Seq(Nat) /\ j \in 1 .. Len(z)
                 /\ Acceptable(z, j)
                 /\ j + z[j] = Len(p \o c) + 1
                 /\ Len(z) = Len(p \o c) + Len(r)
                 /\ DecodedBlock(z, j) = b
      BY ZenonT(60), <2>4, ReadBlock DEF c, j, b
    <3> QED BY Zenon, <3>1, <3>2
  <2>6. d[j] = {b \o rest : rest \in d[Len(p \o c) + 1]}
    <3> HIDE DEF y, j, b
    <3>1. d[j] = {DecodedBlock(y, j) \o rest : rest \in d[j + y[j]]}
      BY Zenon, <2>5, DecodeUnfold
    <3> QED BY Zenon, <3>1, <2>5
  <2>7. CASE IsLast(x, i)
    <3>1. r = << >> /\ b = s \o << >>
      BY Zenon, <2>7
    <3>2. s \o << >> = s
      BY <2>2
    <3>3. i + k - 1 = n
      BY <1>0, <2>2, <2>7 DEF IsLast
    <3>4. Len(p \o c) + 1 = Len(y) + 1
      <4>1. p \o c \in Seq(Nat) /\ Len(r) = 0
        BY <2>2, <3>1
      <4> HIDE DEF y, c, r
      <4> QED BY <2>5, <4>1
    <3>5. d[Len(p \o c) + 1] = {<< >>}
      <4> HIDE DEF y, c
      <4> QED BY Zenon, <2>5, <3>4, DecodeUnfold
    <3>6. d[j] = {b \o << >>}
      <4> HIDE DEF d, b, c, j
      <4> QED BY Zenon, <2>6, <3>5
    <3>7. d[j] = {SubSeq(x, i, n)}
      <4>1. b = s
        BY Zenon, <3>1, <3>2
      <4>2. b \o << >> = s
        BY Zenon, <3>2, <4>1
      <4> HIDE DEF d, b, j, s, k, n
      <4> QED BY Zenon, <3>3, <3>6, <4>2, <2>2
    <3> QED BY Zenon, <3>7
  <2>8. CASE ~ IsLast(x, i)
    <3> DEFINE q == p \o c
               t == NextBlock(x, i)
    <3>1. t \in i + 1 .. n + 1 /\ t \in S /\ r = E[t]
      BY Zenon, <1>2, <2>8, BlockLengthProperties
    <3>2. q \in Seq(Nat) /\ y = q \o E[t]
      <4>1. q \in Seq(Nat)
        BY Zenon, <2>2, Join
      <4>2. (p \o c) \o r = p \o (c \o r)
        BY ZenonT(40), <2>2, <2>4, Assoc
      <4> HIDE DEF r, c, E, t
      <4> QED BY Zenon, <2>1, <3>1, <4>1, <4>2
    <3>3. d[Len(q) + 1] = {SubSeq(x, t, n)}
      <4>1. \A u \in Seq(Nat) : DecodeFrom(u \o E[t])[Len(u) + 1] = {SubSeq(x, t, n)}
        <5> HIDE DEF E, t, n
        <5> QED BY Zenon, <3>1
      <4> HIDE DEF q, E, t, n
      <4> QED BY Zenon, <3>2, <4>1
    <3>4. d[j] = {b \o SubSeq(x, t, n)}
      <4> HIDE DEF d, b, t, j, n
      <4> QED BY Zenon, <2>6, <3>3
    <3>5. r # << >>
      <4>1. t \in 1 .. n + 1
        BY <3>1, <1>0
      <4> DEFINE v == IF IsLast(x, t) THEN << >> ELSE E[NextBlock(x, t)]
      <4>2. r = CodedBlock(x, t) \o v
        BY Zenon, <3>1, <4>1, EncodeUnfold
      <4>3. CodedBlock(x, t) \in Seq(Nat) /\ Len(CodedBlock(x, t)) = BlockLength(x, t) + 1
            /\ BlockLength(x, t) \in Nat
        BY Zenon, <4>1, CodedBlockBytes
      <4>4. v \in Seq(Nat)
        <5>1. CASE IsLast(x, t)
          BY <5>1
        <5>2. CASE ~ IsLast(x, t)
          <6>1. NextBlock(x, t) \in t + 1 .. n + 1
            BY Zenon, <5>2, <4>1, BlockLengthProperties
          <6>2. NextBlock(x, t) \in 1 .. n + 1
            BY <6>1, <4>1, <1>0
          <6> HIDE DEF E
          <6> QED BY Zenon, <5>2, <6>2, <1>1
        <5> QED BY Zenon, <5>1, <5>2
      <4> HIDE DEF v
      <4>5. Len(CodedBlock(x, t) \o v) = Len(CodedBlock(x, t)) + Len(v)
        BY Zenon, <4>3, <4>4, Join
      <4>6. Len(CodedBlock(x, t) \o v) > 0
        BY <4>3, <4>4, <4>5
      <4>7. Len(<< >>) = 0
        OBVIOUS
      <4>8. Len(r) > 0
        BY Zenon, <4>2, <4>6
      <4> HIDE DEF r
      <4> QED BY <4>7, <4>8
    <3>6. b \o SubSeq(x, t, n) = SubSeq(x, i, n)
      <4>1. CASE k = BlockMax
        <5>1. t = i + k - 1 + 1 /\ i + k - 1 \in Nat /\ i + k - 1 <= n
              /\ i <= i + k - 1 + 1 /\ i >= 1 /\ i \in Nat
          BY <1>0, <2>2, <4>1 DEF NextBlock
        <5>2. b = s
          <6>1. b = s \o << >>
            BY Zenon, <4>1
          <6>2. s \o << >> = s
            BY <2>2
          <6> QED BY Zenon, <6>1, <6>2
        <5>3. SubSeq(x, i, i + k - 1) \o SubSeq(x, i + k - 1 + 1, n) = SubSeq(x, i, n)
          <6>1. n <= Len(x)
            BY <1>0
          <6> HIDE DEF n, k
          <6> QED BY ZenonT(40), <1>0, <5>1, <6>1, AdjacentParts
        <5> HIDE DEF b, s, k, t, n
        <5> QED BY Zenon, <2>2, <5>1, <5>2, <5>3
      <4>2. CASE k # BlockMax
        <5>a. t = i + k + 1 /\ i + k # n + 1
          BY Zenon, <2>8, <4>2 DEF NextBlock, IsLast
        <5>1. /\ t = i + k + 1 /\ i + k \in 1 .. n /\ i + k - 1 \in Nat
              /\ i >= 1 /\ i \in Nat /\ i <= i + k - 1 + 1 /\ i + k - 1 <= n
              /\ i + k - 1 + 1 = i + k /\ i + k - 1 <= i + k /\ i + k <= n
              /\ i + k \in Nat /\ i <= i + k + 1
          <6>1. k \in Nat /\ i + k <= n + 1
            BY Zenon, <2>2
          <6> HIDE DEF k, t, n
          <6> QED BY <1>0, <5>a, <6>1
        <5>2. x[i + k] = 0
          <6>1. i + k # n + 1
            BY <1>0, <5>1
          <6> QED BY Zenon, <2>3, <4>2, <6>1
        <5>3. b = s \o <<0>>
          <6> HIDE DEF s, r, k
          <6> QED BY Zenon, <3>5, <4>2
        <5>4. SubSeq(x, i + k, i + k) = <<0>>
          <6> HIDE DEF k
          <6> QED BY Zenon, <5>1, <5>2, OneByte
        <5>5. SubSeq(x, i, i + k - 1) \o SubSeq(x, i + k - 1 + 1, i + k) = SubSeq(x, i, i + k)
          <6> HIDE DEF k
          <6> QED BY Zenon, <5>1, AdjacentParts
        <5>6. SubSeq(x, i, i + k) \o SubSeq(x, i + k + 1, n) = SubSeq(x, i, n)
          <6>1. n <= Len(x)
            BY <1>0
          <6> HIDE DEF n, k
          <6> QED BY ZenonT(40), <1>0, <5>1, <6>1, AdjacentParts
        <5>7. s \o <<0>> = SubSeq(x, i, i + k)
          <6> HIDE DEF s, k
          <6> QED BY Zenon, <2>2, <5>1, <5>4, <5>5
        <5> HIDE DEF b, s, k, t, n
        <5> QED BY Zenon, <5>1, <5>3, <5>6, <5>7
      <4> QED BY Zenon, <4>1, <4>2
    <3> HIDE DEF d, b, j, t, n
    <3> QED BY Zenon, <3>4, <3>6 DEF d, j
  <2> QED BY Zenon, <2>7, <2>8
<1>3. n + 1 \in S
  <2>1. n + 1 \in 1 .. n + 1 /\ \A j \in n + 1 + 1 .. n + 1 : FALSE
    BY <1>0
  <2> HIDE DEF S, n
  <2> QED BY Zenon, <2>1, <1>2
<1>4. \A i \in 1 .. n : i \in 1 .. n + 1
  BY <1>0
<1>5. \A i \in 1 .. n + 1 : i \in S
  <2> HIDE DEF S, n
  <2> QED BY Zenon, <1>0, <1>2, <1>3, <1>4, BackwardInduction
<1> QED BY Zenon, <1>5

(***************************************************************************)
(* For every byte string and every block length, cobs_decode of qr-c gives *)
(* back exactly the string whose COBS encoding it is given.                *)
(***************************************************************************)
THEOREM DecodeUndoesEncoding ==
  ASSUME NEW x \in Seq(Nat)
  PROVE  cobs_decode(Encoding(x)) = {x}
<1> DEFINE e == EncodeFrom(x)[1]
<1>1. Len(x) \in Nat /\ 1 \in 1 .. Len(x) + 1
  OBVIOUS
<1>2. e \in Seq(Nat)
  BY Zenon, <1>1, EncodeUnfold
<1>3. << >> \in Seq(Nat) /\ Len(<< >>) + 1 = 1
  OBVIOUS
<1>4. DecodeFrom(<< >> \o e)[Len(<< >>) + 1] = {SubSeq(x, 1, Len(x))}
  BY Zenon, <1>1, <1>3, DecodeRest
<1>5. << >> \o e = e
  <2> HIDE DEF e
  <2> QED BY <1>2
<1>6. SubSeq(x, 1, Len(x)) = x
  OBVIOUS
<1> QED BY Zenon, <1>3, <1>4, <1>5, <1>6 DEF cobs_decode, Encoding

-----------------------------------------------------------------------------
(* One more block of the encoding.                                         *)

\* The encoding of x goes on after v with the block at place i, and the bytes of
\* w are those of v, the code of that block and the k bytes of its data.
Closes(x, i, k, v, w) ==
  /\ x \in Seq(Nat) /\ i \in 1 .. Len(x) + 1 /\ k = BlockLength(x, i)
  /\ v \in Seq(Nat) /\ w \in Seq(Nat) /\ Len(w) = Len(v) + (k + 1)
  /\ \A m \in 1 .. Len(v) : w[m] = v[m]
  /\ w[Len(v) + 1] = k + 1
  /\ \A m \in 1 .. k : w[Len(v) + (1 + m)] = x[i + m - 1]
  /\ Encoding(x) = v \o EncodeFrom(x)[i]

\* Then it goes on after w with the next block.
LEMMA CloseBlock ==
  ASSUME NEW x, NEW i, NEW k, NEW v, NEW w, Closes(x, i, k, v, w)
  PROVE  Encoding(x) =
           w \o (IF IsLast(x, i) THEN << >> ELSE EncodeFrom(x)[NextBlock(x, i)])
<1> USE DEF Closes
<1> DEFINE c == CodedBlock(x, i)
           r == IF IsLast(x, i) THEN << >> ELSE EncodeFrom(x)[NextBlock(x, i)]
<1>1. /\ k \in Nat /\ c \in Seq(Nat) /\ Len(c) = k + 1 /\ c[1] = k + 1
      /\ \A m \in 1 .. k : c[1 + m] = x[i + m - 1]
  <2> DEFINE b == BlockLength(x, i)
             s == DataOf(x, i)
  <2>1. /\ b \in Nat /\ c \in Seq(Nat) /\ Len(c) = b + 1 /\ c[1] = b + 1
        /\ \A m \in 1 .. b : c[1 + m] = s[m]
        /\ \A m \in 1 .. b : s[m] = x[i + m - 1]
    BY Zenon, CodedBlockBytes
  <2> HIDE DEF b, s, c
  <2>2. k = b
    BY Zenon DEF b
  <2> QED BY Zenon, <2>1, <2>2
<1>2. EncodeFrom(x)[i] = c \o r
  BY Zenon, EncodeUnfold
<1>3. r \in Seq(Nat)
  <2>1. CASE IsLast(x, i)
    BY <2>1
  <2>2. CASE ~ IsLast(x, i)
    <3>1. NextBlock(x, i) \in i + 1 .. Len(x) + 1
      BY Zenon, <2>2, BlockLengthProperties
    <3>2. NextBlock(x, i) \in 1 .. Len(x) + 1
      BY <3>1
    <3> QED BY Zenon, <2>2, <3>2, EncodeUnfold
  <2> QED BY Zenon, <2>1, <2>2
<1> HIDE DEF c, r
<1>4. ASSUME NEW m \in 1 .. Len(c) PROVE w[Len(v) + m] = c[m]
  <2>1. CASE m = 1
    BY Zenon, <1>1, <2>1
  <2>2. CASE m # 1
    <3>1. m - 1 \in 1 .. k /\ m = 1 + (m - 1)
      BY <1>1, <2>2
    <3>2. PICK q \in 1 .. k : m = 1 + q
      BY Zenon, <3>1
    <3> QED BY Zenon, <1>1, <3>2
  <2> QED BY Zenon, <2>1, <2>2
<1>5. v \o c = w
  BY ZenonT(40), <1>1, <1>4, Glue
<1>6. (v \o c) \o r = v \o (c \o r)
  BY ZenonT(40), <1>1, <1>3, Assoc
<1> QED BY Zenon, <1>2, <1>5, <1>6 DEF r

-----------------------------------------------------------------------------
(* Frames of text: the encoding of a string x without zeros, and the       *)
(* delimiter.                                                              *)

IsText(x) == x \in Seq(Nat) /\ \A i \in 1 .. Len(x) : x[i] # 0

FrameOf(x) == Append(Encoding(x), 0)

\* The encoding of text has no zero in it, from whatever place it is made.
LEMMA EncodingText ==
  ASSUME NEW x, IsText(x)
  PROVE  /\ Encoding(x) \in Seq(Nat) /\ Len(Encoding(x)) >= 1
         /\ \A m \in 1 .. Len(Encoding(x)) : Encoding(x)[m] # 0
<1> DEFINE n == Len(x)
           E == EncodeFrom(x)
           rest(i) == IF IsLast(x, i) THEN << >> ELSE E[NextBlock(x, i)]
           S == {i \in 1 .. n + 1 : \A m \in 1 .. Len(E[i]) : E[i][m] # 0}
<1>1. x \in Seq(Nat) /\ \A i \in 1 .. n : x[i] # 0
  BY Zenon DEF IsText
<1>2. n \in Nat /\ 1 \in 1 .. n + 1 /\ n + 1 \in 1 .. n + 1 /\ n = Len(x)
  BY <1>1
<1>3. /\ \A i \in 1 .. n + 1 : E[i] \in Seq(Nat)
      /\ \A i \in 1 .. n + 1 : E[i] = CodedBlock(x, i) \o rest(i)
  BY Zenon, <1>1, EncodeUnfold
<1>4. \A i \in 1 .. n + 1 : IsLast(x, i) \/ NextBlock(x, i) \in i + 1 .. n + 1
  BY Zenon, <1>1, BlockLengthProperties
<1> HIDE DEF n, E
<1>5. ASSUME NEW i \in 1 .. n + 1
      PROVE  LET c == CodedBlock(x, i)
             IN  /\ c \in Seq(Nat) /\ Len(c) >= 1
                 /\ \A m \in 1 .. Len(c) : c[m] # 0
  <2> DEFINE k == BlockLength(x, i)
             c == CodedBlock(x, i)
             s == DataOf(x, i)
  <2>1. /\ k \in Nat /\ i + k <= n + 1 /\ c \in Seq(Nat) /\ Len(c) = k + 1 /\ c[1] = k + 1
        /\ \A m \in 1 .. k : c[1 + m] = s[m]
        /\ \A m \in 1 .. k : s[m] = x[i + m - 1]
    BY Zenon, <1>1, CodedBlockBytes DEF n
  <2> HIDE DEF k, c, s
  <2>2. ASSUME NEW m \in 1 .. Len(c) PROVE c[m] # 0
    <3>1. CASE m = 1
      BY <2>1, <3>1
    <3>2. CASE m # 1
      <4>1. m - 1 \in 1 .. k /\ 1 + (m - 1) = m /\ i + (m - 1) - 1 \in 1 .. n
        BY <1>2, <2>1, <3>2
      <4>2. c[m] = x[i + (m - 1) - 1]
        BY Zenon, <2>1, <4>1
      <4> QED BY Zenon, <1>1, <4>1, <4>2
    <3> QED BY Zenon, <3>1, <3>2
  <2>3. Len(c) >= 1
    BY <2>1
  <2> QED BY Zenon, <2>1, <2>2, <2>3 DEF c
<1>6. ASSUME NEW i \in 1 .. n + 1, NEW r \in Seq(Nat), E[i] = CodedBlock(x, i) \o r,
             \A m \in 1 .. Len(r) : r[m] # 0
      PROVE  i \in S
  <2> DEFINE c == CodedBlock(x, i)
             w == c \o r
  <2>1. c \in Seq(Nat) /\ \A m \in 1 .. Len(c) : c[m] # 0
    BY Zenon, <1>5
  <2>2. /\ Len(w) = Len(c) + Len(r)
        /\ \A m \in 1 .. Len(c) : w[m] = c[m]
        /\ \A m \in 1 .. Len(r) : w[Len(c) + m] = r[m]
    BY Zenon, <2>1, Join
  <2>3. Len(c) \in Nat /\ Len(r) \in Nat
    BY <2>1
  <2>4. E[i] = w
    BY Zenon, <1>6
  <2> HIDE DEF w, c
  <2>5. ASSUME NEW m \in 1 .. Len(w) PROVE w[m] # 0
    <3>1. CASE m \in 1 .. Len(c)
      BY Zenon, <2>1, <2>2, <3>1
    <3>2. CASE m \notin 1 .. Len(c)
      <4>1. m - Len(c) \in 1 .. Len(r) /\ Len(c) + (m - Len(c)) = m
        BY <2>2, <2>3, <3>2
      <4>2. w[m] = r[m - Len(c)]
        BY Zenon, <2>2, <4>1
      <4> QED BY Zenon, <1>6, <4>1, <4>2
    <3> QED BY Zenon, <3>1, <3>2
  <2> QED BY Zenon, <2>4, <2>5
<1>7. ASSUME NEW i \in 1 .. n + 1, IsLast(x, i) PROVE i \in S
  <2>1. E[i] = CodedBlock(x, i) \o << >>
    BY Zenon, <1>3, <1>7
  <2>2. << >> \in Seq(Nat) /\ \A m \in 1 .. Len(<< >>) : << >>[m] # 0
    OBVIOUS
  <2> HIDE DEF S
  <2> QED BY Zenon, <1>6, <2>1, <2>2
<1>8. n + 1 \in S
  <2>1. NextBlock(x, n + 1) \notin n + 1 + 1 .. n + 1
    BY <1>2
  <2> HIDE DEF S
  <2> QED BY Zenon, <1>2, <1>4, <1>7, <2>1
<1>9. ASSUME NEW i \in 1 .. n, \A j \in i + 1 .. n + 1 : j \in S PROVE i \in S
  <2>1. i \in 1 .. n + 1
    BY <1>2
  <2>2. CASE IsLast(x, i)
    <3> HIDE DEF S
    <3> QED BY Zenon, <1>7, <2>1, <2>2
  <2>3. CASE ~ IsLast(x, i)
    <3> DEFINE r == E[NextBlock(x, i)]
    <3>1. NextBlock(x, i) \in S
      <4> HIDE DEF S
      <4> QED BY Zenon, <1>4, <1>9, <2>1, <2>3
    <3>2. r \in Seq(Nat) /\ \A m \in 1 .. Len(r) : r[m] # 0
      BY Zenon, <1>3, <3>1
    <3>3. E[i] = CodedBlock(x, i) \o r
      BY Zenon, <1>3, <2>1, <2>3
    <3> HIDE DEF S, r
    <3> QED BY Zenon, <1>6, <2>1, <3>2, <3>3
  <2> QED BY Zenon, <2>2, <2>3
<1>10. 1 \in S
  <2> HIDE DEF S
  <2>1. \A i \in 1 .. n + 1 : i \in S
    BY Zenon, <1>2, <1>8, <1>9, BackwardInduction
  <2> QED BY Zenon, <1>2, <2>1
<1>11. Encoding(x) = E[1]
  BY Zenon DEF Encoding, E
<1>12. Len(E[1]) >= 1
  <2> DEFINE c == CodedBlock(x, 1)
             r == rest(1)
  <2>1. c \in Seq(Nat) /\ Len(c) >= 1 /\ E[1] = c \o r
    BY Zenon, <1>2, <1>3, <1>5
  <2>2. r \in Seq(Nat)
    <3>1. << >> \in Seq(Nat) /\ \A j \in 1 + 1 .. n + 1 : j \in 1 .. n + 1
      BY <1>2
    <3>2. CASE IsLast(x, 1)
      BY Zenon, <3>1, <3>2
    <3>3. CASE ~ IsLast(x, 1)
      <4>1. NextBlock(x, 1) \in 1 .. n + 1
        BY Zenon, <1>2, <1>4, <3>1, <3>3
      <4> QED BY Zenon, <1>3, <3>3, <4>1
    <3> QED BY Zenon, <3>2, <3>3
  <2> HIDE DEF c, r
  <2>3. Len(c \o r) = Len(c) + Len(r)
    BY Zenon, <2>1, <2>2, Join
  <2>4. Len(E[1]) = Len(c) + Len(r)
    BY Zenon, <2>1, <2>3
  <2> QED BY <2>1, <2>2, <2>4
<1> QED BY Zenon, <1>2, <1>3, <1>10, <1>11, <1>12

LEMMA FrameText ==
  ASSUME NEW x, IsText(x)
  PROVE  /\ FrameOf(x) \in Seq(Nat) /\ Len(FrameOf(x)) = Len(Encoding(x)) + 1
         /\ FrameOf(x)[Len(FrameOf(x))] = 0
         /\ \A m \in 1 .. Len(Encoding(x)) : FrameOf(x)[m] = Encoding(x)[m]
         /\ \A m \in 1 .. Len(Encoding(x)) : FrameOf(x)[m] # 0
<1> DEFINE c == Encoding(x)
<1>1. c \in Seq(Nat) /\ \A m \in 1 .. Len(c) : c[m] # 0
  BY Zenon, EncodingText
<1>2. FrameOf(x) = Append(c, 0)
  BY Zenon DEF FrameOf
<1> HIDE DEF c
<1>3. /\ Append(c, 0) \in Seq(Nat) /\ Len(Append(c, 0)) = Len(c) + 1
      /\ Append(c, 0)[Len(c) + 1] = 0
      /\ \A m \in 1 .. Len(c) : Append(c, 0)[m] = c[m]
  BY <1>1
<1> QED BY Zenon, <1>1, <1>2, <1>3 DEF c

LEMMA FrameBytes ==
  ASSUME NEW x, IsShort(x)
  PROVE  /\ Encoding(x) \in Seq(Nat) /\ Len(Encoding(x)) = Len(x) + 1
         /\ FrameOf(x) \in Seq(Nat) /\ Len(FrameOf(x)) = Len(x) + 2
         /\ FrameOf(x)[Len(FrameOf(x))] = 0
         /\ \A m \in 1 .. Len(x) + 1 : FrameOf(x)[m] = Encoding(x)[m]
         /\ \A m \in 1 .. Len(x) + 1 : FrameOf(x)[m] \in Nat \ {0}
         /\ \A m \in 2 .. Len(x) + 1 : FrameOf(x)[m] > Len(x) + 1
<1> DEFINE n == Len(x)
           c == CodedBlock(x, 1)
<1>1. x \in Seq(Nat) /\ \A i \in 1 .. n : x[i] \in n + 2 .. Full
  BY Zenon DEF IsShort
<1>2. n \in Nat /\ 1 \in 1 .. n + 1 /\ n = Len(x)
  BY <1>1
<1> HIDE DEF n
<1>3. n <= Full - 2
  <2>1. CASE n = 0
    BY <2>1, FullAssumption
  <2>2. CASE n # 0
    <3>1. 1 \in 1 .. n
      BY <1>2, <2>2
    <3>2. x[1] \in n + 2 .. Full
      BY <1>1, <3>1
    <3> QED BY <1>2, <3>2, FullAssumption
  <2> QED BY <2>1, <2>2
<1>4. BlockLength(x, 1) = n
  <2>1. /\ n \in 0 .. BlockMax /\ 1 + n <= Len(x) + 1 /\ 1 + n = Len(x) + 1
        /\ 1 \in 1 .. Len(x) + 1
    BY <1>2, <1>3, FullAssumption DEF BlockMax
  <2>2. \A m \in 1 .. 1 + n - 1 : x[m] # 0
    <3> SUFFICES ASSUME NEW m \in 1 .. 1 + n - 1 PROVE x[m] # 0
      OBVIOUS
    <3>1. m \in 1 .. n
      BY <1>2
    <3>2. x[m] \in n + 2 .. Full
      BY <1>1, <3>1
    <3> QED BY <1>2, <3>2
  <2> QED BY Zenon, <1>1, <2>1, <2>2, BlockLengthIs
<1>5. IsLast(x, 1)
  BY <1>2, <1>3, <1>4, FullAssumption DEF IsLast, BlockMax
<1>6. /\ c \in Seq(Nat) /\ Len(c) = n + 1 /\ c[1] = n + 1
      /\ \A m \in 1 .. n : c[1 + m] = x[m]
  <2>0. 1 \in 1 .. Len(x) + 1
    BY <1>2
  <2>1. /\ c \in Seq(Nat) /\ Len(c) = n + 1 /\ c[1] = n + 1
        /\ \A m \in 1 .. n : c[1 + m] = DataOf(x, 1)[m]
        /\ \A m \in 1 .. n : DataOf(x, 1)[m] = x[1 + m - 1]
    BY Zenon, <1>1, <1>4, <2>0, CodedBlockBytes
  <2>2. \A m \in 1 .. n : 1 + m - 1 = m
    BY <1>2
  <2> QED BY Zenon, <2>1, <2>2
<1>7. Encoding(x) = c
  <2>0. 1 \in 1 .. Len(x) + 1
    BY <1>2
  <2>1. Encoding(x) = c \o << >>
    BY Zenon, <1>1, <1>5, <2>0, EncodeUnfold DEF Encoding
  <2> HIDE DEF c
  <2> QED BY <1>6, <2>1
<1> HIDE DEF c
<1>8. FrameOf(x) = Append(c, 0)
  BY Zenon, <1>7 DEF FrameOf
<1>9. /\ FrameOf(x) \in Seq(Nat) /\ Len(FrameOf(x)) = n + 2 /\ FrameOf(x)[n + 2] = 0
      /\ \A m \in 1 .. n + 1 : FrameOf(x)[m] = c[m]
  BY <1>2, <1>6, <1>8
<1>10. \A m \in 2 .. n + 1 : FrameOf(x)[m] \in Nat /\ FrameOf(x)[m] > n + 1
  <2> SUFFICES ASSUME NEW m \in 2 .. n + 1 PROVE FrameOf(x)[m] \in Nat /\ FrameOf(x)[m] > n + 1
    BY Zenon
  <2>1. m - 1 \in 1 .. n /\ 1 + (m - 1) = m /\ m \in 1 .. n + 1
    BY <1>2
  <2>2. FrameOf(x)[m] = x[m - 1]
    BY Zenon, <1>6, <1>9, <2>1
  <2>3. x[m - 1] \in n + 2 .. Full
    BY Zenon, <1>1, <2>1
  <2> QED BY <1>2, <2>2, <2>3, FullAssumption
<1>11. \A m \in 1 .. n + 1 : FrameOf(x)[m] \in Nat \ {0}
  <2> SUFFICES ASSUME NEW m \in 1 .. n + 1 PROVE FrameOf(x)[m] \in Nat \ {0}
    BY Zenon
  <2>1. CASE m = 1
    BY <1>2, <1>6, <1>9, <2>1
  <2>2. CASE m # 1
    <3>1. m \in 2 .. n + 1
      BY <1>2, <2>2
    <3>2. FrameOf(x)[m] \in Nat /\ FrameOf(x)[m] > n + 1
      BY Zenon, <1>10, <3>1
    <3> QED BY <1>2, <3>2
  <2> QED BY Zenon, <2>1, <2>2
<1> QED BY Zenon, <1>1, <1>6, <1>7, <1>9, <1>10, <1>11 DEF n

\* s ends a frame f in front of its delimiter.
EndOf(f, s) ==
  Len(s) < Len(f) /\ \A k \in 1 .. Len(s) : s[k] = f[Len(f) - (Len(s) + 1 - k)]

\* Such an end is the encoding from one of its bytes on.
LEMMA EndIsPart ==
  ASSUME NEW x, IsText(x), NEW s \in Seq(Nat), s # << >>, EndOf(FrameOf(x), s)
  PROVE  \E k \in 1 .. Len(Encoding(x)) : s = SubSeq(Encoding(x), k, Len(Encoding(x)))
<1> DEFINE c == Encoding(x)
           a == Len(FrameOf(x))
           b == Len(c)
           q == Len(s)
           k == b + 1 - q
           w == SubSeq(c, k, b)
<1>1. /\ c \in Seq(Nat) /\ Len(FrameOf(x)) = b + 1
      /\ \A m \in 1 .. b : FrameOf(x)[m] = c[m]
  BY Zenon, EncodingText, FrameText
<1>2. b \in Nat /\ q \in Nat /\ q >= 1
  <2>1. q \in Nat /\ q >= 1
    OBVIOUS
  <2> HIDE DEF c
  <2>2. b \in Nat
    BY <1>1
  <2> QED BY Zenon, <2>1, <2>2
<1>3. a = b + 1 /\ q < a /\ \A m \in 1 .. q : s[m] = FrameOf(x)[a - (q + 1 - m)]
  BY Zenon, <1>1 DEF EndOf
<1> HIDE DEF a, b, c, q
<1>4. k \in 1 .. b /\ k \in Nat /\ k >= 1 /\ k <= b + 1 /\ b <= b /\ b + 1 - k = q
  BY <1>2, <1>3
<1>5. w \in Seq(Nat) /\ Len(w) = b + 1 - k /\ \A m \in 1 .. b + 1 - k : w[m] = c[k + m - 1]
  <2> HIDE DEF k
  <2> QED BY Zenon, <1>1, <1>2, <1>4, Part DEF b
<1>6. ASSUME NEW m \in 1 .. q PROVE s[m] = w[m]
  <2>1. /\ a - (q + 1 - m) = k + m - 1 /\ k + m - 1 \in 1 .. b
        /\ m \in 1 .. b + 1 - k
    BY <1>2, <1>3, <1>4
  <2> HIDE DEF k, w
  <2> QED BY Zenon, <1>1, <1>3, <1>5, <2>1
<1>7. Len(w) = q
  BY Zenon, <1>4, <1>5
<1> HIDE DEF w, k
<1>8. s = w
  BY Zenon, <1>5, <1>6, <1>7, SameBytes DEF q
<1> QED BY Zenon, <1>4, <1>8 DEF w, b, c

\* cobs_decode has at most one result, a byte string.
LEMMA DecodesToOne ==
  ASSUME NEW x \in Seq(Nat)
  PROVE  cobs_decode(x) \subseteq Seq(Nat) /\ \A a, b \in cobs_decode(x) : a = b
<1> DEFINE n == Len(x)
           D == DecodeFrom(x)
           S == {i \in 1 .. n + 1 : \A a, b \in D[i] : a = b}
<1>1. n \in Nat /\ n + 1 \in 1 .. n + 1 /\ 1 \in 1 .. n + 1 /\ \A i \in 1 .. n : x[i] \in Nat
  OBVIOUS
<1>2. /\ \A i \in 1 .. n + 1 : D[i] \subseteq Seq(Nat)
      /\ D[n + 1] = {<< >>}
      /\ \A i \in 1 .. n :
           D[i] = IF Acceptable(x, i) THEN {DecodedBlock(x, i) \o r : r \in D[i + x[i]]} ELSE {}
  BY Zenon, DecodeUnfold
<1> HIDE DEF D
<1>3. n + 1 \in S
  BY Zenon, <1>1, <1>2
<1>4. ASSUME NEW i \in 1 .. n, \A j \in i + 1 .. n + 1 : j \in S PROVE i \in S
  <2>0. i \in 1 .. n + 1
    BY <1>1
  <2>1. CASE Acceptable(x, i)
    <3>1. i + x[i] \in i + 1 .. n + 1
      BY <1>1, <2>1 DEF Acceptable
    <3>2. \A a, b \in D[i + x[i]] : a = b
      BY Zenon, <1>4, <3>1
    <3>3. D[i] = {DecodedBlock(x, i) \o r : r \in D[i + x[i]]}
      BY Zenon, <1>2, <2>1
    <3>4. \A a, b \in D[i] : a = b
      BY Zenon, <3>2, <3>3
    <3> QED BY Zenon, <2>0, <3>4
  <2>2. CASE ~ Acceptable(x, i)
    <3>1. D[i] = {}
      BY Zenon, <1>2, <2>2
    <3> QED BY Zenon, <2>0, <3>1
  <2> QED BY Zenon, <2>1, <2>2
<1>5. 1 \in S
  <2> HIDE DEF S, n
  <2>1. \A i \in 1 .. n + 1 : i \in S
    BY Zenon, <1>1, <1>3, <1>4, BackwardInduction
  <2> QED BY Zenon, <1>1, <2>1
<1>6. cobs_decode(x) = D[1]
  BY Zenon DEF cobs_decode, D
<1> QED BY Zenon, <1>1, <1>2, <1>5, <1>6

\* What cobs_decode makes of the end of the frame of a short text: the text when
\* it is all of the frame, and nothing otherwise.
LEMMA EndDecodes ==
  ASSUME NEW x, IsShort(x), NEW s \in Seq(Nat), s # << >>, EndOf(FrameOf(x), s)
  PROVE  cobs_decode(s) \subseteq {x}
<1> DEFINE n == Len(x)
           q == Len(s)
<1>1. /\ x \in Seq(Nat) /\ Encoding(x) \in Seq(Nat)
      /\ Len(Encoding(x)) = n + 1 /\ Len(FrameOf(x)) = n + 2
      /\ \A m \in 1 .. n + 1 : FrameOf(x)[m] = Encoding(x)[m]
      /\ \A m \in 2 .. n + 1 : FrameOf(x)[m] > n + 1
  BY Zenon, FrameBytes DEF IsShort
<1>2. n \in Nat /\ q \in Nat /\ q >= 1
  BY <1>1
<1>3. q <= n + 1
  BY <1>1, <1>2 DEF EndOf
<1>4. \A k \in 1 .. q : s[k] = FrameOf(x)[n + 1 - q + k]
  <2> SUFFICES ASSUME NEW k \in 1 .. q PROVE s[k] = FrameOf(x)[n + 1 - q + k]
    BY Zenon
  <2>1. s[k] = FrameOf(x)[Len(FrameOf(x)) - (Len(s) + 1 - k)]
    BY Zenon DEF EndOf
  <2>2. Len(FrameOf(x)) - (Len(s) + 1 - k) = n + 1 - q + k
    BY <1>1, <1>2
  <2> QED BY Zenon, <2>1, <2>2
<1> HIDE DEF n, q
<1>5. CASE q = n + 1
  <2>1. \A m \in 1 .. n + 1 : s[m] = Encoding(x)[m]
    <3> SUFFICES ASSUME NEW m \in 1 .. n + 1 PROVE s[m] = Encoding(x)[m]
      BY Zenon
    <3>1. n + 1 - q + m = m /\ m \in 1 .. q
      BY <1>2, <1>5
    <3> QED BY Zenon, <1>1, <1>4, <3>1
  <2>2. Len(s) = Len(Encoding(x))
    BY Zenon, <1>1, <1>5 DEF q
  <2>3. s = Encoding(x)
    BY Zenon, <1>1, <2>1, <2>2, SameBytes
  <2> QED BY Zenon, <1>1, <2>3, DecodeUndoesEncoding
<1>6. CASE q # n + 1
  <2>1. 1 \in 1 .. q /\ n + 1 - q + 1 \in 2 .. n + 1
    BY <1>2, <1>3, <1>6
  <2>2. s[1] > n + 1
    BY Zenon, <1>1, <1>4, <2>1
  <2>3. s[1] \in Nat
    BY <2>1 DEF q
  <2>4. ~(1 + s[1] <= q + 1)
    BY <1>2, <1>3, <1>6, <2>2, <2>3
  <2>5. ~Acceptable(s, 1)
    BY Zenon, <2>4 DEF Acceptable, q
  <2>6. 1 \in 1 .. Len(s)
    BY Zenon, <2>1 DEF q
  <2>7. cobs_decode(s) = {}
    BY Zenon, <2>5, <2>6, DecodeUnfold DEF cobs_decode
  <2> QED BY Zenon, <2>7
<1> QED BY Zenon, <1>5, <1>6

\* A whole frame is added at the end.
LEMMA FramesFollow ==
  ASSUME NEW f \in Seq(Nat), Len(f) # 0, NEW s \in Seq(Nat), OnlyFrames(f, s)
  PROVE  OnlyFrames(f, s \o f)
<1> DEFINE w == s \o f
           a == Len(s)
           b == Len(f)
<1>1. /\ w \in Seq(Nat) /\ Len(w) = a + b
      /\ \A m \in 1 .. a : w[m] = s[m]
      /\ \A m \in 1 .. b : w[a + m] = f[m]
  BY Zenon, Join
<1>2. a \in Nat /\ b \in Nat /\ b >= 1
  OBVIOUS
<1> HIDE DEF w
<1> SUFFICES ASSUME NEW i \in 1 .. Len(w)
             PROVE  \E e \in i .. Len(w) :
                      e - i < b /\ \A k \in i .. e : w[k] = f[b - (e - k)]
  BY Zenon DEF OnlyFrames, w
<1> HIDE DEF a, b
<1>3. CASE i <= a
  <2>1. i \in 1 .. a
    BY <1>1, <1>2, <1>3
  <2>2. PICK e \in i .. a : e - i < b /\ \A k \in i .. e : s[k] = f[b - (e - k)]
    BY Zenon, <2>1 DEF OnlyFrames, a, b
  <2>3. e \in i .. Len(w) /\ \A k \in i .. e : k \in 1 .. a
    BY <1>1, <1>2, <2>1
  <2>4. \A k \in i .. e : w[k] = f[b - (e - k)]
    BY Zenon, <1>1, <2>2, <2>3
  <2> QED BY Zenon, <2>2, <2>3, <2>4
<1>4. CASE i > a
  <2> DEFINE e == Len(w)
  <2>1. e \in i .. Len(w) /\ e - i < b
    BY <1>1, <1>2, <1>4
  <2>2. ASSUME NEW k \in i .. e PROVE w[k] = f[b - (e - k)]
    <3>1. k - a \in 1 .. b /\ a + (k - a) = k /\ b - (e - k) = k - a
      BY <1>1, <1>2, <1>4
    <3> QED BY Zenon, <1>1, <3>1
  <2> HIDE DEF e
  <2> QED BY Zenon, <2>1, <2>2
<1>5. i <= a \/ i > a
  BY <1>2
<1> QED BY Zenon, <1>3, <1>4, <1>5

\* Bytes are taken from the front.
LEMMA FramesRemain ==
  ASSUME NEW f, NEW s \in Seq(Nat), NEW n \in 0 .. Len(s), OnlyFrames(f, s)
  PROVE  OnlyFrames(f, SubSeq(s, n + 1, Len(s)))
<1> DEFINE w == SubSeq(s, n + 1, Len(s))
           a == Len(s)
<1>1. a \in Nat /\ n \in Nat /\ n <= a /\ n + 1 \in Nat /\ n + 1 >= 1 /\ n + 1 <= a + 1
      /\ a <= Len(s)
  OBVIOUS
<1>2. Len(w) = a + 1 - (n + 1) /\ \A m \in 1 .. a + 1 - (n + 1) : w[m] = s[n + 1 + m - 1]
  BY Zenon, <1>1, Part
<1>3. Len(w) = a - n /\ \A m \in 1 .. a - n : w[m] = s[n + m]
  <2>1. a + 1 - (n + 1) = a - n
    BY <1>1
  <2>2. \A m \in 1 .. a - n : n + 1 + m - 1 = n + m
    BY <1>1
  <2> QED BY Zenon, <1>2, <2>1, <2>2
<1> HIDE DEF w
<1> SUFFICES ASSUME NEW i \in 1 .. Len(w)
             PROVE  \E e \in i .. Len(w) :
                      e - i < Len(f) /\ \A k \in i .. e : w[k] = f[Len(f) - (e - k)]
  BY Zenon DEF OnlyFrames, w
<1>4. i \in 1 .. a - n /\ n + i \in 1 .. a
  BY <1>1, <1>3
<1>5. PICK e \in n + i .. a :
        e - (n + i) < Len(f) /\ \A k \in n + i .. e : s[k] = f[Len(f) - (e - k)]
  BY Zenon, <1>4 DEF OnlyFrames
<1> DEFINE d == e - n
<1>6. d \in i .. Len(w) /\ d - i = e - (n + i)
  BY <1>1, <1>3, <1>4
<1>7. ASSUME NEW k \in i .. d PROVE w[k] = f[Len(f) - (d - k)]
  <2>1. k \in 1 .. a - n /\ n + k \in n + i .. e /\ d - k = e - (n + k)
    BY <1>1, <1>4
  <2> QED BY Zenon, <1>3, <1>5, <2>1
<1> HIDE DEF d
<1>8. d - i < Len(f)
  BY Zenon, <1>5, <1>6
<1> QED BY Zenon, <1>6, <1>7, <1>8

LEMMA NoBytes == \A f : OnlyFrames(f, << >>)
BY DEF OnlyFrames

\* q is what s holds in front of its first delimiter.
UpToZero(s, q) ==
  /\ s \in Seq(Nat) /\ q \in Seq(Nat) /\ Len(q) < Len(s) /\ s[Len(q) + 1] = 0
  /\ \A k \in 1 .. Len(q) : q[k] = s[k] /\ q[k] # 0

\* The bytes in front of the first delimiter are the end of a frame.
LEMMA UpToDelimiter ==
  ASSUME NEW x, IsText(x), NEW s, NEW q, OnlyFrames(FrameOf(x), s), UpToZero(s, q)
  PROVE  EndOf(FrameOf(x), q)
<1> USE DEF UpToZero
<1> DEFINE b == Len(FrameOf(x))
           a == Len(q)
<1>1. /\ b \in Nat /\ b >= 2 /\ FrameOf(x)[b] = 0
      /\ \A m \in 1 .. b - 1 : FrameOf(x)[m] # 0
  <2> DEFINE c == Encoding(x)
  <2>1. /\ c \in Seq(Nat) /\ Len(c) >= 1 /\ b = Len(c) + 1 /\ FrameOf(x)[b] = 0
        /\ \A m \in 1 .. Len(c) : FrameOf(x)[m] # 0
    BY Zenon, EncodingText, FrameText
  <2> HIDE DEF c, b
  <2>2. b \in Nat /\ b >= 2 /\ b - 1 = Len(c)
    BY <2>1
  <2> QED BY Zenon, <2>1, <2>2
<1>2. a \in Nat /\ Len(s) \in Nat /\ 1 \in 1 .. Len(s)
  OBVIOUS
<1>3. PICK e \in 1 .. Len(s) : e - 1 < b /\ \A k \in 1 .. e : s[k] = FrameOf(x)[b - (e - k)]
  BY Zenon, <1>2 DEF OnlyFrames
<1> HIDE DEF a, b
<1>4. e > a
  <2> SUFFICES ASSUME e \in 1 .. a PROVE FALSE
    BY <1>2
  <2>1. e \in 1 .. e /\ b - (e - e) = b
    BY <1>1
  <2>2. s[e] = 0
    BY Zenon, <1>1, <1>3, <2>1
  <2> QED BY Zenon, <2>2 DEF a
<1>5. ~(e > a + 1)
  <2> SUFFICES ASSUME e > a + 1 PROVE FALSE
    BY Zenon
  <2> DEFINE m == b - (e - (a + 1))
  <2>1. a + 1 \in 1 .. e /\ m \in 1 .. b - 1
    BY <1>1, <1>2, <1>3
  <2>2. s[a + 1] = FrameOf(x)[m]
    BY Zenon, <1>3, <2>1
  <2> HIDE DEF m
  <2>3. FrameOf(x)[m] # 0
    BY Zenon, <1>1, <2>1
  <2>4. s[a + 1] = 0
    BY Zenon DEF a
  <2> QED BY Zenon, <2>2, <2>3, <2>4
<1>6. e = a + 1
  BY <1>2, <1>4, <1>5
<1>7. a < b
  BY <1>1, <1>2, <1>3, <1>6
<1>8. ASSUME NEW k \in 1 .. a PROVE q[k] = FrameOf(x)[b - (a + 1 - k)]
  <2>1. k \in 1 .. e /\ b - (e - k) = b - (a + 1 - k)
    BY <1>2, <1>6
  <2>2. s[k] = FrameOf(x)[b - (a + 1 - k)]
    BY Zenon, <1>3, <2>1
  <2>3. q[k] = s[k]
    BY Zenon DEF a
  <2> QED BY Zenon, <2>2, <2>3
<1> QED BY Zenon, <1>7, <1>8 DEF EndOf, a, b

LEMMA WholeString ==
  ASSUME NEW x \in Seq(Nat)
  PROVE  SubSeq(x, 1, Len(x)) = x
<1> DEFINE w == SubSeq(x, 1, Len(x))
           n == Len(x)
<1>1. 1 \in Nat /\ n \in Nat /\ 1 >= 1 /\ n <= Len(x) /\ 1 <= n + 1 /\ n + 1 - 1 = n
  OBVIOUS
<1>2. /\ w \in Seq(Nat) /\ Len(w) = n + 1 - 1
      /\ \A m \in 1 .. n + 1 - 1 : w[m] = x[1 + m - 1]
  BY Zenon, <1>1, Part
<1>3. \A m \in 1 .. n : 1 + m - 1 = m /\ m \in 1 .. n + 1 - 1
  BY <1>1
<1> HIDE DEF w
<1>4. Len(w) = Len(x) /\ \A m \in 1 .. Len(x) : w[m] = x[m]
  BY Zenon, <1>1, <1>2, <1>3
<1>5. w = x
  BY Zenon, <1>2, <1>4, SameBytes
<1> QED BY Zenon, <1>5 DEF w

\* Bytes of x without a delimiter, added to such bytes.
LEMMA Collected ==
  ASSUME NEW p \in Seq(Nat), NEW x \in Seq(Nat), NEW v \in Seq(Nat), Len(v) <= Len(x),
         \A m \in 1 .. Len(v) : v[m] = x[m] /\ v[m] # 0,
         \A m \in 1 .. Len(p) : p[m] # 0
  PROVE  /\ p \o v \in Seq(Nat) /\ Len(p \o v) = Len(p) + Len(v)
         /\ \A k \in 1 .. Len(p \o v) : (p \o v)[k] = (p \o x)[k] /\ (p \o v)[k] # 0
<1> DEFINE e == p \o v
           s == p \o x
           a == Len(p)
<1>1. /\ e \in Seq(Nat) /\ Len(e) = a + Len(v)
      /\ \A m \in 1 .. a : e[m] = p[m]
      /\ \A m \in 1 .. Len(v) : e[a + m] = v[m]
  BY Zenon, Join
<1>2. /\ \A m \in 1 .. a : s[m] = p[m]
      /\ \A m \in 1 .. Len(x) : s[a + m] = x[m]
  BY Zenon, Join
<1>3. a \in Nat /\ Len(v) \in Nat /\ Len(x) \in Nat
  OBVIOUS
<1> HIDE DEF e, s
<1>4. ASSUME NEW k \in 1 .. Len(e) PROVE e[k] = s[k] /\ e[k] # 0
  <2>1. CASE k \in 1 .. a
    BY Zenon, <1>1, <1>2, <2>1
  <2>2. CASE k \notin 1 .. a
    <3>1. k - a \in 1 .. Len(v) /\ k - a \in 1 .. Len(x) /\ a + (k - a) = k
      BY <1>1, <1>3, <2>2
    <3>2. e[k] = v[k - a] /\ s[k] = x[k - a]
      BY Zenon, <1>1, <1>2, <3>1
    <3> QED BY Zenon, <3>1, <3>2
  <2> QED BY Zenon, <2>1, <2>2
<1> QED BY Zenon, <1>1, <1>4 DEF e, s

=============================================================================
