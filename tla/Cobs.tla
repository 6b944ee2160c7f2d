-------------------------------- MODULE Cobs --------------------------------
(***************************************************************************)
(* The COBS framing of the serial line: cobs_decode of qr-c (JobRunner.cpp)*)
(* and, as the reference for cobs_encode of the device (fake_serial.c),    *)
(* the encoding it computes.  Full is 0xFF, the code of a block of 254     *)
(* data bytes that is not followed by a zero.                              *)
(***************************************************************************)
EXTENDS Integers, Sequences

CONSTANT Full

ASSUME FullAssumption == Full \in Nat /\ Full >= 2

\* The most data bytes a block holds.
BlockMax == Full - 1

\* The test of cobs_decode at place i: the code is not zero and its block ends
\* inside the input.
Acceptable(input, i) == input[i] # 0 /\ i + input[i] <= Len(input) + 1

BlockTrailingZero(input, i) ==
  SubSeq(input, i + 1, i + input[i] - 1)
    \o (IF input[i] # Full THEN <<0>> ELSE << >>)

\* What it adds to the output there: the bytes of the block, and the zero the
\* block stands for unless it is full or the last.
DecodedBlock(input, i) ==
  SubSeq(input, i + 1, i + input[i] - 1)
    \o (IF input[i] # Full /\ i + input[i] <= Len(input) THEN <<0>> ELSE << >>)

DecodeUnchecked(input) ==
  LET n == Len(input)
      from[i \in 1 .. n + 1] ==
        IF i = n + 1 THEN {<< >>}
        ELSE LET next == IF i + input[i] > n + 1 THEN n + 1 ELSE i + input[i]
             IN  IF input[i] = 0 THEN {}
                 ELSE {SubSeq(input, i + 1, next - 1)
                         \o (IF input[i] # Full /\ next <= n THEN <<0>> ELSE << >>)
                         \o rest : rest \in from[next]}
  IN  from

\* The loop of cobs_decode from each place of the input: what it still adds to
\* the output, or nothing where it returns false.
DecodeFrom(input) ==
  LET from[i \in 1 .. Len(input) + 1] ==
        IF i = Len(input) + 1 THEN {<< >>}
        ELSE IF Acceptable(input, i)
        THEN {DecodedBlock(input, i) \o rest : rest \in from[i + input[i]]}
        ELSE {}
  IN  from

cobs_decode(input) == DecodeFrom(input)[1]

\* The length of the block of data bytes that starts at place i: it ends at a
\* zero, at the end of the input or when it is full.
BlockLength(input, i) ==
  CHOOSE k \in 0 .. BlockMax :
    /\ i + k <= Len(input) + 1
    /\ \A m \in i .. i + k - 1 : input[m] # 0
    /\ k = BlockMax \/ i + k = Len(input) + 1 \/ input[i + k] = 0

DataOf(input, i) == SubSeq(input, i, i + BlockLength(input, i) - 1)

\* A full block stands for no zero, and another always follows it.
IsLast(input, i) ==
  BlockLength(input, i) # BlockMax /\ i + BlockLength(input, i) = Len(input) + 1

NextBlock(input, i) ==
  i + BlockLength(input, i) + (IF BlockLength(input, i) = BlockMax THEN 0 ELSE 1)

\* The encoding of the rest of a byte string, from each place of it: the blocks,
\* each after its code.
EncodeFrom(input) ==
  LET from[i \in 1 .. Len(input) + 1] ==
        <<BlockLength(input, i) + 1>> \o DataOf(input, i) \o
          (IF IsLast(input, i) THEN << >> ELSE from[NextBlock(input, i)])
  IN  from

Encoding(input) == EncodeFrom(input)[1]

\* Text so short that each of its bytes, taken for a code, would point past the
\* end of the frame the text is sent in.
IsShort(x) == x \in Seq(Nat) /\ \A i \in 1 .. Len(x) : x[i] \in Len(x) + 2 .. Full

\* From every place of s the rest of a frame f follows, up to its last byte.
OnlyFrames(f, s) ==
  \A i \in 1 .. Len(s) : \E e \in i .. Len(s) :
    /\ e - i < Len(f)
    /\ \A k \in i .. e : s[k] = f[Len(f) - (e - k)]

=============================================================================
