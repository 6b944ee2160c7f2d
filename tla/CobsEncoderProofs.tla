-------------------------- MODULE CobsEncoderProofs -------------------------
(***************************************************************************)
(* Proofs about the encoder of fake_serial.c for every block length, every *)
(* set of inputs and every buffer size: it stays inside its buffer, the    *)
(* room main() tests for suffices, and its output holds no delimiter.      *)
(***************************************************************************)
EXTENDS CobsEncoder, CobsProofs

-----------------------------------------------------------------------------
(* Arithmetic.                                                             *)

\* A quotient is at least every k whose multiple still fits.
LEMMA DivBound ==
  ASSUME NEW b \in Nat, b >= 1, NEW n \in Nat, NEW k \in Nat, b * k <= n
  PROVE  k <= n \div b
<1> DEFINE q == n \div b
<1>1. q \in Nat /\ n < b * q + b
  OBVIOUS
<1>2. ASSUME k >= q + 1 PROVE FALSE
  <2>1. PICK d \in Nat : k = q + 1 + d
    <3>1. k - q - 1 \in Nat /\ k = q + 1 + (k - q - 1)
      BY <1>1, <1>2
    <3> QED BY <3>1
  <2>2. b * k = b * q + b + b * d
    BY <1>1, <2>1
  <2>3. b * d >= 0
    OBVIOUS
  <2> HIDE DEF q
  <2>4. b * q \in Nat /\ b * d \in Nat /\ b * k \in Nat
    BY <1>1
  <2> QED BY <1>1, <2>2, <2>3, <2>4
<1> QED BY <1>1, <1>2

\* The bytes written so far exceed the bytes read by one for each full block,
\* and by the place of the first code.
LEMMA WriteBound ==
  ASSUME TypeOK, EncoderInv
  PROVE  write_index < Needed(Len(in))
<1> DEFINE k == write_index - read_index - 1
           n == Len(in)
<1>1. n \in Nat /\ read_index \in Nat /\ read_index <= n
  BY InputAssumption DEF TypeOK
<1>2. BlockMax \in Nat /\ BlockMax >= 1
  BY FullAssumption DEF BlockMax
<1>3. k \in Nat /\ write_index \in Nat
  BY <1>1 DEF TypeOK, EncoderInv
<1>4. BlockMax * k <= n
  <2>1. BlockMax * k + code - 1 <= read_index /\ code \in Nat /\ code >= 1
    BY <1>2 DEF TypeOK, EncoderInv
  <2>2. BlockMax * k \in Nat
    BY <1>2, <1>3
  <2> QED BY <1>1, <2>1, <2>2
<1>5. k <= n \div BlockMax
  BY Zenon, <1>1, <1>2, <1>3, <1>4, DivBound
<1>6. n \div BlockMax \in Nat
  BY <1>1, <1>2
<1> QED BY <1>1, <1>3, <1>5, <1>6 DEF Needed

-----------------------------------------------------------------------------
(* The invariant.                                                          *)

LEMMA InitInv == Init => TypeOK /\ EncoderInv
<1> SUFFICES ASSUME Init PROVE TypeOK /\ EncoderInv
  OBVIOUS
<1>1. BlockMax \in Nat /\ BlockMax >= 1
  BY FullAssumption DEF BlockMax
<1>2. Len(in) \in Nat
  BY InputAssumption DEF Init
<1>3. DOMAIN out = {}
  BY DEF Init
<1>4. BlockMax * 0 = 0
  BY <1>1
<1>5. TypeOK
  BY <1>1, <1>2, <1>3 DEF Init, TypeOK
<1>6. EncoderInv
  BY <1>1, <1>3, <1>4 DEF Init, EncoderInv, StaysInBuffer
<1> QED BY <1>5, <1>6

LEMMA StepInv == TypeOK /\ EncoderInv /\ [Next]_vars => TypeOK' /\ EncoderInv'
<1> SUFFICES ASSUME TypeOK, EncoderInv, [Next]_vars
             PROVE  TypeOK' /\ EncoderInv'
  OBVIOUS
<1> DEFINE k == write_index - read_index - 1
<1>a. BlockMax \in Nat /\ BlockMax >= 1 /\ Full = BlockMax + 1
  BY FullAssumption DEF BlockMax
<1>b. /\ Len(in) \in Nat
      /\ \A i \in 1 .. Len(in) : in[i] \in Nat
      /\ out_cap \in Nat
  <2>1. in \in Seq(Byte) /\ out_cap \in Nat
    BY InputAssumption, OutCapAssumption DEF TypeOK
  <2>2. \A i \in 1 .. Len(in) : in[i] \in Byte
    BY <2>1
  <2>3. \A i \in 1 .. Len(in) : in[i] \in Nat
    BY Zenon, <2>2, ByteAssumption, Zenon
  <2>4. Len(in) \in Nat
    BY <2>1
  <2> QED BY Zenon, <2>1, <2>3, <2>4, Zenon
<1>c. /\ code \in Nat /\ code >= 1 /\ code <= BlockMax
      /\ code_index \in Nat /\ write_index \in Nat
      /\ read_index \in Nat /\ read_index <= Len(in)
      /\ ret \in Nat
  BY <1>a, <1>b DEF TypeOK
<1>d. k \in Nat /\ BlockMax * k \in Nat /\ BlockMax * k + code - 1 <= read_index
  BY <1>a, <1>b, <1>c DEF EncoderInv
<1>e. write_index = code_index + code
  BY DEF EncoderInv
<1>1. CASE Entry
  <2>1. TypeOK'
    BY <1>1 DEF Entry, TypeOK, args, Return
  <2>2. EncoderInv'
    BY <1>1, <1>b, <1>c DEF Entry, EncoderInv, StaysInBuffer, args, Return, TypeOK
  <2> QED BY <2>1, <2>2
<1>2. CASE EncodeZero
  <2> USE DEF args
  <2>0. /\ read_index' = read_index + 1 /\ write_index' = write_index + 1
        /\ code' = 1 /\ code_index' = write_index
        /\ in' = in /\ out_cap' = out_cap
        /\ pc = "loop" /\ read_index < Len(in)
        /\ out' = Put(out, code_index, code)
    BY <1>2 DEF EncodeZero
  <2>1. DOMAIN out = (0 .. write_index - 1) \ {code_index} /\ write_index <= out_cap
    BY <2>0 DEF EncoderInv
  <2>2. DOMAIN out' = 0 .. write_index - 1
    BY <1>c, <1>e, <2>0, <2>1 DEF Put
  <2>3. \A i \in DOMAIN out' : out'[i] \in Nat /\ out'[i] # 0
    <3>1. SUFFICES ASSUME NEW i \in DOMAIN out' PROVE out'[i] \in Nat /\ out'[i] # 0
      OBVIOUS
    <3>2. out'[i] = IF i = code_index THEN code ELSE out[i]
      BY <2>0 DEF Put
    <3>3. i = code_index \/ i \in DOMAIN out
      BY <2>0 DEF Put
    <3> QED BY <3>2, <3>3, <1>c DEF TypeOK, EncoderInv
  <2>4. \/ write_index' >= out_cap /\ pc' = "returned" /\ ret' = 0
        \/ write_index' < out_cap /\ pc' = "loop" /\ ret' = ret
    BY <1>2, <1>b, <1>c, <2>0 DEF EncodeZero, NextPass, Return
  <2>5. TypeOK'
    BY <1>a, <1>b, <1>c, <2>0, <2>2, <2>3, <2>4 DEF TypeOK
  <2>6. /\ write_index' = code_index' + code' /\ write_index' > read_index'
        /\ write_index' - read_index' - 1 = k
    BY <1>c, <1>d, <2>0
  <2>7. BlockMax * (write_index' - read_index' - 1) + code' - 1 <= read_index'
    <3> HIDE DEF k
    <3>1. BlockMax * k + 1 - 1 <= read_index + 1
      BY <1>c, <1>d
    <3> QED BY <2>0, <2>6, <3>1
  <2>8. StaysInBuffer'
    BY <1>b, <1>c, <2>0, <2>1, <2>2 DEF StaysInBuffer
  <2>9. pc' = "loop" => DOMAIN out' = (0 .. write_index' - 1) \ {code_index'}
    BY <1>c, <2>0, <2>2
  <2> QED BY <1>b, <1>c, <2>0, <2>3, <2>4, <2>5, <2>6, <2>7, <2>8, <2>9
     DEF EncoderInv, BlockMax
<1>3. CASE EncodeByte /\ write_index >= out_cap
  <2>1. UNCHANGED <<args, out, read_index, write_index, code_index, code>>
        /\ pc' = "returned" /\ ret' = 0
    BY <1>3 DEF EncodeByte, Return
  <2>2. TypeOK'
    BY <2>1 DEF TypeOK, args
  <2>3. EncoderInv'
    BY <1>3, <2>1 DEF EncoderInv, StaysInBuffer, args, BlockMax
  <2> QED BY <2>2, <2>3
<1>4. CASE EncodeByte /\ write_index < out_cap
  <2> DEFINE b == in[read_index + 1]
             copied == Put(out, write_index, b)
  <2>0. /\ pc = "loop" /\ read_index < Len(in) /\ b # 0
        /\ read_index' = read_index + 1
        /\ in' = in /\ out_cap' = out_cap
    BY <1>4, <1>b, <1>c DEF EncodeByte, args
  <2>1. b \in Nat
    BY <1>b, <1>c, <2>0
  <2>2. DOMAIN out = (0 .. write_index - 1) \ {code_index}
    BY <2>0 DEF EncoderInv
  <2>3. DOMAIN copied = (0 .. write_index) \ {code_index}
    BY <1>c, <1>e, <2>2 DEF Put
  <2>4. \A i \in DOMAIN copied : copied[i] \in Nat /\ copied[i] # 0
    <3>1. SUFFICES ASSUME NEW i \in DOMAIN copied
                   PROVE  copied[i] \in Nat /\ copied[i] # 0
      OBVIOUS
    <3>2. copied[i] = IF i = write_index THEN b ELSE out[i]
      BY DEF Put
    <3>3. i = write_index \/ i \in DOMAIN out
      BY DEF Put
    <3> HIDE DEF b, copied
    <3> QED BY <3>2, <3>3, <2>0, <2>1 DEF TypeOK, EncoderInv
  <2>5. CASE code + 1 = Full
    <3>0. /\ out' = Put(copied, code_index, Full)
          /\ code' = 1 /\ code_index' = write_index + 1
          /\ write_index' = write_index + 2
          /\ NextPass(write_index')
      BY <1>4, <1>b, <1>c, <2>5 DEF EncodeByte
    <3> HIDE DEF copied, b
    <3>1. DOMAIN out' = 0 .. write_index
      BY <1>c, <1>e, <2>3, <3>0 DEF Put
    <3>2. \A i \in DOMAIN out' : out'[i] \in Nat /\ out'[i] # 0
      <4>1. SUFFICES ASSUME NEW i \in DOMAIN out' PROVE out'[i] \in Nat /\ out'[i] # 0
        OBVIOUS
      <4>2. out'[i] = IF i = code_index THEN Full ELSE copied[i]
        BY <3>0 DEF Put
      <4>3. i = code_index \/ i \in DOMAIN copied
        BY <3>0 DEF Put
      <4> QED BY <4>2, <4>3, <1>a, <2>4
    <3>3. \/ write_index' >= out_cap /\ pc' = "returned" /\ ret' = 0
          \/ write_index' < out_cap /\ pc' = "loop" /\ ret' = ret
      BY <1>b, <1>c, <2>0, <3>0 DEF NextPass, Return
    <3>4. TypeOK'
      BY <1>a, <1>b, <1>c, <2>0, <3>0, <3>1, <3>2, <3>3 DEF TypeOK
    <3>5. /\ write_index' = code_index' + code' /\ write_index' > read_index'
          /\ write_index' - read_index' - 1 = k + 1
      BY <1>c, <1>d, <2>0, <3>0
    <3>6. BlockMax * (write_index' - read_index' - 1) + code' - 1 <= read_index'
      <4> HIDE DEF k
      <4>1. BlockMax * (k + 1) = BlockMax * k + BlockMax
        BY <1>a, <1>d
      <4>2. BlockMax * k + BlockMax - 1 <= read_index
        BY <1>a, <1>c, <1>d, <2>5
      <4> QED BY <1>a, <1>c, <1>d, <2>0, <3>0, <3>5, <4>1, <4>2
    <3>7. StaysInBuffer'
      BY <1>4, <1>b, <1>c, <2>0, <3>1 DEF StaysInBuffer
    <3>8. pc' = "loop" => DOMAIN out' = (0 .. write_index' - 1) \ {code_index'}
      BY <1>c, <3>0, <3>1
    <3> QED BY <1>b, <1>c, <2>0, <3>0, <3>2, <3>3, <3>4, <3>5, <3>6, <3>7, <3>8
       DEF EncoderInv, BlockMax
  <2>6. CASE code + 1 # Full
    <3>0. /\ out' = copied
          /\ code' = code + 1 /\ code_index' = code_index
          /\ write_index' = write_index + 1
          /\ pc' = pc /\ ret' = ret
      BY <1>4, <1>b, <1>c, <2>6 DEF EncodeByte
    <3> HIDE DEF copied, b
    <3>1. TypeOK'
      BY <1>a, <1>b, <1>c, <2>0, <2>3, <2>4, <2>6, <3>0 DEF TypeOK
    <3>2. /\ write_index' = code_index' + code' /\ write_index' > read_index'
          /\ write_index' - read_index' - 1 = k
      BY <1>c, <1>d, <1>e, <2>0, <3>0
    <3>3. BlockMax * (write_index' - read_index' - 1) + code' - 1 <= read_index'
      <4> HIDE DEF k
      <4> QED BY <1>a, <1>c, <1>d, <2>0, <3>0, <3>2
    <3>4. StaysInBuffer'
      BY <1>4, <1>b, <1>c, <2>0, <2>3, <3>0 DEF StaysInBuffer
    <3>5. DOMAIN out' = (0 .. write_index' - 1) \ {code_index'} /\ write_index' <= out_cap'
      BY <1>4, <1>b, <1>c, <2>0, <2>3, <3>0
    <3> QED BY <2>0, <2>4, <3>0, <3>1, <3>2, <3>3, <3>4, <3>5
       DEF EncoderInv, BlockMax
  <2> QED BY <2>5, <2>6
<1>5. CASE EncodeEnd
  <2>0. /\ pc = "loop" /\ out' = Put(out, code_index, code)
        /\ pc' = "returned" /\ ret' = write_index
        /\ UNCHANGED <<args, read_index, write_index, code_index, code>>
    BY <1>5 DEF EncodeEnd, Return
  <2>1. DOMAIN out = (0 .. write_index - 1) \ {code_index} /\ write_index <= out_cap
    BY <2>0 DEF EncoderInv
  <2>2. DOMAIN out' = 0 .. write_index - 1
    BY <1>c, <1>e, <2>0, <2>1 DEF Put
  <2>3. \A i \in DOMAIN out' : out'[i] \in Nat /\ out'[i] # 0
    <3>1. SUFFICES ASSUME NEW i \in DOMAIN out' PROVE out'[i] \in Nat /\ out'[i] # 0
      OBVIOUS
    <3>2. out'[i] = IF i = code_index THEN code ELSE out[i]
      BY <2>0 DEF Put
    <3>3. i = code_index \/ i \in DOMAIN out
      BY <2>0 DEF Put
    <3> QED BY <3>2, <3>3, <1>c DEF TypeOK, EncoderInv
  <2>4. TypeOK'
    BY <1>a, <1>b, <1>c, <2>0, <2>2, <2>3 DEF TypeOK, args
  <2>5. StaysInBuffer'
    BY <1>b, <1>c, <2>0, <2>1, <2>2 DEF StaysInBuffer, args
  <2>6. write_index # 0
    BY <1>c, <1>e
  <2> QED BY <2>0, <2>2, <2>3, <2>4, <2>5, <2>6 DEF EncoderInv, BlockMax, args
<1>6. CASE UNCHANGED vars
  <2>1. TypeOK'
    BY <1>6 DEF vars, TypeOK
  <2>2. EncoderInv'
    BY <1>6 DEF vars, EncoderInv, StaysInBuffer
  <2> QED BY <2>1, <2>2
<1> QED BY <1>1, <1>2, <1>3, <1>4, <1>5, <1>6, <1>b, <1>c DEF Next, Returned

\* The relation between the indices of cobs_encode holds at every pass.
THEOREM EncoderInvariant == Spec => [](TypeOK /\ EncoderInv)
BY InitInv, StepInv, PTL DEF Spec

(***************************************************************************)
(* cobs_encode never stores outside the buffer it is given.                *)
(***************************************************************************)
THEOREM NoOverflow == Spec => []StaysInBuffer
<1>1. EncoderInv => StaysInBuffer
  BY DEF EncoderInv
<1> QED BY <1>1, EncoderInvariant, PTL

(***************************************************************************)
(* The size main() tests for at fake_serial.c:149 is enough for the        *)
(* encoding of any payload and the delimiter.                              *)
(***************************************************************************)
THEOREM RoomIsEnough == Spec => []RoomSuffices
<1>1. TypeOK /\ EncoderInv => RoomSuffices
  <2> SUFFICES ASSUME TypeOK, EncoderInv, pc = "returned", out_cap >= Needed(Len(in))
               PROVE  ret > 0 /\ ret < out_cap
    BY DEF RoomSuffices
  <2>1. write_index < Needed(Len(in))
    BY WriteBound
  <2>2. write_index \in Nat /\ out_cap \in Nat /\ ret \in Nat
    BY OutCapAssumption DEF TypeOK
  <2>3. Needed(Len(in)) \in Nat
    BY InputAssumption, FullAssumption DEF TypeOK, Needed, BlockMax
  <2>4. write_index < out_cap
    BY <2>1, <2>2, <2>3
  <2> QED BY <2>2, <2>4 DEF EncoderInv
<1> QED BY <1>1, EncoderInvariant, PTL

(***************************************************************************)
(* A returned frame has no zero before the delimiter main() appends.       *)
(***************************************************************************)
THEOREM DelimiterFree == Spec => []NoDelimiterInside
<1>1. TypeOK /\ EncoderInv => NoDelimiterInside
  BY DEF EncoderInv, TypeOK, NoDelimiterInside
<1> QED BY <1>1, EncoderInvariant, PTL

-----------------------------------------------------------------------------
(* What has been encoded.                                                  *)

\* The input and the bytes written, as strings of naturals.
LEMMA Strings ==
  ASSUME TypeOK
  PROVE  /\ in \in Seq(Nat) /\ Len(in) \in Nat
         /\ \A n \in Nat : 0 .. n - 1 \subseteq DOMAIN out =>
              /\ [i \in 1 .. n |-> out[i - 1]] \in Seq(Nat)
              /\ Len([i \in 1 .. n |-> out[i - 1]]) = n
<1>1. in \in Seq(Byte) /\ Byte \subseteq Nat
  BY InputAssumption, ByteAssumption DEF TypeOK
<1>2. in \in Seq(Nat)
  <2>1. Len(in) \in Nat /\ in \in [1 .. Len(in) -> Byte]
    BY <1>1
  <2>2. in \in [1 .. Len(in) -> Nat]
    BY Zenon, <1>1, <2>1
  <2> QED BY <2>1, <2>2
<1>3. ASSUME NEW n \in Nat, 0 .. n - 1 \subseteq DOMAIN out
      PROVE  /\ [i \in 1 .. n |-> out[i - 1]] \in Seq(Nat)
             /\ Len([i \in 1 .. n |-> out[i - 1]]) = n
  <2>1. \A i \in 1 .. n : i - 1 \in 0 .. n - 1
    OBVIOUS
  <2>2. \A i \in 1 .. n : out[i - 1] \in Nat
    BY Zenon, <1>3, <2>1 DEF TypeOK
  <2> QED BY <2>2
<1> QED BY <1>2, <1>3

\* The numbers of a pass.
LEMMA PassNumbers ==
  ASSUME TypeOK, EncoderInv
  PROVE  /\ BlockMax \in Nat /\ BlockMax >= 1 /\ Full = BlockMax + 1
         /\ code \in Nat /\ code >= 1 /\ code <= BlockMax
         /\ code_index \in Nat /\ write_index \in Nat /\ out_cap \in Nat /\ ret \in Nat
         /\ read_index \in Nat /\ read_index <= Len(in) /\ Len(in) \in Nat
         /\ write_index = code_index + code
         /\ code - 1 <= read_index
<1>1. BlockMax \in Nat /\ BlockMax >= 1 /\ Full = BlockMax + 1
  BY FullAssumption DEF BlockMax
<1>2. Len(in) \in Nat /\ out_cap \in Nat
  BY Strings, OutCapAssumption DEF TypeOK
<1>3. /\ code \in Nat /\ code >= 1 /\ code <= BlockMax
      /\ code_index \in Nat /\ write_index \in Nat /\ ret \in Nat
      /\ read_index \in Nat /\ read_index <= Len(in)
  BY <1>1, <1>2 DEF TypeOK
<1>4. write_index = code_index + code /\ write_index > read_index
  BY DEF EncoderInv
<1>5. code - 1 <= read_index
  <2> DEFINE k == write_index - read_index - 1
  <2>1. k \in Nat
    BY <1>3, <1>4
  <2>2. BlockMax * k + code - 1 <= read_index
    BY DEF EncoderInv
  <2> HIDE DEF k
  <2>3. BlockMax * k \in Nat
    BY <1>1, <2>1
  <2> QED BY <1>3, <2>2, <2>3
<1> QED BY <1>1, <1>2, <1>3, <1>4, <1>5

\* The bytes of the open block are not zero.
LEMMA OpenBlock ==
  ASSUME TypeOK, EncoderInv, EncodingInv, pc = "loop"
  PROVE  \A m \in 1 .. code - 1 :
           /\ code_index + m \in DOMAIN out
           /\ in[BlockStart + m - 1] # 0
<1>1. DOMAIN out = (0 .. write_index - 1) \ {code_index}
  BY DEF EncoderInv
<1>2. ASSUME NEW m \in 1 .. code - 1 PROVE code_index + m \in DOMAIN out
  <2>1. code_index \in Nat /\ code \in Nat /\ write_index = code_index + code
    BY Zenon, PassNumbers
  <2> QED BY <1>1, <2>1
<1>3. ASSUME NEW m \in 1 .. code - 1 PROVE in[BlockStart + m - 1] # 0
  BY Zenon, <1>2 DEF EncoderInv, EncodingInv
<1> QED BY <1>2, <1>3

\* A step that ends the open block after k bytes of data: it stores the code at
\* its place, and the data is after it.
Closing(k) ==
  /\ k \in Nat /\ k <= BlockMax /\ BlockStart + k <= Len(in) + 1
  /\ \A m \in 1 .. k : in[BlockStart + m - 1] # 0
  /\ k = BlockMax \/ BlockStart + k = Len(in) + 1 \/ in[BlockStart + k] = 0
  /\ DOMAIN out' = 0 .. code_index + k
  /\ \A i \in 0 .. code_index - 1 : out'[i] = out[i]
  /\ out'[code_index] = k + 1
  /\ \A m \in 1 .. k : out'[code_index + m] = in[BlockStart + m - 1]

LEMMA ClosingStep ==
  ASSUME TypeOK, EncoderInv, EncodingInv, pc = "loop", TypeOK', NEW k, Closing(k)
  PROVE  Encoding(in) =
           [i \in 1 .. code_index + k + 1 |-> out'[i - 1]] \o
             (IF k # BlockMax /\ BlockStart + k = Len(in) + 1 THEN << >>
              ELSE EncodeFrom(in)[BlockStart + k + (IF k = BlockMax THEN 0 ELSE 1)])
<1> DEFINE b == BlockStart
           v == ClosedBlocks
           w == [i \in 1 .. code_index + k + 1 |-> out'[i - 1]]
<1>1. /\ BlockMax \in Nat /\ code_index \in Nat /\ code \in Nat /\ code >= 1
      /\ Len(in) \in Nat /\ in \in Seq(Nat)
      /\ read_index \in Nat /\ read_index <= Len(in) /\ code - 1 <= read_index
      /\ write_index = code_index + code /\ k \in Nat /\ k <= BlockMax
  BY PassNumbers, Strings DEF Closing
<1>a. \A i \in 1 .. code_index + k + 1 : w[i] = out'[i - 1]
  OBVIOUS
<1>2. b \in 1 .. Len(in) + 1
  BY <1>1 DEF BlockStart
<1>3. v \in Seq(Nat) /\ Len(v) = code_index
  <2>1. 0 .. code_index - 1 \subseteq DOMAIN out
    BY <1>1 DEF EncoderInv
  <2> QED BY Zenon, <1>1, <2>1, Strings DEF ClosedBlocks
<1>4. w \in Seq(Nat) /\ Len(w) = code_index + k + 1
  <2>1. \A i \in 1 .. code_index + k + 1 : i - 1 \in 0 .. code_index + k
    BY <1>1
  <2>2. \A i \in DOMAIN out' : out'[i] \in Nat
    BY Zenon DEF TypeOK
  <2>3. \A i \in 1 .. code_index + k + 1 : out'[i - 1] \in Nat
    BY Zenon, <2>1, <2>2 DEF Closing
  <2>4. code_index + k + 1 \in Nat
    BY <1>1
  <2> QED BY <2>3, <2>4
<1>5. k = BlockLength(in, b)
  <2>1. k \in 0 .. BlockMax
    BY <1>1
  <2>2. ASSUME NEW m \in b .. b + k - 1 PROVE in[m] # 0
    <3>1. m - b + 1 \in 1 .. k /\ b + (m - b + 1) - 1 = m
      BY <1>1, <1>2
    <3> HIDE DEF b
    <3>2. in[b + (m - b + 1) - 1] # 0
      BY Zenon, <3>1 DEF b, Closing
    <3> QED BY Zenon, <3>1, <3>2
  <2>3. BlockLength(in, b) = k
    BY Zenon, <1>1, <1>2, <2>1, <2>2, BlockLengthIs DEF Closing
  <2> QED BY <2>3
<1>6. Len(w) = Len(v) + (k + 1)
  BY <1>1, <1>3, <1>4
<1>7. ASSUME NEW m \in 1 .. Len(v) PROVE w[m] = v[m]
  <2>1. m \in 1 .. code_index /\ m \in 1 .. code_index + k + 1 /\ m - 1 \in 0 .. code_index - 1
    BY <1>1, <1>3
  <2>2. w[m] = out'[m - 1] /\ v[m] = out[m - 1]
    BY Zenon, <2>1, <1>a DEF ClosedBlocks
  <2> QED BY Zenon, <2>1, <2>2 DEF Closing
<1>8. w[Len(v) + 1] = k + 1
  <2>1. code_index + 1 \in 1 .. code_index + k + 1
    BY <1>1
  <2>3. code_index + 1 - 1 = code_index
    BY <1>1
  <2>2. w[code_index + 1] = out'[code_index + 1 - 1]
    BY <1>1, <2>1
  <2> QED BY Zenon, <1>3, <2>2, <2>3 DEF Closing
<1>9. ASSUME NEW m \in 1 .. k PROVE w[Len(v) + (1 + m)] = in[b + m - 1]
  <2>1. code_index + (1 + m) \in 1 .. code_index + k + 1
    BY <1>1
  <2>3. code_index + (1 + m) - 1 = code_index + m
    BY <1>1
  <2>2. w[code_index + (1 + m)] = out'[code_index + (1 + m) - 1]
    BY <1>1, <2>1
  <2> QED BY Zenon, <1>3, <2>2, <2>3 DEF Closing
<1>10. Encoding(in) = v \o EncodeFrom(in)[b]
  BY Zenon DEF EncodingInv
<1>11. Encoding(in) =
         w \o (IF IsLast(in, b) THEN << >> ELSE EncodeFrom(in)[NextBlock(in, b)])
  <2> HIDE DEF w, v, b
  <2>1. Closes(in, b, k, v, w)
    BY Zenon, <1>1, <1>2, <1>3, <1>4, <1>5, <1>6, <1>7, <1>8, <1>9, <1>10 DEF Closes
  <2> QED BY Zenon, <2>1, CloseBlock
<1>12. IsLast(in, b) <=> k # BlockMax /\ b + k = Len(in) + 1
  BY Zenon, <1>5 DEF IsLast
<1>13. NextBlock(in, b) = b + k + (IF k = BlockMax THEN 0 ELSE 1)
  BY Zenon, <1>5 DEF NextBlock
<1>14. CASE IsLast(in, b)
  <2> HIDE DEF w
  <2> QED BY Zenon, <1>11, <1>12, <1>14 DEF w
<1>15. CASE ~ IsLast(in, b)
  <2> HIDE DEF w
  <2> QED BY Zenon, <1>11, <1>12, <1>13, <1>15 DEF w
<1> QED BY Zenon, <1>14, <1>15

LEMMA EncodingStep ==
  ASSUME TypeOK, EncoderInv, EncodingInv, TypeOK', EncoderInv', [Next]_vars
  PROVE  EncodingInv'
<1>a. /\ BlockMax \in Nat /\ BlockMax >= 1 /\ Full = BlockMax + 1
      /\ code \in Nat /\ code >= 1 /\ code <= BlockMax
      /\ code_index \in Nat /\ write_index \in Nat /\ out_cap \in Nat
      /\ read_index \in Nat /\ read_index <= Len(in) /\ Len(in) \in Nat
      /\ write_index = code_index + code
      /\ code - 1 <= read_index
  BY PassNumbers
<1>b. BlockStart \in Nat /\ BlockStart >= 1 /\ BlockStart + (code - 1) = read_index + 1
  BY <1>a DEF BlockStart
<1>1. CASE Entry
  <2>1. /\ pc = "entry" /\ pc' \in {"loop", "returned"} /\ (pc' = "returned" => ret' = 0)
        /\ UNCHANGED <<in, out, read_index, write_index, code_index, code>>
    BY Zenon, <1>1 DEF Entry, args, Return
  <2>2. write_index = 1 /\ code = 1
    BY Zenon, <2>1 DEF EncoderInv
  <2>3. code_index = 0 /\ read_index = 0
    BY <1>a, <2>2 DEF EncoderInv
  <2>4. ClosedBlocks' = << >> /\ BlockStart' = 1 /\ code' - 1 = 0
    BY <2>1, <2>2, <2>3 DEF ClosedBlocks, BlockStart
  <2>5. EncodeFrom(in)[1] \in Seq(Nat)
    <3>1. 1 \in 1 .. Len(in) + 1
      BY <1>a
    <3> QED BY Zenon, <3>1, Strings, EncodeUnfold
  <2>6. << >> \o EncodeFrom(in)[1] = EncodeFrom(in)[1]
    <3> DEFINE e == EncodeFrom(in)[1]
    <3> HIDE DEF e
    <3>1. e \in Seq(Nat)
      BY Zenon, <2>5 DEF e
    <3>2. << >> \o e = e
      BY <3>1
    <3> QED BY Zenon, <3>2 DEF e
  <2>7. Encoding(in)' = ClosedBlocks' \o EncodeFrom(in)'[BlockStart']
    BY Zenon, <2>1, <2>4, <2>6 DEF Encoding
  <2>8. \A m \in 1 .. code' - 1 : FALSE
    BY <2>4
  <2>9. pc' = "returned" => ~(ret' > 0)
    BY <2>1
  <2> QED BY Zenon, <2>7, <2>8, <2>9 DEF EncodingInv
<1>2. CASE EncodeZero
  <2> DEFINE k == code - 1
  <2>0. /\ read_index' = read_index + 1 /\ write_index' = write_index + 1
        /\ code' = 1 /\ code_index' = write_index
        /\ in' = in /\ out_cap' = out_cap
        /\ pc = "loop" /\ read_index < Len(in) /\ in[read_index + 1] = 0
        /\ out' = Put(out, code_index, code)
    BY Zenon, <1>2 DEF EncodeZero, args
  <2>1. pc' = "returned" => ret' = 0
    BY Zenon, <1>2, <2>0 DEF EncodeZero, NextPass, Return
  <2>2. DOMAIN out = (0 .. write_index - 1) \ {code_index}
    BY <2>0 DEF EncoderInv
  <2>3. DOMAIN out' = 0 .. code_index + k
    BY <1>a, <2>0, <2>2 DEF Put
  <2>4. \A i \in 0 .. code_index + k : out'[i] = IF i = code_index THEN code ELSE out[i]
    BY <1>a, <2>0, <2>2 DEF Put
  <2>5. Closing(k)
    <3>1. k \in Nat /\ k <= BlockMax /\ BlockStart + k <= Len(in) + 1
      BY <1>a, <1>b, <2>0
    <3>2. \A m \in 1 .. k : in[BlockStart + m - 1] # 0
      BY Zenon, <2>0, OpenBlock
    <3>3. in[BlockStart + k] = 0
      BY Zenon, <1>b, <2>0
    <3>4. ASSUME NEW i \in 0 .. code_index - 1 PROVE out'[i] = out[i]
      <4>1. i \in 0 .. code_index + k /\ i # code_index
        BY <1>a
      <4> QED BY Zenon, <2>4, <4>1
    <3>5. out'[code_index] = k + 1
      <4>1. code_index \in 0 .. code_index + k /\ k + 1 = code
        BY <1>a
      <4> QED BY Zenon, <2>4, <4>1
    <3>6. ASSUME NEW m \in 1 .. k PROVE out'[code_index + m] = in[BlockStart + m - 1]
      <4>1. code_index + m \in 0 .. code_index + k /\ code_index + m # code_index
        BY <1>a
      <4>2. out'[code_index + m] = out[code_index + m]
        BY Zenon, <2>4, <4>1
      <4> QED BY Zenon, <2>0, <4>2 DEF EncodingInv
    <3> HIDE DEF k
    <3> QED BY Zenon, <2>3, <3>1, <3>2, <3>3, <3>4, <3>5, <3>6 DEF Closing
  <2>6. /\ k # BlockMax /\ BlockStart + k # Len(in) + 1
        /\ BlockStart + k + 1 = BlockStart' /\ code_index + k + 1 = code_index'
        /\ code' - 1 = 0
    BY <1>a, <1>b, <2>0 DEF BlockStart
  <2>7. Encoding(in) = [i \in 1 .. code_index + k + 1 |-> out'[i - 1]] \o
                         EncodeFrom(in)[BlockStart + k + 1]
    <3> HIDE DEF k
    <3> QED BY Zenon, <2>0, <2>5, <2>6, ClosingStep
  <2>8. Encoding(in)' = ClosedBlocks' \o EncodeFrom(in)'[BlockStart']
    <3> HIDE DEF k
    <3>1. ClosedBlocks' = [i \in 1 .. code_index + k + 1 |-> out'[i - 1]]
      BY Zenon, <2>6 DEF ClosedBlocks
    <3> QED BY Zenon, <2>0, <2>6, <2>7, <3>1
  <2>9. \A m \in 1 .. code' - 1 : FALSE
    BY <2>6
  <2>10. pc' = "returned" => ~(ret' > 0)
    BY <2>1
  <2> QED BY Zenon, <2>8, <2>9, <2>10 DEF EncodingInv
<1>3. CASE EncodeByte /\ write_index >= out_cap
  <2>1. pc' = "returned" /\ ret' = 0
    BY Zenon, <1>3 DEF EncodeByte, Return
  <2>2. ~(ret' > 0) /\ pc' # "loop"
    BY <2>1
  <2> QED BY Zenon, <2>2 DEF EncodingInv
<1>4. CASE EncodeByte /\ ~(write_index >= out_cap) /\ code + 1 = Full
  <2> DEFINE b == in[read_index + 1]
             copied == Put(out, write_index, b)
  <2>0. /\ pc = "loop" /\ read_index < Len(in) /\ b # 0
        /\ read_index' = read_index + 1
        /\ in' = in
        /\ out' = Put(copied, code_index, Full)
        /\ code' = 1 /\ code_index' = write_index + 1
        /\ write_index' = write_index + 2
    BY Zenon, <1>4 DEF EncodeByte, args
  <2>1. pc' = "returned" => ret' = 0
    BY Zenon, <1>4, <2>0 DEF EncodeByte, NextPass, Return
  <2>2. DOMAIN out = (0 .. write_index - 1) \ {code_index}
    BY <2>0 DEF EncoderInv
  <2>3. /\ DOMAIN copied = (0 .. write_index) \ {code_index}
        /\ copied[write_index] = b
        /\ \A i \in DOMAIN out : copied[i] = out[i]
    <3> HIDE DEF b
    <3>1. DOMAIN copied = (0 .. write_index) \ {code_index}
      BY <1>a, <2>2 DEF Put
    <3>2. copied[write_index] = b
      BY DEF Put
    <3>3. ASSUME NEW i \in DOMAIN out PROVE copied[i] = out[i]
      <4>1. i # write_index
        BY <1>a, <2>2
      <4> QED BY <4>1 DEF Put
    <3> QED BY <3>1, <3>2, <3>3
  <2> HIDE DEF copied
  <2>4. DOMAIN out' = 0 .. code_index + code
    BY <1>a, <2>0, <2>3 DEF Put
  <2>5. \A i \in 0 .. code_index + code : out'[i] = IF i = code_index THEN Full ELSE copied[i]
    BY <1>a, <2>0, <2>3 DEF Put
  <2>6. Closing(code)
    <3>1. code \in Nat /\ code <= BlockMax /\ BlockStart + code <= Len(in) + 1 /\ code = BlockMax
      BY <1>4, <1>a, <1>b, <2>0
    <3>2. \A m \in 1 .. code - 1 : code_index + m \in DOMAIN out /\ in[BlockStart + m - 1] # 0
      BY Zenon, <2>0, OpenBlock
    <3>3. \A m \in 1 .. code : m \in 1 .. code - 1 \/ m = code
      BY <1>a
    <3>4. BlockStart + code - 1 = read_index + 1
      BY <1>a, <1>b
    <3>5. \A m \in 1 .. code : in[BlockStart + m - 1] # 0
      BY Zenon, <2>0, <3>2, <3>3, <3>4
    <3>6. ASSUME NEW i \in 0 .. code_index - 1 PROVE out'[i] = out[i]
      <4>1. i \in 0 .. code_index + code /\ i # code_index /\ i \in DOMAIN out
        BY <1>a, <2>2
      <4> QED BY Zenon, <2>3, <2>5, <4>1
    <3>7. out'[code_index] = code + 1
      <4>1. code_index \in 0 .. code_index + code
        BY <1>a
      <4> QED BY Zenon, <1>4, <2>5, <4>1
    <3>8. ASSUME NEW m \in 1 .. code PROVE out'[code_index + m] = in[BlockStart + m - 1]
      <4>1. code_index + m \in 0 .. code_index + code /\ code_index + m # code_index
        BY <1>a
      <4>2. out'[code_index + m] = copied[code_index + m]
        BY Zenon, <2>5, <4>1
      <4>3. CASE m \in 1 .. code - 1
        <5>1. copied[code_index + m] = out[code_index + m]
          BY Zenon, <2>3, <3>2, <4>3
        <5>2. out[code_index + m] = in[BlockStart + m - 1]
          BY Zenon, <2>0, <4>3 DEF EncodingInv
        <5> QED BY Zenon, <4>2, <5>1, <5>2
      <4>4. CASE m = code
        BY Zenon, <1>a, <2>3, <3>4, <4>2, <4>4
      <4> QED BY Zenon, <3>3, <4>3, <4>4
    <3> QED BY Zenon, <2>4, <3>1, <3>5, <3>6, <3>7, <3>8 DEF Closing
  <2>7. /\ code = BlockMax /\ BlockStart + code + 0 = BlockStart'
        /\ code_index + code + 1 = code_index' /\ code' - 1 = 0
    BY <1>4, <1>a, <1>b, <2>0 DEF BlockStart
  <2>8. Encoding(in) = [i \in 1 .. code_index + code + 1 |-> out'[i - 1]] \o
                         EncodeFrom(in)[BlockStart + code + 0]
    BY Zenon, <2>0, <2>6, <2>7, ClosingStep
  <2>9. Encoding(in)' = ClosedBlocks' \o EncodeFrom(in)'[BlockStart']
    <3>1. ClosedBlocks' = [i \in 1 .. code_index + code + 1 |-> out'[i - 1]]
      BY Zenon, <2>7 DEF ClosedBlocks
    <3> QED BY Zenon, <2>0, <2>7, <2>8, <3>1
  <2>10. \A m \in 1 .. code' - 1 : FALSE
    BY <2>7
  <2>11. pc' = "returned" => ~(ret' > 0)
    BY <2>1
  <2> QED BY Zenon, <2>9, <2>10, <2>11 DEF EncodingInv
<1>5. CASE EncodeByte /\ ~(write_index >= out_cap) /\ code + 1 # Full
  <2> DEFINE b == in[read_index + 1]
  <2>0. /\ pc = "loop" /\ read_index < Len(in) /\ b # 0
        /\ read_index' = read_index + 1
        /\ in' = in /\ pc' = pc
        /\ out' = Put(out, write_index, b)
        /\ code' = code + 1 /\ code_index' = code_index
    BY Zenon, <1>5 DEF EncodeByte, args
  <2>1. DOMAIN out = (0 .. write_index - 1) \ {code_index}
    BY <2>0 DEF EncoderInv
  <2>2. out'[write_index] = b
    BY <2>0 DEF Put
  <2>3. ASSUME NEW i \in DOMAIN out PROVE out'[i] = out[i]
    <3>1. i # write_index
      BY <1>a, <2>1
    <3> QED BY <2>0, <3>1 DEF Put
  <2>4. BlockStart' = BlockStart
    BY <1>a, <2>0 DEF BlockStart
  <2>5. ClosedBlocks' = ClosedBlocks
    <3>1. \A i \in 1 .. code_index : i - 1 \in DOMAIN out
      BY <1>a, <2>1
    <3>2. \A i \in 1 .. code_index : out'[i - 1] = out[i - 1]
      BY Zenon, <2>3, <3>1
    <3> QED BY Zenon, <2>0, <3>2 DEF ClosedBlocks
  <2>6. ASSUME NEW m \in 1 .. code' - 1
        PROVE  out'[code_index' + m] = in'[BlockStart' + m - 1]
    <3>1. m \in 1 .. code - 1 \/ m = code
      BY <1>a, <2>0
    <3>2. CASE m \in 1 .. code - 1
      <4>1. code_index + m \in DOMAIN out /\ out[code_index + m] = in[BlockStart + m - 1]
        BY Zenon, <2>0, <3>2, OpenBlock DEF EncodingInv
      <4> QED BY Zenon, <2>0, <2>3, <2>4, <4>1
    <3>3. CASE m = code
      <4>1. BlockStart + m - 1 = read_index + 1 /\ code_index + m = write_index
        BY <1>a, <1>b, <3>3
      <4> QED BY Zenon, <2>0, <2>2, <2>4, <4>1
    <3> QED BY Zenon, <3>1, <3>2, <3>3
  <2>7. Encoding(in)' = ClosedBlocks' \o EncodeFrom(in)'[BlockStart']
    BY Zenon, <2>0, <2>4, <2>5 DEF EncodingInv
  <2>8. pc' # "returned"
    BY Zenon, <2>0
  <2> QED BY Zenon, <2>6, <2>7, <2>8 DEF EncodingInv
<1>6. CASE EncodeEnd
  <2> DEFINE k == code - 1
  <2>0. /\ pc = "loop" /\ read_index = Len(in) /\ out' = Put(out, code_index, code)
        /\ pc' = "returned" /\ ret' = write_index /\ in' = in
    BY Zenon, <1>6 DEF EncodeEnd, Return, args
  <2>2. DOMAIN out = (0 .. write_index - 1) \ {code_index}
    BY <2>0 DEF EncoderInv
  <2>3. DOMAIN out' = 0 .. code_index + k
    BY <1>a, <2>0, <2>2 DEF Put
  <2>4. \A i \in 0 .. code_index + k : out'[i] = IF i = code_index THEN code ELSE out[i]
    BY <1>a, <2>0, <2>2 DEF Put
  <2>5. Closing(k)
    <3>1. k \in Nat /\ k <= BlockMax /\ BlockStart + k <= Len(in) + 1
          /\ BlockStart + k = Len(in) + 1
      BY <1>a, <1>b, <2>0
    <3>2. \A m \in 1 .. k : in[BlockStart + m - 1] # 0
      BY Zenon, <2>0, OpenBlock
    <3>4. ASSUME NEW i \in 0 .. code_index - 1 PROVE out'[i] = out[i]
      <4>1. i \in 0 .. code_index + k /\ i # code_index
        BY <1>a
      <4> QED BY Zenon, <2>4, <4>1
    <3>5. out'[code_index] = k + 1
      <4>1. code_index \in 0 .. code_index + k /\ k + 1 = code
        BY <1>a
      <4> QED BY Zenon, <2>4, <4>1
    <3>6. ASSUME NEW m \in 1 .. k PROVE out'[code_index + m] = in[BlockStart + m - 1]
      <4>1. code_index + m \in 0 .. code_index + k /\ code_index + m # code_index
        BY <1>a
      <4>2. out'[code_index + m] = out[code_index + m]
        BY Zenon, <2>4, <4>1
      <4> QED BY Zenon, <2>0, <4>2 DEF EncodingInv
    <3> HIDE DEF k
    <3> QED BY Zenon, <2>3, <3>1, <3>2, <3>4, <3>5, <3>6 DEF Closing
  <2>6. k # BlockMax /\ BlockStart + k = Len(in) + 1 /\ code_index + k + 1 = ret'
    BY <1>a, <1>b, <2>0
  <2>7. Encoding(in) = [i \in 1 .. code_index + k + 1 |-> out'[i - 1]] \o << >>
    <3> HIDE DEF k
    <3> QED BY Zenon, <2>0, <2>5, <2>6, ClosingStep
  <2>8. Encoded' = [i \in 1 .. code_index + k + 1 |-> out'[i - 1]]
    <3> HIDE DEF k
    <3> QED BY Zenon, <2>6 DEF Encoded
  <2>9. Encoded' \in Seq(Nat)
    <3>1. ret' \in Nat /\ 0 .. ret' - 1 \subseteq DOMAIN out'
      BY <1>a, <2>0, <2>3
    <3>2. \A i \in 1 .. ret' : i - 1 \in DOMAIN out'
      <4>1. \A n \in Nat : \A i \in 1 .. n : i - 1 \in 0 .. n - 1
        OBVIOUS
      <4> QED BY Zenon, <3>1, <4>1
    <3>3. \A i \in 1 .. ret' : out'[i - 1] \in Nat
      BY Zenon, <3>2 DEF TypeOK
    <3> QED BY <3>1, <3>3 DEF Encoded
  <2>10. Encoded' \o << >> = Encoded'
    <3> DEFINE e == Encoded'
    <3> HIDE DEF e
    <3>1. e \in Seq(Nat)
      BY Zenon, <2>9 DEF e
    <3>2. e \o << >> = e
      BY <3>1
    <3> QED BY Zenon, <3>2 DEF e
  <2>11. Encoded' = Encoding(in)'
    BY Zenon, <2>0, <2>7, <2>8, <2>10
  <2>12. pc' # "loop"
    BY <2>0
  <2> QED BY Zenon, <2>11, <2>12 DEF EncodingInv
<1>7. CASE UNCHANGED vars
  BY Zenon, <1>7 DEF vars, EncodingInv, Encoded, ClosedBlocks, BlockStart
<1> QED BY Zenon, <1>1, <1>2, <1>3, <1>4, <1>5, <1>6, <1>7 DEF Next, Returned

(***************************************************************************)
(* At every pass of its loop the indices of cobs_encode fit each other and *)
(* the buffer holds the beginning of the encoding of the payload.          *)
(***************************************************************************)
THEOREM EncodingInvariant == Spec => []LoopInv
<1>1. Init => EncodingInv
  BY Zenon DEF Init, EncodingInv
<1>2. TypeOK /\ EncoderInv /\ EncodingInv /\ [Next]_vars
        => TypeOK' /\ EncoderInv' /\ EncodingInv'
  BY Zenon, StepInv, EncodingStep
<1> QED BY <1>1, <1>2, InitInv, PTL DEF Spec, LoopInv

(***************************************************************************)
(* The frame cobs_encode of the device returns is the COBS encoding of its *)
(* payload, and cobs_decode of qr-c gives exactly that payload back: for   *)
(* every payload, every block length and every buffer.                     *)
(***************************************************************************)
THEOREM FramesRoundTrip == Spec => []RoundTrip
<1>1. TypeOK /\ EncodingInv => RoundTrip
  <2> SUFFICES ASSUME TypeOK, EncodingInv, pc = "returned", ret > 0
               PROVE  Encoded = Encoding(in) /\ cobs_decode(Encoded) = {in}
    BY DEF RoundTrip
  <2>1. Encoded = Encoding(in)
    BY Zenon DEF EncodingInv
  <2>2. cobs_decode(Encoding(in)) = {in}
    BY Zenon, Strings, DecodeUndoesEncoding
  <2> QED BY Zenon, <2>1, <2>2
<1> QED BY <1>1, EncodingInvariant, PTL DEF LoopInv

=============================================================================
