----------------------------- MODULE CobsEncoder ----------------------------
(***************************************************************************)
(* cobs_encode of fake_serial/fake_serial.c: the loop with its three       *)
(* indices into the output buffer, called as main() calls it and with      *)
(* every other size of buffer.  One pass of the loop is one step.          *)
(***************************************************************************)
EXTENDS Cobs

CONSTANTS
  Byte,     \* the byte values considered
  Inputs,   \* the byte strings encoded
  OutCaps   \* the sizes of the output buffer

ASSUME ByteAssumption == Byte \subseteq Nat /\ 0 \in Byte
ASSUME InputAssumption == Inputs \subseteq Seq(Byte)
ASSUME OutCapAssumption == OutCaps \subseteq Nat

VARIABLES
  in, out_cap,   \* the arguments; in_len is Len(in)
  out,           \* the bytes of the buffer that have been written, by index
  read_index, write_index, code_index, code,
  pc,            \* "entry", "loop", "returned"
  ret            \* the value returned

args == <<in, out_cap>>

vars == <<in, out_cap, out, read_index, write_index, code_index, code, pc, ret>>

Put(f, i, v) == [k \in DOMAIN f \cup {i} |-> IF k = i THEN v ELSE f[k]]

Return(v) == pc' = "returned" /\ ret' = v

NextPassUnchecked(w) == UNCHANGED <<pc, ret>>

\* The end of a pass that has advanced write_index to w: no room, no result.
NextPass(w) ==
  IF w >= out_cap THEN Return(0) ELSE UNCHANGED <<pc, ret>>

\* The tests before the loop.
Entry ==
  /\ pc = "entry"
  /\ IF out_cap = 0 \/ (out_cap < 2 /\ Len(in) > 0)
     THEN Return(0)
     ELSE pc' = "loop" /\ UNCHANGED ret
  /\ UNCHANGED <<args, out, read_index, write_index, code_index, code>>

\* A zero closes the block; its place holds the code of the next one.
EncodeZero ==
  /\ pc = "loop" /\ read_index < Len(in)
  /\ in[read_index + 1] = 0
  /\ out' = Put(out, code_index, code)
  /\ code' = 1
  /\ code_index' = write_index
  /\ write_index' = write_index + 1
  /\ read_index' = read_index + 1
  /\ NextPass(write_index')
  /\ UNCHANGED args

BlockNotClosed ==
  /\ pc = "loop" /\ read_index < Len(in)
  /\ in[read_index + 1] # 0
  /\ IF write_index >= out_cap
     THEN Return(0) /\ UNCHANGED <<out, read_index, write_index, code>>
     ELSE /\ out' = Put(out, write_index, in[read_index + 1])
          /\ write_index' = write_index + 1
          /\ read_index' = read_index + 1
          /\ code' = code + 1
          /\ UNCHANGED <<pc, ret>>
  /\ UNCHANGED <<args, code_index>>

\* Any other byte is copied; a full block is closed at once.
EncodeByte ==
  /\ pc = "loop" /\ read_index < Len(in)
  /\ in[read_index + 1] # 0
  /\ IF write_index >= out_cap
     THEN Return(0) /\ UNCHANGED <<out, read_index, write_index, code_index, code>>
     ELSE LET copied == Put(out, write_index, in[read_index + 1])
          IN  /\ read_index' = read_index + 1
              /\ IF code + 1 = Full
                 THEN /\ out' = Put(copied, code_index, Full)
                      /\ code' = 1
                      /\ code_index' = write_index + 1
                      /\ write_index' = write_index + 2
                      /\ NextPass(write_index')
                 ELSE /\ out' = copied
                      /\ code' = code + 1
                      /\ write_index' = write_index + 1
                      /\ UNCHANGED <<code_index, pc, ret>>
  /\ UNCHANGED args

LastCodeMissing ==
  /\ pc = "loop" /\ read_index = Len(in)
  /\ Return(write_index)
  /\ UNCHANGED <<args, out, read_index, write_index, code_index, code>>

\* After the loop: the code of the last block.
EncodeEnd ==
  /\ pc = "loop" /\ read_index = Len(in)
  /\ out' = Put(out, code_index, code)
  /\ Return(write_index)
  /\ UNCHANGED <<args, read_index, write_index, code_index, code>>

Init ==
  /\ in \in Inputs /\ out_cap \in OutCaps
  /\ out = << >>
  /\ read_index = 0 /\ write_index = 1 /\ code_index = 0 /\ code = 1
  /\ pc = "entry" /\ ret = 0

Returned == pc = "returned" /\ UNCHANGED vars

Next == Entry \/ EncodeZero \/ EncodeByte \/ EncodeEnd \/ Returned

Spec == Init /\ [][Next]_vars

-----------------------------------------------------------------------------
TypeOK ==
  /\ in \in Inputs /\ out_cap \in OutCaps
  /\ DOMAIN out \subseteq Nat
  /\ \A i \in DOMAIN out : out[i] \in Nat
  /\ read_index \in 0 .. Len(in)
  /\ write_index \in Nat /\ code_index \in Nat /\ code \in 1 .. BlockMax
  /\ pc \in {"entry", "loop", "returned"} /\ ret \in Nat

(***************************************************************************)
(* cobs_encode stores only inside the buffer of out_cap bytes, whatever    *)
(* the input: the place reserved for the next code is tested when it is    *)
(* reserved and used at a later zero, at a full block or after the loop.   *)
(***************************************************************************)
StaysInBuffer == DOMAIN out \subseteq 0 .. out_cap - 1

NeededAsCommented(n) == n + (n \div BlockMax) + 1

\* The bytes main() asks for before it encodes (fake_serial.c:149).
Needed(n) == n + (n \div BlockMax) + 2

(***************************************************************************)
(* The test main() makes is enough: with Needed(in_len) bytes the encoder  *)
(* does not run out of room, and one byte is left for the delimiter that   *)
(* main() appends at enc[enc_len] without a test of its own.               *)
(***************************************************************************)
RoomSuffices ==
  pc = "returned" /\ out_cap >= Needed(Len(in)) => ret > 0 /\ ret < out_cap

(***************************************************************************)
(* A returned encoding is written in full and holds no zero, so that the   *)
(* delimiter ends the frame and nothing before it does.                    *)
(***************************************************************************)
NoDelimiterInside ==
  pc = "returned" /\ ret > 0 =>
    DOMAIN out = 0 .. ret - 1 /\ \A i \in DOMAIN out : out[i] # 0

(***************************************************************************)
(* What each pass of cobs_encode keeps, behind the three properties above: *)
(* the code counts the bytes since its place; each extra byte written has  *)
(* been paid for by a full block; exactly the place of the code is open.   *)
(***************************************************************************)
EncoderInv ==
  /\ write_index = code_index + code
  /\ write_index > read_index
  /\ BlockMax * (write_index - read_index - 1) + code - 1 <= read_index
  /\ \A i \in DOMAIN out : out[i] # 0
  /\ StaysInBuffer
  /\ pc = "entry" => DOMAIN out = {} /\ write_index = 1 /\ code = 1
  /\ pc = "loop" => /\ write_index <= out_cap
                    /\ DOMAIN out = (0 .. write_index - 1) \ {code_index}
  /\ pc = "returned" =>
       IF ret = 0 THEN out_cap <= write_index
       ELSE ret = write_index /\ DOMAIN out = 0 .. ret - 1

\* What has been returned, and what has been closed before that.
Encoded == [i \in 1 .. ret |-> out[i - 1]]
ClosedBlocks == [i \in 1 .. code_index |-> out[i - 1]]

\* The place of the input where the open block starts.
BlockStart == read_index + 2 - code

(***************************************************************************)
(* What each pass of cobs_encode has encoded: the blocks closed so far are *)
(* the beginning of the encoding, the open one holds the bytes read since, *)
(* and the encoding of the rest starts there; at the end nothing is left.  *)
(***************************************************************************)
EncodingInv ==
  /\ pc = "loop" =>
       /\ \A m \in 1 .. code - 1 : out[code_index + m] = in[BlockStart + m - 1]
       /\ Encoding(in) = ClosedBlocks \o EncodeFrom(in)[BlockStart]
  /\ pc = "returned" /\ ret > 0 => Encoded = Encoding(in)

(***************************************************************************)
(* The invariant of the loop of cobs_encode: where its indices are and     *)
(* what it has encoded.  Everything below follows from it.                 *)
(***************************************************************************)
LoopInv == TypeOK /\ EncoderInv /\ EncodingInv

(***************************************************************************)
(* The frame a device sends is the frame qr-c understands: what the loop   *)
(* leaves in the buffer is the COBS encoding of the input, and cobs_decode *)
(* gives the input back, zeros, full blocks and empty strings included.    *)
(***************************************************************************)
RoundTrip ==
  pc = "returned" /\ ret > 0 =>
    Encoded = Encoding(in) /\ cobs_decode(Encoded) = {in}

=============================================================================
