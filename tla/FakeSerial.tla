----------------------------- MODULE FakeSerial -----------------------------
(***************************************************************************)
(* The device of fake_serial/fake_serial.c and the line that carries its   *)
(* bytes to qr-c: a TCP connection which socat bridges to a PTY.           *)
(*                                                                         *)
(* The device serves one connection at a time and sends the frame of its   *)
(* payload again and again.  line holds the bytes that were sent and not   *)
(* yet read, in transit or in the PTY; port says whether the PTY is there. *)
(***************************************************************************)
EXTENDS Cobs

CONSTANTS
  DevicePayloads,  \* what PARCEL_PAYLOAD may be
  EncSize,         \* sizeof(enc)
  LineMax          \* bound: bytes the line holds before send() blocks

\* The payload is a C string: any bytes but zero.
ASSUME TextAssumption == DevicePayloads \subseteq Seq(1 .. Full)

ASSUME SizeAssumption == EncSize \in Nat /\ LineMax \in Nat

VARIABLES
  payload,  \* PARCEL_PAYLOAD
  g_stop,   \* set by the signal handler
  dpc,      \* where main() is
  line, port

deviceVars == <<payload, g_stop, dpc, line, port>>

DeviceGoto(l) == dpc' = l

\* What the device sends: the encoding and the delimiter.
Frame == Append(Encoding(payload), 0)

\* The tests before the frame is sent: "payload too large", cobs_encode failed.
Sendable ==
  /\ Len(payload) + (Len(payload) \div BlockMax) + 2 <= EncSize
  /\ Len(Encoding(payload)) < EncSize

\* on_sig.
Signal ==
  /\ ~g_stop
  /\ g_stop' = TRUE
  /\ UNCHANGED <<payload, dpc, line, port>>

\* accept() returns: a bridge has connected and has made its PTY.
Accept ==
  /\ dpc = "accept" /\ ~port
  /\ DeviceGoto("emit")
  /\ port' = TRUE
  /\ UNCHANGED <<payload, g_stop, line>>

\* The loop around accept() ends, at g_stop or because accept() has failed:
\* close(srv).
Exit ==
  /\ dpc = "accept"
  /\ DeviceGoto("exit")
  /\ UNCHANGED <<payload, g_stop, line, port>>

\* The head of the inner loop, the size test and the encoder; leaving the loop
\* closes the connection, and with it the bridge ends.
Emit ==
  /\ dpc = "emit"
  /\ IF ~g_stop /\ Sendable
     THEN DeviceGoto("send") /\ UNCHANGED <<line, port>>
     ELSE DeviceGoto("accept") /\ port' = FALSE /\ line' = << >>
  /\ UNCHANGED <<payload, g_stop>>

\* send_all() of the whole frame; it blocks while the line is full.  When the
\* bridge is gone the bytes are lost, and send() may or may not say so.
Send ==
  /\ dpc = "send"
  /\ \/ /\ port /\ Len(line) + Len(Frame) <= LineMax
        /\ line' = line \o Frame
        /\ DeviceGoto("sleep")
     \/ ~port /\ DeviceGoto("sleep") /\ UNCHANGED line
     \/ ~port /\ DeviceGoto("accept") /\ UNCHANGED line
  /\ UNCHANGED <<payload, g_stop, port>>

\* msleep(interval_ms) returns.
Wake ==
  /\ dpc = "sleep"
  /\ DeviceGoto("emit")
  /\ UNCHANGED <<payload, g_stop, line, port>>

\* The bridge ends: the PTY disappears with the bytes in it.
BridgeDrops ==
  /\ port
  /\ port' = FALSE /\ line' = << >>
  /\ UNCHANGED <<payload, g_stop, dpc>>

\* A line that an earlier read has left in the middle of a frame.
DeviceInit ==
  /\ payload \in DevicePayloads
  /\ g_stop = FALSE
  /\ \/ dpc = "accept" /\ port = FALSE /\ line = << >>
     \/ /\ dpc = "sleep" /\ port = TRUE /\ Sendable
        /\ \E k \in 1 .. Len(Frame) : line = SubSeq(Frame, k, Len(Frame))

DeviceNext == Signal \/ Accept \/ Exit \/ Emit \/ Send \/ Wake \/ BridgeDrops

=============================================================================
