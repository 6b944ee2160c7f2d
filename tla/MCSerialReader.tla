--------------------------- MODULE MCSerialReader ---------------------------
(* TLC instance of SerialReader.  A block holds up to three bytes, and the *)
(* byte 4 is the prefix.                                                   *)
EXTENDS SerialReader

\* A short payload to report, which holds the prefix a second time; two with ends
\* that read as other texts with the prefix, one of them without the prefix, the
\* other of two blocks, whose frame is too large for qr-c as a whole; and one
\* that is too large for the device.
MCPayloads == {<<4, 4>>, <<2, 4>>, <<4, 4, 4>>, <<4, 4, 4, 4>>}

MCPrefix == <<4>>

=============================================================================
