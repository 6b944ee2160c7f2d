--------------------------- MODULE MCCobsEncoder ----------------------------
(* TLC instance: every string over Byte of at most MaxLen bytes.           *)
EXTENDS CobsEncoder, SequencesExt

CONSTANTS MaxLen, MaxCap

MCInputs == BoundedSeq(Byte, MaxLen)

MCOutCaps == 0 .. MaxCap

=============================================================================
