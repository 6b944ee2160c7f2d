---------------------------- MODULE MCOneDriver -----------------------------
(* TLC instance of OneDriver: c1 starts and stops, the others observe.     *)
EXTENDS MCQrService, OneDriver

=============================================================================
