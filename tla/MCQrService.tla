---------------------------- MODULE MCQrService -----------------------------
(* TLC instances of QrService: who sends which requests.                   *)
EXTENDS QrService, TLC

CONSTANTS c1, c2

Req(path) == [NoRequest EXCEPT !.path = path]

Cmd(w, caps) ==
  [Req("/command") EXCEPT !.command = [word |-> w, caps |-> caps]]

\* A client that drives the reader: INIT, /start, and both ways to stop.
Lifecycle == {Cmd("INIT", TRUE), Req("/start"), Req("/stop"), Cmd("STOP", FALSE)}

\* A client that looks, and re-initialises with a baudrate.
Observer ==
  {Req("/status"), Req("/health"), Cmd("PING", FALSE), Cmd("START", TRUE),
   [Cmd("INIT", FALSE) EXCEPT !.baud = {9600}],
   [Req("/start") EXCEPT !.valid = FALSE]}
  \cup {[Req("/result") EXCEPT !.job = j] : j \in Jobs}

\* One client starts and stops, another one observes.
DriverAndObserver == [h \in Clients |-> IF h = c1 THEN Lifecycle ELSE Observer]

\* Both start and stop.
TwoDrivers ==
  [h \in Clients |-> {Cmd("INIT", TRUE), Req("/start"), Req("/stop")}]

\* Job ids and clients that send the same requests are interchangeable.
Symmetry == Permutations(Jobs) \cup Permutations(Clients)

MCBauds == {9600, 115200}

=============================================================================
