----------------------------- MODULE MCGateway ------------------------------
(* TLC instance of Gateway: a few commands over a few threads.               *)
EXTENDS Gateway

Cmd(c) == [type |-> "command", command |-> c, params |-> "none", timeout_ms |-> {2}]

\* Commands that start a job, three of them with a timeout that does not fit an
\* int; commands that do not; commands refused on the spot.
Starts ==
  {Cmd("START"), [Cmd("START") EXCEPT !.timeout_ms = {2 * IntMax + 1}],
   [Cmd("") EXCEPT !.type = "start", !.timeout_ms = {IntMax + 1}],
   [Cmd("START") EXCEPT !.timeout_ms = {-IntMax - 1}]}

Others == {Cmd("STOP"), [Cmd("INIT") EXCEPT !.params = "good"]}

Refused ==
  {Cmd(""), [Cmd("INIT") EXCEPT !.params = "bad"], [Cmd("") EXCEPT !.type = "other"],
   [Cmd("START") EXCEPT !.timeout_ms = {}]}

\* A job that may outlive POLL_MAX_SECONDS.
LongStart == {[Cmd("START") EXCEPT !.timeout_ms = {IntMax - 1}]}

MCMessages == Starts \cup Others \cup Refused

=============================================================================
