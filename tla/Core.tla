-------------------------------- MODULE Core --------------------------------
(***************************************************************************)
(* core::Core (qr-c/src/core): the four-state machine of the QR reader.    *)
(*                                                                         *)
(* Core has no thread of its own: its methods are functions of the current *)
(* state st_, and the Dispatcher decides when they run.  Each method is an *)
(* operator that yields a record with the state the method leaves (field   *)
(* st) and the Response it returns (field r).                              *)
(*                                                                         *)
(* A command is a word together with the fact that it is spelled in        *)
(* capitals; comparing a string with the literal "STOP" is comparing it    *)
(* with Label("STOP").  Message texts are left out: no caller reads them.  *)
(***************************************************************************)
EXTENDS Integers

State == {"NOT_INIT", "INIT", "RUNNING", "STOPPED"}

Word == {"PING", "INIT", "STOP", "START", "FINISH", "INTERNAL", "OTHER"}

Command == [word : Word, caps : BOOLEAN]

\* The string literal w of the C++ code.
Label(w) == [word |-> w, caps |-> TRUE]

upper(cmd) == [cmd EXCEPT !.caps = TRUE]

Response ==
  [http_status : {200, 202, 400, 409, 500}, ok : BOOLEAN,
   command : Command, state : State]

Accept(code, cmd, s) ==
  [http_status |-> code, ok |-> TRUE, command |-> cmd, state |-> s]

Reject(code, cmd, s) ==
  [http_status |-> code, ok |-> FALSE, command |-> cmd, state |-> s]

Outcome == [st : State, r : Response]

-----------------------------------------------------------------------------
(* The methods of Core.                                                    *)

stop(st) == [st |-> "STOPPED", r |-> Accept(200, Label("STOP"), "STOPPED")]

InitAlsoWhileRunning(st, cmd) ==
  LET c == upper(cmd)
  IN  CASE c = Label("PING") -> [st |-> st, r |-> Accept(200, c, st)]
        [] c = Label("INIT") -> [st |-> "INIT", r |-> Accept(200, c, "INIT")]
        [] c = Label("STOP") -> stop(st)
        [] OTHER -> [st |-> st, r |-> Reject(400, c, st)]

handle_sync_command(st, cmd) ==
  LET c == upper(cmd)
  IN  CASE c = Label("PING") -> [st |-> st, r |-> Accept(200, c, st)]
        [] c = Label("INIT") /\ st = "RUNNING" ->
             [st |-> st, r |-> Reject(409, c, st)]
        [] c = Label("INIT") /\ st # "RUNNING" ->
             [st |-> "INIT", r |-> Accept(200, c, "INIT")]
        [] c = Label("STOP") -> stop(st)
        [] OTHER -> [st |-> st, r |-> Reject(400, c, st)]

start_job(st) ==
  IF st = "INIT"
  THEN [st |-> "RUNNING", r |-> Accept(202, Label("START"), "RUNNING")]
  ELSE [st |-> st, r |-> Reject(409, Label("START"), st)]

finish_job(st) ==
  IF st \in {"NOT_INIT", "STOPPED"}
  THEN [st |-> st, r |-> Reject(409, Label("FINISH"), st)]
  ELSE [st |-> "INIT", r |-> Accept(200, Label("FINISH"), "INIT")]

=============================================================================
