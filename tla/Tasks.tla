-------------------------------- MODULE Tasks -------------------------------
(***************************************************************************)
(* Dispatcher::Task, the future/promise pair that travels with it, and the *)
(* call into Core that executes it.                                        *)
(***************************************************************************)
EXTENDS Core

Kind == {"SYNC_COMMAND", "START_JOB", "STOP", "FINISH_JOB"}

\* What a caller asks for: a kind, and the command of a SYNC_COMMAND.
Work == [kind : Kind, command : Command]

\* std::string command{} of the kinds that do not use it.
NoCommand == [word |-> "OTHER", caps |-> FALSE]

\* Tasks whose promise is named by an element of P.
TaskSet(P) == [kind : Kind, command : Command, prom : P]

TaskOf(w, p) == [kind |-> w.kind, command |-> w.command, prom |-> p]

\* The two states of a future that is not ready, told from a Response by
\* their status.
NoFuture ==
  [http_status |-> -1, ok |-> FALSE, command |-> NoCommand, state |-> "NOT_INIT"]

Pending == [NoFuture EXCEPT !.http_status = 0]

Future == Response \cup {NoFuture, Pending}

\* The call the worker makes for a task.
Run(st, t) ==
  CASE t.kind = "SYNC_COMMAND" -> handle_sync_command(st, t.command)
    [] t.kind = "START_JOB"    -> start_job(st)
    [] t.kind = "FINISH_JOB"   -> finish_job(st)
    [] t.kind = "STOP"         -> stop(st)

\* The catch (...) branch.  The only exception these calls can raise is
\* std::bad_alloc, and only some refusals build a text long enough to be
\* allocated; st_ has not been touched when they do.
InternalError(st) == [st |-> st, r |-> Reject(500, Label("INTERNAL"), st)]

Allocates(st, t) ==
  \/ t.kind = "SYNC_COMMAND" /\ Run(st, t).r.http_status = 400
  \/ t.kind = "START_JOB" /\ st = "RUNNING"

Outcomes(st, t) ==
  {Run(st, t)} \cup {o \in {InternalError(st)} : Allocates(st, t)}

\* set_value: the future named p, if somebody still holds it, becomes ready.
Fulfil(f, p, r) == [c \in DOMAIN f |-> IF c = p THEN r ELSE f[c]]

=============================================================================
