------------------------------ MODULE QrService -----------------------------
(***************************************************************************)
(* The qr-c service: the HTTP handlers of RestServer.cpp composed with the *)
(* queue of the dispatcher (SerialCore), the JobRunner, its job threads,   *)
(* the JobStore, and the orderly shutdown at the end of main().            *)
(*                                                                         *)
(* A client is one Crow thread serving one connection: it handles one      *)
(* request at a time, and the handlers of different clients interleave.    *)
(* Bodies are abstracted to what the handlers branch on.                   *)
(***************************************************************************)
EXTENDS JobRunner, FiniteSets

CONSTANTS
  Bauds,         \* values a body may give for baudrate
  DefaultBaud,   \* JobRunner::baudrate_ at construction
  Issues,        \* the requests each client may send
  MaxAbandoned   \* bound: abandoned tasks in the queue at one time

VARIABLES
  req,       \* the request each client is being served
  reply,     \* the reply it has been given
  baudrate_  \* JobRunner::baudrate_

handlerVars == <<req, reply, baudrate_>>

vars == <<serialVars, runnerVars, handlerVars>>

-----------------------------------------------------------------------------
Path == {"/health", "/status", "/result", "/command", "/start", "/stop"}

\* valid: the body passes every check that answers 400; baud: the baudrate
\* of an INIT body, a set with at most one element; job: the id in the URL.
Request ==
  [path : Path, valid : BOOLEAN, command : Command,
   baud : {{}} \cup {{b} : b \in Bauds}, job : Jobs \cup {Nobody}]

NoRequest ==
  [path |-> "/health", valid |-> TRUE, command |-> NoCommand,
   baud |-> {}, job |-> Nobody]

ASSUME IssuesAreRequests == Issues \in [Clients -> SUBSET Request]
ASSUME BaudAssumption == DefaultBaud \in Bauds
ASSUME MaxAbandonedAssumption == MaxAbandoned \in Nat

\* HTTP status and the "state" field; code 0 while there is no reply.
Code == {0, 200, 202, 400, 404, 409, 500, 503}

Reply == [code : Code, state : State \cup {"-"}]

NoReply == [code |-> 0, state |-> "-"]

\* cmd_up == w in the handler of /command.
CommandIs(r, w) == r.path = "/command" /\ upper(r.command) = Label(w)

IsStop(r) == r.path = "/stop" \/ CommandIs(r, "STOP")

WorkOf(r) ==
  CASE r.path = "/command" -> [kind |-> "SYNC_COMMAND", command |-> upper(r.command)]
    [] r.path = "/start"   -> [kind |-> "START_JOB", command |-> NoCommand]
    [] OTHER               -> [kind |-> "STOP", command |-> NoCommand]

EntryCaseSensitive(r) ==
  CASE r.path = "/status" -> "state"
    [] r.path = "/result" -> "lookup"
    [] CommandIs(r, "INIT") /\ r.baud # {} -> "baud"
    [] r.path = "/stop" \/ r.command = Label("STOP") -> "stop"
    [] OTHER -> "submit"

\* Where the handler of a valid request begins.
Entry(r) ==
  CASE r.path = "/status" -> "state"
    [] r.path = "/result" -> "lookup"
    [] CommandIs(r, "INIT") /\ r.baud # {} -> "baud"
    [] IsStop(r) -> "stop"
    [] OTHER -> "submit"

\* Where a caller of JobRunner::stop() continues: start() goes on to create
\* the job, a STOP is submitted to the dispatcher, main() destroys the rest.
AfterStop(h) ==
  CASE h = Main -> "drain"
    [] h # Main /\ req[h].path = "/start" -> "create"
    [] OTHER -> "submit"

Answer(h, code, state) ==
  /\ reply' = [reply EXCEPT ![h] = [code |-> code, state |-> state]]
  /\ Goto(h, "reply")

-----------------------------------------------------------------------------
(* The handlers of client h.                                               *)

\* Bound: no more starts are attempted than there are ids left to draw.
StartBudget ==
  Cardinality({h \in Clients : req[h].path = "/start" /\ jid[h] = Nobody})
    < Cardinality({j \in Jobs : ~exists(jobs_, j)})

Receive(h) ==
  /\ pc[h] = "idle" /\ pc[Main] = "serve"
  /\ \E r \in Issues[h] :
       /\ r.path = "/start" => StartBudget
       /\ req' = [req EXCEPT ![h] = r]
       /\ \/ ~r.valid /\ Answer(h, 400, "-")
          \/ r.valid /\ r.path = "/health" /\ Answer(h, 200, "-")
          \/ r.valid /\ r.path # "/health" /\ Goto(h, Entry(r)) /\ UNCHANGED reply
  /\ UNCHANGED <<serialVars, jobs_, running_, worker_, tpc, frame, expired,
                 target, jid, crashed, baudrate_>>

BaudrateUnchecked(h) ==
  /\ pc[h] = "baud"
  /\ baudrate_' = -1
  /\ Goto(h, "submit")
  /\ UNCHANGED <<serialVars, jobs_, running_, worker_, tpc, frame, expired,
                 target, jid, crashed, req, reply>>

\* jobs_.set_baudrate(baud), before Core has been asked.
SetBaudrate(h) ==
  /\ pc[h] = "baud"
  /\ \E b \in req[h].baud : baudrate_' = b
  /\ Goto(h, "submit")
  /\ UNCHANGED <<serialVars, jobs_, running_, worker_, tpc, frame, expired,
                 target, jid, crashed, req, reply>>

SubmitRequest(h) ==
  /\ pc[h] = "submit"
  /\ Submit(h, WorkOf(req[h]))
  /\ Goto(h, "wait")
  /\ UNCHANGED <<jobs_, running_, worker_, tpc, frame, expired, target, jid,
                 crashed, handlerVars>>

StartWithoutStop(h) ==
  /\ pc[h] = "wait"
  /\ Collect(h)
  /\ IF req[h].path = "/start" /\ fut[h].ok
     THEN Goto(h, "create") /\ UNCHANGED reply
     ELSE Answer(h, fut[h].http_status, fut[h].state)
  /\ UNCHANGED <<jobs_, running_, worker_, tpc, frame, expired, target, jid,
                 crashed, req, baudrate_>>

AnswersBeforeStart(h) ==
  /\ pc[h] = "wait"
  /\ Collect(h)
  /\ Answer(h, fut[h].http_status, fut[h].state)
  /\ UNCHANGED <<jobs_, running_, worker_, tpc, frame, expired, target, jid,
                 crashed, req, baudrate_>>

\* wait_for(500ms) found the future ready: fut.get().  An accepted /start
\* goes on to jobs_.start(), which begins with stop().
Answered(h) ==
  /\ pc[h] = "wait"
  /\ Collect(h)
  /\ IF req[h].path = "/start" /\ fut[h].ok
     THEN Goto(h, "stop") /\ UNCHANGED reply
     ELSE Answer(h, fut[h].http_status, fut[h].state)
  /\ UNCHANGED <<jobs_, running_, worker_, tpc, frame, expired, target, jid,
                 crashed, req, baudrate_>>

\* wait_for(500ms) timed out: 503, the future is destroyed, the task stays.
TimedOut(h) ==
  /\ pc[h] = "wait"
  /\ Cardinality({i \in DOMAIN q_ : q_[i].prom = Nobody}) \in 0 .. MaxAbandoned - 1
  /\ Abandon(h)
  /\ Answer(h, 503, "-")
  /\ UNCHANGED <<jobs_, running_, worker_, tpc, frame, expired, target, jid,
                 crashed, req, baudrate_>>

\* The end of /start: 202 with core_.state() read on this thread.
Started(h) ==
  /\ pc[h] = "started"
  /\ Answer(h, 202, st_)
  /\ UNCHANGED <<serialVars, jobs_, running_, worker_, tpc, frame, expired,
                 target, jid, crashed, req, baudrate_>>

\* /result: store_.exists, store_.get.
Lookup(h) ==
  /\ pc[h] = "lookup"
  /\ IF req[h].job \in Jobs /\ exists(jobs_, req[h].job)
     THEN Goto(h, "state") /\ UNCHANGED reply
     ELSE Answer(h, 404, "-")
  /\ UNCHANGED <<serialVars, jobs_, running_, worker_, tpc, frame, expired,
                 target, jid, crashed, req, baudrate_>>

\* /status and the end of /result: core_.state() read on this thread.
ReadState(h) ==
  /\ pc[h] = "state"
  /\ Answer(h, 200, st_)
  /\ UNCHANGED <<serialVars, jobs_, running_, worker_, tpc, frame, expired,
                 target, jid, crashed, req, baudrate_>>

\* Crow turns an exception that leaves a handler into a 500.
Threw(h) ==
  /\ pc[h] = "threw"
  /\ Answer(h, 500, "-")
  /\ UNCHANGED <<serialVars, jobs_, running_, worker_, tpc, frame, expired,
                 target, jid, crashed, req, baudrate_>>

\* The reply reaches the client; the handler's locals are gone.
Deliver(h) ==
  /\ pc[h] = "reply"
  /\ Goto(h, "idle")
  /\ req' = [req EXCEPT ![h] = NoRequest]
  /\ reply' = [reply EXCEPT ![h] = NoReply]
  /\ jid' = [jid EXCEPT ![h] = Nobody]
  /\ UNCHANGED <<serialVars, jobs_, running_, worker_, tpc, frame, expired,
                 target, crashed, baudrate_>>

-----------------------------------------------------------------------------
(* The end of main(): run() returns once every handler is through; then    *)
(* ~JobRunner calls stop(), and ~Dispatcher drains the queue.              *)

ShutdownForgetsJobs ==
  /\ pc[Main] = "serve"
  /\ \A h \in Clients : pc[h] = "idle"
  /\ Goto(Main, "drain")
  /\ UNCHANGED <<serialVars, jobs_, running_, worker_, tpc, frame, expired,
                 target, jid, crashed, handlerVars>>

Shutdown ==
  /\ pc[Main] = "serve"
  /\ \A h \in Clients : pc[h] = "idle"
  /\ Goto(Main, "stop")
  /\ UNCHANGED <<serialVars, jobs_, running_, worker_, tpc, frame, expired,
                 target, jid, crashed, handlerVars>>

Exit ==
  /\ pc[Main] = "drain"
  /\ q_ = << >>
  /\ Goto(Main, "exit")
  /\ UNCHANGED <<serialVars, jobs_, running_, worker_, tpc, frame, expired,
                 target, jid, crashed, handlerVars>>

-----------------------------------------------------------------------------
Init ==
  /\ SerialInit
  /\ jobs_ = [j \in Jobs |-> Absent]
  /\ running_ = FALSE
  /\ worker_ = Nobody
  /\ tpc = [j \in Jobs |-> "none"]
  /\ frame = [j \in Jobs |-> {}]
  /\ expired = [j \in Jobs |-> FALSE]
  /\ pc = [h \in Callers |-> IF h = Main THEN "serve" ELSE "idle"]
  /\ target = [h \in Callers |-> Nobody]
  /\ jid = [h \in Clients |-> Nobody]
  /\ crashed = FALSE
  /\ req = [h \in Clients |-> NoRequest]
  /\ reply = [h \in Clients |-> NoReply]
  /\ baudrate_ = DefaultBaud

\* JobRunner::stop() on the thread of h.
StopStep(h) ==
  /\ \/ StopClear(h)
     \/ Joinable(h, AfterStop(h))
     \/ JoinEnter(h)
     \/ JoinThrow(h)
     \/ JoinReturn(h, AfterStop(h))
  /\ UNCHANGED <<serialVars, handlerVars>>

SpawnBeforeRaise(h) ==
  /\ \/ Create(h)
     \/ /\ pc[h] = "raise" /\ ThreadGoto(jid[h], "top") /\ Goto(h, "spawn")
        /\ UNCHANGED <<jobs_, running_, worker_, frame, expired, target, jid, crashed>>
     \/ /\ pc[h] = "spawn" /\ running_' = TRUE /\ Goto(h, "assign")
        /\ UNCHANGED <<jobs_, worker_, tpc, frame, expired, target, jid, crashed>>
     \/ Assign(h)
  /\ UNCHANGED <<serialVars, handlerVars>>

\* The rest of JobRunner::start().
StartStep(h) ==
  /\ Create(h) \/ Raise(h) \/ Spawn(h) \/ Assign(h)
  /\ UNCHANGED <<serialVars, handlerVars>>

\* What a handler does once it has received a request, the 503 aside.
HandlerStep(h) ==
  \/ SetBaudrate(h) \/ SubmitRequest(h) \/ Answered(h) \/ Started(h)
  \/ Lookup(h) \/ ReadState(h) \/ Threw(h) \/ Deliver(h)
  \/ StopStep(h) \/ StartStep(h)

\* What a job thread must do sooner or later; opening the device is not in
\* its power.
ThreadStep(j) ==
  \/ /\ LeaveLoop(j) \/ ReadFrame(j) \/ Gate(j) \/ StoreResult(j) \/ ClearRunning(j)
     /\ UNCHANGED <<serialVars, handlerVars>>
  \/ SubmitFinish(j) /\ UNCHANGED handlerVars

MainStep == StopStep(Main) \/ Exit

Dispatch == Serve /\ UNCHANGED <<runnerVars, handlerVars>>

Halted == crashed \/ pc[Main] = "exit"

Step ==
  \/ Dispatch
  \/ \E h \in Clients : Receive(h) \/ TimedOut(h) \/ HandlerStep(h)
  \/ \E j \in Jobs :
       \/ ThreadStep(j)
       \/ (OpenSerial(j) \/ Expire(j)) /\ UNCHANGED <<serialVars, handlerVars>>
  \/ Shutdown
  \/ MainStep

Next ==
  \/ ~Halted /\ Step
  \/ Halted /\ UNCHANGED vars

\* Threads that can run do run, and time passes.  Clients need not send
\* anything, the device need not open and the process need not shut down.
Fairness ==
  /\ WF_vars(~Halted /\ Dispatch)
  /\ \A h \in Clients : WF_vars(~Halted /\ HandlerStep(h))
  /\ \A j \in Jobs :
       /\ WF_vars(~Halted /\ ThreadStep(j))
       /\ WF_vars(~Halted /\ Expire(j) /\ UNCHANGED <<serialVars, handlerVars>>)
  /\ WF_vars(~Halted /\ MainStep)

Spec == Init /\ [][Next]_vars /\ Fairness

-----------------------------------------------------------------------------
CallerLabel ==
  {"idle", "baud", "submit", "wait", "stop", "joinable", "join", "joining",
   "threw", "create", "raise", "spawn", "assign", "started", "lookup", "state",
   "reply", "serve", "drain", "exit"}

ThreadLabel ==
  {"none", "top", "read", "gate", "done", "timeout", "cancelled", "clear",
   "finish", "exited"}

TypeOK ==
  /\ SerialTypeOK
  /\ jobs_ \in [Jobs -> JobResultSet(Payloads)]
  /\ running_ \in BOOLEAN
  /\ worker_ \in Jobs \cup {Nobody}
  /\ tpc \in [Jobs -> ThreadLabel]
  /\ frame \in [Jobs -> {{}} \cup {{p} : p \in Payloads}]
  /\ expired \in [Jobs -> BOOLEAN]
  /\ pc \in [Callers -> CallerLabel]
  /\ target \in [Callers -> Jobs \cup {Nobody}]
  /\ jid \in [Clients -> Jobs \cup {Nobody}]
  /\ crashed \in BOOLEAN
  /\ req \in [Clients -> Request]
  /\ reply \in [Clients -> Reply]
  /\ baudrate_ \in Bauds

-----------------------------------------------------------------------------
(* Properties that hold however clients interleave.                        *)

Service == INSTANCE JobService

(***************************************************************************)
(* Seen through GET /result the service is JobService: an id appears once, *)
(* as PENDING, then becomes DONE, TIMEOUT or CANCELLED and never changes   *)
(* again (each exit path of run_job stores and returns; start() draws a    *)
(* new id).                                                                *)
(***************************************************************************)
ImplementsJobService == Service!JobSpec

(***************************************************************************)
(* /start answers 202 exactly when it has created a job: no refusal, 500   *)
(* or 503 leaves a job behind, and the jobId of a 202 is in the store.     *)
(***************************************************************************)
AcceptedHasJob ==
  \A h \in Clients :
    pc[h] = "reply" /\ req[h].path = "/start" =>
      (reply[h].code = 202 <=> jid[h] \in Jobs /\ exists(jobs_, jid[h]))

(***************************************************************************)
(* By the time Core hears FINISH_JOB of a job, the job's result is in the  *)
(* store, and each job says so at most once: a client that sees the state  *)
(* leave RUNNING because a job finished can read the result.               *)
(***************************************************************************)
FinishFollowsResult ==
  \A j \in Jobs :
    LET mine == {i \in DOMAIN q_ : q_[i].kind = "FINISH_JOB" /\ q_[i].prom = j}
    IN  /\ mine # {} => jobs_[j].status \in Terminal /\ tpc[j] = "exited"
        /\ \A i, k \in mine : i = k

(***************************************************************************)
(* Every job ends: a PENDING result becomes DONE, TIMEOUT or CANCELLED,    *)
(* whatever is requested meanwhile (the deadline in run_job).              *)
(***************************************************************************)
JobsEnd ==
  \A j \in Jobs :
    (jobs_[j].status = "PENDING") ~> (jobs_[j].status \in Terminal \/ Halted)

(***************************************************************************)
(* Every request is answered: no handler stays in join() or in the wait    *)
(* for its future.                                                         *)
(***************************************************************************)
RequestsAnswered ==
  \A h \in Clients : (pc[h] # "idle") ~> (pc[h] = "idle" \/ Halted)

-----------------------------------------------------------------------------
(* Properties of the service when one client at a time starts and stops.   *)

\* Core has accepted h's /start and the job thread does not exist yet.
Starting(h) ==
  \/ pc[h] = "wait" /\ fut[h].http_status = 202
  \/ /\ req[h].path = "/start"
     /\ pc[h] \in {"stop", "joinable", "join", "joining", "create", "raise", "spawn"}

FinishQueued == \E i \in DOMAIN q_ : q_[i].kind = "FINISH_JOB"

(***************************************************************************)
(* RUNNING means that a job is running: it is about to be launched, is     *)
(* running, or its FINISH_JOB is on the way (docs/ARCHITECTURE.md:59,      *)
(* "RUNNING -> job running / waiting for frame").                          *)
(***************************************************************************)
RunningHasJob ==
  st_ = "RUNNING" =>
    (\E h \in Clients : Starting(h)) \/ (\E j \in Jobs : Live(j)) \/ FinishQueued

(***************************************************************************)
(* A job runs only while Core is RUNNING, and only one does: the guard of  *)
(* Core::start_job (409 ERR:ALREADY_RUNNING) protects the one serial port  *)
(* although jobs_.start() runs after Core has answered.                    *)
(***************************************************************************)
JobsExclusive ==
  \A j \in Jobs : Live(j) => st_ = "RUNNING" /\ \A k \in Jobs : Live(k) => k = j

(***************************************************************************)
(* A successful STOP has cancelled the wait: when /stop or the command     *)
(* STOP answers 200, no job thread is left (docs/ARCHITECTURE.md:48,       *)
(* "/stop cancels any pending wait and transitions Core to STOPPED").      *)
(***************************************************************************)
StopIsEffective ==
  [][\A h \in Clients :
       /\ pc[h] = "wait" /\ pc'[h] = "reply"
       /\ IsStop(req[h]) /\ reply'[h].code = 200
       => \A j \in Jobs : ~Live(j)]_vars

(***************************************************************************)
(* Core goes from RUNNING back to INIT only when the job is over           *)
(* (docs/ARCHITECTURE.md:65, "Job finished (DONE/TIMEOUT/CANCELLED):       *)
(* RUNNING -> INIT"): FINISH_JOB carries no id, so it must not end the run *)
(* of another job, the one the JobRunner owns now.                         *)
(***************************************************************************)
FinishEndsTheJob ==
  [][st_ = "RUNNING" /\ st_' = "INIT" => worker_ = Nobody \/ ~Live(worker_)]_vars

(***************************************************************************)
(* The process survives: start() never assigns to a joinable worker_       *)
(* (std::terminate) and no thread is joined twice.                         *)
(***************************************************************************)
NeverCrashes == ~crashed

(***************************************************************************)
(* At shutdown ~JobRunner has joined every job thread before the store and *)
(* the dispatcher they use are destroyed, and when main() returns their    *)
(* last FINISH_JOB has been served (order of the locals of main()).        *)
(***************************************************************************)
ShutdownOrderly ==
  /\ pc[Main] \in {"drain", "exit"} => \A j \in Jobs : ~Live(j)
  /\ pc[Main] = "exit" => st_ # "RUNNING"

(***************************************************************************)
(* Core does not stay RUNNING: every job's end reaches it.                 *)
(***************************************************************************)
RunningEnds == (st_ = "RUNNING") ~> (st_ # "RUNNING" \/ Halted)

-----------------------------------------------------------------------------
(* What the documentation and the tests say, where the code differs.       *)

\* Job j waits for a frame and has not been told to give up.
Waiting(j) == running_ /\ tpc[j] \in {"top", "read", "gate"}

(***************************************************************************)
(* docs/ARCHITECTURE.md:48, "/stop cancels any pending wait and            *)
(* transitions Core to STOPPED": a stopped Core has no job waiting.        *)
(***************************************************************************)
StoppedHasNoWait == st_ = "STOPPED" => \A j \in Jobs : ~Waiting(j)

(***************************************************************************)
(* docs/openapi.yaml:298-310 gives /stop the replies 200 and 503.  So no   *)
(* exception of join() becomes a reply, and no request is left without one *)
(* by std::terminate, when callers overlap in JobRunner::start and stop.   *)
(***************************************************************************)
DocumentedStopReplies ==
  /\ ~crashed
  /\ \A h \in Clients :
       pc[h] = "reply" /\ req[h].path = "/stop" => reply[h].code \in {200, 503}

=============================================================================
