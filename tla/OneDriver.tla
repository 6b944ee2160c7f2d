------------------------------ MODULE OneDriver -----------------------------
(***************************************************************************)
(* The qr-c service with one client that starts and stops jobs, one        *)
(* request after the other, while any number of others look on, send INIT  *)
(* or wrong requests, and the dispatcher answers within the 500 ms.        *)
(* QrService is unchanged; this module says what is assumed of its         *)
(* clients, and the invariant that makes one driver safe.                  *)
(***************************************************************************)
EXTENDS QrService

CONSTANT Driver

ASSUME OneDriverAssumption ==
  /\ Driver \in Clients
  /\ \A h \in Clients \ {Driver} :
       \A r \in Issues[h] : r.valid => r.path # "/start" /\ ~IsStop(r)
  /\ MaxAbandoned = 0

-----------------------------------------------------------------------------
NoneLive == \A j \in Jobs : ~Live(j)

\* JobRunner::stop() has returned and the STOP is on its way to Core or back.
Stopped(h) == pc[h] \in {"submit", "wait"} /\ IsStop(req[h])

\* The other clients never come near the JobRunner.
ObserverInv ==
  \A h \in Clients \ {Driver} :
    /\ pc[h] \in {"idle", "baud", "submit", "wait", "lookup", "state", "reply"}
    /\ pc[h] \in {"baud", "submit", "wait"} =>
         req[h].path = "/command" /\ ~IsStop(req[h])

\* A task is the FINISH_JOB of a job, or what a waiting handler has asked for.
TaskInv ==
  \A i \in DOMAIN q_ :
    \/ q_[i].prom \in Jobs /\ q_[i].kind = "FINISH_JOB"
    \/ /\ q_[i].prom \in Clients /\ pc[q_[i].prom] = "wait"
       /\ q_[i] = TaskOf(WorkOf(req[q_[i].prom]), q_[i].prom)

\* Only an accepted /start is answered 202.
FutureInv ==
  \A h \in Clients :
    /\ pc[h] = "wait" <=> fut[h] # NoFuture
    /\ fut[h].http_status = 202 <=>
         pc[h] = "wait" /\ req[h].path = "/start" /\ fut[h].ok

\* A FINISH_JOB on its way is the only one, and no STOP has overtaken it.
LastFinishInv ==
  \A i \in DOMAIN q_ : q_[i].kind = "FINISH_JOB" =>
    /\ st_ = "RUNNING" /\ NoneLive /\ ~Starting(Driver)
    /\ \A k \in DOMAIN q_ :
         /\ q_[k].kind = "FINISH_JOB" => k = i
         /\ q_[k].prom = Driver /\ IsStop(req[Driver]) => i < k

\* A live job is the one that worker_ owns or is about to own.
LiveInv ==
  \A j \in Jobs : Live(j) =>
    /\ st_ = "RUNNING" /\ ~Starting(Driver) /\ ~Stopped(Driver)
    /\ worker_ = j \/ (pc[Driver] = "assign" /\ jid[Driver] = j)
    /\ pc[Main] \notin {"drain", "exit"}

\* RUNNING is the driver's launch, the job, or the message that it has ended.
CoreInv ==
  /\ Starting(Driver) => st_ = "RUNNING"
  /\ st_ = "RUNNING" => Starting(Driver) \/ ~NoneLive \/ FinishQueued

\* Nobody takes worker_ from the caller of start() or stop().
OwnerInv ==
  /\ pc[Driver] \notin {"threw", "serve", "drain", "exit"}
  /\ pc[Driver] = "baud" => ~IsStop(req[Driver])
  /\ pc[Driver] \in {"baud", "submit", "wait"} =>
       req[Driver].path \in {"/command", "/start", "/stop"}
  /\ pc[Driver] \in {"stop", "joinable", "join", "joining"} =>
       req[Driver].path = "/start" \/ IsStop(req[Driver])
  /\ pc[Driver] \in {"create", "raise", "spawn", "assign"} =>
       worker_ = Nobody /\ req[Driver].path = "/start"
  /\ \A h \in {Driver, Main} :
       /\ pc[h] = "join" => worker_ # Nobody
       /\ pc[h] = "joining" => worker_ # Nobody /\ target[h] = worker_

\* main() leaves run() when every handler is through.
ShutdownInv ==
  /\ pc[Main] \in {"serve", "stop", "joinable", "join", "joining", "drain", "exit"}
  /\ pc[Main] # "serve" => \A h \in Clients : pc[h] = "idle"
  /\ pc[Main] = "exit" => q_ = << >>

(***************************************************************************)
(* What a single driver keeps between Core, the queue and the JobRunner:   *)
(* at any moment a run of Core has one cause, the launch in progress, the  *)
(* thread in worker_ or the FINISH_JOB in the queue, and it is handed from *)
(* one to the next although each lives on a thread of its own.             *)
(***************************************************************************)
DriverInv ==
  /\ ObserverInv /\ TaskInv /\ FutureInv /\ LastFinishInv /\ LiveInv /\ CoreInv
  /\ OwnerInv /\ ShutdownInv /\ NeverCrashes

\* The thread of job j is about to give up its wait, or has just done so.
GivesUp(j) ==
  tpc[j] = "cancelled" \/ (tpc[j] \in {"top", "read", "gate"} /\ ~running_)

\* A STOP of the driver, or ~JobRunner, has cleared running_ and joins the thread.
BeingStopped ==
  LET joins(h) == pc[h] \in {"joinable", "join", "joining"}
  IN  joins(Main) \/ (joins(Driver) /\ IsStop(req[Driver]))

(***************************************************************************)
(* A job is cancelled only by a STOP or by the shutdown, while that waits  *)
(* for the job's thread.  running_ is one flag for all jobs: start() sets  *)
(* it before the thread exists, stop() and the end of every run_job clear  *)
(* it, so a thread could find it cleared on behalf of another job.         *)
(***************************************************************************)
CancelledByStop == \A j \in Jobs : GivesUp(j) => BeingStopped

=============================================================================
