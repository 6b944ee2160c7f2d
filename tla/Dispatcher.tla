----------------------------- MODULE Dispatcher -----------------------------
(***************************************************************************)
(* app::Dispatcher (qr-c/src/app/Dispatcher.hpp): the mutex m_, the        *)
(* condition variable cv_, the queue q_, the flag stopping_ and the worker *)
(* thread that owns Core.                                                  *)
(*                                                                         *)
(* Each client makes one submit_* call and waits for its future; each      *)
(* stopper makes one stop() call.  A critical section of m_ is one action; *)
(* what happens outside it (the notification, the join, the call into Core *)
(* and set_value) is an action of its own.                                 *)
(***************************************************************************)
EXTENDS Tasks, Sequences

CONSTANTS
  Clients,     \* threads that call submit_*
  Stoppers,    \* threads that call stop()
  Nobody,      \* no task in the worker's hand
  Submissions  \* the calls clients make: kind and command

ASSUME NobodyIsNoClient == Nobody \notin Clients

ASSUME SubmissionsAreWork == Submissions \subseteq Work

Task == TaskSet(Clients \cup {Nobody})

VARIABLES
  st_,        \* Core::st_
  q_,         \* Dispatcher::q_
  stopping_,  \* Dispatcher::stopping_
  wpc,        \* where the worker is in loop()
  task,       \* the Task the worker has popped
  resp,       \* the Response it has computed
  cpc,        \* where each client is in submit_*
  spc,        \* where each stopper is in stop()
  fut         \* the future each client holds

vars == <<st_, q_, stopping_, wpc, task, resp, cpc, spc, fut>>

-----------------------------------------------------------------------------
\* The abstract queue holds the task in the worker's hand until Core has run
\* it, and the abstract future is ready from that moment on.
AbstractQueue == IF wpc = "execute" THEN <<task>> \o q_ ELSE q_

AbstractFut ==
  [c \in Clients |-> IF wpc = "set" /\ task.prom = c THEN resp ELSE fut[c]]

Serial == INSTANCE SerialCore
            WITH q_ <- AbstractQueue, fut <- AbstractFut, Jobs <- {}

NoTask == [kind |-> "STOP", command |-> NoCommand, prom |-> Nobody]

\* Both notify_one and notify_all: the worker is the only thread that waits.
Woken(pc) == IF pc = "waiting" THEN "check" ELSE pc

-----------------------------------------------------------------------------
(* Callers of submit_*.                                                    *)

PushWithoutNotify(c) ==
  /\ cpc[c] = "idle"
  /\ \E w \in Submissions : q_' = Append(q_, TaskOf(w, c))
  /\ fut' = [fut EXCEPT ![c] = Pending]
  /\ cpc' = [cpc EXCEPT ![c] = "wait"]
  /\ UNCHANGED <<st_, stopping_, wpc, task, resp, spc>>

PushInFront(c) ==
  /\ cpc[c] = "idle"
  /\ \E w \in Submissions : q_' = <<TaskOf(w, c)>> \o q_
  /\ fut' = [fut EXCEPT ![c] = Pending]
  /\ cpc' = [cpc EXCEPT ![c] = "notify"]
  /\ UNCHANGED <<st_, stopping_, wpc, task, resp, spc>>

\* submit_*: create the promise, then the critical section of push().  There
\* is no test of stopping_.
Push(c) ==
  /\ cpc[c] = "idle"
  /\ \E w \in Submissions : q_' = Append(q_, TaskOf(w, c))
  /\ fut' = [fut EXCEPT ![c] = Pending]
  /\ cpc' = [cpc EXCEPT ![c] = "notify"]
  /\ UNCHANGED <<st_, stopping_, wpc, task, resp, spc>>

\* cv_.notify_one() at the end of push().
NotifyOne(c) ==
  /\ cpc[c] = "notify"
  /\ wpc' = Woken(wpc)
  /\ cpc' = [cpc EXCEPT ![c] = "wait"]
  /\ UNCHANGED <<st_, q_, stopping_, task, resp, spc, fut>>

\* fut.get() of the caller.
Get(c) ==
  /\ cpc[c] = "wait"
  /\ fut[c] \notin {NoFuture, Pending}
  /\ fut' = [fut EXCEPT ![c] = NoFuture]
  /\ cpc' = [cpc EXCEPT ![c] = "done"]
  /\ UNCHANGED <<st_, q_, stopping_, wpc, task, resp, spc>>

-----------------------------------------------------------------------------
(* Callers of stop().                                                      *)

StopFlag(s) ==
  /\ spc[s] = "idle"
  /\ spc' = [spc EXCEPT ![s] = IF stopping_ THEN "returned" ELSE "notify"]
  /\ stopping_' = TRUE
  /\ UNCHANGED <<st_, q_, wpc, task, resp, cpc, fut>>

StopWithoutNotify(s) ==
  /\ spc[s] = "notify"
  /\ spc' = [spc EXCEPT ![s] = "join"]
  /\ UNCHANGED <<st_, q_, stopping_, wpc, task, resp, cpc, fut>>

StopNotify(s) ==
  /\ spc[s] = "notify"
  /\ wpc' = Woken(wpc)
  /\ spc' = [spc EXCEPT ![s] = "join"]
  /\ UNCHANGED <<st_, q_, stopping_, task, resp, cpc, fut>>

StopJoin(s) ==
  /\ spc[s] = "join"
  /\ wpc = "exited"
  /\ spc' = [spc EXCEPT ![s] = "returned"]
  /\ UNCHANGED <<st_, q_, stopping_, wpc, task, resp, cpc, fut>>

-----------------------------------------------------------------------------
(* The worker thread, loop().                                              *)

\* cv_.wait with the predicate false: release m_ and block.
LoopWait ==
  /\ wpc = "check"
  /\ ~stopping_ /\ q_ = << >>
  /\ wpc' = "waiting"
  /\ UNCHANGED <<st_, q_, stopping_, task, resp, cpc, spc, fut>>

\* A condition variable may wake without a notification.
SpuriousWakeup ==
  /\ wpc = "waiting"
  /\ wpc' = "check"
  /\ UNCHANGED <<st_, q_, stopping_, task, resp, cpc, spc, fut>>

ExitWithoutDraining ==
  /\ wpc = "check"
  /\ stopping_
  /\ wpc' = "exited"
  /\ UNCHANGED <<st_, q_, stopping_, task, resp, cpc, spc, fut>>

LoopExit ==
  /\ wpc = "check"
  /\ stopping_ /\ q_ = << >>
  /\ wpc' = "exited"
  /\ UNCHANGED <<st_, q_, stopping_, task, resp, cpc, spc, fut>>

LoopTake ==
  /\ wpc = "check"
  /\ q_ # << >>
  /\ task' = Head(q_)
  /\ q_' = Tail(q_)
  /\ wpc' = "execute"
  /\ UNCHANGED <<st_, stopping_, resp, cpc, spc, fut>>

ExecuteForgetsResponse ==
  /\ wpc = "execute"
  /\ \E o \in Outcomes(st_, task) :
       st_' = o.st /\ resp' = IF o.r.ok THEN o.r ELSE Pending
  /\ wpc' = "set"
  /\ UNCHANGED <<q_, stopping_, task, cpc, spc, fut>>

\* The call into Core, outside m_.
LoopExecute ==
  /\ wpc = "execute"
  /\ \E o \in Outcomes(st_, task) : st_' = o.st /\ resp' = o.r
  /\ wpc' = "set"
  /\ UNCHANGED <<q_, stopping_, task, cpc, spc, fut>>

SetValueOnlyIfOk ==
  /\ wpc = "set"
  /\ fut' = IF resp.ok THEN Fulfil(fut, task.prom, resp) ELSE fut
  /\ task' = NoTask
  /\ resp' = Pending
  /\ wpc' = "check"
  /\ UNCHANGED <<st_, q_, stopping_, cpc, spc>>

\* t.prom.set_value(r), and the end of the iteration.
LoopSetValue ==
  /\ wpc = "set"
  /\ fut' = Fulfil(fut, task.prom, resp)
  /\ task' = NoTask
  /\ resp' = Pending
  /\ wpc' = "check"
  /\ UNCHANGED <<st_, q_, stopping_, cpc, spc>>

-----------------------------------------------------------------------------
Init ==
  /\ st_ = "NOT_INIT"
  /\ q_ = << >>
  /\ stopping_ = FALSE
  /\ wpc = "check"
  /\ task = NoTask
  /\ resp = Pending
  /\ cpc = [c \in Clients |-> "idle"]
  /\ spc = [s \in Stoppers |-> "idle"]
  /\ fut = [c \in Clients |-> NoFuture]

Worker == LoopWait \/ LoopExit \/ LoopTake \/ LoopExecute \/ LoopSetValue

\* Every call has been made and has returned (or can never return: its task
\* was pushed after the worker left).
AllDone ==
  /\ wpc = "exited"
  /\ \A c \in Clients : cpc[c] = "done" \/ (cpc[c] = "wait" /\ fut[c] = Pending)
  /\ \A s \in Stoppers : spc[s] = "returned"
  /\ UNCHANGED vars

Next ==
  \/ Worker
  \/ SpuriousWakeup
  \/ \E c \in Clients : Push(c) \/ NotifyOne(c) \/ Get(c)
  \/ \E s \in Stoppers : StopFlag(s) \/ StopNotify(s) \/ StopJoin(s)
  \/ AllDone

\* A thread that can take its next step takes it; nobody has to start a call.
Fairness ==
  /\ WF_vars(Worker)
  /\ \A c \in Clients : WF_vars(NotifyOne(c))
  /\ \A s \in Stoppers : WF_vars(StopNotify(s)) /\ WF_vars(StopJoin(s))

Spec == Init /\ [][Next]_vars /\ Fairness

-----------------------------------------------------------------------------
TypeOK ==
  /\ st_ \in State
  /\ q_ \in Seq(Task)
  /\ stopping_ \in BOOLEAN
  /\ wpc \in {"check", "waiting", "execute", "set", "exited"}
  /\ task \in Task
  /\ resp \in Response \cup {Pending}
  /\ wpc = "set" => resp \in Response
  /\ cpc \in [Clients -> {"idle", "notify", "wait", "done"}]
  /\ spc \in [Stoppers -> {"idle", "notify", "join", "returned"}]
  /\ fut \in [Clients -> Future]

(***************************************************************************)
(* No wakeup is lost: while the worker sleeps on cv_ although there is     *)
(* work or a stop request, some thread is between its critical section and *)
(* its notification (push() and stop() notify after unlocking m_).         *)
(***************************************************************************)
NoLostWakeup ==
  wpc = "waiting" /\ (q_ # << >> \/ stopping_) =>
    \/ \E c \in Clients : cpc[c] = "notify"
    \/ \E s \in Stoppers : spc[s] = "notify"

\* The worker has popped c's task and not yet answered it.
InHand(c) == wpc \in {"execute", "set"} /\ task.prom = c

Queued(c) == \E i \in DOMAIN q_ : q_[i].prom = c

(***************************************************************************)
(* No promise is lost or fulfilled twice: a caller waits exactly while its *)
(* task is in q_ or in the worker's hand, never in both and never twice in *)
(* q_ (loop() moves the promise out of q_ and fulfils it once, on the      *)
(* normal and on the exception path).                                      *)
(***************************************************************************)
PromiseInv ==
  /\ \A c \in Clients : fut[c] = Pending => InHand(c) \/ Queued(c)
  /\ \A c \in Clients : cpc[c] = "idle" => fut[c] = NoFuture
  /\ wpc \in {"execute", "set"} =>
       /\ task.prom \in Clients
       /\ fut[task.prom] = Pending
       /\ ~Queued(task.prom)
  /\ \A i \in DOMAIN q_ : q_[i].prom \in Clients /\ fut[q_[i].prom] = Pending
  /\ \A i, k \in DOMAIN q_ : q_[i].prom = q_[k].prom => i = k

(***************************************************************************)
(* stop() drains: when the worker leaves loop(), no caller is left waiting *)
(* for an answer.                                                          *)
(***************************************************************************)
DrainedAtExit ==
  [][wpc # "exited" /\ wpc' = "exited" => \A c \in Clients : fut[c] # Pending]_vars

(***************************************************************************)
(* Callers see Core behind a FIFO queue that runs one task at a time: the  *)
(* worker's take / execute / set_value sequence and its interleaving with  *)
(* submitters is indistinguishable from SerialCore.                        *)
(***************************************************************************)
ImplementsSerialCore == Serial!SerialSpec

(***************************************************************************)
(* A task that was pushed while the worker had not left loop() is answered,*)
(* whatever its outcome, even when stop() is called meanwhile.             *)
(***************************************************************************)
EveryTaskAnswered ==
  \A c \in Clients :
    (fut[c] = Pending /\ wpc # "exited") ~> (fut[c] \notin {NoFuture, Pending})

(***************************************************************************)
(* The stop() call that sets stopping_ returns: its notification reaches   *)
(* the worker, which drains q_ and leaves loop(), and the join ends.       *)
(***************************************************************************)
StopReturns == \A s \in Stoppers : (spc[s] = "notify") ~> (spc[s] = "returned")

=============================================================================
