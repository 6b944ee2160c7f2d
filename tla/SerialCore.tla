----------------------------- MODULE SerialCore -----------------------------
(***************************************************************************)
(* What the Dispatcher promises its callers: Core behind a FIFO queue.     *)
(* A submission appends a task and hands out a future; one task at a time  *)
(* is executed, in submission order, in a single step that changes the     *)
(* Core state and makes the future ready.                                  *)
(*                                                                         *)
(* Dispatcher.tla shows that the mutex, the condition variable and the     *)
(* worker thread implement this; the service modules are built on it.      *)
(***************************************************************************)
EXTENDS Tasks, Sequences

CONSTANTS
  Clients,  \* threads that submit a task and keep its future
  Jobs,     \* job threads, which submit FINISH_JOB and drop the future
  Nobody    \* names the promise whose future has been destroyed

ASSUME PromiseNames ==
  /\ Nobody \notin Clients \cup Jobs
  /\ Clients \cap Jobs = {}

VARIABLES
  st_,  \* Core::st_
  q_,   \* Dispatcher::q_, oldest task first
  fut   \* the future each client holds

serialVars == <<st_, q_, fut>>

-----------------------------------------------------------------------------
Task == TaskSet(Clients \cup Jobs \cup {Nobody})

Ready(c) == fut[c] \notin {NoFuture, Pending}

-----------------------------------------------------------------------------
(* submit_sync, submit_start_job, submit_stop, submit_finish_job.          *)
Submit(c, w) ==
  /\ fut[c] = NoFuture
  /\ q_' = Append(q_, TaskOf(w, c))
  /\ fut' = [fut EXCEPT ![c] = Pending]
  /\ UNCHANGED st_

\* (void)dispatcher_.submit_finish_job(): nobody keeps the future.
SubmitDetached(j, w) ==
  /\ q_' = Append(q_, TaskOf(w, j))
  /\ UNCHANGED <<st_, fut>>

\* One iteration of Dispatcher::loop.
Serve ==
  /\ q_ # << >>
  /\ \E o \in Outcomes(st_, Head(q_)) :
       /\ st_' = o.st
       /\ fut' = Fulfil(fut, Head(q_).prom, o.r)
  /\ q_' = Tail(q_)

\* fut.get() on a ready future.
Collect(c) ==
  /\ Ready(c)
  /\ fut' = [fut EXCEPT ![c] = NoFuture]
  /\ UNCHANGED <<st_, q_>>

\* The queued task keeps its promise, but the promise has no future any more.
Orphan(c) ==
  [i \in DOMAIN q_ |->
     IF q_[i].prom = c THEN [q_[i] EXCEPT !.prom = Nobody] ELSE q_[i]]

\* The client stops waiting and destroys its future; the task stays queued.
Abandon(c) ==
  /\ fut[c] = Pending
  /\ fut' = [fut EXCEPT ![c] = NoFuture]
  /\ q_' = Orphan(c)
  /\ UNCHANGED st_

-----------------------------------------------------------------------------
SerialInit ==
  /\ st_ = "NOT_INIT"
  /\ q_ = << >>
  /\ fut = [c \in Clients |-> NoFuture]

SerialNext ==
  \/ Serve
  \/ \E c \in Clients :
       \/ \E w \in Work : Submit(c, w)
       \/ Collect(c)
       \/ Abandon(c)
  \/ \E j \in Jobs : \E w \in Work : SubmitDetached(j, w)

SerialSpec == SerialInit /\ [][SerialNext]_serialVars

-----------------------------------------------------------------------------
SerialTypeOK ==
  /\ st_ \in State
  /\ q_ \in Seq(Task)
  /\ fut \in [Clients -> Future]

(***************************************************************************)
(* Every waiting caller has exactly one task in the queue, and no task is  *)
(* about to answer a caller that is not waiting: an answer is neither lost *)
(* nor delivered to a later request of the same thread                     *)
(* (Dispatcher::submit_* and the promise in Task).                         *)
(***************************************************************************)
PromiseKept ==
  \A c \in Clients :
    LET mine == {i \in DOMAIN q_ : q_[i].prom = c}
    IN  /\ fut[c] = Pending => mine # {}
        /\ mine # {} => fut[c] = Pending
        /\ \A i, k \in mine : i = k

=============================================================================
