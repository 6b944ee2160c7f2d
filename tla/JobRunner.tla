------------------------------ MODULE JobRunner -----------------------------
(***************************************************************************)
(* app::JobRunner (qr-c/src/app/JobRunner.cpp): start() and stop(), which  *)
(* run on whatever thread calls them, and run_job(), the body of the job   *)
(* thread.  A job thread is named by its job id.                           *)
(*                                                                         *)
(* start() and stop() take no lock.  Every access to running_ or worker_   *)
(* is a step, so callers interleave between any two of them.  The serial   *)
(* line is a choice: an attempt to read ends with a usable payload or with *)
(* none (timeout, closed or silent device, undecodable frame, payload      *)
(* without the QR: prefix).  The clock is the action Expire.               *)
(***************************************************************************)
EXTENDS SerialCore, JobStore

CONSTANTS
  Main,     \* the thread of main(), which destroys the JobRunner
  Payloads  \* payloads with the QR: prefix

ASSUME MainIsApart == Main \notin Clients \cup Jobs \cup {Nobody}

VARIABLES
  jobs_,     \* JobStore::jobs_
  running_,  \* JobRunner::running_
  worker_,   \* JobRunner::worker_: the job thread it owns, or Nobody
  tpc,       \* where each job thread is in run_job()
  frame,     \* the payload it has read: a set with at most one element
  expired,   \* whether its deadline has passed
  pc,        \* where each caller is
  target,    \* the thread a caller in join() waits for
  jid,       \* the id a caller of start() has generated
  crashed    \* std::terminate or a fault has ended the process

runnerVars == <<jobs_, running_, worker_, tpc, frame, expired, pc, target, jid, crashed>>

Callers == Clients \cup {Main}

Goto(h, l) == pc' = [pc EXCEPT ![h] = l]

ThreadGoto(j, l) == tpc' = [tpc EXCEPT ![j] = l]

Live(j) == tpc[j] \notin {"none", "exited"}

-----------------------------------------------------------------------------
(* stop(), called by h; ret is where h continues.                          *)

StopClear(h) ==
  /\ pc[h] = "stop"
  /\ running_' = FALSE
  /\ Goto(h, "joinable")
  /\ UNCHANGED <<jobs_, worker_, tpc, frame, expired, target, jid, crashed>>

NeverJoin(h, ret) ==
  /\ pc[h] = "joinable"
  /\ Goto(h, ret)
  /\ UNCHANGED <<jobs_, running_, worker_, tpc, frame, expired, target, jid, crashed>>

Joinable(h, ret) ==
  /\ pc[h] = "joinable"
  /\ Goto(h, IF worker_ = Nobody THEN ret ELSE "join")
  /\ UNCHANGED <<jobs_, running_, worker_, tpc, frame, expired, target, jid, crashed>>

\* Another caller got hold of the thread since joinable() was evaluated.
JoinRaced(h) ==
  \/ worker_ = Nobody
  \/ \E g \in Callers \ {h} : pc[g] = "joining" /\ target[g] = worker_

\* join() blocks.  With musl a second joiner of the same thread blocks too.
JoinEnter(h) ==
  /\ pc[h] = "join"
  /\ worker_ # Nobody
  /\ target' = [target EXCEPT ![h] = worker_]
  /\ Goto(h, "joining")
  /\ UNCHANGED <<jobs_, running_, worker_, tpc, frame, expired, jid, crashed>>

\* join() throws std::system_error: always on a handle that is empty by now,
\* with glibc also for the second joiner.
JoinThrow(h) ==
  /\ pc[h] = "join"
  /\ JoinRaced(h)
  /\ Goto(h, "threw")
  /\ UNCHANGED <<jobs_, running_, worker_, tpc, frame, expired, target, jid, crashed>>

\* The thread has ended: join() empties the handle and returns.  A second
\* joiner touches a thread that was already released: it may also fault.
JoinReturn(h, ret) ==
  /\ pc[h] = "joining"
  /\ tpc[target[h]] = "exited"
  /\ \/ /\ worker_' = Nobody
        /\ Goto(h, ret)
        /\ target' = [target EXCEPT ![h] = Nobody]
        /\ UNCHANGED crashed
     \/ /\ worker_ # target[h]
        /\ crashed' = TRUE
        /\ UNCHANGED <<worker_, pc, target>>
  /\ UNCHANGED <<jobs_, running_, tpc, frame, expired, jid>>

-----------------------------------------------------------------------------
(* start(), called by h, after the stop() it begins with.                  *)

\* gen_id() draws 32 random bits; the model draws an id not used before.
Create(h) ==
  /\ pc[h] = "create"
  /\ \E id \in Jobs :
       /\ ~exists(jobs_, id)
       /\ jobs_' = create(jobs_, id)
       /\ jid' = [jid EXCEPT ![h] = id]
  /\ Goto(h, "raise")
  /\ UNCHANGED <<running_, worker_, tpc, frame, expired, target, crashed>>

Raise(h) ==
  /\ pc[h] = "raise"
  /\ running_' = TRUE
  /\ Goto(h, "spawn")
  /\ UNCHANGED <<jobs_, worker_, tpc, frame, expired, target, jid, crashed>>

\* The std::thread constructor: the job thread exists from here on.
Spawn(h) ==
  /\ pc[h] = "spawn"
  /\ ThreadGoto(jid[h], "top")
  /\ Goto(h, "assign")
  /\ UNCHANGED <<jobs_, running_, worker_, frame, expired, target, jid, crashed>>

\* worker_ = std::move(thread): std::terminate if worker_ is joinable.
Assign(h) ==
  /\ pc[h] = "assign"
  /\ IF worker_ = Nobody
     THEN worker_' = jid[h] /\ Goto(h, "started") /\ UNCHANGED crashed
     ELSE crashed' = TRUE /\ UNCHANGED <<worker_, pc>>
  /\ UNCHANGED <<jobs_, running_, tpc, frame, expired, target, jid>>

-----------------------------------------------------------------------------
(* run_job(), the thread of job j.                                         *)

Expire(j) ==
  /\ tpc[j] \in {"top", "read", "gate"} /\ ~expired[j]
  /\ expired' = [expired EXCEPT ![j] = TRUE]
  /\ UNCHANGED <<jobs_, running_, worker_, tpc, frame, pc, target, jid, crashed>>

NoDeadline(j) ==
  /\ tpc[j] = "top"
  /\ ~running_ /\ ThreadGoto(j, "cancelled")
  /\ UNCHANGED <<jobs_, running_, worker_, frame, expired, pc, target, jid, crashed>>

\* The head of the loop, when it ends it: the flag was cleared, or the
\* deadline has passed.
LeaveLoop(j) ==
  /\ tpc[j] = "top"
  /\ \/ ~running_ /\ ThreadGoto(j, "cancelled")
     \/ running_ /\ expired[j] /\ ThreadGoto(j, "timeout")
  /\ UNCHANGED <<jobs_, running_, worker_, frame, expired, pc, target, jid, crashed>>

\* open() succeeded.  When it fails the thread sleeps and is where it was.
OpenSerial(j) ==
  /\ tpc[j] = "top"
  /\ running_ /\ ~expired[j]
  /\ ThreadGoto(j, "read")
  /\ UNCHANGED <<jobs_, running_, worker_, frame, expired, pc, target, jid, crashed>>

\* read_cobs_frame() returns, and the frame is decoded.  Its last look at
\* running_ is just before the read that completes a frame.
ReadFrame(j) ==
  /\ tpc[j] = "read"
  /\ \E f \in {{}} \cup {{p} : p \in Payloads} :
       /\ f # {} => running_
       /\ frame' = [frame EXCEPT ![j] = f]
  /\ ThreadGoto(j, "gate")
  /\ UNCHANGED <<jobs_, running_, worker_, expired, pc, target, jid, crashed>>

\* The test of running_ after the read, and the dispatch on the payload.
Gate(j) ==
  /\ tpc[j] = "gate"
  /\ ThreadGoto(j, CASE ~running_ -> "cancelled"
                     [] running_ /\ frame[j] # {} -> "done"
                     [] running_ /\ frame[j] = {} -> "top")
  /\ UNCHANGED <<jobs_, running_, worker_, frame, expired, pc, target, jid, crashed>>

NoReturnAfterDone(j) ==
  /\ \/ /\ tpc[j] = "done"
        /\ \E p \in frame[j] : jobs_' = set_done(jobs_, j, p)
        /\ ThreadGoto(j, "top")
     \/ tpc[j] = "timeout" /\ jobs_' = set_timeout(jobs_, j) /\ ThreadGoto(j, "clear")
     \/ tpc[j] = "cancelled" /\ jobs_' = set_cancelled(jobs_, j) /\ ThreadGoto(j, "clear")
  /\ UNCHANGED <<running_, worker_, frame, expired, pc, target, jid, crashed>>

CancelNotStored(j) ==
  /\ \/ tpc[j] = "done" /\ \E p \in frame[j] : jobs_' = set_done(jobs_, j, p)
     \/ tpc[j] = "timeout" /\ jobs_' = set_timeout(jobs_, j)
     \/ tpc[j] = "cancelled" /\ UNCHANGED jobs_
  /\ ThreadGoto(j, "clear")
  /\ UNCHANGED <<running_, worker_, frame, expired, pc, target, jid, crashed>>

\* store_.set_done / set_timeout / set_cancelled.
StoreResult(j) ==
  /\ \/ tpc[j] = "done" /\ \E p \in frame[j] : jobs_' = set_done(jobs_, j, p)
     \/ tpc[j] = "timeout" /\ jobs_' = set_timeout(jobs_, j)
     \/ tpc[j] = "cancelled" /\ jobs_' = set_cancelled(jobs_, j)
  /\ ThreadGoto(j, "clear")
  /\ UNCHANGED <<running_, worker_, frame, expired, pc, target, jid, crashed>>

ClearRunning(j) ==
  /\ tpc[j] = "clear"
  /\ running_' = FALSE
  /\ ThreadGoto(j, "finish")
  /\ UNCHANGED <<jobs_, worker_, frame, expired, pc, target, jid, crashed>>

FinishWork == [kind |-> "FINISH_JOB", command |-> NoCommand]

ExitWithoutFinish(j) ==
  /\ tpc[j] = "finish"
  /\ ThreadGoto(j, "exited")
  /\ UNCHANGED serialVars
  /\ UNCHANGED <<jobs_, running_, worker_, frame, expired, pc, target, jid, crashed>>

\* dispatcher_.submit_finish_job() and return, which ends the locals.
SubmitFinish(j) ==
  /\ tpc[j] = "finish"
  /\ SubmitDetached(j, FinishWork)
  /\ ThreadGoto(j, "exited")
  /\ frame' = [frame EXCEPT ![j] = {}]
  /\ expired' = [expired EXCEPT ![j] = FALSE]
  /\ UNCHANGED <<jobs_, running_, worker_, pc, target, jid, crashed>>

=============================================================================
