-------------------------- MODULE DispatcherProofs --------------------------
(***************************************************************************)
(* Proofs about Dispatcher, for any number of submitting and stopping      *)
(* threads: type correctness, no lost wakeup, no lost promise, draining at *)
(* exit, and the refinement of SerialCore.                                 *)
(***************************************************************************)
EXTENDS Dispatcher, TasksProofs, SequenceTheorems, TLAPS

\* The task a caller submits is a Task.
LEMMA SubmissionType ==
  ASSUME NEW c \in Clients, NEW w \in Submissions
  PROVE  TaskOf(w, c) \in Task /\ TaskOf(w, c).prom = c
BY Zenon, SubmissionsAreWork DEF TaskOf, Task, TaskSet,  Work

LEMMA NoTaskType == NoTask \in Task
BY Zenon DEF NoTask, Task, TaskSet,  Kind, NoCommand, Command, Word

-----------------------------------------------------------------------------
LEMMA InitType == Init => TypeOK
<1> SUFFICES ASSUME Init PROVE TypeOK
  BY Zenon
<1>1. q_ \in Seq(Task)
  BY DEF Init
<1>2. fut \in [Clients -> Future]
  BY Zenon DEF Init, Future
<1>3. st_ \in State /\ resp \in Response \cup {Pending} /\ task \in Task
  BY Zenon, NoTaskType DEF Init, State
<1> QED BY Zenon, <1>1, <1>2, <1>3 DEF Init, TypeOK

LEMMA StepType == TypeOK /\ [Next]_vars => TypeOK'
<1> SUFFICES ASSUME TypeOK, [Next]_vars PROVE TypeOK'
  BY Zenon
<1> USE DEF TypeOK
<1>1. ASSUME NEW c \in Clients, Push(c) PROVE TypeOK'
  <2>1. PICK w \in Submissions : q_' = Append(q_, TaskOf(w, c))
    BY Zenon, <1>1 DEF Push
  <2>2. q_' \in Seq(Task)
    BY Zenon, <2>1, SubmissionType, AppendProperties
  <2>3. fut' \in [Clients -> Future]
    BY Zenon, <1>1 DEF Push, Future, Pending
  <2> QED BY Zenon, <1>1, <2>2, <2>3 DEF Push
<1>2. ASSUME NEW c \in Clients, NotifyOne(c) PROVE TypeOK'
  BY Zenon, <1>2 DEF NotifyOne, Woken
<1>3. ASSUME NEW c \in Clients, Get(c) PROVE TypeOK'
  BY Zenon, <1>3 DEF Get, Future, NoFuture
<1>4. ASSUME NEW s \in Stoppers, StopFlag(s) PROVE TypeOK'
  BY Zenon, <1>4 DEF StopFlag
<1>5. ASSUME NEW s \in Stoppers, StopNotify(s) PROVE TypeOK'
  BY Zenon, <1>5 DEF StopNotify, Woken
<1>6. ASSUME NEW s \in Stoppers, StopJoin(s) PROVE TypeOK'
  BY Zenon, <1>6 DEF StopJoin
<1>7. CASE LoopWait
  BY Zenon, <1>7 DEF LoopWait
<1>8. CASE SpuriousWakeup
  BY Zenon, <1>8 DEF SpuriousWakeup
<1>9. CASE LoopExit
  BY Zenon, <1>9 DEF LoopExit
<1>10. CASE LoopTake
  BY Zenon, <1>10, HeadTailProperties DEF LoopTake
<1>11. CASE LoopExecute
  <2>1. st_' \in State /\ resp' \in Response
    BY <1>11, OutcomeType DEF LoopExecute, Task
  <2> QED BY Zenon, <1>11, <2>1 DEF LoopExecute
<1>12. CASE LoopSetValue
  <2>1. fut' \in [Clients -> Future]
    BY Zenon, <1>12 DEF LoopSetValue, Fulfil, Future
  <2> QED BY Zenon, <1>12, <2>1, NoTaskType DEF LoopSetValue
<1>13. CASE UNCHANGED vars
  BY Zenon, <1>13 DEF vars
<1> QED
  BY Zenon, <1>1, <1>2, <1>3, <1>4, <1>5, <1>6, <1>7, <1>8, <1>9, <1>10, <1>11, <1>12,
     <1>13 DEF Next, Worker, AllDone

(***************************************************************************)
(* Every variable of the dispatcher keeps its type: in particular the      *)
(* worker never holds set_value without a computed response.               *)
(***************************************************************************)
THEOREM TypeCorrect == Spec => []TypeOK
BY InitType, StepType, PTL DEF Spec

-----------------------------------------------------------------------------
(***************************************************************************)
(* No lost wakeup in push() / stop() / cv_.wait: whenever the worker       *)
(* sleeps with work or a stop request at hand, a notification is still to  *)
(* come.  The invariant is inductive together with the types: the          *)
(* predicate of wait becomes true only in a critical section that is       *)
(* followed by a notification.                                             *)
(***************************************************************************)
THEOREM WakeupNotLost == Spec => []NoLostWakeup
<1>1. Init => NoLostWakeup
  BY Zenon DEF Init, NoLostWakeup
<1>2. TypeOK /\ NoLostWakeup /\ [Next]_vars => NoLostWakeup'
  <2> SUFFICES ASSUME TypeOK, NoLostWakeup, [Next]_vars PROVE NoLostWakeup'
    BY Zenon
  <2> USE DEF NoLostWakeup
  <2>1. ASSUME NEW c \in Clients, Push(c) PROVE NoLostWakeup'
    BY Zenon, <2>1 DEF TypeOK, Push
  <2>2. ASSUME NEW c \in Clients, NotifyOne(c) PROVE NoLostWakeup'
    BY Zenon, <2>2 DEF NotifyOne, Woken
  <2>3. ASSUME NEW c \in Clients, Get(c) PROVE NoLostWakeup'
    BY Zenon, <2>3 DEF TypeOK, Get
  <2>4. ASSUME NEW s \in Stoppers, StopFlag(s) PROVE NoLostWakeup'
    BY Zenon, <2>4 DEF TypeOK, StopFlag
  <2>5. ASSUME NEW s \in Stoppers, StopNotify(s) PROVE NoLostWakeup'
    BY Zenon, <2>5 DEF StopNotify, Woken
  <2>6. ASSUME NEW s \in Stoppers, StopJoin(s) PROVE NoLostWakeup'
    BY Zenon, <2>6 DEF StopJoin
  <2>7. CASE Worker \/ SpuriousWakeup
    BY Zenon, <2>7 DEF Worker, SpuriousWakeup, LoopWait, LoopExit, LoopTake,
                LoopExecute, LoopSetValue
  <2>8. CASE UNCHANGED vars
    BY Zenon, <2>8 DEF vars
  <2> QED
    BY Zenon, <2>1, <2>2, <2>3, <2>4, <2>5, <2>6, <2>7, <2>8 DEF Next, AllDone
<1> QED BY <1>1, <1>2, TypeCorrect, PTL DEF Spec

-----------------------------------------------------------------------------
LEMMA InitPromise == Init => PromiseInv
BY NotReady DEF Init, PromiseInv, InHand, Queued

\* push(): the new task is the only one of its caller.
LEMMA PushPromise ==
  ASSUME TypeOK, PromiseInv, NEW c \in Clients, Push(c)
  PROVE  PromiseInv'
<1> USE DEF TypeOK
<1>1. PICK w \in Submissions : q_' = Append(q_, TaskOf(w, c))
  BY Zenon DEF Push
<1>2. /\ DOMAIN q_ = 1..Len(q_) /\ DOMAIN q_' = 1..(Len(q_) + 1)
      /\ Len(q_) \in Nat
      /\ \A i \in DOMAIN q_ : q_'[i] = q_[i]
      /\ q_'[Len(q_) + 1].prom = c
  BY <1>1, SubmissionType, AppendProperties
<1>3. /\ fut[c] = NoFuture /\ fut'[c] = Pending
      /\ \A d \in Clients \ {c} : fut'[d] = fut[d] /\ cpc'[d] = cpc[d]
      /\ cpc'[c] = "notify"
      /\ wpc' = wpc /\ task' = task
  BY Zenon DEF Push, PromiseInv
<1>4. /\ \A i \in DOMAIN q_ : q_[i].prom # c
      /\ ~InHand(c)
  BY <1>3, NotReady DEF PromiseInv, InHand
<1>5. Queued(c)' /\ \A d \in Clients \ {c} : Queued(d)' <=> Queued(d)
  BY <1>2 DEF Queued
<1> QED BY <1>2, <1>3, <1>4, <1>5, NotReady DEF PromiseInv, InHand

\* The critical section of loop(): the oldest task moves into the hand.
LEMMA TakePromise ==
  ASSUME TypeOK, PromiseInv, LoopTake
  PROVE  PromiseInv'
<1> USE DEF TypeOK
<1>1. /\ DOMAIN q_ = 1..Len(q_) /\ DOMAIN q_' = 1..(Len(q_) - 1)
      /\ Len(q_) \in Nat \ {0}
      /\ \A i \in DOMAIN q_' : q_'[i] = q_[i + 1]
      /\ task' = q_[1]
  BY HeadTailProperties DEF LoopTake
<1>2. wpc = "check" /\ wpc' = "execute" /\ UNCHANGED <<fut, cpc>>
  BY Zenon DEF LoopTake
<1>3. \A d \in Clients : Queued(d) => Queued(d)' \/ task'.prom = d
  <2> SUFFICES ASSUME NEW d \in Clients, NEW i \in DOMAIN q_, q_[i].prom = d, i # 1
               PROVE  Queued(d)'
    BY Zenon, <1>1 DEF Queued
  <2>1. i - 1 \in DOMAIN q_' /\ q_'[i - 1] = q_[i]
    BY <1>1
  <2> QED BY Zenon, <2>1 DEF Queued
<1>4. \A i \in DOMAIN q_' : q_'[i].prom # task'.prom
  BY <1>1 DEF PromiseInv
<1>5. \A i, k \in DOMAIN q_' : q_'[i].prom = q_'[k].prom => i = k
  <2> SUFFICES ASSUME NEW i \in DOMAIN q_', NEW k \in DOMAIN q_', q_'[i].prom = q_'[k].prom
               PROVE  i = k
    BY Zenon
  <2>1. i \in Nat /\ k \in Nat /\ i + 1 \in DOMAIN q_ /\ k + 1 \in DOMAIN q_
    BY <1>1
  <2>2. q_[i + 1].prom = q_[k + 1].prom
    BY Zenon, <1>1
  <2>3. i + 1 = k + 1
    BY Zenon, <2>1, <2>2 DEF PromiseInv
  <2> QED BY <2>1, <2>3
<1>6. \A i \in DOMAIN q_' : q_'[i].prom \in Clients /\ fut'[q_'[i].prom] = Pending
  BY <1>1, <1>2 DEF PromiseInv
<1>7. task'.prom \in Clients /\ fut'[task'.prom] = Pending
  BY <1>1, <1>2 DEF PromiseInv
<1> QED BY Zenon, <1>2, <1>3, <1>4, <1>5, <1>6, <1>7 DEF PromiseInv, InHand, Queued

LEMMA StepPromise == TypeOK /\ PromiseInv /\ [Next]_vars => PromiseInv'
<1> SUFFICES ASSUME TypeOK, PromiseInv, [Next]_vars PROVE PromiseInv'
  OBVIOUS
<1>1. ASSUME NEW c \in Clients, NotifyOne(c) PROVE PromiseInv'
  BY Zenon, <1>1 DEF NotifyOne, Woken, TypeOK, PromiseInv, InHand, Queued
<1>2. ASSUME NEW c \in Clients, Get(c) PROVE PromiseInv'
  BY <1>2, NotReady DEF Get, TypeOK, PromiseInv, InHand, Queued
<1>3. ASSUME NEW s \in Stoppers, StopFlag(s) \/ StopNotify(s) \/ StopJoin(s)
      PROVE  PromiseInv'
  BY <1>3
     DEF StopFlag, StopNotify, StopJoin, Woken, TypeOK, PromiseInv, InHand, Queued
<1>4. CASE LoopWait \/ SpuriousWakeup \/ LoopExit
  BY <1>4 DEF LoopWait, SpuriousWakeup, LoopExit, PromiseInv, InHand, Queued
<1>5. CASE LoopExecute
  BY Zenon, <1>5 DEF LoopExecute, PromiseInv, InHand, Queued
<1>6. CASE LoopSetValue
  <2>1. /\ task.prom \in Clients /\ fut'[task.prom] = resp
        /\ \A d \in Clients \ {task.prom} : fut'[d] = fut[d]
        /\ resp # Pending
    BY Zenon, <1>6, NotReady DEF LoopSetValue, Fulfil, TypeOK, PromiseInv
  <2>2. wpc = "set" /\ wpc' = "check" /\ UNCHANGED <<q_, cpc>>
    BY Zenon, <1>6 DEF LoopSetValue
  <2>3. \A d \in Clients : Queued(d)' <=> Queued(d)
    BY Zenon, <2>2 DEF Queued
  <2>4. cpc[task.prom] # "idle"
    BY Zenon, <2>1, <2>2, NotReady DEF PromiseInv
  <2>5. \A i \in DOMAIN q_ : q_[i].prom # task.prom
    BY Zenon, <2>2 DEF PromiseInv, Queued
  <2> QED BY Zenon, <2>1, <2>2, <2>3, <2>4, <2>5 DEF PromiseInv, InHand
<1>7. CASE UNCHANGED vars
  BY Zenon, <1>7 DEF vars, PromiseInv, InHand, Queued
<1> QED
  BY Zenon, <1>1, <1>2, <1>3, <1>4, <1>5, <1>6, <1>7, PushPromise, TakePromise
  DEF Next, Worker, AllDone

(***************************************************************************)
(* No promise is lost or fulfilled twice, for any number of callers and    *)
(* any interleaving of submit_*, loop() and stop().                        *)
(***************************************************************************)
THEOREM PromiseNotLost == Spec => []PromiseInv
BY InitPromise, StepPromise, TypeCorrect, PTL DEF Spec

(***************************************************************************)
(* stop() drains: loop() returns only when every pushed task has been      *)
(* answered.                                                               *)
(***************************************************************************)
THEOREM Drains == Spec => DrainedAtExit
<1>1. PromiseInv /\ [Next]_vars =>
        [wpc # "exited" /\ wpc' = "exited" => \A c \in Clients : fut[c] # Pending]_vars
  <2> SUFFICES ASSUME PromiseInv, Next, wpc # "exited", wpc' = "exited"
               PROVE  \A c \in Clients : fut[c] # Pending
    BY Zenon DEF vars
  <2>1. LoopExit
    BY Zenon DEF Next, Worker, SpuriousWakeup, LoopWait, LoopTake, LoopExecute,
           LoopSetValue, Push, NotifyOne, Get, StopFlag, StopNotify, StopJoin,
           Woken, AllDone, vars
  <2>2. \A c \in Clients : ~InHand(c) /\ ~Queued(c)
    BY <2>1 DEF LoopExit, InHand, Queued
  <2> QED BY Zenon, <2>2 DEF PromiseInv
<1> QED BY <1>1, PromiseNotLost, PTL DEF Spec, DrainedAtExit

-----------------------------------------------------------------------------
(* The refinement of SerialCore.                                           *)

\* A task put in front of a queue is its head, and stays there when another
\* is appended.
LEMMA InFront ==
  ASSUME NEW S, NEW s \in Seq(S), NEW t \in S
  PROVE  /\ <<t>> \o s \in Seq(S)
         /\ <<t>> \o s # << >>
         /\ Head(<<t>> \o s) = t
         /\ Tail(<<t>> \o s) = s
         /\ \A u \in S : Append(<<t>> \o s, u) = <<t>> \o Append(s, u)
         /\ s # << >> => <<Head(s)>> \o Tail(s) = s
OBVIOUS

\* The instance reads tasks exactly as the dispatcher does.
LEMMA SameTasks ==
  /\ Serial!NoFuture = NoFuture /\ Serial!Pending = Pending
  /\ \A w, p : Serial!TaskOf(w, p) = TaskOf(w, p)
  /\ \A s, t : Serial!Outcomes(s, t) = Outcomes(s, t)
  /\ \A f, p, r : Serial!Fulfil(f, p, r) = Fulfil(f, p, r)
  /\ Serial!Work = Work
<1> USE DEF Label, Serial!Label, Accept, Serial!Accept, Reject, Serial!Reject
<1>1. Serial!NoFuture = NoFuture /\ Serial!Pending = Pending
  BY Zenon DEF NoFuture, Serial!NoFuture, Pending, Serial!Pending, NoCommand,
         Serial!NoCommand
<1>2. \A w, p : Serial!TaskOf(w, p) = TaskOf(w, p)
  BY Zenon DEF TaskOf, Serial!TaskOf
<1>3. \A s, t : Serial!Outcomes(s, t) = Outcomes(s, t)
  <2>1. \A s : Serial!stop(s) = stop(s)
    BY Zenon DEF stop, Serial!stop
  <2>2. \A s, c : Serial!handle_sync_command(s, c) = handle_sync_command(s, c)
    BY <2>1 DEF handle_sync_command, Serial!handle_sync_command, upper, Serial!upper
  <2>3. \A s : Serial!start_job(s) = start_job(s) /\ Serial!finish_job(s) = finish_job(s)
    BY Zenon DEF start_job, Serial!start_job, finish_job, Serial!finish_job
  <2>4. \A s, t : Serial!Run(s, t) = Run(s, t)
    BY Zenon, <2>1, <2>2, <2>3 DEF Run, Serial!Run
  <2> QED
    BY <2>4 DEF Outcomes, Serial!Outcomes, Allocates, Serial!Allocates,
                InternalError, Serial!InternalError
<1>4. \A f, p, r : Serial!Fulfil(f, p, r) = Fulfil(f, p, r)
  BY Zenon DEF Fulfil, Serial!Fulfil
<1>5. Serial!Work = Work
  BY Zenon DEF Work, Serial!Work, Kind, Serial!Kind, Command, Serial!Command, Word,
         Serial!Word
<1> QED BY Zenon, <1>1, <1>2, <1>3, <1>4, <1>5

LEMMA PushRefines ==
  ASSUME TypeOK, PromiseInv, NEW c \in Clients, Push(c)
  PROVE  \E w \in Serial!Work : Serial!Submit(c, w)
<1> USE DEF TypeOK
<1>1. PICK w \in Submissions : q_' = Append(q_, TaskOf(w, c))
  BY DEF Push
<1>2. wpc' = wpc /\ task' = task /\ resp' = resp /\ st_' = st_
  BY Zenon DEF Push
<1>3. AbstractQueue' = Append(AbstractQueue, TaskOf(w, c))
  BY <1>1, <1>2, InFront, SubmissionType DEF AbstractQueue
<1>4. ~(wpc = "set" /\ task.prom = c) /\ fut[c] = NoFuture
  BY Zenon, NotReady DEF Push, PromiseInv
<1>5. AbstractFut[c] = NoFuture
  BY Zenon, <1>4 DEF AbstractFut
<1>6. AbstractFut' = [AbstractFut EXCEPT ![c] = Pending]
  BY Zenon, <1>2, <1>4 DEF AbstractFut, Push
<1> QED
  BY Zenon, <1>2, <1>3, <1>5, <1>6, SameTasks, SubmissionsAreWork DEF Serial!Submit

LEMMA ExecuteRefines ==
  ASSUME TypeOK, PromiseInv, LoopExecute
  PROVE  Serial!Serve
<1> USE DEF TypeOK
<1>1. PICK o \in Outcomes(st_, task) : st_' = o.st /\ resp' = o.r
  BY Zenon DEF LoopExecute
<1>2. wpc = "execute" /\ wpc' = "set" /\ UNCHANGED <<q_, task, fut>>
  BY Zenon DEF LoopExecute
<1>3. /\ AbstractQueue # << >> /\ Head(AbstractQueue) = task
      /\ Tail(AbstractQueue) = q_ /\ AbstractQueue' = q_
  BY <1>2, InFront DEF AbstractQueue
<1>4. AbstractFut' = Fulfil(AbstractFut, task.prom, o.r)
  BY Zenon, <1>1, <1>2 DEF AbstractFut, Fulfil
<1> QED BY Zenon, <1>1, <1>3, <1>4, SameTasks DEF Serial!Serve

LEMMA GetRefines ==
  ASSUME TypeOK, PromiseInv, NEW c \in Clients, Get(c)
  PROVE  Serial!Collect(c)
<1> USE DEF TypeOK
<1>1. UNCHANGED <<st_, AbstractQueue>>
  BY Zenon DEF Get, AbstractQueue
<1>2. ~(wpc = "set" /\ task.prom = c)
  BY Zenon DEF Get, PromiseInv
<1>3. AbstractFut[c] = fut[c]
  BY Zenon, <1>2 DEF AbstractFut
<1>4. AbstractFut' = [AbstractFut EXCEPT ![c] = NoFuture]
  BY Zenon, <1>2 DEF AbstractFut, Get
<1> QED
  BY Zenon, <1>1, <1>3, <1>4, SameTasks DEF Serial!Collect, Serial!Ready, Get

LEMMA StepRefines ==
  TypeOK /\ PromiseInv /\ [Next]_vars => [Serial!SerialNext]_(Serial!serialVars)
<1> SUFFICES ASSUME TypeOK, PromiseInv, [Next]_vars,
                    UNCHANGED <<st_, AbstractQueue, AbstractFut>> => FALSE
             PROVE  Serial!SerialNext
  BY Zenon DEF Serial!serialVars
<1>1. ASSUME NEW c \in Clients, NotifyOne(c) PROVE FALSE
  BY Zenon, <1>1 DEF NotifyOne, Woken, AbstractQueue, AbstractFut
<1>2. ASSUME NEW s \in Stoppers, StopFlag(s) \/ StopNotify(s) \/ StopJoin(s)
      PROVE  FALSE
  BY Zenon, <1>2 DEF StopFlag, StopNotify, StopJoin, Woken, AbstractQueue, AbstractFut
<1>3. CASE LoopWait \/ SpuriousWakeup \/ LoopExit
  BY Zenon, <1>3 DEF LoopWait, SpuriousWakeup, LoopExit, AbstractQueue, AbstractFut
<1>4. CASE LoopTake
  <2>1. AbstractQueue' = AbstractQueue
    BY Zenon, <1>4, InFront DEF LoopTake, AbstractQueue, TypeOK
  <2>2. AbstractFut' = AbstractFut
    BY Zenon, <1>4 DEF LoopTake, AbstractFut
  <2> QED BY Zenon, <1>4, <2>1, <2>2 DEF LoopTake
<1>5. CASE LoopSetValue
  <2>1. AbstractQueue' = AbstractQueue /\ st_' = st_
    BY Zenon, <1>5 DEF LoopSetValue, AbstractQueue
  <2>2. AbstractFut' = AbstractFut
    BY Zenon, <1>5 DEF LoopSetValue, AbstractFut, Fulfil, TypeOK
  <2> QED BY Zenon, <2>1, <2>2
<1>6. CASE UNCHANGED vars
  BY Zenon, <1>6 DEF vars, AbstractQueue, AbstractFut
<1> QED
  BY Zenon, <1>1, <1>2, <1>3, <1>4, <1>5, <1>6, PushRefines, ExecuteRefines, GetRefines
  DEF Next, Worker, AllDone, Serial!SerialNext

(***************************************************************************)
(* The dispatcher implements Core behind a FIFO queue: what callers of     *)
(* submit_* observe is SerialCore, whatever the interleaving of push(),    *)
(* loop() and stop().                                                      *)
(***************************************************************************)
THEOREM Refinement == Spec => ImplementsSerialCore
<1>1. Init => Serial!SerialInit
  BY Zenon, SameTasks DEF Init, Serial!SerialInit, AbstractQueue, AbstractFut
<1> QED
  BY <1>1, StepRefines, TypeCorrect, PromiseNotLost, PTL
  DEF Spec, ImplementsSerialCore, Serial!SerialSpec

=============================================================================
