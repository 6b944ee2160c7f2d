--------------------------- MODULE QrServiceProofs --------------------------
(***************************************************************************)
(* Proofs about QrService, for any number of clients, jobs and requests,   *)
(* any interleaving of them, and any number of abandoned tasks: types, the *)
(* promises of the dispatcher's queue, the order of result and FINISH_JOB, *)
(* what a 202 means, and that the service implements JobService.           *)
(***************************************************************************)
EXTENDS QrService, TasksProofs, TLAPS

-----------------------------------------------------------------------------
(* The queue in front of Core.                                             *)

SerialInv == SerialTypeOK /\ PromiseKept

LEMMA WorkIsTask ==
  ASSUME NEW w \in Work, NEW p \in Clients \cup Jobs \cup {Nobody}
  PROVE  TaskOf(w, p) \in Task /\ TaskOf(w, p).prom = p
BY DEF Work, TaskOf, Task, TaskSet

\* Where the tasks are after a push, a pop and an Orphan.
LEMMA PushIndices ==
  ASSUME NEW q \in Seq(Task), NEW e \in Task
  PROVE  /\ Append(q, e) \in Seq(Task)
         /\ Len(q) \in Nat
         /\ DOMAIN q = 1 .. Len(q)
         /\ DOMAIN Append(q, e) = 1 .. Len(q) + 1
         /\ \A i \in DOMAIN q : Append(q, e)[i] = q[i]
         /\ Append(q, e)[Len(q) + 1] = e
<1>1. DOMAIN q = 1 .. Len(q) /\ Len(q) \in Nat
  OBVIOUS
<1>2. DOMAIN Append(q, e) = 1 .. Len(Append(q, e))
  OBVIOUS
<1> QED BY <1>1, <1>2

LEMMA PopIndices ==
  ASSUME NEW q \in Seq(Task), q # << >>
  PROVE  /\ Tail(q) \in Seq(Task)
         /\ Head(q) \in Task
         /\ Head(q) = q[1] /\ 1 \in DOMAIN q
         /\ \A i \in DOMAIN Tail(q) :
              i \in Nat /\ i + 1 \in DOMAIN q /\ Tail(q)[i] = q[i + 1]
         /\ \A i \in DOMAIN q : i \in Nat /\ (i # 1 => i - 1 \in DOMAIN Tail(q))
<1>1. DOMAIN q = 1 .. Len(q) /\ Len(q) \in Nat
  OBVIOUS
<1>2. Tail(q) \in Seq(Task) /\ Len(Tail(q)) = Len(q) - 1 /\ Head(q) \in Task
  OBVIOUS
<1>3. DOMAIN Tail(q) = 1 .. Len(q) - 1
  BY <1>2
<1>4. Len(q) >= 1
  BY <1>1
<1> QED BY <1>1, <1>2, <1>3, <1>4

LEMMA OrphanIndices ==
  ASSUME q_ \in Seq(Task), NEW c \in Clients
  PROVE  /\ Orphan(c) \in Seq(Task)
         /\ DOMAIN Orphan(c) = DOMAIN q_
         /\ \A i \in DOMAIN q_ :
              /\ q_[i].prom = c => Orphan(c)[i].prom = Nobody
              /\ q_[i].prom # c => Orphan(c)[i] = q_[i]
<1>1. DOMAIN q_ = 1 .. Len(q_) /\ Len(q_) \in Nat /\ q_ \in [1 .. Len(q_) -> Task]
  OBVIOUS
<1>2. \A i \in DOMAIN q_ : q_[i] \in Task
  BY <1>1
<1>3. \A t \in Task : [t EXCEPT !.prom = Nobody] \in Task
  BY DEF Task, TaskSet
<1>4. Orphan(c) \in [1 .. Len(q_) -> Task]
  BY <1>1, <1>2, <1>3 DEF Orphan
<1>5. \A t \in Task : [t EXCEPT !.prom = Nobody].prom = Nobody
  BY DEF Task, TaskSet
<1> QED BY <1>1, <1>2, <1>4, <1>5 DEF Orphan

-----------------------------------------------------------------------------
LEMMA SerialInitInv == SerialInit => SerialInv
BY NotReady DEF SerialInit, SerialInv, SerialTypeOK, PromiseKept, State, Future

\* Submit, and SubmitDetached in the next lemma.
LEMMA SubmitInv ==
  ASSUME SerialInv, NEW c \in Clients, NEW w \in Work, Submit(c, w)
  PROVE  SerialInv'
<1>1. TaskOf(w, c) \in Task /\ TaskOf(w, c).prom = c
  BY WorkIsTask
<1>2. SerialTypeOK'
  BY <1>1, PushIndices DEF Submit, SerialInv, SerialTypeOK, Future
<1>3. \A i \in DOMAIN q_ : q_[i].prom # c
  BY NotReady DEF SerialInv, PromiseKept, Submit
<1>4. PromiseKept'
  BY SMTT(30), <1>1, <1>3, PushIndices, NotReady
     DEF Submit, SerialInv, SerialTypeOK, PromiseKept
<1> QED BY <1>2, <1>4 DEF SerialInv

LEMMA DetachedInv ==
  ASSUME SerialInv, NEW j \in Jobs, NEW w \in Work, SubmitDetached(j, w)
  PROVE  SerialInv'
<1>1. TaskOf(w, j) \in Task /\ TaskOf(w, j).prom = j /\ j \notin Clients
  BY WorkIsTask, PromiseNames
<1>2. SerialTypeOK'
  BY <1>1, PushIndices DEF SubmitDetached, SerialInv, SerialTypeOK
<1>3. PromiseKept'
  BY <1>1, PushIndices DEF SubmitDetached, SerialInv, SerialTypeOK, PromiseKept
<1> QED BY <1>2, <1>3 DEF SerialInv

LEMMA ServeInv == ASSUME SerialInv, Serve PROVE SerialInv'
<1>1. PICK o \in Outcomes(st_, Head(q_)) :
        st_' = o.st /\ fut' = Fulfil(fut, Head(q_).prom, o.r)
  BY DEF Serve
<1>2. o.st \in State /\ o.r \in Response
  BY PopIndices, OutcomeType DEF Serve, SerialInv, SerialTypeOK, Task
<1>3. SerialTypeOK'
  BY <1>1, <1>2, PopIndices DEF Serve, SerialInv, SerialTypeOK, Fulfil, Future
<1>4. ASSUME NEW c \in Clients
      PROVE  LET mine == {i \in DOMAIN q_' : q_'[i].prom = c}
             IN  /\ fut'[c] = Pending => mine # {}
                 /\ mine # {} => fut'[c] = Pending
                 /\ \A i, k \in mine : i = k
  <2>1. fut'[c] = IF c = Head(q_).prom THEN o.r ELSE fut[c]
    BY <1>1 DEF Fulfil, SerialInv, SerialTypeOK
  <2>2. o.r # Pending
    BY <1>2, NotReady
  <2>3. /\ q_ \in Seq(Task) /\ q_ # << >> /\ q_' = Tail(q_)
        /\ fut[c] = Pending => \E i \in DOMAIN q_ : q_[i].prom = c
        /\ \A i \in DOMAIN q_ : q_[i].prom = c => fut[c] = Pending
        /\ \A i, k \in DOMAIN q_ : q_[i].prom = c /\ q_[k].prom = c => i = k
    BY DEF Serve, SerialInv, SerialTypeOK, PromiseKept
  <2>4. ASSUME NEW i \in DOMAIN q_', q_'[i].prom = c
        PROVE  i \in Nat /\ i + 1 \in DOMAIN q_ /\ q_[i + 1].prom = c /\ c # Head(q_).prom
    BY <2>3, <2>4, PopIndices
  <2>5. ASSUME fut'[c] = Pending PROVE \E i \in DOMAIN q_' : q_'[i].prom = c
    <3>1. c # Head(q_).prom /\ fut[c] = Pending
      BY <2>1, <2>2, <2>5
    <3>2. PICK i \in DOMAIN q_ : q_[i].prom = c
      BY <2>3, <3>1
    <3>3. i \in Nat /\ i - 1 \in DOMAIN Tail(q_) /\ Tail(q_)[i - 1] = q_[i]
      BY <2>3, <3>1, <3>2, PopIndices
    <3> QED BY <2>3, <3>2, <3>3
  <2>6. \A i \in DOMAIN q_' : q_'[i].prom = c => fut'[c] = Pending
    BY <2>1, <2>3, <2>4
  <2>7. \A i, k \in DOMAIN q_' : q_'[i].prom = c /\ q_'[k].prom = c => i = k
    BY <2>3, <2>4
  <2> QED BY <2>5, <2>6, <2>7
<1> QED BY <1>3, <1>4 DEF SerialInv, PromiseKept

LEMMA CollectInv == ASSUME SerialInv, NEW c \in Clients, Collect(c) PROVE SerialInv'
BY NotReady DEF Collect, Ready, SerialInv, SerialTypeOK, Future, PromiseKept

LEMMA AbandonInv == ASSUME SerialInv, NEW c \in Clients, Abandon(c) PROVE SerialInv'
<1>1. SerialTypeOK'
  BY OrphanIndices DEF Abandon, SerialInv, SerialTypeOK, Future
<1>2. Nobody \notin Clients
  BY PromiseNames
<1>3. /\ q_ \in Seq(Task) /\ q_' = Orphan(c)
      /\ fut' = [fut EXCEPT ![c] = NoFuture] /\ fut \in [Clients -> Future]
  BY DEF Abandon, SerialInv, SerialTypeOK
<1>4. \A i \in DOMAIN q_ : \A d \in Clients :
        Orphan(c)[i].prom = d <=> q_[i].prom = d /\ d # c
  BY <1>2, <1>3, OrphanIndices
<1>5. PromiseKept'
  BY <1>3, <1>4, OrphanIndices, NotReady DEF SerialInv, PromiseKept
<1> QED BY <1>1, <1>5 DEF SerialInv

LEMMA SerialStepInv == SerialInv /\ [SerialNext]_serialVars => SerialInv'
<1> SUFFICES ASSUME SerialInv, [SerialNext]_serialVars PROVE SerialInv'
  OBVIOUS
<1>1. CASE UNCHANGED serialVars
  BY <1>1 DEF serialVars, SerialInv, SerialTypeOK, PromiseKept
<1> QED
  BY <1>1, SubmitInv, DetachedInv, ServeInv, CollectInv, AbandonInv DEF SerialNext

(***************************************************************************)
(* Whatever is submitted, collected and abandoned, the queue of the        *)
(* dispatcher answers each waiting caller once and nobody else.            *)
(***************************************************************************)
THEOREM QueueKeepsPromises == SerialSpec => []PromiseKept
BY SerialInitInv, SerialStepInv, PTL DEF SerialSpec, SerialInv

-----------------------------------------------------------------------------
(* The service.                                                            *)

\* The handler of h has an id from gen_id(), and has not yet spawned its thread.
HasId(h) == pc[h] \in {"raise", "spawn", "assign", "started"}

Unspawned(h) == pc[h] \in {"raise", "spawn"}

\* The store follows the position of the job thread, and each id between
\* create() and the thread constructor belongs to one handler.
JobInv ==
  /\ \A j \in Jobs :
       /\ tpc[j] \in {"top", "read", "gate", "done", "timeout", "cancelled"}
            => jobs_[j].status = "PENDING"
       /\ tpc[j] \in {"clear", "finish", "exited"} => jobs_[j].status \in Terminal
  /\ \A h \in Clients : Unspawned(h) =>
       /\ tpc[jid[h]] = "none" /\ jobs_[jid[h]].status = "PENDING"
       /\ \A g \in Clients : Unspawned(g) /\ jid[g] = jid[h] => g = h

\* What a handler knows of its job, and the reply it gives.
HandlerInv ==
  /\ AcceptedHasJob
  /\ \A h \in Clients :
       /\ HasId(h) => jid[h] \in Jobs
       /\ jid[h] \in Jobs => exists(jobs_, jid[h])
       /\ ~HasId(h) /\ pc[h] # "reply" => jid[h] = Nobody
       /\ fut[h].http_status = 202 => fut[h].ok

\* A job thread submits FINISH_JOB once, as it ends.
FinishInv ==
  \A j \in Jobs :
    LET mine == {i \in DOMAIN q_ : q_[i].prom = j}
    IN  /\ mine # {} => tpc[j] = "exited"
        /\ \A i, k \in mine : i = k

ServiceInv == TypeOK /\ PromiseKept /\ JobInv /\ HandlerInv /\ FinishInv

-----------------------------------------------------------------------------
(* The service as a user of the queue.                                     *)

LEMMA WorkOfIsWork == ASSUME NEW r \in Request PROVE WorkOf(r) \in Work
<1>1. r.command \in Command /\ upper(r.command) \in Command /\ NoCommand \in Command
  BY Zenon DEF Request, upper, Command, NoCommand, Word
<1> QED BY Zenon, <1>1 DEF WorkOf, Work, Kind

LEMMA FinishIsWork == FinishWork \in Work
BY Zenon DEF FinishWork, Work, Kind, NoCommand, Command, Word

\* Every step of the service is a step of the queue or leaves it alone.
LEMMA StepUsesQueue ==
  ASSUME TypeOK, [Next]_vars
  PROVE  [SerialNext]_serialVars
<1>1. ASSUME NEW h \in Clients, SubmitRequest(h) PROVE SerialNext
  <2>1. WorkOf(req[h]) \in Work
    BY Zenon, WorkOfIsWork DEF TypeOK
  <2> QED BY Zenon, <1>1, <2>1 DEF SubmitRequest, SerialNext
<1>2. ASSUME NEW h \in Clients, Answered(h) PROVE SerialNext
  BY Zenon, <1>2 DEF Answered, SerialNext
<1>3. ASSUME NEW h \in Clients, TimedOut(h) PROVE SerialNext
  BY Zenon, <1>3 DEF TimedOut, SerialNext
<1>4. ASSUME NEW j \in Jobs, SubmitFinish(j) PROVE SerialNext
  BY Zenon, <1>4, FinishIsWork DEF SubmitFinish, SerialNext
<1>5. ASSUME Dispatch PROVE SerialNext
  BY Zenon, <1>5 DEF Dispatch, SerialNext
<1>6. ASSUME NEW h \in Clients,
             \/ Receive(h) \/ SetBaudrate(h) \/ Started(h) \/ Lookup(h)
             \/ ReadState(h) \/ Threw(h) \/ Deliver(h) \/ StartStep(h)
      PROVE  UNCHANGED serialVars
  BY Zenon, <1>6
     DEF Receive, SetBaudrate, Started, Lookup, ReadState, Threw, Deliver, StartStep
<1>7. ASSUME NEW h, StopStep(h) PROVE UNCHANGED serialVars
  BY Zenon, <1>7 DEF StopStep
<1>8. Shutdown \/ Exit => UNCHANGED serialVars
  BY Zenon DEF Shutdown, Exit
<1>9. UNCHANGED vars => UNCHANGED serialVars
  BY Zenon DEF vars
<1> QED
  BY Zenon, <1>1, <1>2, <1>3, <1>4, <1>5, <1>6, <1>7, <1>8, <1>9
  DEF Next, Step, HandlerStep, ThreadStep, MainStep

-----------------------------------------------------------------------------
(* The invariant holds at the start and through the steps of a handler.    *)

LEMMA ServiceInit == Init => ServiceInv
<1> SUFFICES ASSUME Init PROVE ServiceInv
  BY Zenon
<1>1. SerialTypeOK /\ PromiseKept
  BY Zenon, SerialInitInv DEF Init, SerialInv
<1>2. NoRequest \in Request /\ NoReply \in Reply
  BY ZenonT(40) DEF NoRequest, Request, Path, NoCommand, Command, Word, NoReply, Reply, Code
<1>3. TypeOK
  BY Zenon, <1>1, <1>2, BaudAssumption
  DEF Init, TypeOK, JobResultSet, Absent, ThreadLabel, CallerLabel
<1>4. \A h \in Clients : pc[h] = "idle" /\ jid[h] = Nobody /\ fut[h].http_status # 202
  BY MainIsApart DEF Init, Callers, SerialInit, NoFuture
<1>5. JobInv
  BY <1>4 DEF Init, JobInv, Unspawned
<1>6. HandlerInv
  BY ZenonT(40), <1>4, PromiseNames DEF HandlerInv, AcceptedHasJob, HasId
<1>7. FinishInv
  BY DEF Init, SerialInit, FinishInv
<1> QED BY Zenon, <1>1, <1>3, <1>5, <1>6, <1>7 DEF ServiceInv

\* A handler moves without touching the store, the threads or the queue.
LEMMA HandlerMoves ==
  ASSUME ServiceInv, NEW h \in Clients, NEW l \in CallerLabel, Goto(h, l),
         ~Unspawned(h),
         l \notin {"raise", "spawn", "assign", "started", "reply"},
         ~HasId(h) /\ pc[h] # "reply",
         UNCHANGED <<serialVars, jobs_, tpc, jid, reply>>,
         \A g \in Clients \ {h} : req'[g] = req[g]
  PROVE  PromiseKept' /\ JobInv' /\ HandlerInv' /\ FinishInv'
<1>1. \A g \in Clients : pc'[g] = IF g = h THEN l ELSE pc[g]
  BY Zenon DEF Goto, ServiceInv, TypeOK, Callers
<1>2. PromiseKept' /\ FinishInv'
  BY DEF ServiceInv, PromiseKept, FinishInv, serialVars
<1>3. JobInv'
  BY Zenon, <1>1 DEF ServiceInv, JobInv, Unspawned
<1>4. HandlerInv'
  BY <1>1 DEF ServiceInv, HandlerInv, AcceptedHasJob, HasId, exists, serialVars
<1> QED BY Zenon, <1>2, <1>3, <1>4

\* A handler answers: 202 only with a job, and always with one that has an id.
LEMMA HandlerAnswers ==
  ASSUME ServiceInv, NEW h \in Clients, NEW c \in Code, NEW s \in State \cup {"-"},
         Answer(h, c, s),
         pc[h] # "reply",
         pc[h] \notin {"raise", "spawn", "assign"},
         c = 202 /\ req'[h].path = "/start" => pc[h] = "started",
         pc[h] = "started" => c = 202,
         UNCHANGED <<jobs_, tpc, jid>>,
         \A g \in Clients \ {h} : req'[g] = req[g]
  PROVE  /\ JobInv' /\ AcceptedHasJob'
         /\ reply' \in [Clients -> Reply] /\ pc' \in [Callers -> CallerLabel]
         /\ \A g \in Clients : pc'[g] = IF g = h THEN "reply" ELSE pc[g]
<1>1. \A g \in Clients : pc'[g] = IF g = h THEN "reply" ELSE pc[g]
  BY Zenon DEF Answer, Goto, ServiceInv, TypeOK, Callers
<1>2. reply' = [reply EXCEPT ![h] = [code |-> c, state |-> s]]
  BY Zenon DEF Answer
<1>3. reply' \in [Clients -> Reply] /\ pc' \in [Callers -> CallerLabel]
  BY <1>2 DEF Answer, Goto, ServiceInv, TypeOK, Reply, Callers, CallerLabel
<1>4. JobInv'
  BY <1>1 DEF ServiceInv, JobInv, Unspawned
<1>5. Nobody \notin Jobs
  BY Zenon, PromiseNames
<1>6. reply'[h].code = c /\ \A g \in Clients \ {h} : reply'[g] = reply[g]
  BY <1>2 DEF ServiceInv, TypeOK
<1>7. ASSUME NEW g \in Clients, pc'[g] = "reply", req'[g].path = "/start"
      PROVE  reply'[g].code = 202 <=> jid'[g] \in Jobs /\ exists(jobs_', jid'[g])
  <2>1. CASE g # h
    BY <1>1, <1>6, <1>7, <2>1 DEF ServiceInv, HandlerInv, AcceptedHasJob, exists
  <2>2. CASE g = h /\ pc[h] = "started"
    BY Zenon, <1>6, <2>2 DEF ServiceInv, HandlerInv, HasId
  <2>3. CASE g = h /\ pc[h] # "started"
    BY ZenonT(40), <1>5, <1>6, <1>7, <2>3 DEF ServiceInv, HandlerInv, HasId
  <2> QED BY Zenon, <2>1, <2>2, <2>3
<1>8. AcceptedHasJob'
  BY Zenon, <1>7 DEF AcceptedHasJob
<1> QED BY Zenon, <1>1, <1>3, <1>4, <1>8

\* What follows from the queue and the futures being as they were.
LEMMA QueueUntouched ==
  ASSUME ServiceInv, UNCHANGED <<serialVars, tpc>>
  PROVE  SerialTypeOK' /\ PromiseKept' /\ FinishInv'
BY DEF ServiceInv, TypeOK, SerialTypeOK, PromiseKept, FinishInv, serialVars

\* The rest of HandlerInv after an answer.
LEMMA IdsAfterAnswer ==
  ASSUME ServiceInv, NEW h \in Clients, AcceptedHasJob', UNCHANGED <<jobs_, jid>>,
         \A g \in Clients : pc'[g] = IF g = h THEN "reply" ELSE pc[g],
         \A g \in Clients : fut'[g].http_status = 202 => fut'[g].ok
  PROVE  HandlerInv'
BY Zenon DEF ServiceInv, HandlerInv, HasId, exists

LEMMA ReceiveInv ==
  ASSUME ServiceInv, NEW h \in Clients, Receive(h)
  PROVE  ServiceInv'
<1>1. PICK r \in Issues[h] :
        /\ req' = [req EXCEPT ![h] = r]
        /\ \/ Answer(h, 400, "-") \/ Answer(h, 200, "-")
           \/ Goto(h, Entry(r)) /\ UNCHANGED reply
  BY ZenonT(40) DEF Receive
<1>2. r \in Request
  BY Zenon, IssuesAreRequests
<1>3. /\ pc[h] = "idle" /\ req' \in [Clients -> Request]
      /\ \A g \in Clients \ {h} : req'[g] = req[g]
      /\ UNCHANGED <<serialVars, jobs_, running_, worker_, tpc, frame, expired,
                     target, jid, crashed, baudrate_>>
  BY Zenon, <1>1, <1>2 DEF Receive, ServiceInv, TypeOK
<1>4. SerialTypeOK' /\ PromiseKept' /\ FinishInv'
  BY Zenon, <1>3, QueueUntouched
<1>5. ~HasId(h) /\ ~Unspawned(h)
  BY Zenon, <1>3 DEF HasId, Unspawned
<1>7. ASSUME NEW c \in {200, 400}, Answer(h, c, "-") PROVE ServiceInv'
  <2>1. c \in Code /\ c # 202
    BY DEF Code
  <2>2. /\ JobInv' /\ AcceptedHasJob'
        /\ reply' \in [Clients -> Reply] /\ pc' \in [Callers -> CallerLabel]
        /\ \A g \in Clients : pc'[g] = IF g = h THEN "reply" ELSE pc[g]
    BY <1>3, <1>7, <2>1, HandlerAnswers
  <2>3. \A g \in Clients : fut'[g].http_status = 202 => fut'[g].ok
    BY Zenon, <1>3 DEF ServiceInv, HandlerInv, serialVars
  <2>4. HandlerInv'
    BY <1>3, <2>2, <2>3, IdsAfterAnswer
  <2>5. TypeOK'
    BY <1>3, <1>4, <2>2 DEF ServiceInv, TypeOK
  <2> QED BY Zenon, <1>4, <2>2, <2>4, <2>5 DEF ServiceInv
<1>8. ASSUME Goto(h, Entry(r)), UNCHANGED reply PROVE ServiceInv'
  <2>1. Entry(r) \in {"state", "lookup", "baud", "stop", "submit"}
    BY Zenon DEF Entry
  <2>2. Entry(r) \in CallerLabel
    BY Zenon, <2>1 DEF CallerLabel
  <2>3. JobInv' /\ HandlerInv'
    BY Zenon, <1>3, <1>5, <1>8, <2>1, <2>2, HandlerMoves
  <2>4. TypeOK'
    BY Zenon, <1>3, <1>4, <1>8, <2>2 DEF ServiceInv, TypeOK, Goto
  <2> QED BY Zenon, <1>4, <2>3, <2>4 DEF ServiceInv
<1> QED BY <1>1, <1>7, <1>8

\* The handler steps between Receive and Deliver that only move or answer.
LEMMA QuietInv ==
  ASSUME ServiceInv, NEW h \in Clients,
         SetBaudrate(h) \/ Started(h) \/ Lookup(h) \/ ReadState(h) \/ Threw(h)
  PROVE  ServiceInv'
<1>1. UNCHANGED <<serialVars, jobs_, running_, worker_, tpc, frame, expired,
                  target, jid, crashed, req>>
  BY ZenonT(40) DEF SetBaudrate, Started, Lookup, ReadState, Threw
<1>2. SerialTypeOK' /\ PromiseKept' /\ FinishInv'
  BY Zenon, <1>1, QueueUntouched
<1>3. ASSUME NEW c \in Code, NEW s \in State \cup {"-"}, Answer(h, c, s),
             pc[h] \notin {"reply", "raise", "spawn", "assign"},
             c = 202 <=> pc[h] = "started", UNCHANGED baudrate_
      PROVE  ServiceInv'
  <2>1. /\ JobInv' /\ AcceptedHasJob'
        /\ reply' \in [Clients -> Reply] /\ pc' \in [Callers -> CallerLabel]
        /\ \A g \in Clients : pc'[g] = IF g = h THEN "reply" ELSE pc[g]
    <3>1. pc[h] # "reply" /\ pc[h] \notin {"raise", "spawn", "assign"}
      BY Zenon, <1>3
    <3>2. /\ c = 202 /\ req'[h].path = "/start" => pc[h] = "started"
          /\ pc[h] = "started" => c = 202
      BY Zenon, <1>3
    <3>3. /\ UNCHANGED <<jobs_, tpc, jid>>
          /\ \A g \in Clients \ {h} : req'[g] = req[g]
      BY Zenon, <1>1
    <3>4. Answer(h, c, s)
      BY Zenon, <1>3
    <3> QED BY <3>1, <3>2, <3>3, <3>4, HandlerAnswers
  <2>2. HandlerInv'
    BY Zenon, <1>1, <2>1, IdsAfterAnswer DEF ServiceInv, HandlerInv, serialVars
  <2>3. TypeOK'
    BY Zenon, <1>1, <1>2, <1>3, <2>1 DEF ServiceInv, TypeOK
  <2> QED BY Zenon, <1>2, <2>1, <2>2, <2>3 DEF ServiceInv
<1>4. ASSUME NEW l \in {"submit", "state"}, Goto(h, l), pc[h] \in {"baud", "lookup"},
             UNCHANGED reply, baudrate_' \in Bauds
      PROVE  ServiceInv'
  <2>1. l \in CallerLabel
    BY Zenon DEF CallerLabel
  <2>2. ~HasId(h) /\ ~Unspawned(h)
    BY Zenon, <1>4 DEF HasId, Unspawned
  <2>3. JobInv' /\ HandlerInv'
    BY Zenon, <1>1, <1>4, <2>1, <2>2, HandlerMoves
  <2>4. TypeOK'
    BY Zenon, <1>1, <1>2, <1>4, <2>1 DEF ServiceInv, TypeOK, Goto
  <2> QED BY Zenon, <1>2, <2>3, <2>4 DEF ServiceInv
<1>5. st_ \in State /\ {200, 202, 404, 500} \subseteq Code
  BY DEF ServiceInv, TypeOK, SerialTypeOK, Code
<1>6. CASE SetBaudrate(h)
  <2>1. req[h].baud \subseteq Bauds
    BY DEF ServiceInv, TypeOK, Request
  <2> QED BY Zenon, <1>4, <1>6, <2>1 DEF SetBaudrate
<1>7. CASE Started(h)
  BY <1>3, <1>5, <1>7 DEF Started
<1>8. CASE Lookup(h)
  <2>1. pc[h] = "lookup" /\ UNCHANGED baudrate_ /\ baudrate_ \in Bauds
    BY Zenon, <1>8 DEF Lookup, ServiceInv, TypeOK
  <2>2. Answer(h, 404, "-") \/ (Goto(h, "state") /\ UNCHANGED reply)
    BY Zenon, <1>8 DEF Lookup
  <2>3. CASE Answer(h, 404, "-")
    BY <1>3, <1>5, <2>1, <2>3
  <2>4. CASE Goto(h, "state") /\ UNCHANGED reply
    BY Zenon, <1>4, <2>1, <2>4
  <2> QED BY Zenon, <2>2, <2>3, <2>4
<1>9. CASE ReadState(h)
  BY <1>3, <1>5, <1>9 DEF ReadState
<1>10. CASE Threw(h)
  BY <1>3, <1>5, <1>10 DEF Threw
<1> QED BY Zenon, <1>6, <1>7, <1>8, <1>9, <1>10

\* The queue steps of a handler do not touch the tasks of job threads.
LEMMA FinishUnmoved ==
  ASSUME ServiceInv, NEW h \in Clients, UNCHANGED tpc,
         (\E w \in Work : Submit(h, w)) \/ Collect(h) \/ Abandon(h)
  PROVE  FinishInv'
<1>1. q_ \in Seq(Task) /\ h \notin Jobs /\ Nobody \notin Jobs
  BY Zenon, PromiseNames DEF ServiceInv, TypeOK, SerialTypeOK
<1>2. ASSUME NEW w \in Work, Submit(h, w) PROVE FinishInv'
  <2>1. TaskOf(w, h) \in Task /\ TaskOf(w, h).prom = h
    BY Zenon, WorkIsTask
  <2> QED BY <1>1, <1>2, <2>1, PushIndices DEF Submit, ServiceInv, FinishInv
<1>3. CASE Collect(h)
  BY Zenon, <1>3 DEF Collect, ServiceInv, FinishInv
<1>4. CASE Abandon(h)
  <2>1. q_' = Orphan(h) /\ DOMAIN q_' = DOMAIN q_
    BY Zenon, <1>1, <1>4, OrphanIndices DEF Abandon
  <2>2. \A i \in DOMAIN q_ : \A j \in Jobs : q_'[i].prom = j <=> q_[i].prom = j
    BY Zenon, <1>1, <2>1, OrphanIndices
  <2> QED BY <2>1, <2>2 DEF ServiceInv, FinishInv
<1> QED BY Zenon, <1>2, <1>3, <1>4

LEMMA SubmitRequestInv ==
  ASSUME ServiceInv, SerialTypeOK', PromiseKept', NEW h \in Clients, SubmitRequest(h)
  PROVE  ServiceInv'
<1>1. /\ pc[h] = "submit" /\ Goto(h, "wait") /\ Submit(h, WorkOf(req[h]))
      /\ UNCHANGED <<jobs_, running_, worker_, tpc, frame, expired, target, jid,
                     crashed, req, reply, baudrate_>>
  BY Zenon DEF SubmitRequest, handlerVars
<1>2. WorkOf(req[h]) \in Work
  BY Zenon, WorkOfIsWork DEF ServiceInv, TypeOK
<1>3. FinishInv'
  BY Zenon, <1>1, <1>2, FinishUnmoved
<1>4. \A g \in Clients : pc'[g] = IF g = h THEN "wait" ELSE pc[g]
  BY Zenon, <1>1 DEF Goto, ServiceInv, TypeOK, Callers
<1>5. JobInv'
  BY Zenon, <1>1, <1>4 DEF ServiceInv, JobInv, Unspawned
<1>6. \A g \in Clients : fut'[g] = IF g = h THEN Pending ELSE fut[g]
  BY Zenon, <1>1 DEF Submit, ServiceInv, TypeOK, SerialTypeOK
<1>7. HandlerInv'
  BY <1>1, <1>4, <1>6
  DEF ServiceInv, HandlerInv, AcceptedHasJob, HasId, exists, Pending, NoFuture
<1>8. TypeOK'
  BY Zenon, <1>1 DEF ServiceInv, TypeOK, Goto, CallerLabel
<1> QED BY Zenon, <1>3, <1>5, <1>7, <1>8 DEF ServiceInv

\* fut.get(), and the wait of 500 ms that runs out.
LEMMA WaitEndsInv ==
  ASSUME ServiceInv, SerialTypeOK', PromiseKept', NEW h \in Clients,
         Answered(h) \/ TimedOut(h)
  PROVE  ServiceInv'
<1>1. /\ pc[h] = "wait" /\ (Collect(h) \/ Abandon(h))
      /\ UNCHANGED <<jobs_, running_, worker_, tpc, frame, expired, target, jid,
                     crashed, req, baudrate_>>
  BY Zenon DEF Answered, TimedOut
<1>2. FinishInv'
  BY Zenon, <1>1, FinishUnmoved
<1>3. \A g \in Clients : fut'[g] = IF g = h THEN NoFuture ELSE fut[g]
  BY Zenon, <1>1 DEF Collect, Abandon, ServiceInv, TypeOK, SerialTypeOK
<1>4. \A g \in Clients : fut'[g].http_status = 202 => fut'[g].ok
  <2> SUFFICES ASSUME NEW g \in Clients, fut'[g].http_status = 202 PROVE fut'[g].ok
    BY Zenon
  <2>1. g # h
    BY <1>3 DEF NoFuture
  <2>2. fut'[g] = fut[g]
    BY Zenon, <1>3, <2>1
  <2>3. fut[g].http_status = 202 => fut[g].ok
    BY Zenon DEF ServiceInv, HandlerInv
  <2> QED BY Zenon, <2>2, <2>3
<1>5. ASSUME NEW c \in Code, NEW s \in State \cup {"-"}, Answer(h, c, s),
             req[h].path = "/start" => c # 202
      PROVE  ServiceInv'
  <2>1. /\ JobInv' /\ AcceptedHasJob'
        /\ reply' \in [Clients -> Reply] /\ pc' \in [Callers -> CallerLabel]
        /\ \A g \in Clients : pc'[g] = IF g = h THEN "reply" ELSE pc[g]
    BY Zenon, <1>1, <1>5, HandlerAnswers
  <2>2. HandlerInv'
    BY Zenon, <1>1, <1>4, <2>1, IdsAfterAnswer
  <2>3. TypeOK'
    BY Zenon, <1>1, <2>1 DEF ServiceInv, TypeOK
  <2> QED BY Zenon, <1>2, <2>1, <2>2, <2>3 DEF ServiceInv
<1>6. CASE TimedOut(h)
  <2>1. Answer(h, 503, "-") /\ 503 \in Code
    BY <1>6 DEF TimedOut, Code
  <2> QED BY <1>5, <2>1
<1>7. CASE Answered(h) /\ req[h].path = "/start" /\ fut[h].ok
  <2>1. Goto(h, "stop") /\ UNCHANGED reply
    BY Zenon, <1>7 DEF Answered
  <2>2. \A g \in Clients : pc'[g] = IF g = h THEN "stop" ELSE pc[g]
    BY Zenon, <2>1 DEF Goto, ServiceInv, TypeOK, Callers
  <2>3. JobInv'
    BY ZenonT(40), <1>1, <2>2 DEF ServiceInv, JobInv, Unspawned
  <2>4. HandlerInv'
    <3> DEFINE ids == {"raise", "spawn", "assign", "started"}
    <3>1. \A g \in Clients : /\ (pc'[g] \in ids) <=> (pc[g] \in ids)
                             /\ (pc'[g] = "reply") <=> (pc[g] = "reply")
      <4> TAKE g \in Clients
      <4>1. CASE g = h
        BY Zenon, <1>1, <2>2, <4>1
      <4>2. CASE g # h
        BY Zenon, <2>2, <4>2
      <4> QED BY Zenon, <4>1, <4>2
    <3>2. jobs_' = jobs_ /\ jid' = jid /\ req' = req /\ reply' = reply
      BY Zenon, <1>1, <2>1
    <3>3. \A g \in Clients : exists(jobs_', jid'[g]) <=> exists(jobs_, jid[g])
      BY Zenon, <3>2 DEF exists
    <3>4. ASSUME NEW g \in Clients, pc'[g] = "reply", req'[g].path = "/start"
          PROVE  reply'[g].code = 202 <=> jid'[g] \in Jobs /\ exists(jobs_', jid'[g])
      <4>1. pc[g] = "reply" /\ req[g].path = "/start"
        BY Zenon, <3>1, <3>2, <3>4
      <4>2. reply[g].code = 202 <=> jid[g] \in Jobs /\ exists(jobs_, jid[g])
        BY ZenonT(40), <4>1 DEF ServiceInv, HandlerInv, AcceptedHasJob
      <4> QED BY Zenon, <3>2, <3>3, <4>2
    <3>5. ASSUME NEW g \in Clients
          PROVE  /\ pc'[g] \in ids => jid'[g] \in Jobs
                 /\ jid'[g] \in Jobs => exists(jobs_', jid'[g])
                 /\ pc'[g] \notin ids /\ pc'[g] # "reply" => jid'[g] = Nobody
      <4>1. /\ pc[g] \in ids => jid[g] \in Jobs
            /\ jid[g] \in Jobs => exists(jobs_, jid[g])
            /\ pc[g] \notin ids /\ pc[g] # "reply" => jid[g] = Nobody
        BY ZenonT(40) DEF ServiceInv, HandlerInv, HasId
      <4> HIDE DEF ids
      <4> QED BY ZenonT(40), <3>1, <3>2, <3>3, <4>1
    <3>6. AcceptedHasJob'
      BY Zenon, <3>4 DEF AcceptedHasJob
    <3> QED BY Zenon, <1>4, <3>5, <3>6 DEF HandlerInv, HasId
  <2>5. TypeOK'
    BY Zenon, <1>1, <2>1 DEF ServiceInv, TypeOK, Goto, CallerLabel
  <2> QED BY Zenon, <1>2, <2>3, <2>4, <2>5 DEF ServiceInv
<1>8. CASE Answered(h) /\ ~(req[h].path = "/start" /\ fut[h].ok)
  <2>1. Answer(h, fut[h].http_status, fut[h].state)
    BY Zenon, <1>8 DEF Answered
  <2>2. fut[h] \in Response
    BY Zenon, <1>8 DEF Answered, Collect, Ready, ServiceInv, TypeOK, SerialTypeOK, Future
  <2>3. fut[h].http_status \in Code /\ fut[h].state \in State
    BY <2>2 DEF Response, Code
  <2>4. req[h].path = "/start" => fut[h].http_status # 202
    BY ZenonT(40), <1>8 DEF ServiceInv, HandlerInv
  <2> QED BY Zenon, <1>5, <2>1, <2>3, <2>4
<1> QED BY Zenon, <1>6, <1>7, <1>8

LEMMA DeliverInv ==
  ASSUME ServiceInv, NEW h \in Clients, Deliver(h)
  PROVE  ServiceInv'
<1>1. /\ pc[h] = "reply" /\ Goto(h, "idle")
      /\ req' = [req EXCEPT ![h] = NoRequest] /\ reply' = [reply EXCEPT ![h] = NoReply]
      /\ jid' = [jid EXCEPT ![h] = Nobody]
      /\ UNCHANGED <<serialVars, jobs_, running_, worker_, tpc, frame, expired,
                     target, crashed, baudrate_>>
  BY Zenon DEF Deliver
<1>2. SerialTypeOK' /\ PromiseKept' /\ FinishInv'
  BY Zenon, <1>1, QueueUntouched
<1>3. \A g \in Clients :
        /\ pc'[g] = IF g = h THEN "idle" ELSE pc[g]
        /\ jid'[g] = IF g = h THEN Nobody ELSE jid[g]
        /\ g # h => req'[g] = req[g] /\ reply'[g] = reply[g]
  BY Zenon, <1>1 DEF Goto, ServiceInv, TypeOK, Callers
<1>4. JobInv'
  BY SMTT(30), <1>1, <1>3 DEF ServiceInv, JobInv, Unspawned
<1>5. HandlerInv'
  BY SMTT(30), <1>1, <1>3, PromiseNames
  DEF ServiceInv, HandlerInv, AcceptedHasJob, HasId, exists, serialVars
<1>6. NoRequest \in Request /\ NoReply \in Reply
  BY DEF NoRequest, Request, Path, NoCommand, Command, Word, NoReply, Reply, Code
<1>7. TypeOK'
  BY Zenon, <1>1, <1>2, <1>6 DEF ServiceInv, TypeOK, Goto, CallerLabel
<1> QED BY Zenon, <1>2, <1>4, <1>5, <1>7 DEF ServiceInv

-----------------------------------------------------------------------------
(* JobRunner::stop() and JobRunner::start().                               *)

\* Callers move between places where a handler has no id.
LEMMA CallersMove ==
  ASSUME ServiceInv, UNCHANGED <<serialVars, jobs_, tpc, jid, req, reply>>,
         \A g \in Clients :
           \/ pc'[g] = pc[g]
           \/ /\ pc[g] \notin {"raise", "spawn", "assign", "started", "reply"}
              /\ pc'[g] \notin {"raise", "spawn", "assign", "started", "reply"}
  PROVE  PromiseKept' /\ JobInv' /\ HandlerInv' /\ FinishInv'
<1>1. PromiseKept' /\ FinishInv'
  BY Zenon, QueueUntouched
<1>2. JobInv'
  BY Zenon DEF ServiceInv, JobInv, Unspawned
<1>3. HandlerInv'
  BY DEF ServiceInv, HandlerInv, AcceptedHasJob, HasId, exists, serialVars
<1> QED BY Zenon, <1>1, <1>2, <1>3

LEMMA StopStepInv ==
  ASSUME ServiceInv, NEW h \in Callers, StopStep(h)
  PROVE  ServiceInv'
<1> DEFINE Before == {"stop", "joinable", "join", "joining"}
           After == {"joinable", "join", "joining", "threw", "drain", "create", "submit"}
<1>1. UNCHANGED <<serialVars, jobs_, tpc, frame, expired, jid, req, reply, baudrate_>>
  BY Zenon
     DEF StopStep, StopClear, Joinable, JoinEnter, JoinThrow, JoinReturn,
     handlerVars
<1>2. AfterStop(h) \in {"drain", "create", "submit"}
  BY Zenon DEF AfterStop
<1>3. /\ running_' \in BOOLEAN /\ crashed' \in BOOLEAN
      /\ worker_' \in Jobs \cup {Nobody}
      /\ target' \in [Callers -> Jobs \cup {Nobody}]
  BY Zenon
     DEF StopStep, StopClear, Joinable, JoinEnter, JoinThrow, JoinReturn,
     ServiceInv, TypeOK
<1>4. pc[h] \in Before /\ (pc' = pc \/ \E l \in After : Goto(h, l))
  BY Zenon, <1>2 DEF StopStep, StopClear, Joinable, JoinEnter, JoinThrow, JoinReturn
<1>5. pc' \in [Callers -> CallerLabel]
  BY <1>4 DEF Goto, ServiceInv, TypeOK, CallerLabel
<1>6. \A g \in Clients :
        \/ pc'[g] = pc[g]
        \/ /\ pc[g] \notin {"raise", "spawn", "assign", "started", "reply"}
           /\ pc'[g] \notin {"raise", "spawn", "assign", "started", "reply"}
  BY Zenon, <1>4 DEF Goto, ServiceInv, TypeOK, Callers
<1>7. PromiseKept' /\ JobInv' /\ HandlerInv' /\ FinishInv'
  BY Zenon, <1>1, <1>6, CallersMove
<1>8. TypeOK'
  BY Zenon, <1>1, <1>3, <1>5, QueueUntouched DEF ServiceInv, TypeOK
<1> QED BY Zenon, <1>7, <1>8 DEF ServiceInv

LEMMA MainInv ==
  ASSUME ServiceInv, Shutdown \/ Exit
  PROVE  ServiceInv'
<1>1. /\ UNCHANGED <<serialVars, jobs_, running_, worker_, tpc, frame, expired,
                     target, jid, crashed, req, reply, baudrate_>>
      /\ (Goto(Main, "stop") \/ Goto(Main, "exit"))
  BY Zenon DEF Shutdown, Exit, handlerVars
<1>2. pc' \in [Callers -> CallerLabel] /\ \A g \in Clients : pc'[g] = pc[g]
  BY Zenon, <1>1, MainIsApart DEF Goto, ServiceInv, TypeOK, Callers, CallerLabel
<1>3. PromiseKept' /\ JobInv' /\ HandlerInv' /\ FinishInv'
  BY Zenon, <1>1, <1>2, CallersMove
<1>4. TypeOK'
  BY Zenon, <1>1, <1>2, QueueUntouched DEF ServiceInv, TypeOK
<1> QED BY Zenon, <1>3, <1>4 DEF ServiceInv

LEMMA CreateInv ==
  ASSUME ServiceInv, NEW h \in Clients, Create(h), UNCHANGED <<serialVars, handlerVars>>
  PROVE  ServiceInv'
<1>1. PICK id \in Jobs :
        /\ ~exists(jobs_, id) /\ jobs_' = create(jobs_, id)
        /\ jid' = [jid EXCEPT ![h] = id]
  BY Zenon DEF Create
<1>2. /\ pc[h] = "create" /\ Goto(h, "raise")
      /\ UNCHANGED <<serialVars, running_, worker_, tpc, frame, expired, target,
                     crashed, req, reply, baudrate_>>
  BY Zenon DEF Create, handlerVars
<1>3. PromiseKept' /\ FinishInv' /\ SerialTypeOK'
  BY Zenon, <1>2, QueueUntouched
<1>4. \A j \in Jobs :
        jobs_'[j] = IF j = id THEN [status |-> "PENDING", qr |-> {}] ELSE jobs_[j]
  BY Zenon, <1>1 DEF create, ServiceInv, TypeOK
<1>5. \A g \in Clients :
        /\ pc'[g] = IF g = h THEN "raise" ELSE pc[g]
        /\ jid'[g] = IF g = h THEN id ELSE jid[g]
  BY Zenon, <1>1, <1>2 DEF Goto, ServiceInv, TypeOK, Callers
<1>6. jobs_[id].status = "ABSENT"
  BY Zenon, <1>1 DEF exists
<1>7. tpc[id] = "none"
  BY Zenon, <1>6 DEF ServiceInv, JobInv, TypeOK, ThreadLabel, Terminal, JobStatus
<1>8. \A g \in Clients : Unspawned(g) => jid[g] \in Jobs /\ jid[g] # id
  BY Zenon, <1>6 DEF ServiceInv, HandlerInv, JobInv, Unspawned, HasId
<1>9. JobInv'
  BY SMTT(30), <1>2, <1>4, <1>5, <1>6, <1>7, <1>8
     DEF ServiceInv, JobInv, Unspawned, Terminal, JobStatus
<1>10. \A k \in Jobs : exists(jobs_', k) <=> k = id \/ exists(jobs_, k)
  BY <1>4 DEF exists
<1>11. Nobody \notin Jobs
  BY Zenon, PromiseNames
<1>12. HandlerInv'
  <2>1. \A g \in Clients : g # h =>
          /\ pc'[g] = pc[g] /\ jid'[g] = jid[g] /\ req'[g] = req[g]
          /\ reply'[g] = reply[g] /\ fut'[g] = fut[g]
    BY ZenonT(40), <1>2, <1>5 DEF serialVars
  <2>2. AcceptedHasJob'
    <3> SUFFICES ASSUME NEW g \in Clients, pc'[g] = "reply", req'[g].path = "/start"
                 PROVE  reply'[g].code = 202 <=> jid'[g] \in Jobs /\ exists(jobs_', jid'[g])
      BY Zenon DEF AcceptedHasJob
    <3>1. g # h
      BY Zenon, <1>5
    <3>2. jid[g] # id
      BY Zenon, <1>1 DEF ServiceInv, HandlerInv
    <3>3. pc[g] = "reply" /\ req[g].path = "/start"
      BY Zenon, <2>1, <3>1
    <3>4. reply[g].code = 202 <=> jid[g] \in Jobs /\ exists(jobs_, jid[g])
      BY ZenonT(40), <3>3 DEF ServiceInv, HandlerInv, AcceptedHasJob
    <3>5. jid'[g] = jid[g] /\ reply'[g] = reply[g]
      BY Zenon, <2>1, <3>1
    <3> QED BY ZenonT(40), <1>10, <3>2, <3>4, <3>5
  <2>3. ASSUME NEW g \in Clients
        PROVE  /\ HasId(g)' => jid'[g] \in Jobs
               /\ jid'[g] \in Jobs => exists(jobs_', jid'[g])
               /\ ~HasId(g)' /\ pc'[g] # "reply" => jid'[g] = Nobody
    BY Zenon, <1>5, <1>10, <2>1 DEF ServiceInv, HandlerInv, HasId
  <2>4. \A g \in Clients : fut'[g].http_status = 202 => fut'[g].ok
    <3>1. fut' = fut
      BY Zenon, <1>2 DEF serialVars
    <3> QED BY Zenon, <3>1 DEF ServiceInv, HandlerInv
  <2> QED BY ZenonT(40), <2>2, <2>3, <2>4 DEF HandlerInv
<1>13. TypeOK'
  <2>1. [status |-> "PENDING", qr |-> {}] \in JobResultSet(Payloads)
    BY Zenon DEF JobResultSet, JobStatus
  <2> QED BY Zenon, <1>1, <1>2, <1>3, <2>1
     DEF ServiceInv, TypeOK, create, Goto, CallerLabel
<1> QED BY Zenon, <1>3, <1>9, <1>12, <1>13 DEF ServiceInv

\* The flag is raised, the thread constructed, the handle assigned.
LEMMA LaunchInv ==
  ASSUME ServiceInv, NEW h \in Clients, Raise(h) \/ Spawn(h) \/ Assign(h),
         UNCHANGED <<serialVars, handlerVars>>
  PROVE  ServiceInv'
<1>1. UNCHANGED <<serialVars, jobs_, frame, expired, target, jid, req, reply, baudrate_>>
  BY Zenon DEF Raise, Spawn, Assign, handlerVars
<1>2. pc[h] \in {"raise", "spawn", "assign"} /\ jid[h] \in Jobs
  BY Zenon DEF Raise, Spawn, Assign, ServiceInv, HandlerInv, HasId
<1>3. PICK l \in {"spawn", "assign", "started"} : pc' = pc \/ Goto(h, l)
  BY Zenon DEF Raise, Spawn, Assign
<1>4. \A g \in Clients : HasId(g)' <=> HasId(g)
  BY Zenon, <1>2, <1>3 DEF Goto, HasId, ServiceInv, TypeOK, Callers
<1>5. \A g \in Clients : pc'[g] = "reply" <=> pc[g] = "reply"
  BY Zenon, <1>2, <1>3 DEF Goto, ServiceInv, TypeOK, Callers
<1>6. HandlerInv'
  <2>1. fut' = fut
    BY Zenon, <1>1 DEF serialVars
  <2>2. \A g \in Clients : fut'[g].http_status = 202 => fut'[g].ok
    BY Zenon, <2>1 DEF ServiceInv, HandlerInv
  <2>3. AcceptedHasJob'
    BY <1>1, <1>5 DEF ServiceInv, HandlerInv, AcceptedHasJob, exists
  <2> QED BY ZenonT(40), <1>1, <1>4, <1>5, <2>2, <2>3 DEF ServiceInv, HandlerInv, exists
<1>7. SerialTypeOK' /\ PromiseKept'
  BY <1>1 DEF ServiceInv, TypeOK, SerialTypeOK, PromiseKept, serialVars
<1>8. TypeOK'
  <2>1. pc' \in [Callers -> CallerLabel]
    BY Zenon, <1>3 DEF Goto, ServiceInv, TypeOK, CallerLabel
  <2>2. /\ running_' \in BOOLEAN /\ crashed' \in BOOLEAN
        /\ worker_' \in Jobs \cup {Nobody}
    BY ZenonT(40), <1>2 DEF Raise, Spawn, Assign, ServiceInv, TypeOK
  <2>3. tpc' \in [Jobs -> ThreadLabel]
    BY Zenon, <1>2 DEF Raise, Spawn, Assign, ThreadGoto, ServiceInv, TypeOK, ThreadLabel
  <2> QED BY Zenon, <1>1, <1>7, <2>1, <2>2, <2>3 DEF ServiceInv, TypeOK
<1>9. CASE Spawn(h)
  <2>1. /\ \A j \in Jobs : tpc'[j] = IF j = jid[h] THEN "top" ELSE tpc[j]
        /\ \A g \in Clients : pc'[g] = IF g = h THEN "assign" ELSE pc[g]
        /\ pc[h] = "spawn"
    BY Zenon, <1>9 DEF Spawn, ThreadGoto, Goto, ServiceInv, TypeOK, Callers
  <2>2. tpc[jid[h]] = "none" /\ jobs_[jid[h]].status = "PENDING"
    BY Zenon, <2>1 DEF ServiceInv, JobInv, Unspawned
  <2>3. JobInv'
    <3>1. \A g \in Clients : Unspawned(g) => jid[g] \in Jobs
      BY ZenonT(40) DEF ServiceInv, HandlerInv, HasId, Unspawned
    <3> QED BY ZenonT(40), <1>1, <2>1, <2>2, <3>1 DEF ServiceInv, JobInv, Unspawned
  <2>4. FinishInv'
    <3>1. q_' = q_
      BY Zenon, <1>1 DEF serialVars
    <3>2. \A j \in Jobs : tpc[j] = "exited" => tpc'[j] = "exited"
      BY ZenonT(40), <2>1, <2>2
    <3> QED BY ZenonT(40), <3>1, <3>2 DEF ServiceInv, FinishInv
  <2> QED BY Zenon, <1>6, <1>7, <1>8, <2>3, <2>4 DEF ServiceInv
<1>10. CASE Raise(h) \/ Assign(h)
  <2>1. tpc' = tpc
    BY Zenon, <1>10 DEF Raise, Assign
  <2>2. \A g \in Clients : Unspawned(g)' => Unspawned(g)
    BY Zenon, <1>10
       DEF Raise, Assign, Goto, Unspawned, ServiceInv, TypeOK, Callers
  <2>3. JobInv'
    <3>1. jobs_' = jobs_ /\ jid' = jid
      BY Zenon, <1>1
    <3> QED BY Zenon, <2>1, <2>2, <3>1 DEF ServiceInv, JobInv
  <2>4. FinishInv'
    BY <1>1, <2>1 DEF ServiceInv, FinishInv, serialVars
  <2> QED BY <1>6, <1>7, <1>8, <2>3, <2>4 DEF ServiceInv
<1> QED BY Zenon, <1>9, <1>10

-----------------------------------------------------------------------------
(* The job threads and the dispatcher.                                     *)

\* Labels of a thread whose result is not stored, and of one whose result is.
Unstored == {"top", "read", "gate", "done", "timeout", "cancelled"}

Stored == {"clear", "finish", "exited"}

\* A thread moves and does not store anything.
LEMMA ThreadMoves ==
  ASSUME ServiceInv, NEW j \in Jobs, NEW l \in ThreadLabel, ThreadGoto(j, l),
         \/ tpc[j] \in Unstored /\ l \in Unstored
         \/ tpc[j] \in Stored \ {"exited"} /\ l \in Stored,
         UNCHANGED <<jobs_, pc, jid, req, reply, fut>>
  PROVE  JobInv' /\ HandlerInv' /\ tpc' \in [Jobs -> ThreadLabel]
<1>1. \A k \in Jobs : tpc'[k] = IF k = j THEN l ELSE tpc[k]
  BY Zenon DEF ThreadGoto, ServiceInv, TypeOK
<1>2. \A h \in Clients : Unspawned(h) => jid[h] \in Jobs /\ jid[h] # j
  BY Zenon DEF ServiceInv, JobInv, HandlerInv, HasId, Unspawned, Unstored, Stored
<1>3. JobInv'
  BY ZenonT(40), <1>1, <1>2 DEF ServiceInv, JobInv, Unspawned, Unstored, Stored
<1>4. HandlerInv'
  BY DEF ServiceInv, HandlerInv, AcceptedHasJob, HasId, exists
<1> QED BY Zenon, <1>3, <1>4 DEF ThreadGoto, ServiceInv, TypeOK

LEMMA ThreadRunsInv ==
  ASSUME ServiceInv, NEW j \in Jobs,
         \/ LeaveLoop(j) \/ OpenSerial(j) \/ ReadFrame(j) \/ Gate(j) \/ ClearRunning(j)
         \/ Expire(j),
         UNCHANGED <<serialVars, handlerVars>>
  PROVE  ServiceInv'
<1>1. UNCHANGED <<serialVars, jobs_, worker_, pc, target, jid, crashed, req, reply, baudrate_>>
  BY Zenon DEF LeaveLoop, OpenSerial, ReadFrame, Gate, ClearRunning, Expire, handlerVars
<1>2. UNCHANGED <<fut, q_>>
  BY Zenon, <1>1 DEF serialVars
<1>3. /\ running_' \in BOOLEAN
      /\ frame' \in [Jobs -> {{}} \cup {{p} : p \in Payloads}]
      /\ expired' \in [Jobs -> BOOLEAN]
  BY ZenonT(40)
     DEF LeaveLoop, OpenSerial, ReadFrame, Gate, ClearRunning, Expire, ServiceInv,
     TypeOK
<1>4. \/ tpc' = tpc
      \/ \E l \in ThreadLabel :
           /\ ThreadGoto(j, l)
           /\ \/ tpc[j] \in Unstored /\ l \in Unstored
              \/ tpc[j] \in Stored \ {"exited"} /\ l \in Stored \ {"exited"}
  <2> USE DEF ThreadLabel, Unstored, Stored
  <2>1. CASE Gate(j)
    <3>1. PICK l \in {"cancelled", "done", "top"} : ThreadGoto(j, l)
      BY Zenon, <2>1 DEF Gate, ServiceInv, TypeOK
    <3> QED BY Zenon, <2>1, <3>1 DEF Gate
  <2>2. CASE LeaveLoop(j)
    BY Zenon, <2>2 DEF LeaveLoop
  <2>3. CASE OpenSerial(j) \/ ReadFrame(j) \/ ClearRunning(j) \/ Expire(j)
    BY Zenon, <2>3 DEF OpenSerial, ReadFrame, ClearRunning, Expire
  <2> QED BY Zenon, <2>1, <2>2, <2>3
<1>5. JobInv' /\ HandlerInv' /\ tpc' \in [Jobs -> ThreadLabel]
  <2>1. CASE tpc' = tpc
    <3>1. JobInv'
      BY Zenon, <1>1, <2>1 DEF ServiceInv, JobInv, Unspawned
    <3>2. HandlerInv'
      BY <1>1, <1>2 DEF ServiceInv, HandlerInv, AcceptedHasJob, HasId, exists
    <3> QED BY Zenon, <2>1, <3>1, <3>2 DEF ServiceInv, TypeOK
  <2> QED BY Zenon, <1>1, <1>2, <1>4, <2>1, ThreadMoves
<1>6. FinishInv'
  BY SMTT(30), <1>2, <1>4
     DEF ServiceInv, FinishInv, ThreadGoto, TypeOK, Unstored, Stored
<1>7. SerialTypeOK' /\ PromiseKept'
  <2>1. UNCHANGED <<st_, q_, fut>>
    BY Zenon, <1>1 DEF serialVars
  <2> QED BY SMTT(30), <2>1 DEF ServiceInv, TypeOK, SerialTypeOK, PromiseKept
<1> QED BY Zenon, <1>1, <1>3, <1>5, <1>6, <1>7 DEF ServiceInv, TypeOK

\* What StoreResult writes, and the job it writes it for.
LEMMA StoreWrites ==
  ASSUME ServiceInv, NEW j \in Jobs, StoreResult(j)
  PROVE  /\ tpc[j] \in {"done", "timeout", "cancelled"} /\ jobs_[j].status = "PENDING"
         /\ \/ \E p \in Payloads : jobs_' = set_done(jobs_, j, p)
            \/ jobs_' = set_timeout(jobs_, j)
            \/ jobs_' = set_cancelled(jobs_, j)
<1>1. tpc[j] \in {"done", "timeout", "cancelled"}
  BY Zenon DEF StoreResult
<1>2. jobs_[j].status = "PENDING"
  BY Zenon, <1>1 DEF ServiceInv, JobInv
<1>3. frame[j] \subseteq Payloads
  <2>1. frame[j] \in {{}} \cup {{p} : p \in Payloads}
    BY Zenon DEF ServiceInv, TypeOK
  <2> QED BY Zenon, <2>1
<1> QED BY Zenon, <1>1, <1>2, <1>3 DEF StoreResult

LEMMA StoresOneResult ==
  ASSUME ServiceInv, NEW j \in Jobs, StoreResult(j)
  PROVE  \E r \in JobResultSet(Payloads) :
           r.status \in Terminal /\ jobs_' = [jobs_ EXCEPT ![j] = r]
<1> USE DEF JobResultSet, Terminal, JobStatus
<1>1. ASSUME NEW p \in Payloads, jobs_' = set_done(jobs_, j, p)
      PROVE  \E r \in JobResultSet(Payloads) :
               r.status \in Terminal /\ jobs_' = [jobs_ EXCEPT ![j] = r]
  <2>1. [status |-> "DONE", qr |-> {p}] \in JobResultSet(Payloads)
    BY Zenon
  <2> QED BY Zenon, <1>1, <2>1 DEF set_done
<1>2. ASSUME NEW w \in {"TIMEOUT", "CANCELLED"},
             jobs_' = [jobs_ EXCEPT ![j] = [status |-> w, qr |-> {}]]
      PROVE  \E r \in JobResultSet(Payloads) :
               r.status \in Terminal /\ jobs_' = [jobs_ EXCEPT ![j] = r]
  <2>1. [status |-> w, qr |-> {}] \in JobResultSet(Payloads)
    BY Zenon
  <2> QED BY ZenonT(40), <1>2, <2>1
<1> QED BY Zenon, <1>1, <1>2, StoreWrites DEF set_timeout, set_cancelled

LEMMA StoreResultInv ==
  ASSUME ServiceInv, NEW j \in Jobs, StoreResult(j), UNCHANGED <<serialVars, handlerVars>>
  PROVE  ServiceInv'
<1>1. /\ UNCHANGED <<serialVars, running_, worker_, frame, expired, pc, target, jid,
                     crashed, req, reply, baudrate_>>
      /\ ThreadGoto(j, "clear")
  BY Zenon DEF StoreResult, handlerVars
<1>2. tpc[j] \in {"done", "timeout", "cancelled"}
  BY Zenon, StoreWrites
<1>3. PICK r \in JobResultSet(Payloads) :
        r.status \in Terminal /\ jobs_' = [jobs_ EXCEPT ![j] = r]
  BY Zenon, StoresOneResult
<1>4. /\ \A k \in Jobs : jobs_'[k] = IF k = j THEN r ELSE jobs_[k]
      /\ \A k \in Jobs : tpc'[k] = IF k = j THEN "clear" ELSE tpc[k]
  BY Zenon, <1>1, <1>3 DEF ThreadGoto, ServiceInv, TypeOK
<1>5. \A h \in Clients : Unspawned(h) => jid[h] \in Jobs /\ jid[h] # j
  BY ZenonT(40), <1>2 DEF ServiceInv, JobInv, HandlerInv, HasId, Unspawned
<1>6. JobInv'
  <2>1. \A k \in Jobs :
          /\ tpc'[k] \in {"top", "read", "gate", "done", "timeout", "cancelled"}
               => jobs_'[k].status = "PENDING"
          /\ tpc'[k] \in {"clear", "finish", "exited"} => jobs_'[k].status \in Terminal
    <3> TAKE k \in Jobs
    <3>1. CASE k = j
      <4>1. tpc'[k] = "clear" /\ jobs_'[k] = r
        BY Zenon, <1>4, <3>1
      <4> QED BY Zenon, <1>3, <4>1
    <3>2. CASE k # j
      <4>1. tpc'[k] = tpc[k] /\ jobs_'[k] = jobs_[k]
        BY Zenon, <1>4, <3>2
      <4> QED BY ZenonT(40), <4>1 DEF ServiceInv, JobInv
    <3> QED BY Zenon, <3>1, <3>2
  <2>2. \A h \in Clients : Unspawned(h)' <=> Unspawned(h)
    BY Zenon, <1>1 DEF Unspawned
  <2>3. \A h \in Clients : Unspawned(h) =>
          tpc'[jid[h]] = "none" /\ jobs_'[jid[h]].status = "PENDING"
    BY Zenon, <1>4, <1>5 DEF ServiceInv, JobInv
  <2> QED BY Zenon, <1>1, <2>1, <2>2, <2>3 DEF ServiceInv, JobInv
<1>7. \A k \in Jobs : exists(jobs_', k) <=> exists(jobs_, k)
  BY <1>3, <1>4, StoreWrites DEF exists, Terminal, JobStatus
<1>8. HandlerInv'
  <2>1. fut' = fut
    BY Zenon, <1>1 DEF serialVars
  <2>2. AcceptedHasJob'
    BY ZenonT(40), <1>1, <1>7 DEF ServiceInv, HandlerInv, AcceptedHasJob
  <2> QED BY Zenon, <1>1, <1>7, <2>1, <2>2 DEF ServiceInv, HandlerInv, HasId
<1>9. FinishInv'
  <2>1. q_' = q_
    BY Zenon, <1>1 DEF serialVars
  <2>2. \A k \in Jobs : tpc[k] = "exited" => tpc'[k] = "exited"
    BY Zenon, <1>2, <1>4
  <2> QED BY Zenon, <2>1, <2>2 DEF ServiceInv, FinishInv
<1>10. SerialTypeOK' /\ PromiseKept'
  BY <1>1 DEF ServiceInv, TypeOK, SerialTypeOK, PromiseKept, serialVars
<1>11. TypeOK'
  BY Zenon, <1>1, <1>3, <1>10 DEF ServiceInv, TypeOK, ThreadGoto, ThreadLabel
<1> QED BY Zenon, <1>6, <1>8, <1>9, <1>10, <1>11 DEF ServiceInv

LEMMA SubmitFinishInv ==
  ASSUME ServiceInv, SerialTypeOK', PromiseKept', NEW j \in Jobs, SubmitFinish(j),
         UNCHANGED handlerVars
  PROVE  ServiceInv'
<1>1. /\ tpc[j] = "finish" /\ ThreadGoto(j, "exited")
      /\ SubmitDetached(j, FinishWork)
      /\ frame' = [frame EXCEPT ![j] = {}] /\ expired' = [expired EXCEPT ![j] = FALSE]
      /\ UNCHANGED <<fut, jobs_, running_, worker_, pc, target, jid, crashed,
                     req, reply, baudrate_>>
  BY Zenon DEF SubmitFinish, SubmitDetached, handlerVars
<1>2. JobInv' /\ HandlerInv' /\ tpc' \in [Jobs -> ThreadLabel]
  BY Zenon, <1>1, ThreadMoves DEF ThreadLabel, Stored
<1>3. TypeOK'
  BY Zenon, <1>1, <1>2 DEF ServiceInv, TypeOK
<1>4. FinishInv'
  <2>1. q_ \in Seq(Task) /\ TaskOf(FinishWork, j) \in Task /\ TaskOf(FinishWork, j).prom = j
    BY Zenon, FinishIsWork, WorkIsTask DEF ServiceInv, TypeOK, SerialTypeOK
  <2>2. q_' = Append(q_, TaskOf(FinishWork, j))
    BY Zenon, <1>1 DEF SubmitDetached
  <2>3. \A i \in DOMAIN q_ : q_[i].prom # j
    BY Zenon, <1>1 DEF ServiceInv, FinishInv
  <2>4. \A k \in Jobs : tpc'[k] = IF k = j THEN "exited" ELSE tpc[k]
    BY Zenon, <1>1 DEF ThreadGoto, ServiceInv, TypeOK
  <2> DEFINE n == Len(q_) + 1
  <2>5. /\ DOMAIN q_ = 1 .. Len(q_) /\ Len(q_) \in Nat /\ DOMAIN q_' = 1 .. n
        /\ q_'[n].prom = j /\ \A i \in DOMAIN q_ : q_'[i] = q_[i]
    BY ZenonT(40), <2>1, <2>2, PushIndices
  <2>6. \A i \in DOMAIN q_' : i \in DOMAIN q_ \/ i = n
    BY <2>5
  <2> HIDE DEF n
  <2>7. \A k \in Jobs : \A i \in DOMAIN q_ : q_[i].prom = k =>
          tpc[k] = "exited" /\ \A m \in DOMAIN q_ : q_[m].prom = k => i = m
    BY ZenonT(40) DEF ServiceInv, FinishInv
  <2>8. \A k \in Jobs : \A i \in DOMAIN q_' : q_'[i].prom = k =>
          tpc'[k] = "exited" /\ \A m \in DOMAIN q_' : q_'[m].prom = k => i = m
    <3> TAKE k \in Jobs
    <3>1. CASE k = j
      <4>1. \A i \in DOMAIN q_' : q_'[i].prom = k => i = n
        BY Zenon, <2>3, <2>5, <2>6, <3>1
      <4> QED BY Zenon, <2>4, <3>1, <4>1
    <3>2. CASE k # j
      <4>1. \A i \in DOMAIN q_' : q_'[i].prom = k => i \in DOMAIN q_ /\ q_[i].prom = k
        BY Zenon, <2>5, <2>6, <3>2
      <4> QED BY Zenon, <2>4, <2>7, <3>2, <4>1
    <3> QED BY Zenon, <3>1, <3>2
  <2> QED BY ZenonT(40), <2>8 DEF FinishInv
<1> QED BY Zenon, <1>2, <1>3, <1>4 DEF ServiceInv

LEMMA DispatchInv ==
  ASSUME ServiceInv, SerialTypeOK', PromiseKept', Dispatch
  PROVE  ServiceInv'
<1>1. /\ UNCHANGED <<jobs_, running_, worker_, tpc, frame, expired, pc, target, jid,
                     crashed, req, reply, baudrate_>>
      /\ Serve
  BY Zenon DEF Dispatch, runnerVars, handlerVars
<1>2. TypeOK'
  BY Zenon, <1>1 DEF ServiceInv, TypeOK
<1>3. JobInv'
  BY Zenon, <1>1 DEF ServiceInv, JobInv, Unspawned
<1>4. q_ \in Seq(Task) /\ q_ # << >> /\ q_' = Tail(q_) /\ st_ \in State
  BY Zenon, <1>1 DEF Serve, ServiceInv, TypeOK, SerialTypeOK
<1>5. PICK o \in Outcomes(st_, Head(q_)) : fut' = Fulfil(fut, Head(q_).prom, o.r)
  BY Zenon, <1>1 DEF Serve
<1>6. o.r.http_status = 202 => o.r.ok
  <2>1. Head(q_).kind \in Kind /\ Head(q_).command \in Command
    BY Zenon, <1>4, PopIndices DEF Task, TaskSet
  <2> QED BY <1>4, <2>1, AcceptedIs202
<1>7. ASSUME NEW h \in Clients, fut'[h].http_status = 202 PROVE fut'[h].ok
  <2>1. fut'[h] = o.r \/ fut'[h] = fut[h]
    BY Zenon, <1>5 DEF Fulfil, ServiceInv, TypeOK, SerialTypeOK
  <2>2. fut[h].http_status = 202 => fut[h].ok
    BY ZenonT(40) DEF ServiceInv, HandlerInv
  <2>3. CASE fut'[h] = o.r
    BY Zenon, <1>6, <1>7, <2>3
  <2>4. CASE fut'[h] = fut[h]
    BY Zenon, <1>7, <2>2, <2>4
  <2> QED BY Zenon, <2>1, <2>3, <2>4
<1>8. HandlerInv'
  <2>1. AcceptedHasJob'
    BY ZenonT(40), <1>1 DEF ServiceInv, HandlerInv, AcceptedHasJob, exists
  <2> QED BY Zenon, <1>1, <1>7, <2>1 DEF ServiceInv, HandlerInv, HasId, exists
<1>9. FinishInv'
  <2> SUFFICES ASSUME NEW j \in Jobs
               PROVE  LET mine == {i \in DOMAIN q_' : q_'[i].prom = j}
                      IN  /\ mine # {} => tpc'[j] = "exited"
                          /\ \A i, k \in mine : i = k
    BY Zenon DEF FinishInv
  <2>1. ASSUME NEW i \in DOMAIN q_', q_'[i].prom = j
        PROVE  i \in Nat /\ i + 1 \in DOMAIN q_ /\ q_[i + 1].prom = j
    BY Zenon, <1>4, <2>1, PopIndices
  <2>2. \A i \in DOMAIN q_ : q_[i].prom = j => tpc[j] = "exited"
    BY Zenon DEF ServiceInv, FinishInv
  <2>3. \A i, k \in DOMAIN q_ : q_[i].prom = j /\ q_[k].prom = j => i = k
    BY Zenon DEF ServiceInv, FinishInv
  <2> QED BY SMTT(30), <1>1, <2>1, <2>2, <2>3
<1> QED BY Zenon, <1>2, <1>3, <1>8, <1>9 DEF ServiceInv

-----------------------------------------------------------------------------
LEMMA ServiceStep == ServiceInv /\ [Next]_vars => ServiceInv'
<1> SUFFICES ASSUME ServiceInv, [Next]_vars PROVE ServiceInv'
  BY Zenon
<1>1. SerialTypeOK' /\ PromiseKept'
  <2>1. SerialInv /\ TypeOK
    BY Zenon DEF ServiceInv, TypeOK, SerialInv
  <2>2. [SerialNext]_serialVars
    BY Zenon, <2>1, StepUsesQueue
  <2> QED BY Zenon, <2>1, <2>2, SerialStepInv DEF SerialInv
<1>2. ASSUME NEW h \in Clients, Receive(h) \/ TimedOut(h) \/ HandlerStep(h)
      PROVE  ServiceInv'
  <2>1. CASE StartStep(h)
    BY Zenon, <2>1, CreateInv, LaunchInv DEF StartStep
  <2>2. h \in Callers
    BY Zenon DEF Callers
  <2> QED
    BY Zenon, <1>1, <1>2, <2>1, <2>2, ReceiveInv, QuietInv, SubmitRequestInv, WaitEndsInv,
       DeliverInv, StopStepInv
    DEF HandlerStep
<1>3. ASSUME NEW j \in Jobs,
             \/ ThreadStep(j)
             \/ (OpenSerial(j) \/ Expire(j)) /\ UNCHANGED <<serialVars, handlerVars>>
      PROVE  ServiceInv'
  BY Zenon, <1>1, <1>3, ThreadRunsInv, StoreResultInv, SubmitFinishInv DEF ThreadStep
<1>4. ASSUME MainStep PROVE ServiceInv'
  BY Zenon, <1>4, StopStepInv, MainInv DEF MainStep, Callers
<1>5. CASE UNCHANGED vars
  <2>1. UNCHANGED <<serialVars, jobs_, running_, worker_, tpc, frame, expired, pc,
                    target, jid, crashed, req, reply, baudrate_>>
    BY Zenon, <1>5 DEF vars, runnerVars, handlerVars
  <2>2. PromiseKept' /\ JobInv' /\ HandlerInv' /\ FinishInv'
    BY Zenon, <2>1, CallersMove
  <2> QED BY Zenon, <1>1, <2>1, <2>2 DEF ServiceInv, TypeOK
<1> QED BY Zenon, <1>1, <1>2, <1>3, <1>4, <1>5, DispatchInv, MainInv DEF Next, Step

(***************************************************************************)
(* The invariant the results below are read off from: the store follows    *)
(* the job threads, ids belong to one handler, a thread submits FINISH_JOB *)
(* once, and futures answer the requests that hold them.                   *)
(***************************************************************************)
THEOREM ServiceInvariant == Spec => []ServiceInv
BY ServiceInit, ServiceStep, PTL DEF Spec

(***************************************************************************)
(* Every variable of the service keeps its type.                           *)
(***************************************************************************)
THEOREM ServiceTypes == Spec => []TypeOK
<1>1. ServiceInv => TypeOK
  BY Zenon DEF ServiceInv
<1> QED BY <1>1, ServiceInvariant, PTL

(***************************************************************************)
(* However handlers, job threads and the 500 ms interleave, a waiting      *)
(* handler has one task queued and no other task can answer it.            *)
(***************************************************************************)
THEOREM AnswersReachTheirRequest == Spec => []PromiseKept
<1>1. ServiceInv => PromiseKept
  BY Zenon DEF ServiceInv
<1> QED BY <1>1, ServiceInvariant, PTL

(***************************************************************************)
(* FINISH_JOB of a job is queued once, after its result is in the store.   *)
(***************************************************************************)
THEOREM ResultBeforeFinish == Spec => []FinishFollowsResult
<1>1. ServiceInv => FinishFollowsResult
  BY SMTT(30) DEF ServiceInv, FinishInv, JobInv, FinishFollowsResult
<1> QED BY <1>1, ServiceInvariant, PTL

(***************************************************************************)
(* /start answers 202 exactly when it has created a job.                   *)
(***************************************************************************)
THEOREM AcceptedMeansJob == Spec => []AcceptedHasJob
<1>1. ServiceInv => AcceptedHasJob
  BY Zenon DEF ServiceInv, HandlerInv
<1> QED BY <1>1, ServiceInvariant, PTL

-----------------------------------------------------------------------------
(* The refinement of JobService.                                           *)

\* A step of the service creates a job, ends one, or leaves the store alone.
LEMMA JobStep == ServiceInv /\ [Next]_vars => [Service!JobNext]_jobs_
<1> SUFFICES ASSUME ServiceInv, [Next]_vars, jobs_' # jobs_ PROVE Service!JobNext
  BY Zenon
<1>1. ASSUME NEW h \in Clients, Create(h) PROVE Service!JobNext
  BY Zenon, <1>1
  DEF Create, exists, create, Service!JobNext, Service!NewJob, Service!exists, Service!create
<1>2. ASSUME NEW j \in Jobs, StoreResult(j) PROVE Service!JobNext
  <2>1. Service!EndJob(j)
    BY Zenon, <1>2, StoreWrites
    DEF set_done, set_timeout, set_cancelled, Service!EndJob, Service!set_done,
        Service!set_timeout, Service!set_cancelled
  <2> QED BY Zenon, <2>1 DEF Service!JobNext
<1>3. ASSUME NEW h,
             \/ Receive(h) \/ TimedOut(h) \/ SetBaudrate(h) \/ SubmitRequest(h)
             \/ Answered(h) \/ Started(h) \/ Lookup(h) \/ ReadState(h) \/ Threw(h)
             \/ Deliver(h)
      PROVE  FALSE
  BY ZenonT(40), <1>3
     DEF Receive, TimedOut, SetBaudrate, SubmitRequest, Answered, Started, Lookup,
              ReadState, Threw, Deliver
<1>4. ASSUME NEW h, StopStep(h) \/ Raise(h) \/ Spawn(h) \/ Assign(h) PROVE FALSE
  BY Zenon, <1>4
     DEF StopStep, StopClear, Joinable, JoinEnter, JoinThrow, JoinReturn, Raise,
              Spawn, Assign
<1>5. ASSUME NEW j,
             \/ LeaveLoop(j) \/ ReadFrame(j) \/ Gate(j) \/ ClearRunning(j)
             \/ SubmitFinish(j) \/ OpenSerial(j) \/ Expire(j)
      PROVE  FALSE
  BY Zenon, <1>5
     DEF LeaveLoop, ReadFrame, Gate, ClearRunning, SubmitFinish, OpenSerial, Expire
<1>6. ASSUME Dispatch \/ Shutdown \/ Exit \/ UNCHANGED vars PROVE FALSE
  BY Zenon, <1>6 DEF Dispatch, Shutdown, Exit, vars, runnerVars
<1> QED
  BY Zenon, <1>1, <1>2, <1>3, <1>4, <1>5, <1>6
  DEF Next, Step, HandlerStep, StartStep, ThreadStep, MainStep

(***************************************************************************)
(* The service implements JobService: the gateway may rely on a job        *)
(* appearing once, ending once and keeping its result, for any number of   *)
(* clients and jobs.                                                       *)
(***************************************************************************)
THEOREM ServiceRefinement == Spec => ImplementsJobService
<1>1. Init => Service!JobInit
  BY Zenon DEF Init, Absent, Service!JobInit, Service!Absent
<1> QED
  BY <1>1, JobStep, ServiceInvariant, PTL
     DEF Spec, ImplementsJobService, Service!JobSpec

=============================================================================
