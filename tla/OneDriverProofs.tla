-------------------------- MODULE OneDriverProofs ---------------------------
(***************************************************************************)
(* Proofs about OneDriver: with one client that starts and stops, however  *)
(* many others look on, jobs never overlap, Core's state tells the truth   *)
(* about them, a STOP is effective, and the process ends in order.         *)
(***************************************************************************)
EXTENDS OneDriver, QrServiceProofs

LEMMA Apart ==
  /\ Driver \in Clients /\ Driver \in Callers
  /\ Main \in Callers /\ Main \notin Clients /\ Main # Driver
BY Zenon, OneDriverAssumption, MainIsApart DEF Callers

LEMMA DriverInit == Init => DriverInv
<1> SUFFICES ASSUME Init PROVE DriverInv
  BY Zenon
<1>1. /\ \A h \in Clients : pc[h] = "idle" /\ fut[h] = NoFuture
      /\ pc[Main] = "serve" /\ \A j \in Jobs : ~Live(j)
      /\ st_ = "NOT_INIT" /\ q_ = << >> /\ ~crashed
  BY Zenon, Apart DEF Init, SerialInit, Callers, Live
<1>2. NoFuture.http_status # 202
  BY DEF NoFuture
<1>3. ObserverInv /\ ShutdownInv /\ NeverCrashes
  BY Zenon, <1>1 DEF ObserverInv, ShutdownInv, NeverCrashes
<1>6. FutureInv
  BY ZenonT(40), <1>1, <1>2 DEF FutureInv
<1>7. OwnerInv
  BY Zenon, <1>1, Apart DEF OwnerInv
<1>4. TaskInv /\ LastFinishInv
  BY <1>1 DEF TaskInv, LastFinishInv
<1>5. LiveInv /\ CoreInv
  BY ZenonT(40), <1>1, <1>2, Apart DEF LiveInv, CoreInv, Starting
<1> QED BY Zenon, <1>3, <1>4, <1>5, <1>6, <1>7 DEF DriverInv

\* The futures are as they were, and so are the handlers that hold them.
LEMMA FutureKept ==
  ASSUME FutureInv, UNCHANGED fut,
         \A h \in Clients : /\ pc'[h] = "wait" <=> pc[h] = "wait"
                            /\ pc[h] = "wait" => req'[h] = req[h]
  PROVE  FutureInv'
<1> SUFFICES ASSUME NEW h \in Clients
             PROVE  /\ pc'[h] = "wait" <=> fut'[h] # NoFuture
                    /\ fut'[h].http_status = 202 <=>
                         pc'[h] = "wait" /\ req'[h].path = "/start" /\ fut'[h].ok
  BY Zenon DEF FutureInv
<1>1. /\ pc[h] = "wait" <=> fut[h] # NoFuture
      /\ fut[h].http_status = 202 <=>
           pc[h] = "wait" /\ req[h].path = "/start" /\ fut[h].ok
  BY Zenon DEF FutureInv
<1>2. /\ pc'[h] = "wait" <=> pc[h] = "wait"
      /\ pc[h] = "wait" => req'[h] = req[h]
  BY Zenon
<1>3. CASE pc[h] = "wait"
  BY ZenonT(40), <1>1, <1>2, <1>3
<1>4. CASE pc[h] # "wait"
  BY Zenon, <1>1, <1>2, <1>4
<1> QED BY Zenon, <1>3, <1>4

\* Steps that leave the queue and the lives of threads alone.
LEMMA RunKept ==
  ASSUME ServiceInv, DriverInv, UNCHANGED serialVars,
         \A j \in Jobs : Live(j)' <=> Live(j),
         \A h \in Clients : /\ pc'[h] = "wait" <=> pc[h] = "wait"
                            /\ pc[h] = "wait" => req'[h] = req[h],
         Starting(Driver)' <=> Starting(Driver),
         ~NoneLive => ~Stopped(Driver)' /\ pc'[Main] \notin {"drain", "exit"},
         \A j \in Jobs : Live(j) =>
           worker_' = j \/ (pc'[Driver] = "assign" /\ jid'[Driver] = j),
         ObserverInv', OwnerInv', ShutdownInv', NeverCrashes'
  PROVE  DriverInv'
<1>1. q_' = q_ /\ st_' = st_ /\ fut' = fut
  BY Zenon DEF serialVars
<1>2. \A i \in DOMAIN q_ : q_[i].prom \in Clients =>
        pc[q_[i].prom] = "wait" /\ req'[q_[i].prom] = req[q_[i].prom]
  BY Zenon, PromiseNames DEF DriverInv, TaskInv
<1>3. TaskInv'
  <2> SUFFICES ASSUME NEW i \in DOMAIN q_
               PROVE  \/ q_[i].prom \in Jobs /\ q_[i].kind = "FINISH_JOB"
                      \/ /\ q_[i].prom \in Clients /\ pc'[q_[i].prom] = "wait"
                         /\ q_[i] = TaskOf(WorkOf(req'[q_[i].prom]), q_[i].prom)
    BY Zenon, <1>1 DEF TaskInv
  <2> QED BY Zenon, <1>2 DEF DriverInv, TaskInv
<1>4. FutureInv'
  BY Zenon, <1>1, FutureKept DEF DriverInv
<1>5. NoneLive' <=> NoneLive
  BY Zenon DEF NoneLive
<1>6. LastFinishInv'
  <2> SUFFICES ASSUME NEW i \in DOMAIN q_, q_[i].kind = "FINISH_JOB"
               PROVE  /\ st_ = "RUNNING" /\ NoneLive' /\ ~Starting(Driver)'
                      /\ \A k \in DOMAIN q_ :
                           /\ q_[k].kind = "FINISH_JOB" => k = i
                           /\ q_[k].prom = Driver /\ IsStop(req'[Driver]) => i < k
    BY Zenon, <1>1 DEF LastFinishInv
  <2>1. \A k \in DOMAIN q_ : q_[k].prom = Driver => req'[Driver] = req[Driver]
    BY Zenon, <1>2, Apart
  <2> QED BY Zenon, <1>5, <2>1 DEF DriverInv, LastFinishInv
<1>7. LiveInv'
  BY Zenon, <1>1 DEF DriverInv, LiveInv, NoneLive
<1>8. CoreInv'
  BY Zenon, <1>1, <1>5 DEF DriverInv, CoreInv, FinishQueued
<1> QED BY Zenon, <1>3, <1>4, <1>6, <1>7, <1>8 DEF DriverInv

\* What does not depend on the step: who may be where.
LEMMA Serving ==
  ASSUME DriverInv, NEW h \in Clients, pc[h] # "idle"
  PROVE  pc[Main] = "serve"
BY Zenon DEF DriverInv, ShutdownInv

\* An observer moves.
LEMMA ObserverMoves ==
  ASSUME ServiceInv, DriverInv, NEW h \in Clients \ {Driver}, NEW l,
         Goto(h, l), pc[h] # "wait", pc[Main] = "serve",
         l \in {"idle", "baud", "submit", "lookup", "state", "reply"},
         l \in {"baud", "submit"} => req'[h].path = "/command" /\ ~IsStop(req'[h]),
         UNCHANGED <<serialVars, worker_, tpc, target, crashed>>,
         \A g \in Clients \ {h} : req'[g] = req[g] /\ jid'[g] = jid[g]
  PROVE  DriverInv'
<1>1. \A g \in Callers : pc'[g] = IF g = h THEN l ELSE pc[g]
  BY Zenon DEF Goto, ServiceInv, TypeOK
<1>2. /\ pc'[Driver] = pc[Driver] /\ pc'[Main] = pc[Main]
      /\ req'[Driver] = req[Driver] /\ jid'[Driver] = jid[Driver]
      /\ \A g \in Clients : pc'[g] = IF g = h THEN l ELSE pc[g]
  BY Zenon, <1>1, Apart DEF Callers
<1>3. fut' = fut
  BY Zenon DEF serialVars
<1>4. \A j \in Jobs : Live(j)' <=> Live(j)
  BY Zenon DEF Live
<1>5. /\ Starting(Driver)' <=> Starting(Driver)
      /\ Stopped(Driver)' <=> Stopped(Driver)
  BY ZenonT(40), <1>2, <1>3 DEF Starting, Stopped
<1>6. \A g \in Clients : /\ pc'[g] = "wait" <=> pc[g] = "wait"
                         /\ pc[g] = "wait" => req'[g] = req[g]
  BY Zenon, <1>2
<1>7. ObserverInv'
  <2> SUFFICES ASSUME NEW g \in Clients \ {Driver}
               PROVE  /\ pc'[g] \in {"idle", "baud", "submit", "wait", "lookup",
                                     "state", "reply"}
                      /\ pc'[g] \in {"baud", "submit", "wait"} =>
                           req'[g].path = "/command" /\ ~IsStop(req'[g])
    BY Zenon DEF ObserverInv
  <2>1. CASE g = h
    BY Zenon, <1>2, <2>1
  <2>2. CASE g # h
    BY Zenon, <1>2, <2>2 DEF DriverInv, ObserverInv
  <2> QED BY Zenon, <2>1, <2>2
<1>8. OwnerInv' /\ ShutdownInv' /\ NeverCrashes'
  BY ZenonT(40), <1>2 DEF DriverInv, OwnerInv, ShutdownInv, NeverCrashes
<1>9. ~NoneLive => ~Stopped(Driver)' /\ pc'[Main] \notin {"drain", "exit"}
  BY Zenon, <1>2, <1>5 DEF DriverInv, LiveInv, NoneLive
<1>10. \A j \in Jobs : Live(j) =>
         worker_' = j \/ (pc'[Driver] = "assign" /\ jid'[Driver] = j)
  BY Zenon, <1>2 DEF DriverInv, LiveInv
<1> QED BY Zenon, <1>4, <1>5, <1>6, <1>7, <1>8, <1>9, <1>10, RunKept

\* The driver moves, and is not waiting for a future before or after.
LEMMA DriverMoves ==
  ASSUME ServiceInv, DriverInv, NEW l, Goto(Driver, l),
         pc[Driver] # "wait", l # "wait", pc[Main] = "serve",
         UNCHANGED <<serialVars, tpc, crashed>>,
         \A g \in Clients \ {Driver} : req'[g] = req[g],
         Starting(Driver)' <=> Starting(Driver),
         ~NoneLive => ~Stopped(Driver)',
         \A j \in Jobs : Live(j) => worker_' = j \/ (l = "assign" /\ jid'[Driver] = j),
         l \notin {"threw", "serve", "drain", "exit"},
         l = "baud" => ~IsStop(req'[Driver]),
         l \in {"baud", "submit"} => req'[Driver].path \in {"/command", "/start", "/stop"},
         l \in {"stop", "joinable", "join", "joining"} =>
           req'[Driver].path = "/start" \/ IsStop(req'[Driver]),
         l \in {"create", "raise", "spawn", "assign"} =>
           worker_' = Nobody /\ req'[Driver].path = "/start",
         l = "join" => worker_' # Nobody,
         l = "joining" => worker_' # Nobody /\ target'[Driver] = worker_'
  PROVE  DriverInv' /\ pc'[Driver] = l
<1>1. /\ pc'[Driver] = l /\ pc'[Main] = "serve"
      /\ \A g \in Clients \ {Driver} : pc'[g] = pc[g]
  BY Zenon, Apart DEF Goto, ServiceInv, TypeOK, Callers
<1>2. \A j \in Jobs : Live(j)' <=> Live(j)
  BY Zenon DEF Live
<1>3. \A g \in Clients : /\ pc'[g] = "wait" <=> pc[g] = "wait"
                         /\ pc[g] = "wait" => req'[g] = req[g]
  BY Zenon, <1>1
<1>4. ObserverInv'
  BY Zenon, <1>1 DEF DriverInv, ObserverInv
<1>5. OwnerInv' /\ ShutdownInv' /\ NeverCrashes'
  BY Zenon, <1>1 DEF DriverInv, OwnerInv, ShutdownInv, NeverCrashes
<1>6. ~NoneLive => ~Stopped(Driver)' /\ pc'[Main] \notin {"drain", "exit"}
  BY Zenon, <1>1
<1>7. \A j \in Jobs : Live(j) =>
        worker_' = j \/ (pc'[Driver] = "assign" /\ jid'[Driver] = j)
  BY Zenon, <1>1
<1> QED BY Zenon, <1>1, <1>2, <1>3, <1>4, <1>5, <1>6, <1>7, RunKept

-----------------------------------------------------------------------------
(* The handlers.                                                           *)

\* How a handler of a valid request begins.
LEMMA EntryOf ==
  ASSUME NEW r, r.valid, r.path # "/health"
  PROVE  /\ Entry(r) \in {"state", "lookup", "baud", "stop", "submit"}
         /\ Entry(r) = "stop" <=> IsStop(r)
         /\ Entry(r) \in {"baud", "stop"} => r.path # "/start"
         /\ Entry(r) = "submit" => r.path \notin {"/health", "/status", "/result", "/stop"}
         /\ Entry(r) = "baud" => r.path = "/command"
<1>1. ~(CommandIs(r, "INIT") /\ IsStop(r))
  BY DEF CommandIs, IsStop, Label
<1>2. IsStop(r) => r.path \in {"/stop", "/command"}
  BY DEF IsStop, CommandIs
<1>3. CommandIs(r, "INIT") => r.path = "/command"
  BY DEF CommandIs
<1>4. r.path = "/stop" => IsStop(r)
  BY DEF IsStop
<1> QED BY <1>1, <1>2, <1>3, <1>4 DEF Entry

LEMMA ReceiveDriver ==
  ASSUME ServiceInv, DriverInv, NEW h \in Clients, Receive(h)
  PROVE  DriverInv'
<1>1. PICK r \in Issues[h] :
        /\ r.path = "/start" => StartBudget
        /\ req' = [req EXCEPT ![h] = r]
        /\ \/ ~r.valid /\ Answer(h, 400, "-")
           \/ r.valid /\ r.path = "/health" /\ Answer(h, 200, "-")
           \/ r.valid /\ r.path # "/health" /\ Goto(h, Entry(r)) /\ UNCHANGED reply
  BY Zenon DEF Receive
<1>2. /\ pc[h] = "idle" /\ pc[Main] = "serve"
      /\ UNCHANGED <<serialVars, worker_, tpc, target, jid, crashed>>
  BY Zenon DEF Receive
<1>3. /\ req'[h] = r
      /\ \A g \in Clients \ {h} : req'[g] = req[g] /\ jid'[g] = jid[g]
  BY Zenon, <1>1, <1>2 DEF ServiceInv, TypeOK
<1>4. PICK l : Goto(h, l) /\ (l = "reply" \/ (l = Entry(r) /\ r.valid /\ r.path # "/health"))
  BY Zenon, <1>1 DEF Answer
<1>5. /\ l \in {"state", "lookup", "baud", "stop", "submit", "reply"}
      /\ l = "stop" => IsStop(r) /\ r.path # "/start"
      /\ l \in {"baud", "submit"} => ~IsStop(r)
  BY Zenon, <1>4, EntryOf
<1>8. l \in {"baud", "submit"} => r.path \in {"/command", "/start", "/stop"}
  <2>1. r.path \in Path
    BY IssuesAreRequests DEF Request
  <2> QED BY Zenon, <1>4, <2>1, EntryOf DEF Path
<1>6. CASE h # Driver
  <2>1. r.valid => r.path # "/start" /\ ~IsStop(r)
    BY Zenon, <1>6, OneDriverAssumption
  <2>3. l # "stop" /\ (l \in {"baud", "submit"} => r.path = "/command")
    BY Zenon, <1>4, <1>5, <1>8, <2>1 DEF IsStop
  <2> QED BY Zenon, <1>2, <1>3, <1>4, <1>5, <1>6, <2>3, ObserverMoves
<1>7. CASE h = Driver
  <2>1. pc'[Driver] = l
    BY Zenon, <1>4, <1>7, Apart DEF Goto, ServiceInv, TypeOK
  <2>2. ~Starting(Driver) /\ ~Starting(Driver)' /\ ~Stopped(Driver)'
    BY Zenon, <1>2, <1>3, <1>5, <1>7, <2>1 DEF Starting, Stopped
  <2>3. \A j \in Jobs : Live(j) => worker_' = j
    BY Zenon, <1>2, <1>7 DEF DriverInv, LiveInv
  <2> QED BY Zenon, <1>2, <1>3, <1>4, <1>5, <1>7, <1>8, <2>2, <2>3, DriverMoves
<1> QED BY Zenon, <1>6, <1>7

\* SetBaudrate, Started, Lookup, ReadState and Threw.
LEMMA QuietDriver ==
  ASSUME ServiceInv, DriverInv, NEW h \in Clients,
         SetBaudrate(h) \/ Started(h) \/ Lookup(h) \/ ReadState(h) \/ Threw(h)
  PROVE  DriverInv'
<1>1. UNCHANGED <<serialVars, worker_, tpc, target, jid, crashed, req>>
  BY ZenonT(40) DEF SetBaudrate, Started, Lookup, ReadState, Threw
<1>2. /\ pc[h] \in {"baud", "started", "lookup", "state", "threw"}
      /\ \/ pc[h] = "baud" /\ Goto(h, "submit")
         \/ Goto(h, "state") \/ Goto(h, "reply")
  BY ZenonT(40) DEF SetBaudrate, Started, Lookup, ReadState, Threw, Answer
<1>3. pc[Main] = "serve"
  BY Zenon, <1>2, Serving
<1>4. ASSUME NEW l \in {"submit", "state", "reply"}, Goto(h, l),
             l = "submit" => pc[h] = "baud"
      PROVE  DriverInv'
  <2>1. CASE h # Driver
    <3>1. l = "submit" => req[h].path = "/command" /\ ~IsStop(req[h])
      BY Zenon, <1>4, <2>1 DEF DriverInv, ObserverInv
    <3> QED BY Zenon, <1>1, <1>2, <1>3, <1>4, <2>1, <3>1, ObserverMoves
  <2>2. CASE h = Driver
    <3>1. pc'[Driver] = l
      BY Zenon, <1>4, <2>2, Apart DEF Goto, ServiceInv, TypeOK
    <3>2. l = "submit" => /\ ~IsStop(req[Driver])
                          /\ req[Driver].path \in {"/command", "/start", "/stop"}
      BY Zenon, <1>4, <2>2 DEF DriverInv, OwnerInv
    <3>3. ~Starting(Driver) /\ ~Starting(Driver)' /\ ~Stopped(Driver)'
      BY Zenon, <1>1, <1>2, <2>2, <3>1, <3>2 DEF Starting, Stopped
    <3>4. \A j \in Jobs : Live(j) => worker_' = j
      BY Zenon, <1>1, <1>2, <2>2 DEF DriverInv, LiveInv
    <3> QED BY Zenon, <1>1, <1>2, <1>3, <1>4, <2>2, <3>2, <3>3, <3>4, DriverMoves
  <2> QED BY Zenon, <2>1, <2>2
<1> QED BY Zenon, <1>2, <1>4

LEMMA DeliverDriver ==
  ASSUME ServiceInv, DriverInv, NEW h \in Clients, Deliver(h)
  PROVE  DriverInv'
<1>1. /\ pc[h] = "reply" /\ Goto(h, "idle")
      /\ req' = [req EXCEPT ![h] = NoRequest] /\ jid' = [jid EXCEPT ![h] = Nobody]
      /\ UNCHANGED <<serialVars, worker_, tpc, target, crashed>>
  BY Zenon DEF Deliver
<1>2. \A g \in Clients \ {h} : req'[g] = req[g] /\ jid'[g] = jid[g]
  BY Zenon, <1>1 DEF ServiceInv, TypeOK
<1>3. pc[Main] = "serve"
  BY Zenon, <1>1, Serving
<1>4. CASE h # Driver
  BY Zenon, <1>1, <1>2, <1>3, <1>4, ObserverMoves
<1>5. CASE h = Driver
  <2>1. pc'[Driver] = "idle"
    BY Zenon, <1>1, <1>5, Apart DEF Goto, ServiceInv, TypeOK
  <2>2. ~Starting(Driver) /\ ~Starting(Driver)' /\ ~Stopped(Driver)'
    BY Zenon, <1>1, <1>5, <2>1 DEF Starting, Stopped
  <2>3. \A j \in Jobs : Live(j) => worker_' = j
    BY Zenon, <1>1, <1>5 DEF DriverInv, LiveInv
  <2> QED BY Zenon, <1>1, <1>2, <1>3, <1>5, <2>2, <2>3, DriverMoves
<1> QED BY Zenon, <1>4, <1>5

\* What a handler submits is neither FINISH_JOB nor a task of another kind.
LEMMA RequestKinds ==
  ASSUME NEW r
  PROVE  /\ WorkOf(r).kind \in {"SYNC_COMMAND", "START_JOB", "STOP"}
         /\ WorkOf(r).kind = "SYNC_COMMAND" <=> r.path = "/command"
         /\ WorkOf(r).kind = "START_JOB" <=> r.path = "/start"
         /\ r.path = "/command" => WorkOf(r).command = upper(r.command)
BY DEF WorkOf

LEMMA SubmitDriver ==
  ASSUME ServiceInv, DriverInv, NEW h \in Clients, SubmitRequest(h)
  PROVE  DriverInv'
<1> DEFINE e == TaskOf(WorkOf(req[h]), h)
           n == Len(q_) + 1
<1>1. /\ pc[h] = "submit" /\ Goto(h, "wait")
      /\ q_' = Append(q_, e) /\ fut' = [fut EXCEPT ![h] = Pending]
      /\ UNCHANGED <<st_, worker_, tpc, target, jid, crashed, req>>
  BY Zenon DEF SubmitRequest, Submit, handlerVars
<1>2. e \in Task /\ e.prom = h /\ e.kind = WorkOf(req[h]).kind
  <2>1. WorkOf(req[h]) \in Work
    BY Zenon, WorkOfIsWork DEF ServiceInv, TypeOK
  <2> QED BY Zenon, <2>1, WorkIsTask DEF TaskOf
<1> HIDE DEF e
<1>3. e.kind # "FINISH_JOB"
  BY Zenon, <1>2, RequestKinds
<1>4. q_ \in Seq(Task)
  BY Zenon DEF ServiceInv, TypeOK, SerialTypeOK
<1>5. /\ DOMAIN q_ = 1 .. Len(q_) /\ DOMAIN q_' = 1 .. n /\ Len(q_) \in Nat
      /\ q_'[n] = e /\ \A i \in DOMAIN q_ : q_'[i] = q_[i]
  BY Zenon, <1>1, <1>2, <1>4, PushIndices
<1>6. /\ \A i \in DOMAIN q_' : i \in DOMAIN q_ \/ i = n
      /\ \A i \in DOMAIN q_ : i \in DOMAIN q_' /\ i < n
  BY <1>5
<1> HIDE DEF n
<1>7. \A g \in Clients : pc'[g] = IF g = h THEN "wait" ELSE pc[g]
  BY Zenon, <1>1 DEF Goto, ServiceInv, TypeOK, Callers
<1>8. pc[Main] = "serve" /\ pc'[Main] = "serve"
  BY Zenon, <1>1, Serving, Apart DEF Goto, ServiceInv, TypeOK
<1>9. \A g \in Clients : fut'[g] = IF g = h THEN Pending ELSE fut[g]
  BY Zenon, <1>1 DEF ServiceInv, TypeOK, SerialTypeOK
<1>10. Pending.http_status # 202 /\ Pending # NoFuture
  BY NotReady DEF Pending, NoFuture
<1>11. \A j \in Jobs : Live(j)' <=> Live(j)
  BY Zenon, <1>1 DEF Live
<1>12. Starting(Driver)' <=> Starting(Driver)
  <2>1. CASE h # Driver
    <3>1. pc'[Driver] = pc[Driver] /\ fut'[Driver] = fut[Driver]
      BY Zenon, <1>7, <1>9, <2>1, Apart
    <3> QED BY ZenonT(40), <1>1, <3>1 DEF Starting
  <2>2. CASE h = Driver
    <3>1. pc'[Driver] = "wait" /\ fut'[Driver].http_status # 202
      BY <1>7, <1>9, <1>10, <2>2
    <3>2. ~Starting(Driver) /\ ~Starting(Driver)'
      BY Zenon, <1>1, <2>2, <3>1 DEF Starting
    <3> QED BY Zenon, <3>2
  <2> QED BY Zenon, <2>1, <2>2
<1>13. Stopped(Driver)' <=> Stopped(Driver)
  BY Zenon, <1>1, <1>7, Apart DEF Stopped
<1>14. ObserverInv'
  BY Zenon, <1>1, <1>7 DEF DriverInv, ObserverInv
<1>15. TaskInv'
  <2> SUFFICES ASSUME NEW i \in DOMAIN q_'
               PROVE  \/ q_'[i].prom \in Jobs /\ q_'[i].kind = "FINISH_JOB"
                      \/ /\ q_'[i].prom \in Clients /\ pc'[q_'[i].prom] = "wait"
                         /\ q_'[i] = TaskOf(WorkOf(req[q_'[i].prom]), q_'[i].prom)
    BY Zenon, <1>1 DEF TaskInv
  <2>1. CASE i = n
    BY Zenon, <1>2, <1>5, <1>7, <2>1 DEF e
  <2>2. CASE i \in DOMAIN q_
    BY ZenonT(40), <1>5, <1>7, <2>2 DEF DriverInv, TaskInv
  <2> QED BY Zenon, <1>6, <2>1, <2>2
<1>16. FutureInv'
  <2> SUFFICES ASSUME NEW g \in Clients
               PROVE  /\ pc'[g] = "wait" <=> fut'[g] # NoFuture
                      /\ fut'[g].http_status = 202 <=>
                           pc'[g] = "wait" /\ req'[g].path = "/start" /\ fut'[g].ok
    BY Zenon DEF FutureInv
  <2>1. CASE g = h
    <3>1. ~Pending.ok
      BY DEF Pending, NoFuture
    <3>2. pc'[g] = "wait" /\ fut'[g] = Pending
      BY Zenon, <1>7, <1>9, <2>1
    <3> QED BY Zenon, <1>10, <3>1, <3>2
  <2>2. CASE g # h
    <3>1. pc'[g] = pc[g] /\ fut'[g] = fut[g]
      BY Zenon, <1>7, <1>9, <2>2
    <3>2. /\ pc[g] = "wait" <=> fut[g] # NoFuture
          /\ fut[g].http_status = 202 <=>
               pc[g] = "wait" /\ req[g].path = "/start" /\ fut[g].ok
      BY Zenon DEF DriverInv, FutureInv
    <3> QED BY ZenonT(40), <1>1, <3>1, <3>2
  <2> QED BY Zenon, <2>1, <2>2
<1>17. LastFinishInv'
  <2> SUFFICES ASSUME NEW i \in DOMAIN q_', q_'[i].kind = "FINISH_JOB"
               PROVE  /\ st_ = "RUNNING" /\ NoneLive' /\ ~Starting(Driver)'
                      /\ \A k \in DOMAIN q_' :
                           /\ q_'[k].kind = "FINISH_JOB" => k = i
                           /\ q_'[k].prom = Driver /\ IsStop(req[Driver]) => i < k
    BY Zenon, <1>1 DEF LastFinishInv
  <2>1. i \in DOMAIN q_ /\ q_[i].kind = "FINISH_JOB"
    BY Zenon, <1>3, <1>5, <1>6
  <2>2. /\ st_ = "RUNNING" /\ NoneLive /\ ~Starting(Driver)
        /\ \A k \in DOMAIN q_ :
             /\ q_[k].kind = "FINISH_JOB" => k = i
             /\ q_[k].prom = Driver /\ IsStop(req[Driver]) => i < k
    BY Zenon, <2>1 DEF DriverInv, LastFinishInv
  <2>3. NoneLive'
    BY Zenon, <1>11, <2>2 DEF NoneLive
  <2>4. ASSUME NEW k \in DOMAIN q_'
        PROVE  /\ q_'[k].kind = "FINISH_JOB" => k = i
               /\ q_'[k].prom = Driver /\ IsStop(req[Driver]) => i < k
    BY Zenon, <1>3, <1>5, <1>6, <2>1, <2>2
  <2> QED BY Zenon, <1>12, <2>2, <2>3, <2>4
<1>18. LiveInv'
  <2> SUFFICES ASSUME NEW j \in Jobs, Live(j)
               PROVE  /\ st_ = "RUNNING" /\ ~Starting(Driver)' /\ ~Stopped(Driver)'
                      /\ worker_ = j \/ (pc'[Driver] = "assign" /\ jid[Driver] = j)
                      /\ pc'[Main] \notin {"drain", "exit"}
    BY Zenon, <1>1, <1>11 DEF LiveInv
  <2> QED BY Zenon, <1>1, <1>7, <1>8, <1>12, <1>13, Apart DEF DriverInv, LiveInv
<1>19. CoreInv'
  <2>1. FinishQueued => FinishQueued'
    BY Zenon, <1>5, <1>6 DEF FinishQueued
  <2>2. NoneLive' => NoneLive
    BY Zenon, <1>11 DEF NoneLive
  <2> QED BY Zenon, <1>1, <1>12, <2>1, <2>2 DEF DriverInv, CoreInv
<1>20. OwnerInv'
  BY ZenonT(40), <1>1, <1>7, <1>8, Apart DEF DriverInv, OwnerInv
<1>21. ShutdownInv' /\ NeverCrashes'
  BY Zenon, <1>1, <1>8 DEF DriverInv, ShutdownInv, NeverCrashes
<1> QED
  BY Zenon, <1>14, <1>15, <1>16, <1>17, <1>18, <1>19, <1>20, <1>21 DEF DriverInv

LEMMA AnsweredDriver ==
  ASSUME ServiceInv, DriverInv, NEW h \in Clients, Answered(h)
  PROVE  DriverInv'
<1>1. /\ pc[h] = "wait" /\ fut[h] # Pending /\ fut' = [fut EXCEPT ![h] = NoFuture]
      /\ UNCHANGED <<st_, q_, worker_, tpc, target, jid, crashed, req>>
  BY Zenon DEF Answered, Collect, Ready
<1>2. \A g \in Clients : fut'[g] = IF g = h THEN NoFuture ELSE fut[g]
  BY Zenon, <1>1 DEF ServiceInv, TypeOK, SerialTypeOK
<1>3. \A i \in DOMAIN q_ : q_[i].prom # h
  BY Zenon, <1>1 DEF ServiceInv, PromiseKept
<1>4. \/ Goto(h, "stop") /\ req[h].path = "/start" /\ fut[h].ok
      \/ Goto(h, "reply") /\ ~(req[h].path = "/start" /\ fut[h].ok)
  BY Zenon DEF Answered, Answer
<1>5. fut[h].http_status = 202 <=> req[h].path = "/start" /\ fut[h].ok
  BY ZenonT(40), <1>1 DEF DriverInv, FutureInv
<1>6. ASSUME NEW l \in {"stop", "reply"}, Goto(h, l),
             l = "stop" <=> fut[h].http_status = 202,
             l = "stop" => req[h].path = "/start"
      PROVE  DriverInv'
  <2>1. \A g \in Clients : pc'[g] = IF g = h THEN l ELSE pc[g]
    BY Zenon, <1>6 DEF Goto, ServiceInv, TypeOK, Callers
  <2>2. pc[Main] = "serve" /\ pc'[Main] = "serve"
    <3>1. pc[Main] = "serve"
      BY Zenon, <1>1, Serving
    <3>2. Main # h
      BY Zenon, Apart
    <3> QED BY <1>6, <3>1, <3>2, Apart DEF Goto, ServiceInv, TypeOK
  <2>3. \A j \in Jobs : Live(j)' <=> Live(j)
    BY Zenon, <1>1 DEF Live
  <2>4. Starting(Driver)' <=> Starting(Driver)
    <3>1. CASE h # Driver
      <4>1. pc'[Driver] = pc[Driver] /\ fut'[Driver] = fut[Driver]
        BY Zenon, <1>2, <2>1, <3>1, Apart
      <4> QED BY ZenonT(40), <1>1, <4>1 DEF Starting
    <3>2. CASE h = Driver
      <4>1. pc'[Driver] = l
        BY Zenon, <2>1, <3>2
      <4>2. Starting(Driver) <=> l = "stop"
        BY Zenon, <1>1, <1>6, <3>2 DEF Starting
      <4>3. Starting(Driver)' <=> l = "stop"
        BY Zenon, <1>1, <1>6, <3>2, <4>1 DEF Starting
      <4> QED BY Zenon, <4>2, <4>3
    <3> QED BY Zenon, <3>1, <3>2
  <2>5. Stopped(Driver)' => Stopped(Driver)
    BY Zenon, <1>1, <2>1, Apart DEF Stopped
  <2>6. ObserverInv'
    <3>1. h # Driver => l = "reply"
      BY Zenon, <1>1, <1>6 DEF DriverInv, ObserverInv
    <3> QED BY Zenon, <1>1, <2>1, <3>1 DEF DriverInv, ObserverInv
  <2>7. TaskInv'
    BY Zenon, <1>1, <1>3, <2>1 DEF DriverInv, TaskInv
  <2>8. FutureInv'
    <3> SUFFICES ASSUME NEW g \in Clients
                 PROVE  /\ pc'[g] = "wait" <=> fut'[g] # NoFuture
                        /\ fut'[g].http_status = 202 <=>
                             pc'[g] = "wait" /\ req'[g].path = "/start" /\ fut'[g].ok
      BY Zenon DEF FutureInv
    <3>1. CASE g = h
      <4>1. NoFuture.http_status # 202
        BY DEF NoFuture
      <4>2. pc'[g] = l /\ fut'[g] = NoFuture
        BY Zenon, <1>2, <2>1, <3>1
      <4> QED BY Zenon, <4>1, <4>2
    <3>2. CASE g # h
      <4>1. pc'[g] = pc[g] /\ fut'[g] = fut[g]
        BY Zenon, <1>2, <2>1, <3>2
      <4>2. /\ pc[g] = "wait" <=> fut[g] # NoFuture
            /\ fut[g].http_status = 202 <=>
                 pc[g] = "wait" /\ req[g].path = "/start" /\ fut[g].ok
        BY Zenon DEF DriverInv, FutureInv
      <4> QED BY ZenonT(40), <1>1, <4>1, <4>2
    <3> QED BY Zenon, <3>1, <3>2
  <2>9. LastFinishInv'
    BY Zenon, <1>1, <2>3, <2>4 DEF DriverInv, LastFinishInv, NoneLive
  <2>10. LiveInv'
    <3> SUFFICES ASSUME NEW j \in Jobs, Live(j)
                 PROVE  /\ st_ = "RUNNING" /\ ~Starting(Driver)' /\ ~Stopped(Driver)'
                        /\ worker_ = j \/ (pc'[Driver] = "assign" /\ jid[Driver] = j)
                        /\ pc'[Main] \notin {"drain", "exit"}
      BY Zenon, <1>1, <2>3 DEF LiveInv
    <3>1. /\ st_ = "RUNNING" /\ ~Starting(Driver) /\ ~Stopped(Driver)
          /\ worker_ = j \/ (pc[Driver] = "assign" /\ jid[Driver] = j)
      BY Zenon DEF DriverInv, LiveInv
    <3>2. pc[Driver] = "assign" => pc'[Driver] = "assign"
      BY Zenon, <1>1, <2>1, Apart
    <3> QED BY Zenon, <2>2, <2>4, <2>5, <3>1, <3>2
  <2>11. CoreInv'
    BY Zenon, <1>1, <2>3, <2>4 DEF DriverInv, CoreInv, NoneLive, FinishQueued
  <2>12. OwnerInv'
    <3>1. CASE h = Driver
      <4>1. pc'[Driver] = l
        BY Zenon, <2>1, <3>1
      <4> QED BY ZenonT(40), <1>1, <1>6, <2>2, <3>1, <4>1 DEF OwnerInv
    <3>2. CASE h # Driver
      <4>1. pc'[Driver] = pc[Driver]
        BY Zenon, <2>1, <3>2, Apart
      <4> QED BY ZenonT(40), <1>1, <2>2, <4>1 DEF DriverInv, OwnerInv
    <3> QED BY Zenon, <3>1, <3>2
  <2>13. ShutdownInv' /\ NeverCrashes'
    BY Zenon, <1>1, <2>2 DEF DriverInv, ShutdownInv, NeverCrashes
  <2> QED
    BY Zenon, <2>6, <2>7, <2>8, <2>9, <2>10, <2>11, <2>12, <2>13 DEF DriverInv
<1> QED BY Zenon, <1>4, <1>5, <1>6

\* No task is abandoned, so no wait of 500 ms runs out.
LEMMA NoTimeout == ASSUME NEW h, TimedOut(h) PROVE FALSE
<1>1. 0 .. MaxAbandoned - 1 = {}
  BY OneDriverAssumption
<1> QED BY Zenon, <1>1 DEF TimedOut

-----------------------------------------------------------------------------
(* JobRunner::stop() and JobRunner::start().                               *)

\* stop() has found worker_ empty, or has just joined it: no job is left.
LEMMA WorkerGone ==
  ASSUME DriverInv, worker_ = Nobody \/ (worker_ \in Jobs /\ ~Live(worker_)),
         pc[Driver] # "assign"
  PROVE  NoneLive
<1>1. \A j \in Jobs : Live(j) => worker_ = j
  BY Zenon DEF DriverInv, LiveInv
<1> QED BY Zenon, <1>1, PromiseNames DEF NoneLive

\* The steps of stop() on any thread, as far as the thread goes.
LEMMA StopSteps ==
  ASSUME ServiceInv, DriverInv, NEW h \in {Driver, Main}, StopStep(h),
         \A g \in Callers \ {h} : pc[g] # "joining"
  PROVE  /\ UNCHANGED <<serialVars, tpc, jid, req, crashed>>
         /\ \/ pc[h] = "stop" /\ Goto(h, "joinable") /\ UNCHANGED <<worker_, target>>
            \/ /\ pc[h] = "joinable" /\ worker_ = Nobody /\ Goto(h, AfterStop(h))
               /\ UNCHANGED <<worker_, target>>
            \/ /\ pc[h] = "joinable" /\ worker_ # Nobody /\ Goto(h, "join")
               /\ UNCHANGED <<worker_, target>>
            \/ /\ pc[h] = "join" /\ worker_ # Nobody /\ Goto(h, "joining")
               /\ target'[h] = worker_ /\ UNCHANGED worker_
            \/ /\ pc[h] = "joining" /\ worker_ \in Jobs /\ ~Live(worker_)
               /\ worker_' = Nobody /\ Goto(h, AfterStop(h))
<1>1. h \in Callers /\ UNCHANGED serialVars /\ UNCHANGED <<tpc, jid, req>>
  BY Zenon, Apart
     DEF StopStep, StopClear, Joinable, JoinEnter, JoinThrow, JoinReturn, handlerVars
<1>2. /\ pc[h] = "join" => worker_ # Nobody
      /\ pc[h] = "joining" => worker_ # Nobody /\ target[h] = worker_
  BY Zenon DEF DriverInv, OwnerInv
<1>3. worker_ \in Jobs \cup {Nobody} /\ target \in [Callers -> Jobs \cup {Nobody}]
  BY Zenon DEF ServiceInv, TypeOK
<1>4. CASE StopClear(h)
  BY Zenon, <1>1, <1>4 DEF StopClear
<1>5. CASE Joinable(h, AfterStop(h))
  BY Zenon, <1>1, <1>5 DEF Joinable
<1>6. CASE JoinEnter(h)
  BY Zenon, <1>1, <1>2, <1>3, <1>6 DEF JoinEnter
<1>7. ~JoinThrow(h)
  BY Zenon, <1>2 DEF JoinThrow, JoinRaced
<1>8. CASE JoinReturn(h, AfterStop(h))
  <2>1. worker_ \in Jobs /\ ~Live(worker_)
    BY Zenon, <1>2, <1>3, <1>8 DEF JoinReturn, Live
  <2> QED BY Zenon, <1>1, <1>2, <1>8, <2>1 DEF JoinReturn
<1> QED BY Zenon, <1>4, <1>5, <1>6, <1>7, <1>8 DEF StopStep

LEMMA StopStepDriver ==
  ASSUME ServiceInv, DriverInv, NEW h \in Clients, StopStep(h)
  PROVE  DriverInv'
<1>1. pc[h] \in {"stop", "joinable", "join", "joining"}
  BY Zenon DEF StopStep, StopClear, Joinable, JoinEnter, JoinThrow, JoinReturn
<1>2. h = Driver /\ pc[Main] = "serve"
  BY Zenon, <1>1, Serving DEF DriverInv, ObserverInv
<1>3. \A g \in Callers \ {Driver} : pc[g] # "joining"
  BY Zenon, <1>2 DEF Callers, DriverInv, ObserverInv
<1>4. req[Driver].path = "/start" \/ IsStop(req[Driver])
  BY Zenon, <1>1, <1>2 DEF DriverInv, OwnerInv
<1>5. ~(req[Driver].path = "/start" /\ IsStop(req[Driver]))
  BY DEF IsStop, CommandIs
<1>6. /\ req[Driver].path = "/start" => AfterStop(Driver) = "create"
      /\ req[Driver].path # "/start" => AfterStop(Driver) = "submit"
  BY Apart DEF AfterStop
<1>7. Starting(Driver) <=> req[Driver].path = "/start"
  BY Zenon, <1>1, <1>2 DEF Starting
<1>8. \A j \in Jobs : Live(j) => worker_ = j
  BY Zenon, <1>1, <1>2 DEF DriverInv, LiveInv
<1>9. ASSUME NEW l, Goto(Driver, l), UNCHANGED <<serialVars, tpc, jid, req, crashed>>,
             l \in {"joinable", "join", "joining"}, UNCHANGED worker_,
             l \in {"join", "joining"} => worker_ # Nobody,
             l = "joining" => target'[Driver] = worker_
      PROVE  DriverInv'
  <2>1. pc'[Driver] = l
    BY Zenon, <1>9, Apart DEF Goto, ServiceInv, TypeOK
  <2>2. Starting(Driver)' <=> req[Driver].path = "/start"
    BY Zenon, <1>9, <2>1 DEF Starting
  <2>3. ~Stopped(Driver)'
    BY Zenon, <1>9, <2>1 DEF Stopped
  <2> QED BY Zenon, <1>1, <1>2, <1>4, <1>7, <1>8, <1>9, <2>2, <2>3, DriverMoves
<1>10. ASSUME Goto(Driver, AfterStop(Driver)), worker_' = Nobody,
              UNCHANGED <<serialVars, tpc, jid, req, crashed>>,
              worker_ = Nobody \/ (worker_ \in Jobs /\ ~Live(worker_))
       PROVE  DriverInv'
  <2>1. pc'[Driver] = AfterStop(Driver)
    BY Zenon, <1>10, Apart DEF Goto, ServiceInv, TypeOK
  <2>2. NoneLive
    BY Zenon, <1>1, <1>2, <1>10, WorkerGone
  <2>3. CASE req[Driver].path = "/start"
    <3>1. Starting(Driver)'
      BY Zenon, <1>6, <1>10, <2>1, <2>3 DEF Starting
    <3> QED
      BY Zenon, <1>1, <1>2, <1>6, <1>7, <1>10, <2>2, <2>3, <3>1, DriverMoves DEF NoneLive
  <2>4. CASE req[Driver].path # "/start"
    <3>1. ~Starting(Driver)'
      BY Zenon, <1>6, <1>10, <2>1, <2>4 DEF Starting
    <3>2. req[Driver].path \in {"/command", "/stop"}
      BY Zenon, <1>4, <2>4 DEF IsStop, CommandIs
    <3> QED
      BY ZenonT(40), <1>1, <1>2, <1>6, <1>7, <1>10, <2>2, <2>4, <3>1, <3>2, DriverMoves
      DEF NoneLive
  <2> QED BY Zenon, <2>3, <2>4
<1> QED BY Zenon, <1>2, <1>3, <1>9, <1>10, StopSteps

\* main(), after run() has returned: ~JobRunner, ~Dispatcher.
LEMMA MainDriver ==
  ASSUME ServiceInv, DriverInv, Shutdown \/ MainStep
  PROVE  DriverInv'
<1>1. UNCHANGED <<serialVars, tpc, jid, req>>
  BY ZenonT(40)
  DEF Shutdown, MainStep, Exit, StopStep, StopClear, Joinable, JoinEnter, JoinThrow,
      JoinReturn, handlerVars
<1>2. pc[Main] # "serve" \/ Shutdown
  BY Zenon
     DEF MainStep, Exit, StopStep, StopClear, Joinable, JoinEnter, JoinThrow, JoinReturn
<1>3. \A h \in Clients : pc[h] = "idle"
  BY Zenon, <1>2 DEF Shutdown, DriverInv, ShutdownInv
<1>4. \A j \in Jobs : Live(j) => worker_ = j
  BY Zenon, <1>3, Apart DEF DriverInv, LiveInv
<1>5. ASSUME NEW l \in {"stop", "joinable", "join", "joining", "drain", "exit"},
             Goto(Main, l), UNCHANGED crashed,
             l \in {"join", "joining"} => worker_' # Nobody,
             l = "joining" => target'[Main] = worker_',
             l \in {"drain", "exit"} => NoneLive,
             NoneLive \/ UNCHANGED worker_,
             l = "exit" => q_ = << >>
      PROVE  DriverInv'
  <2>1. pc'[Main] = l /\ \A g \in Clients : pc'[g] = "idle"
    BY Zenon, <1>3, <1>5, Apart DEF Goto, ServiceInv, TypeOK, Callers
  <2>2. pc[Driver] = "idle" /\ pc'[Driver] = "idle"
    BY Zenon, <1>3, <2>1, Apart
  <2>3. \A j \in Jobs : Live(j)' <=> Live(j)
    BY Zenon, <1>1 DEF Live
  <2>4. ~Starting(Driver) /\ ~Starting(Driver)' /\ ~Stopped(Driver)'
    BY Zenon, <2>2 DEF Starting, Stopped
  <2>5. ObserverInv' /\ ShutdownInv' /\ NeverCrashes'
    BY Zenon, <1>1, <1>5, <2>1
       DEF DriverInv, ObserverInv, ShutdownInv, NeverCrashes, serialVars
  <2>6. OwnerInv'
    BY Zenon, <1>5, <2>1, <2>2 DEF OwnerInv
  <2>7. \A h \in Clients : pc'[h] # "wait" /\ pc[h] # "wait"
    BY Zenon, <1>3, <2>1
  <2>8. ~NoneLive => pc'[Main] \notin {"drain", "exit"}
    BY Zenon, <1>5, <2>1
  <2>9. \A j \in Jobs : Live(j) => worker_' = j
    BY Zenon, <1>4, <1>5 DEF NoneLive
  <2> QED BY Zenon, <1>1, <2>3, <2>4, <2>5, <2>6, <2>7, <2>8, <2>9, RunKept
<1>6. CASE Shutdown
  BY Zenon, <1>5, <1>6 DEF Shutdown
<1>7. CASE Exit
  <2>1. pc[Main] = "drain" /\ q_ = << >> /\ Goto(Main, "exit") /\ UNCHANGED <<worker_, crashed>>
    BY Zenon, <1>7 DEF Exit
  <2>2. NoneLive
    BY Zenon, <2>1 DEF DriverInv, LiveInv, NoneLive
  <2> QED BY Zenon, <1>5, <2>1, <2>2
<1>8. CASE StopStep(Main)
  <2>1. AfterStop(Main) = "drain"
    BY Zenon DEF AfterStop
  <2>2. \A g \in Callers \ {Main} : pc[g] # "joining"
    BY Zenon, <1>3 DEF Callers
  <2>3. pc[Driver] # "assign"
    BY Zenon, <1>3, Apart
  <2>4. ASSUME Goto(Main, AfterStop(Main)), UNCHANGED crashed,
               worker_ = Nobody \/ (worker_ \in Jobs /\ ~Live(worker_))
        PROVE  DriverInv'
    <3>1. NoneLive
      BY Zenon, <2>3, <2>4, WorkerGone
    <3> QED BY Zenon, <1>5, <2>1, <2>4, <3>1
  <2> QED BY Zenon, <1>5, <1>8, <2>2, <2>4, StopSteps
<1> QED BY Zenon, <1>6, <1>7, <1>8 DEF MainStep

\* JobRunner::start() after its stop(): only the driver gets here.
LEMMA Starter ==
  ASSUME DriverInv, NEW h \in Clients, pc[h] \in {"create", "raise", "spawn", "assign"}
  PROVE  /\ h = Driver /\ pc[Main] = "serve"
         /\ worker_ = Nobody /\ req[Driver].path = "/start"
         /\ pc[h] # "assign" => Starting(Driver) /\ st_ = "RUNNING" /\ NoneLive
<1>1. h = Driver /\ pc[Main] = "serve"
  BY Zenon, Serving DEF DriverInv, ObserverInv
<1>2. worker_ = Nobody /\ req[Driver].path = "/start"
  BY Zenon, <1>1 DEF DriverInv, OwnerInv
<1>3. pc[h] # "assign" => Starting(Driver)
  BY Zenon, <1>1, <1>2 DEF Starting
<1> QED BY Zenon, <1>1, <1>2, <1>3 DEF DriverInv, CoreInv, LiveInv, NoneLive

LEMMA LaunchDriver ==
  ASSUME ServiceInv, DriverInv, NEW h \in Clients,
         Create(h) \/ Raise(h) \/ Assign(h), UNCHANGED <<serialVars, handlerVars>>
  PROVE  DriverInv'
<1>1. pc[h] \in {"create", "raise", "assign"} /\ UNCHANGED <<serialVars, tpc, target, req>>
  BY Zenon DEF Create, Raise, Assign, handlerVars
<1>2. /\ h = Driver /\ pc[Main] = "serve" /\ worker_ = Nobody
      /\ req[Driver].path = "/start"
  BY Zenon, <1>1, Starter
<1>3. ~IsStop(req[Driver])
  BY <1>2 DEF IsStop, CommandIs
<1>4. ASSUME NEW l \in {"raise", "spawn"}, Goto(Driver, l), pc[Driver] # "assign",
             UNCHANGED <<worker_, crashed>>
      PROVE  DriverInv'
  <2>1. pc'[Driver] = l
    BY Zenon, <1>4, Apart DEF Goto, ServiceInv, TypeOK
  <2>2. Starting(Driver) /\ NoneLive
    BY Zenon, <1>1, <1>2, <1>4, Starter
  <2>3. Starting(Driver)' /\ ~Stopped(Driver)'
    BY Zenon, <1>1, <1>2, <2>1 DEF Starting, Stopped
  <2> QED BY Zenon, <1>1, <1>2, <1>4, <2>2, <2>3, DriverMoves DEF NoneLive
<1>5. CASE Assign(h)
  <2>1. /\ pc[Driver] = "assign" /\ Goto(Driver, "started") /\ worker_' = jid[Driver]
        /\ UNCHANGED crashed
    BY Zenon, <1>2, <1>5 DEF Assign
  <2>2. pc'[Driver] = "started"
    BY Zenon, <2>1, Apart DEF Goto, ServiceInv, TypeOK
  <2>3. ~Starting(Driver) /\ ~Starting(Driver)' /\ ~Stopped(Driver)'
    BY Zenon, <2>1, <2>2 DEF Starting, Stopped
  <2>4. \A j \in Jobs : Live(j) => worker_' = j
    BY Zenon, <1>2, <2>1, PromiseNames DEF DriverInv, LiveInv
  <2> QED BY Zenon, <1>1, <1>2, <2>1, <2>3, <2>4, DriverMoves
<1> QED BY Zenon, <1>2, <1>4, <1>5 DEF Create, Raise

LEMMA SpawnDriver ==
  ASSUME ServiceInv, DriverInv, NEW h \in Clients,
         Spawn(h), UNCHANGED <<serialVars, handlerVars>>
  PROVE  DriverInv'
<1>1. /\ pc[h] = "spawn" /\ Goto(h, "assign") /\ ThreadGoto(jid[h], "top")
      /\ UNCHANGED <<st_, q_, fut, worker_, target, jid, crashed, req>>
  BY Zenon DEF Spawn, serialVars, handlerVars
<1>2. /\ h = Driver /\ pc[Main] = "serve" /\ worker_ = Nobody
      /\ req[Driver].path = "/start" /\ st_ = "RUNNING" /\ Starting(Driver) /\ NoneLive
  BY Zenon, <1>1, Starter
<1>3. /\ pc'[Driver] = "assign" /\ pc'[Main] = "serve"
      /\ \A g \in Clients \ {Driver} : pc'[g] = pc[g]
  BY Zenon, <1>1, <1>2, Apart DEF Goto, ServiceInv, TypeOK, Callers
<1>4. jid[Driver] \in Jobs
  BY Zenon, <1>1, <1>2 DEF ServiceInv, HandlerInv, HasId
<1>5. tpc'[jid[Driver]] = "top" /\ \A j \in Jobs \ {jid[Driver]} : tpc'[j] = tpc[j]
  BY Zenon, <1>1, <1>2, <1>4 DEF ThreadGoto, ServiceInv, TypeOK
<1>6. \A j \in Jobs : Live(j)' <=> j = jid[Driver]
  <2>1. \A j \in Jobs : tpc'[j] \notin {"none", "exited"} <=> j = jid[Driver]
    BY Zenon, <1>2, <1>5 DEF Live, NoneLive
  <2> QED BY Zenon, <2>1 DEF Live
<1>7. ~Starting(Driver)' /\ ~Stopped(Driver)'
  BY Zenon, <1>3 DEF Starting, Stopped
<1>8. \A i \in DOMAIN q_ : q_[i].kind # "FINISH_JOB"
  BY Zenon, <1>2 DEF DriverInv, LastFinishInv
<1>9. \A g \in Clients : pc'[g] = "wait" <=> pc[g] = "wait"
  BY Zenon, <1>1, <1>2, <1>3
<1>10. ObserverInv' /\ ShutdownInv' /\ NeverCrashes'
  BY Zenon, <1>1, <1>3 DEF DriverInv, ObserverInv, ShutdownInv, NeverCrashes
<1>11. TaskInv'
  BY Zenon, <1>1, <1>9 DEF DriverInv, TaskInv
<1>12. FutureInv'
  BY Zenon, <1>1, <1>9, FutureKept DEF DriverInv
<1>13. LastFinishInv'
  BY Zenon, <1>1, <1>8 DEF LastFinishInv
<1>14. LiveInv'
  BY Zenon, <1>1, <1>2, <1>3, <1>6, <1>7 DEF LiveInv
<1>15. CoreInv'
  BY Zenon, <1>4, <1>6, <1>7 DEF CoreInv, NoneLive
<1>16. OwnerInv'
  BY Zenon, <1>1, <1>2, <1>3 DEF OwnerInv
<1> QED
  BY Zenon, <1>10, <1>11, <1>12, <1>13, <1>14, <1>15, <1>16 DEF DriverInv

-----------------------------------------------------------------------------
(* The job threads.                                                        *)

\* A thread runs on, and lives on.
LEMMA ThreadDriver ==
  ASSUME ServiceInv, DriverInv, NEW j \in Jobs,
         \/ LeaveLoop(j) \/ ReadFrame(j) \/ Gate(j) \/ StoreResult(j)
         \/ ClearRunning(j) \/ OpenSerial(j) \/ Expire(j),
         UNCHANGED <<serialVars, handlerVars>>
  PROVE  DriverInv'
<1>1. UNCHANGED <<worker_, pc, target, jid, crashed, req>>
  BY Zenon
  DEF LeaveLoop, ReadFrame, Gate, StoreResult, ClearRunning, OpenSerial, Expire,
      handlerVars
<1>2. \/ UNCHANGED tpc
      \/ /\ tpc[j] \notin {"none", "exited"}
         /\ \/ ThreadGoto(j, "cancelled") \/ ThreadGoto(j, "timeout")
            \/ ThreadGoto(j, "read") \/ ThreadGoto(j, "gate") \/ ThreadGoto(j, "done")
            \/ ThreadGoto(j, "top") \/ ThreadGoto(j, "clear") \/ ThreadGoto(j, "finish")
  <2>1. CASE Gate(j)
    BY Zenon, <2>1 DEF Gate, ServiceInv, TypeOK
  <2>2. CASE LeaveLoop(j) \/ ReadFrame(j) \/ OpenSerial(j) \/ Expire(j)
    BY Zenon, <2>2 DEF LeaveLoop, ReadFrame, OpenSerial, Expire
  <2>3. CASE StoreResult(j) \/ ClearRunning(j)
    BY Zenon, <2>3 DEF StoreResult, ClearRunning
  <2> QED BY Zenon, <2>1, <2>2, <2>3
<1>3. \A k \in Jobs : Live(k)' <=> Live(k)
  BY Zenon, <1>2 DEF Live, ThreadGoto, ServiceInv, TypeOK
<1>4. fut' = fut /\ q_' = q_
  BY Zenon DEF serialVars
<1>5. Starting(Driver)' <=> Starting(Driver)
  BY Zenon, <1>1, <1>4 DEF Starting
<1>6. ~NoneLive => ~Stopped(Driver)' /\ pc'[Main] \notin {"drain", "exit"}
  BY Zenon, <1>1 DEF DriverInv, LiveInv, NoneLive, Stopped
<1>7. \A k \in Jobs : Live(k) =>
        worker_' = k \/ (pc'[Driver] = "assign" /\ jid'[Driver] = k)
  BY Zenon, <1>1 DEF DriverInv, LiveInv
<1>8. ObserverInv' /\ OwnerInv' /\ ShutdownInv' /\ NeverCrashes'
  BY Zenon, <1>1, <1>4 DEF DriverInv, ObserverInv, OwnerInv, ShutdownInv, NeverCrashes
<1> QED BY Zenon, <1>1, <1>3, <1>5, <1>6, <1>7, <1>8, RunKept

\* Live jobs are one and the same.
LEMMA OneLive ==
  ASSUME DriverInv, NEW j \in Jobs, NEW k \in Jobs, Live(j), Live(k)
  PROVE  j = k
<1>1. \A i \in Jobs : Live(i) => worker_ = i \/ (pc[Driver] = "assign" /\ jid[Driver] = i)
  BY Zenon DEF DriverInv, LiveInv
<1>2. pc[Driver] = "assign" => worker_ = Nobody
  BY Zenon DEF DriverInv, OwnerInv
<1> QED BY Zenon, <1>1, <1>2, PromiseNames

LEMMA SubmitFinishDriver ==
  ASSUME ServiceInv, DriverInv, NEW j \in Jobs, SubmitFinish(j), UNCHANGED handlerVars
  PROVE  DriverInv'
<1> DEFINE e == TaskOf(FinishWork, j)
           n == Len(q_) + 1
<1>1. /\ tpc[j] = "finish" /\ ThreadGoto(j, "exited") /\ q_' = Append(q_, e)
      /\ UNCHANGED <<st_, fut, worker_, pc, target, jid, crashed, req>>
  BY Zenon DEF SubmitFinish, SubmitDetached, handlerVars
<1>2. e \in Task /\ e.prom = j /\ e.kind = "FINISH_JOB"
  <2>1. e \in Task /\ e.prom = j
    BY Zenon, FinishIsWork, WorkIsTask
  <2> QED BY <2>1 DEF TaskOf, FinishWork
<1> HIDE DEF e
<1>3. q_ \in Seq(Task)
  BY Zenon DEF ServiceInv, TypeOK, SerialTypeOK
<1>4. /\ DOMAIN q_ = 1 .. Len(q_) /\ DOMAIN q_' = 1 .. n /\ Len(q_) \in Nat
      /\ q_'[n] = e /\ \A i \in DOMAIN q_ : q_'[i] = q_[i]
  BY ZenonT(40), <1>1, <1>2, <1>3, PushIndices
<1>5. n \in DOMAIN q_' /\ \A i \in DOMAIN q_' : i \in DOMAIN q_ \/ i = n
  BY <1>4
<1> HIDE DEF n
<1>6. Live(j)
  BY Zenon, <1>1 DEF Live
<1>7. /\ st_ = "RUNNING" /\ ~Starting(Driver) /\ ~Stopped(Driver)
      /\ pc[Main] \notin {"drain", "exit"}
  BY Zenon, <1>6 DEF DriverInv, LiveInv
<1>8. NoneLive'
  <2>1. tpc'[j] = "exited" /\ \A k \in Jobs \ {j} : tpc'[k] = tpc[k]
    BY Zenon, <1>1 DEF ThreadGoto, ServiceInv, TypeOK
  <2> QED BY Zenon, <1>6, <2>1, OneLive DEF NoneLive, Live
<1>9. \A i \in DOMAIN q_ : q_[i].kind # "FINISH_JOB"
  BY Zenon, <1>6 DEF DriverInv, LastFinishInv, NoneLive
<1>10. \A i \in DOMAIN q_ : ~(q_[i].prom = Driver /\ IsStop(req[Driver]))
  BY Zenon, <1>7, Apart, PromiseNames DEF DriverInv, TaskInv, Stopped
<1>11. ~Starting(Driver)'
  BY Zenon, <1>1, <1>7 DEF Starting
<1>12. ObserverInv' /\ FutureInv' /\ OwnerInv' /\ NeverCrashes'
  <2>1. FutureInv'
    BY Zenon, <1>1, FutureKept DEF DriverInv
  <2> QED BY Zenon, <1>1, <2>1 DEF DriverInv, ObserverInv, OwnerInv, NeverCrashes
<1>13. TaskInv'
  <2> SUFFICES ASSUME NEW i \in DOMAIN q_'
               PROVE  \/ q_'[i].prom \in Jobs /\ q_'[i].kind = "FINISH_JOB"
                      \/ /\ q_'[i].prom \in Clients /\ pc[q_'[i].prom] = "wait"
                         /\ q_'[i] = TaskOf(WorkOf(req[q_'[i].prom]), q_'[i].prom)
    BY Zenon, <1>1 DEF TaskInv
  <2>1. CASE i = n
    BY Zenon, <1>2, <1>4, <2>1
  <2>2. CASE i \in DOMAIN q_
    BY Zenon, <1>4, <2>2 DEF DriverInv, TaskInv
  <2> QED BY Zenon, <1>5, <2>1, <2>2
<1>14. LastFinishInv'
  <2>1. \A i \in DOMAIN q_' : q_'[i].kind = "FINISH_JOB" => i = n
    BY Zenon, <1>4, <1>5, <1>9
  <2>2. \A k \in DOMAIN q_' : ~(q_'[k].prom = Driver /\ IsStop(req'[Driver]))
    BY ZenonT(40), <1>1, <1>2, <1>4, <1>5, <1>10, Apart, PromiseNames
  <2> QED BY Zenon, <1>1, <1>7, <1>8, <1>11, <2>1, <2>2 DEF LastFinishInv
<1>15. LiveInv'
  BY Zenon, <1>8 DEF LiveInv, NoneLive
<1>16. CoreInv'
  <2>1. FinishQueued'
    BY Zenon, <1>2, <1>4, <1>5 DEF FinishQueued
  <2> QED BY Zenon, <1>11, <2>1 DEF CoreInv
<1>17. ShutdownInv'
  BY Zenon, <1>1, <1>7 DEF DriverInv, ShutdownInv
<1> QED
  BY Zenon, <1>12, <1>13, <1>14, <1>15, <1>16, <1>17 DEF DriverInv

-----------------------------------------------------------------------------
(* The dispatcher.                                                         *)

\* What running a task does to the state of Core.
LEMMA OutcomeOfTask ==
  ASSUME NEW s \in State, NEW t \in Task, NEW o \in Outcomes(s, t)
  PROVE  /\ o.r.http_status = 202 <=> t.kind = "START_JOB" /\ o.r.ok
         /\ o.r.http_status = 202 => s # "RUNNING" /\ o.st = "RUNNING"
         /\ s # "RUNNING" /\ o.st = "RUNNING" => o.r.http_status = 202
         /\ s = "RUNNING" /\ o.st # "RUNNING" =>
              \/ t.kind = "FINISH_JOB" /\ o.st = "INIT"
              \/ t.kind = "STOP" /\ o.st = "STOPPED"
              \/ /\ t.kind = "SYNC_COMMAND" /\ upper(t.command) = Label("STOP")
                 /\ o.st = "STOPPED"
         /\ s = "RUNNING" /\ t.kind = "FINISH_JOB" => o.st = "INIT"
<1>1. t.kind \in Kind /\ t.command \in Command
  BY DEF Task, TaskSet
<1>2. CASE o = Run(s, t)
  <2>1. CASE t.kind = "SYNC_COMMAND"
    <3>1. o = handle_sync_command(s, t.command)
      BY <1>2, <2>1 DEF Run
    <3> QED BY <2>1, <3>1 DEF handle_sync_command, stop, Accept, Reject
  <2>2. CASE t.kind = "START_JOB"
    <3>1. o = start_job(s)
      BY <1>2, <2>2 DEF Run
    <3> QED BY <2>2, <3>1 DEF start_job, Accept, Reject
  <2>3. CASE t.kind = "FINISH_JOB"
    <3>1. o = finish_job(s)
      BY <1>2, <2>3 DEF Run
    <3> QED BY <2>3, <3>1 DEF finish_job, Accept, Reject
  <2>4. CASE t.kind = "STOP"
    <3>1. o = stop(s)
      BY <1>2, <2>4 DEF Run
    <3> QED BY <2>4, <3>1 DEF stop, Accept
  <2> QED BY Zenon, <1>1, <2>1, <2>2, <2>3, <2>4 DEF Kind
<1>3. CASE o = InternalError(s) /\ Allocates(s, t)
  <2>1. /\ o.st = s /\ o.r.http_status = 500 /\ ~o.r.ok
    BY <1>3 DEF InternalError, Reject
  <2>2. t.kind # "FINISH_JOB"
    BY <1>3 DEF Allocates
  <2> QED BY <2>1, <2>2
<1> QED BY <1>2, <1>3 DEF Outcomes

LEMMA DispatchDriver ==
  ASSUME ServiceInv, DriverInv, Dispatch
  PROVE  DriverInv'
<1> DEFINE t == Head(q_)
<1>1. /\ q_ # << >> /\ q_' = Tail(q_)
      /\ UNCHANGED <<worker_, tpc, pc, target, jid, crashed, req>>
  BY Zenon DEF Dispatch, Serve, runnerVars, handlerVars
<1>2. q_ \in Seq(Task) /\ st_ \in State /\ fut \in [Clients -> Future]
  BY Zenon DEF ServiceInv, TypeOK, SerialTypeOK
<1>3. /\ t \in Task /\ t = q_[1] /\ 1 \in DOMAIN q_
      /\ \A i \in DOMAIN q_' : i \in Nat /\ i + 1 \in DOMAIN q_ /\ q_'[i] = q_[i + 1]
      /\ \A i \in DOMAIN q_ : i \in Nat /\ (i # 1 => i - 1 \in DOMAIN q_')
      /\ q_' \in Seq(Task)
  BY Zenon, <1>1, <1>2, PopIndices
<1>16. \A i \in DOMAIN q_' : i + 1 # 1
  BY <1>3
<1>4. PICK o \in Outcomes(st_, t) : st_' = o.st /\ fut' = Fulfil(fut, t.prom, o.r)
  BY Zenon DEF Dispatch, Serve
<1> HIDE DEF t
<1>5. o.r \in Response
  BY <1>2, <1>3, <1>4, OutcomeType DEF Task
<1>6. \A g \in Clients : fut'[g] = IF g = t.prom THEN o.r ELSE fut[g]
  BY Zenon, <1>2, <1>4 DEF Fulfil
<1>7. \A j \in Jobs : Live(j)' <=> Live(j)
  BY Zenon, <1>1 DEF Live
<1>8. \/ t.prom \in Jobs /\ t.kind = "FINISH_JOB"
      \/ /\ t.prom \in Clients /\ pc[t.prom] = "wait"
         /\ t = TaskOf(WorkOf(req[t.prom]), t.prom)
  BY Zenon, <1>3 DEF DriverInv, TaskInv
<1>9. \A i \in DOMAIN q_ : q_[i].prom \in Clients => fut[q_[i].prom] = Pending
  BY Zenon DEF ServiceInv, PromiseKept
<1>10. ObserverInv' /\ OwnerInv' /\ NeverCrashes' /\ ShutdownInv'
  BY Zenon, <1>1 DEF DriverInv, ObserverInv, OwnerInv, NeverCrashes, ShutdownInv
<1>11. TaskInv'
  <2> SUFFICES ASSUME NEW i \in DOMAIN q_'
               PROVE  \/ q_'[i].prom \in Jobs /\ q_'[i].kind = "FINISH_JOB"
                      \/ /\ q_'[i].prom \in Clients /\ pc'[q_'[i].prom] = "wait"
                         /\ q_'[i] = TaskOf(WorkOf(req'[q_'[i].prom]), q_'[i].prom)
    BY Zenon DEF TaskInv
  <2>1. PICK k \in DOMAIN q_ : q_'[i] = q_[k]
    BY Zenon, <1>3
  <2> QED BY Zenon, <1>1, <2>1 DEF DriverInv, TaskInv
<1>12. /\ o.r.http_status = 202 <=> t.kind = "START_JOB" /\ o.r.ok
       /\ o.r.http_status = 202 => st_ # "RUNNING" /\ st_' = "RUNNING"
       /\ st_ # "RUNNING" /\ st_' = "RUNNING" => o.r.http_status = 202
       /\ st_ = "RUNNING" /\ st_' # "RUNNING" =>
            \/ t.kind = "FINISH_JOB"
            \/ t.kind = "STOP"
            \/ t.kind = "SYNC_COMMAND" /\ upper(t.command) = Label("STOP")
       /\ st_ = "RUNNING" /\ t.kind = "FINISH_JOB" => st_' = "INIT"
  <2>1. st_' = o.st
    BY Zenon, <1>4
  <2> QED BY <1>2, <1>3, <2>1, OutcomeOfTask
<1>13. FutureInv'
  <2> SUFFICES ASSUME NEW g \in Clients
               PROVE  /\ pc'[g] = "wait" <=> fut'[g] # NoFuture
                      /\ fut'[g].http_status = 202 <=>
                           pc'[g] = "wait" /\ req'[g].path = "/start" /\ fut'[g].ok
    BY Zenon DEF FutureInv
  <2>1. /\ pc[g] = "wait" <=> fut[g] # NoFuture
        /\ fut[g].http_status = 202 <=>
             pc[g] = "wait" /\ req[g].path = "/start" /\ fut[g].ok
    BY Zenon DEF DriverInv, FutureInv
  <2>2. CASE g # t.prom
    <3>1. fut'[g] = fut[g]
      BY Zenon, <1>6, <2>2
    <3> QED BY ZenonT(40), <1>1, <2>1, <3>1
  <2>3. CASE g = t.prom
    <3>1. fut'[g] = o.r /\ o.r # NoFuture
      BY Zenon, <1>5, <1>6, <2>3, NotReady
    <3>2. pc[g] = "wait" /\ t = TaskOf(WorkOf(req[g]), g)
      BY Zenon, <1>8, <2>3, PromiseNames
    <3>3. t.kind = "START_JOB" <=> req[g].path = "/start"
      <4>1. t.kind = WorkOf(req[g]).kind
        BY <3>2 DEF TaskOf
      <4> QED BY Zenon, <4>1, RequestKinds
    <3> QED BY ZenonT(40), <1>1, <1>12, <3>1, <3>2, <3>3
  <2> QED BY Zenon, <2>2, <2>3
<1>14. CASE t.kind = "FINISH_JOB"
  <2>1. t.prom \in Jobs
    <3>1. t.prom \in Clients => t.kind = WorkOf(req[t.prom]).kind
      BY <1>8, PromiseNames DEF TaskOf
    <3> QED BY Zenon, <1>8, <1>14, <3>1, RequestKinds
  <2>2. /\ st_ = "RUNNING" /\ NoneLive /\ ~Starting(Driver)
        /\ \A k \in DOMAIN q_ : q_[k].kind = "FINISH_JOB" => k = 1
    BY Zenon, <1>3, <1>14 DEF DriverInv, LastFinishInv
  <2>3. NoneLive'
    BY Zenon, <1>7, <2>2 DEF NoneLive
  <2>4. fut'[Driver] = fut[Driver]
    BY Zenon, <1>6, <2>1, Apart, PromiseNames
  <2>5. ~Starting(Driver)'
    BY ZenonT(40), <1>1, <2>2, <2>4 DEF Starting
  <2>6. \A i \in DOMAIN q_' : q_'[i].kind # "FINISH_JOB"
    BY Zenon, <1>3, <1>16, <2>2
  <2>7. st_' = "INIT"
    BY Zenon, <1>12, <1>14, <2>2
  <2>8. LastFinishInv' /\ LiveInv' /\ CoreInv'
    BY Zenon, <2>3, <2>5, <2>6, <2>7 DEF LastFinishInv, LiveInv, CoreInv, NoneLive
  <2> QED BY Zenon, <1>10, <1>11, <1>13, <2>8 DEF DriverInv
<1>15. CASE t.kind # "FINISH_JOB"
  <2>1. /\ t.prom \in Clients /\ pc[t.prom] = "wait"
        /\ t = TaskOf(WorkOf(req[t.prom]), t.prom)
    BY Zenon, <1>8, <1>15
  <2>2. t.kind = WorkOf(req[t.prom]).kind /\ t.command = WorkOf(req[t.prom]).command
    BY <2>1 DEF TaskOf
  <2>3. fut[t.prom] = Pending /\ fut'[t.prom] = o.r
    BY Zenon, <1>3, <1>6, <1>9, <2>1
  <2>4. Pending.http_status # 202
    BY DEF Pending, NoFuture
  \* Only the driver can take Core out of RUNNING, and only with a STOP.
  <2>5. st_ = "RUNNING" /\ st_' # "RUNNING" => t.prom = Driver /\ Stopped(Driver)
    <3> SUFFICES ASSUME st_ = "RUNNING", st_' # "RUNNING"
                 PROVE  t.prom = Driver /\ Stopped(Driver)
      BY Zenon
    <3>1. IsStop(req[t.prom])
      <4>1. CASE t.kind = "STOP"
        <5>1. req[t.prom].path \notin {"/command", "/start"}
          BY Zenon, <2>2, <4>1, RequestKinds
        <5>2. req[t.prom].path \in {"/command", "/start", "/stop"}
          BY Zenon, <2>1 DEF DriverInv, ObserverInv, OwnerInv
        <5> QED BY Zenon, <5>1, <5>2 DEF IsStop
      <4>2. CASE t.kind = "SYNC_COMMAND" /\ upper(t.command) = Label("STOP")
        <5>1. req[t.prom].path = "/command" /\ t.command = upper(req[t.prom].command)
          BY Zenon, <2>2, <4>2, RequestKinds
        <5>2. req[t.prom].command \in Command
          BY <2>1 DEF ServiceInv, TypeOK, Request
        <5>3. upper(upper(req[t.prom].command)) = upper(req[t.prom].command)
          BY Zenon, <5>2 DEF upper, Command
        <5> QED BY Zenon, <4>2, <5>1, <5>3 DEF IsStop, CommandIs
      <4> QED BY Zenon, <1>12, <1>15, <4>1, <4>2
    <3>2. t.prom = Driver
      BY Zenon, <2>1, <3>1 DEF DriverInv, ObserverInv
    <3> QED BY Zenon, <2>1, <3>1, <3>2 DEF Stopped
  <2>6. st_ = "RUNNING" => o.r.http_status # 202
    BY Zenon, <1>12
  <2>7. t.prom = Driver => (Starting(Driver)' <=> o.r.http_status = 202) /\ ~Starting(Driver)
    <3> SUFFICES ASSUME t.prom = Driver
                 PROVE  (Starting(Driver)' <=> o.r.http_status = 202) /\ ~Starting(Driver)
      BY Zenon
    <3>1. pc[Driver] = "wait" /\ fut[Driver] = Pending /\ fut'[Driver] = o.r
      BY Zenon, <2>1, <2>3
    <3>2. ~Starting(Driver)
      BY Zenon, <2>4, <3>1 DEF Starting
    <3>3. Starting(Driver)' <=> o.r.http_status = 202
      BY Zenon, <1>1, <3>1 DEF Starting
    <3> QED BY Zenon, <3>2, <3>3
  <2>8. t.prom # Driver => (Starting(Driver)' <=> Starting(Driver))
    <3> SUFFICES ASSUME t.prom # Driver PROVE Starting(Driver)' <=> Starting(Driver)
      BY Zenon
    <3>1. fut'[Driver] = fut[Driver]
      BY Zenon, <1>6, Apart
    <3> QED BY ZenonT(40), <1>1, <3>1 DEF Starting
  <2>9. LastFinishInv'
    <3> SUFFICES ASSUME NEW i \in DOMAIN q_', q_'[i].kind = "FINISH_JOB"
                 PROVE  /\ st_' = "RUNNING" /\ NoneLive' /\ ~Starting(Driver)'
                        /\ \A k \in DOMAIN q_' :
                             /\ q_'[k].kind = "FINISH_JOB" => k = i
                             /\ q_'[k].prom = Driver /\ IsStop(req'[Driver]) => i < k
      BY Zenon DEF LastFinishInv
    <3>1. i + 1 \in DOMAIN q_ /\ q_[i + 1].kind = "FINISH_JOB" /\ i \in Nat
      BY Zenon, <1>3
    <3>2. /\ st_ = "RUNNING" /\ NoneLive /\ ~Starting(Driver)
          /\ \A k \in DOMAIN q_ :
               /\ q_[k].kind = "FINISH_JOB" => k = i + 1
               /\ q_[k].prom = Driver /\ IsStop(req[Driver]) => i + 1 < k
      BY Zenon, <3>1 DEF DriverInv, LastFinishInv
    <3>3. st_' = "RUNNING"
      <4>1. ~(i + 1 < 1)
        BY <3>1
      <4>2. ~(t.prom = Driver /\ Stopped(Driver))
        BY Zenon, <1>3, <3>2, <4>1 DEF Stopped
      <4> QED BY Zenon, <2>5, <3>2, <4>2
    <3>4. NoneLive' /\ ~Starting(Driver)'
      BY Zenon, <1>7, <2>6, <2>7, <2>8, <3>2 DEF NoneLive
    <3>5. ASSUME NEW k \in DOMAIN q_'
          PROVE  /\ q_'[k].kind = "FINISH_JOB" => k = i
                 /\ q_'[k].prom = Driver /\ IsStop(req'[Driver]) => i < k
      <4>1. k \in Nat /\ k + 1 \in DOMAIN q_ /\ q_'[k] = q_[k + 1]
        BY Zenon, <1>3
      <4>2. /\ q_'[k].kind = "FINISH_JOB" => k + 1 = i + 1
            /\ q_'[k].prom = Driver /\ IsStop(req'[Driver]) => i + 1 < k + 1
        BY Zenon, <1>1, <3>2, <4>1
      <4>3. (k + 1 = i + 1 => k = i) /\ (i + 1 < k + 1 => i < k)
        BY <3>1, <4>1
      <4> QED BY Zenon, <4>2, <4>3
    <3> QED BY Zenon, <3>3, <3>4, <3>5
  <2>10. LiveInv'
    <3> SUFFICES ASSUME NEW j \in Jobs, Live(j)
                 PROVE  /\ st_' = "RUNNING" /\ ~Starting(Driver)' /\ ~Stopped(Driver)'
                        /\ worker_' = j \/ (pc'[Driver] = "assign" /\ jid'[Driver] = j)
                        /\ pc'[Main] \notin {"drain", "exit"}
      BY Zenon, <1>7 DEF LiveInv
    <3>1. /\ st_ = "RUNNING" /\ ~Starting(Driver) /\ ~Stopped(Driver)
          /\ worker_ = j \/ (pc[Driver] = "assign" /\ jid[Driver] = j)
          /\ pc[Main] \notin {"drain", "exit"}
      BY Zenon DEF DriverInv, LiveInv
    <3>2. ~Stopped(Driver)'
      BY Zenon, <1>1, <3>1 DEF Stopped
    <3> QED BY Zenon, <1>1, <2>5, <2>6, <2>7, <2>8, <3>1, <3>2
  <2>11. CoreInv'
    <3>1. Starting(Driver)' => st_' = "RUNNING"
      <4>1. CASE t.prom = Driver
        BY Zenon, <1>12, <2>7, <4>1
      <4>2. CASE t.prom # Driver
        BY Zenon, <2>5, <2>8, <4>2 DEF DriverInv, CoreInv
      <4> QED BY Zenon, <4>1, <4>2
    <3>2. ASSUME st_' = "RUNNING", st_ = "RUNNING"
          PROVE  Starting(Driver)' \/ ~NoneLive' \/ FinishQueued'
      <4>1. FinishQueued => FinishQueued'
        <5> SUFFICES ASSUME NEW i \in DOMAIN q_, q_[i].kind = "FINISH_JOB"
                     PROVE  FinishQueued'
          BY Zenon DEF FinishQueued
        <5>1. i # 1 /\ i - 1 \in DOMAIN q_' /\ i \in Nat
          BY Zenon, <1>3, <1>15
        <5>2. q_'[i - 1] = q_[(i - 1) + 1] /\ (i - 1) + 1 = i
          BY <1>3, <5>1
        <5> QED BY Zenon, <5>1, <5>2 DEF FinishQueued
      <4>2. ~NoneLive => ~NoneLive'
        BY Zenon, <1>7 DEF NoneLive
      <4>3. Starting(Driver) => Starting(Driver)'
        BY Zenon, <2>7, <2>8
      <4> QED BY Zenon, <3>2, <4>1, <4>2, <4>3 DEF DriverInv, CoreInv
    <3>3. ASSUME st_' = "RUNNING", st_ # "RUNNING" PROVE Starting(Driver)'
      <4>1. o.r.http_status = 202 /\ t.kind = "START_JOB"
        BY Zenon, <1>12, <3>3
      <4>2. req[t.prom].path = "/start"
        BY Zenon, <2>2, <4>1, RequestKinds
      <4>3. t.prom = Driver
        BY Zenon, <2>1, <4>2 DEF DriverInv, ObserverInv
      <4> QED BY Zenon, <2>7, <4>1, <4>3
    <3> QED BY Zenon, <3>1, <3>2, <3>3 DEF CoreInv
  <2> QED BY ZenonT(40), <1>10, <1>11, <1>13, <2>9, <2>10, <2>11 DEF DriverInv
<1> QED BY Zenon, <1>14, <1>15

-----------------------------------------------------------------------------
LEMMA DriverStep == ServiceInv /\ DriverInv /\ [Next]_vars => DriverInv'
<1> SUFFICES ASSUME ServiceInv, DriverInv, [Next]_vars PROVE DriverInv'
  BY Zenon
<1>1. ASSUME NEW h \in Clients, Receive(h) \/ TimedOut(h) \/ HandlerStep(h)
      PROVE  DriverInv'
  <2>1. CASE StartStep(h)
    BY Zenon, <2>1, LaunchDriver, SpawnDriver DEF StartStep
  <2> QED
    BY Zenon, <1>1, <2>1, ReceiveDriver, QuietDriver, SubmitDriver, AnsweredDriver,
       NoTimeout, DeliverDriver, StopStepDriver
    DEF HandlerStep
<1>2. ASSUME NEW j \in Jobs,
             \/ ThreadStep(j)
             \/ (OpenSerial(j) \/ Expire(j)) /\ UNCHANGED <<serialVars, handlerVars>>
      PROVE  DriverInv'
  BY Zenon, <1>2, ThreadDriver, SubmitFinishDriver DEF ThreadStep
<1>3. CASE UNCHANGED vars
  <2>1. UNCHANGED <<st_, q_, fut, worker_, tpc, pc, target, jid, crashed, req>>
    BY Zenon, <1>3 DEF vars, serialVars, runnerVars, handlerVars
  <2>2. /\ \A j \in Jobs : Live(j)' <=> Live(j)
        /\ Starting(Driver)' <=> Starting(Driver)
        /\ Stopped(Driver)' <=> Stopped(Driver)
    BY Zenon, <2>1 DEF Live, Starting, Stopped
  <2>3. UNCHANGED serialVars
    BY Zenon, <2>1 DEF serialVars
  <2>4. ObserverInv' /\ OwnerInv' /\ ShutdownInv' /\ NeverCrashes'
    BY ZenonT(40), <2>1 DEF DriverInv, ObserverInv, OwnerInv, ShutdownInv, NeverCrashes
  <2>5. ~NoneLive => ~Stopped(Driver)' /\ pc'[Main] \notin {"drain", "exit"}
    BY Zenon, <2>1, <2>2 DEF DriverInv, LiveInv, NoneLive
  <2>6. \A j \in Jobs : Live(j) =>
          worker_' = j \/ (pc'[Driver] = "assign" /\ jid'[Driver] = j)
    BY Zenon, <2>1 DEF DriverInv, LiveInv
  <2> QED BY Zenon, <2>1, <2>2, <2>3, <2>4, <2>5, <2>6, RunKept
<1> QED BY Zenon, <1>1, <1>2, <1>3, DispatchDriver, MainDriver DEF Next, Step

(***************************************************************************)
(* With one driver a run of Core has one cause at a time, the launch in    *)
(* progress, the thread in worker_ or the FINISH_JOB in the queue: the     *)
(* inductive invariant from which the results below are read off.          *)
(***************************************************************************)
THEOREM DriverInvariant == Spec => []DriverInv
BY DriverInit, DriverStep, ServiceInvariant, PTL DEF Spec

-----------------------------------------------------------------------------
(* The flag running_.                                                      *)

\* start() has set the flag when it spawns the thread.
FlagInv == CancelledByStop /\ (pc[Driver] = "spawn" => running_)

LEMMA FlagInit == Init => FlagInv
<1> SUFFICES ASSUME Init PROVE FlagInv
  BY Zenon
<1>1. pc[Driver] = "idle" /\ \A j \in Jobs : tpc[j] = "none"
  BY Zenon, Apart DEF Init
<1> QED BY Zenon, <1>1 DEF FlagInv, CancelledByStop, GivesUp

LEMMA FlagKept ==
  ASSUME FlagInv, UNCHANGED <<tpc, running_>>, BeingStopped => BeingStopped',
         pc'[Driver] = "spawn" => pc[Driver] = "spawn"
  PROVE  FlagInv'
<1>1. running_' <=> running_
  OBVIOUS
<1>2. \A j \in Jobs : GivesUp(j)' => GivesUp(j)
  BY Zenon, <1>1 DEF GivesUp
<1> QED BY Zenon, <1>1, <1>2 DEF FlagInv, CancelledByStop

\* No job is left, or the one that gives up is being stopped.
LEMMA FlagSafe ==
  ASSUME (NoneLive /\ UNCHANGED tpc) \/ BeingStopped',
         pc'[Driver] = "spawn" => running_'
  PROVE  FlagInv'
<1>1. CASE NoneLive /\ UNCHANGED tpc
  <2>1. \A j \in Jobs : tpc'[j] \in {"none", "exited"}
    BY Zenon, <1>1 DEF NoneLive, Live
  <2>2. \A j \in Jobs : ~GivesUp(j)'
    BY Zenon, <2>1 DEF GivesUp
  <2> QED BY Zenon, <2>2 DEF FlagInv, CancelledByStop
<1>2. CASE BeingStopped'
  BY Zenon, <1>2 DEF FlagInv, CancelledByStop
<1> QED BY Zenon, <1>1, <1>2

\* A handler that is not in stop() moves.
LEMMA FlagOfHandler ==
  ASSUME ServiceInv, FlagInv, NEW h \in Clients, NEW l, Goto(h, l), l # "spawn",
         pc[h] \notin {"joinable", "join", "joining"},
         UNCHANGED <<tpc, running_>>, \A g \in Clients \ {h} : req'[g] = req[g]
  PROVE  FlagInv'
<1>1. pc'[h] = l /\ pc'[Main] = pc[Main] /\ \A g \in Clients \ {h} : pc'[g] = pc[g]
  BY Zenon, Apart DEF Goto, ServiceInv, TypeOK, Callers
<1>2. CASE h = Driver
  BY Zenon, <1>1, <1>2, FlagKept DEF BeingStopped
<1>3. CASE h # Driver
  <2>1. pc'[Driver] = pc[Driver] /\ req'[Driver] = req[Driver]
    BY Zenon, <1>1, <1>3, Apart
  <2> QED BY Zenon, <1>1, <2>1, FlagKept DEF BeingStopped
<1> QED BY Zenon, <1>2, <1>3

LEMMA FlagOfRequest ==
  ASSUME ServiceInv, FlagInv, NEW h \in Clients,
         \/ Receive(h) \/ SetBaudrate(h) \/ SubmitRequest(h) \/ Answered(h) \/ Started(h)
         \/ Lookup(h) \/ ReadState(h) \/ Threw(h) \/ Deliver(h)
  PROVE  FlagInv'
<1>1. CASE Receive(h)
  <2>1. PICK r \in Issues[h] :
          /\ req' = [req EXCEPT ![h] = r]
          /\ \/ Goto(h, "reply")
             \/ r.valid /\ r.path # "/health" /\ Goto(h, Entry(r))
    BY Zenon, <1>1 DEF Receive, Answer
  <2>2. r.valid /\ r.path # "/health" => Entry(r) # "spawn"
    BY Zenon, EntryOf
  <2>3. /\ pc[h] = "idle" /\ UNCHANGED <<tpc, running_>>
        /\ \A g \in Clients \ {h} : req'[g] = req[g]
    BY Zenon, <1>1, <2>1 DEF Receive, ServiceInv, TypeOK
  <2> QED BY Zenon, <2>1, <2>2, <2>3, FlagOfHandler
<1>2. CASE SetBaudrate(h) \/ Started(h) \/ Lookup(h) \/ ReadState(h) \/ Threw(h)
  <2>1. /\ pc[h] \in {"baud", "started", "lookup", "state", "threw"}
        /\ Goto(h, "submit") \/ Goto(h, "state") \/ Goto(h, "reply")
        /\ UNCHANGED <<tpc, running_, req>>
    BY ZenonT(40), <1>2 DEF SetBaudrate, Started, Lookup, ReadState, Threw, Answer
  <2> QED BY Zenon, <2>1, FlagOfHandler
<1>3. CASE SubmitRequest(h)
  <2>1. pc[h] = "submit" /\ Goto(h, "wait") /\ UNCHANGED <<tpc, running_, req>>
    BY Zenon, <1>3 DEF SubmitRequest, handlerVars
  <2> QED BY Zenon, <2>1, FlagOfHandler
<1>4. CASE Answered(h)
  <2>1. /\ pc[h] = "wait"
        /\ Goto(h, "stop") \/ Goto(h, "reply")
        /\ UNCHANGED <<tpc, running_, req>>
    BY Zenon, <1>4 DEF Answered, Answer
  <2> QED BY Zenon, <2>1, FlagOfHandler
<1>5. CASE Deliver(h)
  <2>1. /\ pc[h] = "reply" /\ Goto(h, "idle") /\ UNCHANGED <<tpc, running_>>
        /\ \A g \in Clients \ {h} : req'[g] = req[g]
    BY Zenon, <1>5 DEF Deliver, ServiceInv, TypeOK
  <2> QED BY Zenon, <2>1, FlagOfHandler
<1> QED BY Zenon, <1>1, <1>2, <1>3, <1>4, <1>5

\* The driver in stop(): a /start has no job left to stop.
LEMMA FlagOfStop ==
  ASSUME ServiceInv, DriverInv, NEW h \in Clients, StopStep(h)
  PROVE  FlagInv'
<1>1. pc[h] \in {"stop", "joinable", "join", "joining"}
  BY Zenon DEF StopStep, StopClear, Joinable, JoinEnter, JoinThrow, JoinReturn
<1>2. h = Driver /\ pc[Main] = "serve"
  BY Zenon, <1>1, Serving DEF DriverInv, ObserverInv
<1>3. \A g \in Callers \ {Driver} : pc[g] # "joining"
  BY Zenon, <1>2 DEF Callers, DriverInv, ObserverInv
<1>4. AfterStop(Driver) \in {"create", "submit"}
  BY Apart DEF AfterStop
<1>5. NoneLive \/ IsStop(req[Driver])
  <2>1. req[Driver].path = "/start" => Starting(Driver)
    BY Zenon, <1>1, <1>2 DEF Starting
  <2> QED BY Zenon, <1>1, <1>2, <2>1 DEF DriverInv, OwnerInv, LiveInv, NoneLive
<1>6. UNCHANGED <<tpc, req>>
  BY Zenon, <1>2, <1>3, StopSteps
<1>7. ASSUME NEW l \in {"joinable", "join", "joining"}, Goto(Driver, l) PROVE FlagInv'
  <2>1. pc'[Driver] = l
    BY Zenon, <1>7, Apart DEF Goto, ServiceInv, TypeOK
  <2>2. NoneLive \/ BeingStopped'
    BY Zenon, <1>5, <1>6, <2>1 DEF BeingStopped
  <2> QED BY Zenon, <1>6, <2>1, <2>2, FlagSafe
<1>8. ASSUME Goto(Driver, AfterStop(Driver)),
             worker_ = Nobody \/ (worker_ \in Jobs /\ ~Live(worker_))
      PROVE  FlagInv'
  <2>1. pc'[Driver] # "spawn"
    BY Zenon, <1>4, <1>8, Apart DEF Goto, ServiceInv, TypeOK
  <2>2. NoneLive
    BY Zenon, <1>1, <1>2, <1>8, WorkerGone
  <2> QED BY Zenon, <1>6, <2>1, <2>2, FlagSafe
<1> QED BY Zenon, <1>2, <1>3, <1>7, <1>8, StopSteps

LEMMA FlagOfStart ==
  ASSUME ServiceInv, DriverInv, FlagInv, NEW h \in Clients, StartStep(h)
  PROVE  FlagInv'
<1>1. UNCHANGED req /\ pc[h] \in {"create", "raise", "spawn", "assign"}
  BY Zenon DEF StartStep, Create, Raise, Spawn, Assign, handlerVars
<1>2. h = Driver /\ worker_ = Nobody /\ (pc[h] # "assign" => NoneLive)
  BY Zenon, <1>1, Starter
<1>3. \A l : Goto(h, l) => pc'[Driver] = l
  BY Zenon, <1>2, Apart DEF Goto, ServiceInv, TypeOK
<1>4. CASE Create(h)
  <2>1. pc[h] = "create" /\ Goto(h, "raise") /\ UNCHANGED tpc
    BY Zenon, <1>4 DEF Create
  <2> QED BY Zenon, <1>2, <1>3, <2>1, FlagSafe
<1>5. CASE Raise(h)
  <2>1. pc[h] = "raise" /\ running_' = TRUE /\ UNCHANGED tpc
    BY Zenon, <1>5 DEF Raise
  <2>2. running_'
    BY <2>1
  <2> QED BY Zenon, <1>2, <2>1, <2>2, FlagSafe
<1>6. CASE Spawn(h)
  <2>1. /\ pc[h] = "spawn" /\ Goto(h, "assign") /\ ThreadGoto(jid[h], "top")
        /\ running_' = running_
    BY Zenon, <1>6 DEF Spawn
  <2>2. running_'
    <3>1. running_
      BY Zenon, <1>2, <2>1 DEF FlagInv
    <3> QED BY <2>1, <3>1
  <2>3. jid[h] \in Jobs
    BY Zenon, <1>2, <2>1 DEF ServiceInv, HandlerInv, HasId
  <2>4. \A j \in Jobs : tpc'[j] \in {"none", "exited", "top"}
    BY Zenon, <1>2, <2>1, <2>3 DEF ThreadGoto, ServiceInv, TypeOK, NoneLive, Live
  <2>5. \A j \in Jobs : ~GivesUp(j)'
    BY Zenon, <2>2, <2>4 DEF GivesUp
  <2> QED BY Zenon, <2>2, <2>5 DEF FlagInv, CancelledByStop
<1>7. CASE Assign(h)
  <2>1. pc[h] = "assign" /\ Goto(h, "started") /\ UNCHANGED <<tpc, running_>>
    BY Zenon, <1>2, <1>7 DEF Assign
  <2> QED BY Zenon, <1>1, <2>1, FlagOfHandler
<1> QED BY Zenon, <1>4, <1>5, <1>6, <1>7 DEF StartStep

\* A job that ends clears the flag when no other job is there to see it.
LEMMA FlagOfThread ==
  ASSUME ServiceInv, DriverInv, FlagInv, NEW j \in Jobs,
         \/ LeaveLoop(j) \/ ReadFrame(j) \/ Gate(j) \/ StoreResult(j) \/ ClearRunning(j)
         \/ SubmitFinish(j) \/ OpenSerial(j) \/ Expire(j),
         UNCHANGED handlerVars
  PROVE  FlagInv'
<1>1. pc' = pc /\ req' = req
  BY ZenonT(40)
  DEF LeaveLoop, ReadFrame, Gate, StoreResult, ClearRunning, SubmitFinish, OpenSerial,
      Expire, handlerVars
<1>2. BeingStopped' <=> BeingStopped
  BY Zenon, <1>1 DEF BeingStopped
<1>3. tpc \in [Jobs -> ThreadLabel]
  BY Zenon DEF ServiceInv, TypeOK
<1>4. ASSUME running_' = running_, GivesUp(j)' => GivesUp(j),
             \A k \in Jobs \ {j} : tpc'[k] = tpc[k]
      PROVE  FlagInv'
  <2>1. running_' <=> running_
    BY <1>4
  <2>2. \A k \in Jobs : GivesUp(k)' => GivesUp(k)
    BY Zenon, <1>4, <2>1 DEF GivesUp
  <2> QED BY Zenon, <1>1, <1>2, <2>1, <2>2 DEF FlagInv, CancelledByStop
<1>5. CASE LeaveLoop(j)
  <2>1. tpc[j] = "top" /\ running_' = running_ /\ \A k \in Jobs \ {j} : tpc'[k] = tpc[k]
    BY Zenon, <1>3, <1>5 DEF LeaveLoop, ThreadGoto
  <2>2. (~running_ /\ tpc'[j] = "cancelled") \/ tpc'[j] = "timeout"
    BY Zenon, <1>3, <1>5 DEF LeaveLoop, ThreadGoto
  <2>3. GivesUp(j)' => GivesUp(j)
    BY Zenon, <2>1, <2>2 DEF GivesUp
  <2> QED BY Zenon, <1>4, <2>1, <2>3
<1>6. CASE OpenSerial(j)
  <2>1. /\ running_ /\ running_' = running_ /\ tpc'[j] = "read"
        /\ \A k \in Jobs \ {j} : tpc'[k] = tpc[k]
    BY Zenon, <1>3, <1>6 DEF OpenSerial, ThreadGoto
  <2>2. running_'
    BY <2>1
  <2>3. ~GivesUp(j)'
    BY Zenon, <2>1, <2>2 DEF GivesUp
  <2> QED BY Zenon, <1>4, <2>1, <2>3
<1>7. CASE ReadFrame(j)
  <2>1. /\ tpc[j] = "read" /\ running_' = running_ /\ tpc'[j] = "gate"
        /\ \A k \in Jobs \ {j} : tpc'[k] = tpc[k]
    BY Zenon, <1>3, <1>7 DEF ReadFrame, ThreadGoto
  <2>2. running_' <=> running_
    BY <2>1
  <2>3. GivesUp(j)' => GivesUp(j)
    BY Zenon, <2>1, <2>2 DEF GivesUp
  <2> QED BY Zenon, <1>4, <2>1, <2>3
<1>8. CASE Gate(j)
  <2>1. /\ tpc[j] = "gate" /\ running_' = running_
        /\ \A k \in Jobs \ {j} : tpc'[k] = tpc[k]
    BY Zenon, <1>3, <1>8 DEF Gate, ThreadGoto
  <2>2. running_ => tpc'[j] \in {"done", "top"}
    BY Zenon, <1>3, <1>8 DEF Gate, ThreadGoto
  <2>3. running_' <=> running_
    BY <2>1
  <2>4. GivesUp(j)' => GivesUp(j)
    BY Zenon, <2>1, <2>2, <2>3 DEF GivesUp
  <2> QED BY Zenon, <1>4, <2>1, <2>4
<1>9. CASE StoreResult(j) \/ SubmitFinish(j)
  <2>1. /\ running_' = running_ /\ tpc'[j] \in {"clear", "exited"}
        /\ \A k \in Jobs \ {j} : tpc'[k] = tpc[k]
    BY Zenon, <1>3, <1>9 DEF StoreResult, SubmitFinish, ThreadGoto
  <2>2. ~GivesUp(j)'
    BY Zenon, <2>1 DEF GivesUp
  <2> QED BY Zenon, <1>4, <2>1, <2>2
<1>10. CASE ClearRunning(j)
  <2>1. /\ tpc[j] = "clear" /\ tpc'[j] = "finish"
        /\ \A k \in Jobs \ {j} : tpc'[k] = tpc[k]
    BY Zenon, <1>3, <1>10 DEF ClearRunning, ThreadGoto
  <2>2. Live(j)
    BY Zenon, <2>1 DEF Live
  <2>3. \A k \in Jobs \ {j} : ~Live(k)
    BY Zenon, <2>2, OneLive
  <2>4. \A k \in Jobs : ~GivesUp(k)'
    BY Zenon, <2>1, <2>3 DEF GivesUp, Live
  <2>5. pc'[Driver] # "spawn"
    <3>1. pc[Driver] = "spawn" => NoneLive
      BY Zenon, Starter, Apart
    <3> QED BY Zenon, <1>1, <2>2, <3>1 DEF NoneLive
  <2> QED BY Zenon, <2>4, <2>5 DEF FlagInv, CancelledByStop
<1>11. CASE Expire(j)
  <2>1. UNCHANGED <<tpc, running_>>
    BY Zenon, <1>11 DEF Expire
  <2> QED BY Zenon, <1>1, <1>2, <2>1, FlagKept
<1> QED BY Zenon, <1>5, <1>6, <1>7, <1>8, <1>9, <1>10, <1>11

LEMMA FlagOfMain ==
  ASSUME ServiceInv, DriverInv, FlagInv, Shutdown \/ MainStep
  PROVE  FlagInv'
<1>1. \A l : Goto(Main, l) => pc'[Main] = l /\ pc'[Driver] = pc[Driver]
  BY Zenon, Apart DEF Goto, ServiceInv, TypeOK, Callers
<1>2. CASE Shutdown
  <2>1. /\ pc[Main] = "serve" /\ pc[Driver] = "idle" /\ Goto(Main, "stop")
        /\ UNCHANGED <<tpc, running_>>
    BY Zenon, <1>2, Apart DEF Shutdown
  <2>2. ~BeingStopped
    BY Zenon, <2>1 DEF BeingStopped
  <2> QED BY Zenon, <1>1, <2>1, <2>2, FlagKept
<1>3. CASE Exit
  <2>1. pc[Main] = "drain" /\ Goto(Main, "exit") /\ UNCHANGED tpc
    BY Zenon, <1>3 DEF Exit
  <2>2. NoneLive /\ pc[Driver] = "idle"
    BY Zenon, <2>1, Apart DEF DriverInv, LiveInv, NoneLive, ShutdownInv
  <2> QED BY Zenon, <1>1, <2>1, <2>2, FlagSafe
<1>4. CASE StopStep(Main)
  <2>1. pc[Main] # "serve"
    BY Zenon, <1>4
    DEF StopStep, StopClear, Joinable, JoinEnter, JoinThrow, JoinReturn
  <2>2. \A h \in Clients : pc[h] = "idle"
    BY Zenon, <2>1 DEF DriverInv, ShutdownInv
  <2>3. pc[Driver] = "idle" /\ \A g \in Callers \ {Main} : pc[g] # "joining"
    BY Zenon, <2>2, Apart DEF Callers
  <2>4. UNCHANGED tpc
    BY Zenon, <1>4, <2>3, StopSteps
  <2>5. ASSUME NEW l \in {"joinable", "join", "joining"}, Goto(Main, l) PROVE FlagInv'
    <3>1. BeingStopped' /\ pc'[Driver] # "spawn"
      BY Zenon, <1>1, <2>3, <2>5 DEF BeingStopped
    <3> QED BY Zenon, <3>1, FlagSafe
  <2>6. ASSUME Goto(Main, AfterStop(Main)),
               worker_ = Nobody \/ (worker_ \in Jobs /\ ~Live(worker_))
        PROVE  FlagInv'
    <3>1. NoneLive
      BY Zenon, <2>3, <2>6, WorkerGone
    <3> QED BY Zenon, <1>1, <2>3, <2>4, <2>6, <3>1, FlagSafe
  <2> QED BY Zenon, <1>4, <2>3, <2>5, <2>6, StopSteps
<1> QED BY Zenon, <1>2, <1>3, <1>4 DEF MainStep

LEMMA FlagStep == ServiceInv /\ DriverInv /\ FlagInv /\ [Next]_vars => FlagInv'
<1> SUFFICES ASSUME ServiceInv, DriverInv, FlagInv, [Next]_vars PROVE FlagInv'
  BY Zenon
<1>1. ASSUME NEW h \in Clients, Receive(h) \/ TimedOut(h) \/ HandlerStep(h)
      PROVE  FlagInv'
  BY Zenon, <1>1, FlagOfRequest, NoTimeout, FlagOfStop, FlagOfStart DEF HandlerStep
<1>2. ASSUME NEW j \in Jobs,
             \/ ThreadStep(j)
             \/ (OpenSerial(j) \/ Expire(j)) /\ UNCHANGED <<serialVars, handlerVars>>
      PROVE  FlagInv'
  BY Zenon, <1>2, FlagOfThread DEF ThreadStep
<1>3. CASE Dispatch \/ UNCHANGED vars
  <2>1. UNCHANGED <<tpc, running_, pc, req>>
    BY Zenon, <1>3 DEF Dispatch, vars, runnerVars, handlerVars
  <2>2. BeingStopped' <=> BeingStopped
    BY Zenon, <2>1 DEF BeingStopped
  <2> QED BY Zenon, <2>1, <2>2, FlagKept
<1> QED BY Zenon, <1>1, <1>2, <1>3, FlagOfMain DEF Next, Step

(***************************************************************************)
(* With one driver a job is cancelled only by a STOP or by the shutdown    *)
(* that waits for its thread, although every job clears the same running_. *)
(***************************************************************************)
THEOREM CancelNeedsStop == Spec => []CancelledByStop
<1>1. FlagInv => CancelledByStop
  BY Zenon DEF FlagInv
<1>2. Spec => []FlagInv
  BY FlagInit, FlagStep, ServiceInvariant, DriverInvariant, PTL DEF Spec
<1> QED BY <1>1, <1>2, PTL

(***************************************************************************)
(* Jobs never overlap, and one runs only while Core is RUNNING: the guard  *)
(* of Core::start_job is enough, although the thread is spawned after Core *)
(* has answered.                                                           *)
(***************************************************************************)
THEOREM JobsNeverOverlap == Spec => []JobsExclusive
<1>1. DriverInv => JobsExclusive
  BY Zenon, OneLive DEF DriverInv, LiveInv, JobsExclusive
<1> QED BY <1>1, DriverInvariant, PTL

(***************************************************************************)
(* Core is never left RUNNING without a job that is about to start, runs   *)
(* or has its FINISH_JOB in the queue.                                     *)
(***************************************************************************)
THEOREM RunningIsTrue == Spec => []RunningHasJob
<1>1. DriverInv => RunningHasJob
  BY Zenon, Apart DEF DriverInv, CoreInv, RunningHasJob, NoneLive
<1> QED BY <1>1, DriverInvariant, PTL

(***************************************************************************)
(* start() and stop() never assign to, or join, a std::thread in a way     *)
(* that ends the process.                                                  *)
(***************************************************************************)
THEOREM ProcessSurvives == Spec => []NeverCrashes
<1>1. DriverInv => NeverCrashes
  BY Zenon DEF DriverInv
<1> QED BY <1>1, DriverInvariant, PTL

(***************************************************************************)
(* At shutdown no job thread outlives ~JobRunner, and main() does not      *)
(* return with Core RUNNING.                                               *)
(***************************************************************************)
THEOREM OrderlyShutdown == Spec => []ShutdownOrderly
<1>1. DriverInv => ShutdownOrderly
  <2> SUFFICES ASSUME DriverInv PROVE ShutdownOrderly
    BY Zenon
  <2>1. pc[Main] \in {"drain", "exit"} => NoneLive
    BY Zenon DEF DriverInv, LiveInv, NoneLive
  <2>2. ASSUME pc[Main] = "exit" PROVE st_ # "RUNNING"
    <3>1. pc[Driver] = "idle" /\ q_ = << >>
      BY Zenon, <2>2, Apart DEF DriverInv, ShutdownInv
    <3>2. ~Starting(Driver)
      BY Zenon, <3>1 DEF Starting
    <3>3. ~FinishQueued
      BY <3>1 DEF FinishQueued
    <3> QED BY Zenon, <2>1, <2>2, <3>2, <3>3 DEF DriverInv, CoreInv
  <2> QED BY Zenon, <2>1, <2>2 DEF ShutdownOrderly, NoneLive
<1> QED BY <1>1, DriverInvariant, PTL

(***************************************************************************)
(* When a STOP is answered 200 no job thread is left.                      *)
(***************************************************************************)
THEOREM StopEndsTheJob == Spec => StopIsEffective
<1>1. DriverInv =>
        [\A h \in Clients :
           /\ pc[h] = "wait" /\ pc'[h] = "reply"
           /\ IsStop(req[h]) /\ reply'[h].code = 200
           => \A j \in Jobs : ~Live(j)]_vars
  <2>1. ASSUME DriverInv, NEW h \in Clients, pc[h] = "wait", IsStop(req[h])
        PROVE  \A j \in Jobs : ~Live(j)
    <3>1. h = Driver
      BY Zenon, <2>1 DEF DriverInv, ObserverInv
    <3> QED BY Zenon, <2>1, <3>1 DEF DriverInv, LiveInv, Stopped
  <2> QED BY Zenon, <2>1
<1> QED BY <1>1, DriverInvariant, PTL DEF StopIsEffective

(***************************************************************************)
(* FINISH_JOB names no job, and yet takes Core from RUNNING back to INIT   *)
(* only when the job that the JobRunner owns is over.                      *)
(***************************************************************************)
THEOREM FinishEndsItsJob == Spec => FinishEndsTheJob
<1>1. ServiceInv /\ DriverInv /\ [Next]_vars =>
        [st_ = "RUNNING" /\ st_' = "INIT" => worker_ = Nobody \/ ~Live(worker_)]_vars
  <2> SUFFICES ASSUME ServiceInv, DriverInv, [Next]_vars, st_ = "RUNNING", st_' = "INIT"
               PROVE  worker_ = Nobody \/ ~Live(worker_)
    BY Zenon
  <2>1. TypeOK /\ q_ \in Seq(Task) /\ worker_ \in Jobs \cup {Nobody}
    BY Zenon DEF ServiceInv, TypeOK, SerialTypeOK
  <2>2. Serve
    <3>1. [SerialNext]_serialVars
      BY Zenon, <2>1, StepUsesQueue
    <3> QED
      BY Zenon, <3>1
      DEF SerialNext, Submit, SubmitDetached, Collect, Abandon, serialVars
  <2>3. q_ # << >> /\ \E o \in Outcomes(st_, Head(q_)) : st_' = o.st
    BY Zenon, <2>2 DEF Serve
  <2>4. Head(q_) \in Task /\ Head(q_) = q_[1] /\ 1 \in DOMAIN q_ /\ st_ \in State
    BY Zenon, <2>1, <2>3, PopIndices DEF State
  <2>5. Head(q_).kind = "FINISH_JOB"
    BY <2>3, <2>4, OutcomeOfTask
  <2>6. NoneLive
    BY Zenon, <2>4, <2>5 DEF DriverInv, LastFinishInv
  <2> QED BY Zenon, <2>1, <2>6 DEF NoneLive
<1> QED BY <1>1, DriverInvariant, ServiceInvariant, PTL DEF Spec, FinishEndsTheJob

=============================================================================
