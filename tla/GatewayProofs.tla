---------------------------- MODULE GatewayProofs ---------------------------
(***************************************************************************)
(* Proofs about Gateway, for any number of threads, jobs and commands, any *)
(* timeouts, any losses of the connection and any restarts of qr-c: which  *)
(* job a command has started, what its events say of it, and that they     *)
(* are true.                                                               *)
(***************************************************************************)
EXTENDS Gateway, TLAPS

Events ==
  [type : {"error", "command_ack", "stop_ack", "job_rejected", "job_accepted",
           "job_result"},
   http_status : Int, job : Jobs \cup {None},
   result : JobResultSet(Payloads) \cup {NoResult}]

Replies == [code : {-1, 200, 202, 400, 409}, job : Jobs \cup {None}]

ThreadType ==
  /\ jobs_ \in [Jobs -> JobResultSet(Payloads)]
  /\ inbox \in Seq(Messages)
  /\ tpc \in [Threads -> {"idle", "post", "posted", "poll", "ended"}]
  /\ msg \in [Threads -> Messages \cup {None}]
  /\ ev \in [Threads -> Seq(Events)]
  /\ wire \subseteq Threads
  /\ reply \in [Threads -> Replies]
  /\ owner \in [Jobs -> Threads \cup {None}]
  /\ timeout \in [Jobs -> Int]

Accepted(t) ==
  /\ ev[t][1].type = "job_accepted"
  /\ ev[t][1].job \in Jobs /\ owner[ev[t][1].job] = t

\* How far a thread's events have come, and what the last one rests on.
EventInv ==
  \A t \in Threads :
    /\ tpc[t] \in {"idle", "post", "posted"} => Len(ev[t]) = 0
    /\ tpc[t] = "poll" => Len(ev[t]) = 1 /\ Accepted(t)
    /\ tpc[t] = "ended" /\ Len(ev[t]) # 2 =>
         Len(ev[t]) = 1 /\ ev[t][1].type \notin {"job_accepted", "job_result"}
    /\ tpc[t] = "ended" /\ Len(ev[t]) = 2 =>
         /\ Accepted(t)
         /\ ev[t][2].type = "job_result" /\ ev[t][2].job = ev[t][1].job
         /\ ev[t][2].http_status = 200 =>
              /\ ev[t][2].result.status \in Terminal
              /\ jobs_[ev[t][1].job] \in {ev[t][2].result, Absent}

\* The thread ended without an answer: if it asked for a job, the event says 0.
Unanswered(t) ==
  tpc[t] = "ended" /\ Len(ev[t]) # 2 /\ Path(t) = "/start" =>
    ev[t][1].type = "job_rejected" /\ ev[t][1].http_status = 0

\* A request on its way has started no job yet, and a reply is on its way only
\* to a thread that waits for it.
RequestInv ==
  \A t \in Threads :
    /\ t \in wire => /\ tpc[t] \in {"posted", "ended"} /\ reply[t] = NoReply
                     /\ Len(ev[t]) # 2 /\ Unanswered(t)
                     /\ \A j \in Jobs : owner[j] # t
    /\ reply[t] # NoReply => tpc[t] = "posted"
    /\ tpc[t] # "idle" => msg[t] \in Messages
    /\ reply[t].code = 202 => reply[t].job \in Jobs /\ owner[reply[t].job] = t

\* A job belongs to one request, which asked for it, and the thread has been
\* told of it, is about to be told, or has given up waiting.
OwnerInv ==
  \A j \in Jobs :
    /\ owner[j] = None => ~exists(jobs_, j)
    /\ \A t \in Threads : owner[j] = t =>
         /\ \A k \in Jobs : owner[k] = t => k = j
         /\ tpc[t] \in {"posted", "poll", "ended"} /\ Path(t) = "/start"
         /\ tpc[t] = "posted" => reply[t] = [code |-> 202, job |-> j]
         /\ Unanswered(t)
         /\ timeout[j] = ToInt(Asked(t)) /\ timeout[j] > 0

GatewayInv == ThreadType /\ EventInv /\ RequestInv /\ OwnerInv

-----------------------------------------------------------------------------
(* Facts about the operators of the model.                                 *)

\* The conversion to int gives an int, and leaves an int as it is.
LEMMA ToIntRange == ASSUME NEW n \in Int PROVE ToInt(n) \in -IntMax .. IntMax - 1
BY IntAssumption DEF ToInt

LEMMA ToIntType == ASSUME NEW n \in Int PROVE ToInt(n) \in Int
BY ToIntRange, IntAssumption

LEMMA ToIntKeeps ==
  ASSUME NEW n \in Int, n \in -IntMax .. IntMax - 1
  PROVE  ToInt(n) = n
<1>1. n + IntMax \in 0 .. 2 * IntMax - 1 /\ 2 * IntMax \in Nat \ {0}
  BY IntAssumption
<1>2. \A a \in Int, b \in Nat \ {0} : a \in 0 .. b - 1 => a % b = a
  OBVIOUS
<1>3. n + IntMax \in Int /\ (n + IntMax) % (2 * IntMax) = n + IntMax
  BY <1>1, <1>2, IntAssumption
<1> QED BY <1>3, IntAssumption DEF ToInt

\* A command whose route is /start has a timeout_ms.
LEMMA StartHasTimeout ==
  ASSUME NEW t \in Threads, msg[t] \in Messages, Path(t) = "/start"
  PROVE  Asked(t) \in Int
<1>1. msg[t].timeout_ms # {}
  BY Zenon, MessageAssumption DEF Path, Route, Message
<1>2. msg[t].timeout_ms \subseteq Int
  BY Zenon, MessageAssumption DEF Message
<1> QED BY Zenon, <1>1, <1>2 DEF Asked

\* publish_event adds one event to those of its thread.
LEMMA PublishAdds ==
  ASSUME ThreadType, NEW t \in Threads, NEW e \in Events, Publish(t, e)
  PROVE  /\ ev' \in [Threads -> Seq(Events)]
         /\ \A u \in Threads \ {t} : ev'[u] = ev[u]
         /\ Len(ev'[t]) = Len(ev[t]) + 1
         /\ ev'[t][Len(ev[t]) + 1] = e
         /\ \A i \in 1 .. Len(ev[t]) : ev'[t][i] = ev[t][i]
<1>1. ev[t] \in Seq(Events) /\ ev'[t] = Append(ev[t], e)
  BY Zenon DEF ThreadType, Publish
<1>2. /\ Append(ev[t], e) \in Seq(Events)
      /\ Len(Append(ev[t], e)) = Len(ev[t]) + 1
      /\ \A i \in 1 .. Len(ev[t]) : Append(ev[t], e)[i] = ev[t][i]
      /\ Append(ev[t], e)[Len(ev[t]) + 1] = e
  BY <1>1
<1>3. /\ ev' \in [Threads -> Seq(Events)]
      /\ \A u \in Threads \ {t} : ev'[u] = ev[u]
  BY Zenon, <1>1, <1>2 DEF ThreadType, Publish
<1> QED BY Zenon, <1>1, <1>2, <1>3

\* A thread keeps its request as long as it serves it.
LEMMA SameRequest ==
  ASSUME NEW t \in Threads, msg'[t] = msg[t]
  PROVE  Path(t)' = Path(t) /\ Asked(t)' = Asked(t)
BY Zenon DEF Path, Asked

LEMMA GatewayInit == Init => GatewayInv
<1> SUFFICES ASSUME Init PROVE GatewayInv
  BY Zenon
<1>1. ThreadType
  BY IntAssumption
  DEF Init, JobInit, ThreadType, JobResultSet, Absent, NoReply, Replies
<1>2. \A t \in Threads : tpc[t] = "idle" /\ Len(ev[t]) = 0 /\ reply[t] = NoReply
  BY Zenon DEF Init
<1>3. \A j \in Jobs : owner[j] = None /\ ~exists(jobs_, j)
  BY Zenon DEF Init, JobInit, Absent, exists
<1>4. EventInv
  BY Zenon, <1>2 DEF EventInv
<1>5. RequestInv
  BY <1>2 DEF Init, RequestInv, NoReply
<1>6. OwnerInv
  BY Zenon, <1>3, NoneAssumption DEF OwnerInv
<1> QED BY Zenon, <1>1, <1>4, <1>5, <1>6 DEF GatewayInv

-----------------------------------------------------------------------------
(* The steps.                                                              *)

\* Steps of the broker, and those that change nothing.
LEMMA BrokerStep ==
  ASSUME GatewayInv, inbox' \in Seq(Messages),
         UNCHANGED <<jobs_, tpc, msg, ev, wire, reply, owner, timeout>>
  PROVE  GatewayInv'
<1>1. \A t \in Threads : Path(t)' = Path(t) /\ Asked(t)' = Asked(t)
  BY Zenon, SameRequest
<1>2. ThreadType'
  BY Zenon DEF GatewayInv, ThreadType
<1>3. EventInv'
  BY DEF GatewayInv, EventInv, Accepted
<1>4. RequestInv'
  BY <1>1 DEF GatewayInv, RequestInv, Unanswered
<1>5. OwnerInv'
  BY <1>1 DEF GatewayInv, OwnerInv, Unanswered, exists
<1> QED BY Zenon, <1>2, <1>3, <1>4, <1>5 DEF GatewayInv

\* A thread that has not called qr-c has nothing there.
LEMMA NotCalled ==
  ASSUME GatewayInv, NEW t \in Threads, tpc[t] \in {"idle", "post"}
  PROVE  /\ Len(ev[t]) = 0 /\ t \notin wire /\ reply[t] = NoReply
         /\ \A j \in Jobs : owner[j] # t
<1>1. Len(ev[t]) = 0
  BY Zenon DEF GatewayInv, EventInv
<1>2. t \notin wire /\ reply[t] = NoReply
  BY Zenon DEF GatewayInv, RequestInv
<1>3. \A j \in Jobs : owner[j] # t
  BY ZenonT(30) DEF GatewayInv, OwnerInv
<1> QED BY Zenon, <1>1, <1>2, <1>3

\* on_message: a command is refused on the spot, or gets its thread.
LEMMA MessageStep ==
  ASSUME GatewayInv, NEW t \in Threads, on_message(t)
  PROVE  GatewayInv'
<1> USE DEF GatewayInv
<1> DEFINE e == Event("error", 0, None, NoResult)
<1>1. /\ tpc[t] = "idle" /\ Len(ev[t]) = 0 /\ t \notin wire /\ reply[t] = NoReply
      /\ \A j \in Jobs : owner[j] # t
  BY Zenon, NotCalled DEF on_message
<1>2. UNCHANGED <<jobs_, wire, reply, owner, timeout>>
  BY Zenon DEF on_message, httpVars
<1>3. Head(inbox) \in Messages /\ Tail(inbox) \in Seq(Messages)
  BY DEF on_message, ThreadType
<1>4. e \in Events
  BY DEF Events, Event
<1>5. /\ \A u \in Threads \ {t} : ev'[u] = ev[u] /\ tpc'[u] = tpc[u] /\ msg'[u] = msg[u]
      /\ ev' \in [Threads -> Seq(Events)]
      /\ \/ tpc'[t] = "ended" /\ Len(ev'[t]) = 1 /\ ev'[t][1] = e
         \/ tpc'[t] = "post" /\ Len(ev'[t]) = 0
  <2>1. CASE Route(Head(inbox)) = "error"
    <3>1. Publish(t, e) /\ Goto(t, "ended")
      BY Zenon, <2>1 DEF on_message
    <3>2. /\ ev' \in [Threads -> Seq(Events)]
          /\ \A u \in Threads \ {t} : ev'[u] = ev[u]
          /\ Len(ev'[t]) = 1 /\ ev'[t][1] = e
      <4> HIDE DEF e
      <4>1. /\ ev' \in [Threads -> Seq(Events)]
            /\ \A u \in Threads \ {t} : ev'[u] = ev[u]
            /\ Len(ev'[t]) = Len(ev[t]) + 1 /\ ev'[t][Len(ev[t]) + 1] = e
        BY Zenon, <1>4, <3>1, PublishAdds
      <4>2. Len(ev[t]) + 1 = 1
        BY <1>1
      <4> QED BY Zenon, <4>1, <4>2
    <3> QED BY Zenon, <3>1, <3>2 DEF on_message, Goto, ThreadType
  <2>2. CASE Route(Head(inbox)) # "error"
    BY Zenon, <1>1, <2>2 DEF on_message, Goto, ThreadType
  <2> QED BY Zenon, <2>1, <2>2
<1>6. \A u \in Threads \ {t} : Path(u)' = Path(u) /\ Asked(u)' = Asked(u)
  BY Zenon, <1>5, SameRequest
<1>7. ThreadType'
  BY Zenon, <1>2, <1>3, <1>5 DEF ThreadType, on_message, Goto
<1>8. EventInv'
  <2>1. e.type = "error"
    BY Zenon DEF Event
  <2> HIDE DEF e
  <2> SUFFICES ASSUME NEW u \in Threads
               PROVE  EventInv!(u)'
    BY Zenon DEF EventInv
  <2>2. CASE u = t
    BY <1>5, <2>1, <2>2
  <2>3. CASE u # t
    BY <1>2, <1>5, <2>3 DEF EventInv, Accepted
  <2> QED BY Zenon, <2>2, <2>3
<1>9. RequestInv'
  <2>1. \A u \in Threads : tpc'[u] # "idle" => msg'[u] \in Messages
    BY <1>3, <1>5 DEF on_message, RequestInv, ThreadType
  <2> QED BY <1>1, <1>2, <1>5, <1>6, <2>1 DEF RequestInv, Unanswered, NoReply
<1>10. OwnerInv'
  BY <1>1, <1>2, <1>5, <1>6 DEF OwnerInv, Unanswered, exists
<1> QED BY Zenon, <1>7, <1>8, <1>9, <1>10

LEMMA PostStep ==
  ASSUME GatewayInv, NEW t \in Threads, Post(t)
  PROVE  GatewayInv'
<1> USE DEF GatewayInv
<1>1. /\ tpc[t] = "post" /\ Len(ev[t]) = 0 /\ reply[t] = NoReply
      /\ \A j \in Jobs : owner[j] # t
  BY Zenon, NotCalled DEF Post
<1>2. /\ UNCHANGED <<jobs_, inbox, msg, ev, reply, owner, timeout>>
      /\ wire' = wire \cup {t}
  BY Zenon DEF Post, mqttVars
<1>3. \A u \in Threads : tpc'[u] = IF u = t THEN "posted" ELSE tpc[u]
  BY Zenon DEF Post, Goto, ThreadType
<1>4. \A u \in Threads : Path(u)' = Path(u) /\ Asked(u)' = Asked(u)
  BY Zenon, <1>2, SameRequest
<1>5. ThreadType'
  BY Zenon, <1>2 DEF ThreadType, Post, Goto
<1>6. EventInv'
  BY <1>1, <1>2, <1>3 DEF EventInv, Accepted
<1>7. RequestInv'
  BY <1>1, <1>2, <1>3, <1>4 DEF RequestInv, Unanswered
<1>8. OwnerInv'
  BY <1>1, <1>2, <1>3, <1>4 DEF OwnerInv, Unanswered, exists
<1> QED BY <1>5, <1>6, <1>7, <1>8

\* A job ends: it was PENDING, so no event has reported its end.
LEMMA JobEndsStep == ASSUME GatewayInv, JobEnds PROVE GatewayInv'
<1> USE DEF GatewayInv
<1>1. PICK j \in Jobs : EndJob(j) /\ UNCHANGED <<mqttVars, threadVars, httpVars>>
  BY Zenon DEF JobEnds
<1>2. UNCHANGED <<inbox, tpc, msg, ev, wire, reply, owner, timeout>>
  BY Zenon, <1>1 DEF mqttVars, threadVars, httpVars
<1>3. /\ jobs_[j].status = "PENDING"
      /\ jobs_' \in [Jobs -> JobResultSet(Payloads)]
      /\ \A k \in Jobs \ {j} : jobs_'[k] = jobs_[k]
  <2>1. \A r \in JobResultSet(Payloads) : jobs_' = [jobs_ EXCEPT ![j] = r] =>
          /\ jobs_' \in [Jobs -> JobResultSet(Payloads)]
          /\ \A k \in Jobs \ {j} : jobs_'[k] = jobs_[k]
    BY Zenon DEF ThreadType
  <2>2. \E r \in JobResultSet(Payloads) : jobs_' = [jobs_ EXCEPT ![j] = r]
    <3>1. /\ \A p \in Payloads : [status |-> "DONE", qr |-> {p}] \in JobResultSet(Payloads)
          /\ [status |-> "TIMEOUT", qr |-> {}] \in JobResultSet(Payloads)
          /\ [status |-> "CANCELLED", qr |-> {}] \in JobResultSet(Payloads)
      BY Zenon DEF JobResultSet, JobStatus
    <3> QED BY Zenon, <1>1, <3>1 DEF EndJob, set_done, set_timeout, set_cancelled
  <2> QED BY Zenon, <1>1, <2>1, <2>2 DEF EndJob
<1>4. \A t \in Threads : Path(t)' = Path(t) /\ Asked(t)' = Asked(t)
  BY Zenon, <1>2, SameRequest
<1>5. ThreadType'
  BY Zenon, <1>2, <1>3 DEF ThreadType
<1>6. EventInv'
  BY <1>2, <1>3 DEF EventInv, Accepted, Terminal, Absent
<1>7. RequestInv'
  BY <1>2, <1>4 DEF RequestInv, Unanswered
<1>8. OwnerInv'
  BY <1>2, <1>3, <1>4 DEF OwnerInv, Unanswered, exists
<1> QED BY Zenon, <1>5, <1>6, <1>7, <1>8

\* qr-c restarts: the store and the requests on their way are gone.
LEMMA RestartStep == ASSUME GatewayInv, Restart PROVE GatewayInv'
<1> USE DEF GatewayInv
<1>1. /\ UNCHANGED <<inbox, tpc, msg, ev, reply, owner, timeout>>
      /\ wire' = {} /\ \A j \in Jobs : jobs_'[j] = Absent
      /\ jobs_' \in [Jobs -> JobResultSet(Payloads)]
  BY Zenon DEF Restart, mqttVars, threadVars, Absent, JobResultSet
<1>2. \A t \in Threads : Path(t)' = Path(t) /\ Asked(t)' = Asked(t)
  BY Zenon, <1>1, SameRequest
<1>3. ThreadType'
  BY Zenon, <1>1 DEF ThreadType
<1>4. EventInv'
  BY SMTT(30), <1>1 DEF EventInv, Accepted
<1>5. RequestInv'
  BY Zenon, <1>1, <1>2 DEF RequestInv
<1>6. OwnerInv'
  BY <1>1, <1>2 DEF OwnerInv, Unanswered, exists, Absent
<1> QED BY Zenon, <1>3, <1>4, <1>5, <1>6

\* qr-c executes a request that creates no job.
LEMMA ExecuteNoJob ==
  ASSUME GatewayInv, NEW t, t \in wire, NEW code, code \in {200, 400, 409},
         wire' = wire \ {t},
         reply' = IF tpc[t] = "posted"
                  THEN [reply EXCEPT ![t] = [code |-> code, job |-> None]]
                  ELSE reply,
         UNCHANGED <<jobs_, inbox, tpc, msg, ev, owner, timeout>>
  PROVE  GatewayInv'
<1> USE DEF GatewayInv
<1>1. t \in Threads /\ \A j \in Jobs : owner[j] # t
  BY DEF ThreadType, RequestInv
<1>2. /\ reply' \in [Threads -> Replies]
      /\ \A u \in Threads \ {t} : reply'[u] = reply[u]
      /\ reply'[t] # NoReply => tpc[t] = "posted"
      /\ reply'[t].code # 202
  <2>1. CASE tpc[t] = "posted"
    BY <1>1, <2>1 DEF ThreadType, Replies, NoReply
  <2>2. CASE tpc[t] # "posted"
    BY <1>1, <2>2 DEF ThreadType, RequestInv, NoReply
  <2> QED BY Zenon, <2>1, <2>2
<1>3. \A u \in Threads : Path(u)' = Path(u) /\ Asked(u)' = Asked(u)
  BY Zenon, SameRequest
<1>4. ThreadType'
  BY SMTT(30), <1>2 DEF ThreadType
<1>5. EventInv'
  BY SMTT(30) DEF EventInv, Accepted
<1>6. RequestInv'
  BY SMTT(30), <1>1, <1>2, <1>3 DEF RequestInv, Unanswered
<1>7. OwnerInv'
  BY <1>1, <1>2, <1>3 DEF OwnerInv, Unanswered, exists
<1> QED BY Zenon, <1>4, <1>5, <1>6, <1>7

\* qr-c executes a /start: the new job belongs to the thread that asked, which
\* had none, whether or not it is still waiting.
LEMMA ExecuteJob ==
  ASSUME GatewayInv, NEW t \in wire, NEW j \in Jobs,
         Path(t) = "/start", AcceptsTimeout(Asked(t)), DrawId(j),
         wire' = wire \ {t},
         reply' = IF tpc[t] = "posted"
                  THEN [reply EXCEPT ![t] = [code |-> 202, job |-> j]]
                  ELSE reply,
         jobs_' = create(jobs_, j),
         owner' = [owner EXCEPT ![j] = t],
         timeout' = [timeout EXCEPT ![j] = ToInt(Asked(t))],
         UNCHANGED <<inbox, tpc, msg, ev>>
  PROVE  GatewayInv'
<1> USE DEF GatewayInv
<1>1. /\ t \in Threads /\ tpc[t] \in {"posted", "ended"} /\ reply[t] = NoReply
      /\ Len(ev[t]) # 2 /\ Unanswered(t)
      /\ \A k \in Jobs : owner[k] # t
  BY Zenon DEF ThreadType, RequestInv
<1>2. /\ reply' \in [Threads -> Replies]
      /\ \A u \in Threads \ {t} : reply'[u] = reply[u]
      /\ tpc[t] = "posted" => reply'[t] = [code |-> 202, job |-> j]
      /\ tpc[t] # "posted" => reply'[t] = NoReply
  <2>1. CASE tpc[t] = "posted"
    BY <1>1, <2>1 DEF ThreadType, Replies
  <2>2. CASE tpc[t] # "posted"
    BY Zenon, <1>1, <2>2 DEF ThreadType
  <2> QED BY Zenon, <2>1, <2>2
<1>3. \A u \in Threads : Path(u)' = Path(u) /\ Asked(u)' = Asked(u)
  BY Zenon, SameRequest
<1>4. /\ owner' \in [Jobs -> Threads \cup {None}] /\ owner[j] = None
      /\ \A k \in Jobs : owner'[k] = IF k = j THEN t ELSE owner[k]
  BY Zenon, <1>1 DEF ThreadType, DrawId
<1>5. /\ jobs_' \in [Jobs -> JobResultSet(Payloads)]
      /\ \A k \in Jobs \ {j} : jobs_'[k] = jobs_[k]
  BY ZenonT(30) DEF ThreadType, create, JobResultSet, JobStatus
<1>6. ToInt(Asked(t)) \in Int /\ ToInt(Asked(t)) > 0
  <2>1. CASE msg[t] \in Messages
    BY Zenon, <1>1, <2>1, StartHasTimeout, ToIntType DEF AcceptsTimeout
  <2>2. CASE msg[t] \notin Messages
    BY Zenon, <1>1, <2>2 DEF ThreadType, RequestInv
  <2> QED BY Zenon, <2>1, <2>2
<1>7. /\ timeout' \in [Jobs -> Int]
      /\ \A k \in Jobs : timeout'[k] = IF k = j THEN ToInt(Asked(t)) ELSE timeout[k]
  BY Zenon, <1>6 DEF ThreadType
<1>8. ThreadType'
  BY ZenonT(40), <1>2, <1>4, <1>5, <1>7 DEF ThreadType
<1>9. EventInv'
  BY SMTT(30), <1>4, <1>5, NoneAssumption DEF EventInv, Accepted
<1>10. RequestInv'
  BY SMTT(30), <1>1, <1>2, <1>3, <1>4, NoneAssumption
     DEF RequestInv, Unanswered, NoReply
<1>11. OwnerInv'
  BY <1>1, <1>2, <1>3, <1>4, <1>5, <1>6, <1>7, NoneAssumption
  DEF OwnerInv, Unanswered, exists
<1> QED BY Zenon, <1>8, <1>9, <1>10, <1>11

LEMMA ExecuteStep ==
  ASSUME GatewayInv, NEW t \in Threads, Execute(t)
  PROVE  GatewayInv'
<1>1. PICK code \in {200, 202, 400, 409} :
        \E j \in IF code = 202 THEN Jobs ELSE {None} :
          /\ code = 200 => Path(t) # "/start"
          /\ code = 202 =>
               /\ Path(t) = "/start"
               /\ AcceptsTimeout(Asked(t))
               /\ DrawId(j)
          /\ Path(t) = "/start" /\ ~AcceptsTimeout(Asked(t)) => code = 400
          /\ reply' = IF tpc[t] = "posted"
                      THEN [reply EXCEPT ![t] = [code |-> code, job |-> j]]
                      ELSE reply
          /\ IF code = 202
             THEN /\ jobs_' = create(jobs_, j)
                  /\ owner' = [owner EXCEPT ![j] = t]
                  /\ timeout' = [timeout EXCEPT ![j] = ToInt(Asked(t))]
             ELSE UNCHANGED <<jobs_, owner, timeout>>
  BY ZenonT(30) DEF Execute
<1>2. t \in wire /\ wire' = wire \ {t} /\ UNCHANGED <<inbox, tpc, msg, ev>>
  BY ZenonT(40) DEF Execute, mqttVars, threadVars
<1>3. CASE code = 202
  BY <1>1, <1>2, <1>3, ExecuteJob
<1>4. CASE code # 202
  <2>1. code \in {200, 400, 409}
    BY <1>4
  <2>2. /\ reply' = IF tpc[t] = "posted"
                   THEN [reply EXCEPT ![t] = [code |-> code, job |-> None]]
                   ELSE reply
        /\ UNCHANGED <<jobs_, owner, timeout>>
    BY <1>1, <1>4
  <2>3. UNCHANGED <<jobs_, inbox, tpc, msg, ev, owner, timeout>>
    BY Zenon, <1>2, <2>2
  <2>4. t \in wire /\ wire' = wire \ {t}
    BY Zenon, <1>2
  <2> QED BY <2>1, <2>2, <2>3, <2>4, ExecuteNoJob
<1> QED BY Zenon, <1>3, <1>4

-----------------------------------------------------------------------------
(* The thread after its call.                                              *)

\* The thread ends with its only event.
LEMMA EndsWith ==
  ASSUME GatewayInv, NEW t \in Threads, NEW e \in Events, Publish(t, e),
         Goto(t, "ended"), tpc[t] = "posted",
         e.type \notin {"job_accepted", "job_result"},
         t \in wire \/ (\E j \in Jobs : owner[j] = t) =>
           (Path(t) = "/start" => e.type = "job_rejected" /\ e.http_status = 0),
         reply' = [reply EXCEPT ![t] = NoReply],
         UNCHANGED <<jobs_, inbox, msg, wire, owner, timeout>>
  PROVE  GatewayInv'
<1> USE DEF GatewayInv
<1>1. Len(ev[t]) = 0
  BY Zenon DEF EventInv
<1>2. /\ ev' \in [Threads -> Seq(Events)]
      /\ \A u \in Threads \ {t} : ev'[u] = ev[u]
      /\ Len(ev'[t]) = 1 /\ ev'[t][1] = e
  <2>1. /\ ev' \in [Threads -> Seq(Events)]
        /\ \A u \in Threads \ {t} : ev'[u] = ev[u]
        /\ Len(ev'[t]) = Len(ev[t]) + 1 /\ ev'[t][Len(ev[t]) + 1] = e
    BY Zenon, PublishAdds
  <2>2. Len(ev[t]) + 1 = 1
    BY <1>1
  <2> QED BY Zenon, <2>1, <2>2
<1>3. \A u \in Threads : tpc'[u] = IF u = t THEN "ended" ELSE tpc[u]
  BY Zenon DEF Goto, ThreadType
<1>4. /\ reply' \in [Threads -> Replies]
      /\ \A u \in Threads : reply'[u] = IF u = t THEN NoReply ELSE reply[u]
  BY DEF ThreadType, Replies, NoReply
<1>5. \A u \in Threads : Path(u)' = Path(u) /\ Asked(u)' = Asked(u)
  BY Zenon, SameRequest
<1>6. ThreadType'
  BY Zenon, <1>2, <1>4 DEF ThreadType, Goto
<1>7. EventInv'
  <2> SUFFICES ASSUME NEW u \in Threads PROVE EventInv!(u)'
    BY Zenon DEF EventInv
  <2>1. CASE u = t
    <3>1. tpc'[t] = "ended"
      BY Zenon, <1>3
    <3>2. Len(ev'[t]) # 2 /\ ev'[t][1].type \notin {"job_accepted", "job_result"}
      BY SMTT(30), <1>2
    <3> QED BY Zenon, <1>2, <2>1, <3>1, <3>2
  <2>2. CASE u # t
    BY SMTT(30), <1>2, <1>3, <2>2 DEF EventInv, Accepted
  <2> QED BY ZenonT(30), <2>1, <2>2
<1>8. t \in wire \/ (\E j \in Jobs : owner[j] = t) => Unanswered(t)'
  BY Zenon, <1>2, <1>5 DEF Unanswered
<1>9. \A u \in Threads \ {t} : Unanswered(u)' = Unanswered(u)
  BY Zenon, <1>2, <1>3, <1>5 DEF Unanswered
<1>10. RequestInv'
  <2> SUFFICES ASSUME NEW u \in Threads PROVE RequestInv!(u)'
    BY Zenon DEF RequestInv
  <2>1. CASE u = t
    <3>1. tpc'[t] = "ended" /\ reply'[t] = NoReply
      BY Zenon, <1>3, <1>4
    <3>2. msg[t] \in Messages /\ (t \in wire => \A j \in Jobs : owner[j] # t)
      BY Zenon DEF RequestInv
    <3>3. Len(ev'[t]) # 2 /\ NoReply.code # 202
      BY SMTT(30), <1>2 DEF NoReply
    <3> QED BY SMTT(30), <1>8, <2>1, <3>1, <3>2, <3>3
  <2>2. CASE u # t
    BY SMTT(30), <1>2, <1>3, <1>4, <1>9, <2>2 DEF RequestInv
  <2> QED BY Zenon, <2>1, <2>2
<1>11. OwnerInv'
  <2> SUFFICES ASSUME NEW j \in Jobs PROVE OwnerInv!(j)'
    BY Zenon DEF OwnerInv
  <2>1. CASE owner[j] = t
    <3>1. tpc'[t] = "ended" /\ t # None
      BY Zenon, <1>3, NoneAssumption
    <3>2. /\ \A k \in Jobs : owner[k] = t => k = j
          /\ Path(t) = "/start" /\ timeout[j] = ToInt(Asked(t)) /\ timeout[j] > 0
      BY ZenonT(30), <2>1 DEF OwnerInv
    <3>3. Unanswered(t)'
      BY Zenon, <1>8, <2>1
    <3> QED BY Zenon, <1>5, <2>1, <3>1, <3>2, <3>3
  <2>2. CASE owner[j] # t
    BY SMTT(30), <1>3, <1>4, <1>5, <1>9, <2>2 DEF OwnerInv, exists
  <2> QED BY ZenonT(30), <2>1, <2>2
<1> QED BY Zenon, <1>6, <1>7, <1>10, <1>11

\* The thread announces the job it has been given, and polls.
LEMMA Announces ==
  ASSUME GatewayInv, NEW t \in Threads, NEW e \in Events, Publish(t, e),
         Goto(t, "poll"), tpc[t] = "posted",
         e.type = "job_accepted", e.job \in Jobs, owner[e.job] = t,
         reply' = [reply EXCEPT ![t] = NoReply],
         UNCHANGED <<jobs_, inbox, msg, wire, owner, timeout>>
  PROVE  GatewayInv'
<1> USE DEF GatewayInv
<1>1. Len(ev[t]) = 0 /\ t \notin wire
  BY Zenon DEF EventInv, RequestInv
<1>2. /\ ev' \in [Threads -> Seq(Events)]
      /\ \A u \in Threads \ {t} : ev'[u] = ev[u]
      /\ Len(ev'[t]) = 1 /\ ev'[t][1] = e
  <2>1. /\ ev' \in [Threads -> Seq(Events)]
        /\ \A u \in Threads \ {t} : ev'[u] = ev[u]
        /\ Len(ev'[t]) = Len(ev[t]) + 1 /\ ev'[t][Len(ev[t]) + 1] = e
    BY Zenon, PublishAdds
  <2>2. Len(ev[t]) + 1 = 1
    BY <1>1
  <2> QED BY Zenon, <2>1, <2>2
<1>3. \A u \in Threads : tpc'[u] = IF u = t THEN "poll" ELSE tpc[u]
  BY Zenon DEF Goto, ThreadType
<1>4. /\ reply' \in [Threads -> Replies]
      /\ \A u \in Threads : reply'[u] = IF u = t THEN NoReply ELSE reply[u]
  BY SMTT(30) DEF ThreadType, Replies, NoReply
<1>5. \A u \in Threads : Path(u)' = Path(u) /\ Asked(u)' = Asked(u)
  BY Zenon, SameRequest
<1>6. ThreadType'
  BY Zenon, <1>2, <1>4 DEF ThreadType, Goto
<1>7. EventInv'
  <2> SUFFICES ASSUME NEW u \in Threads PROVE EventInv!(u)'
    BY ZenonT(30) DEF EventInv
  <2>1. CASE u = t
    BY Zenon, <1>2, <1>3, <2>1 DEF Accepted
  <2>2. CASE u # t
    BY SMTT(30), <1>2, <1>3, <2>2 DEF EventInv, Accepted
  <2> QED BY Zenon, <2>1, <2>2
<1>8. RequestInv'
  BY SMTT(30), <1>1, <1>2, <1>3, <1>4, <1>5 DEF RequestInv, Unanswered, NoReply
<1>9. OwnerInv'
  BY SMTT(30), <1>2, <1>3, <1>4, <1>5 DEF OwnerInv, Unanswered, exists
<1> QED BY Zenon, <1>6, <1>7, <1>8, <1>9

\* The thread has an answer, or has given up waiting for one.
LEMMA ContinueStep ==
  ASSUME GatewayInv, NEW t \in Threads, NEW sc \in Int, NEW job \in Jobs \cup {None},
         tpc[t] = "posted", Continue(t, sc, job),
         sc = 202 => job \in Jobs /\ owner[job] = t,
         sc # 0 /\ sc # 202 => t \notin wire /\ \A j \in Jobs : owner[j] # t,
         reply' = [reply EXCEPT ![t] = NoReply],
         UNCHANGED <<jobs_, inbox, msg, wire, owner, timeout>>
  PROVE  GatewayInv'
<1>1. CASE Path(t) # "/start"
  <2> DEFINE e == Event(AckType(t), sc, None, NoResult)
  <2>1. Publish(t, e) /\ Goto(t, "ended")
    BY Zenon, <1>1 DEF Continue
  <2>2. e \in Events /\ e.type \notin {"job_accepted", "job_result"}
    BY Zenon DEF Event, Events, AckType
  <2>3. t \in wire \/ (\E j \in Jobs : owner[j] = t) =>
          (Path(t) = "/start" => e.type = "job_rejected" /\ e.http_status = 0)
    BY Zenon, <1>1
  <2> HIDE DEF e
  <2> QED BY ZenonT(30), <2>1, <2>2, <2>3, EndsWith
<1>2. CASE Path(t) = "/start" /\ sc # 202
  <2> DEFINE e == Event("job_rejected", sc, None, NoResult)
  <2>1. Publish(t, e) /\ Goto(t, "ended")
    BY Zenon, <1>2 DEF Continue
  <2>2. e \in Events /\ e.type = "job_rejected" /\ e.http_status = sc
    BY Zenon DEF Event, Events
  <2>3. t \in wire \/ (\E j \in Jobs : owner[j] = t) => sc = 0
    BY Zenon, <1>2
  <2> HIDE DEF e
  <2> QED BY ZenonT(30), <2>1, <2>2, <2>3, EndsWith
<1>3. CASE Path(t) = "/start" /\ sc = 202
  <2> DEFINE e == Event("job_accepted", sc, job, NoResult)
  <2>1. Publish(t, e) /\ Goto(t, "poll")
    BY Zenon, <1>3 DEF Continue
  <2>2. e \in Events /\ e.type = "job_accepted" /\ e.job = job
    BY Zenon DEF Event, Events
  <2>3. job \in Jobs /\ owner[job] = t
    BY Zenon, <1>3
  <2> HIDE DEF e
  <2> QED BY ZenonT(30), <2>1, <2>2, <2>3, Announces
<1> QED BY Zenon, <1>1, <1>2, <1>3

LEMMA AnsweredStep ==
  ASSUME GatewayInv, NEW t \in Threads, Answered(t)
  PROVE  GatewayInv'
<1>1. /\ tpc[t] = "posted" /\ reply[t] # NoReply
      /\ Continue(t, reply[t].code, reply[t].job)
      /\ reply' = [reply EXCEPT ![t] = NoReply]
      /\ UNCHANGED <<jobs_, inbox, msg, wire, owner, timeout>>
  BY Zenon DEF Answered, mqttVars
<1>2. reply[t].code \in Int /\ reply[t].job \in Jobs \cup {None}
  <2>1. reply[t] \in Replies
    BY Zenon DEF GatewayInv, ThreadType
  <2> QED BY <2>1 DEF Replies
<1>3. /\ t \notin wire
      /\ reply[t].code = 202 => reply[t].job \in Jobs /\ owner[reply[t].job] = t
  BY <1>1 DEF GatewayInv, RequestInv
<1>4. reply[t].code # 202 => \A j \in Jobs : owner[j] # t
  <2>1. ASSUME NEW j \in Jobs, owner[j] = t PROVE reply[t].code = 202
    <3>1. reply[t] = [code |-> 202, job |-> j]
      BY ZenonT(30), <1>1, <2>1 DEF GatewayInv, OwnerInv
    <3> QED BY SMTT(30), <3>1
  <2> QED BY Zenon, <2>1
<1> DEFINE sc == reply[t].code
           job == reply[t].job
<1>5. /\ sc \in Int /\ job \in Jobs \cup {None} /\ Continue(t, sc, job)
      /\ sc = 202 => job \in Jobs /\ owner[job] = t
      /\ sc # 0 /\ sc # 202 => t \notin wire /\ \A j \in Jobs : owner[j] # t
  BY Zenon, <1>1, <1>2, <1>3, <1>4
<1> HIDE DEF sc, job
<1> QED BY ZenonT(30), <1>1, <1>5, ContinueStep

LEMMA HttpFailsStep ==
  ASSUME GatewayInv, NEW t \in Threads, HttpFails(t)
  PROVE  GatewayInv'
<1>1. /\ tpc[t] = "posted" /\ Continue(t, 0, None)
      /\ reply' = [reply EXCEPT ![t] = NoReply]
      /\ UNCHANGED <<jobs_, inbox, msg, wire, owner, timeout>>
  BY Zenon DEF HttpFails, mqttVars
<1> DEFINE sc == 0
<1>2. sc \in Int /\ sc # 202 /\ sc = 0 /\ Continue(t, sc, None)
  BY <1>1
<1> HIDE DEF sc
<1> QED BY ZenonT(30), <1>1, <1>2, ContinueStep

\* The poll loop ends with a job_result about the job announced.
LEMMA ResultStep ==
  ASSUME GatewayInv, NEW t \in Threads, NEW e \in Events, Publish(t, e),
         Goto(t, "ended"), tpc[t] = "poll",
         e.type = "job_result", e.job = Job(t),
         e.http_status = 200 => /\ e.result = jobs_[Job(t)]
                                /\ e.result.status \in Terminal,
         UNCHANGED <<jobs_, inbox, msg, wire, reply, owner, timeout>>
  PROVE  GatewayInv'
<1> USE DEF GatewayInv
<1>1. Len(ev[t]) = 1 /\ Accepted(t) /\ t \notin wire
  BY Zenon DEF EventInv, RequestInv
<1>2. /\ ev' \in [Threads -> Seq(Events)]
      /\ \A u \in Threads \ {t} : ev'[u] = ev[u]
      /\ Len(ev'[t]) = 2 /\ ev'[t][1] = ev[t][1] /\ ev'[t][2] = e
  <2>1. /\ ev' \in [Threads -> Seq(Events)]
        /\ \A u \in Threads \ {t} : ev'[u] = ev[u]
        /\ Len(ev'[t]) = Len(ev[t]) + 1 /\ ev'[t][Len(ev[t]) + 1] = e
        /\ \A i \in 1 .. Len(ev[t]) : ev'[t][i] = ev[t][i]
    BY Zenon, PublishAdds
  <2>2. Len(ev[t]) + 1 = 2 /\ 1 \in 1 .. Len(ev[t])
    BY SMTT(30), <1>1
  <2> QED BY Zenon, <2>1, <2>2
<1>3. \A u \in Threads : tpc'[u] = IF u = t THEN "ended" ELSE tpc[u]
  BY Zenon DEF Goto, ThreadType
<1>4. \A u \in Threads : Path(u)' = Path(u) /\ Asked(u)' = Asked(u)
  BY Zenon, SameRequest
<1>5. ThreadType'
  BY ZenonT(30), <1>2 DEF ThreadType, Goto
<1>6. EventInv'
  <2> SUFFICES ASSUME NEW u \in Threads PROVE EventInv!(u)'
    BY ZenonT(30) DEF EventInv
  <2>1. CASE u = t
    <3>1. tpc'[t] = "ended" /\ Accepted(t)'
      BY Zenon, <1>1, <1>2, <1>3 DEF Accepted
    <3>2. e.job = ev[t][1].job
      BY Zenon DEF Job
    <3>3. e.http_status = 200 => jobs_[ev[t][1].job] = e.result
      BY Zenon DEF Job
    <3> QED BY ZenonT(30), <1>2, <2>1, <3>1, <3>2, <3>3
  <2>2. CASE u # t
    BY SMTT(30), <1>2, <1>3, <2>2 DEF EventInv, Accepted
  <2> QED BY Zenon, <2>1, <2>2
<1>7. RequestInv'
  BY SMTT(30), <1>1, <1>2, <1>3, <1>4 DEF RequestInv, Unanswered
<1>8. OwnerInv'
  BY SMTT(30), <1>1, <1>2, <1>3, <1>4 DEF OwnerInv, Unanswered, exists
<1> QED BY Zenon, <1>5, <1>6, <1>7, <1>8

LEMMA PollStep ==
  ASSUME GatewayInv, NEW t \in Threads, Poll(t) \/ PollTimeout(t)
  PROVE  GatewayInv'
<1>1. tpc[t] = "poll" /\ Goto(t, "ended")
  BY Zenon DEF Poll, PollTimeout
<1>2. UNCHANGED <<jobs_, inbox, msg, wire, reply, owner, timeout>>
  BY Zenon DEF Poll, PollTimeout, mqttVars, httpVars
<1>3. Job(t) \in Jobs /\ jobs_[Job(t)] \in JobResultSet(Payloads)
  BY ZenonT(30), <1>1 DEF GatewayInv, EventInv, Accepted, Job, ThreadType
<1>4. CASE Poll(t)
  <2> DEFINE e == Event("job_result", 200, Job(t), jobs_[Job(t)])
  <2>1. Publish(t, e) /\ jobs_[Job(t)].status \in Terminal
    BY Zenon, <1>4 DEF Poll
  <2>2. e \in Events /\ e.type = "job_result" /\ e.job = Job(t) /\ e.result = jobs_[Job(t)]
    BY SMTT(30), <1>3 DEF Event, Events
  <2> HIDE DEF e
  <2> QED BY Zenon, <1>1, <1>2, <2>1, <2>2, ResultStep
<1>5. CASE PollTimeout(t)
  <2> DEFINE e == Event("job_result", 0, Job(t), [status |-> "TIMEOUT", qr |-> {}])
  <2>1. Publish(t, e)
    BY Zenon, <1>5 DEF PollTimeout
  <2>2. [status |-> "TIMEOUT", qr |-> {}] \in JobResultSet(Payloads)
    BY Zenon DEF JobResultSet, JobStatus
  <2>3. e \in Events /\ e.type = "job_result" /\ e.job = Job(t) /\ e.http_status # 200
    BY <1>3, <2>2 DEF Event, Events
  <2> HIDE DEF e
  <2> QED BY ZenonT(30), <1>1, <1>2, <2>1, <2>3, ResultStep
<1> QED BY Zenon, <1>4, <1>5

LEMMA GatewayStep == GatewayInv /\ [Next]_vars => GatewayInv'
<1> SUFFICES ASSUME GatewayInv, [Next]_vars PROVE GatewayInv'
  BY Zenon
<1>1. inbox \in Seq(Messages)
  BY Zenon DEF GatewayInv, ThreadType
<1>2. ASSUME NEW m \in Messages, CloudSends(m) PROVE GatewayInv'
  <2>1. inbox' \in Seq(Messages)
    BY <1>1, <1>2 DEF CloudSends
  <2>2. UNCHANGED <<jobs_, tpc, msg, ev, wire, reply, owner, timeout>>
    BY Zenon, <1>2 DEF CloudSends, threadVars, httpVars
  <2> QED BY Zenon, <2>1, <2>2, BrokerStep
<1>3. CASE ConnectionLost \/ Reconnect \/ on_connect \/ Quiet \/ UNCHANGED vars
  <2>1. inbox' \in Seq(Messages)
    <3>1. ConnectionLost => inbox' = << >>
      BY Zenon DEF ConnectionLost
    <3>2. Reconnect \/ on_connect \/ Quiet \/ UNCHANGED vars => inbox' = inbox
      BY Zenon DEF Reconnect, on_connect, Quiet, vars, mqttVars
    <3>3. << >> \in Seq(Messages)
      OBVIOUS
    <3>4. inbox' \in {<< >>, inbox}
      BY Zenon, <1>3, <3>1, <3>2
    <3> QED BY Zenon, <1>1, <3>3, <3>4
  <2>2. UNCHANGED <<jobs_, tpc, msg, ev, wire, reply, owner, timeout>>
    BY Zenon, <1>3
    DEF ConnectionLost, Reconnect, on_connect, Quiet, vars, threadVars, httpVars
  <2> QED BY Zenon, <2>1, <2>2, BrokerStep
<1>4. ASSUME NEW t \in Threads, on_message(t) \/ ThreadStep(t) \/ Execute(t)
      PROVE  GatewayInv'
  BY Zenon, <1>4, MessageStep, PostStep, AnsweredStep, HttpFailsStep, PollStep, ExecuteStep
  DEF ThreadStep
<1> QED BY Zenon, <1>2, <1>3, <1>4, JobEndsStep, RestartStep DEF Next

(***************************************************************************)
(* The invariant the results below are read off from: the events of a      *)
(* thread, its request and the job it owns fit together, whatever order    *)
(* requests, late replies and failures come in.                            *)
(***************************************************************************)
THEOREM GatewayInvariant == Spec => []GatewayInv
BY GatewayInit, GatewayStep, PTL DEF Spec

\* What is known of the thread that owns a job.
LEMMA OwnerFacts ==
  ASSUME GatewayInv, NEW j \in Jobs, NEW t \in Threads, owner[j] = t
  PROVE  /\ \A k \in Jobs : owner[k] = t => k = j
         /\ tpc[t] # "idle" /\ Path(t) = "/start" /\ Unanswered(t)
         /\ timeout[j] = ToInt(Asked(t)) /\ timeout[j] > 0
<1>1. OwnerInv!(j)
  BY Zenon DEF GatewayInv, OwnerInv
<1> QED BY ZenonT(30), <1>1

\* The events of a thread are its first and, after a poll, its second.
LEMMA EventsOf ==
  ASSUME GatewayInv, NEW t \in Threads, NEW e \in Published(t)
  PROVE  \/ e = ev[t][1] /\ Len(ev[t]) = 1
         \/ e = ev[t][1] /\ Len(ev[t]) = 2 /\ tpc[t] = "ended"
         \/ e = ev[t][2] /\ Len(ev[t]) = 2 /\ tpc[t] = "ended"
<1>1. PICK i \in DOMAIN ev[t] : e = ev[t][i]
  BY Zenon DEF Published
<1>2. ev[t] \in Seq(Events) /\ DOMAIN ev[t] = 1 .. Len(ev[t])
  BY DEF GatewayInv, ThreadType
<1>3. /\ tpc[t] \in {"idle", "post", "posted", "poll", "ended"}
      /\ Len(ev[t]) \in {0, 1} \/ (Len(ev[t]) = 2 /\ tpc[t] = "ended")
  <2>1. tpc[t] \in {"idle", "post", "posted", "poll", "ended"}
    BY Zenon DEF GatewayInv, ThreadType
  <2> QED BY Zenon, <2>1 DEF GatewayInv, EventInv
<1>4. Len(ev[t]) = 0 => i \notin DOMAIN ev[t]
  BY <1>2
<1>5. Len(ev[t]) = 1 => i = 1
  BY SMTT(30), <1>1, <1>2
<1>6. Len(ev[t]) = 2 => i = 1 \/ i = 2
  BY <1>1, <1>2
<1> QED BY Zenon, <1>1, <1>3, <1>4, <1>5, <1>6

(***************************************************************************)
(* A delivery of a command starts at most one job, and its thread          *)
(* announces its own: no POST is repeated, and replies do not cross        *)
(* (http_post).  Nothing is said of a command that is delivered twice.     *)
(***************************************************************************)
THEOREM OneJob == Spec => []OneJobPerDelivery
<1>1. GatewayInv => OneJobPerDelivery
  <2> SUFFICES ASSUME GatewayInv PROVE OneJobPerDelivery
    BY Zenon
  <2>1. \A j, k \in Jobs : owner[j] = owner[k] /\ owner[j] # None => j = k
    BY Zenon, OwnerFacts DEF GatewayInv, ThreadType
  <2>2. ASSUME NEW t \in Threads, NEW e \in Published(t), e.type = "job_accepted"
        PROVE  e.job \in Jobs /\ owner[e.job] = t
    <3>1. \/ e = ev[t][1] /\ Len(ev[t]) = 1
          \/ e = ev[t][1] /\ Len(ev[t]) = 2 /\ tpc[t] = "ended"
          \/ e = ev[t][2] /\ Len(ev[t]) = 2 /\ tpc[t] = "ended"
      BY Zenon, EventsOf
    <3>2. tpc[t] \in {"idle", "post", "posted", "poll", "ended"}
      BY Zenon DEF GatewayInv, ThreadType
    <3> QED BY SMTT(30), <2>2, <3>1, <3>2 DEF GatewayInv, EventInv, Accepted
  <2> QED BY Zenon, <2>1, <2>2 DEF OneJobPerDelivery
<1> QED BY <1>1, GatewayInvariant, PTL

(***************************************************************************)
(* A job_result taken from qr-c is final and stays what qr-c shows, and is *)
(* about the job announced (handle_start_and_poll).                        *)
(***************************************************************************)
THEOREM TrueResults == Spec => []ResultIsTrue
<1>1. GatewayInv => ResultIsTrue
  <2> SUFFICES ASSUME GatewayInv, NEW t \in Threads, NEW e \in Published(t),
                      e.type = "job_result", e.http_status = 200
               PROVE  /\ e.job = Job(t) /\ ev[t][1].type = "job_accepted"
                      /\ e.result.status \in Terminal
                      /\ jobs_[e.job] \in {e.result, Absent}
    BY ZenonT(40) DEF ResultIsTrue
  <2>1. \/ e = ev[t][1] /\ Len(ev[t]) = 1
        \/ e = ev[t][1] /\ Len(ev[t]) = 2 /\ tpc[t] = "ended"
        \/ e = ev[t][2] /\ Len(ev[t]) = 2 /\ tpc[t] = "ended"
    BY Zenon, EventsOf
  <2>2. tpc[t] \in {"idle", "post", "posted", "poll", "ended"}
    BY SMTT(30) DEF GatewayInv, ThreadType
  <2>3. e = ev[t][2] /\ Len(ev[t]) = 2 /\ tpc[t] = "ended"
    BY SMTT(30), <2>1, <2>2 DEF GatewayInv, EventInv, Accepted
  <2> QED BY SMTT(30), <2>3 DEF GatewayInv, EventInv, Accepted, Job
<1> QED BY <1>1, GatewayInvariant, PTL

(***************************************************************************)
(* A job whose command was answered job_rejected was answered with status  *)
(* 0: only a failed HTTP call leaves a job nobody is told of.              *)
(***************************************************************************)
THEOREM SilentJobs == Spec => []SilentJobHadNoReply
<1>1. GatewayInv => SilentJobHadNoReply
  <2> SUFFICES ASSUME GatewayInv, NEW j \in Jobs, NEW t \in Threads,
                      owner[j] = t, tpc[t] = "ended"
               PROVE  \/ ev[t][1].type = "job_accepted" /\ ev[t][1].job = j
                      \/ ev[t][1].type = "job_rejected" /\ ev[t][1].http_status = 0
    <3>1. ASSUME NEW t \in Threads, GatewayInv, tpc[t] = "ended"
          PROVE  ev[t][1] \in Published(t)
      <4>1. ev[t] \in Seq(Events) /\ Len(ev[t]) \in {1, 2}
        BY ZenonT(30), <3>1 DEF GatewayInv, ThreadType, EventInv
      <4> QED BY SMTT(30), <4>1 DEF Published
    <3> QED BY Zenon, <3>1 DEF SilentJobHadNoReply
  <2>1. CASE Len(ev[t]) = 2
    <3>1. Accepted(t)
      BY ZenonT(30), <2>1 DEF GatewayInv, EventInv
    <3> QED BY ZenonT(30), <3>1, OwnerFacts DEF Accepted
  <2>2. CASE Len(ev[t]) # 2
    BY Zenon, <2>2, OwnerFacts DEF Unanswered
  <2> QED BY Zenon, <2>1, <2>2
<1> QED BY <1>1, GatewayInvariant, PTL

(***************************************************************************)
(* The timeout a job gets is a positive int, and it is the one asked for   *)
(* when that is an int, whatever the width of int (RestServer.cpp:289).    *)
(***************************************************************************)
THEOREM TimeoutsInRange == Spec => []TimeoutInRange
<1>1. GatewayInv => TimeoutInRange
  <2> SUFFICES ASSUME GatewayInv, NEW j \in Jobs, owner[j] # None
               PROVE  /\ timeout[j] \in 1 .. IntMax - 1
                      /\ Asked(owner[j]) \in -IntMax .. IntMax - 1 =>
                           timeout[j] = Asked(owner[j])
    BY Zenon DEF TimeoutInRange
  <2>1. owner[j] \in Threads
    BY Zenon DEF GatewayInv, ThreadType
  <2>2. /\ timeout[j] > 0 /\ timeout[j] = ToInt(Asked(owner[j]))
        /\ tpc[owner[j]] # "idle" /\ Path(owner[j]) = "/start"
    BY Zenon, <2>1, OwnerFacts
  <2>3. Asked(owner[j]) \in Int
    BY Zenon, <2>1, <2>2, StartHasTimeout DEF GatewayInv, RequestInv
  <2>4. timeout[j] \in -IntMax .. IntMax - 1
    BY Zenon, <2>2, <2>3, ToIntRange
  <2>5. timeout[j] \in 1 .. IntMax - 1
    BY <2>2, <2>4, IntAssumption
  <2> QED BY Zenon, <2>2, <2>3, <2>5, ToIntKeeps
<1> QED BY <1>1, GatewayInvariant, PTL

-----------------------------------------------------------------------------
(* The types of what the invariant leaves out.                             *)

LinkType ==
  /\ sent \in 0 .. MaxSent /\ drops \in 0 .. MaxDrops /\ restarts \in 0 .. MaxRestarts
  /\ connected \in BOOLEAN /\ subscribed \in BOOLEAN

IntTimeouts == timeout \in [Jobs -> -IntMax .. IntMax - 1]

LEMMA LinkInit == Init => LinkType /\ IntTimeouts
<1> SUFFICES ASSUME Init PROVE LinkType /\ IntTimeouts
  BY Zenon
<1>1. 0 \in 0 .. MaxSent /\ 0 \in 0 .. MaxDrops /\ 0 \in 0 .. MaxRestarts
  BY BoundAssumption
<1>2. 0 \in -IntMax .. IntMax - 1
  BY IntAssumption
<1> QED BY Zenon, <1>1, <1>2 DEF Init, LinkType, IntTimeouts

LEMMA LinkStep == LinkType /\ [Next]_vars => LinkType'
<1> SUFFICES ASSUME LinkType, [Next]_vars PROVE LinkType'
  BY Zenon
<1>1. ASSUME NEW m \in Messages, CloudSends(m) PROVE LinkType'
  <2>1. sent' \in 0 .. MaxSent
    BY <1>1, BoundAssumption DEF CloudSends, LinkType
  <2>2. UNCHANGED <<drops, restarts, connected, subscribed>>
    BY Zenon, <1>1 DEF CloudSends, httpVars
  <2> QED BY Zenon, <2>1, <2>2 DEF LinkType
<1>2. CASE ConnectionLost
  <2>1. drops' \in 0 .. MaxDrops
    BY <1>2, BoundAssumption DEF ConnectionLost, LinkType
  <2>2. UNCHANGED <<sent, restarts>> /\ ~connected' /\ ~subscribed'
    BY Zenon, <1>2 DEF ConnectionLost, httpVars
  <2>3. connected' \in BOOLEAN /\ subscribed' \in BOOLEAN
    BY Zenon, <1>2 DEF ConnectionLost
  <2> QED BY Zenon, <2>1, <2>2, <2>3 DEF LinkType
<1>3. CASE Reconnect \/ on_connect
  <2>1. UNCHANGED <<sent, drops, restarts>>
    BY Zenon, <1>3 DEF Reconnect, on_connect, httpVars
  <2>2. connected' \in BOOLEAN /\ subscribed' \in BOOLEAN
    BY Zenon, <1>3 DEF Reconnect, on_connect, LinkType
  <2> QED BY Zenon, <2>1, <2>2 DEF LinkType
<1>4. CASE Restart
  <2>1. restarts' \in 0 .. MaxRestarts
    BY <1>4, BoundAssumption DEF Restart, LinkType
  <2>2. UNCHANGED <<sent, drops, connected, subscribed>>
    BY Zenon, <1>4 DEF Restart, mqttVars
  <2> QED BY Zenon, <2>1, <2>2 DEF LinkType
<1>5. ASSUME UNCHANGED <<sent, drops, restarts, connected, subscribed>> PROVE LinkType'
  BY Zenon, <1>5 DEF LinkType
<1>6. ASSUME NEW t \in Threads, on_message(t) \/ ThreadStep(t) \/ Execute(t)
      PROVE  UNCHANGED <<sent, drops, restarts, connected, subscribed>>
  BY Zenon, <1>6
  DEF on_message, ThreadStep, Post, Answered, HttpFails, Poll, PollTimeout, Execute,
      mqttVars, httpVars
<1>7. ASSUME JobEnds \/ Quiet \/ UNCHANGED vars
      PROVE  UNCHANGED <<sent, drops, restarts, connected, subscribed>>
  BY Zenon, <1>7 DEF JobEnds, Quiet, vars, mqttVars, httpVars
<1> QED BY Zenon, <1>1, <1>2, <1>3, <1>4, <1>5, <1>6, <1>7 DEF Next

\* A timeout is stored by Execute alone, as the int that ToInt makes of it.
LEMMA TimeoutStep == GatewayInv /\ IntTimeouts /\ [Next]_vars => IntTimeouts'
<1> SUFFICES ASSUME GatewayInv, IntTimeouts, [Next]_vars PROVE IntTimeouts'
  BY Zenon
<1>1. ASSUME NEW t \in Threads, Execute(t) PROVE IntTimeouts'
  <2>1. CASE timeout' = timeout
    BY Zenon, <2>1 DEF IntTimeouts
  <2>2. CASE timeout' # timeout
    <3>1. PICK j \in Jobs : /\ Path(t) = "/start"
                            /\ timeout' = [timeout EXCEPT ![j] = ToInt(Asked(t))]
      BY SMTT(30), <1>1, <2>2 DEF Execute
    <3>2. t \in wire
      BY Zenon, <1>1 DEF Execute
    <3>3. msg[t] \in Messages
      <4>1. tpc[t] # "idle"
        BY Zenon, <3>2 DEF GatewayInv, RequestInv
      <4> QED BY Zenon, <4>1 DEF GatewayInv, RequestInv
    <3>4. ToInt(Asked(t)) \in -IntMax .. IntMax - 1
      BY Zenon, <3>1, <3>3, StartHasTimeout, ToIntRange
    <3> QED BY SMT, <3>1, <3>4 DEF IntTimeouts
  <2> QED BY Zenon, <2>1, <2>2
<1>2. ASSUME timeout' = timeout PROVE IntTimeouts'
  BY Zenon, <1>2 DEF IntTimeouts
<1>3. ASSUME NEW m \in Messages, CloudSends(m) PROVE timeout' = timeout
  BY Zenon, <1>3 DEF CloudSends, httpVars
<1>4. ASSUME NEW t \in Threads, on_message(t) \/ ThreadStep(t) PROVE timeout' = timeout
  BY Zenon, <1>4
  DEF on_message, ThreadStep, Post, Answered, HttpFails, Poll, PollTimeout, httpVars
<1>5. ASSUME \/ ConnectionLost \/ Reconnect \/ on_connect
             \/ JobEnds \/ Restart \/ Quiet \/ UNCHANGED vars
      PROVE  timeout' = timeout
  BY Zenon, <1>5
  DEF ConnectionLost, Reconnect, on_connect, JobEnds, Restart, Quiet, vars, httpVars
<1> QED BY Zenon, <1>1, <1>2, <1>3, <1>4, <1>5 DEF Next

(***************************************************************************)
(* Every variable keeps its type: an HTTP status a thread may be handed,   *)
(* an event type the cloud knows, a timeout_ms that is an int after the    *)
(* cast in the /start handler.                                             *)
(***************************************************************************)
THEOREM GatewayTypes == Spec => []TypeOK
<1>1. GatewayInv /\ LinkType /\ IntTimeouts => TypeOK
  <2> SUFFICES ASSUME GatewayInv, LinkType, IntTimeouts PROVE TypeOK
    BY Zenon
  <2>1. ASSUME NEW t \in Threads, NEW e \in Published(t)
        PROVE  /\ e.type \in {"error", "command_ack", "stop_ack", "job_rejected",
                              "job_accepted", "job_result"}
               /\ e.job \in Jobs \cup {None}
    <3>1. PICK i \in DOMAIN ev[t] : e = ev[t][i]
      BY Zenon, <2>1 DEF Published
    <3>2. ev[t] \in Seq(Events)
      BY Zenon DEF GatewayInv, ThreadType
    <3>3. e \in Events
      BY <3>1, <3>2
    <3> QED BY <3>3 DEF Events
  <2> QED BY Zenon, <2>1 DEF TypeOK, GatewayInv, ThreadType, Replies, LinkType, IntTimeouts
<1> QED BY <1>1, LinkInit, LinkStep, TimeoutStep, GatewayInvariant, GatewayStep, PTL DEF Spec

\* A step of JobService, or a restart, after which there is no job.
StoreStep ==
  JobNext \/ (restarts' > restarts /\ \A j \in Jobs : ~exists(jobs_', j))

(***************************************************************************)
(* Between two restarts the jobs the gateway sees change only as           *)
(* JobService, which QrService implements, lets them: an id is not reused, *)
(* a result does not change (JobStore, gen_id).  A request executed late   *)
(* creates a job as any other does.                                        *)
(***************************************************************************)
QrcIsJobService == [][StoreStep]_jobs_

(***************************************************************************)
(* What the gateway takes qr-c to be is what QrService implements: every   *)
(* change of the store is a step of JobService or a restart.               *)
(***************************************************************************)
THEOREM QrcKeepsPromises == Spec => QrcIsJobService
<1>1. GatewayInv /\ LinkType /\ [Next]_vars => [StoreStep]_jobs_
  <2> SUFFICES ASSUME GatewayInv, LinkType, [Next]_vars PROVE [StoreStep]_jobs_
    BY Zenon
  <2>1. ASSUME NEW t \in Threads, Execute(t) PROVE JobNext \/ jobs_' = jobs_
    <3>1. jobs_' = jobs_ \/ \E j \in Jobs : DrawId(j) /\ jobs_' = create(jobs_, j)
      BY SMTT(30), <2>1 DEF Execute
    <3>2. \A j \in Jobs : DrawId(j) => ~exists(jobs_, j)
      BY Zenon DEF GatewayInv, OwnerInv, DrawId
    <3> QED BY Zenon, <3>1, <3>2 DEF JobNext, NewJob
  <2>2. CASE JobEnds
    BY Zenon, <2>2 DEF JobEnds, JobNext, StoreStep
  <2>3. ASSUME Restart
        PROVE  restarts' > restarts /\ \A j \in Jobs : ~exists(jobs_', j)
    BY <2>3 DEF Restart, exists, Absent, LinkType
  <2>4. ASSUME NEW t \in Threads, on_message(t) \/ ThreadStep(t) PROVE jobs_' = jobs_
    BY Zenon, <2>4
    DEF on_message, ThreadStep, Post, Answered, HttpFails, Poll, PollTimeout
  <2>5. ASSUME NEW m \in Messages, CloudSends(m) PROVE jobs_' = jobs_
    BY Zenon, <2>5 DEF CloudSends
  <2>6. ASSUME ConnectionLost \/ Reconnect \/ on_connect \/ Quiet \/ UNCHANGED vars
        PROVE  jobs_' = jobs_
    BY Zenon, <2>6 DEF ConnectionLost, Reconnect, on_connect, Quiet, vars
  <2> QED BY Zenon, <2>1, <2>2, <2>3, <2>4, <2>5, <2>6 DEF Next, StoreStep
<1> QED BY <1>1, LinkInit, LinkStep, GatewayInvariant, PTL DEF Spec, QrcIsJobService

=============================================================================
