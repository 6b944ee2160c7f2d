------------------------------- MODULE Gateway ------------------------------
(***************************************************************************)
(* gateway-py/gateway.py between an MQTT broker and qr-c: on_message       *)
(* validates a command and starts a thread for it; the thread calls qr-c   *)
(* over HTTP, polls if it has started a job, and publishes events.         *)
(*                                                                         *)
(* The broker loses what is published while the gateway is not subscribed  *)
(* and may deliver a command twice.  An HTTP call may fail before or after *)
(* qr-c has executed it, and a call given up may still be executed later.  *)
(* qr-c is JobService; it may restart, and then its jobs are gone.         *)
(***************************************************************************)
EXTENDS JobService, Integers, Sequences

CONSTANTS
  Threads,      \* the threads on_message may start: bounds the deliveries
  Messages,     \* what the cloud may publish
  IntMax,       \* 2^31: an int is in -IntMax .. IntMax - 1
  MaxSent,      \* bound: publications, repeated ones included
  MaxDrops,     \* bound: losses of the MQTT connection
  MaxRestarts,  \* bound: restarts of qr-c
  None

VARIABLES
  sent,        \* publications so far
  inbox,       \* commands the broker holds for the gateway
  connected, subscribed, drops,
  tpc,         \* where each thread is
  msg,         \* the command it serves
  ev,          \* the events it has published, oldest first
  wire,        \* threads whose request qr-c has not yet taken
  reply,       \* the reply on its way to each thread
  owner,       \* the thread whose request created each job
  timeout,     \* the timeout_ms JobRunner::start got for each job
  restarts

mqttVars == <<sent, inbox, connected, subscribed, drops>>
threadVars == <<tpc, msg, ev>>
httpVars == <<wire, reply, owner, timeout, restarts>>
vars == <<jobs_, mqttVars, threadVars, httpVars>>

\* The fields of a command on which on_message and qr-c branch.  timeout_ms is
\* what int() makes of the field or of its default, empty where int() raises.
Message ==
  [type : {"command", "start", "stop", "other"},
   command : {"", "START", "STOP", "INIT"},
   params : {"none", "good", "bad"},
   timeout_ms : SUBSET Int]

ASSUME MessageAssumption ==
  /\ Messages \subseteq Message
  /\ \A m \in Messages : \A a, b \in m.timeout_ms : a = b
ASSUME NoneAssumption == None \notin Jobs \cup Threads
ASSUME IntAssumption == IntMax \in Nat \ {0}
ASSUME BoundAssumption == MaxSent \in Nat /\ MaxDrops \in Nat /\ MaxRestarts \in Nat

NoReply == [code |-> -1, job |-> None]

NoResult == [status |-> "-", qr |-> {}]

\* An event; http_status 0 also where the event has no such field.
Event(type, sc, job, result) ==
  [type |-> type, http_status |-> sc, job |-> job, result |-> result]

Publish(t, e) == ev' = [ev EXCEPT ![t] = Append(@, e)]

Goto(t, l) == tpc' = [tpc EXCEPT ![t] = l]

-----------------------------------------------------------------------------
(* MQTT.                                                                   *)

\* The cloud publishes a command, or publishes it again.
CloudSends(m) ==
  /\ sent < MaxSent
  /\ sent' = sent + 1
  /\ inbox' = IF subscribed THEN Append(inbox, m) ELSE inbox
  /\ UNCHANGED <<jobs_, connected, subscribed, drops, threadVars, httpVars>>

\* The session is clean: subscription and undelivered commands are dropped.
ConnectionLost ==
  /\ connected /\ drops < MaxDrops
  /\ connected' = FALSE /\ subscribed' = FALSE /\ inbox' = << >>
  /\ drops' = drops + 1
  /\ UNCHANGED <<jobs_, sent, threadVars, httpVars>>

Reconnect ==
  /\ ~connected
  /\ connected' = TRUE
  /\ UNCHANGED <<jobs_, sent, inbox, subscribed, drops, threadVars, httpVars>>

SubscribeOnce ==
  /\ connected /\ ~subscribed /\ drops = 0
  /\ subscribed' = TRUE
  /\ UNCHANGED <<jobs_, sent, inbox, connected, drops, threadVars, httpVars>>

on_connect ==
  /\ connected /\ ~subscribed
  /\ subscribed' = TRUE
  /\ UNCHANGED <<jobs_, sent, inbox, connected, drops, threadVars, httpVars>>

\* What on_message makes of a command: the call a thread will make, or an error
\* event at once (bad request, unknown type, an exception from int()).
Route(b) ==
  LET start == IF b.timeout_ms = {} THEN "error" ELSE "/start"
  IN  CASE b.type = "start" -> start
        [] b.type = "stop"  -> "/stop"
        [] b.type = "other" -> "error"
        [] b.type = "command" /\ (b.command = "" \/ b.params = "bad") -> "error"
        [] OTHER -> CASE b.command = "START" -> start
                      [] b.command = "STOP"  -> "/stop"
                      [] OTHER               -> "/command"

on_message(t) ==
  /\ inbox # << >> /\ tpc[t] = "idle"
  /\ inbox' = Tail(inbox)
  /\ msg' = [msg EXCEPT ![t] = Head(inbox)]
  /\ IF Route(Head(inbox)) = "error"
     THEN Publish(t, Event("error", 0, None, NoResult)) /\ Goto(t, "ended")
     ELSE Goto(t, "post") /\ UNCHANGED ev
  /\ UNCHANGED <<jobs_, sent, connected, subscribed, drops, httpVars>>

-----------------------------------------------------------------------------
(* The HTTP call of thread t, and qr-c.                                    *)

Path(t) == Route(msg[t])

\* The timeout_ms that thread t puts into its /start.
Asked(t) == CHOOSE n \in msg[t].timeout_ms : TRUE

Post(t) ==
  /\ tpc[t] = "post"
  /\ Goto(t, "posted")
  /\ wire' = wire \cup {t}
  /\ UNCHANGED <<jobs_, mqttVars, msg, ev, reply, owner, timeout, restarts>>

NoNarrowing(n) == n

\* static_cast<int> of a JSON integer.
ToInt(n) == ((n + IntMax) % (2 * IntMax)) - IntMax

AcceptsBeforeCast(n) == n > 0

\* The test of /start: timeout_ms as an int is positive.
AcceptsTimeout(n) == ToInt(n) > 0

\* An id gen_id() may draw: one that no process of qr-c has used.
DrawId(j) == owner[j] = None

\* qr-c executes a request of t: /start creates a job and answers 202, or
\* refuses; the other paths answer.  409 stands for 500 and 503 too.  Nobody
\* may be waiting for the answer.
Execute(t) ==
  /\ t \in wire
  /\ wire' = wire \ {t}
  /\ \E code \in {200, 202, 400, 409} :
       \E j \in IF code = 202 THEN Jobs ELSE {None} :
         /\ code = 200 => Path(t) # "/start"
         /\ code = 202 =>
              /\ Path(t) = "/start"
              /\ AcceptsTimeout(Asked(t))
              /\ DrawId(j)
         /\ Path(t) = "/start" /\ ~AcceptsTimeout(Asked(t)) => code = 400
         /\ reply' = IF tpc[t] = "posted"
                     THEN [reply EXCEPT ![t] = [code |-> code, job |-> j]]
                     ELSE reply
         /\ IF code = 202
            THEN /\ jobs_' = create(jobs_, j)
                 /\ owner' = [owner EXCEPT ![j] = t]
                 /\ timeout' = [timeout EXCEPT ![j] = ToInt(Asked(t))]
            ELSE UNCHANGED <<jobs_, owner, timeout>>
  /\ UNCHANGED <<mqttVars, threadVars, restarts>>

\* A job of qr-c ends.
JobEnds == \E j \in Jobs : EndJob(j) /\ UNCHANGED <<mqttVars, threadVars, httpVars>>

\* qr-c restarts: its JobStore was in memory, and requests in progress are lost.
Restart ==
  /\ restarts < MaxRestarts
  /\ restarts' = restarts + 1
  /\ jobs_' = [j \in Jobs |-> Absent]
  /\ wire' = {}
  /\ UNCHANGED <<mqttVars, threadVars, reply, owner, timeout>>

-----------------------------------------------------------------------------
(* The thread after its call: sc is what http_post returned.               *)

AckType(t) == IF Path(t) = "/stop" THEN "stop_ack" ELSE "command_ack"

AcceptedOnlyIf200(t, sc, job) ==
  \/ /\ Path(t) # "/start"
     /\ Publish(t, Event(AckType(t), sc, None, NoResult)) /\ Goto(t, "ended")
  \/ /\ Path(t) = "/start" /\ sc # 200
     /\ Publish(t, Event("job_rejected", sc, None, NoResult)) /\ Goto(t, "ended")
  \/ /\ Path(t) = "/start" /\ sc = 200
     /\ Publish(t, Event("job_accepted", sc, job, NoResult)) /\ Goto(t, "poll")

Continue(t, sc, job) ==
  \/ /\ Path(t) # "/start"
     /\ Publish(t, Event(AckType(t), sc, None, NoResult)) /\ Goto(t, "ended")
  \/ /\ Path(t) = "/start" /\ sc # 202
     /\ Publish(t, Event("job_rejected", sc, None, NoResult)) /\ Goto(t, "ended")
  \/ /\ Path(t) = "/start" /\ sc = 202
     /\ Publish(t, Event("job_accepted", sc, job, NoResult)) /\ Goto(t, "poll")

Answered(t) ==
  /\ tpc[t] = "posted" /\ reply[t] # NoReply
  /\ Continue(t, reply[t].code, reply[t].job)
  /\ reply' = [reply EXCEPT ![t] = NoReply]
  /\ UNCHANGED <<jobs_, mqttVars, msg, wire, owner, timeout, restarts>>

RetryOnFailure(t) ==
  /\ tpc[t] = "posted"
  /\ Goto(t, "post")
  /\ reply' = [reply EXCEPT ![t] = NoReply]
  /\ UNCHANGED <<jobs_, mqttVars, msg, ev, wire, owner, timeout, restarts>>

\* http_post got no answer in time, or no connection: 0, ERR:HTTP.
HttpFails(t) ==
  /\ tpc[t] = "posted"
  /\ Continue(t, 0, None)
  /\ reply' = [reply EXCEPT ![t] = NoReply]
  /\ UNCHANGED <<jobs_, mqttVars, msg, wire, owner, timeout, restarts>>

Job(t) == ev[t][1].job

PollAnyStatus(t) ==
  /\ tpc[t] = "poll"
  /\ exists(jobs_, Job(t))
  /\ Publish(t, Event("job_result", 200, Job(t), jobs_[Job(t)]))
  /\ Goto(t, "ended")
  /\ UNCHANGED <<jobs_, mqttVars, msg, httpVars>>

\* GET /result shows a final status.  PENDING, 404 and a failed call change
\* nothing: the thread sleeps and asks again.
Poll(t) ==
  /\ tpc[t] = "poll"
  /\ jobs_[Job(t)].status \in Terminal
  /\ Publish(t, Event("job_result", 200, Job(t), jobs_[Job(t)]))
  /\ Goto(t, "ended")
  /\ UNCHANGED <<jobs_, mqttVars, msg, httpVars>>

PollForever(t) == FALSE

\* POLL_MAX_SECONDS have passed: TIMEOUT, ERR:POLL_TIMEOUT.
PollTimeout(t) ==
  /\ tpc[t] = "poll"
  /\ Publish(t, Event("job_result", 0, Job(t), [status |-> "TIMEOUT", qr |-> {}]))
  /\ Goto(t, "ended")
  /\ UNCHANGED <<jobs_, mqttVars, msg, httpVars>>

-----------------------------------------------------------------------------
Init ==
  /\ JobInit
  /\ sent = 0 /\ inbox = << >>
  /\ connected = TRUE /\ subscribed = FALSE /\ drops = 0
  /\ tpc = [t \in Threads |-> "idle"] /\ msg = [t \in Threads |-> None]
  /\ ev = [t \in Threads |-> << >>]
  /\ wire = {} /\ reply = [t \in Threads |-> NoReply]
  /\ owner = [j \in Jobs |-> None] /\ timeout = [j \in Jobs |-> 0]
  /\ restarts = 0

ThreadStep(t) == Post(t) \/ Answered(t) \/ HttpFails(t) \/ Poll(t) \/ PollTimeout(t)

\* No command is being served.
Quiet == (\A t \in Threads : tpc[t] \in {"idle", "ended"}) /\ UNCHANGED vars

Next ==
  \/ \E m \in Messages : CloudSends(m)
  \/ ConnectionLost \/ Reconnect \/ on_connect
  \/ \E t \in Threads : on_message(t) \/ ThreadStep(t) \/ Execute(t)
  \/ JobEnds \/ Restart
  \/ Quiet

\* Threads run, HTTP calls and polls have time limits, and paho reconnects.
\* Neither qr-c nor its jobs nor the cloud need do anything.
Fairness ==
  /\ WF_vars(Reconnect) /\ WF_vars(on_connect)
  /\ \A t \in Threads : WF_vars(ThreadStep(t))

Spec == Init /\ [][Next]_vars /\ Fairness

-----------------------------------------------------------------------------
Published(t) == {ev[t][i] : i \in DOMAIN ev[t]}

TypeOK ==
  /\ jobs_ \in [Jobs -> JobResultSet(Payloads)]
  /\ sent \in 0 .. MaxSent /\ inbox \in Seq(Messages)
  /\ connected \in BOOLEAN /\ subscribed \in BOOLEAN /\ drops \in 0 .. MaxDrops
  /\ tpc \in [Threads -> {"idle", "post", "posted", "poll", "ended"}]
  /\ msg \in [Threads -> Messages \cup {None}]
  /\ wire \subseteq Threads
  /\ reply \in [Threads -> [code : {-1, 200, 202, 400, 409}, job : Jobs \cup {None}]]
  /\ owner \in [Jobs -> Threads \cup {None}]
  /\ timeout \in [Jobs -> -IntMax .. IntMax - 1]
  /\ restarts \in 0 .. MaxRestarts
  /\ \A t \in Threads : \A e \in Published(t) :
       /\ e.type \in {"error", "command_ack", "stop_ack", "job_rejected",
                      "job_accepted", "job_result"}
       /\ e.job \in Jobs \cup {None}

(***************************************************************************)
(* A job_result that comes from qr-c (handle_start_and_poll, HTTP 200) is  *)
(* final and stays what GET /result shows, payload included, as long as    *)
(* that qr-c lives, and it is about the job announced in job_accepted.     *)
(***************************************************************************)
ResultIsTrue ==
  \A t \in Threads : \A e \in Published(t) :
    e.type = "job_result" /\ e.http_status = 200 =>
      /\ e.job = Job(t) /\ ev[t][1].type = "job_accepted"
      /\ e.result.status \in Terminal
      /\ jobs_[e.job] \in {e.result, Absent}

(***************************************************************************)
(* A delivery of a command, which is a thread of on_message, starts at     *)
(* most one job, and the job a thread announces is the one its own request *)
(* created: a POST whose reply is lost or late is not repeated             *)
(* (http_post), and requests of several threads, late ones included, are   *)
(* executed in any order.  A command that is delivered twice may start two *)
(* jobs: on_message does not look at its id.                               *)
(***************************************************************************)
OneJobPerDelivery ==
  /\ \A j, k \in Jobs : owner[j] = owner[k] /\ owner[j] # None => j = k
  /\ \A t \in Threads : \A e \in Published(t) :
       e.type = "job_accepted" => e.job \in Jobs /\ owner[e.job] = t

(***************************************************************************)
(* A job nobody is told of comes only from an HTTP call that failed: if    *)
(* the command behind a job was answered job_rejected, then with status 0  *)
(* (gateway.py:200 takes a lost reply for a refusal), never with a refusal *)
(* of qr-c.                                                                *)
(***************************************************************************)
SilentJobHadNoReply ==
  \A j \in Jobs : \A t \in Threads :
    owner[j] = t /\ tpc[t] = "ended" =>
      \E e \in Published(t) :
        \/ e.type = "job_accepted" /\ e.job = j
        \/ e.type = "job_rejected" /\ e.http_status = 0

(***************************************************************************)
(* A job never gets a timeout that is over when it starts, whatever was    *)
(* asked for, and the timeout is the one asked for when that is an int:    *)
(* /start tests timeout_ms after the conversion, which wraps around.       *)
(***************************************************************************)
TimeoutInRange ==
  \A j \in Jobs :
    LET n == Asked(owner[j])
    IN  owner[j] # None =>
          /\ timeout[j] \in 1 .. IntMax - 1
          /\ n \in -IntMax .. IntMax - 1 => timeout[j] = n

FinalEvent(t) ==
  /\ tpc[t] = "ended" /\ ev[t] # << >>
  /\ ev[t][Len(ev[t])].type # "job_accepted"

(***************************************************************************)
(* Every command that reaches on_message is answered with a final event,   *)
(* whatever becomes of qr-c, of the HTTP calls and of the job: the HTTP    *)
(* timeout and the deadline of the poll loop see to it.                    *)
(***************************************************************************)
CommandsAnswered == \A t \in Threads : (tpc[t] # "idle") ~> FinalEvent(t)

(***************************************************************************)
(* The gateway keeps listening: after every loss of the connection it      *)
(* subscribes again (on_connect runs at each connection).                  *)
(***************************************************************************)
ListensAgain == []<>subscribed

-----------------------------------------------------------------------------
(***************************************************************************)
(* README.md:149, "`job_result` when the job ends                          *)
(* (`DONE|TIMEOUT|CANCELLED`)": when a job_result is published the job is  *)
(* not PENDING.                                                            *)
(***************************************************************************)
ResultMeansEnded ==
  \A t \in Threads : \A e \in Published(t) :
    e.type = "job_result" => jobs_[e.job].status # "PENDING"

(***************************************************************************)
(* docs/openapi.yaml:474-476 gives the timeout_ms of /start the minimum 1, *)
(* and /start answers 400 to "invalid fields": a job comes only from a     *)
(* request that asked for at least 1.                                      *)
(***************************************************************************)
DocumentedTimeouts == \A j \in Jobs : owner[j] # None => Asked(owner[j]) >= 1

=============================================================================
