---------------------------- MODULE TasksProofs -----------------------------
(***************************************************************************)
(* Facts about executing a task, shared by the proofs about the dispatcher *)
(* and about the service.                                                  *)
(***************************************************************************)
EXTENDS Tasks, TLAPS

\* Whatever task the worker runs, Core leaves a state and returns a response.
LEMMA OutcomeType ==
  ASSUME NEW P, NEW s \in State, NEW t \in TaskSet(P), NEW o \in Outcomes(s, t)
  PROVE  o.st \in State /\ o.r \in Response
<1> USE DEF State, Response, Command, Word, Label, Accept, Reject
<1>1. t.kind \in Kind /\ t.command \in Command
  BY DEF TaskSet
<1>2. upper(t.command) \in Command
  BY Zenon, <1>1 DEF upper
<1>3. stop(s).st \in State /\ stop(s).r \in Response
  BY DEF stop
<1>4. /\ handle_sync_command(s, t.command).st \in State
      /\ handle_sync_command(s, t.command).r \in Response
  BY <1>2, <1>3 DEF handle_sync_command
<1>5. start_job(s).st \in State /\ start_job(s).r \in Response
  BY DEF start_job
<1>6. finish_job(s).st \in State /\ finish_job(s).r \in Response
  BY DEF finish_job
<1>7. Run(s, t).st \in State /\ Run(s, t).r \in Response
  BY <1>1, <1>3, <1>4, <1>5, <1>6 DEF Run, Kind
<1>8. InternalError(s).st \in State /\ InternalError(s).r \in Response
  BY DEF InternalError
<1>9. o = Run(s, t) \/ o = InternalError(s)
  BY DEF Outcomes
<1> QED BY <1>7, <1>8, <1>9

\* Only an accepted task is answered 202: what a handler relies on when it
\* answers a refused /start with the status of the refusal.
LEMMA AcceptedIs202 ==
  ASSUME NEW s \in State, NEW t, NEW o \in Outcomes(s, t),
         t.kind \in Kind, t.command \in Command
  PROVE  o.r.http_status = 202 => o.r.ok
<1> USE DEF Accept, Reject
<1>1. upper(t.command) \in Command
  BY Zenon DEF upper, Command
<1>2. Run(s, t).r.http_status = 202 => Run(s, t).r.ok
  BY <1>1 DEF Run, Kind, handle_sync_command, start_job, finish_job, stop
<1>3. InternalError(s).r.http_status # 202
  BY DEF InternalError
<1>4. o = Run(s, t) \/ o = InternalError(s)
  BY DEF Outcomes
<1> QED BY <1>2, <1>3, <1>4

\* A future that is not ready is no Response.
LEMMA NotReady ==
  /\ Pending \notin Response
  /\ NoFuture \notin Response
  /\ Pending # NoFuture
BY DEF Pending, NoFuture, Response

=============================================================================
