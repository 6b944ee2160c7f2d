----------------------------- MODULE JobService -----------------------------
(***************************************************************************)
(* What qr-c promises about jobs to those who start and poll them over     *)
(* HTTP: a job appears PENDING under an id not used before, ends once, and *)
(* then keeps its result.  QrService implements this; Gateway is built on  *)
(* it.                                                                     *)
(***************************************************************************)
EXTENDS JobStore

CONSTANTS
  Jobs,     \* job ids
  Payloads  \* payloads with the QR: prefix

VARIABLE jobs_  \* JobStore::jobs_

NewJob(j) == ~exists(jobs_, j) /\ jobs_' = create(jobs_, j)

EndJob(j) ==
  /\ jobs_[j].status = "PENDING"
  /\ \/ \E p \in Payloads : jobs_' = set_done(jobs_, j, p)
     \/ jobs_' = set_timeout(jobs_, j)
     \/ jobs_' = set_cancelled(jobs_, j)

JobInit == jobs_ = [j \in Jobs |-> Absent]

JobNext == \E j \in Jobs : NewJob(j) \/ EndJob(j)

JobSpec == JobInit /\ [][JobNext]_jobs_

=============================================================================
