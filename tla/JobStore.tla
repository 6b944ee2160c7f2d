------------------------------ MODULE JobStore ------------------------------
(***************************************************************************)
(* app::JobStore (qr-c/src/app/JobStore.hpp): the map from job ids to      *)
(* results.  Every method locks the store's mutex for its whole body, so   *)
(* each is one operator on the value of the map, used in one step.         *)
(*                                                                         *)
(* The map is total on the ids a model considers: an id without an entry   *)
(* has status ABSENT.  std::optional<std::string> qr is a set with at most *)
(* one element.                                                            *)
(***************************************************************************)
JobStatus == {"PENDING", "DONE", "TIMEOUT", "CANCELLED"}

Terminal == JobStatus \ {"PENDING"}

Absent == [status |-> "ABSENT", qr |-> {}]

JobResultSet(P) ==
  [status : JobStatus \cup {"ABSENT"}, qr : {{}} \cup {{p} : p \in P}]

exists(jobs, id) == jobs[id].status # "ABSENT"

\* jobs_[id] = JobResult{}: overwrites whatever the id had.
create(jobs, id) == [jobs EXCEPT ![id] = [status |-> "PENDING", qr |-> {}]]

set_done(jobs, id, payload) ==
  [jobs EXCEPT ![id] = [status |-> "DONE", qr |-> {payload}]]

set_timeout(jobs, id) == [jobs EXCEPT ![id] = [status |-> "TIMEOUT", qr |-> {}]]

set_cancelled(jobs, id) == [jobs EXCEPT ![id] = [status |-> "CANCELLED", qr |-> {}]]

=============================================================================
