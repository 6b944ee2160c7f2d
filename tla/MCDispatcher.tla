---------------------------- MODULE MCDispatcher ----------------------------
(* TLC instance of Dispatcher: every kind of call, one command that        *)
(* Core knows and one that it refuses.                                     *)
EXTENDS Dispatcher

MCSubmissions ==
  {[kind |-> "SYNC_COMMAND", command |-> [word |-> "INIT", caps |-> FALSE]],
   [kind |-> "SYNC_COMMAND", command |-> [word |-> "OTHER", caps |-> TRUE]],
   [kind |-> "START_JOB", command |-> NoCommand],
   [kind |-> "STOP", command |-> NoCommand],
   [kind |-> "FINISH_JOB", command |-> NoCommand]}

=============================================================================
