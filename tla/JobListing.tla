------------------------------ MODULE JobListing ------------------------------
(***************************************************************************)
(* What a listing of jobs (GET /v1/jobs) says of a job as time goes by: no *)
(* more than the jobs page of the designer relies on, and no less than     *)
(* RenderService keeps.  Jobs are named by the keys that own them, one     *)
(* each; "none" is a job yet to come, "purged" one that retention deleted. *)
(***************************************************************************)
CONSTANT Keys
VARIABLE server

(* Queued and running count as one: a retry or a restart goes from running *)
(* back to queued, and a page is used to that.                             *)
Statuses == {"unfinished", "finished"}

(* Enqueue, Complete or Fail, RecordSyncJob, PurgeBefore: never back.      *)
Moves ==
  {<<"none", "unfinished">>, <<"unfinished", "finished">>,
   <<"none", "finished">>, <<"finished", "purged">>}

Init == server = [k \in Keys |-> "none"]

(* Retention moves many jobs at once. *)
Next ==
  /\ server' \in [Keys -> Statuses \cup {"none", "purged"}]
  /\ \A k \in Keys : server'[k] = server[k] \/ <<server[k], server'[k]>> \in Moves

Spec == Init /\ [][Next]_server

(* What is listed: a deleted row is no row. *)
Shown(s) == IF s = "purged" THEN "none" ELSE s

=============================================================================
