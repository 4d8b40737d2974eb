---------------------------- MODULE JobLifecycle ----------------------------
(***************************************************************************)
(* What the service promises about a job, seen from outside: the statuses  *)
(* of internal/store/store.go as a state machine, a count of the attempts  *)
(* and the document.  There are no workers, no transactions and no files   *)
(* here, and no restart except as the spontaneous Recover.                 *)
(***************************************************************************)
EXTENDS Integers

CONSTANTS Jobs, MaxAttempts

VARIABLES
  state,   \* the status; "none" before and "purged" after the job exists
  tries,   \* attempts made
  doc      \* the attempt whose document a client can fetch, 0: none

abstractVars == <<state, tries, doc>>

Allowed == IF MaxAttempts < 1 THEN 1 ELSE MaxAttempts

Init ==
  /\ state = [j \in Jobs |-> "none"]
  /\ tries = [j \in Jobs |-> 0]
  /\ doc = [j \in Jobs |-> 0]

Submit(j) ==
  /\ state[j] = "none"
  /\ state' = [state EXCEPT ![j] = "queued"]
  /\ tries' = [tries EXCEPT ![j] = 0]
  /\ UNCHANGED doc

(* A synchronous render appears when it is over, at its only attempt. *)
Record(j, d) ==
  /\ state[j] = "none"
  /\ state' = [state EXCEPT ![j] = IF d = 1 THEN "succeeded" ELSE "failed"]
  /\ tries' = [tries EXCEPT ![j] = 1]
  /\ doc' = [doc EXCEPT ![j] = d]

Start(j) ==
  /\ state[j] = "queued"
  /\ state' = [state EXCEPT ![j] = "running"]
  /\ tries' = [tries EXCEPT ![j] = tries[j] + 1]
  /\ UNCHANGED doc

(* An attempt that leads nowhere: a failed render, while any is left. *)
Retry(j) ==
  /\ state[j] = "running"
  /\ tries[j] < Allowed
  /\ state' = [state EXCEPT ![j] = "queued"]
  /\ UNCHANGED <<tries, doc>>

(* A restart puts back every started job, however often it was tried. *)
Recover ==
  /\ state' = [j \in Jobs |-> IF state[j] = "running" THEN "queued" ELSE state[j]]
  /\ UNCHANGED <<tries, doc>>

(* The document is the one of the last attempt. *)
Finish(j) ==
  /\ state[j] = "running"
  /\ state' = [state EXCEPT ![j] = "succeeded"]
  /\ doc' = [doc EXCEPT ![j] = tries[j]]
  /\ UNCHANGED tries

GiveUp(j) ==
  /\ state[j] = "running"
  /\ tries[j] >= Allowed
  /\ state' = [state EXCEPT ![j] = "failed"]
  /\ UNCHANGED <<tries, doc>>

Expire(S) ==
  /\ \A j \in S : state[j] \in {"succeeded", "failed"}
  /\ state' = [j \in Jobs |-> IF j \in S THEN "purged" ELSE state[j]]
  /\ tries' = [j \in Jobs |-> IF j \in S THEN 0 ELSE tries[j]]
  /\ doc' = [j \in Jobs |-> IF j \in S THEN 0 ELSE doc[j]]

Next ==
  \/ \E j \in Jobs : \/ Submit(j) \/ Start(j) \/ Retry(j)
                     \/ Finish(j) \/ GiveUp(j)
                     \/ \E d \in {0, 1} : Record(j, d)
  \/ Recover
  \/ \E S \in SUBSET Jobs : Expire(S)

Spec == Init /\ [][Next]_abstractVars

=============================================================================
