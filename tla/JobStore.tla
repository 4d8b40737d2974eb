------------------------------ MODULE JobStore ------------------------------
(***************************************************************************)
(* The jobs table of internal/store/store.go: what one row can hold and    *)
(* what each statement of the store does to it.  Every operator below maps *)
(* an old row to the row one SQL statement leaves behind, its WHERE clause *)
(* included, so that the modules of the service only have to say WHEN the  *)
(* statement runs.                                                         *)
(*                                                                         *)
(* A job is named by the rank of its created_at text among all jobs, which *)
(* is the order Claim selects by.  Jobs are inserted in any order of that  *)
(* rank: the text order of RFC3339Nano is not the order of creation (see   *)
(* module Timestamps) and the wall clock may step.                         *)
(***************************************************************************)
EXTENDS Integers, FiniteSets

CONSTANTS
  Jobs,         \* the jobs ever created, named by the rank of created_at
  MaxAttempts   \* the -max-attempts flag, unclamped

ASSUME JobsAssumption == Jobs \subseteq Nat \ {0}
ASSUME MaxAttemptsAssumption == MaxAttempts \in Int

(* "none": no row was ever inserted.  "purged": retention deleted the row, *)
(* which a reader of the table cannot tell from "none".                    *)
Status == {"none", "queued", "running", "succeeded", "failed", "purged"}
Terminal == {"succeeded", "failed"}

(* The error column: empty, a render or disk error, or the text of a       *)
(* context.Canceled that the server itself or the client caused.           *)
Errors == {"", "error", "canceled"}

(* Enqueue's clamp of the flag. *)
Limit == IF MaxAttempts < 1 THEN 1 ELSE MaxAttempts

(* gate: run_after lies in the future.  pdf: 0 for empty pdf columns, else *)
(* the attempt whose bytes pdf_sha256, pdf_bytes and signature describe.   *)
Row == [status : Status, attempts : Nat, max : Nat, gate : BOOLEAN,
        error : Errors, pdf : Nat]

NoRow == [status |-> "none", attempts |-> 0, max |-> 0, gate |-> FALSE,
          error |-> "", pdf |-> 0]

(* Enqueue: the inserted row. *)
EnqueuedRow == [NoRow EXCEPT !.status = "queued", !.max = Limit]

(* Variant: the pdf columns are forgotten. *)
SyncRowNoPdf(p, e) ==
  [NoRow EXCEPT !.status = IF p = 0 THEN "failed" ELSE "succeeded",
                !.attempts = 1, !.max = 1, !.error = e]

(* RecordSyncJob: a row that is terminal from the start; p is 0 and e is   *)
(* not empty when the synchronous render failed.                           *)
SyncRow(p, e) ==
  [NoRow EXCEPT !.status = IF p = 0 THEN "failed" ELSE "succeeded",
                !.attempts = 1, !.max = 1, !.error = e, !.pdf = p]

(* Variants: the SELECT forgets the status, or retries what is finished. *)
RunnableAnyStatus(r) == r.status \in {"queued", "running"} /\ ~r.gate
RunnableFinished(r) == r.status \in {"queued", "succeeded"} /\ ~r.gate

(* Claim's inner SELECT and its UPDATE. *)
Runnable(r) == r.status = "queued" /\ ~r.gate
ClaimedRow(r) ==
  [r EXCEPT !.status = "running", !.attempts = r.attempts + 1]

(* Complete with the artifact of attempt p, WHERE status = 'running'. *)
CompletedRow(r, p) ==
  IF r.status = "running"
  THEN [r EXCEPT !.status = "succeeded", !.pdf = p, !.error = ""]
  ELSE r

(* Variants: one attempt too many; none after the first. *)
FailedRowLate(r, e) ==
  IF r.attempts > r.max
  THEN [r EXCEPT !.status = "failed", !.error = e]
  ELSE [r EXCEPT !.status = "queued", !.error = e, !.gate = TRUE]
FailedRowAtOnce(r, e) == [r EXCEPT !.status = "failed", !.error = e]

(* Fail's UPDATE: terminal once the attempts are used up, else back to the *)
(* queue behind a run_after that lies 2^attempts seconds ahead.            *)
FailedRow(r, e) ==
  IF r.attempts >= r.max
  THEN [r EXCEPT !.status = "failed", !.error = e]
  ELSE [r EXCEPT !.status = "queued", !.error = e, !.gate = TRUE]

(* Variant: recovery gives failed jobs another chance. *)
RecoveredRowFailed(r) ==
  IF r.status \in {"running", "failed"} THEN [r EXCEPT !.status = "queued"] ELSE r

(* RecoverRunning: attempts, error and run_after are left alone. *)
RecoveredRow(r) ==
  IF r.status = "running" THEN [r EXCEPT !.status = "queued"] ELSE r

(* PurgeBefore's DELETE. *)
PurgedRow(r) == [NoRow EXCEPT !.status = "purged"]

=============================================================================
