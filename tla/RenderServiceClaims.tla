------------------------- MODULE RenderServiceClaims -------------------------
(***************************************************************************)
(* What README.md says of retries and of shutdown and the code does not    *)
(* quite do.  Each definition states the sentence it quotes; a run of its  *)
(* own shows the behaviour that contradicts it.                            *)
(***************************************************************************)
EXTENDS RenderService

(* README.md:87, "failed renders retry with exponential backoff".  While   *)
(* the server is up, every running row is some worker's: a failed render   *)
(* is back in the queue or given up.  SQLite refuses Fail's UPDATE when    *)
(* another connection committed since its SELECT, or just holds the write  *)
(* lock as an idle worker's Claim does, and the failure is lost.           *)
FailuresAreRecorded == server = "up" => \A j \in Jobs : ~Stranded(j)

(* README.md:95, "Graceful shutdown: Ctrl-C stops intake, lets in-flight   *)
(* renders finish".  No job is given up for the reason that the server was *)
(* shutting down.  The pool renders under the very context the signal      *)
(* cancels, and its loop goes on claiming under it until the queue is      *)
(* empty, so even jobs still queued lose attempts.                         *)
ShutdownFailsNoJob ==
  \A j \in Jobs : rows[j].status = "failed" => rows[j].error # "canceled"

=============================================================================
