---------------------------- MODULE RenderService ----------------------------
(***************************************************************************)
(* One life after another of the typst-pdf server process: the worker pool *)
(* of internal/worker/worker.go, the POST /v1/jobs, POST /render and GET   *)
(* .../pdf handlers of internal/api/api.go, the janitor, start and         *)
(* shutdown of cmd/server/main.go, over the jobs table (JobStore) and the  *)
(* artifacts directory, which both outlive the process.                    *)
(*                                                                         *)
(* A step is one committed SQL statement, one file operation, or one       *)
(* blocking point of a goroutine.  Bytes are named by the attempt that     *)
(* rendered them: a template or a font may change between two attempts, so *)
(* two attempts never count as the same document.                          *)
(***************************************************************************)
EXTENDS JobStore

CONSTANTS
  Workers,    \* the goroutines of Pool.Run; -concurrency of them
  Handlers,   \* goroutines serving POST /render/{template}
  Readers,    \* goroutines serving GET /v1/jobs/{id}/pdf
  NudgeCap,   \* capacity of the nudge channel
  MaxBoots,   \* BOUND: lives of the server process
  Faults      \* BOOLEAN: may SQLite and file operations fail?

ASSUME ActorsAssumption ==
  Workers \cap Handlers = {} /\ Workers # {} /\ IsFiniteSet(Workers)
ASSUME BoundsAssumption == NudgeCap \in Nat \ {0} /\ MaxBoots \in Nat
ASSUME FaultsAssumption == Faults \in BOOLEAN

VARIABLES
  rows,    \* the jobs table
  disk,    \* the attempt whose bytes <artifacts>/<job>.pdf holds, 0: no file
  server,  \* "down", "up" or "draining" (interrupted, not yet exited)
  boots,   \* lives so far
  go,      \* what each worker and each synchronous handler is doing
  nudge,   \* elements in the nudge channel
  doomed,  \* purged jobs whose artifact the janitor has still to remove
  rd       \* what each reader has looked up and answered

vars == <<rows, disk, server, boots, go, nudge, doomed, rd>>

Actors == Workers \cup Handlers

(* pc of a goroutine: "claim", "idle" in loop; "acquire" (before the       *)
(* semaphore), "compile" in Render; "store" before StoreArtifact, then     *)
(* "complete"; "fail" before Store.Fail, "failtx" inside its transaction.  *)
PCs == {"off", "claim", "idle", "acquire", "compile", "store", "complete",
        "fail", "failtx"}

(* att: the attempt being made.  err: the error to be recorded.            *)
(* fresh: no commit of anyone else since the transaction's snapshot.       *)
Goroutine == [pc : PCs, job : Jobs \cup {0}, att : Nat, err : Errors,
              fresh : BOOLEAN]
At(pc) == [pc |-> pc, job |-> 0, att |-> 0, err |-> "", fresh |-> FALSE]

Take(j, n) == [At("acquire") EXCEPT !.job = j, !.att = n]

(* A reader: what it holds between the row and the file, and its answer.   *)
(* unreadable only records: the file was there and could not be read.      *)
Codes == {0, 200, 404, 409, 410, 500}
Reader == [pc : {"off", "read", "done"}, job : Jobs \cup {0}, want : Nat,
           code : Codes, got : Nat, unreadable : BOOLEAN]
NoReader == [pc |-> "off", job |-> 0, want |-> 0, code |-> 0, got |-> 0,
             unreadable |-> FALSE]

Init ==
  /\ rows = [j \in Jobs |-> NoRow]
  /\ disk = [j \in Jobs |-> 0]
  /\ server = "down"
  /\ boots = 0
  /\ go = [a \in Actors |-> At("off")]
  /\ nudge = 0
  /\ doomed = {}
  /\ rd = [r \in Readers |-> NoReader]

-----------------------------------------------------------------------------
(* Helpers.                                                                *)

(* A commit invalidates every read snapshot a deferred transaction holds:  *)
(* its later write fails with SQLITE_BUSY_SNAPSHOT.                        *)
Committed(g) == [a \in Actors |-> [g[a] EXCEPT !.fresh = FALSE]]

Compiling == {a \in Actors : go[a].pc = "compile"}

(* What Claim's inner SELECT may return: runnable, first by created_at. *)
Oldest(j) ==
  /\ Runnable(rows[j])
  /\ \A k \in Jobs : Runnable(rows[k]) => j <= k

(* NewJobID draws 128 random bits: an id nobody has used. *)
Unused(j) ==
  /\ rows[j].status = "none"
  /\ disk[j] = 0
  /\ \A a \in Actors : go[a].job # j

(* Where a goroutine goes when it is done with its job. *)
Home(a) == IF a \in Workers THEN At("claim") ELSE At("off")

-----------------------------------------------------------------------------
(* The asynchronous path.                                                  *)

(* postJob: Enqueue, then Nudge.  The nudge is not sent when the read-back *)
(* of the new row fails, and is dropped when the channel is full.  (The    *)
(* handler goes straight on from one to the other: they are one step.)     *)
PostJob(j) ==
  /\ server \in {"up", "draining"}
  /\ Unused(j)
  /\ rows' = [rows EXCEPT ![j] = EnqueuedRow]
  /\ \/ nudge' = IF nudge < NudgeCap THEN nudge + 1 ELSE nudge
     \/ Faults /\ nudge' = nudge
  /\ go' = Committed(go)
  /\ UNCHANGED <<disk, server, boots, doomed, rd>>

(* loop: Claim took the oldest runnable job. *)
Claim(w) ==
  /\ go[w].pc = "claim"
  /\ \E j \in Jobs :
     /\ Oldest(j)
     /\ rows' = [rows EXCEPT ![j] = ClaimedRow(rows[j])]
     /\ go' = Committed([go EXCEPT ![w] = Take(j, rows[j].attempts + 1)])
  /\ UNCHANGED <<disk, server, boots, nudge, doomed, rd>>

(* loop: Claim found nothing or failed; the goroutine goes to its select. *)
ClaimNone(w) ==
  /\ go[w].pc = "claim"
  /\ Faults \/ \A j \in Jobs : ~Runnable(rows[j])
  /\ go' = [go EXCEPT ![w] = At("idle")]
  /\ UNCHANGED <<rows, disk, server, boots, nudge, doomed, rd>>

(* loop: the select takes a nudge, the one-second ticker, or ctx.Done. *)
Wake(w) ==
  /\ go[w].pc = "idle"
  /\ nudge > 0
  /\ nudge' = nudge - 1
  /\ go' = [go EXCEPT ![w] = At("claim")]
  /\ UNCHANGED <<rows, disk, server, boots, doomed, rd>>

(* Variants: no ticker; no ctx.Done. *)
TickNever(w) == go[w].pc = "idle" /\ FALSE /\ UNCHANGED vars
QuitNever(w) == go[w].pc = "idle" /\ FALSE /\ UNCHANGED vars

Tick(w) ==
  /\ go[w].pc = "idle"
  /\ go' = [go EXCEPT ![w] = At("claim")]
  /\ UNCHANGED <<rows, disk, server, boots, nudge, doomed, rd>>

Quit(w) ==
  /\ go[w].pc = "idle"
  /\ server = "draining"
  /\ go' = [go EXCEPT ![w] = At("off")]
  /\ UNCHANGED <<rows, disk, server, boots, nudge, doomed, rd>>

(* run_after passes. *)
GateOpens(j) ==
  /\ rows[j].status = "queued"
  /\ rows[j].gate
  /\ rows' = [rows EXCEPT ![j].gate = FALSE]
  /\ UNCHANGED <<disk, server, boots, go, nudge, doomed, rd>>

-----------------------------------------------------------------------------
(* Renderer.Render and StoreArtifact, for workers and handlers alike.      *)

Rendering(a) == go[a].pc \in {"acquire", "compile"}

(* The context a render runs under is done: the root context for a worker, *)
(* the request's for a handler, whose client may leave at any time.        *)
Cancelled(a) == a \in Workers => server = "draining"

(* The semaphore admits -concurrency compiles.  A worker whose context is  *)
(* done gets no further: should it draw the semaphore in Render's select,  *)
(* typst is not started.                                                   *)
Acquire(a) ==
  /\ go[a].pc = "acquire"
  /\ Cardinality(Compiling) < Cardinality(Workers)
  /\ a \in Workers => server = "up"
  /\ go' = [go EXCEPT ![a].pc = "compile"]
  /\ UNCHANGED <<rows, disk, server, boots, nudge, doomed, rd>>

(* Unknown template, unreadable defaults, staging, compile error, timeout, *)
(* bad output: "error".  Leaving Render releases the semaphore.            *)
RenderFails(a, e) ==
  /\ Rendering(a)
  /\ e = "canceled" => Cancelled(a)
  /\ go' = [go EXCEPT ![a].pc = "fail", ![a].err = e]
  /\ UNCHANGED <<rows, disk, server, boots, nudge, doomed, rd>>

RenderSucceeds(a) ==
  /\ go[a].pc = "compile"
  /\ go' = [go EXCEPT ![a].pc = "store"]
  /\ UNCHANGED <<rows, disk, server, boots, nudge, doomed, rd>>

(* Variant: the rename is forgotten. *)
StoreArtifactTmp(a) ==
  /\ go[a].pc = "store"
  /\ go' = [go EXCEPT ![a].pc = "complete"]
  /\ UNCHANGED <<rows, disk, server, boots, nudge, doomed, rd>>

(* Temp file and rename: readers of the final path see all of it or none.  *)
StoreArtifact(a) ==
  /\ go[a].pc = "store"
  /\ disk' = [disk EXCEPT ![go[a].job] = go[a].att]
  /\ go' = [go EXCEPT ![a].pc = "complete"]
  /\ UNCHANGED <<rows, server, boots, nudge, doomed, rd>>

-----------------------------------------------------------------------------
(* process: what a worker records about its attempt.                       *)

StoreFails(w) ==
  /\ Faults
  /\ go[w].pc = "store"
  /\ go' = [go EXCEPT ![w].pc = "fail", ![w].err = "error"]
  /\ UNCHANGED <<rows, disk, server, boots, nudge, doomed, rd>>

(* Variant: no "continue" after a job. *)
CompleteThenSelect(w) ==
  /\ go[w].pc = "complete"
  /\ rows' = [rows EXCEPT ![go[w].job] = CompletedRow(rows[go[w].job], go[w].att)]
  /\ go' = Committed([go EXCEPT ![w] = At("idle")])
  /\ UNCHANGED <<disk, server, boots, nudge, doomed, rd>>

Complete(w) ==
  /\ go[w].pc = "complete"
  /\ LET j == go[w].job IN
       rows' = [rows EXCEPT ![j] = CompletedRow(rows[j], go[w].att)]
  /\ go' = Committed([go EXCEPT ![w] = At("claim")])
  /\ UNCHANGED <<disk, server, boots, nudge, doomed, rd>>

(* The error is logged and the row is left running. *)
CompleteError(w) ==
  /\ Faults
  /\ go[w].pc = "complete"
  /\ go' = [go EXCEPT ![w] = At("claim")]
  /\ UNCHANGED <<rows, disk, server, boots, nudge, doomed, rd>>

(* Variant: the transaction is begun under the root context. *)
FailBeginUnderContext(w) ==
  /\ go[w].pc = "fail"
  /\ go' = [go EXCEPT ![w] =
       IF rows[go[w].job].status = "running" /\ server = "up"
       THEN [go[w] EXCEPT !.pc = "failtx", !.fresh = TRUE]
       ELSE At("claim")]
  /\ UNCHANGED <<rows, disk, server, boots, nudge, doomed, rd>>

(* Fail, first half: the SELECT that opens the transaction's snapshot. *)
FailBegin(w) ==
  /\ go[w].pc = "fail"
  /\ go' = [go EXCEPT ![w] =
       IF rows[go[w].job].status = "running"
       THEN [go[w] EXCEPT !.pc = "failtx", !.fresh = TRUE]
       ELSE At("claim")]
  /\ UNCHANGED <<rows, disk, server, boots, nudge, doomed, rd>>

(* Fail, second half: the UPDATE, WHERE id = ? only. *)
FailCommit(w) ==
  /\ go[w].pc = "failtx"
  /\ go[w].fresh
  /\ LET j == go[w].job IN
       rows' = [rows EXCEPT ![j] = FailedRow(rows[j], go[w].err)]
  /\ go' = Committed([go EXCEPT ![w] = At("claim")])
  /\ UNCHANGED <<disk, server, boots, nudge, doomed, rd>>

(* SQLite refuses the UPDATE, and at once: a transaction that has read and *)
(* now wants to write does not wait for busy_timeout.  Its snapshot went   *)
(* stale (SQLITE_BUSY_SNAPSHOT), or another connection holds the write     *)
(* lock, be it for a statement that changes nothing (SQLITE_BUSY).  Idle   *)
(* workers, clients, the janitor and the keys command may do so at any     *)
(* time.  process logs it and returns; the row stays running.              *)
FailConflict(w) ==
  /\ go[w].pc = "failtx"
  /\ go' = [go EXCEPT ![w] = At("claim")]
  /\ UNCHANGED <<rows, disk, server, boots, nudge, doomed, rd>>

(* keys create and keys disable: another process commits to the database. *)
KeysCommand ==
  /\ \E a \in Actors : go[a].fresh
  /\ go' = Committed(go)
  /\ UNCHANGED <<rows, disk, server, boots, nudge, doomed, rd>>

-----------------------------------------------------------------------------
(* syncRender.                                                             *)

SyncStart(h, j) ==
  /\ server \in {"up", "draining"}
  /\ go[h].pc = "off"
  /\ Unused(j)
  /\ go' = [go EXCEPT ![h] = Take(j, 1)]
  /\ UNCHANGED <<rows, disk, server, boots, nudge, doomed, rd>>

SyncRecord(h) ==
  /\ go[h].pc = "complete"
  /\ rows' = [rows EXCEPT ![go[h].job] = SyncRow(1, "")]
  /\ go' = Committed([go EXCEPT ![h] = At("off")])
  /\ UNCHANGED <<disk, server, boots, nudge, doomed, rd>>

SyncRecordFailure(h) ==
  /\ go[h].pc = "fail"
  /\ rows' = [rows EXCEPT ![go[h].job] = SyncRow(0, go[h].err)]
  /\ go' = Committed([go EXCEPT ![h] = At("off")])
  /\ UNCHANGED <<disk, server, boots, nudge, doomed, rd>>

(* StoreArtifact or RecordSyncJob failed: a 500 and no row.  When it was   *)
(* RecordSyncJob, the artifact stays behind.                               *)
SyncGivesUp(h) ==
  /\ Faults
  /\ go[h].pc \in {"store", "complete", "fail"}
  /\ go' = [go EXCEPT ![h] = At("off")]
  /\ UNCHANGED <<rows, disk, server, boots, nudge, doomed, rd>>

-----------------------------------------------------------------------------
(* runServe: start, interrupt, exit; and the crash that may come between.  *)

(* Nothing of the process survives it. *)
ProcessEnds ==
  /\ server' = "down"
  /\ go' = [a \in Actors |-> At("off")]
  /\ nudge' = 0
  /\ doomed' = {}
  /\ rd' = [r \in Readers |-> NoReader]

(* RecoverRunning before the pool and the listener start. *)
Boot ==
  /\ server = "down"
  /\ boots < MaxBoots
  /\ boots' = boots + 1
  /\ server' = "up"
  /\ rows' = [j \in Jobs |-> RecoveredRow(rows[j])]
  /\ go' = [a \in Actors |-> Home(a)]
  /\ UNCHANGED <<disk, nudge, doomed, rd>>

Interrupt ==
  /\ server = "up"
  /\ boots < MaxBoots
  /\ server' = "draining"
  /\ UNCHANGED <<rows, disk, boots, go, nudge, doomed, rd>>

(* runServe returns once the pool is done; handlers still at work and the  *)
(* janitor die with the process.                                           *)
Exit ==
  /\ server = "draining"
  /\ \A w \in Workers : go[w].pc = "off"
  /\ ProcessEnds
  /\ UNCHANGED <<rows, disk, boots>>

Crash ==
  /\ server # "down"
  /\ boots < MaxBoots
  /\ ProcessEnds
  /\ UNCHANGED <<rows, disk, boots>>

-----------------------------------------------------------------------------
(* janitor.                                                                *)

(* Variant: the DELETE forgets the status. *)
PurgeAnyStatus(S) ==
  /\ server # "down"
  /\ doomed = {}
  /\ S # {}
  /\ \A j \in S : rows[j].status \in Terminal \cup {"running"}
  /\ rows' = [j \in Jobs |-> IF j \in S THEN PurgedRow(rows[j]) ELSE rows[j]]
  /\ doomed' = {j \in S : rows[j].pdf # 0}
  /\ go' = Committed(go)
  /\ UNCHANGED <<disk, server, boots, nudge, rd>>

(* PurgeBefore commits.  finished_at decides which finished rows are old   *)
(* enough: here any set of them may be.                                    *)
Purge(S) ==
  /\ server # "down"
  /\ doomed = {}
  /\ S # {}
  /\ \A j \in S : rows[j].status \in Terminal
  /\ rows' = [j \in Jobs |-> IF j \in S THEN PurgedRow(rows[j]) ELSE rows[j]]
  /\ doomed' = {j \in S : rows[j].pdf # 0}
  /\ go' = Committed(go)
  /\ UNCHANGED <<disk, server, boots, nudge, rd>>

(* Variant: files are removed before their rows. *)
RemoveArtifactFirst(j) ==
  /\ j \in doomed \/ rows[j].status = "succeeded"
  /\ disk' = [disk EXCEPT ![j] = 0]
  /\ doomed' = doomed \ {j}
  /\ UNCHANGED <<rows, server, boots, go, nudge, rd>>

RemoveArtifact(j) ==
  /\ j \in doomed
  /\ disk' = [disk EXCEPT ![j] = 0]
  /\ doomed' = doomed \ {j}
  /\ UNCHANGED <<rows, server, boots, go, nudge, rd>>

(* os.Remove failed; the path is forgotten with the row that named it. *)
RemoveFails(j) ==
  /\ Faults
  /\ j \in doomed
  /\ doomed' = doomed \ {j}
  /\ UNCHANGED <<rows, disk, server, boots, go, nudge, rd>>

-----------------------------------------------------------------------------
(* getJobPDF: the row, then the file.                                      *)

HasPDF(r) == r.status = "succeeded" /\ r.pdf # 0

GetJob(r, j) ==
  /\ server # "down"
  /\ rd[r].pc # "read"
  /\ rd' = [rd EXCEPT ![r] =
       IF rows[j].status \in {"none", "purged"}
       THEN [NoReader EXCEPT !.pc = "done", !.job = j, !.code = 404]
       ELSE IF HasPDF(rows[j])
       THEN [NoReader EXCEPT !.pc = "read", !.job = j, !.want = rows[j].pdf]
       ELSE [NoReader EXCEPT !.pc = "done", !.job = j, !.code = 409]]
  /\ UNCHANGED <<rows, disk, server, boots, go, nudge, doomed>>

(* The SELECT failed. *)
GetJobFails(r, j) ==
  /\ Faults
  /\ server # "down"
  /\ rd[r].pc # "read"
  /\ rd' = [rd EXCEPT ![r] = [NoReader EXCEPT !.pc = "done", !.job = j, !.code = 500]]
  /\ UNCHANGED <<rows, disk, server, boots, go, nudge, doomed>>

(* os.ReadFile; whatever its error, the answer is a 410. *)
ReadArtifact(r) ==
  /\ rd[r].pc = "read"
  /\ \E lost \in {FALSE} \cup (IF Faults /\ disk[rd[r].job] # 0 THEN {TRUE} ELSE {}) :
       LET n == IF lost THEN 0 ELSE disk[rd[r].job] IN
       rd' = [rd EXCEPT ![r].pc = "done", ![r].got = n,
                        ![r].code = IF n = 0 THEN 410 ELSE 200,
                        ![r].unreadable = lost]
  /\ UNCHANGED <<rows, disk, server, boots, go, nudge, doomed>>

-----------------------------------------------------------------------------

RenderStep(a) ==
  \/ Acquire(a)
  \/ \E e \in {"error", "canceled"} : RenderFails(a, e)
  \/ RenderSucceeds(a)
  \/ StoreArtifact(a)

WorkerStep(w) ==
  \/ Claim(w) \/ ClaimNone(w) \/ Wake(w) \/ Tick(w) \/ Quit(w)
  \/ RenderStep(w)
  \/ StoreFails(w) \/ Complete(w) \/ CompleteError(w)
  \/ FailBegin(w) \/ FailCommit(w) \/ FailConflict(w)

HandlerStep(h) ==
  \/ \E j \in Jobs : SyncStart(h, j)
  \/ RenderStep(h)
  \/ SyncRecord(h) \/ SyncRecordFailure(h) \/ SyncGivesUp(h)

ReaderStep(r) ==
  \/ \E j \in Jobs : GetJob(r, j) \/ GetJobFails(r, j)
  \/ ReadArtifact(r)

JanitorStep ==
  \/ \E S \in SUBSET Jobs : Purge(S)
  \/ \E j \in Jobs : RemoveArtifact(j) \/ RemoveFails(j)

ProcessStep == Boot \/ Interrupt \/ Exit \/ Crash

Next ==
  \/ \E j \in Jobs : PostJob(j) \/ GateOpens(j)
  \/ \E w \in Workers : WorkerStep(w)
  \/ \E h \in Handlers : HandlerStep(h)
  \/ \E r \in Readers : ReaderStep(r)
  \/ JanitorStep
  \/ ProcessStep
  \/ KeysCommand

Spec == Init /\ [][Next]_vars

(* A goroutine that can run does; typst ends, at the latest by -timeout;   *)
(* time passes; the ticker ticks; a supervisor restarts the process.       *)
(* Strong fairness where Go promises a turn among contenders: a blocked    *)
(* sender on the semaphore channel is queued first in, first out, and      *)
(* select chooses at random among its ready cases.                         *)
CompileEnds(a) ==
  /\ go[a].pc = "compile"
  /\ RenderSucceeds(a) \/ \E e \in {"error", "canceled"} : RenderFails(a, e)

Fairness ==
  /\ \A w \in Workers :
       /\ WF_vars(Claim(w)) /\ WF_vars(ClaimNone(w)) /\ WF_vars(Tick(w))
       /\ SF_vars(Quit(w))
       /\ SF_vars(Acquire(w))
       /\ WF_vars(RenderFails(w, "canceled"))
       /\ WF_vars(CompileEnds(w))
       /\ WF_vars(StoreArtifact(w) \/ StoreFails(w))
       /\ WF_vars(Complete(w) \/ CompleteError(w))
       /\ WF_vars(FailBegin(w))
       /\ WF_vars(FailCommit(w) \/ FailConflict(w))
  /\ \A h \in Handlers : WF_vars(CompileEnds(h))
  /\ \A j \in Jobs : WF_vars(GateOpens(j))
  /\ WF_vars(Boot)
  /\ WF_vars(Exit)

LiveSpec == Spec /\ Fairness

-----------------------------------------------------------------------------
(* Properties.                                                             *)

(* Type correctness: every variable holds what its SQL column, file, Go    *)
(* variable or channel can hold.                                           *)
TypeOK ==
  /\ rows \in [Jobs -> Row]
  /\ disk \in [Jobs -> Nat]
  /\ server \in {"down", "up", "draining"}
  /\ boots \in Nat
  /\ go \in [Actors -> Goroutine]
  /\ nudge \in 0..NudgeCap
  /\ doomed \in SUBSET Jobs
  /\ rd \in [Readers -> Reader]

Holding(a) == go[a].job # 0

(* No two goroutines ever render the same job, although Claim, Fail,       *)
(* RecoverRunning and the handlers all hand jobs around with no lock but   *)
(* the row's status: Claim is one UPDATE, and recovery runs only when no   *)
(* worker of an earlier life is left.                                      *)
NoDoubleRender ==
  \A a, b \in Actors : a # b /\ Holding(a) => go[a].job # go[b].job

(* While a worker holds a job, from Claim to Complete or Fail, nobody else *)
(* changes its row: it stays running, at the very attempt the worker took. *)
(* Fail's UPDATE, which is not conditional on the status, relies on it.    *)
WorkerOwnsRow ==
  \A w \in Workers : Holding(w) =>
    /\ rows[go[w].job].status = "running"
    /\ rows[go[w].job].attempts = go[w].att

(* A row that says succeeded describes the file that is on disk now: an    *)
(* artifact exists, and it is the one whose digest and signature the row   *)
(* carries, whatever earlier attempts left at the same path.               *)
ArtifactMatchesRow ==
  \A j \in Jobs : rows[j].status = "succeeded" =>
    rows[j].pdf # 0 /\ disk[j] = rows[j].pdf

(* A job is attempted at most max_attempts times, plus once for every      *)
(* restart that found it running: RecoverRunning requeues without looking  *)
(* at the attempts.  (For a queued job the attempt to come is counted.)    *)
AttemptBound ==
  \A j \in Jobs : rows[j].status \notin {"none", "purged"} =>
    rows[j].attempts + (IF rows[j].status = "queued" THEN 2 ELSE 1)
      <= rows[j].max + boots

(* getJobPDF reads the row and the file at different times, and sends the  *)
(* row's digest with the file's bytes: a 200 always pairs those that       *)
(* belong together.                                                        *)
ServedMatchesDigest == \A r \in Readers : rd[r].code = 200 => rd[r].got = rd[r].want

(* README.md:51, "410 if purged by retention": where a file is missing,    *)
(* retention took the job between the two reads, and nothing else ever     *)
(* leaves a succeeded row without its file.  (A file that is there and     *)
(* cannot be read is answered by a 410, too.)                              *)
GoneOnlyAfterPurge ==
  \A r \in Readers :
    rd[r].code = 410 => rows[rd[r].job].status = "purged" \/ rd[r].unreadable

(* Finished is final: a terminal row never changes again, except that      *)
(* retention deletes it; and a deleted row never comes back.               *)
TerminalIsFinal ==
  [][\A j \in Jobs :
       /\ rows[j].status \in Terminal =>
            rows'[j] = rows[j] \/ rows'[j].status = "purged"
       /\ rows[j].status = "purged" => rows'[j] = rows[j]]_vars

(* No artifact is ever replaced or removed while its row still promises    *)
(* it: removal follows the deletion of the row, and a late or repeated     *)
(* attempt never overwrites a finished job's file.                         *)
PromisedArtifactKept ==
  [][\A j \in Jobs : rows[j].status = "succeeded" /\ rows'[j].status = "succeeded"
       => disk'[j] = disk[j]]_vars

(* README.md:93, retention "deletes finished jobs + artifacts": of a       *)
(* deleted job no file is left, or the janitor is about to remove it.  The *)
(* rows go first and the janitor's list is in memory only, and an attempt  *)
(* killed after StoreArtifact leaves a file that its row never names, so   *)
(* this is promised by the first life of the process as long as it lives.  *)
RetentionTakesTheFile ==
  ~Faults /\ boots = 1 /\ server # "down" =>
    \A j \in Jobs : rows[j].status = "purged" /\ j \notin doomed => disk[j] = 0

(* No wake-up is lost (worker.go:64, Nudge): a nudge is dropped when the   *)
(* channel is full and may come between a Claim that found nothing and the *)
(* select, and yet a new job never has to wait for the ticker: there is a  *)
(* nudge to be taken, or a worker that will claim before it next sleeps.   *)
NewJobIsSeen ==
  /\ ~Faults /\ server = "up"
  /\ \E j \in Jobs : rows[j].status = "queued" /\ rows[j].attempts = 0
  => nudge > 0 \/ \E w \in Workers : go[w].pc \notin {"idle", "off"}

(* A running row no goroutine of this life knows of.                       *)
Stranded(j) == rows[j].status = "running" /\ \A a \in Actors : go[a].job # j

(* While the process lives and nothing fails, be it draining, one thing    *)
(* alone makes a worker forget a job that its row says is running: SQLite  *)
(* refused the UPDATE in Fail's transaction.  A job is lost after a failed *)
(* attempt only, and neither an interrupt nor the other workers, handlers  *)
(* or the janitor lose one.                                                *)
LostOnlyToConflict ==
  [][~Faults /\ server' # "down" =>
       \A j \in Jobs : ~Stranded(j) /\ Stranded(j)' =>
         \E w \in Workers : go[w].pc = "failtx" /\ go[w].job = j]_vars

(* The inductive invariant: the facts above and what they rest on.         *)
DownIsQuiet ==
  server = "down" => /\ \A a \in Actors : go[a] = At("off")
                     /\ doomed = {}
                     /\ \A r \in Readers : rd[r].pc # "read"
IdleHoldsNothing ==
  \A a \in Actors :
    /\ Holding(a) <=> go[a].pc \notin {"off", "claim", "idle"}
    /\ Holding(a) => go[a].att # 0
HandlerOwnsNoRow ==
  \A h \in Handlers : /\ Holding(h) => rows[go[h].job].status = "none"
                      /\ Holding(h) => go[h].att = 1
                      /\ go[h].pc \notin {"claim", "idle", "failtx"}
ArtifactInPlace ==
  \A a \in Actors : go[a].pc = "complete" => disk[go[a].job] = go[a].att
DoomedIsPurged == \A j \in doomed : rows[j].status = "purged"
LookupStillHolds ==
  \A r \in Readers :
    /\ rd[r].pc # "off" => rd[r].job \in Jobs
    /\ rd[r].pc = "off" => rd[r].code = 0
    /\ rd[r].pc = "read" =>
         /\ rd[r].code = 0
         /\ \/ /\ rows[rd[r].job].status = "succeeded"
               /\ rows[rd[r].job].pdf = rd[r].want
            \/ /\ rows[rd[r].job].status = "purged"
               /\ disk[rd[r].job] \in {0, rd[r].want}
UnfinishedHasLimit ==
  \A j \in Jobs : rows[j].status \in {"queued", "running"} => rows[j].max = Limit
BootedIfUsed == boots = 0 => server = "down" /\ \A j \in Jobs : rows[j].status = "none"

GoroutineInv ==
  /\ NoDoubleRender /\ WorkerOwnsRow
  /\ IdleHoldsNothing /\ HandlerOwnsNoRow /\ ArtifactInPlace
RowInv ==
  /\ ArtifactMatchesRow /\ AttemptBound
  /\ DoomedIsPurged /\ UnfinishedHasLimit /\ BootedIfUsed
ReaderInv == ServedMatchesDigest /\ GoneOnlyAfterPurge /\ LookupStillHolds

IInv == TypeOK /\ GoroutineInv /\ RowInv /\ ReaderInv /\ DownIsQuiet

-----------------------------------------------------------------------------
(* Liveness.                                                               *)

(* Whatever is queued is driven to an end, with every nudge lost and       *)
(* across crashes and interrupts, unless its record is lost in Fail's      *)
(* transaction and no restart follows.                                     *)
EveryJobSettles ==
  \A j \in Jobs : rows[j].status = "queued" ~>
    (rows[j].status \in Terminal \cup {"purged"} \/ Stranded(j))

(* An interrupted server exits, although its workers keep claiming while   *)
(* the queue is not empty.                                                 *)
ShutdownCompletes == server = "draining" ~> server = "down"

-----------------------------------------------------------------------------
(* The abstract promise, see JobLifecycle.                                 *)

Lifecycle == INSTANCE JobLifecycle WITH
  state <- [j \in Jobs |-> rows[j].status],
  tries <- [j \in Jobs |-> rows[j].attempts],
  doc <- [j \in Jobs |-> IF rows[j].status = "succeeded" THEN disk[j] ELSE 0]

(* What a client sees of a job through the API is a JobLifecycle.          *)
ImplementsLifecycle == Lifecycle!Spec

(* What the jobs page sees of a job through listings, see JobListing. *)
Listed(status) ==
  CASE status \in Terminal -> "finished"
    [] status \in {"queued", "running"} -> "unfinished"
    [] OTHER -> status
Listing == INSTANCE JobListing WITH
  Keys <- Jobs, server <- [j \in Jobs |-> Listed(rows[j].status)]

(* The jobs page may rely on what it relies on: between two listings no    *)
(* job goes another way than JobListing lets it, in any life.              *)
ImplementsListing == Listing!Spec

=============================================================================
