------------------------- MODULE RenderServiceProofs -------------------------
(***************************************************************************)
(* What RenderService guarantees for every set of jobs, workers, handlers  *)
(* and readers, every -max-attempts, any number of restarts and with every *)
(* fault: its types, its inductive invariant and what follows from it.     *)
(***************************************************************************)
EXTENDS RenderService, TLAPS

-----------------------------------------------------------------------------
(* Rows.                                                                   *)

(* Every statement of the store leaves a well-formed row behind. *)
LEMMA RowTypes ==
  ASSUME NEW r \in Row, NEW p \in Nat, NEW e \in Errors
  PROVE  /\ NoRow \in Row /\ EnqueuedRow \in Row /\ SyncRow(p, e) \in Row
         /\ ClaimedRow(r) \in Row /\ CompletedRow(r, p) \in Row
         /\ FailedRow(r, e) \in Row /\ RecoveredRow(r) \in Row
         /\ PurgedRow(r) \in Row
         /\ [r EXCEPT !.gate = FALSE] \in Row
<1>1. Limit \in Nat
  BY MaxAttemptsAssumption DEF Limit
<1>2. NoRow \in Row
  BY DEF NoRow, Row, Status, Errors
<1>3. EnqueuedRow \in Row /\ SyncRow(p, e) \in Row /\ PurgedRow(r) \in Row
  BY <1>1 DEF EnqueuedRow, SyncRow, PurgedRow, NoRow, Row, Status, Errors
<1>4. ClaimedRow(r) \in Row
  <2>1. r.attempts + 1 \in Nat /\ "running" \in Status
    BY DEF Row, Status
  <2>2. QED
    BY <2>1 DEF ClaimedRow, Row
<1>8. CompletedRow(r, p) \in Row
  BY DEF CompletedRow, Row, Status, Errors
<1>5. FailedRow(r, e) \in Row /\ RecoveredRow(r) \in Row
  BY DEF FailedRow, RecoveredRow, Row, Status, Errors
<1>6. [r EXCEPT !.gate = FALSE] \in Row
  BY DEF Row
<1>7. QED
  BY <1>2, <1>3, <1>4, <1>5, <1>6, <1>8

(* A commit only makes snapshots stale. *)
LEMMA CommittedKeeps ==
  ASSUME NEW g \in [Actors -> Goroutine]
  PROVE  /\ Committed(g) \in [Actors -> Goroutine]
         /\ \A a \in Actors : /\ Committed(g)[a].pc = g[a].pc
                              /\ Committed(g)[a].job = g[a].job
                              /\ Committed(g)[a].att = g[a].att
                              /\ Committed(g)[a].err = g[a].err
BY DEF Committed, Goroutine

(* What a goroutine is left with when it holds no job, or takes one. *)
LEMMA GoroutineTypes ==
  /\ \A pc \in PCs : At(pc) \in Goroutine
  /\ \A j \in Jobs, n \in Nat : Take(j, n) \in Goroutine
  /\ \A a \in Actors : Home(a) \in Goroutine
<1>1. \A pc \in PCs : At(pc) \in Goroutine
  BY DEF At, Goroutine, Errors, PCs
<1>2. "off" \in PCs /\ "claim" \in PCs /\ "idle" \in PCs /\ "acquire" \in PCs
  BY DEF PCs
<1>3. \A j \in Jobs, n \in Nat : Take(j, n) \in Goroutine
  BY <1>1, <1>2 DEF Take, Goroutine
<1>4. \A a \in Actors : Home(a) \in Goroutine
  BY <1>1, <1>2 DEF Home
<1>5. QED
  BY <1>1, <1>3, <1>4

(* At gives a goroutine no job and no attempt. *)
LEMMA AtFields == \A pc : At(pc).job = 0 /\ At(pc).pc = pc /\ At(pc).att = 0
BY DEF At

(* The points in the code at which a goroutine holds no job. *)
LEMMA AtTypes ==
  /\ At("off") \in Goroutine /\ At("claim") \in Goroutine
  /\ At("idle") \in Goroutine
BY GoroutineTypes DEF PCs

-----------------------------------------------------------------------------
(* Types.                                                                  *)

(* A step of a goroutine through Render and StoreArtifact keeps the types. *)
LEMMA RenderStepType ==
  ASSUME TypeOK, NEW a \in Actors, RenderStep(a)
  PROVE  TypeOK'
<1>1. CASE Acquire(a)
  BY <1>1 DEF Acquire, TypeOK, Goroutine, PCs
<1>2. ASSUME NEW e \in {"error", "canceled"}, RenderFails(a, e)
      PROVE  TypeOK'
  BY ZenonT(60), <1>2 DEF RenderFails, TypeOK, Goroutine, PCs, Errors
<1>3. CASE RenderSucceeds(a)
  BY <1>3 DEF RenderSucceeds, TypeOK, Goroutine, PCs
<1>4. CASE StoreArtifact(a)
  <2>1. go[a].job \in Jobs \cup {0} /\ go[a].att \in Nat
    BY DEF TypeOK, Goroutine
  <2>2. go' \in [Actors -> Goroutine]
    BY <1>4 DEF StoreArtifact, TypeOK, Goroutine, PCs
  <2>3. disk' \in [Jobs -> Nat]
    BY <1>4, <2>1 DEF StoreArtifact, TypeOK
  <2>4. QED
    BY <1>4, <2>2, <2>3 DEF StoreArtifact, TypeOK
<1>5. QED
  BY <1>1, <1>2, <1>3, <1>4 DEF RenderStep

(* A step of a worker keeps the types. *)
LEMMA WorkerStepType ==
  ASSUME TypeOK, NEW w \in Workers, WorkerStep(w)
  PROVE  TypeOK'
<1>0. w \in Actors
  BY DEF Actors
<1>1. CASE Claim(w)
  <2>1. PICK j \in Jobs :
          /\ rows' = [rows EXCEPT ![j] = ClaimedRow(rows[j])]
          /\ go' = Committed([go EXCEPT ![w] = Take(j, rows[j].attempts + 1)])
    BY <1>1 DEF Claim
  <2>2. rows[j] \in Row /\ rows[j].attempts + 1 \in Nat
    BY DEF TypeOK, Row
  <2>3. rows' \in [Jobs -> Row]
    BY <2>1, <2>2, RowTypes DEF TypeOK, Errors
  <2>4. [go EXCEPT ![w] = Take(j, rows[j].attempts + 1)] \in [Actors -> Goroutine]
    BY <2>2, <1>0, GoroutineTypes DEF TypeOK
  <2>5. go' \in [Actors -> Goroutine]
    BY <2>1, <2>4, CommittedKeeps
  <2>6. QED
    BY <1>1, <2>3, <2>5 DEF Claim, TypeOK
<1>2. CASE ClaimNone(w)
  BY <1>0, <1>2, AtTypes DEF ClaimNone, TypeOK
<1>3. CASE Wake(w)
  <2>1. nudge' \in 0..NudgeCap
    BY <1>3, BoundsAssumption DEF Wake, TypeOK
  <2>2. QED
    BY <1>0, <1>3, <2>1, AtTypes DEF Wake, TypeOK
<1>4. CASE Tick(w)
  BY <1>0, <1>4, AtTypes DEF Tick, TypeOK
<1>5. CASE Quit(w)
  BY <1>0, <1>5, AtTypes DEF Quit, TypeOK
<1>6. CASE RenderStep(w)
  BY <1>0, <1>6, RenderStepType
<1>7. CASE StoreFails(w)
  BY ZenonT(60), <1>0, <1>7 DEF StoreFails, TypeOK, Goroutine, PCs, Errors
<1>8. CASE Complete(w)
  <2>1. rows' \in [Jobs -> Row]
    <3>1. go[w].att \in Nat
      BY <1>0 DEF TypeOK, Goroutine
    <3>2. \A j \in Jobs : CompletedRow(rows[j], go[w].att) \in Row
      BY <3>1, RowTypes DEF TypeOK, Errors
    <3>3. QED
      BY <1>8, <3>2 DEF Complete, TypeOK
  <2>2. go' \in [Actors -> Goroutine]
    BY <1>0, <1>8, AtTypes, CommittedKeeps DEF Complete, TypeOK
  <2>3. QED
    BY <1>8, <2>1, <2>2 DEF Complete, TypeOK
<1>9. CASE CompleteError(w)
  BY <1>0, <1>9, AtTypes DEF CompleteError, TypeOK
<1>10. CASE FailBegin(w)
  BY <1>0, <1>10, AtTypes DEF FailBegin, TypeOK, Goroutine, PCs
<1>11. CASE FailCommit(w)
  <2>1. rows' \in [Jobs -> Row]
    <3>1. go[w].err \in Errors
      BY <1>0 DEF TypeOK, Goroutine
    <3>2. \A j \in Jobs : FailedRow(rows[j], go[w].err) \in Row
      BY <3>1, RowTypes DEF TypeOK
    <3>3. QED
      BY <1>11, <3>2 DEF FailCommit, TypeOK
  <2>2. go' \in [Actors -> Goroutine]
    BY <1>0, <1>11, AtTypes, CommittedKeeps DEF FailCommit, TypeOK
  <2>3. QED
    BY <1>11, <2>1, <2>2 DEF FailCommit, TypeOK
<1>12. CASE FailConflict(w)
  BY <1>0, <1>12, AtTypes DEF FailConflict, TypeOK
<1>13. QED
  BY <1>1, <1>2, <1>3, <1>4, <1>5, <1>6, <1>7, <1>8, <1>9, <1>10, <1>11, <1>12
     DEF WorkerStep

(* A step of a synchronous handler keeps the types. *)
LEMMA HandlerStepType ==
  ASSUME TypeOK, NEW h \in Handlers, HandlerStep(h)
  PROVE  TypeOK'
<1>0. h \in Actors
  BY DEF Actors
<1>1. ASSUME NEW j \in Jobs, SyncStart(h, j)
      PROVE  TypeOK'
  BY <1>0, <1>1, GoroutineTypes DEF SyncStart, TypeOK
<1>2. CASE RenderStep(h)
  BY <1>0, <1>2, RenderStepType
<1>3. CASE SyncRecord(h)
  <2>1. SyncRow(1, "") \in Row
    BY DEF SyncRow, NoRow, Row, Status, Errors
  <2>2. rows' \in [Jobs -> Row]
    BY <1>3, <2>1 DEF SyncRecord, TypeOK
  <2>3. go' \in [Actors -> Goroutine]
    BY <1>0, <1>3, AtTypes, CommittedKeeps DEF SyncRecord, TypeOK
  <2>4. QED
    BY <1>3, <2>2, <2>3 DEF SyncRecord, TypeOK
<1>4. CASE SyncRecordFailure(h)
  <2>1. go[h].err \in Errors
    BY <1>0 DEF TypeOK, Goroutine
  <2>2. SyncRow(0, go[h].err) \in Row
    BY <2>1 DEF SyncRow, NoRow, Row, Status, Errors
  <2>3. rows' \in [Jobs -> Row]
    BY <1>4, <2>2 DEF SyncRecordFailure, TypeOK
  <2>4. go' \in [Actors -> Goroutine]
    BY <1>0, <1>4, AtTypes, CommittedKeeps DEF SyncRecordFailure, TypeOK
  <2>5. QED
    BY <1>4, <2>3, <2>4 DEF SyncRecordFailure, TypeOK
<1>5. CASE SyncGivesUp(h)
  BY <1>0, <1>5, AtTypes DEF SyncGivesUp, TypeOK
<1>6. QED
  BY <1>1, <1>2, <1>3, <1>4, <1>5 DEF HandlerStep

(* Starting, interrupting and ending the process keeps the types. *)
LEMMA ProcessStepType ==
  ASSUME TypeOK, ProcessStep
  PROVE  TypeOK'
<1>1. CASE Boot
  <2>1. rows' \in [Jobs -> Row]
    <3>1. \A j \in Jobs : RecoveredRow(rows[j]) \in Row
      BY DEF RecoveredRow, TypeOK, Row, Status
    <3>2. QED
      BY <1>1, <3>1 DEF Boot
  <2>2. go' \in [Actors -> Goroutine]
    BY <1>1, GoroutineTypes DEF Boot
  <2>3. QED
    BY <1>1, <2>1, <2>2 DEF Boot, TypeOK
<1>2. CASE Interrupt
  BY <1>2 DEF Interrupt, TypeOK
<1>3. ASSUME ProcessEnds, UNCHANGED <<rows, disk, boots>>
      PROVE  TypeOK'
  <2>1. NoReader \in Reader
    BY DEF NoReader, Reader, Codes
  <2>2. nudge' \in 0..NudgeCap
    BY <1>3, BoundsAssumption DEF ProcessEnds
  <2>3. QED
    BY <1>3, <2>1, <2>2, AtTypes DEF ProcessEnds, TypeOK
<1>4. QED
  BY <1>1, <1>2, <1>3 DEF ProcessStep, Exit, Crash

(* The remaining steps, of clients, the clock and the janitor. *)
LEMMA OtherStepType ==
  ASSUME TypeOK, LookupStillHolds,
         \/ \E j \in Jobs : PostJob(j) \/ GateOpens(j)
         \/ \E r \in Readers : ReaderStep(r)
         \/ JanitorStep
         \/ KeysCommand
  PROVE  TypeOK'
<1>1. ASSUME NEW j \in Jobs, PostJob(j)
      PROVE  TypeOK'
  <2>1. EnqueuedRow \in Row
    <3>1. Limit \in Nat
      BY MaxAttemptsAssumption DEF Limit
    <3>2. QED
      BY <3>1 DEF EnqueuedRow, NoRow, Row, Status, Errors
  <2>2. go' \in [Actors -> Goroutine] /\ nudge' \in 0..NudgeCap
    BY <1>1, CommittedKeeps, BoundsAssumption DEF PostJob, TypeOK
  <2>3. QED
    BY <1>1, <2>1, <2>2 DEF PostJob, TypeOK
<1>2. ASSUME NEW j \in Jobs, GateOpens(j)
      PROVE  TypeOK'
  BY <1>2 DEF GateOpens, TypeOK, Row
<1>3. ASSUME NEW r \in Readers, NEW j \in Jobs, GetJob(r, j)
      PROVE  TypeOK'
  <2>1. rows[j].pdf \in Nat
    BY DEF TypeOK, Row
  <2>2. rd' \in [Readers -> Reader]
    <3>1. \A c \in Codes :
            [NoReader EXCEPT !.pc = "done", !.job = j, !.code = c] \in Reader
      BY ZenonT(60) DEF NoReader, Reader, Codes
    <3>2. [NoReader EXCEPT !.pc = "read", !.job = j, !.want = rows[j].pdf] \in Reader
      BY ZenonT(60), <2>1 DEF NoReader, Reader, Codes
    <3>3. 404 \in Codes /\ 409 \in Codes
      BY DEF Codes
    <3>4. QED
      BY <1>3, <3>1, <3>2, <3>3 DEF GetJob, TypeOK
  <2>3. QED
    BY <1>3, <2>2 DEF GetJob, TypeOK
<1>4. ASSUME NEW r \in Readers, ReadArtifact(r)
      PROVE  TypeOK'
  BY <1>4 DEF ReadArtifact, LookupStillHolds, TypeOK, Reader, Codes
<1>8. ASSUME NEW r \in Readers, NEW j \in Jobs, GetJobFails(r, j)
      PROVE  TypeOK'
  <2>1. [NoReader EXCEPT !.pc = "done", !.job = j, !.code = 500] \in Reader
    <3>1. \A c \in Codes :
            [NoReader EXCEPT !.pc = "done", !.job = j, !.code = c] \in Reader
      BY ZenonT(60) DEF NoReader, Reader, Codes
    <3>2. QED
      BY <3>1 DEF Codes
  <2>2. QED
    BY <1>8, <2>1 DEF GetJobFails, TypeOK
<1>5. ASSUME NEW S \in SUBSET Jobs, Purge(S)
      PROVE  TypeOK'
  <2>1. \A j \in Jobs : PurgedRow(rows[j]) \in Row
    BY DEF PurgedRow, NoRow, Row, Status, Errors
  <2>2. rows' \in [Jobs -> Row]
    BY <1>5, <2>1 DEF Purge, TypeOK
  <2>3. go' \in [Actors -> Goroutine]
    BY <1>5, CommittedKeeps DEF Purge, TypeOK
  <2>4. doomed' \in SUBSET Jobs
    BY <1>5 DEF Purge
  <2>5. QED
    BY <1>5, <2>2, <2>3, <2>4 DEF Purge, TypeOK
<1>6. ASSUME NEW j \in Jobs, RemoveArtifact(j) \/ RemoveFails(j)
      PROVE  TypeOK'
  BY <1>6 DEF RemoveArtifact, RemoveFails, TypeOK
<1>7. CASE KeysCommand
  BY <1>7, CommittedKeeps DEF KeysCommand, TypeOK
<1>9. QED
  BY <1>1, <1>2, <1>3, <1>4, <1>5, <1>6, <1>7, <1>8 DEF ReaderStep, JanitorStep

-----------------------------------------------------------------------------
(* The inductive invariant.  First, what steps of one goroutine have in    *)
(* common, so that each action has only its own effect left to justify.    *)

NoJobPCs == {"off", "claim", "idle"}

(* A goroutine that keeps its job, or drops it, without touching rows.     *)
LEMMA MoveKeeps ==
  ASSUME IInv, TypeOK', NEW a \in Actors,
         go[a].pc # "off",
         \A b \in Actors \ {a} : go'[b] = go[b],
         go'[a].job \in {0, go[a].job},
         go'[a].job # 0 => go'[a].att = go[a].att,
         go'[a].job # 0 <=> go'[a].pc \notin NoJobPCs,
         go'[a].pc = "complete" => go[a].pc = "complete",
         a \in Handlers => go'[a].pc \notin {"claim", "idle", "failtx"},
         UNCHANGED <<rows, disk, server, boots, doomed, rd>>
  PROVE  IInv'
<1> USE DEF NoJobPCs
<1>1. NoDoubleRender'
  BY DEF IInv, GoroutineInv, NoDoubleRender, Holding
<1>2. WorkerOwnsRow'
  BY DEF IInv, GoroutineInv, WorkerOwnsRow, Holding, Actors
<1>3. IdleHoldsNothing'
  <2>1. ASSUME NEW b \in Actors
        PROVE  /\ go'[b].job # 0 <=> go'[b].pc \notin NoJobPCs
               /\ go'[b].job # 0 => go'[b].att # 0
    BY <2>1 DEF IInv, GoroutineInv, IdleHoldsNothing, Holding
  <2>2. QED
    BY <2>1 DEF IdleHoldsNothing, Holding
<1>4. HandlerOwnsNoRow'
  BY DEF IInv, GoroutineInv, HandlerOwnsNoRow, Holding, Actors
<1>5. ArtifactInPlace'
  BY DEF IInv, GoroutineInv, ArtifactInPlace
<1>6. RowInv'
  BY DEF IInv, RowInv, ArtifactMatchesRow, AttemptBound, DoomedIsPurged,
         UnfinishedHasLimit, BootedIfUsed
<1>7. ReaderInv'
  BY DEF IInv, ReaderInv, ServedMatchesDigest, GoneOnlyAfterPurge,
         LookupStillHolds
<1>8. DownIsQuiet'
  <2>1. server # "down"
    BY AtFields DEF IInv, DownIsQuiet
  <2>2. QED
    BY <2>1 DEF DownIsQuiet
<1>9. QED
  BY <1>1, <1>2, <1>3, <1>4, <1>5, <1>6, <1>7, <1>8 DEF IInv, GoroutineInv

(* A goroutine that records what became of its job, and drops the job.     *)
LEMMA SettleKeeps ==
  ASSUME IInv, TypeOK', NEW a \in Actors, NEW j \in Jobs,
         go[a].job = j, Holding(a),
         \A b \in Actors \ {a} : /\ go'[b].pc = go[b].pc
                                 /\ go'[b].job = go[b].job
                                 /\ go'[b].att = go[b].att,
         go'[a].job = 0,
         go'[a].pc \in {"claim", "off"},
         a \in Handlers => go'[a].pc = "off",
         \A k \in Jobs \ {j} : rows'[k] = rows[k],
         rows'[j].status \in {"queued", "succeeded", "failed"},
         rows'[j].status = "queued" => rows'[j].max = Limit,
         rows'[j].status = "succeeded" =>
           rows'[j].pdf # 0 /\ disk[j] = rows'[j].pdf,
         rows'[j].attempts + (IF rows'[j].status = "queued" THEN 2 ELSE 1)
           <= rows'[j].max + boots,
         UNCHANGED <<disk, server, boots, doomed, rd>>
  PROVE  IInv'
<1>1. rows[j].status \in {"running", "none"}
  BY DEF IInv, GoroutineInv, WorkerOwnsRow, HandlerOwnsNoRow, Actors
<1>2. \A b \in Actors \ {a} : go[b].job # j
  BY DEF IInv, GoroutineInv, NoDoubleRender, Holding
<1>3. server # "down"
  BY AtFields DEF IInv, DownIsQuiet, Holding
<1>4. NoDoubleRender'
  BY DEF IInv, GoroutineInv, NoDoubleRender, Holding
<1>5. WorkerOwnsRow'
  <2>1. ASSUME NEW w \in Workers, Holding(w)'
        PROVE  /\ rows'[go'[w].job].status = "running"
               /\ rows'[go'[w].job].attempts = go'[w].att
    <3>1. w \in Actors \ {a} /\ go[w].job # 0 /\ go[w].job # j
      BY <1>2, <2>1 DEF Holding, Actors
    <3>2. go[w].job \in Jobs
      BY <3>1 DEF IInv, TypeOK, Goroutine
    <3>3. QED
      BY <3>1, <3>2 DEF IInv, GoroutineInv, WorkerOwnsRow, Holding
  <2>2. QED
    BY <2>1 DEF WorkerOwnsRow
<1>6. IdleHoldsNothing'
  <2>1. ASSUME NEW b \in Actors
        PROVE  /\ go'[b].job # 0 <=> go'[b].pc \notin {"off", "claim", "idle"}
               /\ go'[b].job # 0 => go'[b].att # 0
    BY <2>1 DEF IInv, GoroutineInv, IdleHoldsNothing, Holding
  <2>2. QED
    BY <2>1 DEF IdleHoldsNothing, Holding
<1>7. HandlerOwnsNoRow'
  <2>1. ASSUME NEW h \in Handlers, h # a
        PROVE  /\ Holding(h)' => rows'[go'[h].job].status = "none"
               /\ Holding(h)' => go'[h].att = 1
               /\ go'[h].pc \notin {"claim", "idle", "failtx"}
    <3>1. h \in Actors \ {a} /\ go[h].job # j
      BY <1>2, <2>1 DEF Actors
    <3>2. go[h].job # 0 => go[h].job \in Jobs
      BY <3>1 DEF IInv, TypeOK, Goroutine
    <3>3. QED
      BY <3>1, <3>2 DEF IInv, GoroutineInv, HandlerOwnsNoRow, Holding
  <2>2. QED
    BY <2>1 DEF HandlerOwnsNoRow, Holding
<1>8. ArtifactInPlace'
  BY DEF IInv, GoroutineInv, ArtifactInPlace
<1>9. ArtifactMatchesRow' /\ AttemptBound' /\ UnfinishedHasLimit'
  BY DEF IInv, RowInv, ArtifactMatchesRow, AttemptBound, UnfinishedHasLimit
<1>10. DoomedIsPurged'
  BY <1>1 DEF IInv, RowInv, DoomedIsPurged, TypeOK
<1>11. BootedIfUsed'
  BY <1>3 DEF IInv, RowInv, BootedIfUsed
<1>12. ReaderInv'
  <2>1. \A r \in Readers : rd[r].pc # "off" => rd[r].job \in Jobs
    BY DEF IInv, ReaderInv, LookupStillHolds
  <2>2. LookupStillHolds'
    BY <1>1, <2>1 DEF IInv, ReaderInv, LookupStillHolds
  <2>3. GoneOnlyAfterPurge'
    BY <1>1, <2>1 DEF IInv, ReaderInv, GoneOnlyAfterPurge, LookupStillHolds
  <2>4. ServedMatchesDigest'
    BY DEF IInv, ReaderInv, ServedMatchesDigest
  <2>5. QED
    BY <2>2, <2>3, <2>4 DEF ReaderInv
<1>13. DownIsQuiet'
  BY <1>3 DEF DownIsQuiet
<1>14. QED
  BY <1>4, <1>5, <1>6, <1>7, <1>8, <1>9, <1>10, <1>11, <1>12, <1>13
     DEF IInv, GoroutineInv, RowInv

(* Going home, or to the select of loop, without having touched a row.     *)
LEMMA GoHomeKeeps ==
  ASSUME IInv, TypeOK', NEW a \in Actors, NEW pc \in NoJobPCs,
         go[a].pc # "off",
         go' = [go EXCEPT ![a] = At(pc)],
         a \in Handlers => pc = "off",
         UNCHANGED <<rows, disk, server, boots, doomed, rd>>
  PROVE  IInv'
<1>1. go'[a] = At(pc) /\ \A b \in Actors \ {a} : go'[b] = go[b]
  BY DEF IInv, TypeOK
<1>2. go'[a].job = 0 /\ go'[a].pc = pc
  BY <1>1, AtFields
<1>3. go'[a].pc # "complete"
  BY <1>2 DEF NoJobPCs
<1>4. QED
  BY <1>1, <1>2, <1>3, MoveKeeps DEF NoJobPCs

(* Going on with the job at another point in the code. *)
LEMMA GoOnKeeps ==
  ASSUME IInv, TypeOK', NEW a \in Actors,
         go[a].pc \notin NoJobPCs,
         \A b \in Actors \ {a} : go'[b] = go[b],
         go'[a].pc \notin NoJobPCs \cup {"complete"},
         go'[a].job = go[a].job,
         go'[a].att = go[a].att,
         a \in Handlers => go'[a].pc # "failtx",
         UNCHANGED <<rows, disk, server, boots, doomed, rd>>
  PROVE  IInv'
<1>1. go[a].job # 0
  BY DEF IInv, GoroutineInv, IdleHoldsNothing, Holding, NoJobPCs
<1>2. QED
  BY <1>1, MoveKeeps DEF NoJobPCs

(* Rendering and storing the artifact. *)
LEMMA RenderStepInv ==
  ASSUME IInv, TypeOK', NEW a \in Actors, RenderStep(a)
  PROVE  IInv'
<1>0. go \in [Actors -> Goroutine]
  BY DEF IInv, TypeOK
<1>1. CASE Acquire(a)
  <2>1. /\ \A b \in Actors \ {a} : go'[b] = go[b]
        /\ go'[a].pc = "compile"
        /\ go'[a].job = go[a].job /\ go'[a].att = go[a].att
    BY <1>0, <1>1 DEF Acquire, Goroutine
  <2>2. QED
    BY <1>1, <2>1, GoOnKeeps DEF Acquire, NoJobPCs
<1>2. ASSUME NEW e \in {"error", "canceled"}, RenderFails(a, e)
      PROVE  IInv'
  <2>1. /\ \A b \in Actors \ {a} : go'[b] = go[b]
        /\ go'[a].pc = "fail"
        /\ go'[a].job = go[a].job /\ go'[a].att = go[a].att
    BY <1>0, <1>2 DEF RenderFails, Goroutine
  <2>2. QED
    BY <1>2, <2>1, GoOnKeeps DEF RenderFails, Rendering, NoJobPCs
<1>3. CASE RenderSucceeds(a)
  <2>1. /\ \A b \in Actors \ {a} : go'[b] = go[b]
        /\ go'[a].pc = "store"
        /\ go'[a].job = go[a].job /\ go'[a].att = go[a].att
    BY <1>0, <1>3 DEF RenderSucceeds, Goroutine
  <2>2. QED
    BY <1>3, <2>1, GoOnKeeps DEF RenderSucceeds, NoJobPCs
<1>4. CASE StoreArtifact(a)
  <2> DEFINE j == go[a].job
  <2>1. j \in Jobs /\ go[a].pc = "store" /\ Holding(a)
    BY <1>0, <1>4 DEF StoreArtifact, IInv, GoroutineInv, IdleHoldsNothing,
       Holding, Goroutine
  <2>2. rows[j].status \in {"running", "none"}
    BY <2>1 DEF IInv, GoroutineInv, WorkerOwnsRow, HandlerOwnsNoRow, Actors
  <2>3. /\ go'[a].pc = "complete" /\ go'[a].job = j /\ go'[a].att = go[a].att
        /\ \A b \in Actors \ {a} : go'[b] = go[b] /\ go[b].job # j
    BY <1>0, <1>4, <2>1
       DEF StoreArtifact, Goroutine, IInv, GoroutineInv, NoDoubleRender
  <2>4. disk'[j] = go[a].att /\ \A k \in Jobs \ {j} : disk'[k] = disk[k]
    BY <1>4, <2>1 DEF StoreArtifact, IInv, TypeOK
  <2>5. UNCHANGED <<rows, server, boots, doomed, rd>>
    BY <1>4 DEF StoreArtifact
  <2>6. NoDoubleRender' /\ WorkerOwnsRow' /\ HandlerOwnsNoRow'
    BY <2>1, <2>3, <2>5 DEF IInv, GoroutineInv, NoDoubleRender, WorkerOwnsRow,
       HandlerOwnsNoRow, Holding, Actors
  <2>7. IdleHoldsNothing'
    BY <2>1, <2>3 DEF IInv, GoroutineInv, IdleHoldsNothing, Holding
  <2>8. ArtifactInPlace'
    <3>1. ASSUME NEW b \in Actors, b # a, go[b].pc = "complete"
          PROVE  disk'[go[b].job] = go[b].att
      <4>1. go[b].job \in Jobs \ {j}
        BY <1>0, <2>3, <3>1
           DEF Goroutine, IInv, GoroutineInv, IdleHoldsNothing, Holding
      <4>2. QED
        BY <2>4, <3>1, <4>1 DEF IInv, GoroutineInv, ArtifactInPlace
    <3>2. QED
      BY <2>3, <2>4, <3>1 DEF ArtifactInPlace
  <2>9. RowInv'
    BY <2>2, <2>4, <2>5 DEF IInv, RowInv, ArtifactMatchesRow, AttemptBound,
       DoomedIsPurged, UnfinishedHasLimit, BootedIfUsed
  <2>10. ReaderInv'
    BY <2>2, <2>4, <2>5 DEF IInv, ReaderInv, ServedMatchesDigest,
       GoneOnlyAfterPurge, LookupStillHolds
  <2>11. DownIsQuiet'
    <3>1. server # "down"
      BY <2>1, AtFields DEF IInv, DownIsQuiet
    <3>2. QED
      BY <2>5, <3>1 DEF DownIsQuiet
  <2>12. QED
    BY <2>6, <2>7, <2>8, <2>9, <2>10, <2>11 DEF IInv, GoroutineInv
<1>5. QED
  BY <1>1, <1>2, <1>3, <1>4 DEF RenderStep

(* A worker's own steps. *)
LEMMA WorkerStepInv ==
  ASSUME IInv, TypeOK', NEW w \in Workers, WorkerStep(w)
  PROVE  IInv'
<1>0. w \in Actors /\ w \notin Handlers /\ go \in [Actors -> Goroutine]
  BY ActorsAssumption DEF Actors, IInv, TypeOK
<1>1. CASE Claim(w)
  <2>1. PICK j \in Jobs :
          /\ Runnable(rows[j])
          /\ rows' = [rows EXCEPT ![j] = ClaimedRow(rows[j])]
          /\ go' = Committed([go EXCEPT ![w] = Take(j, rows[j].attempts + 1)])
    BY <1>1 DEF Claim, Oldest
  <2>2. go[w].pc = "claim" /\ UNCHANGED <<disk, server, boots, doomed, rd>>
    BY <1>1 DEF Claim
  <2>3. rows[j] \in Row /\ rows[j].attempts \in Nat /\ rows[j].status = "queued"
    BY <2>1 DEF IInv, TypeOK, Row, Runnable
  <2>4. /\ rows'[j].status = "running" /\ rows'[j].max = rows[j].max
        /\ rows'[j].attempts = rows[j].attempts + 1
        /\ \A k \in Jobs \ {j} : rows'[k] = rows[k]
    BY <2>1, <2>3 DEF ClaimedRow, Row, IInv, TypeOK
  <2>5. /\ go'[w].pc = "acquire" /\ go'[w].job = j
        /\ go'[w].att = rows[j].attempts + 1
        /\ \A b \in Actors \ {w} : /\ go'[b].pc = go[b].pc
                                 /\ go'[b].job = go[b].job
                                 /\ go'[b].att = go[b].att
    <3>1. Take(j, rows[j].attempts + 1) \in Goroutine
      BY <2>3, GoroutineTypes
    <3>2. \A n : Take(j, n).pc = "acquire" /\ Take(j, n).job = j /\ Take(j, n).att = n
      BY DEF Take, At
    <3>3. QED
      BY <1>0, <2>1, <3>1, <3>2 DEF Committed, Goroutine
  <2>6. \A b \in Actors : go[b].job # j
    <3>1. ASSUME NEW b \in Actors, go[b].job = j
          PROVE  FALSE
      <4>1. Holding(b)
        BY <3>1, JobsAssumption DEF Holding
      <4>2. QED
        BY <2>3, <3>1, <4>1
           DEF IInv, GoroutineInv, WorkerOwnsRow, HandlerOwnsNoRow, Actors
    <3>2. QED
      BY <3>1
  <2>7. j # 0
    BY JobsAssumption
  <2>8. server # "down"
    BY <1>0, <2>2, AtFields DEF IInv, DownIsQuiet
  <2>9. NoDoubleRender'
    BY <2>5, <2>6 DEF IInv, GoroutineInv, NoDoubleRender, Holding
  <2>10. WorkerOwnsRow'
    <3>1. ASSUME NEW v \in Workers, v # w, Holding(v)'
          PROVE  /\ rows'[go'[v].job].status = "running"
                 /\ rows'[go'[v].job].attempts = go'[v].att
      <4>1. v \in Actors \ {w} /\ go[v].job # 0
        BY <2>5, <3>1 DEF Holding, Actors
      <4>2. go[v].job \in Jobs \ {j}
        BY <1>0, <2>6, <4>1 DEF Goroutine
      <4>3. QED
        BY <2>4, <2>5, <4>1, <4>2 DEF IInv, GoroutineInv, WorkerOwnsRow, Holding
    <3>2. QED
      BY <2>4, <2>5, <3>1 DEF WorkerOwnsRow
  <2>11. IdleHoldsNothing'
    BY <2>3, <2>5, <2>7 DEF IInv, GoroutineInv, IdleHoldsNothing, Holding
  <2>12. HandlerOwnsNoRow'
    <3>1. ASSUME NEW h \in Handlers
          PROVE  /\ h \in Actors \ {w}
                 /\ go[h].job # 0 => go[h].job \in Jobs \ {j}
      BY <1>0, <2>6 DEF Goroutine, Actors
    <3>2. QED
      BY <2>4, <2>5, <3>1 DEF IInv, GoroutineInv, HandlerOwnsNoRow, Holding
  <2>13. ArtifactInPlace'
    BY <2>2, <2>5 DEF IInv, GoroutineInv, ArtifactInPlace
  <2>14. RowInv'
    <3>1. AttemptBound'
      BY <2>2, <2>3, <2>4 DEF IInv, RowInv, AttemptBound, TypeOK, Row
    <3>2. ArtifactMatchesRow' /\ UnfinishedHasLimit' /\ DoomedIsPurged'
      BY <2>2, <2>3, <2>4 DEF IInv, RowInv, ArtifactMatchesRow,
         UnfinishedHasLimit, DoomedIsPurged, TypeOK
    <3>3. BootedIfUsed'
      BY <2>2, <2>8 DEF IInv, RowInv, BootedIfUsed
    <3>4. QED
      BY <3>1, <3>2, <3>3 DEF RowInv
  <2>15. ReaderInv'
    BY <2>2, <2>3, <2>4 DEF IInv, ReaderInv, ServedMatchesDigest,
       GoneOnlyAfterPurge, LookupStillHolds
  <2>16. DownIsQuiet'
    BY <2>2, <2>8 DEF DownIsQuiet
  <2>17. QED
    BY <2>9, <2>10, <2>11, <2>12, <2>13, <2>14, <2>15, <2>16
       DEF IInv, GoroutineInv
<1>2. CASE ClaimNone(w)
  BY <1>0, <1>2, GoHomeKeeps DEF ClaimNone, NoJobPCs
<1>3. CASE Wake(w)
  BY <1>0, <1>3, GoHomeKeeps DEF Wake, NoJobPCs
<1>4. CASE Tick(w)
  BY <1>0, <1>4, GoHomeKeeps DEF Tick, NoJobPCs
<1>5. CASE Quit(w)
  BY <1>0, <1>5, GoHomeKeeps DEF Quit, NoJobPCs
<1>6. CASE RenderStep(w)
  BY <1>0, <1>6, RenderStepInv
<1>7. CASE StoreFails(w)
  <2>1. /\ \A b \in Actors \ {w} : go'[b] = go[b]
        /\ go'[w].pc = "fail"
        /\ go'[w].job = go[w].job /\ go'[w].att = go[w].att
    BY <1>0, <1>7 DEF StoreFails, Goroutine
  <2>2. QED
    BY <1>0, <1>7, <2>1, GoOnKeeps DEF StoreFails, NoJobPCs
<1>8. CASE Complete(w)
  <2> DEFINE j == go[w].job
  <2>1. j \in Jobs /\ Holding(w)
    BY <1>0, <1>8 DEF Complete, IInv, GoroutineInv, IdleHoldsNothing, Holding,
       Goroutine
  <2>2. /\ rows[j].status = "running" /\ rows[j] \in Row
        /\ disk[j] = go[w].att /\ go[w].att # 0
    BY <1>0, <1>8, <2>1 DEF Complete, IInv, TypeOK, GoroutineInv, WorkerOwnsRow,
       ArtifactInPlace, IdleHoldsNothing
  <2>3. /\ rows'[j].status = "succeeded" /\ rows'[j].pdf = go[w].att
        /\ rows'[j].attempts = rows[j].attempts /\ rows'[j].max = rows[j].max
        /\ \A k \in Jobs \ {j} : rows'[k] = rows[k]
    BY <1>8, <2>1, <2>2 DEF Complete, CompletedRow, Row, IInv, TypeOK
  <2>4. /\ go'[w].pc = "claim" /\ go'[w].job = 0
        /\ \A b \in Actors \ {w} : /\ go'[b].pc = go[b].pc
                                 /\ go'[b].job = go[b].job
                                 /\ go'[b].att = go[b].att
    <3>1. go' = Committed([go EXCEPT ![w] = At("claim")])
      BY <1>8 DEF Complete
    <3>2. QED
      BY <1>0, <3>1, AtTypes, AtFields DEF Committed, Goroutine
  <2>5. rows[j].attempts + 1 <= rows[j].max + boots
    BY <2>1, <2>2 DEF IInv, RowInv, AttemptBound
  <2>6. UNCHANGED <<disk, server, boots, doomed, rd>>
    BY <1>8 DEF Complete
  <2>7. QED
    BY <1>0, <2>1, <2>2, <2>3, <2>4, <2>5, <2>6, SettleKeeps
<1>9. CASE CompleteError(w)
  BY <1>0, <1>9, GoHomeKeeps DEF CompleteError, NoJobPCs
<1>10. CASE FailBegin(w)
  <2>1. CASE rows[go[w].job].status = "running"
    <3>1. /\ \A b \in Actors \ {w} : go'[b] = go[b]
          /\ go'[w].pc = "failtx"
          /\ go'[w].job = go[w].job /\ go'[w].att = go[w].att
      BY <1>0, <1>10, <2>1 DEF FailBegin, Goroutine
    <3>2. QED
      BY <1>0, <1>10, <3>1, GoOnKeeps DEF FailBegin, NoJobPCs
  <2>2. CASE rows[go[w].job].status # "running"
    BY <1>0, <1>10, <2>2, GoHomeKeeps DEF FailBegin, NoJobPCs
  <2>3. QED
    BY <2>1, <2>2
<1>11. CASE FailCommit(w)
  <2> DEFINE j == go[w].job
  <2>1. j \in Jobs /\ Holding(w)
    BY <1>0, <1>11 DEF FailCommit, IInv, GoroutineInv, IdleHoldsNothing, Holding,
       Goroutine
  <2>2. rows[j].status = "running" /\ rows[j] \in Row /\ rows[j].max = Limit
    BY <2>1 DEF IInv, TypeOK, GoroutineInv, WorkerOwnsRow, RowInv,
       UnfinishedHasLimit
  <2>3. /\ rows'[j].status = IF rows[j].attempts >= rows[j].max
                             THEN "failed" ELSE "queued"
        /\ rows'[j].attempts = rows[j].attempts /\ rows'[j].max = rows[j].max
        /\ \A k \in Jobs \ {j} : rows'[k] = rows[k]
    BY <1>11, <2>1, <2>2 DEF FailCommit, FailedRow, Row, IInv, TypeOK
  <2>4. /\ go'[w].pc = "claim" /\ go'[w].job = 0
        /\ \A b \in Actors \ {w} : /\ go'[b].pc = go[b].pc
                                 /\ go'[b].job = go[b].job
                                 /\ go'[b].att = go[b].att
    <3>1. go' = Committed([go EXCEPT ![w] = At("claim")])
      BY <1>11 DEF FailCommit
    <3>2. QED
      BY <1>0, <3>1, AtTypes, AtFields DEF Committed, Goroutine
  <2>5. /\ rows[j].attempts + 1 <= rows[j].max + boots
        /\ rows[j].attempts \in Nat /\ rows[j].max \in Nat
        /\ boots \in Nat /\ boots # 0
    BY <2>1, <2>2 DEF IInv, RowInv, AttemptBound, BootedIfUsed, TypeOK, Row
  <2>6. rows'[j].attempts + (IF rows'[j].status = "queued" THEN 2 ELSE 1)
          <= rows'[j].max + boots
    BY <2>3, <2>5
  <2>7. UNCHANGED <<disk, server, boots, doomed, rd>>
    BY <1>11 DEF FailCommit
  <2>8. QED
    BY <1>0, <2>1, <2>2, <2>3, <2>4, <2>6, <2>7, SettleKeeps
<1>12. CASE FailConflict(w)
  BY <1>0, <1>12, GoHomeKeeps DEF FailConflict, NoJobPCs
<1>13. QED
  BY <1>1, <1>2, <1>3, <1>4, <1>5, <1>6, <1>7, <1>8, <1>9, <1>10, <1>11, <1>12
     DEF WorkerStep

(* A synchronous handler's own steps. *)
LEMMA HandlerStepInv ==
  ASSUME IInv, TypeOK', NEW h \in Handlers, HandlerStep(h)
  PROVE  IInv'
<1>0. h \in Actors /\ h \notin Workers /\ go \in [Actors -> Goroutine]
  BY ActorsAssumption DEF Actors, IInv, TypeOK
<1>1. ASSUME NEW j \in Jobs, SyncStart(h, j)
      PROVE  IInv'
  <2>1. /\ rows[j].status = "none" /\ j # 0 /\ server # "down"
        /\ go[h].pc = "off"
        /\ \A b \in Actors : go[b].job # j
        /\ UNCHANGED <<rows, disk, server, boots, doomed, rd>>
    BY <1>1, JobsAssumption DEF SyncStart, Unused
  <2>2. /\ go'[h].pc = "acquire" /\ go'[h].job = j /\ go'[h].att = 1
        /\ \A b \in Actors \ {h} : go'[b] = go[b]
    BY <1>0, <1>1 DEF SyncStart, Take, At
  <2>3. NoDoubleRender'
    BY <2>1, <2>2 DEF IInv, GoroutineInv, NoDoubleRender, Holding
  <2>4. WorkerOwnsRow'
    BY <1>0, <2>1, <2>2 DEF IInv, GoroutineInv, WorkerOwnsRow, Holding, Actors
  <2>5. IdleHoldsNothing'
    BY <2>1, <2>2 DEF IInv, GoroutineInv, IdleHoldsNothing, Holding
  <2>6. HandlerOwnsNoRow'
    BY <2>1, <2>2 DEF IInv, GoroutineInv, HandlerOwnsNoRow, Holding, Actors
  <2>7. ArtifactInPlace'
    BY <2>1, <2>2 DEF IInv, GoroutineInv, ArtifactInPlace
  <2>8. RowInv'
    BY <2>1 DEF IInv, RowInv, ArtifactMatchesRow, AttemptBound,
       DoomedIsPurged, UnfinishedHasLimit, BootedIfUsed
  <2>9. ReaderInv'
    BY <2>1 DEF IInv, ReaderInv, ServedMatchesDigest, GoneOnlyAfterPurge,
       LookupStillHolds
  <2>10. DownIsQuiet'
    BY <2>1 DEF DownIsQuiet
  <2>11. QED
    BY <2>3, <2>4, <2>5, <2>6, <2>7, <2>8, <2>9, <2>10 DEF IInv, GoroutineInv
<1>2. CASE RenderStep(h)
  BY <1>0, <1>2, RenderStepInv
<1>3. CASE SyncRecord(h)
  <2> DEFINE j == go[h].job
  <2>1. j \in Jobs /\ Holding(h)
    BY <1>0, <1>3 DEF SyncRecord, IInv, GoroutineInv, IdleHoldsNothing, Holding,
       Goroutine
  <2>2. disk[j] = 1
    BY <1>0, <1>3, <2>1 DEF SyncRecord, IInv, GoroutineInv, HandlerOwnsNoRow,
       ArtifactInPlace
  <2>3. /\ rows'[j].status = "succeeded" /\ rows'[j].pdf = 1
        /\ rows'[j].attempts = 1 /\ rows'[j].max = 1
        /\ \A k \in Jobs \ {j} : rows'[k] = rows[k]
    BY <1>3, <2>1 DEF SyncRecord, SyncRow, NoRow, IInv, TypeOK
  <2>4. /\ go'[h].pc = "off" /\ go'[h].job = 0
        /\ \A b \in Actors \ {h} : /\ go'[b].pc = go[b].pc
                                 /\ go'[b].job = go[b].job
                                 /\ go'[b].att = go[b].att
    <3>1. go' = Committed([go EXCEPT ![h] = At("off")])
      BY <1>3 DEF SyncRecord
    <3>2. QED
      BY <1>0, <3>1, AtTypes, AtFields DEF Committed, Goroutine
  <2>5. boots \in Nat /\ boots # 0
    BY <1>0, <2>1, AtFields DEF IInv, TypeOK, RowInv, BootedIfUsed, DownIsQuiet,
       Holding
  <2>6. UNCHANGED <<disk, server, boots, doomed, rd>>
    BY <1>3 DEF SyncRecord
  <2>7. QED
    BY <1>0, <2>1, <2>2, <2>3, <2>4, <2>5, <2>6, SettleKeeps
<1>4. CASE SyncRecordFailure(h)
  <2> DEFINE j == go[h].job
  <2>1. j \in Jobs /\ Holding(h)
    BY <1>0, <1>4 DEF SyncRecordFailure, IInv, GoroutineInv, IdleHoldsNothing, Holding,
       Goroutine
  <2>2. /\ rows'[j].status = "failed"
        /\ rows'[j].attempts = 1 /\ rows'[j].max = 1
        /\ \A k \in Jobs \ {j} : rows'[k] = rows[k]
    BY <1>4, <2>1 DEF SyncRecordFailure, SyncRow, NoRow, IInv, TypeOK
  <2>3. /\ go'[h].pc = "off" /\ go'[h].job = 0
        /\ \A b \in Actors \ {h} : /\ go'[b].pc = go[b].pc
                                 /\ go'[b].job = go[b].job
                                 /\ go'[b].att = go[b].att
    <3>1. go' = Committed([go EXCEPT ![h] = At("off")])
      BY <1>4 DEF SyncRecordFailure
    <3>2. QED
      BY <1>0, <3>1, AtTypes, AtFields DEF Committed, Goroutine
  <2>4. boots \in Nat /\ boots # 0
    BY <1>0, <2>1, AtFields DEF IInv, TypeOK, RowInv, BootedIfUsed, DownIsQuiet,
       Holding
  <2>5. UNCHANGED <<disk, server, boots, doomed, rd>>
    BY <1>4 DEF SyncRecordFailure
  <2>6. QED
    BY <1>0, <2>1, <2>2, <2>3, <2>4, <2>5, SettleKeeps
<1>5. CASE SyncGivesUp(h)
  BY <1>0, <1>5, GoHomeKeeps DEF SyncGivesUp, NoJobPCs
<1>6. QED
  BY <1>1, <1>2, <1>3, <1>4, <1>5 DEF HandlerStep

(* Start, interrupt, exit and crash. *)
LEMMA ProcessStepInv ==
  ASSUME IInv, TypeOK', ProcessStep
  PROVE  IInv'
<1>1. CASE Boot
  <2>1. /\ server = "down" /\ server' = "up" /\ boots' = boots + 1
        /\ boots \in Nat
        /\ go' = [a \in Actors |-> Home(a)]
        /\ rows' = [j \in Jobs |-> RecoveredRow(rows[j])]
        /\ UNCHANGED <<disk, nudge, doomed, rd>>
    BY <1>1 DEF Boot, IInv, TypeOK
  <2>2. /\ \A a \in Actors : go'[a].job = 0 /\ go'[a].pc \in {"claim", "off"}
        /\ \A h \in Handlers : go'[h].pc = "off"
    BY <2>1, AtFields, ActorsAssumption DEF Home, Actors
  <2>3. \A j \in Jobs :
          /\ rows[j].status # "running" => rows'[j] = rows[j]
          /\ rows[j].status = "running" =>
               rows'[j].status = "queued" /\ rows'[j].attempts = rows[j].attempts
                 /\ rows'[j].max = rows[j].max
    BY <2>1 DEF RecoveredRow, IInv, TypeOK, Row
  <2>4. GoroutineInv'
    BY <2>2 DEF GoroutineInv, NoDoubleRender, WorkerOwnsRow, IdleHoldsNothing,
       HandlerOwnsNoRow, ArtifactInPlace, Holding, Actors
  <2>5. RowInv'
    <3>1. AttemptBound'
      <4>1. ASSUME NEW j \in Jobs, rows'[j].status \notin {"none", "purged"}
            PROVE  rows'[j].attempts + (IF rows'[j].status = "queued" THEN 2 ELSE 1)
                     <= rows'[j].max + boots'
        <5>1. rows[j].attempts \in Nat /\ rows[j].max \in Nat
          BY DEF IInv, TypeOK, Row
        <5>2. rows[j].status \notin {"none", "purged"}
          BY <2>3, <4>1
        <5>3. rows[j].attempts + (IF rows[j].status = "queued" THEN 2 ELSE 1)
                <= rows[j].max + boots
          BY <5>2 DEF IInv, RowInv, AttemptBound
        <5>4. QED
          BY <2>1, <2>3, <5>1, <5>3
      <4>2. QED
        BY <4>1 DEF AttemptBound
    <3>2. ArtifactMatchesRow'
      BY <2>1, <2>3 DEF IInv, RowInv, ArtifactMatchesRow
    <3>3. UnfinishedHasLimit'
      BY <2>3 DEF IInv, RowInv, UnfinishedHasLimit
    <3>4. DoomedIsPurged' /\ BootedIfUsed'
      BY <2>1, <2>3 DEF IInv, DownIsQuiet, DoomedIsPurged, BootedIfUsed
    <3>5. QED
      BY <3>1, <3>2, <3>3, <3>4 DEF RowInv
  <2>6. ReaderInv'
    <3>1. \A r \in Readers : rd[r].pc # "read"
      BY <2>1 DEF IInv, DownIsQuiet
    <3>2. QED
      BY <2>1, <2>3, <3>1 DEF IInv, ReaderInv, ServedMatchesDigest,
         GoneOnlyAfterPurge, LookupStillHolds
  <2>7. QED
    BY <2>1, <2>4, <2>5, <2>6 DEF IInv, DownIsQuiet
<1>2. CASE Interrupt
  BY <1>2 DEF Interrupt, IInv, GoroutineInv, NoDoubleRender, WorkerOwnsRow,
     IdleHoldsNothing, HandlerOwnsNoRow, ArtifactInPlace, Holding, RowInv,
     ArtifactMatchesRow, AttemptBound, DoomedIsPurged, UnfinishedHasLimit,
     BootedIfUsed, ReaderInv, ServedMatchesDigest, GoneOnlyAfterPurge,
     LookupStillHolds, DownIsQuiet
<1>3. ASSUME ProcessEnds, UNCHANGED <<rows, disk, boots>>, server # "down"
      PROVE  IInv'
  <2>1. /\ \A a \in Actors : go'[a] = At("off")
        /\ \A r \in Readers : rd'[r] = NoReader
        /\ server' = "down" /\ doomed' = {}
    BY <1>3 DEF ProcessEnds
  <2>2. GoroutineInv'
    BY <2>1, AtFields DEF GoroutineInv, NoDoubleRender, WorkerOwnsRow,
       IdleHoldsNothing, HandlerOwnsNoRow, ArtifactInPlace, Holding, Actors
  <2>3. RowInv'
    BY <1>3, <2>1 DEF IInv, RowInv, ArtifactMatchesRow, AttemptBound,
       DoomedIsPurged, UnfinishedHasLimit, BootedIfUsed
  <2>4. ReaderInv' /\ DownIsQuiet'
    BY <2>1 DEF ReaderInv, ServedMatchesDigest, GoneOnlyAfterPurge,
       LookupStillHolds, DownIsQuiet, NoReader
  <2>5. QED
    BY <2>2, <2>3, <2>4 DEF IInv
<1>4. QED
  BY <1>1, <1>2, <1>3 DEF ProcessStep, Exit, Crash

(* Accepting a job disturbs no goroutine, file or reader. *)
LEMMA PostJobInv ==
  ASSUME IInv, TypeOK', NEW j \in Jobs, PostJob(j)
  PROVE  IInv'
<1>1. /\ rows[j].status = "none" /\ server # "down" /\ j # 0
      /\ \A a \in Actors : go[a].job # j
      /\ UNCHANGED <<disk, server, boots, doomed, rd>>
  BY JobsAssumption DEF PostJob, Unused
<1>2. \A a \in Actors : /\ go'[a].pc = go[a].pc /\ go'[a].job = go[a].job
                        /\ go'[a].att = go[a].att
  BY CommittedKeeps DEF PostJob, IInv, TypeOK
<1>3. /\ rows'[j].status = "queued" /\ rows'[j].attempts = 0
      /\ rows'[j].max = Limit
      /\ \A k \in Jobs \ {j} : rows'[k] = rows[k]
  BY DEF PostJob, EnqueuedRow, NoRow, IInv, TypeOK
<1>4. Limit \in Nat \ {0} /\ boots \in Nat \ {0}
  BY <1>1, MaxAttemptsAssumption DEF Limit, IInv, TypeOK, RowInv, BootedIfUsed
<1>5. \A a \in Actors : go[a].job # 0 => go[a].job \in Jobs \ {j}
  BY <1>1 DEF IInv, TypeOK, Goroutine
<1>6. NoDoubleRender' /\ IdleHoldsNothing' /\ ArtifactInPlace'
  BY <1>1, <1>2 DEF IInv, GoroutineInv, NoDoubleRender, IdleHoldsNothing,
     ArtifactInPlace, Holding
<1>7. WorkerOwnsRow' /\ HandlerOwnsNoRow'
  BY <1>2, <1>3, <1>5 DEF IInv, GoroutineInv, WorkerOwnsRow, HandlerOwnsNoRow,
     Holding, Actors
<1>8. RowInv'
  <2>1. AttemptBound'
    BY <1>1, <1>3, <1>4 DEF IInv, RowInv, AttemptBound
  <2>2. QED
    BY <1>1, <1>3, <1>4, <2>1 DEF IInv, RowInv, ArtifactMatchesRow,
       UnfinishedHasLimit, DoomedIsPurged, BootedIfUsed, TypeOK
<1>9. ReaderInv' /\ DownIsQuiet'
  BY <1>1, <1>3 DEF IInv, ReaderInv, ServedMatchesDigest, GoneOnlyAfterPurge,
     LookupStillHolds, DownIsQuiet
<1>10. QED
  BY <1>6, <1>7, <1>8, <1>9 DEF IInv, GoroutineInv

(* Retention deletes terminal rows only, which no goroutine holds; a       *)
(* reader that has looked one up may still find its file.                  *)
LEMMA PurgeInv ==
  ASSUME IInv, TypeOK', NEW S \in SUBSET Jobs, Purge(S)
  PROVE  IInv'
<1>1. /\ server # "down" /\ doomed' \subseteq S
      /\ \A j \in S : rows[j].status \in {"succeeded", "failed"}
      /\ UNCHANGED <<disk, server, boots, rd>>
  BY DEF Purge, Terminal
<1>2. \A a \in Actors : /\ go'[a].pc = go[a].pc /\ go'[a].job = go[a].job
                        /\ go'[a].att = go[a].att
  BY CommittedKeeps DEF Purge, IInv, TypeOK
<1>3. /\ \A j \in S : rows'[j].status = "purged"
      /\ \A j \in Jobs \ S : rows'[j] = rows[j]
  BY DEF Purge, PurgedRow, NoRow
<1>4. \A a \in Actors : go[a].job # 0 => go[a].job \in Jobs \ S
  BY <1>1 DEF IInv, TypeOK, Goroutine, GoroutineInv, WorkerOwnsRow,
     HandlerOwnsNoRow, Holding, Actors
<1>5. NoDoubleRender' /\ IdleHoldsNothing' /\ ArtifactInPlace'
  BY <1>1, <1>2 DEF IInv, GoroutineInv, NoDoubleRender, IdleHoldsNothing,
     ArtifactInPlace, Holding
<1>6. WorkerOwnsRow' /\ HandlerOwnsNoRow'
  BY <1>2, <1>3, <1>4 DEF IInv, GoroutineInv, WorkerOwnsRow, HandlerOwnsNoRow,
     Holding, Actors
<1>7. RowInv'
  BY <1>1, <1>3 DEF IInv, RowInv, ArtifactMatchesRow, AttemptBound,
     UnfinishedHasLimit, DoomedIsPurged, BootedIfUsed
<1>8. ReaderInv'
  <2>1. ServedMatchesDigest' /\ GoneOnlyAfterPurge'
    BY <1>1, <1>3 DEF IInv, ReaderInv, ServedMatchesDigest, GoneOnlyAfterPurge,
       LookupStillHolds
  <2>2. LookupStillHolds'
    BY <1>1, <1>3 DEF IInv, ReaderInv, LookupStillHolds, RowInv,
       ArtifactMatchesRow
  <2>3. QED
    BY <2>1, <2>2 DEF ReaderInv
<1>9. DownIsQuiet'
  BY <1>1 DEF DownIsQuiet
<1>10. QED
  BY <1>5, <1>6, <1>7, <1>8, <1>9 DEF IInv, GoroutineInv

(* The janitor removes, or forgets, only files of purged rows. *)
LEMMA RemoveInv ==
  ASSUME IInv, TypeOK', NEW j \in Jobs, RemoveArtifact(j) \/ RemoveFails(j)
  PROVE  IInv'
<1>1. /\ j \in doomed /\ doomed' \subseteq doomed
      /\ \A k \in Jobs \ {j} : disk'[k] = disk[k]
      /\ disk'[j] \in {0, disk[j]}
      /\ UNCHANGED <<rows, server, boots, go, rd>>
  BY DEF RemoveArtifact, RemoveFails, IInv, TypeOK
<1>2. rows[j].status = "purged" /\ server # "down"
  BY <1>1 DEF IInv, RowInv, DoomedIsPurged, DownIsQuiet
<1>3. GoroutineInv'
  <2>1. ArtifactInPlace'
    <3>1. \A a \in Actors : go[a].pc = "complete" => go[a].job \in Jobs \ {j}
      BY <1>2 DEF IInv, TypeOK, Goroutine, GoroutineInv, IdleHoldsNothing,
         WorkerOwnsRow, HandlerOwnsNoRow, Holding, Actors
    <3>2. QED
      BY <1>1, <3>1 DEF IInv, GoroutineInv, ArtifactInPlace
  <2>2. QED
    BY <1>1, <2>1 DEF IInv, GoroutineInv, NoDoubleRender, WorkerOwnsRow,
       IdleHoldsNothing, HandlerOwnsNoRow, Holding
<1>4. RowInv'
  BY <1>1, <1>2 DEF IInv, RowInv, ArtifactMatchesRow, AttemptBound,
     DoomedIsPurged, UnfinishedHasLimit, BootedIfUsed
<1>5. ReaderInv'
  BY <1>1, <1>2 DEF IInv, ReaderInv, ServedMatchesDigest, GoneOnlyAfterPurge,
     LookupStillHolds
<1>6. QED
  BY <1>1, <1>2, <1>3, <1>4, <1>5 DEF IInv, DownIsQuiet

(* What a reader looked up stays true until it reads the file. *)
LEMMA ReaderStepInv ==
  ASSUME IInv, TypeOK', NEW r \in Readers, ReaderStep(r)
  PROVE  IInv'
<1>1. UNCHANGED <<rows, disk, server, boots, go, nudge, doomed>>
  BY DEF ReaderStep, GetJob, GetJobFails, ReadArtifact
<1>2. GoroutineInv' /\ RowInv'
  BY <1>1 DEF IInv, GoroutineInv, NoDoubleRender, WorkerOwnsRow,
     IdleHoldsNothing, HandlerOwnsNoRow, ArtifactInPlace, Holding, RowInv,
     ArtifactMatchesRow, AttemptBound, DoomedIsPurged, UnfinishedHasLimit,
     BootedIfUsed
<1>3. CASE \E j \in Jobs : GetJob(r, j) \/ GetJobFails(r, j)
  <2>1. PICK j \in Jobs : GetJob(r, j) \/ GetJobFails(r, j)
    BY <1>3
  <2>2. \A q \in Readers \ {r} : rd'[q] = rd[q]
    BY <2>1 DEF GetJob, GetJobFails, IInv, TypeOK
  <2>3. /\ rd'[r].job = j
        /\ \/ rd'[r].pc = "done" /\ rd'[r].code \in {404, 409, 500}
           \/ /\ rd'[r].pc = "read" /\ rd'[r].code = 0
              /\ rd'[r].want = rows[j].pdf /\ rows[j].status = "succeeded"
    <3>1. CASE GetJob(r, j)
      BY <3>1 DEF GetJob, HasPDF, NoReader, IInv, TypeOK
    <3>2. CASE GetJobFails(r, j)
      BY <3>2 DEF GetJobFails, NoReader, IInv, TypeOK
    <3>3. QED
      BY <2>1, <3>1, <3>2
  <2>4. ReaderInv'
    BY <1>1, <2>2, <2>3 DEF IInv, ReaderInv, ServedMatchesDigest,
       GoneOnlyAfterPurge, LookupStillHolds
  <2>5. DownIsQuiet'
    BY <1>1, <2>1 DEF GetJob, GetJobFails, DownIsQuiet
  <2>6. QED
    BY <1>2, <2>4, <2>5 DEF IInv
<1>4. CASE ReadArtifact(r)
  <2>1. /\ \A q \in Readers \ {r} : rd'[q] = rd[q]
        /\ rd[r].pc = "read"
        /\ rd'[r].pc = "done" /\ rd'[r].job = rd[r].job
        /\ rd'[r].want = rd[r].want
        /\ \/ rd'[r].code = 410 /\ rd'[r].unreadable
           \/ rd'[r].code = 410 /\ disk[rd[r].job] = 0
           \/ rd'[r].code = 200 /\ disk[rd[r].job] # 0 /\ rd'[r].got = disk[rd[r].job]
    BY <1>4 DEF ReadArtifact, IInv, TypeOK, Reader
  <2>2. rd[r].job \in Jobs /\ disk[rd[r].job] \in {0, rd[r].want}
    BY <2>1 DEF IInv, ReaderInv, LookupStillHolds, RowInv, ArtifactMatchesRow
  <2>3. disk[rd[r].job] = 0 => rows[rd[r].job].status = "purged"
    BY <2>1, <2>2 DEF IInv, ReaderInv, LookupStillHolds, RowInv, ArtifactMatchesRow
  <2>4. ReaderInv'
    BY <1>1, <2>1, <2>2, <2>3 DEF IInv, ReaderInv, ServedMatchesDigest,
       GoneOnlyAfterPurge, LookupStillHolds
  <2>5. DownIsQuiet'
    BY <1>1, <2>1 DEF IInv, DownIsQuiet
  <2>6. QED
    BY <1>2, <2>4, <2>5 DEF IInv
<1>5. QED
  BY <1>3, <1>4 DEF ReaderStep

(* A step that changes no more of a row than its gate, and of a goroutine  *)
(* no more than the freshness of its snapshot. *)
LEMMA ViewKeeps ==
  ASSUME IInv, TypeOK',
         \A j \in Jobs : /\ rows'[j].status = rows[j].status
                         /\ rows'[j].attempts = rows[j].attempts
                         /\ rows'[j].max = rows[j].max
                         /\ rows'[j].pdf = rows[j].pdf,
         \A a \in Actors : /\ go'[a].pc = go[a].pc
                           /\ go'[a].job = go[a].job
                           /\ go'[a].att = go[a].att,
         go' = go \/ server # "down",
         UNCHANGED <<disk, server, boots, doomed, rd>>
  PROVE  IInv'
<1>1. \A a \in Actors : go[a].job # 0 => go[a].job \in Jobs
  BY DEF IInv, TypeOK, Goroutine
<1>2. GoroutineInv'
  <2>1. WorkerOwnsRow' /\ HandlerOwnsNoRow'
    BY <1>1 DEF IInv, GoroutineInv, WorkerOwnsRow, HandlerOwnsNoRow, Holding,
       Actors
  <2>2. QED
    BY <2>1 DEF IInv, GoroutineInv, NoDoubleRender, IdleHoldsNothing,
       ArtifactInPlace, Holding
<1>3. RowInv'
  BY DEF IInv, RowInv, ArtifactMatchesRow, AttemptBound, DoomedIsPurged,
     UnfinishedHasLimit, BootedIfUsed, TypeOK
<1>4. ReaderInv'
  BY DEF IInv, ReaderInv, ServedMatchesDigest, GoneOnlyAfterPurge,
     LookupStillHolds
<1>5. DownIsQuiet'
  BY DEF IInv, DownIsQuiet
<1>6. QED
  BY <1>2, <1>3, <1>4, <1>5 DEF IInv

(* The end of a backoff changes nothing but the gate. *)
LEMMA GateOpensInv ==
  ASSUME IInv, TypeOK', NEW j \in Jobs, GateOpens(j)
  PROVE  IInv'
BY ViewKeeps DEF GateOpens, IInv, TypeOK, Row

(* A commit by the keys command changes nothing but snapshots. *)
LEMMA KeysCommandInv ==
  ASSUME IInv, TypeOK', KeysCommand
  PROVE  IInv'
<1>1. server # "down"
  <2>1. PICK a \in Actors : go[a].fresh
    BY DEF KeysCommand
  <2>2. ~At("off").fresh
    BY DEF At
  <2>3. QED
    BY <2>1, <2>2 DEF IInv, DownIsQuiet
<1>2. QED
  BY <1>1, ViewKeeps, CommittedKeeps DEF KeysCommand, IInv, TypeOK

(* Every step of the service keeps the inductive invariant.                *)
LEMMA NextInv == IInv /\ [Next]_vars => IInv'
<1> SUFFICES ASSUME IInv, [Next]_vars
             PROVE  IInv'
  OBVIOUS
<1>0. TypeOK /\ LookupStillHolds
  BY DEF IInv, ReaderInv
<1>1. ASSUME NEW w \in Workers, WorkerStep(w)
      PROVE  IInv'
  BY <1>0, <1>1, WorkerStepType, WorkerStepInv
<1>2. ASSUME NEW h \in Handlers, HandlerStep(h)
      PROVE  IInv'
  BY <1>0, <1>2, HandlerStepType, HandlerStepInv
<1>3. CASE ProcessStep
  BY <1>0, <1>3, ProcessStepType, ProcessStepInv
<1>4. ASSUME NEW j \in Jobs, PostJob(j) \/ GateOpens(j)
      PROVE  IInv'
  BY <1>0, <1>4, OtherStepType, PostJobInv, GateOpensInv
<1>5. ASSUME NEW r \in Readers, ReaderStep(r)
      PROVE  IInv'
  BY <1>0, <1>5, OtherStepType, ReaderStepInv
<1>6. CASE JanitorStep
  <2>1. TypeOK'
    BY <1>0, <1>6, OtherStepType
  <2>2. QED
    BY <1>6, <2>1, PurgeInv, RemoveInv DEF JanitorStep
<1>7. CASE KeysCommand
  BY <1>0, <1>7, OtherStepType, KeysCommandInv
<1>8. CASE UNCHANGED vars
  <2>1. TypeOK'
    BY <1>0, <1>8 DEF TypeOK, vars
  <2>2. QED
    BY <1>8, <2>1, ViewKeeps DEF vars
<1>9. QED
  BY <1>1, <1>2, <1>3, <1>4, <1>5, <1>6, <1>7, <1>8 DEF Next

(* The first start of an empty service satisfies the invariant. *)
LEMMA InitInv == Init => IInv
<1> SUFFICES ASSUME Init
             PROVE  IInv
  OBVIOUS
<1>1. TypeOK
  <2>1. NoRow \in Row /\ NoReader \in Reader
    BY DEF NoRow, Row, Status, Errors, NoReader, Reader, Codes
  <2>2. QED
    BY <2>1, AtTypes, BoundsAssumption DEF Init, TypeOK
<1>2. GoroutineInv
  BY AtFields DEF Init, GoroutineInv, NoDoubleRender, WorkerOwnsRow,
     IdleHoldsNothing, HandlerOwnsNoRow, ArtifactInPlace, Holding, Actors
<1>3. RowInv
  BY DEF Init, RowInv, ArtifactMatchesRow, AttemptBound, DoomedIsPurged,
     UnfinishedHasLimit, BootedIfUsed, NoRow
<1>4. ReaderInv /\ DownIsQuiet
  BY DEF Init, ReaderInv, ServedMatchesDigest, GoneOnlyAfterPurge,
     LookupStillHolds, DownIsQuiet, NoReader
<1>5. QED
  BY <1>1, <1>2, <1>3, <1>4 DEF IInv

-----------------------------------------------------------------------------
(* The theorems.                                                           *)

(* The inductive invariant holds in every reachable state: each row, file, *)
(* goroutine, reader and pending removal agrees with the others.           *)
THEOREM Invariance == Spec => []IInv
<1>1. Init => IInv
  BY InitInv
<1>2. IInv /\ [Next]_vars => IInv'
  BY NextInv
<1>3. QED
  BY <1>1, <1>2, PTL DEF Spec

(* Type correctness. *)
THEOREM TypeCorrect == Spec => []TypeOK
<1>1. IInv => TypeOK
  BY DEF IInv
<1>2. QED
  BY <1>1, Invariance, PTL

(* Claim, RecoverRunning and the handlers never give one job to two        *)
(* goroutines.                                                             *)
THEOREM MutualExclusion == Spec => []NoDoubleRender
<1>1. IInv => NoDoubleRender
  BY DEF IInv, GoroutineInv
<1>2. QED
  BY <1>1, Invariance, PTL

(* From Claim to Complete or Fail, a job's row is its worker's alone. *)
THEOREM RowOwnership == Spec => []WorkerOwnsRow
<1>1. IInv => WorkerOwnsRow
  BY DEF IInv, GoroutineInv
<1>2. QED
  BY <1>1, Invariance, PTL

(* A succeeded row always describes the artifact that is on disk. *)
THEOREM ArtifactIntegrity == Spec => []ArtifactMatchesRow
<1>1. IInv => ArtifactMatchesRow
  BY DEF IInv, RowInv
<1>2. QED
  BY <1>1, Invariance, PTL

(* max_attempts is exceeded by at most one attempt per restart. *)
THEOREM BoundedAttempts == Spec => []AttemptBound
<1>1. IInv => AttemptBound
  BY DEF IInv, RowInv
<1>2. QED
  BY <1>1, Invariance, PTL

(* A client that is sent a PDF is sent the digest of that PDF. *)
THEOREM ServedIntegrity == Spec => []ServedMatchesDigest
<1>1. IInv => ServedMatchesDigest
  BY DEF IInv, ReaderInv
<1>2. QED
  BY <1>1, Invariance, PTL

(* A 410 is only answered for a job whose row retention has deleted. *)
THEOREM GoneMeansPurged == Spec => []GoneOnlyAfterPurge
<1>1. IInv => GoneOnlyAfterPurge
  BY DEF IInv, ReaderInv
<1>2. QED
  BY <1>1, Invariance, PTL

(* Finished is final: no step changes a terminal row, except that          *)
(* retention deletes it, and no step brings a deleted row back.            *)
THEOREM Finality == Spec => TerminalIsFinal
<1> DEFINE Final(j) ==
      /\ rows[j].status \in Terminal =>
           rows'[j] = rows[j] \/ rows'[j].status = "purged"
      /\ rows[j].status = "purged" => rows'[j] = rows[j]
<1>1. ASSUME IInv, Next
      PROVE  \A j \in Jobs : Final(j)
  <2>0. rows \in [Jobs -> Row] /\ go \in [Actors -> Goroutine]
    BY <1>1 DEF IInv, TypeOK
  <2>1. ASSUME NEW k \in Jobs, rows[k].status \notin Terminal \cup {"purged"},
               \A j \in Jobs \ {k} : rows'[j] = rows[j]
        PROVE  \A j \in Jobs : Final(j)
    BY <2>1
  <2>2. CASE UNCHANGED rows
    BY <2>2
  <2>3. ASSUME NEW j \in Jobs, PostJob(j) \/ GateOpens(j)
        PROVE  \A i \in Jobs : Final(i)
    BY <2>0, <2>1, <2>3 DEF PostJob, Unused, GateOpens, Terminal
  <2>4. ASSUME NEW w \in Workers, WorkerStep(w)
        PROVE  \A j \in Jobs : Final(j)
    <3>1. CASE Claim(w)
      BY <2>0, <2>1, <3>1 DEF Claim, Oldest, Runnable, Terminal
    <3>2. ASSUME Complete(w) \/ FailCommit(w)
          PROVE  \A j \in Jobs : Final(j)
      <4>1. go[w].job \in Jobs /\ Holding(w)
        BY <1>1, <2>0, <3>2 DEF Complete, FailCommit, IInv, GoroutineInv,
           IdleHoldsNothing, Holding, Goroutine, Actors
      <4>2. rows[go[w].job].status = "running"
        BY <1>1, <4>1 DEF IInv, GoroutineInv, WorkerOwnsRow
      <4>3. \A j \in Jobs \ {go[w].job} : rows'[j] = rows[j]
        BY <2>0, <3>2 DEF Complete, FailCommit
      <4>4. QED
        BY <2>1, <4>1, <4>2, <4>3 DEF Terminal
    <3>3. QED
      BY <2>2, <2>4, <3>1, <3>2 DEF WorkerStep, ClaimNone, Wake, Tick, Quit,
         RenderStep, Acquire, RenderFails, RenderSucceeds, StoreArtifact,
         StoreFails, CompleteError, FailBegin, FailConflict
  <2>5. ASSUME NEW h \in Handlers, HandlerStep(h)
        PROVE  \A j \in Jobs : Final(j)
    <3>1. ASSUME SyncRecord(h) \/ SyncRecordFailure(h)
          PROVE  \A j \in Jobs : Final(j)
      <4>1. go[h].job \in Jobs /\ Holding(h)
        BY <1>1, <2>0, <3>1 DEF SyncRecord, SyncRecordFailure, IInv,
           GoroutineInv, IdleHoldsNothing, Holding, Goroutine, Actors
      <4>2. rows[go[h].job].status = "none"
        BY <1>1, <4>1 DEF IInv, GoroutineInv, HandlerOwnsNoRow
      <4>3. \A j \in Jobs \ {go[h].job} : rows'[j] = rows[j]
        BY <2>0, <3>1 DEF SyncRecord, SyncRecordFailure
      <4>4. QED
        BY <2>1, <4>1, <4>2, <4>3 DEF Terminal
    <3>2. QED
      BY <2>2, <2>5, <3>1 DEF HandlerStep, SyncStart, SyncGivesUp, RenderStep,
         Acquire, RenderFails, RenderSucceeds, StoreArtifact
  <2>6. CASE ProcessStep
    <3>1. CASE Boot
      BY <2>0, <3>1 DEF Boot, RecoveredRow, Terminal
    <3>2. QED
      BY <2>2, <2>6, <3>1 DEF ProcessStep, Interrupt, Exit, Crash
  <2>7. CASE JanitorStep
    <3>1. ASSUME NEW S \in SUBSET Jobs, Purge(S)
          PROVE  \A j \in Jobs : Final(j)
      BY <2>0, <3>1 DEF Purge, PurgedRow, NoRow, Terminal
    <3>2. QED
      BY <2>2, <2>7, <3>1 DEF JanitorStep, RemoveArtifact, RemoveFails
  <2>8. ASSUME NEW r \in Readers, ReaderStep(r)
        PROVE  UNCHANGED rows
    BY <2>8 DEF ReaderStep, GetJob, GetJobFails, ReadArtifact
  <2>9. QED
    BY <1>1, <2>2, <2>3, <2>4, <2>5, <2>6, <2>7, <2>8 DEF Next, KeysCommand
<1>2. IInv /\ [Next]_vars => [\A j \in Jobs : Final(j)]_vars
  BY <1>1
<1>3. QED
  BY <1>2, Invariance, PTL DEF Spec, TerminalIsFinal

(* While a row promises an artifact, the artifact stays as it is. *)
THEOREM ArtifactStability == Spec => PromisedArtifactKept
<1> DEFINE Kept == \A j \in Jobs :
      rows[j].status = "succeeded" /\ rows'[j].status = "succeeded"
        => disk'[j] = disk[j]
<1>1. ASSUME IInv, NEW a \in Actors, StoreArtifact(a)
      PROVE  Kept
  <2>1. go[a].job \in Jobs /\ rows[go[a].job].status \in {"running", "none"}
    BY <1>1 DEF StoreArtifact, IInv, TypeOK, GoroutineInv, IdleHoldsNothing,
       Holding, WorkerOwnsRow, HandlerOwnsNoRow, Goroutine, Actors
  <2>2. QED
    BY <1>1, <2>1 DEF StoreArtifact, IInv, TypeOK
<1>2. ASSUME IInv, NEW j \in Jobs, RemoveArtifact(j)
      PROVE  Kept
  <2>1. rows[j].status = "purged"
    BY <1>2 DEF RemoveArtifact, IInv, RowInv, DoomedIsPurged
  <2>2. QED
    BY <1>2, <2>1 DEF RemoveArtifact, IInv, TypeOK
<1>3. ASSUME IInv, Next
      PROVE  Kept
  <2>1. CASE UNCHANGED disk
    BY <2>1
  <2>2. ASSUME NEW w \in Workers, WorkerStep(w)
        PROVE  Kept
    BY <1>1, <1>3, <2>1, <2>2 DEF WorkerStep, RenderStep, Actors, Claim,
       ClaimNone, Wake, Tick, Quit, Acquire, RenderFails, RenderSucceeds,
       StoreFails, Complete, CompleteError, FailBegin, FailCommit, FailConflict
  <2>3. ASSUME NEW h \in Handlers, HandlerStep(h)
        PROVE  Kept
    BY <1>1, <1>3, <2>1, <2>3 DEF HandlerStep, RenderStep, Actors, SyncStart,
       Acquire, RenderFails, RenderSucceeds, SyncRecord, SyncRecordFailure,
       SyncGivesUp
  <2>4. CASE JanitorStep
    BY <1>2, <1>3, <2>1, <2>4 DEF JanitorStep, Purge, RemoveFails
  <2>5. QED
    BY <1>3, <2>1, <2>2, <2>3, <2>4 DEF Next, PostJob, GateOpens, ReaderStep,
       GetJob, GetJobFails, ReadArtifact, ProcessStep, Boot, Interrupt, Exit, Crash,
       KeysCommand
<1>4. IInv /\ [Next]_vars => [Kept]_vars
  BY <1>3
<1>5. QED
  BY <1>4, Invariance, PTL DEF Spec, PromisedArtifactKept

-----------------------------------------------------------------------------
(* Files and rows in the first life of the process.                        *)

(* Every file belongs to a finished job, is about to be removed, or was    *)
(* just stored by a goroutine that will record it.                         *)
FilesAccounted ==
  \A j \in Jobs : disk[j] # 0 =>
    \/ rows[j].status = "succeeded"
    \/ j \in doomed
    \/ \E a \in Actors : go[a].pc = "complete" /\ go[a].job = j
Tidy ==
  /\ boots = 0 => \A j \in Jobs : disk[j] = 0
  /\ ~Faults /\ boots = 1 /\ server # "down" => FilesAccounted

(* A step that touches no file keeps them accounted for, if succeeded rows *)
(* stay and whoever stored a file goes on or records it.                   *)
LEMMA TidyKeeps ==
  ASSUME Tidy, disk' = disk, boots' = boots,
         server' # "down" => server # "down",
         \A j \in Jobs : rows[j].status = "succeeded" => rows'[j].status = "succeeded",
         doomed \subseteq doomed',
         \A a \in Actors : go[a].pc = "complete" =>
           \/ go'[a].pc = "complete" /\ go'[a].job = go[a].job
           \/ rows'[go[a].job].status = "succeeded"
  PROVE  Tidy'
BY DEF Tidy, FilesAccounted

(* Nothing is promised when files and statements may fail. *)
LEMMA TidyWithFaults ==
  ASSUME Tidy, Faults, disk' = disk, boots' = boots
  PROVE  Tidy'
BY DEF Tidy

(* A render on its way to its artifact, and the storing of it. *)
LEMMA RenderStepTidy ==
  ASSUME TypeOK, Tidy, NEW a \in Actors, RenderStep(a), go[a].job \in Jobs,
         boots = 0 => go[a].pc = "off"
  PROVE  Tidy'
<1>0. go \in [Actors -> Goroutine] /\ disk \in [Jobs -> Nat]
  BY DEF TypeOK
<1>1. CASE Acquire(a) \/ RenderSucceeds(a) \/ \E e \in {"error", "canceled"} : RenderFails(a, e)
  <2>1. go[a].pc # "complete" /\ \A b \in Actors : b # a => go'[b] = go[b]
    BY <1>0, <1>1 DEF Acquire, RenderSucceeds, RenderFails, Rendering
  <2>2. UNCHANGED <<rows, disk, server, boots, doomed>>
    BY <1>1 DEF Acquire, RenderSucceeds, RenderFails
  <2> QED BY <2>1, <2>2, TidyKeeps
<1>2. CASE StoreArtifact(a)
  <2>1. /\ \A j \in Jobs : j # go[a].job => disk'[j] = disk[j]
        /\ go'[a].pc = "complete" /\ go'[a].job = go[a].job
        /\ \A b \in Actors : b # a => go'[b] = go[b]
        /\ go[a].pc = "store" /\ UNCHANGED <<rows, server, boots, doomed>>
    BY <1>0, <1>2 DEF StoreArtifact, Goroutine
  <2>2. boots # 0
    BY <2>1
  <2>3. FilesAccounted => FilesAccounted'
    BY <2>1 DEF FilesAccounted
  <2> QED BY <2>1, <2>2, <2>3 DEF Tidy
<1> QED BY <1>1, <1>2 DEF RenderStep

(* Workers: Complete records what was stored. *)
LEMMA WorkerStepTidy ==
  ASSUME IInv, Tidy, NEW w \in Workers, WorkerStep(w)
  PROVE  Tidy'
<1>0. /\ w \in Actors /\ go \in [Actors -> Goroutine] /\ rows \in [Jobs -> Row]
      /\ go[w].job \in Jobs \cup {0}
      /\ go[w].pc \notin {"off", "claim", "idle"} => go[w].job \in Jobs
      /\ go[w].job \in Jobs => rows[go[w].job].status = "running"
      /\ boots = 0 => go[w].pc = "off"
      /\ TypeOK
  BY AtFields, JobsAssumption DEF IInv, TypeOK, Goroutine, GoroutineInv, IdleHoldsNothing, Holding,
     WorkerOwnsRow, RowInv, BootedIfUsed, DownIsQuiet, Actors
<1>1. CASE Claim(w)
  <2>1. PICK j \in Jobs :
          /\ Oldest(j)
          /\ rows' = [rows EXCEPT ![j] = ClaimedRow(rows[j])]
          /\ go' = Committed([go EXCEPT ![w] = Take(j, rows[j].attempts + 1)])
    BY <1>1 DEF Claim
  <2>2. rows[j].status = "queued"
    BY <2>1 DEF Oldest, Runnable
  <2>3. \A k \in Jobs : rows[k].status = "succeeded" => rows'[k].status = "succeeded"
    BY <1>0, <2>1, <2>2
  <2>4. \A b \in Actors : b # w => go'[b].pc = go[b].pc /\ go'[b].job = go[b].job
    BY <1>0, <2>1 DEF Committed, Goroutine
  <2> QED BY <1>1, <2>3, <2>4, TidyKeeps DEF Claim
<1>2. CASE ClaimNone(w) \/ Wake(w) \/ Tick(w) \/ Quit(w) \/ FailBegin(w) \/ FailConflict(w)
  <2>1. go[w].pc # "complete" /\ \A b \in Actors : b # w => go'[b] = go[b]
    BY <1>0, <1>2 DEF ClaimNone, Wake, Tick, Quit, FailBegin, FailConflict
  <2>2. UNCHANGED <<rows, disk, server, boots, doomed>>
    BY <1>2 DEF ClaimNone, Wake, Tick, Quit, FailBegin, FailConflict
  <2> QED BY <2>1, <2>2, TidyKeeps
<1>3. CASE RenderStep(w)
  <2>1. go[w].job \in Jobs
    BY <1>0, <1>3 DEF RenderStep, Acquire, RenderFails, RenderSucceeds, StoreArtifact, Rendering
  <2> QED BY <1>0, <1>3, <2>1, RenderStepTidy
<1>4. CASE StoreFails(w) \/ CompleteError(w)
  BY <1>4, TidyWithFaults DEF StoreFails, CompleteError
<1>5. CASE Complete(w)
  <2>1. /\ go[w].job \in Jobs
        /\ rows' = [rows EXCEPT ![go[w].job] = CompletedRow(rows[go[w].job], go[w].att)]
    BY <1>0, <1>5 DEF Complete
  <2>2. rows'[go[w].job].status = "succeeded"
    BY <1>0, <2>1 DEF CompletedRow, Row
  <2>3. \A k \in Jobs : rows[k].status = "succeeded" => rows'[k].status = "succeeded"
    BY <1>0, <2>1, <2>2
  <2>4. \A b \in Actors : b # w => go'[b].pc = go[b].pc /\ go'[b].job = go[b].job
    BY <1>0, <1>5 DEF Complete, Committed, Goroutine
  <2> QED BY <1>5, <2>2, <2>3, <2>4, TidyKeeps DEF Complete
<1>6. CASE FailCommit(w)
  <2>1. /\ go[w].job \in Jobs /\ go[w].pc = "failtx"
        /\ rows' = [rows EXCEPT ![go[w].job] = FailedRow(rows[go[w].job], go[w].err)]
    BY <1>0, <1>6 DEF FailCommit
  <2>2. \A k \in Jobs : rows[k].status = "succeeded" => rows'[k].status = "succeeded"
    BY <1>0, <2>1
  <2>3. \A b \in Actors : b # w => go'[b].pc = go[b].pc /\ go'[b].job = go[b].job
    BY <1>0, <1>6 DEF FailCommit, Committed, Goroutine
  <2> QED BY <1>6, <2>1, <2>2, <2>3, TidyKeeps DEF FailCommit
<1> QED BY <1>1, <1>2, <1>3, <1>4, <1>5, <1>6 DEF WorkerStep

(* Handlers: RecordSyncJob records what was stored. *)
LEMMA HandlerStepTidy ==
  ASSUME IInv, Tidy, NEW h \in Handlers, HandlerStep(h)
  PROVE  Tidy'
<1>0. /\ h \in Actors /\ go \in [Actors -> Goroutine] /\ rows \in [Jobs -> Row]
      /\ go[h].job \in Jobs \cup {0}
      /\ go[h].pc \notin {"off", "claim", "idle"} => go[h].job \in Jobs
      /\ go[h].job \in Jobs => rows[go[h].job].status = "none"
      /\ boots = 0 => go[h].pc = "off"
      /\ TypeOK
  BY AtFields, JobsAssumption DEF IInv, TypeOK, Goroutine, GoroutineInv, IdleHoldsNothing, Holding,
     HandlerOwnsNoRow, RowInv, BootedIfUsed, DownIsQuiet, Actors
<1>1. ASSUME NEW j \in Jobs, SyncStart(h, j)
      PROVE  Tidy'
  <2>1. go[h].pc # "complete" /\ \A b \in Actors : b # h => go'[b] = go[b]
    BY <1>0, <1>1 DEF SyncStart
  <2> QED BY <1>1, <2>1, TidyKeeps DEF SyncStart
<1>2. CASE RenderStep(h)
  <2>1. go[h].job \in Jobs
    BY <1>0, <1>2 DEF RenderStep, Acquire, RenderFails, RenderSucceeds, StoreArtifact, Rendering
  <2> QED BY <1>0, <1>2, <2>1, RenderStepTidy
<1>3. CASE SyncRecord(h)
  <2>0. go[h].pc = "complete"
    BY <1>3 DEF SyncRecord
  <2>1. go[h].job \in Jobs
    BY <1>0, <2>0
  <2>2. /\ rows'[go[h].job].status = "succeeded"
        /\ \A k \in Jobs \ {go[h].job} : rows'[k] = rows[k]
    BY <1>0, <1>3, <2>1 DEF SyncRecord, SyncRow, NoRow, TypeOK
  <2>3. \A k \in Jobs : rows[k].status = "succeeded" => rows'[k].status = "succeeded"
    BY <2>1, <2>2
  <2>4. \A b \in Actors : b # h => go'[b].pc = go[b].pc /\ go'[b].job = go[b].job
    <3>1. go' = Committed([go EXCEPT ![h] = At("off")])
      BY <1>3 DEF SyncRecord
    <3> QED BY <1>0, <3>1, AtTypes DEF Committed, Goroutine
  <2>5. UNCHANGED <<disk, server, boots, doomed>>
    BY <1>3 DEF SyncRecord
  <2> QED BY <2>1, <2>2, <2>3, <2>4, <2>5, TidyKeeps
<1>4. CASE SyncRecordFailure(h)
  <2>1. /\ go[h].job \in Jobs /\ go[h].pc = "fail"
        /\ rows' = [rows EXCEPT ![go[h].job] = SyncRow(0, go[h].err)]
    BY <1>0, <1>4 DEF SyncRecordFailure
  <2>2. \A k \in Jobs : rows[k].status = "succeeded" => rows'[k].status = "succeeded"
    BY <1>0, <2>1
  <2>3. \A b \in Actors : b # h => go'[b].pc = go[b].pc /\ go'[b].job = go[b].job
    BY <1>0, <1>4 DEF SyncRecordFailure, Committed, Goroutine
  <2> QED BY <1>4, <2>1, <2>2, <2>3, TidyKeeps DEF SyncRecordFailure
<1>5. CASE SyncGivesUp(h)
  BY <1>5, TidyWithFaults DEF SyncGivesUp
<1> QED BY <1>1, <1>2, <1>3, <1>4, <1>5 DEF HandlerStep

(* The janitor takes note of the files of the rows it deletes. *)
LEMMA JanitorStepTidy ==
  ASSUME IInv, Tidy, JanitorStep
  PROVE  Tidy'
<1>0. /\ go \in [Actors -> Goroutine] /\ rows \in [Jobs -> Row] /\ disk \in [Jobs -> Nat]
      /\ \A j \in Jobs : rows[j].status = "succeeded" => rows[j].pdf # 0
  BY DEF IInv, TypeOK, RowInv, ArtifactMatchesRow
<1>1. ASSUME NEW S \in SUBSET Jobs, Purge(S)
      PROVE  Tidy'
  <2>1. /\ UNCHANGED <<disk, server, boots>> /\ doomed = {}
        /\ doomed' = {j \in S : rows[j].pdf # 0}
        /\ \A j \in Jobs : j \notin S => rows'[j] = rows[j]
    BY <1>1, <1>0 DEF Purge
  <2>2. \A a \in Actors : go'[a].pc = go[a].pc /\ go'[a].job = go[a].job
    BY <1>0, <1>1 DEF Purge, Committed, Goroutine
  <2>3. \A j \in Jobs : rows[j].status = "succeeded" =>
          rows'[j].status = "succeeded" \/ j \in doomed'
    BY <1>0, <2>1
  <2>4. FilesAccounted => FilesAccounted'
    BY <2>1, <2>2, <2>3 DEF FilesAccounted
  <2> QED BY <2>1, <2>4 DEF Tidy
<1>2. ASSUME NEW j \in Jobs, RemoveArtifact(j)
      PROVE  Tidy'
  <2>1. /\ UNCHANGED <<rows, server, boots, go>> /\ doomed' = doomed \ {j}
        /\ disk'[j] = 0 /\ \A k \in Jobs : k # j => disk'[k] = disk[k]
    BY <1>0, <1>2 DEF RemoveArtifact
  <2>2. FilesAccounted => FilesAccounted'
    BY <2>1 DEF FilesAccounted
  <2>3. (\A k \in Jobs : disk[k] = 0) => (\A k \in Jobs : disk'[k] = 0)
    BY <2>1
  <2> QED BY <2>1, <2>2, <2>3 DEF Tidy
<1>3. ASSUME NEW j \in Jobs, RemoveFails(j)
      PROVE  Tidy'
  BY <1>3, TidyWithFaults DEF RemoveFails
<1> QED BY <1>1, <1>2, <1>3 DEF JanitorStep

(* The first start finds no file, and no later one is promised anything. *)
LEMMA ProcessStepTidy ==
  ASSUME IInv, Tidy, ProcessStep
  PROVE  Tidy'
<1>0. boots \in Nat
  BY BoundsAssumption DEF IInv, TypeOK
<1>1. CASE Boot
  <2>1. boots' = boots + 1 /\ disk' = disk
    BY <1>1 DEF Boot
  <2> QED BY <1>0, <2>1 DEF Tidy, FilesAccounted
<1>2. CASE Interrupt
  BY <1>2, TidyKeeps DEF Interrupt
<1>3. CASE Exit \/ Crash
  BY <1>3 DEF Exit, Crash, ProcessEnds, Tidy
<1> QED BY <1>1, <1>2, <1>3 DEF ProcessStep

(* README.md:93: while the process that deleted a row lives, in the first  *)
(* life and without faults, retention takes the file with the row, or is   *)
(* about to (PurgeBefore and the janitor's loop).                          *)
THEOREM RetentionIsComplete == Spec => []RetentionTakesTheFile
<1>1. Init => Tidy
  BY DEF Init, Tidy
<1>2. IInv /\ Tidy /\ [Next]_vars => Tidy'
  <2> SUFFICES ASSUME IInv, Tidy, [Next]_vars PROVE Tidy'
    OBVIOUS
  <2>0. go \in [Actors -> Goroutine] /\ rows \in [Jobs -> Row]
    BY DEF IInv, TypeOK
  <2>1. ASSUME NEW j \in Jobs, PostJob(j) PROVE Tidy'
    <3>1. rows[j].status = "none" /\ rows' = [rows EXCEPT ![j] = EnqueuedRow]
      BY <2>1 DEF PostJob, Unused
    <3>2. \A k \in Jobs : rows[k].status = "succeeded" => rows'[k].status = "succeeded"
      BY <2>0, <3>1
    <3>3. \A a \in Actors : go'[a].pc = go[a].pc /\ go'[a].job = go[a].job
      BY <2>0, <2>1 DEF PostJob, Committed, Goroutine
    <3> QED BY <2>1, <3>2, <3>3, TidyKeeps DEF PostJob
  <2>2. ASSUME NEW j \in Jobs, GateOpens(j) PROVE Tidy'
    <3>1. rows[j].status = "queued" /\ \A k \in Jobs : k # j => rows'[k] = rows[k]
      BY <2>0, <2>2 DEF GateOpens
    <3> QED BY <2>2, <3>1, TidyKeeps DEF GateOpens
  <2>3. ASSUME NEW w \in Workers, WorkerStep(w) PROVE Tidy'
    BY <2>3, WorkerStepTidy
  <2>4. ASSUME NEW h \in Handlers, HandlerStep(h) PROVE Tidy'
    BY <2>4, HandlerStepTidy
  <2>5. ASSUME NEW r \in Readers, ReaderStep(r) PROVE Tidy'
    <3>1. CASE \E j \in Jobs : GetJob(r, j) \/ GetJobFails(r, j)
      BY <3>1, TidyKeeps DEF GetJob, GetJobFails
    <3>2. CASE ReadArtifact(r)
      BY <3>2, TidyKeeps DEF ReadArtifact
    <3> QED BY <2>5, <3>1, <3>2 DEF ReaderStep
  <2>6. CASE JanitorStep
    BY <2>6, JanitorStepTidy
  <2>7. CASE ProcessStep
    BY <2>7, ProcessStepTidy
  <2>8. CASE KeysCommand
    <3>1. \A a \in Actors : go'[a].pc = go[a].pc /\ go'[a].job = go[a].job
      BY <2>0, <2>8 DEF KeysCommand, Committed, Goroutine
    <3> QED BY <2>8, <3>1, TidyKeeps DEF KeysCommand
  <2>9. CASE UNCHANGED vars
    BY <2>9, TidyKeeps DEF vars
  <2> QED BY <2>1, <2>2, <2>3, <2>4, <2>5, <2>6, <2>7, <2>8, <2>9 DEF Next
<1>3. IInv /\ Tidy => RetentionTakesTheFile
  <2> SUFFICES ASSUME IInv, Tidy, ~Faults, boots = 1, server # "down", NEW j \in Jobs,
                      rows[j].status = "purged", j \notin doomed, disk[j] # 0
               PROVE  FALSE
    BY DEF RetentionTakesTheFile
  <2>1. PICK a \in Actors : go[a].pc = "complete" /\ go[a].job = j
    BY DEF Tidy, FilesAccounted
  <2>2. Holding(a)
    BY <2>1, JobsAssumption DEF Holding
  <2>3. CASE a \in Workers
    BY <2>1, <2>2, <2>3 DEF IInv, GoroutineInv, WorkerOwnsRow
  <2>4. CASE a \in Handlers
    BY <2>1, <2>2, <2>4 DEF IInv, GoroutineInv, HandlerOwnsNoRow
  <2> QED BY <2>3, <2>4 DEF Actors
<1> QED BY <1>1, <1>2, <1>3, Invariance, PTL DEF Spec

-----------------------------------------------------------------------------
(* No wake-up is lost.                                                     *)

(* A row that was never claimed has no backoff; a started one is counted.  *)
CountedRow(r) ==
  /\ r.status = "running" => r.attempts # 0
  /\ r.status = "queued" /\ r.attempts = 0 => ~r.gate
NewJob(j) == rows[j].status = "queued" /\ rows[j].attempts = 0
Awake ==
  /\ \A j \in Jobs : CountedRow(rows[j])
  /\ server = "up" => \A w \in Workers : go[w].pc # "off"
  /\ NewJobIsSeen

(* Every statement of the store keeps the count. *)
LEMMA RowsCounted ==
  ASSUME NEW r \in Row, CountedRow(r)
  PROVE  /\ CountedRow(NoRow) /\ CountedRow(EnqueuedRow)
         /\ CountedRow(ClaimedRow(r)) /\ CountedRow(RecoveredRow(r)) /\ CountedRow(PurgedRow(r))
         /\ \A p : CountedRow(CompletedRow(r, p))
         /\ \A p, e : CountedRow(SyncRow(p, e))
         /\ \A e : r.status = "running" => CountedRow(FailedRow(r, e))
<1>1. CountedRow(NoRow) /\ CountedRow(EnqueuedRow) /\ CountedRow(PurgedRow(r))
  BY DEF CountedRow, NoRow, EnqueuedRow, PurgedRow
<1>2. CountedRow(ClaimedRow(r)) /\ CountedRow(RecoveredRow(r))
  BY DEF CountedRow, ClaimedRow, RecoveredRow, Row
<1>3. \A p : CountedRow(CompletedRow(r, p))
  BY DEF CountedRow, CompletedRow, Row
<1>4. \A p, e : CountedRow(SyncRow(p, e))
  BY DEF CountedRow, SyncRow, NoRow
<1>5. \A e : r.status = "running" => CountedRow(FailedRow(r, e))
  BY DEF CountedRow, FailedRow, Row
<1> QED BY <1>1, <1>2, <1>3, <1>4, <1>5

(* A step that brings no new job and takes no nudge, and puts no worker to *)
(* sleep, leaves nobody unseen.                                            *)
LEMMA AwakeKeeps ==
  ASSUME Awake, \A j \in Jobs : CountedRow(rows'[j]),
         \A j \in Jobs : NewJob(j)' => NewJob(j),
         nudge' = nudge, server' = "up" => server = "up",
         \A w \in Workers : go'[w].pc = "idle" \/ go'[w].pc = "off" =>
           go'[w].pc = go[w].pc
  PROVE  Awake'
BY DEF Awake, NewJobIsSeen, NewJob

(* A step of a worker.  It sleeps only when it has found no new job, and   *)
(* claims again whenever it is done with one.                              *)
LEMMA WorkerStepAwake ==
  ASSUME IInv, Awake, NEW w \in Workers, WorkerStep(w)
  PROVE  Awake'
<1>0. /\ w \in Actors /\ go \in [Actors -> Goroutine] /\ rows \in [Jobs -> Row]
      /\ nudge \in Nat /\ Workers \subseteq Actors
      /\ go[w].job \in Jobs \cup {0}
      /\ go[w].pc \notin {"off", "claim", "idle"} => go[w].job \in Jobs
      /\ go[w].job \in Jobs => rows[go[w].job].status = "running"
  BY AtFields, JobsAssumption, BoundsAssumption
     DEF IInv, TypeOK, Goroutine, GoroutineInv, IdleHoldsNothing, Holding, WorkerOwnsRow, Actors
<1>1. \A j \in Jobs : rows[j] \in Row /\ CountedRow(rows[j])
  BY <1>0 DEF Awake
<1>2. ASSUME NEW j \in Jobs, NEW r, CountedRow(r), ~(r.status = "queued" /\ r.attempts = 0),
             rows' = [rows EXCEPT ![j] = r], UNCHANGED <<nudge, server>>,
             \A b \in Workers : go'[b].pc = "idle" \/ go'[b].pc = "off" => go'[b].pc = go[b].pc
      PROVE  Awake'
  <2>1. \A k \in Jobs : CountedRow(rows'[k]) /\ (NewJob(k)' => NewJob(k))
    BY <1>0, <1>1, <1>2 DEF NewJob
  <2> QED BY <1>2, <2>1, AwakeKeeps
<1>3. CASE Claim(w)
  <2>1. PICK j \in Jobs :
          /\ rows' = [rows EXCEPT ![j] = ClaimedRow(rows[j])]
          /\ go' = Committed([go EXCEPT ![w] = Take(j, rows[j].attempts + 1)])
    BY <1>3 DEF Claim
  <2>2. CountedRow(ClaimedRow(rows[j])) /\ ClaimedRow(rows[j]).status # "queued"
    BY <1>1, RowsCounted DEF ClaimedRow, Row
  <2>3. \A b \in Workers : go'[b].pc = "idle" \/ go'[b].pc = "off" => go'[b].pc = go[b].pc
    BY <1>0, <2>1 DEF Committed, Goroutine, Take, At
  <2> QED BY <1>2, <1>3, <2>1, <2>2, <2>3 DEF Claim
<1>4. CASE ClaimNone(w)
  <2>1. ~Faults => \A j \in Jobs : ~Runnable(rows[j])
    BY <1>4 DEF ClaimNone
  <2>2. ~Faults => \A j \in Jobs : ~NewJob(j)
    BY <1>1, <2>1 DEF Runnable, CountedRow, NewJob
  <2>3. UNCHANGED <<rows, server>> /\ \A b \in Workers : go'[b].pc = "off" => go[b].pc = "off"
    BY <1>0, <1>4 DEF ClaimNone, At
  <2> QED BY <1>1, <2>2, <2>3 DEF Awake, NewJobIsSeen, NewJob
<1>5. CASE Wake(w)
  <2>1. go'[w].pc = "claim" /\ UNCHANGED <<rows, server>>
        /\ \A b \in Workers : go'[b].pc = "off" => go[b].pc = "off"
    BY <1>0, <1>5 DEF Wake, At
  <2> QED BY <1>1, <2>1 DEF Awake, NewJobIsSeen
<1>6. CASE Quit(w)
  BY <1>1, <1>6 DEF Quit, Awake, NewJobIsSeen
<1>7. CASE Tick(w) \/ RenderStep(w) \/ StoreFails(w) \/ CompleteError(w) \/ FailBegin(w)
             \/ FailConflict(w)
  <2>1. UNCHANGED <<rows, nudge, server>>
    BY <1>7 DEF Tick, RenderStep, Acquire, RenderFails, RenderSucceeds, StoreArtifact, StoreFails,
                CompleteError, FailBegin, FailConflict
  <2>2. \A b \in Workers : b # w => go'[b] = go[b]
    BY <1>0, <1>7 DEF Tick, RenderStep, Acquire, RenderFails, RenderSucceeds, StoreArtifact,
                StoreFails, CompleteError, FailBegin, FailConflict, Goroutine
  <2>3. go'[w].pc \notin {"idle", "off"}
    <3>1. CASE Tick(w) \/ CompleteError(w) \/ FailConflict(w)
      BY <1>0, <3>1, AtFields DEF Tick, CompleteError, FailConflict
    <3>2. CASE StoreFails(w) \/ \E e \in {"error", "canceled"} : RenderFails(w, e)
      BY <1>0, <3>2 DEF StoreFails, RenderFails, Goroutine
    <3>3. CASE Acquire(w) \/ RenderSucceeds(w) \/ StoreArtifact(w)
      BY <1>0, <3>3 DEF Acquire, RenderSucceeds, StoreArtifact, Goroutine
    <3>4. CASE FailBegin(w)
      BY <1>0, <3>4 DEF FailBegin, At, Goroutine
    <3> QED BY <1>7, <3>1, <3>2, <3>3, <3>4 DEF RenderStep
  <2> QED BY <1>1, <2>1, <2>2, <2>3, AwakeKeeps DEF NewJob
<1>8. CASE Complete(w)
  <2>1. /\ go[w].job \in Jobs
        /\ rows' = [rows EXCEPT ![go[w].job] = CompletedRow(rows[go[w].job], go[w].att)]
    BY <1>0, <1>8 DEF Complete
  <2>2. /\ CountedRow(CompletedRow(rows[go[w].job], go[w].att))
        /\ CompletedRow(rows[go[w].job], go[w].att).status # "queued"
    BY <1>0, <1>1, <2>1, RowsCounted DEF CompletedRow, Row
  <2>3. \A b \in Workers : go'[b].pc = "idle" \/ go'[b].pc = "off" => go'[b].pc = go[b].pc
    BY <1>0, <1>8 DEF Complete, Committed, Goroutine, At
  <2> QED BY <1>2, <1>8, <2>1, <2>2, <2>3 DEF Complete
<1>9. CASE FailCommit(w)
  <2>1. /\ go[w].job \in Jobs
        /\ rows' = [rows EXCEPT ![go[w].job] = FailedRow(rows[go[w].job], go[w].err)]
    BY <1>0, <1>9 DEF FailCommit
  <2>2. rows[go[w].job].attempts # 0
    BY <1>0, <1>1, <2>1 DEF CountedRow
  <2>3. /\ CountedRow(FailedRow(rows[go[w].job], go[w].err))
        /\ FailedRow(rows[go[w].job], go[w].err).attempts # 0
    BY <1>0, <1>1, <2>1, <2>2, RowsCounted DEF FailedRow, Row
  <2>4. \A b \in Workers : go'[b].pc = "idle" \/ go'[b].pc = "off" => go'[b].pc = go[b].pc
    BY <1>0, <1>9 DEF FailCommit, Committed, Goroutine, At
  <2> QED BY <1>2, <1>9, <2>1, <2>3, <2>4 DEF FailCommit
<1> QED BY <1>3, <1>4, <1>5, <1>6, <1>7, <1>8, <1>9 DEF WorkerStep

(* A step of a handler brings no work for the pool. *)
LEMMA HandlerStepAwake ==
  ASSUME IInv, Awake, NEW h \in Handlers, HandlerStep(h)
  PROVE  Awake'
<1>0. /\ go \in [Actors -> Goroutine] /\ rows \in [Jobs -> Row] /\ h \notin Workers
      /\ Workers \subseteq Actors
      /\ go[h].pc \in {"complete", "fail"} => go[h].job \in Jobs
  BY ActorsAssumption DEF IInv, TypeOK, Goroutine, GoroutineInv, IdleHoldsNothing, Holding, Actors
<1>1. \A j \in Jobs : rows[j] \in Row /\ CountedRow(rows[j])
  BY <1>0 DEF Awake
<1>2. CASE SyncRecord(h) \/ SyncRecordFailure(h)
  <2>1. PICK p, e : rows' = [rows EXCEPT ![go[h].job] = SyncRow(p, e)]
    BY <1>2 DEF SyncRecord, SyncRecordFailure
  <2>2. CountedRow(SyncRow(p, e)) /\ SyncRow(p, e).status # "queued"
    <3>1. CountedRow(SyncRow(p, e))
      BY DEF CountedRow, SyncRow, NoRow
    <3> QED BY <3>1 DEF SyncRow, NoRow
  <2>3. \A j \in Jobs : CountedRow(rows'[j]) /\ (NewJob(j)' => NewJob(j))
    BY <1>0, <1>1, <2>1, <2>2 DEF NewJob
  <2>4. go' = Committed([go EXCEPT ![h] = At("off")]) /\ UNCHANGED <<nudge, server>>
    BY <1>2 DEF SyncRecord, SyncRecordFailure
  <2>5. \A w \in Workers : go'[w].pc = go[w].pc
    BY <1>0, <2>4 DEF Committed, Goroutine
  <2> QED BY <2>3, <2>4, <2>5, AwakeKeeps
<1>3. CASE ~(SyncRecord(h) \/ SyncRecordFailure(h))
  <2>1. UNCHANGED <<rows, nudge, server>>
    BY <1>3 DEF HandlerStep, SyncStart, RenderStep, Acquire, RenderFails, RenderSucceeds,
                StoreArtifact, SyncGivesUp
  <2>2. \A w \in Workers : go'[w] = go[w]
    BY <1>0, <1>3 DEF HandlerStep, SyncStart, RenderStep, Acquire, RenderFails, RenderSucceeds,
                StoreArtifact, SyncGivesUp
  <2> QED BY <1>1, <2>1, <2>2, AwakeKeeps DEF NewJob
<1> QED BY <1>2, <1>3

(* A new job never waits for the ticker: loop claims again before it       *)
(* sleeps, and a nudge that is dropped finds another one in the channel.   *)
THEOREM NoWakeUpIsLost == Spec => []NewJobIsSeen
<1>1. Init => Awake
  <2> SUFFICES ASSUME Init PROVE Awake
    OBVIOUS
  <2>1. \A j \in Jobs : rows[j].status = "none"
    BY DEF Init, NoRow
  <2> QED BY <2>1 DEF Init, Awake, NewJobIsSeen, CountedRow
<1>2. IInv /\ Awake /\ [Next]_vars => Awake'
  <2> SUFFICES ASSUME IInv, Awake, [Next]_vars PROVE Awake'
    OBVIOUS
  <2>0. /\ go \in [Actors -> Goroutine] /\ rows \in [Jobs -> Row] /\ nudge \in Nat
        /\ Workers \subseteq Actors
        /\ \A j \in Jobs : rows[j] \in Row /\ CountedRow(rows[j])
    BY BoundsAssumption DEF IInv, TypeOK, Awake, Actors
  <2>1. ASSUME NEW j \in Jobs, PostJob(j) PROVE Awake'
    <3>1. rows' = [rows EXCEPT ![j] = EnqueuedRow] /\ server' = server /\ go' = Committed(go)
      BY <2>1 DEF PostJob
    <3>2. \A k \in Jobs : CountedRow(rows'[k])
      BY <2>0, <3>1, RowsCounted
    <3>3. \A w \in Workers : go'[w].pc = go[w].pc
      BY <2>0, <3>1 DEF Committed, Goroutine
    <3>4. Faults \/ nudge' > 0
      BY <2>0, <2>1, BoundsAssumption DEF PostJob
    <3> QED BY <3>1, <3>2, <3>3, <3>4 DEF Awake, NewJobIsSeen
  <2>2. ASSUME NEW j \in Jobs, GateOpens(j) PROVE Awake'
    <3>1. \A k \in Jobs : CountedRow(rows'[k]) /\ (NewJob(k)' => NewJob(k))
      BY <2>0, <2>2 DEF GateOpens, CountedRow, NewJob, Row
    <3> QED BY <2>2, <3>1, AwakeKeeps DEF GateOpens
  <2>3. ASSUME NEW w \in Workers, WorkerStep(w) PROVE Awake'
    BY <2>3, WorkerStepAwake
  <2>4. ASSUME NEW h \in Handlers, HandlerStep(h) PROVE Awake'
    BY <2>4, HandlerStepAwake
  <2>5. ASSUME NEW r \in Readers, ReaderStep(r) PROVE Awake'
    <3>1. UNCHANGED <<rows, server, go, nudge>>
      BY <2>5 DEF ReaderStep, GetJob, GetJobFails, ReadArtifact
    <3> QED BY <2>0, <3>1, AwakeKeeps DEF NewJob
  <2>6. ASSUME NEW S \in SUBSET Jobs, Purge(S) PROVE Awake'
    <3>1. \A k \in Jobs : CountedRow(rows'[k]) /\ (NewJob(k)' => NewJob(k))
      BY <2>0, <2>6 DEF Purge, PurgedRow, NoRow, CountedRow, NewJob
    <3>2. \A w \in Workers : go'[w].pc = go[w].pc
      BY <2>0, <2>6 DEF Purge, Committed, Goroutine
    <3> QED BY <2>6, <3>1, <3>2, AwakeKeeps DEF Purge
  <2>7. ASSUME NEW j \in Jobs, RemoveArtifact(j) \/ RemoveFails(j) PROVE Awake'
    <3>1. UNCHANGED <<rows, server, go, nudge>>
      BY <2>7 DEF RemoveArtifact, RemoveFails
    <3> QED BY <2>0, <3>1, AwakeKeeps DEF NewJob
  <2>8. CASE Boot
    <3>1. \A k \in Jobs : CountedRow(rows'[k])
      BY <2>0, <2>8, RowsCounted DEF Boot
    <3>2. \A w \in Workers : go'[w].pc = "claim"
      BY <2>0, <2>8 DEF Boot, Home, At
    <3> QED BY <3>1, <3>2, ActorsAssumption DEF Awake, NewJobIsSeen
  <2>9. CASE Interrupt \/ Exit \/ Crash
    <3>1. server' # "up" /\ rows' = rows
      BY <2>9 DEF Interrupt, Exit, Crash, ProcessEnds
    <3> QED BY <2>0, <3>1 DEF Awake, NewJobIsSeen
  <2>10. CASE KeysCommand
    <3>1. \A w \in Workers : go'[w].pc = go[w].pc
      BY <2>0, <2>10 DEF KeysCommand, Committed, Goroutine
    <3> QED BY <2>0, <2>10, <3>1, AwakeKeeps DEF KeysCommand, NewJob
  <2>11. CASE UNCHANGED vars
    BY <2>0, <2>11, AwakeKeeps DEF vars, NewJob
  <2> QED BY <2>1, <2>2, <2>3, <2>4, <2>5, <2>6, <2>7, <2>8, <2>9, <2>10, <2>11
          DEF Next, JanitorStep, ProcessStep
<1>3. Awake => NewJobIsSeen
  BY DEF Awake
<1> QED BY <1>1, <1>2, <1>3, Invariance, PTL DEF Spec

-----------------------------------------------------------------------------
(* Nothing else is lost.  A row turns running only in the hands of a       *)
(* worker, and a worker lets go of a running row at one point only.        *)

(* Who held a job still does, or it is running no more. *)
LEMMA NotStranded ==
  ASSUME NEW j \in Jobs, ~Stranded(j),
         rows'[j].status = "running" =>
           rows[j].status = "running" \/ \E a \in Actors : go'[a].job = j,
         \A a \in Actors : go[a].job = j => go'[a].job = j \/ rows'[j].status # "running"
  PROVE  ~Stranded(j)'
BY DEF Stranded

(* A worker's step strands a job only by FailConflict: Claim, Complete and *)
(* FailCommit change row and goroutine together, and FailBegin finds the   *)
(* row running, as nobody else touched it.                                 *)
LEMMA WorkerStrands ==
  ASSUME IInv, NEW w \in Workers, WorkerStep(w), ~Faults,
         NEW j \in Jobs, ~Stranded(j), Stranded(j)'
  PROVE  go[w].pc = "failtx" /\ go[w].job = j
<1>0. /\ w \in Actors /\ go \in [Actors -> Goroutine] /\ rows \in [Jobs -> Row]
      /\ go[w].job \in Jobs \cup {0} /\ j # 0
      /\ go[w].pc \in {"off", "claim", "idle"} => go[w].job = 0
      /\ go[w].pc \notin {"off", "claim", "idle"} => go[w].job \in Jobs
      /\ go[w].job \in Jobs => rows[go[w].job].status = "running"
  BY AtFields, JobsAssumption
     DEF IInv, TypeOK, Goroutine, GoroutineInv, IdleHoldsNothing, Holding, WorkerOwnsRow, Actors
<1>1. CASE Claim(w)
  <2>1. PICK k \in Jobs :
          /\ rows' = [rows EXCEPT ![k] = ClaimedRow(rows[k])]
          /\ go' = Committed([go EXCEPT ![w] = Take(k, rows[k].attempts + 1)])
    BY <1>1 DEF Claim
  <2>2. go'[w].job = k /\ \A a \in Actors : a # w => go'[a].job = go[a].job
    BY <1>0, <2>1 DEF Committed, Take, At, Goroutine
  <2>3. go[w].job # j
    BY <1>0, <1>1 DEF Claim
  <2>4. k # j => rows'[j] = rows[j]
    BY <1>0, <2>1
  <2> QED BY <1>0, <2>2, <2>3, <2>4, NotStranded
<1>2. CASE ClaimNone(w) \/ Wake(w) \/ Tick(w) \/ Quit(w)
  <2>1. rows' = rows /\ \A a \in Actors : a # w => go'[a] = go[a]
    BY <1>0, <1>2 DEF ClaimNone, Wake, Tick, Quit
  <2>2. go[w].job # j
    BY <1>0, <1>2 DEF ClaimNone, Wake, Tick, Quit
  <2> QED BY <2>1, <2>2, NotStranded
<1>3. CASE RenderStep(w) \/ StoreFails(w)
  <2>1. rows' = rows /\ \A a \in Actors : go'[a].job = go[a].job
    BY <1>0, <1>3 DEF RenderStep, Acquire, RenderFails, RenderSucceeds, StoreArtifact, StoreFails,
                      Goroutine
  <2> QED BY <2>1, NotStranded
<1>4. CASE Complete(w)
  <2>1. rows' = [rows EXCEPT ![go[w].job] = CompletedRow(rows[go[w].job], go[w].att)]
    BY <1>4 DEF Complete
  <2>2. go[w].job = j => rows'[j].status # "running"
    BY <1>0, <2>1 DEF CompletedRow, Row
  <2>3. go[w].job # j => rows'[j] = rows[j]
    BY <1>0, <2>1
  <2>4. \A a \in Actors : a # w => go'[a].job = go[a].job
    BY <1>0, <1>4 DEF Complete, Committed, Goroutine
  <2> QED BY <2>2, <2>3, <2>4, NotStranded
<1>5. CASE FailBegin(w)
  <2>1. rows' = rows /\ \A a \in Actors : a # w => go'[a] = go[a]
    BY <1>0, <1>5 DEF FailBegin
  <2>2. go[w].job \in Jobs /\ rows[go[w].job].status = "running"
    BY <1>0, <1>5 DEF FailBegin
  <2>3. go'[w].job = go[w].job
    BY <1>0, <1>5, <2>2 DEF FailBegin, Goroutine
  <2> QED BY <2>1, <2>3, NotStranded
<1>6. CASE FailCommit(w)
  <2>1. rows' = [rows EXCEPT ![go[w].job] = FailedRow(rows[go[w].job], go[w].err)]
    BY <1>6 DEF FailCommit
  <2>2. go[w].job = j => rows'[j].status # "running"
    BY <1>0, <2>1 DEF FailedRow, Row
  <2>3. go[w].job # j => rows'[j] = rows[j]
    BY <1>0, <2>1
  <2>4. \A a \in Actors : a # w => go'[a].job = go[a].job
    BY <1>0, <1>6 DEF FailCommit, Committed, Goroutine
  <2> QED BY <2>2, <2>3, <2>4, NotStranded
<1>7. CASE FailConflict(w)
  <2>1. rows' = rows /\ \A a \in Actors : a # w => go'[a] = go[a]
    BY <1>0, <1>7 DEF FailConflict
  <2>2. go[w].job = j
    BY <2>1, NotStranded
  <2> QED BY <1>7, <2>2 DEF FailConflict
<1> QED BY <1>1, <1>2, <1>3, <1>4, <1>5, <1>6, <1>7 DEF WorkerStep, CompleteError

(* A handler has no row to lose. *)
LEMMA HandlerStrands ==
  ASSUME IInv, NEW h \in Handlers, HandlerStep(h), NEW j \in Jobs, ~Stranded(j)
  PROVE  ~Stranded(j)'
<1>0. /\ h \in Actors /\ go \in [Actors -> Goroutine] /\ rows \in [Jobs -> Row]
      /\ go[h].pc = "off" => go[h].job = 0
      /\ go[h].job \in Jobs \cup {0} /\ j # 0
      /\ go[h].job = j => rows[j].status # "running"
  BY JobsAssumption
     DEF IInv, TypeOK, Goroutine, GoroutineInv, IdleHoldsNothing, Holding, HandlerOwnsNoRow, Actors
<1>1. rows'[j].status = "running" => rows[j].status = "running"
  <2>1. CASE SyncRecord(h) \/ SyncRecordFailure(h)
    <3>1. PICK p, e : rows' = [rows EXCEPT ![go[h].job] = SyncRow(p, e)]
      BY <2>1 DEF SyncRecord, SyncRecordFailure
    <3>2. SyncRow(p, e).status # "running"
      BY DEF SyncRow, NoRow
    <3> QED BY <1>0, <3>1, <3>2
  <2>2. CASE ~(SyncRecord(h) \/ SyncRecordFailure(h))
    BY <2>2 DEF HandlerStep, SyncStart, RenderStep, Acquire, RenderFails, RenderSucceeds,
                StoreArtifact, SyncGivesUp
  <2> QED BY <2>1, <2>2
<1>2. \A a \in Actors : a # h => go'[a].job = go[a].job
  <2>1. CASE SyncRecord(h) \/ SyncRecordFailure(h)
    BY <1>0, <2>1 DEF SyncRecord, SyncRecordFailure, Committed, Goroutine
  <2>2. CASE ~(SyncRecord(h) \/ SyncRecordFailure(h))
    BY <1>0, <2>2 DEF HandlerStep, SyncStart, RenderStep, Acquire, RenderFails, RenderSucceeds,
                      StoreArtifact, SyncGivesUp
  <2> QED BY <2>1, <2>2
<1>3. rows[j].status = "running" => go[h].job # j
  BY <1>0
<1> QED BY <1>1, <1>2, <1>3, NotStranded

(* Only Fail's transaction, refused by SQLite, makes a living process      *)
(* forget a job while nothing else fails: process records every other      *)
(* outcome it has.                                                         *)
THEOREM NothingElseIsLost == Spec => LostOnlyToConflict
<1>1. IInv /\ [Next]_vars =>
        [~Faults /\ server' # "down" =>
           \A j \in Jobs : ~Stranded(j) /\ Stranded(j)' =>
             \E w \in Workers : go[w].pc = "failtx" /\ go[w].job = j]_vars
  <2> SUFFICES ASSUME IInv, Next, ~Faults, server' # "down",
                      NEW j \in Jobs, ~Stranded(j), Stranded(j)'
               PROVE  \E w \in Workers : go[w].pc = "failtx" /\ go[w].job = j
    OBVIOUS
  <2>0. go \in [Actors -> Goroutine] /\ rows \in [Jobs -> Row]
    BY DEF IInv, TypeOK
  <2>1. ASSUME NEW k \in Jobs, PostJob(k) PROVE FALSE
    <3>1. \A a \in Actors : go'[a].job = go[a].job
      BY <2>0, <2>1 DEF PostJob, Committed, Goroutine
    <3>2. rows'[j].status = "running" => rows[j].status = "running"
      BY <2>0, <2>1 DEF PostJob, EnqueuedRow, NoRow
    <3> QED BY <3>1, <3>2, NotStranded
  <2>2. ASSUME NEW k \in Jobs, GateOpens(k) PROVE FALSE
    <3>1. rows'[j].status = rows[j].status
      BY <2>0, <2>2 DEF GateOpens, Row
    <3> QED BY <2>2, <3>1, NotStranded DEF GateOpens
  <2>3. ASSUME NEW w \in Workers, WorkerStep(w)
        PROVE  go[w].pc = "failtx" /\ go[w].job = j
    BY <2>3, WorkerStrands
  <2>4. ASSUME NEW h \in Handlers, HandlerStep(h) PROVE FALSE
    BY <2>4, HandlerStrands
  <2>5. ASSUME NEW r \in Readers, ReaderStep(r) PROVE FALSE
    BY <2>5, NotStranded DEF ReaderStep, GetJob, GetJobFails, ReadArtifact
  <2>6. ASSUME NEW S \in SUBSET Jobs, Purge(S) PROVE FALSE
    <3>1. \A a \in Actors : go'[a].job = go[a].job
      BY <2>0, <2>6 DEF Purge, Committed, Goroutine
    <3>2. rows'[j].status = "running" => rows[j].status = "running"
      BY <2>0, <2>6 DEF Purge, PurgedRow, NoRow
    <3> QED BY <3>1, <3>2, NotStranded
  <2>7. ASSUME NEW k \in Jobs, RemoveArtifact(k) \/ RemoveFails(k) PROVE FALSE
    BY <2>7, NotStranded DEF RemoveArtifact, RemoveFails
  <2>8. CASE Boot
    <3>1. rows'[j].status # "running"
      BY <2>0, <2>8 DEF Boot, RecoveredRow, Row
    <3> QED BY <3>1 DEF Stranded
  <2>9. CASE Interrupt
    BY <2>9, NotStranded DEF Interrupt
  <2>10. CASE Exit \/ Crash
    BY <2>10 DEF Exit, Crash, ProcessEnds
  <2>11. CASE KeysCommand
    <3>1. \A a \in Actors : go'[a].job = go[a].job
      BY <2>0, <2>11 DEF KeysCommand, Committed, Goroutine
    <3> QED BY <2>11, <3>1, NotStranded DEF KeysCommand
  <2> QED BY <2>1, <2>2, <2>3, <2>4, <2>5, <2>6, <2>7, <2>8, <2>9, <2>10, <2>11
          DEF Next, JanitorStep, ProcessStep
<1> QED BY <1>1, Invariance, PTL DEF Spec, LostOnlyToConflict

-----------------------------------------------------------------------------
(* Refinement of JobLifecycle.                                             *)

(* A step that leaves every row's view alone is a stutter of the           *)
(* lifecycle, whatever it does to files no succeeded row speaks of.        *)
LEMMA StutterStep ==
  ASSUME IInv,
         \A j \in Jobs : /\ rows'[j].status = rows[j].status
                         /\ rows'[j].attempts = rows[j].attempts
                         /\ rows[j].status = "succeeded" => disk'[j] = disk[j]
  PROVE  UNCHANGED Lifecycle!abstractVars
BY DEF Lifecycle!abstractVars

(* What one goroutine records about its own job is one abstract action.    *)
LEMMA OneJobStep ==
  ASSUME IInv, NEW j \in Jobs,
         \A k \in Jobs \ {j} : rows'[k] = rows[k],
         UNCHANGED disk,
         rows[j].status # "succeeded",
         \/ /\ rows[j].status = "none" /\ rows'[j].status = "queued"
            /\ rows'[j].attempts = 0
         \/ /\ rows[j].status = "none"
            /\ rows'[j].status = "succeeded" /\ disk[j] = 1
            /\ rows'[j].attempts = 1
         \/ /\ rows[j].status = "none" /\ rows'[j].status = "failed"
            /\ rows'[j].attempts = 1
         \/ /\ rows[j].status = "queued" /\ rows'[j].status = "running"
            /\ rows'[j].attempts = rows[j].attempts + 1
         \/ /\ rows[j].status = "running"
            /\ rows'[j].attempts = rows[j].attempts
            /\ \/ rows'[j].status = "succeeded" /\ disk[j] = rows[j].attempts
               \/ rows'[j].status = "queued" /\ rows[j].attempts < Limit
               \/ rows'[j].status = "failed" /\ rows[j].attempts >= Limit
  PROVE  Lifecycle!Next
<1> DEFINE state == [k \in Jobs |-> rows[k].status]
           tries == [k \in Jobs |-> rows[k].attempts]
           doc == [k \in Jobs |->
                     IF rows[k].status = "succeeded" THEN disk[k] ELSE 0]
           statenext == [k \in Jobs |-> rows'[k].status]
           triesnext == [k \in Jobs |-> rows'[k].attempts]
           docnext == [k \in Jobs |->
                     IF rows'[k].status = "succeeded" THEN disk'[k] ELSE 0]
<1>1. /\ statenext = [state EXCEPT ![j] = rows'[j].status]
      /\ triesnext = [tries EXCEPT ![j] = rows'[j].attempts]
      /\ docnext = [doc EXCEPT ![j] =
                     IF rows'[j].status = "succeeded" THEN disk[j] ELSE 0]
  OBVIOUS
<1>2. rows'[j].attempts = rows[j].attempts => triesnext = tries
  OBVIOUS
<1>3. rows'[j].status # "succeeded" => docnext = doc
  OBVIOUS
<1>4. Lifecycle!Allowed = Limit
  BY DEF Lifecycle!Allowed, Limit
<1>5. CASE rows[j].status = "none" /\ rows'[j].status = "queued"
           /\ rows'[j].attempts = 0
  <2>1. Lifecycle!Submit(j)
    BY <1>1, <1>3, <1>5 DEF Lifecycle!Submit
  <2>2. QED
    BY <2>1 DEF Lifecycle!Next
<1>6. CASE rows[j].status = "none" /\ rows'[j].attempts = 1
           /\ rows'[j].status = "succeeded" /\ disk[j] = 1
  <2>1. Lifecycle!Record(j, 1)
    BY <1>1, <1>6 DEF Lifecycle!Record
  <2>2. QED
    BY <2>1 DEF Lifecycle!Next
<1>7. CASE rows[j].status = "none" /\ rows'[j].attempts = 1
           /\ rows'[j].status = "failed"
  <2>1. Lifecycle!Record(j, 0)
    BY <1>1, <1>7 DEF Lifecycle!Record
  <2>2. QED
    BY <2>1 DEF Lifecycle!Next
<1>8. CASE rows[j].status = "queued" /\ rows'[j].status = "running"
           /\ rows'[j].attempts = rows[j].attempts + 1
  <2>1. Lifecycle!Start(j)
    BY <1>1, <1>3, <1>8 DEF Lifecycle!Start
  <2>2. QED
    BY <2>1 DEF Lifecycle!Next
<1>9. CASE rows[j].status = "running" /\ rows'[j].attempts = rows[j].attempts
           /\ rows'[j].status = "succeeded" /\ disk[j] = rows[j].attempts
  <2>1. Lifecycle!Finish(j)
    BY <1>1, <1>2, <1>9 DEF Lifecycle!Finish
  <2>2. QED
    BY <2>1 DEF Lifecycle!Next
<1>10. CASE rows[j].status = "running" /\ rows'[j].attempts = rows[j].attempts
            /\ rows'[j].status = "queued" /\ rows[j].attempts < Limit
  <2>1. Lifecycle!Retry(j)
    BY <1>1, <1>2, <1>3, <1>4, <1>10 DEF Lifecycle!Retry
  <2>2. QED
    BY <2>1 DEF Lifecycle!Next
<1>11. CASE rows[j].status = "running" /\ rows'[j].attempts = rows[j].attempts
            /\ rows'[j].status = "failed" /\ rows[j].attempts >= Limit
  <2>1. Lifecycle!GiveUp(j)
    BY <1>1, <1>2, <1>3, <1>4, <1>11 DEF Lifecycle!GiveUp
  <2>2. QED
    BY <2>1 DEF Lifecycle!Next
<1>12. QED
  BY <1>5, <1>6, <1>7, <1>8, <1>9, <1>10, <1>11

(* Every step of the service is a step of the lifecycle, or invisible to   *)
(* it.                                                                     *)
LEMMA Simulation ==
  ASSUME IInv, Next
  PROVE  Lifecycle!Next \/ UNCHANGED Lifecycle!abstractVars
<1>0. rows \in [Jobs -> Row] /\ go \in [Actors -> Goroutine]
  BY DEF IInv, TypeOK
<1>1. CASE UNCHANGED <<rows, disk>>
  BY <1>1, StutterStep
<1>2. ASSUME NEW a \in Actors, StoreArtifact(a)
      PROVE  UNCHANGED Lifecycle!abstractVars
  <2>1. go[a].job \in Jobs /\ rows[go[a].job].status \in {"running", "none"}
    BY <1>0, <1>2 DEF StoreArtifact, IInv, GoroutineInv, IdleHoldsNothing,
       Holding, WorkerOwnsRow, HandlerOwnsNoRow, Goroutine, Actors
  <2>2. \A j \in Jobs : rows[j].status = "succeeded" => disk'[j] = disk[j]
    BY <1>2, <2>1 DEF StoreArtifact, IInv, TypeOK
  <2>3. QED
    BY <1>2, <2>2, StutterStep DEF StoreArtifact
<1>3. ASSUME NEW j \in Jobs, PostJob(j)
      PROVE  Lifecycle!Next
  <2>1. rows[j].status = "none" /\ UNCHANGED disk
    BY <1>3 DEF PostJob, Unused
  <2>2. /\ rows'[j].status = "queued" /\ rows'[j].attempts = 0
        /\ \A k \in Jobs \ {j} : rows'[k] = rows[k]
    BY <1>0, <1>3 DEF PostJob, EnqueuedRow, NoRow
  <2>3. QED
    BY <2>1, <2>2, OneJobStep
<1>4. ASSUME NEW j \in Jobs, GateOpens(j)
      PROVE  UNCHANGED Lifecycle!abstractVars
  BY <1>0, <1>4, StutterStep DEF GateOpens, Row
<1>5. ASSUME NEW w \in Workers, WorkerStep(w)
      PROVE  Lifecycle!Next \/ UNCHANGED Lifecycle!abstractVars
  <2>1. CASE Claim(w)
    <3>1. PICK j \in Jobs : /\ rows[j].status = "queued"
                            /\ rows' = [rows EXCEPT ![j] = ClaimedRow(rows[j])]
      BY <2>1 DEF Claim, Oldest, Runnable
    <3>2. /\ rows'[j].status = "running"
          /\ rows'[j].attempts = rows[j].attempts + 1
      BY <1>0, <3>1 DEF ClaimedRow, Row
    <3>3. QED
      BY <1>0, <2>1, <3>1, <3>2, OneJobStep DEF Claim
  <2>2. ASSUME Complete(w) \/ FailCommit(w)
        PROVE  Lifecycle!Next
    <3> DEFINE j == go[w].job
    <3>1. j \in Jobs /\ Holding(w) /\ w \in Actors
      BY <1>0, <2>2 DEF Complete, FailCommit, IInv, GoroutineInv,
         IdleHoldsNothing, Holding, Goroutine, Actors
    <3>2. /\ rows[j].status = "running" /\ rows[j].attempts = go[w].att
          /\ rows[j].max = Limit /\ rows[j] \in Row
      BY <1>0, <3>1 DEF IInv, GoroutineInv, WorkerOwnsRow, RowInv,
         UnfinishedHasLimit
    <3>3. UNCHANGED disk /\ \A k \in Jobs \ {j} : rows'[k] = rows[k]
      BY <1>0, <2>2 DEF Complete, FailCommit
    <3>4. CASE Complete(w)
      <4>1. /\ rows'[j].status = "succeeded"
            /\ rows'[j].attempts = rows[j].attempts
        BY <1>0, <3>1, <3>2, <3>4 DEF Complete, CompletedRow, Row
      <4>2. disk[j] = rows[j].attempts
        BY <3>1, <3>2, <3>4 DEF Complete, IInv, GoroutineInv, ArtifactInPlace
      <4>3. QED
        BY <3>1, <3>2, <3>3, <4>1, <4>2, OneJobStep
    <3>5. CASE FailCommit(w)
      <4>1. /\ rows'[j].status = IF rows[j].attempts >= Limit
                                 THEN "failed" ELSE "queued"
            /\ rows'[j].attempts = rows[j].attempts
        BY <1>0, <3>1, <3>2, <3>5 DEF FailCommit, FailedRow, Row
      <4>2. rows[j].attempts \in Nat /\ Limit \in Nat
        BY <3>2, MaxAttemptsAssumption DEF Row, Limit
      <4>3. \/ rows'[j].status = "queued" /\ rows[j].attempts < Limit
            \/ rows'[j].status = "failed" /\ rows[j].attempts >= Limit
        BY <4>1, <4>2
      <4>4. QED
        BY <3>1, <3>2, <3>3, <4>1, <4>3, OneJobStep
    <3>6. QED
      BY <2>2, <3>4, <3>5
  <2>3. CASE StoreArtifact(w)
    BY <1>2, <2>3 DEF Actors
  <2>4. QED
    BY <1>1, <1>5, <2>1, <2>2, <2>3 DEF WorkerStep, ClaimNone, Wake, Tick, Quit,
       RenderStep, Acquire, RenderFails, RenderSucceeds, StoreFails,
       CompleteError, FailBegin, FailConflict
<1>6. ASSUME NEW h \in Handlers, HandlerStep(h)
      PROVE  Lifecycle!Next \/ UNCHANGED Lifecycle!abstractVars
  <2>1. ASSUME SyncRecord(h) \/ SyncRecordFailure(h)
        PROVE  Lifecycle!Next
    <3> DEFINE j == go[h].job
    <3>1. j \in Jobs /\ Holding(h) /\ h \in Actors
      BY <1>0, <2>1 DEF SyncRecord, SyncRecordFailure, IInv, GoroutineInv,
         IdleHoldsNothing, Holding, Goroutine, Actors
    <3>2. rows[j].status = "none" /\ go[h].att = 1
      BY <3>1 DEF IInv, GoroutineInv, HandlerOwnsNoRow
    <3>3. UNCHANGED disk /\ \A k \in Jobs \ {j} : rows'[k] = rows[k]
      BY <1>0, <2>1 DEF SyncRecord, SyncRecordFailure
    <3>4. CASE SyncRecord(h)
      <4>1. rows'[j].status = "succeeded" /\ rows'[j].attempts = 1
        BY <1>0, <3>1, <3>4 DEF SyncRecord, SyncRow, NoRow
      <4>2. disk[j] = 1
        BY <3>1, <3>2, <3>4 DEF SyncRecord, IInv, GoroutineInv, ArtifactInPlace
      <4>3. QED
        BY <3>1, <3>2, <3>3, <4>1, <4>2, OneJobStep
    <3>5. CASE SyncRecordFailure(h)
      <4>1. rows'[j].status = "failed" /\ rows'[j].attempts = 1
        BY <1>0, <3>1, <3>5 DEF SyncRecordFailure, SyncRow, NoRow
      <4>2. QED
        BY <3>1, <3>2, <3>3, <4>1, OneJobStep
    <3>6. QED
      BY <2>1, <3>4, <3>5
  <2>2. CASE StoreArtifact(h)
    BY <1>2, <2>2 DEF Actors
  <2>3. QED
    BY <1>1, <1>6, <2>1, <2>2 DEF HandlerStep, SyncStart, RenderStep, Acquire,
       RenderFails, RenderSucceeds, SyncGivesUp
<1>7. CASE ProcessStep
  <2>1. CASE Boot
    <3>1. \A j \in Jobs :
            /\ rows'[j].status = IF rows[j].status = "running" THEN "queued"
                                                              ELSE rows[j].status
            /\ rows'[j].attempts = rows[j].attempts
      BY <1>0, <2>1 DEF Boot, RecoveredRow, Row
    <3>2. Lifecycle!Recover
      BY <2>1, <3>1 DEF Boot, Lifecycle!Recover
    <3>3. QED
      BY <3>2 DEF Lifecycle!Next
  <2>2. QED
    BY <1>1, <1>7, <2>1 DEF ProcessStep, Interrupt, Exit, Crash
<1>8. CASE JanitorStep
  <2>1. ASSUME NEW S \in SUBSET Jobs, Purge(S)
        PROVE  Lifecycle!Next
    <3>1. \A j \in Jobs :
            /\ rows'[j].status = IF j \in S THEN "purged" ELSE rows[j].status
            /\ rows'[j].attempts = IF j \in S THEN 0 ELSE rows[j].attempts
      BY <1>0, <2>1 DEF Purge, PurgedRow, NoRow
    <3>2. Lifecycle!Expire(S)
      BY <2>1, <3>1 DEF Purge, Terminal, Lifecycle!Expire
    <3>3. QED
      BY <2>1, <3>2 DEF Lifecycle!Next
  <2>2. ASSUME NEW j \in Jobs, RemoveArtifact(j) \/ RemoveFails(j)
        PROVE  UNCHANGED Lifecycle!abstractVars
    <3>1. rows[j].status = "purged"
      BY <2>2 DEF RemoveArtifact, RemoveFails, IInv, RowInv, DoomedIsPurged
    <3>2. \A k \in Jobs : rows[k].status = "succeeded" => disk'[k] = disk[k]
      BY <2>2, <3>1 DEF RemoveArtifact, RemoveFails, IInv, TypeOK
    <3>3. QED
      BY <2>2, <3>2, StutterStep DEF RemoveArtifact, RemoveFails
  <2>3. QED
    BY <1>8, <2>1, <2>2 DEF JanitorStep
<1>9. ASSUME NEW r \in Readers, ReaderStep(r)
      PROVE  UNCHANGED <<rows, disk>>
  BY <1>9 DEF ReaderStep, GetJob, GetJobFails, ReadArtifact
<1>10. QED
  BY <1>1, <1>3, <1>4, <1>5, <1>6, <1>7, <1>8, <1>9 DEF Next, KeysCommand

(* What clients see of their jobs is a JobLifecycle: the queue, workers,   *)
(* transactions, files, crashes and retention together keep its promise.   *)
THEOREM Refinement == Spec => ImplementsLifecycle
<1>1. Init => Lifecycle!Init
  <2> SUFFICES ASSUME Init
               PROVE  Lifecycle!Init
    OBVIOUS
  <2>1. \A j \in Jobs : rows[j].status = "none" /\ rows[j].attempts = 0
    BY DEF Init, NoRow
  <2>2. QED
    BY <2>1 DEF Lifecycle!Init
<1>2. IInv /\ [Next]_vars => [Lifecycle!Next]_(Lifecycle!abstractVars)
  <2> SUFFICES ASSUME IInv, [Next]_vars
               PROVE  Lifecycle!Next \/ UNCHANGED Lifecycle!abstractVars
    OBVIOUS
  <2>1. CASE Next
    BY <2>1, Simulation
  <2>2. CASE UNCHANGED vars
    BY <2>2, StutterStep DEF vars
  <2>3. QED
    BY <2>1, <2>2
<1>3. QED
  BY <1>1, <1>2, Invariance, PTL DEF Spec, Lifecycle!Spec, ImplementsLifecycle

-----------------------------------------------------------------------------
(* Refinement of JobListing, which is coarser than JobLifecycle: what the  *)
(* lifecycle lets a job do, a listing may show.                            *)

(* The ways a status can go within the lifecycle. *)
LEMMA LifecycleMoves ==
  ASSUME Lifecycle!Next, NEW j \in Jobs
  PROVE  \/ rows'[j].status = rows[j].status
         \/ <<rows[j].status, rows'[j].status>> \in
              {<<"none", "queued">>, <<"none", "succeeded">>, <<"none", "failed">>,
               <<"queued", "running">>, <<"running", "queued">>,
               <<"running", "succeeded">>, <<"running", "failed">>,
               <<"succeeded", "purged">>, <<"failed", "purged">>}
<1> DEFINE state == [k \in Jobs |-> rows[k].status]
           statenext == [k \in Jobs |-> rows'[k].status]
<1>0. state[j] = rows[j].status /\ statenext[j] = rows'[j].status
  OBVIOUS
<1>1. ASSUME NEW k \in Jobs, Lifecycle!Submit(k) \/ Lifecycle!Start(k) \/ Lifecycle!Retry(k)
                             \/ Lifecycle!Finish(k) \/ Lifecycle!GiveUp(k)
      PROVE  \/ statenext[j] = state[j]
             \/ <<state[j], statenext[j]>> \in
                  {<<"none", "queued">>, <<"queued", "running">>, <<"running", "queued">>,
                   <<"running", "succeeded">>, <<"running", "failed">>}
  BY <1>1 DEF Lifecycle!Submit, Lifecycle!Start, Lifecycle!Retry, Lifecycle!Finish,
              Lifecycle!GiveUp
<1>2. ASSUME NEW k \in Jobs, NEW d \in {0, 1}, Lifecycle!Record(k, d)
      PROVE  \/ statenext[j] = state[j]
             \/ <<state[j], statenext[j]>> \in {<<"none", "succeeded">>, <<"none", "failed">>}
  BY <1>2 DEF Lifecycle!Record
<1>3. CASE Lifecycle!Recover
  BY <1>3 DEF Lifecycle!Recover
<1>4. ASSUME NEW S \in SUBSET Jobs, Lifecycle!Expire(S)
      PROVE  \/ statenext[j] = state[j]
             \/ <<state[j], statenext[j]>> \in {<<"succeeded", "purged">>, <<"failed", "purged">>}
  BY <1>4 DEF Lifecycle!Expire
<1> HIDE DEF state, statenext
<1> QED BY <1>0, <1>1, <1>2, <1>3, <1>4 DEF Lifecycle!Next

(* Between two listings a job is where JobListing lets it be, whatever     *)
(* retries, crashes, restarts and retention do in between.                 *)
THEOREM ListingRefinement == Spec => ImplementsListing
<1>1. Init => Listing!Init
  <2> SUFFICES ASSUME Init PROVE Listing!Init
    OBVIOUS
  <2>1. \A j \in Jobs : rows[j].status = "none"
    BY DEF Init, NoRow
  <2>2. \A j \in Jobs : Listed(rows[j].status) = "none"
    BY <2>1 DEF Listed, Terminal
  <2> QED BY <2>2 DEF Listing!Init
<1>2. IInv /\ IInv' /\ [Next]_vars => [Listing!Next]_([j \in Jobs |-> Listed(rows[j].status)])
  <2> SUFFICES ASSUME IInv, IInv', Next PROVE Listing!Next
                 \/ UNCHANGED [j \in Jobs |-> Listed(rows[j].status)]
    BY DEF vars
  <2>1. CASE UNCHANGED Lifecycle!abstractVars
    <3> DEFINE state == [k \in Jobs |-> rows[k].status]
               statenext == [k \in Jobs |-> rows'[k].status]
    <3>1. statenext = state
      BY <2>1 DEF Lifecycle!abstractVars
    <3>2. \A j \in Jobs : statenext[j] = rows'[j].status /\ state[j] = rows[j].status
      OBVIOUS
    <3> HIDE DEF state, statenext
    <3>3. \A j \in Jobs : Listed(rows'[j].status) = Listed(rows[j].status)
      BY <3>1, <3>2
    <3> QED BY <3>3
  <2>2. CASE Lifecycle!Next
    <3>1. \A j \in Jobs : rows[j].status \in Status /\ rows'[j].status \in Status
      BY DEF IInv, TypeOK, Row
    <3>2. \A j \in Jobs : Listed(rows'[j].status) \in {"unfinished", "finished", "none", "purged"}
      BY <3>1 DEF Listed, Status, Terminal
    <3>3. ASSUME NEW j \in Jobs
          PROVE  \/ Listed(rows'[j].status) = Listed(rows[j].status)
                 \/ <<Listed(rows[j].status), Listed(rows'[j].status)>> \in
                      {<<"none", "unfinished">>, <<"unfinished", "finished">>,
                       <<"none", "finished">>, <<"finished", "purged">>}
      BY <2>2, LifecycleMoves DEF Listed, Terminal
    <3> QED BY <3>2, <3>3 DEF Listing!Next, Listing!Statuses, Listing!Moves
  <2> QED BY <2>1, <2>2, Simulation
<1> QED BY <1>1, <1>2, Invariance, PTL DEF Spec, Listing!Spec, ImplementsListing

=============================================================================
