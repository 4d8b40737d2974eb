# TLA+ model of typst-pdf

typst-pdf is a Go HTTP service that renders Typst templates to PDF, at once
(`POST /render/{template}`) or through a queue of jobs in SQLite
(`POST /v1/jobs`), with a browser designer for the templates.  This directory
models what happens in it concurrently, across crashes and restarts, and in the
browser; TLC checks the models on small instances and TLAPS proves the safety of
every part modelled for instances of any size.

    tlc -config service.cfg MCRenderService     # PROJECT.json lists every run
    for m in *Proofs.tla; do tlapm $m; done

## 1. The system

| component | state it keeps | operations | who it talks to |
|---|---|---|---|
| Job store, `internal/store/store.go` | the `jobs` table: status, attempts, max_attempts, run_after, error, pdf columns, times as texts | Enqueue, RecordSyncJob, Claim, Complete, Fail, RecoverRunning, PurgeBefore, GetJob; `ts`/`parseTS` | SQLite (WAL, busy_timeout, several connections); called by worker, API, main |
| Worker pool, `internal/worker/worker.go` | one goroutine per worker, the nudge channel (64 places) | Run, loop (claim / wait for nudge, ticker or cancellation), process, StoreArtifact, TemplateVersion | store, renderer, artifacts directory |
| HTTP API, `internal/api/api.go` | none of its own | postJob (202), syncRender, getJobPDF (200/404/409/410), listings | store, pool (nudge), renderer |
| Designer API, `internal/api/designer.go` | template files, written through `.tmp` and rename | designerPut with its save gate, designerDelete, designerGet, preview | templates directory, renderer |
| Renderer, `internal/render/render.go` | a semaphore, a temporary directory per render | Render: merge defaults, wait for the semaphore, stage the templates, run `typst` (archival, then plain), kill it on timeout or cancellation | templates directory, external `typst` |
| Server process, `cmd/server/main.go` | signal context, pool, janitor (its list of purged ids) | start with RecoverRunning, SIGINT, shutdown with a time limit, hourly retention, `keys` subcommands in other processes | all of the above |
| Designer: documents, `state/designer.ts`, `views/TemplatesView.vue`, `components/TemplateRail.vue`, `CodeEditor.vue` | document, saved snapshot, URL hash and route, dialogs, undo history | open, edit, undo, save, create, delete, switch, discard, visit the jobs page and return | designer API |
| Designer: preview, `state/designer.ts`, `components/PreviewPane.vue` | pages and PDF shown (object URLs), diagnostics, `busy`, debounce timer, data and mode chosen | render, auto render, export, release | preview API; documents |
| Designer: payload keys, `state/designer.ts`, `EditorPane.vue`, `PageSetupForm.vue`, `editor/typst.ts` | source, defaults and example as texts | key audit, one-click fix, page form, completion | the save gate; `page.typ` |
| Designer: what is in sight, `PreviewPane.vue`, `TemplatesView.vue`, `EditorPane.vue`, `CodeEditor.vue` | zoom, split (kept in localStorage), tab, caret, place of the diagnostic | wheel, zoom buttons, drag, jump | localStorage |
| Designer: jobs page and key, `views/JobsView.vue`, `App.vue`, `state/session.ts` | listing, loading, error, API key (kept in localStorage), needsKey, dialog | poll, refresh, open a PDF, set, cancel and change the key | jobs API; every 401 |
| API keys, migrations, signing | `api_keys`, `user_version`, the seed file | create/list/disable, migrate, Load | store, main |

What is hard here, and hard to test:

* Worker goroutines share no lock.  A job belongs to whoever turned its row to
  `running`, and `Fail` and `Complete` update rows they have not looked at again.
* `Fail` is a *deferred* transaction that reads and then writes: the write fails at
  once when another connection has committed in between or holds the write lock.
* A row and its PDF live in two places, written one after the other and removed
  one after the other, by goroutines that can be killed in between.
* Restart requeues every `running` row.  An interrupt cancels the context the
  workers render under.
* Nothing serialises two saves of one template with each other, or with renders
  that read its two files at different moments.
* Times are compared as RFC 3339 texts whose order is not the order of time.
* In the browser, answers arrive in any order and the URL, the document and the
  requests under way may each name another template; views are unmounted and
  mounted again while the store, its timer and its requests live on; one `busy`
  flag serves requests that overlap; every preview makes object URLs to be revoked
  exactly once; a poll does not wait for the answer of the poll before.

PROJECT.json lists these hazards line by line with the properties that cover them.

What makes each part correct: one owner per job, attempts bounded, terminal states
final, failures recorded (store and pool); a succeeded row describes the file on
disk, and what is served matches its digest (store, pool, API, janitor); every
job settles and an interrupted server exits (pool, main); a saved template
compiles, a render never sees half a file, a version stamp names what was
rendered (designer API, renderer); order, backoff and retention follow the clock
(store); no edit is lost without asking, no text is saved under another name
(documents); the preview is current and leaks nothing (preview); the fix leaves
nothing flagged and the controls lose nothing (payload keys); the caret stays
in the text, zoom and split move as told (what is in sight); the listing catches
up, and a key that is needed is asked for (jobs page).

## 2. Modules

| module | models |
|---|---|
| `JobStore` | one row of `jobs` and what each SQL statement does to it, its WHERE clause included; pure operators |
| `RenderService` | the process over the rows and the artifacts: workers, synchronous handlers, readers, janitor, start, interrupt, exit, crash, key commands; properties, fairness, the inductive invariant, the refinement mapping |
| `JobLifecycle` | the abstract promise to a client of one job: queued, running, perhaps queued again, then succeeded with one unchanging document or failed, then perhaps gone |
| `JobListing` | what listings of the jobs table may show: a job is unfinished, then finished, then gone, and never goes back |
| `RenderServiceClaims` | sentences of the repository's README that the code does not keep |
| `TemplateDir` | one template's files under saves, deletes, crashes and renders, system call by system call |
| `TemplateRegister` | the abstract promise of the designer API: one pair of source and defaults, replaced as a whole by pairs that compile |
| `Timestamps` | the three comparisons of times as texts, against the times themselves |
| `DesignerUI` | the documents in the browser, their route, dialogs, undo history and requests, with one user |
| `PreviewPane` | renders, exports, the debounce timer, diagnostics, `busy` and object URLs |
| `EditorPane` | the audit of payload keys, its fix, the page form, completion |
| `Viewport` | zoom, split, tabs, jumps to diagnostics |
| `JobsPage` | polling, the key dialog, answers lost and late |
| `MCRenderService`, `MCDesignerUI`, `MCPreviewPane`, `MCViewport` | symmetry sets and constants for TLC |
| `...Proofs` | the TLAPS theorems about the module of that name |

`RenderService` extends `JobStore` and instantiates the abstract `JobLifecycle` and
`JobListing`, which it implements.  `JobsPage` instantiates `JobListing` as its server:
what is proved of the page holds for every server that behaves as a `JobListing`, the
one of `RenderService` included.  (`JobsPage` follows one job for each key, `JobListing`
is indexed by what names a job.)  `TemplateDir` instantiates the abstract
`TemplateRegister`.  The others stand alone: what they say of a render, a row or a template is a refinement of a
point the other modules leave abstract (a document is named by its attempt; a job by
the rank of its created_at text; the store of `DesignerUI` by whole saves).  The
store object of `state/designer.ts` is split over `DesignerUI` (documents),
`PreviewPane` (preview) and `EditorPane` (keys): they share only the open document,
which in `PreviewPane` changes by every edit, opening, creation and deletion that
`DesignerUI` has, and in `EditorPane` by any edit of its texts.

### RenderService and the code

`rows` is the table, `disk` the directory of PDFs (a document is named by the
attempt that rendered it, so two attempts never count as equal), `go` the program
counter and local variables of each worker and synchronous handler, `nudge` the
number of elements in the channel, `doomed` the ids the janitor has got back from
`PurgeBefore` and not yet unlinked, `rd` the readers between `GetJob` and
`os.ReadFile`.  One step is one committed statement, one file operation or one
blocking point:

| actions | code |
|---|---|
| `PostJob` | `postJob`: Enqueue, then Nudge unless the read-back failed; a full channel drops it |
| `Claim`, `ClaimNone`, `Wake`, `Tick`, `Quit` | `loop`: the claim UPDATE, the select over nudge, ticker and ctx |
| `GateOpens` | the passing of `run_after` |
| `Acquire`, `CompileEnds`, `RenderSucceeds`, `RenderFails` | `Render`: the semaphore, and the outcomes of `typst`, timeout and cancellation |
| `StoreArtifact`, `StoreFails`, `Complete`, `CompleteError` | `process` after a successful render |
| `FailBegin`, `FailCommit`, `FailConflict` | `Store.Fail`: SELECT; UPDATE; or SQLite refuses the UPDATE |
| `SyncStart`, `SyncRecord`, `SyncRecordFailure`, `SyncGivesUp` | `syncRender` |
| `GetJob`, `GetJobFails`, `ReadArtifact` | `getJobPDF` |
| `Purge`, `RemoveArtifact`, `RemoveFails` | the janitor |
| `Boot`, `Interrupt`, `Exit`, `Crash`, `KeysCommand` | `runServe`, `runKeys` |

A snapshot is modelled by one bit (`fresh`): every commit of anyone clears it, and
a write after it was cleared fails, as SQLite does for a deferred transaction
in WAL mode (`FailCommit` needs the bit).  The write also fails when another connection
merely holds the write lock, because SQLite does not wait for a lock when a
transaction that has read wants to write: an idle worker's Claim or the
janitor's DELETE does that without changing a row, a `keys` command from outside.
So `FailConflict` may happen at any time.

### TemplateDir and Timestamps

`TemplateDir` abstracts a source to the set of keys it reads and a defaults file
to the set it supplies; "compiles" is inclusion.  `Put` is `designerPut` up to the
save gate, then `Open`, `Write`, `Rename` are the three calls of `writeAtomic` on
the shared temporary name, for the source and then the defaults; a render is
`ApplyDefaults`, `List` and `Copy` (copyTree), `Compile`, `StampTyp`, `StampDef`.
With faults any file operation of a save or a delete may fail (`SaveFails`).  In
`TemplateRegister` a save leaves its defaults unsettled until `Settle`; up to then a fault
takes them back to `old`, those of before the save (`LoseDefaults`).

`Timestamps` has texts as sequences of digits, dot and Z with the order of SQLite's
BINARY collation, a clock that may jump anywhere, and Claim, Fail and PurgeBefore
comparing texts.

### The front end

One step is one event: what the user does, a `hashchange`, a timer, the server
taking a request, an answer.  JavaScript runs each handler to the next `await`
without interruption, so a handler up to its `await`, with the Vue watchers it
triggers, is one action and what follows the `await` another.

| module | actions | code |
|---|---|---|
| `DesignerUI` | `Edit`, `Undo`, `SwitchTab` | the editor; mounting an editor starts a new history |
| | `Navigate`, `HashChange` | links and address bar; router.ts with the watcher of TemplatesView.vue, and its mount |
| | `Save`, `Create`, `Discard`, `Delete`, `Cancel` | the buttons and dialogs |
| | `Serve`, `Refuse`; `Listed`, `Opened`, `Saved`, `Rejected`, `Removed`, `RemoveEnds` | the server, and what follows each `await` |
| `PreviewPane` | `Edit`, `SetData`, `SetMode`, `SetAuto`, `RenderNow`, `ExportPDF`, `Save`, `Ask`, `Create`, `Leave`, `Return` | the controls; leaving releases the previews |
| | `TimerFires`, `Expire`, `RenderEnds`, `ExportEnds`, `SaveEnds`, `Relisted`, `Opened`, `Removed`, `NotDone` | timers and answers |
| `EditorPane` | `TypeSource`, `TypeDefaults`, `TypeExample`, `CompleteKey`, `AddMissing`, `SetPage`, `ApplyBranded` | typing, and the controls that write into the texts |
| `Viewport` | `ZoomStep`, `Wheel`, `ZoomFit`, `Drag`, `Drop`, `Remount`, `SetTab`, `EditText`, `Diagnose`, `JumpToDiag` | the handlers of those names |
| `JobsPage` | `Visit`, `Leave`, `Tick`, `RefreshButton`, `OpenPDF`, `KeyButton`, `SaveKey`, `CancelKey`, `Reload`; `Advance`, `DisableKey`, `Steady`, `Serve`, `Arrive` | the page and the dialog; the world around them |

A text is a template's name and a number fresh for each edit.  Ghosts only record:
`raced`, the user once acted before everything had settled; `crossed`, an undo once
brought back the text of another template; `unreadable` (`RenderService`), the file was
there and could not be read; `excused` (`PreviewPane`), one of the
named reasons for which the pane may lag has occurred; `cancelled`, the user closed
the key dialog; `overlaps`, a listing was in flight together with another.

## 3. What the runs check

| run | instance | shows |
|---|---|---|
| `service` | 2 workers, 1 handler, 1 reader, 2 jobs, 2 attempts, 3 lives, faults | `NoDoubleRender`, `WorkerOwnsRow`, `ArtifactMatchesRow`, `AttemptBound`, `ServedMatchesDigest`, `GoneOnlyAfterPurge`, `IInv`; `TerminalIsFinal`, `PromisedArtifactKept`, and that the service is a `JobLifecycle` and a `JobListing` |
| `service_live` | 2 workers, 2 jobs, 2 lives, no faults, fairness | no new job waits for the ticker (`NewJobIsSeen`), and a worker forgets a job only where SQLite refuses Fail's UPDATE (`LostOnlyToConflict`); `EveryJobSettles`, `ShutdownCompletes`; a deleted row leaves no file while the process lives (`RetentionTakesTheFile`) |
| `template` | 1 designer, 1 render, 2 keys, 3 saves, with faults and without | the files are a `TemplateRegister`; between saves the files compile (`SavedTemplateCompiles`); a render no save overlaps succeeds and stamps what it rendered (`UndisturbedRenderSucceeds`, `UndisturbedStamp`); `NeverTorn`, crashes in the middle of a save included |
| `timestamps` | 2 jobs, 4 seconds of 4 ticks, 2 attempts | order, backoff and retention are exact to the second |
| `designer` | 2 templates, 2 requests in flight | `SavedUnderOwnName`, `CleanMeansSaved`, `WaitingLosesNothing` |
| `preview` | 3 object URLs, 2 pages, 2 requests in flight, an example that is not JSON | `UrlsAccounted`, `BusyEnds`, `PreviewIsCurrent` |
| `editor` | a plain, a method-named and a hyphenated key, `page`, 2 references | `FixHelps`, `ControlsKeep` |
| `jobs_page` | 2 keys, 2 requests in flight, fairness | `PromptUnlessCancelled`, `LoadingEnds`, `NoRegress`; the listing catches up (`CatchesUp`) |
| `viewport` | 3 places of the divider, 2 lines of 2 columns, a diagnostic beyond them | `ZoomMoves`; the caret never leaves the text, jumps to places edited away included (`CaretInText`) |
| `claim_retry` | 2 workers, no faults | README.md:87: a failed render may be neither retried nor recorded |
| `claim_shutdown` | 1 job, an interrupt | README.md:95: Ctrl-C does fail in-flight renders |
| `claim_gate` | 2 designers | README.md:175: two accepted saves leave a template that does not compile |

The `claim_` runs end in a violation: each is a sentence of the repository that the
code does not keep, quoted under "findings" in PROJECT.json.

**Bounds.**  Two workers and two jobs are what a race for a job, an overtaken job
and a commit in the middle of another's transaction need; a handler and a reader
are added because they share the semaphore, the commits and the files with the
workers.  With two attempts a job is retried once and given up once.  Three lives
make room for a recovery of a recovery, which `AttemptBound` depends on; the ids,
lives and attempts are the only counters, so no other bound cuts the state space.
Capacity 1 of the nudge channel, instead of the code's 64, makes nudges be dropped.  Two template keys
distinguish "supplied", "missing" and "the other one"; three saves by one designer, or
one by each of two, suffice to write, overwrite and delete, and for every overlap of
two saves.  One render is enough, as renders write nothing that another reads.  Two
binary digits give fractions of zero, one and two shown digits, the three cases of the
trimming; four seconds let a backoff of two run out.

In the browser two requests in flight are the fewest that can overtake each other;
when both slots are taken the browser waits, which only leaves out behaviours with
three requests at once.  Texts are numbered from 0, the text a template starts with,
so one edit makes two texts of each template, and texts that were saved, undone and
lost are told apart.  Three URLs hold two pages and an export, or a preview and the
one that replaces it; one template is enough for `preview`, which never compares
names.  Two references are the most that any property of `editor` relates; one key of
each sort is enough as the controls treat the keys of a sort alike.  Of the two keys of
`jobs_page` one has jobs that go on, the other an empty list.  `Workers`, `Names`,
`URLs` and `Slots` are symmetric: every action treats their elements alike.  The proofs
below need none of these bounds.

**Fairness** (`service_live`).  Weak fairness of a worker's own steps: the Go
scheduler runs a runnable goroutine.  `Acquire` and `Quit` are strongly fair:
a channel send and a select among ready cases are enabled again and again, and
Go serves waiting senders in order and picks select cases at random.  `CompileEnds` is fair
because `compile` runs under a timeout, `GateOpens` because time passes, `Tick`
because of the ticker, `Boot` because a supervisor restarts the server, `Exit`
because `runServe` waits only for the pool.  Nothing is assumed of `Wake`, of
the arrival of requests, of interrupts or crashes.  `EveryJobSettles` excepts one
outcome by name, `Stranded`: a running row nobody renders, as `claim_retry` shows.
The liveness run has no handlers, whose renders would only add contention for
a semaphore that is strongly fair anyway, and no faults, because a disk that fails
for ever prevents progress.

**Fairness** (`jobs_page`).  `Serve` and `Arrive` are weakly fair: a request is
answered or fails, and its handler runs.  `Tick` is strongly fair: the interval
fires every five seconds, and only the model's bound on requests disables it.  `CatchesUp`
speaks of behaviours in which the page stays, the network has recovered, the key stays
valid and the server has come to rest: the code can promise nothing else.

## 4. What is proved

Every property of every passing run is proved, except the three liveness properties.

`RenderServiceProofs` proves, for every set of jobs, workers, handlers, readers,
every nudge capacity of at least one, every number of lives and attempts, with and without faults:

* `TypeCorrect`, `MutualExclusion`, `RowOwnership`, `ArtifactIntegrity`,
  `BoundedAttempts`, `ServedIntegrity`, `GoneMeansPurged`: the invariants of
  run `service`, each from `Invariance`;
* `Finality` and `ArtifactStability`: its action properties;
* `Refinement`: `Spec => ImplementsLifecycle`, and `ListingRefinement`:
  `Spec => ImplementsListing`;
* `RetentionIsComplete`, `NoWakeUpIsLost`, `NothingElseIsLost`: the safety properties of
  run `service_live`.

*Assumptions.*  Those of the modules: jobs are positive numbers (ranks of
created_at), workers are a non-empty finite set disjoint from the handlers,
the bounds are natural numbers.  Nothing is assumed of `-max-attempts` but that it
is an integer; `Limit` clamps it as Enqueue does.

*The inductive invariant* `IInv`.  No listed property is inductive alone.
`NoDoubleRender` needs `WorkerOwnsRow` (a claimed row is not claimable) and
`DownIsQuiet` (recovery turns running rows back only when nobody holds one).
`WorkerOwnsRow` needs `NoDoubleRender` (another worker's Complete is about another
row) and `HandlerOwnsNoRow` (a handler's row does not exist until it is terminal).
`ArtifactMatchesRow` needs `ArtifactInPlace` (between StoreArtifact and Complete the
file stays the attempt's) and `DoomedIsPurged` (the janitor removes files of deleted
rows only).  `ServedMatchesDigest` and `GoneOnlyAfterPurge` need
`LookupStillHolds` about the moment between a reader's two looks; the second allows by
name that a file which is there cannot be read, which the handler answers with a 410, too.
`AttemptBound` counts the attempt to come of a queued row and rests on
`UnfinishedHasLimit` and `BootedIfUsed`.

*The argument.*  Steps are grouped by what they disturb.  `MoveKeeps`, `SettleKeeps`,
`GoHomeKeeps` and `GoOnKeeps` say what a goroutine that moves on, or changes the row
it holds, preserves; the `...StepInv` lemmas apply them to the actions of workers,
handlers, the process, the janitor and readers; `NextInv` puts them together, and
the `...Type` lemmas do the same for `TypeOK` first.  For the refinement, `OneJobStep`
shows that a step that changes the client's view of one job is a `JobLifecycle` step of
that job, `ViewKeeps` and `StutterStep` that the others are stutters, and
`Simulation` goes through the actions.  `RetentionIsComplete` adds `Tidy` to `IInv`: in
the first life and without faults, `FilesAccounted` says that every file belongs to a
finished job, is about to be removed by the janitor, or was just stored by a goroutine
that will record it (`TidyKeeps` and one lemma for each group of actions).

`NoWakeUpIsLost` is about the race of Nudge with a worker that is about to sleep.  A new
job (queued, no attempt) is seen while there is a nudge to be taken, or a worker that
will claim before it next sleeps.  `Awake` adds what makes this inductive: a row that
was never claimed has no backoff and a claimed one is counted (`CountedRow`, which
every statement of the store keeps, `RowsCounted`), so a worker that finds nothing to
claim has seen that there is no new job; and workers of a server that is up have not
ended.  A dropped nudge was dropped because another is there, which is where the
capacity must be positive.  `NothingElseIsLost` needs `WorkerOwnsRow` and
`NoDoubleRender` from `IInv`: a row turns running in a worker's hands only, and of a
worker's steps `FailConflict` alone lets go of a row that still says running
(`WorkerStrands`; a handler never holds one, `HandlerStrands`).  It is the converse of
the finding of `claim_retry`: as long as SQL statements and file operations do not
fail otherwise, that is the only way.

`ListingRefinement` is derived from `Refinement`: `LifecycleMoves` says how one job's state
may change in a step of `JobLifecycle`, which after `Listed` is a step of `JobListing`.

`TimestampsProofs` proves `FairQueue`, `BackoffHolds`, `DueJobsRun` and
`RetentionHolds`, the four properties of run `timestamps`, for every radix and
number of digits of the fraction, every clock and every retention.  Two facts about
texts carry them: a text of an earlier second is less (`EarlierSecondIsLess`), and a
lesser text is of no later second (`LessIsNoLaterSecond`); both look only at the
first element, once it is known that the text has one, for which the number of
digits shown must exist: `MaxExists`, by the least-number principle.  `TimesInv`
(rows hold times) is inductive by itself.  `TextOrder` shows that the texts of times, of
different lengths as they are, are ordered strictly and totally (`LessIrreflexive`,
`LessTransitive`, `LessTotal`: two texts differ at a first place, and that decides).  This justifies naming jobs by the rank of their text in `JobStore`, and by
`ClaimFindsAFirst` Claim's `ORDER BY created_at LIMIT 1` has an answer whenever a job of a
finite table is runnable.  The assumption `PowerAssumption` states
that the powers in the module are natural numbers, those of the radix positive, of which
the provers have no theory.

`TemplateDirProofs` proves `TypeCorrect` and `StampIsExact` for any number of
designers and renders, and `NothingTorn`, `QuietRenderSucceeds`,
`GateKeepsItsWord` and `RegisterRefinement` for one designer at a time (`OneDesigner`), which `claim_gate`
shows to be needed.  `StampIsExact` rests on `SteadyRenders`: a render that is still
undisturbed implies that no saver is at work, so what it has read is what is there.
`NothingTorn` needs `WholeFiles`: only temporary names are half-written, a saver
has just emptied the one it writes, and what it renames is complete.
`GateKeepsItsWord` needs `Gated`: between the rename of the source and the
arrival of the defaults, source and awaited defaults fit together.
`QuietRenderSucceeds` joins the three.  `RegisterRefinement` maps the files to the pair of
`TemplateRegister`: a save takes effect when its source is renamed, and from then until
its last step (`Midway`) the defaults under way count as the ones in place (`Kept`).
`SaverRefines` goes through a saver's steps: the rename of the source is a `Save`, which
`Gated` shows to be of a pair that compiles even in the presence of faults; the arrival
of the defaults is a `Settle`; a crash or a failed operation midway is a `LoseDefaults`,
which can bring back the defaults on disk and no others.

`DesignerUIProofs` proves `NamesKeepTheirTexts`, `CleanIsSaved` and
`LinksLoseNothing` for any templates, edits and requests in flight.  The first needs
`OwnTexts`: every text under way (document, snapshot, undo history, each save and
each answer) is of the name it travels with.  The others need `Waiting`: as long as
the user has only acted when all was settled, at most one request is in flight, and
what it will do is determined by the state it was sent in.

`PreviewPaneProofs` proves `NoUrlLeaks`, `BusyIsCleared` and `PreviewSettles`.  The
first two are inductive with the types.  The third needs `Settling`: unless excused,
either the pane shows what is wanted, or a render of just that is in flight, or the
timer that will start one is set.

`EditorPaneProofs` proves `FixRepairs` and `ControlsLoseNothing` for
any keys, fields and sources; all that is needed beside the types is `Keyless`
(a text that is no object has no keys).

`JobsPageProofs` proves `KeyIsAskedFor`, `RefreshComesBack` and `ShownInOrder`.  The
last needs `AloneIsNewer`: a listing that overlapped no other was asked for after the
one on show was answered, so it is no older, because a finished job stays
finished.  `ViewportProofs` proves `TypeCorrect`, `CaretStays`, `ZoomGoesItsWay` and
`SplitReturns`, for any grid of dividers and any text.

*Assumptions* of these modules are those they declare: names that stand for
nothing differ from all others, the kinds of keys are disjoint, the bounds are
natural numbers and `URLs` is finite.

*Only model-checked:* `EveryJobSettles`, `ShutdownCompletes` and `CatchesUp` (fairness
and ENABLED are outside the prover).
*Only proved:* the `TypeOK` of every module (the service's is part of `IInv`, which is
run), `SplitComesBack` of `Viewport`, and the two theorems about texts
that state no property of a run.  TLC checked each of them before it was proved.

## 5. Where the code and its documents part, without a run

Seen in the models or on the way to them:

* README.md:130, "render attempts per job": a restart in the middle of the last
  attempt adds one (the slack `boots` in `AttemptBound`).
* README.md:95, "lets in-flight renders finish": `ListenAndServe` returns as soon as
  `Shutdown` is called and main waits for the pool only, so synchronous renders die with
  the process (`Exit` does not look at handlers).
* README.md:51, "410 if purged by retention": the row is gone, so the answer is 404; a
  410 is seen only between the deletion of the row and of the file, or when the file
  of a job that is still there cannot be read: api.go:306 makes a 410 of every error of
  `os.ReadFile` (`unreadable`).
* worker.go:213, the version "identifies the exact template content": it is hashed after
  the render, so a save in between changes it (`UndisturbedStamp` is the part
  that holds).
* render.go:13, "so every key the template reads is always present": the defaults are
  read before the wait for the semaphore and the source after it.
* README.md:93, retention deletes "finished jobs + artifacts": the ids of the deleted rows
  are in memory only (main.go:295), so an exit or crash before the removal leaves the
  files for good (`RetentionTakesTheFile` is about a process that lives).
* store.go:128, the texts "sort lexicographically in creation order": not within a
  second, as RFC3339Nano drops trailing zeros (`FairToTheSecond` is what holds).
* README.md:165, "switching templates with unsaved edits asks first": `create` does not
  ask; text typed while a template is being opened is overwritten; back from the
  jobs page, `onMounted` opens the template of the URL without asking; text typed
  while a save is in flight counts as saved (`WaitingLosesNothing` and
  `CleanMeansSaved` are about a user who waits and who follows links).
* TemplatesView.vue:89, "until the user decides": confirming the dialog navigates
  (:101) while the document is still unsaved, so the watcher puts the URL back and brings
  the dialog up again unless the answer of `open` was faster.
* CodeEditor.vue:51, "reset the document": the text is replaced by a change that undo
  takes back, so Ctrl+Z after switching brings the other template's text into the open
  document (`crossed`).
* session.ts:13, "App.vue shows the key dialog": after Cancel `needsKey` stays set and the
  watcher sees no change, so no later 401 shows it (`PromptUnlessCancelled`).
* designer.ts:44, "the exact gap the save gate rejects": `d.at` with a default is flagged
  and not rejected; a hyphenated key or one named like a method is rejected and not
  flagged.  The fix writes the text "—" for `page`, too,
  which `page.typ` reads as an object (`FixHelps` excepts it).  `usesBranded` is true
  as soon as the name is mentioned.
* designer.ts:267: an accepted save clears the diagnostics of a failed render, and the pages
  of an older text reappear as if they were current (`excused`).
* designer.ts:218: renders of successive texts overlap, and the answer that comes last
  is shown, of whichever text it is (`excused`).
* PreviewPane.vue: beyond 50 and 300 percent, where the wheel leads, "in" makes the sheet
  smaller and "out" larger (`ZoomMoves` is about the rest).  A jump asked for while
  another tab is shown mounts the editor too late and is lost, and a place that holds
  other text by now is jumped to all the same (`CaretInText` says only that the jump
  stays in the text).
* JobsView.vue:19: listings that overlap may arrive in the wrong order, and a finished job
  is shown running until the next poll (`NoRegress`).
* designer.ts:58: defaults of white space only are broken JSON to the page and blank to
  the gate.  api.ts:148: the URLs of opened PDFs are never revoked.

## 6. Not modelled

* Authentication, scopes, name validation, listings, metrics, static files:
  they change no shared state.  Keys matter here as commits (`KeysCommand`) and for what a
  401 does in the browser (`JobsPage`).
* Migrations by two processes at once, the creation of the signing seed: planned.
* A power failure that loses the last commits (`synchronous=NORMAL`): the crash here is
  that of the process.
* The archival fallback, nested defaults, typst itself, Ed25519, SQLite beyond
  snapshots: external, or data no property tells apart.
* Example files: no render reads them.
* Simplifications no property can tell: Enqueue and Nudge are one step (the handler goes
  straight on); a save in `DesignerUI` is whole, also where the server would save
  the source only (`TemplateDir` has that); its template list is taken when the answer
  arrives; a render in `PreviewPane` has at least one page (api.ts:127 allows none);
  `JobsPage` has a server with keys (App.vue:46, `-no-auth`, asks for none).
* In the browser: the collapsed rail (one flag), panning, statistics, notices, syntax
  highlighting and the built-in snippets (constant tables), the SVG export (downloads
  what is shown), undo within one text, two windows at once.

## 7. Plan

Done: the job service with its abstract specification, the texts of times, the
templates directory, and the five models of the front end, each checked and proved.
Next, in order of worth:

1. `Migrate` (two processes read `user_version` outside a transaction) and
   `SigningKey` (a crash inside `os.WriteFile`), with an abstract specification each.
2. `Merge`: `deepMerge` as a function on nested records against a reference
   definition, and the effect of nested defaults on `TemplateDir`.
3. `HttpApi`: authentication with keys disabled concurrently.
4. A power failure in `RenderService`: lost suffixes of the commit history while the
   files survive.
5. `DesignerUI` with two windows, and over `TemplateDir` instead of whole saves.
