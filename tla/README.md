# Verification of the Divine bridge

Divine Sky copies videos that users publish on Nostr into the AT Protocol
repositories of their linked accounts. This directory holds TLA+ models of its
core, TLC configurations that check them on small instances, and TLAPS proofs of
the results that matter most for every value of the parameters.

## 1. The system

### Components

| component | code | state | operations |
|---|---|---|---|
| live ingest | `divine-atbridge/src/runtime.rs`, `funnelcake_rest.rs` | one `ingest_offsets` row per source | poll the REST view of the relay, seed the cursor, enqueue or cancel each new event, save the cursor |
| publish queue | `divine-bridge-db/src/queries.rs`, `runtime.rs` | `publish_jobs`: state, attempts, lease, reserved key, prepared record | enqueue, cancel, claim, heartbeat, reserve, finalize, fail with back-off |
| pipeline | `divine-atbridge/src/pipeline.rs` | `record_mappings`, `asset_manifest` | check, dedupe, media work, publish, delete, profile |
| PDS client | `publisher.rs`, `pds_accounts.rs` | a session per account | createRecord with recovery, getRecord, putRecord, deleteRecord, refresh |
| backfill planner | `backfill_planner.rs`, `nostr_consumer.rs` | `account_links.publish_backfill_state` | list accounts, collect the history, enqueue it on the backfill lane |
| service loops | `runtime.rs`, `main.rs`, `health.rs` | failure counts, readiness | worker loops per lane, planner loop, poll loop, watchdog |
| account provisioning | `provisioner.rs`, `provision_runtime.rs`, `pds_accounts.rs`, `plc_directory.rs` | `account_links`, keys, sessions | create the PDS account, resume or reject, mark ready |
| handle gateway | `divine-handle-gateway/src` | shares `account_links`; keycast and name server downstream | opt in, provision, disable, enable, reconcile at startup, crosspost status |
| TID generator | `tid.rs` | last timestamp, clock id | next record key |
| migrations and writer fence | `divine-bridge-db/src/migrations.rs`, `migrations/` | `writer_epoch` of each row | keep replicas of the previous release from claiming rows |
| profile sync | `pipeline.rs`, `profile_sync.rs` | the profile record | putRecord of the newest kind-0 event |
| legacy repair | `legacy_repair.rs` | selected `publish_jobs` rows | preview, confirm, roll back |
| labeler, moderation adapter | `divine-labeler`, `divine-moderation-adapter` | labels, sequence | webhook, label query, subscription |
| app view, indexer, feed generator | `divine-appview*`, `divine-feedgen` | a read model of the PDS | index, query |
| video worker | `divine-video-worker` | none | download, hash, upload |

`PROJECT.json` lists them again with the state of their models.

### How they interact

* The **gateway** writes `account_links` (opted in, disabled, ready) and asks the
  bridge over HTTP to provision. The **bridge** reads that row before it queues an
  event and again when it executes it.
* **Live ingest** and the **backfill planner** both insert rows into
  `publish_jobs`, on the `live` and the `backfill` lane. A deletion event (kind 5)
  skips the row of its target and, on the live lane, queues itself when the target
  is already mapped.
* **Workers** claim rows under a lease, run the pipeline, and record the verdict
  under the fence of that lease. A heartbeat task extends the lease meanwhile.
* Inside one process all database work goes through a single connection behind a
  mutex. Different replicas share only the database and the PDS.
* The **PDS** is reached over HTTP. A request may fail before it is sent, arrive
  and lose its answer, or arrive after the worker has stopped waiting.

### What is hard

* A lease can lapse while its run goes on; two runs of one event then overlap.
* The create of a record is not atomic with the row that says it was made. A crash
  or a lost answer in between must not produce a second record.
* Cancellation races with execution, in another process or between two statements.
* The ingest cursor is shared by kinds and replicas and moves event by event.
* Opt-in can be switched off at any moment between two reads of it.
* Attempts, back-off, quota parking and lease expiry must together end every job.

### What makes each component correct

* Queue and pipeline: at most one record per event; no key with two owners; a
  published row is visible; a finished row keeps its verdict; every queued job is
  finished once faults stop.
* Live ingest: old events are never replayed as live; the cursor is monotonic; a
  batch that fails half-way skips nothing; a new event is eventually handled.
* Provisioning: an account with a session; crossposting follows the owner's last
  choice; a disabled account is not shown again behind its owner's back; downstream
  views converge.
* Backfill: a completed mark is true; the backlog is claimed oldest first; deleted
  posts of the history stay out; an interrupted replay is resumed; it ends.
* TID generator: strictly increasing keys under concurrent callers.
* Profile sync: the newest profile wins.
* Sessions: a refresh token is used once; a session is never rolled back, and an
  account whose tokens expire does not go dark.
* Media: a post embeds only blobs its own repository holds; every run ends.
* Legacy repair: a confirmation revives what was previewed, a rollback takes back only
  its own.
* Readiness: a broken connection is reported, an outage that is over is forgiven.
* Status: what an owner is told of a video is true and stays so.
* Labels: a client that follows its cursor misses none but those overtaken by a later
  number; a ban takes the video down.
* App view: ready means complete, and every video it shows gets its playlist.
* Deployment: no event is executed by two releases.

## 2. Modules

| module | models |
|---|---|
| `CrosspostSlot` | the abstract promise about one account's repository: keys, fixed contents, records at their own key |
| `PublishQueue` | the queue, its workers, leases, the ingester's side, the PDS and the network |
| `PublishQueue_proofs` | theorems about `PublishQueue`, among them that it implements `CrosspostSlot` |
| `MCPublishQueue` | constants for TLC |
| `EventFeed` | the abstract promise about live ingest of one kind: every event after the first goes to the queue in the order of age, the cursor follows |
| `LiveIngest` | cold start, paging, selection, the cursor, for several replicas |
| `LiveIngest_proofs` | theorems about `LiveIngest`, among them which events the cursor may pass |
| `MCLiveIngest` | constants for TLC |
| `AccountLifecycle` | one linked account: the gateway's requests, runs and startup, the bridge's provisioning, the PDS account, keycast and the name server |
| `AccountLifecycle_proofs` | theorems about `AccountLifecycle` |
| `MCAccountLifecycle` | constants for TLC |
| `BackfillPlanner` | the planners of several replicas: lists, marks, the replay of a history beside the backlog worker |
| `BackfillPlanner_proofs` | theorems about `BackfillPlanner` |
| `MCBackfillPlanner` | constants for TLC |
| `CrosspostStatus` | the status an owner is told of a video, over the states of `PublishQueue` |
| `PdsSession` | tokens, refreshes and calls of one account |
| `MediaUpload` | source, transcoding, polling, captions for runs of several owners |
| `Clients_proofs` | theorems about `PdsSession` and `MediaUpload` |
| `ProfileSync` | profile events from the history to the one profile record |
| `LegacyRepair` | preview, confirmation and rollback beside the workers |
| `TidClock` | the compare-and-swap of the last timestamp |
| `RuntimeHealth` | the loops' shared health, the watchdog, the one connection |
| `WriterFence` | two releases over one row while the fence is installed |
| `PostText`, `PostText_proofs` | the text of a post, its cut and its facets; theorems |
| `Vocabulary`, `Labeler` | the label values; the webhook, the label rows and clients that follow them |
| `AppView` | the indexer, the media views and what the app view answers |
| `ReadSide_proofs` | theorems about `Labeler` and `AppView` |
| `MCBridge` | the parts from `PdsSession` on, one of them moving at a time |

Definitions without a use in `Next` that stand just before the definition they resemble
(`CoalesceOverwrites`, `UsableAlways`, ...) are plausible slips: with one of them in the
place of its neighbour, the property that `PROJECT.json` names beside it is violated.

### PublishQueue and the code

The columns of `publish_jobs` are functions over `Jobs`; the locals of one
`run_publish_worker_once` are functions over `Workers`.

* `Enqueue`, `CancelRead`, `CancelWrite`, `CancelLookup`: `enqueue_live_event`,
  `replay_account_history`, `cancel_publish_job`. The cancellation is three
  statements without a transaction and therefore three actions.
* `Claim`, `Heartbeat`, `LeaseLapses`: the claim query with its `WHERE` clause, the
  heartbeat task, the passing of time. Lease tokens are fresh per run in the code;
  owner and current job together stand for the token. All rows are of the current
  writer epoch.
* `ReserveRkey`, `CheckVideo`, `PrepareRecord`, `SendCreate`, `CreateFails`,
  `Recover`, `SaveMapping`, `SetPublished`, `CheckDelete`, `SendRemove`,
  `MarkDeleted`, `StepFails`: the pipeline between two points at which another
  actor can interfere: a database call, or a request and its answer.
* `Finalize`: the verdict, fenced by the lease, with `RecordFailure` for attempts,
  back-off and the quota.
* `RunAborts`, `IngestAborts`: crash, restart or a database error.
* `Revive`, `UndoRevive`: the operator's repair puts a job that failed for good back to
  work, and its rollback takes that back. `LegacyRepair` has the repair itself; here any
  such row may be revived, which is more than the repair's filter allows.
* `PdsCreate`, `PdsRemove`, `LoseRequest`: external. A create at an occupied key is
  refused, a removal of a missing record succeeds, requests are lost or late.

Reads of `account_links` and of the mapping in separate critical sections are one
step: `SwitchOptIn` may flip the former at any moment, and the latter is monotone
while the row exists. An asset manifest that cannot be saved is a `StepFails` at
`"status"`; a response that cannot be parsed is a record that landed followed by a
`StepFails` at `"mapping"`. A session that cannot be had is a request sent, lost and
failed. Polling asks the relay for the video kinds only; deletions reach the live
path through code that the tests exercise, and through the history replay.

### LiveIngest and the code

* `StartPoll` loads the cursor, `FetchPage` is one REST call and the decision what
  to do next, `SeedCursor` the cold start, `HandleNext` the call of
  `enqueue_live_event` and `SaveCursor` its last statement, `PollFails` any error or
  a restart.
* The server's side (newest first, `before` exclusive, the oldest time of a page as
  the next bound) is external: `Publish`, `Candidates`, `IsPage`.
* What an event does to the queue is left to `PublishQueue`.

`overlooked` is a history variable: the events a poll has no page for, because they
arrived after it began or lie below the last page it may read. The service polls two
kinds, five pages each; the arrivals, kinds, limits and replicas are parameters.

### AccountLifecycle and the code

`state`, `did`, `crosspost`, `disabled` and `session` are columns of one row of
`account_links`. A task of the gateway is a request handler or a spawned run; the
call it makes to the bridge runs beside it and may outlive it.

* `OptIn`, `Disable`, `Enable`: the handlers up to their first downstream call.
  `ManualProvision`, `ManualUpsert`, `ManualMark`: the three statements of
  `upsert_ready`, its ignored errors included (with `ReadsFail` the first one may fail).
* `TakeAnswer`, `SyncKeycast`, `SyncNameServer`: `run_once` and the two downstream
  calls. `TaskFails`: any error, a cancelled handler. `LoseCall`: the call breaks.
* `GatewayRestarts`, `Replay`, `Reconcile`, `Serve`: `main`. The gateway serves
  nothing before its reconciliation is over.
* `BridgeReads`, `BridgeSaves`, `CreateAccount`, `Adopt`, `BridgeStores`,
  `BridgeMarks`, `BridgeFails`: `provision_account`, cut at its database statements
  and HTTP calls. `BridgeAborts`: a database error, a restart, or a dropped handler.

Requests arrive at any moment, whatever is under way. What may then go wrong is kept in
history variables: `wish` and `public` are the owner's last choice to crosspost and the
last choice of owner or operator to have the account shown; `stale` holds the tasks about
to write what they read before the owner chose not to crosspost, or could not read, and
`undone` says that one of them has; `leftover` holds the tasks that were under way when
the account was disabled, and `reshown` says that one of them has made the row pending or
ready since.

The model has one account with one handle and one gateway process. `disable` and
`enable` read the row before they write it, but rows are never deleted, so one step
stands for both. The bridge finds a row whenever the gateway calls it, because the
opt-in wrote it; its branch for a missing row is left out, and so are handles taken
by other accounts. The PDS has one account per handle and returns a session with the
account it creates.

### BackfillPlanner and the code

`backfill` is `account_links.publish_backfill_state`, `row` the state of a post's row;
`stage`, `todo`, `current` and `batch` are the locals of one planner's `run_once`. Lists
and batches are sets, taken in the order of `Created` and `At`, because the code sorts
them.

* `List`, `Start`, `StartFails`, `EndOfList`: `list_accounts_requiring_backfill` and
  the loop over it. `Start` is the connection and `mark_account_backfill_started`; a
  restart between the two is `RunEnds` before `Start`.
* `Collect`: `collect_history_until_eose`; the relay answers with the newest
  `HistoryLimit` events. `Prepare` and `SkipNotOptedIn` are the read of the account in
  `prepare_publish_job`. `Write` is the later insert, one transaction; `CancelRead` and
  `CancelWrite` are the two statements of `cancel_publish_job`, which share none.
* `MarkCompleted`, `ReplayFails`: the marks at the end. `RunEnds`: a restart, or a mark
  that fails. `SwitchEligible`: what the gateway does to the account.
* `Claim`, `Finalize`: the backlog worker, reduced to the claim's order and the
  verdict; the rest of an execution is `PublishQueue`'s. Live events are left out. The
  planner holds the connection of its replica throughout a cancellation, so only the
  worker of another replica runs then (`WorkerRuns`).

`missed` and `wasFinal` are history variables: a replay skipped an event because the
account was off; the row a planner is cancelling was final when it was read.

### The parts around the queue and the code

* `PdsSession`: `ReadAccess`, `ReadRefresh`, `Refresh`, `StoreSession`, `Send` are
  `auth_token_for`, `refresh_session_for` and the request, cut at their database
  statements and HTTP calls; `Unauthorized` is the one retry after a 401, which uploads
  (`OneShot`) do not have. No lock is held. An access token is known by its expiry; a
  refresh token is an identity that the PDS takes once. `RefreshFails`, `AnswerLost`,
  `StoreFails`, `SendFails`, `CallAborts` are the faults; `lost` remembers that one of
  them dropped the token the PDS would take.
* `MediaUpload`: `fetch_blob_verified`, `upload_to_video_service`, `poll_job`,
  `upload_blob_for_user`, `resolve_video_captions`. The service is external: one job per
  source for all accounts, its result in the repository of the account that made the job.
  The deadline of a poll is a number of rounds.
* `ProfileSync`: the planner's replay of profile events, the claim in the order of
  `created_at`, the steps of `handle_profile_event` and the verdict. `faults` counts
  errors, restarts and changes of the opt-in. A restart in the middle of a replay strands
  it, as in `BackfillPlanner`.
* `LegacyRepair`: each of `preview`, `confirm` and `rollback` is one action. `confirm` is
  a serializable transaction. `rollback` is a plain one, which locks the operation and
  decides on each row in the statement that writes it. `preview` is in none: what it read
  of the rows is taken as of one moment, and the confirmation checks all of it again.
  `updated` is a stamp that every writing transaction moves; `by` and `fell` are history.
  The jobs are those of one account.
* `TidClock`: `ReadClock`, `LoadLast`, `Swap`, `SwapFails` for each thread; `ClockMoves`
  sets the clock anywhere.
* `RuntimeHealth`: `record_success` and the two kinds of failure, the rounds of the loops,
  the watchdog on connections of its own. `ConnectionBreaks`: the connection that the
  process opens once is gone and never opened again.
* `WriterFence`: migration 008 is one transaction; `NewEnqueue` adopts a row that is
  `Pristine`; `FenceAllows` is the trigger, for which a marker that is not set differs
  from every epoch. Of the previous release nothing is assumed but what the older table
  allows.
* `PostText`: `build_post_text`, `truncate_graphemes`, `compute_hashtag_facets` as
  functions of one event, compared with a definition of what a hashtag is. It has no
  actions: the events are the initial states.
* `Labeler`: `Receive`, `Resolve`, `BeginInsert`, `Commit`, `Answer` for each call of the
  webhook; a row draws its number when its insert begins and is seen at the commit.
  `Follow` is one page of `queryLabels`, filtered after it was cut (`LabelsFor`); `late`
  remembers, for each client, the rows that were being inserted when it went past them.
* `AppView`: the indexer's loop down to the single upsert, the lab script that derives
  the views after it, and a PDS that changes meanwhile. `owed` is what the last complete
  run was shown.
* `CrosspostStatus`: `derive_crosspost_status` as a function of a state of the queue. The
  account is read before the rows; it decides only whether there is an answer, so the
  properties quantify over it.

## 3. Runs

| run | instance | shows |
|---|---|---|
| `overlap` | 1 video, its deletion, 2 workers of which one remote, 2 keys, 2 blobs, 2 attempts | keys never shared, one record per event, no divergence, published is visible, the refinement |
| `settles_lanes` | 2 lanes in one process, a video and its deletion, 3 attempts, fair | every queued row is finished once faults stop, and keeps its verdict; what the owner was told holds; a deletion that is done leaves no record |
| `cancelled_create` (violation) | 1 process | a skipped row whose record appears |
| `ingest` | 2 replicas, 2 kinds, 5 events, two of them twins in a second, pages of 1, 2 pages, arrivals of any age | history is never replayed as live; the cursor passes only events that were overlooked, became newer only by another replica, or have a handled twin |
| `converges` | 1 replica, 1 kind, pages of 1, pages enough, fair | the refinement: events delivered oldest first, the cursor behind them; no skip on failure, every event handled |
| `same_second` (violation) | 2 events of one second | an interrupted batch skips one |
| `accounts` | 2 tasks, reads that fail, fair | crossposting follows the owner's last choice until a write that was decided before it; after a disable only a task already under way turns the name server to ready; restarts repair the views |
| `late_provision` (violation) | 2 tasks | a disable is undone by a provisioning call that read the row before |
| `replay` | 2 accounts, 4 events of which the relay sends 3, 2 planners, lists of 1, fair | a completed mark is true, the backlog is claimed oldest first, final rows stay unless a cancellation overtakes another replica's verdict, every account is replayed or stranded |
| `crashed_replay` (violation) | 1 planner, fair | a restart strands an account |
| `replayed_delete` (violation) | 1 planner | a deleted post is published before its deletion is replayed |
| `bridge` | the parts around the queue, fair | see below |

`bridge` puts ten small systems into one run. They share no variable and no action of
one reads another's, so every property of one of them holds of all of them together if
it holds with the others at rest; `part` says which one moves.

| part | instance | shows |
|---|---|---|
| session | 2 calls, one of them an upload, 5 refresh tokens, access for 2 ticks, headroom 1, 3 ticks | the session survives concurrent refreshes; with the refresh ahead of the expiry the account never goes dark |
| media | 2 owners that publish one source, 2 jobs, 2 tracks of which 1 may be added | only blobs of the own repository are embedded; every run ends |
| profile | 3 edits, 3 attempts, 1 fault | without a fault the newest profile stays |
| repair | 2 jobs, 2 operators, pages of 1, 5 transactions | a confirmation is bound to its preview; a rollback takes back its own |
| tid | 2 threads, a clock of 0 to 3 that jumps | keys increase |
| health | threshold 3 | readiness settles |
| labeler | 2 calls, 1 video, 2 rows, pages of 1, an unknown and a known category | a client lacks only rows that were overtaken or lie behind a page of other subjects; a ban takes down |
| appview | 2 posts of one of 2 repositories, one of them unparsable, lists of 1 | ready means complete; every video that is shown plays after a script that came to its end |
| text | texts of up to 3 graphemes of 4 kinds, with title, summary and 4 lists of tags, cut at 9 | facets are the hashtags, at their bytes |
| fence | 2 workers of either release | no event is executed by both |

### Bounds and why they are enough

* Two workers are enough for every overlap of two runs of one event, and for the
  lease to pass back and forth between them; two keys let a second run bring a
  different candidate key, two blobs a different candidate record.
* `MaxAttempts` of 2 or 3 distinguishes the first failure, a later one and the last.
  The code's 20 only lengthens the run.
* Sets of requests in flight are unordered, so delays and reorderings of any length
  are covered. They are bounded by the finite number of distinct requests.
* `LiveIngest` needs two kinds for the order of fetches, pages of one event for
  paging, three live events so that some arrive before, during and after a poll, below the
  last page and within one second. In `converges` three pages of
  one event are exactly enough for the three that are not history, so the page limit is
  met.
* Two tasks let a handler race with a run, a run with an orphaned call of an earlier
  one, and the replay at startup with such a call. Every overlap in the findings is of
  two actors.
* `BackfillPlanner` needs two planners for one to complete what the other fails, a list
  of one for the second account to wait, two posts and a deletion in the window for the
  order, and one post outside it.
* In `bridge`: two calls, runs, operators, threads and hooks are what the races need.
  The clock of `session` runs past the expiry of the first token and of the first
  refresh; five refresh tokens are more than can be in use. Three profiles let an older
  one fail between two others. Five stamps let a job be previewed, confirmed, claimed,
  fail again and be rolled back. Texts of 9 graphemes are cut within the tags, at the "#"
  and between a tag's letters.
* Nothing else is bounded: no run has a state constraint.

### Fairness

* `PublishQueue`: strong fairness of each worker's steps, because the worker loops
  tick for ever but compete for one connection and for rows; weak fairness of a
  lease lapsing when nobody renews it (time passes), and of the two later
  statements of a cancellation. `EventuallySettled` assumes that faults stop: dying
  runs, the upload quota, key collisions, and leases lost under a living run.
* `LiveIngest`: weak fairness of each poll loop. `EventuallyHandled` assumes that
  polls stop failing, one kind, arrivals in the order of their times, distinct
  seconds and pages enough. Each of these is needed, and the service is not set up so: it
  polls two kinds (`runtime.rs:727`), and what it may then pass over is what
  `PassesOnlyOverlooked` says. With two kinds an event that
  arrives between the two fetches is passed by the cursor. With too few pages the
  older new events are never fetched. Two replicas that start cold can seed over
  each other's batch.
* `AccountLifecycle`: the gateway's startup, its tasks and their calls go on while one of
  them can (the runtime polls its futures; every HTTP call ends with an answer or an
  error); nothing is assumed of which. `ReconcileRepairs` assumes that requests
  and errors stop, and that the gateway is restarted again and again while it is at rest:
  nothing else repairs a lost update.
* `BackfillPlanner`: weak fairness of each planner's steps (its loop ticks for ever and
  the relay answers or closes). `ReplayedOrStranded` assumes that failures and restarts
  stop and speaks of accounts that stay eligible from some point on. Nothing is assumed
  of the worker.
* `bridge`: weak fairness of the steps of each call and each media run (their futures are
  polled, every HTTP call ends) and of the ingest poll, whose interval ticks for ever.
  `NotDark` assumes that faults stop and that the account has its session. `MediaEnds`
  assumes nothing of the video service. `ReadinessSettles` assumes nothing else.
* The other runs never stop: `SwitchOptIn`, `StartPoll`, `GatewayRestarts` and
  `SwitchEligible` are always possible, so deadlock is checked. In `bridge` it is not: the
  clock of `tid`, the stamps of `repair` and the edits of `profile` end, and a text does
  not move.

### Where code and documents disagree

* The launch walk says that a cancelled create never publishes. A row in progress is
  skipped too, and its run goes on to publish (`cancelled_create`).
* `select_new_events` promises that a batch that fails half-way resumes and never
  skips. Of two events of one second the second is skipped (`same_second`).
* The rollout plan asks that a disable blocks new mirrored posts. `create_new_link`
  writes back what it read before the disable, and the upsert clears `disabled_at`
  (`late_provision`).
* The scheduler design calls planner crashes safe. The account stays `in_progress`,
  which no list selects (`crashed_replay`).
* The same design has a deletion seen during the replay applied before the worker sees
  the post. The worker claims while the planner is still writing, and a deletion that
  comes too late is dropped (`replayed_delete`).

Read off the code, and without a run of their own:

* `cancel_publish_job` says that published, skipped and ineligible rows are left
  untouched (`queries.rs:1305`). It decides on a row it read before, and its update has no
  condition: a row that another replica's worker finished in between is skipped. TLC finds
  `FinalRowsUntouched` violated with two planners; `FinalRowsStay` says that only this
  changes a final row, and with one replica nothing does.
* `create_account` says that an adopted account gets its session later by login or
  refresh (`pds_accounts.rs:246`). Nothing logs in, and a refresh needs a token that was
  never stored: `PdsSession` starts such an account without one, and it never gets any.
* The technical specification has profile edits synchronised. The live poll does not ask
  for kind 0, and a completed history is not replayed, so an edit made later never arrives
  (`EditProfile` of `ProfileSync`). A profile whose job fails and is retried after a newer
  one overwrites it, which is why `NewestShown` speaks of behaviours without faults.
* The exactly-once plan promotes a row of the previous release only in the BadJwt class,
  whose failures came before the create. A repair by event ids checks no error at all and
  promotes any terminal failure; `ReleasesNeverMix` therefore exempts revived rows.
* An insert of the previous release that no process of this one sees again stays pending
  for ever: it is adopted only when the same event is enqueued once more.
* The labeler design asks for a score and for SAFE to be heeded. The webhook emits a label
  for every entry. Its clients page by sequence number, so a row whose insert commits late
  is lost for good (`late`). And `queryLabels` filters a page after cutting it and takes
  its cursor from what is left, so a full page without a match ends a client's progress:
  `OnlyRacedAreMissed` names both cases, and says that there is no third.
* The app view plan has deleted posts disappear. Nothing ever sets `deleted_at`.
* `text_builder.rs:175` computes facets "for hashtags that survived truncation". A hashtag
  cut in the middle gets a facet for the shorter tag.
* A deletion executed while its owner is opted out ends as ineligible, and the record
  stays; a run that has sent its create before the deletion was carried out creates the
  record once more. `DeletionHonoured` is claimed without either.
* Live ingest loses events where it promises to resume: one that arrives after its kind
  was fetched, with a time below that of one handled later, one below the fifth page, or
  one that became newer than the cursor only when another replica set that back.
  `PassesOnlyOverlooked` lists the cases.

`FinalStaysFinal` holds, and is proved, for workers of the ingester's own process. With
a worker in another replica it does not: `cancel_publish_job` reads and writes in two
statements, and the other replica can finish the row in between. In live ingest the
third statement then finds the mapping and queues the deletion, so nothing is lost. The
replay of a history has no third statement: there the record stays, with a row that says
skipped.

## 4. Proofs

TLAPS checks, for every value of the constants allowed by their assumptions:

* `PublishQueue_proofs`: `Invariance`, `TypeCorrect`, `KeySafety`,
  `AtMostOneRecord`, `NoDivergence`, `PublishedVisibility`, `Refinement`,
  `DeletionsCarriedOut`; `AnswersAreTrue` and `AnswersStand` (about `CrosspostStatus`);
  and `FinalityInOneReplica`, under the assumption that no worker is remote.
* `LiveIngest_proofs`: `HistoryInvariance`, `HistorySafe`; `CursorMonotonic` for
  one replica; `ResumeSafe` for one replica and distinct seconds; `OnlyOverlookedPassed`,
  for any replicas, kinds, limits and arrivals; `PassedInOneReplica`, what is left of it
  when there is one replica.
* `AccountLifecycle_proofs`: `LifecycleTypes`, `WishHolds`, `HiddenHolds`, for every
  overlap of requests, runs, faults and restarts.
* `BackfillPlanner_proofs`: `ReplayInvariance`, `CompletedMeansSeeded`,
  `FinalRowsAreKept`, `BacklogInOrder`; `OneReplicaLeavesFinalRows` for one replica.
* `Clients_proofs`: `BlobsAlwaysOwned`, `SessionAlwaysKept`, `SessionNeverRolledBack`.
* `PostText_proofs`: `FacetsOfVideo`, about the facets of any event under any limit.
* `ReadSide_proofs`: `FollowersMissOnlyRaced`, `BansAreTakenDown` (`Labeler`);
  `ReadyIsComplete`, `ScriptLeavesVideosPlaying` (`AppView`).
* `Bridge_proofs`: `KeysAlwaysIncrease` (`TidClock`), `ReleasesKeptApart`
  (`WriterFence`), `NewestStays` (`ProfileSync`), `ConfirmsAsPreviewed` and
  `RollsBackItsOwn` (`LegacyRepair`), `HashtagsSurvive` (`PostText`), and of the
  composition `MCBridge`
  `PartsTyped` and `PartsRunAsSpecified`: it implements the specification of each of seven
  parts, so what is proved of them holds in it. Of `ProfileSync` the composition keeps
  the invariant; its specification has a fairness the composition does not repeat.
  `RuntimeHealth` has only its types to prove.

The assumptions on the constants are the named ones of the modules, which TLC evaluates in
every run; a theorem that needs more says so in its statement.

### The inductive invariants

`PublishQueue!IInv` is `TypeOK`, `KeysNeverShared`, `IngestInv`, `RunInv`, `DataInv`.
One record per event does not follow from itself: a late create must be at the key
its video reserved and carry the record its video prepared (`CreatesBelong`), which
holds because a run works at the stored key with the stored record, stage by stage
(`RunAtReservedKey`, `RunWithPreparedRecord`). Together with keys that are never
shared this makes the repository a function of reserved keys (`RepoBelongs`), and
two records of one event are then at one key. Visibility needs in addition that a
record, once a run knows it exists, stays until a deletion is queued
(`RunKnowsRecord`, `RemovesBelong`, `MappedAtOwnKey`).

`LiveIngest!HistoryInv` says that a cursor, stored or remembered by a poll, covers the
whole history. To seed such a cursor a cold poll must have reached the newest event of
each kind it is done with (`ColdPollInv`). For one replica `ReplicaInv` adds that the
cursor follows the batch from behind, and `ResumeInv` that what is not handled is newer
than it. `SelectionInv` looks at what is not in the batch either, for any replicas and
kinds. Of the events newer than the cursor a poll began with, one it has not fetched is
below its page bound or of a kind still to come, was overlooked, or shares the second at
which a page ended (`FetchInv`). When the paging ends, nothing is left below and no kind
is left, so what the batch lacks is handled, overlooked or has a twin (`SelectInv`); and
the event whose second becomes the cursor is the oldest of the batch (`SavingInv`), so
the rest of the batch is not passed.

`AccountLifecycle!WishInv` says that the row asks for crossposts only if the owner did
(`RowFollowsWish`), and that so does every task about to write what it read, unless it is
in `stale`; once such a task has written, `undone` records it. For the upsert of a manual
provisioning, which turns crossposting on, it needs that no call is under way while the
row is absent (`CallsInOrder`). `HiddenInv` says that while the account is hidden and
nothing has shown it again, every task and call that could lead to "ready" was under way
at the disable (`ShownByLeftovers`): the row is then neither pending nor ready, so the
replay starts no run and the reconciliation tells no "ready".

`BackfillPlanner!IInv` says what a planner has taken off its batch is replayed
(`BatchOK`), from which the completed mark follows when the batch is empty, and that the
rows of a history are a prefix of it (`SeededInOrder`), which the write of the oldest
event of a batch preserves because everything older is off that batch. Both rest on rows
that never disappear and on final rows that stay final (`StepKeeps` in the proofs). A
planner between the two statements of a cancellation has read a row that was not final,
and with one replica the row still is not (`CancelOK`).

The timestamps of `TidClock` increase because nothing handed out is above the last
timestamp, and a swap succeeds only if that has not moved. `MediaUpload` needs that a job
that is done has stored its blob with its owner, and that a run which does not know its
job to be a cached one polls a job of its own. In `PdsSession` the refresh token the PDS
would take is the stored one, or only the call that is about to store it knows it, and
there is one such call; a stored session is then newer than any that came before. In
`LegacyRepair` two versions of a row with the same `updated` are the same failure, and the
stamp of an applied operation is only on rows it revived itself and nobody has touched.

A deletion is honoured because what a run removed stays gone (`GoneStays`):
`DeletionInv` says that a video marked as deleted has no record in the repository
(`MarkedGone`), that neither has the target of a run past its delete (`RemovedGone`) nor
that of a deletion that is over (`ConcludedGone`), and that the mapping a deletion works
on exists (`DeletesMapped`). It is no invariant of the queue: an owner who opts out and
a run that straggles break it. The steps are therefore proved under `Undisturbed`, the
premise of `DeletionHonoured`, and TLC checked it under the same constraint.

`AnswersStand` splits the status by cases (`StatusCases`): published rests on mapping
and row, neither of which goes away, and a failure told as final is a row the claim no
longer takes and only the repair reopens (`GivenUpStays`).

`LabelerInv` keeps that no number is drawn twice and none of a waiting insert is visible
(`NumbersTaken`, `Inserting`), and that a cursor is the number of a row, or none
(`CursorsOnRows`): a row that commits below a cursor was being inserted when the client
went past it (`Given`). A client's page is the oldest rows above its cursor, so it skips
nothing, and it is empty of the client's subjects only if as many others are in front;
the proof needs that a nonempty set of numbers has a least one (`LeastOfNaturals`, from
the library's theorem on well-founded relations, since an induction principle would take
an operator). A ban holds by what each call still has ahead of it (`TakedownHandled`).

`AppViewInv` says that what the backfill has been shown is indexed or still in its hands
(`PagesLand`, with pages cut at the limit and posts taken in order: `NextPost`), and for
the script that a view still waiting is among those it has yet to take
(`ScriptSeesAll`). `FenceInv` says that, until an operator revives it, a row this release
ran is of its epoch and the other release never ran one (`EpochSeparates`), which needs
that whoever runs the row left `attempted` on it (`RunsRecorded`). `ProfileInv` says more
while nothing fails (`Smooth`): rows are replayed and claimed in the order of
`created_at`, one at a time, so the profile shown is no older than any published one. A
composed state satisfies all of these at once (`PartsInv`), and each step of the
composition is a step of one part that leaves the others alone (`PartsStepApart`).

`PostText` has no steps; what is proved is what its recursive functions compute for every
text. That each of them has a value, and what it is, goes by induction over the positions
of the text, upwards or downwards (`NaturalsReached`, `DownwardReached`): not an
induction over formulas, but the statement that a set of numbers which has the first and
with each the next has them all. From any position where no hashtag is under way the scan
finds the words from there on, in order and apart. A word of the cut text is a word of the
full text, or the beginning of the one word that was cut. And a hashtag the cut left whole
stands in the full text with a blank or an end on either side, because what comes before
it is the text with fewer tags.

### Model-checked only

* Liveness (`EventuallySettled`, `EventuallyHandled`, `ReconcileRepairs`,
  `ReplayedOrStranded`, `NotDark`, `MediaEnds`, `ReadinessSettles`): TLAPS does not prove
  liveness under fairness.
* `ImplementsFeed`: its instance has one kind and pages enough, which is not how the
  service is set up, so a theorem under these conditions would say little about it.
* The five disagreements with a run: they show one behaviour each.

Every other safety property of a passing run is stated by a theorem. Five theorems hold
for the parameters under which the code has the property: `FinalityInOneReplica`,
`ResumeSafe`, `CursorMonotonic`, `PassedInOneReplica` and `OneReplicaLeavesFinalRows`.

## 5. Plan

Done: every module of the table in section 2. What is left, in order of importance:

1. Two accounts that compete for a handle in `AccountLifecycle`, and the theorem that ties
   `Publishable` to what the queue executes.
2. A composition of `LiveIngest` with the rows of `PublishQueue`.
3. The PLC directory's retries, once something calls the PDS host backfill.

### Not modelled, and why

* The PLC directory and the PDS host backfill: no program calls them; provisioning uses
  the PDS's own DIDs.
* The feed generator, and the search, author and feed queries of the app view: they read
  tables and change nothing.
* Signatures, tag parsing and configuration are pure conversions of one event; the record
  they build is a member of `Records`.
* Download, hash and CID helpers of the video worker: input and output only.
* The inbound, outbound and NIP-32 mappings of the moderation adapter: its program is a
  stub and nothing calls them.
* `run_bridge_session` is reached by tests only; the runtime polls instead.
* Metrics, log lines, connection pools, schema, deployment, the web viewer, and the
  scripts other than the lab script in `AppView`.
