# Verification of Alfred

Alfred is a desktop application (Tauri: a Rust backend, a React frontend) in which a user draws
workflows of agent, script and app-action nodes and runs them by hand, on a schedule, from a file
watcher, from a webhook or from an event of a connected app. This directory holds TLA+ models of the
parts of the backend where threads, processes, providers and restarts meet, the TLC configurations
that check them, and TLAPS proofs of what matters most. Paths below are relative to
`src-tauri/src/` unless they start with `docs/`, `src/` or `sidecars/`.

## Inventory

| Component | State | Operations | Meets | Hard because |
|---|---|---|---|---|
| Run lifecycle (`runner/mod.rs`, `agents/active.rs`) | `runs`, `run_steps`; registry of in-flight runs; a cancel flag per run | `start_run`, `start_pending_app_event_run`, `execute_run`, `cancel_run`, recovery | everything that starts or cancels a run; agent processes | one thread per run; check and registration are separate; some thirty early returns; crashes |
| App event tables (`db/app_events.rs`, `integrations/events.rs`) | receipts, queue, cursors | record, drop, reject, promote, checkpoint, prune, recover | loop, provider adapters, runner | at-least-once polling, sockets that deliver once, a bounded queue, crashes between transactions |
| App event loop (`triggers/app.rs`) | idle cache, revision, in-flight table, permits, socket guards | tick, scan, spawn, finish, reload, reset | trigger commands, adapters, disconnect | a scan races a write and its reload; tasks outlive the configuration they started with |
| Connections (`integrations/refresh.rs`, `actions.rs`, `mod.rs`, `db/app_connections.rs`, `token_store.rs`) | `app_connections` row, credential in the system store, a lock per connection, tokens at the provider | connect, refresh, health check, execute, disconnect | providers, credential store, runner (app actions) | three stores that no transaction spans; rotating tokens; retry of requests with effects |
| Sign-in sessions (nine providers, `oauth_native.rs`) | session maps with expiry | prepare, poll or wait, cancel, complete | Connections | cancel races a completion that has taken the session out of the map |
| Provider adapters (`actions.rs`, `linear.rs`, `sentry.rs`, …) | cursors, windows, delta links | one action as checks, reads and writes; one poll | Connections, App event tables | a time limit or a cancel drops the executor between two requests; windows that move under the poll |
| Slack socket (`integrations/slack.rs`) | one socket, collected envelopes | connect, acknowledge, collect, fan out | App event tables | acknowledges before anything is stored |
| WhatsApp (`integrations/whatsapp`) | pairing attempts, keys, staging and final databases, the running client, its protocol tables | begin, run, cancel, complete, disconnect; store calls | keyring, protocol client | overlapping commands of one dialog; keys and databases without a transaction |
| Agent processes (`agents/process.rs`, one adapter per CLI) | child, reader threads, bounded channel, Claude lock | spawn, read, time out, kill, wait | run lifecycle | pipes, a full channel, a child that outlives its parent |
| Native harness (`agents/native`) | registry of runtimes, active turns, pending approvals | register, prepare, run, approve, cancel | run lifecycle, accounts | approvals that time out; cancellation during start |
| Native providers (`agents/native/providers`) | one turn or session each | request, stream, tools, stop | native harness, managed runtimes | partial streams, stops between frames, two processes that must agree |
| Managed runtimes (`agents/managed_runtime.rs`, `runtime_package.rs`, `publisher_trust.rs`, `commands/managed_runtime.rs`) | an entry per running runtime; version directories and activation records; evidence and manifest | launch, become ready, stop, exit; stage, activate, roll back, prune, recover; select and open a package | native harness, accounts | stop, readiness and exit race; crashes between file operations; files looked at twice |
| Agent accounts (`agent_accounts`) | account rows, secrets, cleanup debts, authorization attempts, profiles and leases | connect, authorize, validate, refresh, disconnect, resolve | agents, credential store, managed runtimes | two stores without a transaction; commands that wait for each other's lock |
| Licensing (`licensing`) | licence row, stored key, offline grace | activate, refresh, status, deactivate | every gated command | clock, network and stored state disagree |
| Memories (`db/memories.rs`, `memory_curation.rs`, `memory_retrieval.rs`) | rows, files, index, reviews, candidates | create, revise, pin, delete, recall, review, approve | runner | rows and files change apart; a review's suggestions meet memories that have changed |
| Schedules, files, webhooks (`scheduler`, `triggers/file.rs`, `triggers/http.rs`) | next due time, cool-downs | tick, fire, edit | runner | a start that fails in the middle of a tick; rows edited between look and use |
| Tables and migrations (`db/mod.rs`, `db/migrate.rs`, `db/workflows.rs`) | every table, its indexes and marks | open, migrate, reorder | everything | every start migrates again; some steps are one transaction, some are one statement after the other |
| Codex sidecar (`sidecars/codex-sdk`) | request thread, sign-in and turn threads | answer, sign in, stream, log out | native providers | lines of worker threads mix with answers |
| Commands, windows, frontend, scripts | | | | thin, or pure input and output |

`PROJECT.json` lists the hazards behind these at their lines, each with the properties that would
catch it going wrong; two have none, with the reason.

## Modules

| Module | What it is |
|---|---|
| `Runner`, `WorkflowSteps` | run lifecycle and registry; one run from the inside |
| `AppEvents`, `EventDelivery`, `AppEventLoop` | event tables, batches and queue; the contract they implement; the tick |
| `Connections`, `SignIn` | one account's row, credential, lock and provider; the sign-ins of nine providers |
| `ProviderActions`, `ProviderPolls`, `SlackSocket` | actions at a provider; polls and their cursors; the socket |
| `WhatsApp`, `ProtocolStore` | linked device; the store of its protocol client |
| `AgentProcess` | one invocation of a command-line agent |
| `NativeTurn`, `ApiTurn`, `OpenCodeTurn`, `CopilotTurn`, `CodexSdk`, `CodexAppServer`, `ClaudeTerminal` | the harness, and the turns, sessions and terminals of its providers |
| `ManagedRuntime`, `RuntimePackages`, `PackageTrust`, `ManagedConnect` | supervisor; package store; evidence and manifest; connect and disconnect |
| `AgentAccounts`, `Licensing`, `Memories`, `Starters`, `Migrations` | as named |
| `MC_Runner`, `MC_AppEvents`, `MC_AppEventLoop`, `MC_Connections` | constants for TLC |
| `MC_Components`, `MC_ComponentsLive` | the components that share no state with the runner and the event tables, side by side |
| `RunnerProofs`, `AppEventsProofs`, `AppEventLoopProofs`, `ConnectionsProofs`, `DatabaseProofs`, `ServiceProofs`, `RuntimePackagesProofs`, `ComponentsProofs` | theorems |

The database is one mutex around one SQLite connection (`db/mod.rs`), so a `Db` call is one atomic
step and two calls may always be separated by other threads. Each model follows that: an action ends
where the code releases the database, at an await, between two changes of the disk, or where it
releases a lock that others look at. `map` in `PROJECT.json` names, for each piece of code, the
definition that stands for it.

### How the components are composed

`Runner`, `AppEvents`, `AppEventLoop` and `Connections` have runs of their own. The other components
share no variable with them or with each other: what passes between two of them (a run that ends, a
credential that is refused, a workflow that is busy) is a choice of the model that receives it.
`MC_Components` therefore checks them as a sum. Its variable `part` says which component a behaviour
is about, `x1` to `x23` are that component's variables in the order of its declarations, and the
others stand still: the sum's behaviours are the components' behaviours. Seven components occur
twice with different bounds (a second version and a damage instead of a third version, a second
caller instead of more providers), because one instance with all of them would be too large. The
sum's properties are named promises, each the conjunction of properties that are stated, explained
and named in their modules: `MentionsAreKept` is `AckedIsKept` of `SlackSocket` while the socket is
the part that moves. `MC_ComponentsLive` does the same for what must happen in the end; there each
component keeps variables of its own, so that the fairness of one says nothing about another.

### Runner and WorkflowSteps

`status`, `wfOf`, `appRun`, `review` are columns of the database; `registry` and `cancelFlag` are
`active::registry()` and `RunControl.cancel`; `thread[r]` is the position of the run's thread in
`execute_run`; `starter` and `canceller` are positions of callers in `start_run`,
`start_pending_app_event_run` and `cancel_run`. A node ends completed, failed or cancelled; what it
computes is abstracted. The script of an Input node has an action of its own because its time-out
reaches the child through the cancel flag of the whole run. A crash empties the process and keeps
the database. Run ids come from a pool and are used once, as Uuids are. `WorkflowSteps` follows one
run through every graph of up to four nodes: a text is the set of the nodes and memories it holds.

### AppEvents and EventDelivery

The item `<<t, p>>` is the event at position `p` of a feed as trigger `t` sees it. A poll returns the
positions after the cursor and may repeat the last one; a socket hands each event over once. A batch
is processed item by item with the queue draining in between; filtered and invalid events are
constants. A pass of `drain_queue` lists the pending runs (`ListPending`), launches them, lists the
workflows with events (`ListQueue`), and for each promotes one event and launches its run at once
(`starting`); the launch looks at the slot and the run, not at receipt or trigger. `Prune` takes the
receipt of any event in `Aged` that does not wait, whatever the cursor is: 30 days and 10,000 receipts
are abstracted to "some are old". `lost` and `forgotten` record when a poll could still return the
event. `EventDelivery` says that an event goes from new to accepted to delivered, or is closed, and
that nothing is undone but one thing: the system may forget a delivered event, which then may be
accepted again. The mapping reads the outcome off queue row, runs and receipt history.

### AppEventLoop

A write of a trigger is a transaction, then the bump of the revision, the loop that cancels tasks,
and `reset`; or nothing of these, when the file watchers cannot be rebuilt first (`ReloadFails`). A tick
is a scan that notes the revision, reads, notes the idle answer, then visits each enabled trigger.
`outdated` says whether the cached answer, or the list of the scan under way, was read before a write
whose reload has not come or has failed. Tasks take a permit of their kind, acquire the guard of their
feed and finish or give up. Time is `BecomeDue`.

### Connections, SignIn and the providers

A credential is `<<grant, rotation>>`, and the provider accepts only the newest rotation of a grant:
that is the one thing about tokens the properties tell apart. The connect commands of the providers
share one shape (look up, read what is there, store, upsert, undo), taken from
`save_authorized_connection` of `github.rs`. `lock` is the map of per-connection mutexes. Failures
of the store, the database and the network, a lost answer of the token endpoint, and a crash share
one budget, `MaxFaults`. `SignIn` has what comes before that shape: sessions that are taken out of a
map, checked, polled, cancelled and put back. In `ProviderActions` an action is a program of checks,
reads and writes, and `applied` is what the provider has done, whatever its answer said.
`ProviderPolls` has what a provider shows moving under the windows and pages of a poll. In
`SlackSocket` an envelope leaves `unacked` with its acknowledgement, which may be lost, and the fan-out
gives it to every trigger, where it is queued or, when the queue is full, dropped with a receipt
(`overrun`); a mention is one that the triggers' filters let through.

### Processes, harness and runtimes

`AgentProcess` counts output in lines and the prompt in blocks of a pipe; its reader threads, the
bounded channel and `heir`, a descendant that keeps a pipe open, decide when the caller returns. A
line is UTF-8 or is passed over (`garbled`); a capture holds `CaptureCap` lines of one size, and one
more leaves the newest three quarters (the end of the newest line, if that is all) and the mark
`truncated`.
`NativeTurn` stops a runtime at its next call of the host. The provider modules have a turn as the
requests, frames, tool calls and stops between the two ends; what a frame says beyond its kind is
abstracted. `ManagedRuntime` has the entry, process tree, readers and monitor of each launch of one
key. `RuntimePackages` has every change of the disk as a step: `dir` is what is at a version's
place, `moved` what a replacement has set aside, `records` the activation files. `PackageTrust` lets
another process change a file between two looks at it. `ManagedConnect` and `AgentAccounts` are
scripts of steps between two awaits, with the locks they hold.

### Licensing, Memories, Starters, WhatsApp, Migrations

Each has the rows, files, keys and indexes that no transaction spans, a budget of faults, and the
commands as scripts. In `Starters` a cron expression is the set of times it names; one with a year may
have named its last, which `next_run_from_cron` finds out after the run has been started and reports at
every tick (`scheduler/mod.rs:97`). The branch for a schedule without a time (`:75`) is not reached:
`upsert_schedule` writes no row that is on without one (a conjunct of `TypeOK`). In `Migrations` a row is its id, a start runs every migration again, and `Close`
is a crash, a failing step or a quit at any place; `Init` is any database an earlier release or an
interrupted start may have left.

## Runs

| Run | Question | Result |
|---|---|---|
| `runner` | Is a run registered exactly while its thread lives, executed once, completed only when every node is, recovered after a crash, final once settled; does the slot of a run whose nodes end come back? | holds |
| `runner_slot` | "Each workflow retains its existing single-active-run slot" (`docs/app-events.md:46`) | violated: check and registration are separate critical sections |
| `runner_by_user` | A run that ends 'cancelled' was cancelled by somebody | violated: an Input script's deadline cancels the run |
| `app_events` | Caps, receipts, at most one run per event (one more each time its receipt is pruned too early), no gap behind a cursor, order of acceptance, the delivery contract | holds |
| `app_events_deleted` | A pending run "remains pending and the runtime retries it later" (`runner/mod.rs:152`) | violated: when the start was lost in a crash or refused at a busy slot, deleting the trigger strands the run |
| `app_loop` | No leak in the in-flight table, an idle cache that is true unless a reload failed, no uncancelled task from before a reload, every enabled trigger attempted again unless the permits are taken | holds |
| `app_loop_socket` | "One provider socket feeds every matching enabled trigger" (`integrations/events.rs:483`) | violated: `reset` forgets guards that are held |
| `connections` | A refresh owns its connection, what is stored is what the provider accepts, an action takes effect at most once, a disconnect is served | holds |
| `connections_secret` | Disconnect "deletes the SQLite metadata only after credential deletion succeeds" (`docs/connected-apps.md:45`) | violated: a connect between the two deletions loses its row and strands its credential |
| `components` | Twelve promises of the other components, and that no step takes back what was settled or acts on what is stale | holds |
| `components_live` | Stops are served, and work that was accepted is finished: events, mentions, sign-ins, commands, reviews, schedules | holds |
| `process_prompt` | A prompt is written unless the process is stopped (`agents/process.rs:329-331`) | violated: the prompt is written before the channel is drained, so a child that answers early blocks everybody |

Each of the six violations is a finding in `PROJECT.json`.

### Bounds

`runner`: two runs of one workflow, one ordinary starter, the app-event loop, one canceller, one
node, one crash. Two runs and two starters are what a race for the slot needs; `runner_by_user` has
two nodes, since a flag raised in one is seen by the next. `app_events`: a polling and a socket
trigger of one workflow, cap 1, feeds of two events, one upset (crash, trigger write, foreign run, or
the pruning of any receipt), so that the queue fills, drains in mid-batch and meets an aborted batch.
`app_events_deleted` needs one trigger and two upsets: the crash and the deletion. `app_loop`: two
polling triggers with one permit, so that one finds none, and two socket triggers on one feed with a
permit each; two writes, one reset by a disconnect, two skipped ticks before a forced scan.
`connections`: two connects, an action, the health loop and a disconnect, two grants, one
rotation of each, one fault: two flows inside the same window are the least that can go wrong, and
one rotation is enough to tell a stale credential from a current one.

`components`: queues, caches and channels hold one or two entries, so that they fill; there are two
of whatever races (callers, attempts, jobs, launches, reviewers) and one fault, crash or change
between any two steps, two where a second one undoes the first's repair (`SlackSocket`, `SignIn`
with one caller, `WhatsApp` with one attempt). `RuntimePackages` has three versions and two retained
records, the least with something to prune, and three generations. `ProviderActions` and
`PackageTrust` have all actions, products and targets. `CopilotTurn` counts in seconds up to a code
that expires after six; `Licensing` has a grace of one day in two; `ProtocolStore` counts
half-days. `WorkflowSteps` has every graph of up to four nodes and three executed steps.
`Migrations` has two workflows, which is what an order needs, one run and one memory, and an account
of each kind (its key stays, its runtime takes it over, its provider has no product).

`components_live` has smaller bounds, since its states carry every component's variables: one
launch, one mention with two triggers, a polling and a socket trigger of one workflow with one event
each to deliver and one filtered, three sign-in providers, one caller of a terminal, no faults for
accounts and one elsewhere, two schedules. A behaviour is still about one component.

The runs say `CHECK_DEADLOCK FALSE` where the models' bounds stop them; the loop, which never stops,
is checked for deadlock.

### Fairness

`Runner`: the operating system schedules run threads and cancel calls. Nothing makes a node end: the
shell command and the git calls of a node wait on `Command::output()` with neither deadline nor cancel
(`runner/mod.rs:3958`, `:4122`), and an agent step can wait for a pipe (below). `SlotIsReleased`
therefore has "no node of the run goes on for ever" as its premise. `AppEvents`: the loop ticks every
second (`lib.rs`) and every tick passes the queue; `AcceptedIsDelivered` and `PendingIsRetried` have
`RunsEnd` as their premise, and `DueIsStarted` of `Starters` the same of its workflows. `AppEventLoop`: the ticker, time, the
adapter time-out and the rest of a command that has written a trigger. `Connections`: weak fairness
of the code between two awaits (every request has a time-out) and strong fairness of taking a lock,
because tokio's mutex queues its waiters in order. In `components_live` every component has weak
fairness of its own threads and scripts, of clocks and deadlines, and of processes that were killed.
Two things have strong fairness: Slack delivers on an open socket, however often sockets close (it
repeats what is not acknowledged), and the Codex host reads a pipe that has lines in it. A user's
actions, providers' events, faults, damages and crashes have no fairness anywhere, so a property
that needs one of them says what excuses it (`excused`, `faults`).

## Proofs

Every proof has the same outline: an inductive invariant (which TLC checked before it was proved), a lemma per conjunct with a case per action,
`Init => Inv`, and temporal theorems that follow by PTL. Constants are arbitrary: any number of
threads, runs, triggers, events, tasks, rows, versions, crashes and faults. `Runner`, `AppEvents`,
`AppEventLoop` and `Connections` name what they assume of them in `ASSUME`s; the components that are
only instantiated have a definition `Hypotheses` in their proof module, which is the premise of its
theorems.

- `RunnerProofs`. Type correctness, `RegistryIsLiveThreads`, `ExecutedOnce`,
  `CompletedRanEveryNode`, `NoPhantomAppRun`, and the action property `SettledIsFinal`. The
  strengthening says that a thread that has not marked its run 'running' belongs to a run that never
  ran, that position bounds progress, and that whoever is about to launch a run holds it alone
  (`StartersHoldOwnRuns`, `AppLoopHoldsFreshRun`): that is why the relisting of pending rows does not
  execute one twice although `SingleActiveRun` fails.
- `AppEventsProofs`. Type correctness, `CapRespected`, `ReceiptsMatchQueue`,
  `DeliveredAtMostOnce`, `NothingSkipped`, the action property `AcceptedInOrder`, and the refinement
  `ImplementsDelivery`. The strengthening: a receipt that is gone belongs to an event that no poll can
  return, or is one that retention took too early (`KnownEvents`); an event has made one run more than
  it was forgotten, or as many while it waits or may be accepted again (`MadeOnce`); batches of
  different syncs are disjoint (`Batches`), and while nothing was held back a batch covers everything
  up to its cursor (`BatchCovers`).
- `AppEventLoopProofs`. Type correctness, `InFlightIsTasks`, `IdleCacheIsTrue`,
  `OldTasksAreCancelled`. The strengthening (`ScanIsHonest`): an empty answer under the revision the
  scan began with is still true, unless it was read before a write whose reload has not come or has
  failed (`outdated`); and a cached answer is outdated whenever the list it comes from is.
- `ConnectionsProofs`. Type correctness, `RefreshOwnsConnection`, `AppliedAtMostOnce`,
  `StoredIsCurrent`. The strengthening: the lock of an id is held by exactly the task inside its
  section (`LockDiscipline`), a disconnect still has the row it found (`RemovalOwnsRow`), until its
  answer an action has had no effect (`EffectIsLast`), and, while nothing has failed, a grant has one
  home: the store, or the task that has just rotated it and holds the lock (`Current`).
- `DatabaseProofs`, two components in one module. Of `Memories`: type correctness, `IndexIsCurrent`,
  `FilesMatchRows`, `PinnedIsActive`, `RecallIsTraced`, `OneReviewer`, `CandidatesOfCompleted`, and
  the action property `ApprovalIsSound`. Premise: None is no workflow and no memory, the reviewed
  workflow has a directory, a reviewer suggests what its schema allows, and there are finitely many
  candidate ids. The strengthening: the file of a row is named after the row (`PathsAreOwn`), so that
  no edit or deletion touches the file of another; a task that works on a review has claimed it, and
  no other task has (`ClaimedOnce`), which is what makes the status look-up of
  `claim_memory_review` enough; and a new id is one that neither a run nor a review still remembers,
  so that a memory that is deleted during a recall cannot come back under the id it recorded.
  Of `Migrations`: type correctness, and that however often starts are interrupted
  `RowsKeepTheirOwn`, `SearchFindsAll`, `SecretsAreReferenced`, `OpenIsMigrated` and `NumberedApart`
  hold. Premise: there are finitely many workflows, so that they can be numbered, and `MaxAhead` is a
  number. `Progress` says how far the migrations are at each place; `Numbering` says that the rows
  still to be numbered are distinct and everything already numbered is below the next place, which is
  why one UPDATE after the other never gives a place twice.
- `ServiceProofs`, five components in one module. Of `Licensing`: type correctness,
  `LapsedIsNotRevoked`, `GraceIsBounded`, `DevicesAreAccounted`, `RowHasItsKey`, and the action
  property `FailedDeactivationKeeps`. Premise: None is neither a day nor a benefit, a key carries one
  of the two benefits `product_for_benefit` knows or another, and the windows end on days of which
  one is the last. `Operations` says what an operation holds at each of its steps; `Held` that Polar,
  while it has withdrawn nothing, still has the devices of the row and of the operation; `Windows`
  that what was stored of a window ends no later than the window does. The last is why
  `persist_validation_error` may tell a lapse from a revocation by the stored deadline, except when
  the window closes between the look at the clock and the answer. A lemma `...Does` per operation
  says field by field what its step changes.
  Of `SlackSocket`: type correctness with the batch limit, and `AckedIsKept`. Premise: an envelope is
  of one kind, and a batch has room for an event (`SLACK_SOCKET_BATCH_LIMIT` is a positive constant).
  `Batch` says which events a call holds at each of its places: none when idle, fewer than the limit
  while it reads, and those with a receipt, queued or dropped, at every trigger already served in the
  fan-out.
  Of `SignIn`: type correctness, `RowHasItsCredential`, `NoStrayCredential`,
  `CancelledNeverConnects`, `AcceptedIsSound`, `OneTelegram`, `TestedOnce` and `GrantOutlivesRefresh`,
  for any number of attempts side by side. Premise: the providers are among the nine that have a
  script, attempts are finitely many, and none of them is called as "no reference" or "the reference
  from before". The argument does not go through the nine scripts: `Ordered` says what they have in
  common (the checks come first, then the look-up or the draw, the put, Telegram's second look, and
  the upsert), is proved of each once, and every step after that is a position in some ordered
  script. `ChecksPassed` says that a flaw of the answers is one the checks behind the call let
  through, so none is left at the upsert; `CancelsStop` that a cancel which found its session keeps
  the attempt from getting there; `References` and `Unexcused` that a reference in the store is a
  row's or on the way to one, until an undo fails, is cut off or an account signs in twice at once;
  `TelegramPairsOne` that the lock has one holder past it, and nobody is past it once a row is saved.
  Of `WhatsApp`, the linked device: type correctness, `TestedBeforeConnected`, `OneClientPerDevice` and
  `ConnectedOpensItsStore`, for any number of attempts and failures. Premise: no attempt is called as
  "no attempt" or "the attempt to come". `AttemptsGoOn` says how far an attempt is, `PairedIsSettled`
  that what is completed, saved or run by the owner was tested and its pairing client has ended,
  `OwnerHoldsOne` that the owner counts the client it holds, `CancelsTake` that who cancels has taken
  the session. `KeyFollows` has the argument for the key and the databases: while no pairing was
  cancelled before its run had begun or while it was being completed (`Undisturbed`), the key, the
  staging database and the session are of one attempt, and then of the row. The proof corrected the
  invariant: it used to ask only that the connected attempt itself was not cancelled, but with three
  attempts the promotion of one that was cancelled takes the staging database of the next, which two
  attempts do not show; it now asks it of all attempts.
  Of `ProtocolStore`: type correctness with one row per key, `GoneStaysGone`, `ReadIsWritten`,
  `RetriesAreShort`, `BatchesAreWhole` and `PhoneAgrees`, for any names, groups, times and retention.
  Premise: the spaces are among those the tables know (`Blobs`), payloads are kept for some
  time, and no area is called "none". `RowsOfArea` says what the rows of each table are, `Departed`
  what no row may name any more, `Purges` that no purge was later than now, and `BatchGoesOn` that a
  batch under way is newer than every row before it and has the rows it has written.
- `RuntimePackagesProofs`. Type correctness with the bound on the history, `ActiveIsOnDisk` and
  `PreviousIsOnDisk`, and the action property `GenerationsGrow`. Premise: "none" is no version and at
  least one record is retained. `History` says that records are numbered apart and have a newest;
  `Installing` what the installer has done and set aside at each place. That pruning loses neither is
  a counting argument (`PruningKeeps`): of a finite set in which fewer than `Retain` records are newer
  than a record, that record stays, and none is newer than the newest.
- `ComponentsProofs`. `MentionsAreKept`, `LicenseIsAccountedFor`, `SignInsAreSound`,
  `DevicesAgree`, `VersionsSurvive`, `StartsLoseNothing` and `MemoriesAgree` of the sum, from the invariants above: `part` never changes,
  and while a component moves its module's invariant holds of its variables. The hypotheses are
  discharged for the sum's constants; of the model value `Nil` it is assumed that it is no number and
  none of the strings that stand for benefits, workflows, directories and memories.

### What stays with TLC

- All liveness (`SlotIsReleased`, `EnabledIsAttempted`, `DisconnectIsServed`, `StopsAreServed`,
  `WorkIsFinished`): fairness is about ENABLED, which the provers do not handle.
- What a recursive definition computes for every input (the topological order and the nearest agents
  of `WorkflowSteps`, a window or a page of `ProviderPolls`): the library's induction theorems take
  an operator as a parameter, which the installed provers cannot instantiate.
- The other promises of the sum and its `TypeOK`, which has a conjunct for every component, and
  `StepsKeepFaith`, which is one action property over eleven components, of which only
  `GenerationsGrow`, `FailedDeactivationKeeps` and `ApprovalIsSound` are proved. Nothing in their shape is out of
  reach; their inductive invariants are not written yet.
- The six disagreements: they are counterexamples.

## What reading the code showed beyond the runs

These schedules follow from the code, are permitted by the models or lie in what they abstract, and
have no run of their own.

Runs and workflows
- A cancel that arrives after the last look at the flag is overwritten by 'completed'
  (`runner/mod.rs:2009`; the comment at `:237` promises a visible mark).
- There is one context prompt for a whole run: a second Input node replaces the first's context, an
  agent's answer goes only to the last output, and a Memory node's selection stays excluded from
  recall although a later Input has replaced the context. Two Output nodes in a row list the changed
  files twice (`runner/mod.rs:1455`).
- `diff_git_status` misses files that were modified before and counts what others change meanwhile.
- A shell command or a git call of a node that does not end keeps its run's thread and the workflow's
  slot: `run_shell_command` and `run_git_host` wait on `Command::output()` without a deadline and do
  not look at the cancel flag (`runner/mod.rs:3958-3991`, `:4122-4171`).
- A child's deadline does not bound its step if a descendant keeps its output open: after the kill,
  `run_cmd_inner` waits for the readers to see the end of the pipes (`agents/process.rs`).
- A time-out through `kill_child` raises the cancel flag of the whole run.
- What an agent printed is kept up to 16 MB of stdout and 1 MB of stderr; the oldest part goes, with a
  mark, and a line that is not UTF-8 goes without one (`agents/process.rs:35`, `:310`).

Events and triggers
- A full queue does not stop the batch: later events of it may still be accepted
  (`integrations/events.rs:679`, against `docs/app-events.md:47`). The cursor stays, so nothing is
  lost; the order of acceptance need not be the order of the feed.
- An event makes a second run when its receipt is pruned while a poll still returns it: the receipt is
  30 days old or beyond the newest 10,000, and the feed has been quiet since (a poll that repeats the
  event at its cursor) or back-pressured (its cursor has not moved). `prune_app_event_receipts` does not
  look at the cursor (`db/app_events.rs:422-471`); `DeliveredAtMostOnce` allows one more run for each
  time this happens.
- When the file watchers cannot be rebuilt, `triggers::reload` returns before the event loop hears of
  the write (`triggers/mod.rs:79`): an idle answer cached before it stays until the forced rescan, and
  tasks of the old configuration run on.
- Polls share four permits and sockets sixteen, taken with `try_acquire_owned` and without a queue
  (`triggers/app.rs:167-169`): nothing orders the triggers beyond them, and one may be passed over
  again and again. `EnabledIsAttempted` excuses a trigger that finds no permit.
- `tick` captures the revision a task starts with after the scan, not before
  (`triggers/app.rs:173`), so a task may begin with a row that a reload has meanwhile replaced.
- A database error on one target of a fan-out returns before the other targets have seen the batch,
  which the socket has acknowledged (`integrations/events.rs:497`); the Slack adapter acknowledges
  before anything is stored (`integrations/slack.rs:752`), so a malformed envelope, a cancel or a
  time-out later in the call loses what it has collected. `AckedIsKept` excuses exactly these. A socket
  event that finds its trigger's queue full is dropped with a receipt and never asked for again.
- A trigger that moves to another connection keeps the old cursor (`db/triggers.rs:143`).
- When `start_run` fails for a due schedule (its workflow is still busy), `tick` returns: the
  schedules after it wait, and its own due time stays where it was (`scheduler/mod.rs:88`). A tick's
  `set_next_run` overwrites an edit made since its read.
- A cron expression with a year (the seventh field the crate takes) is only asked for its first time
  when it is saved. After its last time it is due for ever: every tick starts its workflow again, finds
  no next time and returns (`scheduler/mod.rs:88-97`), so the schedules that are due after it are never
  started. `EachDueOnce` and `DueIsStarted` excuse such schedules.
- A trigger changed from a file watcher to a webhook has no secret, and is answered 401 for ever.
- Linear's `created >= prior_watermark` takes an issue of the same instant for new
  (`linear.rs:1382`); Linear and GitHub lose what has left the window between two polls.

Connections and sign-ins
- Two connects of one new account store two credentials, the second of which nothing refers to
  (`db/app_connections.rs:143`). A reconnect during a refresh may be overwritten by the refreshed old
  credential. A failed reconnect puts back what it read, which a refresh may have rotated away.
- Gmail's and GitHub's refresh keep only the refresh token of the answer, which may have none, where
  Microsoft's keeps the old one (`integrations/microsoft.rs:911`).
- Cancelling a Gmail or Microsoft sign-in looks in the map from which the waiting completion has
  already taken the session; cancelling a GitHub sign-in during a poll is undone when the poll puts
  it back.
- Only `ProviderUnauthorized` is repeated; a time-out or a cancel drops the executor in the middle of
  a write, and a Slack post that breaks off is reported as an unavailable provider.
- WhatsApp: "every abandonment path … stops the runtime" (`pairing.rs:17-19`) does not hold for a
  cancel during the launch; a cancel that races `complete` leaves a connected row whose key is gone, or
  takes away the staging database of the next attempt;
  overlapping `begin`s lose the first session.
- `purge_expired` of the protocol store passes `now` as its cut-off, so every start deletes every
  retry payload (`whatsapp/store.rs:233`).

Agents, runtimes and accounts
- Production callers of the package store bring no verification of the active version
  (`commands/managed_runtime.rs:1823`, `:1948`), so an update is refused as
  `PreviousVerificationRequired`; an unreadable manifest in the recovery directory fails every later
  install (`runtime_package.rs:1347-1372`); no lock keeps two installers apart.
- `write_stdin_frame` holds the entry's lock while it blocks (`managed_runtime.rs:655-682`).
- A native approval whose wait is cancelled stays in the pending map
  (`agents/native/host_approval.rs:136`); after its deadline a blocked native turn is not woken.
- An agent-account connect that waited for another of the same key may take away the account the
  other has finished (against `service.rs:667-670`); `complete_authorization` takes no account lock.
- A second ChatGPT sign-in while connected never completes; an OpenCode or Codex disconnect whose
  logout or receipt was lost cannot be repeated with success; overlapping polls and disconnects
  re-create a connected row.
- Codex: "Profile deletion is impossible without a receipt" (`sdk_runtime.rs:791-792`) does not hold
  for a purge without a session. OpenCode: a resumed session keeps the permission rules of the turn
  that created it, and a failing stop after a completed turn makes it an error. Copilot: a failed
  turn returns Ok. The direct Claude client decodes each chunk as UTF-8 on its own, and Gemini's
  stream has no time limit.
- The raw Codex client, which is not shipped, removes a pending request before it queues the answer,
  so a full queue loses it (`transport.rs:267-276`).
- Claude terminal: a caller's cancel returns while another thread's clean-up still holds the lease.

Memories, licence, database
- A memory review that was claimed before a crash stays 'running'; nothing recovers it and
  `retry_memory_review` takes only failed ones (`db/memory_curation.rs:607`).
- `update_memory` whose row write fails leaves an artifact file; retract candidates pass the
  duplicate check.
- A deactivation whose answer was lost or whose key could not be deleted stays stuck
  (`licensing/service.rs:582`); `refresh` reads the time before its request (`:430`);
  `get_status` runs beside the single-flight lock.
- The backfill of `sort_order` that is interrupted after two rows is not continued, because it looks
  only for tables in which every row has the default; neither it nor `reorder_workflows` ("treat as
  one logical write") is a transaction. No place is given twice all the same (`NumberedApart`), but
  the order is not the one asked for.
- An account of a provider without a product makes every start fail (`db/migrate.rs`, `lib.rs:107`).

`AppEvents` assumes that the system clock does not run backwards between two receipts, that a
provider never returns events from behind the cursor it gave out, and that a socket does not repeat an
event it has had an acknowledgement for.

## Plan

What is left, most important first.

1. Proofs of the promises that are one component's each: `RunsReportTheirOwn` as far as it does not
   need induction over graphs, `ProvidersAreTakenAtTheirWord`, `AccountsAgree`, `TurnsAreFaithful`.
2. `AgentProcess` and `ManagedRuntime` (`ProcessesAreContained`).
3. A moving trigger in `AppEvents` (`db/triggers.rs:143`), and a task that starts with a stale row in
   `AppEventLoop` (`triggers/app.rs:173`): the two hazards without a property.

## Not modelled

Provider wire formats, prompts, rendering of reports, full-text ranking, cryptography and signature
checks, the operating system's credential store beyond get, put and delete, columns and indexes that
a migration only adds, windows, menus and the frontend. They are formatting, input and output, or
external; where a modelled part depends on one, the model has the outcomes it can have.
