---------------------------- MODULE AppEventLoop ----------------------------
(***************************************************************************)
(* The once-a-second loop of src-tauri/src/triggers/app.rs: the idle cache *)
(* that lets a tick skip the database, the table of syncs in flight, the   *)
(* reload that every trigger write ends with, and the guard of             *)
(* src-tauri/src/integrations/events.rs that keeps a socket feed to one    *)
(* task.  What a sync does with its events is AppEvents.                   *)
(*                                                                         *)
(* A trigger write is a database transaction, then the new revision and the *)
(* cancellations of AppEventRuntime::reload, then AppEventRegistry::reset, *)
(* each visible to the loop on its own.  The file watchers are rebuilt      *)
(* before the other two steps, and when that fails they never happen.      *)
(***************************************************************************)
EXTENDS Naturals, FiniteSets

CONSTANTS
    Triggers,      \* ids of app triggers
    Sockets,       \* those whose descriptor has no polling mode
    Feeds, FeedOf, \* provider, event type and connection of a trigger
    PollPermits, SocketPermits,
    RescanTicks,   \* IDLE_RESCAN_TICKS
    MaxWrites,     \* bound: trigger writes
    MaxResets      \* bound: disconnected connections

ASSUME AppEventLoopConstants ==
    /\ Sockets \subseteq Triggers
    /\ FeedOf \in [Triggers -> Feeds]
    /\ PollPermits \in Nat /\ SocketPermits \in Nat
    /\ RescanTicks \in Nat /\ MaxWrites \in Nat /\ MaxResets \in Nat

VARIABLES
    enabled,   \* enabled app triggers in the database
    due,       \* triggers whose next_attempt_at and poll interval have passed
    writer,    \* where the command that writes a trigger is
    outdated,  \* "cache", "list": which of the two were read before the last
               \* write, and not replaced or invalidated since (auxiliary)
    revision,  \* AppEventRuntime.revision
    idleAt,    \* idle_at_revision: 0, or one more than the revision it is for
    skipped,   \* skipped_ticks
    loop,      \* where the tick is
    scanned,   \* the revision the tick's scan started with
    list,      \* enabled triggers the scan returned and tick has not visited
    inFlight,  \* keys of in_flight
    cancelled, \* those whose AppEventCancellation is set
    task,      \* per trigger: where its spawned task is
    started,   \* per trigger: revision captured when the task was spawned
    keys,      \* AppEventRegistry.socket_syncs
    writes, resets

dbVars    == <<enabled, due>>
writeVars == <<writer, outdated, revision, writes>>
idleVars  == <<idleAt, skipped>>
tickVars  == <<loop, scanned, list>>
taskVars  == <<inFlight, cancelled, task, started>>
vars      == <<enabled, due, writer, outdated, revision, idleAt, skipped, loop, scanned,
               list, inFlight, cancelled, task, started, keys, writes, resets>>

Init ==
    /\ enabled = {}
    /\ due = Triggers
    /\ writer = "idle"
    /\ outdated = {}
    /\ revision = 0
    /\ idleAt = 0 /\ skipped = 0
    /\ loop = "idle" /\ scanned = 0 /\ list = {}
    /\ inFlight = {} /\ cancelled = {}
    /\ task = [t \in Triggers |-> "none"]
    /\ started = [t \in Triggers |-> 0]
    /\ keys = {}
    /\ writes = 0 /\ resets = 0

-----------------------------------------------------------------------------
(* Trigger writes *)

\* upsert_trigger or delete_trigger; triggers::reload has not run yet.
WriteTrigger(t, on) ==
    /\ writer = "idle"
    /\ writes < MaxWrites
    /\ writes' = writes + 1
    /\ enabled' = IF on THEN enabled \cup {t} ELSE enabled \ {t}
    /\ outdated' = {"cache", "list"}
    /\ writer' = "written"
    /\ UNCHANGED <<due, revision, idleVars, tickVars, taskVars, keys, resets>>

\* file::reload_watchers cannot read the file triggers: triggers::reload returns
\* here, and neither the revision nor a running sync hears of the write.
ReloadFails ==
    /\ writer = "written"
    /\ writer' = "idle"
    /\ UNCHANGED <<dbVars, outdated, revision, idleVars, tickVars, taskVars, keys,
                   writes, resets>>

\* AppEventRuntime::reload: the new revision invalidates the idle cache ...
Reload ==
    /\ writer = "written"
    /\ revision' = revision + 1
    /\ outdated' = {}
    /\ writer' = "bumped"
    /\ UNCHANGED <<dbVars, idleVars, tickVars, taskVars, keys, writes, resets>>

CancelNothing ==
    /\ writer = "bumped"
    /\ writer' = "reloaded"
    /\ UNCHANGED <<dbVars, outdated, revision, idleVars, tickVars, taskVars, keys,
                   writes, resets>>

\* ... and then all that is in flight is cancelled, under its lock.
CancelTasks ==
    /\ writer = "bumped"
    /\ cancelled' = inFlight
    /\ writer' = "reloaded"
    /\ UNCHANGED <<dbVars, outdated, revision, idleVars, tickVars, inFlight, task,
                   started, keys, writes, resets>>

\* AppEventRegistry::reset, at the end of triggers::reload.
ResetAdapters ==
    /\ writer = "reloaded"
    /\ keys' = {}
    /\ writer' = "idle"
    /\ UNCHANGED <<dbVars, outdated, revision, idleVars, tickVars, taskVars, writes,
                   resets>>

\* disconnect resets the registry too, and cancels nothing.
Disconnect ==
    /\ resets < MaxResets
    /\ keys' = {}
    /\ resets' = resets + 1
    /\ UNCHANGED <<dbVars, writeVars, idleVars, tickVars, taskVars>>

-----------------------------------------------------------------------------
(* tick *)

SkipScanForEver ==
    /\ loop = "idle"
    /\ idleAt = revision + 1
    /\ skipped' = skipped + 1
    /\ UNCHANGED <<dbVars, writeVars, idleAt, tickVars, taskVars, keys, resets>>

SkipScanUncounted ==
    /\ loop = "idle"
    /\ idleAt = revision + 1
    /\ skipped < RescanTicks
    /\ UNCHANGED vars

\* skip_idle_scan says yes.
SkipScan ==
    /\ loop = "idle"
    /\ idleAt = revision + 1
    /\ skipped < RescanTicks
    /\ skipped' = skipped + 1
    /\ UNCHANGED <<dbVars, writeVars, idleAt, tickVars, taskVars, keys, resets>>

\* skip_idle_scan says no: the scan will read the database.
BeginScan ==
    /\ loop = "idle"
    /\ idleAt # revision + 1 \/ skipped >= RescanTicks
    /\ skipped' = IF idleAt = revision + 1 THEN 0 ELSE skipped
    /\ scanned' = revision
    /\ loop' = "scanning"
    /\ UNCHANGED <<dbVars, writeVars, idleAt, list, taskVars, keys, resets>>

\* drain_queue and list_enabled_triggers.  A queue row of an enabled trigger
\* implies an enabled trigger, so the list decides whether all is idle.
ReadTriggers ==
    /\ loop = "scanning"
    /\ list' = enabled
    /\ outdated' = outdated \ {"list"}
    /\ loop' = "read"
    /\ UNCHANGED <<dbVars, writer, revision, idleVars, scanned, taskVars, keys,
                   writes, resets>>

NoteScanUnchecked ==
    /\ loop = "read"
    /\ skipped' = 0
    /\ idleAt' = IF list = {} THEN revision + 1 ELSE 0
    /\ outdated' = IF "list" \in outdated THEN outdated ELSE {}
    /\ loop' = "scheduling"
    /\ UNCHANGED <<dbVars, writer, revision, scanned, list, taskVars, keys, writes,
                   resets>>

\* note_scan: an idle answer is cached only for the revision it was read at.
NoteScan ==
    /\ loop = "read"
    /\ skipped' = 0
    /\ idleAt' = IF list = {} /\ revision = scanned THEN scanned + 1 ELSE 0
    /\ outdated' = IF "list" \in outdated THEN outdated ELSE {}
    /\ loop' = "scheduling"
    /\ UNCHANGED <<dbVars, writer, revision, scanned, list, taskVars, keys, writes,
                   resets>>

Running(S)   == Cardinality({t \in S : task[t] # "none"})
HasPermit(t) == IF t \in Sockets THEN Running(Sockets) < SocketPermits
                                 ELSE Running(Triggers \ Sockets) < PollPermits

\* Not due, no permit, or begin says it is in flight already.
PassOver(t) ==
    /\ loop = "scheduling" /\ t \in list
    /\ t \notin due \/ ~ HasPermit(t) \/ t \in inFlight
    /\ list' = list \ {t}
    /\ UNCHANGED <<dbVars, writeVars, idleVars, loop, scanned, taskVars, keys,
                   resets>>

\* begin, and spawn with the revision as it is now.
Spawn(t) ==
    /\ loop = "scheduling" /\ t \in list
    /\ t \in due /\ HasPermit(t) /\ t \notin inFlight
    /\ list' = list \ {t}
    /\ inFlight' = inFlight \cup {t}
    /\ task' = [task EXCEPT ![t] = "spawned"]
    /\ started' = [started EXCEPT ![t] = revision]
    /\ UNCHANGED <<dbVars, writeVars, idleVars, loop, scanned, cancelled, keys,
                   resets>>

EndTick ==
    /\ loop = "scheduling" /\ list = {}
    /\ loop' = "idle"
    /\ UNCHANGED <<dbVars, writeVars, idleVars, scanned, list, taskVars, keys,
                   resets>>

-----------------------------------------------------------------------------
(* The spawned task *)

\* finish, and the permit goes with the task.
Finish(t) ==
    /\ inFlight' = inFlight \ {t}
    /\ cancelled' = cancelled \ {t}
    /\ task' = [task EXCEPT ![t] = "none"]
    /\ started' = [started EXCEPT ![t] = 0]

GiveUpWithoutFinish(t) ==
    /\ task[t] = "spawned"
    /\ revision # started[t]
    /\ task' = [task EXCEPT ![t] = "none"]
    /\ UNCHANGED <<dbVars, writeVars, idleVars, tickVars, inFlight, cancelled,
                   started, keys, resets>>

\* The revision moved, the cancellation is set, or another task holds the feed.
GiveUp(t) ==
    /\ task[t] = "spawned"
    /\ revision # started[t] \/ t \in cancelled \/ (t \in Sockets /\ FeedOf[t] \in keys)
    /\ Finish(t)
    /\ UNCHANGED <<dbVars, writeVars, idleVars, tickVars, keys, resets>>

\* sync_trigger_cancellable up to its poll or connect; a socket takes its key.
Connect(t) ==
    /\ task[t] = "spawned"
    /\ revision = started[t] /\ t \notin cancelled
    /\ t \in Sockets => FeedOf[t] \notin keys
    /\ keys' = IF t \in Sockets THEN keys \cup {FeedOf[t]} ELSE keys
    /\ task' = [task EXCEPT ![t] = "connected"]
    /\ UNCHANGED <<dbVars, writeVars, idleVars, tickVars, inFlight, cancelled,
                   started, resets>>

\* The sync returned.  Its guard is dropped first.  Success and failure both
\* postpone the next attempt; cancellation and backpressure do not.
EndSync(t) ==
    /\ task[t] = "connected"
    /\ keys' = IF t \in Sockets THEN keys \ {FeedOf[t]} ELSE keys
    /\ \/ due' = due \ {t} /\ t \notin cancelled
       \/ due' = due
    /\ Finish(t)
    /\ UNCHANGED <<enabled, writeVars, idleVars, tickVars, resets>>

\* Its poll interval or its retry deadline passes.
BecomeDue(t) ==
    /\ t \notin due
    /\ due' = due \cup {t}
    /\ UNCHANGED <<enabled, writeVars, idleVars, tickVars, taskVars, keys, resets>>

-----------------------------------------------------------------------------
Tick == SkipScan \/ BeginScan \/ ReadTriggers \/ NoteScan \/ EndTick
Task(t) == GiveUp(t) \/ Connect(t) \/ EndSync(t)

Next ==
    \/ \E t \in Triggers, on \in BOOLEAN : WriteTrigger(t, on)
    \/ ReloadFails \/ Reload \/ CancelTasks \/ ResetAdapters \/ Disconnect
    \/ SkipScan \/ BeginScan \/ ReadTriggers \/ NoteScan \/ EndTick
    \/ \E t \in Triggers :
         PassOver(t) \/ Spawn(t) \/ GiveUp(t) \/ Connect(t) \/ EndSync(t) \/ BecomeDue(t)

Spec == Init /\ [][Next]_vars

\* The ticker fires every second, time passes, every adapter call has a timeout
\* (ADAPTER_TIMEOUT) and a command that wrote a trigger goes on to its end, by
\* way of a reload that may fail.
Fairness ==
    /\ WF_vars(Tick)
    /\ WF_vars(ReloadFails \/ Reload) /\ WF_vars(CancelTasks) /\ WF_vars(ResetAdapters)
    /\ \A t \in Triggers :
         WF_vars(PassOver(t) \/ Spawn(t)) /\ WF_vars(Task(t)) /\ WF_vars(BecomeDue(t))

FairSpec == Spec /\ Fairness

-----------------------------------------------------------------------------
(* Properties *)

\* Every variable has its type.
TypeOK ==
    /\ enabled \subseteq Triggers /\ due \subseteq Triggers
    /\ writer \in {"idle", "written", "bumped", "reloaded"}
    /\ outdated \subseteq {"cache", "list"}
    /\ revision \in Nat /\ idleAt \in Nat
    /\ skipped \in 0..RescanTicks
    /\ loop \in {"idle", "scanning", "read", "scheduling"}
    /\ scanned \in Nat
    /\ list \subseteq Triggers
    /\ inFlight \subseteq Triggers /\ cancelled \subseteq Triggers
    /\ task \in [Triggers -> {"none", "spawned", "connected"}]
    /\ started \in [Triggers -> Nat]
    /\ keys \subseteq Feeds
    /\ writes \in Nat /\ resets \in Nat

\* in_flight holds exactly the triggers with a live task: nothing leaks, so no
\* trigger is shut out for good, and none is synced twice at a time.
InFlightIsTasks ==
    /\ inFlight = {t \in Triggers : task[t] # "none"}
    /\ cancelled \subseteq inFlight

\* The idle cache is only believed while nothing is enabled, unless a trigger was
\* written since it was read and the reload has not come yet or has failed: no
\* other interleaving of writes, reloads and scans leaves a wrong answer, and the
\* next scan replaces the one a failed reload left.
IdleCacheIsTrue == idleAt = revision + 1 /\ "cache" \notin outdated => enabled = {}

\* No task goes on with a revision older than the current one, except those the
\* reload has cancelled or, between its two halves, is about to.
OldTasksAreCancelled ==
    \A t \in Triggers :
      task[t] = "connected" /\ started[t] # revision => t \in cancelled \/ writer = "bumped"

\* What makes IdleCacheIsTrue inductive: an idle answer in the making is about
\* the revision it started with.
ScanIsHonest ==
    /\ idleAt <= revision + 1 /\ scanned <= revision
    /\ "list" \in outdated => "cache" \in outdated
    /\ loop = "read" /\ list = {} /\ scanned = revision /\ "list" \notin outdated
         => enabled = {}

\* The strengthening under which every step keeps the invariants above.
Inductive ==
    /\ TypeOK /\ InFlightIsTasks /\ IdleCacheIsTrue /\ OldTasksAreCancelled /\ ScanIsHonest

\* An enabled trigger is attempted again and again, whatever the cache said
\* before, even after a reload that failed, and however its earlier tasks ended.
\* Only permits can keep it waiting: try_acquire_owned has no queue, so nothing
\* gives a trigger its turn while others hold them all.
EnabledIsAttempted ==
    \A t \in Triggers :
      t \in enabled ~> (task[t] # "none" \/ t \notin enabled \/ ~ HasPermit(t))

\* What events.rs says: "One provider socket feeds every matching enabled
\* trigger."
OneSocketPerFeed ==
    \A t, u \in Sockets :
      (/\ task[t] = "connected" /\ task[u] = "connected"
       /\ {t, u} \cap cancelled = {} /\ FeedOf[t] = FeedOf[u])
      => t = u
=============================================================================
