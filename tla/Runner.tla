------------------------------- MODULE Runner -------------------------------
(***************************************************************************)
(* The run lifecycle: src-tauri/src/runner/mod.rs with the registry of     *)
(* in-flight runs in src-tauri/src/agents/active.rs.                       *)
(*                                                                         *)
(* A run is started by start_run (called from UI commands, the tray, the   *)
(* scheduler tick, file watchers and webhook threads, all concurrently) or *)
(* by start_pending_app_event_run (called only from the app-event loop).   *)
(* Every run executes on a thread of its own; cancel_run may come from any *)
(* other thread.  The database is one mutex around one SQLite connection,  *)
(* so each Db call is one atomic step and every pair of calls may be       *)
(* separated by the steps of other threads.                                *)
(***************************************************************************)
EXTENDS Naturals, FiniteSets

CONSTANTS
    Workflows,   \* workflow ids
    Runs,        \* pool of run ids; a Uuid is used once and never again
    Starters,    \* threads inside start_run
    AppLoop,     \* the one app-event loop, inside start_pending_app_event_run
    Cancellers,  \* threads inside cancel_run
    MaxNodes,    \* bound: nodes of a workflow graph
    MaxCrashes,  \* bound: process deaths in one behaviour
    NoWorkflow, NoRun

ASSUME RunnerConstants ==
    /\ MaxNodes \in Nat
    /\ MaxCrashes \in Nat
    /\ AppLoop \notin Starters
    /\ NoWorkflow \notin Workflows
    /\ NoRun \notin Runs

VARIABLES
    workflows,   \* rows of the workflows table
    status,      \* runs.status; "unused" before the INSERT, "deleted" after it
    wfOf,        \* runs.workflow_id
    appRun,      \* runs.trigger_kind = 'app' with a receipt
    registry,    \* keys of active::registry()
    cancelFlag,  \* RunControl.cancel of the run's control
    thread,      \* where the run's thread is inside execute_run
    total,       \* length of the topological order the thread computed
    done,        \* nodes whose step row is 'completed'
    begun,       \* history: how often execute_run got past "set running"
    errored,     \* history: execute_run returned Err
    asked,       \* history: runs for which cancel_run returned true
    review,      \* runs with a memory_reviews row
    starter,     \* what each starting thread has done so far
    canceller,   \* the run each cancel_run call has flagged, not yet marked
    recovered,   \* AppEventRuntime.recovered_interrupted_runs
    crashes

dbVars     == <<workflows, status, wfOf, appRun, review>>
threadVars == <<thread, total, done, begun, errored>>
vars == <<workflows, status, wfOf, appRun, registry, cancelFlag, thread,
          total, done, begun, errored, asked, review, starter, canceller,
          recovered, crashes>>

Callers == Starters \cup {AppLoop}

Statuses  == {"unused", "pending", "running", "completed", "failed",
              "cancelled", "deleted"}
Finished  == {"completed", "failed", "cancelled"}
ThreadPcs == {"none", "spawned", "loaded", "started", "loop", "step",
              "failing", "cancelling", "completed", "unwind"}

Idle == [pc |-> "idle", wf |-> NoWorkflow, run |-> NoRun]

Init ==
    /\ workflows = Workflows
    /\ status = [r \in Runs |-> "unused"]
    /\ wfOf = [r \in Runs |-> NoWorkflow]
    /\ appRun = [r \in Runs |-> FALSE]
    /\ registry = {}
    /\ cancelFlag = [r \in Runs |-> FALSE]
    /\ thread = [r \in Runs |-> "none"]
    /\ total = [r \in Runs |-> 0]
    /\ done = [r \in Runs |-> 0]
    /\ begun = [r \in Runs |-> 0]
    /\ errored = [r \in Runs |-> FALSE]
    /\ asked = {}
    /\ review = {}
    /\ starter = [s \in Callers |-> Idle]
    /\ canceller = [c \in Cancellers |-> NoRun]
    /\ recovered = FALSE
    /\ crashes = 0

-----------------------------------------------------------------------------
(* Registry and run table *)

\* active::has_workflow
HasWorkflow(w) == \E r \in registry : wfOf[r] = w

\* set_run_status: one unconditional UPDATE; no row, no effect.
SetStatus(r, s) ==
    status' = [status EXCEPT ![r] = IF @ = "deleted" THEN @ ELSE s]

-----------------------------------------------------------------------------
(* Starting *)

\* start_run, first half: the registry is consulted once.
StartCheck(s, w) ==
    /\ s \in Starters
    /\ starter[s].pc = "idle"
    /\ ~ HasWorkflow(w)
    /\ starter' = [starter EXCEPT ![s] = [pc |-> "checked", wf |-> w, run |-> NoRun]]
    /\ UNCHANGED <<dbVars, threadVars, registry, cancelFlag, asked, canceller,
                   recovered, crashes>>

\* enqueue_run: no workflow, no row.
EnqueueRun(s) ==
    /\ starter[s].pc = "checked"
    /\ s \in Starters
    /\ LET w == starter[s].wf IN
         \/ /\ w \notin workflows
            /\ starter' = [starter EXCEPT ![s] = Idle]
            /\ UNCHANGED <<status, wfOf>>
         \/ /\ w \in workflows
            /\ \E r \in Runs :
                 /\ status[r] = "unused"
                 /\ status' = [status EXCEPT ![r] = "pending"]
                 /\ wfOf' = [wfOf EXCEPT ![r] = w]
                 /\ starter' = [starter EXCEPT ![s] =
                                  [pc |-> "inserted", wf |-> w, run |-> r]]
    /\ UNCHANGED <<workflows, appRun, review, threadVars, registry, cancelFlag,
                   asked, canceller, recovered, crashes>>

\* promote_next_app_event, as far as the run table is concerned: the app-event
\* loop creates a pending run while the workflow's slot looks free.
PromoteAppEvent(w) ==
    /\ starter[AppLoop].pc = "idle"
    /\ recovered
    /\ w \in workflows
    /\ ~ HasWorkflow(w)
    /\ \E r \in Runs :
         /\ status[r] = "unused"
         /\ status' = [status EXCEPT ![r] = "pending"]
         /\ wfOf' = [wfOf EXCEPT ![r] = w]
         /\ appRun' = [appRun EXCEPT ![r] = TRUE]
         /\ starter' = [starter EXCEPT ![AppLoop] =
                          [pc |-> "listed", wf |-> w, run |-> r]]
    /\ UNCHANGED <<workflows, review, threadVars, registry, cancelFlag, asked,
                   canceller, recovered, crashes>>

\* list_pending_app_event_runs and the check in drain_queue: a run promoted
\* earlier that no thread took.
RelistPending(r) ==
    /\ starter[AppLoop].pc = "idle"
    /\ recovered
    /\ appRun[r] /\ status[r] = "pending"
    /\ ~ HasWorkflow(wfOf[r])
    /\ starter' = [starter EXCEPT ![AppLoop] =
                     [pc |-> "listed", wf |-> wfOf[r], run |-> r]]
    /\ UNCHANGED <<dbVars, threadVars, registry, cancelFlag, asked, canceller,
                   recovered, crashes>>

\* start_pending_app_event_run, first check: busy again means "retry later".
PendingSlotCheck ==
    /\ starter[AppLoop].pc = "listed"
    /\ starter' = [starter EXCEPT ![AppLoop] =
                     IF HasWorkflow(@.wf) THEN Idle ELSE [@ EXCEPT !.pc = "checked"]]
    /\ UNCHANGED <<dbVars, threadVars, registry, cancelFlag, asked, canceller,
                   recovered, crashes>>

\* start_pending_app_event_run, second check: the row must still be pending.
PendingStatusCheck ==
    /\ starter[AppLoop].pc = "checked"
    /\ starter' = [starter EXCEPT ![AppLoop] =
                     IF status[@.run] = "pending" THEN [@ EXCEPT !.pc = "inserted"]
                                                  ELSE Idle]
    /\ UNCHANGED <<dbVars, threadVars, registry, cancelFlag, asked, canceller,
                   recovered, crashes>>

\* spawn_run_execution: register a fresh control, then spawn the thread.
Register(s) ==
    /\ starter[s].pc = "inserted"
    /\ LET r == starter[s].run IN
         /\ registry' = registry \cup {r}
         /\ cancelFlag' = [cancelFlag EXCEPT ![r] = FALSE]
         /\ thread' = [thread EXCEPT ![r] = "spawned"]
         /\ total' = [total EXCEPT ![r] = 0]
         /\ done' = [done EXCEPT ![r] = 0]
         /\ errored' = [errored EXCEPT ![r] = FALSE]
    /\ starter' = [starter EXCEPT ![s] = Idle]
    /\ UNCHANGED <<dbVars, begun, asked, canceller, recovered, crashes>>

-----------------------------------------------------------------------------
(* The run's thread: execute_run *)

threadOnly == <<workflows, wfOf, appRun, registry, asked, starter, canceller,
                recovered, crashes>>

\* get_workflow: the graph read here is the one the run executes, of any length.
LoadWorkflow(r) ==
    /\ thread[r] = "spawned"
    /\ \/ /\ wfOf[r] \in workflows
          /\ \E n \in 0..MaxNodes : total' = [total EXCEPT ![r] = n]
          /\ thread' = [thread EXCEPT ![r] = "loaded"]
          /\ UNCHANGED errored
       \/ /\ wfOf[r] \notin workflows
          /\ thread' = [thread EXCEPT ![r] = "unwind"]
          /\ errored' = [errored EXCEPT ![r] = TRUE]
          /\ UNCHANGED total
    /\ UNCHANGED <<threadOnly, status, review, cancelFlag, done, begun>>

MarkRunning(r) ==
    /\ thread[r] = "loaded"
    /\ SetStatus(r, "running")
    /\ thread' = [thread EXCEPT ![r] = "started"]
    /\ begun' = [begun EXCEPT ![r] = @ + 1]
    /\ UNCHANGED <<threadOnly, review, cancelFlag, total, done, errored>>

\* "Workflow has no nodes" fails the run; otherwise the node loop is entered.
EnterLoop(r) ==
    /\ thread[r] = "started"
    /\ IF total[r] = 0
         THEN /\ SetStatus(r, "failed")
              /\ thread' = [thread EXCEPT ![r] = "unwind"]
         ELSE /\ thread' = [thread EXCEPT ![r] = "loop"]
              /\ UNCHANGED status
    /\ UNCHANGED <<threadOnly, review, cancelFlag, total, done, begun, errored>>

\* Top of the loop, cancelled: mark and return.
ObserveCancel(r) ==
    /\ thread[r] = "loop"
    /\ done[r] < total[r]
    /\ cancelFlag[r]
    /\ SetStatus(r, "cancelled")
    /\ thread' = [thread EXCEPT ![r] = "unwind"]
    /\ UNCHANGED <<threadOnly, review, cancelFlag, total, done, begun, errored>>

BeginStepPastEnd(r) ==
    /\ thread[r] = "loop"
    /\ done[r] <= total[r]
    /\ ~ cancelFlag[r]
    /\ thread' = [thread EXCEPT ![r] = "step"]
    /\ UNCHANGED <<threadOnly, status, review, cancelFlag, total, done, begun, errored>>

BeginStep(r) ==
    /\ thread[r] = "loop"
    /\ done[r] < total[r]
    /\ ~ cancelFlag[r]
    /\ thread' = [thread EXCEPT ![r] = "step"]
    /\ UNCHANGED <<threadOnly, status, review, cancelFlag, total, done, begun, errored>>

\* The step returned Ok: insert_step 'completed', or Err when the run's row is
\* gone.  A step that does not look at the control returns Ok even when the
\* run was cancelled meanwhile.
StepCompleted(r) ==
    /\ thread[r] = "step"
    /\ IF status[r] = "deleted"
         THEN /\ thread' = [thread EXCEPT ![r] = "unwind"]
              /\ errored' = [errored EXCEPT ![r] = TRUE]
              /\ UNCHANGED done
         ELSE /\ done' = [done EXCEPT ![r] = @ + 1]
              /\ thread' = [thread EXCEPT ![r] = "loop"]
              /\ UNCHANGED errored
    /\ UNCHANGED <<threadOnly, status, review, cancelFlag, total, begun>>

\* The Input node's own script reached its deadline (or its stdin broke):
\* kill_child goes through RunControl::request_cancel and raises the run's flag,
\* and the node still returns Ok.
InputScriptTimedOut(r) ==
    /\ thread[r] = "step"
    /\ status[r] # "deleted"
    /\ cancelFlag' = [cancelFlag EXCEPT ![r] = TRUE]
    /\ done' = [done EXCEPT ![r] = @ + 1]
    /\ thread' = [thread EXCEPT ![r] = "loop"]
    /\ UNCHANGED <<threadOnly, status, review, total, begun, errored>>

\* The step returned an error: insert_step 'failed' first, the status later.
\* A step that timed out raised the flag on its way, as above.
StepFailed(r) ==
    /\ thread[r] = "step"
    /\ IF status[r] = "deleted"
         THEN /\ thread' = [thread EXCEPT ![r] = "unwind"]
              /\ errored' = [errored EXCEPT ![r] = TRUE]
         ELSE /\ thread' = [thread EXCEPT ![r] = "failing"]
              /\ UNCHANGED errored
    /\ \E b \in {cancelFlag[r], TRUE} : cancelFlag' = [cancelFlag EXCEPT ![r] = b]
    /\ UNCHANGED <<threadOnly, status, review, total, done, begun>>

\* The step saw the cancel flag and returned "__cancelled__".
StepCancelled(r) ==
    /\ thread[r] = "step"
    /\ cancelFlag[r]
    /\ IF status[r] = "deleted"
         THEN /\ thread' = [thread EXCEPT ![r] = "unwind"]
              /\ errored' = [errored EXCEPT ![r] = TRUE]
         ELSE /\ thread' = [thread EXCEPT ![r] = "cancelling"]
              /\ UNCHANGED errored
    /\ UNCHANGED <<threadOnly, status, review, cancelFlag, total, done, begun>>

MarkFailed(r) ==
    /\ thread[r] = "failing"
    /\ SetStatus(r, "failed")
    /\ thread' = [thread EXCEPT ![r] = "unwind"]
    /\ UNCHANGED <<threadOnly, review, cancelFlag, total, done, begun, errored>>

MarkCancelled(r) ==
    /\ thread[r] = "cancelling"
    /\ SetStatus(r, "cancelled")
    /\ thread' = [thread EXCEPT ![r] = "unwind"]
    /\ UNCHANGED <<threadOnly, review, cancelFlag, total, done, begun, errored>>

MarkCompletedEarly(r) ==
    /\ thread[r] = "loop"
    /\ SetStatus(r, "completed")
    /\ thread' = [thread EXCEPT ![r] = "completed"]
    /\ UNCHANGED <<threadOnly, review, cancelFlag, total, done, begun, errored>>

\* The loop is over.  The flag is not read again.
MarkCompleted(r) ==
    /\ thread[r] = "loop"
    /\ done[r] = total[r]
    /\ SetStatus(r, "completed")
    /\ thread' = [thread EXCEPT ![r] = "completed"]
    /\ UNCHANGED <<threadOnly, review, cancelFlag, total, done, begun, errored>>

\* schedule_memory_review: the job row is written only when the table still
\* says completed and the settings opt in.
ScheduleReview(r) ==
    /\ thread[r] = "completed"
    /\ \E optIn \in BOOLEAN :
         review' = IF optIn /\ status[r] = "completed" THEN review \cup {r} ELSE review
    /\ thread' = [thread EXCEPT ![r] = "unwind"]
    /\ UNCHANGED <<threadOnly, status, cancelFlag, total, done, begun, errored>>

\* Any Db call or emit of execute_run may fail and is propagated with `?`.
ExecError(r) ==
    /\ thread[r] \in ThreadPcs \ {"none", "unwind"}
    /\ thread' = [thread EXCEPT ![r] = "unwind"]
    /\ errored' = [errored EXCEPT ![r] = TRUE]
    /\ UNCHANGED <<threadOnly, status, review, cancelFlag, total, done, begun>>

UnregisterOnSuccess(r) ==
    /\ thread[r] = "unwind"
    /\ thread' = [thread EXCEPT ![r] = "none"]
    /\ registry' = IF errored[r] THEN registry ELSE registry \ {r}
    /\ UNCHANGED <<dbVars, cancelFlag, total, done, begun, errored, asked,
                   starter, canceller, recovered, crashes>>

UnregisterNever(r) ==
    /\ thread[r] = "unwind"
    /\ UNCHANGED vars

\* active::unregister after execute_run, whatever it returned.
Unregister(r) ==
    /\ thread[r] = "unwind"
    /\ thread' = [thread EXCEPT ![r] = "none"]
    /\ registry' = registry \ {r}
    /\ UNCHANGED <<dbVars, cancelFlag, total, done, begun, errored, asked,
                   starter, canceller, recovered, crashes>>

-----------------------------------------------------------------------------
(* Cancelling, deleting, crashing *)

\* active::cancel: flag the control of a registered run and kill its child.
RequestCancel(c, r) ==
    /\ canceller[c] = NoRun
    /\ r \in registry
    /\ cancelFlag' = [cancelFlag EXCEPT ![r] = TRUE]
    /\ asked' = asked \cup {r}
    /\ canceller' = [canceller EXCEPT ![c] = r]
    /\ UNCHANGED <<dbVars, threadVars, registry, starter, recovered, crashes>>

\* The rest of cancel_run: mark the row, whatever it says by now.
MarkCancelRequested(c) ==
    /\ canceller[c] # NoRun
    /\ SetStatus(canceller[c], "cancelled")
    /\ canceller' = [canceller EXCEPT ![c] = NoRun]
    /\ UNCHANGED <<workflows, wfOf, appRun, review, threadVars, registry,
                   cancelFlag, asked, starter, recovered, crashes>>

\* delete_workflow: one transaction over the workflow and all of its runs.
DeleteWorkflow(w) ==
    /\ w \in workflows
    /\ workflows' = workflows \ {w}
    /\ status' = [r \in Runs |-> IF status[r] # "unused" /\ wfOf[r] = w
                                   THEN "deleted" ELSE status[r]]
    /\ review' = {r \in review : wfOf[r] # w}
    /\ UNCHANGED <<wfOf, appRun, threadVars, registry, cancelFlag, asked,
                   starter, canceller, recovered, crashes>>

\* The process dies and is started again: SQLite stays, memory goes.
Crash ==
    /\ crashes < MaxCrashes
    /\ crashes' = crashes + 1
    /\ registry' = {}
    /\ cancelFlag' = [r \in Runs |-> FALSE]
    /\ thread' = [r \in Runs |-> "none"]
    /\ starter' = [s \in Callers |-> Idle]
    /\ canceller' = [c \in Cancellers |-> NoRun]
    /\ recovered' = FALSE
    /\ UNCHANGED <<dbVars, total, done, begun, errored, asked>>

RecoverEverything ==
    /\ ~ recovered
    /\ recovered' = TRUE
    /\ status' = [r \in Runs |-> IF appRun[r] /\ status[r] # "deleted"
                                   THEN "failed" ELSE status[r]]
    /\ UNCHANGED <<workflows, wfOf, appRun, review, threadVars, registry,
                   cancelFlag, asked, starter, canceller, crashes>>

RecoverByRequeueing ==
    /\ ~ recovered
    /\ recovered' = TRUE
    /\ status' = [r \in Runs |-> IF appRun[r] /\ status[r] = "running"
                                   THEN "pending" ELSE status[r]]
    /\ UNCHANGED <<workflows, wfOf, appRun, review, threadVars, registry,
                   cancelFlag, asked, starter, canceller, crashes>>

RecoverNothing ==
    /\ ~ recovered
    /\ recovered' = TRUE
    /\ UNCHANGED <<dbVars, threadVars, registry, cancelFlag, asked, starter,
                   canceller, crashes>>

\* fail_interrupted_app_event_runs, once per process, before the first drain.
RecoverInterrupted ==
    /\ ~ recovered
    /\ recovered' = TRUE
    /\ status' = [r \in Runs |-> IF appRun[r] /\ status[r] = "running"
                                   THEN "failed" ELSE status[r]]
    /\ UNCHANGED <<workflows, wfOf, appRun, review, threadVars, registry,
                   cancelFlag, asked, starter, canceller, crashes>>

-----------------------------------------------------------------------------
ThreadStep(r) ==
    \/ LoadWorkflow(r)   \/ MarkRunning(r)   \/ EnterLoop(r)
    \/ ObserveCancel(r)  \/ BeginStep(r)     \/ StepCompleted(r)
    \/ InputScriptTimedOut(r)                \/ StepFailed(r)
    \/ StepCancelled(r)  \/ MarkFailed(r)    \/ MarkCancelled(r)
    \/ MarkCompleted(r)  \/ ScheduleReview(r)
    \/ ExecError(r)      \/ Unregister(r)

CallerStep(s) ==
    \/ \E w \in Workflows : StartCheck(s, w)
    \/ EnqueueRun(s)
    \/ Register(s)

AppLoopStep ==
    \/ \E w \in Workflows : PromoteAppEvent(w)
    \/ \E r \in Runs : RelistPending(r)
    \/ PendingSlotCheck
    \/ PendingStatusCheck
    \/ RecoverInterrupted

CancelStep(c) ==
    \/ \E r \in Runs : RequestCancel(c, r)
    \/ MarkCancelRequested(c)

Next ==
    \/ \E s \in Callers : CallerStep(s)
    \/ AppLoopStep
    \/ \E r \in Runs : ThreadStep(r)
    \/ \E c \in Cancellers : CancelStep(c)
    \/ \E w \in Workflows : DeleteWorkflow(w)
    \/ Crash

\* A spawned thread keeps running until it waits for a node, and a call that
\* got past its first half finishes.  Nothing makes a node end: the shell and
\* git helpers wait for their command without a deadline and without looking
\* at the flag, and an agent's pipes can block.
Fairness ==
    /\ \A r \in Runs : WF_vars(thread[r] # "step" /\ ThreadStep(r))
    /\ \A c \in Cancellers : WF_vars(MarkCancelRequested(c))
    /\ WF_vars(RecoverInterrupted)

Spec == Init /\ [][Next]_vars
FairSpec == Spec /\ Fairness

-----------------------------------------------------------------------------
(* Properties *)

\* Every variable has its type; in particular no run counts more completed
\* steps than its graph has nodes.
TypeOK ==
    /\ workflows \subseteq Workflows
    /\ status \in [Runs -> Statuses]
    /\ wfOf \in [Runs -> Workflows \cup {NoWorkflow}]
    /\ appRun \in [Runs -> BOOLEAN]
    /\ registry \subseteq Runs
    /\ cancelFlag \in [Runs -> BOOLEAN]
    /\ thread \in [Runs -> ThreadPcs]
    /\ total \in [Runs -> 0..MaxNodes]
    /\ done \in [Runs -> 0..MaxNodes]
    /\ begun \in [Runs -> Nat]
    /\ errored \in [Runs -> BOOLEAN]
    /\ asked \subseteq Runs
    /\ review \subseteq Runs
    /\ starter \in [Callers -> [pc : {"idle", "listed", "checked", "inserted"},
                                wf : Workflows \cup {NoWorkflow},
                                run : Runs \cup {NoRun}]]
    /\ canceller \in [Cancellers -> Runs \cup {NoRun}]
    /\ recovered \in BOOLEAN
    /\ crashes \in 0..MaxCrashes

\* The registry is exactly the set of runs with a live thread: whatever way
\* execute_run ends (Ok, Err, deleted workflow) and whoever cancels meanwhile,
\* no entry leaks (it would block the workflow for good) and no thread runs
\* unregistered (nobody could cancel it).
RegistryIsLiveThreads == registry = {r \in Runs : thread[r] # "none"}

\* A run executes its steps at most once: neither the re-listing of pending
\* app-event runs, nor a failed launch, nor a crash between promotion, launch
\* and the 'running' mark, executes the same run a second time.
ExecutedOnce == \A r \in Runs : begun[r] <= 1

\* A row that says completed belongs to a run that completed every node of the
\* graph it loaded, and the same holds of every run a memory review was
\* scheduled for, also when a late cancel_run overwrote the status since.
CompletedRanEveryNode ==
    \A r \in Runs : status[r] = "completed" \/ r \in review =>
                      total[r] > 0 /\ done[r] = total[r]

\* After recovery no app-event run claims to be running without a thread,
\* except one whose thread hit a database or event error on its way.
NoPhantomAppRun ==
    recovered => \A r \in Runs : appRun[r] /\ status[r] = "running"
                                   => r \in registry \/ errored[r]

\* The parts of the inductive invariant behind the properties above.

\* A thread belongs to a row, and starts from a run that never ran before.
ThreadsOfRows ==
    \A r \in Runs :
      /\ thread[r] # "none" => status[r] # "unused"
      /\ thread[r] \in {"spawned", "loaded"} => begun[r] = 0
      /\ thread[r] \in {"started", "loop", "step", "completed"} => begun[r] > 0
      /\ status[r] \in {"unused", "pending"} => begun[r] = 0
      /\ status[r] = "unused" => ~ appRun[r]

\* Where a thread is bounds the nodes it has completed.
Progress ==
    \A r \in Runs :
      /\ thread[r] \in {"spawned", "loaded", "started"} => done[r] = 0
      /\ thread[r] = "loop" => total[r] > 0 /\ done[r] <= total[r]
      /\ thread[r] = "step" => done[r] < total[r]

\* A starting thread past its INSERT holds a run of its own that nobody else
\* launches.
StartersHoldOwnRuns ==
    /\ \A s \in Starters :
         /\ starter[s].pc # "listed"
         /\ starter[s].pc = "inserted" =>
              LET r == starter[s].run IN
              /\ r \in Runs /\ ~ appRun[r] /\ status[r] # "unused"
              /\ thread[r] = "none" /\ begun[r] = 0
    /\ \A s, t \in Starters :
         starter[s].pc = "inserted" /\ starter[t].pc = "inserted" /\ s # t
           => starter[s].run # starter[t].run

\* What the app-event loop knows of the run it is about to launch.
AppLoopHoldsFreshRun ==
    LET a == starter[AppLoop] IN
    a.pc # "idle" =>
      /\ a.run \in Runs /\ appRun[a.run] /\ status[a.run] # "unused"
      /\ wfOf[a.run] = a.wf
      /\ a.pc \in {"checked", "inserted"} => thread[a.run] = "none"
      /\ a.pc = "inserted" => begun[a.run] = 0

\* A completed outcome comes from a thread that is past its loop.
OutcomeAfterLoop ==
    \A r \in Runs :
      /\ status[r] = "completed" \/ r \in review =>
           begun[r] > 0 /\ thread[r] \in {"none", "completed", "unwind"}
      /\ thread[r] = "completed" => total[r] > 0 /\ done[r] = total[r]
      /\ thread[r] = "completed" \/ (thread[r] = "unwind" /\ ~ errored[r])
           => status[r] # "running"

\* The conjunction the run checks and RunnerProofs proves inductive.
Inductive ==
    /\ TypeOK
    /\ RegistryIsLiveThreads
    /\ ExecutedOnce
    /\ ThreadsOfRows
    /\ Progress
    /\ StartersHoldOwnRuns
    /\ AppLoopHoldsFreshRun
    /\ OutcomeAfterLoop
    /\ CompletedRanEveryNode
    /\ NoPhantomAppRun

\* Nobody works on the run any more: no thread, no launch, no cancel under way.
Settled(r) ==
    /\ thread[r] = "none"
    /\ \A s \in Callers : starter[s].run # r
    /\ \A c \in Cancellers : canceller[c] # r

\* Once a finished run is settled its outcome is history: no recovery, restart,
\* late cancel or re-listing changes it, short of deleting its workflow.
SettledIsFinal ==
    [][\A r \in Runs : Settled(r) /\ status[r] \in Finished
                         => status'[r] \in {status[r], "deleted"}]_vars

\* A run that was launched gives its slot back, unless it stays in one of its
\* nodes for ever: no path of execute_run around the nodes keeps it.
SlotIsReleased ==
    \A r \in Runs :
      []<>(thread[r] # "step") => (r \in registry ~> r \notin registry)

\* What app-events.md says of the slot.
SingleActiveRun ==
    \A r1, r2 \in registry : wfOf[r1] = wfOf[r2] => r1 = r2

\* What the error text "Cancelled by user" says of a cancelled run.
CancelledByUser == \A r \in Runs : status[r] = "cancelled" => r \in asked
=============================================================================
