--------------------------- MODULE ManagedRuntime ---------------------------
(***************************************************************************)
(* The supervisor of managed runtimes (agents/managed_runtime.rs): launches*)
(* of one runtime in one profile (one RuntimeKey), each with its entry, its*)
(* process tree, its reader threads and its monitor thread, and the client *)
(* that holds the handle.  The two deadlines are passed when the model says*)
(* so; a wait with a timeout may end early.                                *)
(***************************************************************************)
EXTENDS Naturals, Sequences

CONSTANTS Launches,     \* launches one after the other or at once, under one key
          Probe,        \* RuntimeReadinessProbe of each: "line" or "http"
          Typed,        \* launches whose stdout is TypedFramesFailClosed
          Escapes,      \* launches that leave a descendant outside the process group
          StreamCap,    \* OUTPUT_CHANNEL_CAPACITY
          FrameCap,     \* MAX_BUFFERED_STDOUT_FRAMES
          MaxFrames,    \* bound, by launch: its data frames
          Noise,        \* bound, by launch: the other frames it may write
          Timed,        \* bound, by launch: the deadlines that may pass
          Cancels,      \* bound: launches whose caller may cancel
          Flaws         \* what may be wrong with a request

VARIABLES launcher, answer,  \* the thread in launch() or the client with the handle; launch's result
          entries,           \* SupervisorInner.entries: the launch under the key
          life, termKind, failure, \* RuntimeEntryState
          stopFor,           \* stop_reason
          frames,            \* RuntimeEntryState.stdout
          secret,            \* RuntimeEntry.opencode_password is still there
          stream,            \* the channel from the readers to the monitor
          tree, exit,        \* the process group and the leader's status
          monitor, verdict,  \* the monitor thread, and what it will finish with
          cancelled, passed, \* the caller's cancellation; the deadlines that have passed
          sent, got          \* history: data frames written and read

clientVars == <<launcher, answer, entries>>
entryVars == <<life, termKind, failure, stopFor, frames, secret>>
procVars == <<stream, tree, exit>>
monVars == <<monitor, verdict>>
vars == <<clientVars, entryVars, procVars, monVars, cancelled, passed, sent, got>>

None == "None"
Terminal == {"Failed", "Exited"}
Frame(k, n) == <<k, n>>         \* kinds: ready, data, oversized, stderr
Data(f) == f[1] = "data"

Init ==
  /\ launcher = [l \in Launches |-> "idle"] /\ answer = [l \in Launches |-> None]
  /\ entries = {}
  /\ life = [l \in Launches |-> "Starting"] /\ termKind = answer /\ failure = answer
  /\ stopFor = answer /\ frames = [l \in Launches |-> <<>>]
  /\ secret = [l \in Launches |-> Probe[l] = "http"]
  /\ stream = frames /\ tree = [l \in Launches |-> "none"] /\ exit = answer
  /\ monitor = [l \in Launches |-> "none"]
  /\ verdict = [l \in Launches |-> <<None, None, None>>]
  /\ cancelled = [l \in Launches |-> FALSE] /\ passed = [l \in Launches |-> {}]
  /\ sent = [l \in Launches |-> 0] /\ got = frames

Put(f, l, v) == [f EXCEPT ![l] = v]
RequestStop(l, r) == stopFor' = IF stopFor[l] = None THEN Put(stopFor, l, r) ELSE stopFor

(***************************************************************************)
(* launch().                                                               *)
(***************************************************************************)
\* Each check names the flaws it refuses; the first that fails decides.
ValidateSelection(q) == q \in {"profile_moved", "profile_inactive", "other_binding"}
ValidateExecutable(q) == q \in {"not_absolute", "symlink", "not_canonical"}
ValidateBounds(q) == q \in {"args", "timeouts", "probe", "hook"}
ValidateWorkingDirectory(q) == q = "working_directory"
ValidatePathExtensions(q) == q \in {"path_count", "path_relative", "path_repeated"}
ValidateEnvironment(q) == q \in {"env_key", "env_forbidden", "env_of_profile"}
PrepareReadiness(q) == q = "port_taken"

LaunchError(q) ==
  CASE ValidateSelection(q) \/ ValidateExecutable(q) -> "InvalidSelection"
    [] ValidateBounds(q) \/ ValidateWorkingDirectory(q) \/ ValidatePathExtensions(q) -> "InvalidLaunch"
    [] ValidateEnvironment(q) -> "EnvironmentRejected"
    [] PrepareReadiness(q) -> "ReadinessPortOccupied"
    [] q = "profile_leased" -> "InvalidSelection"   \* acquire_supervisor_lease
    [] OTHER -> None

Returns(l, code) == launcher' = Put(launcher, l, "gone") /\ answer' = Put(answer, l, code)

Launch(l) ==
  /\ launcher[l] = "idle"
  /\ \E q \in Flaws \cup {"none"} :
       LET code == IF cancelled[l] THEN "StartupCancelled" ELSE LaunchError(q) IN
       \/ code # None /\ Returns(l, code)
       \/ code = None /\ launcher' = Put(launcher, l, "valid") /\ UNCHANGED answer
  /\ UNCHANGED <<entries, entryVars, procVars, monVars, cancelled, passed, sent, got>>

\* Mutant: the retain looks at nothing, a present entry is replaced.
ReserveKeyAlways(l) ==
  /\ launcher[l] = "valid"
  /\ entries' = {l} /\ launcher' = Put(launcher, l, "reserved") /\ UNCHANGED answer
  /\ UNCHANGED <<entryVars, procVars, monVars, cancelled, passed, sent, got>>

\* Under the lock: ended entries leave the map, a live one refuses the launch.
ReserveKey(l) ==
  /\ launcher[l] = "valid"
  /\ LET live == {e \in entries : life[e] \notin Terminal} IN
     \/ /\ live # {} /\ entries' = live /\ Returns(l, "DuplicateLaunch")
     \/ /\ live = {} /\ entries' = {l}
        /\ launcher' = Put(launcher, l, "reserved") /\ UNCHANGED answer
  /\ UNCHANGED <<entryVars, procVars, monVars, cancelled, passed, sent, got>>

RemoveEntry(l) == entries' = entries \ {l}      \* only if it is still this one (ptr_eq)

Spawn(l) ==
  /\ launcher[l] = "reserved"
  /\ tree' = Put(tree, l, "running")
  /\ monitor' = Put(monitor, l, "loop") /\ launcher' = Put(launcher, l, "waiting")
  /\ UNCHANGED <<answer, entries, life, termKind, failure, stopFor, frames, secret, stream,
                 exit, verdict, cancelled, passed, sent, got>>

SpawnFails(l) ==
  /\ launcher[l] = "reserved"
  /\ RemoveEntry(l) /\ Returns(l, "SpawnFailed")
  /\ UNCHANGED <<entryVars, procVars, monVars, cancelled, passed, sent, got>>

\* validated_startup_wait: Ready hands the handle out.
StartupReady(l) ==
  /\ launcher[l] = "waiting" /\ life[l] = "Ready"
  /\ launcher' = Put(launcher, l, "handle") /\ answer' = Put(answer, l, "ok")
  /\ UNCHANGED <<entries, entryVars, procVars, monVars, cancelled, passed, sent, got>>

\* ... an ended entry or the end of the wait stops what was started.
StartupFails(l) ==
  /\ launcher[l] = "waiting"
  /\ LET code == IF life[l] \in Terminal
                 THEN IF failure[l] = None THEN "StartupFailed" ELSE failure[l]
                 ELSE "StartupTimeout" IN
     /\ life[l] \in Terminal \/ ("startup" \in passed[l] /\ life[l] # "Ready")
     /\ RequestStop(l, CASE code = "StartupCancelled" -> "Cancelled"
                         [] code = "StartupTimeout" -> "StartupTimeout"
                         [] OTHER -> "Requested")
     /\ answer' = Put(answer, l, code)
  /\ launcher' = Put(launcher, l, "leaving")
  /\ UNCHANGED <<entries, life, termKind, failure, frames, secret, procVars, monVars,
                 cancelled, passed, sent, got>>

(***************************************************************************)
(* The handle.                                                             *)
(***************************************************************************)
\* Mutant: a dropped handle asks for no stop.
HandleLeaves(l, drop) ==
  /\ launcher[l] = "handle" /\ drop
  /\ launcher' = Put(launcher, l, "leaving")
  /\ UNCHANGED <<answer, entries, entryVars, procVars, monVars, cancelled, passed, sent, got>>

\* stop(), and Drop.
HandleStops(l, drop) ==
  /\ launcher[l] = "handle" /\ (drop \/ stopFor[l] = None)
  /\ RequestStop(l, "Requested")
  /\ launcher' = IF drop THEN Put(launcher, l, "leaving") ELSE launcher
  /\ UNCHANGED <<answer, entries, life, termKind, failure, frames, secret, procVars,
                 monVars, cancelled, passed, sent, got>>

\* wait_terminal: until the entry has ended, or the timeout.
Leaves(l) ==
  /\ launcher[l] = "leaving"
  /\ launcher' = Put(launcher, l, "gone")
  /\ UNCHANGED <<answer, entries, entryVars, procVars, monVars, cancelled, passed, sent, got>>

TakePassword(l) ==
  /\ launcher[l] = "handle" /\ secret[l]
  /\ secret' = Put(secret, l, FALSE)
  /\ UNCHANGED <<clientVars, life, termKind, failure, stopFor, frames, procVars, monVars,
                 cancelled, passed, sent, got>>

ReadStdoutFrame(l) ==
  /\ launcher[l] = "handle" /\ frames[l] # <<>>
  /\ got' = IF Data(Head(frames[l])) THEN Put(got, l, Append(got[l], Head(frames[l]))) ELSE got
  /\ frames' = Put(frames, l, Tail(frames[l]))
  /\ UNCHANGED <<clientVars, life, termKind, failure, stopFor, secret, procVars, monVars,
                 cancelled, passed, sent>>

\* write_stdin_frame holds the stdin lock until the runtime has read the frame, or is dead.
WriteStdinFrame(l) ==
  /\ launcher[l] = "handle" /\ life[l] = "Ready"
  /\ launcher' = Put(launcher, l, "writing")
  /\ UNCHANGED <<answer, entries, entryVars, procVars, monVars, cancelled, passed, sent, got>>

WriteEnds(l) ==
  /\ launcher[l] = "writing" /\ launcher' = Put(launcher, l, "handle")
  /\ UNCHANGED <<answer, entries, entryVars, procVars, monVars, cancelled, passed, sent, got>>

(***************************************************************************)
(* The monitor: one event of a stream.                                     *)
(***************************************************************************)
\* Mutant: a full queue drops its oldest frame whatever the policy.
PushStdoutDrops(l, f) == [ok |-> TRUE, q |-> Append(IF Len(frames[l]) = FrameCap
                                                    THEN Tail(frames[l]) ELSE frames[l], f)]

PushStdout(l, f) ==
  IF Len(frames[l]) < FrameCap THEN [ok |-> TRUE, q |-> Append(frames[l], f)]
  ELSE IF l \in Typed THEN [ok |-> FALSE, q |-> frames[l]]
  ELSE [ok |-> TRUE, q |-> Append(Tail(frames[l]), f)]

\* handle_stream_event; probing: the readiness probe is given.
HandleStreamEvent(l, probing) ==
  LET f == Head(stream[l])
      ready == probing /\ Probe[l] = "line" /\ f[1] = "ready" /\ life[l] = "Starting"
      push == PushStdout(l, f)
      kept == f[1] \notin {"oversized", "stderr"}
  IN /\ life' = IF ready THEN Put(life, l, "Ready") ELSE life
     /\ frames' = IF kept THEN Put(frames, l, push.q) ELSE frames
     /\ stream' = Put(stream, l, Tail(stream[l]))

\* What it returns: an output that the policy cannot hold.
StreamFailure(l) ==
  LET f == Head(stream[l]) IN
  IF \/ f[1] = "oversized" /\ l \in Typed
     \/ f[1] \notin {"oversized", "stderr"} /\ ~PushStdout(l, f).ok
  THEN "OutputLimitExceeded" ELSE None

\* finish_failed_process: the tree is forced down, its output drained, the entry ended.
FailProcess(l, code, kind) ==
  /\ tree' = Put(tree, l, "dead")
  /\ monitor' = Put(monitor, l, "drain")
  /\ verdict' = Put(verdict, l, <<"Failed", kind, code>>)

MonitorEvent(l) ==
  /\ monitor[l] = "loop" /\ stream[l] # <<>>
  /\ HandleStreamEvent(l, TRUE)
  /\ \/ /\ StreamFailure(l) = None /\ UNCHANGED <<tree, monVars>>
     \/ /\ StreamFailure(l) # None
        /\ FailProcess(l, StreamFailure(l), IF life'[l] = "Ready" THEN "Crash" ELSE "StartupFailed")
  /\ UNCHANGED <<clientVars, termKind, failure, stopFor, secret, exit, cancelled, passed, sent, got>>

\* authenticated_opencode_health_check and what the loop makes of it.
PollHttp(l) ==
  /\ monitor[l] = "loop" /\ stream[l] = <<>> /\ Probe[l] = "http" /\ life[l] = "Starting"
  /\ \/ /\ monitor' = Put(monitor, l, "looks") /\ UNCHANGED <<life, verdict, tree>> \* NotListening
     \/ /\ tree[l] = "running" /\ life' = Put(life, l, "Ready")
        /\ monitor' = Put(monitor, l, "looks") /\ UNCHANGED <<tree, verdict>>
     \/ /\ FailProcess(l, "ReadinessHandshakeFailed", "StartupFailed") /\ UNCHANGED life \* Rejected
  /\ UNCHANGED <<clientVars, termKind, failure, stopFor, frames, secret, stream, exit, cancelled,
                 passed, sent, got>>

NoProbe(l) ==
  /\ monitor[l] = "loop" /\ stream[l] = <<>> /\ (Probe[l] = "line" \/ life[l] # "Starting")
  /\ monitor' = Put(monitor, l, "looks")
  /\ UNCHANGED <<clientVars, entryVars, procVars, verdict, cancelled, passed, sent, got>>

\* Mutant: the reason seen last replaces the first.
FirstReasonLast(l) ==
  CASE "runtime" \in passed[l] -> "Deadline"
    [] "startup" \in passed[l] /\ life[l] = "Starting" -> "StartupTimeout"
    [] cancelled[l] -> "Cancelled"
    [] OTHER -> stopFor[l]

\* The reason in force after the loop's three requests, each a compare_exchange with None.
FirstReason(l) ==
  CASE stopFor[l] # None -> stopFor[l]
    [] cancelled[l] -> "Cancelled"
    [] "startup" \in passed[l] /\ life[l] = "Starting" -> "StartupTimeout"
    [] "runtime" \in passed[l] -> "Deadline"
    [] OTHER -> None

\* The outcome of stop_process.
StopOutcome(r, starting, graceful) ==
  CASE r = "Requested" -> <<"Exited", IF graceful THEN "GracefulStop" ELSE "ForcedStop", None>>
    [] r = "Cancelled" /\ starting -> <<"Failed", "StartupFailed", "StartupCancelled">>
    [] r = "Cancelled" /\ ~starting -> <<"Exited", "Cancelled", None>>
    [] r = "StartupTimeout" -> <<"Failed", "StartupFailed", "StartupTimeout">>
    [] r = "Deadline" -> <<"Failed", "DeadlineExceeded", "DeadlineExceeded">>

\* With a reason: set_stopping; without one the loop looks at the process.
MonitorLooks(l) ==
  /\ monitor[l] = "looks"
  /\ stopFor' = Put(stopFor, l, FirstReason(l))
  /\ \/ /\ FirstReason(l) = None /\ monitor' = Put(monitor, l, "wait")
        /\ UNCHANGED <<life, verdict>>
     \/ /\ FirstReason(l) # None /\ monitor' = Put(monitor, l, "hook")
        /\ life' = Put(life, l, "Stopping")
        /\ verdict' = Put(verdict, l, StopOutcome(FirstReason(l), life[l] = "Starting", TRUE))
  /\ UNCHANGED <<clientVars, termKind, failure, frames, secret, procVars, cancelled, passed, sent, got>>

\* apply_shutdown_hook needs the lock that a client writing a frame holds.
ApplyShutdownHook(l) ==
  /\ monitor[l] = "hook" /\ launcher[l] # "writing"
  /\ monitor' = Put(monitor, l, "stopping")
  /\ UNCHANGED <<clientVars, entryVars, procVars, verdict, cancelled, passed, sent, got>>

\* While it waits for the process to go by itself, the monitor drains; failures are ignored.
StoppingEvent(l) ==
  /\ monitor[l] = "stopping" /\ stream[l] # <<>> /\ HandleStreamEvent(l, FALSE)
  /\ UNCHANGED <<clientVars, termKind, failure, stopFor, secret, tree, exit, monVars,
                 cancelled, passed, sent, got>>

\* Mutant: after the shutdown timeout the process is only given up.
StoppedOrLeft(l) ==
  /\ monitor[l] = "stopping" /\ monitor' = Put(monitor, l, "drain")
  /\ tree' = IF tree[l] = "exited" THEN Put(tree, l, "dead") ELSE tree
  /\ UNCHANGED <<clientVars, entryVars, stream, exit, verdict, cancelled, passed, sent, got>>

\* The process went (its descendants are killed), or the shutdown timeout forces the tree.
Stopped(l) ==
  /\ monitor[l] = "stopping" /\ monitor' = Put(monitor, l, "drain")
  /\ tree' = Put(tree, l, "dead")
  /\ verdict' = IF tree[l] # "exited" /\ stopFor[l] = "Requested"
                THEN Put(verdict, l, StopOutcome("Requested", FALSE, FALSE)) ELSE verdict
  /\ UNCHANGED <<clientVars, entryVars, stream, exit, cancelled, passed, sent, got>>

\* try_wait: an exited leader takes its group with it; an error is a crash.
TryWait(l) ==
  /\ monitor[l] = "wait"
  /\ \/ /\ tree[l] = "running" /\ monitor' = Put(monitor, l, "loop")
        /\ UNCHANGED <<tree, verdict>>
     \/ /\ tree[l] = "exited" /\ monitor' = Put(monitor, l, "drain_exit")
        /\ tree' = Put(tree, l, "dead") /\ UNCHANGED verdict
     \/ FailProcess(l, "RuntimeCrashed", "Crash")
  /\ UNCHANGED <<clientVars, life, termKind, failure, stopFor, frames, secret, stream, exit,
                 cancelled, passed, sent, got>>

\* drain_and_join: after the first failure events are taken and dropped.
DrainEvent(l) ==
  /\ monitor[l] \in {"drain", "drain_exit"} /\ stream[l] # <<>>
  /\ LET exits == monitor[l] = "drain_exit" IN
     \/ /\ exits => verdict[l][3] = None
        /\ HandleStreamEvent(l, exits)
        /\ verdict' = IF exits THEN Put(verdict, l, <<None, None, StreamFailure(l)>>) ELSE verdict
     \/ /\ exits /\ verdict[l][3] # None
        /\ stream' = Put(stream, l, Tail(stream[l])) /\ UNCHANGED <<life, frames, verdict>>
  /\ UNCHANGED <<clientVars, termKind, failure, stopFor, secret, tree, exit, monitor,
                 cancelled, passed, sent, got>>

\* Mutant: whatever exits once it was ready has exited well.
ExitOutcomeReady(l) ==
  IF life[l] = "Ready" THEN <<"Exited", "CleanExit", None>>
  ELSE <<"Failed", "StartupFailed", "StartupFailed">>

\* What an exit without a stop is: by the drain's failure, readiness and the status.
ExitOutcome(l) ==
  LET ready == life[l] = "Ready" IN
  CASE verdict[l][3] # None -> <<"Failed", "Crash", verdict[l][3]>>
    [] verdict[l][3] = None /\ ready /\ exit[l] = "ok" -> <<"Exited", "CleanExit", None>>
    [] verdict[l][3] = None /\ ready /\ exit[l] # "ok" -> <<"Failed", "Crash", "RuntimeCrashed">>
    [] OTHER -> <<"Failed", "StartupFailed", "StartupFailed">>

\* The readers have ended, or the drain's timeout: the entry is finished.
Finish(l) ==
  /\ monitor[l] \in {"drain", "drain_exit"} /\ stream[l] = <<>>
  /\ LET v == IF monitor[l] = "drain" THEN verdict[l] ELSE ExitOutcome(l) IN
     /\ life' = Put(life, l, v[1]) /\ termKind' = Put(termKind, l, v[2])
     /\ failure' = Put(failure, l, v[3])
  /\ monitor' = Put(monitor, l, "removing")
  /\ UNCHANGED <<clientVars, stopFor, frames, secret, procVars, verdict, cancelled,
                 passed, sent, got>>

RemoveMonitoredEntry(l) ==
  /\ monitor[l] = "removing" /\ monitor' = Put(monitor, l, "done")
  /\ RemoveEntry(l)
  /\ UNCHANGED <<launcher, answer, entryVars, procVars, verdict, cancelled, passed, sent, got>>

Monitor(l) ==
  \/ MonitorEvent(l) \/ PollHttp(l) \/ NoProbe(l) \/ MonitorLooks(l)
  \/ ApplyShutdownHook(l) \/ StoppingEvent(l)  \/ Stopped(l) \/ TryWait(l) \/ DrainEvent(l) \/ Finish(l) \/ RemoveMonitoredEntry(l)

(***************************************************************************)
(* The runtime, its readers and the clock.                                 *)
(***************************************************************************)
Written(l, f) == stream' = Put(stream, l, Append(stream[l], f))

\* read_bounded_frames passes on what the tree writes: lines, and one Oversized for a
\* line too long.  A descendant outside the group writes on after the group is dead.
ReadFrames(l) ==
  /\ tree[l] = "running" \/ (tree[l] = "dead" /\ l \in Escapes)
  /\ monitor[l] # "done" /\ Len(stream[l]) < StreamCap
  /\ \/ \E k \in {"ready"} \cup Noise[l] :
          /\ k = "ready" => (life[l] = "Starting" /\ Probe[l] = "line")
          /\ Written(l, Frame(k, 0)) /\ UNCHANGED sent
     \/ /\ sent[l] < MaxFrames[l] /\ sent' = Put(sent, l, sent[l] + 1)
        /\ Written(l, Frame("data", sent[l] + 1))
  /\ UNCHANGED <<clientVars, entryVars, tree, exit, monVars, cancelled, passed, got>>

RuntimeExits(l) ==
  /\ tree[l] = "running" /\ tree' = Put(tree, l, "exited")
  /\ \E s \in {"ok", "bad"} : exit' = Put(exit, l, s)
  /\ UNCHANGED <<clientVars, entryVars, stream, monVars, cancelled, passed, sent, got>>

Cancel(l) ==
  /\ l \in Cancels /\ ~cancelled[l] /\ cancelled' = Put(cancelled, l, TRUE)
  /\ UNCHANGED <<clientVars, entryVars, procVars, monVars, passed, sent, got>>

DeadlinePasses(l) ==
  /\ monitor[l] # "none"
  /\ \E d \in Timed[l] \ passed[l] :
       /\ d = "runtime" => "startup" \in passed[l]
       /\ passed' = Put(passed, l, passed[l] \cup {d})
  /\ UNCHANGED <<clientVars, entryVars, procVars, monVars, cancelled, sent, got>>

Client(l) == Launch(l) \/ ReserveKey(l) \/ Spawn(l) \/ SpawnFails(l) \/ StartupReady(l)
             \/ StartupFails(l) \/ Leaves(l)

Next ==
  \E l \in Launches :
    \/ Client(l) \/ Monitor(l)
    \/ \E drop \in BOOLEAN : HandleStops(l, drop)
    \/ TakePassword(l) \/ ReadStdoutFrame(l) \/ WriteStdinFrame(l) \/ WriteEnds(l)
    \/ ReadFrames(l) \/ RuntimeExits(l) \/ Cancel(l) \/ DeadlinePasses(l)

\* The threads of the supervisor run; the runtime, the client and the user need not.
Fairness == \A l \in Launches : WF_vars(Monitor(l)) /\ WF_vars(DeadlinePasses(l))
                                 /\ WF_vars(StartupFails(l) \/ StartupReady(l))
Spec == Init /\ [][Next]_vars /\ Fairness

-----------------------------------------------------------------------------
\* Every variable keeps its type, and the queues keep their bounds.
TypeOK ==
  /\ entries \subseteq Launches
  /\ life \in [Launches -> {"Starting", "Ready", "Stopping"} \cup Terminal]
  /\ stopFor \in [Launches -> {None, "Requested", "Cancelled", "StartupTimeout", "Deadline"}]
  /\ tree \in [Launches -> {"none", "running", "exited", "dead"}]
  /\ \A l \in Launches : Len(frames[l]) <= FrameCap /\ Len(stream[l]) <= StreamCap

\* Two launches under one key never have live processes at once, though an
\* ended entry may be evicted by the next launch before its monitor removes it.
OneRuntimePerKey ==
  \A k, l \in Launches :
    (tree[k] \in {"running", "exited"} /\ tree[l] \in {"running", "exited"}) => k = l

\* An entry is only reported ended when nothing of its process group is left,
\* and the map never names a launch whose monitor is done.
EndedIsDead ==
  /\ \A l \in Launches : life[l] \in Terminal => tree[l] = "dead"
  /\ \A l \in entries : monitor[l] # "done"

\* With typed frames, what the client has read and can read are the runtime's
\* first frames in order, none missing, until the stop or the failure of the runtime.
TypedFramesHaveNoGap ==
  \A l \in Typed :
    (life[l] \in {"Starting", "Ready"} /\ monitor[l] \notin {"drain", "drain_exit"}) =>
      LET seen == got[l] \o SelectSeq(frames[l], Data) IN
      \A i \in 1..Len(seen) : seen[i] = Frame("data", i)

\* How a runtime is reported to have ended agrees with what was asked first: a
\* stop that the client asked for is no failure, and only a deadline is one.
ReportedAsAsked ==
  \A l \in Launches :
    /\ (life[l] = "Exited" /\ termKind[l] = "CleanExit") => exit[l] = "ok"
    /\ (failure[l] = "StartupCancelled") => (stopFor[l] = "Cancelled" /\ cancelled[l])
    /\ (termKind[l] = "DeadlineExceeded") => stopFor[l] = "Deadline"
    /\ (termKind[l] \in {"GracefulStop", "ForcedStop"}) => stopFor[l] = "Requested"

\* The first stop reason stands: a deadline that passes while a runtime is
\* being stopped at the client's request does not turn the stop into a failure.
FirstReasonStands ==
  \A l \in Launches : stopFor[l] # None => stopFor'[l] = stopFor[l]

\* Once the handle is dropped, a launch failed, or the call was cancelled, the
\* process tree dies, whatever the runtime does - unless a client is blocked in
\* write_stdin_frame, whose lock the shutdown hook then waits for without a bound.
DroppedRuntimeDies ==
  \A l \in Launches :
    (tree[l] = "running" /\ (cancelled[l] \/ launcher[l] \in {"leaving", "gone"}))
      ~> (tree[l] = "dead" \/ launcher[l] = "writing")
=============================================================================
