----------------------------- MODULE NativeTurn -----------------------------
(***************************************************************************)
(* Turns of the native harness (agents/native): the registry of runtimes,  *)
(* the router that prepares, watches and runs a turn, the host that a      *)
(* runtime emits events and calls tools through, and the broker on which a *)
(* tool call waits for the user.  What a runtime does between two calls of *)
(* its host is its own; a turn that is cancelled or late is stopped at the *)
(* next checkpoint.                                                        *)
(***************************************************************************)
EXTENDS Naturals, Sequences, FiniteSets

CONSTANTS Turns, Requests,  \* approval ids: the tool request ids of the provider
          Kinds,            \* kinds of tool
          Policy,           \* NativePermissionProfile, by kind
          Granted,          \* NativeToolCapabilitySet: the kinds the turn may use
          MaxEvents,        \* NativeEventLimits.max_events
          MaxTurns          \* bound: turns one after the other in one place

VARIABLES registered, \* the provider has a runtime
          turn, outcome, \* position and outcome of a turn
          control,    \* the run's Stop flag
          handle,     \* NativeCancellation.cancelled
          late,       \* its deadline has passed
          active,     \* NativeRuntimeRegistry.active
          watcher,    \* the thread of watch_control
          call,       \* the tool request being served: [id, kind]
          log,        \* kinds of the events passed on
          ran,        \* kinds of tool a turn executed
          pending, remembered,  \* BrokerState
          yes, always, \* history: what the user allowed, for a turn and for good
          left        \* turns still to come

turnVars == <<turn, outcome, call, log, ran>>
stopVars == <<control, handle, late, active, watcher>>
broker == <<pending, remembered, yes, always>>
vars == <<registered, turnVars, stopVars, broker, left>>

NoCall == [id |-> "none", kind |-> "none"]
Events == [kind : {"assistant_delta", "warning"},
           class : {"none", "assistant", "reasoning"}]

Init ==
  /\ registered = FALSE
  /\ turn = [t \in Turns |-> "idle"] /\ outcome = [t \in Turns |-> "none"]
  /\ control = [t \in Turns |-> FALSE] /\ handle = control /\ late = control
  /\ active = {} /\ watcher = [t \in Turns |-> "off"]
  /\ call = [t \in Turns |-> NoCall] /\ log = [t \in Turns |-> <<>>]
  /\ ran = [t \in Turns |-> {}]
  /\ pending = [r \in Requests |-> "absent"] /\ remembered = {}
  /\ yes = {} /\ always = {} /\ left = MaxTurns - 1

Stopped(t) == handle[t] \/ late[t]     \* checkpoint() returns an error
InTurn(t) == turn[t] \in {"running", "blocked", "tool", "asking", "waiting", "granted", "denied"}

Goto(t, l) == turn' = [turn EXCEPT ![t] = l]

\* Mutant: the handle stays in the active map.
EndsLeavingHandle(t, r) ==
  Goto(t, "joining") /\ outcome' = [outcome EXCEPT ![t] = r] /\ UNCHANGED active

\* The closure's result is kept, the handle leaves the active map, the watch is dropped.
Ends(t, r) ==
  /\ Goto(t, "joining") /\ outcome' = [outcome EXCEPT ![t] = r]
  /\ active' = active \ {t}

(***************************************************************************)
(* Registry.                                                               *)
(***************************************************************************)
Register ==
  /\ ~registered /\ registered' = TRUE
  /\ UNCHANGED <<left, turnVars, stopVars, broker>>

Unregister ==
  /\ registered /\ registered' = FALSE
  /\ UNCHANGED <<left, turnVars, stopVars, broker>>

\* The router finds the runtime, prepares the request and starts the watcher.
Prepare(t) ==
  /\ turn[t] = "idle" /\ registered
  /\ Goto(t, "ready") /\ watcher' = [watcher EXCEPT ![t] = "on"]
  /\ handle' = [handle EXCEPT ![t] = control[t]]
  /\ UNCHANGED <<left, registered, outcome, call, log, ran, control, late, active, broker>>

PrepareFails(t) ==
  /\ turn[t] = "idle"
  /\ Goto(t, "ended") /\ outcome' = [outcome EXCEPT ![t] = "error"]
  /\ UNCHANGED <<left, registered, call, log, ran, stopVars, broker>>

\* execute_turn validates request, capabilities, account and model, then checks the handle ...
Admit(t) ==
  /\ turn[t] = "ready" /\ registered /\ ~Stopped(t)
  /\ Goto(t, "admitted")
  /\ UNCHANGED <<left, registered, outcome, call, log, ran, stopVars, broker>>

\* ... and enters it in the active map, where cancel finds it.
Activate(t) ==
  /\ turn[t] = "admitted" /\ ~Stopped(t)
  /\ Goto(t, "running") /\ active' = active \cup {t}
  /\ UNCHANGED <<left, registered, outcome, call, log, ran, control, handle, late, watcher, broker>>

Refuse(t) ==
  /\ turn[t] \in {"ready", "admitted"}
  /\ Ends(t, "error")
  /\ UNCHANGED <<left, registered, call, log, ran, control, handle, late, watcher, broker>>

(***************************************************************************)
(* The runtime's side of a turn.                                           *)
(***************************************************************************)
\* Mutant: events are not counted.
NormalUnbounded(t, e) ==
  e.class # "reasoning" /\ ((e.kind = "assistant_delta") <=> (e.class = "assistant"))
  /\ Len(log[t]) <= MaxEvents

\* NativeEventNormalizer::normalize.
Normal(t, e) ==
  /\ Len(log[t]) < MaxEvents
  /\ e.class # "reasoning"
  /\ (e.kind = "assistant_delta") <=> (e.class = "assistant")

Emit(t, kind) == log' = [log EXCEPT ![t] = Append(@, kind)]

EmitEvent(t, e) ==
  /\ turn[t] = "running" /\ ~Stopped(t) /\ Normal(t, e)
  /\ Emit(t, e.kind)
  /\ handle' = [handle EXCEPT ![t] = control[t]]   \* forward_event looks at the Stop flag
  /\ UNCHANGED <<left, registered, turn, outcome, call, ran, control, late, active, watcher, broker>>

EmitRejected(t, e) ==
  /\ turn[t] = "running" /\ ~Stopped(t) /\ ~Normal(t, e)
  /\ Ends(t, "error")
  /\ UNCHANGED <<left, registered, call, log, ran, control, handle, late, watcher, broker>>

\* The provider is silent: only its cancel, or the provider, wakes the runtime.
Block(t) ==
  /\ turn[t] = "running" /\ Goto(t, "blocked")
  /\ UNCHANGED <<left, registered, outcome, call, log, ran, stopVars, broker>>

Wake(t) ==
  /\ turn[t] = "blocked" /\ Goto(t, "running")
  /\ UNCHANGED <<left, registered, outcome, call, log, ran, stopVars, broker>>

\* Every host call of a stopped turn returns the error of its checkpoint, and so does the turn.
Checkpoint(t) ==
  /\ InTurn(t) /\ Stopped(t) /\ (turn[t] = "blocked" => handle[t])
  /\ Ends(t, IF handle[t] THEN "cancelled" ELSE "timeout")
  /\ UNCHANGED <<left, registered, call, log, ran, control, handle, late, watcher, broker>>

RuntimeReturns(t) ==
  /\ turn[t] = "running" /\ ~Stopped(t)
  /\ Ends(t, "ok")
  /\ UNCHANGED <<left, registered, call, log, ran, control, handle, late, watcher, broker>>

\* invoke_tool: an admissible request is announced, then goes by the policy of its kind.
InvokeTool(t, r, k) ==
  /\ turn[t] = "running" /\ ~Stopped(t) /\ k \in Granted /\ ran[t] = {} /\ call[t] = NoCall
  /\ call' = [call EXCEPT ![t] = [id |-> r, kind |-> k]]
  /\ Len(log[t]) < MaxEvents /\ Emit(t, "tool_started")
  /\ Goto(t, CASE Policy[k] = "deny" -> "denied" [] Policy[k] = "ask" -> "tool" [] OTHER -> "granted")
  /\ UNCHANGED <<left, registered, outcome, ran, stopVars, broker>>

ToolInvalid(t, k) ==
  /\ turn[t] = "running" /\ ~Stopped(t) /\ k \notin Granted
  /\ Ends(t, "error")
  /\ UNCHANGED <<left, registered, call, log, ran, control, handle, late, watcher, broker>>

\* The executor runs the tool; its completion is announced after another look at the handle.
ExecuteTool(t) ==
  /\ turn[t] = "granted" /\ ~Stopped(t) /\ Len(log[t]) < MaxEvents
  /\ ran' = [ran EXCEPT ![t] = @ \cup {call[t].kind}]
  /\ Emit(t, "tool_completed") /\ Goto(t, "running")
  /\ UNCHANGED <<left, registered, outcome, call, stopVars, broker>>

\* Mutant: the denial is not announced.
CompleteDeniedSilently(t) ==
  /\ turn[t] = "denied" /\ ~Stopped(t) /\ Goto(t, "running")
  /\ UNCHANGED <<left, registered, outcome, call, log, ran, stopVars, broker>>

\* A denied tool still terminates its own event pair.
CompleteDenied(t) ==
  /\ turn[t] = "denied" /\ ~Stopped(t) /\ Len(log[t]) < MaxEvents
  /\ Emit(t, "tool_completed") /\ Goto(t, "running")
  /\ UNCHANGED <<left, registered, outcome, call, ran, stopVars, broker>>

EventsExhausted(t) ==
  /\ turn[t] \in {"granted", "denied"} /\ ~Stopped(t) /\ Len(log[t]) >= MaxEvents
  /\ Ends(t, "error")
  /\ UNCHANGED <<left, registered, call, log, ran, control, handle, late, watcher, broker>>

(***************************************************************************)
(* HostApprovalBroker::decide_host: a remembered answer, or an entry to    *)
(* wait on.  A wait that is stopped leaves its entry behind.               *)
(***************************************************************************)
Ask(t) ==
  /\ turn[t] = "tool"
  /\ Goto(t, IF call[t].kind \in remembered THEN "granted" ELSE "asking")
  /\ UNCHANGED <<left, registered, outcome, call, log, ran, stopVars, broker>>

\* Mutant: an entry that is there already is waited on.
AskPendingAgain(t) ==
  /\ turn[t] = "asking" /\ Goto(t, "waiting")
  /\ pending' = [pending EXCEPT ![call[t].id] = IF @ = "absent" THEN "open" ELSE @]
  /\ UNCHANGED <<left, registered, outcome, call, log, ran, stopVars, remembered, yes, always>>

AskPending(t) ==
  /\ turn[t] = "asking" /\ pending[call[t].id] = "absent"
  /\ pending' = [pending EXCEPT ![call[t].id] = "open"] /\ Goto(t, "waiting")
  /\ UNCHANGED <<left, registered, outcome, call, log, ran, stopVars, remembered, yes, always>>

AskDuplicate(t) ==
  /\ turn[t] = "asking" /\ pending[call[t].id] # "absent"
  /\ Ends(t, "error")
  /\ UNCHANGED <<left, registered, call, log, ran, control, handle, late, watcher, broker>>

Decided(t) ==
  LET d == pending[call[t].id] IN
  /\ turn[t] = "waiting" /\ ~Stopped(t) /\ d \in {"once", "always", "reject"}
  /\ pending' = [pending EXCEPT ![call[t].id] = "absent"]
  /\ remembered' = IF d = "always" THEN remembered \cup {call[t].kind} ELSE remembered
  /\ Goto(t, IF d = "reject" THEN "denied" ELSE "granted")
  /\ UNCHANGED <<left, registered, outcome, call, log, ran, stopVars, yes, always>>

\* resolve: the user's answer to a prompt, kept for whoever waits on the id.
Resolve(r, d) ==
  /\ pending[r] = "open"
  /\ pending' = [pending EXCEPT ![r] = d]
  /\ LET asker == {t \in Turns : turn[t] = "waiting" /\ call[t].id = r}
     IN /\ yes' = IF d = "reject" THEN yes ELSE yes \cup asker
        /\ always' = IF d = "always" THEN always \cup {call[t].kind : t \in asker} ELSE always
  /\ UNCHANGED <<left, registered, turnVars, stopVars, remembered>>

(***************************************************************************)
(* Stopping a turn.                                                        *)
(***************************************************************************)
StopRun(t) ==
  /\ ~control[t] /\ turn[t] # "ended"
  /\ control' = [control EXCEPT ![t] = TRUE]
  /\ UNCHANGED <<left, registered, turnVars, handle, late, active, watcher, broker>>

Deadline(t) ==
  /\ ~late[t] /\ (InTurn(t) \/ turn[t] \in {"ready", "admitted"})
  /\ late' = [late EXCEPT ![t] = TRUE]
  /\ UNCHANGED <<left, registered, turnVars, control, handle, active, watcher, broker>>

\* watch_control: a handle that is not active yet is tried again; an absent runtime is no obstacle.
WatchCancels(t) ==
  /\ watcher[t] = "on" /\ turn[t] # "joining" /\ control[t] /\ (~registered \/ t \in active)
  /\ handle' = [handle EXCEPT ![t] = TRUE] /\ watcher' = [watcher EXCEPT ![t] = "off"]
  /\ UNCHANGED <<left, registered, turnVars, control, late, active, broker>>

\* Mutant: the watcher gives up on a handle that is not active yet.
WatchStopsAtMiss(t) ==
  /\ watcher[t] = "on" /\ (turn[t] = "joining" \/ (control[t] /\ t \notin active) \/ Stopped(t))
  /\ watcher' = [watcher EXCEPT ![t] = "off"]
  /\ UNCHANGED <<left, registered, turnVars, control, handle, late, active, broker>>

WatchStops(t) ==
  /\ watcher[t] = "on"
  /\ \/ turn[t] = "joining"
     \/ (handle[t] \/ late[t]) /\ ~(control[t] /\ (~registered \/ t \in active))
  /\ watcher' = [watcher EXCEPT ![t] = "off"]
  /\ UNCHANGED <<left, registered, turnVars, control, handle, late, active, broker>>

\* Dropping NativeControlWatch joins the watcher before the step has its answer.
Join(t) ==
  /\ turn[t] = "joining" /\ watcher[t] = "off" /\ Goto(t, "ended")
  /\ UNCHANGED <<left, registered, outcome, call, log, ran, stopVars, broker>>

\* A later turn: a handle of its own (turn_nonce), the same broker and registry.
NextTurn(t) ==
  /\ turn[t] = "ended" /\ left > 0 /\ left' = left - 1
  /\ Goto(t, "idle") /\ outcome' = [outcome EXCEPT ![t] = "none"]
  /\ control' = [control EXCEPT ![t] = FALSE] /\ handle' = [handle EXCEPT ![t] = FALSE]
  /\ late' = [late EXCEPT ![t] = FALSE]
  /\ call' = [call EXCEPT ![t] = NoCall] /\ log' = [log EXCEPT ![t] = <<>>]
  /\ ran' = [ran EXCEPT ![t] = {}] /\ yes' = yes \ {t}
  /\ UNCHANGED <<registered, active, watcher, pending, remembered, always>>

Step(t) ==
  \/ Prepare(t) \/ Admit(t) \/ Activate(t) \/ Refuse(t) \/ Checkpoint(t) \/ RuntimeReturns(t)
  \/ ExecuteTool(t) \/ CompleteDenied(t) \/ EventsExhausted(t)
  \/ Ask(t) \/ AskPending(t) \/ AskDuplicate(t) \/ Decided(t) \/ Join(t)

Next ==
  \/ Register \/ Unregister
  \/ \E t \in Turns :
       \/ Step(t) \/ NextTurn(t) \/ PrepareFails(t) \/ Block(t) \/ Wake(t)
       \/ StopRun(t) \/ Deadline(t) \/ WatchCancels(t) \/ WatchStops(t)
       \/ \E e \in Events : EmitEvent(t, e) \/ EmitRejected(t, e)
       \/ \E k \in Kinds : ToolInvalid(t, k) \/ \E r \in Requests : InvokeTool(t, r, k)
  \/ \E r \in Requests, d \in {"once", "always", "reject"} : Resolve(r, d)

\* Threads run; a blocked provider, the user and the clock owe nothing.
Fairness ==
  \A t \in Turns : /\ WF_vars(Step(t))
                    /\ WF_vars(WatchCancels(t)) /\ WF_vars(WatchStops(t))

Spec == Init /\ [][Next]_vars /\ Fairness

-----------------------------------------------------------------------------
TypeOK ==
  /\ registered \in BOOLEAN
  /\ turn \in [Turns -> {"idle", "ready", "admitted", "running", "blocked", "tool", "asking",
                       "waiting", "granted", "denied", "joining", "ended"}]
  /\ outcome \in [Turns -> {"none", "ok", "error", "cancelled", "timeout"}]
  /\ control \in [Turns -> BOOLEAN] /\ handle \in [Turns -> BOOLEAN] /\ late \in [Turns -> BOOLEAN]
  /\ active \subseteq Turns /\ watcher \in [Turns -> {"on", "off"}]
  /\ call \in [Turns -> [id : Requests, kind : Kinds] \cup {NoCall}]
  /\ \A t \in Turns : Len(log[t]) <= MaxEvents
  /\ ran \in [Turns -> SUBSET Kinds] /\ remembered \subseteq Kinds /\ yes \subseteq Turns
  /\ pending \in [Requests -> {"absent", "open", "once", "always", "reject"}]

(***************************************************************************)
(* host_approval.rs, line 3: the broker "never infers approval from a      *)
(* missing UI, a timeout, or a serialized `approved: true` flag".  A tool  *)
(* that needs consent runs only in a turn whose own prompt the user        *)
(* allowed, or after the user allowed its kind for good: an answer to the  *)
(* prompt of a turn that is gone serves nobody.                            *)
(***************************************************************************)
ConsentedTools ==
  \A t \in Turns : \A k \in ran[t] :
    Policy[k] = "allow" \/ (Policy[k] = "ask" /\ (t \in yes \/ k \in always))

(***************************************************************************)
(* "No consumer is left with a `tool_started` that never completes": in a  *)
(* turn that succeeds the announcements pair up.                           *)
(***************************************************************************)
ToolPairsClose ==
  \A t \in Turns : outcome[t] = "ok" =>
    Len(SelectSeq(log[t], LAMBDA k : k = "tool_started"))
      = Len(SelectSeq(log[t], LAMBDA k : k = "tool_completed"))

(***************************************************************************)
(* The active map holds exactly the turns inside run_turn, and "no thread  *)
(* outlives its turn": a turn that has returned has no watcher.            *)
(***************************************************************************)
NothingOutlivesTurn ==
  /\ active = {t \in Turns : InTurn(t)}
  /\ \A t \in Turns : turn[t] = "ended" => watcher[t] = "off"

(***************************************************************************)
(* Stop ends a turn "even while the runtime is blocked between events",    *)
(* also when it comes before the handle is active.  The watcher leaves     *)
(* when the deadline passes, so a blocked turn that is late is not woken.  *)
(***************************************************************************)
StopEndsTurn ==
  \A t \in Turns : (control[t] /\ turn[t] # "idle") ~> (turn[t] = "ended" \/ late[t])
=============================================================================
