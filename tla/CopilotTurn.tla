----------------------------- MODULE CopilotTurn -----------------------------
(***************************************************************************)
(* GitHub Copilot's native harness (providers/github_copilot): the device  *)
(* flow that signs a user in (auth.rs) and one turn of a session of the    *)
(* Copilot SDK (runtime.rs, events.rs, entitlement.rs, transport.rs).      *)
(*                                                                         *)
(* GitHub's authorization server and the SDK's session are external.  The  *)
(* build links no SDK: its transport is the one source below that is not   *)
(* managed, and refuses every session.                                     *)
(***************************************************************************)
EXTENDS Naturals, Sequences, FiniteSetsExt

CONSTANTS
  MaxInterval, DefaultInterval, Backoff,  \* seconds between polls: the most, GitHub's default, what slow_down adds
  MaxTtl,       \* how long a device code is held at most
  FrameLimit,   \* MAX_SDK_FRAMES
  MaxQueue      \* bound: frames of the session that are not read yet

VARIABLES
  stage,        \* where the flow or the turn is
  flow,         \* the flow: [interval, ttl, clock, polled, asked]: polled is when it last polled, asked what
                \* GitHub last asked it to wait
  source,       \* where the SDK's runtime is from
  queue,        \* frames of the session, oldest first
  ended,        \* the session sends no more
  waiting,      \* requests the session has made and Alfred has read that have no answer
  frames,       \* the loop's count
  reads,        \* frames the session has given
  told,         \* kinds of events the host was told that end a turn
  shown,        \* how the secrets of the events look to the host
  aborted, stop, outcome

cpVars == <<stage, flow, source, queue, ended, waiting, frames, reads, told, shown, aborted, stop, outcome>>
turnVars == <<source, queue, ended, waiting, frames, reads, told, shown, aborted>>

NoFlow == [interval |-> 0, ttl |-> 0, clock |-> 0, polled |-> 0, asked |-> 0]
Payloads == {"plain", "token", "embedded"}
Sources == {"bundled", "explicit", "unavailable"}
FlowOutcomes == {"authorized", "denied", "expired", "malformed"}
Codes == {"none", "ok", "cancelled", "event_limit", "invalid_event", "permission_denied", "capability_unsupported",
          "account_mismatch", "account_unavailable", "provider_unavailable"} \cup FlowOutcomes

TypeOK ==
  /\ stage \in {"idle", "started", "check", "sleep", "poll", "account", "start", "loop", "read", "over"}
  /\ flow.interval \in 0..MaxInterval /\ flow.ttl \in 0..MaxTtl /\ source \in Sources
  /\ Len(queue) <= MaxQueue /\ frames \in 0..FrameLimit + 1 /\ waiting \subseteq {"tool", "permission"}
  /\ told \in Seq({"completed", "failed", "cancelled"}) /\ shown \subseteq Payloads \cup {"redacted", "opaque"}
  /\ outcome \in Codes

Init ==
  /\ stage = "idle" /\ flow = NoFlow /\ source = "unavailable" /\ queue = <<>> /\ ended = FALSE /\ waiting = {}
  /\ frames = 0 /\ reads = 0 /\ told = <<>> /\ shown = {} /\ aborted = FALSE /\ stop = FALSE /\ outcome = "none"

End(code) == stage' = "over" /\ outcome' = code

-----------------------------------------------------------------------------
(* The device flow.                                                        *)

\* clamp(MIN_INTERVAL_SECONDS, MAX_INTERVAL_SECONDS); 0 stands for an answer without an interval.
Clamp(seconds) == Min({Max({seconds, 1}), MaxInterval})

\* start_device_flow and parse_device_start: an answer with a code of the right size, GitHub's own
\* address and a time to live begins the flow.
StartFlaws == {"client_id", "network", "not_object", "device_code", "user_code", "other_host", "no_ttl"}

StartFlow ==
  /\ stage = "idle" /\ UNCHANGED <<turnVars, stop>>
  /\ \/ StartFlaws # {} /\ End("malformed") /\ UNCHANGED flow
     \/ \E i \in 0..MaxInterval + 1, expires \in 1..MaxTtl + 1 :
          LET asked == IF i = 0 THEN DefaultInterval ELSE i IN
          /\ flow' = [NoFlow EXCEPT !.interval = Clamp(asked), !.ttl = Min({expires, MaxTtl}), !.asked = asked]
          /\ stage' = "check" /\ UNCHANGED outcome

\* Mutant: the code is looked at before the sleep only.
OverdueOnce == flow.clock >= flow.ttl /\ stage = "check"

\* elapsed() >= start.ttl, before the sleep and after it.
Overdue == flow.clock >= flow.ttl

Check ==
  /\ stage = "check"
  /\ \/ Overdue /\ End("expired")
     \/ ~Overdue /\ stage' = "sleep" /\ UNCHANGED outcome
  /\ UNCHANGED <<flow, turnVars, stop>>

\* A sleep lasts at least as long as asked for.
Sleep ==
  /\ stage = "sleep" /\ stage' = "poll" /\ UNCHANGED <<turnVars, stop, outcome>>
  /\ \E late \in 0..1 : flow' = [flow EXCEPT !.clock = @ + flow.interval + late]

\* Mutant: slow_down starts again at the default.
NextBackoffReset(i) == Clamp(IF i = 0 THEN DefaultInterval ELSE i)

\* next_backoff: the interval of the answer, or five seconds more; 0 is an answer without one.
NextBackoff(i) == Clamp(IF i = 0 THEN flow.interval + Backoff ELSE i)

\* classify_device_poll and CopilotAccessToken::parse: the answers that end the flow.
PollEnds == [
  access_token |-> "authorized", not_bearer |-> "malformed", empty_token |-> "malformed", long_token |-> "malformed",
  classic_pat |-> "malformed", other_token |-> "malformed", expired_token |-> "expired", access_denied |-> "denied",
  other_error |-> "malformed", not_object |-> "malformed", network |-> "malformed"]

\* One round of run_device_flow after its sleep.
Poll ==
  /\ stage = "poll" /\ UNCHANGED <<turnVars, stop>>
  /\ \/ Overdue /\ End("expired") /\ UNCHANGED flow
     \/ /\ ~Overdue /\ \E a \in DOMAIN PollEnds : End(PollEnds[a])
        /\ flow' = [flow EXCEPT !.polled = flow.clock]
     \/ /\ ~Overdue /\ stage' = "check" /\ UNCHANGED outcome   \* authorization_pending
        /\ flow' = [flow EXCEPT !.polled = flow.clock]
     \/ /\ ~Overdue /\ stage' = "check" /\ UNCHANGED outcome   \* slow_down
        /\ \E i \in 0..MaxInterval + 1 :
             flow' = [flow EXCEPT !.polled = flow.clock, !.interval = NextBackoff(i),
                                  !.asked = IF i = 0 THEN @ + Backoff ELSE i]

-----------------------------------------------------------------------------
(* The start of a turn.                                                    *)

\* validate_account and token.
AccountFlaws == [other_provider |-> "account_mismatch", other_credential |-> "account_mismatch",
                 no_token |-> "account_unavailable", unusable_token |-> "account_unavailable"]

StartTurn ==
  /\ stage = "idle" /\ source' \in Sources /\ stage' = "account"
  /\ UNCHANGED <<flow, queue, ended, waiting, frames, reads, told, shown, aborted, stop, outcome>>

\* is_alfred_managed.
Managed == source = "bundled"

\* validate_account, checkpoint, the source of the runtime.
Account ==
  /\ stage = "account" /\ UNCHANGED <<flow, turnVars, stop>>
  /\ \/ \E f \in DOMAIN AccountFlaws : End(AccountFlaws[f])
     \/ stop /\ End("cancelled")
     \/ ~stop /\ ~Managed /\ End("provider_unavailable")
     \/ ~stop /\ Managed /\ stage' = "start" /\ UNCHANGED outcome

\* classify_rejection and account_error: whatever Copilot refuses a session for - single sign-on,
\* a policy, a quota, an expired token, no seat - the account is unavailable.
Rejections == [sso |-> "account_unavailable", policy |-> "account_unavailable", quota |-> "account_unavailable",
               expired |-> "account_unavailable", no_seat |-> "account_unavailable"]

StartSession ==
  /\ stage = "start" /\ UNCHANGED <<flow, turnVars, stop>>
  /\ \/ stage' = "loop" /\ UNCHANGED outcome
     \/ \E r \in DOMAIN Rejections : End(Rejections[r])
     \/ End("provider_unavailable")

Stop ==
  /\ stage \in {"account", "start", "loop", "read"} /\ ~stop /\ stop' = TRUE
  /\ UNCHANGED <<stage, flow, turnVars, outcome>>

-----------------------------------------------------------------------------
(* The session and its frames: <<kind, payload or flaw>>.                  *)

ToolFlaws == {"none", "too_large", "secret", "no_id", "no_name", "unknown_tool"}
Frames ==
  {<<k, p>> : k \in {"session", "turn", "text", "tool", "failed"}, p \in Payloads} \cup
  {<<k, "plain">> : k \in {"resolved", "completed", "cancelled", "noise", "odd"}} \cup
  {<<"invoke", f>> : f \in ToolFlaws} \cup {<<"permission", f>> : f \in {"none", "no_id", "secret"}}

SessionSends ==
  /\ stage \in {"loop", "read"} /\ ~ended /\ Len(queue) < MaxQueue
  /\ \/ \E f \in Frames : queue' = Append(queue, f) /\ UNCHANGED ended
     \/ ended' = TRUE /\ UNCHANGED queue
  /\ UNCHANGED <<stage, flow, source, waiting, frames, reads, told, shown, aborted, stop, outcome>>

\* Mutant: a frame that maps to nothing is not counted.
CountedMapped == IF frames > 0 /\ queue # <<>> /\ Head(queue)[1] = "noise" THEN frames ELSE frames + 1

Counted == frames + 1

\* The top of the loop: a stop or too many frames end the turn, and the session is aborted.
Loop ==
  /\ stage = "loop" /\ UNCHANGED <<flow, source, queue, ended, waiting, reads, told, shown, stop>>
  /\ \/ stop /\ aborted' = TRUE /\ End("cancelled") /\ UNCHANGED frames
     \/ ~stop /\ frames' = Counted /\ frames' > FrameLimit /\ aborted' = TRUE /\ End("event_limit")
     \/ ~stop /\ frames' = Counted /\ frames' <= FrameLimit /\ stage' = "read" /\ UNCHANGED <<aborted, outcome>>

\* reject_secret_tool_fields, validate_tool_payload_size and the checks of run_alfred_tool and of
\* required_permission_request_id, each with its error.
RequestErrors == [too_large |-> "event_limit", secret |-> "permission_denied", no_id |-> "invalid_event",
                  no_name |-> "invalid_event", unknown_tool |-> "capability_unsupported"]

\* bounded_id: an identifier that holds a secret is replaced by a digest; scrub: in a text a token
\* is redacted where it begins a word, and stays where it does not.
\* Mutant: the text of an error is told as it came.
HiddenNotErrors(kind, p) ==
  CASE p = "plain" -> "plain"
    [] p # "plain" /\ kind \in {"session", "turn"} -> "opaque"
    [] p = "token" /\ kind # "failed" -> "redacted"
    [] OTHER -> p

Hidden(kind, p) ==
  CASE p = "plain" -> "plain"
    [] p # "plain" /\ kind \in {"session", "turn"} -> "opaque"
    [] p = "token" -> "redacted"
    [] OTHER -> p

\* Mutant: a failed turn is read on.
TerminalKindsFew == {"completed", "cancelled"}

TerminalKinds == {"completed", "failed", "cancelled"}

\* CopilotEventMapper::map: reasoning, heartbeats and unknown events are dropped.
Mapped == {"session", "turn", "text", "tool", "resolved", "completed", "failed", "cancelled"}

\* A frame that is told.  The host may refuse it; one that ends the turn ends the loop, and a
\* failed turn too is a turn that returns.
Tell(f) ==
  /\ f[1] \in Mapped
  /\ \/ End("event_limit") /\ UNCHANGED <<told, shown>>
     \/ /\ shown' = shown \cup {Hidden(f[1], f[2])}
        /\ told' = IF f[1] \in {"completed", "failed", "cancelled"} THEN Append(told, f[1]) ELSE told
        /\ IF f[1] \in TerminalKinds
           THEN End(IF f[1] = "cancelled" THEN "cancelled" ELSE "ok")
           ELSE stage' = "loop" /\ UNCHANGED outcome
  /\ UNCHANGED <<waiting>>

\* Mutant: only a tool that completed is answered.
ToolAnswersSome == [completed |-> {}, denied |-> {"tool"}, failed |-> {"tool"}]

\* What stays without an answer for each end of the tool: respond_tool is sent for all.
ToolAnswers == [completed |-> {}, denied |-> {}, failed |-> {}]

\* run_alfred_tool: the checks, the tool at Alfred's boundary - which a stop ends, without an
\* abort - and its result.
Invoke(f) ==
  /\ f[1] = "invoke" /\ UNCHANGED <<told, shown>>
  /\ \/ f[2] # "none" /\ waiting' = waiting \cup {"tool"} /\ End(RequestErrors[f[2]])
     \/ /\ f[2] = "none" /\ waiting' = waiting \cup {"tool"}
        /\ \E e \in {"capability_unsupported", "permission_denied", "event_limit"} \cup (IF stop THEN {"cancelled"} ELSE {}) : End(e)
     \/ /\ f[2] = "none" /\ \E r \in DOMAIN ToolAnswers : waiting' = waiting \cup ToolAnswers[r]
        /\ stage' = "loop" /\ UNCHANGED outcome
     \/ f[2] = "none" /\ waiting' = waiting \cup {"tool"} /\ End("provider_unavailable")  \* respond_tool fails

\* permission.requested: always denied, with a warning.
Permission(f) ==
  /\ f[1] = "permission" /\ UNCHANGED <<told, shown>>
  /\ \/ f[2] # "none" /\ waiting' = waiting \cup {"permission"} /\ End(RequestErrors[f[2]])
     \/ f[2] = "none" /\ stage' = "loop" /\ UNCHANGED <<waiting, outcome>>
     \/ f[2] = "none" /\ UNCHANGED waiting /\ End("event_limit")
     \/ f[2] = "none" /\ waiting' = waiting \cup {"permission"} /\ End("provider_unavailable")

\* next_event and what the loop does with it.  An error of the session ends the turn without an
\* abort; a session that ends without an event that says so ends the turn well.
Read ==
  /\ stage = "read" /\ UNCHANGED <<flow, source, frames, aborted, stop>>
  /\ \/ /\ queue # <<>> /\ queue' = Tail(queue) /\ reads' = reads + 1 /\ UNCHANGED ended
        /\ \/ Tell(Head(queue)) \/ Invoke(Head(queue)) \/ Permission(Head(queue))
           \/ Head(queue)[1] = "noise" /\ stage' = "loop" /\ UNCHANGED <<waiting, told, shown, outcome>>
           \/ Head(queue)[1] = "odd" /\ End("invalid_event") /\ UNCHANGED <<waiting, told, shown>>
     \/ queue = <<>> /\ ended /\ End("ok") /\ UNCHANGED <<queue, ended, waiting, reads, told, shown>>
     \/ queue = <<>> /\ End("provider_unavailable") /\ ended' = TRUE /\ UNCHANGED <<queue, waiting, reads, told, shown>>

Next == StartFlow \/ Check \/ Sleep \/ Poll \/ StartTurn \/ Account \/ StartSession \/ Stop \/ SessionSends \/ Loop \/ Read

Spec == Init /\ [][Next]_cpVars

-----------------------------------------------------------------------------
(* Properties.                                                             *)

\* Two polls are as far apart as GitHub last asked for, up to the most Alfred waits, however
\* often it was told to slow down (classify_device_poll, next_backoff).
PollsAsAsked ==
  flow'.polled # flow.polled => flow'.polled - flow.polled >= Min({flow.asked, MaxInterval})

\* A device code that has expired is not sent again, although the sleep before a poll may end
\* long after it was begun (run_device_flow).
NoPollAfterExpiry == flow.polled > 0 => flow.polled < flow.ttl

\* Nothing is told to the host after the event that ended its turn (run_turn's break).
OneEndIsTold == Len(told) <= 1

\* The session is never waited for while it waits for Alfred: at a read every tool and every
\* permission it asked for has its answer (run_alfred_tool, respond_permission).
NoMutualWait == stage = "read" => waiting = {}

\* A session that only sends frames nobody is told of is cut off too (MAX_SDK_FRAMES).
ReadsAreBounded == reads <= FrameLimit

\* A token that begins a word reaches the host in no event and no identifier (scrub, bounded_id).
TokensAreHidden == "token" \notin shown
=============================================================================
