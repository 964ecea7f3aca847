---------------------------- MODULE OpenCodeTurn ----------------------------
(***************************************************************************)
(* A turn of the managed OpenCode server                                   *)
(* (providers/opencode/runtime.rs, transport.rs, protocol.rs, launch.rs).  *)
(*                                                                         *)
(* Alfred launches the server, opens a session on it, subscribes to its    *)
(* events, sends the prompt and follows the events until the session is    *)
(* idle.  The server runs its tools itself, by the rules the session was   *)
(* made with, and asks Alfred where a rule says so.  The server is         *)
(* external: it is modelled by the frames the code expects of it, a crash, *)
(* and frames that are out of order.                                       *)
(***************************************************************************)
EXTENDS Naturals, Sequences

CONSTANTS
  Requests,     \* the turns: [mode, caps, filesystem, shell, subagents]
  Permissions,  \* the permissions the server's tools need
  MaxText,      \* bound: pieces of text the server writes
  MaxFrames     \* bound: frames the server sends

VARIABLES
  req, maker,   \* the turn, and the turn that made its session
  stage,        \* where run_turn is
  server,       \* the process: "none", "up", "down"
  session,      \* [made, known, prompted, aborted, deleted]
  srv,          \* the session's work: [sent, idle, text, asking, always]; asking is the permission it
                \* waits for, always the ones it need not ask for again
  wire,         \* frames on the stream, and whether there is one
  rd,           \* the reader: [batch, partial, terminal, seen, told, reply, heard]; partial is a frame that is cut
                \* off in the buffer, seen and told the text as the mapper and the host know it, reply
                \* the answer to the permission under way, heard what the server heard of it
  toolRuns,     \* permissions whose tools the server has used
  said,         \* permissions the user has agreed to
  closing,      \* the event that ended the turn for the host
  stop, excused, result, outcome

ocVars == <<req, maker, stage, server, session, srv, wire, rd, toolRuns, said, closing, stop, excused, result, outcome>>

NoRequest == [mode |-> "none", caps |-> {}, filesystem |-> "deny", shell |-> "deny", subagents |-> "deny"]
NoSession == [made |-> FALSE, known |-> FALSE, prompted |-> FALSE, aborted |-> FALSE, deleted |-> FALSE]
Quiet == [sent |-> 0, idle |-> FALSE, text |-> 0, asking |-> "none", always |-> {}]
NoStream == [open |-> FALSE, frames |-> <<>>]
Fresh == [batch |-> <<>>, partial |-> FALSE, terminal |-> FALSE, seen |-> 0, told |-> 0, reply |-> "none", heard |-> "none"]
Follows == {"prompt", "read", "permit", "decide", "answer", "resolved"}
Stages == {"idle", "prepare", "launch", "session", "announce", "subscribe", "abort", "delete", "stop", "over"} \cup Follows
Codes == {"none", "completed", "cancelled", "timed_out", "account_mismatch", "account_unavailable", "model_unavailable",
          "invalid_request", "invalid_event", "event_limit", "provider_unavailable", "capability_unsupported",
          "session_unavailable"}

TypeOK ==
  /\ req \in Requests \cup {NoRequest} /\ maker \in Requests \cup {NoRequest} /\ stage \in Stages
  /\ server \in {"none", "up", "down"} /\ srv.text \in 0..MaxText /\ rd.seen \in 0..MaxText /\ rd.told \in Nat
  /\ srv.asking \in Permissions \cup {"none"} /\ toolRuns \subseteq Permissions /\ said \subseteq Permissions
  /\ rd.reply \in {"none", "once", "always", "reject"} /\ closing \in {"none", "failed", "cancelled", "completed"}
  /\ result \in Codes /\ outcome \in Codes /\ srv.sent \in 0..MaxFrames

Init ==
  /\ req = NoRequest /\ maker = NoRequest /\ stage = "idle" /\ server = "none" /\ session = NoSession
  /\ srv = Quiet /\ wire = NoStream /\ rd = Fresh /\ toolRuns = {} /\ said = {}
  /\ closing = "none" /\ stop = FALSE /\ excused = FALSE /\ result = "none" /\ outcome = "none"

\* A turn begins; a resumed session was made by an earlier turn, with that turn's rules.
Choose(r, earlier) ==
  /\ stage = "idle" /\ req' = r /\ stage' = "prepare"
  /\ maker' = IF r.mode = "resume" THEN earlier ELSE r
  /\ session' = [NoSession EXCEPT !.made = r.mode = "resume"]
  /\ UNCHANGED <<server, srv, wire, rd, toolRuns, said, closing, stop, excused, result, outcome>>

Stop ==
  /\ stage \notin {"idle", "abort", "delete", "stop", "over"} /\ ~stop /\ stop' = TRUE
  /\ UNCHANGED <<req, maker, stage, server, session, srv, wire, rd, toolRuns, said, closing, excused, result, outcome>>

-----------------------------------------------------------------------------
(* The answers of the server's HTTP interface.                             *)

\* classify_status_error, map_reqwest_error, read_json and read_bounded_body: what an answer
\* that is not the expected one means.
AnswerErrors == [
  rejected |-> "provider_unavailable", limit |-> "provider_unavailable", missing |-> "provider_unavailable",
  late |-> "timed_out", server_error |-> "provider_unavailable", odd_status |-> "invalid_event",
  odd_body |-> "invalid_event", oversized |-> "event_limit", timeout |-> "timed_out", unreachable |-> "provider_unavailable"]

\* The calls.  Some end when the turn is stopped, some name a session that may be gone, and a
\* 404 then means the session.
Api == [
  create_session |-> [stops |-> TRUE, names |-> FALSE], get_session |-> [stops |-> TRUE, names |-> TRUE],
  subscribe |-> [stops |-> TRUE, names |-> FALSE], prompt_async |-> [stops |-> TRUE, names |-> TRUE],
  reply_permission |-> [stops |-> TRUE, names |-> FALSE], abort_session |-> [stops |-> FALSE, names |-> TRUE],
  delete_session |-> [stops |-> FALSE, names |-> TRUE], list_providers |-> [stops |-> FALSE, names |-> FALSE]]

\* The errors of a call: send looks at the stop before and while it waits.
CallErrors(c) ==
  IF stop /\ Api[c].stops THEN {"cancelled"}
  ELSE {IF a = "missing" /\ Api[c].names THEN "session_unavailable" ELSE AnswerErrors[a] : a \in DOMAIN AnswerErrors}
Answers(c) == ~(stop /\ Api[c].stops) /\ server = "up"

\* run_on_server fails: the stream is dropped; the session, if it is known, is aborted and, when
\* it was made for this turn alone, deleted; the server is stopped in any case.  What the session
\* goes on to do until then is left out.
Fail(error) ==
  /\ result' = error /\ srv' = Quiet /\ wire' = NoStream /\ rd' = Fresh
  /\ stage' = IF session.known THEN "abort" ELSE "stop"

-----------------------------------------------------------------------------
(* The launch and the session.                                             *)

\* validate_account, OpenCodeRoute::parse, checkpoint: what a turn is refused for before the
\* server is launched.
AccountFlaws == [other_product |-> "account_mismatch", other_custody |-> "account_mismatch", no_profile |-> "account_unavailable"]
RouteFlaws == [no_slash |-> "model_unavailable", other_provider |-> "model_unavailable", bad_model |-> "model_unavailable"]
Stopped == IF stop THEN {"cancelled"} ELSE {}

Prepare ==
  /\ stage = "prepare"
  /\ \/ /\ outcome' \in {AccountFlaws[f] : f \in DOMAIN AccountFlaws} \cup {RouteFlaws[f] : f \in DOMAIN RouteFlaws} \cup Stopped
        /\ stage' = "over"
     \/ ~stop /\ stage' = "launch" /\ UNCHANGED outcome
  /\ UNCHANGED <<req, maker, server, session, srv, wire, rd, toolRuns, said, closing, stop, excused, result>>

\* launch_existing, launch_profile, OpenCodeLaunchSpec::allocate and new, into_managed.
LaunchFlaws == [profile |-> "account_unavailable", no_port |-> "provider_unavailable", relative_path |-> "invalid_request",
                runtime |-> "provider_unavailable"]

Launch ==
  /\ stage = "launch"
  /\ \/ /\ outcome' \in {LaunchFlaws[f] : f \in DOMAIN LaunchFlaws} \cup Stopped
        /\ stage' = "over" /\ UNCHANGED server
     \/ ~stop /\ server' = "up" /\ stage' = "session" /\ UNCHANGED outcome
  /\ UNCHANGED <<req, maker, session, srv, wire, rd, toolRuns, said, closing, stop, excused, result>>

\* The session of the turn: created, or the one that is named; session_id refuses an answer of
\* another directory or without an id.  A create whose answer is refused has made a session
\* nobody knows.
OpenSession ==
  /\ stage = "session"
  /\ \/ /\ req.mode \in {"ephemeral", "start"} /\ Answers("create_session")
        /\ \/ /\ session' = [session EXCEPT !.made = TRUE, !.known = TRUE] /\ stage' = "announce"
              /\ UNCHANGED <<srv, wire, rd, result>>
           \/ /\ session' = [session EXCEPT !.made = TRUE]
              /\ \E e \in {"session_unavailable", "invalid_event"} : Fail(e)
     \/ /\ req.mode \in {"ephemeral", "start"} /\ UNCHANGED session
        /\ \E e \in CallErrors("create_session") : Fail(e)
     \/ /\ req.mode = "resume" /\ Answers("get_session")
        /\ session' = [session EXCEPT !.known = TRUE] /\ stage' = "announce" /\ UNCHANGED <<srv, wire, rd, result>>
     \/ /\ req.mode = "resume" /\ UNCHANGED session
        /\ \E e \in CallErrors("get_session") \cup {"session_unavailable"} : Fail(e)
     \/ req.mode = "fork" /\ Fail("capability_unsupported") /\ UNCHANGED session
  /\ UNCHANGED <<req, maker, server, toolRuns, said, closing, stop, excused, outcome>>

\* discover_models and parse_go_models: the catalogue of the connected provider, on a server of
\* its own; what is refused of it.
CatalogFlaws == [not_object |-> "invalid_event", not_connected |-> "account_unavailable", absent |-> "model_unavailable",
  twice |-> "invalid_event", empty |-> "model_unavailable", bad_id |-> "model_unavailable",
  other_route |-> "account_mismatch", bad_label |-> "model_unavailable"]

ListModels ==
  /\ stage = "session" /\ req.mode = "models"
  /\ \/ Answers("list_providers") /\ result' = "completed" /\ stage' = "stop" /\ UNCHANGED <<srv, wire, rd>>
     \/ \E e \in CallErrors("list_providers") \cup {CatalogFlaws[f] : f \in DOMAIN CatalogFlaws} : Fail(e)
  /\ UNCHANGED <<req, maker, server, session, toolRuns, said, closing, stop, excused, outcome>>

\* SessionStarted and TurnStarted; the host may refuse an event.
Announce ==
  /\ stage = "announce"
  /\ \/ stage' = "subscribe" /\ UNCHANGED <<srv, wire, rd, result>>
     \/ Fail("event_limit")
  /\ UNCHANGED <<req, maker, server, session, toolRuns, said, closing, stop, excused, outcome>>

\* "Establish the event stream before the async prompt so no fast response or permission request
\* can race past Alfred."
Subscribe ==
  /\ stage = "subscribe"
  /\ \/ /\ Answers("subscribe") /\ stage' = "prompt" /\ wire' = [NoStream EXCEPT !.open = TRUE]
        /\ UNCHANGED <<srv, rd, result>>
     \/ \E e \in CallErrors("subscribe") : Fail(e)
  /\ UNCHANGED <<req, maker, server, session, toolRuns, said, closing, stop, excused, outcome>>

\* The prompt: a request whose answer is lost may have reached the server all the same.
Prompt ==
  /\ stage = "prompt"
  /\ \/ /\ Answers("prompt_async") /\ stage' = "read" /\ session' = [session EXCEPT !.prompted = TRUE]
        /\ UNCHANGED <<srv, wire, rd, result>>
     \/ /\ \E e \in CallErrors("prompt_async") : Fail(e)
        /\ session' \in {session, [session EXCEPT !.prompted = server = "up"]}
  /\ UNCHANGED <<req, maker, server, toolRuns, said, closing, stop, excused, outcome>>

-----------------------------------------------------------------------------
(* The server.                                                             *)

\* Mutant: a rule for the shell whether or not the turn may use it.
RulesLavish(r) ==
  <<<<"*", "deny">>>>
  \o (IF "filesystem" \in r.caps THEN <<<<"read", r.filesystem>>>> ELSE <<>>)
  \o (IF "patch" \in r.caps THEN <<<<"edit", r.filesystem>>>> ELSE <<>>)
  \o <<<<"bash", r.shell>>>>
  \o (IF "subagents" \in r.caps THEN <<<<"task", r.subagents>>>> ELSE <<>>)
  \o <<<<"external_directory", "deny">>>>

\* permission_rules: all is denied, then what the turn may use has its policy; of the permissions
\* that share a policy one stands for all.
PermissionRules(r) ==
  <<<<"*", "deny">>>>
  \o (IF "filesystem" \in r.caps THEN <<<<"read", r.filesystem>>>> ELSE <<>>)
  \o (IF "patch" \in r.caps THEN <<<<"edit", r.filesystem>>>> ELSE <<>>)
  \o (IF "shell" \in r.caps THEN <<<<"bash", r.shell>>>> ELSE <<>>)
  \o (IF "subagents" \in r.caps THEN <<<<"task", r.subagents>>>> ELSE <<>>)
  \o <<<<"external_directory", "deny">>>>

\* The server goes by the last rule that matches.
RuleFor(p) ==
  LET rules == PermissionRules(maker)
      hits == {i \in 1..Len(rules) : rules[i][1] \in {"*", p}} IN
  rules[CHOOSE i \in hits : \A j \in hits : j <= i][2]

\* What session.error may name (map_error, classify_api_error, OpenCodeGoFailure::error).
\* Mutant: an abort is a failure of the provider.
FailuresBlurred == [
  auth |-> "account_unavailable", other_auth |-> "account_mismatch", output_length |-> "provider_unavailable",
  aborted |-> "provider_unavailable", rate_limit |-> "provider_unavailable", api_auth |-> "account_unavailable",
  unknown |-> "provider_unavailable"]

Failures == [
  auth |-> "account_unavailable", other_auth |-> "account_mismatch", output_length |-> "provider_unavailable",
  aborted |-> "cancelled", rate_limit |-> "provider_unavailable", api_auth |-> "account_unavailable",
  unknown |-> "provider_unavailable"]

\* Frames that end the turn by themselves: one of another session, such as a subagent's, one
\* that does not match the contract, one that is too long.
Odd == [other_session |-> "session_unavailable", bad_frame |-> "invalid_event", bad_id |-> "invalid_event",
        too_long |-> "event_limit"]
Ending == {<<"error", e>> : e \in DOMAIN Failures} \cup {<<"odd", e>> : e \in DOMAIN Odd} \cup {<<"idle">>}

Send(frame) == srv.sent < MaxFrames /\ wire' = [wire EXCEPT !.frames = IF wire.open THEN Append(@, frame) ELSE @]

\* What the server does while the turn follows it: the text grows, or is sent again; the session
\* is idle, or fails; it asks for a tool or uses it.
ServerActs ==
  \/ /\ srv.text < MaxText /\ Send(<<"text", srv.text + 1>>) /\ UNCHANGED toolRuns
     /\ srv' = [srv EXCEPT !.sent = @ + 1, !.text = @ + 1]
  \/ srv.text > 0 /\ Send(<<"text", srv.text>>) /\ srv' = [srv EXCEPT !.sent = @ + 1] /\ UNCHANGED toolRuns
  \/ \E f \in Ending : Send(f) /\ srv' = [srv EXCEPT !.sent = @ + 1, !.idle = TRUE] /\ UNCHANGED toolRuns
  \/ /\ \E p \in Permissions : /\ RuleFor(p) = "ask" /\ p \notin srv.always /\ Send(<<"asked", p>>)
                               /\ srv' = [srv EXCEPT !.sent = @ + 1, !.asking = p]
     /\ UNCHANGED toolRuns
  \/ /\ \E p \in Permissions : (RuleFor(p) = "allow" \/ p \in srv.always) /\ toolRuns' = toolRuns \cup {p}
     /\ UNCHANGED <<srv, wire>>

\* Notices - a tool that starts or ends, a retry, echoes, events of no interest - come by even
\* after the session is idle.
ServerWorks ==
  /\ server = "up" /\ session.prompted /\ srv.asking = "none" /\ stage \in Follows
  /\ \/ ~srv.idle /\ ServerActs
     \/ Send(<<"notice">>) /\ srv' = [srv EXCEPT !.sent = @ + 1] /\ UNCHANGED toolRuns
  /\ UNCHANGED <<req, maker, stage, server, session, rd, said, closing, stop, excused, result, outcome>>

Crash ==
  /\ server = "up" /\ stage # "over" /\ server' = "down"
  /\ UNCHANGED <<req, maker, stage, session, srv, wire, rd, toolRuns, said, closing, stop, excused, result, outcome>>

-----------------------------------------------------------------------------
(* The events.                                                             *)

\* next_chunk and OpenCodeSseDecoder::push: whole frames, and perhaps a piece of the next.  A
\* stop wakes the read; the stream ends with the server; a read may time out.
ReadChunk ==
  /\ stage = "read" /\ rd.batch = <<>> /\ ~rd.terminal
  /\ \/ stop /\ Fail("cancelled")
     \/ /\ ~stop /\ UNCHANGED <<stage, srv, result>>
        /\ \E n \in 1..Len(wire.frames) :
             /\ n <= 2 /\ wire' = [wire EXCEPT !.frames = SubSeq(@, n + 1, Len(@))]
             /\ \E cut \in {FALSE, n < Len(wire.frames)} :
                  rd' = [rd EXCEPT !.batch = SubSeq(wire.frames, 1, n), !.partial = cut]
     \/ ~stop /\ wire.frames = <<>> /\ server = "down" /\ Fail("provider_unavailable")
     \/ ~stop /\ Fail("timed_out")
  /\ UNCHANGED <<req, maker, server, session, toolRuns, said, closing, stop, excused, outcome>>

\* Mutant: every update is told whole.
DeltaWhole(n) == n

\* map_part: what an update of the text adds to what is known of it.
Delta(n) == n - rd.seen

\* map: the kind of a frame; map_tool and map_part: the host is told of text, of a tool that starts
\* or ends and of a retry; map_permission: the server asks.
Kind(f) == f[1]
Told(f) == Kind(f) \in {"text", "notice"}
Asks(f) == Kind(f) = "asked"

\* The frames of a chunk one by one (the loop of run_on_server, OpenCodeEventMapper::map): text
\* is told as what it adds, a tool that starts or ends and a retry are told, idle ends the loop
\* once the chunk is done.
MapFrame ==
  LET f == Head(rd.batch)
      rest == [rd EXCEPT !.batch = Tail(@)] IN
  /\ stage = "read" /\ rd.batch # <<>>
  /\ \/ /\ Kind(f) = "text" /\ rd' = [rest EXCEPT !.told = @ + Delta(f[2]), !.seen = f[2]]
        /\ UNCHANGED <<stage, srv, wire, closing, result>>
     \/ Kind(f) = "notice" /\ rd' = rest /\ UNCHANGED <<stage, srv, wire, closing, result>>
     \/ Told(f) /\ Fail("event_limit") /\ UNCHANGED closing
     \/ Asks(f) /\ stage' = "permit" /\ rd' = rest /\ UNCHANGED <<srv, wire, closing, result>>
     \/ Kind(f) = "idle" /\ rd' = [rest EXCEPT !.terminal = TRUE] /\ UNCHANGED <<stage, srv, wire, closing, result>>
     \/ /\ Kind(f) = "error" /\ Fail(Failures[f[2]])
        /\ closing' = CASE f[2] = "other_auth" -> closing [] f[2] = "aborted" -> "cancelled" [] OTHER -> "failed"
     \/ Kind(f) = "odd" /\ Fail(Odd[f[2]]) /\ UNCHANGED closing
  /\ UNCHANGED <<req, maker, server, session, toolRuns, said, stop, excused, outcome>>

\* After the loop: a frame that is cut off fails the turn although the session is idle.
Finish ==
  /\ stage = "read" /\ rd.terminal /\ rd.batch = <<>>
  /\ \/ rd.partial /\ Fail("invalid_event") /\ UNCHANGED closing
     \/ ~rd.partial /\ Fail("event_limit") /\ UNCHANGED closing
     \/ /\ ~rd.partial /\ closing' = "completed" /\ result' = "completed" /\ stage' = "delete"
        /\ UNCHANGED <<srv, wire, rd>>
  /\ UNCHANGED <<req, maker, server, session, toolRuns, said, stop, excused, outcome>>

-----------------------------------------------------------------------------
(* Permissions.                                                            *)

\* permission_policy: what the turn's own profile says of a permission.
PermissionPolicy(p, r) ==
  CASE p = "read" /\ "filesystem" \in r.caps -> r.filesystem
    [] p = "edit" /\ "patch" \in r.caps -> r.filesystem
    [] p = "bash" /\ "shell" \in r.caps -> r.shell
    [] p = "task" /\ "subagents" \in r.caps -> r.subagents
    [] OTHER -> "deny"

\* resolve_permission: the request is told, then the policy or the user decides.
Permit ==
  LET policy == PermissionPolicy(srv.asking, req) IN
  /\ stage = "permit"
  /\ \/ stop /\ Fail("cancelled")
     \/ ~stop /\ Fail("event_limit")
     \/ /\ ~stop /\ policy # "ask" /\ stage' = "answer" /\ UNCHANGED <<srv, wire, result>>
        /\ rd' = [rd EXCEPT !.heard = "none", !.reply = IF policy = "allow" THEN "once" ELSE "reject"]
     \/ ~stop /\ policy = "ask" /\ stage' = "decide" /\ rd' = [rd EXCEPT !.heard = "none"] /\ UNCHANGED <<srv, wire, result>>
  /\ UNCHANGED <<req, maker, server, session, toolRuns, said, closing, stop, excused, outcome>>

\* HostApprovalBroker: the user answers, or the turn is stopped.
Decide ==
  /\ stage = "decide"
  /\ \/ \E r \in {"once", "always", "reject"} :
          /\ rd' = [rd EXCEPT !.reply = r] /\ stage' = "answer" /\ UNCHANGED <<srv, wire, result>>
          /\ said' = IF r = "reject" THEN said ELSE said \cup {srv.asking}
     \/ stop /\ Fail("cancelled") /\ UNCHANGED said
  /\ UNCHANGED <<req, maker, server, session, toolRuns, closing, stop, excused, outcome>>

\* Mutant: the decision is told before the server has it.
AnswerEager ==
  /\ stage = "answer" /\ stage' = "resolved"
  /\ UNCHANGED <<req, maker, server, session, srv, wire, rd, toolRuns, said, closing, stop, excused, result, outcome>>

\* The reply: a checkpoint, the call.  The server that hears it uses the tool, or does not, and
\* goes on; a reply whose answer is lost may have been heard.
Used == IF rd.reply = "reject" THEN toolRuns ELSE toolRuns \cup {srv.asking}
Answer ==
  /\ stage = "answer"
  /\ \/ /\ Answers("reply_permission") /\ stage' = "resolved" /\ toolRuns' = Used
        /\ rd' = [rd EXCEPT !.heard = rd.reply] /\ UNCHANGED <<wire, result>>
        /\ srv' = [srv EXCEPT !.asking = "none", !.always = IF rd.reply = "always" THEN @ \cup {srv.asking} ELSE @]
     \/ /\ \E e \in CallErrors("reply_permission") : Fail(e)
        /\ toolRuns' \in {toolRuns} \cup (IF server = "up" THEN {Used} ELSE {})
  /\ UNCHANGED <<req, maker, server, session, said, closing, stop, excused, outcome>>

\* ApprovalResolved is told, and the frames go on.
Resolved ==
  /\ stage = "resolved"
  /\ \/ stage' = "read" /\ rd' = [rd EXCEPT !.reply = "none", !.heard = "none"] /\ UNCHANGED <<srv, wire, result>>
     \/ Fail("event_limit")
  /\ UNCHANGED <<req, maker, server, session, toolRuns, said, closing, stop, excused, outcome>>

-----------------------------------------------------------------------------
(* The end.                                                                *)

\* abort_session: its own failure is let go.
Abort ==
  /\ stage = "abort" /\ stage' = "delete"
  /\ \/ server = "up" /\ session' = [session EXCEPT !.aborted = TRUE] /\ UNCHANGED excused
     \/ excused' = TRUE /\ UNCHANGED session
  /\ UNCHANGED <<req, maker, server, srv, wire, rd, toolRuns, said, closing, stop, result, outcome>>

\* Mutant: only a turn that succeeds deletes its session.
DeleteSometimes ==
  /\ stage = "delete" /\ stage' = "stop"
  /\ \/ req.mode = "ephemeral" /\ result = "completed" /\ server = "up" /\ session' = [session EXCEPT !.deleted = TRUE] /\ UNCHANGED excused
     \/ (req.mode # "ephemeral" \/ result # "completed") /\ UNCHANGED <<session, excused>>
  /\ UNCHANGED <<req, maker, server, srv, wire, rd, toolRuns, said, closing, stop, result, outcome>>

\* delete_session for a session of this turn alone; its failure is let go.
Delete ==
  /\ stage = "delete" /\ stage' = "stop"
  /\ \/ req.mode = "ephemeral" /\ server = "up" /\ session' = [session EXCEPT !.deleted = TRUE] /\ UNCHANGED excused
     \/ req.mode # "ephemeral" /\ UNCHANGED <<session, excused>>
     \/ req.mode = "ephemeral" /\ excused' = TRUE /\ UNCHANGED session
  /\ UNCHANGED <<req, maker, server, srv, wire, rd, toolRuns, said, closing, stop, result, outcome>>

\* The server is stopped; a stop that fails is the turn's error when it has no other.
StopServer ==
  /\ stage = "stop" /\ stage' = "over"
  /\ \/ server' = "down" /\ outcome' = result
     \/ UNCHANGED server /\ outcome' = IF result = "completed" THEN "provider_unavailable" ELSE result
  /\ UNCHANGED <<req, maker, session, srv, wire, rd, toolRuns, said, closing, stop, excused, result>>

Step ==
  Prepare \/ Launch \/ OpenSession \/ ListModels \/ Announce \/ Subscribe \/ Prompt \/ MapFrame \/ Finish \/ Permit \/ Answer \/ Resolved
    \/ Abort \/ Delete \/ StopServer

\* Mutant: a read looks at the stop only when a frame has come.
WakeLate == stop /\ wire.frames # <<>> /\ ReadChunk

\* A stop wakes a read and a wait for the user.
Wake == stop /\ (ReadChunk \/ Decide)

Next ==
  \/ \E r, e \in Requests : (r = e \/ (r.mode = "resume" /\ e.mode = "start")) /\ Choose(r, e)
  \/ Step \/ ReadChunk \/ Decide \/ Stop \/ ServerWorks \/ Crash

Spec == Init /\ [][Next]_ocVars
FairSpec == Spec /\ WF_ocVars(Step) /\ WF_ocVars(Wake)

-----------------------------------------------------------------------------
(* Properties.                                                             *)

\* The server uses a tool only by a policy that allows it, of this turn or of the one that made
\* the session, or by the user's word: the rules the session is made with, the policy a request
\* is answered by and the user's replies agree (protocol.rs, permission_rules and
\* permission_policy; runtime.rs, resolve_permission).
ToolsAreGranted ==
  \A p \in toolRuns : PermissionPolicy(p, maker) = "allow" \/ PermissionPolicy(p, req) = "allow" \/ p \in said

\* The host of a completed turn has been told the whole text, each piece once, although the server
\* sends it again and again as it grows (protocol.rs, map_part).
TextIsWhole == closing = "completed" => rd.told = srv.text

\* What the host was told of the turn's end is what run_turn returns: cancelled, failed, or
\* completed unless the server then would not stop (runtime.rs, run_on_server).
ToldAsItEnded ==
  stage = "over" =>
    /\ closing = "cancelled" => outcome = "cancelled"
    /\ closing = "failed" => outcome \notin {"completed", "cancelled"}
    /\ req.mode # "models" => (outcome = "completed" <=> closing = "completed" /\ result = outcome /\ server = "down")

\* A session made for one turn is gone when the turn is over, and the session of a failed turn is
\* not left working, unless a call for it failed (runtime.rs, run_on_server).
NothingIsLeft ==
  stage = "over" /\ session.made /\ session.known /\ ~excused =>
    /\ req.mode = "ephemeral" => session.deleted
    /\ outcome # "completed" /\ result # "completed" => session.aborted

\* A decision is told only once the server has it (runtime.rs, resolve_permission: "The decision
\* was emitted after the authenticated reply succeeded").
ResolvedIsHeard == stage = "resolved" => rd.heard = rd.reply

\* A stopped turn ends, however long the server or the user is silent (transport.rs, next_chunk
\* and send).
OpenCodeStopEnds == stop ~> stage = "over"
=============================================================================
