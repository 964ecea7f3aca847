------------------------------ MODULE CodexSdk ------------------------------
(***************************************************************************)
(* The Codex SDK connection: Alfred's side (codex/sdk_runtime.rs and       *)
(* sdk_protocol.rs) and the Python sidecar that wraps the public SDK       *)
(* (sidecars/codex-sdk, main.py), with the two pipes between them.         *)
(*                                                                         *)
(* The host makes one call at a time.  The sidecar answers its requests in *)
(* order on one thread; a sign-in and a turn go on in worker threads, whose *)
(* lines mix with the answers.  The SDK, the browser and the operating     *)
(* system are external.  A request's id is its method: each call uses one. *)
(***************************************************************************)
EXTENDS Naturals, Sequences, FiniteSets

CONSTANTS
  Launches,     \* {"login", "candidate"}: a first sign-in, or a profile that is signed in
  MaxCalls,     \* bound: calls other than polls
  MaxFaults     \* bound: timeouts, crashes, refused results

VARIABLES
  host,         \* [call, i, wait]: the call, how many requests it sent, and what it waits for
  pending,      \* requests the host waits an answer for
  ops,          \* operations whose events it accepts: "login", "turn"
  heard,        \* [prompt, account, turn]: what the calls have returned
  down, up,     \* requests on their way to the sidecar; frames on their way back
  car,          \* the sidecar: its handler's method, its sign-in, its turn and their workers
  profile,      \* [authed, receipt, purged]
  browser,      \* [at, bridge]: the address the browser calls back, and whether ::1 is bridged
  refused,      \* why frames were refused by ingest
  calls, faults

csVars == <<host, pending, ops, heard, down, up, car, profile, browser, refused, calls, faults>>

Methods == {"capabilities", "login_start", "login_wait", "login_cancel", "account", "logout", "models",
            "thread_start", "thread_resume", "turn_start", "turn_cancel", "approval_decide", "shutdown"}

\* What each call sends, in order.
LoginSends == <<"login_start", "login_wait">>
Sends(call) ==
  CASE call = "login" -> LoginSends
    [] call \in {"poll", "turn"} -> <<"drain", IF call = "poll" THEN "account" ELSE "end">>
    [] call = "start_turn" -> <<"turn_start">>
    [] OTHER -> <<call>>

Idle == [call |-> "none", i |-> 0, wait |-> "none"]
NoCar == [state |-> "none", at |-> "none", login |-> "none", waiter |-> "none", thread |-> FALSE, turn |-> "none", stream |-> "none", status |-> "none"]

TypeOK ==
  /\ pending \subseteq Methods /\ ops \subseteq {"login", "turn"} /\ Len(up) <= 6
  /\ car.state \in {"none", "running", "exited", "dropped"} /\ car.at \in Methods \cup {"none"}
  /\ car.waiter \in {"none", "deferred", "waiting", "leaving", "success", "failure"}
  /\ car.stream \in {"none", "deferred", "begun", "told", "completed", "over"}
  /\ (host.call = "none") <=> (host.wait = "none" /\ host.i = 0)

Init ==
  /\ host = Idle /\ pending = {} /\ ops = {} /\ heard = [prompt |-> FALSE, account |-> FALSE, turn |-> "none"]
  /\ down = <<>> /\ up = <<>> /\ car = NoCar /\ profile = [authed |-> FALSE, receipt |-> FALSE, purged |-> FALSE]
  /\ browser = [at |-> "none", bridge |-> FALSE] /\ refused = {} /\ calls = 0 /\ faults = 0

Fault == faults < MaxFaults /\ faults' = faults + 1

-----------------------------------------------------------------------------
(* Launching: each gate refuses some flaws of what it is given.            *)

\* Release gates are blocked: nothing registers the runtime, so a turn is only ever run by a candidate.
ReleaseGates == {"public_capability_audit", "host_approval", "known_client_enterprise", "sealed_package", "packaged_smoke"}
Registered == ReleaseGates = {}
AccountFlaws == {"other_product", "not_runtime_managed", "other_version", "other_profile", "holds_a_token"}
BindingFlaws == {"inactive_profile", "other_binding", "no_codex_home"}
LaunchFlaws(l) == IF l = "candidate" THEN AccountFlaws \cup BindingFlaws ELSE {"other_product", "inactive_profile"}
PackageFlaws == {"other_runtime", "relative_directory", "linked_directory"}
SidecarFlaws == {"ambient_key", "no_profile", "auth_file", "other_sdk"}
BinaryFlaws == {"no_binary"}

Launch ==
  /\ car.state = "none" /\ ~Registered
  /\ \E l \in Launches : \E f \in LaunchFlaws(l) \cup PackageFlaws \cup SidecarFlaws \cup BinaryFlaws \cup {"none"} :
       /\ car' = [NoCar EXCEPT !.state = IF f = "none" THEN "running" ELSE "dropped"]
       /\ profile' = [profile EXCEPT !.authed = l = "candidate"]
  /\ UNCHANGED <<host, pending, ops, heard, down, up, browser, refused, calls, faults>>

-----------------------------------------------------------------------------
(* The sidecar's main thread: each handler refuses, or acts and answers.   *)

\* Mutant: a sign-in under way does not hold a logout back.
LogoutTurnBusy == car.turn # "none"

LoginBusy == car.login # "none"
NoLogin == car.login = "none"
NoWait == NoLogin \/ car.waiter # "none"
LogoutBusy == car.turn # "none" \/ car.login # "none"
NoThread == ~car.thread \/ car.turn # "none"
NoTurn == car.turn = "none"
NeedsAccount == {"models", "thread_start", "thread_resume"}
SignedOut == ~profile.authed

Refuses(m) ==
  \/ (m = "login_start" /\ LoginBusy)
  \/ (m = "login_wait" /\ NoWait)
  \/ (m = "login_cancel" /\ NoLogin)
  \/ (m = "logout" /\ LogoutBusy)
  \/ (m \in NeedsAccount /\ SignedOut)
  \/ (m = "turn_start" /\ NoThread)
  \/ (m = "turn_cancel" /\ NoTurn)
  \/ m = "approval_decide"

\* Mutant: a worker runs as soon as it is made.
AtOnce(running) == running

\* A worker is made by the handler and started after its answer is written.
Deferred(running) == "deferred"

Acts(m) ==
  CASE m = "login_start" -> [car EXCEPT !.at = m, !.login = "open"]
    [] m = "login_wait" -> [car EXCEPT !.at = m, !.waiter = Deferred("waiting")]
    [] m = "login_cancel" -> [car EXCEPT !.at = m, !.login = "cancelled"]
    [] m = "logout" -> [car EXCEPT !.at = m, !.thread = FALSE]
    [] m \in {"thread_start", "thread_resume"} -> [car EXCEPT !.at = m, !.thread = TRUE]
    [] m = "turn_start" -> [car EXCEPT !.at = m, !.turn = "open", !.stream = Deferred("begun"), !.status = "none"]
    [] m = "turn_cancel" -> [car EXCEPT !.at = m, !.turn = "interrupted"]
    [] OTHER -> [car EXCEPT !.at = m]

Frame(t, id, form) == [type |-> t, id |-> id, form |-> form]

\* Mutant: an error does not say whose it is.
ErrorOfNone(m) == Frame("error", "none", "refused")
ErrorOf(m) == Frame("error", m, "refused")

\* The request is read, checked and given to its handler.
Handle ==
  /\ car.state = "running" /\ car.at = "none" /\ down # <<>>
  /\ LET m == Head(down) IN
     \/ /\ ~Refuses(m) /\ car' = Acts(m) /\ UNCHANGED <<up, faults>>
        /\ profile' = [profile EXCEPT !.authed = @ /\ m # "logout"]
     \/ Refuses(m) /\ up' = Append(up, ErrorOf(m)) /\ UNCHANGED <<car, profile, faults>>
     \/ ~Refuses(m) /\ Fault /\ up' = Append(up, ErrorOf(m)) /\ UNCHANGED <<car, profile>>
  /\ down' = Tail(down) /\ UNCHANGED <<host, pending, ops, heard, browser, refused, calls>>

\* What the SDK may answer and the sidecar passes on, although the host refuses it.
PromptFlaws == {"foreign_address", "no_code"}
SignedInFlaws == {"two_lines", "secret_marker"}
ModelFlaws == {"too_many", "two_lines", "same_twice"}
Flaws(m) ==
  CASE m = "login_start" -> PromptFlaws [] m = "account" -> SignedInFlaws [] m = "models" -> ModelFlaws [] OTHER -> {}

Respond ==
  /\ car.state = "running" /\ car.at # "none"
  /\ \E f \in Flaws(car.at) \cup {"good"} :
       /\ IF f = "good" THEN UNCHANGED faults ELSE Fault
       /\ up' = Append(up, Frame("response", car.at, IF car.at = "account" /\ SignedOut THEN "nobody" ELSE f))
  /\ car' = [car EXCEPT !.at = "none", !.waiter = IF @ = "deferred" THEN "waiting" ELSE @, !.stream = IF @ = "deferred" THEN "begun" ELSE @]
  /\ UNCHANGED <<host, pending, ops, heard, down, profile, browser, refused, calls>>

-----------------------------------------------------------------------------
(* The workers.                                                            *)

\* The user signs in, and the browser calls back at one of localhost's addresses.
CallsBack(a) ==
  /\ heard.prompt /\ browser.at = "none" /\ car.state = "running" /\ car.login = "open" /\ browser' = [browser EXCEPT !.at = a]
  /\ UNCHANGED <<host, pending, ops, heard, down, up, car, profile, refused, calls, faults>>

\* The callback listens on 127.0.0.1; what comes to ::1 is passed on while the bridge stands.
Reaches == browser.at = "v4" \/ (browser.at = "v6" /\ browser.bridge)

\* The wait ends; a credential file that has appeared makes it a failure.
WaitEnds ==
  /\ car.state = "running" /\ car.waiter = "waiting"
  /\ \/ Reaches /\ car.login = "open" /\ profile' = [profile EXCEPT !.authed = TRUE] /\ car' = [car EXCEPT !.waiter = "leaving"] /\ UNCHANGED faults
     \/ car.login = "cancelled" /\ car' = [car EXCEPT !.waiter = "leaving"] /\ UNCHANGED <<profile, faults>>
     \/ Fault /\ car' = [car EXCEPT !.waiter = "leaving", !.login = "failed"] /\ UNCHANGED profile
  /\ UNCHANGED <<host, pending, ops, heard, down, up, browser, refused, calls>>

\* The sign-in is forgotten before its event is written.
WaitPops ==
  /\ car.state = "running" /\ car.waiter = "leaving"
  /\ car' = [car EXCEPT !.waiter = IF car.login = "open" THEN "success" ELSE "failure", !.login = "none"]
  /\ UNCHANGED <<host, pending, ops, heard, down, up, profile, browser, refused, calls, faults>>

WaitTells ==
  /\ car.state = "running" /\ car.waiter \in {"success", "failure"}
  /\ up' = Append(up, Frame("event", "login", car.waiter)) /\ car' = [car EXCEPT !.waiter = "none"]
  /\ UNCHANGED <<host, pending, ops, heard, down, profile, browser, refused, calls, faults>>

\* Started, text, completed; a stream that ends before it is completed, or breaks off after, ends in an error.
Streams ==
  /\ car.state = "running" /\ car.stream \in {"begun", "told", "completed"}
  /\ \/ car.stream = "begun" /\ up' = Append(up, Frame("event", "turn", "text")) /\ car' = [car EXCEPT !.stream = "told"] /\ UNCHANGED faults
     \/ /\ car.stream \in {"begun", "told"} /\ UNCHANGED faults
        /\ \E s \in IF car.turn = "interrupted" THEN {"interrupted", "completed"} ELSE {"completed", "failed"} :
             up' = Append(up, Frame("event", "turn", s)) /\ car' = [car EXCEPT !.stream = "completed", !.status = s]
     \/ car.stream = "completed" /\ car' = [car EXCEPT !.stream = "over"] /\ UNCHANGED <<up, faults>>
     \/ /\ Fault /\ up' = Append(up, Frame("error", "turn", "stream"))
        /\ car' = [car EXCEPT !.stream = "over", !.status = IF @ = "none" THEN "error" ELSE @]
  /\ UNCHANGED <<host, pending, ops, heard, down, profile, browser, refused, calls>>

StreamPops ==
  /\ car.state = "running" /\ car.stream = "over" /\ car' = [car EXCEPT !.stream = "none", !.turn = "none"]
  /\ UNCHANGED <<host, pending, ops, heard, down, up, profile, browser, refused, calls, faults>>

\* The sidecar dies, or the SDK writes a line of its own between its frames.
FrameFlaws == {"duplicate_key", "not_json", "bad_id", "too_long"}
CarFails ==
  /\ car.state = "running" /\ Fault
  /\ \/ car' = [car EXCEPT !.state = "exited", !.at = "none", !.waiter = "none", !.stream = "none"] /\ down' = <<>> /\ UNCHANGED up
     \/ \E f \in FrameFlaws : up' = Append(up, Frame("stray", "none", "flawed")) /\ UNCHANGED <<car, down>>
  /\ UNCHANGED <<host, pending, ops, heard, profile, browser, refused, calls>>

-----------------------------------------------------------------------------
(* The host.                                                               *)

Calls == {"login", "capabilities", "models", "thread_start", "thread_resume", "start_turn", "logout"}

Begin(call) ==
  /\ host = Idle /\ car.state \in {"running", "exited"}
  /\ \/ call = "poll" /\ heard.prompt /\ ~heard.account /\ UNCHANGED calls
     \/ /\ call \in Calls /\ calls < MaxCalls /\ calls' = calls + 1 /\ (call = "login" => ~heard.prompt)
        /\ (call \notin {"login", "logout"} => "login" \notin ops)
        /\ (call = "start_turn" => "turn" \notin ops)
     \/ call = "turn" /\ "turn" \in ops /\ UNCHANGED calls
  /\ host' = [call |-> call, i |-> 1, wait |-> IF Sends(call)[1] = "drain" THEN "drain" ELSE "send"]
  /\ heard' = [heard EXCEPT !.turn = IF call \in {"turn", "start_turn"} THEN "none" ELSE @]
  /\ UNCHANGED <<pending, ops, down, up, car, profile, browser, refused, faults>>

\* A call that fails is over; all but a poll drop the connection, which kills the sidecar.
Drops(call) == call # "poll"
Failed ==
  /\ host' = Idle
  /\ IF Drops(host.call)
     THEN car' = [NoCar EXCEPT !.state = "dropped"] /\ down' = <<>> /\ browser' = [browser EXCEPT !.bridge = FALSE]
     ELSE UNCHANGED <<car, down, browser>>

\* What a request is refused for before it is sent.
ParamFlaws(m) == IF m \in {"thread_start", "thread_resume", "turn_start"} THEN {"two_lines", "too_long", "bad_id"} ELSE {}

\* encode_request: an id that still waits for its answer is not used again.
Send ==
  /\ host.wait = "send"
  /\ LET m == Sends(host.call)[host.i] IN
     \/ (m \in pending \/ car.state = "exited") /\ Failed /\ UNCHANGED <<pending, faults>>
     \/ ParamFlaws(m) # {} /\ Fault /\ Failed /\ UNCHANGED pending
     \/ /\ m \notin pending /\ car.state = "running" /\ pending' = pending \cup {m} /\ down' = Append(down, m)
        /\ host' = [host EXCEPT !.wait = m] /\ UNCHANGED <<car, browser, faults>>
  /\ UNCHANGED <<ops, heard, up, profile, refused, calls>>

\* An event is expected for an operation that goes on, and of its kind.
Expected(f) == f.id \in ops

\* ingest: a frame is refused unless somebody waits for it.
Refusal(f) ==
  CASE f.type = "stray" -> "malformed_frame"
    [] f.type = "response" /\ f.id \notin pending -> "unknown_request"
    [] f.type = "event" /\ ~Expected(f) -> "unknown_operation"
    [] f.type = "error" /\ f.id \notin pending \cup ops -> IF f.form = "stream" THEN "stream_after_end" ELSE "unknown_request"
    [] OTHER -> "none"

Terminal(f) == f.type = "event" /\ f.form # "text"
PendingAfter(f) == IF Refusal(f) = "none" /\ f.type # "event" THEN pending \ {f.id} ELSE pending
OpsAfter(f) == IF Refusal(f) = "none" /\ (Terminal(f) \/ f.type = "error") THEN ops \ {f.id} ELSE ops

\* Mutant: an interrupted turn counts as completed.
AnyEnd(f) == IF f.type = "error" THEN "error" ELSE "completed"

\* What the turn's last frame is told as.
TurnEnd(f) == IF f.type = "error" THEN "error" ELSE f.form

Moves(h) == host' = h /\ UNCHANGED <<car, down, browser>>

\* The answer a call waits for: its contents are checked, and the call goes on or returns.
Answered(f) ==
  \/ f.form \notin {"good", "nobody"} /\ Failed /\ ops' = OpsAfter(f) /\ UNCHANGED <<heard, profile, faults>>
  \/ /\ f.form \in {"good", "nobody"} /\ host.call = "login" /\ host.i = 1 /\ ops' = ops \cup {"login"}
     /\ Moves([host EXCEPT !.i = 2, !.wait = "send"]) /\ UNCHANGED <<heard, profile, faults>>
  \/ /\ f.form \in {"good", "nobody"} /\ host.call = "login" /\ host.i = 2 /\ ops' = ops /\ host' = Idle
     /\ heard' = [heard EXCEPT !.prompt = TRUE]
     /\ \/ browser' = [browser EXCEPT !.bridge = TRUE] /\ UNCHANGED faults
        \/ browser' = browser /\ Fault
     /\ UNCHANGED <<car, down, profile>>
  \/ /\ f.form \in {"good", "nobody"} /\ host.call \in {"poll", "account"} /\ ops' = ops /\ Moves(Idle)
     /\ heard' = [heard EXCEPT !.account = f.form = "good"] /\ UNCHANGED <<profile, faults>>
  \/ /\ f.form = "good" /\ host.call = "logout" /\ ops' = ops /\ host' = Idle
     /\ car' = [NoCar EXCEPT !.state = "dropped"] /\ down' = <<>> /\ browser' = [browser EXCEPT !.bridge = FALSE]
     /\ profile' = [profile EXCEPT !.receipt = TRUE] /\ UNCHANGED <<heard, faults>>
  \/ /\ f.form = "good" /\ host.call \notin {"login", "poll", "account", "logout"} /\ Moves(Idle)
     /\ ops' = ops \cup (IF host.call = "start_turn" THEN {"turn"} ELSE {}) /\ UNCHANGED <<heard, profile, faults>>

\* Mutant: the completion is read and nothing is asked.
PollGoesOn(f) == host

\* poll_chatgpt_account, on a frame: a completion makes it ask for the account; the answer to an earlier poll
\* that gave up is taken too.
PollAfter(f) ==
  IF f.type = "event" /\ f.id = "login" /\ f.form = "success" THEN [host EXCEPT !.i = 2, !.wait = "send"]
  ELSE IF f.type = "response" /\ f.id = "account" THEN Idle ELSE host

PollFails(f) == f.type = "error" \/ (f.type = "event" /\ f.form = "failure") \/ (f.type = "response" /\ f.form \notin {"good", "nobody"})

Drained(f) ==
  /\ ops' = OpsAfter(f)
  /\ \/ host.call = "poll" /\ PollFails(f) /\ Failed /\ UNCHANGED <<heard, profile, faults>>
     \/ /\ host.call = "poll" /\ ~PollFails(f) /\ Moves(PollAfter(f)) /\ UNCHANGED <<profile, faults>>
        /\ heard' = [heard EXCEPT !.account = @ \/ (f.type = "response" /\ f.id = "account" /\ f.form = "good")]
     \/ /\ host.call = "turn" /\ (f.id # "turn" \/ ~(Terminal(f) \/ f.type = "error")) /\ Moves(host) /\ UNCHANGED <<heard, profile, faults>>
     \/ /\ host.call = "turn" /\ f.id = "turn" /\ (Terminal(f) \/ f.type = "error") /\ Moves(Idle)
        /\ heard' = [heard EXCEPT !.turn = TurnEnd(f)] /\ UNCHANGED <<profile, faults>>

\* wait_for_response passes events over; the wait of a logout does not.
Passed(f) == f.type = "event" /\ host.call # "logout"

Receive ==
  /\ host.wait \notin {"none", "send"} /\ up # <<>> /\ car.state # "dropped"
  /\ LET f == Head(up) IN
     /\ up' = Tail(up) /\ pending' = PendingAfter(f)
     /\ refused' = (IF Refusal(f) = "none" THEN refused ELSE refused \cup {Refusal(f)})
     /\ \/ Refusal(f) # "none" /\ Failed /\ ops' = ops /\ UNCHANGED <<heard, profile, faults>>
        \/ Refusal(f) = "none" /\ host.wait = "drain" /\ Drained(f)
        \/ Refusal(f) = "none" /\ host.wait # "drain" /\ f.type = "response" /\ f.id = host.wait /\ Answered(f)
        \/ /\ Refusal(f) = "none" /\ host.wait # "drain" /\ Passed(f) /\ ops' = OpsAfter(f)
           /\ Moves(host) /\ UNCHANGED <<heard, profile, faults>>
        \/ /\ Refusal(f) = "none" /\ host.wait # "drain" /\ ~Passed(f) /\ (f.type # "response" \/ f.id # host.wait)
           /\ ops' = OpsAfter(f) /\ Failed /\ UNCHANGED <<heard, profile, faults>>
  /\ UNCHANGED calls

\* The time is up: a poll has found nothing, anything else has failed and its request stays pending.
TimesOut ==
  /\ \/ host.call = "poll" /\ host.wait = "drain" /\ host' = Idle /\ UNCHANGED <<car, down, browser, faults>>
     \/ host.wait \in Methods \cup (IF host.call = "turn" THEN {"drain"} ELSE {}) /\ Fault /\ Failed
  /\ UNCHANGED <<pending, ops, heard, up, profile, refused, calls>>

\* The pipe is drained and the process has exited.
SeesExit ==
  /\ car.state = "exited" /\ up = <<>> /\ host.wait \notin {"none", "send"} /\ pending' = {} /\ ops' = {}
  /\ Failed /\ UNCHANGED <<heard, up, profile, refused, calls, faults>>

\* A cancel is sent while the sign-in or the turn is read.
Cancels(m) ==
  /\ host.call = (IF m = "turn_cancel" THEN "turn" ELSE "poll") /\ host.wait = "drain" /\ m \notin pending /\ car.state = "running"
  /\ calls < MaxCalls /\ calls' = calls + 1 /\ pending' = pending \cup {m} /\ down' = Append(down, m)
  /\ UNCHANGED <<host, ops, heard, up, car, profile, browser, refused, faults>>

\* Only a receipt lets the profile be purged.
Purge ==
  /\ profile.receipt /\ ~profile.purged /\ profile' = [profile EXCEPT !.purged = TRUE]
  /\ UNCHANGED <<host, pending, ops, heard, down, up, car, browser, refused, calls, faults>>

Host == \E c \in Calls : Begin(c)
Polls == Begin("poll") \/ Begin("turn")
Works == Send \/ Receive \/ SeesExit
Sidecar == Handle \/ Respond \/ WaitEnds \/ WaitPops \/ WaitTells \/ Streams \/ StreamPops

Next == Launch \/ Host \/ Polls \/ Works \/ TimesOut \/ Cancels("turn_cancel") \/ Cancels("login_cancel") \/ Purge \/ Sidecar \/ CarFails \/ \E a \in {"v4", "v6"} : CallsBack(a)

Spec == Init /\ [][Next]_csVars
Fairness == WF_csVars(Polls) /\ WF_csVars(Send) /\ SF_csVars(Receive) /\ WF_csVars(SeesExit) /\ WF_csVars(Handle) /\ WF_csVars(Respond)
  /\ WF_csVars(WaitEnds) /\ WF_csVars(WaitPops) /\ WF_csVars(WaitTells) /\ WF_csVars(Streams) /\ WF_csVars(StreamPops)
FairSpec == Spec /\ Fairness

-----------------------------------------------------------------------------
(* Properties.                                                             *)

\* The host understands every frame the sidecar sends, whichever thread wrote it: an answer or an event whose
\* request or operation it does not know is only ever the error of a stream that broke off after its turn's end
\* (dispatch starts a worker after its answer, track_login_operation comes before login_wait).
IngestAccepts == refused \subseteq {"malformed_frame", "stream_after_end"}

\* A request that is pending still has its answer to come: it is on its way, being handled, or answered, unless
\* the sidecar is gone (ingest removes it by an answer or an error, encode_request never reuses it).
PendingIsAnswered ==
  \A m \in pending :
    \/ car.state # "running" \/ car.at = m \/ \E i \in DOMAIN down : down[i] = m
    \/ \E i \in DOMAIN up : up[i].type \in {"response", "error"} /\ up[i].id = m

\* A receipt, and so a purge, means the profile is signed out and nothing can sign it in again: no sign-in was
\* under way when the logout was acknowledged (logout_and_stop, _logout).
ReceiptAfterLogout == profile.receipt => (~profile.authed /\ car.state = "dropped")

\* A turn is reported ended as the SDK ended it (EventMapper, _stream_turn).
TurnEndsAsItDid == (heard.turn # "none" /\ car.state = "running" /\ car.stream # "none") => heard.turn = car.status

\* A sign-in the browser finished is reported as an account, if nothing fails and the connection is kept.
LoginIsReported ==
  (browser.at # "none" /\ car.login = "open")
    ~> (heard.account \/ faults > 0 \/ car.state = "dropped" \/ car.login = "cancelled")
=============================================================================
