------------------------------ MODULE ApiTurn ------------------------------
(***************************************************************************)
(* A turn of the runtimes that talk to a provider's HTTP API themselves:   *)
(* Claude (providers/claude/mod.rs, wire.rs, transport.rs), Grok           *)
(* (providers/grok/mod.rs) and Gemini (providers/gemini/runtime.rs,        *)
(* protocol.rs, transport.rs, credential.rs).                              *)
(*                                                                         *)
(* A turn is a bounded number of rounds: a request, the stream of its      *)
(* answer, then the tools the answer calls, whose results go into the next *)
(* request.  The three differ in what a frame means, when an answer is     *)
(* whole, and what is done at the bound.  The user may stop the turn at    *)
(* any moment.                                                             *)
(***************************************************************************)
EXTENDS Naturals, Sequences, FiniteSets

CONSTANTS
  Apis,         \* the runtimes that are tried, of {"claude", "grok", "gemini"}
  MaxRounds,    \* MAX_TOOL_ITERATIONS and MAX_TOOL_ROUNDS
  MaxCalls,     \* MAX_FUNCTION_CALLS_PER_ROUND
  MaxFrames     \* bound: frames of one answer

VARIABLES
  api, op,      \* the runtime, and the call: "validate", "models" or "turn"
  stage,        \* where the call is
  round,
  got,          \* what the answer has held so far
  todo,         \* calls of a whole answer that are still to be run
  ran,          \* calls that were run: <<round, place>>
  answered,     \* calls whose results a request has carried
  emitted,      \* what the host was told
  stop,         \* the turn was stopped
  why,          \* what the provider or the account did wrong, "" for nothing
  outcome       \* <<code, retryable>>

apiVars == <<api, op, stage, round, got, todo, ran, answered, emitted, stop, why, outcome>>

NoOutcome == <<"none", FALSE>>
Fresh == [frames |-> 0, text |-> FALSE, id |-> FALSE, calls |-> <<>>, open |-> FALSE, finish |-> "none", partial |-> FALSE]
Codes == {"none", "completed", "cancelled", "timed_out", "account_mismatch", "account_unavailable", "model_unavailable",
  "permission_denied", "invalid_request", "invalid_event", "event_limit", "provider_unavailable",
  "capability_unsupported", "session_unavailable"}

TypeOK ==
  /\ api \in Apis \cup {"none"} /\ op \in {"none", "validate", "models", "turn"}
  /\ stage \in {"idle", "account", "call", "request", "stream", "tools", "over"}
  /\ round \in 0..(MaxRounds + 1) /\ Len(got.calls) <= MaxCalls + 1
  /\ ran \subseteq (1..(MaxRounds + 1)) \X (1..MaxCalls) /\ answered \subseteq ran
  /\ stop \in BOOLEAN /\ outcome[1] \in Codes /\ outcome[2] \in BOOLEAN

Init ==
  /\ api = "none" /\ op = "none" /\ stage = "idle" /\ round = 0 /\ got = Fresh /\ todo = <<>>
  /\ ran = {} /\ answered = {} /\ emitted = <<>> /\ stop = FALSE /\ why = "" /\ outcome = NoOutcome

Choose(a, o) ==
  /\ stage = "idle" /\ api' = a /\ op' = o /\ stage' = "account"
  /\ UNCHANGED <<round, got, todo, ran, answered, emitted, stop, why, outcome>>

End(code, retry, because) ==
  /\ outcome' = <<code, retry>> /\ stage' = "over" /\ why' = because
  /\ got' = Fresh /\ todo' = <<>>

Stop ==
  /\ stage \in {"request", "stream", "tools"} /\ ~stop /\ stop' = TRUE
  /\ UNCHANGED <<api, op, stage, round, got, todo, ran, answered, emitted, why, outcome>>

Emit(e) == emitted' = IF emitted # <<>> /\ emitted[Len(emitted)] = e THEN emitted ELSE Append(emitted, e)

-----------------------------------------------------------------------------
(* The account's key, and the HTTP answers.                                *)

\* What each runtime refuses of an account: one of another provider, no key of Alfred's own,
\* a key that is not shaped like the provider's.
ClaudeAccount == [other_provider |-> "account_mismatch", other_credential |-> "account_mismatch",
                  no_key |-> "account_unavailable", bad_key |-> "account_unavailable"]
GrokAccount == [other_provider |-> "account_mismatch", no_key |-> "account_unavailable", bad_key |-> "account_unavailable"]
GeminiAccount == [other_credential |-> "account_unavailable", borrowed_key |-> "account_unavailable",
                  no_key |-> "account_unavailable", bad_key |-> "account_unavailable"]
Accounts == [claude |-> ClaudeAccount, grok |-> GrokAccount, gemini |-> GeminiAccount]

\* The failures of an answer, as code and whether a retry may help.
ClaudeStatus == [bad_request |-> <<"invalid_request", FALSE>>, context_limit |-> <<"invalid_request", FALSE>>,
  key_rejected |-> <<"account_unavailable", FALSE>>, billing |-> <<"account_unavailable", FALSE>>,
  forbidden |-> <<"permission_denied", FALSE>>, no_model |-> <<"model_unavailable", FALSE>>,
  too_large |-> <<"invalid_request", FALSE>>, rate_limit |-> <<"provider_unavailable", TRUE>>,
  overloaded |-> <<"provider_unavailable", TRUE>>, server_error |-> <<"provider_unavailable", TRUE>>,
  odd_status |-> <<"invalid_request", FALSE>>]
GrokStatus == [key_rejected |-> <<"account_unavailable", FALSE>>, key_revoked |-> <<"account_unavailable", FALSE>>,
  rate_limit |-> <<"provider_unavailable", TRUE>>, safety |-> <<"provider_unavailable", FALSE>>,
  server_error |-> <<"provider_unavailable", TRUE>>]

\* Mutant: every refusal of Gemini is worth a retry.
GeminiStatusHopeful == [bad_request |-> <<"invalid_request", FALSE>>, key_rejected |-> <<"account_unavailable", TRUE>>,
  no_model |-> <<"model_unavailable", FALSE>>, rate_limit |-> <<"provider_unavailable", TRUE>>,
  server_error |-> <<"provider_unavailable", TRUE>>, odd_status |-> <<"provider_unavailable", FALSE>>]

GeminiStatus == [bad_request |-> <<"invalid_request", FALSE>>, key_rejected |-> <<"account_unavailable", FALSE>>,
  no_model |-> <<"model_unavailable", FALSE>>, rate_limit |-> <<"provider_unavailable", TRUE>>,
  server_error |-> <<"provider_unavailable", TRUE>>, odd_status |-> <<"provider_unavailable", FALSE>>]

\* The network, the same for all: a timeout, or the API is not reached.
Network == [timeout |-> <<"timed_out", FALSE>>, unreachable |-> <<"provider_unavailable", TRUE>>]
Statuses == [claude |-> ClaudeStatus, grok |-> GrokStatus, gemini |-> GeminiStatus]

\* An error event inside a stream is classified like a status; Claude knows a few fewer.
StreamErrors(a) == IF a = "claude" THEN DOMAIN ClaudeStatus \ {"odd_status"} ELSE DOMAIN Statuses[a]

CheckAccount ==
  /\ stage = "account"
  /\ \/ \E f \in DOMAIN Accounts[api] : End(Accounts[api][f], FALSE, f)
     \/ stage' = "call" /\ UNCHANGED <<got, todo, why, outcome>>
  /\ UNCHANGED <<api, op, round, ran, answered, emitted, stop>>

\* validate_account: Grok asks the provider, the others only look at the key.
ValidateAccount ==
  /\ stage = "call" /\ op = "validate"
  /\ \/ End("completed", FALSE, "")
     \/ api = "grok" /\ \E s \in DOMAIN GrokStatus : End(GrokStatus[s][1], GrokStatus[s][2], s)
  /\ UNCHANGED <<api, op, round, ran, answered, emitted, stop>>

\* What parse_model_catalog, discover_models and parse_models refuse of a catalogue; Gemini
\* leaves out entries it cannot use, and all three refuse an empty one.
ClaudeCatalog == {"not_json", "no_list", "too_many", "bad_id", "bad_label", "empty"}
GrokCatalog == {"empty"}
GeminiCatalog == {"not_json", "no_list", "empty"}
CatalogFlaws == [claude |-> ClaudeCatalog, grok |-> GrokCatalog, gemini |-> GeminiCatalog]

DiscoverModels ==
  /\ stage = "call" /\ op = "models"
  /\ \/ End("completed", FALSE, "")
     \/ \E f \in CatalogFlaws[api] : End("model_unavailable", FALSE, f)
     \/ \E s \in DOMAIN Statuses[api] : End(Statuses[api][s][1], Statuses[api][s][2], s)
     \/ api # "grok" /\ End("event_limit", FALSE, "oversized_body")
     \/ api # "grok" /\ End(IF api = "claude" THEN "provider_unavailable" ELSE "model_unavailable", FALSE, "not_utf8")
     \/ \E n \in DOMAIN Network : End(Network[n][1], Network[n][2], n)
  /\ UNCHANGED <<api, op, round, ran, answered, emitted, stop>>

-----------------------------------------------------------------------------
(* The request of a round.                                                 *)

\* What is wrong with the prompt of a turn: Grok takes ephemeral turns only, and neither tool
\* blocks nor keys in its context; Gemini's model goes into a path.
ClaudeRequest == {}
GrokRequest == {"session", "key_in_context", "tool_block"}
GeminiRequest == {"model_path"}
RequestFlaws == [claude |-> ClaudeRequest, grok |-> GrokRequest, gemini |-> GeminiRequest]

\* run_turn begins: refused, or the turn has started.
StartTurn ==
  /\ stage = "call" /\ op = "turn"
  /\ \/ \E f \in RequestFlaws[api] \ {"model_path"} :
          /\ End(IF f = "session" THEN "session_unavailable" ELSE "invalid_request", FALSE, f)
          /\ IF f = "session" THEN UNCHANGED emitted ELSE Emit("started")
     \/ stage' = "request" /\ Emit("started") /\ UNCHANGED <<got, todo, why, outcome>>
  /\ UNCHANGED <<api, op, round, ran, answered, stop>>

\* Mutant: the results of an earlier round only go into the next request.
SendForgets == ran \ answered

\* initial_messages, build_request_body, initial_request and build_generate_request: a request
\* carries every result there is: Claude and Gemini send the whole conversation again, Grok the
\* one result that is new, under the id of the answer before.
Carried == ran

\* stream_messages, stream_response and stream_generate: a checkpoint, the request, its status.
SendRequest ==
  /\ stage = "request"
  /\ IF stop THEN End("cancelled", FALSE, "") /\ UNCHANGED <<round, answered>>
     ELSE \/ /\ stage' = "stream" /\ round' = round + 1 /\ got' = Fresh /\ answered' = Carried
             /\ UNCHANGED <<todo, why, outcome>>
          \/ /\ \/ \E s \in DOMAIN Statuses[api] : End(Statuses[api][s][1], Statuses[api][s][2], s)
                \/ \E n \in DOMAIN Network : End(Network[n][1], Network[n][2], n)
                \/ api = "gemini" /\ round = 0 /\ End("invalid_request", FALSE, "model_path")
             /\ UNCHANGED <<round, answered>>
  /\ UNCHANGED <<api, op, ran, emitted, stop>>

-----------------------------------------------------------------------------
(* The stream of an answer.                                                *)

\* The frames that carry an answer.  A call has a flaw that its tool request may be refused for.
CallFlaws == {"none", "unknown_tool", "bad_arguments", "other_fields", "key_in_arguments"}
ClaudeFrames == {<<"text">>, <<"call", "open">>, <<"call", "close">>, <<"other">>, <<"finish", "message_stop">>}
GrokFrames == {<<"id">>, <<"text">>, <<"call", "whole">>, <<"other">>, <<"finish", "completed">>}
GeminiFrames == {<<"text">>, <<"call", "whole">>, <<"other">>, <<"finish", "stop">>, <<"finish", "max_tokens">>,
  <<"finish", "bad_call">>, <<"finish", "odd">>}
Frames == [claude |-> ClaudeFrames, grok |-> GrokFrames, gemini |-> GeminiFrames]

\* What ends the stream at once: an error event, bytes that are no event, more than the limits
\* allow, a refusal of Gemini's filters.  Claude decodes each chunk of bytes by itself, so a
\* character that lies across two chunks ends the turn; Gemini decodes whole events.
ClaudeBroken == [bad_event |-> "invalid_event", split_character |-> "invalid_event", too_long |-> "event_limit",
                 bad_tool_input |-> "invalid_request"]
GrokBroken == [bad_event |-> "invalid_event", bad_id |-> "invalid_event", too_long |-> "event_limit"]
GeminiBroken == [bad_event |-> "invalid_event", too_long |-> "event_limit", blocked |-> "provider_unavailable"]
Broken == [claude |-> ClaudeBroken, grok |-> GrokBroken, gemini |-> GeminiBroken]

\* accept, the frames of run_turn, and the events of stream_round: the effect of one frame.
\* Grok refuses a second call, Gemini a second finish and too many calls.
Take(f, cf) ==
  LET g == [got EXCEPT !.frames = @ + 1] IN
  CASE f[1] = "text" -> [g EXCEPT !.text = TRUE]
    [] f[1] = "id" -> [g EXCEPT !.id = TRUE]
    [] f[1] = "call" /\ f[2] = "open" -> [g EXCEPT !.open = TRUE]
    [] f[1] = "call" /\ f[2] = "close" -> IF got.open THEN [g EXCEPT !.open = FALSE, !.calls = Append(@, cf)] ELSE g
    [] f[1] = "call" /\ f[2] = "whole" -> [g EXCEPT !.calls = Append(@, cf)]
    [] f[1] = "finish" -> [g EXCEPT !.finish = f[2]]
    [] f[1] = "other" -> g
Refused(f) ==
  CASE api = "grok" /\ f[1] = "call" /\ got.calls # <<>> -> <<"invalid_event", FALSE, "second_call">>
    [] api = "gemini" /\ f[1] = "call" /\ Len(got.calls) >= MaxCalls -> <<"event_limit", FALSE, "too_many_calls">>
    [] api = "gemini" /\ f[1] = "finish" /\ got.finish # "none" -> <<"invalid_event", FALSE, "second_finish">>
    [] OTHER -> <<>>

\* stream_once, the frame loop of run_turn, and stream_round: a checkpoint before every chunk.
\* Claude stops at message_stop, the others read to the end.
Receive ==
  /\ stage = "stream"
  /\ IF stop THEN End("cancelled", FALSE, "") /\ UNCHANGED emitted
     ELSE \/ \E f \in Frames[api], cf \in CallFlaws :
               /\ ((f[1] = "call" /\ f[2] # "open") \/ cf = "none")
               /\ got.frames < MaxFrames /\ ~(api = "claude" /\ got.finish # "none")
               /\ (api = "claude" => Len(got.calls) < MaxCalls)
               /\ IF Refused(f) # <<>>
                    THEN End(Refused(f)[1], Refused(f)[2], Refused(f)[3]) /\ UNCHANGED emitted
                    ELSE /\ got' = Take(f, cf) /\ UNCHANGED <<stage, todo, why, outcome>>
                         /\ IF f[1] = "text" THEN Emit("text") ELSE UNCHANGED emitted
          \/ /\ \/ \E b \in DOMAIN Broken[api] : End(Broken[api][b], FALSE, b)
                \/ \E s \in StreamErrors(api) : End(Statuses[api][s][1], Statuses[api][s][2], s)
                \/ api # "grok" /\ \E n \in DOMAIN Network : End(Network[n][1], Network[n][2], n)
             /\ ~(api = "claude" /\ got.finish # "none") /\ UNCHANGED emitted
  /\ UNCHANGED <<api, op, round, ran, answered, stop>>

\* Mutant: a stream that ends is an answer.
VerdictTrusting ==
  IF api = "gemini" /\ got.finish \in {"bad_call", "odd"} THEN <<"invalid_event", FALSE, "bad_finish">> ELSE <<>>

\* Whether the answer is whole, once the stream has ended: what is missing otherwise.
Verdict ==
  CASE api = "claude" /\ got.finish = "none" -> <<"provider_unavailable", TRUE, "cut_off">>
    [] api = "grok" /\ got.finish = "none" -> <<"invalid_event", FALSE, "cut_off">>
    [] api = "gemini" /\ got.finish = "none" -> <<"provider_unavailable", TRUE, "cut_off">>
    [] api = "gemini" /\ got.finish = "max_tokens" /\ got.calls # <<>> -> <<"invalid_event", FALSE, "cut_call">>
    [] api = "gemini" /\ got.finish = "bad_call" -> <<"invalid_event", FALSE, "bad_finish">>
    [] api = "gemini" /\ got.finish = "odd" -> <<"provider_unavailable", FALSE, "bad_finish">>
    [] api = "gemini" /\ ~got.text /\ got.calls = <<>> -> <<"provider_unavailable", FALSE, "empty">>
    [] OTHER -> <<>>

\* The bound on rounds.  Grok and Gemini allow one answer more than rounds of tools, and refuse
\* its calls; Claude counts answers, and gives up only after the tools of the last.
Exhausted == IF api = "claude" THEN FALSE ELSE round > MaxRounds

\* Mutant: every whole answer is told as the end of the turn.
AnswerEndsEarly ==
  /\ stage = "stream" /\ ~stop /\ Verdict = <<>>
  /\ emitted' = Append(emitted, "completed")
  /\ IF got.calls = <<>> THEN End("completed", FALSE, "")
     ELSE stage' = "tools" /\ todo' = got.calls /\ UNCHANGED <<got, why, outcome>>
  /\ UNCHANGED <<api, op, round, ran, answered, stop>>

\* The end of an answer: an error, the end of the turn, or its tools.
AnswerEnds ==
  /\ stage = "stream" /\ ~stop
  /\ (api = "claude" => got.finish # "none" \/ got.frames < MaxFrames)
  /\ \/ Verdict # <<>> /\ End(Verdict[1], Verdict[2], Verdict[3]) /\ UNCHANGED emitted
     \/ /\ Verdict = <<>> /\ got.calls = <<>>
        /\ emitted' = emitted \o (IF got.finish = "max_tokens" THEN <<"warning", "completed">> ELSE <<"completed">>)
        /\ End("completed", FALSE, "")
     \/ /\ Verdict = <<>> /\ got.calls # <<>> /\ UNCHANGED emitted
        /\ IF Exhausted THEN End(IF api = "grok" THEN "event_limit" ELSE "invalid_request", FALSE, "rounds")
           ELSE IF api = "grok" /\ ~got.id THEN End("invalid_event", FALSE, "no_id")
           ELSE stage' = "tools" /\ todo' = got.calls /\ UNCHANGED <<got, why, outcome>>
  /\ UNCHANGED <<api, op, round, ran, answered, stop>>

-----------------------------------------------------------------------------
(* The tools.                                                              *)

\* The tools each runtime offers for each grant of the turn, with the fields of their arguments.
ClaudeTools == [
  filesystem |-> [alfred_read_file |-> {"path"}, alfred_write_file |-> {"path", "contents"},
                  alfred_edit_file |-> {"path", "find", "replace"}, alfred_list_directory |-> {"path"}],
  shell |-> [alfred_run_command |-> {"path", "command"}],
  patch |-> [alfred_apply_patch |-> {"path", "patch"}]]
GrokTools == [
  filesystem |-> [alfred_file_read |-> {"path"}, alfred_file_write |-> {"path", "content"},
                  alfred_file_edit |-> {"path", "old_text", "new_text"}, alfred_directory_list |-> {"path"}],
  shell |-> [alfred_shell |-> {"path", "command"}],
  patch |-> [alfred_apply_patch |-> {"path", "patch"}]]
GeminiTools == [
  filesystem |-> [alfred_read_file |-> {"path"}, alfred_write_file |-> {"path", "content"},
                  alfred_edit_file |-> {"path", "content"}, alfred_list_directory |-> {"path"}],
  shell |-> [alfred_run_shell |-> {"path", "command"}],
  patch |-> [alfred_apply_patch |-> {"path", "content"}]]
Tools == [claude |-> ClaudeTools, grok |-> GrokTools, gemini |-> GeminiTools]
Names(a) == UNION {DOMAIN Tools[a][g] : g \in DOMAIN Tools[a]}

\* The call behind a flaw: one of no tool, one whose fields are not those of its tool.
Called(a, flaw) ==
  LET tool == "alfred_apply_patch" IN
  [tool |-> IF flaw = "unknown_tool" THEN "teleport" ELSE tool,
   fields |-> IF flaw = "other_fields" THEN {"path"} ELSE Tools[a].patch[tool],
   flaw |-> flaw]

\* What alfred_tool_request, tool_request and reject_credential_in_call refuse of a call.  Claude
\* does not look for its key in what the model asks, and only Grok compares the fields.
ClaudeToolRequest(c) ==
  CASE c.tool \notin Names("claude") -> "capability_unsupported"
    [] c.flaw = "bad_arguments" -> "invalid_request"
    [] OTHER -> "none"
GrokToolRequest(c) ==
  CASE c.flaw = "key_in_arguments" -> "permission_denied"
    [] c.flaw = "bad_arguments" -> "invalid_event"
    [] c.tool \notin Names("grok") -> "invalid_event"
    [] c.tool \in DOMAIN GrokTools.patch /\ c.fields # GrokTools.patch[c.tool] -> "invalid_event"
    [] OTHER -> "none"
GeminiToolRequest(c) ==
  CASE c.flaw = "key_in_arguments" -> "permission_denied"
    [] c.tool \notin Names("gemini") -> "capability_unsupported"
    [] c.flaw = "bad_arguments" -> "invalid_request"
    [] OTHER -> "none"
ToolRefusal(flaw) ==
  LET c == Called(api, flaw) IN
  CASE api = "claude" -> ClaudeToolRequest(c) [] api = "grok" -> GrokToolRequest(c) [] api = "gemini" -> GeminiToolRequest(c)

\* Mutant: the tools run without a look at the stop.
RunToolBlind ==
  LET place == Len(got.calls) - Len(todo) + 1 IN
  /\ stage = "tools" /\ todo # <<>>
  /\ IF ToolRefusal(Head(todo)) # "none"
       THEN End(ToolRefusal(Head(todo)), FALSE, Head(todo)) /\ UNCHANGED ran
       ELSE ran' = ran \cup {<<round, place>>} /\ todo' = Tail(todo) /\ UNCHANGED <<stage, got, why, outcome>>
  /\ UNCHANGED <<api, op, round, answered, emitted, stop>>

\* One call: a checkpoint, its request, the host, whose own refusal ends the turn; a tool that
\* is denied or fails has a result like any other (tool_result_block, function_result).
RunTool ==
  LET place == Len(got.calls) - Len(todo) + 1 IN
  /\ stage = "tools" /\ todo # <<>>
  /\ IF stop THEN End("cancelled", FALSE, "") /\ UNCHANGED ran
     ELSE IF ToolRefusal(Head(todo)) # "none"
       THEN End(ToolRefusal(Head(todo)), FALSE, Head(todo)) /\ UNCHANGED ran
       ELSE \/ ran' = ran \cup {<<round, place>>} /\ todo' = Tail(todo) /\ UNCHANGED <<stage, got, why, outcome>>
            \/ End("permission_denied", FALSE, "host") /\ UNCHANGED ran
  /\ UNCHANGED <<api, op, round, answered, emitted, stop>>

\* The results are put together for the next request; Claude finds out here that there is none.
NextRound ==
  /\ stage = "tools" /\ todo = <<>>
  /\ IF api = "claude" /\ round = MaxRounds THEN End("invalid_request", FALSE, "rounds")
     ELSE stage' = "request" /\ got' = Fresh /\ UNCHANGED <<todo, why, outcome>>
  /\ UNCHANGED <<api, op, round, ran, answered, emitted, stop>>

Step ==
  CheckAccount \/ ValidateAccount \/ DiscoverModels \/ StartTurn \/ SendRequest \/ AnswerEnds \/ RunTool \/ NextRound

\* Mutant: a stop is only looked at when something has arrived.
WakeLate == stop /\ got.frames > 0 /\ Receive

\* A read that a stop wakes: the transports look at it every ten milliseconds.
Wake == stop /\ Receive

Next == (\E a \in Apis, o \in {"validate", "models", "turn"} : Choose(a, o)) \/ Step \/ Receive \/ Stop

Spec == Init /\ [][Next]_apiVars
FairSpec == Spec /\ WF_apiVars(Step) /\ WF_apiVars(Wake)

-----------------------------------------------------------------------------
(* Properties.                                                             *)

\* A tool runs only for an answer that came whole: never for one that was cut off, that ran into
\* the output limit or named a second call, although frames of calls arrive before the end of the
\* stream does (mod.rs, stream_once; grok, run_turn; gemini, stream_round).
ToolsOfWholeAnswers ==
  stage = "tools" =>
    got.finish = CASE api = "claude" -> "message_stop" [] api = "grok" -> "completed" [] api = "gemini" -> "stop"

\* A request carries the result of every tool that has run, so the provider never sees a call
\* without its result, and a turn that completes has left none unsent (claude, run_turn: "as the
\* API requires").
ResultsAreSent ==
  (stage = "stream" \/ outcome[1] = "completed") => answered = ran

\* A turn is told to have started first and to have completed last, once, and only when it did
\* (runtime.rs and mod.rs, run_turn).
CompletedIsLast ==
  \A i \in 1..Len(emitted) :
    emitted[i] = "completed" => i = Len(emitted) /\ outcome = <<"completed", FALSE>> /\ emitted[1] = "started"

\* A failure worth a retry is one of the provider or the network, never of the key, the request
\* or a tool (wire.rs, ClaudeFailure::retryable; protocol.rs, error_for_status).
RetryIsWorthwhile ==
  outcome[2] => why \in {"rate_limit", "overloaded", "server_error", "unreachable", "cut_off"}

\* Once a turn is stopped, no request is sent and no tool is run (NativeCancellation::checkpoint
\* in the three run_turn).
StoppedDoesNoMore == stop => ran' = ran /\ round' = round

\* A stopped turn ends, however long the provider is silent (transport.rs, next_chunk).
StoppedTurnEnds == stop ~> outcome # NoOutcome
=============================================================================
