--------------------------- MODULE ProviderActions ---------------------------
(***************************************************************************)
(* What the provider adapters (integrations/*.rs) do for one app action:   *)
(* the checks of the input, the requests, the reading of the answers and   *)
(* the error each of them becomes; and the executor around them            *)
(* (integrations/actions.rs), which runs the action under a time limit and *)
(* a cancel flag and repeats it once after a refused credential.           *)
(*                                                                         *)
(* An action is a program: the sequence of its checks, reads and writes.   *)
(* What a write does at the provider is `applied`, whatever the answer.    *)
(***************************************************************************)
EXTENDS Naturals, Sequences, FiniteSets

VARIABLES act,         \* the action under way, "none" before the call
          grant,       \* what the provider granted the connection
          phase,       \* "idle", "load", "run", "refresh", "check", "done"
          step,        \* the step of the action's program
          flying,      \* the write has been sent and is not answered
          attempt,     \* of the executor: 1, and 2 after a refresh
          applied,     \* the writes the provider has carried out
          report,      \* what the caller was told, "none" so far
          flag         \* the cancel flag

vars == <<act, grant, phase, step, flying, attempt, applied, report, flag>>

(***************************************************************************)
(* Steps.  Consecutive checks that end in the same error are one step.     *)
(***************************************************************************)
Check(err) == [do |-> "check", arg |-> err]     \* something is not as it must be
Look == [do |-> "look", arg |-> "Cancelled"]    \* cancellation.is_cancelled()
Read == [do |-> "read", arg |-> "none"]         \* a request without effect
Try == [do |-> "try", arg |-> "none"]           \* a request whose failure is ignored
Write(w) == [do |-> "write", arg |-> w]         \* a request that changes the provider

Input == Check("InvalidInput")
Token == Check("ProviderUnavailable")           \* with_credential: a poisoned lock
Output == Check("OutputInvalid")

(***************************************************************************)
(* What an answer becomes.  "connect": no connection was made; "timeout"   *)
(* and "reset": the request may have gone out and nothing came back; then  *)
(* the statuses; "refused" and "revoked": a success whose body says so;    *)
(* then the successes whose body is empty, too large, breaks off or cannot *)
(* be read.                                                                *)
(***************************************************************************)
Answers == {"ok", "connect", "timeout", "reset", "401", "403", "limit", "404", "409", "429", "500",
            "odd", "refused", "revoked", "null", "huge", "cut", "garbled"}
Certain == {"ok", "null", "huge", "cut", "garbled"}   \* the provider did it
Possible == {"timeout", "reset", "500"}               \* it may have done it

Unless(mutation, code) == IF mutation THEN "DeliveryUnknown" ELSE code

\* The reading of a successful response, the same in every adapter but Slack's and Telegram's.
Body(a, mutation) ==
  CASE a = "huge" -> Unless(mutation, "OutputTooLarge")
    [] a = "cut" -> Unless(mutation, "ProviderUnavailable")
    [] a = "garbled" -> Unless(mutation, "OutputInvalid")
    [] OTHER -> "ok"

\* Mutant: a server error is a refusal, for a write too.
GithubAnswerPlain(a, mutation) ==
  CASE a \in {"connect", "odd", "500"} -> "ProviderUnavailable"
    [] a \in {"timeout", "reset"} -> Unless(mutation, "ProviderUnavailable")
    [] a = "401" -> "ProviderUnauthorized"
    [] a \in {"429", "limit"} -> "RateLimited"
    [] a = "403" -> "ScopeMissing"
    [] a \in {"404", "409"} -> "InvalidInput"
    [] OTHER -> Body(a, mutation)

\* send_github_json, parse_github_response; "limit" is a 403 with a retry-after header or a
\* body that speaks of the secondary limit.
GithubAnswer(a, mutation) ==
  CASE a \in {"connect", "odd"} -> "ProviderUnavailable"
    [] a \in {"timeout", "reset", "500"} -> Unless(mutation, "ProviderUnavailable")
    [] a = "401" -> "ProviderUnauthorized"
    [] a \in {"429", "limit"} -> "RateLimited"
    [] a = "403" -> "ScopeMissing"
    [] a \in {"404", "409"} -> "InvalidInput"
    [] OTHER -> Body(a, mutation)

\* send_graph_json, parse_graph_response: a status it does not know leaves a write in doubt.
GraphAnswer(a, mutation) ==
  CASE a = "connect" -> "ProviderUnavailable"
    [] a \in {"timeout", "reset", "500", "odd", "409"} -> Unless(mutation, "ProviderUnavailable")
    [] a = "401" -> "ProviderUnauthorized"
    [] a \in {"429", "limit"} -> "RateLimited"
    [] a = "403" -> "ScopeMissing"
    [] a = "404" -> "InvalidInput"
    [] OTHER -> Body(a, mutation)

\* send_gmail_json, parse_gmail_response; "limit" is a 403 whose reason is a quota.
GmailAnswer(a, mutation) == GraphAnswer(a, mutation)

\* graphql, parse_linear_response; classify_graphql_errors for a success that lists errors;
\* a success without data leaves a write in doubt.
LinearAnswer(a, mutation) ==
  CASE a \in {"connect", "odd"} -> "ProviderUnavailable"
    [] a \in {"timeout", "reset", "500"} -> Unless(mutation, "ProviderUnavailable")
    [] a \in {"401", "revoked"} -> "ProviderUnauthorized"
    [] a \in {"403", "limit"} -> "ScopeMissing"
    [] a = "429" -> "RateLimited"
    [] a \in {"404", "409", "refused"} -> "InvalidInput"
    [] a = "null" -> Unless(mutation, "OutputInvalid")
    [] OTHER -> Body(a, mutation)

\* request_json, parse_sentry_response.
SentryAnswer(a, mutation) ==
  CASE a \in {"connect", "odd"} -> "ProviderUnavailable"
    [] a \in {"timeout", "reset", "500"} -> Unless(mutation, "ProviderUnavailable")
    [] a = "401" -> "ProviderUnauthorized"
    [] a \in {"403", "limit"} -> "ScopeMissing"
    [] a = "429" -> "RateLimited"
    [] a \in {"404", "409"} -> "InvalidInput"
    [] OTHER -> Body(a, mutation)

\* parse_slack_response: one error for everything that is neither a limit nor a refusal of the token.
SlackTransport(a) ==
  CASE a = "429" -> "RateLimited"
    [] a \in {"401", "403", "limit"} -> "Unauthorized"
    [] a \in {"404", "409", "500", "odd"} -> "Unavailable"
    [] a \in {"huge", "cut", "garbled"} -> "InvalidResponse"
    [] OTHER -> "ok"

\* map_slack_action_error: a success whose body says ok: false.
SlackRefusal(a) ==
  CASE a = "revoked" -> "ProviderUnauthorized"
    [] a = "refused" -> "InvalidInput"
    [] OTHER -> "ok"

\* slack_post_json; slack_get with map_action_transport_error.  A post that breaks off otherwise
\* than by a time limit ("reset") is not taken for a doubtful one.
SlackAnswer(a, mutation) ==
  CASE a \in {"connect", "timeout"} -> Unless(mutation, "ProviderUnavailable")
    [] a = "reset" -> "ProviderUnavailable"
    [] SlackTransport(a) = "RateLimited" -> "RateLimited"
    [] SlackTransport(a) = "Unauthorized" -> "ProviderUnauthorized"
    [] SlackTransport(a) \in {"Unavailable", "InvalidResponse"} -> Unless(mutation, "ProviderUnavailable")
    [] OTHER -> SlackRefusal(a)

\* parse_telegram_response.
TelegramCall(a, dispatch) ==
  CASE a = "connect" -> "Unavailable"
    [] a \in {"timeout", "reset", "500"} -> IF dispatch THEN "Ambiguous" ELSE "Unavailable"
    [] a \in {"huge", "cut", "garbled", "odd", "null"} -> IF dispatch THEN "Ambiguous" ELSE "InvalidResponse"
    [] a = "429" -> "RateLimited"
    [] a \in {"401", "403", "limit", "revoked"} -> "Unauthorized"
    [] a \in {"404", "409", "refused"} -> "Rejected"
    [] OTHER -> "ok"

\* map_action_api_error.
TelegramAnswer(a, mutation) ==
  LET kind == TelegramCall(a, mutation)
  IN  CASE kind = "RateLimited" -> "RateLimited"
        [] kind \in {"Unauthorized", "Rejected"} -> "ConnectionRequired"
        [] kind \in {"Unavailable", "InvalidResponse"} -> "ProviderUnavailable"
        [] kind = "Ambiguous" -> "DeliveryUnknown"
        [] OTHER -> "ok"

\* NotionClient::request with map_notion_status: only ever reads.
NotionAnswer(a) ==
  CASE a = "401" -> "ProviderUnauthorized"
    [] a \in {"403", "limit"} -> "ScopeMissing"
    [] a \in {"404", "409"} -> "InvalidInput"
    [] a = "429" -> "RateLimited"
    [] a \in {"connect", "timeout", "reset", "500", "odd"} -> "ProviderUnavailable"
    [] OTHER -> Body(a, FALSE)

\* Reading the vault.
FileAnswer(a) == IF a = "ok" THEN "ok" ELSE "ProviderUnavailable"

Answer(p, a, mutation) ==
  CASE p = "github" -> GithubAnswer(a, mutation)
    [] p = "microsoft" -> GraphAnswer(a, mutation)
    [] p = "gmail" -> GmailAnswer(a, mutation)
    [] p = "linear" -> LinearAnswer(a, mutation)
    [] p = "sentry" -> SentryAnswer(a, mutation)
    [] p = "slack" -> SlackAnswer(a, mutation)
    [] p = "telegram" -> TelegramAnswer(a, mutation)
    [] p = "notion" -> NotionAnswer(a)
    [] p = "obsidian" -> FileAnswer(a)

(***************************************************************************)
(* GitHub.                                                                 *)
(***************************************************************************)
\* get_repository.
GetRepository == <<Read, Input>>

\* execute: the token, the repository and a look at the flag before the action's own part.
GithubRepository == <<Look, Token, Input>> \o GetRepository \o <<Look>>

CreateIssue == GithubRepository \o <<Input, Write("issue"), Output>>
CommentOnIssue == GithubRepository \o <<Input, Write("comment"), Output>>
CreatePullRequest == GithubRepository \o <<Input, Write("pull"), Output>>
GetIssue == GithubRepository \o <<Input, Read, Output>>
\* list_resources, list_repository_resources: installations, then the repositories of one.
ListRepositories == <<Input, Token, Input, Read, Read>>

\* action_descriptors.
GithubNeeds(a) ==
  {"metadata:read"} \cup CASE a = "get_issue" -> {"issues:read"}
                           [] a = "create_pull_request" -> {"pull_requests:write"}
                           [] OTHER -> {"issues:write"}

\* Mutant: a permission to write is stored as just that.
InstallationScopesPlain(g) == g

\* installation_scopes: a permission to write is stored as the one to read too.
InstallationScopes(g) ==
  g \cup (IF "issues:write" \in g THEN {"issues:read"} ELSE {})
    \cup (IF "pull_requests:write" \in g THEN {"pull_requests:read"} ELSE {})

(***************************************************************************)
(* Microsoft.                                                              *)
(***************************************************************************)
GraphToken == <<Look, Token>>

SendMail == GraphToken \o <<Input, Write("mail")>>
ListRecentMail == GraphToken \o <<Input, Read>>
GetMail == GraphToken \o <<Input, Read, Output>>
CreateCalendarEvent == GraphToken \o <<Input, Write("event"), Output>>
ListGraph == GraphToken \o <<Read, Input>>

\* action_descriptors.
MicrosoftNeeds(a) ==
  CASE a = "send_mail" -> {"Mail.Send"}
    [] a = "create_calendar_event" -> {"Calendars.ReadWrite"}
    [] OTHER -> {"Mail.ReadBasic"}

\* requested_scopes: every capability is asked for in the widest sign-in.
Requested == {"Mail.Send", "Mail.ReadBasic", "Calendars.ReadWrite"}

\* sanitize_granted_scopes: an answer that names no scope means the ones asked for.
SanitizeGranted(g, requested) == IF g = {} THEN requested ELSE g

(***************************************************************************)
(* Linear.                                                                 *)
(***************************************************************************)
LinearToken == <<Look, Token>>

\* resolve_label_ids: the names become ids before the issue is made.
ResolveLabels == <<Input, Read, Input>>
\* issue_summary, linear_issue_context.
LinearIssue == <<Output>>

CreateLinearIssue == LinearToken \o <<Input>> \o ResolveLabels \o <<Look, Write("issue")>> \o LinearIssue
CommentOnLinearIssue == LinearToken \o <<Input, Write("comment"), Output>>
UpdateIssueStatus == LinearToken \o <<Input, Write("status")>> \o LinearIssue
GetLinearIssue == LinearToken \o <<Input, Read, Input>> \o LinearIssue
\* list_teams, list_users, list_states, list_issues: one page each.
LinearPage == <<Read, Output>>
ListLinear == <<Look, Token, Input>> \o LinearPage

\* action_descriptors.
LinearNeeds(a) ==
  {"issues:read"} \cup CASE a = "comment_on_linear_issue" -> {"comments:write"}
                         [] a = "get_linear_issue" -> {}
                         [] OTHER -> {"issues:write"}

\* connect_private_with_service stores the same scopes for every key.
LinearScopes == {"workspace:read", "issues:read", "issues:write", "comments:write"}

(***************************************************************************)
(* Sentry.                                                                 *)
(***************************************************************************)
\* list_projects, list_projects_for_org: the projects of each organization of the connection,
\* from the cache while it is fresh.
OrganizationProjects == <<Check("ConnectionRequired"), Read>>
\* execute: resolve_project_org asks one organization after another until one has the project.
SentryProject == <<Look, Token, Input>> \o OrganizationProjects \o <<Input, Look>>
\* issue_summary.
SentrySummary == <<Output>>
ResolveIssue == <<Read>> \o SentrySummary \o <<Input>>

GetSentryIssue == SentryProject \o ResolveIssue
UpdateSentryStatus == SentryProject \o <<Input>> \o ResolveIssue \o <<Write("status")>> \o SentrySummary
ListProjects == <<Input, Token>> \o OrganizationProjects

\* action_descriptors.
SentryNeeds(a) == IF a = "update_sentry_status" THEN {"event:write"} ELSE {"event:read"}

(***************************************************************************)
(* Slack, Telegram, Gmail, Notion, Obsidian.                               *)
(***************************************************************************)
\* Mutant: the link to the message is asked for like any other answer.
SlackMessageStrict == <<Input, Token, Look, Write("message"), Output, Read>>

\* required_string, validate_message, validate_thread_ts, then execute: a link that cannot be had is left out.
SlackMessage == <<Input, Token, Look, Write("message"), Output, Try>>
ListConversations == <<Input, Token, Look, Read>>
SlackNeeds == {"chat:write", "channels:read"}

\* execute: the send lock, record_send_attempt, send_message (which looks at the chat of the answer).
TelegramMessage ==
  <<Input, Look, Token, Check("ConnectionRequired"), Look, Check("RateLimited"),
    Write("message"), Check("DeliveryUnknown")>>

SendEmail == <<Look, Token, Check("ConnectionRequired"), Input, Write("mail"), Output>>
GmailNeeds == {"gmail.send"}

\* document_result, structured_result: the sources of a knowledge result are checked again.
KnowledgeResult == <<Output>>

\* execute_search, execute_query: up to five pages; one stands for them.
SearchResources == <<Token, Input, Look, Read>> \o KnowledgeResult
QueryDatabase == <<Token, Input, Look, Read>> \o KnowledgeResult
\* page_blocks, all_block_children: a walk of the blocks; one read stands for them.
PageBlocks == <<Look, Read>>
GetPage == <<Token, Input, Read, Input, Output>> \o PageBlocks \o KnowledgeResult
ListNotion == <<Look, Input, Token, Read, Look>>
NotionNeeds == {"search", "read_content"}

\* path_from_tokens, validate_saved_vault.
SavedVault == <<Check("ConnectionRequired")>>
CollectNotes == <<Look, Read>>
\* resolve_note: inside the vault, no symbolic link on the way, a Markdown file.
ResolveNote == <<Input>>

SearchNotes == SavedVault \o <<Input>> \o CollectNotes \o <<Look, Read>> \o KnowledgeResult
ReadNote == SavedVault \o <<Look>> \o ResolveNote \o <<Read>> \o KnowledgeResult
ListNotes == <<Input>> \o SavedVault \o CollectNotes
ObsidianNeeds == {"vault:search_notes", "vault:read_notes"}

(***************************************************************************)
(* The catalogue.  A listing answers an editor's question for the choices  *)
(* of a field.                                                             *)
(***************************************************************************)
Entry(p, needs, steps, listing) == [provider |-> p, needs |-> needs, steps |-> steps, listing |-> listing]

Catalog ==
  [create_issue |-> Entry("github", GithubNeeds("create_issue"), CreateIssue, FALSE),
   comment_on_issue |-> Entry("github", GithubNeeds("comment_on_issue"), CommentOnIssue, FALSE),
   create_pull_request |-> Entry("github", GithubNeeds("create_pull_request"), CreatePullRequest, FALSE),
   get_issue |-> Entry("github", GithubNeeds("get_issue"), GetIssue, FALSE),
   list_repositories |-> Entry("github", GithubNeeds("create_issue"), ListRepositories, TRUE),
   send_mail |-> Entry("microsoft", MicrosoftNeeds("send_mail"), SendMail, FALSE),
   list_recent_mail |-> Entry("microsoft", MicrosoftNeeds("list_recent_mail"), ListRecentMail, FALSE),
   get_mail |-> Entry("microsoft", MicrosoftNeeds("get_mail"), GetMail, FALSE),
   create_calendar_event |->
     Entry("microsoft", MicrosoftNeeds("create_calendar_event"), CreateCalendarEvent, FALSE),
   list_graph |-> Entry("microsoft", MicrosoftNeeds("list_recent_mail"), ListGraph, TRUE),
   create_linear_issue |-> Entry("linear", LinearNeeds("create_linear_issue"), CreateLinearIssue, FALSE),
   comment_on_linear_issue |->
     Entry("linear", LinearNeeds("comment_on_linear_issue"), CommentOnLinearIssue, FALSE),
   update_issue_status |-> Entry("linear", LinearNeeds("update_issue_status"), UpdateIssueStatus, FALSE),
   get_linear_issue |-> Entry("linear", LinearNeeds("get_linear_issue"), GetLinearIssue, FALSE),
   list_linear |-> Entry("linear", LinearNeeds("get_linear_issue"), ListLinear, TRUE),
   get_sentry_issue |-> Entry("sentry", SentryNeeds("get_sentry_issue"), GetSentryIssue, FALSE),
   update_sentry_status |-> Entry("sentry", SentryNeeds("update_sentry_status"), UpdateSentryStatus, FALSE),
   list_projects |-> Entry("sentry", SentryNeeds("get_sentry_issue"), ListProjects, TRUE),
   slack_message |-> Entry("slack", SlackNeeds, SlackMessage, FALSE),
   list_conversations |-> Entry("slack", SlackNeeds, ListConversations, TRUE),
   telegram_message |-> Entry("telegram", {}, TelegramMessage, FALSE),
   send_email |-> Entry("gmail", GmailNeeds, SendEmail, FALSE),
   search_resources |-> Entry("notion", NotionNeeds, SearchResources, FALSE),
   query_database |-> Entry("notion", NotionNeeds, QueryDatabase, FALSE),
   get_page |-> Entry("notion", NotionNeeds, GetPage, FALSE),
   list_notion |-> Entry("notion", NotionNeeds, ListNotion, TRUE),
   search_notes |-> Entry("obsidian", ObsidianNeeds, SearchNotes, FALSE),
   read_note |-> Entry("obsidian", ObsidianNeeds, ReadNote, FALSE),
   list_notes |-> Entry("obsidian", ObsidianNeeds, ListNotes, TRUE)]

\* What a provider may have granted when the connection was made.
Grants(p) ==
  CASE p = "github" -> {{"metadata:read"}, {"metadata:read", "issues:write"},
                        {"metadata:read", "issues:read", "pull_requests:write"}}
    [] p = "microsoft" -> {{}, {"Mail.Send"}, Requested}
    [] p = "gmail" -> {{}, {"openid"}, {"openid", "gmail.send"}}
    [] p = "sentry" -> {{"event:read"}, {"event:read", "event:write"}}
    [] OTHER -> {{}}

\* The scopes the connection's row then holds.
Stored(p, g) ==
  CASE p = "github" -> InstallationScopes(g)
    [] p = "microsoft" -> SanitizeGranted(g, Requested)
    [] p = "gmail" -> SanitizeGranted(g, {"openid", "gmail.send"})
    [] p = "sentry" -> g
    [] p = "linear" -> LinearScopes
    [] p = "slack" -> SlackNeeds
    [] p = "notion" -> NotionNeeds
    [] p = "obsidian" -> ObsidianNeeds
    [] OTHER -> {}

(***************************************************************************)
(* The executor.                                                           *)
(***************************************************************************)
Provider == Catalog[act].provider
Steps == Catalog[act].steps
Here == Steps[step]

Init ==
  /\ act = "none" /\ grant = {} /\ phase = "idle" /\ step = 1 /\ flying = FALSE
  /\ attempt = 1 /\ applied = <<>> /\ report = "none" /\ flag = FALSE

Done(code) == phase' = "done" /\ report' = code

\* ActionRegistry::execute, list_resources.
Execute(a, g) ==
  /\ phase = "idle" /\ g \in Grants(Catalog[a].provider)
  /\ act' = a /\ grant' = g /\ phase' = "load"
  /\ UNCHANGED <<step, flying, attempt, applied, report, flag>>

\* load_compatible_connection: the connection is gone, of another provider or not connected.
NotConnected ==
  /\ phase = "load" /\ Done("ConnectionRequired")
  /\ UNCHANGED <<act, grant, step, flying, attempt, applied, flag>>

\* load_compatible_connection: the scopes.
ScopeRefused ==
  /\ phase = "load" /\ ~(Catalog[act].needs \subseteq Stored(Provider, grant))
  /\ Done("ScopeMissing")
  /\ UNCHANGED <<act, grant, step, flying, attempt, applied, flag>>

\* validate_request, TokenAccessCapability::load, and the look of run_executor.
Refused(code) ==
  /\ phase = "load" /\ code \in {"InvalidInput", "ConnectionRequired", "ProviderUnavailable"}
  /\ Done(code)
  /\ UNCHANGED <<act, grant, step, flying, attempt, applied, flag>>

Start ==
  /\ phase = "load" /\ Catalog[act].needs \subseteq Stored(Provider, grant)
  /\ IF flag THEN Done("Cancelled") ELSE phase' = "run" /\ report' = report
  /\ UNCHANGED <<act, grant, step, flying, attempt, applied, flag>>

\* execute repeats a refused credential once; a listing does not.
Repeats(code) == ~Catalog[act].listing /\ attempt = 1 /\ code = "ProviderUnauthorized" /\ ~flag

\* The executor returned an error.
Fails(code) ==
  IF Repeats(code) THEN phase' = "refresh" /\ report' = report ELSE Done(code)

Advance ==
  /\ IF step = Len(Steps) THEN phase' = "check" /\ step' = step ELSE step' = step + 1 /\ phase' = phase
  /\ report' = report

\* A step of the action's program that is not a request.
LocalStep ==
  /\ phase = "run" /\ Here.do \in {"check", "look"}
  /\ \/ Here.do = "look" /\ flag /\ Done("Cancelled") /\ UNCHANGED step
     \/ Here.do = "look" /\ ~flag /\ Advance
     \/ Here.do = "check" /\ Advance
     \/ Here.do = "check" /\ Fails(Here.arg) /\ UNCHANGED step
  /\ UNCHANGED <<act, grant, flying, attempt, applied, flag>>

\* Only these providers say in the body of a success that they refuse.
Meant(a) == a \in {"refused", "revoked"} => Provider \in {"linear", "slack", "telegram"}

ReadStep(a) ==
  /\ phase = "run" /\ Here.do \in {"read", "try"} /\ Meant(a)
  /\ LET code == Answer(Provider, a, FALSE)
     IN  IF code = "ok" \/ Here.do = "try" THEN Advance ELSE Fails(code) /\ UNCHANGED step
  /\ UNCHANGED <<act, grant, flying, attempt, applied, flag>>

SendWrite ==
  /\ phase = "run" /\ Here.do = "write" /\ ~flying
  /\ flying' = TRUE
  /\ UNCHANGED <<act, grant, phase, step, attempt, applied, report, flag>>

\* The answer to the write, and what the provider did about it (did).
WriteAnswered(a, did) ==
  /\ phase = "run" /\ flying /\ Meant(a)
  /\ (a \in Certain => did) /\ (did => a \in Certain \cup Possible)
  /\ flying' = FALSE
  /\ applied' = IF did THEN Append(applied, Here.arg) ELSE applied
  /\ LET code == Answer(Provider, a, TRUE)
     IN  IF code = "ok" THEN Advance ELSE Fails(code) /\ UNCHANGED step
  /\ UNCHANGED <<act, grant, attempt, flag>>

\* run_executor: the time limit, or the cancel flag; what is under way is dropped and the
\* provider may still carry it out.
Dropped(code, did) ==
  /\ phase = "run"
  /\ \/ code = "TimedOut"
     \/ code = "Cancelled" /\ flag
  /\ did => flying
  /\ applied' = IF did THEN Append(applied, Here.arg) ELSE applied
  /\ flying' = FALSE
  /\ Done(code)
  /\ UNCHANGED <<act, grant, step, attempt, flag>>

\* refresh_on_demand and the second TokenAccessCapability::load; map_refresh_error.
RefreshFails(code) ==
  /\ phase = "refresh" /\ code \in {"ConnectionRequired", "ProviderUnauthorized", "ProviderUnavailable"}
  /\ Done(code)
  /\ UNCHANGED <<act, grant, step, flying, attempt, applied, flag>>

RunAgain ==
  /\ phase = "refresh"
  /\ attempt' = 2 /\ step' = 1
  /\ IF flag THEN Done("Cancelled") ELSE phase' = "run" /\ report' = report
  /\ UNCHANGED <<act, grant, flying, applied, flag>>

\* validate_result, validate_resource_page.
ValidateResult(code) ==
  /\ phase = "check" /\ code \in {"ok", "OutputInvalid", "OutputTooLarge"}
  /\ Done(code)
  /\ UNCHANGED <<act, grant, step, flying, attempt, applied, flag>>

Cancel ==
  /\ phase \in {"load", "run", "refresh"} /\ ~flag /\ ~Catalog[act].listing
  /\ flag' = TRUE
  /\ UNCHANGED <<act, grant, phase, step, flying, attempt, applied, report>>

Next ==
  \/ \E a \in DOMAIN Catalog, g \in UNION {Grants(Catalog[b].provider) : b \in DOMAIN Catalog} : Execute(a, g)
  \/ NotConnected \/ ScopeRefused \/ Start \/ LocalStep \/ SendWrite \/ RunAgain \/ Cancel
  \/ \E code \in {"InvalidInput", "ConnectionRequired", "ProviderUnavailable", "ProviderUnauthorized",
                  "OutputInvalid", "OutputTooLarge", "ok"} :
       Refused(code) \/ RefreshFails(code) \/ ValidateResult(code)
  \/ \E a \in Answers : ReadStep(a)
  \/ \E did \in BOOLEAN :
       \/ \E a \in Answers : WriteAnswered(a, did)
       \/ \E code \in {"TimedOut", "Cancelled"} : Dropped(code, did)

Spec == Init /\ [][Next]_vars

(***************************************************************************)
(* Properties.                                                             *)
(***************************************************************************)
TypeOK ==
  /\ act \in DOMAIN Catalog \cup {"none"}
  /\ phase \in {"idle", "load", "run", "refresh", "check", "done"}
  /\ act # "none" => step \in 1..Len(Steps)
  /\ flying \in BOOLEAN /\ attempt \in 1..2 /\ flag \in BOOLEAN

Refusals == {"InvalidInput", "ConnectionRequired", "ScopeMissing", "ProviderUnauthorized",
             "RateLimited", "ProviderUnavailable"}

\* An action that is reported as refused, rate limited or unavailable changed nothing at the
\* provider, in either attempt, so it may be run again; what may have happened is reported as
\* delivery_unknown (the mutation flag of the adapters).  Slack's post is the exception: one that
\* breaks off is reported as unavailable.
HonestErrors ==
  report \in Refusals =>
    applied = <<>> \/ (Provider = "slack" /\ report = "ProviderUnavailable")

\* The repetition after a refused credential never carries out a write twice.
WrittenOnce == Len(applied) <= 1

\* The executor refuses an action for a missing scope only when the provider did not grant it:
\* the descriptors, the sign-ins and the rows agree on what the scopes are called, and a
\* permission to write covers reading.
ScopeRefusalIsTrue ==
  (report = "ScopeMissing" /\ phase = "done" /\ step = 1) =>
    \E s \in Catalog[act].needs :
      s \notin grant /\ ~(s = "issues:read" /\ "issues:write" \in grant)
=============================================================================
