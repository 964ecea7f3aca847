---------------------------- MODULE ProviderPolls ----------------------------
(***************************************************************************)
(* How the polling adapters turn what a provider shows into events: the    *)
(* window of GitHub's repository events, the windows of Linear's and       *)
(* Sentry's issues, and the delta pages of Microsoft's mail and calendar   *)
(* (integrations/github.rs, linear.rs, sentry.rs, microsoft.rs).  One      *)
(* trigger, polled again and again; the event loop records the batch,      *)
(* which drops an external id it has seen, and then stores the cursor.     *)
(***************************************************************************)
EXTENDS Naturals, Sequences, FiniteSets, FiniteSetsExt

CONSTANTS Sources,     \* subset of {"github", "linear", "sentry", "mail", "calendar"}
          Items,
          Window,      \* per_page and LINEAR_PAGE_SIZE, in changes or issues
          MaxPages,    \* MAX_DELTA_PAGES, each of one change
          MaxLog       \* bound: changes at the provider

VARIABLES source,
          log,         \* at the provider: [item, kind], oldest first
          gone,        \* items moved out of what the trigger watches
          forgotten,   \* the provider has dropped the delta token
          cursor,      \* as stored with the trigger
          at,          \* "idle", "page", "record", "save"
          state,       \* the delta cursor of the poll under way
          pages,
          emit,
          batch,       \* the events of the poll: [ext, change]
          next,        \* the cursor of the poll
          receipts,    \* external ids recorded before
          fired,       \* the events that started a run
          base,        \* the changes made before the trigger had a baseline
          resynced

vars == <<source, log, gone, forgotten, cursor, at, state, pages, emit, batch, next,
          receipts, fired, base, resynced>>

Delta == {"mail", "calendar"}
Unset == MaxLog + 1                       \* base before there is one
NoCursor == [is |-> "none", seen |-> {}, pos |-> 0, established |-> FALSE]
Cursor(s, mark) == [is |-> "window", seen |-> s, pos |-> mark, established |-> TRUE]
DeltaCursor(p, e) == [is |-> "delta", seen |-> {}, pos |-> p, established |-> e]

(***************************************************************************)
(* The provider.                                                           *)
(***************************************************************************)
Changes(i) == {n \in 1..Len(log) : log[n].item = i}
Latest(i) == Max(Changes(i))
SeenAt(i) == Max({n \in Changes(i) : log[n].kind # "status"})
Flips(i) == Cardinality({n \in Changes(i) : log[n].kind = "status"})
Status(i) == IF Flips(i) % 2 = 0 THEN "unresolved" ELSE "resolved"
Present == {log[n].item : n \in 1..Len(log)} \ gone

Top(s, rank(_)) == {i \in s : Cardinality({j \in s : rank(j) > rank(i)}) < Window}

Init ==
  /\ source = "none" /\ log = <<>> /\ gone = {} /\ forgotten = FALSE /\ cursor = NoCursor
  /\ at = "idle" /\ state = NoCursor /\ pages = 0 /\ emit = FALSE /\ batch = {} /\ next = NoCursor
  /\ receipts = {} /\ fired = {} /\ base = Unset /\ resynced = FALSE

Choose(s) ==
  /\ source = "none" /\ source' = s
  /\ UNCHANGED <<log, gone, forgotten, cursor, at, state, pages, emit, batch, next, receipts, fired,
                 base, resynced>>

\* An item appears, is touched, or (an issue of Sentry's) is resolved or reopened.
Happens(i, kind) ==
  /\ source # "none" /\ Len(log) < MaxLog /\ i \notin gone
  /\ kind = "new" <=> Changes(i) = {}
  /\ kind = "status" => source = "sentry"
  /\ log' = Append(log, [item |-> i, kind |-> kind])
  /\ UNCHANGED <<source, gone, forgotten, cursor, at, state, pages, emit, batch, next, receipts, fired,
                 base, resynced>>

\* An issue leaves the team or the project.
Leaves(i) ==
  /\ source \in {"linear", "sentry"} /\ i \in Present /\ gone = {} /\ gone' = {i}
  /\ UNCHANGED <<source, log, forgotten, cursor, at, state, pages, emit, batch, next, receipts, fired,
                 base, resynced>>

Forget ==
  /\ source \in Delta /\ ~forgotten /\ ~resynced /\ cursor.established /\ forgotten' = TRUE
  /\ UNCHANGED <<source, log, gone, cursor, at, state, pages, emit, batch, next, receipts, fired,
                 base, resynced>>

(***************************************************************************)
(* The windows.  One answer holds the whole window.                        *)
(***************************************************************************)
Event(ext, n, action) == [ext |-> ext, change |-> n, action |-> action]

\* page_watermark: of an empty window, the present.
Watermark(moments) == IF moments = {} THEN Len(log) ELSE Max(moments)

\* GitHubService::poll: the ids of the window before are the ones seen.
GithubWindow == {n \in 1..Len(log) : n > Len(log) - Window}
GithubCursor == Cursor(GithubWindow, 0)
\* normalize_github_event: the event's own id.
GithubEvents == {Event(<<n>>, n, log[n].kind) : n \in GithubWindow \ cursor.seen}

\* LinearService::poll, issue_key, valid_poll_issue: an issue at a moment.
LinearWindow == {<<i, Latest(i)>> : i \in Top(Present, Latest)}
LinearCursor == Cursor(LinearWindow, Watermark({k[2] : k \in LinearWindow}))
\* The newest issue of the window before passes for created when it is updated.
LinearAction(i) == IF Min(Changes(i)) >= cursor.pos THEN "created" ELSE "updated"
LinearEvents == {Event(k, k[2], LinearAction(k[1])) : k \in LinearWindow \ cursor.seen}

\* SentryService::poll: every issue of the window, changed or not.
SentryWindow == {<<i, SeenAt(i), Status(i)>> : i \in Top(Present, SeenAt)}
SentryCursor == Cursor(SentryWindow, Watermark({k[2] : k \in SentryWindow}))

\* Mutant: an issue the window before did not show is a new one.
SentryActionUnseen(i) ==
  CASE \A c \in cursor.seen : c[1] # i -> "created"
    [] \E c \in cursor.seen : c[1] = i /\ c[3] # Status(i) ->
         IF Status(i) = "resolved" THEN "resolved" ELSE "regressed"
    [] OTHER -> "updated"

\* What the window before makes of an issue.
SentryAction(i) ==
  CASE \A c \in cursor.seen : c[1] # i -> IF Min(Changes(i)) >= cursor.pos THEN "created" ELSE "updated"
    [] \E c \in cursor.seen : c[1] = i /\ c[3] # Status(i) ->
         IF Status(i) = "resolved" THEN "resolved" ELSE "regressed"
    [] OTHER -> "updated"
\* normalize_sentry_issue: the issue at the moment it was last seen, whatever the action.
SentryEvents == {Event(<<i, SeenAt(i)>>, Latest(i), SentryAction(i)) : i \in Top(Present, SeenAt)}

\* Mutant: an empty window leaves the trigger without a cursor.
NextCursorLazy ==
  CASE source = "github" -> IF GithubWindow = {} THEN NoCursor ELSE GithubCursor
    [] source = "linear" -> LinearCursor
    [] source = "sentry" -> SentryCursor

\* An empty window gets a cursor too.
NextCursor ==
  CASE source = "github" -> GithubCursor
    [] source = "linear" -> LinearCursor
    [] source = "sentry" -> SentryCursor

\* Mutant: the first poll emits what it sees.
EstablishesNever == FALSE

\* The first poll only establishes the cursor.
Establishes == cursor = NoCursor

PollWindow ==
  /\ source \in {"github", "linear", "sentry"} /\ at = "idle" /\ at' = "record"
  /\ next' = NextCursor
  /\ base' = IF base = Unset THEN Len(log) ELSE base
  /\ batch' = CASE Establishes -> {}
                [] source = "github" -> GithubEvents
                [] source = "linear" -> LinearEvents
                [] OTHER -> SentryEvents
  /\ UNCHANGED <<source, log, gone, forgotten, cursor, state, pages, emit, receipts, fired, resynced>>

(***************************************************************************)
(* The delta queries: page by page, the provider moving on meanwhile.      *)
(***************************************************************************)
\* poll_mail_delta, poll_calendar_delta: decode_delta_cursor, and whether this poll emits.
BeginDelta ==
  /\ source \in Delta /\ at = "idle" /\ at' = "page"
  /\ state' = IF cursor = NoCursor THEN DeltaCursor(0, FALSE) ELSE cursor
  /\ emit' = cursor.established /\ pages' = 0 /\ batch' = {}
  /\ UNCHANGED <<source, log, gone, forgotten, cursor, next, receipts, fired, base, resynced>>

\* The page limit: the poll ends where it is, with the token it has.
PageLimit ==
  /\ at = "page" /\ pages = MaxPages /\ at' = "record" /\ next' = state
  /\ UNCHANGED <<source, log, gone, forgotten, cursor, state, pages, emit, batch, receipts, fired,
                 base, resynced>>

\* The provider no longer knows the token: the enumeration starts over, emit unchanged.
TokenForgotten ==
  /\ at = "page" /\ pages < MaxPages /\ forgotten /\ state.established
  /\ state' = DeltaCursor(0, FALSE) /\ forgotten' = FALSE
  /\ pages' = pages + 1 /\ resynced' = TRUE
  /\ UNCHANGED <<source, log, gone, cursor, at, emit, batch, next, receipts, fired, base>>

\* normalize_mail_event, normalize_calendar_event: the item's id, whatever changed of it.
DeltaEvent(n) == Event(<<log[n].item>>, n, log[n].kind)

\* A page and extract_skip_token: there is more.
NextPage ==
  /\ at = "page" /\ pages < MaxPages /\ ~(forgotten /\ state.established) /\ state.pos < Len(log)
  /\ state' = [state EXCEPT !.pos = @ + 1] /\ pages' = pages + 1
  /\ batch' = IF emit THEN batch \cup {DeltaEvent(state.pos + 1)} ELSE batch
  /\ UNCHANGED <<source, log, gone, forgotten, cursor, at, emit, next, receipts, fired, base, resynced>>

\* extract_delta_token: the last page; from now on the cursor is a baseline.
LastPage ==
  /\ at = "page" /\ pages < MaxPages /\ ~(forgotten /\ state.established) /\ state.pos = Len(log)
  /\ next' = DeltaCursor(state.pos, TRUE) /\ at' = "record"
  /\ base' = IF emit THEN base ELSE Len(log)
  /\ UNCHANGED <<source, log, gone, forgotten, cursor, state, pages, emit, batch, receipts, fired, resynced>>

(***************************************************************************)
(* The loop around the poll.                                               *)
(***************************************************************************)
\* What the poll held in memory goes with it.
PollOver == at' = "idle" /\ state' = NoCursor /\ pages' = 0 /\ emit' = FALSE /\ batch' = {} /\ next' = NoCursor

\* map_action_error_to_event, or the cancel flag: no batch and no cursor.
PollFails ==
  /\ at = "page" /\ PollOver
  /\ UNCHANGED <<source, log, gone, forgotten, cursor, receipts, fired, base, resynced>>

\* record_app_event: an external id starts one run.
Record ==
  /\ at = "record" /\ at' = "save"
  /\ fired' = fired \cup {e \in batch : /\ e.ext \notin receipts
                                        /\ \A f \in batch : f.ext = e.ext => f.change >= e.change}
  /\ receipts' = receipts \cup {e.ext : e \in batch}
  /\ UNCHANGED <<source, log, gone, forgotten, cursor, state, pages, emit, batch, next, base, resynced>>

SaveCursor ==
  /\ at = "save" /\ cursor' = next /\ PollOver
  /\ UNCHANGED <<source, log, gone, forgotten, receipts, fired, base, resynced>>

\* The application stops, or a step of the loop fails.
Interrupted ==
  /\ at \in {"record", "save"} /\ PollOver
  /\ base' = IF cursor = NoCursor THEN Unset ELSE base
  /\ UNCHANGED <<source, log, gone, forgotten, cursor, receipts, fired, resynced>>

Next ==
  \/ \E s \in Sources : Choose(s)
  \/ \E i \in Items : Leaves(i) \/ \E kind \in {"new", "touch", "status"} : Happens(i, kind)
  \/ Forget \/ PollWindow \/ BeginDelta \/ PageLimit \/ TokenForgotten \/ NextPage \/ LastPage
  \/ PollFails \/ Record \/ SaveCursor \/ Interrupted

Spec == Init /\ [][Next]_vars

-----------------------------------------------------------------------------
\* Every variable keeps its type.
TypeOK ==
  /\ source \in Sources \cup {"none"} /\ Len(log) <= MaxLog /\ base \in 0..Unset
  /\ at \in {"idle", "page", "record", "save"} /\ pages \in 0..MaxPages
  /\ cursor.pos <= Len(log) /\ \A e \in fired : e.change \in 1..Len(log)

\* What happened before the trigger had its baseline starts no run ("Connecting a trigger
\* establishes "now" and does not replay" in each adapter; "a bounded resync that does not replay
\* the whole mailbox" for Microsoft).
HistoryIsNotReplayed == base # Unset => \A e \in fired : e.change > base

\* It holds of GitHub; of Linear while no issue leaves the team, which would let an older one into
\* the window; and of mail and calendar while the delta token is known.
WindowsDoNotReplay ==
  (source = "github" \/ (source = "linear" /\ gone = {}) \/ (source \in Delta /\ ~resynced))
    => HistoryIsNotReplayed

\* A change the stored cursor has passed has been recorded: whatever fails or stops between the
\* poll, the receipts and the cursor, no later poll skips it.
PassedIsRecorded ==
  LET recorded == {e.change : e \in fired} IN
  CASE source = "github" -> \A n \in cursor.seen : n <= base \/ n \in recorded
    [] source = "linear" -> \A k \in cursor.seen : k[2] <= base \/ k[2] \in recorded
    [] source \in Delta /\ ~resynced /\ cursor.established ->
         \A n \in 1..cursor.pos : n <= base \/ <<log[n].item>> \in receipts
    [] OTHER -> TRUE

\* An issue Sentry reports as created did not exist at the baseline, though an older one may enter
\* the window when another leaves it (the comparison of first_seen with the watermark).
CreatedIsNew ==
  source = "sentry" => \A e \in fired : e.action = "created" => Min(Changes(e.ext[1])) > base
=============================================================================
