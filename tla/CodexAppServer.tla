--------------------------- MODULE CodexAppServer ---------------------------
(***************************************************************************)
(* The client of Codex' raw app-server (agents/native/providers/codex:     *)
(* transport.rs, account.rs, protocol.rs, events.rs, runtime.rs), which    *)
(* the repository keeps as tested evidence and does not ship: the release  *)
(* gates refuse to register it.                                            *)
(*                                                                         *)
(* The request router, the sign-in's life cycle, the event mapper and the  *)
(* stderr tail hold the state; the driver that reads lines, pops what they *)
(* carry and looks at the clock is the tests', and the server is external: *)
(* it may answer late, twice, with an unknown id, or not at all.  A        *)
(* behaviour looks at one of the areas, which share no state but the router.*)
(***************************************************************************)
EXTENDS Naturals, FiniteSets, Sequences, SequencesExt

CONSTANTS
  MaxPending,   \* stands for MAX_CODEX_PENDING_REQUESTS (64)
  MaxIncoming,  \* stands for MAX_CODEX_INCOMING_QUEUE (128)
  LineCap,      \* stands for MAX_CODEX_STDERR_LINE_BYTES
  TailCap,      \* stands for MAX_CODEX_STDERR_BYTES
  MaxLines,     \* bound: lines the server writes
  MaxRequests,  \* bound: requests of the host
  MaxTime       \* bound: the clock

VARIABLES
  area,         \* which part of the client the behaviour exercises
  tr,           \* CodexJsonlTransport
  buf,          \* CodexJsonlDecoder: lines left in the buffer by an error
  login,        \* CodexLoginLifecycle
  mapper,       \* CodexEventMapper: [seq, usage]
  tail,         \* CodexStderrTail: [lines, bytes]
  home,         \* the runtime's home that was prepared, if any
  now,
  said,         \* what the server has said: [lines, turn, open, approved]
  told          \* what the caller was told: how requests and logins ended, usage, approvals

asVars == <<area, tr, buf, login, mapper, tail, home, now, said, told>>

Areas == {"requests", "login", "turn", "approvals", "tail", "package"}

\* CodexMethod: everything but `initialize` needs the handshake; the others the areas use.
Methods == {"initialize", "account_read", "login_start"}
NoLogin == [state |-> "idle", id |-> 0, deadline |-> 0]
NoTransport == [next |-> 1, pending |-> {}, incoming |-> <<>>, sent |-> FALSE, ready |-> FALSE]

TypeOK ==
  /\ area \in Areas \cup {"none"} /\ Cardinality(tr.pending) <= MaxPending /\ Len(tr.incoming) <= MaxIncoming
  /\ \A p \in tr.pending : p.id < tr.next /\ p.method \in Methods
  /\ login.state \in {"idle", "pending", "completed", "denied", "cancelled", "timed_out"}
  /\ now \in 0..MaxTime /\ home \in {"none", "inside"}

Init ==
  /\ area = "none" /\ tr = NoTransport /\ buf = <<>> /\ login = NoLogin /\ mapper = [seq |-> 0, usage |-> 0]
  /\ tail = [lines |-> <<>>, bytes |-> 0, out |-> 0] /\ home = "none" /\ now = 0
  /\ said = [lines |-> 0, turn |-> 0, open |-> FALSE, approved |-> {}]
  /\ told = [ends |-> {}, lost |-> {}, logins |-> {}, usage |-> {}, asks |-> <<>>, stop |-> FALSE]

\* Past the handshake, the other areas begin with a transport that is ready.
Choose(a) ==
  /\ area = "none" /\ a \in Areas /\ area' = a
  /\ tr' = IF a \in {"login", "turn"} THEN [tr EXCEPT !.sent = TRUE, !.ready = TRUE] ELSE tr
  /\ UNCHANGED <<buf, login, mapper, tail, home, now, said, told>>

-----------------------------------------------------------------------------
(* The router.                                                             *)

\* encode_request: a refusal leaves everything as it is.
EncodeRequest(method, timeout) ==
  /\ timeout > 0
  /\ IF method = "initialize" THEN ~tr.sent /\ ~tr.ready ELSE tr.ready
  /\ Cardinality(tr.pending) < MaxPending
  /\ tr' = [tr EXCEPT !.sent = tr.sent \/ method = "initialize", !.next = tr.next + 1,
                      !.pending = tr.pending \cup {[id |-> tr.next, method |-> method, deadline |-> now + timeout]}]

Send(method, timeout) ==
  /\ area \in {"requests", "login"} /\ tr.next <= MaxRequests /\ EncodeRequest(method, timeout)
  /\ method = "login_start" => area = "login"
  /\ UNCHANGED <<area, buf, login, mapper, tail, home, now, said, told>>

\* The lines of a server: answers (the body of `initialize` names its home, of a login its id and
\* where its address leads), notifications and requests of its own.
Answers(ids, bodies) == [kind : {"answer"}, id : ids, body : bodies]
Note(method, arg, status) == [kind |-> "note", method |-> method, arg |-> arg, status |-> status]
Ask(method, where) == [kind |-> "ask", method |-> method, where |-> where]
Lines ==
  CASE area = "requests" -> Answers(1..MaxRequests, {"our_home", "other_home", "error"})
                            \cup {[kind |-> k] : k \in {"huge", "garbage", "unknown_note"}}
    [] area = "login" -> Answers(1..MaxRequests, {"safe_url", "foreign_url"})
                         \cup {Note("login_completed", l, s) : l \in 1..MaxRequests, s \in {"success", "failure", "missing"}}
    [] area = "turn" -> (IF said.open THEN {Note("token_usage", said.turn, "valid")} ELSE {})
                        \cup {Note("turn_completed", said.turn, s) : s \in IF said.open THEN {"completed", "failed", "unknown"} ELSE {}}
                        \cup {Note("turn_started", said.turn + 1, s) : s \in IF said.open THEN {} ELSE {"valid", "invalid"}}
                        \cup (IF said.open THEN {Note("item", said.turn, s) : s \in {"reasoning", "tool"}} ELSE {})
    [] area = "approvals" -> {Ask(k, w) : k \in {"command", "file_change"}, w \in {"absent", "inside", "outside", "parent"}}
                             \cup {Ask("other", "absent")}
    [] OTHER -> {}

Saying(line) ==
  said' = [said EXCEPT !.lines = @ + 1,
             !.turn = IF line.kind = "note" /\ line.method = "turn_started" THEN @ + 1 ELSE @,
             !.open = IF line.kind = "note" /\ line.method \in {"turn_started", "turn_completed"} THEN line.method = "turn_started" ELSE @,
             !.approved = IF line.kind = "note" /\ line.method = "login_completed" /\ line.status = "success" THEN @ \cup {line.arg} ELSE @]

\* CodexJsonlDecoder::push: a line past the limit at the head of the buffer clears it; one further
\* back loses the lines before it and keeps those after it.
Decode(lines) ==
  LET huge == {i \in 1..Len(lines) : lines[i].kind = "huge"}
      first == CHOOSE i \in huge : \A j \in huge : i <= j
  IN IF huge = {} THEN [out |-> lines, keep |-> <<>>]
     ELSE [out |-> <<>>, keep |-> IF first = 1 THEN <<>> ELSE SubSeq(lines, first + 1, Len(lines))]

\* ingest: the transport after a line, and the request whose answer found the queue full.
Push(t, message) == IF Len(t.incoming) < MaxIncoming THEN [t EXCEPT !.incoming = Append(@, message)] ELSE t
PendingOf(t, id) == {p \in t.pending : p.id = id}
\* Mutant: the request stays pending when its answer comes.
IngestKeepsPending(s, line) ==
  IF PendingOf(s.t, line.id) = {} THEN s
  ELSE [s EXCEPT !.t = Push(@, [kind |-> "answer", id |-> line.id, method |-> "account_read", body |-> line.body])]
IngestAnswer(s, line) ==
  LET found == PendingOf(s.t, line.id)
      t == [s.t EXCEPT !.pending = @ \ found]
  IN IF found = {} THEN s
     ELSE LET p == CHOOSE p \in found : TRUE
          IN [t |-> Push(t, [kind |-> "answer", id |-> line.id, method |-> p.method, body |-> line.body]),
              lost |-> IF Len(t.incoming) < MaxIncoming THEN s.lost ELSE s.lost \cup {line.id}]
\* A message that is dropped because the queue is full leaves 0 among what was lost.
Ingest(s, line) ==
  CASE line.kind = "answer" -> IngestAnswer(s, line)
    [] line.kind \in {"note", "ask"} /\ line.method # "other" ->
         [t |-> Push(s.t, line), lost |-> IF Len(s.t.incoming) < MaxIncoming THEN s.lost ELSE s.lost \cup {0}]
    [] OTHER -> s

\* The reader: what one read brings is split and ingested, line by line.
Read(lines) ==
  LET d == Decode(buf \o lines)
      s == FoldLeft(Ingest, [t |-> tr, lost |-> told.lost], d.out)
  IN buf' = d.keep /\ tr' = s.t /\ told' = [told EXCEPT !.lost = s.lost]

Arrive(line) ==
  /\ said.lines < (IF area = "turn" THEN MaxLines + 2 ELSE MaxLines) /\ ~told.stop /\ line \in Lines /\ Saying(line) /\ Read(<<line>>)
  /\ UNCHANGED <<area, login, mapper, tail, home, now>>

ArriveTwo(a, b) ==
  /\ area = "requests" /\ said.lines + 1 < MaxLines /\ {a, b} \subseteq Lines /\ "huge" \in {a.kind, b.kind}
  /\ said' = [said EXCEPT !.lines = @ + 2] /\ Read(<<a, b>>)
  /\ UNCHANGED <<area, login, mapper, tail, home, now>>

Ended(ids, how) == {<<id, how>> : id \in ids}
Ids(requests) == {p.id : p \in requests}

\* accept_initialize_response: the answer is for the handshake, without an error, and names our home.
Accepted(message) == ~tr.ready /\ message.method = "initialize" /\ message.body # "error" /\ message.body = "our_home"

\* Half a second of the clock: `expire` gives up the requests that are due, `check_timeout` the login.
Due(requests, t) == {p \in requests : p.deadline <= t}
Expire(t) ==
  /\ tr' = [tr EXCEPT !.pending = @ \ Due(@, t)]
  /\ told' = [told EXCEPT !.ends = @ \cup Ended(Ids(Due(tr.pending, t)), "timed_out"),
                          !.logins = IF login.state = "pending" /\ login.deadline <= t THEN @ \cup {<<login.id, "timed_out">>} ELSE @]
CheckTimeout(t) == login' = IF login.state = "pending" /\ login.deadline <= t THEN [login EXCEPT !.state = "timed_out"] ELSE login
Tick ==
  /\ area \in {"requests", "login"} /\ now < MaxTime /\ now' = now + 1 /\ Expire(now') /\ CheckTimeout(now')
  /\ UNCHANGED <<area, buf, mapper, tail, home, said>>

\* CodexChildGuard::terminate and process_exited: what still waits is told so.
ProcessExited ==
  /\ area \in {"requests", "login"} /\ ~told.stop
  /\ tr' = [tr EXCEPT !.pending = {}]
  /\ told' = [told EXCEPT !.ends = @ \cup Ended(Ids(tr.pending), "interrupted"), !.stop = TRUE]
  /\ UNCHANGED <<area, buf, login, mapper, tail, home, now, said>>

-----------------------------------------------------------------------------
(* The sign-in.                                                            *)

\* CodexLoginLifecycle::start, with the answer's id and address.
SafeUrl(body) == body = "safe_url"
Start(id, body) ==
  login' = IF login.state # "pending" /\ SafeUrl(body) THEN [state |-> "pending", id |-> id, deadline |-> now + 2] ELSE login

\* complete: only the login that is pending, by its id.
\* Mutant: the completion of any login completes the one that is pending.
CompletesAny(l, note) == l.state = "pending" /\ note.status # "missing"
Completes(l, note) == l.state = "pending" /\ note.arg = l.id /\ note.status # "missing"
Complete(note) ==
  IF Completes(login, note)
  THEN LET state == IF note.status = "success" THEN "completed" ELSE "denied"
       IN login' = [login EXCEPT !.state = state] /\ told' = [told EXCEPT !.logins = @ \cup {<<note.arg, state>>}]
  ELSE UNCHANGED <<login, told>>

Cancel(id) ==
  /\ area = "login" /\ login.state = "pending" /\ login.id = id /\ login' = [login EXCEPT !.state = "cancelled"]
  /\ told' = [told EXCEPT !.logins = @ \cup {<<id, "cancelled">>}]
  /\ UNCHANGED <<area, tr, buf, mapper, tail, home, now, said>>

-----------------------------------------------------------------------------
(* The events of a turn.                                                   *)

\* map: an event takes the next sequence number before its fields are looked at.
MapStarted(note) == mapper' = [mapper EXCEPT !.seq = @ + 1] /\ told' = [told EXCEPT !.stop = note.status = "invalid"]
MapUsage(note) == mapper' = [mapper EXCEPT !.usage = note.arg] /\ UNCHANGED told
\* map_turn_completed: an unknown status is refused before the usage is taken.
\* Mutant: the usage is copied, not taken.
MapCompletedCopies(note) ==
  IF note.status = "unknown" THEN told' = [told EXCEPT !.stop = TRUE] /\ UNCHANGED mapper
  ELSE /\ mapper' = [mapper EXCEPT !.seq = @ + 1]
       /\ told' = [told EXCEPT !.usage = IF mapper.usage = 0 THEN @ ELSE @ \cup {<<note.arg, mapper.usage>>}]
MapCompleted(note) ==
  IF note.status = "unknown" THEN told' = [told EXCEPT !.stop = TRUE] /\ UNCHANGED mapper
  ELSE /\ mapper' = [seq |-> mapper.seq + 1, usage |-> 0]
       /\ told' = [told EXCEPT !.usage = IF mapper.usage = 0 THEN @ ELSE @ \cup {<<note.arg, mapper.usage>>}]
\* map_item: reasoning never becomes an event.
MapItem(note) == mapper' = [mapper EXCEPT !.seq = IF note.status = "reasoning" THEN @ ELSE @ + 1] /\ UNCHANGED told
MapEvent(note) ==
  CASE note.method = "turn_started" -> MapStarted(note)
    [] note.method = "token_usage" -> MapUsage(note)
    [] note.method = "item" -> MapItem(note)
    [] OTHER -> MapCompleted(note)

\* project_approval: a command's directory is the turn's own when none is given; a file change
\* without a root is not looked at.  encode_approval_decision: a cancelled wait never accepts.
\* Mutant: only a command's directory is looked at.
ProjectsCommands(ask) == ask.method = "file_change" \/ ask.where \in {"absent", "inside"}
Projects(ask) == ask.where \in {"absent", "inside"}
Decide(ask, allow, cancelled) ==
  told' = [told EXCEPT !.asks = Append(@, [where |-> ask.where, cancelled |-> cancelled,
             answer |-> IF ~Projects(ask) THEN "none" ELSE IF cancelled THEN "cancel" ELSE IF allow THEN "accept" ELSE "decline"])]

-----------------------------------------------------------------------------
(* The driver takes the next message.                                      *)

Handle(message, allow, cancelled) ==
  CASE message.kind = "answer" ->
         /\ told' = [told EXCEPT !.ends = @ \cup {<<message.id, "answered">>}]
         /\ IF message.method = "login_start" THEN Start(message.id, message.body) ELSE UNCHANGED login
         /\ UNCHANGED mapper
    [] message.kind = "note" /\ message.method = "login_completed" -> Complete(message) /\ UNCHANGED mapper
    [] message.kind = "note" /\ message.method # "login_completed" -> MapEvent(message) /\ UNCHANGED login
    [] OTHER -> Decide(message, allow, cancelled) /\ UNCHANGED <<login, mapper>>

Pop(allow, cancelled) ==
  /\ tr.incoming # <<>> /\ ~told.stop
  /\ Head(tr.incoming).kind # "ask" => allow = FALSE /\ cancelled = FALSE
  /\ tr' = [tr EXCEPT !.incoming = Tail(@),
                      !.ready = @ \/ (Head(tr.incoming).kind = "answer" /\ Accepted(Head(tr.incoming)))]
  /\ Handle(Head(tr.incoming), allow, cancelled)
  /\ UNCHANGED <<area, buf, tail, home, now, said>>

-----------------------------------------------------------------------------
(* The stderr tail and the package.                                        *)

Total(lines) == FoldLeft(LAMBDA a, b : a + b, 0, lines)
\* CodexStderrTail::push: the line is cut, and old lines go until the rest fits.
\* Mutant: room is made for one byte more than the limit asks for.
EvictEarly(t) ==
  LET k == CHOOSE k \in 0..Len(t.lines) : /\ t.bytes - Total(SubSeq(t.lines, 1, k)) < TailCap
                                          /\ \A j \in 0..(k - 1) : t.bytes - Total(SubSeq(t.lines, 1, j)) >= TailCap
  IN [lines |-> SubSeq(t.lines, k + 1, Len(t.lines)), bytes |-> t.bytes - Total(SubSeq(t.lines, 1, k)),
      out |-> IF k = 0 THEN t.out ELSE t.lines[k]]
Evict(t) ==
  LET k == CHOOSE k \in 0..Len(t.lines) : /\ t.bytes - Total(SubSeq(t.lines, 1, k)) <= TailCap
                                          /\ \A j \in 0..(k - 1) : t.bytes - Total(SubSeq(t.lines, 1, j)) > TailCap
  IN [lines |-> SubSeq(t.lines, k + 1, Len(t.lines)), bytes |-> t.bytes - Total(SubSeq(t.lines, 1, k)),
      out |-> IF k = 0 THEN t.out ELSE t.lines[k]]
PushStderr(length) ==
  LET cut == IF length > LineCap THEN LineCap ELSE length
  IN /\ area = "tail" /\ said.lines <= MaxLines /\ said' = [said EXCEPT !.lines = @ + 1]
     /\ tail' = Evict([tail EXCEPT !.lines = Append(@, cut), !.bytes = @ + cut])
     /\ UNCHANGED <<area, tr, buf, login, mapper, home, now, told>>

\* codex_release_gates: the gates that are blocked; register_app_server_evidence always refuses.
BlockedGates == {"production_support", "signature_verification", "license_notice_packaging", "packaged_no_cli_smoke", "native_ready"}
NativeReady == BlockedGates = {}
Registered == FALSE
\* artifact_for_target and verify_artifact_checksum, over the six published archives.
Artifacts == {"aarch64-apple-darwin", "x86_64-apple-darwin", "aarch64-pc-windows-msvc",
              "x86_64-pc-windows-msvc", "aarch64-unknown-linux-musl", "x86_64-unknown-linux-musl"}
Verified(target, archive) == target \in Artifacts /\ archive = "published"

\* prepare_codex_runtime_home: the directory is made, then looked at where it really is.
SafeComponent(ref) == ref = "plain"
PrepareHome(target, archive, ref, leads) ==
  /\ area = "package" /\ home = "none" /\ Verified(target, archive) /\ SafeComponent(ref)
  /\ leads = "inside" /\ home' = leads
  /\ told' = [told EXCEPT !.stop = ~(NativeReady /\ Registered)]
  /\ UNCHANGED <<area, tr, buf, login, mapper, tail, now, said>>

-----------------------------------------------------------------------------
(* Properties.                                                             *)

\* A request that was sent is waiting, or its answer is in the queue, or the caller was told once how
\* it ended; the one exception is the answer that finds the queue full, which is dropped after its
\* request was (transport.rs:281-289), so that nobody is ever told.
EveryRequestHasOneEnd ==
  \A id \in 1..(tr.next - 1) :
    Cardinality({e \in told.ends : e[1] = id}) + Cardinality({i \in 1..Len(tr.incoming) : tr.incoming[i].kind = "answer" /\ tr.incoming[i].id = id})
      + (IF id \in Ids(tr.pending) THEN 1 ELSE 0) + (IF id \in told.lost THEN 1 ELSE 0) = 1

\* A sign-in ends once: completed only when the server approved that very sign-in, and never after it
\* was cancelled, denied or timed out (CodexLoginLifecycle, account.rs:156-265).
OneLoginEnd ==
  \A e \in told.logins : /\ \A f \in told.logins : f[1] = e[1] => f = e
                         /\ e[2] = "completed" => e[1] \in said.approved

\* The usage reported with a turn's end was counted in that turn, unless a full queue dropped the end of
\* an earlier one (map_turn_completed, events.rs:155-190).
UsageIsOfItsTurn == 0 \in told.lost \/ \A u \in told.usage : u[1] = u[2]

\* What is accepted lies inside the allowed roots, and a wait that was cancelled accepts nothing
\* (project_approval and encode_approval_decision, events.rs:205-262).
AcceptedIsInside ==
  \A i \in 1..Len(told.asks) : told.asks[i].answer = "accept" => told.asks[i].where \in {"absent", "inside"} /\ ~told.asks[i].cancelled

\* The stderr tail counts what it keeps, keeps no more than its limit, and drops no line that still
\* fitted (CodexStderrTail::push, transport.rs:411-433).
TailIsCounted ==
  /\ tail.bytes = Total(tail.lines) /\ tail.bytes <= TailCap
  /\ tail.out # 0 => tail.bytes + tail.out > TailCap

-----------------------------------------------------------------------------
Next ==
  \/ \E a \in Areas : Choose(a)
  \/ \E method \in Methods, timeout \in 0..2 : Send(method, timeout)
  \/ \E line \in Lines : Arrive(line)
  \/ \E a, b \in Lines : ArriveTwo(a, b)
  \/ \E allow, cancelled \in BOOLEAN : Pop(allow, cancelled)
  \/ Tick
  \/ ProcessExited
  \/ \E id \in 1..MaxRequests : Cancel(id)
  \/ \E length \in 1..(LineCap + 1) : PushStderr(length)
  \/ \E target \in Artifacts \cup {"other"}, archive \in {"published", "changed"}, ref \in {"plain", ".."}, leads \in {"inside", "outside"} :
       PrepareHome(target, archive, ref, leads)

Spec == Init /\ [][Next]_asVars
=============================================================================
