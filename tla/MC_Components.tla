---------------------------- MODULE MC_Components ----------------------------
(***************************************************************************)
(* The components that share no state with the runner and the event tables,*)
(* checked side by side: `part` says which of them a behaviour is about,   *)
(* the others stand still.  A property of a component is its module's,     *)
(* over the variables the component has here.                              *)
(***************************************************************************)
EXTENDS Naturals, Sequences, FiniteSets

CONSTANTS Nil

\* Nil is no number, benefit, workflow, directory or memory.
ASSUME NilIsNothing == Nil \notin Nat /\ Nil \notin {"individual", "other", "w1", "w2", "d", "m1", "m2"}

VARIABLES
  part,   \* the component this behaviour is about
  \* its variables, in the order in which its module declares them
  x1, x2, x3, x4, x5, x6, x7, x8, x9, x10, x11, x12, x13, x14, x15, x16, x17, x18, x19, x20, x21, x22, x23

R(m, c, f, s) == [mode |-> m, caps |-> c, filesystem |-> f, shell |-> s, subagents |-> "ask"]
OpenCodeRequests ==
  {R("ephemeral", {"filesystem", "patch"}, "ask", "allow"), R("start", {"filesystem", "shell"}, "allow", "deny"),
   R("resume", {"shell", "subagents"}, "deny", "ask"), R("fork", {}, "deny", "deny"), R("models", {}, "deny", "deny")}
Rec(o, t, s, b, f) == [op |-> o, target |-> t, scope |-> s, body |-> b, flaw |-> f]
Suggestions ==
  {Rec("create", Nil, "workflow", "b1", "none"), Rec("supersede", "m1", "workflow", "b2", "none"),
   Rec("retract", "m1", "workflow", "b2", "none"), Rec("create", Nil, "user", "b2", "secret_body")}

Proc == INSTANCE AgentProcess WITH
  Streams <- {"out", "err"}, ChannelCap <- 1, PipeCap <- 1, CaptureCap <- 1, MaxLines <- 1, Prompts <- {0, 1},
  caller <- x1, returned <- x2, why <- x3, child <- x4, slot <- x5, cancel <- x6, canceller <- x7, expired <-
  x8, open <- x9, heir <- x10, unsent <- x11, inPipe <- x12, owed <- x13, wrote <- x14, pipe <- x15, hand <-
  x16, chan <- x17, seen <- x18, ended <- x19, garbled <- x20, captured <- x21, truncated <- x22, claude <-
  x23
Turn == INSTANCE NativeTurn WITH
  Turns <- {"t1"}, Requests <- {"r1"}, Kinds <- {"shell", "mcp", "file", "net"}, Policy <- [shell |-> "ask",
  mcp |-> "deny", file |-> "allow", net |-> "ask"], Granted <- {"shell", "mcp", "file"}, MaxEvents <- 3,
  MaxTurns <- 2,
  registered <- x1, turn <- x2, outcome <- x3, control <- x4, handle <- x5, late <- x6, active <- x7, watcher
  <- x8, call <- x9, log <- x10, ran <- x11, pending <- x12, remembered <- x13, yes <- x14, always <- x15,
  left <- x16
Launch == INSTANCE ManagedRuntime WITH
  Launches <- {1}, Probe <- <<"line">>, Typed <- {1}, Escapes <- {1}, StreamCap <- 1, FrameCap <- 1, MaxFrames
  <- <<2>>, Noise <- <<{"oversized"}>>, Timed <- <<{"deadline"}>>, Cancels <- {1}, Flaws <- {"profile_leased"},
  launcher <- x1, answer <- x2, entries <- x3, life <- x4, termKind <- x5, failure <- x6, stopFor <- x7,
  frames <- x8, secret <- x9, stream <- x10, tree <- x11, exit <- x12, monitor <- x13, verdict <- x14,
  cancelled <- x15, passed <- x16, sent <- x17, got <- x18
Relaunch == INSTANCE ManagedRuntime WITH
  Launches <- {1, 2}, Probe <- <<"line", "http">>, Typed <- {}, Escapes <- {}, StreamCap <- 1, FrameCap <- 1,
  MaxFrames <- <<0, 0>>, Noise <- <<{}, {}>>, Timed <- <<{}, {}>>, Cancels <- {}, Flaws <- {},
  launcher <- x1, answer <- x2, entries <- x3, life <- x4, termKind <- x5, failure <- x6, stopFor <- x7,
  frames <- x8, secret <- x9, stream <- x10, tree <- x11, exit <- x12, monitor <- x13, verdict <- x14,
  cancelled <- x15, passed <- x16, sent <- x17, got <- x18
Packs == INSTANCE RuntimePackages WITH
  Versions <- {"v1", "v2", "v3"}, Retain <- 2, MaxGen <- 3, MaxDamage <- 0, NoVersion <- "none",
  dir <- x1, moved <- x2, staged <- x3, records <- x4, temp <- x5, at <- x6, job <- x7, current <- x8, result
  <- x9, damages <- x10
Damage == INSTANCE RuntimePackages WITH
  Versions <- {"v1", "v2"}, Retain <- 2, MaxGen <- 3, MaxDamage <- 1, NoVersion <- "none",
  dir <- x1, moved <- x2, staged <- x3, records <- x4, temp <- x5, at <- x6, job <- x7, current <- x8, result
  <- x9, damages <- x10
Trust == INSTANCE PackageTrust WITH
  Products <- {"claude", "codex", "opencode"}, Targets <- {"aarch64-apple", "windows", "linux"}, MaxChanges <-
  1,
  product <- x1, target <- x2, bundle <- x3, loaded <- x4, at <- x5, staged <- x6, installed <- x7, verdict <-
  x8, launched <- x9, changes <- x10
Acts == INSTANCE ProviderActions WITH
  act <- x1, grant <- x2, phase <- x3, step <- x4, flying <- x5, attempt <- x6, applied <- x7, report <- x8,
  flag <- x9
Polls == INSTANCE ProviderPolls WITH
  Sources <- {"github", "linear", "sentry", "mail", "calendar"}, Items <- {1, 2}, Window <- 1, MaxPages <- 3,
  MaxLog <- 3,
  source <- x1, log <- x2, gone <- x3, forgotten <- x4, cursor <- x5, at <- x6, state <- x7, pages <- x8, emit
  <- x9, batch <- x10, next <- x11, receipts <- x12, fired <- x13, base <- x14, resynced <- x15
Socket == INSTANCE SlackSocket WITH
  Mentions <- {"m1", "m2"}, Bad <- {"b1"}, Noise <- {"n1"}, Triggers <- {1, 2}, BatchLimit <- 2, MaxBreaks <-
  2,
  unacked <- x1, stream <- x2, call <- x3, events <- x4, todo <- x5, persisted <- x6, overrun <- x7, excused
  <- x8, faults <- x9
Sign == INSTANCE SignIn WITH
  Providers <- {"github", "microsoft", "telegram", "slack", "linear", "gmail", "sentry", "obsidian",
  "notion"}, Calls <- {"c1"}, Accounts <- {"a", "b"}, MaxSessions <- 2, MaxFaults <- 2,
  provider <- x1, had <- x2, flaw <- x3, account <- x4, target <- x5, session <- x6, cancelled <- x7, stopped
  <- x8, expired <- x9, pc <- x10, result <- x11, ref <- x12, fresh <- x13, prior <- x14, paired <- x15, vault
  <- x16, rows <- x17, sent <- x18, excused <- x19, grant <- x20, reauth <- x21, revoked <- x22, faults <- x23
Signs == INSTANCE SignIn WITH
  Providers <- {"github", "telegram", "gmail"}, Calls <- {"c1", "c2"}, Accounts <- {"a"}, MaxSessions <- 2,
  MaxFaults <- 1,
  provider <- x1, had <- x2, flaw <- x3, account <- x4, target <- x5, session <- x6, cancelled <- x7, stopped
  <- x8, expired <- x9, pc <- x10, result <- x11, ref <- x12, fresh <- x13, prior <- x14, paired <- x15, vault
  <- x16, rows <- x17, sent <- x18, excused <- x19, grant <- x20, reauth <- x21, revoked <- x22, faults <- x23
ApiKeys == INSTANCE AgentAccounts WITH
  Kinds <- {"api"}, Ids <- {"i1", "i2"}, Keys <- {"k1", "k2"}, Calls <- {"c1", "c2"}, Earlier <-
  {"connected"}, MaxLocks <- 1, MaxAttempts <- 1, MaxFaults <- 1,
  kind <- x1, accounts <- x2, secrets <- x3, owed <- x4, dead <- x5, attempt <- x6, lapsed <- x7, flagged <-
  x8, called <- x9, task <- x10, pc <- x11, my <- x12, arc <- x13, holds <- x14, inMap <- x15, gen <- x16,
  answer <- x17, excused <- x18, faults <- x19
Accts == INSTANCE AgentAccounts WITH
  Kinds <- {"oauth", "managed"}, Ids <- {"i1"}, Keys <- {"k1"}, Calls <- {"c1", "c2"}, Earlier <-
  {"connected"}, MaxLocks <- 1, MaxAttempts <- 1, MaxFaults <- 1,
  kind <- x1, accounts <- x2, secrets <- x3, owed <- x4, dead <- x5, attempt <- x6, lapsed <- x7, flagged <-
  x8, called <- x9, task <- x10, pc <- x11, my <- x12, arc <- x13, holds <- x14, inMap <- x15, gen <- x16,
  answer <- x17, excused <- x18, faults <- x19
Conn == INSTANCE ManagedConnect WITH
  Products <- {"claude", "codex", "opencode"}, Jobs <- {"j1", "j2"}, MaxProfiles <- 2, MaxIssues <- 3,
  MaxFaults <- 1,
  product <- x1, ready <- x2, disk <- x3, made <- x4, row <- x5, conn <- x6, session <- x7, procs <- x8,
  signed <- x9, gone <- x10, stray <- x11, task <- x12, pc <- x13, my <- x14, issued <- x15, faults <- x16
Redo == INSTANCE ManagedConnect WITH
  Products <- {"claude", "codex", "opencode"}, Jobs <- {"j1"}, MaxProfiles <- 2, MaxIssues <- 4, MaxFaults <-
  1,
  product <- x1, ready <- x2, disk <- x3, made <- x4, row <- x5, conn <- x6, session <- x7, procs <- x8,
  signed <- x9, gone <- x10, stray <- x11, task <- x12, pc <- x13, my <- x14, issued <- x15, faults <- x16
Term == INSTANCE ClaudeTerminal WITH
  Callers <- {"c1", "c2"}, Flaws <- {"none", "no_lease", "no_group"}, QueueCap <- 1, MaxChunks <- 1, Escapes
  <- TRUE, ReadErrors <- FALSE,
  start <- x1, flaw <- x2, leader <- x3, kid <- x4, wrote <- x5, taken <- x6, life <- x7, queue <- x8, closed
  <- x9, flag <- x10, cleaned <- x11, slots <- x12, reader <- x13, dropped <- x14, monitor <- x15, op <- x16,
  asked <- x17, kept <- x18, got <- x19, over <- x20
Long == INSTANCE ClaudeTerminal WITH
  Callers <- {"c1"}, Flaws <- {"none"}, QueueCap <- 1, MaxChunks <- 2, Escapes <- TRUE, ReadErrors <- FALSE,
  start <- x1, flaw <- x2, leader <- x3, kid <- x4, wrote <- x5, taken <- x6, life <- x7, queue <- x8, closed
  <- x9, flag <- x10, cleaned <- x11, slots <- x12, reader <- x13, dropped <- x14, monitor <- x15, op <- x16,
  asked <- x17, kept <- x18, got <- x19, over <- x20
Mem == INSTANCE Memories WITH
  Flows <- {"w1", "w2"}, Dir <- [w1 |-> "d", w2 |-> Nil], Ids <- {"m1", "m2"}, Bodies <- {"b1", "b2"}, Spilled
  <- {"b2"}, Cands <- {"c1"}, Suggested <- Suggestions, Reviewers <- {"r1", "r2"}, MaxOps <- 2, MaxFaults <-
  1, None <- Nil,
  flows <- x1, mem <- x2, index <- x3, files <- x4, links <- x5, cand <- x6, enabled <- x7, job <- x8, count
  <- x9, task <- x10, recall <- x11, excused <- x12, ops <- x13, faults <- x14
Api == INSTANCE ApiTurn WITH
  Apis <- {"claude", "grok", "gemini"}, MaxRounds <- 2, MaxCalls <- 2, MaxFrames <- 3,
  api <- x1, op <- x2, stage <- x3, round <- x4, got <- x5, todo <- x6, ran <- x7, answered <- x8, emitted <-
  x9, stop <- x10, why <- x11, outcome <- x12
Oc == INSTANCE OpenCodeTurn WITH
  Requests <- OpenCodeRequests, Permissions <- {"read", "bash"}, MaxText <- 2, MaxFrames <- 3,
  req <- x1, maker <- x2, stage <- x3, server <- x4, session <- x5, srv <- x6, wire <- x7, rd <- x8, toolRuns
  <- x9, said <- x10, closing <- x11, stop <- x12, excused <- x13, result <- x14, outcome <- x15
Cop == INSTANCE CopilotTurn WITH
  MaxInterval <- 4, DefaultInterval <- 2, Backoff <- 2, MaxTtl <- 6, FrameLimit <- 3, MaxQueue <- 1,
  stage <- x1, flow <- x2, source <- x3, queue <- x4, ended <- x5, waiting <- x6, frames <- x7, reads <- x8,
  told <- x9, shown <- x10, aborted <- x11, stop <- x12, outcome <- x13
Lic == INSTANCE Licensing WITH
  Benefits <- {"individual", "other"}, Deadlines <- {Nil, 1}, Grace <- 1, Devices <- 1, MaxDay <- 2, MaxRefs
  <- 1, MaxFaults <- 1, None <- Nil,
  config <- x1, day <- x2, key <- x3, row <- x4, vault <- x5, op <- x6, ghost <- x7, drawn <- x8, faults <- x9
Start == INSTANCE Starters WITH
  Flows <- {"w1", "w2"}, Times <- [even |-> {2, 4, 6}, once |-> {2, 3}], Debounce <- 2, MaxTime <- 4, MaxEdits
  <- 2, MaxFaults <- 1,
  clock <- x1, sched <- x2, tick <- x3, busy <- x4, last <- x5, file <- x6, burst <- x7, hook <- x8, answer <-
  x9, edits <- x10, faults <- x11
Store == INSTANCE ProtocolStore WITH
  Areas <- {"blobs", "prekeys", "retry", "secrets", "macs", "lids", "devices"}, Spaces <- {"session",
  "device"}, Names <- {1, 2}, Groups <- {"g", "h"}, Day <- 2, MaxTime <- 4, MaxOps <- 5,
  area <- x1, clock <- x2, table <- x3, upload <- x4, gone <- x5, purged <- x6, batch <- x7, written <- x8,
  ops <- x9
Wa == INSTANCE WhatsApp WITH
  Attempts <- {"a", "b"}, MaxFaults <- 0,
  att <- x1, session <- x2, cmd <- x3, client <- x4, keys <- x5, staging <- x6, final <- x7, row <- x8, owner
  <- x9, running <- x10, cancelled <- x11, faults <- x12
Link == INSTANCE WhatsApp WITH
  Attempts <- {"a"}, MaxFaults <- 2,
  att <- x1, session <- x2, cmd <- x3, client <- x4, keys <- x5, staging <- x6, final <- x7, row <- x8, owner
  <- x9, running <- x10, cancelled <- x11, faults <- x12
Sdk == INSTANCE CodexSdk WITH
  Launches <- {"login", "candidate"}, MaxCalls <- 3, MaxFaults <- 1,
  host <- x1, pending <- x2, ops <- x3, heard <- x4, down <- x5, up <- x6, car <- x7, profile <- x8, browser
  <- x9, refused <- x10, calls <- x11, faults <- x12
App == INSTANCE CodexAppServer WITH
  MaxPending <- 2, MaxIncoming <- 1, LineCap <- 2, TailCap <- 3, MaxLines <- 3, MaxRequests <- 2, MaxTime <- 2,
  area <- x1, tr <- x2, buf <- x3, login <- x4, mapper <- x5, tail <- x6, home <- x7, now <- x8, said <- x9,
  told <- x10
Steps == INSTANCE WorkflowSteps WITH
  GraphNodes <- 4, MaxSteps <- 3, Memories <- {21, 22},
  part <- x1, graph <- x2, topo <- x3, scan <- x4, run <- x5, steps <- x6, ended <- x7
Migr == INSTANCE Migrations WITH
  Flows <- {"w1", "w2"}, Runs <- {"r1"}, Notes <- {"n1"}, Accounts <- {"api", "handed", "unrouted"}, Handed <-
  {"handed"}, Unrouted <- {"unrouted"}, MaxAhead <- 1,
  runs <- x1, steps <- x2, checked <- x3, notes <- x4, links <- x5, scoped <- x6, flows <- x7, order <- x8,
  accounts <- x9, refs <- x10, contract <- x11, scratch <- x12, cleanup <- x13, secrets <- x14, noteIndex <-
  x15, stepIndex <- x16, marks <- x17, at <- x18, fk <- x19, todo <- x20

vars == <<part, x1, x2, x3, x4, x5, x6, x7, x8, x9, x10, x11, x12, x13, x14, x15, x16, x17, x18, x19, x20,
  x21, x22, x23>>

\* A component leaves the variables it does not need alone.
Init ==
  \/ part = "process" /\ Proc!Init
  \/ part = "turn" /\ Turn!Init /\ x17 = 0 /\ x18 = 0 /\ x19 = 0 /\ x20 = 0 /\ x21 = 0 /\ x22 = 0 /\ x23 = 0
  \/ part = "launch" /\ Launch!Init /\ x19 = 0 /\ x20 = 0 /\ x21 = 0 /\ x22 = 0 /\ x23 = 0
  \/ part = "relaunch" /\ Relaunch!Init /\ x19 = 0 /\ x20 = 0 /\ x21 = 0 /\ x22 = 0 /\ x23 = 0
  \/ part = "packages" /\ Packs!Init /\ x11 = 0 /\ x12 = 0 /\ x13 = 0 /\ x14 = 0 /\ x15 = 0 /\ x16 = 0 /\ x17
       = 0 /\ x18 = 0 /\ x19 = 0 /\ x20 = 0 /\ x21 = 0 /\ x22 = 0 /\ x23 = 0
  \/ part = "damage" /\ Damage!Init /\ x11 = 0 /\ x12 = 0 /\ x13 = 0 /\ x14 = 0 /\ x15 = 0 /\ x16 = 0 /\ x17 =
       0 /\ x18 = 0 /\ x19 = 0 /\ x20 = 0 /\ x21 = 0 /\ x22 = 0 /\ x23 = 0
  \/ part = "trust" /\ Trust!Init /\ x11 = 0 /\ x12 = 0 /\ x13 = 0 /\ x14 = 0 /\ x15 = 0 /\ x16 = 0 /\ x17 = 0
       /\ x18 = 0 /\ x19 = 0 /\ x20 = 0 /\ x21 = 0 /\ x22 = 0 /\ x23 = 0
  \/ part = "actions" /\ Acts!Init /\ x10 = 0 /\ x11 = 0 /\ x12 = 0 /\ x13 = 0 /\ x14 = 0 /\ x15 = 0 /\ x16 =
       0 /\ x17 = 0 /\ x18 = 0 /\ x19 = 0 /\ x20 = 0 /\ x21 = 0 /\ x22 = 0 /\ x23 = 0
  \/ part = "polls" /\ Polls!Init /\ x16 = 0 /\ x17 = 0 /\ x18 = 0 /\ x19 = 0 /\ x20 = 0 /\ x21 = 0 /\ x22 = 0
       /\ x23 = 0
  \/ part = "socket" /\ Socket!Init /\ x10 = 0 /\ x11 = 0 /\ x12 = 0 /\ x13 = 0 /\ x14 = 0 /\ x15 = 0 /\ x16 =
       0 /\ x17 = 0 /\ x18 = 0 /\ x19 = 0 /\ x20 = 0 /\ x21 = 0 /\ x22 = 0 /\ x23 = 0
  \/ part = "sign_in" /\ Sign!Init
  \/ part = "sign_ins" /\ Signs!Init
  \/ part = "api_keys" /\ ApiKeys!Init /\ x20 = 0 /\ x21 = 0 /\ x22 = 0 /\ x23 = 0
  \/ part = "accounts" /\ Accts!Init /\ x20 = 0 /\ x21 = 0 /\ x22 = 0 /\ x23 = 0
  \/ part = "connect" /\ Conn!Init /\ x17 = 0 /\ x18 = 0 /\ x19 = 0 /\ x20 = 0 /\ x21 = 0 /\ x22 = 0 /\ x23 =
       0
  \/ part = "reconnect" /\ Redo!Init /\ x17 = 0 /\ x18 = 0 /\ x19 = 0 /\ x20 = 0 /\ x21 = 0 /\ x22 = 0 /\ x23
       = 0
  \/ part = "terminal" /\ Term!Init /\ x21 = 0 /\ x22 = 0 /\ x23 = 0
  \/ part = "terminal_output" /\ Long!Init /\ x21 = 0 /\ x22 = 0 /\ x23 = 0
  \/ part = "memories" /\ Mem!Init /\ x15 = 0 /\ x16 = 0 /\ x17 = 0 /\ x18 = 0 /\ x19 = 0 /\ x20 = 0 /\ x21 =
       0 /\ x22 = 0 /\ x23 = 0
  \/ part = "api" /\ Api!Init /\ x13 = 0 /\ x14 = 0 /\ x15 = 0 /\ x16 = 0 /\ x17 = 0 /\ x18 = 0 /\ x19 = 0 /\
       x20 = 0 /\ x21 = 0 /\ x22 = 0 /\ x23 = 0
  \/ part = "opencode" /\ Oc!Init /\ x16 = 0 /\ x17 = 0 /\ x18 = 0 /\ x19 = 0 /\ x20 = 0 /\ x21 = 0 /\ x22 = 0
       /\ x23 = 0
  \/ part = "copilot" /\ Cop!Init /\ x14 = 0 /\ x15 = 0 /\ x16 = 0 /\ x17 = 0 /\ x18 = 0 /\ x19 = 0 /\ x20 = 0
       /\ x21 = 0 /\ x22 = 0 /\ x23 = 0
  \/ part = "license" /\ Lic!Init /\ x10 = 0 /\ x11 = 0 /\ x12 = 0 /\ x13 = 0 /\ x14 = 0 /\ x15 = 0 /\ x16 = 0
       /\ x17 = 0 /\ x18 = 0 /\ x19 = 0 /\ x20 = 0 /\ x21 = 0 /\ x22 = 0 /\ x23 = 0
  \/ part = "starters" /\ Start!Init /\ x12 = 0 /\ x13 = 0 /\ x14 = 0 /\ x15 = 0 /\ x16 = 0 /\ x17 = 0 /\ x18
       = 0 /\ x19 = 0 /\ x20 = 0 /\ x21 = 0 /\ x22 = 0 /\ x23 = 0
  \/ part = "store" /\ Store!Init /\ x10 = 0 /\ x11 = 0 /\ x12 = 0 /\ x13 = 0 /\ x14 = 0 /\ x15 = 0 /\ x16 = 0
       /\ x17 = 0 /\ x18 = 0 /\ x19 = 0 /\ x20 = 0 /\ x21 = 0 /\ x22 = 0 /\ x23 = 0
  \/ part = "whatsapp" /\ Wa!Init /\ x13 = 0 /\ x14 = 0 /\ x15 = 0 /\ x16 = 0 /\ x17 = 0 /\ x18 = 0 /\ x19 = 0
       /\ x20 = 0 /\ x21 = 0 /\ x22 = 0 /\ x23 = 0
  \/ part = "whatsapp_link" /\ Link!Init /\ x13 = 0 /\ x14 = 0 /\ x15 = 0 /\ x16 = 0 /\ x17 = 0 /\ x18 = 0 /\
       x19 = 0 /\ x20 = 0 /\ x21 = 0 /\ x22 = 0 /\ x23 = 0
  \/ part = "codex_sdk" /\ Sdk!Init /\ x13 = 0 /\ x14 = 0 /\ x15 = 0 /\ x16 = 0 /\ x17 = 0 /\ x18 = 0 /\ x19 =
       0 /\ x20 = 0 /\ x21 = 0 /\ x22 = 0 /\ x23 = 0
  \/ part = "codex_app" /\ App!Init /\ x11 = 0 /\ x12 = 0 /\ x13 = 0 /\ x14 = 0 /\ x15 = 0 /\ x16 = 0 /\ x17 =
       0 /\ x18 = 0 /\ x19 = 0 /\ x20 = 0 /\ x21 = 0 /\ x22 = 0 /\ x23 = 0
  \/ part = "steps" /\ Steps!Init /\ x8 = 0 /\ x9 = 0 /\ x10 = 0 /\ x11 = 0 /\ x12 = 0 /\ x13 = 0 /\ x14 = 0
       /\ x15 = 0 /\ x16 = 0 /\ x17 = 0 /\ x18 = 0 /\ x19 = 0 /\ x20 = 0 /\ x21 = 0 /\ x22 = 0 /\ x23 = 0
  \/ part = "migrations" /\ Migr!Init /\ x21 = 0 /\ x22 = 0 /\ x23 = 0

Next ==
  \/ part = "process" /\ Proc!Next /\ UNCHANGED <<part>>
  \/ part = "turn" /\ Turn!Next /\ UNCHANGED <<part, x17, x18, x19, x20, x21, x22, x23>>
  \/ part = "launch" /\ Launch!Next /\ UNCHANGED <<part, x19, x20, x21, x22, x23>>
  \/ part = "relaunch" /\ Relaunch!Next /\ UNCHANGED <<part, x19, x20, x21, x22, x23>>
  \/ part = "packages" /\ Packs!Next /\ UNCHANGED <<part, x11, x12, x13, x14, x15, x16, x17, x18, x19, x20,
       x21, x22, x23>>
  \/ part = "damage" /\ Damage!Next /\ UNCHANGED <<part, x11, x12, x13, x14, x15, x16, x17, x18, x19, x20,
       x21, x22, x23>>
  \/ part = "trust" /\ Trust!Next /\ UNCHANGED <<part, x11, x12, x13, x14, x15, x16, x17, x18, x19, x20, x21,
       x22, x23>>
  \/ part = "actions" /\ Acts!Next /\ UNCHANGED <<part, x10, x11, x12, x13, x14, x15, x16, x17, x18, x19, x20,
       x21, x22, x23>>
  \/ part = "polls" /\ Polls!Next /\ UNCHANGED <<part, x16, x17, x18, x19, x20, x21, x22, x23>>
  \/ part = "socket" /\ Socket!Next /\ UNCHANGED <<part, x10, x11, x12, x13, x14, x15, x16, x17, x18, x19,
       x20, x21, x22, x23>>
  \/ part = "sign_in" /\ Sign!Next /\ UNCHANGED <<part>>
  \/ part = "sign_ins" /\ Signs!Next /\ UNCHANGED <<part>>
  \/ part = "api_keys" /\ ApiKeys!Next /\ UNCHANGED <<part, x20, x21, x22, x23>>
  \/ part = "accounts" /\ Accts!Next /\ UNCHANGED <<part, x20, x21, x22, x23>>
  \/ part = "connect" /\ Conn!Next /\ UNCHANGED <<part, x17, x18, x19, x20, x21, x22, x23>>
  \/ part = "reconnect" /\ Redo!Next /\ UNCHANGED <<part, x17, x18, x19, x20, x21, x22, x23>>
  \/ part = "terminal" /\ Term!Next /\ UNCHANGED <<part, x21, x22, x23>>
  \/ part = "terminal_output" /\ Long!Next /\ UNCHANGED <<part, x21, x22, x23>>
  \/ part = "memories" /\ Mem!Next /\ UNCHANGED <<part, x15, x16, x17, x18, x19, x20, x21, x22, x23>>
  \/ part = "api" /\ Api!Next /\ UNCHANGED <<part, x13, x14, x15, x16, x17, x18, x19, x20, x21, x22, x23>>
  \/ part = "opencode" /\ Oc!Next /\ UNCHANGED <<part, x16, x17, x18, x19, x20, x21, x22, x23>>
  \/ part = "copilot" /\ Cop!Next /\ UNCHANGED <<part, x14, x15, x16, x17, x18, x19, x20, x21, x22, x23>>
  \/ part = "license" /\ Lic!Next /\ UNCHANGED <<part, x10, x11, x12, x13, x14, x15, x16, x17, x18, x19, x20,
       x21, x22, x23>>
  \/ part = "starters" /\ Start!Next /\ UNCHANGED <<part, x12, x13, x14, x15, x16, x17, x18, x19, x20, x21,
       x22, x23>>
  \/ part = "store" /\ Store!Next /\ UNCHANGED <<part, x10, x11, x12, x13, x14, x15, x16, x17, x18, x19, x20,
       x21, x22, x23>>
  \/ part = "whatsapp" /\ Wa!Next /\ UNCHANGED <<part, x13, x14, x15, x16, x17, x18, x19, x20, x21, x22, x23>>
  \/ part = "whatsapp_link" /\ Link!Next /\ UNCHANGED <<part, x13, x14, x15, x16, x17, x18, x19, x20, x21,
       x22, x23>>
  \/ part = "codex_sdk" /\ Sdk!Next /\ UNCHANGED <<part, x13, x14, x15, x16, x17, x18, x19, x20, x21, x22,
       x23>>
  \/ part = "codex_app" /\ App!Next /\ UNCHANGED <<part, x11, x12, x13, x14, x15, x16, x17, x18, x19, x20,
       x21, x22, x23>>
  \/ part = "steps" /\ Steps!Next /\ UNCHANGED <<part, x8, x9, x10, x11, x12, x13, x14, x15, x16, x17, x18,
       x19, x20, x21, x22, x23>>
  \/ part = "migrations" /\ Migr!Next /\ UNCHANGED <<part, x21, x22, x23>>

Spec == Init /\ [][Next]_vars

-----------------------------------------------------------------------------
\* The properties of the components, stated and explained in their modules.

\* Every variable of the component that moves keeps its type.
TypeOK ==
  /\ part = "process" => Proc!TypeOK
  /\ part = "turn" => Turn!TypeOK
  /\ part = "launch" => Launch!TypeOK
  /\ part = "relaunch" => Relaunch!TypeOK
  /\ part = "packages" => Packs!TypeOK
  /\ part = "damage" => Damage!TypeOK
  /\ part = "trust" => Trust!TypeOK
  /\ part = "actions" => Acts!TypeOK
  /\ part = "polls" => Polls!TypeOK
  /\ part = "socket" => Socket!TypeOK
  /\ part = "sign_in" => Sign!TypeOK
  /\ part = "sign_ins" => Signs!TypeOK
  /\ part = "api_keys" => ApiKeys!TypeOK
  /\ part = "accounts" => Accts!TypeOK
  /\ part = "connect" => Conn!TypeOK
  /\ part = "reconnect" => Redo!TypeOK
  /\ part = "terminal" => Term!TypeOK
  /\ part = "terminal_output" => Long!TypeOK
  /\ part = "memories" => Mem!TypeOK
  /\ part = "api" => Api!TypeOK
  /\ part = "opencode" => Oc!TypeOK
  /\ part = "copilot" => Cop!TypeOK
  /\ part = "license" => Lic!TypeOK
  /\ part = "starters" => Start!TypeOK
  /\ part = "store" => Store!TypeOK
  /\ part = "whatsapp" => Wa!TypeOK
  /\ part = "whatsapp_link" => Link!TypeOK
  /\ part = "codex_sdk" => Sdk!TypeOK
  /\ part = "codex_app" => App!TypeOK
  /\ part = "steps" => Steps!TypeOK
  /\ part = "migrations" => Migr!TypeOK
\* Commands, managed runtimes and terminals: what runs is what its manifest pins, no process outlives what it
\* was started for, the end that is told is the end it had, and no output is lost on the way
\* (publisher_trust.rs, process.rs, managed_runtime.rs, terminal.rs).
ProcessesAreContained ==
  /\ part = "process" =>
       Proc!OutputArrives /\ Proc!NoOrphan /\ Proc!SuccessIsReal /\ Proc!ClaudeAlone
  /\ part = "launch" =>
       Launch!OneRuntimePerKey /\ Launch!EndedIsDead /\ Launch!TypedFramesHaveNoGap /\
       Launch!ReportedAsAsked
  /\ part = "relaunch" =>
       Relaunch!OneRuntimePerKey /\ Relaunch!EndedIsDead /\ Relaunch!TypedFramesHaveNoGap /\
       Relaunch!ReportedAsAsked
  /\ part = "trust" =>
       Trust!RunsAsPinned /\ Trust!UntouchedIsSelected
  /\ part = "terminal" =>
       Term!LeaseCoversGroup /\ Term!EndIsHonest /\ Term!ReadInOrder
  /\ part = "terminal_output" =>
       Long!LeaseCoversGroup /\ Long!EndIsHonest /\ Long!ReadInOrder

\* Whatever is interrupted, fails or is damaged, the active version and the one to go back to are on the disk
\* (runtime_package.rs).
VersionsSurvive ==
  /\ part = "packages" =>
       Packs!ActiveIsOnDisk /\ Packs!PreviousIsOnDisk
  /\ part = "damage" =>
       Damage!ActiveIsOnDisk /\ Damage!PreviousIsOnDisk

\* An action writes at most once at its provider and its error says what may have happened there; nothing old
\* starts a run, and nothing the cursor has passed is lost (actions.rs, the providers' polls).
ProvidersAreTakenAtTheirWord ==
  /\ part = "actions" =>
       Acts!HonestErrors /\ Acts!WrittenOnce /\ Acts!ScopeRefusalIsTrue
  /\ part = "polls" =>
       Polls!WindowsDoNotReplay /\ Polls!PassedIsRecorded /\ Polls!CreatedIsNew

\* What the socket has acknowledged is in its batch, with every trigger, or its call failed (slack.rs).
MentionsAreKept ==
  /\ part = "socket" =>
       Socket!AckedIsKept

\* What a sign-in connects was checked and has its credential, what was cancelled does not connect, and no
\* credential is left over (the providers' complete and poll).
SignInsAreSound ==
  /\ part = "sign_in" =>
       Sign!RowHasItsCredential /\ Sign!NoStrayCredential /\ Sign!CancelledNeverConnects /\
       Sign!AcceptedIsSound /\ Sign!OneTelegram /\ Sign!TestedOnce /\ Sign!GrantOutlivesRefresh
  /\ part = "sign_ins" =>
       Signs!RowHasItsCredential /\ Signs!NoStrayCredential /\ Signs!CancelledNeverConnects /\
       Signs!AcceptedIsSound /\ Signs!OneTelegram /\ Signs!TestedOnce /\ Signs!GrantOutlivesRefresh

\* Accounts, their secrets and their profiles agree, through failures, quits and commands that wait for each
\* other (service.rs, commands/managed_runtime.rs).
AccountsAgree ==
  /\ part = "api_keys" =>
       ApiKeys!ConnectedHasCredential /\ ApiKeys!ShownKeyIsStored /\ ApiKeys!NoOrphanSecret /\
       ApiKeys!LiveWhenConnected /\ ApiKeys!OneWriter /\ ApiKeys!CalledOffNeverConnects
  /\ part = "accounts" =>
       Accts!ConnectedHasCredential /\ Accts!ShownKeyIsStored /\ Accts!NoOrphanSecret /\
       Accts!LiveWhenConnected /\ Accts!OneWriter /\ Accts!CalledOffNeverConnects
  /\ part = "connect" =>
       Conn!LeasedExists /\ Conn!DisconnectedIsPurged /\ Conn!ShownIsStored
  /\ part = "reconnect" =>
       Redo!LeasedExists /\ Redo!DisconnectedIsPurged /\ Redo!ShownIsStored

\* Rows, files and the index of the memories agree, and reviews leave what their one task found (memories.rs,
\* memory_curation.rs).
MemoriesAgree ==
  /\ part = "memories" =>
       Mem!IndexIsCurrent /\ Mem!FilesMatchRows /\ Mem!PinnedIsActive /\ Mem!RecallIsTraced /\
       Mem!OneReviewer /\ Mem!CandidatesOfCompleted

\* A turn runs the tools it may, tells the host what happened in order and leaves nothing behind; the two ends
\* of a session agree on what was asked, answered and ended (registry.rs and the providers).
TurnsAreFaithful ==
  /\ part = "turn" =>
       Turn!ConsentedTools /\ Turn!ToolPairsClose /\ Turn!NothingOutlivesTurn
  /\ part = "api" =>
       Api!ToolsOfWholeAnswers /\ Api!ResultsAreSent /\ Api!CompletedIsLast /\ Api!RetryIsWorthwhile
  /\ part = "opencode" =>
       Oc!ToolsAreGranted /\ Oc!TextIsWhole /\ Oc!ToldAsItEnded /\ Oc!NothingIsLeft /\ Oc!ResolvedIsHeard
  /\ part = "copilot" =>
       Cop!NoPollAfterExpiry /\ Cop!OneEndIsTold /\ Cop!NoMutualWait /\ Cop!ReadsAreBounded /\
       Cop!TokensAreHidden
  /\ part = "codex_sdk" =>
       Sdk!IngestAccepts /\ Sdk!PendingIsAnswered /\ Sdk!ReceiptAfterLogout /\ Sdk!TurnEndsAsItDid
  /\ part = "codex_app" =>
       App!EveryRequestHasOneEnd /\ App!OneLoginEnd /\ App!UsageIsOfItsTurn /\ App!AcceptedIsInside /\
       App!TailIsCounted

\* Device slots, the stored key and the row agree with what the service granted, and an outage neither revokes
\* nor prolongs (licensing/service.rs).
LicenseIsAccountedFor ==
  /\ part = "license" =>
       Lic!LapsedIsNotRevoked /\ Lic!DevicesAreAccounted /\ Lic!RowHasItsKey /\ Lic!GraceIsBounded

\* A linked device has one client, a tested connection that opens its store, and a store that reads what was
\* written (whatsapp).
DevicesAgree ==
  /\ part = "store" =>
       Store!GoneStaysGone /\ Store!ReadIsWritten /\ Store!RetriesAreShort /\ Store!BatchesAreWhole /\
       Store!PhoneAgrees
  /\ part = "whatsapp" =>
       Wa!TestedBeforeConnected /\ Wa!OneClientPerDevice /\ Wa!ConnectedOpensItsStore
  /\ part = "whatsapp_link" =>
       Link!TestedBeforeConnected /\ Link!OneClientPerDevice /\ Link!ConnectedOpensItsStore

\* Nodes run after what they follow, and a run reports the texts, files and results of its own steps
\* (runner/mod.rs).
RunsReportTheirOwn ==
  /\ part = "steps" =>
       Steps!OrderRespectsEdges /\ Steps!NearestAgentsReport /\ Steps!FilesAreOfTheLastAgent /\
       Steps!RecallAddsNew /\ Steps!ResultIsOfCompletedSteps

\* However often starts are interrupted, the migrations keep what belongs to a row, complete the search
\* indexes, and leave no credential that nothing refers to (migrate.rs).
StartsLoseNothing ==
  /\ part = "migrations" =>
       Migr!RowsKeepTheirOwn /\ Migr!SearchFindsAll /\ Migr!SecretsAreReferenced /\ Migr!OpenIsMigrated /\
       Migr!NumberedApart

\* No step, of whichever component, takes back what was settled: a first reason to stop, a version that was
\* installed, a license, a life of a secret; and none acts on what is stale: a profile, a due time, a burst, a
\* candidate.
KeepsFaith ==
  /\ part = "launch" =>
       Launch!FirstReasonStands
  /\ part = "relaunch" =>
       Relaunch!FirstReasonStands
  /\ part = "packages" =>
       Packs!GenerationsGrow
  /\ part = "damage" =>
       Damage!GenerationsGrow
  /\ part = "trust" =>
       Trust!InstalledAsPinned
  /\ part = "api_keys" =>
       ApiKeys!FailedConnectRestores
  /\ part = "accounts" =>
       Accts!FailedConnectRestores
  /\ part = "connect" =>
       Conn!NoStaleLaunch /\ Conn!RetriedLogoutSucceeds
  /\ part = "reconnect" =>
       Redo!NoStaleLaunch /\ Redo!RetriedLogoutSucceeds
  /\ part = "memories" =>
       Mem!ApprovalIsSound
  /\ part = "api" =>
       Api!StoppedDoesNoMore
  /\ part = "copilot" =>
       Cop!PollsAsAsked
  /\ part = "license" =>
       Lic!FailedDeactivationKeeps
  /\ part = "starters" =>
       Start!EachDueOnce /\ Start!BurstIsOneRun
  /\ part = "store" =>
       Store!SecretsLiveOn

\* As a property of every step: what was settled stays, what is stale is not acted on.
StepsKeepFaith == [][KeepsFaith]_vars

=============================================================================
