-------------------------- MODULE MC_ComponentsLive --------------------------
(***************************************************************************)
(* What the components promise to do in the end, side by side as in        *)
(* MC_Components, each under the fairness of its own module.               *)
(***************************************************************************)
EXTENDS Naturals, Sequences, FiniteSets

CONSTANTS p1, s1, w1, f1, f2, Nil

VARIABLES
  part,   \* the component this behaviour is about
  proc_caller, proc_returned, proc_why, proc_child, proc_slot, proc_cancel, proc_canceller, proc_expired,
  proc_open, proc_heir, proc_unsent, proc_inPipe, proc_owed, proc_wrote, proc_pipe, proc_hand, proc_chan,
  proc_seen, proc_ended, proc_garbled, proc_captured, proc_truncated, proc_claude,
  turn_registered, turn_turn, turn_outcome, turn_control, turn_handle, turn_late, turn_active, turn_watcher,
  turn_call, turn_log, turn_ran, turn_pending, turn_remembered, turn_yes, turn_always, turn_left,
  la_launcher, la_answer, la_entries, la_life, la_termKind, la_failure, la_stopFor, la_frames, la_secret,
  la_stream, la_tree, la_exit, la_monitor, la_verdict, la_cancelled, la_passed, la_sent, la_got,
  ev_handedOver, ev_alive, ev_enabled, ev_cursor, ev_receipt, ev_queuedAt, ev_clock, ev_runs, ev_runStatus,
  ev_seen, ev_lost, ev_forgotten, ev_sync, ev_todo, ev_last, ev_pressed, ev_cancelled, ev_listed, ev_starting,
  ev_serving, ev_slot, ev_recovered, ev_upsets,
  so_unacked, so_stream, so_call, so_events, so_todo, so_persisted, so_overrun, so_excused, so_faults,
  si_provider, si_had, si_flaw, si_account, si_target, si_session, si_cancelled, si_stopped, si_expired,
  si_pc, si_result, si_ref, si_fresh, si_prior, si_paired, si_vault, si_rows, si_sent, si_excused, si_grant,
  si_reauth, si_revoked, si_faults,
  aa_kind, aa_accounts, aa_secrets, aa_owed, aa_dead, aa_attempt, aa_lapsed, aa_flagged, aa_called, aa_task,
  aa_pc, aa_my, aa_arc, aa_holds, aa_inMap, aa_gen, aa_answer, aa_excused, aa_faults,
  te_start, te_flaw, te_leader, te_kid, te_wrote, te_taken, te_life, te_queue, te_closed, te_flag, te_cleaned,
  te_slots, te_reader, te_dropped, te_monitor, te_op, te_asked, te_kept, te_got, te_over,
  me_flows, me_mem, me_index, me_files, me_links, me_cand, me_enabled, me_job, me_count, me_task, me_recall,
  me_excused, me_ops, me_faults,
  ap_api, ap_op, ap_stage, ap_round, ap_got, ap_todo, ap_ran, ap_answered, ap_emitted, ap_stop, ap_why,
  ap_outcome,
  oc_req, oc_maker, oc_stage, oc_server, oc_session, oc_srv, oc_wire, oc_rd, oc_toolRuns, oc_said, oc_closing,
  oc_stop, oc_excused, oc_result, oc_outcome,
  st_clock, st_sched, st_tick, st_busy, st_last, st_file, st_burst, st_hook, st_answer, st_edits, st_faults,
  cs_host, cs_pending, cs_ops, cs_heard, cs_down, cs_up, cs_car, cs_profile, cs_browser, cs_refused, cs_calls,
  cs_faults

R(m, c, f, s) == [mode |-> m, caps |-> c, filesystem |-> f, shell |-> s, subagents |-> "ask"]
OpenCodeRequests ==
  {R("ephemeral", {"filesystem", "patch"}, "ask", "allow"), R("start", {"filesystem", "shell"}, "allow", "deny"),
   R("resume", {"shell", "subagents"}, "deny", "ask"), R("fork", {}, "deny", "deny"), R("models", {}, "deny", "deny")}
Rec(o, t, s, b, f) == [op |-> o, target |-> t, scope |-> s, body |-> b, flaw |-> f]
Suggestions ==
  {Rec("create", Nil, "workflow", "b1", "none"), Rec("supersede", "m1", "workflow", "b2", "none"),
   Rec("retract", "m1", "workflow", "b2", "none"), Rec("create", Nil, "user", "b2", "secret_body")}

Proc == INSTANCE AgentProcess WITH
  Streams <- {"out"}, ChannelCap <- 1, PipeCap <- 1, CaptureCap <- 1, MaxLines <- 1, Prompts <- {0, 1},
  caller <- proc_caller, returned <- proc_returned, why <- proc_why, child <- proc_child, slot <- proc_slot,
  cancel <- proc_cancel, canceller <- proc_canceller, expired <- proc_expired, open <- proc_open, heir <-
  proc_heir, unsent <- proc_unsent, inPipe <- proc_inPipe, owed <- proc_owed, wrote <- proc_wrote, pipe <-
  proc_pipe, hand <- proc_hand, chan <- proc_chan, seen <- proc_seen, ended <- proc_ended, garbled <-
  proc_garbled, captured <- proc_captured, truncated <- proc_truncated, claude <- proc_claude
Turn == INSTANCE NativeTurn WITH
  Turns <- {"t1"}, Requests <- {"r1"}, Kinds <- {"shell", "mcp", "file", "net"}, Policy <- [shell |-> "ask",
  mcp |-> "deny", file |-> "allow", net |-> "ask"], Granted <- {"shell", "mcp", "file"}, MaxEvents <- 2,
  MaxTurns <- 1,
  registered <- turn_registered, turn <- turn_turn, outcome <- turn_outcome, control <- turn_control, handle
  <- turn_handle, late <- turn_late, active <- turn_active, watcher <- turn_watcher, call <- turn_call, log <-
  turn_log, ran <- turn_ran, pending <- turn_pending, remembered <- turn_remembered, yes <- turn_yes, always
  <- turn_always, left <- turn_left
Launch == INSTANCE ManagedRuntime WITH
  Launches <- {1}, Probe <- <<"line">>, Typed <- {1}, Escapes <- {1}, StreamCap <- 1, FrameCap <- 1, MaxFrames
  <- <<0>>, Noise <- <<{}>>, Timed <- <<{"startup"}>>, Cancels <- {1}, Flaws <- {},
  launcher <- la_launcher, answer <- la_answer, entries <- la_entries, life <- la_life, termKind <-
  la_termKind, failure <- la_failure, stopFor <- la_stopFor, frames <- la_frames, secret <- la_secret, stream
  <- la_stream, tree <- la_tree, exit <- la_exit, monitor <- la_monitor, verdict <- la_verdict, cancelled <-
  la_cancelled, passed <- la_passed, sent <- la_sent, got <- la_got
Events == INSTANCE AppEvents WITH
  Triggers <- {p1, s1}, Polling <- {p1}, Workflows <- {w1}, WorkflowOf <- [t \in {p1, s1} |-> w1], Feeds <-
  {f1, f2}, FeedOf <- [t \in {p1, s1} |-> IF t = p1 THEN f1 ELSE f2], Invalid <- {}, Filtered <- {}, Aged <-
  {}, PendingCap <- 1, MaxPosition <- 1, FeedLength <- [f \in {f1, f2} |-> 1], MaxUpsets <- 1,
  handedOver <- ev_handedOver, alive <- ev_alive, enabled <- ev_enabled, cursor <- ev_cursor, receipt <-
  ev_receipt, queuedAt <- ev_queuedAt, clock <- ev_clock, runs <- ev_runs, runStatus <- ev_runStatus, seen <-
  ev_seen, lost <- ev_lost, forgotten <- ev_forgotten, sync <- ev_sync, todo <- ev_todo, last <- ev_last,
  pressed <- ev_pressed, cancelled <- ev_cancelled, listed <- ev_listed, starting <- ev_starting, serving <-
  ev_serving, slot <- ev_slot, recovered <- ev_recovered, upsets <- ev_upsets
Socket == INSTANCE SlackSocket WITH
  Mentions <- {"m1"}, Bad <- {"b1"}, Noise <- {"n1"}, Triggers <- {1, 2}, BatchLimit <- 1, MaxBreaks <- 2,
  unacked <- so_unacked, stream <- so_stream, call <- so_call, events <- so_events, todo <- so_todo, persisted
  <- so_persisted, overrun <- so_overrun, excused <- so_excused, faults <- so_faults
Sign == INSTANCE SignIn WITH
  Providers <- {"github", "microsoft", "telegram"}, Calls <- {"c1"}, Accounts <- {"a"}, MaxSessions <- 2,
  MaxFaults <- 1,
  provider <- si_provider, had <- si_had, flaw <- si_flaw, account <- si_account, target <- si_target, session
  <- si_session, cancelled <- si_cancelled, stopped <- si_stopped, expired <- si_expired, pc <- si_pc, result
  <- si_result, ref <- si_ref, fresh <- si_fresh, prior <- si_prior, paired <- si_paired, vault <- si_vault,
  rows <- si_rows, sent <- si_sent, excused <- si_excused, grant <- si_grant, reauth <- si_reauth, revoked <-
  si_revoked, faults <- si_faults
Accts == INSTANCE AgentAccounts WITH
  Kinds <- {"api"}, Ids <- {"i1", "i2"}, Keys <- {"k1"}, Calls <- {"c1", "c2"}, Earlier <- {"connected"},
  MaxLocks <- 1, MaxAttempts <- 1, MaxFaults <- 0,
  kind <- aa_kind, accounts <- aa_accounts, secrets <- aa_secrets, owed <- aa_owed, dead <- aa_dead, attempt
  <- aa_attempt, lapsed <- aa_lapsed, flagged <- aa_flagged, called <- aa_called, task <- aa_task, pc <-
  aa_pc, my <- aa_my, arc <- aa_arc, holds <- aa_holds, inMap <- aa_inMap, gen <- aa_gen, answer <- aa_answer,
  excused <- aa_excused, faults <- aa_faults
Term == INSTANCE ClaudeTerminal WITH
  Callers <- {"c1"}, Flaws <- {"none"}, QueueCap <- 1, MaxChunks <- 0, Escapes <- FALSE, ReadErrors <- FALSE,
  start <- te_start, flaw <- te_flaw, leader <- te_leader, kid <- te_kid, wrote <- te_wrote, taken <-
  te_taken, life <- te_life, queue <- te_queue, closed <- te_closed, flag <- te_flag, cleaned <- te_cleaned,
  slots <- te_slots, reader <- te_reader, dropped <- te_dropped, monitor <- te_monitor, op <- te_op, asked <-
  te_asked, kept <- te_kept, got <- te_got, over <- te_over
Mem == INSTANCE Memories WITH
  Flows <- {"w1"}, Dir <- [w1 |-> "d"], Ids <- {"m1", "m2"}, Bodies <- {"b1", "b2"}, Spilled <- {"b2"}, Cands
  <- {"c1"}, Suggested <- Suggestions, Reviewers <- {"r1", "r2"}, MaxOps <- 1, MaxFaults <- 1, None <- Nil,
  flows <- me_flows, mem <- me_mem, index <- me_index, files <- me_files, links <- me_links, cand <- me_cand,
  enabled <- me_enabled, job <- me_job, count <- me_count, task <- me_task, recall <- me_recall, excused <-
  me_excused, ops <- me_ops, faults <- me_faults
Api == INSTANCE ApiTurn WITH
  Apis <- {"claude", "grok", "gemini"}, MaxRounds <- 2, MaxCalls <- 1, MaxFrames <- 2,
  api <- ap_api, op <- ap_op, stage <- ap_stage, round <- ap_round, got <- ap_got, todo <- ap_todo, ran <-
  ap_ran, answered <- ap_answered, emitted <- ap_emitted, stop <- ap_stop, why <- ap_why, outcome <-
  ap_outcome
Oc == INSTANCE OpenCodeTurn WITH
  Requests <- OpenCodeRequests, Permissions <- {"bash"}, MaxText <- 0, MaxFrames <- 2,
  req <- oc_req, maker <- oc_maker, stage <- oc_stage, server <- oc_server, session <- oc_session, srv <-
  oc_srv, wire <- oc_wire, rd <- oc_rd, toolRuns <- oc_toolRuns, said <- oc_said, closing <- oc_closing, stop
  <- oc_stop, excused <- oc_excused, result <- oc_result, outcome <- oc_outcome
Start == INSTANCE Starters WITH
  Flows <- {"w1", "w2"}, Times <- [each |-> {2, 3}, once |-> {1}], Debounce <- 1, MaxTime <- 2, MaxEdits <- 2,
  MaxFaults <- 1,
  clock <- st_clock, sched <- st_sched, tick <- st_tick, busy <- st_busy, last <- st_last, file <- st_file,
  burst <- st_burst, hook <- st_hook, answer <- st_answer, edits <- st_edits, faults <- st_faults
Sdk == INSTANCE CodexSdk WITH
  Launches <- {"login", "candidate"}, MaxCalls <- 2, MaxFaults <- 1,
  host <- cs_host, pending <- cs_pending, ops <- cs_ops, heard <- cs_heard, down <- cs_down, up <- cs_up, car
  <- cs_car, profile <- cs_profile, browser <- cs_browser, refused <- cs_refused, calls <- cs_calls, faults <-
  cs_faults

procVars == <<proc_caller, proc_returned, proc_why, proc_child, proc_slot, proc_cancel, proc_canceller,
  proc_expired, proc_open, proc_heir, proc_unsent, proc_inPipe, proc_owed, proc_wrote, proc_pipe, proc_hand,
  proc_chan, proc_seen, proc_ended, proc_garbled, proc_captured, proc_truncated, proc_claude>>
turnVars == <<turn_registered, turn_turn, turn_outcome, turn_control, turn_handle, turn_late, turn_active,
  turn_watcher, turn_call, turn_log, turn_ran, turn_pending, turn_remembered, turn_yes, turn_always,
  turn_left>>
laVars == <<la_launcher, la_answer, la_entries, la_life, la_termKind, la_failure, la_stopFor, la_frames,
  la_secret, la_stream, la_tree, la_exit, la_monitor, la_verdict, la_cancelled, la_passed, la_sent, la_got>>
evVars == <<ev_handedOver, ev_alive, ev_enabled, ev_cursor, ev_receipt, ev_queuedAt, ev_clock, ev_runs,
  ev_runStatus, ev_seen, ev_lost, ev_forgotten, ev_sync, ev_todo, ev_last, ev_pressed, ev_cancelled,
  ev_listed, ev_starting, ev_serving, ev_slot, ev_recovered, ev_upsets>>
soVars == <<so_unacked, so_stream, so_call, so_events, so_todo, so_persisted, so_overrun, so_excused,
  so_faults>>
siVars == <<si_provider, si_had, si_flaw, si_account, si_target, si_session, si_cancelled, si_stopped,
  si_expired, si_pc, si_result, si_ref, si_fresh, si_prior, si_paired, si_vault, si_rows, si_sent, si_excused,
  si_grant, si_reauth, si_revoked, si_faults>>
aaVars == <<aa_kind, aa_accounts, aa_secrets, aa_owed, aa_dead, aa_attempt, aa_lapsed, aa_flagged, aa_called,
  aa_task, aa_pc, aa_my, aa_arc, aa_holds, aa_inMap, aa_gen, aa_answer, aa_excused, aa_faults>>
teVars == <<te_start, te_flaw, te_leader, te_kid, te_wrote, te_taken, te_life, te_queue, te_closed, te_flag,
  te_cleaned, te_slots, te_reader, te_dropped, te_monitor, te_op, te_asked, te_kept, te_got, te_over>>
meVars == <<me_flows, me_mem, me_index, me_files, me_links, me_cand, me_enabled, me_job, me_count, me_task,
  me_recall, me_excused, me_ops, me_faults>>
apVars == <<ap_api, ap_op, ap_stage, ap_round, ap_got, ap_todo, ap_ran, ap_answered, ap_emitted, ap_stop,
  ap_why, ap_outcome>>
ocVars == <<oc_req, oc_maker, oc_stage, oc_server, oc_session, oc_srv, oc_wire, oc_rd, oc_toolRuns, oc_said,
  oc_closing, oc_stop, oc_excused, oc_result, oc_outcome>>
stVars == <<st_clock, st_sched, st_tick, st_busy, st_last, st_file, st_burst, st_hook, st_answer, st_edits,
  st_faults>>
csVars == <<cs_host, cs_pending, cs_ops, cs_heard, cs_down, cs_up, cs_car, cs_profile, cs_browser, cs_refused,
  cs_calls, cs_faults>>
vars == <<part, procVars, turnVars, laVars, evVars, soVars, siVars, aaVars, teVars, meVars, apVars, ocVars,
  stVars, csVars>>

Parts == {"process", "turn", "launch", "events", "socket", "sign_in", "accounts", "terminal", "memories",
  "api", "opencode", "starters", "codex_sdk"}
Init == part \in Parts /\ Proc!Init /\ Turn!Init /\ Launch!Init /\ Events!Init /\ Socket!Init /\ Sign!Init /\
  Accts!Init /\ Term!Init /\ Mem!Init /\ Api!Init /\ Oc!Init /\ Start!Init /\ Sdk!Init

Next ==
  \/ part = "process" /\ Proc!Next /\ UNCHANGED <<part, turnVars, laVars, evVars, soVars, siVars, aaVars,
       teVars, meVars, apVars, ocVars, stVars, csVars>>
  \/ part = "turn" /\ Turn!Next /\ UNCHANGED <<part, procVars, laVars, evVars, soVars, siVars, aaVars, teVars,
       meVars, apVars, ocVars, stVars, csVars>>
  \/ part = "launch" /\ Launch!Next /\ UNCHANGED <<part, procVars, turnVars, evVars, soVars, siVars, aaVars,
       teVars, meVars, apVars, ocVars, stVars, csVars>>
  \/ part = "events" /\ Events!Next /\ UNCHANGED <<part, procVars, turnVars, laVars, soVars, siVars, aaVars,
       teVars, meVars, apVars, ocVars, stVars, csVars>>
  \/ part = "socket" /\ Socket!Next /\ UNCHANGED <<part, procVars, turnVars, laVars, evVars, siVars, aaVars,
       teVars, meVars, apVars, ocVars, stVars, csVars>>
  \/ part = "sign_in" /\ Sign!Next /\ UNCHANGED <<part, procVars, turnVars, laVars, evVars, soVars, aaVars,
       teVars, meVars, apVars, ocVars, stVars, csVars>>
  \/ part = "accounts" /\ Accts!Next /\ UNCHANGED <<part, procVars, turnVars, laVars, evVars, soVars, siVars,
       teVars, meVars, apVars, ocVars, stVars, csVars>>
  \/ part = "terminal" /\ Term!Next /\ UNCHANGED <<part, procVars, turnVars, laVars, evVars, soVars, siVars,
       aaVars, meVars, apVars, ocVars, stVars, csVars>>
  \/ part = "memories" /\ Mem!Next /\ UNCHANGED <<part, procVars, turnVars, laVars, evVars, soVars, siVars,
       aaVars, teVars, apVars, ocVars, stVars, csVars>>
  \/ part = "api" /\ Api!Next /\ UNCHANGED <<part, procVars, turnVars, laVars, evVars, soVars, siVars, aaVars,
       teVars, meVars, ocVars, stVars, csVars>>
  \/ part = "opencode" /\ Oc!Next /\ UNCHANGED <<part, procVars, turnVars, laVars, evVars, soVars, siVars,
       aaVars, teVars, meVars, apVars, stVars, csVars>>
  \/ part = "starters" /\ Start!Next /\ UNCHANGED <<part, procVars, turnVars, laVars, evVars, soVars, siVars,
       aaVars, teVars, meVars, apVars, ocVars, csVars>>
  \/ part = "codex_sdk" /\ Sdk!Next /\ UNCHANGED <<part, procVars, turnVars, laVars, evVars, soVars, siVars,
       aaVars, teVars, meVars, apVars, ocVars, stVars>>

\* The fairness of each component, in the behaviours that are about it.
Of(p, A) == part = p /\ A
Fairness ==
  /\ WF_procVars(Of("process", Proc!Caller)) /\ WF_procVars(Of("process", Proc!Deadline)) /\
     WF_procVars(Of("process", Proc!CancelKills)) /\ WF_procVars(Of("process", Proc!OtherReleases)) /\
     WF_procVars(Of("process", Proc!ChildReads)) /\ WF_procVars(Of("process", Proc!ChildAnswers)) /\
     WF_procVars(Of("process", Proc!Reader("out")))
  /\ WF_turnVars(Of("turn", Turn!Step("t1"))) /\ WF_turnVars(Of("turn", Turn!WatchCancels("t1"))) /\
     WF_turnVars(Of("turn", Turn!WatchStops("t1")))
  /\ WF_laVars(Of("launch", Launch!Monitor(1))) /\ WF_laVars(Of("launch", Launch!DeadlinePasses(1))) /\
     WF_laVars(Of("launch", Launch!StartupFails(1) \/ Launch!StartupReady(1)))
  /\ \A i \in Events!Items : WF_evVars(Of("events", Events!Launch(i)))
  /\ WF_evVars(Of("events", Events!Recover)) /\ WF_evVars(Of("events", Events!ListPending)) /\
     WF_evVars(Of("events", Events!ListQueue)) /\ WF_evVars(Of("events", Events!Promote(w1)))
  /\ WF_soVars(Of("socket", Socket!Caller)) /\ WF_soVars(Of("socket", Socket!ReadTimeout))
  /\ SF_soVars(Of("socket", Socket!Receive))
  /\ WF_siVars(Of("sign_in", Sign!CallStep("c1"))) /\ WF_siVars(Of("sign_in", Sign!Expire("c1")))
  /\ WF_aaVars(Of("accounts", Accts!Step("c1"))) /\ WF_aaVars(Of("accounts", Accts!Step("c2")))
  /\ WF_teVars(Of("terminal", Term!Reader)) /\ WF_teVars(Of("terminal", Term!Monitor)) /\
     WF_teVars(Of("terminal", Term!PollExit)) /\ WF_teVars(Of("terminal", Term!CancelAndCleanup("c1"))) /\
     WF_teVars(Of("terminal", Term!CancelAndCleanup("monitor"))) /\ WF_teVars(Of("terminal", te_op["c1"] =
     "write" /\ ~Term!SlaveOpen /\ Term!WriteInput("c1")))
  /\ WF_meVars(Of("memories", Mem!ReviewStep("r1"))) /\ WF_meVars(Of("memories", Mem!ReviewStep("r2")))
  /\ WF_apVars(Of("api", Api!Step)) /\ WF_apVars(Of("api", Api!Wake))
  /\ WF_ocVars(Of("opencode", Oc!Step)) /\ WF_ocVars(Of("opencode", Oc!Wake))
  /\ WF_stVars(Of("starters", Start!TickStep)) /\ WF_stVars(Of("starters", Start!Advance))
  /\ WF_csVars(Of("codex_sdk", Sdk!Polls)) /\ WF_csVars(Of("codex_sdk", Sdk!Send)) /\
     WF_csVars(Of("codex_sdk", Sdk!SeesExit)) /\ WF_csVars(Of("codex_sdk", Sdk!Handle)) /\
     WF_csVars(Of("codex_sdk", Sdk!Respond)) /\ WF_csVars(Of("codex_sdk", Sdk!WaitEnds)) /\
     WF_csVars(Of("codex_sdk", Sdk!WaitPops)) /\ WF_csVars(Of("codex_sdk", Sdk!WaitTells)) /\
     WF_csVars(Of("codex_sdk", Sdk!Streams)) /\ WF_csVars(Of("codex_sdk", Sdk!StreamPops))
  /\ SF_csVars(Of("codex_sdk", Sdk!Receive))

Spec == Init /\ [][Next]_vars /\ Fairness

-----------------------------------------------------------------------------
\* The properties of the components, stated and explained in their modules.
\* Whoever is cancelled, timed out, abandoned or has ended is taken down, although reads, writes and tools
\* block (process.rs, registry.rs, managed_runtime.rs, terminal.rs and the providers).
StopsAreServed ==
  /\ part = "process" => Proc!StopIsServed
  /\ part = "turn" => Turn!StopEndsTurn
  /\ part = "launch" => Launch!DroppedRuntimeDies
  /\ part = "terminal" => Term!SessionIsTakenDown
  /\ part = "api" => Api!StoppedTurnEnds
  /\ part = "opencode" => Oc!OpenCodeStopEnds

\* An accepted event, an acknowledged mention and a due schedule become runs; a sign-in, a command on an
\* account and a review end (app.rs, slack.rs, scheduler/mod.rs, service.rs, runner/mod.rs, main.py).
WorkIsFinished ==
  /\ part = "events" => Events!AcceptedIsDelivered
  /\ part = "socket" => Socket!MentionIsServed
  /\ part = "sign_in" => Sign!SignInEnds
  /\ part = "accounts" => Accts!CommandsEnd
  /\ part = "memories" => Mem!ReviewEnds
  /\ part = "starters" => Start!DueIsStarted
  /\ part = "codex_sdk" => Sdk!LoginIsReported

=============================================================================
