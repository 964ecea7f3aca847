------------------------------ MODULE Starters ------------------------------
(***************************************************************************)
(* What starts a workflow besides its user: the schedules and their ticker *)
(* (scheduler/mod.rs, db/schedules.rs), file watchers (triggers/file.rs)   *)
(* and the webhook listener (triggers/http.rs), with the rows they read    *)
(* (db/triggers.rs).                                                       *)
(*                                                                         *)
(* A tick reads the schedules once and then starts the due ones in order;  *)
(* a watcher's callback looks at its cool-down before it looks at the row; *)
(* the user edits the rows at any time.  Runs are external here: a         *)
(* workflow is busy or it is not.                                          *)
(***************************************************************************)
EXTENDS Naturals, Sequences, SequencesExt, FiniteSetsExt

CONSTANTS
  Flows,        \* the workflows, each with at most one schedule
  Times,        \* cron expression |-> the times it names; one that names a time after MaxTime stands
                \* for an expression without an end, another for one that names its years
  Debounce,     \* the cool-down of the file trigger
  MaxTime,      \* bound: the clock
  MaxEdits,     \* bound: edits of schedules and triggers
  MaxFaults     \* bound: writes that fail and starts by hand

VARIABLES
  clock,
  sched,        \* workflow |-> [id, on, cron, next]; id 0 is no schedule, next 0 no time
  tick,         \* the tick under way: [now, list, moved]; now 0 is none, moved the schedule to write on
  busy,         \* workflows that run
  last,         \* workflow |-> the time of the tick that last started its schedule
  file,         \* the file trigger: [on, path, stale, watched, fired, asking]; stale until the watchers are rebuilt, watched is the path of the live watcher, or
                \* "none", fired the time in its cool-down, asking whether its callback is past it
  burst,        \* the time of the change for which the current watcher last had a run started
  hook,         \* whether the listener waits for the body of a request; and the last answer
  answer,
  edits, faults

stVars == <<clock, sched, tick, busy, last, file, burst, hook, answer, edits, faults>>

NoTick == [now |-> 0, list |-> <<>>, moved |-> "none"]
NoSchedule == [id |-> 0, on |-> FALSE, cron |-> "none", next |-> 0]
Answers == {0, 200, 202, 401, 404, 405, 409, 413, 500, 503}

TypeOK ==
  /\ clock \in 1..MaxTime /\ busy \subseteq Flows /\ tick.now \in 0..MaxTime /\ tick.moved \in Flows \cup {"none"}
  /\ \A w \in Flows :
       /\ sched[w].cron \in DOMAIN Times \cup {"none"} /\ last[w] \in 0..MaxTime
       /\ sched[w].on => sched[w].next # 0
  /\ file.fired \in 0..MaxTime /\ burst \in 0..MaxTime /\ answer \in Answers

Init ==
  /\ clock = 1 /\ sched = [w \in Flows |-> NoSchedule] /\ tick = NoTick /\ busy = {} /\ last = [w \in Flows |-> 0]
  /\ file = [on |-> FALSE, path |-> "p", stale |-> FALSE, watched |-> "none", fired |-> 0, asking |-> FALSE] /\ burst = 0
  /\ hook = FALSE /\ answer = 0 /\ edits = 0 /\ faults = 0

\* Time passes; while a tick or a callback is at work it may too.
Advance ==
  /\ clock < MaxTime /\ clock' = clock + 1
  /\ UNCHANGED <<sched, tick, busy, last, file, burst, hook, answer, edits, faults>>

\* start_run refuses a workflow that is running; a run ends when it ends, if it does.
Free(w) == w \notin busy
RunEnds(w) ==
  /\ w \in busy /\ busy' = busy \ {w}
  /\ UNCHANGED <<clock, sched, tick, last, file, burst, hook, answer, edits, faults>>

StartByHand(w) ==
  /\ Free(w) /\ faults < MaxFaults /\ faults' = faults + 1 /\ busy' = busy \cup {w}
  /\ UNCHANGED <<clock, sched, tick, last, file, burst, hook, answer, edits>>

-----------------------------------------------------------------------------
(* Schedules.                                                              *)

\* next_run_from_cron: the first of the times after the given one; it fails when there is none.
\* Mutant: a time that is given may be the next.
UpcomingAt(c, after) == {t \in Times[c] : t >= after}

Upcoming(c, after) == {t \in Times[c] : t > after}
NextRun(c, after) == Min(Upcoming(c, after))

\* upsert_schedule gives a schedule that is on its next time, and refuses an expression without one.
NextTime(on, c) == IF on THEN NextRun(c, clock) ELSE 0

\* The row keeps its id when it is written again; one that was deleted comes back with another.
EditSchedule(w) ==
  /\ edits < MaxEdits /\ edits' = edits + 1
  /\ \E c \in DOMAIN Times, on \in BOOLEAN :
       /\ on => Upcoming(c, clock) # {}
       /\ sched' = [sched EXCEPT ![w] = [id |-> IF sched[w].id = 0 THEN edits' ELSE sched[w].id,
                                        on |-> on, cron |-> c, next |-> NextTime(on, c)]]
  /\ UNCHANGED <<clock, tick, busy, last, file, burst, hook, answer, faults>>

DropSchedule(w) ==
  /\ edits < MaxEdits /\ edits' = edits + 1
  /\ sched[w].id # 0 /\ sched' = [sched EXCEPT ![w] = NoSchedule]
  /\ UNCHANGED <<clock, tick, busy, last, file, burst, hook, answer, faults>>

\* list_enabled_schedules: the ones that are on, the earliest first.
Enabled == SetToSortSeq({w \in Flows : sched[w].on}, LAMBDA a, b : sched[a].next < sched[b].next)

\* The rows as the tick has read them.  (A row that is on has a next time: upsert_schedule gives it one.)
TickBegins ==
  /\ tick.now = 0 /\ \E w \in Flows : sched[w].on /\ sched[w].next <= clock
  /\ tick' = [NoTick EXCEPT !.now = clock, 
            !.list = [i \in DOMAIN Enabled |-> [flow |-> Enabled[i], row |-> sched[Enabled[i]]]]]
  /\ UNCHANGED <<clock, sched, busy, last, file, burst, hook, answer, edits, faults>>

\* Mutant: the schedule of a busy workflow is moved on.
TickSkips ==
  LET s == Head(tick.list) IN
  /\ tick.now # 0 /\ tick.moved = "none" /\ tick.list # <<>>
  /\ \/ s.row.next > tick.now /\ tick' = [tick EXCEPT !.list = Tail(@)] /\ UNCHANGED <<busy, last>>
     \/ /\ s.row.next <= tick.now /\ Free(s.flow) /\ busy' = busy \cup {s.flow}
        /\ last' = [last EXCEPT ![s.flow] = tick.now] /\ tick' = [tick EXCEPT !.moved = s.flow]
     \/ s.row.next <= tick.now /\ ~Free(s.flow) /\ tick' = [tick EXCEPT !.moved = s.flow] /\ UNCHANGED <<busy, last>>
  /\ UNCHANGED <<clock, sched, file, burst, hook, answer, edits, faults>>

\* A schedule that is due is started; one whose workflow is busy ends the tick, and the ones after
\* it wait for the next.
TickStarts ==
  LET s == Head(tick.list) IN
  /\ tick.now # 0 /\ tick.moved = "none" /\ tick.list # <<>>
  /\ \/ s.row.next > tick.now /\ tick' = [tick EXCEPT !.list = Tail(@)] /\ UNCHANGED <<busy, last>>
     \/ /\ s.row.next <= tick.now /\ Free(s.flow) /\ busy' = busy \cup {s.flow}
        /\ last' = [last EXCEPT ![s.flow] = tick.now] /\ tick' = [tick EXCEPT !.moved = s.flow]
     \/ s.row.next <= tick.now /\ ~Free(s.flow) /\ tick' = NoTick /\ UNCHANGED <<busy, last>>
  /\ UNCHANGED <<clock, sched, file, burst, hook, answer, edits, faults>>

\* set_schedule_next_run after a start: the time after this tick, by the expression the tick has
\* read; an update by id, which finds a row that was edited meanwhile and none that was deleted.  An
\* expression that names no later time ends the tick and leaves the row due, and so does a write
\* that fails.
TickMoves ==
  LET s == Head(tick.list)
      later == Upcoming(s.row.cron, tick.now) IN
  /\ tick.moved # "none"
  /\ \/ /\ later # {}
        /\ sched' = IF sched[s.flow].id # s.row.id THEN sched ELSE [sched EXCEPT ![s.flow].next = Min(later)]
        /\ tick' = [tick EXCEPT !.list = Tail(@), !.moved = "none"] /\ UNCHANGED <<faults, last>>
     \/ later = {} /\ tick' = NoTick /\ UNCHANGED <<sched, faults, last>>
     \/ /\ later # {} /\ faults < MaxFaults /\ faults' = faults + 1 /\ tick' = NoTick /\ UNCHANGED sched
        /\ last' = [last EXCEPT ![s.flow] = 0]
  /\ UNCHANGED <<clock, busy, file, burst, hook, answer, edits>>

TickEnds ==
  /\ tick.now # 0 /\ tick.list = <<>> /\ tick.moved = "none" /\ tick' = NoTick
  /\ UNCHANGED <<clock, sched, busy, last, file, burst, hook, answer, edits, faults>>

-----------------------------------------------------------------------------
(* The file trigger, of the first workflow.                                *)

FileFlow == CHOOSE w \in Flows : TRUE

\* upsert_trigger or delete_trigger: the row; the watchers are rebuilt by another step.
EditFile ==
  /\ edits < MaxEdits /\ edits' = edits + 1
  /\ \E on \in BOOLEAN, p \in {"p", "q"} : (on # file.on \/ p # file.path) /\ file' = [file EXCEPT !.on = on, !.path = p, !.stale = TRUE]
  /\ UNCHANGED <<clock, sched, tick, busy, last, burst, hook, answer, faults>>

\* reload_watchers: new watchers, with a cool-down that is over; a path that is gone has none.  A
\* callback of the old one that is past its cool-down goes on.
Reload ==
  /\ file.stale
  /\ \E w \in {IF file.on THEN file.path ELSE "none", "none"} :
       file' = [file EXCEPT !.watched = w, !.fired = 0, !.stale = FALSE] /\ burst' = 0
  /\ UNCHANGED <<clock, sched, tick, busy, last, hook, answer, edits, faults>>

\* Changed paths: one under a directory of build output, one the patterns do not name, one they do.
Paths == {"built", "other", "source"}
Ignored(p) == p = "built"
Matches(p) == p # "other"

\* Mutant: a change in the cool-down prolongs nothing and is let through.
CoolNever(t) == TRUE

Cool(t) == t = 0 \/ clock - t >= Debounce

\* A change of a file in the watched path, in a burst or not: the cool-down is taken before
\* anything else is known.
FileChanges ==
  /\ file.watched # "none" /\ ~file.asking
  /\ \E paths \in SUBSET Paths : \E p \in paths : ~Ignored(p) /\ Matches(p)
  /\ Cool(file.fired) /\ file' = [file EXCEPT !.fired = clock, !.asking = TRUE]
  /\ UNCHANGED <<clock, sched, tick, busy, last, burst, hook, answer, edits, faults>>

\* get_trigger and fire.
FileFires ==
  /\ file.asking /\ file' = [file EXCEPT !.asking = FALSE]
  /\ \/ file.on /\ Free(FileFlow) /\ busy' = busy \cup {FileFlow} /\ burst' = file.fired
     \/ (~file.on \/ ~Free(FileFlow)) /\ UNCHANGED <<busy, burst>>
  /\ UNCHANGED <<clock, sched, tick, last, hook, answer, edits, faults>>

-----------------------------------------------------------------------------
(* The listener: one request at a time.                                    *)

\* handle, up to the body: what is refused, with its answer.
HookFlaws == [health |-> 200, path |-> 404, method |-> 405, no_database |-> 503, no_trigger |-> 404, other_source |-> 404, lookup |-> 500,
              token |-> 401, disabled |-> 409]

Request ==
  /\ ~hook /\ edits < MaxEdits /\ edits' = edits + 1
  /\ \/ \E f \in DOMAIN HookFlaws : answer' = HookFlaws[f] /\ UNCHANGED hook
     \/ hook' = TRUE /\ answer' = 0
  /\ UNCHANGED <<clock, sched, tick, busy, last, file, burst, faults>>

\* read_body waits for the client; then fire.
HookFires ==
  /\ hook /\ hook' = FALSE
  /\ \/ answer' = 413 /\ UNCHANGED busy
     \/ Free(FileFlow) /\ busy' = busy \cup {FileFlow} /\ answer' = 202
     \/ ~Free(FileFlow) /\ answer' = 500 /\ UNCHANGED busy
  /\ UNCHANGED <<clock, sched, tick, last, file, burst, edits, faults>>

TickStep == TickBegins \/ TickStarts \/ TickMoves \/ TickEnds

Next ==
  \/ Advance \/ TickStep \/ EditFile \/ Reload \/ FileChanges \/ FileFires \/ Request \/ HookFires
  \/ \E w \in Flows : RunEnds(w) \/ StartByHand(w) \/ EditSchedule(w) \/ DropSchedule(w)

Spec == Init /\ [][Next]_stVars

\* The ticker runs for ever and time passes.  Nothing makes a run end.
Fairness == WF_stVars(TickStep) /\ WF_stVars(Advance)

FairSpec == Spec /\ Fairness

-----------------------------------------------------------------------------
(* Properties.                                                             *)

\* No time of a schedule starts two runs, and the times that pass while Alfred sleeps or a workflow is busy start
\* one: what starts a schedule again is due after the tick that started it last (tick).  Two things are excused, and
\* start the same time again: a tick whose write fails, and an expression that names no time after that tick, which
\* next_run_from_cron reports only after the run has been started.
EachDueOnce ==
  (tick.moved = "none" /\ tick'.moved # "none") =>
    LET w == tick'.moved
        row == Head(tick.list).row
    IN row.next > last[w] \/ Upcoming(row.cron, last[w]) = {}

\* A burst of changes starts one run: a watcher has two runs started no closer than its cool-down
\* (watch_trigger), as long as the watchers are not rebuilt.
BurstIsOneRun == (burst' # burst /\ burst # 0 /\ burst' # 0) => burst' - burst >= Debounce

\* Nothing due by d that comes before w names its last time: it would end every tick after its own start.
NoneSpentBefore(w, d) ==
  \A v \in Flows \ {w} : (sched[v].on /\ sched[v].next <= d) => \E t \in Times[sched[v].cron] : t > MaxTime

\* A schedule that is due starts a run for it, however long its workflow is busy and however many due schedules come
\* before it (tick, which gives up at the first busy workflow and at the first expression without a next time), unless
\* it is edited, provided runs end and none of the schedules before it has seen its last time.  One that becomes due
\* while a tick is under way is not covered: that tick may move it on by the expression it has read.
DueIsStarted ==
  (\A w \in Flows : []<>Free(w)) =>
    \A w \in Flows, d \in 1..MaxTime :
      (sched[w].on /\ sched[w].next = d /\ d <= clock /\ tick.now = 0 /\ edits = MaxEdits /\ NoneSpentBefore(w, d))
        ~> (last[w] >= d \/ faults = MaxFaults)
=============================================================================
