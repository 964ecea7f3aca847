------------------------------ MODULE AppEvents ------------------------------
(***************************************************************************)
(* Connected-app events on their way into runs: the durable state machine  *)
(* of src-tauri/src/db/app_events.rs, the batch processing of              *)
(* src-tauri/src/integrations/events.rs and the queue draining of          *)
(* src-tauri/src/triggers/app.rs.                                          *)
(*                                                                         *)
(* A provider feed has events at positions 1, 2, ...  A polling trigger    *)
(* asks for what is after its cursor and can ask again; a socket hands     *)
(* each event over once, for all triggers of its feed.  The item <<t, p>>  *)
(* is the event at position p as trigger t sees it: its receipt, its queue *)
(* row and the runs made from it.                                          *)
(*                                                                         *)
(* External: what a provider returns.  A poll returns a run of consecutive *)
(* positions after the cursor, possibly with the event at the cursor once  *)
(* more, whatever became of their receipts.                                *)
(***************************************************************************)
EXTENDS Naturals, FiniteSets

CONSTANTS
    Triggers, Workflows,
    WorkflowOf,   \* triggers.workflow_id
    Feeds, FeedOf,\* provider, event type and connection of the trigger
    Polling,      \* triggers whose descriptor lists the polling mode
    Invalid,      \* items that normalize_event or the secret check rejects
    Filtered,     \* items that event_matches_filters drops
    PendingCap,   \* AppEventDescriptor.pending_cap, at least 1
    MaxPosition,  \* bound: positions a feed may have
    FeedLength,   \* bound: events each feed will have
    Aged,         \* items whose receipts may get old enough for retention
    MaxUpsets     \* bound: crashes, prunes, trigger writes, runs from other sources

Positions == 1..MaxPosition
Items == Triggers \X Positions

ASSUME AppEventConstants ==
    /\ WorkflowOf \in [Triggers -> Workflows]
    /\ FeedOf \in [Triggers -> Feeds]
    /\ Polling \subseteq Triggers
    /\ Invalid \subseteq Items /\ Filtered \subseteq Items /\ Aged \subseteq Items
    /\ IsFiniteSet(Triggers)
    /\ PendingCap \in Nat \ {0}
    /\ MaxPosition \in Nat /\ FeedLength \in [Feeds -> 0..MaxPosition]
    /\ MaxUpsets \in Nat

VARIABLES
    handedOver,  \* per feed: events its socket has delivered
    alive,       \* rows of triggers
    enabled,     \* triggers.enabled
    cursor,      \* app_trigger_state.cursor
    receipt,     \* app_event_receipts.disposition, "none" without a row
    queuedAt,    \* app_event_queue.enqueued_at, 0 without a row
    clock,       \* the next enqueued_at
    runs,        \* runs made from the item
    runStatus,   \* status of its run
    seen,        \* history: items that ever had a receipt
    lost,        \* history: items whose receipt retention took while a poll could
                 \* still return them, and that have no new one
    forgotten,   \* history: how often that happened to the item
    sync,        \* per trigger: where sync_trigger_cancellable is
    todo,        \* per trigger: items of the batch not processed yet
    last,        \* per trigger: cursor the batch came with
    pressed,     \* per trigger: report.backpressured
    cancelled,   \* per trigger: its AppEventCancellation
    listed,      \* drain_queue has read the pending runs of this pass
    starting,    \* drain_queue: the runs it has in hand
    serving,     \* drain_queue: the workflows of the queue still to serve
    slot,        \* per workflow: who holds the active-run slot
    recovered,
    upsets       \* crashes, prunes, writes and other runs so far

tables   == <<alive, enabled, cursor, receipt, queuedAt, clock, runs, runStatus, seen,
              lost, forgotten>>
syncing  == <<sync, todo, last, pressed, cancelled>>
draining == <<listed, starting, serving>>
vars     == <<handedOver, alive, enabled, cursor, receipt, queuedAt, clock,
              runs, runStatus, seen, lost, forgotten, sync, todo, last, pressed,
              cancelled, listed, starting, serving, slot, recovered, upsets>>

Free  == <<"free">>
Other == <<"other">>

Dispositions == {"none", "queued", "enqueued", "dropped_overrun", "rejected_invalid"}
RunStatuses  == {"none", "pending", "running", "finished"}

Init ==
    /\ handedOver = [f \in Feeds |-> 0]
    /\ alive = Triggers
    /\ enabled = Triggers
    /\ cursor = [t \in Triggers |-> 0]
    /\ receipt = [x \in Items |-> "none"]
    /\ queuedAt = [x \in Items |-> 0]
    /\ clock = 1
    /\ runs = [x \in Items |-> 0]
    /\ runStatus = [x \in Items |-> "none"]
    /\ seen = {}
    /\ lost = {}
    /\ forgotten = [x \in Items |-> 0]
    /\ sync = [t \in Triggers |-> "idle"]
    /\ todo = [t \in Triggers |-> {}]
    /\ last = [t \in Triggers |-> 0]
    /\ pressed = [t \in Triggers |-> FALSE]
    /\ cancelled = [t \in Triggers |-> FALSE]
    /\ listed = FALSE
    /\ starting = {}
    /\ serving = {}
    /\ slot = [w \in Workflows |-> Free]
    /\ recovered = FALSE
    /\ upsets = 0

-----------------------------------------------------------------------------
(* sync_trigger_cancellable *)

\* The task of t's sync is gone, with its locals and its in_flight entry.
FinishSync(t) ==
    /\ sync' = [sync EXCEPT ![t] = "idle"]
    /\ todo' = [todo EXCEPT ![t] = {}]
    /\ last' = [last EXCEPT ![t] = 0]
    /\ pressed' = [pressed EXCEPT ![t] = FALSE]
    /\ cancelled' = [cancelled EXCEPT ![t] = FALSE]

\* The runtime schedules one sync per trigger.  The guard meant to keep a feed
\* to one socket is the subject of AppEventLoop; nothing here relies on it.
BeginSync(t) ==
    /\ recovered
    /\ t \in enabled
    /\ sync[t] = "idle"
    /\ sync' = [sync EXCEPT ![t] = "waiting"]
    /\ UNCHANGED <<handedOver, tables, todo, last, pressed, cancelled, draining, slot, recovered, upsets>>

\* poll returned a batch and nobody cancelled meanwhile.
Polled(t) ==
    /\ sync[t] = "waiting" /\ t \in Polling
    /\ ~ cancelled[t]
    /\ \E hi \in cursor[t]..FeedLength[FeedOf[t]], again \in {0, 1} :
         /\ todo' = [todo EXCEPT ![t] =
                       {x \in Items : x[1] = t /\ x[2] + again > cursor[t] /\ x[2] <= hi}]
         /\ last' = [last EXCEPT ![t] = hi]
    /\ sync' = [sync EXCEPT ![t] = "batch"]
    /\ UNCHANGED <<handedOver, tables, pressed, cancelled, draining, slot, recovered, upsets>>

\* The enabled triggers that share t's socket.
Targets(t) == {u \in enabled \ Polling : FeedOf[u] = FeedOf[t]}

\* connect returned what the socket had; it goes to every enabled trigger of
\* the feed.
Connected(t) ==
    /\ sync[t] = "waiting" /\ t \notin Polling
    /\ ~ cancelled[t]
    /\ \E hi \in handedOver[FeedOf[t]]..FeedLength[FeedOf[t]] :
         /\ handedOver' = [handedOver EXCEPT ![FeedOf[t]] = hi]
         /\ todo' = [todo EXCEPT ![t] =
                       {x \in Items : x[1] \in Targets(t) /\ x[2] > handedOver[FeedOf[t]]
                                                          /\ x[2] <= hi}]
    /\ sync' = [sync EXCEPT ![t] = "batch"]
    /\ UNCHANGED <<tables, last, pressed, cancelled, draining, slot, recovered, upsets>>

\* The next item of the batch, in the order of the positions for each trigger.
NextItem(t, x) ==
    /\ sync[t] = "batch"
    /\ x \in todo[t]
    /\ \A y \in todo[t] : y[1] = x[1] => x[2] <= y[2]
    /\ todo' = [todo EXCEPT ![t] = @ \ {x}]

\* A receipt is written: the event is known, again or for the first time.
Remember(x) == seen' = seen \cup {x} /\ lost' = lost \ {x}

Pending(t) == Cardinality({x \in Items : x[1] = t /\ queuedAt[x] # 0})

\* event_matches_filters said no: the event leaves no trace.
SkipItem(t, x) ==
    /\ NextItem(t, x)
    /\ x \in Filtered \ Invalid
    /\ UNCHANGED <<handedOver, tables, sync, last, pressed, cancelled, draining, slot, recovered, upsets>>

\* record_rejected_app_event: INSERT OR IGNORE, its error ignored.
RejectItem(t, x) ==
    /\ NextItem(t, x)
    /\ x \in Invalid
    /\ IF x[1] \in alive
         THEN /\ receipt' = [receipt EXCEPT ![x] = IF @ = "none" THEN "rejected_invalid" ELSE @]
              /\ Remember(x)
         ELSE UNCHANGED <<receipt, seen, lost>>
    /\ UNCHANGED <<handedOver, alive, enabled, cursor, queuedAt, clock, runs, runStatus,
                   forgotten, sync, last, pressed, cancelled, draining, slot, recovered, upsets>>

RecordItemWithoutLookup(t, x) ==
    /\ NextItem(t, x)
    /\ x[1] \in alive
    /\ x \notin Invalid \cup Filtered
    /\ Pending(x[1]) < PendingCap
    /\ receipt' = [receipt EXCEPT ![x] = "queued"]
    /\ queuedAt' = [queuedAt EXCEPT ![x] = clock]
    /\ clock' = clock + 1
    /\ Remember(x)
    /\ UNCHANGED <<handedOver, alive, enabled, cursor, runs, runStatus, forgotten, sync, last,
                   pressed, cancelled, draining, slot, recovered, upsets>>

RecordItemCapOffByOne(t, x) ==
    /\ NextItem(t, x)
    /\ x[1] \in alive
    /\ x \notin Invalid \cup Filtered
    /\ IF receipt[x] = "none" /\ Pending(x[1]) <= PendingCap
         THEN /\ receipt' = [receipt EXCEPT ![x] = "queued"]
              /\ queuedAt' = [queuedAt EXCEPT ![x] = clock]
              /\ clock' = clock + 1
              /\ Remember(x)
         ELSE UNCHANGED <<receipt, queuedAt, clock, seen, lost>>
    /\ UNCHANGED <<handedOver, alive, enabled, cursor, runs, runStatus, forgotten, sync, last,
                   pressed, cancelled, draining, slot, recovered, upsets>>

\* record_app_event, one transaction: a known receipt is a duplicate; at the
\* cap a polling trigger leaves the event with the provider and a socket
\* trigger drops it for good; otherwise receipt and queue row together.  The
\* foreign key of a deleted trigger is an error: AbortSync.
RecordItem(t, x) ==
    /\ NextItem(t, x)
    /\ x[1] \in alive
    /\ x \notin Invalid \cup Filtered
    /\ \/ /\ receipt[x] # "none"
          /\ UNCHANGED <<receipt, queuedAt, clock, seen, lost, pressed>>
       \/ /\ receipt[x] = "none" /\ Pending(x[1]) >= PendingCap
          /\ IF t \in Polling
               THEN /\ pressed' = [pressed EXCEPT ![t] = TRUE]
                    /\ UNCHANGED <<receipt, seen, lost>>
               ELSE /\ receipt' = [receipt EXCEPT ![x] = "dropped_overrun"]
                    /\ Remember(x)
                    /\ UNCHANGED pressed
          /\ UNCHANGED <<queuedAt, clock>>
       \/ /\ receipt[x] = "none" /\ Pending(x[1]) < PendingCap
          /\ receipt' = [receipt EXCEPT ![x] = "queued"]
          /\ queuedAt' = [queuedAt EXCEPT ![x] = clock]
          /\ clock' = clock + 1
          /\ Remember(x)
          /\ UNCHANGED pressed
    /\ UNCHANGED <<handedOver, alive, enabled, cursor, runs, runStatus, forgotten, sync, last,
                   cancelled, draining, slot, recovered, upsets>>

CheckpointTwice(t) ==
    /\ sync[t] = "batch"
    /\ todo[t] = {}
    /\ cursor' = IF t \in Polling \cap alive /\ ~ pressed[t]
                   THEN [cursor EXCEPT ![t] = 2 * last[t] - cursor[t]] ELSE cursor
    /\ FinishSync(t)
    /\ UNCHANGED <<handedOver, alive, enabled, receipt, queuedAt, clock, runs, runStatus,
                   seen, lost, forgotten, draining, slot, recovered, upsets>>

CheckpointAlways(t) ==
    /\ sync[t] = "batch"
    /\ todo[t] = {}
    /\ cursor' = IF t \in Polling THEN [cursor EXCEPT ![t] = last[t]] ELSE cursor
    /\ FinishSync(t)
    /\ UNCHANGED <<handedOver, alive, enabled, receipt, queuedAt, clock, runs, runStatus,
                   seen, lost, forgotten, draining, slot, recovered, upsets>>

\* The batch is through: the cursor moves only when nothing was held back.
Checkpoint(t) ==
    /\ sync[t] = "batch"
    /\ todo[t] = {}
    /\ cursor' = IF t \in Polling \cap alive /\ ~ pressed[t]
                   THEN [cursor EXCEPT ![t] = last[t]] ELSE cursor
    /\ FinishSync(t)
    /\ UNCHANGED <<handedOver, alive, enabled, receipt, queuedAt, clock, runs, runStatus,
                   seen, lost, forgotten, draining, slot, recovered, upsets>>

\* Cancelled, timed out, unauthorized, or a database error in mid-batch: the
\* rest of the batch is forgotten and the cursor stays.
AbortSync(t) ==
    /\ sync[t] # "idle"
    /\ FinishSync(t)
    /\ UNCHANGED <<handedOver, tables, draining, slot, recovered, upsets>>

-----------------------------------------------------------------------------
(* drain_queue, one pass of it in every scan *)

\* Between two passes.
Resting == ~ listed /\ starting = {} /\ serving = {}

Queued(w) == {x \in Items : queuedAt[x] # 0 /\ x[1] \in enabled /\ WorkflowOf[x[1]] = w}

\* list_pending_app_event_runs finds a pending run through its receipt.
ListPending ==
    /\ recovered
    /\ Resting
    /\ listed' = TRUE
    /\ starting' = {x \in Items : runStatus[x] = "pending" /\ receipt[x] = "enqueued"}
    /\ UNCHANGED <<handedOver, tables, syncing, serving, slot, recovered, upsets>>

\* start_pending_app_event_run of a run in hand.  It reads the slot and the
\* status of the run, neither its receipt nor its trigger; a run it refuses
\* stays pending.  The pending runs of one pass go in any order.
Launch(x) ==
    /\ x \in starting
    /\ starting' = starting \ {x}
    /\ IF slot[WorkflowOf[x[1]]] = Free /\ runStatus[x] = "pending"
         THEN /\ slot' = [slot EXCEPT ![WorkflowOf[x[1]]] = x]
              /\ runStatus' = [runStatus EXCEPT ![x] = "running"]
         ELSE UNCHANGED <<slot, runStatus>>
    /\ UNCHANGED <<handedOver, alive, enabled, cursor, receipt, queuedAt, clock, runs, seen,
                   lost, forgotten, syncing, listed, serving, recovered, upsets>>

\* app_event_queue_workflow_ids, once the pending runs are through.
ListQueue ==
    /\ listed /\ starting = {}
    /\ listed' = FALSE
    /\ serving' = {w \in Workflows : Queued(w) # {}}
    /\ UNCHANGED <<handedOver, tables, syncing, starting, slot, recovered, upsets>>

\* The workflow's turn in the pass.
Serve(w) ==
    /\ w \in serving
    /\ starting = {}
    /\ serving' = serving \ {w}

PromoteNewest(w) ==
    /\ Serve(w)
    /\ \/ /\ slot[w] # Free \/ Queued(w) = {}
          /\ UNCHANGED <<queuedAt, receipt, runs, runStatus, starting>>
       \/ /\ slot[w] = Free
          /\ \E x \in Queued(w) :
               /\ \A y \in Queued(w) : queuedAt[x] >= queuedAt[y]
               /\ queuedAt' = [queuedAt EXCEPT ![x] = 0]
               /\ receipt' = [receipt EXCEPT ![x] = "enqueued"]
               /\ runs' = [runs EXCEPT ![x] = @ + 1]
               /\ runStatus' = [runStatus EXCEPT ![x] = "pending"]
               /\ starting' = {x}
    /\ UNCHANGED <<handedOver, alive, enabled, cursor, clock, seen, lost, forgotten, syncing,
                   listed, slot, recovered, upsets>>

PromoteKeepingRow(w) ==
    /\ Serve(w)
    /\ slot[w] = Free
    /\ \E x \in Queued(w) :
         /\ \A y \in Queued(w) : queuedAt[x] <= queuedAt[y]
         /\ receipt' = [receipt EXCEPT ![x] = "enqueued"]
         /\ runs' = [runs EXCEPT ![x] = @ + 1]
         /\ runStatus' = [runStatus EXCEPT ![x] = "pending"]
         /\ starting' = {x}
    /\ UNCHANGED <<handedOver, alive, enabled, cursor, queuedAt, clock, seen, lost, forgotten,
                   syncing, listed, slot, recovered, upsets>>

PromoteBehindDisabled(w) ==
    /\ Serve(w)
    /\ LET waiting == {x \in Items : queuedAt[x] # 0 /\ WorkflowOf[x[1]] = w}
           oldest  == {x \in Queued(w) : \A y \in waiting : queuedAt[x] <= queuedAt[y]}
       IN \/ /\ slot[w] # Free \/ oldest = {}
             /\ UNCHANGED <<queuedAt, receipt, runs, runStatus, starting>>
          \/ /\ slot[w] = Free
             /\ \E x \in oldest :
                  /\ queuedAt' = [queuedAt EXCEPT ![x] = 0]
                  /\ receipt' = [receipt EXCEPT ![x] = "enqueued"]
                  /\ runs' = [runs EXCEPT ![x] = @ + 1]
                  /\ runStatus' = [runStatus EXCEPT ![x] = "pending"]
                  /\ starting' = {x}
    /\ UNCHANGED <<handedOver, alive, enabled, cursor, clock, seen, lost, forgotten, syncing,
                   listed, slot, recovered, upsets>>

\* promote_next_app_event, unless the workflow is busy: pending run, receipt
\* and queue row in one transaction, oldest row of the workflow's enabled
\* triggers first; the run is started right away.
Promote(w) ==
    /\ Serve(w)
    /\ \/ /\ slot[w] # Free \/ Queued(w) = {}
          /\ UNCHANGED <<queuedAt, receipt, runs, runStatus, starting>>
       \/ /\ slot[w] = Free
          /\ \E x \in Queued(w) :
               /\ \A y \in Queued(w) : queuedAt[x] <= queuedAt[y]
               /\ queuedAt' = [queuedAt EXCEPT ![x] = 0]
               /\ receipt' = [receipt EXCEPT ![x] = "enqueued"]
               /\ runs' = [runs EXCEPT ![x] = @ + 1]
               /\ runStatus' = [runStatus EXCEPT ![x] = "pending"]
               /\ starting' = {x}
    /\ UNCHANGED <<handedOver, alive, enabled, cursor, clock, seen, lost, forgotten, syncing,
                   listed, slot, recovered, upsets>>

\* The run ends, as completed, failed or cancelled.
RunEnds(x) ==
    /\ slot[WorkflowOf[x[1]]] = x
    /\ slot' = [slot EXCEPT ![WorkflowOf[x[1]]] = Free]
    /\ runStatus' = [runStatus EXCEPT ![x] = "finished"]
    /\ UNCHANGED <<handedOver, alive, enabled, cursor, receipt, queuedAt, clock, runs, seen,
                   lost, forgotten, syncing, draining, recovered, upsets>>

\* A manual, scheduled, file or webhook run takes the slot and gives it back.
OtherRunStarts(w) ==
    /\ upsets < MaxUpsets
    /\ slot[w] = Free
    /\ slot' = [slot EXCEPT ![w] = Other]
    /\ upsets' = upsets + 1
    /\ UNCHANGED <<handedOver, tables, syncing, draining, recovered>>

OtherRunEnds(w) ==
    /\ slot[w] = Other
    /\ slot' = [slot EXCEPT ![w] = Free]
    /\ UNCHANGED <<handedOver, tables, syncing, draining, recovered, upsets>>

-----------------------------------------------------------------------------
(* Trigger settings, retention, restarts *)

\* upsert_trigger of the enabled column, then triggers::reload, which cancels
\* every sync in flight.
SetEnabled(t, on) ==
    /\ upsets < MaxUpsets
    /\ t \in alive
    /\ enabled' = IF on THEN enabled \cup {t} ELSE enabled \ {t}
    /\ cancelled' = [u \in Triggers |-> sync[u] # "idle"]
    /\ upsets' = upsets + 1
    /\ UNCHANGED <<handedOver, alive, cursor, receipt, queuedAt, clock, runs, runStatus,
                   seen, lost, forgotten, sync, todo, last, pressed, draining, slot, recovered>>

\* delete_trigger: the foreign keys take receipts, queue rows and state along,
\* and leave the runs.
DeleteTrigger(t) ==
    /\ upsets < MaxUpsets
    /\ t \in alive
    /\ alive' = alive \ {t}
    /\ enabled' = enabled \ {t}
    /\ receipt' = [x \in Items |-> IF x[1] = t THEN "none" ELSE receipt[x]]
    /\ queuedAt' = [x \in Items |-> IF x[1] = t THEN 0 ELSE queuedAt[x]]
    /\ cancelled' = [u \in Triggers |-> sync[u] # "idle"]
    /\ upsets' = upsets + 1
    /\ UNCHANGED <<handedOver, cursor, clock, runs, runStatus, seen, lost, forgotten, sync,
                   todo, last, pressed, draining, slot, recovered>>

\* A poll of the trigger can return the event.
Returnable(x) == x[1] \in alive \cap Polling /\ x[2] >= cursor[x[1]]

\* prune_app_event_receipts, before a pass of the queue: a receipt that is 30
\* days old or beyond the newest 10,000 of its trigger goes, unless the event
\* still waits.  The cursor is not looked at.
Prune(x) ==
    /\ recovered /\ Resting
    /\ x \in Aged
    /\ upsets < MaxUpsets /\ upsets' = upsets + 1
    /\ receipt[x] \notin {"none", "queued"}
    /\ queuedAt[x] = 0
    /\ receipt' = [receipt EXCEPT ![x] = "none"]
    /\ IF Returnable(x)
         THEN lost' = lost \cup {x} /\ forgotten' = [forgotten EXCEPT ![x] = @ + 1]
         ELSE UNCHANGED <<lost, forgotten>>
    /\ UNCHANGED <<handedOver, alive, enabled, cursor, queuedAt, clock, runs, runStatus,
                   seen, syncing, draining, slot, recovered>>

Crash ==
    /\ upsets < MaxUpsets
    /\ upsets' = upsets + 1
    /\ sync' = [t \in Triggers |-> "idle"]
    /\ todo' = [t \in Triggers |-> {}]
    /\ last' = [t \in Triggers |-> 0]
    /\ pressed' = [t \in Triggers |-> FALSE]
    /\ cancelled' = [t \in Triggers |-> FALSE]
    /\ listed' = FALSE
    /\ starting' = {}
    /\ serving' = {}
    /\ slot' = [w \in Workflows |-> Free]
    /\ recovered' = FALSE
    /\ UNCHANGED <<handedOver, tables>>

RecoverByRequeueing ==
    /\ ~ recovered
    /\ recovered' = TRUE
    /\ queuedAt' = [x \in Items |-> IF runStatus[x] = "running" THEN clock ELSE queuedAt[x]]
    /\ runStatus' = [x \in Items |-> IF runStatus[x] = "running" THEN "finished"
                                                                 ELSE runStatus[x]]
    /\ receipt' = [x \in Items |-> IF runStatus[x] = "running" THEN "queued" ELSE receipt[x]]
    /\ clock' = clock + 1
    /\ UNCHANGED <<handedOver, alive, enabled, cursor, runs, seen, lost, forgotten, syncing,
                   draining, slot, upsets>>

\* fail_interrupted_app_event_runs: an interrupted run is over.
Recover ==
    /\ ~ recovered
    /\ recovered' = TRUE
    /\ runStatus' = [x \in Items |-> IF runStatus[x] = "running" /\ receipt[x] # "none"
                                       THEN "finished" ELSE runStatus[x]]
    /\ UNCHANGED <<handedOver, alive, enabled, cursor, receipt, queuedAt, clock, runs, seen,
                   lost, forgotten, syncing, draining, slot, upsets>>

-----------------------------------------------------------------------------
SyncStep(t) ==
    \/ Polled(t) \/ Connected(t)
    \/ \E x \in Items : SkipItem(t, x) \/ RejectItem(t, x) \/ RecordItem(t, x)
    \/ Checkpoint(t)

Next ==
    \/ \E t \in Triggers : BeginSync(t) \/ SyncStep(t) \/ AbortSync(t)
    \/ ListPending \/ ListQueue
    \/ \E w \in Workflows : Promote(w) \/ OtherRunStarts(w) \/ OtherRunEnds(w)
    \/ \E x \in Items : Launch(x) \/ RunEnds(x) \/ Prune(x)
    \/ \E t \in Triggers, on \in BOOLEAN : SetEnabled(t, on)
    \/ \E t \in Triggers : DeleteTrigger(t)
    \/ Crash
    \/ Recover

\* The loop ticks once a second, and every tick passes the queue.  Nothing makes
\* a run end.
Fairness ==
    /\ WF_vars(Recover) /\ WF_vars(ListPending) /\ WF_vars(ListQueue)
    /\ \A w \in Workflows : WF_vars(Promote(w))
    /\ \A x \in Items : WF_vars(Launch(x))

Spec == Init /\ [][Next]_vars
FairSpec == Spec /\ Fairness

-----------------------------------------------------------------------------
(* Properties *)

\* Every variable has its type, and no trigger has more queue rows than its cap.
TypeOK ==
    /\ handedOver \in [Feeds -> 0..MaxPosition]
    /\ alive \subseteq Triggers /\ enabled \subseteq alive
    /\ cursor \in [Triggers -> 0..MaxPosition]
    /\ receipt \in [Items -> Dispositions]
    /\ queuedAt \in [Items -> Nat]
    /\ clock \in Nat \ {0}
    /\ runs \in [Items -> Nat]
    /\ runStatus \in [Items -> RunStatuses]
    /\ seen \subseteq Items
    /\ lost \subseteq Items
    /\ forgotten \in [Items -> Nat]
    /\ sync \in [Triggers -> {"idle", "waiting", "batch"}]
    /\ todo \in [Triggers -> SUBSET Items]
    /\ last \in [Triggers -> 0..MaxPosition]
    /\ pressed \in [Triggers -> BOOLEAN]
    /\ cancelled \in [Triggers -> BOOLEAN]
    /\ listed \in BOOLEAN
    /\ starting \subseteq Items
    /\ serving \subseteq Workflows
    /\ slot \in [Workflows -> Items \cup {Free, Other}]
    /\ recovered \in BOOLEAN

\* No trigger ever has more events waiting than its pending cap, also while
\* several syncs and the draining loop work on the queue.
CapRespected == \A t \in Triggers : Pending(t) <= PendingCap

\* Receipts and queue rows never disagree: an event waits exactly while its
\* receipt says queued.
ReceiptsMatchQueue == \A x \in Items : queuedAt[x] # 0 <=> receipt[x] = "queued"

\* What the receipts are for: no event makes two runs, across repeated polls,
\* overlapping batches and crashes between any two transactions.  One more run
\* costs one more time that retention took the receipt of an event a poll
\* could still return; pruning behind the cursor costs none.
DeliveredAtMostOnce == \A x \in Items : runs[x] <= 1 + forgotten[x]

\* A cursor never passes an event that was not durably accepted, recognised or
\* rejected: what lies before it needs no second look.
NothingSkipped ==
    \A t \in alive \cap Polling, p \in Positions :
      p <= cursor[t] => <<t, p>> \in seen \cup Filtered

-----------------------------------------------------------------------------
(* What makes the invariants inductive *)

\* A receipt is a memory of the event; where it is gone the event can not
\* come back, except where retention lost it.
KnownEvents ==
    \A x \in Items :
      /\ receipt[x] # "none" => x \in seen
      /\ x \in seen /\ receipt[x] = "none" => ~ Returnable(x) \/ x \in lost
      /\ x \in seen /\ x[1] \notin Polling => x[2] <= handedOver[FeedOf[x[1]]]
      /\ x \in lost => x \in seen /\ receipt[x] = "none"

\* Every time an event was forgotten it had made its run, and it makes one more
\* when it is accepted again; what is invalid makes none.
MadeOnce ==
    \A x \in Items :
      /\ runs[x] <= 1 + forgotten[x]
      /\ x \in Invalid => runs[x] = 0 /\ queuedAt[x] = 0
      /\ x \notin Invalid /\ (queuedAt[x] # 0 \/ x \in lost \/ x \notin seen) =>
           runs[x] = forgotten[x]
      /\ receipt[x] = "enqueued" => runs[x] = 1 + forgotten[x]
      /\ receipt[x] = "dropped_overrun" => x[1] \notin Polling
      /\ receipt[x] = "rejected_invalid" => x \in Invalid

\* A poll's batch starts at the cursor; a socket's batch is new to everyone.
Batches ==
    \A t \in Triggers :
      /\ sync[t] # "batch" => todo[t] = {}
      /\ t \in Polling /\ sync[t] = "batch" =>
           last[t] >= cursor[t] /\ \A x \in todo[t] : x[1] = t /\ x[2] >= cursor[t]
      /\ t \notin Polling => \A x \in todo[t] :
           /\ x[1] \notin Polling /\ FeedOf[x[1]] = FeedOf[t]
           /\ x[2] <= handedOver[FeedOf[t]] /\ x \notin seen
      /\ \A u \in Triggers : u # t => todo[t] \cap todo[u] = {}

\* While nothing was held back, a batch leaves no gap up to its cursor.
BatchCovers ==
    \A t \in alive \cap Polling, p \in Positions :
      sync[t] = "batch" /\ ~ pressed[t] /\ p <= last[t] =>
        <<t, p>> \in seen \cup Filtered \cup todo[t]

\* The strengthening under which every step keeps the invariants above.
Inductive ==
    /\ TypeOK /\ ReceiptsMatchQueue /\ KnownEvents /\ MadeOnce
    /\ Batches /\ BatchCovers /\ NothingSkipped /\ CapRespected

\* Runs are made from a workflow's events in the order they were accepted.
AcceptedInOrder ==
    [][\A x \in Items : queuedAt[x] # 0 /\ x[1] \in enabled =>
         \A y \in Items :
           WorkflowOf[x[1]] = WorkflowOf[y[1]] /\ queuedAt[x] < queuedAt[y]
             => runs'[y] = runs[y]]_vars

\* What has become of each event, read off the tables.
OutcomeOf(x) ==
    IF queuedAt[x] # 0 THEN "accepted"
    ELSE IF x \in lost THEN "forgotten"
    ELSE IF runs[x] > forgotten[x] THEN "delivered"
    ELSE IF x \in seen THEN "closed" ELSE "new"

Delivery == INSTANCE EventDelivery WITH
    Events <- Items, outcome <- [x \in Items |-> OutcomeOf(x)]

\* The tables implement the delivery contract of app-events.md.
ImplementsDelivery == Delivery!Spec

\* No run keeps a slot for ever: none hangs in a node (Runner, SlotIsReleased).
RunsEnd == \A w \in Workflows : []<>(slot[w] = Free)

\* While runs end, an accepted event gets its run, whatever the other triggers
\* of the workflow have waiting, unless its trigger is disabled or deleted.
AcceptedIsDelivered ==
    RunsEnd =>
      \A x \in Items : queuedAt[x] # 0 ~> (queuedAt[x] = 0 \/ x[1] \notin enabled)

\* What start_pending_app_event_run's comment says: a row that could not start
\* "remains pending and the runtime retries it later".
PendingIsRetried ==
    RunsEnd => \A x \in Items : runStatus[x] = "pending" ~> runStatus[x] # "pending"
=============================================================================
