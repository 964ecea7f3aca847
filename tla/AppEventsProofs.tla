--------------------------- MODULE AppEventsProofs ---------------------------
(***************************************************************************)
(* The invariants of AppEvents for any number of triggers, feeds, events   *)
(* and crashes: one lemma per part of Inductive, one step per action.      *)
(***************************************************************************)
EXTENDS AppEvents, FiniteSetTheorems, TLAPS

\* An item is a trigger with a position.
LEMMA ItemParts ==
    /\ \A x \in Items : x[1] \in Triggers /\ x[2] \in Positions /\ x = <<x[1], x[2]>>
    /\ \A t \in Triggers, p \in Positions :
         <<t, p>> \in Items /\ <<t, p>>[1] = t /\ <<t, p>>[2] = p
    /\ Positions \subseteq Nat /\ 0 \notin Positions
  BY DEF Items, Positions

\* Every action keeps every variable in its type.
LEMMA TypeOKStep == ASSUME Inductive, [Next]_vars PROVE TypeOK'
<1> USE AppEventConstants, ItemParts DEF Inductive, tables, syncing, draining
<1>1. ASSUME NEW t \in Triggers, BeginSync(t) PROVE TypeOK'
  BY <1>1 DEF TypeOK, BeginSync
<1>2. ASSUME NEW t \in Triggers, Polled(t) PROVE TypeOK'
  BY <1>2 DEF TypeOK, Polled
<1>3. ASSUME NEW t \in Triggers, Connected(t) PROVE TypeOK'
  BY <1>3 DEF TypeOK, Connected
<1>4. ASSUME NEW t \in Triggers, NEW x \in Items, SkipItem(t, x) PROVE TypeOK'
  BY <1>4 DEF TypeOK, SkipItem, NextItem
<1>5. ASSUME NEW t \in Triggers, NEW x \in Items, RejectItem(t, x) PROVE TypeOK'
  <2>1. /\ \/ receipt' = receipt
           \/ receipt' = [receipt EXCEPT ![x] = IF receipt[x] = "none" THEN "rejected_invalid"
                                                                      ELSE receipt[x]]
        /\ seen' \subseteq seen \cup {x} /\ lost' \subseteq lost
    BY <1>5 DEF RejectItem, Remember
  <2>2. receipt' \in [Items -> Dispositions]
    <3>1. receipt[x] \in Dispositions /\ "rejected_invalid" \in Dispositions
      BY DEF TypeOK, Dispositions
    <3> QED BY SMTT(30), <2>1, <3>1 DEF TypeOK
  <2>3. todo' \in [Triggers -> SUBSET Items]
    BY <1>5 DEF TypeOK, RejectItem, NextItem
  <2> QED BY <1>5, <2>1, <2>2, <2>3 DEF TypeOK, RejectItem
<1>6. ASSUME NEW t \in Triggers, NEW x \in Items, RecordItem(t, x) PROVE TypeOK'
  <2>1. todo' \in [Triggers -> SUBSET Items]
    BY <1>6 DEF TypeOK, RecordItem, NextItem
  <2>2. /\ \/ receipt' = receipt
           \/ \E d \in {"queued", "dropped_overrun"} : receipt' = [receipt EXCEPT ![x] = d]
        /\ seen' \subseteq seen \cup {x} /\ lost' \subseteq lost
    BY SMTT(30), <1>6 DEF RecordItem, Remember
  <2>3. receipt' \in [Items -> Dispositions] /\ seen' \subseteq Items /\ lost' \subseteq Items
    <3>1. {"queued", "dropped_overrun"} \subseteq Dispositions
      BY DEF Dispositions
    <3> QED BY <2>2, <3>1 DEF TypeOK
  <2>4. queuedAt' \in [Items -> Nat] /\ clock' \in Nat \ {0}
    BY <1>6 DEF TypeOK, RecordItem
  <2>5. pressed' = pressed \/ pressed' = [pressed EXCEPT ![t] = TRUE]
    BY <1>6 DEF RecordItem
  <2>6. pressed' \in [Triggers -> BOOLEAN]
    BY <2>5 DEF TypeOK
  <2> QED BY <1>6, <2>1, <2>3, <2>4, <2>6 DEF TypeOK, RecordItem
<1>7. ASSUME NEW t \in Triggers, Checkpoint(t) PROVE TypeOK'
  BY <1>7 DEF TypeOK, Checkpoint, FinishSync
<1>8. ASSUME NEW t \in Triggers, AbortSync(t) PROVE TypeOK'
  BY <1>8 DEF TypeOK, AbortSync, FinishSync
<1>9. ASSUME NEW w \in Workflows, Promote(w) PROVE TypeOK'
  <2>1. /\ serving' \subseteq serving
        /\ \/ UNCHANGED <<queuedAt, receipt, runs, runStatus, starting>>
           \/ \E x \in Items :
                /\ queuedAt' = [queuedAt EXCEPT ![x] = 0]
                /\ receipt' = [receipt EXCEPT ![x] = "enqueued"]
                /\ runs' = [runs EXCEPT ![x] = @ + 1]
                /\ runStatus' = [runStatus EXCEPT ![x] = "pending"]
                /\ starting' = {x}
    BY <1>9 DEF Promote, Serve, Queued
  <2>2. receipt' \in [Items -> Dispositions]
    BY <2>1 DEF TypeOK, Dispositions
  <2>3. queuedAt' \in [Items -> Nat] /\ runs' \in [Items -> Nat]
    BY <2>1 DEF TypeOK
  <2>4. runStatus' \in [Items -> RunStatuses]
    <3>1. /\ runStatus \in [Items -> RunStatuses] /\ "pending" \in RunStatuses
          /\ runStatus' = runStatus \/ \E x \in Items : runStatus' = [runStatus EXCEPT ![x] = "pending"]
      BY <2>1 DEF TypeOK, RunStatuses
    <3> QED BY <3>1
  <2>5. starting' \subseteq Items /\ serving' \subseteq Workflows
    BY <2>1 DEF TypeOK
  <2> QED BY <1>9, <2>2, <2>3, <2>4, <2>5 DEF TypeOK, Promote
<1>10. ASSUME NEW x \in Items, Launch(x) PROVE TypeOK'
  <2>1. /\ starting' \subseteq starting
        /\ \/ UNCHANGED <<slot, runStatus>>
           \/ /\ slot' = [slot EXCEPT ![WorkflowOf[x[1]]] = x]
              /\ runStatus' = [runStatus EXCEPT ![x] = "running"]
    BY <1>10 DEF Launch
  <2>2. slot' \in [Workflows -> Items \cup {Free, Other}]
    <3>1. /\ slot \in [Workflows -> Items \cup {Free, Other}]
          /\ WorkflowOf[x[1]] \in Workflows
          /\ slot' = slot \/ slot' = [slot EXCEPT ![WorkflowOf[x[1]]] = x]
      BY <2>1 DEF TypeOK
    <3> QED BY <3>1
  <2>3. runStatus' \in [Items -> RunStatuses]
    <3>1. /\ runStatus \in [Items -> RunStatuses] /\ "running" \in RunStatuses
          /\ runStatus' = runStatus \/ runStatus' = [runStatus EXCEPT ![x] = "running"]
      BY <2>1 DEF TypeOK, RunStatuses
    <3> QED BY <3>1
  <2>4. starting' \subseteq Items
    BY <2>1 DEF TypeOK
  <2>5. UNCHANGED <<handedOver, alive, enabled, cursor, receipt, queuedAt, clock, runs, seen,
                    lost, forgotten, syncing, listed, serving, recovered>>
    BY <1>10 DEF Launch
  <2> QED BY <2>2, <2>3, <2>4, <2>5 DEF TypeOK
<1>11. ASSUME NEW x \in Items, RunEnds(x) PROVE TypeOK'
  BY <1>11 DEF TypeOK, RunEnds, RunStatuses
<1>12. ASSUME NEW w \in Workflows, OtherRunStarts(w) PROVE TypeOK'
  BY <1>12 DEF TypeOK, OtherRunStarts
<1>13. ASSUME NEW w \in Workflows, OtherRunEnds(w) PROVE TypeOK'
  BY <1>13 DEF TypeOK, OtherRunEnds
<1>14. ASSUME NEW t \in Triggers, NEW on \in BOOLEAN, SetEnabled(t, on) PROVE TypeOK'
  BY <1>14 DEF TypeOK, SetEnabled
<1>15. ASSUME NEW t \in Triggers, DeleteTrigger(t) PROVE TypeOK'
  BY <1>15 DEF TypeOK, DeleteTrigger, Dispositions
<1>16. ASSUME NEW x \in Items, Prune(x) PROVE TypeOK'
  BY <1>16 DEF TypeOK, Prune, Dispositions
<1>17. CASE Crash
  <2>1. pressed' \in [Triggers -> BOOLEAN] /\ cancelled' \in [Triggers -> BOOLEAN]
    BY <1>17, Zenon DEF Crash
  <2>2. slot' \in [Workflows -> Items \cup {Free, Other}]
    BY <1>17 DEF Crash
  <2>3. recovered' \in BOOLEAN /\ listed' \in BOOLEAN
    BY <1>17, Zenon DEF Crash
  <2> QED BY <1>17, <2>1, <2>2, <2>3 DEF TypeOK, Crash
<1>18. CASE Recover
  BY <1>18 DEF TypeOK, Recover, RunStatuses
<1>19. CASE ListPending
  BY <1>19 DEF TypeOK, ListPending
<1>20. CASE ListQueue
  BY <1>20 DEF TypeOK, ListQueue
<1>21. CASE UNCHANGED vars
  BY <1>21 DEF vars, TypeOK
<1> QED BY <1>1, <1>2, <1>3, <1>4, <1>5, <1>6, <1>7, <1>8, <1>9, <1>10, <1>11, <1>12,
           <1>13, <1>14, <1>15, <1>16, <1>17, <1>18, <1>19, <1>20, <1>21 DEF Next, SyncStep

\* Receipt and queue row change in one transaction each.
LEMMA ReceiptsMatchQueueStep == ASSUME Inductive, [Next]_vars PROVE ReceiptsMatchQueue'
<1> USE AppEventConstants, ItemParts DEF Inductive, tables, syncing, draining
<1>1. ASSUME NEW t \in Triggers, BeginSync(t) PROVE ReceiptsMatchQueue'
  BY <1>1 DEF ReceiptsMatchQueue, BeginSync
<1>2. ASSUME NEW t \in Triggers, Polled(t) PROVE ReceiptsMatchQueue'
  BY <1>2 DEF ReceiptsMatchQueue, Polled
<1>3. ASSUME NEW t \in Triggers, Connected(t) PROVE ReceiptsMatchQueue'
  BY <1>3 DEF ReceiptsMatchQueue, Connected
<1>4. ASSUME NEW t \in Triggers, NEW x \in Items, SkipItem(t, x) PROVE ReceiptsMatchQueue'
  BY <1>4 DEF ReceiptsMatchQueue, SkipItem
<1>5. ASSUME NEW t \in Triggers, NEW x \in Items, RejectItem(t, x) PROVE ReceiptsMatchQueue'
  BY <1>5 DEF ReceiptsMatchQueue, RejectItem, Remember, TypeOK
<1>6. ASSUME NEW t \in Triggers, NEW x \in Items, RecordItem(t, x) PROVE ReceiptsMatchQueue'
  BY <1>6 DEF ReceiptsMatchQueue, RecordItem, Remember, TypeOK
<1>7. ASSUME NEW t \in Triggers, Checkpoint(t) PROVE ReceiptsMatchQueue'
  BY <1>7 DEF ReceiptsMatchQueue, Checkpoint
<1>8. ASSUME NEW t \in Triggers, AbortSync(t) PROVE ReceiptsMatchQueue'
  BY <1>8 DEF ReceiptsMatchQueue, AbortSync
<1>9. ASSUME NEW w \in Workflows, Promote(w) PROVE ReceiptsMatchQueue'
  BY <1>9 DEF ReceiptsMatchQueue, Promote, TypeOK
<1>10. ASSUME NEW x \in Items, Launch(x) PROVE ReceiptsMatchQueue'
  BY <1>10 DEF ReceiptsMatchQueue, Launch
<1>11. ASSUME NEW x \in Items, RunEnds(x) PROVE ReceiptsMatchQueue'
  BY <1>11 DEF ReceiptsMatchQueue, RunEnds
<1>12. ASSUME NEW w \in Workflows, OtherRunStarts(w) PROVE ReceiptsMatchQueue'
  BY <1>12 DEF ReceiptsMatchQueue, OtherRunStarts
<1>13. ASSUME NEW w \in Workflows, OtherRunEnds(w) PROVE ReceiptsMatchQueue'
  BY <1>13 DEF ReceiptsMatchQueue, OtherRunEnds
<1>14. ASSUME NEW t \in Triggers, NEW on \in BOOLEAN, SetEnabled(t, on) PROVE ReceiptsMatchQueue'
  BY <1>14 DEF ReceiptsMatchQueue, SetEnabled
<1>15. ASSUME NEW t \in Triggers, DeleteTrigger(t) PROVE ReceiptsMatchQueue'
  BY <1>15 DEF ReceiptsMatchQueue, DeleteTrigger
<1>16. ASSUME NEW x \in Items, Prune(x) PROVE ReceiptsMatchQueue'
  BY <1>16 DEF ReceiptsMatchQueue, Prune
<1>17. CASE Crash
  BY <1>17 DEF ReceiptsMatchQueue, Crash
<1>18. CASE Recover
  BY <1>18 DEF ReceiptsMatchQueue, Recover
<1>19. CASE ListPending
  BY <1>19 DEF ReceiptsMatchQueue, ListPending
<1>20. CASE ListQueue
  BY <1>20 DEF ReceiptsMatchQueue, ListQueue
<1>21. CASE UNCHANGED vars
  BY <1>21 DEF vars, ReceiptsMatchQueue
<1> QED BY <1>1, <1>2, <1>3, <1>4, <1>5, <1>6, <1>7, <1>8, <1>9, <1>10, <1>11, <1>12,
           <1>13, <1>14, <1>15, <1>16, <1>17, <1>18, <1>19, <1>20, <1>21 DEF Next, SyncStep

\* A receipt goes with its trigger or by its age; the event can come back only
\* after the latter, and only where retention is seen to have lost it.
LEMMA KnownEventsStep == ASSUME Inductive, [Next]_vars PROVE KnownEvents'
<1> USE AppEventConstants, ItemParts DEF Inductive, tables, syncing, draining
<1>1. ASSUME NEW t \in Triggers, BeginSync(t) PROVE KnownEvents'
  BY <1>1 DEF KnownEvents, Returnable, BeginSync
<1>2. ASSUME NEW t \in Triggers, Polled(t) PROVE KnownEvents'
  BY <1>2 DEF KnownEvents, Returnable, Polled
<1>3. ASSUME NEW t \in Triggers, Connected(t) PROVE KnownEvents'
  BY <1>3 DEF KnownEvents, Returnable, Connected, TypeOK
<1>4. ASSUME NEW t \in Triggers, NEW x \in Items, SkipItem(t, x) PROVE KnownEvents'
  BY <1>4 DEF KnownEvents, Returnable, SkipItem
<1>5. ASSUME NEW t \in Triggers, NEW x \in Items, RejectItem(t, x) PROVE KnownEvents'
  <2>1. \/ UNCHANGED <<receipt, seen, lost>>
        \/ /\ receipt' = [receipt EXCEPT ![x] = IF receipt[x] = "none" THEN "rejected_invalid"
                                                                      ELSE receipt[x]]
           /\ seen' = seen \cup {x} /\ lost' = lost \ {x}
    BY <1>5 DEF RejectItem, Remember
  <2>2. UNCHANGED <<alive, cursor, handedOver>>
    BY <1>5 DEF RejectItem
  <2>3. x[1] \notin Polling => x[2] <= handedOver[FeedOf[x[1]]]
    <3>1. sync[t] = "batch" /\ x \in todo[t]
      BY <1>5 DEF RejectItem, NextItem
    <3> QED BY <3>1 DEF Batches
  <2>4. CASE UNCHANGED <<receipt, seen, lost>>
    BY <2>2, <2>4 DEF KnownEvents, Returnable
  <2>5. CASE /\ receipt' = [receipt EXCEPT ![x] = IF receipt[x] = "none" THEN "rejected_invalid"
                                                                       ELSE receipt[x]]
             /\ seen' = seen \cup {x} /\ lost' = lost \ {x}
    <3>1. \A y \in Items : y # x => receipt'[y] = receipt[y]
      BY <2>5 DEF TypeOK
    <3>2. receipt'[x] # "none"
      BY <2>5 DEF TypeOK
    <3> QED BY <2>2, <2>3, <2>5, <3>1, <3>2 DEF KnownEvents, Returnable
  <2> QED BY <2>1, <2>4, <2>5
<1>6. ASSUME NEW t \in Triggers, NEW x \in Items, RecordItem(t, x) PROVE KnownEvents'
  BY <1>6 DEF KnownEvents, Returnable, RecordItem, Remember, NextItem, TypeOK, Batches
<1>7. ASSUME NEW t \in Triggers, Checkpoint(t) PROVE KnownEvents'
  BY <1>7 DEF KnownEvents, Returnable, Checkpoint, TypeOK, Batches
<1>8. ASSUME NEW t \in Triggers, AbortSync(t) PROVE KnownEvents'
  BY <1>8 DEF KnownEvents, Returnable, AbortSync
<1>9. ASSUME NEW w \in Workflows, Promote(w) PROVE KnownEvents'
  <2>1. UNCHANGED <<alive, cursor, handedOver, seen, lost>>
    BY <1>9 DEF Promote
  <2>2. CASE receipt' = receipt
    BY <2>1, <2>2 DEF KnownEvents, Returnable
  <2>3. ASSUME NEW x \in Items, queuedAt[x] # 0, receipt' = [receipt EXCEPT ![x] = "enqueued"]
        PROVE  KnownEvents'
    <3>1. receipt[x] = "queued" /\ x \in seen
      BY <2>3 DEF ReceiptsMatchQueue, KnownEvents
    <3>2. \A y \in Items : receipt'[y] = "none" <=> receipt[y] = "none"
      BY <2>3, <3>1 DEF TypeOK
    <3> QED BY <2>1, <3>2 DEF KnownEvents, Returnable
  <2> QED BY <1>9, <2>2, <2>3 DEF Promote, Queued
<1>10. ASSUME NEW x \in Items, Launch(x) PROVE KnownEvents'
  BY <1>10 DEF KnownEvents, Returnable, Launch
<1>11. ASSUME NEW x \in Items, RunEnds(x) PROVE KnownEvents'
  BY <1>11 DEF KnownEvents, Returnable, RunEnds
<1>12. ASSUME NEW w \in Workflows, OtherRunStarts(w) PROVE KnownEvents'
  BY <1>12 DEF KnownEvents, Returnable, OtherRunStarts
<1>13. ASSUME NEW w \in Workflows, OtherRunEnds(w) PROVE KnownEvents'
  BY <1>13 DEF KnownEvents, Returnable, OtherRunEnds
<1>14. ASSUME NEW t \in Triggers, NEW on \in BOOLEAN, SetEnabled(t, on) PROVE KnownEvents'
  BY <1>14 DEF KnownEvents, Returnable, SetEnabled
<1>15. ASSUME NEW t \in Triggers, DeleteTrigger(t) PROVE KnownEvents'
  BY <1>15 DEF KnownEvents, Returnable, DeleteTrigger
<1>16. ASSUME NEW x \in Items, Prune(x) PROVE KnownEvents'
  <2>1. /\ UNCHANGED <<alive, cursor, handedOver, seen>>
        /\ receipt[x] # "none" /\ x \in seen
        /\ receipt'[x] = "none" /\ \A y \in Items : y # x => receipt'[y] = receipt[y]
    BY <1>16 DEF Prune, TypeOK, KnownEvents
  <2>2. lost' = IF Returnable(x) THEN lost \cup {x} ELSE lost
    BY <1>16 DEF Prune
  <2>3. \A y \in Items : Returnable(y)' <=> Returnable(y)
    BY <2>1 DEF Returnable
  <2> QED BY <2>1, <2>2, <2>3 DEF KnownEvents
<1>17. CASE Crash
  BY <1>17 DEF KnownEvents, Returnable, Crash
<1>18. CASE Recover
  BY <1>18 DEF KnownEvents, Returnable, Recover
<1>19. CASE ListPending
  BY <1>19 DEF KnownEvents, Returnable, ListPending
<1>20. CASE ListQueue
  BY <1>20 DEF KnownEvents, Returnable, ListQueue
<1>21. CASE UNCHANGED vars
  BY <1>21 DEF vars, KnownEvents, Returnable
<1> QED BY <1>1, <1>2, <1>3, <1>4, <1>5, <1>6, <1>7, <1>8, <1>9, <1>10, <1>11, <1>12,
           <1>13, <1>14, <1>15, <1>16, <1>17, <1>18, <1>19, <1>20, <1>21 DEF Next, SyncStep

\* An event that is recorded anew was never seen, or retention lost it: it has
\* as many runs as it was forgotten times.
LEMMA MadeOnceStep == ASSUME Inductive, [Next]_vars PROVE MadeOnce'
<1> USE AppEventConstants, ItemParts DEF Inductive, tables, syncing, draining
<1>1. ASSUME NEW t \in Triggers, BeginSync(t) PROVE MadeOnce'
  BY <1>1 DEF MadeOnce, BeginSync
<1>2. ASSUME NEW t \in Triggers, Polled(t) PROVE MadeOnce'
  BY <1>2 DEF MadeOnce, Polled
<1>3. ASSUME NEW t \in Triggers, Connected(t) PROVE MadeOnce'
  BY <1>3 DEF MadeOnce, Connected
<1>4. ASSUME NEW t \in Triggers, NEW x \in Items, SkipItem(t, x) PROVE MadeOnce'
  BY <1>4 DEF MadeOnce, SkipItem
<1>5. ASSUME NEW t \in Triggers, NEW x \in Items, RejectItem(t, x) PROVE MadeOnce'
  <2>1. UNCHANGED <<queuedAt, runs, forgotten>> /\ x \in Invalid
    BY <1>5 DEF RejectItem
  <2>2. /\ seen' = seen \cup {x} \/ seen' = seen
        /\ lost' \subseteq lost
        /\ receipt'[x] \in {receipt[x], "rejected_invalid"}
        /\ \A y \in Items : y # x => receipt'[y] = receipt[y]
    BY <1>5 DEF RejectItem, Remember, TypeOK
  <2>3. \A y \in Items : y \notin Invalid => (y \in seen' <=> y \in seen)
    BY <2>1, <2>2
  <2> QED BY <2>1, <2>2, <2>3 DEF MadeOnce
<1>6. ASSUME NEW t \in Triggers, NEW x \in Items, RecordItem(t, x) PROVE MadeOnce'
  <2>1. /\ UNCHANGED <<runs, forgotten>> /\ x \notin Invalid
        /\ sync[t] = "batch" /\ x \in todo[t] /\ x[1] \in alive
    BY <1>6 DEF RecordItem, NextItem
  <2>2. CASE receipt' = receipt /\ queuedAt' = queuedAt /\ seen' = seen /\ lost' = lost
    BY <2>1, <2>2 DEF MadeOnce
  <2>3. CASE receipt[x] = "none" /\ receipt'[x] # "none" /\ Remember(x)
    <3>1. /\ receipt'[x] \in {"queued", "dropped_overrun"}
          /\ receipt'[x] = "dropped_overrun" => t \notin Polling
          /\ \A y \in Items : y # x => receipt'[y] = receipt[y] /\ queuedAt'[y] = queuedAt[y]
      BY <1>6, <2>3 DEF RecordItem, Remember, TypeOK
    <3>2. t \in Polling => x[2] >= cursor[x[1]] /\ x[1] = t
      BY <2>1 DEF Batches
    <3>3. t \notin Polling => x[1] \notin Polling /\ x \notin seen
      BY <2>1 DEF Batches
    <3>4. runs[x] = forgotten[x]
      BY <2>1, <2>3, <3>2, <3>3 DEF KnownEvents, Returnable, MadeOnce
    <3> QED BY <2>1, <2>3, <3>1, <3>3, <3>4 DEF MadeOnce, Remember, TypeOK
  <2> QED BY <1>6, <2>2, <2>3 DEF RecordItem, TypeOK
<1>7. ASSUME NEW t \in Triggers, Checkpoint(t) PROVE MadeOnce'
  BY <1>7 DEF MadeOnce, Checkpoint
<1>8. ASSUME NEW t \in Triggers, AbortSync(t) PROVE MadeOnce'
  BY <1>8 DEF MadeOnce, AbortSync
<1>9. ASSUME NEW w \in Workflows, Promote(w) PROVE MadeOnce'
  BY <1>9 DEF MadeOnce, Promote, Queued, TypeOK, ReceiptsMatchQueue, KnownEvents
<1>10. ASSUME NEW x \in Items, Launch(x) PROVE MadeOnce'
  BY <1>10 DEF MadeOnce, Launch
<1>11. ASSUME NEW x \in Items, RunEnds(x) PROVE MadeOnce'
  BY <1>11 DEF MadeOnce, RunEnds
<1>12. ASSUME NEW w \in Workflows, OtherRunStarts(w) PROVE MadeOnce'
  BY <1>12 DEF MadeOnce, OtherRunStarts
<1>13. ASSUME NEW w \in Workflows, OtherRunEnds(w) PROVE MadeOnce'
  BY <1>13 DEF MadeOnce, OtherRunEnds
<1>14. ASSUME NEW t \in Triggers, NEW on \in BOOLEAN, SetEnabled(t, on) PROVE MadeOnce'
  BY <1>14 DEF MadeOnce, SetEnabled
<1>15. ASSUME NEW t \in Triggers, DeleteTrigger(t) PROVE MadeOnce'
  BY <1>15 DEF MadeOnce, DeleteTrigger
<1>16. ASSUME NEW x \in Items, Prune(x) PROVE MadeOnce'
  <2>1. /\ UNCHANGED <<queuedAt, runs, seen>> /\ queuedAt[x] = 0 /\ x \in seen
        /\ receipt[x] \in {"enqueued", "dropped_overrun", "rejected_invalid"}
        /\ receipt'[x] = "none" /\ \A y \in Items : y # x => receipt'[y] = receipt[y]
    BY <1>16 DEF Prune, TypeOK, Dispositions, KnownEvents
  <2>2. CASE ~ Returnable(x)
    <3>1. UNCHANGED <<lost, forgotten>>
      BY <1>16, <2>2 DEF Prune
    <3> QED BY <2>1, <3>1 DEF MadeOnce
  <2>3. CASE Returnable(x)
    <3>1. /\ lost' = lost \cup {x} /\ forgotten'[x] = forgotten[x] + 1
          /\ \A y \in Items : y # x => forgotten'[y] = forgotten[y]
      BY <1>16, <2>3 DEF Prune, TypeOK
    <3>2. receipt[x] # "dropped_overrun"
      BY <2>1, <2>3 DEF MadeOnce, Returnable
    <3>3. x \notin Invalid => runs[x] = 1 + forgotten[x]
      BY <2>1, <3>2 DEF MadeOnce
    <3>4. runs[x] \in Nat /\ forgotten[x] \in Nat /\ runs[x] <= 1 + forgotten[x]
      BY DEF TypeOK, MadeOnce
    <3> QED BY <2>1, <3>1, <3>3, <3>4 DEF MadeOnce
  <2> QED BY <2>2, <2>3
<1>17. CASE Crash
  BY <1>17 DEF MadeOnce, Crash
<1>18. CASE Recover
  BY <1>18 DEF MadeOnce, Recover
<1>19. CASE ListPending
  BY <1>19 DEF MadeOnce, ListPending
<1>20. CASE ListQueue
  BY <1>20 DEF MadeOnce, ListQueue
<1>21. CASE UNCHANGED vars
  BY <1>21 DEF vars, MadeOnce
<1> QED BY <1>1, <1>2, <1>3, <1>4, <1>5, <1>6, <1>7, <1>8, <1>9, <1>10, <1>11, <1>12,
           <1>13, <1>14, <1>15, <1>16, <1>17, <1>18, <1>19, <1>20, <1>21 DEF Next, SyncStep

\* Batches stay at or after the cursor, and socket batches stay disjoint.
LEMMA BatchesStep == ASSUME Inductive, [Next]_vars PROVE Batches'
<1> USE AppEventConstants, ItemParts DEF Inductive, tables, syncing, draining
<1>1. ASSUME NEW t \in Triggers, BeginSync(t) PROVE Batches'
  BY <1>1 DEF Batches, BeginSync
<1>2. ASSUME NEW t \in Triggers, Polled(t) PROVE Batches'
  <2>1. PICK hi \in cursor[t]..FeedLength[FeedOf[t]], again \in {0, 1} :
          /\ todo' = [todo EXCEPT ![t] =
                        {x \in Items : x[1] = t /\ x[2] + again > cursor[t] /\ x[2] <= hi}]
          /\ last' = [last EXCEPT ![t] = hi]
    BY <1>2 DEF Polled
  <2>2. /\ t \in Polling /\ sync' = [sync EXCEPT ![t] = "batch"]
        /\ UNCHANGED <<cursor, handedOver, seen>>
    BY <1>2 DEF Polled, tables
  <2>3. \A x \in todo'[t] : x \in Items /\ x[1] = t /\ x[2] >= cursor[t]
    BY <2>1 DEF TypeOK
  <2>4. last'[t] >= cursor[t]
    BY <2>1 DEF TypeOK
  <2>5. \A u \in Triggers : u # t => /\ todo'[u] = todo[u] /\ todo[u] \subseteq Items
                                   /\ last'[u] = last[u] /\ sync'[u] = sync[u]
    BY <2>1, <2>2 DEF TypeOK
  <2>6. \A u \in Triggers : u # t => todo[u] \cap todo'[t] = {}
    BY <2>2, <2>3, <2>5 DEF Batches
  <2> QED BY <2>2, <2>3, <2>4, <2>5, <2>6 DEF Batches, TypeOK
<1>3. ASSUME NEW t \in Triggers, Connected(t) PROVE Batches'
  <2> DEFINE f == FeedOf[t]
  <2>1. PICK hi \in handedOver[FeedOf[t]]..FeedLength[FeedOf[t]] :
          /\ handedOver' = [handedOver EXCEPT ![FeedOf[t]] = hi]
          /\ todo' = [todo EXCEPT ![t] =
                        {x \in Items : x[1] \in Targets(t) /\ x[2] > handedOver[FeedOf[t]]
                                                           /\ x[2] <= hi}]
    BY <1>3 DEF Connected
  <2>2. /\ t \notin Polling
        /\ sync' = [sync EXCEPT ![t] = "batch"]
        /\ UNCHANGED <<cursor, last, seen>>
    BY <1>3 DEF Connected
  <2>3. \A x \in todo'[t] : /\ x \in Items /\ x[1] \notin Polling /\ FeedOf[x[1]] = f
                           /\ x[2] > handedOver[f] /\ x[2] <= hi /\ x \notin seen
    BY <2>1 DEF TypeOK, KnownEvents, Targets
  <2>4. \A u \in Triggers : u # t => todo'[u] = todo[u] /\ todo[u] \subseteq Items
    BY <2>1 DEF TypeOK
  <2>5. ASSUME NEW u \in Triggers, u # t PROVE todo'[t] \cap todo'[u] = {}
    <3> SUFFICES ASSUME NEW x \in todo'[t], x \in todo[u] PROVE FALSE
      BY <2>4, <2>5
    <3>1. /\ x[1] \notin Polling /\ FeedOf[x[1]] = f
          /\ x[2] > handedOver[f] /\ x[2] \in Nat /\ handedOver[f] \in Nat
      BY <2>3 DEF TypeOK
    <3>2. u \notin Polling
      <4>1. todo[u] # {} => sync[u] = "batch"
        BY DEF Batches
      <4>2. u \in Polling => x[1] = u
        BY <4>1 DEF Batches
      <4> QED BY <3>1, <4>2
    <3> QED BY <3>1, <3>2 DEF Batches
  <2>6. /\ \A u \in Triggers : handedOver[FeedOf[u]] <= handedOver'[FeedOf[u]]
        /\ handedOver'[f] = hi
    BY <2>1 DEF TypeOK
  <2>7. ASSUME NEW u \in Triggers, u # t
        PROVE  /\ sync'[u] = sync[u] /\ todo'[u] = todo[u] /\ last'[u] = last[u]
               /\ cursor'[u] = cursor[u] /\ seen' = seen
    BY <2>2, <2>4, <2>7 DEF TypeOK
  <2>8. \A u, v \in Triggers : u # v => todo'[u] \cap todo'[v] = {}
    BY <2>4, <2>5 DEF Batches
  <2>9. \A u \in Triggers : u \notin Polling => \A x \in todo'[u] :
          /\ x[1] \notin Polling /\ FeedOf[x[1]] = FeedOf[u]
          /\ x[2] <= handedOver'[FeedOf[u]] /\ x \notin seen'
    <3>1. ASSUME NEW u \in Triggers, u # t, u \notin Polling, NEW x \in todo'[u]
          PROVE  /\ x[1] \notin Polling /\ FeedOf[x[1]] = FeedOf[u]
                 /\ x[2] <= handedOver'[FeedOf[u]] /\ x \notin seen'
      <4>1. x \in todo[u] /\ x \in Items
        BY <2>4, <3>1
      <4>2. /\ x[1] \notin Polling /\ FeedOf[x[1]] = FeedOf[u]
            /\ x[2] <= handedOver[FeedOf[u]] /\ x \notin seen
        BY <3>1, <4>1 DEF Batches
      <4>3. /\ x[2] \in Nat /\ FeedOf[u] \in Feeds
            /\ handedOver[FeedOf[u]] \in Nat /\ handedOver'[FeedOf[u]] \in Nat
        BY <2>1, <4>1 DEF TypeOK
      <4> QED BY <2>2, <2>6, <4>2, <4>3
    <3> QED BY <2>2, <2>3, <2>6, <3>1
  <2>10. \A u \in Triggers : sync'[u] # "batch" => todo'[u] = {}
    BY <2>2, <2>7 DEF Batches, TypeOK
  <2>11. \A u \in Triggers : u \in Polling /\ sync'[u] = "batch" =>
           last'[u] >= cursor'[u] /\ \A x \in todo'[u] : x[1] = u /\ x[2] >= cursor'[u]
    BY <2>2, <2>7 DEF Batches
  <2> QED BY <2>8, <2>9, <2>10, <2>11 DEF Batches
<1>4. ASSUME NEW t \in Triggers, NEW x \in Items, SkipItem(t, x) PROVE Batches'
  BY <1>4 DEF Batches, SkipItem, NextItem
<1>5. ASSUME NEW t \in Triggers, NEW x \in Items, RejectItem(t, x) PROVE Batches'
  BY <1>5 DEF Batches, RejectItem, Remember, NextItem, TypeOK
<1>6. ASSUME NEW t \in Triggers, NEW x \in Items, RecordItem(t, x) PROVE Batches'
  BY <1>6 DEF Batches, RecordItem, Remember, NextItem, TypeOK
<1>7. ASSUME NEW t \in Triggers, Checkpoint(t) PROVE Batches'
  BY <1>7 DEF Batches, Checkpoint, FinishSync, TypeOK
<1>8. ASSUME NEW t \in Triggers, AbortSync(t) PROVE Batches'
  BY <1>8 DEF Batches, AbortSync, FinishSync, TypeOK
<1>9. ASSUME NEW w \in Workflows, Promote(w) PROVE Batches'
  BY <1>9 DEF Batches, Promote
<1>10. ASSUME NEW x \in Items, Launch(x) PROVE Batches'
  BY <1>10 DEF Batches, Launch
<1>11. ASSUME NEW x \in Items, RunEnds(x) PROVE Batches'
  BY <1>11 DEF Batches, RunEnds
<1>12. ASSUME NEW w \in Workflows, OtherRunStarts(w) PROVE Batches'
  BY <1>12 DEF Batches, OtherRunStarts
<1>13. ASSUME NEW w \in Workflows, OtherRunEnds(w) PROVE Batches'
  BY <1>13 DEF Batches, OtherRunEnds
<1>14. ASSUME NEW t \in Triggers, NEW on \in BOOLEAN, SetEnabled(t, on) PROVE Batches'
  BY <1>14 DEF Batches, SetEnabled
<1>15. ASSUME NEW t \in Triggers, DeleteTrigger(t) PROVE Batches'
  BY <1>15 DEF Batches, DeleteTrigger
<1>16. ASSUME NEW x \in Items, Prune(x) PROVE Batches'
  BY <1>16 DEF Batches, Prune
<1>17. CASE Crash
  BY <1>17 DEF Batches, Crash
<1>18. CASE Recover
  BY <1>18 DEF Batches, Recover
<1>19. CASE ListPending
  BY <1>19 DEF Batches, ListPending
<1>20. CASE ListQueue
  BY <1>20 DEF Batches, ListQueue
<1>21. CASE UNCHANGED vars
  BY <1>21 DEF vars, Batches
<1> QED BY <1>1, <1>2, <1>3, <1>4, <1>5, <1>6, <1>7, <1>8, <1>9, <1>10, <1>11, <1>12,
           <1>13, <1>14, <1>15, <1>16, <1>17, <1>18, <1>19, <1>20, <1>21 DEF Next, SyncStep

\* Every item that leaves a batch is seen, filtered, or marks the batch pressed.
LEMMA BatchCoversStep == ASSUME Inductive, [Next]_vars PROVE BatchCovers'
<1> USE AppEventConstants, ItemParts DEF Inductive, tables, syncing, draining
<1>1. ASSUME NEW t \in Triggers, BeginSync(t) PROVE BatchCovers'
  BY <1>1 DEF BatchCovers, BeginSync
<1>2. ASSUME NEW t \in Triggers, Polled(t) PROVE BatchCovers'
  BY <1>2 DEF BatchCovers, Polled, TypeOK, NothingSkipped
<1>3. ASSUME NEW t \in Triggers, Connected(t) PROVE BatchCovers'
  BY <1>3 DEF BatchCovers, Connected
<1>4. ASSUME NEW t \in Triggers, NEW x \in Items, SkipItem(t, x) PROVE BatchCovers'
  BY <1>4 DEF BatchCovers, SkipItem, NextItem
<1>5. ASSUME NEW t \in Triggers, NEW x \in Items, RejectItem(t, x) PROVE BatchCovers'
  BY <1>5 DEF BatchCovers, RejectItem, Remember, NextItem
<1>6. ASSUME NEW t \in Triggers, NEW x \in Items, RecordItem(t, x) PROVE BatchCovers'
  <2>1. SUFFICES ASSUME NEW u \in alive' \cap Polling, NEW p \in Positions,
                        sync'[u] = "batch", ~ pressed'[u], p <= last'[u]
                 PROVE  <<u, p>> \in seen' \cup Filtered \cup todo'[u]
    BY DEF BatchCovers
  <2>2. UNCHANGED <<alive, sync, last>> /\ seen \subseteq seen'
    BY <1>6 DEF RecordItem, Remember
  <2>3. pressed' = pressed \/ pressed' = [pressed EXCEPT ![t] = TRUE]
    BY <1>6 DEF RecordItem
  <2>4. ~ pressed[u]
    BY SMTT(30), <2>1, <2>3 DEF TypeOK
  <2>5. <<u, p>> \in seen \cup Filtered \cup todo[u]
    BY <2>1, <2>2, <2>4 DEF BatchCovers
  <2>6. CASE u # t
    BY <1>6, <2>2, <2>5, <2>6 DEF RecordItem, NextItem
  <2>7. CASE u = t
    <3>1. todo'[u] = todo[u] \ {x}
      BY <1>6, <2>7 DEF RecordItem, NextItem, TypeOK
    <3>2. CASE receipt[x] # "none"
      <4>1. x \in seen
        BY <3>2 DEF KnownEvents
      <4> QED BY <2>2, <2>5, <3>1, <4>1
    <3>3. CASE receipt[x] = "none"
      <4>1. x \in seen' \/ pressed'[t] = TRUE
        BY <1>6, <3>3 DEF RecordItem, Remember, TypeOK
      <4> QED BY <2>1, <2>2, <2>5, <2>7, <3>1, <4>1
    <3> QED BY <3>2, <3>3
  <2> QED BY <2>6, <2>7
<1>7. ASSUME NEW t \in Triggers, Checkpoint(t) PROVE BatchCovers'
  BY <1>7 DEF BatchCovers, Checkpoint, FinishSync, TypeOK
<1>8. ASSUME NEW t \in Triggers, AbortSync(t) PROVE BatchCovers'
  BY <1>8 DEF BatchCovers, AbortSync, FinishSync, TypeOK
<1>9. ASSUME NEW w \in Workflows, Promote(w) PROVE BatchCovers'
  BY <1>9 DEF BatchCovers, Promote
<1>10. ASSUME NEW x \in Items, Launch(x) PROVE BatchCovers'
  BY <1>10 DEF BatchCovers, Launch
<1>11. ASSUME NEW x \in Items, RunEnds(x) PROVE BatchCovers'
  BY <1>11 DEF BatchCovers, RunEnds
<1>12. ASSUME NEW w \in Workflows, OtherRunStarts(w) PROVE BatchCovers'
  BY <1>12 DEF BatchCovers, OtherRunStarts
<1>13. ASSUME NEW w \in Workflows, OtherRunEnds(w) PROVE BatchCovers'
  BY <1>13 DEF BatchCovers, OtherRunEnds
<1>14. ASSUME NEW t \in Triggers, NEW on \in BOOLEAN, SetEnabled(t, on) PROVE BatchCovers'
  BY <1>14 DEF BatchCovers, SetEnabled
<1>15. ASSUME NEW t \in Triggers, DeleteTrigger(t) PROVE BatchCovers'
  BY <1>15 DEF BatchCovers, DeleteTrigger
<1>16. ASSUME NEW x \in Items, Prune(x) PROVE BatchCovers'
  BY <1>16 DEF BatchCovers, Prune
<1>17. CASE Crash
  BY <1>17 DEF BatchCovers, Crash
<1>18. CASE Recover
  BY <1>18 DEF BatchCovers, Recover
<1>19. CASE ListPending
  BY <1>19 DEF BatchCovers, ListPending
<1>20. CASE ListQueue
  BY <1>20 DEF BatchCovers, ListQueue
<1>21. CASE UNCHANGED vars
  BY <1>21 DEF vars, BatchCovers
<1> QED BY <1>1, <1>2, <1>3, <1>4, <1>5, <1>6, <1>7, <1>8, <1>9, <1>10, <1>11, <1>12,
           <1>13, <1>14, <1>15, <1>16, <1>17, <1>18, <1>19, <1>20, <1>21 DEF Next, SyncStep

\* Only Checkpoint moves a cursor, and only over a batch without gaps.
LEMMA NothingSkippedStep == ASSUME Inductive, [Next]_vars PROVE NothingSkipped'
<1> USE AppEventConstants, ItemParts DEF Inductive, tables, syncing, draining
<1>1. ASSUME NEW t \in Triggers, BeginSync(t) PROVE NothingSkipped'
  BY <1>1 DEF NothingSkipped, BeginSync
<1>2. ASSUME NEW t \in Triggers, Polled(t) PROVE NothingSkipped'
  BY <1>2 DEF NothingSkipped, Polled
<1>3. ASSUME NEW t \in Triggers, Connected(t) PROVE NothingSkipped'
  BY <1>3 DEF NothingSkipped, Connected
<1>4. ASSUME NEW t \in Triggers, NEW x \in Items, SkipItem(t, x) PROVE NothingSkipped'
  BY <1>4 DEF NothingSkipped, SkipItem
<1>5. ASSUME NEW t \in Triggers, NEW x \in Items, RejectItem(t, x) PROVE NothingSkipped'
  BY <1>5 DEF NothingSkipped, RejectItem, Remember
<1>6. ASSUME NEW t \in Triggers, NEW x \in Items, RecordItem(t, x) PROVE NothingSkipped'
  BY <1>6 DEF NothingSkipped, RecordItem, Remember
<1>7. ASSUME NEW t \in Triggers, Checkpoint(t) PROVE NothingSkipped'
  BY <1>7 DEF NothingSkipped, Checkpoint, BatchCovers
<1>8. ASSUME NEW t \in Triggers, AbortSync(t) PROVE NothingSkipped'
  BY <1>8 DEF NothingSkipped, AbortSync
<1>9. ASSUME NEW w \in Workflows, Promote(w) PROVE NothingSkipped'
  BY <1>9 DEF NothingSkipped, Promote
<1>10. ASSUME NEW x \in Items, Launch(x) PROVE NothingSkipped'
  BY <1>10 DEF NothingSkipped, Launch
<1>11. ASSUME NEW x \in Items, RunEnds(x) PROVE NothingSkipped'
  BY <1>11 DEF NothingSkipped, RunEnds
<1>12. ASSUME NEW w \in Workflows, OtherRunStarts(w) PROVE NothingSkipped'
  BY <1>12 DEF NothingSkipped, OtherRunStarts
<1>13. ASSUME NEW w \in Workflows, OtherRunEnds(w) PROVE NothingSkipped'
  BY <1>13 DEF NothingSkipped, OtherRunEnds
<1>14. ASSUME NEW t \in Triggers, NEW on \in BOOLEAN, SetEnabled(t, on) PROVE NothingSkipped'
  BY <1>14 DEF NothingSkipped, SetEnabled
<1>15. ASSUME NEW t \in Triggers, DeleteTrigger(t) PROVE NothingSkipped'
  BY <1>15 DEF NothingSkipped, DeleteTrigger
<1>16. ASSUME NEW x \in Items, Prune(x) PROVE NothingSkipped'
  BY <1>16 DEF NothingSkipped, Prune
<1>17. CASE Crash
  BY <1>17 DEF NothingSkipped, Crash
<1>18. CASE Recover
  BY <1>18 DEF NothingSkipped, Recover
<1>19. CASE ListPending
  BY <1>19 DEF NothingSkipped, ListPending
<1>20. CASE ListQueue
  BY <1>20 DEF NothingSkipped, ListQueue
<1>21. CASE UNCHANGED vars
  BY <1>21 DEF vars, NothingSkipped
<1> QED BY <1>1, <1>2, <1>3, <1>4, <1>5, <1>6, <1>7, <1>8, <1>9, <1>10, <1>11, <1>12,
           <1>13, <1>14, <1>15, <1>16, <1>17, <1>18, <1>19, <1>20, <1>21 DEF Next, SyncStep

\* A pending count is a number, and grows by at most the row just added.
LEMMA PendingCount ==
    ASSUME TypeOK, TypeOK', NEW t \in Triggers
    PROVE  /\ Pending(t) \in Nat /\ Pending(t)' \in Nat
           /\ (\A x \in Items : queuedAt'[x] # 0 => queuedAt[x] # 0) => Pending(t)' <= Pending(t)
           /\ \A y \in Items :
                (\A x \in Items : x # y => (queuedAt'[x] # 0 => queuedAt[x] # 0))
                  => Pending(t)' <= Pending(t) + 1
           /\ \A y \in Items :
                (y[1] # t /\ \A x \in Items : x # y => (queuedAt'[x] # 0 => queuedAt[x] # 0))
                  => Pending(t)' <= Pending(t)
<1> DEFINE A == {x \in Items : x[1] = t /\ queuedAt[x] # 0}
           B == {x \in Items : x[1] = t /\ queuedAt'[x] # 0}
<1>1. IsFiniteSet(Items)
  <2>1. IsFiniteSet(1..MaxPosition)
    BY AppEventConstants, FS_Interval
  <2> QED BY <2>1, AppEventConstants, FS_Product DEF Items, Positions
<1>2. IsFiniteSet(A) /\ IsFiniteSet(B)
  BY <1>1, FS_Subset
<1>3. Cardinality(A) \in Nat /\ Cardinality(B) \in Nat
  BY <1>2, FS_CardinalityType
<1>4. Pending(t) = Cardinality(A) /\ Pending(t)' = Cardinality(B)
  BY DEF Pending
<1>5. B \subseteq A => Cardinality(B) <= Cardinality(A)
  BY <1>2, FS_Subset
<1>6. ASSUME NEW y \in Items, \A x \in Items : x # y => (queuedAt'[x] # 0 => queuedAt[x] # 0)
      PROVE  Cardinality(B) <= Cardinality(A) + 1
  <2>1. B \subseteq A \cup {y}
    BY <1>6
  <2>2. IsFiniteSet(A \cup {y}) /\ Cardinality(A \cup {y}) \in {Cardinality(A), Cardinality(A) + 1}
    BY <1>2, FS_AddElement
  <2>3. Cardinality(B) <= Cardinality(A \cup {y})
    BY <2>1, <2>2, FS_Subset
  <2> QED BY <1>3, <2>2, <2>3
<1>7. ASSUME NEW y \in Items, y[1] # t,
             \A x \in Items : x # y => (queuedAt'[x] # 0 => queuedAt[x] # 0)
      PROVE  Cardinality(B) <= Cardinality(A)
  <2>1. B \subseteq A
    BY <1>7
  <2> QED BY <1>5, <2>1
<1>8. (\A x \in Items : queuedAt'[x] # 0 => queuedAt[x] # 0) => B \subseteq A
  OBVIOUS
<1> QED BY <1>3, <1>4, <1>5, <1>6, <1>7, <1>8

\* RecordItem is the only step that adds a row, and it looks at the count first.
LEMMA CapRespectedStep == ASSUME Inductive, [Next]_vars PROVE CapRespected'
<1> USE AppEventConstants, ItemParts DEF Inductive
<1>1. TypeOK /\ TypeOK'
  BY TypeOKStep
<1>2. CASE \E t \in Triggers, x \in Items : RecordItem(t, x)
  <2>1. PICK s \in Triggers, y \in Items : RecordItem(s, y)
    BY <1>2
  <2>2. \A x \in Items : x # y => queuedAt'[x] = queuedAt[x]
    BY <2>1 DEF RecordItem, TypeOK
  <2>3. CASE queuedAt' = queuedAt
    BY <1>1, <2>3, PendingCount DEF CapRespected
  <2>4. CASE Pending(y[1]) < PendingCap
    <3>1. ASSUME NEW t \in Triggers, t # y[1] PROVE Pending(t)' <= PendingCap
      BY <1>1, <2>2, <3>1, PendingCount DEF CapRespected
    <3>2. Pending(y[1])' <= Pending(y[1]) + 1 /\ Pending(y[1]) \in Nat /\ Pending(y[1])' \in Nat
      BY <1>1, <2>2, PendingCount
    <3> QED BY <2>4, <3>1, <3>2 DEF CapRespected
  <2> QED BY <2>1, <2>3, <2>4 DEF RecordItem
<1>3. CASE ~ \E t \in Triggers, x \in Items : RecordItem(t, x)
  <2>1. \A x \in Items : queuedAt'[x] # 0 => queuedAt[x] # 0
    <3> SUFFICES ASSUME NEW x \in Items, queuedAt'[x] # 0 PROVE queuedAt[x] # 0
      OBVIOUS
    <3>1. CASE \E w \in Workflows : Promote(w)
      <4>1. PICK w \in Workflows : Promote(w)
        BY <3>1
      <4>2. queuedAt' = queuedAt \/ \E y \in Items : queuedAt' = [queuedAt EXCEPT ![y] = 0]
        BY <4>1 DEF Promote, Queued
      <4>3. queuedAt \in [Items -> Nat]
        BY DEF TypeOK
      <4> QED BY <4>2, <4>3
    <3>2. CASE \E t \in Triggers : DeleteTrigger(t)
      BY <3>2 DEF DeleteTrigger, TypeOK
    <3>3. CASE queuedAt' = queuedAt
      BY <3>3
    <3>4. CASE \E t \in Triggers : BeginSync(t) \/ SyncStep(t) \/ AbortSync(t)
      BY <1>3, <3>3, <3>4 DEF SyncStep, BeginSync, Polled, Connected, SkipItem, RejectItem,
         Checkpoint, AbortSync, tables
    <3>5. CASE \/ \E w \in Workflows : OtherRunStarts(w) \/ OtherRunEnds(w)
               \/ \E y \in Items : Launch(y) \/ RunEnds(y) \/ Prune(y)
               \/ \E t \in Triggers, on \in BOOLEAN : SetEnabled(t, on)
               \/ ListPending \/ ListQueue \/ Crash \/ Recover \/ UNCHANGED vars
      BY <3>3, <3>5 DEF OtherRunStarts, OtherRunEnds, Launch, RunEnds, Prune,
         SetEnabled, ListPending, ListQueue, Crash, Recover, vars, tables
    <3> QED BY <3>1, <3>2, <3>4, <3>5 DEF Next
  <2> QED BY <1>1, <2>1, PendingCount DEF CapRespected
<1> QED BY <1>2, <1>3

\* Empty tables satisfy every part.
LEMMA InductiveInit == Init => Inductive
<1> SUFFICES ASSUME Init PROVE Inductive
  OBVIOUS
<1> USE AppEventConstants, ItemParts DEF Init
<1>1. TypeOK
  <2>1. /\ pressed \in [Triggers -> BOOLEAN]
        /\ cancelled \in [Triggers -> BOOLEAN]
        /\ recovered \in BOOLEAN /\ listed \in BOOLEAN
        /\ slot \in [Workflows -> Items \cup {Free, Other}]
    BY Zenon
  <2> QED BY <2>1 DEF TypeOK, Dispositions, RunStatuses
<1>2. ReceiptsMatchQueue /\ KnownEvents /\ MadeOnce
  BY DEF ReceiptsMatchQueue, KnownEvents, MadeOnce
<1>3. Batches /\ BatchCovers /\ NothingSkipped
  BY DEF Batches, BatchCovers, NothingSkipped
<1>4. CapRespected
  <2>1. \A t \in Triggers : {x \in Items : x[1] = t /\ queuedAt[x] # 0} = {}
    OBVIOUS
  <2>2. \A t \in Triggers : Pending(t) = 0
    BY <2>1, FS_EmptySet DEF Pending
  <2> QED BY <2>2 DEF CapRespected
<1> QED BY <1>1, <1>2, <1>3, <1>4 DEF Inductive

\* Inductive is an invariant of the connected-app event machinery.
THEOREM AppEventsInductive == Spec => []Inductive
<1>1. Inductive /\ [Next]_vars => Inductive'
  BY TypeOKStep, ReceiptsMatchQueueStep, KnownEventsStep, MadeOnceStep, BatchesStep,
     BatchCoversStep, NothingSkippedStep, CapRespectedStep DEF Inductive
<1> QED BY <1>1, InductiveInit, PTL DEF Spec

\* Type correctness: every table, batch and slot keeps its type.
THEOREM AppEventsTypeOK == Spec => []TypeOK
  BY AppEventsInductive, PTL DEF Inductive

\* The pending cap holds for every cap, trigger and interleaving of syncs.
THEOREM PendingIsCapped == Spec => []CapRespected
  BY AppEventsInductive, PTL DEF Inductive

\* Receipts and queue rows agree in every reachable state.
THEOREM ReceiptsAgree == Spec => []ReceiptsMatchQueue
  BY AppEventsInductive, PTL DEF Inductive

\* No event makes more runs than one and one for every time retention took the
\* receipt of an event that a poll could still return, whatever is polled again,
\* pruned behind the cursor, or crashes.
THEOREM AtMostOneRun == Spec => []DeliveredAtMostOnce
<1>1. Inductive => DeliveredAtMostOnce
  BY DEF Inductive, MadeOnce, DeliveredAtMostOnce
<1> QED BY <1>1, AppEventsInductive, PTL

\* No cursor passes an event that was not accepted, recognised or rejected.
THEOREM CursorLeavesNoGap == Spec => []NothingSkipped
  BY AppEventsInductive, PTL DEF Inductive

\* promote_next_app_event takes the oldest row of the workflow.
LEMMA PromoteOldest ==
    ASSUME Inductive, [Next]_vars, NEW x \in Items, NEW y \in Items,
           WorkflowOf[x[1]] = WorkflowOf[y[1]], x[1] \in enabled,
           queuedAt[x] # 0, queuedAt[x] < queuedAt[y]
    PROVE  runs'[y] = runs[y]
<1>1. CASE \E w \in Workflows : Promote(w)
  <2>1. PICK w \in Workflows : Promote(w)
    BY <1>1
  <2>2. CASE runs' = runs
    BY <2>2
  <2>3. ASSUME NEW z \in Queued(w), \A u \in Queued(w) : queuedAt[z] <= queuedAt[u],
               runs' = [runs EXCEPT ![z] = @ + 1]
        PROVE  runs'[y] = runs[y]
    <3>1. z = y => x \in Queued(w)
      BY <2>3 DEF Queued
    <3>2. queuedAt[x] \in Nat /\ queuedAt[y] \in Nat
      BY DEF Inductive, TypeOK
    <3>3. z # y
      BY <2>3, <3>1, <3>2
    <3> QED BY <2>3, <3>3 DEF Inductive, TypeOK
  <2> QED BY <2>1, <2>2, <2>3 DEF Promote
<1>2. CASE runs' = runs
  BY <1>2
<1>3. CASE \E t \in Triggers : BeginSync(t) \/ SyncStep(t) \/ AbortSync(t)
  BY <1>2, <1>3 DEF SyncStep, BeginSync, Polled, Connected, SkipItem, RejectItem, RecordItem,
     Checkpoint, AbortSync, tables
<1>4. CASE \/ \E w \in Workflows : OtherRunStarts(w) \/ OtherRunEnds(w)
           \/ \E z \in Items : Launch(z) \/ RunEnds(z) \/ Prune(z)
           \/ \E t \in Triggers, on \in BOOLEAN : SetEnabled(t, on)
           \/ \E t \in Triggers : DeleteTrigger(t)
           \/ ListPending \/ ListQueue \/ Crash \/ Recover \/ UNCHANGED vars
  BY <1>2, <1>4 DEF OtherRunStarts, OtherRunEnds, Launch, RunEnds, Prune,
     SetEnabled, DeleteTrigger, ListPending, ListQueue, Crash, Recover, vars, tables
<1> QED BY <1>1, <1>3, <1>4 DEF Next

\* A workflow's events become runs in the order in which they were accepted.
THEOREM RunsFollowAcceptance == Spec => AcceptedInOrder
<1>1. Inductive /\ [Next]_vars =>
        [\A x \in Items : queuedAt[x] # 0 /\ x[1] \in enabled =>
           \A y \in Items :
             WorkflowOf[x[1]] = WorkflowOf[y[1]] /\ queuedAt[x] < queuedAt[y]
               => runs'[y] = runs[y]]_vars
  BY PromoteOldest
<1> QED BY <1>1, AppEventsInductive, PTL DEF Spec, AcceptedInOrder

-----------------------------------------------------------------------------
(* The tables implement EventDelivery *)

\* What an item looks like in the tables for each outcome that matters below.
LEMMA OutcomeFacts ==
    ASSUME Inductive, NEW x \in Items
    PROVE  /\ queuedAt[x] # 0 <=> OutcomeOf(x) = "accepted"
           /\ x \notin seen => OutcomeOf(x) = "new"
           /\ x \in lost => OutcomeOf(x) = "forgotten"
           /\ queuedAt[x] # 0 => x \in seen /\ x \notin lost /\ runs[x] = forgotten[x]
           /\ runs[x] \in Nat /\ forgotten[x] \in Nat
<1> USE DEF Inductive
<1>1. runs[x] \in Nat /\ forgotten[x] \in Nat
  BY DEF TypeOK
<1>2. queuedAt[x] # 0 => x \in seen /\ x \notin lost /\ runs[x] = forgotten[x]
  BY DEF ReceiptsMatchQueue, KnownEvents, MadeOnce
<1>3. x \notin seen => queuedAt[x] = 0 /\ x \notin lost /\ ~ (runs[x] > forgotten[x])
  BY <1>1, <1>2 DEF KnownEvents, MadeOnce
<1> QED BY <1>1, <1>2, <1>3 DEF OutcomeOf

\* What a batch may still accept has no receipt because it never had one, or
\* because retention took it; either way it has made no run for its next one.
LEMMA UnknownItem ==
    ASSUME Inductive, NEW t \in Triggers, NEW x \in Items, NextItem(t, x),
           x[1] \in alive, receipt[x] = "none"
    PROVE  /\ x \notin seen \/ x \in lost
           /\ OutcomeOf(x) \in {"new", "forgotten"}
           /\ queuedAt[x] = 0 /\ ~ (runs[x] > forgotten[x])
<1> USE ItemParts DEF Inductive
<1>1. sync[t] = "batch" /\ x \in todo[t]
  BY DEF NextItem
<1>2. CASE t \in Polling
  <2>1. Returnable(x)
    BY <1>1, <1>2 DEF Batches, Returnable
  <2> QED BY <2>1, OutcomeFacts DEF KnownEvents, MadeOnce, ReceiptsMatchQueue
<1>3. CASE t \notin Polling
  <2>1. x \notin seen
    BY <1>1, <1>3 DEF Batches
  <2> QED BY <2>1, OutcomeFacts DEF KnownEvents, MadeOnce, ReceiptsMatchQueue
<1> QED BY <1>2, <1>3

\* Every step of the tables is a step of the contract, or none.
LEMMA DeliveryStep == ASSUME Inductive, [Next]_vars PROVE [Delivery!Next]_([x \in Items |-> OutcomeOf(x)])
<1> DEFINE out == [x \in Items |-> OutcomeOf(x)]
<1> SUFFICES Delivery!Next \/ out' = out
  OBVIOUS
<1> USE DEF Inductive, TypeOK
<1>1. CASE UNCHANGED <<queuedAt, runs, seen, lost, forgotten>>
  BY <1>1 DEF OutcomeOf
<1>2. ASSUME NEW t \in Triggers, NEW x \in Items, NextItem(t, x), x[1] \in alive,
             receipt[x] = "none", Remember(x), UNCHANGED <<runs, forgotten>>,
             \/ queuedAt' = queuedAt
             \/ \E n \in Nat \ {0} : queuedAt' = [queuedAt EXCEPT ![x] = n]
      PROVE  Delivery!Next
  <2>1. out[x] \in Delivery!Unknown /\ queuedAt[x] = 0 /\ ~ (runs[x] > forgotten[x])
    BY <1>2, UnknownItem DEF Delivery!Unknown
  <2>2. \A y \in Items : y # x => out'[y] = out[y]
    BY <1>2 DEF OutcomeOf, Remember
  <2>3. x \in seen' /\ x \notin lost' /\ runs' = runs /\ forgotten' = forgotten
    BY <1>2 DEF Remember
  <2>4. CASE queuedAt' = queuedAt
    <3>1. out'[x] = "closed"
      BY <2>1, <2>3, <2>4 DEF OutcomeOf
    <3>2. out' = [out EXCEPT ![x] = "closed"]
      BY <2>2, <3>1
    <3>3. Delivery!Refuse(x)
      BY <2>1, <3>2 DEF Delivery!Refuse
    <3> QED BY <3>3 DEF Delivery!Next
  <2>5. CASE \E n \in Nat \ {0} : queuedAt' = [queuedAt EXCEPT ![x] = n]
    <3>1. out'[x] = "accepted"
      BY <2>5 DEF OutcomeOf
    <3>2. out' = [out EXCEPT ![x] = "accepted"]
      BY <2>2, <3>1
    <3>3. Delivery!Accept(x)
      BY <2>1, <3>2 DEF Delivery!Accept
    <3> QED BY <3>3 DEF Delivery!Next
  <2> QED BY <1>2, <2>4, <2>5
<1>3. ASSUME NEW t \in Triggers, NEW x \in Items, RejectItem(t, x)
      PROVE  Delivery!Next \/ out' = out
  <2>1. NextItem(t, x) /\ UNCHANGED <<queuedAt, runs, forgotten>>
    BY <1>3 DEF RejectItem
  <2>2. CASE x[1] \in alive /\ receipt[x] = "none"
    BY <1>2, <1>3, <2>1, <2>2 DEF RejectItem
  <2>3. CASE x[1] \notin alive
    BY <1>1, <1>3, <2>1, <2>3 DEF RejectItem
  <2>4. CASE x[1] \in alive /\ receipt[x] # "none"
    <3>1. x \in seen /\ x \notin lost
      BY <2>4 DEF KnownEvents
    <3>2. seen' = seen \cup {x} /\ lost' = lost \ {x}
      BY <1>3, <2>4 DEF RejectItem, Remember
    <3>3. seen' = seen /\ lost' = lost
      BY <3>1, <3>2
    <3> QED BY <1>1, <2>1, <3>3
  <2> QED BY <2>2, <2>3, <2>4
<1>4. ASSUME NEW t \in Triggers, NEW x \in Items, RecordItem(t, x)
      PROVE  Delivery!Next \/ out' = out
  <2>1. NextItem(t, x) /\ x[1] \in alive /\ UNCHANGED <<runs, forgotten>>
    BY <1>4 DEF RecordItem
  <2>2. CASE receipt[x] = "none"
    <3>1. \/ UNCHANGED <<queuedAt, seen, lost>>
          \/ queuedAt' = queuedAt /\ Remember(x)
          \/ queuedAt' = [queuedAt EXCEPT ![x] = clock] /\ Remember(x)
      BY <1>4, <2>2 DEF RecordItem
    <3> QED BY <1>1, <1>2, <2>1, <2>2, <3>1
  <2>3. CASE receipt[x] # "none"
    <3>1. UNCHANGED <<queuedAt, seen, lost>>
      BY <1>4, <2>3 DEF RecordItem
    <3> QED BY <1>1, <2>1, <3>1
  <2> QED BY <2>2, <2>3
<1>5. ASSUME NEW w \in Workflows, Promote(w) PROVE Delivery!Next \/ out' = out
  <2>1. UNCHANGED <<seen, lost, forgotten>>
    BY <1>5 DEF Promote
  <2>2. CASE UNCHANGED <<queuedAt, runs>>
    BY <1>1, <2>1, <2>2
  <2>3. ASSUME NEW z \in Items, queuedAt[z] # 0, queuedAt' = [queuedAt EXCEPT ![z] = 0],
               runs' = [runs EXCEPT ![z] = @ + 1]
        PROVE  Delivery!Next
    <3>1. out[z] = "accepted" /\ z \notin lost /\ runs[z] = forgotten[z]
      BY <2>3, OutcomeFacts
    <3>2. out'[z] = "delivered"
      BY <2>1, <2>3, <3>1, OutcomeFacts DEF OutcomeOf
    <3>3. \A y \in Items : y # z => out'[y] = out[y]
      BY <2>1, <2>3 DEF OutcomeOf
    <3>4. out' = [out EXCEPT ![z] = "delivered"]
      BY <3>2, <3>3
    <3>5. Delivery!Deliver(z)
      BY <3>1, <3>4 DEF Delivery!Deliver
    <3> QED BY <3>5 DEF Delivery!Next
  <2> QED BY <1>5, <2>2, <2>3 DEF Promote, Queued
<1>6. ASSUME NEW t \in Triggers, DeleteTrigger(t) PROVE Delivery!Next
  <2>1. /\ queuedAt' = [x \in Items |-> IF x[1] = t THEN 0 ELSE queuedAt[x]]
        /\ UNCHANGED <<runs, seen, lost, forgotten>>
    BY <1>6 DEF DeleteTrigger
  <2>2. ASSUME NEW x \in Items
        PROVE  out'[x] = out[x] \/ (out[x] = "accepted" /\ out'[x] = "closed")
    <3>1. CASE queuedAt'[x] = queuedAt[x]
      BY <2>1, <3>1 DEF OutcomeOf
    <3>2. CASE queuedAt'[x] = 0 /\ queuedAt[x] # 0
      BY <2>1, <3>2, OutcomeFacts DEF OutcomeOf
    <3> QED BY <2>1, <3>1, <3>2
  <2>3. out' \in [Items -> Delivery!Outcomes]
    BY DEF OutcomeOf, Delivery!Outcomes
  <2>4. Delivery!Withdraw
    BY <2>2, <2>3 DEF Delivery!Withdraw
  <2> QED BY <2>4 DEF Delivery!Next
<1>7. ASSUME NEW x \in Items, Prune(x) PROVE Delivery!Next \/ out' = out
  <2>1. /\ UNCHANGED <<queuedAt, runs, seen>>
        /\ queuedAt[x] = 0 /\ receipt[x] # "none" /\ x \in seen /\ x \notin lost
    BY <1>7 DEF Prune, KnownEvents
  <2>2. CASE ~ Returnable(x)
    BY <1>1, <1>7, <2>1, <2>2 DEF Prune
  <2>3. CASE Returnable(x)
    <3>1. /\ lost' = lost \cup {x}
          /\ \A y \in Items : y # x => forgotten'[y] = forgotten[y]
      BY <1>7, <2>3 DEF Prune
    <3>2. out[x] \in {"delivered", "closed"} /\ out'[x] = "forgotten"
      BY <2>1, <3>1 DEF OutcomeOf
    <3>3. \A y \in Items : y # x => out'[y] = out[y]
      BY <2>1, <3>1 DEF OutcomeOf
    <3>4. out' = [out EXCEPT ![x] = "forgotten"]
      BY <3>2, <3>3
    <3>5. Delivery!Forget(x)
      BY <3>2, <3>4 DEF Delivery!Forget
    <3> QED BY <3>5 DEF Delivery!Next
  <2> QED BY <2>2, <2>3
<1>8. CASE \E t \in Triggers : BeginSync(t) \/ SyncStep(t) \/ AbortSync(t)
  BY <1>1, <1>3, <1>4, <1>8 DEF SyncStep, BeginSync, Polled, Connected, SkipItem,
     Checkpoint, AbortSync, tables
<1>9. CASE \/ \E w \in Workflows : OtherRunStarts(w) \/ OtherRunEnds(w)
           \/ \E z \in Items : Launch(z) \/ RunEnds(z)
           \/ \E t \in Triggers, on \in BOOLEAN : SetEnabled(t, on)
           \/ ListPending \/ ListQueue \/ Crash \/ Recover \/ UNCHANGED vars
  BY <1>1, <1>9 DEF OtherRunStarts, OtherRunEnds, Launch, RunEnds,
     SetEnabled, ListPending, ListQueue, Crash, Recover, vars, tables
<1> QED BY <1>5, <1>6, <1>7, <1>8, <1>9 DEF Next

\* The tables implement the delivery contract: an event is accepted at most
\* once for each time retention makes it unknown, then makes one run or is
\* withdrawn with its trigger.
THEOREM TablesImplementDelivery == Spec => ImplementsDelivery
<1>1. Init => Delivery!Init
  BY DEF Init, Delivery!Init, OutcomeOf
<1> QED BY <1>1, DeliveryStep, AppEventsInductive, PTL DEF Spec, ImplementsDelivery, Delivery!Spec
=============================================================================
