------------------------- MODULE AppEventLoopProofs -------------------------
(***************************************************************************)
(* The invariants of AppEventLoop for any triggers, feeds, permits and     *)
(* number of trigger writes, with reloads that succeed or fail.            *)
(***************************************************************************)
EXTENDS AppEventLoop, TLAPS

\* Every action keeps every variable in its type.
LEMMA TypeOKStep == ASSUME Inductive, [Next]_vars PROVE TypeOK'
<1> USE AppEventLoopConstants DEF Inductive, dbVars, writeVars, idleVars, tickVars, taskVars
<1>1. ASSUME NEW t \in Triggers, NEW on \in BOOLEAN, WriteTrigger(t, on) PROVE TypeOK'
  BY <1>1 DEF TypeOK, WriteTrigger
<1>2. CASE Reload
  BY <1>2 DEF TypeOK, Reload
<1>3. CASE ResetAdapters
  BY <1>3 DEF TypeOK, ResetAdapters
<1>4. CASE Disconnect
  BY <1>4 DEF TypeOK, Disconnect
<1>5. CASE SkipScan
  BY <1>5 DEF TypeOK, SkipScan
<1>6. CASE BeginScan
  BY <1>6 DEF TypeOK, BeginScan
<1>7. CASE ReadTriggers
  BY <1>7 DEF TypeOK, ReadTriggers
<1>8. CASE NoteScan
  BY <1>8 DEF TypeOK, NoteScan
<1>9. CASE EndTick
  BY <1>9 DEF TypeOK, EndTick
<1>10. ASSUME NEW t \in Triggers, PassOver(t) PROVE TypeOK'
  BY <1>10 DEF TypeOK, PassOver
<1>11. ASSUME NEW t \in Triggers, Spawn(t) PROVE TypeOK'
  BY <1>11 DEF TypeOK, Spawn
<1>12. ASSUME NEW t \in Triggers, GiveUp(t) PROVE TypeOK'
  BY <1>12 DEF TypeOK, GiveUp, Finish
<1>13. ASSUME NEW t \in Triggers, Connect(t) PROVE TypeOK'
  BY <1>13 DEF TypeOK, Connect
<1>14. ASSUME NEW t \in Triggers, EndSync(t) PROVE TypeOK'
  BY <1>14 DEF TypeOK, EndSync, Finish
<1>15. ASSUME NEW t \in Triggers, BecomeDue(t) PROVE TypeOK'
  BY <1>15 DEF TypeOK, BecomeDue
<1>16. CASE ReloadFails
  BY <1>16 DEF TypeOK, ReloadFails
<1>17. CASE CancelTasks
  BY <1>17 DEF TypeOK, CancelTasks
<1>18. CASE UNCHANGED vars
  BY <1>18 DEF vars, TypeOK
<1> QED BY <1>1, <1>2, <1>3, <1>4, <1>5, <1>6, <1>7, <1>8, <1>9, <1>10, <1>11, <1>12, <1>13, <1>14, <1>15, <1>16, <1>17,
           <1>18 DEF Next

\* begin and finish bracket the task; reload only marks what is in flight.
LEMMA InFlightIsTasksStep == ASSUME Inductive, [Next]_vars PROVE InFlightIsTasks'
<1> USE AppEventLoopConstants DEF Inductive, dbVars, writeVars, idleVars, tickVars, taskVars
<1>1. ASSUME NEW t \in Triggers, NEW on \in BOOLEAN, WriteTrigger(t, on) PROVE InFlightIsTasks'
  BY <1>1 DEF InFlightIsTasks, WriteTrigger
<1>2. CASE Reload
  BY <1>2 DEF InFlightIsTasks, Reload
<1>3. CASE ResetAdapters
  BY <1>3 DEF InFlightIsTasks, ResetAdapters
<1>4. CASE Disconnect
  BY <1>4 DEF InFlightIsTasks, Disconnect
<1>5. CASE SkipScan
  BY <1>5 DEF InFlightIsTasks, SkipScan
<1>6. CASE BeginScan
  BY <1>6 DEF InFlightIsTasks, BeginScan
<1>7. CASE ReadTriggers
  BY <1>7 DEF InFlightIsTasks, ReadTriggers
<1>8. CASE NoteScan
  BY <1>8 DEF InFlightIsTasks, NoteScan
<1>9. CASE EndTick
  BY <1>9 DEF InFlightIsTasks, EndTick
<1>10. ASSUME NEW t \in Triggers, PassOver(t) PROVE InFlightIsTasks'
  BY <1>10 DEF InFlightIsTasks, PassOver
<1>11. ASSUME NEW t \in Triggers, Spawn(t) PROVE InFlightIsTasks'
  BY <1>11 DEF InFlightIsTasks, Spawn, TypeOK
<1>12. ASSUME NEW t \in Triggers, GiveUp(t) PROVE InFlightIsTasks'
  BY <1>12 DEF InFlightIsTasks, GiveUp, Finish, TypeOK
<1>13. ASSUME NEW t \in Triggers, Connect(t) PROVE InFlightIsTasks'
  BY <1>13 DEF InFlightIsTasks, Connect
<1>14. ASSUME NEW t \in Triggers, EndSync(t) PROVE InFlightIsTasks'
  BY <1>14 DEF InFlightIsTasks, EndSync, Finish, TypeOK
<1>15. ASSUME NEW t \in Triggers, BecomeDue(t) PROVE InFlightIsTasks'
  BY <1>15 DEF InFlightIsTasks, BecomeDue
<1>16. CASE ReloadFails
  BY <1>16 DEF InFlightIsTasks, ReloadFails
<1>17. CASE CancelTasks
  BY <1>17 DEF InFlightIsTasks, CancelTasks
<1>18. CASE UNCHANGED vars
  BY <1>18 DEF vars, InFlightIsTasks
<1> QED BY <1>1, <1>2, <1>3, <1>4, <1>5, <1>6, <1>7, <1>8, <1>9, <1>10, <1>11, <1>12, <1>13, <1>14, <1>15, <1>16, <1>17,
           <1>18 DEF Next

\* Only note_scan fills the cache, and a write or the reload after it outdates it.
LEMMA IdleCacheIsTrueStep == ASSUME Inductive, [Next]_vars PROVE IdleCacheIsTrue'
<1> USE AppEventLoopConstants DEF Inductive, dbVars, writeVars, idleVars, tickVars, taskVars
<1>1. ASSUME NEW t \in Triggers, NEW on \in BOOLEAN, WriteTrigger(t, on) PROVE IdleCacheIsTrue'
  BY <1>1 DEF IdleCacheIsTrue, WriteTrigger
<1>2. CASE Reload
  BY <1>2 DEF IdleCacheIsTrue, Reload, ScanIsHonest
<1>3. CASE ResetAdapters
  BY <1>3 DEF IdleCacheIsTrue, ResetAdapters
<1>4. CASE Disconnect
  BY <1>4 DEF IdleCacheIsTrue, Disconnect
<1>5. CASE SkipScan
  BY <1>5 DEF IdleCacheIsTrue, SkipScan
<1>6. CASE BeginScan
  BY <1>6 DEF IdleCacheIsTrue, BeginScan
<1>7. CASE ReadTriggers
  BY <1>7 DEF IdleCacheIsTrue, ReadTriggers
<1>8. CASE NoteScan
  BY <1>8 DEF IdleCacheIsTrue, NoteScan, TypeOK, ScanIsHonest
<1>9. CASE EndTick
  BY <1>9 DEF IdleCacheIsTrue, EndTick
<1>10. ASSUME NEW t \in Triggers, PassOver(t) PROVE IdleCacheIsTrue'
  BY <1>10 DEF IdleCacheIsTrue, PassOver
<1>11. ASSUME NEW t \in Triggers, Spawn(t) PROVE IdleCacheIsTrue'
  BY <1>11 DEF IdleCacheIsTrue, Spawn
<1>12. ASSUME NEW t \in Triggers, GiveUp(t) PROVE IdleCacheIsTrue'
  BY <1>12 DEF IdleCacheIsTrue, GiveUp
<1>13. ASSUME NEW t \in Triggers, Connect(t) PROVE IdleCacheIsTrue'
  BY <1>13 DEF IdleCacheIsTrue, Connect
<1>14. ASSUME NEW t \in Triggers, EndSync(t) PROVE IdleCacheIsTrue'
  BY <1>14 DEF IdleCacheIsTrue, EndSync
<1>15. ASSUME NEW t \in Triggers, BecomeDue(t) PROVE IdleCacheIsTrue'
  BY <1>15 DEF IdleCacheIsTrue, BecomeDue
<1>16. CASE ReloadFails
  BY <1>16 DEF IdleCacheIsTrue, ReloadFails
<1>17. CASE CancelTasks
  BY <1>17 DEF IdleCacheIsTrue, CancelTasks
<1>18. CASE UNCHANGED vars
  BY <1>18 DEF vars, IdleCacheIsTrue
<1> QED BY <1>1, <1>2, <1>3, <1>4, <1>5, <1>6, <1>7, <1>8, <1>9, <1>10, <1>11, <1>12, <1>13, <1>14, <1>15, <1>16, <1>17,
           <1>18 DEF Next

\* A reload cancels all that is in flight in the step after the one that makes it old.
LEMMA OldTasksAreCancelledStep == ASSUME Inductive, [Next]_vars PROVE OldTasksAreCancelled'
<1> USE AppEventLoopConstants DEF Inductive, dbVars, writeVars, idleVars, tickVars, taskVars
<1>1. ASSUME NEW t \in Triggers, NEW on \in BOOLEAN, WriteTrigger(t, on) PROVE OldTasksAreCancelled'
  BY <1>1 DEF OldTasksAreCancelled, WriteTrigger
<1>2. CASE Reload
  BY <1>2 DEF OldTasksAreCancelled, Reload, InFlightIsTasks
<1>3. CASE ResetAdapters
  BY <1>3 DEF OldTasksAreCancelled, ResetAdapters
<1>4. CASE Disconnect
  BY <1>4 DEF OldTasksAreCancelled, Disconnect
<1>5. CASE SkipScan
  BY <1>5 DEF OldTasksAreCancelled, SkipScan
<1>6. CASE BeginScan
  BY <1>6 DEF OldTasksAreCancelled, BeginScan
<1>7. CASE ReadTriggers
  BY <1>7 DEF OldTasksAreCancelled, ReadTriggers
<1>8. CASE NoteScan
  BY <1>8 DEF OldTasksAreCancelled, NoteScan
<1>9. CASE EndTick
  BY <1>9 DEF OldTasksAreCancelled, EndTick
<1>10. ASSUME NEW t \in Triggers, PassOver(t) PROVE OldTasksAreCancelled'
  BY <1>10 DEF OldTasksAreCancelled, PassOver
<1>11. ASSUME NEW t \in Triggers, Spawn(t) PROVE OldTasksAreCancelled'
  BY <1>11 DEF OldTasksAreCancelled, Spawn
<1>12. ASSUME NEW t \in Triggers, GiveUp(t) PROVE OldTasksAreCancelled'
  BY <1>12 DEF OldTasksAreCancelled, GiveUp, Finish
<1>13. ASSUME NEW t \in Triggers, Connect(t) PROVE OldTasksAreCancelled'
  BY <1>13 DEF OldTasksAreCancelled, Connect
<1>14. ASSUME NEW t \in Triggers, EndSync(t) PROVE OldTasksAreCancelled'
  BY <1>14 DEF OldTasksAreCancelled, EndSync, Finish, TypeOK
<1>15. ASSUME NEW t \in Triggers, BecomeDue(t) PROVE OldTasksAreCancelled'
  BY <1>15 DEF OldTasksAreCancelled, BecomeDue
<1>16. CASE ReloadFails
  BY <1>16 DEF OldTasksAreCancelled, ReloadFails
<1>17. CASE CancelTasks
  BY <1>17 DEF OldTasksAreCancelled, CancelTasks, InFlightIsTasks
<1>18. CASE UNCHANGED vars
  BY <1>18 DEF vars, OldTasksAreCancelled
<1> QED BY <1>1, <1>2, <1>3, <1>4, <1>5, <1>6, <1>7, <1>8, <1>9, <1>10, <1>11, <1>12, <1>13, <1>14, <1>15, <1>16, <1>17,
           <1>18 DEF Next

\* An empty list read under the current revision is true until the next write.
LEMMA ScanIsHonestStep == ASSUME Inductive, [Next]_vars PROVE ScanIsHonest'
<1> USE AppEventLoopConstants DEF Inductive, dbVars, writeVars, idleVars, tickVars, taskVars
<1>1. ASSUME NEW t \in Triggers, NEW on \in BOOLEAN, WriteTrigger(t, on) PROVE ScanIsHonest'
  BY <1>1 DEF ScanIsHonest, WriteTrigger
<1>2. CASE Reload
  BY <1>2 DEF ScanIsHonest, Reload, TypeOK
<1>3. CASE ResetAdapters
  BY <1>3 DEF ScanIsHonest, ResetAdapters
<1>4. CASE Disconnect
  BY <1>4 DEF ScanIsHonest, Disconnect
<1>5. CASE SkipScan
  BY <1>5 DEF ScanIsHonest, SkipScan
<1>6. CASE BeginScan
  BY <1>6 DEF ScanIsHonest, BeginScan, TypeOK
<1>7. CASE ReadTriggers
  BY <1>7 DEF ScanIsHonest, ReadTriggers
<1>8. CASE NoteScan
  BY <1>8 DEF ScanIsHonest, NoteScan, TypeOK
<1>9. CASE EndTick
  BY <1>9 DEF ScanIsHonest, EndTick
<1>10. ASSUME NEW t \in Triggers, PassOver(t) PROVE ScanIsHonest'
  BY <1>10 DEF ScanIsHonest, PassOver
<1>11. ASSUME NEW t \in Triggers, Spawn(t) PROVE ScanIsHonest'
  BY <1>11 DEF ScanIsHonest, Spawn
<1>12. ASSUME NEW t \in Triggers, GiveUp(t) PROVE ScanIsHonest'
  BY <1>12 DEF ScanIsHonest, GiveUp
<1>13. ASSUME NEW t \in Triggers, Connect(t) PROVE ScanIsHonest'
  BY <1>13 DEF ScanIsHonest, Connect
<1>14. ASSUME NEW t \in Triggers, EndSync(t) PROVE ScanIsHonest'
  BY <1>14 DEF ScanIsHonest, EndSync
<1>15. ASSUME NEW t \in Triggers, BecomeDue(t) PROVE ScanIsHonest'
  BY <1>15 DEF ScanIsHonest, BecomeDue
<1>16. CASE ReloadFails
  BY <1>16 DEF ScanIsHonest, ReloadFails
<1>17. CASE CancelTasks
  BY <1>17 DEF ScanIsHonest, CancelTasks
<1>18. CASE UNCHANGED vars
  BY <1>18 DEF vars, ScanIsHonest
<1> QED BY <1>1, <1>2, <1>3, <1>4, <1>5, <1>6, <1>7, <1>8, <1>9, <1>10, <1>11, <1>12, <1>13, <1>14, <1>15, <1>16, <1>17,
           <1>18 DEF Next

\* Nothing is enabled, in flight or cached when the process starts.
LEMMA InductiveInit == Init => Inductive
  BY AppEventLoopConstants DEF Init, Inductive, TypeOK, InFlightIsTasks, IdleCacheIsTrue,
     OldTasksAreCancelled, ScanIsHonest

\* Inductive is an invariant of the loop.
THEOREM LoopInductive == Spec => []Inductive
<1>1. Inductive /\ [Next]_vars => Inductive'
  BY TypeOKStep, InFlightIsTasksStep, IdleCacheIsTrueStep, OldTasksAreCancelledStep,
     ScanIsHonestStep DEF Inductive
<1> QED BY <1>1, InductiveInit, PTL DEF Spec

\* Type correctness of the loop: what is scheduled, in flight or cancelled is a
\* trigger, and the idle cache skips at most RescanTicks scans in a row.
THEOREM LoopTypeOK == Spec => []TypeOK
  BY LoopInductive, PTL DEF Inductive

\* No sync leaks from in_flight and no trigger is synced by two tasks at once.
THEOREM NothingLeaks == Spec => []InFlightIsTasks
  BY LoopInductive, PTL DEF Inductive

\* A reload that lands in the middle of a scan never leaves a wrong idle answer;
\* one that fails leaves an outdated one, and nothing else does.
THEOREM IdleCacheIsSound == Spec => []IdleCacheIsTrue
  BY LoopInductive, PTL DEF Inductive

\* No sync from before a reload goes on uncancelled once the reload has run.
THEOREM ReloadReachesEveryTask == Spec => []OldTasksAreCancelled
  BY LoopInductive, PTL DEF Inductive
=============================================================================
