---------------------------- MODULE RunnerProofs ----------------------------
(* Proofs of Runner's invariants, for every set of workflows, runs, starting *)
(* and cancelling threads and every bound on nodes and crashes.              *)
EXTENDS Runner, TLAPS

\* Every step keeps the types; a completed step stays below the graph's length
\* because a step is only begun below it (Progress).
LEMMA TypeOKStep == Inductive /\ Next => TypeOK'
<1> SUFFICES ASSUME Inductive, Next PROVE TypeOK'
  OBVIOUS
<1> USE RunnerConstants DEF Inductive, vars, dbVars, threadVars, threadOnly, Callers, Idle,
        Statuses, ThreadPcs, Finished
<1>1. ASSUME NEW s \in Callers, NEW w \in Workflows, StartCheck(s, w) PROVE TypeOK'
  BY <1>1 DEF StartCheck, TypeOK
<1>2. ASSUME NEW s \in Callers, EnqueueRun(s) PROVE TypeOK'
  BY <1>2 DEF EnqueueRun, TypeOK
<1>3. ASSUME NEW s \in Callers, Register(s) PROVE TypeOK'
  BY <1>3 DEF Register, TypeOK, Progress, StartersHoldOwnRuns, AppLoopHoldsFreshRun
<1>4. ASSUME NEW w \in Workflows, PromoteAppEvent(w) PROVE TypeOK'
  BY <1>4 DEF PromoteAppEvent, TypeOK
<1>5. ASSUME NEW r \in Runs, RelistPending(r) PROVE TypeOK'
  BY <1>5 DEF RelistPending, TypeOK
<1>6. CASE PendingSlotCheck
  BY <1>6 DEF PendingSlotCheck, TypeOK
<1>7. CASE PendingStatusCheck
  BY <1>7 DEF PendingStatusCheck, TypeOK
<1>8. CASE RecoverInterrupted
  BY <1>8 DEF RecoverInterrupted, TypeOK
<1>9. ASSUME NEW r \in Runs, LoadWorkflow(r) PROVE TypeOK'
  <2>1. total' \in [Runs -> 0..MaxNodes]
    BY <1>9 DEF LoadWorkflow, TypeOK
  <2>2. thread' \in [Runs -> ThreadPcs]
    BY <1>9 DEF LoadWorkflow, TypeOK
  <2>3. errored' \in [Runs -> BOOLEAN]
    <3>1. errored' = errored \/ errored' = [errored EXCEPT ![r] = TRUE]
      BY <1>9 DEF LoadWorkflow
    <3> QED
      BY <3>1 DEF TypeOK
  <2> QED
    BY <2>1, <2>2, <2>3, <1>9 DEF LoadWorkflow, TypeOK
<1>10. ASSUME NEW r \in Runs, MarkRunning(r) PROVE TypeOK'
  BY <1>10 DEF MarkRunning, SetStatus, TypeOK
<1>11. ASSUME NEW r \in Runs, EnterLoop(r) PROVE TypeOK'
  BY <1>11 DEF EnterLoop, SetStatus, TypeOK
<1>12. ASSUME NEW r \in Runs, ObserveCancel(r) PROVE TypeOK'
  BY <1>12 DEF ObserveCancel, SetStatus, TypeOK
<1>13. ASSUME NEW r \in Runs, BeginStep(r) PROVE TypeOK'
  BY <1>13 DEF BeginStep, TypeOK
<1>14. ASSUME NEW r \in Runs, StepCompleted(r) PROVE TypeOK'
  <2>1. done[r] + 1 \in 0..MaxNodes
    BY <1>14 DEF StepCompleted, TypeOK, Progress
  <2>2. done' \in [Runs -> 0..MaxNodes]
    BY <1>14, <2>1 DEF StepCompleted, TypeOK
  <2>3. thread' \in [Runs -> ThreadPcs] /\ errored' \in [Runs -> BOOLEAN]
    BY <1>14 DEF StepCompleted, TypeOK
  <2> QED
    BY <2>1, <2>2, <2>3, <1>14 DEF StepCompleted, TypeOK
<1>15. ASSUME NEW r \in Runs, InputScriptTimedOut(r) PROVE TypeOK'
  BY <1>15 DEF InputScriptTimedOut, TypeOK, Progress
<1>16. ASSUME NEW r \in Runs, StepFailed(r) PROVE TypeOK'
  <2>1. PICK b \in {cancelFlag[r], TRUE} : cancelFlag' = [cancelFlag EXCEPT ![r] = b]
    BY <1>16 DEF StepFailed
  <2>2. b \in BOOLEAN
    BY DEF TypeOK
  <2>3. cancelFlag' \in [Runs -> BOOLEAN]
    BY <2>1, <2>2 DEF TypeOK
  <2>4. thread' \in [Runs -> ThreadPcs]
    BY <1>16 DEF StepFailed, TypeOK
  <2>5. errored' \in [Runs -> BOOLEAN]
    <3>1. errored' = errored \/ errored' = [errored EXCEPT ![r] = TRUE]
      BY <1>16 DEF StepFailed
    <3> QED
      BY <3>1 DEF TypeOK
  <2> QED
    BY <2>3, <2>4, <2>5, <1>16 DEF StepFailed, TypeOK
<1>17. ASSUME NEW r \in Runs, StepCancelled(r) PROVE TypeOK'
  BY <1>17 DEF StepCancelled, TypeOK
<1>18. ASSUME NEW r \in Runs, MarkFailed(r) PROVE TypeOK'
  BY <1>18 DEF MarkFailed, SetStatus, TypeOK
<1>19. ASSUME NEW r \in Runs, MarkCancelled(r) PROVE TypeOK'
  BY <1>19 DEF MarkCancelled, SetStatus, TypeOK
<1>20. ASSUME NEW r \in Runs, MarkCompleted(r) PROVE TypeOK'
  BY <1>20 DEF MarkCompleted, SetStatus, TypeOK
<1>21. ASSUME NEW r \in Runs, ScheduleReview(r) PROVE TypeOK'
  BY <1>21 DEF ScheduleReview, TypeOK
<1>22. ASSUME NEW r \in Runs, ExecError(r) PROVE TypeOK'
  BY <1>22 DEF ExecError, TypeOK
<1>23. ASSUME NEW r \in Runs, Unregister(r) PROVE TypeOK'
  BY <1>23 DEF Unregister, TypeOK
<1>24. ASSUME NEW c \in Cancellers, NEW r \in Runs, RequestCancel(c, r) PROVE TypeOK'
  BY <1>24 DEF RequestCancel, TypeOK
<1>25. ASSUME NEW c \in Cancellers, MarkCancelRequested(c) PROVE TypeOK'
  BY <1>25 DEF MarkCancelRequested, SetStatus, TypeOK
<1>26. ASSUME NEW w \in Workflows, DeleteWorkflow(w) PROVE TypeOK'
  BY <1>26 DEF DeleteWorkflow, TypeOK
<1>27. CASE Crash
  <2>1. starter' \in [Callers -> [pc : {"idle", "listed", "checked", "inserted"},
                                  wf : Workflows \cup {NoWorkflow}, run : Runs \cup {NoRun}]]
    BY <1>27 DEF Crash, TypeOK
  <2>2. crashes' \in 0..MaxCrashes
    BY <1>27 DEF Crash, TypeOK
  <2>3. thread' \in [Runs -> ThreadPcs] /\ canceller' \in [Cancellers -> Runs \cup {NoRun}]
    BY <1>27 DEF Crash, TypeOK
  <2> QED
    BY <2>1, <2>2, <2>3, <1>27 DEF Crash, TypeOK
<1> QED
  BY <1>1, <1>2, <1>3, <1>4, <1>5, <1>6, <1>7, <1>8, <1>9, <1>10, <1>11, <1>12, <1>13, <1>14, <1>15, <1>16, <1>17, <1>18, <1>19, <1>20, <1>21, <1>22, <1>23, <1>24, <1>25, <1>26, <1>27 DEF Next, CallerStep, AppLoopStep, ThreadStep, CancelStep

\* Register and Unregister move the registry and the thread together.
LEMMA RegistryIsLiveThreadsStep == Inductive /\ Next => RegistryIsLiveThreads'
<1> SUFFICES ASSUME Inductive, Next PROVE RegistryIsLiveThreads'
  OBVIOUS
<1> USE RunnerConstants DEF Inductive, vars, dbVars, threadVars, threadOnly, Callers, Idle,
        Statuses, ThreadPcs, Finished
<1>1. ASSUME NEW s \in Callers, NEW w \in Workflows, StartCheck(s, w) PROVE RegistryIsLiveThreads'
  BY <1>1 DEF StartCheck, RegistryIsLiveThreads, TypeOK
<1>2. ASSUME NEW s \in Callers, EnqueueRun(s) PROVE RegistryIsLiveThreads'
  BY <1>2 DEF EnqueueRun, RegistryIsLiveThreads, TypeOK
<1>3. ASSUME NEW s \in Callers, Register(s) PROVE RegistryIsLiveThreads'
  BY <1>3 DEF Register, RegistryIsLiveThreads, TypeOK, StartersHoldOwnRuns, AppLoopHoldsFreshRun
<1>4. ASSUME NEW w \in Workflows, PromoteAppEvent(w) PROVE RegistryIsLiveThreads'
  BY <1>4 DEF PromoteAppEvent, RegistryIsLiveThreads, TypeOK
<1>5. ASSUME NEW r \in Runs, RelistPending(r) PROVE RegistryIsLiveThreads'
  BY <1>5 DEF RelistPending, RegistryIsLiveThreads, TypeOK
<1>6. CASE PendingSlotCheck
  BY <1>6 DEF PendingSlotCheck, RegistryIsLiveThreads, TypeOK
<1>7. CASE PendingStatusCheck
  BY <1>7 DEF PendingStatusCheck, RegistryIsLiveThreads, TypeOK
<1>8. CASE RecoverInterrupted
  BY <1>8 DEF RecoverInterrupted, RegistryIsLiveThreads, TypeOK
<1>9. ASSUME NEW r \in Runs, LoadWorkflow(r) PROVE RegistryIsLiveThreads'
  BY <1>9 DEF LoadWorkflow, RegistryIsLiveThreads, TypeOK
<1>10. ASSUME NEW r \in Runs, MarkRunning(r) PROVE RegistryIsLiveThreads'
  BY <1>10 DEF MarkRunning, SetStatus, RegistryIsLiveThreads, TypeOK
<1>11. ASSUME NEW r \in Runs, EnterLoop(r) PROVE RegistryIsLiveThreads'
  BY <1>11 DEF EnterLoop, SetStatus, RegistryIsLiveThreads, TypeOK
<1>12. ASSUME NEW r \in Runs, ObserveCancel(r) PROVE RegistryIsLiveThreads'
  BY <1>12 DEF ObserveCancel, SetStatus, RegistryIsLiveThreads, TypeOK
<1>13. ASSUME NEW r \in Runs, BeginStep(r) PROVE RegistryIsLiveThreads'
  BY <1>13 DEF BeginStep, RegistryIsLiveThreads, TypeOK
<1>14. ASSUME NEW r \in Runs, StepCompleted(r) PROVE RegistryIsLiveThreads'
  BY <1>14 DEF StepCompleted, RegistryIsLiveThreads, TypeOK
<1>15. ASSUME NEW r \in Runs, InputScriptTimedOut(r) PROVE RegistryIsLiveThreads'
  BY <1>15 DEF InputScriptTimedOut, RegistryIsLiveThreads, TypeOK
<1>16. ASSUME NEW r \in Runs, StepFailed(r) PROVE RegistryIsLiveThreads'
  BY <1>16 DEF StepFailed, RegistryIsLiveThreads, TypeOK
<1>17. ASSUME NEW r \in Runs, StepCancelled(r) PROVE RegistryIsLiveThreads'
  BY <1>17 DEF StepCancelled, RegistryIsLiveThreads, TypeOK
<1>18. ASSUME NEW r \in Runs, MarkFailed(r) PROVE RegistryIsLiveThreads'
  BY <1>18 DEF MarkFailed, SetStatus, RegistryIsLiveThreads, TypeOK
<1>19. ASSUME NEW r \in Runs, MarkCancelled(r) PROVE RegistryIsLiveThreads'
  BY <1>19 DEF MarkCancelled, SetStatus, RegistryIsLiveThreads, TypeOK
<1>20. ASSUME NEW r \in Runs, MarkCompleted(r) PROVE RegistryIsLiveThreads'
  BY <1>20 DEF MarkCompleted, SetStatus, RegistryIsLiveThreads, TypeOK
<1>21. ASSUME NEW r \in Runs, ScheduleReview(r) PROVE RegistryIsLiveThreads'
  BY <1>21 DEF ScheduleReview, RegistryIsLiveThreads, TypeOK
<1>22. ASSUME NEW r \in Runs, ExecError(r) PROVE RegistryIsLiveThreads'
  BY <1>22 DEF ExecError, RegistryIsLiveThreads, TypeOK
<1>23. ASSUME NEW r \in Runs, Unregister(r) PROVE RegistryIsLiveThreads'
  BY <1>23 DEF Unregister, RegistryIsLiveThreads, TypeOK
<1>24. ASSUME NEW c \in Cancellers, NEW r \in Runs, RequestCancel(c, r) PROVE RegistryIsLiveThreads'
  BY <1>24 DEF RequestCancel, RegistryIsLiveThreads, TypeOK
<1>25. ASSUME NEW c \in Cancellers, MarkCancelRequested(c) PROVE RegistryIsLiveThreads'
  BY <1>25 DEF MarkCancelRequested, SetStatus, RegistryIsLiveThreads, TypeOK
<1>26. ASSUME NEW w \in Workflows, DeleteWorkflow(w) PROVE RegistryIsLiveThreads'
  BY <1>26 DEF DeleteWorkflow, RegistryIsLiveThreads, TypeOK
<1>27. CASE Crash
  BY <1>27 DEF Crash, RegistryIsLiveThreads, TypeOK
<1> QED
  BY <1>1, <1>2, <1>3, <1>4, <1>5, <1>6, <1>7, <1>8, <1>9, <1>10, <1>11, <1>12, <1>13, <1>14, <1>15, <1>16, <1>17, <1>18, <1>19, <1>20, <1>21, <1>22, <1>23, <1>24, <1>25, <1>26, <1>27 DEF Next, CallerStep, AppLoopStep, ThreadStep, CancelStep

\* Only MarkRunning counts up, and it starts from a run that never ran.
LEMMA ExecutedOnceStep == Inductive /\ Next => ExecutedOnce'
<1> SUFFICES ASSUME Inductive, Next PROVE ExecutedOnce'
  OBVIOUS
<1> USE RunnerConstants DEF Inductive, vars, dbVars, threadVars, threadOnly, Callers, Idle,
        Statuses, ThreadPcs, Finished
<1>1. ASSUME NEW s \in Callers, NEW w \in Workflows, StartCheck(s, w) PROVE ExecutedOnce'
  BY <1>1 DEF StartCheck, ExecutedOnce, TypeOK
<1>2. ASSUME NEW s \in Callers, EnqueueRun(s) PROVE ExecutedOnce'
  BY <1>2 DEF EnqueueRun, ExecutedOnce, TypeOK
<1>3. ASSUME NEW s \in Callers, Register(s) PROVE ExecutedOnce'
  BY <1>3 DEF Register, ExecutedOnce, TypeOK
<1>4. ASSUME NEW w \in Workflows, PromoteAppEvent(w) PROVE ExecutedOnce'
  BY <1>4 DEF PromoteAppEvent, ExecutedOnce, TypeOK
<1>5. ASSUME NEW r \in Runs, RelistPending(r) PROVE ExecutedOnce'
  BY <1>5 DEF RelistPending, ExecutedOnce, TypeOK
<1>6. CASE PendingSlotCheck
  BY <1>6 DEF PendingSlotCheck, ExecutedOnce, TypeOK
<1>7. CASE PendingStatusCheck
  BY <1>7 DEF PendingStatusCheck, ExecutedOnce, TypeOK
<1>8. CASE RecoverInterrupted
  BY <1>8 DEF RecoverInterrupted, ExecutedOnce, TypeOK
<1>9. ASSUME NEW r \in Runs, LoadWorkflow(r) PROVE ExecutedOnce'
  BY <1>9 DEF LoadWorkflow, ExecutedOnce, TypeOK
<1>10. ASSUME NEW r \in Runs, MarkRunning(r) PROVE ExecutedOnce'
  BY <1>10 DEF MarkRunning, SetStatus, ExecutedOnce, TypeOK, ThreadsOfRows
<1>11. ASSUME NEW r \in Runs, EnterLoop(r) PROVE ExecutedOnce'
  BY <1>11 DEF EnterLoop, SetStatus, ExecutedOnce, TypeOK
<1>12. ASSUME NEW r \in Runs, ObserveCancel(r) PROVE ExecutedOnce'
  BY <1>12 DEF ObserveCancel, SetStatus, ExecutedOnce, TypeOK
<1>13. ASSUME NEW r \in Runs, BeginStep(r) PROVE ExecutedOnce'
  BY <1>13 DEF BeginStep, ExecutedOnce, TypeOK
<1>14. ASSUME NEW r \in Runs, StepCompleted(r) PROVE ExecutedOnce'
  BY <1>14 DEF StepCompleted, ExecutedOnce, TypeOK
<1>15. ASSUME NEW r \in Runs, InputScriptTimedOut(r) PROVE ExecutedOnce'
  BY <1>15 DEF InputScriptTimedOut, ExecutedOnce, TypeOK
<1>16. ASSUME NEW r \in Runs, StepFailed(r) PROVE ExecutedOnce'
  BY <1>16 DEF StepFailed, ExecutedOnce, TypeOK
<1>17. ASSUME NEW r \in Runs, StepCancelled(r) PROVE ExecutedOnce'
  BY <1>17 DEF StepCancelled, ExecutedOnce, TypeOK
<1>18. ASSUME NEW r \in Runs, MarkFailed(r) PROVE ExecutedOnce'
  BY <1>18 DEF MarkFailed, SetStatus, ExecutedOnce, TypeOK
<1>19. ASSUME NEW r \in Runs, MarkCancelled(r) PROVE ExecutedOnce'
  BY <1>19 DEF MarkCancelled, SetStatus, ExecutedOnce, TypeOK
<1>20. ASSUME NEW r \in Runs, MarkCompleted(r) PROVE ExecutedOnce'
  BY <1>20 DEF MarkCompleted, SetStatus, ExecutedOnce, TypeOK
<1>21. ASSUME NEW r \in Runs, ScheduleReview(r) PROVE ExecutedOnce'
  BY <1>21 DEF ScheduleReview, ExecutedOnce, TypeOK
<1>22. ASSUME NEW r \in Runs, ExecError(r) PROVE ExecutedOnce'
  BY <1>22 DEF ExecError, ExecutedOnce, TypeOK
<1>23. ASSUME NEW r \in Runs, Unregister(r) PROVE ExecutedOnce'
  BY <1>23 DEF Unregister, ExecutedOnce, TypeOK
<1>24. ASSUME NEW c \in Cancellers, NEW r \in Runs, RequestCancel(c, r) PROVE ExecutedOnce'
  BY <1>24 DEF RequestCancel, ExecutedOnce, TypeOK
<1>25. ASSUME NEW c \in Cancellers, MarkCancelRequested(c) PROVE ExecutedOnce'
  BY <1>25 DEF MarkCancelRequested, SetStatus, ExecutedOnce, TypeOK
<1>26. ASSUME NEW w \in Workflows, DeleteWorkflow(w) PROVE ExecutedOnce'
  BY <1>26 DEF DeleteWorkflow, ExecutedOnce, TypeOK
<1>27. CASE Crash
  BY <1>27 DEF Crash, ExecutedOnce, TypeOK
<1> QED
  BY <1>1, <1>2, <1>3, <1>4, <1>5, <1>6, <1>7, <1>8, <1>9, <1>10, <1>11, <1>12, <1>13, <1>14, <1>15, <1>16, <1>17, <1>18, <1>19, <1>20, <1>21, <1>22, <1>23, <1>24, <1>25, <1>26, <1>27 DEF Next, CallerStep, AppLoopStep, ThreadStep, CancelStep

\* A launch takes a run that has a row and never ran.
LEMMA ThreadsOfRowsStep == Inductive /\ Next => ThreadsOfRows'
<1> SUFFICES ASSUME Inductive, Next PROVE ThreadsOfRows'
  OBVIOUS
<1> USE RunnerConstants DEF Inductive, vars, dbVars, threadVars, threadOnly, Callers, Idle,
        Statuses, ThreadPcs, Finished
<1>1. ASSUME NEW s \in Callers, NEW w \in Workflows, StartCheck(s, w) PROVE ThreadsOfRows'
  BY <1>1 DEF StartCheck, ThreadsOfRows, TypeOK
<1>2. ASSUME NEW s \in Callers, EnqueueRun(s) PROVE ThreadsOfRows'
  BY <1>2 DEF EnqueueRun, ThreadsOfRows, TypeOK
<1>3. ASSUME NEW s \in Callers, Register(s) PROVE ThreadsOfRows'
  BY <1>3 DEF Register, ThreadsOfRows, TypeOK, ExecutedOnce, StartersHoldOwnRuns, AppLoopHoldsFreshRun
<1>4. ASSUME NEW w \in Workflows, PromoteAppEvent(w) PROVE ThreadsOfRows'
  BY <1>4 DEF PromoteAppEvent, ThreadsOfRows, TypeOK
<1>5. ASSUME NEW r \in Runs, RelistPending(r) PROVE ThreadsOfRows'
  BY <1>5 DEF RelistPending, ThreadsOfRows, TypeOK
<1>6. CASE PendingSlotCheck
  BY <1>6 DEF PendingSlotCheck, ThreadsOfRows, TypeOK
<1>7. CASE PendingStatusCheck
  BY <1>7 DEF PendingStatusCheck, ThreadsOfRows, TypeOK
<1>8. CASE RecoverInterrupted
  BY <1>8 DEF RecoverInterrupted, ThreadsOfRows, TypeOK
<1>9. ASSUME NEW r \in Runs, LoadWorkflow(r) PROVE ThreadsOfRows'
  BY <1>9 DEF LoadWorkflow, ThreadsOfRows, TypeOK
<1>10. ASSUME NEW r \in Runs, MarkRunning(r) PROVE ThreadsOfRows'
  BY <1>10 DEF MarkRunning, SetStatus, ThreadsOfRows, TypeOK
<1>11. ASSUME NEW r \in Runs, EnterLoop(r) PROVE ThreadsOfRows'
  BY <1>11 DEF EnterLoop, SetStatus, ThreadsOfRows, TypeOK
<1>12. ASSUME NEW r \in Runs, ObserveCancel(r) PROVE ThreadsOfRows'
  BY <1>12 DEF ObserveCancel, SetStatus, ThreadsOfRows, TypeOK
<1>13. ASSUME NEW r \in Runs, BeginStep(r) PROVE ThreadsOfRows'
  BY <1>13 DEF BeginStep, ThreadsOfRows, TypeOK
<1>14. ASSUME NEW r \in Runs, StepCompleted(r) PROVE ThreadsOfRows'
  BY <1>14 DEF StepCompleted, ThreadsOfRows, TypeOK
<1>15. ASSUME NEW r \in Runs, InputScriptTimedOut(r) PROVE ThreadsOfRows'
  BY <1>15 DEF InputScriptTimedOut, ThreadsOfRows, TypeOK
<1>16. ASSUME NEW r \in Runs, StepFailed(r) PROVE ThreadsOfRows'
  BY <1>16 DEF StepFailed, ThreadsOfRows, TypeOK
<1>17. ASSUME NEW r \in Runs, StepCancelled(r) PROVE ThreadsOfRows'
  BY <1>17 DEF StepCancelled, ThreadsOfRows, TypeOK
<1>18. ASSUME NEW r \in Runs, MarkFailed(r) PROVE ThreadsOfRows'
  BY <1>18 DEF MarkFailed, SetStatus, ThreadsOfRows, TypeOK
<1>19. ASSUME NEW r \in Runs, MarkCancelled(r) PROVE ThreadsOfRows'
  BY <1>19 DEF MarkCancelled, SetStatus, ThreadsOfRows, TypeOK
<1>20. ASSUME NEW r \in Runs, MarkCompleted(r) PROVE ThreadsOfRows'
  BY <1>20 DEF MarkCompleted, SetStatus, ThreadsOfRows, TypeOK
<1>21. ASSUME NEW r \in Runs, ScheduleReview(r) PROVE ThreadsOfRows'
  BY <1>21 DEF ScheduleReview, ThreadsOfRows, TypeOK
<1>22. ASSUME NEW r \in Runs, ExecError(r) PROVE ThreadsOfRows'
  BY <1>22 DEF ExecError, ThreadsOfRows, TypeOK
<1>23. ASSUME NEW r \in Runs, Unregister(r) PROVE ThreadsOfRows'
  BY <1>23 DEF Unregister, ThreadsOfRows, TypeOK
<1>24. ASSUME NEW c \in Cancellers, NEW r \in Runs, RequestCancel(c, r) PROVE ThreadsOfRows'
  BY <1>24 DEF RequestCancel, ThreadsOfRows, TypeOK
<1>25. ASSUME NEW c \in Cancellers, MarkCancelRequested(c) PROVE ThreadsOfRows'
  BY <1>25 DEF MarkCancelRequested, SetStatus, ThreadsOfRows, TypeOK
<1>26. ASSUME NEW w \in Workflows, DeleteWorkflow(w) PROVE ThreadsOfRows'
  BY <1>26 DEF DeleteWorkflow, ThreadsOfRows, TypeOK
<1>27. CASE Crash
  BY <1>27 DEF Crash, ThreadsOfRows, TypeOK
<1> QED
  BY <1>1, <1>2, <1>3, <1>4, <1>5, <1>6, <1>7, <1>8, <1>9, <1>10, <1>11, <1>12, <1>13, <1>14, <1>15, <1>16, <1>17, <1>18, <1>19, <1>20, <1>21, <1>22, <1>23, <1>24, <1>25, <1>26, <1>27 DEF Next, CallerStep, AppLoopStep, ThreadStep, CancelStep

\* The loop only advances one node at a time.
LEMMA ProgressStep == Inductive /\ Next => Progress'
<1> SUFFICES ASSUME Inductive, Next PROVE Progress'
  OBVIOUS
<1> USE RunnerConstants DEF Inductive, vars, dbVars, threadVars, threadOnly, Callers, Idle,
        Statuses, ThreadPcs, Finished
<1>1. ASSUME NEW s \in Callers, NEW w \in Workflows, StartCheck(s, w) PROVE Progress'
  BY <1>1 DEF StartCheck, Progress, TypeOK
<1>2. ASSUME NEW s \in Callers, EnqueueRun(s) PROVE Progress'
  BY <1>2 DEF EnqueueRun, Progress, TypeOK
<1>3. ASSUME NEW s \in Callers, Register(s) PROVE Progress'
  BY <1>3 DEF Register, Progress, TypeOK
<1>4. ASSUME NEW w \in Workflows, PromoteAppEvent(w) PROVE Progress'
  BY <1>4 DEF PromoteAppEvent, Progress, TypeOK
<1>5. ASSUME NEW r \in Runs, RelistPending(r) PROVE Progress'
  BY <1>5 DEF RelistPending, Progress, TypeOK
<1>6. CASE PendingSlotCheck
  BY <1>6 DEF PendingSlotCheck, Progress, TypeOK
<1>7. CASE PendingStatusCheck
  BY <1>7 DEF PendingStatusCheck, Progress, TypeOK
<1>8. CASE RecoverInterrupted
  BY <1>8 DEF RecoverInterrupted, Progress, TypeOK
<1>9. ASSUME NEW r \in Runs, LoadWorkflow(r) PROVE Progress'
  BY <1>9 DEF LoadWorkflow, Progress, TypeOK
<1>10. ASSUME NEW r \in Runs, MarkRunning(r) PROVE Progress'
  BY <1>10 DEF MarkRunning, SetStatus, Progress, TypeOK
<1>11. ASSUME NEW r \in Runs, EnterLoop(r) PROVE Progress'
  BY <1>11 DEF EnterLoop, SetStatus, Progress, TypeOK
<1>12. ASSUME NEW r \in Runs, ObserveCancel(r) PROVE Progress'
  BY <1>12 DEF ObserveCancel, SetStatus, Progress, TypeOK
<1>13. ASSUME NEW r \in Runs, BeginStep(r) PROVE Progress'
  BY <1>13 DEF BeginStep, Progress, TypeOK
<1>14. ASSUME NEW r \in Runs, StepCompleted(r) PROVE Progress'
  BY <1>14 DEF StepCompleted, Progress, TypeOK
<1>15. ASSUME NEW r \in Runs, InputScriptTimedOut(r) PROVE Progress'
  BY <1>15 DEF InputScriptTimedOut, Progress, TypeOK
<1>16. ASSUME NEW r \in Runs, StepFailed(r) PROVE Progress'
  BY <1>16 DEF StepFailed, Progress, TypeOK
<1>17. ASSUME NEW r \in Runs, StepCancelled(r) PROVE Progress'
  BY <1>17 DEF StepCancelled, Progress, TypeOK
<1>18. ASSUME NEW r \in Runs, MarkFailed(r) PROVE Progress'
  BY <1>18 DEF MarkFailed, SetStatus, Progress, TypeOK
<1>19. ASSUME NEW r \in Runs, MarkCancelled(r) PROVE Progress'
  BY <1>19 DEF MarkCancelled, SetStatus, Progress, TypeOK
<1>20. ASSUME NEW r \in Runs, MarkCompleted(r) PROVE Progress'
  BY <1>20 DEF MarkCompleted, SetStatus, Progress, TypeOK
<1>21. ASSUME NEW r \in Runs, ScheduleReview(r) PROVE Progress'
  BY <1>21 DEF ScheduleReview, Progress, TypeOK
<1>22. ASSUME NEW r \in Runs, ExecError(r) PROVE Progress'
  BY <1>22 DEF ExecError, Progress, TypeOK
<1>23. ASSUME NEW r \in Runs, Unregister(r) PROVE Progress'
  BY <1>23 DEF Unregister, Progress, TypeOK
<1>24. ASSUME NEW c \in Cancellers, NEW r \in Runs, RequestCancel(c, r) PROVE Progress'
  BY <1>24 DEF RequestCancel, Progress, TypeOK
<1>25. ASSUME NEW c \in Cancellers, MarkCancelRequested(c) PROVE Progress'
  BY <1>25 DEF MarkCancelRequested, SetStatus, Progress, TypeOK
<1>26. ASSUME NEW w \in Workflows, DeleteWorkflow(w) PROVE Progress'
  BY <1>26 DEF DeleteWorkflow, Progress, TypeOK
<1>27. CASE Crash
  BY <1>27 DEF Crash, Progress, TypeOK
<1> QED
  BY <1>1, <1>2, <1>3, <1>4, <1>5, <1>6, <1>7, <1>8, <1>9, <1>10, <1>11, <1>12, <1>13, <1>14, <1>15, <1>16, <1>17, <1>18, <1>19, <1>20, <1>21, <1>22, <1>23, <1>24, <1>25, <1>26, <1>27 DEF Next, CallerStep, AppLoopStep, ThreadStep, CancelStep

\* An INSERT takes an unused id, so no two starters ever hold the same run.
LEMMA StartersHoldOwnRunsStep == Inductive /\ Next => StartersHoldOwnRuns'
<1> SUFFICES ASSUME Inductive, Next PROVE StartersHoldOwnRuns'
  OBVIOUS
<1> USE RunnerConstants DEF Inductive, vars, dbVars, threadVars, threadOnly, Callers, Idle,
        Statuses, ThreadPcs, Finished
<1>1. ASSUME NEW s \in Callers, NEW w \in Workflows, StartCheck(s, w) PROVE StartersHoldOwnRuns'
  BY <1>1 DEF StartCheck, StartersHoldOwnRuns, TypeOK
<1>2. ASSUME NEW s \in Callers, EnqueueRun(s) PROVE StartersHoldOwnRuns'
  <2>1. CASE starter[s].wf \notin workflows
    BY <1>2, <2>1 DEF EnqueueRun, StartersHoldOwnRuns, TypeOK
  <2>2. CASE starter[s].wf \in workflows
    <3>1. PICK r \in Runs :
             /\ status[r] = "unused"
             /\ status' = [status EXCEPT ![r] = "pending"]
             /\ starter' = [starter EXCEPT ![s] =
                              [pc |-> "inserted", wf |-> starter[s].wf, run |-> r]]
      BY <1>2, <2>2 DEF EnqueueRun
    <3>2. appRun' = appRun /\ thread' = thread /\ begun' = begun /\ s \in Starters
      BY <1>2 DEF EnqueueRun
    <3>3. thread[r] = "none" /\ begun[r] = 0 /\ ~ appRun[r]
      BY <3>1 DEF ThreadsOfRows
    <3>4. \A t \in Starters : t # s => starter'[t] = starter[t]
      BY <3>1 DEF TypeOK
    <3>5. starter'[s].pc = "inserted" /\ starter'[s].run = r
      BY <3>1, <3>2 DEF TypeOK
    <3>6. \A q \in Runs : status[q] # "unused" => status'[q] # "unused"
      BY <3>1 DEF TypeOK
    <3>7. status'[r] = "pending"
      BY <3>1 DEF TypeOK
    <3> QED
      BY <3>1, <3>2, <3>3, <3>4, <3>5, <3>6, <3>7 DEF StartersHoldOwnRuns
  <2> QED
    BY <2>1, <2>2
<1>3. ASSUME NEW s \in Callers, Register(s) PROVE StartersHoldOwnRuns'
  BY <1>3 DEF Register, StartersHoldOwnRuns, TypeOK, ThreadsOfRows, AppLoopHoldsFreshRun
<1>4. ASSUME NEW w \in Workflows, PromoteAppEvent(w) PROVE StartersHoldOwnRuns'
  BY <1>4 DEF PromoteAppEvent, StartersHoldOwnRuns, TypeOK
<1>5. ASSUME NEW r \in Runs, RelistPending(r) PROVE StartersHoldOwnRuns'
  BY <1>5 DEF RelistPending, StartersHoldOwnRuns, TypeOK
<1>6. CASE PendingSlotCheck
  BY <1>6 DEF PendingSlotCheck, StartersHoldOwnRuns, TypeOK
<1>7. CASE PendingStatusCheck
  BY <1>7 DEF PendingStatusCheck, StartersHoldOwnRuns, TypeOK
<1>8. CASE RecoverInterrupted
  BY <1>8 DEF RecoverInterrupted, StartersHoldOwnRuns, TypeOK
<1>9. ASSUME NEW r \in Runs, LoadWorkflow(r) PROVE StartersHoldOwnRuns'
  BY <1>9 DEF LoadWorkflow, StartersHoldOwnRuns, TypeOK
<1>10. ASSUME NEW r \in Runs, MarkRunning(r) PROVE StartersHoldOwnRuns'
  BY <1>10 DEF MarkRunning, SetStatus, StartersHoldOwnRuns, TypeOK
<1>11. ASSUME NEW r \in Runs, EnterLoop(r) PROVE StartersHoldOwnRuns'
  BY <1>11 DEF EnterLoop, SetStatus, StartersHoldOwnRuns, TypeOK
<1>12. ASSUME NEW r \in Runs, ObserveCancel(r) PROVE StartersHoldOwnRuns'
  BY <1>12 DEF ObserveCancel, SetStatus, StartersHoldOwnRuns, TypeOK
<1>13. ASSUME NEW r \in Runs, BeginStep(r) PROVE StartersHoldOwnRuns'
  BY <1>13 DEF BeginStep, StartersHoldOwnRuns, TypeOK
<1>14. ASSUME NEW r \in Runs, StepCompleted(r) PROVE StartersHoldOwnRuns'
  BY <1>14 DEF StepCompleted, StartersHoldOwnRuns, TypeOK
<1>15. ASSUME NEW r \in Runs, InputScriptTimedOut(r) PROVE StartersHoldOwnRuns'
  BY <1>15 DEF InputScriptTimedOut, StartersHoldOwnRuns, TypeOK
<1>16. ASSUME NEW r \in Runs, StepFailed(r) PROVE StartersHoldOwnRuns'
  BY <1>16 DEF StepFailed, StartersHoldOwnRuns, TypeOK
<1>17. ASSUME NEW r \in Runs, StepCancelled(r) PROVE StartersHoldOwnRuns'
  BY <1>17 DEF StepCancelled, StartersHoldOwnRuns, TypeOK
<1>18. ASSUME NEW r \in Runs, MarkFailed(r) PROVE StartersHoldOwnRuns'
  BY <1>18 DEF MarkFailed, SetStatus, StartersHoldOwnRuns, TypeOK
<1>19. ASSUME NEW r \in Runs, MarkCancelled(r) PROVE StartersHoldOwnRuns'
  BY <1>19 DEF MarkCancelled, SetStatus, StartersHoldOwnRuns, TypeOK
<1>20. ASSUME NEW r \in Runs, MarkCompleted(r) PROVE StartersHoldOwnRuns'
  BY <1>20 DEF MarkCompleted, SetStatus, StartersHoldOwnRuns, TypeOK
<1>21. ASSUME NEW r \in Runs, ScheduleReview(r) PROVE StartersHoldOwnRuns'
  BY <1>21 DEF ScheduleReview, StartersHoldOwnRuns, TypeOK
<1>22. ASSUME NEW r \in Runs, ExecError(r) PROVE StartersHoldOwnRuns'
  BY <1>22 DEF ExecError, StartersHoldOwnRuns, TypeOK
<1>23. ASSUME NEW r \in Runs, Unregister(r) PROVE StartersHoldOwnRuns'
  BY <1>23 DEF Unregister, StartersHoldOwnRuns, TypeOK
<1>24. ASSUME NEW c \in Cancellers, NEW r \in Runs, RequestCancel(c, r) PROVE StartersHoldOwnRuns'
  BY <1>24 DEF RequestCancel, StartersHoldOwnRuns, TypeOK
<1>25. ASSUME NEW c \in Cancellers, MarkCancelRequested(c) PROVE StartersHoldOwnRuns'
  BY <1>25 DEF MarkCancelRequested, SetStatus, StartersHoldOwnRuns, TypeOK
<1>26. ASSUME NEW w \in Workflows, DeleteWorkflow(w) PROVE StartersHoldOwnRuns'
  BY <1>26 DEF DeleteWorkflow, StartersHoldOwnRuns, TypeOK
<1>27. CASE Crash
  BY <1>27 DEF Crash, StartersHoldOwnRuns, TypeOK
<1> QED
  BY <1>1, <1>2, <1>3, <1>4, <1>5, <1>6, <1>7, <1>8, <1>9, <1>10, <1>11, <1>12, <1>13, <1>14, <1>15, <1>16, <1>17, <1>18, <1>19, <1>20, <1>21, <1>22, <1>23, <1>24, <1>25, <1>26, <1>27 DEF Next, CallerStep, AppLoopStep, ThreadStep, CancelStep

\* A free slot, seen by the only thread that launches app-event runs, means the
\* run it holds has no thread, and nobody gives it one before the loop does.
LEMMA AppLoopHoldsFreshRunStep == Inductive /\ Next => AppLoopHoldsFreshRun'
<1> SUFFICES ASSUME Inductive, Next PROVE AppLoopHoldsFreshRun'
  OBVIOUS
<1> USE RunnerConstants DEF Inductive, vars, dbVars, threadVars, threadOnly, Callers, Idle,
        Statuses, ThreadPcs, Finished
<1>1. ASSUME NEW s \in Callers, NEW w \in Workflows, StartCheck(s, w) PROVE AppLoopHoldsFreshRun'
  BY <1>1 DEF StartCheck, AppLoopHoldsFreshRun, TypeOK, HasWorkflow
<1>2. ASSUME NEW s \in Callers, EnqueueRun(s) PROVE AppLoopHoldsFreshRun'
  BY <1>2 DEF EnqueueRun, AppLoopHoldsFreshRun, TypeOK
<1>3. ASSUME NEW s \in Callers, Register(s) PROVE AppLoopHoldsFreshRun'
  BY <1>3 DEF Register, AppLoopHoldsFreshRun, TypeOK, ThreadsOfRows, StartersHoldOwnRuns
<1>4. ASSUME NEW w \in Workflows, PromoteAppEvent(w) PROVE AppLoopHoldsFreshRun'
  BY <1>4 DEF PromoteAppEvent, AppLoopHoldsFreshRun, TypeOK, HasWorkflow
<1>5. ASSUME NEW r \in Runs, RelistPending(r) PROVE AppLoopHoldsFreshRun'
  BY <1>5 DEF RelistPending, AppLoopHoldsFreshRun, TypeOK, HasWorkflow
<1>6. CASE PendingSlotCheck
  BY <1>6 DEF PendingSlotCheck, AppLoopHoldsFreshRun, TypeOK, HasWorkflow, ThreadsOfRows, StartersHoldOwnRuns, RegistryIsLiveThreads
<1>7. CASE PendingStatusCheck
  BY <1>7 DEF PendingStatusCheck, AppLoopHoldsFreshRun, TypeOK, ThreadsOfRows
<1>8. CASE RecoverInterrupted
  BY <1>8 DEF RecoverInterrupted, AppLoopHoldsFreshRun, TypeOK
<1>9. ASSUME NEW r \in Runs, LoadWorkflow(r) PROVE AppLoopHoldsFreshRun'
  BY <1>9 DEF LoadWorkflow, AppLoopHoldsFreshRun, TypeOK
<1>10. ASSUME NEW r \in Runs, MarkRunning(r) PROVE AppLoopHoldsFreshRun'
  BY <1>10 DEF MarkRunning, SetStatus, AppLoopHoldsFreshRun, TypeOK
<1>11. ASSUME NEW r \in Runs, EnterLoop(r) PROVE AppLoopHoldsFreshRun'
  BY <1>11 DEF EnterLoop, SetStatus, AppLoopHoldsFreshRun, TypeOK
<1>12. ASSUME NEW r \in Runs, ObserveCancel(r) PROVE AppLoopHoldsFreshRun'
  BY <1>12 DEF ObserveCancel, SetStatus, AppLoopHoldsFreshRun, TypeOK
<1>13. ASSUME NEW r \in Runs, BeginStep(r) PROVE AppLoopHoldsFreshRun'
  BY <1>13 DEF BeginStep, AppLoopHoldsFreshRun, TypeOK
<1>14. ASSUME NEW r \in Runs, StepCompleted(r) PROVE AppLoopHoldsFreshRun'
  BY <1>14 DEF StepCompleted, AppLoopHoldsFreshRun, TypeOK
<1>15. ASSUME NEW r \in Runs, InputScriptTimedOut(r) PROVE AppLoopHoldsFreshRun'
  BY <1>15 DEF InputScriptTimedOut, AppLoopHoldsFreshRun, TypeOK
<1>16. ASSUME NEW r \in Runs, StepFailed(r) PROVE AppLoopHoldsFreshRun'
  BY <1>16 DEF StepFailed, AppLoopHoldsFreshRun, TypeOK
<1>17. ASSUME NEW r \in Runs, StepCancelled(r) PROVE AppLoopHoldsFreshRun'
  BY <1>17 DEF StepCancelled, AppLoopHoldsFreshRun, TypeOK
<1>18. ASSUME NEW r \in Runs, MarkFailed(r) PROVE AppLoopHoldsFreshRun'
  BY <1>18 DEF MarkFailed, SetStatus, AppLoopHoldsFreshRun, TypeOK
<1>19. ASSUME NEW r \in Runs, MarkCancelled(r) PROVE AppLoopHoldsFreshRun'
  BY <1>19 DEF MarkCancelled, SetStatus, AppLoopHoldsFreshRun, TypeOK
<1>20. ASSUME NEW r \in Runs, MarkCompleted(r) PROVE AppLoopHoldsFreshRun'
  BY <1>20 DEF MarkCompleted, SetStatus, AppLoopHoldsFreshRun, TypeOK
<1>21. ASSUME NEW r \in Runs, ScheduleReview(r) PROVE AppLoopHoldsFreshRun'
  BY <1>21 DEF ScheduleReview, AppLoopHoldsFreshRun, TypeOK
<1>22. ASSUME NEW r \in Runs, ExecError(r) PROVE AppLoopHoldsFreshRun'
  BY <1>22 DEF ExecError, AppLoopHoldsFreshRun, TypeOK
<1>23. ASSUME NEW r \in Runs, Unregister(r) PROVE AppLoopHoldsFreshRun'
  BY <1>23 DEF Unregister, AppLoopHoldsFreshRun, TypeOK
<1>24. ASSUME NEW c \in Cancellers, NEW r \in Runs, RequestCancel(c, r) PROVE AppLoopHoldsFreshRun'
  BY <1>24 DEF RequestCancel, AppLoopHoldsFreshRun, TypeOK
<1>25. ASSUME NEW c \in Cancellers, MarkCancelRequested(c) PROVE AppLoopHoldsFreshRun'
  BY <1>25 DEF MarkCancelRequested, SetStatus, AppLoopHoldsFreshRun, TypeOK
<1>26. ASSUME NEW w \in Workflows, DeleteWorkflow(w) PROVE AppLoopHoldsFreshRun'
  BY <1>26 DEF DeleteWorkflow, AppLoopHoldsFreshRun, TypeOK
<1>27. CASE Crash
  BY <1>27 DEF Crash, AppLoopHoldsFreshRun, TypeOK
<1> QED
  BY <1>1, <1>2, <1>3, <1>4, <1>5, <1>6, <1>7, <1>8, <1>9, <1>10, <1>11, <1>12, <1>13, <1>14, <1>15, <1>16, <1>17, <1>18, <1>19, <1>20, <1>21, <1>22, <1>23, <1>24, <1>25, <1>26, <1>27 DEF Next, CallerStep, AppLoopStep, ThreadStep, CancelStep

\* Only a thread past its loop writes 'completed', and a thread that returns Ok
\* left another status than 'running'.
LEMMA OutcomeAfterLoopStep == Inductive /\ Next => OutcomeAfterLoop'
<1> SUFFICES ASSUME Inductive, Next PROVE OutcomeAfterLoop'
  OBVIOUS
<1> USE RunnerConstants DEF Inductive, vars, dbVars, threadVars, threadOnly, Callers, Idle,
        Statuses, ThreadPcs, Finished
<1>1. ASSUME NEW s \in Callers, NEW w \in Workflows, StartCheck(s, w) PROVE OutcomeAfterLoop'
  BY <1>1 DEF StartCheck, OutcomeAfterLoop, TypeOK
<1>2. ASSUME NEW s \in Callers, EnqueueRun(s) PROVE OutcomeAfterLoop'
  BY <1>2 DEF EnqueueRun, OutcomeAfterLoop, TypeOK
<1>3. ASSUME NEW s \in Callers, Register(s) PROVE OutcomeAfterLoop'
  BY <1>3 DEF Register, OutcomeAfterLoop, TypeOK, ThreadsOfRows, Progress, StartersHoldOwnRuns, AppLoopHoldsFreshRun
<1>4. ASSUME NEW w \in Workflows, PromoteAppEvent(w) PROVE OutcomeAfterLoop'
  BY <1>4 DEF PromoteAppEvent, OutcomeAfterLoop, TypeOK
<1>5. ASSUME NEW r \in Runs, RelistPending(r) PROVE OutcomeAfterLoop'
  BY <1>5 DEF RelistPending, OutcomeAfterLoop, TypeOK
<1>6. CASE PendingSlotCheck
  BY <1>6 DEF PendingSlotCheck, OutcomeAfterLoop, TypeOK
<1>7. CASE PendingStatusCheck
  BY <1>7 DEF PendingStatusCheck, OutcomeAfterLoop, TypeOK
<1>8. CASE RecoverInterrupted
  BY <1>8 DEF RecoverInterrupted, OutcomeAfterLoop, TypeOK
<1>9. ASSUME NEW r \in Runs, LoadWorkflow(r) PROVE OutcomeAfterLoop'
  BY <1>9 DEF LoadWorkflow, OutcomeAfterLoop, TypeOK
<1>10. ASSUME NEW r \in Runs, MarkRunning(r) PROVE OutcomeAfterLoop'
  BY <1>10 DEF MarkRunning, SetStatus, OutcomeAfterLoop, TypeOK
<1>11. ASSUME NEW r \in Runs, EnterLoop(r) PROVE OutcomeAfterLoop'
  BY <1>11 DEF EnterLoop, SetStatus, OutcomeAfterLoop, TypeOK
<1>12. ASSUME NEW r \in Runs, ObserveCancel(r) PROVE OutcomeAfterLoop'
  BY <1>12 DEF ObserveCancel, SetStatus, OutcomeAfterLoop, TypeOK
<1>13. ASSUME NEW r \in Runs, BeginStep(r) PROVE OutcomeAfterLoop'
  BY <1>13 DEF BeginStep, OutcomeAfterLoop, TypeOK
<1>14. ASSUME NEW r \in Runs, StepCompleted(r) PROVE OutcomeAfterLoop'
  BY <1>14 DEF StepCompleted, OutcomeAfterLoop, TypeOK
<1>15. ASSUME NEW r \in Runs, InputScriptTimedOut(r) PROVE OutcomeAfterLoop'
  BY <1>15 DEF InputScriptTimedOut, OutcomeAfterLoop, TypeOK
<1>16. ASSUME NEW r \in Runs, StepFailed(r) PROVE OutcomeAfterLoop'
  BY <1>16 DEF StepFailed, OutcomeAfterLoop, TypeOK
<1>17. ASSUME NEW r \in Runs, StepCancelled(r) PROVE OutcomeAfterLoop'
  BY <1>17 DEF StepCancelled, OutcomeAfterLoop, TypeOK
<1>18. ASSUME NEW r \in Runs, MarkFailed(r) PROVE OutcomeAfterLoop'
  BY <1>18 DEF MarkFailed, SetStatus, OutcomeAfterLoop, TypeOK
<1>19. ASSUME NEW r \in Runs, MarkCancelled(r) PROVE OutcomeAfterLoop'
  BY <1>19 DEF MarkCancelled, SetStatus, OutcomeAfterLoop, TypeOK
<1>20. ASSUME NEW r \in Runs, MarkCompleted(r) PROVE OutcomeAfterLoop'
  BY <1>20 DEF MarkCompleted, SetStatus, OutcomeAfterLoop, TypeOK, ThreadsOfRows, Progress
<1>21. ASSUME NEW r \in Runs, ScheduleReview(r) PROVE OutcomeAfterLoop'
  BY <1>21 DEF ScheduleReview, OutcomeAfterLoop, TypeOK
<1>22. ASSUME NEW r \in Runs, ExecError(r) PROVE OutcomeAfterLoop'
  BY <1>22 DEF ExecError, OutcomeAfterLoop, TypeOK
<1>23. ASSUME NEW r \in Runs, Unregister(r) PROVE OutcomeAfterLoop'
  BY <1>23 DEF Unregister, OutcomeAfterLoop, TypeOK
<1>24. ASSUME NEW c \in Cancellers, NEW r \in Runs, RequestCancel(c, r) PROVE OutcomeAfterLoop'
  BY <1>24 DEF RequestCancel, OutcomeAfterLoop, TypeOK
<1>25. ASSUME NEW c \in Cancellers, MarkCancelRequested(c) PROVE OutcomeAfterLoop'
  BY <1>25 DEF MarkCancelRequested, SetStatus, OutcomeAfterLoop, TypeOK
<1>26. ASSUME NEW w \in Workflows, DeleteWorkflow(w) PROVE OutcomeAfterLoop'
  BY <1>26 DEF DeleteWorkflow, OutcomeAfterLoop, TypeOK
<1>27. CASE Crash
  BY <1>27 DEF Crash, OutcomeAfterLoop, TypeOK
<1> QED
  BY <1>1, <1>2, <1>3, <1>4, <1>5, <1>6, <1>7, <1>8, <1>9, <1>10, <1>11, <1>12, <1>13, <1>14, <1>15, <1>16, <1>17, <1>18, <1>19, <1>20, <1>21, <1>22, <1>23, <1>24, <1>25, <1>26, <1>27 DEF Next, CallerStep, AppLoopStep, ThreadStep, CancelStep

\* Nothing changes a run's counters after its outcome is 'completed'.
LEMMA CompletedRanEveryNodeStep == Inductive /\ Next => CompletedRanEveryNode'
<1> SUFFICES ASSUME Inductive, Next PROVE CompletedRanEveryNode'
  OBVIOUS
<1> USE RunnerConstants DEF Inductive, vars, dbVars, threadVars, threadOnly, Callers, Idle,
        Statuses, ThreadPcs, Finished
<1>1. ASSUME NEW s \in Callers, NEW w \in Workflows, StartCheck(s, w) PROVE CompletedRanEveryNode'
  BY <1>1 DEF StartCheck, CompletedRanEveryNode, TypeOK
<1>2. ASSUME NEW s \in Callers, EnqueueRun(s) PROVE CompletedRanEveryNode'
  BY <1>2 DEF EnqueueRun, CompletedRanEveryNode, TypeOK
<1>3. ASSUME NEW s \in Callers, Register(s) PROVE CompletedRanEveryNode'
  BY <1>3 DEF Register, CompletedRanEveryNode, TypeOK, OutcomeAfterLoop, ThreadsOfRows, Progress, StartersHoldOwnRuns, AppLoopHoldsFreshRun
<1>4. ASSUME NEW w \in Workflows, PromoteAppEvent(w) PROVE CompletedRanEveryNode'
  BY <1>4 DEF PromoteAppEvent, CompletedRanEveryNode, TypeOK
<1>5. ASSUME NEW r \in Runs, RelistPending(r) PROVE CompletedRanEveryNode'
  BY <1>5 DEF RelistPending, CompletedRanEveryNode, TypeOK
<1>6. CASE PendingSlotCheck
  BY <1>6 DEF PendingSlotCheck, CompletedRanEveryNode, TypeOK
<1>7. CASE PendingStatusCheck
  BY <1>7 DEF PendingStatusCheck, CompletedRanEveryNode, TypeOK
<1>8. CASE RecoverInterrupted
  BY <1>8 DEF RecoverInterrupted, CompletedRanEveryNode, TypeOK
<1>9. ASSUME NEW r \in Runs, LoadWorkflow(r) PROVE CompletedRanEveryNode'
  BY <1>9 DEF LoadWorkflow, CompletedRanEveryNode, TypeOK, OutcomeAfterLoop
<1>10. ASSUME NEW r \in Runs, MarkRunning(r) PROVE CompletedRanEveryNode'
  BY <1>10 DEF MarkRunning, SetStatus, CompletedRanEveryNode, TypeOK
<1>11. ASSUME NEW r \in Runs, EnterLoop(r) PROVE CompletedRanEveryNode'
  BY <1>11 DEF EnterLoop, SetStatus, CompletedRanEveryNode, TypeOK
<1>12. ASSUME NEW r \in Runs, ObserveCancel(r) PROVE CompletedRanEveryNode'
  BY <1>12 DEF ObserveCancel, SetStatus, CompletedRanEveryNode, TypeOK
<1>13. ASSUME NEW r \in Runs, BeginStep(r) PROVE CompletedRanEveryNode'
  BY <1>13 DEF BeginStep, CompletedRanEveryNode, TypeOK
<1>14. ASSUME NEW r \in Runs, StepCompleted(r) PROVE CompletedRanEveryNode'
  BY <1>14 DEF StepCompleted, CompletedRanEveryNode, TypeOK, OutcomeAfterLoop
<1>15. ASSUME NEW r \in Runs, InputScriptTimedOut(r) PROVE CompletedRanEveryNode'
  BY <1>15 DEF InputScriptTimedOut, CompletedRanEveryNode, TypeOK, OutcomeAfterLoop
<1>16. ASSUME NEW r \in Runs, StepFailed(r) PROVE CompletedRanEveryNode'
  BY <1>16 DEF StepFailed, CompletedRanEveryNode, TypeOK
<1>17. ASSUME NEW r \in Runs, StepCancelled(r) PROVE CompletedRanEveryNode'
  BY <1>17 DEF StepCancelled, CompletedRanEveryNode, TypeOK
<1>18. ASSUME NEW r \in Runs, MarkFailed(r) PROVE CompletedRanEveryNode'
  BY <1>18 DEF MarkFailed, SetStatus, CompletedRanEveryNode, TypeOK
<1>19. ASSUME NEW r \in Runs, MarkCancelled(r) PROVE CompletedRanEveryNode'
  BY <1>19 DEF MarkCancelled, SetStatus, CompletedRanEveryNode, TypeOK
<1>20. ASSUME NEW r \in Runs, MarkCompleted(r) PROVE CompletedRanEveryNode'
  BY <1>20 DEF MarkCompleted, SetStatus, CompletedRanEveryNode, TypeOK, OutcomeAfterLoop, ThreadsOfRows, Progress
<1>21. ASSUME NEW r \in Runs, ScheduleReview(r) PROVE CompletedRanEveryNode'
  BY <1>21 DEF ScheduleReview, CompletedRanEveryNode, TypeOK
<1>22. ASSUME NEW r \in Runs, ExecError(r) PROVE CompletedRanEveryNode'
  BY <1>22 DEF ExecError, CompletedRanEveryNode, TypeOK
<1>23. ASSUME NEW r \in Runs, Unregister(r) PROVE CompletedRanEveryNode'
  BY <1>23 DEF Unregister, CompletedRanEveryNode, TypeOK
<1>24. ASSUME NEW c \in Cancellers, NEW r \in Runs, RequestCancel(c, r) PROVE CompletedRanEveryNode'
  BY <1>24 DEF RequestCancel, CompletedRanEveryNode, TypeOK
<1>25. ASSUME NEW c \in Cancellers, MarkCancelRequested(c) PROVE CompletedRanEveryNode'
  BY <1>25 DEF MarkCancelRequested, SetStatus, CompletedRanEveryNode, TypeOK
<1>26. ASSUME NEW w \in Workflows, DeleteWorkflow(w) PROVE CompletedRanEveryNode'
  BY <1>26 DEF DeleteWorkflow, CompletedRanEveryNode, TypeOK
<1>27. CASE Crash
  BY <1>27 DEF Crash, CompletedRanEveryNode, TypeOK
<1> QED
  BY <1>1, <1>2, <1>3, <1>4, <1>5, <1>6, <1>7, <1>8, <1>9, <1>10, <1>11, <1>12, <1>13, <1>14, <1>15, <1>16, <1>17, <1>18, <1>19, <1>20, <1>21, <1>22, <1>23, <1>24, <1>25, <1>26, <1>27 DEF Next, CallerStep, AppLoopStep, ThreadStep, CancelStep

\* A thread leaves the registry with a finished status or an error.
LEMMA NoPhantomAppRunStep == Inductive /\ Next => NoPhantomAppRun'
<1> SUFFICES ASSUME Inductive, Next PROVE NoPhantomAppRun'
  OBVIOUS
<1> USE RunnerConstants DEF Inductive, vars, dbVars, threadVars, threadOnly, Callers, Idle,
        Statuses, ThreadPcs, Finished
<1>1. ASSUME NEW s \in Callers, NEW w \in Workflows, StartCheck(s, w) PROVE NoPhantomAppRun'
  BY <1>1 DEF StartCheck, NoPhantomAppRun, TypeOK
<1>2. ASSUME NEW s \in Callers, EnqueueRun(s) PROVE NoPhantomAppRun'
  BY <1>2 DEF EnqueueRun, NoPhantomAppRun, TypeOK
<1>3. ASSUME NEW s \in Callers, Register(s) PROVE NoPhantomAppRun'
  BY <1>3 DEF Register, NoPhantomAppRun, TypeOK
<1>4. ASSUME NEW w \in Workflows, PromoteAppEvent(w) PROVE NoPhantomAppRun'
  BY <1>4 DEF PromoteAppEvent, NoPhantomAppRun, TypeOK
<1>5. ASSUME NEW r \in Runs, RelistPending(r) PROVE NoPhantomAppRun'
  BY <1>5 DEF RelistPending, NoPhantomAppRun, TypeOK
<1>6. CASE PendingSlotCheck
  BY <1>6 DEF PendingSlotCheck, NoPhantomAppRun, TypeOK
<1>7. CASE PendingStatusCheck
  BY <1>7 DEF PendingStatusCheck, NoPhantomAppRun, TypeOK
<1>8. CASE RecoverInterrupted
  BY <1>8 DEF RecoverInterrupted, NoPhantomAppRun, TypeOK
<1>9. ASSUME NEW r \in Runs, LoadWorkflow(r) PROVE NoPhantomAppRun'
  BY <1>9 DEF LoadWorkflow, NoPhantomAppRun, TypeOK
<1>10. ASSUME NEW r \in Runs, MarkRunning(r) PROVE NoPhantomAppRun'
  BY <1>10 DEF MarkRunning, SetStatus, NoPhantomAppRun, TypeOK, OutcomeAfterLoop, RegistryIsLiveThreads
<1>11. ASSUME NEW r \in Runs, EnterLoop(r) PROVE NoPhantomAppRun'
  BY <1>11 DEF EnterLoop, SetStatus, NoPhantomAppRun, TypeOK
<1>12. ASSUME NEW r \in Runs, ObserveCancel(r) PROVE NoPhantomAppRun'
  BY <1>12 DEF ObserveCancel, SetStatus, NoPhantomAppRun, TypeOK
<1>13. ASSUME NEW r \in Runs, BeginStep(r) PROVE NoPhantomAppRun'
  BY <1>13 DEF BeginStep, NoPhantomAppRun, TypeOK
<1>14. ASSUME NEW r \in Runs, StepCompleted(r) PROVE NoPhantomAppRun'
  BY <1>14 DEF StepCompleted, NoPhantomAppRun, TypeOK
<1>15. ASSUME NEW r \in Runs, InputScriptTimedOut(r) PROVE NoPhantomAppRun'
  BY <1>15 DEF InputScriptTimedOut, NoPhantomAppRun, TypeOK
<1>16. ASSUME NEW r \in Runs, StepFailed(r) PROVE NoPhantomAppRun'
  BY <1>16 DEF StepFailed, NoPhantomAppRun, TypeOK
<1>17. ASSUME NEW r \in Runs, StepCancelled(r) PROVE NoPhantomAppRun'
  BY <1>17 DEF StepCancelled, NoPhantomAppRun, TypeOK
<1>18. ASSUME NEW r \in Runs, MarkFailed(r) PROVE NoPhantomAppRun'
  BY <1>18 DEF MarkFailed, SetStatus, NoPhantomAppRun, TypeOK
<1>19. ASSUME NEW r \in Runs, MarkCancelled(r) PROVE NoPhantomAppRun'
  BY <1>19 DEF MarkCancelled, SetStatus, NoPhantomAppRun, TypeOK
<1>20. ASSUME NEW r \in Runs, MarkCompleted(r) PROVE NoPhantomAppRun'
  BY <1>20 DEF MarkCompleted, SetStatus, NoPhantomAppRun, TypeOK
<1>21. ASSUME NEW r \in Runs, ScheduleReview(r) PROVE NoPhantomAppRun'
  BY <1>21 DEF ScheduleReview, NoPhantomAppRun, TypeOK
<1>22. ASSUME NEW r \in Runs, ExecError(r) PROVE NoPhantomAppRun'
  BY <1>22 DEF ExecError, NoPhantomAppRun, TypeOK
<1>23. ASSUME NEW r \in Runs, Unregister(r) PROVE NoPhantomAppRun'
  BY <1>23 DEF Unregister, NoPhantomAppRun, TypeOK, OutcomeAfterLoop
<1>24. ASSUME NEW c \in Cancellers, NEW r \in Runs, RequestCancel(c, r) PROVE NoPhantomAppRun'
  BY <1>24 DEF RequestCancel, NoPhantomAppRun, TypeOK
<1>25. ASSUME NEW c \in Cancellers, MarkCancelRequested(c) PROVE NoPhantomAppRun'
  BY <1>25 DEF MarkCancelRequested, SetStatus, NoPhantomAppRun, TypeOK
<1>26. ASSUME NEW w \in Workflows, DeleteWorkflow(w) PROVE NoPhantomAppRun'
  BY <1>26 DEF DeleteWorkflow, NoPhantomAppRun, TypeOK
<1>27. CASE Crash
  BY <1>27 DEF Crash, NoPhantomAppRun, TypeOK
<1> QED
  BY <1>1, <1>2, <1>3, <1>4, <1>5, <1>6, <1>7, <1>8, <1>9, <1>10, <1>11, <1>12, <1>13, <1>14, <1>15, <1>16, <1>17, <1>18, <1>19, <1>20, <1>21, <1>22, <1>23, <1>24, <1>25, <1>26, <1>27 DEF Next, CallerStep, AppLoopStep, ThreadStep, CancelStep

\* The empty registry and the empty run table satisfy the invariant.
LEMMA InductiveInit == Init => Inductive
<1> SUFFICES ASSUME Init PROVE Inductive
  OBVIOUS
<1> USE RunnerConstants DEF Init, Callers, Idle, Statuses, ThreadPcs
<1>1. TypeOK
  <2>1. starter \in [Callers -> [pc : {"idle", "listed", "checked", "inserted"},
                                 wf : Workflows \cup {NoWorkflow}, run : Runs \cup {NoRun}]]
    OBVIOUS
  <2>2. crashes \in 0..MaxCrashes /\ total \in [Runs -> 0..MaxNodes]
                                  /\ done \in [Runs -> 0..MaxNodes]
    OBVIOUS
  <2> QED
    BY <2>1, <2>2 DEF TypeOK
<1>2. RegistryIsLiveThreads /\ ExecutedOnce /\ ThreadsOfRows /\ Progress
  BY DEF RegistryIsLiveThreads, ExecutedOnce, ThreadsOfRows, Progress
<1>3. StartersHoldOwnRuns /\ AppLoopHoldsFreshRun
  BY DEF StartersHoldOwnRuns, AppLoopHoldsFreshRun
<1>4. OutcomeAfterLoop /\ CompletedRanEveryNode /\ NoPhantomAppRun
  BY DEF OutcomeAfterLoop, CompletedRanEveryNode, NoPhantomAppRun
<1> QED
  BY <1>1, <1>2, <1>3, <1>4 DEF Inductive

\* The invariant reads nothing but the specification's variables.
LEMMA InductiveStutter == Inductive /\ UNCHANGED vars => Inductive'
<1> SUFFICES ASSUME Inductive, UNCHANGED vars PROVE Inductive'
  OBVIOUS
<1> USE DEF Inductive, vars
<1>1. TypeOK' /\ RegistryIsLiveThreads' /\ ExecutedOnce' /\ ThreadsOfRows' /\ Progress'
  BY DEF TypeOK, RegistryIsLiveThreads, ExecutedOnce, ThreadsOfRows, Progress
<1>2. StartersHoldOwnRuns' /\ AppLoopHoldsFreshRun'
  BY DEF StartersHoldOwnRuns, AppLoopHoldsFreshRun
<1>3. OutcomeAfterLoop' /\ CompletedRanEveryNode' /\ NoPhantomAppRun'
  BY DEF OutcomeAfterLoop, CompletedRanEveryNode, NoPhantomAppRun
<1> QED
  BY <1>1, <1>2, <1>3

\* The inductive invariant holds in every reachable state of the run lifecycle.
THEOREM RunnerInductive == Spec => []Inductive
<1>1. Inductive /\ [Next]_vars => Inductive'
  <2> SUFFICES ASSUME Inductive, Next PROVE Inductive'
    BY InductiveStutter
  <2> QED
    BY TypeOKStep, RegistryIsLiveThreadsStep, ExecutedOnceStep, ThreadsOfRowsStep,
       ProgressStep, StartersHoldOwnRunsStep, AppLoopHoldsFreshRunStep,
       OutcomeAfterLoopStep, CompletedRanEveryNodeStep, NoPhantomAppRunStep
       DEF Inductive
<1> QED
  BY <1>1, InductiveInit, PTL DEF Spec

\* Type correctness of the run lifecycle, for every set of threads and runs.
THEOREM RunnerTypeOK == Spec => []TypeOK
<1>1. Inductive => TypeOK
  BY DEF Inductive
<1> QED
  BY <1>1, RunnerInductive, PTL

\* active::registry() holds exactly the runs that have a live thread.
THEOREM RegistryCorrect == Spec => []RegistryIsLiveThreads
<1>1. Inductive => RegistryIsLiveThreads
  BY DEF Inductive
<1> QED
  BY <1>1, RunnerInductive, PTL

\* No run executes its steps twice, whatever crashes and retries happen.
THEOREM RunsExecuteOnce == Spec => []ExecutedOnce
<1>1. Inductive => ExecutedOnce
  BY DEF Inductive
<1> QED
  BY <1>1, RunnerInductive, PTL

\* A completed row, and a scheduled memory review, mean that every node ran.
THEOREM CompletedMeansComplete == Spec => []CompletedRanEveryNode
<1>1. Inductive => CompletedRanEveryNode
  BY DEF Inductive
<1> QED
  BY <1>1, RunnerInductive, PTL

\* Recovery leaves no app-event run that claims to run and has no thread.
THEOREM RecoveryIsComplete == Spec => []NoPhantomAppRun
<1>1. Inductive => NoPhantomAppRun
  BY DEF Inductive
<1> QED
  BY <1>1, RunnerInductive, PTL

\* The outcome of a finished run that nobody works on any more never changes.
THEOREM OutcomesAreFinal == Spec => SettledIsFinal
<1>1. ASSUME Inductive, [Next]_vars, NEW r \in Runs, Settled(r), status[r] \in Finished
      PROVE  status'[r] \in {status[r], "deleted"}
  <2> USE <1>1 DEF Inductive, TypeOK, Settled, Finished, Callers
  <2>1. CASE UNCHANGED vars
    BY <2>1 DEF vars
  <2>2. ASSUME NEW s \in Callers, CallerStep(s)
        PROVE  status'[r] = status[r]
    BY <2>2 DEF CallerStep, StartCheck, EnqueueRun, Register, dbVars
  <2>3. CASE AppLoopStep
    BY <2>3 DEF AppLoopStep, PromoteAppEvent, RelistPending, PendingSlotCheck,
                PendingStatusCheck, RecoverInterrupted, dbVars
  <2>4. ASSUME NEW q \in Runs, ThreadStep(q)
        PROVE  status'[r] = status[r]
    <3>1. CASE q = r
      BY <2>4, <3>1 DEF ThreadStep, LoadWorkflow, MarkRunning, EnterLoop, ObserveCancel,
         BeginStep, StepCompleted, InputScriptTimedOut, StepFailed, StepCancelled,
         MarkFailed, MarkCancelled, MarkCompleted, ScheduleReview, ExecError,
         Unregister, dbVars
    <3>2. CASE q # r
      BY <2>4, <3>2 DEF ThreadStep, LoadWorkflow, MarkRunning, EnterLoop, ObserveCancel,
         BeginStep, StepCompleted, InputScriptTimedOut, StepFailed, StepCancelled,
         MarkFailed, MarkCancelled, MarkCompleted, ScheduleReview, ExecError,
         Unregister, dbVars, SetStatus
    <3> QED
      BY <3>1, <3>2
  <2>5. ASSUME NEW c \in Cancellers, CancelStep(c)
        PROVE  status'[r] = status[r]
    BY <2>5 DEF CancelStep, RequestCancel, MarkCancelRequested, SetStatus, dbVars
  <2>6. ASSUME NEW w \in Workflows, DeleteWorkflow(w)
        PROVE  status'[r] \in {status[r], "deleted"}
    BY <2>6 DEF DeleteWorkflow
  <2>7. CASE Crash
    BY <2>7 DEF Crash, dbVars
  <2> QED
    BY <2>1, <2>2, <2>3, <2>4, <2>5, <2>6, <2>7 DEF Next
<1>2. Inductive /\ [Next]_vars =>
        [\A r \in Runs : Settled(r) /\ status[r] \in Finished
                          => status'[r] \in {status[r], "deleted"}]_vars
  BY <1>1
<1> QED
  BY <1>2, RunnerInductive, PTL DEF Spec, SettledIsFinal

=============================================================================
