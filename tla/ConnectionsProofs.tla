------------------------- MODULE ConnectionsProofs -------------------------
(***************************************************************************)
(* The invariants of Connections for any number of overlapping connects,   *)
(* actions and disconnects, any number of grants and any faults.           *)
(***************************************************************************)
EXTENDS Connections, TLAPS

\* A credential names its grant and its rotation.
LEMMA CredShape ==
    \A k \in Credentials : k # NoCred => k[1] \in Grants /\ k[2] \in 0..MaxRotations
  BY DEF Credentials

\* What an authorisation or a rotation gives is a credential.
LEMMA CredMake ==
    /\ NoCred \in Credentials
    /\ \A g \in Grants, n \in 0..MaxRotations :
          <<g, n>> \in Credentials /\ <<g, n>> # NoCred
  BY ConnectionsConstants DEF Credentials, NoCred, Grants, NoGrant

\* Rotating an accepted credential gives a credential of the same grant.
LEMMA Rotated ==
    ASSUME Inductive, NEW t \in Refreshers, pc[t] = "renew", held[t][2] < MaxRotations
    PROVE /\ held[t][1] \in Grants
          /\ held[t][2] + 1 \in 0..MaxRotations
          /\ <<held[t][1], held[t][2] + 1>> \in Credentials
          /\ <<held[t][1], held[t][2] + 1>> # NoCred
<1>1. held[t] \in Credentials /\ held[t] # NoCred
  BY DEF Inductive, TypeOK, TasksTyped, LocalsAreSet, Tasks
<1>2. held[t][1] \in Grants /\ held[t][2] + 1 \in 0..MaxRotations
  BY <1>1, CredShape, ConnectionsConstants
<1> QED BY <1>2, CredMake

\* The row comes and goes as a whole.
LEMMA RowTypedStep == ASSUME Inductive, [Next]_vars PROVE RowTyped'
<1> USE ConnectionsConstants DEF Inductive, TypeOK, rowVars, localVars, Tasks, Refreshers, Grants, NoGrant
<1>1. ASSUME NEW c \in Connectors, Authorize(c) PROVE RowTyped'
  BY <1>1, CredShape, CredMake DEF RowTyped, Authorize, Removing
<1>2. ASSUME NEW c \in Connectors, Lookup(c) PROVE RowTyped'
  BY <1>2, CredShape DEF RowTyped, Lookup, Removing
<1>3. ASSUME NEW c \in Connectors, ReadPrior(c) PROVE RowTyped'
  BY <1>3 DEF RowTyped, ReadPrior, RemovalOwnsRow, Removing
<1>4. ASSUME NEW c \in Connectors, PutNew(c) PROVE RowTyped'
  BY <1>4 DEF RowTyped, PutNew, Removing
<1>5. ASSUME NEW c \in Connectors, PutFails(c) PROVE RowTyped'
  BY <1>5, CredMake DEF RowTyped, PutFails, RemovalOwnsRow, Removing
<1>6. ASSUME NEW c \in Connectors, Upsert(c) PROVE RowTyped'
  BY <1>6, CredShape, CredMake DEF RowTyped, Upsert, TasksTyped, LocalsAreSet, Statuses, Removing
<1>7. ASSUME NEW c \in Connectors, UpsertFails(c) PROVE RowTyped'
  BY <1>7 DEF RowTyped, UpsertFails, RemovalOwnsRow, Removing
<1>8. ASSUME NEW c \in Connectors, Undo(c) PROVE RowTyped'
  BY <1>8, CredMake DEF RowTyped, Undo, Statuses, RemovalOwnsRow, Removing
<1>9. CASE HealthCheck
  BY <1>9 DEF RowTyped, HealthCheck, Removing
<1>10. ASSUME NEW t \in Refreshers, EnterRefresh(t) PROVE RowTyped'
  BY <1>10 DEF RowTyped, EnterRefresh, RemovalOwnsRow, Removing
<1>11. ASSUME NEW t \in Refreshers, RefuseRefresh(t) PROVE RowTyped'
  BY <1>11, CredMake DEF RowTyped, RefuseRefresh, Statuses, RemovalOwnsRow, Removing
<1>12. ASSUME NEW t \in Refreshers, GetCredential(t) PROVE RowTyped'
  BY <1>12 DEF RowTyped, GetCredential, Removing
<1>13. ASSUME NEW t \in Refreshers, GetMissing(t) PROVE RowTyped'
  BY <1>13 DEF RowTyped, GetMissing, AbandonRefresh, SetRefreshState, TasksTyped, LockDiscipline, Refreshing, RefreshOwnsConnection, Statuses
<1>14. ASSUME NEW t \in Refreshers, GetLocked(t) PROVE RowTyped'
  BY <1>14 DEF RowTyped, GetLocked, AbandonRefresh, SetRefreshState, RowIsMine, TasksTyped, LockDiscipline, Refreshing, RefreshOwnsConnection, Statuses
<1>15. ASSUME NEW t \in Refreshers, Renew(t) PROVE RowTyped'
  BY <1>15, CredShape, CredMake DEF RowTyped, Renew, RemovalOwnsRow, Removing
<1>16. ASSUME NEW t \in Refreshers, RenewUnavailable(t) PROVE RowTyped'
  BY <1>16 DEF RowTyped, RenewUnavailable, AbandonRefresh, SetRefreshState, TasksTyped, LockDiscipline, Refreshing, RefreshOwnsConnection, Statuses
<1>17. ASSUME NEW t \in Refreshers, RenewRefused(t) PROVE RowTyped'
  BY <1>17 DEF RowTyped, RenewRefused, AbandonRefresh, SetRefreshState, RowIsMine, TasksTyped, LockDiscipline, Refreshing, RefreshOwnsConnection, Statuses
<1>18. ASSUME NEW t \in Refreshers, RenewLost(t) PROVE RowTyped'
  BY <1>18 DEF RowTyped, RenewLost, Fault, AbandonRefresh, Accepted, Done, SetRefreshState, Unlock, RowIsMine, TasksTyped, LockDiscipline, Refreshing, RefreshOwnsConnection, Statuses
<1>19. ASSUME NEW t \in Refreshers, SaveCredential(t) PROVE RowTyped'
  BY <1>19 DEF RowTyped, SaveCredential, Removing
<1>20. ASSUME NEW t \in Refreshers, SaveFails(t) PROVE RowTyped'
  BY <1>20 DEF RowTyped, SaveFails, AbandonRefresh, SetRefreshState, RowIsMine, TasksTyped, LockDiscipline, Refreshing, RefreshOwnsConnection, Statuses
<1>21. ASSUME NEW t \in Refreshers, MarkConnected(t) PROVE RowTyped'
  BY <1>21 DEF RowTyped, MarkConnected, SetRefreshState, LockDiscipline, Refreshing, RefreshOwnsConnection, Statuses
<1>22. ASSUME NEW t \in Refreshers, RecordFails(t) PROVE RowTyped'
  BY <1>22, CredMake DEF RowTyped, RecordFails, Statuses, RemovalOwnsRow, Removing
<1>23. ASSUME NEW a \in Callers, LoadConnection(a) PROVE RowTyped'
  BY <1>23 DEF RowTyped, LoadConnection, Removing
<1>24. ASSUME NEW a \in Callers, LoadToken(a) PROVE RowTyped'
  BY <1>24 DEF RowTyped, LoadToken, Removing
<1>25. ASSUME NEW a \in Callers, LoadTokenFails(a) PROVE RowTyped'
  BY <1>25, CredMake DEF RowTyped, LoadTokenFails, RemovalOwnsRow, Removing
<1>26. ASSUME NEW a \in Callers, NEW n \in {0, 1}, Answer(a, n) PROVE RowTyped'
  BY <1>26, CredMake DEF RowTyped, Answer, Removing
<1>27. ASSUME NEW a \in Callers, Unauthorized(a) PROVE RowTyped'
  BY <1>27, CredMake DEF RowTyped, Unauthorized, Removing
<1>28. ASSUME NEW a \in Callers, UnauthorizedAgain(a) PROVE RowTyped'
  BY <1>28, CredMake DEF RowTyped, UnauthorizedAgain, Removing
<1>29. ASSUME NEW d \in Disconnectors, AskDisconnect(d) PROVE RowTyped'
  BY <1>29 DEF RowTyped, AskDisconnect, Removing
<1>30. ASSUME NEW d \in Disconnectors, Revoke(d) PROVE RowTyped'
  BY <1>30 DEF RowTyped, Revoke, LocalsAreSet, Statuses, Removing
<1>31. ASSUME NEW d \in Disconnectors, RevokeFails(d) PROVE RowTyped'
  BY <1>31, CredMake DEF RowTyped, RevokeFails, RemovalOwnsRow, Removing
<1>32. ASSUME NEW d \in Disconnectors, DeleteCredential(d) PROVE RowTyped'
  BY <1>32, CredMake DEF RowTyped, DeleteCredential, Removing
<1>33. ASSUME NEW d \in Disconnectors, DeleteFails(d) PROVE RowTyped'
  BY <1>33, CredMake DEF RowTyped, DeleteFails, Statuses, RemovalOwnsRow, Removing
<1>34. ASSUME NEW d \in Disconnectors, DeleteRow(d) PROVE RowTyped'
  BY <1>34, CredMake DEF RowTyped, DeleteRow, Done, Unlock, TasksTyped, LocalsAreSet, Statuses, RemovalOwnsRow, Removing
<1>35. ASSUME NEW d \in Disconnectors, DeleteRowFails(d) PROVE RowTyped'
  BY <1>35, CredMake DEF RowTyped, DeleteRowFails, Statuses, RemovalOwnsRow, Removing
<1>36. CASE Crash
  BY <1>36, CredMake DEF RowTyped, Crash, Removing
<1>37. CASE UNCHANGED vars
  BY <1>37 DEF vars, RowTyped
<1> QED BY <1>1, <1>2, <1>3, <1>4, <1>5, <1>6, <1>7, <1>8, <1>9, <1>10, <1>11, <1>12, <1>13, <1>14, <1>15, <1>16, <1>17, <1>18, <1>19, <1>20, <1>21, <1>22, <1>23, <1>24, <1>25, <1>26, <1>27, <1>28, <1>29, <1>30, <1>31, <1>32, <1>33, <1>34, <1>35, <1>36, <1>37 DEF Next, ConnectStep, RefreshStep, LockStep, ActionStep, RevokeStep, DisconnectStep

\* Store, provider and locks keep their types.
LEMMA StoreTypedStep == ASSUME Inductive, [Next]_vars PROVE StoreTyped'
<1> USE ConnectionsConstants DEF Inductive, TypeOK, rowVars, localVars, Tasks, Refreshers, Grants, NoGrant
<1>1. ASSUME NEW c \in Connectors, Authorize(c) PROVE StoreTyped'
  BY <1>1, CredShape, CredMake DEF StoreTyped, Authorize, Goto, RefreshOwnsConnection, RemovalOwnsRow, Refreshing, Removing
<1>2. ASSUME NEW c \in Connectors, Lookup(c) PROVE StoreTyped'
  BY <1>2, CredShape DEF StoreTyped, Lookup, RefreshOwnsConnection, RemovalOwnsRow, Refreshing, Removing
<1>3. ASSUME NEW c \in Connectors, ReadPrior(c) PROVE StoreTyped'
  BY <1>3 DEF StoreTyped, ReadPrior, Fault
<1>4. ASSUME NEW c \in Connectors, PutNew(c) PROVE StoreTyped'
  BY <1>4 DEF StoreTyped, PutNew, TasksTyped, RefreshOwnsConnection, RemovalOwnsRow, Refreshing, Removing
<1>5. ASSUME NEW c \in Connectors, PutFails(c) PROVE StoreTyped'
  BY <1>5, CredMake DEF StoreTyped, PutFails, Fault, LockDiscipline, RefreshOwnsConnection, RemovalOwnsRow, Refreshing, Removing
<1>6. ASSUME NEW c \in Connectors, Upsert(c) PROVE StoreTyped'
  BY <1>6, CredShape, CredMake DEF StoreTyped, Upsert, RefreshOwnsConnection, RemovalOwnsRow, Refreshing, Removing
<1>7. ASSUME NEW c \in Connectors, UpsertFails(c) PROVE StoreTyped'
  BY <1>7 DEF StoreTyped, UpsertFails, Fault, LockDiscipline, RefreshOwnsConnection, RemovalOwnsRow, Refreshing, Removing
<1>8. ASSUME NEW c \in Connectors, Undo(c) PROVE StoreTyped'
  <2>1. store' \in [Grants -> Credentials]
    BY <1>8, CredMake DEF Undo, StoreTyped, TasksTyped
  <2> QED BY <1>8, <2>1 DEF Undo, Fault, StoreTyped
<1>9. CASE HealthCheck
  BY <1>9 DEF StoreTyped, HealthCheck, RefreshOwnsConnection, RemovalOwnsRow, Refreshing, Removing
<1>10. ASSUME NEW t \in Refreshers, EnterRefresh(t) PROVE StoreTyped'
  BY <1>10 DEF StoreTyped, EnterRefresh, LockDiscipline, RefreshOwnsConnection, RemovalOwnsRow, Refreshing, Removing
<1>11. ASSUME NEW t \in Refreshers, RefuseRefresh(t) PROVE StoreTyped'
  BY <1>11, CredMake DEF StoreTyped, RefuseRefresh, Done, Fault, RowTyped, LockDiscipline, RefreshOwnsConnection, RemovalOwnsRow, Refreshing, Removing
<1>12. ASSUME NEW t \in Refreshers, GetCredential(t) PROVE StoreTyped'
  BY <1>12 DEF StoreTyped, GetCredential, RefreshOwnsConnection, RemovalOwnsRow, Refreshing, Removing
<1>13. ASSUME NEW t \in Refreshers, GetMissing(t) PROVE StoreTyped'
  BY <1>13, CredMake DEF StoreTyped, GetMissing, AbandonRefresh, Unlock, TasksTyped, LocalsAreSet, RowTyped, LockDiscipline, RefreshOwnsConnection, RemovalOwnsRow, Refreshing, Removing
<1>14. ASSUME NEW t \in Refreshers, GetLocked(t) PROVE StoreTyped'
  BY <1>14, CredMake DEF StoreTyped, GetLocked, Fault, AbandonRefresh, Done, SetRefreshState, Unlock, RowIsMine, TasksTyped, LocalsAreSet, RowTyped, LockDiscipline, RefreshOwnsConnection, RemovalOwnsRow, Refreshing, Removing
<1>15. ASSUME NEW t \in Refreshers, Renew(t) PROVE StoreTyped'
  BY <1>15, Rotated DEF StoreTyped, Renew
<1>16. ASSUME NEW t \in Refreshers, RenewUnavailable(t) PROVE StoreTyped'
  BY <1>16, CredMake DEF StoreTyped, RenewUnavailable, AbandonRefresh, Unlock, TasksTyped, LocalsAreSet, RowTyped, LockDiscipline, RefreshOwnsConnection, RemovalOwnsRow, Refreshing, Removing
<1>17. ASSUME NEW t \in Refreshers, RenewRefused(t) PROVE StoreTyped'
  BY <1>17, CredMake DEF StoreTyped, RenewRefused, AbandonRefresh, Accepted, Done, SetRefreshState, Unlock, RowIsMine, TasksTyped, LocalsAreSet, RowTyped, LockDiscipline, RefreshOwnsConnection, RemovalOwnsRow, Refreshing, Removing
<1>18. ASSUME NEW t \in Refreshers, RenewLost(t) PROVE StoreTyped'
  <2>1. live' \in [Grants -> 0..MaxRotations]
    BY <1>18, Rotated DEF RenewLost, StoreTyped
  <2>2. lock' \in [Grants -> Tasks \cup {Nobody}]
    BY <1>18 DEF RenewLost, StoreTyped, AbandonRefresh, Unlock
  <2>3. grants' \in 0..MaxGrants /\ faults' \in 0..MaxFaults /\ store' = store
    BY <1>18 DEF RenewLost, StoreTyped, AbandonRefresh, Fault
  <2> QED BY <2>1, <2>2, <2>3 DEF StoreTyped
<1>19. ASSUME NEW t \in Refreshers, SaveCredential(t) PROVE StoreTyped'
  BY <1>19 DEF StoreTyped, SaveCredential, TasksTyped, RefreshOwnsConnection, RemovalOwnsRow, Refreshing, Removing
<1>20. ASSUME NEW t \in Refreshers, SaveFails(t) PROVE StoreTyped'
  BY <1>20, CredMake DEF StoreTyped, SaveFails, Fault, AbandonRefresh, Done, SetRefreshState, Unlock, RowIsMine, TasksTyped, LocalsAreSet, RowTyped, LockDiscipline, RefreshOwnsConnection, RemovalOwnsRow, Refreshing, Removing
<1>21. ASSUME NEW t \in Refreshers, MarkConnected(t) PROVE StoreTyped'
  BY <1>21, CredMake DEF StoreTyped, MarkConnected, Unlock, LocalsAreSet, RowTyped, LockDiscipline, RefreshOwnsConnection, RemovalOwnsRow, Refreshing, Removing
<1>22. ASSUME NEW t \in Refreshers, RecordFails(t) PROVE StoreTyped'
  BY <1>22, CredMake DEF StoreTyped, RecordFails, Fault, Unlock, RowTyped, LockDiscipline, RefreshOwnsConnection, RemovalOwnsRow, Refreshing, Removing
<1>23. ASSUME NEW a \in Callers, LoadConnection(a) PROVE StoreTyped'
  BY <1>23 DEF StoreTyped, LoadConnection, RefreshOwnsConnection, RemovalOwnsRow, Refreshing, Removing
<1>24. ASSUME NEW a \in Callers, LoadToken(a) PROVE StoreTyped'
  BY <1>24 DEF StoreTyped, LoadToken, RefreshOwnsConnection, RemovalOwnsRow, Refreshing, Removing
<1>25. ASSUME NEW a \in Callers, LoadTokenFails(a) PROVE StoreTyped'
  BY <1>25 DEF StoreTyped, LoadTokenFails, Fault
<1>26. ASSUME NEW a \in Callers, NEW n \in {0, 1}, Answer(a, n) PROVE StoreTyped'
  BY <1>26, CredMake DEF StoreTyped, Answer, RefreshOwnsConnection, RemovalOwnsRow, Refreshing, Removing
<1>27. ASSUME NEW a \in Callers, Unauthorized(a) PROVE StoreTyped'
  BY <1>27, CredMake DEF StoreTyped, Unauthorized, RefreshOwnsConnection, RemovalOwnsRow, Refreshing, Removing
<1>28. ASSUME NEW a \in Callers, UnauthorizedAgain(a) PROVE StoreTyped'
  BY <1>28, CredMake DEF StoreTyped, UnauthorizedAgain, RefreshOwnsConnection, RemovalOwnsRow, Refreshing, Removing
<1>29. ASSUME NEW d \in Disconnectors, AskDisconnect(d) PROVE StoreTyped'
  BY <1>29 DEF StoreTyped, AskDisconnect, RefreshOwnsConnection, RemovalOwnsRow, Refreshing, Removing
<1>30. ASSUME NEW d \in Disconnectors, Revoke(d) PROVE StoreTyped'
  BY <1>30 DEF StoreTyped, Revoke, RefreshOwnsConnection, RemovalOwnsRow, Refreshing, Removing
<1>31. ASSUME NEW d \in Disconnectors, RevokeFails(d) PROVE StoreTyped'
  BY <1>31 DEF StoreTyped, RevokeFails, Fault
<1>32. ASSUME NEW d \in Disconnectors, DeleteCredential(d) PROVE StoreTyped'
  BY <1>32, CredMake DEF StoreTyped, DeleteCredential, RefreshOwnsConnection, RemovalOwnsRow, Refreshing, Removing
<1>33. ASSUME NEW d \in Disconnectors, DeleteFails(d) PROVE StoreTyped'
  BY SMTT(30), <1>33, CredMake DEF StoreTyped, DeleteFails, Done, Fault, Unlock, TasksTyped, RowTyped, LockDiscipline, RefreshOwnsConnection, RemovalOwnsRow, Refreshing, Removing
<1>34. ASSUME NEW d \in Disconnectors, DeleteRow(d) PROVE StoreTyped'
  BY <1>34, CredMake DEF StoreTyped, DeleteRow, Unlock, LockDiscipline, RefreshOwnsConnection, RemovalOwnsRow, Refreshing, Removing
<1>35. ASSUME NEW d \in Disconnectors, DeleteRowFails(d) PROVE StoreTyped'
  BY <1>35, CredMake DEF StoreTyped, DeleteRowFails, Fault, Unlock, RowTyped, LockDiscipline, RefreshOwnsConnection, RemovalOwnsRow, Refreshing, Removing
<1>36. CASE Crash
  BY <1>36, CredMake DEF StoreTyped, Crash, Fault, RefreshOwnsConnection, RemovalOwnsRow, Refreshing, Removing
<1>37. CASE UNCHANGED vars
  BY <1>37 DEF vars, StoreTyped, RemovalOwnsRow, Refreshing, Removing
<1> QED BY <1>1, <1>2, <1>3, <1>4, <1>5, <1>6, <1>7, <1>8, <1>9, <1>10, <1>11, <1>12, <1>13, <1>14, <1>15, <1>16, <1>17, <1>18, <1>19, <1>20, <1>21, <1>22, <1>23, <1>24, <1>25, <1>26, <1>27, <1>28, <1>29, <1>30, <1>31, <1>32, <1>33, <1>34, <1>35, <1>36, <1>37 DEF Next, ConnectStep, RefreshStep, LockStep, ActionStep, RevokeStep, DisconnectStep

\* Each task moves between its steps and holds grants and credentials.
LEMMA TasksTypedStep == ASSUME Inductive, [Next]_vars PROVE TasksTyped'
<1> USE ConnectionsConstants DEF Inductive, TypeOK, rowVars, localVars, Tasks, Refreshers, Grants, NoGrant
<1>1. ASSUME NEW c \in Connectors, Authorize(c) PROVE TasksTyped'
  BY <1>1, CredShape, CredMake DEF TasksTyped, Authorize, Goto, StoreTyped, Refreshing, Steps
<1>2. ASSUME NEW c \in Connectors, Lookup(c) PROVE TasksTyped'
  <2>1. held[c] \in Credentials /\ held[c] # NoCred
    BY <1>2 DEF Lookup, TasksTyped, LocalsAreSet
  <2>2. held[c][1] \in Grants
    BY <2>1, CredShape
  <2>3. ref' \in [Tasks -> 0..MaxGrants]
    BY <1>2, <2>2 DEF Lookup, TasksTyped, RowTyped
  <2> QED BY <1>2, <2>3 DEF Lookup, Goto, TasksTyped, Steps
<1>3. ASSUME NEW c \in Connectors, ReadPrior(c) PROVE TasksTyped'
  <2>1. store[ref[c]] \in Credentials
    BY <1>3 DEF ReadPrior, LocalsAreSet, StoreTyped
  <2>2. prior' \in [Tasks -> Credentials]
    BY <1>3, <2>1 DEF ReadPrior, TasksTyped
  <2> QED BY <1>3, <2>2 DEF ReadPrior, Goto, TasksTyped, Steps
<1>4. ASSUME NEW c \in Connectors, PutNew(c) PROVE TasksTyped'
  BY <1>4 DEF TasksTyped, PutNew, Goto, Refreshing, Steps
<1>5. ASSUME NEW c \in Connectors, PutFails(c) PROVE TasksTyped'
  BY <1>5, CredMake DEF TasksTyped, PutFails, Done, RefreshOwnsConnection, Refreshing, Steps
<1>6. ASSUME NEW c \in Connectors, Upsert(c) PROVE TasksTyped'
  BY <1>6, CredShape, CredMake DEF TasksTyped, Upsert, Done, Refreshing, Steps
<1>7. ASSUME NEW c \in Connectors, UpsertFails(c) PROVE TasksTyped'
  BY <1>7 DEF TasksTyped, UpsertFails, Goto, RefreshOwnsConnection, Refreshing, Steps
<1>8. ASSUME NEW c \in Connectors, Undo(c) PROVE TasksTyped'
  BY <1>8, CredMake DEF TasksTyped, Undo, Done, Fault, IsNew, LocalsAreSet, RefreshOwnsConnection, Refreshing, Steps
<1>9. CASE HealthCheck
  BY <1>9 DEF TasksTyped, HealthCheck, Goto, RowTyped, Refreshing, Steps
<1>10. ASSUME NEW t \in Refreshers, EnterRefresh(t) PROVE TasksTyped'
  BY <1>10 DEF TasksTyped, EnterRefresh, Goto, RowTyped, RefreshOwnsConnection, Refreshing, Steps
<1>11. ASSUME NEW t \in Refreshers, RefuseRefresh(t) PROVE TasksTyped'
  BY <1>11, CredMake DEF TasksTyped, RefuseRefresh, Done, LocalsAreSet, RefreshOwnsConnection, Refreshing, Steps
<1>12. ASSUME NEW t \in Refreshers, GetCredential(t) PROVE TasksTyped'
  <2>1. ref[t] \in Grants
    BY <1>12 DEF GetCredential, LockDiscipline, RefreshOwnsConnection, Refreshing, RowTyped
  <2>2. store[ref[t]] \in Credentials
    BY <2>1 DEF StoreTyped
  <2> QED BY <1>12, <2>2 DEF GetCredential, Goto, TasksTyped, Steps
<1>13. ASSUME NEW t \in Refreshers, GetMissing(t) PROVE TasksTyped'
  BY <1>13, CredMake DEF TasksTyped, GetMissing, AbandonRefresh, Done, RowTyped, StoreTyped, LocalsAreSet, RefreshOwnsConnection, Refreshing, Steps
<1>14. ASSUME NEW t \in Refreshers, GetLocked(t) PROVE TasksTyped'
  BY <1>14, CredMake DEF TasksTyped, GetLocked, AbandonRefresh, Done, SetRefreshState, RowIsMine, RowTyped, StoreTyped, LocalsAreSet, RefreshOwnsConnection, Refreshing, Steps
<1>15. ASSUME NEW t \in Refreshers, Renew(t) PROVE TasksTyped'
  BY <1>15, Rotated DEF TasksTyped, Renew, Goto, Steps
<1>16. ASSUME NEW t \in Refreshers, RenewUnavailable(t) PROVE TasksTyped'
  BY <1>16, CredMake DEF TasksTyped, RenewUnavailable, AbandonRefresh, Done, RowTyped, StoreTyped, LocalsAreSet, RefreshOwnsConnection, Refreshing, Steps
<1>17. ASSUME NEW t \in Refreshers, RenewRefused(t) PROVE TasksTyped'
  BY <1>17, CredMake DEF TasksTyped, RenewRefused, AbandonRefresh, Done, RowIsMine, RowTyped, StoreTyped, LocalsAreSet, RefreshOwnsConnection, Refreshing, Steps
<1>18. ASSUME NEW t \in Refreshers, RenewLost(t) PROVE TasksTyped'
  BY <1>18, CredMake DEF TasksTyped, RenewLost, AbandonRefresh, Done, Unlock, RowIsMine, Steps
<1>19. ASSUME NEW t \in Refreshers, SaveCredential(t) PROVE TasksTyped'
  BY <1>19 DEF TasksTyped, SaveCredential, Goto, Refreshing, Steps
<1>20. ASSUME NEW t \in Refreshers, SaveFails(t) PROVE TasksTyped'
  BY <1>20, CredMake DEF TasksTyped, SaveFails, AbandonRefresh, Done, RowIsMine, RowTyped, StoreTyped, LocalsAreSet, RefreshOwnsConnection, Refreshing, Steps
<1>21. ASSUME NEW t \in Refreshers, MarkConnected(t) PROVE TasksTyped'
  BY <1>21, CredMake DEF TasksTyped, MarkConnected, Goto, SetRefreshState, StoreTyped, LocalsAreSet, RefreshOwnsConnection, Refreshing, Steps
<1>22. ASSUME NEW t \in Refreshers, RecordFails(t) PROVE TasksTyped'
  BY <1>22, CredMake DEF TasksTyped, RecordFails, Done, LocalsAreSet, RefreshOwnsConnection, Refreshing, Steps
<1>23. ASSUME NEW a \in Callers, LoadConnection(a) PROVE TasksTyped'
  BY <1>23 DEF TasksTyped, LoadConnection, Goto, RowTyped, Refreshing, Steps
<1>24. ASSUME NEW a \in Callers, LoadToken(a) PROVE TasksTyped'
  BY <1>24 DEF TasksTyped, LoadToken, Goto, StoreTyped, LocalsAreSet, Refreshing, Steps
<1>25. ASSUME NEW a \in Callers, LoadTokenFails(a) PROVE TasksTyped'
  BY <1>25, CredMake DEF TasksTyped, LoadTokenFails, Done, Fault, RefreshOwnsConnection, Refreshing, Steps
<1>26. ASSUME NEW a \in Callers, NEW n \in {0, 1}, Answer(a, n) PROVE TasksTyped'
  <2>1. applied' \in [Tasks -> Nat]
    BY <1>26 DEF Answer, TasksTyped
  <2> QED BY <1>26, <2>1, CredMake DEF Answer, Done, TasksTyped, Steps
<1>27. ASSUME NEW a \in Callers, Unauthorized(a) PROVE TasksTyped'
  BY <1>27, CredMake DEF TasksTyped, Unauthorized, Goto, Refreshing, Steps
<1>28. ASSUME NEW a \in Callers, UnauthorizedAgain(a) PROVE TasksTyped'
  BY <1>28, CredMake DEF TasksTyped, UnauthorizedAgain, Done, Refreshing, Steps
<1>29. ASSUME NEW d \in Disconnectors, AskDisconnect(d) PROVE TasksTyped'
  BY <1>29 DEF TasksTyped, AskDisconnect, Goto, RowTyped, Refreshing, Steps
<1>30. ASSUME NEW d \in Disconnectors, Revoke(d) PROVE TasksTyped'
  BY <1>30 DEF TasksTyped, Revoke, Goto, RowTyped, Refreshing, Steps
<1>31. ASSUME NEW d \in Disconnectors, RevokeFails(d) PROVE TasksTyped'
  BY <1>31, CredMake DEF TasksTyped, RevokeFails, Done, RefreshOwnsConnection, Refreshing, Steps
<1>32. ASSUME NEW d \in Disconnectors, DeleteCredential(d) PROVE TasksTyped'
  BY <1>32, CredMake DEF TasksTyped, DeleteCredential, Goto, Refreshing, Steps
<1>33. ASSUME NEW d \in Disconnectors, DeleteFails(d) PROVE TasksTyped'
  BY <1>33, CredMake DEF TasksTyped, DeleteFails, Done, LocalsAreSet, RefreshOwnsConnection, Refreshing, Steps
<1>34. ASSUME NEW d \in Disconnectors, DeleteRow(d) PROVE TasksTyped'
  BY <1>34, CredMake DEF TasksTyped, DeleteRow, Done, RefreshOwnsConnection, Refreshing, Steps
<1>35. ASSUME NEW d \in Disconnectors, DeleteRowFails(d) PROVE TasksTyped'
  BY <1>35, CredMake DEF TasksTyped, DeleteRowFails, Done, LocalsAreSet, RefreshOwnsConnection, Refreshing, Steps
<1>36. CASE Crash
  BY <1>36, CredMake DEF TasksTyped, Crash, Refreshing, Steps
<1>37. CASE UNCHANGED vars
  BY <1>37 DEF vars, TasksTyped, Steps
<1> QED BY <1>1, <1>2, <1>3, <1>4, <1>5, <1>6, <1>7, <1>8, <1>9, <1>10, <1>11, <1>12, <1>13, <1>14, <1>15, <1>16, <1>17, <1>18, <1>19, <1>20, <1>21, <1>22, <1>23, <1>24, <1>25, <1>26, <1>27, <1>28, <1>29, <1>30, <1>31, <1>32, <1>33, <1>34, <1>35, <1>36, <1>37 DEF Next, ConnectStep, RefreshStep, LockStep, ActionStep, RevokeStep, DisconnectStep

\* A task that leaves its section gives back the lock it had.
LEMMA LeaveSection ==
    ASSUME Inductive, NEW t \in Tasks, Refreshing(t) \/ Removing(t), Unlock(t), Done(t)
    PROVE LockDiscipline'
  BY SMTT(30), ConnectionsConstants DEF Inductive, TypeOK, TasksTyped, StoreTyped, LockDiscipline,
     Refreshing, Removing, Unlock, Done, Tasks, Refreshers, Grants, NoGrant

\* The lock is taken on entering a section and given back on leaving it.
LEMMA LockDisciplineStep == ASSUME Inductive, [Next]_vars PROVE LockDiscipline'
<1> USE ConnectionsConstants DEF Inductive, TypeOK, rowVars, localVars, Tasks, Refreshers, Grants, NoGrant
<1>1. ASSUME NEW c \in Connectors, Authorize(c) PROVE LockDiscipline'
  BY <1>1 DEF LockDiscipline, Authorize, Goto, Refreshing, Removing
<1>2. ASSUME NEW c \in Connectors, Lookup(c) PROVE LockDiscipline'
  BY <1>2 DEF LockDiscipline, Lookup, Goto, Refreshing, Removing
<1>3. ASSUME NEW c \in Connectors, ReadPrior(c) PROVE LockDiscipline'
  BY <1>3 DEF LockDiscipline, ReadPrior, Goto, LocalsAreSet, Refreshing, Removing
<1>4. ASSUME NEW c \in Connectors, PutNew(c) PROVE LockDiscipline'
  BY <1>4 DEF LockDiscipline, PutNew, Goto, Refreshing, Removing
<1>5. ASSUME NEW c \in Connectors, PutFails(c) PROVE LockDiscipline'
  BY <1>5 DEF LockDiscipline, PutFails, Done, LocalsAreSet, Refreshing, Removing
<1>6. ASSUME NEW c \in Connectors, Upsert(c) PROVE LockDiscipline'
  BY <1>6 DEF LockDiscipline, Upsert, Done, Refreshing, Removing
<1>7. ASSUME NEW c \in Connectors, UpsertFails(c) PROVE LockDiscipline'
  BY <1>7 DEF LockDiscipline, UpsertFails, Goto, LocalsAreSet, Refreshing, Removing
<1>8. ASSUME NEW c \in Connectors, Undo(c) PROVE LockDiscipline'
  BY <1>8 DEF LockDiscipline, Undo, Done, TasksTyped, LocalsAreSet, Refreshing, Removing
<1>9. CASE HealthCheck
  BY <1>9 DEF LockDiscipline, HealthCheck, Goto, Refreshing, Removing
<1>10. ASSUME NEW t \in Refreshers, EnterRefresh(t) PROVE LockDiscipline'
  BY <1>10 DEF LockDiscipline, EnterRefresh, Goto, RowIsMine, TasksTyped, StoreTyped, Refreshing, Removing, LocalsAreSet
<1>11. ASSUME NEW t \in Refreshers, RefuseRefresh(t) PROVE LockDiscipline'
  BY <1>11 DEF LockDiscipline, RefuseRefresh, Done, TasksTyped, LocalsAreSet, Refreshing, Removing
<1>12. ASSUME NEW t \in Refreshers, GetCredential(t) PROVE LockDiscipline'
  BY <1>12 DEF LockDiscipline, GetCredential, Goto, RowTyped, Refreshing, Removing
<1>13. ASSUME NEW t \in Refreshers, GetMissing(t) PROVE LockDiscipline'
  BY <1>13, LeaveSection DEF GetMissing, AbandonRefresh, Refreshing
<1>14. ASSUME NEW t \in Refreshers, GetLocked(t) PROVE LockDiscipline'
  BY <1>14, LeaveSection DEF GetLocked, AbandonRefresh, Refreshing
<1>15. ASSUME NEW t \in Refreshers, Renew(t) PROVE LockDiscipline'
  BY <1>15 DEF LockDiscipline, Renew, Goto, Accepted, TasksTyped, Refreshing, Removing
<1>16. ASSUME NEW t \in Refreshers, RenewUnavailable(t) PROVE LockDiscipline'
  BY <1>16, LeaveSection DEF RenewUnavailable, AbandonRefresh, Refreshing
<1>17. ASSUME NEW t \in Refreshers, RenewRefused(t) PROVE LockDiscipline'
  BY <1>17, LeaveSection DEF RenewRefused, AbandonRefresh, Refreshing
<1>18. ASSUME NEW t \in Refreshers, RenewLost(t) PROVE LockDiscipline'
  BY <1>18, LeaveSection DEF RenewLost, AbandonRefresh, Refreshing
<1>19. ASSUME NEW t \in Refreshers, SaveCredential(t) PROVE LockDiscipline'
  BY <1>19 DEF LockDiscipline, SaveCredential, Goto, RowTyped, Refreshing, Removing
<1>20. ASSUME NEW t \in Refreshers, SaveFails(t) PROVE LockDiscipline'
  BY <1>20, LeaveSection DEF SaveFails, AbandonRefresh, Refreshing
<1>21. ASSUME NEW t \in Refreshers, MarkConnected(t) PROVE LockDiscipline'
  BY SMTT(30), <1>21 DEF LockDiscipline, MarkConnected, Goto, SetRefreshState, Unlock, StoreTyped, TasksTyped, LocalsAreSet, Refreshing, Removing
<1>22. ASSUME NEW t \in Refreshers, RecordFails(t) PROVE LockDiscipline'
  BY <1>22, LeaveSection DEF RecordFails, Refreshing
<1>23. ASSUME NEW a \in Callers, LoadConnection(a) PROVE LockDiscipline'
  BY <1>23 DEF LockDiscipline, LoadConnection, Goto, Refreshing, Removing
<1>24. ASSUME NEW a \in Callers, LoadToken(a) PROVE LockDiscipline'
  BY <1>24 DEF LockDiscipline, LoadToken, Goto, Refreshing, Removing
<1>25. ASSUME NEW a \in Callers, LoadTokenFails(a) PROVE LockDiscipline'
  BY <1>25 DEF LockDiscipline, LoadTokenFails, Done, LocalsAreSet, Refreshing, Removing
<1>26. ASSUME NEW a \in Callers, NEW n \in {0, 1}, Answer(a, n) PROVE LockDiscipline'
  BY <1>26 DEF LockDiscipline, Answer, Done, Refreshing, Removing
<1>27. ASSUME NEW a \in Callers, Unauthorized(a) PROVE LockDiscipline'
  BY <1>27 DEF LockDiscipline, Unauthorized, Goto, Refreshing, Removing
<1>28. ASSUME NEW a \in Callers, UnauthorizedAgain(a) PROVE LockDiscipline'
  BY <1>28 DEF LockDiscipline, UnauthorizedAgain, Done, Refreshing, Removing
<1>29. ASSUME NEW d \in Disconnectors, AskDisconnect(d) PROVE LockDiscipline'
  BY <1>29 DEF LockDiscipline, AskDisconnect, Goto, Refreshing, Removing
<1>30. ASSUME NEW d \in Disconnectors, Revoke(d) PROVE LockDiscipline'
  BY SMTT(30), <1>30 DEF LockDiscipline, Revoke, Goto, TasksTyped, StoreTyped, Refreshing, Removing, LocalsAreSet
<1>31. ASSUME NEW d \in Disconnectors, RevokeFails(d) PROVE LockDiscipline'
  BY <1>31 DEF LockDiscipline, RevokeFails, Done, LocalsAreSet, Refreshing, Removing
<1>32. ASSUME NEW d \in Disconnectors, DeleteCredential(d) PROVE LockDiscipline'
  BY <1>32 DEF LockDiscipline, DeleteCredential, Goto, Refreshing, Removing
<1>33. ASSUME NEW d \in Disconnectors, DeleteFails(d) PROVE LockDiscipline'
  BY <1>33, LeaveSection DEF DeleteFails, Removing
<1>34. ASSUME NEW d \in Disconnectors, DeleteRow(d) PROVE LockDiscipline'
  BY <1>34, LeaveSection DEF DeleteRow, Removing
<1>35. ASSUME NEW d \in Disconnectors, DeleteRowFails(d) PROVE LockDiscipline'
  BY <1>35, LeaveSection DEF DeleteRowFails, Removing
<1>36. CASE Crash
  BY <1>36 DEF LockDiscipline, Crash, Refreshing, Removing
<1>37. CASE UNCHANGED vars
  BY <1>37 DEF vars, LockDiscipline, RowTyped, StoreTyped, TasksTyped, LocalsAreSet, Refreshing, Removing
<1> QED BY <1>1, <1>2, <1>3, <1>4, <1>5, <1>6, <1>7, <1>8, <1>9, <1>10, <1>11, <1>12, <1>13, <1>14, <1>15, <1>16, <1>17, <1>18, <1>19, <1>20, <1>21, <1>22, <1>23, <1>24, <1>25, <1>26, <1>27, <1>28, <1>29, <1>30, <1>31, <1>32, <1>33, <1>34, <1>35, <1>36, <1>37 DEF Next, ConnectStep, RefreshStep, LockStep, ActionStep, RevokeStep, DisconnectStep

\* Revoking and deleting need the lock that the refresh holds; an upsert changes neither id nor reference of a row.
LEMMA RefreshOwnsConnectionStep == ASSUME Inductive, [Next]_vars PROVE RefreshOwnsConnection'
<1> USE ConnectionsConstants DEF Inductive, TypeOK, rowVars, localVars, Tasks, Refreshers, Grants, NoGrant
<1>1. ASSUME NEW c \in Connectors, Authorize(c) PROVE RefreshOwnsConnection'
  BY <1>1 DEF RefreshOwnsConnection, Authorize, Goto, LocalsAreSet, RemovalOwnsRow, Refreshing, Removing
<1>2. ASSUME NEW c \in Connectors, Lookup(c) PROVE RefreshOwnsConnection'
  BY <1>2 DEF RefreshOwnsConnection, Lookup, Goto, LocalsAreSet, RemovalOwnsRow, Refreshing, Removing
<1>3. ASSUME NEW c \in Connectors, ReadPrior(c) PROVE RefreshOwnsConnection'
  BY <1>3 DEF RefreshOwnsConnection, ReadPrior, Goto, LockDiscipline, LocalsAreSet, RemovalOwnsRow, Refreshing, Removing
<1>4. ASSUME NEW c \in Connectors, PutNew(c) PROVE RefreshOwnsConnection'
  BY <1>4 DEF RefreshOwnsConnection, PutNew, Goto, LocalsAreSet, RemovalOwnsRow, Refreshing, Removing
<1>5. ASSUME NEW c \in Connectors, PutFails(c) PROVE RefreshOwnsConnection'
  BY <1>5 DEF RefreshOwnsConnection, PutFails, Done, LockDiscipline, LocalsAreSet, RemovalOwnsRow, Refreshing, Removing
<1>6. ASSUME NEW c \in Connectors, Upsert(c) PROVE RefreshOwnsConnection'
  BY SMTT(30), <1>6 DEF RefreshOwnsConnection, Upsert, Done, RowTyped, StoreTyped, TasksTyped, LockDiscipline, LocalsAreSet, RemovalOwnsRow, Refreshing, Removing
<1>7. ASSUME NEW c \in Connectors, UpsertFails(c) PROVE RefreshOwnsConnection'
  BY <1>7 DEF RefreshOwnsConnection, UpsertFails, Goto, LockDiscipline, LocalsAreSet, RemovalOwnsRow, Refreshing, Removing
<1>8. ASSUME NEW c \in Connectors, Undo(c) PROVE RefreshOwnsConnection'
  BY <1>8 DEF RefreshOwnsConnection, Undo, Done, TasksTyped, LockDiscipline, LocalsAreSet, RemovalOwnsRow, Refreshing, Removing
<1>9. CASE HealthCheck
  BY <1>9 DEF RefreshOwnsConnection, HealthCheck, Goto, LocalsAreSet, RemovalOwnsRow, Refreshing, Removing
<1>10. ASSUME NEW t \in Refreshers, EnterRefresh(t) PROVE RefreshOwnsConnection'
  BY <1>10 DEF RefreshOwnsConnection, EnterRefresh, Goto, RowIsMine, RowTyped, StoreTyped, TasksTyped, LockDiscipline, LocalsAreSet, RemovalOwnsRow, Refreshing, Removing
<1>11. ASSUME NEW t \in Refreshers, RefuseRefresh(t) PROVE RefreshOwnsConnection'
  BY <1>11 DEF RefreshOwnsConnection, RefuseRefresh, Done, TasksTyped, LockDiscipline, LocalsAreSet, RemovalOwnsRow, Refreshing, Removing
<1>12. ASSUME NEW t \in Refreshers, GetCredential(t) PROVE RefreshOwnsConnection'
  BY <1>12 DEF RefreshOwnsConnection, GetCredential, Goto, LocalsAreSet, RemovalOwnsRow, Refreshing, Removing
<1>13. ASSUME NEW t \in Refreshers, GetMissing(t) PROVE RefreshOwnsConnection'
  BY <1>13 DEF RefreshOwnsConnection, GetMissing, AbandonRefresh, Done, SetRefreshState, RowTyped, StoreTyped, TasksTyped, LockDiscipline, LocalsAreSet, RemovalOwnsRow, Refreshing, Removing
<1>14. ASSUME NEW t \in Refreshers, GetLocked(t) PROVE RefreshOwnsConnection'
  BY <1>14 DEF RefreshOwnsConnection, GetLocked, AbandonRefresh, Done, SetRefreshState, RowIsMine, RowTyped, StoreTyped, TasksTyped, LockDiscipline, LocalsAreSet, RemovalOwnsRow, Refreshing, Removing
<1>15. ASSUME NEW t \in Refreshers, Renew(t) PROVE RefreshOwnsConnection'
  BY <1>15 DEF RefreshOwnsConnection, Renew, Goto, LockDiscipline, LocalsAreSet, RemovalOwnsRow, Refreshing, Removing
<1>16. ASSUME NEW t \in Refreshers, RenewUnavailable(t) PROVE RefreshOwnsConnection'
  BY <1>16 DEF RefreshOwnsConnection, RenewUnavailable, AbandonRefresh, Done, SetRefreshState, RowTyped, StoreTyped, TasksTyped, LockDiscipline, LocalsAreSet, RemovalOwnsRow, Refreshing, Removing
<1>17. ASSUME NEW t \in Refreshers, RenewRefused(t) PROVE RefreshOwnsConnection'
  BY <1>17 DEF RefreshOwnsConnection, RenewRefused, AbandonRefresh, Done, SetRefreshState, RowIsMine, RowTyped, StoreTyped, TasksTyped, LockDiscipline, LocalsAreSet, RemovalOwnsRow, Refreshing, Removing
<1>18. ASSUME NEW t \in Refreshers, RenewLost(t) PROVE RefreshOwnsConnection'
  BY SMTT(30), <1>18 DEF RefreshOwnsConnection, RenewLost, AbandonRefresh, Done, Unlock, RowIsMine, RowTyped, StoreTyped, TasksTyped, LockDiscipline, LocalsAreSet, RemovalOwnsRow, Refreshing, Removing
<1>19. ASSUME NEW t \in Refreshers, SaveCredential(t) PROVE RefreshOwnsConnection'
  BY <1>19 DEF RefreshOwnsConnection, SaveCredential, Goto, LocalsAreSet, RemovalOwnsRow, Refreshing, Removing
<1>20. ASSUME NEW t \in Refreshers, SaveFails(t) PROVE RefreshOwnsConnection'
  BY <1>20 DEF RefreshOwnsConnection, SaveFails, AbandonRefresh, Done, SetRefreshState, RowIsMine, RowTyped, StoreTyped, TasksTyped, LockDiscipline, LocalsAreSet, RemovalOwnsRow, Refreshing, Removing
<1>21. ASSUME NEW t \in Refreshers, MarkConnected(t) PROVE RefreshOwnsConnection'
  BY <1>21 DEF RefreshOwnsConnection, MarkConnected, Goto, SetRefreshState, StoreTyped, TasksTyped, LockDiscipline, LocalsAreSet, RemovalOwnsRow, Refreshing, Removing
<1>22. ASSUME NEW t \in Refreshers, RecordFails(t) PROVE RefreshOwnsConnection'
  BY <1>22 DEF RefreshOwnsConnection, RecordFails, Done, TasksTyped, LockDiscipline, LocalsAreSet, RemovalOwnsRow, Refreshing, Removing
<1>23. ASSUME NEW a \in Callers, LoadConnection(a) PROVE RefreshOwnsConnection'
  BY <1>23 DEF RefreshOwnsConnection, LoadConnection, Goto, LocalsAreSet, RemovalOwnsRow, Refreshing, Removing
<1>24. ASSUME NEW a \in Callers, LoadToken(a) PROVE RefreshOwnsConnection'
  BY <1>24 DEF RefreshOwnsConnection, LoadToken, Goto, LocalsAreSet, RemovalOwnsRow, Refreshing, Removing
<1>25. ASSUME NEW a \in Callers, LoadTokenFails(a) PROVE RefreshOwnsConnection'
  BY <1>25 DEF RefreshOwnsConnection, LoadTokenFails, Done, LockDiscipline, LocalsAreSet, RemovalOwnsRow, Refreshing, Removing
<1>26. ASSUME NEW a \in Callers, NEW n \in {0, 1}, Answer(a, n) PROVE RefreshOwnsConnection'
  BY <1>26 DEF RefreshOwnsConnection, Answer, Done, LocalsAreSet, RemovalOwnsRow, Refreshing, Removing
<1>27. ASSUME NEW a \in Callers, Unauthorized(a) PROVE RefreshOwnsConnection'
  BY <1>27 DEF RefreshOwnsConnection, Unauthorized, Goto, LocalsAreSet, RemovalOwnsRow, Refreshing, Removing
<1>28. ASSUME NEW a \in Callers, UnauthorizedAgain(a) PROVE RefreshOwnsConnection'
  BY <1>28 DEF RefreshOwnsConnection, UnauthorizedAgain, Done, LocalsAreSet, RemovalOwnsRow, Refreshing, Removing
<1>29. ASSUME NEW d \in Disconnectors, AskDisconnect(d) PROVE RefreshOwnsConnection'
  BY <1>29 DEF RefreshOwnsConnection, AskDisconnect, Goto, LocalsAreSet, RemovalOwnsRow, Refreshing, Removing
<1>30. ASSUME NEW d \in Disconnectors, Revoke(d) PROVE RefreshOwnsConnection'
  BY <1>30 DEF RefreshOwnsConnection, Revoke, Goto, RowTyped, StoreTyped, TasksTyped, LockDiscipline, LocalsAreSet, RemovalOwnsRow, Refreshing, Removing
<1>31. ASSUME NEW d \in Disconnectors, RevokeFails(d) PROVE RefreshOwnsConnection'
  BY <1>31 DEF RefreshOwnsConnection, RevokeFails, Done, LockDiscipline, LocalsAreSet, RemovalOwnsRow, Refreshing, Removing
<1>32. ASSUME NEW d \in Disconnectors, DeleteCredential(d) PROVE RefreshOwnsConnection'
  BY <1>32 DEF RefreshOwnsConnection, DeleteCredential, Goto, LocalsAreSet, RemovalOwnsRow, Refreshing, Removing
<1>33. ASSUME NEW d \in Disconnectors, DeleteFails(d) PROVE RefreshOwnsConnection'
  BY <1>33 DEF RefreshOwnsConnection, DeleteFails, Done, TasksTyped, LockDiscipline, LocalsAreSet, RemovalOwnsRow, Refreshing, Removing
<1>34. ASSUME NEW d \in Disconnectors, DeleteRow(d) PROVE RefreshOwnsConnection'
  BY <1>34 DEF RefreshOwnsConnection, DeleteRow, Done, Unlock, RowTyped, LockDiscipline, LocalsAreSet, RemovalOwnsRow, Refreshing, Removing
<1>35. ASSUME NEW d \in Disconnectors, DeleteRowFails(d) PROVE RefreshOwnsConnection'
  BY <1>35 DEF RefreshOwnsConnection, DeleteRowFails, Done, TasksTyped, LockDiscipline, LocalsAreSet, RemovalOwnsRow, Refreshing, Removing
<1>36. CASE Crash
  BY <1>36 DEF RefreshOwnsConnection, Crash, LocalsAreSet, RemovalOwnsRow, Refreshing, Removing
<1>37. CASE UNCHANGED vars
  BY <1>37 DEF vars, RefreshOwnsConnection, RemovalOwnsRow, Refreshing, Removing
<1> QED BY <1>1, <1>2, <1>3, <1>4, <1>5, <1>6, <1>7, <1>8, <1>9, <1>10, <1>11, <1>12, <1>13, <1>14, <1>15, <1>16, <1>17, <1>18, <1>19, <1>20, <1>21, <1>22, <1>23, <1>24, <1>25, <1>26, <1>27, <1>28, <1>29, <1>30, <1>31, <1>32, <1>33, <1>34, <1>35, <1>36, <1>37 DEF Next, ConnectStep, RefreshStep, LockStep, ActionStep, RevokeStep, DisconnectStep

\* Only the holder of the lock removes the row.
LEMMA RemovalOwnsRowStep == ASSUME Inductive, [Next]_vars PROVE RemovalOwnsRow'
<1> USE ConnectionsConstants DEF Inductive, TypeOK, rowVars, localVars, Tasks, Refreshers, Grants, NoGrant
<1>1. ASSUME NEW c \in Connectors, Authorize(c) PROVE RemovalOwnsRow'
  BY <1>1 DEF RemovalOwnsRow, Authorize, Goto, LocalsAreSet, Refreshing, Removing
<1>2. ASSUME NEW c \in Connectors, Lookup(c) PROVE RemovalOwnsRow'
  BY <1>2 DEF RemovalOwnsRow, Lookup, Goto, LocalsAreSet, Refreshing, Removing
<1>3. ASSUME NEW c \in Connectors, ReadPrior(c) PROVE RemovalOwnsRow'
  BY <1>3 DEF RemovalOwnsRow, ReadPrior, Goto, LockDiscipline, LocalsAreSet, Refreshing, Removing
<1>4. ASSUME NEW c \in Connectors, PutNew(c) PROVE RemovalOwnsRow'
  BY <1>4 DEF RemovalOwnsRow, PutNew, Goto, LocalsAreSet, Refreshing, Removing
<1>5. ASSUME NEW c \in Connectors, PutFails(c) PROVE RemovalOwnsRow'
  BY <1>5 DEF RemovalOwnsRow, PutFails, Done, LockDiscipline, LocalsAreSet, Refreshing, Removing
<1>6. ASSUME NEW c \in Connectors, Upsert(c) PROVE RemovalOwnsRow'
  <2> SUFFICES ASSUME NEW t \in Tasks, Removing(t)' PROVE (rowId = conn[t] /\ rowRef = ref[t])'
    BY DEF RemovalOwnsRow
  <2>1. t # c
    BY <1>6 DEF Upsert, Done, TasksTyped, Removing
  <2>2. Removing(t) /\ conn'[t] = conn[t] /\ ref'[t] = ref[t]
    BY <1>6, <2>1 DEF Upsert, Done, TasksTyped, Removing
  <2>3. rowId = conn[t] /\ rowRef = ref[t] /\ conn[t] \in Grants
    BY <2>2 DEF RemovalOwnsRow, LockDiscipline
  <2>4. rowId' = rowId /\ rowRef' = rowRef
    BY <1>6, <2>3 DEF Upsert
  <2> QED BY <2>2, <2>3, <2>4
<1>7. ASSUME NEW c \in Connectors, UpsertFails(c) PROVE RemovalOwnsRow'
  BY <1>7 DEF RemovalOwnsRow, UpsertFails, Goto, LockDiscipline, LocalsAreSet, Refreshing, Removing
<1>8. ASSUME NEW c \in Connectors, Undo(c) PROVE RemovalOwnsRow'
  BY <1>8 DEF RemovalOwnsRow, Undo, Done, TasksTyped, LockDiscipline, LocalsAreSet, Refreshing, Removing
<1>9. CASE HealthCheck
  BY <1>9 DEF RemovalOwnsRow, HealthCheck, Goto, LocalsAreSet, Refreshing, Removing
<1>10. ASSUME NEW t \in Refreshers, EnterRefresh(t) PROVE RemovalOwnsRow'
  BY <1>10 DEF RemovalOwnsRow, EnterRefresh, Goto, LockDiscipline, LocalsAreSet, Refreshing, Removing
<1>11. ASSUME NEW t \in Refreshers, RefuseRefresh(t) PROVE RemovalOwnsRow'
  BY <1>11 DEF RemovalOwnsRow, RefuseRefresh, Done, TasksTyped, LockDiscipline, LocalsAreSet, Refreshing, Removing
<1>12. ASSUME NEW t \in Refreshers, GetCredential(t) PROVE RemovalOwnsRow'
  BY <1>12 DEF RemovalOwnsRow, GetCredential, Goto, LocalsAreSet, Refreshing, Removing
<1>13. ASSUME NEW t \in Refreshers, GetMissing(t) PROVE RemovalOwnsRow'
  BY <1>13 DEF RemovalOwnsRow, GetMissing, AbandonRefresh, Done, SetRefreshState, RowTyped, StoreTyped, TasksTyped, LockDiscipline, LocalsAreSet, Refreshing, Removing
<1>14. ASSUME NEW t \in Refreshers, GetLocked(t) PROVE RemovalOwnsRow'
  BY <1>14 DEF RemovalOwnsRow, GetLocked, AbandonRefresh, Done, SetRefreshState, RowIsMine, RowTyped, StoreTyped, TasksTyped, LockDiscipline, LocalsAreSet, Refreshing, Removing
<1>15. ASSUME NEW t \in Refreshers, Renew(t) PROVE RemovalOwnsRow'
  BY <1>15 DEF RemovalOwnsRow, Renew, Goto, LockDiscipline, LocalsAreSet, Refreshing, Removing
<1>16. ASSUME NEW t \in Refreshers, RenewUnavailable(t) PROVE RemovalOwnsRow'
  BY <1>16 DEF RemovalOwnsRow, RenewUnavailable, AbandonRefresh, Done, SetRefreshState, RowTyped, StoreTyped, TasksTyped, LockDiscipline, LocalsAreSet, Refreshing, Removing
<1>17. ASSUME NEW t \in Refreshers, RenewRefused(t) PROVE RemovalOwnsRow'
  BY <1>17 DEF RemovalOwnsRow, RenewRefused, AbandonRefresh, Done, SetRefreshState, RowIsMine, RowTyped, StoreTyped, TasksTyped, LockDiscipline, LocalsAreSet, Refreshing, Removing
<1>18. ASSUME NEW t \in Refreshers, RenewLost(t) PROVE RemovalOwnsRow'
  BY <1>18 DEF RemovalOwnsRow, RenewLost, Fault, AbandonRefresh, Accepted, Done, SetRefreshState, Unlock, RowIsMine, RowTyped, StoreTyped, TasksTyped, LockDiscipline, LocalsAreSet, Refreshing, Removing
<1>19. ASSUME NEW t \in Refreshers, SaveCredential(t) PROVE RemovalOwnsRow'
  BY <1>19 DEF RemovalOwnsRow, SaveCredential, Goto, LocalsAreSet, Refreshing, Removing
<1>20. ASSUME NEW t \in Refreshers, SaveFails(t) PROVE RemovalOwnsRow'
  BY <1>20 DEF RemovalOwnsRow, SaveFails, AbandonRefresh, Done, SetRefreshState, RowIsMine, RowTyped, StoreTyped, TasksTyped, LockDiscipline, LocalsAreSet, Refreshing, Removing
<1>21. ASSUME NEW t \in Refreshers, MarkConnected(t) PROVE RemovalOwnsRow'
  BY <1>21 DEF RemovalOwnsRow, MarkConnected, Goto, SetRefreshState, StoreTyped, TasksTyped, LockDiscipline, LocalsAreSet, Refreshing, Removing
<1>22. ASSUME NEW t \in Refreshers, RecordFails(t) PROVE RemovalOwnsRow'
  BY <1>22 DEF RemovalOwnsRow, RecordFails, Done, TasksTyped, LockDiscipline, LocalsAreSet, Refreshing, Removing
<1>23. ASSUME NEW a \in Callers, LoadConnection(a) PROVE RemovalOwnsRow'
  BY <1>23 DEF RemovalOwnsRow, LoadConnection, Goto, LocalsAreSet, Refreshing, Removing
<1>24. ASSUME NEW a \in Callers, LoadToken(a) PROVE RemovalOwnsRow'
  BY <1>24 DEF RemovalOwnsRow, LoadToken, Goto, LocalsAreSet, Refreshing, Removing
<1>25. ASSUME NEW a \in Callers, LoadTokenFails(a) PROVE RemovalOwnsRow'
  BY <1>25 DEF RemovalOwnsRow, LoadTokenFails, Done, LockDiscipline, LocalsAreSet, Refreshing, Removing
<1>26. ASSUME NEW a \in Callers, NEW n \in {0, 1}, Answer(a, n) PROVE RemovalOwnsRow'
  BY <1>26 DEF RemovalOwnsRow, Answer, Done, LocalsAreSet, Refreshing, Removing
<1>27. ASSUME NEW a \in Callers, Unauthorized(a) PROVE RemovalOwnsRow'
  BY <1>27 DEF RemovalOwnsRow, Unauthorized, Goto, LocalsAreSet, Refreshing, Removing
<1>28. ASSUME NEW a \in Callers, UnauthorizedAgain(a) PROVE RemovalOwnsRow'
  BY <1>28 DEF RemovalOwnsRow, UnauthorizedAgain, Done, LocalsAreSet, Refreshing, Removing
<1>29. ASSUME NEW d \in Disconnectors, AskDisconnect(d) PROVE RemovalOwnsRow'
  BY <1>29 DEF RemovalOwnsRow, AskDisconnect, Goto, LocalsAreSet, Refreshing, Removing
<1>30. ASSUME NEW d \in Disconnectors, Revoke(d) PROVE RemovalOwnsRow'
  BY <1>30 DEF RemovalOwnsRow, Revoke, Goto, TasksTyped, LocalsAreSet, Refreshing, Removing
<1>31. ASSUME NEW d \in Disconnectors, RevokeFails(d) PROVE RemovalOwnsRow'
  BY <1>31 DEF RemovalOwnsRow, RevokeFails, Done, LockDiscipline, LocalsAreSet, Refreshing, Removing
<1>32. ASSUME NEW d \in Disconnectors, DeleteCredential(d) PROVE RemovalOwnsRow'
  BY <1>32 DEF RemovalOwnsRow, DeleteCredential, Goto, LocalsAreSet, Refreshing, Removing
<1>33. ASSUME NEW d \in Disconnectors, DeleteFails(d) PROVE RemovalOwnsRow'
  BY <1>33 DEF RemovalOwnsRow, DeleteFails, Done, TasksTyped, LockDiscipline, LocalsAreSet, Refreshing, Removing
<1>34. ASSUME NEW d \in Disconnectors, DeleteRow(d) PROVE RemovalOwnsRow'
  BY SMTT(30), <1>34 DEF RemovalOwnsRow, DeleteRow, Done, Unlock, RowTyped, StoreTyped, TasksTyped, LockDiscipline, LocalsAreSet, Refreshing, Removing
<1>35. ASSUME NEW d \in Disconnectors, DeleteRowFails(d) PROVE RemovalOwnsRow'
  BY <1>35 DEF RemovalOwnsRow, DeleteRowFails, Done, TasksTyped, LockDiscipline, LocalsAreSet, Refreshing, Removing
<1>36. CASE Crash
  BY <1>36 DEF RemovalOwnsRow, Crash, LocalsAreSet, Refreshing, Removing
<1>37. CASE UNCHANGED vars
  BY <1>37 DEF vars, RemovalOwnsRow, Refreshing, Removing
<1> QED BY <1>1, <1>2, <1>3, <1>4, <1>5, <1>6, <1>7, <1>8, <1>9, <1>10, <1>11, <1>12, <1>13, <1>14, <1>15, <1>16, <1>17, <1>18, <1>19, <1>20, <1>21, <1>22, <1>23, <1>24, <1>25, <1>26, <1>27, <1>28, <1>29, <1>30, <1>31, <1>32, <1>33, <1>34, <1>35, <1>36, <1>37 DEF Next, ConnectStep, RefreshStep, LockStep, ActionStep, RevokeStep, DisconnectStep

\* Each step leaves the next one what it needs.
LEMMA LocalsAreSetStep == ASSUME Inductive, [Next]_vars PROVE LocalsAreSet'
<1> USE ConnectionsConstants DEF Inductive, TypeOK, rowVars, localVars, Tasks, Refreshers, Grants, NoGrant
<1>1. ASSUME NEW c \in Connectors, Authorize(c) PROVE LocalsAreSet'
  BY SMTT(30), <1>1, CredShape, CredMake DEF LocalsAreSet, Authorize, Goto, TasksTyped, StoreTyped
<1>2. ASSUME NEW c \in Connectors, Lookup(c) PROVE LocalsAreSet'
  BY <1>2, CredShape DEF LocalsAreSet, Lookup, Goto, TasksTyped, RowTyped
<1>3. ASSUME NEW c \in Connectors, ReadPrior(c) PROVE LocalsAreSet'
  BY <1>3 DEF LocalsAreSet, ReadPrior, Goto, LockDiscipline, RefreshOwnsConnection, RemovalOwnsRow, Refreshing, Removing
<1>4. ASSUME NEW c \in Connectors, PutNew(c) PROVE LocalsAreSet'
  BY <1>4 DEF LocalsAreSet, PutNew, Goto, RefreshOwnsConnection, RemovalOwnsRow, Refreshing, Removing
<1>5. ASSUME NEW c \in Connectors, PutFails(c) PROVE LocalsAreSet'
  BY <1>5, CredMake DEF LocalsAreSet, PutFails, Done, Fault, RowTyped, StoreTyped, TasksTyped, LockDiscipline, RefreshOwnsConnection, RemovalOwnsRow, Refreshing, Removing
<1>6. ASSUME NEW c \in Connectors, Upsert(c) PROVE LocalsAreSet'
  BY <1>6, CredShape, CredMake DEF LocalsAreSet, Upsert, Done, TasksTyped, RefreshOwnsConnection, RemovalOwnsRow, Refreshing, Removing
<1>7. ASSUME NEW c \in Connectors, UpsertFails(c) PROVE LocalsAreSet'
  BY <1>7 DEF LocalsAreSet, UpsertFails, Goto, LockDiscipline, RefreshOwnsConnection, RemovalOwnsRow, Refreshing, Removing
<1>8. ASSUME NEW c \in Connectors, Undo(c) PROVE LocalsAreSet'
  BY <1>8, CredMake DEF LocalsAreSet, Undo, Done, TasksTyped, LockDiscipline, RefreshOwnsConnection, RemovalOwnsRow, Refreshing, Removing
<1>9. CASE HealthCheck
  BY <1>9 DEF LocalsAreSet, HealthCheck, Goto, RowTyped, TasksTyped, RefreshOwnsConnection, RemovalOwnsRow, Refreshing, Removing
<1>10. ASSUME NEW t \in Refreshers, EnterRefresh(t) PROVE LocalsAreSet'
  BY <1>10 DEF LocalsAreSet, EnterRefresh, Goto, LockDiscipline, RefreshOwnsConnection, RemovalOwnsRow, Refreshing, Removing
<1>11. ASSUME NEW t \in Refreshers, RefuseRefresh(t) PROVE LocalsAreSet'
  BY <1>11, CredMake DEF LocalsAreSet, RefuseRefresh, Done, TasksTyped, LockDiscipline, RefreshOwnsConnection, RemovalOwnsRow, Refreshing, Removing
<1>12. ASSUME NEW t \in Refreshers, GetCredential(t) PROVE LocalsAreSet'
  BY <1>12 DEF LocalsAreSet, GetCredential, Goto, TasksTyped, RefreshOwnsConnection, RemovalOwnsRow, Refreshing, Removing
<1>13. ASSUME NEW t \in Refreshers, GetMissing(t) PROVE LocalsAreSet'
  BY <1>13, CredMake DEF LocalsAreSet, GetMissing, AbandonRefresh, Done, RowTyped, StoreTyped, TasksTyped, LockDiscipline, RefreshOwnsConnection, RemovalOwnsRow, Refreshing, Removing
<1>14. ASSUME NEW t \in Refreshers, GetLocked(t) PROVE LocalsAreSet'
  BY <1>14, CredMake DEF LocalsAreSet, GetLocked, AbandonRefresh, Done, RowIsMine, RowTyped, StoreTyped, TasksTyped, LockDiscipline, RefreshOwnsConnection, RemovalOwnsRow, Refreshing, Removing
<1>15. ASSUME NEW t \in Refreshers, Renew(t) PROVE LocalsAreSet'
  BY <1>15, Rotated DEF LocalsAreSet, Renew, Goto
<1>16. ASSUME NEW t \in Refreshers, RenewUnavailable(t) PROVE LocalsAreSet'
  BY <1>16, CredMake DEF LocalsAreSet, RenewUnavailable, AbandonRefresh, Done, RowTyped, StoreTyped, TasksTyped, LockDiscipline, RefreshOwnsConnection, RemovalOwnsRow, Refreshing, Removing
<1>17. ASSUME NEW t \in Refreshers, RenewRefused(t) PROVE LocalsAreSet'
  BY <1>17, CredMake DEF LocalsAreSet, RenewRefused, AbandonRefresh, Done, RowIsMine, RowTyped, StoreTyped, TasksTyped, LockDiscipline, RefreshOwnsConnection, RemovalOwnsRow, Refreshing, Removing
<1>18. ASSUME NEW t \in Refreshers, RenewLost(t) PROVE LocalsAreSet'
  BY SMTT(30), <1>18, Rotated DEF LocalsAreSet, RenewLost, AbandonRefresh, Done, Unlock, RowIsMine, RowTyped, StoreTyped, TasksTyped, LockDiscipline, RefreshOwnsConnection, RemovalOwnsRow, Refreshing, Removing
<1>19. ASSUME NEW t \in Refreshers, SaveCredential(t) PROVE LocalsAreSet'
  BY <1>19 DEF LocalsAreSet, SaveCredential, Goto, RefreshOwnsConnection, RemovalOwnsRow, Refreshing, Removing
<1>20. ASSUME NEW t \in Refreshers, SaveFails(t) PROVE LocalsAreSet'
  BY <1>20, CredMake DEF LocalsAreSet, SaveFails, AbandonRefresh, Done, RowIsMine, RowTyped, StoreTyped, TasksTyped, LockDiscipline, RefreshOwnsConnection, RemovalOwnsRow, Refreshing, Removing
<1>21. ASSUME NEW t \in Refreshers, MarkConnected(t) PROVE LocalsAreSet'
  <2>1. ref[t] \in Grants /\ conn[t] \in Grants
    BY <1>21 DEF MarkConnected, LockDiscipline, RefreshOwnsConnection, Refreshing, RowTyped
  <2> QED BY <1>21, <2>1 DEF MarkConnected, Goto, LocalsAreSet, TasksTyped
<1>22. ASSUME NEW t \in Refreshers, RecordFails(t) PROVE LocalsAreSet'
  BY <1>22, CredMake DEF LocalsAreSet, RecordFails, Done, TasksTyped, LockDiscipline, RefreshOwnsConnection, RemovalOwnsRow, Refreshing, Removing
<1>23. ASSUME NEW a \in Callers, LoadConnection(a) PROVE LocalsAreSet'
  BY <1>23 DEF LocalsAreSet, LoadConnection, Goto, RowTyped, TasksTyped, RefreshOwnsConnection, RemovalOwnsRow, Refreshing, Removing
<1>24. ASSUME NEW a \in Callers, LoadToken(a) PROVE LocalsAreSet'
  BY <1>24 DEF LocalsAreSet, LoadToken, Goto, RefreshOwnsConnection, RemovalOwnsRow, Refreshing, Removing
<1>25. ASSUME NEW a \in Callers, LoadTokenFails(a) PROVE LocalsAreSet'
  BY SMTT(30), <1>25, CredMake DEF LocalsAreSet, LoadTokenFails, Done, Fault, RowTyped, StoreTyped, TasksTyped, LockDiscipline, RefreshOwnsConnection, RemovalOwnsRow, Refreshing, Removing
<1>26. ASSUME NEW a \in Callers, NEW n \in {0, 1}, Answer(a, n) PROVE LocalsAreSet'
  BY <1>26, CredMake DEF LocalsAreSet, Answer, Done, TasksTyped, RefreshOwnsConnection, RemovalOwnsRow, Refreshing, Removing
<1>27. ASSUME NEW a \in Callers, Unauthorized(a) PROVE LocalsAreSet'
  BY <1>27, CredMake DEF LocalsAreSet, Unauthorized, Goto
<1>28. ASSUME NEW a \in Callers, UnauthorizedAgain(a) PROVE LocalsAreSet'
  BY <1>28, CredMake DEF LocalsAreSet, UnauthorizedAgain, Done, TasksTyped, RefreshOwnsConnection, RemovalOwnsRow, Refreshing, Removing
<1>29. ASSUME NEW d \in Disconnectors, AskDisconnect(d) PROVE LocalsAreSet'
  BY <1>29 DEF LocalsAreSet, AskDisconnect, Goto, RowTyped, TasksTyped
<1>30. ASSUME NEW d \in Disconnectors, Revoke(d) PROVE LocalsAreSet'
  BY <1>30 DEF LocalsAreSet, Revoke, Goto
<1>31. ASSUME NEW d \in Disconnectors, RevokeFails(d) PROVE LocalsAreSet'
  BY SMTT(30), <1>31, CredMake DEF LocalsAreSet, RevokeFails, Done, Fault, RowTyped, StoreTyped, TasksTyped, LockDiscipline, RefreshOwnsConnection, RemovalOwnsRow, Refreshing, Removing
<1>32. ASSUME NEW d \in Disconnectors, DeleteCredential(d) PROVE LocalsAreSet'
  BY <1>32, CredMake DEF LocalsAreSet, DeleteCredential, Goto, RefreshOwnsConnection, RemovalOwnsRow, Refreshing, Removing
<1>33. ASSUME NEW d \in Disconnectors, DeleteFails(d) PROVE LocalsAreSet'
  BY <1>33, CredMake DEF LocalsAreSet, DeleteFails, Done, TasksTyped, LockDiscipline, RefreshOwnsConnection, RemovalOwnsRow, Refreshing, Removing
<1>34. ASSUME NEW d \in Disconnectors, DeleteRow(d) PROVE LocalsAreSet'
  BY <1>34, CredMake DEF LocalsAreSet, DeleteRow, Done, LockDiscipline, RefreshOwnsConnection, RemovalOwnsRow, Refreshing, Removing
<1>35. ASSUME NEW d \in Disconnectors, DeleteRowFails(d) PROVE LocalsAreSet'
  BY <1>35, CredMake DEF LocalsAreSet, DeleteRowFails, Done, TasksTyped, LockDiscipline, RefreshOwnsConnection, RemovalOwnsRow, Refreshing, Removing
<1>36. CASE Crash
  BY <1>36, CredMake DEF LocalsAreSet, Crash, RefreshOwnsConnection, RemovalOwnsRow, Refreshing, Removing
<1>37. CASE UNCHANGED vars
  BY <1>37 DEF vars, LocalsAreSet, RemovalOwnsRow, Refreshing, Removing
<1> QED BY <1>1, <1>2, <1>3, <1>4, <1>5, <1>6, <1>7, <1>8, <1>9, <1>10, <1>11, <1>12, <1>13, <1>14, <1>15, <1>16, <1>17, <1>18, <1>19, <1>20, <1>21, <1>22, <1>23, <1>24, <1>25, <1>26, <1>27, <1>28, <1>29, <1>30, <1>31, <1>32, <1>33, <1>34, <1>35, <1>36, <1>37 DEF Next, ConnectStep, RefreshStep, LockStep, ActionStep, RevokeStep, DisconnectStep

\* The step that may have an effect ends the action.
LEMMA EffectIsLastStep == ASSUME Inductive, [Next]_vars PROVE EffectIsLast'
<1> USE ConnectionsConstants DEF Inductive, TypeOK, rowVars, localVars, Tasks, Refreshers, Grants, NoGrant
<1>1. ASSUME NEW c \in Connectors, Authorize(c) PROVE EffectIsLast'
  BY <1>1 DEF EffectIsLast, Authorize, Goto
<1>2. ASSUME NEW c \in Connectors, Lookup(c) PROVE EffectIsLast'
  BY <1>2 DEF EffectIsLast, Lookup, Goto
<1>3. ASSUME NEW c \in Connectors, ReadPrior(c) PROVE EffectIsLast'
  BY <1>3 DEF EffectIsLast, ReadPrior, Goto, LocalsAreSet
<1>4. ASSUME NEW c \in Connectors, PutNew(c) PROVE EffectIsLast'
  BY <1>4 DEF EffectIsLast, PutNew, Goto
<1>5. ASSUME NEW c \in Connectors, PutFails(c) PROVE EffectIsLast'
  BY <1>5 DEF EffectIsLast, PutFails, Done, LocalsAreSet
<1>6. ASSUME NEW c \in Connectors, Upsert(c) PROVE EffectIsLast'
  BY <1>6 DEF EffectIsLast, Upsert, Done
<1>7. ASSUME NEW c \in Connectors, UpsertFails(c) PROVE EffectIsLast'
  BY <1>7 DEF EffectIsLast, UpsertFails, Goto, LocalsAreSet
<1>8. ASSUME NEW c \in Connectors, Undo(c) PROVE EffectIsLast'
  BY <1>8 DEF EffectIsLast, Undo, Done, TasksTyped, LocalsAreSet
<1>9. CASE HealthCheck
  BY <1>9 DEF EffectIsLast, HealthCheck, Goto
<1>10. ASSUME NEW t \in Refreshers, EnterRefresh(t) PROVE EffectIsLast'
  BY <1>10 DEF EffectIsLast, EnterRefresh, Goto, LocalsAreSet
<1>11. ASSUME NEW t \in Refreshers, RefuseRefresh(t) PROVE EffectIsLast'
  BY <1>11 DEF EffectIsLast, RefuseRefresh, Done, TasksTyped, LocalsAreSet
<1>12. ASSUME NEW t \in Refreshers, GetCredential(t) PROVE EffectIsLast'
  BY <1>12 DEF EffectIsLast, GetCredential, Goto
<1>13. ASSUME NEW t \in Refreshers, GetMissing(t) PROVE EffectIsLast'
  BY <1>13 DEF EffectIsLast, GetMissing, AbandonRefresh, Done, RowTyped, StoreTyped, TasksTyped, LocalsAreSet
<1>14. ASSUME NEW t \in Refreshers, GetLocked(t) PROVE EffectIsLast'
  BY <1>14 DEF EffectIsLast, GetLocked, AbandonRefresh, Done, RowIsMine, RowTyped, StoreTyped, TasksTyped, LocalsAreSet
<1>15. ASSUME NEW t \in Refreshers, Renew(t) PROVE EffectIsLast'
  BY <1>15 DEF EffectIsLast, Renew, Goto, LocalsAreSet
<1>16. ASSUME NEW t \in Refreshers, RenewUnavailable(t) PROVE EffectIsLast'
  BY <1>16 DEF EffectIsLast, RenewUnavailable, AbandonRefresh, Done, RowTyped, StoreTyped, TasksTyped, LocalsAreSet
<1>17. ASSUME NEW t \in Refreshers, RenewRefused(t) PROVE EffectIsLast'
  BY <1>17 DEF EffectIsLast, RenewRefused, AbandonRefresh, Done, RowIsMine, RowTyped, StoreTyped, TasksTyped, LocalsAreSet
<1>18. ASSUME NEW t \in Refreshers, RenewLost(t) PROVE EffectIsLast'
  BY <1>18 DEF EffectIsLast, RenewLost, AbandonRefresh, Done, Unlock, RowIsMine, RowTyped, StoreTyped, TasksTyped, LocalsAreSet
<1>19. ASSUME NEW t \in Refreshers, SaveCredential(t) PROVE EffectIsLast'
  BY <1>19 DEF EffectIsLast, SaveCredential, Goto
<1>20. ASSUME NEW t \in Refreshers, SaveFails(t) PROVE EffectIsLast'
  BY <1>20 DEF EffectIsLast, SaveFails, AbandonRefresh, Done, RowIsMine, RowTyped, StoreTyped, TasksTyped, LocalsAreSet
<1>21. ASSUME NEW t \in Refreshers, MarkConnected(t) PROVE EffectIsLast'
  BY <1>21 DEF EffectIsLast, MarkConnected, Goto, StoreTyped, TasksTyped, LocalsAreSet
<1>22. ASSUME NEW t \in Refreshers, RecordFails(t) PROVE EffectIsLast'
  BY <1>22 DEF EffectIsLast, RecordFails, Done, TasksTyped, LocalsAreSet
<1>23. ASSUME NEW a \in Callers, LoadConnection(a) PROVE EffectIsLast'
  BY <1>23 DEF EffectIsLast, LoadConnection, Goto, TasksTyped
<1>24. ASSUME NEW a \in Callers, LoadToken(a) PROVE EffectIsLast'
  BY <1>24 DEF EffectIsLast, LoadToken, Goto
<1>25. ASSUME NEW a \in Callers, LoadTokenFails(a) PROVE EffectIsLast'
  BY <1>25 DEF EffectIsLast, LoadTokenFails, Done, LocalsAreSet
<1>26. ASSUME NEW a \in Callers, NEW n \in {0, 1}, Answer(a, n) PROVE EffectIsLast'
  BY <1>26 DEF EffectIsLast, Answer, Done, TasksTyped
<1>27. ASSUME NEW a \in Callers, Unauthorized(a) PROVE EffectIsLast'
  BY <1>27 DEF EffectIsLast, Unauthorized, Goto
<1>28. ASSUME NEW a \in Callers, UnauthorizedAgain(a) PROVE EffectIsLast'
  BY <1>28 DEF EffectIsLast, UnauthorizedAgain, Done
<1>29. ASSUME NEW d \in Disconnectors, AskDisconnect(d) PROVE EffectIsLast'
  BY <1>29 DEF EffectIsLast, AskDisconnect, Goto
<1>30. ASSUME NEW d \in Disconnectors, Revoke(d) PROVE EffectIsLast'
  BY <1>30 DEF EffectIsLast, Revoke, Goto
<1>31. ASSUME NEW d \in Disconnectors, RevokeFails(d) PROVE EffectIsLast'
  BY <1>31 DEF EffectIsLast, RevokeFails, Done, LocalsAreSet
<1>32. ASSUME NEW d \in Disconnectors, DeleteCredential(d) PROVE EffectIsLast'
  BY <1>32 DEF EffectIsLast, DeleteCredential, Goto
<1>33. ASSUME NEW d \in Disconnectors, DeleteFails(d) PROVE EffectIsLast'
  BY <1>33 DEF EffectIsLast, DeleteFails, Done, TasksTyped, LocalsAreSet
<1>34. ASSUME NEW d \in Disconnectors, DeleteRow(d) PROVE EffectIsLast'
  BY <1>34 DEF EffectIsLast, DeleteRow, Done, LocalsAreSet
<1>35. ASSUME NEW d \in Disconnectors, DeleteRowFails(d) PROVE EffectIsLast'
  BY <1>35 DEF EffectIsLast, DeleteRowFails, Done, TasksTyped, LocalsAreSet
<1>36. CASE Crash
  BY <1>36 DEF EffectIsLast, Crash
<1>37. CASE UNCHANGED vars
  BY <1>37 DEF vars, EffectIsLast
<1> QED BY <1>1, <1>2, <1>3, <1>4, <1>5, <1>6, <1>7, <1>8, <1>9, <1>10, <1>11, <1>12, <1>13, <1>14, <1>15, <1>16, <1>17, <1>18, <1>19, <1>20, <1>21, <1>22, <1>23, <1>24, <1>25, <1>26, <1>27, <1>28, <1>29, <1>30, <1>31, <1>32, <1>33, <1>34, <1>35, <1>36, <1>37 DEF Next, ConnectStep, RefreshStep, LockStep, ActionStep, RevokeStep, DisconnectStep

\* The count goes from zero to at most one.
LEMMA AppliedAtMostOnceStep == ASSUME Inductive, [Next]_vars PROVE AppliedAtMostOnce'
<1> USE ConnectionsConstants DEF Inductive, TypeOK, rowVars, localVars, Tasks, Refreshers, Grants, NoGrant
<1>1. ASSUME NEW c \in Connectors, Authorize(c) PROVE AppliedAtMostOnce'
  BY <1>1 DEF AppliedAtMostOnce, Authorize, LocalsAreSet
<1>2. ASSUME NEW c \in Connectors, Lookup(c) PROVE AppliedAtMostOnce'
  BY <1>2 DEF AppliedAtMostOnce, Lookup, LocalsAreSet
<1>3. ASSUME NEW c \in Connectors, ReadPrior(c) PROVE AppliedAtMostOnce'
  BY <1>3 DEF AppliedAtMostOnce, ReadPrior, EffectIsLast, LocalsAreSet
<1>4. ASSUME NEW c \in Connectors, PutNew(c) PROVE AppliedAtMostOnce'
  BY <1>4 DEF AppliedAtMostOnce, PutNew, LocalsAreSet
<1>5. ASSUME NEW c \in Connectors, PutFails(c) PROVE AppliedAtMostOnce'
  BY <1>5 DEF AppliedAtMostOnce, PutFails, EffectIsLast, LocalsAreSet
<1>6. ASSUME NEW c \in Connectors, Upsert(c) PROVE AppliedAtMostOnce'
  BY <1>6 DEF AppliedAtMostOnce, Upsert, LocalsAreSet
<1>7. ASSUME NEW c \in Connectors, UpsertFails(c) PROVE AppliedAtMostOnce'
  BY <1>7 DEF AppliedAtMostOnce, UpsertFails, EffectIsLast, LocalsAreSet
<1>8. ASSUME NEW c \in Connectors, Undo(c) PROVE AppliedAtMostOnce'
  BY <1>8 DEF AppliedAtMostOnce, Undo, TasksTyped, EffectIsLast, LocalsAreSet
<1>9. CASE HealthCheck
  BY <1>9 DEF AppliedAtMostOnce, HealthCheck, LocalsAreSet
<1>10. ASSUME NEW t \in Refreshers, EnterRefresh(t) PROVE AppliedAtMostOnce'
  BY <1>10 DEF AppliedAtMostOnce, EnterRefresh, EffectIsLast, LocalsAreSet
<1>11. ASSUME NEW t \in Refreshers, RefuseRefresh(t) PROVE AppliedAtMostOnce'
  BY <1>11 DEF AppliedAtMostOnce, RefuseRefresh, TasksTyped, EffectIsLast, LocalsAreSet
<1>12. ASSUME NEW t \in Refreshers, GetCredential(t) PROVE AppliedAtMostOnce'
  BY <1>12 DEF AppliedAtMostOnce, GetCredential, LocalsAreSet
<1>13. ASSUME NEW t \in Refreshers, GetMissing(t) PROVE AppliedAtMostOnce'
  BY <1>13 DEF AppliedAtMostOnce, GetMissing, AbandonRefresh, RowTyped, StoreTyped, TasksTyped, EffectIsLast, LocalsAreSet
<1>14. ASSUME NEW t \in Refreshers, GetLocked(t) PROVE AppliedAtMostOnce'
  BY <1>14 DEF AppliedAtMostOnce, GetLocked, AbandonRefresh, RowIsMine, RowTyped, StoreTyped, TasksTyped, EffectIsLast, LocalsAreSet
<1>15. ASSUME NEW t \in Refreshers, Renew(t) PROVE AppliedAtMostOnce'
  BY <1>15 DEF AppliedAtMostOnce, Renew, EffectIsLast, LocalsAreSet
<1>16. ASSUME NEW t \in Refreshers, RenewUnavailable(t) PROVE AppliedAtMostOnce'
  BY <1>16 DEF AppliedAtMostOnce, RenewUnavailable, AbandonRefresh, RowTyped, StoreTyped, TasksTyped, EffectIsLast, LocalsAreSet
<1>17. ASSUME NEW t \in Refreshers, RenewRefused(t) PROVE AppliedAtMostOnce'
  BY <1>17 DEF AppliedAtMostOnce, RenewRefused, AbandonRefresh, RowIsMine, RowTyped, StoreTyped, TasksTyped, EffectIsLast, LocalsAreSet
<1>18. ASSUME NEW t \in Refreshers, RenewLost(t) PROVE AppliedAtMostOnce'
  BY <1>18 DEF AppliedAtMostOnce, RenewLost, AbandonRefresh, Unlock, RowIsMine, RowTyped, StoreTyped, TasksTyped, EffectIsLast, LocalsAreSet
<1>19. ASSUME NEW t \in Refreshers, SaveCredential(t) PROVE AppliedAtMostOnce'
  BY <1>19 DEF AppliedAtMostOnce, SaveCredential, LocalsAreSet
<1>20. ASSUME NEW t \in Refreshers, SaveFails(t) PROVE AppliedAtMostOnce'
  BY <1>20 DEF AppliedAtMostOnce, SaveFails, AbandonRefresh, RowIsMine, RowTyped, StoreTyped, TasksTyped, EffectIsLast, LocalsAreSet
<1>21. ASSUME NEW t \in Refreshers, MarkConnected(t) PROVE AppliedAtMostOnce'
  BY <1>21 DEF AppliedAtMostOnce, MarkConnected, StoreTyped, TasksTyped, EffectIsLast, LocalsAreSet
<1>22. ASSUME NEW t \in Refreshers, RecordFails(t) PROVE AppliedAtMostOnce'
  BY <1>22 DEF AppliedAtMostOnce, RecordFails, TasksTyped, EffectIsLast, LocalsAreSet
<1>23. ASSUME NEW a \in Callers, LoadConnection(a) PROVE AppliedAtMostOnce'
  BY <1>23 DEF AppliedAtMostOnce, LoadConnection, LocalsAreSet
<1>24. ASSUME NEW a \in Callers, LoadToken(a) PROVE AppliedAtMostOnce'
  BY <1>24 DEF AppliedAtMostOnce, LoadToken, LocalsAreSet
<1>25. ASSUME NEW a \in Callers, LoadTokenFails(a) PROVE AppliedAtMostOnce'
  BY <1>25 DEF AppliedAtMostOnce, LoadTokenFails, EffectIsLast, LocalsAreSet
<1>26. ASSUME NEW a \in Callers, NEW n \in {0, 1}, Answer(a, n) PROVE AppliedAtMostOnce'
  <2>1. applied[a] = 0
    BY <1>26 DEF Answer, EffectIsLast
  <2>2. applied' = [applied EXCEPT ![a] = applied[a] + n]
    BY <1>26 DEF Answer
  <2>3. applied[a] + n <= 1
    BY <2>1
  <2> QED BY <2>2, <2>3 DEF AppliedAtMostOnce, TasksTyped
<1>27. ASSUME NEW a \in Callers, Unauthorized(a) PROVE AppliedAtMostOnce'
  BY <1>27 DEF AppliedAtMostOnce, Unauthorized, LocalsAreSet
<1>28. ASSUME NEW a \in Callers, UnauthorizedAgain(a) PROVE AppliedAtMostOnce'
  BY <1>28 DEF AppliedAtMostOnce, UnauthorizedAgain, LocalsAreSet
<1>29. ASSUME NEW d \in Disconnectors, AskDisconnect(d) PROVE AppliedAtMostOnce'
  BY <1>29 DEF AppliedAtMostOnce, AskDisconnect, LocalsAreSet
<1>30. ASSUME NEW d \in Disconnectors, Revoke(d) PROVE AppliedAtMostOnce'
  BY <1>30 DEF AppliedAtMostOnce, Revoke, LocalsAreSet
<1>31. ASSUME NEW d \in Disconnectors, RevokeFails(d) PROVE AppliedAtMostOnce'
  BY <1>31 DEF AppliedAtMostOnce, RevokeFails, EffectIsLast, LocalsAreSet
<1>32. ASSUME NEW d \in Disconnectors, DeleteCredential(d) PROVE AppliedAtMostOnce'
  BY <1>32 DEF AppliedAtMostOnce, DeleteCredential, LocalsAreSet
<1>33. ASSUME NEW d \in Disconnectors, DeleteFails(d) PROVE AppliedAtMostOnce'
  BY <1>33 DEF AppliedAtMostOnce, DeleteFails, TasksTyped, EffectIsLast, LocalsAreSet
<1>34. ASSUME NEW d \in Disconnectors, DeleteRow(d) PROVE AppliedAtMostOnce'
  BY <1>34 DEF AppliedAtMostOnce, DeleteRow, EffectIsLast, LocalsAreSet
<1>35. ASSUME NEW d \in Disconnectors, DeleteRowFails(d) PROVE AppliedAtMostOnce'
  BY <1>35 DEF AppliedAtMostOnce, DeleteRowFails, TasksTyped, EffectIsLast, LocalsAreSet
<1>36. CASE Crash
  BY <1>36 DEF AppliedAtMostOnce, Crash, LocalsAreSet
<1>37. CASE UNCHANGED vars
  BY <1>37 DEF vars, AppliedAtMostOnce
<1> QED BY <1>1, <1>2, <1>3, <1>4, <1>5, <1>6, <1>7, <1>8, <1>9, <1>10, <1>11, <1>12, <1>13, <1>14, <1>15, <1>16, <1>17, <1>18, <1>19, <1>20, <1>21, <1>22, <1>23, <1>24, <1>25, <1>26, <1>27, <1>28, <1>29, <1>30, <1>31, <1>32, <1>33, <1>34, <1>35, <1>36, <1>37 DEF Next, ConnectStep, RefreshStep, LockStep, ActionStep, RevokeStep, DisconnectStep

\* No row, no credential and no task when the application is installed.
LEMMA InductiveInit == Init => Inductive
  BY ConnectionsConstants, CredMake DEF Init, Inductive, TypeOK, RowTyped, StoreTyped, TasksTyped, LockDiscipline, RefreshOwnsConnection,
     RemovalOwnsRow, LocalsAreSet, EffectIsLast, AppliedAtMostOnce, Refreshing, Removing,
     Tasks, Refreshers, Grants, NoGrant, Statuses, Steps

\* Inductive is an invariant of the connection.
THEOREM ConnectionsInductive == Spec => []Inductive
<1>1. Inductive /\ [Next]_vars => Inductive'
  BY RowTypedStep, StoreTypedStep, TasksTypedStep, LockDisciplineStep, RefreshOwnsConnectionStep, RemovalOwnsRowStep,
     LocalsAreSetStep, EffectIsLastStep, AppliedAtMostOnceStep DEF Inductive, TypeOK
<1> QED BY <1>1, InductiveInit, PTL DEF Spec

\* Type correctness of the row, the store, the lock and the tasks.
THEOREM ConnectionsTypeOK == Spec => []TypeOK
  BY ConnectionsInductive, PTL DEF Inductive

\* A refresh works on a connection that nobody removes under it.
THEOREM RefreshIsExclusive == Spec => []RefreshOwnsConnection
  BY ConnectionsInductive, PTL DEF Inductive

\* The retry after a refresh never carries a request out twice.
THEOREM ActionsApplyAtMostOnce == Spec => []AppliedAtMostOnce
  BY ConnectionsInductive, PTL DEF Inductive
-----------------------------------------------------------------------------
\* One refresh at a time is between reading and saving: both own the row, so
\* both hold the lock of its id.
LEMMA OneRefresh ==
    ASSUME Inductive, NEW t \in Tasks, NEW u \in Tasks, Renewing(t), Renewing(u)
    PROVE t = u
  BY DEF Inductive, Renewing, Refreshing, RefreshOwnsConnection, LockDiscipline, Refreshers, Tasks

\* What the tasks in question hold: credentials, of a grant.
LEMMA HeldShape ==
    ASSUME Inductive, NEW t \in Tasks, Unsaved(t) \/ Renewing(t)
    PROVE held[t] \in Credentials /\ held[t][1] \in Grants /\ held[t][2] \in 0..MaxRotations
<1>1. held[t] \in Credentials /\ held[t] # NoCred
  BY DEF Inductive, TypeOK, TasksTyped, LocalsAreSet, Unsaved, Renewing
<1> QED BY <1>1, CredShape

\* A step that loses, rotates and stores nothing, and after which a task has
\* what it had at most.
Quiet ==
    /\ faults' = faults /\ store' = store /\ live' = live /\ grants' = grants
    /\ \A c \in Tasks : Unsaved(c)' => Unsaved(c) /\ held'[c] = held[c]
    /\ \A t \in Tasks : Renewing(t)' => Renewing(t) /\ held'[t] = held[t] /\ ref'[t] = ref[t]
    /\ \A t \in Refreshers : (pc[t] = "save") <=> (pc'[t] = "save")
    /\ \A c \in Connectors : pc'[c] = "undo" => pc[c] = "undo"

\* Such a step leaves every grant where it is.
LEMMA QuietKeeps == ASSUME Inductive, Current, Quiet PROVE Current'
<1> SUFFICES ASSUME faults = 0 PROVE StoredIsCurrent' /\ GrantHasOneHome' /\ NewestIsKept' /\ NothingToUndo'
  BY DEF Quiet, Current, StoredIsCurrent
<1> USE DEF Quiet
<1>1. StoredIsCurrent'
  <2>1. \A r \in Grants : store[r] = NoCred \/ Accepted(store[r])
           \/ \E t \in Refreshers : pc[t] = "save" /\ held[t][1] = store[r][1]
    BY DEF Current, StoredIsCurrent
  <2>2. \A t \in Refreshers : pc[t] = "save" => pc'[t] = "save" /\ held'[t] = held[t]
    BY DEF Renewing, Tasks
  <2> QED BY <2>1, <2>2 DEF StoredIsCurrent, Accepted
<1>2. GrantHasOneHome'
  BY DEF Current, GrantHasOneHome
<1>3. NewestIsKept'
  <2>1. \A t \in Tasks : (Renewing(t) /\ pc[t] = "save")' => Renewing(t) /\ pc[t] = "save" /\ held'[t] = held[t]
    BY DEF Renewing
  <2> QED BY <2>1 DEF Current, NewestIsKept, Accepted
<1> QED BY <1>1, <1>2, <1>3 DEF Current, NothingToUndo

\* After a failure StoredIsCurrent promises nothing.
LEMMA FaultKeeps == ASSUME faults' # 0 PROVE Current'
  BY DEF Current, StoredIsCurrent

\* No step but those of the next lemma stores, rotates or takes up a credential.
LEMMA OthersAreQuiet ==
    ASSUME Inductive, Current, [Next]_vars,
           ~ \E c \in Connectors : Authorize(c) \/ PutNew(c),
           ~ \E t \in Refreshers : GetCredential(t) \/ Renew(t) \/ SaveCredential(t),
           ~ \E d \in Disconnectors : DeleteCredential(d)
    PROVE faults' # 0 \/ Quiet
<1> USE ConnectionsConstants DEF Inductive, TypeOK, StoreTyped, TasksTyped, LocalsAreSet, rowVars, localVars, Tasks, Refreshers,
         Goto, Done, Fault, Unlock, Unsaved, Renewing
<1>1. ASSUME NEW c \in Connectors, Lookup(c) PROVE faults' # 0 \/ Quiet
  BY <1>1 DEF Lookup, Quiet
<1>2. ASSUME NEW c \in Connectors, Upsert(c) PROVE faults' # 0 \/ Quiet
  BY <1>2 DEF Upsert, Quiet
<1>3. ASSUME NEW t \in Refreshers, EnterRefresh(t) PROVE faults' # 0 \/ Quiet
  BY <1>3 DEF EnterRefresh, Quiet
<1>4. ASSUME NEW t \in Refreshers, GetMissing(t) PROVE faults' # 0 \/ Quiet
  BY <1>4 DEF GetMissing, AbandonRefresh, Quiet
<1>5. ASSUME NEW t \in Refreshers, RenewUnavailable(t) PROVE faults' # 0 \/ Quiet
  BY <1>5 DEF RenewUnavailable, AbandonRefresh, Quiet
<1>6. ASSUME NEW t \in Refreshers, RenewRefused(t) PROVE faults' # 0 \/ Quiet
  BY <1>6 DEF RenewRefused, AbandonRefresh, Quiet
<1>7. ASSUME NEW t \in Refreshers, MarkConnected(t) PROVE faults' # 0 \/ Quiet
  BY <1>7 DEF MarkConnected, Quiet
<1>8. ASSUME NEW a \in Callers, LoadConnection(a) PROVE faults' # 0 \/ Quiet
  BY <1>8 DEF LoadConnection, Quiet
<1>9. ASSUME NEW a \in Callers, LoadToken(a) PROVE faults' # 0 \/ Quiet
  BY <1>9 DEF LoadToken, Quiet
<1>10. ASSUME NEW a \in Callers, Unauthorized(a) PROVE faults' # 0 \/ Quiet
  BY <1>10 DEF Unauthorized, Quiet
<1>11. ASSUME NEW a \in Callers, UnauthorizedAgain(a) PROVE faults' # 0 \/ Quiet
  BY <1>11 DEF UnauthorizedAgain, Quiet
<1>12. ASSUME NEW d \in Disconnectors, AskDisconnect(d) PROVE faults' # 0 \/ Quiet
  BY <1>12 DEF AskDisconnect, Quiet
<1>13. ASSUME NEW d \in Disconnectors, Revoke(d) PROVE faults' # 0 \/ Quiet
  BY <1>13 DEF Revoke, Quiet
<1>14. ASSUME NEW d \in Disconnectors, DeleteRow(d) PROVE faults' # 0 \/ Quiet
  BY <1>14 DEF DeleteRow, Quiet
<1>15. ASSUME NEW c \in Connectors, ReadPrior(c) PROVE faults' # 0 \/ Quiet
  BY <1>15 DEF ReadPrior, Quiet
<1>16. ASSUME NEW t \in Refreshers, RefuseRefresh(t) PROVE faults' # 0 \/ Quiet
  BY <1>16 DEF RefuseRefresh, Quiet
<1>17. ASSUME NEW a \in Callers, LoadTokenFails(a) PROVE faults' # 0 \/ Quiet
  BY <1>17 DEF LoadTokenFails, Quiet
<1>18. ASSUME NEW d \in Disconnectors, RevokeFails(d) PROVE faults' # 0 \/ Quiet
  BY <1>18 DEF RevokeFails, Quiet
<1>19. ASSUME NEW d \in Disconnectors, DeleteFails(d) PROVE faults' # 0 \/ Quiet
  BY <1>19 DEF DeleteFails, Quiet
<1>20. ASSUME NEW a \in Callers, NEW n \in {0, 1}, Answer(a, n) PROVE Quiet
  BY <1>20 DEF Answer, Quiet
<1>21. ASSUME HealthCheck PROVE Quiet
  BY <1>21 DEF HealthCheck, Quiet
<1>22. ASSUME NEW c \in Connectors, PutFails(c) PROVE faults' # 0
  BY <1>22 DEF PutFails
<1>23. ASSUME NEW c \in Connectors, UpsertFails(c) PROVE faults' # 0
  BY <1>23 DEF UpsertFails
<1>24. ASSUME NEW t \in Refreshers, GetLocked(t) PROVE faults' # 0
  BY <1>24 DEF GetLocked, AbandonRefresh
<1>25. ASSUME NEW t \in Refreshers, RenewLost(t) PROVE faults' # 0
  BY <1>25 DEF RenewLost, AbandonRefresh
<1>26. ASSUME NEW t \in Refreshers, SaveFails(t) PROVE faults' # 0
  BY <1>26 DEF SaveFails, AbandonRefresh
<1>27. ASSUME NEW t \in Refreshers, RecordFails(t) PROVE faults' # 0
  BY <1>27 DEF RecordFails
<1>28. ASSUME NEW d \in Disconnectors, DeleteRowFails(d) PROVE faults' # 0
  BY <1>28 DEF DeleteRowFails
<1>29. ASSUME Crash PROVE faults' # 0
  BY <1>29 DEF Crash
<1>30. ASSUME NEW c \in Connectors, Undo(c) PROVE faults' # 0
  BY <1>30 DEF Undo, Current, NothingToUndo
<1>31. ASSUME UNCHANGED vars PROVE Quiet
  BY <1>31 DEF vars, Quiet
<1> QED BY <1>1, <1>2, <1>3, <1>4, <1>5, <1>6, <1>7, <1>8, <1>9, <1>10, <1>11, <1>12, <1>13, <1>14, <1>15, <1>16, <1>17, <1>18, <1>19, <1>20, <1>21, <1>22, <1>23, <1>24, <1>25, <1>26, <1>27, <1>28, <1>29, <1>30, <1>31
       DEF Next, ConnectStep, RefreshStep, LockStep, ActionStep, RevokeStep, DisconnectStep

\* What is known before a step when nothing has failed until after it.
LEMMA Unfailed ==
    ASSUME Inductive, Current, faults = 0
    PROVE /\ StoredIsCurrent /\ GrantHasOneHome /\ NewestIsKept /\ NothingToUndo
          /\ \A r \in Grants : store[r] \in Credentials
          /\ grants \in 0..MaxGrants /\ live \in [Grants -> 0..MaxRotations]
          /\ store \in [Grants -> Credentials]
          /\ pc \in [Tasks -> Steps] /\ held \in [Tasks -> Credentials]
  BY DEF Current, Inductive, TypeOK, StoreTyped, TasksTyped

\* The grant of a new authorisation is nowhere yet.
LEMMA AuthorizeKeeps ==
    ASSUME Inductive, Current, NEW c \in Connectors, Authorize(c) PROVE Current'
<1> SUFFICES ASSUME faults = 0 PROVE StoredIsCurrent' /\ GrantHasOneHome' /\ NewestIsKept' /\ NothingToUndo'
  BY DEF Authorize, Current, StoredIsCurrent
<1> USE ConnectionsConstants, Unfailed
<1> USE DEF Authorize, Goto, Grants, NoGrant
<1>1. c \in Tasks /\ grants + 1 \in Grants /\ held'[c] = <<grants + 1, 0>> /\ pc'[c] = "lookup"
  BY DEF Tasks
<1>2. \A t \in Tasks : t # c => held'[t] = held[t] /\ pc'[t] = pc[t]
  OBVIOUS
<1>3. Unsaved(c)' /\ ~ Renewing(c)'
  BY <1>1 DEF Unsaved, Renewing
<1>4. \A t \in Tasks : t # c => (Unsaved(t)' <=> Unsaved(t)) /\ (Renewing(t)' <=> Renewing(t))
  BY <1>2 DEF Unsaved, Renewing
<1>5. StoredIsCurrent'
  BY <1>2 DEF StoredIsCurrent, Accepted, Tasks, Refreshers
<1>6. GrantHasOneHome'
  BY <1>1, <1>2, <1>3, <1>4 DEF GrantHasOneHome, NewestIsKept
<1>7. NewestIsKept'
  <2>1. Accepted(held[c])' /\ held'[c][2] = 0 /\ held'[c][1] <= grants'
    <3>1. live[grants + 1] = 0
      BY <1>1 DEF NewestIsKept
    <3> QED BY <3>1, <1>1 DEF Accepted
  <2>2. \A t \in Tasks : t # c /\ (Unsaved(t)' \/ Renewing(t)') =>
           /\ held'[t] = held[t] /\ (Unsaved(t) \/ Renewing(t))
           /\ held[t][1] \in Grants /\ held[t][1] <= grants
    BY <1>2, <1>4, HeldShape DEF NewestIsKept
  <2>3. \A t \in Tasks : Unsaved(t)' => Accepted(held[t])' /\ held'[t][2] = 0
    BY <2>1, <1>2, <1>4 DEF NewestIsKept, Accepted
  <2>4. \A t \in Tasks : (Renewing(t) /\ pc[t] = "save")' => Accepted(held[t])'
    BY <1>2, <1>3, <1>4 DEF NewestIsKept, Accepted
  <2>5. \A t \in Tasks : (Unsaved(t) \/ Renewing(t))' => held'[t][1] <= grants'
    BY <2>1, <2>2
  <2>6. \A r \in Grants : store'[r][1] <= grants'
    <3>1. \A r \in Grants : store[r][1] <= grants /\ store[r][1] \in 0..MaxGrants
      BY CredShape DEF NewestIsKept, NoCred
    <3> QED BY <3>1
  <2> QED BY <2>3, <2>4, <2>5, <2>6 DEF NewestIsKept
<1> QED BY <1>2, <1>1, <1>5, <1>6, <1>7 DEF NothingToUndo, Tasks

\* A connect stores what only it has.
LEMMA PutNewKeeps ==
    ASSUME Inductive, Current, NEW c \in Connectors, PutNew(c) PROVE Current'
<1> SUFFICES ASSUME faults = 0 PROVE StoredIsCurrent' /\ GrantHasOneHome' /\ NewestIsKept' /\ NothingToUndo'
  BY DEF PutNew, Current, StoredIsCurrent
<1> USE ConnectionsConstants, Unfailed
<1> USE DEF PutNew, Goto
<1>1. c \in Tasks /\ Unsaved(c) /\ ref[c] \in Grants /\ pc'[c] = "upsert"
  BY DEF Tasks, Unsaved, Inductive, LocalsAreSet
<1>2. \A r \in Grants : store'[r] = IF r = ref[c] THEN held[c] ELSE store[r]
  BY <1>1
<1>3. ~ Unsaved(c)' /\ ~ Renewing(c)'
  BY <1>1 DEF Unsaved, Renewing
<1>4. \A t \in Tasks : t # c => (Unsaved(t)' <=> Unsaved(t)) /\ (Renewing(t)' <=> Renewing(t)) /\ pc'[t] = pc[t]
  BY DEF Unsaved, Renewing
<1>5. Accepted(held[c]) /\ held[c][1] <= grants /\ \A r \in Grants : store[r][1] # held[c][1]
  BY <1>1 DEF NewestIsKept, GrantHasOneHome
<1>6. StoredIsCurrent'
  BY <1>1, <1>2, <1>3, <1>4, <1>5 DEF StoredIsCurrent, Accepted, Tasks, Unsaved
<1>7. GrantHasOneHome'
  BY <1>1, <1>2, <1>3, <1>4, <1>5 DEF GrantHasOneHome
<1>8. NewestIsKept'
  BY <1>1, <1>2, <1>3, <1>4, <1>5 DEF NewestIsKept, Accepted
<1> QED BY <1>1, <1>4, <1>6, <1>7, <1>8 DEF NothingToUndo, Tasks

\* A refresh reads a credential that is nowhere else.
LEMMA GetCredentialKeeps ==
    ASSUME Inductive, Current, NEW t \in Refreshers, GetCredential(t) PROVE Current'
<1> SUFFICES ASSUME faults = 0 PROVE StoredIsCurrent' /\ GrantHasOneHome' /\ NewestIsKept' /\ NothingToUndo'
  BY DEF GetCredential, Current, StoredIsCurrent
<1> USE Unfailed
<1> USE DEF GetCredential, Goto
<1>1. t \in Tasks /\ ref[t] \in Grants /\ held'[t] = store[ref[t]] /\ store[ref[t]] # NoCred /\ pc'[t] = "renew"
  <2>1. Refreshing(t) /\ t \in Tasks
    BY DEF Refreshing, Tasks
  <2>2. ref[t] = rowRef /\ rowId = conn[t] /\ conn[t] \in Grants
    BY <2>1 DEF Inductive, RefreshOwnsConnection, LockDiscipline
  <2> QED BY <2>1, <2>2, ConnectionsConstants DEF Inductive, TypeOK, RowTyped, Grants, NoGrant
<1>2. \A u \in Tasks : u # t => held'[u] = held[u] /\ pc'[u] = pc[u]
  OBVIOUS
<1>3. ~ Unsaved(t)' /\ Renewing(t)' /\ ~ Unsaved(t)
  BY <1>1, ConnectionsConstants DEF Unsaved, Renewing
<1>4. \A u \in Tasks : u # t => (Unsaved(u)' <=> Unsaved(u)) /\ (Renewing(u)' <=> Renewing(u))
  BY <1>2 DEF Unsaved, Renewing
<1>5. StoredIsCurrent'
  BY <1>1, <1>2 DEF StoredIsCurrent, Accepted, Tasks
<1>6. GrantHasOneHome'
  BY <1>1, <1>2, <1>3, <1>4 DEF GrantHasOneHome
<1>7. NewestIsKept'
  BY <1>1, <1>2, <1>3, <1>4 DEF NewestIsKept, Accepted
<1> QED BY <1>1, <1>2, <1>5, <1>6, <1>7 DEF NothingToUndo, Tasks

\* What it rotates it has alone; until it saves, the stored one is the older.
LEMMA RenewKeeps ==
    ASSUME Inductive, Current, NEW t \in Refreshers, Renew(t) PROVE Current'
<1> SUFFICES ASSUME faults = 0 PROVE StoredIsCurrent' /\ GrantHasOneHome' /\ NewestIsKept' /\ NothingToUndo'
  BY DEF Renew, Current, StoredIsCurrent
<1> USE Unfailed
<1>0. /\ t \in Tasks /\ Renewing(t) /\ held[t][1] \in Grants /\ held[t][2] \in 0..MaxRotations
  BY HeldShape DEF Renew, Tasks, Renewing
<1>1. /\ pc'[t] = "save" /\ held'[t] = <<held[t][1], held[t][2] + 1>>
      /\ live' = [live EXCEPT ![held[t][1]] = held[t][2] + 1]
      /\ store' = store /\ grants' = grants /\ faults' = faults /\ ref' = ref
  BY <1>0 DEF Renew, Goto
<1>2. \A u \in Tasks : u # t => held'[u] = held[u] /\ pc'[u] = pc[u]
  BY DEF Renew, Goto
<1>3. ~ Unsaved(t)' /\ Renewing(t)' /\ ~ Unsaved(t) /\ pc[t] = "renew"
  BY <1>0, <1>1, ConnectionsConstants DEF Unsaved, Renewing, Renew
<1>4. \A u \in Tasks : u # t => (Unsaved(u)' <=> Unsaved(u)) /\ (Renewing(u)' <=> Renewing(u))
  BY <1>2 DEF Unsaved, Renewing
<1>5. \A g \in Grants : g # held[t][1] => live'[g] = live[g]
  BY <1>0, <1>1
<1>6. held'[t][1] = held[t][1] /\ Accepted(held[t])' /\ held[t][1] <= grants
  BY <1>0, <1>1 DEF Accepted, NewestIsKept
<1>7. \A u \in Tasks : u # t => ~ Renewing(u)
  BY <1>0, OneRefresh
<1>8. StoredIsCurrent'
  <2>1. SUFFICES ASSUME NEW r \in Grants, store[r] # NoCred, store[r][1] # held[t][1]
                 PROVE Accepted(store[r])'
    BY <1>0, <1>1, <1>6 DEF StoredIsCurrent
  <2>2. store[r][1] \in Grants
    BY <2>1, CredShape
  <2>3. ~ \E u \in Refreshers : pc[u] = "save"
    BY <1>3, <1>7 DEF Renewing, Tasks
  <2> QED BY <1>1, <1>5, <2>1, <2>2, <2>3 DEF StoredIsCurrent, Accepted
<1>9. GrantHasOneHome'
  BY <1>0, <1>1, <1>2, <1>3, <1>4, <1>6 DEF GrantHasOneHome
<1>10. NewestIsKept'
  <2>1. \A u \in Tasks : Unsaved(u) => held[u][1] # held[t][1] /\ held[u][1] \in Grants
    BY <1>0, HeldShape DEF GrantHasOneHome
  <2>2. \A u \in Tasks : Unsaved(u)' => Accepted(held[u])' /\ held'[u][2] = 0
    BY <2>1, <1>2, <1>3, <1>4, <1>5 DEF NewestIsKept, Accepted
  <2>3. \A u \in Tasks : (Renewing(u) /\ pc[u] = "save")' => Accepted(held[u])'
    BY <1>4, <1>6, <1>7
  <2>4. \A g \in Grants : g > grants => live'[g] = 0
    BY <1>5, <1>6, <1>0, ConnectionsConstants DEF NewestIsKept, Grants
  <2> QED BY <1>0, <1>1, <1>2, <1>3, <1>4, <1>6, <2>2, <2>3, <2>4 DEF NewestIsKept
<1> QED BY <1>1, <1>2, <1>3, <1>8, <1>9, <1>10 DEF NothingToUndo, Tasks

\* What is saved is the newest rotation of a grant stored nowhere else.
LEMMA SaveCredentialKeeps ==
    ASSUME Inductive, Current, NEW t \in Refreshers, SaveCredential(t) PROVE Current'
<1> SUFFICES ASSUME faults = 0 PROVE StoredIsCurrent' /\ GrantHasOneHome' /\ NewestIsKept' /\ NothingToUndo'
  BY DEF SaveCredential, Current, StoredIsCurrent
<1> USE Unfailed
<1>0. t \in Tasks /\ Renewing(t) /\ pc[t] = "save"
  BY DEF SaveCredential, Tasks, Renewing
<1>1. /\ pc' = [pc EXCEPT ![t] = "mark"] /\ store' = [store EXCEPT ![ref[t]] = held[t]]
      /\ live' = live /\ grants' = grants /\ faults' = faults /\ ref' = ref /\ held' = held
  BY DEF SaveCredential, Goto
<1>2. \A u \in Tasks : u # t => pc'[u] = pc[u]
  BY <1>1
<1>3. ~ Unsaved(t)' /\ ~ Renewing(t)' /\ ~ Unsaved(t)
  BY <1>0, <1>1, ConnectionsConstants DEF Unsaved, Renewing
<1>4. \A u \in Tasks : u # t => (Unsaved(u)' <=> Unsaved(u)) /\ (Renewing(u)' <=> Renewing(u))
  BY <1>1, <1>2 DEF Unsaved, Renewing
<1>5. \A r \in Grants : store'[r] = IF r = ref[t] THEN held[t] ELSE store[r]
  BY <1>1
<1>6. /\ Accepted(held[t]) /\ held[t][1] <= grants
      /\ \A r \in Grants : r # ref[t] => store[r][1] # held[t][1]
      /\ \A c \in Tasks : Unsaved(c) => held[c][1] # held[t][1]
  BY <1>0 DEF NewestIsKept, GrantHasOneHome
<1>7. \A u \in Tasks : u # t => ~ Renewing(u)
  BY <1>0, OneRefresh
<1>8. StoredIsCurrent'
  <2>1. \A u \in Refreshers : pc[u] = "save" => u = t
    BY <1>7 DEF Renewing, Tasks
  <2> QED BY <1>1, <1>5, <1>6, <2>1 DEF StoredIsCurrent, Accepted
<1>9. GrantHasOneHome'
  BY <1>1, <1>3, <1>4, <1>5, <1>6, <1>7 DEF GrantHasOneHome
<1>10. NewestIsKept'
  BY <1>1, <1>2, <1>3, <1>4, <1>5, <1>6 DEF NewestIsKept, Accepted
<1> QED BY <1>0, <1>1, <1>8, <1>9, <1>10 DEF NothingToUndo, Tasks, Inductive, LocalsAreSet

\* A credential that is deleted is nowhere.
LEMMA DeleteCredentialKeeps ==
    ASSUME Inductive, Current, NEW d \in Disconnectors, DeleteCredential(d) PROVE Current'
<1> SUFFICES ASSUME faults = 0 PROVE StoredIsCurrent' /\ GrantHasOneHome' /\ NewestIsKept' /\ NothingToUndo'
  BY DEF DeleteCredential, Current, StoredIsCurrent
<1> USE Unfailed
<1>0. d \in Tasks /\ pc' = [pc EXCEPT ![d] = "forget"] /\ store' = [store EXCEPT ![ref[d]] = NoCred]
      /\ live' = live /\ grants' = grants /\ faults' = faults /\ ref' = ref /\ held' = held
  BY DEF DeleteCredential, Goto, Tasks
<1>1. \A u \in Tasks : u # d => pc'[u] = pc[u]
  BY <1>0
<1>2. \A u \in Tasks : (Unsaved(u)' <=> Unsaved(u)) /\ (Renewing(u)' <=> Renewing(u))
  BY <1>0, <1>1, ConnectionsConstants DEF Unsaved, Renewing, DeleteCredential
<1>3. \A r \in Grants : store'[r] = NoCred \/ store'[r] = store[r]
  BY <1>0
<1>4. NoCred[1] = 0
  BY DEF NoCred, NoGrant
<1>5. \A u \in Refreshers : pc'[u] = pc[u]
  BY <1>1, ConnectionsConstants DEF Tasks, Refreshers
<1>6. StoredIsCurrent'
  BY <1>0, <1>3, <1>5 DEF StoredIsCurrent, Accepted
<1>7. GrantHasOneHome'
  <2>1. \A r \in Grants : store[r] # NoCred => store[r][1] # 0
    BY CredShape DEF Grants
  <2>2. \A u \in Tasks : Unsaved(u) \/ Renewing(u) => held[u][1] # 0
    BY HeldShape DEF Grants
  <2> QED BY <1>0, <1>2, <1>3, <1>4, <2>1, <2>2 DEF GrantHasOneHome
<1>8. NewestIsKept'
  BY <1>0, <1>1, <1>2, <1>3, <1>4, <1>5 DEF NewestIsKept, Accepted, Renewing
<1> QED BY <1>0, <1>1, <1>6, <1>7, <1>8 DEF NothingToUndo, Tasks

\* Where a grant is, is an invariant together with the locks.
LEMMA CurrentStep == ASSUME Inductive, Current, [Next]_vars PROVE Current'
  BY FaultKeeps, OthersAreQuiet, QuietKeeps, AuthorizeKeeps, PutNewKeeps, GetCredentialKeeps,
     RenewKeeps, SaveCredentialKeeps, DeleteCredentialKeeps

\* What is stored is what the provider accepts, whatever overlaps, as long as
\* nothing failed: no refresh, connect or disconnect leaves a rotated-away token.
THEOREM NothingStaleIsStored == Spec => []StoredIsCurrent
<1>1. Init => Current
  BY ConnectionsConstants DEF Init, Current, StoredIsCurrent, GrantHasOneHome, NewestIsKept, NothingToUndo,
     Unsaved, Renewing, Tasks, Refreshers, Grants, NoGrant, NoCred
<1>2. Inductive /\ Current /\ [Next]_vars => Current'
  BY CurrentStep
<1>3. Current => StoredIsCurrent
  BY DEF Current
<1> QED BY <1>1, <1>2, <1>3, ConnectionsInductive, PTL DEF Spec
=============================================================================
