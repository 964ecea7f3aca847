----------------------------- MODULE Connections -----------------------------
(***************************************************************************)
(* One connected account: its row in app_connections, its credential in    *)
(* the system's credential store, and the four flows that touch both:      *)
(* the connect commands of the providers (which share one shape), the      *)
(* health check and the refresh that an action asks for, the action        *)
(* itself, and disconnect.  Refresh and disconnect take the lock of the    *)
(* connection's id; connect takes none.                                    *)
(*                                                                         *)
(* A credential is <<grant, rotation>>: the authorisation it came from and *)
(* how often its refresh token was rotated.  The provider accepts only the *)
(* newest rotation.  Uuids drawn by a connect are its grant's number.      *)
(***************************************************************************)
EXTENDS Naturals

CONSTANTS
    Connectors,     \* connect commands that may overlap
    Callers,        \* app actions
    Disconnectors,  \* disconnect commands
    health,         \* the health loop of lib.rs, one refresh at a time
    Nobody,         \* no holder of a lock
    MaxGrants,      \* bound on authorisations
    MaxRotations,   \* bound on rotations of one grant
    MaxFaults       \* bound on crashes, store, database and network failures

Refreshers == Callers \cup {health}
Tasks      == Connectors \cup Refreshers \cup Disconnectors

ASSUME ConnectionsConstants ==
    /\ MaxGrants \in Nat /\ MaxRotations \in Nat /\ MaxFaults \in Nat
    /\ health \notin Callers
    /\ Nobody \notin Tasks
    /\ Connectors \cap Refreshers = {}
    /\ Disconnectors \cap (Connectors \cup Refreshers) = {}

Grants      == 1..MaxGrants
NoGrant     == 0
NoCred      == <<NoGrant, 0>>
Credentials == (Grants \X (0..MaxRotations)) \cup {NoCred}

Statuses == {"none", "connected", "expired", "error", "revoked"}
Steps    == {"idle", "lookup", "prior", "put", "upsert", "undo",
             "wait", "get", "renew", "save", "mark",
             "token", "send", "reload", "resend",
             "ask", "delete", "forget", "purge"}

VARIABLES
    rowId, rowRef, status,  \* app_connections: id, credential_ref, status
    store,                  \* TokenStore: reference -> credential
    live,                   \* provider: the rotation it accepts, per grant
    grants,                 \* authorisations so far
    lock,                   \* connection_locks: id -> holder
    pc,                     \* where each task is
    conn, ref, held,        \* the id, reference and credential it works with
    prior,                  \* the credential a connect would put back
    applied,                \* requests of an action the provider carried out
    faults

rowVars   == <<rowId, rowRef, status>>
localVars == <<pc, conn, ref, held, prior>>
vars == <<rowVars, store, live, grants, lock, localVars, applied, faults>>

Init ==
    /\ rowId = NoGrant /\ rowRef = NoGrant /\ status = "none"
    /\ store = [r \in Grants |-> NoCred]
    /\ live = [g \in Grants |-> 0]
    /\ grants = 0
    /\ lock = [i \in Grants |-> Nobody]
    /\ pc = [t \in Tasks |-> "idle"]
    /\ conn = [t \in Tasks |-> NoGrant]
    /\ ref = [t \in Tasks |-> NoGrant]
    /\ held = [t \in Tasks |-> NoCred]
    /\ prior = [t \in Tasks |-> NoCred]
    /\ applied = [t \in Tasks |-> 0]
    /\ faults = 0

Goto(t, step) == pc' = [pc EXCEPT ![t] = step]

\* The command or loop iteration is over; what it held goes out of scope.
Done(t) ==
    /\ pc' = [pc EXCEPT ![t] = "idle"]
    /\ conn' = [conn EXCEPT ![t] = NoGrant]
    /\ ref' = [ref EXCEPT ![t] = NoGrant]
    /\ held' = [held EXCEPT ![t] = NoCred]
    /\ prior' = [prior EXCEPT ![t] = NoCred]

Fault == faults < MaxFaults /\ faults' = faults + 1

-----------------------------------------------------------------------------
(* connect: save_authorized_connection and its siblings *)

\* The provider grants access and the identity is validated.
Authorize(c) ==
    /\ pc[c] = "idle" /\ grants < MaxGrants
    /\ grants' = grants + 1
    /\ held' = [held EXCEPT ![c] = <<grants + 1, 0>>]
    /\ Goto(c, "lookup")
    /\ UNCHANGED <<rowVars, store, live, lock, conn, ref, prior, applied, faults>>

LookupWithoutReference(c) ==
    /\ pc[c] = "lookup"
    /\ ref' = [ref EXCEPT ![c] = rowRef]
    /\ Goto(c, IF rowId # NoGrant THEN "prior" ELSE "put")
    /\ UNCHANGED <<rowVars, store, live, grants, lock, conn, held, prior, applied, faults>>

\* get_app_connection_by_identity: a row of any status lends its reference.
Lookup(c) ==
    /\ pc[c] = "lookup"
    /\ ref' = [ref EXCEPT ![c] = IF rowId # NoGrant THEN rowRef ELSE held[c][1]]
    /\ Goto(c, IF rowId # NoGrant THEN "prior" ELSE "put")
    /\ UNCHANGED <<rowVars, store, live, grants, lock, conn, held, prior, applied, faults>>

IsNew(c) == ref[c] = held[c][1]

\* What is there is kept for a rollback; a store that fails counts as empty.
ReadPrior(c) ==
    /\ pc[c] = "prior"
    /\ \/ prior' = [prior EXCEPT ![c] = store[ref[c]]] /\ UNCHANGED faults
       \/ prior' = prior /\ Fault
    /\ Goto(c, "put")
    /\ UNCHANGED <<rowVars, store, live, grants, lock, conn, ref, held, applied>>

PutNew(c) ==
    /\ pc[c] = "put"
    /\ store' = [store EXCEPT ![ref[c]] = held[c]]
    /\ Goto(c, "upsert")
    /\ UNCHANGED <<rowVars, live, grants, lock, conn, ref, held, prior, applied, faults>>

\* The row cannot be read, or the credential not stored.
PutFails(c) ==
    /\ pc[c] \in {"lookup", "put"}
    /\ Fault
    /\ Done(c)
    /\ UNCHANGED <<rowVars, store, live, grants, lock, applied>>

\* upsert_app_connection: an existing row keeps its id and its reference.
Upsert(c) ==
    /\ pc[c] = "upsert"
    /\ rowId' = IF rowId = NoGrant THEN held[c][1] ELSE rowId
    /\ rowRef' = IF rowId = NoGrant THEN ref[c] ELSE rowRef
    /\ status' = "connected"
    /\ Done(c)
    /\ UNCHANGED <<store, live, grants, lock, applied, faults>>

UpsertFails(c) ==
    /\ pc[c] = "upsert"
    /\ Fault
    /\ Goto(c, "undo")
    /\ UNCHANGED <<rowVars, store, live, grants, lock, conn, ref, held, prior, applied>>

\* A new credential is deleted, an overwritten one put back if it was read;
\* a failure of that is ignored.
Undo(c) ==
    /\ pc[c] = "undo"
    /\ \/ /\ store' = IF IsNew(c) \/ prior[c] # NoCred
                       THEN [store EXCEPT ![ref[c]] = IF IsNew(c) THEN NoCred ELSE prior[c]]
                       ELSE store
          /\ UNCHANGED faults
       \/ store' = store /\ Fault
    /\ Done(c)
    /\ UNCHANGED <<rowVars, live, grants, lock, applied>>

-----------------------------------------------------------------------------
(* RefreshService::refresh *)

\* The health check lists the rows and asks for a refresh of one that is due.
HealthCheck ==
    /\ pc[health] = "idle"
    /\ rowId # NoGrant /\ status # "revoked"
    /\ conn' = [conn EXCEPT ![health] = rowId]
    /\ Goto(health, "wait")
    /\ UNCHANGED <<rowVars, store, live, grants, lock, ref, held, prior, applied, faults>>

RowIsMine(t) == rowId = conn[t] /\ status # "revoked"

EnterRefreshUnlocked(t) ==
    /\ pc[t] = "wait"
    /\ RowIsMine(t)
    /\ ref' = [ref EXCEPT ![t] = rowRef]
    /\ Goto(t, "get")
    /\ UNCHANGED <<rowVars, store, live, grants, lock, conn, held, prior, applied, faults>>

\* lock_connection, and the row is read again under the lock.
EnterRefresh(t) ==
    /\ pc[t] = "wait" /\ lock[conn[t]] = Nobody
    /\ RowIsMine(t)
    /\ lock' = [lock EXCEPT ![conn[t]] = t]
    /\ ref' = [ref EXCEPT ![t] = rowRef]
    /\ Goto(t, "get")
    /\ UNCHANGED <<rowVars, store, live, grants, conn, held, prior, applied, faults>>

\* Not found, revoked, unreadable, or (only for the health check) not needed.
RefuseRefresh(t) ==
    /\ pc[t] = "wait" /\ lock[conn[t]] = Nobody
    /\ \/ (~ RowIsMine(t) \/ t = health) /\ UNCHANGED faults
       \/ Fault
    /\ Done(t)
    /\ UNCHANGED <<rowVars, store, live, grants, lock, applied>>

\* set_app_connection_refresh_state: WHERE id = ? AND status != 'revoked'.
SetRefreshState(t, s) ==
    /\ status' = IF RowIsMine(t) THEN s ELSE status
    /\ UNCHANGED <<rowId, rowRef>>

Unlock(t) == lock' = [lock EXCEPT ![conn[t]] = Nobody]

\* The refresh returns an error, and with it the action that asked for it.
AbandonRefresh(t, s) ==
    /\ SetRefreshState(t, s)
    /\ Unlock(t)
    /\ Done(t)
    /\ UNCHANGED <<grants, applied>>

GetCredential(t) ==
    /\ pc[t] = "get" /\ store[ref[t]] # NoCred
    /\ held' = [held EXCEPT ![t] = store[ref[t]]]
    /\ Goto(t, "renew")
    /\ UNCHANGED <<rowVars, store, live, grants, lock, conn, ref, prior, applied, faults>>

\* Missing means expired, a locked store is an error to retry.
GetMissing(t) ==
    /\ pc[t] = "get" /\ store[ref[t]] = NoCred
    /\ AbandonRefresh(t, "expired")
    /\ UNCHANGED <<store, live, faults>>

GetLocked(t) ==
    /\ pc[t] = "get"
    /\ Fault
    /\ AbandonRefresh(t, "error")
    /\ UNCHANGED <<store, live>>

Accepted(k) == k[2] = live[k[1]]

\* RefreshHandler::refresh of a provider that rotates its refresh tokens.
Renew(t) ==
    /\ pc[t] = "renew" /\ Accepted(held[t]) /\ held[t][2] < MaxRotations
    /\ live' = [live EXCEPT ![held[t][1]] = held[t][2] + 1]
    /\ held' = [held EXCEPT ![t] = <<held[t][1], held[t][2] + 1>>]
    /\ Goto(t, "save")
    /\ UNCHANGED <<rowVars, store, grants, lock, conn, ref, prior, applied, faults>>

\* The provider cannot be reached: RefreshFailureKind::Retryable.
RenewUnavailable(t) ==
    /\ pc[t] = "renew"
    /\ AbandonRefresh(t, "error")
    /\ UNCHANGED <<store, live, faults>>

\* It refuses the token: RefreshFailureKind::Terminal.
RenewRefused(t) ==
    /\ pc[t] = "renew" /\ ~ Accepted(held[t])
    /\ AbandonRefresh(t, "expired")
    /\ UNCHANGED <<store, live, faults>>

\* Its answer is lost after it has rotated.
RenewLost(t) ==
    /\ pc[t] = "renew" /\ Accepted(held[t]) /\ held[t][2] < MaxRotations
    /\ Fault
    /\ live' = [live EXCEPT ![held[t][1]] = held[t][2] + 1]
    /\ AbandonRefresh(t, "error")
    /\ UNCHANGED store

SaveCredentialForgotten(t) ==
    /\ pc[t] = "save"
    /\ Goto(t, "mark")
    /\ UNCHANGED <<rowVars, store, live, grants, lock, conn, ref, held, prior, applied, faults>>

SaveCredential(t) ==
    /\ pc[t] = "save"
    /\ store' = [store EXCEPT ![ref[t]] = held[t]]
    /\ Goto(t, "mark")
    /\ UNCHANGED <<rowVars, live, grants, lock, conn, ref, held, prior, applied, faults>>

SaveFails(t) ==
    /\ pc[t] = "save"
    /\ AbandonRefresh(t, "error")
    /\ Fault
    /\ UNCHANGED <<store, live>>

MarkKeepingLock(t) ==
    /\ pc[t] = "mark"
    /\ SetRefreshState(t, "connected")
    /\ Done(t)
    /\ UNCHANGED <<store, live, grants, lock, applied, faults>>

\* The last write; the action that asked goes on to load the new token.
MarkConnected(t) ==
    /\ pc[t] = "mark"
    /\ SetRefreshState(t, "connected")
    /\ Unlock(t)
    /\ Goto(t, IF t = health THEN "idle" ELSE "reload")
    /\ conn' = [conn EXCEPT ![t] = IF t = health THEN NoGrant ELSE conn[t]]
    /\ ref' = [ref EXCEPT ![t] = IF t = health THEN NoGrant ELSE ref[t]]
    /\ held' = [held EXCEPT ![t] = NoCred]
    /\ UNCHANGED <<store, live, grants, prior, applied, faults>>

\* A blocking task or a write of the row fails: no status is recorded.
RecordFails(t) ==
    /\ pc[t] \in {"get", "renew", "save", "mark"}
    /\ Fault
    /\ Unlock(t)
    /\ Done(t)
    /\ UNCHANGED <<rowVars, store, live, grants, applied>>

-----------------------------------------------------------------------------
(* ActionRegistry::execute *)

\* load_compatible_connection accepts connected rows only.
LoadConnection(a) ==
    /\ pc[a] = "idle" /\ status = "connected"
    /\ conn' = [conn EXCEPT ![a] = rowId]
    /\ ref' = [ref EXCEPT ![a] = rowRef]
    /\ applied' = [applied EXCEPT ![a] = 0]
    /\ Goto(a, "token")
    /\ UNCHANGED <<rowVars, store, live, grants, lock, held, prior, faults>>

\* TokenAccessCapability::load, before the first try and before the second.
LoadToken(a) ==
    /\ pc[a] \in {"token", "reload"} /\ store[ref[a]] # NoCred
    /\ held' = [held EXCEPT ![a] = store[ref[a]]]
    /\ Goto(a, IF pc[a] = "token" THEN "send" ELSE "resend")
    /\ UNCHANGED <<rowVars, store, live, grants, lock, conn, ref, prior, applied, faults>>

LoadTokenFails(a) ==
    /\ pc[a] \in {"token", "reload"}
    /\ IF store[ref[a]] = NoCred THEN UNCHANGED faults ELSE Fault
    /\ Done(a)
    /\ UNCHANGED <<rowVars, store, live, grants, lock, applied>>

AnswerRetried(a, n) ==
    /\ pc[a] \in {"send", "resend"}
    /\ applied' = [applied EXCEPT ![a] = @ + n]
    /\ IF pc[a] = "send" THEN Goto(a, "reload") /\ UNCHANGED <<conn, ref, held, prior>>
                         ELSE Done(a)
    /\ UNCHANGED <<rowVars, store, live, grants, lock, faults>>

\* A result, a rejection, a time-out or a cancellation: the provider has
\* carried the request out (n = 1) or not, and nothing is sent again.
Answer(a, n) ==
    /\ pc[a] \in {"send", "resend"}
    /\ applied' = [applied EXCEPT ![a] = @ + n]
    /\ Done(a)
    /\ UNCHANGED <<rowVars, store, live, grants, lock, faults>>

\* Unauthorized: refresh and try again, once.
Unauthorized(a) ==
    /\ pc[a] = "send"
    /\ Goto(a, "wait")
    /\ held' = [held EXCEPT ![a] = NoCred]
    /\ UNCHANGED <<rowVars, store, live, grants, lock, conn, ref, prior, applied, faults>>

UnauthorizedAgain(a) ==
    /\ pc[a] = "resend"
    /\ Done(a)
    /\ UNCHANGED <<rowVars, store, live, grants, lock, applied, faults>>

-----------------------------------------------------------------------------
(* IntegrationsState::disconnect *)

AskDisconnect(d) ==
    /\ pc[d] = "idle" /\ rowId # NoGrant
    /\ conn' = [conn EXCEPT ![d] = rowId]
    /\ Goto(d, "ask")
    /\ UNCHANGED <<rowVars, store, live, grants, lock, ref, held, prior, applied, faults>>

\* mark_app_connection_revoked; "purge" is metadata_only.
Revoke(d) ==
    /\ pc[d] = "ask" /\ lock[conn[d]] = Nobody
    /\ rowId = conn[d]
    /\ lock' = [lock EXCEPT ![conn[d]] = d]
    /\ status' = "revoked"
    /\ ref' = [ref EXCEPT ![d] = rowRef]
    /\ \E step \in {"delete", "purge"} : Goto(d, step)
    /\ UNCHANGED <<rowId, rowRef, store, live, grants, conn, held, prior, applied, faults>>

\* The connection is gone already, or the database fails.
RevokeFails(d) ==
    /\ pc[d] = "ask" /\ lock[conn[d]] = Nobody
    /\ \/ rowId # conn[d] /\ UNCHANGED faults
       \/ Fault
    /\ Done(d)
    /\ UNCHANGED <<rowVars, store, live, grants, lock, applied>>

DeleteCredential(d) ==
    /\ pc[d] = "delete" /\ store[ref[d]] # NoCred
    /\ store' = [store EXCEPT ![ref[d]] = NoCred]
    /\ Goto(d, "forget")
    /\ UNCHANGED <<rowVars, live, grants, lock, conn, ref, held, prior, applied, faults>>

\* Missing or locked: the command fails and the row stays, revoked.
DeleteFails(d) ==
    /\ pc[d] = "delete"
    /\ \/ store[ref[d]] = NoCred /\ UNCHANGED faults
       \/ Fault
    /\ Unlock(d)
    /\ Done(d)
    /\ UNCHANGED <<rowVars, store, live, grants, applied>>

\* delete_app_connection_metadata.
DeleteRow(d) ==
    /\ pc[d] \in {"forget", "purge"}
    /\ rowId' = IF rowId = conn[d] THEN NoGrant ELSE rowId
    /\ rowRef' = IF rowId = conn[d] THEN NoGrant ELSE rowRef
    /\ status' = IF rowId = conn[d] THEN "none" ELSE status
    /\ Unlock(d)
    /\ Done(d)
    /\ UNCHANGED <<store, live, grants, applied, faults>>

\* The credential is gone and the row stays, revoked.
DeleteRowFails(d) ==
    /\ pc[d] \in {"forget", "purge"}
    /\ Fault
    /\ Unlock(d)
    /\ Done(d)
    /\ UNCHANGED <<rowVars, store, live, grants, applied>>

-----------------------------------------------------------------------------
\* The process dies: only the row and the stored credentials remain.
Crash ==
    /\ Fault
    /\ pc' = [t \in Tasks |-> "idle"]
    /\ conn' = [t \in Tasks |-> NoGrant]
    /\ ref' = [t \in Tasks |-> NoGrant]
    /\ held' = [t \in Tasks |-> NoCred]
    /\ prior' = [t \in Tasks |-> NoCred]
    /\ applied' = [t \in Tasks |-> 0]
    /\ lock' = [i \in Grants |-> Nobody]
    /\ UNCHANGED <<rowVars, store, live, grants>>

ConnectStep(c) ==
    \/ Lookup(c) \/ ReadPrior(c) \/ PutNew(c) \/ PutFails(c)
    \/ Upsert(c) \/ UpsertFails(c) \/ Undo(c)

RefreshStep(t) ==
    \/ GetCredential(t) \/ GetMissing(t) \/ GetLocked(t)
    \/ Renew(t) \/ RenewUnavailable(t) \/ RenewRefused(t) \/ RenewLost(t)
    \/ SaveCredential(t) \/ SaveFails(t) \/ MarkConnected(t) \/ RecordFails(t)

LockStep(t) == EnterRefresh(t) \/ RefuseRefresh(t)

ActionStep(a) ==
    \/ LoadToken(a) \/ LoadTokenFails(a)
    \/ \E n \in {0, 1} : Answer(a, n)
    \/ Unauthorized(a) \/ UnauthorizedAgain(a)

RevokeStep(d) == Revoke(d) \/ RevokeFails(d)

DisconnectStep(d) == DeleteCredential(d) \/ DeleteFails(d) \/ DeleteRow(d) \/ DeleteRowFails(d)

Next ==
    \/ \E c \in Connectors : Authorize(c) \/ ConnectStep(c)
    \/ HealthCheck
    \/ \E t \in Refreshers : LockStep(t) \/ RefreshStep(t)
    \/ \E a \in Callers : LoadConnection(a) \/ ActionStep(a)
    \/ \E d \in Disconnectors : AskDisconnect(d) \/ RevokeStep(d) \/ DisconnectStep(d)
    \/ Crash

Spec == Init /\ [][Next]_vars

\* Every await ends (requests have time-outs), and a tokio mutex serves its
\* waiters in turn, so whoever waits for the lock gets it.
Fairness ==
    /\ \A c \in Connectors : WF_vars(ConnectStep(c))
    /\ \A t \in Refreshers : WF_vars(RefreshStep(t)) /\ SF_vars(LockStep(t))
    /\ \A a \in Callers : WF_vars(ActionStep(a))
    /\ \A d \in Disconnectors : WF_vars(DisconnectStep(d)) /\ SF_vars(RevokeStep(d))

FairSpec == Spec /\ Fairness

-----------------------------------------------------------------------------
Refreshing(t) == t \in Refreshers /\ pc[t] \in {"get", "renew", "save", "mark"}
Removing(t)   == t \in Disconnectors /\ pc[t] \in {"delete", "forget", "purge"}

RowTyped ==
    /\ rowId \in 0..MaxGrants /\ rowRef \in 0..MaxGrants /\ status \in Statuses
    /\ (rowId = NoGrant) <=> (status = "none")
    /\ (rowId = NoGrant) <=> (rowRef = NoGrant)

StoreTyped ==
    /\ store \in [Grants -> Credentials]
    /\ live \in [Grants -> 0..MaxRotations]
    /\ grants \in 0..MaxGrants /\ faults \in 0..MaxFaults
    /\ lock \in [Grants -> Tasks \cup {Nobody}]

TasksTyped ==
    /\ pc \in [Tasks -> Steps]
    /\ conn \in [Tasks -> 0..MaxGrants] /\ ref \in [Tasks -> 0..MaxGrants]
    /\ held \in [Tasks -> Credentials] /\ prior \in [Tasks -> Credentials]
    /\ applied \in [Tasks -> Nat]

\* The variables have their types, and a row is whole or absent.
TypeOK == RowTyped /\ StoreTyped /\ TasksTyped

\* From the moment a refresh has read the row until its last write, nobody
\* revokes, removes or replaces the connection, whatever connects meanwhile:
\* a refresh never writes a credential back after a disconnect.
RefreshOwnsConnection ==
    \A t \in Tasks : Refreshing(t) =>
        /\ rowId = conn[t] /\ rowRef = ref[t]
        /\ status # "revoked"

\* Unless something failed, what is stored is what the provider accepts: no
\* overlap of connects, refreshes and disconnects stores a token that was
\* rotated away.
StoredIsCurrent ==
    faults = 0 => \A r \in Grants :
        \/ store[r] = NoCred
        \/ Accepted(store[r])
        \/ \E t \in Refreshers : pc[t] = "save" /\ held[t][1] = store[r][1]

\* An action is retried only after a refusal, so the provider carries it out
\* at most once.
AppliedAtMostOnce == \A a \in Callers : applied[a] <= 1

\* The metadata is deleted only after the credential is gone, as
\* docs/connected-apps.md says of a disconnect that is not metadata-only: no
\* credential is left that neither a row nor a connect in progress knows of.
SecretGoneFirst ==
    [][\A d \in Disconnectors :
         pc[d] = "forget" /\ rowId # NoGrant /\ rowId' = NoGrant
         => \/ store[ref[d]] = NoCred
            \/ \E c \in Connectors : pc[c] = "upsert" /\ ref[c] = ref[d]]_vars

\* A disconnect that was asked for gets the lock and ends.
DisconnectIsServed == \A d \in Disconnectors : pc[d] = "ask" ~> pc[d] = "idle"

-----------------------------------------------------------------------------
\* The lock of an id is held by the one task that is inside its section.
LockDiscipline ==
    /\ \A i \in Grants : lock[i] # Nobody =>
          (Refreshing(lock[i]) \/ Removing(lock[i])) /\ conn[lock[i]] = i
    /\ \A t \in Tasks : Refreshing(t) \/ Removing(t) =>
          conn[t] \in Grants /\ lock[conn[t]] = t

\* Whoever removes the row still has the row it found.
RemovalOwnsRow ==
    \A t \in Tasks : Removing(t) => rowId = conn[t] /\ rowRef = ref[t]

\* What a task needs at each step it has.
LocalsAreSet ==
    /\ \A c \in Connectors : pc[c] # "idle" => held[c] # NoCred
    /\ \A c \in Connectors : pc[c] \in {"prior", "put", "upsert", "undo"} => ref[c] \in Grants
    /\ \A t \in Tasks : pc[t] \in {"wait", "ask"} => conn[t] \in Grants
    /\ \A t \in Refreshers : pc[t] \in {"renew", "save"} => held[t] # NoCred
    /\ \A a \in Callers : pc[a] \in {"token", "reload"} => ref[a] \in Grants
    /\ \A a \in Callers : pc[a] # "idle" => conn[a] \in Grants
    /\ \A c \in Connectors : pc[c] \in {"idle", "lookup", "prior", "put", "upsert", "undo"}
    /\ \A a \in Callers : pc[a] \in {"idle", "token", "send", "wait", "get", "renew", "save",
                                     "mark", "reload", "resend"}
    /\ pc[health] \in {"idle", "wait", "get", "renew", "save", "mark"}
    /\ \A d \in Disconnectors : pc[d] \in {"idle", "ask", "delete", "forget", "purge"}

\* Until its answer, an action has had no effect.
EffectIsLast == \A a \in Callers : pc[a] # "idle" => applied[a] = 0

Inductive ==
    /\ TypeOK /\ LockDiscipline /\ RefreshOwnsConnection /\ RemovalOwnsRow
    /\ LocalsAreSet /\ EffectIsLast /\ AppliedAtMostOnce

-----------------------------------------------------------------------------
(* Why StoredIsCurrent holds as long as nothing failed: where a grant is. *)

\* A connect that has a grant and has not stored it; a refresh that has read
\* what is stored and may rotate it.
Unsaved(c)  == c \in Connectors /\ pc[c] \in {"lookup", "prior", "put"}
Renewing(t) == t \in Refreshers /\ pc[t] \in {"renew", "save"}

\* A grant is under one reference, or with the one connect that was given it;
\* a refresh may write back only what is nowhere else.
GrantHasOneHome ==
    /\ \A r, s \in Grants : r # s /\ store[r] # NoCred => store[r][1] # store[s][1]
    /\ \A c \in Tasks : Unsaved(c) => \A r \in Grants : store[r][1] # held[c][1]
    /\ \A c, d \in Tasks : c # d /\ Unsaved(c) /\ Unsaved(d) => held[c][1] # held[d][1]
    /\ \A c, t \in Tasks : Unsaved(c) /\ Renewing(t) => held[c][1] # held[t][1]
    /\ \A t \in Tasks : Renewing(t) =>
          \A r \in Grants : r # ref[t] => store[r][1] # held[t][1]

\* A grant that was not given yet is nowhere, one that nobody stored was never
\* rotated, and a refresh about to save has the newest rotation.
NewestIsKept ==
    /\ \A r \in Grants : store[r][1] <= grants
    /\ \A t \in Tasks : Unsaved(t) \/ Renewing(t) => held[t][1] <= grants
    /\ \A g \in Grants : g > grants => live[g] = 0
    /\ \A c \in Tasks : Unsaved(c) => Accepted(held[c]) /\ held[c][2] = 0
    /\ \A t \in Tasks : Renewing(t) /\ pc[t] = "save" => Accepted(held[t])

\* A connect has something to undo only after a failure.
NothingToUndo == \A c \in Connectors : pc[c] # "undo"

Current ==
    /\ StoredIsCurrent
    /\ faults = 0 => GrantHasOneHome /\ NewestIsKept /\ NothingToUndo
=============================================================================
