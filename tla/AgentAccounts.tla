---------------------------- MODULE AgentAccounts ----------------------------
(***************************************************************************)
(* The agent accounts of native harnesses (agent_accounts/service.rs,      *)
(* authorization.rs, resolver.rs, db/agent_accounts.rs): a row per account *)
(* in the database, its credential in the system's store, and the commands *)
(* that change both, each a script of steps between two awaits. All of     *)
(* them but the completion of an authorization hold the account's lock.    *)
(***************************************************************************)
EXTENDS Naturals, Sequences, FiniteSets

CONSTANTS Kinds,       \* the kinds of product the account may be of
          Ids, Keys,   \* account ids; API keys, or identities at the provider
          Calls,       \* commands, each issued once
          Earlier,     \* states of the account of an earlier session
          MaxLocks,    \* MAX_TRACKED_ACCOUNT_LOCKS
          MaxAttempts, \* MAX_ACTIVE_ATTEMPTS
          MaxFaults    \* bound: store and database failures, quits of the app

VARIABLES kind,
          accounts,    \* rows by id
          secrets,     \* the credential store, by the id in the reference
          owed,        \* ids with a credential of an older version to clean up
          dead,        \* credentials the provider has replaced
          attempt,     \* authorization attempts: "none", "open", "taken", "gone"
          lapsed,      \* attempts past their deadline
          flagged,     \* attempts whose cancellation a cancel can still find
          called,      \* attempts that were called off before they were completed
          task, pc, my, \* a command and its local variables
          arc, holds,  \* the lock a command waits for or holds
          inMap, gen,  \* locks in the map, and how often an id's was removed
          answer,      \* what a command returned
          excused,     \* ids that two commands wrote without a common lock, and lost writes
          faults

rowVars == <<accounts, secrets, owed, dead>>
attemptVars == <<attempt, lapsed, flagged, called>>
lockVars == <<arc, holds, inMap, gen>>
vars == <<kind, rowVars, attemptVars, task, pc, my, lockVars, answer, excused, faults>>

None == "none"
Old == "old"
NoRow == [key |-> None, status |-> None]

\* The local variables of a command: its account and key, whether an answer it gets is wrong,
\* whether the account is new, the credential it read, and what was stored when it began to write.
Idle == [on |-> None, key |-> None, flaw |-> FALSE, isNew |-> FALSE, prev |-> None, before |-> None]

\* AgentAccountStatus
Statuses == {"connected", "expired", "revoked", "error", "disconnect_pending"}

-----------------------------------------------------------------------------
(* The commands, step by step.                                             *)

\* connect_api_key_account
ConnectScript == <<"check", "find", "prepare", "lock", "wait", "reread", "previous", "put", "finalize", "drain">>
\* complete_authorization: no lock.
CompleteScript == <<"take", "ask", "match", "prepare", "put", "drain", "connected">>
\* refresh_account
RefreshScript == <<"lock", "wait", "reread", "handler", "access", "ask", "match", "put", "connected">>
\* disconnect_account
DisconnectScript == <<"lock", "wait", "reread", "drain", "access", "revoke", "revoked", "delete", "forget">>
\* disconnect_account with metadata_only: the credential first, then the row.
RemoveScript == <<"lock", "wait", "reread", "drain", "logout first", "delete", "forget">>
\* AgentAccountResolver::resolve
ResolveScript == <<"healthy", "credential">>

Commands == {"connect", "reconnect", "complete", "refresh", "disconnect", "remove", "resolve"}
Script(t) ==
  CASE t \in {"connect", "reconnect"} -> ConnectScript [] t = "complete" -> CompleteScript
    [] t = "refresh" -> RefreshScript [] t = "disconnect" -> DisconnectScript
    [] t = "remove" -> RemoveScript [] t = "resolve" -> ResolveScript

\* Kinds of product: "api" keys are Alfred's and have no handler, an "oauth" account has both a
\* handler and a credential, a "managed" one has its access in the profile of its runtime.
Tasks(k) == {"refresh", "disconnect", "remove", "resolve"}
              \cup (IF k = "api" THEN {"connect", "reconnect"} ELSE {})
              \cup (IF k = "oauth" THEN {"complete"} ELSE {})
HasHandler == kind # "api"
HasCredential == kind # "managed"

\* The status a command leaves when one of its steps fails.
FailedAs(c) == IF task[c] \in {"disconnect", "remove"} THEN "disconnect_pending" ELSE "error"

-----------------------------------------------------------------------------
Init ==
  /\ kind = None /\ accounts = [i \in Ids |-> NoRow] /\ secrets = [i \in Ids |-> None]
  /\ owed = {} /\ dead = {}
  /\ attempt = [c \in Calls |-> None] /\ lapsed = {} /\ flagged = {} /\ called = {}
  /\ task = [c \in Calls |-> None] /\ pc = [c \in Calls |-> 0]
  /\ my = [c \in Calls |-> Idle]
  /\ arc = [c \in Calls |-> 0] /\ holds = [c \in Calls |-> FALSE]
  /\ inMap = {} /\ gen = [i \in Ids |-> 1]
  /\ answer = [c \in Calls |-> None] /\ excused = {} /\ faults = 0

\* The accounts of earlier sessions.
Choose(k, s, debt) ==
  LET i == CHOOSE j \in Ids : TRUE
      q == CHOOSE r \in Keys : TRUE IN
  /\ kind = None /\ kind' = k /\ (debt => k = "api")
  /\ \/ UNCHANGED <<accounts, secrets, owed>>
     \/ /\ accounts' = [accounts EXCEPT ![i] = [key |-> q, status |-> s]]
        /\ secrets' = [secrets EXCEPT ![i] =
                         CASE k = "api" -> q [] k = "oauth" -> Old [] OTHER -> None]
        /\ owed' = IF debt THEN {i} ELSE {}
  /\ UNCHANGED <<dead, attemptVars, task, pc, my, lockVars, answer, excused, faults>>

\* A command is issued: for an account, or with a key, or for an attempt.
First == CHOOSE c \in Calls : TRUE   \* the calls are interchangeable: this one is issued first
Issue(c, t, i, q, bad) ==
  /\ c = First \/ task[First] # None
  /\ task' = [task EXCEPT ![c] = t] /\ pc' = [pc EXCEPT ![c] = 1]
  /\ my' = [my EXCEPT ![c] = [Idle EXCEPT !.on = i, !.key = q, !.flaw = bad]]
  /\ (i = None) = (t \in {"connect", "complete"})
  /\ (q = None) = (t \notin {"connect", "reconnect", "complete"})
  /\ bad => t \in {"connect", "reconnect", "complete", "refresh"} /\ \A d \in Calls : pc[d] = 0
  /\ \A d \in Calls : ~my[d].flaw   \* bound: a command with a wrong answer runs alone
  /\ t = "complete" => attempt[c] # None
  /\ UNCHANGED <<kind, rowVars, attemptVars, lockVars, answer, excused, faults>>

-----------------------------------------------------------------------------
(* Authorization attempts.                                                 *)

\* start_authorization, insert: attempts past their deadline or cancelled are swept, and the
\* cancellations of attempts that are not in the map with them: those being completed, too.
Swept == {a \in Calls : attempt[a] = "open" /\ a \in lapsed}
Start(c) ==
  /\ kind = "oauth" /\ attempt[c] = None /\ task[c] = None /\ (c = First \/ task[First] # None)
  /\ Cardinality({a \in Calls \ Swept : attempt[a] = "open"}) < MaxAttempts
  /\ attempt' = [a \in Calls |-> CASE a = c -> "open" [] a \in Swept -> "gone" [] OTHER -> attempt[a]]
  /\ flagged' = {a \in Calls \ Swept : attempt[a] = "open"} \cup {c}
  /\ lapsed' = lapsed \ Swept
  /\ called' = called \cup Swept
  /\ UNCHANGED <<kind, rowVars, task, pc, my, lockVars, answer, excused, faults>>

Lapse(c) ==
  /\ attempt[c] = "open" /\ c \notin lapsed
  /\ lapsed' = lapsed \cup {c} /\ called' = called \cup {c}
  /\ UNCHANGED <<kind, rowVars, attempt, flagged, task, pc, my, lockVars, answer, excused, faults>>

\* Mutant: the attempt stays in the map, and nobody looks at its flag.
CancelAttemptKeeping(c) ==
  /\ attempt[c] = "open"
  /\ called' = called \cup {c} /\ flagged' = flagged \ {c}
  /\ UNCHANGED <<kind, rowVars, attempt, lapsed, task, pc, my, lockVars, answer, excused, faults>>

\* cancel: an open attempt is removed; of one being completed only the flag is set, if it is known.
CancelAttempt(c) ==
  /\ attempt[c] = "open" \/ (attempt[c] = "taken" /\ c \in flagged)
  /\ attempt' = [attempt EXCEPT ![c] = IF @ = "open" THEN "gone" ELSE @]
  /\ called' = IF attempt[c] = "open" THEN called \cup {c} ELSE called
  /\ flagged' = flagged \ {c} /\ lapsed' = lapsed \ {c}
  /\ UNCHANGED <<kind, rowVars, task, pc, my, lockVars, answer, excused, faults>>

-----------------------------------------------------------------------------
(* The steps of a command.                                                 *)

At(c, tag) == pc[c] # 0 /\ Script(task[c])[pc[c]] = tag
Fault == faults < MaxFaults /\ faults' = faults + 1

\* What another command of the same account does without this one's lock.
Unlocked(c, i) == \E d \in Calls \ {c} : my[d].on = i /\ pc[d] # 0 /\ "complete" \in {task[c], task[d]}
Excuse(c) == excused' = IF Unlocked(c, my[c].on) THEN excused \cup {my[c].on} ELSE excused

\* The next step, with the local variables as they are, or as they become.
GoWith(c, l) == pc' = [pc EXCEPT ![c] = @ + 1] /\ my' = [my EXCEPT ![c] = l] /\ UNCHANGED <<answer, arc, holds>>
Go(c) == GoWith(c, my[c])

\* The end of a command: its guard is dropped.
End(c, how) ==
  /\ pc' = [pc EXCEPT ![c] = 0] /\ answer' = [answer EXCEPT ![c] = how]
  /\ my' = [my EXCEPT ![c] = Idle]
  /\ arc' = [arc EXCEPT ![c] = 0] /\ holds' = [holds EXCEPT ![c] = FALSE]
Continue(c) == IF pc[c] = Len(Script(task[c])) THEN End(c, "ok") ELSE Go(c)

Status(c, s) == accounts' = [accounts EXCEPT ![my[c].on].status = s]
\* set_agent_account_state: no row, no change.
SetState(c, s) == IF accounts[my[c].on] = NoRow THEN UNCHANGED accounts ELSE Status(c, s)

\* validate_native_api_key and the product's checks.
CheckInput(c) ==
  /\ At(c, "check") /\ IF my[c].flaw THEN End(c, "failed") ELSE Go(c)
  /\ UNCHANGED <<kind, rowVars, attemptVars, task, inMap, gen, excused, faults>>

WithKey(q) == {i \in Ids : accounts[i].key = q}

\* get_agent_account, get_agent_account_by_identity: a known account skips the preparation.
Find(c) ==
  /\ At(c, "find")
  /\ LET found == IF task[c] = "reconnect" THEN {my[c].on} ELSE WithKey(my[c].key) IN
       IF task[c] = "reconnect" /\ accounts[my[c].on] = NoRow
         THEN End(c, "failed")
         ELSE IF found = {}
                THEN GoWith(c, [my[c] EXCEPT !.isNew = TRUE])
                ELSE /\ pc' = [pc EXCEPT ![c] = @ + 2] /\ UNCHANGED <<answer, arc, holds>>
                     /\ my' = [my EXCEPT ![c].on = CHOOSE i \in found : TRUE]
  /\ UNCHANGED <<kind, rowVars, attemptVars, task, inMap, gen, excused, faults>>

\* prepare_agent_account: the identity's row, or a new one, waits for its access.
Prepare(c) ==
  /\ At(c, "prepare")
  /\ \E i \in Ids :
       /\ IF WithKey(my[c].key) # {} THEN i \in WithKey(my[c].key)
                                  ELSE accounts[i] = NoRow /\ gen[i] = 1 
       /\ accounts' = [accounts EXCEPT ![i] = [key |-> my[c].key, status |-> "error"]]
       /\ GoWith(c, [my[c] EXCEPT !.on = i, !.before = secrets[i]])
       /\ excused' = IF Unlocked(c, i) THEN excused \cup {i} ELSE excused
  /\ UNCHANGED <<kind, secrets, owed, dead, attemptVars, task, inMap, gen, faults>>

\* The map before a lock is added: at its limit it drops those nobody waits for or holds.
Pruned(i) ==
  IF i \in inMap \/ Cardinality(inMap) < MaxLocks
    THEN inMap ELSE {j \in inMap : \E d \in Calls : my[d].on = j /\ arc[d] = gen[j]}

\* lock_account: the account's lock is taken from the map, or made.
LockAccount(c) ==
  LET i == my[c].on kept == Pruned(i) IN
  /\ At(c, "lock")
  /\ IF i \notin kept /\ Cardinality(kept) >= MaxLocks
       THEN End(c, "failed") /\ inMap' = kept /\ UNCHANGED gen
       ELSE /\ pc' = [pc EXCEPT ![c] = @ + 1] /\ arc' = [arc EXCEPT ![c] = gen[i]]
            /\ inMap' = kept \cup {i} /\ UNCHANGED <<answer, holds, gen, my>>
  /\ UNCHANGED <<kind, rowVars, attemptVars, task, excused, faults>>

\* release_account_lock: who waits for the lock keeps waiting for it; who comes later gets another.
Released(i) == inMap' = inMap \ {i} /\ gen' = [gen EXCEPT ![i] = 2]

\* Mutant: the guard is dropped at once.
WaitDropped(c) ==
  /\ At(c, "wait") /\ pc' = [pc EXCEPT ![c] = @ + 1] /\ holds' = [holds EXCEPT ![c] = TRUE]
  /\ UNCHANGED <<kind, rowVars, attemptVars, task, my, arc, inMap, gen, answer, excused, faults>>

\* Mutant: a command waits until the lock it was given is the account's again.
WaitStale(c) ==
  /\ At(c, "wait") /\ \A d \in Calls \ {c} : ~(holds[d] /\ my[d].on = my[c].on /\ arc[d] = arc[c])
  /\ arc[c] = gen[my[c].on]
  /\ pc' = [pc EXCEPT ![c] = @ + 1] /\ holds' = [holds EXCEPT ![c] = TRUE]
  /\ UNCHANGED <<kind, rowVars, attemptVars, task, my, arc, inMap, gen, answer, excused, faults>>

\* lock_owned: the lock a command waits for may no longer be the one in the map.
Wait(c) ==
  /\ At(c, "wait") /\ \A d \in Calls \ {c} : ~(holds[d] /\ my[d].on = my[c].on /\ arc[d] = arc[c])
  /\ pc' = [pc EXCEPT ![c] = @ + 1] /\ holds' = [holds EXCEPT ![c] = TRUE]
  /\ UNCHANGED <<kind, rowVars, attemptVars, task, my, arc, inMap, gen, answer, excused, faults>>

\* The row as it is now: gone, or in a state the command refuses. A connect that prepared the row
\* goes on as if it were new unless somebody connected it.
Reread(c) ==
  /\ At(c, "reread")
  /\ LET r == accounts[my[c].on] IN
       IF r = NoRow \/ (task[c] = "refresh" /\ r.status \in {"revoked", "disconnect_pending"})
            THEN End(c, "failed")
            ELSE GoWith(c, [my[c] EXCEPT !.isNew = @ /\ r.status # "connected", !.before = secrets[my[c].on]])
  /\ Excuse(c)
  /\ UNCHANGED <<kind, rowVars, attemptVars, task, inMap, gen, faults>>

\* Mutant: no copy of the earlier key is taken.
PreviousNever(c) ==
  /\ At(c, "previous") /\ Go(c) /\ Excuse(c)
  /\ UNCHANGED <<kind, rowVars, attemptVars, task, inMap, gen, faults>>

\* The key to put back; a store that cannot answer ends the command.
Previous(c) ==
  /\ At(c, "previous")
  /\ \/ /\ GoWith(c, [my[c] EXCEPT !.prev = IF my[c].isNew THEN None ELSE secrets[my[c].on]])
        /\ UNCHANGED faults
     \/ ~my[c].isNew /\ Fault /\ End(c, "failed")
  /\ Excuse(c)
  /\ UNCHANGED <<kind, rowVars, attemptVars, task, inMap, gen>>

\* Without a handler the account cannot be refreshed.
Handler(c) ==
  /\ At(c, "handler") /\ Excuse(c)
  /\ IF HasHandler THEN Go(c) /\ UNCHANGED accounts ELSE End(c, "failed") /\ SetState(c, "error")
  /\ UNCHANGED <<kind, secrets, owed, dead, attemptVars, task, inMap, gen, faults>>

\* read_access: a disconnect goes on without a credential, and stays pending on a store failure.
Access(c) ==
  /\ At(c, "access") /\ Excuse(c)
  /\ \/ /\ IF HasCredential /\ secrets[my[c].on] = None /\ task[c] = "refresh"
             THEN End(c, "failed") ELSE GoWith(c, [my[c] EXCEPT !.prev = secrets[my[c].on]])
        /\ UNCHANGED <<accounts, faults>>
     \/ /\ HasCredential /\ Fault /\ End(c, "failed")
        /\ IF task[c] = "refresh" THEN UNCHANGED accounts ELSE SetState(c, FailedAs(c))
  /\ UNCHANGED <<kind, secrets, owed, dead, attemptVars, task, inMap, gen>>

\* take: the attempt is removed, then looked at.
Take(c) ==
  /\ At(c, "take")
  /\ IF attempt[c] = "open"
       THEN /\ attempt' = [attempt EXCEPT ![c] = IF c \in lapsed THEN "gone" ELSE "taken"]
            /\ flagged' = IF c \in lapsed THEN flagged \ {c} ELSE flagged
            /\ IF c \in lapsed THEN End(c, "failed") ELSE Go(c)
       ELSE End(c, "failed") /\ UNCHANGED <<attempt, flagged>>
  /\ lapsed' = lapsed \ {c}
  /\ UNCHANGED <<kind, rowVars, called, task, inMap, gen, excused, faults>>

\* record_provider_failure
ProviderFailed(c, terminal) ==
  /\ End(c, "failed")
  /\ IF task[c] = "refresh" THEN SetState(c, IF terminal THEN "revoked" ELSE "error") ELSE UNCHANGED accounts

\* The provider completes or refreshes (external): a refresh replaces the credential it was given,
\* and one that was replaced before is refused for good.
Ask(c) ==
  /\ At(c, "ask")
  /\ attempt' = [attempt EXCEPT ![c] = IF task[c] = "complete" THEN "gone" ELSE @]
  /\ flagged' = IF task[c] = "complete" THEN flagged \ {c} ELSE flagged
  /\ IF task[c] = "refresh" THEN Excuse(c) ELSE UNCHANGED excused
  /\ \/ /\ ~(task[c] = "refresh" /\ my[c].prev \in dead) /\ Go(c) /\ UNCHANGED accounts
        /\ dead' = IF task[c] = "refresh" /\ HasCredential THEN dead \cup {my[c].prev} ELSE dead
     \/ ProviderFailed(c, FALSE) /\ UNCHANGED dead
     \/ ProviderFailed(c, TRUE) /\ UNCHANGED dead
  /\ UNCHANGED <<kind, secrets, owed, lapsed, called, task, inMap, gen, faults>>

\* validate_provider_access and the account's own data: an answer for another registration or
\* another profile ends the command as it stands.
Match(c) ==
  /\ At(c, "match") /\ IF my[c].flaw THEN End(c, "failed") ELSE Go(c)
  /\ excused' = IF my[c].flaw /\ task[c] = "refresh" THEN excused \cup {my[c].on} ELSE excused
  /\ UNCHANGED <<kind, rowVars, attemptVars, task, inMap, gen, faults>>

NewSecret(c) == IF kind = "api" THEN my[c].key ELSE c

\* The store after a failed write: as before, or already written.
HalfWritten(c) == {secrets[my[c].on], NewSecret(c)}

\* get_agent_account_credential_cleanup
Owed(c) == my[c].on \in owed

\* rollback_api_key_credential, which may fail too, and the end of a connect that failed after it.
Undo(c, stored) ==
  \/ /\ secrets' = [secrets EXCEPT ![my[c].on] = my[c].prev] /\ UNCHANGED excused
     /\ IF my[c].isNew /\ ~Owed(c)
          THEN /\ accounts' = [accounts EXCEPT ![my[c].on] = NoRow]
               /\ Released(my[c].on)
          ELSE UNCHANGED <<accounts, inMap, gen>>
  \/ /\ secrets' = [secrets EXCEPT ![my[c].on] = stored] /\ SetState(c, "error")
     /\ UNCHANGED <<excused, inMap, gen>>

\* Mutant: a failed write leaves the account as it is.
PutSilently(c) ==
  /\ At(c, "put") /\ ~(kind = "api")
  /\ \/ /\ Go(c) /\ UNCHANGED faults
        /\ secrets' = [secrets EXCEPT ![my[c].on] = IF HasCredential THEN NewSecret(c) ELSE @]
     \/ HasCredential /\ Fault /\ End(c, "failed") /\ UNCHANGED secrets
  /\ Excuse(c)
  /\ UNCHANGED <<kind, accounts, owed, dead, attemptVars, task, inMap, gen>>

\* put, of an authorization or a refresh.
Put(c) ==
  /\ At(c, "put") /\ ~(kind = "api")
  /\ \/ /\ Go(c) /\ UNCHANGED <<accounts, faults>>
        /\ secrets' = [secrets EXCEPT ![my[c].on] = IF HasCredential THEN NewSecret(c) ELSE @]
     \/ /\ HasCredential /\ Fault /\ End(c, "failed") /\ SetState(c, "error")
        /\ \E s \in HalfWritten(c) : secrets' = [secrets EXCEPT ![my[c].on] = s]
  /\ Excuse(c)
  /\ UNCHANGED <<kind, owed, dead, attemptVars, task, inMap, gen>>

\* put, of an API key: a failed write is rolled back.
PutKey(c) ==
  /\ At(c, "put") /\ kind = "api"
  /\ \/ /\ Go(c) /\ secrets' = [secrets EXCEPT ![my[c].on] = NewSecret(c)]
        /\ UNCHANGED <<accounts, inMap, gen, excused, faults>>
     \/ /\ Fault /\ End(c, "failed") /\ \E s \in HalfWritten(c) : Undo(c, s)
  /\ UNCHANGED <<kind, owed, dead, attemptVars, task>>

\* Mutant: a row that cannot be finalized keeps the new key.
FinalizeKeeping(c) ==
  /\ At(c, "finalize")
  /\ \/ /\ Go(c) /\ WithKey(my[c].key) \subseteq {my[c].on}
        /\ accounts' = [accounts EXCEPT ![my[c].on] = [key |-> my[c].key, status |-> "connected"]]
        /\ UNCHANGED faults
     \/ /\ End(c, "failed") /\ UNCHANGED accounts
        /\ IF WithKey(my[c].key) \subseteq {my[c].on} THEN Fault ELSE UNCHANGED faults
  /\ UNCHANGED <<kind, secrets, owed, dead, attemptVars, task, inMap, gen, excused>>

\* finalize_api_key_agent_account: refused by the database when another account has the key.
Finalize(c) ==
  /\ At(c, "finalize")
  /\ \/ /\ Go(c) /\ WithKey(my[c].key) \subseteq {my[c].on}
        /\ accounts' = [accounts EXCEPT ![my[c].on] = [key |-> my[c].key, status |-> "connected"]]
        /\ UNCHANGED <<secrets, inMap, gen, excused, faults>>
     \/ /\ IF WithKey(my[c].key) \subseteq {my[c].on} THEN Fault ELSE UNCHANGED faults
        /\ End(c, "failed") /\ Undo(c, NewSecret(c))
  /\ UNCHANGED <<kind, owed, dead, attemptVars, task>>

\* drain_agent_account_credential_cleanup
Drain(c) ==
  /\ At(c, "drain") /\ Excuse(c)
  /\ \/ Continue(c) /\ owed' = owed \ {my[c].on} /\ UNCHANGED <<accounts, faults>>
     \/ Owed(c) /\ Fault /\ End(c, "failed") /\ SetState(c, FailedAs(c)) /\ UNCHANGED owed
  /\ UNCHANGED <<kind, secrets, dead, attemptVars, task, inMap, gen>>

\* The account is connected only now; without its row the command fails.
Connected(c) ==
  /\ At(c, "connected") /\ Excuse(c)
  /\ \/ /\ IF accounts[my[c].on] = NoRow THEN End(c, "failed") ELSE End(c, "ok")
        /\ SetState(c, "connected") /\ UNCHANGED faults
     \/ Fault /\ End(c, "failed") /\ UNCHANGED accounts
  /\ UNCHANGED <<kind, secrets, owed, dead, attemptVars, task, inMap, gen>>

\* The profile of a managed subscription is logged out before its row may go.
LogoutFirst(c) ==
  /\ At(c, "logout first") /\ Excuse(c)
  /\ IF kind = "managed" THEN End(c, "failed") /\ SetState(c, "disconnect_pending")
                         ELSE Go(c) /\ UNCHANGED accounts
  /\ UNCHANGED <<kind, secrets, owed, dead, attemptVars, task, inMap, gen, faults>>

\* The handler's revoke; an API key has no remote revocation, a revoked credential needs none.
Revoke(c) ==
  /\ At(c, "revoke") /\ Excuse(c)
  /\ \/ Go(c) /\ UNCHANGED accounts
     \/ /\ HasHandler /\ (HasCredential => my[c].prev # None)
        /\ End(c, "failed") /\ SetState(c, "disconnect_pending")
  /\ UNCHANGED <<kind, secrets, owed, dead, attemptVars, task, inMap, gen, faults>>

\* Mutant: the account stays connected until its row is deleted.
RevokedLate(c) ==
  /\ At(c, "revoked") /\ Excuse(c) /\ Go(c)
  /\ UNCHANGED <<kind, accounts, secrets, owed, dead, attemptVars, task, inMap, gen, faults>>

\* The account is revoked before its credential is deleted.
Revoked(c) ==
  /\ At(c, "revoked") /\ Excuse(c) /\ Go(c) /\ SetState(c, "revoked")
  /\ UNCHANGED <<kind, secrets, owed, dead, attemptVars, task, inMap, gen, faults>>

\* Mutant: a credential that cannot be deleted is left behind.
DeleteOnce(c) ==
  /\ At(c, "delete") /\ Excuse(c)
  /\ \/ Go(c) /\ secrets' = [secrets EXCEPT ![my[c].on] = None] /\ UNCHANGED <<accounts, faults>>
     \/ secrets[my[c].on] # None /\ Fault /\ Go(c) /\ UNCHANGED <<accounts, secrets>>
  /\ UNCHANGED <<kind, owed, dead, attemptVars, task, inMap, gen>>

\* delete: the row keeps the reference until the credential is gone.
Delete(c) ==
  /\ At(c, "delete") /\ Excuse(c)
  /\ \/ Go(c) /\ secrets' = [secrets EXCEPT ![my[c].on] = None] /\ UNCHANGED <<accounts, faults>>
     \/ /\ secrets[my[c].on] # None /\ Fault /\ End(c, "failed")
        /\ SetState(c, "disconnect_pending") /\ UNCHANGED secrets
  /\ UNCHANGED <<kind, owed, dead, attemptVars, task, inMap, gen>>

\* delete_agent_account_metadata, release_account_lock: a row that cannot be deleted stays as it
\* is, which a removal has not marked.
Forget(c) ==
  /\ At(c, "forget")
  /\ \/ /\ End(c, "ok") /\ accounts' = [accounts EXCEPT ![my[c].on] = NoRow]
        /\ Released(my[c].on)
        /\ Excuse(c) /\ UNCHANGED faults
     \/ /\ Fault /\ End(c, "failed")
        /\ excused' = IF task[c] = "remove" \/ Unlocked(c, my[c].on) THEN excused \cup {my[c].on} ELSE excused
        /\ UNCHANGED <<accounts, inMap, gen>>
  /\ UNCHANGED <<kind, secrets, owed, dead, attemptVars, task>>

\* resolve: only a connected account gives a run its credential.
Healthy(c) ==
  /\ At(c, "healthy")
  /\ IF accounts[my[c].on].status = "connected" THEN Go(c) ELSE End(c, "failed")
  /\ UNCHANGED <<kind, rowVars, attemptVars, task, inMap, gen, excused, faults>>
Credential(c) ==
  /\ At(c, "credential")
  /\ \/ /\ IF HasCredential /\ secrets[my[c].on] = None THEN End(c, "failed") ELSE End(c, "ok")
        /\ UNCHANGED faults
     \/ HasCredential /\ Fault /\ End(c, "failed")
  /\ UNCHANGED <<kind, rowVars, attemptVars, task, inMap, gen, excused>>

\* project_expiry: reading an account whose credential has expired marks it.
Project(i) ==
  /\ kind = "oauth" /\ accounts[i].status = "connected"
  /\ accounts' = [accounts EXCEPT ![i].status = "expired"]
  /\ UNCHANGED <<kind, secrets, owed, dead, attemptVars, task, pc, my, lockVars, answer, excused, faults>>

\* The app quits: commands, attempts and locks are gone, the rows and the store stay.
Quit ==
  /\ kind # None /\ Fault /\ \E c \in Calls : pc[c] # 0
  /\ pc' = [c \in Calls |-> 0] /\ my' = [c \in Calls |-> Idle] /\ arc' = [c \in Calls |-> 0] /\ holds' = [c \in Calls |-> FALSE]
  /\ attempt' = [c \in Calls |-> "gone"] /\ flagged' = {} /\ lapsed' = {} /\ inMap' = {}
  /\ excused' = excused \cup {my[c].on : c \in {d \in Calls : pc[d] # 0 /\ task[d] # "disconnect"}}
  /\ UNCHANGED <<kind, rowVars, called, task, gen, answer>>

Step(c) ==
  \/ CheckInput(c) \/ Find(c) \/ Prepare(c) \/ LockAccount(c) \/ Wait(c) \/ Reread(c) \/ Previous(c)
  \/ Handler(c) \/ Access(c) \/ Take(c) \/ Ask(c) \/ Match(c) \/ Put(c) \/ PutKey(c) \/ Finalize(c)
  \/ Drain(c) \/ Connected(c) \/ LogoutFirst(c) \/ Revoke(c) \/ Revoked(c) \/ Delete(c) \/ Forget(c)
  \/ Healthy(c) \/ Credential(c)

Next ==
  \/ \E k \in Kinds, s \in Earlier, d \in BOOLEAN : Choose(k, s, d)
  \/ \E c \in {d \in Calls : kind # None /\ task[d] = None} :
       \E t \in Tasks(kind), i \in Ids \cup {None}, q \in Keys \cup {None}, b \in BOOLEAN : Issue(c, t, i, q, b)
  \/ \E c \in Calls : Start(c) \/ Lapse(c) \/ CancelAttempt(c) \/ Step(c)
  \/ \E i \in Ids : Project(i)
  \/ Quit

Spec == Init /\ [][Next]_vars
FairSpec == Spec /\ \A c \in Calls : WF_vars(Step(c))

-----------------------------------------------------------------------------
(* Properties.                                                             *)

Secrets == Keys \cup Calls \cup {Old, None}

\* The types of the variables.
TypeOK ==
  /\ kind \in Kinds \cup {None} /\ accounts \in [Ids -> [key : Keys \cup {None}, status : Statuses \cup {None}]]
  /\ secrets \in [Ids -> Secrets] /\ owed \subseteq Ids /\ dead \subseteq Secrets
  /\ attempt \in [Calls -> {None, "open", "taken", "gone"}]
  /\ lapsed \subseteq Calls /\ flagged \subseteq Calls /\ called \subseteq Calls
  /\ task \in [Calls -> Commands \cup {None}] /\ pc \in [Calls -> 0..10]
  /\ my \in [Calls -> [on : Ids \cup {None}, key : Keys \cup {None}, flaw : BOOLEAN, isNew : BOOLEAN,
                         prev : Secrets, before : Secrets]]
  /\ arc \in [Calls -> 0..2] /\ holds \in [Calls -> BOOLEAN]
  /\ inMap \subseteq Ids /\ gen \in [Ids -> 1..2]
  /\ answer \in [Calls -> {None, "ok", "failed"}]
  /\ excused \subseteq Ids \cup {None} /\ faults \in 0..MaxFaults

\* A call of one of the tasks is at a later step than the one named.
Past(c, i, tasks, tag) ==
  /\ pc[c] # 0 /\ my[c].on = i /\ task[c] \in tasks
  /\ \E n \in 1..(pc[c] - 1) : Script(task[c])[n] = tag

\* A connected account has its credential: commands write the store before they connect the row
\* and unmark the row before they delete. Removal does not, and neither does a completion that
\* overlaps another command, for it takes no lock.
ConnectedHasCredential ==
  \A i \in Ids \ excused :
    accounts[i].status = "connected" /\ HasCredential /\ kind # None
      /\ ~(\E c \in Calls : Past(c, i, {"remove"}, "delete"))
    => secrets[i] # None

\* The stored key of a connected API account is the one its row shows, however its connects failed.
ShownKeyIsStored ==
  \A i \in Ids \ excused :
    kind = "api" /\ accounts[i].status = "connected" /\ secrets[i] # None
      /\ ~(\E c \in Calls : Past(c, i, {"connect", "reconnect"}, "put"))
    => secrets[i] = accounts[i].key

\* No credential is left in the store without a row that says where it is, not even by a quit;
\* only a completion can write one back after a disconnect.
NoOrphanSecret ==
  \A i \in Ids : secrets[i] # None /\ accounts[i] = NoRow =>
    \E c \in Calls : task[c] = "complete" /\ secrets[i] = c

\* A connected account never holds a credential the provider has replaced: the promotion happens
\* only after the rotated credential is stored.
LiveWhenConnected ==
  \A i \in Ids \ excused :
    accounts[i].status = "connected" /\ ~(\E c \in Calls : Past(c, i, {"refresh"}, "ask"))
    => secrets[i] \notin dead

\* Two commands never work on one account at a time, though the map of locks forgets locks: a
\* command that got a lock nobody else can get any more finds the row gone.
OneWriter ==
  \A c, d \in Calls :
    c # d /\ holds[c] /\ holds[d] /\ my[c].on = my[d].on => accounts[my[c].on] = NoRow

\* An attempt that was cancelled or ran out before it was completed connects nothing.
CalledOffNeverConnects == \A c \in called : ~(task[c] = "complete" /\ answer[c] = "ok")

\* Whether a connect fails in this step, after it looked at what was stored.
Fails(c) ==
  /\ task[c] \in {"connect", "reconnect"} /\ holds[c] /\ pc[c] > 6
  /\ answer[c] = None /\ answer'[c] = "failed"

\* A reconnect that fails leaves the stored key as it found it, or marks the account.
FailedConnectRestores ==
  \A c \in Calls : Fails(c) /\ ~my[c].isNew =>
    secrets'[my[c].on] = my[c].before \/ accounts'[my[c].on].status = "error"

\* Every command ends, also when the lock it waits for was dropped from the map.
CommandsEnd == \A c \in Calls : pc[c] # 0 ~> pc[c] = 0
=============================================================================
