--------------------------- MODULE ManagedConnect ---------------------------
(***************************************************************************)
(* How a managed product is connected, used and disconnected               *)
(* (commands/managed_runtime.rs, agent_accounts/runtime_profile.rs,        *)
(* opencode/account.rs, codex/sdk_runtime.rs): the profile directories its *)
(* runtimes work in, the leases their processes hold, the row of the       *)
(* account, the connection shown to the user, and the commands on them,    *)
(* each a script of steps that interleave. There is one row per product:   *)
(* the identity of its account is fixed.                                   *)
(***************************************************************************)
EXTENDS Naturals, Sequences, FiniteSets

CONSTANTS Products,   \* of "claude", "codex", "opencode"
          Jobs,       \* commands that can run at the same time
          MaxProfiles, MaxIssues, MaxFaults   \* bounds

VARIABLES product,
          ready,      \* whether a verified package of the product is selected
          disk,       \* profile directories: "none", "active", "preserved", "broken"
          made,       \* how many profiles were created
          row,        \* the account: its id is the profile it was made with
          conn,       \* the ManagedConnection of the product
          session,    \* the profile of the Codex connection that is kept
          procs,      \* processes with a lease, <<owner, profile>>
          signed,     \* profiles whose login the user has completed
          gone,       \* profiles whose account was disconnected
          stray,      \* whether a poll reported a profile that was purged meanwhile
          task, pc, my, issued, faults

vars == <<product, ready, disk, made, row, conn, session, procs, signed, gone, stray, task, pc, my, issued, faults>>

Profiles == 1..MaxProfiles
None == 0
NoRow == [id |-> None, profile |-> None, status |-> "none"]
NoConn == [state |-> "none", of |-> None]

\* A command: its profile, the account it found, the record of it that was read, the Codex connection it took, whether a
\* step failed that it goes on after, and whether the profile was purged since it looked.
Idle == [p |-> None, id |-> None, seen |-> "none", sess |-> None, bad |-> FALSE, late |-> FALSE]

-----------------------------------------------------------------------------
(* Release gates.                                                          *)

\* The gates the products declare.
GateCodes == [claude |-> {"terms", "package", "publisher", "smoke", "renderer"},
              codex |-> {"audit", "approval", "enterprise", "package", "smoke"},
              opencode |-> {"terms", "smoke"}]

\* Gates that do not keep a user from connecting.
FilteredGates == [claude |-> {"terms", "smoke", "renderer"},
                  codex |-> {"audit", "approval", "enterprise", "smoke"}, opencode |-> {}]

\* product_status: a selected package opens its own gates. OpenCode's gates are waived by the
\* tests, so its commands are modelled as if they were.
ConnectAvailable ==
  product = "opencode" \/ GateCodes[product] \ (FilteredGates[product]
                            \cup IF ready THEN {"package", "publisher"} ELSE {}) = {}

-----------------------------------------------------------------------------
(* The commands, step by step.                                             *)

\* start_claude_oauth
StartClaude == <<"single", "ready", "create", "login", "pending">>
\* start_codex_oauth
StartCodex == <<"ready", "create", "login", "keep", "pending">>
\* begin_opencode_api_key_connection
StartOpenCode == <<"ready", "pending">>
\* complete_claude_oauth
PollClaude == <<"look", "open", "launch", "status", "persist", "show">>
\* complete_codex_oauth
PollCodex == <<"look", "ask", "persist", "show">>
\* logout_claude_account
LogoutClaude == <<"account", "logout", "closed", "purge", "hide", "revoked", "forget">>
\* logout_codex_account
LogoutCodex == <<"account", "reopen", "take", "goodbye", "purge", "hide", "revoked", "forget">>
\* OpenCodeAccountManager::disconnect
LogoutOpenCode == <<"account", "server", "delete key", "purge", "hide", "revoked", "forget">>
\* connect_opencode_go: the account there is is logged out first.
ConnectOpenCode == <<"parse", "ready", "account", "server", "delete key", "purge", "hide",
                     "create", "own server", "set key", "stop", "persist", "show">>
\* A run of the product's runtime, from its row to the end of its process.
RunScript == <<"account", "open", "launch", "finish">>

Script(t) ==
  CASE t = "run" -> RunScript
    [] t = "start" -> [claude |-> StartClaude, codex |-> StartCodex, opencode |-> StartOpenCode][product]
    [] t = "poll" -> IF product = "claude" THEN PollClaude ELSE PollCodex
    [] t = "key" -> ConnectOpenCode
    [] t = "disconnect" -> [claude |-> LogoutClaude, codex |-> LogoutCodex,
                            opencode |-> LogoutOpenCode][product]

Tasks == {"run", "start", "disconnect", IF product = "opencode" THEN "key" ELSE "poll"}

-----------------------------------------------------------------------------
Init ==
  /\ product = "none" /\ ready = FALSE
  /\ disk = [p \in Profiles |-> "none"] /\ made = 0
  /\ row = NoRow /\ conn = NoConn /\ session = None /\ procs = {} /\ signed = {} /\ gone = {} /\ stray = FALSE
  /\ task = [j \in Jobs |-> "none"] /\ pc = [j \in Jobs |-> 0] /\ my = [j \in Jobs |-> Idle]
  /\ issued = 0 /\ faults = 0

\* initialize: a package that verifies is selected at start.
Initialize(k, verified) ==
  /\ product = "none" /\ product' = k /\ ready' = verified
  /\ UNCHANGED <<disk, made, row, conn, session, procs, signed, gone, stray, task, pc, my, issued, faults>>

\* prepare_product: the package is looked for again; one that no longer verifies stays selected.
PrepareProduct ==
  /\ product # "none" /\ ~ready /\ ready' = TRUE
  /\ UNCHANGED <<product, disk, made, row, conn, session, procs, signed, gone, stray, task, pc, my, issued, faults>>

Creating == {j \in Jobs : task[j] \in {"start", "key"}}
First == CHOOSE j \in Jobs : TRUE   \* idle commands are interchangeable: this one is taken first

\* A command is issued. Disconnects of the account wait for each other.
Issue(j, t) ==
  /\ product # "none" /\ t \in Tasks /\ task[j] = "none" /\ issued < MaxIssues
  /\ j = First \/ task[First] # "none"
  /\ t = "disconnect" => \A d \in Jobs : task[d] # "disconnect"
  /\ t \in {"start", "key"} => made + Cardinality(Creating) < MaxProfiles
  /\ task' = [task EXCEPT ![j] = t] /\ pc' = [pc EXCEPT ![j] = 1] /\ issued' = issued + 1
  /\ UNCHANGED <<product, ready, disk, made, row, conn, session, procs, signed, gone, stray, my, faults>>

-----------------------------------------------------------------------------
(* Steps.                                                                  *)

At(j, tag) == pc[j] # 0 /\ Script(task[j])[pc[j]] = tag
Fault == faults < MaxFaults /\ faults' = faults + 1

GoWith(j, l) == pc' = [pc EXCEPT ![j] = @ + 1] /\ my' = [my EXCEPT ![j] = l] /\ UNCHANGED task
Go(j) == GoWith(j, my[j])
Quiet(j) == /\ pc' = [pc EXCEPT ![j] = 0] /\ my' = [my EXCEPT ![j] = Idle]
            /\ task' = [task EXCEPT ![j] = "none"]
End(j) == Quiet(j) /\ UNCHANGED <<row, conn>>

\* A command fails: a disconnect leaves its row pending, a key intake shows an error.
Fail(j) ==
  /\ Quiet(j)
  /\ row' = IF task[j] = "disconnect" /\ row # NoRow THEN [row EXCEPT !.status = "disconnect_pending"] ELSE row
  /\ conn' = IF task[j] = "key" THEN [state |-> "error", of |-> None] ELSE conn

Readable(p) == disk[p] \in {"active", "preserved"}

\* start_connection: one account of Claude at a time.
Single(j) ==
  /\ At(j, "single")
  /\ IF row.status = "connected" THEN Fail(j) ELSE Go(j) /\ UNCHANGED <<row, conn>>
  /\ UNCHANGED <<product, ready, disk, made, session, procs, signed, gone, stray, issued, faults>>

\* OpenCodeGoKey::parse: a malformed key is refused before anything is touched.
CheckKey(j) ==
  /\ At(j, "parse") /\ (End(j) \/ (Go(j) /\ UNCHANGED <<row, conn>>))
  /\ UNCHANGED <<product, ready, disk, made, session, procs, signed, gone, stray, issued, faults>>

\* The package and the gates.
Ready(j) ==
  /\ At(j, "ready")
  /\ IF ready /\ ConnectAvailable THEN Go(j) /\ UNCHANGED <<row, conn>> ELSE Fail(j)
  /\ UNCHANGED <<product, ready, disk, made, session, procs, signed, gone, stray, issued, faults>>

\* RuntimeProfileStore::create: a directory that cannot be completed is removed.
Create(j) ==
  /\ At(j, "create")
  /\ \/ /\ made' = made + 1 /\ disk' = [disk EXCEPT ![made + 1] = "active"]
        /\ GoWith(j, [my[j] EXCEPT !.p = made + 1, !.seen = "active"])
        /\ UNCHANGED <<row, conn, faults>>
     \/ Fault /\ Fail(j) /\ UNCHANGED <<disk, made>>
  /\ UNCHANGED <<product, ready, session, procs, signed, gone, stray, issued>>

\* Mutant: the lease is given on the strength of the record read before.
LeasedUnseen(p, seen) == seen = "active"

\* acquire_supervisor_lease: the record is read again under the lock the purge takes.
Leased(p, seen) == disk[p] = "active" /\ seen = "active"

\* The login's process; one that cannot be started leaves the profile behind.
Login(j) ==
  /\ At(j, "login")
  /\ \/ /\ Leased(my[j].p, my[j].seen) /\ procs' = procs \cup {<<"login", my[j].p>>}
        /\ Go(j) /\ UNCHANGED <<row, conn, faults>>
     \/ ~Leased(my[j].p, my[j].seen) /\ Fail(j) /\ UNCHANGED <<procs, faults>>
     \/ Fault /\ Fail(j) /\ UNCHANGED procs
  /\ UNCHANGED <<product, ready, disk, made, session, signed, gone, stray, issued>>

\* codex_sessions.insert: the connection that was kept is dropped, and its process with it.
Keep(j) ==
  /\ At(j, "keep") /\ Go(j) /\ session' = my[j].p
  /\ procs' = procs \ {<<"login", session>>}
  /\ UNCHANGED <<product, ready, disk, made, row, conn, signed, gone, stray, issued, faults>>

\* store_connection
Pending(j) ==
  /\ At(j, "pending") /\ Quiet(j) /\ conn' = [state |-> "connecting", of |-> my[j].p]
  /\ UNCHANGED <<product, ready, disk, made, row, session, procs, signed, gone, stray, issued, faults>>

\* The user completes the login; its process ends, is closed or crashes.
SignIn(p) ==
  /\ <<"login", p>> \in procs /\ p \notin signed /\ signed' = signed \cup {p}
  /\ UNCHANGED <<product, ready, disk, made, row, conn, session, procs, gone, stray, task, pc, my, issued, faults>>
CloseTerminal(p) ==
  /\ <<"login", p>> \in procs /\ procs' = procs \ {<<"login", p>>}
  /\ UNCHANGED <<product, ready, disk, made, row, conn, session, signed, gone, stray, task, pc, my, issued, faults>>

\* poll_pending_oauth
Look(j) ==
  /\ At(j, "look")
  /\ IF conn.state = "connecting" THEN GoWith(j, [my[j] EXCEPT !.p = conn.of]) /\ UNCHANGED <<row, conn>>
                                  ELSE End(j)
  /\ UNCHANGED <<product, ready, disk, made, session, procs, signed, gone, stray, issued, faults>>

\* The account a disconnect or a run is for; an intake without one skips the logout.
Account(j) ==
  /\ At(j, "account")
  /\ CASE row = NoRow /\ task[j] = "key" -> /\ pc' = [pc EXCEPT ![j] = 8] /\ UNCHANGED <<task, my, row, conn>>
       [] row = NoRow \/ (task[j] = "run" /\ row.status # "connected") -> End(j)
       [] OTHER -> GoWith(j, [my[j] EXCEPT !.p = row.profile, !.id = row.id]) /\ UNCHANGED <<row, conn>>
  /\ UNCHANGED <<product, ready, disk, made, session, procs, signed, gone, stray, issued, faults>>

\* open_oauth_profile: no directory, or one without a readable record, is an error.
Open(j) ==
  /\ At(j, "open") \/ At(j, "reopen")
  /\ IF Readable(my[j].p) THEN GoWith(j, [my[j] EXCEPT !.seen = disk[my[j].p]]) /\ UNCHANGED <<row, conn>>
                          ELSE Fail(j)
  /\ UNCHANGED <<product, ready, disk, made, session, procs, signed, gone, stray, issued, faults>>

\* A launch in the profile that was opened.
Launch(j) ==
  /\ At(j, "launch")
  /\ IF Leased(my[j].p, my[j].seen)
       THEN procs' = procs \cup {<<j, my[j].p>>} /\ Go(j) /\ UNCHANGED <<row, conn>>
       ELSE Fail(j) /\ UNCHANGED procs
  /\ UNCHANGED <<product, ready, disk, made, session, signed, gone, stray, issued, faults>>

Finish(j) ==
  /\ At(j, "finish") /\ End(j) /\ procs' = procs \ {<<j, my[j].p>>}
  /\ UNCHANGED <<product, ready, disk, made, session, signed, gone, stray, issued, faults>>

\* auth_status: not there yet, an API key in the way, an error, or a subscription.
Status(j) ==
  /\ At(j, "status") /\ procs' = procs \ {<<j, my[j].p>>}
  /\ \/ End(j)
     \/ Quiet(j) /\ conn' = [state |-> "limited", of |-> my[j].p] /\ UNCHANGED row
     \/ my[j].p \in signed /\ Go(j) /\ UNCHANGED <<row, conn>>
  /\ UNCHANGED <<product, ready, disk, made, session, signed, gone, stray, issued, faults>>

\* poll_chatgpt_account, of the connection that is kept now.
Ask(j) ==
  /\ At(j, "ask")
  /\ \/ End(j)
     \/ session = my[j].p /\ my[j].p \in signed /\ Go(j) /\ UNCHANGED <<row, conn>>
  /\ UNCHANGED <<product, ready, disk, made, session, procs, signed, gone, stray, issued, faults>>

\* upsert_runtime_managed_account: the identity belongs to one account, whose row is made or
\* given the new profile.
Upsert(id, p, s) ==
  /\ row = NoRow \/ row.id = id
  /\ row' = [id |-> id, profile |-> p, status |-> s]

\* Mutant: a row that cannot be written is passed over.
PersistLoosely(j) ==
  /\ At(j, "persist") /\ Go(j)
  /\ row' = IF row = NoRow THEN [id |-> my[j].p, profile |-> my[j].p, status |-> "connected"] ELSE row
  /\ UNCHANGED <<product, ready, disk, made, conn, session, procs, signed, gone, stray, issued, faults>>

\* persist_runtime_managed_account: the row is written, then connected.
Persist(j) ==
  LET id == IF my[j].id # None THEN my[j].id ELSE my[j].p IN
  /\ At(j, "persist")
  /\ \/ Upsert(id, my[j].p, "connected") /\ Go(j) /\ UNCHANGED <<conn, faults>>
     \/ row # NoRow /\ row.id # id /\ Fail(j) /\ UNCHANGED faults
     \/ /\ Fault /\ Quiet(j) /\ conn' = IF task[j] = "key" THEN [state |-> "error", of |-> None] ELSE conn
        /\ UNCHANGED row \/ Upsert(id, my[j].p, "error")
  /\ UNCHANGED <<product, ready, disk, made, session, procs, signed, gone, stray, issued>>

Show(j) ==
  /\ At(j, "show") /\ Quiet(j) /\ conn' = [state |-> "connected", of |-> my[j].p]
  /\ stray' = (stray \/ my[j].late)
  /\ UNCHANGED <<product, ready, disk, made, row, session, procs, signed, gone, issued, faults>>

-----------------------------------------------------------------------------
(* Logging out.                                                            *)

\* start_auth_logout and close_terminal, as far as they go: a profile that cannot be used is
\* purged without. A terminal that is closed may not have logged out.
Logout(j) ==
  /\ At(j, "logout") /\ Go(j)
  /\ procs' = IF disk[my[j].p] = "active" THEN procs \cup {<<j, my[j].p>>} ELSE procs
  /\ UNCHANGED <<product, ready, disk, made, row, conn, session, signed, gone, stray, issued, faults>>
Closed(j) ==
  /\ At(j, "closed") /\ Go(j) /\ procs' = procs \ {<<j, my[j].p>>}
  /\ signed' \in {signed} \cup (IF <<j, my[j].p>> \in procs THEN {signed \ {my[j].p}} ELSE {})
  /\ UNCHANGED <<product, ready, disk, made, row, conn, session, gone, stray, issued, faults>>

\* The connection that is kept, whichever login it is of.
Take(j) ==
  /\ At(j, "take") /\ GoWith(j, [my[j] EXCEPT !.sess = session]) /\ session' = None
  /\ UNCHANGED <<product, ready, disk, made, row, conn, procs, signed, gone, stray, issued, faults>>

\* logout_and_stop: the connection is gone also when it fails.
Goodbye(j) ==
  /\ At(j, "goodbye") /\ procs' = procs \ {<<"login", my[j].sess>>}
  /\ \/ Go(j) /\ signed' = signed \ {my[j].sess} /\ UNCHANGED <<row, conn, faults>>
     \/ my[j].sess # None /\ Fault /\ Fail(j) /\ UNCHANGED signed
  /\ UNCHANGED <<product, ready, disk, made, session, gone, stray, issued>>

\* launch_existing; an error is remembered.
Server(j) ==
  /\ At(j, "server")
  /\ \/ /\ disk[my[j].p] = "active" /\ procs' = procs \cup {<<j, my[j].p>>} /\ Go(j) /\ UNCHANGED faults
     \/ /\ IF disk[my[j].p] = "active" THEN Fault ELSE UNCHANGED faults
        /\ GoWith(j, [my[j] EXCEPT !.bad = TRUE]) /\ UNCHANGED procs
  /\ UNCHANGED <<product, ready, disk, made, row, conn, session, signed, gone, stray, issued>>
DeleteKey(j) ==
  /\ At(j, "delete key") /\ procs' = procs \ {<<j, my[j].p>>}
  /\ \/ Go(j) /\ signed' = signed \ {my[j].p} /\ UNCHANGED faults
     \/ ~my[j].bad /\ Fault /\ GoWith(j, [my[j] EXCEPT !.bad = TRUE]) /\ UNCHANGED signed
  /\ UNCHANGED <<product, ready, disk, made, row, conn, session, gone, stray, issued>>

InUse(p) == \E w \in Jobs \cup {"login"} : <<w, p>> \in procs

\* Mutant: a directory that is not there is an error.
TolerantNever(j) == FALSE

\* Whether a directory that is not there counts as purged.
Tolerant(j) == product = "claude" \/ (product = "codex" /\ my[j].sess = None)

Purged(j) ==
  /\ disk' = [disk EXCEPT ![my[j].p] = "none"]
  /\ pc' = [pc EXCEPT ![j] = @ + 1] /\ UNCHANGED task
  /\ my' = [d \in Jobs |-> IF d # j /\ my[d].p = my[j].p THEN [my[d] EXCEPT !.late = TRUE] ELSE my[d]]

\* Mutant: a profile in use is not purged, and the disconnect goes on.
PurgeLeniently(j) ==
  LET p == my[j].p IN
  /\ At(j, "purge")
  /\ \/ /\ Readable(p) /\ ~InUse(p) /\ ~my[j].bad /\ Purged(j) /\ UNCHANGED <<row, conn, faults>>
     \/ /\ (~Readable(p) \/ InUse(p)) /\ Go(j) /\ UNCHANGED <<disk, row, conn, faults>>
  /\ UNCHANGED <<product, ready, made, session, procs, signed, gone, stray, issued>>

\* Mutant: the leases are not looked at.
PurgeInUse(j) ==
  LET p == my[j].p IN
  /\ At(j, "purge")
  /\ \/ /\ Readable(p) /\ ~my[j].bad /\ Purged(j) /\ UNCHANGED <<row, conn, faults>>
     \/ /\ ~Readable(p) /\ Fail(j) /\ UNCHANGED <<disk, faults>>
  /\ UNCHANGED <<product, ready, made, session, procs, signed, gone, stray, issued>>

\* RuntimeProfileStore::purge: refused while a process has a lease. A removal that breaks off
\* may leave a directory without a readable record. OpenCode reports an earlier error after it.
Purge(j) ==
  LET p == my[j].p IN
  /\ At(j, "purge")
  /\ \/ /\ Readable(p) /\ ~InUse(p) /\ ~my[j].bad /\ Purged(j) /\ UNCHANGED <<row, conn, faults>>
     \/ /\ Readable(p) /\ ~InUse(p) /\ my[j].bad /\ Fail(j)
        /\ disk' = [disk EXCEPT ![p] = "none"] /\ UNCHANGED faults
     \/ /\ Readable(p) /\ InUse(p) /\ Fail(j) /\ UNCHANGED <<disk, faults>>
     \/ /\ Readable(p) /\ ~InUse(p) /\ Fault /\ Fail(j)
        /\ \E s \in {"broken", disk[p]} : disk' = [disk EXCEPT ![p] = s]
     \/ /\ disk[p] = "none" /\ Tolerant(j) /\ Go(j) /\ UNCHANGED <<disk, row, conn, faults>>
     \/ /\ ~Readable(p) /\ ~(disk[p] = "none" /\ Tolerant(j)) /\ Fail(j) /\ UNCHANGED <<disk, faults>>
  /\ UNCHANGED <<product, ready, made, session, procs, signed, gone, stray, issued>>

Hide(j) ==
  /\ At(j, "hide") /\ Go(j) /\ conn' = [state |-> "disconnected", of |-> None]
  /\ UNCHANGED <<product, ready, disk, made, row, session, procs, signed, gone, stray, issued, faults>>

\* The account is revoked, then its row is deleted.
Revoked(j) ==
  /\ At(j, "revoked") /\ Go(j)
  /\ row' = IF row = NoRow THEN row ELSE [row EXCEPT !.status = "revoked"]
  /\ UNCHANGED <<product, ready, disk, made, conn, session, procs, signed, gone, stray, issued, faults>>
Forget(j) ==
  /\ At(j, "forget")
  /\ \/ /\ Quiet(j) /\ row' = NoRow /\ gone' = gone \cup {my[j].p} /\ UNCHANGED <<conn, faults>>
     \/ Fault /\ End(j) /\ UNCHANGED gone
  /\ UNCHANGED <<product, ready, disk, made, session, procs, signed, stray, issued>>

\* create_and_launch: a profile its server cannot be started in is purged.
OwnServer(j) ==
  /\ At(j, "own server")
  /\ \/ /\ Leased(my[j].p, my[j].seen) /\ procs' = procs \cup {<<j, my[j].p>>} /\ Go(j)
        /\ UNCHANGED <<disk, row, conn, faults>>
     \/ /\ IF Leased(my[j].p, my[j].seen) THEN Fault ELSE UNCHANGED faults
        /\ Fail(j) /\ disk' = [disk EXCEPT ![my[j].p] = "none"] /\ UNCHANGED procs
  /\ UNCHANGED <<product, ready, made, session, signed, gone, stray, issued>>

\* set_go_key and list_providers: a key without models is refused.
SetKey(j) ==
  /\ At(j, "set key")
  /\ \/ GoWith(j, [my[j] EXCEPT !.bad = FALSE]) /\ signed' = signed \cup {my[j].p}
     \/ GoWith(j, [my[j] EXCEPT !.bad = TRUE]) /\ UNCHANGED signed
  /\ UNCHANGED <<product, ready, disk, made, row, conn, session, procs, gone, stray, issued, faults>>

\* The server is stopped before its profile may be purged.
Stop(j) ==
  /\ At(j, "stop") /\ procs' = procs \ {<<j, my[j].p>>}
  /\ IF my[j].bad THEN Fail(j) /\ disk' = [disk EXCEPT ![my[j].p] = "none"]
                  ELSE Go(j) /\ UNCHANGED <<disk, row, conn>>
  /\ UNCHANGED <<product, ready, made, session, signed, gone, stray, issued, faults>>

-----------------------------------------------------------------------------
\* preserve: the next record says so.
Preserve(p) ==
  /\ disk[p] = "active" /\ Fault /\ disk' = [disk EXCEPT ![p] = "preserved"]
  /\ UNCHANGED <<product, ready, made, row, conn, session, procs, signed, gone, stray, task, pc, my, issued>>

\* The app quits: what is in memory is lost, pending logins too.
Quit ==
  /\ product # "none" /\ Fault
  /\ conn' = NoConn /\ session' = None /\ procs' = {}
  /\ task' = [j \in Jobs |-> "none"] /\ pc' = [j \in Jobs |-> 0] /\ my' = [j \in Jobs |-> Idle]
  /\ UNCHANGED <<product, ready, disk, made, row, signed, gone, stray, issued>>

Step(j) ==
  \/ Single(j) \/ CheckKey(j) \/ Ready(j) \/ Create(j) \/ Login(j) \/ Keep(j) \/ Pending(j) \/ Look(j) \/ Account(j)
  \/ Open(j) \/ Launch(j) \/ Finish(j) \/ Status(j) \/ Ask(j) \/ Persist(j) \/ Show(j) \/ Logout(j)
  \/ Closed(j) \/ Take(j) \/ Goodbye(j) \/ Server(j) \/ DeleteKey(j) \/ Purge(j) \/ Hide(j)
  \/ Revoked(j) \/ Forget(j) \/ OwnServer(j) \/ SetKey(j) \/ Stop(j)

Next ==
  \/ \E k \in Products, v \in BOOLEAN : Initialize(k, v)
  \/ PrepareProduct
  \/ \E j \in Jobs : (\E t \in {"run", "start", "poll", "key", "disconnect"} : Issue(j, t)) \/ Step(j)
  \/ \E p \in Profiles : SignIn(p) \/ CloseTerminal(p) \/ Preserve(p)
  \/ Quit

Spec == Init /\ [][Next]_vars

-----------------------------------------------------------------------------
(* Properties.                                                             *)

\* The types of the variables.
TypeOK ==
  /\ product \in Products \cup {"none"} /\ ready \in BOOLEAN
  /\ disk \in [Profiles -> {"none", "active", "preserved", "broken"}] /\ made \in 0..MaxProfiles
  /\ row \in [id : 0..MaxProfiles, profile : 0..MaxProfiles,
              status : {"none", "connected", "error", "revoked", "disconnect_pending"}]
  /\ conn \in [state : {"none", "connecting", "connected", "limited", "disconnected", "error"}, of : 0..MaxProfiles]
  /\ session \in 0..MaxProfiles /\ procs \subseteq (Jobs \cup {"login"}) \X Profiles
  /\ signed \subseteq Profiles /\ gone \subseteq Profiles /\ stray \in BOOLEAN
  /\ task \in [Jobs -> {"none", "run", "start", "poll", "key", "disconnect"}] /\ pc \in [Jobs -> 0..13]
  /\ my \in [Jobs -> [p : 0..MaxProfiles, id : 0..MaxProfiles, seen : {"none", "active", "preserved"}, sess : 0..MaxProfiles,
                      bad : BOOLEAN, late : BOOLEAN]]
  /\ issued \in 0..MaxIssues /\ faults \in 0..MaxFaults

\* A purge never takes the directory from under a process: leases and purges exclude each other,
\* and a handle that was opened before the purge gets no lease after it.
LeasedExists == \A e \in procs : disk[e[2]] # "none"

\* A process is only started in a profile that is active at that moment, whatever the record said
\* when it was opened.
NoStaleLaunch == \A e \in procs' \ procs : disk[e[2]] = "active"

\* Once an account is disconnected its profile, with the login in it, is not on the disk.
DisconnectedIsPurged == \A p \in gone : disk[p] = "none"

\* connection_status: the connection of this session, or else what the database says.
ConnectionState == IF conn.state # "none" THEN conn.state
                   ELSE IF row.status = "connected" THEN "connected" ELSE "disconnected"
AccountShown == IF conn.of # None THEN conn.of ELSE row.profile

\* A connection is shown as connected only for the account in the database, unless a disconnect
\* is under way or a sign-in was polled a second time during one.
ShownIsStored ==
  ConnectionState = "connected" /\ ~stray /\ row.status = "connected" => row.profile = AccountShown

\* A disconnect of Claude that is tried again after its profile was purged is not refused because
\* of that (one of Codex or of OpenCode is, for ever).
RetriedLogoutSucceeds ==
  \A j \in Jobs :
    At(j, "purge") /\ pc'[j] = 0 /\ faults' = faults /\ product = "claude" => disk[my[j].p] # "none"
=============================================================================
