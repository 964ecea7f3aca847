------------------------------ MODULE WhatsApp ------------------------------
(***************************************************************************)
(* The WhatsApp linked device (integrations/whatsapp): pairing attempts    *)
(* (pairing.rs, service.rs), the key and the database of each (keyring.rs, *)
(* store.rs), and the one runtime Alfred keeps for the linked account      *)
(* (owner.rs, runtime.rs).                                                 *)
(*                                                                         *)
(* The dialog's commands overlap: a cancel comes when the dialog is        *)
(* closed, whatever is under way, and the next begin cancels again.  Code  *)
(* between two awaits is one step.  The protocol client is external.       *)
(***************************************************************************)
EXTENDS Naturals, FiniteSets

CONSTANTS
  Attempts,     \* pairing attempts
  MaxFaults     \* bound: failures, quits and events nobody asked for

VARIABLES
  att,          \* attempt |-> [state, handle, linked, tested, run]: handle whether the attempt holds its client
  session,      \* the attempt the service holds, or "none"
  cmd,          \* command |-> [step, of]
  client,       \* attempt |-> its pairing client: "none", "live" or "dead"
  keys,         \* attempts whose key is in the credential store
  staging,      \* the attempt whose key the staging database was created with, or "none"
  final,        \* the same of the linked account's database
  row,          \* the connection: [of, status], of "none" when there is none
  owner,        \* [target, slot, status, step]: slot the attempt whose database the held client runs on
  running,      \* owner's clients that live: attempts, one entry for each launch
  cancelled,    \* attempt |-> whether a cancel was called for it: "no", "early" (its run had not begun), "completing" or "late"
  faults

waVars == <<att, session, cmd, client, keys, staging, final, row, owner, running, cancelled, faults>>

States == {"new", "starting", "awaiting_scan", "awaiting_test", "ready", "failed", "cancelled"}
Terminal == {"ready", "failed", "cancelled"}
NewAttempt == [state |-> "new", handle |-> FALSE, linked |-> FALSE, tested |-> FALSE, run |-> "none"]
Idle == [step |-> "idle", of |-> "none"]
NoRow == [of |-> "none", status |-> "none"]
Stopped == [target |-> "none", slot |-> "none", status |-> "stopped", step |-> "idle"]

TypeOK ==
  /\ \A a \in Attempts : att[a].state \in States /\ client[a] \in {"none", "live", "dead"}
  /\ {session, staging, final, row.of, owner.target, owner.slot} \subseteq Attempts \cup {"none"}
  /\ \A c \in DOMAIN cmd : cmd[c].step = "idle" <=> cmd[c].of = "none"
  /\ owner.status \in {"stopped", "connecting", "connected", "reconnecting", "relink_required", "error"}

Init ==
  /\ att = [a \in Attempts |-> NewAttempt] /\ session = "none" /\ cmd = [c \in {"begin", "test", "finish", "cancel", "disconnect"} |-> Idle]
  /\ client = [a \in Attempts |-> "none"] /\ keys = {} /\ staging = "none" /\ final = "none" /\ row = NoRow
  /\ owner = Stopped /\ running = [a \in Attempts |-> 0] /\ cancelled = [a \in Attempts |-> "no"] /\ faults = 0

Fault == faults < MaxFaults /\ faults' = faults + 1
Goes(c, step) == cmd' = [cmd EXCEPT ![c].step = step]
Ends(c) == cmd' = [cmd EXCEPT ![c] = Idle]
At(c, step) == cmd[c].step = step

-----------------------------------------------------------------------------
(* Cancelling, as a command of its own and as the first part of begin.     *)

\* The session is taken before anything is awaited.
Cancel(c) ==
  /\ c \in {"begin", "cancel"} /\ At(c, "idle")
  /\ c = "begin" => \E a \in Attempts : att[a].state = "new"
  /\ \/ /\ session # "none" /\ cmd' = [cmd EXCEPT ![c] = [step |-> "logout", of |-> session]]
        /\ session' = "none"
        /\ cancelled' = [cancelled EXCEPT ![session] =
             IF att[session].run = "spawned" THEN "early" ELSE IF cmd["finish"].of = session THEN "completing" ELSE "late"]
     \/ c = "begin" /\ session = "none" /\ cmd' = [cmd EXCEPT ![c] = [step |-> "prepare", of |-> "new"]] /\ UNCHANGED <<session, cancelled>>
  /\ UNCHANGED <<att, client, keys, staging, final, row, owner, running, faults>>

\* A linked device is logged out at WhatsApp, if it answers; then the client is stopped.
CancelStops(c) ==
  LET a == cmd[c].of IN
  /\ At(c, "logout") /\ Goes(c, "clean")
  /\ client' = [client EXCEPT ![a] = IF att[a].handle THEN "dead" ELSE @] /\ att' = [att EXCEPT ![a].handle = FALSE]
  /\ UNCHANGED <<session, keys, staging, final, row, owner, running, cancelled, faults>>

\* The staging database goes by its path, whoever it is of; a key the store does not give up stays.
CancelCleans(c) ==
  LET a == cmd[c].of IN
  /\ At(c, "clean") /\ staging' = "none"
  /\ \/ keys' = keys \ {a} /\ UNCHANGED faults
     \/ a \in keys /\ Fault /\ UNCHANGED keys
  /\ att' = [att EXCEPT ![a].state = IF @ = "failed" THEN @ ELSE "cancelled"]
  /\ cmd' = [cmd EXCEPT ![c] = IF c = "begin" THEN [step |-> "prepare", of |-> "new"] ELSE Idle]
  /\ UNCHANGED <<session, client, final, row, owner, running, cancelled>>

-----------------------------------------------------------------------------
(* One attempt.                                                            *)

\* Mutant: a second account is let in.
UnlinkedOrNot == TRUE

\* One account per installation: any row of the provider, connected or revoked.
Unlinked == row.of = "none"

\* The acknowledgement, the key, the staging database; then the run is spawned.  A database that cannot
\* be opened leaves the key.
Begin(a) ==
  /\ At("begin", "prepare") /\ att[a].state = "new" /\ Ends("begin")
  /\ \/ /\ Unlinked /\ keys' = keys \cup {a} /\ staging' = a /\ session' = a
        /\ att' = [att EXCEPT ![a].state = "starting", ![a].run = "spawned"] /\ UNCHANGED faults
     \/ /\ Unlinked /\ Fault /\ staging' = "none" /\ keys' \in {keys, keys \cup {a}}
        /\ att' = [att EXCEPT ![a].state = "cancelled"] /\ UNCHANGED session
     \/ ~Unlinked /\ UNCHANGED <<att, keys, staging, session, faults>>
  /\ UNCHANGED <<client, final, row, owner, running, cancelled>>

Run(a, s) == att[a].run = s

\* run: with the key gone, or after a cancel, it ends without a word.
RunStarts(a) ==
  /\ Run(a, "spawned")
  /\ \/ /\ att[a].state = "starting" /\ a \in keys /\ att' = [att EXCEPT ![a].run = "launching"]
        /\ staging' = (IF staging = "none" THEN a ELSE staging)
     \/ (att[a].state # "starting" \/ a \notin keys) /\ att' = [att EXCEPT ![a].run = "done"] /\ UNCHANGED staging
  /\ UNCHANGED <<session, cmd, client, keys, final, row, owner, running, cancelled, faults>>

\* The client is built, which takes a while; nobody looks whether the attempt was cancelled meanwhile.
RunLaunches(a) ==
  /\ Run(a, "launching")
  /\ \/ att' = [att EXCEPT ![a].run = "events", ![a].handle = TRUE] /\ client' = [client EXCEPT ![a] = "live"] /\ UNCHANGED faults
     \/ Fault /\ att' = [att EXCEPT ![a].run = "done", ![a].state = "failed"] /\ UNCHANGED client
  /\ UNCHANGED <<session, cmd, keys, staging, final, row, owner, running, cancelled>>

\* A code to scan; the device linked, to a personal account or not; unlinked; the end of the client.
RunHears(a) ==
  /\ Run(a, "events")
  /\ \/ client[a] = "live" /\ att[a].state # "awaiting_scan" /\ att' = [att EXCEPT ![a].state = "awaiting_scan"] /\ UNCHANGED <<client, faults>>
     \/ /\ client[a] = "live" /\ UNCHANGED <<client, faults>>
        /\ att' = [att EXCEPT ![a].state = "awaiting_test", ![a].linked = TRUE, ![a].run = "done"]
     \/ client[a] = "live" /\ Fault /\ att' = [att EXCEPT ![a].state = "failed", ![a].run = "done"] /\ UNCHANGED client
     \/ client[a] = "dead" /\ att' = [att EXCEPT ![a].state = IF @ \in Terminal THEN @ ELSE "failed", ![a].run = "done"] /\ UNCHANGED <<client, faults>>
  /\ UNCHANGED <<session, cmd, keys, staging, final, row, owner, running, cancelled>>

-----------------------------------------------------------------------------
(* The test and the connection.                                            *)

TestBegins ==
  /\ At("test", "idle") /\ session # "none" /\ att[session].state = "awaiting_test" /\ att[session].handle
  /\ cmd' = [cmd EXCEPT !["test"] = [step |-> "sending", of |-> session]]
  /\ UNCHANGED <<att, session, client, keys, staging, final, row, owner, running, cancelled, faults>>

\* Mutant: a delivery nobody knows of will do.
AnyAnswer(ok) == "ready"

\* Only a definite success makes the attempt ready; the state is set whatever came in between.
StateAfterTest(ok) == IF ok THEN "ready" ELSE "failed"

TestAnswers ==
  LET a == cmd["test"].of IN
  /\ At("test", "sending") /\ Ends("test")
  /\ \/ client[a] = "live" /\ att' = [att EXCEPT ![a].state = StateAfterTest(TRUE), ![a].tested = TRUE] /\ UNCHANGED faults
     \/ ((client[a] = "dead" /\ UNCHANGED faults) \/ (client[a] = "live" /\ Fault)) /\ att' = [att EXCEPT ![a].state = StateAfterTest(FALSE)]
  /\ UNCHANGED <<session, client, keys, staging, final, row, owner, running, cancelled>>

\* stop_runtime before the database is moved from under it.
ClientStopped(a) == [client EXCEPT ![a] = IF att[a].handle THEN "dead" ELSE @]

FinishBegins ==
  LET a == session IN
  /\ At("finish", "idle") /\ a # "none" /\ att[a].state = "ready"
  /\ cmd' = [cmd EXCEPT !["finish"] = [step |-> "promote", of |-> a]]
  /\ client' = ClientStopped(a) /\ att' = [att EXCEPT ![a].handle = FALSE]
  /\ UNCHANGED <<session, keys, staging, final, row, owner, running, cancelled, faults>>

\* The old database goes, the staging database takes its place, and the row is written; a second account is
\* refused there too.
Promote ==
  LET a == cmd["finish"].of IN
  /\ At("finish", "promote")
  /\ \/ /\ staging # "none" /\ final' = staging /\ staging' = "none"
        /\ \/ row.of \in {"none", a} /\ row' = [of |-> a, status |-> "connected"] /\ session' = "none" /\ Goes("finish", "start") /\ UNCHANGED faults
           \/ row.of \notin {"none", a} /\ Ends("finish") /\ UNCHANGED <<row, session, faults>>
           \/ Fault /\ Ends("finish") /\ UNCHANGED <<row, session>>
     \/ staging = "none" /\ final' = "none" /\ Ends("finish") /\ UNCHANGED <<staging, row, session, faults>>
  /\ UNCHANGED <<att, client, keys, owner, running, cancelled>>

-----------------------------------------------------------------------------
(* The runtime of the linked account: its lifecycle has one lock, held     *)
(* while owner.step is not idle.                                           *)

\* Mutant: the client that runs is forgotten.
RunningOn == running

\* The held client is shut down first, so there is never more than one.
OthersStopped == IF owner.slot = "none" THEN running ELSE [running EXCEPT ![owner.slot] = 0]

OwnerTakes(a, status) ==
  /\ owner.step = "idle" /\ owner' = [target |-> a, slot |-> "none", status |-> status, step |-> "open"]
  /\ running' = OthersStopped

FinishStarts ==
  /\ At("finish", "start") /\ OwnerTakes(cmd["finish"].of, "connecting") /\ Ends("finish")
  /\ UNCHANGED <<att, session, client, keys, staging, final, row, cancelled, faults>>

\* start_stored_runtime, of a row that is connected.
Boot ==
  /\ row.status = "connected" /\ owner = Stopped /\ OwnerTakes(row.of, "connecting")
  /\ UNCHANGED <<att, session, cmd, client, keys, staging, final, row, cancelled, faults>>

\* A revoked session cannot be reconnected.
Reconnect ==
  /\ owner.status # "relink_required" /\ owner.target # "none" /\ Fault /\ OwnerTakes(owner.target, "reconnecting")
  /\ UNCHANGED <<att, session, cmd, client, keys, staging, final, row, cancelled>>

\* The key, the database and the launch: without the key nothing is opened.
OwnerOpens ==
  LET a == owner.target IN
  /\ owner.step = "open"
  /\ \/ /\ a \in keys /\ owner' = [owner EXCEPT !.slot = a, !.step = "idle"] /\ running' = [running EXCEPT ![a] = @ + 1]
        /\ final' = (IF final = "none" THEN a ELSE final) /\ UNCHANGED faults
     \/ a \notin keys /\ owner' = [owner EXCEPT !.status = "error", !.step = "idle"] /\ UNCHANGED <<running, final, faults>>
     \/ Fault /\ owner' = [owner EXCEPT !.status = "error", !.step = "idle"] /\ UNCHANGED <<running, final>>
  /\ UNCHANGED <<att, session, cmd, client, keys, staging, row, cancelled>>

\* Connected; unlinked, or a code nobody asked for; the end of the client.
OwnerHears ==
  /\ owner.slot # "none" /\ owner.step = "idle"
  /\ \/ owner.status \in {"connecting", "reconnecting"} /\ owner' = [owner EXCEPT !.status = "connected"] /\ UNCHANGED faults
     \/ owner.status # "relink_required" /\ Fault /\ owner' = [owner EXCEPT !.status = "relink_required"]
     \/ owner.status = "connected" /\ Fault /\ owner' = [owner EXCEPT !.status = "reconnecting"]
  /\ UNCHANGED <<att, session, cmd, client, keys, staging, final, row, running, cancelled>>

-----------------------------------------------------------------------------
(* Disconnecting, and the end of the process.                              *)

\* The row is revoked, the key deleted (or left, when only the row is to go), the row deleted; the runtime is not told, and the database stays.
Disconnect ==
  /\ At("disconnect", "idle") /\ row.of # "none" /\ cmd' = [cmd EXCEPT !["disconnect"] = [step |-> "key", of |-> row.of]]
  /\ row' = [row EXCEPT !.status = "revoked"]
  /\ UNCHANGED <<att, session, client, keys, staging, final, owner, running, cancelled, faults>>

DisconnectDeletes ==
  LET a == cmd["disconnect"].of IN
  /\ \/ /\ At("disconnect", "key") /\ UNCHANGED row
        /\ \/ /\ keys' \in {keys \ {a}, keys} /\ Goes("disconnect", "row") /\ UNCHANGED faults
           \/ Fault /\ Ends("disconnect") /\ UNCHANGED keys
     \/ /\ At("disconnect", "row") /\ row' = (IF row.of = a THEN NoRow ELSE row) /\ Ends("disconnect") /\ UNCHANGED <<keys, faults>>
  /\ UNCHANGED <<att, session, client, staging, final, owner, running, cancelled>>

\* The exit shuts the runtime down; a crash ends everything there is in memory.
Quit ==
  /\ Fault /\ session' = "none" /\ cmd' = [c \in DOMAIN cmd |-> Idle] /\ owner' = Stopped /\ running' = [a \in Attempts |-> 0]
  /\ client' = [a \in Attempts |-> IF client[a] = "live" THEN "dead" ELSE client[a]]
  /\ att' = [a \in Attempts |-> IF att[a].state = "new" THEN att[a] ELSE [att[a] EXCEPT !.state = "cancelled", !.handle = FALSE, !.run = "done"]]
  /\ UNCHANGED <<keys, staging, final, row, cancelled>>

Next ==
  \/ \E c \in {"begin", "cancel"} : Cancel(c) \/ CancelStops(c) \/ CancelCleans(c)
  \/ \E a \in Attempts : Begin(a) \/ RunStarts(a) \/ RunLaunches(a) \/ RunHears(a)
  \/ TestBegins \/ TestAnswers \/ FinishBegins \/ Promote \/ FinishStarts
  \/ Boot \/ Reconnect \/ OwnerOpens \/ OwnerHears \/ Disconnect \/ DisconnectDeletes \/ Quit

Spec == Init /\ [][Next]_waVars

-----------------------------------------------------------------------------
(* Properties.                                                             *)

\* A connection exists only for an attempt whose test message WhatsApp confirmed (send_test, finish).
TestedBeforeConnected == row.of # "none" => att[row.of].tested

\* No two clients run as one device: the owner has one, and not while the pairing client of the same account
\* lives (start, finish).
OneClientPerDevice ==
  /\ \A a, b \in Attempts : (running[a] > 0 /\ running[b] > 0) => a = b
  /\ \A a \in Attempts : running[a] <= 1 /\ (running[a] = 1 => client[a] # "live")

\* A connected account opens: its key is kept and its database is the one that key seals, across crashes,
\* disconnects and other attempts, unless some pairing was cancelled while it was being completed (its Promote
\* against CancelCleans, which the dialog does when it is closed too early, may take the next one's staging
\* database) or before its run had begun (its late start may open one under the path of the next).
ConnectedOpensItsStore ==
  (row.status = "connected" /\ \A a \in Attempts : cancelled[a] \in {"no", "late"})
    => (row.of \in keys /\ final = row.of)
=============================================================================
