----------------------------- MODULE Migrations -----------------------------
(***************************************************************************)
(* Db::open (src-tauri/src/db/mod.rs, db/migrate.rs): every start runs     *)
(* every migration again, each in a transaction of its own or in none, on  *)
(* a database that an earlier release or an interrupted start left.  A     *)
(* step that fails ends the process, as a crash does.  What the open       *)
(* application then writes is there as far as the migrations read it.      *)
(*                                                                         *)
(* A row is its id.  A run has one step, a link belongs to one memory, an  *)
(* account's credential has the account's id.  Tables, columns and indexes *)
(* that are only added where they are missing have no variable.            *)
(***************************************************************************)
EXTENDS Integers, FiniteSets, Sequences

CONSTANTS
    Flows, Runs, Notes, Accounts,
    Handed,    \* accounts whose credential a runtime takes over
    Unrouted,  \* accounts of a provider without a product
    MaxAhead   \* bound on how far below zero sort_order goes

VARIABLES
    runs, steps,            \* runs, run_steps
    checked,                \* tables with a CHECK that an early schema had
    notes, links, scoped,   \* memories, memory_links, and whether memories has scope_type
    flows, order,           \* workflows and their sort_order
    accounts, refs,         \* agent_accounts, and those of them with a credential_ref
    contract, scratch,      \* agent_accounts has product_id; agent_accounts_contract is there
    cleanup,                \* agent_account_credential_cleanup
    secrets,                \* the system's credential store
    noteIndex, stepIndex,   \* memory_fts, run_step_fts
    marks,                  \* keys of schema_meta
    at, fk, todo            \* where the process is, PRAGMA foreign_keys, rows to number

runVars     == <<runs, steps, checked>>
noteVars    == <<notes, links, scoped>>
flowVars    == <<flows, order>>
accountVars == <<accounts, refs, contract, scratch, cleanup, secrets>>
indexVars   == <<noteIndex, stepIndex, marks>>
vars        == <<runVars, noteVars, flowVars, accountVars, indexVars, at, fk, todo>>

ScopedMark == "scoped_memory_v1"
SearchMark == "search_fts_backfill_v1"

\* The tables that are rebuilt for their CHECK, and what comes after each.
Tables == {"runs", "agents"}
After  == [runs |-> "agents", agents |-> "order"]
Places == Tables \cup {"closed", "order", "number", "memories", "search", "accounts", "open", "reorder"}

\* What an earlier release left: its tables, with the search indexes if it had
\* them, and perhaps the scratch table of an interrupted rebuild.
Init ==
    /\ runs \in SUBSET Runs /\ steps = runs /\ checked \in SUBSET Tables
    /\ notes \in SUBSET Notes /\ links = notes /\ scoped \in BOOLEAN
    /\ flows \in SUBSET Flows /\ order = [w \in Flows |-> 0]
    /\ accounts \in SUBSET Accounts /\ contract \in BOOLEAN /\ scratch \in BOOLEAN
    /\ contract => (~ scratch /\ accounts \cap (Handed \cup Unrouted) = {})
    /\ refs = accounts /\ secrets = accounts /\ cleanup = {}
    /\ marks \in {{}, {SearchMark}}
    /\ noteIndex = IF marks = {} THEN {} ELSE notes
    /\ stepIndex = IF marks = {} THEN {} ELSE steps
    /\ at = "closed" /\ fk = FALSE /\ todo = <<>>

Goto(p) == at' = p

-----------------------------------------------------------------------------
\* Connection::open, its pragma, and schema.sql, which creates what is missing.
Open ==
    /\ at = "closed"
    /\ fk' = TRUE
    /\ Goto("runs")
    /\ UNCHANGED <<runVars, noteVars, flowVars, accountVars, indexVars, todo>>

\* The decision of a rebuild: foreign keys are not enforced while it runs.
TurnOff ==
    /\ fk
    /\ at \in checked \/ (at = "memories" /\ ~ scoped /\ ScopedMark \notin marks)
    /\ fk' = FALSE
    /\ UNCHANGED <<runVars, noteVars, flowVars, accountVars, indexVars, at, todo>>

\* Mutant: the table is dropped while foreign keys are enforced.
RebuildEnforcing(t) ==
    /\ at = t /\ t \in checked
    /\ checked' = checked \ {t}
    /\ steps' = IF fk /\ t = "runs" THEN {} ELSE steps
    /\ UNCHANGED <<runs, noteVars, flowVars, accountVars, indexVars, at, fk, todo>>

\* drop_trigger_kind_check and expand_agent_provider_check.  Dropping a table
\* deletes the rows that reference it where foreign keys are enforced.
Rebuild(t) ==
    /\ at = t /\ t \in checked /\ ~ fk
    /\ checked' = checked \ {t}
    /\ steps' = IF fk /\ t = "runs" THEN {} ELSE steps
    /\ UNCHANGED <<runs, noteVars, flowVars, accountVars, indexVars, at, fk, todo>>

\* The pragma again, and the columns that are missing.
Pass(t) ==
    /\ at = t /\ t \notin checked
    /\ fk' = TRUE
    /\ Goto(After[t])
    /\ UNCHANGED <<runVars, noteVars, flowVars, accountVars, indexVars, todo>>

\* Every row once.
Orderings(S) ==
    {s \in [1..Cardinality(S) -> S] :
       /\ \A w \in S : \E i \in DOMAIN s : s[i] = w
       /\ \A i, j \in DOMAIN s : i # j => s[i] # s[j]}

\* backfill_workflow_sort_order: only while every row has the default; newest
\* first, which is any order of the rows.
CheckOrder ==
    /\ at = "order"
    /\ IF flows # {} /\ \A w \in flows : order[w] = 0
       THEN todo' \in Orderings(flows) /\ Goto("number")
       ELSE UNCHANGED todo /\ Goto("memories")
    /\ UNCHANGED <<runVars, noteVars, flowVars, accountVars, indexVars, fk>>

\* Mutant: the next place is the number of rows that have one.
NumberByCount ==
    /\ at \in {"number", "reorder"} /\ todo # <<>>
    /\ order' = [order EXCEPT ![Head(todo)] = Cardinality({w \in flows : order[w] # 0})]
    /\ todo' = Tail(todo)
    /\ UNCHANGED <<runVars, noteVars, flows, accountVars, indexVars, at, fk>>

\* One UPDATE after the other, each of its own: those of the backfill and
\* those of reorder_workflows.
Number ==
    /\ at \in {"number", "reorder"} /\ todo # <<>>
    /\ order' = [order EXCEPT ![Head(todo)] = Cardinality(flows) - Len(todo)]
    /\ todo' = Tail(todo)
    /\ UNCHANGED <<runVars, noteVars, flows, accountVars, indexVars, at, fk>>

Numbered ==
    /\ at \in {"number", "reorder"} /\ todo = <<>>
    /\ Goto(IF at = "number" THEN "memories" ELSE "open")
    /\ UNCHANGED <<runVars, noteVars, flowVars, accountVars, indexVars, fk, todo>>

\* Mutant: the index is emptied and left to rebuild_search_indexes.
RebuildMemoriesUnindexed ==
    /\ at = "memories" /\ ~ scoped /\ ~ fk
    /\ scoped' = TRUE
    /\ noteIndex' = {}
    /\ marks' = marks \cup {ScopedMark}
    /\ UNCHANGED <<runVars, notes, links, flowVars, accountVars, stepIndex, at, fk, todo>>

\* migrate_scoped_memories: both tables copied, dropped and renamed, the
\* memories indexed again and the mark set, in one transaction.
RebuildMemories ==
    /\ at = "memories" /\ ~ scoped /\ ~ fk
    /\ scoped' = TRUE
    /\ links' = IF fk THEN {} ELSE links
    /\ noteIndex' = notes
    /\ marks' = marks \cup {ScopedMark}
    /\ UNCHANGED <<runVars, notes, flowVars, accountVars, stepIndex, at, fk, todo>>

\* Mutant: the pragma is not restored.
PassMemoriesUnenforced ==
    /\ at = "memories" /\ (scoped \/ ScopedMark \in marks)
    /\ marks' = marks \cup {ScopedMark}
    /\ Goto("search")
    /\ UNCHANGED <<runVars, noteVars, flowVars, accountVars, noteIndex, stepIndex, fk, todo>>

\* The pragma again; what was in shape is only marked.
PassMemories ==
    /\ at = "memories" /\ (scoped \/ ScopedMark \in marks)
    /\ marks' = marks \cup {ScopedMark}
    /\ fk' = TRUE
    /\ Goto("search")
    /\ UNCHANGED <<runVars, noteVars, flowVars, accountVars, noteIndex, stepIndex, todo>>

\* The retrieval and curation tables, then rebuild_search_indexes: once, and
\* with its mark in one transaction.
RebuildSearch ==
    /\ at = "search"
    /\ IF SearchMark \in marks
       THEN UNCHANGED indexVars
       ELSE noteIndex' = notes /\ stepIndex' = steps /\ marks' = marks \cup {SearchMark}
    /\ Goto("accounts")
    /\ UNCHANGED <<runVars, noteVars, flowVars, accountVars, fk, todo>>

\* Mutant: a credential the new row has no place for is dropped with it.
MigrateAccountsForgetting ==
    /\ at = "accounts"
    /\ contract \/ accounts \cap Unrouted = {}
    /\ scratch' = FALSE /\ contract' = TRUE
    /\ refs' = IF contract THEN refs ELSE refs \ Handed
    /\ Goto("open")
    /\ UNCHANGED <<runVars, noteVars, flowVars, accounts, cleanup, secrets, indexVars, fk, todo>>

\* migrate_agent_account_contract, in one transaction: a credential that the
\* new row has no place for goes to the cleanup table.
MigrateAccounts ==
    /\ at = "accounts"
    /\ contract \/ accounts \cap Unrouted = {}
    /\ scratch' = FALSE /\ contract' = TRUE
    /\ cleanup' = IF contract THEN cleanup ELSE cleanup \cup (refs \cap Handed)
    /\ refs' = IF contract THEN refs ELSE refs \ Handed
    /\ Goto("open")
    /\ UNCHANGED <<runVars, noteVars, flowVars, accounts, secrets, indexVars, fk, todo>>

\* A step fails and is rolled back, the process is killed, or it quits: the
\* connection and its pragma are gone.
Close ==
    /\ at # "closed"
    /\ Goto("closed")
    /\ fk' = FALSE /\ todo' = <<>>
    /\ UNCHANGED <<runVars, noteVars, flowVars, accountVars, indexVars>>

-----------------------------------------------------------------------------
(* The open application *)

AddRun(r) ==
    /\ at = "open" /\ r \notin runs
    /\ runs' = runs \cup {r} /\ steps' = steps \cup {r} /\ stepIndex' = stepIndex \cup {r}
    /\ UNCHANGED <<checked, noteVars, flowVars, accountVars, noteIndex, marks, at, fk, todo>>

AddNote(n) ==
    /\ at = "open" /\ n \notin notes
    /\ notes' = notes \cup {n} /\ links' = links \cup {n} /\ noteIndex' = noteIndex \cup {n}
    /\ UNCHANGED <<runVars, scoped, flowVars, accountVars, stepIndex, marks, at, fk, todo>>

\* create_workflow: before all others.
AddFlow(w) ==
    /\ at = "open" /\ w \notin flows
    /\ \/ flows = {} /\ order' = [order EXCEPT ![w] = -1]
       \/ \E v \in flows :
            /\ \A u \in flows : order[v] <= order[u]
            /\ order[v] > -MaxAhead
            /\ order' = [order EXCEPT ![w] = order[v] - 1]
    /\ flows' = flows \cup {w}
    /\ UNCHANGED <<runVars, noteVars, accountVars, indexVars, at, fk, todo>>

\* reorder_workflows with the whole list, as the sidebar calls it.
Reorder ==
    /\ at = "open"
    /\ todo' \in Orderings(flows)
    /\ Goto("reorder")
    /\ UNCHANGED <<runVars, noteVars, flowVars, accountVars, indexVars, fk>>

\* A disconnect, or a connect again: first the credential ...
DeleteSecret(a) ==
    /\ at = "open" /\ a \in secrets
    /\ secrets' = secrets \ {a}
    /\ UNCHANGED <<runVars, noteVars, flowVars, accounts, refs, contract, scratch, cleanup, indexVars, at, fk, todo>>

\* Mutant: the credential is forgotten whether it was deleted or not.
DrainAtOnce(a) ==
    /\ at = "open" /\ a \in cleanup
    /\ cleanup' = cleanup \ {a}
    /\ UNCHANGED <<runVars, noteVars, flowVars, accounts, refs, contract, scratch, secrets, indexVars, at, fk, todo>>

\* ... then drain_agent_account_credential_cleanup forgets it ...
DrainCleanup(a) ==
    /\ at = "open" /\ a \in cleanup /\ a \notin secrets
    /\ cleanup' = cleanup \ {a}
    /\ UNCHANGED <<runVars, noteVars, flowVars, accounts, refs, contract, scratch, secrets, indexVars, at, fk, todo>>

\* ... and delete_agent_account_metadata the row.
RemoveAccount(a) ==
    /\ at = "open" /\ a \in accounts /\ a \notin secrets \cup cleanup
    /\ accounts' = accounts \ {a} /\ refs' = refs \ {a}
    /\ UNCHANGED <<runVars, noteVars, flowVars, contract, scratch, cleanup, secrets, indexVars, at, fk, todo>>

Migrate ==
    \/ Open \/ TurnOff \/ (\E t \in Tables : Rebuild(t) \/ Pass(t))
    \/ CheckOrder \/ Number \/ Numbered
    \/ RebuildMemories \/ PassMemories \/ RebuildSearch \/ MigrateAccounts

Use ==
    \/ \E r \in Runs : AddRun(r)
    \/ \E n \in Notes : AddNote(n)
    \/ \E w \in Flows : AddFlow(w)
    \/ Reorder
    \/ \E a \in Accounts : DeleteSecret(a) \/ DrainCleanup(a) \/ RemoveAccount(a)

Next == Migrate \/ Use \/ Close

Spec == Init /\ [][Next]_vars

-----------------------------------------------------------------------------
\* Every variable keeps its type.
TypeOK ==
    /\ runs \in SUBSET Runs /\ steps \in SUBSET Runs /\ checked \in SUBSET Tables
    /\ notes \in SUBSET Notes /\ links \in SUBSET Notes /\ scoped \in BOOLEAN
    /\ flows \in SUBSET Flows /\ order \in [Flows -> Int]
    /\ accounts \in SUBSET Accounts /\ refs \in SUBSET Accounts /\ contract \in BOOLEAN
    /\ scratch \in BOOLEAN /\ cleanup \in SUBSET Accounts /\ secrets \in SUBSET Accounts
    /\ noteIndex \in SUBSET Notes /\ stepIndex \in SUBSET Runs /\ marks \in SUBSET {ScopedMark, SearchMark}
    /\ at \in Places /\ fk \in BOOLEAN /\ todo \in Seq(Flows)

\* No rebuild of a table takes what references it along, however often starts
\* are interrupted: every run has its steps, every memory its links.
RowsKeepTheirOwn == steps = runs /\ links = notes

\* A marked index is complete, also right after memories were rebuilt, so the
\* search of an open application finds every memory and every step.
SearchFindsAll ==
    /\ SearchMark \in marks => noteIndex = notes /\ stepIndex = steps
    /\ at \in {"open", "reorder"} => SearchMark \in marks

\* Every credential in the store is named by a row or waits for its cleanup:
\* no migration and no disconnect leaves one that nothing refers to.
SecretsAreReferenced == secrets \subseteq refs \cup cleanup

\* The application works on the tables it expects, with foreign keys enforced;
\* a mark is never ahead of what it says was done.
OpenIsMigrated ==
    /\ ScopedMark \in marks => scoped
    /\ at \in {"open", "reorder"} => fk /\ scoped /\ contract /\ ~ scratch /\ checked = {}

Waiting == {todo[i] : i \in DOMAIN todo}

\* A numbering, the backfill's or the user's, gives no place twice, though it
\* is one update after the other.
NumberedApart ==
    at \in {"number", "reorder"} =>
        \A v, w \in flows \ Waiting : v # w => order[v] # order[w]

\* What makes the above inductive: how far the migrations are at each place,
\* and that a numbering goes upwards over rows it has not numbered.
Progress ==
    /\ at \notin {"closed", "runs"} => "runs" \notin checked
    /\ at \notin {"closed", "runs", "agents"} => checked = {}
    /\ at \in {"search", "accounts", "open", "reorder"} => fk /\ scoped
    /\ at \in {"accounts", "open", "reorder"} => SearchMark \in marks

Numbering ==
    at \in {"number", "reorder"} =>
        /\ \A i, j \in DOMAIN todo : i # j => todo[i] # todo[j]
        /\ \A w \in flows \ Waiting : order[w] < Cardinality(flows) - Len(todo)
=============================================================================
