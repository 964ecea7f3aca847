------------------------------ MODULE Memories ------------------------------
(***************************************************************************)
(* Durable memories: the rows, their search index and artifact files       *)
(* (db/memories.rs, db/history.rs), what an agent node recalls while it    *)
(* runs (db/memory_retrieval.rs, runner/mod.rs), and the background review *)
(* of a completed run, whose suggestions become memories only when the     *)
(* user approves them (db/memory_curation.rs, runner/mod.rs).              *)
(*                                                                         *)
(* The commands of the window run one after the other.  A run that recalls *)
(* and the background reviews run beside them, and every call of the       *)
(* database takes and gives back its lock.                                 *)
(***************************************************************************)
EXTENDS Naturals, FiniteSets

CONSTANTS
  Flows,       \* workflows
  Dir,         \* the working directory of each, or None
  Ids,         \* memory ids
  Bodies,      \* memory texts, equal when they normalise to the same text
  Spilled,     \* the bodies too long for a row: they are kept in a file
  Cands,       \* candidate ids
  Suggested,   \* what a reviewer may suggest: [op, target, scope, body, flaw]
  Reviewers,   \* background review tasks
  MaxOps,      \* bound: commands of the user
  MaxFaults,   \* bound: database failures
  None

VARIABLES
  flows,       \* the workflows table
  mem,         \* the memories table: id -> row
  index,       \* memory_fts: id -> the indexed text
  files,       \* artifact files: <<workflow, id>> -> text
  links,       \* memory_links: <<workflow, id>>
  cand,        \* memory_candidates: id -> row
  enabled,     \* review is switched on, globally and for the workflow
  job,         \* the review of the one run: its status, "none" or "gone"
  count,       \* candidate_count of that row
  task,        \* what each review task has gathered
  recall,      \* the run that recalls
  excused,     \* files a failed edit left behind
  ops, faults

memVars == <<flows, mem, index, files, links, cand, enabled, job, count, task, recall, excused, ops, faults>>
table == <<mem, index, files, links, excused>>

Scopes == {"workflow", "workspace", "user"}
Statuses == {"active", "superseded", "retracted"}
NoPath == <<None, None>>
Row == [owner : Flows \cup {None}, scope : Scopes, key : Flows \cup {"local-user"} \cup {Dir[w] : w \in Flows},
  body : Bodies, path : (Flows \X Ids) \cup {NoPath}, status : Statuses, pinned : BOOLEAN,
  sup : Ids \cup {None}, dead : BOOLEAN]
Reviewed == CHOOSE w \in Flows : Dir[w] # None
Seed == CHOOSE i \in Ids : TRUE              \* the user has made one memory already
Short == CHOOSE b \in Bodies \ Spilled : TRUE
Resting == [at |-> "rest", seen |-> {}, said |-> {}]

TypeOK ==
  /\ flows \subseteq Flows /\ DOMAIN mem \subseteq Ids /\ \A i \in DOMAIN mem : mem[i] \in Row
  /\ DOMAIN index \subseteq Ids /\ \A i \in DOMAIN index : index[i] \in Bodies
  /\ DOMAIN files \subseteq Flows \X Ids /\ links \subseteq Flows \X Ids
  /\ DOMAIN cand \subseteq Cands
  /\ \A c \in DOMAIN cand : cand[c].status \in {"pending", "approved", "rejected", "blocked"}
  /\ enabled \in BOOLEAN /\ job \in {"none", "pending", "running", "completed", "failed", "gone"}
  /\ count \in 0..Cardinality(Cands)
  /\ \A t \in Reviewers : task[t].at \in {"rest", "claim", "gather", "ask", "validate", "finalize", "fail"}
  /\ recall.at \in {"no", "started", "retrieved", "prompted", "over"}
  /\ ops \in 0..MaxOps /\ faults \in 0..MaxFaults

Init ==
  /\ flows = Flows /\ links = {} /\ files = [p \in {} |-> None] /\ excused = {}
  /\ mem = [i \in {Seed} |-> [owner |-> Reviewed, scope |-> "workflow", key |-> Reviewed, body |-> Short,
       path |-> NoPath, status |-> "active", pinned |-> TRUE, sup |-> None, dead |-> FALSE]]
  /\ index = [i \in {Seed} |-> Short] /\ cand = [c \in {} |-> None]
  /\ enabled = TRUE /\ job = "none" /\ count = 0
  /\ task = [t \in Reviewers |-> Resting]
  /\ recall = [at |-> "no", pinned |-> {}, got |-> {}, traced |-> {}]
  /\ ops = 0 /\ faults = 0

Command == ops < MaxOps /\ ops' = ops + 1
Fault == faults < MaxFaults /\ faults' = faults + 1
Without(f, S) == [x \in DOMAIN f \ S |-> f[x]]
With(f, x, v) == [y \in DOMAIN f \cup {x} |-> IF y = x THEN v ELSE f[y]]

\* A new id is one nothing remembers.
Remembered == DOMAIN mem \cup recall.got \cup recall.pinned \cup {p[2] : p \in DOMAIN files}
  \cup UNION {task[t].seen \cup {s.target : s \in task[t].said} : t \in Reviewers}
FreshIds == Ids \ Remembered
NewId == CHOOSE i \in FreshIds : TRUE

-----------------------------------------------------------------------------
(* The tables.                                                             *)

\* resolve_scope and resolve_scope_key: the key a scope has in a workflow; None when it has none.
ScopeKey(w, s) == CASE s = "workflow" -> w [] s = "user" -> "local-user" [] s = "workspace" -> Dir[w]

\* list_memories_for_context and list_linked_memories: what a workflow sees.
Sees(w, i) ==
  \/ mem[i].key = ScopeKey(w, mem[i].scope)
  \/ <<w, i>> \in links /\ mem[i].scope = "workflow"
Live(i) == i \in DOMAIN mem /\ mem[i].status = "active" /\ ~mem[i].dead
Visible(w) == {i \in DOMAIN mem : Sees(w, i) /\ Live(i)}

\* find_exact_duplicate looks at every status, active_duplicate_hash_conn at active rows.
Duplicates(s, k, b) == {i \in DOMAIN mem : mem[i].scope = s /\ mem[i].key = k /\ mem[i].body = b}

\* index_memory of the rows in S, and delete_memory_index of those that are gone.
IndexMemory(S) ==
  index' = [i \in (DOMAIN index \cup S) \cap DOMAIN mem' |-> IF i \in S THEN mem'[i].body ELSE index[i]]

\* Mutant: the replaced memory stays pinned.
WriteCanonicalPinned(i, r) ==
  /\ mem' = LET m == With(mem, i, r) IN
       IF r.sup = None THEN m ELSE [m EXCEPT ![r.sup].status = "superseded"]
  /\ IndexMemory({i} \cup ({r.sup} \ {None}))

\* write_canonical_memory: the row, and the one it replaces, unpinned; both indexed.
WriteCanonical(i, r) ==
  /\ mem' = LET m == With(mem, i, r) IN
       IF r.sup = None THEN m ELSE [m EXCEPT ![r.sup].status = "superseded", ![r.sup].pinned = FALSE]
  /\ IndexMemory({i} \cup ({r.sup} \ {None}))

\* validate_supersedes: another row of the same scope.
ValidSupersedes(t, i, s, k) ==
  t = None \/ (t # i /\ t \in DOMAIN mem /\ mem[t].scope = s /\ mem[t].key = k)

\* plan_canonical_insert: a scope the workflow has, a target of that scope, and only active rows
\* pinned; what is wrong with the rest of the input refuses it without effect.
PlanCanonicalInsert(w, i, r) ==
  /\ w \in flows /\ r.key # None
  /\ r.pinned => r.status = "active"
  /\ ValidSupersedes(r.sup, i, r.scope, r.key)

\* create_memory: an exact duplicate is answered with the row there is; a long body is spilled
\* to a file first, which goes again when the row cannot be written.
CreateMemory(w, s, b, sup, pin) ==
  LET i == NewId
      path == IF b \in Spilled THEN <<w, i>> ELSE NoPath
      r == [owner |-> w, scope |-> s, key |-> ScopeKey(w, s), body |-> b, path |-> path, status |-> "active",
            pinned |-> pin, sup |-> sup, dead |-> FALSE] IN
  /\ Command /\ FreshIds # {}
  /\ PlanCanonicalInsert(w, i, r) /\ Duplicates(s, r.key, b) = {}
  /\ \/ /\ WriteCanonical(i, r) /\ UNCHANGED faults
        /\ files' = IF path = NoPath THEN files ELSE With(files, path, b)
     \/ Fault /\ UNCHANGED <<mem, index, files>>
  /\ UNCHANGED <<flows, links, cand, enabled, job, count, task, recall, excused>>

\* Mutant: the text in the file is left as it was.
UpdateKeepsFile(w, i, r, newBody) ==
  IF ~newBody THEN mem[i].path ELSE IF r.body \in Spilled THEN <<w, i>> ELSE mem[i].path

\* The file of an edited row: a new text is spilled again, or no longer.
UpdatedPath(w, i, r, newBody) ==
  IF ~newBody THEN mem[i].path ELSE IF r.body \in Spilled THEN <<w, i>> ELSE NoPath

\* What update_memory refuses: an edit from a workflow that only links the row, a scope the
\* workflow does not have, a pinned row that is not active, a wrong target.
UpdateAllowed(w, i, r) ==
  /\ w \in flows /\ ~(<<w, i>> \in links /\ mem[i].owner # w)
  /\ r.key # None /\ (r.pinned => r.status = "active")
  /\ ValidSupersedes(r.sup, i, r.scope, r.key)

\* update_memory: one field or another changes; a spilled text is written to its file before the
\* row, and a file the row no longer names is removed after it.  A row that cannot be written
\* leaves the new file behind.
UpdateMemory(w, i) ==
  LET row == mem[i] IN
  /\ Command /\ i \in DOMAIN mem /\ Sees(w, i)
  /\ \E r \in {[row EXCEPT !.body = b] : b \in Bodies \ {row.body}}
              \cup {[row EXCEPT !.scope = s, !.key = ScopeKey(w, s), !.owner = w] : s \in Scopes \ {row.scope}}
              \cup {[row EXCEPT !.status = s] : s \in Statuses \ {row.status}}
              \cup {[row EXCEPT !.pinned = ~row.pinned]} :
     LET newBody == r.body # row.body
         path == UpdatedPath(w, i, r, newBody) IN
     /\ UpdateAllowed(w, i, r)
     /\ \/ /\ mem' = [mem EXCEPT ![i] = [r EXCEPT !.path = path]] /\ IndexMemory({i})
           /\ files' = LET f == IF newBody /\ r.body \in Spilled THEN With(files, <<w, i>>, r.body) ELSE files
                       IN IF newBody /\ row.path # path THEN Without(f, {row.path}) ELSE f
           /\ UNCHANGED <<faults, excused>>
        \/ /\ Fault /\ newBody /\ r.body \in Spilled
           /\ files' = With(files, <<w, i>>, r.body) /\ excused' = excused \cup {<<w, i>>}
           /\ UNCHANGED <<mem, index>>
  /\ UNCHANGED <<flows, links, cand, enabled, job, count, task, recall>>

\* What goes with a set of memories: links, uses, and what refers to them (ON DELETE CASCADE and
\* SET NULL).
Forget(S) ==
  /\ mem' = [i \in DOMAIN mem \ S |-> IF mem[i].sup \in S THEN [mem[i] EXCEPT !.sup = None] ELSE mem[i]]
  /\ index' = Without(index, S)
  /\ files' = Without(files, {mem[i].path : i \in S})
  /\ recall' = [recall EXCEPT !.traced = recall.traced \ S]

\* delete_memory_for_context and delete_memory: not from a workflow that only links the row; the
\* index entry and the row, then the file.
DeleteMemory(w, i) ==
  /\ Command /\ i \in DOMAIN mem /\ Sees(w, i)
  /\ ~(mem[i].scope = "workflow" /\ mem[i].owner # w /\ <<w, i>> \in links)
  /\ Forget({i}) /\ links' = {l \in links : l[2] # i}
  /\ cand' = [c \in DOMAIN cand |-> IF cand[c].target = i THEN [cand[c] EXCEPT !.target = None] ELSE cand[c]]
  /\ UNCHANGED <<flows, enabled, job, count, task, excused, faults>>

\* clear_memories: the workflow's own memories.
ClearMemories(w) ==
  LET S == {i \in DOMAIN mem : mem[i].scope = "workflow" /\ mem[i].owner = w} IN
  /\ Command /\ S # {}
  /\ Forget(S) /\ links' = {l \in links : l[2] \notin S}
  /\ cand' = [c \in DOMAIN cand |-> IF cand[c].target \in S THEN [cand[c] EXCEPT !.target = None] ELSE cand[c]]
  /\ UNCHANGED <<flows, enabled, job, count, task, excused, faults>>

\* Mutant: a deleted workflow takes every memory it made with it, but not their index.
DeleteWorkflowDropsAll(w) ==
  LET S == {i \in DOMAIN mem : mem[i].owner = w} IN
  /\ Command /\ w \in flows
  /\ flows' = flows \ {w}
  /\ mem' = [i \in DOMAIN mem \ S |-> IF mem[i].sup \in S THEN [mem[i] EXCEPT !.sup = None] ELSE mem[i]]
  /\ index' = Without(index, {i \in S : mem[i].scope = "workflow"})
  /\ files' = Without(files, {mem[i].path : i \in {j \in S : mem[j].scope = "workflow"}})
  /\ recall' = [recall EXCEPT !.traced = recall.traced \ S]
  /\ links' = {l \in links : l[1] # w /\ l[2] \notin S}
  /\ cand' = [c \in DOMAIN cand |-> IF cand[c].target \in S THEN [cand[c] EXCEPT !.target = None] ELSE cand[c]]
  /\ UNCHANGED <<job, count, enabled, task, excused, faults>>

\* delete_workflow: its own memories go with their files, those it made for the user or a
\* directory lose their owner; its runs, reviews and candidates go.
DeleteWorkflow(w) ==
  LET S == {i \in DOMAIN mem : mem[i].scope = "workflow" /\ mem[i].owner = w}
      C == {c \in DOMAIN cand : cand[c].flow # w} IN
  /\ Command /\ w \in flows
  /\ flows' = flows \ {w}
  /\ mem' = [i \in DOMAIN mem \ S |->
       [mem[i] EXCEPT !.owner = IF @ = w THEN None ELSE @, !.sup = IF @ \in S THEN None ELSE @]]
  /\ IndexMemory({i \in DOMAIN mem \ S : mem[i].owner = w})
  /\ files' = Without(files, {mem[i].path : i \in S})
  /\ links' = {l \in links : l[1] # w /\ l[2] \notin S}
  /\ cand' = [c \in C |-> IF cand[c].target \in S THEN [cand[c] EXCEPT !.target = None] ELSE cand[c]]
  /\ IF w = Reviewed THEN job' = "gone" /\ count' = 0 ELSE UNCHANGED <<job, count>>
  /\ recall' = IF w = Reviewed THEN [at |-> "over", pinned |-> {}, got |-> {}, traced |-> {}]
                               ELSE [recall EXCEPT !.traced = recall.traced \ S]
  /\ UNCHANGED <<enabled, task, excused, faults>>

\* link_memory and unlink_memory: only another workflow's own memories can be linked.
LinkMemory(w, i) ==
  /\ Command /\ w \in flows /\ i \in DOMAIN mem
  /\ \/ /\ <<w, i>> \notin links /\ mem[i].scope = "workflow" /\ mem[i].owner \notin {w, None}
        /\ links' = links \cup {<<w, i>>}
     \/ <<w, i>> \in links /\ links' = links \ {<<w, i>>}
  /\ UNCHANGED <<flows, mem, index, files, cand, enabled, job, count, task, recall, excused, faults>>

\* The expiry of a row passes.
Expire(i) ==
  /\ Command /\ i \in DOMAIN mem /\ ~mem[i].dead /\ mem' = [mem EXCEPT ![i].dead = TRUE]
  /\ UNCHANGED <<flows, index, files, links, cand, enabled, job, count, task, recall, excused, faults>>

-----------------------------------------------------------------------------
(* What an agent node recalls.                                             *)

\* format_pinned_context when a run starts: the pinned memories it will be given.
RunStarts ==
  /\ recall.at = "no" /\ Reviewed \in flows
  /\ recall' = [recall EXCEPT !.at = "started", !.pinned = {i \in Visible(Reviewed) : mem[i].pinned}]
  /\ UNCHANGED <<flows, table, cand, enabled, job, count, task, ops, faults>>

\* retrieve_memories: what the workflow sees besides, or nothing when the search fails.
Retrieve ==
  /\ recall.at = "started"
  /\ \/ \E S \in SUBSET (Visible(Reviewed) \ recall.pinned) :
           recall' = [recall EXCEPT !.at = "retrieved", !.got = S] /\ UNCHANGED faults
     \/ Fault /\ recall' = [recall EXCEPT !.at = "retrieved"]
  /\ UNCHANGED <<flows, table, cand, enabled, job, count, task, ops>>

\* insert_run_memory_uses: all of them, or none when one of the memories is gone.
CanInsertUses(S) == S \subseteq DOMAIN mem

\* Mutant: a recall that cannot be traced is used all the same.
PreparePromptUntraced ==
  /\ recall.at = "retrieved"
  /\ LET all == recall.pinned \cup recall.got IN
     recall' = [recall EXCEPT !.at = "prompted", !.traced = IF CanInsertUses(all) THEN all ELSE {}]
  /\ UNCHANGED <<flows, table, cand, enabled, job, count, task, ops, faults>>

\* prepare_agent_prompt: the uses are recorded before the prompt is composed; if they cannot be,
\* nothing is recalled, and the pinned memories are recorded if that is possible.
PreparePrompt ==
  /\ recall.at = "retrieved"
  /\ \/ /\ CanInsertUses(recall.pinned \cup recall.got)
        /\ recall' = [recall EXCEPT !.at = "prompted", !.traced = recall.pinned \cup recall.got]
        /\ UNCHANGED faults
     \/ /\ \/ ~CanInsertUses(recall.pinned \cup recall.got) /\ UNCHANGED faults
           \/ Fault
        /\ recall' = [recall EXCEPT !.at = "prompted", !.got = {},
                      !.traced = IF CanInsertUses(recall.pinned) THEN recall.pinned ELSE {}]
  /\ UNCHANGED <<flows, table, cand, enabled, job, count, task, ops>>

-----------------------------------------------------------------------------
(* The review of a completed run.                                          *)

Spawn(t) == task[t].at = "rest" /\ task' = [task EXCEPT ![t].at = "claim"]
Free == {t \in Reviewers : task[t].at = "rest"}

\* update_memory_review_settings and set_workflow_memory_review.
SetReview ==
  /\ Command /\ enabled' = ~enabled
  /\ UNCHANGED <<flows, table, cand, job, count, task, recall, faults>>

\* schedule_memory_review: only of a completed run, only when switched on; one row per run.
ScheduleReview(t) ==
  /\ job = "none" /\ enabled /\ Reviewed \in flows /\ Spawn(t) /\ recall.at \in {"no", "prompted"}
  /\ job' = "pending" /\ recall' = [at |-> "over", pinned |-> {}, got |-> {}, traced |-> {}]
  /\ UNCHANGED <<flows, table, cand, enabled, count, ops, faults>>

\* Mutant: a review that has not completed can be retried.
RetryAnything(t) ==
  /\ Command /\ job \in {"failed", "running"} /\ enabled /\ Spawn(t) /\ job' = "pending"
  /\ UNCHANGED <<flows, table, cand, enabled, count, recall, faults>>

\* retry_memory_review, then spawn_retry_memory_review: only a failed review, while switched on.
RetryReview(t) ==
  /\ Command /\ job = "failed" /\ enabled /\ Spawn(t) /\ job' = "pending"
  /\ UNCHANGED <<flows, table, cand, enabled, count, recall, faults>>

\* claim_memory_review: pending becomes running for exactly one task.
ClaimReview(t) ==
  /\ task[t].at = "claim"
  /\ IF job = "pending" THEN job' = "running" /\ task' = [task EXCEPT ![t].at = "gather"]
                        ELSE task' = [task EXCEPT ![t] = Resting] /\ UNCHANGED job
  /\ UNCHANGED <<flows, table, cand, enabled, count, recall, ops, faults>>

\* run_memory_review_job up to the provider: the row, the run's history, the workflow, and the
\* memories the reviewer is shown.
GatherReview(t) ==
  /\ task[t].at = "gather"
  /\ task' = [task EXCEPT ![t] = IF job = "gone" \/ Reviewed \notin flows THEN [@ EXCEPT !.at = "fail"]
                                 ELSE [@ EXCEPT !.at = "ask", !.seen = Visible(Reviewed)]]
  /\ UNCHANGED <<flows, table, cand, enabled, job, count, recall, ops, faults>>

\* The provider answers, once: an error, an answer parse_reviewer_output refuses, or suggestions.
AskReviewer(t) ==
  /\ task[t].at = "ask"
  /\ \/ task' = [task EXCEPT ![t].at = "fail"]
     \/ \E S \in {X \in SUBSET Suggested : Cardinality(X) <= Cardinality(Cands \ DOMAIN cand)} :
          task' = [task EXCEPT ![t].at = "validate", ![t].said = S]
  /\ UNCHANGED <<flows, table, cand, enabled, job, count, recall, ops, faults>>

\* The target rules of validate_candidate_suggestion and apply_approved_candidate.
TargetFits(op, target, s, k) ==
  IF op = "create" THEN target = None
  ELSE target # None /\ Live(target) /\ mem[target].scope = s /\ mem[target].key = k

\* The hash of a candidate, and the pending candidates that have it.
Pending(s, k, b, but) ==
  {c \in DOMAIN cand \ but : cand[c].status = "pending" /\ cand[c].scope = s /\ cand[c].key = k /\ cand[c].body = b}

\* What each check of a suggestion's texts refuses: lengths and confidence, invisible characters,
\* what looks like a secret in the title or the body, and a body half of whose sentences instruct.
ValidateCandidateTitle == {"title"}
ScreenedCharacters == {"invisible_title", "invisible_body", "invisible_rationale"}
SecretLikeMaterial == {"secret_title", "secret_body"}
InstructionLanguage == {"instructing_body"}
RefusedTexts == ValidateCandidateTitle \cup {"body", "rationale", "confidence"} \cup ScreenedCharacters
  \cup SecretLikeMaterial \cup InstructionLanguage

\* validate_candidate_suggestion: the texts (their flaw), the scope, the target, which the
\* reviewer must have been shown, and no duplicate among active memories and pending candidates.
ValidSuggestion(w, s, seen, skip, but) ==
  LET k == ScopeKey(w, s.scope) IN
  /\ s.flaw \notin RefusedTexts /\ k # None
  /\ s.op # "create" => skip \/ s.target \in seen
  /\ TargetFits(s.op, s.target, s.scope, k)
  /\ {i \in Duplicates(s.scope, k, s.body) : mem[i].status = "active"} = {}
  /\ Pending(s.scope, k, s.body, but) = {}

\* Suggestions that do not stand are left out.
ValidateReview(t) ==
  /\ task[t].at = "validate"
  /\ task' = [task EXCEPT ![t].at = "finalize",
       ![t].said = {s \in @ : ValidSuggestion(Reviewed, s, task[t].seen, FALSE, {})}]
  /\ UNCHANGED <<flows, table, cand, enabled, job, count, recall, ops, faults>>

\* insert_candidates_conn: one row for each content hash of a review, under a fresh id.
Candidate(s) ==
  [flow |-> Reviewed, op |-> s.op, target |-> s.target, scope |-> s.scope, key |-> ScopeKey(Reviewed, s.scope),
   body |-> s.body, status |-> "pending"]
Hash(s) == <<s.scope, s.body>>
NewCandidates(S) ==
  {f \in UNION {[C -> S] : C \in {D \in SUBSET (Cands \ DOMAIN cand) : Cardinality(D) = Cardinality({Hash(s) : s \in S})}} :
     \A a, b \in DOMAIN f : Hash(f[a]) = Hash(f[b]) => a = b}

\* Mutant: the candidates are written before the review is found not to be running.
FinalizeLoosely(t) ==
  /\ task[t].at = "finalize"
  /\ \E f \in NewCandidates(task[t].said) :
       cand' = [c \in DOMAIN cand \cup DOMAIN f |-> IF c \in DOMAIN f THEN Candidate(f[c]) ELSE cand[c]]
  /\ \/ /\ job = "running" /\ job' = "completed" /\ count' = Cardinality({Hash(s) : s \in task[t].said})
        /\ task' = [task EXCEPT ![t] = Resting] /\ UNCHANGED faults
     \/ Fault /\ task' = [task EXCEPT ![t].at = "fail"] /\ UNCHANGED <<job, count>>
  /\ UNCHANGED <<flows, table, enabled, recall, ops>>

\* finalize_review_success: the candidates and the completed row in one transaction, or neither.
\* A target that is gone by now fails the whole.
FinalizeReview(t) ==
  LET said == task[t].said
      gone == \E s \in said : s.target # None /\ s.target \notin DOMAIN mem IN
  /\ task[t].at = "finalize"
  /\ \/ /\ job = "running" /\ ~gone
        /\ \E f \in NewCandidates(said) :
             cand' = [c \in DOMAIN cand \cup DOMAIN f |-> IF c \in DOMAIN f THEN Candidate(f[c]) ELSE cand[c]]
        /\ job' = "completed" /\ count' = Cardinality({Hash(s) : s \in said})
        /\ task' = [task EXCEPT ![t] = Resting] /\ UNCHANGED faults
     \/ /\ \/ (job # "running" \/ gone) /\ UNCHANGED faults
           \/ Fault
        /\ task' = [task EXCEPT ![t].at = "fail"] /\ UNCHANGED <<cand, job, count>>
  /\ UNCHANGED <<flows, table, enabled, recall, ops>>

\* Mutant: a review that goes wrong is dropped.
FailSilently(t) ==
  /\ task[t].at = "fail" /\ task' = [task EXCEPT ![t] = Resting]
  /\ UNCHANGED <<flows, table, cand, enabled, job, count, recall, ops, faults>>

\* fail_memory_review.
FailReview(t) ==
  /\ task[t].at = "fail" /\ task' = [task EXCEPT ![t] = Resting]
  /\ job' = IF job = "running" THEN "failed" ELSE job
  /\ UNCHANGED <<flows, table, cand, enabled, count, recall, ops, faults>>

-----------------------------------------------------------------------------
(* The user's decisions.                                                   *)

\* update_memory_candidate: the edited candidate is validated like a suggestion, without the
\* reviewer's view.
EditCandidate(c) ==
  /\ Command /\ c \in DOMAIN cand /\ cand[c].status = "pending" /\ cand[c].flow \in flows
  /\ \E b \in Bodies, s \in Scopes :
       /\ ValidSuggestion(cand[c].flow, [op |-> cand[c].op, target |-> cand[c].target, scope |-> s, body |-> b,
                                         flaw |-> "none"], {}, TRUE, {c})
       /\ cand' = [cand EXCEPT ![c].body = b, ![c].scope = s, ![c].key = ScopeKey(cand[c].flow, s)]
  /\ UNCHANGED <<flows, table, enabled, job, count, task, recall, faults>>

\* Mutant: what was valid when it was suggested is applied.
ApplicableUnseen(c) == cand[c].op = "create" \/ cand[c].target \in DOMAIN mem

\* apply_approved_candidate, its checks: the scope the workflow has now, the target as it is
\* now, and no active duplicate.
Applicable(c) ==
  /\ ScopeKey(cand[c].flow, cand[c].scope) = cand[c].key
  /\ TargetFits(cand[c].op, cand[c].target, cand[c].scope, cand[c].key)
  /\ {i \in Duplicates(cand[c].scope, cand[c].key, cand[c].body) : mem[i].status = "active"} = {}

\* apply_approved_candidate, its effect: a new row, which may replace one, or a retraction.
ApplyCandidate(c) ==
  LET k == cand[c] IN
  IF k.op = "retract"
    THEN mem' = [mem EXCEPT ![k.target].status = "retracted", ![k.target].pinned = FALSE] /\ IndexMemory({k.target})
    ELSE /\ FreshIds # {}
         /\ WriteCanonical(NewId,
              [owner |-> k.flow, scope |-> k.scope, key |-> k.key, body |-> k.body, path |-> NoPath,
               status |-> "active", pinned |-> FALSE, sup |-> k.target, dead |-> FALSE])

\* approve_memory_candidate: one transaction applies and decides, or blocks.
ApproveCandidate(c) ==
  /\ Command /\ c \in DOMAIN cand /\ cand[c].status = "pending"
  /\ \/ Applicable(c) /\ ApplyCandidate(c) /\ cand' = [cand EXCEPT ![c].status = "approved"]
     \/ ~Applicable(c) /\ cand' = [cand EXCEPT ![c].status = "blocked"] /\ UNCHANGED <<mem, index>>
  /\ UNCHANGED <<flows, files, links, excused, enabled, job, count, task, recall, faults>>

\* reject_memory_candidate and clear_decided_memory_candidates.
RejectCandidate(c) ==
  /\ Command /\ c \in DOMAIN cand
  /\ \/ cand[c].status = "pending" /\ cand' = [cand EXCEPT ![c].status = "rejected"]
     \/ cand[c].status # "pending" /\ cand' = [d \in {e \in DOMAIN cand : cand[e].status = "pending"} |-> cand[d]]
  /\ UNCHANGED <<flows, table, enabled, job, count, task, recall, faults>>

UserStep ==
  \/ \E w \in Flows, s \in Scopes, b \in Bodies, sup \in DOMAIN mem \cup {None}, pin \in BOOLEAN :
       CreateMemory(w, s, b, sup, pin)
  \/ \E w \in Flows, i \in DOMAIN mem : UpdateMemory(w, i) \/ DeleteMemory(w, i) \/ LinkMemory(w, i)
  \/ \E w \in Flows : ClearMemories(w) \/ DeleteWorkflow(w)
  \/ \E i \in DOMAIN mem : Expire(i)
  \/ \E c \in DOMAIN cand : EditCandidate(c) \/ ApproveCandidate(c) \/ RejectCandidate(c)
  \/ SetReview

ReviewStep(t) ==
  ClaimReview(t) \/ GatherReview(t) \/ AskReviewer(t) \/ ValidateReview(t) \/ FinalizeReview(t) \/ FailReview(t)

Next ==
  \/ UserStep \/ RunStarts \/ Retrieve \/ PreparePrompt
  \/ \E t \in Reviewers : ScheduleReview(t) \/ RetryReview(t) \/ ReviewStep(t)

Spec == Init /\ [][Next]_memVars
FairSpec == Spec /\ \A t \in Reviewers : WF_memVars(ReviewStep(t))

-----------------------------------------------------------------------------
(* Properties.                                                             *)

\* Every memory is found under the text it has, and the index names no memory that is gone,
\* through edits, replacements, retractions and the deletion of workflows (history.rs,
\* index_memory; workflows.rs, delete_workflow).
IndexIsCurrent == DOMAIN index = DOMAIN mem /\ \A i \in DOMAIN mem : index[i] = mem[i].body

\* A memory kept in a file has its file, with its text; a file belongs to a memory, unless an
\* edit failed after writing it (memories.rs, update_memory).
FilesMatchRows ==
  /\ \A i \in DOMAIN mem : mem[i].path # NoPath =>
       mem[i].path \in DOMAIN files /\ (mem[i].path \in excused \/ files[mem[i].path] = mem[i].body)
  /\ \A p \in DOMAIN files : p \in excused \/ \E i \in DOMAIN mem : mem[i].path = p

\* Only active memories are pinned, whichever way a memory stops being active (memories.rs,
\* write_canonical_memory; memory_curation.rs, apply_approved_candidate).
PinnedIsActive == \A i \in DOMAIN mem : mem[i].pinned => mem[i].status = "active"

\* "Recalled context is never injected without its audit trace" (runner/mod.rs): what a prompt
\* recalls is recorded or was deleted since, although memories may be deleted between the
\* search and the record.
RecallIsTraced ==
  recall.at = "prompted" => recall.got \cap DOMAIN mem \subseteq recall.traced

\* One background task at a time works on a review, however often it is scheduled and retried
\* (memory_curation.rs, retry_memory_review and claim_memory_review).
OneReviewer == Cardinality({t \in Reviewers : task[t].at \notin {"rest", "claim"}}) <= 1

\* Candidates come from a review that completed: one that failed, or was overtaken by the
\* deletion of its workflow, leaves none (memory_curation.rs, finalize_review_success).
CandidatesOfCompleted == DOMAIN cand # {} => job = "completed"

\* An approval applies what is true when it is given: it replaces or retracts only a memory that
\* is live and in the candidate's scope at that moment, and never makes a second active memory of
\* the same text, whatever happened since the reviewer looked (memory_curation.rs,
\* apply_approved_candidate).
ApprovalIsSound ==
  \A c \in DOMAIN cand \cap DOMAIN cand' :
    cand[c].status = "pending" /\ cand'[c].status = "approved" =>
      /\ cand[c].op # "create" => Live(cand[c].target) /\ mem'[cand[c].target].status # "active"
      /\ cand[c].op # "retract" =>
           \E i \in DOMAIN mem' \ DOMAIN mem :
             /\ mem'[i].body = cand[c].body /\ mem'[i].sup = cand[c].target
             /\ \A j \in DOMAIN mem : mem[j].status = "active" /\ mem[j].scope = mem'[i].scope
                                      /\ mem[j].key = mem'[i].key => mem[j].body # mem'[i].body

\* A review that was claimed ends, completed or failed, so that it can be read or retried
\* (runner/mod.rs, execute_memory_review).
ReviewEnds == job = "running" ~> job # "running"
=============================================================================
