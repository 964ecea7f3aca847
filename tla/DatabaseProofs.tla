---------------------------- MODULE DatabaseProofs ----------------------------
(***************************************************************************)
(* What the database promises of the rows Alfred keeps in it.              *)
(*                                                                         *)
(* Of the memories, what Memories says: for any workflows and directories, *)
(* any texts and any suggestions of a reviewer, any number of reviews, and *)
(* however often the database fails.  Of every start, what Migrations      *)
(* says: for any rows, any accounts and any bound on sort_order.           *)
(***************************************************************************)
EXTENDS Memories, Sequences, FiniteSetTheorems, TLAPS

\* None is no workflow and no memory; the reviewed workflow has a directory, and the memory that is
\* there from the start a text that fits in its row; a reviewer suggests only what its schema has.
Operators == {"create", "supersede", "retract"}
Hypotheses ==
  /\ None \notin Flows /\ None \notin Ids
  /\ \E w \in Flows : Dir[w] # None
  /\ Ids # {} /\ Bodies \ Spilled # {} /\ IsFiniteSet(Cands)
  /\ \A s \in Suggested : s.op \in Operators /\ s.target \in Ids \cup {None} /\ s.scope \in Scopes /\ s.body \in Bodies
  /\ MaxOps \in Nat /\ MaxFaults \in Nat

-----------------------------------------------------------------------------
(* What the variables hold.                                                *)

Keys == Flows \cup {"local-user"} \cup {Dir[w] : w \in Flows}
Decisions == {"pending", "approved", "rejected", "blocked"}
CandRow == [flow : {Reviewed}, op : Operators, target : Ids \cup {None}, scope : Scopes, key : Keys, body : Bodies,
            status : Decisions]
Places == {"rest", "claim", "gather", "ask", "validate", "finalize", "fail"}
Task == [at : Places, seen : SUBSET Ids, said : SUBSET Suggested]
Recall == [at : {"no", "started", "retrieved", "prompted", "over"}, pinned : SUBSET Ids, got : SUBSET Ids,
           traced : SUBSET Ids]

MemTyped == DOMAIN mem \subseteq Ids /\ mem \in [DOMAIN mem -> Row]
CandTyped == DOMAIN cand \subseteq Cands /\ cand \in [DOMAIN cand -> CandRow]
TaskTyped == task \in [Reviewers -> Task]
RecallTyped == recall \in Recall
FilesTyped == DOMAIN files \subseteq Flows \X Ids
RestTyped ==
  /\ flows \subseteq Flows /\ links \subseteq Flows \X Ids
  /\ enabled \in BOOLEAN /\ job \in {"none", "pending", "running", "completed", "failed", "gone"}
  /\ ops \in 0..MaxOps /\ faults \in 0..MaxFaults
CountTyped == count \in 0..Cardinality(Cands)

\* The file of a memory is its own.
PathsAreOwn == \A i \in DOMAIN mem : mem[i].path # NoPath => mem[i].path \in Flows \X Ids /\ mem[i].path[2] = i

\* A review that is being worked on is claimed, by one task.
Busy(t) == task[t].at \notin {"rest", "claim"}
ClaimedOnce ==
  /\ \A t \in Reviewers : Busy(t) => job \in {"running", "gone"}
  /\ \A t, u \in Reviewers : Busy(t) /\ Busy(u) => t = u

MemInv ==
  /\ MemTyped /\ CandTyped /\ TaskTyped /\ RecallTyped /\ FilesTyped /\ RestTyped /\ CountTyped
  /\ PathsAreOwn /\ ClaimedOnce
  /\ IndexIsCurrent /\ FilesMatchRows /\ PinnedIsActive /\ RecallIsTraced /\ CandidatesOfCompleted

-----------------------------------------------------------------------------
(* What the steps do to the tables.                                        *)

\* The reviewed workflow is one, and has every scope.
LEMMA ReviewedHasScopes ==
  ASSUME Hypotheses
  PROVE  Reviewed \in Flows /\ \A s \in Scopes : ScopeKey(Reviewed, s) \in Keys
<1>1. Reviewed \in Flows BY DEF Reviewed, Hypotheses
<1> QED BY <1>1 DEF ScopeKey, Scopes, Keys

\* A scope of any workflow has its key, or none.
LEMMA ScopeKeyTyped == ASSUME NEW w \in Flows, NEW s \in Scopes PROVE ScopeKey(w, s) \in Keys
BY DEF ScopeKey, Scopes, Keys

\* A new id is one nothing remembers.
LEMMA NewIdIsFresh == ASSUME FreshIds # {} PROVE NewId \in FreshIds
BY DEF NewId

LEMMA FreshIsUnknown ==
  ASSUME NEW i \in FreshIds
  PROVE  /\ i \in Ids /\ i \notin DOMAIN mem /\ i \notin recall.got
         /\ \A p \in DOMAIN files : p[2] # i
<1>1. i \in Ids /\ i \notin Remembered BY DEF FreshIds
<1>2. i \notin DOMAIN mem /\ i \notin recall.got /\ i \notin {p[2] : p \in DOMAIN files}
  BY <1>1, Zenon DEF Remembered
<1> QED BY <1>1, <1>2

\* A row is added, and the one it replaces superseded.
Replaced(row) == [row EXCEPT !.status = "superseded", !.pinned = FALSE]
Adds(i, r) ==
  /\ i \in FreshIds /\ r \in Row /\ r.sup \in DOMAIN mem \cup {None} /\ r.status = "active"
  /\ DOMAIN mem' = DOMAIN mem \cup {i} /\ mem' \in [DOMAIN mem' -> Row]
  /\ mem'[i] = r
  /\ \A j \in DOMAIN mem : mem'[j] = IF j = r.sup THEN Replaced(mem[j]) ELSE mem[j]
  /\ DOMAIN index' = DOMAIN index \cup {i}
  /\ \A j \in DOMAIN index' : index'[j] = IF j \in {i, r.sup} THEN mem'[j].body ELSE index[j]

\* What is replaced keeps its text and its file.
LEMMA ReplacedKeeps ==
  ASSUME NEW row \in Row
  PROVE  /\ Replaced(row) \in Row /\ Replaced(row).path = row.path /\ Replaced(row).body = row.body
         /\ Replaced(row).pinned = FALSE /\ Replaced(row).status = "superseded"
BY DEF Replaced, Row, Statuses

\* A row changes.
Rewrites(i, r) ==
  /\ i \in DOMAIN mem /\ r \in Row /\ (r.pinned => r.status = "active")
  /\ DOMAIN mem' = DOMAIN mem /\ mem' \in [DOMAIN mem' -> Row]
  /\ mem'[i] = r /\ \A j \in DOMAIN mem \ {i} : mem'[j] = mem[j]
  /\ DOMAIN index' = DOMAIN index
  /\ \A j \in DOMAIN index' : index'[j] = IF j = i THEN r.body ELSE index[j]

\* The file of a row that is written is its own, and takes the place of the one it had.
Files(i, r, old) ==
  /\ DOMAIN files' = (DOMAIN files \ old) \cup ({r.path} \ {NoPath})
  /\ r.path # NoPath => /\ r.path \in Flows \X Ids /\ r.path[2] = i
                        /\ files'[r.path] = r.body \/ r.path \in excused
  /\ \A p \in DOMAIN files' \ {r.path} : files'[p] = files[p]
  /\ UNCHANGED <<recall, excused>>

\* A file is written for a row that is not.
Strands(p) ==
  /\ p \in Flows \X Ids
  /\ DOMAIN files' = DOMAIN files \cup {p} /\ \A q \in DOMAIN files' \ {p} : files'[q] = files[q]
  /\ excused' = excused \cup {p} /\ UNCHANGED <<mem, index, recall>>

\* Rows go, with what they have.
Removes(S) ==
  /\ S \subseteq DOMAIN mem
  /\ DOMAIN mem' = DOMAIN mem \ S /\ mem' \in [DOMAIN mem' -> Row]
  /\ \A j \in DOMAIN mem' : /\ mem'[j].body = mem[j].body /\ mem'[j].path = mem[j].path
                            /\ mem'[j].status = mem[j].status /\ mem'[j].pinned = mem[j].pinned
  /\ DOMAIN index' = DOMAIN index \ S
  /\ \A j \in DOMAIN index' : index'[j] = index[j] \/ index'[j] = mem'[j].body
  /\ DOMAIN files' = DOMAIN files \ {mem[i].path : i \in S}
  /\ \A p \in DOMAIN files' : files'[p] = files[p]
  /\ recall'.at # "over" => recall' = [recall EXCEPT !.traced = recall.traced \ S]
  /\ excused' = excused

LEMMA WriteCanonicalDoes ==
  ASSUME Hypotheses, MemTyped, IndexIsCurrent, NEW i \in FreshIds, NEW r \in Row,
         r.sup \in DOMAIN mem \cup {None}, r.status = "active", WriteCanonical(i, r)
  PROVE  Adds(i, r)
<1>1. i \in Ids /\ i \notin DOMAIN mem BY FreshIsUnknown
<1> DEFINE m == With(mem, i, r)
<1>2. DOMAIN m = DOMAIN mem \cup {i} /\ m \in [DOMAIN m -> Row] /\ m[i] = r /\ \A j \in DOMAIN mem : m[j] = mem[j]
  BY <1>1 DEF With, MemTyped
<1>3. mem' = IF r.sup = None THEN m ELSE [m EXCEPT ![r.sup].status = "superseded", ![r.sup].pinned = FALSE]
  BY DEF WriteCanonical
<1> HIDE DEF m
<1>4. /\ DOMAIN mem' = DOMAIN mem \cup {i} /\ mem' \in [DOMAIN mem' -> Row] /\ mem'[i] = r
      /\ \A j \in DOMAIN mem : mem'[j] = IF j = r.sup THEN Replaced(mem[j]) ELSE mem[j]
  <2>1. CASE r.sup = None
    <3>1. None \notin DOMAIN mem BY DEF Hypotheses, MemTyped
    <3> QED BY <1>2, <1>3, <2>1, <3>1
  <2>2. CASE r.sup # None
    <3>1. r.sup \in DOMAIN mem /\ r.sup # i BY <1>1, <2>2
    <3>2. mem' = [m EXCEPT ![r.sup] = [m[r.sup] EXCEPT !.status = "superseded", !.pinned = FALSE]]
      BY <1>2, <1>3, <2>2, <3>1
    <3>3. Replaced(mem[r.sup]) \in Row BY <3>1 DEF Replaced, MemTyped, Row, Statuses
    <3>4. m[r.sup] = mem[r.sup] BY <1>2, <3>1
    <3>5. mem' = [m EXCEPT ![r.sup] = Replaced(mem[r.sup])] BY <3>2, <3>4 DEF Replaced
    <3> QED BY <1>1, <1>2, <3>1, <3>3, <3>5
  <2> QED BY <2>1, <2>2
<1>5. index' = [j \in (DOMAIN index \cup ({i} \cup ({r.sup} \ {None}))) \cap DOMAIN mem' |->
                  IF j \in {i} \cup ({r.sup} \ {None}) THEN mem'[j].body ELSE index[j]]
  BY DEF WriteCanonical, IndexMemory
<1>6. DOMAIN index = DOMAIN mem /\ None \notin DOMAIN mem' BY <1>1, <1>4 DEF IndexIsCurrent, Hypotheses, MemTyped
<1>7. DOMAIN index' = DOMAIN index \cup {i} BY <1>4, <1>5, <1>6
<1>8. \A j \in DOMAIN index' : index'[j] = IF j \in {i, r.sup} THEN mem'[j].body ELSE index[j]
  BY <1>4, <1>5, <1>6, <1>7
<1> QED BY <1>4, <1>7, <1>8 DEF Adds

\* A pair of None names no file.
LEMMA NoPathIsNone == ASSUME Hypotheses, FilesTyped PROVE NoPath \notin DOMAIN files /\ NoPath \notin Flows \X Ids
BY DEF Hypotheses, FilesTyped, NoPath

LEMMA CreateDoes ==
  ASSUME Hypotheses, MemTyped, FilesTyped, RestTyped, IndexIsCurrent, NEW w \in Flows, NEW s \in Scopes, NEW b \in Bodies,
         NEW sup \in DOMAIN mem \cup {None}, NEW pin \in BOOLEAN, CreateMemory(w, s, b, sup, pin)
  PROVE  \/ UNCHANGED <<mem, index, files, excused, recall>>
         \/ \E i \in Ids, r \in Row : Adds(i, r) /\ Files(i, r, {})
<1> DEFINE i == NewId
           path == IF b \in Spilled THEN <<w, i>> ELSE NoPath
           r == [owner |-> w, scope |-> s, key |-> ScopeKey(w, s), body |-> b, path |-> path, status |-> "active",
                 pinned |-> pin, sup |-> sup, dead |-> FALSE]
<1>1. FreshIds # {} BY DEF CreateMemory
<1>2. i \in FreshIds /\ i \in Ids BY <1>1, NewIdIsFresh, FreshIsUnknown
<1>3. UNCHANGED <<excused, recall>> BY DEF CreateMemory
<1>4. CASE UNCHANGED <<mem, index, files>>
  BY <1>3, <1>4
<1>5. CASE WriteCanonical(i, r) /\ files' = IF path = NoPath THEN files ELSE With(files, path, b)
  <2>1. ScopeKey(w, s) \in Keys BY ScopeKeyTyped
  <2>2. path \in (Flows \X Ids) \cup {NoPath} /\ (path # NoPath => path = <<w, i>>) BY <1>2
  <2>3. sup \in Ids \cup {None} BY DEF MemTyped
  <2>4. r \in Row BY <2>1, <2>2, <2>3 DEF Row, Keys, Statuses
  <2>5. r.sup \in DOMAIN mem \cup {None} /\ r.status = "active" /\ r.path = path /\ r.body = b OBVIOUS
  <2> HIDE DEF r, i
  <2>6. Adds(i, r) BY <1>2, <1>5, <2>4, <2>5, WriteCanonicalDoes
  <2>7. Files(i, r, {})
    <3>1. CASE path = NoPath
      BY <1>3, <1>5, <2>5, <3>1 DEF Files
    <3>2. CASE path # NoPath
      <4>1. files' = With(files, path, b) /\ path = <<w, i>> BY <1>5, <2>2, <3>2
      <4> QED BY <1>2, <1>3, <2>5, <3>2, <4>1 DEF Files, With
    <3> QED BY <3>1, <3>2
  <2> QED BY <1>2, <2>4, <2>6, <2>7
<1> QED BY <1>4, <1>5 DEF CreateMemory

\* What an edit makes of a row.
LEMMA EditedIsRow ==
  ASSUME Hypotheses, MemTyped, NEW w \in Flows, NEW i \in DOMAIN mem,
         NEW r \in {[mem[i] EXCEPT !.body = b] : b \in Bodies \ {mem[i].body}}
                   \cup {[mem[i] EXCEPT !.scope = s, !.key = ScopeKey(w, s), !.owner = w] : s \in Scopes \ {mem[i].scope}}
                   \cup {[mem[i] EXCEPT !.status = s] : s \in Statuses \ {mem[i].status}}
                   \cup {[mem[i] EXCEPT !.pinned = ~mem[i].pinned]}
  PROVE  r \in Row /\ r.path = mem[i].path
<1>1. mem[i] \in Row BY DEF MemTyped
<1>2. CASE r \in {[mem[i] EXCEPT !.body = b] : b \in Bodies \ {mem[i].body}}
  BY <1>1, <1>2 DEF Row
<1>3. CASE r \in {[mem[i] EXCEPT !.scope = s, !.key = ScopeKey(w, s), !.owner = w] : s \in Scopes \ {mem[i].scope}}
  <2>1. PICK s \in Scopes : r = [mem[i] EXCEPT !.scope = s, !.key = ScopeKey(w, s), !.owner = w] BY <1>3
  <2>2. ScopeKey(w, s) \in Keys BY ScopeKeyTyped
  <2> QED BY <1>1, <2>1, <2>2 DEF Row, Keys
<1>4. CASE r \in {[mem[i] EXCEPT !.status = s] : s \in Statuses \ {mem[i].status}}
  BY <1>1, <1>4 DEF Row
<1>5. CASE r = [mem[i] EXCEPT !.pinned = ~mem[i].pinned]
  BY <1>1, <1>5 DEF Row
<1> QED BY <1>2, <1>3, <1>4, <1>5

LEMMA UpdateDoes ==
  ASSUME Hypotheses, MemTyped, FilesTyped, PathsAreOwn, IndexIsCurrent, FilesMatchRows, NEW w \in Flows,
         NEW i \in DOMAIN mem, UpdateMemory(w, i)
  PROVE  \/ \E r \in Row : Rewrites(i, r) /\ Files(i, r, {mem[i].path})
         \/ \E p \in Flows \X Ids : Strands(p)
<1>1. PICK r \in {[mem[i] EXCEPT !.body = b] : b \in Bodies \ {mem[i].body}}
              \cup {[mem[i] EXCEPT !.scope = s, !.key = ScopeKey(w, s), !.owner = w] : s \in Scopes \ {mem[i].scope}}
              \cup {[mem[i] EXCEPT !.status = s] : s \in Statuses \ {mem[i].status}}
              \cup {[mem[i] EXCEPT !.pinned = ~mem[i].pinned]} :
     LET newBody == r.body # mem[i].body
         path == UpdatedPath(w, i, r, newBody) IN
     /\ UpdateAllowed(w, i, r)
     /\ \/ /\ mem' = [mem EXCEPT ![i] = [r EXCEPT !.path = path]] /\ IndexMemory({i})
           /\ files' = LET f == IF newBody /\ r.body \in Spilled THEN With(files, <<w, i>>, r.body) ELSE files
                       IN IF newBody /\ mem[i].path # path THEN Without(f, {mem[i].path}) ELSE f
           /\ UNCHANGED <<faults, excused>>
        \/ /\ Fault /\ newBody /\ r.body \in Spilled
           /\ files' = With(files, <<w, i>>, r.body) /\ excused' = excused \cup {<<w, i>>}
           /\ UNCHANGED <<mem, index>>
  BY Zenon DEF UpdateMemory
<1> DEFINE newBody == r.body # mem[i].body
           path == UpdatedPath(w, i, r, newBody)
           new == [r EXCEPT !.path = path]
<1>2. r \in Row /\ r.path = mem[i].path BY <1>1, EditedIsRow
<1>3. i \in Ids /\ recall' = recall BY DEF UpdateMemory, MemTyped
<1>4. r.pinned => r.status = "active" BY <1>1 DEF UpdateAllowed
<1>5. CASE /\ mem' = [mem EXCEPT ![i] = new] /\ IndexMemory({i})
           /\ files' = LET f == IF newBody /\ r.body \in Spilled THEN With(files, <<w, i>>, r.body) ELSE files
                       IN IF newBody /\ mem[i].path # path THEN Without(f, {mem[i].path}) ELSE f
           /\ UNCHANGED <<faults, excused>>
  <2>1. path \in (Flows \X Ids) \cup {NoPath} BY <1>2, <1>3 DEF UpdatedPath, MemTyped, Row
  <2>2. new \in Row /\ new.path = path /\ new.body = r.body /\ new.pinned = r.pinned /\ new.status = r.status
    BY <1>2, <2>1 DEF Row
  <2> HIDE DEF new
  <2>3. Rewrites(i, new)
    <3>1. mem' \in [DOMAIN mem -> Row] /\ DOMAIN mem' = DOMAIN mem /\ mem'[i] = new
          /\ \A j \in DOMAIN mem \ {i} : mem'[j] = mem[j]
      BY <1>5, <2>2 DEF MemTyped
    <3>2. index' = [j \in (DOMAIN index \cup {i}) \cap DOMAIN mem' |-> IF j \in {i} THEN mem'[j].body ELSE index[j]]
      BY <1>5 DEF IndexMemory
    <3>3. DOMAIN index = DOMAIN mem BY DEF IndexIsCurrent
    <3> QED BY <1>4, <2>2, <3>1, <3>2, <3>3 DEF Rewrites
  <2>4. Files(i, new, {mem[i].path})
    <3>1. mem[i].path # NoPath =>
            /\ mem[i].path \in Flows \X Ids /\ mem[i].path[2] = i /\ mem[i].path \in DOMAIN files
            /\ mem[i].path \in excused \/ files[mem[i].path] = mem[i].body
      BY DEF PathsAreOwn, FilesMatchRows
    <3>2. NoPath \notin DOMAIN files /\ NoPath \notin Flows \X Ids BY NoPathIsNone
    <3> HIDE DEF path
    <3>0. UNCHANGED <<recall, excused>> BY <1>3, <1>5
    <3>3. CASE ~newBody
      <4>1. files' = files /\ path = mem[i].path /\ r.body = mem[i].body BY <1>5, <3>3 DEF UpdatedPath, path
      <4>2. DOMAIN files = (DOMAIN files \ {mem[i].path}) \cup ({mem[i].path} \ {NoPath}) BY <3>1, <3>2
      <4> QED BY <2>2, <3>0, <3>1, <4>1, <4>2 DEF Files
    <3>4. CASE newBody /\ r.body \notin Spilled
      <4>1. path = NoPath BY <3>4 DEF UpdatedPath, path
      <4>2. files' = IF mem[i].path # NoPath THEN Without(files, {mem[i].path}) ELSE files BY <1>5, <3>4, <4>1
      <4> QED BY <2>2, <3>0, <3>2, <4>1, <4>2 DEF Files, Without
    <3>5. CASE newBody /\ r.body \in Spilled
      <4>1. path = <<w, i>> /\ path \in Flows \X Ids /\ path[2] = i BY <1>3, <3>5 DEF UpdatedPath, path
      <4> DEFINE f == With(files, path, r.body)
      <4>2. files' = IF mem[i].path # path THEN Without(f, {mem[i].path}) ELSE f BY <1>5, <3>5, <4>1
      <4>3. DOMAIN f = DOMAIN files \cup {path} /\ f[path] = r.body /\ \A p \in DOMAIN files \ {path} : f[p] = files[p]
        BY DEF With
      <4> HIDE DEF f
      <4>4. CASE mem[i].path # path
        <5>1. DOMAIN files' = DOMAIN f \ {mem[i].path} /\ \A p \in DOMAIN files' : files'[p] = f[p]
          BY <4>2, <4>4 DEF Without
        <5>2. path \in DOMAIN files' /\ files'[path] = r.body BY <4>3, <4>4, <5>1
        <5>3. DOMAIN files' = (DOMAIN files \ {mem[i].path}) \cup ({path} \ {NoPath})
          <6>1. DOMAIN f = DOMAIN files \cup {path} /\ path # NoPath BY <3>2, <4>1, <4>3
          <6>2. DOMAIN files' = DOMAIN f \ {mem[i].path} BY <5>1
          <6> QED BY <4>4, <6>1, <6>2
        <5>4. \A p \in DOMAIN files' \ {path} : files'[p] = files[p] BY <4>3, <5>1
        <5> QED BY <2>2, <3>0, <4>1, <5>2, <5>3, <5>4 DEF Files
      <4>5. CASE mem[i].path = path
        <5>1. files' = f BY <4>2, <4>5
        <5>2. DOMAIN files' = (DOMAIN files \ {mem[i].path}) \cup ({path} \ {NoPath})
          BY <3>2, <4>1, <4>3, <4>5, <5>1
        <5> QED BY <2>2, <3>0, <4>1, <4>3, <5>1, <5>2 DEF Files
      <4> QED BY <4>4, <4>5
    <3> QED BY <3>3, <3>4, <3>5
  <2> QED BY <2>2, <2>3, <2>4
<1>6. CASE /\ files' = With(files, <<w, i>>, r.body) /\ excused' = excused \cup {<<w, i>>}
           /\ UNCHANGED <<mem, index>>
  <2>1. Strands(<<w, i>>) BY <1>3, <1>6 DEF Strands, With
  <2> QED BY <1>3, <2>1
<1> QED BY <1>1, <1>5, <1>6

LEMMA ForgetDoes == ASSUME Hypotheses, MemTyped, IndexIsCurrent, NEW S \in SUBSET DOMAIN mem, Forget(S), UNCHANGED excused
  PROVE Removes(S)
<1>1. mem' = [j \in DOMAIN mem \ S |-> IF mem[j].sup \in S THEN [mem[j] EXCEPT !.sup = None] ELSE mem[j]]
  BY DEF Forget
<1>2. \A j \in DOMAIN mem \ S : /\ mem'[j] \in Row /\ mem'[j].body = mem[j].body /\ mem'[j].path = mem[j].path
                                /\ mem'[j].status = mem[j].status /\ mem'[j].pinned = mem[j].pinned
  <2> TAKE j \in DOMAIN mem \ S
  <2>1. mem[j] \in Row BY DEF MemTyped
  <2>2. mem'[j] = IF mem[j].sup \in S THEN [mem[j] EXCEPT !.sup = None] ELSE mem[j] BY <1>1
  <2> QED BY <2>1, <2>2 DEF Row
<1>3. DOMAIN mem' = DOMAIN mem \ S /\ mem' \in [DOMAIN mem' -> Row] BY <1>1, <1>2
<1>4. /\ DOMAIN index' = DOMAIN index \ S /\ \A j \in DOMAIN index' : index'[j] = index[j]
      /\ DOMAIN files' = DOMAIN files \ {mem[i].path : i \in S} /\ \A p \in DOMAIN files' : files'[p] = files[p]
      /\ recall' = [recall EXCEPT !.traced = recall.traced \ S]
  BY DEF Forget, Without
<1> QED BY <1>2, <1>3, <1>4 DEF Removes

LEMMA DeleteDoes == ASSUME Hypotheses, MemTyped, IndexIsCurrent, NEW w \in Flows, NEW i \in DOMAIN mem, DeleteMemory(w, i)
  PROVE Removes({i})
<1>1. Forget({i}) /\ UNCHANGED excused BY Zenon DEF DeleteMemory
<1> QED BY <1>1, ForgetDoes

LEMMA ClearDoes == ASSUME Hypotheses, MemTyped, IndexIsCurrent, NEW w \in Flows, ClearMemories(w)
  PROVE \E S \in SUBSET DOMAIN mem : Removes(S)
<1> DEFINE S == {i \in DOMAIN mem : mem[i].scope = "workflow" /\ mem[i].owner = w}
<1>1. Forget(S) /\ UNCHANGED excused BY Zenon DEF ClearMemories
<1>2. S \in SUBSET DOMAIN mem OBVIOUS
<1> HIDE DEF S
<1> QED BY <1>1, <1>2, ForgetDoes

LEMMA DeleteWorkflowDoes == ASSUME Hypotheses, MemTyped, IndexIsCurrent, NEW w \in Flows, DeleteWorkflow(w)
  PROVE \E S \in SUBSET DOMAIN mem : Removes(S)
<1> DEFINE S == {i \in DOMAIN mem : mem[i].scope = "workflow" /\ mem[i].owner = w}
           D == {i \in DOMAIN mem \ S : mem[i].owner = w}
<1>1. /\ mem' = [j \in DOMAIN mem \ S |->
           [mem[j] EXCEPT !.owner = IF @ = w THEN None ELSE @, !.sup = IF @ \in S THEN None ELSE @]]
      /\ IndexMemory(D) /\ files' = Without(files, {mem[i].path : i \in S})
      /\ IF w = Reviewed THEN recall' = [at |-> "over", pinned |-> {}, got |-> {}, traced |-> {}]
                         ELSE recall' = [recall EXCEPT !.traced = recall.traced \ S]
      /\ excused' = excused
  BY DEF DeleteWorkflow
<1>2. S \in SUBSET DOMAIN mem /\ D \subseteq DOMAIN mem \ S OBVIOUS
<1> HIDE DEF S, D
<1>3. \A j \in DOMAIN mem \ S : /\ mem'[j] \in Row /\ mem'[j].body = mem[j].body /\ mem'[j].path = mem[j].path
                                /\ mem'[j].status = mem[j].status /\ mem'[j].pinned = mem[j].pinned
  <2> TAKE j \in DOMAIN mem \ S
  <2>1. mem[j] \in Row BY DEF MemTyped
  <2>2. mem'[j] = [mem[j] EXCEPT !.owner = IF mem[j].owner = w THEN None ELSE mem[j].owner,
                                 !.sup = IF mem[j].sup \in S THEN None ELSE mem[j].sup] BY <1>1, <2>1 DEF Row
  <2> QED BY <2>1, <2>2 DEF Row
<1>4. DOMAIN mem' = DOMAIN mem \ S /\ mem' \in [DOMAIN mem' -> Row] BY <1>1, <1>3
<1>5. DOMAIN index' = DOMAIN index \ S /\ \A j \in DOMAIN index' : index'[j] = index[j] \/ index'[j] = mem'[j].body
  BY <1>1, <1>2, <1>4 DEF IndexMemory, IndexIsCurrent
<1>6. DOMAIN files' = DOMAIN files \ {mem[i].path : i \in S} /\ \A p \in DOMAIN files' : files'[p] = files[p]
  BY <1>1 DEF Without
<1>7. recall'.at # "over" => recall' = [recall EXCEPT !.traced = recall.traced \ S]
  <2>1. CASE w = Reviewed
    <3>1. recall' = [at |-> "over", pinned |-> {}, got |-> {}, traced |-> {}] BY <1>1, <2>1, Zenon
    <3> QED BY <3>1
  <2>2. CASE w # Reviewed
    BY <1>1, <2>2
  <2> QED BY <2>1, <2>2
<1> QED BY <1>1, <1>2, <1>3, <1>4, <1>5, <1>6, <1>7 DEF Removes

\* The file of a row that keeps its path.
LEMMA FilesStay ==
  ASSUME Hypotheses, FilesTyped, PathsAreOwn, FilesMatchRows, NEW i \in DOMAIN mem, NEW r, r.path = mem[i].path,
         r.body = mem[i].body, UNCHANGED <<files, recall, excused>>
  PROVE  Files(i, r, {mem[i].path})
<1>1. NoPath \notin DOMAIN files BY NoPathIsNone
<1>2. mem[i].path # NoPath =>
        /\ mem[i].path \in Flows \X Ids /\ mem[i].path[2] = i /\ mem[i].path \in DOMAIN files
        /\ mem[i].path \in excused \/ files[mem[i].path] = mem[i].body
  BY DEF PathsAreOwn, FilesMatchRows
<1>3. DOMAIN files = (DOMAIN files \ {mem[i].path}) \cup ({mem[i].path} \ {NoPath}) BY <1>1, <1>2
<1> QED BY <1>2, <1>3 DEF Files

LEMMA ExpireDoes ==
  ASSUME Hypotheses, MemTyped, FilesTyped, PathsAreOwn, IndexIsCurrent, FilesMatchRows, PinnedIsActive, NEW i \in DOMAIN mem,
         Expire(i)
  PROVE  \E r \in Row : Rewrites(i, r) /\ Files(i, r, {mem[i].path})
<1> DEFINE r == [mem[i] EXCEPT !.dead = TRUE]
<1>1. mem[i] \in Row BY DEF MemTyped
<1>2. /\ r \in Row /\ r.path = mem[i].path /\ r.body = mem[i].body /\ r.pinned = mem[i].pinned
      /\ r.status = mem[i].status
  BY <1>1 DEF Row
<1>3. mem' = [mem EXCEPT ![i] = r] /\ UNCHANGED <<index, files, recall, excused>> BY DEF Expire
<1> HIDE DEF r
<1>4. Rewrites(i, r) BY <1>2, <1>3 DEF Rewrites, MemTyped, PinnedIsActive, IndexIsCurrent
<1> QED BY <1>2, <1>3, <1>4, FilesStay

LEMMA ApproveDoes ==
  ASSUME Hypotheses, MemTyped, CandTyped, FilesTyped, PathsAreOwn, IndexIsCurrent, FilesMatchRows, NEW c \in DOMAIN cand,
         ApproveCandidate(c)
  PROVE  \/ UNCHANGED <<mem, index, files, excused, recall>>
         \/ \E i \in DOMAIN mem, r \in Row : Rewrites(i, r) /\ Files(i, r, {mem[i].path})
         \/ \E i \in Ids, r \in Row : Adds(i, r) /\ Files(i, r, {})
<1>1. UNCHANGED <<files, excused, recall>> BY DEF ApproveCandidate
<1>2. CASE UNCHANGED <<mem, index>>
  BY <1>1, <1>2
<1>3. CASE Applicable(c) /\ ApplyCandidate(c)
  <2> DEFINE k == cand[c]
  <2>1. k \in CandRow BY DEF CandTyped
  <2>2. CASE k.op = "retract"
    <3> DEFINE i == k.target
               r == [mem[i] EXCEPT !.status = "retracted", !.pinned = FALSE]
    <3>1. i \in DOMAIN mem BY <1>3, <2>2 DEF Applicable, TargetFits, Live
    <3>2. mem[i] \in Row BY <3>1 DEF MemTyped
    <3>3. r \in Row /\ r.path = mem[i].path /\ r.body = mem[i].body /\ r.pinned = FALSE
      BY <3>2 DEF Row, Statuses
    <3>4. mem' = [mem EXCEPT ![i] = r] /\ IndexMemory({i}) BY <1>3, <2>2, <3>1 DEF ApplyCandidate, MemTyped
    <3> HIDE DEF r, i
    <3>5. index' = [j \in (DOMAIN index \cup {i}) \cap DOMAIN mem' |-> IF j \in {i} THEN mem'[j].body ELSE index[j]]
      BY <3>4 DEF IndexMemory
    <3>6. Rewrites(i, r) BY <3>1, <3>3, <3>4, <3>5 DEF Rewrites, MemTyped, IndexIsCurrent
    <3> QED BY <1>1, <3>1, <3>3, <3>6, FilesStay
  <2>3. CASE k.op # "retract"
    <3> DEFINE i == NewId
               r == [owner |-> k.flow, scope |-> k.scope, key |-> k.key, body |-> k.body, path |-> NoPath,
                     status |-> "active", pinned |-> FALSE, sup |-> k.target, dead |-> FALSE]
    <3>1. FreshIds # {} /\ WriteCanonical(i, r) BY <1>3, <2>3 DEF ApplyCandidate
    <3>2. i \in FreshIds /\ i \in Ids BY <3>1, NewIdIsFresh, FreshIsUnknown
    <3>3. k.target \in DOMAIN mem \cup {None} BY <1>3 DEF Applicable, TargetFits, Live
    <3>4. Reviewed \in Flows BY ReviewedHasScopes
    <3>5. r \in Row BY <2>1, <3>4 DEF Row, CandRow, Keys, Statuses
    <3>6. r.sup = k.target /\ r.status = "active" /\ r.path = NoPath OBVIOUS
    <3> HIDE DEF i, r
    <3>7. Adds(i, r) BY <3>1, <3>2, <3>3, <3>5, <3>6, WriteCanonicalDoes
    <3>8. Files(i, r, {}) BY <1>1, <3>6 DEF Files
    <3> QED BY <3>2, <3>5, <3>7, <3>8
  <2> QED BY <2>2, <2>3
<1> QED BY <1>2, <1>3 DEF ApproveCandidate

\* The step changes the tables in one of these ways, or not at all.
TableStep ==
  \/ \E i \in Ids, r \in Row : Adds(i, r) /\ Files(i, r, {})
  \/ \E i \in DOMAIN mem, r \in Row : Rewrites(i, r) /\ Files(i, r, {mem[i].path})
  \/ \E S \in SUBSET DOMAIN mem : Removes(S)
  \/ \E p \in Flows \X Ids : Strands(p)

LEMMA TablesMove ==
  ASSUME Hypotheses, MemInv, [Next]_memVars
  PROVE  TableStep \/ UNCHANGED <<mem, index, files, excused>>
<1> USE DEF MemInv
<1>1. ASSUME NEW w \in Flows, NEW s \in Scopes, NEW b \in Bodies, NEW sup \in DOMAIN mem \cup {None}, NEW pin \in BOOLEAN,
             CreateMemory(w, s, b, sup, pin)
      PROVE  TableStep \/ UNCHANGED <<mem, index, files, excused>>
  BY <1>1, CreateDoes DEF TableStep
<1>2. ASSUME NEW w \in Flows, NEW i \in DOMAIN mem, UpdateMemory(w, i)
      PROVE  TableStep
  BY <1>2, UpdateDoes DEF TableStep
<1>3. ASSUME NEW w \in Flows, NEW i \in DOMAIN mem, DeleteMemory(w, i)
      PROVE  TableStep
  BY <1>3, DeleteDoes DEF TableStep
<1>4. ASSUME NEW w \in Flows, ClearMemories(w)
      PROVE  TableStep
  BY <1>4, ClearDoes DEF TableStep
<1>5. ASSUME NEW w \in Flows, DeleteWorkflow(w)
      PROVE  TableStep
  BY <1>5, DeleteWorkflowDoes DEF TableStep
<1>6. ASSUME NEW i \in DOMAIN mem, Expire(i)
      PROVE  TableStep
  BY <1>6, ExpireDoes DEF TableStep
<1>7. ASSUME NEW c \in DOMAIN cand, ApproveCandidate(c)
      PROVE  TableStep \/ UNCHANGED <<mem, index, files, excused>>
  BY <1>7, ApproveDoes DEF TableStep
<1>8. ASSUME \/ \E w \in Flows, i \in DOMAIN mem : LinkMemory(w, i)
             \/ \E c \in DOMAIN cand : EditCandidate(c) \/ RejectCandidate(c)
             \/ SetReview \/ RunStarts \/ Retrieve \/ PreparePrompt
             \/ \E t \in Reviewers : ScheduleReview(t) \/ RetryReview(t) \/ ClaimReview(t) \/ GatherReview(t) \/ AskReviewer(t)
             \/ \E t \in Reviewers : ValidateReview(t) \/ FinalizeReview(t) \/ FailReview(t)
      PROVE  UNCHANGED <<mem, index, files, excused>>
  BY <1>8 DEF LinkMemory, EditCandidate, RejectCandidate, SetReview, RunStarts, Retrieve, PreparePrompt,
      ScheduleReview,
    RetryReview, ClaimReview, GatherReview, AskReviewer, ValidateReview, FinalizeReview, FailReview, table
<1>9. CASE UNCHANGED memVars
  BY <1>9 DEF memVars
<1> QED BY <1>1, <1>2, <1>3, <1>4, <1>5, <1>6, <1>7, <1>8, <1>9, Zenon DEF Next, UserStep, ReviewStep

LEMMA MemTypedStep == ASSUME Hypotheses, MemInv, [Next]_memVars PROVE MemTyped'
<1>1. DOMAIN mem \subseteq Ids /\ mem \in [DOMAIN mem -> Row] BY DEF MemInv, MemTyped
<1>2. ASSUME NEW i \in Ids, NEW r \in Row, Adds(i, r) PROVE MemTyped'
  BY <1>1, <1>2 DEF Adds, MemTyped
<1>3. ASSUME NEW i \in DOMAIN mem, NEW r \in Row, Rewrites(i, r) PROVE MemTyped'
  BY <1>1, <1>3 DEF Rewrites, MemTyped
<1>4. ASSUME NEW S \in SUBSET DOMAIN mem, Removes(S) PROVE MemTyped'
  BY <1>1, <1>4 DEF Removes, MemTyped
<1>5. CASE UNCHANGED mem
  BY <1>1, <1>5 DEF MemTyped
<1> QED BY <1>2, <1>3, <1>4, <1>5, TablesMove DEF TableStep, Strands

LEMMA FilesTypedStep == ASSUME Hypotheses, MemInv, [Next]_memVars PROVE FilesTyped'
<1>1. DOMAIN files \subseteq Flows \X Ids BY DEF MemInv, FilesTyped
<1>2. ASSUME NEW i, NEW r, NEW old, Files(i, r, old) PROVE FilesTyped'
  BY <1>1, <1>2 DEF Files, FilesTyped
<1>3. ASSUME NEW S \in SUBSET DOMAIN mem, Removes(S) PROVE FilesTyped'
  BY <1>1, <1>3 DEF Removes, FilesTyped
<1>4. ASSUME NEW p \in Flows \X Ids, Strands(p) PROVE FilesTyped'
  BY <1>1, <1>4 DEF Strands, FilesTyped
<1>5. CASE UNCHANGED files
  BY <1>1, <1>5 DEF FilesTyped
<1> QED BY <1>2, <1>3, <1>4, <1>5, TablesMove DEF TableStep

LEMMA PathsAreOwnStep == ASSUME Hypotheses, MemInv, [Next]_memVars PROVE PathsAreOwn'
<1>1. PathsAreOwn /\ MemTyped BY DEF MemInv
<1>2. ASSUME NEW i \in Ids, NEW r \in Row, Adds(i, r), Files(i, r, {}) PROVE PathsAreOwn'
  <2> SUFFICES ASSUME NEW j \in DOMAIN mem', mem'[j].path # NoPath
               PROVE  mem'[j].path \in Flows \X Ids /\ mem'[j].path[2] = j
    BY DEF PathsAreOwn
  <2>1. CASE j = i
    BY <1>2, <2>1 DEF Adds, Files
  <2>2. CASE j # i
    <3>1. j \in DOMAIN mem /\ mem[j] \in Row BY <1>1, <1>2, <2>2 DEF Adds, MemTyped
    <3>2. mem'[j].path = mem[j].path BY <1>2, <3>1, ReplacedKeeps DEF Adds
    <3> QED BY <1>1, <3>1, <3>2 DEF PathsAreOwn
  <2> QED BY <2>1, <2>2
<1>3. ASSUME NEW i \in DOMAIN mem, NEW r \in Row, Rewrites(i, r), Files(i, r, {mem[i].path}) PROVE PathsAreOwn'
  BY <1>1, <1>3 DEF Rewrites, Files, PathsAreOwn
<1>4. ASSUME NEW S \in SUBSET DOMAIN mem, Removes(S) PROVE PathsAreOwn'
  BY <1>1, <1>4 DEF Removes, PathsAreOwn
<1>5. CASE UNCHANGED mem
  BY <1>1, <1>5 DEF PathsAreOwn
<1> QED BY <1>2, <1>3, <1>4, <1>5, TablesMove DEF TableStep, Strands

LEMMA IndexIsCurrentStep == ASSUME Hypotheses, MemInv, [Next]_memVars PROVE IndexIsCurrent'
<1>1. IndexIsCurrent /\ MemTyped BY DEF MemInv
<1>2. ASSUME NEW i \in Ids, NEW r \in Row, Adds(i, r) PROVE IndexIsCurrent'
  <2>1. DOMAIN index' = DOMAIN mem' BY <1>1, <1>2 DEF Adds, IndexIsCurrent
  <2>2. ASSUME NEW j \in DOMAIN mem' PROVE index'[j] = mem'[j].body
    <3>1. CASE j \in {i, r.sup}
      BY <1>2, <2>1, <3>1 DEF Adds
    <3>2. CASE j \notin {i, r.sup}
      <4>1. j \in DOMAIN mem /\ mem'[j] = mem[j] /\ index'[j] = index[j] BY <1>2, <2>1, <3>2 DEF Adds
      <4> QED BY <1>1, <4>1 DEF IndexIsCurrent
    <3> QED BY <3>1, <3>2
  <2> QED BY <2>1, <2>2 DEF IndexIsCurrent
<1>3. ASSUME NEW i \in DOMAIN mem, NEW r \in Row, Rewrites(i, r) PROVE IndexIsCurrent'
  BY <1>1, <1>3 DEF Rewrites, IndexIsCurrent
<1>4. ASSUME NEW S \in SUBSET DOMAIN mem, Removes(S) PROVE IndexIsCurrent'
  BY <1>1, <1>4 DEF Removes, IndexIsCurrent
<1>5. CASE UNCHANGED <<mem, index>>
  BY <1>1, <1>5 DEF IndexIsCurrent
<1> QED BY <1>2, <1>3, <1>4, <1>5, TablesMove DEF TableStep, Strands

LEMMA PinnedIsActiveStep == ASSUME Hypotheses, MemInv, [Next]_memVars PROVE PinnedIsActive'
<1>1. PinnedIsActive /\ MemTyped BY DEF MemInv
<1>2. ASSUME NEW i \in Ids, NEW r \in Row, Adds(i, r) PROVE PinnedIsActive'
  <2> SUFFICES ASSUME NEW j \in DOMAIN mem', mem'[j].pinned PROVE mem'[j].status = "active"
    BY DEF PinnedIsActive
  <2>1. CASE j = i
    BY <1>2, <2>1 DEF Adds
  <2>2. CASE j # i
    <3>1. j \in DOMAIN mem /\ mem[j] \in Row BY <1>1, <1>2, <2>2 DEF Adds, MemTyped
    <3>2. Replaced(mem[j]).pinned = FALSE BY <3>1, ReplacedKeeps
    <3>3. mem'[j] = mem[j] BY <1>2, <3>1, <3>2 DEF Adds
    <3> QED BY <1>1, <3>1, <3>3 DEF PinnedIsActive
  <2> QED BY <2>1, <2>2
<1>3. ASSUME NEW i \in DOMAIN mem, NEW r \in Row, Rewrites(i, r) PROVE PinnedIsActive'
  BY <1>1, <1>3 DEF Rewrites, PinnedIsActive
<1>4. ASSUME NEW S \in SUBSET DOMAIN mem, Removes(S) PROVE PinnedIsActive'
  BY <1>1, <1>4 DEF Removes, PinnedIsActive
<1>5. CASE UNCHANGED mem
  BY <1>1, <1>5 DEF PinnedIsActive
<1> QED BY <1>2, <1>3, <1>4, <1>5, TablesMove DEF TableStep, Strands

LEMMA FilesMatchRowsStep == ASSUME Hypotheses, MemInv, [Next]_memVars PROVE FilesMatchRows'
<1>1. FilesMatchRows /\ PathsAreOwn /\ MemTyped /\ FilesTyped BY DEF MemInv
<1>2. NoPath \notin DOMAIN files BY <1>1, NoPathIsNone
<1>3. ASSUME NEW i \in Ids, NEW r \in Row, Adds(i, r), Files(i, r, {}) PROVE FilesMatchRows'
  <2>1. i \notin DOMAIN mem /\ \A p \in DOMAIN files : p[2] # i BY <1>3, FreshIsUnknown DEF Adds
  <2>2. \A j \in DOMAIN mem : mem'[j].path = mem[j].path /\ mem'[j].body = mem[j].body
    <3> TAKE j \in DOMAIN mem
    <3>1. mem[j] \in Row BY <1>1 DEF MemTyped
    <3> QED BY <1>3, <3>1, ReplacedKeeps DEF Adds
  <2>3. mem'[i] = r /\ DOMAIN mem' = DOMAIN mem \cup {i} BY <1>3 DEF Adds
  <2>4. /\ DOMAIN files' = DOMAIN files \cup ({r.path} \ {NoPath}) /\ \A p \in DOMAIN files' \ {r.path} : files'[p] = files[p]
        /\ r.path # NoPath => r.path[2] = i /\ (files'[r.path] = r.body \/ r.path \in excused)
        /\ excused' = excused
    BY <1>3 DEF Files
  <2>5. ASSUME NEW j \in DOMAIN mem', mem'[j].path # NoPath
        PROVE  mem'[j].path \in DOMAIN files' /\ (mem'[j].path \in excused' \/ files'[mem'[j].path] = mem'[j].body)
    <3>1. CASE j = i
      BY <2>3, <2>4, <2>5, <3>1
    <3>2. CASE j # i
      <4>1. j \in DOMAIN mem /\ mem[j].path # NoPath /\ mem[j].path[2] = j /\ mem[j].path \in DOMAIN files
        BY <1>1, <2>2, <2>3, <2>5, <3>2 DEF PathsAreOwn, FilesMatchRows
      <4>2. mem[j].path # r.path BY <2>4, <3>2, <4>1
      <4> QED BY <1>1, <2>2, <2>4, <4>1, <4>2 DEF FilesMatchRows
    <3> QED BY <3>1, <3>2
  <2>6. ASSUME NEW p \in DOMAIN files', p \notin excused' PROVE \E j \in DOMAIN mem' : mem'[j].path = p
    <3>1. CASE p = r.path
      BY <2>3, <3>1
    <3>2. CASE p # r.path
      <4>1. PICK j \in DOMAIN mem : mem[j].path = p BY <1>1, <2>4, <2>6, <3>2 DEF FilesMatchRows
      <4> QED BY <2>2, <2>3, <4>1
    <3> QED BY <3>1, <3>2
  <2> QED BY <2>5, <2>6 DEF FilesMatchRows
<1>4. ASSUME NEW i \in DOMAIN mem, NEW r \in Row, Rewrites(i, r), Files(i, r, {mem[i].path}) PROVE FilesMatchRows'
  <2>1. mem'[i] = r /\ DOMAIN mem' = DOMAIN mem /\ \A j \in DOMAIN mem \ {i} : mem'[j] = mem[j] BY <1>4 DEF Rewrites
  <2>2. /\ DOMAIN files' = (DOMAIN files \ {mem[i].path}) \cup ({r.path} \ {NoPath})
        /\ \A p \in DOMAIN files' \ {r.path} : files'[p] = files[p]
        /\ r.path # NoPath => r.path[2] = i /\ (files'[r.path] = r.body \/ r.path \in excused)
        /\ excused' = excused
    BY <1>4 DEF Files
  <2>3. ASSUME NEW j \in DOMAIN mem', mem'[j].path # NoPath
        PROVE  mem'[j].path \in DOMAIN files' /\ (mem'[j].path \in excused' \/ files'[mem'[j].path] = mem'[j].body)
    <3>1. CASE j = i
      BY <2>1, <2>2, <2>3, <3>1
    <3>2. CASE j # i
      <4>1. j \in DOMAIN mem /\ mem'[j] = mem[j] BY <2>1, <3>2
      <4>2. mem[j].path # NoPath /\ mem[j].path[2] = j /\ mem[j].path \in DOMAIN files
        BY <1>1, <2>3, <4>1 DEF PathsAreOwn, FilesMatchRows
      <4>3. mem[j].path # r.path BY <2>2, <3>2, <4>2
      <4>4. mem[j].path # mem[i].path BY <1>1, <3>2, <4>2 DEF PathsAreOwn
      <4> QED BY <1>1, <2>2, <4>1, <4>2, <4>3, <4>4 DEF FilesMatchRows
    <3> QED BY <3>1, <3>2
  <2>4. ASSUME NEW p \in DOMAIN files', p \notin excused' PROVE \E j \in DOMAIN mem' : mem'[j].path = p
    <3>1. CASE p = r.path
      BY <2>1, <3>1
    <3>2. CASE p # r.path
      <4>1. p \in DOMAIN files /\ p # mem[i].path BY <2>2, <3>2
      <4>2. PICK j \in DOMAIN mem : mem[j].path = p BY <1>1, <2>2, <2>4, <4>1 DEF FilesMatchRows
      <4> QED BY <2>1, <4>1, <4>2
    <3> QED BY <3>1, <3>2
  <2> QED BY <2>3, <2>4 DEF FilesMatchRows
<1>5. ASSUME NEW S \in SUBSET DOMAIN mem, Removes(S) PROVE FilesMatchRows'
  <2>1. /\ DOMAIN mem' = DOMAIN mem \ S
        /\ \A j \in DOMAIN mem' : mem'[j].body = mem[j].body /\ mem'[j].path = mem[j].path
        /\ DOMAIN files' = DOMAIN files \ {mem[i].path : i \in S} /\ \A p \in DOMAIN files' : files'[p] = files[p]
        /\ excused' = excused
    BY <1>5 DEF Removes
  <2>2. ASSUME NEW j \in DOMAIN mem', mem'[j].path # NoPath
        PROVE  mem'[j].path \in DOMAIN files' /\ (mem'[j].path \in excused' \/ files'[mem'[j].path] = mem'[j].body)
    <3>1. j \in DOMAIN mem /\ j \notin S /\ mem[j].path # NoPath /\ mem[j].path[2] = j /\ mem[j].path \in DOMAIN files
      BY <1>1, <2>1, <2>2 DEF PathsAreOwn, FilesMatchRows
    <3>2. ASSUME NEW i \in S PROVE mem[i].path # mem[j].path
      BY <1>1, <3>1 DEF PathsAreOwn
    <3>3. mem[j].path \in DOMAIN files' BY <2>1, <3>1, <3>2
    <3> QED BY <1>1, <2>1, <3>1, <3>3 DEF FilesMatchRows
  <2>3. ASSUME NEW p \in DOMAIN files', p \notin excused' PROVE \E j \in DOMAIN mem' : mem'[j].path = p
    <3>1. PICK j \in DOMAIN mem : mem[j].path = p BY <1>1, <2>1, <2>3 DEF FilesMatchRows
    <3>2. j \notin S BY <2>1, <3>1
    <3> QED BY <2>1, <3>1, <3>2
  <2> QED BY <2>2, <2>3 DEF FilesMatchRows
<1>6. ASSUME NEW p \in Flows \X Ids, Strands(p) PROVE FilesMatchRows'
  BY <1>1, <1>6 DEF Strands, FilesMatchRows
<1>7. CASE UNCHANGED <<mem, files, excused>>
  BY <1>1, <1>7 DEF FilesMatchRows
<1> QED BY <1>3, <1>4, <1>5, <1>6, <1>7, TablesMove DEF TableStep

-----------------------------------------------------------------------------
(* Recall, the reviews and the candidates.                                 *)

LEMMA RecallStep == ASSUME Hypotheses, MemInv, [Next]_memVars PROVE RecallTyped' /\ RecallIsTraced'
<1>1. /\ recall \in Recall /\ RecallIsTraced /\ DOMAIN mem \subseteq Ids
      /\ DOMAIN mem' \subseteq Ids
  BY MemTypedStep DEF MemInv, RecallTyped, MemTyped
<1>2. ASSUME NEW i \in Ids, NEW r \in Row, Adds(i, r), Files(i, r, {}) PROVE RecallTyped' /\ RecallIsTraced'
  <2>1. recall' = recall /\ i \notin recall.got /\ DOMAIN mem' = DOMAIN mem \cup {i}
    BY <1>2, FreshIsUnknown DEF Adds, Files
  <2> QED BY <1>1, <2>1 DEF RecallTyped, RecallIsTraced
<1>3. ASSUME NEW i \in DOMAIN mem, NEW r \in Row, Rewrites(i, r), Files(i, r, {mem[i].path})
      PROVE  RecallTyped' /\ RecallIsTraced'
  <2>1. recall' = recall /\ DOMAIN mem' = DOMAIN mem BY <1>3 DEF Rewrites, Files
  <2> QED BY <1>1, <2>1 DEF RecallTyped, RecallIsTraced
<1>4. ASSUME NEW p \in Flows \X Ids, Strands(p) PROVE RecallTyped' /\ RecallIsTraced'
  BY <1>1, <1>4 DEF Strands, RecallTyped, RecallIsTraced
<1>5. ASSUME NEW S \in SUBSET DOMAIN mem, DOMAIN mem' = DOMAIN mem \ S, recall' = [recall EXCEPT !.traced = recall.traced \ S]
      PROVE  RecallTyped' /\ RecallIsTraced'
  BY <1>1, <1>5 DEF Recall, RecallTyped, RecallIsTraced
<1>6. ASSUME recall' = [at |-> "over", pinned |-> {}, got |-> {}, traced |-> {}] PROVE RecallTyped' /\ RecallIsTraced'
  BY <1>6 DEF Recall, RecallTyped, RecallIsTraced
<1>7. ASSUME UNCHANGED <<recall, mem>> PROVE RecallTyped' /\ RecallIsTraced'
  BY <1>1, <1>7 DEF RecallTyped, RecallIsTraced
<1>8. CASE RunStarts
  <2>1. {i \in Visible(Reviewed) : mem[i].pinned} \subseteq Ids BY <1>1 DEF Visible
  <2> HIDE DEF Visible
  <2> QED BY <1>1, <1>8, <2>1 DEF RunStarts, Recall, RecallTyped, RecallIsTraced
<1>9. CASE Retrieve
  <2>1. Visible(Reviewed) \subseteq Ids BY <1>1 DEF Visible
  <2>2. CASE \E S \in SUBSET (Visible(Reviewed) \ recall.pinned) : recall' = [recall EXCEPT !.at = "retrieved", !.got = S]
    BY <1>1, <2>1, <2>2 DEF Recall, RecallTyped, RecallIsTraced
  <2>3. CASE recall' = [recall EXCEPT !.at = "retrieved"]
    BY <1>1, <2>3 DEF Recall, RecallTyped, RecallIsTraced
  <2> QED BY <1>9, <2>2, <2>3 DEF Retrieve
<1>10. CASE PreparePrompt
  <2>1. mem' = mem BY <1>10 DEF PreparePrompt, table
  <2>2. CASE recall' = [recall EXCEPT !.at = "prompted", !.traced = recall.pinned \cup recall.got]
    BY <1>1, <2>1, <2>2 DEF Recall, RecallTyped, RecallIsTraced
  <2>3. CASE recall' = [recall EXCEPT !.at = "prompted", !.got = {},
                         !.traced = IF CanInsertUses(recall.pinned) THEN recall.pinned ELSE {}]
    BY <1>1, <2>1, <2>3 DEF Recall, RecallTyped, RecallIsTraced
  <2> QED BY <1>10, <2>2, <2>3 DEF PreparePrompt
<1>11. ASSUME NEW w \in Flows, NEW i \in DOMAIN mem, DeleteMemory(w, i) PROVE RecallTyped' /\ RecallIsTraced'
  <2>1. DOMAIN mem' = DOMAIN mem \ {i} /\ recall' = [recall EXCEPT !.traced = recall.traced \ {i}]
    BY <1>11 DEF DeleteMemory, Forget
  <2> QED BY <1>5, <2>1
<1>12. ASSUME NEW w \in Flows, ClearMemories(w) PROVE RecallTyped' /\ RecallIsTraced'
  <2> DEFINE S == {i \in DOMAIN mem : mem[i].scope = "workflow" /\ mem[i].owner = w}
  <2>1. Forget(S) BY <1>12, Zenon DEF ClearMemories
  <2>2. S \in SUBSET DOMAIN mem OBVIOUS
  <2> HIDE DEF S
  <2>3. DOMAIN mem' = DOMAIN mem \ S /\ recall' = [recall EXCEPT !.traced = recall.traced \ S] BY <2>1 DEF Forget
  <2> QED BY <1>5, <2>2, <2>3
<1>13. ASSUME NEW w \in Flows, DeleteWorkflow(w) PROVE RecallTyped' /\ RecallIsTraced'
  <2> DEFINE S == {i \in DOMAIN mem : mem[i].scope = "workflow" /\ mem[i].owner = w}
  <2>1. /\ DOMAIN mem' = DOMAIN mem \ S
        /\ IF w = Reviewed THEN recall' = [at |-> "over", pinned |-> {}, got |-> {}, traced |-> {}]
                           ELSE recall' = [recall EXCEPT !.traced = recall.traced \ S]
    BY <1>13 DEF DeleteWorkflow
  <2>2. S \in SUBSET DOMAIN mem OBVIOUS
  <2> HIDE DEF S
  <2> QED BY <1>5, <1>6, <2>1, <2>2, Zenon
<1>14. ASSUME NEW t \in Reviewers, ScheduleReview(t) PROVE RecallTyped' /\ RecallIsTraced'
  BY <1>6, <1>14 DEF ScheduleReview
<1>15. ASSUME NEW c \in DOMAIN cand, ApproveCandidate(c) PROVE RecallTyped' /\ RecallIsTraced'
  <2>1. recall' = recall BY <1>15 DEF ApproveCandidate
  <2>2. \/ UNCHANGED mem
        \/ \E i \in DOMAIN mem, r \in Row : Rewrites(i, r) /\ Files(i, r, {mem[i].path})
        \/ \E i \in Ids, r \in Row : Adds(i, r) /\ Files(i, r, {})
    BY <1>15, ApproveDoes DEF MemInv
  <2> QED BY <1>2, <1>3, <1>7, <2>1, <2>2
<1>16. ASSUME NEW w \in Flows, NEW s \in Scopes, NEW b \in Bodies, NEW sup \in DOMAIN mem \cup {None}, NEW pin \in BOOLEAN,
             CreateMemory(w, s, b, sup, pin)
       PROVE RecallTyped' /\ RecallIsTraced'
  <2>1. \/ UNCHANGED <<mem, recall>> \/ \E i \in Ids, r \in Row : Adds(i, r) /\ Files(i, r, {})
    BY <1>16, CreateDoes DEF MemInv
  <2> QED BY <1>2, <1>7, <2>1
<1>17. ASSUME NEW w \in Flows, NEW i \in DOMAIN mem, UpdateMemory(w, i) PROVE RecallTyped' /\ RecallIsTraced'
  BY <1>3, <1>4, <1>17, UpdateDoes DEF MemInv
<1>18. ASSUME NEW i \in DOMAIN mem, Expire(i) PROVE RecallTyped' /\ RecallIsTraced'
  BY <1>3, <1>18, ExpireDoes DEF MemInv
<1>19. ASSUME \/ \E w \in Flows, i \in DOMAIN mem : LinkMemory(w, i)
              \/ \E c \in DOMAIN cand : EditCandidate(c) \/ RejectCandidate(c)
              \/ SetReview
              \/ \E t \in Reviewers : RetryReview(t) \/ ReviewStep(t)
       PROVE  UNCHANGED <<recall, mem>>
  BY <1>19 DEF LinkMemory, EditCandidate, RejectCandidate, SetReview, RetryReview, ReviewStep, ClaimReview,
      GatherReview,
    AskReviewer, ValidateReview, FinalizeReview, FailReview, table
<1>20. CASE UNCHANGED memVars
  BY <1>7, <1>20 DEF memVars
<1> HIDE DEF RecallTyped, RecallIsTraced
<1> QED
  BY <1>7, <1>8, <1>9, <1>10, <1>11, <1>12, <1>13, <1>14, <1>15, <1>16, <1>17, <1>18, <1>19, <1>20, Zenon DEF Next,
      UserStep

\* Who moves a review.
LEMMA ReviewsMove ==
  ASSUME [Next]_memVars
  PROVE  \/ UNCHANGED <<job, task, count>>
         \/ \E w \in Flows : DeleteWorkflow(w)
         \/ \E t \in Reviewers : ScheduleReview(t) \/ RetryReview(t) \/ ReviewStep(t)
<1>1. ASSUME \/ \E w \in Flows, s \in Scopes, b \in Bodies, sup \in DOMAIN mem \cup {None}, pin \in BOOLEAN :
                  CreateMemory(w, s, b, sup, pin)
             \/ \E w \in Flows, i \in DOMAIN mem : UpdateMemory(w, i) \/ DeleteMemory(w, i) \/ LinkMemory(w, i)
             \/ \E w \in Flows : ClearMemories(w)
             \/ \E i \in DOMAIN mem : Expire(i)
      PROVE  UNCHANGED <<job, task, count>>
  <2>1. ASSUME NEW w \in Flows, NEW i \in DOMAIN mem, UpdateMemory(w, i) PROVE UNCHANGED <<job, task, count>>
    BY <2>1, Zenon DEF UpdateMemory
  <2>2. ASSUME NEW w \in Flows, NEW s \in Scopes, NEW b \in Bodies, NEW sup \in DOMAIN mem \cup {None}, NEW pin \in BOOLEAN,
               CreateMemory(w, s, b, sup, pin)
        PROVE  UNCHANGED <<job, task, count>>
    BY <2>2, Zenon DEF CreateMemory
  <2>3. ASSUME NEW w \in Flows, NEW i \in DOMAIN mem, DeleteMemory(w, i) \/ LinkMemory(w, i) PROVE UNCHANGED <<job, task, count>>
    BY <2>3 DEF DeleteMemory, LinkMemory
  <2> QED BY <1>1, <2>1, <2>2, <2>3 DEF ClearMemories, Expire
<1>2. ASSUME \/ \E c \in DOMAIN cand : EditCandidate(c) \/ ApproveCandidate(c) \/ RejectCandidate(c)
             \/ SetReview \/ RunStarts \/ Retrieve \/ PreparePrompt
      PROVE  UNCHANGED <<job, task, count>>
  BY <1>2 DEF EditCandidate, ApproveCandidate, RejectCandidate, SetReview, RunStarts, Retrieve, PreparePrompt
<1>3. CASE UNCHANGED memVars
  BY <1>3 DEF memVars
<1> QED BY <1>1, <1>2, <1>3, Zenon DEF Next, UserStep

\* Who moves a candidate.
LEMMA CandidatesMove ==
  ASSUME [Next]_memVars
  PROVE  \/ UNCHANGED cand
         \/ \E w \in Flows, i \in DOMAIN mem : DeleteMemory(w, i)
         \/ \E w \in Flows : ClearMemories(w) \/ DeleteWorkflow(w)
         \/ \E c \in DOMAIN cand : EditCandidate(c) \/ ApproveCandidate(c) \/ RejectCandidate(c)
         \/ \E t \in Reviewers : FinalizeReview(t)
<1>1. ASSUME \/ \E w \in Flows, s \in Scopes, b \in Bodies, sup \in DOMAIN mem \cup {None}, pin \in BOOLEAN :
                  CreateMemory(w, s, b, sup, pin)
             \/ \E w \in Flows, i \in DOMAIN mem : UpdateMemory(w, i) \/ LinkMemory(w, i)
             \/ \E i \in DOMAIN mem : Expire(i)
             \/ SetReview \/ RunStarts \/ Retrieve \/ PreparePrompt
      PROVE  UNCHANGED cand
  <2>1. ASSUME NEW w \in Flows, NEW i \in DOMAIN mem, UpdateMemory(w, i) PROVE UNCHANGED cand
    BY <2>1, Zenon DEF UpdateMemory
  <2>2. ASSUME NEW w \in Flows, NEW s \in Scopes, NEW b \in Bodies, NEW sup \in DOMAIN mem \cup {None}, NEW pin \in BOOLEAN,
               CreateMemory(w, s, b, sup, pin)
        PROVE  UNCHANGED cand
    BY <2>2, Zenon DEF CreateMemory
  <2>3. ASSUME NEW w \in Flows, NEW i \in DOMAIN mem, LinkMemory(w, i) PROVE UNCHANGED cand
    BY <2>3 DEF LinkMemory
  <2> QED BY <1>1, <2>1, <2>2, <2>3 DEF Expire, SetReview, RunStarts, Retrieve, PreparePrompt
<1>2. ASSUME \/ \E t \in Reviewers : ScheduleReview(t) \/ RetryReview(t) \/ ClaimReview(t) \/ GatherReview(t)
             \/ \E t \in Reviewers : AskReviewer(t) \/ ValidateReview(t) \/ FailReview(t)
      PROVE  UNCHANGED cand
  BY <1>2 DEF ScheduleReview, RetryReview, ClaimReview, GatherReview, AskReviewer, ValidateReview, FailReview
<1>3. CASE UNCHANGED memVars
  BY <1>3 DEF memVars
<1> QED BY <1>1, <1>2, <1>3, Zenon DEF Next, UserStep, ReviewStep

\* What a review has made of its suggestions.
LEMMA NewCandidatesDo ==
  ASSUME Hypotheses, NEW S \in SUBSET Suggested, NEW f \in NewCandidates(S)
  PROVE  /\ DOMAIN f \subseteq Cands \ DOMAIN cand
         /\ \A c \in DOMAIN f : Candidate(f[c]) \in CandRow /\ Candidate(f[c]).status = "pending"
         /\ Cardinality({Hash(s) : s \in S}) \in 0..Cardinality(Cands)
<1> DEFINE H == {Hash(s) : s \in S}
<1>1. PICK C \in SUBSET (Cands \ DOMAIN cand) : Cardinality(C) = Cardinality(H) /\ f \in [C -> S] BY DEF NewCandidates
<1> HIDE DEF H
<1>2. IsFiniteSet(Cands) /\ C \subseteq Cands BY <1>1 DEF Hypotheses
<1>3. Cardinality(C) <= Cardinality(Cands) /\ IsFiniteSet(C) BY <1>2, FS_Subset
<1>4. Cardinality(C) \in Nat /\ Cardinality(Cands) \in Nat BY <1>2, <1>3, FS_CardinalityType
<1>5. Cardinality(H) \in 0..Cardinality(Cands) BY <1>1, <1>3, <1>4
<1>6. ASSUME NEW c \in DOMAIN f PROVE Candidate(f[c]) \in CandRow /\ Candidate(f[c]).status = "pending"
  <2>1. f[c] \in Suggested BY <1>1, <1>6
  <2>2. /\ f[c].op \in Operators /\ f[c].target \in Ids \cup {None} /\ f[c].scope \in Scopes /\ f[c].body \in Bodies
    BY <2>1 DEF Hypotheses
  <2>3. ScopeKey(Reviewed, f[c].scope) \in Keys BY <2>2, ReviewedHasScopes
  <2> QED BY <2>2, <2>3 DEF Candidate, CandRow, Decisions
<1> QED BY <1>1, <1>5, <1>6 DEF H

\* A review that finishes.
LEMMA FinalizeDoes ==
  ASSUME Hypotheses, CandTyped, TaskTyped, NEW t \in Reviewers, FinalizeReview(t)
  PROVE  \/ /\ job = "running" /\ job' = "completed" /\ task' = [task EXCEPT ![t] = Resting]
            /\ count' \in 0..Cardinality(Cands)
            /\ CandTyped' /\ DOMAIN cand \subseteq DOMAIN cand' /\ \A c \in DOMAIN cand : cand'[c] = cand[c]
         \/ task' = [task EXCEPT ![t].at = "fail"] /\ UNCHANGED <<cand, job, count>>
<1> DEFINE said == task[t].said
<1>1. said \in SUBSET Suggested BY DEF TaskTyped, Task
<1>2. CASE task' = [task EXCEPT ![t].at = "fail"] /\ UNCHANGED <<cand, job, count>>
  BY <1>2
<1>3. CASE /\ job = "running" /\ job' = "completed" /\ count' = Cardinality({Hash(s) : s \in said})
           /\ task' = [task EXCEPT ![t] = Resting]
           /\ \E f \in NewCandidates(said) :
                cand' = [c \in DOMAIN cand \cup DOMAIN f |-> IF c \in DOMAIN f THEN Candidate(f[c]) ELSE cand[c]]
  <2>1. PICK f \in NewCandidates(said) :
          cand' = [c \in DOMAIN cand \cup DOMAIN f |-> IF c \in DOMAIN f THEN Candidate(f[c]) ELSE cand[c]]
    BY <1>3
  <2>2. /\ DOMAIN f \subseteq Cands \ DOMAIN cand /\ \A c \in DOMAIN f : Candidate(f[c]) \in CandRow
        /\ count' \in 0..Cardinality(Cands)
    BY <1>1, <1>3, NewCandidatesDo
  <2>3. DOMAIN cand' = DOMAIN cand \cup DOMAIN f /\ \A c \in DOMAIN cand : cand'[c] = cand[c] BY <2>1, <2>2
  <2>4. CandTyped' BY <2>1, <2>2, <2>3 DEF CandTyped
  <2> QED BY <1>3, <2>2, <2>3, <2>4
<1> QED BY <1>2, <1>3 DEF FinalizeReview

LEMMA CandTypedStep == ASSUME Hypotheses, MemInv, [Next]_memVars PROVE CandTyped'
<1>1. CandTyped /\ DOMAIN cand \subseteq Cands /\ cand \in [DOMAIN cand -> CandRow] BY DEF MemInv, CandTyped
<1>2. ASSUME NEW S, NEW C \in SUBSET DOMAIN cand,
             cand' = [c \in C |-> IF cand[c].target \in S THEN [cand[c] EXCEPT !.target = None] ELSE cand[c]]
      PROVE  CandTyped'
  <2>1. \A c \in C : cand[c] \in CandRow /\ [cand[c] EXCEPT !.target = None] \in CandRow BY <1>1 DEF CandRow
  <2> QED BY <1>1, <1>2, <2>1 DEF CandTyped
<1>3. CASE UNCHANGED cand
  BY <1>1, <1>3 DEF CandTyped
<1>4. ASSUME NEW w \in Flows, NEW i \in DOMAIN mem, DeleteMemory(w, i) PROVE CandTyped'
  <2>1. cand' = [c \in DOMAIN cand |-> IF cand[c].target \in {i} THEN [cand[c] EXCEPT !.target = None] ELSE cand[c]]
    BY <1>4 DEF DeleteMemory
  <2> QED BY <1>2, <2>1
<1>5. ASSUME NEW w \in Flows, ClearMemories(w) PROVE CandTyped'
  BY <1>2, <1>5 DEF ClearMemories
<1>6. ASSUME NEW w \in Flows, DeleteWorkflow(w) PROVE CandTyped'
  BY <1>2, <1>6 DEF DeleteWorkflow
<1>7. ASSUME NEW c \in DOMAIN cand, EditCandidate(c) PROVE CandTyped'
  <2>1. PICK b \in Bodies, s \in Scopes :
          cand' = [cand EXCEPT ![c].body = b, ![c].scope = s, ![c].key = ScopeKey(cand[c].flow, s)]
    BY <1>7 DEF EditCandidate
  <2>2. cand[c] \in CandRow /\ ScopeKey(cand[c].flow, s) \in Keys BY <1>1, ReviewedHasScopes DEF CandRow
  <2>3. [cand[c] EXCEPT !.body = b, !.scope = s, !.key = ScopeKey(cand[c].flow, s)] \in CandRow BY <2>2 DEF CandRow
  <2>4. cand' = [cand EXCEPT ![c] = [cand[c] EXCEPT !.body = b, !.scope = s, !.key = ScopeKey(cand[c].flow, s)]]
    BY <1>1, <2>1
  <2> QED BY <1>1, <2>3, <2>4 DEF CandTyped
<1>8. ASSUME NEW c \in DOMAIN cand, ApproveCandidate(c) PROVE CandTyped'
  <2>1. cand[c] \in CandRow BY <1>1
  <2>2. cand' = [cand EXCEPT ![c].status = "approved"] \/ cand' = [cand EXCEPT ![c].status = "blocked"]
    BY <1>8 DEF ApproveCandidate
  <2> QED BY <1>1, <2>1, <2>2 DEF CandTyped, CandRow, Decisions
<1>9. ASSUME NEW c \in DOMAIN cand, RejectCandidate(c) PROVE CandTyped'
  <2>1. cand[c] \in CandRow BY <1>1
  <2>2. CASE cand' = [cand EXCEPT ![c].status = "rejected"]
    BY <1>1, <2>1, <2>2 DEF CandTyped, CandRow, Decisions
  <2>3. CASE cand' = [d \in {e \in DOMAIN cand : cand[e].status = "pending"} |-> cand[d]]
    BY <1>1, <2>3 DEF CandTyped
  <2> QED BY <1>9, <2>2, <2>3 DEF RejectCandidate
<1>10. ASSUME NEW t \in Reviewers, FinalizeReview(t) PROVE CandTyped'
  BY <1>3, <1>10, FinalizeDoes DEF MemInv
<1> QED BY <1>3, <1>4, <1>5, <1>6, <1>7, <1>8, <1>9, <1>10, CandidatesMove

LEMMA TaskTypedStep == ASSUME Hypotheses, MemInv, [Next]_memVars PROVE TaskTyped'
<1>1. task \in [Reviewers -> Task] BY DEF MemInv, TaskTyped
<1>2. Resting \in Task BY DEF Resting, Task, Places
<1>3. CASE UNCHANGED task
  BY <1>1, <1>3 DEF TaskTyped
<1>4. ASSUME NEW w \in Flows, DeleteWorkflow(w) PROVE UNCHANGED task
  BY <1>4 DEF DeleteWorkflow
<1>5. ASSUME NEW t \in Reviewers, ScheduleReview(t) \/ RetryReview(t) PROVE TaskTyped'
  <2>1. task' = [task EXCEPT ![t].at = "claim"] BY <1>5 DEF ScheduleReview, RetryReview, Spawn
  <2> QED BY <1>1, <2>1 DEF TaskTyped, Task, Places
<1>6. ASSUME NEW t \in Reviewers, ClaimReview(t) PROVE TaskTyped'
  <2>1. task' = [task EXCEPT ![t].at = "gather"] \/ task' = [task EXCEPT ![t] = Resting] BY <1>6 DEF ClaimReview
  <2> QED BY <1>1, <1>2, <2>1 DEF TaskTyped, Task, Places
<1>7. ASSUME NEW t \in Reviewers, GatherReview(t) PROVE TaskTyped'
  <2>1. Visible(Reviewed) \in SUBSET Ids BY DEF Visible, MemInv, MemTyped
  <2>2. task[t] \in Task BY <1>1
  <2>3. [task[t] EXCEPT !.at = "fail"] \in Task /\ [task[t] EXCEPT !.at = "ask", !.seen = Visible(Reviewed)] \in Task
    BY <2>1, <2>2 DEF Task, Places
  <2>4. \/ task' = [task EXCEPT ![t] = [task[t] EXCEPT !.at = "fail"]]
        \/ task' = [task EXCEPT ![t] = [task[t] EXCEPT !.at = "ask", !.seen = Visible(Reviewed)]]
    BY <1>1, <1>7 DEF GatherReview
  <2> QED BY <1>1, <2>3, <2>4 DEF TaskTyped
<1>8. ASSUME NEW t \in Reviewers, AskReviewer(t) PROVE TaskTyped'
  <2>1. CASE task' = [task EXCEPT ![t].at = "fail"]
    BY <1>1, <2>1 DEF TaskTyped, Task, Places
  <2>2. ASSUME NEW S \in SUBSET Suggested, task' = [task EXCEPT ![t].at = "validate", ![t].said = S] PROVE TaskTyped'
    <3>1. [task[t] EXCEPT !.at = "validate", !.said = S] \in Task BY <1>1 DEF Task, Places
    <3>2. task' = [task EXCEPT ![t] = [task[t] EXCEPT !.at = "validate", !.said = S]] BY <1>1, <2>2
    <3> QED BY <1>1, <3>1, <3>2 DEF TaskTyped
  <2> QED BY <1>8, <2>1, <2>2 DEF AskReviewer
<1>9. ASSUME NEW t \in Reviewers, ValidateReview(t) PROVE TaskTyped'
  <2> DEFINE S == {s \in task[t].said : ValidSuggestion(Reviewed, s, task[t].seen, FALSE, {})}
  <2>1. task[t] \in Task BY <1>1
  <2>2. S \in SUBSET Suggested BY <2>1 DEF Task
  <2>3. task' = [task EXCEPT ![t] = [task[t] EXCEPT !.at = "finalize", !.said = S]]
    BY <1>1, <1>9, <2>1 DEF ValidateReview, Task
  <2> HIDE DEF S
  <2>4. [task[t] EXCEPT !.at = "finalize", !.said = S] \in Task BY <2>1, <2>2 DEF Task, Places
  <2> QED BY <1>1, <2>3, <2>4 DEF TaskTyped
<1>10. ASSUME NEW t \in Reviewers, FinalizeReview(t) PROVE TaskTyped'
  <2>1. task' = [task EXCEPT ![t] = Resting] \/ task' = [task EXCEPT ![t].at = "fail"] BY <1>10 DEF FinalizeReview
  <2> QED BY <1>1, <1>2, <2>1 DEF TaskTyped, Task, Places
<1>11. ASSUME NEW t \in Reviewers, FailReview(t) PROVE TaskTyped'
  BY <1>1, <1>2, <1>11 DEF FailReview, TaskTyped
<1> QED BY <1>3, <1>4, <1>5, <1>6, <1>7, <1>8, <1>9, <1>10, <1>11, ReviewsMove DEF ReviewStep

LEMMA RestTypedStep == ASSUME Hypotheses, MemInv, [Next]_memVars PROVE RestTyped'
<1>1. RestTyped /\ MemTyped BY DEF MemInv
<1>2. MaxOps \in Nat /\ MaxFaults \in Nat BY DEF Hypotheses
<1> USE DEF RestTyped
<1>3. Command => ops' \in 0..MaxOps BY <1>1, <1>2 DEF Command
<1>4. Fault => faults' \in 0..MaxFaults BY <1>1, <1>2 DEF Fault
<1>5. ASSUME NEW w \in Flows, NEW s \in Scopes, NEW b \in Bodies, NEW sup \in DOMAIN mem \cup {None}, NEW pin \in BOOLEAN,
             CreateMemory(w, s, b, sup, pin)
      PROVE RestTyped'
  <2>1. Command /\ (Fault \/ UNCHANGED faults) /\ UNCHANGED <<flows, links, enabled, job>>
    BY <1>5, Zenon DEF CreateMemory
  <2> QED BY <1>1, <1>3, <1>4, <2>1
<1>6. ASSUME NEW w \in Flows, NEW i \in DOMAIN mem, UpdateMemory(w, i) PROVE RestTyped'
  <2>1. Command /\ (Fault \/ UNCHANGED faults) /\ UNCHANGED <<flows, links, enabled, job>>
    BY <1>6, Zenon DEF UpdateMemory
  <2> QED BY <1>1, <1>3, <1>4, <2>1
<1>7. ASSUME NEW w \in Flows, NEW i \in DOMAIN mem, DeleteMemory(w, i) \/ LinkMemory(w, i) PROVE RestTyped'
  <2>1. Command /\ UNCHANGED <<flows, enabled, job, faults>> BY <1>7 DEF DeleteMemory, LinkMemory
  <2>2. links' \subseteq links \cup {<<w, i>>} BY <1>7 DEF DeleteMemory, LinkMemory
  <2>3. i \in Ids BY <1>1 DEF MemTyped
  <2> QED BY <1>1, <1>3, <2>1, <2>2, <2>3
<1>8. ASSUME NEW w \in Flows, ClearMemories(w) \/ DeleteWorkflow(w) PROVE RestTyped'
  <2>1. Command /\ UNCHANGED <<enabled, faults>> BY <1>8 DEF ClearMemories, DeleteWorkflow
  <2>2. flows' \subseteq flows /\ links' \subseteq links /\ job' \in {job, "gone"}
    BY <1>8 DEF ClearMemories, DeleteWorkflow
  <2> QED BY <1>1, <1>3, <2>1, <2>2
<1>9. ASSUME NEW i \in DOMAIN mem, Expire(i) PROVE RestTyped'
  BY <1>1, <1>3, <1>9 DEF Expire
<1>10. ASSUME NEW c \in DOMAIN cand, EditCandidate(c) \/ ApproveCandidate(c) \/ RejectCandidate(c) PROVE RestTyped'
  <2>1. Command /\ UNCHANGED <<flows, links, enabled, job, faults>>
    BY <1>10 DEF EditCandidate, ApproveCandidate, RejectCandidate, table
  <2> QED BY <1>1, <1>3, <2>1
<1>11. CASE SetReview
  <2>1. Command /\ UNCHANGED <<flows, links, job, faults>> /\ enabled' = ~enabled BY <1>11 DEF SetReview, table
  <2> QED BY <1>1, <1>3, <2>1
<1>12. CASE RunStarts \/ Retrieve \/ PreparePrompt
  <2>1. (Fault \/ UNCHANGED faults) /\ UNCHANGED <<flows, links, enabled, job, ops>>
    BY <1>12, Zenon DEF RunStarts, Retrieve, PreparePrompt, table
  <2> QED BY <1>1, <1>4, <2>1
<1>13. ASSUME NEW t \in Reviewers, ScheduleReview(t) \/ RetryReview(t) PROVE RestTyped'
  <2>1. job' = "pending" /\ (Command \/ UNCHANGED ops) /\ UNCHANGED <<flows, links, enabled, faults>>
    BY <1>13 DEF ScheduleReview, RetryReview, table
  <2> QED BY <1>1, <1>3, <2>1
<1>14. ASSUME NEW t \in Reviewers, ReviewStep(t) PROVE RestTyped'
  <2>1. job' \in {job, "running", "failed", "completed"}
    BY <1>14 DEF ReviewStep, ClaimReview, GatherReview, AskReviewer, ValidateReview, FinalizeReview, FailReview
  <2>2. (Fault \/ UNCHANGED faults) /\ UNCHANGED <<flows, links, enabled, ops>>
    BY <1>14 DEF ReviewStep, ClaimReview, GatherReview, AskReviewer, ValidateReview, FinalizeReview, FailReview, table
  <2> QED BY <1>1, <1>4, <2>1, <2>2
<1>15. CASE UNCHANGED memVars
  BY <1>1, <1>15 DEF memVars
<1> HIDE DEF RestTyped
<1> QED BY <1>5, <1>6, <1>7, <1>8, <1>9, <1>10, <1>11, <1>12, <1>13, <1>14, <1>15, Zenon DEF Next, UserStep

LEMMA CountTypedStep == ASSUME Hypotheses, MemInv, [Next]_memVars PROVE CountTyped'
<1>1. CountTyped /\ CandTyped /\ TaskTyped BY DEF MemInv
<1>2. Cardinality(Cands) \in Nat BY FS_CardinalityType DEF Hypotheses
<1>3. CASE UNCHANGED count
  BY <1>1, <1>3 DEF CountTyped
<1>4. ASSUME NEW w \in Flows, DeleteWorkflow(w) PROVE CountTyped'
  <2>1. count' = 0 \/ count' = count BY <1>4 DEF DeleteWorkflow
  <2> QED BY <1>1, <1>2, <2>1 DEF CountTyped
<1>5. ASSUME NEW t \in Reviewers, FinalizeReview(t) PROVE CountTyped'
  <2>1. count' \in 0..Cardinality(Cands) \/ count' = count BY <1>1, <1>5, FinalizeDoes
  <2> QED BY <1>1, <2>1 DEF CountTyped
<1>6. ASSUME NEW t \in Reviewers, ScheduleReview(t) \/ RetryReview(t) \/ (ReviewStep(t) /\ ~FinalizeReview(t))
      PROVE  UNCHANGED count
  BY <1>6 DEF ScheduleReview, RetryReview, ReviewStep, ClaimReview, GatherReview, AskReviewer, ValidateReview,
      FailReview
<1> QED BY <1>3, <1>4, <1>5, <1>6, ReviewsMove

LEMMA ClaimedOnceStep == ASSUME Hypotheses, MemInv, [Next]_memVars PROVE ClaimedOnce'
<1>1. ClaimedOnce /\ CandTyped /\ TaskTyped /\ task \in [Reviewers -> Task] BY DEF MemInv, TaskTyped
<1>2. ASSUME NEW t \in Reviewers, \A u \in Reviewers \ {t} : task'[u] = task[u], ~Busy(t)',
             job' = job \/ \A u \in Reviewers : Busy(u) => u = t
      PROVE  ClaimedOnce'
  BY <1>1, <1>2 DEF ClaimedOnce, Busy
<1>3. ASSUME NEW t \in Reviewers, \A u \in Reviewers \ {t} : task'[u] = task[u], Busy(t), job' = job
      PROVE  ClaimedOnce'
  BY <1>1, <1>3 DEF ClaimedOnce, Busy
<1>4. CASE UNCHANGED <<job, task>>
  BY <1>1, <1>4 DEF ClaimedOnce, Busy
<1>5. ASSUME NEW w \in Flows, DeleteWorkflow(w) PROVE ClaimedOnce'
  <2>1. task' = task /\ job' \in {job, "gone"} BY <1>5 DEF DeleteWorkflow
  <2> QED BY <1>1, <2>1 DEF ClaimedOnce, Busy
<1>6. ASSUME NEW t \in Reviewers, ScheduleReview(t) \/ RetryReview(t) PROVE ClaimedOnce'
  <2>1. task[t].at = "rest" /\ task' = [task EXCEPT ![t].at = "claim"] /\ job \in {"none", "failed"}
    BY <1>6 DEF ScheduleReview, RetryReview, Spawn
  <2>2. \A u \in Reviewers : ~Busy(u) BY <1>1, <2>1 DEF ClaimedOnce
  <2>3. task'[t].at = "claim" BY <1>1, <2>1 DEF Task
  <2> QED BY <1>1, <1>2, <2>1, <2>2, <2>3 DEF Busy
<1>7. ASSUME NEW t \in Reviewers, ClaimReview(t) PROVE ClaimedOnce'
  <2>1. CASE job = "pending"
    <3>1. job' = "running" /\ task' = [task EXCEPT ![t].at = "gather"] BY <1>7, <2>1 DEF ClaimReview
    <3>2. \A u \in Reviewers : ~Busy(u) BY <1>1, <2>1 DEF ClaimedOnce
    <3>3. \A u \in Reviewers \ {t} : task'[u] = task[u] BY <1>1, <3>1
    <3> QED BY <3>1, <3>2, <3>3 DEF ClaimedOnce, Busy
  <2>2. CASE job # "pending"
    <3>1. job' = job /\ task' = [task EXCEPT ![t] = Resting] BY <1>7, <2>2 DEF ClaimReview
    <3>2. task'[t].at = "rest" BY <1>1, <3>1 DEF Resting
    <3> QED BY <1>1, <1>2, <3>1, <3>2 DEF Busy
  <2> QED BY <2>1, <2>2
<1>8. ASSUME NEW t \in Reviewers, GatherReview(t) \/ AskReviewer(t) \/ ValidateReview(t) PROVE ClaimedOnce'
  <2>1. Busy(t) /\ job' = job BY <1>8 DEF GatherReview, AskReviewer, ValidateReview, Busy
  <2>2. \A u \in Reviewers \ {t} : task'[u] = task[u] BY <1>1, <1>8 DEF GatherReview, AskReviewer, ValidateReview
  <2> QED BY <1>3, <2>1, <2>2
<1>9. ASSUME NEW t \in Reviewers, FinalizeReview(t) PROVE ClaimedOnce'
  <2>1. Busy(t) BY <1>9 DEF FinalizeReview, Busy
  <2>2. \A u \in Reviewers : Busy(u) => u = t BY <1>1, <2>1 DEF ClaimedOnce
  <2>3. CASE task' = [task EXCEPT ![t] = Resting]
    <3>1. task'[t].at = "rest" /\ \A u \in Reviewers \ {t} : task'[u] = task[u] BY <1>1, <2>3 DEF Resting
    <3> QED BY <1>2, <2>2, <3>1 DEF Busy
  <2>4. CASE task' = [task EXCEPT ![t].at = "fail"] /\ job' = job
    BY <1>1, <1>3, <2>1, <2>4
  <2> QED BY <1>1, <1>9, <2>3, <2>4, FinalizeDoes
<1>10. ASSUME NEW t \in Reviewers, FailReview(t) PROVE ClaimedOnce'
  <2>1. Busy(t) /\ task' = [task EXCEPT ![t] = Resting] BY <1>10 DEF FailReview, Busy
  <2>2. \A u \in Reviewers : Busy(u) => u = t BY <1>1, <2>1 DEF ClaimedOnce
  <2>3. task'[t].at = "rest" /\ \A u \in Reviewers \ {t} : task'[u] = task[u] BY <1>1, <2>1 DEF Resting
  <2> QED BY <1>2, <2>2, <2>3 DEF Busy
<1> QED BY <1>4, <1>5, <1>6, <1>7, <1>8, <1>9, <1>10, ReviewsMove DEF ReviewStep

LEMMA CandidatesOfCompletedStep == ASSUME Hypotheses, MemInv, [Next]_memVars PROVE CandidatesOfCompleted'
<1>1. CandidatesOfCompleted /\ ClaimedOnce /\ CandTyped /\ TaskTyped /\ RestTyped BY DEF MemInv
<1>2. ASSUME NEW t \in Reviewers, FinalizeReview(t) PROVE CandidatesOfCompleted'
  <2>1. job' = "completed" \/ UNCHANGED <<cand, job>> BY <1>1, <1>2, FinalizeDoes
  <2> QED BY <1>1, <2>1 DEF CandidatesOfCompleted
<1>3. ASSUME NEW w \in Flows, DeleteWorkflow(w) PROVE CandidatesOfCompleted'
  <2>1. /\ DOMAIN cand' = {c \in DOMAIN cand : cand[c].flow # w}
        /\ w # Reviewed => job' = job
    BY <1>3 DEF DeleteWorkflow
  <2>2. \A c \in DOMAIN cand : cand[c].flow = Reviewed BY <1>1 DEF CandTyped, CandRow
  <2> QED BY <1>1, <2>1, <2>2 DEF CandidatesOfCompleted
<1>4. ASSUME DOMAIN cand' \subseteq DOMAIN cand, job' = job PROVE CandidatesOfCompleted'
  BY <1>1, <1>4 DEF CandidatesOfCompleted
<1>5. ASSUME NEW t \in Reviewers, ScheduleReview(t) \/ RetryReview(t) \/ (ReviewStep(t) /\ ~FinalizeReview(t))
      PROVE  cand' = cand /\ (job' = job \/ job # "completed")
  BY <1>5 DEF ScheduleReview, RetryReview, ReviewStep, ClaimReview, GatherReview, AskReviewer, ValidateReview,
      FailReview
<1>6. ASSUME NEW t \in Reviewers, ScheduleReview(t) \/ RetryReview(t) \/ ReviewStep(t) PROVE CandidatesOfCompleted'
  BY <1>1, <1>2, <1>5, <1>6 DEF CandidatesOfCompleted
<1>7. CASE UNCHANGED <<job, task, count>>
  <2>1. ASSUME \/ \E w \in Flows, i \in DOMAIN mem : DeleteMemory(w, i)
               \/ \E w \in Flows : ClearMemories(w)
               \/ \E c \in DOMAIN cand : EditCandidate(c) \/ ApproveCandidate(c) \/ RejectCandidate(c)
        PROVE  DOMAIN cand' \subseteq DOMAIN cand
    BY <2>1 DEF DeleteMemory, ClearMemories, EditCandidate, ApproveCandidate, RejectCandidate
  <2> QED BY <1>2, <1>3, <1>4, <1>7, <2>1, CandidatesMove
<1> QED BY <1>3, <1>6, <1>7, ReviewsMove

\* An approval writes what its candidate says.
LEMMA ApprovalWrites ==
  ASSUME Hypotheses, MemInv, NEW c \in DOMAIN cand, Applicable(c), ApplyCandidate(c)
  PROVE  /\ cand[c].op # "create" => Live(cand[c].target) /\ mem'[cand[c].target].status # "active"
         /\ cand[c].op # "retract" =>
              \E i \in DOMAIN mem' \ DOMAIN mem :
                /\ mem'[i].body = cand[c].body /\ mem'[i].sup = cand[c].target
                /\ \A j \in DOMAIN mem : mem[j].status = "active" /\ mem[j].scope = mem'[i].scope
                                         /\ mem[j].key = mem'[i].key => mem[j].body # mem'[i].body
<1> DEFINE k == cand[c]
<1>1. MemTyped /\ CandTyped /\ IndexIsCurrent /\ k \in CandRow BY DEF MemInv, CandTyped
<1>2. k.op # "create" => Live(k.target) /\ k.target \in DOMAIN mem BY DEF Applicable, TargetFits, Live
<1>3. CASE k.op = "retract"
  <2>1. k.target \in DOMAIN mem /\ mem[k.target] \in Row BY <1>1, <1>2, <1>3 DEF MemTyped
  <2>2. mem' = [mem EXCEPT ![k.target] = [mem[k.target] EXCEPT !.status = "retracted", !.pinned = FALSE]]
    BY <1>1, <1>3, <2>1 DEF ApplyCandidate, MemTyped
  <2>3. mem'[k.target].status = "retracted" BY <1>1, <2>1, <2>2 DEF MemTyped, Row
  <2> QED BY <1>2, <1>3, <2>3
<1>4. CASE k.op # "retract"
  <2> DEFINE i == NewId
             r == [owner |-> k.flow, scope |-> k.scope, key |-> k.key, body |-> k.body, path |-> NoPath,
                   status |-> "active", pinned |-> FALSE, sup |-> k.target, dead |-> FALSE]
  <2>1. FreshIds # {} /\ WriteCanonical(i, r) BY <1>4 DEF ApplyCandidate
  <2>2. i \in FreshIds /\ i \in Ids /\ i \notin DOMAIN mem BY <2>1, NewIdIsFresh, FreshIsUnknown
  <2>3. k.target \in DOMAIN mem \cup {None} BY <1>1 DEF Applicable, TargetFits, Live
  <2>4. Reviewed \in Flows BY ReviewedHasScopes
  <2>5. r \in Row BY <1>1, <2>4 DEF Row, CandRow, Keys, Statuses
  <2>6. r.sup = k.target /\ r.status = "active" /\ r.body = k.body /\ r.scope = k.scope /\ r.key = k.key OBVIOUS
  <2> HIDE DEF i, r
  <2>7. Adds(i, r) BY <1>1, <2>1, <2>2, <2>3, <2>5, <2>6, WriteCanonicalDoes
  <2>8. i \in DOMAIN mem' \ DOMAIN mem /\ mem'[i] = r BY <2>2, <2>7 DEF Adds
  <2>9. \A j \in DOMAIN mem : mem[j].status = "active" /\ mem[j].scope = k.scope /\ mem[j].key = k.key => mem[j].body # k.body
    BY DEF Applicable, Duplicates
  <2>10. ASSUME k.op # "create" PROVE mem'[k.target].status = "superseded"
    <3>1. k.target \in DOMAIN mem /\ mem[k.target] \in Row BY <1>1, <1>2, <2>10 DEF MemTyped
    <3>2. mem'[k.target] = Replaced(mem[k.target]) BY <2>6, <2>7, <3>1 DEF Adds
    <3> QED BY <3>1, <3>2, ReplacedKeeps
  <2> QED BY <1>2, <1>4, <2>6, <2>8, <2>9, <2>10
<1> QED BY <1>3, <1>4

\* Only an approval turns a pending candidate into an approved one.
LEMMA ApprovalIsSoundStep == ASSUME Hypotheses, MemInv, [Next]_memVars PROVE ApprovalIsSound
<1>1. CandTyped /\ TaskTyped /\ cand \in [DOMAIN cand -> CandRow] BY DEF MemInv, CandTyped
<1>2. ASSUME \A c \in DOMAIN cand \cap DOMAIN cand' : cand'[c].status # "approved" \/ cand'[c].status = cand[c].status
      PROVE  ApprovalIsSound
  BY <1>2 DEF ApprovalIsSound
<1>3. ASSUME NEW S, NEW C \in SUBSET DOMAIN cand,
             cand' = [c \in C |-> IF cand[c].target \in S THEN [cand[c] EXCEPT !.target = None] ELSE cand[c]]
      PROVE  ApprovalIsSound
  <2>1. ASSUME NEW c \in C PROVE cand'[c].status = cand[c].status
    <3>1. cand[c] \in CandRow BY <1>1
    <3> QED BY <1>3, <3>1 DEF CandRow
  <2>2. DOMAIN cand' = C BY <1>3
  <2> QED BY <1>2, <2>1, <2>2
<1>4. CASE UNCHANGED cand
  BY <1>2, <1>4
<1>5. ASSUME NEW w \in Flows, NEW i \in DOMAIN mem, DeleteMemory(w, i) PROVE ApprovalIsSound
  <2>1. cand' = [c \in DOMAIN cand |-> IF cand[c].target \in {i} THEN [cand[c] EXCEPT !.target = None] ELSE cand[c]]
    BY <1>5 DEF DeleteMemory
  <2> QED BY <1>3, <2>1
<1>6. ASSUME NEW w \in Flows, ClearMemories(w) PROVE ApprovalIsSound
  BY <1>3, <1>6 DEF ClearMemories
<1>7. ASSUME NEW w \in Flows, DeleteWorkflow(w) PROVE ApprovalIsSound
  BY <1>3, <1>7 DEF DeleteWorkflow
<1>8. ASSUME NEW d \in DOMAIN cand, EditCandidate(d) PROVE ApprovalIsSound
  <2>1. PICK b \in Bodies, s \in Scopes :
          cand' = [cand EXCEPT ![d].body = b, ![d].scope = s, ![d].key = ScopeKey(cand[d].flow, s)]
    BY <1>8 DEF EditCandidate
  <2>2. \A c \in DOMAIN cand : cand'[c].status = cand[c].status BY <1>1, <2>1 DEF CandRow
  <2> QED BY <1>2, <2>2
<1>9. ASSUME NEW d \in DOMAIN cand, RejectCandidate(d) PROVE ApprovalIsSound
  <2>1. CASE cand' = [cand EXCEPT ![d].status = "rejected"]
    <3>1. \A c \in DOMAIN cand : cand'[c].status = "rejected" \/ cand'[c] = cand[c] BY <1>1, <2>1 DEF CandRow
    <3> QED BY <1>2, <3>1
  <2>2. CASE cand' = [e \in {x \in DOMAIN cand : cand[x].status = "pending"} |-> cand[e]]
    BY <1>2, <2>2
  <2> QED BY <1>9, <2>1, <2>2 DEF RejectCandidate
<1>10. ASSUME NEW t \in Reviewers, FinalizeReview(t) PROVE ApprovalIsSound
  <2>1. \A c \in DOMAIN cand : cand'[c] = cand[c] BY <1>1, <1>10, FinalizeDoes
  <2> QED BY <1>2, <2>1
<1>11. ASSUME NEW d \in DOMAIN cand, ApproveCandidate(d) PROVE ApprovalIsSound
  <2>1. CASE ~Applicable(d) /\ cand' = [cand EXCEPT ![d].status = "blocked"]
    <3>1. \A c \in DOMAIN cand : cand'[c].status = "blocked" \/ cand'[c] = cand[c] BY <1>1, <2>1 DEF CandRow
    <3> QED BY <1>2, <3>1
  <2>2. CASE Applicable(d) /\ ApplyCandidate(d) /\ cand' = [cand EXCEPT ![d].status = "approved"]
    <3>1. \A c \in DOMAIN cand \cap DOMAIN cand' : cand[c].status = "pending" /\ cand'[c].status = "approved" => c = d
      BY <1>1, <2>2
    <3> QED BY <2>2, <3>1, ApprovalWrites DEF ApprovalIsSound
  <2> QED BY <1>11, <2>1, <2>2 DEF ApproveCandidate
<1> HIDE DEF ApprovalIsSound
<1> QED BY <1>4, <1>5, <1>6, <1>7, <1>8, <1>9, <1>10, <1>11, CandidatesMove

-----------------------------------------------------------------------------
(* The promises.                                                           *)

LEMMA MemStarts == ASSUME Hypotheses, Init PROVE MemInv
<1>1. Seed \in Ids /\ Short \in Bodies \ Spilled BY DEF Seed, Short, Hypotheses
<1>2. Reviewed \in Flows BY ReviewedHasScopes
<1>3. MaxOps \in Nat /\ MaxFaults \in Nat /\ Cardinality(Cands) \in Nat BY FS_CardinalityType DEF Hypotheses
<1> DEFINE r == [owner |-> Reviewed, scope |-> "workflow", key |-> Reviewed, body |-> Short, path |-> NoPath,
                 status |-> "active", pinned |-> TRUE, sup |-> None, dead |-> FALSE]
<1>4. r \in Row /\ r.path = NoPath /\ r.body = Short /\ r.status = "active" BY <1>1, <1>2 DEF Row, Scopes, Statuses
<1>5. mem = [i \in {Seed} |-> r] /\ index = [i \in {Seed} |-> Short] BY DEF Init
<1> HIDE DEF r
<1>6. MemTyped /\ PathsAreOwn /\ IndexIsCurrent /\ PinnedIsActive
  BY <1>1, <1>4, <1>5 DEF MemTyped, PathsAreOwn, IndexIsCurrent, PinnedIsActive
<1>7. files = [p \in {} |-> None] /\ DOMAIN files = {} BY DEF Init
<1>8. FilesTyped /\ FilesMatchRows BY <1>4, <1>5, <1>7 DEF FilesTyped, FilesMatchRows
<1>9. cand = [c \in {} |-> None] /\ DOMAIN cand = {} BY DEF Init
<1>10. CandTyped /\ CandidatesOfCompleted BY <1>9 DEF CandTyped, CandidatesOfCompleted
<1>11. TaskTyped /\ ClaimedOnce BY DEF Init, Resting, TaskTyped, Task, Places, ClaimedOnce, Busy
<1>12. RecallTyped /\ RecallIsTraced BY DEF Init, RecallTyped, Recall, RecallIsTraced
<1>13. RestTyped /\ CountTyped BY <1>3 DEF Init, RestTyped, CountTyped
<1> QED BY <1>6, <1>8, <1>10, <1>11, <1>12, <1>13 DEF MemInv

LEMMA MemSteps == ASSUME Hypotheses, MemInv, [Next]_memVars PROVE MemInv'
<1>1. MemTyped' /\ CandTyped' /\ TaskTyped' /\ RecallTyped' /\ FilesTyped' /\ RestTyped' /\ CountTyped'
  BY MemTypedStep, CandTypedStep, TaskTypedStep, RecallStep, FilesTypedStep, RestTypedStep, CountTypedStep
<1>2. PathsAreOwn' /\ ClaimedOnce' BY PathsAreOwnStep, ClaimedOnceStep
<1>3. IndexIsCurrent' /\ FilesMatchRows' /\ PinnedIsActive' /\ RecallIsTraced' /\ CandidatesOfCompleted'
  BY IndexIsCurrentStep, FilesMatchRowsStep, PinnedIsActiveStep, RecallStep, CandidatesOfCompletedStep
<1> QED BY <1>1, <1>2, <1>3 DEF MemInv

\* A set of which any two members are the same has at most one.
LEMMA OneReviewerHolds == ASSUME MemInv PROVE OneReviewer
<1> DEFINE B == {t \in Reviewers : task[t].at \notin {"rest", "claim"}}
<1>1. \A t, u \in B : t = u BY DEF MemInv, ClaimedOnce, Busy
<1> HIDE DEF B
<1>2. Cardinality(B) <= 1
  <2>1. CASE B = {}
    <3>1. Cardinality(B) = 0 BY <2>1, FS_EmptySet
    <3> QED BY <3>1
  <2>2. CASE B # {}
    <3>1. PICK t \in B : TRUE BY <2>2
    <3>2. B = {t} BY <1>1, <3>1
    <3>3. Cardinality(B) = 1 BY <3>2, FS_Singleton
    <3> QED BY <3>3
  <2> QED BY <2>1, <2>2
<1> QED BY <1>2 DEF OneReviewer, B

\* What the invariant says of the variables.
LEMMA MemTypeHolds == ASSUME MemInv PROVE TypeOK
<1>1. flows \subseteq Flows /\ DOMAIN mem \subseteq Ids /\ \A i \in DOMAIN mem : mem[i] \in Row
  BY DEF MemInv, MemTyped, RestTyped
<1>2. DOMAIN index \subseteq Ids /\ \A i \in DOMAIN index : index[i] \in Bodies
  BY <1>1 DEF MemInv, IndexIsCurrent, Row
<1>3. DOMAIN files \subseteq Flows \X Ids /\ links \subseteq Flows \X Ids BY DEF MemInv, FilesTyped, RestTyped
<1>4. /\ DOMAIN cand \subseteq Cands
      /\ \A c \in DOMAIN cand : cand[c].status \in {"pending", "approved", "rejected", "blocked"}
  BY DEF MemInv, CandTyped, CandRow, Decisions
<1>5. \A t \in Reviewers : task[t].at \in {"rest", "claim", "gather", "ask", "validate", "finalize", "fail"}
  BY DEF MemInv, TaskTyped, Task, Places
<1>6. recall.at \in {"no", "started", "retrieved", "prompted", "over"} BY DEF MemInv, RecallTyped, Recall
<1> QED BY <1>1, <1>2, <1>3, <1>4, <1>5, <1>6 DEF TypeOK, MemInv, RestTyped, CountTyped

\* Every table, file, candidate and review holds what it is declared to hold.
THEOREM MemoriesTypeOK == ASSUME Hypotheses PROVE Spec => []TypeOK
<1>1. Init => MemInv BY MemStarts
<1>2. MemInv /\ [Next]_memVars => MemInv' BY MemSteps
<1>3. MemInv => TypeOK BY MemTypeHolds
<1> QED BY <1>1, <1>2, <1>3, PTL DEF Spec

\* Whatever is edited, replaced, retracted or deleted, the search index has exactly the memories
\* there are with the text they have, and every file is that of the memory that names it (history.rs;
\* memories.rs, update_memory; workflows.rs, delete_workflow).
THEOREM MemoriesAreFound == ASSUME Hypotheses PROVE Spec => [](IndexIsCurrent /\ FilesMatchRows)
<1>1. Init => MemInv BY MemStarts
<1>2. MemInv /\ [Next]_memVars => MemInv' BY MemSteps
<1>3. MemInv => IndexIsCurrent /\ FilesMatchRows BY DEF MemInv
<1> QED BY <1>1, <1>2, <1>3, PTL DEF Spec

\* What a run is given is active if it is pinned, and recorded if it is recalled, although memories
\* may go between the search and the record (runner/mod.rs, prepare_agent_prompt).
THEOREM RecallIsRecorded == ASSUME Hypotheses PROVE Spec => [](PinnedIsActive /\ RecallIsTraced)
<1>1. Init => MemInv BY MemStarts
<1>2. MemInv /\ [Next]_memVars => MemInv' BY MemSteps
<1>3. MemInv => PinnedIsActive /\ RecallIsTraced BY DEF MemInv
<1> QED BY <1>1, <1>2, <1>3, PTL DEF Spec

\* However often a review is scheduled, retried and overtaken by a deletion, one task works on it, and
\* candidates are there only when it completed (memory_curation.rs, claim_memory_review and
\* finalize_review_success).
THEOREM ReviewsAreExclusive == ASSUME Hypotheses PROVE Spec => [](OneReviewer /\ CandidatesOfCompleted)
<1>1. Init => MemInv BY MemStarts
<1>2. MemInv /\ [Next]_memVars => MemInv' BY MemSteps
<1>3. MemInv => OneReviewer /\ CandidatesOfCompleted BY OneReviewerHolds DEF MemInv
<1> QED BY <1>1, <1>2, <1>3, PTL DEF Spec

\* An approval replaces or retracts only what is live and in the candidate's scope when it is given,
\* and makes no second active memory of a text (memory_curation.rs, apply_approved_candidate).
THEOREM ApprovalsAreSound == ASSUME Hypotheses PROVE Spec => [][ApprovalIsSound]_memVars
<1>1. Init => MemInv BY MemStarts
<1>2. MemInv /\ [Next]_memVars => MemInv' BY MemSteps
<1>3. MemInv /\ [Next]_memVars => [ApprovalIsSound]_memVars BY ApprovalIsSoundStep
<1> QED BY <1>1, <1>2, <1>3, PTL DEF Spec

-----------------------------------------------------------------------------
(* The migrations of a start.                                              *)

CONSTANTS Runs, Notes, Accounts, Handed, Unrouted, MaxAhead
VARIABLES runs, steps, checked, notes, noteLinks, scoped, workflows, order, accounts, refs, contract, scratch, cleanup,
          secrets, noteIndex, stepIndex, marks, at, fk, todo

Migr == INSTANCE Migrations WITH flows <- workflows, links <- noteLinks

\* A database has finitely many workflows.
MigrHypotheses == IsFiniteSet(Flows) /\ MaxAhead \in Nat

\* The instance counts as this module does.
LEMMA MigrCardinality == \A S : Migr!Cardinality(S) = Cardinality(S)
BY DEF Migr!Cardinality, Cardinality, Migr!IsFiniteSet, IsFiniteSet

\* The rows to number are a sequence of rows.
LEMMA OrderingsAreSequences ==
  ASSUME MigrHypotheses, NEW S \in SUBSET Flows, NEW s \in Migr!Orderings(S)
  PROVE  s \in Seq(Flows) /\ Len(s) = Cardinality(S) /\ DOMAIN s = 1..Cardinality(S)
<1>1. IsFiniteSet(S) BY FS_Subset DEF MigrHypotheses
<1>2. Cardinality(S) \in Nat BY <1>1, FS_CardinalityType
<1>3. s \in [1..Cardinality(S) -> S] BY MigrCardinality DEF Migr!Orderings
<1> QED BY <1>2, <1>3

\* Every action keeps every variable in its type.
LEMMA TypeOKStep == ASSUME MigrHypotheses, Migr!TypeOK, [Migr!Next]_(Migr!vars) PROVE Migr!TypeOK'
<1> USE DEF Migr!TypeOK, Migr!runVars, Migr!noteVars, Migr!flowVars, Migr!accountVars, Migr!indexVars, Migr!Goto
<1>1. CASE Migr!Open
  BY <1>1 DEF Migr!Open, Migr!Places, Migr!Tables
<1>2. CASE Migr!TurnOff
  BY <1>2 DEF Migr!TurnOff
<1>3. ASSUME NEW t \in Migr!Tables, Migr!Rebuild(t) PROVE Migr!TypeOK'
  BY <1>3 DEF Migr!Rebuild
<1>4. ASSUME NEW t \in Migr!Tables, Migr!Pass(t) PROVE Migr!TypeOK'
  BY <1>4 DEF Migr!Pass, Migr!Places, Migr!Tables, Migr!After
<1>5. CASE Migr!CheckOrder
  <2>1. CASE todo' \in Migr!Orderings(workflows)
    BY <1>5, <2>1, OrderingsAreSequences DEF Migr!CheckOrder, Migr!Places
  <2>2. CASE UNCHANGED todo
    BY <1>5, <2>2 DEF Migr!CheckOrder, Migr!Places
  <2> QED BY <1>5, <2>1, <2>2 DEF Migr!CheckOrder
<1>6. CASE Migr!Number
  <2>1. Head(todo) \in Flows /\ Tail(todo) \in Seq(Flows) /\ Len(todo) \in Nat
    BY <1>6 DEF Migr!Number
  <2>2. Cardinality(workflows) \in Nat
    BY FS_Subset, FS_CardinalityType, MigrCardinality DEF MigrHypotheses
  <2> QED BY <1>6, <2>1, <2>2, MigrCardinality DEF Migr!Number
<1>7. CASE Migr!Numbered
  BY <1>7 DEF Migr!Numbered, Migr!Places
<1>8. CASE Migr!RebuildMemories
  BY <1>8 DEF Migr!RebuildMemories
<1>9. CASE Migr!PassMemories
  BY <1>9 DEF Migr!PassMemories, Migr!Places
<1>10. CASE Migr!RebuildSearch
  BY <1>10 DEF Migr!RebuildSearch, Migr!Places
<1>11. CASE Migr!MigrateAccounts
  BY <1>11 DEF Migr!MigrateAccounts, Migr!Places
<1>12. CASE Migr!Close
  <2>1. todo' \in Seq(Flows) BY <1>12 DEF Migr!Close
  <2> QED BY <1>12, <2>1 DEF Migr!Close, Migr!Places
<1>13. ASSUME NEW r \in Runs, Migr!AddRun(r) PROVE Migr!TypeOK'
  BY <1>13 DEF Migr!AddRun
<1>14. ASSUME NEW n \in Notes, Migr!AddNote(n) PROVE Migr!TypeOK'
  BY <1>14 DEF Migr!AddNote
<1>15. ASSUME NEW w \in Flows, Migr!AddFlow(w) PROVE Migr!TypeOK'
  BY <1>15 DEF Migr!AddFlow
<1>16. CASE Migr!Reorder
  BY <1>16, OrderingsAreSequences DEF Migr!Reorder, Migr!Places
<1>17. ASSUME NEW a \in Accounts, Migr!DeleteSecret(a) PROVE Migr!TypeOK'
  BY <1>17 DEF Migr!DeleteSecret
<1>18. ASSUME NEW a \in Accounts, Migr!DrainCleanup(a) PROVE Migr!TypeOK'
  BY <1>18 DEF Migr!DrainCleanup
<1>19. ASSUME NEW a \in Accounts, Migr!RemoveAccount(a) PROVE Migr!TypeOK'
  BY <1>19 DEF Migr!RemoveAccount
<1>20. CASE UNCHANGED Migr!vars
  BY <1>20 DEF Migr!vars
<1> QED BY <1>1, <1>2, <1>3, <1>4, <1>5, <1>6, <1>7, <1>8, <1>9, <1>10, <1>11, <1>12, <1>13, <1>14, <1>15, <1>16,
    <1>17, <1>18, <1>19, <1>20 DEF Migr!Next, Migr!Migrate, Migr!Use

\* A table is only dropped while foreign keys are not enforced.
LEMMA RowsKeepTheirOwnStep == ASSUME Migr!RowsKeepTheirOwn, [Migr!Next]_(Migr!vars) PROVE Migr!RowsKeepTheirOwn'
<1> USE DEF Migr!RowsKeepTheirOwn, Migr!runVars, Migr!noteVars, Migr!flowVars, Migr!accountVars, Migr!indexVars,
    Migr!Goto
<1>1. CASE Migr!Open
  BY <1>1 DEF Migr!Open
<1>2. CASE Migr!TurnOff
  BY <1>2 DEF Migr!TurnOff
<1>3. ASSUME NEW t \in Migr!Tables, Migr!Rebuild(t) PROVE Migr!RowsKeepTheirOwn'
  BY <1>3 DEF Migr!Rebuild
<1>4. ASSUME NEW t \in Migr!Tables, Migr!Pass(t) PROVE Migr!RowsKeepTheirOwn'
  BY <1>4 DEF Migr!Pass
<1>5. CASE Migr!CheckOrder
  BY <1>5 DEF Migr!CheckOrder
<1>6. CASE Migr!Number
  BY <1>6 DEF Migr!Number
<1>7. CASE Migr!Numbered
  BY <1>7 DEF Migr!Numbered
<1>8. CASE Migr!RebuildMemories
  BY <1>8 DEF Migr!RebuildMemories
<1>9. CASE Migr!PassMemories
  BY <1>9 DEF Migr!PassMemories
<1>10. CASE Migr!RebuildSearch
  BY <1>10 DEF Migr!RebuildSearch
<1>11. CASE Migr!MigrateAccounts
  BY <1>11 DEF Migr!MigrateAccounts
<1>12. CASE Migr!Close
  BY <1>12 DEF Migr!Close
<1>13. ASSUME NEW r \in Runs, Migr!AddRun(r) PROVE Migr!RowsKeepTheirOwn'
  BY <1>13 DEF Migr!AddRun
<1>14. ASSUME NEW n \in Notes, Migr!AddNote(n) PROVE Migr!RowsKeepTheirOwn'
  BY <1>14 DEF Migr!AddNote
<1>15. ASSUME NEW w \in Flows, Migr!AddFlow(w) PROVE Migr!RowsKeepTheirOwn'
  BY <1>15 DEF Migr!AddFlow
<1>16. CASE Migr!Reorder
  BY <1>16 DEF Migr!Reorder
<1>17. ASSUME NEW a \in Accounts, Migr!DeleteSecret(a) PROVE Migr!RowsKeepTheirOwn'
  BY <1>17 DEF Migr!DeleteSecret
<1>18. ASSUME NEW a \in Accounts, Migr!DrainCleanup(a) PROVE Migr!RowsKeepTheirOwn'
  BY <1>18 DEF Migr!DrainCleanup
<1>19. ASSUME NEW a \in Accounts, Migr!RemoveAccount(a) PROVE Migr!RowsKeepTheirOwn'
  BY <1>19 DEF Migr!RemoveAccount
<1>20. CASE UNCHANGED Migr!vars
  BY <1>20 DEF Migr!vars
<1> QED BY <1>1, <1>2, <1>3, <1>4, <1>5, <1>6, <1>7, <1>8, <1>9, <1>10, <1>11, <1>12, <1>13, <1>14, <1>15, <1>16,
    <1>17, <1>18, <1>19, <1>20 DEF Migr!Next, Migr!Migrate, Migr!Use

\* Writes go to the index too, and a rebuild fills it before its mark is set.
LEMMA SearchFindsAllStep ==
  ASSUME Migr!Progress, Migr!SearchFindsAll, [Migr!Next]_(Migr!vars)
  PROVE  Migr!SearchFindsAll'
<1> USE DEF Migr!SearchFindsAll, Migr!runVars, Migr!noteVars, Migr!flowVars, Migr!accountVars, Migr!indexVars,
    Migr!Goto
<1>1. CASE Migr!Open
  BY <1>1 DEF Migr!Open
<1>2. CASE Migr!TurnOff
  BY <1>2 DEF Migr!TurnOff
<1>3. ASSUME NEW t \in Migr!Tables, Migr!Rebuild(t) PROVE Migr!SearchFindsAll'
  BY <1>3 DEF Migr!Rebuild
<1>4. ASSUME NEW t \in Migr!Tables, Migr!Pass(t) PROVE Migr!SearchFindsAll'
  BY <1>4 DEF Migr!Pass, Migr!After, Migr!Tables
<1>5. CASE Migr!CheckOrder
  BY <1>5 DEF Migr!CheckOrder
<1>6. CASE Migr!Number
  BY <1>6 DEF Migr!Number
<1>7. CASE Migr!Numbered
  BY <1>7 DEF Migr!Numbered, Migr!Progress
<1>8. CASE Migr!RebuildMemories
  BY <1>8 DEF Migr!RebuildMemories, Migr!ScopedMark, Migr!SearchMark
<1>9. CASE Migr!PassMemories
  BY <1>9 DEF Migr!PassMemories, Migr!ScopedMark, Migr!SearchMark
<1>10. CASE Migr!RebuildSearch
  BY <1>10 DEF Migr!RebuildSearch, Migr!SearchMark
<1>11. CASE Migr!MigrateAccounts
  BY <1>11 DEF Migr!MigrateAccounts, Migr!Progress
<1>12. CASE Migr!Close
  BY <1>12 DEF Migr!Close
<1>13. ASSUME NEW r \in Runs, Migr!AddRun(r) PROVE Migr!SearchFindsAll'
  BY <1>13 DEF Migr!AddRun
<1>14. ASSUME NEW n \in Notes, Migr!AddNote(n) PROVE Migr!SearchFindsAll'
  BY <1>14 DEF Migr!AddNote
<1>15. ASSUME NEW w \in Flows, Migr!AddFlow(w) PROVE Migr!SearchFindsAll'
  BY <1>15 DEF Migr!AddFlow
<1>16. CASE Migr!Reorder
  BY <1>16 DEF Migr!Reorder
<1>17. ASSUME NEW a \in Accounts, Migr!DeleteSecret(a) PROVE Migr!SearchFindsAll'
  BY <1>17 DEF Migr!DeleteSecret
<1>18. ASSUME NEW a \in Accounts, Migr!DrainCleanup(a) PROVE Migr!SearchFindsAll'
  BY <1>18 DEF Migr!DrainCleanup
<1>19. ASSUME NEW a \in Accounts, Migr!RemoveAccount(a) PROVE Migr!SearchFindsAll'
  BY <1>19 DEF Migr!RemoveAccount
<1>20. CASE UNCHANGED Migr!vars
  BY <1>20 DEF Migr!vars
<1> QED BY <1>1, <1>2, <1>3, <1>4, <1>5, <1>6, <1>7, <1>8, <1>9, <1>10, <1>11, <1>12, <1>13, <1>14, <1>15, <1>16,
    <1>17, <1>18, <1>19, <1>20 DEF Migr!Next, Migr!Migrate, Migr!Use

\* A reference goes where its credential is still named, or the credential went before.
LEMMA SecretsAreReferencedStep ==
  ASSUME Migr!SecretsAreReferenced, [Migr!Next]_(Migr!vars)
  PROVE  Migr!SecretsAreReferenced'
<1> USE DEF Migr!SecretsAreReferenced, Migr!runVars, Migr!noteVars, Migr!flowVars, Migr!accountVars, Migr!indexVars,
    Migr!Goto
<1>1. CASE Migr!Open
  BY <1>1 DEF Migr!Open
<1>2. CASE Migr!TurnOff
  BY <1>2 DEF Migr!TurnOff
<1>3. ASSUME NEW t \in Migr!Tables, Migr!Rebuild(t) PROVE Migr!SecretsAreReferenced'
  BY <1>3 DEF Migr!Rebuild
<1>4. ASSUME NEW t \in Migr!Tables, Migr!Pass(t) PROVE Migr!SecretsAreReferenced'
  BY <1>4 DEF Migr!Pass
<1>5. CASE Migr!CheckOrder
  BY <1>5 DEF Migr!CheckOrder
<1>6. CASE Migr!Number
  BY <1>6 DEF Migr!Number
<1>7. CASE Migr!Numbered
  BY <1>7 DEF Migr!Numbered
<1>8. CASE Migr!RebuildMemories
  BY <1>8 DEF Migr!RebuildMemories
<1>9. CASE Migr!PassMemories
  BY <1>9 DEF Migr!PassMemories
<1>10. CASE Migr!RebuildSearch
  BY <1>10 DEF Migr!RebuildSearch
<1>11. CASE Migr!MigrateAccounts
  BY <1>11 DEF Migr!MigrateAccounts
<1>12. CASE Migr!Close
  BY <1>12 DEF Migr!Close
<1>13. ASSUME NEW r \in Runs, Migr!AddRun(r) PROVE Migr!SecretsAreReferenced'
  BY <1>13 DEF Migr!AddRun
<1>14. ASSUME NEW n \in Notes, Migr!AddNote(n) PROVE Migr!SecretsAreReferenced'
  BY <1>14 DEF Migr!AddNote
<1>15. ASSUME NEW w \in Flows, Migr!AddFlow(w) PROVE Migr!SecretsAreReferenced'
  BY <1>15 DEF Migr!AddFlow
<1>16. CASE Migr!Reorder
  BY <1>16 DEF Migr!Reorder
<1>17. ASSUME NEW a \in Accounts, Migr!DeleteSecret(a) PROVE Migr!SecretsAreReferenced'
  BY <1>17 DEF Migr!DeleteSecret
<1>18. ASSUME NEW a \in Accounts, Migr!DrainCleanup(a) PROVE Migr!SecretsAreReferenced'
  BY <1>18 DEF Migr!DrainCleanup
<1>19. ASSUME NEW a \in Accounts, Migr!RemoveAccount(a) PROVE Migr!SecretsAreReferenced'
  BY <1>19 DEF Migr!RemoveAccount
<1>20. CASE UNCHANGED Migr!vars
  BY <1>20 DEF Migr!vars
<1> QED BY <1>1, <1>2, <1>3, <1>4, <1>5, <1>6, <1>7, <1>8, <1>9, <1>10, <1>11, <1>12, <1>13, <1>14, <1>15, <1>16,
    <1>17, <1>18, <1>19, <1>20 DEF Migr!Next, Migr!Migrate, Migr!Use

\* The application is reached past every migration.
LEMMA OpenIsMigratedStep ==
  ASSUME Migr!TypeOK, Migr!Progress, Migr!OpenIsMigrated, [Migr!Next]_(Migr!vars)
  PROVE  Migr!OpenIsMigrated'
<1> USE DEF Migr!OpenIsMigrated, Migr!runVars, Migr!noteVars, Migr!flowVars, Migr!accountVars, Migr!indexVars,
    Migr!Goto
<1>1. CASE Migr!Open
  BY <1>1 DEF Migr!Open
<1>2. CASE Migr!TurnOff
  BY <1>2 DEF Migr!TurnOff, Migr!Progress, Migr!Tables, Migr!TypeOK
<1>3. ASSUME NEW t \in Migr!Tables, Migr!Rebuild(t) PROVE Migr!OpenIsMigrated'
  BY <1>3 DEF Migr!Rebuild
<1>4. ASSUME NEW t \in Migr!Tables, Migr!Pass(t) PROVE Migr!OpenIsMigrated'
  BY <1>4 DEF Migr!Pass, Migr!After, Migr!Tables
<1>5. CASE Migr!CheckOrder
  BY <1>5 DEF Migr!CheckOrder
<1>6. CASE Migr!Number
  BY <1>6 DEF Migr!Number
<1>7. CASE Migr!Numbered
  BY <1>7 DEF Migr!Numbered
<1>8. CASE Migr!RebuildMemories
  BY <1>8 DEF Migr!RebuildMemories
<1>9. CASE Migr!PassMemories
  BY <1>9 DEF Migr!PassMemories
<1>10. CASE Migr!RebuildSearch
  BY <1>10 DEF Migr!RebuildSearch, Migr!ScopedMark, Migr!SearchMark
<1>11. CASE Migr!MigrateAccounts
  BY <1>11 DEF Migr!MigrateAccounts, Migr!Progress
<1>12. CASE Migr!Close
  BY <1>12 DEF Migr!Close
<1>13. ASSUME NEW r \in Runs, Migr!AddRun(r) PROVE Migr!OpenIsMigrated'
  BY <1>13 DEF Migr!AddRun
<1>14. ASSUME NEW n \in Notes, Migr!AddNote(n) PROVE Migr!OpenIsMigrated'
  BY <1>14 DEF Migr!AddNote
<1>15. ASSUME NEW w \in Flows, Migr!AddFlow(w) PROVE Migr!OpenIsMigrated'
  BY <1>15 DEF Migr!AddFlow
<1>16. CASE Migr!Reorder
  BY <1>16 DEF Migr!Reorder
<1>17. ASSUME NEW a \in Accounts, Migr!DeleteSecret(a) PROVE Migr!OpenIsMigrated'
  BY <1>17 DEF Migr!DeleteSecret
<1>18. ASSUME NEW a \in Accounts, Migr!DrainCleanup(a) PROVE Migr!OpenIsMigrated'
  BY <1>18 DEF Migr!DrainCleanup
<1>19. ASSUME NEW a \in Accounts, Migr!RemoveAccount(a) PROVE Migr!OpenIsMigrated'
  BY <1>19 DEF Migr!RemoveAccount
<1>20. CASE UNCHANGED Migr!vars
  BY <1>20 DEF Migr!vars
<1> QED BY <1>1, <1>2, <1>3, <1>4, <1>5, <1>6, <1>7, <1>8, <1>9, <1>10, <1>11, <1>12, <1>13, <1>14, <1>15, <1>16,
    <1>17, <1>18, <1>19, <1>20 DEF Migr!Next, Migr!Migrate, Migr!Use

\* Each place is left when what it stands for is done.
LEMMA ProgressStep ==
  ASSUME Migr!TypeOK, Migr!OpenIsMigrated, Migr!Progress, [Migr!Next]_(Migr!vars)
  PROVE  Migr!Progress'
<1> USE DEF Migr!Progress, Migr!runVars, Migr!noteVars, Migr!flowVars, Migr!accountVars, Migr!indexVars, Migr!Goto
<1>1. CASE Migr!Open
  BY <1>1 DEF Migr!Open
<1>2. CASE Migr!TurnOff
  BY <1>2 DEF Migr!TurnOff, Migr!Tables, Migr!TypeOK
<1>3. ASSUME NEW t \in Migr!Tables, Migr!Rebuild(t) PROVE Migr!Progress'
  BY <1>3 DEF Migr!Rebuild, Migr!Tables
<1>4. ASSUME NEW t \in Migr!Tables, Migr!Pass(t) PROVE Migr!Progress'
  BY <1>4 DEF Migr!Pass, Migr!After, Migr!Tables, Migr!TypeOK
<1>5. CASE Migr!CheckOrder
  BY <1>5 DEF Migr!CheckOrder
<1>6. CASE Migr!Number
  BY <1>6 DEF Migr!Number
<1>7. CASE Migr!Numbered
  BY <1>7 DEF Migr!Numbered
<1>8. CASE Migr!RebuildMemories
  BY <1>8 DEF Migr!RebuildMemories, Migr!Tables
<1>9. CASE Migr!PassMemories
  BY <1>9 DEF Migr!PassMemories, Migr!OpenIsMigrated
<1>10. CASE Migr!RebuildSearch
  BY <1>10 DEF Migr!RebuildSearch
<1>11. CASE Migr!MigrateAccounts
  BY <1>11 DEF Migr!MigrateAccounts
<1>12. CASE Migr!Close
  BY <1>12 DEF Migr!Close
<1>13. ASSUME NEW r \in Runs, Migr!AddRun(r) PROVE Migr!Progress'
  BY <1>13 DEF Migr!AddRun
<1>14. ASSUME NEW n \in Notes, Migr!AddNote(n) PROVE Migr!Progress'
  BY <1>14 DEF Migr!AddNote
<1>15. ASSUME NEW w \in Flows, Migr!AddFlow(w) PROVE Migr!Progress'
  BY <1>15 DEF Migr!AddFlow
<1>16. CASE Migr!Reorder
  BY <1>16 DEF Migr!Reorder
<1>17. ASSUME NEW a \in Accounts, Migr!DeleteSecret(a) PROVE Migr!Progress'
  BY <1>17 DEF Migr!DeleteSecret
<1>18. ASSUME NEW a \in Accounts, Migr!DrainCleanup(a) PROVE Migr!Progress'
  BY <1>18 DEF Migr!DrainCleanup
<1>19. ASSUME NEW a \in Accounts, Migr!RemoveAccount(a) PROVE Migr!Progress'
  BY <1>19 DEF Migr!RemoveAccount
<1>20. CASE UNCHANGED Migr!vars
  BY <1>20 DEF Migr!vars
<1> QED BY <1>1, <1>2, <1>3, <1>4, <1>5, <1>6, <1>7, <1>8, <1>9, <1>10, <1>11, <1>12, <1>13, <1>14, <1>15, <1>16,
    <1>17, <1>18, <1>19, <1>20 DEF Migr!Next, Migr!Migrate, Migr!Use

\* Each update gives the next place to a row that has none yet.
LEMMA NumberingStep ==
  ASSUME MigrHypotheses, Migr!TypeOK, Migr!NumberedApart, Migr!Numbering, [Migr!Next]_(Migr!vars)
  PROVE  (Migr!NumberedApart /\ Migr!Numbering)'
<1> USE DEF Migr!NumberedApart, Migr!Numbering, Migr!Waiting, Migr!runVars, Migr!noteVars, Migr!flowVars,
    Migr!accountVars, Migr!indexVars, Migr!Goto
<1>1. CASE Migr!Open
  BY <1>1 DEF Migr!Open
<1>2. CASE Migr!TurnOff
  BY <1>2 DEF Migr!TurnOff
<1>3. ASSUME NEW t \in Migr!Tables, Migr!Rebuild(t) PROVE (Migr!NumberedApart /\ Migr!Numbering)'
  BY <1>3 DEF Migr!Rebuild
<1>4. ASSUME NEW t \in Migr!Tables, Migr!Pass(t) PROVE (Migr!NumberedApart /\ Migr!Numbering)'
  BY <1>4 DEF Migr!Pass, Migr!After, Migr!Tables
<1>5. CASE Migr!CheckOrder
  <2>1. CASE todo' \in Migr!Orderings(workflows) /\ workflows' = workflows
    BY <2>1 DEF Migr!Orderings
  <2>2. CASE at' = "memories"
    BY <2>2
  <2> QED BY <1>5, <2>1, <2>2 DEF Migr!CheckOrder
<1>6. CASE Migr!Number
  <2> DEFINE h == Head(todo)
             place == Cardinality(workflows) - Len(todo)
  <2>1. /\ todo \in Seq(Flows) /\ todo # <<>> /\ order \in [Flows -> Int] /\ workflows \subseteq Flows
        /\ at \in {"number", "reorder"} /\ workflows' = workflows
        /\ order' = [order EXCEPT ![h] = place] /\ todo' = Tail(todo)
    BY <1>6, MigrCardinality DEF Migr!Number, Migr!TypeOK
  <2>2. Cardinality(workflows) \in Nat
    BY <2>1, FS_Subset, FS_CardinalityType, MigrCardinality DEF MigrHypotheses
  <2>3. /\ h = todo[1] /\ h \in Flows /\ Len(todo) \in Nat /\ Len(todo') = Len(todo) - 1
        /\ DOMAIN todo = 1..Len(todo) /\ DOMAIN todo' = 1..(Len(todo) - 1)
        /\ \A i \in DOMAIN todo' : todo'[i] = todo[i + 1]
    BY <2>1
  <2>4. \A i, j \in DOMAIN todo' : i # j => todo'[i] # todo'[j]
    <3> SUFFICES ASSUME NEW i \in DOMAIN todo', NEW j \in DOMAIN todo', i # j
                 PROVE  todo'[i] # todo'[j]
      OBVIOUS
    <3>1. i \in Nat /\ j \in Nat /\ i + 1 \in DOMAIN todo /\ j + 1 \in DOMAIN todo BY <2>3
    <3>2. todo[i + 1] # todo[j + 1] BY <2>1, <3>1
    <3> QED BY <2>3, <3>2
  <2>5. ASSUME NEW w \in workflows \ Migr!Waiting' PROVE w = h \/ w \in workflows \ Migr!Waiting
    <3>1. SUFFICES ASSUME w # h, NEW i \in DOMAIN todo, todo[i] = w PROVE FALSE
      OBVIOUS
    <3>2. i - 1 \in DOMAIN todo' /\ todo'[i - 1] = w
      BY <3>1, <2>3
    <3> QED BY <3>2
  <2>6. ASSUME NEW w \in workflows \ Migr!Waiting', w # h
        PROVE w \in workflows \ Migr!Waiting /\ order'[w] = order[w] /\ order[w] < place /\ order[w] \in Int
    BY <2>1, <2>5, <2>6, MigrCardinality
  <2>7. order'[h] = place /\ place \in Int /\ Cardinality(workflows') - Len(todo') = place + 1
    BY <2>1, <2>2, <2>3
  <2>8. \A w \in workflows' \ Migr!Waiting' : order'[w] < Cardinality(workflows') - Len(todo')
    <3> SUFFICES ASSUME NEW w \in workflows \ Migr!Waiting' PROVE order'[w] < place + 1
      BY <2>1, <2>7
    <3>1. CASE w = h BY <3>1, <2>7
    <3>2. CASE w # h BY <3>2, <2>6, <2>7
    <3> QED BY <3>1, <3>2
  <2>9. \A v, w \in workflows' \ Migr!Waiting' : v # w => order'[v] # order'[w]
    <3> SUFFICES ASSUME NEW v \in workflows \ Migr!Waiting', NEW w \in workflows \ Migr!Waiting', v # w
                 PROVE  order'[v] # order'[w]
      BY <2>1
    <3>1. CASE v = h BY <3>1, <2>6, <2>7
    <3>2. CASE w = h BY <3>2, <2>6, <2>7
    <3>3. CASE v # h /\ w # h BY <3>3, <2>1, <2>6
    <3> QED BY <3>1, <3>2, <3>3
  <2> QED BY <2>4, <2>8, <2>9, MigrCardinality
<1>7. CASE Migr!Numbered
  BY <1>7 DEF Migr!Numbered
<1>8. CASE Migr!RebuildMemories
  BY <1>8 DEF Migr!RebuildMemories
<1>9. CASE Migr!PassMemories
  BY <1>9 DEF Migr!PassMemories
<1>10. CASE Migr!RebuildSearch
  BY <1>10 DEF Migr!RebuildSearch
<1>11. CASE Migr!MigrateAccounts
  BY <1>11 DEF Migr!MigrateAccounts
<1>12. CASE Migr!Close
  BY <1>12 DEF Migr!Close
<1>13. ASSUME NEW r \in Runs, Migr!AddRun(r) PROVE (Migr!NumberedApart /\ Migr!Numbering)'
  BY <1>13 DEF Migr!AddRun
<1>14. ASSUME NEW n \in Notes, Migr!AddNote(n) PROVE (Migr!NumberedApart /\ Migr!Numbering)'
  BY <1>14 DEF Migr!AddNote
<1>15. ASSUME NEW w \in Flows, Migr!AddFlow(w) PROVE (Migr!NumberedApart /\ Migr!Numbering)'
  BY <1>15 DEF Migr!AddFlow
<1>16. CASE Migr!Reorder
  <2>1. todo' \in Migr!Orderings(workflows) /\ workflows' = workflows
    BY <1>16 DEF Migr!Reorder
  <2> QED BY <2>1 DEF Migr!Orderings
<1>17. ASSUME NEW a \in Accounts, Migr!DeleteSecret(a) PROVE (Migr!NumberedApart /\ Migr!Numbering)'
  BY <1>17 DEF Migr!DeleteSecret
<1>18. ASSUME NEW a \in Accounts, Migr!DrainCleanup(a) PROVE (Migr!NumberedApart /\ Migr!Numbering)'
  BY <1>18 DEF Migr!DrainCleanup
<1>19. ASSUME NEW a \in Accounts, Migr!RemoveAccount(a) PROVE (Migr!NumberedApart /\ Migr!Numbering)'
  BY <1>19 DEF Migr!RemoveAccount
<1>20. CASE UNCHANGED Migr!vars
  BY <1>20 DEF Migr!vars
<1> QED BY <1>1, <1>2, <1>3, <1>4, <1>5, <1>6, <1>7, <1>8, <1>9, <1>10, <1>11, <1>12, <1>13, <1>14, <1>15, <1>16,
    <1>17, <1>18, <1>19, <1>20 DEF Migr!Next, Migr!Migrate, Migr!Use

\* What holds at every point of a start, and of what follows it.
MigrInv ==
  /\ Migr!TypeOK /\ Migr!RowsKeepTheirOwn /\ Migr!SearchFindsAll /\ Migr!SecretsAreReferenced /\ Migr!OpenIsMigrated
  /\ Migr!NumberedApart /\ Migr!Progress /\ Migr!Numbering

\* What an earlier release leaves has every part of the invariant.
LEMMA MigrStarts == ASSUME MigrHypotheses, Migr!Init PROVE MigrInv
<1> USE DEF Migr!Init
<1>1. Migr!TypeOK
  <2>1. todo \in Seq(Flows) OBVIOUS
  <2>2. order \in [Flows -> Int] OBVIOUS
  <2>3. marks \in SUBSET {Migr!ScopedMark, Migr!SearchMark} OBVIOUS
  <2> QED BY <2>1, <2>2, <2>3 DEF Migr!TypeOK, Migr!Places
<1>2. Migr!RowsKeepTheirOwn /\ Migr!SecretsAreReferenced BY DEF Migr!RowsKeepTheirOwn, Migr!SecretsAreReferenced
<1>3. Migr!SearchFindsAll BY DEF Migr!SearchFindsAll
<1>4. Migr!OpenIsMigrated BY DEF Migr!OpenIsMigrated, Migr!ScopedMark, Migr!SearchMark
<1>5. Migr!NumberedApart /\ Migr!Progress /\ Migr!Numbering BY DEF Migr!NumberedApart, Migr!Progress, Migr!Numbering
<1> QED BY <1>1, <1>2, <1>3, <1>4, <1>5 DEF MigrInv

\* Every step of a start and of the open application keeps them together.
LEMMA MigrSteps == ASSUME MigrHypotheses, MigrInv, [Migr!Next]_(Migr!vars) PROVE MigrInv'
BY TypeOKStep, RowsKeepTheirOwnStep, SearchFindsAllStep, SecretsAreReferencedStep, OpenIsMigratedStep,
   ProgressStep, NumberingStep DEF MigrInv

\* However often starts are interrupted, every variable keeps its type.
THEOREM MigrationsTypeOK == ASSUME MigrHypotheses PROVE Migr!Spec => []Migr!TypeOK
<1>1. Migr!Init => MigrInv BY MigrStarts
<1>2. MigrInv /\ [Migr!Next]_(Migr!vars) => MigrInv' BY MigrSteps
<1>3. MigrInv => Migr!TypeOK BY DEF MigrInv
<1> QED BY <1>1, <1>2, <1>3, PTL DEF Migr!Spec

\* Of any database, whatever interrupts the starts that rebuild its tables: every run keeps its
\* steps and every memory its links, the search finds them all, no credential is left that nothing
\* refers to, and the application only ever works on tables in their last shape.
THEOREM StartsLoseNothingOfTheirs ==
  ASSUME MigrHypotheses
  PROVE  Migr!Spec => [](Migr!RowsKeepTheirOwn /\ Migr!SearchFindsAll /\ Migr!SecretsAreReferenced /\ Migr!OpenIsMigrated)
<1>1. Migr!Init => MigrInv BY MigrStarts
<1>2. MigrInv /\ [Migr!Next]_(Migr!vars) => MigrInv' BY MigrSteps
<1>3. MigrInv => Migr!RowsKeepTheirOwn /\ Migr!SearchFindsAll /\ Migr!SecretsAreReferenced /\ Migr!OpenIsMigrated
  BY DEF MigrInv
<1> QED BY <1>1, <1>2, <1>3, PTL DEF Migr!Spec

\* A numbering of any number of workflows gives no place twice, at no point of it.
THEOREM PlacesAreDistinct == ASSUME MigrHypotheses PROVE Migr!Spec => []Migr!NumberedApart
<1>1. Migr!Init => MigrInv BY MigrStarts
<1>2. MigrInv /\ [Migr!Next]_(Migr!vars) => MigrInv' BY MigrSteps
<1>3. MigrInv => Migr!NumberedApart BY DEF MigrInv
<1> QED BY <1>1, <1>2, <1>3, PTL DEF Migr!Spec
=============================================================================
