------------------------ MODULE RuntimePackagesProofs ------------------------
(***************************************************************************)
(* The store of runtime packages, for any versions and any number of       *)
(* retained records, through any crashes, failures and damages.            *)
(***************************************************************************)
EXTENDS RuntimePackages, FiniteSetTheorems, TLAPS

\* "none" is no version, and at least one record is kept.
Hypotheses ==
  /\ NoVersion \notin Versions
  /\ Retain \in Nat \ {0} /\ MaxGen \in Nat

\* A set of records that are numbered apart and have a newest.
IsHistory(s) ==
  /\ IsFiniteSet(s) /\ s \subseteq Record
  /\ \A q, r \in s : q.gen = r.gen => q = r
  /\ s # {} => \E r \in s : \A q \in s : q.gen <= r.gen

NewestOf(s) == IF s = {} THEN NoRecord ELSE CHOOSE r \in s : \A q \in s : q.gen <= r.gen

Typed ==
  /\ TypeOK
  /\ dir \in [Versions -> {"absent", "good", "digest", "manifest"}]
  /\ at \in {"idle", "recover", "prune", "aside", "copy", "manifest", "rename", "discard", "read",
             "tmp", "commit", "versions"}
  /\ \A r \in records : r.previous # r.active

Inv == Typed /\ History /\ Installing /\ ActiveIsOnDisk /\ PreviousIsOnDisk

-----------------------------------------------------------------------------
(* Histories *)

\* The newest record is one of the records, and none is newer.
LEMMA NewestIs ==
  ASSUME Hypotheses, NEW s, IsHistory(s)
  PROVE  /\ s = {} => NewestOf(s) = NoRecord
         /\ s # {} => (NewestOf(s) \in s /\ \A q \in s : q.gen <= NewestOf(s).gen)
         /\ NewestOf(s).gen \in Nat
         /\ \A q \in s : q.gen \in Nat /\ q.gen <= NewestOf(s).gen
<1>1. CASE s = {}
  BY <1>1 DEF NewestOf, NoRecord
<1>2. CASE s # {}
  <2>1. \E r \in s : \A q \in s : q.gen <= r.gen BY <1>2 DEF IsHistory
  <2>2. NewestOf(s) \in s /\ \A q \in s : q.gen <= NewestOf(s).gen
    BY <1>2, <2>1 DEF NewestOf
  <2>3. \A q \in s : q.gen \in Nat BY DEF IsHistory, Record, Hypotheses
  <2> QED BY <1>2, <2>2, <2>3
<1> QED BY <1>1, <1>2

\* A record that none exceeds is the newest.
LEMMA NewestIsUnique ==
  ASSUME Hypotheses, NEW s, IsHistory(s), NEW r \in s, \A q \in s : q.gen <= r.gen
  PROVE  NewestOf(s) = r
<1>1. NewestOf(s) \in s /\ r.gen <= NewestOf(s).gen /\ NewestOf(s).gen <= r.gen
  BY NewestIs
<1>2. r.gen = NewestOf(s).gen
  BY <1>1, NewestIs DEF IsHistory, Record, Hypotheses
<1> QED BY <1>1, <1>2 DEF IsHistory

\* prune_activation_records keeps a history, its newest record, and at most as many as it may.
LEMMA PruningKeeps ==
  ASSUME Hypotheses, NEW s, IsHistory(s)
  PROVE  /\ IsHistory(PruneRecords(s)) /\ NewestOf(PruneRecords(s)) = NewestOf(s)
         /\ PruneRecords(s) \subseteq s /\ Cardinality(PruneRecords(s)) <= Retain
<1> DEFINE Newer(r) == {q \in s : q.gen > r.gen}
           p == PruneRecords(s)
<1>1. p \subseteq s /\ IsFiniteSet(p) /\ Cardinality(p) \in Nat
  BY FS_Subset, FS_CardinalityType DEF PruneRecords, IsHistory
<1>2. \A r \in s : IsFiniteSet(Newer(r)) /\ Cardinality(Newer(r)) \in Nat
  <2> TAKE r \in s
  <2>1. Newer(r) \in SUBSET s OBVIOUS
  <2> QED BY <2>1, FS_Subset, FS_CardinalityType DEF IsHistory
<1>3. \A r \in p : Cardinality(Newer(r)) < Retain
  BY DEF PruneRecords
<1>4. s # {} => NewestOf(s) \in p
  <2> SUFFICES ASSUME s # {} PROVE NewestOf(s) \in p
    OBVIOUS
  <2> DEFINE n == NewestOf(s)
  <2>1. n \in s /\ \A q \in s : q.gen \in Nat /\ q.gen <= n.gen BY NewestIs
  <2>2. Newer(n) = {} BY <2>1
  <2>3. Cardinality({}) < Retain BY FS_EmptySet DEF Hypotheses
  <2>4. n \in s /\ Cardinality(Newer(n)) < Retain BY <2>1, <2>2, <2>3
  <2> QED BY <2>4 DEF PruneRecords
<1>5. IsHistory(p)
  <2>1. p # {} => \E r \in p : \A q \in p : q.gen <= r.gen
    BY <1>1, <1>4, NewestIs
  <2> QED BY <1>1, <2>1 DEF IsHistory
<1>6. NewestOf(p) = NewestOf(s)
  <2>1. CASE s = {} BY <2>1, <1>1 DEF NewestOf
  <2>2. CASE s # {} BY <2>2, <1>1, <1>4, <1>5, NewestIs, NewestIsUnique
  <2> QED BY <2>1, <2>2
<1>7. Cardinality(p) <= Retain
  <2> SUFFICES ASSUME ~(Cardinality(p) <= Retain) PROVE FALSE
    OBVIOUS
  <2> DEFINE T == 0..(Retain - 1)
             f == [r \in p |-> Cardinality(Newer(r))]
  <2>1. IsFiniteSet(T) /\ Cardinality(T) = Retain
    BY FS_Interval DEF Hypotheses
  <2>2. f \in [p -> T]
    <3>1. \A r \in p : Cardinality(Newer(r)) \in T
      <4> HIDE DEF Newer, p
      <4> QED BY <1>1, <1>2, <1>3 DEF Hypotheses
    <3> HIDE DEF Newer, p, T
    <3> QED BY <3>1
  <2>3. Cardinality(T) < Cardinality(p)
    BY <1>1, <2>1 DEF Hypotheses
  <2>4. PICK x \in p, y \in p : x # y /\ f[x] = f[y]
    <3> HIDE DEF f, T, p
    <3> QED BY <1>1, <2>1, <2>2, <2>3, FS_PigeonHole
  <2>5. x \in s /\ y \in s /\ x.gen # y.gen /\ x.gen \in Nat /\ y.gen \in Nat
    BY <1>1, <2>4, NewestIs DEF IsHistory
  <2>6. Cardinality(Newer(x)) = Cardinality(Newer(y))
    BY <2>4
  <2>7. ASSUME NEW a \in s, NEW b \in s, a.gen > b.gen, Cardinality(Newer(a)) = Cardinality(Newer(b))
        PROVE  FALSE
    <3>1. \A q \in s : q.gen \in Nat BY NewestIs
    <3>2. Newer(a) \in SUBSET Newer(b) BY <2>7, <3>1
    <3>3. a \in Newer(b) /\ a \notin Newer(a) BY <2>7, <3>1
    <3>4. IsFiniteSet(Newer(b)) BY <1>2
    <3> HIDE DEF Newer
    <3>5. Newer(a) = Newer(b) BY <2>7, <3>2, <3>4, FS_Subset
    <3> QED BY <3>3, <3>5
  <2> QED BY <2>5, <2>6, <2>7
<1> QED BY <1>1, <1>5, <1>6, <1>7

\* A record with the next number joins a history as its newest.
LEMMA NextJoins ==
  ASSUME Hypotheses, NEW s, IsHistory(s), NEW r \in Record, r.gen = NewestOf(s).gen + 1
  PROVE  IsHistory(s \cup {r}) /\ NewestOf(s \cup {r}) = r
<1>1. IsFiniteSet(s \cup {r}) /\ s \cup {r} \subseteq Record
  BY FS_AddElement DEF IsHistory
<1>2. \A q \in s : q.gen \in Nat /\ q.gen < r.gen
  BY NewestIs
<1>3. r.gen \in Nat
  BY NewestIs
<1>4. IsHistory(s \cup {r})
  BY <1>1, <1>2, <1>3 DEF IsHistory
<1> QED BY <1>2, <1>3, <1>4, NewestIsUnique

\* The same of the records on the disk.
LEMMA NewestRecord ==
  ASSUME Hypotheses, History
  PROVE  /\ IsHistory(records) /\ Newest = NewestOf(records) /\ Newest.gen \in Nat
         /\ Newest = NoRecord \/ (Newest \in records /\ Newest \in Record)
<1>1. IsHistory(records) /\ Newest = NewestOf(records) BY DEF History, IsHistory, Newest, NewestOf
<1> QED BY <1>1, NewestIs DEF IsHistory

-----------------------------------------------------------------------------
(* The steps of an installation *)

\* Only write_activation_record touches the records.
LEMMA SameRecords ==
  ASSUME [Next]_vars, ~ WriteTemporary, ~ CommitRecord
  PROVE  records' = records
BY DEF Next, vars, store, Done, Goto, Stage, Rollback, OpenActive, Damage, RecoverReplacement,
   RecoverUnreadable, NothingToRecover, PruneStaging, SetAside, CopyArtifacts, WriteManifest,
   RenameStaged, DiscardAside, StageFails, ReadRecord, CommitFails, PruneVersions, PruneVersionsFails,
   StepFails, Crash

\* The records stay a history, and only a commit changes the newest.
LEMMA HistoryStep ==
  ASSUME Hypotheses, History, Installing, [Next]_vars
  PROVE  /\ History' /\ (Cardinality(records') <= Retain \/ records' = records)
         /\ CommitRecord => (Newest' = current /\ current.gen = Newest.gen + 1)
         /\ ~ CommitRecord => Newest' = Newest
<1>1. IsHistory(records) /\ Newest = NewestOf(records) BY NewestRecord
<1>2. ASSUME IsHistory(records') PROVE History' /\ Newest' = NewestOf(records')
  BY <1>2 DEF IsHistory, History, Newest, NewestOf
<1>3. CASE WriteTemporary
  <2>1. records' = PruneRecords(records) BY <1>3 DEF WriteTemporary
  <2>2. ~ CommitRecord BY <1>3 DEF WriteTemporary, CommitRecord
  <2> QED BY <2>1, <2>2, <1>1, <1>2, PruningKeeps
<1>4. CASE CommitRecord
  <2>1. records' = PruneRecords(records \cup {current}) BY <1>4 DEF CommitRecord
  <2>2. current \in Record /\ current.gen = NewestOf(records).gen + 1
    BY <1>1, <1>4 DEF CommitRecord, Installing
  <2>3. IsHistory(records \cup {current}) /\ NewestOf(records \cup {current}) = current
    BY <1>1, <2>2, NextJoins
  <2> QED BY <1>1, <1>2, <1>4, <2>1, <2>2, <2>3, PruningKeeps
<1>5. CASE ~ WriteTemporary /\ ~ CommitRecord
  BY <1>1, <1>2, <1>5, SameRecords
<1> QED BY <1>3, <1>4, <1>5

\* Every action keeps every variable in its type; the history never outgrows RETAINED_ACTIVATION_RECORDS.
LEMMA TypedStep ==
  ASSUME Hypotheses, Typed, History, Installing, [Next]_vars
  PROVE  Typed'
<1> USE DEF Typed, TypeOK, Nothing, Installing, Hypotheses, Goto, Done, store
<1>0. Cardinality(records') <= Retain
  BY HistoryStep
<1>1. ASSUME NEW v \in Versions, NEW g \in Versions \cup {NoVersion}, NEW f \in {"none", "digest"}, Stage(v, g, f)
      PROVE  Typed'
  BY <1>1 DEF Stage
<1>2. ASSUME NEW a \in Versions, NEW p \in Versions, Rollback(a, p) PROVE Typed'
  BY <1>2 DEF Rollback
<1>3. ASSUME NEW v \in Versions, OpenActive(v) PROVE Typed'
  BY <1>3 DEF OpenActive
<1>4. ASSUME NEW v \in Versions, Damage(v) PROVE Typed'
  BY <1>4 DEF Damage
<1>5. CASE RecoverReplacement
  BY <1>5 DEF RecoverReplacement
<1>6. CASE RecoverUnreadable
  BY <1>6 DEF RecoverUnreadable
<1>7. CASE NothingToRecover
  BY <1>7 DEF NothingToRecover
<1>8. CASE PruneStaging
  BY <1>8 DEF PruneStaging
<1>9. CASE SetAside
  BY <1>9 DEF SetAside
<1>10. CASE CopyArtifacts
  BY <1>10 DEF CopyArtifacts
<1>11. CASE WriteManifest
  BY <1>11 DEF WriteManifest
<1>12. CASE RenameStaged
  BY <1>12 DEF RenameStaged
<1>13. CASE DiscardAside
  BY <1>13 DEF DiscardAside
<1>14. CASE StageFails
  BY <1>14 DEF StageFails
<1>15. CASE ReadRecord
  BY <1>15 DEF ReadRecord
<1>16. CASE WriteTemporary
  <2>1. records' \subseteq records BY <1>16 DEF WriteTemporary, PruneRecords
  <2> QED BY <1>16, <1>0, <2>1 DEF WriteTemporary
<1>17. CASE CommitRecord
  <2>1. records' \subseteq records \cup {current} BY <1>17 DEF CommitRecord, PruneRecords
  <2>2. current \in Record /\ current.active # current.previous BY <1>17 DEF CommitRecord, Installing
  <2> QED BY <1>17, <1>0, <2>1, <2>2 DEF CommitRecord, Record
<1>18. CASE CommitFails
  BY <1>18 DEF CommitFails
<1>19. CASE PruneVersions
  BY <1>19 DEF PruneVersions
<1>20. CASE PruneVersionsFails
  BY <1>20 DEF PruneVersionsFails
<1>21. CASE StepFails
  BY <1>21 DEF StepFails
<1>22. CASE Crash
  BY <1>22 DEF Crash
<1>23. CASE UNCHANGED vars
  BY <1>23 DEF vars, CommitRecord
<1> QED BY <1>1, <1>2, <1>3, <1>4, <1>5, <1>6, <1>7, <1>8, <1>9, <1>10, <1>11, <1>12, <1>13, <1>14,
   <1>15, <1>16, <1>17, <1>18, <1>19, <1>20, <1>21, <1>22, <1>23 DEF Next

\* What each place of the installer relies on is established on the way to it.
LEMMA InstallingStep ==
  ASSUME Hypotheses, Typed, History, Installing, [Next]_vars
  PROVE  Installing'
<1> USE DEF Hypotheses, Installing, Nothing, NoJob, Present, Record, Goto, Done, store
<1>0. /\ CommitRecord => Newest' = current
      /\ ~ CommitRecord => Newest' = Newest
      /\ Newest.gen \in Nat
      /\ Newest = NoRecord \/ Newest \in Record
      /\ dir \in [Versions -> {"absent", "good", "digest", "manifest"}]
  BY HistoryStep, NewestRecord DEF Typed
<1>1. ASSUME NEW v \in Versions, NEW g \in Versions \cup {NoVersion}, NEW f \in {"none", "digest"}, Stage(v, g, f)
      PROVE  Installing'
  BY <1>1 DEF Stage
<1>2. ASSUME NEW a \in Versions, NEW p \in Versions, Rollback(a, p) PROVE Installing'
  <2>1. Newest' = Newest BY <1>2, <1>0 DEF Rollback, CommitRecord
  <2>2. CASE at' = "idle" BY <1>2, <2>1, <2>2 DEF Rollback
  <2>3. CASE at' # "idle"
    <3>1. /\ Newest.active = a /\ Newest.previous = p /\ dir[p] = "good" /\ Newest.gen < MaxGen
          /\ at' = "tmp" /\ job' = [v |-> p, given |-> a] /\ dir' = dir /\ moved' = moved
          /\ current' = [gen |-> Newest.gen + 1, active |-> p, previous |-> KeptPrevious(Newest)] /\ a # p
      BY <1>2, <2>3 DEF Rollback
    <3>2. KeptPrevious(Newest) \in {a, NoVersion} /\ (KeptPrevious(Newest) = a => dir[a] = "good")
      BY <3>1 DEF KeptPrevious
    <3>3. current' \in Record /\ current'.active # current'.previous /\ current'.gen = Newest.gen + 1
      BY <3>1, <3>2, <1>0
    <3>4. Present(current.active)' /\ Present(current.previous)'
      BY <3>1, <3>2
    <3> QED BY <2>1, <3>1, <3>3, <3>4
  <2> QED BY <2>2, <2>3
<1>3. ASSUME NEW v \in Versions, OpenActive(v) PROVE Installing'
  BY <1>3 DEF OpenActive
<1>4. ASSUME NEW v \in Versions, Damage(v) PROVE Installing'
  <2>1. Newest' = Newest BY <1>4, <1>0 DEF Damage, CommitRecord
  <2>2. \A w \in Versions : (dir[w] # "absent" => dir'[w] # "absent") /\ (dir[w] # "good" => dir'[w] = dir[w])
    BY <1>4, <1>0 DEF Damage
  <2>3. UNCHANGED <<moved, staged, records, temp, at, job, current, result>>
    BY <1>4 DEF Damage
  <2>4. \A w \in Versions \cup {NoVersion} : Present(w) => Present(w)'
    BY <2>2
  <2> QED BY <2>1, <2>2, <2>3, <2>4
<1>5. CASE RecoverReplacement
  BY <1>5 DEF RecoverReplacement
<1>6. CASE RecoverUnreadable
  BY <1>6 DEF RecoverUnreadable
<1>7. CASE NothingToRecover
  BY <1>7 DEF NothingToRecover
<1>8. CASE PruneStaging
  BY <1>8, <1>0 DEF PruneStaging
<1>9. CASE SetAside
  BY <1>9 DEF SetAside
<1>10. CASE CopyArtifacts
  BY <1>10 DEF CopyArtifacts
<1>11. CASE WriteManifest
  BY <1>11 DEF WriteManifest
<1>12. CASE RenameStaged
  BY <1>12, <1>0 DEF RenameStaged
<1>13. CASE DiscardAside
  BY <1>13 DEF DiscardAside
<1>14. CASE StageFails
  BY <1>14 DEF StageFails
<1>15. CASE ReadRecord
  <2>1. Newest' = Newest BY <1>15, <1>0 DEF ReadRecord, CommitRecord
  <2>2. CASE at' = "idle" BY <1>15, <2>1, <2>2 DEF ReadRecord
  <2>3. CASE at' # "idle"
    <3> DEFINE r == Newest
               kept == IF r = NoRecord THEN NoVersion ELSE KeptPrevious(r)
    <3>1. /\ at' = "tmp" /\ job' = job /\ dir' = dir /\ moved' = moved /\ at = "read"
          /\ (r = NoRecord \/ r.active # job.v) /\ r.gen < MaxGen
          /\ current' = [gen |-> r.gen + 1, active |-> job.v, previous |-> kept]
      BY <1>15, <2>3 DEF ReadRecord
    <3>2. job.v \in Versions /\ dir[job.v] # "absent"
      BY <3>1
    <3>3. /\ kept = NoVersion \/ (kept = r.active /\ r.active \in Versions /\ dir[r.active] = "good")
          /\ kept # job.v
      BY <3>1, <3>2, <1>0 DEF KeptPrevious
    <3> HIDE DEF kept
    <3>4. current' \in Record /\ current'.active # current'.previous /\ current'.gen = Newest.gen + 1
      BY <3>1, <3>2, <3>3, <1>0
    <3>5. Present(current.active)' /\ Present(current.previous)'
      BY <3>1, <3>2, <3>3
    <3> QED BY <2>1, <3>1, <3>2, <3>4, <3>5
  <2> QED BY <2>2, <2>3
<1>16. CASE WriteTemporary
  <2>1. Newest' = Newest BY <1>16, <1>0 DEF WriteTemporary, CommitRecord
  <2> QED BY <1>16, <2>1 DEF WriteTemporary
<1>17. CASE CommitRecord
  <2>1. Newest' = current /\ current' = current /\ dir' = dir /\ moved' = moved /\ job' = job /\ at' = "versions"
    BY <1>17, <1>0 DEF CommitRecord
  <2> QED BY <1>17, <2>1 DEF CommitRecord
<1>18. CASE CommitFails
  BY <1>18 DEF CommitFails
<1>19. CASE PruneVersions
  BY <1>19 DEF PruneVersions
<1>20. CASE PruneVersionsFails
  BY <1>20 DEF PruneVersionsFails
<1>21. CASE StepFails
  BY <1>21 DEF StepFails
<1>22. CASE Crash
  BY <1>22 DEF Crash
<1>23. CASE UNCHANGED vars
  BY <1>23, <1>0 DEF vars, CommitRecord
<1> QED BY <1>1, <1>2, <1>3, <1>4, <1>5, <1>6, <1>7, <1>8, <1>9, <1>10, <1>11, <1>12, <1>13, <1>14,
   <1>15, <1>16, <1>17, <1>18, <1>19, <1>20, <1>21, <1>22, <1>23 DEF Next

\* Where a package is, in its place or set aside, no step takes it, but a pruning that keeps another.
LEMMA PackageStays ==
  ASSUME Hypotheses, Typed, Installing, NEW u \in Versions,
          at = "versions" => u \in {current.active, current.previous},
          dir[u] # "absent" \/ moved.v = u, [Next]_vars
  PROVE  (dir[u] # "absent" \/ moved.v = u)'
<1> USE DEF Hypotheses, Installing, Nothing, Present, Goto, Done, store
<1>0. dir \in [Versions -> {"absent", "good", "digest", "manifest"}]
  BY DEF Typed
<1>1. ASSUME NEW v \in Versions, NEW g \in Versions \cup {NoVersion}, NEW f \in {"none", "digest"}, Stage(v, g, f)
      PROVE  (dir[u] # "absent" \/ moved.v = u)'
  BY <1>1 DEF Stage
<1>2. ASSUME NEW a \in Versions, NEW p \in Versions, Rollback(a, p)
      PROVE  (dir[u] # "absent" \/ moved.v = u)'
  BY <1>2 DEF Rollback
<1>3. ASSUME NEW v \in Versions, OpenActive(v) PROVE (dir[u] # "absent" \/ moved.v = u)'
  BY <1>3 DEF OpenActive
<1>4. ASSUME NEW v \in Versions, Damage(v) PROVE (dir[u] # "absent" \/ moved.v = u)'
  BY <1>4 DEF Damage
<1>5. CASE RecoverReplacement
  BY <1>5, <1>0 DEF RecoverReplacement
<1>6. CASE RecoverUnreadable
  BY <1>6 DEF RecoverUnreadable
<1>7. CASE NothingToRecover
  BY <1>7 DEF NothingToRecover
<1>8. CASE PruneStaging
  BY <1>8 DEF PruneStaging
<1>9. CASE SetAside
  BY <1>9 DEF SetAside
<1>10. CASE CopyArtifacts
  BY <1>10 DEF CopyArtifacts
<1>11. CASE WriteManifest
  BY <1>11 DEF WriteManifest
<1>12. CASE RenameStaged
  BY <1>12 DEF RenameStaged
<1>13. CASE DiscardAside
  BY <1>13 DEF DiscardAside
<1>14. CASE StageFails
  BY <1>14, <1>0 DEF StageFails
<1>15. CASE ReadRecord
  BY <1>15 DEF ReadRecord
<1>16. CASE WriteTemporary
  BY <1>16 DEF WriteTemporary
<1>17. CASE CommitRecord
  BY <1>17 DEF CommitRecord
<1>18. CASE CommitFails
  BY <1>18 DEF CommitFails
<1>19. CASE PruneVersions
  BY <1>19 DEF PruneVersions
<1>20. CASE PruneVersionsFails
  BY <1>20 DEF PruneVersionsFails
<1>21. CASE StepFails
  BY <1>21 DEF StepFails
<1>22. CASE Crash
  BY <1>22 DEF Crash
<1>23. CASE UNCHANGED vars
  BY <1>23 DEF vars, CommitRecord
<1> QED BY <1>1, <1>2, <1>3, <1>4, <1>5, <1>6, <1>7, <1>8, <1>9, <1>10, <1>11, <1>12, <1>13, <1>14,
   <1>15, <1>16, <1>17, <1>18, <1>19, <1>20, <1>21, <1>22, <1>23 DEF Next

\* The two versions of the newest record are there: they were when it was written, and stay.
LEMMA OnDiskStep ==
  ASSUME Hypotheses, Typed, History, Installing, ActiveIsOnDisk, PreviousIsOnDisk, [Next]_vars
  PROVE  ActiveIsOnDisk' /\ PreviousIsOnDisk'
<1>1. Newest = NoRecord \/ Newest \in Record
  BY NewestRecord
<1>2. CASE Newest' = Newest
  <2>1. at = "versions" => current = Newest
    BY DEF Installing
  <2>2. CASE Newest = NoRecord
    BY <1>2, <2>2 DEF ActiveIsOnDisk, PreviousIsOnDisk, NoRecord
  <2>3. CASE Newest # NoRecord /\ Newest \in Record
    <3>1. Newest.active \in Versions /\ Newest.previous \in Versions \cup {NoVersion}
      BY <2>3 DEF Record
    <3>2. dir[Newest.active] # "absent" \/ moved.v = Newest.active
      BY <2>3 DEF ActiveIsOnDisk
    <3>3. (dir[Newest.active] # "absent" \/ moved.v = Newest.active)'
      BY <1>2, <2>1, <3>1, <3>2, PackageStays
    <3>4. Newest.previous # NoVersion => (dir[Newest.previous] # "absent" \/ moved.v = Newest.previous)'
      BY <1>2, <2>1, <3>1, PackageStays DEF PreviousIsOnDisk
    <3> QED BY <1>2, <3>3, <3>4 DEF ActiveIsOnDisk, PreviousIsOnDisk
  <2> QED BY <1>1, <2>2, <2>3
<1>3. CASE CommitRecord /\ Newest' = current
  <2>1. Present(current.active) /\ Present(current.previous) /\ current \in Record /\ dir' = dir
    BY <1>3 DEF CommitRecord, Installing
  <2> QED BY <1>3, <2>1 DEF ActiveIsOnDisk, PreviousIsOnDisk, Present, Record, Hypotheses
<1> QED BY <1>2, <1>3, HistoryStep

\* An empty store has every part of the invariant.
LEMMA InvInit == ASSUME Hypotheses, Init PROVE Inv
<1> USE DEF Hypotheses, Init, Nothing, NoJob, NoRecord
<1>1. IsFiniteSet({}) /\ Cardinality({}) = 0 BY FS_EmptySet
<1>2. Newest = NoRecord BY DEF Newest
<1>3. Typed
  <2>1. dir \in [Versions -> {"absent", "good", "digest", "manifest"}] OBVIOUS
  <2>2. moved.v = NoVersion OBVIOUS
  <2>3. Cardinality(records) <= Retain BY <1>1
  <2>4. \A r \in records : FALSE OBVIOUS
  <2>5. at = "idle" /\ staged = "none" /\ temp = FALSE OBVIOUS
  <2> HIDE DEF Init
  <2> QED BY <2>1, <2>2, <2>3, <2>4, <2>5 DEF Typed, TypeOK
<1>4. History BY <1>1 DEF History
<1>5. Installing BY DEF Installing
<1>6. ActiveIsOnDisk /\ PreviousIsOnDisk BY <1>2 DEF ActiveIsOnDisk, PreviousIsOnDisk
<1> QED BY <1>3, <1>4, <1>5, <1>6 DEF Inv

\* Every step of an installation, a rollback, a failure, a crash and a damage keeps them together.
LEMMA InvStep == ASSUME Hypotheses, Inv, [Next]_vars PROVE Inv'
BY HistoryStep, TypedStep, InstallingStep, OnDiskStep DEF Inv

\* Every variable keeps its type; the history never outgrows RETAINED_ACTIVATION_RECORDS.
THEOREM RuntimePackagesTypeOK == ASSUME Hypotheses PROVE Spec => []TypeOK
<1>1. Init => Inv BY InvInit
<1>2. Inv /\ [Next]_vars => Inv' BY InvStep
<1>3. Inv => TypeOK BY DEF Inv, Typed
<1> QED BY <1>1, <1>2, <1>3, PTL DEF Spec

\* Whatever crashes and fails between any two changes of the disk, the active version and the one
\* to go back to are on it, in their place or set aside.
THEOREM VersionsStayOnDisk == ASSUME Hypotheses PROVE Spec => [](ActiveIsOnDisk /\ PreviousIsOnDisk)
<1>1. Init => Inv BY InvInit
<1>2. Inv /\ [Next]_vars => Inv' BY InvStep
<1>3. Inv => ActiveIsOnDisk /\ PreviousIsOnDisk BY DEF Inv
<1> QED BY <1>1, <1>2, <1>3, PTL DEF Spec

\* No step takes an activation back.
LEMMA GenerationsStep == ASSUME Hypotheses, Inv, [Next]_vars PROVE GenerationsGrow
<1>1. Newest.gen \in Nat BY NewestRecord DEF Inv
<1>2. History' BY HistoryStep DEF Inv
<1>3. Newest'.gen >= Newest.gen BY <1>1, HistoryStep DEF Inv
<1> QED BY <1>2, <1>3 DEF GenerationsGrow, History

\* The history of activations only goes up, and no two of its records share a number.
THEOREM ActivationsOnlyGrow == ASSUME Hypotheses PROVE Spec => [][GenerationsGrow]_vars
<1>1. Init => Inv BY InvInit
<1>2. Inv /\ [Next]_vars => Inv' BY InvStep
<1>3. Inv /\ [Next]_vars => [GenerationsGrow]_vars BY GenerationsStep
<1> QED BY <1>1, <1>2, <1>3, PTL DEF Spec
=============================================================================
