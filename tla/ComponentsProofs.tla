--------------------------- MODULE ComponentsProofs ---------------------------
(***************************************************************************)
(* What the components promise side by side follows from what each of them *)
(* promises alone: its module's invariant holds while it is the one that   *)
(* moves.                                                                  *)
(***************************************************************************)
EXTENDS MC_Components, TLAPS

\* No behaviour changes the component it is about.
LEMMA PartStands == ASSUME [Next]_vars PROVE part' = part
BY DEF Next, vars

-----------------------------------------------------------------------------
DatabaseP == INSTANCE DatabaseProofs WITH
  Flows <- {"w1", "w2"}, Dir <- [w1 |-> "d", w2 |-> Nil],
  Ids <- {"m1", "m2"}, Bodies <- {"b1", "b2"}, Spilled <- {"b2"}, Cands <- {"c1"},
  Suggested <- Suggestions, Reviewers <- {"r1", "r2"}, MaxOps <- 2, MaxFaults <- 1, None <- Nil,
  Runs <- {"r1"}, Notes <- {"n1"}, Accounts <- {"api", "handed", "unrouted"}, Handed <- {"handed"},
  Unrouted <- {"unrouted"}, MaxAhead <- 1, flows <- x1, mem <- x2, index <- x3, files <- x4, links <- x5,
  cand <- x6, enabled <- x7, job <- x8, count <- x9, task <- x10, recall <- x11, excused <- x12,
  ops <- x13, faults <- x14, runs <- x1, steps <- x2, checked <- x3, notes <- x4, noteLinks <- x5,
  scoped <- x6, workflows <- x7, order <- x8, accounts <- x9, refs <- x10, contract <- x11,
  scratch <- x12, cleanup <- x13, secrets <- x14, noteIndex <- x15, stepIndex <- x16, marks <- x17,
  at <- x18, fk <- x19, todo <- x20

\* The constants here are as its module asks.
LEMMA MemHypotheses == DatabaseP!Hypotheses
<1>1. DatabaseP!IsFiniteSet({}) BY DatabaseP!FS_EmptySet
<1>2. DatabaseP!IsFiniteSet({} \cup {"c1"}) BY <1>1, DatabaseP!FS_AddElement
<1>3. {} \cup {"c1"} = {"c1"} OBVIOUS
<1>4. DatabaseP!IsFiniteSet({"c1"}) BY <1>2, <1>3
<1>5. \A s \in Suggestions : /\ s.op \in DatabaseP!Operators /\ s.target \in {"m1", "m2"} \cup {Nil}
                             /\ s.scope \in DatabaseP!Scopes /\ s.body \in {"b1", "b2"}
  BY DEF Suggestions, Rec, DatabaseP!Operators, DatabaseP!Scopes
<1>6. [w1 |-> "d", w2 |-> Nil]["w1"] # Nil BY NilIsNothing
<1>7. {"b1", "b2"} \ {"b2"} # {} OBVIOUS
<1> QED BY <1>4, <1>5, <1>6, <1>7, NilIsNothing DEF DatabaseP!Hypotheses

\* The memories move here as in the module of its own, and start and promise the same.
LEMMA MemSteps == ASSUME Mem!Next PROVE DatabaseP!Next
<1>1. ASSUME Mem!UserStep
      PROVE  DatabaseP!UserStep
  BY Zenon, <1>1 DEF Mem!UserStep, Mem!SetReview, Mem!table, Mem!Command, Mem!RejectCandidate,
    Mem!ApproveCandidate, Mem!Applicable, Mem!Duplicates, Mem!TargetFits, Mem!Live, Mem!ScopeKey,
    Mem!ApplyCandidate, Mem!NoPath, Mem!NewId, Mem!FreshIds, Mem!Remembered, Mem!WriteCanonical,
    Mem!IndexMemory, Mem!With, Mem!EditCandidate, Mem!ValidSuggestion, Mem!Pending, Mem!RefusedTexts,
    Mem!InstructionLanguage, Mem!SecretLikeMaterial, Mem!ScreenedCharacters, Mem!ValidateCandidateTitle,
    Mem!Scopes, Mem!Expire, Mem!DeleteWorkflow, Mem!Reviewed, Mem!Without, Mem!ClearMemories, Mem!Forget,
    Mem!LinkMemory, Mem!DeleteMemory, Mem!Sees, Mem!UpdateMemory, Mem!Fault, Mem!UpdateAllowed,
    Mem!ValidSupersedes, Mem!UpdatedPath, Mem!Statuses, Mem!CreateMemory, Mem!PlanCanonicalInsert,
    DatabaseP!UserStep, DatabaseP!SetReview, DatabaseP!table, DatabaseP!Command,
    DatabaseP!RejectCandidate, DatabaseP!ApproveCandidate, DatabaseP!Applicable, DatabaseP!Duplicates,
    DatabaseP!TargetFits, DatabaseP!Live, DatabaseP!ScopeKey, DatabaseP!ApplyCandidate, DatabaseP!NoPath,
    DatabaseP!NewId, DatabaseP!FreshIds, DatabaseP!Remembered, DatabaseP!WriteCanonical,
    DatabaseP!IndexMemory, DatabaseP!With, DatabaseP!EditCandidate, DatabaseP!ValidSuggestion,
    DatabaseP!Pending, DatabaseP!RefusedTexts, DatabaseP!InstructionLanguage,
    DatabaseP!SecretLikeMaterial, DatabaseP!ScreenedCharacters, DatabaseP!ValidateCandidateTitle,
    DatabaseP!Scopes, DatabaseP!Expire, DatabaseP!DeleteWorkflow, DatabaseP!Reviewed, DatabaseP!Without,
    DatabaseP!ClearMemories, DatabaseP!Forget, DatabaseP!LinkMemory, DatabaseP!DeleteMemory,
    DatabaseP!Sees, DatabaseP!UpdateMemory, DatabaseP!Fault, DatabaseP!UpdateAllowed,
    DatabaseP!ValidSupersedes, DatabaseP!UpdatedPath, DatabaseP!Statuses, DatabaseP!CreateMemory,
    DatabaseP!PlanCanonicalInsert
<1>2. ASSUME Mem!RunStarts \/ Mem!Retrieve \/ Mem!PreparePrompt
      PROVE  DatabaseP!RunStarts \/ DatabaseP!Retrieve \/ DatabaseP!PreparePrompt
  BY Zenon, <1>2 DEF Mem!RunStarts, Mem!table, Mem!Reviewed, Mem!Visible, Mem!Live, Mem!Sees,
    Mem!ScopeKey, Mem!Retrieve, Mem!Fault, Mem!PreparePrompt, Mem!CanInsertUses, DatabaseP!RunStarts,
    DatabaseP!table, DatabaseP!Reviewed, DatabaseP!Visible, DatabaseP!Live, DatabaseP!Sees,
    DatabaseP!ScopeKey, DatabaseP!Retrieve, DatabaseP!Fault, DatabaseP!PreparePrompt,
    DatabaseP!CanInsertUses
<1>3. ASSUME NEW t, Mem!ScheduleReview(t) \/ Mem!RetryReview(t) \/ Mem!ReviewStep(t)
      PROVE  DatabaseP!ScheduleReview(t) \/ DatabaseP!RetryReview(t) \/ DatabaseP!ReviewStep(t)
  BY Zenon, <1>3 DEF Mem!ScheduleReview, Mem!table, Mem!Spawn, Mem!Reviewed, Mem!RetryReview,
    Mem!Command, Mem!ReviewStep, Mem!FailReview, Mem!Resting, Mem!FinalizeReview, Mem!Fault, Mem!Hash,
    Mem!Cardinality, Mem!Candidate, Mem!ScopeKey, Mem!NewCandidates, Mem!ValidateReview,
    Mem!ValidSuggestion, Mem!Pending, Mem!Duplicates, Mem!TargetFits, Mem!Live, Mem!RefusedTexts,
    Mem!InstructionLanguage, Mem!SecretLikeMaterial, Mem!ScreenedCharacters, Mem!ValidateCandidateTitle,
    Mem!AskReviewer, Mem!GatherReview, Mem!Visible, Mem!Sees, Mem!ClaimReview, DatabaseP!ScheduleReview,
    DatabaseP!table, DatabaseP!Spawn, DatabaseP!Reviewed, DatabaseP!RetryReview, DatabaseP!Command,
    DatabaseP!ReviewStep, DatabaseP!FailReview, DatabaseP!Resting, DatabaseP!FinalizeReview,
    DatabaseP!Fault, DatabaseP!Hash, DatabaseP!Cardinality, DatabaseP!Candidate, DatabaseP!ScopeKey,
    DatabaseP!NewCandidates, DatabaseP!ValidateReview, DatabaseP!ValidSuggestion, DatabaseP!Pending,
    DatabaseP!Duplicates, DatabaseP!TargetFits, DatabaseP!Live, DatabaseP!RefusedTexts,
    DatabaseP!InstructionLanguage, DatabaseP!SecretLikeMaterial, DatabaseP!ScreenedCharacters,
    DatabaseP!ValidateCandidateTitle, DatabaseP!AskReviewer, DatabaseP!GatherReview, DatabaseP!Visible,
    DatabaseP!Sees, DatabaseP!ClaimReview
<1> QED BY <1>1, <1>2, <1>3 DEF Mem!Next, DatabaseP!Next

LEMMA MemStarts == ASSUME Mem!Init PROVE DatabaseP!Init
BY Zenon DEF Mem!Init, Mem!Resting, Mem!Short, Mem!Seed, Mem!NoPath, Mem!Reviewed, DatabaseP!Init,
  DatabaseP!Resting, DatabaseP!Short, DatabaseP!Seed, DatabaseP!NoPath, DatabaseP!Reviewed

LEMMA MemPromises ==
  ASSUME DatabaseP!IndexIsCurrent, DatabaseP!FilesMatchRows, DatabaseP!PinnedIsActive,
         DatabaseP!RecallIsTraced, DatabaseP!OneReviewer, DatabaseP!CandidatesOfCompleted
  PROVE  Mem!IndexIsCurrent /\ Mem!FilesMatchRows /\ Mem!PinnedIsActive /\ Mem!RecallIsTraced /\
         Mem!OneReviewer /\ Mem!CandidatesOfCompleted
BY Zenon DEF Mem!IndexIsCurrent, Mem!FilesMatchRows, Mem!NoPath, Mem!PinnedIsActive, Mem!RecallIsTraced,
  Mem!OneReviewer, Mem!Cardinality, Mem!CandidatesOfCompleted, DatabaseP!IndexIsCurrent,
  DatabaseP!FilesMatchRows, DatabaseP!NoPath, DatabaseP!PinnedIsActive, DatabaseP!RecallIsTraced,
  DatabaseP!OneReviewer, DatabaseP!Cardinality, DatabaseP!CandidatesOfCompleted

\* The invariant of its module, while it is the one that moves.
MemInv == part = "memories" => DatabaseP!MemInv

LEMMA MemBegins == Init => MemInv
BY MemHypotheses, MemStarts, DatabaseP!MemStarts DEF Init, MemInv

LEMMA MemKeeps == ASSUME MemInv, [Next]_vars PROVE MemInv'
<1>1. part' = part BY PartStands
<1>2. CASE part = "memories"
  <2>1. DatabaseP!Next \/ DatabaseP!memVars' = DatabaseP!memVars
    BY <1>2, MemSteps DEF Next, vars, DatabaseP!memVars
  <2> QED BY <1>1, <1>2, <2>1, MemHypotheses, DatabaseP!MemSteps DEF MemInv
<1> QED BY <1>1, <1>2 DEF MemInv

\* The constants here are as its module asks.
LEMMA MigrHypotheses == DatabaseP!MigrHypotheses
<1>1. DatabaseP!IsFiniteSet({}) BY DatabaseP!FS_EmptySet
<1>2. DatabaseP!IsFiniteSet({} \cup {"w1"}) BY <1>1, DatabaseP!FS_AddElement
<1>3. DatabaseP!IsFiniteSet(({} \cup {"w1"}) \cup {"w2"}) BY <1>2, DatabaseP!FS_AddElement
<1>4. ({} \cup {"w1"}) \cup {"w2"} = {"w1", "w2"} OBVIOUS
<1> QED BY <1>3, <1>4 DEF DatabaseP!MigrHypotheses

\* A start moves here as in the module of its own, and starts and promises the same.
LEMMA MigrSteps == ASSUME Migr!Next PROVE DatabaseP!Migr!Next
BY Zenon DEF Migr!Next, Migr!Close, Migr!indexVars, Migr!accountVars, Migr!flowVars, Migr!noteVars,
  Migr!runVars, Migr!Goto, Migr!Use, Migr!RemoveAccount, Migr!DrainCleanup, Migr!DeleteSecret,
  Migr!Reorder, Migr!Orderings, Migr!Cardinality, Migr!AddFlow, Migr!AddNote, Migr!AddRun, Migr!Migrate,
  Migr!MigrateAccounts, Migr!RebuildSearch, Migr!SearchMark, Migr!PassMemories, Migr!ScopedMark,
  Migr!RebuildMemories, Migr!Numbered, Migr!Number, Migr!CheckOrder, Migr!Pass, Migr!After, Migr!Rebuild,
  Migr!Tables, Migr!TurnOff, Migr!Open, DatabaseP!Migr!Next, DatabaseP!Migr!Close,
  DatabaseP!Migr!indexVars, DatabaseP!Migr!accountVars, DatabaseP!Migr!flowVars, DatabaseP!Migr!noteVars,
  DatabaseP!Migr!runVars, DatabaseP!Migr!Goto, DatabaseP!Migr!Use, DatabaseP!Migr!RemoveAccount,
  DatabaseP!Migr!DrainCleanup, DatabaseP!Migr!DeleteSecret, DatabaseP!Migr!Reorder,
  DatabaseP!Migr!Orderings, DatabaseP!Migr!Cardinality, DatabaseP!Migr!AddFlow, DatabaseP!Migr!AddNote,
  DatabaseP!Migr!AddRun, DatabaseP!Migr!Migrate, DatabaseP!Migr!MigrateAccounts,
  DatabaseP!Migr!RebuildSearch, DatabaseP!Migr!SearchMark, DatabaseP!Migr!PassMemories,
  DatabaseP!Migr!ScopedMark, DatabaseP!Migr!RebuildMemories, DatabaseP!Migr!Numbered,
  DatabaseP!Migr!Number, DatabaseP!Migr!CheckOrder, DatabaseP!Migr!Pass, DatabaseP!Migr!After,
  DatabaseP!Migr!Rebuild, DatabaseP!Migr!Tables, DatabaseP!Migr!TurnOff, DatabaseP!Migr!Open

LEMMA MigrStarts == ASSUME Migr!Init PROVE DatabaseP!Migr!Init
BY Zenon DEF Migr!Init, Migr!SearchMark, Migr!Tables, DatabaseP!Migr!Init, DatabaseP!Migr!SearchMark,
  DatabaseP!Migr!Tables

LEMMA MigrPromises ==
  ASSUME DatabaseP!Migr!RowsKeepTheirOwn, DatabaseP!Migr!SearchFindsAll,
         DatabaseP!Migr!SecretsAreReferenced, DatabaseP!Migr!OpenIsMigrated, DatabaseP!Migr!NumberedApart
  PROVE  Migr!RowsKeepTheirOwn /\ Migr!SearchFindsAll /\ Migr!SecretsAreReferenced /\
         Migr!OpenIsMigrated /\ Migr!NumberedApart
BY Zenon DEF Migr!RowsKeepTheirOwn, Migr!SearchFindsAll, Migr!SearchMark, Migr!SecretsAreReferenced,
  Migr!OpenIsMigrated, Migr!ScopedMark, Migr!NumberedApart, Migr!Waiting,
  DatabaseP!Migr!RowsKeepTheirOwn, DatabaseP!Migr!SearchFindsAll, DatabaseP!Migr!SearchMark,
  DatabaseP!Migr!SecretsAreReferenced, DatabaseP!Migr!OpenIsMigrated, DatabaseP!Migr!ScopedMark,
  DatabaseP!Migr!NumberedApart, DatabaseP!Migr!Waiting

\* The invariant of its module, while it is the one that moves.
MigrInv == part = "migrations" => DatabaseP!MigrInv

LEMMA MigrBegins == Init => MigrInv
BY MigrHypotheses, MigrStarts, DatabaseP!MigrStarts DEF Init, MigrInv

LEMMA MigrKeeps == ASSUME MigrInv, [Next]_vars PROVE MigrInv'
<1>1. part' = part BY PartStands
<1>2. CASE part = "migrations"
  <2>1. DatabaseP!Migr!Next \/ DatabaseP!Migr!vars' = DatabaseP!Migr!vars
    BY <1>2, MigrSteps DEF Next, vars, DatabaseP!Migr!vars, DatabaseP!Migr!indexVars,
      DatabaseP!Migr!accountVars, DatabaseP!Migr!flowVars, DatabaseP!Migr!noteVars,
      DatabaseP!Migr!runVars
  <2> QED BY <1>1, <1>2, <2>1, MigrHypotheses, DatabaseP!MigrSteps DEF MigrInv
<1> QED BY <1>1, <1>2 DEF MigrInv

-----------------------------------------------------------------------------
PacksP == INSTANCE RuntimePackagesProofs WITH
  Versions <- {"v1", "v2", "v3"}, Retain <- 2, MaxGen <- 3, MaxDamage <- 0, NoVersion <- "none",
  dir <- x1, moved <- x2, staged <- x3, records <- x4, temp <- x5, at <- x6, job <- x7, current <- x8, result
  <- x9, damages <- x10

\* The constants here are as its module asks.
LEMMA PacksHypotheses == PacksP!Hypotheses
BY DEF PacksP!Hypotheses

\* The packages move here as in the module of its own, and start and promise the same.
LEMMA PacksSteps == ASSUME Packs!Next PROVE PacksP!Next
BY Zenon DEF Packs!Next, Packs!Damage, Packs!OpenActive, Packs!store, Packs!Newest, Packs!NoRecord,
  Packs!Crash, Packs!Done, Packs!NoJob, Packs!StepFails, Packs!PruneVersionsFails, Packs!PruneVersions,
  Packs!Nothing, Packs!CommitFails, Packs!CommitRecord, Packs!Goto, Packs!PruneRecords,
  Packs!Cardinality, Packs!WriteTemporary, Packs!Rollback, Packs!KeptPrevious, Packs!ReadRecord,
  Packs!StageFails, Packs!DiscardAside, Packs!RenameStaged, Packs!WriteManifest, Packs!CopyArtifacts,
  Packs!SetAside, Packs!PruneStaging, Packs!NothingToRecover, Packs!RecoverUnreadable,
  Packs!RecoverReplacement, Packs!Stage, Packs!InspectPackage, PacksP!Next, PacksP!Damage,
  PacksP!OpenActive, PacksP!store, PacksP!Newest, PacksP!NoRecord, PacksP!Crash, PacksP!Done,
  PacksP!NoJob, PacksP!StepFails, PacksP!PruneVersionsFails, PacksP!PruneVersions, PacksP!Nothing,
  PacksP!CommitFails, PacksP!CommitRecord, PacksP!Goto, PacksP!PruneRecords, PacksP!Cardinality,
  PacksP!WriteTemporary, PacksP!Rollback, PacksP!KeptPrevious, PacksP!ReadRecord, PacksP!StageFails,
  PacksP!DiscardAside, PacksP!RenameStaged, PacksP!WriteManifest, PacksP!CopyArtifacts, PacksP!SetAside,
  PacksP!PruneStaging, PacksP!NothingToRecover, PacksP!RecoverUnreadable, PacksP!RecoverReplacement,
  PacksP!Stage, PacksP!InspectPackage

LEMMA PacksStarts == ASSUME Packs!Init PROVE PacksP!Init
BY Zenon DEF Packs!Init, Packs!NoRecord, Packs!NoJob, Packs!Nothing, PacksP!Init, PacksP!NoRecord,
  PacksP!NoJob, PacksP!Nothing

LEMMA PacksPromises ==
  ASSUME PacksP!ActiveIsOnDisk, PacksP!PreviousIsOnDisk
  PROVE  Packs!ActiveIsOnDisk /\ Packs!PreviousIsOnDisk
BY Zenon DEF Packs!ActiveIsOnDisk, Packs!NoRecord, Packs!Newest, Packs!PreviousIsOnDisk,
  PacksP!ActiveIsOnDisk, PacksP!NoRecord, PacksP!Newest, PacksP!PreviousIsOnDisk

\* The invariant of its module, while it is the one that moves.
PacksInv == part = "packages" => PacksP!Inv

LEMMA PacksBegins == Init => PacksInv
BY PacksHypotheses, PacksStarts, PacksP!InvInit DEF Init, PacksInv

LEMMA PacksKeeps == ASSUME PacksInv, [Next]_vars PROVE PacksInv'
<1>1. part' = part BY PartStands
<1>2. CASE part = "packages"
  <2>1. PacksP!Next \/ PacksP!vars' = PacksP!vars
    BY <1>2, PacksSteps DEF Next, vars, PacksP!vars, PacksP!store
  <2> QED BY <1>1, <1>2, <2>1, PacksHypotheses, PacksP!InvStep DEF PacksInv
<1> QED BY <1>1, <1>2 DEF PacksInv

DamageP == INSTANCE RuntimePackagesProofs WITH
  Versions <- {"v1", "v2"}, Retain <- 2, MaxGen <- 3, MaxDamage <- 1, NoVersion <- "none",
  dir <- x1, moved <- x2, staged <- x3, records <- x4, temp <- x5, at <- x6, job <- x7, current <- x8, result
  <- x9, damages <- x10

\* The constants here are as its module asks.
LEMMA DamageHypotheses == DamageP!Hypotheses
BY DEF DamageP!Hypotheses

\* The packages move here as in the module of its own, and start and promise the same.
LEMMA DamageSteps == ASSUME Damage!Next PROVE DamageP!Next
BY Zenon DEF Damage!Next, Damage!Damage, Damage!OpenActive, Damage!store, Damage!Newest, Damage!NoRecord,
  Damage!Crash, Damage!Done, Damage!NoJob, Damage!StepFails, Damage!PruneVersionsFails,
  Damage!PruneVersions, Damage!Nothing, Damage!CommitFails, Damage!CommitRecord, Damage!Goto,
  Damage!PruneRecords, Damage!Cardinality, Damage!WriteTemporary, Damage!Rollback, Damage!KeptPrevious,
  Damage!ReadRecord, Damage!StageFails, Damage!DiscardAside, Damage!RenameStaged, Damage!WriteManifest,
  Damage!CopyArtifacts, Damage!SetAside, Damage!PruneStaging, Damage!NothingToRecover,
  Damage!RecoverUnreadable, Damage!RecoverReplacement, Damage!Stage, Damage!InspectPackage, DamageP!Next,
  DamageP!Damage, DamageP!OpenActive, DamageP!store, DamageP!Newest, DamageP!NoRecord, DamageP!Crash,
  DamageP!Done, DamageP!NoJob, DamageP!StepFails, DamageP!PruneVersionsFails, DamageP!PruneVersions,
  DamageP!Nothing, DamageP!CommitFails, DamageP!CommitRecord, DamageP!Goto, DamageP!PruneRecords,
  DamageP!Cardinality, DamageP!WriteTemporary, DamageP!Rollback, DamageP!KeptPrevious,
  DamageP!ReadRecord, DamageP!StageFails, DamageP!DiscardAside, DamageP!RenameStaged,
  DamageP!WriteManifest, DamageP!CopyArtifacts, DamageP!SetAside, DamageP!PruneStaging,
  DamageP!NothingToRecover, DamageP!RecoverUnreadable, DamageP!RecoverReplacement, DamageP!Stage,
  DamageP!InspectPackage

LEMMA DamageStarts == ASSUME Damage!Init PROVE DamageP!Init
BY Zenon DEF Damage!Init, Damage!NoRecord, Damage!NoJob, Damage!Nothing, DamageP!Init, DamageP!NoRecord,
  DamageP!NoJob, DamageP!Nothing

LEMMA DamagePromises ==
  ASSUME DamageP!ActiveIsOnDisk, DamageP!PreviousIsOnDisk
  PROVE  Damage!ActiveIsOnDisk /\ Damage!PreviousIsOnDisk
BY Zenon DEF Damage!ActiveIsOnDisk, Damage!NoRecord, Damage!Newest, Damage!PreviousIsOnDisk,
  DamageP!ActiveIsOnDisk, DamageP!NoRecord, DamageP!Newest, DamageP!PreviousIsOnDisk

\* The invariant of its module, while it is the one that moves.
DamageInv == part = "damage" => DamageP!Inv

LEMMA DamageBegins == Init => DamageInv
BY DamageHypotheses, DamageStarts, DamageP!InvInit DEF Init, DamageInv

LEMMA DamageKeeps == ASSUME DamageInv, [Next]_vars PROVE DamageInv'
<1>1. part' = part BY PartStands
<1>2. CASE part = "damage"
  <2>1. DamageP!Next \/ DamageP!vars' = DamageP!vars
    BY <1>2, DamageSteps DEF Next, vars, DamageP!vars, DamageP!store
  <2> QED BY <1>1, <1>2, <2>1, DamageHypotheses, DamageP!InvStep DEF DamageInv
<1> QED BY <1>1, <1>2 DEF DamageInv

-----------------------------------------------------------------------------
ServiceP == INSTANCE ServiceProofs WITH
  Benefits <- {"individual", "other"}, Deadlines <- {Nil, 1},
  Grace <- 1, Devices <- 1, MaxDay <- 2, MaxRefs <- 1, MaxFaults <- 1, None <- Nil,
  Mentions <- {"m1", "m2"}, Bad <- {"b1"}, Noise <- {"n1"}, Triggers <- {1, 2}, BatchLimit <- 2,
  MaxBreaks <- 2, config <- x1, day <- x2, key <- x3, row <- x4, vault <- x5, op <- x6, ghost <- x7,
  drawn <- x8, faults <- x9, unacked <- x1, stream <- x2, call <- x3, events <- x4, todo <- x5,
  persisted <- x6, overrun <- x7, excused <- x8, breaks <- x9,
  Providers <- {"github", "microsoft", "telegram", "slack", "linear", "gmail", "sentry", "obsidian", "notion"},
  Calls <- {"c1"}, Accounts <- {"a", "b"}, MaxSessions <- 2, MaxTroubles <- 2,
  provider <- x1, had <- x2, flaw <- x3, account <- x4, target <- x5, session <- x6, cancelled <- x7,
  stopped <- x8, expired <- x9, pc <- x10, result <- x11, ref <- x12, fresh <- x13, prior <- x14,
  paired <- x15, store <- x16, rows <- x17, sent <- x18, pardoned <- x19, grant <- x20, reauth <- x21,
  revoked <- x22, troubles <- x23,
 Attempts <- {"a", "b"}, MaxFailures <- 0, att <- x1, pairing <- x2, cmd <- x3, client <- x4, keys <- x5,
  staging <- x6, final <- x7, link <- x8, owner <- x9, running <- x10, withdrawn <- x11, failures <- x12,
 Areas <- {"blobs", "prekeys", "retry", "secrets", "macs", "lids", "devices"},
  Spaces <- {"session", "device"}, Names <- {1, 2}, Groups <- {"g", "h"}, Retention <- 2, MaxClock <- 4,
  MaxCalls <- 5, area <- x1, clock <- x2, table <- x3, upload <- x4, gone <- x5, purged <- x6,
  batch <- x7, written <- x8, calls <- x9

\* The constants here are as its module asks.
LEMMA LicHypotheses == ServiceP!Hypotheses
<1>1. {Nil, 1} \subseteq (0..1) \cup {Nil} OBVIOUS
<1> QED BY <1>1, NilIsNothing DEF ServiceP!Hypotheses

\* The license moves here as in the module of its own, and starts and promises the same.
LEMMA LicSteps == ASSUME Lic!Next PROVE ServiceP!Next
BY Zenon DEF Lic!Next, Lic!Quit, Lic!NoOp, Lic!NoRow, Lic!DeactivateDrop, Lic!EndOp,
  Lic!DeactivateDelete, Lic!StorageFails, Lic!Without, Lic!DeactivateRemote, Lic!RemoteEnds,
  Lic!Deactivate, Lic!RefreshWrite, Lic!RefreshValidate, Lic!Answered, Lic!Broken, Lic!Transient,
  Lic!AfterTransient, Lic!PreviouslyGranted, Lic!AfterUnknown, Lic!Past, Lic!Valid, Lic!Known,
  Lic!Validated, Lic!ConfirmedState, Lic!ProductForBenefit, Lic!Refresh, Lic!Undo, Lic!Undone,
  Lic!ActivatePersist, Lic!ActivateStore, Lic!Put, Lic!ActivateValidate, Lic!GiveBack, Lic!ActivateCall,
  Lic!FreeSlots, Lic!Min, Lic!Activate, Lic!PolarChanges, Lic!Max, Lic!Tick, Lic!Buy, Lic!NoKey,
  Lic!Configured, Lic!Load, Lic!ConfigErrors, ServiceP!Next, ServiceP!Quit, ServiceP!NoOp,
  ServiceP!NoRow, ServiceP!DeactivateDrop, ServiceP!EndOp, ServiceP!DeactivateDelete,
  ServiceP!StorageFails, ServiceP!Without, ServiceP!DeactivateRemote, ServiceP!RemoteEnds,
  ServiceP!Deactivate, ServiceP!RefreshWrite, ServiceP!RefreshValidate, ServiceP!Answered,
  ServiceP!Broken, ServiceP!Transient, ServiceP!AfterTransient, ServiceP!PreviouslyGranted,
  ServiceP!AfterUnknown, ServiceP!Past, ServiceP!Valid, ServiceP!Known, ServiceP!Validated,
  ServiceP!ConfirmedState, ServiceP!ProductForBenefit, ServiceP!Refresh, ServiceP!Undo, ServiceP!Undone,
  ServiceP!ActivatePersist, ServiceP!ActivateStore, ServiceP!Put, ServiceP!ActivateValidate,
  ServiceP!GiveBack, ServiceP!ActivateCall, ServiceP!FreeSlots, ServiceP!Min, ServiceP!Activate,
  ServiceP!PolarChanges, ServiceP!Max, ServiceP!Tick, ServiceP!Buy, ServiceP!NoKey, ServiceP!Configured,
  ServiceP!Load, ServiceP!ConfigErrors

LEMMA LicStarts == ASSUME Lic!Init PROVE ServiceP!Init
BY Zenon DEF Lic!Init, Lic!Excused, Lic!NoOp, Lic!NoRow, Lic!NoKey, ServiceP!Init, ServiceP!Excused,
  ServiceP!NoOp, ServiceP!NoRow, ServiceP!NoKey

LEMMA LicPromises ==
  ASSUME ServiceP!LapsedIsNotRevoked, ServiceP!DevicesAreAccounted, ServiceP!RowHasItsKey,
         ServiceP!GraceIsBounded
  PROVE  Lic!LapsedIsNotRevoked /\ Lic!DevicesAreAccounted /\ Lic!RowHasItsKey /\
         Lic!GraceIsBounded
BY Zenon DEF Lic!LapsedIsNotRevoked, Lic!DevicesAreAccounted, Lic!RowHasItsKey, Lic!GraceIsBounded,
  Lic!GetStatus, Lic!Evaluate, Lic!Past, Lic!PreviouslyGranted, ServiceP!LapsedIsNotRevoked,
  ServiceP!DevicesAreAccounted, ServiceP!RowHasItsKey, ServiceP!GraceIsBounded, ServiceP!GetStatus,
  ServiceP!Evaluate, ServiceP!Past, ServiceP!PreviouslyGranted

\* The invariant of its module, while it is the one that moves.
LicInv == part = "license" => ServiceP!LicInv

LEMMA LicBegins == Init => LicInv
BY LicHypotheses, LicStarts, ServiceP!LicInit DEF Init, LicInv

LEMMA LicKeeps == ASSUME LicInv, [Next]_vars PROVE LicInv'
<1>1. part' = part BY PartStands
<1>2. CASE part = "license"
  <2>1. ServiceP!Next \/ ServiceP!licVars' = ServiceP!licVars
    BY <1>2, LicSteps DEF Next, vars, ServiceP!licVars
  <2> QED BY <1>1, <1>2, <2>1, LicHypotheses, ServiceP!LicStep DEF LicInv
<1> QED BY <1>1, <1>2 DEF LicInv

\* The constants here are as its module asks.
LEMMA SocketHypotheses == ServiceP!SocketHypotheses
BY DEF ServiceP!SocketHypotheses

\* The socket moves here as in the module of its own, and starts and promises the same.
LEMMA SocketSteps == ASSUME Socket!Next PROVE ServiceP!Socket!Next
BY Zenon DEF Socket!Next, Socket!Return, Socket!FanOutFails, Socket!CallFails, Socket!Fault,
  Socket!FanOut, Socket!Served, Socket!First, Socket!EnrichPermalinks, Socket!AckLost, Socket!AckFails,
  Socket!ReceiveBad, Socket!ReceiveNoise, Socket!ReceiveMention, Socket!Cardinality, Socket!Envelopes,
  Socket!Abandon, Socket!Break, Socket!Reconnect, Socket!ReadBroken, Socket!ReadTimeout,
  Socket!OpenFails, Socket!EnsureSocket, Socket!Connect, ServiceP!Socket!Next, ServiceP!Socket!Return,
  ServiceP!Socket!FanOutFails, ServiceP!Socket!CallFails, ServiceP!Socket!Fault, ServiceP!Socket!FanOut,
  ServiceP!Socket!Served,
  ServiceP!Socket!First, ServiceP!Socket!EnrichPermalinks, ServiceP!Socket!AckLost,
  ServiceP!Socket!AckFails, ServiceP!Socket!ReceiveBad, ServiceP!Socket!ReceiveNoise,
  ServiceP!Socket!ReceiveMention, ServiceP!Socket!Cardinality, ServiceP!Socket!Envelopes,
  ServiceP!Socket!Abandon, ServiceP!Socket!Break, ServiceP!Socket!Reconnect, ServiceP!Socket!ReadBroken,
  ServiceP!Socket!ReadTimeout, ServiceP!Socket!OpenFails, ServiceP!Socket!EnsureSocket,
  ServiceP!Socket!Connect

LEMMA SocketStarts == ASSUME Socket!Init PROVE ServiceP!Socket!Init
BY Zenon DEF Socket!Init, Socket!Envelopes, ServiceP!Socket!Init, ServiceP!Socket!Envelopes

LEMMA SocketPromises ==
  ASSUME ServiceP!Socket!AckedIsKept
  PROVE  Socket!AckedIsKept
BY Zenon DEF Socket!AckedIsKept, Socket!Served, ServiceP!Socket!AckedIsKept, ServiceP!Socket!Served

\* The invariant of its module, while it is the one that moves.
SocketInv == part = "socket" => ServiceP!SocketInv

LEMMA SocketBegins == Init => SocketInv
BY SocketHypotheses, SocketStarts, ServiceP!SocketInvInit DEF Init, SocketInv

LEMMA SocketKeeps == ASSUME SocketInv, [Next]_vars PROVE SocketInv'
<1>1. part' = part BY PartStands
<1>2. CASE part = "socket"
  <2>1. ServiceP!Socket!Next \/ ServiceP!Socket!vars' = ServiceP!Socket!vars
    BY <1>2, SocketSteps DEF Next, vars, ServiceP!Socket!vars
  <2> QED BY <1>1, <1>2, <2>1, SocketHypotheses, ServiceP!SocketInvStep DEF SocketInv
<1> QED BY <1>1, <1>2 DEF SocketInv

\* The constants here are as its module asks.
LEMMA SignHypotheses == ServiceP!SignHypotheses
<1>1. ServiceP!IsFiniteSet({"c1"}) BY ServiceP!FS_Singleton
<1> QED BY <1>1 DEF ServiceP!SignHypotheses, ServiceP!NineProviders, ServiceP!Sign!None, ServiceP!Sign!Old

\* A sign-in moves here as in the module of its own, and starts and promises the same.
LEMMA SignSteps == ASSUME Sign!Next PROVE ServiceP!Sign!Next
<1>1. ASSUME NEW c, Sign!CallStep(c)
      PROVE  ServiceP!Sign!CallStep(c)
  BY Zenon, <1>1 DEF Sign!CallStep, Sign!UpsertFails, Sign!tokens, Sign!chosen, Sign!Fault, Sign!None,
    Sign!Failed, Sign!End, Sign!Again, Sign!Forget, Sign!At, Sign!Script, Sign!ObsidianScript, Sign!Save,
    Sign!Step, Sign!VaultChecks, Sign!Check, Sign!SentryScript, Sign!LinearScript, Sign!NotionScript,
    Sign!SlackScript, Sign!SlackInput, Sign!TelegramScript, Sign!GithubScript, Sign!GmailScript,
    Sign!MicrosoftScript, Sign!GraphIdentity, Sign!IdToken, Sign!UpsertStep, Sign!Kept, Sign!Go,
    Sign!Active, Sign!Put, Sign!Draw, Sign!saved, Sign!Look, Sign!Same, Sign!NothingStored,
    Sign!TestSend, Sign!StillActive, Sign!Pair, Sign!Lock, Sign!Poll, Sign!WaitEnds, Sign!CheckStep,
    ServiceP!Sign!CallStep, ServiceP!Sign!UpsertFails, ServiceP!Sign!tokens, ServiceP!Sign!chosen,
    ServiceP!Sign!Fault, ServiceP!Sign!None, ServiceP!Sign!Failed, ServiceP!Sign!End,
    ServiceP!Sign!Again, ServiceP!Sign!Forget, ServiceP!Sign!At, ServiceP!Sign!Script,
    ServiceP!Sign!ObsidianScript, ServiceP!Sign!Save, ServiceP!Sign!Step, ServiceP!Sign!VaultChecks,
    ServiceP!Sign!Check, ServiceP!Sign!SentryScript, ServiceP!Sign!LinearScript,
    ServiceP!Sign!NotionScript, ServiceP!Sign!SlackScript, ServiceP!Sign!SlackInput,
    ServiceP!Sign!TelegramScript, ServiceP!Sign!GithubScript, ServiceP!Sign!GmailScript,
    ServiceP!Sign!MicrosoftScript, ServiceP!Sign!GraphIdentity, ServiceP!Sign!IdToken,
    ServiceP!Sign!UpsertStep, ServiceP!Sign!Kept, ServiceP!Sign!Go, ServiceP!Sign!Active,
    ServiceP!Sign!Put, ServiceP!Sign!Draw, ServiceP!Sign!saved, ServiceP!Sign!Look, ServiceP!Sign!Same,
    ServiceP!Sign!NothingStored, ServiceP!Sign!TestSend, ServiceP!Sign!StillActive, ServiceP!Sign!Pair,
    ServiceP!Sign!Lock, ServiceP!Sign!Poll, ServiceP!Sign!WaitEnds, ServiceP!Sign!CheckStep
<1>2. ASSUME NEW c, Sign!PrepareAnswered(c) \/ Sign!Expire(c) \/ Sign!ExpireLater(c) \/ Sign!Cancel(c)
             \/ Sign!Complete(c) \/ Sign!Callback(c)
      PROVE  ServiceP!Sign!PrepareAnswered(c) \/ ServiceP!Sign!Expire(c) \/ ServiceP!Sign!ExpireLater(c)
             \/ ServiceP!Sign!Cancel(c) \/ ServiceP!Sign!Complete(c) \/ ServiceP!Sign!Callback(c)
  BY Zenon, <1>2 DEF Sign!PrepareAnswered, Sign!tokens, Sign!saved, Sign!locals, Sign!chosen,
    Sign!PrepareFlaws, Sign!TelegramPrepare, Sign!GithubPrepare, Sign!GmailPrepare, Sign!ListenerStart,
    Sign!MicrosoftPrepare, Sign!Expire, Sign!At, Sign!Script, Sign!ObsidianScript, Sign!Save, Sign!Step,
    Sign!VaultChecks, Sign!Check, Sign!SentryScript, Sign!LinearScript, Sign!NotionScript,
    Sign!SlackScript, Sign!SlackInput, Sign!TelegramScript, Sign!GithubScript, Sign!GmailScript,
    Sign!MicrosoftScript, Sign!GraphIdentity, Sign!IdToken, Sign!ExpireLater, Sign!Cancel, Sign!Loopback,
    Sign!Complete, Sign!Sessions, Sign!Callback, Sign!NothingStored, Sign!End, Sign!Go,
    ServiceP!Sign!PrepareAnswered, ServiceP!Sign!tokens, ServiceP!Sign!saved, ServiceP!Sign!locals,
    ServiceP!Sign!chosen, ServiceP!Sign!PrepareFlaws, ServiceP!Sign!TelegramPrepare,
    ServiceP!Sign!GithubPrepare, ServiceP!Sign!GmailPrepare, ServiceP!Sign!ListenerStart,
    ServiceP!Sign!MicrosoftPrepare, ServiceP!Sign!Expire, ServiceP!Sign!At, ServiceP!Sign!Script,
    ServiceP!Sign!ObsidianScript, ServiceP!Sign!Save, ServiceP!Sign!Step, ServiceP!Sign!VaultChecks,
    ServiceP!Sign!Check, ServiceP!Sign!SentryScript, ServiceP!Sign!LinearScript,
    ServiceP!Sign!NotionScript, ServiceP!Sign!SlackScript, ServiceP!Sign!SlackInput,
    ServiceP!Sign!TelegramScript, ServiceP!Sign!GithubScript, ServiceP!Sign!GmailScript,
    ServiceP!Sign!MicrosoftScript, ServiceP!Sign!GraphIdentity, ServiceP!Sign!IdToken,
    ServiceP!Sign!ExpireLater, ServiceP!Sign!Cancel, ServiceP!Sign!Loopback, ServiceP!Sign!Complete,
    ServiceP!Sign!Sessions, ServiceP!Sign!Callback, ServiceP!Sign!NothingStored, ServiceP!Sign!End,
    ServiceP!Sign!Go
<1>3. ASSUME NEW c, NEW f, NEW a, NEW t, Sign!ConnectPrivate(c, f, a) \/ Sign!Prepare(c, f, a, t)
      PROVE  ServiceP!Sign!ConnectPrivate(c, f, a) \/ ServiceP!Sign!Prepare(c, f, a, t)
  BY Zenon, <1>3 DEF Sign!ConnectPrivate, Sign!tokens, Sign!saved, Sign!locals, Sign!sessions, Sign!None,
    Sign!Answers, Sign!Sessions, Sign!Loopback, Sign!Prepare, Sign!SweptFlags, Sign!Swept,
    Sign!Cardinality, ServiceP!Sign!ConnectPrivate, ServiceP!Sign!tokens, ServiceP!Sign!saved,
    ServiceP!Sign!locals, ServiceP!Sign!sessions, ServiceP!Sign!None, ServiceP!Sign!Answers,
    ServiceP!Sign!Sessions, ServiceP!Sign!Loopback, ServiceP!Sign!Prepare, ServiceP!Sign!SweptFlags,
    ServiceP!Sign!Swept, ServiceP!Sign!Cardinality
<1>4. ASSUME NEW p, NEW a, Sign!Choose(p, a) \/ Sign!Quit \/ Sign!Refresh
      PROVE  ServiceP!Sign!Choose(p, a) \/ ServiceP!Sign!Quit \/ ServiceP!Sign!Refresh
  BY Zenon, <1>4 DEF Sign!Choose, Sign!locals, Sign!sessions, Sign!Old, Sign!None, Sign!Quit,
    Sign!tokens, Sign!chosen, Sign!Fault, Sign!Refresh, Sign!saved, Sign!KeepsGrant, Sign!Refreshing,
    ServiceP!Sign!Choose, ServiceP!Sign!locals, ServiceP!Sign!sessions, ServiceP!Sign!Old,
    ServiceP!Sign!None, ServiceP!Sign!Quit, ServiceP!Sign!tokens, ServiceP!Sign!chosen,
    ServiceP!Sign!Fault, ServiceP!Sign!Refresh, ServiceP!Sign!saved, ServiceP!Sign!KeepsGrant,
    ServiceP!Sign!Refreshing
<1>5. ASSUME NEW p
      PROVE  Sign!Flaws(p) = ServiceP!Sign!Flaws(p)
  BY Zenon DEF Sign!Flaws, Sign!PrepareFlaws, Sign!TelegramPrepare, Sign!GithubPrepare,
    Sign!GmailPrepare, Sign!ListenerStart, Sign!MicrosoftPrepare, Sign!Script, Sign!ObsidianScript,
    Sign!Save, Sign!Step, Sign!VaultChecks, Sign!Check, Sign!SentryScript, Sign!LinearScript,
    Sign!NotionScript, Sign!SlackScript, Sign!SlackInput, Sign!TelegramScript, Sign!GithubScript,
    Sign!GmailScript, Sign!MicrosoftScript, Sign!GraphIdentity, Sign!IdToken, ServiceP!Sign!Flaws,
    ServiceP!Sign!PrepareFlaws, ServiceP!Sign!TelegramPrepare, ServiceP!Sign!GithubPrepare,
    ServiceP!Sign!GmailPrepare, ServiceP!Sign!ListenerStart, ServiceP!Sign!MicrosoftPrepare,
    ServiceP!Sign!Script, ServiceP!Sign!ObsidianScript, ServiceP!Sign!Save, ServiceP!Sign!Step,
    ServiceP!Sign!VaultChecks, ServiceP!Sign!Check, ServiceP!Sign!SentryScript,
    ServiceP!Sign!LinearScript, ServiceP!Sign!NotionScript, ServiceP!Sign!SlackScript,
    ServiceP!Sign!SlackInput, ServiceP!Sign!TelegramScript, ServiceP!Sign!GithubScript,
    ServiceP!Sign!GmailScript, ServiceP!Sign!MicrosoftScript, ServiceP!Sign!GraphIdentity,
    ServiceP!Sign!IdToken
<1> QED BY <1>1, <1>2, <1>3, <1>4, <1>5 DEF Sign!Next, Sign!None, ServiceP!Sign!Next, ServiceP!Sign!None

LEMMA SignStarts == ASSUME Sign!Init PROVE ServiceP!Sign!Init
BY Zenon DEF Sign!Init, Sign!None, Sign!Refs, Sign!Old, ServiceP!Sign!Init, ServiceP!Sign!None,
  ServiceP!Sign!Refs, ServiceP!Sign!Old

LEMMA SignPromises ==
  ASSUME ServiceP!Sign!RowHasItsCredential, ServiceP!Sign!NoStrayCredential,
         ServiceP!Sign!CancelledNeverConnects, ServiceP!Sign!AcceptedIsSound, ServiceP!Sign!OneTelegram,
         ServiceP!Sign!TestedOnce, ServiceP!Sign!GrantOutlivesRefresh
  PROVE  Sign!RowHasItsCredential /\ Sign!NoStrayCredential /\ Sign!CancelledNeverConnects /\
         Sign!AcceptedIsSound /\ Sign!OneTelegram /\ Sign!TestedOnce /\ Sign!GrantOutlivesRefresh
BY Zenon DEF Sign!RowHasItsCredential, Sign!None, Sign!NoStrayCredential, Sign!Refs, Sign!Old,
  Sign!CancelledNeverConnects, Sign!AcceptedIsSound, Sign!OneTelegram, Sign!Cardinality, Sign!TestedOnce,
  Sign!GrantOutlivesRefresh, ServiceP!Sign!RowHasItsCredential, ServiceP!Sign!None,
  ServiceP!Sign!NoStrayCredential, ServiceP!Sign!Refs, ServiceP!Sign!Old,
  ServiceP!Sign!CancelledNeverConnects, ServiceP!Sign!AcceptedIsSound, ServiceP!Sign!OneTelegram,
  ServiceP!Sign!Cardinality, ServiceP!Sign!TestedOnce, ServiceP!Sign!GrantOutlivesRefresh

\* The invariant of its module, while it is the one that moves.
SignInv == part = "sign_in" => ServiceP!SignInv

LEMMA SignBegins == Init => SignInv
BY SignHypotheses, SignStarts, ServiceP!SignInvInit DEF Init, SignInv

LEMMA SignKeeps == ASSUME SignInv, [Next]_vars PROVE SignInv'
<1>1. part' = part BY PartStands
<1>2. CASE part = "sign_in"
  <2>1. ServiceP!Sign!Next \/ ServiceP!Sign!vars' = ServiceP!Sign!vars
    BY <1>2, SignSteps DEF Next, vars, ServiceP!Sign!vars, ServiceP!Sign!tokens, ServiceP!Sign!saved,
      ServiceP!Sign!locals, ServiceP!Sign!sessions, ServiceP!Sign!chosen
  <2> QED BY <1>1, <1>2, <2>1, SignHypotheses, ServiceP!SignInvStep DEF SignInv
<1> QED BY <1>1, <1>2 DEF SignInv

\* The constants here are as its module asks.
LEMMA WaHypotheses == ServiceP!DeviceHypotheses
BY DEF ServiceP!DeviceHypotheses

\* A device moves here as in the module of its own, and starts and promises the same.
LEMMA WaSteps == ASSUME Wa!Next PROVE ServiceP!Device!Next
<1>1. ASSUME NEW c, Wa!Cancel(c) \/ Wa!CancelStops(c) \/ Wa!CancelCleans(c)
      PROVE  ServiceP!Device!Cancel(c) \/ ServiceP!Device!CancelStops(c)
             \/ ServiceP!Device!CancelCleans(c)
  BY Zenon, <1>1 DEF Wa!Cancel, Wa!At, Wa!CancelStops, Wa!Goes, Wa!CancelCleans, Wa!Idle, Wa!Fault,
    ServiceP!Device!Cancel, ServiceP!Device!At, ServiceP!Device!CancelStops, ServiceP!Device!Goes,
    ServiceP!Device!CancelCleans, ServiceP!Device!Idle, ServiceP!Device!Fault
<1>2. ASSUME NEW a, Wa!Begin(a) \/ Wa!RunStarts(a) \/ Wa!RunLaunches(a) \/ Wa!RunHears(a)
      PROVE  ServiceP!Device!Begin(a) \/ ServiceP!Device!RunStarts(a) \/ ServiceP!Device!RunLaunches(a)
             \/ ServiceP!Device!RunHears(a)
  BY Zenon, <1>2 DEF Wa!Begin, Wa!Unlinked, Wa!Fault, Wa!Ends, Wa!Idle, Wa!At, Wa!RunStarts, Wa!Run,
    Wa!RunLaunches, Wa!RunHears, Wa!Terminal, ServiceP!Device!Begin, ServiceP!Device!Unlinked,
    ServiceP!Device!Fault, ServiceP!Device!Ends, ServiceP!Device!Idle, ServiceP!Device!At,
    ServiceP!Device!RunStarts, ServiceP!Device!Run, ServiceP!Device!RunLaunches,
    ServiceP!Device!RunHears, ServiceP!Device!Terminal
<1>3. ASSUME Wa!TestBegins \/ Wa!TestAnswers \/ Wa!FinishBegins \/ Wa!Promote \/ Wa!FinishStarts
      PROVE  ServiceP!Device!TestBegins \/ ServiceP!Device!TestAnswers \/ ServiceP!Device!FinishBegins
             \/ ServiceP!Device!Promote \/ ServiceP!Device!FinishStarts
  BY Zenon, <1>3 DEF Wa!TestBegins, Wa!At, Wa!TestAnswers, Wa!StateAfterTest, Wa!Fault, Wa!Ends, Wa!Idle,
    Wa!FinishBegins, Wa!ClientStopped, Wa!Promote, Wa!Goes, Wa!FinishStarts, Wa!OwnerTakes,
    Wa!OthersStopped, ServiceP!Device!TestBegins, ServiceP!Device!At, ServiceP!Device!TestAnswers,
    ServiceP!Device!StateAfterTest, ServiceP!Device!Fault, ServiceP!Device!Ends, ServiceP!Device!Idle,
    ServiceP!Device!FinishBegins, ServiceP!Device!ClientStopped, ServiceP!Device!Promote,
    ServiceP!Device!Goes, ServiceP!Device!FinishStarts, ServiceP!Device!OwnerTakes,
    ServiceP!Device!OthersStopped
<1>4. ASSUME Wa!Boot \/ Wa!Reconnect \/ Wa!OwnerOpens \/ Wa!OwnerHears \/ Wa!Disconnect
             \/ Wa!DisconnectDeletes \/ Wa!Quit
      PROVE  ServiceP!Device!Boot \/ ServiceP!Device!Reconnect \/ ServiceP!Device!OwnerOpens
             \/ ServiceP!Device!OwnerHears \/ ServiceP!Device!Disconnect
             \/ ServiceP!Device!DisconnectDeletes \/ ServiceP!Device!Quit
  BY Zenon, <1>4 DEF Wa!Boot, Wa!OwnerTakes, Wa!OthersStopped, Wa!Stopped, Wa!Reconnect, Wa!Fault,
    Wa!OwnerOpens, Wa!OwnerHears, Wa!Disconnect, Wa!At, Wa!DisconnectDeletes, Wa!Ends, Wa!Idle, Wa!NoRow,
    Wa!Goes, Wa!Quit, ServiceP!Device!Boot, ServiceP!Device!OwnerTakes, ServiceP!Device!OthersStopped,
    ServiceP!Device!Stopped, ServiceP!Device!Reconnect, ServiceP!Device!Fault,
    ServiceP!Device!OwnerOpens, ServiceP!Device!OwnerHears, ServiceP!Device!Disconnect,
    ServiceP!Device!At, ServiceP!Device!DisconnectDeletes, ServiceP!Device!Ends, ServiceP!Device!Idle,
    ServiceP!Device!NoRow, ServiceP!Device!Goes, ServiceP!Device!Quit
<1> QED BY <1>1, <1>2, <1>3, <1>4 DEF Wa!Next, ServiceP!Device!Next

LEMMA WaStarts == ASSUME Wa!Init PROVE ServiceP!Device!Init
BY Zenon DEF Wa!Init, Wa!Stopped, Wa!NoRow, Wa!Idle, Wa!NewAttempt, ServiceP!Device!Init,
  ServiceP!Device!Stopped, ServiceP!Device!NoRow, ServiceP!Device!Idle, ServiceP!Device!NewAttempt

LEMMA WaPromises ==
  ASSUME ServiceP!Device!TestedBeforeConnected, ServiceP!Device!OneClientPerDevice,
         ServiceP!Device!ConnectedOpensItsStore
  PROVE  Wa!TestedBeforeConnected /\ Wa!OneClientPerDevice /\ Wa!ConnectedOpensItsStore
BY Zenon DEF Wa!TestedBeforeConnected, Wa!OneClientPerDevice, Wa!ConnectedOpensItsStore,
  ServiceP!Device!TestedBeforeConnected, ServiceP!Device!OneClientPerDevice,
  ServiceP!Device!ConnectedOpensItsStore

\* The invariant of its module, while it is the one that moves.
WaInv == part = "whatsapp" => ServiceP!DeviceInv

LEMMA WaBegins == Init => WaInv
BY WaHypotheses, WaStarts, ServiceP!DeviceInvInit DEF Init, WaInv

LEMMA WaKeeps == ASSUME WaInv, [Next]_vars PROVE WaInv'
<1>1. part' = part BY PartStands
<1>2. CASE part = "whatsapp"
  <2>1. ServiceP!Device!Next \/ ServiceP!Device!waVars' = ServiceP!Device!waVars
    BY <1>2, WaSteps DEF Next, vars, ServiceP!Device!waVars
  <2> QED BY <1>1, <1>2, <2>1, WaHypotheses, ServiceP!DeviceInvStep DEF WaInv
<1> QED BY <1>1, <1>2 DEF WaInv

\* The constants here are as its module asks.
LEMMA StoreHypotheses == ServiceP!TableHypotheses
BY DEF ServiceP!TableHypotheses, ServiceP!Tables!Blobs, ServiceP!Tables!SignalBlobs, ServiceP!Tables!DeviceBlob

\* The tables move here as in the module of their own, and start and promise the same.
LEMMA StoreSteps == ASSUME Store!Next PROVE ServiceP!Tables!Next
<1>1. ASSUME Store!Advance \/ Store!BeginUpload \/ Store!PurgeSecrets \/ Store!BreakOff
      PROVE  ServiceP!Tables!Advance \/ ServiceP!Tables!BeginUpload \/ ServiceP!Tables!PurgeSecrets
             \/ ServiceP!Tables!BreakOff
  BY Zenon, <1>1 DEF Store!Advance, Store!BeginUpload, Store!Call, Store!NoBatch, Store!PurgeSecrets,
    Store!BreakOff, Store!RolledBack, ServiceP!Tables!Advance, ServiceP!Tables!BeginUpload,
    ServiceP!Tables!Call, ServiceP!Tables!NoBatch, ServiceP!Tables!PurgeSecrets,
    ServiceP!Tables!BreakOff, ServiceP!Tables!RolledBack
<1>2. ASSUME NEW a, Store!ChooseArea(a)
      PROVE  ServiceP!Tables!ChooseArea(a)
  BY Zenon, <1>2 DEF Store!ChooseArea, ServiceP!Tables!ChooseArea
<1>3. ASSUME NEW c, Store!PurgeSent(c)
      PROVE  ServiceP!Tables!PurgeSent(c)
  BY Zenon, <1>3 DEF Store!PurgeSent, Store!Cutoff, Store!Call, Store!NoBatch, ServiceP!Tables!PurgeSent,
    ServiceP!Tables!Cutoff, ServiceP!Tables!Call, ServiceP!Tables!NoBatch
<1>4. ASSUME NEW S, Store!BeginBatch(S) \/ Store!DeleteMacs(S)
      PROVE  ServiceP!Tables!BeginBatch(S) \/ ServiceP!Tables!DeleteMacs(S)
  BY Zenon, <1>4 DEF Store!BeginBatch, Store!Call, Store!NoBatch, Store!DeleteMacs,
    ServiceP!Tables!BeginBatch, ServiceP!Tables!Call, ServiceP!Tables!NoBatch, ServiceP!Tables!DeleteMacs
<1>5. ASSUME NEW n, Store!StorePrekey(n) \/ Store!RemovePrekey(n) \/ Store!MarkUploaded(n)
             \/ Store!StoreSent(n) \/ Store!TakeSent(n) \/ Store!PutSecret(n) \/ Store!PutMac(n)
             \/ Store!ForgetDevice(n)
      PROVE  ServiceP!Tables!StorePrekey(n) \/ ServiceP!Tables!RemovePrekey(n)
             \/ ServiceP!Tables!MarkUploaded(n) \/ ServiceP!Tables!StoreSent(n)
             \/ ServiceP!Tables!TakeSent(n) \/ ServiceP!Tables!PutSecret(n) \/ ServiceP!Tables!PutMac(n)
             \/ ServiceP!Tables!ForgetDevice(n)
  BY Zenon, <1>5 DEF Store!StorePrekey, Store!Put, Store!Call, Store!NoBatch, Store!RemovePrekey,
    Store!Without, Store!MarkUploaded, Store!Marked, Store!At, Store!StoreSent, Store!TakeSent,
    Store!PutSecret, Store!SecretRow, Store!MergedTs, Store!MergedExpiry, Store!Max, Store!PutMac,
    Store!ForgetDevice, ServiceP!Tables!StorePrekey, ServiceP!Tables!Put, ServiceP!Tables!Call,
    ServiceP!Tables!NoBatch, ServiceP!Tables!RemovePrekey, ServiceP!Tables!Without,
    ServiceP!Tables!MarkUploaded, ServiceP!Tables!Marked, ServiceP!Tables!At, ServiceP!Tables!StoreSent,
    ServiceP!Tables!TakeSent, ServiceP!Tables!PutSecret, ServiceP!Tables!SecretRow,
    ServiceP!Tables!MergedTs, ServiceP!Tables!MergedExpiry, ServiceP!Tables!Max, ServiceP!Tables!PutMac,
    ServiceP!Tables!ForgetDevice
<1>6. ASSUME NEW n, NEW s, Store!BlobDelete(s, n)
      PROVE  ServiceP!Tables!BlobDelete(s, n)
  BY Zenon, <1>6 DEF Store!BlobDelete, Store!Place, Store!Without, Store!Call, Store!NoBatch,
    ServiceP!Tables!BlobDelete, ServiceP!Tables!Place, ServiceP!Tables!Without, ServiceP!Tables!Call,
    ServiceP!Tables!NoBatch
<1>7. ASSUME NEW n, NEW s, NEW v, Store!BlobPut(s, n, v)
      PROVE  ServiceP!Tables!BlobPut(s, n, v)
  BY Zenon, <1>7 DEF Store!BlobPut, Store!Place, Store!Seal, Store!Put, Store!Call, Store!NoBatch,
    ServiceP!Tables!BlobPut, ServiceP!Tables!Place, ServiceP!Tables!Seal, ServiceP!Tables!Put,
    ServiceP!Tables!Call, ServiceP!Tables!NoBatch
<1>8. ASSUME NEW n, NEW g, Store!PutLid(n, g)
      PROVE  ServiceP!Tables!PutLid(n, g)
  BY Zenon, <1>8 DEF Store!PutLid, Store!PhoneColumn, Store!Put, Store!Call, Store!NoBatch,
    ServiceP!Tables!PutLid, ServiceP!Tables!PhoneColumn, ServiceP!Tables!Put, ServiceP!Tables!Call,
    ServiceP!Tables!NoBatch
<1>9. ASSUME NEW n, NEW g, NEW has, Store!SetDevice(g, n, has)
      PROVE  ServiceP!Tables!SetDevice(g, n, has)
  BY Zenon, <1>9 DEF Store!SetDevice, Store!Put, Store!Call, Store!NoBatch, ServiceP!Tables!SetDevice,
    ServiceP!Tables!Put, ServiceP!Tables!Call, ServiceP!Tables!NoBatch
<1>10. ASSUME NEW g, Store!ClearDevices(g)
      PROVE  ServiceP!Tables!ClearDevices(g)
  BY Zenon, <1>10 DEF Store!ClearDevices, Store!Call, Store!NoBatch, ServiceP!Tables!ClearDevices,
    ServiceP!Tables!Call, ServiceP!Tables!NoBatch
<1> QED BY <1>1, <1>2, <1>3, <1>4, <1>5, <1>6, <1>7, <1>8, <1>9, <1>10
  DEF Store!Next, Store!Values, ServiceP!Tables!Next, ServiceP!Tables!Values

LEMMA StoreStarts == ASSUME Store!Init PROVE ServiceP!Tables!Init
BY Zenon DEF Store!Init, Store!NoBatch, ServiceP!Tables!Init, ServiceP!Tables!NoBatch

LEMMA StorePromises ==
  ASSUME ServiceP!Tables!GoneStaysGone, ServiceP!Tables!ReadIsWritten, ServiceP!Tables!RetriesAreShort,
         ServiceP!Tables!BatchesAreWhole, ServiceP!Tables!PhoneAgrees
  PROVE  Store!GoneStaysGone /\ Store!ReadIsWritten /\ Store!RetriesAreShort /\
         Store!BatchesAreWhole /\ Store!PhoneAgrees
BY Zenon DEF Store!GoneStaysGone, Store!At, Store!ReadIsWritten, Store!BlobGet, Store!Place, Store!Open,
  Store!RetriesAreShort, Store!BatchesAreWhole, Store!NoBatch, Store!PhoneAgrees, Store!PhoneRow,
  ServiceP!Tables!GoneStaysGone, ServiceP!Tables!At, ServiceP!Tables!ReadIsWritten,
  ServiceP!Tables!BlobGet, ServiceP!Tables!Place, ServiceP!Tables!Open, ServiceP!Tables!RetriesAreShort,
  ServiceP!Tables!BatchesAreWhole, ServiceP!Tables!NoBatch, ServiceP!Tables!PhoneAgrees,
  ServiceP!Tables!PhoneRow

\* The invariant of its module, while it is the one that moves.
StoreInv == part = "store" => ServiceP!TablesInv

LEMMA StoreBegins == Init => StoreInv
BY StoreHypotheses, StoreStarts, ServiceP!TablesInvInit DEF Init, StoreInv

LEMMA StoreKeeps == ASSUME StoreInv, [Next]_vars PROVE StoreInv'
<1>1. part' = part BY PartStands
<1>2. CASE part = "store"
  <2>1. ServiceP!Tables!Next \/ ServiceP!Tables!psVars' = ServiceP!Tables!psVars
    BY <1>2, StoreSteps DEF Next, vars, ServiceP!Tables!psVars
  <2> QED BY <1>1, <1>2, <2>1, StoreHypotheses, ServiceP!TablesInvStep DEF StoreInv
<1> QED BY <1>1, <1>2 DEF StoreInv

-----------------------------------------------------------------------------
SignsP == INSTANCE ServiceProofs WITH
  Benefits <- {"individual", "other"}, Deadlines <- {Nil, 1},
  Grace <- 1, Devices <- 1, MaxDay <- 2, MaxRefs <- 1, MaxFaults <- 1, None <- Nil,
  Mentions <- {"m1", "m2"}, Bad <- {"b1"}, Noise <- {"n1"}, Triggers <- {1, 2}, BatchLimit <- 2,
  MaxBreaks <- 2, config <- x1, day <- x2, key <- x3, row <- x4, vault <- x5, op <- x6, ghost <- x7,
  drawn <- x8, faults <- x9, unacked <- x1, stream <- x2, call <- x3, events <- x4, todo <- x5,
  persisted <- x6, overrun <- x7, excused <- x8, breaks <- x9,
  Providers <- {"github", "telegram", "gmail"},
  Calls <- {"c1", "c2"}, Accounts <- {"a"}, MaxSessions <- 2, MaxTroubles <- 1,
  provider <- x1, had <- x2, flaw <- x3, account <- x4, target <- x5, session <- x6, cancelled <- x7,
  stopped <- x8, expired <- x9, pc <- x10, result <- x11, ref <- x12, fresh <- x13, prior <- x14,
  paired <- x15, store <- x16, rows <- x17, sent <- x18, pardoned <- x19, grant <- x20, reauth <- x21,
  revoked <- x22, troubles <- x23,
 Attempts <- {"a"}, MaxFailures <- 2, att <- x1, pairing <- x2, cmd <- x3, client <- x4, keys <- x5,
  staging <- x6, final <- x7, link <- x8, owner <- x9, running <- x10, withdrawn <- x11, failures <- x12,
 Areas <- {"blobs", "prekeys", "retry", "secrets", "macs", "lids", "devices"},
  Spaces <- {"session", "device"}, Names <- {1, 2}, Groups <- {"g", "h"}, Retention <- 2, MaxClock <- 4,
  MaxCalls <- 5, area <- x1, clock <- x2, table <- x3, upload <- x4, gone <- x5, purged <- x6,
  batch <- x7, written <- x8, calls <- x9

\* The constants here are as its module asks.
LEMMA SignsHypotheses == SignsP!SignHypotheses
<1>1. SignsP!IsFiniteSet({"c1"}) BY SignsP!FS_Singleton
<1>2. SignsP!IsFiniteSet({"c1"} \cup {"c2"}) BY <1>1, SignsP!FS_AddElement
<1>3. {"c1"} \cup {"c2"} = {"c1", "c2"} OBVIOUS
<1> QED BY <1>2, <1>3 DEF SignsP!SignHypotheses, SignsP!NineProviders, SignsP!Sign!None, SignsP!Sign!Old

\* Two sign-ins move here as in the module of its own, and start and promise the same.
LEMMA SignsSteps == ASSUME Signs!Next PROVE SignsP!Sign!Next
<1>1. ASSUME NEW c, Signs!CallStep(c)
      PROVE  SignsP!Sign!CallStep(c)
  BY Zenon, <1>1 DEF Signs!CallStep, Signs!UpsertFails, Signs!tokens, Signs!chosen, Signs!Fault,
    Signs!None, Signs!Failed, Signs!End, Signs!Again, Signs!Forget, Signs!At, Signs!Script,
    Signs!ObsidianScript, Signs!Save, Signs!Step, Signs!VaultChecks, Signs!Check, Signs!SentryScript,
    Signs!LinearScript, Signs!NotionScript, Signs!SlackScript, Signs!SlackInput, Signs!TelegramScript,
    Signs!GithubScript, Signs!GmailScript, Signs!MicrosoftScript, Signs!GraphIdentity, Signs!IdToken,
    Signs!UpsertStep, Signs!Kept, Signs!Go, Signs!Active, Signs!Put, Signs!Draw, Signs!saved, Signs!Look,
    Signs!Same, Signs!NothingStored, Signs!TestSend, Signs!StillActive, Signs!Pair, Signs!Lock,
    Signs!Poll, Signs!WaitEnds, Signs!CheckStep, SignsP!Sign!CallStep, SignsP!Sign!UpsertFails,
    SignsP!Sign!tokens, SignsP!Sign!chosen, SignsP!Sign!Fault, SignsP!Sign!None, SignsP!Sign!Failed,
    SignsP!Sign!End, SignsP!Sign!Again, SignsP!Sign!Forget, SignsP!Sign!At, SignsP!Sign!Script,
    SignsP!Sign!ObsidianScript, SignsP!Sign!Save, SignsP!Sign!Step, SignsP!Sign!VaultChecks,
    SignsP!Sign!Check, SignsP!Sign!SentryScript, SignsP!Sign!LinearScript, SignsP!Sign!NotionScript,
    SignsP!Sign!SlackScript, SignsP!Sign!SlackInput, SignsP!Sign!TelegramScript,
    SignsP!Sign!GithubScript, SignsP!Sign!GmailScript, SignsP!Sign!MicrosoftScript,
    SignsP!Sign!GraphIdentity, SignsP!Sign!IdToken, SignsP!Sign!UpsertStep, SignsP!Sign!Kept,
    SignsP!Sign!Go, SignsP!Sign!Active, SignsP!Sign!Put, SignsP!Sign!Draw, SignsP!Sign!saved,
    SignsP!Sign!Look, SignsP!Sign!Same, SignsP!Sign!NothingStored, SignsP!Sign!TestSend,
    SignsP!Sign!StillActive, SignsP!Sign!Pair, SignsP!Sign!Lock, SignsP!Sign!Poll, SignsP!Sign!WaitEnds,
    SignsP!Sign!CheckStep
<1>2. ASSUME NEW c, Signs!PrepareAnswered(c) \/ Signs!Expire(c) \/ Signs!ExpireLater(c)
             \/ Signs!Cancel(c) \/ Signs!Complete(c) \/ Signs!Callback(c)
      PROVE  SignsP!Sign!PrepareAnswered(c) \/ SignsP!Sign!Expire(c) \/ SignsP!Sign!ExpireLater(c)
             \/ SignsP!Sign!Cancel(c) \/ SignsP!Sign!Complete(c) \/ SignsP!Sign!Callback(c)
  BY Zenon, <1>2 DEF Signs!PrepareAnswered, Signs!tokens, Signs!saved, Signs!locals, Signs!chosen,
    Signs!PrepareFlaws, Signs!TelegramPrepare, Signs!GithubPrepare, Signs!GmailPrepare,
    Signs!ListenerStart, Signs!MicrosoftPrepare, Signs!Expire, Signs!At, Signs!Script,
    Signs!ObsidianScript, Signs!Save, Signs!Step, Signs!VaultChecks, Signs!Check, Signs!SentryScript,
    Signs!LinearScript, Signs!NotionScript, Signs!SlackScript, Signs!SlackInput, Signs!TelegramScript,
    Signs!GithubScript, Signs!GmailScript, Signs!MicrosoftScript, Signs!GraphIdentity, Signs!IdToken,
    Signs!ExpireLater, Signs!Cancel, Signs!Loopback, Signs!Complete, Signs!Sessions, Signs!Callback,
    Signs!NothingStored, Signs!End, Signs!Go, SignsP!Sign!PrepareAnswered, SignsP!Sign!tokens,
    SignsP!Sign!saved, SignsP!Sign!locals, SignsP!Sign!chosen, SignsP!Sign!PrepareFlaws,
    SignsP!Sign!TelegramPrepare, SignsP!Sign!GithubPrepare, SignsP!Sign!GmailPrepare,
    SignsP!Sign!ListenerStart, SignsP!Sign!MicrosoftPrepare, SignsP!Sign!Expire, SignsP!Sign!At,
    SignsP!Sign!Script, SignsP!Sign!ObsidianScript, SignsP!Sign!Save, SignsP!Sign!Step,
    SignsP!Sign!VaultChecks, SignsP!Sign!Check, SignsP!Sign!SentryScript, SignsP!Sign!LinearScript,
    SignsP!Sign!NotionScript, SignsP!Sign!SlackScript, SignsP!Sign!SlackInput,
    SignsP!Sign!TelegramScript, SignsP!Sign!GithubScript, SignsP!Sign!GmailScript,
    SignsP!Sign!MicrosoftScript, SignsP!Sign!GraphIdentity, SignsP!Sign!IdToken, SignsP!Sign!ExpireLater,
    SignsP!Sign!Cancel, SignsP!Sign!Loopback, SignsP!Sign!Complete, SignsP!Sign!Sessions,
    SignsP!Sign!Callback, SignsP!Sign!NothingStored, SignsP!Sign!End, SignsP!Sign!Go
<1>3. ASSUME NEW c, NEW f, NEW a, NEW t, Signs!ConnectPrivate(c, f, a) \/ Signs!Prepare(c, f, a, t)
      PROVE  SignsP!Sign!ConnectPrivate(c, f, a) \/ SignsP!Sign!Prepare(c, f, a, t)
  BY Zenon, <1>3 DEF Signs!ConnectPrivate, Signs!tokens, Signs!saved, Signs!locals, Signs!sessions,
    Signs!None, Signs!Answers, Signs!Sessions, Signs!Loopback, Signs!Prepare, Signs!SweptFlags,
    Signs!Swept, Signs!Cardinality, SignsP!Sign!ConnectPrivate, SignsP!Sign!tokens, SignsP!Sign!saved,
    SignsP!Sign!locals, SignsP!Sign!sessions, SignsP!Sign!None, SignsP!Sign!Answers,
    SignsP!Sign!Sessions, SignsP!Sign!Loopback, SignsP!Sign!Prepare, SignsP!Sign!SweptFlags,
    SignsP!Sign!Swept, SignsP!Sign!Cardinality
<1>4. ASSUME NEW p, NEW a, Signs!Choose(p, a) \/ Signs!Quit \/ Signs!Refresh
      PROVE  SignsP!Sign!Choose(p, a) \/ SignsP!Sign!Quit \/ SignsP!Sign!Refresh
  BY Zenon, <1>4 DEF Signs!Choose, Signs!locals, Signs!sessions, Signs!Old, Signs!None, Signs!Quit,
    Signs!tokens, Signs!chosen, Signs!Fault, Signs!Refresh, Signs!saved, Signs!KeepsGrant,
    Signs!Refreshing, SignsP!Sign!Choose, SignsP!Sign!locals, SignsP!Sign!sessions, SignsP!Sign!Old,
    SignsP!Sign!None, SignsP!Sign!Quit, SignsP!Sign!tokens, SignsP!Sign!chosen, SignsP!Sign!Fault,
    SignsP!Sign!Refresh, SignsP!Sign!saved, SignsP!Sign!KeepsGrant, SignsP!Sign!Refreshing
<1>5. ASSUME NEW p
      PROVE  Signs!Flaws(p) = SignsP!Sign!Flaws(p)
  BY Zenon DEF Signs!Flaws, Signs!PrepareFlaws, Signs!TelegramPrepare, Signs!GithubPrepare,
    Signs!GmailPrepare, Signs!ListenerStart, Signs!MicrosoftPrepare, Signs!Script, Signs!ObsidianScript,
    Signs!Save, Signs!Step, Signs!VaultChecks, Signs!Check, Signs!SentryScript, Signs!LinearScript,
    Signs!NotionScript, Signs!SlackScript, Signs!SlackInput, Signs!TelegramScript, Signs!GithubScript,
    Signs!GmailScript, Signs!MicrosoftScript, Signs!GraphIdentity, Signs!IdToken, SignsP!Sign!Flaws,
    SignsP!Sign!PrepareFlaws, SignsP!Sign!TelegramPrepare, SignsP!Sign!GithubPrepare,
    SignsP!Sign!GmailPrepare, SignsP!Sign!ListenerStart, SignsP!Sign!MicrosoftPrepare,
    SignsP!Sign!Script, SignsP!Sign!ObsidianScript, SignsP!Sign!Save, SignsP!Sign!Step,
    SignsP!Sign!VaultChecks, SignsP!Sign!Check, SignsP!Sign!SentryScript, SignsP!Sign!LinearScript,
    SignsP!Sign!NotionScript, SignsP!Sign!SlackScript, SignsP!Sign!SlackInput,
    SignsP!Sign!TelegramScript, SignsP!Sign!GithubScript, SignsP!Sign!GmailScript,
    SignsP!Sign!MicrosoftScript, SignsP!Sign!GraphIdentity, SignsP!Sign!IdToken
<1> QED BY <1>1, <1>2, <1>3, <1>4, <1>5 DEF Signs!Next, Signs!None, SignsP!Sign!Next, SignsP!Sign!None

LEMMA SignsStarts == ASSUME Signs!Init PROVE SignsP!Sign!Init
BY Zenon DEF Signs!Init, Signs!None, Signs!Refs, Signs!Old, SignsP!Sign!Init, SignsP!Sign!None,
  SignsP!Sign!Refs, SignsP!Sign!Old

LEMMA SignsPromises ==
  ASSUME SignsP!Sign!RowHasItsCredential, SignsP!Sign!NoStrayCredential,
         SignsP!Sign!CancelledNeverConnects, SignsP!Sign!AcceptedIsSound, SignsP!Sign!OneTelegram,
         SignsP!Sign!TestedOnce, SignsP!Sign!GrantOutlivesRefresh
  PROVE  Signs!RowHasItsCredential /\ Signs!NoStrayCredential /\ Signs!CancelledNeverConnects /\
         Signs!AcceptedIsSound /\ Signs!OneTelegram /\ Signs!TestedOnce /\
         Signs!GrantOutlivesRefresh
BY Zenon DEF Signs!RowHasItsCredential, Signs!None, Signs!NoStrayCredential, Signs!Refs, Signs!Old,
  Signs!CancelledNeverConnects, Signs!AcceptedIsSound, Signs!OneTelegram, Signs!Cardinality,
  Signs!TestedOnce, Signs!GrantOutlivesRefresh, SignsP!Sign!RowHasItsCredential, SignsP!Sign!None,
  SignsP!Sign!NoStrayCredential, SignsP!Sign!Refs, SignsP!Sign!Old, SignsP!Sign!CancelledNeverConnects,
  SignsP!Sign!AcceptedIsSound, SignsP!Sign!OneTelegram, SignsP!Sign!Cardinality, SignsP!Sign!TestedOnce,
  SignsP!Sign!GrantOutlivesRefresh

\* The invariant of its module, while it is the one that moves.
SignsInv == part = "sign_ins" => SignsP!SignInv

LEMMA SignsBegins == Init => SignsInv
BY SignsHypotheses, SignsStarts, SignsP!SignInvInit DEF Init, SignsInv

LEMMA SignsKeeps == ASSUME SignsInv, [Next]_vars PROVE SignsInv'
<1>1. part' = part BY PartStands
<1>2. CASE part = "sign_ins"
  <2>1. SignsP!Sign!Next \/ SignsP!Sign!vars' = SignsP!Sign!vars
    BY <1>2, SignsSteps DEF Next, vars, SignsP!Sign!vars, SignsP!Sign!tokens, SignsP!Sign!saved,
      SignsP!Sign!locals, SignsP!Sign!sessions, SignsP!Sign!chosen
  <2> QED BY <1>1, <1>2, <2>1, SignsHypotheses, SignsP!SignInvStep DEF SignsInv
<1> QED BY <1>1, <1>2 DEF SignsInv

\* The constants here are as its module asks.
LEMMA LinkHypotheses == SignsP!DeviceHypotheses
BY DEF SignsP!DeviceHypotheses

\* One attempt moves here as in the module of its own, and starts and promises the same.
LEMMA LinkSteps == ASSUME Link!Next PROVE SignsP!Device!Next
<1>1. ASSUME NEW c, Link!Cancel(c) \/ Link!CancelStops(c) \/ Link!CancelCleans(c)
      PROVE  SignsP!Device!Cancel(c) \/ SignsP!Device!CancelStops(c) \/ SignsP!Device!CancelCleans(c)
  BY Zenon, <1>1 DEF Link!Cancel, Link!At, Link!CancelStops, Link!Goes, Link!CancelCleans, Link!Idle,
    Link!Fault, SignsP!Device!Cancel, SignsP!Device!At, SignsP!Device!CancelStops, SignsP!Device!Goes,
    SignsP!Device!CancelCleans, SignsP!Device!Idle, SignsP!Device!Fault
<1>2. ASSUME NEW a, Link!Begin(a) \/ Link!RunStarts(a) \/ Link!RunLaunches(a) \/ Link!RunHears(a)
      PROVE  SignsP!Device!Begin(a) \/ SignsP!Device!RunStarts(a) \/ SignsP!Device!RunLaunches(a)
             \/ SignsP!Device!RunHears(a)
  BY Zenon, <1>2 DEF Link!Begin, Link!Unlinked, Link!Fault, Link!Ends, Link!Idle, Link!At,
    Link!RunStarts, Link!Run, Link!RunLaunches, Link!RunHears, Link!Terminal, SignsP!Device!Begin,
    SignsP!Device!Unlinked, SignsP!Device!Fault, SignsP!Device!Ends, SignsP!Device!Idle,
    SignsP!Device!At, SignsP!Device!RunStarts, SignsP!Device!Run, SignsP!Device!RunLaunches,
    SignsP!Device!RunHears, SignsP!Device!Terminal
<1>3. ASSUME Link!TestBegins \/ Link!TestAnswers \/ Link!FinishBegins \/ Link!Promote
             \/ Link!FinishStarts
      PROVE  SignsP!Device!TestBegins \/ SignsP!Device!TestAnswers \/ SignsP!Device!FinishBegins
             \/ SignsP!Device!Promote \/ SignsP!Device!FinishStarts
  BY Zenon, <1>3 DEF Link!TestBegins, Link!At, Link!TestAnswers, Link!StateAfterTest, Link!Fault,
    Link!Ends, Link!Idle, Link!FinishBegins, Link!ClientStopped, Link!Promote, Link!Goes,
    Link!FinishStarts, Link!OwnerTakes, Link!OthersStopped, SignsP!Device!TestBegins, SignsP!Device!At,
    SignsP!Device!TestAnswers, SignsP!Device!StateAfterTest, SignsP!Device!Fault, SignsP!Device!Ends,
    SignsP!Device!Idle, SignsP!Device!FinishBegins, SignsP!Device!ClientStopped, SignsP!Device!Promote,
    SignsP!Device!Goes, SignsP!Device!FinishStarts, SignsP!Device!OwnerTakes, SignsP!Device!OthersStopped
<1>4. ASSUME Link!Boot \/ Link!Reconnect \/ Link!OwnerOpens \/ Link!OwnerHears \/ Link!Disconnect
             \/ Link!DisconnectDeletes \/ Link!Quit
      PROVE  SignsP!Device!Boot \/ SignsP!Device!Reconnect \/ SignsP!Device!OwnerOpens
             \/ SignsP!Device!OwnerHears \/ SignsP!Device!Disconnect \/ SignsP!Device!DisconnectDeletes
             \/ SignsP!Device!Quit
  BY Zenon, <1>4 DEF Link!Boot, Link!OwnerTakes, Link!OthersStopped, Link!Stopped, Link!Reconnect,
    Link!Fault, Link!OwnerOpens, Link!OwnerHears, Link!Disconnect, Link!At, Link!DisconnectDeletes,
    Link!Ends, Link!Idle, Link!NoRow, Link!Goes, Link!Quit, SignsP!Device!Boot, SignsP!Device!OwnerTakes,
    SignsP!Device!OthersStopped, SignsP!Device!Stopped, SignsP!Device!Reconnect, SignsP!Device!Fault,
    SignsP!Device!OwnerOpens, SignsP!Device!OwnerHears, SignsP!Device!Disconnect, SignsP!Device!At,
    SignsP!Device!DisconnectDeletes, SignsP!Device!Ends, SignsP!Device!Idle, SignsP!Device!NoRow,
    SignsP!Device!Goes, SignsP!Device!Quit
<1> QED BY <1>1, <1>2, <1>3, <1>4 DEF Link!Next, SignsP!Device!Next

LEMMA LinkStarts == ASSUME Link!Init PROVE SignsP!Device!Init
BY Zenon DEF Link!Init, Link!Stopped, Link!NoRow, Link!Idle, Link!NewAttempt, SignsP!Device!Init,
  SignsP!Device!Stopped, SignsP!Device!NoRow, SignsP!Device!Idle, SignsP!Device!NewAttempt

LEMMA LinkPromises ==
  ASSUME SignsP!Device!TestedBeforeConnected, SignsP!Device!OneClientPerDevice,
         SignsP!Device!ConnectedOpensItsStore
  PROVE  Link!TestedBeforeConnected /\ Link!OneClientPerDevice /\ Link!ConnectedOpensItsStore
BY Zenon DEF Link!TestedBeforeConnected, Link!OneClientPerDevice, Link!ConnectedOpensItsStore,
  SignsP!Device!TestedBeforeConnected, SignsP!Device!OneClientPerDevice,
  SignsP!Device!ConnectedOpensItsStore

\* The invariant of its module, while it is the one that moves.
LinkInv == part = "whatsapp_link" => SignsP!DeviceInv

LEMMA LinkBegins == Init => LinkInv
BY LinkHypotheses, LinkStarts, SignsP!DeviceInvInit DEF Init, LinkInv

LEMMA LinkKeeps == ASSUME LinkInv, [Next]_vars PROVE LinkInv'
<1>1. part' = part BY PartStands
<1>2. CASE part = "whatsapp_link"
  <2>1. SignsP!Device!Next \/ SignsP!Device!waVars' = SignsP!Device!waVars
    BY <1>2, LinkSteps DEF Next, vars, SignsP!Device!waVars
  <2> QED BY <1>1, <1>2, <2>1, LinkHypotheses, SignsP!DeviceInvStep DEF LinkInv
<1> QED BY <1>1, <1>2 DEF LinkInv

-----------------------------------------------------------------------------
\* A mention that Slack has forgotten is in the batch of the call that acknowledged it, or with every
\* trigger, or in a batch whose call failed (slack.rs, events.rs).
THEOREM MentionsStayKept == Spec => []MentionsAreKept
<1>1. Init => SocketInv BY SocketBegins
<1>2. SocketInv /\ [Next]_vars => SocketInv' BY SocketKeeps
<1>3. SocketInv => MentionsAreKept
  BY SocketPromises DEF SocketInv, ServiceP!SocketInv, MentionsAreKept
<1> QED BY <1>1, <1>2, <1>3, PTL DEF Spec

\* The devices taken at Polar, the stored key and the row agree, and an outage neither revokes a license
\* nor prolongs it (licensing/service.rs).
THEOREM LicensesAreAccountedFor == Spec => []LicenseIsAccountedFor
<1>1. Init => LicInv BY LicBegins
<1>2. LicInv /\ [Next]_vars => LicInv' BY LicKeeps
<1>3. part = "license" => (LicInv => ServiceP!GraceIsBounded)
  BY LicHypotheses, ServiceP!GraceHolds DEF LicInv
<1>4. LicInv => LicenseIsAccountedFor
  BY <1>3, LicPromises
  DEF LicInv, ServiceP!LicInv, LicenseIsAccountedFor
<1> QED BY <1>1, <1>2, <1>4, PTL DEF Spec

\* Whatever the providers answer, and whoever cancels, retries, signs in twice or quits, what connects
\* was checked and has its credential, and no credential is left over (the providers' complete and poll).
THEOREM SignInsStaySound == Spec => []SignInsAreSound
<1>1. Init => SignInv /\ SignsInv BY SignBegins, SignsBegins
<1>2. SignInv /\ SignsInv /\ [Next]_vars => SignInv' /\ SignsInv' BY SignKeeps, SignsKeeps
<1>3. part = "sign_in" => (SignInv => ServiceP!SignPromise)
  BY SignHypotheses, ServiceP!SignInvPromises DEF SignInv
<1>4. part = "sign_ins" => (SignsInv => SignsP!SignPromise)
  BY SignsHypotheses, SignsP!SignInvPromises DEF SignsInv
<1>5. SignInv /\ SignsInv => SignInsAreSound
  BY <1>3, <1>4, SignPromises, SignsPromises DEF ServiceP!SignPromise, SignsP!SignPromise, SignInsAreSound
<1> QED BY <1>1, <1>2, <1>5, PTL DEF Spec

\* The linked device and its tables keep their word whatever overlaps, fails or is cut off: a connection was
\* tested and opens its database, one client runs, and what the tables hold is what was put there
\* (integrations/whatsapp).
THEOREM DevicesStayInStep == Spec => []DevicesAgree
<1>1. Init => WaInv /\ LinkInv /\ StoreInv BY WaBegins, LinkBegins, StoreBegins
<1>2. WaInv /\ LinkInv /\ StoreInv /\ [Next]_vars => WaInv' /\ LinkInv' /\ StoreInv'
  BY WaKeeps, LinkKeeps, StoreKeeps
<1>3. part = "whatsapp" =>
        (WaInv => /\ ServiceP!Device!TestedBeforeConnected /\ ServiceP!Device!OneClientPerDevice
                  /\ ServiceP!Device!ConnectedOpensItsStore)
  BY WaHypotheses, ServiceP!DevicePromises DEF WaInv
<1>4. part = "whatsapp_link" =>
        (LinkInv => /\ SignsP!Device!TestedBeforeConnected /\ SignsP!Device!OneClientPerDevice
                    /\ SignsP!Device!ConnectedOpensItsStore)
  BY LinkHypotheses, SignsP!DevicePromises DEF LinkInv
<1>5. part = "store" =>
        (StoreInv => /\ ServiceP!Tables!GoneStaysGone /\ ServiceP!Tables!ReadIsWritten
                     /\ ServiceP!Tables!RetriesAreShort /\ ServiceP!Tables!BatchesAreWhole
                     /\ ServiceP!Tables!PhoneAgrees)
  BY StoreHypotheses, ServiceP!TablesPromises DEF StoreInv
<1>6. WaInv /\ LinkInv /\ StoreInv => DevicesAgree
  BY <1>3, <1>4, <1>5, WaPromises, LinkPromises, StorePromises DEF DevicesAgree
<1> QED BY <1>1, <1>2, <1>6, PTL DEF Spec

\* Whatever is interrupted, fails or is damaged, the active version of a runtime and the one to go
\* back to are on the disk (runtime_package.rs).
THEOREM VersionsStay == Spec => []VersionsSurvive
<1>1. Init => PacksInv /\ DamageInv BY PacksBegins, DamageBegins
<1>2. PacksInv /\ DamageInv /\ [Next]_vars => PacksInv' /\ DamageInv' BY PacksKeeps, DamageKeeps
<1>3. PacksInv /\ DamageInv => VersionsSurvive
  BY PacksPromises, DamagePromises
  DEF PacksInv, PacksP!Inv, DamageInv, DamageP!Inv, VersionsSurvive
<1> QED BY <1>1, <1>2, <1>3, PTL DEF Spec

\* Whatever interrupts the starts that migrate a database, what belongs to a row stays with it, the
\* search finds everything, no credential is left unreferenced, the application works on migrated
\* tables only, and no numbering of the workflows gives a place twice (migrate.rs).
THEOREM NoStartLosesAnything == Spec => []StartsLoseNothing
<1>1. Init => MigrInv BY MigrBegins
<1>2. MigrInv /\ [Next]_vars => MigrInv' BY MigrKeeps
<1>3. MigrInv => StartsLoseNothing
  BY MigrPromises
  DEF MigrInv, DatabaseP!MigrInv, StartsLoseNothing
<1> QED BY <1>1, <1>2, <1>3, PTL DEF Spec

\* Whatever the user, a run and the reviews do in whichever order, and whatever fails, a memory is found
\* under the text it has and in its file, only active memories are pinned, what a run recalls is recorded, one
\* task at a time reviews, and only a completed review leaves candidates (memories.rs, memory_curation.rs).
THEOREM MemoriesStayInStep == Spec => []MemoriesAgree
<1>1. Init => MemInv BY MemBegins
<1>2. MemInv /\ [Next]_vars => MemInv' BY MemKeeps
<1>3. part = "memories" => (MemInv => DatabaseP!OneReviewer)
  BY MemHypotheses, DatabaseP!OneReviewerHolds DEF MemInv
<1>4. MemInv => MemoriesAgree
  BY <1>3, MemPromises
  DEF MemInv, DatabaseP!MemInv, MemoriesAgree
<1> QED BY <1>1, <1>2, <1>4, PTL DEF Spec
===============================================================================
