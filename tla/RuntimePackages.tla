-------------------------- MODULE RuntimePackages --------------------------
(***************************************************************************)
(* The store of managed runtime packages (agents/runtime_package.rs) for   *)
(* one runtime and target: the version directories, the staging and the    *)
(* recovery directory, the activation records, and one installer that      *)
(* stages, activates and rolls back.  The application may die between any  *)
(* two changes of the disk, any change may fail, and an installed package  *)
(* may be damaged at any time.                                             *)
(***************************************************************************)
EXTENDS Naturals, FiniteSets

CONSTANTS Versions,
          Retain,      \* RETAINED_ACTIVATION_RECORDS
          MaxGen,      \* bound: generations
          MaxDamage,   \* bound: damaged packages
          NoVersion

VARIABLES dir,         \* versions/<v>: "absent", "good", or what is wrong with it
          moved,       \* .recovery-*: [v, state] of a package set aside
          staged,      \* .staging-*: "none", "partial" or "copied"
          records,     \* activations/: [gen, active, previous]
          temp,        \* .activation-*.tmp exists
          at,          \* the installer's position
          job,         \* what it installs and what it was given
          current,     \* the record it read
          result,      \* of the last call
          damages

store == <<dir, moved, staged, records, temp>>
vars == <<store, at, job, current, result, damages>>

NoRecord == [gen |-> 0, active |-> NoVersion, previous |-> NoVersion]
NoJob == [v |-> NoVersion, given |-> NoVersion]
Nothing == [v |-> NoVersion, state |-> "absent"]
Newest == IF records = {} THEN NoRecord
          ELSE CHOOSE r \in records : \A q \in records : q.gen <= r.gen

Init ==
  /\ dir = [v \in Versions |-> "absent"] /\ moved = Nothing /\ staged = "none"
  /\ records = {} /\ temp = FALSE
  /\ at = "idle" /\ job = NoJob /\ current = NoRecord /\ result = "none" /\ damages = 0

Goto(l) == at' = l
Done(r) == at' = "idle" /\ result' = r /\ job' = NoJob /\ current' = NoRecord

(***************************************************************************)
(* stage_and_activate.                                                     *)
(***************************************************************************)
\* inspect_managed_runtime_package: the verification, the declared files, nothing else.
InspectPackage(flaw) ==
  CASE flaw \in {"manifest", "pin"} -> "ManifestInvalid"
    [] flaw \in {"runtime", "version", "target"} -> "Mismatch"
    [] flaw \in {"publisher", "unverified"} -> "PublisherUnverified"
    [] flaw \in {"undeclared", "symlink"} -> "ArtifactInvalid"
    [] flaw = "digest" -> "DigestMismatch"
    [] flaw \in {"license", "notice"} -> "LicenseMissing"
    [] OTHER -> "ok"

\* The caller brings a package, and the verification of what it believes to be active.
Stage(v, given, flaw) ==
  /\ at = "idle"
  /\ IF InspectPackage(flaw) # "ok"
     THEN Done(InspectPackage(flaw))
     ELSE Goto("recover") /\ job' = [v |-> v, given |-> given] /\ UNCHANGED <<current, result>>
  /\ UNCHANGED <<store, damages>>

\* Mutant: what was set aside is thrown away, whether its version is there or not.
RecoverReplacementByDeleting ==
  /\ at = "recover" /\ moved # Nothing /\ moved.state # "manifest"
  /\ Goto("prune") /\ moved' = Nothing /\ UNCHANGED dir
  /\ UNCHANGED <<staged, records, temp, job, current, result, damages>>

\* recover_interrupted_replacements: without a readable manifest the call fails.
RecoverReplacement ==
  /\ at = "recover" /\ moved # Nothing /\ moved.state # "manifest"
  /\ Goto("prune") /\ moved' = Nothing
  /\ dir' = IF dir[moved.v] = "absent" THEN [dir EXCEPT ![moved.v] = moved.state] ELSE dir
  /\ UNCHANGED <<staged, records, temp, job, current, result, damages>>

RecoverUnreadable ==
  /\ at = "recover" /\ moved.state = "manifest" /\ Done("InstalledManifestInvalid")
  /\ UNCHANGED <<store, damages>>

NothingToRecover ==
  /\ at = "recover" /\ moved = Nothing /\ Goto("prune")
  /\ UNCHANGED <<store, job, current, result, damages>>

\* prune_stale_staging, then the destination decides what there is to do.
PruneStaging ==
  /\ at = "prune" /\ staged' = "none"
  /\ Goto(CASE dir[job.v] = "absent" -> "copy" [] dir[job.v] = "good" -> "read" [] OTHER -> "aside")
  /\ UNCHANGED <<dir, moved, records, temp, job, current, result, damages>>

\* replace_corrupt_installed: the damaged package is renamed away ...
SetAside ==
  /\ at = "aside" /\ moved' = [v |-> job.v, state |-> dir[job.v]]
  /\ dir' = [dir EXCEPT ![job.v] = "absent"] /\ Goto("copy")
  /\ UNCHANGED <<staged, records, temp, job, current, result, damages>>

\* stage_verified_package: the artifacts are copied into a staging directory ...
CopyArtifacts ==
  /\ at = "copy" /\ staged' = "partial" /\ Goto("manifest")
  /\ UNCHANGED <<dir, moved, records, temp, job, current, result, damages>>

WriteManifest ==
  /\ at = "manifest" /\ staged' = "copied" /\ Goto("rename")
  /\ UNCHANGED <<dir, moved, records, temp, job, current, result, damages>>

\* ... inspected there, and renamed to its place; what was set aside goes.
RenameStaged ==
  /\ at = "rename" /\ staged = "copied"
  /\ staged' = "none" /\ dir' = [dir EXCEPT ![job.v] = "good"]
  /\ Goto(IF moved = Nothing THEN "read" ELSE "discard")
  /\ UNCHANGED <<moved, records, temp, job, current, result, damages>>

DiscardAside ==
  /\ at = "discard" /\ moved' = Nothing /\ Goto("read")
  /\ UNCHANGED <<dir, staged, records, temp, job, current, result, damages>>

\* A step of the staging fails: it is removed, and what was set aside comes back.
StageFails ==
  /\ at \in {"copy", "manifest", "rename"} /\ staged' = "none"
  /\ IF moved # Nothing /\ dir[moved.v] = "absent"
     THEN dir' = [dir EXCEPT ![moved.v] = moved.state] /\ moved' = Nothing
     ELSE UNCHANGED <<dir, moved>>
  /\ Done("StorageUnavailable") /\ UNCHANGED <<records, temp, damages>>

\* What the installed active package is worth to a new record.
KeptPrevious(r) == IF dir[r.active] = "good" THEN r.active ELSE NoVersion

\* read_activation_record and what follows from it.
ReadRecord ==
  /\ at = "read"
  /\ LET r == Newest IN
     \/ /\ r.active = job.v /\ Done("ok")
     \/ /\ r # NoRecord /\ r.active # job.v /\ job.given # r.active
        /\ Done("PreviousVerificationRequired")
     \/ /\ (r = NoRecord \/ (r.active # job.v /\ job.given = r.active)) /\ r.gen < MaxGen
        /\ Goto("tmp") /\ UNCHANGED <<job, result>>
        /\ current' = [gen |-> r.gen + 1, active |-> job.v,
                       previous |-> IF r = NoRecord THEN NoVersion ELSE KeptPrevious(r)]
  /\ UNCHANGED <<store, damages>>

(***************************************************************************)
(* rollback.                                                               *)
(***************************************************************************)
Rollback(active, previous) ==
  /\ at = "idle" /\ active # previous
  /\ LET r == Newest IN
     \/ /\ (r.active # active \/ r.previous # previous) /\ Done("RollbackUnavailable")
     \/ /\ r.active = active /\ r.previous = previous /\ dir[previous] # "good"
        /\ Done("InstalledInvalid")
     \/ /\ r.active = active /\ r.previous = previous /\ dir[previous] = "good" /\ r.gen < MaxGen
        /\ Goto("tmp") /\ job' = [v |-> previous, given |-> active] /\ UNCHANGED result
        /\ current' = [gen |-> r.gen + 1, active |-> previous, previous |-> KeptPrevious(r)]
  /\ UNCHANGED <<store, damages>>

(***************************************************************************)
(* The record, and the pruning that follows it.                            *)
(***************************************************************************)
\* Mutant: the records are removed from the other end.
PruneRecordsNewest(s) ==
  IF Cardinality(s) <= Retain THEN s
  ELSE {r \in s : Cardinality({q \in s : q.gen < r.gen}) < Cardinality(s) - Retain}

\* prune_activation_records: only the newest are kept.
PruneRecords(s) == {r \in s : Cardinality({q \in s : q.gen > r.gen}) < Retain}

\* write_activation_record: the history is pruned, a temporary file written ...
WriteTemporary ==
  /\ at = "tmp" /\ temp' = TRUE /\ records' = PruneRecords(records) /\ Goto("commit")
  /\ UNCHANGED <<dir, moved, staged, job, current, result, damages>>

\* ... renamed to its name, and the history pruned again.
CommitRecord ==
  /\ at = "commit" /\ temp' = FALSE /\ records' = PruneRecords(records \cup {current})
  /\ Goto("versions")
  /\ UNCHANGED <<dir, moved, staged, job, current, result, damages>>

CommitFails ==
  /\ at = "commit" /\ temp' = FALSE /\ Done("ActivationCommitFailed")
  /\ UNCHANGED <<dir, moved, staged, records, damages>>

\* Mutant: only the active version is kept.
PruneVersionsToOne ==
  /\ at = "versions" /\ staged' = "none"
  /\ dir' = [v \in Versions |-> IF v = current.active THEN dir[v] ELSE "absent"]
  /\ moved' = Nothing /\ Done("ok") /\ UNCHANGED <<records, temp, damages>>

\* prune_installed_versions: everything but the active and the previous version.
PruneVersions ==
  /\ at = "versions" /\ staged' = "none"
  /\ dir' = [v \in Versions |-> IF v \in {current.active, current.previous} THEN dir[v] ELSE "absent"]
  /\ moved' = Nothing       \* ".recovery-..." is a safe name like any other
  /\ Done("ok") /\ UNCHANGED <<records, temp, damages>>

PruneVersionsFails ==
  /\ at = "versions" /\ Done("StorageUnavailable") /\ UNCHANGED <<store, damages>>

\* A change of the disk before the record fails and the call returns.
StepFails ==
  /\ at \in {"recover", "prune", "aside", "discard", "tmp"} /\ Done("StorageUnavailable")
  /\ UNCHANGED <<store, damages>>

\* open_active: the launch capability, checked again at every launch.
OpenActive(v) ==
  /\ at = "idle"
  /\ result' = IF Newest.active = v /\ dir[v] = "good" THEN "opened" ELSE "ActivationStateInvalid"
  /\ UNCHANGED <<store, at, job, current, damages>>

Crash ==
  /\ at # "idle" /\ Done("crashed") /\ UNCHANGED <<store, damages>>

\* A file of an installed package is changed; its manifest, or another.
Damage(v) ==
  /\ dir[v] = "good" /\ damages < MaxDamage /\ damages' = damages + 1
  /\ \E s \in {"digest", "manifest"} : dir' = [dir EXCEPT ![v] = s]
  /\ UNCHANGED <<moved, staged, records, temp, at, job, current, result>>

Next ==
  \/ \E v \in Versions, g \in Versions \cup {NoVersion}, f \in {"none", "digest"} : Stage(v, g, f)
  \/ RecoverReplacement \/ RecoverUnreadable \/ NothingToRecover \/ PruneStaging \/ SetAside
  \/ CopyArtifacts \/ WriteManifest \/ RenameStaged \/ DiscardAside \/ StageFails \/ ReadRecord
  \/ \E a, p \in Versions : Rollback(a, p)
  \/ WriteTemporary \/ CommitRecord \/ CommitFails \/ PruneVersions \/ PruneVersionsFails
  \/ StepFails \/ Crash
  \/ \E v \in Versions : OpenActive(v) \/ Damage(v)

Spec == Init /\ [][Next]_vars

-----------------------------------------------------------------------------
\* Every variable keeps its type, and the history its bound.
TypeOK ==
  /\ dir \in [Versions -> {"absent", "good", "digest", "manifest"}]
  /\ moved.v \in Versions \cup {NoVersion} /\ staged \in {"none", "partial", "copied"}
  /\ temp \in BOOLEAN /\ Cardinality(records) <= Retain
  /\ \A r \in records : r.gen \in 1..MaxGen /\ r.active \in Versions /\ r.previous # r.active

\* Whatever crashes and fails, the version the newest record activates is on
\* the disk, in its place or set aside for the recovery.
ActiveIsOnDisk ==
  LET r == Newest IN
  r # NoRecord => (dir[r.active] # "absent" \/ moved.v = r.active)

\* So is the version a rollback would go back to, until a later call replaces it.
PreviousIsOnDisk ==
  LET r == Newest IN
  r.previous # NoVersion => (dir[r.previous] # "absent" \/ moved.v = r.previous)

\* In no step does the activation history go back: the newest generation is unique and
\* no pruning, failure or crash loses it.
GenerationsGrow ==
  /\ Newest'.gen >= Newest.gen
  /\ \A q, r \in records' : q.gen = r.gen => q = r

\* What makes the above inductive: the records are numbered apart and have a
\* newest, and what the installer has done when it is at one of its places.
Record == [gen : 1..MaxGen, active : Versions, previous : Versions \cup {NoVersion}]
Present(v) == v = NoVersion \/ dir[v] # "absent"

History ==
  /\ IsFiniteSet(records) /\ records \subseteq Record
  /\ \A q, r \in records : q.gen = r.gen => q = r
  /\ records # {} => \E r \in records : \A q \in records : q.gen <= r.gen

Installing ==
  /\ moved = Nothing \/ (moved.v \in Versions /\ moved.state \in {"digest", "manifest"})
  /\ at # "idle" => job.v \in Versions
  /\ at \in {"prune", "aside"} => moved = Nothing
  /\ at = "aside" => dir[job.v] \in {"digest", "manifest"}
  /\ at \in {"copy", "manifest", "rename", "discard"} => (moved = Nothing \/ moved.v = job.v)
  /\ at \in {"discard", "read"} => dir[job.v] # "absent"
  /\ at \in {"tmp", "commit"} => current.gen = Newest.gen + 1
  /\ at \in {"tmp", "commit", "versions"} =>
       current \in Record /\ current.active # current.previous /\ Present(current.active) /\ Present(current.previous)
  /\ at = "versions" => current = Newest
=============================================================================
