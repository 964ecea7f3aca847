---------------------------- MODULE PackageTrust ----------------------------
(***************************************************************************)
(* How the package of a managed runtime that ships beside the application  *)
(* comes to be run: the publisher's evidence, the pinned manifest, the     *)
(* copy into the package store and the check at every launch               *)
(* (commands/managed_runtime.rs, agents/runtime_package.rs,                *)
(* agents/publisher_trust.rs and the providers' package modules).          *)
(*                                                                         *)
(* A selection is a sequence of looks at files.  Another process (an       *)
(* update of the application, a cleaner) may change a file between any two *)
(* of them.  The store's own steps are in RuntimePackages.                 *)
(***************************************************************************)
EXTENDS Naturals, Sequences

CONSTANTS Products,    \* subset of {"claude", "codex", "opencode"}
          Targets,     \* the hosts of a behaviour
          MaxChanges   \* bound: changes of files

VARIABLES product, target,
          bundle,      \* the files beside the application, each good or bad
          loaded,      \* the evidence read into memory
          at,          \* the next look, 0 when nothing is being selected
          staged,      \* the copy under way
          installed,   \* the package in the store
          verdict,     \* of the selection
          launched,    \* what the last launch ran
          changes

vars == <<product, target, bundle, loaded, at, staged, installed, verdict, launched, changes>>

Evidence == {"proof", "signature"}
Declared == {"executable", "binary", "license", "notice"}     \* and nothing else, which is "extra"
Files == Evidence \cup Declared \cup {"extra"}
Good == [f \in Files |-> "good"]
None == [f \in Files |-> "absent"]

Apple == {"aarch64-apple", "x86_64-apple"}

(***************************************************************************)
(* The manifests the code pins.                                            *)
(***************************************************************************)
\* claude/package.rs: all targets, each with the scheme its release is signed by.
ClaudeScheme(t) == CASE t \in Apple -> "apple" [] t = "windows" -> "authenticode" [] OTHER -> "package"

\* codex/sdk_package.rs: the one prepared target.
CodexTargets == {"aarch64-apple"}

\* package_manifest, target_manifest of each product: the scheme, or "none" without an entry.
Scheme(p, t) ==
  CASE p = "claude" -> ClaudeScheme(t)
    [] p = "codex" -> IF t \in CodexTargets THEN "apple" ELSE "none"
    [] p = "opencode" -> "package"

\* RuntimePackageManifest::validate and validate_expectation_pin hold of the pinned manifests;
\* select_target finds the entry or there is none.
SelectTarget(p, t) == Scheme(p, t) # "none"

(***************************************************************************)
(* Looks.  A look succeeds when the files it reads are good then.          *)
(***************************************************************************)
Look(files) == [do |-> "look", on |-> files]
Memory(files) == [do |-> "memory", on |-> files]   \* bytes read before
Load(files) == [do |-> "load", on |-> files]       \* read them
Refuse == [do |-> "refuse", on |-> {}]
Copy == [do |-> "copy", on |-> Declared]
Installed == [do |-> "installed", on |-> Declared]
Activate == [do |-> "activate", on |-> {}]

\* reject_undeclared_entries.
RejectUndeclared == <<Look({"extra"})>>
\* verify_artifact, verify_required_resource.
VerifyArtifacts == <<Look({"executable"}), Look({"license", "notice"}), Look({"binary"})>>
\* inspect_declared_files.
InspectDeclaredFiles == RejectUndeclared \o VerifyArtifacts
\* inspect_managed_runtime_package: validate_verification compares what the evidence was minted from.
InspectPackage == InspectDeclaredFiles

\* AlfredEd25519PackageVerifier::verify with the key of a release build: the signature is over the
\* selection, not over the files.
Ed25519(p) == IF p = "opencode" THEN <<Memory(Evidence)>> ELSE <<Refuse>>

\* Mutant: the signature is expected on the executable the manifest names.
PublisherSignedBinaryExecutable(p) == IF p = "codex" THEN <<Refuse>> ELSE <<Look({"executable"})>>

\* publisher_signed_binary and codesign: Codex's own binary, not the sidecar, which nobody signed.
PublisherSignedBinary(p) == IF p = "codex" THEN <<Look({"binary"})>> ELSE <<Look({"executable"})>>

\* verify_apple_developer_id_package.
AppleDeveloperId(p) == <<Memory({"proof"}), Look({"executable"})>> \o PublisherSignedBinary(p)

\* ProductionPackageVerifier::verify.
ProductionVerifier(p, t) ==
  CASE Scheme(p, t) = "package" -> Ed25519(p)
    [] Scheme(p, t) = "apple" -> AppleDeveloperId(p)
    [] OTHER -> <<Refuse>>

\* verify_runtime_package_with_platform_evidence.
PlatformEvidence(p, t) == ProductionVerifier(p, t) \o InspectPackage

\* load_claude_publisher_evidence, load_codex_package_inputs, load_opencode_publisher_evidence.
LoadClaude == <<Load(Evidence)>>
LoadCodex == <<Load({"proof"}), Look({"license", "notice"})>>
LoadOpencode == <<Load(Evidence)>>

\* verify_package_for_install: the signature there, the release manifest the pinned one.
VerifyClaude(t) == LoadClaude \o <<Memory(Evidence)>> \o PlatformEvidence("claude", t)
\* verify_codex_sdk_package and the verifier's own comparison.
VerifyCodex(t) == LoadCodex \o <<Memory({"proof"})>> \o PlatformEvidence("codex", t)
\* select_verified_package, select_verified_active.
VerifyOpencode(t) == LoadOpencode \o PlatformEvidence("opencode", t)

\* Mutant: what was copied is trusted because its source was inspected.
StageUninspected == InspectPackage \o <<Copy, Activate>>

\* stage_and_activate: the source once more, the copy, the copy inspected before it gets its place.
Stage == InspectPackage \o <<Copy, Installed, Activate>>

Program(p, t) ==
  (CASE p = "claude" -> VerifyClaude(t)
     [] p = "codex" -> VerifyCodex(t)
     [] p = "opencode" -> VerifyOpencode(t)) \o Stage

(***************************************************************************)
(* Actions.                                                                *)
(***************************************************************************)
Init ==
  /\ product = "none" /\ target = "none" /\ bundle = Good /\ loaded = None /\ at = 0
  /\ staged = None /\ installed = None /\ verdict = "none" /\ launched = None /\ changes = 0

\* verify_claude_selection, verify_codex_selection, verify_opencode_selection.
Select(p, t) ==
  /\ at = 0 /\ verdict = "none" /\ product \in {"none", p} /\ target \in {"none", t}
  /\ product' = p /\ target' = t
  /\ IF SelectTarget(p, t) THEN at' = 1 /\ verdict' = "none" ELSE at' = 0 /\ verdict' = "refused"
  /\ UNCHANGED <<bundle, loaded, staged, installed, launched, changes>>

Here == Program(product, target)[at]
Fine(of, files) == \A f \in files : of[f] = "good"
Fail == at' = 0 /\ verdict' = "refused" /\ staged' = None /\ UNCHANGED <<loaded, installed>>

Step ==
  /\ at > 0
  /\ \/ /\ Here.do = "look"
        /\ IF Fine(bundle, Here.on) THEN at' = at + 1 /\ UNCHANGED <<loaded, staged, installed, verdict>> ELSE Fail
     \/ /\ Here.do = "load" /\ at' = at + 1
        /\ loaded' = [f \in Files |-> IF f \in Here.on THEN bundle[f] ELSE loaded[f]]
        /\ UNCHANGED <<staged, installed, verdict>>
     \/ /\ Here.do = "memory"
        /\ IF Fine(loaded, Here.on) THEN at' = at + 1 /\ UNCHANGED <<loaded, staged, installed, verdict>> ELSE Fail
     \/ /\ Here.do = "refuse" /\ Fail
     \/ /\ Here.do = "copy" /\ at' = at + 1
        /\ staged' = [f \in Files |-> IF f \in Declared THEN bundle[f] ELSE "good"]
        /\ UNCHANGED <<loaded, installed, verdict>>
     \/ /\ Here.do = "installed"        \* inspect_installed of the staging directory
        /\ IF Fine(staged, Here.on) THEN at' = at + 1 /\ UNCHANGED <<loaded, staged, installed, verdict>> ELSE Fail
     \/ /\ Here.do = "activate"
        /\ at' = 0 /\ verdict' = "selected" /\ installed' = staged /\ staged' = None /\ UNCHANGED loaded
  /\ UNCHANGED <<product, target, bundle, launched, changes>>

\* A refusal is not remembered: the next connection asks again.
AskAgain ==
  /\ at = 0 /\ verdict = "refused" /\ SelectTarget(product, target)
  /\ verdict' = "none"
  /\ UNCHANGED <<product, target, bundle, loaded, at, staged, installed, launched, changes>>

\* Mutant: the selection once made is good for every launch.
LaunchSelected ==
  /\ verdict = "selected" /\ launched' = installed
  /\ UNCHANGED <<product, target, bundle, loaded, at, staged, installed, verdict, changes>>

\* verified_active_executable_path: open_active inspects the installed package before each launch.
Launch ==
  /\ verdict = "selected" /\ launched' = IF Fine(installed, Files \ Evidence) THEN installed ELSE None
  /\ UNCHANGED <<product, target, bundle, loaded, at, staged, installed, verdict, changes>>

Change(f) ==
  /\ changes < MaxChanges /\ product # "none" /\ changes' = changes + 1
  /\ bundle' = [bundle EXCEPT ![f] = IF @ = "good" THEN "bad" ELSE "good"]
  /\ UNCHANGED <<product, target, loaded, at, staged, installed, verdict, launched>>

Damage(f) ==
  /\ changes < MaxChanges /\ verdict = "selected" /\ f \notin Evidence /\ changes' = changes + 1
  /\ installed' = [installed EXCEPT ![f] = "bad"]
  /\ UNCHANGED <<product, target, bundle, loaded, at, staged, verdict, launched>>

Next ==
  \/ \E p \in Products, t \in Targets : Select(p, t)
  \/ Step \/ AskAgain \/ Launch
  \/ \E f \in Files : Change(f) \/ Damage(f)

Spec == Init /\ [][Next]_vars

-----------------------------------------------------------------------------
\* Every variable keeps its type.
TypeOK ==
  /\ product \in Products \cup {"none"} /\ target \in Targets \cup {"none"}
  /\ at > 0 => at \in 1..Len(Program(product, target))
  /\ verdict \in {"none", "selected", "refused"} /\ changes \in 0..MaxChanges
  /\ {bundle, loaded, staged, installed, launched} \subseteq [Files -> {"good", "bad", "absent"}]

\* What is run is what the manifest pins, file by file, whatever changed between the looks at the
\* bundle, the copy, the activation and the launch (verified_active_executable_path).
RunsAsPinned == launched = None \/ Fine(launched, Declared \cup {"extra"})

\* A package whose files changed under the inspection never gets its place in the store: at the
\* moment of activation the copy is what the manifest pins (stage_verified_package).
InstalledAsPinned ==
  installed = None /\ installed' # None => Fine(installed', Declared)

\* A bundle nobody touched is accepted on every target the manifest pins.  Claude's releases for
\* the other systems are the exception: no verifier of the build accepts their scheme.
UntouchedIsSelected ==
  (verdict = "refused" /\ changes = 0 /\ SelectTarget(product, target)) =>
    product = "claude" /\ target \notin Apple
=============================================================================
