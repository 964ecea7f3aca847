------------------------------ MODULE Licensing ------------------------------
(***************************************************************************)
(* The license of this device (licensing/service.rs, client.rs, store.rs,  *)
(* offline.rs, models.rs, config.rs, db/license.rs).                       *)
(*                                                                         *)
(* A customer's key is activated at Polar, validated, kept in the system's *)
(* key store and described by one row; refresh validates it again and      *)
(* deactivate gives it back.  activate, refresh and deactivate run one at  *)
(* a time; get_status reads beside them.  Polar is external: it may be out *)
(* of reach, its answer may be lost, and it may withdraw or renew a key    *)
(* or remove the device at any time.                                       *)
(***************************************************************************)
EXTENDS Naturals, FiniteSets, FiniteSetsExt

CONSTANTS
  Benefits,     \* the benefits keys may carry
  Deadlines,    \* the ends of update windows keys may have
  Grace,        \* OFFLINE_GRACE_DAYS
  Devices,      \* bound: devices the key may be activated for
  MaxDay,       \* bound: the days
  MaxRefs,      \* bound: references drawn for the key store
  MaxFaults,    \* bound: calls of the store or the database that fail
  None

VARIABLES
  config,       \* what the build was given of Polar: an entry of ConfigErrors, "bound", or "none" before it is looked at
  day,          \* the date
  key,          \* the key at Polar: [benefit, status, expires, plain, slots]
  row,          \* license_snapshot, or NoRow
  vault,        \* reference |-> activation, None for a key without activations
  op,           \* the operation under way: [name, step, now, act, ref, seen, lic]
  ghost,        \* what excuses a property: [leaked, missing, raced, withdrawn]
  drawn, faults

licVars == <<config, day, key, row, vault, op, ghost, drawn, faults>>

NoRow == [status |-> "unlicensed", deadline |-> None, success |-> 0, offline |-> 0, ref |-> None]
NoOp == [name |-> "none", step |-> "none", now |-> 0, act |-> None, ref |-> None, seen |-> NoRow, lic |-> None]
NoKey == [benefit |-> None, status |-> "granted", expires |-> None, plain |-> FALSE, slots |-> {}]
Excused == [leaked |-> FALSE, missing |-> FALSE, raced |-> FALSE, withdrawn |-> FALSE]

Statuses == {"unlicensed", "active", "offline_grace", "needs_online", "expired", "revoked", "disabled", "device_limit",
             "storage_unavailable"}

\* PolarConfig::load, resolve, new and from_parts: why a build has no licensing.
ConfigErrors == [unset |-> "not_configured", incomplete |-> "polar_config_incomplete", environment |-> "polar_environment_invalid",
                 identifier |-> "polar_identifier_invalid", twice |-> "polar_identifier_invalid", api_base |-> "polar_api_base_invalid"]

TypeOK ==
  /\ config \in DOMAIN ConfigErrors \cup {"none", "bound"} /\ day \in 0..MaxDay /\ key.slots \subseteq 1..Devices /\ row.status \in Statuses
  /\ op.name \in {"none", "activate", "refresh", "deactivate"}
  /\ op.step \in {"none", "call", "validate", "store", "persist", "undo", "write", "remote", "delete", "drop"}
  /\ DOMAIN vault \subseteq 1..MaxRefs /\ drawn \in 0..MaxRefs /\ faults \in 0..MaxFaults

Init ==
  /\ config = "none" /\ day = 0 /\ key = NoKey /\ row = NoRow /\ vault = [r \in {} |-> None] /\ op = NoOp
  /\ ghost = Excused /\ drawn = 0 /\ faults = 0

\* LicenseService::load.
Load(c) ==
  /\ config = "none" /\ config' = c /\ UNCHANGED <<day, key, row, vault, op, ghost, drawn, faults>>

\* config_and_client: without a configuration every operation says so and does nothing.
Configured == config = "bound"

\* The customer buys a key: a benefit, a window and, for some, devices.
Buy(b, e, plain) ==
  /\ Configured /\ key.benefit = None /\ key' = [NoKey EXCEPT !.benefit = b, !.expires = e, !.plain = plain]
  /\ UNCHANGED <<config, day, row, vault, op, ghost, drawn, faults>>

Past(deadline, now) == deadline # None /\ now >= deadline

\* A day passes.  A window that closes while a check is under way is remembered.
Tick ==
  /\ key.benefit # None /\ day < MaxDay /\ day' = day + 1
  /\ ghost' = [ghost EXCEPT !.raced = @ \/ (op.name # "none" /\ Past(key.expires, day + 1) /\ ~Past(key.expires, op.now))]
  /\ UNCHANGED <<config, key, row, vault, op, drawn, faults>>

\* Polar withdraws the key, renews its window, or removes the device.
PolarChanges ==
  /\ key.benefit # None /\ key.status = "granted"
  /\ \/ \E s \in {"revoked", "disabled"} : key' = [key EXCEPT !.status = s] /\ ghost' = [ghost EXCEPT !.withdrawn = TRUE]
     \/ key.expires # None /\ key' = [key EXCEPT !.expires = Max(Deadlines \ {None})] /\ key' # key /\ UNCHANGED ghost
     \/ /\ \E a \in key.slots : key' = [key EXCEPT !.slots = @ \ {a}]
        /\ ghost' = [ghost EXCEPT !.withdrawn = TRUE]
  /\ UNCHANGED <<config, day, row, vault, op, drawn, faults>>

-----------------------------------------------------------------------------
(* Polar's answers.                                                        *)

\* PolarClientError: the errors of a call that has not reached Polar, or whose answer is lost or
\* not understood (post, map_reqwest_error, read_json).
Transient == {"timeout", "connectivity", "rate_limited", "service_unavailable"}
Broken == {"response_too_large", "invalid_response"}

\* What Polar has to say of the key: 404 for one that is withdrawn or has lapsed, and for a device it does not
\* know; a key that is withdrawn may also be described.
Known(a) == a = None \/ a \in key.slots
Valid(a) == key.status = "granted" /\ ~Past(key.expires, day) /\ Known(a)

\* confirmed_state.
ConfirmedState(lic, now) ==
  CASE lic.status # "granted" -> lic.status
    [] lic.status = "granted" /\ Past(lic.expires, now) -> "expired"
    [] OTHER -> "active"

\* product_for_benefit.
ProductForBenefit(b) == IF b \in {"individual", "teams"} THEN b ELSE None

-----------------------------------------------------------------------------
(* activate.                                                               *)

\* config_and_client, the row, the input: refused while a row names a credential.  A row without
\* one is left of an earlier version and is not modelled.
Activate ==
  /\ op.name = "none" /\ key.benefit # None /\ row.ref = None
  /\ op' = [NoOp EXCEPT !.name = "activate", !.step = "call", !.now = day]
  /\ UNCHANGED <<config, day, key, row, vault, ghost, drawn, faults>>

EndOp == op' = NoOp
FreeSlots == (1..Devices) \ key.slots

\* client.activate: a device is taken, or it is not; the answer may be lost after it is.
ActivateCall ==
  /\ op.step = "call" /\ UNCHANGED <<config, day, row, vault, drawn, faults>>
  /\ \/ key.plain /\ op' = [op EXCEPT !.step = "validate"] /\ UNCHANGED <<key, ghost>>  \* ActivationsUnsupported
     \/ /\ ~key.plain /\ Valid(None) /\ FreeSlots # {}
        /\ LET a == Min(FreeSlots) IN
             /\ key' = [key EXCEPT !.slots = @ \cup {a}]
             /\ \/ op' = [op EXCEPT !.act = a, !.step = "validate"] /\ UNCHANGED ghost
                \/ EndOp /\ ghost' = [ghost EXCEPT !.leaked = TRUE]
     \/ ~key.plain /\ FreeSlots = {} /\ EndOp /\ UNCHANGED <<key, ghost>>
     \/ EndOp /\ UNCHANGED <<key, ghost>>

\* A key that is not accepted gives its device back.
GiveBack == IF op.act = None THEN EndOp ELSE op' = [op EXCEPT !.step = "undo"]

\* The checks of the answers: validate, product_for_benefit, confirmed_state.
ActivateValidate ==
  /\ op.name = "activate" /\ op.step = "validate" /\ UNCHANGED <<config, day, key, row, vault, ghost, drawn, faults>>
  /\ \/ /\ Valid(op.act)
        /\ LET lic == [status |-> key.status, expires |-> key.expires] IN
           IF ProductForBenefit(key.benefit) # None /\ ConfirmedState(lic, op.now) = "active"
           THEN op' = [op EXCEPT !.step = "store", !.lic = lic]
           ELSE GiveBack
     \/ GiveBack

Put(f, r, v) == [x \in DOMAIN f \cup {r} |-> IF x = r THEN v ELSE f[x]]
Without(f, r) == [x \in DOMAIN f \ {r} |-> f[x]]

\* store.put, which may fail after it has written; what is written then is deleted again.
ActivateStore ==
  /\ op.step = "store" /\ drawn < MaxRefs /\ drawn' = drawn + 1
  /\ \/ /\ vault' = Put(vault, drawn + 1, op.act) /\ op' = [op EXCEPT !.step = "persist", !.ref = drawn + 1]
        /\ UNCHANGED faults
     \/ /\ faults < MaxFaults /\ faults' = faults + 1 /\ op' = [op EXCEPT !.step = "undo", !.ref = drawn + 1]
        /\ vault' \in {vault, Put(vault, drawn + 1, op.act)}
  /\ UNCHANGED <<config, day, key, row, ghost>>

\* put_license_snapshot.
ActivatePersist ==
  /\ op.step = "persist"
  /\ \/ /\ row' = [status |-> "active", deadline |-> op.lic.expires, success |-> op.now, offline |-> op.now + Grace, ref |-> op.ref]
        /\ EndOp /\ UNCHANGED faults
     \/ /\ faults < MaxFaults /\ faults' = faults + 1 /\ UNCHANGED row
        /\ op' = [op EXCEPT !.step = "undo"]
  /\ UNCHANGED <<config, day, key, vault, ghost, drawn>>

\* Mutant: only the key store is cleaned up.
UndoneHalf == key.slots

\* What Polar holds after a deactivation of the device.
Undone == key.slots \ {op.act}

\* compensate_activation, and the deactivation of an answer that is not accepted: both are tried
\* once, and their failures ignored.
Undo ==
  /\ op.step = "undo"
  /\ \/ /\ key' = [key EXCEPT !.slots = Undone] /\ UNCHANGED ghost
     \/ op.act # None /\ ghost' = [ghost EXCEPT !.leaked = TRUE] /\ UNCHANGED key
  /\ \/ vault' = Without(vault, op.ref) /\ UNCHANGED faults
     \/ op.ref \in DOMAIN vault /\ faults < MaxFaults /\ faults' = faults + 1 /\ UNCHANGED vault
  /\ EndOp
  /\ UNCHANGED <<config, day, row, drawn>>

-----------------------------------------------------------------------------
(* refresh.                                                                *)

PreviouslyGranted(s) == s \in {"active", "offline_grace"}

\* store.get and the activation's form; persist_storage_failure.
StorageFails(snapshot) == [snapshot EXCEPT !.status = "storage_unavailable"]

Refresh ==
  /\ op.name = "none" /\ row.ref # None /\ UNCHANGED <<config, day, key, vault, ghost, drawn>>
  /\ \/ /\ row.ref \in DOMAIN vault /\ UNCHANGED <<row, faults>>
        /\ op' = [NoOp EXCEPT !.name = "refresh", !.step = "validate", !.now = day, !.act = vault[row.ref], !.ref = row.ref, !.seen = row]
     \/ /\ row.ref \notin DOMAIN vault \/ faults < MaxFaults
        /\ faults' = IF row.ref \in DOMAIN vault THEN faults + 1 ELSE faults
        /\ row' = StorageFails(row) /\ UNCHANGED op

\* persist_validation.
Validated(snapshot, lic, now) ==
  LET p == ProductForBenefit(key.benefit)
      s == IF p = None THEN "disabled" ELSE ConfirmedState(lic, now)
      r == [snapshot EXCEPT !.deadline = lic.expires, !.status = s] IN
  IF s = "active" THEN [r EXCEPT !.success = now, !.offline = now + Grace] ELSE r

\* Mutant: an outage gives another grace.
AfterTransientForgiving(snapshot, now) ==
  IF PreviouslyGranted(snapshot.status) THEN [snapshot EXCEPT !.status = "offline_grace", !.offline = now + Grace] ELSE snapshot

\* state_after_transient_failure: an outage is never a verdict.
AfterTransient(snapshot, now) ==
  IF ~PreviouslyGranted(snapshot.status) THEN snapshot
  ELSE [snapshot EXCEPT !.status = IF now <= snapshot.offline THEN "offline_grace" ELSE "needs_online"]

\* Mutant: a key Polar does not know is revoked.
AfterUnknownStrict(snapshot, now) == [snapshot EXCEPT !.status = "revoked"]

\* persist_validation_error for 404: a lapsed window and a withdrawn key look the same, so the
\* deadline that is stored decides.
AfterUnknown(snapshot, now) == [snapshot EXCEPT !.status = IF Past(snapshot.deadline, now) THEN "expired" ELSE "revoked"]

\* What refresh writes for each answer; a 403 is a device limit or, for a key without devices, leaves the
\* state alone.
Answered ==
  {Validated(op.seen, [status |-> s, expires |-> key.expires], op.now) :
     s \in IF Valid(op.act) \/ key.status # "granted" THEN {key.status} ELSE {}} \cup
  (IF Valid(op.act) THEN {} ELSE {AfterUnknown(op.seen, op.now)}) \cup
  {AfterTransient(op.seen, op.now) : e \in Transient} \cup
  {[op.seen EXCEPT !.status = "needs_online"] : e \in Broken} \cup
  {[op.seen EXCEPT !.status = "device_limit"], op.seen}

RefreshValidate ==
  /\ op.name = "refresh" /\ op.step = "validate"
  /\ \E r \in Answered : op' = [op EXCEPT !.step = "write", !.seen = r]
  /\ UNCHANGED <<config, day, key, row, vault, ghost, drawn, faults>>

RefreshWrite ==
  /\ op.step = "write"
  /\ \/ row' = op.seen /\ EndOp /\ UNCHANGED faults
     \/ faults < MaxFaults /\ faults' = faults + 1 /\ UNCHANGED row /\ EndOp
  /\ UNCHANGED <<config, day, key, vault, ghost, drawn>>

-----------------------------------------------------------------------------
(* deactivate.                                                             *)

Deactivate ==
  /\ op.name = "none" /\ row.ref \in DOMAIN vault
  /\ op' = [NoOp EXCEPT !.name = "deactivate", !.step = IF vault[row.ref] = None THEN "delete" ELSE "remote", !.now = day,
                        !.act = vault[row.ref], !.ref = row.ref, !.seen = row]
  /\ UNCHANGED <<config, day, key, row, vault, ghost, drawn, faults>>

\* Mutant: an outage counts as done.
RemoteEndsSloppy == [done |-> "delete", refused |-> "none", outage |-> "delete", lost |-> "none"]

\* What follows the answer: only a device that is given back is forgotten here.
RemoteEnds == [done |-> "delete", refused |-> "none", outage |-> "none", lost |-> "none"]

\* client.deactivate: 204, a refusal, an outage, or an answer that is lost.
DeactivateRemote ==
  /\ op.step = "remote"
  /\ \E a \in DOMAIN RemoteEnds :
       /\ a = "refused" => op.act \notin key.slots
       /\ a \in {"done", "lost"} => op.act \in key.slots
       /\ key' = IF a \in {"done", "lost"} THEN [key EXCEPT !.slots = @ \ {op.act}] ELSE key
       /\ ghost' = [ghost EXCEPT !.withdrawn = @ \/ a = "lost"]
       /\ IF RemoteEnds[a] = "none" THEN EndOp ELSE op' = [op EXCEPT !.step = RemoteEnds[a]]
  /\ UNCHANGED <<config, day, row, vault, drawn, faults>>

\* Mutant: the row is left when the key is gone.
DeactivateDeleteQuiet ==
  /\ op.step = "delete" /\ vault' = Without(vault, op.ref) /\ EndOp
  /\ UNCHANGED <<config, day, key, row, ghost, drawn, faults>>

\* store.delete; persist_storage_failure keeps the row.
DeactivateDelete ==
  /\ op.step = "delete" /\ UNCHANGED <<config, day, key, drawn>>
  /\ \/ vault' = Without(vault, op.ref) /\ op' = [op EXCEPT !.step = "drop"] /\ UNCHANGED <<row, faults, ghost>>
     \/ /\ faults < MaxFaults /\ faults' = faults + 1 /\ row' = StorageFails(op.seen) /\ UNCHANGED vault
        /\ ghost' = [ghost EXCEPT !.withdrawn = TRUE] /\ EndOp

DeactivateDrop ==
  /\ op.step = "drop" /\ UNCHANGED <<config, day, key, vault, drawn>>
  /\ \/ row' = NoRow /\ EndOp /\ UNCHANGED <<faults, ghost>>
     \/ /\ faults < MaxFaults /\ faults' = faults + 1 /\ ghost' = [ghost EXCEPT !.missing = TRUE] /\ EndOp /\ UNCHANGED row

-----------------------------------------------------------------------------
(* The status, and quitting.                                               *)

\* evaluate_cached_state.
Evaluate(r, now) ==
  CASE ~PreviouslyGranted(r.status) -> r.status
    [] PreviouslyGranted(r.status) /\ now > r.offline -> "needs_online"
    [] r.status = "active" /\ now <= r.offline /\ Past(r.deadline, now) -> "expired"
    [] OTHER -> r.status

\* get_status.
GetStatus == IF row.ref = None THEN "unlicensed" ELSE Evaluate(row, day)

\* Alfred ends in the middle of an operation.
Quit ==
  /\ op.name # "none" /\ op' = NoOp /\ UNCHANGED <<config, day, key, row, vault, drawn, faults>>
  /\ ghost' = [ghost EXCEPT !.leaked = @ \/ (op.name = "activate" /\ op.act # None),
                            !.missing = @ \/ op.step = "drop", !.withdrawn = @ \/ op.step = "delete"]

Next ==
  \/ \E c \in DOMAIN ConfigErrors \cup {"bound"} : Load(c)
  \/ \E b \in Benefits, e \in Deadlines, plain \in BOOLEAN : Buy(b, e, plain)
  \/ Tick \/ PolarChanges \/ Activate \/ ActivateCall \/ ActivateValidate \/ ActivateStore \/ ActivatePersist \/ Undo
  \/ Refresh \/ RefreshValidate \/ RefreshWrite \/ Deactivate \/ DeactivateRemote \/ DeactivateDelete \/ DeactivateDrop
  \/ Quit

Spec == Init /\ [][Next]_licVars

-----------------------------------------------------------------------------
(* Properties.                                                             *)

\* Both products are perpetual: while Polar has withdrawn nothing, no run of outages, lapses and renewals makes a row
\* say that the key was revoked (persist_validation_error).  Excused is a window that closes between the moment
\* refresh reads the clock and Polar's answer.
LapsedIsNotRevoked ==
  (key.benefit # "other" /\ ~ghost.withdrawn /\ ~ghost.raced) => row.status \notin {"revoked", "disabled"}

\* A license is taken for granted at most the grace after Polar last confirmed it, however often
\* it was refreshed in vain (evaluate_cached_state, state_after_transient_failure).
GraceIsBounded ==
  GetStatus \in {"active", "offline_grace"} => day <= row.success + Grace

\* Every device that is taken at Polar is the one of the row or of the operation under way, unless
\* a deactivation that is tried once failed or Alfred quit (compensate_activation).
DevicesAreAccounted ==
  ghost.leaked \/ key.slots \subseteq {op.act} \cup {vault[r] : r \in DOMAIN vault \cap {row.ref}}

\* A row names a key that is in the key store, except in the middle of a deactivation and after
\* one whose last step failed (deactivate).
RowHasItsKey == (row.ref # None /\ ~ghost.missing /\ op.step # "drop") => row.ref \in DOMAIN vault

\* A device that Polar still holds for this row is not forgotten here: what cannot be given back
\* keeps its row and its key (deactivate).
FailedDeactivationKeeps ==
  (row.ref # None /\ row'.ref = None) => vault' = Without(vault, row.ref) /\ op.act \notin key.slots
=============================================================================
