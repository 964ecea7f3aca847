---------------------------- MODULE ServiceProofs ----------------------------
(***************************************************************************)
(* What Alfred agrees on with the services it calls.                       *)
(*                                                                         *)
(* Polar: the license of Licensing, for any benefits, update windows,      *)
(* grace and number of devices, and however often calls fail and Alfred    *)
(* quits.  Slack: the batches of SlackSocket, for any mentions, triggers   *)
(* and batch limit, and however often sockets break and calls fail.  The   *)
(* providers: the sign-ins of SignIn, for any attempts side by side and    *)
(* any accounts, and however often the stores and the providers fail.      *)
(* WhatsApp: the linked device of WhatsApp, for any attempts, commands and *)
(* failures; and what the tables of its protocol client, ProtocolStore,    *)
(* keep, for any names, groups, times and retention.                       *)
(***************************************************************************)
EXTENDS Licensing, Sequences, FiniteSetTheorems, WellFoundedInduction, TLAPS

\* A key carries one of Alfred's two benefits or another one; windows end on days, the last of which is known.
Hypotheses ==
  /\ None \notin Nat /\ None \notin Benefits /\ Benefits \subseteq {"individual", "teams", "other"}
  /\ \E n \in Nat : Deadlines \subseteq (0..n) \cup {None}
  /\ Grace \in Nat /\ Devices \in Nat /\ MaxDay \in Nat /\ MaxRefs \in Nat /\ MaxFaults \in Nat

-----------------------------------------------------------------------------
(* What the variables hold.                                                *)

Refs == (1..MaxRefs) \cup {None}
Acts == (1..Devices) \cup {None}
Ends == Deadlines \cup {None}
Answers == {"granted", "revoked", "disabled"}
Rows == [status : Statuses, deadline : Ends, success : 0..MaxDay, offline : Nat, ref : Refs]
Keys == [benefit : Benefits \cup {None}, status : Answers, expires : Ends, plain : BOOLEAN, slots : SUBSET (1..Devices)]
Ops == [name : {"none", "activate", "refresh", "deactivate"},
        step : {"none", "call", "validate", "store", "persist", "undo", "write", "remote", "delete", "drop"},
        now : 0..MaxDay, act : Acts, ref : Refs, seen : Rows, lic : {None} \cup [status : Answers, expires : Ends]]
Ghosts == [leaked : BOOLEAN, missing : BOOLEAN, raced : BOOLEAN, withdrawn : BOOLEAN]

KeyTyped == key \in Keys
RowTyped == row \in Rows
OpTyped == op \in Ops
VaultTyped == vault \in [DOMAIN vault -> Acts] /\ DOMAIN vault \subseteq 1..MaxRefs
RestTyped ==
  /\ config \in DOMAIN ConfigErrors \cup {"none", "bound"} /\ day \in 0..MaxDay /\ ghost \in Ghosts
  /\ drawn \in 0..MaxRefs /\ faults \in 0..MaxFaults

Typed == KeyTyped /\ RowTyped /\ OpTyped /\ VaultTyped /\ RestTyped

\* What an operation has done and holds at each of its steps.
Operations ==
  /\ op.name = "none" => op = NoOp
  /\ op.name # "none" => key.benefit # None
  /\ row.ref = None => row = NoRow
  /\ row.ref # None => key.benefit # None
  /\ op.name = "activate" => row.ref = None /\ op.step \in {"call", "validate", "store", "persist", "undo"}
  /\ op.name = "refresh" => op.step \in {"validate", "write"}
  /\ op.name = "deactivate" => op.step \in {"remote", "delete", "drop"}
  /\ op.step = "call" => op.act = None
  /\ op.step \in {"store", "persist"} => op.lic \in [status : Answers, expires : Ends]
  /\ op.step = "persist" => op.ref \in DOMAIN vault /\ vault[op.ref] = op.act
  /\ op.name \in {"refresh", "deactivate"} => row.ref # None /\ op.ref = row.ref /\ op.seen.ref = row.ref
  /\ (op.name \in {"refresh", "deactivate"} /\ op.step # "drop") => row.ref \in DOMAIN vault /\ vault[row.ref] = op.act
  /\ op.step = "drop" => row.ref \notin DOMAIN vault
  /\ op.step \in {"delete", "drop"} => op.act \notin key.slots

\* While Polar has withdrawn nothing, it still holds the devices of the row and of the operation.
Held ==
  ~ghost.withdrawn =>
    /\ key.status = "granted"
    /\ (op.act # None /\ op.step \notin {"delete", "drop"}) => op.act \in key.slots
    /\ (row.ref \in DOMAIN vault /\ op.step # "delete") => vault[row.ref] \in key.slots \cup {None}

\* Windows are only ever renewed: what was stored of one ends no later than the window does.
Older(d, e) == e # None => d # None /\ d <= e

Windows ==
  /\ row.ref # None => Older(row.deadline, key.expires)
  /\ op.name \in {"refresh", "deactivate"} => Older(op.seen.deadline, key.expires)
  /\ op.step \in {"store", "persist"} => Older(op.lic.expires, key.expires)
  /\ (~ghost.raced /\ op.name = "refresh" /\ op.step = "validate" /\ Past(key.expires, day)) => Past(op.seen.deadline, op.now)

\* What refresh is about to write promises no more than what is written.
Promised == row.offline <= row.success + Grace /\ op.seen.offline <= op.seen.success + Grace
Unharmed == (key.benefit # "other" /\ ~ghost.withdrawn /\ ~ghost.raced) => op.seen.status \notin {"revoked", "disabled"}

LicInv ==
  /\ Typed /\ Operations /\ Held /\ Windows /\ Promised /\ Unharmed
  /\ LapsedIsNotRevoked /\ DevicesAreAccounted /\ RowHasItsKey

-----------------------------------------------------------------------------
(* The first free device, and the last window.                             *)

\* A set of numbers has a least one.
LEMMA Least == ASSUME NEW S \in SUBSET Nat, S # {} PROVE \E x \in S : \A y \in S : x <= y
<1>1. PICK x \in S : \A y \in S : <<y, x>> \notin OpToRel(<, Nat)
  BY NatLessThanWellFounded, WFMin
<1>2. \A y \in S : ~(y < x) BY <1>1 DEF OpToRel
<1> QED BY <1>2

\* A set of numbers that is bounded has a greatest one.
LEMMA Greatest ==
  ASSUME NEW n \in Nat, NEW S \in SUBSET (0..n), S # {}
  PROVE \E x \in S : \A y \in S : x >= y
<1> DEFINE B == {m \in 0..n : \A y \in S : y <= m}
<1>1. n \in B OBVIOUS
<1>2. PICK m \in B : \A y \in B : m <= y
  <2>1. B \in SUBSET Nat /\ B # {} BY <1>1
  <2> HIDE DEF B
  <2> QED BY <2>1, Least
<1>3. m \in S
  <2> SUFFICES ASSUME m \notin S PROVE FALSE OBVIOUS
  <2>1. \A y \in S : y <= m - 1 OBVIOUS
  <2>2. m - 1 \in 0..n
    <3>1. PICK y \in S : TRUE OBVIOUS
    <3> QED BY <2>1, <3>1
  <2> QED BY <1>2, <2>1, <2>2
<1> QED BY <1>3

\* activate takes a device that is free.
LEMMA FirstFree == ASSUME Hypotheses, FreeSlots # {} PROVE Min(FreeSlots) \in FreeSlots
<1>1. FreeSlots \in SUBSET Nat BY DEF FreeSlots, Hypotheses
<1> HIDE DEF FreeSlots
<1> QED BY <1>1, Least DEF Min

\* A window is renewed to one that is no shorter.
LEMMA LastWindow ==
  ASSUME Hypotheses, NEW e \in Deadlines \ {None}
  PROVE /\ Max(Deadlines \ {None}) \in Deadlines \ {None}
        /\ Max(Deadlines \ {None}) \in Nat /\ e \in Nat /\ e <= Max(Deadlines \ {None})
<1>1. PICK n \in Nat : Deadlines \subseteq (0..n) \cup {None} BY DEF Hypotheses
<1> DEFINE S == Deadlines \ {None}
<1>2. S \in SUBSET (0..n) /\ S # {} /\ e \in S BY <1>1
<1> HIDE DEF S
<1>3. Max(S) \in S /\ \A y \in S : Max(S) >= y BY <1>2, Greatest DEF Max
<1>4. Max(S) \in 0..n /\ e \in 0..n /\ Max(S) >= e BY <1>2, <1>3
<1>5. Max(S) \in Nat /\ e \in Nat /\ e <= Max(S) BY <1>4
<1> QED BY <1>2, <1>3, <1>5 DEF S

\* A window that ends does so on a day.
LEMMA EndsAreDays == ASSUME Hypotheses PROVE Ends \ {None} \subseteq Nat
<1>1. PICK n \in Nat : Deadlines \subseteq (0..n) \cup {None} BY DEF Hypotheses
<1>2. \A x \in (0..n) : x \in Nat OBVIOUS
<1> QED BY <1>1, <1>2 DEF Ends

\* What refresh is about to write is a row, of the same credential.
LEMMA AnsweredTyped ==
  ASSUME Hypotheses, KeyTyped, OpTyped, NEW r \in Answered
  PROVE r \in Rows /\ r.ref = op.seen.ref
<1>1. op.seen \in Rows /\ op.now \in 0..MaxDay /\ op.now + Grace \in Nat BY DEF OpTyped, Ops, Hypotheses
<1>2. key.status \in Answers /\ key.expires \in Ends BY DEF KeyTyped, Keys
<1>3. ASSUME NEW s \in Answers, r = Validated(op.seen, [status |-> s, expires |-> key.expires], op.now)
      PROVE r \in Rows /\ r.ref = op.seen.ref
  BY <1>1, <1>2, <1>3 DEF Validated, Rows, Statuses, ConfirmedState, Answers
<1>4. ASSUME r = AfterUnknown(op.seen, op.now) PROVE r \in Rows /\ r.ref = op.seen.ref
  BY <1>1, <1>4 DEF AfterUnknown, Rows, Statuses
<1>5. ASSUME r = AfterTransient(op.seen, op.now) PROVE r \in Rows /\ r.ref = op.seen.ref
  BY <1>1, <1>5 DEF AfterTransient, Rows, Statuses
<1>6. ASSUME r \in {[op.seen EXCEPT !.status = "needs_online"], [op.seen EXCEPT !.status = "device_limit"], op.seen}
      PROVE r \in Rows /\ r.ref = op.seen.ref
  BY <1>1, <1>6 DEF Rows, Statuses
<1> QED BY <1>2, <1>3, <1>4, <1>5, <1>6 DEF Answered

-----------------------------------------------------------------------------
(* Every step keeps them.                                                  *)

\* Only Polar and what is asked of it change the key.
LEMMA KeyTypedStep == ASSUME Hypotheses, KeyTyped, OpTyped, [Next]_licVars PROVE KeyTyped'
<1> USE DEF Hypotheses, KeyTyped, Keys, Answers, Ends
<1>1. ASSUME NEW c \in DOMAIN ConfigErrors \cup {"bound"}, Load(c) PROVE KeyTyped'
  BY <1>1 DEF Load
<1>2. ASSUME NEW b \in Benefits, NEW e \in Deadlines, NEW plain \in BOOLEAN, Buy(b, e, plain) PROVE KeyTyped'
  BY <1>2 DEF Buy, NoKey
<1>3. CASE Tick
  BY <1>3 DEF Tick
<1>4. CASE PolarChanges
  <2>1. key.expires # None => Max(Deadlines \ {None}) \in Deadlines BY LastWindow
  <2> QED BY <1>4, <2>1 DEF PolarChanges
<1>5. CASE Activate
  BY <1>5 DEF Activate
<1>6. CASE ActivateCall
  <2>1. FreeSlots # {} => Min(FreeSlots) \in 1..Devices BY FirstFree DEF FreeSlots
  <2> QED BY <1>6, <2>1 DEF ActivateCall, EndOp
<1>7. CASE ActivateValidate
  BY <1>7 DEF ActivateValidate, GiveBack, EndOp
<1>8. CASE ActivateStore
  BY <1>8 DEF ActivateStore, Put
<1>9. CASE ActivatePersist
  BY <1>9 DEF ActivatePersist, EndOp
<1>10. CASE Undo
  BY <1>10 DEF Undo, Undone, EndOp, Without
<1>11. CASE Refresh
  BY <1>11 DEF Refresh, StorageFails
<1>12. CASE RefreshValidate
  BY <1>12 DEF RefreshValidate
<1>13. CASE RefreshWrite
  BY <1>13 DEF RefreshWrite, EndOp
<1>14. CASE Deactivate
  BY <1>14 DEF Deactivate
<1>15. CASE DeactivateRemote
  BY <1>15 DEF DeactivateRemote, RemoteEnds, EndOp
<1>16. CASE DeactivateDelete
  BY <1>16 DEF DeactivateDelete, StorageFails, EndOp, Without
<1>17. CASE DeactivateDrop
  BY <1>17 DEF DeactivateDrop, EndOp
<1>18. CASE Quit
  BY <1>18 DEF Quit
<1>19. CASE UNCHANGED licVars
  BY <1>19 DEF licVars
<1> QED BY <1>1, <1>2, <1>3, <1>4, <1>5, <1>6, <1>7, <1>8, <1>9, <1>10, <1>11, <1>12, <1>13, <1>14, <1>15, <1>16,
    <1>17, <1>18, <1>19 DEF Next

\* Only activate, refresh and deactivate write the row.
LEMMA RowTypedStep ==
  ASSUME Hypotheses, Operations, KeyTyped, RowTyped, OpTyped, VaultTyped, RestTyped, [Next]_licVars
  PROVE RowTyped'
<1> USE DEF Hypotheses, RowTyped, Rows, Statuses
<1>1. ASSUME NEW c \in DOMAIN ConfigErrors \cup {"bound"}, Load(c) PROVE RowTyped'
  BY <1>1 DEF Load
<1>2. ASSUME NEW b \in Benefits, NEW e \in Deadlines, NEW plain \in BOOLEAN, Buy(b, e, plain) PROVE RowTyped'
  BY <1>2 DEF Buy
<1>3. CASE Tick
  BY <1>3 DEF Tick
<1>4. CASE PolarChanges
  BY <1>4 DEF PolarChanges
<1>5. CASE Activate
  BY <1>5 DEF Activate
<1>6. CASE ActivateCall
  BY <1>6 DEF ActivateCall, EndOp
<1>7. CASE ActivateValidate
  BY <1>7 DEF ActivateValidate, GiveBack, EndOp
<1>8. CASE ActivateStore
  BY <1>8 DEF ActivateStore, Put
<1>9. CASE ActivatePersist
  <2>1. /\ op.now \in 0..MaxDay /\ op.now + Grace \in Nat /\ op.ref \in Refs
        /\ op.lic.expires \in Ends
    BY <1>9 DEF OpTyped, Ops, ActivatePersist, Operations
  <2> QED BY <1>9, <2>1 DEF ActivatePersist
<1>10. CASE Undo
  BY <1>10 DEF Undo, Undone, EndOp, Without
<1>11. CASE Refresh
  BY <1>11 DEF Refresh, StorageFails
<1>12. CASE RefreshValidate
  BY <1>12 DEF RefreshValidate
<1>13. CASE RefreshWrite
  BY <1>13 DEF RefreshWrite, EndOp, OpTyped, Ops
<1>14. CASE Deactivate
  BY <1>14 DEF Deactivate
<1>15. CASE DeactivateRemote
  BY <1>15 DEF DeactivateRemote, RemoteEnds, EndOp
<1>16. CASE DeactivateDelete
  BY <1>16 DEF DeactivateDelete, StorageFails, EndOp, Without, OpTyped, Ops
<1>17. CASE DeactivateDrop
  BY <1>17 DEF DeactivateDrop, EndOp, NoRow, Refs, Ends
<1>18. CASE Quit
  BY <1>18 DEF Quit
<1>19. CASE UNCHANGED licVars
  BY <1>19 DEF licVars
<1> QED BY <1>1, <1>2, <1>3, <1>4, <1>5, <1>6, <1>7, <1>8, <1>9, <1>10, <1>11, <1>12, <1>13, <1>14, <1>15, <1>16,
    <1>17, <1>18, <1>19 DEF Next

\* An operation reads the row, the key and the clock, and its references are drawn.
LEMMA OpTypedStep ==
  ASSUME Hypotheses, KeyTyped, RowTyped, OpTyped, VaultTyped, RestTyped, [Next]_licVars
  PROVE OpTyped'
<1> USE DEF Hypotheses, OpTyped
<1>a. NoOp \in Ops
  BY DEF NoOp, NoRow, Ops, Rows, Statuses, Refs, Acts, Ends
<1>1. ASSUME NEW c \in DOMAIN ConfigErrors \cup {"bound"}, Load(c) PROVE OpTyped'
  BY <1>1, <1>a DEF Load, Ops
<1>2. ASSUME NEW b \in Benefits, NEW e \in Deadlines, NEW plain \in BOOLEAN, Buy(b, e, plain) PROVE OpTyped'
  BY <1>2, <1>a DEF Buy, Ops
<1>3. CASE Tick
  BY <1>3, <1>a DEF Tick, Ops
<1>4. CASE PolarChanges
  BY <1>4, <1>a DEF PolarChanges, Ops
<1>5. CASE Activate
  BY <1>5, <1>a DEF Activate, Ops, RestTyped
<1>6. CASE ActivateCall
  <2>1. FreeSlots # {} => Min(FreeSlots) \in Acts BY FirstFree DEF FreeSlots, Acts
  <2>2. \/ op' = NoOp \/ op' = [op EXCEPT !.step = "validate"]
        \/ FreeSlots # {} /\ op' = [op EXCEPT !.act = Min(FreeSlots), !.step = "validate"]
    BY <1>6 DEF ActivateCall, EndOp
  <2>3. CASE FreeSlots # {} /\ op' = [op EXCEPT !.act = Min(FreeSlots), !.step = "validate"]
    <3> DEFINE a == Min(FreeSlots)
    <3>1. a \in Acts BY <2>1, <2>3
    <3>2. op' = [op EXCEPT !.act = a, !.step = "validate"] BY <2>3
    <3> HIDE DEF a
    <3> QED BY <3>1, <3>2 DEF Ops
  <2>4. CASE op' = [op EXCEPT !.step = "validate"] BY <2>4 DEF Ops
  <2> QED BY <1>a, <2>2, <2>3, <2>4
<1>7. CASE ActivateValidate
  <2>1. [status |-> key.status, expires |-> key.expires] \in [status : Answers, expires : Ends]
    BY DEF KeyTyped, Keys
  <2>2. \/ op' = NoOp \/ op' = [op EXCEPT !.step = "undo"]
        \/ op' = [op EXCEPT !.step = "store", !.lic = [status |-> key.status, expires |-> key.expires]]
    BY <1>7 DEF ActivateValidate, GiveBack, EndOp
  <2>3. CASE op' = [op EXCEPT !.step = "store", !.lic = [status |-> key.status, expires |-> key.expires]]
    <3> DEFINE lic == [status |-> key.status, expires |-> key.expires]
    <3>1. lic \in [status : Answers, expires : Ends] /\ op' = [op EXCEPT !.step = "store", !.lic = lic] BY <2>1, <2>3
    <3> HIDE DEF lic
    <3> QED BY <3>1 DEF Ops
  <2>4. CASE op' = [op EXCEPT !.step = "undo"] BY <2>4 DEF Ops
  <2> QED BY <1>a, <2>2, <2>3, <2>4
<1>8. CASE ActivateStore
  <2>1. drawn + 1 \in Refs BY <1>8 DEF ActivateStore, RestTyped, Refs
  <2> QED BY <1>8, <2>1 DEF ActivateStore, Ops
<1>9. CASE ActivatePersist
  BY <1>9, <1>a DEF ActivatePersist, EndOp, Ops
<1>10. CASE Undo
  BY <1>10, <1>a DEF Undo, Undone, EndOp, Without, Ops
<1>11. CASE Refresh
  <2>1. row \in Rows /\ row.ref \in Refs /\ day \in 0..MaxDay BY DEF RowTyped, Rows, RestTyped
  <2>2. row.ref \in DOMAIN vault => vault[row.ref] \in Acts BY DEF VaultTyped
  <2>3. \/ UNCHANGED op
        \/ /\ row.ref \in DOMAIN vault
           /\ op' = [NoOp EXCEPT !.name = "refresh", !.step = "validate", !.now = day,
                                 !.act = vault[row.ref], !.ref = row.ref, !.seen = row]
    BY <1>11 DEF Refresh
  <2>4. ASSUME NEW v \in Acts, op' = [NoOp EXCEPT !.name = "refresh", !.step = "validate", !.now = day,
                                                  !.act = v, !.ref = row.ref, !.seen = row]
        PROVE op' \in Ops
    BY <1>a, <2>1, <2>4 DEF Ops
  <2> QED BY <2>2, <2>3, <2>4
<1>12. CASE RefreshValidate
  <2>1. \A r \in Answered : r \in Rows BY AnsweredTyped
  <2> QED BY <1>12, <2>1 DEF RefreshValidate, Ops
<1>13. CASE RefreshWrite
  BY <1>13, <1>a DEF RefreshWrite, EndOp, Ops
<1>14. CASE Deactivate
  <2>1. row \in Rows /\ row.ref \in Refs /\ day \in 0..MaxDay BY DEF RowTyped, Rows, RestTyped
  <2>2. row.ref \in DOMAIN vault => vault[row.ref] \in Acts BY DEF VaultTyped
  <2> QED BY <1>14, <1>a, <2>1, <2>2 DEF Deactivate, Ops
<1>15. CASE DeactivateRemote
  <2>1. PICK a \in DOMAIN RemoteEnds :
           IF RemoteEnds[a] = "none" THEN EndOp ELSE op' = [op EXCEPT !.step = RemoteEnds[a]]
    BY <1>15 DEF DeactivateRemote
  <2>2. RemoteEnds[a] \in {"none", "delete"} BY DEF RemoteEnds
  <2> QED BY <1>a, <2>1, <2>2 DEF EndOp, Ops
<1>16. CASE DeactivateDelete
  BY <1>16, <1>a DEF DeactivateDelete, StorageFails, EndOp, Without, Ops
<1>17. CASE DeactivateDrop
  BY <1>17, <1>a DEF DeactivateDrop, EndOp, Ops
<1>18. CASE Quit
  BY <1>18, <1>a DEF Quit, Ops
<1>19. CASE UNCHANGED licVars
  BY <1>19 DEF licVars
<1> QED BY <1>1, <1>2, <1>3, <1>4, <1>5, <1>6, <1>7, <1>8, <1>9, <1>10, <1>11, <1>12, <1>13, <1>14, <1>15, <1>16,
    <1>17, <1>18, <1>19 DEF Next

\* The key store holds devices, under references that were drawn.
LEMMA VaultTypedStep ==
  ASSUME Hypotheses, KeyTyped, RowTyped, OpTyped, VaultTyped, RestTyped, [Next]_licVars
  PROVE VaultTyped'
<1> USE DEF Hypotheses, VaultTyped
<1>1. ASSUME NEW c \in DOMAIN ConfigErrors \cup {"bound"}, Load(c) PROVE VaultTyped'
  BY <1>1 DEF Load
<1>2. ASSUME NEW b \in Benefits, NEW e \in Deadlines, NEW plain \in BOOLEAN, Buy(b, e, plain) PROVE VaultTyped'
  BY <1>2 DEF Buy
<1>3. CASE Tick
  BY <1>3 DEF Tick
<1>4. CASE PolarChanges
  BY <1>4 DEF PolarChanges
<1>5. CASE Activate
  BY <1>5 DEF Activate
<1>6. CASE ActivateCall
  BY <1>6 DEF ActivateCall, EndOp
<1>7. CASE ActivateValidate
  BY <1>7 DEF ActivateValidate, GiveBack, EndOp
<1>8. CASE ActivateStore
  <2>1. drawn + 1 \in 1..MaxRefs /\ op.act \in Acts BY <1>8 DEF ActivateStore, RestTyped, OpTyped, Ops
  <2>2. vault \in [DOMAIN vault -> Acts] /\ DOMAIN vault \subseteq 1..MaxRefs OBVIOUS
  <2> QED BY <1>8, <2>1, <2>2 DEF ActivateStore, Put
<1>9. CASE ActivatePersist
  BY <1>9 DEF ActivatePersist, EndOp
<1>10. CASE Undo
  <2>1. vault \in [DOMAIN vault -> Acts] /\ DOMAIN vault \subseteq 1..MaxRefs OBVIOUS
  <2> QED BY <1>10, <2>1 DEF Undo, Without
<1>11. CASE Refresh
  BY <1>11 DEF Refresh, StorageFails
<1>12. CASE RefreshValidate
  BY <1>12 DEF RefreshValidate
<1>13. CASE RefreshWrite
  BY <1>13 DEF RefreshWrite, EndOp
<1>14. CASE Deactivate
  BY <1>14 DEF Deactivate
<1>15. CASE DeactivateRemote
  BY <1>15 DEF DeactivateRemote, RemoteEnds, EndOp
<1>16. CASE DeactivateDelete
  <2>1. vault \in [DOMAIN vault -> Acts] /\ DOMAIN vault \subseteq 1..MaxRefs OBVIOUS
  <2> QED BY <1>16, <2>1 DEF DeactivateDelete, Without
<1>17. CASE DeactivateDrop
  BY <1>17 DEF DeactivateDrop, EndOp
<1>18. CASE Quit
  BY <1>18 DEF Quit
<1>19. CASE UNCHANGED licVars
  BY <1>19 DEF licVars
<1> QED BY <1>1, <1>2, <1>3, <1>4, <1>5, <1>6, <1>7, <1>8, <1>9, <1>10, <1>11, <1>12, <1>13, <1>14, <1>15, <1>16,
    <1>17, <1>18, <1>19 DEF Next

\* Days and counters stay within their bounds.
LEMMA RestTypedStep == ASSUME Hypotheses, RestTyped, [Next]_licVars PROVE RestTyped'
<1> USE DEF Hypotheses, RestTyped
<1>1. ASSUME NEW c \in DOMAIN ConfigErrors \cup {"bound"}, Load(c) PROVE RestTyped'
  BY <1>1 DEF Load, Ghosts
<1>2. ASSUME NEW b \in Benefits, NEW e \in Deadlines, NEW plain \in BOOLEAN, Buy(b, e, plain) PROVE RestTyped'
  BY <1>2 DEF Buy, Ghosts
<1>3. CASE Tick
  <2> DEFINE r == ghost.raced \/ (op.name # "none" /\ Past(key.expires, day + 1) /\ ~Past(key.expires, op.now))
  <2>1. r \in BOOLEAN OBVIOUS
  <2>2. ghost' = [ghost EXCEPT !.raced = r] BY <1>3 DEF Tick
  <2>3. day' \in 0..MaxDay /\ UNCHANGED <<config, drawn, faults>> BY <1>3 DEF Tick
  <2> HIDE DEF r
  <2>4. ghost' \in Ghosts BY <2>1, <2>2 DEF Ghosts
  <2> QED BY <2>3, <2>4
<1>4. CASE PolarChanges
  BY <1>4 DEF PolarChanges, Ghosts
<1>5. CASE Activate
  BY <1>5 DEF Activate, Ghosts
<1>6. CASE ActivateCall
  BY <1>6 DEF ActivateCall, EndOp, Ghosts
<1>7. CASE ActivateValidate
  BY <1>7 DEF ActivateValidate, GiveBack, EndOp, Ghosts
<1>8. CASE ActivateStore
  BY <1>8 DEF ActivateStore, Put, Ghosts
<1>9. CASE ActivatePersist
  BY <1>9 DEF ActivatePersist, EndOp, Ghosts
<1>10. CASE Undo
  <2>1. ghost' \in Ghosts BY <1>10 DEF Undo, Ghosts
  <2>2. faults' \in 0..MaxFaults BY <1>10 DEF Undo
  <2> QED BY <1>10, <2>1, <2>2 DEF Undo
<1>11. CASE Refresh
  BY <1>11 DEF Refresh, StorageFails, Ghosts
<1>12. CASE RefreshValidate
  BY <1>12 DEF RefreshValidate, Ghosts
<1>13. CASE RefreshWrite
  BY <1>13 DEF RefreshWrite, EndOp, Ghosts
<1>14. CASE Deactivate
  BY <1>14 DEF Deactivate, Ghosts
<1>15. CASE DeactivateRemote
  <2>1. PICK a \in DOMAIN RemoteEnds : ghost' = [ghost EXCEPT !.withdrawn = ghost.withdrawn \/ a = "lost"]
    BY <1>15 DEF DeactivateRemote
  <2> DEFINE w == ghost.withdrawn \/ a = "lost"
  <2>2. w \in BOOLEAN OBVIOUS
  <2>3. ghost' = [ghost EXCEPT !.withdrawn = w] BY <2>1
  <2>4. UNCHANGED <<config, day, drawn, faults>> BY <1>15 DEF DeactivateRemote
  <2> HIDE DEF w
  <2>5. ghost' \in Ghosts BY <2>2, <2>3 DEF Ghosts
  <2> QED BY <2>4, <2>5
<1>16. CASE DeactivateDelete
  <2>1. ghost' \in Ghosts BY <1>16 DEF DeactivateDelete, Ghosts
  <2>2. faults' \in 0..MaxFaults BY <1>16 DEF DeactivateDelete
  <2> QED BY <1>16, <2>1, <2>2 DEF DeactivateDelete
<1>17. CASE DeactivateDrop
  <2>1. ghost' \in Ghosts BY <1>17 DEF DeactivateDrop, Ghosts
  <2>2. faults' \in 0..MaxFaults BY <1>17 DEF DeactivateDrop
  <2> QED BY <1>17, <2>1, <2>2 DEF DeactivateDrop
<1>18. CASE Quit
  <2> DEFINE a == ghost.leaked \/ (op.name = "activate" /\ op.act # None)
             b == ghost.missing \/ op.step = "drop"
             c == ghost.withdrawn \/ op.step = "delete"
  <2>1. a \in BOOLEAN /\ b \in BOOLEAN /\ c \in BOOLEAN OBVIOUS
  <2>2. ghost' = [ghost EXCEPT !.leaked = a, !.missing = b, !.withdrawn = c] BY <1>18 DEF Quit
  <2>3. UNCHANGED <<config, day, drawn, faults>> BY <1>18 DEF Quit
  <2> HIDE DEF a, b, c
  <2>4. ghost' \in Ghosts BY <2>1, <2>2 DEF Ghosts
  <2> QED BY <2>3, <2>4
<1>19. CASE UNCHANGED licVars
  BY <1>19 DEF licVars
<1> QED BY <1>1, <1>2, <1>3, <1>4, <1>5, <1>6, <1>7, <1>8, <1>9, <1>10, <1>11, <1>12, <1>13, <1>14, <1>15, <1>16,
    <1>17, <1>18, <1>19 DEF Next

\* An empty row is a row, and no operation an operation.
LEMMA NoOpTyped == ASSUME Hypotheses PROVE NoOp \in Ops /\ NoRow \in Rows
BY DEF Hypotheses, NoOp, NoRow, Ops, Rows, Statuses, Refs, Acts, Ends

\* What the key store holds has a reference, and so has what is put there next.
LEMMA RefsAreNotNone == ASSUME Hypotheses, VaultTyped, RestTyped PROVE None \notin DOMAIN vault /\ drawn + 1 # None
BY DEF Hypotheses, VaultTyped, RestTyped

-----------------------------------------------------------------------------
(* What the steps of the operations do, field by field.                    *)

\* The steps of activate are taken while there is no row; refresh and deactivate follow the row's credential.
LEMMA Activating ==
  ASSUME OpTyped, Operations, op.step \in {"call", "store", "persist", "undo"}
  PROVE op.name = "activate" /\ row.ref = None /\ row = NoRow /\ key.benefit # None
<1>1. op.name \in {"none", "activate", "refresh", "deactivate"} BY DEF OpTyped, Ops
<1>2. op.name # "none" BY DEF Operations, NoOp
<1>3. op.name \notin {"refresh", "deactivate"} BY DEF Operations
<1> QED BY <1>1, <1>2, <1>3 DEF Operations

\* A row is written again by refresh alone.
LEMMA Refreshing == ASSUME OpTyped, Operations, op.step = "write" PROVE op.name = "refresh"
<1>1. op.name \in {"none", "activate", "refresh", "deactivate"} BY DEF OpTyped, Ops
<1> QED BY <1>1 DEF Operations, NoOp

\* A device is given back, and what is stored of it deleted, by deactivate.
LEMMA Deactivating ==
  ASSUME OpTyped, Operations, op.step \in {"remote", "delete", "drop"}
  PROVE op.name = "deactivate"
<1>1. op.name \in {"none", "activate", "refresh", "deactivate"} BY DEF OpTyped, Ops
<1> QED BY <1>1 DEF Operations, NoOp

\* A customer buys when there is no license and nothing is under way.
LEMMA BuyDoes ==
  ASSUME Hypotheses, KeyTyped, RowTyped, OpTyped, VaultTyped, RestTyped, Operations, NEW b \in Benefits,
         NEW e \in Deadlines, NEW plain \in BOOLEAN, Buy(b, e, plain)
  PROVE /\ op = NoOp /\ row = NoRow /\ row.ref = None /\ op.name = "none" /\ op.step = "none" /\ op.act = None
        /\ key'.benefit = b /\ b # None /\ key'.status = "granted" /\ key'.expires = e /\ key'.slots = {}
        /\ UNCHANGED <<config, day, row, vault, op, ghost, drawn, faults>>
<1>1. key.benefit = None /\ key' = [[[NoKey EXCEPT !.benefit = b] EXCEPT !.expires = e] EXCEPT !.plain = plain]
      /\ UNCHANGED <<config, day, row, vault, op, ghost, drawn, faults>>
  BY DEF Buy
<1>2. op.name = "none" /\ row.ref = None BY <1>1 DEF Operations
<1>3. op = NoOp /\ row = NoRow BY <1>2 DEF Operations
<1> QED BY <1>1, <1>2, <1>3 DEF NoKey, NoOp, Hypotheses

\* Polar takes a device and says so, or the operation ends; what is taken then without an answer is noted.
LEMMA ActivateCallDoes ==
  ASSUME Hypotheses, KeyTyped, RowTyped, OpTyped, VaultTyped, RestTyped, Operations, ActivateCall
  PROVE /\ op.name = "activate" /\ op.act = None /\ row.ref = None /\ key.benefit # None
        /\ UNCHANGED <<config, day, row, vault, drawn, faults>>
        /\ key'.benefit = key.benefit /\ key'.status = key.status /\ key'.expires = key.expires
        /\ ghost'.withdrawn = ghost.withdrawn /\ ghost'.raced = ghost.raced /\ ghost'.missing = ghost.missing
        /\ \/ op' = NoOp /\ (UNCHANGED <<key, ghost>> \/ ghost'.leaked)
           \/ /\ op'.name = "activate" /\ op'.step = "validate" /\ op'.seen = op.seen /\ UNCHANGED ghost
              /\ op'.act \in key'.slots \cup {None} /\ key'.slots \subseteq key.slots \cup {op'.act}
<1>1. op.step = "call" /\ op.act = None /\ UNCHANGED <<config, day, row, vault, drawn, faults>>
  BY DEF ActivateCall, Operations
<1>2. op.name = "activate" /\ row.ref = None /\ key.benefit # None BY <1>1, Activating
<1>3. CASE op' = [op EXCEPT !.step = "validate"] /\ UNCHANGED <<key, ghost>>
  BY <1>1, <1>2, <1>3 DEF OpTyped, Ops
<1>4. CASE EndOp /\ UNCHANGED <<key, ghost>>
  BY <1>1, <1>2, <1>4 DEF EndOp
<1>5. ASSUME NEW a, key' = [key EXCEPT !.slots = @ \cup {a}], op' = [op EXCEPT !.act = a, !.step = "validate"], UNCHANGED ghost
      PROVE /\ op'.name = "activate" /\ op'.step = "validate" /\ op'.seen = op.seen
            /\ op'.act = a /\ key'.slots = key.slots \cup {a}
            /\ key'.benefit = key.benefit /\ key'.status = key.status /\ key'.expires = key.expires
  BY <1>2, <1>5 DEF OpTyped, Ops, KeyTyped, Keys
<1>6. ASSUME NEW a, key' = [key EXCEPT !.slots = @ \cup {a}], EndOp, ghost' = [ghost EXCEPT !.leaked = TRUE]
      PROVE /\ op' = NoOp /\ ghost'.leaked
            /\ key'.benefit = key.benefit /\ key'.status = key.status /\ key'.expires = key.expires
            /\ ghost'.withdrawn = ghost.withdrawn /\ ghost'.raced = ghost.raced /\ ghost'.missing = ghost.missing
  BY <1>6 DEF EndOp, KeyTyped, Keys, RestTyped, Ghosts
<1>7. \/ op' = [op EXCEPT !.step = "validate"] /\ UNCHANGED <<key, ghost>>
      \/ EndOp /\ UNCHANGED <<key, ghost>>
      \/ \E a : /\ key' = [key EXCEPT !.slots = @ \cup {a}]
                /\ \/ op' = [op EXCEPT !.act = a, !.step = "validate"] /\ UNCHANGED ghost
                   \/ EndOp /\ ghost' = [ghost EXCEPT !.leaked = TRUE]
  BY DEF ActivateCall
<1>8. ASSUME NEW a, key' = [key EXCEPT !.slots = @ \cup {a}],
             \/ op' = [op EXCEPT !.act = a, !.step = "validate"] /\ UNCHANGED ghost
             \/ EndOp /\ ghost' = [ghost EXCEPT !.leaked = TRUE]
      PROVE /\ key'.benefit = key.benefit /\ key'.status = key.status /\ key'.expires = key.expires
            /\ ghost'.withdrawn = ghost.withdrawn /\ ghost'.raced = ghost.raced /\ ghost'.missing = ghost.missing
            /\ \/ op' = NoOp /\ ghost'.leaked
               \/ /\ op'.name = "activate" /\ op'.step = "validate" /\ op'.seen = op.seen /\ UNCHANGED ghost
                  /\ op'.act \in key'.slots \cup {None} /\ key'.slots \subseteq key.slots \cup {op'.act}
  BY <1>5, <1>6, <1>8
<1> QED BY <1>1, <1>2, <1>3, <1>4, <1>7, <1>8

\* What Polar says of the key is stored, or the device is given back.
LEMMA ActivateValidateDoes ==
  ASSUME Hypotheses, KeyTyped, RowTyped, OpTyped, VaultTyped, RestTyped, Operations, ActivateValidate
  PROVE /\ op.name = "activate" /\ row.ref = None /\ key.benefit # None
        /\ UNCHANGED <<config, day, key, row, vault, ghost, drawn, faults>>
        /\ \/ op' = NoOp /\ op.act = None
           \/ /\ op'.name = "activate" /\ op'.step \in {"store", "undo"} /\ op'.act = op.act /\ op'.seen = op.seen
              /\ op'.step = "store" => op'.lic \in [status : Answers, expires : Ends] /\ op'.lic.expires = key.expires
<1> DEFINE lic == [status |-> key.status, expires |-> key.expires]
<1>1. op.name = "activate" /\ UNCHANGED <<config, day, key, row, vault, ghost, drawn, faults>> BY DEF ActivateValidate
<1>2. lic \in [status : Answers, expires : Ends] /\ lic.expires = key.expires BY DEF KeyTyped, Keys
<1>3. \/ op' = NoOp /\ op.act = None
      \/ op' = [op EXCEPT !.step = "undo"]
      \/ op' = [op EXCEPT !.step = "store", !.lic = lic]
  BY DEF ActivateValidate, GiveBack, EndOp
<1> HIDE DEF lic
<1>4. CASE op' = [op EXCEPT !.step = "undo"] BY <1>1, <1>4 DEF OpTyped, Ops, Operations
<1>5. CASE op' = [op EXCEPT !.step = "store", !.lic = lic] BY <1>1, <1>2, <1>5 DEF OpTyped, Ops, Operations
<1> QED BY <1>1, <1>3, <1>4, <1>5 DEF Operations

\* A fresh reference holds the device, or the activation is undone.
LEMMA ActivateStoreDoes ==
  ASSUME Hypotheses, KeyTyped, RowTyped, OpTyped, VaultTyped, RestTyped, Operations, ActivateStore
  PROVE /\ op.name = "activate" /\ op.step = "store" /\ row.ref = None /\ op.lic \in [status : Answers, expires : Ends]
        /\ UNCHANGED <<config, day, key, row, ghost>>
        /\ op'.name = "activate" /\ op'.step \in {"persist", "undo"} /\ op'.act = op.act /\ op'.seen = op.seen
        /\ op'.lic = op.lic /\ None \notin DOMAIN vault'
        /\ op'.step = "persist" => op'.ref \in DOMAIN vault' /\ vault'[op'.ref] = op.act
<1>1. /\ op.step = "store" /\ UNCHANGED <<config, day, key, row, ghost>>
      /\ \/ vault' = Put(vault, drawn + 1, op.act) /\ op' = [op EXCEPT !.step = "persist", !.ref = drawn + 1]
         \/ op' = [op EXCEPT !.step = "undo", !.ref = drawn + 1] /\ vault' \in {vault, Put(vault, drawn + 1, op.act)}
  BY DEF ActivateStore
<1>2. op.name = "activate" /\ row.ref = None BY <1>1, Activating
<1>3. None \notin DOMAIN vault /\ drawn + 1 # None BY RefsAreNotNone
<1>4. LET v == Put(vault, drawn + 1, op.act) IN drawn + 1 \in DOMAIN v /\ v[drawn + 1] = op.act /\ None \notin DOMAIN v
  BY <1>3 DEF Put
<1>5. op.lic \in [status : Answers, expires : Ends] BY <1>1 DEF Operations
<1> DEFINE v == Put(vault, drawn + 1, op.act)  r == drawn + 1
<1>6. v \in {v} /\ r \in DOMAIN v /\ v[r] = op.act /\ None \notin DOMAIN v BY <1>4
<1>7. \/ vault' = v /\ op' = [op EXCEPT !.step = "persist", !.ref = r]
      \/ op' = [op EXCEPT !.step = "undo", !.ref = r] /\ vault' \in {vault, v}
  BY <1>1
<1> HIDE DEF v, r
<1>8. CASE vault' = v /\ op' = [op EXCEPT !.step = "persist", !.ref = r]
  BY <1>1, <1>2, <1>5, <1>6, <1>8 DEF OpTyped, Ops
<1>9. CASE op' = [op EXCEPT !.step = "undo", !.ref = r] /\ vault' \in {vault, v}
  BY <1>1, <1>2, <1>3, <1>5, <1>6, <1>9 DEF OpTyped, Ops
<1> QED BY <1>7, <1>8, <1>9

\* refresh starts from the row and its key, or notes in the row that the key store failed.
LEMMA RefreshDoes ==
  ASSUME Hypotheses, KeyTyped, RowTyped, OpTyped, VaultTyped, RestTyped, Operations, Refresh
  PROVE /\ op.name = "none" /\ row.ref # None /\ key.benefit # None /\ UNCHANGED <<config, day, key, vault, ghost, drawn>>
        /\ row'.ref = row.ref /\ row'.deadline = row.deadline /\ row'.success = row.success /\ row'.offline = row.offline
        /\ row'.status \in {row.status, "storage_unavailable"}
        /\ \/ op' = op
           \/ /\ row.ref \in DOMAIN vault /\ op'.name = "refresh" /\ op'.step = "validate" /\ op'.now = day
              /\ op'.act = vault[row.ref] /\ op'.ref = row.ref /\ op'.seen = row /\ UNCHANGED row
<1>1. op.name = "none" /\ row.ref # None /\ UNCHANGED <<config, day, key, vault, ghost, drawn>> BY DEF Refresh
<1>2. key.benefit # None BY <1>1 DEF Operations
<1>3. \/ /\ row.ref \in DOMAIN vault /\ UNCHANGED row
         /\ op' = [NoOp EXCEPT !.name = "refresh", !.step = "validate", !.now = day,
                               !.act = vault[row.ref], !.ref = row.ref, !.seen = row]
      \/ row' = StorageFails(row) /\ UNCHANGED op
  BY DEF Refresh
<1>4. CASE row' = StorageFails(row) /\ UNCHANGED op
  BY <1>1, <1>2, <1>4 DEF StorageFails, RowTyped, Rows
<1>5. ASSUME NEW v, op' = [NoOp EXCEPT !.name = "refresh", !.step = "validate", !.now = day,
                                       !.act = v, !.ref = row.ref, !.seen = row]
      PROVE op'.name = "refresh" /\ op'.step = "validate" /\ op'.now = day /\ op'.act = v /\ op'.ref = row.ref /\ op'.seen = row
  BY <1>5 DEF NoOp
<1> QED BY <1>1, <1>2, <1>3, <1>4, <1>5

\* What refresh is about to write is one of the answers.
LEMMA RefreshValidateDoes ==
  ASSUME Hypotheses, KeyTyped, RowTyped, OpTyped, VaultTyped, RestTyped, Operations, RefreshValidate
  PROVE /\ op.name = "refresh" /\ op.step = "validate" /\ UNCHANGED <<config, day, key, row, vault, ghost, drawn, faults>>
        /\ op'.name = "refresh" /\ op'.step = "write" /\ op'.now = op.now /\ op'.act = op.act /\ op'.ref = op.ref
        /\ op'.seen \in Answered /\ op'.seen \in Rows /\ op'.seen.ref = op.seen.ref
<1>1. PICK r \in Answered : op' = [op EXCEPT !.step = "write", !.seen = r] BY DEF RefreshValidate
<1>2. r \in Rows /\ r.ref = op.seen.ref BY AnsweredTyped
<1>3. op'.name = op.name /\ op'.step = "write" /\ op'.now = op.now /\ op'.act = op.act /\ op'.ref = op.ref /\ op'.seen = r
  BY <1>1 DEF OpTyped, Ops
<1> QED BY <1>2, <1>3 DEF RefreshValidate

\* deactivate starts from the row and its key, with Polar if the key holds a device.
LEMMA DeactivateDoes ==
  ASSUME Hypotheses, KeyTyped, RowTyped, OpTyped, VaultTyped, RestTyped, Operations, Deactivate
  PROVE /\ op.name = "none" /\ row.ref # None /\ key.benefit # None /\ row.ref \in DOMAIN vault
        /\ UNCHANGED <<config, day, key, row, vault, ghost, drawn, faults>>
        /\ op'.name = "deactivate" /\ op'.step \in {"delete", "remote"} /\ op'.act = vault[row.ref] /\ op'.ref = row.ref
        /\ op'.seen = row /\ (op'.step = "delete" => op'.act = None)
<1> DEFINE v == vault[row.ref]  step == IF v = None THEN "delete" ELSE "remote"
<1>1. /\ op.name = "none" /\ row.ref \in DOMAIN vault /\ UNCHANGED <<config, day, key, row, vault, ghost, drawn, faults>>
      /\ op' = [NoOp EXCEPT !.name = "deactivate", !.step = step, !.now = day, !.act = v, !.ref = row.ref, !.seen = row]
  BY DEF Deactivate
<1>2. row.ref # None /\ key.benefit # None BY <1>1, RefsAreNotNone DEF Operations
<1>3. step \in {"delete", "remote"} /\ (step = "delete" => v = None) OBVIOUS
<1>4. v = vault[row.ref] OBVIOUS
<1> HIDE DEF v, step
<1>5. op'.name = "deactivate" /\ op'.step = step /\ op'.act = v /\ op'.ref = row.ref /\ op'.seen = row
  BY <1>1 DEF NoOp
<1> QED BY <1>1, <1>2, <1>3, <1>4, <1>5

\* The device is given back and its key is next, or the operation ends; an answer that was lost is noted.
LEMMA DeactivateRemoteDoes ==
  ASSUME Hypotheses, KeyTyped, RowTyped, OpTyped, VaultTyped, RestTyped, Operations, DeactivateRemote
  PROVE /\ op.name = "deactivate" /\ op.step = "remote" /\ UNCHANGED <<config, day, row, vault, drawn, faults>>
        /\ key'.benefit = key.benefit /\ key'.status = key.status /\ key'.expires = key.expires
        /\ key'.slots \in {key.slots, key.slots \ {op.act}}
        /\ ghost'.raced = ghost.raced /\ ghost'.missing = ghost.missing /\ ghost'.leaked = ghost.leaked
        /\ (ghost.withdrawn => ghost'.withdrawn)
        /\ \/ op' = NoOp /\ (ghost'.withdrawn \/ UNCHANGED key)
           \/ /\ op' = [op EXCEPT !.step = "delete"] /\ key'.slots = key.slots \ {op.act}
<1>1. PICK a \in DOMAIN RemoteEnds :
        /\ op.step = "remote" /\ UNCHANGED <<config, day, row, vault, drawn, faults>>
        /\ key' = IF a \in {"done", "lost"} THEN [key EXCEPT !.slots = @ \ {op.act}] ELSE key
        /\ ghost' = [ghost EXCEPT !.withdrawn = ghost.withdrawn \/ a = "lost"]
        /\ IF RemoteEnds[a] = "none" THEN EndOp ELSE op' = [op EXCEPT !.step = RemoteEnds[a]]
  BY DEF DeactivateRemote
<1>2. op.name = "deactivate" BY <1>1, Deactivating
<1>3. a \in {"done", "refused", "outage", "lost"} /\ RemoteEnds[a] = IF a = "done" THEN "delete" ELSE "none"
  BY DEF RemoteEnds
<1>4. /\ key'.benefit = key.benefit /\ key'.status = key.status /\ key'.expires = key.expires
      /\ key'.slots = IF a \in {"done", "lost"} THEN key.slots \ {op.act} ELSE key.slots
      /\ a \notin {"done", "lost"} => UNCHANGED key
  BY <1>1 DEF KeyTyped, Keys
<1> DEFINE w == ghost.withdrawn \/ a = "lost"
<1>5. ghost' = [ghost EXCEPT !.withdrawn = w] /\ (ghost.withdrawn => w) /\ (a = "lost" => w) BY <1>1
<1> HIDE DEF w
<1>6. ghost'.raced = ghost.raced /\ ghost'.missing = ghost.missing /\ ghost'.leaked = ghost.leaked /\ ghost'.withdrawn = w
  BY <1>5 DEF RestTyped, Ghosts
<1>7. IF a = "done" THEN op' = [op EXCEPT !.step = "delete"] ELSE op' = NoOp BY <1>1, <1>3 DEF EndOp
<1> QED BY <1>1, <1>2, <1>3, <1>4, <1>5, <1>6, <1>7

\* What an operation holds is what the row and the key store hold.
LEMMA OperationsStep ==
  ASSUME Hypotheses, KeyTyped, RowTyped, OpTyped, VaultTyped, RestTyped, Operations, [Next]_licVars
  PROVE Operations'
<1> USE DEF Operations
<1>1. ASSUME NEW c \in DOMAIN ConfigErrors \cup {"bound"}, Load(c) PROVE Operations'
  BY <1>1 DEF Load
<1>2. ASSUME NEW b \in Benefits, NEW e \in Deadlines, NEW plain \in BOOLEAN, Buy(b, e, plain) PROVE Operations'
  BY <1>2, BuyDoes DEF Operations, NoOp
<1>3. CASE Tick
  BY <1>3 DEF Tick
<1>4. CASE PolarChanges
  BY <1>4 DEF PolarChanges, KeyTyped, Keys
<1>5. CASE Activate
  BY <1>5 DEF Activate, NoOp, NoRow
<1>6. CASE ActivateCall
  BY <1>6, ActivateCallDoes DEF Operations, NoOp
<1>7. CASE ActivateValidate
  BY <1>7, ActivateValidateDoes DEF Operations, NoOp
<1>8. CASE ActivateStore
  BY <1>8, ActivateStoreDoes, RefsAreNotNone DEF Operations, NoOp
<1>9. CASE ActivatePersist
  BY <1>9, Activating, RefsAreNotNone DEF ActivatePersist, EndOp, OpTyped, Ops, RowTyped, Rows, NoOp, Operations
<1>10. CASE Undo
  BY <1>10, Activating, RefsAreNotNone DEF Undo, Undone, EndOp, Without, OpTyped, Ops, KeyTyped, Keys, VaultTyped,
      NoOp, NoRow, Operations
<1>11. CASE Refresh
  BY <1>11, RefreshDoes DEF Operations, NoOp
<1>12. CASE RefreshValidate
  BY <1>12, RefreshValidateDoes DEF Operations, NoOp
<1>13. CASE RefreshWrite
  BY <1>13, Refreshing DEF RefreshWrite, EndOp, RowTyped, Rows, OpTyped, Ops, NoOp, Operations
<1>14. CASE Deactivate
  <2>1. None \notin key.slots BY DEF KeyTyped, Keys, Hypotheses
  <2> QED BY <1>14, <2>1, DeactivateDoes
<1>15. CASE DeactivateRemote
  BY <1>15, DeactivateRemoteDoes DEF Operations, NoOp, OpTyped, Ops
<1>16. CASE DeactivateDelete
  BY <1>16, Deactivating, RefsAreNotNone DEF DeactivateDelete, StorageFails, EndOp, Without, OpTyped, Ops, RowTyped,
      Rows, VaultTyped, NoOp, Operations
<1>17. CASE DeactivateDrop
  BY <1>17, Deactivating DEF DeactivateDrop, EndOp, OpTyped, Ops, NoOp, NoRow, Operations
<1>18. CASE Quit
  BY <1>18 DEF Quit, NoOp
<1>19. CASE UNCHANGED licVars
  BY <1>19 DEF licVars
<1> QED BY <1>1, <1>2, <1>3, <1>4, <1>5, <1>6, <1>7, <1>8, <1>9, <1>10, <1>11, <1>12, <1>13, <1>14, <1>15, <1>16,
    <1>17, <1>18, <1>19 DEF Next

\* Only Polar's own withdrawals and deactivations free a device that is held.
LEMMA HeldStep ==
  ASSUME Hypotheses, KeyTyped, RowTyped, OpTyped, VaultTyped, RestTyped, Operations, Held, [Next]_licVars
  PROVE Held'
<1> USE DEF Held
<1>1. ASSUME NEW c \in DOMAIN ConfigErrors \cup {"bound"}, Load(c) PROVE Held'
  BY <1>1 DEF Load
<1>2. ASSUME NEW b \in Benefits, NEW e \in Deadlines, NEW plain \in BOOLEAN, Buy(b, e, plain) PROVE Held'
  BY <1>2, BuyDoes, RefsAreNotNone DEF Operations, NoOp
<1>3. CASE Tick
  BY <1>3 DEF Tick, RestTyped, Ghosts, Operations
<1>4. CASE PolarChanges
  BY <1>4 DEF PolarChanges, KeyTyped, Keys, RestTyped, Ghosts, Operations
<1>5. CASE Activate
  BY <1>5 DEF Activate, NoOp, NoRow, RestTyped, Ghosts, Operations
<1>6. CASE ActivateCall
  BY <1>6, ActivateCallDoes, RefsAreNotNone DEF Operations, NoOp
<1>7. CASE ActivateValidate
  BY <1>7, ActivateValidateDoes DEF Operations, NoOp
<1>8. CASE ActivateStore
  BY <1>8, ActivateStoreDoes DEF Operations, NoOp
<1>9. CASE ActivatePersist
  BY <1>9, Activating, RefsAreNotNone DEF ActivatePersist, EndOp, OpTyped, Ops, RowTyped, Rows, NoOp, Operations
<1>10. CASE Undo
  BY <1>10, Activating, RefsAreNotNone DEF Undo, Undone, EndOp, Without, OpTyped, Ops, KeyTyped, Keys, VaultTyped,
      NoOp, NoRow, RestTyped, Ghosts, Operations
<1>11. CASE Refresh
  BY <1>11, RefreshDoes DEF Operations, NoOp
<1>12. CASE RefreshValidate
  BY <1>12, RefreshValidateDoes DEF Operations, NoOp
<1>13. CASE RefreshWrite
  BY <1>13, Refreshing DEF RefreshWrite, EndOp, RowTyped, Rows, OpTyped, Ops, NoOp, Operations
<1>14. CASE Deactivate
  BY <1>14, DeactivateDoes DEF Operations, NoOp
<1>15. CASE DeactivateRemote
  BY <1>15, DeactivateRemoteDoes DEF Operations, NoOp, OpTyped, Ops
<1>16. CASE DeactivateDelete
  BY <1>16, Deactivating, RefsAreNotNone DEF DeactivateDelete, StorageFails, EndOp, Without, OpTyped, Ops, RowTyped,
      Rows, VaultTyped, NoOp, RestTyped, Ghosts, Operations
<1>17. CASE DeactivateDrop
  BY <1>17, Deactivating, RefsAreNotNone DEF DeactivateDrop, EndOp, OpTyped, Ops, NoOp, NoRow, RestTyped, Ghosts,
      Operations
<1>18. CASE Quit
  BY <1>18 DEF Quit, NoOp, RestTyped, Ghosts, Operations
<1>19. CASE UNCHANGED licVars
  BY <1>19 DEF licVars
<1> QED BY <1>1, <1>2, <1>3, <1>4, <1>5, <1>6, <1>7, <1>8, <1>9, <1>10, <1>11, <1>12, <1>13, <1>14, <1>15, <1>16,
    <1>17, <1>18, <1>19 DEF Next

\* What a window ends on is a day.
LEMMA Days ==
  ASSUME Hypotheses, KeyTyped, RowTyped, OpTyped, VaultTyped, RestTyped, Operations
  PROVE /\ key.expires # None => key.expires \in Nat
        /\ row.deadline # None => row.deadline \in Nat
        /\ op.seen.deadline # None => op.seen.deadline \in Nat
        /\ op.step \in {"store", "persist"} => (op.lic.expires # None => op.lic.expires \in Nat)
        /\ day \in Nat /\ op.now \in Nat
        /\ row.offline \in Nat /\ row.success \in Nat /\ op.seen.offline \in Nat /\ op.seen.success \in Nat
<1>1. \A e \in Ends : e # None => e \in Nat BY EndsAreDays
<1>2. key.expires \in Ends /\ row.deadline \in Ends BY DEF KeyTyped, Keys, RowTyped, Rows
<1>3. op.seen \in Rows /\ op.now \in 0..MaxDay BY DEF OpTyped, Ops
<1>4. op.seen.deadline \in Ends /\ op.seen.offline \in Nat /\ op.seen.success \in 0..MaxDay BY <1>3 DEF Rows
<1>5. op.step \in {"store", "persist"} => op.lic.expires \in Ends BY DEF Operations
<1>6. day \in 0..MaxDay /\ row.offline \in Nat /\ row.success \in 0..MaxDay BY DEF RestTyped, RowTyped, Rows
<1>7. \A n \in 0..MaxDay : n \in Nat BY DEF Hypotheses
<1> QED BY <1>1, <1>2, <1>3, <1>4, <1>5, <1>6, <1>7

\* What refresh is about to write: the window it was told or the one it had, and the grace of a confirmation.
LEMMA AnsweredDoes ==
  ASSUME Hypotheses, KeyTyped, RowTyped, OpTyped, VaultTyped, RestTyped, Operations, NEW r \in Answered
  PROVE /\ r.deadline \in {op.seen.deadline, key.expires}
        /\ (r.success = op.seen.success /\ r.offline = op.seen.offline) \/ (r.success = op.now /\ r.offline = op.now + Grace)
<1>1. op.seen \in Rows BY DEF OpTyped, Ops
<1>2. ASSUME NEW s, r = Validated(op.seen, [status |-> s, expires |-> key.expires], op.now)
      PROVE /\ r.deadline = key.expires
            /\ (r.success = op.seen.success /\ r.offline = op.seen.offline) \/ (r.success = op.now /\ r.offline = op.now + Grace)
  BY <1>1, <1>2 DEF Validated, Rows
<1>3. ASSUME \/ r = AfterUnknown(op.seen, op.now) \/ r = AfterTransient(op.seen, op.now)
             \/ r \in {[op.seen EXCEPT !.status = "needs_online"], [op.seen EXCEPT !.status = "device_limit"], op.seen}
      PROVE r.deadline = op.seen.deadline /\ r.success = op.seen.success /\ r.offline = op.seen.offline
  BY <1>1, <1>3 DEF AfterUnknown, AfterTransient, Rows
<1> QED BY <1>2, <1>3 DEF Answered

\* A window is only renewed, and a check that it overtakes is remembered.
LEMMA WindowsStep ==
  ASSUME Hypotheses, KeyTyped, RowTyped, OpTyped, VaultTyped, RestTyped, Operations, Windows, [Next]_licVars
  PROVE Windows'
<1> USE DEF Windows, Older, Past
<1>1. ASSUME NEW c \in DOMAIN ConfigErrors \cup {"bound"}, Load(c) PROVE Windows'
  BY <1>1 DEF Load
<1>2. ASSUME NEW b \in Benefits, NEW e \in Deadlines, NEW plain \in BOOLEAN, Buy(b, e, plain) PROVE Windows'
  BY <1>2, BuyDoes DEF Operations, NoOp
<1>3. CASE Tick
  <2>1. UNCHANGED <<key, row, op>> /\ day' = day + 1 BY <1>3 DEF Tick
  <2> DEFINE late == op.name # "none" /\ Past(key.expires, day + 1) /\ ~Past(key.expires, op.now)
             raced == ghost.raced \/ late
  <2>a. ghost' = [ghost EXCEPT !.raced = raced] /\ (late => raced) /\ raced \in BOOLEAN BY <1>3 DEF Tick
  <2>b. late <=> (op.name # "none" /\ Past(key.expires, day + 1) /\ ~Past(key.expires, op.now)) OBVIOUS
  <2> HIDE DEF late, raced
  <2>2. late => ghost'.raced BY <2>a DEF RestTyped, Ghosts
  <2>3. ASSUME ~ghost'.raced, op.name = "refresh", op.step = "validate", Past(key.expires, day')
        PROVE Past(op.seen.deadline, op.now)
    BY <2>1, <2>b, <2>2, <2>3, Days
  <2> QED BY <2>1, <2>3
<1>4. CASE PolarChanges
  <2>1. UNCHANGED <<row, op, day>> /\ ghost'.raced = ghost.raced BY <1>4 DEF PolarChanges, RestTyped, Ghosts
  <2>2. \/ key'.expires = key.expires
        \/ key.expires # None /\ key'.expires = Max(Deadlines \ {None})
    BY <1>4 DEF PolarChanges, KeyTyped, Keys
  <2>3. CASE key'.expires = key.expires BY <2>1, <2>3
  <2>4. CASE key.expires # None /\ key'.expires = Max(Deadlines \ {None})
    <3>1. key.expires \in Deadlines \ {None} BY <2>4 DEF KeyTyped, Keys, Ends
    <3>2. key'.expires \in Nat /\ key.expires \in Nat /\ key.expires <= key'.expires BY <2>4, <3>1, LastWindow
    <3> QED BY <2>1, <2>4, <3>2, Days
  <2> QED BY <2>2, <2>3, <2>4
<1>5. CASE Activate
  BY <1>5 DEF Activate, NoOp, NoRow, RestTyped, Ghosts, Operations
<1>6. CASE ActivateCall
  BY <1>6, ActivateCallDoes DEF Operations, NoOp
<1>7. CASE ActivateValidate
  BY <1>7, ActivateValidateDoes, Days DEF Operations, NoOp
<1>8. CASE ActivateStore
  BY <1>8, ActivateStoreDoes DEF Operations, NoOp
<1>9. CASE ActivatePersist
  BY <1>9, Activating, Days DEF ActivatePersist, EndOp, OpTyped, Ops, RowTyped, Rows, NoOp, Operations
<1>10. CASE Undo
  BY <1>10, Activating DEF Undo, Undone, EndOp, Without, OpTyped, Ops, KeyTyped, Keys, VaultTyped, NoOp, NoRow,
      RestTyped, Ghosts, Operations
<1>11. CASE Refresh
  <2>1. CASE op' = op BY <1>11, <2>1, RefreshDoes
  <2>2. CASE op'.name = "refresh" /\ op'.step = "validate" /\ op'.now = day /\ op'.seen = row /\ UNCHANGED row
    BY <1>11, <2>2, RefreshDoes, Days
  <2> QED BY <1>11, <2>1, <2>2, RefreshDoes
<1>12. CASE RefreshValidate
  <2>1. op'.seen.deadline \in {op.seen.deadline, key.expires} BY <1>12, RefreshValidateDoes, AnsweredDoes
  <2> QED BY <1>12, <2>1, RefreshValidateDoes, Days
<1>13. CASE RefreshWrite
  BY <1>13, Refreshing, Days DEF RefreshWrite, EndOp, RowTyped, Rows, OpTyped, Ops, NoOp, Operations
<1>14. CASE Deactivate
  BY <1>14, DeactivateDoes DEF Operations, NoOp
<1>15. CASE DeactivateRemote
  BY <1>15, DeactivateRemoteDoes DEF Operations, NoOp, OpTyped, Ops
<1>16. CASE DeactivateDelete
  BY <1>16, Deactivating, RefsAreNotNone, Days DEF DeactivateDelete, StorageFails, EndOp, Without, OpTyped, Ops,
      RowTyped, Rows, VaultTyped, NoOp, RestTyped, Ghosts, Operations
<1>17. CASE DeactivateDrop
  BY <1>17, Deactivating DEF DeactivateDrop, EndOp, OpTyped, Ops, NoOp, NoRow, RestTyped, Ghosts, Operations
<1>18. CASE Quit
  BY <1>18 DEF Quit, NoOp, RestTyped, Ghosts, Operations
<1>19. CASE UNCHANGED licVars
  BY <1>19 DEF licVars
<1> QED BY <1>1, <1>2, <1>3, <1>4, <1>5, <1>6, <1>7, <1>8, <1>9, <1>10, <1>11, <1>12, <1>13, <1>14, <1>15, <1>16,
    <1>17, <1>18, <1>19 DEF Next

\* A grace runs from a confirmation and is never prolonged by what is not one.
LEMMA PromisedStep ==
  ASSUME Hypotheses, KeyTyped, RowTyped, OpTyped, VaultTyped, RestTyped, Operations, Promised, [Next]_licVars
  PROVE Promised'
<1> USE DEF Promised, Hypotheses
<1>1. ASSUME NEW c \in DOMAIN ConfigErrors \cup {"bound"}, Load(c) PROVE Promised'
  BY <1>1 DEF Load
<1>2. ASSUME NEW b \in Benefits, NEW e \in Deadlines, NEW plain \in BOOLEAN, Buy(b, e, plain) PROVE Promised'
  BY <1>2, BuyDoes
<1>3. CASE Tick
  BY <1>3 DEF Tick
<1>4. CASE PolarChanges
  BY <1>4 DEF PolarChanges, KeyTyped, Keys
<1>5. CASE Activate
  BY <1>5 DEF Activate, NoOp, NoRow
<1>6. CASE ActivateCall
  BY <1>6, ActivateCallDoes DEF Operations, NoOp, NoRow
<1>7. CASE ActivateValidate
  BY <1>7, ActivateValidateDoes DEF Operations, NoOp, NoRow
<1>8. CASE ActivateStore
  BY <1>8, ActivateStoreDoes DEF Operations, NoOp
<1>9. CASE ActivatePersist
  BY <1>9, Activating, Days DEF ActivatePersist, EndOp, OpTyped, Ops, RowTyped, Rows, NoOp, NoRow, Operations
<1>10. CASE Undo
  BY <1>10, Activating DEF Undo, Undone, EndOp, Without, OpTyped, Ops, KeyTyped, Keys, VaultTyped, NoOp, NoRow,
      Operations
<1>11. CASE Refresh
  BY <1>11, RefreshDoes, Days DEF Operations, NoOp
<1>12. CASE RefreshValidate
  <2>1. PICK r \in Answered : op'.seen = r BY <1>12, RefreshValidateDoes
  <2>2. r.offline <= r.success + Grace
    <3>1. CASE r.success = op.seen.success /\ r.offline = op.seen.offline BY <3>1
    <3>2. CASE r.success = op.now /\ r.offline = op.now + Grace
      <4>1. op.now \in Nat /\ Grace \in Nat BY Days
      <4> QED BY <3>2, <4>1
    <3> QED BY <3>1, <3>2, AnsweredDoes
  <2> QED BY <1>12, <2>1, <2>2, RefreshValidateDoes
<1>13. CASE RefreshWrite
  BY <1>13, Refreshing, Days DEF RefreshWrite, EndOp, RowTyped, Rows, OpTyped, Ops, NoOp, NoRow, Operations
<1>14. CASE Deactivate
  BY <1>14, DeactivateDoes, Days DEF Operations, NoOp
<1>15. CASE DeactivateRemote
  BY <1>15, DeactivateRemoteDoes DEF Operations, NoOp, OpTyped, Ops, NoRow
<1>16. CASE DeactivateDelete
  BY <1>16, Deactivating, Days DEF DeactivateDelete, StorageFails, EndOp, Without, OpTyped, Ops, RowTyped, Rows,
      VaultTyped, NoOp, NoRow, Operations
<1>17. CASE DeactivateDrop
  BY <1>17, Deactivating DEF DeactivateDrop, EndOp, OpTyped, Ops, NoOp, NoRow, Operations
<1>18. CASE Quit
  BY <1>18 DEF Quit, NoOp, NoRow
<1>19. CASE UNCHANGED licVars
  BY <1>19 DEF licVars
<1> QED BY <1>1, <1>2, <1>3, <1>4, <1>5, <1>6, <1>7, <1>8, <1>9, <1>10, <1>11, <1>12, <1>13, <1>14, <1>15, <1>16,
    <1>17, <1>18, <1>19 DEF Next

\* While Polar has withdrawn nothing, an answer for a key that is not known means a window that has closed.
LEMMA UnharmedStep ==
  ASSUME Hypotheses, KeyTyped, RowTyped, OpTyped, VaultTyped, RestTyped, Operations, Held, Windows,
    LapsedIsNotRevoked, Unharmed, [Next]_licVars
  PROVE Unharmed'
<1> USE DEF Unharmed
<1>1. ASSUME NEW c \in DOMAIN ConfigErrors \cup {"bound"}, Load(c) PROVE Unharmed'
  BY <1>1 DEF Load, RestTyped, Ghosts, NoRow
<1>2. ASSUME NEW b \in Benefits, NEW e \in Deadlines, NEW plain \in BOOLEAN, Buy(b, e, plain) PROVE Unharmed'
  BY <1>2, BuyDoes DEF Operations, NoOp, RestTyped, Ghosts, NoRow
<1>3. CASE Tick
  BY <1>3 DEF Tick, RestTyped, Ghosts, NoRow
<1>4. CASE PolarChanges
  BY <1>4 DEF PolarChanges, KeyTyped, Keys, RestTyped, Ghosts, NoRow
<1>5. CASE Activate
  BY <1>5 DEF Activate, NoOp, NoRow, RestTyped, Ghosts
<1>6. CASE ActivateCall
  BY <1>6, ActivateCallDoes DEF Operations, NoOp, RestTyped, Ghosts, NoRow
<1>7. CASE ActivateValidate
  BY <1>7, ActivateValidateDoes DEF Operations, NoOp, RestTyped, Ghosts, NoRow
<1>8. CASE ActivateStore
  BY <1>8, ActivateStoreDoes DEF Operations, NoOp, RestTyped, Ghosts, NoRow
<1>9. CASE ActivatePersist
  BY <1>9, Activating DEF ActivatePersist, EndOp, OpTyped, Ops, RowTyped, Rows, NoOp, RestTyped, Ghosts, NoRow,
      Operations
<1>10. CASE Undo
  BY <1>10, Activating DEF Undo, Undone, EndOp, Without, OpTyped, Ops, KeyTyped, Keys, VaultTyped, NoOp, NoRow,
      RestTyped, Ghosts, Operations
<1>11. CASE Refresh
  BY <1>11, RefreshDoes DEF Operations, NoOp, RestTyped, Ghosts, NoRow, LapsedIsNotRevoked
<1>12. CASE RefreshValidate
  <2> SUFFICES ASSUME key.benefit # "other", ~ghost.withdrawn, ~ghost.raced
               PROVE op'.seen.status \notin {"revoked", "disabled"}
    BY <1>12, RefreshValidateDoes
  <2> DEFINE r == op'.seen
  <2>1. r \in Answered /\ op.name = "refresh" /\ op.step = "validate" BY <1>12, RefreshValidateDoes
  <2>2. op.seen \in Rows /\ op.seen.status \notin {"revoked", "disabled"} /\ key.status = "granted" /\ key.benefit # None
    BY <2>1 DEF OpTyped, Ops, Held, Operations
  <2>3. ProductForBenefit(key.benefit) # None BY <2>2 DEF ProductForBenefit, Hypotheses, KeyTyped, Keys
  <2>4. ASSUME NEW s, s = key.status
        PROVE Validated(op.seen, [status |-> s, expires |-> key.expires], op.now).status \in {"active", "expired"}
    BY <2>2, <2>3, <2>4 DEF Validated, ConfirmedState, Rows
  <2>5. ASSUME ~Valid(op.act) PROVE AfterUnknown(op.seen, op.now).status = "expired"
    <3>1. Known(op.act) BY <2>1 DEF Held, Known
    <3>2. Past(key.expires, day) BY <2>2, <2>5, <3>1 DEF Valid
    <3>3. Past(op.seen.deadline, op.now) BY <2>1, <3>2 DEF Windows
    <3> QED BY <2>2, <3>3 DEF AfterUnknown, Rows
  <2>6. AfterTransient(op.seen, op.now).status \notin {"revoked", "disabled"}
    BY <2>2 DEF AfterTransient, Rows
  <2>7. /\ [op.seen EXCEPT !.status = "needs_online"].status = "needs_online"
        /\ [op.seen EXCEPT !.status = "device_limit"].status = "device_limit"
    BY <2>2 DEF Rows
  <2> HIDE DEF r
  <2>8. \/ \E s : s = key.status /\ r = Validated(op.seen, [status |-> s, expires |-> key.expires], op.now)
        \/ ~Valid(op.act) /\ r = AfterUnknown(op.seen, op.now)
        \/ r = AfterTransient(op.seen, op.now)
        \/ r \in {[op.seen EXCEPT !.status = "needs_online"], [op.seen EXCEPT !.status = "device_limit"], op.seen}
    BY <2>1 DEF Answered
  <2> QED BY <2>2, <2>4, <2>5, <2>6, <2>7, <2>8 DEF r
<1>13. CASE RefreshWrite
  BY <1>13, Refreshing DEF RefreshWrite, EndOp, RowTyped, Rows, OpTyped, Ops, NoOp, RestTyped, Ghosts, NoRow,
      Operations
<1>14. CASE Deactivate
  BY <1>14, DeactivateDoes DEF Operations, NoOp, RestTyped, Ghosts, NoRow, LapsedIsNotRevoked
<1>15. CASE DeactivateRemote
  BY <1>15, DeactivateRemoteDoes DEF Operations, NoOp, OpTyped, Ops, RestTyped, Ghosts, NoRow
<1>16. CASE DeactivateDelete
  BY <1>16, Deactivating DEF DeactivateDelete, StorageFails, EndOp, Without, OpTyped, Ops, RowTyped, Rows,
      VaultTyped, NoOp, RestTyped, Ghosts, NoRow, Operations
<1>17. CASE DeactivateDrop
  BY <1>17, Deactivating DEF DeactivateDrop, EndOp, OpTyped, Ops, NoOp, NoRow, RestTyped, Ghosts, Operations
<1>18. CASE Quit
  BY <1>18 DEF Quit, NoOp, RestTyped, Ghosts, NoRow
<1>19. CASE UNCHANGED licVars
  BY <1>19 DEF licVars
<1> QED BY <1>1, <1>2, <1>3, <1>4, <1>5, <1>6, <1>7, <1>8, <1>9, <1>10, <1>11, <1>12, <1>13, <1>14, <1>15, <1>16,
    <1>17, <1>18, <1>19 DEF Next

\* The row is written as an activation confirmed it, or as refresh was about to write it.
LEMMA LapsedStep ==
  ASSUME Hypotheses, KeyTyped, RowTyped, OpTyped, VaultTyped, RestTyped, Operations, Unharmed, LapsedIsNotRevoked,
    [Next]_licVars
  PROVE LapsedIsNotRevoked'
<1> USE DEF LapsedIsNotRevoked
<1>1. ASSUME NEW c \in DOMAIN ConfigErrors \cup {"bound"}, Load(c) PROVE LapsedIsNotRevoked'
  BY <1>1 DEF Load, RestTyped, Ghosts, NoRow
<1>2. ASSUME NEW b \in Benefits, NEW e \in Deadlines, NEW plain \in BOOLEAN, Buy(b, e, plain) PROVE LapsedIsNotRevoked'
  BY <1>2, BuyDoes DEF Operations, NoOp, RestTyped, Ghosts, NoRow
<1>3. CASE Tick
  BY <1>3 DEF Tick, RestTyped, Ghosts, NoRow
<1>4. CASE PolarChanges
  BY <1>4 DEF PolarChanges, KeyTyped, Keys, RestTyped, Ghosts, NoRow
<1>5. CASE Activate
  BY <1>5 DEF Activate, NoOp, NoRow, RestTyped, Ghosts
<1>6. CASE ActivateCall
  BY <1>6, ActivateCallDoes DEF Operations, NoOp, RestTyped, Ghosts, NoRow
<1>7. CASE ActivateValidate
  BY <1>7, ActivateValidateDoes DEF Operations, NoOp, RestTyped, Ghosts, NoRow
<1>8. CASE ActivateStore
  BY <1>8, ActivateStoreDoes DEF Operations, NoOp, RestTyped, Ghosts, NoRow
<1>9. CASE ActivatePersist
  BY <1>9, Activating DEF ActivatePersist, EndOp, OpTyped, Ops, RowTyped, Rows, NoOp, RestTyped, Ghosts, NoRow,
      Operations
<1>10. CASE Undo
  BY <1>10, Activating DEF Undo, Undone, EndOp, Without, OpTyped, Ops, KeyTyped, Keys, VaultTyped, NoOp, NoRow,
      RestTyped, Ghosts, Operations
<1>11. CASE Refresh
  BY <1>11, RefreshDoes DEF Operations, NoOp, RestTyped, Ghosts, NoRow
<1>12. CASE RefreshValidate
  BY <1>12, RefreshValidateDoes DEF Operations, NoOp, RestTyped, Ghosts, NoRow
<1>13. CASE RefreshWrite
  BY <1>13, Refreshing DEF RefreshWrite, EndOp, RowTyped, Rows, OpTyped, Ops, NoOp, RestTyped, Ghosts, NoRow,
      Unharmed, Operations
<1>14. CASE Deactivate
  BY <1>14, DeactivateDoes DEF Operations, NoOp, RestTyped, Ghosts, NoRow
<1>15. CASE DeactivateRemote
  BY <1>15, DeactivateRemoteDoes DEF Operations, NoOp, OpTyped, Ops, RestTyped, Ghosts, NoRow
<1>16. CASE DeactivateDelete
  BY <1>16, Deactivating DEF DeactivateDelete, StorageFails, EndOp, Without, OpTyped, Ops, RowTyped, Rows,
      VaultTyped, NoOp, RestTyped, Ghosts, NoRow, Unharmed, Operations
<1>17. CASE DeactivateDrop
  BY <1>17, Deactivating DEF DeactivateDrop, EndOp, OpTyped, Ops, NoOp, NoRow, RestTyped, Ghosts, Operations
<1>18. CASE Quit
  BY <1>18 DEF Quit, NoOp, RestTyped, Ghosts, NoRow
<1>19. CASE UNCHANGED licVars
  BY <1>19 DEF licVars
<1> QED BY <1>1, <1>2, <1>3, <1>4, <1>5, <1>6, <1>7, <1>8, <1>9, <1>10, <1>11, <1>12, <1>13, <1>14, <1>15, <1>16,
    <1>17, <1>18, <1>19 DEF Next

\* A device, one at a time: it is of the operation, or the one the row's key holds.
Accounted ==
  ghost.leaked \/ \A a \in key.slots : a = op.act \/ (row.ref \in DOMAIN vault /\ a = vault[row.ref])

\* That is what the property says of them.
LEMMA DevicesAreThese == DevicesAreAccounted <=> Accounted
<1>1. {vault[r] : r \in DOMAIN vault \cap {row.ref}} = IF row.ref \in DOMAIN vault THEN {vault[row.ref]} ELSE {}
  OBVIOUS
<1> QED BY <1>1 DEF DevicesAreAccounted, Accounted

\* A device is taken by an activation, held by the row, and forgotten when it is given back.
LEMMA DevicesStep ==
  ASSUME Hypotheses, KeyTyped, RowTyped, OpTyped, VaultTyped, RestTyped, Operations, Accounted, [Next]_licVars
  PROVE Accounted'
<1> USE DEF Accounted
<1>1. ASSUME NEW c \in DOMAIN ConfigErrors \cup {"bound"}, Load(c) PROVE Accounted'
  BY <1>1, RefsAreNotNone DEF Load, RestTyped, Ghosts, NoRow
<1>2. ASSUME NEW b \in Benefits, NEW e \in Deadlines, NEW plain \in BOOLEAN, Buy(b, e, plain) PROVE Accounted'
  BY <1>2, BuyDoes, RefsAreNotNone DEF Operations, NoOp, RestTyped, Ghosts, NoRow
<1>3. CASE Tick
  BY <1>3, RefsAreNotNone DEF Tick, RestTyped, Ghosts, NoRow
<1>4. CASE PolarChanges
  BY <1>4, RefsAreNotNone DEF PolarChanges, KeyTyped, Keys, RestTyped, Ghosts, NoRow
<1>5. CASE Activate
  <2>1. op.act = None /\ op'.act = None /\ UNCHANGED <<key, row, vault, ghost>> BY <1>5 DEF Activate, NoOp, Operations
  <2> QED BY <2>1
<1>6. CASE ActivateCall
  <2>1. op.act = None /\ row.ref \notin DOMAIN vault /\ UNCHANGED <<row, vault>>
    BY <1>6, ActivateCallDoes, RefsAreNotNone
  <2>2. CASE op' = NoOp /\ (UNCHANGED <<key, ghost>> \/ ghost'.leaked)
    <3>1. op'.act = None BY <2>2 DEF NoOp
    <3> QED BY <2>1, <2>2, <3>1
  <2>3. CASE key'.slots \subseteq key.slots \cup {op'.act} /\ UNCHANGED ghost
    <3>1. ASSUME ~ghost.leaked, NEW a \in key.slots PROVE FALSE
      <4>1. a = None BY <2>1, <3>1
      <4> QED BY <4>1 DEF KeyTyped, Keys, Hypotheses
    <3> QED BY <2>3, <3>1
  <2> QED BY <1>6, <2>2, <2>3, ActivateCallDoes
<1>7. CASE ActivateValidate
  BY <1>7, ActivateValidateDoes, RefsAreNotNone DEF Operations, NoOp, RestTyped, Ghosts, NoRow
<1>8. CASE ActivateStore
  BY <1>8, ActivateStoreDoes, RefsAreNotNone DEF Operations, NoOp, RestTyped, Ghosts, NoRow
<1>9. CASE ActivatePersist
  BY <1>9, Activating, RefsAreNotNone DEF ActivatePersist, EndOp, OpTyped, Ops, RowTyped, Rows, NoOp, RestTyped,
      Ghosts, NoRow, Operations
<1>10. CASE Undo
  BY <1>10, Activating, RefsAreNotNone DEF Undo, Undone, EndOp, Without, OpTyped, Ops, KeyTyped, Keys, VaultTyped,
      NoOp, NoRow, RestTyped, Ghosts, Operations
<1>11. CASE Refresh
  <2>1. UNCHANGED <<key, vault, ghost>> /\ row'.ref = row.ref BY <1>11, RefreshDoes
  <2>2. CASE op' = op BY <2>1, <2>2
  <2>3. CASE row.ref \in DOMAIN vault /\ op'.act = vault[row.ref]
    <3>1. op.act = None BY <1>11, RefreshDoes DEF Operations, NoOp
    <3>2. None \notin key.slots BY DEF KeyTyped, Keys, Hypotheses
    <3> QED BY <2>1, <2>3, <3>1, <3>2
  <2> QED BY <1>11, <2>2, <2>3, RefreshDoes
<1>12. CASE RefreshValidate
  BY <1>12, RefreshValidateDoes, RefsAreNotNone DEF Operations, NoOp, RestTyped, Ghosts, NoRow
<1>13. CASE RefreshWrite
  BY <1>13, Refreshing, RefsAreNotNone DEF RefreshWrite, EndOp, RowTyped, Rows, OpTyped, Ops, NoOp, RestTyped,
      Ghosts, NoRow, Operations
<1>14. CASE Deactivate
  <2>1. UNCHANGED <<key, row, vault, ghost>> /\ op.act = None BY <1>14, DeactivateDoes DEF Operations, NoOp
  <2>2. None \notin key.slots BY DEF KeyTyped, Keys, Hypotheses
  <2> QED BY <2>1, <2>2
<1>15. CASE DeactivateRemote
  BY <1>15, DeactivateRemoteDoes, RefsAreNotNone DEF Operations, NoOp, OpTyped, Ops, RestTyped, Ghosts, NoRow
<1>16. CASE DeactivateDelete
  BY <1>16, Deactivating, RefsAreNotNone DEF DeactivateDelete, StorageFails, EndOp, Without, OpTyped, Ops, RowTyped,
      Rows, VaultTyped, NoOp, RestTyped, Ghosts, NoRow, Operations
<1>17. CASE DeactivateDrop
  BY <1>17, Deactivating, RefsAreNotNone DEF DeactivateDrop, EndOp, OpTyped, Ops, NoOp, NoRow, RestTyped, Ghosts,
      Operations
<1>18. CASE Quit
  <2>1. UNCHANGED <<key, row, vault>> /\ op.name # "none" /\ op'.act = None BY <1>18 DEF Quit, NoOp
  <2>2. /\ ghost.leaked => ghost'.leaked
        /\ (op.name = "activate" /\ op.act # None) => ghost'.leaked
    BY <1>18 DEF Quit, RestTyped, Ghosts
  <2>3. None \notin key.slots BY DEF KeyTyped, Keys, Hypotheses
  <2>4. CASE op.name = "activate" BY <2>1, <2>2, <2>3, <2>4
  <2>5. CASE op.step = "drop" BY <2>1, <2>2, <2>5 DEF Operations
  <2>6. CASE op.name \in {"refresh", "deactivate"} /\ op.step # "drop" BY <2>1, <2>2, <2>6 DEF Operations
  <2>7. op.name \in {"activate", "refresh", "deactivate"} BY <2>1 DEF OpTyped, Ops
  <2> QED BY <2>4, <2>5, <2>6, <2>7
<1>19. CASE UNCHANGED licVars
  BY <1>19 DEF licVars
<1> QED BY <1>1, <1>2, <1>3, <1>4, <1>5, <1>6, <1>7, <1>8, <1>9, <1>10, <1>11, <1>12, <1>13, <1>14, <1>15, <1>16,
    <1>17, <1>18, <1>19 DEF Next

\* The key of a row leaves the key store only with the last step of a deactivation.
LEMMA RowHasItsKeyStep ==
  ASSUME Hypotheses, KeyTyped, RowTyped, OpTyped, VaultTyped, RestTyped, Operations, RowHasItsKey, [Next]_licVars
  PROVE RowHasItsKey'
<1> USE DEF RowHasItsKey
<1>1. ASSUME NEW c \in DOMAIN ConfigErrors \cup {"bound"}, Load(c) PROVE RowHasItsKey'
  BY <1>1, RefsAreNotNone DEF Load, RestTyped, Ghosts, NoRow
<1>2. ASSUME NEW b \in Benefits, NEW e \in Deadlines, NEW plain \in BOOLEAN, Buy(b, e, plain) PROVE RowHasItsKey'
  BY <1>2, BuyDoes, RefsAreNotNone DEF Operations, NoOp, RestTyped, Ghosts, NoRow
<1>3. CASE Tick
  BY <1>3, RefsAreNotNone DEF Tick, RestTyped, Ghosts, NoRow
<1>4. CASE PolarChanges
  BY <1>4, RefsAreNotNone DEF PolarChanges, KeyTyped, Keys, RestTyped, Ghosts, NoRow
<1>5. CASE Activate
  BY <1>5, RefsAreNotNone DEF Activate, NoOp, NoRow, RestTyped, Ghosts
<1>6. CASE ActivateCall
  BY <1>6, ActivateCallDoes, RefsAreNotNone DEF Operations, NoOp, RestTyped, Ghosts, NoRow
<1>7. CASE ActivateValidate
  BY <1>7, ActivateValidateDoes, RefsAreNotNone DEF Operations, NoOp, RestTyped, Ghosts, NoRow
<1>8. CASE ActivateStore
  BY <1>8, ActivateStoreDoes, RefsAreNotNone DEF Operations, NoOp, RestTyped, Ghosts, NoRow
<1>9. CASE ActivatePersist
  BY <1>9, Activating, RefsAreNotNone DEF ActivatePersist, EndOp, OpTyped, Ops, RowTyped, Rows, NoOp, RestTyped,
      Ghosts, NoRow, Operations
<1>10. CASE Undo
  BY <1>10, Activating, RefsAreNotNone DEF Undo, Undone, EndOp, Without, OpTyped, Ops, KeyTyped, Keys, VaultTyped,
      NoOp, NoRow, RestTyped, Ghosts, Operations
<1>11. CASE Refresh
  BY <1>11, RefreshDoes, RefsAreNotNone DEF Operations, NoOp, RestTyped, Ghosts, NoRow
<1>12. CASE RefreshValidate
  BY <1>12, RefreshValidateDoes, RefsAreNotNone DEF Operations, NoOp, RestTyped, Ghosts, NoRow
<1>13. CASE RefreshWrite
  BY <1>13, Refreshing, RefsAreNotNone DEF RefreshWrite, EndOp, RowTyped, Rows, OpTyped, Ops, NoOp, RestTyped,
      Ghosts, NoRow, Operations
<1>14. CASE Deactivate
  BY <1>14, DeactivateDoes, RefsAreNotNone DEF Operations, NoOp, RestTyped, Ghosts, NoRow
<1>15. CASE DeactivateRemote
  BY <1>15, DeactivateRemoteDoes, RefsAreNotNone DEF Operations, NoOp, OpTyped, Ops, RestTyped, Ghosts, NoRow
<1>16. CASE DeactivateDelete
  BY <1>16, Deactivating, RefsAreNotNone DEF DeactivateDelete, StorageFails, EndOp, Without, OpTyped, Ops, RowTyped,
      Rows, VaultTyped, NoOp, RestTyped, Ghosts, NoRow, Operations
<1>17. CASE DeactivateDrop
  BY <1>17, Deactivating, RefsAreNotNone DEF DeactivateDrop, EndOp, OpTyped, Ops, NoOp, NoRow, RestTyped, Ghosts,
      Operations
<1>18. CASE Quit
  BY <1>18, RefsAreNotNone DEF Quit, NoOp, RestTyped, Ghosts, NoRow
<1>19. CASE UNCHANGED licVars
  BY <1>19 DEF licVars
<1> QED BY <1>1, <1>2, <1>3, <1>4, <1>5, <1>6, <1>7, <1>8, <1>9, <1>10, <1>11, <1>12, <1>13, <1>14, <1>15, <1>16,
    <1>17, <1>18, <1>19 DEF Next

\* The only step that drops a row drops one whose key has left the key store, after Polar has given the device back.
LEMMA FailedDeactivationKeepsStep ==
  ASSUME Hypotheses, KeyTyped, RowTyped, OpTyped, VaultTyped, RestTyped, Operations, [Next]_licVars
  PROVE FailedDeactivationKeeps
<1> SUFFICES ASSUME row.ref # None, row'.ref = None PROVE vault' = Without(vault, row.ref) /\ op.act \notin key.slots
  BY DEF FailedDeactivationKeeps
<1>1. DeactivateDrop
  <2>1. row' # row OBVIOUS
  <2>2. ASSUME NEW c, Load(c) PROVE FALSE BY <2>1, <2>2 DEF Load
  <2>3. ASSUME NEW b, NEW e, NEW plain, Buy(b, e, plain) PROVE FALSE BY <2>1, <2>3 DEF Buy
  <2>4. ~Tick /\ ~PolarChanges /\ ~Activate /\ ~ActivateCall /\ ~ActivateValidate /\ ~ActivateStore /\ ~Undo /\ ~RefreshValidate
        /\ ~Deactivate /\ ~DeactivateRemote /\ ~Quit
    BY <2>1 DEF Tick, PolarChanges, Activate, ActivateCall, ActivateValidate, ActivateStore, Undo, RefreshValidate,
      Deactivate, DeactivateRemote, Quit
  <2>5. ~ActivatePersist BY Activating DEF ActivatePersist
  <2>6. ~Refresh BY RefreshDoes
  <2>7. ASSUME RefreshWrite PROVE FALSE
    <3>1. op.seen.ref = row.ref BY <2>7, Refreshing DEF RefreshWrite, Operations
    <3> QED BY <2>7, <3>1 DEF RefreshWrite
  <2>8. ASSUME DeactivateDelete PROVE FALSE
    <3>1. op.seen.ref = row.ref BY <2>8, Deactivating DEF DeactivateDelete, Operations
    <3> QED BY <2>8, <3>1 DEF DeactivateDelete, StorageFails, OpTyped, Ops, Rows
  <2> QED BY <2>1, <2>2, <2>3, <2>4, <2>5, <2>6, <2>7, <2>8 DEF Next, licVars
<1>2. row.ref \notin DOMAIN vault /\ op.act \notin key.slots /\ vault' = vault BY <1>1 DEF DeactivateDrop, Operations
<1>3. DOMAIN vault \ {row.ref} = DOMAIN vault BY <1>2
<1>4. vault = [x \in DOMAIN vault |-> vault[x]] BY DEF VaultTyped
<1> QED BY <1>2, <1>3, <1>4 DEF Without

-----------------------------------------------------------------------------
(* The theorems.                                                           *)

\* There is no key, no row and no operation.
LEMMA LicInit == ASSUME Hypotheses, Init PROVE LicInv
<1> USE DEF Init
<1>1. KeyTyped BY DEF KeyTyped, Keys, NoKey, Answers, Ends
<1>2. RowTyped /\ OpTyped BY NoOpTyped DEF RowTyped, OpTyped
<1>3. VaultTyped BY DEF VaultTyped
<1>4. RestTyped BY DEF RestTyped, Ghosts, Excused, Hypotheses
<1>5. Operations BY DEF Operations, NoOp, NoRow, NoKey
<1>6. Held /\ Windows BY DEF Held, Windows, Older, Past, NoOp, NoRow, NoKey
<1>7. Promised BY DEF Promised, NoOp, NoRow, Hypotheses
<1>8. Unharmed /\ LapsedIsNotRevoked BY DEF Unharmed, LapsedIsNotRevoked, NoOp, NoRow
<1>9. DevicesAreAccounted /\ RowHasItsKey BY DEF DevicesAreAccounted, RowHasItsKey, NoRow, NoKey
<1> QED BY <1>1, <1>2, <1>3, <1>4, <1>5, <1>6, <1>7, <1>8, <1>9 DEF LicInv, Typed

\* Every step of an operation, of Polar and of the calendar keeps them together.
LEMMA LicStep == ASSUME Hypotheses, LicInv, [Next]_licVars PROVE LicInv'
<1>1. /\ KeyTyped /\ RowTyped /\ OpTyped /\ VaultTyped /\ RestTyped /\ Operations /\ Held /\ Windows /\ Promised /\ Unharmed
      /\ LapsedIsNotRevoked /\ Accounted /\ RowHasItsKey
  BY DevicesAreThese DEF LicInv, Typed
<1>2. Typed' BY <1>1, KeyTypedStep, RowTypedStep, OpTypedStep, VaultTypedStep, RestTypedStep DEF Typed
<1>3. Operations' /\ Held' BY <1>1, OperationsStep, HeldStep
<1>4. Windows' /\ Promised' BY <1>1, WindowsStep, PromisedStep
<1>5. Unharmed' /\ LapsedIsNotRevoked' BY <1>1, UnharmedStep, LapsedStep
<1>6. Accounted' /\ RowHasItsKey' BY <1>1, DevicesStep, RowHasItsKeyStep
<1>7. DevicesAreAccounted' <=> Accounted' BY DevicesAreThese, PTL
<1> QED BY <1>2, <1>3, <1>4, <1>5, <1>6, <1>7 DEF LicInv

\* The row, the key and the operation give the status that is shown its bound.
LEMMA GraceHolds == ASSUME Hypotheses, LicInv PROVE GraceIsBounded
<1>1. KeyTyped /\ RowTyped /\ OpTyped /\ VaultTyped /\ RestTyped /\ Operations /\ Promised BY DEF LicInv, Typed
<1>2. day \in Nat /\ row.offline \in Nat /\ row.success \in Nat BY <1>1, Days
<1> SUFFICES ASSUME GetStatus \in {"active", "offline_grace"} PROVE day <= row.success + Grace
  BY DEF GraceIsBounded
<1>3. Evaluate(row, day) \in {"active", "offline_grace"} BY DEF GetStatus
<1>4. ~(day > row.offline) BY <1>3 DEF Evaluate, PreviouslyGranted
<1> QED BY <1>1, <1>2, <1>4 DEF Promised, Hypotheses

\* Every variable keeps its type.
THEOREM LicensingTypeOK == ASSUME Hypotheses PROVE Spec => []TypeOK
<1>1. Init => LicInv BY LicInit
<1>2. LicInv /\ [Next]_licVars => LicInv' BY LicStep
<1>3. LicInv => TypeOK
  <2> SUFFICES ASSUME LicInv PROVE TypeOK OBVIOUS
  <2>1. KeyTyped /\ RowTyped /\ OpTyped /\ VaultTyped /\ RestTyped BY DEF LicInv, Typed
  <2> QED BY <2>1 DEF TypeOK, KeyTyped, Keys, RowTyped, Rows, OpTyped, Ops, VaultTyped, RestTyped
<1> QED BY <1>1, <1>2, <1>3, PTL DEF Spec

\* While Polar has withdrawn nothing, no run of outages, lapses and renewals makes a row say that a perpetual key was

\* revoked or disabled (persist_validation_error).
THEOREM LapsesAreNotRevocations == ASSUME Hypotheses PROVE Spec => []LapsedIsNotRevoked
<1>1. Init => LicInv BY LicInit
<1>2. LicInv /\ [Next]_licVars => LicInv' BY LicStep
<1>3. LicInv => LapsedIsNotRevoked BY DEF LicInv
<1> QED BY <1>1, <1>2, <1>3, PTL DEF Spec

\* A license is shown as granted at most the grace after Polar last confirmed it (evaluate_cached_state,

\* state_after_transient_failure).
THEOREM NoGraceIsProlonged == ASSUME Hypotheses PROVE Spec => []GraceIsBounded
<1>1. Init => LicInv BY LicInit
<1>2. LicInv /\ [Next]_licVars => LicInv' BY LicStep
<1>3. LicInv => GraceIsBounded BY GraceHolds
<1> QED BY <1>1, <1>2, <1>3, PTL DEF Spec

\* A device taken at Polar is the row's or the operation's, unless a deactivation that is tried once failed or Alfred

\* quit (compensate_activation).
THEOREM NoDeviceIsLost == ASSUME Hypotheses PROVE Spec => []DevicesAreAccounted
<1>1. Init => LicInv BY LicInit
<1>2. LicInv /\ [Next]_licVars => LicInv' BY LicStep
<1>3. LicInv => DevicesAreAccounted BY DEF LicInv
<1> QED BY <1>1, <1>2, <1>3, PTL DEF Spec

\* A row names a key of the key store, but in and after the last step of a deactivation (deactivate).
THEOREM RowsHaveTheirKeys == ASSUME Hypotheses PROVE Spec => []RowHasItsKey
<1>1. Init => LicInv BY LicInit
<1>2. LicInv /\ [Next]_licVars => LicInv' BY LicStep
<1>3. LicInv => RowHasItsKey BY DEF LicInv
<1> QED BY <1>1, <1>2, <1>3, PTL DEF Spec

\* What cannot be given back keeps its row and its key (deactivate).
THEOREM NoDeviceIsForgotten == ASSUME Hypotheses PROVE Spec => [][FailedDeactivationKeeps]_licVars
<1>1. Init => LicInv BY LicInit
<1>2. LicInv /\ [Next]_licVars => LicInv' BY LicStep
<1>3. LicInv /\ [Next]_licVars => FailedDeactivationKeeps BY FailedDeactivationKeepsStep DEF LicInv, Typed
<1> QED BY <1>1, <1>2, <1>3, PTL DEF Spec

-----------------------------------------------------------------------------
(* The socket.                                                             *)

CONSTANTS Mentions, Bad, Noise, Triggers, BatchLimit, MaxBreaks
VARIABLES unacked, stream, call, events, todo, persisted, overrun, excused, breaks

Socket == INSTANCE SlackSocket WITH faults <- breaks

\* An envelope is of one kind, and a batch has room for an event.
SocketHypotheses ==
  /\ Mentions \cap (Bad \cup Noise) = {}
  /\ BatchLimit \in Nat \ {0}

\* A batch is finite, however many mentions there are.
SocketTyped == Socket!TypeOK /\ IsFiniteSet(events)

SocketInv == SocketTyped /\ Socket!Batch /\ Socket!AckedIsKept

\* The instance counts as this module does.
LEMMA SocketCardinality == \A S : Socket!Cardinality(S) = Cardinality(S)
BY DEF Socket!Cardinality, Cardinality, Socket!IsFiniteSet, IsFiniteSet

\* One more event makes the batch at most one larger.
LEMMA SocketOneMore ==
  ASSUME SocketHypotheses, SocketTyped, NEW e
  PROVE  /\ Cardinality(events) \in Nat
         /\ IsFiniteSet(events \cup {e})
         /\ Cardinality(events \cup {e}) \in Nat /\ Cardinality(events \cup {e}) <= Cardinality(events) + 1
<1>1. IsFiniteSet(events) BY DEF SocketTyped
<1>2. Cardinality(events \cup {e}) = IF e \in events THEN Cardinality(events) ELSE Cardinality(events) + 1
  BY <1>1, FS_AddElement
<1> QED BY <1>1, <1>2, FS_AddElement, FS_CardinalityType

\* Every action keeps every variable in its type, and the batch within its limit.
LEMMA SocketTypedStep ==
  ASSUME SocketHypotheses, SocketTyped, Socket!Batch, [Socket!Next]_(Socket!vars)
  PROVE SocketTyped'
<1> USE SocketCardinality DEF SocketHypotheses, SocketTyped, Socket!TypeOK, Socket!Batch, Socket!Envelopes,
    Socket!Fault, Socket!CallFails
<1>0. IsFiniteSet({}) /\ Cardinality({}) = 0
  BY FS_EmptySet
<1>1. CASE Socket!Connect
  BY <1>1, <1>0 DEF Socket!Connect
<1>2. CASE Socket!EnsureSocket
  BY <1>2 DEF Socket!EnsureSocket
<1>3. CASE Socket!OpenFails
  BY <1>3, <1>0 DEF Socket!OpenFails
<1>4. CASE Socket!ReadTimeout
  BY <1>4 DEF Socket!ReadTimeout
<1>5. CASE Socket!ReadBroken
  BY <1>5 DEF Socket!ReadBroken
<1>6. CASE Socket!Reconnect
  BY <1>6 DEF Socket!Reconnect
<1>7. CASE Socket!Break
  BY <1>7 DEF Socket!Break
<1>8. CASE Socket!Abandon
  BY <1>8, <1>0 DEF Socket!Abandon
<1>9. ASSUME NEW e \in Socket!Envelopes, Socket!ReceiveMention(e) PROVE SocketTyped'
  <2>1. /\ Cardinality(events) \in Nat /\ IsFiniteSet(events \cup {e})
        /\ Cardinality(events \cup {e}) \in Nat /\ Cardinality(events \cup {e}) <= Cardinality(events) + 1
    BY SocketOneMore
  <2>2. IsFiniteSet(events') /\ Cardinality(events') <= BatchLimit
    BY <1>9, <2>1 DEF Socket!ReceiveMention
  <2> QED BY <1>9, <2>2 DEF Socket!ReceiveMention
<1>10. ASSUME NEW e \in Socket!Envelopes, Socket!ReceiveNoise(e) PROVE SocketTyped'
  BY <1>10 DEF Socket!ReceiveNoise
<1>11. ASSUME NEW e \in Socket!Envelopes, Socket!ReceiveBad(e) PROVE SocketTyped'
  BY <1>11, <1>0 DEF Socket!ReceiveBad
<1>12. ASSUME NEW e \in Socket!Envelopes, Socket!AckFails(e) PROVE SocketTyped'
  BY <1>12, <1>0 DEF Socket!AckFails
<1>13. ASSUME NEW e \in Socket!Envelopes, Socket!AckLost(e) PROVE SocketTyped'
  <2>1. /\ Cardinality(events) \in Nat /\ IsFiniteSet(events \cup {e})
        /\ Cardinality(events \cup {e}) \in Nat /\ Cardinality(events \cup {e}) <= Cardinality(events) + 1
    BY SocketOneMore
  <2>2. IsFiniteSet(events') /\ Cardinality(events') <= BatchLimit
    BY <1>13, <2>1 DEF Socket!AckLost
  <2> QED BY <1>13, <2>2 DEF Socket!AckLost
<1>14. CASE Socket!EnrichPermalinks
  BY <1>14 DEF Socket!EnrichPermalinks
<1>15. CASE Socket!FanOut
  BY <1>15 DEF Socket!FanOut
<1>16. CASE Socket!FanOutFails
  BY <1>16, <1>0 DEF Socket!FanOutFails
<1>17. CASE Socket!Return
  BY <1>17, <1>0 DEF Socket!Return
<1>18. CASE UNCHANGED Socket!vars
  BY <1>18 DEF Socket!vars
<1> QED BY <1>1, <1>2, <1>3, <1>4, <1>5, <1>6, <1>7, <1>8, <1>9, <1>10, <1>11, <1>12, <1>13, <1>14, <1>15, <1>16,
    <1>17, <1>18 DEF Socket!Next

\* A call begins without events and goes on while there is room; the fan-out serves a trigger before it drops it.
LEMMA SocketBatchStep ==
  ASSUME SocketHypotheses, SocketTyped, Socket!Batch, [Socket!Next]_(Socket!vars)
  PROVE Socket!Batch'
<1> USE SocketCardinality DEF SocketHypotheses, Socket!TypeOK, Socket!Batch, Socket!Envelopes, Socket!Fault,
    Socket!CallFails, Socket!Served
<1>1. CASE Socket!Connect
  <2>1. Cardinality({}) = 0 BY FS_EmptySet
  <2> QED BY <1>1, <2>1 DEF Socket!Connect
<1>2. CASE Socket!EnsureSocket
  BY <1>2 DEF Socket!EnsureSocket
<1>3. CASE Socket!OpenFails
  BY <1>3 DEF Socket!OpenFails
<1>4. CASE Socket!ReadTimeout
  BY <1>4 DEF Socket!ReadTimeout
<1>5. CASE Socket!ReadBroken
  BY <1>5 DEF Socket!ReadBroken
<1>6. CASE Socket!Reconnect
  BY <1>6 DEF Socket!Reconnect
<1>7. CASE Socket!Break
  BY <1>7 DEF Socket!Break
<1>8. CASE Socket!Abandon
  BY <1>8 DEF Socket!Abandon
<1>9. ASSUME NEW e \in Socket!Envelopes, Socket!ReceiveMention(e) PROVE Socket!Batch'
  <2>1. Cardinality(events \cup {e}) \in Nat BY SocketOneMore
  <2> QED BY <1>9, <2>1 DEF Socket!ReceiveMention
<1>10. ASSUME NEW e \in Socket!Envelopes, Socket!ReceiveNoise(e) PROVE Socket!Batch'
  BY <1>10 DEF Socket!ReceiveNoise
<1>11. ASSUME NEW e \in Socket!Envelopes, Socket!ReceiveBad(e) PROVE Socket!Batch'
  BY <1>11 DEF Socket!ReceiveBad
<1>12. ASSUME NEW e \in Socket!Envelopes, Socket!AckFails(e) PROVE Socket!Batch'
  BY <1>12 DEF Socket!AckFails
<1>13. ASSUME NEW e \in Socket!Envelopes, Socket!AckLost(e) PROVE Socket!Batch'
  BY <1>13 DEF Socket!AckLost
<1>14. CASE Socket!EnrichPermalinks
  BY <1>14 DEF Socket!EnrichPermalinks
<1>15. CASE Socket!FanOut
  <2>1. persisted \in [Triggers -> SUBSET Mentions] /\ overrun \in [Triggers -> SUBSET Mentions] BY DEF SocketTyped
  <2> QED BY <1>15, <2>1 DEF Socket!FanOut
<1>16. CASE Socket!FanOutFails
  BY <1>16 DEF Socket!FanOutFails
<1>17. CASE Socket!Return
  BY <1>17 DEF Socket!Return
<1>18. CASE UNCHANGED Socket!vars
  BY <1>18 DEF Socket!vars
<1> QED BY <1>1, <1>2, <1>3, <1>4, <1>5, <1>6, <1>7, <1>8, <1>9, <1>10, <1>11, <1>12, <1>13, <1>14, <1>15, <1>16,
    <1>17, <1>18 DEF Socket!Next

\* An event leaves the batch for the triggers, or with a call that failed.
LEMMA SocketAckedIsKeptStep ==
  ASSUME SocketHypotheses, SocketTyped, Socket!Batch, Socket!AckedIsKept, [Socket!Next]_(Socket!vars)
  PROVE Socket!AckedIsKept'
<1> USE SocketCardinality DEF SocketHypotheses, Socket!Batch, Socket!Envelopes, Socket!AckedIsKept, Socket!Fault,
    Socket!CallFails, Socket!Served
<1>1. CASE Socket!Connect
  BY <1>1 DEF Socket!Connect
<1>2. CASE Socket!EnsureSocket
  BY <1>2 DEF Socket!EnsureSocket
<1>3. CASE Socket!OpenFails
  BY <1>3 DEF Socket!OpenFails
<1>4. CASE Socket!ReadTimeout
  BY <1>4 DEF Socket!ReadTimeout
<1>5. CASE Socket!ReadBroken
  BY <1>5 DEF Socket!ReadBroken
<1>6. CASE Socket!Reconnect
  BY <1>6 DEF Socket!Reconnect
<1>7. CASE Socket!Break
  BY <1>7 DEF Socket!Break
<1>8. CASE Socket!Abandon
  BY <1>8 DEF Socket!Abandon
<1>9. ASSUME NEW e \in Socket!Envelopes, Socket!ReceiveMention(e) PROVE Socket!AckedIsKept'
  BY <1>9 DEF Socket!ReceiveMention
<1>10. ASSUME NEW e \in Socket!Envelopes, Socket!ReceiveNoise(e) PROVE Socket!AckedIsKept'
  BY <1>10 DEF Socket!ReceiveNoise
<1>11. ASSUME NEW e \in Socket!Envelopes, Socket!ReceiveBad(e) PROVE Socket!AckedIsKept'
  BY <1>11 DEF Socket!ReceiveBad
<1>12. ASSUME NEW e \in Socket!Envelopes, Socket!AckFails(e) PROVE Socket!AckedIsKept'
  BY <1>12 DEF Socket!AckFails
<1>13. ASSUME NEW e \in Socket!Envelopes, Socket!AckLost(e) PROVE Socket!AckedIsKept'
  BY <1>13 DEF Socket!AckLost
<1>14. CASE Socket!EnrichPermalinks
  BY <1>14 DEF Socket!EnrichPermalinks
<1>15. CASE Socket!FanOut
  <2>1. /\ persisted \in [Triggers -> SUBSET Mentions]
        /\ overrun \in [Triggers -> SUBSET Mentions] BY DEF SocketTyped, Socket!TypeOK
  <2> QED BY <1>15, <2>1 DEF Socket!FanOut
<1>16. CASE Socket!FanOutFails
  BY <1>16 DEF Socket!FanOutFails
<1>17. CASE Socket!Return
  BY <1>17 DEF Socket!Return
<1>18. CASE UNCHANGED Socket!vars
  BY <1>18 DEF Socket!vars
<1> QED BY <1>1, <1>2, <1>3, <1>4, <1>5, <1>6, <1>7, <1>8, <1>9, <1>10, <1>11, <1>12, <1>13, <1>14, <1>15, <1>16,
    <1>17, <1>18 DEF Socket!Next

\* Slack has everything, and no call runs.
LEMMA SocketInvInit == ASSUME SocketHypotheses, Socket!Init PROVE SocketInv
BY FS_EmptySet, SocketCardinality DEF SocketHypotheses, Socket!Init, SocketInv, SocketTyped, Socket!TypeOK,
    Socket!Batch, Socket!AckedIsKept, Socket!Envelopes, Socket!Served

\* Every step of a call, of Slack and of the network keeps them together.
LEMMA SocketInvStep == ASSUME SocketHypotheses, SocketInv, [Socket!Next]_(Socket!vars) PROVE SocketInv'
BY SocketTypedStep, SocketBatchStep, SocketAckedIsKeptStep DEF SocketInv

\* Every variable keeps its type; no batch outgrows SLACK_SOCKET_BATCH_LIMIT.
THEOREM SlackSocketTypeOK == ASSUME SocketHypotheses PROVE Socket!Spec => []Socket!TypeOK
<1>1. Socket!Init => SocketInv BY SocketInvInit
<1>2. SocketInv /\ [Socket!Next]_(Socket!vars) => SocketInv' BY SocketInvStep
<1>3. SocketInv => Socket!TypeOK BY DEF SocketInv, SocketTyped
<1> QED BY <1>1, <1>2, <1>3, PTL DEF Socket!Spec

\* A mention that Slack has forgotten is in the call's batch, or every trigger has queued it or dropped it for a
\* full queue, never both, or it was in a batch whose call failed.
THEOREM NoMentionIsLost == ASSUME SocketHypotheses PROVE Socket!Spec => []Socket!AckedIsKept
<1>1. Socket!Init => SocketInv BY SocketInvInit
<1>2. SocketInv /\ [Socket!Next]_(Socket!vars) => SocketInv' BY SocketInvStep
<1>3. SocketInv => Socket!AckedIsKept BY DEF SocketInv
<1> QED BY <1>1, <1>2, <1>3, PTL DEF Socket!Spec

-----------------------------------------------------------------------------
(***************************************************************************)
(* The providers an app is connected to: the sign-ins of SignIn, for any   *)
(* number of attempts side by side, any accounts and limit of sessions,    *)
(* and however often the store, the database and the providers fail and    *)
(* Alfred quits.                                                           *)
(***************************************************************************)
CONSTANTS Providers, Calls, Accounts, MaxSessions, MaxTroubles
VARIABLES provider, had, flaw, account, target, session, cancelled, stopped, expired, pc, result,
          ref, fresh, prior, paired, store, rows, sent, pardoned, grant, reauth, revoked, troubles

Sign == INSTANCE SignIn WITH vault <- store, excused <- pardoned, faults <- troubles, MaxFaults <- MaxTroubles

NineProviders == {"microsoft", "gmail", "github", "telegram", "slack", "notion", "linear", "sentry", "obsidian"}

\* The order in which every script saves, what its checks refuse, and where it waits.
Ordered(p, s) ==
  /\ Len(s) \in 4 .. 10 /\ DOMAIN s = 1 .. Len(s)
  /\ \A i \in 1 .. Len(s) : s[i][1] = "upsert" <=> i = Len(s)
  /\ s[1][1] \notin {"put", "kept", "upsert"}
  /\ \A i \in 1 .. Len(s) - 1 : s[i + 1][1] \in {"put", "kept", "upsert"} => s[i][1] \in {"look", "draw", "put", "kept"}
  /\ \A i \in 1 .. Len(s) - 1 : s[i + 1][1] = "upsert" /\ p = "telegram" => s[i][1] = "kept"
  /\ \A i \in 1 .. Len(s) - 1 : s[i][1] \in {"look", "draw"} => s[i + 1][1] = "put"
  /\ \A i \in 1 .. Len(s) - 1 : s[i][1] = "put" => s[i + 1][1] \in {"kept", "upsert"}
  /\ \A i \in 1 .. Len(s) - 1 : s[i][1] = "kept" => s[i + 1][1] = "upsert"
  /\ \A i \in 1 .. Len(s) : s[i][1] # "check" => s[i][2] = {}
  /\ \A i \in 1 .. Len(s) : s[i][1] = "same" => p = "microsoft"
  /\ p = "microsoft" => \E i \in 1 .. Len(s) - 1 : s[i][1] = "same"
  /\ \A i \in 1 .. Len(s) : s[i][1] \in {"lock", "pair", "active", "test", "draw", "kept"} => p = "telegram"
  /\ p = "telegram" => /\ \A i \in 1 .. Len(s) : /\ s[i][1] = "lock" <=> i = 1
                                                 /\ s[i][1] = "test" <=> i = 4
                                                 /\ s[i][1] = "pair" => i < 5
                                                 /\ s[i][1] \notin {"check", "look", "wait", "poll", "same"}
                                                 /\ s[i][1] \in {"put", "kept", "draw"} => i > 5
  /\ \A i \in 1 .. Len(s) : s[i][1] = "wait" => i = 1 /\ p \in Sign!Loopback
  /\ p \in Sign!Loopback => s[1][1] = "wait"
  /\ \A i \in 1 .. Len(s) : s[i][1] = "poll" => p = "github"

LEMMA MicrosoftScriptOrdered == Ordered("microsoft", Sign!MicrosoftScript)
<1> DEFINE s == Sign!MicrosoftScript
<1>1. DOMAIN s = 1 .. Len(s) /\ Len(s) = 10 BY DEF Sign!MicrosoftScript, Sign!Save
<1>2. /\ s[1] = <<"wait", {}>> /\ s[2][1] = "check" /\ s[3][1] = "check" /\ s[4][1] = "check"
      /\ s[5][1] = "check" /\ s[6][1] = "check" /\ s[7] = <<"same", {}>> /\ s[8] = <<"look", {}>>
      /\ s[9] = <<"put", {}>> /\ s[10] = <<"upsert", {}>>
  BY DEF Sign!MicrosoftScript, Sign!Save, Sign!Check, Sign!GraphIdentity, Sign!IdToken, Sign!Step
<1> HIDE DEF s
<1>3. Ordered("microsoft", s) BY <1>1, <1>2 DEF Ordered, Sign!Loopback
<1> QED BY <1>3 DEF s

LEMMA GmailScriptOrdered == Ordered("gmail", Sign!GmailScript)
<1> DEFINE s == Sign!GmailScript
<1>1. DOMAIN s = 1 .. Len(s) /\ Len(s) = 7 BY DEF Sign!GmailScript, Sign!Save
<1>2. /\ s[1] = <<"wait", {}>> /\ s[2][1] = "check" /\ s[3][1] = "check" /\ s[4][1] = "check"
      /\ s[5] = <<"look", {}>> /\ s[6] = <<"put", {}>> /\ s[7] = <<"upsert", {}>>
  BY DEF Sign!GmailScript, Sign!Save, Sign!Check, Sign!Step
<1> HIDE DEF s
<1>3. Ordered("gmail", s) BY <1>1, <1>2 DEF Ordered, Sign!Loopback
<1> QED BY <1>3 DEF s

LEMMA GithubScriptOrdered == Ordered("github", Sign!GithubScript)
<1> DEFINE s == Sign!GithubScript
<1>1. DOMAIN s = 1 .. Len(s) /\ Len(s) = 7 BY DEF Sign!GithubScript, Sign!Save
<1>2. /\ s[1] = <<"poll", {}>> /\ s[2][1] = "check" /\ s[3][1] = "check" /\ s[4][1] = "check"
      /\ s[5] = <<"look", {}>> /\ s[6] = <<"put", {}>> /\ s[7] = <<"upsert", {}>>
  BY DEF Sign!GithubScript, Sign!Save, Sign!Check, Sign!Step
<1> HIDE DEF s
<1>3. Ordered("github", s) BY <1>1, <1>2 DEF Ordered, Sign!Loopback
<1> QED BY <1>3 DEF s

LEMMA TelegramScriptOrdered == Ordered("telegram", Sign!TelegramScript)
<1> DEFINE s == Sign!TelegramScript
<1>1. DOMAIN s = 1 .. Len(s) /\ Len(s) = 9 BY DEF Sign!TelegramScript
<1>2. /\ s[1] = <<"lock", {}>> /\ s[2] = <<"pair", {}>> /\ s[3] = <<"active", {}>>
      /\ s[4] = <<"test", {}>> /\ s[5] = <<"active", {}>> /\ s[6] = <<"draw", {}>>
      /\ s[7] = <<"put", {}>> /\ s[8] = <<"kept", {}>> /\ s[9] = <<"upsert", {}>>
  BY DEF Sign!TelegramScript, Sign!Check, Sign!Step
<1> HIDE DEF s
<1>3. Ordered("telegram", s) BY <1>1, <1>2 DEF Ordered, Sign!Loopback
<1> QED BY <1>3 DEF s

LEMMA SlackScriptOrdered == Ordered("slack", Sign!SlackScript)
<1> DEFINE s == Sign!SlackScript
<1>1. DOMAIN s = 1 .. Len(s) /\ Len(s) = 8 BY DEF Sign!SlackScript, Sign!Save
<1>2. /\ s[1][1] = "check" /\ s[2][1] = "check" /\ s[3][1] = "check" /\ s[4][1] = "check"
      /\ s[5][1] = "check" /\ s[6] = <<"look", {}>> /\ s[7] = <<"put", {}>>
      /\ s[8] = <<"upsert", {}>>
  BY DEF Sign!SlackScript, Sign!Save, Sign!Check, Sign!SlackInput, Sign!Step
<1> HIDE DEF s
<1>3. Ordered("slack", s) BY <1>1, <1>2 DEF Ordered, Sign!Loopback
<1> QED BY <1>3 DEF s

LEMMA NotionScriptOrdered == Ordered("notion", Sign!NotionScript)
<1> DEFINE s == Sign!NotionScript
<1>1. DOMAIN s = 1 .. Len(s) /\ Len(s) = 6 BY DEF Sign!NotionScript, Sign!Save
<1>2. /\ s[1][1] = "check" /\ s[2][1] = "check" /\ s[3][1] = "check" /\ s[4] = <<"look", {}>>
      /\ s[5] = <<"put", {}>> /\ s[6] = <<"upsert", {}>>
  BY DEF Sign!NotionScript, Sign!Save, Sign!Check, Sign!Step
<1> HIDE DEF s
<1>3. Ordered("notion", s) BY <1>1, <1>2 DEF Ordered, Sign!Loopback
<1> QED BY <1>3 DEF s

LEMMA LinearScriptOrdered == Ordered("linear", Sign!LinearScript)
<1> DEFINE s == Sign!LinearScript
<1>1. DOMAIN s = 1 .. Len(s) /\ Len(s) = 6 BY DEF Sign!LinearScript, Sign!Save
<1>2. /\ s[1][1] = "check" /\ s[2][1] = "check" /\ s[3][1] = "check" /\ s[4] = <<"look", {}>>
      /\ s[5] = <<"put", {}>> /\ s[6] = <<"upsert", {}>>
  BY DEF Sign!LinearScript, Sign!Save, Sign!Check, Sign!Step
<1> HIDE DEF s
<1>3. Ordered("linear", s) BY <1>1, <1>2 DEF Ordered, Sign!Loopback
<1> QED BY <1>3 DEF s

LEMMA SentryScriptOrdered == Ordered("sentry", Sign!SentryScript)
<1> DEFINE s == Sign!SentryScript
<1>1. DOMAIN s = 1 .. Len(s) /\ Len(s) = 8 BY DEF Sign!SentryScript, Sign!Save
<1>2. /\ s[1][1] = "check" /\ s[2][1] = "check" /\ s[3][1] = "check" /\ s[4][1] = "check"
      /\ s[5][1] = "check" /\ s[6] = <<"look", {}>> /\ s[7] = <<"put", {}>>
      /\ s[8] = <<"upsert", {}>>
  BY DEF Sign!SentryScript, Sign!Save, Sign!Check, Sign!Step
<1> HIDE DEF s
<1>3. Ordered("sentry", s) BY <1>1, <1>2 DEF Ordered, Sign!Loopback
<1> QED BY <1>3 DEF s

LEMMA ObsidianScriptOrdered == Ordered("obsidian", Sign!ObsidianScript)
<1> DEFINE s == Sign!ObsidianScript
<1>1. DOMAIN s = 1 .. Len(s) /\ Len(s) = 5 BY DEF Sign!ObsidianScript, Sign!Save
<1>2. /\ s[1][1] = "check" /\ s[2][1] = "check" /\ s[3] = <<"look", {}>> /\ s[4] = <<"put", {}>>
      /\ s[5] = <<"upsert", {}>>
  BY DEF Sign!ObsidianScript, Sign!Save, Sign!Check, Sign!Step, Sign!VaultChecks
<1> HIDE DEF s
<1>3. Ordered("obsidian", s) BY <1>1, <1>2 DEF Ordered, Sign!Loopback
<1> QED BY <1>3 DEF s

LEMMA ScriptsOrdered == \A p \in NineProviders : Ordered(p, Sign!Script(p))
<1>1. /\ Sign!Script("microsoft") = Sign!MicrosoftScript /\ Sign!Script("gmail") = Sign!GmailScript
      /\ Sign!Script("github") = Sign!GithubScript
      /\ Sign!Script("telegram") = Sign!TelegramScript /\ Sign!Script("slack") = Sign!SlackScript
      /\ Sign!Script("notion") = Sign!NotionScript
      /\ Sign!Script("linear") = Sign!LinearScript /\ Sign!Script("sentry") = Sign!SentryScript
      /\ Sign!Script("obsidian") = Sign!ObsidianScript
  BY Zenon DEF Sign!Script
<1> QED BY <1>1, MicrosoftScriptOrdered, GmailScriptOrdered, GithubScriptOrdered, TelegramScriptOrdered,
    SlackScriptOrdered, NotionScriptOrdered, LinearScriptOrdered, SentryScriptOrdered, ObsidianScriptOrdered
    DEF NineProviders

\* The providers are among those that have a script; attempts are finitely many, and none is called None or Old.
SignHypotheses ==
  /\ Providers \subseteq NineProviders
  /\ Sign!None \notin Calls /\ Sign!None \notin Accounts /\ Sign!Old \notin Calls
  /\ IsFiniteSet(Calls) /\ MaxTroubles \in Nat

-----------------------------------------------------------------------------
(* What the variables hold, and what is so between the steps.              *)

SignTyped ==
  /\ provider \in Providers \cup {Sign!None} /\ had \in BOOLEAN /\ pardoned \in BOOLEAN
  /\ grant \in BOOLEAN /\ reauth \in BOOLEAN /\ revoked \in BOOLEAN
  /\ DOMAIN flaw = Calls
  /\ account \in [Calls -> Accounts \cup {Sign!None}] /\ target \in [Calls -> Accounts \cup {Sign!None}]
  /\ session \in [Calls -> {Sign!None, "asking", "open", "held", "gone"}]
  /\ cancelled \in [Calls -> BOOLEAN] /\ stopped \in [Calls -> BOOLEAN] /\ expired \in [Calls -> BOOLEAN]
  /\ pc \in [Calls -> 0 .. 10] /\ result \in [Calls -> {Sign!None, "connected", "failed"}]
  /\ ref \in [Calls -> Sign!Refs \cup {Sign!None}] /\ prior \in [Calls -> Sign!Refs \cup {Sign!None}]
  /\ fresh \in [Calls -> BOOLEAN] /\ paired \in [Calls -> BOOLEAN]
  /\ store \in [Sign!Refs -> Sign!Refs \cup {Sign!None}] /\ rows \in [Accounts -> Sign!Refs \cup {Sign!None}]
  /\ sent \in [Calls -> Nat] /\ troubles \in 0 .. MaxTroubles

\* Until a provider is chosen nothing has happened.
Unchosen == provider = Sign!None =>
  /\ \A c \in Calls : /\ session[c] = Sign!None /\ pc[c] = 0 /\ result[c] = Sign!None /\ ref[c] = Sign!None
                       /\ account[c] = Sign!None /\ flaw[c] = Sign!None /\ target[c] = Sign!None
  /\ \A r \in Sign!Refs : store[r] = Sign!None
  /\ \A a \in Accounts : rows[a] = Sign!None
  /\ ~pardoned /\ ~grant /\ ~reauth

\* A call that runs has an account and no result, stands in its script, and holds its session if it has one.
Running(c) ==
  /\ account[c] # Sign!None /\ result[c] = Sign!None
  /\ pc[c] <= Len(Sign!Script(provider))
  /\ provider \in Sign!Sessions \ {"telegram"} => session[c] = "held"
  /\ provider = "telegram" => session[c] \in {"open", "gone"}
  /\ provider \notin Sign!Sessions => session[c] = Sign!None

\* One that does not is not begun, waits in the session map, or has ended and left it.
Resting(c) ==
  /\ session[c] # "held"
  /\ result[c] # Sign!None => session[c] = "gone" /\ provider # Sign!None
  /\ result[c] = "connected" => account[c] # Sign!None
  /\ account[c] = Sign!None => session[c] \in {Sign!None, "gone"} /\ ref[c] = Sign!None /\ result[c] # "connected"
  /\ session[c] = Sign!None => result[c] = Sign!None /\ account[c] = Sign!None
  /\ session[c] \in {"asking", "open"} => provider \in Sign!Sessions
  /\ (account[c] # Sign!None \/ session[c] # Sign!None) /\ provider \notin Sign!Sessions => result[c] # Sign!None
CallPositions == \A c \in Calls : IF pc[c] = 0 THEN Resting(c) ELSE Running(c)

\* A flaw of the answers is one the checks behind the call let pass.
CheckedOf(c) ==
  /\ flaw[c] # Sign!None => provider # Sign!None /\ flaw[c] \in Sign!Flaws(provider)
  /\ pc[c] # 0 \/ session[c] = "open" => flaw[c] = Sign!None \/ flaw[c] \notin Sign!PrepareFlaws(provider)
  /\ pc[c] # 0 => \A i \in 1 .. pc[c] - 1 : flaw[c] \notin Sign!Script(provider)[i][2]
  /\ target[c] # Sign!None => provider = "microsoft"
  /\ pc[c] # 0 => \A i \in 1 .. pc[c] - 1 : Sign!Script(provider)[i][1] = "same" => target[c] \in {Sign!None, account[c]}
ChecksPassed == \A c \in Calls : CheckedOf(c)

\* A cancel that found its session keeps the attempt from the upsert.
CancelOf(c) ==
  /\ stopped[c] => cancelled[c] /\ provider \in Sign!Sessions
  /\ stopped[c] /\ provider \notin Sign!Loopback => session[c] = "gone"
  /\ provider \in Sign!Loopback /\ pc[c] > 1 => ~cancelled[c]
  /\ Sign!At(c, "upsert") => ~stopped[c]
CancelsStop == \A c \in Calls : CancelOf(c)

\* What the variables of a call say of the store and of the row it is about to write.
Storing(c) == Sign!At(c, "put") \/ Sign!At(c, "kept") \/ Sign!At(c, "upsert")
Stored(c) == Sign!At(c, "kept") \/ Sign!At(c, "upsert")
ReferenceOf(c) ==
  /\ fresh[c] => ref[c] = c /\ prior[c] = Sign!None
  /\ ref[c] = Sign!None => prior[c] = Sign!None /\ ~fresh[c]
  /\ ref[c] # Sign!None => account[c] # Sign!None /\ (Storing(c) \/ result[c] # Sign!None)
  /\ ref[c] # Sign!None /\ ~fresh[c] => rows[account[c]] = ref[c]
  /\ prior[c] \in Calls => account[prior[c]] = account[c]
  /\ Storing(c) => ref[c] # Sign!None
  /\ Stored(c) /\ fresh[c] => store[c] = c
References ==
  /\ \A c \in Calls : ReferenceOf(c)
  /\ \A a \in Accounts : rows[a] \in Calls => result[rows[a]] = "connected" /\ account[rows[a]] = a
  /\ \A a, b \in Accounts : rows[a] = Sign!Old /\ rows[b] = Sign!Old => a = b

\* Until an undo fails or is cut off, and no account signs in twice at once, every reference in the store
\* is a row's or is on the way to one.
Unexcused == ~pardoned =>
  /\ \A c \in Calls : ref[c] # Sign!None => Storing(c)
  /\ \A c, k \in Calls : ref[c] # Sign!None /\ ref[k] # Sign!None /\ c # k => account[c] # account[k]
  /\ \A c \in Calls : fresh[c] => rows[account[c]] = Sign!None
  /\ \A r \in Sign!Refs : store[r] # Sign!None =>
        (\E a \in Accounts : rows[a] = r) \/ (r \in Calls /\ fresh[r] /\ Stored(r))

\* Telegram's lock has one holder past it, and whoever passed it found no connection.
TelegramPairsOne == provider = "telegram" =>
  /\ \A c, k \in Calls : pc[c] > 1 /\ pc[k] > 1 => c = k
  /\ \A c \in Calls : pc[c] > 1 => \A a \in Accounts : rows[a] = Sign!None
  /\ \A c \in Calls : result[c] = "connected" => \E a \in Accounts : rows[a] # Sign!None
  /\ \A c, k \in Calls : result[c] = "connected" /\ result[k] = "connected" => c = k
  /\ \A c \in Calls : ref[c] # Sign!None => fresh[c]

\* A test message is one more than the failed saves it was repeated after.
TestsOf(c) ==
  /\ provider # "telegram" => sent[c] = 0
  /\ sent[c] <= 1 + troubles
  /\ (pc[c] \in 1 .. 4 \/ (pc[c] = 0 /\ session[c] # "gone")) => sent[c] <= troubles
TestMessages == \A c \in Calls : TestsOf(c)

\* A row of Microsoft's has a grant, and asks for another only after a refusal.
GrantStays == provider = "microsoft" =>
  /\ (\E a \in Accounts : rows[a] # Sign!None) => grant
  /\ reauth => revoked

\* What has connected was neither stopped nor flawed, and is the account the reconnect was for.
AcceptedOf(c) == result[c] = "connected" => ~stopped[c] /\ flaw[c] = Sign!None /\ target[c] \in {Sign!None, account[c]}
Accepted == \A c \in Calls : AcceptedOf(c)

-----------------------------------------------------------------------------
(* What kinds of steps there are.                                          *)

TagOf(c) == Sign!Script(provider)[pc[c]][1]

\* A step that stores nothing.
QuietStep(c) ==
  Sign!CheckStep(c) \/ Sign!Callback(c) \/ Sign!WaitEnds(c) \/ Sign!Poll(c) \/ Sign!Lock(c) \/ Sign!Pair(c) \/ Sign!StillActive(c)
    \/ Sign!TestSend(c) \/ Sign!Same(c)

LEMMA QuietSteps ==
  ASSUME NEW c \in Calls, QuietStep(c)
  PROVE  /\ pc[c] # 0 /\ TagOf(c) \in {"check", "wait", "poll", "lock", "pair", "active", "test", "same"}
         /\ Sign!Go(c) \/ Sign!Again(c) \/ Sign!End(c, "failed")
         /\ UNCHANGED <<provider, had, flaw, account, target, cancelled, stopped>>
         /\ UNCHANGED <<ref, fresh, prior, store, rows, pardoned, grant, reauth, revoked, troubles>>
<1> USE DEF Sign!At, TagOf, Sign!NothingStored, Sign!chosen, Sign!saved, Sign!tokens
<1>1. CASE Sign!CheckStep(c) BY <1>1 DEF Sign!CheckStep
<1>2. CASE Sign!Callback(c) BY <1>2 DEF Sign!Callback
<1>3. CASE Sign!WaitEnds(c) BY <1>3 DEF Sign!WaitEnds
<1>4. CASE Sign!Poll(c) BY <1>4 DEF Sign!Poll
<1>5. CASE Sign!Lock(c) BY <1>5 DEF Sign!Lock
<1>6. CASE Sign!Pair(c) BY <1>6 DEF Sign!Pair
<1>7. CASE Sign!StillActive(c) BY <1>7 DEF Sign!StillActive
<1>8. CASE Sign!TestSend(c) BY <1>8 DEF Sign!TestSend
<1>9. CASE Sign!Same(c) BY <1>9 DEF Sign!Same
<1> QED BY <1>1, <1>2, <1>3, <1>4, <1>5, <1>6, <1>7, <1>8, <1>9 DEF QuietStep

\* A step of a session without a call, or the beginning of one.
SessionStep(c) == Sign!PrepareAnswered(c) \/ Sign!Expire(c) \/ Sign!ExpireLater(c) \/ Sign!Cancel(c) \/ Sign!Complete(c)

LEMMA SessionSteps ==
  ASSUME NEW c \in Calls, SessionStep(c)
  PROVE  /\ \/ pc' = pc /\ result' = result
            \/ pc' = [pc EXCEPT ![c] = 1] /\ pc[c] = 0 /\ result' = result /\ session[c] = "open"
            \/ pc' = pc /\ result' = [result EXCEPT ![c] = "failed"] /\ session[c] \in {"asking", "open"}
                 /\ session' = [session EXCEPT ![c] = "gone"]
         /\ UNCHANGED <<provider, had, flaw, account, target, ref, fresh, prior, paired>>
         /\ UNCHANGED <<store, rows, pardoned, grant, reauth, revoked, troubles, sent>>
<1> USE DEF Sign!chosen, Sign!saved, Sign!tokens, Sign!locals
<1>1. CASE Sign!PrepareAnswered(c) BY <1>1 DEF Sign!PrepareAnswered
<1>2. CASE Sign!Expire(c) BY <1>2 DEF Sign!Expire
<1>3. CASE Sign!ExpireLater(c) BY <1>3 DEF Sign!ExpireLater
<1>4. CASE Sign!Cancel(c) BY <1>4 DEF Sign!Cancel
<1>5. CASE Sign!Complete(c) BY <1>5 DEF Sign!Complete
<1> QED BY <1>1, <1>2, <1>3, <1>4, <1>5 DEF SessionStep

\* An attempt begins: of the store and the rows nothing changes.
BeginStep(c) ==
  /\ provider # Sign!None /\ pc[c] = 0
  /\ \E f \in Sign!Flaws(provider) \cup {Sign!None}, a \in Accounts :
       Sign!ConnectPrivate(c, f, a) \/ \E t \in Accounts \cup {Sign!None} : Sign!Prepare(c, f, a, t)

LEMMA BeginSteps ==
  ASSUME CallPositions, NEW c \in Calls, BeginStep(c)
  PROVE  /\ provider # Sign!None /\ pc[c] = 0 /\ account[c] = Sign!None /\ result[c] = Sign!None
         /\ \E a \in Accounts : account' = [account EXCEPT ![c] = a]
         /\ pc' = pc \/ pc' = [pc EXCEPT ![c] = 1]
         /\ UNCHANGED <<provider, had, stopped, expired, result, ref, fresh, prior, paired>>
         /\ UNCHANGED <<store, rows, pardoned, grant, reauth, revoked, troubles, sent>>
<1> USE DEF Sign!sessions, Sign!saved, Sign!tokens, Sign!locals, Sign!Answers, CallPositions, Resting
<1>1. PICK f \in Sign!Flaws(provider) \cup {Sign!None}, a \in Accounts :
        Sign!ConnectPrivate(c, f, a) \/ \E t \in Accounts \cup {Sign!None} : Sign!Prepare(c, f, a, t)
  BY DEF BeginStep
<1>2. CASE Sign!ConnectPrivate(c, f, a)
  BY <1>2 DEF BeginStep, Sign!ConnectPrivate
<1>3. ASSUME NEW t \in Accounts \cup {Sign!None}, Sign!Prepare(c, f, a, t)
      PROVE  /\ account[c] = Sign!None /\ result[c] = Sign!None /\ account' = [account EXCEPT ![c] = a] /\ pc' = pc
             /\ UNCHANGED <<provider, had, stopped, expired, result, ref, fresh, prior, paired>>
             /\ UNCHANGED <<store, rows, pardoned, grant, reauth, revoked, troubles, sent>>
  BY <1>3 DEF BeginStep, Sign!Prepare
<1> QED BY <1>1, <1>2, <1>3 DEF BeginStep

\* Every step is one of these.
LEMMA SignSteps ==
  ASSUME Sign!Next
  PROVE  \/ \E p \in Providers, a \in Accounts : Sign!Choose(p, a)
         \/ \E c \in Calls : BeginStep(c) \/ SessionStep(c) \/ QuietStep(c) \/ Sign!Look(c) \/ Sign!Draw(c) \/ Sign!Put(c)
              \/ Sign!Kept(c) \/ Sign!UpsertStep(c) \/ Sign!UpsertFails(c)
         \/ Sign!Quit \/ Sign!Refresh
BY DEF Sign!Next, Sign!CallStep, BeginStep, SessionStep, QuietStep

\* The inductive invariant.
SignInv ==
  /\ SignTyped /\ Unchosen /\ CallPositions /\ ChecksPassed /\ CancelsStop
  /\ References /\ Sign!RowHasItsCredential /\ Unexcused
  /\ TelegramPairsOne /\ TestMessages /\ GrantStays /\ Accepted

\* A call stands in its script, and goes on to the step after.
LEMMA StandingInScript ==
  ASSUME SignHypotheses, SignTyped, Unchosen, CallPositions, NEW c \in Calls, pc[c] # 0
  PROVE  /\ provider \in NineProviders /\ Ordered(provider, Sign!Script(provider))
         /\ pc[c] \in 1 .. Len(Sign!Script(provider)) /\ Len(Sign!Script(provider)) \in 4 .. 10
         /\ TagOf(c) # "upsert" => pc[c] + 1 \in 1 .. Len(Sign!Script(provider)) /\ pc[c] + 1 \in 0 .. 10
         /\ TagOf(c) = "upsert" <=> pc[c] = Len(Sign!Script(provider))
<1>1. provider \in NineProviders BY DEF SignHypotheses, SignTyped, Unchosen
<1>2. Ordered(provider, Sign!Script(provider)) BY <1>1, ScriptsOrdered
<1>3. pc[c] <= Len(Sign!Script(provider)) BY DEF CallPositions, Running
<1>4. pc[c] \in 1 .. 10 BY DEF SignTyped
<1>5. /\ Len(Sign!Script(provider)) \in 4 .. 10
      /\ \A i \in 1 .. Len(Sign!Script(provider)) : Sign!Script(provider)[i][1] = "upsert" <=> i = Len(Sign!Script(provider))
  BY <1>2 DEF Ordered
<1>6. pc[c] \in 1 .. Len(Sign!Script(provider)) BY <1>3, <1>4, <1>5
<1>7. TagOf(c) = "upsert" <=> pc[c] = Len(Sign!Script(provider)) BY <1>5, <1>6 DEF TagOf
<1> QED BY <1>1, <1>2, <1>5, <1>6, <1>7

\* The ways a step ends keep the types.
LEMMA StepEndsTyped ==
  ASSUME SignTyped, NEW c \in Calls,
         Sign!Again(c) \/ Sign!End(c, "failed") \/ Sign!End(c, "connected") \/ (Sign!Go(c) /\ pc[c] + 1 \in 0 .. 10)
  PROVE  /\ session' \in [Calls -> {Sign!None, "asking", "open", "held", "gone"}] /\ pc' \in [Calls -> 0 .. 10]
         /\ result' \in [Calls -> {Sign!None, "connected", "failed"}] /\ expired' \in [Calls -> BOOLEAN]
<1>1. /\ session \in [Calls -> {Sign!None, "asking", "open", "held", "gone"}] /\ pc \in [Calls -> 0 .. 10]
      /\ result \in [Calls -> {Sign!None, "connected", "failed"}] /\ expired \in [Calls -> BOOLEAN]
  BY DEF SignTyped
<1>2. CASE Sign!Again(c) BY <1>1, <1>2 DEF Sign!Again
<1>3. CASE Sign!End(c, "failed") BY <1>1, <1>3 DEF Sign!End
<1>4. CASE Sign!End(c, "connected") BY <1>1, <1>4 DEF Sign!End
<1>5. CASE Sign!Go(c) /\ pc[c] + 1 \in 0 .. 10 BY <1>1, <1>5 DEF Sign!Go
<1> QED BY <1>2, <1>3, <1>4, <1>5

LEMMA FaultsTyped ==
  ASSUME SignHypotheses, SignTyped, UNCHANGED troubles \/ Sign!Fault \/ (troubles + 1 < MaxTroubles /\ troubles' = troubles + 2)
  PROVE  troubles' \in 0 .. MaxTroubles
BY DEF SignHypotheses, SignTyped, Sign!Fault

LEMMA PairingTyped ==
  ASSUME SignTyped, NEW c \in Calls,
         \/ paired' = paired /\ sent' = sent
         \/ paired' = [paired EXCEPT ![c] = TRUE] /\ sent' = sent
         \/ sent' = [sent EXCEPT ![c] = @ + 1] /\ paired' = paired
  PROVE  paired' \in [Calls -> BOOLEAN] /\ sent' \in [Calls -> Nat]
<1>1. paired \in [Calls -> BOOLEAN] /\ sent \in [Calls -> Nat] BY DEF SignTyped
<1>2. sent[c] + 1 \in Nat BY <1>1
<1>3. [paired EXCEPT ![c] = TRUE] \in [Calls -> BOOLEAN] /\ [sent EXCEPT ![c] = @ + 1] \in [Calls -> Nat]
  BY <1>1, <1>2
<1> QED BY <1>1, <1>3

LEMMA ForgetTyped ==
  ASSUME SignTyped, NEW c \in Calls, Sign!Forget(c)
  PROVE  /\ ref' \in [Calls -> Sign!Refs \cup {Sign!None}] /\ prior' \in [Calls -> Sign!Refs \cup {Sign!None}]
         /\ fresh' \in [Calls -> BOOLEAN]
BY DEF SignTyped, Sign!Forget

LEMMA SignTypedStep == ASSUME SignHypotheses, SignInv, [Sign!Next]_(Sign!vars) PROVE SignTyped'
<1> USE DEF SignInv, SignTyped, SignHypotheses
<1>1. ASSUME NEW p \in Providers, NEW a \in Accounts, Sign!Choose(p, a) PROVE SignTyped'
  BY <1>1 DEF Sign!Choose, Sign!sessions, Sign!locals, Sign!Refs
<1>2. ASSUME NEW c \in Calls, BeginStep(c) PROVE SignTyped'
  <2>1. PICK f \in Sign!Flaws(provider) \cup {Sign!None}, a \in Accounts :
          Sign!ConnectPrivate(c, f, a) \/ \E t \in Accounts \cup {Sign!None} : Sign!Prepare(c, f, a, t)
    BY <1>2 DEF BeginStep
  <2>2. CASE Sign!ConnectPrivate(c, f, a)
    BY <2>2 DEF Sign!ConnectPrivate, Sign!Answers, Sign!sessions, Sign!saved, Sign!tokens, Sign!locals
  <2>3. ASSUME NEW t \in Accounts \cup {Sign!None}, Sign!Prepare(c, f, a, t) PROVE SignTyped'
    BY <2>3 DEF Sign!Prepare, Sign!Answers, Sign!saved, Sign!tokens, Sign!locals, Sign!Swept, Sign!SweptFlags
  <2> QED BY <2>1, <2>2, <2>3
<1>3. ASSUME NEW c \in Calls, SessionStep(c) PROVE SignTyped'
  <2> USE DEF Sign!chosen, Sign!saved, Sign!tokens, Sign!locals
  <2>1. CASE Sign!PrepareAnswered(c) BY <2>1 DEF Sign!PrepareAnswered
  <2>2. CASE Sign!Expire(c) BY <2>2 DEF Sign!Expire
  <2>3. CASE Sign!ExpireLater(c) BY <2>3 DEF Sign!ExpireLater
  <2>4. CASE Sign!Cancel(c) BY <2>4 DEF Sign!Cancel
  <2>5. CASE Sign!Complete(c) BY <2>5 DEF Sign!Complete
  <2> QED BY <1>3, <2>1, <2>2, <2>3, <2>4, <2>5 DEF SessionStep
<1>4. ASSUME NEW c \in Calls, QuietStep(c) PROVE SignTyped'
  <2>1. pc[c] # 0 /\ TagOf(c) # "upsert" BY <1>4, QuietSteps
  <2>2. pc[c] + 1 \in 0 .. 10 BY <2>1, StandingInScript
  <2>3. Sign!Go(c) \/ Sign!Again(c) \/ Sign!End(c, "failed") BY <1>4, QuietSteps
  <2>4. /\ session' \in [Calls -> {Sign!None, "asking", "open", "held", "gone"}] /\ pc' \in [Calls -> 0 .. 10]
        /\ result' \in [Calls -> {Sign!None, "connected", "failed"}] /\ expired' \in [Calls -> BOOLEAN]
    BY <2>2, <2>3, StepEndsTyped
  <2>6. \/ paired' = paired /\ sent' = sent
        \/ paired' = [paired EXCEPT ![c] = TRUE] /\ sent' = sent
        \/ sent' = [sent EXCEPT ![c] = @ + 1] /\ paired' = paired
    BY <1>4 DEF QuietStep, Sign!CheckStep, Sign!Callback, Sign!WaitEnds, Sign!Poll, Sign!Lock, Sign!Pair,
         Sign!StillActive, Sign!TestSend, Sign!Same
  <2>7. paired' \in [Calls -> BOOLEAN] /\ sent' \in [Calls -> Nat]
    BY <2>6, PairingTyped
  <2> QED BY <1>4, <2>4, <2>7, QuietSteps
<1>5. ASSUME NEW c \in Calls, pc[c] # 0, TagOf(c) # "upsert" PROVE pc[c] + 1 \in 0 .. 10
  BY <1>5, StandingInScript
<1>6. ASSUME NEW c \in Calls, Sign!Look(c) PROVE SignTyped'
  <2>1. account[c] \in Accounts BY <1>6 DEF Sign!Look, Sign!At, CallPositions, Running
  <2>2. rows[account[c]] \in Sign!Refs \cup {Sign!None} BY <2>1
  <2>3. pc' \in [Calls -> 0 .. 10] BY <1>5, <1>6 DEF Sign!Look, Sign!At, TagOf, Sign!Go
  <2>4. prior' \in [Calls -> Sign!Refs \cup {Sign!None}] BY <1>6, <2>2 DEF Sign!Look, Sign!Refs
  <2>5. ref' \in [Calls -> Sign!Refs \cup {Sign!None}] /\ fresh' \in [Calls -> BOOLEAN]
    BY <1>6, <2>2 DEF Sign!Look, Sign!Refs
  <2>6. troubles' \in 0 .. MaxTroubles BY <1>6 DEF Sign!Look, Sign!Fault
  <2>7. pardoned' \in BOOLEAN BY <1>6 DEF Sign!Look
  <2> QED BY <1>6, <2>3, <2>4, <2>5, <2>6, <2>7 DEF Sign!Look, Sign!Go, Sign!chosen, Sign!tokens
<1>7. ASSUME NEW c \in Calls, Sign!Draw(c) PROVE SignTyped'
  BY <1>5, <1>7 DEF Sign!Draw, Sign!At, TagOf, Sign!Go, Sign!chosen, Sign!saved, Sign!tokens, Sign!Refs
<1>8. ASSUME NEW c \in Calls, Sign!Put(c) PROVE SignTyped'
  <2>1. pc[c] + 1 \in 0 .. 10 BY <1>5, <1>8 DEF Sign!Put, Sign!At, TagOf
  <2>2. CASE Sign!Go(c) /\ store' = [store EXCEPT ![ref[c]] = c] /\ UNCHANGED <<ref, fresh, prior, troubles>>
    BY <1>8, <2>1, <2>2, StepEndsTyped DEF Sign!Put, Sign!chosen, Sign!tokens, Sign!Refs
  <2>3. CASE Sign!Fault /\ Sign!Failed(c) /\ UNCHANGED store
    <3>1. Sign!Forget(c) /\ (Sign!Again(c) \/ Sign!End(c, "failed")) BY <2>3 DEF Sign!Failed
    <3>2. troubles' \in 0 .. MaxTroubles BY <2>3 DEF Sign!Fault
    <3> QED BY <1>8, <2>3, <3>1, <3>2, StepEndsTyped, ForgetTyped DEF Sign!Put, Sign!chosen, Sign!tokens
  <2> QED BY <1>8, <2>2, <2>3 DEF Sign!Put
<1>9. ASSUME NEW c \in Calls, Sign!Kept(c) PROVE SignTyped'
  <2>1. pc[c] + 1 \in 0 .. 10 BY <1>5, <1>9 DEF Sign!Kept, Sign!At, TagOf
  <2>2. CASE Sign!Active(c)
    BY <1>9, <2>1, <2>2, StepEndsTyped DEF Sign!Kept, Sign!chosen, Sign!tokens
  <2>3. CASE ~Sign!Active(c)
    <3>1. Sign!Forget(c) /\ Sign!End(c, "failed") BY <1>9, <2>3 DEF Sign!Kept
    <3>2. pardoned' \in BOOLEAN BY <1>9, <2>3 DEF Sign!Kept
    <3>4. troubles' \in 0 .. MaxTroubles BY <1>9, <2>3, FaultsTyped DEF Sign!Kept
    <3>3. store' \in [Sign!Refs -> Sign!Refs \cup {Sign!None}] BY <1>9, <2>3 DEF Sign!Kept
    <3> QED BY <1>9, <3>1, <3>2, <3>3, <3>4, StepEndsTyped, ForgetTyped DEF Sign!Kept, Sign!chosen, Sign!tokens
  <2> QED BY <2>2, <2>3
<1>10. ASSUME NEW c \in Calls, Sign!UpsertStep(c) PROVE SignTyped'
  <2>1. rows' \in [Accounts -> Sign!Refs \cup {Sign!None}] BY <1>10 DEF Sign!UpsertStep
  <2>2. Sign!Forget(c) /\ Sign!End(c, "connected") BY <1>10 DEF Sign!UpsertStep
  <2> QED BY <1>10, <2>1, <2>2, StepEndsTyped, ForgetTyped DEF Sign!UpsertStep, Sign!chosen
<1>11. ASSUME NEW c \in Calls, Sign!UpsertFails(c) PROVE SignTyped'
  <2>1. Sign!Forget(c) /\ (Sign!Again(c) \/ Sign!End(c, "failed")) BY <1>11 DEF Sign!UpsertFails, Sign!Failed
  <2>2. pardoned' \in BOOLEAN BY <1>11 DEF Sign!UpsertFails
  <2>5. troubles' \in 0 .. MaxTroubles BY <1>11, FaultsTyped DEF Sign!UpsertFails
  <2>3. prior[c] \in Sign!Refs \cup {Sign!None} OBVIOUS
  <2>4. store' \in [Sign!Refs -> Sign!Refs \cup {Sign!None}] BY <1>11, <2>3 DEF Sign!UpsertFails
  <2> QED BY <1>11, <2>1, <2>2, <2>4, <2>5, StepEndsTyped, ForgetTyped DEF Sign!UpsertFails, Sign!chosen,
       Sign!tokens
<1>12. CASE Sign!Quit
  BY <1>12 DEF Sign!Quit, Sign!Fault, Sign!chosen, Sign!locals, Sign!tokens
<1>13. CASE Sign!Refresh
  BY <1>13 DEF Sign!Refresh, Sign!KeepsGrant, Sign!chosen, Sign!sessions, Sign!locals, Sign!saved
<1>14. CASE UNCHANGED Sign!vars
  BY <1>14 DEF Sign!vars, Sign!chosen, Sign!sessions, Sign!locals, Sign!saved, Sign!tokens
<1> QED BY <1>1, <1>2, <1>3, <1>4, <1>6, <1>7, <1>8, <1>9, <1>10, <1>11, <1>12, <1>13, <1>14, SignSteps

\* Of a step that stores nothing: what it makes of the calls.
LEMMA StepEnds ==
  ASSUME SignTyped, NEW c \in Calls, Sign!Go(c) \/ Sign!Again(c) \/ Sign!End(c, "failed") \/ Sign!End(c, "connected")
  PROVE  /\ \A k \in Calls \ {c} : pc'[k] = pc[k] /\ session'[k] = session[k] /\ result'[k] = result[k]
         /\ Sign!Go(c) => pc'[c] = pc[c] + 1 /\ session'[c] = session[c] /\ result'[c] = result[c]
         /\ Sign!Again(c) => pc'[c] = 0 /\ result'[c] = result[c]
                          /\ session'[c] = IF session[c] = "held" THEN "open" ELSE session[c]
         /\ Sign!End(c, "failed") => pc'[c] = 0 /\ session'[c] = "gone" /\ result'[c] = "failed"
         /\ Sign!End(c, "connected") => pc'[c] = 0 /\ session'[c] = "gone" /\ result'[c] = "connected"
<1>1. /\ session \in [Calls -> {Sign!None, "asking", "open", "held", "gone"}] /\ pc \in [Calls -> 0 .. 10]
      /\ result \in [Calls -> {Sign!None, "connected", "failed"}] /\ expired \in [Calls -> BOOLEAN]
  BY DEF SignTyped
<1>2. CASE Sign!Go(c) BY <1>1, <1>2 DEF Sign!Go, Sign!Again, Sign!End
<1>3. CASE Sign!Again(c) BY <1>1, <1>3 DEF Sign!Go, Sign!Again, Sign!End
<1>4. CASE Sign!End(c, "failed") BY <1>1, <1>4 DEF Sign!Go, Sign!Again, Sign!End
<1>5. CASE Sign!End(c, "connected") BY <1>1, <1>5 DEF Sign!Go, Sign!Again, Sign!End
<1> QED BY <1>2, <1>3, <1>4, <1>5

\* A step of a call that is under way leaves every call where it may be.
LEMMA CallPositionsMove ==
  ASSUME SignHypotheses, SignInv, NEW c \in Calls, pc[c] # 0, provider' = provider, account' = account,
         \/ Sign!Go(c) /\ TagOf(c) # "upsert"
         \/ Sign!Again(c) /\ provider \in {"github", "telegram"}
         \/ Sign!End(c, "failed")
         \/ Sign!End(c, "connected"),
         \A k \in Calls \ {c} : ref'[k] = ref[k],
         account[c] # Sign!None
  PROVE  CallPositions'
<1>1. Running(c) BY DEF SignInv, CallPositions
<1>2. /\ provider \in NineProviders /\ (TagOf(c) # "upsert" => pc[c] + 1 \in 1 .. Len(Sign!Script(provider)))
  BY StandingInScript DEF SignInv
<1>3. ASSUME NEW k \in Calls, k # c PROVE IF pc'[k] = 0 THEN Resting(k)' ELSE Running(k)'
  <2>1. pc'[k] = pc[k] /\ session'[k] = session[k] /\ result'[k] = result[k] BY <1>3, StepEnds DEF SignInv
  <2>2. IF pc[k] = 0 THEN Resting(k) ELSE Running(k) BY DEF SignInv, CallPositions
  <2> QED BY <1>3, <2>1, <2>2 DEF Resting, Running
<1>4. IF pc'[c] = 0 THEN Resting(c)' ELSE Running(c)'
  <2>1. CASE Sign!Go(c) /\ TagOf(c) # "upsert"
    <3>1. pc'[c] = pc[c] + 1 /\ session'[c] = session[c] /\ result'[c] = result[c] BY <2>1, StepEnds DEF SignInv
    <3> QED BY <1>1, <1>2, <2>1, <3>1 DEF Running, Resting
  <2>2. CASE Sign!Again(c) /\ provider \in {"github", "telegram"}
    <3>1. pc'[c] = 0 /\ result'[c] = result[c] /\ session'[c] = IF session[c] = "held" THEN "open" ELSE session[c]
      BY <2>2, StepEnds DEF SignInv
    <3> QED BY <1>1, <2>2, <3>1 DEF Running, Resting, Sign!Sessions, Sign!Loopback, Sign!None
  <2>3. CASE Sign!End(c, "failed")
    <3>1. pc'[c] = 0 /\ session'[c] = "gone" /\ result'[c] = "failed" BY <2>3, StepEnds DEF SignInv
    <3> QED BY <1>1, <1>2, <3>1 DEF Running, Resting, NineProviders, Sign!None
  <2>4. CASE Sign!End(c, "connected")
    <3>1. pc'[c] = 0 /\ session'[c] = "gone" /\ result'[c] = "connected" BY <2>4, StepEnds DEF SignInv
    <3> QED BY <1>1, <1>2, <3>1 DEF Running, Resting, NineProviders, Sign!None
  <2> QED BY <2>1, <2>2, <2>3, <2>4
<1> QED BY <1>3, <1>4 DEF CallPositions

\* Only a poll and Telegram's steps let the session be used again.
LEMMA AgainWhere ==
  ASSUME SignHypotheses, SignInv, NEW c \in Calls, QuietStep(c), Sign!Again(c) PROVE provider \in {"github", "telegram"}
             \/ Sign!End(c, "failed") \/ (Sign!Go(c) /\ TagOf(c) # "upsert")
<1>1. pc[c] # 0 /\ TagOf(c) \in {"check", "wait", "poll", "lock", "pair", "active", "test", "same"}
  BY QuietSteps
<1>2. /\ Ordered(provider, Sign!Script(provider)) /\ pc[c] \in 1 .. Len(Sign!Script(provider))
  BY <1>1, StandingInScript DEF SignInv
<1>3. TagOf(c) \in {"poll", "lock", "pair", "active", "test"} => provider \in {"github", "telegram"}
  BY <1>2 DEF Ordered, TagOf
<1>4. TagOf(c) \in {"check", "wait", "same"} => Sign!Go(c) \/ Sign!End(c, "failed")
  BY <1>1 DEF QuietStep, Sign!CheckStep, Sign!Callback, Sign!WaitEnds, Sign!Poll, Sign!Lock, Sign!Pair,
       Sign!StillActive, Sign!TestSend, Sign!Same, Sign!At, TagOf
<1> QED BY <1>1, <1>3, <1>4

LEMMA CallPositionsStep == ASSUME SignHypotheses, SignInv, [Sign!Next]_(Sign!vars) PROVE CallPositions'
<1>0. SignTyped /\ Unchosen /\ CallPositions BY DEF SignInv
<1>1. ASSUME NEW p \in Providers, NEW a \in Accounts, Sign!Choose(p, a) PROVE CallPositions'
  <2>1. provider = Sign!None /\ UNCHANGED <<pc, session, result, account, ref>>
    BY <1>1 DEF Sign!Choose, Sign!sessions, Sign!locals
  <2>2. \A c \in Calls : pc[c] = 0 /\ session[c] = Sign!None /\ result[c] = Sign!None /\ account[c] = Sign!None /\ ref[c] = Sign!None
    BY <1>0, <2>1 DEF Unchosen
  <2> QED BY <2>1, <2>2 DEF CallPositions, Resting, Sign!None
<1>2. ASSUME NEW c \in Calls, BeginStep(c) PROVE CallPositions'
  <2>1. PICK f \in Sign!Flaws(provider) \cup {Sign!None}, a \in Accounts :
          Sign!ConnectPrivate(c, f, a) \/ \E t \in Accounts \cup {Sign!None} : Sign!Prepare(c, f, a, t)
    BY <1>2 DEF BeginStep
  <2>0. /\ provider # Sign!None /\ provider' = provider /\ pc[c] = 0 /\ account[c] = Sign!None /\ result[c] = Sign!None
        /\ result' = result /\ ref' = ref
    BY <1>2, <1>0, BeginSteps
  <2>2. CASE Sign!ConnectPrivate(c, f, a)
    <3>1. provider \in NineProviders BY <1>0, <2>0 DEF SignTyped, SignHypotheses
    <3>2. 1 <= Len(Sign!Script(provider))
      <4>1. Len(Sign!Script(provider)) \in 4 .. 10 BY <3>1, ScriptsOrdered DEF Ordered
      <4>2. \A n \in 4 .. 10 : 1 <= n OBVIOUS
      <4> QED BY Zenon, <4>1, <4>2
    <3>3. /\ session' = session /\ pc' = [pc EXCEPT ![c] = 1] /\ account' = [account EXCEPT ![c] = a]
          /\ provider \notin Sign!Sessions
      BY <2>2 DEF Sign!ConnectPrivate, Sign!Answers, Sign!sessions
    <3>4. session[c] = Sign!None
      <4>1. Resting(c) BY <1>0, <2>0 DEF CallPositions
      <4>2. session[c] \in {Sign!None, "asking", "open", "held", "gone"} BY <1>0 DEF SignTyped
      <4> QED BY <2>0, <3>3, <4>1, <4>2 DEF Resting
    <3>5. ASSUME NEW k \in Calls PROVE IF pc'[k] = 0 THEN Resting(k)' ELSE Running(k)'
      <4>1. IF pc[k] = 0 THEN Resting(k) ELSE Running(k) BY <1>0 DEF CallPositions
      <4>2. CASE k = c
        <5>1. pc'[c] = 1 /\ account'[c] = a BY <1>0, <3>3 DEF SignTyped
        <5>2. a # Sign!None /\ "telegram" \in Sign!Sessions BY DEF SignHypotheses, Sign!Sessions
        <5> QED BY <2>0, <3>2, <3>3, <3>4, <4>2, <5>1, <5>2 DEF Running
      <4>3. CASE k # c
        <5>1. pc'[k] = pc[k] /\ account'[k] = account[k] BY <1>0, <3>3, <4>3 DEF SignTyped
        <5> QED BY <2>0, <3>3, <4>1, <5>1 DEF Running, Resting
      <4> QED BY <4>2, <4>3
    <3> QED BY <3>5 DEF CallPositions
  <2>3. ASSUME NEW t \in Accounts \cup {Sign!None}, Sign!Prepare(c, f, a, t) PROVE CallPositions'
    BY <1>0, <2>0, <2>3 DEF Sign!Prepare, Sign!Answers, Sign!Swept, CallPositions, Resting, Running, SignTyped,
         SignHypotheses, Sign!None
  <2> QED BY <2>1, <2>2, <2>3
<1>3. ASSUME NEW c \in Calls, SessionStep(c) PROVE CallPositions'
  <2> USE DEF Sign!chosen, Sign!saved, Sign!tokens, Sign!locals
  <2>0. Resting(c) \/ Running(c) BY <1>0 DEF CallPositions
  <2>1. CASE Sign!PrepareAnswered(c)
    <3>1. pc[c] = 0 /\ Resting(c) BY <1>0, <2>1 DEF Sign!PrepareAnswered, CallPositions, Running, Sign!None,
         Sign!Sessions, Sign!Loopback
    <3>2. /\ UNCHANGED <<provider, account, pc, ref>>
          /\ \/ session' = [session EXCEPT ![c] = "gone"] /\ result' = [result EXCEPT ![c] = "failed"]
             \/ session' = [session EXCEPT ![c] = "open"] /\ result' = result
      BY <2>1 DEF Sign!PrepareAnswered
    <3>3. ASSUME NEW k \in Calls PROVE IF pc'[k] = 0 THEN Resting(k)' ELSE Running(k)'
      <4>1. IF pc[k] = 0 THEN Resting(k) ELSE Running(k) BY <1>0 DEF CallPositions
      <4>2. CASE k = c
        <5>1. \/ session'[c] = "gone" /\ result'[c] = "failed"
              \/ session'[c] = "open" /\ result'[c] = result[c]
          BY <1>0, <3>2 DEF SignTyped
        <5>2. session[c] = "asking" /\ provider # Sign!None
          BY <1>0, <2>1, <3>1 DEF Sign!PrepareAnswered, Resting, Sign!Sessions, Sign!Loopback, Sign!None
        <5> QED BY <3>1, <3>2, <4>2, <5>1, <5>2 DEF Resting, Sign!None
      <4>3. CASE k # c
        <5>1. session'[k] = session[k] /\ result'[k] = result[k] BY <1>0, <3>2, <4>3 DEF SignTyped
        <5> QED BY <3>2, <4>1, <5>1 DEF Running, Resting
      <4> QED BY <4>2, <4>3
    <3> QED BY <3>3 DEF CallPositions
  <2>2. CASE Sign!Expire(c) BY <1>0, <2>2 DEF Sign!Expire, CallPositions, Resting, Running
  <2>3. CASE Sign!ExpireLater(c) BY <1>0, <2>3 DEF Sign!ExpireLater, CallPositions, Resting, Running, SignTyped,
       Sign!Sessions, Sign!None
  <2>4. CASE Sign!Cancel(c) BY <1>0, <2>4 DEF Sign!Cancel, CallPositions, Resting, Running, SignTyped, Sign!None
  <2>5. CASE Sign!Complete(c)
    <3>1. provider \in NineProviders BY <1>0, <2>5 DEF SignTyped, Unchosen, Sign!Complete, SignHypotheses,
         Sign!Sessions, Sign!Loopback, NineProviders
    <3>2. 1 <= Len(Sign!Script(provider))
      <4>1. Len(Sign!Script(provider)) \in 4 .. 10 BY <3>1, ScriptsOrdered DEF Ordered
      <4>2. \A n \in 4 .. 10 : 1 <= n OBVIOUS
      <4> QED BY Zenon, <4>1, <4>2
    <3>3. Resting(c) BY <1>0, <2>5 DEF Sign!Complete, CallPositions
    <3>4. account[c] # Sign!None /\ result[c] = Sign!None /\ provider # Sign!None
      BY <2>5, <3>3 DEF Sign!Complete, Resting, Sign!None, Sign!Sessions, Sign!Loopback
    <3>5. /\ UNCHANGED <<provider, account, ref>>
          /\ \/ provider = "telegram" /\ pc' = [pc EXCEPT ![c] = 1] /\ UNCHANGED <<session, result>>
             \/ /\ provider # "telegram" /\ session' = [session EXCEPT ![c] = "gone"]
                /\ result' = [result EXCEPT ![c] = "failed"] /\ UNCHANGED pc
             \/ /\ provider # "telegram" /\ session' = [session EXCEPT ![c] = "held"]
                /\ pc' = [pc EXCEPT ![c] = 1] /\ UNCHANGED result
      BY <2>5 DEF Sign!Complete
    <3>6. provider \in Sign!Sessions /\ session[c] = "open" /\ pc[c] = 0 BY <2>5 DEF Sign!Complete
    <3>7. ASSUME NEW k \in Calls PROVE IF pc'[k] = 0 THEN Resting(k)' ELSE Running(k)'
      <4>1. IF pc[k] = 0 THEN Resting(k) ELSE Running(k) BY <1>0 DEF CallPositions
      <4>2. CASE k = c
        <5>1. \/ provider = "telegram" /\ pc'[c] = 1 /\ session'[c] = "open" /\ result'[c] = result[c]
              \/ provider # "telegram" /\ session'[c] = "gone" /\ result'[c] = "failed" /\ pc'[c] = 0
              \/ provider # "telegram" /\ session'[c] = "held" /\ pc'[c] = 1 /\ result'[c] = result[c]
          BY <1>0, <3>5, <3>6 DEF SignTyped
        <5> QED BY <3>2, <3>3, <3>4, <3>5, <3>6, <4>2, <5>1 DEF Running, Resting, Sign!None
      <4>3. CASE k # c
        <5>1. pc'[k] = pc[k] /\ session'[k] = session[k] /\ result'[k] = result[k]
          BY <1>0, <3>5, <4>3 DEF SignTyped
        <5> QED BY <3>5, <4>1, <5>1 DEF Running, Resting
      <4> QED BY <4>2, <4>3
    <3> QED BY <3>7 DEF CallPositions
  <2> QED BY <1>3, <2>1, <2>2, <2>3, <2>4, <2>5 DEF SessionStep
<1>4. ASSUME NEW c \in Calls, QuietStep(c) PROVE CallPositions'
  <2>1. /\ pc[c] # 0 /\ TagOf(c) # "upsert" /\ (Sign!Go(c) \/ Sign!Again(c) \/ Sign!End(c, "failed"))
        /\ provider' = provider /\ account' = account /\ ref' = ref
    BY <1>4, QuietSteps
  <2>2. account[c] # Sign!None BY <1>0, <2>1 DEF CallPositions, Running
  <2>3. Sign!Again(c) => provider \in {"github", "telegram"} \/ Sign!End(c, "failed") \/ Sign!Go(c)
    BY <1>4, AgainWhere
  <2>4. \/ Sign!Go(c) /\ TagOf(c) # "upsert"
        \/ Sign!Again(c) /\ provider \in {"github", "telegram"}
        \/ Sign!End(c, "failed")
    BY <2>1, <2>3
  <2>5. \A k \in Calls \ {c} : ref'[k] = ref[k] BY <2>1
  <2> QED BY <2>1, <2>2, <2>4, <2>5, CallPositionsMove
<1>5. ASSUME NEW c \in Calls, Sign!At(c, "look") \/ Sign!At(c, "draw") \/ Sign!At(c, "put") \/ Sign!At(c, "kept") \/ Sign!At(c, "upsert")
      PROVE pc[c] # 0 /\ account[c] # Sign!None
  BY <1>0, <1>5 DEF CallPositions, Running, Sign!At
<1>6. ASSUME NEW c \in Calls, Sign!Look(c) PROVE CallPositions'
  <2>1. pc[c] # 0 /\ account[c] # Sign!None BY <1>5, <1>6 DEF Sign!Look
  <2>2. Sign!Go(c) /\ TagOf(c) # "upsert" BY <1>6 DEF Sign!Look, Sign!At, TagOf
  <2>3. ref \in [Calls -> Sign!Refs \cup {Sign!None}] BY <1>0 DEF SignTyped
  <2>4. \A k \in Calls \ {c} : ref'[k] = ref[k] BY <1>6, <2>3 DEF Sign!Look
  <2>5. provider' = provider /\ account' = account BY <1>6 DEF Sign!Look, Sign!chosen
  <2> QED BY <2>1, <2>2, <2>4, <2>5, CallPositionsMove
<1>7. ASSUME NEW c \in Calls, Sign!Draw(c) PROVE CallPositions'
  <2>1. pc[c] # 0 /\ account[c] # Sign!None BY <1>5, <1>7 DEF Sign!Draw
  <2>2. Sign!Go(c) /\ TagOf(c) # "upsert" BY <1>7 DEF Sign!Draw, Sign!At, TagOf
  <2>3. ref \in [Calls -> Sign!Refs \cup {Sign!None}] BY <1>0 DEF SignTyped
  <2>4. \A k \in Calls \ {c} : ref'[k] = ref[k] BY <1>7, <2>3 DEF Sign!Draw
  <2>5. provider' = provider /\ account' = account BY <1>7 DEF Sign!Draw, Sign!chosen
  <2> QED BY <2>1, <2>2, <2>4, <2>5, CallPositionsMove
<1>8. ASSUME NEW c \in Calls, Sign!Failed(c) \/ (Sign!Forget(c) /\ (Sign!End(c, "failed") \/ Sign!End(c, "connected"))), pc[c] # 0,
             provider' = provider, account' = account, account[c] # Sign!None PROVE CallPositions'
  BY <1>0, <1>8, CallPositionsMove DEF Sign!Failed, Sign!Forget, SignTyped
<1>9. ASSUME NEW c \in Calls, Sign!Put(c) PROVE CallPositions'
  <2>1. CASE Sign!Go(c) /\ UNCHANGED ref
    <3>1. pc[c] # 0 /\ account[c] # Sign!None BY <1>5, <1>9 DEF Sign!Put
    <3>2. TagOf(c) # "upsert" BY <1>9 DEF Sign!Put, Sign!At, TagOf
    <3>3. provider' = provider /\ account' = account BY <1>9 DEF Sign!Put, Sign!chosen
    <3> QED BY <2>1, <3>1, <3>2, <3>3, CallPositionsMove
  <2>2. CASE Sign!Failed(c)
    BY <1>5, <1>9, <2>2, <1>8 DEF Sign!Put, Sign!chosen
  <2> QED BY <1>9, <2>1, <2>2 DEF Sign!Put
<1>10. ASSUME NEW c \in Calls, Sign!Kept(c) PROVE CallPositions'
  <2>1. CASE Sign!Go(c) /\ UNCHANGED ref
    <3>1. pc[c] # 0 /\ account[c] # Sign!None BY <1>5, <1>10 DEF Sign!Kept
    <3>2. TagOf(c) # "upsert" BY <1>10 DEF Sign!Kept, Sign!At, TagOf
    <3>3. provider' = provider /\ account' = account BY <1>10 DEF Sign!Kept, Sign!chosen
    <3> QED BY <2>1, <3>1, <3>2, <3>3, CallPositionsMove
  <2>2. CASE Sign!End(c, "failed") /\ Sign!Forget(c)
    BY <1>5, <1>10, <2>2, <1>8 DEF Sign!Kept, Sign!chosen
  <2> QED BY <1>10, <2>1, <2>2 DEF Sign!Kept
<1>11. ASSUME NEW c \in Calls, Sign!UpsertStep(c) PROVE CallPositions'
  BY <1>5, <1>8, <1>11 DEF Sign!UpsertStep, Sign!chosen
<1>12. ASSUME NEW c \in Calls, Sign!UpsertFails(c) PROVE CallPositions'
  BY <1>5, <1>8, <1>12 DEF Sign!UpsertFails, Sign!chosen
<1>13. CASE Sign!Quit
  BY <1>0, <1>13 DEF Sign!Quit, Sign!chosen, Sign!locals, CallPositions, Resting, Running, SignTyped, Sign!None
<1>14. CASE Sign!Refresh
  BY <1>0, <1>14 DEF Sign!Refresh, Sign!chosen, Sign!sessions, Sign!locals, CallPositions, Resting, Running
<1>15. CASE UNCHANGED Sign!vars
  BY <1>0, <1>15 DEF Sign!vars, Sign!chosen, Sign!sessions, Sign!locals, CallPositions, Resting, Running
<1> QED BY <1>1, <1>2, <1>3, <1>4, <1>6, <1>7, <1>9, <1>10, <1>11, <1>12, <1>13, <1>14, <1>15, SignSteps

-----------------------------------------------------------------------------
\* A step of a call: the world's choices and the other calls are as before.
CallMove(c) ==
  QuietStep(c) \/ Sign!Look(c) \/ Sign!Draw(c) \/ Sign!Put(c) \/ Sign!Kept(c) \/ Sign!UpsertStep(c) \/ Sign!UpsertFails(c)

LEMMA CallMoves ==
  ASSUME SignHypotheses, SignInv, NEW c \in Calls, CallMove(c)
  PROVE  /\ pc[c] # 0 /\ account[c] # Sign!None
         /\ UNCHANGED <<provider, had, flaw, account, target, cancelled, stopped>>
         /\ \/ Sign!Go(c) /\ TagOf(c) # "upsert"
            \/ Sign!Again(c) /\ provider \in {"github", "telegram"}
            \/ Sign!End(c, "failed")
            \/ Sign!End(c, "connected") /\ TagOf(c) = "upsert"
         /\ \A k \in Calls \ {c} : ref'[k] = ref[k] /\ fresh'[k] = fresh[k] /\ prior'[k] = prior[k]
                                     /\ pc'[k] = pc[k] /\ session'[k] = session[k] /\ result'[k] = result[k]
<1>0. SignTyped /\ CallPositions BY DEF SignInv
<1>1. pc[c] # 0 /\ UNCHANGED <<provider, had, flaw, account, target, cancelled, stopped>>
  <2>1. CASE QuietStep(c) BY <2>1, QuietSteps
  <2>2. CASE ~QuietStep(c)
    BY <2>2 DEF CallMove, Sign!Look, Sign!Draw, Sign!Put, Sign!Kept, Sign!UpsertStep, Sign!UpsertFails, Sign!At,
         Sign!chosen
  <2> QED BY <2>1, <2>2
<1>2. account[c] # Sign!None BY <1>0, <1>1 DEF CallPositions, Running
<1>3. \/ Sign!Go(c) /\ TagOf(c) # "upsert"
      \/ Sign!Again(c) /\ provider \in {"github", "telegram"}
      \/ Sign!End(c, "failed")
      \/ Sign!End(c, "connected") /\ TagOf(c) = "upsert"
  <2>1. CASE QuietStep(c)
    <3>1. /\ TagOf(c) # "upsert" /\ (Sign!Go(c) \/ Sign!Again(c) \/ Sign!End(c, "failed"))
      BY <2>1, QuietSteps
    <3>2. Sign!Again(c) => provider \in {"github", "telegram"} \/ Sign!End(c, "failed") \/ (Sign!Go(c) /\ TagOf(c) # "upsert")
      BY <2>1, AgainWhere
    <3> QED BY <3>1, <3>2
  <2>2. CASE Sign!Look(c) BY <2>2 DEF Sign!Look, Sign!At, TagOf
  <2>3. CASE Sign!Draw(c) BY <2>3 DEF Sign!Draw, Sign!At, TagOf
  <2>4. CASE Sign!Put(c) BY <2>4 DEF Sign!Put, Sign!At, TagOf, Sign!Failed
  <2>5. CASE Sign!Kept(c) BY <2>5 DEF Sign!Kept, Sign!At, TagOf
  <2>6. CASE Sign!UpsertStep(c) BY <2>6 DEF Sign!UpsertStep, Sign!At, TagOf
  <2>7. CASE Sign!UpsertFails(c) BY <2>7 DEF Sign!UpsertFails, Sign!Failed
  <2> QED BY <2>1, <2>2, <2>3, <2>4, <2>5, <2>6, <2>7 DEF CallMove
<1>4. \A k \in Calls \ {c} : pc'[k] = pc[k] /\ session'[k] = session[k] /\ result'[k] = result[k]
  BY <1>0, <1>3, StepEnds
<1>5. \A k \in Calls \ {c} : ref'[k] = ref[k] /\ fresh'[k] = fresh[k] /\ prior'[k] = prior[k]
  <2>0. ref \in [Calls -> Sign!Refs \cup {Sign!None}] /\ prior \in [Calls -> Sign!Refs \cup {Sign!None}] /\ fresh \in [Calls -> BOOLEAN]
    BY <1>0 DEF SignTyped
  <2>1. Sign!Forget(c) => \A k \in Calls \ {c} : ref'[k] = ref[k] /\ fresh'[k] = fresh[k] /\ prior'[k] = prior[k]
    BY <2>0 DEF Sign!Forget
  <2>2. CASE QuietStep(c) BY <2>2, QuietSteps
  <2>3. CASE Sign!Look(c) BY <2>0, <2>3 DEF Sign!Look
  <2>4. CASE Sign!Draw(c) BY <2>0, <2>4 DEF Sign!Draw
  <2>5. CASE Sign!Put(c) BY <2>1, <2>5 DEF Sign!Put, Sign!Failed
  <2>6. CASE Sign!Kept(c) BY <2>1, <2>6 DEF Sign!Kept
  <2>7. CASE Sign!UpsertStep(c) BY <2>1, <2>7 DEF Sign!UpsertStep
  <2>8. CASE Sign!UpsertFails(c) BY <2>1, <2>8 DEF Sign!UpsertFails, Sign!Failed
  <2> QED BY <2>2, <2>3, <2>4, <2>5, <2>6, <2>7, <2>8 DEF CallMove
<1> QED BY <1>1, <1>2, <1>3, <1>4, <1>5

LEMMA SignMoves ==
  ASSUME Sign!Next
  PROVE  \/ \E p \in Providers, a \in Accounts : Sign!Choose(p, a)
         \/ \E c \in Calls : BeginStep(c) \/ SessionStep(c) \/ CallMove(c)
         \/ Sign!Quit \/ Sign!Refresh
BY SignSteps DEF CallMove

\* What comes after a step of a script.
LEMMA NextTag ==
  ASSUME SignHypotheses, SignInv, NEW c \in Calls, pc[c] # 0, TagOf(c) # "upsert", Sign!Go(c), provider' = provider
  PROVE  /\ pc'[c] = pc[c] + 1 /\ pc'[c] # 0
         /\ TagOf(c)' \in {"put", "kept", "upsert"} => TagOf(c) \in {"look", "draw", "put", "kept"}
         /\ TagOf(c)' = "upsert" /\ provider = "telegram" => TagOf(c) = "kept"
         /\ TagOf(c) \in {"look", "draw"} => TagOf(c)' = "put"
         /\ TagOf(c) = "put" => TagOf(c)' \in {"kept", "upsert"}
         /\ TagOf(c) = "kept" => TagOf(c)' = "upsert"
<1>1. pc'[c] = pc[c] + 1 BY StepEnds DEF SignInv
<1>2. /\ Ordered(provider, Sign!Script(provider)) /\ pc[c] \in 1 .. Len(Sign!Script(provider))
      /\ pc[c] + 1 \in 1 .. Len(Sign!Script(provider)) /\ pc[c] + 1 \in 0 .. 10
  BY StandingInScript DEF SignInv
<1> DEFINE n == Len(Sign!Script(provider))
<1>3. n \in 4 .. 10 BY <1>2 DEF Ordered
<1> HIDE DEF n
<1>4. pc[c] \in 1 .. n - 1
  <2>1. pc[c] \in 1 .. n /\ pc[c] + 1 \in 1 .. n BY <1>2 DEF n
  <2> QED BY <1>3, <2>1
<1>5. TagOf(c)' = Sign!Script(provider)[pc[c] + 1][1] BY <1>1 DEF TagOf
<1>6. pc'[c] # 0
  <2>1. pc[c] \in 0 .. 10 BY DEF SignInv, SignTyped
  <2> QED BY <1>1, <2>1
<1> QED BY <1>1, <1>2, <1>4, <1>5, <1>6 DEF Ordered, TagOf, n

\* Before the choice nothing moves.
LEMMA ChoiceFirst ==
  ASSUME SignHypotheses, SignInv, Sign!Next, provider = Sign!None
  PROVE  \E p \in Providers, a \in Accounts : Sign!Choose(p, a)
<1>0. \A c \in Calls : session[c] = Sign!None /\ pc[c] = 0 BY DEF SignInv, Unchosen
<1>1. ASSUME NEW c \in Calls, BeginStep(c) \/ SessionStep(c) \/ CallMove(c) PROVE FALSE
  <2>1. ~BeginStep(c) BY DEF BeginStep
  <2>2. ~CallMove(c) BY <1>0, CallMoves
  <2>3. ~SessionStep(c)
    BY <1>0 DEF SessionStep, Sign!PrepareAnswered, Sign!Expire, Sign!ExpireLater, Sign!Cancel, Sign!Complete,
         Sign!At, Sign!None
  <2> QED BY <1>1, <2>1, <2>2, <2>3
<1>2. ~Sign!Quit /\ ~Sign!Refresh BY DEF Sign!Quit, Sign!Refresh, Sign!Refreshing, Sign!None
<1> QED BY <1>1, <1>2, SignMoves

LEMMA UnchosenStep == ASSUME SignHypotheses, SignInv, [Sign!Next]_(Sign!vars) PROVE Unchosen'
<1>1. ASSUME NEW p \in Providers, NEW a \in Accounts, Sign!Choose(p, a) PROVE Unchosen'
  BY <1>1 DEF Sign!Choose, Unchosen, SignHypotheses, NineProviders, Sign!None
<1>2. ASSUME NEW c \in Calls, BeginStep(c) \/ SessionStep(c) \/ CallMove(c) PROVE provider' = provider
  BY <1>2, BeginSteps, SessionSteps, CallMoves DEF SignInv
<1>3. Sign!Quit \/ Sign!Refresh => provider' = provider BY DEF Sign!Quit, Sign!Refresh, Sign!chosen
<1>4. CASE UNCHANGED Sign!vars
  BY <1>4 DEF SignInv, Unchosen, Sign!vars, Sign!chosen, Sign!sessions, Sign!locals, Sign!saved, Sign!tokens
<1>5. CASE Sign!Next /\ provider = Sign!None BY <1>1, <1>5, ChoiceFirst
<1>6. CASE Sign!Next /\ provider # Sign!None
  <2>1. provider' # Sign!None \/ \E p \in Providers, a \in Accounts : Sign!Choose(p, a)
    BY <1>2, <1>3, <1>6, SignMoves
  <2> QED BY <1>1, <2>1 DEF Unchosen
<1> QED BY <1>4, <1>5, <1>6

LEMMA ChecksPassedStep == ASSUME SignHypotheses, SignInv, [Sign!Next]_(Sign!vars) PROVE ChecksPassed'
<1>0. SignTyped /\ ChecksPassed /\ CallPositions BY DEF SignInv
<1>1. ASSUME NEW p \in Providers, NEW a \in Accounts, Sign!Choose(p, a), NEW k \in Calls PROVE CheckedOf(k)'
  <2>1. provider = Sign!None /\ UNCHANGED <<pc, session, flaw, target, account>> BY <1>1 DEF Sign!Choose,
       Sign!sessions
  <2>2. pc[k] = 0 /\ session[k] = Sign!None /\ flaw[k] = Sign!None /\ target[k] = Sign!None BY <2>1 DEF SignInv,
       Unchosen
  <2> QED BY <2>1, <2>2 DEF CheckedOf, Sign!None
<1>2. ASSUME NEW c \in Calls, BeginStep(c), NEW k \in Calls PROVE CheckedOf(k)'
  <2>0. provider # Sign!None /\ provider' = provider /\ pc[c] = 0 /\ account[c] = Sign!None
    BY <1>2, <1>0, BeginSteps
  <2>1. PICK f \in Sign!Flaws(provider) \cup {Sign!None}, a \in Accounts :
          Sign!ConnectPrivate(c, f, a) \/ \E t \in Accounts \cup {Sign!None} : Sign!Prepare(c, f, a, t)
    BY <1>2 DEF BeginStep
  <2>2. CheckedOf(k) BY <1>0 DEF ChecksPassed
  <2>3. CASE Sign!ConnectPrivate(c, f, a)
    <3>1. /\ pc' = [pc EXCEPT ![c] = 1] /\ session' = session /\ flaw' = [flaw EXCEPT ![c] = f]
          /\ account' = [account EXCEPT ![c] = a] /\ target' = [target EXCEPT ![c] = Sign!None] /\ provider \notin Sign!Sessions
      BY <2>3 DEF Sign!ConnectPrivate, Sign!Answers, Sign!sessions
    <3>2. CASE k = c
      <4>1. pc'[c] = 1 /\ flaw'[c] = f /\ target'[c] = Sign!None BY <1>0, <3>1 DEF SignTyped
      <4>2. f \notin Sign!PrepareFlaws(provider)
        <5>1. provider \in NineProviders BY <1>0, <2>0 DEF SignHypotheses, SignTyped
        <5>2. Sign!PrepareFlaws(provider) = {}
          <6>1. provider \in {"slack", "notion", "linear", "sentry", "obsidian"}
            BY <3>1, <5>1 DEF NineProviders, Sign!Sessions, Sign!Loopback
          <6>2. /\ Sign!PrepareFlaws("slack") = {} /\ Sign!PrepareFlaws("notion") = {} /\ Sign!PrepareFlaws("linear") = {}
                /\ Sign!PrepareFlaws("sentry") = {} /\ Sign!PrepareFlaws("obsidian") = {}
            BY Zenon DEF Sign!PrepareFlaws
          <6> QED BY <6>1, <6>2
        <5> QED BY <5>2
      <4>3. f # Sign!None => f \in Sign!Flaws(provider) BY <2>1
      <4> QED BY <2>0, <3>2, <4>1, <4>2, <4>3 DEF CheckedOf
    <3>3. CASE k # c
      <4>1. pc'[k] = pc[k] /\ flaw'[k] = flaw[k] /\ target'[k] = target[k] /\ account'[k] = account[k]
        BY <1>0, <3>1, <3>3 DEF SignTyped
      <4> QED BY <2>0, <2>2, <3>1, <4>1 DEF CheckedOf
    <3> QED BY <3>2, <3>3
  <2>4. ASSUME NEW t \in Accounts \cup {Sign!None}, Sign!Prepare(c, f, a, t) PROVE CheckedOf(k)'
    <3>1. /\ pc' = pc /\ flaw' = [flaw EXCEPT ![c] = f] /\ session' = [Sign!Swept EXCEPT ![c] = "asking"]
          /\ account' = [account EXCEPT ![c] = a] /\ target' = [target EXCEPT ![c] = t]
          /\ (t # Sign!None => provider = "microsoft")
      BY <2>4 DEF Sign!Prepare, Sign!Answers
    <3>2. CASE k = c
      <4>1. flaw'[c] = f /\ target'[c] = t /\ session'[c] = "asking" BY <1>0, <3>1 DEF SignTyped, Sign!Swept
      <4>3. f # Sign!None => f \in Sign!Flaws(provider) BY <2>1
      <4> QED BY <2>0, <3>1, <3>2, <4>1, <4>3 DEF CheckedOf
    <3>3. CASE k # c
      <4>1. /\ flaw'[k] = flaw[k] /\ target'[k] = target[k] /\ account'[k] = account[k]
            /\ (session'[k] = "open" => session[k] = "open")
        BY <1>0, <3>1, <3>3 DEF SignTyped, Sign!Swept
      <4> QED BY <2>0, <2>2, <3>1, <4>1 DEF CheckedOf
    <3> QED BY <3>2, <3>3
  <2> QED BY <2>1, <2>3, <2>4
<1>3. ASSUME NEW c \in Calls, SessionStep(c), NEW k \in Calls PROVE CheckedOf(k)'
  <2>1. UNCHANGED <<provider, flaw, account, target>> BY <1>3, SessionSteps
  <2>2. CheckedOf(k) /\ CheckedOf(c) BY <1>0 DEF ChecksPassed
  <2>3. /\ k # c => pc'[k] = pc[k] /\ session'[k] = session[k]
        /\ \/ pc'[c] = pc[c]
           \/ pc'[c] = 1 /\ pc[c] = 0 /\ session[c] = "open"
        /\ session'[c] = "open" => session[c] = "open" \/ (session[c] = "asking" /\ flaw[c] \notin Sign!PrepareFlaws(provider))
    BY <1>0, <1>3 DEF SessionStep, Sign!PrepareAnswered, Sign!Expire, Sign!ExpireLater, Sign!Cancel,
         Sign!Complete, SignTyped, Sign!None
  <2> QED BY <2>1, <2>2, <2>3 DEF CheckedOf
<1>4. ASSUME NEW c \in Calls, CallMove(c), NEW k \in Calls PROVE CheckedOf(k)'
  <2>1. UNCHANGED <<provider, flaw, account, target>> /\ pc[c] # 0 BY <1>4, CallMoves
  <2>2. CheckedOf(k) BY <1>0 DEF ChecksPassed
  <2>3. CASE k # c
    <3>1. pc'[k] = pc[k] /\ session'[k] = session[k] BY <1>4, <2>3, CallMoves
    <3> QED BY <2>1, <2>2, <3>1 DEF CheckedOf
  <2>4. CASE k = c /\ Sign!Go(c) /\ TagOf(c) # "upsert"
    <3>1. pc'[c] = pc[c] + 1 /\ session'[c] = session[c] BY <1>0, <2>4, StepEnds
    <3>2. Ordered(provider, Sign!Script(provider)) /\ pc[c] \in 1 .. Len(Sign!Script(provider))
      BY <2>1, StandingInScript DEF SignInv
    <3>3. TagOf(c) # "check" => Sign!Script(provider)[pc[c]][2] = {} BY <3>2 DEF Ordered, TagOf
    <3>4. /\ TagOf(c) = "check" => flaw[c] \notin Sign!Script(provider)[pc[c]][2]
          /\ TagOf(c) = "same" => target[c] \in {Sign!None, account[c]}
      <4>1. CASE QuietStep(c)
        <5>0. pc[c] \in 0 .. 10 BY <1>0 DEF SignTyped
        <5>1. ~Sign!End(c, "failed") /\ ~Sign!Again(c)
          <6>1. Sign!End(c, "failed") \/ Sign!Again(c) => pc'[c] = 0 BY <1>0, StepEnds
          <6> QED BY <3>1, <5>0, <6>1
        <5> QED BY <4>1, <5>1 DEF QuietStep, Sign!CheckStep, Sign!Callback, Sign!WaitEnds, Sign!Poll, Sign!Lock,
             Sign!Pair, Sign!StillActive, Sign!TestSend, Sign!Same, Sign!At, TagOf
      <4>2. CASE ~QuietStep(c)
        BY <1>4, <4>2 DEF CallMove, Sign!Look, Sign!Draw, Sign!Put, Sign!Kept, Sign!UpsertStep,
             Sign!UpsertFails, Sign!At, TagOf
      <4> QED BY <4>1, <4>2
    <3>5. \A i \in 1 .. pc'[c] - 1 : i = pc[c] \/ i \in 1 .. pc[c] - 1
      <4>1. pc[c] \in 0 .. 10 BY <1>0 DEF SignTyped
      <4> QED BY <3>1, <4>1
    <3> QED BY <2>1, <2>2, <2>4, <3>1, <3>3, <3>4, <3>5 DEF CheckedOf, TagOf
  <2>5. CASE k = c /\ (Sign!Again(c) \/ Sign!End(c, "failed") \/ Sign!End(c, "connected"))
    <3>1. pc'[c] = 0 BY <1>0, <2>5, StepEnds
    <3> QED BY <2>1, <2>2, <2>5, <3>1 DEF CheckedOf
  <2> QED BY <1>4, <2>3, <2>4, <2>5, CallMoves
<1>5. CASE Sign!Quit
  <2>1. \A k \in Calls : pc'[k] = 0 /\ session'[k] = "gone" BY <1>5 DEF Sign!Quit
  <2>2. UNCHANGED <<provider, flaw, account, target>> BY <1>5 DEF Sign!Quit, Sign!chosen
  <2> QED BY <1>0, <2>1, <2>2 DEF ChecksPassed, CheckedOf
<1>6. CASE Sign!Refresh \/ UNCHANGED Sign!vars
  BY <1>0, <1>6 DEF Sign!Refresh, Sign!vars, Sign!chosen, Sign!sessions, ChecksPassed, CheckedOf
<1>7. CASE Sign!Next
  BY <1>1, <1>2, <1>3, <1>4, <1>5, <1>6, <1>7, SignMoves DEF ChecksPassed
<1> QED BY <1>6, <1>7

LEMMA CancelsStopStep == ASSUME SignHypotheses, SignInv, [Sign!Next]_(Sign!vars) PROVE CancelsStop'
<1>0. SignTyped /\ CancelsStop /\ CallPositions BY DEF SignInv
<1>1. ASSUME NEW p \in Providers, NEW a \in Accounts, Sign!Choose(p, a), NEW k \in Calls PROVE CancelOf(k)'
  <2>1. provider = Sign!None /\ UNCHANGED <<pc, session, cancelled, stopped>> BY <1>1 DEF Sign!Choose,
       Sign!sessions
  <2>2. pc[k] = 0 BY <2>1 DEF SignInv, Unchosen
  <2>3. ~stopped[k] BY <1>0, <2>1 DEF CancelsStop, CancelOf, Sign!Sessions, Sign!Loopback, Sign!None
  <2> QED BY <2>1, <2>2, <2>3 DEF CancelOf, Sign!At
<1>2. ASSUME NEW c \in Calls, BeginStep(c), NEW k \in Calls PROVE CancelOf(k)'
  <2>0. provider # Sign!None /\ provider' = provider /\ pc[c] = 0 /\ account[c] = Sign!None /\ stopped' = stopped
    BY <1>2, <1>0, BeginSteps
  <2>1. PICK f \in Sign!Flaws(provider) \cup {Sign!None}, a \in Accounts :
          Sign!ConnectPrivate(c, f, a) \/ \E t \in Accounts \cup {Sign!None} : Sign!Prepare(c, f, a, t)
    BY <1>2 DEF BeginStep
  <2>2. CancelOf(k) BY <1>0 DEF CancelsStop
  <2>3. CASE Sign!ConnectPrivate(c, f, a)
    <3>1. pc' = [pc EXCEPT ![c] = 1] /\ session' = session /\ cancelled' = cancelled /\ provider \notin Sign!Sessions
      BY <2>3 DEF Sign!ConnectPrivate, Sign!sessions
    <3>2. ~stopped[k] BY <2>2, <3>1 DEF CancelOf
    <3> QED BY <2>0, <3>1, <3>2 DEF CancelOf, Sign!Sessions
  <2>4. ASSUME NEW t \in Accounts \cup {Sign!None}, Sign!Prepare(c, f, a, t) PROVE CancelOf(k)'
    <3>1. pc' = pc /\ session' = [Sign!Swept EXCEPT ![c] = "asking"] /\ cancelled' = Sign!SweptFlags /\ session[c] = Sign!None
      BY <2>4 DEF Sign!Prepare
    <3>2. /\ session[k] = "gone" => session'[k] = "gone"
          /\ cancelled[k] => cancelled'[k]
          /\ provider \in Sign!Loopback => cancelled'[k] = cancelled[k]
      BY <1>0, <3>1 DEF SignTyped, Sign!Swept, Sign!SweptFlags, Sign!Loopback, Sign!None
    <3> QED BY <2>0, <2>2, <3>1, <3>2 DEF CancelOf, Sign!At
  <2> QED BY <2>1, <2>3, <2>4
<1>3. ASSUME NEW c \in Calls, SessionStep(c), NEW k \in Calls PROVE CancelOf(k)'
  <2>0. provider' = provider BY <1>3, SessionSteps
  <2>1. CancelOf(k) /\ CancelOf(c) BY <1>0 DEF CancelsStop
  <2>2. IF pc[c] = 0 THEN Resting(c) ELSE Running(c) BY <1>0 DEF CallPositions
  <2>3. CASE Sign!PrepareAnswered(c)
    <3>1. /\ UNCHANGED <<pc, cancelled, stopped>> /\ session[c] = "asking"
          /\ session' = [session EXCEPT ![c] = "gone"] \/ session' = [session EXCEPT ![c] = "open"]
      BY <2>3 DEF Sign!PrepareAnswered
    <3>2. session[k] = "gone" => session'[k] = "gone" BY <1>0, <3>1 DEF SignTyped
    <3> QED BY <2>0, <2>1, <3>1, <3>2 DEF CancelOf, Sign!At
  <2>4. CASE Sign!Expire(c)
    <3>1. UNCHANGED <<pc, cancelled, stopped, session>> BY <2>4 DEF Sign!Expire
    <3> QED BY <2>0, <2>1, <3>1 DEF CancelOf, Sign!At
  <2>5. CASE Sign!ExpireLater(c)
    <3>1. /\ UNCHANGED <<pc, stopped>> /\ session[c] = "open" /\ provider = "telegram"
          /\ session' = [session EXCEPT ![c] = "gone"] /\ cancelled' = [cancelled EXCEPT ![c] = TRUE]
      BY <2>5 DEF Sign!ExpireLater
    <3>2. (session[k] = "gone" => session'[k] = "gone") /\ (cancelled[k] => cancelled'[k])
      BY <1>0, <3>1 DEF SignTyped
    <3>3. provider \notin Sign!Loopback BY <3>1 DEF Sign!Loopback
    <3> QED BY <2>0, <2>1, <3>1, <3>2, <3>3 DEF CancelOf, Sign!At
  <2>6. CASE Sign!Cancel(c)
    <3>1. /\ pc' = pc /\ session[c] = "open" /\ cancelled' = [cancelled EXCEPT ![c] = TRUE]
          /\ session' = [session EXCEPT ![c] = IF provider \in Sign!Loopback THEN @ ELSE "gone"]
          /\ stopped' = [stopped EXCEPT ![c] = @ \/ ~Sign!At(c, "upsert")]
      BY <2>6 DEF Sign!Cancel
    <3>2. CASE k # c
      <4>1. session'[k] = session[k] /\ cancelled'[k] = cancelled[k] /\ stopped'[k] = stopped[k]
        BY <1>0, <3>1, <3>2 DEF SignTyped
      <4> QED BY <2>0, <2>1, <3>1, <4>1 DEF CancelOf, Sign!At
    <3>3. CASE k = c
      <4>1. /\ cancelled'[c] /\ (Sign!At(c, "upsert") => stopped'[c] = stopped[c])
            /\ provider \notin Sign!Loopback => session'[c] = "gone"
        BY <1>0, <3>1 DEF SignTyped
      <4>2. provider \in Sign!Sessions /\ (provider \in Sign!Loopback => pc[c] = 0)
        BY <2>2, <3>1 DEF Resting, Running, Sign!Sessions, Sign!Loopback, Sign!None
      <4>3. pc[c] \in 0 .. 10 BY <1>0 DEF SignTyped
      <4>4. Sign!At(c, "upsert")' <=> Sign!At(c, "upsert") BY <2>0, <3>1 DEF Sign!At
      <4> QED BY <2>0, <2>1, <3>1, <3>3, <4>1, <4>2, <4>3, <4>4 DEF CancelOf
    <3> QED BY <3>2, <3>3
  <2>7. CASE Sign!Complete(c)
    <3>1. /\ UNCHANGED <<cancelled, stopped>> /\ provider \in Sign!Sessions /\ session[c] = "open" /\ pc[c] = 0
          /\ pc' = pc \/ pc' = [pc EXCEPT ![c] = 1]
          /\ session' = session \/ session' = [session EXCEPT ![c] = "gone"] \/ session' = [session EXCEPT ![c] = "held"]
      BY <2>7 DEF Sign!Complete
    <3>2. CASE k # c
      <4>1. pc'[k] = pc[k] /\ session'[k] = session[k] BY <1>0, <3>1, <3>2 DEF SignTyped
      <4> QED BY <2>0, <2>1, <3>1, <4>1 DEF CancelOf, Sign!At
    <3>3. CASE k = c
      <4>1. pc'[c] = 0 \/ pc'[c] = 1 BY <1>0, <3>1 DEF SignTyped
      <4>2. provider \in NineProviders BY <1>0, <3>1 DEF SignTyped, SignHypotheses, Sign!Sessions,
           Sign!Loopback, Sign!None
      <4>3. Sign!Script(provider)[1][1] # "upsert" BY <4>2, ScriptsOrdered DEF Ordered
      <4>4. ~Sign!At(c, "upsert")' BY <2>0, <4>1, <4>3 DEF Sign!At
      <4>5. stopped[c] => provider \in Sign!Loopback BY <2>1, <3>1 DEF CancelOf
      <4> QED BY <2>0, <2>1, <3>1, <3>3, <4>1, <4>4, <4>5 DEF CancelOf
    <3> QED BY <3>2, <3>3
  <2> QED BY <1>3, <2>3, <2>4, <2>5, <2>6, <2>7 DEF SessionStep
<1>4. ASSUME NEW c \in Calls, CallMove(c), NEW k \in Calls PROVE CancelOf(k)'
  <2>1. UNCHANGED <<provider, cancelled, stopped>> /\ pc[c] # 0 BY <1>4, CallMoves
  <2>2. CancelOf(k) BY <1>0 DEF CancelsStop
  <2>3. CASE k # c
    <3>1. pc'[k] = pc[k] /\ session'[k] = session[k] BY <1>4, <2>3, CallMoves
    <3> QED BY <2>1, <2>2, <3>1 DEF CancelOf, Sign!At
  <2>4. CASE k = c /\ Sign!Go(c) /\ TagOf(c) # "upsert"
    <3>1. pc'[c] = pc[c] + 1 /\ session'[c] = session[c] BY <1>0, <2>4, StepEnds
    <3>2. Running(c) BY <1>0, <2>1 DEF CallPositions
    <3>3. pc[c] \in 1 .. 10 BY <1>0, <2>1 DEF SignTyped
    <3>0. Ordered(provider, Sign!Script(provider)) /\ pc[c] \in 1 .. Len(Sign!Script(provider))
      BY <2>1, StandingInScript DEF SignInv
    <3>4. provider \in Sign!Loopback => ~cancelled[c]
      <4>1. CASE pc[c] > 1 BY <2>2, <2>4, <4>1 DEF CancelOf
      <4>2. CASE pc[c] = 1 /\ provider \in Sign!Loopback
        <5>1. TagOf(c) = "wait" BY <3>0, <4>2 DEF Ordered, TagOf
        <5>2. ~Sign!End(c, "failed")
          <6>1. Sign!End(c, "failed") => pc'[c] = 0 BY <1>0, StepEnds
          <6> QED BY <3>1, <3>3, <6>1
        <5> QED BY <1>4, <5>1, <5>2 DEF CallMove, QuietStep, Sign!CheckStep, Sign!Callback, Sign!WaitEnds,
             Sign!Poll, Sign!Lock, Sign!Pair, Sign!StillActive,
            Sign!TestSend, Sign!Same, Sign!Look, Sign!Draw, Sign!Put, Sign!Kept, Sign!UpsertStep, Sign!UpsertFails, Sign!At, TagOf
      <4> QED BY <3>3, <4>1, <4>2
    <3>5. Sign!At(c, "upsert")' => ~stopped[c]
      <4>1. CASE provider = "telegram"
        <5>1. Sign!At(c, "upsert")' => TagOf(c) = "kept"
          BY <2>1, <2>4, <4>1, NextTag DEF Sign!At, TagOf
        <5>2. TagOf(c) = "kept" => ~cancelled[c]
          <6>1. ~Sign!End(c, "failed")
            <7>1. Sign!End(c, "failed") => pc'[c] = 0 BY <1>0, StepEnds
            <7> QED BY <3>1, <3>3, <7>1
          <6> QED BY <1>4, <6>1 DEF CallMove, QuietStep, Sign!CheckStep, Sign!Callback, Sign!WaitEnds,
               Sign!Poll, Sign!Lock, Sign!Pair, Sign!StillActive,
              Sign!TestSend, Sign!Same, Sign!Look, Sign!Draw, Sign!Put, Sign!Kept, Sign!UpsertStep, Sign!UpsertFails, Sign!At, TagOf, Sign!Active
        <5> QED BY <2>2, <2>4, <5>1, <5>2 DEF CancelOf
      <4>2. CASE provider # "telegram"
        <5>1. stopped[c] => provider \in Sign!Loopback
          BY <2>2, <2>4, <3>2, <4>2 DEF CancelOf, Running
        <5> QED BY <2>2, <2>4, <3>4, <5>1 DEF CancelOf
      <4> QED BY <4>1, <4>2
    <3> QED BY <2>1, <2>2, <2>4, <3>1, <3>4, <3>5 DEF CancelOf
  <2>5. CASE k = c /\ Sign!Again(c) /\ provider \in {"github", "telegram"}
    <3>1. pc'[c] = 0 /\ session'[c] = IF session[c] = "held" THEN "open" ELSE session[c] BY <1>0, <2>5, StepEnds
    <3> QED BY <2>1, <2>2, <2>5, <3>1 DEF CancelOf, Sign!At
  <2>6. CASE k = c /\ (Sign!End(c, "failed") \/ Sign!End(c, "connected"))
    <3>1. pc'[c] = 0 /\ session'[c] = "gone" BY <1>0, <2>6, StepEnds
    <3> QED BY <2>1, <2>2, <2>6, <3>1 DEF CancelOf, Sign!At
  <2> QED BY <1>4, <2>3, <2>4, <2>5, <2>6, CallMoves
<1>5. CASE Sign!Quit
  <2>1. \A k \in Calls : pc'[k] = 0 /\ session'[k] = "gone" BY <1>5 DEF Sign!Quit
  <2>2. UNCHANGED <<provider, cancelled, stopped>> BY <1>5 DEF Sign!Quit, Sign!chosen
  <2> QED BY <1>0, <2>1, <2>2 DEF CancelsStop, CancelOf, Sign!At
<1>6. CASE Sign!Refresh \/ UNCHANGED Sign!vars
  BY <1>0, <1>6 DEF Sign!Refresh, Sign!vars, Sign!chosen, Sign!sessions, CancelsStop, CancelOf, Sign!At
<1>7. CASE Sign!Next
  BY <1>1, <1>2, <1>3, <1>4, <1>5, <1>6, <1>7, SignMoves DEF CancelsStop
<1> QED BY <1>6, <1>7

LEMMA AcceptedStep == ASSUME SignHypotheses, SignInv, [Sign!Next]_(Sign!vars) PROVE Accepted'
<1>0. SignTyped /\ Accepted /\ CallPositions BY DEF SignInv
<1>1. ASSUME NEW p \in Providers, NEW a \in Accounts, Sign!Choose(p, a), NEW k \in Calls PROVE AcceptedOf(k)'
  BY <1>0, <1>1 DEF Sign!Choose, Sign!sessions, Accepted, AcceptedOf
<1>2. ASSUME NEW c \in Calls, BeginStep(c), NEW k \in Calls PROVE AcceptedOf(k)'
  <2>0. result' = result /\ stopped' = stopped /\ result[c] = Sign!None
    BY <1>2, <1>0, BeginSteps
  <2>1. PICK f \in Sign!Flaws(provider) \cup {Sign!None}, a \in Accounts, t \in Accounts \cup {Sign!None} :
          /\ flaw' = [flaw EXCEPT ![c] = f] /\ account' = [account EXCEPT ![c] = a]
          /\ target' = [target EXCEPT ![c] = t]
    <3>1. PICK f \in Sign!Flaws(provider) \cup {Sign!None}, a \in Accounts :
            Sign!ConnectPrivate(c, f, a) \/ \E t \in Accounts \cup {Sign!None} : Sign!Prepare(c, f, a, t)
      BY <1>2 DEF BeginStep
    <3>2. Sign!ConnectPrivate(c, f, a) => Sign!Answers(c, f, a, Sign!None) BY DEF Sign!ConnectPrivate
    <3>3. \A t \in Accounts \cup {Sign!None} : Sign!Prepare(c, f, a, t) => Sign!Answers(c, f, a, t)
      BY DEF Sign!Prepare
    <3>4. \E t \in Accounts \cup {Sign!None} : Sign!Answers(c, f, a, t) BY <3>1, <3>2, <3>3
    <3> QED BY <3>4 DEF Sign!Answers
  <2>2. k # c => flaw'[k] = flaw[k] /\ account'[k] = account[k] /\ target'[k] = target[k]
    BY <1>0, <2>1 DEF SignTyped
  <2> QED BY <1>0, <2>0, <2>2 DEF Accepted, AcceptedOf, Sign!None
<1>3. ASSUME NEW c \in Calls, SessionStep(c), NEW k \in Calls PROVE AcceptedOf(k)'
  <2>1. UNCHANGED <<flaw, account, target>> BY <1>3, SessionSteps
  <2>2. result' = result \/ result' = [result EXCEPT ![c] = "failed"] BY <1>3, SessionSteps
  <2>3. result'[k] = "connected" => result[k] = "connected" BY <1>0, <2>2 DEF SignTyped
  <2>4. result[k] = "connected" => stopped'[k] = stopped[k]
    <3>1. CASE Sign!Cancel(c)
      <4>1. session[c] = "open" /\ stopped' = [stopped EXCEPT ![c] = @ \/ ~Sign!At(c, "upsert")]
        BY <3>1 DEF Sign!Cancel
      <4>2. result[c] # "connected" BY <1>0, <4>1 DEF CallPositions, Resting, Running, Sign!None
      <4> QED BY <1>0, <4>1, <4>2 DEF SignTyped
    <3>2. CASE ~Sign!Cancel(c) BY <1>3, <3>2 DEF SessionStep, Sign!PrepareAnswered, Sign!Expire,
         Sign!ExpireLater, Sign!Complete
    <3> QED BY <3>1, <3>2
  <2> QED BY <1>0, <2>1, <2>3, <2>4 DEF Accepted, AcceptedOf
<1>4. ASSUME NEW c \in Calls, CallMove(c), NEW k \in Calls PROVE AcceptedOf(k)'
  <2>1. UNCHANGED <<provider, flaw, account, target, stopped>> /\ pc[c] # 0 BY <1>4, CallMoves
  <2>2. AcceptedOf(k) BY <1>0 DEF Accepted
  <2>3. CASE k # c
    <3>1. result'[k] = result[k] BY <1>4, <2>3, CallMoves
    <3> QED BY <2>1, <2>2, <3>1 DEF AcceptedOf
  <2>4. CASE k = c /\ (Sign!Go(c) \/ Sign!Again(c) \/ Sign!End(c, "failed"))
    <3>1. result'[c] \in {result[c], "failed"} BY <1>0, <2>4, StepEnds
    <3> QED BY <2>1, <2>2, <2>4, <3>1 DEF AcceptedOf
  <2>5. CASE k = c /\ TagOf(c) = "upsert"
    <3>1. CheckedOf(c) /\ CancelOf(c) BY DEF SignInv, ChecksPassed, CancelsStop
    <3>2. Ordered(provider, Sign!Script(provider)) /\ pc[c] = Len(Sign!Script(provider))
      BY <2>1, <2>5, StandingInScript DEF SignInv
    <3>3. ~stopped[c] BY <2>1, <2>5, <3>1 DEF CancelOf, Sign!At, TagOf
    <3> DEFINE s == Sign!Script(provider)
    <3>4. /\ DOMAIN s = 1 .. Len(s) /\ Len(s) \in 4 .. 10 /\ (\A i \in 1 .. Len(s) : s[i][1] # "check" => s[i][2] = {})
          /\ provider = "microsoft" => \E i \in 1 .. Len(s) - 1 : s[i][1] = "same"
      BY <3>2 DEF Ordered
    <3>5. \A i \in 1 .. Len(s) : i = Len(s) \/ i \in 1 .. Len(s) - 1
      <4>1. \A n \in 4 .. 10 : \A i \in 1 .. n : i = n \/ i \in 1 .. n - 1 OBVIOUS
      <4> QED BY Zenon, <3>4, <4>1
    <3>6. Sign!Flaws(provider) = Sign!PrepareFlaws(provider) \cup UNION {s[i][2] : i \in DOMAIN s}
      BY DEF Sign!Flaws
    <3>7. s[Len(s)][2] = {}
      <4>1. Len(s) \in 1 .. Len(s) BY <3>4
      <4> QED BY <2>5, <3>2, <3>4, <4>1 DEF TagOf
    <3>8. \A i \in 1 .. Len(s) - 1 : flaw[c] \notin s[i][2] BY <2>1, <3>1, <3>2 DEF CheckedOf
    <3>9. \A i \in 1 .. Len(s) - 1 : s[i][1] = "same" => target[c] \in {Sign!None, account[c]}
      BY <2>1, <3>1, <3>2 DEF CheckedOf
    <3> HIDE DEF s
    <3>10. flaw[c] = Sign!None
      <4>1. \A i \in DOMAIN s : flaw[c] \notin s[i][2] BY <3>4, <3>5, <3>7, <3>8
      <4>2. flaw[c] \notin UNION {s[i][2] : i \in DOMAIN s} BY <4>1
      <4> QED BY <2>1, <3>1, <3>6, <4>2 DEF CheckedOf
    <3>11. target[c] \in {Sign!None, account[c]} BY <3>1, <3>4, <3>9 DEF CheckedOf
    <3> QED BY <2>1, <2>5, <3>3, <3>10, <3>11 DEF AcceptedOf
  <2> QED BY <1>4, <2>3, <2>4, <2>5, CallMoves
<1>5. CASE Sign!Quit
  <2>1. \A k \in Calls : result'[k] = "connected" => result[k] = "connected" BY <1>5 DEF Sign!Quit
  <2>2. UNCHANGED <<flaw, account, target, stopped>> BY <1>5 DEF Sign!Quit, Sign!chosen
  <2> QED BY <1>0, <2>1, <2>2 DEF Accepted, AcceptedOf
<1>6. CASE Sign!Refresh \/ UNCHANGED Sign!vars
  BY <1>0, <1>6 DEF Sign!Refresh, Sign!vars, Sign!chosen, Sign!sessions, Accepted, AcceptedOf
<1>7. CASE Sign!Next
  BY <1>1, <1>2, <1>3, <1>4, <1>5, <1>6, <1>7, SignMoves DEF Accepted
<1> QED BY <1>6, <1>7

LEMMA GrantStaysStep == ASSUME SignHypotheses, SignInv, [Sign!Next]_(Sign!vars) PROVE GrantStays'
<1>0. SignTyped /\ GrantStays /\ Unchosen BY DEF SignInv
<1>1. ASSUME NEW p \in Providers, NEW a \in Accounts, Sign!Choose(p, a) PROVE GrantStays'
  BY <1>0, <1>1 DEF Sign!Choose, Unchosen, GrantStays
<1>2. ASSUME NEW c \in Calls, BeginStep(c) PROVE GrantStays'
  <2>1. UNCHANGED <<provider, rows, grant, reauth, revoked>> BY <1>0, <1>2, BeginSteps DEF SignInv
  <2> QED BY <1>0, <2>1 DEF GrantStays
<1>3. ASSUME NEW c \in Calls, SessionStep(c) PROVE GrantStays'
  <2>1. UNCHANGED <<provider, rows, grant, reauth, revoked>> BY <1>3, SessionSteps
  <2> QED BY <1>0, <2>1 DEF GrantStays
<1>4. ASSUME NEW c \in Calls, CallMove(c) PROVE GrantStays'
  <2>1. provider' = provider BY <1>4, CallMoves
  <2>2. CASE QuietStep(c)
    <3>1. UNCHANGED <<rows, grant, reauth, revoked>> BY <2>2, QuietSteps
    <3> QED BY <1>0, <2>1, <3>1 DEF GrantStays
  <2>3. CASE Sign!UpsertStep(c) BY <2>3 DEF Sign!UpsertStep, GrantStays
  <2>4. CASE Sign!Look(c) \/ Sign!Draw(c) \/ Sign!Put(c) \/ Sign!Kept(c) \/ Sign!UpsertFails(c)
    <3>1. UNCHANGED <<rows, grant, reauth, revoked>> BY <2>4 DEF Sign!Look, Sign!Draw, Sign!Put, Sign!Kept,
         Sign!UpsertFails, Sign!saved, Sign!tokens
    <3> QED BY <1>0, <2>1, <3>1 DEF GrantStays
  <2> QED BY <1>4, <2>2, <2>3, <2>4 DEF CallMove
<1>5. CASE Sign!Quit
  <2>1. UNCHANGED <<provider, rows, grant, reauth, revoked>> BY <1>5 DEF Sign!Quit, Sign!chosen, Sign!tokens
  <2> QED BY <1>0, <2>1 DEF GrantStays
<1>6. CASE Sign!Refresh
  <2>1. UNCHANGED <<provider, rows>> /\ (\E a \in Accounts : rows[a] # Sign!None) BY <1>6 DEF Sign!Refresh,
       Sign!chosen, Sign!saved
  <2>2. provider = "microsoft" => grant BY <1>0, <2>1 DEF GrantStays
  <2>3. provider = "microsoft" => \/ grant' = TRUE /\ UNCHANGED <<reauth, revoked>>
                                  \/ revoked' = TRUE /\ UNCHANGED grant
    BY <1>6, <2>2 DEF Sign!Refresh, Sign!KeepsGrant
  <2> QED BY <1>0, <2>1, <2>2, <2>3 DEF GrantStays
<1>7. CASE UNCHANGED Sign!vars BY <1>0, <1>7 DEF Sign!vars, Sign!chosen, Sign!saved, Sign!tokens, GrantStays
<1>8. CASE Sign!Next BY <1>1, <1>2, <1>3, <1>4, <1>5, <1>6, <1>8, SignMoves
<1> QED BY <1>7, <1>8

LEMMA TestMessagesStep == ASSUME SignHypotheses, SignInv, [Sign!Next]_(Sign!vars) PROVE TestMessages'
<1>0. SignTyped /\ TestMessages /\ CallPositions BY DEF SignInv
<1>f. troubles \in Nat /\ \A k \in Calls : sent[k] \in Nat /\ pc[k] \in 0 .. 10
  BY <1>0 DEF SignTyped, SignHypotheses
<1>1. ASSUME NEW p \in Providers, NEW a \in Accounts, Sign!Choose(p, a), NEW k \in Calls PROVE TestsOf(k)'
  <2>1. provider = Sign!None /\ UNCHANGED <<pc, session, sent, troubles>> BY <1>1 DEF Sign!Choose, Sign!sessions
  <2>2. sent[k] = 0 BY <1>0, <2>1 DEF TestMessages, TestsOf, Sign!None
  <2> QED BY <1>f, <2>1, <2>2 DEF TestsOf
<1>2. ASSUME NEW c \in Calls, BeginStep(c), NEW k \in Calls PROVE TestsOf(k)'
  <2>0. UNCHANGED <<provider, sent, troubles>> /\ account[c] = Sign!None /\ pc[c] = 0
    BY <1>2, <1>0, BeginSteps
  <2>1. PICK f \in Sign!Flaws(provider) \cup {Sign!None}, a \in Accounts :
          Sign!ConnectPrivate(c, f, a) \/ \E t \in Accounts \cup {Sign!None} : Sign!Prepare(c, f, a, t)
    BY <1>2 DEF BeginStep
  <2>2. TestsOf(k) BY <1>0 DEF TestMessages
  <2>3. CASE Sign!ConnectPrivate(c, f, a)
    <3>1. provider # "telegram" BY <2>3 DEF Sign!ConnectPrivate, Sign!Sessions
    <3> QED BY <1>f, <2>0, <2>2, <3>1 DEF TestsOf
  <2>4. ASSUME NEW t \in Accounts \cup {Sign!None}, Sign!Prepare(c, f, a, t) PROVE TestsOf(k)'
    <3>1. pc' = pc /\ session' = [Sign!Swept EXCEPT ![c] = "asking"] /\ session[c] = Sign!None
      BY <2>4 DEF Sign!Prepare
    <3>2. session[k] = "gone" => session'[k] = "gone" BY <1>0, <3>1 DEF SignTyped, Sign!Swept, Sign!None
    <3> QED BY <2>0, <2>2, <3>1, <3>2 DEF TestsOf
  <2> QED BY <2>1, <2>3, <2>4
<1>3. ASSUME NEW c \in Calls, SessionStep(c), NEW k \in Calls PROVE TestsOf(k)'
  <2>1. UNCHANGED <<provider, sent, troubles>> BY <1>3, SessionSteps
  <2>2. TestsOf(k) BY <1>0 DEF TestMessages
  <2>3. /\ session[k] = "gone" => session'[k] = "gone"
        /\ pc'[k] = pc[k] \/ (pc'[k] = 1 /\ pc[k] = 0 /\ session[k] = "open")
    BY <1>0, <1>3 DEF SessionStep, Sign!PrepareAnswered, Sign!Expire, Sign!ExpireLater, Sign!Cancel,
         Sign!Complete, SignTyped
  <2> QED BY <1>f, <2>1, <2>2, <2>3 DEF TestsOf
<1>4. ASSUME NEW c \in Calls, CallMove(c), NEW k \in Calls PROVE TestsOf(k)'
  <2>1. provider' = provider /\ pc[c] # 0 BY <1>4, CallMoves
  <2>2. TestsOf(k) /\ TestsOf(c) BY <1>0 DEF TestMessages
  <2>3. /\ QuietStep(c) => troubles' = troubles
        /\ ~QuietStep(c) => sent' = sent /\ troubles' \in Nat /\ troubles' >= troubles
    <3>1. QuietStep(c) => troubles' = troubles BY QuietSteps
    <3>2. CASE ~QuietStep(c)
      BY <1>4, <1>f, <3>2 DEF CallMove, Sign!Look, Sign!Draw, Sign!Put, Sign!Kept, Sign!UpsertStep,
           Sign!UpsertFails, Sign!Fault
    <3> QED BY <3>1, <3>2
  <2>4. ~Sign!TestSend(c) => sent' = sent
    <3>1. CASE ~QuietStep(c) BY <2>3, <3>1
    <3>2. CASE QuietStep(c)
      BY <3>2 DEF QuietStep, Sign!CheckStep, Sign!Callback, Sign!WaitEnds, Sign!Poll, Sign!Lock, Sign!Pair,
           Sign!StillActive, Sign!Same
    <3> QED BY <3>1, <3>2
  <2>5. Ordered(provider, Sign!Script(provider)) /\ pc[c] \in 1 .. Len(Sign!Script(provider))
    BY <2>1, StandingInScript DEF SignInv
  <2>6. Sign!TestSend(c) => /\ provider = "telegram" /\ pc[c] = 4
                       /\ \/ Sign!Go(c) /\ sent' = [sent EXCEPT ![c] = @ + 1]
                          \/ Sign!Again(c) /\ sent' = sent
                          \/ Sign!End(c, "failed") /\ (sent' = sent \/ sent' = [sent EXCEPT ![c] = @ + 1])
    BY <2>5 DEF Sign!TestSend, Sign!At, Ordered
  <2>7. CASE k # c
    <3>1. pc'[k] = pc[k] /\ session'[k] = session[k] BY <1>4, <2>7, CallMoves
    <3>2. sent'[k] = sent[k] BY <1>0, <2>4, <2>6, <2>7 DEF SignTyped
    <3> QED BY <1>f, <2>1, <2>2, <2>3, <3>1, <3>2 DEF TestsOf
  <2>8. CASE k = c /\ Sign!TestSend(c)
    <3>1. /\ sent'[c] = sent[c] \/ sent'[c] = sent[c] + 1
          /\ Sign!Again(c) => sent'[c] = sent[c]
          /\ troubles' = troubles /\ provider = "telegram" /\ pc[c] = 4
      <4>1. sent \in [Calls -> Nat] BY <1>0 DEF SignTyped
      <4>2. troubles' = troubles BY <2>3, <2>8 DEF QuietStep
      <4>3. ~(Sign!Again(c) /\ Sign!Go(c)) /\ (Sign!Again(c) /\ Sign!End(c, "failed") => result[c] # Sign!None)
        <5>1. Sign!Go(c) => pc'[c] = pc[c] + 1 BY <1>0, StepEnds
        <5>2. Sign!Again(c) => pc'[c] = 0 /\ result'[c] = result[c] BY <1>0, StepEnds
        <5>3. Sign!End(c, "failed") => result'[c] = "failed" BY <1>0, StepEnds
        <5> QED BY <1>f, <5>1, <5>2, <5>3 DEF Sign!None
      <4>4. result[c] = Sign!None BY <1>0, <2>1 DEF CallPositions, Running
      <4> QED BY <2>6, <2>8, <4>1, <4>2, <4>3, <4>4
    <3>2. sent[c] <= troubles BY <2>2, <3>1 DEF TestsOf
    <3>3. CASE Sign!Go(c)
      <4>1. pc'[c] = pc[c] + 1 BY <1>0, <3>3, StepEnds
      <4> QED BY <1>f, <2>1, <2>8, <3>1, <3>2, <4>1 DEF TestsOf
    <3>4. CASE Sign!Again(c)
      BY <1>f, <2>1, <2>8, <3>1, <3>2, <3>4 DEF TestsOf
    <3>5. CASE Sign!End(c, "failed")
      <4>1. pc'[c] = 0 /\ session'[c] = "gone" BY <1>0, <3>5, StepEnds
      <4> QED BY <1>f, <2>1, <2>8, <3>1, <3>2, <4>1 DEF TestsOf
    <3> QED BY <2>6, <2>8, <3>3, <3>4, <3>5
  <2>9. CASE k = c /\ ~Sign!TestSend(c)
    <3>1. sent' = sent BY <2>4, <2>9
    <3>2. CASE Sign!Go(c) /\ TagOf(c) # "upsert"
      <4>1. pc'[c] = pc[c] + 1 BY <1>0, <3>2, StepEnds
      <4>2. provider = "telegram" /\ pc[c] = 4 => FALSE
        <5>1. provider = "telegram" /\ pc[c] = 4 => TagOf(c) = "test" BY <2>5 DEF Ordered, TagOf
        <5>2. TagOf(c) = "test" => FALSE
          BY <1>4, <2>9 DEF CallMove, QuietStep, Sign!CheckStep, Sign!Callback, Sign!WaitEnds, Sign!Poll,
               Sign!Lock, Sign!Pair, Sign!StillActive,
            Sign!Same, Sign!Look, Sign!Draw, Sign!Put, Sign!Kept, Sign!UpsertStep, Sign!UpsertFails, Sign!At, TagOf
        <5> QED BY <5>1, <5>2
      <4> QED BY <1>f, <2>1, <2>2, <2>3, <2>9, <3>1, <4>1, <4>2 DEF TestsOf
    <3>3. CASE Sign!End(c, "failed") \/ Sign!End(c, "connected")
      <4>1. pc'[c] = 0 /\ session'[c] = "gone" BY <1>0, <3>3, StepEnds
      <4> QED BY <1>f, <2>1, <2>2, <2>3, <2>9, <3>1, <4>1 DEF TestsOf
    <3>4. CASE Sign!Again(c) /\ QuietStep(c)
      <4>1. pc'[c] = 0 /\ troubles' = troubles BY <1>0, <2>3, <3>4, StepEnds
      <4>2. CASE provider # "telegram" BY <1>f, <2>1, <2>2, <2>9, <3>1, <4>1, <4>2 DEF TestsOf
      <4>3. CASE provider = "telegram"
        <5>1. TagOf(c) \in {"lock", "pair", "active", "test"}
          <6>1. TagOf(c) \in {"check", "wait", "poll", "lock", "pair", "active", "test", "same"}
            BY <3>4, QuietSteps
          <6> QED BY <2>5, <4>3, <6>1 DEF Ordered, TagOf
        <5>2. TagOf(c) # "active"
          <6>1. Sign!End(c, "failed") => result'[c] = "failed" BY <1>0, StepEnds
          <6>2. Sign!Again(c) => result'[c] = result[c] BY <1>0, StepEnds
          <6>3. result[c] = Sign!None BY <1>0, <2>1 DEF CallPositions, Running
          <6>4. Sign!Go(c) => pc'[c] = pc[c] + 1 BY <1>0, StepEnds
          <6>5. ~Sign!End(c, "failed") /\ ~Sign!Go(c) BY <1>f, <3>4, <4>1, <6>1, <6>2, <6>3, <6>4 DEF Sign!None
          <6> QED BY <3>4, <6>5 DEF QuietStep, Sign!CheckStep, Sign!Callback, Sign!WaitEnds, Sign!Poll,
               Sign!Lock, Sign!Pair, Sign!StillActive,
            Sign!TestSend, Sign!Same, Sign!At, TagOf
        <5>3. pc[c] < 5 BY <2>5, <4>3, <5>1, <5>2 DEF Ordered, TagOf
        <5>4. sent[c] <= troubles BY <1>f, <2>1, <2>2, <5>3 DEF TestsOf
        <5> QED BY <1>f, <2>1, <2>9, <3>1, <4>1, <4>3, <5>4 DEF TestsOf
      <4> QED BY <4>2, <4>3
    <3>5. CASE Sign!Again(c) /\ ~QuietStep(c)
      <4>1. troubles' >= troubles + 1 \/ Sign!End(c, "failed") \/ Sign!End(c, "connected") \/ (Sign!Go(c) /\ TagOf(c) # "upsert")
        BY <1>4, <1>f, <3>5 DEF CallMove, Sign!Look, Sign!Draw, Sign!Put, Sign!Kept, Sign!UpsertStep,
             Sign!UpsertFails, Sign!Fault, Sign!Failed, Sign!At, TagOf
      <4>2. CASE troubles' >= troubles + 1
        <5>1. troubles' \in Nat BY <2>3, <3>5
        <5> QED BY <1>f, <2>1, <2>2, <2>9, <3>1, <4>2, <5>1 DEF TestsOf
      <4> QED BY <3>2, <3>3, <4>1, <4>2
    <3> QED BY <1>4, <3>2, <3>3, <3>4, <3>5, CallMoves
  <2> QED BY <2>7, <2>8, <2>9
<1>5. CASE Sign!Quit
  <2>1. \A k \in Calls : pc'[k] = 0 /\ session'[k] = "gone" BY <1>5 DEF Sign!Quit
  <2>2. UNCHANGED <<provider, sent>> /\ troubles' = troubles + 1 BY <1>5 DEF Sign!Quit, Sign!chosen, Sign!Fault
  <2> QED BY <1>0, <1>f, <2>1, <2>2 DEF TestMessages, TestsOf
<1>6. CASE Sign!Refresh \/ UNCHANGED Sign!vars
  BY <1>0, <1>6 DEF Sign!Refresh, Sign!vars, Sign!chosen, Sign!sessions, TestMessages, TestsOf
<1>7. CASE Sign!Next
  BY <1>1, <1>2, <1>3, <1>4, <1>5, <1>6, <1>7, SignMoves DEF TestMessages
<1> QED BY <1>6, <1>7

\* A step that changes neither store nor rows nor what a call holds.
LEMMA SameReferences ==
  ASSUME SignHypotheses, SignInv, UNCHANGED <<ref, fresh, prior, store, rows>>,
         \A k \in Calls : account[k] # Sign!None => account'[k] = account[k],
         \A k \in Calls : /\ result[k] = "connected" => result'[k] = "connected"
                          /\ result[k] # Sign!None => result'[k] # Sign!None,
         \A k \in Calls : (Storing(k)' => Storing(k)) /\ (Stored(k)' => Stored(k)),
         \A k \in Calls : Storing(k) => Storing(k)' \/ result'[k] # Sign!None,
         \/ pardoned'
         \/ pardoned' = pardoned /\ \A k \in Calls : (Storing(k) => Storing(k)') /\ (Stored(k) => Stored(k)')
  PROVE  References' /\ Sign!RowHasItsCredential' /\ Unexcused'
<1>0. SignTyped /\ References /\ Sign!RowHasItsCredential /\ Unexcused BY DEF SignInv
<1>1. \A a \in Accounts : a # Sign!None BY DEF SignHypotheses
<1>2. ASSUME NEW k \in Calls PROVE ReferenceOf(k)'
  <2>1. ReferenceOf(k) BY <1>0 DEF References
  <2>2. ref[k] # Sign!None => account'[k] = account[k] BY <2>1 DEF ReferenceOf
  <2>3. prior[k] \in Calls => account'[prior[k]] = account'[k]
    <3>1. prior[k] \in Calls => prior[k] # Sign!None BY DEF SignHypotheses
    <3> QED BY <2>1, <2>2, <3>1 DEF ReferenceOf
  <2> QED BY <2>1, <2>2, <2>3 DEF ReferenceOf
<1>3. \A a \in Accounts : rows[a] \in Calls => result'[rows[a]] = "connected" /\ account'[rows[a]] = a
  BY <1>0, <1>1 DEF References
<1>4. References' BY <1>0, <1>2, <1>3 DEF References
<1>5. Sign!RowHasItsCredential' BY <1>0, <1>1 DEF Sign!RowHasItsCredential
<1>6. Unexcused'
  <2>1. CASE pardoned' BY <2>1 DEF Unexcused
  <2>2. CASE ~pardoned'
    <3>0. pardoned' = pardoned /\ \A k \in Calls : (Storing(k) => Storing(k)') /\ (Stored(k) => Stored(k)')
      BY <2>2
    <3>1. \A k \in Calls : ref[k] # Sign!None => account'[k] = account[k] BY <1>0 DEF References, ReferenceOf
    <3>2. \A k \in Calls : fresh[k] => account'[k] = account[k]
      <4>1. \A k \in Calls : k # Sign!None BY DEF SignHypotheses
      <4> QED BY <1>0, <3>1, <4>1 DEF References, ReferenceOf
    <3> QED BY <1>0, <2>2, <3>0, <3>1, <3>2 DEF Unexcused
  <2> QED BY <2>1, <2>2
<1> QED BY <1>4, <1>5, <1>6

\* A call that saves holds a reference of its own, or the one of its account's row.
LEMMA Holding ==
  ASSUME SignHypotheses, SignInv, NEW c \in Calls, Storing(c)
  PROVE  /\ ref[c] # Sign!None /\ ref[c] \in Sign!Refs /\ account[c] \in Accounts /\ result[c] = Sign!None
         /\ \A b \in Accounts : rows[b] = ref[c] => ~fresh[c] /\ b = account[c]
         /\ \A k \in Calls \ {c} : Stored(k) /\ fresh[k] => ref[c] # k
         /\ fresh[c] => ref[c] = c /\ prior[c] = Sign!None
         /\ ~fresh[c] => rows[account[c]] = ref[c]
         /\ prior[c] \in Sign!Refs \cup {Sign!None} /\ (prior[c] \in Calls => account[prior[c]] = account[c])
<1>0. SignTyped /\ References /\ ReferenceOf(c) /\ CallPositions BY DEF SignInv, References
<1>1. ref[c] # Sign!None /\ ref[c] \in Sign!Refs /\ prior[c] \in Sign!Refs \cup {Sign!None}
  BY <1>0 DEF ReferenceOf, SignTyped
<1>2. Running(c) BY <1>0 DEF CallPositions, Storing, Sign!At
<1>3. account[c] \in Accounts /\ result[c] = Sign!None BY <1>0, <1>2 DEF Running, SignTyped
<1>4. ~fresh[c] => rows[account[c]] = ref[c] BY <1>0, <1>1 DEF ReferenceOf
<1>5. \A a \in Accounts : rows[a] \in Calls => result[rows[a]] = "connected" /\ account[rows[a]] = a
  BY <1>0 DEF References
<1>6. \A a, b \in Accounts : rows[a] = Sign!Old /\ rows[b] = Sign!Old => a = b BY <1>0 DEF References
<1>7. fresh[c] => ref[c] = c /\ prior[c] = Sign!None BY <1>0 DEF ReferenceOf
<1>8. ASSUME NEW b \in Accounts, rows[b] = ref[c] PROVE ~fresh[c] /\ b = account[c]
  <2>1. ~fresh[c] BY <1>3, <1>5, <1>7, <1>8 DEF Sign!None
  <2>2. rows[account[c]] = rows[b] BY <1>4, <1>8, <2>1
  <2>3. CASE ref[c] \in Calls BY <1>3, <1>5, <1>8, <2>1, <2>2, <2>3
  <2>4. CASE ref[c] = Sign!Old BY <1>3, <1>6, <1>8, <2>1, <2>2, <2>4
  <2> QED BY <1>1, <2>1, <2>3, <2>4 DEF Sign!Refs
<1>9. ASSUME NEW k \in Calls \ {c}, Stored(k), fresh[k] PROVE ref[c] # k
  <2>1. result[k] = Sign!None BY <1>0, <1>9 DEF CallPositions, Running, Stored, Sign!At
  <2>2. CASE fresh[c] BY <1>7, <2>2
  <2>3. CASE ~fresh[c] BY <1>3, <1>4, <1>5, <2>1, <2>3 DEF Sign!None
  <2> QED BY <2>2, <2>3
<1>10. prior[c] \in Calls => account[prior[c]] = account[c] BY <1>0 DEF ReferenceOf
<1> QED BY <1>1, <1>3, <1>4, <1>7, <1>8, <1>9, <1>10

\* The other calls save as before.
LEMMA OthersStore ==
  ASSUME SignHypotheses, SignInv, NEW c \in Calls, CallMove(c)
  PROVE  \A k \in Calls \ {c} : (Storing(k)' <=> Storing(k)) /\ (Stored(k)' <=> Stored(k))
<1>1. provider' = provider /\ \A k \in Calls \ {c} : pc'[k] = pc[k] BY CallMoves
<1> QED BY <1>1 DEF Storing, Stored, Sign!At

\* A call whose attempt ends, or begins anew, holds nothing.
LEMMA LetGo ==
  ASSUME SignHypotheses, SignInv, NEW c \in Calls, CallMove(c), Sign!Forget(c),
         Sign!Again(c) \/ Sign!End(c, "failed") \/ Sign!End(c, "connected")
  PROVE  /\ ref'[c] = Sign!None /\ fresh'[c] = FALSE /\ prior'[c] = Sign!None
         /\ ~Storing(c)' /\ ~Stored(c)' /\ account' = account /\ ReferenceOf(c)'
<1>1. ref'[c] = Sign!None /\ fresh'[c] = FALSE /\ prior'[c] = Sign!None BY DEF SignInv, SignTyped, Sign!Forget
<1>2. pc'[c] = 0 BY StepEnds DEF SignInv
<1>3. ~Storing(c)' /\ ~Stored(c)' BY <1>2 DEF Storing, Stored, Sign!At
<1>4. account' = account BY CallMoves
<1>5. Sign!None \notin Calls BY DEF SignHypotheses
<1> QED BY <1>1, <1>3, <1>4, <1>5 DEF ReferenceOf

LEMMA OtherReferences ==
  ASSUME SignHypotheses, SignInv, NEW c \in Calls, CallMove(c), NEW k \in Calls \ {c},
         \A b \in Accounts : rows[b] # Sign!None => rows'[b] = rows[b],
         Stored(k) /\ fresh[k] => store'[k] = store[k]
  PROVE  ReferenceOf(k)'
<1>1. ReferenceOf(k) /\ SignTyped BY DEF SignInv, References
<1>2. /\ ref'[k] = ref[k] /\ fresh'[k] = fresh[k] /\ prior'[k] = prior[k] /\ account' = account
      /\ result'[k] = result[k]
  BY CallMoves
<1>3. (Storing(k)' <=> Storing(k)) /\ (Stored(k)' <=> Stored(k)) BY OthersStore
<1>4. ref[k] # Sign!None => account[k] \in Accounts BY <1>1 DEF ReferenceOf, SignTyped
<1> QED BY <1>1, <1>2, <1>3, <1>4 DEF ReferenceOf

\* The rows that stay keep to the calls that made them.
LEMMA RowsStay ==
  ASSUME SignHypotheses, SignInv, NEW c \in Calls, CallMove(c), rows' = rows, ReferenceOf(c)',
         \A k \in Calls \ {c} : ReferenceOf(k)'
  PROVE  References'
<1>1. account' = account BY CallMoves
<1>2. \A k \in Calls \ {c} : result'[k] = result[k] BY CallMoves
<1>3. result[c] = Sign!None
  <2>1. pc[c] # 0 BY CallMoves
  <2> QED BY <2>1 DEF SignInv, CallPositions, Running
<1>4. \A a \in Accounts : rows[a] \in Calls => result[rows[a]] = "connected" /\ account[rows[a]] = a
  BY DEF SignInv, References
<1>5. \A a \in Accounts : rows[a] \in Calls => rows[a] # c BY <1>3, <1>4 DEF Sign!None
<1>6. \A a \in Accounts : rows'[a] \in Calls => result'[rows'[a]] = "connected" /\ account'[rows'[a]] = a
  BY <1>1, <1>2, <1>4, <1>5
<1>7. \A a, b \in Accounts : rows'[a] = Sign!Old /\ rows'[b] = Sign!Old => a = b BY DEF SignInv, References
<1> QED BY <1>6, <1>7 DEF References

CredentialsKept == References /\ Sign!RowHasItsCredential /\ Unexcused

LEMMA QuietReferences == ASSUME SignHypotheses, SignInv, NEW c \in Calls, QuietStep(c) PROVE CredentialsKept'
<1>1. /\ pc[c] # 0 /\ TagOf(c) \in {"check", "wait", "poll", "lock", "pair", "active", "test", "same"}
      /\ Sign!Go(c) \/ Sign!Again(c) \/ Sign!End(c, "failed")
      /\ UNCHANGED <<provider, account, ref, fresh, prior, store, rows, pardoned>>
  BY QuietSteps
<1>2. CallMove(c) BY DEF CallMove
<1>3. \A k \in Calls \ {c} : result'[k] = result[k] BY <1>2, CallMoves
<1>4. result[c] = Sign!None BY <1>1 DEF SignInv, CallPositions, Running
<1>5. ~Storing(c) /\ ~Stored(c) BY <1>1 DEF Storing, Stored, Sign!At, TagOf
<1>6. ~Storing(c)' /\ ~Stored(c)'
  <2>1. CASE Sign!Go(c) /\ TagOf(c) # "upsert"
    <3>1. TagOf(c)' \notin {"put", "kept", "upsert"} BY <1>1, <2>1, NextTag
    <3> QED BY <3>1 DEF Storing, Stored, Sign!At, TagOf
  <2>2. CASE Sign!Again(c) \/ Sign!End(c, "failed")
    <3>1. pc'[c] = 0 BY <2>2, StepEnds DEF SignInv
    <3> QED BY <3>1 DEF Storing, Stored, Sign!At
  <2> QED BY <1>1, <2>1, <2>2
<1>7. \A k \in Calls : (Storing(k)' <=> Storing(k)) /\ (Stored(k)' <=> Stored(k))
  BY <1>2, <1>5, <1>6, OthersStore
<1>8. \A k \in Calls : /\ result[k] = "connected" => result'[k] = "connected"
                       /\ result[k] # Sign!None => result'[k] # Sign!None
  BY <1>3, <1>4 DEF Sign!None
<1> QED BY <1>1, <1>7, <1>8, SameReferences DEF CredentialsKept

LEMMA LookReferences == ASSUME SignHypotheses, SignInv, NEW c \in Calls, Sign!Look(c) PROVE CredentialsKept'
<1>0. SignTyped /\ References /\ Sign!RowHasItsCredential /\ Unexcused /\ CallMove(c) BY DEF SignInv, CallMove
<1> DEFINE r == rows[account[c]]
<1>1. pc[c] # 0 /\ TagOf(c) = "look" /\ Sign!Go(c) BY DEF Sign!Look, Sign!At, TagOf
<1>2. account[c] \in Accounts /\ result[c] = Sign!None BY <1>0, <1>1 DEF SignInv, CallPositions, Running,
     SignTyped
<1>3. UNCHANGED <<provider, account, store, rows>> BY DEF Sign!Look, Sign!chosen
<1>4. r \in Sign!Refs \cup {Sign!None} BY <1>0, <1>2 DEF SignTyped
<1>5. /\ ref'[c] = IF r = Sign!None THEN c ELSE r
      /\ fresh'[c] = (r = Sign!None)
      /\ prior'[c] = Sign!None \/ (r # Sign!None /\ prior'[c] = store[r])
  BY <1>0 DEF Sign!Look, SignTyped
<1>6. TagOf(c)' = "put" /\ pc'[c] # 0 BY <1>1, <1>3, NextTag
<1>7. Storing(c)' /\ ~Stored(c)' /\ ~Stored(c) BY <1>1, <1>6 DEF Storing, Stored, Sign!At, TagOf
<1>8. r # Sign!None => (store[r] \in Calls => account[store[r]] = account[c])
  BY <1>0, <1>2 DEF Sign!RowHasItsCredential
<1>9. Sign!None \notin Calls BY DEF SignHypotheses
<1>10. ReferenceOf(c)'
  BY <1>2, <1>3, <1>4, <1>5, <1>7, <1>8, <1>9 DEF ReferenceOf, SignHypotheses
<1>11. References'
  <2>1. \A k \in Calls \ {c} : ReferenceOf(k)' BY <1>0, <1>3, OtherReferences
  <2> QED BY <1>0, <1>3, <1>10, <2>1, RowsStay
<1>12. Sign!RowHasItsCredential' BY <1>0, <1>3 DEF Sign!RowHasItsCredential
<1>13. ASSUME ~pardoned' PROVE Unexcused'
  <2>1. ~pardoned /\ \A k \in Calls \ {c} : ref[k] # Sign!None => account[k] # account[c]
    BY <1>0, <1>13 DEF Sign!Look, SignTyped
  <2>2. \A k \in Calls \ {c} : ref'[k] = ref[k] /\ fresh'[k] = fresh[k] BY <1>0, CallMoves
  <2>3. \A k \in Calls \ {c} : (Storing(k)' <=> Storing(k)) /\ (Stored(k)' <=> Stored(k)) BY <1>0, OthersStore
  <2>4. \A k \in Calls : ref'[k] # Sign!None => Storing(k)' BY <1>0, <1>7, <2>1, <2>2, <2>3 DEF Unexcused
  <2>5. \A k, l \in Calls : ref'[k] # Sign!None /\ ref'[l] # Sign!None /\ k # l => account'[k] # account'[l]
    <3>1. \A k, l \in Calls : ref[k] # Sign!None /\ ref[l] # Sign!None /\ k # l => account[k] # account[l]
      BY <1>0, <2>1 DEF Unexcused
    <3> QED BY <1>3, <2>1, <2>2, <3>1
  <2>6. \A k \in Calls : fresh'[k] => rows'[account'[k]] = Sign!None
    BY <1>0, <1>3, <1>5, <2>1, <2>2 DEF Unexcused
  <2>7. \A q \in Sign!Refs : store'[q] # Sign!None =>
          (\E a \in Accounts : rows'[a] = q) \/ (q \in Calls /\ fresh'[q] /\ Stored(q)')
    BY <1>0, <1>3, <1>7, <2>1, <2>2, <2>3 DEF Unexcused
  <2> QED BY <2>4, <2>5, <2>6, <2>7 DEF Unexcused
<1>14. Unexcused' BY <1>13 DEF Unexcused
<1> QED BY <1>11, <1>12, <1>14 DEF CredentialsKept

LEMMA DrawReferences == ASSUME SignHypotheses, SignInv, NEW c \in Calls, Sign!Draw(c) PROVE CredentialsKept'
<1>0. SignTyped /\ References /\ Sign!RowHasItsCredential /\ Unexcused /\ CallMove(c) BY DEF SignInv, CallMove
<1>1. pc[c] # 0 /\ TagOf(c) = "draw" /\ Sign!Go(c) BY DEF Sign!Draw, Sign!At, TagOf
<1>2. account[c] \in Accounts /\ result[c] = Sign!None BY <1>0, <1>1 DEF SignInv, CallPositions, Running,
     SignTyped
<1>3. UNCHANGED <<provider, account, store, rows, pardoned>> BY DEF Sign!Draw, Sign!chosen, Sign!saved
<1>4. ref[c] = Sign!None /\ prior[c] = Sign!None
  <2>1. ~Storing(c) BY <1>1 DEF Storing, Sign!At, TagOf
  <2>2. ReferenceOf(c) BY <1>0 DEF References
  <2> QED BY <1>2, <2>1, <2>2 DEF ReferenceOf
<1>5. ref'[c] = c /\ fresh'[c] = TRUE /\ prior'[c] = Sign!None
  BY <1>0, <1>4 DEF Sign!Draw, SignTyped
<1>6. TagOf(c)' = "put" /\ pc'[c] # 0 BY <1>1, <1>3, NextTag
<1>7. Storing(c)' /\ ~Stored(c)' /\ ~Stored(c) BY <1>1, <1>6 DEF Storing, Stored, Sign!At, TagOf
<1>8. Sign!None \notin Calls BY DEF SignHypotheses
<1>9. provider = "telegram" /\ pc[c] > 1
  <2>1. Ordered(provider, Sign!Script(provider)) /\ pc[c] \in 1 .. Len(Sign!Script(provider))
    BY <1>1, StandingInScript DEF SignInv
  <2>2. provider = "telegram" BY <1>1, <2>1 DEF Ordered, TagOf
  <2>3. pc[c] > 5 BY <1>1, <2>1, <2>2 DEF Ordered, TagOf
  <2>4. pc[c] \in 0 .. 10 BY <1>0 DEF SignTyped
  <2> QED BY <2>2, <2>3, <2>4
<1>10. ReferenceOf(c)' BY <1>2, <1>3, <1>5, <1>7, <1>8 DEF ReferenceOf, SignHypotheses
<1>11. References'
  <2>1. \A k \in Calls \ {c} : ReferenceOf(k)' BY <1>0, <1>3, OtherReferences
  <2> QED BY <1>0, <1>3, <1>10, <2>1, RowsStay
<1>12. Sign!RowHasItsCredential' BY <1>0, <1>3 DEF Sign!RowHasItsCredential
<1>13. ASSUME ~pardoned' PROVE Unexcused'
  <2>0. ~pardoned BY <1>3, <1>13
  <2>1. /\ \A a \in Accounts : rows[a] = Sign!None
        /\ \A k \in Calls \ {c} : pc[k] <= 1
    <3>1. TelegramPairsOne BY DEF SignInv
    <3>2. \A k \in Calls : pc[k] \in 0 .. 10 BY <1>0 DEF SignTyped
    <3> QED BY <1>9, <3>1, <3>2 DEF TelegramPairsOne
  <2>2. \A k \in Calls \ {c} : ref[k] = Sign!None
    <3>1. ASSUME NEW k \in Calls \ {c}, Storing(k) PROVE FALSE
      <4>1. pc[k] = 1 /\ TagOf(k) \in {"put", "kept", "upsert"}
        BY <1>0, <2>1, <3>1 DEF Storing, Sign!At, TagOf, SignTyped
      <4>2. Ordered(provider, Sign!Script(provider)) BY <4>1, StandingInScript DEF SignInv
      <4> QED BY <4>1, <4>2 DEF Ordered, TagOf
    <3> QED BY <1>0, <2>0, <3>1 DEF Unexcused
  <2>3. \A k \in Calls \ {c} : ref'[k] = ref[k] /\ fresh'[k] = fresh[k] BY <1>0, CallMoves
  <2>4. \A k \in Calls \ {c} : (Storing(k)' <=> Storing(k)) /\ (Stored(k)' <=> Stored(k)) BY <1>0, OthersStore
  <2>5. \A k \in Calls : fresh'[k] => rows'[account'[k]] = Sign!None
    BY <1>0, <1>2, <1>3, <2>0, <2>1, <2>3 DEF Unexcused
  <2>6. \A q \in Sign!Refs : store'[q] # Sign!None =>
          (\E a \in Accounts : rows'[a] = q) \/ (q \in Calls /\ fresh'[q] /\ Stored(q)')
    BY <1>0, <1>3, <1>7, <2>0, <2>3, <2>4 DEF Unexcused
  <2> QED BY <1>7, <2>2, <2>3, <2>5, <2>6 DEF Unexcused
<1>14. Unexcused' BY <1>13 DEF Unexcused
<1> QED BY <1>11, <1>12, <1>14 DEF CredentialsKept

\* A step after which the store holds, under the call's reference, what it should.
LEMMA StoreReferences ==
  ASSUME SignHypotheses, SignInv, NEW c \in Calls, CallMove(c), Storing(c), rows' = rows, ReferenceOf(c)',
         NEW v, store' = [store EXCEPT ![ref[c]] = v] \/ store' = store,
         store' # store /\ ~fresh[c] => v # Sign!None /\ (v \in Calls => account[v] = account[c])
  PROVE  References' /\ Sign!RowHasItsCredential'
<1>0. SignTyped /\ Sign!RowHasItsCredential BY DEF SignInv
<1>1. /\ ref[c] \in Sign!Refs /\ \A b \in Accounts : rows[b] = ref[c] => ~fresh[c] /\ b = account[c]
      /\ \A k \in Calls \ {c} : Stored(k) /\ fresh[k] => ref[c] # k
  BY Holding
<1>2. account' = account BY CallMoves
<1>3. \A q \in Sign!Refs : q # ref[c] => store'[q] = store[q] BY <1>0 DEF SignTyped
<1>4. store'[ref[c]] = store[ref[c]] \/ (store'[ref[c]] = v /\ store' # store) BY <1>0, <1>1 DEF SignTyped
<1>5. \A k \in Calls \ {c} : ReferenceOf(k)'
  <2>1. \A k \in Calls \ {c} : Stored(k) /\ fresh[k] => store'[k] = store[k]
    BY <1>1, <1>3 DEF Sign!Refs
  <2> QED BY <2>1, OtherReferences
<1>6. References' BY <1>5, RowsStay
<1>7. ASSUME NEW b \in Accounts, rows[b] # Sign!None
      PROVE store'[rows[b]] # Sign!None /\ (store'[rows[b]] \in Calls => account[store'[rows[b]]] = b)
  <2>1. rows[b] \in Sign!Refs BY <1>0, <1>7 DEF SignTyped
  <2>2. store[rows[b]] # Sign!None /\ (store[rows[b]] \in Calls => account[store[rows[b]]] = b)
    BY <1>0, <1>7 DEF Sign!RowHasItsCredential
  <2>3. CASE rows[b] = ref[c]
    <3>1. ~fresh[c] /\ b = account[c] BY <1>1, <2>3
    <3> QED BY <1>4, <2>2, <2>3, <3>1
  <2>4. CASE rows[b] # ref[c] BY <1>3, <2>1, <2>2, <2>4
  <2> QED BY <2>3, <2>4
<1>8. Sign!RowHasItsCredential' BY <1>2, <1>7 DEF Sign!RowHasItsCredential
<1> QED BY <1>6, <1>8

\* A call that lets go leaves nothing behind that has no row.
LEMMA LeavesNothing ==
  ASSUME SignHypotheses, SignInv, NEW c \in Calls, CallMove(c), Storing(c), ref'[c] = Sign!None, fresh'[c] = FALSE,
         \A a \in Accounts : rows'[a] = rows[a] \/ (rows[a] = Sign!None /\ a = account[c]),
         pardoned' = pardoned,
         \A q \in Sign!Refs : store'[q] # Sign!None =>
            \/ \E a \in Accounts : rows'[a] = q
            \/ q \in Calls /\ q # c /\ fresh[q] /\ Stored(q)
  PROVE  Unexcused'
<1>0. SignTyped /\ Unexcused BY DEF SignInv
<1>1. account' = account /\ \A k \in Calls \ {c} : ref'[k] = ref[k] /\ fresh'[k] = fresh[k] BY CallMoves
<1>2. \A k \in Calls \ {c} : (Storing(k)' <=> Storing(k)) /\ (Stored(k)' <=> Stored(k)) BY OthersStore
<1>3. CASE pardoned' BY <1>3 DEF Unexcused
<1>4. CASE ~pardoned'
  <2>0. ~pardoned BY <1>4
  <2>1. \A k \in Calls : ref'[k] # Sign!None => Storing(k)' BY <1>0, <1>1, <1>2, <2>0 DEF Unexcused
  <2>2. \A k, l \in Calls : ref'[k] # Sign!None /\ ref'[l] # Sign!None /\ k # l => account'[k] # account'[l]
    <3>1. \A k, l \in Calls : ref[k] # Sign!None /\ ref[l] # Sign!None /\ k # l => account[k] # account[l]
      BY <1>0, <2>0 DEF Unexcused
    <3> QED BY <1>1, <3>1
  <2>3. ASSUME NEW k \in Calls, fresh'[k] PROVE rows'[account'[k]] = Sign!None
    <3>1. k # c /\ fresh[k] BY <1>1, <2>3
    <3>2. ref[k] # Sign!None /\ account[k] \in Accounts
      <4>1. ReferenceOf(k) BY DEF SignInv, References
      <4>2. k # Sign!None BY DEF SignHypotheses
      <4> QED BY <1>0, <3>1, <4>1, <4>2 DEF ReferenceOf, SignTyped
    <3>3. ref[c] # Sign!None BY Holding
    <3>4. account[k] # account[c] BY <1>0, <2>0, <3>1, <3>2, <3>3 DEF Unexcused
    <3>5. rows[account[k]] = Sign!None BY <1>0, <2>0, <3>1 DEF Unexcused
    <3> QED BY <1>1, <3>2, <3>4, <3>5
  <2>4. \A q \in Sign!Refs : store'[q] # Sign!None =>
          (\E a \in Accounts : rows'[a] = q) \/ (q \in Calls /\ fresh'[q] /\ Stored(q)')
    BY <1>1, <1>2
  <2> QED BY <2>1, <2>2, <2>3, <2>4 DEF Unexcused
<1> QED BY <1>3, <1>4

LEMMA PutReferences == ASSUME SignHypotheses, SignInv, NEW c \in Calls, Sign!Put(c) PROVE CredentialsKept'
<1>0. SignTyped /\ References /\ Sign!RowHasItsCredential /\ Unexcused /\ CallMove(c) BY DEF SignInv, CallMove
<1>1. pc[c] # 0 /\ TagOf(c) = "put" /\ Storing(c) /\ ~Stored(c) BY DEF Sign!Put, Sign!At, TagOf, Storing, Stored
<1>2. /\ ref[c] # Sign!None /\ ref[c] \in Sign!Refs /\ account[c] \in Accounts /\ result[c] = Sign!None
      /\ \A b \in Accounts : rows[b] = ref[c] => ~fresh[c] /\ b = account[c]
      /\ fresh[c] => ref[c] = c /\ prior[c] = Sign!None
      /\ ~fresh[c] => rows[account[c]] = ref[c]
  BY <1>0, <1>1, Holding
<1>3. UNCHANGED <<provider, account, rows, pardoned>> BY DEF Sign!Put, Sign!chosen
<1>4. Sign!None \notin Calls BY DEF SignHypotheses
<1>5. \A k \in Calls \ {c} : (Storing(k)' <=> Storing(k)) /\ (Stored(k)' <=> Stored(k)) BY <1>0, OthersStore
<1>6. CASE Sign!Go(c) /\ store' = [store EXCEPT ![ref[c]] = c] /\ UNCHANGED <<ref, fresh, prior, troubles>>
  <2>1. TagOf(c)' \in {"kept", "upsert"} /\ pc'[c] # 0 BY <1>1, <1>3, <1>6, NextTag
  <2>2. Storing(c)' /\ Stored(c)' BY <2>1 DEF Storing, Stored, Sign!At, TagOf
  <2>3. ReferenceOf(c) BY <1>0 DEF References
  <2>4. store'[ref[c]] = c /\ \A q \in Sign!Refs : q # ref[c] => store'[q] = store[q]
    BY <1>0, <1>2, <1>6 DEF SignTyped
  <2>5. ReferenceOf(c)' BY <1>2, <1>3, <1>6, <2>2, <2>3, <2>4 DEF ReferenceOf
  <2>6. References' /\ Sign!RowHasItsCredential' BY <1>0, <1>1, <1>3, <1>4, <1>6, <2>5, StoreReferences
  <2>7. ASSUME ~pardoned' PROVE Unexcused'
    <3>1. \A q \in Sign!Refs : store'[q] # Sign!None =>
            (\E a \in Accounts : rows'[a] = q) \/ (q \in Calls /\ fresh'[q] /\ Stored(q)')
      BY <1>0, <1>2, <1>3, <1>5, <1>6, <2>2, <2>4, <2>7 DEF Unexcused
    <3> QED BY <1>0, <1>3, <1>5, <1>6, <2>2, <2>7, <3>1 DEF Unexcused
  <2> QED BY <2>6, <2>7 DEF Unexcused, CredentialsKept
<1>7. CASE Sign!Failed(c) /\ UNCHANGED store
  <2>1. Sign!Forget(c) /\ (Sign!Again(c) \/ Sign!End(c, "failed")) BY <1>7 DEF Sign!Failed
  <2>2. ref'[c] = Sign!None /\ fresh'[c] = FALSE /\ ReferenceOf(c)' BY <1>0, <2>1, LetGo
  <2>3. References' /\ Sign!RowHasItsCredential' BY <1>0, <1>1, <1>3, <1>7, <2>2, StoreReferences
  <2>4. CASE ~pardoned
    <3>1. \A q \in Sign!Refs : store'[q] # Sign!None =>
            (\E a \in Accounts : rows'[a] = q) \/ (q \in Calls /\ q # c /\ fresh[q] /\ Stored(q))
      BY <1>0, <1>1, <1>3, <1>7, <2>4 DEF Unexcused
    <3>2. Unexcused' BY <1>0, <1>1, <1>3, <2>2, <3>1, LeavesNothing
    <3> QED BY <2>3, <3>2 DEF CredentialsKept
  <2>5. CASE pardoned BY <1>3, <2>3, <2>5 DEF CredentialsKept, Unexcused
  <2> QED BY <2>4, <2>5
<1> QED BY <1>6, <1>7 DEF Sign!Put

LEMMA KeptReferences == ASSUME SignHypotheses, SignInv, NEW c \in Calls, Sign!Kept(c) PROVE CredentialsKept'
<1>0. SignTyped /\ References /\ Sign!RowHasItsCredential /\ Unexcused /\ CallMove(c) BY DEF SignInv, CallMove
<1>1. pc[c] # 0 /\ TagOf(c) = "kept" /\ Storing(c) /\ Stored(c) BY DEF Sign!Kept, Sign!At, TagOf, Storing,
     Stored
<1>2. /\ ref[c] # Sign!None /\ ref[c] \in Sign!Refs /\ account[c] \in Accounts /\ result[c] = Sign!None
      /\ \A b \in Accounts : rows[b] = ref[c] => ~fresh[c] /\ b = account[c]
      /\ fresh[c] => ref[c] = c /\ prior[c] = Sign!None
  BY <1>0, <1>1, Holding
<1>3. UNCHANGED <<provider, account, rows>> BY DEF Sign!Kept, Sign!chosen
<1>4. fresh[c]
  <2>1. Ordered(provider, Sign!Script(provider)) /\ pc[c] \in 1 .. Len(Sign!Script(provider))
    BY <1>1, StandingInScript DEF SignInv
  <2>2. provider = "telegram" BY <1>1, <2>1 DEF Ordered, TagOf
  <2> QED BY <1>2, <2>2 DEF SignInv, TelegramPairsOne
<1>5. CASE Sign!Active(c)
  <2>1. Sign!Go(c) /\ UNCHANGED <<ref, fresh, prior, store, pardoned, troubles>> BY <1>5 DEF Sign!Kept
  <2>2. TagOf(c)' = "upsert" /\ pc'[c] # 0 BY <1>1, <1>3, <2>1, NextTag
  <2>3. Storing(c)' /\ Stored(c)' BY <2>2 DEF Storing, Stored, Sign!At, TagOf
  <2>4. \A k \in Calls : (Storing(k)' <=> Storing(k)) /\ (Stored(k)' <=> Stored(k))
    BY <1>0, <1>1, <2>3, OthersStore
  <2>5. \A k \in Calls : result'[k] = result[k]
    <3>1. \A k \in Calls \ {c} : result'[k] = result[k] BY <1>0, CallMoves
    <3>2. result'[c] = result[c] BY <1>0, <2>1, StepEnds
    <3> QED BY <3>1, <3>2
  <2> QED BY <1>3, <2>1, <2>4, <2>5, SameReferences DEF CredentialsKept
<1>6. CASE ~Sign!Active(c)
  <2>1. /\ Sign!End(c, "failed") /\ Sign!Forget(c)
        /\ \/ store' = [store EXCEPT ![ref[c]] = Sign!None] /\ pardoned' = pardoned
           \/ pardoned' = TRUE /\ store' = store
    BY <1>6 DEF Sign!Kept
  <2>2. ref'[c] = Sign!None /\ fresh'[c] = FALSE /\ ReferenceOf(c)' BY <1>0, <2>1, LetGo
  <2>3. References' /\ Sign!RowHasItsCredential' BY <1>0, <1>1, <1>3, <1>4, <2>1, <2>2, StoreReferences
  <2>4. CASE ~pardoned'
    <3>1. store' = [store EXCEPT ![ref[c]] = Sign!None] /\ pardoned' = pardoned /\ ref[c] = c
      BY <1>2, <1>4, <2>1, <2>4
    <3>2. \A q \in Sign!Refs : store'[q] # Sign!None => q # c /\ store[q] # Sign!None
      BY <1>0, <1>2, <3>1 DEF SignTyped
    <3>3. \A q \in Sign!Refs : store'[q] # Sign!None =>
            (\E a \in Accounts : rows'[a] = q) \/ (q \in Calls /\ q # c /\ fresh[q] /\ Stored(q))
      BY <1>0, <1>3, <2>4, <3>1, <3>2 DEF Unexcused
    <3>4. Unexcused' BY <1>0, <1>1, <1>3, <2>2, <3>1, <3>3, LeavesNothing
    <3> QED BY <2>3, <3>4 DEF CredentialsKept
  <2>5. CASE pardoned' BY <2>3, <2>5 DEF CredentialsKept, Unexcused
  <2> QED BY <2>4, <2>5
<1> QED BY <1>5, <1>6

LEMMA UpsertFailsReferences ==
  ASSUME SignHypotheses, SignInv, NEW c \in Calls, Sign!UpsertFails(c)
  PROVE  CredentialsKept'
<1>0. SignTyped /\ References /\ Sign!RowHasItsCredential /\ Unexcused /\ CallMove(c) BY DEF SignInv, CallMove
<1>1. pc[c] # 0 /\ Storing(c) /\ Stored(c) BY DEF Sign!UpsertFails, Sign!At, Storing, Stored
<1>2. /\ ref[c] # Sign!None /\ ref[c] \in Sign!Refs /\ account[c] \in Accounts /\ result[c] = Sign!None
      /\ fresh[c] => ref[c] = c /\ prior[c] = Sign!None
      /\ ~fresh[c] => rows[account[c]] = ref[c]
      /\ prior[c] \in Sign!Refs \cup {Sign!None} /\ (prior[c] \in Calls => account[prior[c]] = account[c])
  BY <1>0, <1>1, Holding
<1>3. UNCHANGED <<provider, account, rows>> BY DEF Sign!UpsertFails, Sign!chosen
<1>4. Sign!Forget(c) /\ (Sign!Again(c) \/ Sign!End(c, "failed")) BY DEF Sign!UpsertFails, Sign!Failed
<1>5. ref'[c] = Sign!None /\ fresh'[c] = FALSE /\ ReferenceOf(c)' BY <1>0, <1>4, LetGo
<1>6. \/ (fresh[c] \/ prior[c] # Sign!None) /\ store' = [store EXCEPT ![ref[c]] = prior[c]] /\ pardoned' = pardoned
      \/ pardoned' = TRUE /\ store' = store
      \/ ~fresh[c] /\ store' = store /\ pardoned' = pardoned
  BY DEF Sign!UpsertFails
<1>7. References' /\ Sign!RowHasItsCredential'
  <2>1. store' = [store EXCEPT ![ref[c]] = prior[c]] \/ store' = store BY <1>6
  <2>2. store' # store /\ ~fresh[c] => prior[c] # Sign!None BY <1>6
  <2> QED BY <1>0, <1>1, <1>2, <1>3, <1>5, <2>1, <2>2, StoreReferences
<1>8. CASE ~pardoned'
  <2>1. pardoned' = pardoned BY <1>6, <1>8
  <2>2. \A q \in Sign!Refs : store'[q] # Sign!None => \/ store[q] # Sign!None /\ (fresh[c] => q # c)
                                            \/ rows[account[c]] = q
    BY <1>0, <1>2, <1>6, <1>8 DEF SignTyped
  <2>3. \A q \in Sign!Refs : store'[q] # Sign!None =>
          (\E a \in Accounts : rows'[a] = q) \/ (q \in Calls /\ q # c /\ fresh[q] /\ Stored(q))
    BY <1>0, <1>2, <1>3, <1>8, <2>1, <2>2 DEF Unexcused
  <2>4. Unexcused' BY <1>0, <1>1, <1>3, <1>5, <2>1, <2>3, LeavesNothing
  <2> QED BY <1>7, <2>4 DEF CredentialsKept
<1>9. CASE pardoned' BY <1>7, <1>9 DEF CredentialsKept, Unexcused
<1> QED BY <1>8, <1>9

LEMMA UpsertReferences ==
  ASSUME SignHypotheses, SignInv, NEW c \in Calls, Sign!UpsertStep(c)
  PROVE  CredentialsKept'
<1>0. SignTyped /\ References /\ Sign!RowHasItsCredential /\ Unexcused /\ CallMove(c) BY DEF SignInv, CallMove
<1>1. pc[c] # 0 /\ Storing(c) /\ Stored(c) BY DEF Sign!UpsertStep, Sign!At, Storing, Stored
<1>2. /\ ref[c] # Sign!None /\ ref[c] \in Sign!Refs /\ account[c] \in Accounts /\ result[c] = Sign!None
      /\ fresh[c] => ref[c] = c
      /\ ~fresh[c] => rows[account[c]] = ref[c]
  BY <1>0, <1>1, Holding
<1>3. UNCHANGED <<provider, account, store, pardoned>> /\ Sign!Forget(c) /\ Sign!End(c, "connected")
  BY DEF Sign!UpsertStep, Sign!chosen
<1>4. ref'[c] = Sign!None /\ fresh'[c] = FALSE /\ ReferenceOf(c)' BY <1>0, <1>3, LetGo
<1>5. /\ result'[c] = "connected" /\ \A k \in Calls \ {c} : result'[k] = result[k]
  BY <1>0, <1>3, StepEnds
<1>6. /\ rows'[account[c]] = IF rows[account[c]] = Sign!None THEN ref[c] ELSE rows[account[c]]
      /\ \A b \in Accounts : b # account[c] => rows'[b] = rows[b]
  BY <1>0, <1>2 DEF Sign!UpsertStep, SignTyped
<1>7. rows[account[c]] = Sign!None => fresh[c] /\ ref[c] = c /\ store[c] = c
  <2>1. ReferenceOf(c) BY <1>0 DEF References
  <2> QED BY <1>1, <1>2, <2>1 DEF ReferenceOf
<1>8. \A b \in Accounts : rows[b] # Sign!None => rows'[b] = rows[b] BY <1>6
<1>9. \A b \in Accounts : rows'[b] = rows[b] \/ (rows[b] = Sign!None /\ b = account[c] /\ rows'[b] = c)
  BY <1>6, <1>7
<1>10. Sign!Old \notin Calls /\ Sign!None \notin Calls BY DEF SignHypotheses
<1>11. References'
  <2>1. \A k \in Calls \ {c} : ReferenceOf(k)' BY <1>0, <1>3, <1>8, OtherReferences
  <2>2. \A a \in Accounts : rows[a] \in Calls => result[rows[a]] = "connected" /\ account[rows[a]] = a
    BY <1>0 DEF References
  <2>3. \A a \in Accounts : rows'[a] \in Calls => result'[rows'[a]] = "connected" /\ account'[rows'[a]] = a
    BY <1>2, <1>3, <1>5, <1>9, <2>2 DEF Sign!None
  <2>4. \A a, b \in Accounts : rows'[a] = Sign!Old /\ rows'[b] = Sign!Old => a = b
    BY <1>0, <1>9, <1>10 DEF References
  <2> QED BY <1>4, <2>1, <2>3, <2>4 DEF References
<1>12. Sign!RowHasItsCredential'
  BY <1>0, <1>3, <1>7, <1>9, <1>10 DEF Sign!RowHasItsCredential
<1>13. CASE ~pardoned
  <2>1. \A q \in Sign!Refs : store'[q] # Sign!None =>
          (\E a \in Accounts : rows'[a] = q) \/ (q \in Calls /\ q # c /\ fresh[q] /\ Stored(q))
    <3>1. ASSUME NEW q \in Sign!Refs, store[q] # Sign!None
          PROVE (\E a \in Accounts : rows'[a] = q) \/ (q \in Calls /\ q # c /\ fresh[q] /\ Stored(q))
      <4>1. (\E a \in Accounts : rows[a] = q) \/ (q \in Calls /\ fresh[q] /\ Stored(q))
        BY <1>0, <1>13, <3>1 DEF Unexcused
      <4>2. CASE \E a \in Accounts : rows[a] = q
        <5>1. q # Sign!None BY <1>10, <3>1 DEF Sign!Refs, Sign!Old, Sign!None
        <5> QED BY <1>8, <4>2, <5>1
      <4>3. CASE q = c /\ fresh[c]
        <5>1. rows[account[c]] = Sign!None BY <1>0, <1>13, <4>3 DEF Unexcused
        <5> QED BY <1>2, <1>6, <4>3, <5>1
      <4> QED BY <4>1, <4>2, <4>3
    <3> QED BY <1>3, <3>1
  <2>2. Unexcused' BY <1>0, <1>1, <1>3, <1>4, <1>9, <2>1, LeavesNothing
  <2> QED BY <1>11, <1>12, <2>2 DEF CredentialsKept
<1>14. CASE pardoned BY <1>3, <1>11, <1>12, <1>14 DEF CredentialsKept, Unexcused
<1> QED BY <1>13, <1>14

\* A call begins at the first step of its script, which stores nothing.
LEMMA BeginsIdle ==
  ASSUME SignHypotheses, SignTyped, provider # Sign!None, provider' = provider, NEW c \in Calls, pc[c] = 0,
         pc' = pc \/ pc' = [pc EXCEPT ![c] = 1]
  PROVE  \A k \in Calls : (Storing(k)' <=> Storing(k)) /\ (Stored(k)' <=> Stored(k))
<1>1. CASE pc' = pc BY <1>1 DEF Storing, Stored, Sign!At
<1>2. CASE pc' = [pc EXCEPT ![c] = 1]
  <2>1. pc'[c] = 1 /\ \A k \in Calls \ {c} : pc'[k] = pc[k] BY <1>2 DEF SignTyped
  <2>2. provider \in NineProviders BY DEF SignTyped, SignHypotheses
  <2>3. Sign!Script(provider)[1][1] \notin {"put", "kept", "upsert"} BY <2>2, ScriptsOrdered DEF Ordered
  <2>4. ~Storing(c) /\ ~Stored(c) BY DEF Storing, Stored, Sign!At
  <2>5. ~Storing(c)' /\ ~Stored(c)' BY <2>1, <2>3 DEF Storing, Stored, Sign!At
  <2> QED BY <2>1, <2>4, <2>5 DEF Storing, Stored, Sign!At
<1> QED BY <1>1, <1>2

LEMMA ChooseReferences ==
  ASSUME SignHypotheses, SignInv, NEW p \in Providers, NEW b \in Accounts, Sign!Choose(p, b) PROVE CredentialsKept'
<1>0. SignTyped /\ References /\ Unchosen BY DEF SignInv
<1>1. provider = Sign!None /\ UNCHANGED <<account, pc, result, ref, fresh, prior, pardoned>>
  BY DEF Sign!Choose, Sign!locals
<1>2. Sign!None \notin Calls /\ Sign!Old \notin Calls /\ Sign!None \notin Accounts BY DEF SignHypotheses
<1>3. /\ \A c \in Calls : pc[c] = 0 /\ ref[c] = Sign!None /\ prior[c] = Sign!None /\ ~fresh[c]
      /\ \A r \in Sign!Refs : store[r] = Sign!None
      /\ \A a \in Accounts : rows[a] = Sign!None
  BY <1>0, <1>1 DEF Unchosen, References, ReferenceOf
<1>4. \A c \in Calls : ~Storing(c)' /\ ~Stored(c)' BY <1>1, <1>3 DEF Storing, Stored, Sign!At
<1>5. \A c \in Calls : ReferenceOf(c)' BY <1>1, <1>2, <1>3, <1>4 DEF ReferenceOf
<1>6. \/ rows' = rows /\ store' = store
      \/ /\ \A a \in Accounts : rows'[a] = IF a = b THEN Sign!Old ELSE Sign!None
         /\ \A r \in Sign!Refs : store'[r] = IF r = Sign!Old THEN Sign!Old ELSE Sign!None
  BY <1>0, <1>3 DEF Sign!Choose, SignTyped
<1>7. Sign!Old \in Sign!Refs /\ Sign!None # Sign!Old BY DEF Sign!Refs, Sign!None, Sign!Old
<1>8. References' BY <1>2, <1>3, <1>5, <1>6, <1>7 DEF References
<1>9. Sign!RowHasItsCredential' BY <1>2, <1>3, <1>6, <1>7 DEF Sign!RowHasItsCredential
<1>10. Unexcused' BY <1>1, <1>3, <1>6, <1>7 DEF Unexcused
<1> QED BY <1>8, <1>9, <1>10 DEF CredentialsKept

LEMMA CredentialsKeptStep == ASSUME SignHypotheses, SignInv, [Sign!Next]_(Sign!vars) PROVE CredentialsKept'
<1>0. SignTyped /\ Unchosen /\ CallPositions BY DEF SignInv
<1>2. ASSUME NEW c \in Calls, BeginStep(c) PROVE CredentialsKept'
  <2>1. /\ provider # Sign!None /\ pc[c] = 0 /\ account[c] = Sign!None
        /\ \E a \in Accounts : account' = [account EXCEPT ![c] = a]
        /\ pc' = pc \/ pc' = [pc EXCEPT ![c] = 1]
        /\ UNCHANGED <<provider, result, ref, fresh, prior, store, rows, pardoned>>
    BY <1>0, <1>2, BeginSteps
  <2>2. \A k \in Calls : (Storing(k)' <=> Storing(k)) /\ (Stored(k)' <=> Stored(k))
    BY <1>0, <2>1, BeginsIdle
  <2>3. \A k \in Calls : account[k] # Sign!None => account'[k] = account[k] BY <1>0, <2>1 DEF SignTyped
  <2> QED BY <2>1, <2>2, <2>3, SameReferences DEF CredentialsKept
<1>3. ASSUME NEW c \in Calls, SessionStep(c) PROVE CredentialsKept'
  <2>1. /\ UNCHANGED <<provider, account, ref, fresh, prior, store, rows, pardoned>>
        /\ \/ pc' = pc /\ result' = result
           \/ pc' = [pc EXCEPT ![c] = 1] /\ pc[c] = 0 /\ result' = result /\ session[c] = "open"
           \/ pc' = pc /\ result' = [result EXCEPT ![c] = "failed"] /\ session[c] \in {"asking", "open"}
    BY <1>3, SessionSteps
  <2>2. CASE pc' = pc /\ result' = result
    <3>1. \A k \in Calls : (Storing(k)' <=> Storing(k)) /\ (Stored(k)' <=> Stored(k))
      BY <2>1, <2>2 DEF Storing, Stored, Sign!At
    <3> QED BY <2>1, <2>2, <3>1, SameReferences DEF CredentialsKept
  <2>3. CASE pc' = [pc EXCEPT ![c] = 1] /\ pc[c] = 0 /\ result' = result /\ session[c] = "open"
    <3>1. provider # Sign!None BY <1>0, <2>3 DEF Unchosen, Sign!None
    <3>2. \A k \in Calls : (Storing(k)' <=> Storing(k)) /\ (Stored(k)' <=> Stored(k))
      BY <1>0, <2>1, <2>3, <3>1, BeginsIdle
    <3> QED BY <2>1, <2>3, <3>2, SameReferences DEF CredentialsKept
  <2>4. CASE pc' = pc /\ result' = [result EXCEPT ![c] = "failed"] /\ session[c] \in {"asking", "open"}
    <3>1. \A k \in Calls : (Storing(k)' <=> Storing(k)) /\ (Stored(k)' <=> Stored(k))
      BY <2>1, <2>4 DEF Storing, Stored, Sign!At
    <3>2. result[c] = Sign!None
      BY <1>0, <2>4 DEF CallPositions, Running, Resting
    <3>3. \A k \in Calls : /\ result[k] = "connected" => result'[k] = "connected"
                           /\ result[k] # Sign!None => result'[k] # Sign!None
      BY <1>0, <2>4, <3>2 DEF SignTyped, Sign!None
    <3> QED BY <2>1, <3>1, <3>3, SameReferences DEF CredentialsKept
  <2> QED BY <2>1, <2>2, <2>3, <2>4
<1>4. ASSUME NEW c \in Calls, CallMove(c) PROVE CredentialsKept'
  BY <1>4, QuietReferences, LookReferences, DrawReferences, PutReferences, KeptReferences, UpsertReferences,
     UpsertFailsReferences DEF CallMove
<1>5. CASE Sign!Quit
  <2>1. UNCHANGED <<account, ref, fresh, prior, store, rows>> /\ pardoned' BY <1>5 DEF Sign!Quit, Sign!chosen,
       Sign!locals
  <2>2. \A k \in Calls : pc'[k] = 0 /\ result'[k] # Sign!None /\ (result[k] = "connected" => result'[k] = "connected")
    BY <1>5 DEF Sign!Quit, Sign!None
  <2>3. \A k \in Calls : ~Storing(k)' /\ ~Stored(k)' BY <2>2 DEF Storing, Stored, Sign!At
  <2> QED BY <2>1, <2>2, <2>3, SameReferences DEF CredentialsKept
<1>6. CASE Sign!Refresh \/ UNCHANGED Sign!vars
  <2>1. UNCHANGED <<provider, account, pc, result, ref, fresh, prior, store, rows, pardoned>>
    BY <1>6 DEF Sign!Refresh, Sign!vars, Sign!chosen, Sign!locals, Sign!saved
  <2>2. \A k \in Calls : (Storing(k)' <=> Storing(k)) /\ (Stored(k)' <=> Stored(k))
    BY <2>1 DEF Storing, Stored, Sign!At
  <2> QED BY <2>1, <2>2, SameReferences DEF CredentialsKept
<1>7. CASE Sign!Next BY <1>2, <1>3, <1>4, <1>5, <1>6, <1>7, SignMoves, ChooseReferences
<1> QED BY <1>6, <1>7

-----------------------------------------------------------------------------
\* Telegram's completions go on one at a time, and only while nothing is connected.
LEMMA LockedIn ==
  ASSUME SignHypotheses, SignInv, provider = "telegram", NEW c \in Calls, CallMove(c), Sign!Go(c)
  PROVE  /\ \A k \in Calls \ {c} : pc[k] \in {0, 1}
         /\ \A a \in Accounts : rows[a] = Sign!None
<1>0. SignTyped /\ TelegramPairsOne BY DEF SignInv
<1>1. pc[c] # 0 /\ pc[c] \in 0 .. 10 /\ pc'[c] = pc[c] + 1
  <2>1. pc[c] # 0 BY CallMoves
  <2>2. pc'[c] = pc[c] + 1 BY <1>0, StepEnds
  <2> QED BY <1>0, <2>1, <2>2 DEF SignTyped
<1>2. \A k \in Calls : pc[k] \in 0 .. 10 BY <1>0 DEF SignTyped
<1>3. CASE pc[c] > 1
  <2>1. \A k \in Calls \ {c} : ~(pc[k] > 1) BY <1>0, <1>3 DEF TelegramPairsOne
  <2>2. \A a \in Accounts : rows[a] = Sign!None BY <1>0, <1>3 DEF TelegramPairsOne
  <2> QED BY <1>2, <2>1, <2>2
<1>4. CASE pc[c] = 1
  <2>1. /\ Ordered(provider, Sign!Script(provider)) /\ pc[c] \in 1 .. Len(Sign!Script(provider))
    BY <1>1, StandingInScript DEF SignInv
  <2>2. TagOf(c) = "lock" BY <1>4, <2>1 DEF Ordered, TagOf
  <2>3. Sign!Lock(c)
    BY <2>2 DEF CallMove, QuietStep, Sign!CheckStep, Sign!Callback, Sign!WaitEnds, Sign!Poll, Sign!Pair,
         Sign!StillActive, Sign!TestSend, Sign!Same,
                Sign!Look, Sign!Draw, Sign!Put, Sign!Kept, Sign!UpsertStep, Sign!UpsertFails, Sign!At, TagOf
  <2>4. ~Sign!Again(c) /\ ~Sign!End(c, "failed")
    <3>1. pc'[c] # 0 BY <1>1
    <3> QED BY <1>0, <3>1, StepEnds
  <2>5. /\ \A k \in Calls \ {c} : pc[k] < 2
        /\ \A a \in Accounts : rows[a] = Sign!None
    BY <2>3, <2>4 DEF Sign!Lock
  <2> QED BY <1>2, <2>5
<1> QED BY <1>1, <1>3, <1>4

LEMMA TelegramPairsOneMove ==
  ASSUME SignHypotheses, SignInv, NEW c \in Calls, CallMove(c), provider = "telegram"
  PROVE  TelegramPairsOne'
<1>0. SignTyped /\ TelegramPairsOne /\ CallPositions BY DEF SignInv
<1>1. /\ pc[c] # 0 /\ account[c] # Sign!None /\ UNCHANGED <<provider, account>>
      /\ \/ Sign!Go(c) /\ TagOf(c) # "upsert"
         \/ Sign!Again(c) \/ Sign!End(c, "failed")
         \/ Sign!End(c, "connected") /\ TagOf(c) = "upsert"
      /\ \A k \in Calls \ {c} : ref'[k] = ref[k] /\ fresh'[k] = fresh[k] /\ pc'[k] = pc[k] /\ result'[k] = result[k]
  BY CallMoves
<1>2. result[c] = Sign!None /\ \A k \in Calls : pc[k] \in 0 .. 10
  BY <1>0, <1>1 DEF CallPositions, Running, SignTyped
<1>3. /\ Ordered(provider, Sign!Script(provider)) /\ pc[c] \in 1 .. Len(Sign!Script(provider))
  BY <1>1, StandingInScript DEF SignInv
<1>4. \A k \in Calls : ref'[k] # Sign!None => fresh'[k]
  <2>1. \A k \in Calls : ref[k] # Sign!None => fresh[k] BY <1>0 DEF TelegramPairsOne
  <2>2. ref'[c] # Sign!None => fresh'[c]
    <3>1. CASE QuietStep(c) BY <2>1, <3>1, QuietSteps
    <3>2. CASE Sign!Look(c)
      <4>1. TagOf(c) = "look" BY <3>2 DEF Sign!Look, Sign!At, TagOf
      <4> QED BY <1>3, <4>1 DEF Ordered, TagOf
    <3>3. CASE Sign!Draw(c) BY <1>0, <3>3 DEF Sign!Draw, SignTyped
    <3>4. Sign!Forget(c) => ref'[c] = Sign!None BY <1>0 DEF Sign!Forget, SignTyped
    <3>5. CASE Sign!Put(c) BY <2>1, <3>4, <3>5 DEF Sign!Put, Sign!Failed
    <3>6. CASE Sign!Kept(c) BY <2>1, <3>4, <3>6 DEF Sign!Kept
    <3>7. CASE Sign!UpsertStep(c) BY <3>4, <3>7 DEF Sign!UpsertStep
    <3>8. CASE Sign!UpsertFails(c) BY <3>4, <3>8 DEF Sign!UpsertFails, Sign!Failed
    <3> QED BY <3>1, <3>2, <3>3, <3>5, <3>6, <3>7, <3>8 DEF CallMove
  <2> QED BY <1>1, <2>1, <2>2
<1>5. CASE ~Sign!UpsertStep(c)
  <2>1. rows' = rows
    <3>1. CASE QuietStep(c) BY <3>1, QuietSteps
    <3>2. CASE ~QuietStep(c) BY <1>5, <3>2 DEF CallMove, Sign!Look, Sign!Draw, Sign!Put, Sign!Kept,
         Sign!UpsertFails, Sign!saved
    <3> QED BY <3>1, <3>2
  <2>2. Sign!Go(c) \/ Sign!Again(c) \/ Sign!End(c, "failed")
    <3>1. CASE QuietStep(c) BY <3>1, QuietSteps
    <3>2. CASE ~QuietStep(c) BY <1>5, <3>2 DEF CallMove, Sign!Look, Sign!Draw, Sign!Put, Sign!Kept,
         Sign!UpsertFails, Sign!Failed
    <3> QED BY <3>1, <3>2
  <2>3. result'[c] # "connected" BY <1>0, <1>2, <2>2, StepEnds DEF Sign!None
  <2>4. CASE Sign!Go(c)
    <3>1. /\ \A k \in Calls \ {c} : pc[k] \in {0, 1}
          /\ \A a \in Accounts : rows[a] = Sign!None
      BY <2>4, LockedIn
    <3>2. \A k \in Calls \ {c} : ~(pc'[k] > 1) BY <1>1, <3>1
    <3> QED BY <1>0, <1>1, <1>4, <2>1, <2>3, <3>1, <3>2 DEF TelegramPairsOne
  <2>5. CASE Sign!Again(c) \/ Sign!End(c, "failed")
    <3>1. pc'[c] = 0 BY <1>0, <2>5, StepEnds
    <3> QED BY <1>0, <1>1, <1>4, <2>1, <2>3, <3>1 DEF TelegramPairsOne
  <2> QED BY <2>2, <2>4, <2>5
<1>6. CASE Sign!UpsertStep(c)
  <2>1. TagOf(c) = "upsert" /\ Sign!End(c, "connected") BY <1>6 DEF Sign!UpsertStep, Sign!At, TagOf
  <2>2. pc[c] > 1
    <3>1. pc[c] # 1 BY <1>3, <2>1 DEF Ordered, TagOf
    <3> QED BY <1>1, <1>2, <3>1
  <2>3. /\ \A k \in Calls \ {c} : ~(pc[k] > 1)
        /\ \A a \in Accounts : rows[a] = Sign!None
        /\ \A k \in Calls : result[k] # "connected"
    BY <1>0, <2>2 DEF TelegramPairsOne
  <2>4. pc'[c] = 0 /\ \A k \in Calls : ~(pc'[k] > 1)
    <3>1. pc'[c] = 0 BY <1>0, <2>1, StepEnds
    <3> QED BY <1>1, <2>3, <3>1
  <2>5. \A k \in Calls \ {c} : result'[k] # "connected" BY <1>1, <2>3
  <2>6. \E a \in Accounts : rows'[a] # Sign!None
    <3>1. Storing(c) BY <1>6 DEF Sign!UpsertStep, Storing
    <3>2. ref[c] # Sign!None /\ account[c] \in Accounts BY <3>1, Holding
    <3>3. rows'[account[c]] # Sign!None BY <1>0, <1>6, <3>2 DEF Sign!UpsertStep, SignTyped
    <3> QED BY <3>2, <3>3
  <2> QED BY <1>4, <2>4, <2>5, <2>6 DEF TelegramPairsOne
<1> QED BY <1>5, <1>6

LEMMA TelegramPairsOneStep == ASSUME SignHypotheses, SignInv, [Sign!Next]_(Sign!vars) PROVE TelegramPairsOne'
<1>0. SignTyped /\ Unchosen /\ TelegramPairsOne BY DEF SignInv
<1>1. ASSUME NEW p \in Providers, NEW a \in Accounts, Sign!Choose(p, a) PROVE TelegramPairsOne'
  <2>1. provider = Sign!None /\ UNCHANGED <<pc, result, ref>> BY <1>1 DEF Sign!Choose, Sign!locals
  <2>2. \A c \in Calls : pc[c] = 0 /\ result[c] = Sign!None /\ ref[c] = Sign!None BY <1>0, <2>1 DEF Unchosen
  <2>3. \A c \in Calls : ~(pc'[c] > 1) /\ result'[c] # "connected" /\ ref'[c] = Sign!None
    BY <2>1, <2>2 DEF Sign!None
  <2> QED BY <2>3 DEF TelegramPairsOne
<1>2. ASSUME UNCHANGED <<provider, rows, ref, fresh>>,
             \A k \in Calls : /\ pc'[k] > 1 => pc[k] > 1
                              /\ result'[k] = "connected" => result[k] = "connected"
      PROVE  TelegramPairsOne'
  BY <1>0, <1>2 DEF TelegramPairsOne
<1>3. ASSUME NEW c \in Calls, BeginStep(c) PROVE TelegramPairsOne'
  <2>1. /\ UNCHANGED <<provider, rows, ref, fresh, result>>
        /\ pc' = pc \/ pc' = [pc EXCEPT ![c] = 1]
    BY <1>3, BeginSteps DEF SignInv
  <2>2. \A k \in Calls : pc'[k] > 1 => pc[k] > 1 BY <1>0, <2>1 DEF SignTyped
  <2> QED BY <1>2, <2>1, <2>2
<1>4. ASSUME NEW c \in Calls, SessionStep(c) PROVE TelegramPairsOne'
  <2>1. /\ UNCHANGED <<provider, rows, ref, fresh>>
        /\ pc' = pc \/ pc' = [pc EXCEPT ![c] = 1]
        /\ result' = result \/ result' = [result EXCEPT ![c] = "failed"]
    BY <1>4, SessionSteps
  <2>2. \A k \in Calls : pc'[k] > 1 => pc[k] > 1 BY <1>0, <2>1 DEF SignTyped
  <2>3. \A k \in Calls : result'[k] = "connected" => result[k] = "connected" BY <1>0, <2>1 DEF SignTyped
  <2> QED BY <1>2, <2>1, <2>2, <2>3
<1>5. ASSUME NEW c \in Calls, CallMove(c) PROVE TelegramPairsOne'
  <2>1. CASE provider = "telegram" BY <1>5, <2>1, TelegramPairsOneMove
  <2>2. CASE provider # "telegram"
    <3>1. provider' = provider BY <1>5, CallMoves
    <3> QED BY <2>2, <3>1 DEF TelegramPairsOne
  <2> QED BY <2>1, <2>2
<1>6. CASE Sign!Quit
  <2>1. UNCHANGED <<provider, rows, ref, fresh>> BY <1>6 DEF Sign!Quit, Sign!chosen, Sign!locals
  <2>2. \A k \in Calls : pc'[k] = 0 /\ (result'[k] = "connected" => result[k] = "connected")
    BY <1>6 DEF Sign!Quit
  <2>3. \A k \in Calls : ~(pc'[k] > 1) BY <2>2
  <2> QED BY <1>2, <2>1, <2>2, <2>3
<1>7. CASE Sign!Refresh \/ UNCHANGED Sign!vars
  <2>1. UNCHANGED <<provider, pc, result, ref, fresh, rows>> BY <1>7 DEF Sign!Refresh, Sign!vars, Sign!chosen,
       Sign!locals, Sign!saved
  <2> QED BY <1>2, <2>1
<1>8. CASE Sign!Next BY <1>1, <1>3, <1>4, <1>5, <1>6, <1>7, <1>8, SignMoves
<1> QED BY <1>7, <1>8

-----------------------------------------------------------------------------
(* The invariant, and what it promises.                                    *)

LEMMA SignInvInit == ASSUME SignHypotheses, Sign!Init PROVE SignInv
<1> USE DEF Sign!Init
<1>0. Sign!None \notin Calls /\ Sign!None \notin Accounts /\ Sign!Old \notin Calls /\ MaxTroubles \in Nat
  BY DEF SignHypotheses
<1>1. SignTyped
  <2>1. /\ 0 \in 0 .. 10 /\ 0 \in 0 .. MaxTroubles /\ 0 \in Nat /\ FALSE \in BOOLEAN BY <1>0
  <2> QED BY <2>1, Zenon DEF SignTyped
<1>2. Unchosen BY DEF Unchosen
<1>3. CallPositions BY DEF CallPositions, Resting, Sign!None
<1>4. \A c \in Calls : pc[c] = 0 /\ result[c] = Sign!None /\ ref[c] = Sign!None /\ ~Storing(c) /\ ~Stored(c)
  BY DEF Storing, Stored, Sign!At
<1>5. ChecksPassed BY <1>0 DEF ChecksPassed, CheckedOf, Sign!None
<1>6. CancelsStop BY DEF CancelsStop, CancelOf, Sign!At
<1>7. References BY <1>0, <1>4 DEF References, ReferenceOf, Sign!None, Sign!Old
<1>8. Sign!RowHasItsCredential /\ Unexcused BY <1>4 DEF Sign!RowHasItsCredential, Unexcused
<1>9. TelegramPairsOne BY DEF TelegramPairsOne, Sign!None
<1>10. TestMessages BY DEF TestMessages, TestsOf, Sign!None
<1>11. GrantStays /\ Accepted BY DEF GrantStays, Accepted, AcceptedOf, Sign!None
<1> QED BY <1>1, <1>2, <1>3, <1>5, <1>6, <1>7, <1>8, <1>9, <1>10, <1>11 DEF SignInv

LEMMA SignInvStep == ASSUME SignHypotheses, SignInv, [Sign!Next]_(Sign!vars) PROVE SignInv'
BY SignTypedStep, UnchosenStep, CallPositionsStep, ChecksPassedStep, CancelsStopStep, CredentialsKeptStep,
   TelegramPairsOneStep, TestMessagesStep,
   GrantStaysStep, AcceptedStep DEF SignInv, CredentialsKept

\* The promises.
SignPromise ==
  /\ Sign!TypeOK /\ Sign!RowHasItsCredential /\ Sign!NoStrayCredential /\ Sign!CancelledNeverConnects /\ Sign!AcceptedIsSound
  /\ Sign!OneTelegram /\ Sign!TestedOnce /\ Sign!GrantOutlivesRefresh

\* The instance's own cardinality is that of the theorems on finite sets.
LEMMA SignCardinality == \A S : Sign!Cardinality(S) = Cardinality(S)
BY DEF Sign!Cardinality, Cardinality, Sign!IsFiniteSet, IsFiniteSet

LEMMA SignInvPromises == ASSUME SignHypotheses, SignInv PROVE SignPromise
<1>1. Sign!TypeOK BY DEF SignInv, SignTyped, Sign!TypeOK
<1>2. Sign!RowHasItsCredential BY DEF SignInv
<1>3. Sign!NoStrayCredential
  <2>1. (\A c \in Calls : pc[c] = 0) => \A c \in Calls : ~Stored(c) BY DEF Stored, Sign!At
  <2>2. ~pardoned => \A r \in Sign!Refs : store[r] # Sign!None =>
          (\E a \in Accounts : rows[a] = r) \/ (r \in Calls /\ fresh[r] /\ Stored(r))
    BY DEF SignInv, Unexcused
  <2> QED BY <2>1, <2>2 DEF Sign!NoStrayCredential
<1>4. Sign!CancelledNeverConnects /\ Sign!AcceptedIsSound
  BY DEF SignInv, Accepted, AcceptedOf, Sign!CancelledNeverConnects, Sign!AcceptedIsSound
<1>5. Sign!OneTelegram
  <2>1. ASSUME provider = "telegram" PROVE Sign!Cardinality({c \in Calls : result[c] = "connected"}) <= 1
    <3> DEFINE S == {c \in Calls : result[c] = "connected"}
    <3>1. \A c, k \in S : c = k BY <2>1 DEF SignInv, TelegramPairsOne
    <3>2. CASE S = {} BY <3>2, FS_EmptySet, SignCardinality
    <3>3. CASE S # {}
      <4>1. PICK c \in S : TRUE BY <3>3
      <4>2. S = {c} BY <3>1, <4>1
      <4>3. Cardinality({c}) = 1 BY FS_Singleton
      <4>4. Cardinality(S) = 1 BY <4>2, <4>3
      <4> QED BY <4>4, SignCardinality
    <3> QED BY <3>2, <3>3
  <2> QED BY <2>1 DEF Sign!OneTelegram
<1>6. Sign!TestedOnce BY DEF SignInv, TestMessages, TestsOf, Sign!TestedOnce
<1>7. Sign!GrantOutlivesRefresh BY DEF SignInv, GrantStays, Sign!GrantOutlivesRefresh
<1> QED BY <1>1, <1>2, <1>3, <1>4, <1>5, <1>6, <1>7 DEF SignPromise

\* Whatever the providers answer and whoever cancels, quits or fails when, the state of the sign-ins is
\* one the code knows (the session maps of github.rs, microsoft.rs, gmail.rs and telegram.rs).
THEOREM SignInTypeOK == ASSUME SignHypotheses PROVE Sign!Spec => []Sign!TypeOK
<1>1. Sign!Init => SignInv BY SignInvInit
<1>2. SignInv /\ [Sign!Next]_(Sign!vars) => SignInv' BY SignInvStep
<1>3. SignInv => Sign!TypeOK BY SignInvPromises DEF SignPromise
<1> QED BY <1>1, <1>2, <1>3, PTL DEF Sign!Spec

\* A connection that is saved has a credential in the store, and one its own account signed in with
\* (the ends of exchange_and_save, save_authorized_connection, connect_bot and the others).
THEOREM ConnectionsHaveTheirCredential == ASSUME SignHypotheses PROVE Sign!Spec => []Sign!RowHasItsCredential
<1>1. Sign!Init => SignInv BY SignInvInit
<1>2. SignInv /\ [Sign!Next]_(Sign!vars) => SignInv' BY SignInvStep
<1>3. SignInv => Sign!RowHasItsCredential BY SignInvPromises DEF SignPromise
<1> QED BY <1>1, <1>2, <1>3, PTL DEF Sign!Spec

\* Once no call runs, a credential without a connection is one whose undo failed or was cut off, or
\* one of two sign-ins of one account side by side.
THEOREM NothingIsStoredInVain == ASSUME SignHypotheses PROVE Sign!Spec => []Sign!NoStrayCredential
<1>1. Sign!Init => SignInv BY SignInvInit
<1>2. SignInv /\ [Sign!Next]_(Sign!vars) => SignInv' BY SignInvStep
<1>3. SignInv => Sign!NoStrayCredential BY SignInvPromises DEF SignPromise
<1> QED BY <1>1, <1>2, <1>3, PTL DEF Sign!Spec

\* What connects has passed every check of its provider for the account a reconnect is for, and was
\* not cancelled while its session could be found.
THEOREM OnlyWhatPassedConnects ==
  ASSUME SignHypotheses PROVE Sign!Spec => [](Sign!AcceptedIsSound /\ Sign!CancelledNeverConnects)
<1>1. Sign!Init => SignInv BY SignInvInit
<1>2. SignInv /\ [Sign!Next]_(Sign!vars) => SignInv' BY SignInvStep
<1>3. SignInv => Sign!AcceptedIsSound /\ Sign!CancelledNeverConnects
  BY SignInvPromises DEF SignPromise
<1> QED BY <1>1, <1>2, <1>3, PTL DEF Sign!Spec

\* However many chats are paired side by side, Telegram's connect_lock lets one connect, and a test
\* message is sent again only after a save that failed (telegram.rs).
THEOREM OneChatIsPaired == ASSUME SignHypotheses PROVE Sign!Spec => [](Sign!OneTelegram /\ Sign!TestedOnce)
<1>1. Sign!Init => SignInv BY SignInvInit
<1>2. SignInv /\ [Sign!Next]_(Sign!vars) => SignInv' BY SignInvStep
<1>3. SignInv => Sign!OneTelegram /\ Sign!TestedOnce BY SignInvPromises DEF SignPromise
<1> QED BY <1>1, <1>2, <1>3, PTL DEF Sign!Spec

\* A refresh leaves Microsoft's grant in place however often it fails: a new sign-in is asked for only
\* when Microsoft has refused the grant (microsoft.rs).
THEOREM GrantsOutliveRefreshes == ASSUME SignHypotheses PROVE Sign!Spec => []Sign!GrantOutlivesRefresh
<1>1. Sign!Init => SignInv BY SignInvInit
<1>2. SignInv /\ [Sign!Next]_(Sign!vars) => SignInv' BY SignInvStep
<1>3. SignInv => Sign!GrantOutlivesRefresh BY SignInvPromises DEF SignPromise
<1> QED BY <1>1, <1>2, <1>3, PTL DEF Sign!Spec

-----------------------------------------------------------------------------
(* WhatsApp: the linked device.                                            *)

CONSTANTS Attempts, MaxFailures
VARIABLES att, pairing, cmd, client, keys, staging, final, link, owner, running, withdrawn, failures

Device == INSTANCE WhatsApp WITH session <- pairing, row <- link, cancelled <- withdrawn, faults <- failures,
  MaxFaults <- MaxFailures

\* The commands of the dialog.
Commands == {"begin", "test", "finish", "cancel", "disconnect"}
Runs == {"none", "spawned", "launching", "events", "done"}

\* Attempts are called neither "none" nor "new".
DeviceHypotheses == "none" \notin Attempts /\ "new" \notin Attempts /\ MaxFailures \in Nat

\* What a command is at, by its name.
CommandTyped(c) ==
  \/ cmd[c] = Device!Idle
  \/ c \in {"begin", "cancel"} /\ cmd[c].step \in {"logout", "clean"} /\ cmd[c].of \in Attempts
  \/ c = "begin" /\ cmd[c].step = "prepare" /\ cmd[c].of = "new"
  \/ c = "test" /\ cmd[c].step = "sending" /\ cmd[c].of \in Attempts
  \/ c = "finish" /\ cmd[c].step \in {"promote", "start"} /\ cmd[c].of \in Attempts
  \/ c = "disconnect" /\ cmd[c].step \in {"key", "row"} /\ cmd[c].of \in Attempts

\* What the variables hold.
Attempt == [state : Device!States, handle : BOOLEAN, linked : BOOLEAN, tested : BOOLEAN, run : Runs]
AttemptsTyped == att \in [Attempts -> Attempt]
CommandsTyped ==
  /\ cmd \in [Commands -> [step : {"idle", "logout", "clean", "prepare", "sending", "promote", "start", "key",
                                   "row"},
                           of : Attempts \cup {"none", "new"}]]
  /\ \A c \in Commands : CommandTyped(c)
StoredTyped ==
  /\ pairing \in Attempts \cup {"none"} /\ staging \in Attempts \cup {"none"} /\ final \in Attempts \cup {"none"}
  /\ keys \subseteq Attempts /\ (link.of = "none" <=> link.status = "none")
  /\ link \in [of : Attempts \cup {"none"}, status : {"none", "connected", "revoked"}]
ClientsTyped ==
  /\ client \in [Attempts -> {"none", "live", "dead"}] /\ running \in [Attempts -> Nat]
  /\ withdrawn \in [Attempts -> {"no", "early", "completing", "late"}] /\ failures \in 0 .. MaxFailures
  /\ owner \in [target : Attempts \cup {"none"}, slot : Attempts \cup {"none"}, step : {"idle", "open"},
                status : {"stopped", "connecting", "connected", "reconnecting", "relink_required", "error"}]
DeviceTyped == AttemptsTyped /\ CommandsTyped /\ StoredTyped /\ ClientsTyped

\* How far an attempt is: until it begins nothing is known of it, and one that was linked has run.
AttemptOf(a) ==
  /\ att[a].state = "new" => att[a].run = "none" /\ withdrawn[a] = "no" /\ pairing # a
  /\ att[a].state \in {"awaiting_test", "ready"} => att[a].run = "done"
  /\ att[a].state = "ready" => att[a].tested
  /\ client[a] = "live" => att[a].handle
  /\ cmd["test"].of = a => att[a].run = "done"
AttemptsGoOn == \A a \in Attempts : AttemptOf(a)

\* A pairing that is completed has been tested and its client has ended, and so of the row it becomes and
\* of the client of the owner.
Settled(a) == att[a].run = "done" /\ att[a].tested /\ client[a] # "live"
PairedIsSettled ==
  /\ cmd["finish"].of # "none" => Settled(cmd["finish"].of)
  /\ link.of # "none" => Settled(link.of)
  /\ owner.target # "none" => Settled(owner.target)

\* The owner counts the client it holds.
OwnerHoldsOne ==
  /\ owner.slot # "none" => owner.slot = owner.target
  /\ owner.step = "open" => owner.slot = "none" /\ owner.target # "none"
  /\ \A a \in Attempts : running[a] = IF owner.slot = a THEN 1 ELSE 0

\* Who cancels has taken the session, and who begins has none.
CancelsTake ==
  /\ cmd["begin"].step # "idle" => pairing = "none"
  /\ \A c \in {"begin", "cancel"} : cmd[c].of \in Attempts => withdrawn[cmd[c].of] # "no"
  /\ pairing # "none" => withdrawn[pairing] = "no"

\* No pairing was cancelled before its run had begun or while it was being completed.
Undisturbed == \A a \in Attempts : withdrawn[a] \in {"no", "late"}

\* Until one is, the key, the staging database and the session are of one attempt, and then of the row.
Following ==
  /\ cmd["finish"].step = "promote" => pairing = cmd["finish"].of
  /\ pairing # "none" => link.of = "none" /\ pairing \in keys /\ staging \in {pairing, "none"}
  /\ link.of # "none" => withdrawn[link.of] = "no"
  /\ cmd["disconnect"].step # "idle" => link.of = cmd["disconnect"].of /\ link.status = "revoked"
  /\ link.status = "connected" => link.of \in keys /\ final = link.of
SpawnedHasSession == \A a \in Attempts : att[a].run = "spawned" => pairing = a
KeyFollows == Undisturbed => Following /\ SpawnedHasSession

\* The inductive invariant.
DeviceInv == DeviceTyped /\ AttemptsGoOn /\ PairedIsSettled /\ OwnerHoldsOne /\ CancelsTake /\ KeyFollows

\* What can be set of an attempt.
LEMMA HandleDrops == ASSUME NEW r \in Attempt PROVE [r EXCEPT !.handle = FALSE] \in Attempt
BY DEF Attempt

LEMMA AttemptSets ==
  ASSUME NEW r \in Attempt, NEW s \in Device!States, NEW u \in Runs
  PROVE  [r EXCEPT !.state = s, !.handle = FALSE, !.run = u] \in Attempt
BY DEF Attempt

\* Each step keeps the types.
LEMMA AttemptsTypedStep == ASSUME DeviceHypotheses, DeviceInv, Device!Next PROVE AttemptsTyped'
<1> USE DEF DeviceHypotheses, DeviceInv, DeviceTyped, CommandsTyped, CommandTyped, Commands, AttemptsTyped,
    Attempt, Runs, Device!States, Device!Terminal
<1>1. ASSUME NEW c \in {"begin", "cancel"}, Device!Cancel(c) PROVE AttemptsTyped'
  BY <1>1 DEF Device!Cancel, Device!At
<1>2. ASSUME NEW c \in {"begin", "cancel"}, Device!CancelStops(c) PROVE AttemptsTyped'
  <2>1. cmd[c].of \in Attempts BY <1>2 DEF Device!CancelStops, Device!At, Device!Idle
  <2>2. att' = [att EXCEPT ![cmd[c].of] = [@ EXCEPT !.handle = FALSE]] BY <1>2 DEF Device!CancelStops
  <2>3. [att[cmd[c].of] EXCEPT !.handle = FALSE] \in Attempt BY <2>1, HandleDrops DEF AttemptsTyped
  <2> HIDE DEF Attempt
  <2> QED BY <2>1, <2>2, <2>3
<1>3. ASSUME NEW c \in {"begin", "cancel"}, Device!CancelCleans(c) PROVE AttemptsTyped'
  BY <1>3 DEF Device!CancelCleans, Device!At, Device!Fault, Device!Idle
<1>4. ASSUME NEW a \in Attempts, Device!Begin(a) PROVE AttemptsTyped'
  BY <1>4 DEF Device!Begin, Device!At, Device!Ends, Device!Unlinked, Device!Fault, Device!Idle
<1>5. ASSUME NEW a \in Attempts, Device!RunStarts(a) PROVE AttemptsTyped'
  BY <1>5 DEF Device!RunStarts, Device!Run
<1>6. ASSUME NEW a \in Attempts, Device!RunLaunches(a) PROVE AttemptsTyped'
  BY <1>6 DEF Device!RunLaunches, Device!Run, Device!Fault
<1>7. ASSUME NEW a \in Attempts, Device!RunHears(a) PROVE AttemptsTyped'
  BY <1>7 DEF Device!RunHears, Device!Run, Device!Fault
<1>8. CASE Device!TestBegins
  BY <1>8 DEF Device!TestBegins, Device!At
<1>9. CASE Device!TestAnswers
  BY <1>9 DEF Device!TestAnswers, Device!At, Device!Ends, Device!StateAfterTest, Device!Fault,
    Device!Idle
<1>10. CASE Device!FinishBegins
  <2>1. pairing \in Attempts /\ att' = [att EXCEPT ![pairing] = [@ EXCEPT !.handle = FALSE]]
    BY <1>10 DEF Device!FinishBegins, StoredTyped
  <2>2. [att[pairing] EXCEPT !.handle = FALSE] \in Attempt BY <2>1, HandleDrops DEF AttemptsTyped
  <2> HIDE DEF Attempt
  <2> QED BY <2>1, <2>2
<1>11. CASE Device!Promote
  BY <1>11 DEF Device!Promote, Device!At, Device!Goes, Device!Ends, Device!Fault, Device!Idle
<1>12. CASE Device!FinishStarts
  BY <1>12 DEF Device!FinishStarts, Device!At, Device!OwnerTakes, Device!Ends, Device!OthersStopped,
    Device!Idle
<1>13. CASE Device!Boot
  BY <1>13 DEF Device!Boot, Device!Stopped, Device!OwnerTakes, Device!OthersStopped
<1>14. CASE Device!Reconnect
  BY <1>14 DEF Device!Reconnect, Device!Fault, Device!OwnerTakes, Device!OthersStopped
<1>15. CASE Device!OwnerOpens
  BY <1>15 DEF Device!OwnerOpens, Device!Fault
<1>16. CASE Device!OwnerHears
  BY <1>16 DEF Device!OwnerHears, Device!Fault
<1>17. CASE Device!Disconnect
  BY <1>17 DEF Device!Disconnect, Device!At
<1>18. CASE Device!DisconnectDeletes
  BY <1>18 DEF Device!DisconnectDeletes, Device!At, Device!Goes, Device!Fault, Device!Ends, Device!NoRow,
    Device!Idle
<1>19. CASE Device!Quit
  <2>1. ASSUME NEW a \in Attempts
        PROVE  (IF att[a].state = "new" THEN att[a]
                ELSE [att[a] EXCEPT !.state = "cancelled", !.handle = FALSE, !.run = "done"]) \in Attempt
    <3> HIDE DEF Attempt
    <3> QED BY AttemptSets DEF AttemptsTyped, Runs, Device!States
  <2> HIDE DEF Attempt
  <2> QED BY <1>19, <2>1 DEF Device!Quit
<1> QED BY <1>1, <1>2, <1>3, <1>4, <1>5, <1>6, <1>7, <1>8, <1>9, <1>10, <1>11, <1>12, <1>13, <1>14,
    <1>15, <1>16, <1>17, <1>18, <1>19 DEF Device!Next

LEMMA CommandsTypedStep == ASSUME DeviceHypotheses, DeviceInv, Device!Next PROVE CommandsTyped'
<1> USE DEF DeviceHypotheses, DeviceInv, DeviceTyped, CommandsTyped, CommandTyped, Commands, StoredTyped
<1>1. ASSUME NEW c \in {"begin", "cancel"}, Device!Cancel(c) PROVE CommandsTyped'
  BY <1>1 DEF Device!Cancel, Device!At
<1>2. ASSUME NEW c \in {"begin", "cancel"}, Device!CancelStops(c) PROVE CommandsTyped'
  <2>1. cmd[c].of \in Attempts BY <1>2 DEF Device!CancelStops, Device!At, Device!Idle
  <2>2. cmd' = [cmd EXCEPT ![c] = [@ EXCEPT !.step = "clean"]] BY <1>2 DEF Device!CancelStops, Device!Goes
  <2>3. cmd'[c].step = "clean" /\ cmd'[c].of = cmd[c].of BY <2>2
  <2> QED BY <2>1, <2>2, <2>3
<1>3. ASSUME NEW c \in {"begin", "cancel"}, Device!CancelCleans(c) PROVE CommandsTyped'
  BY <1>3 DEF Device!CancelCleans, Device!At, Device!Fault, Device!Idle
<1>4. ASSUME NEW a \in Attempts, Device!Begin(a) PROVE CommandsTyped'
  BY <1>4 DEF Device!Begin, Device!At, Device!Ends, Device!Unlinked, Device!Fault, Device!Idle
<1>5. ASSUME NEW a \in Attempts, Device!RunStarts(a) PROVE CommandsTyped'
  BY <1>5 DEF Device!RunStarts, Device!Run
<1>6. ASSUME NEW a \in Attempts, Device!RunLaunches(a) PROVE CommandsTyped'
  BY <1>6 DEF Device!RunLaunches, Device!Run, Device!Fault
<1>7. ASSUME NEW a \in Attempts, Device!RunHears(a) PROVE CommandsTyped'
  BY <1>7 DEF Device!RunHears, Device!Run, Device!Fault
<1>8. CASE Device!TestBegins
  BY <1>8 DEF Device!TestBegins, Device!At
<1>9. CASE Device!TestAnswers
  BY <1>9 DEF Device!TestAnswers, Device!At, Device!Ends, Device!StateAfterTest, Device!Fault,
    Device!Idle
<1>10. CASE Device!FinishBegins
  BY <1>10 DEF Device!FinishBegins, Device!At, Device!ClientStopped
<1>11. CASE Device!Promote
  BY <1>11 DEF Device!Promote, Device!At, Device!Goes, Device!Ends, Device!Fault, Device!Idle
<1>12. CASE Device!FinishStarts
  BY <1>12 DEF Device!FinishStarts, Device!At, Device!OwnerTakes, Device!Ends, Device!OthersStopped,
    Device!Idle
<1>13. CASE Device!Boot
  BY <1>13 DEF Device!Boot, Device!Stopped, Device!OwnerTakes, Device!OthersStopped
<1>14. CASE Device!Reconnect
  BY <1>14 DEF Device!Reconnect, Device!Fault, Device!OwnerTakes, Device!OthersStopped
<1>15. CASE Device!OwnerOpens
  BY <1>15 DEF Device!OwnerOpens, Device!Fault
<1>16. CASE Device!OwnerHears
  BY <1>16 DEF Device!OwnerHears, Device!Fault
<1>17. CASE Device!Disconnect
  BY <1>17 DEF Device!Disconnect, Device!At
<1>18. CASE Device!DisconnectDeletes
  BY <1>18 DEF Device!DisconnectDeletes, Device!At, Device!Goes, Device!Fault, Device!Ends, Device!NoRow,
    Device!Idle
<1>19. CASE Device!Quit
  BY <1>19 DEF Device!Quit, Device!Fault, Device!Idle, Device!Stopped
<1> QED BY <1>1, <1>2, <1>3, <1>4, <1>5, <1>6, <1>7, <1>8, <1>9, <1>10, <1>11, <1>12, <1>13, <1>14,
    <1>15, <1>16, <1>17, <1>18, <1>19 DEF Device!Next

LEMMA StoredTypedStep == ASSUME DeviceHypotheses, DeviceInv, Device!Next PROVE StoredTyped'
<1> USE DEF DeviceHypotheses, DeviceInv, DeviceTyped, CommandsTyped, CommandTyped, Commands, StoredTyped
<1>1. ASSUME NEW c \in {"begin", "cancel"}, Device!Cancel(c) PROVE StoredTyped'
  BY <1>1 DEF Device!Cancel, Device!At
<1>2. ASSUME NEW c \in {"begin", "cancel"}, Device!CancelStops(c) PROVE StoredTyped'
  BY <1>2 DEF Device!CancelStops, Device!At, Device!Goes
<1>3. ASSUME NEW c \in {"begin", "cancel"}, Device!CancelCleans(c) PROVE StoredTyped'
  BY <1>3 DEF Device!CancelCleans, Device!At, Device!Fault, Device!Idle
<1>4. ASSUME NEW a \in Attempts, Device!Begin(a) PROVE StoredTyped'
  BY <1>4 DEF Device!Begin, Device!At, Device!Ends, Device!Unlinked, Device!Fault, Device!Idle
<1>5. ASSUME NEW a \in Attempts, Device!RunStarts(a) PROVE StoredTyped'
  BY <1>5 DEF Device!RunStarts, Device!Run
<1>6. ASSUME NEW a \in Attempts, Device!RunLaunches(a) PROVE StoredTyped'
  BY <1>6 DEF Device!RunLaunches, Device!Run, Device!Fault
<1>7. ASSUME NEW a \in Attempts, Device!RunHears(a) PROVE StoredTyped'
  BY <1>7 DEF Device!RunHears, Device!Run, Device!Fault
<1>8. CASE Device!TestBegins
  BY <1>8 DEF Device!TestBegins, Device!At
<1>9. CASE Device!TestAnswers
  BY <1>9 DEF Device!TestAnswers, Device!At, Device!Ends, Device!StateAfterTest, Device!Fault,
    Device!Idle
<1>10. CASE Device!FinishBegins
  BY <1>10 DEF Device!FinishBegins, Device!At, Device!ClientStopped
<1>11. CASE Device!Promote
  BY <1>11 DEF Device!Promote, Device!At, Device!Goes, Device!Ends, Device!Fault, Device!Idle
<1>12. CASE Device!FinishStarts
  BY <1>12 DEF Device!FinishStarts, Device!At, Device!OwnerTakes, Device!Ends, Device!OthersStopped,
    Device!Idle
<1>13. CASE Device!Boot
  BY <1>13 DEF Device!Boot, Device!Stopped, Device!OwnerTakes, Device!OthersStopped
<1>14. CASE Device!Reconnect
  BY <1>14 DEF Device!Reconnect, Device!Fault, Device!OwnerTakes, Device!OthersStopped
<1>15. CASE Device!OwnerOpens
  <2>1. final' \in {final, owner.target} /\ UNCHANGED <<pairing, staging, keys, link>>
    BY <1>15 DEF Device!OwnerOpens
  <2>2. owner.target \in Attempts \cup {"none"} BY DEF ClientsTyped
  <2> QED BY <2>1, <2>2
<1>16. CASE Device!OwnerHears
  BY <1>16 DEF Device!OwnerHears, Device!Fault
<1>17. CASE Device!Disconnect
  BY <1>17 DEF Device!Disconnect, Device!At
<1>18. CASE Device!DisconnectDeletes
  <2>1. keys' \subseteq keys /\ link' \in {link, Device!NoRow} /\ UNCHANGED <<pairing, staging, final>>
    BY <1>18 DEF Device!DisconnectDeletes
  <2>2. Device!NoRow.of = "none" /\ Device!NoRow.status = "none"
        /\ Device!NoRow \in [of : Attempts \cup {"none"}, status : {"none", "connected", "revoked"}]
    BY DEF Device!NoRow
  <2>3. CASE link' = link BY <2>1, <2>3
  <2>4. CASE link' = Device!NoRow BY <2>1, <2>2, <2>4
  <2> QED BY <2>1, <2>3, <2>4
<1>19. CASE Device!Quit
  BY <1>19 DEF Device!Quit, Device!Fault, Device!Idle, Device!Stopped
<1> QED BY <1>1, <1>2, <1>3, <1>4, <1>5, <1>6, <1>7, <1>8, <1>9, <1>10, <1>11, <1>12, <1>13, <1>14,
    <1>15, <1>16, <1>17, <1>18, <1>19 DEF Device!Next

LEMMA ClientsTypedStep == ASSUME DeviceHypotheses, DeviceInv, Device!Next PROVE ClientsTyped'
<1> USE DEF DeviceHypotheses, DeviceInv, DeviceTyped, CommandsTyped, CommandTyped, Commands, StoredTyped,
    ClientsTyped
<1>1. ASSUME NEW c \in {"begin", "cancel"}, Device!Cancel(c) PROVE ClientsTyped'
  BY <1>1 DEF Device!Cancel, Device!At
<1>2. ASSUME NEW c \in {"begin", "cancel"}, Device!CancelStops(c) PROVE ClientsTyped'
  BY <1>2 DEF Device!CancelStops, Device!At, Device!Goes
<1>3. ASSUME NEW c \in {"begin", "cancel"}, Device!CancelCleans(c) PROVE ClientsTyped'
  BY <1>3 DEF Device!CancelCleans, Device!At, Device!Fault, Device!Idle
<1>4. ASSUME NEW a \in Attempts, Device!Begin(a) PROVE ClientsTyped'
  BY <1>4 DEF Device!Begin, Device!At, Device!Ends, Device!Unlinked, Device!Fault, Device!Idle
<1>5. ASSUME NEW a \in Attempts, Device!RunStarts(a) PROVE ClientsTyped'
  BY <1>5 DEF Device!RunStarts, Device!Run
<1>6. ASSUME NEW a \in Attempts, Device!RunLaunches(a) PROVE ClientsTyped'
  BY <1>6 DEF Device!RunLaunches, Device!Run, Device!Fault
<1>7. ASSUME NEW a \in Attempts, Device!RunHears(a) PROVE ClientsTyped'
  BY <1>7 DEF Device!RunHears, Device!Run, Device!Fault
<1>8. CASE Device!TestBegins
  BY <1>8 DEF Device!TestBegins, Device!At
<1>9. CASE Device!TestAnswers
  BY <1>9 DEF Device!TestAnswers, Device!At, Device!Ends, Device!StateAfterTest, Device!Fault,
    Device!Idle
<1>10. CASE Device!FinishBegins
  BY <1>10 DEF Device!FinishBegins, Device!At, Device!ClientStopped
<1>11. CASE Device!Promote
  BY <1>11 DEF Device!Promote, Device!At, Device!Goes, Device!Ends, Device!Fault, Device!Idle
<1>12. CASE Device!FinishStarts
  BY <1>12 DEF Device!FinishStarts, Device!At, Device!OwnerTakes, Device!Ends, Device!OthersStopped,
    Device!Idle
<1>13. CASE Device!Boot
  BY <1>13 DEF Device!Boot, Device!Stopped, Device!OwnerTakes, Device!OthersStopped
<1>14. CASE Device!Reconnect
  BY <1>14 DEF Device!Reconnect, Device!Fault, Device!OwnerTakes, Device!OthersStopped
<1>15. CASE Device!OwnerOpens
  <2>1. owner.step = "open" => owner.target \in Attempts BY DEF OwnerHoldsOne
  <2>2. UNCHANGED <<client, withdrawn>> /\ failures' \in 0 .. MaxFailures
    BY <1>15 DEF Device!OwnerOpens, Device!Fault
  <2>3. owner' \in {[owner EXCEPT !.slot = owner.target, !.step = "idle"], [owner EXCEPT !.status = "error", !.step = "idle"]}
    BY <1>15 DEF Device!OwnerOpens
  <2>4. running' \in [Attempts -> Nat] BY <1>15, <2>1 DEF Device!OwnerOpens
  <2>5. [owner EXCEPT !.slot = owner.target, !.step = "idle"].status = owner.status OBVIOUS
  <2>6. CASE owner' = [owner EXCEPT !.slot = owner.target, !.step = "idle"] BY <2>2, <2>4, <2>6
  <2>7. CASE owner' = [owner EXCEPT !.status = "error", !.step = "idle"] BY <2>2, <2>4, <2>7
  <2> QED BY <2>3, <2>6, <2>7
<1>16. CASE Device!OwnerHears
  BY <1>16 DEF Device!OwnerHears, Device!Fault
<1>17. CASE Device!Disconnect
  BY <1>17 DEF Device!Disconnect, Device!At
<1>18. CASE Device!DisconnectDeletes
  BY <1>18 DEF Device!DisconnectDeletes, Device!At, Device!Goes, Device!Fault, Device!Ends, Device!NoRow,
    Device!Idle
<1>19. CASE Device!Quit
  <2>5. UNCHANGED withdrawn /\ Device!Fault BY <1>19 DEF Device!Quit
  <2>1. UNCHANGED withdrawn /\ failures' \in 0 .. MaxFailures BY <2>5 DEF Device!Fault
  <2>4. running' \in [Attempts -> Nat] BY <1>19 DEF Device!Quit
  <2>2. client' \in [Attempts -> {"none", "live", "dead"}] BY <1>19 DEF Device!Quit
  <2>3. owner' = Device!Stopped BY <1>19 DEF Device!Quit
  <2> QED BY <2>1, <2>2, <2>3, <2>4 DEF Device!Stopped
<1> QED BY <1>1, <1>2, <1>3, <1>4, <1>5, <1>6, <1>7, <1>8, <1>9, <1>10, <1>11, <1>12, <1>13, <1>14,
    <1>15, <1>16, <1>17, <1>18, <1>19 DEF Device!Next

\* A cancel takes the session before it awaits anything.
LEMMA CancelsStep == ASSUME DeviceHypotheses, DeviceInv, Device!Next PROVE CancelsTake'
<1> USE DEF DeviceHypotheses, DeviceInv, DeviceTyped, CommandsTyped, CommandTyped, Commands, StoredTyped,
    ClientsTyped, CancelsTake, AttemptsGoOn, AttemptOf
<1>1. ASSUME NEW c \in {"begin", "cancel"}, Device!Cancel(c) PROVE CancelsTake'
  BY <1>1 DEF Device!Cancel, Device!At
<1>2. ASSUME NEW c \in {"begin", "cancel"}, Device!CancelStops(c) PROVE CancelsTake'
  BY <1>2 DEF Device!CancelStops, Device!At, Device!Goes
<1>3. ASSUME NEW c \in {"begin", "cancel"}, Device!CancelCleans(c) PROVE CancelsTake'
  BY <1>3 DEF Device!CancelCleans, Device!At, Device!Fault, Device!Idle
<1>4. ASSUME NEW a \in Attempts, Device!Begin(a) PROVE CancelsTake'
  BY <1>4 DEF Device!Begin, Device!At, Device!Ends, Device!Unlinked, Device!Fault, Device!Idle
<1>5. ASSUME NEW a \in Attempts, Device!RunStarts(a) PROVE CancelsTake'
  BY <1>5 DEF Device!RunStarts, Device!Run
<1>6. ASSUME NEW a \in Attempts, Device!RunLaunches(a) PROVE CancelsTake'
  BY <1>6 DEF Device!RunLaunches, Device!Run, Device!Fault
<1>7. ASSUME NEW a \in Attempts, Device!RunHears(a) PROVE CancelsTake'
  BY <1>7 DEF Device!RunHears, Device!Run, Device!Fault
<1>8. CASE Device!TestBegins
  BY <1>8 DEF Device!TestBegins, Device!At
<1>9. CASE Device!TestAnswers
  BY <1>9 DEF Device!TestAnswers, Device!At, Device!Ends, Device!StateAfterTest, Device!Fault,
    Device!Idle
<1>10. CASE Device!FinishBegins
  BY <1>10 DEF Device!FinishBegins, Device!At, Device!ClientStopped
<1>11. CASE Device!Promote
  BY <1>11 DEF Device!Promote, Device!At, Device!Goes, Device!Ends, Device!Fault, Device!Idle
<1>12. CASE Device!FinishStarts
  BY <1>12 DEF Device!FinishStarts, Device!At, Device!OwnerTakes, Device!Ends, Device!OthersStopped,
    Device!Idle
<1>13. CASE Device!Boot
  BY <1>13 DEF Device!Boot, Device!Stopped, Device!OwnerTakes, Device!OthersStopped
<1>14. CASE Device!Reconnect
  BY <1>14 DEF Device!Reconnect, Device!Fault, Device!OwnerTakes, Device!OthersStopped
<1>15. CASE Device!OwnerOpens
  BY <1>15 DEF Device!OwnerOpens, Device!Fault
<1>16. CASE Device!OwnerHears
  BY <1>16 DEF Device!OwnerHears, Device!Fault
<1>17. CASE Device!Disconnect
  BY <1>17 DEF Device!Disconnect, Device!At
<1>18. CASE Device!DisconnectDeletes
  BY <1>18 DEF Device!DisconnectDeletes, Device!At, Device!Goes, Device!Fault, Device!Ends, Device!NoRow,
    Device!Idle
<1>19. CASE Device!Quit
  <2>1. pairing' = "none" /\ \A c \in Commands : cmd'[c] = Device!Idle BY <1>19 DEF Device!Quit
  <2> QED BY <2>1 DEF Device!Idle
<1> QED BY <1>1, <1>2, <1>3, <1>4, <1>5, <1>6, <1>7, <1>8, <1>9, <1>10, <1>11, <1>12, <1>13, <1>14,
    <1>15, <1>16, <1>17, <1>18, <1>19 DEF Device!Next

\* The end of the process ends every attempt that has begun.
LEMMA QuitEnds ==
  ASSUME AttemptsTyped, NEW b \in Attempts, att[b].state # "new", Device!Quit
  PROVE  att'[b].state = "cancelled" /\ att'[b].run = "done" /\ att'[b].tested = att[b].tested
<1>1. att'[b] = [att[b] EXCEPT !.state = "cancelled", !.handle = FALSE, !.run = "done"] BY DEF Device!Quit
<1> QED BY <1>1 DEF AttemptsTyped, Attempt

\* Each step leaves each attempt where it may be.
LEMMA AttemptStep ==
  ASSUME DeviceHypotheses, DeviceInv, NEW b \in Attempts, Device!Next
  PROVE  AttemptOf(b)'
<1> USE DEF DeviceHypotheses, DeviceInv, DeviceTyped, CommandsTyped, CommandTyped, Commands, AttemptsTyped,
    Attempt, Device!States, Device!Terminal, Runs, StoredTyped, ClientsTyped, AttemptsGoOn, AttemptOf
<1>1. ASSUME NEW c \in {"begin", "cancel"}, Device!Cancel(c) PROVE AttemptOf(b)'
  BY <1>1 DEF Device!Cancel, Device!At
<1>2. ASSUME NEW c \in {"begin", "cancel"}, Device!CancelStops(c) PROVE AttemptOf(b)'
  <2>1. CASE b = cmd[c].of BY <1>2, <2>1 DEF Device!CancelStops, Device!At, Device!Goes
  <2>2. CASE b # cmd[c].of BY <1>2, <2>2 DEF Device!CancelStops, Device!At, Device!Goes
  <2> QED BY <2>1, <2>2
<1>3. ASSUME NEW c \in {"begin", "cancel"}, Device!CancelCleans(c) PROVE AttemptOf(b)'
  <2>1. CASE b = cmd[c].of BY <1>3, <2>1 DEF Device!CancelCleans, Device!At, Device!Fault, Device!Idle
  <2>2. CASE b # cmd[c].of BY <1>3, <2>2 DEF Device!CancelCleans, Device!At, Device!Fault, Device!Idle
  <2> QED BY <2>1, <2>2
<1>4. ASSUME NEW a \in Attempts, Device!Begin(a) PROVE AttemptOf(b)'
  <2>1. CASE b = a
    BY <1>4, <2>1 DEF Device!Begin, Device!At, Device!Ends, Device!Unlinked, Device!Fault, Device!Idle
  <2>2. CASE b # a
    BY <1>4, <2>2 DEF Device!Begin, Device!At, Device!Ends, Device!Unlinked, Device!Fault, Device!Idle
  <2> QED BY <2>1, <2>2
<1>5. ASSUME NEW a \in Attempts, Device!RunStarts(a) PROVE AttemptOf(b)'
  <2>1. CASE b = a BY <1>5, <2>1 DEF Device!RunStarts, Device!Run
  <2>2. CASE b # a BY <1>5, <2>2 DEF Device!RunStarts, Device!Run
  <2> QED BY <2>1, <2>2
<1>6. ASSUME NEW a \in Attempts, Device!RunLaunches(a) PROVE AttemptOf(b)'
  <2>1. CASE b = a BY <1>6, <2>1 DEF Device!RunLaunches, Device!Run, Device!Fault
  <2>2. CASE b # a BY <1>6, <2>2 DEF Device!RunLaunches, Device!Run, Device!Fault
  <2> QED BY <2>1, <2>2
<1>7. ASSUME NEW a \in Attempts, Device!RunHears(a) PROVE AttemptOf(b)'
  <2>1. CASE b = a BY <1>7, <2>1 DEF Device!RunHears, Device!Run, Device!Fault
  <2>2. CASE b # a BY <1>7, <2>2 DEF Device!RunHears, Device!Run, Device!Fault
  <2> QED BY <2>1, <2>2
<1>8. CASE Device!TestBegins
  BY <1>8 DEF Device!TestBegins, Device!At
<1>9. CASE Device!TestAnswers
  <2>1. CASE b = cmd["test"].of
    BY <1>9, <2>1 DEF Device!TestAnswers, Device!At, Device!Ends, Device!StateAfterTest, Device!Fault,
        Device!Idle
  <2>2. CASE b # cmd["test"].of
    BY <1>9, <2>2 DEF Device!TestAnswers, Device!At, Device!Ends, Device!StateAfterTest, Device!Fault,
        Device!Idle
  <2> QED BY <2>1, <2>2
<1>10. CASE Device!FinishBegins
  <2>1. CASE b = pairing BY <1>10, <2>1 DEF Device!FinishBegins, Device!At, Device!ClientStopped
  <2>2. CASE b # pairing BY <1>10, <2>2 DEF Device!FinishBegins, Device!At, Device!ClientStopped
  <2> QED BY <2>1, <2>2
<1>11. CASE Device!Promote
  <2>1. UNCHANGED <<att, client, withdrawn>> /\ pairing' \in {pairing, "none"} /\ cmd'["test"] = cmd["test"]
    BY <1>11 DEF Device!Promote, Device!Goes, Device!Ends
  <2> QED BY <2>1
<1>12. CASE Device!FinishStarts
  BY <1>12 DEF Device!FinishStarts, Device!At, Device!OwnerTakes, Device!Ends, Device!OthersStopped,
    Device!Idle
<1>13. CASE Device!Boot
  BY <1>13 DEF Device!Boot, Device!Stopped, Device!OwnerTakes, Device!OthersStopped
<1>14. CASE Device!Reconnect
  BY <1>14 DEF Device!Reconnect, Device!Fault, Device!OwnerTakes, Device!OthersStopped
<1>15. CASE Device!OwnerOpens
  BY <1>15 DEF Device!OwnerOpens, Device!Fault
<1>16. CASE Device!OwnerHears
  BY <1>16 DEF Device!OwnerHears, Device!Fault
<1>17. CASE Device!Disconnect
  BY <1>17 DEF Device!Disconnect, Device!At
<1>18. CASE Device!DisconnectDeletes
  BY <1>18 DEF Device!DisconnectDeletes, Device!At, Device!Goes, Device!Fault, Device!Ends, Device!NoRow,
    Device!Idle
<1>19. CASE Device!Quit
  <2>1. CASE att[b].state = "new" BY <1>19, <2>1 DEF Device!Quit, Device!Idle
  <2>2. CASE att[b].state # "new"
    <3>2. att'[b].state = "cancelled" /\ att'[b].run = "done" /\ att'[b].tested = att[b].tested
      BY <1>19, <2>2, QuitEnds
    <3>3. client'[b] # "live" /\ cmd'["test"].of = "none" BY <1>19 DEF Device!Quit, Device!Idle
    <3> QED BY <3>2, <3>3
  <2> QED BY <2>1, <2>2
<1> QED BY <1>1, <1>2, <1>3, <1>4, <1>5, <1>6, <1>7, <1>8, <1>9, <1>10, <1>11, <1>12, <1>13, <1>14,
    <1>15, <1>16, <1>17, <1>18, <1>19 DEF Device!Next

\* What is settled stays so.
LEMMA SettledStays ==
  ASSUME DeviceHypotheses, DeviceInv, NEW b \in Attempts, Settled(b), Device!Next
  PROVE  Settled(b)'
<1> USE DEF DeviceHypotheses, DeviceInv, DeviceTyped, CommandsTyped, CommandTyped, Commands, AttemptsTyped,
    Attempt, Device!States, Device!Terminal, Runs, StoredTyped, ClientsTyped, AttemptsGoOn, AttemptOf,
    Settled
<1>1. ASSUME NEW c \in {"begin", "cancel"}, Device!Cancel(c) PROVE Settled(b)'
  BY <1>1 DEF Device!Cancel, Device!At
<1>2. ASSUME NEW c \in {"begin", "cancel"}, Device!CancelStops(c) PROVE Settled(b)'
  <2>1. CASE b = cmd[c].of BY <1>2, <2>1 DEF Device!CancelStops, Device!At, Device!Goes
  <2>2. CASE b # cmd[c].of BY <1>2, <2>2 DEF Device!CancelStops, Device!At, Device!Goes
  <2> QED BY <2>1, <2>2
<1>3. ASSUME NEW c \in {"begin", "cancel"}, Device!CancelCleans(c) PROVE Settled(b)'
  <2>1. CASE b = cmd[c].of BY <1>3, <2>1 DEF Device!CancelCleans, Device!At, Device!Fault, Device!Idle
  <2>2. CASE b # cmd[c].of BY <1>3, <2>2 DEF Device!CancelCleans, Device!At, Device!Fault, Device!Idle
  <2> QED BY <2>1, <2>2
<1>4. ASSUME NEW a \in Attempts, Device!Begin(a) PROVE Settled(b)'
  <2>1. CASE b = a
    BY <1>4, <2>1 DEF Device!Begin, Device!At, Device!Ends, Device!Unlinked, Device!Fault, Device!Idle
  <2>2. CASE b # a
    BY <1>4, <2>2 DEF Device!Begin, Device!At, Device!Ends, Device!Unlinked, Device!Fault, Device!Idle
  <2> QED BY <2>1, <2>2
<1>5. ASSUME NEW a \in Attempts, Device!RunStarts(a) PROVE Settled(b)'
  <2>1. CASE b = a BY <1>5, <2>1 DEF Device!RunStarts, Device!Run
  <2>2. CASE b # a BY <1>5, <2>2 DEF Device!RunStarts, Device!Run
  <2> QED BY <2>1, <2>2
<1>6. ASSUME NEW a \in Attempts, Device!RunLaunches(a) PROVE Settled(b)'
  <2>1. CASE b = a BY <1>6, <2>1 DEF Device!RunLaunches, Device!Run, Device!Fault
  <2>2. CASE b # a BY <1>6, <2>2 DEF Device!RunLaunches, Device!Run, Device!Fault
  <2> QED BY <2>1, <2>2
<1>7. ASSUME NEW a \in Attempts, Device!RunHears(a) PROVE Settled(b)'
  <2>1. CASE b = a BY <1>7, <2>1 DEF Device!RunHears, Device!Run, Device!Fault
  <2>2. CASE b # a BY <1>7, <2>2 DEF Device!RunHears, Device!Run, Device!Fault
  <2> QED BY <2>1, <2>2
<1>8. CASE Device!TestBegins
  BY <1>8 DEF Device!TestBegins, Device!At
<1>9. CASE Device!TestAnswers
  <2>1. CASE b = cmd["test"].of
    BY <1>9, <2>1 DEF Device!TestAnswers, Device!At, Device!Ends, Device!StateAfterTest, Device!Fault,
        Device!Idle
  <2>2. CASE b # cmd["test"].of
    BY <1>9, <2>2 DEF Device!TestAnswers, Device!At, Device!Ends, Device!StateAfterTest, Device!Fault,
        Device!Idle
  <2> QED BY <2>1, <2>2
<1>10. CASE Device!FinishBegins
  <2>1. CASE b = pairing BY <1>10, <2>1 DEF Device!FinishBegins, Device!At, Device!ClientStopped
  <2>2. CASE b # pairing BY <1>10, <2>2 DEF Device!FinishBegins, Device!At, Device!ClientStopped
  <2> QED BY <2>1, <2>2
<1>11. CASE Device!Promote
  BY <1>11 DEF Device!Promote, Device!At, Device!Goes, Device!Ends, Device!Fault, Device!Idle
<1>12. CASE Device!FinishStarts
  BY <1>12 DEF Device!FinishStarts, Device!At, Device!OwnerTakes, Device!Ends, Device!OthersStopped,
    Device!Idle
<1>13. CASE Device!Boot
  BY <1>13 DEF Device!Boot, Device!Stopped, Device!OwnerTakes, Device!OthersStopped
<1>14. CASE Device!Reconnect
  BY <1>14 DEF Device!Reconnect, Device!Fault, Device!OwnerTakes, Device!OthersStopped
<1>15. CASE Device!OwnerOpens
  BY <1>15 DEF Device!OwnerOpens, Device!Fault
<1>16. CASE Device!OwnerHears
  BY <1>16 DEF Device!OwnerHears, Device!Fault
<1>17. CASE Device!Disconnect
  BY <1>17 DEF Device!Disconnect, Device!At
<1>18. CASE Device!DisconnectDeletes
  BY <1>18 DEF Device!DisconnectDeletes, Device!At, Device!Goes, Device!Fault, Device!Ends, Device!NoRow,
    Device!Idle
<1>19. CASE Device!Quit
  <2>1. CASE att[b].state = "new" BY <1>19, <2>1 DEF Device!Quit, Device!Idle
  <2>2. CASE att[b].state # "new"
    <3>2. att'[b].state = "cancelled" /\ att'[b].run = "done" /\ att'[b].tested = att[b].tested
      BY <1>19, <2>2, QuitEnds
    <3>3. client'[b] # "live" /\ cmd'["test"].of = "none" BY <1>19 DEF Device!Quit, Device!Idle
    <3> QED BY <3>2, <3>3
  <2> QED BY <2>1, <2>2
<1> QED BY <1>1, <1>2, <1>3, <1>4, <1>5, <1>6, <1>7, <1>8, <1>9, <1>10, <1>11, <1>12, <1>13, <1>14,
    <1>15, <1>16, <1>17, <1>18, <1>19 DEF Device!Next

\* A run is spawned only for the attempt that gets the session.
LEMMA SpawnedStep ==
  ASSUME DeviceHypotheses, DeviceInv, NEW b \in Attempts, Device!Next
  PROVE  att'[b].run = "spawned" => att[b].run = "spawned" \/ pairing' = b
<1> USE DEF DeviceHypotheses, DeviceInv, DeviceTyped, CommandsTyped, CommandTyped, Commands, AttemptsTyped,
    Attempt, Device!States, Device!Terminal, Runs, StoredTyped, ClientsTyped, AttemptsGoOn, AttemptOf
<1>1. ASSUME NEW c \in {"begin", "cancel"}, Device!Cancel(c)
      PROVE  att'[b].run = "spawned" => att[b].run = "spawned" \/ pairing' = b
  BY <1>1 DEF Device!Cancel, Device!At
<1>2. ASSUME NEW c \in {"begin", "cancel"}, Device!CancelStops(c)
      PROVE  att'[b].run = "spawned" => att[b].run = "spawned" \/ pairing' = b
  <2>1. CASE b = cmd[c].of BY <1>2, <2>1 DEF Device!CancelStops, Device!At, Device!Goes
  <2>2. CASE b # cmd[c].of BY <1>2, <2>2 DEF Device!CancelStops, Device!At, Device!Goes
  <2> QED BY <2>1, <2>2
<1>3. ASSUME NEW c \in {"begin", "cancel"}, Device!CancelCleans(c)
      PROVE  att'[b].run = "spawned" => att[b].run = "spawned" \/ pairing' = b
  <2>1. CASE b = cmd[c].of BY <1>3, <2>1 DEF Device!CancelCleans, Device!At, Device!Fault, Device!Idle
  <2>2. CASE b # cmd[c].of BY <1>3, <2>2 DEF Device!CancelCleans, Device!At, Device!Fault, Device!Idle
  <2> QED BY <2>1, <2>2
<1>4. ASSUME NEW a \in Attempts, Device!Begin(a)
      PROVE  att'[b].run = "spawned" => att[b].run = "spawned" \/ pairing' = b
  <2>1. CASE b = a
    BY <1>4, <2>1 DEF Device!Begin, Device!At, Device!Ends, Device!Unlinked, Device!Fault, Device!Idle
  <2>2. CASE b # a
    BY <1>4, <2>2 DEF Device!Begin, Device!At, Device!Ends, Device!Unlinked, Device!Fault, Device!Idle
  <2> QED BY <2>1, <2>2
<1>5. ASSUME NEW a \in Attempts, Device!RunStarts(a)
      PROVE  att'[b].run = "spawned" => att[b].run = "spawned" \/ pairing' = b
  <2>1. CASE b = a BY <1>5, <2>1 DEF Device!RunStarts, Device!Run
  <2>2. CASE b # a BY <1>5, <2>2 DEF Device!RunStarts, Device!Run
  <2> QED BY <2>1, <2>2
<1>6. ASSUME NEW a \in Attempts, Device!RunLaunches(a)
      PROVE  att'[b].run = "spawned" => att[b].run = "spawned" \/ pairing' = b
  <2>1. CASE b = a BY <1>6, <2>1 DEF Device!RunLaunches, Device!Run, Device!Fault
  <2>2. CASE b # a BY <1>6, <2>2 DEF Device!RunLaunches, Device!Run, Device!Fault
  <2> QED BY <2>1, <2>2
<1>7. ASSUME NEW a \in Attempts, Device!RunHears(a)
      PROVE  att'[b].run = "spawned" => att[b].run = "spawned" \/ pairing' = b
  <2>1. CASE b = a BY <1>7, <2>1 DEF Device!RunHears, Device!Run, Device!Fault
  <2>2. CASE b # a BY <1>7, <2>2 DEF Device!RunHears, Device!Run, Device!Fault
  <2> QED BY <2>1, <2>2
<1>8. CASE Device!TestBegins
  BY <1>8 DEF Device!TestBegins, Device!At
<1>9. CASE Device!TestAnswers
  <2>1. CASE b = cmd["test"].of
    BY <1>9, <2>1 DEF Device!TestAnswers, Device!At, Device!Ends, Device!StateAfterTest, Device!Fault,
        Device!Idle
  <2>2. CASE b # cmd["test"].of
    BY <1>9, <2>2 DEF Device!TestAnswers, Device!At, Device!Ends, Device!StateAfterTest, Device!Fault,
        Device!Idle
  <2> QED BY <2>1, <2>2
<1>10. CASE Device!FinishBegins
  <2>1. CASE b = pairing BY <1>10, <2>1 DEF Device!FinishBegins, Device!At, Device!ClientStopped
  <2>2. CASE b # pairing BY <1>10, <2>2 DEF Device!FinishBegins, Device!At, Device!ClientStopped
  <2> QED BY <2>1, <2>2
<1>11. CASE Device!Promote
  BY <1>11 DEF Device!Promote, Device!At, Device!Goes, Device!Ends, Device!Fault, Device!Idle
<1>12. CASE Device!FinishStarts
  BY <1>12 DEF Device!FinishStarts, Device!At, Device!OwnerTakes, Device!Ends, Device!OthersStopped,
    Device!Idle
<1>13. CASE Device!Boot
  BY <1>13 DEF Device!Boot, Device!Stopped, Device!OwnerTakes, Device!OthersStopped
<1>14. CASE Device!Reconnect
  BY <1>14 DEF Device!Reconnect, Device!Fault, Device!OwnerTakes, Device!OthersStopped
<1>15. CASE Device!OwnerOpens
  BY <1>15 DEF Device!OwnerOpens, Device!Fault
<1>16. CASE Device!OwnerHears
  BY <1>16 DEF Device!OwnerHears, Device!Fault
<1>17. CASE Device!Disconnect
  BY <1>17 DEF Device!Disconnect, Device!At
<1>18. CASE Device!DisconnectDeletes
  BY <1>18 DEF Device!DisconnectDeletes, Device!At, Device!Goes, Device!Fault, Device!Ends, Device!NoRow,
    Device!Idle
<1>19. CASE Device!Quit
  <2>1. CASE att[b].state = "new" BY <1>19, <2>1 DEF Device!Quit, Device!Idle
  <2>2. CASE att[b].state # "new"
    <3>2. att'[b].state = "cancelled" /\ att'[b].run = "done" /\ att'[b].tested = att[b].tested
      BY <1>19, <2>2, QuitEnds
    <3>3. client'[b] # "live" /\ cmd'["test"].of = "none" BY <1>19 DEF Device!Quit, Device!Idle
    <3> QED BY <3>2, <3>3
  <2> QED BY <2>1, <2>2
<1> QED BY <1>1, <1>2, <1>3, <1>4, <1>5, <1>6, <1>7, <1>8, <1>9, <1>10, <1>11, <1>12, <1>13, <1>14,
    <1>15, <1>16, <1>17, <1>18, <1>19 DEF Device!Next

\* Where the row and the owner get whom they are of.
Targets ==
  /\ cmd'["finish"].of \in {cmd["finish"].of, "none"} \/ Device!FinishBegins
  /\ link'.of \in {link.of, "none", cmd["finish"].of}
  /\ owner'.target \in {owner.target, "none", cmd["finish"].of, link.of}

LEMMA TargetsMove == ASSUME DeviceHypotheses, DeviceInv, Device!Next PROVE Targets
<1> USE DEF Targets, DeviceHypotheses, DeviceInv, DeviceTyped, CommandsTyped, CommandTyped, Commands,
    StoredTyped, ClientsTyped, OwnerHoldsOne
<1>1. ASSUME NEW c \in {"begin", "cancel"}, Device!Cancel(c) PROVE Targets
  BY <1>1 DEF Device!Cancel, Device!At
<1>2. ASSUME NEW c \in {"begin", "cancel"}, Device!CancelStops(c) PROVE Targets
  BY <1>2 DEF Device!CancelStops, Device!At, Device!Goes
<1>3. ASSUME NEW c \in {"begin", "cancel"}, Device!CancelCleans(c) PROVE Targets
  BY <1>3 DEF Device!CancelCleans, Device!At, Device!Fault, Device!Idle
<1>4. ASSUME NEW a \in Attempts, Device!Begin(a) PROVE Targets
  BY <1>4 DEF Device!Begin, Device!At, Device!Ends, Device!Unlinked, Device!Fault, Device!Idle
<1>5. ASSUME NEW a \in Attempts, Device!RunStarts(a) PROVE Targets
  BY <1>5 DEF Device!RunStarts, Device!Run
<1>6. ASSUME NEW a \in Attempts, Device!RunLaunches(a) PROVE Targets
  BY <1>6 DEF Device!RunLaunches, Device!Run, Device!Fault
<1>7. ASSUME NEW a \in Attempts, Device!RunHears(a) PROVE Targets
  BY <1>7 DEF Device!RunHears, Device!Run, Device!Fault
<1>8. CASE Device!TestBegins
  BY <1>8 DEF Device!TestBegins, Device!At
<1>9. CASE Device!TestAnswers
  BY <1>9 DEF Device!TestAnswers, Device!At, Device!Ends, Device!StateAfterTest, Device!Fault,
    Device!Idle
<1>10. CASE Device!FinishBegins
  BY <1>10 DEF Device!FinishBegins, Device!At, Device!ClientStopped
<1>11. CASE Device!Promote
  BY <1>11 DEF Device!Promote, Device!At, Device!Goes, Device!Ends, Device!Fault, Device!Idle
<1>12. CASE Device!FinishStarts
  BY <1>12 DEF Device!FinishStarts, Device!At, Device!OwnerTakes, Device!Ends, Device!OthersStopped,
    Device!Idle
<1>13. CASE Device!Boot
  BY <1>13 DEF Device!Boot, Device!Stopped, Device!OwnerTakes, Device!OthersStopped
<1>14. CASE Device!Reconnect
  BY <1>14 DEF Device!Reconnect, Device!Fault, Device!OwnerTakes, Device!OthersStopped
<1>15. CASE Device!OwnerOpens
  BY <1>15 DEF Device!OwnerOpens, Device!Fault
<1>16. CASE Device!OwnerHears
  BY <1>16 DEF Device!OwnerHears, Device!Fault
<1>17. CASE Device!Disconnect
  BY <1>17 DEF Device!Disconnect, Device!At
<1>18. CASE Device!DisconnectDeletes
  BY <1>18 DEF Device!DisconnectDeletes, Device!At, Device!Goes, Device!Fault, Device!Ends, Device!NoRow,
    Device!Idle
<1>19. CASE Device!Quit
  BY <1>19 DEF Device!Quit, Device!Fault, Device!Idle, Device!Stopped
<1> QED BY <1>1, <1>2, <1>3, <1>4, <1>5, <1>6, <1>7, <1>8, <1>9, <1>10, <1>11, <1>12, <1>13, <1>14,
    <1>15, <1>16, <1>17, <1>18, <1>19 DEF Device!Next

\* A start of the owner stops the client it holds first.
LEMMA OwnerStep == ASSUME DeviceHypotheses, DeviceInv, Device!Next PROVE OwnerHoldsOne'
<1> USE DEF DeviceHypotheses, DeviceInv, DeviceTyped, CommandsTyped, CommandTyped, Commands, ClientsTyped,
    OwnerHoldsOne, PairedIsSettled
<1>1. ASSUME NEW c \in {"begin", "cancel"}, Device!Cancel(c) PROVE OwnerHoldsOne'
  BY <1>1 DEF Device!Cancel, Device!At
<1>2. ASSUME NEW c \in {"begin", "cancel"}, Device!CancelStops(c) PROVE OwnerHoldsOne'
  BY <1>2 DEF Device!CancelStops, Device!At, Device!Goes
<1>3. ASSUME NEW c \in {"begin", "cancel"}, Device!CancelCleans(c) PROVE OwnerHoldsOne'
  BY <1>3 DEF Device!CancelCleans, Device!At, Device!Fault, Device!Idle
<1>4. ASSUME NEW a \in Attempts, Device!Begin(a) PROVE OwnerHoldsOne'
  BY <1>4 DEF Device!Begin, Device!At, Device!Ends, Device!Unlinked, Device!Fault, Device!Idle
<1>5. ASSUME NEW a \in Attempts, Device!RunStarts(a) PROVE OwnerHoldsOne'
  BY <1>5 DEF Device!RunStarts, Device!Run
<1>6. ASSUME NEW a \in Attempts, Device!RunLaunches(a) PROVE OwnerHoldsOne'
  BY <1>6 DEF Device!RunLaunches, Device!Run, Device!Fault
<1>7. ASSUME NEW a \in Attempts, Device!RunHears(a) PROVE OwnerHoldsOne'
  BY <1>7 DEF Device!RunHears, Device!Run, Device!Fault
<1>8. CASE Device!TestBegins
  BY <1>8 DEF Device!TestBegins, Device!At
<1>9. CASE Device!TestAnswers
  BY <1>9 DEF Device!TestAnswers, Device!At, Device!Ends, Device!StateAfterTest, Device!Fault,
    Device!Idle
<1>10. CASE Device!FinishBegins
  BY <1>10 DEF Device!FinishBegins, Device!At, Device!ClientStopped
<1>11. CASE Device!Promote
  BY <1>11 DEF Device!Promote, Device!At, Device!Goes, Device!Ends, Device!Fault, Device!Idle
<1>12. CASE Device!FinishStarts
  BY <1>12 DEF Device!FinishStarts, Device!At, Device!OwnerTakes, Device!Ends, Device!OthersStopped,
    Device!Idle
<1>13. CASE Device!Boot
  <2>1. link.of \in Attempts BY <1>13 DEF Device!Boot, StoredTyped
  <2> QED BY <1>13, <2>1 DEF Device!Boot, Device!Stopped, Device!OwnerTakes, Device!OthersStopped
<1>14. CASE Device!Reconnect
  BY <1>14 DEF Device!Reconnect, Device!Fault, Device!OwnerTakes, Device!OthersStopped
<1>15. CASE Device!OwnerOpens
  <2>1. owner.step = "open" /\ owner.slot = "none" /\ owner.target \in Attempts BY <1>15 DEF Device!OwnerOpens
  <2>2. CASE owner' = [owner EXCEPT !.slot = owner.target, !.step = "idle"] /\ running' = [running EXCEPT ![owner.target] = @ + 1]
    BY <2>1, <2>2
  <2>3. CASE owner' = [owner EXCEPT !.status = "error", !.step = "idle"] /\ running' = running BY <2>1, <2>3
  <2> QED BY <1>15, <2>2, <2>3 DEF Device!OwnerOpens
<1>16. CASE Device!OwnerHears
  BY <1>16 DEF Device!OwnerHears, Device!Fault
<1>17. CASE Device!Disconnect
  BY <1>17 DEF Device!Disconnect, Device!At
<1>18. CASE Device!DisconnectDeletes
  BY <1>18 DEF Device!DisconnectDeletes, Device!At, Device!Goes, Device!Fault, Device!Ends, Device!NoRow,
    Device!Idle
<1>19. CASE Device!Quit
  BY <1>19 DEF Device!Quit, Device!Fault, Device!Idle, Device!Stopped
<1> QED BY <1>1, <1>2, <1>3, <1>4, <1>5, <1>6, <1>7, <1>8, <1>9, <1>10, <1>11, <1>12, <1>13, <1>14,
    <1>15, <1>16, <1>17, <1>18, <1>19 DEF Device!Next

\* Where key, database and session go while no pairing is disturbed.
LEMMA FollowingStep ==
  ASSUME DeviceHypotheses, DeviceInv, Following, SpawnedHasSession, Undisturbed', Device!Next
  PROVE  Following'
<1> USE DEF DeviceHypotheses, DeviceInv, DeviceTyped, CommandsTyped, CommandTyped, Commands, StoredTyped,
    ClientsTyped, CancelsTake, AttemptsGoOn, AttemptOf, Following, Undisturbed
<1>1. ASSUME NEW c \in {"begin", "cancel"}, Device!Cancel(c) PROVE Following'
  BY <1>1 DEF Device!Cancel, Device!At
<1>2. ASSUME NEW c \in {"begin", "cancel"}, Device!CancelStops(c) PROVE Following'
  BY <1>2 DEF Device!CancelStops, Device!At, Device!Goes
<1>3. ASSUME NEW c \in {"begin", "cancel"}, Device!CancelCleans(c) PROVE Following'
  BY <1>3 DEF Device!CancelCleans, Device!At, Device!Fault, Device!Idle
<1>4. ASSUME NEW a \in Attempts, Device!Begin(a) PROVE Following'
  BY <1>4 DEF Device!Begin, Device!At, Device!Ends, Device!Unlinked, Device!Fault, Device!Idle
<1>5. ASSUME NEW a \in Attempts, Device!RunStarts(a) PROVE Following'
  <2>1. pairing = a BY <1>5 DEF Device!RunStarts, Device!Run, SpawnedHasSession
  <2>2. staging' \in {staging, a} /\ UNCHANGED <<pairing, cmd, keys, final, link, withdrawn>>
    BY <1>5 DEF Device!RunStarts
  <2> QED BY <2>1, <2>2
<1>6. ASSUME NEW a \in Attempts, Device!RunLaunches(a) PROVE Following'
  BY <1>6 DEF Device!RunLaunches, Device!Run, Device!Fault
<1>7. ASSUME NEW a \in Attempts, Device!RunHears(a) PROVE Following'
  BY <1>7 DEF Device!RunHears, Device!Run, Device!Fault
<1>8. CASE Device!TestBegins
  BY <1>8 DEF Device!TestBegins, Device!At
<1>9. CASE Device!TestAnswers
  BY <1>9 DEF Device!TestAnswers, Device!At, Device!Ends, Device!StateAfterTest, Device!Fault,
    Device!Idle
<1>10. CASE Device!FinishBegins
  BY <1>10 DEF Device!FinishBegins, Device!At, Device!ClientStopped
<1>11. CASE Device!Promote
  BY <1>11 DEF Device!Promote, Device!At, Device!Goes, Device!Ends, Device!Fault, Device!Idle
<1>12. CASE Device!FinishStarts
  BY <1>12 DEF Device!FinishStarts, Device!At, Device!OwnerTakes, Device!Ends, Device!OthersStopped,
    Device!Idle
<1>13. CASE Device!Boot
  BY <1>13 DEF Device!Boot, Device!Stopped, Device!OwnerTakes, Device!OthersStopped
<1>14. CASE Device!Reconnect
  BY <1>14 DEF Device!Reconnect, Device!Fault, Device!OwnerTakes, Device!OthersStopped
<1>15. CASE Device!OwnerOpens
  BY <1>15 DEF Device!OwnerOpens, Device!Fault
<1>16. CASE Device!OwnerHears
  BY <1>16 DEF Device!OwnerHears, Device!Fault
<1>17. CASE Device!Disconnect
  BY <1>17 DEF Device!Disconnect, Device!At
<1>18. CASE Device!DisconnectDeletes
  BY <1>18 DEF Device!DisconnectDeletes, Device!At, Device!Goes, Device!Fault, Device!Ends, Device!NoRow,
    Device!Idle
<1>19. CASE Device!Quit
  BY <1>19 DEF Device!Quit, Device!Fault, Device!Idle, Device!Stopped
<1> QED BY <1>1, <1>2, <1>3, <1>4, <1>5, <1>6, <1>7, <1>8, <1>9, <1>10, <1>11, <1>12, <1>13, <1>14,
    <1>15, <1>16, <1>17, <1>18, <1>19 DEF Device!Next

\* What was cancelled stays so.
LEMMA UndisturbedBefore ==
  ASSUME DeviceHypotheses, DeviceInv, Device!Next, Undisturbed'
  PROVE  Undisturbed
<1> USE DEF DeviceHypotheses, DeviceInv, DeviceTyped, CommandsTyped, CommandTyped, Commands, StoredTyped,
    ClientsTyped, CancelsTake, Undisturbed
<1>1. ASSUME NEW c \in {"begin", "cancel"}, Device!Cancel(c) PROVE Undisturbed
  BY <1>1 DEF Device!Cancel, Device!At
<1>2. ASSUME NEW c \in {"begin", "cancel"}, Device!CancelStops(c) PROVE Undisturbed
  BY <1>2 DEF Device!CancelStops, Device!At, Device!Goes
<1>3. ASSUME NEW c \in {"begin", "cancel"}, Device!CancelCleans(c) PROVE Undisturbed
  BY <1>3 DEF Device!CancelCleans, Device!At, Device!Fault, Device!Idle
<1>4. ASSUME NEW a \in Attempts, Device!Begin(a) PROVE Undisturbed
  BY <1>4 DEF Device!Begin, Device!At, Device!Ends, Device!Unlinked, Device!Fault, Device!Idle
<1>5. ASSUME NEW a \in Attempts, Device!RunStarts(a) PROVE Undisturbed
  BY <1>5 DEF Device!RunStarts, Device!Run
<1>6. ASSUME NEW a \in Attempts, Device!RunLaunches(a) PROVE Undisturbed
  BY <1>6 DEF Device!RunLaunches, Device!Run, Device!Fault
<1>7. ASSUME NEW a \in Attempts, Device!RunHears(a) PROVE Undisturbed
  BY <1>7 DEF Device!RunHears, Device!Run, Device!Fault
<1>8. CASE Device!TestBegins
  BY <1>8 DEF Device!TestBegins, Device!At
<1>9. CASE Device!TestAnswers
  BY <1>9 DEF Device!TestAnswers, Device!At, Device!Ends, Device!StateAfterTest, Device!Fault,
    Device!Idle
<1>10. CASE Device!FinishBegins
  BY <1>10 DEF Device!FinishBegins, Device!At, Device!ClientStopped
<1>11. CASE Device!Promote
  BY <1>11 DEF Device!Promote, Device!At, Device!Goes, Device!Ends, Device!Fault, Device!Idle
<1>12. CASE Device!FinishStarts
  BY <1>12 DEF Device!FinishStarts, Device!At, Device!OwnerTakes, Device!Ends, Device!OthersStopped,
    Device!Idle
<1>13. CASE Device!Boot
  BY <1>13 DEF Device!Boot, Device!Stopped, Device!OwnerTakes, Device!OthersStopped
<1>14. CASE Device!Reconnect
  BY <1>14 DEF Device!Reconnect, Device!Fault, Device!OwnerTakes, Device!OthersStopped
<1>15. CASE Device!OwnerOpens
  BY <1>15 DEF Device!OwnerOpens, Device!Fault
<1>16. CASE Device!OwnerHears
  BY <1>16 DEF Device!OwnerHears, Device!Fault
<1>17. CASE Device!Disconnect
  BY <1>17 DEF Device!Disconnect, Device!At
<1>18. CASE Device!DisconnectDeletes
  BY <1>18 DEF Device!DisconnectDeletes, Device!At, Device!Goes, Device!Fault, Device!Ends, Device!NoRow,
    Device!Idle
<1>19. CASE Device!Quit
  BY <1>19 DEF Device!Quit, Device!Fault, Device!Idle, Device!Stopped
<1> QED BY <1>1, <1>2, <1>3, <1>4, <1>5, <1>6, <1>7, <1>8, <1>9, <1>10, <1>11, <1>12, <1>13, <1>14,
    <1>15, <1>16, <1>17, <1>18, <1>19 DEF Device!Next

\* An attempt keeps the session until its run begins, or ends.
LEMMA SpawnedKeeps ==
  ASSUME DeviceHypotheses, DeviceInv, NEW b \in Attempts, pairing = b, att[b].run = "spawned", Undisturbed',
         Following, Device!Next
  PROVE  (pairing' = b \/ att'[b].run # "spawned")
<1> USE DEF DeviceHypotheses, DeviceInv, DeviceTyped, CommandsTyped, CommandTyped, Commands, StoredTyped,
    ClientsTyped, AttemptsTyped, Attempt, Runs, Device!States, CancelsTake, AttemptsGoOn, AttemptOf,
    PairedIsSettled, Settled, Following, Undisturbed
<1>1. ASSUME NEW c \in {"begin", "cancel"}, Device!Cancel(c) PROVE (pairing' = b \/ att'[b].run # "spawned")
  BY <1>1 DEF Device!Cancel, Device!At
<1>2. ASSUME NEW c \in {"begin", "cancel"}, Device!CancelStops(c)
      PROVE  (pairing' = b \/ att'[b].run # "spawned")
  BY <1>2 DEF Device!CancelStops, Device!At, Device!Goes
<1>3. ASSUME NEW c \in {"begin", "cancel"}, Device!CancelCleans(c)
      PROVE  (pairing' = b \/ att'[b].run # "spawned")
  BY <1>3 DEF Device!CancelCleans, Device!At, Device!Fault, Device!Idle
<1>4. ASSUME NEW a \in Attempts, Device!Begin(a) PROVE (pairing' = b \/ att'[b].run # "spawned")
  BY <1>4 DEF Device!Begin, Device!At, Device!Ends, Device!Unlinked, Device!Fault, Device!Idle
<1>5. ASSUME NEW a \in Attempts, Device!RunStarts(a) PROVE (pairing' = b \/ att'[b].run # "spawned")
  BY <1>5 DEF Device!RunStarts, Device!Run
<1>6. ASSUME NEW a \in Attempts, Device!RunLaunches(a) PROVE (pairing' = b \/ att'[b].run # "spawned")
  BY <1>6 DEF Device!RunLaunches, Device!Run, Device!Fault
<1>7. ASSUME NEW a \in Attempts, Device!RunHears(a) PROVE (pairing' = b \/ att'[b].run # "spawned")
  BY <1>7 DEF Device!RunHears, Device!Run, Device!Fault
<1>8. CASE Device!TestBegins
  BY <1>8 DEF Device!TestBegins, Device!At
<1>9. CASE Device!TestAnswers
  BY <1>9 DEF Device!TestAnswers, Device!At, Device!Ends, Device!StateAfterTest, Device!Fault,
    Device!Idle
<1>10. CASE Device!FinishBegins
  BY <1>10 DEF Device!FinishBegins, Device!At, Device!ClientStopped
<1>11. CASE Device!Promote
  BY <1>11 DEF Device!Promote, Device!At, Device!Goes, Device!Ends, Device!Fault, Device!Idle
<1>12. CASE Device!FinishStarts
  BY <1>12 DEF Device!FinishStarts, Device!At, Device!OwnerTakes, Device!Ends, Device!OthersStopped,
    Device!Idle
<1>13. CASE Device!Boot
  BY <1>13 DEF Device!Boot, Device!Stopped, Device!OwnerTakes, Device!OthersStopped
<1>14. CASE Device!Reconnect
  BY <1>14 DEF Device!Reconnect, Device!Fault, Device!OwnerTakes, Device!OthersStopped
<1>15. CASE Device!OwnerOpens
  BY <1>15 DEF Device!OwnerOpens, Device!Fault
<1>16. CASE Device!OwnerHears
  BY <1>16 DEF Device!OwnerHears, Device!Fault
<1>17. CASE Device!Disconnect
  BY <1>17 DEF Device!Disconnect, Device!At
<1>18. CASE Device!DisconnectDeletes
  BY <1>18 DEF Device!DisconnectDeletes, Device!At, Device!Goes, Device!Fault, Device!Ends, Device!NoRow,
    Device!Idle
<1>19. CASE Device!Quit
  BY <1>19, QuitEnds DEF Device!Quit
<1> QED BY <1>1, <1>2, <1>3, <1>4, <1>5, <1>6, <1>7, <1>8, <1>9, <1>10, <1>11, <1>12, <1>13, <1>14,
    <1>15, <1>16, <1>17, <1>18, <1>19 DEF Device!Next

\* What is completed is ready.
LEMMA PairedStep == ASSUME DeviceHypotheses, DeviceInv, Device!Next PROVE PairedIsSettled'
<1>1. Targets BY TargetsMove
<1>2. \A b \in Attempts : Settled(b) => Settled(b)' BY SettledStays
<1>3. {cmd["finish"].of, link.of, owner.target} \subseteq Attempts \cup {"none"}
  BY DEF DeviceHypotheses, DeviceInv, DeviceTyped, CommandsTyped, CommandTyped, Commands, StoredTyped,
      ClientsTyped, Device!Idle
<1>4. CASE Device!FinishBegins
  <2>1. cmd'["finish"].of = pairing /\ pairing \in Attempts /\ att[pairing].state = "ready"
    BY <1>4 DEF Device!FinishBegins, DeviceInv, DeviceTyped, CommandsTyped, Commands, StoredTyped
  <2>2. AttemptOf(pairing) BY <2>1 DEF DeviceInv, AttemptsGoOn
  <2>3. att[pairing].run = "done" /\ att[pairing].tested BY <2>1, <2>2 DEF AttemptOf
  <2>4. att'[pairing].run = "done" /\ att'[pairing].tested
    BY <1>4, <2>1, <2>3 DEF Device!FinishBegins, DeviceInv, DeviceTyped, AttemptsTyped, Attempt
  <2>5. client'[pairing] # "live"
    BY <1>4, <2>1, <2>2 DEF Device!FinishBegins, Device!ClientStopped, AttemptOf, DeviceInv, DeviceTyped,
        ClientsTyped
  <2>6. UNCHANGED <<link, owner>> BY <1>4 DEF Device!FinishBegins
  <2>8. Settled(cmd["finish"].of)' BY <2>1, <2>4, <2>5 DEF Settled
  <2> QED BY <1>2, <1>3, <2>6, <2>8 DEF PairedIsSettled, DeviceInv
<1>5. CASE ~Device!FinishBegins
  <2>1. cmd'["finish"].of \in {cmd["finish"].of, "none"} BY <1>1, <1>5 DEF Targets
  <2> QED BY <1>1, <1>2, <1>3, <2>1 DEF Targets, PairedIsSettled, DeviceInv
<1> QED BY <1>4, <1>5

\* So key and database follow.
LEMMA KeyStep == ASSUME DeviceHypotheses, DeviceInv, Device!Next PROVE KeyFollows'
<1> SUFFICES ASSUME Undisturbed' PROVE Following' /\ SpawnedHasSession' BY DEF KeyFollows
<1>1. Following /\ SpawnedHasSession BY UndisturbedBefore DEF KeyFollows, DeviceInv
<1>2. Following' BY <1>1, FollowingStep
<1>3. ASSUME NEW b \in Attempts, att'[b].run = "spawned" PROVE pairing' = b
  <2>1. att[b].run = "spawned" \/ pairing' = b BY <1>3, SpawnedStep
  <2>2. CASE att[b].run = "spawned"
    <3>1. pairing = b BY <1>1, <2>2 DEF SpawnedHasSession
    <3> QED BY <1>1, <1>3, <2>2, <3>1, SpawnedKeeps
  <2> QED BY <2>1, <2>2
<1>4. SpawnedHasSession' BY <1>3 DEF SpawnedHasSession
<1> QED BY <1>2, <1>4

\* The invariant holds at the start, and each step keeps it.
LEMMA DeviceInvInit == ASSUME DeviceHypotheses, Device!Init PROVE DeviceInv
<1> USE DEF Device!Init, DeviceHypotheses
<1>1. DeviceTyped
  <2>1. AttemptsTyped BY DEF AttemptsTyped, Attempt, Runs, Device!States, Device!NewAttempt
  <2>2. CommandsTyped BY DEF CommandsTyped, CommandTyped, Commands, Device!Idle
  <2>3. StoredTyped BY DEF StoredTyped, Device!NoRow
  <2>4. ClientsTyped BY DEF ClientsTyped, Device!Stopped
  <2> QED BY <2>1, <2>2, <2>3, <2>4 DEF DeviceTyped
<1>2. AttemptsGoOn BY DEF AttemptsGoOn, AttemptOf, Device!NewAttempt, Device!Idle
<1>3. PairedIsSettled BY DEF PairedIsSettled, Device!Idle, Device!NoRow, Device!Stopped
<1>4. OwnerHoldsOne BY DEF OwnerHoldsOne, Device!Stopped
<1>5. CancelsTake BY DEF CancelsTake, Device!Idle
<1>6. KeyFollows BY DEF KeyFollows, Following, SpawnedHasSession, Device!Idle, Device!NoRow, Device!NewAttempt
<1> QED BY <1>1, <1>2, <1>3, <1>4, <1>5, <1>6 DEF DeviceInv

LEMMA DeviceInvStep ==
  ASSUME DeviceHypotheses, DeviceInv, [Device!Next]_(Device!waVars) PROVE DeviceInv'
<1>1. CASE Device!Next
  <2>1. DeviceTyped'
    BY <1>1, AttemptsTypedStep, CommandsTypedStep, StoredTypedStep, ClientsTypedStep DEF DeviceTyped
  <2>2. AttemptsGoOn' BY <1>1, AttemptStep DEF AttemptsGoOn
  <2>3. PairedIsSettled' BY <1>1, PairedStep
  <2>4. OwnerHoldsOne' BY <1>1, OwnerStep
  <2>5. CancelsTake' BY <1>1, CancelsStep
  <2>6. KeyFollows' BY <1>1, KeyStep
  <2> QED BY <2>1, <2>2, <2>3, <2>4, <2>5, <2>6 DEF DeviceInv
<1>2. CASE UNCHANGED Device!waVars
  <2> USE <1>2 DEF Device!waVars
  <2>1. DeviceTyped'
    BY DEF DeviceInv, DeviceTyped, AttemptsTyped, CommandsTyped, CommandTyped, StoredTyped, ClientsTyped
  <2>2. AttemptsGoOn' BY DEF DeviceInv, AttemptsGoOn, AttemptOf
  <2>3. PairedIsSettled' BY DEF DeviceInv, PairedIsSettled, Settled
  <2>4. OwnerHoldsOne' BY DEF DeviceInv, OwnerHoldsOne
  <2>5. CancelsTake' BY DEF DeviceInv, CancelsTake
  <2>6. KeyFollows' BY DEF DeviceInv, KeyFollows, Undisturbed, Following, SpawnedHasSession
  <2> QED BY <2>1, <2>2, <2>3, <2>4, <2>5, <2>6 DEF DeviceInv
<1> QED BY <1>1, <1>2

\* What the device promises follows from it.
LEMMA DevicePromises ==
  ASSUME DeviceHypotheses, DeviceInv
  PROVE  /\ Device!TypeOK /\ Device!TestedBeforeConnected /\ Device!OneClientPerDevice
         /\ Device!ConnectedOpensItsStore
<1>1. Device!TypeOK
  <2>1. \A a \in Attempts : att[a].state \in Device!States /\ client[a] \in {"none", "live", "dead"}
    BY DEF DeviceInv, DeviceTyped, AttemptsTyped, Attempt, ClientsTyped
  <2>2. {pairing, staging, final, link.of, owner.target, owner.slot} \subseteq Attempts \cup {"none"}
    BY DEF DeviceInv, DeviceTyped, StoredTyped, ClientsTyped
  <2>3. DOMAIN cmd = Commands BY DEF DeviceInv, DeviceTyped, CommandsTyped
  <2>4. ASSUME NEW c \in Commands PROVE cmd[c].step = "idle" <=> cmd[c].of = "none"
    BY DEF DeviceHypotheses, DeviceInv, DeviceTyped, CommandsTyped, CommandTyped, Device!Idle
  <2>5. owner.status \in {"stopped", "connecting", "connected", "reconnecting", "relink_required", "error"}
    BY DEF DeviceInv, DeviceTyped, ClientsTyped
  <2> QED BY <2>1, <2>2, <2>3, <2>4, <2>5 DEF Device!TypeOK
<1>2. Device!TestedBeforeConnected BY DEF DeviceInv, PairedIsSettled, Settled, Device!TestedBeforeConnected
<1>3. Device!OneClientPerDevice
  BY DEF DeviceHypotheses, DeviceInv, DeviceTyped, ClientsTyped, OwnerHoldsOne, PairedIsSettled, Settled,
      Device!OneClientPerDevice
<1>4. Device!ConnectedOpensItsStore
  BY DEF DeviceInv, KeyFollows, Undisturbed, Following, Device!ConnectedOpensItsStore
<1> QED BY <1>1, <1>2, <1>3, <1>4

\* However attempts, cancels, the owner's starts and quits overlap: a connection was tested, and no two
\* clients run as one device (pairing.rs, service.rs, owner.rs).
THEOREM DeviceIsOneAndTested ==
  ASSUME DeviceHypotheses
  PROVE  Device!Spec => [](Device!TypeOK /\ Device!TestedBeforeConnected /\ Device!OneClientPerDevice)
<1>1. Device!Init => DeviceInv BY DeviceInvInit
<1>2. DeviceInv /\ [Device!Next]_(Device!waVars) => DeviceInv' BY DeviceInvStep
<1>3. DeviceInv => Device!TypeOK /\ Device!TestedBeforeConnected /\ Device!OneClientPerDevice BY DevicePromises
<1> QED BY <1>1, <1>2, <1>3, PTL DEF Device!Spec

\* A connected account has its key and the database that key seals, for any number of attempts and crashes, as
\* long as no pairing is cancelled before its run begins or while it is completed (service.rs, keyring.rs, store.rs).
THEOREM ConnectionsOpenTheirStore == ASSUME DeviceHypotheses PROVE Device!Spec => []Device!ConnectedOpensItsStore
<1>1. Device!Init => DeviceInv BY DeviceInvInit
<1>2. DeviceInv /\ [Device!Next]_(Device!waVars) => DeviceInv' BY DeviceInvStep
<1>3. DeviceInv => Device!ConnectedOpensItsStore BY DevicePromises
<1> QED BY <1>1, <1>2, <1>3, PTL DEF Device!Spec

-----------------------------------------------------------------------------
(* WhatsApp: the tables of the protocol client.                            *)

CONSTANTS Areas, Spaces, Names, Groups, Retention, MaxClock, MaxCalls
VARIABLES area, clock, table, upload, gone, purged, batch, written, calls

Tables == INSTANCE ProtocolStore WITH Day <- Retention, MaxTime <- MaxClock, MaxOps <- MaxCalls, ops <- calls

\* Payloads are kept for some time, and no area is called "none".
TableHypotheses ==
  /\ Spaces \subseteq Tables!Blobs /\ "none" \notin Areas
  /\ Retention \in Nat \ {0} /\ MaxClock \in Nat \ {0} /\ MaxCalls \in Nat

MacRows == [at : Names, version : 0..MaxCalls, of : SUBSET Names]
OneRowEach(tab) == \A r, q \in tab : r.at = q.at => r = q

\* What the variables hold.
TablesTyped ==
  /\ area \in Areas \cup {"none"} /\ clock \in 1..MaxClock /\ upload \subseteq Names /\ gone \subseteq Names
  /\ purged \in 0..MaxClock /\ calls \in 0..MaxCalls
  /\ batch \in [todo : SUBSET Names, all : SUBSET Names, before : SUBSET MacRows, version : 0..MaxCalls]
  /\ written \in [Spaces \X Names -> Tables!Values \cup {"none"}]
  /\ OneRowEach(table) /\ OneRowEach(batch.before)

\* The rows of each area.
BlobRow(p) == [at |-> p, val |-> [at |-> p, val |-> written[p]]]
RowsOfArea ==
  /\ area = "none" => table = {}
  /\ \A p \in Spaces \X Names : written[p] # "none" => area = "blobs" /\ BlobRow(p) \in table
  /\ area = "blobs" => \A r \in table : \E p \in Spaces \X Names : r = BlobRow(p) /\ written[p] # "none"
  /\ area = "prekeys" => \A r \in table : r.at \in Names
  /\ area = "retry" => \A r \in table : r.val \in 1..clock
  /\ area = "lids" => \A r \in table : r.entry = r.phone
  /\ area = "devices" => \A r \in table : r.at \in Groups \X Names
  /\ area = "macs" => table \subseteq MacRows

\* What was gone, and what was purged.
Departed ==
  /\ area \notin {"prekeys", "retry", "devices"} => gone = {}
  /\ \A n \in gone, r \in table : IF area = "devices" THEN r.at[2] # n ELSE r.at # n
Purges == purged <= clock /\ Tables!RetriesAreShort

\* Who is named by a row is there, or is still to come in the batch that wrote the row.
WholeBut(tab, left, version) ==
  \A r \in tab : \A m \in r.of :
    (\E q \in tab : q.at = m /\ q.version >= r.version) \/ (m \in left /\ r.version = version)

\* A batch under way has a version newer than every row before it, and its rows so far are there.
BatchGoesOn ==
  /\ batch # Tables!NoBatch => area = "macs" /\ batch.todo # {} /\ batch.version = calls
  /\ area = "macs" => WholeBut(table, batch.todo, batch.version)
  /\ area = "macs" => \A r \in table : r.version <= calls
  /\ WholeBut(batch.before, {}, 0) /\ \A r \in batch.before : r.version <= calls
  /\ \A m \in batch.all \ batch.todo : \E q \in table : q.at = m /\ q.version >= batch.version

\* The inductive invariant.
TablesInv == TablesTyped /\ RowsOfArea /\ Departed /\ Purges /\ BatchGoesOn

\* What is deleted of a batch is no longer asked of its rows.
LEMMA MacsDeleted ==
  ASSUME table \subseteq MacRows, NEW S \in SUBSET Names, Tables!DeleteMacs(S)
  PROVE  /\ \A q \in table' : \E r \in table :
              r.at \notin S /\ q \in MacRows /\ q = [r EXCEPT !.of = @ \ S] /\ q.at = r.at
              /\ q.version = r.version /\ q.of = r.of \ S
         /\ \A r \in table : r.at \notin S => \E q \in table' : q.at = r.at /\ q.version = r.version
<1>1. ASSUME NEW r \in MacRows
      PROVE  LET q == [r EXCEPT !.of = @ \ S] IN
             q \in MacRows /\ q.at = r.at /\ q.version = r.version /\ q.of = r.of \ S
  BY DEF MacRows
<1>2. table' = {[r EXCEPT !.of = @ \ S] : r \in {q \in table : q.at \notin S}} BY DEF Tables!DeleteMacs
<1>3. ASSUME NEW q \in table'
      PROVE  \E r \in table :
               r.at \notin S /\ q \in MacRows /\ q = [r EXCEPT !.of = @ \ S] /\ q.at = r.at
               /\ q.version = r.version /\ q.of = r.of \ S
  <2>1. PICK r \in table : r.at \notin S /\ q = [r EXCEPT !.of = @ \ S] BY <1>2
  <2>2. r \in MacRows OBVIOUS
  <2> QED BY <1>1, <2>1, <2>2
<1>4. ASSUME NEW r \in table, r.at \notin S PROVE \E q \in table' : q.at = r.at /\ q.version = r.version
  <2> DEFINE q == [r EXCEPT !.of = @ \ S]
  <2>1. q \in table' BY <1>2, <1>4
  <2>2. r \in MacRows OBVIOUS
  <2> QED BY <1>1, <2>1, <2>2
<1> QED BY <1>3, <1>4

\* Each step keeps the types, and one row for a key.
LEMMA TablesTypedStep == ASSUME TableHypotheses, TablesInv, Tables!Next PROVE TablesTyped'
<1> USE DEF TableHypotheses, TablesInv, TablesTyped, MacRows, RowsOfArea, BatchGoesOn, OneRowEach
<1>1. ASSUME NEW a \in Areas, Tables!ChooseArea(a) PROVE TablesTyped'
  BY <1>1 DEF Tables!ChooseArea
<1>2. CASE Tables!Advance
  BY <1>2 DEF Tables!Advance
<1>3. CASE Tables!BeginUpload
  BY <1>3 DEF Tables!BeginUpload, Tables!Call, Tables!NoBatch
<1>4. CASE Tables!PurgeSecrets
  BY <1>4 DEF Tables!PurgeSecrets, Tables!Call, Tables!NoBatch
<1>5. CASE Tables!BreakOff
  BY <1>5 DEF Tables!BreakOff, Tables!NoBatch, Tables!RolledBack
<1>6. ASSUME NEW c \in 0..MaxClock, Tables!PurgeSent(c) PROVE TablesTyped'
  BY <1>6 DEF Tables!PurgeSent, Tables!Call, Tables!Cutoff, Tables!NoBatch
<1>7. ASSUME NEW S \in SUBSET Names, Tables!BeginBatch(S) PROVE TablesTyped'
  BY <1>7 DEF Tables!BeginBatch, Tables!Call, Tables!NoBatch
<1>8. ASSUME NEW S \in SUBSET Names, Tables!DeleteMacs(S) PROVE TablesTyped'
  <2>1. area = "macs" /\ area' = area /\ batch = Tables!NoBatch /\ batch' = batch /\ calls' = calls + 1
        /\ calls < MaxCalls /\ UNCHANGED <<clock, upload, gone, purged, written>>
    BY <1>8 DEF Tables!DeleteMacs, Tables!Call
  <2>2. table \subseteq MacRows BY <2>1 DEF RowsOfArea
  <2>3. \A q \in table' : \E r \in table :
          r.at \notin S /\ q \in MacRows /\ q = [r EXCEPT !.of = @ \ S] /\ q.at = r.at
          /\ q.version = r.version /\ q.of = r.of \ S
    BY <1>8, <2>2, MacsDeleted
  <2>4. ASSUME NEW p \in table', NEW q \in table', p.at = q.at PROVE p = q
    <3>1. PICK r \in table : p = [r EXCEPT !.of = @ \ S] /\ p.at = r.at BY <2>3
    <3>2. PICK o \in table : q = [o EXCEPT !.of = @ \ S] /\ q.at = o.at BY <2>3
    <3>3. r = o BY <2>4, <3>1, <3>2
    <3> QED BY <3>1, <3>2, <3>3
  <2> HIDE DEF MacRows
  <2> QED BY <2>1, <2>4
<1>9. ASSUME NEW n \in Names, Tables!StorePrekey(n) PROVE TablesTyped'
  BY <1>9 DEF Tables!StorePrekey, Tables!Call, Tables!Put, Tables!NoBatch
<1>10. ASSUME NEW n \in Names, Tables!RemovePrekey(n) PROVE TablesTyped'
  BY <1>10 DEF Tables!RemovePrekey, Tables!Call, Tables!Without, Tables!NoBatch
<1>11. ASSUME NEW n \in Names, Tables!MarkUploaded(n) PROVE TablesTyped'
  BY <1>11 DEF Tables!MarkUploaded, Tables!Marked, Tables!At, Tables!Put
<1>12. ASSUME NEW n \in Names, Tables!StoreSent(n) PROVE TablesTyped'
  BY <1>12 DEF Tables!StoreSent, Tables!Call, Tables!Put, Tables!NoBatch
<1>13. ASSUME NEW n \in Names, Tables!TakeSent(n) PROVE TablesTyped'
  BY <1>13 DEF Tables!TakeSent, Tables!Call, Tables!At, Tables!Without, Tables!NoBatch
<1>14. ASSUME NEW n \in Names, Tables!PutSecret(n) PROVE TablesTyped'
  BY <1>14 DEF Tables!PutSecret, Tables!Call, Tables!Put, Tables!SecretRow, Tables!NoBatch, Tables!At,
    Tables!MergedExpiry, Tables!MergedTs
<1>15. ASSUME NEW n \in Names, Tables!PutMac(n) PROVE TablesTyped'
  BY <1>15 DEF Tables!PutMac, Tables!Put, Tables!NoBatch
<1>16. ASSUME NEW n \in Names, Tables!ForgetDevice(n) PROVE TablesTyped'
  BY <1>16 DEF Tables!ForgetDevice, Tables!Call, Tables!NoBatch
<1>17. ASSUME NEW n \in Names, NEW s \in Spaces, Tables!BlobDelete(s, n) PROVE TablesTyped'
  BY <1>17 DEF Tables!BlobDelete, Tables!Call, Tables!Without, Tables!Place, Tables!NoBatch
<1>18. ASSUME NEW n \in Names, NEW s \in Spaces, NEW v \in Tables!Values, Tables!BlobPut(s, n, v)
      PROVE  TablesTyped'
  BY <1>18 DEF Tables!BlobPut, Tables!Call, Tables!Put, Tables!Place, Tables!Seal, Tables!NoBatch
<1>19. ASSUME NEW n \in Names, NEW g \in Groups, Tables!PutLid(n, g) PROVE TablesTyped'
  BY <1>19 DEF Tables!PutLid, Tables!Call, Tables!Put, Tables!PhoneColumn, Tables!NoBatch
<1>20. ASSUME NEW n \in Names, NEW g \in Groups, NEW has \in BOOLEAN, Tables!SetDevice(g, n, has)
      PROVE  TablesTyped'
  BY <1>20 DEF Tables!SetDevice, Tables!Call, Tables!Put, Tables!NoBatch
<1>21. ASSUME NEW g \in Groups, Tables!ClearDevices(g) PROVE TablesTyped'
  BY <1>21 DEF Tables!ClearDevices, Tables!Call, Tables!NoBatch
<1> HIDE DEF RowsOfArea, Departed, Purges, BatchGoesOn, TablesTyped
<1> QED BY <1>1, <1>2, <1>3, <1>4, <1>5, <1>6, <1>7, <1>8, <1>9, <1>10, <1>11, <1>12, <1>13, <1>14,
    <1>15, <1>16, <1>17, <1>18, <1>19, <1>20, <1>21 DEF Tables!Next

\* Each step keeps the rows of its area as they are written.
LEMMA RowsStep == ASSUME TableHypotheses, TablesInv, Tables!Next PROVE RowsOfArea'
<1> USE DEF TableHypotheses, TablesInv, TablesTyped, RowsOfArea, BatchGoesOn
<1>1. ASSUME NEW a \in Areas, Tables!ChooseArea(a) PROVE RowsOfArea'
  BY <1>1 DEF Tables!ChooseArea
<1>2. CASE Tables!Advance
  BY <1>2 DEF Tables!Advance
<1>3. CASE Tables!BeginUpload
  BY <1>3 DEF Tables!BeginUpload, Tables!Call, Tables!NoBatch
<1>4. CASE Tables!PurgeSecrets
  BY <1>4 DEF Tables!PurgeSecrets, Tables!Call, Tables!NoBatch
<1>5. CASE Tables!BreakOff
  BY <1>5 DEF Tables!BreakOff, Tables!NoBatch, Tables!RolledBack
<1>6. ASSUME NEW c \in 0..MaxClock, Tables!PurgeSent(c) PROVE RowsOfArea'
  BY <1>6 DEF Tables!PurgeSent, Tables!Call, Tables!Cutoff, Tables!NoBatch
<1>7. ASSUME NEW S \in SUBSET Names, Tables!BeginBatch(S) PROVE RowsOfArea'
  BY <1>7 DEF Tables!BeginBatch, Tables!Call, Tables!NoBatch
<1>8. ASSUME NEW S \in SUBSET Names, Tables!DeleteMacs(S) PROVE RowsOfArea'
  <2>1. area = "macs" /\ area' = area /\ batch = Tables!NoBatch /\ batch' = batch /\ calls' = calls + 1
        /\ calls < MaxCalls /\ UNCHANGED <<clock, upload, gone, purged, written>>
    BY <1>8 DEF Tables!DeleteMacs, Tables!Call
  <2>2. table \subseteq MacRows BY <2>1 DEF RowsOfArea
  <2>3. \A q \in table' : \E r \in table :
          r.at \notin S /\ q \in MacRows /\ q = [r EXCEPT !.of = @ \ S] /\ q.at = r.at
          /\ q.version = r.version /\ q.of = r.of \ S
    BY <1>8, <2>2, MacsDeleted
  <2> HIDE DEF MacRows
  <2> QED BY <2>1, <2>3 DEF BlobRow
<1>9. ASSUME NEW n \in Names, Tables!StorePrekey(n) PROVE RowsOfArea'
  BY <1>9 DEF Tables!StorePrekey, Tables!Call, Tables!Put, Tables!NoBatch
<1>10. ASSUME NEW n \in Names, Tables!RemovePrekey(n) PROVE RowsOfArea'
  BY <1>10 DEF Tables!RemovePrekey, Tables!Call, Tables!Without, Tables!NoBatch
<1>11. ASSUME NEW n \in Names, Tables!MarkUploaded(n) PROVE RowsOfArea'
  BY <1>11 DEF Tables!MarkUploaded, Tables!Marked, Tables!At, Tables!Put
<1>12. ASSUME NEW n \in Names, Tables!StoreSent(n) PROVE RowsOfArea'
  BY <1>12 DEF Tables!StoreSent, Tables!Call, Tables!Put, Tables!NoBatch
<1>13. ASSUME NEW n \in Names, Tables!TakeSent(n) PROVE RowsOfArea'
  BY <1>13 DEF Tables!TakeSent, Tables!Call, Tables!At, Tables!Without, Tables!NoBatch
<1>14. ASSUME NEW n \in Names, Tables!PutSecret(n) PROVE RowsOfArea'
  BY <1>14 DEF Tables!PutSecret, Tables!Call, Tables!Put, Tables!SecretRow, Tables!NoBatch, Tables!At,
    Tables!MergedExpiry, Tables!MergedTs
<1>15. ASSUME NEW n \in Names, Tables!PutMac(n) PROVE RowsOfArea'
  <2>1. area = "macs" /\ UNCHANGED <<area, clock, written>> BY <1>15 DEF Tables!PutMac, Tables!NoBatch
  <2>2. [at |-> n, version |-> batch.version, of |-> batch.all] \in MacRows BY DEF MacRows
  <2>3. table' \subseteq MacRows BY <1>15, <2>1, <2>2 DEF Tables!PutMac, Tables!Put
  <2> QED BY <2>1, <2>3 DEF BlobRow
<1>16. ASSUME NEW n \in Names, Tables!ForgetDevice(n) PROVE RowsOfArea'
  BY <1>16 DEF Tables!ForgetDevice, Tables!Call, Tables!NoBatch
<1>17. ASSUME NEW n \in Names, NEW s \in Spaces, Tables!BlobDelete(s, n) PROVE RowsOfArea'
  <2> DEFINE place == <<s, n>>
  <2>1. area = "blobs" /\ area' = area /\ Tables!Place(s, n) = place /\ place \in Spaces \X Names
    BY <1>17 DEF Tables!BlobDelete, Tables!Call, Tables!Place
  <2>2. written' = [written EXCEPT ![place] = "none"] BY <1>17 DEF Tables!BlobDelete
  <2>3. \A p \in Spaces \X Names : p # place => written'[p] = written[p] BY <2>2
  <2>4. written'[place] = "none" BY <2>1, <2>2
  <2>5. table' = Tables!Without(table, place)
    BY <1>17, <2>1 DEF Tables!BlobDelete
  <2> HIDE DEF place
  <2>6. ASSUME NEW p \in Spaces \X Names, written'[p] # "none" PROVE BlobRow(p)' \in table'
    <3>1. CASE p = place BY <2>4, <2>6, <3>1 DEF BlobRow
    <3>2. CASE p # place
      <4>1. BlobRow(p) \in table /\ BlobRow(p)' = BlobRow(p) BY <2>3, <2>6, <3>2 DEF BlobRow
      <4>2. BlobRow(p).at = p BY DEF BlobRow
      <4> QED BY <2>5, <3>2, <4>1, <4>2 DEF Tables!Put, Tables!Without
    <3> QED BY <3>1, <3>2
  <2>7. ASSUME NEW r \in table' PROVE \E p \in Spaces \X Names : r = BlobRow(p)' /\ written'[p] # "none"
    <3>1. CASE r \in table /\ r.at # place
      <4>1. PICK p \in Spaces \X Names : r = BlobRow(p) /\ written[p] # "none" BY <2>1, <3>1
      <4>2. p # place BY <3>1, <4>1 DEF BlobRow
      <4> QED BY <2>3, <4>1, <4>2 DEF BlobRow
    <3> QED BY <2>5, <3>1 DEF Tables!Without
  <2> QED BY <2>1, <2>6, <2>7
<1>18. ASSUME NEW n \in Names, NEW s \in Spaces, NEW v \in Tables!Values, Tables!BlobPut(s, n, v)
      PROVE  RowsOfArea'
  <2> DEFINE place == <<s, n>>
  <2>1. area = "blobs" /\ area' = area /\ Tables!Place(s, n) = place /\ place \in Spaces \X Names
    BY <1>18 DEF Tables!BlobPut, Tables!Call, Tables!Place
  <2>2. written' = [written EXCEPT ![place] = v] BY <1>18 DEF Tables!BlobPut
  <2>3. \A p \in Spaces \X Names : p # place => written'[p] = written[p] BY <2>2
  <2>4. written'[place] = v BY <2>1, <2>2
  <2>5. table' = Tables!Put(table, [at |-> place, val |-> [at |-> place, val |-> v]])
    BY <1>18, <2>1 DEF Tables!BlobPut, Tables!Seal
  <2> HIDE DEF place
  <2>6. ASSUME NEW p \in Spaces \X Names, written'[p] # "none" PROVE BlobRow(p)' \in table'
    <3>1. CASE p = place BY <2>4, <2>5, <3>1 DEF BlobRow, Tables!Put
    <3>2. CASE p # place
      <4>1. BlobRow(p) \in table /\ BlobRow(p)' = BlobRow(p) BY <2>3, <2>6, <3>2 DEF BlobRow
      <4>2. BlobRow(p).at = p BY DEF BlobRow
      <4> QED BY <2>5, <3>2, <4>1, <4>2 DEF Tables!Put, Tables!Without
    <3> QED BY <3>1, <3>2
  <2>7. ASSUME NEW r \in table' PROVE \E p \in Spaces \X Names : r = BlobRow(p)' /\ written'[p] # "none"
    <3>1. CASE r \in table /\ r.at # place
      <4>1. PICK p \in Spaces \X Names : r = BlobRow(p) /\ written[p] # "none" BY <2>1, <3>1
      <4>2. p # place BY <3>1, <4>1 DEF BlobRow
      <4> QED BY <2>3, <4>1, <4>2 DEF BlobRow
    <3> QED BY <2>1, <2>4, <2>5, <3>1 DEF Tables!Put, BlobRow, Tables!Values
  <2> QED BY <2>1, <2>6, <2>7
<1>19. ASSUME NEW n \in Names, NEW g \in Groups, Tables!PutLid(n, g) PROVE RowsOfArea'
  BY <1>19 DEF Tables!PutLid, Tables!Call, Tables!Put, Tables!PhoneColumn, Tables!NoBatch
<1>20. ASSUME NEW n \in Names, NEW g \in Groups, NEW has \in BOOLEAN, Tables!SetDevice(g, n, has)
      PROVE  RowsOfArea'
  BY <1>20 DEF Tables!SetDevice, Tables!Call, Tables!Put, Tables!NoBatch
<1>21. ASSUME NEW g \in Groups, Tables!ClearDevices(g) PROVE RowsOfArea'
  BY <1>21 DEF Tables!ClearDevices, Tables!Call, Tables!NoBatch
<1> HIDE DEF RowsOfArea, Departed, Purges, BatchGoesOn, TablesTyped
<1> QED BY <1>1, <1>2, <1>3, <1>4, <1>5, <1>6, <1>7, <1>8, <1>9, <1>10, <1>11, <1>12, <1>13, <1>14,
    <1>15, <1>16, <1>17, <1>18, <1>19, <1>20, <1>21 DEF Tables!Next

\* Only a store brings back what is gone.
LEMMA DepartedStep == ASSUME TableHypotheses, TablesInv, Tables!Next PROVE Departed'
<1> USE DEF TableHypotheses, TablesInv, TablesTyped, RowsOfArea, Departed, BatchGoesOn
<1>1. ASSUME NEW a \in Areas, Tables!ChooseArea(a) PROVE Departed'
  BY <1>1 DEF Tables!ChooseArea
<1>2. CASE Tables!Advance
  BY <1>2 DEF Tables!Advance
<1>3. CASE Tables!BeginUpload
  BY <1>3 DEF Tables!BeginUpload, Tables!Call, Tables!NoBatch
<1>4. CASE Tables!PurgeSecrets
  BY <1>4 DEF Tables!PurgeSecrets, Tables!Call, Tables!NoBatch
<1>5. CASE Tables!BreakOff
  BY <1>5 DEF Tables!BreakOff, Tables!NoBatch, Tables!RolledBack
<1>6. ASSUME NEW c \in 0..MaxClock, Tables!PurgeSent(c) PROVE Departed'
  BY <1>6 DEF Tables!PurgeSent, Tables!Call, Tables!Cutoff, Tables!NoBatch
<1>7. ASSUME NEW S \in SUBSET Names, Tables!BeginBatch(S) PROVE Departed'
  BY <1>7 DEF Tables!BeginBatch, Tables!Call, Tables!NoBatch
<1>8. ASSUME NEW S \in SUBSET Names, Tables!DeleteMacs(S) PROVE Departed'
  BY <1>8 DEF Tables!DeleteMacs, Tables!Call, Tables!NoBatch
<1>9. ASSUME NEW n \in Names, Tables!StorePrekey(n) PROVE Departed'
  BY <1>9 DEF Tables!StorePrekey, Tables!Call, Tables!Put, Tables!NoBatch
<1>10. ASSUME NEW n \in Names, Tables!RemovePrekey(n) PROVE Departed'
  BY <1>10 DEF Tables!RemovePrekey, Tables!Call, Tables!Without, Tables!NoBatch
<1>11. ASSUME NEW n \in Names, Tables!MarkUploaded(n) PROVE Departed'
  BY <1>11 DEF Tables!MarkUploaded, Tables!Marked, Tables!At, Tables!Put
<1>12. ASSUME NEW n \in Names, Tables!StoreSent(n) PROVE Departed'
  BY <1>12 DEF Tables!StoreSent, Tables!Call, Tables!Put, Tables!NoBatch
<1>13. ASSUME NEW n \in Names, Tables!TakeSent(n) PROVE Departed'
  BY <1>13 DEF Tables!TakeSent, Tables!Call, Tables!At, Tables!Without, Tables!NoBatch
<1>14. ASSUME NEW n \in Names, Tables!PutSecret(n) PROVE Departed'
  BY <1>14 DEF Tables!PutSecret, Tables!Call, Tables!Put, Tables!SecretRow, Tables!NoBatch, Tables!At,
    Tables!MergedExpiry, Tables!MergedTs
<1>15. ASSUME NEW n \in Names, Tables!PutMac(n) PROVE Departed'
  BY <1>15 DEF Tables!PutMac, Tables!Put, Tables!NoBatch
<1>16. ASSUME NEW n \in Names, Tables!ForgetDevice(n) PROVE Departed'
  BY <1>16 DEF Tables!ForgetDevice, Tables!Call, Tables!NoBatch
<1>17. ASSUME NEW n \in Names, NEW s \in Spaces, Tables!BlobDelete(s, n) PROVE Departed'
  BY <1>17 DEF Tables!BlobDelete, Tables!Call, Tables!Without, Tables!Place, Tables!NoBatch
<1>18. ASSUME NEW n \in Names, NEW s \in Spaces, NEW v \in Tables!Values, Tables!BlobPut(s, n, v)
      PROVE  Departed'
  BY <1>18 DEF Tables!BlobPut, Tables!Call, Tables!Put, Tables!Place, Tables!Seal, Tables!NoBatch
<1>19. ASSUME NEW n \in Names, NEW g \in Groups, Tables!PutLid(n, g) PROVE Departed'
  BY <1>19 DEF Tables!PutLid, Tables!Call, Tables!Put, Tables!PhoneColumn, Tables!NoBatch
<1>20. ASSUME NEW n \in Names, NEW g \in Groups, NEW has \in BOOLEAN, Tables!SetDevice(g, n, has)
      PROVE  Departed'
  BY <1>20 DEF Tables!SetDevice, Tables!Call, Tables!Put, Tables!NoBatch
<1>21. ASSUME NEW g \in Groups, Tables!ClearDevices(g) PROVE Departed'
  BY <1>21 DEF Tables!ClearDevices, Tables!Call, Tables!NoBatch
<1> HIDE DEF RowsOfArea, Departed, Purges, BatchGoesOn, TablesTyped
<1> QED BY <1>1, <1>2, <1>3, <1>4, <1>5, <1>6, <1>7, <1>8, <1>9, <1>10, <1>11, <1>12, <1>13, <1>14,
    <1>15, <1>16, <1>17, <1>18, <1>19, <1>20, <1>21 DEF Tables!Next

\* A purge is never late, and nothing is stored before it.
LEMMA PurgesStep == ASSUME TableHypotheses, TablesInv, Tables!Next PROVE Purges'
<1> USE DEF TableHypotheses, TablesInv, TablesTyped, RowsOfArea, Purges, BatchGoesOn,
    Tables!RetriesAreShort
<1>1. ASSUME NEW a \in Areas, Tables!ChooseArea(a) PROVE Purges'
  BY <1>1 DEF Tables!ChooseArea
<1>2. CASE Tables!Advance
  BY <1>2 DEF Tables!Advance
<1>3. CASE Tables!BeginUpload
  BY <1>3 DEF Tables!BeginUpload, Tables!Call, Tables!NoBatch
<1>4. CASE Tables!PurgeSecrets
  BY <1>4 DEF Tables!PurgeSecrets, Tables!Call, Tables!NoBatch
<1>5. CASE Tables!BreakOff
  BY <1>5 DEF Tables!BreakOff, Tables!NoBatch, Tables!RolledBack
<1>6. ASSUME NEW c \in 0..MaxClock, Tables!PurgeSent(c) PROVE Purges'
  BY <1>6 DEF Tables!PurgeSent, Tables!Call, Tables!Cutoff, Tables!NoBatch
<1>7. ASSUME NEW S \in SUBSET Names, Tables!BeginBatch(S) PROVE Purges'
  BY <1>7 DEF Tables!BeginBatch, Tables!Call, Tables!NoBatch
<1>8. ASSUME NEW S \in SUBSET Names, Tables!DeleteMacs(S) PROVE Purges'
  BY <1>8 DEF Tables!DeleteMacs, Tables!Call, Tables!NoBatch
<1>9. ASSUME NEW n \in Names, Tables!StorePrekey(n) PROVE Purges'
  BY <1>9 DEF Tables!StorePrekey, Tables!Call, Tables!Put, Tables!NoBatch
<1>10. ASSUME NEW n \in Names, Tables!RemovePrekey(n) PROVE Purges'
  BY <1>10 DEF Tables!RemovePrekey, Tables!Call, Tables!Without, Tables!NoBatch
<1>11. ASSUME NEW n \in Names, Tables!MarkUploaded(n) PROVE Purges'
  BY <1>11 DEF Tables!MarkUploaded, Tables!Marked, Tables!At, Tables!Put
<1>12. ASSUME NEW n \in Names, Tables!StoreSent(n) PROVE Purges'
  BY <1>12 DEF Tables!StoreSent, Tables!Call, Tables!Put, Tables!NoBatch
<1>13. ASSUME NEW n \in Names, Tables!TakeSent(n) PROVE Purges'
  BY <1>13 DEF Tables!TakeSent, Tables!Call, Tables!At, Tables!Without, Tables!NoBatch
<1>14. ASSUME NEW n \in Names, Tables!PutSecret(n) PROVE Purges'
  BY <1>14 DEF Tables!PutSecret, Tables!Call, Tables!Put, Tables!SecretRow, Tables!NoBatch, Tables!At,
    Tables!MergedExpiry, Tables!MergedTs
<1>15. ASSUME NEW n \in Names, Tables!PutMac(n) PROVE Purges'
  BY <1>15 DEF Tables!PutMac, Tables!Put, Tables!NoBatch
<1>16. ASSUME NEW n \in Names, Tables!ForgetDevice(n) PROVE Purges'
  BY <1>16 DEF Tables!ForgetDevice, Tables!Call, Tables!NoBatch
<1>17. ASSUME NEW n \in Names, NEW s \in Spaces, Tables!BlobDelete(s, n) PROVE Purges'
  BY <1>17 DEF Tables!BlobDelete, Tables!Call, Tables!Without, Tables!Place, Tables!NoBatch
<1>18. ASSUME NEW n \in Names, NEW s \in Spaces, NEW v \in Tables!Values, Tables!BlobPut(s, n, v) PROVE Purges'
  BY <1>18 DEF Tables!BlobPut, Tables!Call, Tables!Put, Tables!Place, Tables!Seal, Tables!NoBatch
<1>19. ASSUME NEW n \in Names, NEW g \in Groups, Tables!PutLid(n, g) PROVE Purges'
  BY <1>19 DEF Tables!PutLid, Tables!Call, Tables!Put, Tables!PhoneColumn, Tables!NoBatch
<1>20. ASSUME NEW n \in Names, NEW g \in Groups, NEW has \in BOOLEAN, Tables!SetDevice(g, n, has) PROVE Purges'
  BY <1>20 DEF Tables!SetDevice, Tables!Call, Tables!Put, Tables!NoBatch
<1>21. ASSUME NEW g \in Groups, Tables!ClearDevices(g) PROVE Purges'
  BY <1>21 DEF Tables!ClearDevices, Tables!Call, Tables!NoBatch
<1> HIDE DEF RowsOfArea, Departed, Purges, BatchGoesOn, TablesTyped
<1> QED BY <1>1, <1>2, <1>3, <1>4, <1>5, <1>6, <1>7, <1>8, <1>9, <1>10, <1>11, <1>12, <1>13, <1>14,
    <1>15, <1>16, <1>17, <1>18, <1>19, <1>20, <1>21 DEF Tables!Next

\* A batch is all or nothing.
LEMMA BatchStep == ASSUME TableHypotheses, TablesInv, Tables!Next PROVE BatchGoesOn'
<1> USE DEF TableHypotheses, TablesInv, TablesTyped, RowsOfArea, BatchGoesOn, WholeBut, MacRows
<1>1. ASSUME NEW a \in Areas, Tables!ChooseArea(a) PROVE BatchGoesOn'
  BY <1>1 DEF Tables!ChooseArea
<1>2. CASE Tables!Advance
  BY <1>2 DEF Tables!Advance
<1>3. CASE Tables!BeginUpload
  BY <1>3 DEF Tables!BeginUpload, Tables!Call, Tables!NoBatch
<1>4. CASE Tables!PurgeSecrets
  BY <1>4 DEF Tables!PurgeSecrets, Tables!Call, Tables!NoBatch
<1>5. CASE Tables!BreakOff
  BY <1>5 DEF Tables!BreakOff, Tables!NoBatch, Tables!RolledBack
<1>6. ASSUME NEW c \in 0..MaxClock, Tables!PurgeSent(c) PROVE BatchGoesOn'
  BY <1>6 DEF Tables!PurgeSent, Tables!Call, Tables!Cutoff, Tables!NoBatch
<1>7. ASSUME NEW S \in SUBSET Names, Tables!BeginBatch(S) PROVE BatchGoesOn'
  BY <1>7 DEF Tables!BeginBatch, Tables!Call, Tables!NoBatch
<1>8. ASSUME NEW S \in SUBSET Names, Tables!DeleteMacs(S) PROVE BatchGoesOn'
  <2>1. area = "macs" /\ area' = area /\ batch = Tables!NoBatch /\ batch' = batch /\ calls' = calls + 1
        /\ calls < MaxCalls /\ UNCHANGED <<clock, upload, gone, purged, written>>
    BY <1>8 DEF Tables!DeleteMacs, Tables!Call
  <2>2. table \subseteq MacRows BY <2>1 DEF RowsOfArea
  <2>3. \A q \in table' : \E r \in table :
          r.at \notin S /\ q \in MacRows /\ q = [r EXCEPT !.of = @ \ S] /\ q.at = r.at
          /\ q.version = r.version /\ q.of = r.of \ S
    BY <1>8, <2>2, MacsDeleted
  <2>4. \A r \in table : r.at \notin S => \E q \in table' : q.at = r.at /\ q.version = r.version
    BY <1>8, <2>2, MacsDeleted
  <2>5. batch.todo = {} /\ batch.all = {} /\ batch.before = {} BY <2>1 DEF Tables!NoBatch
  <2>6. \A r \in table : \A m \in r.of : \E q \in table : q.at = m /\ q.version >= r.version BY <2>1, <2>5
  <2>7. ASSUME NEW q \in table', NEW m \in q.of PROVE \E o \in table' : o.at = m /\ o.version >= q.version
    <3>1. PICK r \in table : q.version = r.version /\ q.of = r.of \ S BY <2>3
    <3>2. PICK o \in table : o.at = m /\ o.version >= r.version BY <2>6, <3>1
    <3> QED BY <2>4, <3>1, <3>2
  <2>8. \A q \in table' : q.version <= calls' BY <2>1, <2>2, <2>3
  <2> HIDE DEF MacRows
  <2> QED BY <2>1, <2>5, <2>7, <2>8
<1>9. ASSUME NEW n \in Names, Tables!StorePrekey(n) PROVE BatchGoesOn'
  BY <1>9 DEF Tables!StorePrekey, Tables!Call, Tables!Put, Tables!NoBatch
<1>10. ASSUME NEW n \in Names, Tables!RemovePrekey(n) PROVE BatchGoesOn'
  BY <1>10 DEF Tables!RemovePrekey, Tables!Call, Tables!Without, Tables!NoBatch
<1>11. ASSUME NEW n \in Names, Tables!MarkUploaded(n) PROVE BatchGoesOn'
  <2>1. area = "prekeys" /\ UNCHANGED <<area, batch, calls>> BY <1>11 DEF Tables!MarkUploaded
  <2>2. batch = Tables!NoBatch BY <2>1
  <2> QED BY <2>1, <2>2 DEF Tables!NoBatch
<1>12. ASSUME NEW n \in Names, Tables!StoreSent(n) PROVE BatchGoesOn'
  BY <1>12 DEF Tables!StoreSent, Tables!Call, Tables!Put, Tables!NoBatch
<1>13. ASSUME NEW n \in Names, Tables!TakeSent(n) PROVE BatchGoesOn'
  BY <1>13 DEF Tables!TakeSent, Tables!Call, Tables!At, Tables!Without, Tables!NoBatch
<1>14. ASSUME NEW n \in Names, Tables!PutSecret(n) PROVE BatchGoesOn'
  BY <1>14 DEF Tables!PutSecret, Tables!Call, Tables!Put, Tables!SecretRow, Tables!NoBatch, Tables!At,
    Tables!MergedExpiry, Tables!MergedTs
<1>15. ASSUME NEW n \in Names, Tables!PutMac(n) PROVE BatchGoesOn'
  <2> DEFINE new == [at |-> n, version |-> batch.version, of |-> batch.all]
  <2>1. area = "macs" /\ UNCHANGED <<area, calls>> /\ n \in batch.todo /\ batch.version = calls
    BY <1>15 DEF Tables!PutMac, Tables!NoBatch
  <2>2. table' = {r \in table : r.at # n} \cup {new} BY <1>15 DEF Tables!PutMac, Tables!Put
  <2>3. new.at = n /\ new.version = calls /\ new.of = batch.all BY <2>1
  <2> HIDE DEF new
  <2>4. \A r \in table' : r.version <= calls BY <2>1, <2>2, <2>3
  <2>5. ASSUME NEW r \in table PROVE \E q \in table' : q.at = r.at /\ q.version >= r.version
    <3>1. r.version \in 0..MaxCalls /\ r.version <= calls BY <2>1
    <3> QED BY <2>2, <2>3, <3>1
  <2>6. ASSUME NEW r \in table, NEW m \in r.of, m \notin batch.todo \/ r.version # calls
        PROVE  \E q \in table' : q.at = m /\ q.version >= r.version
    <3>1. PICK q \in table : q.at = m /\ q.version >= r.version BY <2>1, <2>6
    <3>2. PICK o \in table' : o.at = m /\ o.version >= q.version BY <2>5, <3>1
    <3>3. r.version \in Nat /\ q.version \in Nat BY <2>1
    <3>4. o.version \in Nat BY <2>1, <2>2, <2>3
    <3> QED BY <3>1, <3>2, <3>3, <3>4
  <2>7. ASSUME NEW m \in batch.all, m \notin batch.todo \ {n}
        PROVE  \E q \in table' : q.at = m /\ q.version >= calls
    <3>1. CASE m = n BY <2>1, <2>2, <2>3, <3>1
    <3>2. CASE m # n
      <4>1. PICK q \in table : q.at = m /\ q.version >= calls BY <2>1, <2>7, <3>2
      <4> QED BY <2>2, <3>2, <4>1
    <3> QED BY <3>1, <3>2
  <2>8. WholeBut(table', batch.todo \ {n}, calls)
    <3> SUFFICES ASSUME NEW r \in table', NEW m \in r.of, ~(m \in batch.todo \ {n} /\ r.version = calls)
                 PROVE  \E q \in table' : q.at = m /\ q.version >= r.version
      OBVIOUS
    <3>1. CASE r = new BY <2>3, <2>7, <3>1
    <3>2. CASE r \in table /\ m = n /\ r.version = calls BY <2>2, <2>3, <3>2, <2>1
    <3>3. CASE r \in table /\ ~(m = n /\ r.version = calls) BY <2>6, <3>3
    <3> QED BY <2>2, <3>1, <3>2, <3>3
  <2>9. CASE batch.todo = {n}
    <3>1. batch' = Tables!NoBatch BY <1>15, <2>9 DEF Tables!PutMac
    <3>2. batch'.todo = {} /\ batch'.all = {} /\ batch'.before = {} /\ batch'.version = 0
      BY <3>1 DEF Tables!NoBatch
    <3>3. WholeBut(table', {}, 0) BY <2>8, <2>9
    <3> HIDE DEF WholeBut
    <3>4. WholeBut({}, {}, 0) BY DEF WholeBut
    <3> QED BY <2>1, <2>4, <3>1, <3>2, <3>3, <3>4
  <2>10. CASE batch.todo # {n}
    <3>1. batch' = [batch EXCEPT !.todo = @ \ {n}] BY <1>15, <2>10 DEF Tables!PutMac
    <3>2. batch'.todo = batch.todo \ {n} /\ batch'.all = batch.all /\ batch'.before = batch.before
          /\ batch'.version = calls
      BY <2>1, <3>1
    <3> HIDE DEF WholeBut
    <3>3. \A m \in batch'.all \ batch'.todo : \E q \in table' : q.at = m /\ q.version >= batch'.version
      BY <2>7, <3>2
    <3> QED BY <2>1, <2>4, <2>8, <2>10, <3>2, <3>3
  <2> QED BY <2>9, <2>10
<1>16. ASSUME NEW n \in Names, Tables!ForgetDevice(n) PROVE BatchGoesOn'
  BY <1>16 DEF Tables!ForgetDevice, Tables!Call, Tables!NoBatch
<1>17. ASSUME NEW n \in Names, NEW s \in Spaces, Tables!BlobDelete(s, n) PROVE BatchGoesOn'
  BY <1>17 DEF Tables!BlobDelete, Tables!Call, Tables!Without, Tables!Place, Tables!NoBatch
<1>18. ASSUME NEW n \in Names, NEW s \in Spaces, NEW v \in Tables!Values, Tables!BlobPut(s, n, v)
      PROVE  BatchGoesOn'
  BY <1>18 DEF Tables!BlobPut, Tables!Call, Tables!Put, Tables!Place, Tables!Seal, Tables!NoBatch
<1>19. ASSUME NEW n \in Names, NEW g \in Groups, Tables!PutLid(n, g) PROVE BatchGoesOn'
  BY <1>19 DEF Tables!PutLid, Tables!Call, Tables!Put, Tables!PhoneColumn, Tables!NoBatch
<1>20. ASSUME NEW n \in Names, NEW g \in Groups, NEW has \in BOOLEAN, Tables!SetDevice(g, n, has)
      PROVE  BatchGoesOn'
  BY <1>20 DEF Tables!SetDevice, Tables!Call, Tables!Put, Tables!NoBatch
<1>21. ASSUME NEW g \in Groups, Tables!ClearDevices(g) PROVE BatchGoesOn'
  BY <1>21 DEF Tables!ClearDevices, Tables!Call, Tables!NoBatch
<1> HIDE DEF RowsOfArea, Departed, Purges, BatchGoesOn, TablesTyped
<1> QED BY <1>1, <1>2, <1>3, <1>4, <1>5, <1>6, <1>7, <1>8, <1>9, <1>10, <1>11, <1>12, <1>13, <1>14,
    <1>15, <1>16, <1>17, <1>18, <1>19, <1>20, <1>21 DEF Tables!Next

\* The invariant holds at the start, and each step keeps it.
LEMMA TablesInvInit == ASSUME TableHypotheses, Tables!Init PROVE TablesInv
<1> USE DEF Tables!Init, TableHypotheses
<1>1. TablesTyped BY DEF TablesTyped, OneRowEach, Tables!NoBatch
<1>2. RowsOfArea BY DEF RowsOfArea
<1>3. Departed /\ Purges BY DEF Departed, Purges, Tables!RetriesAreShort
<1>4. BatchGoesOn BY DEF BatchGoesOn, WholeBut, Tables!NoBatch
<1> QED BY <1>1, <1>2, <1>3, <1>4 DEF TablesInv

LEMMA TablesInvStep ==
  ASSUME TableHypotheses, TablesInv, [Tables!Next]_(Tables!psVars) PROVE TablesInv'
<1>1. CASE Tables!Next
  BY <1>1, TablesTypedStep, RowsStep, DepartedStep, PurgesStep, BatchStep DEF TablesInv
<1>2. CASE UNCHANGED Tables!psVars
  <2> USE <1>2 DEF Tables!psVars
  <2>1. TablesTyped' BY DEF TablesInv, TablesTyped, OneRowEach
  <2>2. RowsOfArea' BY DEF TablesInv, RowsOfArea, BlobRow
  <2>3. Departed' /\ Purges' BY DEF TablesInv, Departed, Purges, Tables!RetriesAreShort
  <2>4. BatchGoesOn' BY DEF TablesInv, BatchGoesOn, WholeBut
  <2> QED BY <2>1, <2>2, <2>3, <2>4 DEF TablesInv
<1> QED BY <1>1, <1>2

\* What the tables promise follows from it.
LEMMA TablesPromises ==
  ASSUME TableHypotheses, TablesInv
  PROVE  /\ Tables!TypeOK /\ Tables!GoneStaysGone /\ Tables!ReadIsWritten /\ Tables!RetriesAreShort
         /\ Tables!BatchesAreWhole /\ Tables!PhoneAgrees
<1>1. Tables!TypeOK BY DEF TableHypotheses, TablesInv, TablesTyped, OneRowEach, Tables!TypeOK
<1>2. Tables!GoneStaysGone /\ Tables!RetriesAreShort
  BY DEF TablesInv, Departed, Purges, Tables!GoneStaysGone, Tables!At
<1>3. Tables!ReadIsWritten
  <2> SUFFICES ASSUME area = "blobs", NEW s \in Spaces, NEW n \in Names PROVE Tables!BlobGet(s, n) = written[s, n]
    BY DEF Tables!ReadIsWritten
  <2>1. ASSUME NEW r \in table, r.at = <<s, n>> PROVE r = BlobRow(<<s, n>>) /\ written[<<s, n>>] # "none"
    BY <2>1 DEF TablesInv, RowsOfArea, BlobRow
  <2>4. written[s, n] = written[<<s, n>>] BY Zenon
  <2>2. CASE Tables!At(<<s, n>>) = {}
    <3>1. BlobRow(<<s, n>>) \notin table BY <2>2 DEF Tables!At, BlobRow
    <3>2. written[<<s, n>>] = "none" BY <3>1 DEF TablesInv, RowsOfArea
    <3>3. Tables!BlobGet(s, n) = "none" BY Zenon, <2>2 DEF Tables!BlobGet, Tables!Place
    <3> QED BY <2>4, <3>2, <3>3
  <2>3. CASE Tables!At(<<s, n>>) # {}
    <3> DEFINE r == CHOOSE q \in Tables!At(<<s, n>>) : TRUE
    <3>1. r \in table /\ r.at = <<s, n>> BY <2>3 DEF Tables!At
    <3>2. r.val = [at |-> <<s, n>>, val |-> written[<<s, n>>]] BY <2>1, <3>1 DEF BlobRow
    <3>3. Tables!BlobGet(s, n) = Tables!Open(<<s, n>>, r.val) BY Zenon, <2>3 DEF Tables!BlobGet, Tables!Place
    <3> HIDE DEF r
    <3>4. Tables!Open(<<s, n>>, r.val) = written[<<s, n>>] BY <3>2 DEF Tables!Open
    <3> QED BY <2>4, <3>3, <3>4
  <2> QED BY <2>2, <2>3
<1>4. Tables!BatchesAreWhole
  BY DEF TablesInv, BatchGoesOn, WholeBut, Tables!BatchesAreWhole, Tables!NoBatch
<1>5. Tables!PhoneAgrees BY DEF TablesInv, RowsOfArea, Tables!PhoneAgrees, Tables!PhoneRow
<1> QED BY <1>1, <1>2, <1>3, <1>4, <1>5

\* For any names, groups and times: what is gone stays gone, a blob is read as it was written, no payload outlives
\* its purge, a version's MACs are whole, and a number finds its own mapping (store.rs, crypto.rs).
THEOREM TablesKeepTheirPromises ==
  ASSUME TableHypotheses
  PROVE  Tables!Spec => [](/\ Tables!TypeOK /\ Tables!GoneStaysGone /\ Tables!ReadIsWritten
                           /\ Tables!RetriesAreShort /\ Tables!BatchesAreWhole /\ Tables!PhoneAgrees)
<1>1. Tables!Init => TablesInv BY TablesInvInit
<1>2. TablesInv /\ [Tables!Next]_(Tables!psVars) => TablesInv' BY TablesInvStep
<1>3. TablesInv => /\ Tables!TypeOK /\ Tables!GoneStaysGone /\ Tables!ReadIsWritten
                   /\ Tables!RetriesAreShort /\ Tables!BatchesAreWhole /\ Tables!PhoneAgrees
  BY TablesPromises
<1> QED BY <1>1, <1>2, <1>3, PTL DEF Tables!Spec
=============================================================================
