--------------------------- MODULE EventDelivery ---------------------------
(***************************************************************************)
(* What docs/app-events.md promises of each event, as one trigger sees it: *)
(* it is accepted at most once and then makes one run, or it is closed     *)
(* (rejected, dropped, or withdrawn with its trigger); neither is undone.  *)
(* The exception is what 30 days of receipts mean: an event whose outcome  *)
(* is forgotten is like a new one.  An event that waits is never forgotten.*)
(***************************************************************************)
CONSTANT Events
VARIABLE outcome

Outcomes == {"new", "accepted", "delivered", "closed", "forgotten"}
Unknown  == {"new", "forgotten"}

Init == outcome = [e \in Events |-> "new"]

Accept(e) == outcome[e] \in Unknown /\ outcome' = [outcome EXCEPT ![e] = "accepted"]

Deliver(e) == outcome[e] = "accepted" /\ outcome' = [outcome EXCEPT ![e] = "delivered"]

Refuse(e) == outcome[e] \in Unknown /\ outcome' = [outcome EXCEPT ![e] = "closed"]

Forget(e) ==
    /\ outcome[e] \in {"delivered", "closed"}
    /\ outcome' = [outcome EXCEPT ![e] = "forgotten"]

\* The trigger is deleted with what it has waiting.
Withdraw ==
    /\ outcome' \in [Events -> Outcomes]
    /\ \A e \in Events :
         outcome'[e] # outcome[e] => outcome[e] = "accepted" /\ outcome'[e] = "closed"

Next ==
    \/ Withdraw
    \/ \E e \in Events : Accept(e) \/ Deliver(e) \/ Refuse(e) \/ Forget(e)

Spec == Init /\ [][Next]_outcome
=============================================================================
