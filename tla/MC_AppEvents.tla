---------------------------- MODULE MC_AppEvents ----------------------------
(* A polling trigger and a socket trigger on one workflow, so that their     *)
(* events compete for its slot.                                              *)
EXTENDS AppEvents

CONSTANTS p1, s1, w1, f1, f2

PollAndSocket == {p1, s1}
PollOnly      == {p1}
OneWorkflow   == [t \in Triggers |-> w1]
FeedOfTrigger == [t \in Triggers |-> IF t = p1 THEN f1 ELSE f2]
LengthOfFeed  == [f \in Feeds |-> IF f = f2 THEN MaxPosition ELSE 2]
FirstFiltered == {<<s1, 1>>}
LastRejected  == {<<s1, 3>>}
EveryItem     == Items
NoItems       == {}
=============================================================================
