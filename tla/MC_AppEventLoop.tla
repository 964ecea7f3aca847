--------------------------- MODULE MC_AppEventLoop ---------------------------
(* Polling triggers on one feed and socket triggers on another.                *)
EXTENDS AppEventLoop

CONSTANTS p1, p2, s1, s2, f1, f2

FeedOfTrigger == [t \in Triggers |-> IF t \in Sockets THEN f2 ELSE f1]
=============================================================================
