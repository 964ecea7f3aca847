----------------------------- MODULE MC_Runner -----------------------------
(* Small instances of Runner: one or two workflows, two run ids, the app-   *)
(* event loop, one or two other starting threads and one cancelling thread. *)
EXTENDS Runner, TLC

Symmetry == Permutations(Runs)
=============================================================================
