-------------------------- MODULE MCTrackerHistory --------------------------
(* TrackerHistory on the users, networks and messages of MCTracker.  The   *)
(* threads of the pool are interchangeable.                                *)
EXTENDS MCTracker, TrackerHistory, TLC

Threads == Permutations(Worker)
=============================================================================
