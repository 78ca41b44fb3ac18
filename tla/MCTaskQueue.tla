---------------------------- MODULE MCTaskQueue ----------------------------
(* Two requests for the same plan, of which the second creates a task again *)
(* or executes the first one's, and one fault of the environment.           *)
EXTENDS TaskQueue

=============================================================================
