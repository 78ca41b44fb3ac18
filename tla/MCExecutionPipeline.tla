----------------------- MODULE MCExecutionPipeline -----------------------
(* The pipeline on small instances; clients are interchangeable. *)
EXTENDS ExecutionPipeline, TLC

ClientSymmetry == Permutations(Clients)

=============================================================================
