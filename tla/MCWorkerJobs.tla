---------------------------- MODULE MCWorkerJobs ----------------------------
(* Jobs of the Python engine on a small instance: any of the steps may ask  *)
(* for approval.                                                            *)
EXTENDS WorkerJobs

=============================================================================
