------------------------------ MODULE MCWorker ------------------------------
(* Small instances of the worker: the .cfg files give the constants their values. *)
EXTENDS WorkerInv, TLC

Symmetric == Permutations(Keys) \cup Permutations(ValidRequests)
=============================================================================
