----------------------------- MODULE MCRunQueue -----------------------------
(* Instances of RunQueue for TLC: workers, clients and keys are interchangeable. *)
EXTENDS RunQueue, TLC

Interchangeable == Permutations(Worker) \cup Permutations(Client) \cup Permutations(Key)
=============================================================================
