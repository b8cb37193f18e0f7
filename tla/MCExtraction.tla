---------------------------- MODULE MCExtraction ----------------------------
(* Instances of Extraction for TLC.                                         *)
EXTENDS Extraction, TLC

Interchangeable == Permutations(Worker) \cup Permutations(Client) \cup Permutations(Key)
=============================================================================
