-------------------------- MODULE MCClarification --------------------------
(* Instances of Clarification for TLC.                                      *)
EXTENDS Clarification, TLC

Interchangeable ==
  Permutations(Caller) \cup Permutations(Subject)
  \cup Permutations(Wording) \cup Permutations(Text)
=============================================================================
