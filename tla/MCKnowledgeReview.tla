------------------------- MODULE MCKnowledgeReview -------------------------
(* Instances of KnowledgeReview for TLC.                                    *)
EXTENDS KnowledgeReview, TLC

Interchangeable == Permutations(Reviewer) \cup Permutations(Item)
=============================================================================
