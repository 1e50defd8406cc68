------------------------- MODULE MC_SubjectDeletion -------------------------
(* Small subjects: a row names object 1, which keeps the prefix of a       *)
(* former course, and a feedback file object 3; object 2 is under the      *)
(* prefix and belongs to another course, object 4 is an abandoned upload.  *)
EXTENDS SubjectDeletion

CONSTANTS w1, w2

OneWorker == {w1}
TwoWorkers == {w1, w2}

=============================================================================
