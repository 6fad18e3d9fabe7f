--------------------------- MODULE MCTaskListing ---------------------------
(* Instances of TaskListing: ids are numbers, ordered as they are.         *)
EXTENDS TaskListing

FewIds == 1..4
=============================================================================
