--------------------------- MODULE MCSplitResults ---------------------------
(* Instances of SplitResults: the tasks and values are model values.       *)
EXTENDS SplitResults
=============================================================================
