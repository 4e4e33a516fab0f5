--------------------------- MODULE MCRpmemCompletion ---------------------------
(* Model-checking instances of RpmemCompletion with the numbers of the code:   *)
(* batches of 16, a budget of 64, at most 8 completions of a client at a time. *)
EXTENDS RpmemCompletion
================================================================================
