------------------------------ MODULE MCRpmemPool ------------------------------
(* Model-checking instance of RpmemPool: a resource of 3 bytes, requests     *)
(* below and at the strict bound len < size.                                 *)
EXTENDS RpmemPool

MCLens == {1, 3}
================================================================================
