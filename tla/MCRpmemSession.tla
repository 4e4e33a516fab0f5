----------------------------- MODULE MCRpmemSession -----------------------------
(* Model-checking instances of RpmemSession: a resource of 3 bytes, mapped    *)
(* below and at the strict bound, 4-bit words.                                *)
EXTENDS RpmemSession, TLC

Symmetry == Permutations(Conns)
================================================================================
