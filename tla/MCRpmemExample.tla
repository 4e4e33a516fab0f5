----------------------------- MODULE MCRpmemExample -----------------------------
(* Model-checking instances of RpmemStartup and RpmemExample: every command    *)
(* line of up to three parameters, a block of 4 bytes and a word of 64 values, *)
(* every size up to two words and a half.                                      *)
EXTENDS RpmemExample

ShortArgs == UNION {[1 .. n -> Params] : n \in 0 .. 3}
AllSizes == 0 .. 5 * (Word \div 2)
================================================================================
