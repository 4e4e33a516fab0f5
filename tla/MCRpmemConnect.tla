----------------------------- MODULE MCRpmemConnect -----------------------------
(* Model-checking instances of RpmemConnect; the cfg files name the files.     *)
EXTENDS RpmemConnect

CONSTANT f1

\* One file meets every failure.  What its connection can see of another one is
\* the server's thread between their requests, so the others only come and go:
\* they are rejected, time out or are closed.
OneFails == [f \in Files |-> IF f = f1 THEN AllFaults
                            ELSE {"unreachable", "create_qp"}]

\* The address does not resolve, and no call fails.
AddrError == [f \in Files |-> {"addr_error"}]
================================================================================
