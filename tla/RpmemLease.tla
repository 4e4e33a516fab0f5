------------------------------- MODULE RpmemLease -------------------------------
(****************************************************************************)
(* What the library promises its applications about the remote region: it   *)
(* is leased to one connection at a time.  A lease is granted only when the *)
(* region is free, begins with a copy of the region in the holder's buffer, *)
(* and while it lasts only the holder's buffer is ever written to the       *)
(* region; the region is taken back only after the holder has given up its  *)
(* mapping.  That a lease is ever returned is not promised: a holder that   *)
(* closes its file or dies keeps it.                                        *)
(*                                                                          *)
(* There are no messages, queues or keys here: RpmemSession implements this *)
(* specification.                                                           *)
(****************************************************************************)
CONSTANTS
    Conns,          \* connections
    NULL,           \* the owner of a free region
    Contents        \* what a buffer or the region can hold

VARIABLES
    owner,          \* the connection that the region is granted to
    lease,          \* "none", "held" by the application, or "ending"
    view,           \* the buffer of the application
    region          \* the server's mapping

leaseVars == <<owner, lease, view, region>>

LeaseInit ==
    /\ owner = NULL /\ region \in Contents
    /\ lease = [c \in Conns |-> "none"]
    /\ view \in [Conns -> Contents]

Grant(c) == /\ owner = NULL
            /\ owner' = c
            /\ region' \in Contents
            /\ UNCHANGED <<lease, view>>

Begin(c) == /\ owner = c /\ lease[c] = "none"
            /\ lease' = [lease EXCEPT ![c] = "held"]
            /\ view' = [view EXCEPT ![c] = region]
            /\ UNCHANGED <<owner, region>>

\* The application works on its buffer.
Change(c) == /\ lease[c] = "held"
             /\ \E data \in Contents : view' = [view EXCEPT ![c] = data]
             /\ UNCHANGED <<owner, lease, region>>

\* The buffer reaches the region, also late, while the lease ends.
Write(c) == /\ owner = c /\ lease[c] # "none"
            /\ region' = view[c]
            /\ UNCHANGED <<owner, lease, view>>

\* The application calls rpmem_unmap or rpmem_close.
End(c) == /\ lease[c] = "held"
          /\ lease' = [lease EXCEPT ![c] = "ending"]
          /\ UNCHANGED <<owner, view, region>>

\* The call returns, or the application dies; the buffer is freed.
Forget(c) == /\ lease[c] # "none"
             /\ lease' = [lease EXCEPT ![c] = "none"]
             /\ \E data \in Contents : view' = [view EXCEPT ![c] = data]
             /\ UNCHANGED <<owner, region>>

TakeBack(c) == /\ owner = c /\ lease[c] # "held"
               /\ owner' = NULL
               /\ region' \in Contents
               /\ UNCHANGED <<lease, view>>

LeaseNext == \E c \in Conns : \/ Grant(c) \/ Begin(c) \/ Change(c) \/ Write(c)
                              \/ End(c) \/ Forget(c) \/ TakeBack(c)

LeaseSpec == LeaseInit /\ [][LeaseNext]_leaseVars
================================================================================
