---------------------------- MODULE RpmemPoolAtomic ----------------------------
(****************************************************************************)
(* What the server's resource pool promises: the one resource that main()   *)
(* inserts is taken and put back in one step, together with the two size    *)
(* counters.  RpmemPool shows that the spinlocked code of rpmem_handle_map  *)
(* and rpmem_handle_unmap implements this module; RpmemSession composes it  *)
(* with the clients and the connections.                                    *)
(****************************************************************************)
EXTENDS Integers, Sequences

CONSTANTS Conns,    \* the connections (struct rpmem_server_unit) of the server
          Res,      \* the struct rpmem_resource that main() opens
          NULL,     \* the null pointer
          Size      \* (int)res->stbuf.st_size

ASSUME PoolAssumption == /\ Size \in Int
                         /\ Res # NULL
                         /\ NULL \notin Conns

VARIABLES
    res_list,       \* server->res_list, first entry first
    unit_res,       \* unit->res of each connection
    free_size,      \* server->free_size
    in_use_size     \* server->in_use_size

poolVars == <<res_list, unit_res, free_size, in_use_size>>

\* main() fills the list before any thread exists.
PoolInit ==
    /\ res_list = <<Res>>
    /\ unit_res = [c \in Conns |-> NULL]
    /\ free_size = Size
    /\ in_use_size = 0

\* The first entry that is large enough for len, under res_lock.
Suitable(len) == res_list # <<>> /\ len < Size

\* Mutant: the entry stays in the list (no SLIST_REMOVE).
Take_kept(c) ==
    /\ res_list # <<>>
    /\ unit_res' = [unit_res EXCEPT ![c] = Head(res_list)]
    /\ free_size' = free_size - Size
    /\ in_use_size' = in_use_size + Size
    /\ UNCHANGED res_list

\* unit->res gets the entry, the counters follow, SLIST_REMOVE.
Take(c) ==
    /\ res_list # <<>>
    /\ unit_res' = [unit_res EXCEPT ![c] = Head(res_list)]
    /\ res_list' = Tail(res_list)
    /\ free_size' = free_size - Size
    /\ in_use_size' = in_use_size + Size

\* SLIST_INSERT_HEAD, unit->res is cleared, the counters follow.
Put(c) ==
    /\ unit_res[c] # NULL
    /\ res_list' = <<unit_res[c]>> \o res_list
    /\ unit_res' = [unit_res EXCEPT ![c] = NULL]
    /\ free_size' = free_size + Size
    /\ in_use_size' = in_use_size - Size

PoolNext == \E c \in Conns : Take(c) \/ Put(c)

PoolSpec == PoolInit /\ [][PoolNext]_poolVars
================================================================================
