------------------------------- MODULE RpmemPool -------------------------------
(****************************************************************************)
(* The server's resource pool at the granularity of memory accesses: the    *)
(* cq_threads of the connections run rpmem_handle_open, rpmem_handle_map    *)
(* and rpmem_handle_unmap concurrently (rpmem_server.c).  Map and unmap     *)
(* change the pool under res_lock; open reads free_size without the lock.   *)
(* Each "x += n" of the code is a load and a store.                         *)
(*                                                                          *)
(* Connections may send the requests in any order: nothing on the server    *)
(* relates a request to the ones before it.  A map on a unit that already   *)
(* holds the resource and an unmap on one that holds none dereference a     *)
(* null pointer, which ends the server process.  Where a handler gives up   *)
(* early (a failed rpmem_post_recv, ibv_reg_mr or munmap) it leaves the     *)
(* pool as it is, which is a step that changes nothing here.                *)
(****************************************************************************)
EXTENDS RpmemPoolAtomic

CONSTANT Lens       \* the lengths (int) that map requests ask for

ASSUME LensAssumption == Lens \subseteq Int

VARIABLES
    pc,             \* where each connection's cq_thread is
    len,            \* local len of rpmem_handle_map
    res,            \* local res of the handlers
    reg,            \* the register of an add or subtract in progress
    size,           \* local size of rpmem_handle_open
    res_lock,       \* the holder of server->res_lock, or NULL
    up              \* the server process has not crashed

threadVars == <<pc, len, res, reg, size>>
vars == <<poolVars, threadVars, res_lock, up>>

Locked == {"map_scan", "map_load_free", "map_store_free", "map_load_in_use",
           "map_store_in_use", "map_remove", "map_unlock",
           "unmap_insert", "unmap_clear", "unmap_load_free",
           "unmap_store_free", "unmap_load_in_use", "unmap_store_in_use",
           "unmap_unlock"}

Unlocked == {"poll", "map_lock", "map_use", "unmap_lock"}

Init ==
    /\ PoolInit
    /\ pc = [c \in Conns |-> "poll"]
    /\ len = [c \in Conns |-> 0]
    /\ res = [c \in Conns |-> NULL]
    /\ reg = [c \in Conns |-> 0]
    /\ size = [c \in Conns |-> 0]
    /\ res_lock = NULL
    /\ up = TRUE

Goto(c, from, to) == /\ up /\ pc[c] = from
                     /\ pc' = [pc EXCEPT ![c] = to]

--------------------------------------------------------------------------------
\* rpmem_handle_open: an unlocked read of free_size, sent to the client.
HandleOpen(c) ==
    /\ up /\ pc[c] = "poll"
    /\ size' = [size EXCEPT ![c] = free_size]
    /\ UNCHANGED <<poolVars, pc, len, res, reg, res_lock, up>>

\* rpmem_handle_map up to the lock.
MapStart(c, l) ==
    /\ Goto(c, "poll", "map_lock")
    /\ len' = [len EXCEPT ![c] = l]
    /\ UNCHANGED <<poolVars, res, reg, size, res_lock, up>>

\* Mutant: the null unit->res goes unnoticed.
UnmapStart_unchecked(c) ==
    /\ Goto(c, "poll", "unmap_lock")
    /\ res' = [res EXCEPT ![c] = unit_res[c]]
    /\ UNCHANGED <<poolVars, len, reg, size, res_lock, up>>

\* rpmem_handle_unmap up to the lock: it reads unit->res and, to deregister
\* the memory region, follows it.
UnmapStart(c) ==
    /\ up /\ pc[c] = "poll"
    /\ IF unit_res[c] = NULL
       THEN up' = FALSE /\ UNCHANGED <<pc, res>>
       ELSE /\ pc' = [pc EXCEPT ![c] = "unmap_lock"]
            /\ res' = [res EXCEPT ![c] = unit_res[c]]
            /\ UNCHANGED up
    /\ UNCHANGED <<poolVars, len, reg, size, res_lock>>

--------------------------------------------------------------------------------
\* Mutant: the lock is taken without waiting for it.
SpinLock_nowait(c) ==
    /\ res_lock' = c
    /\ \/ Goto(c, "map_lock", "map_scan")
       \/ Goto(c, "unmap_lock", "unmap_insert")
    /\ UNCHANGED <<poolVars, len, res, reg, size, up>>

\* pthread_spin_lock and pthread_spin_unlock of both handlers.
SpinLock(c) ==
    /\ res_lock = NULL
    /\ res_lock' = c
    /\ \/ Goto(c, "map_lock", "map_scan")
       \/ Goto(c, "unmap_lock", "unmap_insert")
    /\ UNCHANGED <<poolVars, len, res, reg, size, up>>

SpinUnlock(c) ==
    /\ \/ Goto(c, "map_unlock", "map_use")
       \/ Goto(c, "unmap_unlock", "poll")
    /\ res_lock' = NULL
    /\ UNCHANGED <<poolVars, len, res, reg, size, up>>

\* Mutant: "didn't find suitable mapping" returns with the lock held.
MapScan_locked(c) ==
    /\ IF Suitable(len[c])
       THEN /\ Goto(c, "map_scan", "map_load_free")
            /\ res' = [res EXCEPT ![c] = Head(res_list)]
            /\ unit_res' = [unit_res EXCEPT ![c] = Head(res_list)]
       ELSE /\ Goto(c, "map_scan", "map_use")
            /\ res' = [res EXCEPT ![c] = NULL]
            /\ UNCHANGED unit_res
    /\ UNCHANGED <<res_list, free_size, in_use_size, len, reg, size, res_lock, up>>

\* SLIST_FOREACH_SAFE: res stops at the first large enough entry, which
\* becomes unit->res; if there is none, res ends as NULL.
MapScan(c) ==
    /\ IF Suitable(len[c])
       THEN /\ Goto(c, "map_scan", "map_load_free")
            /\ res' = [res EXCEPT ![c] = Head(res_list)]
            /\ unit_res' = [unit_res EXCEPT ![c] = Head(res_list)]
       ELSE /\ Goto(c, "map_scan", "map_unlock")
            /\ res' = [res EXCEPT ![c] = NULL]
            /\ UNCHANGED unit_res
    /\ UNCHANGED <<res_list, free_size, in_use_size, len, reg, size, res_lock, up>>

\* free_size -= size in map, free_size += size in unmap.
LoadFree(c) ==
    /\ \/ Goto(c, "map_load_free", "map_store_free")
       \/ Goto(c, "unmap_load_free", "unmap_store_free")
    /\ reg' = [reg EXCEPT ![c] = free_size]
    /\ UNCHANGED <<poolVars, len, res, size, res_lock, up>>

\* Mutant: unmap subtracts where it should add.
StoreFree_minus(c) ==
    /\ \/ Goto(c, "map_store_free", "map_load_in_use")
       \/ Goto(c, "unmap_store_free", "unmap_load_in_use")
    /\ free_size' = reg[c] - Size
    /\ UNCHANGED <<res_list, unit_res, in_use_size, len, res, reg, size, res_lock, up>>

StoreFree(c) ==
    /\ \/ /\ Goto(c, "map_store_free", "map_load_in_use")
          /\ free_size' = reg[c] - Size
       \/ /\ Goto(c, "unmap_store_free", "unmap_load_in_use")
          /\ free_size' = reg[c] + Size
    /\ UNCHANGED <<res_list, unit_res, in_use_size, len, res, reg, size, res_lock, up>>

\* in_use_size += size in map, in_use_size -= size in unmap.
LoadInUse(c) ==
    /\ \/ Goto(c, "map_load_in_use", "map_store_in_use")
       \/ Goto(c, "unmap_load_in_use", "unmap_store_in_use")
    /\ reg' = [reg EXCEPT ![c] = in_use_size]
    /\ UNCHANGED <<poolVars, len, res, size, res_lock, up>>

\* Mutant: unmap does not lower in_use_size.
StoreInUse_kept(c) ==
    /\ \/ /\ Goto(c, "map_store_in_use", "map_remove")
          /\ in_use_size' = reg[c] + Size
       \/ Goto(c, "unmap_store_in_use", "unmap_unlock") /\ UNCHANGED in_use_size
    /\ UNCHANGED <<res_list, unit_res, free_size, len, res, reg, size, res_lock, up>>

StoreInUse(c) ==
    /\ \/ /\ Goto(c, "map_store_in_use", "map_remove")
          /\ in_use_size' = reg[c] + Size
       \/ /\ Goto(c, "unmap_store_in_use", "unmap_unlock")
          /\ in_use_size' = reg[c] - Size
    /\ UNCHANGED <<res_list, unit_res, free_size, len, res, reg, size, res_lock, up>>

\* Mutant: the entry stays in the list.
MapRemove_kept(c) ==
    /\ Goto(c, "map_remove", "map_unlock")
    /\ UNCHANGED <<poolVars, len, res, reg, size, res_lock, up>>

\* SLIST_REMOVE of the entry the scan stopped at: the head of the list.
MapRemove(c) ==
    /\ Goto(c, "map_remove", "map_unlock")
    /\ res_list' = Tail(res_list)
    /\ UNCHANGED <<unit_res, free_size, in_use_size, len, res, reg, size, res_lock, up>>

UnmapInsert(c) ==
    /\ Goto(c, "unmap_insert", "unmap_clear")
    /\ res_list' = <<res[c]>> \o res_list
    /\ UNCHANGED <<unit_res, free_size, in_use_size, len, res, reg, size, res_lock, up>>

\* Mutant: unit->res keeps pointing at the resource.
UnmapClear_kept(c) ==
    /\ Goto(c, "unmap_clear", "unmap_load_free")
    /\ UNCHANGED <<poolVars, len, res, reg, size, res_lock, up>>

UnmapClear(c) ==
    /\ Goto(c, "unmap_clear", "unmap_load_free")
    /\ unit_res' = [unit_res EXCEPT ![c] = NULL]
    /\ UNCHANGED <<res_list, free_size, in_use_size, len, res, reg, size, res_lock, up>>

\* After the lock, rpmem_handle_map gives up if unit->res is NULL and follows
\* res otherwise, even if the scan left res NULL.
MapUse(c) ==
    /\ up /\ pc[c] = "map_use"
    /\ IF unit_res[c] # NULL /\ res[c] = NULL
       THEN up' = FALSE /\ UNCHANGED pc
       ELSE pc' = [pc EXCEPT ![c] = "poll"] /\ UNCHANGED up
    /\ UNCHANGED <<poolVars, len, res, reg, size, res_lock>>

--------------------------------------------------------------------------------
Thread(c) ==
    \/ HandleOpen(c) \/ UnmapStart(c) \/ \E l \in Lens : MapStart(c, l)
    \/ SpinLock(c) \/ SpinUnlock(c) \/ MapScan(c)
    \/ LoadFree(c) \/ StoreFree(c) \/ LoadInUse(c) \/ StoreInUse(c)
    \/ MapRemove(c) \/ UnmapInsert(c) \/ UnmapClear(c) \/ MapUse(c)

Next == \E c \in Conns : Thread(c)

Spec == Init /\ [][Next]_vars

\* A thread inside a handler keeps running; when requests arrive, and which
\* thread wins a contended spinlock, is left open.
Step(c) == \/ SpinUnlock(c) \/ MapScan(c) \/ MapRemove(c) \/ UnmapInsert(c)
           \/ UnmapClear(c) \/ LoadFree(c) \/ StoreFree(c) \/ LoadInUse(c)
           \/ StoreInUse(c) \/ MapUse(c)

FairSpec == Spec /\ \A c \in Conns : WF_vars(Step(c))

--------------------------------------------------------------------------------
(* Properties.                                                              *)

\* The type of every variable; in particular nothing but the resource is ever
\* linked into res_list, also not a null unit->res.
TypeOK ==
    /\ res_list \in Seq({Res})
    /\ unit_res \in [Conns -> {Res, NULL}]
    /\ free_size \in Int
    /\ in_use_size \in Int
    /\ pc \in [Conns -> Locked \cup Unlocked]
    /\ len \in [Conns -> Int]
    /\ res \in [Conns -> {Res, NULL}]
    /\ reg \in [Conns -> Int]
    /\ size \in [Conns -> Int]
    /\ res_lock \in Conns \cup {NULL}
    /\ up \in BOOLEAN

\* res_lock excludes: a thread is between pthread_spin_lock and
\* pthread_spin_unlock exactly when it is the holder.
LockInv == \A c \in Conns : pc[c] \in Locked <=> res_lock = c

\* The pool with the list l, the units in holders holding the resource, and
\* the counters f and u.
PoolIs(l, holders, f, u) ==
    /\ res_list = l
    /\ unit_res = [c \in Conns |-> IF c \in holders THEN Res ELSE NULL]
    /\ free_size = f
    /\ in_use_size = u

AtRest == \/ PoolIs(<<Res>>, {}, Size, 0)
          \/ \E c \in Conns : PoolIs(<<>>, {c}, 0, Size)

\* Whenever no thread holds res_lock, the resource is either in the list or
\* in exactly one unit, never both and never neither, and free_size and
\* in_use_size say which: no interleaving of map and unmap loses, duplicates
\* or miscounts it.
Conservation == res_lock = NULL => AtRest

\* Even inside the critical sections no two units hold the resource.
OneHolder == \A c, d \in Conns :
    unit_res[c] # NULL /\ unit_res[d] # NULL => c = d

\* The unlocked read in rpmem_handle_open answers the whole resource or
\* nothing, never a half-updated counter.
OpenAnswer == \A c \in Conns : size[c] \in {0, Size}

\* res_lock is always given back (or the process has died): no path through
\* a handler leaves the critical section locked.
LockReleased == \A c \in Conns : res_lock = c ~> (res_lock # c \/ ~up)

\* What holds at each point of a thread's critical section; the inductive
\* invariant behind the properties above.
StageInv(c) ==
    /\ pc[c] \in {"map_scan", "map_unlock", "unmap_unlock"} => AtRest
    /\ pc[c] = "map_load_free"    => PoolIs(<<Res>>, {c}, Size, 0)
    /\ pc[c] = "map_store_free"   => PoolIs(<<Res>>, {c}, Size, 0) /\ reg[c] = Size
    /\ pc[c] = "map_load_in_use"  => PoolIs(<<Res>>, {c}, 0, 0)
    /\ pc[c] = "map_store_in_use" => PoolIs(<<Res>>, {c}, 0, 0) /\ reg[c] = 0
    /\ pc[c] = "map_remove"       => PoolIs(<<Res>>, {c}, 0, Size)
    /\ pc[c] = "unmap_lock"       => unit_res[c] = Res /\ res[c] = Res
    /\ pc[c] = "unmap_insert"     => PoolIs(<<>>, {c}, 0, Size) /\ res[c] = Res
    /\ pc[c] = "unmap_clear"      => PoolIs(<<Res>>, {c}, 0, Size)
    /\ pc[c] = "unmap_load_free"  => PoolIs(<<Res>>, {}, 0, Size)
    /\ pc[c] = "unmap_store_free" => PoolIs(<<Res>>, {}, 0, Size) /\ reg[c] = 0
    /\ pc[c] = "unmap_load_in_use"  => PoolIs(<<Res>>, {}, Size, Size)
    /\ pc[c] = "unmap_store_in_use" => PoolIs(<<Res>>, {}, Size, Size) /\ reg[c] = Size

PoolInv == /\ LockInv
           /\ Conservation
           /\ OpenAnswer
           /\ \A c \in Conns : StageInv(c)

--------------------------------------------------------------------------------
(* Refinement.  An update takes effect when its new free_size is stored,    *)
(* the one store that a thread without the lock can see.                    *)
Taking  == {"map_load_free", "map_store_free"}                 \* not yet taken
Taken   == {"map_load_in_use", "map_store_in_use", "map_remove"}
Putting == {"unmap_clear", "unmap_load_free", "unmap_store_free"} \* not yet put
PutBack == {"unmap_load_in_use", "unmap_store_in_use"}

Someone(points) == \E c \in Conns : pc[c] \in points

listAbs == IF Someone(Taken \cup Putting) THEN <<>> ELSE res_list

unitAbs == [c \in Conns |-> IF pc[c] \in Taking THEN NULL
                            ELSE IF pc[c] \in Putting THEN Res
                            ELSE unit_res[c]]

inUseAbs == IF Someone(Taken) THEN Size
            ELSE IF Someone(PutBack) THEN 0
            ELSE in_use_size

Atomic == INSTANCE RpmemPoolAtomic WITH res_list <- listAbs,
                                        unit_res <- unitAbs,
                                        in_use_size <- inUseAbs

\* The spinlocked handlers implement the atomic pool, and the unlocked read
\* of free_size sees the atomic pool's counter.
ImplementsAtomicPool == Atomic!PoolSpec
================================================================================
