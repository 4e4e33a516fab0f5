---------------------------- MODULE RpmemPool_proofs ----------------------------
(****************************************************************************)
(* Proofs about RpmemPool, for any number of connections, any resource size *)
(* and any requested lengths.                                               *)
(****************************************************************************)
EXTENDS RpmemPool, TLAPS

IInv == TypeOK /\ PoolInv

\* Facts about the only two lists the pool ever has.
LEMMA ListFacts ==
    /\ <<Res>> # <<>>
    /\ Head(<<Res>>) = Res
    /\ Tail(<<Res>>) = <<>>
    /\ <<Res>> \o <<>> = <<Res>>
    /\ <<>> \in Seq({Res})
    /\ <<Res>> \in Seq({Res})
  OBVIOUS

LEMMA InitIInv == Init => IInv
<1> SUFFICES ASSUME Init PROVE IInv
  OBVIOUS
<1> USE DEF Init, PoolInit
<1>1. TypeOK
  BY PoolAssumption, ListFacts DEF TypeOK, Unlocked
<1>2. LockInv
  BY PoolAssumption DEF LockInv, Locked
<1>3. Conservation /\ OpenAnswer
  BY DEF Conservation, AtRest, PoolIs, OpenAnswer
<1>4. \A c \in Conns : StageInv(c)
  BY DEF StageInv
<1> QED
  BY <1>1, <1>2, <1>3, <1>4 DEF IInv, PoolInv

\* Typing of each step.
LEMMA TypeStep == IInv /\ [Next]_vars => TypeOK'
<1> SUFFICES ASSUME IInv, [Next]_vars PROVE TypeOK'
  OBVIOUS
<1> USE DEF IInv, TypeOK, Goto, poolVars, Locked, Unlocked
<1>1. CASE UNCHANGED vars
  BY <1>1 DEF vars, threadVars
<1>2. ASSUME NEW c \in Conns, HandleOpen(c) PROVE TypeOK'
  BY <1>2 DEF HandleOpen
<1>3. ASSUME NEW c \in Conns, NEW l \in Lens, MapStart(c, l) PROVE TypeOK'
  BY <1>3, LensAssumption DEF MapStart
<1>4. ASSUME NEW c \in Conns, UnmapStart(c) PROVE TypeOK'
  BY <1>4 DEF UnmapStart
<1>5. ASSUME NEW c \in Conns, SpinLock(c) PROVE TypeOK'
  BY <1>5 DEF SpinLock
<1>6. ASSUME NEW c \in Conns, SpinUnlock(c) PROVE TypeOK'
  BY <1>6 DEF SpinUnlock
<1>7. ASSUME NEW c \in Conns, MapScan(c) PROVE TypeOK'
  <2>1. Suitable(len[c]) => Head(res_list) = Res
    BY DEF Suitable
  <2> QED
    BY <1>7, <2>1 DEF MapScan
<1>8. ASSUME NEW c \in Conns, LoadFree(c) PROVE TypeOK'
  BY <1>8 DEF LoadFree
<1>9. ASSUME NEW c \in Conns, StoreFree(c) PROVE TypeOK'
  <2>1. free_size' \in Int
    BY <1>9, PoolAssumption DEF StoreFree
  <2> QED
    BY <1>9, <2>1 DEF StoreFree
<1>10. ASSUME NEW c \in Conns, LoadInUse(c) PROVE TypeOK'
  BY <1>10 DEF LoadInUse
<1>11. ASSUME NEW c \in Conns, StoreInUse(c) PROVE TypeOK'
  <2>1. in_use_size' \in Int
    BY <1>11, PoolAssumption DEF StoreInUse
  <2> QED
    BY <1>11, <2>1 DEF StoreInUse
<1>12. ASSUME NEW c \in Conns, MapRemove(c) PROVE TypeOK'
  <2>1. res_list = <<Res>>
    BY <1>12 DEF MapRemove, PoolInv, StageInv, PoolIs
  <2>2. res_list' \in Seq({Res})
    BY <1>12, <2>1, ListFacts DEF MapRemove
  <2> QED
    BY <1>12, <2>2 DEF MapRemove
<1>13. ASSUME NEW c \in Conns, UnmapInsert(c) PROVE TypeOK'
  <2>1. res_list = <<>> /\ res[c] = Res
    BY <1>13 DEF UnmapInsert, PoolInv, StageInv, PoolIs
  <2>2. res_list' \in Seq({Res})
    BY <1>13, <2>1, ListFacts DEF UnmapInsert
  <2> QED
    BY <1>13, <2>2 DEF UnmapInsert
<1>14. ASSUME NEW c \in Conns, UnmapClear(c) PROVE TypeOK'
  BY <1>14 DEF UnmapClear
<1>15. ASSUME NEW c \in Conns, MapUse(c) PROVE TypeOK'
  BY <1>15 DEF MapUse
<1> QED
  BY <1>1, <1>2, <1>3, <1>4, <1>5, <1>6, <1>7, <1>8, <1>9, <1>10, <1>11,
     <1>12, <1>13, <1>14, <1>15 DEF Next, Thread

\* The lock of each step.
LEMMA LockStep == IInv /\ [Next]_vars => LockInv'
<1> SUFFICES ASSUME IInv, [Next]_vars PROVE LockInv'
  OBVIOUS
<1> USE PoolAssumption DEF IInv, TypeOK, PoolInv, LockInv, Goto, Locked, Unlocked
<1>1. CASE UNCHANGED vars
  BY <1>1 DEF vars, threadVars
<1>2. ASSUME NEW c \in Conns, SpinLock(c) PROVE LockInv'
  BY <1>2 DEF SpinLock
<1>3. ASSUME NEW c \in Conns, SpinUnlock(c) PROVE LockInv'
  BY <1>3 DEF SpinUnlock
<1>4. ASSUME NEW c \in Conns,
             \/ HandleOpen(c) \/ UnmapStart(c) \/ \E l \in Lens : MapStart(c, l)
             \/ MapUse(c)
      PROVE LockInv'
  BY <1>4 DEF HandleOpen, UnmapStart, MapStart, MapUse
<1>5. ASSUME NEW c \in Conns,
             \/ MapScan(c) \/ LoadFree(c) \/ StoreFree(c) \/ LoadInUse(c)
             \/ StoreInUse(c) \/ MapRemove(c) \/ UnmapInsert(c) \/ UnmapClear(c)
      PROVE LockInv'
  BY <1>5 DEF MapScan, LoadFree, StoreFree, LoadInUse, StoreInUse, MapRemove,
              UnmapInsert, UnmapClear
<1> QED
  BY <1>1, <1>2, <1>3, <1>4, <1>5 DEF Next, Thread

\* The pool contents at each step: Conservation, OpenAnswer and StageInv.
LEMMA PoolStep ==
    IInv /\ [Next]_vars => /\ Conservation'
                           /\ OpenAnswer'
                           /\ \A d \in Conns : StageInv(d)'
<1> SUFFICES ASSUME IInv, [Next]_vars
             PROVE  /\ Conservation'
                    /\ OpenAnswer'
                    /\ \A d \in Conns : StageInv(d)'
  OBVIOUS
<1> DEFINE Goal == /\ Conservation'
                   /\ OpenAnswer'
                   /\ \A d \in Conns : StageInv(d)'
<1>0. TypeOK' /\ LockInv'
  BY TypeStep, LockStep
<1> USE PoolAssumption DEF IInv, TypeOK, PoolInv, Goto, Locked, Unlocked
<1>1. CASE UNCHANGED vars
  BY <1>1 DEF vars, threadVars, poolVars, Conservation, OpenAnswer, StageInv,
              AtRest, PoolIs
<1>2. ASSUME NEW c \in Conns, HandleOpen(c) PROVE Goal
  <2>1. free_size \in {0, Size}
    <3>1. CASE res_lock = NULL
      BY <3>1 DEF Conservation, AtRest, PoolIs
    <3>2. CASE res_lock # NULL
      <4>1. res_lock \in Conns /\ pc[res_lock] \in Locked
        BY <3>2 DEF LockInv
      <4> QED
        BY <4>1 DEF StageInv, AtRest, PoolIs
    <3> QED
      BY <3>1, <3>2
  <2>2. OpenAnswer'
    BY <1>2, <2>1 DEF HandleOpen, OpenAnswer
  <2> QED
    BY <1>2, <2>2 DEF HandleOpen, poolVars, Conservation, StageInv, AtRest, PoolIs
<1>3. ASSUME NEW c \in Conns, NEW l \in Lens, MapStart(c, l) PROVE Goal
  BY <1>3 DEF MapStart, poolVars, Conservation, OpenAnswer, StageInv, AtRest, PoolIs
<1>4. ASSUME NEW c \in Conns, UnmapStart(c) PROVE Goal
  <2>1. \/ UNCHANGED <<pc, res>>
        \/ /\ pc' = [pc EXCEPT ![c] = "unmap_lock"]
           /\ res' = [res EXCEPT ![c] = unit_res[c]]
           /\ unit_res[c] = Res
    BY <1>4 DEF UnmapStart
  <2>2. \A d \in Conns : StageInv(d)'
    BY <1>4, <2>1 DEF UnmapStart, poolVars, StageInv, AtRest, PoolIs
  <2>3. Conservation' /\ OpenAnswer'
    BY <1>4 DEF UnmapStart, poolVars, Conservation, OpenAnswer, AtRest, PoolIs
  <2> QED
    BY <2>2, <2>3
<1>5. ASSUME NEW c \in Conns, SpinLock(c) PROVE Goal
  <2>1. AtRest
    BY <1>5 DEF SpinLock, Conservation
  <2>2. pc[c] = "unmap_lock" => PoolIs(<<>>, {c}, 0, Size) /\ res[c] = Res
    BY <2>1 DEF StageInv, AtRest, PoolIs
  <2>3. StageInv(c)'
    BY <1>5, <2>1, <2>2 DEF SpinLock, poolVars, StageInv, AtRest, PoolIs
  <2>4. \A d \in Conns \ {c} : StageInv(d)'
    BY <1>5 DEF SpinLock, poolVars, StageInv, AtRest, PoolIs
  <2>5. Conservation' /\ OpenAnswer'
    BY <1>5 DEF SpinLock, Conservation, OpenAnswer
  <2> QED
    BY <2>3, <2>4, <2>5
<1>6. ASSUME NEW c \in Conns, SpinUnlock(c) PROVE Goal
  <2>1. AtRest
    BY <1>6 DEF SpinUnlock, StageInv
  <2> QED
    BY <1>6, <2>1 DEF SpinUnlock, poolVars, Conservation, OpenAnswer, StageInv,
                      AtRest, PoolIs
<1>7. ASSUME NEW c \in Conns, MapScan(c) PROVE Goal
  <2>1. AtRest /\ pc[c] = "map_scan"
    BY <1>7 DEF MapScan, StageInv
  <2>2. CASE Suitable(len[c])
    <3>1. PoolIs(<<Res>>, {}, Size, 0)
      BY <2>1, <2>2 DEF AtRest, PoolIs, Suitable
    <3>2. PoolIs(<<Res>>, {c}, Size, 0)'
      BY <1>7, <2>2, <3>1, ListFacts DEF MapScan, PoolIs
    <3>3. \A d \in Conns : pc[d] # "unmap_lock"
      BY <3>1 DEF PoolIs, StageInv
    <3>4. StageInv(c)'
      BY <1>7, <2>2, <3>2 DEF MapScan, StageInv
    <3>5. ASSUME NEW d \in Conns \ {c} PROVE StageInv(d)'
      <4>1. pc[d] \notin Locked /\ pc'[d] = pc[d]
        BY <1>7 DEF MapScan, LockInv
      <4> QED
        BY <4>1, <3>3 DEF StageInv
    <3>6. Conservation' /\ OpenAnswer'
      BY <1>0, <1>7, <2>2 DEF MapScan, LockInv, Conservation, OpenAnswer
    <3> QED
      BY <3>4, <3>5, <3>6
  <2>3. CASE ~Suitable(len[c])
    BY <1>0, <1>7, <2>1, <2>3 DEF MapScan, LockInv, Conservation, OpenAnswer,
       StageInv, AtRest, PoolIs
  <2> QED
    BY <2>2, <2>3
<1>8. ASSUME NEW c \in Conns, LoadFree(c) PROVE Goal
  BY <1>0, <1>8 DEF LoadFree, poolVars, LockInv, Conservation, OpenAnswer,
     StageInv, AtRest, PoolIs
<1>9. ASSUME NEW c \in Conns, StoreFree(c) PROVE Goal
  <2>1. free_size' = IF pc[c] = "map_store_free" THEN 0 ELSE Size
    <3>1. /\ pc[c] = "map_store_free"   => reg[c] = Size
          /\ pc[c] = "unmap_store_free" => reg[c] = 0
      BY DEF StageInv
    <3>2. \/ pc[c] = "map_store_free"   /\ free_size' = reg[c] - Size
          \/ pc[c] = "unmap_store_free" /\ free_size' = reg[c] + Size
      BY <1>9 DEF StoreFree
    <3> QED
      BY <3>1, <3>2
  <2>2. StageInv(c)'
    BY <1>9, <2>1 DEF StoreFree, StageInv, AtRest, PoolIs
  <2>3. ASSUME NEW d \in Conns \ {c} PROVE StageInv(d)'
    <3>1. pc[d] \notin Locked /\ pc'[d] = pc[d] /\ res'[d] = res[d]
      BY <1>9 DEF StoreFree, LockInv
    <3>2. pc[d] = "unmap_lock" => unit_res'[d] = Res
      BY <1>9, <2>1 DEF StoreFree, StageInv, PoolIs
    <3> QED
      BY <3>1, <3>2 DEF StageInv
  <2>4. Conservation' /\ OpenAnswer'
    BY <1>0, <1>9 DEF StoreFree, LockInv, Conservation, OpenAnswer
  <2> QED
    BY <2>2, <2>3, <2>4
<1>10. ASSUME NEW c \in Conns, LoadInUse(c) PROVE Goal
  BY <1>0, <1>10 DEF LoadInUse, poolVars, LockInv, Conservation, OpenAnswer,
     StageInv, AtRest, PoolIs
<1>11. ASSUME NEW c \in Conns, StoreInUse(c) PROVE Goal
  <2>1. in_use_size' = IF pc[c] = "map_store_in_use" THEN Size ELSE 0
    <3>1. /\ pc[c] = "map_store_in_use"   => reg[c] = 0
          /\ pc[c] = "unmap_store_in_use" => reg[c] = Size
      BY DEF StageInv
    <3>2. \/ pc[c] = "map_store_in_use"   /\ in_use_size' = reg[c] + Size
          \/ pc[c] = "unmap_store_in_use" /\ in_use_size' = reg[c] - Size
      BY <1>11 DEF StoreInUse
    <3> QED
      BY <3>1, <3>2
  <2>2. StageInv(c)'
    BY <1>11, <2>1 DEF StoreInUse, StageInv, AtRest, PoolIs
  <2>3. ASSUME NEW d \in Conns \ {c} PROVE StageInv(d)'
    <3>1. pc[d] \notin Locked /\ pc'[d] = pc[d] /\ res'[d] = res[d]
      BY <1>11 DEF StoreInUse, LockInv
    <3>2. pc[d] = "unmap_lock" => unit_res'[d] = Res
      BY <1>11, <2>1 DEF StoreInUse, StageInv, PoolIs
    <3> QED
      BY <3>1, <3>2 DEF StageInv
  <2>4. Conservation' /\ OpenAnswer'
    BY <1>0, <1>11 DEF StoreInUse, LockInv, Conservation, OpenAnswer
  <2> QED
    BY <2>2, <2>3, <2>4
<1>12. ASSUME NEW c \in Conns, MapRemove(c) PROVE Goal
  <2>1. PoolIs(<<>>, {c}, 0, Size)'
    BY <1>12, ListFacts DEF MapRemove, StageInv, PoolIs
  <2>2. StageInv(c)'
    BY <1>12, <2>1 DEF MapRemove, StageInv, AtRest, PoolIs
  <2>3. ASSUME NEW d \in Conns \ {c} PROVE StageInv(d)'
    <3>1. pc[d] \notin Locked /\ pc'[d] = pc[d] /\ res'[d] = res[d]
      BY <1>12 DEF MapRemove, LockInv
    <3>2. pc[d] = "unmap_lock" => unit_res'[d] = Res
      BY <1>12, <2>1 DEF MapRemove, StageInv, PoolIs
    <3> QED
      BY <3>1, <3>2 DEF StageInv
  <2>4. Conservation' /\ OpenAnswer'
    BY <1>0, <1>12 DEF MapRemove, LockInv, Conservation, OpenAnswer
  <2> QED
    BY <2>2, <2>3, <2>4
<1>13. ASSUME NEW c \in Conns, UnmapInsert(c) PROVE Goal
  <2>1. PoolIs(<<Res>>, {c}, 0, Size)'
    BY <1>13, ListFacts DEF UnmapInsert, StageInv, PoolIs
  <2>2. StageInv(c)'
    BY <1>13, <2>1 DEF UnmapInsert, StageInv, AtRest, PoolIs
  <2>3. ASSUME NEW d \in Conns \ {c} PROVE StageInv(d)'
    <3>1. pc[d] \notin Locked /\ pc'[d] = pc[d] /\ res'[d] = res[d]
      BY <1>13 DEF UnmapInsert, LockInv
    <3>2. pc[d] = "unmap_lock" => unit_res'[d] = Res
      BY <1>13, <2>1 DEF UnmapInsert, StageInv, PoolIs
    <3> QED
      BY <3>1, <3>2 DEF StageInv
  <2>4. Conservation' /\ OpenAnswer'
    BY <1>0, <1>13 DEF UnmapInsert, LockInv, Conservation, OpenAnswer
  <2> QED
    BY <2>2, <2>3, <2>4
<1>14. ASSUME NEW c \in Conns, UnmapClear(c) PROVE Goal
  <2>1. PoolIs(<<Res>>, {}, 0, Size)'
    BY <1>14 DEF UnmapClear, StageInv, PoolIs
  <2>2. \A d \in Conns \ {c} : pc[d] # "unmap_lock"
    BY <1>14 DEF UnmapClear, PoolIs, StageInv
  <2>3. StageInv(c)'
    BY <1>14, <2>1, <2>2 DEF UnmapClear, StageInv, AtRest, PoolIs
  <2>4. ASSUME NEW d \in Conns \ {c} PROVE StageInv(d)'
    <3>1. pc[d] \notin Locked /\ pc'[d] = pc[d] /\ res'[d] = res[d]
      BY <1>14 DEF UnmapClear, LockInv
    <3>2. pc[d] = "unmap_lock" => unit_res'[d] = Res
      BY <1>14, <2>1, <2>2 DEF UnmapClear, StageInv, PoolIs
    <3> QED
      BY <3>1, <3>2 DEF StageInv
  <2>5. Conservation' /\ OpenAnswer'
    BY <1>0, <1>14 DEF UnmapClear, LockInv, Conservation, OpenAnswer
  <2> QED
    BY <2>3, <2>4, <2>5
<1>15. ASSUME NEW c \in Conns, MapUse(c) PROVE Goal
  <2>1. UNCHANGED pc \/ pc' = [pc EXCEPT ![c] = "poll"]
    BY <1>15 DEF MapUse
  <2>2. \A d \in Conns : StageInv(d)'
    BY <1>15, <2>1 DEF MapUse, poolVars, StageInv, AtRest, PoolIs
  <2>3. Conservation' /\ OpenAnswer'
    BY <1>15 DEF MapUse, poolVars, Conservation, OpenAnswer, AtRest, PoolIs
  <2> QED
    BY <2>2, <2>3
<1> QED
  BY <1>1, <1>2, <1>3, <1>4, <1>5, <1>6, <1>7, <1>8, <1>9, <1>10, <1>11,
     <1>12, <1>13, <1>14, <1>15 DEF Next, Thread

\* IInv is inductive.
LEMMA Inductive == Spec => []IInv
<1>1. IInv /\ [Next]_vars => IInv'
  BY TypeStep, LockStep, PoolStep DEF IInv, PoolInv
<1> QED
  BY InitIInv, <1>1, PTL DEF Spec

--------------------------------------------------------------------------------
\* Every variable of the pool keeps its type: no handler ever links anything
\* but the resource into res_list (rpmem_handle_map, rpmem_handle_unmap).
THEOREM TypeCorrect == Spec => []TypeOK
<1>1. IInv => TypeOK
  BY DEF IInv
<1> QED
  BY Inductive, <1>1, PTL

\* At most one thread is inside the critical sections of rpmem_handle_map and
\* rpmem_handle_unmap, and it is the holder of res_lock.
THEOREM MutualExclusion == Spec => []LockInv
<1>1. IInv => LockInv
  BY DEF IInv, PoolInv
<1> QED
  BY Inductive, <1>1, PTL

\* The inductive invariant holds: at every point of the critical sections of
\* rpmem_handle_map and rpmem_handle_unmap the half-updated list, units and
\* counters are what that point's StageInv says.
THEOREM PoolInvariant == Spec => []PoolInv
<1>1. IInv => PoolInv
  BY DEF IInv
<1> QED
  BY Inductive, <1>1, PTL

\* Whatever requests arrive and however the handlers interleave, with
\* res_lock free the resource is in the list or in exactly one unit, and
\* free_size and in_use_size agree with that.
THEOREM ResourceConserved == Spec => []Conservation
<1>1. IInv => Conservation
  BY DEF IInv, PoolInv
<1> QED
  BY Inductive, <1>1, PTL

\* No two units hold the resource, also not in the middle of an update.
THEOREM ExclusiveHolder == Spec => []OneHolder
<1>1. IInv => OneHolder
  <2> SUFFICES ASSUME IInv PROVE OneHolder
    OBVIOUS
  <2> USE PoolAssumption DEF IInv, TypeOK, PoolInv
  <2>1. AtRest => OneHolder
    BY DEF AtRest, PoolIs, OneHolder
  <2>2. ASSUME NEW c \in Conns, pc[c] \in Locked PROVE OneHolder
    BY <2>1, <2>2 DEF StageInv, PoolIs, OneHolder, Locked
  <2>3. res_lock = NULL \/ \E c \in Conns : pc[c] \in Locked
    BY DEF LockInv
  <2> QED
    BY <2>1, <2>2, <2>3 DEF Conservation
<1> QED
  BY Inductive, <1>1, PTL

\* The unlocked read of rpmem_handle_open never answers a half-updated size.
THEOREM OpenAnswerWhole == Spec => []OpenAnswer
<1>1. IInv => OpenAnswer
  BY DEF IInv, PoolInv
<1> QED
  BY Inductive, <1>1, PTL

--------------------------------------------------------------------------------
(* The refinement.                                                          *)

\* The points of the critical sections at which the mapping differs from the
\* concrete pool.
Points == Taking \cup Taken \cup Putting \cup PutBack

absVars == <<listAbs, unitAbs, free_size, inUseAbs>>

\* A step that leaves the pool alone and moves no thread into, out of or
\* between the four groups of points is invisible in the atomic pool.
LEMMA Invisible ==
    ASSUME UNCHANGED poolVars, TypeOK, TypeOK',
           \A d \in Conns : \/ pc'[d] = pc[d]
                            \/ pc[d] \notin Points /\ pc'[d] \notin Points
                            \/ pc[d] \in Taking /\ pc'[d] \in Taking
                            \/ pc[d] \in Taken /\ pc'[d] \in Taken
                            \/ pc[d] \in Putting /\ pc'[d] \in Putting
                            \/ pc[d] \in PutBack /\ pc'[d] \in PutBack
    PROVE  UNCHANGED absVars
<1>1. \A d \in Conns : /\ pc'[d] \in Taking <=> pc[d] \in Taking
                       /\ pc'[d] \in Taken <=> pc[d] \in Taken
                       /\ pc'[d] \in Putting <=> pc[d] \in Putting
                       /\ pc'[d] \in PutBack <=> pc[d] \in PutBack
  BY DEF Points, Taking, Taken, Putting, PutBack
<1>2. UNCHANGED listAbs
  BY <1>1 DEF listAbs, Someone, poolVars
<1>3. UNCHANGED unitAbs
  BY <1>1 DEF unitAbs, poolVars
<1>4. UNCHANGED inUseAbs
  BY <1>1 DEF inUseAbs, Someone, poolVars
<1> QED
  BY <1>2, <1>3, <1>4 DEF absVars, poolVars

\* The atomic pool with the list l, the units in holders holding the resource
\* and the counters f and u.
AbsIs(l, holders, f, u) ==
    /\ listAbs = l
    /\ unitAbs = [d \in Conns |-> IF d \in holders THEN Res ELSE NULL]
    /\ free_size = f
    /\ inUseAbs = u

\* The atomic pool seen from the point that the lock's holder c has reached.
AbsAt(c) ==
    /\ pc[c] \in Taking \cup PutBack => AbsIs(<<Res>>, {}, Size, 0)
    /\ pc[c] \in Taken \cup Putting \cup {"unmap_insert"} => AbsIs(<<>>, {c}, 0, Size)
    /\ pc[c] \in Locked \ (Points \cup {"unmap_insert"}) =>
           listAbs = res_list /\ unitAbs = unit_res /\ inUseAbs = in_use_size

LEMMA AbsHolder == ASSUME NEW c \in Conns
                   PROVE  IInv /\ pc[c] \in Locked => AbsAt(c)
<1> SUFFICES ASSUME IInv, pc[c] \in Locked PROVE AbsAt(c)
  OBVIOUS
<1> USE DEF IInv, PoolInv
<1>1. \A d \in Conns : d # c => pc[d] \notin Locked
  BY DEF LockInv
<1>2. \A P \in SUBSET Locked : Someone(P) <=> pc[c] \in P
  BY <1>1 DEF Someone
<1>3. Taking \subseteq Locked /\ Taken \subseteq Locked /\ Putting \subseteq Locked
      /\ PutBack \subseteq Locked /\ Taken \cup Putting \subseteq Locked
  BY DEF Taking, Taken, Putting, PutBack, Locked
<1>4. listAbs = IF pc[c] \in Taken \cup Putting THEN <<>> ELSE res_list
  BY <1>2, <1>3 DEF listAbs
<1>5. inUseAbs = IF pc[c] \in Taken THEN Size
                 ELSE IF pc[c] \in PutBack THEN 0 ELSE in_use_size
  BY <1>2, <1>3 DEF inUseAbs
<1>6. unitAbs = [d \in Conns |-> IF d = c /\ pc[c] \in Taking THEN NULL
                                 ELSE IF d = c /\ pc[c] \in Putting THEN Res
                                 ELSE unit_res[d]]
  BY <1>1, <1>3 DEF unitAbs
<1>7. StageInv(c)
  OBVIOUS
<1>8. CASE pc[c] \in Taking
  BY <1>4, <1>5, <1>6, <1>7, <1>8
     DEF AbsAt, AbsIs, StageInv, PoolIs, Taking, Taken, Putting, PutBack, Points
<1>9. CASE pc[c] \in Taken
  BY <1>4, <1>5, <1>6, <1>7, <1>9
     DEF AbsAt, AbsIs, StageInv, PoolIs, Taking, Taken, Putting, PutBack, Points
<1>10. CASE pc[c] \in Putting \cup {"unmap_insert"}
  BY <1>4, <1>5, <1>6, <1>7, <1>10
     DEF AbsAt, AbsIs, StageInv, PoolIs, Taking, Taken, Putting, PutBack, Points
<1>11. CASE pc[c] \in PutBack
  BY <1>4, <1>5, <1>6, <1>7, <1>11
     DEF AbsAt, AbsIs, StageInv, PoolIs, Taking, Taken, Putting, PutBack, Points
<1>12. CASE pc[c] \in Locked \ (Points \cup {"unmap_insert"})
  <2>1. unitAbs = unit_res
    BY <1>6, <1>12 DEF Points, TypeOK
  <2> QED
    BY <1>4, <1>5, <1>12, <2>1 DEF AbsAt, Points
<1> QED
  BY <1>8, <1>9, <1>10, <1>11, <1>12 DEF Points

\* Every step of the handlers is a step of the atomic pool or none.
LEMMA RefineStep ==
    ASSUME IInv, IInv', [Next]_vars
    PROVE  [Atomic!PoolNext]_absVars
<1> USE PoolAssumption DEF IInv, PoolInv
<1>1. CASE UNCHANGED vars
  BY <1>1 DEF vars, threadVars, poolVars, absVars, listAbs, unitAbs, inUseAbs, Someone
<1>2. ASSUME NEW c \in Conns,
             \/ HandleOpen(c) \/ UnmapStart(c) \/ \E l \in Lens : MapStart(c, l)
             \/ SpinLock(c) \/ SpinUnlock(c) \/ LoadFree(c) \/ LoadInUse(c)
             \/ MapUse(c)
      PROVE UNCHANGED absVars
  <2>1. UNCHANGED poolVars
    BY <1>2 DEF HandleOpen, UnmapStart, MapStart, SpinLock, SpinUnlock, LoadFree,
                LoadInUse, MapUse
  <2>2. \/ UNCHANGED pc
        \/ \E to : /\ pc' = [pc EXCEPT ![c] = to]
                   /\ \/ pc[c] \notin Points /\ to \notin Points
                      \/ pc[c] \in Taking /\ to \in Taking
                      \/ pc[c] \in Taken /\ to \in Taken
                      \/ pc[c] \in Putting /\ to \in Putting
                      \/ pc[c] \in PutBack /\ to \in PutBack
    BY <1>2 DEF HandleOpen, UnmapStart, MapStart, SpinLock, SpinUnlock, LoadFree,
                LoadInUse, MapUse, Goto, Points, Taking, Taken, Putting, PutBack
  <2> QED
    BY <2>1, <2>2, Invisible DEF TypeOK
<1>3. ASSUME NEW c \in Conns, pc[c] \in Locked, pc'[c] \in Locked
      PROVE  AbsAt(c) /\ AbsAt(c)'
  <2>1. AbsAt(c)
    BY <1>3, AbsHolder
  <2>2. (IInv /\ pc[c] \in Locked => AbsAt(c))'
    BY AbsHolder, PTL
  <2> QED
    BY <1>3, <2>1, <2>2
<1>4. ASSUME NEW c \in Conns, MapScan(c) PROVE UNCHANGED absVars
  <2>1. pc[c] = "map_scan" /\ pc'[c] \in {"map_load_free", "map_unlock"}
    BY <1>4 DEF MapScan, Goto, TypeOK
  <2>2. AbsAt(c) /\ AbsAt(c)'
    BY <1>3, <2>1 DEF Locked
  <2>3. CASE Suitable(len[c])
    <3>1. PoolIs(<<Res>>, {}, Size, 0)
      BY <2>1, <2>3 DEF StageInv, AtRest, PoolIs, Suitable
    <3>2. AbsIs(<<Res>>, {}, Size, 0)
      BY <3>1, <2>1, <2>2 DEF PoolIs, AbsIs, AbsAt, Points, Taking, Taken, Putting,
                              PutBack, Locked
    <3>3. pc'[c] = "map_load_free"
      BY <1>4, <2>3 DEF MapScan, Goto, TypeOK
    <3>4. AbsIs(<<Res>>, {}, Size, 0)'
      BY <2>2, <3>3 DEF AbsAt, Taking
    <3> QED
      BY <3>2, <3>4 DEF AbsIs, absVars
  <2>4. CASE ~Suitable(len[c])
    <3>1. pc'[c] = "map_unlock" /\ UNCHANGED poolVars
      BY <1>4, <2>4 DEF MapScan, Goto, TypeOK, poolVars
    <3> QED
      BY <2>1, <2>2, <3>1 DEF poolVars, absVars, AbsAt, Points, Taking, Taken,
                              Putting, PutBack, Locked
  <2> QED
    BY <2>3, <2>4
<1>5. ASSUME NEW c \in Conns, StoreFree(c) PROVE Atomic!PoolNext
  <2>1. \/ pc[c] \in Taking /\ pc'[c] \in Taken
        \/ pc[c] \in Putting /\ pc'[c] \in PutBack
    BY <1>5 DEF StoreFree, Goto, TypeOK, Taking, Taken, Putting, PutBack
  <2>2. pc[c] \in Locked /\ pc'[c] \in Locked
    BY <2>1 DEF Taking, Taken, Putting, PutBack, Locked
  <2>3. AbsAt(c) /\ AbsAt(c)'
    BY <1>3, <2>2
  <2>4. CASE pc[c] \in Taking /\ pc'[c] \in Taken
    <3>1. AbsIs(<<Res>>, {}, Size, 0) /\ AbsIs(<<>>, {c}, 0, Size)'
      BY <2>3, <2>4 DEF AbsAt
    <3>2. Atomic!Take(c)
      BY <3>1, ListFacts DEF Atomic!Take, AbsIs
    <3> QED
      BY <3>2 DEF Atomic!PoolNext
  <2>5. CASE pc[c] \in Putting /\ pc'[c] \in PutBack
    <3>1. AbsIs(<<>>, {c}, 0, Size) /\ AbsIs(<<Res>>, {}, Size, 0)'
      BY <2>3, <2>5 DEF AbsAt
    <3>2. Atomic!Put(c)
      BY <3>1, ListFacts DEF Atomic!Put, AbsIs
    <3> QED
      BY <3>2 DEF Atomic!PoolNext
  <2> QED
    BY <2>1, <2>4, <2>5
<1>6. ASSUME NEW c \in Conns,
             StoreInUse(c) \/ MapRemove(c) \/ UnmapInsert(c) \/ UnmapClear(c)
      PROVE  UNCHANGED absVars
  <2> DEFINE Out == Taken \cup Putting \cup {"unmap_insert"}
  <2>1. \/ pc[c] \in Out /\ pc'[c] \in Out
        \/ pc[c] = "map_remove" /\ pc'[c] = "map_unlock"
        \/ pc[c] = "unmap_store_in_use" /\ pc'[c] = "unmap_unlock"
    BY <1>6 DEF StoreInUse, MapRemove, UnmapInsert, UnmapClear, Goto, TypeOK,
                Taken, Putting
  <2>2. pc[c] \in Locked /\ pc'[c] \in Locked
    BY <2>1 DEF Taken, Putting, Locked
  <2>3. AbsAt(c) /\ AbsAt(c)'
    BY <1>3, <2>2
  <2>4. CASE pc[c] \in Out /\ pc'[c] \in Out
    BY <2>3, <2>4 DEF AbsAt, AbsIs, absVars
  <2>5. CASE pc[c] = "map_remove" /\ pc'[c] = "map_unlock"
    <3>1. PoolIs(<<Res>>, {c}, 0, Size) /\ res_list' = Tail(res_list)
          /\ UNCHANGED <<unit_res, free_size, in_use_size>>
      BY <1>6, <2>5 DEF StageInv, StoreInUse, MapRemove, UnmapInsert, UnmapClear, Goto
    <3>2. AbsIs(<<>>, {c}, 0, Size)
      BY <2>3, <2>5 DEF AbsAt, Taken
    <3>3. listAbs' = res_list' /\ unitAbs' = unit_res' /\ inUseAbs' = in_use_size'
      BY <2>3, <2>5 DEF AbsAt, Points, Taking, Taken, Putting, PutBack, Locked
    <3> QED
      BY <3>1, <3>2, <3>3, ListFacts DEF AbsIs, PoolIs, absVars
  <2>6. CASE pc[c] = "unmap_store_in_use" /\ pc'[c] = "unmap_unlock"
    <3>1. /\ PoolIs(<<Res>>, {}, Size, Size) /\ reg[c] = Size
          /\ in_use_size' = reg[c] - Size
          /\ UNCHANGED <<res_list, unit_res, free_size>>
      BY <1>6, <2>6 DEF StageInv, StoreInUse, MapRemove, UnmapInsert, UnmapClear, Goto
    <3>2. AbsIs(<<Res>>, {}, Size, 0)
      BY <2>3, <2>6 DEF AbsAt, PutBack
    <3>3. listAbs' = res_list' /\ unitAbs' = unit_res' /\ inUseAbs' = in_use_size'
      BY <2>3, <2>6 DEF AbsAt, Points, Taking, Taken, Putting, PutBack, Locked
    <3>4. in_use_size' = 0
      BY <3>1
    <3> QED
      BY <3>1, <3>2, <3>3, <3>4 DEF AbsIs, PoolIs, absVars
  <2> QED
    BY <2>1, <2>4, <2>5, <2>6
<1> QED
  BY <1>1, <1>2, <1>4, <1>5, <1>6 DEF Next, Thread

\* The spinlocked rpmem_handle_map and rpmem_handle_unmap implement a pool
\* that changes in one step: no interleaving of memory accesses shows an
\* unlocked reader, or a later holder of the lock, anything else.
THEOREM PoolRefinement == Spec => ImplementsAtomicPool
<1>1. Init => Atomic!PoolInit
  <2> SUFFICES ASSUME Init PROVE Atomic!PoolInit
    OBVIOUS
  <2>1. ~Someone(Taken \cup Putting) /\ ~Someone(Taken) /\ ~Someone(PutBack)
    BY DEF Init, Someone, Taken, Putting, PutBack
  <2>2. unitAbs = unit_res
    BY DEF Init, PoolInit, unitAbs, Taking, Putting
  <2> QED
    BY <2>1, <2>2 DEF Init, PoolInit, Atomic!PoolInit, listAbs, inUseAbs
<1>2. IInv /\ IInv' /\ [Next]_vars => [Atomic!PoolNext]_absVars
  BY RefineStep
<1>3. IInv /\ IInv' /\ [Next]_vars => [Atomic!PoolNext]_(Atomic!poolVars)
  BY <1>2 DEF absVars, Atomic!poolVars
<1> QED
  BY <1>1, <1>3, Inductive, PTL DEF Spec, ImplementsAtomicPool, Atomic!PoolSpec
================================================================================
