--------------------------- MODULE RpmemLease_proofs ---------------------------
(****************************************************************************)
(* The session implements the lease of the region: every step of a client,  *)
(* of the network and of a handler is a step of RpmemLease, or leaves the   *)
(* owner, the leases, the buffers of the applications and the region alone. *)
(****************************************************************************)
EXTENDS RpmemRegion_proofs

absLease == <<leaseOwner, leaseState, leaseView, mem>>

--------------------------------------------------------------------------------
(* The abstraction of a state and of a step.                                *)

\* Who owns the region.
LEMMA OwnerIs ==
    ASSUME PoolPart
    PROVE  /\ \A c \in Conns : unit_res[c] = Res => leaseOwner = c
           /\ (\A c \in Conns : unit_res[c] # Res) => leaseOwner = NULL
BY DEF PoolPart, leaseOwner

\* The lease and the buffer of a session that a step leaves alone.
LEMMA LeaseSame ==
    ASSUME NEW d, pc'[d] = pc[d], rmr'[d] = rmr[d]
    PROVE  LeaseOf(d)' = LeaseOf(d) /\ ViewOf(d)' = ViewOf(d)
BY DEF LeaseOf, ViewOf, HasMapping

\* A step of c changes the lease and the buffer of c only.
LEMMA LeaseLocal ==
    ASSUME NEW c \in Conns, \A d \in Conns \ {c} : Same(d)
    PROVE  /\ leaseState' = [leaseState EXCEPT ![c] = LeaseOf(c)']
           /\ leaseView' = [leaseView EXCEPT ![c] = ViewOf(c)']
<1>1. \A d \in Conns \ {c} : LeaseOf(d)' = LeaseOf(d) /\ ViewOf(d)' = ViewOf(d)
  BY LeaseSame DEF Same
<1>2. leaseState' = [d \in Conns |-> LeaseOf(d)'] /\ leaseView' = [d \in Conns |-> ViewOf(d)']
  BY DEF leaseState, leaseView
<1>3. \A d \in Conns : leaseState'[d] = [leaseState EXCEPT ![c] = LeaseOf(c)'][d]
  BY <1>1, <1>2 DEF leaseState
<1>4. \A d \in Conns : leaseView'[d] = [leaseView EXCEPT ![c] = ViewOf(c)'][d]
  BY <1>1, <1>2 DEF leaseView
<1> QED
  BY <1>2, <1>3, <1>4 DEF leaseState, leaseView

\* A step that shows nothing.
LEMMA Stutter ==
    ASSUME NEW c \in Conns, \A d \in Conns \ {c} : Same(d), UNCHANGED <<unit_res, mem>>,
           LeaseOf(c)' = LeaseOf(c), ViewOf(c)' = ViewOf(c)
    PROVE  UNCHANGED absLease
<1>1. leaseOwner' = leaseOwner
  BY DEF leaseOwner
<1>2. leaseState' = leaseState
  BY LeaseLocal DEF leaseState
<1>3. leaseView' = leaseView
  BY LeaseLocal DEF leaseView
<1> QED
  BY <1>1, <1>2, <1>3 DEF absLease

\* Steps of c that change its lease, its buffer or both.
LEMMA Visible ==
    ASSUME NEW c \in Conns, \A d \in Conns \ {c} : Same(d), UNCHANGED <<unit_res, mem>>
    PROVE  /\ /\ LeaseOf(c) = "held" /\ LeaseOf(c)' = "ending" /\ ViewOf(c)' = ViewOf(c)
              => Lease!End(c)
           /\ /\ LeaseOf(c) = "held" /\ LeaseOf(c)' = "held" /\ ViewOf(c)' \in Contents
              => Lease!Change(c)
           /\ /\ LeaseOf(c) # "none" /\ LeaseOf(c)' = "none" /\ ViewOf(c)' \in Contents
              => Lease!Forget(c)
           /\ /\ leaseOwner = c /\ LeaseOf(c) = "none" /\ LeaseOf(c)' = "held" /\ ViewOf(c)' = mem
              => Lease!Begin(c)
<1>1. /\ leaseState' = [leaseState EXCEPT ![c] = LeaseOf(c)']
      /\ leaseView' = [leaseView EXCEPT ![c] = ViewOf(c)']
      /\ leaseOwner' = leaseOwner /\ mem' = mem
      /\ leaseState[c] = LeaseOf(c) /\ leaseView[c] = ViewOf(c)
  BY LeaseLocal DEF leaseOwner, leaseState, leaseView
<1>2. ASSUME ViewOf(c)' = ViewOf(c) PROVE leaseView' = leaseView
  BY <1>1, <1>2 DEF leaseView
<1>3. ASSUME LeaseOf(c)' = LeaseOf(c) PROVE leaseState' = leaseState
  BY <1>1, <1>3 DEF leaseState
<1>4. ASSUME LeaseOf(c) = "held", LeaseOf(c)' = "ending", ViewOf(c)' = ViewOf(c) PROVE Lease!End(c)
  BY <1>1, <1>2, <1>4 DEF Lease!End
<1>5. ASSUME LeaseOf(c) = "held", LeaseOf(c)' = "held", ViewOf(c)' \in Contents PROVE Lease!Change(c)
  BY <1>1, <1>3, <1>5 DEF Lease!Change
<1>6. ASSUME LeaseOf(c) # "none", LeaseOf(c)' = "none", ViewOf(c)' \in Contents PROVE Lease!Forget(c)
  BY <1>1, <1>6 DEF Lease!Forget
<1>7. ASSUME leaseOwner = c, LeaseOf(c) = "none", LeaseOf(c)' = "held", ViewOf(c)' = mem
      PROVE  Lease!Begin(c)
  BY <1>1, <1>7 DEF Lease!Begin
<1> QED
  BY <1>4, <1>5, <1>6, <1>7

--------------------------------------------------------------------------------
(* The client's steps.                                                      *)

\* The calls that start a command: rpmem_unmap and rpmem_close end a lease.
LEMMA CommandLease ==
    ASSUME SessionInv, RegionInv, NEW c \in Conns,
           Open(c) \/ Unmap(c) \/ Commit(c) \/ Close(c) \/ \E len \in Lens : Map(c, len)
    PROVE  Lease!End(c) \/ UNCHANGED absLease
<1>1. /\ Types /\ LenInv(c) /\ rmr \in [Conns -> RmrType]
      /\ <<"SEND">> \in WrLists /\ <<"WRITE", "SEND">> \in WrLists
  BY DEF SessionInv, RegionInv, HolderInv, Types, WrLists, RmrType
<1>2. ASSUME NEW w \in WrLists, NEW cmd, NEW waiting, NEW failed, Command(c, w, cmd, waiting, failed)
      PROVE  /\ pc'[c] \in {waiting, failed} /\ UNCHANGED <<unit_res, mem>>
             /\ \A d \in Conns \ {c} : rmr'[d] = rmr[d] => Same(d)
  BY <1>1, <1>2, CommandLocal
<1>3. CASE Open(c) \/ (Close(c) /\ pc[c] = "idle")
  <2>1. /\ rmr' = rmr /\ pc[c] \in {"init", "idle"} /\ UNCHANGED <<unit_res, mem>>
        /\ \A d \in Conns \ {c} : Same(d)
    BY <1>1, <1>2, <1>3 DEF Open, Close
  <2>2. rmr[c].len = 0
    BY <1>1, <2>1 DEF LenInv
  <2>3. LeaseOf(c)' = LeaseOf(c) /\ ViewOf(c)' = ViewOf(c)
    BY <2>1, <2>2 DEF LeaseOf, ViewOf, HasMapping
  <2> QED
    BY <2>1, <2>3, Stutter
<1>4. CASE Unmap(c) \/ (Close(c) /\ pc[c] = "mapped")
  <2>1. /\ rmr' = rmr /\ pc[c] = "mapped" /\ UNCHANGED <<unit_res, mem>>
        /\ \A d \in Conns \ {c} : Same(d)
        /\ pc'[c] \in {"unmap", "unmap failed", "close", "teardown"}
    BY <1>1, <1>2, <1>4 DEF Unmap, Close
  <2>2. rmr[c].len # 0
    BY <1>1, <2>1 DEF LenInv
  <2>3. LeaseOf(c) = "held" /\ LeaseOf(c)' = "ending" /\ ViewOf(c)' = ViewOf(c)
    BY <2>1, <2>2 DEF LeaseOf, ViewOf, HasMapping
  <2> QED
    BY <2>1, <2>3, Visible
<1>5. CASE Commit(c)
  <2>1. /\ rmr' = rmr /\ pc[c] = "mapped" /\ UNCHANGED <<unit_res, mem>>
        /\ \A d \in Conns \ {c} : Same(d)
        /\ pc'[c] \in {"mapped", "commit"}
    BY <1>1, <1>2, <1>5 DEF Commit
  <2>2. LeaseOf(c)' = LeaseOf(c) /\ ViewOf(c)' = ViewOf(c)
    BY <2>1 DEF LeaseOf, ViewOf, HasMapping
  <2> QED
    BY <2>1, <2>2, Stutter
<1>6. ASSUME NEW len \in Lens, Map(c, len) PROVE UNCHANGED absLease
  <2>1. /\ pc[c] = "idle" /\ Command(c, <<"SEND">>, pack_map_req(len), "map", "idle")
        /\ rmr' = IF pc'[c] = "map" THEN [rmr EXCEPT ![c].len = len] ELSE rmr
    BY <1>6 DEF Map
  <2>2. /\ pc'[c] \in {"map", "idle"} /\ UNCHANGED <<unit_res, mem>>
        /\ \A d \in Conns \ {c} : rmr'[d] = rmr[d] => Same(d)
    BY <1>1, <1>2, <2>1
  <2>3. \A d \in Conns \ {c} : Same(d)
    BY <1>1, <2>1, <2>2
  <2>4. rmr[c].len = 0
    BY <1>1, <2>1 DEF LenInv
  <2>5. ~HasMapping(c) /\ ~HasMapping(c)'
    BY <2>1, <2>2, <2>4 DEF HasMapping
  <2>6. LeaseOf(c)' = LeaseOf(c) /\ ViewOf(c)' = ViewOf(c)
    BY <2>5 DEF LeaseOf, ViewOf
  <2> QED
    BY <2>2, <2>3, <2>6, Stutter
<1> QED
  BY <1>3, <1>4, <1>5, <1>6 DEF Close

\* rpmem_map returns a lease, rpmem_unmap forgets it, the application works.
LEMMA ReturnLease ==
    ASSUME SessionInv, RegionInv, NEW c \in Conns,
           \/ OpenReturns(c) \/ MapRead(c) \/ MapReturns(c) \/ UnmapReturns(c)
           \/ CommitReturns(c) \/ CloseReturns(c) \/ \E data \in Contents : AppWrite(c, data)
    PROVE  Lease!Begin(c) \/ Lease!Forget(c) \/ Lease!Change(c) \/ UNCHANGED absLease
<1>1. /\ Types /\ PoolPart /\ LenInv(c) /\ BackInv(c) /\ pc \in [Conns -> Calls]
      /\ rmr \in [Conns -> RmrType] /\ rmr[c] \in RmrType /\ 0 \in Contents
  BY SessionAssumption DEF SessionInv, RegionInv, HolderInv, Types, RmrType
<1>2. UNCHANGED <<unit_res, mem>> /\ UNCHANGED mr /\ \A d \in Conns \ {c} : Same(d)
  BY <1>1, ReturnSame
<1>3. CASE OpenReturns(c) \/ CloseReturns(c) \/ CommitReturns(c)
  <2>1. /\ rmr' = rmr
        /\ \/ pc[c] = "open" /\ pc'[c] \in {"idle", "teardown"}
           \/ pc[c] = "close" /\ pc'[c] = "teardown"
           \/ pc[c] = "commit" /\ pc'[c] = "mapped"
    BY <1>1, <1>3 DEF OpenReturns, CloseReturns, CommitReturns
  <2>2. pc[c] = "open" => rmr[c].len = 0
    BY <1>1 DEF LenInv
  <2>3. LeaseOf(c)' = LeaseOf(c) /\ ViewOf(c)' = ViewOf(c)
    BY <2>1, <2>2 DEF LeaseOf, ViewOf, HasMapping
  <2> QED
    BY <1>2, <2>3, Stutter
<1>4. CASE MapRead(c)
  <2>1. pc[c] = "map" /\ (pc'[c] = "read" \/ (pc'[c] = "idle" /\ rmr'[c] = NoMap))
    BY <1>1, <1>4 DEF MapRead
  <2>2. ~HasMapping(c) /\ ~HasMapping(c)'
    BY <2>1 DEF HasMapping, NoMap
  <2>3. LeaseOf(c)' = LeaseOf(c) /\ ViewOf(c)' = ViewOf(c)
    BY <2>2 DEF LeaseOf, ViewOf
  <2> QED
    BY <1>2, <2>3, Stutter
<1>5. CASE MapReturns(c)
  <2>1. pc[c] = "read" /\ pc'[c] = "mapped" /\ rmr' = rmr /\ ReadDone(c)
    BY <1>1, <1>5 DEF MapReturns, Wake, ReadDone
  <2>2. KeyValid(c) /\ rmr[c].buf = mem /\ rmr[c].len # 0
    BY <1>1, <2>1 DEF BackInv, LenInv
  <2>3. leaseOwner = c
    BY <1>1, <2>2, KeyOwner, OwnerIs DEF KeyValid
  <2>4. LeaseOf(c) = "none" /\ LeaseOf(c)' = "held" /\ ViewOf(c)' = mem
    BY <2>1, <2>2 DEF LeaseOf, ViewOf, HasMapping
  <2> QED
    BY <1>2, <2>3, <2>4, Visible
<1>6. CASE UnmapReturns(c)
  <2>1. pc[c] \in {"unmap", "unmap failed"} /\ pc'[c] = "idle" /\ rmr'[c] = NoMap
    BY <1>1, <1>6 DEF UnmapReturns
  <2>2. rmr[c].len # 0
    BY <1>1, <2>1 DEF LenInv
  <2>3. HasMapping(c)
    BY <2>1, <2>2 DEF HasMapping
  <2>4. rmr'[c].len = 0
    <3>1. rmr'[c] = NoMap
      BY <2>1
    <3>2. NoMap.len = 0
      BY DEF NoMap
    <3> QED
      BY <3>1, <3>2, Zenon
  <2>5. ~HasMapping(c)'
    BY <2>1, <2>4 DEF HasMapping
  <2>6. LeaseOf(c) # "none" /\ LeaseOf(c)' = "none" /\ ViewOf(c)' = 0
    BY <2>3, <2>5 DEF LeaseOf, ViewOf
  <2> QED
    BY <1>1, <1>2, <2>6, Visible
<1>7. ASSUME NEW data \in Contents, AppWrite(c, data) PROVE Lease!Change(c)
  <2>1. pc[c] = "mapped" /\ pc'[c] = "mapped" /\ rmr'[c].len = rmr[c].len /\ rmr'[c].buf = data
    BY <1>1, <1>7 DEF AppWrite, RmrType
  <2>2. rmr[c].len # 0
    BY <1>1, <2>1 DEF LenInv
  <2>3. HasMapping(c) /\ HasMapping(c)'
    BY <2>1, <2>2 DEF HasMapping
  <2>4. LeaseOf(c) = "held" /\ LeaseOf(c)' = "held" /\ ViewOf(c)' = data
    BY <2>1, <2>3 DEF LeaseOf, ViewOf
  <2> QED
    BY <1>2, <2>4, Visible
<1> QED
  BY <1>3, <1>4, <1>5, <1>6, <1>7

\* The client closes its file or dies: it forgets the lease it may have.
LEMMA GoneLease ==
    ASSUME SessionInv, RegionInv, NEW c \in Conns, NEW how \in Over, Gone(c, how)
    PROVE  Lease!Forget(c) \/ UNCHANGED absLease
<1>1. Types /\ 0 \in Contents
  BY SessionAssumption DEF SessionInv
<1>2. UNCHANGED <<unit_res, mem>> /\ UNCHANGED <<scq, sreq, srsp>>
  BY DEF Gone, poolVars, storeVars
<1>3. \A d \in Conns \ {c} : Same(d)
  BY <1>1, <1>2 DEF Same, Gone, Break, Types
<1>4. rmr'[c] = NoMap
  BY <1>1 DEF Gone, Types
<1>5. ~HasMapping(c)'
  BY <1>4 DEF HasMapping, NoMap
<1>6. LeaseOf(c)' = "none" /\ ViewOf(c)' = 0
  BY <1>5 DEF LeaseOf, ViewOf
<1>7. CASE HasMapping(c)
  <2>1. LeaseOf(c) # "none"
    BY <1>7 DEF LeaseOf
  <2> QED
    BY <1>1, <1>2, <1>3, <1>6, <2>1, Visible
<1>8. CASE ~HasMapping(c)
  <2>1. LeaseOf(c) = "none" /\ ViewOf(c) = 0
    BY <1>8 DEF LeaseOf, ViewOf
  <2> QED
    BY <1>2, <1>3, <1>6, <2>1, Stutter
<1> QED
  BY <1>7, <1>8

--------------------------------------------------------------------------------
(* The network and the server.                                              *)

\* A completion, an acknowledgement or a response moves on.
LEMMA MoveLease ==
    ASSUME SessionInv, NEW c \in Conns, HandleWc(c) \/ Complete(c) \/ Deliver(c)
    PROVE  UNCHANGED absLease
<1>1. UNCHANGED <<pc, rmr, unit_res, mem>>
  BY DEF HandleWc, Complete, Deliver, clientVars, serverVars, poolVars, storeVars
<1> QED
  BY <1>1 DEF absLease, leaseOwner, leaseState, leaseView, LeaseOf, ViewOf, HasMapping

\* A WRITE that executes is the holder's, or one of a lease that is ending.
LEMMA ExecuteLease ==
    ASSUME SessionInv, RegionInv, NEW c \in Conns, Execute(c)
    PROVE  Lease!Write(c) \/ UNCHANGED absLease
<1>1. /\ Types /\ PoolPart /\ WriteInv(c) /\ sq[c] # <<>> /\ sq[c] \in Seq(Ops)
      /\ rmr \in [Conns -> RmrType] /\ rmr[c] \in RmrType /\ pc[c] \in Calls
  BY DEF SessionInv, RegionInv, HolderInv, Types, RmrType, Execute
<1>2. UNCHANGED <<pc, unit_res>>
  BY DEF Execute, poolVars
<1>3. CASE UNCHANGED <<rmr, mem>>
  BY <1>2, <1>3 DEF absLease, leaseOwner, leaseState, leaseView, LeaseOf, ViewOf, HasMapping
<1>4. CASE Head(sq[c]) = "WRITE" /\ KeyValid(c) /\ mem' = rmr[c].buf /\ UNCHANGED rmr
  <2>1. ~NoWrite(sq[c])
    BY <1>1, <1>4, NoWriteKept
  <2>2. HasMapping(c)
    BY <1>1, <2>1 DEF WriteInv, HasMapping
  <2>3. leaseState[c] # "none" /\ leaseView[c] = rmr[c].buf
    BY <2>2 DEF leaseState, leaseView, LeaseOf, ViewOf
  <2>4. leaseOwner = c
    BY <1>1, <1>4, KeyOwner, OwnerIs DEF KeyValid
  <2>5. UNCHANGED <<leaseOwner, leaseState, leaseView>>
    BY <1>2, <1>4 DEF leaseOwner, leaseState, leaseView, LeaseOf, ViewOf, HasMapping
  <2> QED
    BY <1>4, <2>3, <2>4, <2>5 DEF Lease!Write
<1>5. CASE Head(sq[c]) = "READ" /\ rmr' = [rmr EXCEPT ![c].buf = mem] /\ UNCHANGED mem
  <2>1. Count(sq[c], "READ") > 0 /\ Count(sq[c], "READ") \in Nat
    BY <1>1, <1>5, Taken
  <2>2. pc[c] \notin Over /\ CountInv(c)
    BY <1>1 DEF SessionInv, LocalInv, FlushInv
  <2>3. pc[c] = "read"
    <3>1. pc[c] # "read" => Count(sq[c], "READ") = 0
      BY <2>2, Zenon DEF CountInv, Balance
    <3> QED
      BY <2>1, <3>1
  <2>4. ~HasMapping(c) /\ ~HasMapping(c)'
    BY <1>2, <2>3 DEF HasMapping
  <2>5. LeaseOf(c)' = LeaseOf(c) /\ ViewOf(c)' = ViewOf(c)
    BY <2>4 DEF LeaseOf, ViewOf
  <2>6. \A d \in Conns \ {c} : rmr'[d] = rmr[d] /\ pc'[d] = pc[d]
    BY <1>1, <1>2, <1>5
  <2>7. \A d \in Conns : LeaseOf(d)' = LeaseOf(d) /\ ViewOf(d)' = ViewOf(d)
    BY <2>5, <2>6, LeaseSame
  <2>8. leaseState' = leaseState /\ leaseView' = leaseView
    BY <2>7 DEF leaseState, leaseView
  <2> QED
    BY <1>2, <1>5, <2>8 DEF absLease, leaseOwner
<1> QED
  BY <1>3, <1>4, <1>5 DEF Execute

\* The handlers: a map that is granted, an unmap that is obeyed.
LEMMA ServerLease ==
    ASSUME SessionInv, RegionInv, PoolPart', NEW c \in Conns, ServerNext(c)
    PROVE  Lease!Grant(c) \/ Lease!TakeBack(c) \/ UNCHANGED absLease
<1>1. Types /\ PoolPart /\ 0 \in Contents /\ file \in Contents /\ mem \in Contents
  BY SessionAssumption DEF SessionInv, Types
<1>2. UNCHANGED <<pc, rmr>> /\ scq[c] > 0
  BY <1>1, ServerSame
<1>3. UNCHANGED <<leaseState, leaseView>>
  BY <1>2 DEF leaseState, leaseView, LeaseOf, ViewOf, HasMapping
<1>4. CASE UNCHANGED <<unit_res, mem>>
  BY <1>3, <1>4 DEF absLease, leaseOwner
<1>5. CASE Grants(c)
  <2>1. (\A d \in Conns : unit_res[d] = NULL) /\ unit_res'[c] = Res
    BY <1>1, <1>5, TakeEffect DEF Grants
  <2>2. leaseOwner = NULL
    BY <1>1, <2>1, PoolAssumption, OwnerIs
  <2>3. leaseOwner' = c
    <3>1. \A d \in Conns : unit_res'[d] = Res => d = c
      BY <2>1 DEF PoolPart
    <3> QED
      BY <2>1, <3>1 DEF leaseOwner
  <2>4. mem' \in Contents
    BY <1>1, <1>5 DEF Grants
  <2> QED
    BY <1>3, <2>2, <2>3, <2>4 DEF Lease!Grant
<1>6. CASE Releases(c) /\ Put(c) /\ mem' = 0
  <2>1. unit_res[c] = Res /\ \A d \in Conns : unit_res'[d] = NULL
    BY <1>1, <1>6, PutEffect
  <2>2. leaseOwner = c
    BY <1>1, <2>1, OwnerIs
  <2>3. leaseOwner' = NULL
    BY <2>1, PoolAssumption DEF leaseOwner
  <2>4. pc[c] \in Over \cup {"unmap"}
    BY <1>2, <1>6, ReleaseCall DEF Releases
  <2>5. leaseState[c] # "held"
    BY <2>4 DEF leaseState, LeaseOf, Over
  <2> QED
    BY <1>1, <1>3, <1>6, <2>2, <2>3, <2>5 DEF Lease!TakeBack
<1> QED
  BY <1>1, <1>4, <1>5, <1>6, ServerEffect DEF Releases

--------------------------------------------------------------------------------
\* Every step of the session is a step of the lease or none.
LEMMA LeaseStep ==
    ASSUME SessionInv, RegionInv, SessionInv', [Next]_vars
    PROVE  [Lease!LeaseNext]_absLease
<1>1. ASSUME NEW c \in Conns, App(c) \/ Return(c) \/ ClientCrash(c)
      PROVE  Lease!LeaseNext \/ UNCHANGED absLease
  <2>1. CASE Teardown(c) \/ ClientCrash(c)
    BY <2>1, GoneLease DEF Teardown, ClientCrash, Over, Lease!LeaseNext
  <2>2. CASE Open(c) \/ Unmap(c) \/ Commit(c) \/ Close(c) \/ \E len \in Lens : Map(c, len)
    BY <2>2, CommandLease DEF Lease!LeaseNext
  <2>3. CASE \/ OpenReturns(c) \/ MapRead(c) \/ MapReturns(c) \/ UnmapReturns(c)
             \/ CommitReturns(c) \/ CloseReturns(c) \/ \E data \in Contents : AppWrite(c, data)
    BY <2>3, ReturnLease DEF Lease!LeaseNext
  <2> QED
    BY <1>1, <2>1, <2>2, <2>3 DEF App, Return
<1>2. ASSUME NEW c \in Conns, HandleWc(c) \/ Network(c)
      PROVE  Lease!LeaseNext \/ UNCHANGED absLease
  <2>1. CASE Execute(c)
    BY <2>1, ExecuteLease DEF Lease!LeaseNext
  <2> QED
    BY <1>2, <2>1, MoveLease DEF Network
<1>3. ASSUME NEW c \in Conns, ServerNext(c)
      PROVE  Lease!LeaseNext \/ UNCHANGED absLease
  BY <1>3, ServerLease DEF SessionInv, Lease!LeaseNext
<1>4. CASE UNCHANGED vars
  BY <1>4 DEF vars, clientVars, serverVars, poolVars, storeVars, absLease, leaseOwner, leaseState,
              leaseView, LeaseOf, ViewOf, HasMapping
<1> QED
  BY <1>1, <1>2, <1>3, <1>4 DEF Next

\* The commands, queues, keys and handlers implement the lease of the region.
THEOREM LeaseRefinement == Spec => ImplementsLease
<1>1. Init => Lease!LeaseInit
  <2> SUFFICES ASSUME Init PROVE Lease!LeaseInit
    OBVIOUS
  <2>1. leaseOwner = NULL /\ mem \in Contents
    BY PoolAssumption, SessionAssumption DEF Init, PoolInit, leaseOwner
  <2>2. ASSUME NEW c \in Conns PROVE LeaseOf(c) = "none" /\ ViewOf(c) = 0
    <3>1. rmr[c].len = 0
      BY DEF Init, NoMap
    <3> QED
      BY <3>1 DEF LeaseOf, ViewOf, HasMapping
  <2>3. leaseState = [c \in Conns |-> "none"] /\ leaseView \in [Conns -> Contents]
    BY <2>2, SessionAssumption DEF leaseState, leaseView
  <2> QED
    BY <2>1, <2>3 DEF Lease!LeaseInit
<1>2. SessionInv /\ RegionInv /\ SessionInv' /\ [Next]_vars => [Lease!LeaseNext]_(Lease!leaseVars)
  BY LeaseStep DEF absLease, Lease!leaseVars
<1> QED
  BY <1>1, <1>2, RegionInvariant, SessionInvariant, PTL DEF Spec, ImplementsLease, Lease!LeaseSpec
================================================================================
