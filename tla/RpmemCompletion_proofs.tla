------------------------- MODULE RpmemCompletion_proofs -------------------------
(****************************************************************************)
(* Proofs about the completion thread, for every queue depth, batch and     *)
(* budget with Depth <= Budget, for both sides and every set of failing     *)
(* calls.                                                                   *)
(****************************************************************************)
EXTENDS RpmemCompletion, TLAPS

\* The result of a failed poll is an unsigned number.
LEMMA PollResult == ToUint32(-1) \in Nat
BY WordAssumption DEF ToUint32

\* The initial state, armed and empty, satisfies the inductive invariant.
LEMMA InitInv == Init => CompletionInv
BY CompletionAssumption
   DEF Init, CompletionInv, TypeOK, AckInv, EventInv, DrainInv, CloseInv, InEvent

\* A completion that arrives while the queue is armed disarms it and raises
\* the event that the sleeping thread needs.
LEMMA ArriveStep == CompletionInv /\ Arrive => CompletionInv'
<1> SUFFICES ASSUME CompletionInv, Arrive
             PROVE  CompletionInv'
    OBVIOUS
<1> USE CompletionAssumption
        DEF Arrive, CompletionInv, TypeOK, AckInv, EventInv, DrainInv, CloseInv, InEvent
<1>0. cq' \in 0 .. Depth
    OBVIOUS
<1>1. ~armed' /\ armed' \in BOOLEAN
    OBVIOUS
<1>2. armed => events = 0 /\ events' = 1
    OBVIOUS
<1>3. ~armed => events' = events
    OBVIOUS
<1>4. UNCHANGED <<unacked, pc, wc, completed, ret, close>> /\ close \in {"opening", "open"}
    OBVIOUS
<1>5. pc = "notify" => events' = 0
    BY <1>3
<1>6. TypeOK'
    BY <1>0, <1>1, <1>2, <1>3, <1>4
<1>7. DrainInv'
    BY <1>1, <1>2, <1>3, <1>4
<1> QED
    BY <1>1, <1>4, <1>5, <1>6, <1>7

\* Every step of the thread preserves the invariant.
LEMMA ThreadStep == CompletionInv /\ Thread => CompletionInv'
<1> SUFFICES ASSUME CompletionInv, Thread
             PROVE  CompletionInv'
    OBVIOUS
<1> USE CompletionAssumption, DepthAssumption
        DEF CompletionInv, TypeOK, AckInv, EventInv, DrainInv, CloseInv, InEvent
<1>1. CASE Loop
    BY <1>1 DEF Loop, queue
<1>2. CASE GetEvent
    BY <1>2 DEF GetEvent
<1>3. CASE GetFails
    BY <1>3 DEF GetFails, queue
<1>4. CASE Notify
    BY <1>4 DEF Notify
<1>5. CASE NotifyFails
    BY <1>5 DEF NotifyFails, queue
<1>6. CASE Poll
    <2> DEFINE n == IF cq < Batch THEN cq ELSE Batch
    <2>1. n \in 0 .. Batch /\ n <= cq /\ (n = 0 => cq = 0)
        OBVIOUS
    <2>2. /\ cq' = cq - n /\ wc' = n /\ completed' = completed + n
          /\ pc = "poll" /\ pc' = (IF n = 0 THEN "ack" ELSE "handle")
          /\ ret' = 0 /\ UNCHANGED <<armed, events, unacked, close>>
        BY <1>6 DEF Poll
    <2>3. completed + cq = completed' + cq'
        BY <2>1, <2>2
    <2> QED
        BY <2>1, <2>2, <2>3
<1>7. CASE PollFails
    BY <1>7, PollResult DEF PollFails, queue
<1>8. CASE Handle
    BY <1>8 DEF Handle, Opens, queue
<1>9. CASE Ack
    BY <1>9 DEF Ack, queue
<1>10. CASE Cancelled
    BY <1>10 DEF Cancelled, queue
<1> QED
    BY <1>1, <1>2, <1>3, <1>4, <1>5, <1>6, <1>7, <1>8, <1>9, <1>10 DEF Thread

\* So does every step of rpmem_close.
LEMMA ClosingStep == CompletionInv /\ (DestroyQp \/ Closing) => CompletionInv'
<1> SUFFICES ASSUME CompletionInv, DestroyQp \/ Closing
             PROVE  CompletionInv'
    OBVIOUS
<1> USE CompletionAssumption
        DEF CompletionInv, TypeOK, AckInv, EventInv, DrainInv, CloseInv, InEvent
<1>1. CASE DestroyQp
    BY <1>1 DEF DestroyQp
<1>2. CASE CancelThread
    BY <1>2 DEF CancelThread, queue
<1>3. CASE DestroyCq
    <2>1. ~armed' /\ armed' \in BOOLEAN
        BY <1>3 DEF DestroyCq
    <2> QED
        BY <1>3, <2>1 DEF DestroyCq
<1>4. CASE Free
    BY <1>4 DEF Free, queue
<1> QED
    BY <1>1, <1>2, <1>3, <1>4 DEF Closing

\* The inductive invariant holds in every behaviour: what a drain can still
\* find in an armed queue is bounded by what was there when it was armed.
THEOREM CompletionInvariant == Spec => []CompletionInv
<1>1. CompletionInv /\ [Next]_vars => CompletionInv'
    <2>1. CompletionInv /\ UNCHANGED vars => CompletionInv'
        BY DEF vars, queue, CompletionInv, TypeOK, AckInv, EventInv, DrainInv,
               CloseInv, InEvent
    <2> QED
        BY <2>1, ArriveStep, ThreadStep, ClosingStep DEF Next
<1> QED
    BY <1>1, InitInv, PTL DEF Spec

\* Type correctness: no queue beyond its depth, no second event, a drain that
\* ends at most one batch beyond its budget.
THEOREM TypeCorrect == Spec => []TypeOK
<1>1. CompletionInv => TypeOK
    BY DEF CompletionInv
<1> QED
    BY <1>1, CompletionInvariant, PTL

\* cq_thread never sleeps on a completion: neither the order of arming and
\* draining nor the budget of a drain can lose a wakeup.
THEOREM WakeupNotLost == Spec => []NoLostWakeup
<1>1. CompletionInv => NoLostWakeup
    BY DEF CompletionInv, TypeOK, AckInv, DrainInv, CloseInv, NoLostWakeup
<1> QED
    BY <1>1, CompletionInvariant, PTL

\* No thread arms or polls the completion queue after ibv_destroy_cq: the
\* acknowledgement comes after the last use.
THEOREM CqOutlivesUse == Spec => []CqAlive
<1>1. CompletionInv /\ CqAlive /\ [Next]_vars => CqAlive'
    BY DEF CompletionInv, TypeOK, AckInv, CloseInv, CqAlive, InEvent, Next, Arrive,
           Thread, Loop, GetEvent, GetFails, Notify, NotifyFails, Poll, PollFails,
           Handle, Opens, Ack, Cancelled, DestroyQp, Closing, CancelThread,
           DestroyCq, Free, vars, queue
<1>2. Init => CqAlive
    BY DEF Init, CqAlive
<1> QED
    BY <1>1, <1>2, CompletionInvariant, PTL DEF Spec
================================================================================
