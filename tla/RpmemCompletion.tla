---------------------------- MODULE RpmemCompletion ----------------------------
(****************************************************************************)
(* The completion thread of one connection: cq_thread and cq_event_handler  *)
(* of rpmem.c and of rpmem_server.c, which differ only in what they do when *)
(* a drain reaches its budget, and the part of rpmem_close that stops the   *)
(* client's thread and destroys its completion queue.                       *)
(*                                                                          *)
(* The completion queue is the verbs interface's: a completion that arrives *)
(* while the queue is armed puts one event into the completion channel and  *)
(* disarms it; ibv_req_notify_cq arms it for later completions only;        *)
(* ibv_destroy_cq waits until every event that was read is acknowledged.    *)
(* pthread_cancel is deferred: the thread ends when it next reaches a       *)
(* cancellation point, the read of ibv_get_cq_event or the output of        *)
(* rpmem_handle_wc, or not at all if it exits first.                        *)
(****************************************************************************)
EXTENDS RpmemProtocol

CONSTANTS
    Side,           \* whose cq_thread it is, "client" or "server"
    Depth,          \* the most completions that are in the queue at a time
    Batch,          \* entries of the array wc[]
    Budget,         \* completions after which a drain stops
    Faults          \* the calls that may fail

ASSUME CompletionAssumption ==
    /\ Side \in {"client", "server"}
    /\ Depth \in Nat \ {0} /\ Batch \in Nat \ {0} /\ Budget \in Nat \ {0}
    /\ Faults \subseteq {"get_cq_event", "req_notify_cq", "poll_cq"}

\* The client's queue pair allows 4 sends and 4 receives, the server's client
\* has one command under way: a full queue fits into one drain.
ASSUME DepthAssumption == Depth <= Budget

VARIABLES
    cq,             \* completions in the queue
    armed,          \* the next completion raises an event
    events,         \* events in conn->comp_channel
    unacked,        \* events that were read and not acknowledged
    pc,             \* where the thread is
    wc,             \* polled completions that are not handled yet
    completed, ret, \* locals of cq_event_handler and cq_thread
    close           \* how far rpmem_open and then rpmem_close are

queue == <<cq, armed, events>>
vars == <<queue, unacked, pc, wc, completed, ret, close>>

\* rpmem_addr_handler and rpmem_conn_init arm the new queue, then start the
\* thread.
Init == /\ cq = 0 /\ armed = TRUE /\ events = 0 /\ unacked = 0
        /\ pc = "loop" /\ wc = 0 /\ completed = 0 /\ ret = 0
        /\ close = "opening"

\* The adapter adds a completion.
Arrive ==
    /\ close \in {"opening", "open"} /\ cq < Depth
    /\ cq' = cq + 1
    /\ events' = IF armed THEN events + 1 ELSE events
    /\ armed' = FALSE
    /\ UNCHANGED <<unacked, pc, wc, completed, ret, close>>

--------------------------------------------------------------------------------
(* The thread.                                                              *)

\* The top of the loop reads conn->comp_channel.
Loop ==
    /\ pc = "loop"
    /\ pc' = "get"
    /\ UNCHANGED <<queue, unacked, wc, completed, ret, close>>

\* Mutant: the event is acknowledged as soon as it is read.
GetEvent_acked ==
    /\ pc = "get" /\ events > 0
    /\ events' = events - 1
    /\ pc' = "notify"
    /\ UNCHANGED <<cq, armed, unacked, wc, completed, ret, close>>

\* ("Unknown CQ!" cannot happen: the channel has one queue.)
GetEvent ==
    /\ pc = "get" /\ events > 0
    /\ events' = events - 1
    /\ unacked' = unacked + 1
    /\ pc' = "notify"
    /\ UNCHANGED <<cq, armed, wc, completed, ret, close>>

\* ibv_get_cq_event fails, also because the channel has been destroyed.
GetFails ==
    /\ pc = "get"
    /\ "get_cq_event" \in Faults \/ close = "freed"
    /\ pc' = "failed"
    /\ UNCHANGED <<queue, unacked, wc, completed, ret, close>>

\* Mutant: the queue is not armed again.
Notify_missing ==
    /\ pc = "notify"
    /\ completed' = 0
    /\ pc' = "poll"
    /\ UNCHANGED <<queue, unacked, wc, ret, close>>

Notify ==
    /\ pc = "notify"
    /\ armed' = TRUE
    /\ completed' = 0
    /\ pc' = "poll"
    /\ UNCHANGED <<cq, events, unacked, wc, ret, close>>

NotifyFails ==
    /\ pc = "notify" /\ "req_notify_cq" \in Faults
    /\ pc' = "failed"
    /\ UNCHANGED <<queue, unacked, wc, completed, ret, close>>

\* ibv_poll_cq takes up to Batch completions.
Poll ==
    /\ pc = "poll"
    /\ LET n == IF cq < Batch THEN cq ELSE Batch
       IN  /\ cq' = cq - n
           /\ wc' = n
           /\ completed' = completed + n
           /\ pc' = IF n = 0 THEN "ack" ELSE "handle"
    /\ ret' = 0
    /\ UNCHANGED <<armed, events, unacked, close>>

\* n is unsigned: a negative result is a count of almost 2^32, and the loop
\* over wc[] leaves the array.
PollFails ==
    /\ pc = "poll" /\ "poll_cq" \in Faults
    /\ wc' = ToUint32(-1)
    /\ pc' = "overrun"
    /\ UNCHANGED <<queue, unacked, completed, ret, close>>

\* rpmem_open returns when the response to it has been handled.
Opens == close' \in IF close = "opening" THEN {"opening", "open"} ELSE {close}

\* Mutants: there is no budget; the client's drain ends like the server's.
Handle_unlimited ==
    /\ pc = "handle" /\ wc > 0
    /\ wc' = wc - 1
    /\ pc' = IF wc' > 0 THEN "handle" ELSE "poll"
    /\ Opens
    /\ UNCHANGED <<queue, unacked, completed, ret>>

Handle_fatal ==
    /\ pc = "handle" /\ wc > 0
    /\ wc' = wc - 1
    /\ pc' = IF wc' > 0 THEN "handle" ELSE IF completed < Budget THEN "poll" ELSE "ack"
    /\ ret' = IF pc' = "ack" THEN -1 ELSE 0
    /\ Opens
    /\ UNCHANGED <<queue, unacked, completed>>

\* One rpmem_handle_wc.  When the batch is done and the budget is used up the
\* client's handler returns 0, the server's takes n > 0 for an error.
Handle ==
    /\ pc = "handle" /\ wc > 0
    /\ wc' = wc - 1
    /\ pc' = IF wc' > 0 THEN "handle" ELSE IF completed < Budget THEN "poll" ELSE "ack"
    /\ ret' = IF pc' = "ack" /\ Side = "server" THEN -1 ELSE 0
    /\ Opens
    /\ UNCHANGED <<queue, unacked, completed>>

\* Mutant: the event is not acknowledged.
Ack_missing ==
    /\ pc = "ack"
    /\ pc' = IF ret = 0 THEN "loop" ELSE "dead"
    /\ UNCHANGED <<queue, unacked, wc, completed, ret, close>>

Ack ==
    /\ pc = "ack"
    /\ unacked' = unacked - 1
    /\ pc' = IF ret = 0 THEN "loop" ELSE "dead"
    /\ UNCHANGED <<queue, wc, completed, ret, close>>

--------------------------------------------------------------------------------
(* rpmem_close, after the CLOSE command.                                    *)

\* ibv_destroy_qp takes the completions of the queue pair with it.
DestroyQp ==
    /\ Side = "client" /\ close = "open"
    /\ cq' = 0
    /\ close' = "qp_gone"
    /\ UNCHANGED <<armed, events, unacked, pc, wc, completed, ret>>

CancelThread ==
    /\ close = "qp_gone"
    /\ close' = "cancelled"
    /\ UNCHANGED <<queue, unacked, pc, wc, completed, ret>>

\* The thread acts on the cancellation.
Cancelled ==
    /\ close \in {"cancelled", "cq_gone", "freed"} /\ pc \in {"get", "handle"}
    /\ pc' = "cancelled"
    /\ UNCHANGED <<queue, unacked, wc, completed, ret, close>>

\* ibv_destroy_cq returns; it drops the events that nobody has read.
DestroyCq ==
    /\ close = "cancelled" /\ unacked = 0
    /\ events' = 0
    /\ armed' = FALSE
    /\ close' = "cq_gone"
    /\ UNCHANGED <<cq, unacked, pc, wc, completed, ret>>

\* ibv_destroy_comp_channel .. free(priv_rfile).
Free ==
    /\ close = "cq_gone"
    /\ close' = "freed"
    /\ UNCHANGED <<queue, unacked, pc, wc, completed, ret>>

--------------------------------------------------------------------------------
Thread == \/ Loop \/ GetEvent \/ GetFails \/ Notify \/ NotifyFails \/ Poll
          \/ PollFails \/ Handle \/ Ack \/ Cancelled

Closing == CancelThread \/ DestroyCq \/ Free

Next == Arrive \/ Thread \/ DestroyQp \/ Closing

Spec == Init /\ [][Next]_vars

\* The thread runs, and rpmem_close goes on once it has begun; nothing makes
\* completions arrive or the application close its file.
FairSpec == Spec /\ WF_vars(Thread) /\ WF_vars(Closing)

--------------------------------------------------------------------------------
(* Properties.                                                              *)

\* The points between reading an event and acknowledging it.
InEvent == {"notify", "poll", "handle", "ack"}

\* The type of every variable.  A drain takes at most one batch more than its
\* budget.
TypeOK ==
    /\ cq \in 0 .. Depth /\ armed \in BOOLEAN /\ events \in 0 .. 1
    /\ unacked \in Int
    /\ pc \in InEvent \cup {"loop", "get", "dead", "failed", "cancelled", "overrun"}
    /\ wc \in Nat /\ completed \in 0 .. Budget + Batch - 1 /\ ret \in {0, -1}
    /\ close \in {"opening", "open", "qp_gone", "cancelled", "cq_gone", "freed"}

\* The thread never goes to sleep on a completion: when it waits for an event
\* and the queue is not empty, an event is there.  This is why the queue is
\* armed before it is drained, and why a drain that stops at its budget loses
\* nothing.
NoLostWakeup == pc \in {"loop", "get"} /\ cq > 0 => events > 0

\* The unacknowledged event is the thread's reference to the queue: once
\* ibv_destroy_cq has returned, no thread arms or polls it.
CqAlive == close \in {"cq_gone", "freed"} => pc \notin InEvent

\* Every completion is polled, unless the file is closed or a call of the
\* thread fails: the thread comes back to the queue however many completions
\* arrive, and whenever a drain stops.
CompletionHandled ==
    cq > 0 ~> wc > 0 \/ close \notin {"opening", "open"} \/ pc \in {"failed", "overrun"}

\* rpmem_close gets past ibv_destroy_cq, unless pthread_cancel cuts the thread
\* off in the middle of a batch, or a call of the thread has failed.
CloseProceeds ==
    close = "qp_gone" ~> \/ close = "freed" \/ pc \in {"failed", "overrun"}
                         \/ pc = "cancelled" /\ wc > 0

--------------------------------------------------------------------------------
(* What the code's messages expect, and the server's side does not do.      *)

\* A drain in which no call failed does not end the thread: "poll error" is
\* about polls that failed.
EndsOnErrorOnly == pc # "dead"

--------------------------------------------------------------------------------
(* The inductive invariant behind NoLostWakeup and CqAlive.                 *)

\* The thread holds exactly one unacknowledged event while it works on it.
AckInv == /\ pc \in InEvent => unacked = 1
          /\ pc \in {"loop", "get"} => unacked = 0

\* An event is raised only by disarming the queue.
EventInv == /\ events = 1 => ~armed
            /\ pc = "notify" => ~armed /\ events = 0

\* A queue that is still armed holds nothing but what was there when it was
\* armed, so that the drain can finish within its budget.
DrainInv ==
    /\ armed /\ pc \in {"poll", "handle"} => completed + cq <= Depth
    /\ armed /\ pc \in {"ack", "loop", "get"} => cq = 0
    /\ ~armed /\ close \notin {"cq_gone", "freed"}
         /\ pc \in {"poll", "handle", "ack", "loop", "get"} => events = 1
    /\ pc = "poll" => completed < Budget

\* Closing leaves the queue empty and, once it is destroyed, silent.
CloseInv == /\ close \notin {"opening", "open"} => cq = 0
            /\ close \in {"cq_gone", "freed"} => events = 0

CompletionInv == TypeOK /\ AckInv /\ EventInv /\ DrainInv /\ CloseInv
================================================================================
