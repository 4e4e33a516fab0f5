------------------------------ MODULE RpmemConnect ------------------------------
(****************************************************************************)
(* Connections come and go: rpmem_open and rpmem_close with the cm_thread   *)
(* of each file (rpmem.c), and the server's cm_thread that accepts them     *)
(* (rpmem_server.c).  The commands on an open connection are RpmemSession's *)
(* and the completion threads RpmemCompletion's; here a command is posted   *)
(* and answered or lost, and a cq_thread stops with or without an event in  *)
(* its hands.                                                               *)
(*                                                                          *)
(* The rdma_cm library is modelled by what it promises: one event per       *)
(* resolution or connection attempt, delivered in order; rdma_destroy_id    *)
(* drops the events nobody has read and waits until the ones that were read *)
(* are acknowledged.  pthread_cancel takes effect at a cancellation point:  *)
(* the read of rdma_get_cm_event, or the output at the start of             *)
(* rpmem_cma_handler.                                                       *)
(****************************************************************************)
EXTENDS Naturals, Sequences

CONSTANTS
    Files,          \* the calls of rpmem_open, one connection each
    Faults          \* for each file, the calls that fail and the events that happen

AllFaults == {"create", "resolve_addr", "get_cm_event", "addr_error", "addr_handler",
              "route_error", "route_handler", "unreachable", "command", "no_answer",
              "disconnect", "addr_change", "conn_init", "create_qp", "accept"}

ASSUME FaultsAssumption == Faults \in [Files -> SUBSET AllFaults]

VARIABLES
    \* client
    app,            \* where rpmem_open or rpmem_close is
    state,          \* priv_rfile->state
    sem_connect,    \* priv_rfile->sem_connect
    res,            \* the verbs objects of conn
    cqthread,       \* conn->cqthread
    file_list,      \* the open files
    cmd,            \* what becomes of the command rpmem_open or rpmem_close sent
    cm,             \* where priv_rfile->cmthread is
    ev,             \* the event it handles
    unacked,        \* events it has read and not acknowledged
    \* rdma_cm
    chan,           \* the events in priv_rfile->cma_channel
    net,            \* what rdma_cm is doing for the connection
    \* server
    schan,          \* the events in server->cma_channel
    scm,            \* where the server's cm_thread is
    unit,           \* the rpmem_server_unit of each connection
    conns_list      \* the accepted connections

appVars    == <<app, file_list, cmd>>
cmVars     == <<cm, ev, unacked>>
fileVars   == <<state, sem_connect>>
connVars   == <<res, cqthread>>
netVars    == <<chan, net>>
serverVars == <<schan, scm, unit, conns_list>>
vars == <<appVars, cmVars, fileVars, connVars, netVars, serverVars>>

\* What rpmem_addr_handler and rpmem_conn_init create, in this order.
Setup == {"pd", "rsp_mr", "req_mr", "comp_channel", "cq"}

NoUnit == [mem |-> "none", thread |-> FALSE, recv |-> 0]

Init ==
    /\ app = [f \in Files |-> "init"]
    /\ state = [f \in Files |-> "INIT"]
    /\ sem_connect = [f \in Files |-> 0]
    /\ res = [f \in Files |-> {}]
    /\ cqthread = [f \in Files |-> "none"]
    /\ file_list = {} /\ cmd = [f \in Files |-> "none"]
    /\ cm = [f \in Files |-> "none"]
    /\ ev = [f \in Files |-> "none"]
    /\ unacked = [f \in Files |-> 0]
    /\ chan = [f \in Files |-> <<>>]
    /\ net = [f \in Files |-> "idle"]
    /\ schan = <<>> /\ scm = "get" /\ conns_list = {}
    /\ unit = [f \in Files |-> NoUnit]

--------------------------------------------------------------------------------
(* rpmem_open and rpmem_close.                                              *)

Goto(f, from, to) == app[f] = from /\ app' = [app EXCEPT ![f] = to]

\* Up to sem_wait.  A failure before the cm_thread exists only undoes what was
\* done; a failure of rdma_resolve_addr also has a thread to stop.
OpenStart(f) ==
    /\ \/ /\ Goto(f, "init", "wait")
          /\ net' = [net EXCEPT ![f] = "addr"]
          /\ cm' = [cm EXCEPT ![f] = "get"]
       \/ /\ "create" \in Faults[f] /\ Goto(f, "init", "null")
          /\ UNCHANGED <<net, cm>>
       \/ /\ "resolve_addr" \in Faults[f] /\ Goto(f, "init", "fail")
          /\ cm' = [cm EXCEPT ![f] = "get"]
          /\ UNCHANGED net
    /\ UNCHANGED <<file_list, cmd, fileVars, connVars, ev, unacked, chan, serverVars>>

WaitConnect(f) ==
    /\ Goto(f, "wait", "check") /\ sem_connect[f] > 0
    /\ sem_connect' = [sem_connect EXCEPT ![f] = @ - 1]
    /\ UNCHANGED <<file_list, cmd, cmVars, state, connVars, netVars, serverVars>>

\* state_mutex is free whenever no event is being handled.
CheckState(f) ==
    /\ Goto(f, "check", IF state[f] = "ESTABLISHED" THEN "command" ELSE "fail")
    /\ UNCHANGED <<file_list, cmd, cmVars, fileVars, connVars, netVars, serverVars>>

\* The two posts of a command: rpmem_post_recv and rpmem_post_send.
Send(f) == cmd' = [cmd EXCEPT ![f] = "sent"]

\* sem_wait(&sem_command) returns.
Woken(f) == cmd[f] = "answered" /\ cmd' = [cmd EXCEPT ![f] = "none"]

OpenCommand(f) ==
    /\ \/ Goto(f, "command", "open_wait") /\ Send(f)
       \/ "command" \in Faults[f] /\ Goto(f, "command", "fail") /\ UNCHANGED cmd
    /\ UNCHANGED <<file_list, cmVars, fileVars, connVars, netVars, serverVars>>

\* The response is unpacked; then the file joins file_list.
OpenAnswered(f) ==
    /\ Woken(f)
    /\ \/ Goto(f, "open_wait", "open") /\ file_list' = file_list \cup {f}
       \/ "command" \in Faults[f] /\ Goto(f, "open_wait", "fail") /\ UNCHANGED file_list
    /\ UNCHANGED <<cmVars, fileVars, connVars, netVars, serverVars>>

\* rpmem_close leaves file_list and sends CLOSE; if it cannot, it goes on.
CloseCommand(f) ==
    /\ \/ Goto(f, "open", "close_wait") /\ Send(f)
       \/ "command" \in Faults[f] /\ Goto(f, "open", "close") /\ UNCHANGED cmd
    /\ file_list' = file_list \ {f}
    /\ UNCHANGED <<cmVars, fileVars, connVars, netVars, serverVars>>

\* Whatever the response says.
CloseAnswered(f) ==
    /\ Woken(f) /\ Goto(f, "close_wait", "close")
    /\ UNCHANGED <<file_list, cmVars, fileVars, connVars, netVars, serverVars>>

\* Mutant: a failed rpmem_open goes straight to the label that frees the file.
CancelCm_frees(f) ==
    /\ Goto(f, "fail", "fail_free") \/ Goto(f, "close", "close_qp")
    /\ UNCHANGED <<file_list, cmd, cmVars, fileVars, connVars, netVars, serverVars>>

CancelCm(f) ==
    /\ Goto(f, "fail", "fail_id") \/ Goto(f, "close", "close_qp")
    /\ UNCHANGED <<file_list, cmd, cmVars, fileVars, connVars, netVars, serverVars>>

\* The connection ends: the other side learns of it.
Hangup(f) == schan' = IF net[f] = "up" THEN Append(schan, <<"DISCONNECTED", f>>)
                      ELSE schan

\* rdma_disconnect and ibv_destroy_qp.
DestroyQp(f) ==
    /\ Goto(f, "close_qp", "close_id")
    /\ Hangup(f)
    /\ chan' = IF net[f] = "up" THEN [chan EXCEPT ![f] = Append(@, "DISCONNECTED")]
               ELSE chan
    /\ net' = [net EXCEPT ![f] = "down"]
    /\ res' = [res EXCEPT ![f] = @ \ {"qp"}]
    /\ UNCHANGED <<file_list, cmd, cmVars, fileVars, cqthread, scm, unit, conns_list>>

\* rdma_destroy_id returns, and rdma_destroy_event_channel follows.
DestroyId(f) ==
    /\ unacked[f] = 0
    /\ Goto(f, "fail_id", "fail_free") \/ Goto(f, "close_id", "close_free")
    /\ Hangup(f)
    /\ chan' = [chan EXCEPT ![f] = <<>>]
    /\ net' = [net EXCEPT ![f] = "down"]
    /\ UNCHANGED <<file_list, cmd, cmVars, fileVars, connVars, scm, unit, conns_list>>

\* pthread_cancel(cqthread): when the thread stops, it has acknowledged its
\* completion event or it has not (RpmemCompletion).
CancelCq(f) ==
    /\ Goto(f, "close_free", "close_cq")
    /\ \E to \in {"cancelled", "cut_off"} : cqthread' = [cqthread EXCEPT ![f] = to]
    /\ UNCHANGED <<file_list, cmd, cmVars, fileVars, res, netVars, serverVars>>

\* The rest, up to free(priv_rfile).  rpmem_close destroys the completion queue,
\* and ibv_destroy_cq waits for the events to be acknowledged; its
\* ibv_dealloc_pd fails, because the command buffers are still registered in
\* the protection domain.
Free(f) ==
    /\ \/ Goto(f, "fail_free", "null") /\ UNCHANGED res
       \/ /\ Goto(f, "close_cq", "closed") /\ cqthread[f] = "cancelled"
          /\ res' = [res EXCEPT ![f] = @ \ {"cq", "comp_channel"}]
    /\ UNCHANGED <<file_list, cmd, cmVars, fileVars, cqthread, netVars, serverVars>>

--------------------------------------------------------------------------------
(* The client's cm_thread.                                                  *)

Freed(f) == app[f] \in {"null", "closed"}

\* pthread_cancel(cmthread) has been called.
CmCancelled(f) == Freed(f) \/ app[f] \in {"fail_id", "fail_free", "close_qp",
                                          "close_id", "close_free", "close_cq"}

CmGoto(f, from, to) == cm[f] = from /\ cm' = [cm EXCEPT ![f] = to]

\* Mutant: the event is acknowledged when it is read.
GetCmEvent_acked(f) ==
    /\ CmGoto(f, "get", "got") /\ chan[f] # <<>>
    /\ ev' = [ev EXCEPT ![f] = Head(chan[f])]
    /\ chan' = [chan EXCEPT ![f] = Tail(@)]
    /\ UNCHANGED <<appVars, unacked, fileVars, connVars, net, serverVars>>

GetCmEvent(f) ==
    /\ CmGoto(f, "get", "got") /\ chan[f] # <<>>
    /\ ev' = [ev EXCEPT ![f] = Head(chan[f])]
    /\ chan' = [chan EXCEPT ![f] = Tail(@)]
    /\ unacked' = [unacked EXCEPT ![f] = @ + 1]
    /\ UNCHANGED <<appVars, fileVars, connVars, net, serverVars>>

\* The thread acts on pthread_cancel, which may cut it off with an event in its
\* hands; or rdma_get_cm_event fails, because the channel has been destroyed or
\* at any time, and the thread exits.
CmEnds(f) ==
    /\ \/ CmCancelled(f) /\ (CmGoto(f, "get", "cancelled") \/ CmGoto(f, "got", "cut_off"))
       \/ (Freed(f) \/ "get_cm_event" \in Faults[f]) /\ CmGoto(f, "get", "failed")
    /\ UNCHANGED <<appVars, ev, unacked, fileVars, connVars, netVars, serverVars>>

Post(f) == sem_connect' = [sem_connect EXCEPT ![f] = @ + 1]

\* Mutant: after a failure the thread goes on with the next event.
CmExit_goeson(f) == CmGoto(f, "got", "ack")

\* The handler returned -1: the thread exits, the event stays unacknowledged.
CmExit(f) == CmGoto(f, "got", "dead")

\* rpmem_addr_handler.  A failure takes back what was created before it; the
\* route resolution, if it was started, goes on.
AddrHandler(f) ==
    /\ ev[f] = "ADDR_RESOLVED"
    /\ \/ /\ CmGoto(f, "got", "ack")
          /\ net' = [net EXCEPT ![f] = "route"]
          /\ res' = [res EXCEPT ![f] = Setup]
          /\ cqthread' = [cqthread EXCEPT ![f] = "running"]
          /\ UNCHANGED sem_connect
       \/ /\ "addr_handler" \in Faults[f]
          /\ CmExit(f) /\ Post(f)
          /\ net' \in {net, [net EXCEPT ![f] = "route"]}
          /\ res' = [res EXCEPT ![f] = {}]
          /\ UNCHANGED cqthread
    /\ UNCHANGED <<appVars, ev, unacked, state, chan, serverVars>>

\* rpmem_route_handler.  A failure posts nothing.
RouteHandler(f) ==
    /\ ev[f] = "ROUTE_RESOLVED"
    /\ \/ /\ CmGoto(f, "got", "ack")
          /\ res' = [res EXCEPT ![f] = @ \cup {"qp"}]
          /\ net' = [net EXCEPT ![f] = "connect"]
          /\ schan' = Append(schan, <<"CONNECT_REQUEST", f>>)
       \/ /\ "route_handler" \in Faults[f]
          /\ CmExit(f)
          /\ UNCHANGED <<res, net, schan>>
    /\ UNCHANGED <<appVars, ev, unacked, fileVars, cqthread, chan, scm, unit, conns_list>>

Established(f) ==
    /\ ev[f] = "ESTABLISHED" /\ CmGoto(f, "got", "ack") /\ Post(f)
    /\ state' = [state EXCEPT ![f] = "ESTABLISHED"]
    /\ UNCHANGED <<appVars, ev, unacked, connVars, netVars, serverVars>>

\* CONNECT_ERROR and unknown events are handled like the errors below, and
\* TIMEWAIT_EXIT, which only follows a DISCONNECTED, like that.
ErrorEvents == {"ADDR_ERROR", "ROUTE_ERROR", "UNREACHABLE", "REJECTED"}
LostEvents == {"DISCONNECTED", "ADDR_CHANGE"}

Failed(f) ==
    /\ ev[f] \in ErrorEvents \cup LostEvents /\ CmExit(f) /\ Post(f)
    /\ state' = [state EXCEPT ![f] =
                     IF ev[f] \in ErrorEvents THEN "ERROR" ELSE "DISCONNECTED"]
    /\ UNCHANGED <<appVars, ev, unacked, connVars, netVars, serverVars>>

\* Mutant: an event that was handled well is not acknowledged either.
AckCmEvent_missing(f) ==
    /\ CmGoto(f, "ack", "get")
    /\ UNCHANGED <<appVars, ev, unacked, fileVars, connVars, netVars, serverVars>>

\* rdma_ack_cm_event frees the event.
AckCmEvent(f) ==
    /\ CmGoto(f, "ack", "get")
    /\ unacked' = [unacked EXCEPT ![f] = @ - 1]
    /\ ev' = [ev EXCEPT ![f] = "none"]
    /\ UNCHANGED <<appVars, fileVars, connVars, netVars, serverVars>>

--------------------------------------------------------------------------------
(* rdma_cm.                                                                 *)

Resolved(f, from, good, bad, fault) ==
    /\ net[f] = from
    /\ net' = [net EXCEPT ![f] = "idle"]
    /\ \/ chan' = [chan EXCEPT ![f] = Append(@, good)]
       \/ fault \in Faults[f] /\ chan' = [chan EXCEPT ![f] = Append(@, bad)]
    /\ UNCHANGED <<appVars, cmVars, fileVars, connVars, serverVars>>

Resolution(f) == \/ Resolved(f, "addr", "ADDR_RESOLVED", "ADDR_ERROR", "addr_error")
                 \/ Resolved(f, "route", "ROUTE_RESOLVED", "ROUTE_ERROR", "route_error")

\* A connection attempt times out, or an established connection is lost.
Loss(f) ==
    /\ \/ /\ net[f] = "connect" /\ "unreachable" \in Faults[f]
          /\ chan' = [chan EXCEPT ![f] = Append(@, "UNREACHABLE")]
          /\ net' = [net EXCEPT ![f] = "down"]
       \/ /\ net[f] = "up" /\ "disconnect" \in Faults[f]
          /\ chan' = [chan EXCEPT ![f] = Append(@, "DISCONNECTED")]
          /\ net' = [net EXCEPT ![f] = "down"]
       \/ /\ net[f] = "up" /\ "addr_change" \in Faults[f] /\ chan[f] = <<>>
          /\ chan' = [chan EXCEPT ![f] = Append(@, "ADDR_CHANGE")]
          /\ UNCHANGED net
    /\ schan' = IF net'[f] = "down" THEN Append(schan, <<"DISCONNECTED", f>>) ELSE schan
    /\ UNCHANGED <<appVars, cmVars, fileVars, connVars, scm, unit, conns_list>>

--------------------------------------------------------------------------------
(* The connection (RpmemSession and RpmemCompletion).                       *)

\* The command is answered while the connection is up, and the cq_thread wakes
\* its caller; or nobody will: the connection is gone, or one of the many steps
\* from the server's receive to the cq_thread has failed.
CommandEnds(f) ==
    /\ cmd[f] = "sent"
    /\ \/ net[f] = "up" /\ cmd' = [cmd EXCEPT ![f] = "answered"]
       \/ net[f] # "up" /\ cmd' = [cmd EXCEPT ![f] = "lost"]
       \/ "no_answer" \in Faults[f] /\ cmd' = [cmd EXCEPT ![f] = "lost"]
    /\ UNCHANGED <<app, file_list, cmVars, fileVars, connVars, netVars, serverVars>>

--------------------------------------------------------------------------------
(* The server's cm_thread; it acknowledges every event.                     *)

\* The answer reaches a client that still waits for it.
Answer(f, answer, then) ==
    /\ chan' = IF net[f] = "connect" THEN [chan EXCEPT ![f] = Append(@, answer)] ELSE chan
    /\ net' = IF net[f] = "connect" THEN [net EXCEPT ![f] = then] ELSE net
    /\ schan' = Tail(schan)
    /\ UNCHANGED scm

Reject(f) == Answer(f, "REJECTED", "down") /\ UNCHANGED conns_list

Ready == [mem |-> "live", thread |-> TRUE, recv |-> 1]

\* rdma_accept, then the connection joins conns_list.
Accept(f) == Answer(f, "ESTABLISHED", "up") /\ conns_list' = conns_list \cup {f}

\* Mutant: the first receive is left to the time after the accept.
ConnectRequest_norecv(f) ==
    /\ scm = "get" /\ schan # <<>> /\ Head(schan) = <<"CONNECT_REQUEST", f>>
    /\ unit' = [unit EXCEPT ![f] = [Ready EXCEPT !.recv = 0]] /\ Accept(f)
    /\ UNCHANGED <<appVars, cmVars, fileVars, connVars>>

\* rpmem_connect_request_handler.  What a failed rpmem_create_qp leaves is a
\* freed unit with a thread; a failed rpmem_post_recv or rdma_accept, the unit.
ConnectRequest(f) ==
    /\ scm = "get" /\ schan # <<>> /\ Head(schan) = <<"CONNECT_REQUEST", f>>
    /\ \/ unit' = [unit EXCEPT ![f] = Ready] /\ Accept(f)
       \/ "conn_init" \in Faults[f] /\ Reject(f) /\ UNCHANGED unit
       \/ /\ "create_qp" \in Faults[f] /\ Reject(f)
          /\ unit' = [unit EXCEPT ![f] = [mem |-> "freed", thread |-> TRUE, recv |-> 0]]
       \/ /\ "accept" \in Faults[f] /\ Reject(f)
          /\ \E n \in 0 .. 1 : unit' = [unit EXCEPT ![f] = [Ready EXCEPT !.recv = n]]
    /\ UNCHANGED <<appVars, cmVars, fileVars, connVars>>

\* Mutant: the thread ends on the event it has no use for.
OtherEvent_fatal ==
    /\ scm = "get" /\ schan # <<>> /\ Head(schan)[1] # "CONNECT_REQUEST"
    /\ schan' = Tail(schan) /\ scm' = "dead"
    /\ UNCHANGED <<appVars, cmVars, fileVars, connVars, netVars, unit, conns_list>>

\* Every other event is ignored, DISCONNECTED too.
OtherEvent ==
    /\ scm = "get" /\ schan # <<>> /\ Head(schan)[1] # "CONNECT_REQUEST"
    /\ schan' = Tail(schan)
    /\ UNCHANGED <<appVars, cmVars, fileVars, connVars, netVars, scm, unit, conns_list>>

--------------------------------------------------------------------------------
Opening(f) == WaitConnect(f) \/ CheckState(f) \/ OpenCommand(f) \/ OpenAnswered(f)
Ending(f) == \/ CloseAnswered(f) \/ CancelCm(f) \/ DestroyQp(f) \/ DestroyId(f)
             \/ CancelCq(f) \/ Free(f)
CmThread(f) == \/ GetCmEvent(f) \/ CmEnds(f) \/ AddrHandler(f)
               \/ RouteHandler(f) \/ Established(f) \/ Failed(f) \/ AckCmEvent(f)
Server == OtherEvent \/ \E f \in Files : ConnectRequest(f)

Next == \/ Server
        \/ \E f \in Files : \/ OpenStart(f) \/ CloseCommand(f) \/ Opening(f)
                            \/ Ending(f) \/ CmThread(f) \/ Resolution(f) \/ Loss(f)
                            \/ CommandEnds(f)

Spec == Init /\ [][Next]_vars

\* Threads run, resolutions end and commands are answered or lost; nothing makes
\* an application open or close a file, nor a connection break.
FairSpec == /\ Spec /\ WF_vars(Server)
            /\ \A f \in Files : /\ WF_vars(Opening(f) \/ Ending(f))
                                /\ WF_vars(CmThread(f)) /\ WF_vars(Resolution(f))
                                /\ WF_vars(CommandEnds(f))

--------------------------------------------------------------------------------
(* Properties.                                                              *)

\* The type of every variable; the client has read at most one event that it
\* has not acknowledged.
TypeOK ==
    /\ app \in [Files -> {"init", "wait", "check", "command", "open_wait", "open", "fail",
                          "fail_id", "fail_free", "null", "close_wait", "close",
                          "close_qp", "close_id", "close_free", "close_cq", "closed"}]
    /\ cmd \in [Files -> {"none", "sent", "answered", "lost"}]
    /\ state \in [Files -> {"INIT", "ERROR", "ESTABLISHED", "DISCONNECTED"}]
    /\ sem_connect \in [Files -> Nat]
    /\ res \in [Files -> SUBSET (Setup \cup {"qp"})]
    /\ cqthread \in [Files -> {"none", "running", "cancelled", "cut_off"}]
    /\ file_list \subseteq Files /\ conns_list \subseteq Files
    /\ cm \in [Files -> {"none", "get", "got", "ack", "dead", "failed",
                         "cancelled", "cut_off"}]
    /\ unacked \in [Files -> 0 .. 1]
    /\ net \in [Files -> {"idle", "addr", "route", "connect", "up", "down"}]
    /\ scm = "get"
    /\ unit \in [Files -> [mem : {"none", "live", "freed"}, thread : BOOLEAN, recv : 0 .. 1]]

\* The unacknowledged event is the cm_thread's reference to its file: while it
\* handles an event, rdma_destroy_id keeps rpmem_open and rpmem_close from
\* freeing the file under it.
HandlerHoldsFile == \A f \in Files : Freed(f) => cm[f] \notin {"got", "ack"}

\* rpmem_route_handler finds the protection domain and the completion queue it
\* builds on: a route that resolves after rpmem_addr_handler failed and took
\* them back is never handled.
RouteUsesLive == \A f \in Files :
    cm[f] = "got" /\ ev[f] = "ROUTE_RESOLVED" => Setup \subseteq res[f]

\* The OPEN command starts from the state RpmemSession begins with: the client
\* has its queue pair and completion thread, and the server, in its unit, a
\* thread and a posted receive for the first request.
SessionStart == \A f \in Files :
    app[f] = "command" => /\ res[f] = Setup \cup {"qp"} /\ cqthread[f] = "running"
                          /\ unit[f] = Ready

\* sem_wait(&sem_connect) returns whatever becomes of the connection, unless
\* rpmem_route_handler fails or rdma_get_cm_event does, which both end the
\* cm_thread without a sem_post: resolutions and errors wake rpmem_open, and
\* the server answers every request, whatever the connections before it did.
ConnectWakes == \A f \in Files :
    app[f] = "wait" ~> \/ app[f] # "wait" \/ cm[f] = "failed"
                       \/ cm[f] = "dead" /\ ev[f] = "ROUTE_RESOLVED"

\* Where rpmem_open and rpmem_close wait for ever: for the answer to a lost
\* command; in rdma_destroy_id, for a cm_thread that ended with an event in its
\* hands, because its handler failed or pthread_cancel cut it off; and in
\* ibv_destroy_cq, for a cq_thread that was cut off.
Stuck(f) == \/ app[f] \in {"open_wait", "close_wait"} /\ cmd[f] = "lost"
            \/ app[f] \in {"fail_id", "close_id"} /\ cm[f] \in {"dead", "cut_off"}
            \/ app[f] = "close_cq" /\ cqthread[f] = "cut_off"

\* Past sem_wait(&sem_connect), rpmem_open and rpmem_close return, unless they
\* are stuck at one of these three waits.
CallsProceed == \A f \in Files :
    app[f] \notin {"init", "wait", "open"} ~> app[f] \in {"open", "null", "closed"} \/ Stuck(f)

--------------------------------------------------------------------------------
(* What the callers expect, and the code does not do.                       *)

\* rpmem_open returns: its callers print "rpmem_open" and exit on NULL.
OpenReturns == \A f \in Files :
    app[f] \in {"wait", "check", "command", "open_wait", "fail", "fail_id", "fail_free"}
        ~> app[f] \in {"open", "null"}
================================================================================
