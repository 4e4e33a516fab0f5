-------------------------- MODULE RpmemConnect_proofs --------------------------
(****************************************************************************)
(* Proofs about the connection managers, for any number of files and any    *)
(* set of failing calls.                                                    *)
(*                                                                          *)
(* HandlerHoldsFile is not inductive: that no event reaches a cm_thread     *)
(* once rdma_destroy_id has returned needs the channel to be empty then and *)
(* rdma_cm to be silent (QuietInv), and that rdma_destroy_id waits for the  *)
(* handler needs the count of unacknowledged events (CmInv).                *)
(*                                                                          *)
(* RouteUsesLive and SessionStart follow a connection from its resolution   *)
(* to its first command: which event may still come while the address or    *)
(* the route is resolved (AddrInv, RouteInv), and what both sides hold once *)
(* the server was asked and has accepted (LinkInv).                         *)
(****************************************************************************)
EXTENDS RpmemConnect, SequenceTheorems, TLAPS

\* The points of rpmem_open and rpmem_close, and of the cm_thread.
AppPoints == {"init", "wait", "check", "command", "open_wait", "open", "fail",
              "fail_id", "fail_free", "null", "close_wait", "close",
              "close_qp", "close_id", "close_free", "close_cq", "closed"}
CmPoints == {"none", "get", "got", "ack", "dead", "failed", "cancelled", "cut_off"}

\* The calls of rpmem_open and rpmem_close after rdma_destroy_id.
IdGone == {"fail_free", "null", "close_free", "close_cq", "closed"}

\* What the proof needs of the types.
Types == /\ app \in [Files -> AppPoints] /\ cm \in [Files -> CmPoints]
         /\ unacked \in [Files -> Nat]
         /\ DOMAIN chan = Files /\ DOMAIN net = Files

\* A thread that handles an event has not acknowledged it; one that waits has
\* nothing to acknowledge.
CmInv(f) == /\ cm[f] \in {"got", "ack"} => unacked[f] = 1
            /\ cm[f] \in {"none", "get"} => unacked[f] = 0

\* Before rpmem_open resolves the address, and after rdma_destroy_id, no event
\* is there and none is under way.
QuietInv(f) == /\ app[f] \in IdGone \cup {"init"} =>
                      chan[f] = <<>> /\ net[f] \in {"idle", "down"}
               /\ app[f] \in IdGone => cm[f] \notin {"got", "ack"}
               /\ app[f] = "init" => cm[f] = "none"

\* The inductive invariant of HandlerHoldsFile.
ConnectInv == Types /\ \A f \in Files : CmInv(f) /\ QuietInv(f)

\* It holds initially.
LEMMA InitInv == Init => ConnectInv
BY DEF Init, ConnectInv, Types, CmInv, QuietInv, AppPoints, CmPoints, IdGone

\* Steps that touch neither the file's threads nor its channel.
LEMMA Untouched ==
    ASSUME ConnectInv, UNCHANGED <<app, cm, unacked, chan, net>>
    PROVE  ConnectInv'
BY DEF ConnectInv, Types, CmInv, QuietInv

\* rpmem_open and rpmem_close.
LEMMA AppStep ==
    ASSUME ConnectInv, NEW f \in Files,
           OpenStart(f) \/ CloseCommand(f) \/ Opening(f) \/ Ending(f)
    PROVE  ConnectInv'
<1> USE DEF ConnectInv, Types, CmInv, QuietInv, Goto, AppPoints, CmPoints, IdGone,
            cmVars, netVars
<1>1. CASE OpenStart(f)
  <2>1. app[f] = "init" /\ cm[f] = "none" /\ unacked[f] = 0
    BY <1>1 DEF OpenStart
  <2>2. Types'
    BY <1>1 DEF OpenStart
  <2>3. ASSUME NEW g \in Files, g # f PROVE (CmInv(g) /\ QuietInv(g))'
    BY <1>1, <2>3 DEF OpenStart
  <2>4. (CmInv(f) /\ QuietInv(f))'
    BY <1>1, <2>1 DEF OpenStart
  <2> QED
    BY <2>2, <2>3, <2>4
<1>2. CASE CloseCommand(f) \/ OpenAnswered(f) \/ CloseAnswered(f) \/ CancelCq(f)
  BY <1>2 DEF CloseCommand, OpenAnswered, CloseAnswered, CancelCq
<1>3. CASE WaitConnect(f)
  BY <1>3 DEF WaitConnect
<1>4. CASE CheckState(f)
  BY <1>4 DEF CheckState
<1>5. CASE OpenCommand(f)
  BY <1>5 DEF OpenCommand
<1>6. CASE CancelCm(f)
  BY <1>6 DEF CancelCm
<1>7. CASE DestroyQp(f)
  BY <1>7 DEF DestroyQp
<1>8. CASE DestroyId(f)
  <2>1. cm[f] \notin {"got", "ack"}
    BY <1>8 DEF DestroyId
  <2>2. Types'
    BY <1>8 DEF DestroyId
  <2>3. ASSUME NEW g \in Files, g # f PROVE (CmInv(g) /\ QuietInv(g))'
    BY <1>8, <2>3 DEF DestroyId
  <2>4. (CmInv(f) /\ QuietInv(f))'
    BY <1>8, <2>1 DEF DestroyId
  <2> QED
    BY <2>2, <2>3, <2>4
<1>9. CASE Free(f)
  BY <1>9 DEF Free
<1> QED
  BY <1>1, <1>2, <1>3, <1>4, <1>5, <1>6, <1>7, <1>8, <1>9 DEF Opening, Ending

\* The client's cm_thread.
LEMMA CmStep == ASSUME ConnectInv, NEW f \in Files, CmThread(f) PROVE ConnectInv'
<1> USE DEF ConnectInv, Types, CmInv, QuietInv, CmGoto, CmExit, AppPoints, CmPoints,
            IdGone, appVars, netVars
<1>1. CASE GetCmEvent(f)
  BY <1>1 DEF GetCmEvent
<1>2. CASE CmEnds(f)
  BY <1>2 DEF CmEnds
<1>3. CASE AddrHandler(f)
  <2>1. cm[f] = "got" /\ app[f] \notin IdGone \cup {"init"} /\ UNCHANGED <<app, chan, unacked>>
    BY <1>3 DEF AddrHandler
  <2>2. \E to \in {"ack", "dead"} : cm' = [cm EXCEPT ![f] = to]
    BY <1>3 DEF AddrHandler
  <2>3. net' = net \/ net' = [net EXCEPT ![f] = "route"]
    BY <1>3 DEF AddrHandler
  <2> QED
    BY <2>1, <2>2, <2>3
<1>4. CASE RouteHandler(f)
  BY <1>4 DEF RouteHandler
<1>5. CASE Established(f)
  BY <1>5 DEF Established
<1>6. CASE Failed(f)
  BY <1>6 DEF Failed
<1>7. CASE AckCmEvent(f)
  BY <1>7 DEF AckCmEvent
<1> QED
  BY <1>1, <1>2, <1>3, <1>4, <1>5, <1>6, <1>7 DEF CmThread

\* Events come only while rdma_cm works for the connection.
LEMMA NetStep ==
    ASSUME ConnectInv, NEW f \in Files,
           \/ Resolution(f) \/ Loss(f) \/ ConnectRequest(f) \/ CommandEnds(f)
    PROVE  ConnectInv'
<1> USE DEF ConnectInv, Types, CmInv, QuietInv, AppPoints, CmPoints, IdGone, appVars,
            cmVars, netVars
<1>1. CASE Resolution(f)
  BY <1>1 DEF Resolution, Resolved
<1>2. CASE Loss(f)
  BY <1>2 DEF Loss
<1>3. CASE ConnectRequest(f)
  BY <1>3 DEF ConnectRequest, Accept, Reject, Answer
<1>4. CASE CommandEnds(f)
  BY <1>4 DEF CommandEnds
<1> QED
  BY <1>1, <1>2, <1>3, <1>4

\* Every step preserves the invariant.
LEMMA ConnectNext == ConnectInv /\ [Next]_vars => ConnectInv'
<1> SUFFICES ASSUME ConnectInv, [Next]_vars PROVE ConnectInv'
  OBVIOUS
<1>1. CASE OtherEvent
  BY <1>1, Untouched DEF OtherEvent, appVars, cmVars, netVars
<1>2. CASE UNCHANGED vars
  BY <1>2, Untouched DEF vars, appVars, cmVars, netVars
<1> QED
  BY <1>1, <1>2, AppStep, CmStep, NetStep DEF Next, Server

\* While cm_thread handles an event, its file is not freed: rdma_destroy_id
\* comes before every free(priv_rfile) of rpmem_open and rpmem_close, and
\* returns only when the event has been acknowledged.
THEOREM FileOutlivesHandler == Spec => []HandlerHoldsFile
<1>1. ConnectInv => HandlerHoldsFile
  BY DEF ConnectInv, QuietInv, IdGone, HandlerHoldsFile, Freed
<1> QED
  BY InitInv, ConnectNext, <1>1, PTL DEF Spec

--------------------------------------------------------------------------------
(* From the connection request to the first command.                        *)

\* The events of a client, and of the server.
Events == {"ADDR_RESOLVED", "ROUTE_RESOLVED", "ESTABLISHED"} \cup ErrorEvents \cup LostEvents
ServerEvents == {"CONNECT_REQUEST", "DISCONNECTED"} \X Files

\* All types: those a run checks and those of the events.
AllTypes == /\ TypeOK
            /\ chan \in [Files -> Seq(Events)] /\ schan \in Seq(ServerEvents)
            /\ ev \in [Files -> Events \cup {"none"}]

\* The event e is in the channel s; at most once.
In(s, e) == \E i \in DOMAIN s : s[i] = e
Once(s, e) == \A i, j \in DOMAIN s : s[i] = e /\ s[j] = e => i = j

\* cm_thread is in its handler for e; a connection request waits for the server.
Handles(f, e) == cm[f] = "got" /\ ev[f] = e
Requested(f) == In(schan, <<"CONNECT_REQUEST", f>>)

\* Nothing has connected yet, and nothing but the next event will wake rpmem_open.
Fresh(f) == /\ app[f] = "wait" /\ sem_connect[f] = 0 /\ state[f] = "INIT"
            /\ ~Requested(f)

\* While the address is being resolved there is one event to come and nothing
\* that its handler could overwrite.
AddrInv(f) ==
    /\ net[f] = "addr" => Fresh(f) /\ chan[f] = <<>> /\ cm[f] \in {"get", "failed"}
    /\ In(chan[f], "ADDR_RESOLVED") =>
           /\ Fresh(f) /\ chan[f] = <<"ADDR_RESOLVED">> /\ net[f] = "idle"
           /\ cm[f] \in {"get", "failed"}
    /\ Handles(f, "ADDR_RESOLVED") => Fresh(f) /\ chan[f] = <<>> /\ net[f] = "idle"

\* While the route is being resolved the objects of rpmem_addr_handler are
\* there, unless it has failed and nobody will handle the route.
RouteInv(f) ==
    /\ net[f] = "route" /\ cm[f] # "dead" =>
           /\ Fresh(f) /\ chan[f] = <<>> /\ cm[f] \in {"get", "ack", "failed"}
           /\ res[f] = Setup /\ cqthread[f] = "running"
    /\ In(chan[f], "ROUTE_RESOLVED") /\ cm[f] # "dead" =>
           /\ Fresh(f) /\ chan[f] = <<"ROUTE_RESOLVED">> /\ net[f] = "idle"
           /\ cm[f] \in {"get", "ack", "failed"}
           /\ res[f] = Setup /\ cqthread[f] = "running"
    /\ Handles(f, "ROUTE_RESOLVED") =>
           /\ Fresh(f) /\ chan[f] = <<>> /\ net[f] = "idle"
           /\ res[f] = Setup /\ cqthread[f] = "running"

\* The calls of rpmem_close after rdma_disconnect.
Disconnected == {"close_id", "close_free", "close_cq", "closed"}

\* The server has accepted the connection.
Accepted(f) == \/ net[f] = "up" \/ In(chan[f], "ESTABLISHED") \/ Handles(f, "ESTABLISHED")
               \/ state[f] = "ESTABLISHED"
               \/ app[f] \in {"command", "open_wait", "open", "close_wait", "close", "close_qp"}

\* The client's objects from the connection request to rdma_disconnect, the
\* server's unit once it has accepted; it is asked once.
LinkInv(f) ==
    /\ app[f] = "init" => /\ sem_connect[f] = 0 /\ state[f] = "INIT" /\ net[f] = "idle"
                          /\ ~Requested(f)
    /\ app[f] \in Disconnected => net[f] = "down"
    /\ (net[f] = "connect" \/ Accepted(f)) /\ app[f] \notin Disconnected =>
           res[f] = Setup \cup {"qp"} /\ cqthread[f] = "running"
    /\ Accepted(f) => unit[f] = Ready /\ ~Requested(f)
    /\ Once(schan, <<"CONNECT_REQUEST", f>>)

\* The inductive invariant of RouteUsesLive and SessionStart.
StartInv == AllTypes /\ \A f \in Files : AddrInv(f) /\ RouteInv(f) /\ LinkInv(f)

\* Nothing is in an empty channel.
LEMMA InEmpty == ASSUME NEW e PROVE ~In(<<>>, e)
BY DEF In

\* The event of a channel that holds one.
LEMMA InOne == ASSUME NEW x, NEW e, In(<<x>>, e) PROVE x = e
BY DEF In

\* An event that is appended is in the channel.
LEMMA InAppend ==
    ASSUME NEW S, NEW s \in Seq(S), NEW x \in S, NEW e
    PROVE  In(Append(s, x), e) <=> In(s, e) \/ x = e
<1>1. /\ DOMAIN s = 1 .. Len(s) /\ Len(s) \in Nat
      /\ DOMAIN Append(s, x) = 1 .. Len(s) + 1
      /\ \A i \in 1 .. Len(s) : Append(s, x)[i] = s[i]
      /\ Append(s, x)[Len(s) + 1] = x
  OBVIOUS
<1> QED
  BY <1>1 DEF In

\* An event that is taken is the first or stays.
LEMMA InTail ==
    ASSUME NEW S, NEW s \in Seq(S), s # <<>>, NEW e
    PROVE  In(s, e) <=> Head(s) = e \/ In(Tail(s), e)
<1>1. /\ DOMAIN s = 1 .. Len(s) /\ Len(s) \in Nat \ {0}
      /\ DOMAIN Tail(s) = 1 .. Len(s) - 1 /\ Head(s) = s[1]
      /\ \A i \in 1 .. Len(s) - 1 : Tail(s)[i] = s[i + 1]
  BY HeadTailProperties
<1>2. ASSUME NEW i \in 1 .. Len(s), s[i] = e PROVE Head(s) = e \/ In(Tail(s), e)
  <2>1. CASE i = 1
    BY <1>1, <1>2, <2>1
  <2>2. CASE i # 1
    <3>1. i - 1 \in 1 .. Len(s) - 1 /\ Tail(s)[i - 1] = e
      BY <1>1, <1>2, <2>2
    <3> QED
      BY <1>1, <3>1 DEF In
  <2> QED
    BY <2>1, <2>2
<1>3. ASSUME NEW i \in 1 .. Len(s) - 1, Tail(s)[i] = e PROVE In(s, e)
  <2>1. i + 1 \in 1 .. Len(s) /\ s[i + 1] = e
    BY <1>1, <1>3
  <2> QED
    BY <1>1, <2>1 DEF In
<1>4. Head(s) = e => In(s, e)
  BY <1>1 DEF In
<1> QED
  BY <1>1, <1>2, <1>3, <1>4 DEF In

\* Channels stay channels.
LEMMA AppendType == ASSUME NEW S, NEW s \in Seq(S), NEW x \in S PROVE Append(s, x) \in Seq(S) /\ <<>> \in Seq(S)
OBVIOUS

\* An event that is not there can be appended and is there once.
LEMMA OnceAppend ==
    ASSUME NEW S, NEW s \in Seq(S), NEW x \in S, NEW e, Once(s, e), x # e \/ ~In(s, e)
    PROVE  Once(Append(s, x), e)
<1>1. /\ DOMAIN s = 1 .. Len(s) /\ Len(s) \in Nat
      /\ DOMAIN Append(s, x) = 1 .. Len(s) + 1
      /\ \A i \in 1 .. Len(s) : Append(s, x)[i] = s[i]
      /\ Append(s, x)[Len(s) + 1] = x
  OBVIOUS
<1> QED
  BY <1>1 DEF In, Once

\* An event that is there once is gone when it is taken.
LEMMA OnceTail ==
    ASSUME NEW S, NEW s \in Seq(S), s # <<>>, NEW e, Once(s, e)
    PROVE  Once(Tail(s), e) /\ (Head(s) = e => ~In(Tail(s), e))
<1>1. /\ DOMAIN s = 1 .. Len(s) /\ Len(s) \in Nat \ {0}
      /\ DOMAIN Tail(s) = 1 .. Len(s) - 1 /\ Head(s) = s[1]
      /\ \A i \in 1 .. Len(s) - 1 : Tail(s)[i] = s[i + 1]
  BY HeadTailProperties
<1>2. ASSUME NEW i \in 1 .. Len(s) - 1, NEW j \in 1 .. Len(s) - 1, Tail(s)[i] = e, Tail(s)[j] = e
      PROVE  i = j
  <2>1. i + 1 \in 1 .. Len(s) /\ j + 1 \in 1 .. Len(s) /\ s[i + 1] = e /\ s[j + 1] = e
    BY <1>1, <1>2
  <2>2. i + 1 = j + 1
    BY <1>1, <2>1 DEF Once
  <2> QED
    BY <2>2
<1>3. ASSUME Head(s) = e, NEW i \in 1 .. Len(s) - 1, Tail(s)[i] = e PROVE FALSE
  <2>1. i + 1 \in 1 .. Len(s) /\ 1 \in 1 .. Len(s) /\ s[i + 1] = e /\ s[1] = e
    BY <1>1, <1>3
  <2>2. i + 1 = 1
    BY <1>1, <2>1 DEF Once
  <2> QED
    BY <2>2
<1> QED
  BY <1>1, <1>2, <1>3 DEF Once, In

--------------------------------------------------------------------------------
(* The steps preserve StartInv.                                             *)

\* A step leaves the file g alone.
SameFile(g) ==
    /\ app'[g] = app[g] /\ state'[g] = state[g] /\ sem_connect'[g] = sem_connect[g]
    /\ res'[g] = res[g] /\ cqthread'[g] = cqthread[g] /\ cm'[g] = cm[g] /\ ev'[g] = ev[g]
    /\ chan'[g] = chan[g] /\ net'[g] = net[g] /\ unit'[g] = unit[g]

\* What StartInv says of one file.
FileInv(g) == AddrInv(g) /\ RouteInv(g) /\ LinkInv(g)

\* No new request of g reaches the server.
NoRequest(g) == (Requested(g)' => Requested(g)) /\ Once(schan', <<"CONNECT_REQUEST", g>>)

\* A file that a step leaves alone keeps it.
LEMMA OtherFile ==
    ASSUME NEW g, FileInv(g), SameFile(g), NoRequest(g)
    PROVE  FileInv(g)'
BY DEF FileInv, SameFile, NoRequest, AddrInv, RouteInv, LinkInv, Disconnected, Fresh, Accepted, Handles

\* A step of f leaves it to show what becomes of f.
LEMMA OneFile ==
    ASSUME StartInv, NEW f \in Files, AllTypes', FileInv(f)',
           \A g \in Files \ {f} : SameFile(g) /\ NoRequest(g)
    PROVE  StartInv'
<1>1. \A g \in Files \ {f} : FileInv(g)'
  BY OtherFile DEF StartInv, FileInv
<1> QED
  BY <1>1 DEF StartInv, FileInv

\* The server's channel grows by an event other than a request of g, or
\* loses one.
LEMMA ServerChannel ==
    ASSUME AllTypes, NEW g \in Files, LinkInv(g),
           \/ schan' = schan
           \/ \E x \in ServerEvents : x # <<"CONNECT_REQUEST", g>> /\ schan' = Append(schan, x)
           \/ schan # <<>> /\ schan' = Tail(schan)
    PROVE  NoRequest(g)
<1> DEFINE e == <<"CONNECT_REQUEST", g>>
<1>1. schan \in Seq(ServerEvents) /\ Once(schan, e)
  BY DEF AllTypes, LinkInv, Disconnected
<1>2. CASE schan' = schan
  BY <1>1, <1>2 DEF NoRequest, Requested
<1>3. CASE \E x \in ServerEvents : x # e /\ schan' = Append(schan, x)
  BY <1>1, <1>3, InAppend, OnceAppend DEF NoRequest, Requested
<1>4. CASE schan # <<>> /\ schan' = Tail(schan)
  BY <1>1, <1>4, InTail, OnceTail DEF NoRequest, Requested
<1> QED
  BY <1>2, <1>3, <1>4

\* It holds initially: no file has been opened.
LEMMA StartInit == Init => StartInv
<1> SUFFICES ASSUME Init PROVE StartInv
  OBVIOUS
<1>1. AllTypes
  BY DEF Init, AllTypes, TypeOK, NoUnit
<1>2. ASSUME NEW f \in Files PROVE AddrInv(f) /\ RouteInv(f) /\ LinkInv(f)
  <2>1. ~In(<<>>, "ADDR_RESOLVED") /\ ~In(<<>>, "ROUTE_RESOLVED") /\ ~In(<<>>, "ESTABLISHED")
        /\ ~In(<<>>, <<"CONNECT_REQUEST", f>>)
    BY InEmpty
  <2>2. Once(schan, <<"CONNECT_REQUEST", f>>)
    BY DEF Init, Once
  <2> QED
    BY <2>1, <2>2 DEF Init, AddrInv, RouteInv, LinkInv, Disconnected, Fresh, Accepted, Handles, Requested
<1> QED
  BY <1>1, <1>2 DEF StartInv

\* rpmem_open and rpmem_close, as far as the connection is not concerned.
LEMMA AppStart ==
    ASSUME ConnectInv, StartInv, NEW f \in Files,
           \/ OpenStart(f) \/ CloseCommand(f) \/ Opening(f) \/ CloseAnswered(f) \/ CancelCm(f)
           \/ CancelCq(f) \/ Free(f) \/ CommandEnds(f)
    PROVE  StartInv'
<1>1. AllTypes /\ FileInv(f) /\ CmInv(f) /\ QuietInv(f) /\ schan' = schan /\ unit' = unit
  BY DEF StartInv, FileInv, ConnectInv, OpenStart, CloseCommand, Opening, WaitConnect,
         CheckState, OpenCommand, OpenAnswered, CloseAnswered, CancelCm, CancelCq, Free,
         CommandEnds, serverVars
<1>2. AllTypes'
  <2> USE DEF AllTypes, TypeOK, Goto, cmVars, fileVars, connVars, netVars, serverVars
  <2>1. CASE OpenStart(f)
    <3>1. app' \in [Files -> AppPoints]
      <4>1. \E a \in {"wait", "null", "fail"} : app' = [app EXCEPT ![f] = a]
        BY <2>1 DEF OpenStart
      <4> QED
        BY <1>1, <4>1 DEF AppPoints
    <3>2. cm' \in [Files -> CmPoints]
      <4>1. cm' = cm \/ cm' = [cm EXCEPT ![f] = "get"]
        BY <2>1 DEF OpenStart
      <4> QED
        BY <1>1, <4>1 DEF CmPoints
    <3>3. net' \in [Files -> {"idle", "addr", "route", "connect", "up", "down"}]
      <4>1. net' = net \/ net' = [net EXCEPT ![f] = "addr"]
        BY <2>1 DEF OpenStart
      <4> QED
        BY <1>1, <4>1
    <3>4. UNCHANGED <<file_list, cmd, fileVars, connVars, ev, unacked, chan, serverVars>>
      BY <2>1 DEF OpenStart
    <3> QED
      BY <1>1, <3>1, <3>2, <3>3, <3>4 DEF AppPoints, CmPoints
  <2>2. CASE CheckState(f) \/ CancelCm(f)
    <3>1. app' \in [Files -> AppPoints]
      <4>1. \E a \in {"command", "fail", "fail_id", "close_qp"} : app' = [app EXCEPT ![f] = a]
        BY <2>2 DEF CheckState, CancelCm
      <4> QED
        BY <1>1, <4>1 DEF AppPoints
    <3>2. UNCHANGED <<file_list, cmd, cmVars, fileVars, connVars, netVars, serverVars>>
      BY <2>2 DEF CheckState, CancelCm
    <3> QED
      BY <1>1, <3>1, <3>2 DEF AppPoints
  <2>3. CASE WaitConnect(f)
    BY <1>1, <2>3 DEF WaitConnect
  <2>4. CASE Free(f)
    <3>1. res[f] \ {"cq", "comp_channel"} \in SUBSET (Setup \cup {"qp"})
      BY <1>1
    <3>2. res' \in [Files -> SUBSET (Setup \cup {"qp"})]
      <4>1. res' = res \/ res' = [res EXCEPT ![f] = res[f] \ {"cq", "comp_channel"}]
        BY <2>4 DEF Free
      <4>2. res \in [Files -> SUBSET (Setup \cup {"qp"})]
        BY <1>1
      <4> HIDE DEF AllTypes, TypeOK, connVars
      <4> QED
        BY <3>1, <4>1, <4>2
    <3>3. \E a \in {"null", "closed"} : app' = [app EXCEPT ![f] = a]
      BY <2>4 DEF Free
    <3> QED
      BY <1>1, <2>4, <3>2, <3>3 DEF Free
  <2>5. CASE OpenCommand(f) \/ OpenAnswered(f) \/ CloseCommand(f) \/ CloseAnswered(f)
    <3>1. app' \in [Files -> AppPoints]
      <4>1. \E a \in {"open_wait", "open", "fail", "close_wait", "close"} : app' = [app EXCEPT ![f] = a]
        BY <2>5 DEF OpenCommand, OpenAnswered, CloseCommand, CloseAnswered
      <4> QED
        BY <1>1, <4>1 DEF AppPoints
    <3>2. cmd' \in [Files -> {"none", "sent", "answered", "lost"}]
      <4>1. \E a \in {"sent", "none"} : cmd' = cmd \/ cmd' = [cmd EXCEPT ![f] = a]
        BY <2>5 DEF OpenCommand, OpenAnswered, CloseCommand, CloseAnswered, Send, Woken
      <4> QED
        BY <1>1, <4>1
    <3>3. file_list' \subseteq Files
      BY <1>1, <2>5 DEF OpenCommand, OpenAnswered, CloseCommand, CloseAnswered
    <3>4. UNCHANGED <<cmVars, fileVars, connVars, netVars, serverVars>>
      BY <2>5 DEF OpenCommand, OpenAnswered, CloseCommand, CloseAnswered
    <3> QED
      BY <1>1, <3>1, <3>2, <3>3, <3>4 DEF AppPoints
  <2>6. CASE CancelCq(f)
    BY <1>1, <2>6 DEF CancelCq
  <2>7. CASE CommandEnds(f)
    <3>1. \E a \in {"answered", "lost"} : cmd' = [cmd EXCEPT ![f] = a]
      BY <2>7 DEF CommandEnds
    <3> QED
      BY <1>1, <2>7, <3>1 DEF CommandEnds
  <2> QED
    BY <2>1, <2>2, <2>3, <2>4, <2>5, <2>6, <2>7 DEF Opening
<1>3. ASSUME NEW g \in Files \ {f} PROVE SameFile(g) /\ NoRequest(g)
  <2>1. NoRequest(g)
    BY <1>1, ServerChannel DEF StartInv
  <2>2. SameFile(g)
    BY <1>1, <1>3 DEF SameFile, AllTypes, TypeOK, OpenStart, CloseCommand, Opening, WaitConnect,
         CheckState, OpenCommand, OpenAnswered, CloseAnswered, CancelCm, CancelCq, Free,
         CommandEnds, Goto, cmVars, fileVars, connVars, netVars, serverVars
  <2> QED
    BY <2>1, <2>2
<1>4. Requested(f)' = Requested(f) /\ Once(schan', <<"CONNECT_REQUEST", f>>)
  BY <1>1 DEF Requested, FileInv, LinkInv, Disconnected
<1> USE DEF AllTypes, TypeOK, FileInv, AddrInv, RouteInv, LinkInv, Disconnected, Fresh, Accepted, Handles, Goto,
            cmVars, fileVars, connVars, netVars, serverVars
<1>5. CASE OpenStart(f)
  <2>1. app[f] = "init" /\ chan[f] = <<>> /\ cm[f] = "none" /\ chan' = chan
    BY <1>1, <1>5 DEF OpenStart, QuietInv
  <2>2. ~In(chan[f], "ADDR_RESOLVED") /\ ~In(chan[f], "ROUTE_RESOLVED") /\ ~In(chan[f], "ESTABLISHED")
    BY <2>1, InEmpty
  <2>3. FileInv(f)'
    BY <1>1, <1>4, <1>5, <2>1, <2>2 DEF OpenStart
  <2> QED
    BY <1>2, <1>3, <2>3, OneFile
<1>6. CASE CloseCommand(f) \/ CloseAnswered(f)
  <2>1. FileInv(f)'
    BY <1>1, <1>4, <1>6 DEF CloseCommand, CloseAnswered
  <2> QED
    BY <1>2, <1>3, <2>1, OneFile
<1>7. CASE WaitConnect(f)
  <2>1. FileInv(f)'
    BY <1>1, <1>4, <1>7 DEF WaitConnect
  <2> QED
    BY <1>2, <1>3, <2>1, OneFile
<1>8. CASE CheckState(f)
  <2>1. FileInv(f)'
    BY <1>1, <1>4, <1>8 DEF CheckState
  <2> QED
    BY <1>2, <1>3, <2>1, OneFile
<1>9. CASE OpenCommand(f) \/ OpenAnswered(f)
  <2>1. FileInv(f)'
    BY <1>1, <1>4, <1>9 DEF OpenCommand, OpenAnswered
  <2> QED
    BY <1>2, <1>3, <2>1, OneFile
<1>10. CASE CancelCm(f)
  <2>1. FileInv(f)'
    BY <1>1, <1>4, <1>10 DEF CancelCm
  <2> QED
    BY <1>2, <1>3, <2>1, OneFile
<1>11. CASE Free(f)
  <2>1. FileInv(f)'
    BY <1>1, <1>4, <1>11 DEF Free, QuietInv, IdGone
  <2> QED
    BY <1>2, <1>3, <2>1, OneFile
<1>12. CASE CancelCq(f)
  <2>1. FileInv(f)'
    BY <1>1, <1>4, <1>12 DEF CancelCq, QuietInv, IdGone
  <2> QED
    BY <1>2, <1>3, <2>1, OneFile
<1>13. CASE CommandEnds(f)
  <2>1. SameFile(f)
    BY <1>1, <1>13 DEF CommandEnds, SameFile
  <2>2. FileInv(f)'
    BY <1>1, <1>4, <2>1, OtherFile DEF NoRequest
  <2> QED
    BY <1>2, <1>3, <2>2, OneFile
<1> QED
  BY <1>5, <1>6, <1>7, <1>8, <1>9, <1>10, <1>11, <1>12, <1>13 DEF Opening

\* rdma_disconnect with ibv_destroy_qp, and rdma_destroy_id.
LEMMA IdStart ==
    ASSUME ConnectInv, StartInv, NEW f \in Files, DestroyQp(f) \/ DestroyId(f)
    PROVE  StartInv'
<1>1. AllTypes /\ FileInv(f) /\ CmInv(f)
  BY DEF StartInv, FileInv, ConnectInv
<1>2. /\ chan \in [Files -> Seq(Events)] /\ chan[f] \in Seq(Events) /\ "DISCONNECTED" \in Events
      /\ schan \in Seq(ServerEvents) /\ <<"DISCONNECTED", f>> \in ServerEvents
      /\ res \in [Files -> SUBSET (Setup \cup {"qp"})]
      /\ net \in [Files -> {"idle", "addr", "route", "connect", "up", "down"}]
  BY <1>1 DEF AllTypes, TypeOK, Events, LostEvents, ServerEvents
<1>3. schan' = schan \/ schan' = Append(schan, <<"DISCONNECTED", f>>)
  BY DEF DestroyQp, DestroyId, Hangup
<1>4. chan'[f] \in {chan[f], <<>>, Append(chan[f], "DISCONNECTED")} /\ chan' = [chan EXCEPT ![f] = chan'[f]]
  BY <1>2 DEF DestroyQp, DestroyId
<1>5. AllTypes'
  <2>1. schan' \in Seq(ServerEvents)
    BY <1>2, <1>3, AppendType, Zenon
  <2>2. chan'[f] \in Seq(Events)
    <3>1. Append(chan[f], "DISCONNECTED") \in Seq(Events) /\ <<>> \in Seq(Events)
      BY <1>2, AppendType
    <3> QED
      BY <1>2, <1>4, <3>1, Zenon
  <2>3. chan' \in [Files -> Seq(Events)]
    BY <1>2, <1>4, <2>2
  <2>4. res[f] \ {"qp"} \in SUBSET (Setup \cup {"qp"})
    BY <1>2
  <2>5. res' \in [Files -> SUBSET (Setup \cup {"qp"})]
    BY <1>2, <2>4 DEF DestroyQp, DestroyId, connVars
  <2>6. net' = [net EXCEPT ![f] = "down"]
    BY DEF DestroyQp, DestroyId
  <2>7. \E a \in {"close_id", "fail_free", "close_free"} : app' = [app EXCEPT ![f] = a]
    BY DEF DestroyQp, DestroyId, Goto
  <2>8. UNCHANGED <<state, sem_connect, cqthread, file_list, cmd, conns_list, cm, ev, unacked, scm, unit>>
    BY DEF DestroyQp, DestroyId, cmVars, fileVars, connVars
  <2> QED
    BY <1>1, <2>1, <2>3, <2>5, <2>6, <2>7, <2>8 DEF AllTypes, TypeOK
<1>6. ASSUME NEW g \in Files PROVE NoRequest(g)
  <2>1. \/ schan' = schan
        \/ \E x \in ServerEvents : x # <<"CONNECT_REQUEST", g>> /\ schan' = Append(schan, x)
    BY <1>2, <1>3
  <2> QED
    BY <1>1, <2>1, ServerChannel DEF StartInv
<1>7. ASSUME NEW g \in Files \ {f} PROVE SameFile(g)
  BY <1>1, <1>7 DEF SameFile, AllTypes, TypeOK, DestroyQp, DestroyId, Goto, cmVars, fileVars, connVars
<1>8. \A e \in {"ADDR_RESOLVED", "ROUTE_RESOLVED", "ESTABLISHED"} : In(chan'[f], e) => In(chan[f], e)
  <2> SUFFICES ASSUME NEW e \in {"ADDR_RESOLVED", "ROUTE_RESOLVED", "ESTABLISHED"}
               PROVE  In(chan'[f], e) => In(chan[f], e)
    OBVIOUS
  <2>1. ~In(<<>>, e) /\ (In(Append(chan[f], "DISCONNECTED"), e) <=> In(chan[f], e) \/ "DISCONNECTED" = e)
    <3>1. ~In(<<>>, e)
      BY InEmpty
    <3>2. In(Append(chan[f], "DISCONNECTED"), e) <=> In(chan[f], e) \/ "DISCONNECTED" = e
      BY <1>2, InAppend
    <3> QED
      BY <3>1, <3>2
  <2>2. "DISCONNECTED" # e
    OBVIOUS
  <2>3. chan'[f] = chan[f] \/ chan'[f] = <<>> \/ chan'[f] = Append(chan[f], "DISCONNECTED")
    BY <1>4, Zenon
  <2> QED
    BY <2>1, <2>2, <2>3, Zenon
<1>9. FileInv(f)'
  <2> USE DEF FileInv, AddrInv, RouteInv, LinkInv, Disconnected, Fresh, Accepted, Handles, Goto, NoRequest,
              cmVars, fileVars, connVars
  <2>1. CASE DestroyQp(f)
    BY <1>1, <1>2, <1>6, <1>8, <2>1 DEF DestroyQp, AllTypes, TypeOK
  <2>2. CASE DestroyId(f)
    <3>1. cm[f] # "got" /\ chan'[f] = <<>> /\ ~In(chan'[f], "ADDR_RESOLVED")
          /\ ~In(chan'[f], "ROUTE_RESOLVED") /\ ~In(chan'[f], "ESTABLISHED")
      BY <1>1, <1>2, <2>2, InEmpty DEF DestroyId, CmInv
    <3> QED
      BY <1>1, <1>2, <1>6, <2>2, <3>1 DEF DestroyId, AllTypes, TypeOK
  <2> QED
    BY <2>1, <2>2
<1> QED
  BY <1>5, <1>6, <1>7, <1>9, OneFile

\* An event that rdma_cm adds to the channel of f.
LEMMA EventAdded ==
    ASSUME AllTypes, NEW f \in Files, NEW x \in Events, chan' = [chan EXCEPT ![f] = Append(@, x)]
    PROVE  /\ chan' \in [Files -> Seq(Events)] /\ chan'[f] = Append(chan[f], x)
           /\ \A g \in Files \ {f} : chan'[g] = chan[g]
           /\ \A e : In(chan'[f], e) <=> In(chan[f], e) \/ x = e
<1>1. chan \in [Files -> Seq(Events)] /\ chan[f] \in Seq(Events)
  BY DEF AllTypes
<1>2. Append(chan[f], x) \in Seq(Events)
  BY <1>1, AppendType
<1>3. chan' \in [Files -> Seq(Events)] /\ chan'[f] = Append(chan[f], x)
      /\ \A g \in Files \ {f} : chan'[g] = chan[g]
  BY <1>1, <1>2
<1>4. \A e : In(chan'[f], e) <=> In(chan[f], e) \/ x = e
  BY <1>1, <1>3, InAppend
<1> QED
  BY <1>3, <1>4

\* cm_thread takes the next event of its channel.
LEMMA GetStart ==
    ASSUME ConnectInv, StartInv, NEW f \in Files, GetCmEvent(f)
    PROVE  StartInv'
<1>1. AllTypes /\ FileInv(f) /\ CmInv(f) /\ schan' = schan
  BY DEF StartInv, FileInv, ConnectInv, GetCmEvent, serverVars
<1>2. /\ chan \in [Files -> Seq(Events)] /\ chan[f] \in Seq(Events) /\ chan[f] # <<>>
      /\ cm[f] = "get" /\ unacked[f] = 0
      /\ cm \in [Files -> CmPoints] /\ ev \in [Files -> Events \cup {"none"}]
  BY <1>1 DEF AllTypes, TypeOK, GetCmEvent, CmGoto, CmInv, CmPoints
<1>3. Head(chan[f]) \in Events /\ Tail(chan[f]) \in Seq(Events)
  BY <1>2, HeadTailProperties
<1>4. /\ ev'[f] = Head(chan[f]) /\ chan'[f] = Tail(chan[f]) /\ cm'[f] = "got"
      /\ chan' \in [Files -> Seq(Events)] /\ ev' \in [Files -> Events \cup {"none"}]
  BY <1>2, <1>3 DEF GetCmEvent, CmGoto
<1>5. AllTypes'
  <2>1. unacked' \in [Files -> 0 .. 1]
    BY <1>1, <1>2 DEF AllTypes, TypeOK, GetCmEvent
  <2> QED
    BY <1>1, <1>2, <1>4, <2>1 DEF AllTypes, TypeOK, GetCmEvent, CmGoto, appVars, fileVars, connVars, serverVars
<1>6. ASSUME NEW g \in Files \ {f} PROVE SameFile(g) /\ NoRequest(g)
  <2>1. NoRequest(g)
    BY <1>1, ServerChannel DEF StartInv
  <2>2. SameFile(g)
    BY <1>2 DEF SameFile, GetCmEvent, CmGoto, appVars, fileVars, connVars, serverVars
  <2> QED
    BY <2>1, <2>2
<1>7. \A e : In(chan[f], e) <=> ev'[f] = e \/ In(chan'[f], e)
  BY <1>2, <1>4, InTail
<1>8. /\ UNCHANGED <<app, state, sem_connect, res, cqthread, net, unit>>
      /\ Requested(f)' = Requested(f) /\ Once(schan', <<"CONNECT_REQUEST", f>>)
  BY <1>1 DEF GetCmEvent, appVars, fileVars, connVars, serverVars, Requested, FileInv, LinkInv, Disconnected
<1>9. ASSUME NEW x, chan[f] = <<x>> PROVE chan'[f] = <<>> /\ \A e : ~In(chan'[f], e)
  BY <1>4, <1>9, InEmpty
<1>10. AddrInv(f)'
  <2>1. ~In(chan'[f], "ADDR_RESOLVED")
    BY <1>1, <1>7, <1>9 DEF FileInv, AddrInv
  <2>2. net'[f] # "addr"
    BY <1>1, <1>2, <1>8 DEF FileInv, AddrInv
  <2>3. ev'[f] = "ADDR_RESOLVED" => Fresh(f)' /\ chan'[f] = <<>> /\ net'[f] = "idle"
    BY <1>1, <1>7, <1>8, <1>9 DEF FileInv, AddrInv, Fresh
  <2> QED
    BY <2>1, <2>2, <2>3 DEF AddrInv, Handles
<1>11. RouteInv(f)'
  <2>1. ~In(chan'[f], "ROUTE_RESOLVED")
    BY <1>1, <1>2, <1>7, <1>9 DEF FileInv, RouteInv
  <2>2. net'[f] # "route"
    BY <1>1, <1>2, <1>8 DEF FileInv, RouteInv
  <2>3. ev'[f] = "ROUTE_RESOLVED" => /\ Fresh(f)' /\ chan'[f] = <<>> /\ net'[f] = "idle"
                                     /\ res'[f] = Setup /\ cqthread'[f] = "running"
    BY <1>1, <1>2, <1>7, <1>8, <1>9 DEF FileInv, RouteInv, Fresh
  <2> QED
    BY <2>1, <2>2, <2>3 DEF RouteInv, Handles
<1>12. LinkInv(f)'
  <2>1. Accepted(f)' => Accepted(f)
    BY <1>4, <1>7, <1>8 DEF Accepted, Handles
  <2> QED
    BY <1>1, <1>8, <2>1 DEF FileInv, LinkInv, Disconnected
<1> QED
  BY <1>5, <1>6, <1>10, <1>11, <1>12, OneFile DEF FileInv

\* sem_post(&sem_connect).
LEMMA PostType == ASSUME sem_connect \in [Files -> Nat], NEW f \in Files, Post(f) PROVE sem_connect' \in [Files -> Nat]
BY DEF Post

\* Its handlers, and its end.
LEMMA CmStart ==
    ASSUME ConnectInv, StartInv, NEW f \in Files,
           CmEnds(f) \/ AddrHandler(f) \/ RouteHandler(f) \/ Established(f) \/ Failed(f) \/ AckCmEvent(f)
    PROVE  StartInv'
<1>1. AllTypes /\ FileInv(f) /\ CmInv(f) /\ QuietInv(f) /\ UNCHANGED <<chan, app, unit>>
  BY DEF StartInv, FileInv, ConnectInv, CmEnds, AddrHandler, RouteHandler, Established, Failed, AckCmEvent,
         netVars, appVars, serverVars
<1>2. schan' = schan \/ (RouteHandler(f) /\ schan' = Append(schan, <<"CONNECT_REQUEST", f>>))
  BY DEF CmEnds, AddrHandler, RouteHandler, Established, Failed, AckCmEvent, serverVars
<1>3. AllTypes'
  <2> USE DEF AllTypes, TypeOK, CmGoto, CmExit, appVars, fileVars, connVars, netVars, serverVars
  <2>1. CASE CmEnds(f)
    BY <1>1, <2>1 DEF CmEnds
  <2>2. CASE AddrHandler(f)
    <3>1. net' = net \/ net' = [net EXCEPT ![f] = "route"]
      BY <2>2 DEF AddrHandler
    <3>2. net' \in [Files -> {"idle", "addr", "route", "connect", "up", "down"}]
      BY <1>1, <3>1
    <3>3. res' \in [Files -> SUBSET (Setup \cup {"qp"})]
      <4>1. res \in [Files -> SUBSET (Setup \cup {"qp"})]
        BY <1>1
      <4>2. res' = [res EXCEPT ![f] = Setup] \/ res' = [res EXCEPT ![f] = {}]
        BY <2>2 DEF AddrHandler
      <4> HIDE DEF AllTypes, TypeOK
      <4> QED
        BY <4>1, <4>2
    <3>4. cm' \in [Files -> CmPoints]
      <4>1. \E to \in {"ack", "dead"} : cm' = [cm EXCEPT ![f] = to]
        BY <2>2 DEF AddrHandler
      <4> QED
        BY <1>1, <4>1 DEF CmPoints
    <3>5. sem_connect' \in [Files -> Nat]
      <4>1. sem_connect \in [Files -> Nat] /\ (sem_connect' = sem_connect \/ Post(f))
        BY <1>1, <2>2 DEF AddrHandler
      <4> QED
        BY <4>1, PostType, Zenon
    <3>6. cqthread' \in [Files -> {"none", "running", "cancelled", "cut_off"}]
      BY <1>1, <2>2 DEF AddrHandler
    <3>7. UNCHANGED <<app, file_list, cmd, ev, unacked, state, chan, schan, scm, unit, conns_list>>
      BY <2>2 DEF AddrHandler
    <3> QED
      BY <1>1, <3>2, <3>3, <3>4, <3>5, <3>6, <3>7 DEF CmPoints
  <2>3. CASE RouteHandler(f)
    <3>1. <<"CONNECT_REQUEST", f>> \in ServerEvents
      BY DEF ServerEvents
    <3>2. schan' \in Seq(ServerEvents)
      <4>1. schan \in Seq(ServerEvents)
        BY <1>1
      <4>2. Append(schan, <<"CONNECT_REQUEST", f>>) \in Seq(ServerEvents)
        BY <3>1, <4>1, AppendType
      <4> QED
        BY <1>2, <4>1, <4>2, Zenon
    <3>3. res[f] \cup {"qp"} \in SUBSET (Setup \cup {"qp"})
      BY <1>1
    <3>4. res' \in [Files -> SUBSET (Setup \cup {"qp"})]
      <4>1. res' = res \/ res' = [res EXCEPT ![f] = res[f] \cup {"qp"}]
        BY <2>3 DEF RouteHandler
      <4>2. res \in [Files -> SUBSET (Setup \cup {"qp"})]
        BY <1>1
      <4> HIDE DEF AllTypes, TypeOK
      <4> QED
        BY <3>3, <4>1, <4>2
    <3>5. net' \in [Files -> {"idle", "addr", "route", "connect", "up", "down"}]
      <4>1. net' = net \/ net' = [net EXCEPT ![f] = "connect"]
        BY <2>3 DEF RouteHandler
      <4> QED
        BY <1>1, <4>1
    <3>6. cm' \in [Files -> CmPoints]
      <4>1. \E to \in {"ack", "dead"} : cm' = [cm EXCEPT ![f] = to]
        BY <2>3 DEF RouteHandler
      <4> QED
        BY <1>1, <4>1 DEF CmPoints
    <3>7. UNCHANGED <<app, file_list, cmd, ev, unacked, state, sem_connect, cqthread, chan, scm, unit, conns_list>>
      BY <2>3 DEF RouteHandler
    <3> QED
      BY <1>1, <3>2, <3>4, <3>5, <3>6, <3>7 DEF CmPoints
  <2>4. CASE Established(f) \/ Failed(f)
    <3>1. state' \in [Files -> {"INIT", "ERROR", "ESTABLISHED", "DISCONNECTED"}]
      BY <1>1, <2>4 DEF Established, Failed
    <3>2. cm' \in [Files -> {"none", "get", "got", "ack", "dead", "failed", "cancelled", "cut_off"}]
      <4>1. \E to \in {"ack", "dead"} : cm' = [cm EXCEPT ![f] = to]
        BY <2>4 DEF Established, Failed
      <4> QED
        BY <1>1, <4>1
    <3>3. sem_connect' \in [Files -> Nat]
      <4>1. sem_connect \in [Files -> Nat] /\ Post(f)
        BY <1>1, <2>4 DEF Established, Failed
      <4> QED
        BY <4>1, PostType, Zenon
    <3>4. UNCHANGED <<app, file_list, cmd, ev, unacked, res, cqthread, chan, net, schan, scm, unit, conns_list>>
      BY <2>4 DEF Established, Failed
    <3> QED
      BY <1>1, <3>1, <3>2, <3>3, <3>4
  <2>5. CASE AckCmEvent(f)
    BY <1>1, <2>5 DEF AckCmEvent, CmInv
  <2> QED
    BY <2>1, <2>2, <2>3, <2>4, <2>5
<1>4. ASSUME NEW g \in Files \ {f} PROVE SameFile(g) /\ NoRequest(g)
  <2>1. NoRequest(g)
    <3>1. <<"CONNECT_REQUEST", f>> \in ServerEvents /\ <<"CONNECT_REQUEST", f>> # <<"CONNECT_REQUEST", g>>
      BY <1>4 DEF ServerEvents
    <3> QED
      BY <1>1, <1>2, <3>1, ServerChannel DEF StartInv
  <2>2. SameFile(g)
    BY <1>1, <1>4 DEF SameFile, AllTypes, TypeOK, CmEnds, AddrHandler, RouteHandler, Established, Failed,
         AckCmEvent, CmGoto, CmExit, Post, appVars, fileVars, connVars, netVars, serverVars
  <2> QED
    BY <2>1, <2>2
<1>5. In(chan'[f], "ADDR_RESOLVED") = In(chan[f], "ADDR_RESOLVED")
      /\ In(chan'[f], "ROUTE_RESOLVED") = In(chan[f], "ROUTE_RESOLVED")
      /\ In(chan'[f], "ESTABLISHED") = In(chan[f], "ESTABLISHED")
  BY <1>1
<1>6. schan' = schan => Requested(f)' = Requested(f) /\ Once(schan', <<"CONNECT_REQUEST", f>>)
  BY <1>1 DEF Requested, FileInv, LinkInv, Disconnected
<1> USE DEF FileInv, AddrInv, RouteInv, LinkInv, Disconnected, Fresh, Accepted, Handles, AllTypes, TypeOK,
            CmGoto, CmExit, appVars, fileVars, connVars, netVars, serverVars
<1>7. CASE CmEnds(f)
  <2>1. FileInv(f)'
    BY <1>1, <1>5, <1>6, <1>7 DEF CmEnds, CmCancelled, Freed
  <2> QED
    BY <1>3, <1>4, <2>1, OneFile
<1>8. CASE AddrHandler(f)
  <2>1. /\ Fresh(f) /\ chan[f] = <<>> /\ net[f] = "idle" /\ ~In(chan[f], "ADDR_RESOLVED")
        /\ ~In(chan[f], "ROUTE_RESOLVED") /\ ~In(chan[f], "ESTABLISHED") /\ schan' = schan
    BY <1>1, <1>8, InEmpty DEF AddrHandler
  <2>2. FileInv(f)'
    BY <1>1, <1>5, <1>6, <1>8, <2>1 DEF AddrHandler
  <2> QED
    BY <1>3, <1>4, <2>2, OneFile
<1>9. CASE RouteHandler(f)
  <2>1. /\ Fresh(f) /\ chan[f] = <<>> /\ net[f] = "idle" /\ ~In(chan[f], "ADDR_RESOLVED")
        /\ ~In(chan[f], "ROUTE_RESOLVED") /\ ~In(chan[f], "ESTABLISHED")
        /\ res[f] = Setup /\ cqthread[f] = "running"
    BY <1>1, <1>9, InEmpty DEF RouteHandler
  <2>2. Once(schan', <<"CONNECT_REQUEST", f>>)
    <3>1. <<"CONNECT_REQUEST", f>> \in ServerEvents /\ schan \in Seq(ServerEvents)
      BY <1>1 DEF ServerEvents
    <3>2. Once(schan, <<"CONNECT_REQUEST", f>>) /\ ~In(schan, <<"CONNECT_REQUEST", f>>)
      BY <1>1, <2>1 DEF Requested
    <3>3. Once(Append(schan, <<"CONNECT_REQUEST", f>>), <<"CONNECT_REQUEST", f>>)
      BY <3>1, <3>2, OnceAppend
    <3> QED
      BY <1>2, <3>2, <3>3, Zenon
  <2>3. FileInv(f)'
    BY <1>1, <1>5, <1>9, <2>1, <2>2 DEF RouteHandler
  <2> QED
    BY <1>3, <1>4, <2>3, OneFile
<1>10. CASE Established(f)
  <2>1. /\ cm[f] = "got" /\ ev[f] \notin {"ADDR_RESOLVED", "ROUTE_RESOLVED"} /\ cm'[f] # "got"
        /\ UNCHANGED <<net, res, cqthread, schan>>
    BY <1>1, <1>10 DEF Established
  <2>2. /\ net[f] \notin {"addr", "route"} /\ app[f] # "init"
        /\ ~In(chan[f], "ADDR_RESOLVED") /\ ~In(chan[f], "ROUTE_RESOLVED")
    BY <1>1, <2>1 DEF QuietInv
  <2>3. AddrInv(f)' /\ RouteInv(f)'
    BY <1>5, <2>1, <2>2
  <2>4. Accepted(f)' => Accepted(f)
    BY <1>1, <1>5, <1>10, <2>1 DEF Established
  <2>5. LinkInv(f)'
    BY <1>1, <1>6, <2>1, <2>2, <2>4
  <2> QED
    BY <1>3, <1>4, <2>3, <2>5, OneFile
<1>11. CASE Failed(f)
  <2>1. /\ cm[f] = "got" /\ ev[f] \notin {"ADDR_RESOLVED", "ROUTE_RESOLVED"} /\ cm'[f] # "got"
        /\ UNCHANGED <<net, res, cqthread, schan>>
    BY <1>1, <1>11 DEF Failed, ErrorEvents, LostEvents
  <2>2. /\ net[f] \notin {"addr", "route"} /\ app[f] # "init"
        /\ ~In(chan[f], "ADDR_RESOLVED") /\ ~In(chan[f], "ROUTE_RESOLVED")
    BY <1>1, <2>1 DEF QuietInv
  <2>3. AddrInv(f)' /\ RouteInv(f)'
    BY <1>5, <2>1, <2>2
  <2>4. Accepted(f)' => Accepted(f)
    BY <1>1, <1>5, <1>11, <2>1 DEF Failed, ErrorEvents, LostEvents
  <2>5. LinkInv(f)'
    BY <1>1, <1>6, <2>1, <2>2, <2>4
  <2> QED
    BY <1>3, <1>4, <2>3, <2>5, OneFile
<1>12. CASE AckCmEvent(f)
  <2>1. FileInv(f)'
    BY <1>1, <1>5, <1>6, <1>12 DEF AckCmEvent
  <2> QED
    BY <1>3, <1>4, <2>1, OneFile
<1> QED
  BY <1>7, <1>8, <1>9, <1>10, <1>11, <1>12

\* rdma_cm.
LEMMA NetStart ==
    ASSUME StartInv, NEW f \in Files, Resolution(f) \/ Loss(f)
    PROVE  StartInv'
<1>1. AllTypes /\ FileInv(f)
      /\ UNCHANGED <<app, file_list, cmd, cm, ev, unacked, state, sem_connect, res, cqthread, scm, unit, conns_list>>
  BY DEF StartInv, FileInv, Resolution, Resolved, Loss, appVars, cmVars, fileVars, connVars, serverVars
<1>2. PICK x \in Events : /\ chan' = [chan EXCEPT ![f] = Append(@, x)]
                          /\ x = "ADDR_RESOLVED" => net[f] = "addr"
                          /\ x = "ROUTE_RESOLVED" => net[f] = "route"
                          /\ x # "ESTABLISHED"
  BY DEF Resolution, Resolved, Loss, Events, ErrorEvents, LostEvents
<1>3. /\ chan' \in [Files -> Seq(Events)] /\ chan'[f] = Append(chan[f], x)
      /\ \A g \in Files \ {f} : chan'[g] = chan[g]
      /\ \A e : In(chan'[f], e) <=> In(chan[f], e) \/ x = e
  BY <1>1, <1>2, EventAdded
<1>4. schan' = schan \/ schan' = Append(schan, <<"DISCONNECTED", f>>)
  BY DEF Resolution, Resolved, Loss, serverVars
<1>5. /\ net' = net \/ net' = [net EXCEPT ![f] = IF net[f] \in {"addr", "route"} THEN "idle" ELSE "down"]
      /\ net[f] \in {"addr", "route"} => net'[f] = "idle"
      /\ net[f] \in {"addr", "route", "connect", "up"}
  BY <1>1 DEF Resolution, Resolved, Loss, AllTypes, TypeOK
<1>6. AllTypes'
  <2>1. schan' \in Seq(ServerEvents)
    <3>1. schan \in Seq(ServerEvents) /\ <<"DISCONNECTED", f>> \in ServerEvents
      BY <1>1 DEF AllTypes, ServerEvents
    <3>2. Append(schan, <<"DISCONNECTED", f>>) \in Seq(ServerEvents)
      BY <3>1, AppendType
    <3> QED
      BY <1>4, <3>1, <3>2, Zenon
  <2>2. net' \in [Files -> {"idle", "addr", "route", "connect", "up", "down"}]
    <3>1. \E to \in {"idle", "down"} : net' = net \/ net' = [net EXCEPT ![f] = to]
      BY <1>5
    <3> QED
      BY <1>1, <3>1 DEF AllTypes, TypeOK
  <2> QED
    BY <1>1, <1>3, <2>1, <2>2 DEF AllTypes, TypeOK
<1>7. ASSUME NEW g \in Files PROVE NoRequest(g)
  <2>1. \/ schan' = schan
        \/ \E y \in ServerEvents : y # <<"CONNECT_REQUEST", g>> /\ schan' = Append(schan, y)
    BY <1>4 DEF ServerEvents
  <2> QED
    BY <1>1, <2>1, ServerChannel DEF StartInv
<1>8. ASSUME NEW g \in Files \ {f} PROVE SameFile(g)
  BY <1>1, <1>3, <1>5 DEF SameFile, AllTypes, TypeOK
<1>9. Append(<<>>, x) = <<x>>
  OBVIOUS
<1>10. net[f] # "addr" => ~In(chan'[f], "ADDR_RESOLVED")
  BY <1>1, <1>2, <1>3, <1>5 DEF FileInv, AddrInv
<1>11. net[f] # "route" /\ cm[f] # "dead" => ~In(chan'[f], "ROUTE_RESOLVED")
  BY <1>1, <1>2, <1>3, <1>5 DEF FileInv, RouteInv
<1>12. AddrInv(f)'
  <2>1. CASE net[f] = "addr"
    <3>1. /\ Fresh(f) /\ chan[f] = <<>> /\ cm[f] \in {"get", "failed"} /\ net'[f] = "idle" /\ chan'[f] = <<x>>
      BY <1>1, <1>3, <1>5, <1>9, <2>1 DEF FileInv, AddrInv
    <3>2. Fresh(f)'
      BY <1>1, <1>7, <3>1 DEF Fresh, NoRequest
    <3>3. In(chan'[f], "ADDR_RESOLVED") => x = "ADDR_RESOLVED"
      BY <3>1, InOne
    <3> QED
      BY <1>1, <3>1, <3>2, <3>3 DEF AddrInv, Handles
  <2>2. CASE net[f] # "addr"
    <3>1. net'[f] # "addr" /\ ~Handles(f, "ADDR_RESOLVED")
      BY <1>1, <1>5, <2>2 DEF FileInv, AddrInv, AllTypes, TypeOK
    <3> QED
      BY <1>1, <1>10, <2>2, <3>1 DEF AddrInv, Handles
  <2> QED
    BY <2>1, <2>2
<1>13. RouteInv(f)'
  <2>1. CASE net[f] = "route" /\ cm[f] # "dead"
    <3>1. /\ Fresh(f) /\ chan[f] = <<>> /\ cm[f] \in {"get", "ack", "failed"} /\ net'[f] = "idle" /\ chan'[f] = <<x>>
          /\ res[f] = Setup /\ cqthread[f] = "running"
      BY <1>1, <1>3, <1>5, <1>9, <2>1 DEF FileInv, RouteInv
    <3>2. Fresh(f)'
      BY <1>1, <1>7, <3>1 DEF Fresh, NoRequest
    <3>3. In(chan'[f], "ROUTE_RESOLVED") => x = "ROUTE_RESOLVED"
      BY <3>1, InOne
    <3> QED
      BY <1>1, <3>1, <3>2, <3>3 DEF RouteInv, Handles
  <2>2. CASE cm[f] = "dead"
    BY <1>1, <2>2 DEF RouteInv, Handles
  <2>3. CASE net[f] # "route" /\ cm[f] # "dead"
    <3>1. net'[f] # "route" /\ ~Handles(f, "ROUTE_RESOLVED")
      BY <1>1, <1>5, <2>3 DEF FileInv, RouteInv, AllTypes, TypeOK
    <3> QED
      BY <1>1, <1>11, <2>3, <3>1 DEF RouteInv, Handles
  <2> QED
    BY <2>1, <2>2, <2>3
<1>14. LinkInv(f)'
  <2>1. Accepted(f)' => Accepted(f)
    BY <1>1, <1>2, <1>3, <1>5 DEF Accepted, Handles, AllTypes, TypeOK
  <2>2. /\ net'[f] = "connect" => net[f] = "connect"
        /\ net[f] # "down" /\ app[f] # "init" /\ app[f] \notin Disconnected
    BY <1>1, <1>5 DEF FileInv, LinkInv, Disconnected, AllTypes, TypeOK
  <2> QED
    BY <1>1, <1>7, <2>1, <2>2 DEF FileInv, LinkInv, Disconnected, NoRequest
<1> QED
  BY <1>6, <1>7, <1>8, <1>12, <1>13, <1>14, OneFile DEF FileInv

\* The server's cm_thread answers the request of f.
LEMMA RequestStart ==
    ASSUME StartInv, NEW f \in Files, ConnectRequest(f)
    PROVE  StartInv'
<1>1. /\ AllTypes /\ FileInv(f) /\ schan # <<>> /\ schan' = Tail(schan) /\ Head(schan) = <<"CONNECT_REQUEST", f>>
      /\ UNCHANGED <<app, file_list, cmd, cm, ev, unacked, state, sem_connect, res, cqthread, scm>>
  BY DEF StartInv, FileInv, ConnectRequest, Accept, Reject, Answer, appVars, cmVars, fileVars, connVars
<1>2. Requested(f) /\ ~Requested(f)'
  BY <1>1, InTail, OnceTail DEF AllTypes, FileInv, LinkInv, Disconnected, Requested
<1>3. ~Accepted(f)
  BY <1>1, <1>2 DEF FileInv, LinkInv, Disconnected
<1>4. PICK x \in {"ESTABLISHED", "REJECTED"} :
          /\ net[f] # "connect" => UNCHANGED <<chan, net>>
          /\ net[f] = "connect" => /\ chan' = [chan EXCEPT ![f] = Append(@, x)]
                                   /\ net' = [net EXCEPT ![f] = IF x = "ESTABLISHED" THEN "up" ELSE "down"]
          /\ x = "ESTABLISHED" => unit' = [unit EXCEPT ![f] = Ready]
  BY DEF ConnectRequest, Accept, Reject, Answer
<1>5. x \in Events
  BY DEF Events, ErrorEvents
<1>6. /\ chan' \in [Files -> Seq(Events)] /\ \A g \in Files \ {f} : chan'[g] = chan[g]
      /\ \A e : In(chan'[f], e) => In(chan[f], e) \/ x = e
  <2>1. CASE net[f] = "connect"
    BY <1>1, <1>4, <1>5, <2>1, EventAdded
  <2>2. CASE net[f] # "connect"
    BY <1>1, <1>4, <2>2 DEF AllTypes
  <2> QED
    BY <2>1, <2>2
<1>7. /\ unit' \in [Files -> [mem : {"none", "live", "freed"}, thread : BOOLEAN, recv : 0 .. 1]]
      /\ \A g \in Files \ {f} : unit'[g] = unit[g]
  <2>1. PICK u \in [mem : {"none", "live", "freed"}, thread : BOOLEAN, recv : 0 .. 1] :
            unit' = unit \/ unit' = [unit EXCEPT ![f] = u]
    <3>1. Ready \in [mem : {"none", "live", "freed"}, thread : BOOLEAN, recv : 0 .. 1]
      BY DEF Ready
    <3>2. [mem |-> "freed", thread |-> TRUE, recv |-> 0]
              \in [mem : {"none", "live", "freed"}, thread : BOOLEAN, recv : 0 .. 1]
      OBVIOUS
    <3>3. \A n \in 0 .. 1 : [Ready EXCEPT !.recv = n]
              \in [mem : {"none", "live", "freed"}, thread : BOOLEAN, recv : 0 .. 1]
      BY DEF Ready
    <3> QED
      BY <3>1, <3>2, <3>3 DEF ConnectRequest
  <2>2. unit \in [Files -> [mem : {"none", "live", "freed"}, thread : BOOLEAN, recv : 0 .. 1]]
    BY <1>1 DEF AllTypes, TypeOK
  <2> QED
    BY <2>1, <2>2
<1>8. AllTypes'
  <2>1. Tail(schan) \in Seq(ServerEvents)
    BY <1>1, HeadTailProperties DEF AllTypes
  <2>2. net' \in [Files -> {"idle", "addr", "route", "connect", "up", "down"}]
    <3>1. net' = net \/ \E to \in {"up", "down"} : net' = [net EXCEPT ![f] = to]
      BY <1>4
    <3> QED
      BY <1>1, <3>1 DEF AllTypes, TypeOK
  <2>3. conns_list' \subseteq Files
    BY <1>1 DEF AllTypes, TypeOK, ConnectRequest, Accept, Reject
  <2> QED
    BY <1>1, <1>6, <1>7, <2>1, <2>2, <2>3 DEF AllTypes, TypeOK
<1>9. ASSUME NEW g \in Files PROVE NoRequest(g)
  BY <1>1, ServerChannel DEF StartInv
<1>10. ASSUME NEW g \in Files \ {f} PROVE SameFile(g)
  BY <1>1, <1>4, <1>6, <1>7 DEF SameFile, AllTypes, TypeOK
<1>11. AddrInv(f)'
  <2>1. /\ net'[f] # "addr" /\ ~Handles(f, "ADDR_RESOLVED")
        /\ ~In(chan[f], "ADDR_RESOLVED")
    BY <1>1, <1>2, <1>4 DEF FileInv, AddrInv, Fresh, AllTypes, TypeOK
  <2>2. ~In(chan'[f], "ADDR_RESOLVED")
    BY <1>6, <2>1
  <2> QED
    BY <1>1, <2>1, <2>2 DEF AddrInv, Handles
<1>12. RouteInv(f)'
  <2>1. ~Handles(f, "ROUTE_RESOLVED")
        /\ (cm[f] # "dead" => net'[f] # "route" /\ ~In(chan[f], "ROUTE_RESOLVED"))
    BY <1>1, <1>2, <1>4 DEF FileInv, RouteInv, Fresh, AllTypes, TypeOK
  <2>2. cm[f] # "dead" => ~In(chan'[f], "ROUTE_RESOLVED")
    BY <1>6, <2>1
  <2> QED
    BY <1>1, <2>1, <2>2 DEF RouteInv, Handles
<1>13. LinkInv(f)'
  <2>1. CASE net[f] = "connect"
    <3>1. app[f] # "init" /\ app[f] \notin Disconnected
          /\ res[f] = Setup \cup {"qp"} /\ cqthread[f] = "running"
      BY <1>1, <2>1 DEF FileInv, LinkInv, Disconnected
    <3>2. net'[f] = IF x = "ESTABLISHED" THEN "up" ELSE "down"
      BY <1>1, <1>4, <2>1 DEF AllTypes, TypeOK
    <3>3. Accepted(f)' => x = "ESTABLISHED"
      BY <1>1, <1>3, <1>6, <3>2 DEF Accepted, Handles
    <3>4. Accepted(f)' => unit'[f] = Ready
      BY <1>1, <1>4, <3>3 DEF AllTypes, TypeOK
    <3> QED
      BY <1>1, <1>2, <1>9, <3>1, <3>4 DEF LinkInv, Disconnected, NoRequest
  <2>2. CASE net[f] # "connect"
    <3>1. ~Accepted(f)' /\ net' = net
      BY <1>1, <1>3, <1>4, <2>2 DEF Accepted, Handles
    <3> QED
      BY <1>1, <1>2, <1>9, <2>2, <3>1 DEF FileInv, LinkInv, Disconnected, NoRequest
  <2> QED
    BY <2>1, <2>2
<1> QED
  BY <1>8, <1>9, <1>10, <1>11, <1>12, <1>13, OneFile DEF FileInv

\* Every other step of the server, and no step.
LEMMA OtherStart ==
    ASSUME StartInv, OtherEvent \/ UNCHANGED vars
    PROVE  StartInv'
<1>1. /\ AllTypes
      /\ UNCHANGED <<app, file_list, cmd, cm, ev, unacked, state, sem_connect, res, cqthread, chan, net, scm, unit, conns_list>>
      /\ schan' = schan \/ (schan # <<>> /\ schan' = Tail(schan))
  BY DEF StartInv, OtherEvent, vars, appVars, cmVars, fileVars, connVars, netVars, serverVars
<1>2. AllTypes'
  <2>1. schan' \in Seq(ServerEvents)
    BY <1>1, HeadTailProperties DEF AllTypes
  <2> QED
    BY <1>1, <2>1 DEF AllTypes, TypeOK
<1>3. ASSUME NEW g \in Files PROVE FileInv(g)'
  <2>1. NoRequest(g)
    BY <1>1, ServerChannel DEF StartInv
  <2>2. SameFile(g)
    BY <1>1 DEF SameFile
  <2> QED
    BY <2>1, <2>2, OtherFile DEF StartInv, FileInv
<1> QED
  BY <1>2, <1>3 DEF StartInv, FileInv

\* The two invariants of the connection managers hold in every reachable state.
THEOREM ConnectInvariant == Spec => [](ConnectInv /\ StartInv)
<1> DEFINE Inv == ConnectInv /\ StartInv
<1>1. Init => Inv
  BY InitInv, StartInit
<1>2. Inv /\ [Next]_vars => Inv'
  <2> SUFFICES ASSUME ConnectInv, StartInv, [Next]_vars PROVE ConnectInv' /\ StartInv'
    OBVIOUS
  <2>1. StartInv'
    BY AppStart, IdStart, GetStart, CmStart, NetStart, RequestStart, OtherStart
       DEF Next, Server, Ending, CmThread
  <2> QED
    BY <2>1, ConnectNext
<1> QED
  BY <1>1, <1>2, PTL DEF Spec

\* Type correctness: among others, a cm_thread never has two events to
\* acknowledge, and the server's never ends.
THEOREM TypeCorrect == Spec => []TypeOK
<1>1. StartInv => TypeOK
  BY DEF StartInv, AllTypes
<1> QED
  BY <1>1, ConnectInvariant, PTL

\* rpmem_route_handler builds its queue pair on a protection domain and a
\* completion queue that exist: when rpmem_addr_handler fails after it has
\* started the resolution of the route, its thread has ended before the event.
THEOREM RouteFindsSetup == Spec => []RouteUsesLive
<1>1. StartInv => RouteUsesLive
  BY DEF StartInv, RouteInv, Handles, RouteUsesLive
<1> QED
  BY <1>1, ConnectInvariant, PTL

\* When rpmem_open sends its command, the client has its queue pair and its
\* completion thread, and the server has accepted, with a receive posted.
THEOREM CommandsStartConnected == Spec => []SessionStart
<1>1. StartInv => SessionStart
  BY DEF StartInv, LinkInv, Disconnected, Accepted, SessionStart
<1> QED
  BY <1>1, ConnectInvariant, PTL
================================================================================
