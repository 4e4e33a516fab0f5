------------------------------ MODULE RpmemSession ------------------------------
(****************************************************************************)
(* The command protocol end to end: each client runs rpmem_open, rpmem_map, *)
(* rpmem_commit, rpmem_unmap and rpmem_close (rpmem.c) over its reliable    *)
(* connection, and the server's cq_thread of that connection runs the       *)
(* rpmem_handle_* functions (rpmem_server.c).  A session starts when the    *)
(* connection is established, with the server's first receive posted.       *)
(*                                                                          *)
(* A handler is one step: the only state that two cq_threads share is the   *)
(* resource pool, and RpmemPool shows that its updates are atomic.  A       *)
(* client call is one step up to each sem_wait, and one step after it.      *)
(*                                                                          *)
(* The network is a reliable connected queue pair as the verbs interface    *)
(* promises it: work requests execute in order, an executed SEND or WRITE   *)
(* may stay unacknowledged for any time, a request that finds no posted     *)
(* receive waits (rnr_retry_count = 7 is "for ever"), and a work request    *)
(* with a bad key puts the connection into the error state, after which     *)
(* posts still succeed and are flushed.  A SEND is gathered from its        *)
(* command buffer when it executes, not when it is posted.                  *)
(****************************************************************************)
EXTENDS RpmemPoolAtomic, RpmemProtocol, FiniteSets

CONSTANTS
    Lens,           \* the lengths (size_t) that the applications map
    Rkeys,          \* the keys that ibv_reg_mr hands out
    Contents,       \* what a mapped buffer can hold; 0 is the calloc'ed buffer
    FileInit,       \* what the resource's file holds
    MaxSendWr,      \* cap.max_send_wr of the client's queue pair
    MaxRecvWr,      \* cap.max_recv_wr of the client's queue pair
    Faults          \* the calls that may fail, a subset of AllFaults

AllFaults == {"client_post", "server_post", "reg_mr", "munmap", "crash"}

ASSUME SessionAssumption ==
    /\ Lens \subseteq Nat \ {0}
    /\ Rkeys \subseteq 0 .. Word - 1 /\ Rkeys # {}
    /\ 0 \in Contents /\ FileInit \in Contents
    /\ MaxSendWr \in Nat \ {0} /\ MaxRecvWr \in Nat \ {0}
    /\ Faults \subseteq AllFaults

MapAddr == 1                    \* what mmap returns; 0 is the null pointer
Addrs == {0, MapAddr}
NoMr == [conn |-> NULL, rkey |-> 0, len |-> 0]
NoMap == [len |-> 0, buf |-> 0, rkey |-> 0, remote_addr |-> 0]

VARIABLES
    \* client
    pc,             \* what the application thread of each client is doing
    sem_command,    \* priv_rfile->sem_command
    req, rsp,       \* the command buffers conn->req and conn->rsp
    rmr,            \* priv_rfile->priv_mr, with the contents of rmr->addr
    \* connection
    qp,             \* "rts", or "err" once it is broken or destroyed
    sq,             \* its work requests to be executed, oldest first
    sent,           \* those that have executed and not completed
    rq,             \* posted receives of the client
    cq,             \* the client's completions, oldest first
    \* server
    up,             \* the server process has not crashed
    srq,            \* posted receives of each unit
    scq,            \* its receive completions that wait for the cq_thread
    ssq,            \* its posted responses that have not executed
    sreq, srsp,     \* the unit's command buffers conn->req and conn->rsp
    mr,             \* the memory region res->mr, NoMr if not registered
    mem,            \* the contents of the private mapping res->addr
    file            \* the contents of the resource's file

clientVars == <<pc, sem_command, req, rmr>>
queueVars  == <<qp, sq, sent>>
unitVars   == <<srq, scq, ssq, sreq, srsp>>
storeVars  == <<up, mr, mem, file>>
serverVars == <<poolVars, unitVars, storeVars>>
vars == <<clientVars, queueVars, rsp, rq, cq, serverVars>>

Init ==
    /\ PoolInit
    /\ pc = [c \in Conns |-> "init"]
    /\ sem_command = [c \in Conns |-> 0]
    /\ req = [c \in Conns |-> ZeroCmd]
    /\ rsp = [c \in Conns |-> ZeroCmd]
    /\ rmr = [c \in Conns |-> NoMap]
    /\ qp = [c \in Conns |-> "rts"]
    /\ sq = [c \in Conns |-> <<>>]
    /\ sent = [c \in Conns |-> <<>>]
    /\ rq = [c \in Conns |-> 0]
    /\ cq = [c \in Conns |-> <<>>]
    /\ up = TRUE
    /\ srq = [c \in Conns |-> 1]
    /\ scq = [c \in Conns |-> 0]
    /\ ssq = [c \in Conns |-> 0]
    /\ sreq = [c \in Conns |-> ZeroCmd]
    /\ srsp = [c \in Conns |-> ZeroCmd]
    /\ mr = NoMr
    /\ mem = 0
    /\ file = FileInit

--------------------------------------------------------------------------------
(* The client library.                                                      *)

\* How often op occurs in s.
Count(s, op) == Cardinality({i \in DOMAIN s : s[i] = op})

\* A send queue slot is free again when the completion has been polled.
Used(c) == Len(sq[c]) + Len(sent[c]) + Len(cq[c]) - Count(cq[c], "RECV")

\* Mutant: the queues are one larger than the queue pair was asked for.
Room_larger(c, n) == \/ qp[c] = "err"
                     \/ IF n = 0 THEN rq[c] <= MaxRecvWr ELSE Used(c) + n - 1 <= MaxSendWr

\* The n-th post of a command (0 is the receive) has room in its queue.
Room(c, n) == \/ qp[c] = "err"
              \/ IF n = 0 THEN rq[c] < MaxRecvWr ELSE Used(c) + n - 1 < MaxSendWr

\* What every command does before its sem_wait: rpmem_post_recv of the
\* response buffer, which clears it first, then the work requests wrs, the
\* last of them the SEND of cmd.  The first post that fails ends the command,
\* and leaves behind what was posted before it.
Command(c, wrs, cmd, waiting, failed) ==
    \E n \in 0 .. Len(wrs) + 1 :            \* posts that succeed
        /\ \A i \in 0 .. n - 1 : Room(c, i)
        /\ n = Len(wrs) + 1 \/ ~Room(c, n) \/ "client_post" \in Faults
        /\ rsp' = [rsp EXCEPT ![c] = ZeroCmd]
        /\ req' = IF n >= Len(wrs) THEN [req EXCEPT ![c] = cmd] ELSE req
        /\ IF qp[c] = "err"
           THEN UNCHANGED <<rq, sq>>
           ELSE /\ rq' = [rq EXCEPT ![c] = @ + IF n > 0 THEN 1 ELSE 0]
                /\ sq' = [sq EXCEPT ![c] = @ \o SubSeq(wrs, 1, n - 1)]
        /\ pc' = [pc EXCEPT ![c] = IF n = Len(wrs) + 1 THEN waiting ELSE failed]
        /\ UNCHANGED <<qp, sent, cq, sem_command, serverVars>>

\* Freeing the local buffer invalidates the key of a WRITE still in the queue.
Dereg(s) == [i \in DOMAIN s |-> IF s[i] = "WRITE" THEN "STALE" ELSE s[i]]

\* sem_wait returns.
Wake(c) == /\ sem_command[c] > 0
           /\ sem_command' = [sem_command EXCEPT ![c] = @ - 1]

\* The connection breaks, or its queue pair is destroyed: what is posted on
\* either side is flushed, which wakes nobody.
Break(c) ==
    /\ qp' = [qp EXCEPT ![c] = "err"]
    /\ sq' = [sq EXCEPT ![c] = <<>>]
    /\ sent' = [sent EXCEPT ![c] = <<>>]
    /\ rq' = [rq EXCEPT ![c] = 0]
    /\ srq' = [srq EXCEPT ![c] = 0]
    /\ ssq' = [ssq EXCEPT ![c] = 0]

\* The client's state is gone, with the process or with free(priv_rfile).
Gone(c, how) ==
    /\ pc' = [pc EXCEPT ![c] = how]
    /\ sem_command' = [sem_command EXCEPT ![c] = 0]
    /\ req' = [req EXCEPT ![c] = ZeroCmd]
    /\ rsp' = [rsp EXCEPT ![c] = ZeroCmd]
    /\ rmr' = [rmr EXCEPT ![c] = NoMap]
    /\ cq' = [cq EXCEPT ![c] = <<>>]
    /\ Break(c)
    /\ UNCHANGED <<poolVars, scq, sreq, srsp, storeVars>>

Open(c) ==
    /\ pc[c] = "init"
    /\ Command(c, <<"SEND">>, pack_open_req, "open", "teardown")
    /\ UNCHANGED rmr

OpenReturns(c) ==
    /\ pc[c] = "open"
    /\ Wake(c)
    /\ pc' = [pc EXCEPT ![c] = IF unpack_open_rsp(rsp[c]) THEN "idle" ELSE "teardown"]
    /\ UNCHANGED <<req, rsp, rmr, queueVars, rq, cq, serverVars>>

\* rpmem_map, with the zeroed buffer of calloc.  (If calloc or ibv_reg_mr
\* fails the call returns NULL and nothing has changed.)
Map(c, len) ==
    /\ pc[c] = "idle"
    /\ Command(c, <<"SEND">>, pack_map_req(len), "map", "idle")
    /\ rmr' = IF pc'[c] = "map" THEN [rmr EXCEPT ![c].len = len] ELSE rmr

\* rpmem_map after the response: it posts the RDMA READ of the region.
MapRead(c) ==
    /\ pc[c] = "map"
    /\ Wake(c)
    /\ \E posted \in BOOLEAN :
        /\ posted => unpack_map_rsp(rsp[c]) /\ Room(c, 1)
        /\ ~posted => \/ ~unpack_map_rsp(rsp[c]) \/ ~Room(c, 1)
                      \/ "client_post" \in Faults
        /\ pc' = [pc EXCEPT ![c] = IF posted THEN "read" ELSE "idle"]
        /\ rmr' = [rmr EXCEPT ![c] =
               IF posted THEN [@ EXCEPT !.rkey = rsp[c].word,
                                        !.remote_addr = rsp[c].remote_addr]
               ELSE NoMap]
        /\ sq' = IF posted /\ qp[c] = "rts" THEN [sq EXCEPT ![c] = Append(@, "READ")]
                 ELSE sq
    /\ UNCHANGED <<req, rsp, qp, sent, rq, cq, serverVars>>

\* rpmem_map after the RDMA READ: whatever woke it, it returns the mapping.
MapReturns(c) ==
    /\ pc[c] = "read"
    /\ Wake(c)
    /\ pc' = [pc EXCEPT ![c] = "mapped"]
    /\ UNCHANGED <<req, rsp, rmr, queueVars, rq, cq, serverVars>>

\* The application changes its buffer.
AppWrite(c, data) ==
    /\ pc[c] = "mapped"
    /\ rmr' = [rmr EXCEPT ![c].buf = data]
    /\ UNCHANGED <<pc, sem_command, req, rsp, queueVars, rq, cq, serverVars>>

\* Mutant: the mapping's address is cleared before it is packed.
Unmap_cleared(c) ==
    /\ pc[c] = "mapped"
    /\ Command(c, <<"SEND">>, pack_unmap_req(rmr[c].len, 0), "unmap", "unmap failed")
    /\ UNCHANGED rmr

\* rpmem_unmap gives up the local mapping whether or not it was answered.
Unmap(c) ==
    /\ pc[c] = "mapped"
    /\ Command(c, <<"SEND">>, pack_unmap_req(rmr[c].len, rmr[c].remote_addr),
               "unmap", "unmap failed")
    /\ UNCHANGED rmr

\* Mutant: a failed unmap leaves the application its mapping.
UnmapReturns_kept(c) ==
    /\ \/ pc[c] = "unmap" /\ Wake(c)
       \/ pc[c] = "unmap failed" /\ UNCHANGED sem_command
    /\ IF pc[c] = "unmap" /\ unpack_int(rsp[c]) # 0
       THEN pc' = [pc EXCEPT ![c] = "mapped"] /\ UNCHANGED <<rmr, sq>>
       ELSE /\ pc' = [pc EXCEPT ![c] = "idle"]
            /\ rmr' = [rmr EXCEPT ![c] = NoMap]
            /\ sq' = [sq EXCEPT ![c] = Dereg(@)]
    /\ UNCHANGED <<req, rsp, qp, sent, rq, cq, serverVars>>

UnmapReturns(c) ==
    /\ \/ pc[c] = "unmap" /\ Wake(c)
       \/ pc[c] = "unmap failed" /\ UNCHANGED sem_command
    /\ pc' = [pc EXCEPT ![c] = "idle"]
    /\ rmr' = [rmr EXCEPT ![c] = NoMap]
    /\ sq' = [sq EXCEPT ![c] = Dereg(@)]
    /\ UNCHANGED <<req, rsp, qp, sent, rq, cq, serverVars>>

\* Mutant: the request is posted before the RDMA WRITE.
Commit_reversed(c) ==
    /\ pc[c] = "mapped"
    /\ Command(c, <<"SEND", "WRITE">>,
               pack_commit_req(rmr[c].len, rmr[c].remote_addr), "commit", "mapped")
    /\ UNCHANGED rmr

Commit(c) ==
    /\ pc[c] = "mapped"
    /\ Command(c, <<"WRITE", "SEND">>,
               pack_commit_req(rmr[c].len, rmr[c].remote_addr), "commit", "mapped")
    /\ UNCHANGED rmr

CommitReturns(c) ==
    /\ pc[c] = "commit"
    /\ Wake(c)
    /\ pc' = [pc EXCEPT ![c] = "mapped"]
    /\ UNCHANGED <<req, rsp, rmr, queueVars, rq, cq, serverVars>>

\* rpmem_close, also of a file that is still mapped.
Close(c) ==
    /\ pc[c] \in {"idle", "mapped"}
    /\ Command(c, <<"SEND">>, pack_close_req, "close", "teardown")
    /\ UNCHANGED rmr

CloseReturns(c) ==
    /\ pc[c] = "close"
    /\ Wake(c)
    /\ pc' = [pc EXCEPT ![c] = "teardown"]
    /\ UNCHANGED <<req, rsp, rmr, queueVars, rq, cq, serverVars>>

\* The end of rpmem_close, and of an rpmem_open that failed (which leaves the
\* queue pair to the end of the process; no command uses it any more).
Teardown(c) == pc[c] = "teardown" /\ Gone(c, "closed")

ClientCrash(c) ==
    /\ "crash" \in Faults
    /\ pc[c] \notin {"init", "closed", "dead"}
    /\ Gone(c, "dead")

\* Mutants: every completion posts sem_command; an RDMA READ does not.
HandleWc_all(c) ==
    /\ cq[c] # <<>>
    /\ cq' = [cq EXCEPT ![c] = Tail(@)]
    /\ sem_command' = [sem_command EXCEPT ![c] = @ + 1]
    /\ UNCHANGED <<pc, req, rsp, rmr, queueVars, rq, serverVars>>

HandleWc_noread(c) ==
    /\ cq[c] # <<>>
    /\ cq' = [cq EXCEPT ![c] = Tail(@)]
    /\ sem_command' = IF Head(cq[c]) = "RECV"
                      THEN [sem_command EXCEPT ![c] = @ + 1]
                      ELSE sem_command
    /\ UNCHANGED <<pc, req, rsp, rmr, queueVars, rq, serverVars>>

\* The client's cq_thread handles one completion (rpmem_handle_wc of rpmem.c).
HandleWc(c) ==
    /\ cq[c] # <<>>
    /\ cq' = [cq EXCEPT ![c] = Tail(@)]
    /\ sem_command' = IF Head(cq[c]) \in {"RECV", "READ"}
                      THEN [sem_command EXCEPT ![c] = @ + 1]
                      ELSE sem_command
    /\ UNCHANGED <<pc, req, rsp, rmr, queueVars, rq, serverVars>>

--------------------------------------------------------------------------------
(* The connection.                                                          *)

\* The key and the address range of an RDMA work request are good: the region
\* is registered in the protection domain of this connection and covers them.
\* The key, address and length are those of the post, and rmr still holds them:
\* the one step that changes them under a queued WRITE, UnmapReturns, makes the
\* WRITE stale, and rpmem_map waits for its READ.
KeyValid(c) ==
    /\ mr.conn = c
    /\ rmr[c].rkey = mr.rkey
    /\ rmr[c].remote_addr = MapAddr
    /\ ToInt32(rmr[c].len) \in 0 .. mr.len

\* A work request that has executed waits for its acknowledgement.
Executed(c) == /\ sq' = [sq EXCEPT ![c] = Tail(@)]
               /\ sent' = [sent EXCEPT ![c] = Append(@, Head(sq[c]))]

\* The next work request of the client executes.
Execute(c) ==
    /\ up /\ sq[c] # <<>>
    /\ LET wr == Head(sq[c])
       IN  \/ /\ wr = "SEND" /\ srq[c] > 0
              /\ srq' = [srq EXCEPT ![c] = @ - 1]
              /\ sreq' = [sreq EXCEPT ![c] = req[c]]
              /\ scq' = [scq EXCEPT ![c] = @ + 1]
              /\ Executed(c)
              /\ UNCHANGED <<rmr, mem, qp, rq, ssq>>
           \/ /\ wr = "WRITE" /\ KeyValid(c)
              /\ mem' = rmr[c].buf
              /\ Executed(c)
              /\ UNCHANGED <<rmr, srq, sreq, scq, qp, rq, ssq>>
           \/ /\ wr = "READ" /\ KeyValid(c)
              /\ rmr' = [rmr EXCEPT ![c].buf = mem]
              /\ Executed(c)
              /\ UNCHANGED <<mem, srq, sreq, scq, qp, rq, ssq>>
           \/ /\ wr # "SEND" /\ (wr = "STALE" \/ ~KeyValid(c))
              /\ Break(c)
              /\ UNCHANGED <<rmr, mem, sreq, scq>>
    /\ UNCHANGED <<pc, sem_command, req, rsp, cq, srsp, poolVars, up, mr, file>>

\* An acknowledgement reaches the client: the oldest work request completes.
Complete(c) ==
    /\ sent[c] # <<>>
    /\ cq' = [cq EXCEPT ![c] = Append(@, Head(sent[c]))]
    /\ sent' = [sent EXCEPT ![c] = Tail(@)]
    /\ UNCHANGED <<clientVars, qp, sq, rsp, rq, serverVars>>

\* The server's SEND executes: the response lands in conn->rsp.
Deliver(c) ==
    /\ ssq[c] > 0 /\ rq[c] > 0
    /\ ssq' = [ssq EXCEPT ![c] = @ - 1]
    /\ rq' = [rq EXCEPT ![c] = @ - 1]
    /\ rsp' = [rsp EXCEPT ![c] = srsp[c]]
    /\ cq' = [cq EXCEPT ![c] = Append(@, "RECV")]
    /\ UNCHANGED <<clientVars, queueVars, poolVars, srq, scq, sreq, srsp, storeVars>>

--------------------------------------------------------------------------------
(* The server: the cq_thread of a unit takes a receive completion and       *)
(* rpmem_rcv_completion dispatches on the opcode in conn->req.              *)

\* An unknown opcode would be consumed without an answer; no client sends one.
Request(c, opcode) ==
    /\ up /\ scq[c] > 0 /\ sreq[c].opcode = opcode
    /\ scq' = [scq EXCEPT ![c] = @ - 1]

\* Mutant: the receive is not posted again.
Repost_never(c, ok) ==
    /\ ok
    /\ sreq' = [sreq EXCEPT ![c] = ZeroCmd]
    /\ UNCHANGED srq

\* rpmem_post_recv of the request buffer, which clears it; ok if it succeeds.
Repost(c, ok) ==
    /\ ok \/ "server_post" \in Faults
    /\ sreq' = [sreq EXCEPT ![c] = ZeroCmd]
    /\ srq' = IF ok /\ qp[c] = "rts" THEN [srq EXCEPT ![c] = @ + 1] ELSE srq

\* Mutant: a handler that falls through sends its response twice.
Reply_twice(c, cmd) ==
    /\ srsp' = [srsp EXCEPT ![c] = cmd]
    /\ ssq' = IF qp[c] = "rts" THEN [ssq EXCEPT ![c] = @ + 2] ELSE ssq

\* pack_*_rsp into the response buffer and rpmem_post_send.
Reply(c, cmd) ==
    /\ srsp' = [srsp EXCEPT ![c] = cmd]
    /\ \/ ssq' = IF qp[c] = "rts" THEN [ssq EXCEPT ![c] = @ + 1] ELSE ssq
       \/ "server_post" \in Faults /\ UNCHANGED ssq

HandleOpen(c) ==
    /\ Request(c, RPMEM_OPEN_REQ)
    /\ \E ok \in BOOLEAN : Repost(c, ok)
    /\ Reply(c, pack_open_rsp(free_size))
    /\ UNCHANGED <<poolVars, storeVars>>

\* No new receive, and unit->res stays as it is.
HandleClose(c) ==
    /\ Request(c, RPMEM_CLOSE_REQ)
    /\ Reply(c, pack_close_rsp(0))
    /\ UNCHANGED <<poolVars, storeVars, srq, sreq>>

\* A map answered without a region: rkey and, unless it was set to NULL, addr
\* are uninitialised stack variables.
MapRefused(c, ok) ==
    /\ ~ok \/ (unit_res[c] = NULL /\ ~Suitable(unpack_int(sreq[c])))
    /\ \E rkey \in Rkeys, addr \in Addrs : Reply(c, pack_map_rsp(rkey, addr))
    /\ UNCHANGED <<poolVars, storeVars>>

\* res is NULL but unit->res is not: posix_fallocate(res->fd, ...).
MapCrash(c, ok) ==
    /\ ok /\ unit_res[c] # NULL /\ ~Suitable(unpack_int(sreq[c]))
    /\ up' = FALSE
    /\ UNCHANGED <<poolVars, mr, mem, file, ssq, srsp>>

\* The resource is mapped, privately, and registered.  A negative len passes
\* the size check and fails in mmap.
MapGranted(c, ok) ==
    LET len == unpack_int(sreq[c])
    IN  /\ ok /\ Suitable(len)
        /\ Take(c)
        /\ \E rkey \in Rkeys :
            \/ /\ len > 0
               /\ mr' = [conn |-> c, rkey |-> rkey, len |-> len]
               /\ mem' = file
               /\ Reply(c, pack_map_rsp(rkey, MapAddr))
            \/ /\ len <= 0 \/ "reg_mr" \in Faults
               /\ mr' = NoMr
               /\ Reply(c, pack_map_rsp(rkey, 0))
               /\ UNCHANGED mem
        /\ UNCHANGED <<up, file>>

HandleMap(c) ==
    /\ Request(c, RPMEM_MAP_REQ)
    /\ \E ok \in BOOLEAN :
        /\ Repost(c, ok)
        /\ MapRefused(c, ok) \/ MapCrash(c, ok) \/ MapGranted(c, ok)

\* rpmem_handle_unmap deregisters the region, then gives the resource back if
\* munmap succeeds.  Without a region it follows a null pointer.  The address
\* and the length it unmaps are the request's, and those the region's
\* (ReqMatches).
HandleUnmap(c) ==
    /\ Request(c, RPMEM_UNMAP_REQ)
    /\ \E ok \in BOOLEAN :
        /\ Repost(c, ok)
        /\ \/ /\ ~ok
              /\ Reply(c, pack_unmap_rsp(-1))
              /\ UNCHANGED <<poolVars, storeVars>>
           \/ /\ ok /\ (unit_res[c] = NULL \/ mr = NoMr)
              /\ up' = FALSE
              /\ UNCHANGED <<poolVars, mr, mem, file, ssq, srsp>>
           \/ /\ ok /\ unit_res[c] # NULL /\ mr # NoMr
              /\ mr' = NoMr
              /\ \/ Put(c) /\ Reply(c, pack_unmap_rsp(0)) /\ mem' = 0
                 \/ /\ "munmap" \in Faults
                    /\ Reply(c, pack_unmap_rsp(-1))
                    /\ UNCHANGED <<poolVars, mem>>
              /\ UNCHANGED <<up, file>>

\* msync fails if nothing is mapped at the address.  The mapping is private,
\* so that it leaves the file as it is.
HandleCommit(c) ==
    /\ Request(c, RPMEM_COMMIT_REQ)
    /\ \E ok \in BOOLEAN :
        /\ Repost(c, ok)
        /\ Reply(c, pack_commit_rsp(
               IF ok /\ mr # NoMr /\ sreq[c].remote_addr = MapAddr THEN 0 ELSE -1))
    /\ UNCHANGED <<poolVars, storeVars>>

--------------------------------------------------------------------------------
Server(c) == \/ HandleOpen(c) \/ HandleClose(c) \/ HandleMap(c)
             \/ HandleUnmap(c) \/ HandleCommit(c)

App(c) == \/ Open(c) \/ Unmap(c) \/ Commit(c) \/ Close(c)
          \/ \E len \in Lens : Map(c, len)
          \/ \E data \in Contents : AppWrite(c, data)

Return(c) == \/ OpenReturns(c) \/ MapRead(c) \/ MapReturns(c) \/ UnmapReturns(c)
             \/ CommitReturns(c) \/ CloseReturns(c) \/ Teardown(c)

Network(c) == Execute(c) \/ Complete(c) \/ Deliver(c)

ServerNext(c) == Server(c) /\ UNCHANGED <<clientVars, queueVars, rsp, rq, cq>>

Next == \E c \in Conns : \/ App(c) \/ Return(c) \/ ClientCrash(c) \/ HandleWc(c)
                         \/ Network(c) \/ ServerNext(c)

Spec == Init /\ [][Next]_vars

\* The threads run and the network delivers; the applications may stop
\* issuing commands.
FairSpec == /\ Spec
            /\ \A c \in Conns : /\ WF_vars(Return(c)) /\ WF_vars(HandleWc(c))
                                /\ WF_vars(Execute(c)) /\ WF_vars(Complete(c))
                                /\ WF_vars(Deliver(c)) /\ WF_vars(ServerNext(c))

--------------------------------------------------------------------------------
(* Properties.                                                              *)

Waiting == {"open", "map", "read", "unmap", "commit", "close"}
Calls == Waiting \cup {"init", "idle", "mapped", "unmap failed", "teardown",
                       "closed", "dead"}
Commands == [opcode : Opcode, word : 0 .. Word - 1, remote_addr : Addrs]
Ops == {"SEND", "WRITE", "READ", "STALE"}

\* The type of every variable.  The queues stay within the limits the queue
\* pair was created with, and the completion queue within its entries.
TypeOK ==
    /\ pc \in [Conns -> Calls]
    /\ sem_command \in [Conns -> Nat]
    /\ req \in [Conns -> Commands] /\ rsp \in [Conns -> Commands]
    /\ rmr \in [Conns -> [len : Lens \cup {0}, buf : Contents,
                          rkey : 0 .. Word - 1, remote_addr : Addrs]]
    /\ qp \in [Conns -> {"rts", "err"}]
    /\ sq \in [Conns -> Seq(Ops)] /\ sent \in [Conns -> Seq(Ops)]
    /\ rq \in [Conns -> 0 .. MaxRecvWr]
    /\ cq \in [Conns -> Seq(Ops \cup {"RECV"})]
    /\ \A c \in Conns : Used(c) <= MaxSendWr /\ Len(cq[c]) <= MaxSendWr + MaxRecvWr
    /\ up \in BOOLEAN
    /\ srq \in [Conns -> Nat] /\ scq \in [Conns -> Nat] /\ ssq \in [Conns -> Nat]
    /\ sreq \in [Conns -> Commands] /\ srsp \in [Conns -> Commands]
    /\ mr \in [conn : Conns \cup {NULL}, rkey : 0 .. Word - 1, len : Nat]
    /\ mem \in Contents /\ file \in Contents

\* What the client waits for, by the call it is in.
Expected(call) == CASE call = "open"   -> RPMEM_OPEN_RSP
                    [] call = "map"    -> RPMEM_MAP_RSP
                    [] call = "unmap"  -> RPMEM_UNMAP_RSP
                    [] call = "commit" -> RPMEM_COMMIT_RSP
                    [] call = "close"  -> RPMEM_CLOSE_RSP

\* A command that wakes from sem_wait finds its own response in conn->rsp:
\* no unpack_*_rsp ever returns -EINVAL, although the receive buffer is
\* shared by all commands and sem_command by the responses and the READs.
RspMatches == \A c \in Conns :
    pc[c] \in Waiting \ {"read"} /\ sem_command[c] > 0 =>
        rsp[c].opcode = Expected(pc[c])

\* Everything that will still wake the client: a completion that posts
\* sem_command, and what leads to one.
Pending(c) == sem_command[c] + Count(cq[c], "RECV") + Count(cq[c], "READ")
              + ssq[c] + scq[c] + Count(sent[c], "READ")
              + Count(sq[c], "SEND") + Count(sq[c], "READ")

\* A client that is in no call has no wakeup due, and one that waits has at
\* most one: the return of one command can never be triggered by the late
\* response or RDMA READ of another, whatever failed in between.
OneWakeup == \A c \in Conns :
    pc[c] \notin {"closed", "dead"} =>
        Pending(c) <= IF pc[c] \in Waiting THEN 1 ELSE 0

\* The request that a handler is about to decode is the command its client is
\* in, and unmap and commit name the client's mapping: rpmem_post_recv, which
\* clears the buffer, and the next SEND, which overwrites it, come in time.
ReqMatches == \A c \in Conns :
    scq[c] > 0 /\ pc[c] \in Waiting =>
        /\ sreq[c].opcode = Expected(pc[c]) - 1
        /\ pc[c] = "map" => sreq[c].word = ToUint32(rmr[c].len)
        /\ pc[c] \in {"unmap", "commit"} =>
               sreq[c].word = ToUint32(rmr[c].len) /\ sreq[c].remote_addr = MapAddr

\* While an application holds a mapping (as long as the server lives), the
\* resource is in its unit and registered for it under the key and at the
\* address it was given, and the region covers the mapped length.
MappedIsBacked == \A c \in Conns :
    up /\ pc[c] \in {"mapped", "commit"} =>
        /\ unit_res[c] = Res
        /\ mr.conn = c /\ mr.rkey = rmr[c].rkey /\ rmr[c].remote_addr = MapAddr
        /\ rmr[c].len \in 1 .. mr.len

\* No two applications hold a mapping of the resource at the same time.
ExclusiveMapping == \A c, d \in Conns :
    pc[c] \in {"mapped", "commit"} /\ pc[d] \in {"mapped", "commit"} => c = d

\* A response never finds the client's receive queue empty, so the server is
\* never held up by a client that failed to post.
ResponseHasReceive == \A c \in Conns : ssq[c] <= rq[c]

\* A request never finds the server's receive queue empty.
RequestHasReceive == \A c \in Conns :
    sq[c] # <<>> /\ Head(sq[c]) = "SEND" => srq[c] > 0

\* When rpmem_commit returns 0, the server's mapping holds what the client's
\* buffer holds: the RDMA WRITE was there before the msync.
CommitVisible == [][\A c \in Conns :
    pc[c] = "commit" /\ pc'[c] = "mapped" /\ unpack_int(rsp[c]) = 0 =>
        mem = rmr[c].buf]_vars

\* rpmem_map returns a buffer that holds what the server's mapping holds.
MapReadsRegion == [][\A c \in Conns :
    pc[c] = "read" /\ pc'[c] = "mapped" => rmr[c].buf = mem]_vars

\* While an application holds a mapping, the region changes only to what that
\* application has in its buffer: no other connection's command, and no late
\* RDMA WRITE, reaches it.
Isolation == [][\A c \in Conns :
    pc[c] \in {"mapped", "commit"} /\ mem' # mem => mem' = rmr[c].buf]_vars

\* The application has a mapping: from the return of rpmem_map to that of
\* rpmem_unmap or rpmem_close.
HasMapping(c) == rmr[c].len # 0 /\ pc[c] \notin {"map", "read"}

\* How the session shows the lease: the unit that has the resource, what each
\* application holds, and the buffers of the mappings.
LeaseOf(c) == IF ~HasMapping(c) THEN "none"
              ELSE IF pc[c] \in {"mapped", "commit"} THEN "held" ELSE "ending"
ViewOf(c) == IF HasMapping(c) THEN rmr[c].buf ELSE 0

leaseOwner == IF \E c \in Conns : unit_res[c] = Res
              THEN CHOOSE c \in Conns : unit_res[c] = Res ELSE NULL
leaseState == [c \in Conns |-> LeaseOf(c)]
leaseView == [c \in Conns |-> ViewOf(c)]

Lease == INSTANCE RpmemLease WITH
    owner <- leaseOwner, lease <- leaseState, view <- leaseView, region <- mem

\* The commands, queues, keys and handlers implement the lease of the region:
\* every step of the session is a step of RpmemLease or leaves it alone.
ImplementsLease == Lease!LeaseSpec

\* Every command returns, unless the connection breaks or the server dies.
CommandReturns == \A c \in Conns :
    pc[c] \in Waiting ~> pc[c] \notin Waiting \/ qp[c] = "err" \/ ~up

--------------------------------------------------------------------------------
(* What the code's comments, messages and callers expect, and the code does *)
(* not do.                                                                  *)

\* rpmem_map returns on a healthy server: the callers in simple_map_unmap.c
\* and simple_commit.c handle the NULL of a map that was not granted.
MapReturnsEventually == \A c \in Conns :
    pc[c] \in {"map", "read"} ~> pc[c] \notin {"map", "read"} \/ ~up

\* When rpmem_commit returns 0, the remote file holds the committed data.
CommitDurable == [][\A c \in Conns :
    pc[c] = "commit" /\ pc'[c] = "mapped" /\ unpack_int(rsp[c]) = 0 =>
        file' = rmr[c].buf]_vars

\* A map request that cannot be served is answered, it does not end the server.
ServerUp == up
================================================================================
