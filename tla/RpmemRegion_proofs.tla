--------------------------- MODULE RpmemRegion_proofs ---------------------------
(****************************************************************************)
(* What an application may rely on while it holds a mapping: the region is  *)
(* registered for its connection under the key it was given, nobody else    *)
(* holds or writes it, rpmem_map returns what it holds, and rpmem_commit    *)
(* returns when the buffer has reached it.                                  *)
(*                                                                          *)
(* The proofs rest on SessionInv of RpmemSession_proofs: that a client      *)
(* wakes up only for what it waits for is what makes "the READ has          *)
(* executed" and "the WRITE has executed" follow from sem_wait returning.   *)
(****************************************************************************)
EXTENDS RpmemSession_proofs

\* A registered region belongs to the unit that has the resource.
RegionPart == mr = NoMr \/ (mr.conn \in Conns /\ unit_res[mr.conn] = Res /\ mr.len > 0)

\* The RDMA READ of rpmem_map has executed.
ReadDone(c) == sem_command[c] > 0 \/ Count(cq[c], "READ") > 0 \/ Count(sent[c], "READ") > 0

\* The key of a mapping is good, and the READ has filled its buffer.
BackInv(c) ==
    /\ pc[c] \in {"mapped", "commit"} => KeyValid(c)
    /\ pc[c] = "read" /\ ReadDone(c) => KeyValid(c) /\ rmr[c].buf = mem
    /\ pc[c] \in {"unmap", "unmap failed"} => rmr[c].remote_addr = MapAddr

\* When priv_mr is a mapping, and when it is not.
LenInv(c) ==
    /\ pc[c] \in {"map", "read", "mapped", "commit", "unmap", "unmap failed"} => rmr[c].len # 0
    /\ pc[c] \in {"init", "open", "idle", "closed", "dead"} => rmr[c].len = 0

\* No RDMA WRITE with a valid local key waits in s.
NoWrite(s) == \A i \in DOMAIN s : s[i] # "WRITE"

\* RDMA WRITEs are under way only while their buffer exists.
WriteInv(c) ==
    \/ NoWrite(sq[c])
    \/ /\ pc[c] \in {"mapped", "commit", "unmap", "unmap failed", "close", "teardown"}
       /\ rmr[c].len # 0

\* In a queue of rpmem_commit the request comes last, behind its WRITE.
CommitShape(s) ==
    s # <<>> => /\ s[Len(s)] = "SEND"
                /\ Len(s) > 1 => s[Len(s) - 1] = "WRITE"

\* The request has executed.
Requested(c) == sem_command[c] > 0 \/ Count(cq[c], "RECV") > 0 \/ scq[c] > 0 \/ ssq[c] > 0

\* The WRITE of a commit has executed when its request is next, or gone.
CommitInv(c) ==
    pc[c] = "commit" =>
        /\ CommitShape(sq[c])
        /\ Len(sq[c]) = 1 \/ Requested(c) => mem = rmr[c].buf

\* What the session of c says of the region.
HolderInv(c) == BackInv(c) /\ LenInv(c) /\ WriteInv(c) /\ CommitInv(c)

\* The inductive invariant of the region, relative to SessionInv.
RegionInv == RegionPart /\ \A c \in Conns : HolderInv(c)

--------------------------------------------------------------------------------
(* Lemmas about the queues.                                                 *)

\* A queue without WRITEs stays so, and deregistering the buffer makes it so.
LEMMA NoWriteKept ==
    ASSUME NEW s \in Seq(Ops)
    PROVE  /\ NoWrite(<<>>) /\ NoWrite(Dereg(s))
           /\ NoWrite(s) => \A x \in Ops \ {"WRITE"} : NoWrite(Append(s, x))
           /\ NoWrite(s) /\ s # <<>> => NoWrite(Tail(s)) /\ Head(s) # "WRITE"
<1>1. NoWrite(<<>>)
  BY DEF NoWrite
<1>2. NoWrite(Dereg(s))
  BY DEF NoWrite, Dereg
<1>3. ASSUME NoWrite(s), NEW x \in Ops \ {"WRITE"} PROVE NoWrite(Append(s, x))
  BY <1>3 DEF NoWrite
<1>4. ASSUME NoWrite(s), s # <<>> PROVE NoWrite(Tail(s)) /\ Head(s) # "WRITE"
  <2>1. /\ DOMAIN s = 1 .. Len(s) /\ DOMAIN Tail(s) = 1 .. Len(s) - 1 /\ Len(s) \in Nat \ {0}
        /\ \A i \in 1 .. Len(s) - 1 : Tail(s)[i] = s[i + 1]
        /\ Head(s) = s[1]
    BY <1>4, HeadTailProperties
  <2> QED
    BY <1>4, <2>1 DEF NoWrite
<1> QED
  BY <1>1, <1>2, <1>3, <1>4

\* The queue of a commit when it is posted, and as its work requests execute.
LEMMA CommitPosted ==
    ASSUME NEW s \in Seq(Ops)
    PROVE  LET q == Append(Append(s, "WRITE"), "SEND") IN CommitShape(q) /\ Len(q) # 1
<1> DEFINE t == Append(s, "WRITE")
           q == Append(t, "SEND")
<1>1. t \in Seq(Ops) /\ Len(t) = Len(s) + 1 /\ t[Len(t)] = "WRITE" /\ Len(s) \in Nat
  BY DEF Ops
<1> HIDE DEF t
<1>2. Len(q) = Len(t) + 1 /\ q[Len(q)] = "SEND" /\ q[Len(q) - 1] = "WRITE"
  BY <1>1 DEF Ops
<1>3. CommitShape(q) /\ Len(q) # 1
  BY <1>1, <1>2 DEF CommitShape
<1> QED
  BY <1>3 DEF t

\* The WRITE executes before the request of its commit.
LEMMA CommitExecutes ==
    ASSUME NEW s \in Seq(Ops), s # <<>>, CommitShape(s)
    PROVE  /\ CommitShape(Tail(s))
           /\ Len(Tail(s)) = 1 => Head(s) = "WRITE"
           /\ Len(s) = 1 \/ Count(Tail(s), "SEND") > 0
<1>1. /\ Len(s) \in Nat \ {0} /\ Len(Tail(s)) = Len(s) - 1 /\ Tail(s) \in Seq(Ops)
      /\ DOMAIN Tail(s) = 1 .. Len(s) - 1
      /\ \A i \in 1 .. Len(s) - 1 : Tail(s)[i] = s[i + 1]
      /\ Head(s) = s[1] /\ (Tail(s) # <<>> => Len(s) > 1)
  BY HeadTailProperties
<1>2. s[Len(s)] = "SEND" /\ (Len(s) > 1 => s[Len(s) - 1] = "WRITE")
  BY DEF CommitShape
<1>3. CommitShape(Tail(s)) /\ (Len(Tail(s)) = 1 => Head(s) = "WRITE")
  <2>1. PICK n \in Nat, t \in Seq(Ops) : n = Len(s) /\ t = Tail(s)
    BY <1>1
  <2>2. n > 1 => n - 1 \in 1 .. n - 1 /\ (n - 1) + 1 = n
    OBVIOUS
  <2>3. n > 1 => t[n - 1] = s[n]
    BY <1>1, <2>1, <2>2, Zenon
  <2>4. n > 2 => n - 2 \in 1 .. n - 1 /\ (n - 2) + 1 = n - 1
    OBVIOUS
  <2>5. n > 2 => t[n - 2] = s[n - 1]
    BY <1>1, <2>1, <2>4, Zenon
  <2>6. Len(t) = n - 1 /\ s[n] = "SEND" /\ (n > 1 => s[n - 1] = "WRITE") /\ Head(s) = s[1]
        /\ (t # <<>> => n > 1)
    BY <1>1, <1>2, <2>1, Zenon
  <2>7. t # <<>> => t[n - 1] = "SEND"
    BY <2>3, <2>6
  <2>8. n - 1 > 1 => t[n - 1 - 1] = "WRITE"
    <3>1. n - 1 > 1 => n > 2 /\ n > 1 /\ n - 1 - 1 = n - 2
      OBVIOUS
    <3> QED
      BY <2>5, <2>6, <3>1
  <2>9. CommitShape(t)
    BY <2>6, <2>7, <2>8 DEF CommitShape
  <2>10. n - 1 = 1 => Head(s) = "WRITE"
    <3>1. n - 1 = 1 => n > 1 /\ n - 1 = 1
      OBVIOUS
    <3> QED
      BY <2>6, <3>1
  <2> QED
    BY <2>1, <2>6, <2>9, <2>10, Zenon
<1>4. ASSUME Len(s) # 1 PROVE Count(Tail(s), "SEND") > 0
  <2> DEFINE I == {i \in DOMAIN Tail(s) : Tail(s)[i] = "SEND"}
  <2>1. Len(s) - 1 \in I
    BY <1>1, <1>2, <1>4
  <2>2. IsFiniteSet(I) /\ Count(Tail(s), "SEND") \in Nat
    BY <1>1, CountType
  <2> HIDE DEF I
  <2>3. Cardinality(I) # 0
    BY <2>1, <2>2, FS_EmptySet
  <2>4. Count(Tail(s), "SEND") = Cardinality(I)
    BY DEF Count, I
  <2> QED
    BY <2>2, <2>3, <2>4
<1> QED
  BY <1>3, <1>4

--------------------------------------------------------------------------------
(* One owner.                                                               *)

\* A connection whose key is good has the resource, and is the only one.
LEMMA KeyOwner ==
    ASSUME RegionInv, NEW c \in Conns, mr.conn = c
    PROVE  /\ unit_res[c] = Res /\ mr # NoMr
           /\ \A d \in Conns : KeyValid(d) => d = c
<1>1. mr # NoMr
  BY PoolAssumption DEF NoMr
<1> QED
  BY <1>1 DEF RegionInv, RegionPart, KeyValid

\* A session that a step leaves alone, which changes the region or its
\* registration only if this session does not hold it.
LEMMA HolderSame ==
    ASSUME NEW d, HolderInv(d), Same(d), (mr' = mr /\ mem' = mem) \/ ~KeyValid(d)
    PROVE  HolderInv(d)'
<1>1. /\ pc'[d] = pc[d] /\ rmr'[d] = rmr[d] /\ sq'[d] = sq[d]
      /\ ReadDone(d)' = ReadDone(d) /\ Requested(d)' = Requested(d)
  BY DEF Same, ReadDone, Requested
<1>2. LenInv(d)' /\ WriteInv(d)'
  BY <1>1 DEF HolderInv, LenInv, WriteInv
<1>3. BackInv(d)'
  BY <1>1 DEF HolderInv, BackInv, KeyValid
<1>4. CommitInv(d)'
  BY <1>1 DEF HolderInv, BackInv, CommitInv
<1> QED
  BY <1>2, <1>3, <1>4 DEF HolderInv

\* A step of one session.
LEMMA OneHolder ==
    ASSUME RegionInv, NEW c \in Conns, RegionPart', HolderInv(c)',
           \A d \in Conns \ {c} : Same(d),
           (mr' = mr /\ mem' = mem) \/ \A d \in Conns \ {c} : ~KeyValid(d)
    PROVE  RegionInv'
BY HolderSame DEF RegionInv

\* A step that leaves the server's pool and store alone.
LEMMA ClientStep ==
    ASSUME RegionInv, NEW c \in Conns, UNCHANGED <<unit_res, mr, mem>>, HolderInv(c)',
           \A d \in Conns \ {c} : Same(d)
    PROVE  RegionInv'
BY OneHolder DEF RegionInv, RegionPart

--------------------------------------------------------------------------------
(* The client's steps.                                                      *)

\* What a command changes for its own client, and that it leaves the others
\* and the server alone.
LEMMA CommandLocal ==
    ASSUME Types, NEW c \in Conns, NEW w \in WrLists, NEW cmd, NEW waiting, NEW failed,
           Command(c, w, cmd, waiting, failed)
    PROVE  /\ pc'[c] \in {waiting, failed}
           /\ sem_command'[c] = sem_command[c] /\ sent'[c] = sent[c] /\ cq'[c] = cq[c]
           /\ scq'[c] = scq[c] /\ ssq'[c] = ssq[c]
           /\ UNCHANGED <<unit_res, mr, mem>>
           /\ \A d \in Conns \ {c} : rmr'[d] = rmr[d] => Same(d)
           /\ IF w = <<"SEND">>
              THEN sq'[c] \in {sq[c], Append(sq[c], "SEND")}
              ELSE \/ qp[c] = "err" /\ sq'[c] = sq[c]
                   \/ pc'[c] = waiting /\ sq'[c] = Append(Append(sq[c], "WRITE"), "SEND")
                   \/ pc'[c] = failed /\ sq'[c] \in {sq[c], Append(sq[c], "WRITE")}
<1>1. PICK k \in 1 .. 2 : k = Len(w) /\ (k = 1 <=> w = <<"SEND">>) /\ (k = 2 <=> w = <<"WRITE", "SEND">>)
  BY DEF WrLists
<1>2. PICK n \in 0 .. k + 1 :
        /\ rsp' = [rsp EXCEPT ![c] = ZeroCmd]
        /\ req' = IF n >= k THEN [req EXCEPT ![c] = cmd] ELSE req
        /\ IF qp[c] = "err"
           THEN UNCHANGED <<rq, sq>>
           ELSE /\ rq' = [rq EXCEPT ![c] = @ + IF n > 0 THEN 1 ELSE 0]
                /\ sq' = [sq EXCEPT ![c] = @ \o SubSeq(w, 1, n - 1)]
        /\ pc' = [pc EXCEPT ![c] = IF n = k + 1 THEN waiting ELSE failed]
        /\ UNCHANGED <<qp, sent, cq, sem_command, serverVars>>
  BY <1>1, Zenon DEF Command
<1>3. /\ pc \in [Conns -> Calls] /\ sq \in [Conns -> Seq(Ops)] /\ sq[c] \in Seq(Ops)
      /\ req \in [Conns -> Commands] /\ rsp \in [Conns -> Commands]
      /\ rq \in [Conns -> 0 .. MaxRecvWr]
  BY DEF Types
<1>4. UNCHANGED <<qp, sent, cq, sem_command, srq, scq, ssq, sreq, srsp, unit_res, mr, mem>>
  BY <1>2 DEF serverVars, poolVars, unitVars, storeVars
<1>5. pc'[c] = (IF n = k + 1 THEN waiting ELSE failed) /\ \A d \in Conns \ {c} : pc'[d] = pc[d]
  BY <1>2, <1>3
<1>6. \A d \in Conns \ {c} : req'[d] = req[d] /\ rsp'[d] = rsp[d] /\ rq'[d] = rq[d] /\ sq'[d] = sq[d]
  BY <1>2, <1>3
<1>7. \A d \in Conns \ {c} : rmr'[d] = rmr[d] => Same(d)
  BY <1>4, <1>5, <1>6 DEF Same
<1>8. \/ qp[c] = "err" /\ sq'[c] = sq[c]
      \/ sq'[c] = sq[c] \o SubSeq(w, 1, n - 1)
  BY <1>2, <1>3
<1>9. CASE k = 1
  <2>1. n \in 0 .. 2 /\ w = <<"SEND">>
    BY <1>1, <1>9
  <2>2. sq[c] \o SubSeq(w, 1, n - 1) \in {sq[c], Append(sq[c], "SEND")}
    BY <1>3, <2>1, PostedSend, Zenon
  <2> QED
    BY <1>4, <1>5, <1>7, <1>8, <2>1, <2>2
<1>10. CASE k = 2
  <2>1. n \in 0 .. 3 /\ w = <<"WRITE", "SEND">> /\ w # <<"SEND">>
    BY <1>1, <1>10
  <2>2. sq[c] \o SubSeq(w, 1, n - 1) =
            IF n = 3 THEN Append(Append(sq[c], "WRITE"), "SEND")
            ELSE IF n = 2 THEN Append(sq[c], "WRITE") ELSE sq[c]
    BY <1>3, <2>1, PostedCommit, Zenon
  <2> DEFINE a == Append(sq[c], "WRITE")
             b == Append(a, "SEND")
  <2> HIDE DEF a, b
  <2>3. \/ qp[c] = "err" /\ sq'[c] = sq[c]
        \/ pc'[c] = waiting /\ sq'[c] = b
        \/ pc'[c] = failed /\ sq'[c] \in {sq[c], a}
    <3>1. sq[c] \o SubSeq(w, 1, n - 1) = IF n = 3 THEN b ELSE IF n = 2 THEN a ELSE sq[c]
      BY <2>2, Zenon DEF a, b
    <3>2. pc'[c] = IF n = 3 THEN waiting ELSE failed
      BY <1>5, <1>10
    <3> QED
      BY <1>8, <3>1, <3>2
  <2>4. pc'[c] \in {waiting, failed}
    BY <1>5
  <2> QED
    BY <1>4, <1>7, <2>1, <2>3, <2>4, Zenon DEF a, b
<1> QED
  BY <1>9, <1>10

\* The commands that only send a request.
LEMMA SendKeeps ==
    ASSUME SessionInv, RegionInv, NEW c \in Conns, NEW cmd, NEW waiting, NEW failed,
           Command(c, <<"SEND">>, cmd, waiting, failed),
           {waiting, failed} \subseteq {"open", "map", "unmap", "close", "idle", "teardown", "unmap failed"},
           \A d \in Conns \ {c} : rmr'[d] = rmr[d], LenInv(c)',
           pc'[c] \in {"unmap", "unmap failed"} => rmr'[c].remote_addr = MapAddr,
           NoWrite(sq[c]) \/ (pc'[c] \in {"unmap", "unmap failed", "close", "teardown"} /\ rmr'[c].len # 0)
    PROVE  RegionInv'
<1>1. Types /\ sq[c] \in Seq(Ops) /\ <<"SEND">> \in WrLists /\ "SEND" \in Ops \ {"WRITE"}
  BY DEF SessionInv, Types, WrLists, Ops
<1>2. /\ pc'[c] \in {waiting, failed} /\ sq'[c] \in {sq[c], Append(sq[c], "SEND")}
      /\ UNCHANGED <<unit_res, mr, mem>> /\ \A d \in Conns \ {c} : Same(d)
  BY <1>1, CommandLocal
<1>3. WriteInv(c)'
  BY <1>1, <1>2, NoWriteKept DEF WriteInv
<1>4. BackInv(c)' /\ CommitInv(c)'
  BY <1>2 DEF BackInv, CommitInv
<1> QED
  BY <1>2, <1>3, <1>4, ClientStep DEF HolderInv

\* The calls that start a command.
LEMMA CommandRegion ==
    ASSUME SessionInv, RegionInv, NEW c \in Conns,
           Open(c) \/ Unmap(c) \/ Commit(c) \/ Close(c) \/ \E len \in Lens : Map(c, len)
    PROVE  RegionInv'
<1>1. /\ Types /\ HolderInv(c) /\ sq[c] \in Seq(Ops) /\ <<"SEND">> \in WrLists
      /\ <<"WRITE", "SEND">> \in WrLists /\ <<"WRITE", "SEND">> # <<"SEND">>
      /\ rmr \in [Conns -> RmrType]
  BY DEF SessionInv, RegionInv, Types, WrLists, RmrType
<1>2. BackInv(c) /\ LenInv(c) /\ WriteInv(c)
  BY <1>1 DEF HolderInv
<1>3. ASSUME Open(c) PROVE RegionInv'
  <2>1. pc[c] = "init" /\ Command(c, <<"SEND">>, pack_open_req, "open", "teardown") /\ rmr' = rmr
    BY <1>3 DEF Open
  <2>2. pc'[c] \in {"open", "teardown"}
    BY <1>1, <2>1, CommandLocal
  <2>3. LenInv(c)' /\ NoWrite(sq[c])
    BY <1>2, <2>1, <2>2 DEF LenInv, WriteInv
  <2> QED
    BY <2>1, <2>2, <2>3, SendKeeps
<1>4. ASSUME Close(c) PROVE RegionInv'
  <2>1. pc[c] \in {"idle", "mapped"} /\ Command(c, <<"SEND">>, pack_close_req, "close", "teardown") /\ rmr' = rmr
    BY <1>4 DEF Close
  <2>2. pc'[c] \in {"close", "teardown"}
    BY <1>1, <2>1, CommandLocal
  <2>3. LenInv(c)' /\ (NoWrite(sq[c]) \/ rmr'[c].len # 0)
    BY <1>2, <2>1, <2>2 DEF LenInv, WriteInv
  <2> QED
    BY <2>1, <2>2, <2>3, SendKeeps
<1>5. ASSUME Unmap(c) PROVE RegionInv'
  <2>1. /\ pc[c] = "mapped" /\ rmr' = rmr
        /\ Command(c, <<"SEND">>, pack_unmap_req(rmr[c].len, rmr[c].remote_addr), "unmap", "unmap failed")
    BY <1>5 DEF Unmap
  <2>2. pc'[c] \in {"unmap", "unmap failed"}
    BY <1>1, <2>1, CommandLocal
  <2>3. LenInv(c)' /\ rmr'[c].len # 0 /\ rmr'[c].remote_addr = MapAddr
    BY <1>2, <2>1, <2>2 DEF LenInv, BackInv, KeyValid
  <2> QED
    BY <2>1, <2>2, <2>3, SendKeeps
<1>6. ASSUME NEW len \in Lens, Map(c, len) PROVE RegionInv'
  <2>1. /\ pc[c] = "idle" /\ Command(c, <<"SEND">>, pack_map_req(len), "map", "idle")
        /\ rmr' = IF pc'[c] = "map" THEN [rmr EXCEPT ![c].len = len] ELSE rmr
    BY <1>6 DEF Map
  <2>2. pc'[c] \in {"map", "idle"}
    BY <1>1, <2>1, CommandLocal
  <2>3. len # 0
    BY SessionAssumption
  <2>4. LenInv(c)' /\ NoWrite(sq[c]) /\ \A d \in Conns \ {c} : rmr'[d] = rmr[d]
    BY <1>1, <1>2, <2>1, <2>2, <2>3 DEF LenInv, WriteInv, RmrType
  <2> QED
    BY <2>1, <2>2, <2>4, SendKeeps
<1>7. ASSUME Commit(c) PROVE RegionInv'
  <2>1. /\ pc[c] = "mapped" /\ rmr' = rmr
        /\ Command(c, <<"WRITE", "SEND">>, pack_commit_req(rmr[c].len, rmr[c].remote_addr), "commit", "mapped")
    BY <1>7 DEF Commit
  <2>2. /\ pc'[c] \in {"commit", "mapped"}
        /\ sem_command'[c] = sem_command[c] /\ cq'[c] = cq[c] /\ scq'[c] = scq[c] /\ ssq'[c] = ssq[c]
        /\ UNCHANGED <<unit_res, mr, mem>> /\ \A d \in Conns \ {c} : Same(d)
        /\ \/ qp[c] = "err" /\ sq'[c] = sq[c]
           \/ pc'[c] = "commit" /\ sq'[c] = Append(Append(sq[c], "WRITE"), "SEND")
           \/ pc'[c] = "mapped" /\ sq'[c] \in {sq[c], Append(sq[c], "WRITE")}
    BY <1>1, <2>1, CommandLocal
  <2>3. BackInv(c)' /\ LenInv(c)' /\ WriteInv(c)'
    BY <1>2, <2>1, <2>2 DEF BackInv, LenInv, WriteInv, KeyValid
  <2>4. sem_command[c] = 0 /\ scq[c] = 0 /\ ssq[c] = 0 /\ Count(cq[c], "RECV") = 0
    BY <1>1, <2>1, Quiet DEF SessionInv, Waiting, Over
  <2>5. ~Requested(c)'
    BY <2>2, <2>4 DEF Requested
  <2>6. CommitInv(c)'
    <3>1. CASE pc'[c] = "commit" /\ qp[c] = "err"  /\ sq'[c] = sq[c]
      <4>1. sq[c] = <<>>
        BY <3>1 DEF SessionInv, LocalInv, FlushInv
      <4> QED
        BY <2>5, <3>1, <4>1 DEF CommitInv, CommitShape
    <3>2. CASE sq'[c] = Append(Append(sq[c], "WRITE"), "SEND")
      <4>1. CommitShape(sq'[c]) /\ Len(sq'[c]) # 1
        BY <1>1, <3>2, CommitPosted
      <4> QED
        BY <2>5, <4>1, Zenon DEF CommitInv
    <3>3. CASE pc'[c] = "mapped"
      BY <3>3 DEF CommitInv
    <3> QED
      BY <2>2, <3>1, <3>2, <3>3
  <2> QED
    BY <2>2, <2>3, <2>6, ClientStep DEF HolderInv
<1> QED
  BY <1>3, <1>4, <1>5, <1>6, <1>7

\* A wakeup that is there is the only one, and nothing is under way.
LEMMA Awake ==
    ASSUME SessionInv, NEW c \in Conns, sem_command[c] > 0, pc[c] \notin Over
    PROVE  sem_command[c] - 1 = 0 /\ Count(cq[c], "READ") = 0 /\ Count(sent[c], "READ") = 0
<1>1. Types /\ CountInv(c)
  BY DEF SessionInv, LocalInv
<1>2. /\ rq[c] \in Nat /\ sem_command[c] \in Nat /\ scq[c] \in Nat /\ ssq[c] \in Nat
      /\ Count(sq[c], "SEND") \in Nat /\ Count(sq[c], "READ") \in Nat
      /\ Count(sent[c], "READ") \in Nat
      /\ Count(cq[c], "RECV") \in Nat /\ Count(cq[c], "READ") \in Nat
  BY <1>1, Numbers, Zenon
<1> QED
  BY <1>1, <1>2 DEF CountInv, Balance

\* sem_wait returns, or the application writes: only its own client changes.
LEMMA ReturnSame ==
    ASSUME Types, NEW c \in Conns,
           \/ OpenReturns(c) \/ MapRead(c) \/ MapReturns(c) \/ UnmapReturns(c)
           \/ CommitReturns(c) \/ CloseReturns(c) \/ \E data \in Contents : AppWrite(c, data)
    PROVE  /\ UNCHANGED <<unit_res, mr, mem>> /\ \A d \in Conns \ {c} : Same(d)
           /\ UNCHANGED <<qp, sent, cq, scq, ssq>>
<1>1. UNCHANGED <<req, rsp, qp, sent, rq, cq, srq, scq, ssq, sreq, srsp, unit_res, mr, mem>>
  BY DEF OpenReturns, MapRead, MapReturns, UnmapReturns, CommitReturns, CloseReturns, AppWrite,
         queueVars, serverVars, poolVars, unitVars, storeVars
<1>2. /\ pc \in [Conns -> Calls] /\ sem_command \in [Conns -> Nat] /\ sq \in [Conns -> Seq(Ops)]
      /\ rmr \in [Conns -> RmrType]
  BY DEF Types, RmrType
<1>3. \A d \in Conns \ {c} : pc'[d] = pc[d]
  BY <1>2 DEF OpenReturns, MapRead, MapReturns, UnmapReturns, CommitReturns, CloseReturns, AppWrite
<1>4. \A d \in Conns \ {c} : sem_command'[d] = sem_command[d]
  BY <1>2 DEF OpenReturns, MapRead, MapReturns, UnmapReturns, CommitReturns, CloseReturns, AppWrite, Wake
<1>5. \A d \in Conns \ {c} : rmr'[d] = rmr[d]
  BY <1>2 DEF OpenReturns, MapRead, MapReturns, UnmapReturns, CommitReturns, CloseReturns, AppWrite
<1>6. \A d \in Conns \ {c} : sq'[d] = sq[d]
  BY <1>2 DEF OpenReturns, MapRead, MapReturns, UnmapReturns, CommitReturns, CloseReturns, AppWrite,
              queueVars
<1> QED
  BY <1>1, <1>3, <1>4, <1>5, <1>6 DEF Same

\* The calls that return, and the application's own writes.
LEMMA ReturnRegion ==
    ASSUME SessionInv, RegionInv, NEW c \in Conns,
           \/ OpenReturns(c) \/ MapRead(c) \/ MapReturns(c) \/ UnmapReturns(c)
           \/ CommitReturns(c) \/ CloseReturns(c) \/ \E data \in Contents : AppWrite(c, data)
    PROVE  RegionInv'
<1>1. /\ Types /\ BackInv(c) /\ LenInv(c) /\ WriteInv(c) /\ sq[c] \in Seq(Ops)
      /\ pc \in [Conns -> Calls] /\ sq \in [Conns -> Seq(Ops)] /\ rmr \in [Conns -> RmrType]
      /\ rmr[c] \in RmrType /\ sem_command \in [Conns -> Nat]
  BY DEF SessionInv, RegionInv, HolderInv, Types, RmrType
<1>2. /\ UNCHANGED <<unit_res, mr, mem>> /\ \A d \in Conns \ {c} : Same(d)
      /\ UNCHANGED <<qp, sent, cq, scq, ssq>>
  BY <1>1, ReturnSame
<1>3. SUFFICES HolderInv(c)'
  BY <1>2, ClientStep
<1>4. CASE OpenReturns(c) \/ CloseReturns(c)
  <2>1. /\ rmr' = rmr /\ sq' = sq
        /\ \/ pc[c] = "open" /\ pc'[c] \in {"idle", "teardown"}
           \/ pc[c] = "close" /\ pc'[c] = "teardown"
    BY <1>1, <1>4 DEF OpenReturns, CloseReturns, queueVars
  <2> QED
    BY <1>1, <2>1 DEF HolderInv, BackInv, LenInv, WriteInv, CommitInv
<1>5. CASE MapReturns(c) \/ CommitReturns(c)
  <2>1. /\ rmr' = rmr /\ sq' = sq /\ pc[c] \in {"read", "commit"} /\ pc'[c] = "mapped"
        /\ sem_command[c] > 0
    BY <1>1, <1>5 DEF MapReturns, CommitReturns, queueVars, Wake
  <2>2. KeyValid(c) /\ rmr[c].len # 0
    BY <1>1, <2>1 DEF BackInv, LenInv, ReadDone
  <2>3. KeyValid(c)'
    BY <1>2, <2>1, <2>2 DEF KeyValid
  <2> QED
    BY <1>1, <2>1, <2>2, <2>3 DEF HolderInv, BackInv, LenInv, WriteInv, CommitInv
<1>6. CASE MapRead(c)
  <2>1. PICK posted \in BOOLEAN :
          /\ pc' = [pc EXCEPT ![c] = IF posted THEN "read" ELSE "idle"]
          /\ rmr' = [rmr EXCEPT ![c] =
                 IF posted THEN [@ EXCEPT !.rkey = rsp[c].word, !.remote_addr = rsp[c].remote_addr]
                 ELSE NoMap]
          /\ sq' = IF posted /\ qp[c] = "rts" THEN [sq EXCEPT ![c] = Append(@, "READ")] ELSE sq
    BY <1>6 DEF MapRead
  <2>2. pc[c] = "map" /\ sem_command[c] > 0 /\ sem_command'[c] = sem_command[c] - 1
    BY <1>1, <1>6 DEF MapRead, Wake
  <2>3. NoWrite(sq[c]) /\ rmr[c].len # 0
    BY <1>1, <2>2 DEF WriteInv, LenInv
  <2>4. sq'[c] \in {sq[c], Append(sq[c], "READ")}
    BY <1>1, <2>1
  <2>5. NoWrite(sq'[c])
    BY <1>1, <2>3, <2>4, NoWriteKept DEF Ops
  <2>6. ~ReadDone(c)'
    BY <1>2, <2>2, Awake DEF ReadDone, Over
  <2>7. \/ pc'[c] = "read" /\ rmr'[c].len # 0
        \/ pc'[c] = "idle" /\ rmr'[c].len = 0
    BY <1>1, <2>1, <2>3 DEF RmrType, NoMap
  <2>8. BackInv(c)'
    BY <2>6, <2>7 DEF BackInv
  <2>9. LenInv(c)' /\ CommitInv(c)'
    BY <2>7 DEF LenInv, CommitInv
  <2>10. WriteInv(c)'
    BY <2>5 DEF WriteInv
  <2> QED
    BY <2>8, <2>9, <2>10 DEF HolderInv
<1>7. CASE UnmapReturns(c)
  <2>1. pc'[c] = "idle" /\ rmr'[c] = NoMap /\ sq'[c] = Dereg(sq[c])
    BY <1>1, <1>7 DEF UnmapReturns
  <2>2. NoWrite(sq'[c]) /\ rmr'[c].len = 0
    BY <1>1, <2>1, NoWriteKept DEF NoMap
  <2> QED
    BY <2>1, <2>2 DEF HolderInv, BackInv, LenInv, WriteInv, CommitInv
<1>8. CASE \E data \in Contents : AppWrite(c, data)
  <2>1. /\ pc[c] = "mapped" /\ pc'[c] = "mapped" /\ sq' = sq
        /\ rmr'[c].len = rmr[c].len /\ rmr'[c].rkey = rmr[c].rkey
        /\ rmr'[c].remote_addr = rmr[c].remote_addr
    BY <1>1, <1>8 DEF AppWrite, queueVars, RmrType
  <2>2. KeyValid(c)' /\ rmr'[c].len # 0
    BY <1>1, <1>2, <2>1 DEF BackInv, LenInv, KeyValid
  <2>3. BackInv(c)' /\ CommitInv(c)'
    BY <2>1, <2>2 DEF BackInv, CommitInv
  <2>4. LenInv(c)' /\ WriteInv(c)'
    BY <2>1, <2>2 DEF LenInv, WriteInv
  <2> QED
    BY <2>3, <2>4 DEF HolderInv
<1> QED
  BY <1>4, <1>5, <1>6, <1>7, <1>8

\* The client closes its file or dies.
LEMMA GoneRegion ==
    ASSUME SessionInv, RegionInv, NEW c \in Conns, NEW how \in Over, Gone(c, how)
    PROVE  RegionInv'
<1>1. Types
  BY DEF SessionInv
<1>2. UNCHANGED <<unit_res, mr, mem, scq, sreq, srsp>>
  BY DEF Gone, poolVars, storeVars
<1>3. \A d \in Conns \ {c} : Same(d)
  BY <1>1, <1>2 DEF Same, Gone, Break, Types
<1>4. pc'[c] \in Over /\ rmr'[c] = NoMap /\ sq'[c] = <<>>
  BY <1>1 DEF Gone, Break, Types
<1>5. rmr'[c].len = 0 /\ NoWrite(sq'[c])
  BY <1>4 DEF NoMap, NoWrite
<1> QED
  BY <1>2, <1>3, <1>4, <1>5, ClientStep DEF HolderInv, BackInv, LenInv, WriteInv, CommitInv, Over

--------------------------------------------------------------------------------
(* The completion thread and the network.                                   *)

\* What is under way in rpmem_map after its response, and in rpmem_commit.
LEMMA Kinds ==
    ASSUME SessionInv, NEW c \in Conns
    PROVE  /\ pc[c] = "read" => Count(cq[c], "RECV") = 0 /\ Count(sq[c], "SEND") = 0 /\ scq[c] = 0
           /\ pc[c] = "commit" => Count(cq[c], "READ") = 0 /\ Count(sq[c], "READ") = 0
<1>1. CountInv(c)
  BY DEF SessionInv, LocalInv
<1> QED
  BY <1>1, Zenon DEF CountInv, Balance, Over

\* A completion, an acknowledgement or a response moves on.
LEMMA Moves ==
    ASSUME SessionInv, RegionInv, NEW c \in Conns,
           UNCHANGED <<pc, rmr, sq, unit_res, mr, mem>>, \A d \in Conns \ {c} : Same(d),
           pc[c] = "read" /\ ReadDone(c)' => ReadDone(c),
           pc[c] = "commit" /\ Requested(c)' => Requested(c)
    PROVE  RegionInv'
<1>1. BackInv(c) /\ LenInv(c) /\ WriteInv(c) /\ CommitInv(c)
  BY DEF RegionInv, HolderInv
<1>2. LenInv(c)' /\ WriteInv(c)'
  BY <1>1 DEF LenInv, WriteInv
<1>3. BackInv(c)'
  BY <1>1 DEF BackInv, KeyValid
<1>4. CommitInv(c)'
  BY <1>1 DEF CommitInv
<1> QED
  BY <1>2, <1>3, <1>4, ClientStep DEF HolderInv

\* A completion becomes a wakeup: what was done before it stays done.
LEMMA WcRegion ==
    ASSUME SessionInv, RegionInv, NEW c \in Conns, HandleWc(c)
    PROVE  RegionInv'
<1>1. /\ Types /\ cq[c] # <<>> /\ cq \in [Conns -> Seq(Ops \cup {"RECV"})]
      /\ cq[c] \in Seq(Ops \cup {"RECV"}) /\ sem_command \in [Conns -> Nat]
  BY DEF SessionInv, Types, HandleWc
<1>2. /\ cq'[c] = Tail(cq[c]) /\ \A d \in Conns \ {c} : cq'[d] = cq[d]
      /\ UNCHANGED <<pc, req, rsp, rmr, qp, sq, sent, rq, srq, scq, ssq, sreq, srsp, unit_res, mr, mem>>
  BY <1>1 DEF HandleWc, queueVars, serverVars, unitVars, poolVars, storeVars
<1>3. /\ Head(cq[c]) \notin {"RECV", "READ"} => sem_command' = sem_command
      /\ \A d \in Conns \ {c} : sem_command'[d] = sem_command[d]
  BY <1>1 DEF HandleWc
<1>4. \A d \in Conns \ {c} : Same(d)
  BY <1>2, <1>3 DEF Same
<1>5. \A op : /\ Count(cq[c], op) \in Nat /\ Count(cq'[c], op) \in Nat
              /\ Head(cq[c]) = op => Count(cq'[c], op) = Count(cq[c], op) - 1 /\ Count(cq[c], op) > 0
              /\ Head(cq[c]) # op => Count(cq'[c], op) = Count(cq[c], op)
  <2> DEFINE S == Ops \cup {"RECV"}
  <2>1. PICK t \in Seq(S) : t = cq[c] /\ t # <<>>
    BY <1>1
  <2> HIDE DEF S
  <2>2. \A op : /\ Count(t, op) \in Nat /\ Count(Tail(t), op) \in Nat
                /\ Head(t) = op => Count(Tail(t), op) = Count(t, op) - 1 /\ Count(t, op) > 0
                /\ Head(t) # op => Count(Tail(t), op) = Count(t, op)
    BY <2>1, Taken
  <2> QED
    BY <1>2, <2>1, <2>2, Zenon
<1>6. ASSUME pc[c] = "read", ReadDone(c)' PROVE ReadDone(c)
  <2>1. Head(cq[c]) # "RECV"
    <3>1. Count(cq[c], "RECV") = 0
      BY <1>6, Kinds
    <3> QED
      BY <1>5, <3>1
  <2>2. CASE Head(cq[c]) = "READ"
    BY <1>5, <2>2 DEF ReadDone
  <2>3. CASE Head(cq[c]) # "READ"
    <3>1. sem_command' = sem_command /\ Count(cq'[c], "READ") = Count(cq[c], "READ") /\ sent' = sent
      BY <1>2, <1>3, <1>5, <2>1, <2>3
    <3> QED
      BY <1>6, <3>1 DEF ReadDone
  <2> QED
    BY <2>2, <2>3
<1>7. ASSUME pc[c] = "commit", Requested(c)' PROVE Requested(c)
  <2>1. Head(cq[c]) # "READ"
    <3>1. Count(cq[c], "READ") = 0
      BY <1>7, Kinds
    <3> QED
      BY <1>5, <3>1
  <2>2. CASE Head(cq[c]) = "RECV"
    BY <1>5, <2>2 DEF Requested
  <2>3. CASE Head(cq[c]) # "RECV"
    <3>1. sem_command' = sem_command /\ Count(cq'[c], "RECV") = Count(cq[c], "RECV")
          /\ scq' = scq /\ ssq' = ssq
      BY <1>2, <1>3, <1>5, <2>1, <2>3
    <3> QED
      BY <1>7, <3>1 DEF Requested
  <2> QED
    BY <2>2, <2>3
<1> QED
  BY <1>2, <1>4, <1>6, <1>7, Moves

\* An acknowledged work request becomes a completion.
LEMMA CompleteRegion ==
    ASSUME SessionInv, RegionInv, NEW c \in Conns, Complete(c)
    PROVE  RegionInv'
<1>1. /\ Types /\ sent[c] # <<>> /\ cq \in [Conns -> Seq(Ops \cup {"RECV"})]
      /\ cq[c] \in Seq(Ops \cup {"RECV"}) /\ sent \in [Conns -> Seq(Ops)] /\ sent[c] \in Seq(Ops)
  BY DEF SessionInv, Types, Complete
<1>2. PICK h \in Ops : h = Head(sent[c])
  BY <1>1, Taken
<1>3. /\ cq'[c] = Append(cq[c], h) /\ \A d \in Conns \ {c} : cq'[d] = cq[d]
      /\ sent'[c] = Tail(sent[c]) /\ \A d \in Conns \ {c} : sent'[d] = sent[d]
      /\ UNCHANGED <<pc, sem_command, req, rsp, rmr, qp, sq, rq, srq, scq, ssq, sreq, srsp, unit_res, mr, mem>>
  BY <1>1, <1>2 DEF Complete, clientVars, serverVars, unitVars, poolVars, storeVars
<1>4. \A d \in Conns \ {c} : Same(d)
  BY <1>3 DEF Same
<1>5. /\ h = "READ" => Count(sent[c], "READ") > 0
      /\ h # "READ" => Count(sent'[c], "READ") = Count(sent[c], "READ")
  BY <1>1, <1>2, <1>3, Taken
<1>6. \A op : h # op => Count(cq'[c], op) = Count(cq[c], op)
  <2> DEFINE S == Ops \cup {"RECV"}
  <2>1. PICK t \in Seq(S) : t = cq[c]
    BY <1>1
  <2>2. h \in S
    OBVIOUS
  <2> HIDE DEF S
  <2>3. \A op : h # op => Count(Append(t, h), op) = Count(t, op)
    BY <2>1, <2>2, Added
  <2> QED
    BY <1>3, <2>1, <2>3, Zenon
<1>7. ASSUME ReadDone(c)' PROVE ReadDone(c)
  <2>1. CASE h = "READ"
    BY <1>5, <2>1 DEF ReadDone
  <2>2. CASE h # "READ"
    <3>1. /\ Count(cq'[c], "READ") = Count(cq[c], "READ") /\ sem_command' = sem_command
          /\ Count(sent'[c], "READ") = Count(sent[c], "READ")
      BY <1>3, <1>5, <1>6, <2>2
    <3> QED
      BY <1>7, <3>1 DEF ReadDone
  <2> QED
    BY <2>1, <2>2
<1>8. ASSUME Requested(c)' PROVE Requested(c)
  <2>1. h # "RECV"
    BY DEF Ops
  <2>2. Count(cq'[c], "RECV") = Count(cq[c], "RECV")
    BY <1>6, <2>1
  <2> QED
    BY <1>3, <1>8, <2>2 DEF Requested
<1> QED
  BY <1>3, <1>4, <1>7, <1>8, Moves

\* A response becomes a completion at the client.
LEMMA DeliverRegion ==
    ASSUME SessionInv, RegionInv, NEW c \in Conns, Deliver(c)
    PROVE  RegionInv'
<1>1. /\ Types /\ ssq[c] > 0 /\ cq \in [Conns -> Seq(Ops \cup {"RECV"})]
      /\ cq[c] \in Seq(Ops \cup {"RECV"}) /\ ssq \in [Conns -> Nat]
      /\ rq \in [Conns -> 0 .. MaxRecvWr] /\ rsp \in [Conns -> Commands]
  BY DEF SessionInv, Types, Deliver
<1>2. /\ cq'[c] = Append(cq[c], "RECV")
      /\ \A d \in Conns \ {c} : cq'[d] = cq[d] /\ ssq'[d] = ssq[d] /\ rq'[d] = rq[d] /\ rsp'[d] = rsp[d]
      /\ UNCHANGED <<pc, sem_command, req, rmr, qp, sq, sent, srq, scq, sreq, srsp, unit_res, mr, mem>>
  BY <1>1 DEF Deliver, clientVars, queueVars, poolVars, storeVars
<1>3. \A d \in Conns \ {c} : Same(d)
  BY <1>2 DEF Same
<1>4. Count(cq'[c], "READ") = Count(cq[c], "READ")
  <2> DEFINE S == Ops \cup {"RECV"}
  <2>1. PICK t \in Seq(S) : t = cq[c]
    BY <1>1
  <2>2. "RECV" \in S
    OBVIOUS
  <2> HIDE DEF S
  <2>3. Count(Append(t, "RECV"), "READ") = Count(t, "READ")
    BY <2>1, <2>2, Added
  <2> QED
    BY <1>2, <2>1, <2>3, Zenon
<1>5. ReadDone(c)' => ReadDone(c)
  BY <1>2, <1>4 DEF ReadDone
<1>6. Requested(c)
  BY <1>1 DEF Requested
<1> QED
  BY <1>2, <1>3, <1>5, <1>6, Moves

\* A work request of the client executes, or breaks the connection.
LEMMA ExecuteRegion ==
    ASSUME SessionInv, RegionInv, NEW c \in Conns, Execute(c)
    PROVE  RegionInv'
<1>1. /\ Types /\ BackInv(c) /\ LenInv(c) /\ WriteInv(c) /\ CommitInv(c)
      /\ sq[c] # <<>> /\ sq \in [Conns -> Seq(Ops)] /\ sq[c] \in Seq(Ops)
      /\ sent \in [Conns -> Seq(Ops)] /\ sent[c] \in Seq(Ops)
      /\ rmr \in [Conns -> RmrType] /\ rmr[c] \in RmrType
  BY DEF SessionInv, RegionInv, HolderInv, Types, RmrType, Execute
<1>2. PICK h \in Ops : h = Head(sq[c])
  BY <1>1, Taken
<1>3. /\ UNCHANGED <<pc, sem_command, req, rsp, cq, srsp, unit_res, mr>> /\ RegionPart'
  BY DEF Execute, poolVars, RegionInv, RegionPart
<1>4. \A d \in Conns \ {c} : Same(d)
  <2>1. \A d \in Conns \ {c} : sq'[d] = sq[d] /\ sent'[d] = sent[d] /\ rmr'[d] = rmr[d]
    BY <1>1 DEF Execute, Executed, Break
  <2>2. \A d \in Conns \ {c} : qp'[d] = qp[d] /\ rq'[d] = rq[d] /\ srq'[d] = srq[d] /\ ssq'[d] = ssq[d]
    BY <1>1 DEF Execute, Break, Types
  <2>3. \A d \in Conns \ {c} : sreq'[d] = sreq[d] /\ scq'[d] = scq[d]
    BY <1>1 DEF Execute, Types
  <2> QED
    BY <1>3, <2>1, <2>2, <2>3 DEF Same
<1>5. ASSUME Executed(c) PROVE /\ sq'[c] = Tail(sq[c]) /\ sent'[c] = Append(sent[c], h)
                               /\ WriteInv(c) /\ pc' = pc /\ rmr'[c].len = rmr[c].len => WriteInv(c)'
                               /\ h # "READ" => Count(sent'[c], "READ") = Count(sent[c], "READ")
  <2>1. sq'[c] = Tail(sq[c]) /\ sent'[c] = Append(sent[c], h)
    BY <1>1, <1>2, <1>5 DEF Executed
  <2>2. NoWrite(sq[c]) => NoWrite(Tail(sq[c]))
    BY <1>1, NoWriteKept
  <2>3. h # "READ" => Count(Append(sent[c], h), "READ") = Count(sent[c], "READ")
    BY <1>1, <1>2, Added
  <2> QED
    BY <2>1, <2>2, <2>3 DEF WriteInv
<1>6. CommitShape(sq[c]) => /\ CommitShape(Tail(sq[c]))
                            /\ Len(Tail(sq[c])) = 1 => h = "WRITE"
                            /\ Len(sq[c]) = 1 \/ Count(Tail(sq[c]), "SEND") > 0
  BY <1>1, <1>2, CommitExecutes
<1>7. CASE h = "SEND" /\ Executed(c) /\ UNCHANGED <<rmr, mem, ssq>>
  <2>1. WriteInv(c)' /\ LenInv(c)' /\ sq'[c] = Tail(sq[c])
    BY <1>1, <1>3, <1>5, <1>7 DEF LenInv
  <2>2. ReadDone(c)' = ReadDone(c)
    BY <1>3, <1>5, <1>7 DEF ReadDone
  <2>3. BackInv(c)'
    BY <1>1, <1>3, <1>7, <2>2 DEF BackInv, KeyValid
  <2>4. CommitInv(c)'
    <3>1. SUFFICES ASSUME pc[c] = "commit" PROVE CommitShape(Tail(sq[c])) /\ mem = rmr[c].buf
      BY <1>3, <1>7, <2>1 DEF CommitInv
    <3>2. Count(Tail(sq[c]), "SEND") = Count(sq[c], "SEND") - 1 /\ Count(sq[c], "SEND") \in Nat
      BY <1>1, <1>2, <1>7, Taken
    <3>3. Count(sq[c], "SEND") <= 1
      <4>1. CountInv(c)
        BY DEF SessionInv, LocalInv
      <4>2. /\ rq[c] \in Nat /\ sem_command[c] \in Nat /\ scq[c] \in Nat /\ ssq[c] \in Nat
            /\ Count(sq[c], "SEND") \in Nat /\ Count(sq[c], "READ") \in Nat
            /\ Count(sent[c], "READ") \in Nat
            /\ Count(cq[c], "RECV") \in Nat /\ Count(cq[c], "READ") \in Nat
        BY <1>1, Numbers, Zenon
      <4> QED
        BY <3>1, <4>1, <4>2 DEF CountInv, Balance, Over, Waiting
    <3>4. CommitShape(sq[c]) /\ (Len(sq[c]) = 1 => mem = rmr[c].buf)
      BY <1>1, <3>1 DEF CommitInv
    <3>5. ~(Count(Tail(sq[c]), "SEND") > 0)
      BY <3>2, <3>3
    <3> QED
      BY <1>6, <3>4, <3>5
  <2>5. mr' = mr /\ mem' = mem
    BY <1>3, <1>7
  <2> QED
    BY <1>3, <1>4, <2>1, <2>3, <2>4, <2>5, OneHolder DEF HolderInv
<1>8. CASE h = "WRITE" /\ KeyValid(c) /\ mem' = rmr[c].buf /\ Executed(c) /\ UNCHANGED <<rmr, scq, ssq>>
  <2>1. WriteInv(c)' /\ LenInv(c)' /\ sq'[c] = Tail(sq[c])
    BY <1>1, <1>3, <1>5, <1>8 DEF LenInv
  <2>2. ~NoWrite(sq[c])
    BY <1>1, <1>2, <1>8, NoWriteKept
  <2>3. pc[c] # "read"
    BY <1>1, <2>2 DEF WriteInv
  <2>4. BackInv(c)'
    BY <1>1, <1>3, <1>8, <2>3 DEF BackInv, KeyValid
  <2>5. CommitInv(c)'
    BY <1>1, <1>3, <1>6, <1>8, <2>1 DEF CommitInv
  <2>6. \A d \in Conns \ {c} : ~KeyValid(d)
    BY <1>8, KeyOwner DEF KeyValid
  <2> QED
    BY <1>3, <1>4, <2>1, <2>4, <2>5, <2>6, OneHolder DEF HolderInv
<1>9. CASE /\ h = "READ" /\ KeyValid(c) /\ Executed(c)
           /\ rmr' = [rmr EXCEPT ![c].buf = mem] /\ UNCHANGED mem
  <2>1. /\ rmr'[c].len = rmr[c].len /\ rmr'[c].rkey = rmr[c].rkey
        /\ rmr'[c].remote_addr = rmr[c].remote_addr /\ rmr'[c].buf = mem
    BY <1>1, <1>9 DEF RmrType
  <2>2. WriteInv(c)' /\ LenInv(c)'
    BY <1>1, <1>3, <1>5, <1>9, <2>1 DEF LenInv
  <2>3. KeyValid(c)'
    BY <1>3, <1>9, <2>1 DEF KeyValid
  <2>4. BackInv(c)'
    BY <1>1, <1>3, <1>9, <2>1, <2>3 DEF BackInv
  <2>5. pc[c] # "commit"
    <3>1. Count(sq[c], "READ") > 0
      BY <1>1, <1>2, <1>9, Taken
    <3> QED
      BY <3>1, Kinds
  <2>6. CommitInv(c)' /\ mr' = mr /\ mem' = mem
    BY <1>3, <1>9, <2>5 DEF CommitInv
  <2> QED
    BY <1>3, <1>4, <2>2, <2>4, <2>6, OneHolder DEF HolderInv
<1>10. CASE Break(c) /\ UNCHANGED <<rmr, mem, scq>>
  <2>1. sq'[c] = <<>> /\ sent'[c] = <<>> /\ ssq'[c] = 0
    BY <1>1, <1>10 DEF Break, Types
  <2>2. Count(sent'[c], "READ") = 0
    BY <2>1, CountEmpty
  <2>3. ReadDone(c)' => ReadDone(c)
    BY <1>3, <2>2 DEF ReadDone
  <2>4. Requested(c)' => Requested(c)
    BY <1>3, <1>10, <2>1 DEF Requested
  <2>5. BackInv(c)'
    BY <1>1, <1>3, <1>10, <2>3 DEF BackInv, KeyValid
  <2>6. LenInv(c)'
    BY <1>1, <1>3, <1>10 DEF LenInv
  <2>7. WriteInv(c)'
    BY <2>1 DEF WriteInv, NoWrite
  <2>8. CommitInv(c)'
    BY <1>1, <1>3, <1>10, <2>1, <2>4 DEF CommitInv, CommitShape
  <2> QED
    BY <1>3, <1>4, <1>10, <2>5, <2>6, <2>7, <2>8, OneHolder DEF HolderInv
<1> QED
  BY <1>2, <1>7, <1>8, <1>9, <1>10 DEF Execute

--------------------------------------------------------------------------------
(* The server.                                                              *)

\* A handler changes its own unit only.
LEMMA ServerSame ==
    ASSUME Types, NEW c \in Conns, ServerNext(c)
    PROVE  /\ UNCHANGED <<pc, sem_command, req, rsp, rmr, qp, sq, sent, rq, cq>>
           /\ scq[c] > 0 /\ \A d \in Conns \ {c} : Same(d)
<1>1. UNCHANGED <<pc, sem_command, req, rsp, rmr, qp, sq, sent, rq, cq>> /\ Server(c)
  BY DEF ServerNext, clientVars, queueVars
<1>2. /\ scq \in [Conns -> Nat] /\ srq \in [Conns -> Nat] /\ ssq \in [Conns -> Nat]
      /\ sreq \in [Conns -> Commands] /\ srsp \in [Conns -> Commands]
  BY DEF Types
<1>3. scq[c] > 0 /\ \A d \in Conns \ {c} : scq'[d] = scq[d]
  BY <1>1, <1>2 DEF Server, HandleOpen, HandleClose, HandleMap, HandleUnmap, HandleCommit, Request
<1>4. \A d \in Conns \ {c} : sreq'[d] = sreq[d] /\ srq'[d] = srq[d]
  BY <1>1, <1>2 DEF Server, HandleOpen, HandleClose, HandleMap, HandleUnmap, HandleCommit, Repost
<1>5. \A d \in Conns \ {c} : srsp'[d] = srsp[d] /\ ssq'[d] = ssq[d]
  <2>1. (\E cmd : Reply(c, cmd)) \/ UNCHANGED <<ssq, srsp>>
    BY <1>1 DEF Server, HandleOpen, HandleClose, HandleMap, HandleUnmap, HandleCommit,
                MapRefused, MapCrash, MapGranted
  <2> QED
    BY <1>2, <2>1 DEF Reply
<1> QED
  BY <1>1, <1>3, <1>4, <1>5 DEF Same

\* What a handler does to the pool and the store: nothing, or it ends the
\* server; it grants the free region; it takes the region back from a client
\* that has asked for it.
Grants(c) == /\ Take(c) /\ file' = file
             /\ \/ mr' = NoMr /\ mem' = mem
                \/ mr'.conn = c /\ mr'.len > 0 /\ mem' = file

\* An unmap deregisters the region, and gives the resource back unless
\* munmap fails.
Releases(c) == /\ sreq[c].opcode = RPMEM_UNMAP_REQ /\ unit_res[c] # NULL /\ mr # NoMr /\ mr' = NoMr
               /\ \/ Put(c) /\ mem' = 0
                  \/ UNCHANGED <<unit_res, mem>>

\* A handler leaves the region alone, grants it or releases it.
LEMMA ServerEffect ==
    ASSUME Types, NEW c \in Conns, ServerNext(c)
    PROVE  UNCHANGED <<unit_res, mr, mem>> \/ Grants(c) \/ Releases(c)
<1>1. CASE HandleOpen(c) \/ HandleClose(c) \/ HandleCommit(c)
  BY <1>1 DEF HandleOpen, HandleClose, HandleCommit, poolVars, storeVars
<1>2. CASE HandleMap(c)
  <2>1. PICK ok \in BOOLEAN : MapRefused(c, ok) \/ MapCrash(c, ok) \/ MapGranted(c, ok)
    BY <1>2 DEF HandleMap
  <2>2. CASE MapGranted(c, ok)
    <3>1. PICK rkey \in Rkeys :
             /\ Take(c) /\ UNCHANGED <<up, file>>
             /\ \/ /\ unpack_int(sreq[c]) > 0 /\ mem' = file
                   /\ mr' = [conn |-> c, rkey |-> rkey, len |-> unpack_int(sreq[c])]
                \/ mr' = NoMr /\ UNCHANGED mem
      BY <2>2 DEF MapGranted
    <3> QED
      BY <3>1 DEF Grants
  <2>3. CASE MapRefused(c, ok) \/ MapCrash(c, ok)
    BY <2>3 DEF MapRefused, MapCrash, poolVars, storeVars
  <2> QED
    BY <2>1, <2>2, <2>3
<1>3. CASE HandleUnmap(c)
  BY <1>3 DEF HandleUnmap, Request, Releases, poolVars, storeVars
<1> QED
  BY <1>1, <1>2, <1>3 DEF ServerNext, Server

\* A client whose unmap request is at the server waits for it, or is gone.
LEMMA ReleaseCall ==
    ASSUME SessionInv, NEW c \in Conns, scq[c] > 0, sreq[c].opcode = RPMEM_UNMAP_REQ
    PROVE  pc[c] \in Over \cup {"unmap"}
<1>1. SUFFICES ASSUME pc[c] \notin Over PROVE pc[c] = "unmap"
  OBVIOUS
<1>2. pc[c] \in Waiting \ {"read"} /\ Expected(pc[c]) - 1 = RPMEM_UNMAP_REQ
  BY <1>1, AtServer DEF IsRequest, RequestOf
<1> QED
  BY <1>2, ExpectedIs DEF Waiting, RPMEM_UNMAP_REQ

\* The region is free before it is granted; one that is taken back was its
\* client's.
LEMMA GrantFree ==
    ASSUME SessionInv, RegionInv, NEW c \in Conns, Take(c)
    PROVE  mr = NoMr /\ \A d \in Conns : ~KeyValid(d)
<1>1. \A d \in Conns : unit_res[d] = NULL
  BY TakeEffect DEF SessionInv
<1>2. mr = NoMr
  BY <1>1, PoolAssumption DEF RegionInv, RegionPart
<1>3. mr.conn = NULL
  BY <1>2 DEF NoMr
<1> QED
  BY <1>2, <1>3, PoolAssumption DEF KeyValid

\* The region that is released is the one of the unit that asks.
LEMMA ReleaseOwner ==
    ASSUME SessionInv, RegionInv, NEW c \in Conns, Releases(c)
    PROVE  mr.conn = c /\ unit_res[c] = Res /\ \A d \in Conns \ {c} : ~KeyValid(d)
<1>1. unit_res[c] = Res /\ mr.conn \in Conns /\ unit_res[mr.conn] = Res
  BY DEF Releases, RegionInv, RegionPart, SessionInv, PoolPart
<1>2. mr.conn = c
  BY <1>1 DEF SessionInv, PoolPart
<1> QED
  BY <1>1, <1>2 DEF KeyValid

\* The handlers: while a client waits for its map or unmap it holds nothing
\* that the handler could take away.
LEMMA ServerRegion ==
    ASSUME SessionInv, RegionInv, NEW c \in Conns, ServerNext(c)
    PROVE  RegionInv'
<1>1. /\ Types /\ PoolPart /\ BackInv(c) /\ LenInv(c) /\ WriteInv(c) /\ CommitInv(c)
  BY DEF SessionInv, RegionInv, HolderInv
<1>2. /\ UNCHANGED <<pc, sem_command, req, rsp, rmr, qp, sq, sent, rq, cq>>
      /\ scq[c] > 0 /\ \A d \in Conns \ {c} : Same(d)
  BY <1>1, ServerSame
<1>3. LenInv(c)' /\ WriteInv(c)' /\ ReadDone(c)' = ReadDone(c) /\ Requested(c)
  BY <1>1, <1>2 DEF LenInv, WriteInv, ReadDone, Requested
<1>4. CASE UNCHANGED <<unit_res, mr, mem>>
  BY <1>2, <1>3, <1>4, Moves
<1>5. CASE Grants(c)
  <2>1. mr = NoMr /\ \A d \in Conns : ~KeyValid(d)
    BY <1>5, GrantFree DEF Grants
  <2>2. BackInv(c)' /\ CommitInv(c)'
    BY <1>1, <1>2, <1>3, <2>1 DEF BackInv, CommitInv
  <2>3. unit_res'[c] = Res
    BY <1>1, <1>5, TakeEffect DEF Grants
  <2>4. RegionPart'
    BY <1>5, <2>3 DEF Grants, RegionPart
  <2> QED
    BY <1>2, <1>3, <2>1, <2>2, <2>4, OneHolder DEF HolderInv
<1>6. CASE Releases(c)
  <2>1. pc[c] \in Over \cup {"unmap"}
    BY <1>2, <1>6, ReleaseCall DEF Releases
  <2>2. BackInv(c)' /\ CommitInv(c)'
    BY <1>1, <1>2, <2>1 DEF BackInv, CommitInv, Over
  <2>3. \A d \in Conns \ {c} : ~KeyValid(d)
    BY <1>6, ReleaseOwner
  <2>4. RegionPart'
    BY <1>6 DEF Releases, RegionPart
  <2> QED
    BY <1>2, <1>3, <2>2, <2>3, <2>4, OneHolder DEF HolderInv
<1> QED
  BY <1>1, <1>4, <1>5, <1>6, ServerEffect

--------------------------------------------------------------------------------
(* The inductive invariant and what follows from it.                        *)

\* At the start nothing is mapped.
LEMMA RegionInit == ASSUME Init PROVE RegionInv
<1>1. RegionPart
  BY DEF Init, RegionPart
<1>2. ASSUME NEW c \in Conns PROVE HolderInv(c)
  <2>1. pc[c] = "init" /\ rmr[c] = NoMap /\ sq[c] = <<>>
    BY DEF Init
  <2>2. rmr[c].len = 0 /\ NoWrite(sq[c])
    BY <2>1 DEF NoMap, NoWrite
  <2> QED
    BY <2>1, <2>2 DEF HolderInv, BackInv, LenInv, WriteInv, CommitInv
<1> QED
  BY <1>1, <1>2 DEF RegionInv

\* Every step of the clients, the network and the server keeps the invariant.
LEMMA RegionNext == ASSUME SessionInv, RegionInv, [Next]_vars PROVE RegionInv'
<1>1. ASSUME NEW c \in Conns, App(c) PROVE RegionInv'
  BY <1>1, CommandRegion, ReturnRegion DEF App
<1>2. ASSUME NEW c \in Conns, Return(c) PROVE RegionInv'
  <2>1. CASE Teardown(c)
    BY <2>1, GoneRegion DEF Teardown, Over
  <2> QED
    BY <1>2, <2>1, ReturnRegion DEF Return
<1>3. ASSUME NEW c \in Conns, ClientCrash(c) PROVE RegionInv'
  BY <1>3, GoneRegion DEF ClientCrash, Over
<1>4. ASSUME NEW c \in Conns, Network(c) PROVE RegionInv'
  BY <1>4, ExecuteRegion, CompleteRegion, DeliverRegion DEF Network
<1>5. CASE Next
  BY <1>1, <1>2, <1>3, <1>4, <1>5, WcRegion, ServerRegion DEF Next
<1>6. CASE UNCHANGED vars
  <2>1. RegionPart' /\ mr' = mr /\ mem' = mem
    BY <1>6 DEF RegionInv, RegionPart, vars, serverVars, poolVars, storeVars
  <2>2. ASSUME NEW c \in Conns PROVE HolderInv(c)'
    <3>1. Same(c) /\ HolderInv(c)
      BY <1>6 DEF Same, RegionInv, vars, clientVars, queueVars, serverVars, unitVars
    <3> QED
      BY <2>1, <3>1, HolderSame
  <2> QED
    BY <2>1, <2>2 DEF RegionInv
<1> QED
  BY <1>5, <1>6

\* The two invariants together hold in every reachable state.
THEOREM RegionInvariant == Spec => [](SessionInv /\ RegionInv)
<1> DEFINE Inv == SessionInv /\ RegionInv
<1>1. Init => Inv
  BY SessionInit, RegionInit
<1>2. Inv /\ [Next]_vars => Inv'
  BY SessionNext, RegionNext
<1> QED
  BY <1>1, <1>2, PTL DEF Spec

\* A length that the int of the server can hold is the length that was mapped.
LEMMA LengthKept ==
    ASSUME NEW n \in 1 .. Word - 1, NEW m \in Nat, ToInt32(n) \in 0 .. m
    PROVE  n \in 1 .. m
<1>1. n % Word = n
  BY WordAssumption
<1>2. ToInt32(n) = IF n < Word \div 2 THEN n ELSE n - Word
  BY <1>1, Zenon DEF ToInt32
<1>3. n - Word < 0
  BY WordAssumption
<1> QED
  BY <1>2, <1>3, WordAssumption

\* While an application holds a mapping of less than 2^32 bytes, the resource is
\* in its unit and registered for it, and the registration covers the mapping.
THEOREM MappingBacked ==
    ASSUME Lens \subseteq 1 .. Word - 1
    PROVE  Spec => []MappedIsBacked
<1>1. SessionInv /\ RegionInv => MappedIsBacked
  <2> SUFFICES ASSUME SessionInv, RegionInv, NEW c \in Conns, pc[c] \in {"mapped", "commit"}
               PROVE  /\ unit_res[c] = Res
                      /\ mr.conn = c /\ mr.rkey = rmr[c].rkey /\ rmr[c].remote_addr = MapAddr
                      /\ rmr[c].len \in 1 .. mr.len
    BY DEF MappedIsBacked
  <2>1. BackInv(c) /\ LenInv(c)
    BY DEF RegionInv, HolderInv
  <2>2. KeyValid(c) /\ rmr[c].len # 0
    BY <2>1 DEF BackInv, LenInv
  <2>3. /\ mr.conn = c /\ mr.rkey = rmr[c].rkey /\ rmr[c].remote_addr = MapAddr
        /\ ToInt32(rmr[c].len) \in 0 .. mr.len
    BY <2>2 DEF KeyValid
  <2>4. unit_res[c] = Res
    BY <2>3, KeyOwner
  <2>5. rmr[c].len \in Lens \cup {0} /\ mr.len \in Nat
    BY DEF SessionInv, Types
  <2>6. rmr[c].len \in 1 .. Word - 1
    BY <2>2, <2>5
  <2>7. rmr[c].len \in 1 .. mr.len
    BY <2>3, <2>5, <2>6, LengthKept
  <2> QED
    BY <2>3, <2>4, <2>7
<1> QED
  BY <1>1, RegionInvariant, PTL

\* No two applications hold a mapping of the resource at the same time.
THEOREM MappingExclusive == Spec => []ExclusiveMapping
<1>1. RegionInv => ExclusiveMapping
  BY DEF RegionInv, HolderInv, BackInv, KeyValid, ExclusiveMapping
<1> QED
  BY <1>1, RegionInvariant, PTL

\* The request that a handler is about to decode is the command its client is
\* in, and names the client's mapping.
THEOREM RequestMatches == Spec => []ReqMatches
<1>1. SessionInv /\ RegionInv => ReqMatches
  <2> SUFFICES ASSUME SessionInv, RegionInv, NEW c \in Conns, scq[c] > 0, pc[c] \in Waiting
               PROVE  /\ sreq[c].opcode = Expected(pc[c]) - 1
                      /\ pc[c] = "map" => sreq[c].word = ToUint32(rmr[c].len)
                      /\ pc[c] \in {"unmap", "commit"} =>
                             sreq[c].word = ToUint32(rmr[c].len) /\ sreq[c].remote_addr = MapAddr
    BY DEF ReqMatches
  <2>1. pc[c] \notin Over
    BY DEF Waiting, Over
  <2>2. RequestOf(pc[c], rmr[c], sreq[c])
    BY <2>1, AtServer DEF IsRequest
  <2>3. pc[c] \in {"unmap", "commit"} => rmr[c].remote_addr = MapAddr
    BY DEF RegionInv, HolderInv, BackInv, KeyValid
  <2> QED
    BY <2>2, <2>3 DEF RequestOf
<1> QED
  BY <1>1, RegionInvariant, PTL

--------------------------------------------------------------------------------
(* Action properties.                                                       *)

\* The region changes when the holder's RDMA WRITE executes, when it is granted
\* and when it is taken back.
LEMMA MemChanges ==
    ASSUME SessionInv, Next, mem' # mem
    PROVE  \E d \in Conns : \/ KeyValid(d) /\ mem' = rmr[d].buf
                            \/ Grants(d)
                            \/ Releases(d) /\ pc[d] \in Over \cup {"unmap"}
<1>1. Types
  BY DEF SessionInv
<1>2. PICK d \in Conns : \/ App(d) \/ Return(d) \/ ClientCrash(d) \/ HandleWc(d)
                         \/ Network(d) \/ ServerNext(d)
  BY DEF Next
<1>3. CASE App(d)
  BY <1>3 DEF App, Open, Unmap, Commit, Close, Map, AppWrite, Command, serverVars, storeVars
<1>4. CASE Return(d)
  BY <1>4 DEF Return, OpenReturns, MapRead, MapReturns, UnmapReturns, CommitReturns, CloseReturns,
              Teardown, Gone, serverVars, storeVars
<1>5. CASE ClientCrash(d) \/ HandleWc(d)
  BY <1>5 DEF ClientCrash, Gone, HandleWc, serverVars, storeVars
<1>6. CASE Network(d)
  BY <1>6 DEF Network, Execute, Complete, Deliver, serverVars, storeVars
<1>7. CASE ServerNext(d)
  <2>1. scq[d] > 0 /\ (Grants(d) \/ Releases(d))
    BY <1>1, <1>7, ServerSame, ServerEffect
  <2>2. Releases(d) => pc[d] \in Over \cup {"unmap"}
    BY <2>1, ReleaseCall DEF Releases
  <2> QED
    BY <2>1, <2>2
<1> QED
  BY <1>2, <1>3, <1>4, <1>5, <1>6, <1>7

\* While an application holds a mapping, the region changes only to what that
\* application has in its buffer.
THEOREM RegionIsolated == Spec => Isolation
<1>1. SessionInv /\ RegionInv /\ [Next]_vars =>
          [\A c \in Conns :
               pc[c] \in {"mapped", "commit"} /\ mem' # mem => mem' = rmr[c].buf]_vars
  <2> SUFFICES ASSUME SessionInv, RegionInv, Next, NEW c \in Conns,
                      pc[c] \in {"mapped", "commit"}, mem' # mem
               PROVE  mem' = rmr[c].buf
    OBVIOUS
  <2>1. KeyValid(c) /\ mr.conn = c
    BY DEF RegionInv, HolderInv, BackInv, KeyValid
  <2>2. PICK d \in Conns : \/ KeyValid(d) /\ mem' = rmr[d].buf
                           \/ Grants(d)
                           \/ Releases(d) /\ pc[d] \in Over \cup {"unmap"}
    BY MemChanges
  <2>3. ~Grants(d)
    BY <2>1, GrantFree DEF Grants
  <2>4. ASSUME Releases(d), pc[d] \in Over \cup {"unmap"} PROVE FALSE
    <3>1. d = c
      BY <2>1, <2>4, ReleaseOwner
    <3> QED
      BY <2>4, <3>1 DEF Over
  <2>5. KeyValid(d) => d = c
    BY <2>1 DEF KeyValid
  <2> QED
    BY <2>2, <2>3, <2>4, <2>5
<1> QED
  BY <1>1, RegionInvariant, PTL DEF Spec, Isolation

\* rpmem_map and rpmem_commit return only when sem_wait does.
LEMMA WokenUp ==
    ASSUME SessionInv, Next, NEW c \in Conns, pc[c] \in {"read", "commit"}, pc'[c] = "mapped"
    PROVE  sem_command[c] > 0
<1>1. Types /\ pc \in [Conns -> Calls]
  BY DEF SessionInv, Types
<1>2. PICK d \in Conns : \/ App(d) \/ Return(d) \/ ClientCrash(d) \/ HandleWc(d)
                         \/ Network(d) \/ ServerNext(d)
  BY DEF Next
<1>3. CASE App(d)
  <2>1. pc[d] \notin {"read", "commit"}
    BY <1>3 DEF App, Open, Unmap, Commit, Close, Map, AppWrite
  <2>2. pc' = pc \/ \E x : pc' = [pc EXCEPT ![d] = x]
    BY <1>3 DEF App, Open, Unmap, Commit, Close, Map, AppWrite, Command
  <2> QED
    BY <1>1, <2>1, <2>2
<1>4. CASE Return(d)
  <2>1. CASE Teardown(d)
    BY <1>1, <2>1 DEF Teardown, Gone
  <2>2. CASE MapReturns(d) \/ CommitReturns(d)
    BY <1>1, <2>2 DEF MapReturns, CommitReturns, Wake
  <2>3. CASE OpenReturns(d) \/ MapRead(d) \/ UnmapReturns(d) \/ CloseReturns(d)
    <3>1. pc[d] \notin {"read", "commit"} /\ \E x : pc' = [pc EXCEPT ![d] = x]
      BY <2>3 DEF OpenReturns, MapRead, UnmapReturns, CloseReturns
    <3> QED
      BY <1>1, <3>1
  <2> QED
    BY <1>4, <2>1, <2>2, <2>3 DEF Return
<1>5. CASE ClientCrash(d)
  BY <1>1, <1>5 DEF ClientCrash, Gone
<1>6. CASE HandleWc(d) \/ Network(d) \/ ServerNext(d)
  BY <1>6 DEF HandleWc, Network, Execute, Complete, Deliver, ServerNext, clientVars
<1> QED
  BY <1>2, <1>3, <1>4, <1>5, <1>6

\* When rpmem_commit returns 0, the server's mapping holds what the client's
\* buffer holds.
THEOREM CommitReached == Spec => CommitVisible
<1>1. SessionInv /\ RegionInv /\ [Next]_vars =>
          [\A c \in Conns :
               pc[c] = "commit" /\ pc'[c] = "mapped" /\ unpack_int(rsp[c]) = 0 =>
                   mem = rmr[c].buf]_vars
  <2> SUFFICES ASSUME SessionInv, RegionInv, Next, NEW c \in Conns,
                      pc[c] = "commit", pc'[c] = "mapped"
               PROVE  mem = rmr[c].buf
    OBVIOUS
  <2>1. Requested(c)
    BY WokenUp DEF Requested
  <2> QED
    BY <2>1 DEF RegionInv, HolderInv, CommitInv
<1> QED
  BY <1>1, RegionInvariant, PTL DEF Spec, CommitVisible

\* rpmem_map returns a buffer that holds what the server's mapping holds.
THEOREM MapReturnsRegion == Spec => MapReadsRegion
<1>1. SessionInv /\ RegionInv /\ [Next]_vars =>
          [\A c \in Conns : pc[c] = "read" /\ pc'[c] = "mapped" => rmr[c].buf = mem]_vars
  <2> SUFFICES ASSUME SessionInv, RegionInv, Next, NEW c \in Conns,
                      pc[c] = "read", pc'[c] = "mapped"
               PROVE  rmr[c].buf = mem
    OBVIOUS
  <2>1. ReadDone(c)
    BY WokenUp DEF ReadDone
  <2> QED
    BY <2>1 DEF RegionInv, HolderInv, BackInv
<1> QED
  BY <1>1, RegionInvariant, PTL DEF Spec, MapReadsRegion
================================================================================
