-------------------------- MODULE RpmemSession_proofs --------------------------
(****************************************************************************)
(* The invariant of the session, for any number of clients, any faults and  *)
(* any length of the queues, and what follows from it: a client finds its   *)
(* own response, is woken once for each wait, and has a receive for every   *)
(* response.                                                                *)
(*                                                                          *)
(* RspMatches alone is not inductive: whether conn->rsp holds the right     *)
(* response depends on what was sent, handled and answered before.          *)
(* SessionInv therefore counts everything that is still to wake a client,   *)
(* from its send queue to its semaphore (Balance), follows the contents of  *)
(* the one message that is on its way (MsgInv), and says what a broken      *)
(* connection or a client that is gone leaves behind (FlushInv).            *)
(****************************************************************************)
EXTENDS RpmemSession, FiniteSetTheorems, FunctionTheorems, SequenceTheorems, TLAPS

\* The calls of a client that is gone.
Over == {"closed", "dead"}

\* The types, without the bounds on the queues.
Types ==
    /\ pc \in [Conns -> Calls]
    /\ sem_command \in [Conns -> Nat]
    /\ req \in [Conns -> Commands] /\ rsp \in [Conns -> Commands]
    /\ rmr \in [Conns -> [len : Lens \cup {0}, buf : Contents,
                          rkey : 0 .. Word - 1, remote_addr : Addrs]]
    /\ qp \in [Conns -> {"rts", "err"}]
    /\ sq \in [Conns -> Seq(Ops)] /\ sent \in [Conns -> Seq(Ops)]
    /\ rq \in [Conns -> 0 .. MaxRecvWr]
    /\ cq \in [Conns -> Seq(Ops \cup {"RECV"})]
    /\ up \in BOOLEAN
    /\ srq \in [Conns -> Nat] /\ scq \in [Conns -> Nat] /\ ssq \in [Conns -> Nat]
    /\ sreq \in [Conns -> Commands] /\ srsp \in [Conns -> Commands]
    /\ mr \in [conn : Conns \cup {NULL}, rkey : 0 .. Word - 1, len : Nat]
    /\ mem \in Contents /\ file \in Contents

\* What is left of a connection that is broken, and of a client that is gone.
FlushInv(c) ==
    /\ qp[c] = "err" => /\ sq[c] = <<>> /\ sent[c] = <<>>
                        /\ rq[c] = 0 /\ srq[c] = 0 /\ ssq[c] = 0
    /\ pc[c] \in Over => qp[c] = "err" /\ sem_command[c] = 0 /\ cq[c] = <<>>

\* What counts in a session: a client in call, its queue pair in state q with r
\* receives posted, sem wakeups to take, and in the completion queue cv
\* responses and cr READs, ss responses and sc requests at the server, tr READs
\* not acknowledged, qs requests and qr READs not executed.  Every response
\* that is due has its receive; at most one wakeup is due, none outside a call;
\* READs only in the second half of rpmem_map, messages only outside it.
Balance(call, q, r, sem, cv, cr, ss, sc, tr, qs, qr) ==
    /\ q = "err" \/ qs + sc + ss <= r
    /\ call \notin Over =>
           sem + cv + cr + ss + sc + tr + qs + qr <= IF call \in Waiting THEN 1 ELSE 0
    /\ call \notin Over =>
           IF call = "read" THEN qs = 0 /\ sc = 0 /\ ss = 0 /\ cv = 0
                            ELSE qr = 0 /\ tr = 0 /\ cr = 0

\* The balance of the session of c.
CountInv(c) == Balance(pc[c], qp[c], rq[c], sem_command[c],
                       Count(cq[c], "RECV"), Count(cq[c], "READ"), ssq[c], scq[c],
                       Count(sent[c], "READ"), Count(sq[c], "SEND"), Count(sq[c], "READ"))

\* cmd is the request that a client in call sends about its mapping m.
RequestOf(call, m, cmd) ==
    /\ cmd.opcode = Expected(call) - 1
    /\ call \in {"map", "unmap", "commit"} => cmd.word = ToUint32(m.len)
    /\ call \in {"unmap", "commit"} => cmd.remote_addr = m.remote_addr

\* cmd is the request of the command that c is in.
IsRequest(c, cmd) == RequestOf(pc[c], rmr[c], cmd)

\* A message on its way is the one the client has sent or waits for, in
\* whichever buffer it is: conn->req, the unit's req, its rsp, conn->rsp.
MsgInv(c) ==
    pc[c] \in Waiting \ {"read"} =>
        /\ Count(sq[c], "SEND") > 0 => IsRequest(c, req[c])
        /\ scq[c] > 0 => IsRequest(c, sreq[c])
        /\ ssq[c] > 0 => srsp[c].opcode = Expected(pc[c])
        /\ Count(cq[c], "RECV") > 0 \/ sem_command[c] > 0 => rsp[c].opcode = Expected(pc[c])

\* What each connection keeps for itself.
LocalInv(c) == FlushInv(c) /\ Used(c) <= MaxSendWr /\ CountInv(c) /\ MsgInv(c)

\* The resource is in the list or in one unit; the sizes are integers.
PoolPart ==
    /\ res_list \in {<<>>, <<Res>>}
    /\ unit_res \in [Conns -> {NULL, Res}]
    /\ res_list = <<Res>> => \A c \in Conns : unit_res[c] = NULL
    /\ \A c, d \in Conns : unit_res[c] = Res /\ unit_res[d] = Res => c = d
    /\ free_size \in Int /\ in_use_size \in Int

\* The inductive invariant of the session.
SessionInv == Types /\ PoolPart /\ \A c \in Conns : LocalInv(c)

--------------------------------------------------------------------------------
(* Lemmas about the operators.                                              *)

\* How often something occurs in a queue.
LEMMA CountType ==
    ASSUME NEW S, NEW s \in Seq(S), NEW op
    PROVE  IsFiniteSet({i \in DOMAIN s : s[i] = op}) /\ Count(s, op) \in Nat
<1>1. DOMAIN s = 1 .. Len(s) /\ Len(s) \in Nat
  OBVIOUS
<1>2. IsFiniteSet(1 .. Len(s))
  BY <1>1, FS_Interval
<1>3. IsFiniteSet({i \in DOMAIN s : s[i] = op})
  BY <1>1, <1>2, FS_Subset
<1> QED
  BY <1>3, FS_CardinalityType DEF Count

\* Nothing occurs in an empty queue.
LEMMA CountEmpty == ASSUME NEW op PROVE Count(<<>>, op) = 0
<1>1. {i \in DOMAIN <<>> : <<>>[i] = op} = {}
  OBVIOUS
<1> QED
  BY <1>1, FS_EmptySet, Zenon DEF Count

\* An entry that is added counts once.
LEMMA CountAppend ==
    ASSUME NEW S, NEW s \in Seq(S), NEW x \in S, NEW op
    PROVE  Count(Append(s, x), op) = Count(s, op) + IF x = op THEN 1 ELSE 0
<1> DEFINE I == {i \in DOMAIN s : s[i] = op}
           J == {i \in DOMAIN Append(s, x) : Append(s, x)[i] = op}
<1>1. IsFiniteSet(I) /\ Count(s, op) \in Nat
  BY CountType
<1>2. DOMAIN s = 1 .. Len(s) /\ Len(s) \in Nat /\ Len(s) + 1 \notin I
  OBVIOUS
<1>3. J = IF x = op THEN I \cup {Len(s) + 1} ELSE I
  BY <1>2
<1>4. Cardinality(I \cup {Len(s) + 1}) = Cardinality(I) + 1
  BY <1>1, <1>2, FS_AddElement
<1>5. Cardinality(J) = Cardinality(I) + IF x = op THEN 1 ELSE 0
  <2> HIDE DEF I, J
  <2> QED BY <1>1, <1>3, <1>4 DEF Count, I
<1> QED
  BY <1>5 DEF Count

\* An entry that is taken no longer counts.
LEMMA CountTail ==
    ASSUME NEW S, NEW s \in Seq(S), s # <<>>, NEW op
    PROVE  Count(s, op) = Count(Tail(s), op) + IF Head(s) = op THEN 1 ELSE 0
<1> DEFINE I == {i \in DOMAIN s : s[i] = op}
           J == {i \in DOMAIN Tail(s) : Tail(s)[i] = op}
           f == [j \in J |-> j + 1]
<1>1. IsFiniteSet(I) /\ Count(s, op) \in Nat
  BY CountType
<1>2. Tail(s) \in Seq(S) /\ Len(Tail(s)) = Len(s) - 1 /\ Len(s) \in Nat
      /\ DOMAIN s = 1 .. Len(s) /\ DOMAIN Tail(s) = 1 .. Len(s) - 1
      /\ \A i \in 1 .. Len(s) - 1 : Tail(s)[i] = s[i + 1]
      /\ Head(s) = s[1] /\ Len(s) >= 1
  BY HeadTailProperties
<1>3. IsFiniteSet(J) /\ Count(Tail(s), op) \in Nat
  BY <1>2, CountType
<1>4. f \in Bijection(J, I \ {1})
  <2>1. f \in [J -> I \ {1}]
    BY <1>2
  <2>2. \A a, b \in J : f[a] = f[b] => a = b
    BY <1>2
  <2>3. \A i \in I \ {1} : \E j \in J : f[j] = i
    <3> SUFFICES ASSUME NEW i \in I \ {1} PROVE \E j \in J : f[j] = i
      OBVIOUS
    <3>1. i - 1 \in J /\ f[i - 1] = i
      BY <1>2
    <3> QED
      BY <3>1
  <2> HIDE DEF f, I, J
  <2> QED
    BY <2>1, <2>2, <2>3, Fun_IsBij
<1>5. Cardinality(I \ {1}) = Cardinality(J)
  <2> HIDE DEF f, I, J
  <2>1. IsFiniteSet(J) /\ ExistsBijection(J, I \ {1})
    BY <1>3, <1>4, Zenon DEF ExistsBijection
  <2> QED
    BY <2>1, FS_Bijection, Zenon
<1>6. Cardinality(I) = Cardinality(I \ {1}) + IF 1 \in I THEN 1 ELSE 0
  <2> HIDE DEF f, I, J
  <2>1. IsFiniteSet(I) /\ Cardinality(I) \in Nat
    BY <1>1, FS_CardinalityType, Zenon
  <2>2. Cardinality(I \ {1}) = IF 1 \in I THEN Cardinality(I) - 1 ELSE Cardinality(I)
    BY <2>1, FS_RemoveElement, Zenon
  <2> QED
    BY <2>1, <2>2
<1>7. 1 \in I <=> Head(s) = op
  BY <1>2
<1> QED
  BY <1>5, <1>6, <1>7 DEF Count

\* Deregistering a buffer changes neither the messages nor the READs.
LEMMA CountDereg ==
    ASSUME NEW s \in Seq(Ops), NEW op \in {"SEND", "READ"}
    PROVE  /\ Dereg(s) \in Seq(Ops) /\ Len(Dereg(s)) = Len(s)
           /\ Count(Dereg(s), op) = Count(s, op)
<1>1. DOMAIN s = 1 .. Len(s) /\ Len(s) \in Nat
  OBVIOUS
<1>2. DOMAIN Dereg(s) = DOMAIN s
      /\ \A i \in DOMAIN s : Dereg(s)[i] = IF s[i] = "WRITE" THEN "STALE" ELSE s[i]
  BY DEF Dereg
<1>3. {i \in DOMAIN Dereg(s) : Dereg(s)[i] = op} = {i \in DOMAIN s : s[i] = op}
  BY <1>2
<1>4. Dereg(s) \in Seq(Ops) /\ Len(Dereg(s)) = Len(s)
  BY <1>1 DEF Dereg, Ops
<1> QED
  BY <1>3, <1>4 DEF Count

\* What a command leaves in the send queue when n of its posts succeed.
LEMMA PostedSend ==
    ASSUME NEW s \in Seq(Ops), NEW n \in 0 .. 2
    PROVE  s \o SubSeq(<<"SEND">>, 1, n - 1) = IF n = 2 THEN Append(s, "SEND") ELSE s
<1>1. CASE n = 2
  <2>1. <<"SEND">> \in Seq(Ops) /\ Len(<<"SEND">>) = n - 1
    BY <1>1 DEF Ops
  <2>2. SubSeq(<<"SEND">>, 1, n - 1) = <<"SEND">>
    BY <2>1, SubSeqFull
  <2> QED
    BY <1>1, <2>2, AppendIsConcat DEF Ops
<1>2. CASE n # 2
  <2>1. SubSeq(<<"SEND">>, 1, n - 1) = <<>>
    BY <1>2, SubSeqEmpty
  <2> QED
    BY <1>2, <2>1, ConcatEmptySeq
<1> QED
  BY <1>1, <1>2

\* The same for the two work requests of rpmem_commit.
LEMMA PostedCommit ==
    ASSUME NEW s \in Seq(Ops), NEW n \in 0 .. 3
    PROVE  s \o SubSeq(<<"WRITE", "SEND">>, 1, n - 1) =
               IF n = 3 THEN Append(Append(s, "WRITE"), "SEND")
               ELSE IF n = 2 THEN Append(s, "WRITE") ELSE s
<1> DEFINE w == <<"WRITE", "SEND">>
<1>0. w \in Seq(Ops) /\ Len(w) = 2 /\ w[1] = "WRITE" /\ w[2] = "SEND"
  BY DEF Ops
<1>1. CASE n = 3
  <2>1. SubSeq(w, 1, n - 1) = w
    <3> HIDE DEF w
    <3>1. SubSeq(w, 1, Len(w)) = w
      BY <1>0, SubSeqFull
    <3>2. n - 1 = Len(w)
      BY <1>0, <1>1
    <3> QED
      BY <3>1, <3>2
  <2>2. s \o w = Append(Append(s, "WRITE"), "SEND")
    <3>1. s \o w \in Seq(Ops) /\ Len(s \o w) = Len(s) + 2
          /\ \A i \in 1 .. Len(s) + 2 : (s \o w)[i] = IF i <= Len(s) THEN s[i] ELSE w[i - Len(s)]
      BY <1>0, ConcatProperties
    <3>2. Append(s, "WRITE") \in Seq(Ops) /\ Append(Append(s, "WRITE"), "SEND") \in Seq(Ops)
          /\ Len(Append(Append(s, "WRITE"), "SEND")) = Len(s) + 2
      BY DEF Ops
    <3>3. \A i \in 1 .. Len(s) + 2 : (s \o w)[i] = Append(Append(s, "WRITE"), "SEND")[i]
      BY <1>0, <3>1, <3>2 DEF Ops
    <3> HIDE DEF w
    <3> QED
      BY <3>1, <3>2, <3>3, SeqEqual
  <2> QED
    BY <1>1, <2>1, <2>2
<1>2. CASE n = 2
  <2>1. SubSeq(w, 1, n - 1) \in Seq(Ops) /\ Len(SubSeq(w, 1, n - 1)) = 1
        /\ SubSeq(w, 1, n - 1)[1] = "WRITE"
    BY <1>0, <1>2, SubSeqProperties DEF Ops
  <2>2. SubSeq(w, 1, n - 1) = <<"WRITE">>
    <3> DEFINE t == SubSeq(w, 1, n - 1)
    <3>1. t \in Seq(Ops) /\ Len(t) = 1 /\ t[1] = "WRITE"
      BY <2>1
    <3> HIDE DEF t, w
    <3>2. t = <<t[1]>>
      BY <3>1
    <3> QED
      BY <3>1, <3>2 DEF t
  <2> QED
    BY <1>2, <2>2, AppendIsConcat DEF Ops
<1>3. CASE n < 2
  <2>1. SubSeq(w, 1, n - 1) = <<>>
    BY <1>3, SubSeqEmpty
  <2> QED
    BY <1>3, <2>1, ConcatEmptySeq
<1> QED
  BY <1>1, <1>2, <1>3

\* A packed command is a command, with the opcode it was packed for.
LEMMA CmdType ==
    ASSUME NEW opcode \in Opcode, NEW word \in Int, NEW addr \in Addrs
    PROVE  Cmd(opcode, word, addr) \in Commands /\ Cmd(opcode, word, addr).opcode = opcode
<1>1. word % Word \in 0 .. Word - 1
  BY WordAssumption
<1> QED
  BY <1>1 DEF Cmd, Commands, ToUint32

--------------------------------------------------------------------------------
(* What a step does to one client.                                          *)

\* The type of a priv_mr.
RmrType == [len : Lens \cup {0}, buf : Contents, rkey : 0 .. Word - 1, remote_addr : Addrs]

\* A step leaves the session of d alone.
Same(d) ==
    /\ pc'[d] = pc[d] /\ sem_command'[d] = sem_command[d]
    /\ req'[d] = req[d] /\ rsp'[d] = rsp[d] /\ rmr'[d] = rmr[d]
    /\ qp'[d] = qp[d] /\ sq'[d] = sq[d] /\ sent'[d] = sent[d]
    /\ rq'[d] = rq[d] /\ cq'[d] = cq[d]
    /\ srq'[d] = srq[d] /\ scq'[d] = scq[d] /\ ssq'[d] = ssq[d]
    /\ sreq'[d] = sreq[d] /\ srsp'[d] = srsp[d]

\* A session that a step leaves alone keeps its invariant.
LEMMA SameLocal ==
    ASSUME NEW d, LocalInv(d), Same(d) PROVE LocalInv(d)'
BY DEF LocalInv, Same, FlushInv, CountInv, MsgInv, IsRequest, Used

\* The length of a queue, as a number that the provers leave alone.
Length(s) == Len(s)

\* The quantities that the invariant counts are numbers.
LEMMA Numbers ==
    ASSUME Types, NEW c \in Conns
    PROVE  /\ sem_command[c] \in Nat /\ rq[c] \in Nat /\ rq[c] <= MaxRecvWr
           /\ srq[c] \in Nat /\ scq[c] \in Nat /\ ssq[c] \in Nat
           /\ Length(sq[c]) \in Nat /\ Length(sent[c]) \in Nat /\ Length(cq[c]) \in Nat
           /\ Count(sq[c], "SEND") \in Nat /\ Count(sq[c], "READ") \in Nat
           /\ Count(sent[c], "READ") \in Nat
           /\ Count(cq[c], "RECV") \in Nat /\ Count(cq[c], "READ") \in Nat
           /\ Used(c) = Length(sq[c]) + Length(sent[c]) + Length(cq[c]) - Count(cq[c], "RECV")
           /\ Used(c) \in Int /\ Pending(c) \in Nat
<1>1. /\ sq[c] \in Seq(Ops) /\ sent[c] \in Seq(Ops) /\ cq[c] \in Seq(Ops \cup {"RECV"})
  BY DEF Types
<1>2. /\ Count(sq[c], "SEND") \in Nat /\ Count(sq[c], "READ") \in Nat
      /\ Count(sent[c], "READ") \in Nat
      /\ Count(cq[c], "RECV") \in Nat /\ Count(cq[c], "READ") \in Nat
  BY <1>1, CountType
<1>3. /\ sem_command[c] \in Nat /\ srq[c] \in Nat /\ scq[c] \in Nat /\ ssq[c] \in Nat
      /\ rq[c] \in Nat /\ rq[c] <= MaxRecvWr
  BY SessionAssumption DEF Types
<1>4. Length(sq[c]) \in Nat /\ Length(sent[c]) \in Nat /\ Length(cq[c]) \in Nat
  BY <1>1 DEF Length
<1>5. Used(c) = Length(sq[c]) + Length(sent[c]) + Length(cq[c]) - Count(cq[c], "RECV")
  BY Zenon DEF Used, Length
<1>6. Used(c) \in Int
  BY <1>2, <1>4, <1>5
<1>7. Pending(c) \in Nat
  BY <1>2, <1>3 DEF Pending
<1> QED
  BY <1>2, <1>3, <1>4, <1>5, <1>6, <1>7, Zenon

\* What the commands post: a request, or a WRITE and a request.
WrLists == {<<"SEND">>, <<"WRITE", "SEND">>}

\* What a command has posted when it fails, and when it goes on to wait.
Queued(c, w) == IF w = <<"SEND">> THEN Append(sq[c], "SEND")
                ELSE Append(Append(sq[c], "WRITE"), "SEND")

\* All posts of the command succeeded, or the queue pair flushes them.
Posted(c, w, cmd, waiting) ==
    /\ pc' = [pc EXCEPT ![c] = waiting]
    /\ req' = [req EXCEPT ![c] = cmd]
    /\ \/ qp[c] = "err" /\ rq' = rq /\ sq' = sq
       \/ /\ qp[c] # "err" /\ rq[c] < MaxRecvWr /\ Used(c) + Length(w) <= MaxSendWr
          /\ rq' = [rq EXCEPT ![c] = rq[c] + 1]
          /\ sq' = [sq EXCEPT ![c] = Queued(c, w)]

\* Some post of the command failed; what was posted before it stays behind.
NotPosted(c, cmd, failed) ==
    /\ pc' = [pc EXCEPT ![c] = failed]
    /\ req' = req \/ req' = [req EXCEPT ![c] = cmd]
    /\ \/ rq' = rq /\ sq' = sq
       \/ /\ qp[c] # "err" /\ rq[c] < MaxRecvWr
          /\ rq' = [rq EXCEPT ![c] = rq[c] + 1]
          /\ \/ sq' = sq
             \/ /\ Used(c) + 1 <= MaxSendWr
                /\ sq' = [sq EXCEPT ![c] = Append(sq[c], "WRITE")]

\* Every outcome of Command is one of the two.
LEMMA CommandPosts ==
    ASSUME Types, NEW c \in Conns, NEW w \in WrLists,
           NEW cmd \in Commands, NEW waiting, NEW failed,
           Command(c, w, cmd, waiting, failed)
    PROVE  /\ Posted(c, w, cmd, waiting) \/ NotPosted(c, cmd, failed)
           /\ rsp' = [rsp EXCEPT ![c] = ZeroCmd]
           /\ UNCHANGED <<qp, sent, cq, sem_command, serverVars>>
<1>1. PICK k \in 1 .. 2 : k = Len(w) /\ (k = 1 <=> w = <<"SEND">>)
  BY DEF WrLists
<1>2. PICK n \in 0 .. k + 1 :
        /\ \A i \in 0 .. n - 1 : Room(c, i)
        /\ rsp' = [rsp EXCEPT ![c] = ZeroCmd]
        /\ req' = IF n >= k THEN [req EXCEPT ![c] = cmd] ELSE req
        /\ IF qp[c] = "err"
           THEN UNCHANGED <<rq, sq>>
           ELSE /\ rq' = [rq EXCEPT ![c] = @ + IF n > 0 THEN 1 ELSE 0]
                /\ sq' = [sq EXCEPT ![c] = @ \o SubSeq(w, 1, n - 1)]
        /\ pc' = [pc EXCEPT ![c] = IF n = k + 1 THEN waiting ELSE failed]
        /\ UNCHANGED <<qp, sent, cq, sem_command, serverVars>>
  BY <1>1, Zenon DEF Command
<1>3. sq[c] \in Seq(Ops) /\ sq \in [Conns -> Seq(Ops)] /\ rq \in [Conns -> 0 .. MaxRecvWr]
  BY DEF Types
<1>4. rq[c] \in Nat /\ Used(c) \in Int /\ MaxSendWr \in Nat
  BY Numbers, SessionAssumption
<1>5. ASSUME qp[c] # "err"
      PROVE  (n > 0 => rq[c] < MaxRecvWr) /\ (n > 1 => Used(c) + n - 1 <= MaxSendWr)
  <2>1. n > 0 => Room(c, 0)
    BY <1>2
  <2>2. n > 1 => Room(c, n - 1)
    BY <1>2
  <2> QED
    BY <1>4, <1>5, <2>1, <2>2 DEF Room
<1>6. sq[c] \o SubSeq(w, 1, n - 1) = IF n = k + 1 THEN Queued(c, w)
                                      ELSE IF n = 2 THEN Append(sq[c], "WRITE") ELSE sq[c]
  <2>1. CASE w = <<"SEND">>
    BY <1>1, <1>3, <2>1, PostedSend DEF Queued
  <2>2. CASE w = <<"WRITE", "SEND">>
    <3>1. k = 2 /\ n \in 0 .. 3 /\ w # <<"SEND">>
      BY <1>1, <2>2
    <3>2. sq[c] \o SubSeq(w, 1, n - 1) =
              IF n = 3 THEN Append(Append(sq[c], "WRITE"), "SEND")
              ELSE IF n = 2 THEN Append(sq[c], "WRITE") ELSE sq[c]
      BY <1>3, <2>2, <3>1, PostedCommit, Zenon
    <3>3. n = k + 1 <=> n = 3
      BY <3>1
    <3> QED
      BY <3>1, <3>2, <3>3, Zenon DEF Queued
  <2> QED
    BY <2>1, <2>2 DEF WrLists
<1>7. sq = [sq EXCEPT ![c] = sq[c]] /\ rq = [rq EXCEPT ![c] = rq[c]]
  BY <1>3
<1>8. CASE n = k + 1
  <2>1. Posted(c, w, cmd, waiting)
    <3>1. CASE qp[c] = "err"
      BY <1>2, <1>8, <3>1 DEF Posted
    <3>2. CASE qp[c] # "err"
      <4>1. rq' = [rq EXCEPT ![c] = rq[c] + 1]
        BY <1>2, <1>8, <3>2
      <4>2. sq' = [sq EXCEPT ![c] = sq[c] \o SubSeq(w, 1, n - 1)]
        BY <1>2, <3>2
      <4>3. sq' = [sq EXCEPT ![c] = Queued(c, w)]
        BY <1>6, <1>8, <4>2, Zenon
      <4>4. Used(c) + k <= MaxSendWr /\ rq[c] < MaxRecvWr
        <5>1. n > 0 /\ n > 1 /\ n - 1 = k
          BY <1>8
        <5>2. Used(c) + n - 1 <= MaxSendWr /\ rq[c] < MaxRecvWr
          BY <1>5, <3>2, <5>1, Zenon
        <5> QED
          BY <1>4, <5>1, <5>2
      <4>5. Used(c) + Length(w) <= MaxSendWr
        BY <1>1, <4>4, Zenon DEF Length
      <4> QED
        BY <1>2, <1>8, <3>2, <4>1, <4>3, <4>4, <4>5 DEF Posted
    <3> QED
      BY <3>1, <3>2
  <2> QED
    BY <1>2, <2>1
<1>9. CASE n # k + 1
  <2>1. NotPosted(c, cmd, failed)
    <3>1. pc' = [pc EXCEPT ![c] = failed] /\ (req' = req \/ req' = [req EXCEPT ![c] = cmd])
      BY <1>2, <1>9
    <3>2. CASE qp[c] = "err"
      BY <1>2, <3>1, <3>2 DEF NotPosted
    <3>3. CASE qp[c] # "err"
      <4>1. rq' = [rq EXCEPT ![c] = rq[c] + IF n > 0 THEN 1 ELSE 0]
            /\ sq' = [sq EXCEPT ![c] = sq[c] \o SubSeq(w, 1, n - 1)]
        BY <1>2, <3>3
      <4>2. sq' = [sq EXCEPT ![c] = IF n = 2 THEN Append(sq[c], "WRITE") ELSE sq[c]]
        BY <1>6, <1>9, <4>1, Zenon
      <4>3. CASE n = 0
        <5>1. rq' = rq
          BY <1>4, <1>7, <4>1, <4>3
        <5>2. sq' = sq
          BY <1>7, <4>2, <4>3
        <5> QED
          BY <3>1, <5>1, <5>2 DEF NotPosted
      <4>4. CASE n # 0
        <5>0. n > 0
          BY <4>4
        <5>1. rq' = [rq EXCEPT ![c] = rq[c] + 1] /\ rq[c] < MaxRecvWr
          BY <1>5, <3>3, <4>1, <5>0, Zenon
        <5>2. CASE n = 2
          BY <1>4, <1>5, <3>1, <3>3, <4>2, <5>1, <5>2 DEF NotPosted
        <5>3. CASE n # 2
          BY <1>7, <3>1, <3>3, <4>2, <5>1, <5>3 DEF NotPosted
        <5> QED
          BY <5>2, <5>3
      <4> QED
        BY <4>3, <4>4
    <3> QED
      BY <3>2, <3>3
  <2> QED
    BY <1>2, <2>1
<1> QED
  BY <1>8, <1>9

\* One more work request.
LEMMA Appended ==
    ASSUME NEW s \in Seq(Ops), NEW x \in Ops
    PROVE  /\ Append(s, x) \in Seq(Ops) /\ Length(Append(s, x)) = Length(s) + 1
           /\ Count(Append(s, x), "SEND") = Count(s, "SEND") + (IF x = "SEND" THEN 1 ELSE 0)
           /\ Count(Append(s, x), "READ") = Count(s, "READ") + (IF x = "READ" THEN 1 ELSE 0)
<1>1. Append(s, x) \in Seq(Ops) /\ Len(Append(s, x)) = Len(s) + 1
  OBVIOUS
<1>2. Length(Append(s, x)) = Length(s) + 1
  BY <1>1, Zenon DEF Length
<1>3. \A op : Count(Append(s, x), op) = Count(s, op) + IF x = op THEN 1 ELSE 0
  BY CountAppend, Zenon
<1> QED
  BY <1>1, <1>2, <1>3, Zenon

\* What the posts of a command add to the counts: one request, no READ.
LEMMA QueuedCounts ==
    ASSUME Types, NEW c \in Conns, NEW w \in WrLists
    PROVE  /\ Queued(c, w) \in Seq(Ops) /\ Length(w) \in Nat
           /\ Length(Queued(c, w)) = Length(sq[c]) + Length(w)
           /\ Count(Queued(c, w), "SEND") = Count(sq[c], "SEND") + 1
           /\ Count(Queued(c, w), "READ") = Count(sq[c], "READ")
<1>1. sq[c] \in Seq(Ops) /\ "SEND" \in Ops /\ "WRITE" \in Ops
  BY DEF Types, Ops
<1>2. Count(sq[c], "SEND") \in Nat /\ Count(sq[c], "READ") \in Nat /\ Length(sq[c]) \in Nat
  BY Numbers
<1> DEFINE t == Append(sq[c], "WRITE")
<1>3. t \in Seq(Ops) /\ Length(t) = Length(sq[c]) + 1
      /\ Count(t, "SEND") = Count(sq[c], "SEND") /\ Count(t, "READ") = Count(sq[c], "READ")
  <2>1. t \in Seq(Ops) /\ Length(t) = Length(sq[c]) + 1
        /\ Count(t, "SEND") = Count(sq[c], "SEND") + (IF "WRITE" = "SEND" THEN 1 ELSE 0)
        /\ Count(t, "READ") = Count(sq[c], "READ") + (IF "WRITE" = "READ" THEN 1 ELSE 0)
    BY <1>1, Appended, Zenon
  <2> HIDE DEF t
  <2> QED
    BY <1>2, <2>1
<1> HIDE DEF t
<1>4. ASSUME NEW s \in Seq(Ops), Count(s, "SEND") \in Nat, Count(s, "READ") \in Nat
      PROVE  /\ Append(s, "SEND") \in Seq(Ops) /\ Length(Append(s, "SEND")) = Length(s) + 1
             /\ Count(Append(s, "SEND"), "SEND") = Count(s, "SEND") + 1
             /\ Count(Append(s, "SEND"), "READ") = Count(s, "READ")
  <2>1. Append(s, "SEND") \in Seq(Ops) /\ Length(Append(s, "SEND")) = Length(s) + 1
        /\ Count(Append(s, "SEND"), "SEND") = Count(s, "SEND") + (IF "SEND" = "SEND" THEN 1 ELSE 0)
        /\ Count(Append(s, "SEND"), "READ") = Count(s, "READ") + (IF "SEND" = "READ" THEN 1 ELSE 0)
    BY <1>1, Appended, Zenon
  <2> QED
    BY <1>4, <2>1
<1>5. CASE w = <<"SEND">>
  <2>1. Length(w) = 1 /\ Queued(c, w) = Append(sq[c], "SEND")
    BY <1>5 DEF Length, Queued
  <2> QED
    BY <1>1, <1>2, <1>4, <2>1
<1>6. CASE w = <<"WRITE", "SEND">>
  <2>1. Length(w) = 2 /\ Queued(c, w) = Append(t, "SEND")
    BY <1>6 DEF Length, Queued, t
  <2>2. /\ Append(t, "SEND") \in Seq(Ops) /\ Length(Append(t, "SEND")) = Length(t) + 1
        /\ Count(Append(t, "SEND"), "SEND") = Count(t, "SEND") + 1
        /\ Count(Append(t, "SEND"), "READ") = Count(t, "READ")
    BY <1>2, <1>3, <1>4
  <2> QED
    BY <1>2, <1>3, <2>1, <2>2
<1> QED
  BY <1>5, <1>6 DEF WrLists

\* A step of one session keeps the invariant if it does so for that session.
LEMMA OneSession ==
    ASSUME SessionInv, NEW c \in Conns, Types', PoolPart', LocalInv(c)',
           \A d \in Conns \ {c} : Same(d)
    PROVE  SessionInv'
BY SameLocal DEF SessionInv

\* A step that updates a function at one point.
LEMMA Update ==
    ASSUME NEW D, NEW S, NEW f \in [D -> S], NEW c \in D, NEW x \in S, NEW g,
           g = [f EXCEPT ![c] = x]
    PROVE  g \in [D -> S] /\ g[c] = x /\ \A d \in D \ {c} : g[d] = f[d]
OBVIOUS

(* The steps that a session takes keep the balance.                         *)

\* A command posts its request.
LEMMA BalancePost ==
    ASSUME NEW call, NEW q, NEW r \in Nat, NEW sem \in Nat, NEW cv \in Nat, NEW cr \in Nat,
           NEW ss \in Nat, NEW sc \in Nat, NEW tr \in Nat, NEW qs \in Nat, NEW qr \in Nat,
           Balance(call, q, r, sem, cv, cr, ss, sc, tr, qs, qr),
           NEW next \in Waiting \ {"read"}, call \notin Waiting \cup Over
    PROVE  Balance(next, q, r + 1, sem, cv, cr, ss, sc, tr, qs + 1, qr)
BY DEF Balance, Waiting, Over

\* A command posts its request on a broken connection.
LEMMA BalanceLost ==
    ASSUME NEW call, NEW q, NEW r \in Nat, NEW sem \in Nat, NEW cv \in Nat, NEW cr \in Nat,
           NEW ss \in Nat, NEW sc \in Nat, NEW tr \in Nat, NEW qs \in Nat, NEW qr \in Nat,
           Balance(call, q, r, sem, cv, cr, ss, sc, tr, qs, qr),
           NEW next \in Waiting \ {"read"}, call \notin Waiting \cup Over
    PROVE  Balance(next, q, r, sem, cv, cr, ss, sc, tr, qs, qr)
BY DEF Balance, Waiting, Over

\* A command fails, with its receive posted or not.
LEMMA BalanceFail ==
    ASSUME NEW call, NEW q, NEW r \in Nat, NEW sem \in Nat, NEW cv \in Nat, NEW cr \in Nat,
           NEW ss \in Nat, NEW sc \in Nat, NEW tr \in Nat, NEW qs \in Nat, NEW qr \in Nat,
           Balance(call, q, r, sem, cv, cr, ss, sc, tr, qs, qr),
           NEW next, call \notin Waiting \cup Over, next \notin Waiting \cup Over
    PROVE  /\ Balance(next, q, r, sem, cv, cr, ss, sc, tr, qs, qr)
           /\ Balance(next, q, r + 1, sem, cv, cr, ss, sc, tr, qs, qr)
BY DEF Balance, Waiting, Over

\* A command returns.
LEMMA BalanceReturn ==
    ASSUME NEW call, NEW q, NEW r \in Nat, NEW sem \in Nat, NEW cv \in Nat, NEW cr \in Nat,
           NEW ss \in Nat, NEW sc \in Nat, NEW tr \in Nat, NEW qs \in Nat, NEW qr \in Nat,
           Balance(call, q, r, sem, cv, cr, ss, sc, tr, qs, qr),
           NEW next, call \in Waiting, sem > 0, next \notin Waiting \cup Over
    PROVE  Balance(next, q, r, sem - 1, cv, cr, ss, sc, tr, qs, qr)
BY DEF Balance, Waiting, Over

\* rpmem_map goes on to its RDMA READ, on a good and a broken connection.
LEMMA BalanceRead ==
    ASSUME NEW call, NEW q, NEW r \in Nat, NEW sem \in Nat, NEW cv \in Nat, NEW cr \in Nat,
           NEW ss \in Nat, NEW sc \in Nat, NEW tr \in Nat, NEW qs \in Nat, NEW qr \in Nat,
           Balance(call, q, r, sem, cv, cr, ss, sc, tr, qs, qr),
           call = "map", sem > 0
    PROVE  /\ Balance("read", q, r, sem - 1, cv, cr, ss, sc, tr, qs, qr + 1)
           /\ Balance("read", q, r, sem - 1, cv, cr, ss, sc, tr, qs, qr)
BY DEF Balance, Waiting, Over

\* The connection breaks.
LEMMA BalanceBreak ==
    ASSUME NEW call, NEW q, NEW r \in Nat, NEW sem \in Nat, NEW cv \in Nat, NEW cr \in Nat,
           NEW ss \in Nat, NEW sc \in Nat, NEW tr \in Nat, NEW qs \in Nat, NEW qr \in Nat,
           Balance(call, q, r, sem, cv, cr, ss, sc, tr, qs, qr)
    PROVE  Balance(call, "err", 0, sem, cv, cr, 0, sc, 0, 0, 0)
BY DEF Balance, Waiting, Over

\* The cq_thread takes a response or a READ from the completion queue.
LEMMA BalanceWc ==
    ASSUME NEW call, NEW q, NEW r \in Nat, NEW sem \in Nat, NEW cv \in Nat, NEW cr \in Nat,
           NEW ss \in Nat, NEW sc \in Nat, NEW tr \in Nat, NEW qs \in Nat, NEW qr \in Nat,
           Balance(call, q, r, sem, cv, cr, ss, sc, tr, qs, qr)
    PROVE  /\ cv > 0 => Balance(call, q, r, sem + 1, cv - 1, cr, ss, sc, tr, qs, qr)
           /\ cr > 0 => Balance(call, q, r, sem + 1, cv, cr - 1, ss, sc, tr, qs, qr)
BY DEF Balance, Waiting, Over

\* A request or a READ executes, a READ completes.
LEMMA BalanceExecute ==
    ASSUME NEW call, NEW q, NEW r \in Nat, NEW sem \in Nat, NEW cv \in Nat, NEW cr \in Nat,
           NEW ss \in Nat, NEW sc \in Nat, NEW tr \in Nat, NEW qs \in Nat, NEW qr \in Nat,
           Balance(call, q, r, sem, cv, cr, ss, sc, tr, qs, qr)
    PROVE  /\ qs > 0 => Balance(call, q, r, sem, cv, cr, ss, sc + 1, tr, qs - 1, qr)
           /\ qr > 0 => Balance(call, q, r, sem, cv, cr, ss, sc, tr + 1, qs, qr - 1)
           /\ tr > 0 => Balance(call, q, r, sem, cv, cr + 1, ss, sc, tr - 1, qs, qr)
BY DEF Balance, Waiting, Over

\* A handler answers, or does not.
LEMMA BalanceServe ==
    ASSUME NEW call, NEW q, NEW r \in Nat, NEW sem \in Nat, NEW cv \in Nat, NEW cr \in Nat,
           NEW ss \in Nat, NEW sc \in Nat, NEW tr \in Nat, NEW qs \in Nat, NEW qr \in Nat,
           Balance(call, q, r, sem, cv, cr, ss, sc, tr, qs, qr), sc > 0
    PROVE  /\ Balance(call, q, r, sem, cv, cr, ss + 1, sc - 1, tr, qs, qr)
           /\ Balance(call, q, r, sem, cv, cr, ss, sc - 1, tr, qs, qr)
BY DEF Balance, Waiting, Over

\* The response arrives.
LEMMA BalanceDeliver ==
    ASSUME NEW call, NEW q, NEW r \in Nat, NEW sem \in Nat, NEW cv \in Nat, NEW cr \in Nat,
           NEW ss \in Nat, NEW sc \in Nat, NEW tr \in Nat, NEW qs \in Nat, NEW qr \in Nat,
           Balance(call, q, r, sem, cv, cr, ss, sc, tr, qs, qr), ss > 0, r > 0
    PROVE  Balance(call, q, r - 1, sem, cv + 1, cr, ss - 1, sc, tr, qs, qr)
BY DEF Balance, Waiting, Over

\* What a balance says of a client in no call.
LEMMA BalanceQuiet ==
    ASSUME NEW call, NEW q, NEW r \in Nat, NEW sem \in Nat, NEW cv \in Nat, NEW cr \in Nat,
           NEW ss \in Nat, NEW sc \in Nat, NEW tr \in Nat, NEW qs \in Nat, NEW qr \in Nat,
           Balance(call, q, r, sem, cv, cr, ss, sc, tr, qs, qr), call \notin Waiting \cup Over
    PROVE  sem = 0 /\ cv = 0 /\ cr = 0 /\ ss = 0 /\ sc = 0 /\ tr = 0 /\ qs = 0 /\ qr = 0
BY DEF Balance

\* What a client has no use for while it is in no call.
LEMMA Quiet ==
    ASSUME Types, NEW c \in Conns, LocalInv(c), pc[c] \notin Waiting \cup Over
    PROVE  /\ sem_command[c] = 0 /\ scq[c] = 0 /\ ssq[c] = 0
           /\ Count(sq[c], "SEND") = 0 /\ Count(sq[c], "READ") = 0
           /\ Count(sent[c], "READ") = 0
           /\ Count(cq[c], "RECV") = 0 /\ Count(cq[c], "READ") = 0
<1> QED
  BY Numbers, BalanceQuiet DEF LocalInv, CountInv

\* The slots of the send queue that are used when k work requests are added.
LEMMA UsedGrows ==
    ASSUME Types, NEW c \in Conns, NEW k \in Nat, Length(sq'[c]) = Length(sq[c]) + k,
           sent'[c] = sent[c], cq'[c] = cq[c], Used(c) + k <= MaxSendWr
    PROVE  (Used(c) <= MaxSendWr)'
<1>1. /\ Length(sq[c]) \in Nat /\ Length(sent[c]) \in Nat /\ Length(cq[c]) \in Nat
      /\ Count(cq[c], "RECV") \in Nat
      /\ Used(c) = Length(sq[c]) + Length(sent[c]) + Length(cq[c]) - Count(cq[c], "RECV")
  BY Numbers, Zenon
<1>2. Used(c)' = Length(sq'[c]) + Length(sent'[c]) + Length(cq'[c]) - Count(cq'[c], "RECV")
  BY Zenon DEF Used, Length
<1>3. Used(c)' = Used(c) + k
  BY <1>1, <1>2
<1> QED
  BY <1>3, Zenon

\* Every post of a command, seen from the client and from the others.
LEMMA CommandEffect ==
    ASSUME Types, NEW c \in Conns, NEW w \in WrLists, NEW cmd \in Commands,
           NEW waiting \in Calls, NEW failed \in Calls,
           Command(c, w, cmd, waiting, failed)
    PROVE  /\ pc' \in [Conns -> Calls] /\ req' \in [Conns -> Commands] /\ rsp' \in [Conns -> Commands]
           /\ rq' \in [Conns -> 0 .. MaxRecvWr] /\ sq' \in [Conns -> Seq(Ops)]
           /\ \A d \in Conns \ {c} : /\ pc'[d] = pc[d] /\ req'[d] = req[d] /\ rsp'[d] = rsp[d]
                                     /\ rq'[d] = rq[d] /\ sq'[d] = sq[d]
           /\ \/ /\ pc'[c] = waiting /\ req'[c] = cmd
                 /\ \/ qp[c] = "err" /\ rq'[c] = rq[c] /\ sq'[c] = sq[c]
                    \/ /\ qp[c] # "err" /\ Used(c) + Length(w) <= MaxSendWr
                       /\ rq'[c] = rq[c] + 1 /\ sq'[c] = Queued(c, w)
              \/ /\ pc'[c] = failed
                 /\ \/ rq'[c] = rq[c] /\ sq'[c] = sq[c]
                    \/ /\ qp[c] # "err" /\ rq'[c] = rq[c] + 1
                       /\ \/ sq'[c] = sq[c]
                          \/ /\ Used(c) + 1 <= MaxSendWr
                             /\ sq'[c] = Append(sq[c], "WRITE")
           /\ UNCHANGED <<qp, sent, cq, sem_command, serverVars>>
<1>1. /\ Posted(c, w, cmd, waiting) \/ NotPosted(c, cmd, failed)
      /\ rsp' = [rsp EXCEPT ![c] = ZeroCmd]
      /\ UNCHANGED <<qp, sent, cq, sem_command, serverVars>>
  BY CommandPosts
<1>2. ZeroCmd \in Commands
  BY CmdType DEF ZeroCmd, Opcode, RPMEM_CMD_LAST, Addrs
<1>3. /\ pc \in [Conns -> Calls] /\ req \in [Conns -> Commands] /\ rsp \in [Conns -> Commands]
      /\ rq \in [Conns -> 0 .. MaxRecvWr] /\ sq \in [Conns -> Seq(Ops)]
      /\ rq[c] \in 0 .. MaxRecvWr /\ MaxRecvWr \in Nat
  BY SessionAssumption DEF Types
<1>4. Queued(c, w) \in Seq(Ops) /\ Append(sq[c], "WRITE") \in Seq(Ops)
  BY <1>3, QueuedCounts, Appended DEF Ops
<1>5. rsp' \in [Conns -> Commands] /\ \A d \in Conns \ {c} : rsp'[d] = rsp[d]
  BY <1>1, <1>2, <1>3, Update
<1>6. CASE Posted(c, w, cmd, waiting)
  <2>1. /\ pc' \in [Conns -> Calls] /\ pc'[c] = waiting
        /\ \A d \in Conns \ {c} : pc'[d] = pc[d]
    BY <1>3, <1>6, Update DEF Posted
  <2>2. /\ req' \in [Conns -> Commands] /\ req'[c] = cmd
        /\ \A d \in Conns \ {c} : req'[d] = req[d]
    BY <1>3, <1>6, Update DEF Posted
  <2>3. CASE qp[c] = "err"
    BY <1>1, <1>3, <1>5, <1>6, <2>1, <2>2, <2>3 DEF Posted
  <2>4. CASE qp[c] # "err"
    <3>1. rq[c] < MaxRecvWr /\ rq' = [rq EXCEPT ![c] = rq[c] + 1] /\ Used(c) + Length(w) <= MaxSendWr
          /\ sq' = [sq EXCEPT ![c] = Queued(c, w)]
      BY <1>6, <2>4, Zenon DEF Posted
    <3>2. rq[c] + 1 \in 0 .. MaxRecvWr
      BY <1>3, <3>1
    <3>3. rq' \in [Conns -> 0 .. MaxRecvWr] /\ rq'[c] = rq[c] + 1
          /\ \A d \in Conns \ {c} : rq'[d] = rq[d]
      BY <1>3, <3>1, <3>2, Update, Zenon
    <3>4. sq' \in [Conns -> Seq(Ops)] /\ sq'[c] = Queued(c, w)
          /\ \A d \in Conns \ {c} : sq'[d] = sq[d]
      BY <1>3, <1>4, <3>1, Update, Zenon
    <3> QED
      BY <1>1, <1>5, <2>1, <2>2, <2>4, <3>1, <3>3, <3>4, Zenon
  <2> QED
    BY <2>3, <2>4
<1>7. CASE NotPosted(c, cmd, failed)
  <2>1. /\ pc' \in [Conns -> Calls] /\ pc'[c] = failed
        /\ \A d \in Conns \ {c} : pc'[d] = pc[d]
    BY <1>3, <1>7, Update DEF NotPosted
  <2>2. req' \in [Conns -> Commands] /\ \A d \in Conns \ {c} : req'[d] = req[d]
    <3>1. CASE req' = req
      BY <1>3, <3>1
    <3>2. CASE req' = [req EXCEPT ![c] = cmd]
      BY <1>3, <3>2, Update
    <3> QED
      BY <1>7, <3>1, <3>2 DEF NotPosted
  <2>3. CASE rq' = rq /\ sq' = sq
    BY <1>1, <1>3, <1>5, <2>1, <2>2, <2>3, Zenon
  <2>4. CASE ~(rq' = rq /\ sq' = sq)
    <3>1. /\ qp[c] # "err" /\ rq[c] < MaxRecvWr /\ rq' = [rq EXCEPT ![c] = rq[c] + 1]
          /\ \/ sq' = sq
             \/ Used(c) + 1 <= MaxSendWr /\ sq' = [sq EXCEPT ![c] = Append(sq[c], "WRITE")]
      BY <1>7, <2>4, Zenon DEF NotPosted
    <3>2. rq[c] + 1 \in 0 .. MaxRecvWr
      BY <1>3, <3>1
    <3>3. rq' \in [Conns -> 0 .. MaxRecvWr] /\ rq'[c] = rq[c] + 1
          /\ \A d \in Conns \ {c} : rq'[d] = rq[d]
      BY <1>3, <3>1, <3>2, Update, Zenon
    <3>4. CASE sq' = sq
      BY <1>1, <1>3, <1>5, <2>1, <2>2, <3>1, <3>3, <3>4, Zenon
    <3>5. CASE Used(c) + 1 <= MaxSendWr /\ sq' = [sq EXCEPT ![c] = Append(sq[c], "WRITE")]
      <4>1. sq' \in [Conns -> Seq(Ops)] /\ sq'[c] = Append(sq[c], "WRITE")
            /\ \A d \in Conns \ {c} : sq'[d] = sq[d]
        BY <1>3, <1>4, <3>5, Update, Zenon
      <4> QED
        BY <1>1, <1>5, <2>1, <2>2, <3>1, <3>3, <3>5, <4>1, Zenon
    <3> QED
      BY <3>1, <3>4, <3>5
  <2> QED
    BY <2>3, <2>4
<1> QED
  BY <1>1, <1>6, <1>7

\* A command that starts outside any other, with the request that it should
\* send, keeps the invariant: open, map, commit, unmap and close are instances.
LEMMA CommandStep ==
    ASSUME SessionInv, NEW c \in Conns, NEW w \in WrLists, NEW cmd \in Commands,
           NEW waiting \in Waiting \ {"read"}, NEW failed \in Calls \ (Waiting \cup Over),
           pc[c] \notin Waiting \cup Over,
           Command(c, w, cmd, waiting, failed),
           rmr' \in [Conns -> RmrType], \A d \in Conns \ {c} : rmr'[d] = rmr[d],
           pc'[c] = waiting => RequestOf(waiting, rmr'[c], cmd)
    PROVE  SessionInv'
<1>1. Types /\ PoolPart /\ LocalInv(c) /\ waiting \in Calls
  BY DEF SessionInv, Calls
<1>2. /\ pc' \in [Conns -> Calls] /\ req' \in [Conns -> Commands] /\ rsp' \in [Conns -> Commands]
      /\ rq' \in [Conns -> 0 .. MaxRecvWr] /\ sq' \in [Conns -> Seq(Ops)]
      /\ \A d \in Conns \ {c} : /\ pc'[d] = pc[d] /\ req'[d] = req[d] /\ rsp'[d] = rsp[d]
                                /\ rq'[d] = rq[d] /\ sq'[d] = sq[d]
      /\ UNCHANGED <<qp, sent, cq, sem_command, serverVars>>
  BY <1>1, CommandEffect
<1>3. Types'
  BY <1>1, <1>2 DEF Types, RmrType, serverVars, unitVars, storeVars
<1>4. PoolPart'
  BY <1>1, <1>2 DEF PoolPart, serverVars, poolVars
<1>6. \A d \in Conns \ {c} : Same(d)
  BY <1>2 DEF Same, serverVars, unitVars
<1>5. LocalInv(c)'
  <2>1. /\ qp'[c] = qp[c] /\ sent'[c] = sent[c] /\ cq'[c] = cq[c]
        /\ sem_command'[c] = sem_command[c]
        /\ srq'[c] = srq[c] /\ scq'[c] = scq[c] /\ ssq'[c] = ssq[c]
    BY <1>2 DEF serverVars, unitVars
  <2>2. /\ sem_command[c] = 0 /\ scq[c] = 0 /\ ssq[c] = 0
        /\ Count(sq[c], "SEND") = 0 /\ Count(cq[c], "RECV") = 0
    BY <1>1, Quiet
  <2>3. /\ rq[c] \in Nat /\ sem_command[c] \in Nat /\ scq[c] \in Nat /\ ssq[c] \in Nat
        /\ Count(sq[c], "SEND") \in Nat /\ Count(sq[c], "READ") \in Nat
        /\ Count(sent[c], "READ") \in Nat
        /\ Count(cq[c], "RECV") \in Nat /\ Count(cq[c], "READ") \in Nat
    BY <1>1, Numbers, Zenon
  <2>4. \/ pc'[c] = waiting /\ req'[c] = cmd
        \/ pc'[c] = failed
    BY <1>1, CommandEffect
  <2>5. pc'[c] \notin Over
    BY <2>4 DEF Waiting, Over
  <2> DEFINE next == pc'[c]
             B(call, r, qs) == Balance(call, qp[c], r, sem_command[c], Count(cq[c], "RECV"),
                    Count(cq[c], "READ"), ssq[c], scq[c], Count(sent[c], "READ"), qs, Count(sq[c], "READ"))
  <2>b. B(pc[c], rq[c], Count(sq[c], "SEND"))
    BY <1>1 DEF LocalInv, CountInv
  <2>w. B(waiting, rq[c], Count(sq[c], "SEND")) /\ B(waiting, rq[c] + 1, Count(sq[c], "SEND") + 1)
    BY <2>3, <2>b, BalancePost, BalanceLost
  <2>f. B(failed, rq[c], Count(sq[c], "SEND")) /\ B(failed, rq[c] + 1, Count(sq[c], "SEND"))
    BY <2>3, <2>b, BalanceFail
  <2>6. MsgInv(c)'
    <3>1. CASE pc'[c] = failed
      BY <3>1 DEF MsgInv
    <3>2. CASE pc'[c] = waiting /\ req'[c] = cmd
      BY <2>1, <2>2, <3>2 DEF MsgInv, IsRequest
    <3> QED
      BY <2>4, <3>1, <3>2
  <2>7. CASE rq'[c] = rq[c] /\ sq'[c] = sq[c]
    <3>1. FlushInv(c)' /\ (Used(c) <= MaxSendWr)'
      BY <1>1, <2>1, <2>5, <2>7 DEF LocalInv, FlushInv, Used
    <3>2. CountInv(c)'
      BY <2>1, <2>4, <2>7, <2>w, <2>f DEF CountInv
    <3> QED
      BY <2>6, <3>1, <3>2 DEF LocalInv
  <2>8. CASE /\ qp[c] # "err" /\ rq'[c] = rq[c] + 1 /\ sq'[c] = Queued(c, w)
             /\ pc'[c] = waiting /\ Used(c) + Length(w) <= MaxSendWr
    <3>1. /\ Length(sq'[c]) = Length(sq[c]) + Length(w) /\ Length(w) \in Nat
          /\ Count(sq'[c], "SEND") = Count(sq[c], "SEND") + 1
          /\ Count(sq'[c], "READ") = Count(sq[c], "READ")
      BY <1>1, <2>8, QueuedCounts
    <3>2. CountInv(c)'
      BY <2>1, <2>8, <2>w, <3>1, Zenon DEF CountInv
    <3>3. (Used(c) <= MaxSendWr)'
      BY <1>1, <2>1, <2>8, <3>1, UsedGrows
    <3> QED
      BY <2>1, <2>5, <2>6, <2>8, <3>2, <3>3 DEF LocalInv, FlushInv
  <2>9. CASE /\ qp[c] # "err" /\ rq'[c] = rq[c] + 1 /\ pc'[c] = failed
             /\ sq'[c] = sq[c] \/ (sq'[c] = Append(sq[c], "WRITE") /\ Used(c) + 1 <= MaxSendWr)
    <3>1. /\ Count(sq'[c], "SEND") = Count(sq[c], "SEND")
          /\ Count(sq'[c], "READ") = Count(sq[c], "READ")
      <4>1. sq[c] \in Seq(Ops) /\ "WRITE" \in Ops /\ "WRITE" # "SEND" /\ "WRITE" # "READ"
        BY <1>1 DEF Types, Ops
      <4>2. /\ Count(Append(sq[c], "WRITE"), "SEND") = Count(sq[c], "SEND") + 0
            /\ Count(Append(sq[c], "WRITE"), "READ") = Count(sq[c], "READ") + 0
        BY <4>1, Appended, Zenon
      <4>3. /\ Count(sq[c], "SEND") + 0 = Count(sq[c], "SEND")
            /\ Count(sq[c], "READ") + 0 = Count(sq[c], "READ")
        BY <2>3
      <4> QED
        BY <2>9, <4>2, <4>3, Zenon
    <3>2. CountInv(c)'
      BY <2>1, <2>9, <2>f, <3>1, Zenon DEF CountInv
    <3>3. (Used(c) <= MaxSendWr)'
      <4>1. CASE sq'[c] = sq[c]
        BY <1>1, <2>1, <4>1 DEF LocalInv, Used
      <4>2. CASE sq'[c] = Append(sq[c], "WRITE") /\ Used(c) + 1 <= MaxSendWr
        <5>1. Length(sq'[c]) = Length(sq[c]) + 1
          BY <1>1, <4>2, Appended DEF Types, Ops
        <5> QED
          BY <1>1, <2>1, <4>2, <5>1, UsedGrows
      <4> QED
        BY <2>9, <4>1, <4>2
    <3> QED
      BY <2>1, <2>5, <2>6, <2>9, <3>2, <3>3 DEF LocalInv, FlushInv
  <2> QED
    BY <1>1, <2>7, <2>8, <2>9, CommandEffect
<1> QED
  BY <1>3, <1>4, <1>5, <1>6, OneSession

\* The opcodes of the responses.
LEMMA ExpectedIs ==
    /\ Expected("open") = 1 /\ Expected("close") = 3 /\ Expected("map") = 5
    /\ Expected("unmap") = 7 /\ Expected("commit") = 9
BY DEF Expected, RPMEM_OPEN_RSP, RPMEM_CLOSE_RSP, RPMEM_MAP_RSP, RPMEM_UNMAP_RSP, RPMEM_COMMIT_RSP

\* The calls that start a command.
LEMMA CommandActions ==
    ASSUME SessionInv, NEW c \in Conns,
           Open(c) \/ Unmap(c) \/ Commit(c) \/ Close(c) \/ \E len \in Lens : Map(c, len)
    PROVE  SessionInv'
<1>0. rmr \in [Conns -> RmrType] /\ rmr[c] \in RmrType
  BY DEF SessionInv, Types, RmrType
<1>a. rmr[c].len \in Lens \cup {0} /\ rmr[c].remote_addr \in Addrs
  BY <1>0 DEF RmrType
<1>1. rmr \in [Conns -> RmrType] /\ rmr[c] \in RmrType /\ rmr[c].len \in Int /\ rmr[c].remote_addr \in Addrs
  <2>1. Lens \cup {0} \subseteq Int
    BY SessionAssumption
  <2> QED
    BY <1>0, <1>a, <2>1, Zenon
<1>2. <<"SEND">> \in WrLists /\ <<"WRITE", "SEND">> \in WrLists
  BY DEF WrLists
<1>3. Open(c) => SessionInv'
  <2> HAVE Open(c)
  <2>1. PICK cmd \in Commands : cmd = pack_open_req /\ cmd.opcode = RPMEM_OPEN_REQ
    BY CmdType DEF pack_open_req, Opcode, RPMEM_OPEN_REQ, RPMEM_CMD_LAST, Addrs
  <2>2. /\ pc[c] = "init" /\ Command(c, <<"SEND">>, cmd, "open", "teardown") /\ rmr' = rmr
    BY <2>1, Zenon DEF Open
  <2>3. RequestOf("open", rmr'[c], cmd)
    BY <2>1 DEF RequestOf, Expected, RPMEM_OPEN_REQ, RPMEM_OPEN_RSP
  <2> QED
    BY <1>1, <1>2, <2>2, <2>3, CommandStep DEF Waiting, Calls, Over
<1>4. Close(c) => SessionInv'
  <2> HAVE Close(c)
  <2>1. PICK cmd \in Commands : cmd = pack_close_req /\ cmd.opcode = RPMEM_CLOSE_REQ
    BY CmdType DEF pack_close_req, Opcode, RPMEM_CLOSE_REQ, RPMEM_CMD_LAST, Addrs
  <2>2. /\ pc[c] \in {"idle", "mapped"} /\ Command(c, <<"SEND">>, cmd, "close", "teardown") /\ rmr' = rmr
    BY <2>1, Zenon DEF Close
  <2>3. RequestOf("close", rmr'[c], cmd)
    BY <2>1 DEF RequestOf, Expected, RPMEM_CLOSE_REQ, RPMEM_CLOSE_RSP
  <2> QED
    BY <1>1, <1>2, <2>2, <2>3, CommandStep DEF Waiting, Calls, Over
<1>5. Unmap(c) => SessionInv'
  <2> HAVE Unmap(c)
  <2>1. PICK cmd \in Commands : cmd = pack_unmap_req(rmr[c].len, rmr[c].remote_addr)
    BY <1>1, CmdType DEF pack_unmap_req, Opcode, RPMEM_UNMAP_REQ, RPMEM_CMD_LAST
  <2>2. /\ pc[c] = "mapped" /\ Command(c, <<"SEND">>, cmd, "unmap", "unmap failed") /\ rmr' = rmr
    BY <2>1, Zenon DEF Unmap
  <2>3. RequestOf("unmap", rmr'[c], cmd)
    <3>1. cmd.opcode = 6 /\ cmd.word = ToUint32(rmr[c].len) /\ cmd.remote_addr = rmr[c].remote_addr
      BY <2>1 DEF pack_unmap_req, Cmd, RPMEM_UNMAP_REQ
    <3> QED
      <4>1. cmd.opcode = Expected("unmap") - 1
        BY <3>1, ExpectedIs
      <4> QED
        BY <2>2, <3>1, <4>1 DEF RequestOf
  <2> QED
    BY <1>1, <1>2, <2>2, <2>3, CommandStep DEF Waiting, Calls, Over
<1>6. Commit(c) => SessionInv'
  <2> HAVE Commit(c)
  <2>1. PICK cmd \in Commands : cmd = pack_commit_req(rmr[c].len, rmr[c].remote_addr)
    BY <1>1, CmdType DEF pack_commit_req, Opcode, RPMEM_COMMIT_REQ, RPMEM_CMD_LAST
  <2>2. /\ pc[c] = "mapped" /\ Command(c, <<"WRITE", "SEND">>, cmd, "commit", "mapped") /\ rmr' = rmr
    BY <2>1, Zenon DEF Commit
  <2>3. RequestOf("commit", rmr'[c], cmd)
    BY <2>1, <2>2 DEF RequestOf, Expected, pack_commit_req, Cmd, RPMEM_COMMIT_REQ, RPMEM_COMMIT_RSP
  <2> QED
    BY <1>1, <1>2, <2>2, <2>3, CommandStep DEF Waiting, Calls, Over
<1>7. ASSUME NEW len \in Lens, Map(c, len) PROVE SessionInv'
  <2>0. len \in Int
    BY SessionAssumption
  <2>1. PICK cmd \in Commands : cmd = pack_map_req(len)
    BY <2>0, CmdType DEF pack_map_req, Opcode, RPMEM_MAP_REQ, RPMEM_CMD_LAST, Addrs
  <2>2. /\ pc[c] = "idle" /\ Command(c, <<"SEND">>, cmd, "map", "idle")
        /\ rmr' = IF pc'[c] = "map" THEN [rmr EXCEPT ![c].len = len] ELSE rmr
    BY <1>7, <2>1, Zenon DEF Map
  <2>3. rmr' \in [Conns -> RmrType] /\ \A d \in Conns \ {c} : rmr'[d] = rmr[d]
    BY <1>1, <2>2 DEF RmrType
  <2>4. pc'[c] = "map" => RequestOf("map", rmr'[c], cmd)
    BY <1>1, <2>1, <2>2 DEF RequestOf, Expected, pack_map_req, Cmd, RPMEM_MAP_REQ, RPMEM_MAP_RSP, RmrType
  <2> QED
    BY <1>2, <2>2, <2>3, <2>4, CommandStep DEF Waiting, Calls, Over
<1> QED
  BY <1>3, <1>4, <1>5, <1>6, <1>7

\* The queues and the counts of a session whose queue pair is flushed.
LEMMA GoneStep ==
    ASSUME SessionInv, NEW c \in Conns, NEW how \in Over, Gone(c, how)
    PROVE  SessionInv'
<1>1. Types /\ PoolPart
  BY DEF SessionInv
<1>2. /\ ZeroCmd \in Commands /\ NoMap \in RmrType /\ how \in Calls /\ how \notin Waiting
      /\ 0 \in 0 .. MaxRecvWr
  <2>1. ZeroCmd \in Commands
    BY CmdType DEF ZeroCmd, Opcode, RPMEM_CMD_LAST, Addrs
  <2>2. NoMap \in RmrType
    BY WordAssumption, SessionAssumption DEF NoMap, RmrType, Addrs
  <2>3. how \in Calls /\ how \notin Waiting
    BY DEF Over, Calls, Waiting
  <2>4. 0 \in 0 .. MaxRecvWr
    BY SessionAssumption
  <2> QED
    BY <2>1, <2>2, <2>3, <2>4
<1>3. Types'
  <2>1. /\ pc' \in [Conns -> Calls] /\ sem_command' \in [Conns -> Nat]
        /\ req' \in [Conns -> Commands] /\ rsp' \in [Conns -> Commands]
        /\ rmr' \in [Conns -> RmrType]
    BY <1>1, <1>2 DEF Gone, Types, RmrType
  <2>2. qp' \in [Conns -> {"rts", "err"}]
    BY <1>1 DEF Gone, Break, Types
  <2>5. sq' \in [Conns -> Seq(Ops)] /\ sent' \in [Conns -> Seq(Ops)] /\ cq' \in [Conns -> Seq(Ops \cup {"RECV"})]
    <3>1. <<>> \in Seq(Ops) /\ <<>> \in Seq(Ops \cup {"RECV"})
      OBVIOUS
    <3> QED
      BY <1>1, <3>1, Zenon, Update DEF Gone, Break, Types
  <2>3. /\ rq' \in [Conns -> 0 .. MaxRecvWr] /\ srq' \in [Conns -> Nat] /\ ssq' \in [Conns -> Nat]
    BY <1>1, <1>2 DEF Gone, Break, Types
  <2>4. UNCHANGED <<scq, sreq, srsp, up, mr, mem, file>>
    BY DEF Gone, storeVars
  <2> QED
    BY <1>1, <2>1, <2>2, <2>3, <2>4, <2>5 DEF Types, RmrType
<1>4. PoolPart'
  BY <1>1 DEF PoolPart, Gone, poolVars
<1>5. LocalInv(c)'
  <2>1. /\ pc'[c] = how /\ qp'[c] = "err" /\ sem_command'[c] = 0 /\ cq'[c] = <<>>
        /\ sq'[c] = <<>> /\ sent'[c] = <<>> /\ rq'[c] = 0 /\ srq'[c] = 0 /\ ssq'[c] = 0
    BY <1>1 DEF Types, Gone, Break
  <2>2. FlushInv(c)' /\ MsgInv(c)' /\ CountInv(c)'
    BY <1>2, <2>1 DEF FlushInv, MsgInv, CountInv, Balance
  <2>3. (Used(c) <= MaxSendWr)'
    <3>1. Used(c)' = 0 + 0 + 0 - 0
      BY <2>1, CountEmpty DEF Used
    <3> QED
      BY <3>1, SessionAssumption
  <2> QED
    BY <2>2, <2>3 DEF LocalInv
<1>6. \A d \in Conns \ {c} : Same(d)
  BY <1>1 DEF Types, Gone, Break, Same
<1> QED
  BY <1>3, <1>4, <1>5, <1>6, OneSession

\* sem_wait returns.
LEMMA WakeType ==
    ASSUME sem_command \in [Conns -> Nat], NEW c \in Conns, Wake(c)
    PROVE  /\ sem_command' \in [Conns -> Nat]
           /\ sem_command[c] > 0 /\ sem_command'[c] = sem_command[c] - 1
           /\ \A d \in Conns \ {c} : sem_command'[d] = sem_command[d]
<1>1. sem_command[c] \in Nat /\ sem_command[c] > 0
  BY DEF Wake
<1>2. sem_command[c] - 1 \in Nat
  BY <1>1
<1>3. sem_command' = [sem_command EXCEPT ![c] = sem_command[c] - 1]
  BY DEF Wake
<1> QED
  BY <1>1, <1>2, <1>3, Update, Zenon

\* A step that leaves the client in no call: a return that takes a wakeup, or a
\* step of the application.
LEMMA ReturnStep ==
    ASSUME SessionInv, NEW c \in Conns, NEW next \in Calls \ (Waiting \cup Over),
           pc' = [pc EXCEPT ![c] = next],
           \/ pc[c] \in Waiting /\ Wake(c)
           \/ pc[c] \notin Waiting \cup Over /\ sem_command' = sem_command,
           rmr' \in [Conns -> RmrType], \A d \in Conns \ {c} : rmr'[d] = rmr[d],
           sq' = sq \/ sq' = [sq EXCEPT ![c] = Dereg(sq[c])],
           UNCHANGED <<req, rsp, qp, sent, rq, cq, serverVars>>
    PROVE  SessionInv'
<1>1. Types /\ PoolPart /\ LocalInv(c)
  BY DEF SessionInv
<1>2. /\ pc' \in [Conns -> Calls] /\ pc'[c] = next
      /\ \A d \in Conns \ {c} : pc'[d] = pc[d]
  BY <1>1 DEF Types
<1>3. /\ sem_command \in [Conns -> Nat] /\ sem_command' \in [Conns -> Nat]
      /\ \A d \in Conns \ {c} : sem_command'[d] = sem_command[d]
  BY <1>1, WakeType DEF Types
<1>4. /\ sq[c] \in Seq(Ops) /\ Dereg(sq[c]) \in Seq(Ops) /\ Length(Dereg(sq[c])) = Length(sq[c])
      /\ Count(Dereg(sq[c]), "SEND") = Count(sq[c], "SEND")
      /\ Count(Dereg(sq[c]), "READ") = Count(sq[c], "READ")
  <2>1. sq[c] \in Seq(Ops)
    BY <1>1 DEF Types
  <2> QED
    BY <2>1, CountDereg, Zenon DEF Length
<1>5. /\ sq' \in [Conns -> Seq(Ops)] /\ \A d \in Conns \ {c} : sq'[d] = sq[d]
      /\ sq'[c] = sq[c] \/ sq'[c] = Dereg(sq[c])
  <2>1. sq \in [Conns -> Seq(Ops)]
    BY <1>1 DEF Types
  <2>2. CASE sq' = sq
    BY <2>1, <2>2
  <2>3. CASE sq' = [sq EXCEPT ![c] = Dereg(sq[c])]
    BY <1>4, <2>1, <2>3, Update, Zenon
  <2> QED
    BY <2>2, <2>3
<1>6. Types'
  BY <1>1, <1>2, <1>3, <1>5 DEF Types, RmrType, serverVars, unitVars, storeVars
<1>7. PoolPart'
  BY <1>1 DEF PoolPart, serverVars, poolVars
<1>8. \A d \in Conns \ {c} : Same(d)
  BY <1>2, <1>3, <1>5 DEF Same, serverVars, unitVars
<1>9. LocalInv(c)'
  <2>1. /\ qp'[c] = qp[c] /\ sent'[c] = sent[c] /\ cq'[c] = cq[c] /\ rq'[c] = rq[c]
        /\ srq'[c] = srq[c] /\ scq'[c] = scq[c] /\ ssq'[c] = ssq[c]
    BY DEF serverVars, unitVars
  <2>2. /\ Length(sq'[c]) = Length(sq[c]) /\ Count(sq'[c], "SEND") = Count(sq[c], "SEND")
        /\ Count(sq'[c], "READ") = Count(sq[c], "READ")
    BY <1>4, <1>5, Zenon
  <2>3. (Used(c) <= MaxSendWr)'
    <3>1. Used(c)' = Used(c)
      BY <2>1, <2>2, Zenon DEF Used, Length
    <3> QED
      BY <1>1, <3>1, Zenon DEF LocalInv
  <2>4. MsgInv(c)'
    BY <1>2 DEF MsgInv
  <2>5. FlushInv(c)'
    <3>1. sq[c] = <<>> => sq'[c] = <<>>
      BY <1>4, <1>5, <2>2 DEF Length
    <3> QED
      BY <1>1, <1>2, <2>1, <3>1 DEF LocalInv, FlushInv
  <2>6. CountInv(c)'
    <3>1. /\ rq[c] \in Nat /\ sem_command[c] \in Nat /\ scq[c] \in Nat /\ ssq[c] \in Nat
          /\ Count(sq[c], "SEND") \in Nat /\ Count(sq[c], "READ") \in Nat
          /\ Count(sent[c], "READ") \in Nat
          /\ Count(cq[c], "RECV") \in Nat /\ Count(cq[c], "READ") \in Nat
      BY <1>1, Numbers, Zenon
    <3> DEFINE B(call, sem) == Balance(call, qp[c], rq[c], sem, Count(cq[c], "RECV"),
             Count(cq[c], "READ"), ssq[c], scq[c], Count(sent[c], "READ"),
             Count(sq[c], "SEND"), Count(sq[c], "READ"))
    <3>2. B(pc[c], sem_command[c])
      BY <1>1 DEF LocalInv, CountInv
    <3>3. CASE pc[c] \in Waiting /\ Wake(c)
      <4>1. sem_command[c] > 0 /\ sem_command'[c] = sem_command[c] - 1
        BY <1>3, <3>3 DEF Wake
      <4>2. B(next, sem_command[c] - 1)
        BY <3>1, <3>2, <3>3, <4>1, BalanceReturn
      <4> QED
        BY <1>2, <2>1, <2>2, <4>1, <4>2 DEF CountInv
    <3>4. CASE pc[c] \notin Waiting \cup Over /\ sem_command' = sem_command
      <4>1. B(next, sem_command[c])
        BY <3>1, <3>2, <3>4, BalanceFail
      <4> QED
        BY <1>2, <2>1, <2>2, <3>4, <4>1 DEF CountInv
    <3> QED
      BY <3>3, <3>4
  <2> QED
    BY <2>3, <2>4, <2>5, <2>6 DEF LocalInv
<1> QED
  BY <1>6, <1>7, <1>8, <1>9, OneSession

\* rpmem_map after the response, when it posts the RDMA READ.
LEMMA ReadStep ==
    ASSUME SessionInv, NEW c \in Conns, pc[c] = "map", Wake(c), Room(c, 1),
           pc' = [pc EXCEPT ![c] = "read"],
           rmr' \in [Conns -> RmrType], \A d \in Conns \ {c} : rmr'[d] = rmr[d],
           sq' = IF qp[c] = "rts" THEN [sq EXCEPT ![c] = Append(sq[c], "READ")] ELSE sq,
           UNCHANGED <<req, rsp, qp, sent, rq, cq, serverVars>>
    PROVE  SessionInv'
<1>1. Types /\ PoolPart /\ LocalInv(c)
  BY DEF SessionInv
<1>2. /\ pc' \in [Conns -> Calls] /\ pc'[c] = "read"
      /\ \A d \in Conns \ {c} : pc'[d] = pc[d]
  BY <1>1 DEF Types, Calls, Waiting
<1>3. /\ sem_command' \in [Conns -> Nat] /\ sem_command[c] > 0
      /\ sem_command'[c] = sem_command[c] - 1
      /\ \A d \in Conns \ {c} : sem_command'[d] = sem_command[d]
  BY <1>1, WakeType DEF Types
<1>4. sq[c] \in Seq(Ops) /\ sq \in [Conns -> Seq(Ops)] /\ "READ" \in Ops /\ qp[c] \in {"rts", "err"}
  BY <1>1 DEF Types, Ops
<1>n. /\ rq[c] \in Nat /\ sem_command[c] \in Nat /\ scq[c] \in Nat /\ ssq[c] \in Nat
      /\ Count(sq[c], "SEND") \in Nat /\ Count(sq[c], "READ") \in Nat
      /\ Count(sent[c], "READ") \in Nat
      /\ Count(cq[c], "RECV") \in Nat /\ Count(cq[c], "READ") \in Nat
      /\ Used(c) \in Int
  BY <1>1, Numbers, Zenon
<1>5. /\ Append(sq[c], "READ") \in Seq(Ops) /\ Length(Append(sq[c], "READ")) = Length(sq[c]) + 1
      /\ Count(Append(sq[c], "READ"), "SEND") = Count(sq[c], "SEND")
      /\ Count(Append(sq[c], "READ"), "READ") = Count(sq[c], "READ") + 1
  <2>1. /\ Append(sq[c], "READ") \in Seq(Ops) /\ Length(Append(sq[c], "READ")) = Length(sq[c]) + 1
        /\ Count(Append(sq[c], "READ"), "SEND") = Count(sq[c], "SEND") + 0
        /\ Count(Append(sq[c], "READ"), "READ") = Count(sq[c], "READ") + 1
    <3>1. "READ" # "SEND"
      OBVIOUS
    <3> QED
      BY <1>4, <3>1, Appended, Zenon
  <2>2. Count(sq[c], "SEND") + 0 = Count(sq[c], "SEND")
    BY <1>n
  <2> QED
    BY <2>1, <2>2, Zenon
<1>6. /\ sq' \in [Conns -> Seq(Ops)] /\ \A d \in Conns \ {c} : sq'[d] = sq[d]
      /\ sq'[c] = IF qp[c] = "rts" THEN Append(sq[c], "READ") ELSE sq[c]
  <2>1. CASE qp[c] = "rts"
    BY <1>4, <1>5, <2>1, Update, Zenon
  <2>2. CASE qp[c] # "rts"
    BY <1>4, <2>2, Zenon
  <2> QED
    BY <2>1, <2>2
<1>7. Types'
  BY <1>1, <1>2, <1>3, <1>6 DEF Types, RmrType, serverVars, unitVars, storeVars
<1>8. PoolPart'
  BY <1>1 DEF PoolPart, serverVars, poolVars
<1>9. \A d \in Conns \ {c} : Same(d)
  BY <1>2, <1>3, <1>6 DEF Same, serverVars, unitVars
<1>10. LocalInv(c)'
  <2>1. /\ qp'[c] = qp[c] /\ sent'[c] = sent[c] /\ cq'[c] = cq[c] /\ rq'[c] = rq[c]
        /\ srq'[c] = srq[c] /\ scq'[c] = scq[c] /\ ssq'[c] = ssq[c]
    BY DEF serverVars, unitVars
  <2>2. FlushInv(c)' /\ MsgInv(c)'
    BY <1>1, <1>2, <1>4, <1>6, <2>1 DEF LocalInv, FlushInv, MsgInv, Over
  <2> DEFINE B(call, sem, qr) == Balance(call, qp[c], rq[c], sem, Count(cq[c], "RECV"),
             Count(cq[c], "READ"), ssq[c], scq[c], Count(sent[c], "READ"),
             Count(sq[c], "SEND"), qr)
  <2>3. B(pc[c], sem_command[c], Count(sq[c], "READ"))
    BY <1>1 DEF LocalInv, CountInv
  <2>4. /\ B("read", sem_command[c] - 1, Count(sq[c], "READ"))
        /\ B("read", sem_command[c] - 1, Count(sq[c], "READ") + 1)
    BY <1>3, <1>n, <2>3, BalanceRead
  <2>5. CASE qp[c] = "rts"
    <3>1. CountInv(c)'
      BY <1>2, <1>3, <1>5, <1>6, <2>1, <2>4, <2>5, Zenon DEF CountInv
    <3>2. Used(c) + 1 <= MaxSendWr
      BY <1>n, <2>5, SessionAssumption DEF Room
    <3>3. (Used(c) <= MaxSendWr)'
      BY <1>1, <1>5, <1>6, <2>1, <2>5, <3>2, UsedGrows
    <3> QED
      BY <2>2, <3>1, <3>3 DEF LocalInv
  <2>6. CASE qp[c] # "rts"
    <3>1. CountInv(c)'
      BY <1>2, <1>3, <1>6, <2>1, <2>4, <2>6, Zenon DEF CountInv
    <3>2. (Used(c) <= MaxSendWr)'
      BY <1>1, <1>6, <2>1, <2>6 DEF LocalInv, Used
    <3> QED
      BY <2>2, <3>1, <3>2 DEF LocalInv
  <2> QED
    BY <2>5, <2>6
<1> QED
  BY <1>7, <1>8, <1>9, <1>10, OneSession

\* The returns of the commands, and the application's own step.
LEMMA ReturnActions ==
    ASSUME SessionInv, NEW c \in Conns,
           \/ OpenReturns(c) \/ MapRead(c) \/ MapReturns(c) \/ UnmapReturns(c)
           \/ CommitReturns(c) \/ CloseReturns(c) \/ \E data \in Contents : AppWrite(c, data)
    PROVE  SessionInv'
<1>1. /\ rmr \in [Conns -> RmrType] /\ rmr[c] \in RmrType /\ pc \in [Conns -> Calls]
      /\ rsp[c] \in Commands /\ rsp[c].word \in 0 .. Word - 1 /\ rsp[c].remote_addr \in Addrs
  BY DEF SessionInv, Types, RmrType, Commands
<1>2. NoMap \in RmrType
  BY WordAssumption, SessionAssumption DEF NoMap, RmrType, Addrs
<1>3. {"open", "map", "read", "unmap", "commit", "close"} \subseteq Waiting
      /\ {"idle", "mapped", "teardown"} \subseteq Calls \ (Waiting \cup Over)
      /\ "unmap failed" \notin Waiting \cup Over /\ "mapped" \notin Waiting \cup Over
  BY DEF Calls, Waiting, Over
<1>4. OpenReturns(c) => SessionInv'
  <2> HAVE OpenReturns(c)
  <2>1. PICK next \in {"idle", "teardown"} : pc' = [pc EXCEPT ![c] = next]
    BY DEF OpenReturns
  <2> QED
    BY <1>1, <1>3, <2>1, ReturnStep DEF OpenReturns, queueVars
<1>5. MapReturns(c) => SessionInv'
  BY <1>1, <1>3, ReturnStep DEF MapReturns, queueVars
<1>6. CommitReturns(c) => SessionInv'
  BY <1>1, <1>3, ReturnStep DEF CommitReturns, queueVars
<1>7. CloseReturns(c) => SessionInv'
  BY <1>1, <1>3, ReturnStep DEF CloseReturns, queueVars
<1>8. ASSUME UnmapReturns(c) PROVE SessionInv'
  <2>1. rmr' \in [Conns -> RmrType] /\ \A d \in Conns \ {c} : rmr'[d] = rmr[d]
    BY <1>1, <1>2, <1>8, Update DEF UnmapReturns
  <2>2. sq' = [sq EXCEPT ![c] = Dereg(sq[c])] /\ pc' = [pc EXCEPT ![c] = "idle"]
        /\ UNCHANGED <<req, rsp, qp, sent, rq, cq, serverVars>>
    BY <1>8 DEF UnmapReturns
  <2>3. \/ pc[c] \in Waiting /\ Wake(c)
        \/ pc[c] \notin Waiting \cup Over /\ sem_command' = sem_command
    BY <1>3, <1>8 DEF UnmapReturns
  <2> QED
    BY <1>3, <2>1, <2>2, <2>3, ReturnStep
<1>9. ASSUME NEW data \in Contents, AppWrite(c, data) PROVE SessionInv'
  <2>1. rmr' \in [Conns -> RmrType] /\ \A d \in Conns \ {c} : rmr'[d] = rmr[d]
    BY <1>1, <1>9 DEF AppWrite, RmrType
  <2>2. pc' = [pc EXCEPT ![c] = "mapped"]
    BY <1>1, <1>9 DEF AppWrite
  <2>3. /\ pc[c] \notin Waiting \cup Over /\ sem_command' = sem_command /\ sq' = sq
        /\ UNCHANGED <<req, rsp, qp, sent, rq, cq, serverVars>>
    BY <1>3, <1>9 DEF AppWrite, queueVars
  <2> QED
    BY <1>3, <2>1, <2>2, <2>3, ReturnStep
<1>10. ASSUME MapRead(c) PROVE SessionInv'
  <2>1. PICK posted \in BOOLEAN :
        /\ posted => Room(c, 1)
        /\ pc' = [pc EXCEPT ![c] = IF posted THEN "read" ELSE "idle"]
        /\ rmr' = [rmr EXCEPT ![c] =
               IF posted THEN [@ EXCEPT !.rkey = rsp[c].word,
                                        !.remote_addr = rsp[c].remote_addr]
               ELSE NoMap]
        /\ sq' = IF posted /\ qp[c] = "rts" THEN [sq EXCEPT ![c] = Append(@, "READ")]
                 ELSE sq
    BY <1>10 DEF MapRead
  <2>2. pc[c] = "map" /\ Wake(c) /\ UNCHANGED <<req, rsp, qp, sent, rq, cq, serverVars>>
    BY <1>10 DEF MapRead
  <2>3. rmr' \in [Conns -> RmrType] /\ \A d \in Conns \ {c} : rmr'[d] = rmr[d]
    <3>1. CASE posted
      BY <1>1, <2>1, <3>1 DEF RmrType
    <3>2. CASE ~posted
      BY <1>1, <1>2, <2>1, <3>2
    <3> QED
      BY <3>1, <3>2
  <2>4. CASE posted
    BY <2>1, <2>2, <2>3, <2>4, ReadStep
  <2>5. CASE ~posted
    BY <1>3, <2>1, <2>2, <2>3, <2>5, ReturnStep
  <2> QED
    BY <2>4, <2>5
<1> QED
  BY <1>4, <1>5, <1>6, <1>7, <1>8, <1>9, <1>10

\* The first entry leaves a queue.
LEMMA Taken ==
    ASSUME NEW S, NEW s \in Seq(S), s # <<>>, NEW op
    PROVE  /\ Tail(s) \in Seq(S) /\ Head(s) \in S /\ Length(Tail(s)) = Length(s) - 1
           /\ Length(s) \in Nat \ {0} /\ Count(s, op) \in Nat /\ Count(Tail(s), op) \in Nat
           /\ Head(s) = op => Count(Tail(s), op) = Count(s, op) - 1 /\ Count(s, op) > 0
           /\ Head(s) # op => Count(Tail(s), op) = Count(s, op)
<1>1. /\ Tail(s) \in Seq(S) /\ Head(s) \in S /\ Len(Tail(s)) = Len(s) - 1 /\ Len(s) \in Nat \ {0}
  OBVIOUS
<1>2. Length(Tail(s)) = Length(s) - 1 /\ Length(s) \in Nat \ {0}
  BY <1>1, Zenon DEF Length
<1>3. Count(s, op) \in Nat /\ Count(Tail(s), op) \in Nat
  BY <1>1, CountType
<1>4. Count(s, op) = Count(Tail(s), op) + IF Head(s) = op THEN 1 ELSE 0
  BY CountTail
<1>5. CASE Head(s) = op
  <2>1. Count(s, op) = Count(Tail(s), op) + 1
    BY <1>4, <1>5, Zenon
  <2>2. Count(Tail(s), op) = Count(s, op) - 1 /\ Count(s, op) > 0
    BY <1>3, <2>1
  <2> QED
    BY <1>1, <1>2, <1>3, <1>5, <2>2, Zenon
<1>6. CASE Head(s) # op
  <2>1. Count(s, op) = Count(Tail(s), op) + 0
    BY <1>4, <1>6, Zenon
  <2>2. Count(Tail(s), op) = Count(s, op)
    BY <1>3, <2>1
  <2> QED
    BY <1>1, <1>2, <1>3, <1>6, <2>2, Zenon
<1> QED
  BY <1>5, <1>6

\* The client's cq_thread takes a completion.
LEMMA HandleWcStep ==
    ASSUME SessionInv, NEW c \in Conns, HandleWc(c)
    PROVE  SessionInv'
<1>1. Types /\ PoolPart /\ LocalInv(c) /\ cq[c] # <<>>
  BY DEF SessionInv, HandleWc
<1>2. cq \in [Conns -> Seq(Ops \cup {"RECV"})] /\ cq[c] \in Seq(Ops \cup {"RECV"})
      /\ cq' = [cq EXCEPT ![c] = Tail(cq[c])]
  BY <1>1 DEF Types, HandleWc
<1>3. /\ Tail(cq[c]) \in Seq(Ops \cup {"RECV"}) /\ Length(Tail(cq[c])) = Length(cq[c]) - 1
      /\ Length(cq[c]) \in Nat \ {0}
      /\ Count(cq[c], "RECV") \in Nat /\ Count(cq[c], "READ") \in Nat
      /\ Head(cq[c]) = "RECV" => Count(Tail(cq[c]), "RECV") = Count(cq[c], "RECV") - 1 /\ Count(cq[c], "RECV") > 0
      /\ Head(cq[c]) # "RECV" => Count(Tail(cq[c]), "RECV") = Count(cq[c], "RECV")
      /\ Head(cq[c]) = "READ" => Count(Tail(cq[c]), "READ") = Count(cq[c], "READ") - 1 /\ Count(cq[c], "READ") > 0
      /\ Head(cq[c]) # "READ" => Count(Tail(cq[c]), "READ") = Count(cq[c], "READ")
  <2>1. \A op : /\ Tail(cq[c]) \in Seq(Ops \cup {"RECV"}) /\ Length(Tail(cq[c])) = Length(cq[c]) - 1
                /\ Length(cq[c]) \in Nat \ {0} /\ Count(cq[c], op) \in Nat
                /\ Head(cq[c]) = op => Count(Tail(cq[c]), op) = Count(cq[c], op) - 1 /\ Count(cq[c], op) > 0
                /\ Head(cq[c]) # op => Count(Tail(cq[c]), op) = Count(cq[c], op)
    <3> TAKE op
    <3> QED
      BY <1>1, <1>2, Taken
  <2>2. /\ Count(cq[c], "RECV") \in Nat
        /\ Head(cq[c]) = "RECV" => Count(Tail(cq[c]), "RECV") = Count(cq[c], "RECV") - 1 /\ Count(cq[c], "RECV") > 0
        /\ Head(cq[c]) # "RECV" => Count(Tail(cq[c]), "RECV") = Count(cq[c], "RECV")
    BY <2>1
  <2>3. /\ Count(cq[c], "READ") \in Nat
        /\ Head(cq[c]) = "READ" => Count(Tail(cq[c]), "READ") = Count(cq[c], "READ") - 1 /\ Count(cq[c], "READ") > 0
        /\ Head(cq[c]) # "READ" => Count(Tail(cq[c]), "READ") = Count(cq[c], "READ")
    BY <2>1
  <2> QED
    BY <2>1, <2>2, <2>3, Zenon
<1>4. /\ cq' \in [Conns -> Seq(Ops \cup {"RECV"})] /\ cq'[c] = Tail(cq[c])
      /\ \A d \in Conns \ {c} : cq'[d] = cq[d]
  BY <1>2, <1>3, Update, Zenon
<1>5. /\ sem_command' \in [Conns -> Nat] /\ \A d \in Conns \ {c} : sem_command'[d] = sem_command[d]
      /\ sem_command'[c] = IF Head(cq[c]) \in {"RECV", "READ"} THEN sem_command[c] + 1 ELSE sem_command[c]
  <2>0. sem_command \in [Conns -> Nat] /\ sem_command[c] \in Nat
    BY <1>1 DEF Types
  <2>1. sem_command \in [Conns -> Nat] /\ sem_command[c] + 1 \in Nat
    BY <2>0
  <2>2. CASE Head(cq[c]) \in {"RECV", "READ"}
    <3>1. sem_command' = [sem_command EXCEPT ![c] = sem_command[c] + 1]
      BY <2>2 DEF HandleWc
    <3> QED
      BY <2>1, <2>2, <3>1, Update, Zenon
  <2>3. CASE Head(cq[c]) \notin {"RECV", "READ"}
    BY <2>1, <2>3 DEF HandleWc
  <2> QED
    BY <2>2, <2>3
<1>u. UNCHANGED <<pc, req, rsp, rmr, qp, sq, sent, rq, poolVars, unitVars, storeVars>>
  BY DEF HandleWc, queueVars, serverVars
<1>6. Types'
  BY <1>1, <1>4, <1>5, <1>u DEF Types, unitVars, storeVars
<1>7. PoolPart'
  BY <1>1, <1>u DEF PoolPart, poolVars
<1>8. \A d \in Conns \ {c} : Same(d)
  BY <1>4, <1>5, <1>u DEF Same, unitVars
<1>9. LocalInv(c)'
  <2>1. /\ pc'[c] = pc[c] /\ qp'[c] = qp[c] /\ sq'[c] = sq[c] /\ sent'[c] = sent[c] /\ rq'[c] = rq[c]
        /\ req'[c] = req[c] /\ rsp'[c] = rsp[c] /\ rmr'[c] = rmr[c]
        /\ srq'[c] = srq[c] /\ scq'[c] = scq[c] /\ ssq'[c] = ssq[c]
        /\ sreq'[c] = sreq[c] /\ srsp'[c] = srsp[c]
    BY <1>u DEF unitVars
  <2>2. /\ rq[c] \in Nat /\ sem_command[c] \in Nat /\ scq[c] \in Nat /\ ssq[c] \in Nat
        /\ Count(sq[c], "SEND") \in Nat /\ Count(sq[c], "READ") \in Nat
        /\ Count(sent[c], "READ") \in Nat /\ Length(sq[c]) \in Nat /\ Length(sent[c]) \in Nat
    BY <1>1, Numbers, Zenon
  <2>3. FlushInv(c)'
    BY <1>1, <2>1 DEF LocalInv, FlushInv
  <2>4. (Used(c) <= MaxSendWr)'
    <3>1. Used(c) = Length(sq[c]) + Length(sent[c]) + Length(cq[c]) - Count(cq[c], "RECV")
      BY Zenon DEF Used, Length
    <3>2. Used(c)' = Length(sq[c]) + Length(sent[c]) + Length(Tail(cq[c])) - Count(Tail(cq[c]), "RECV")
      BY <1>4, <2>1, Zenon DEF Used, Length
    <3>3. Used(c)' <= Used(c) /\ Used(c)' \in Int /\ Used(c) \in Int
      <4>1. PICK l \in Nat \ {0}, n \in Nat : l = Length(cq[c]) /\ n = Count(cq[c], "RECV")
        BY <1>3
      <4>2. Length(Tail(cq[c])) = l - 1 /\ (Count(Tail(cq[c]), "RECV") = n \/ Count(Tail(cq[c]), "RECV") = n - 1)
        BY <1>3, <4>1
      <4> QED
        BY <2>2, <3>1, <3>2, <4>1, <4>2
    <3> QED
      BY <1>1, <3>3, SessionAssumption DEF LocalInv
  <2> DEFINE B(sem, cv, cr) == Balance(pc[c], qp[c], rq[c], sem, cv, cr, ssq[c], scq[c],
             Count(sent[c], "READ"), Count(sq[c], "SEND"), Count(sq[c], "READ"))
  <2>5. B(sem_command[c], Count(cq[c], "RECV"), Count(cq[c], "READ"))
    BY <1>1 DEF LocalInv, CountInv
  <2>6. /\ Count(cq[c], "RECV") > 0 => B(sem_command[c] + 1, Count(cq[c], "RECV") - 1, Count(cq[c], "READ"))
        /\ Count(cq[c], "READ") > 0 => B(sem_command[c] + 1, Count(cq[c], "RECV"), Count(cq[c], "READ") - 1)
    BY <1>3, <2>2, <2>5, BalanceWc
  <2>7. CountInv(c)'
    <3>1. B(sem_command'[c], Count(cq'[c], "RECV"), Count(cq'[c], "READ"))
      <4>1. CASE Head(cq[c]) = "RECV"
        BY <1>3, <1>4, <1>5, <2>6, <4>1
      <4>2. CASE Head(cq[c]) = "READ"
        BY <1>3, <1>4, <1>5, <2>6, <4>2
      <4>3. CASE Head(cq[c]) \notin {"READ", "RECV"}
        BY <1>3, <1>4, <1>5, <2>5, <4>3
      <4> QED
        BY <4>1, <4>2, <4>3
    <3> QED
      BY <2>1, <3>1, Zenon DEF CountInv
  <2>8. MsgInv(c)'
    <3>1. ASSUME pc[c] \in Waiting \ {"read"} PROVE Count(cq[c], "READ") = 0
      BY <2>5, <3>1 DEF Balance, Waiting, Over
    <3>2. CASE Head(cq[c]) = "RECV"
      BY <1>1, <1>3, <1>4, <2>1, <3>2 DEF LocalInv, MsgInv, IsRequest
    <3>3. CASE Head(cq[c]) = "READ"
      BY <1>3, <2>1, <3>1, <3>3 DEF MsgInv
    <3>4. CASE Head(cq[c]) \notin {"READ", "RECV"}
      BY <1>1, <1>3, <1>4, <1>5, <2>1, <3>4 DEF LocalInv, MsgInv, IsRequest
    <3> QED
      BY <3>2, <3>3, <3>4
  <2> QED
    BY <2>3, <2>4, <2>7, <2>8 DEF LocalInv
<1> QED
  BY <1>6, <1>7, <1>8, <1>9, OneSession

\* A work request moves from the queue to those that wait for their
\* acknowledgement.
LEMMA ExecutedEffect ==
    ASSUME Types, NEW c \in Conns, sq[c] # <<>>, Executed(c), cq' = cq
    PROVE  /\ sq' \in [Conns -> Seq(Ops)] /\ sent' \in [Conns -> Seq(Ops)]
           /\ \A d \in Conns \ {c} : sq'[d] = sq[d] /\ sent'[d] = sent[d]
           /\ sq'[c] = Tail(sq[c]) /\ sent'[c] = Append(sent[c], Head(sq[c]))
           /\ Used(c)' = Used(c)
           /\ Head(sq[c]) = "SEND" =>
                  /\ Count(sq[c], "SEND") > 0 /\ Count(sq'[c], "SEND") = Count(sq[c], "SEND") - 1
                  /\ Count(sq'[c], "READ") = Count(sq[c], "READ")
                  /\ Count(sent'[c], "READ") = Count(sent[c], "READ")
           /\ Head(sq[c]) = "READ" =>
                  /\ Count(sq[c], "READ") > 0 /\ Count(sq'[c], "READ") = Count(sq[c], "READ") - 1
                  /\ Count(sq'[c], "SEND") = Count(sq[c], "SEND")
                  /\ Count(sent'[c], "READ") = Count(sent[c], "READ") + 1
           /\ Head(sq[c]) \notin {"SEND", "READ"} =>
                  /\ Count(sq'[c], "SEND") = Count(sq[c], "SEND")
                  /\ Count(sq'[c], "READ") = Count(sq[c], "READ")
                  /\ Count(sent'[c], "READ") = Count(sent[c], "READ")
<1>1. /\ sq \in [Conns -> Seq(Ops)] /\ sent \in [Conns -> Seq(Ops)]
      /\ sq[c] \in Seq(Ops) /\ sent[c] \in Seq(Ops)
  BY DEF Types
<1>2. \A op : /\ Tail(sq[c]) \in Seq(Ops) /\ Head(sq[c]) \in Ops
              /\ Length(Tail(sq[c])) = Length(sq[c]) - 1 /\ Length(sq[c]) \in Nat \ {0}
              /\ Count(sq[c], op) \in Nat
              /\ Head(sq[c]) = op => Count(Tail(sq[c]), op) = Count(sq[c], op) - 1 /\ Count(sq[c], op) > 0
              /\ Head(sq[c]) # op => Count(Tail(sq[c]), op) = Count(sq[c], op)
  <2> TAKE op
  <2> QED
    BY <1>1, Taken
<1>3. PICK h \in Ops : h = Head(sq[c])
  BY <1>2
<1>4. /\ Append(sent[c], h) \in Seq(Ops) /\ Length(Append(sent[c], h)) = Length(sent[c]) + 1
      /\ Count(Append(sent[c], h), "READ") = Count(sent[c], "READ") + (IF h = "READ" THEN 1 ELSE 0)
  BY <1>1, Appended
<1>5. Count(sent[c], "READ") \in Nat /\ Length(sent[c]) \in Nat /\ Length(cq[c]) \in Nat /\ Count(cq[c], "RECV") \in Nat
  BY Numbers, Zenon
<1>6. sq' = [sq EXCEPT ![c] = Tail(sq[c])] /\ sent' = [sent EXCEPT ![c] = Append(sent[c], h)]
  BY <1>3 DEF Executed
<1>7. /\ sq' \in [Conns -> Seq(Ops)] /\ sq'[c] = Tail(sq[c])
      /\ \A d \in Conns \ {c} : sq'[d] = sq[d]
  BY <1>1, <1>2, <1>6, Update, Zenon
<1>8. /\ sent' \in [Conns -> Seq(Ops)] /\ sent'[c] = Append(sent[c], h)
      /\ \A d \in Conns \ {c} : sent'[d] = sent[d]
  BY <1>1, <1>4, <1>6, Update, Zenon
<1>9. Used(c)' = Used(c)
  <2>1. Used(c) = Length(sq[c]) + Length(sent[c]) + Length(cq[c]) - Count(cq[c], "RECV")
    BY Zenon DEF Used, Length
  <2>2. Used(c)' = Length(Tail(sq[c])) + Length(Append(sent[c], h)) + Length(cq[c]) - Count(cq[c], "RECV")
    BY <1>7, <1>8, Zenon DEF Used, Length
  <2>3. PICK l \in Nat \ {0} : l = Length(sq[c]) /\ Length(Tail(sq[c])) = l - 1
    BY <1>2
  <2>4. Length(Append(sent[c], h)) = Length(sent[c]) + 1
    BY <1>4
  <2> QED
    BY <1>5, <2>1, <2>2, <2>3, <2>4
<1>10. Count(sent'[c], "READ") = Count(sent[c], "READ") + IF h = "READ" THEN 1 ELSE 0
  BY <1>4, <1>8, Zenon
<1>11. /\ h = "SEND" => Count(sq[c], "SEND") > 0 /\ Count(sq'[c], "SEND") = Count(sq[c], "SEND") - 1
       /\ h # "SEND" => Count(sq'[c], "SEND") = Count(sq[c], "SEND")
  BY <1>2, <1>3, <1>7
<1>12. /\ h = "READ" => Count(sq[c], "READ") > 0 /\ Count(sq'[c], "READ") = Count(sq[c], "READ") - 1
       /\ h # "READ" => Count(sq'[c], "READ") = Count(sq[c], "READ")
  BY <1>2, <1>3, <1>7
<1>13. /\ h = "READ" => Count(sent'[c], "READ") = Count(sent[c], "READ") + 1
       /\ h # "READ" => Count(sent'[c], "READ") = Count(sent[c], "READ")
  BY <1>5, <1>10
<1>14. "SEND" # "READ"
  OBVIOUS
<1> QED
  BY <1>3, <1>7, <1>8, <1>9, <1>11, <1>12, <1>13, <1>14, Zenon

\* A request, an RDMA WRITE or an RDMA READ executes, or breaks the connection.
LEMMA ExecuteStep ==
    ASSUME SessionInv, NEW c \in Conns, Execute(c)
    PROVE  SessionInv'
<1>1. Types /\ PoolPart /\ LocalInv(c) /\ sq[c] # <<>>
  BY DEF SessionInv, Execute
<1>2. UNCHANGED <<pc, sem_command, req, rsp, cq, srsp, poolVars, up, mr, file>>
  BY DEF Execute
<1>3. PoolPart'
  BY <1>1, <1>2 DEF PoolPart, poolVars
<1>4. qp[c] = "rts" /\ pc[c] \notin Over
  BY <1>1 DEF LocalInv, FlushInv, Types
<1>5. /\ rq[c] \in Nat /\ sem_command[c] \in Nat /\ scq[c] \in Nat /\ ssq[c] \in Nat /\ srq[c] \in Nat
      /\ Count(sq[c], "SEND") \in Nat /\ Count(sq[c], "READ") \in Nat
      /\ Count(sent[c], "READ") \in Nat
      /\ Count(cq[c], "RECV") \in Nat /\ Count(cq[c], "READ") \in Nat
  BY <1>1, Numbers, Zenon
<1>6. /\ pc'[c] = pc[c] /\ sem_command'[c] = sem_command[c] /\ req'[c] = req[c] /\ rsp'[c] = rsp[c]
      /\ cq'[c] = cq[c] /\ srsp'[c] = srsp[c]
  BY <1>2
<1> DEFINE B(q, r, ss, sc, tr, qs, qr) ==
        Balance(pc[c], q, r, sem_command[c], Count(cq[c], "RECV"), Count(cq[c], "READ"),
                ss, sc, tr, qs, qr)
<1>7. B(qp[c], rq[c], ssq[c], scq[c], Count(sent[c], "READ"), Count(sq[c], "SEND"), Count(sq[c], "READ"))
  BY <1>1 DEF LocalInv, CountInv
<1>8. Used(c) <= MaxSendWr /\ MsgInv(c) /\ FlushInv(c)
  BY <1>1 DEF LocalInv
<1>9. CASE /\ Head(sq[c]) = "SEND" /\ srq[c] > 0
           /\ srq' = [srq EXCEPT ![c] = @ - 1]
           /\ sreq' = [sreq EXCEPT ![c] = req[c]]
           /\ scq' = [scq EXCEPT ![c] = @ + 1]
           /\ Executed(c)
           /\ UNCHANGED <<rmr, mem, qp, rq, ssq>>
  <2>1. /\ sq' \in [Conns -> Seq(Ops)] /\ sent' \in [Conns -> Seq(Ops)]
        /\ \A d \in Conns \ {c} : sq'[d] = sq[d] /\ sent'[d] = sent[d]
        /\ Used(c)' = Used(c)
        /\ Count(sq[c], "SEND") > 0 /\ Count(sq'[c], "SEND") = Count(sq[c], "SEND") - 1
        /\ Count(sq'[c], "READ") = Count(sq[c], "READ")
        /\ Count(sent'[c], "READ") = Count(sent[c], "READ")
    BY <1>1, <1>2, <1>9, ExecutedEffect
  <2>2. /\ srq' \in [Conns -> Nat] /\ \A d \in Conns \ {c} : srq'[d] = srq[d]
    <3>0. srq \in [Conns -> Nat] /\ srq' = [srq EXCEPT ![c] = srq[c] - 1]
      BY <1>1, <1>9 DEF Types
    <3>1. srq[c] - 1 \in Nat
      BY <1>5, <1>9
    <3> QED
      BY <3>0, <3>1, Update, Zenon
  <2>3. /\ scq' \in [Conns -> Nat] /\ scq'[c] = scq[c] + 1 /\ \A d \in Conns \ {c} : scq'[d] = scq[d]
    <3>0. scq \in [Conns -> Nat] /\ scq' = [scq EXCEPT ![c] = scq[c] + 1]
      BY <1>1, <1>9 DEF Types
    <3>1. scq[c] + 1 \in Nat
      BY <1>5
    <3> QED
      BY <3>0, <3>1, Update, Zenon
  <2>4. /\ sreq' \in [Conns -> Commands] /\ sreq'[c] = req[c] /\ \A d \in Conns \ {c} : sreq'[d] = sreq[d]
    BY <1>1, <1>9 DEF Types
  <2>5. Types'
    BY <1>1, <1>2, <1>9, <2>1, <2>2, <2>3, <2>4 DEF Types
  <2>6. \A d \in Conns \ {c} : Same(d)
    BY <1>2, <1>9, <2>1, <2>2, <2>3, <2>4 DEF Same
  <2>7. CountInv(c)'
    <3>1. B(qp[c], rq[c], ssq[c], scq[c] + 1, Count(sent[c], "READ"), Count(sq[c], "SEND") - 1, Count(sq[c], "READ"))
      BY <1>5, <1>7, <2>1, BalanceExecute
    <3>2. qp'[c] = qp[c] /\ rq'[c] = rq[c] /\ ssq'[c] = ssq[c]
      BY <1>9
    <3> QED
      BY <1>6, <2>1, <2>3, <3>1, <3>2, Zenon DEF CountInv
  <2>8. MsgInv(c)'
    <3>1. rmr'[c] = rmr[c] /\ ssq'[c] = ssq[c]
      BY <1>9
    <3> QED
      BY <1>6, <1>8, <2>1, <2>4, <3>1 DEF MsgInv, IsRequest
  <2>9. FlushInv(c)' /\ (Used(c) <= MaxSendWr)'
    <3>1. FlushInv(c)'
      BY <1>4, <1>6, <1>9 DEF FlushInv
    <3> QED
      BY <1>8, <2>1, <3>1, Zenon
  <2>10. LocalInv(c)'
    BY <2>7, <2>8, <2>9 DEF LocalInv
  <2> QED
    BY <1>3, <2>5, <2>6, <2>10, OneSession
<1>10. CASE /\ Head(sq[c]) \in {"READ", "WRITE"}
            /\ Executed(c)
            /\ mem' \in Contents
            /\ rmr' = rmr \/ rmr' = [rmr EXCEPT ![c].buf = mem]
            /\ UNCHANGED <<srq, sreq, scq, qp, rq, ssq>>
  <2>1. /\ sq' \in [Conns -> Seq(Ops)] /\ sent' \in [Conns -> Seq(Ops)]
        /\ \A d \in Conns \ {c} : sq'[d] = sq[d] /\ sent'[d] = sent[d]
        /\ Used(c)' = Used(c)
        /\ Count(sq'[c], "SEND") = Count(sq[c], "SEND")
    BY <1>1, <1>2, <1>10, ExecutedEffect
  <2>2. rmr \in [Conns -> RmrType] /\ mem \in Contents
    BY <1>1 DEF Types, RmrType
  <2>3. /\ rmr' \in [Conns -> RmrType] /\ \A d \in Conns \ {c} : rmr'[d] = rmr[d]
        /\ rmr'[c].len = rmr[c].len /\ rmr'[c].remote_addr = rmr[c].remote_addr
    BY <1>10, <2>2 DEF RmrType
  <2>4. Types'
    <3>1. mem' \in Contents /\ UNCHANGED <<srq, sreq, scq, qp, rq, ssq>>
      BY <1>10
    <3> QED
      BY <1>1, <1>2, <2>1, <2>3, <3>1 DEF Types, RmrType
  <2>5. \A d \in Conns \ {c} : Same(d)
    BY <1>2, <1>10, <2>1, <2>3 DEF Same
  <2>6. qp'[c] = qp[c] /\ rq'[c] = rq[c] /\ ssq'[c] = ssq[c] /\ scq'[c] = scq[c] /\ sreq'[c] = sreq[c]
    BY <1>10
  <2>7. CountInv(c)'
    <3>1. CASE Head(sq[c]) = "READ"
      <4>1. /\ Count(sq[c], "READ") > 0 /\ Count(sq'[c], "READ") = Count(sq[c], "READ") - 1
            /\ Count(sent'[c], "READ") = Count(sent[c], "READ") + 1
        BY <1>1, <1>2, <1>10, <3>1, ExecutedEffect
      <4>2. B(qp[c], rq[c], ssq[c], scq[c], Count(sent[c], "READ") + 1, Count(sq[c], "SEND"), Count(sq[c], "READ") - 1)
        BY <1>5, <1>7, <4>1, BalanceExecute
      <4> QED
        BY <1>6, <2>1, <2>6, <4>1, <4>2, Zenon DEF CountInv
    <3>2. CASE Head(sq[c]) = "WRITE"
      <4>1. Count(sq'[c], "READ") = Count(sq[c], "READ") /\ Count(sent'[c], "READ") = Count(sent[c], "READ")
        BY <1>1, <1>2, <1>10, <3>2, ExecutedEffect
      <4> QED
        BY <1>6, <1>7, <2>1, <2>6, <4>1, Zenon DEF CountInv
    <3> QED
      BY <1>10, <3>1, <3>2
  <2>8. MsgInv(c)'
    BY <1>6, <1>8, <2>1, <2>3, <2>6 DEF MsgInv, IsRequest, RequestOf
  <2>9. FlushInv(c)' /\ (Used(c) <= MaxSendWr)'
    <3>1. FlushInv(c)'
      BY <1>4, <1>6, <2>6 DEF FlushInv
    <3> QED
      BY <1>8, <2>1, <3>1, Zenon
  <2>10. LocalInv(c)'
    BY <2>7, <2>8, <2>9 DEF LocalInv
  <2> QED
    BY <1>3, <2>4, <2>5, <2>10, OneSession
<1>11. CASE Break(c) /\ UNCHANGED <<rmr, mem, sreq, scq>>
  <2>1. /\ qp' \in [Conns -> {"rts", "err"}] /\ qp'[c] = "err" /\ \A d \in Conns \ {c} : qp'[d] = qp[d]
    BY <1>1, <1>11 DEF Break, Types
  <2>2. /\ sq' \in [Conns -> Seq(Ops)] /\ sq'[c] = <<>> /\ \A d \in Conns \ {c} : sq'[d] = sq[d]
        /\ sent' \in [Conns -> Seq(Ops)] /\ sent'[c] = <<>> /\ \A d \in Conns \ {c} : sent'[d] = sent[d]
    <3>1. <<>> \in Seq(Ops)
      OBVIOUS
    <3> QED
      BY <1>1, <1>11, <3>1, Update, Zenon DEF Break, Types
  <2>3. /\ rq' \in [Conns -> 0 .. MaxRecvWr] /\ rq'[c] = 0 /\ \A d \in Conns \ {c} : rq'[d] = rq[d]
        /\ srq' \in [Conns -> Nat] /\ srq'[c] = 0 /\ \A d \in Conns \ {c} : srq'[d] = srq[d]
        /\ ssq' \in [Conns -> Nat] /\ ssq'[c] = 0 /\ \A d \in Conns \ {c} : ssq'[d] = ssq[d]
    <3>1. 0 \in 0 .. MaxRecvWr
      BY SessionAssumption
    <3> QED
      BY <1>1, <1>11, <3>1 DEF Break, Types
  <2>4. Types'
    BY <1>1, <1>2, <1>11, <2>1, <2>2, <2>3 DEF Types
  <2>5. \A d \in Conns \ {c} : Same(d)
    BY <1>2, <1>11, <2>1, <2>2, <2>3 DEF Same
  <2>6. /\ Count(sq'[c], "SEND") = 0 /\ Count(sq'[c], "READ") = 0 /\ Count(sent'[c], "READ") = 0
    BY <2>2, CountEmpty, Zenon
  <2>7. CountInv(c)'
    <3>1. B("err", 0, 0, scq[c], 0, 0, 0)
      BY <1>5, <1>7, BalanceBreak
    <3>2. scq'[c] = scq[c]
      BY <1>11
    <3> QED
      BY <1>6, <2>1, <2>3, <2>6, <3>1, <3>2, Zenon DEF CountInv
  <2>8. MsgInv(c)'
    <3>1. scq'[c] = scq[c] /\ sreq'[c] = sreq[c] /\ rmr'[c] = rmr[c]
      BY <1>11
    <3> QED
      BY <1>6, <1>8, <2>3, <2>6, <3>1 DEF MsgInv, IsRequest
  <2>9. FlushInv(c)'
    BY <1>4, <1>6, <2>1, <2>2, <2>3 DEF FlushInv
  <2>10. (Used(c) <= MaxSendWr)'
    <3>1. Used(c)' = Length(sq'[c]) + Length(sent'[c]) + Length(cq[c]) - Count(cq[c], "RECV")
      BY <1>6, Zenon DEF Used, Length
    <3>2. Length(sq'[c]) = 0 /\ Length(sent'[c]) = 0
      BY <2>2 DEF Length
    <3>3. /\ Length(sq[c]) \in Nat /\ Length(sent[c]) \in Nat /\ Length(cq[c]) \in Nat
          /\ Used(c) = Length(sq[c]) + Length(sent[c]) + Length(cq[c]) - Count(cq[c], "RECV")
      BY <1>1, Numbers, Zenon
    <3>4. Used(c)' <= Used(c) /\ Used(c)' \in Int /\ Used(c) \in Int
      BY <1>5, <3>1, <3>2, <3>3
    <3> QED
      BY <1>8, <3>4, SessionAssumption
  <2>11. LocalInv(c)'
    BY <2>7, <2>8, <2>9, <2>10 DEF LocalInv
  <2> QED
    BY <1>3, <2>4, <2>5, <2>11, OneSession
<1>12. rmr[c].buf \in Contents /\ mem \in Contents
  BY <1>1 DEF Types
<1> QED
  BY <1>9, <1>10, <1>11, <1>12 DEF Execute

\* An entry joins a queue.
LEMMA Added ==
    ASSUME NEW S, NEW s \in Seq(S), NEW x \in S, NEW op
    PROVE  /\ Append(s, x) \in Seq(S) /\ Length(Append(s, x)) = Length(s) + 1
           /\ Length(s) \in Nat /\ Count(s, op) \in Nat
           /\ x = op => Count(Append(s, x), op) = Count(s, op) + 1
           /\ x # op => Count(Append(s, x), op) = Count(s, op)
<1>1. Append(s, x) \in Seq(S) /\ Len(Append(s, x)) = Len(s) + 1 /\ Len(s) \in Nat
  OBVIOUS
<1>2. Length(Append(s, x)) = Length(s) + 1 /\ Length(s) \in Nat
  BY <1>1, Zenon DEF Length
<1>3. Count(s, op) \in Nat
  BY CountType
<1>4. Count(Append(s, x), op) = Count(s, op) + IF x = op THEN 1 ELSE 0
  BY CountAppend
<1>5. x = op => Count(Append(s, x), op) = Count(s, op) + 1
  BY <1>4
<1>6. x # op => Count(Append(s, x), op) = Count(s, op) + 0
  BY <1>4
<1>7. Count(s, op) + 0 = Count(s, op)
  BY <1>3
<1> QED
  BY <1>1, <1>2, <1>3, <1>5, <1>6, <1>7, Zenon

\* An acknowledgement reaches the client.
LEMMA CompleteStep ==
    ASSUME SessionInv, NEW c \in Conns, Complete(c)
    PROVE  SessionInv'
<1>1. Types /\ PoolPart /\ LocalInv(c) /\ sent[c] # <<>>
  BY DEF SessionInv, Complete
<1>2. /\ sent \in [Conns -> Seq(Ops)] /\ cq \in [Conns -> Seq(Ops \cup {"RECV"})]
      /\ sent[c] \in Seq(Ops) /\ cq[c] \in Seq(Ops \cup {"RECV"})
  BY <1>1 DEF Types
<1>3. /\ Tail(sent[c]) \in Seq(Ops) /\ Head(sent[c]) \in Ops
      /\ Length(Tail(sent[c])) = Length(sent[c]) - 1 /\ Length(sent[c]) \in Nat \ {0}
      /\ Count(sent[c], "READ") \in Nat
      /\ Head(sent[c]) = "READ" => Count(Tail(sent[c]), "READ") = Count(sent[c], "READ") - 1 /\ Count(sent[c], "READ") > 0
      /\ Head(sent[c]) # "READ" => Count(Tail(sent[c]), "READ") = Count(sent[c], "READ")
  BY <1>1, <1>2, Taken
<1>4. PICK h \in Ops : h = Head(sent[c])
  BY <1>3
<1>5. h \in Ops \cup {"RECV"} /\ h # "RECV"
  BY DEF Ops
<1>6. \A op : /\ Append(cq[c], h) \in Seq(Ops \cup {"RECV"})
              /\ Length(Append(cq[c], h)) = Length(cq[c]) + 1
              /\ h = op => Count(Append(cq[c], h), op) = Count(cq[c], op) + 1
              /\ h # op => Count(Append(cq[c], h), op) = Count(cq[c], op)
  <2> TAKE op
  <2> DEFINE S == Ops \cup {"RECV"}
  <2>1. cq[c] \in Seq(S) /\ h \in S
    BY <1>2, <1>5
  <2> HIDE DEF S
  <2>2. /\ Append(cq[c], h) \in Seq(S) /\ Length(Append(cq[c], h)) = Length(cq[c]) + 1
        /\ h = op => Count(Append(cq[c], h), op) = Count(cq[c], op) + 1
        /\ h # op => Count(Append(cq[c], h), op) = Count(cq[c], op)
    <3>1. PICK t \in Seq(S) : t = cq[c]
      BY <2>1
    <3>2. /\ Append(t, h) \in Seq(S) /\ Length(Append(t, h)) = Length(t) + 1
          /\ h = op => Count(Append(t, h), op) = Count(t, op) + 1
          /\ h # op => Count(Append(t, h), op) = Count(t, op)
      BY <2>1, Added
    <3> QED
      BY <3>1, <3>2, Zenon
  <2> QED
    BY <2>2 DEF S
<1>7. /\ cq' = [cq EXCEPT ![c] = Append(cq[c], h)] /\ sent' = [sent EXCEPT ![c] = Tail(sent[c])]
      /\ UNCHANGED <<clientVars, qp, sq, rsp, rq, serverVars>>
  BY <1>4 DEF Complete
<1>8. /\ cq' \in [Conns -> Seq(Ops \cup {"RECV"})] /\ cq'[c] = Append(cq[c], h)
      /\ \A d \in Conns \ {c} : cq'[d] = cq[d]
  BY <1>2, <1>6, <1>7, Update, Zenon
<1>9. /\ sent' \in [Conns -> Seq(Ops)] /\ sent'[c] = Tail(sent[c])
      /\ \A d \in Conns \ {c} : sent'[d] = sent[d]
  BY <1>2, <1>3, <1>7, Update, Zenon
<1>10. UNCHANGED <<pc, sem_command, req, rmr, qp, sq, rsp, rq, poolVars, unitVars, storeVars>>
  BY <1>7 DEF clientVars, serverVars
<1>11. Types'
  BY <1>1, <1>8, <1>9, <1>10 DEF Types, unitVars, storeVars
<1>12. PoolPart'
  BY <1>1, <1>10 DEF PoolPart, poolVars
<1>13. \A d \in Conns \ {c} : Same(d)
  BY <1>8, <1>9, <1>10 DEF Same, unitVars
<1>14. LocalInv(c)'
  <2>1. /\ pc'[c] = pc[c] /\ qp'[c] = qp[c] /\ sq'[c] = sq[c] /\ rq'[c] = rq[c]
        /\ sem_command'[c] = sem_command[c]
        /\ req'[c] = req[c] /\ rsp'[c] = rsp[c] /\ rmr'[c] = rmr[c]
        /\ srq'[c] = srq[c] /\ scq'[c] = scq[c] /\ ssq'[c] = ssq[c]
        /\ sreq'[c] = sreq[c] /\ srsp'[c] = srsp[c]
    BY <1>10 DEF unitVars
  <2>2. /\ rq[c] \in Nat /\ sem_command[c] \in Nat /\ scq[c] \in Nat /\ ssq[c] \in Nat
        /\ Count(sq[c], "SEND") \in Nat /\ Count(sq[c], "READ") \in Nat
        /\ Count(sent[c], "READ") \in Nat /\ Length(sq[c]) \in Nat
        /\ Length(sent[c]) \in Nat /\ Length(cq[c]) \in Nat
        /\ Count(cq[c], "RECV") \in Nat /\ Count(cq[c], "READ") \in Nat
    BY <1>1, Numbers, Zenon
  <2>3. qp[c] = "rts" /\ pc[c] \notin Over
    BY <1>1 DEF LocalInv, FlushInv, Types
  <2>4. Count(cq'[c], "RECV") = Count(cq[c], "RECV")
    BY <1>5, <1>6, <1>8
  <2>5. FlushInv(c)'
    BY <2>1, <2>3 DEF FlushInv
  <2>6. MsgInv(c)'
    BY <1>1, <2>1, <2>4 DEF LocalInv, MsgInv, IsRequest
  <2>7. (Used(c) <= MaxSendWr)'
    <3>1. Used(c) = Length(sq[c]) + Length(sent[c]) + Length(cq[c]) - Count(cq[c], "RECV")
      BY Zenon DEF Used, Length
    <3>2. Used(c)' = Length(sq[c]) + Length(sent'[c]) + Length(cq'[c]) - Count(cq[c], "RECV")
      BY <2>1, <2>4, Zenon DEF Used, Length
    <3>3. PICK l \in Nat \ {0} : l = Length(sent[c]) /\ Length(sent'[c]) = l - 1
      BY <1>3, <1>9
    <3>4. Length(cq'[c]) = Length(cq[c]) + 1
      BY <1>6, <1>8, Zenon
    <3>5. Used(c)' = Used(c)
      BY <2>2, <3>1, <3>2, <3>3, <3>4
    <3> QED
      BY <1>1, <3>5, Zenon DEF LocalInv
  <2>8. CountInv(c)'
    <3> DEFINE B(cr, tr) == Balance(pc[c], qp[c], rq[c], sem_command[c], Count(cq[c], "RECV"), cr,
               ssq[c], scq[c], tr, Count(sq[c], "SEND"), Count(sq[c], "READ"))
    <3>1. B(Count(cq[c], "READ"), Count(sent[c], "READ"))
      BY <1>1 DEF LocalInv, CountInv
    <3>2. CASE h = "READ"
      <4>1. /\ Count(sent[c], "READ") > 0 /\ Count(sent'[c], "READ") = Count(sent[c], "READ") - 1
            /\ Count(cq'[c], "READ") = Count(cq[c], "READ") + 1
        BY <1>3, <1>4, <1>6, <1>8, <1>9, <3>2, Zenon
      <4>2. B(Count(cq[c], "READ") + 1, Count(sent[c], "READ") - 1)
        BY <2>2, <3>1, <4>1, BalanceExecute
      <4> QED
        BY <2>1, <2>4, <4>1, <4>2, Zenon DEF CountInv
    <3>3. CASE h # "READ"
      <4>1. Count(sent'[c], "READ") = Count(sent[c], "READ") /\ Count(cq'[c], "READ") = Count(cq[c], "READ")
        BY <1>3, <1>4, <1>6, <1>8, <1>9, <3>3, Zenon
      <4> QED
        BY <2>1, <2>4, <3>1, <4>1, Zenon DEF CountInv
    <3> QED
      BY <3>2, <3>3
  <2> QED
    BY <2>5, <2>6, <2>7, <2>8 DEF LocalInv
<1> QED
  BY <1>11, <1>12, <1>13, <1>14, OneSession

\* The response lands in conn->rsp.
LEMMA DeliverStep ==
    ASSUME SessionInv, NEW c \in Conns, Deliver(c)
    PROVE  SessionInv'
<1>1. Types /\ PoolPart /\ LocalInv(c) /\ ssq[c] > 0 /\ rq[c] > 0
  BY DEF SessionInv, Deliver
<1>2. /\ rq[c] \in Nat /\ sem_command[c] \in Nat /\ scq[c] \in Nat /\ ssq[c] \in Nat
      /\ Count(sq[c], "SEND") \in Nat /\ Count(sq[c], "READ") \in Nat
      /\ Count(sent[c], "READ") \in Nat /\ Length(sq[c]) \in Nat
      /\ Length(sent[c]) \in Nat /\ Length(cq[c]) \in Nat
      /\ Count(cq[c], "RECV") \in Nat /\ Count(cq[c], "READ") \in Nat
      /\ rq[c] <= MaxRecvWr
  BY <1>1, Numbers, Zenon
<1>3. /\ cq \in [Conns -> Seq(Ops \cup {"RECV"})] /\ cq[c] \in Seq(Ops \cup {"RECV"})
      /\ ssq \in [Conns -> Nat] /\ rq \in [Conns -> 0 .. MaxRecvWr]
      /\ rsp \in [Conns -> Commands] /\ srsp[c] \in Commands
  BY <1>1 DEF Types
<1>4. \A op : /\ Append(cq[c], "RECV") \in Seq(Ops \cup {"RECV"})
              /\ Length(Append(cq[c], "RECV")) = Length(cq[c]) + 1
              /\ "RECV" = op => Count(Append(cq[c], "RECV"), op) = Count(cq[c], op) + 1
              /\ "RECV" # op => Count(Append(cq[c], "RECV"), op) = Count(cq[c], op)
  <2> TAKE op
  <2>1. "RECV" \in Ops \cup {"RECV"}
    OBVIOUS
  <2> QED
    BY <1>3, <2>1, Added
<1>5. /\ cq' = [cq EXCEPT ![c] = Append(cq[c], "RECV")]
      /\ ssq' = [ssq EXCEPT ![c] = ssq[c] - 1]
      /\ rq' = [rq EXCEPT ![c] = rq[c] - 1]
      /\ rsp' = [rsp EXCEPT ![c] = srsp[c]]
      /\ UNCHANGED <<clientVars, queueVars, poolVars, srq, scq, sreq, srsp, storeVars>>
  BY DEF Deliver
<1>6. ssq[c] - 1 \in Nat /\ rq[c] - 1 \in 0 .. MaxRecvWr
  BY <1>1, <1>2, SessionAssumption
<1>7. /\ cq' \in [Conns -> Seq(Ops \cup {"RECV"})] /\ cq'[c] = Append(cq[c], "RECV")
      /\ \A d \in Conns \ {c} : cq'[d] = cq[d]
  BY <1>3, <1>4, <1>5, Update, Zenon
<1>8. /\ ssq' \in [Conns -> Nat] /\ ssq'[c] = ssq[c] - 1 /\ \A d \in Conns \ {c} : ssq'[d] = ssq[d]
  BY <1>3, <1>5, <1>6, Update, Zenon
<1>9. /\ rq' \in [Conns -> 0 .. MaxRecvWr] /\ rq'[c] = rq[c] - 1 /\ \A d \in Conns \ {c} : rq'[d] = rq[d]
  BY <1>3, <1>5, <1>6, Update, Zenon
<1>10. /\ rsp' \in [Conns -> Commands] /\ rsp'[c] = srsp[c] /\ \A d \in Conns \ {c} : rsp'[d] = rsp[d]
  BY <1>3, <1>5, Update, Zenon
<1>11. UNCHANGED <<pc, sem_command, req, rmr, qp, sq, sent, poolVars, srq, scq, sreq, srsp, storeVars>>
  BY <1>5 DEF clientVars, queueVars
<1>12. Types'
  BY <1>1, <1>7, <1>8, <1>9, <1>10, <1>11 DEF Types, storeVars
<1>13. PoolPart'
  BY <1>1, <1>11 DEF PoolPart, poolVars
<1>14. \A d \in Conns \ {c} : Same(d)
  BY <1>7, <1>8, <1>9, <1>10, <1>11 DEF Same
<1>15. LocalInv(c)'
  <2>1. /\ pc'[c] = pc[c] /\ qp'[c] = qp[c] /\ sq'[c] = sq[c] /\ sent'[c] = sent[c]
        /\ sem_command'[c] = sem_command[c] /\ req'[c] = req[c] /\ rmr'[c] = rmr[c]
        /\ srq'[c] = srq[c] /\ scq'[c] = scq[c]
        /\ sreq'[c] = sreq[c] /\ srsp'[c] = srsp[c]
    BY <1>11
  <2>2. qp[c] = "rts" /\ pc[c] \notin Over
    BY <1>1 DEF LocalInv, FlushInv, Types
  <2>3. /\ Count(cq'[c], "RECV") = Count(cq[c], "RECV") + 1
        /\ Count(cq'[c], "READ") = Count(cq[c], "READ")
        /\ Length(cq'[c]) = Length(cq[c]) + 1
    <3>1. "RECV" # "READ"
      OBVIOUS
    <3> QED
      BY <1>4, <1>7, <3>1, Zenon
  <2>4. FlushInv(c)'
    BY <2>1, <2>2 DEF FlushInv
  <2>5. (Used(c) <= MaxSendWr)'
    <3>1. Used(c) = Length(sq[c]) + Length(sent[c]) + Length(cq[c]) - Count(cq[c], "RECV")
      BY Zenon DEF Used, Length
    <3>2. Used(c)' = Length(sq[c]) + Length(sent[c]) + Length(cq'[c]) - Count(cq'[c], "RECV")
      BY <2>1, Zenon DEF Used, Length
    <3>3. Used(c)' = Used(c)
      BY <1>2, <2>3, <3>1, <3>2
    <3> QED
      BY <1>1, <3>3, Zenon DEF LocalInv
  <2> DEFINE B(r, cv, ss) == Balance(pc[c], qp[c], r, sem_command[c], cv, Count(cq[c], "READ"),
               ss, scq[c], Count(sent[c], "READ"), Count(sq[c], "SEND"), Count(sq[c], "READ"))
  <2>6. B(rq[c], Count(cq[c], "RECV"), ssq[c])
    BY <1>1 DEF LocalInv, CountInv
  <2>7. B(rq[c] - 1, Count(cq[c], "RECV") + 1, ssq[c] - 1)
    BY <1>1, <1>2, <2>6, BalanceDeliver
  <2>8. CountInv(c)'
    BY <1>8, <1>9, <2>1, <2>3, <2>7, Zenon DEF CountInv
  <2>9. MsgInv(c)'
    <3>1. ssq'[c] > 0 => ssq[c] > 0
      BY <1>1
    <3>2. MsgInv(c)
      BY <1>1 DEF LocalInv
    <3> QED
      BY <1>1, <1>10, <2>1, <3>1, <3>2 DEF MsgInv, IsRequest
  <2> QED
    BY <2>4, <2>5, <2>8, <2>9 DEF LocalInv
<1> QED
  BY <1>12, <1>13, <1>14, <1>15, OneSession

\* While a request is at the server, nothing else of its session is under way.
LEMMA BalanceAlone ==
    ASSUME NEW call, NEW q, NEW r \in Nat, NEW sem \in Nat, NEW cv \in Nat, NEW cr \in Nat,
           NEW ss \in Nat, NEW sc \in Nat, NEW tr \in Nat, NEW qs \in Nat, NEW qr \in Nat,
           Balance(call, q, r, sem, cv, cr, ss, sc, tr, qs, qr), call \in Waiting, sc > 0
    PROVE  sc - 1 = 0 /\ ss = 0 /\ qs = 0 /\ cv = 0 /\ sem = 0
BY DEF Balance, Waiting, Over

\* What a handler does to its unit: it takes the request and may answer it.
Serves(c, opcode) ==
    /\ scq[c] > 0 /\ sreq[c].opcode = opcode /\ scq' = [scq EXCEPT ![c] = scq[c] - 1]
    /\ sreq' \in [Conns -> Commands] /\ \A d \in Conns \ {c} : sreq'[d] = sreq[d]
    /\ srq' \in [Conns -> Nat] /\ \A d \in Conns \ {c} : srq'[d] = srq[d]
    /\ qp[c] = "err" => srq'[c] = srq[c]
    /\ srsp' \in [Conns -> Commands] /\ \A d \in Conns \ {c} : srsp'[d] = srsp[d]
    /\ \/ ssq' = ssq
       \/ /\ qp[c] = "rts" /\ ssq' = [ssq EXCEPT ![c] = ssq[c] + 1]
          /\ srsp'[c].opcode = opcode + 1

\* A handler that turns its request into at most one response keeps the
\* invariant: the five handlers are instances.
LEMMA ServeStep ==
    ASSUME SessionInv, NEW c \in Conns, NEW opcode \in Opcode, Serves(c, opcode),
           PoolPart', up' \in BOOLEAN, mem' \in Contents, file' \in Contents,
           mr' \in [conn : Conns \cup {NULL}, rkey : 0 .. Word - 1, len : Nat],
           UNCHANGED <<clientVars, queueVars, rsp, rq, cq>>
    PROVE  SessionInv'
<1>1. Types /\ PoolPart /\ LocalInv(c) /\ scq[c] > 0
  BY DEF SessionInv, Serves
<1>2. /\ rq[c] \in Nat /\ sem_command[c] \in Nat /\ scq[c] \in Nat /\ ssq[c] \in Nat
      /\ Count(sq[c], "SEND") \in Nat /\ Count(sq[c], "READ") \in Nat
      /\ Count(sent[c], "READ") \in Nat
      /\ Count(cq[c], "RECV") \in Nat /\ Count(cq[c], "READ") \in Nat
  BY <1>1, Numbers, Zenon
<1>3. /\ scq' \in [Conns -> Nat] /\ scq'[c] = scq[c] - 1 /\ \A d \in Conns \ {c} : scq'[d] = scq[d]
  <2>1. scq \in [Conns -> Nat] /\ scq' = [scq EXCEPT ![c] = scq[c] - 1]
    BY <1>1 DEF Types, Serves
  <2>2. scq[c] - 1 \in Nat
    BY <1>1, <1>2
  <2> QED
    BY <2>1, <2>2, Update, Zenon
<1>4. /\ ssq' \in [Conns -> Nat] /\ \A d \in Conns \ {c} : ssq'[d] = ssq[d]
      /\ \/ ssq'[c] = ssq[c]
         \/ qp[c] = "rts" /\ ssq'[c] = ssq[c] + 1 /\ srsp'[c].opcode = opcode + 1
  <2>1. ssq \in [Conns -> Nat]
    BY <1>1 DEF Types
  <2>2. ssq[c] + 1 \in Nat
    BY <1>2
  <2>3. CASE ssq' = ssq
    BY <2>1, <2>3
  <2>4. CASE qp[c] = "rts" /\ ssq' = [ssq EXCEPT ![c] = ssq[c] + 1] /\ srsp'[c].opcode = opcode + 1
    BY <2>1, <2>2, <2>4, Update, Zenon
  <2> QED
    BY <2>3, <2>4 DEF Serves
<1>5. UNCHANGED <<pc, sem_command, req, rmr, qp, sq, sent, rsp, rq, cq>>
  BY DEF clientVars, queueVars
<1>6. /\ sreq' \in [Conns -> Commands] /\ \A d \in Conns \ {c} : sreq'[d] = sreq[d]
      /\ srq' \in [Conns -> Nat] /\ \A d \in Conns \ {c} : srq'[d] = srq[d]
      /\ srsp' \in [Conns -> Commands] /\ \A d \in Conns \ {c} : srsp'[d] = srsp[d]
  BY DEF Serves
<1>7. Types'
  BY <1>1, <1>3, <1>4, <1>5, <1>6 DEF Types
<1>8. \A d \in Conns \ {c} : Same(d)
  BY <1>3, <1>4, <1>5, <1>6 DEF Same
<1>9. LocalInv(c)'
  <2>1. /\ pc'[c] = pc[c] /\ qp'[c] = qp[c] /\ sq'[c] = sq[c] /\ sent'[c] = sent[c]
        /\ sem_command'[c] = sem_command[c] /\ req'[c] = req[c] /\ rmr'[c] = rmr[c]
        /\ rsp'[c] = rsp[c] /\ rq'[c] = rq[c] /\ cq'[c] = cq[c]
    BY <1>5
  <2>2. FlushInv(c)'
    <3>1. qp[c] = "err" => srq'[c] = srq[c] /\ ssq'[c] = ssq[c]
      BY <1>4 DEF Serves
    <3> QED
      BY <1>1, <2>1, <3>1 DEF LocalInv, FlushInv
  <2>3. (Used(c) <= MaxSendWr)'
    BY <1>1, <2>1, Zenon DEF LocalInv, Used
  <2> DEFINE B(ss, sc) == Balance(pc[c], qp[c], rq[c], sem_command[c], Count(cq[c], "RECV"), Count(cq[c], "READ"),
               ss, sc, Count(sent[c], "READ"), Count(sq[c], "SEND"), Count(sq[c], "READ"))
  <2>4. B(ssq[c], scq[c])
    BY <1>1 DEF LocalInv, CountInv
  <2>5. B(ssq[c] + 1, scq[c] - 1) /\ B(ssq[c], scq[c] - 1)
    BY <1>1, <1>2, <2>4, BalanceServe
  <2>6. CountInv(c)'
    BY <1>3, <1>4, <2>1, <2>5, Zenon DEF CountInv
  <2>7. MsgInv(c)'
    <3>1. SUFFICES ASSUME pc[c] \in Waiting \ {"read"} PROVE MsgInv(c)'
      BY <2>1 DEF MsgInv
    <3>2. /\ scq[c] - 1 = 0 /\ ssq[c] = 0 /\ Count(sq[c], "SEND") = 0 /\ Count(cq[c], "RECV") = 0
          /\ sem_command[c] = 0
      BY <1>1, <1>2, <2>4, <3>1, BalanceAlone
    <3>3. opcode = Expected(pc[c]) - 1
      BY <1>1, <3>1 DEF LocalInv, MsgInv, IsRequest, RequestOf, Serves
    <3>4. opcode + 1 = Expected(pc[c])
      <4>1. Expected(pc[c]) \in Nat
        BY <3>1 DEF Waiting, Expected, RPMEM_OPEN_RSP, RPMEM_CLOSE_RSP, RPMEM_MAP_RSP, RPMEM_UNMAP_RSP, RPMEM_COMMIT_RSP
      <4> QED
        BY <3>3, <4>1
    <3> QED
      BY <1>3, <1>4, <2>1, <3>2, <3>4 DEF MsgInv
  <2> QED
    BY <2>2, <2>3, <2>6, <2>7 DEF LocalInv
<1> QED
  BY <1>7, <1>8, <1>9, OneSession

\* rpmem_post_recv and rpmem_post_send of a handler.
LEMMA RepostEffect ==
    ASSUME Types, NEW c \in Conns, NEW ok, Repost(c, ok)
    PROVE  /\ sreq' \in [Conns -> Commands] /\ \A d \in Conns \ {c} : sreq'[d] = sreq[d]
           /\ srq' \in [Conns -> Nat] /\ \A d \in Conns \ {c} : srq'[d] = srq[d]
           /\ qp[c] = "err" => srq'[c] = srq[c]
<1>1. ZeroCmd \in Commands
  BY CmdType DEF ZeroCmd, Opcode, RPMEM_CMD_LAST, Addrs
<1>2. sreq \in [Conns -> Commands] /\ srq \in [Conns -> Nat] /\ srq[c] \in Nat
  BY DEF Types
<1>3. sreq' = [sreq EXCEPT ![c] = ZeroCmd] /\ (srq' = srq \/ (qp[c] = "rts" /\ srq' = [srq EXCEPT ![c] = srq[c] + 1]))
  BY DEF Repost
<1>4. srq[c] + 1 \in Nat
  BY <1>2
<1>5. sreq' \in [Conns -> Commands] /\ \A d \in Conns \ {c} : sreq'[d] = sreq[d]
  BY <1>1, <1>2, <1>3, Update, Zenon
<1>6. CASE srq' = srq
  BY <1>2, <1>5, <1>6
<1>7. CASE qp[c] = "rts" /\ srq' = [srq EXCEPT ![c] = srq[c] + 1]
  <2>1. srq' \in [Conns -> Nat] /\ \A d \in Conns \ {c} : srq'[d] = srq[d]
    BY <1>2, <1>4, <1>7, Update, Zenon
  <2> QED
    BY <1>5, <1>7, <2>1
<1> QED
  BY <1>3, <1>6, <1>7

\* Posting the response changes the buffer and at most one queue entry of c.
LEMMA ReplyEffect ==
    ASSUME Types, NEW c \in Conns, NEW cmd \in Commands, Reply(c, cmd)
    PROVE  /\ srsp' \in [Conns -> Commands] /\ srsp'[c] = cmd /\ \A d \in Conns \ {c} : srsp'[d] = srsp[d]
           /\ ssq' = ssq \/ (qp[c] = "rts" /\ ssq' = [ssq EXCEPT ![c] = ssq[c] + 1])
BY DEF Reply, Types

\* The pool before and after its two operations.
LEMMA TakeEffect ==
    ASSUME PoolPart, NEW c \in Conns, Take(c)
    PROVE  /\ PoolPart' /\ unit_res'[c] = Res /\ \A d \in Conns : unit_res[d] = NULL
           /\ \A d \in Conns \ {c} : unit_res'[d] = NULL
<1>1. res_list = <<Res>> /\ \A d \in Conns : unit_res[d] = NULL
  BY DEF PoolPart, Take
<1>2. Head(<<Res>>) = Res /\ Tail(<<Res>>) = <<>>
  OBVIOUS
<1>3. unit_res' = [unit_res EXCEPT ![c] = Res] /\ res_list' = <<>>
  BY <1>1, <1>2, Zenon DEF Take
<1>4. unit_res'[c] = Res /\ (\A d \in Conns \ {c} : unit_res'[d] = NULL)
      /\ unit_res' \in [Conns -> {NULL, Res}]
  BY <1>1, <1>3 DEF PoolPart
<1>5. <<>> # <<Res>>
  OBVIOUS
<1>6. free_size' \in Int /\ in_use_size' \in Int
  BY PoolAssumption DEF PoolPart, Take
<1> QED
  BY <1>1, <1>3, <1>4, <1>5, <1>6, PoolAssumption, Zenon DEF PoolPart

\* Giving the resource back leaves it with no unit.
LEMMA PutEffect ==
    ASSUME PoolPart, NEW c \in Conns, Put(c)
    PROVE  /\ PoolPart' /\ unit_res[c] = Res /\ \A d \in Conns : unit_res'[d] = NULL
<1>1. unit_res[c] = Res /\ res_list = <<>>
  BY DEF PoolPart, Put
<1>2. <<Res>> \o <<>> = <<Res>>
  OBVIOUS
<1>3. unit_res' = [unit_res EXCEPT ![c] = NULL] /\ res_list' = <<Res>>
  BY <1>1, <1>2, Zenon DEF Put
<1>4. \A d \in Conns \ {c} : unit_res[d] = NULL
  BY <1>1 DEF PoolPart
<1>5. (\A d \in Conns : unit_res'[d] = NULL) /\ unit_res' \in [Conns -> {NULL, Res}]
  BY <1>3, <1>4 DEF PoolPart
<1>6. free_size' \in Int /\ in_use_size' \in Int
  BY PoolAssumption DEF PoolPart, Put
<1> QED
  BY <1>1, <1>3, <1>5, <1>6, PoolAssumption, Zenon DEF PoolPart

\* A handler that posts its receive again and answers, or ends the server.
LEMMA ServesReply ==
    ASSUME Types, NEW c \in Conns, NEW opcode \in Opcode, Request(c, opcode),
           NEW ok, Repost(c, ok), NEW cmd \in Commands, cmd.opcode = opcode + 1,
           Reply(c, cmd) \/ UNCHANGED <<ssq, srsp>>
    PROVE  Serves(c, opcode)
<1>1. scq[c] > 0 /\ sreq[c].opcode = opcode /\ scq' = [scq EXCEPT ![c] = scq[c] - 1]
  BY DEF Request
<1>2. /\ sreq' \in [Conns -> Commands] /\ \A d \in Conns \ {c} : sreq'[d] = sreq[d]
      /\ srq' \in [Conns -> Nat] /\ \A d \in Conns \ {c} : srq'[d] = srq[d]
      /\ qp[c] = "err" => srq'[c] = srq[c]
  BY RepostEffect
<1>3. CASE Reply(c, cmd)
  <2>1. /\ srsp' \in [Conns -> Commands] /\ srsp'[c] = cmd /\ \A d \in Conns \ {c} : srsp'[d] = srsp[d]
        /\ ssq' = ssq \/ (qp[c] = "rts" /\ ssq' = [ssq EXCEPT ![c] = ssq[c] + 1])
    BY <1>3, ReplyEffect
  <2> QED
    BY <1>1, <1>2, <2>1 DEF Serves
<1>4. CASE UNCHANGED <<ssq, srsp>>
  <2>1. srsp \in [Conns -> Commands]
    BY DEF Types
  <2> QED
    BY <1>1, <1>2, <1>4, <2>1 DEF Serves
<1> QED
  BY <1>3, <1>4

\* The opcodes and the types of the responses.
LEMMA Responses ==
    /\ \A n \in Int : /\ pack_open_rsp(n) \in Commands /\ pack_open_rsp(n).opcode = RPMEM_OPEN_REQ + 1
                      /\ pack_close_rsp(n) \in Commands /\ pack_close_rsp(n).opcode = RPMEM_CLOSE_REQ + 1
                      /\ pack_unmap_rsp(n) \in Commands /\ pack_unmap_rsp(n).opcode = RPMEM_UNMAP_REQ + 1
                      /\ pack_commit_rsp(n) \in Commands /\ pack_commit_rsp(n).opcode = RPMEM_COMMIT_REQ + 1
    /\ \A rkey \in Rkeys, addr \in Addrs :
           pack_map_rsp(rkey, addr) \in Commands /\ pack_map_rsp(rkey, addr).opcode = RPMEM_MAP_REQ + 1
    /\ {RPMEM_OPEN_REQ, RPMEM_CLOSE_REQ, RPMEM_MAP_REQ, RPMEM_UNMAP_REQ, RPMEM_COMMIT_REQ} \subseteq Opcode
<1> USE DEF RPMEM_OPEN_REQ, RPMEM_CLOSE_REQ, RPMEM_MAP_REQ, RPMEM_UNMAP_REQ, RPMEM_COMMIT_REQ,
            RPMEM_OPEN_RSP, RPMEM_CLOSE_RSP, RPMEM_MAP_RSP, RPMEM_UNMAP_RSP, RPMEM_COMMIT_RSP
<1>1. 0 \in Addrs /\ 1 \in Opcode /\ 3 \in Opcode /\ 5 \in Opcode /\ 7 \in Opcode /\ 9 \in Opcode
  BY DEF Addrs, Opcode, RPMEM_CMD_LAST
<1>2. \A n \in Int : /\ pack_open_rsp(n) \in Commands /\ pack_open_rsp(n).opcode = 1
                     /\ pack_close_rsp(n) \in Commands /\ pack_close_rsp(n).opcode = 3
                     /\ pack_unmap_rsp(n) \in Commands /\ pack_unmap_rsp(n).opcode = 7
                     /\ pack_commit_rsp(n) \in Commands /\ pack_commit_rsp(n).opcode = 9
  BY <1>1, CmdType, Zenon DEF pack_open_rsp, pack_close_rsp, pack_unmap_rsp, pack_commit_rsp
<1>3. \A rkey \in Rkeys, addr \in Addrs :
          pack_map_rsp(rkey, addr) \in Commands /\ pack_map_rsp(rkey, addr).opcode = 5
  <2>1. Rkeys \subseteq Int
    BY SessionAssumption, WordAssumption
  <2> QED
    BY <1>1, <2>1, CmdType, Zenon DEF pack_map_rsp
<1>4. 0 + 1 = 1 /\ 2 + 1 = 3 /\ 4 + 1 = 5 /\ 6 + 1 = 7 /\ 8 + 1 = 9
  OBVIOUS
<1>5. {0, 2, 4, 6, 8} \subseteq Opcode
  BY DEF Opcode, RPMEM_CMD_LAST
<1> QED
  BY <1>2, <1>3, <1>4, <1>5

\* The handlers.
LEMMA ServerActions ==
    ASSUME SessionInv, NEW c \in Conns, ServerNext(c)
    PROVE  SessionInv'
<1>1. /\ Types /\ PoolPart /\ free_size \in Int /\ 0 \in Int /\ -1 \in Int
  BY DEF SessionInv, PoolPart
<1>2. UNCHANGED <<clientVars, queueVars, rsp, rq, cq>>
  BY DEF ServerNext
<1>3. /\ up \in BOOLEAN /\ mem \in Contents /\ file \in Contents /\ 0 \in Contents
      /\ mr \in [conn : Conns \cup {NULL}, rkey : 0 .. Word - 1, len : Nat]
  BY <1>1, SessionAssumption DEF Types
<1>4. NoMr \in [conn : Conns \cup {NULL}, rkey : 0 .. Word - 1, len : Nat]
  BY WordAssumption DEF NoMr
<1>5. UNCHANGED poolVars => PoolPart'
  BY <1>1 DEF PoolPart, poolVars
<1>6. ASSUME HandleOpen(c) PROVE SessionInv'
  <2>1. PICK ok \in BOOLEAN : Repost(c, ok)
    BY <1>6 DEF HandleOpen
  <2>2. /\ Request(c, RPMEM_OPEN_REQ) /\ Reply(c, pack_open_rsp(free_size))
        /\ UNCHANGED poolVars /\ UNCHANGED <<up, mr, mem, file>>
    BY <1>6 DEF HandleOpen, storeVars
  <2>3. Serves(c, RPMEM_OPEN_REQ)
    BY <1>1, <2>1, <2>2, Responses, ServesReply
  <2> QED
    BY <1>2, <1>3, <1>5, <2>2, <2>3, Responses, ServeStep
<1>7. ASSUME HandleClose(c) PROVE SessionInv'
  <2>1. /\ Request(c, RPMEM_CLOSE_REQ) /\ Reply(c, pack_close_rsp(0))
        /\ UNCHANGED poolVars /\ UNCHANGED <<up, mr, mem, file, srq, sreq>>
    BY <1>7 DEF HandleClose, storeVars
  <2>2. /\ srsp' \in [Conns -> Commands] /\ srsp'[c].opcode = RPMEM_CLOSE_REQ + 1
        /\ \A d \in Conns \ {c} : srsp'[d] = srsp[d]
        /\ ssq' = ssq \/ (qp[c] = "rts" /\ ssq' = [ssq EXCEPT ![c] = ssq[c] + 1])
    BY <1>1, <2>1, Responses, ReplyEffect
  <2>3. Serves(c, RPMEM_CLOSE_REQ)
    BY <1>1, <2>1, <2>2 DEF Serves, Request, Types
  <2> QED
    BY <1>2, <1>3, <1>5, <2>1, <2>3, Responses, ServeStep
<1>8. ASSUME HandleCommit(c) PROVE SessionInv'
  <2>1. PICK ok \in BOOLEAN, n \in {0, -1} : Repost(c, ok) /\ Reply(c, pack_commit_rsp(n))
    BY <1>8 DEF HandleCommit
  <2>2. Request(c, RPMEM_COMMIT_REQ) /\ UNCHANGED poolVars /\ UNCHANGED <<up, mr, mem, file>>
    BY <1>8 DEF HandleCommit, storeVars
  <2>3. n \in Int
    OBVIOUS
  <2>4. Serves(c, RPMEM_COMMIT_REQ)
    BY <1>1, <2>1, <2>2, <2>3, Responses, ServesReply
  <2> QED
    BY <1>2, <1>3, <1>5, <2>2, <2>4, Responses, ServeStep
<1>9. ASSUME HandleMap(c) PROVE SessionInv'
  <2>1. PICK ok \in BOOLEAN : Repost(c, ok) /\ (MapRefused(c, ok) \/ MapCrash(c, ok) \/ MapGranted(c, ok))
    BY <1>9 DEF HandleMap
  <2>2. Request(c, RPMEM_MAP_REQ) /\ RPMEM_MAP_REQ \in Opcode
    BY <1>9, Responses DEF HandleMap
  <2>3. PICK k \in Rkeys : TRUE
    BY SessionAssumption
  <2>4. CASE MapRefused(c, ok)
    <3>1. PICK rkey \in Rkeys, addr \in Addrs : Reply(c, pack_map_rsp(rkey, addr))
      BY <2>4 DEF MapRefused
    <3>2. Serves(c, RPMEM_MAP_REQ)
      BY <1>1, <2>1, <2>2, <3>1, Responses, ServesReply
    <3>3. UNCHANGED poolVars /\ UNCHANGED <<up, mr, mem, file>>
      BY <2>4 DEF MapRefused, storeVars
    <3> QED
      BY <1>2, <1>3, <1>5, <2>2, <3>2, <3>3, ServeStep
  <2>5. CASE MapCrash(c, ok)
    <3>1. UNCHANGED poolVars /\ UNCHANGED <<mr, mem, file>> /\ up' = FALSE /\ UNCHANGED <<ssq, srsp>>
      BY <2>5 DEF MapCrash
    <3>2. PICK cmd \in Commands : cmd.opcode = RPMEM_MAP_REQ + 1
      <4>1. 0 \in Addrs
        BY DEF Addrs
      <4> QED
        BY <2>3, <4>1, Responses
    <3>3. Serves(c, RPMEM_MAP_REQ)
      BY <1>1, <2>1, <2>2, <3>1, <3>2, ServesReply
    <3> QED
      BY <1>2, <1>3, <1>5, <2>2, <3>1, <3>3, ServeStep
  <2>6. CASE MapGranted(c, ok)
    <3>1. PICK rkey \in Rkeys, addr \in Addrs :
             /\ Reply(c, pack_map_rsp(rkey, addr)) /\ Take(c) /\ UNCHANGED <<up, file>>
             /\ \/ /\ unpack_int(sreq[c]) > 0 /\ mem' = file
                   /\ mr' = [conn |-> c, rkey |-> rkey, len |-> unpack_int(sreq[c])]
                \/ mr' = NoMr /\ UNCHANGED mem
      BY <2>6 DEF MapGranted, Addrs
    <3>2. Serves(c, RPMEM_MAP_REQ)
      BY <1>1, <2>1, <2>2, <3>1, Responses, ServesReply
    <3>3. unpack_int(sreq[c]) \in Int
      <4>1. sreq[c].word \in Nat
        BY <1>1, WordAssumption DEF Types, Commands
      <4> QED
        BY <4>1, WordAssumption DEF unpack_int, ToInt32
    <3>4. /\ mr' \in [conn : Conns \cup {NULL}, rkey : 0 .. Word - 1, len : Nat]
          /\ mem' \in Contents /\ file' \in Contents /\ up' \in BOOLEAN
      <4>1. rkey \in 0 .. Word - 1
        BY SessionAssumption
      <4>2. CASE /\ unpack_int(sreq[c]) > 0 /\ mem' = file
                 /\ mr' = [conn |-> c, rkey |-> rkey, len |-> unpack_int(sreq[c])]
        <5>1. unpack_int(sreq[c]) \in Nat
          BY <3>3, <4>2
        <5> QED
          BY <1>3, <3>1, <4>1, <4>2, <5>1
      <4>3. CASE mr' = NoMr /\ UNCHANGED mem
        BY <1>3, <1>4, <3>1, <4>3
      <4> QED
        BY <3>1, <4>2, <4>3
    <3>5. PoolPart'
      BY <1>1, <3>1, TakeEffect
    <3> QED
      BY <1>2, <2>2, <3>2, <3>4, <3>5, ServeStep
  <2> QED
    BY <2>1, <2>4, <2>5, <2>6
<1>10. ASSUME HandleUnmap(c) PROVE SessionInv'
  <2>1. Request(c, RPMEM_UNMAP_REQ) /\ RPMEM_UNMAP_REQ \in Opcode
    BY <1>10, Responses DEF HandleUnmap
  <2>2. PICK ok \in BOOLEAN, n \in {0, -1} :
        /\ Repost(c, ok) /\ (Reply(c, pack_unmap_rsp(n)) \/ UNCHANGED <<ssq, srsp>>)
        /\ UNCHANGED poolVars \/ Put(c)
        /\ up' \in {up, FALSE} /\ mr' \in {mr, NoMr} /\ mem' \in {mem, 0} /\ file' = file
    BY <1>10 DEF HandleUnmap, storeVars
  <2>3. n \in Int
    OBVIOUS
  <2>4. Serves(c, RPMEM_UNMAP_REQ)
    BY <1>1, <2>1, <2>2, <2>3, Responses, ServesReply
  <2>5. PoolPart'
    BY <1>1, <1>5, <2>2, PutEffect
  <2> QED
    BY <1>2, <1>3, <1>4, <2>1, <2>2, <2>4, <2>5, ServeStep
<1> QED
  BY <1>6, <1>7, <1>8, <1>9, <1>10 DEF ServerNext, Server

--------------------------------------------------------------------------------
(* The inductive invariant and what follows from it.                        *)

\* A session that has just been established.
LEMMA SessionInit == ASSUME Init PROVE SessionInv
<1>1. ZeroCmd \in Commands
  BY CmdType DEF ZeroCmd, Opcode, RPMEM_CMD_LAST, Addrs
<1>2. /\ 0 \in 0 .. Word - 1 /\ 0 \in Contents /\ FileInit \in Contents /\ 0 \in 0 .. MaxRecvWr
      /\ 0 \in Nat /\ 1 \in Nat
  BY WordAssumption, SessionAssumption
<1>3. NoMap \in RmrType /\ NoMr \in [conn : Conns \cup {NULL}, rkey : 0 .. Word - 1, len : Nat]
  BY <1>2 DEF NoMap, NoMr, RmrType, Addrs
<1>4. Types
  <2>1. /\ pc \in [Conns -> Calls] /\ qp \in [Conns -> {"rts", "err"}]
        /\ sq \in [Conns -> Seq(Ops)] /\ sent \in [Conns -> Seq(Ops)]
        /\ cq \in [Conns -> Seq(Ops \cup {"RECV"})] /\ up \in BOOLEAN
    BY DEF Init, Calls
  <2>2. /\ sem_command \in [Conns -> Nat] /\ srq \in [Conns -> Nat]
        /\ scq \in [Conns -> Nat] /\ ssq \in [Conns -> Nat] /\ rq \in [Conns -> 0 .. MaxRecvWr]
    BY <1>2 DEF Init
  <2>3. /\ req \in [Conns -> Commands] /\ rsp \in [Conns -> Commands]
        /\ sreq \in [Conns -> Commands] /\ srsp \in [Conns -> Commands]
        /\ rmr \in [Conns -> RmrType]
    BY <1>1, <1>3 DEF Init
  <2>4. /\ mr \in [conn : Conns \cup {NULL}, rkey : 0 .. Word - 1, len : Nat]
        /\ mem \in Contents /\ file \in Contents
    BY <1>2, <1>3 DEF Init
  <2> QED
    BY <2>1, <2>2, <2>3, <2>4, Zenon DEF Types, RmrType
<1>5. PoolPart
  BY PoolAssumption DEF Init, PoolInit, PoolPart
<1>6. ASSUME NEW c \in Conns PROVE LocalInv(c)
  <2>1. /\ pc[c] = "init" /\ qp[c] = "rts" /\ sq[c] = <<>> /\ sent[c] = <<>> /\ cq[c] = <<>>
        /\ sem_command[c] = 0 /\ rq[c] = 0 /\ ssq[c] = 0 /\ scq[c] = 0
    BY DEF Init
  <2>2. FlushInv(c) /\ MsgInv(c)
    BY <2>1 DEF FlushInv, MsgInv, Over, Waiting
  <2>3. /\ Count(sq[c], "SEND") = 0 /\ Count(sq[c], "READ") = 0 /\ Count(sent[c], "READ") = 0
        /\ Count(cq[c], "RECV") = 0 /\ Count(cq[c], "READ") = 0
    BY <2>1, CountEmpty, Zenon
  <2>4. Balance("init", "rts", 0, 0, 0, 0, 0, 0, 0, 0, 0)
    BY DEF Balance, Over, Waiting
  <2>5. CountInv(c)
    BY <2>1, <2>3, <2>4, Zenon DEF CountInv
  <2>6. Used(c) <= MaxSendWr
    BY <2>1, <2>3, SessionAssumption DEF Used
  <2> QED
    BY <2>2, <2>5, <2>6 DEF LocalInv
<1> QED
  BY <1>4, <1>5, <1>6, Zenon DEF SessionInv

\* Every step of the clients, the network and the server keeps the invariant.
LEMMA SessionNext == ASSUME SessionInv, [Next]_vars PROVE SessionInv'
<1>1. ASSUME NEW c \in Conns, App(c) PROVE SessionInv'
  BY <1>1, CommandActions, ReturnActions DEF App
<1>2. ASSUME NEW c \in Conns, Return(c) PROVE SessionInv'
  <2>1. CASE Teardown(c)
    BY <2>1, GoneStep DEF Teardown, Over
  <2> QED
    BY <1>2, <2>1, ReturnActions DEF Return
<1>3. ASSUME NEW c \in Conns, ClientCrash(c) PROVE SessionInv'
  BY <1>3, GoneStep DEF ClientCrash, Over
<1>4. ASSUME NEW c \in Conns, Network(c) PROVE SessionInv'
  BY <1>4, ExecuteStep, CompleteStep, DeliverStep DEF Network
<1>5. CASE Next
  BY <1>1, <1>2, <1>3, <1>4, <1>5, HandleWcStep, ServerActions DEF Next
<1>6. CASE UNCHANGED vars
  <2>1. Types' /\ PoolPart'
    BY <1>6 DEF SessionInv, Types, PoolPart, vars, clientVars, queueVars, serverVars, poolVars,
                unitVars, storeVars
  <2>2. ASSUME NEW c \in Conns PROVE LocalInv(c)'
    <3>1. Same(c)
      BY <1>6 DEF Same, vars, clientVars, queueVars, serverVars, unitVars
    <3> QED
      BY <3>1, SameLocal DEF SessionInv
  <2> QED
    BY <2>1, <2>2, Zenon DEF SessionInv
<1> QED
  BY <1>5, <1>6

\* The session keeps its invariant, however many clients there are, whatever
\* they do and whatever fails.
THEOREM SessionInvariant == Spec => []SessionInv
<1> QED
  BY SessionInit, SessionNext, PTL DEF Spec

\* A completion queue holds what its queue pair can complete: the work requests
\* are within max_send_wr, and at most one response is there.
LEMMA QueueBound ==
    ASSUME SessionInv, NEW c \in Conns
    PROVE  Used(c) <= MaxSendWr /\ Len(cq[c]) <= MaxSendWr + MaxRecvWr
<1>1. Types /\ LocalInv(c) /\ Used(c) <= MaxSendWr /\ pc[c] \in Calls
  BY DEF SessionInv, LocalInv, Types
<1>2. CASE pc[c] \in Over
  <2>1. cq[c] = <<>>
    BY <1>1, <1>2 DEF LocalInv, FlushInv
  <2> QED
    BY <1>1, <2>1, SessionAssumption
<1>3. CASE pc[c] \notin Over
  <2>1. PICK cv \in Nat : cv = Count(cq[c], "RECV")
    BY <1>1, Numbers, Zenon
  <2>2. cv <= 1
    <3> DEFINE w == IF pc[c] \in Waiting THEN 1 ELSE 0
    <3>1. Pending(c) <= w
      BY <1>1, <1>3, Zenon DEF LocalInv, CountInv, Balance, Pending
    <3>2. cv <= Pending(c)
      BY <1>1, <2>1, Numbers DEF Pending
    <3>3. w <= 1 /\ w \in Nat
      OBVIOUS
    <3> HIDE DEF w
    <3>4. Pending(c) \in Nat
      BY <1>1, Numbers, Zenon
    <3> QED
      BY <3>1, <3>2, <3>3, <3>4
  <2>3. PICK q \in Nat, t \in Nat, k \in Nat :
            /\ q = Length(sq[c]) /\ t = Length(sent[c]) /\ k = Length(cq[c])
            /\ Used(c) = q + t + k - cv
    BY <1>1, <2>1, Numbers, Zenon
  <2>4. k <= MaxSendWr + MaxRecvWr
    BY <1>1, <2>2, <2>3, SessionAssumption
  <2> QED
    BY <1>1, <2>3, <2>4, Zenon DEF Length
<1> QED
  BY <1>2, <1>3

\* Type correctness, with the limits of the queues: a post that passed its check
\* never overruns the send queue, the receive queue or the completion queue.
THEOREM TypeCorrect == Spec => []TypeOK
<1>1. SessionInv => TypeOK
  BY QueueBound DEF SessionInv, Types, TypeOK
<1> QED
  BY <1>1, SessionInvariant, PTL

\* A command that wakes from sem_wait finds its own response in conn->rsp.
THEOREM OwnResponse == Spec => []RspMatches
<1>1. SessionInv => RspMatches
  BY DEF SessionInv, LocalInv, MsgInv, RspMatches
<1> QED
  BY <1>1, SessionInvariant, PTL

\* At most one wakeup is due to a client that waits, and none to any other: the
\* late response or READ of one command never makes another return.
THEOREM SingleWakeup == Spec => []OneWakeup
<1>1. SessionInv => OneWakeup
  <2> SUFFICES ASSUME SessionInv, NEW c \in Conns, pc[c] \notin {"closed", "dead"}
               PROVE  Pending(c) <= IF pc[c] \in Waiting THEN 1 ELSE 0
    BY DEF OneWakeup
  <2>1. CountInv(c) /\ pc[c] \notin Over
    BY DEF SessionInv, LocalInv, Over
  <2> QED
    BY <2>1, Zenon DEF CountInv, Balance, Pending
<1> QED
  BY <1>1, SessionInvariant, PTL

\* A response always finds a receive that the client has posted for it.
THEOREM ReceivePosted == Spec => []ResponseHasReceive
<1>1. SessionInv => ResponseHasReceive
  <2> SUFFICES ASSUME SessionInv, NEW c \in Conns PROVE ssq[c] <= rq[c]
    BY DEF ResponseHasReceive
  <2>1. Types /\ FlushInv(c) /\ CountInv(c)
    BY DEF SessionInv, LocalInv
  <2>2. /\ ssq[c] \in Nat /\ scq[c] \in Nat /\ rq[c] \in Nat /\ Count(sq[c], "SEND") \in Nat
    BY <2>1, Numbers, Zenon
  <2>3. CASE qp[c] = "err"
    BY <2>1, <2>2, <2>3 DEF FlushInv
  <2>4. CASE Count(sq[c], "SEND") + scq[c] + ssq[c] <= rq[c]
    BY <2>2, <2>4
  <2>5. qp[c] = "err" \/ Count(sq[c], "SEND") + scq[c] + ssq[c] <= rq[c]
    BY <2>1, Zenon DEF CountInv, Balance
  <2> QED
    BY <2>3, <2>4, <2>5
<1> QED
  BY <1>1, SessionInvariant, PTL

--------------------------------------------------------------------------------
(* The server's receives.                                                   *)

\* The request that a handler takes is the one that its client waits on, and
\* nothing else of that session is under way.
LEMMA AtServer ==
    ASSUME SessionInv, NEW c \in Conns, scq[c] > 0, pc[c] \notin Over
    PROVE  /\ pc[c] \in Waiting \ {"read"} /\ IsRequest(c, sreq[c])
           /\ scq[c] = 1 /\ ssq[c] = 0 /\ Count(sq[c], "SEND") = 0
           /\ Count(cq[c], "RECV") = 0 /\ sem_command[c] = 0
<1>1. Types /\ LocalInv(c) /\ CountInv(c)
  BY DEF SessionInv, LocalInv
<1>2. /\ rq[c] \in Nat /\ sem_command[c] \in Nat /\ scq[c] \in Nat /\ ssq[c] \in Nat
      /\ Count(sq[c], "SEND") \in Nat /\ Count(sq[c], "READ") \in Nat
      /\ Count(sent[c], "READ") \in Nat
      /\ Count(cq[c], "RECV") \in Nat /\ Count(cq[c], "READ") \in Nat
  BY <1>1, Numbers, Zenon
<1>3. pc[c] \in Waiting
  <2>1. CASE pc[c] \notin Waiting
    BY <1>1, <1>2, <2>1, Quiet
  <2> QED
    BY <2>1
<1>4. pc[c] # "read"
  <2>1. pc[c] = "read" => scq[c] = 0
    BY <1>1, Zenon DEF CountInv, Balance
  <2> QED
    BY <2>1
<1>5. scq[c] - 1 = 0 /\ ssq[c] = 0 /\ Count(sq[c], "SEND") = 0 /\ Count(cq[c], "RECV") = 0
      /\ sem_command[c] = 0
  BY <1>1, <1>2, <1>3, BalanceAlone DEF CountInv
<1>6. IsRequest(c, sreq[c])
  BY <1>1, <1>3, <1>4 DEF LocalInv, MsgInv
<1>7. scq[c] = 1
  BY <1>2, <1>5
<1> QED
  BY <1>3, <1>4, <1>5, <1>6, <1>7, Zenon

\* A unit on a good connection has its receive posted or its completion to
\* handle, until it has handled rpmem_close.
ServeInv(c) ==
    qp[c] = "rts" => \/ srq[c] + scq[c] = 1
                     \/ pc[c] \in {"close", "teardown"} /\ Count(sq[c], "SEND") = 0

\* A step that leaves the unit's receives alone.
LEMMA ServeKept ==
    ASSUME NEW c, ServeInv(c), qp'[c] \in {qp[c], "err"},
           srq'[c] = srq[c], scq'[c] = scq[c],
           \/ pc[c] \notin {"close", "teardown"}
           \/ /\ pc'[c] \in {"close", "teardown"}
              /\ Count(sq'[c], "SEND") = Count(sq[c], "SEND")
    PROVE  ServeInv(c)'
BY DEF ServeInv

\* A handler that posts its receive again.
LEMMA ServeAgain ==
    ASSUME SessionInv, NEW c \in Conns, ServeInv(c), "server_post" \notin Faults,
           NEW opcode \in Opcode \ {RPMEM_CLOSE_REQ}, Request(c, opcode),
           NEW ok, Repost(c, ok), qp' = qp, pc' = pc, sq' = sq
    PROVE  ServeInv(c)'
<1>1. Types /\ srq \in [Conns -> Nat] /\ scq \in [Conns -> Nat] /\ FlushInv(c)
      /\ srq[c] \in Nat /\ scq[c] \in Nat
  BY DEF SessionInv, Types, LocalInv
<1>2. SUFFICES ASSUME qp[c] = "rts" PROVE srq'[c] + scq'[c] = 1
  BY DEF ServeInv
<1>3. pc[c] \notin Over /\ scq[c] > 0 /\ sreq[c].opcode = opcode
  BY <1>1, <1>2 DEF FlushInv, Request
<1>4. pc[c] \in Waiting /\ Expected(pc[c]) - 1 = opcode
  BY <1>3, AtServer DEF IsRequest, RequestOf
<1>5. pc[c] \notin {"close", "teardown"}
  BY <1>4 DEF Waiting, Expected, RPMEM_CLOSE_REQ, RPMEM_CLOSE_RSP
<1>6. srq[c] + scq[c] = 1
  BY <1>2, <1>5 DEF ServeInv
<1>7. srq' = [srq EXCEPT ![c] = srq[c] + 1] /\ scq' = [scq EXCEPT ![c] = scq[c] - 1]
  BY <1>2 DEF Repost, Request
<1>8. srq'[c] = srq[c] + 1 /\ scq'[c] = scq[c] - 1
  BY <1>1, <1>7
<1> QED
  BY <1>1, <1>6, <1>8

\* If the server can post, every step leaves it a receive for each request.
LEMMA ServeNext ==
    ASSUME SessionInv, "server_post" \notin Faults, NEW c \in Conns, ServeInv(c), [Next]_vars
    PROVE  ServeInv(c)'
<1>1. Types /\ LocalInv(c)
  BY DEF SessionInv
<1>2. /\ srq \in [Conns -> Nat] /\ scq \in [Conns -> Nat] /\ ssq \in [Conns -> Nat]
      /\ pc \in [Conns -> Calls] /\ qp \in [Conns -> {"rts", "err"}] /\ sq \in [Conns -> Seq(Ops)]
      /\ srq[c] \in Nat /\ scq[c] \in Nat
  BY <1>1 DEF Types
<1>3. ASSUME Same(c) PROVE ServeInv(c)'
  BY <1>3 DEF ServeInv, Same
<1>4. ASSUME NEW d \in Conns, NEW w, NEW cmd, NEW waiting, NEW failed, Command(d, w, cmd, waiting, failed),
             pc[d] \notin {"close", "teardown"}
      PROVE  ServeInv(c)'
  <2>1. /\ qp' = qp /\ srq' = srq /\ scq' = scq
        /\ \E x : pc' = [pc EXCEPT ![d] = x]
        /\ \E y : sq' = [sq EXCEPT ![d] = y]
    <3>1. sq = [sq EXCEPT ![d] = sq[d]]
      BY <1>2
    <3> QED
      BY <1>4, <3>1 DEF Command, serverVars, unitVars
  <2>2. CASE c = d
    BY <1>4, <2>1, <2>2, ServeKept
  <2>3. CASE c # d
    <3>1. pc'[c] = pc[c] /\ sq'[c] = sq[c]
      BY <1>2, <2>1, <2>3
    <3> QED
      BY <2>1, <3>1 DEF ServeInv
  <2> QED
    BY <2>2, <2>3
<1>5. ASSUME NEW d \in Conns, App(d) PROVE ServeInv(c)'
  <2>1. CASE \E data \in Contents : AppWrite(d, data)
    BY <2>1 DEF AppWrite, ServeInv, queueVars, serverVars, unitVars
  <2> QED
    BY <1>4, <1>5, <2>1 DEF App, Open, Unmap, Commit, Close, Map
<1>6. ASSUME NEW d \in Conns, NEW how, Gone(d, how) PROVE ServeInv(c)'
  <2>1. CASE c = d
    BY <1>2, <1>6, <2>1 DEF Gone, Break, ServeInv
  <2>2. CASE c # d
    BY <1>2, <1>6, <2>2 DEF Gone, Break, ServeInv
  <2> QED
    BY <2>1, <2>2
<1>7. ASSUME NEW d \in Conns, Return(d) PROVE ServeInv(c)'
  <2>1. CASE Teardown(d)
    BY <1>6, <2>1 DEF Teardown
  <2>2. CASE CloseReturns(d)
    <3>1. /\ pc' = [pc EXCEPT ![d] = "teardown"] /\ UNCHANGED <<qp, sq, srq, scq>> /\ pc[d] = "close"
      BY <2>2 DEF CloseReturns, queueVars, serverVars, unitVars
    <3> QED
      BY <1>2, <3>1 DEF ServeInv
  <2>3. CASE OpenReturns(d) \/ MapRead(d) \/ MapReturns(d) \/ UnmapReturns(d) \/ CommitReturns(d)
    <3>1. pc[d] \notin {"close", "teardown"} /\ UNCHANGED <<qp, srq, scq>>
      BY <2>3 DEF OpenReturns, MapRead, MapReturns, UnmapReturns, CommitReturns, queueVars,
                  serverVars, unitVars
    <3>2. c # d => pc'[c] = pc[c] /\ sq'[c] = sq[c]
      BY <1>2, <2>3 DEF OpenReturns, MapRead, MapReturns, UnmapReturns, CommitReturns, queueVars
    <3> QED
      BY <3>1, <3>2 DEF ServeInv
  <2> QED
    BY <1>7, <2>1, <2>2, <2>3 DEF Return
<1>8. ASSUME NEW d \in Conns, HandleWc(d) \/ Complete(d) \/ Deliver(d) PROVE ServeInv(c)'
  <2>1. UNCHANGED <<pc, qp, sq, srq, scq>>
    BY <1>8 DEF HandleWc, Complete, Deliver, clientVars, queueVars, serverVars, unitVars
  <2> QED
    BY <2>1 DEF ServeInv
<1>9. ASSUME NEW d \in Conns, Execute(d) PROVE ServeInv(c)'
  <2>1. sq[d] # <<>> /\ pc' = pc
    BY <1>9 DEF Execute
  <2>2. CASE c # d
    BY <1>2, <1>9, <2>2 DEF Execute, Executed, Break, ServeInv
  <2>3. CASE c = d /\ Break(d)
    BY <1>2, <2>3 DEF Break, ServeInv
  <2>4. CASE c = d /\ Executed(d) /\ ~Break(d)
    <3>1. sq'[c] = Tail(sq[c]) /\ sq[c] \in Seq(Ops)
      BY <1>2, <2>4 DEF Executed
    <3>2. /\ Count(sq[c], "SEND") = Count(Tail(sq[c]), "SEND") + IF Head(sq[c]) = "SEND" THEN 1 ELSE 0
          /\ Count(Tail(sq[c]), "SEND") \in Nat /\ Count(sq[c], "SEND") \in Nat
      <4>1. Tail(sq[c]) \in Seq(Ops)
        BY <2>1, <2>4, <3>1
      <4> QED
        BY <2>1, <2>4, <3>1, <4>1, CountTail, CountType
    <3>3. CASE Head(sq[c]) = "SEND"
      <4>1. srq' = [srq EXCEPT ![c] = srq[c] - 1] /\ scq' = [scq EXCEPT ![c] = scq[c] + 1] /\ qp' = qp
        BY <1>9, <2>4, <3>3 DEF Execute
      <4>2. srq'[c] = srq[c] - 1 /\ scq'[c] = scq[c] + 1
        BY <1>2, <4>1
      <4>3. Count(sq[c], "SEND") # 0
        BY <3>2, <3>3
      <4>4. qp[c] = "rts" => srq[c] + scq[c] = 1
        BY <4>3 DEF ServeInv
      <4>5. qp[c] = "rts" => srq'[c] + scq'[c] = 1
        BY <1>2, <4>2, <4>4
      <4> QED
        BY <4>1, <4>5 DEF ServeInv
    <3>4. CASE Head(sq[c]) # "SEND"
      <4>1. UNCHANGED <<srq, scq, qp>>
        BY <1>9, <2>4, <3>4 DEF Execute
      <4>2. Count(sq'[c], "SEND") = Count(sq[c], "SEND")
        BY <3>1, <3>2, <3>4
      <4> QED
        BY <2>1, <4>1, <4>2 DEF ServeInv
    <3> QED
      BY <3>3, <3>4
  <2>5. Executed(d) \/ Break(d)
    BY <1>9 DEF Execute
  <2> QED
    BY <2>2, <2>3, <2>4, <2>5
<1>10. ASSUME NEW d \in Conns, ServerNext(d) PROVE ServeInv(c)'
  <2>1. UNCHANGED <<pc, qp, sq>> /\ Server(d)
    BY <1>10 DEF ServerNext, clientVars, queueVars
  <2>2. CASE c # d
    <3>1. srq'[c] = srq[c] /\ scq'[c] = scq[c]
      BY <1>2, <2>1, <2>2 DEF Server, HandleOpen, HandleClose, HandleMap, HandleUnmap,
                              HandleCommit, Request, Repost
    <3> QED
      BY <2>1, <3>1 DEF ServeInv
  <2>3. CASE c = d /\ HandleClose(c)
    <3>1. SUFFICES ASSUME qp[c] = "rts"
                   PROVE  pc[c] \in {"close", "teardown"} /\ Count(sq[c], "SEND") = 0
      BY <2>1 DEF ServeInv
    <3>2. pc[c] \notin Over /\ scq[c] > 0 /\ sreq[c].opcode = RPMEM_CLOSE_REQ
      BY <1>1, <2>3, <3>1 DEF LocalInv, FlushInv, HandleClose, Request
    <3>3. pc[c] \in Waiting \ {"read"} /\ Expected(pc[c]) - 1 = RPMEM_CLOSE_REQ /\ Count(sq[c], "SEND") = 0
      BY <3>2, AtServer DEF IsRequest, RequestOf
    <3>4. pc[c] = "close"
      BY <3>3 DEF Waiting, Expected, RPMEM_CLOSE_REQ, RPMEM_OPEN_RSP, RPMEM_CLOSE_RSP,
                  RPMEM_MAP_RSP, RPMEM_UNMAP_RSP, RPMEM_COMMIT_RSP
    <3> QED
      BY <3>3, <3>4
  <2>4. CASE c = d /\ ~HandleClose(c)
    <3>1. PICK ok \in BOOLEAN,
               opcode \in {RPMEM_OPEN_REQ, RPMEM_MAP_REQ, RPMEM_UNMAP_REQ, RPMEM_COMMIT_REQ} :
              Request(c, opcode) /\ Repost(c, ok)
      BY <2>1, <2>4 DEF Server, HandleOpen, HandleMap, HandleUnmap, HandleCommit
    <3>2. opcode \in Opcode \ {RPMEM_CLOSE_REQ}
      BY <3>1, Responses DEF RPMEM_OPEN_REQ, RPMEM_CLOSE_REQ, RPMEM_MAP_REQ, RPMEM_UNMAP_REQ,
                             RPMEM_COMMIT_REQ
    <3> QED
      BY <2>1, <3>1, <3>2, ServeAgain
  <2> QED
    BY <2>2, <2>3, <2>4
<1>11. CASE UNCHANGED vars
  BY <1>3, <1>11 DEF Same, vars, clientVars, queueVars, serverVars, unitVars
<1>12. CASE Next
  BY <1>5, <1>6, <1>7, <1>8, <1>9, <1>10, <1>12 DEF Next, ClientCrash, Network
<1> QED
  BY <1>11, <1>12

\* If the server's posts succeed, a request never waits for a receive: it is the
\* only message of its session, and its unit has posted the receive again.
THEOREM RequestsReceived ==
    ASSUME "server_post" \notin Faults
    PROVE  Spec => []RequestHasReceive
<1> DEFINE Inv == SessionInv /\ \A c \in Conns : ServeInv(c)
<1>1. Init => Inv
  <2>1. ASSUME Init, NEW c \in Conns PROVE ServeInv(c)
    BY <2>1 DEF Init, ServeInv
  <2> QED
    BY <2>1, SessionInit
<1>2. Inv /\ [Next]_vars => Inv'
  BY ServeNext, SessionNext
<1>3. Inv => RequestHasReceive
  <2> SUFFICES ASSUME Inv, NEW c \in Conns, sq[c] # <<>>, Head(sq[c]) = "SEND"
               PROVE  srq[c] > 0
    BY DEF RequestHasReceive
  <2>1. /\ Types /\ FlushInv(c) /\ ServeInv(c) /\ sq[c] \in Seq(Ops) /\ qp[c] \in {"rts", "err"}
        /\ srq[c] \in Nat /\ scq[c] \in Nat
    BY DEF SessionInv, LocalInv, Types
  <2>2. qp[c] = "rts" /\ pc[c] \notin Over
    BY <2>1 DEF FlushInv
  <2>3. Count(sq[c], "SEND") # 0
    <3>1. Tail(sq[c]) \in Seq(Ops)
      BY <2>1
    <3>2. Count(sq[c], "SEND") = Count(Tail(sq[c]), "SEND") + 1
      BY <2>1, CountTail
    <3>3. Count(Tail(sq[c]), "SEND") \in Nat
      BY <3>1, CountType
    <3> QED
      BY <3>2, <3>3
  <2>4. srq[c] + scq[c] = 1
    BY <2>1, <2>2, <2>3 DEF ServeInv
  <2>5. ~(scq[c] > 0)
    BY <2>2, <2>3, AtServer
  <2> QED
    BY <2>1, <2>4, <2>5
<1> QED
  BY <1>1, <1>2, <1>3, PTL DEF Spec
================================================================================
