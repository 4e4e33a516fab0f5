----------------------------- MODULE RpmemProtocol -----------------------------
(****************************************************************************)
(* The wire protocol of rpmem (rpmem_protocol.h, rpmem_protocol.c): the     *)
(* opcodes, the 48-byte command and the pack_* and unpack_* conversions.    *)
(*                                                                          *)
(* Every request and response of the protocol starts with the same three    *)
(* fields, overlaid by the C casts: a 32-bit opcode, a 32-bit word (the     *)
(* len, size, ret or rkey) and a 64-bit remote_addr.  A command is that     *)
(* record.  Word stands for 2^32, the number of values of a 32-bit word;    *)
(* it is a parameter so that TLC can explore the wrap-around.               *)
(****************************************************************************)
EXTENDS Integers

CONSTANT Word       \* number of values of a uint32_t (2^32 in the code)

ASSUME WordAssumption == Word \in Nat /\ Word > 0 /\ Word % 2 = 0

--------------------------------------------------------------------------------
(* Integer conversions.  htonl/ntohl are inverse byte swaps, so what they   *)
(* leave visible is the conversion between int and uint32_t on both ends.   *)

\* The uint32_t that an int, a size_t or an off_t becomes: htonl(x).
ToUint32(x) == x % Word

\* The int that a uint32_t becomes, and the cast (int)x of a wider value.
ToInt32(x) == LET u == x % Word
              IN  IF u < Word \div 2 THEN u ELSE u - Word

Int32 == -(Word \div 2) .. (Word \div 2) - 1

--------------------------------------------------------------------------------
(* enum rpmem_opcode.  A buffer that memset has cleared reads as opcode 0.  *)
RPMEM_OPEN_REQ   == 0
RPMEM_OPEN_RSP   == 1
RPMEM_CLOSE_REQ  == 2
RPMEM_CLOSE_RSP  == 3
RPMEM_MAP_REQ    == 4
RPMEM_MAP_RSP    == 5
RPMEM_UNMAP_REQ  == 6
RPMEM_UNMAP_RSP  == 7
RPMEM_COMMIT_REQ == 8
RPMEM_COMMIT_RSP == 9
RPMEM_CMD_LAST   == 10

Opcode == 0 .. RPMEM_CMD_LAST - 1

\* struct rpmem_cmd as its overlays read it; bytes a pack_* function does not
\* set are never read by the other side and are taken to be zero.
Cmd(opcode, word, remote_addr) ==
    [opcode |-> opcode, word |-> ToUint32(word), remote_addr |-> remote_addr]

\* A command buffer after memset(cmd, 0, RPMEM_CMD_SIZE) in rpmem_post_recv.
ZeroCmd == Cmd(0, 0, 0)

--------------------------------------------------------------------------------
(* Mutant, wrong on purpose: a commit is answered with the opcode of unmap. *)
pack_commit_rsp_unmap(ret) == Cmd(RPMEM_UNMAP_RSP, ret, 0)

pack_open_req                      == Cmd(RPMEM_OPEN_REQ, 0, 0)
pack_open_rsp(size)                == Cmd(RPMEM_OPEN_RSP, size, 0)
pack_close_req                     == Cmd(RPMEM_CLOSE_REQ, 0, 0)
pack_close_rsp(ret)                == Cmd(RPMEM_CLOSE_RSP, ret, 0)
pack_map_req(len)                  == Cmd(RPMEM_MAP_REQ, len, 0)
pack_map_rsp(rkey, remote_addr)    == Cmd(RPMEM_MAP_RSP, rkey, remote_addr)
pack_unmap_req(len, remote_addr)   == Cmd(RPMEM_UNMAP_REQ, len, remote_addr)
pack_unmap_rsp(ret)                == Cmd(RPMEM_UNMAP_RSP, ret, 0)
pack_commit_req(len, remote_addr)  == Cmd(RPMEM_COMMIT_REQ, len, remote_addr)
pack_commit_rsp(ret)               == Cmd(RPMEM_COMMIT_RSP, ret, 0)

(* unpack_*_rsp return -EINVAL and store nothing unless the opcode is the   *)
(* one they expect: these predicates say that the call succeeds.            *)
unpack_open_rsp(rsp)   == rsp.opcode = RPMEM_OPEN_RSP
unpack_close_rsp(rsp)  == rsp.opcode = RPMEM_CLOSE_RSP
unpack_map_rsp(rsp)    == rsp.opcode = RPMEM_MAP_RSP
unpack_unmap_rsp(rsp)  == rsp.opcode = RPMEM_UNMAP_RSP
unpack_commit_rsp(rsp) == rsp.opcode = RPMEM_COMMIT_RSP

\* What a successful call stores through its int pointer: *ret = ntohl(...).
unpack_int(rsp) == ToInt32(rsp.word)
================================================================================
