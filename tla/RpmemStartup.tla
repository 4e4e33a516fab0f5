------------------------------ MODULE RpmemStartup ------------------------------
(****************************************************************************)
(* How the server starts (rpmem_server.c): process_inargs, then main() up   *)
(* to the join of the cm_thread, with the labels that undo a start that     *)
(* fails half way.                                                          *)
(*                                                                          *)
(* The struct inargs of main() is not initialised: a field that no option   *)
(* has set is "junk", and freeing junk, or reading a string there, may end  *)
(* the process ("crash") or, when the junk happens to be a null pointer, do *)
(* nothing.                                                                 *)
(****************************************************************************)
EXTENDS RpmemProtocol, Sequences

CONSTANTS
    Args,           \* command lines: sequences of Params
    Sizes,          \* sizes (st_size) of the resource
    Fails           \* the calls of main() may fail

Params == {"addr", "port", "resource", "resources", "help", "unknown", "operand"}

ASSUME StartupAssumption == /\ Args \subseteq Seq(Params)
                            /\ Sizes \subseteq Nat
                            /\ Fails \in BOOLEAN

VARIABLES
    pc,             \* where main() is; the labels have their names
    args,           \* parameters still to be processed
    in,             \* which fields of struct inargs are set
    rejected,       \* the parameter that was reported as invalid, or "none"
    held,           \* what main() has opened, created or initialised
    st_size,        \* res.stbuf.st_size
    total_size,     \* server.total_size, and what free_size starts with
    res_list        \* the resource is in server.res_list

vars == <<pc, args, in, rejected, held, st_size, total_size, res_list>>

Init == /\ pc = "inargs" /\ args \in Args /\ rejected = "none"
        /\ in = [server_addr |-> "junk", server_port |-> "junk", resource |-> "junk"]
        /\ held = {} /\ st_size = 0 /\ total_size = 0 /\ res_list = FALSE

--------------------------------------------------------------------------------
(* process_inargs.                                                          *)

\* Where free of these pointers may lead.
FreeIn(fields, then) ==
    IF \E x \in fields : in[x] = "junk" THEN {then, "crash"} ELSE {then}

Field == [addr |-> "server_addr", port |-> "server_port", resource |-> "resource"]

\* The label cleanup reports the parameter and exits.
Cleanup(param) == /\ rejected' = param
                  /\ pc' \in FreeIn({"server_addr"}, "exit")

\* getopt_long knows --addr, --port, --resource and --help, and moves operands
\* behind the options.
Option ==
    /\ pc = "inargs" /\ \E i \in DOMAIN args : args[i] # "operand"
    /\ LET param == Head(args)
       IN  \/ /\ param \in DOMAIN Field
              /\ in' = [in EXCEPT ![Field[param]] = "given"]
              /\ args' = Tail(args)
              /\ UNCHANGED <<pc, rejected>>
           \/ /\ param = "help"
              /\ pc' \in FreeIn({"server_addr"}, "exit")
              /\ UNCHANGED <<args, in, rejected>>
           \/ /\ param \in {"resources", "unknown"}
              /\ Cleanup(param)
              /\ UNCHANGED <<args, in>>
           \/ /\ param = "operand"
              /\ args' = Append(Tail(args), param)
              /\ UNCHANGED <<pc, in, rejected>>
    /\ UNCHANGED <<held, st_size, total_size, res_list>>

\* After the options: operands are invalid, no option is mandatory.
OptionsDone ==
    /\ pc = "inargs" /\ \A i \in DOMAIN args : args[i] = "operand"
    /\ IF args = <<>> THEN pc' = "open" /\ UNCHANGED rejected ELSE Cleanup("operand")
    /\ UNCHANGED <<args, in, held, st_size, total_size, res_list>>

--------------------------------------------------------------------------------
(* main().                                                                  *)

\* A call that succeeds holds more and goes on, one that fails jumps; given
\* junk it may fail even when nothing else does.
Call(at, gets, next, label) ==
    /\ pc = at
    /\ \/ pc' = next /\ held' = held \cup gets
       \/ /\ Fails \/ (at = "open" /\ in.resource = "junk")
                   \/ (at = "bind" /\ in.server_addr = "junk")
          /\ pc' = label /\ UNCHANGED held

OpenFile == /\ Call("open", {"fd"}, "stat", "out")
            /\ UNCHANGED <<args, in, rejected, st_size, total_size, res_list>>

\* Mutant: the size is rounded up to whole pages (of 4 bytes here).
StatFile_rounded ==
    /\ Call("stat", {"res_lock", "conns_mutex", "sem_connect"}, "channel", "close_fd")
    /\ IF pc' = "channel"
       THEN /\ st_size' \in Sizes
            /\ total_size' = ToInt32(4 * ((st_size' + 3) \div 4))
            /\ res_list' = TRUE
       ELSE UNCHANGED <<st_size, total_size, res_list>>
    /\ UNCHANGED <<args, in, rejected>>

\* fstat64, or BLKGETSIZE64 for a block device; then the pool, whose sizes are
\* ints.
StatFile ==
    /\ Call("stat", {"res_lock", "conns_mutex", "sem_connect"}, "channel", "close_fd")
    /\ IF pc' = "channel"
       THEN /\ st_size' \in Sizes
            /\ total_size' = ToInt32(st_size')
            /\ res_list' = TRUE
       ELSE UNCHANGED <<st_size, total_size, res_list>>
    /\ UNCHANGED <<args, in, rejected>>

CreateChannel == /\ Call("channel", {"channel"}, "id", "free_inargs")
                 /\ UNCHANGED <<args, in, rejected, st_size, total_size, res_list>>

\* Mutant: the failure jumps past the label that destroys the channel.
CreateId_skips == /\ Call("id", {"cma_id"}, "thread", "free_inargs")
                  /\ UNCHANGED <<args, in, rejected, st_size, total_size, res_list>>

CreateId == /\ Call("id", {"cma_id"}, "thread", "destroy_event_channel")
            /\ UNCHANGED <<args, in, rejected, st_size, total_size, res_list>>

CreateThread == /\ Call("thread", {"cmthread"}, "bind", "destroy_id")
                /\ UNCHANGED <<args, in, rejected, st_size, total_size, res_list>>

\* rpmem_bind_server: get_addr, which reads the string it is given, then
\* rdma_bind_addr and rdma_listen.
BindServer == /\ \/ Call("bind", {}, "serving", "destroy_thread")
                 \/ /\ pc = "bind" /\ in.server_addr = "junk"
                    /\ pc' = "crash" /\ UNCHANGED held
              /\ UNCHANGED <<args, in, rejected, st_size, total_size, res_list>>

\* The labels, in the order main() falls through them.
Labels == <<"destroy_thread", "destroy_id", "destroy_event_channel", "free_inargs",
            "close_fd", "out">>

\* What the code at each label gives back.
Releases == [destroy_thread |-> {"cmthread"}, destroy_id |-> {"cma_id"},
             destroy_event_channel |-> {"channel"},
             free_inargs |-> {"sem_connect", "conns_mutex", "res_lock"},
             close_fd |-> {"fd"}, out |-> {}]

Unwind ==
    \E i \in DOMAIN Labels :
        /\ pc = Labels[i]
        /\ held' = held \ Releases[pc]
        /\ pc' \in IF pc = "out" THEN FreeIn({"resource", "server_addr"}, "exit")
                   ELSE {Labels[i + 1]}
        /\ UNCHANGED <<args, in, rejected, st_size, total_size, res_list>>

--------------------------------------------------------------------------------
Next == \/ Option \/ OptionsDone \/ OpenFile \/ StatFile \/ CreateChannel
        \/ CreateId \/ CreateThread \/ BindServer \/ Unwind

Spec == Init /\ [][Next]_vars

--------------------------------------------------------------------------------
(* Properties.                                                              *)

\* A start that fails gives back everything it had, and every label only what
\* is held when it is reached: whichever call fails, nothing is leaked and
\* nothing is destroyed that was never created.
UnwindExact == /\ pc = "exit" => held = {}
               /\ pc \in DOMAIN Releases => Releases[pc] \subseteq held

\* The size the server works with never exceeds the file, even when the cast to
\* int wraps: no request that passes the size check reaches beyond its end.
SizeWithinFile == total_size <= st_size
================================================================================
