------------------------------ MODULE RpmemExample ------------------------------
(****************************************************************************)
(* The example programs simple_open_close.c, simple_map_unmap.c and         *)
(* simple_commit.c against the server of RpmemStartup: the sequence of      *)
(* calls, what each does when a call fails, and the arithmetic of the size  *)
(* they map, from the file's st_size to the int they ask for and back to    *)
(* the comparison in rpmem_handle_map.  A call has the outcomes RpmemSession *)
(* gives it: it succeeds, it fails, or it does not return, because the map  *)
(* is refused ("refused") or for another reason ("hung").                   *)
(****************************************************************************)
EXTENDS RpmemStartup

CONSTANT Block      \* the unit of the examples' arithmetic, 1024

ASSUME ExampleAssumption == Block \in Nat \ {0} /\ Block < Word \div 2

Programs == {"open_close", "map_unmap", "commit"}

VARIABLES
    program,        \* which example runs
    busy,           \* another connection holds the resource
    at,             \* the call the program is about to make
    size,           \* rfile->size
    len,            \* the argument of rpmem_map
    mapped,         \* the server's unit holds the resource for this program
    ret             \* what the program exits with

exampleVars == <<program, busy, at, size, len, mapped, ret>>

ExampleInit == /\ Init
               /\ program = "none" /\ busy = FALSE /\ at = "none"
               /\ size = 0 /\ len = 0 /\ mapped = FALSE /\ ret = 0

\* Somebody runs an example against a server that has started.
Start == /\ pc = "serving" /\ at = "none"
         /\ program' \in Programs /\ busy' \in BOOLEAN
         /\ at' = "open"
         /\ UNCHANGED <<size, len, mapped, ret>>

\* C's division truncates towards zero.
CDiv(a, b) == IF a >= 0 THEN a \div b ELSE -((-a) \div b)

\* Mutant: the last block is not left out.
MapSize_whole(s) == IF CDiv(s, Block) > 1 THEN ToInt32(Block * CDiv(s, Block)) ELSE Block

\* "minimum map 1024B": one block less than the whole blocks of the resource.
MapSize(s) == IF CDiv(s, Block) > 1 THEN ToInt32(Block * (CDiv(s, Block) - 1)) ELSE Block

\* server->free_size.
free_size == IF busy THEN 0 ELSE total_size

Open ==
    /\ at = "open"
    /\ \/ /\ size' = unpack_int(pack_open_rsp(free_size))
          /\ at' = IF program = "open_close" THEN "close" ELSE "map"
          /\ UNCHANGED ret
       \/ at' = "exit" /\ ret' = 1 /\ UNCHANGED size
    /\ UNCHANGED <<program, busy, len, mapped>>

\* Mutant: the resource is granted whatever its size.
Granted_unchecked(l) == ~busy

\* Mutant: a map of the whole resource is granted.
Granted_whole(l) == ~busy /\ unpack_int(pack_map_req(l)) <= ToInt32(st_size)

\* rpmem_handle_map: len < (int)res->stbuf.st_size, both of them int.
Granted(l) == ~busy /\ unpack_int(pack_map_req(l)) < ToInt32(st_size)

\* Once it is granted, the resource is the unit's, whatever follows: mmap or
\* ibv_reg_mr may fail, and then the READ with the bad address or key wakes
\* nobody, or the READ may not be posted and rpmem_map returns NULL.  A refused
\* map reads with a key nobody has set.
Map ==
    /\ at = "map"
    /\ len' = MapSize(size)
    /\ \/ /\ Granted(len')
          /\ mapped' = TRUE
          /\ \/ at' = (IF program = "commit" THEN "commit" ELSE "unmap") /\ UNCHANGED ret
             \/ at' = "hung" /\ UNCHANGED ret
             \/ at' = "close" /\ ret' = 1
       \/ ~Granted(len') /\ at' = "refused" /\ UNCHANGED <<mapped, ret>>
       \/ at' = "close" /\ ret' = 1 /\ UNCHANGED mapped
    /\ UNCHANGED <<program, busy, size>>

\* A commit that fails closes the file without an unmap.
Commit ==
    /\ at = "commit"
    /\ \/ at' = "unmap" /\ UNCHANGED ret
       \/ at' = "close" /\ ret' = 1
    /\ UNCHANGED <<program, busy, size, len, mapped>>

\* rpmem_unmap reports the server's result; a failure leaves the resource.
Unmap ==
    /\ at = "unmap"
    /\ \/ mapped' = FALSE /\ UNCHANGED ret
       \/ ret' = 1 /\ UNCHANGED mapped
    /\ at' = "close"
    /\ UNCHANGED <<program, busy, size, len>>

Close ==
    /\ at = "close"
    /\ at' = "exit"
    /\ UNCHANGED <<program, busy, size, len, mapped, ret>>

\* The connection breaks under a call, before or after the server has done its
\* part (of a map: the first hang above).
Break ==
    /\ at \in {"open", "map", "commit", "unmap", "close"}
    /\ at' = "hung"
    /\ mapped' \in IF at = "unmap" THEN {mapped, FALSE} ELSE {mapped}
    /\ UNCHANGED <<program, busy, size, len, ret>>

Program == Start \/ Open \/ Map \/ Commit \/ Unmap \/ Close \/ Break

ExampleNext == \/ Next /\ UNCHANGED exampleVars
               \/ Program /\ UNCHANGED vars

ExampleSpec == ExampleInit /\ [][ExampleNext]_<<vars, exampleVars>>

--------------------------------------------------------------------------------
(* Properties.                                                              *)

\* The region of a map that was granted lies inside the file, also where the
\* casts of its size and of the length wrap.
RegionInsideFile == mapped => len \in 1 .. st_size

\* The examples are served exactly by a free resource of more than one block:
\* up to 2^31 bytes none of them is refused, and one block is not enough,
\* although rpmem_open has just told the example that so much can be mapped.
ExamplesFit ==
    /\ at = "refused" => busy \/ st_size <= Block \/ st_size >= Word \div 2
    /\ mapped => ~busy /\ st_size > Block
================================================================================
