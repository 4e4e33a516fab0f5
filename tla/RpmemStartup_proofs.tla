-------------------------- MODULE RpmemStartup_proofs --------------------------
(****************************************************************************)
(* Proofs about the start of the server, for any word, any command lines    *)
(* and any sizes: the size it works with never exceeds its file, and a      *)
(* start that fails gives back exactly what it had.                         *)
(****************************************************************************)
EXTENDS RpmemStartup, TLAPS

\* Reading the low word of a natural number as a signed int never makes it
\* larger.
LEMMA CastShrinks == ASSUME NEW s \in Nat PROVE ToInt32(s) <= s
<1>1. Word \in Nat /\ Word > 0
  BY WordAssumption
<1>2. s % Word <= s /\ s % Word \in Nat
  BY <1>1
<1> QED
  BY <1>1, <1>2 DEF ToInt32

\* The (int)st_size that main() puts into total_size and free_size is at most
\* st_size, also for files beyond the range of an int: what passes the size
\* check of rpmem_handle_map lies inside the file.
THEOREM SizeNeverExceedsFile == Spec => []SizeWithinFile
<1>1. Init => SizeWithinFile
  BY DEF Init, SizeWithinFile
<1>2. SizeWithinFile /\ [Next]_vars => SizeWithinFile'
  <2> SUFFICES ASSUME SizeWithinFile, [Next]_vars PROVE SizeWithinFile'
    OBVIOUS
  <2>1. CASE StatFile
    <3>1. CASE st_size' \in Sizes /\ total_size' = ToInt32(st_size')
      BY <3>1, CastShrinks, StartupAssumption DEF SizeWithinFile
    <3>2. CASE UNCHANGED <<st_size, total_size>>
      BY <3>2 DEF SizeWithinFile
    <3> QED
      BY <2>1, <3>1, <3>2 DEF StatFile
  <2>2. CASE UNCHANGED <<st_size, total_size>>
    BY <2>2 DEF SizeWithinFile
  <2>3. StatFile \/ UNCHANGED <<st_size, total_size>>
    BY DEF Next, vars, Option, OptionsDone, OpenFile, CreateChannel, CreateId,
           CreateThread, BindServer, Unwind
  <2> QED
    BY <2>1, <2>2, <2>3
<1> QED
  BY <1>1, <1>2, PTL DEF Spec

\* What main() holds at each point of its start and at each label of its end.
Fd == {"fd"}
Pool == Fd \cup {"res_lock", "conns_mutex", "sem_connect"}
Chan == Pool \cup {"channel"}
Id == Chan \cup {"cma_id"}
All == Id \cup {"cmthread"}

\* The exact contents of held: what UnwindExact needs at every label before.
HeldInv ==
    \/ pc = "crash"
    \/ pc \in {"inargs", "open", "out", "exit"} /\ held = {}
    \/ pc \in {"stat", "close_fd"} /\ held = Fd
    \/ pc \in {"channel", "free_inargs"} /\ held = Pool
    \/ pc \in {"id", "destroy_event_channel"} /\ held = Chan
    \/ pc \in {"thread", "destroy_id"} /\ held = Id
    \/ pc \in {"bind", "serving", "destroy_thread"} /\ held = All

\* Whichever call of main() fails, its label gives back exactly what was
\* acquired before it, and nothing is left when the process exits.
THEOREM UnwindIsExact == Spec => []UnwindExact
<1> USE DEF HeldInv, Fd, Pool, Chan, Id, All
<1>1. Init => HeldInv
  BY DEF Init
<1>2. HeldInv /\ [Next]_vars => HeldInv'
  <2> SUFFICES ASSUME HeldInv, [Next]_vars PROVE HeldInv'
    OBVIOUS
  <2>1. CASE Option \/ OptionsDone
    <3>1. pc = "inargs" /\ pc' \in {"inargs", "open", "exit", "crash"} /\ held' = held
      BY <2>1 DEF Option, OptionsDone, Cleanup, FreeIn
    <3> QED
      BY <3>1
  <2>2. CASE OpenFile
    BY <2>2 DEF OpenFile, Call
  <2>3. CASE StatFile
    BY <2>3 DEF StatFile, Call
  <2>4. CASE CreateChannel
    BY <2>4 DEF CreateChannel, Call
  <2>5. CASE CreateId
    BY <2>5 DEF CreateId, Call
  <2>6. CASE CreateThread
    BY <2>6 DEF CreateThread, Call
  <2>7. CASE BindServer
    BY <2>7 DEF BindServer, Call
  <2>8. CASE Unwind
    <3>1. PICK i \in 1 .. 6 :
            /\ pc = Labels[i] /\ held' = held \ Releases[pc]
            /\ pc' \in IF pc = "out" THEN FreeIn({"resource", "server_addr"}, "exit")
                       ELSE {Labels[i + 1]}
      BY <2>8 DEF Unwind, Labels
    <3>2. CASE i = 1
      BY <3>1, <3>2 DEF Labels, Releases
    <3>3. CASE i = 2
      BY <3>1, <3>3 DEF Labels, Releases
    <3>4. CASE i = 3
      BY <3>1, <3>4 DEF Labels, Releases
    <3>5. CASE i = 4
      BY <3>1, <3>5 DEF Labels, Releases
    <3>6. CASE i = 5
      BY <3>1, <3>6 DEF Labels, Releases
    <3>7. CASE i = 6
      BY <3>1, <3>7 DEF Labels, Releases, FreeIn
    <3> QED
      BY <3>2, <3>3, <3>4, <3>5, <3>6, <3>7
  <2>9. CASE UNCHANGED vars
    BY <2>9 DEF vars
  <2> QED
    BY <2>1, <2>2, <2>3, <2>4, <2>5, <2>6, <2>7, <2>8, <2>9 DEF Next
<1>3. HeldInv => UnwindExact
  BY DEF UnwindExact, Releases
<1> QED
  BY <1>1, <1>2, <1>3, PTL DEF Spec
================================================================================
