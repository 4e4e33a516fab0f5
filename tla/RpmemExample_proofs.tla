-------------------------- MODULE RpmemExample_proofs --------------------------
(****************************************************************************)
(* Proofs about the examples, for every word, block, file size and command  *)
(* line of the server: the length that an example computes from the size    *)
(* it was told lies inside the file whenever it is granted; it is granted   *)
(* whenever the file is larger than a block and smaller than an int, and    *)
(* never when the file is one block or less.                                *)
(****************************************************************************)
EXTENDS RpmemExample, RpmemStartup_proofs

--------------------------------------------------------------------------------
(* Arithmetic.                                                              *)

\* A natural number below Word / 2 survives the cast to int and the wire.
LEMMA SmallCast ==
    ASSUME NEW x \in Nat, x < Word \div 2
    PROVE  /\ ToInt32(x) = x
           /\ \A opcode, addr : unpack_int(Cmd(opcode, x, addr)) = x
<1>1. Word \in Nat /\ Word > 0 /\ Word \div 2 \in Nat /\ Word \div 2 < Word
  BY WordAssumption
<1>2. x % Word = x
  BY <1>1
<1> QED
  BY <1>2 DEF ToInt32, unpack_int, Cmd, ToUint32

\* A cast to int yields an int.
LEMMA CastRange == ASSUME NEW x \in Int PROVE ToInt32(x) \in Int /\ ToInt32(x) < Word \div 2
<1>1. Word \in Nat /\ Word > 0 /\ Word \div 2 \in Nat /\ Word <= 2 * (Word \div 2)
  BY WordAssumption
<1>2. x % Word \in Nat /\ x % Word < Word
  BY <1>1
<1> QED
  BY <1>1, <1>2 DEF ToInt32

\* The examples ask for at least one block, for a length that is an int, and for
\* less than a resource of more than one block has.
LEMMA MapSizeFits ==
    ASSUME NEW s \in Int, s < Word \div 2
    PROVE  /\ MapSize(s) \in Nat /\ MapSize(s) >= Block /\ MapSize(s) < Word \div 2
           /\ s > Block => MapSize(s) < s
<1>1. Block \in Nat /\ Block > 0 /\ Block < Word \div 2 /\ Word \div 2 \in Int
  BY ExampleAssumption, WordAssumption
<1>2. CASE CDiv(s, Block) > 1
  <2>1. s >= 0
    <3>1. ASSUME s < 0 PROVE FALSE
      <4>1. (-s) \div Block \in Nat
        BY <1>1, <3>1
      <4> QED
        BY <1>2, <3>1, <4>1 DEF CDiv
    <3> QED
      BY <3>1
  <2>2. PICK q \in Nat : q = s \div Block /\ q > 1 /\ CDiv(s, Block) = q
    BY <1>1, <1>2, <2>1 DEF CDiv
  <2>3. Block * q <= s
    BY <1>1, <2>1, <2>2
  <2>4. Block * (q - 1) = Block * q - Block /\ Block * (q - 1) >= Block
    BY <1>1, <2>2
  <2>5. Block * (q - 1) \in Nat /\ Block * (q - 1) >= Block /\ Block * (q - 1) < s
    BY <1>1, <2>3, <2>4
  <2>6. MapSize(s) = Block * (q - 1)
    <3>1. ToInt32(Block * (q - 1)) = Block * (q - 1)
      BY <1>1, <2>5, SmallCast
    <3> QED
      BY <2>2, <3>1 DEF MapSize
  <2>7. PICK n \in Nat : n = MapSize(s) /\ n >= Block /\ n < s
    BY <2>5, <2>6
  <2> QED
    BY <1>1, <2>7
<1>3. CASE ~(CDiv(s, Block) > 1)
  BY <1>1, <1>3 DEF MapSize
<1> QED
  BY <1>2, <1>3

--------------------------------------------------------------------------------
(* The server of RpmemStartup, with an example.                             *)

\* The examples leave the server of RpmemStartup what it is.
THEOREM ServerUnaffected == ExampleSpec => Spec
<1>1. ExampleInit => Init
  BY DEF ExampleInit
<1>2. [ExampleNext]_<<vars, exampleVars>> => [Next]_vars
  BY DEF ExampleNext
<1> QED
  BY <1>1, <1>2, PTL DEF ExampleSpec, Spec

\* The size of the pool is the file's, cast; an example runs on a server that
\* serves, and has asked it for the size before it maps.
SizeInv == st_size \in Nat /\ total_size = ToInt32(st_size)
RunInv == /\ at # "none" => pc = "serving"
          /\ at \in {"none", "open", "map"} => ~mapped
          /\ at = "map" => size = unpack_int(pack_open_rsp(free_size))

\* The inductive invariant.
ExampleInv == SizeInv /\ RunInv /\ RegionInsideFile /\ ExamplesFit

\* What an example was told is an int, and right for a size that fits.
LEMMA SizeTold ==
    ASSUME SizeInv, at = "map", size = unpack_int(pack_open_rsp(free_size))
    PROVE  /\ size \in Int /\ size < Word \div 2
           /\ ~busy /\ st_size < Word \div 2 => size = st_size
<1>1. Word \in Nat /\ Word > 0
  BY WordAssumption
<1>2. ToInt32(st_size) \in Int
  BY CastRange DEF SizeInv
<1>3. free_size \in Int
  BY <1>2 DEF free_size, SizeInv
<1>4. free_size % Word \in Int /\ size = ToInt32(free_size % Word)
  BY <1>1, <1>3 DEF unpack_int, pack_open_rsp, Cmd, ToUint32
<1>5. size \in Int /\ size < Word \div 2
  BY <1>4, CastRange
<1>6. ASSUME ~busy, st_size < Word \div 2 PROVE size = st_size
  <2>1. free_size = st_size /\ st_size \in Nat
    BY <1>6, SmallCast DEF free_size, SizeInv
  <2> QED
    BY <1>6, <2>1, SmallCast DEF pack_open_rsp
<1> QED
  BY <1>5, <1>6

\* The invariant holds initially.
LEMMA ExampleInitInv == ExampleInit => ExampleInv
<1> SUFFICES ASSUME ExampleInit PROVE ExampleInv
  OBVIOUS
<1>1. 0 < Word \div 2
  BY WordAssumption
<1>2. SizeInv
  BY <1>1, SmallCast DEF ExampleInit, Init, SizeInv
<1> QED
  BY <1>2 DEF ExampleInit, Init, ExampleInv, RunInv, RegionInsideFile, ExamplesFit

\* rpmem_map of an example.
LEMMA MapStep ==
    ASSUME ExampleInv, Map, UNCHANGED vars
    PROVE  ExampleInv'
<1>1. /\ SizeInv /\ at = "map" /\ pc = "serving" /\ ~mapped /\ size = unpack_int(pack_open_rsp(free_size))
      /\ st_size' = st_size /\ total_size' = total_size /\ pc' = pc /\ busy' = busy
  BY DEF ExampleInv, RunInv, Map, vars
<1>2. len' = MapSize(size) /\ size \in Int /\ size < Word \div 2
  BY <1>1, SizeTold DEF Map
<1>3. /\ len' \in Nat /\ len' >= Block /\ len' < Word \div 2
      /\ unpack_int(pack_map_req(len')) = len' /\ Block \in Nat /\ Block > 0
  BY <1>2, MapSizeFits, SmallCast, ExampleAssumption DEF pack_map_req
<1>4. ASSUME Granted(len') PROVE len' \in 1 .. st_size /\ ~busy /\ st_size > Block
  <2>1. len' < ToInt32(st_size) /\ ToInt32(st_size) <= st_size /\ st_size \in Nat /\ ToInt32(st_size) \in Int
    BY <1>1, <1>3, <1>4, CastShrinks, CastRange DEF Granted, SizeInv
  <2>2. ~busy
    BY <1>4 DEF Granted
  <2> QED
    BY <1>3, <2>1, <2>2
<1>5. ASSUME ~Granted(len'), ~busy, st_size < Word \div 2 PROVE st_size <= Block
  <2>1. size = st_size /\ ToInt32(st_size) = st_size /\ st_size \in Nat
    BY <1>1, <1>5, SizeTold, SmallCast DEF SizeInv
  <2>2. len' >= st_size
    BY <1>3, <1>5, <2>1 DEF Granted
  <2>3. Block \in Nat
    BY ExampleAssumption
  <2> QED
    BY <1>2, <2>1, <2>2, <2>3, MapSizeFits
<1>6. Word \div 2 \in Int /\ Block \in Int
  BY WordAssumption, ExampleAssumption
<1>7. SizeInv' /\ RunInv'
  BY <1>1 DEF SizeInv, RunInv, Map
<1>8. RegionInsideFile'
  BY <1>1, <1>4 DEF RegionInsideFile, Map
<1>9. ExamplesFit'
  <2>1. mapped' => Granted(len')
    BY <1>1 DEF Map
  <2>2. at' = "refused" => ~Granted(len')
    BY DEF Map
  <2> QED
    BY <1>1, <1>4, <1>5, <1>6, <2>1, <2>2 DEF ExamplesFit, SizeInv
<1> QED
  BY <1>7, <1>8, <1>9 DEF ExampleInv

\* Its other calls.
LEMMA ProgramStep ==
    ASSUME ExampleInv, Start \/ Open \/ Commit \/ Unmap \/ Close \/ Break, UNCHANGED vars
    PROVE  ExampleInv'
<1>1. /\ UNCHANGED <<pc, st_size, total_size>> /\ len' = len /\ (mapped' => mapped)
      /\ (at = "none" \/ busy' = busy) /\ at' # "refused" /\ (at = "none" => pc = "serving")
  BY DEF Start, Open, Commit, Unmap, Close, Break, vars, ExampleInv, RunInv
<1>2. SizeInv' /\ RegionInsideFile' /\ ExamplesFit'
  <2>1. at = "none" => ~mapped
    BY DEF ExampleInv, RunInv
  <2> QED
    BY <1>1, <2>1 DEF ExampleInv, SizeInv, RegionInsideFile, ExamplesFit
<1>3. RunInv'
  <2>1. CASE Break
    BY <1>1, <2>1 DEF ExampleInv, RunInv, Break, free_size
  <2>2. CASE Start \/ Open \/ Commit \/ Unmap \/ Close
    BY <1>1, <2>2 DEF ExampleInv, RunInv, Start, Open, Commit, Unmap, Close, free_size
  <2> QED
    BY <2>1, <2>2
<1> QED
  BY <1>2, <1>3 DEF ExampleInv

\* The server while it starts; once it serves it does not move.
LEMMA ServerStep ==
    ASSUME ExampleInv, Next, UNCHANGED exampleVars
    PROVE  ExampleInv'
<1>1. pc # "serving" /\ at = "none"
  <2>1. pc # "serving"
    BY DEF Next, Option, OptionsDone, OpenFile, StatFile, CreateChannel, CreateId, CreateThread,
           BindServer, Call, Unwind, Labels
  <2> QED
    BY <2>1 DEF ExampleInv, RunInv
<1>2. SizeInv'
  <2>1. \/ UNCHANGED <<st_size, total_size>>
        \/ st_size' \in Sizes /\ total_size' = ToInt32(st_size')
    BY DEF Next, Option, OptionsDone, OpenFile, StatFile, CreateChannel, CreateId, CreateThread,
           BindServer, Unwind
  <2> QED
    BY <2>1, StartupAssumption DEF ExampleInv, SizeInv
<1>3. ~mapped /\ mapped' = mapped /\ at' = at
  BY <1>1 DEF ExampleInv, RunInv, exampleVars
<1> QED
  BY <1>1, <1>2, <1>3 DEF ExampleInv, RunInv, RegionInsideFile, ExamplesFit

\* The invariant of a server with an example.
THEOREM ExampleInvariant == ExampleSpec => []ExampleInv
<1>1. ExampleInv /\ [ExampleNext]_<<vars, exampleVars>> => ExampleInv'
  <2> SUFFICES ASSUME ExampleInv, [ExampleNext]_<<vars, exampleVars>> PROVE ExampleInv'
    OBVIOUS
  <2>1. CASE UNCHANGED <<vars, exampleVars>>
    BY <2>1 DEF vars, exampleVars, ExampleInv, SizeInv, RunInv, RegionInsideFile, ExamplesFit, free_size
  <2> QED
    BY <2>1, MapStep, ProgramStep, ServerStep DEF ExampleNext, Program
<1> QED
  BY <1>1, ExampleInitInv, PTL DEF ExampleSpec

\* A map that the server grants lies inside its file, for every size of the
\* file, also where the casts to int wrap.
THEOREM GrantedInsideFile == ExampleSpec => []RegionInsideFile
<1>1. ExampleInv => RegionInsideFile
  BY DEF ExampleInv
<1> QED
  BY <1>1, ExampleInvariant, PTL

\* The map of an example is refused only if another client holds the resource,
\* or the file is at most one block or too large for an int; and it is granted
\* only if nobody holds it and the file has more than one block.
THEOREM ExamplesServed == ExampleSpec => []ExamplesFit
<1>1. ExampleInv => ExamplesFit
  BY DEF ExampleInv
<1> QED
  BY <1>1, ExampleInvariant, PTL
================================================================================
