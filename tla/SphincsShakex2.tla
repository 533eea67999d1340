---------------------------- MODULE SphincsShakex2 ----------------------------
(***************************************************************************)
(* prf_addrx2 of src/slh-dsa/src/armv8/sphincs_hash_shakex2_armv8.c: two  *)
(* SLH-DSA PRF calls (SHAKE256 over PK.seed || ADRS || SK.seed) computed  *)
(* at once in a two-way interleaved Keccak state that the code fills by   *)
(* hand, lane by lane, padding included.                                   *)
(*                                                                         *)
(* Data abstraction.  A 64-bit lane is the sequence of its 8 bytes in     *)
(* little-endian order, so the loads, stores, shifts and ORs of the code  *)
(* are modelled by where they put each byte.  Seed bytes are terms        *)
(* <<"pub", j>> and <<"sk", j>>; address words are numbers.  Keccak-f is  *)
(* idealised as injective: byte b of lane j of the permuted single state  *)
(* st is <<"f1600", st, j, b>>.  Both permutation paths (the SHA3 CE    *)
(* f1600x2 when the CPU has it, KeccakF1600_StatePermutex2 otherwise)     *)
(* apply Keccak-f to the even and to the odd lanes.                        *)
(***************************************************************************)
EXTENDS Naturals, Sequences

ZeroLane == [b \in 1 .. 8 |-> 0]

(* The little-endian bytes of a uint32_t.                                  *)
W32Le(w) == [b \in 1 .. 4 |-> (w \div 2^(8 * (b - 1))) % 256]

(* (uint64_t)x << sh for a byte x and a shift that is a multiple of 8.     *)
ByteShifted(x, sh) == [b \in 1 .. 8 |-> IF b = sh \div 8 + 1 THEN x ELSE 0]

(* ptr_to_le64(p + 8 * i) for a byte string p indexed from 0.              *)
PtrToLe64(p, i) == [b \in 1 .. 8 |-> p[8 * i + b - 1]]

PubSeed(n) == [j \in 0 .. n - 1 |-> <<"pub", j>>]
SkSeed(n)  == [j \in 0 .. n - 1 |-> <<"sk", j>>]

(* Mutation: the two address words of a lane are combined the other way  *)
(* round, addrx2[2i] in the upper half.                                    *)
AddrLaneSwapped(addrx2, lane, i) ==
  W32Le(addrx2[8 * lane + 1 + 2 * i]) \o W32Le(addrx2[8 * lane + 2 * i])

(* ((uint64_t)addrx2[8 * lane + 1 + 2i] << 32) | addrx2[8 * lane + 2i]     *)
AddrLane(addrx2, lane, i) ==
  W32Le(addrx2[8 * lane + 2 * i]) \o W32Le(addrx2[8 * lane + 1 + 2 * i])

(* Keccak-f on one lane of the interleaved state: lanes 2k + lane.         *)
F1600(st) == [j \in 0 .. 24 |-> [b \in 1 .. 8 |-> <<"f1600", st, j, b>>]]
F1600x2(s) ==
  LET even == F1600([j \in 0 .. 24 |-> s[2 * j]])
      odd  == F1600([j \in 0 .. 24 |-> s[2 * j + 1]])
  IN  [k \in 0 .. 49 |-> IF k % 2 = 0 THEN even[k \div 2] ELSE odd[k \div 2]]

(* prf_addrx2(out0, out1, ctx, addrx2) with LC_SPX_N = n: the state as    *)
(* filled by the four loops and two padding stores, permuted, and the    *)
(* first n / 8 lanes of each half stored to out0 and out1.                 *)
prf_addrx2(n, addrx2) ==
  LET pubL(k) == k \div 2 < n \div 8
      adrL(k) == k \div 2 \in n \div 8 .. n \div 8 + 3
      skL(k)  == k \div 2 \in n \div 8 + 4 .. n \div 4 + 3
      s == [k \in 0 .. 49 |->
              CASE pubL(k) -> PtrToLe64(PubSeed(n), k \div 2)
                [] adrL(k) -> AddrLane(addrx2, k % 2, k \div 2 - n \div 8)
                [] skL(k)  -> PtrToLe64(SkSeed(n), k \div 2 - n \div 8 - 4)
                [] k \div 2 = n \div 4 + 4 -> ByteShifted(31, 0)
                [] k \div 2 = 16 -> ByteShifted(128, 56)
                [] OTHER -> ZeroLane]
      p == F1600x2(s)
      Out(lane) == [j \in 0 .. n - 1 |-> p[2 * (j \div 8) + lane][(j % 8) + 1]]
  IN  <<Out(0), Out(1)>>

=============================================================================
