------------------------------ MODULE PqHelpers ------------------------------
(***************************************************************************)
(* The stateless helpers of the post-quantum schemes, one call per step:  *)
(* the HQC field arithmetic (HqcGf), the constant-time moves (ConstTime), *)
(* and the SLH-DSA tree hash and WOTS+ verification (SphincsTree).  The   *)
(* variable call holds the call with its inputs and result; a behaviour   *)
(* is one call from the idle state, so the states are the calls, and each *)
(* property judges one result against a reference definition.             *)
(***************************************************************************)
EXTENDS HqcGf, ConstTime, SphincsTree, SphincsShakex2, HqcSelftest

CONSTANTS
  GfOperandsA,    \* first operands of gf_mul, gf_square, gf_inverse
  GfOperandsB,    \* second operands of gf_mul
  CmovBytes,      \* byte strings for cmov
  CmovInt16s,     \* values for cmov_int16
  CmovUint32s,    \* 32-bit words <<hi, lo>> for cmov_uint32
  TreeHeights,    \* tree_height of treehashx1
  OffsetTrees,    \* idx_offset is a multiple of 2^tree_height
  WotsSigned,     \* messages signed honestly
  WotsClaimed,    \* messages a signature is presented for
  NoFailure,      \* fail_leaf / fail_chain meaning nothing fails
  SpxNs,          \* LC_SPX_N of the SHAKE parameter sets
  SpxAddrs        \* ADRS values, functions from word index 0 .. 7

VARIABLE call

-----------------------------------------------------------------------------
(* References.                                                             *)

(* The Merkle node at height h and index j of the tree whose leftmost     *)
(* leaf has index off; its address index carries off / 2^h.               *)
RECURSIVE RefNode(_, _, _)
RefNode(h, j, off) ==
  IF h = 0 THEN Leaf(j + off)
  ELSE Thash(h, j + off \div 2^h,
             RefNode(h - 1, 2 * j, off), RefNode(h - 1, 2 * j + 1, off))

(* The WOTS+ secret chain start, signature and public key: the signing    *)
(* side is in another file and taken from the scheme's definition.        *)
SkChain(c)     == <<"SK", c>>
WotsPk         == [i \in 1..LC_SPX_WOTS_LEN |->
                     gen_chain(SkChain(i - 1), i - 1, 0, 0, LC_SPX_WOTS_W - 1)]
WotsSign(msg)  == LET l == chain_lengths_c(msg)
                  IN  [i \in 1..LC_SPX_WOTS_LEN |->
                         gen_chain(SkChain(i - 1), i - 1, 0, 0, l[i])]

(* What an attacker holding the signature of m makes for m2: each chain   *)
(* advanced to m2's length by hashing forward, or, where m2 needs a       *)
(* shorter chain than m gave, the value for m unchanged.                  *)
Forge(m, m2) ==
  LET l == chain_lengths_c(m)  l2 == chain_lengths_c(m2)  s == WotsSign(m)
  IN  [i \in 1..LC_SPX_WOTS_LEN |->
         IF l2[i] >= l[i]
         THEN gen_chain(s[i], i - 1, l[i], l[i], l2[i] - l[i])
         ELSE s[i]]

(* The single-lane PRF of the scheme: SHAKE256 over PK.seed, the 32      *)
(* bytes of ADRS as laid out in memory, and SK.seed, padded with the      *)
(* SHAKE suffix 0x1f and the final bit at the last byte of the 136-byte   *)
(* rate, first n bytes of the output.                                      *)
RefPrfAddr(n, addr) ==
  LET len == 2 * n + 32
      msg(k) == IF k < n THEN PubSeed(n)[k]
                ELSE IF k < n + 32 THEN W32Le(addr[(k - n) \div 4])[((k - n) % 4) + 1]
                ELSE SkSeed(n)[k - n - 32]
      padded(k) == IF k < len THEN msg(k)
                   ELSE IF k = len THEN 31
                   ELSE IF k = 135 THEN 128 ELSE 0
      f == F1600([j \in 0 .. 24 |-> [b \in 1 .. 8 |-> padded(8 * j + b - 1)]])
  IN  [j \in 0 .. n - 1 |-> f[j \div 8][(j % 8) + 1]]

-----------------------------------------------------------------------------
Init == call = [op |-> "none"]

GfMul(a, b)   == call' = [op |-> "gf_mul", a |-> a, b |-> b, out |-> gf_mul(a, b)]
GfSquare(a)   == call' = [op |-> "gf_square", a |-> a, out |-> gf_square(a)]
GfInverse(a)  == call' = [op |-> "gf_inverse", a |-> a, out |-> gf_inverse(a)]

Cmov(r, x, b) ==
  call' = [op |-> "cmov", r |-> r, x |-> x, b |-> b, out |-> cmov(r, x, b)]
CmovInt16(r, v, b) ==
  call' = [op |-> "cmov_int16", r |-> r, x |-> v, b |-> b,
           out |-> cmov_int16(r, v, b)]
CmovUint32(r, v, b) ==
  call' = [op |-> "cmov_uint32", r |-> r, x |-> v, b |-> b,
           out |-> cmov_uint32(r, v, b)]

Treehash(leaf_idx, idx_offset, tree_height, fail_leaf) ==
  call' = [op |-> "treehashx1", leaf |-> leaf_idx, off |-> idx_offset,
           height |-> tree_height, fail |-> fail_leaf,
           out |-> treehashx1(leaf_idx, idx_offset, tree_height, fail_leaf)]

WotsPkFromSig(m, m2, fail_chain) ==
  call' = [op |-> "wots_pk_from_sig", m |-> m, m2 |-> m2, fail |-> fail_chain,
           out |-> wots_pk_from_sig_c(Forge(m, m2), m2, fail_chain)]

PrfAddrx2(n, a0, a1) ==
  call' = [op |-> "prf_addrx2", n |-> n, a0 |-> a0, a1 |-> a1,
           out |-> prf_addrx2(n, [k \in 0 .. 15 |->
                                    IF k < 8 THEN a0[k] ELSE a1[k - 8]])]

(* A self-test called with the test's status st; ok says whether every   *)
(* value the implementation computed equals the test vector.              *)
HqcKeygenSelftest(st, pk, sk) ==
  call' = [op |-> "hqc_keygen_selftest", st |-> st,
           ok |-> pk = HQC_PK /\ sk = HQC_SK,
           out |-> hqc_kem_keygen_selftest(st, pk, sk)]
HqcEncSelftest(st, ct, ss) ==
  call' = [op |-> "hqc_enc_selftest", st |-> st,
           ok |-> ct = HQC_CT /\ ss = HQC_SS,
           out |-> hqc_kem_enc_selftest(st, ct, ss)]
HqcDecSelftest(st, ss) ==
  call' = [op |-> "hqc_dec_selftest", st |-> st, ok |-> ss = HQC_SS,
           out |-> hqc_kem_dec_selftest(st, ss)]

Idle == call.op = "none"

Next ==
  /\ Idle
  /\ \/ \E a \in GfOperandsA, b \in GfOperandsB : GfMul(a, b)
     \/ \E a \in GfOperandsA : GfSquare(a) \/ GfInverse(a)
     \/ \E r, x \in CmovBytes, b \in {0, 1} : Cmov(r, x, b)
     \/ \E r, v \in CmovInt16s, b \in {0, 1} : CmovInt16(r, v, b)
     \/ \E r, v \in CmovUint32s, b \in {0, 1} : CmovUint32(r, v, b)
     \/ \E h \in TreeHeights, k \in OffsetTrees :
          \E leaf \in 0..2^h - 1, fail \in {NoFailure, k * 2^h + 2^h - 1} :
            Treehash(leaf, k * 2^h, h, fail)
     \/ \E m \in WotsSigned, m2 \in WotsClaimed,
           fail \in {NoFailure, LC_SPX_WOTS_LEN - 1} :
          WotsPkFromSig(m, m2, fail)
     \/ \E n \in SpxNs, a0, a1 \in SpxAddrs : PrfAddrx2(n, a0, a1)
     \/ \E st \in SelftestStatus, pk \in {HQC_PK, "pk'"}, sk \in {HQC_SK, "sk'"} :
          HqcKeygenSelftest(st, pk, sk)
     \/ \E st \in SelftestStatus, ct \in {HQC_CT, "ct'"}, ss \in {HQC_SS, "ss'"} :
          HqcEncSelftest(st, ct, ss)
     \/ \E st \in SelftestStatus, ss \in {HQC_SS, "ss'"} : HqcDecSelftest(st, ss)

Spec == Init /\ [][Next]_call

-----------------------------------------------------------------------------
(* Every result lies in the width of its C type.                          *)
TypeOK ==
  call.op \in {"gf_mul", "gf_square", "gf_inverse"} => call.out \in 0..255

(* gf_mul and gf_square, with their branch-free table lookup, 2-bit       *)
(* windows, top-bit correction and two-step reduction, equal the product  *)
(* of the operands as polynomials modulo the field polynomial.            *)
GfMulCorrect ==
  /\ call.op = "gf_mul" => call.out = RefGfMul(call.a, call.b)
  /\ call.op = "gf_square" => call.out = RefGfMul(call.a, call.a)

(* gf_inverse's addition chain yields the field inverse of a non-zero     *)
(* element and 0 for 0.                                                   *)
GfInverseCorrect ==
  call.op = "gf_inverse" =>
    IF call.a = 0 THEN call.out = 0 ELSE RefGfMul(call.out, call.a) = 1

(* Each constant-time move yields the source when b is 1 and leaves the   *)
(* destination unchanged when b is 0, for every bit pattern.              *)
CmovSelects ==
  call.op \in {"cmov", "cmov_int16", "cmov_uint32"} =>
    call.out = IF call.b = 1 THEN call.x ELSE call.r

(* When treehashx1 returns 0, the root is the Merkle root of the leaves   *)
(* idx_offset .. idx_offset + 2^h - 1 and every authentication-path entry *)
(* is the sibling of leaf_idx's ancestor at that height, each node hashed *)
(* at the address of its position in the whole hypertree layer; when a   *)
(* leaf fails, the error is returned.                                      *)
TreehashMatchesMerkle ==
  call.op = "treehashx1" =>
    IF call.fail = NoFailure
    THEN /\ call.out.ret = 0
         /\ call.out.root = RefNode(call.height, 0, call.off)
         /\ \A h \in 0..call.height - 1 :
              call.out.auth[h] =
                RefNode(h, (call.leaf \div 2^h) ^^ 1, call.off)
    ELSE call.out.ret # 0

(* When every chain completes, the public key wots_pk_from_sig_c         *)
(* recomputes from a signature made for m and carried forward to m2      *)
(* equals the signer's key exactly when m2 = m: the checksum shifted by   *)
(* CsumShift makes every other message need a shorter chain somewhere.   *)
WotsVerifiesExactly ==
  call.op = "wots_pk_from_sig" /\ call.fail = NoFailure =>
    ((call.out.pk = WotsPk) <=> (call.m2 = call.m))

(* prf_addrx2 computes, for each of its two address lanes, exactly the   *)
(* single-lane PRF of that address: the hand-built interleaved state puts *)
(* every seed byte, address word half and padding byte of lane 0 and lane *)
(* 1 where a one-lane SHAKE256 absorb would, and the outputs are read from *)
(* the lane they belong to.                                                *)
PrfAddrx2MatchesPrfAddr ==
  call.op = "prf_addrx2" =>
    call.out = <<RefPrfAddr(call.n, call.a0), RefPrfAddr(call.n, call.a1)>>

(* The HQC self-tests decide right: a test that runs (status unset)       *)
(* leaves passed exactly when every value it checks matches the vector,   *)
(* although lc_compare_selftest records each comparison on its own and    *)
(* keygen and enc compare twice; a test whose status is already set       *)
(* leaves it as it is.                                                     *)
HqcSelftestVerdict ==
  call.op \in {"hqc_keygen_selftest", "hqc_enc_selftest", "hqc_dec_selftest"} =>
    IF call.st = "unset" THEN (call.out = "passed" <=> call.ok)
    ELSE call.out = call.st

=============================================================================
