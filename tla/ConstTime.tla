------------------------------ MODULE ConstTime ------------------------------
(***************************************************************************)
(* The constant-time conditional moves of                                 *)
(* src/internal/api/sidechannel_resistantce.h.  Each one turns the        *)
(* condition bit b into a mask by negating it in the width of b's C type  *)
(* and copies the masked difference.  A signed C value is carried as its  *)
(* two's-complement bit pattern.  A 32-bit word is a pair <<hi, lo>> of   *)
(* 16-bit limbs, on which the bitwise operators act limb by limb; the     *)
(* integer promotion of a uint16_t to int puts it in the low limb.        *)
(***************************************************************************)
EXTENDS Integers, Sequences, Bitwise

CONSTANT OPT_BLOCKER  \* the value of the volatile optimization_blocker_int8

Bits(v, w)     == v % 2^w                     \* pattern of v in w bits
Signed(u, w)   == IF u >= 2^(w - 1) THEN u - 2^w ELSE u
NegMask(b, w)  == Bits(-b, w)                 \* b = -b for an unsigned w-bit b

Word32(v)      == <<Bits(v \div 2^16, 16), Bits(v, 16)>>
Int32(p)       == Signed(p[1], 16) * 2^16 + p[2]
XorW(p, q)     == <<p[1] ^^ q[1], p[2] ^^ q[2]>>
AndW(p, q)     == <<p[1] & q[1], p[2] & q[2]>>

(* cmov(r, x, len, b): every byte r[i] ^= (b & (r[i] ^ x[i])) ^ blocker,  *)
(* b negated as a uint8_t.                                                 *)
cmov(r, x, b) ==
  LET m == NegMask(b, 8)
  IN  [i \in 1..Len(r) |->
         r[i] ^^ ((m & (r[i] ^^ x[i])) ^^ Bits(OPT_BLOCKER, 8))]

(* Mutation: the condition used as the mask without negating it.         *)
CmovInt16NoNeg(r, v, b) ==
  LET ur == Bits(r, 16)
  IN  Signed(ur ^^ (b & (ur ^^ Bits(v, 16))), 16)

(* cmov_int16(r, v, b): b is a uint16_t.                                   *)
cmov_int16(r, v, b) ==
  LET ur == Bits(r, 16)
  IN  Signed(ur ^^ (NegMask(b, 16) & (ur ^^ Bits(v, 16))), 16)

(* cmov_uint32(r, v, b): b is a uint32_t; r, v are words.                  *)
cmov_uint32(r, v, b) ==
  XorW(r, AndW(<<NegMask(b, 16), NegMask(b, 16)>>, XorW(r, v)))

(* cmov_int(r, v, b): r and v are 32-bit ints but b is a uint16_t, so -b  *)
(* is 0xFFFF and the promoted mask 0x0000FFFF keeps only the low limb.   *)
cmov_int(r, v, b) ==
  Int32(XorW(Word32(r), AndW(<<0, NegMask(b, 16)>>, XorW(Word32(r), Word32(v)))))

=============================================================================
