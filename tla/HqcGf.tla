-------------------------------- MODULE HqcGf --------------------------------
(***************************************************************************)
(* The GF(2^M) arithmetic of HQC, src/hqc/src/gf.c: the constant-time     *)
(* carry-less multiplication of two bytes, the reduction modulo the       *)
(* primitive polynomial, multiplication, squaring and inversion.  Every   *)
(* uint16_t result is reduced modulo 2^16 and a negation of an unsigned   *)
(* value is its two's complement.  The operands are bytes, so the wider   *)
(* intermediates (the uint32_t of gf_square, the uint64_t of gf_reduce)   *)
(* stay below 2^15 and never wrap; they are kept as plain naturals.       *)
(***************************************************************************)
EXTENDS Naturals, Bitwise

CONSTANTS
  LC_HQC_PARAM_M,           \* field degree (8)
  LC_HQC_PARAM_GF_POLY,     \* primitive polynomial (0x11D)
  LC_HQC_PARAM_GF_POLY_WT,  \* its number of terms (5)
  LC_HQC_PARAM_GF_POLY_M2   \* degree of its second term (4)

U16(x) == x % 2^16
(* Bit 31 of the uint32_t pattern of a small signed difference d: set    *)
(* exactly when d is negative.                                            *)
Top32(d) == IF d < 0 THEN 1 ELSE 0
Shl(x, n) == x * 2^n

LC_HQC_CEIL_DIVIDE(a, d) == (a + d - 1) \div d

(* trailing_zero_bits_count: the trailing zeros of a among its 14 low    *)
(* bits, counted without a branch.                                        *)
RECURSIVE TzLoop(_, _, _, _)
TzLoop(a, i, tmp, mask) ==
  IF i = 14 THEN tmp
  ELSE LET notbit == 1 - (shiftR(a, i) & 1)
       IN  TzLoop(a, i + 1, U16(tmp + (notbit & mask)),
                  mask & U16(2^16 - notbit))

trailing_zero_bits_count(a) == TzLoop(a, 0, 0, 2^16 - 1)

(* The inner loop of gf_reduce: fold mod into x at every further term of *)
(* the polynomial.                                                         *)
RECURSIVE FoldTerms(_, _, _, _, _)
FoldTerms(x, mod, z1, rmdr, j) ==
  IF j = 0 THEN x
  ELSE LET z2  == trailing_zero_bits_count(rmdr)
           md  == Shl(mod, U16(z2 - z1))
       IN  FoldTerms(x ^^ md, md, z2, rmdr ^^ Shl(1, z2), j - 1)

RECURSIVE ReduceSteps(_, _)
ReduceSteps(x, i) ==
  IF i = 0 THEN x
  ELSE LET mod == shiftR(x, LC_HQC_PARAM_M)
           x1  == (x & (Shl(1, LC_HQC_PARAM_M) - 1)) ^^ mod
       IN  ReduceSteps(FoldTerms(x1, mod, 0, LC_HQC_PARAM_GF_POLY ^^ 1,
                                 LC_HQC_PARAM_GF_POLY_WT - 2), i - 1)

(* Mutation: the number of steps rounded down instead of up.             *)
GfReduceFloorSteps(x, deg_x) ==
  U16(ReduceSteps(x, (deg_x - (LC_HQC_PARAM_M - 1)) \div LC_HQC_PARAM_GF_POLY_M2))

(* gf_reduce(x, deg_x)                                                     *)
gf_reduce(x, deg_x) ==
  U16(ReduceSteps(x, LC_HQC_CEIL_DIVIDE(deg_x - (LC_HQC_PARAM_M - 1),
                                        LC_HQC_PARAM_GF_POLY_M2)))

(* The constant-time table lookup of gf_carryless_mul: the XOR over i of *)
(* u[i] masked by 0 - (1 - ((tmp2 | -tmp2) >> 31)), tmp2 = t - i, that is *)
(* u[t] without a branch on t.  tmp2 is the pattern of t - i, and bit 31 *)
(* of tmp2 | -tmp2 is the OR of the sign bits of t - i and i - t.         *)
RECURSIVE Lookup(_, _, _)
Lookup(u, t, i) ==
  IF i = 4 THEN 0
  ELSE LET sel == 1 - (Top32(t - i) | Top32(i - t))
       IN  (IF sel = 1 THEN u[i + 1] ELSE 0) ^^ Lookup(u, t, i + 1)

(* u[0..3]: the multiples 0, b', 2b', 3b' of the 7 low bits b' of b.     *)
U(b) == LET u1 == b & 127
            u2 == U16(Shl(u1, 1))
        IN  <<0, u1, u2, u2 ^^ u1>>

(* The windows i = 2, 4, 6 of a.                                          *)
RECURSIVE Windows(_, _, _, _, _)
Windows(u, a, i, l, h) ==
  IF i >= 8 THEN <<l, h>>
  ELSE LET g == Lookup(u, shiftR(a, i) & 3, 0)
       IN  Windows(u, a, i + 2, l ^^ U16(Shl(g, i)), h ^^ shiftR(g, 8 - i))

(* Mutation: the top bit of b is not handled (the mask step is dropped).  *)
GfCarrylessMulNoTopBit(a, b) ==
  LET u  == U(b)
      lh == Windows(u, a, 2, Lookup(u, a & 3, 0), 0)
  IN  <<lh[1] % 256, lh[2] % 256>>

(* gf_carryless_mul(c, a, b): c[0], c[1] of the 15-bit product, with the *)
(* table u of the 7 low bits of b, 2-bit windows of a, and the top bit   *)
(* of b added by the masked step.                                         *)
gf_carryless_mul(a, b) ==
  LET u    == U(b)
      lh   == Windows(u, a, 2, Lookup(u, a & 3, 0), 0)
      mask == U16(2^16 - (shiftR(b, 7) & 1))
      l    == lh[1] ^^ (Shl(a, 7) & mask)
      h    == lh[2] ^^ (shiftR(a, 1) & mask)
  IN  <<l % 256, h % 256>>

(* gf_mul(a, b): both operands are truncated to a byte.                   *)
gf_mul(a, b) ==
  LET c == gf_carryless_mul(a % 256, b % 256)
  IN  gf_reduce(U16(c[1] ^^ Shl(c[2], 8)), 2 * (LC_HQC_PARAM_M - 1))

(* The loop of gf_square: bit i of a moves to bit 2i.                     *)
RECURSIVE Spread(_, _, _)
Spread(b, s, i) ==
  IF i = LC_HQC_PARAM_M THEN s
  ELSE LET b1 == Shl(b, 1)
       IN  Spread(b1, s ^^ (b1 & Shl(1, 2 * i)), i + 1)

gf_square(a) == gf_reduce(Spread(a, a & 1, 1), 2 * (LC_HQC_PARAM_M - 1))

(* Mutation: the chain stops at a^127.                                    *)
GfInverseShortChain(a) ==
  LET a2  == gf_square(a)
      a3  == gf_mul(a2, a)
      a4  == gf_square(a2)
      a7  == gf_mul(a4, a3)
      a11 == gf_mul(a4, a7)
      a15 == gf_mul(a11, a4)
  IN  gf_mul(gf_square(gf_square(gf_square(a15))), a7)

(* gf_inverse: a^254 by the addition chain 1 2 3 4 7 11 15 30 60 120 127 *)
(* 254.                                                                    *)
gf_inverse(a) ==
  LET a2  == gf_square(a)
      a3  == gf_mul(a2, a)
      a4  == gf_square(a2)
      a7  == gf_mul(a4, a3)
      a11 == gf_mul(a4, a7)
      a15 == gf_mul(a11, a4)
  IN  gf_square(gf_mul(gf_square(gf_square(gf_square(a15))), a7))

-----------------------------------------------------------------------------
(* Reference: polynomials over GF(2) as bit sets of naturals.             *)
RECURSIVE RefClMul(_, _)
RefClMul(a, b) ==
  IF b = 0 THEN 0
  ELSE (IF b % 2 = 1 THEN a ELSE 0) ^^ RefClMul(2 * a, b \div 2)

RECURSIVE Degree(_)
Degree(p) == IF p < 2 THEN 0 ELSE 1 + Degree(p \div 2)

RECURSIVE RefMod(_)
RefMod(p) ==
  IF p < 2^LC_HQC_PARAM_M THEN p
  ELSE RefMod(p ^^ Shl(LC_HQC_PARAM_GF_POLY, Degree(p) - LC_HQC_PARAM_M))

RefGfMul(a, b) == RefMod(RefClMul(a, b))

=============================================================================
