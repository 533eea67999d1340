---------------------------- MODULE KeccakSponge ----------------------------
(***************************************************************************)
(* The Keccak sponge state machine of the accelerated (ARMv8 CE / ASM)     *)
(* back-end: keccak_arm_asm_absorb_internal and                            *)
(* keccak_arm_asm_squeeze_internal (src/unnamed/part_006).                 *)
(*                                                                         *)
(* Data abstraction.  The permutation is idealised as injective: the      *)
(* 200-byte state is represented by the sequence `hist` of the blocks that *)
(* were XORed into it before each permutation, plus `cur`, the bytes XORed *)
(* in since the last permutation.  A byte extracted at position i is      *)
(* <<hist, i, cur[i]>>, so two extracted bytes are equal iff the real      *)
(* Keccak computation would produce them from the same state position.    *)
(* The caller absorbs a fixed message whose k-th byte has the value k, so *)
(* any misplaced, duplicated or dropped byte changes the state.           *)
(***************************************************************************)
EXTENDS Naturals, Sequences, Bitwise

CONSTANTS
  R,                \* sponge rate in bytes (ctx->r)
  Paddings,         \* domain separation bytes ctx->padding may hold
  AbsorbLens,       \* lengths one lc_hash_update call may pass
  SqueezeLens,      \* digest lengths one lc_hash_final call may request
  MaxMsg,           \* bound on the bytes absorbed per hash generation
  MaxOut,           \* bound on the bytes squeezed per hash generation
  UpdateAfterFinal  \* whether the caller may call update after final

ASSUME R \in Nat \ {0} /\ Paddings \subseteq 1 .. 255
ASSUME AbsorbLens \subseteq Nat /\ SqueezeLens \subseteq Nat
ASSUME UpdateAfterFinal \in BOOLEAN

VARIABLES
  hist,          \* blocks fed to the permutation so far (the state's past)
  cur,           \* bytes XORed into the state since the last permutation
  msg_len,       \* ctx->msg_len
  squeeze_more,  \* ctx->squeeze_more
  offset,        \* ctx->offset: bytes of the current block already squeezed
  total,         \* history: bytes the caller handed to update
  out,           \* history: bytes returned by final since the last padding
  padding        \* ctx->padding, fixed by the hash type at lc_hash_init

vars == <<hist, cur, msg_len, squeeze_more, offset, total, out, padding>>

Pos == 0 .. R - 1
Zero == [i \in Pos |-> 0]
FINAL_BIT == 128

MinSize(a, b) == IF a < b THEN a ELSE b

(* The sponge as one value, so that a handler is a chain of state updates. *)
S == [hist |-> hist, cur |-> cur]

(* keccakf1600(ctx->state) *)
Permute(s) == [hist |-> Append(s.hist, s.cur), cur |-> Zero]

(* sha3_fill_state_bytes(state, in, off, len): XOR the message bytes with  *)
(* indices first .. first+len-1 into state positions off .. off+len-1.     *)
FillState(s, off, first, len) ==
  [s EXCEPT !.cur = [i \in Pos |->
      IF off <= i /\ i < off + len THEN @[i] ^^ (first + i - off) ELSE @[i]]]

(* One state byte as the lanes hold it: (state >> byte) of its word.      *)
ByteAt(s, i) == <<s.hist, i, s.cur[i]>>

ExtractBytes(s, off, len) == [k \in 1 .. len |-> ByteAt(s, off + k - 1)]

(* lc_keccak_absorb_arm_ce / _arm_asm: absorb every whole block of the    *)
(* input, permuting after each; the remainder (len % r) is returned.       *)
RECURSIVE AbsorbAsm(_, _, _)
AbsorbAsm(s, first, len) ==
  IF len < R THEN s
  ELSE AbsorbAsm(Permute(FillState(s, 0, first, R)), first + R, len - R)

(* lc_keccak_squeeze_arm_ce / _arm_asm: output the state, and permute     *)
(* before each further block; no permutation after the last block.        *)
RECURSIVE SqueezeAsm(_, _)
SqueezeAsm(s, len) ==
  IF len <= R THEN [st |-> s, bytes |-> ExtractBytes(s, 0, len)]
  ELSE LET rest == SqueezeAsm(Permute(s), len - R)
       IN  [st |-> rest.st, bytes |-> ExtractBytes(s, 0, R) \o rest.bytes]

-----------------------------------------------------------------------------
(* lc_hash_init on a SHA-3/SHAKE context: zeroed state and counters.      *)
Init ==
  /\ hist = << >>
  /\ cur = Zero
  /\ msg_len = 0
  /\ squeeze_more = 0
  /\ offset = 0
  /\ total = 0
  /\ out = << >>
  /\ padding \in Paddings

Reinit ==
  /\ total > 0 \/ squeeze_more = 1
  /\ hist' = << >>
  /\ cur' = Zero
  /\ msg_len' = 0
  /\ squeeze_more' = 0
  /\ offset' = 0
  /\ total' = 0
  /\ out' = << >>
  /\ UNCHANGED padding

(* Mutation: the partial buffer is kept unprocessed also when the input  *)
(* exactly completes it.                                                   *)
PartialOnlyLe(partial, inlen, todo) == partial # 0 /\ inlen <= todo

(* The early-return test of the partial-block branch: the input is small *)
(* enough to stay in the partial block buffer.                             *)
PartialOnly(partial, inlen, todo) == partial # 0 /\ inlen < todo

(* Result of the absorb handler on sponge s for inlen new bytes.          *)
AbsorbResult(s, inlen) ==
  LET partial == msg_len % R
      first   == total + 1
      todo    == R - partial
      \* partial block completed and permuted, if there was one
      s1      == IF partial # 0 THEN Permute(FillState(s, partial, first, todo))
                 ELSE s
      first1  == IF partial # 0 THEN first + todo ELSE first
      len1    == IF partial # 0 THEN inlen - todo ELSE inlen
      s2      == IF len1 >= R THEN AbsorbAsm(s1, first1, len1) ELSE s1
      first2  == IF len1 >= R THEN first1 + (len1 - (len1 % R)) ELSE first1
      len2    == IF len1 >= R THEN len1 % R ELSE len1
  IN  IF PartialOnly(partial, inlen, todo)
        THEN FillState(s, partial, first, inlen)  \* early return
        ELSE FillState(s2, 0, first2, len2)

(* keccak_arm_asm_absorb_internal(ctx, in, inlen)                         *)
Absorb ==
  \E inlen \in AbsorbLens :
    /\ total + inlen <= MaxMsg
    /\ squeeze_more = 0 \/ UpdateAfterFinal
    /\ LET s == AbsorbResult(S, inlen)
       IN  /\ hist' = s.hist
           /\ cur' = s.cur
    /\ squeeze_more' = 0
    /\ msg_len' = msg_len + inlen
    /\ total' = total + inlen
    /\ out' = IF squeeze_more = 1 THEN << >> ELSE out
    /\ UNCHANGED <<offset, padding>>

(* Mutation: no extra permutation when the padding byte has its top bit  *)
(* set and lands on the last rate byte.                                    *)
PadAndPermuteNoExtra(s) ==
  LET partial == msg_len % R
      s1 == [s EXCEPT !.cur[partial] = @ ^^ padding]
      s3 == [s1 EXCEPT !.cur[R - 1] = @ ^^ FINAL_BIT]
  IN  Permute(s3)

(* Final round of the absorbing phase: padding, final bit, permutation.   *)
PadAndPermute(s) ==
  LET partial == msg_len % R
      s1 == [s EXCEPT !.cur[partial] = @ ^^ padding]
      s2 == IF padding >= FINAL_BIT /\ partial = R - 1 THEN Permute(s1) ELSE s1
      s3 == [s2 EXCEPT !.cur[R - 1] = @ ^^ FINAL_BIT]
  IN  Permute(s3)

(* Mutation: the offset is advanced without wrapping at the block size.  *)
WrapOffsetNone(x) == x

(* ctx->offset %= blocksize                                                *)
WrapOffset(x) == x % R

(* Result of the squeeze handler for digest_len bytes: the new sponge,    *)
(* the bytes written to digest and the new offset.  `snapshot` is the     *)
(* value of ctx->squeeze_more read on entry, before padding sets it.      *)
SqueezeWith(digest_len, snapshot) ==
  LET s0 == IF squeeze_more = 0 THEN PadAndPermute(S) ELSE S
      todo == MinSize(digest_len, R - offset)
      off1 == WrapOffset(offset + todo)
      rest == digest_len - todo
  IN  IF offset # 0
        THEN IF rest = 0
               THEN [st |-> s0, bytes |-> ExtractBytes(s0, offset, todo),
                     off |-> off1]
               ELSE LET q == SqueezeAsm(Permute(s0), rest)
                    IN  [st |-> q.st,
                         bytes |-> ExtractBytes(s0, offset, todo) \o q.bytes,
                         off |-> off1 + ((rest + off1) % R)]
        ELSE LET s1 == IF snapshot = 1 THEN Permute(s0) ELSE s0
                 q  == SqueezeAsm(s1, digest_len)
             IN  [st |-> q.st, bytes |-> q.bytes,
                  off |-> offset + ((digest_len + offset) % R)]

(* Mutation: the permutation before squeezing tests the live flag, which  *)
(* the padding step has just set, instead of the value read on entry.     *)
SqueezeResultLiveFlag(digest_len) == SqueezeWith(digest_len, 1)

SqueezeResult(digest_len) == SqueezeWith(digest_len, squeeze_more)

(* lc_hash_set_digestsize(n) followed by                                  *)
(* keccak_arm_asm_squeeze_internal(ctx, digest), as lc_xdrbg_xof_final.   *)
Squeeze ==
  \E n \in SqueezeLens :
    /\ Len(out) + n <= MaxOut
    /\ LET q == SqueezeResult(n)
       IN  /\ hist' = q.st.hist
           /\ cur' = q.st.cur
           /\ out' = out \o q.bytes
           /\ offset' = q.off
    /\ squeeze_more' = 1
    /\ UNCHANGED <<msg_len, total, padding>>

Next == Absorb \/ Squeeze \/ Reinit

Spec == Init /\ [][Next]_vars

-----------------------------------------------------------------------------
(* Reference: the one-shot sponge over the message 1 .. n, padded by the  *)
(* Keccak rule for a delimited suffix: the domain byte follows the         *)
(* message, and the final bit 0x80 goes into the last byte of the block   *)
(* after the suffix's last bit, a block of its own when a domain byte with *)
(* bit 7 set occupies the last byte of a block.                            *)
IdealBlocks(n) ==
  LET nb == n \div R + 1
              + (IF padding >= FINAL_BIT /\ n % R = R - 1 THEN 1 ELSE 0)
      Blk(j) == [i \in Pos |->
                  LET k == (j - 1) * R + i + 1
                  IN  ((IF k <= n THEN k ELSE 0)
                         ^^ (IF k = n + 1 THEN padding ELSE 0))
                         ^^ (IF j = nb /\ i = R - 1 THEN FINAL_BIT ELSE 0)]
  IN  [j \in 1 .. nb |-> Blk(j)]

IdealStream(n, len) ==
  [k \in 1 .. len |->
     <<IdealBlocks(n) \o [j \in 1 .. (k - 1) \div R |-> Zero], (k - 1) % R, 0>>]

IdealAbsorbed(n) ==
  [hist |-> [j \in 1 .. n \div R |-> [i \in Pos |-> (j - 1) * R + i + 1]],
   cur  |-> [i \in Pos |-> IF i < n % R THEN (n \div R) * R + i + 1 ELSE 0]]

TypeOK ==
  /\ hist \in Seq([Pos -> 0 .. 255])
  /\ cur \in [Pos -> 0 .. 255]
  /\ msg_len \in Nat /\ total \in 0 .. MaxMsg
  /\ squeeze_more \in {0, 1}
  /\ offset \in Pos
  /\ Len(out) <= MaxOut
  /\ padding \in Paddings

(* Absorbing: however the caller split the message over update calls,     *)
(* the sponge holds exactly what a one-shot absorb of the message gives    *)
(* (partial-block buffering, bulk absorb and tail handling of             *)
(* keccak_arm_asm_absorb_internal).                                        *)
AbsorbMatchesOneShot ==
  squeeze_more = 0 => S = IdealAbsorbed(total)

(* Squeezing: the concatenation of all bytes returned by the final calls   *)
(* since padding is the prefix of the one-shot XOF output of the message,  *)
(* whatever lengths were requested (offset tracking and the permutations  *)
(* of keccak_arm_asm_squeeze_internal).                                    *)
SqueezeMatchesOneShot ==
  squeeze_more = 1 => out = IdealStream(total, Len(out))

=============================================================================
