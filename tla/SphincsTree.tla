----------------------------- MODULE SphincsTree -----------------------------
(***************************************************************************)
(* The Merkle-tree and WOTS+ helpers of SLH-DSA,                          *)
(* src/slh-dsa/src/sphincs_utilsx1.h: treehashx1 (root and authentication *)
(* path with Merkle's TreeHash stack), gen_chain, base_w, wots_checksum,  *)
(* chain_lengths_c and wots_pk_from_sig_c.                                 *)
(*                                                                         *)
(* Hash values are abstracted to terms: thash of two nodes at a tree      *)
(* address is the tuple <<"H", address, left, right>>, one chain step at  *)
(* chain address (c, i) is <<"F", c, i, x>>, and a leaf is <<"L", index>>. *)
(* Distinct inputs give distinct outputs, so an equality of two results   *)
(* is an equality of everything that was hashed, the address included.    *)
(***************************************************************************)
EXTENDS Integers, Sequences, Bitwise

CONSTANTS
  LC_SPX_WOTS_LOGW,  \* bits per base-w digit
  LC_SPX_WOTS_LEN1,  \* digits of the message
  LC_SPX_WOTS_LEN2,  \* digits of the checksum
  Garbage            \* the contents of a buffer nobody has written

LC_SPX_WOTS_W   == 2^LC_SPX_WOTS_LOGW
LC_SPX_WOTS_LEN == LC_SPX_WOTS_LEN1 + LC_SPX_WOTS_LEN2

Leaf(idx)             == <<"L", idx>>
Thash(height, index, left, right) == <<"H", height, index, left, right>>
ChainStep(c, i, x)    == <<"F", c, i, x>>

-----------------------------------------------------------------------------
(* treehashx1.  The state of the loops is a record: the stack of left     *)
(* nodes, the authentication path, the root, and ret.                     *)

(* cmov(auth_path[h], current, (internal_idx ^ internal_leaf) == 1).    *)
IsAuthNode(iidx, ileaf) == (iidx ^^ ileaf) = 1

(* Mutation: the offset is not halved on the way up.                      *)
ParentOffsetNoShift(ioff) == ioff

(* internal_idx_offset >>= 1 before the parent's address is set.          *)
ParentOffset(ioff) == ioff \div 2

(* The inner loop over h, entered with the fresh leaf as current node.    *)
RECURSIVE Climb(_, _, _, _, _, _, _, _, _)
Climb(st, idx, cur, h, iidx, ileaf, ioff, max_idx, tree_height) ==
  IF h = tree_height
  THEN [st EXCEPT !.root = cur, !.done = TRUE]
  ELSE LET st1 == IF IsAuthNode(iidx, ileaf)
                  THEN [st EXCEPT !.auth[h] = cur] ELSE st
       IN  IF iidx % 2 = 0 /\ idx < max_idx
           THEN [st1 EXCEPT !.stack[h] = cur]
           ELSE LET off == ParentOffset(ioff)
                IN  Climb(st1, idx,
                          Thash(h + 1, iidx \div 2 + off, st1.stack[h], cur),
                          h + 1, iidx \div 2, ileaf \div 2, off,
                          max_idx, tree_height)

(* The outer loop over idx; gen_leaf fails for the leaf index fail_leaf.  *)
RECURSIVE TreeLoop(_, _, _, _, _, _)
TreeLoop(st, idx, leaf_idx, idx_offset, tree_height, fail_leaf) ==
  IF st.done THEN st
  ELSE IF idx + idx_offset = fail_leaf THEN [st EXCEPT !.ret = -1]
  ELSE TreeLoop(Climb(st, idx, Leaf(idx + idx_offset), 0, idx, leaf_idx,
                      idx_offset, 2^tree_height - 1, tree_height),
                idx + 1, leaf_idx, idx_offset, tree_height, fail_leaf)

treehashx1(leaf_idx, idx_offset, tree_height, fail_leaf) ==
  TreeLoop([stack |-> [h \in 0..tree_height - 1 |-> Garbage],
            auth  |-> [h \in 0..tree_height - 1 |-> Garbage],
            root  |-> Garbage, ret |-> 0, done |-> FALSE],
           0, leaf_idx, idx_offset, tree_height, fail_leaf)

-----------------------------------------------------------------------------
(* gen_chain(out, in, start, steps, addr) for chain c.                     *)
RECURSIVE gen_chain(_, _, _, _, _)
gen_chain(x, c, i, start, steps) ==
  IF i < start + steps /\ i < LC_SPX_WOTS_W
  THEN gen_chain(ChainStep(c, i, x), c, i + 1, start, steps)
  ELSE x

(* base_w(output, out_len, input): take LOGW bits at a time, most         *)
(* significant first, reading a new byte when the bits run out.           *)
RECURSIVE BaseW(_, _, _, _, _)
BaseW(input, out_len, in, total, bits) ==
  IF out_len = 0 THEN <<>>
  ELSE LET fresh == bits = 0
           t     == IF fresh THEN input[in + 1] ELSE total
           b     == (IF fresh THEN bits + 8 ELSE bits) - LC_SPX_WOTS_LOGW
       IN  <<shiftR(t, b) & (LC_SPX_WOTS_W - 1)>>
             \o BaseW(input, out_len - 1, IF fresh THEN in + 1 ELSE in, t, b)

base_w(out_len, input) == BaseW(input, out_len, 0, 0, 0)

(* ull_to_bytes(out, outlen, in): big-endian.                              *)
ull_to_bytes(outlen, v) ==
  [i \in 1..outlen |-> (v \div 2^(8 * (outlen - i))) % 256]

CsumShift == (8 - ((LC_SPX_WOTS_LEN2 * LC_SPX_WOTS_LOGW) % 8)) % 8

RECURSIVE DigitSum(_)
DigitSum(s) == IF s = <<>> THEN 0 ELSE Head(s) + DigitSum(Tail(s))

(* Mutation: the checksum is not shifted to its most significant bits.    *)
WotsChecksumNoShift(msg_base_w) ==
  LET csum == LC_SPX_WOTS_LEN1 * (LC_SPX_WOTS_W - 1) - DigitSum(msg_base_w)
  IN  base_w(LC_SPX_WOTS_LEN2,
             ull_to_bytes((LC_SPX_WOTS_LEN2 * LC_SPX_WOTS_LOGW + 7) \div 8,
                          csum))

(* wots_checksum: the sum of W - 1 - digit, shifted, in LEN2 digits.  At *)
(* most LEN1 * (W - 1) shifted by 4 bits, the unsigned int never wraps.   *)
wots_checksum(msg_base_w) ==
  LET csum == (LC_SPX_WOTS_LEN1 * (LC_SPX_WOTS_W - 1)
                 - DigitSum(msg_base_w)) * 2^CsumShift
  IN  base_w(LC_SPX_WOTS_LEN2,
             ull_to_bytes((LC_SPX_WOTS_LEN2 * LC_SPX_WOTS_LOGW + 7) \div 8,
                          csum))

chain_lengths_c(msg) ==
  LET l1 == base_w(LC_SPX_WOTS_LEN1, msg)
  IN  l1 \o wots_checksum(l1)

(* wots_pk_from_sig_c: complete every chain from the signature; a chain   *)
(* whose gen_chain fails (fail_chain) stops the loop, and the function    *)
(* still returns 0 with the rest of pk unwritten.                         *)
wots_pk_from_sig_c(sig, msg, fail_chain) ==
  LET lengths == chain_lengths_c(msg)
  IN  [ret |-> 0,
       pk  |-> [i \in 1..LC_SPX_WOTS_LEN |->
                  IF i - 1 < fail_chain
                  THEN gen_chain(sig[i], i - 1, lengths[i], lengths[i],
                                 LC_SPX_WOTS_W - 1 - lengths[i])
                  ELSE Garbage]]

=============================================================================
