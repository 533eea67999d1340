---------------------------- MODULE ChaCha20Drng ----------------------------
(***************************************************************************)
(* The ChaCha20 DRNG of src/drng/src/chacha20_drng.c: seeding by XOR into *)
(* the key and an update, generation of keystream blocks, and the update  *)
(* that mixes fresh keystream into the key and increments the 96-bit      *)
(* nonce held in counter[1..3].                                            *)
(*                                                                         *)
(* Data abstraction.  The ChaCha20 block function is idealised as a PRF:  *)
(* the block computed from (key, counter) is the value <<key, counter>>,  *)
(* and word w of it is <<block, w>>.  A key is the sequence of materials  *)
(* XORed into the zero key: <<KEYSTREAM, c, lo>> for words lo..lo+7 of    *)
(* the block at counter c under the key before it, <<SEED, c, chunk>> for *)
(* a chunk of seed; so keys never collide by accident.                    *)
(* Counter words keep their wrap-around, reduced to WORD_BITS bits.       *)
(***************************************************************************)
EXTENDS Naturals, Sequences, FiniteSets

CONSTANTS
  WORD_BITS,     \* width of a counter word (32 in the code)
  SeedLens,      \* inbuflen values a caller passes to lc_cc20_drng_seed
  GenLens,       \* outbuflen values a caller passes to lc_cc20_drng_generate
  MaxCalls       \* bound on seed/generate calls per instance lifetime

ASSUME WORD_BITS \in Nat \ {0}

LC_CC20_BLOCK_SIZE == 64
LC_CC20_BLOCK_SIZE_WORDS == 16
LC_CC20_KEY_SIZE == 32
LC_CC20_KEY_SIZE_WORDS == 8
WORD == 2^WORD_BITS

VARIABLES
  key,        \* chacha20_state->key
  counter,    \* chacha20_state->counter[0..3]; [1..3] is the nonce
  calls,      \* seed and generate calls since the instance was zeroed
  blocks,     \* history: (key, counter) inputs of every cc20_block call
  released,   \* history: keystream words handed to callers
  mixed       \* history: keystream words XORed into the key by update

vars == <<key, counter, calls, blocks, released, mixed>>

KEY0 == << >>

(* cc20_block(state, out): one keystream block from (key, counter), and   *)
(* the 32-bit block counter counter[0] advanced with wrap-around.         *)
BlockOf(k, c) == <<k, c>>
NextCounter(c) == [c EXCEPT ![0] = (@ + 1) % WORD]

(* Mutation: the nonce words are incremented without the word wrap.      *)
IncNonceNoWrap(c) ==
  LET c1 == [c EXCEPT ![1] = @ + 1]
      c2 == IF c1[1] = 0 THEN [c1 EXCEPT ![2] = @ + 1] ELSE c1
  IN  IF c1[1] = 0 /\ c2[2] = 0 THEN [c2 EXCEPT ![3] = @ + 1] ELSE c2

(* Deterministic increment of the nonce words counter[1..3] with carry.   *)
IncNonce(c) ==
  LET c1 == [c EXCEPT ![1] = (@ + 1) % WORD]
      c2 == IF c1[1] = 0 THEN [c1 EXCEPT ![2] = (@ + 1) % WORD] ELSE c1
  IN  IF c1[1] = 0 /\ c2[2] = 0 THEN [c2 EXCEPT ![3] = (@ + 1) % WORD] ELSE c2

Words(blk, lo, hi) == {<<blk, w>> : w \in lo .. hi}

KEYSTREAM == 0
SEED == 1

(* Key after XORing words lo .. lo+7 of block <<k, c>> into key k.         *)
MixBlock(k, c, lo) == Append(k, <<KEYSTREAM, c, lo>>)

(* lc_cc20_drng_update(ctx, buf, used_words) applied after `blk` was the  *)
(* last block written to buf: returns the new key, counter, and the block *)
(* inputs and key material it consumed.                                    *)
Update(k, c, blk, used_words) ==
  IF used_words > LC_CC20_KEY_SIZE_WORDS
    THEN LET tmp == BlockOf(k, c)
         IN  [key |-> MixBlock(k, c, 0),
              ctr |-> IncNonce(NextCounter(c)),
              blocks |-> <<<<k, c>>>>,
              mixed |-> Words(tmp, 0, LC_CC20_KEY_SIZE_WORDS - 1)]
    ELSE [key |-> MixBlock(k, blk[2], used_words),
          ctr |-> IncNonce(c),
          blocks |-> << >>,
          mixed |-> Words(blk, used_words,
                          used_words + LC_CC20_KEY_SIZE_WORDS - 1)]

-----------------------------------------------------------------------------
(* lc_cc20_drng_alloc / lc_cc20_drng_zero: constants, zero key, zero      *)
(* counter and nonce.                                                      *)
Init ==
  /\ key = KEY0
  /\ counter = [i \in 0 .. 3 |-> 0]
  /\ calls = 0
  /\ blocks = << >>
  /\ released = {}
  /\ mixed = {}

Zero ==
  /\ calls > 0
  /\ key' = KEY0
  /\ counter' = [i \in 0 .. 3 |-> 0]
  /\ calls' = 0
  /\ blocks' = << >>
  /\ released' = {}
  /\ mixed' = {}

(* Seed chunk loop: XOR at most 32 input bytes into the key, then update  *)
(* with used_words = 16 (a fresh block), until the input is consumed.     *)
RECURSIVE SeedLoop(_, _, _)
SeedLoop(st, len, chunk) ==
  IF len = 0 THEN st
  ELSE LET todo == IF len < LC_CC20_KEY_SIZE THEN len ELSE LC_CC20_KEY_SIZE
           k1   == Append(st.key, <<SEED, st.ctr, chunk>>)
           u    == Update(k1, st.ctr, << >>, LC_CC20_BLOCK_SIZE_WORDS)
       IN  SeedLoop([key |-> u.key, ctr |-> u.ctr,
                     blocks |-> st.blocks \o u.blocks,
                     mixed |-> st.mixed \cup u.mixed],
                    len - todo, chunk + 1)

(* lc_cc20_drng_seed(ctx, inbuf, inbuflen)                                 *)
Seed ==
  \E len \in SeedLens :
    /\ calls < MaxCalls
    /\ LET st == SeedLoop([key |-> key, ctr |-> counter, blocks |-> blocks,
                           mixed |-> mixed], len, 0)
       IN  /\ key' = st.key
           /\ counter' = st.ctr
           /\ blocks' = st.blocks
           /\ mixed' = st.mixed
    /\ calls' = calls + 1
    /\ UNCHANGED released

(* Whole-block loop of generate: nfull blocks copied to the caller.       *)
RECURSIVE FullBlocks(_, _, _)
FullBlocks(k, c, n) ==
  IF n = 0 THEN [ctr |-> c, blocks |-> << >>, out |-> {}]
  ELSE LET rest == FullBlocks(k, NextCounter(c), n - 1)
       IN  [ctr |-> rest.ctr,
            blocks |-> <<<<k, c>>>> \o rest.blocks,
            out |-> Words(BlockOf(k, c), 0, LC_CC20_BLOCK_SIZE_WORDS - 1)
                      \cup rest.out]

(* Mutation: the word count of the tail rounds down, so the update     *)
(* mixes in the partially released word.                                  *)
UsedWordsFloor(rem) ==
  IF rem > 0 THEN rem \div 4 ELSE LC_CC20_BLOCK_SIZE_WORDS

(* used: words of aligned_buf touched by the output, ceil(rem / 4), or a  *)
(* whole block when there was no tail.                                     *)
UsedWords(rem) ==
  IF rem > 0 THEN (rem + 3) \div 4 ELSE LC_CC20_BLOCK_SIZE_WORDS

(* Mutation: the tail block is computed without advancing the counter.   *)
TailBlockSameCounter(k, c, rem) ==
  IF rem > 0
    THEN [ctr |-> c, blocks |-> <<<<k, c>>>>,
          out |-> Words(BlockOf(k, c), 0, (rem + 3) \div 4 - 1)]
    ELSE [ctr |-> c, blocks |-> << >>, out |-> {}]

(* The tail of generate: one more block, of which memcpy hands the caller *)
(* the rem bytes, i.e. the words 0 .. ceil(rem / 4) - 1.                   *)
TailBlock(k, c, rem) ==
  IF rem > 0
    THEN [ctr |-> NextCounter(c), blocks |-> <<<<k, c>>>>,
          out |-> Words(BlockOf(k, c), 0, (rem + 3) \div 4 - 1)]
    ELSE [ctr |-> c, blocks |-> << >>, out |-> {}]

(* lc_cc20_drng_generate(ctx, outbuf, outbuflen)                           *)
Generate ==
  \E outbuflen \in GenLens :
    /\ calls < MaxCalls
    /\ LET full == FullBlocks(key, counter, outbuflen \div LC_CC20_BLOCK_SIZE)
           rem  == outbuflen % LC_CC20_BLOCK_SIZE
           tail == TailBlock(key, full.ctr, rem)
           u    == Update(key, tail.ctr, BlockOf(key, full.ctr), UsedWords(rem))
       IN  /\ key' = u.key
           /\ counter' = u.ctr
           /\ blocks' = blocks \o full.blocks \o tail.blocks \o u.blocks
           /\ released' = released \cup full.out \cup tail.out
           /\ mixed' = mixed \cup u.mixed
    /\ calls' = calls + 1

Next == Seed \/ Generate \/ Zero

Spec == Init /\ [][Next]_vars

-----------------------------------------------------------------------------
TypeOK ==
  /\ counter \in [0 .. 3 -> 0 .. WORD - 1]
  /\ calls \in 0 .. MaxCalls
  /\ Len(blocks) <= MaxCalls * 8
  /\ \A w \in released \cup mixed : w[2] \in Nat

(* Keystream uniqueness: between two zeroisations no two cc20_block calls *)
(* (output blocks, the partial tail block and the update block) run on    *)
(* the same key and counter, so no keystream block is ever produced twice *)
(* even though counter[0] is never reset and wraps across generate calls. *)
KeystreamUnique ==
  \A i, j \in 1 .. Len(blocks) : i # j => blocks[i] # blocks[j]

(* Backtracking resistance of lc_cc20_drng_update: no keystream word that *)
(* was handed to a caller is ever XORed into the key, in particular not   *)
(* the partially released word of a tail block (used = ceil(len / 4)).    *)
KeyNotFromReleased ==
  mixed \cap released = {}

=============================================================================
