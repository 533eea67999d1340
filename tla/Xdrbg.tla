-------------------------------- MODULE Xdrbg --------------------------------
(***************************************************************************)
(* The XDRBG fast-key-erasure DRBG of src/unnamed/part_004: seeding        *)
(* (instantiate and reseed), chunked generation and zeroisation.          *)
(*                                                                         *)
(* Data abstraction.  The XOF is idealised as a random oracle.  One XOF    *)
(* invocation is identified by its input, the tuple of the fields the     *)
(* code absorbs in order: V (or nothing), the seed, alpha clamped to 84   *)
(* bytes, and the encode byte.  The stored V is <<input>>: the first      *)
(* KEYSIZE bytes of the XOF output of that input; byte p of an output    *)
(* stream is <<input, p>>.  A seed is a sequence of model values, alpha  *)
(* is given by its length (its content is fixed per length).             *)
(* Consecutive lc_xdrbg_xof_final calls on one context continue the same *)
(* stream, the XOF contract the KeccakSponge module checks.               *)
(***************************************************************************)
EXTENDS Naturals, Sequences

CONSTANTS
  KEYSIZE,      \* lc_xdrbg_keysize(state), in bytes
  CHUNKSIZE,    \* state->chunksize
  Seeds,        \* seed strings a caller may pass (sequences of model values)
  AlphaLens,    \* alphalen values a caller may pass
  OutLens,      \* outlen values a caller may pass to generate
  MaxCalls      \* bound on seed/generate calls between two zeroisations

ASSUME KEYSIZE \in Nat \ {0} /\ CHUNKSIZE \in Nat \ {0}

LC_XDRBG_DRNG_ENCODE_LENGTH == 84
LC_XDRBG_DRNG_ENCODE_N(x) == x * 85

VARIABLES
  v,          \* state->v
  seeded,     \* LC_XDRBG_DRNG_INITIALLY_SEEDED bit of state->status
  calls,      \* seed and generate calls since the state was zeroed
  xofs,       \* history: inputs of every XOF invocation, in order
  released    \* history: XOF output bytes handed to callers

vars == <<v, seeded, calls, xofs, released>>

NOV == << >>          \* no V absorbed (instantiate)
ZEROV == << << >> >>  \* V after lc_xdrbg_drng_zero: KEYSIZE zero bytes

KeyBytes(key) == IF key = ZEROV THEN {} ELSE {<<key[1], p>> : p \in 0 .. KEYSIZE - 1}

(* Mutation: alpha clamped at 85 bytes instead of 84.                    *)
ClampAt85(alphalen) == IF alphalen > 85 THEN 85 ELSE alphalen

(* lc_xdrbg_drng_encode: the absorbed alpha and the encode byte.          *)
Clamp(alphalen) ==
  IF alphalen > LC_XDRBG_DRNG_ENCODE_LENGTH THEN LC_XDRBG_DRNG_ENCODE_LENGTH
  ELSE alphalen
Encode(n, alphalen) == (n + Clamp(alphalen)) % 256

(* Mutation: the stored V is not replaced by the first bytes of the      *)
(* stream (the key is squeezed into a local copy).                        *)
FkeKeepKey(key, alphalen) ==
  LET in == <<key, << >>, Clamp(alphalen),
              Encode(LC_XDRBG_DRNG_ENCODE_N(2), alphalen)>>
  IN  [in |-> in, key |-> key]

(* lc_xdrbg_drng_fke_init_ctx: absorb V, alpha and its encoding with n=2, *)
(* and overwrite V with the first KEYSIZE bytes of the stream.            *)
FkeInit(key, alphalen) ==
  LET in == <<key, << >>, Clamp(alphalen),
              Encode(LC_XDRBG_DRNG_ENCODE_N(2), alphalen)>>
  IN  [in |-> in, key |-> <<in>>]

(* Mutation: the output of a chunk is squeezed from a fresh context, so   *)
(* it starts at byte 0 of the stream, where the new V was taken from.     *)
ChunkBytesFromStart(in, todo) == {<<in, p>> : p \in 0 .. todo - 1}

(* lc_xdrbg_xof_final(xof_ctx, out, todo) after the key was squeezed: the *)
(* bytes KEYSIZE .. KEYSIZE+todo-1 of the stream.                          *)
ChunkBytes(in, todo) == {<<in, p>> : p \in KEYSIZE .. KEYSIZE + todo - 1}

(* The chunk loop of lc_xdrbg_drng_generate.                               *)
RECURSIVE GenLoop(_, _, _)
GenLoop(st, alphalen, outlen) ==
  IF outlen = 0 THEN st
  ELSE LET todo == IF outlen < CHUNKSIZE THEN outlen ELSE CHUNKSIZE
           f    == FkeInit(st.key, alphalen)
       IN  GenLoop([key |-> f.key, xofs |-> Append(st.xofs, f.in),
                    out |-> st.out \cup ChunkBytes(f.in, todo)],
                   alphalen, outlen - todo)

-----------------------------------------------------------------------------
(* lc_xdrbg*_drng_alloc: status holds the key size, V is zero, not seeded *)
Init ==
  /\ v = ZEROV
  /\ seeded = FALSE
  /\ calls = 0
  /\ xofs = << >>
  /\ released = {}

(* lc_xdrbg_drng_seed_nocheck(state, seed, seedlen, alpha, alphalen):    *)
(* instantiate when the bit is clear (no V absorbed, n = 0, bit set),     *)
(* reseed otherwise (V absorbed, n = 1).                                  *)
Seed ==
  \E seed \in Seeds, alphalen \in AlphaLens :
    /\ calls < MaxCalls
    /\ LET initially_seeded == IF seeded THEN 1 ELSE 0
           in == <<IF seeded THEN v ELSE NOV, seed, Clamp(alphalen),
                   Encode(LC_XDRBG_DRNG_ENCODE_N(initially_seeded), alphalen)>>
       IN  /\ v' = <<in>>
           /\ xofs' = Append(xofs, in)
    /\ seeded' = TRUE
    /\ calls' = calls + 1
    /\ UNCHANGED released

(* lc_xdrbg_drng_generate(state, alpha, alphalen, out, outlen).  It does  *)
(* not test the seeded bit: on a zeroed state it runs from the zero V.    *)
Generate ==
  \E alphalen \in AlphaLens, outlen \in OutLens :
    /\ calls < MaxCalls
    /\ LET st == GenLoop([key |-> v, xofs |-> xofs, out |-> {}],
                         alphalen, outlen)
       IN  /\ v' = st.key
           /\ xofs' = st.xofs
           /\ released' = released \cup st.out
    /\ calls' = calls + 1
    /\ UNCHANGED seeded

(* Mutation: zero clears the seeded bit but leaves V in place.            *)
ZeroKeepV ==
  /\ calls > 0
  /\ seeded' = FALSE
  /\ calls' = 0
  /\ xofs' = << >>
  /\ released' = {}
  /\ UNCHANGED v

(* lc_xdrbg_drng_zero: clear the seeded bit and V.                         *)
Zero ==
  /\ calls > 0
  /\ v' = ZEROV
  /\ seeded' = FALSE
  /\ calls' = 0
  /\ xofs' = << >>
  /\ released' = {}

Next == Seed \/ Generate \/ Zero

Spec == Init /\ [][Next]_vars

-----------------------------------------------------------------------------
TypeOK ==
  /\ seeded \in BOOLEAN
  /\ calls \in 0 .. MaxCalls
  /\ Len(xofs) <= MaxCalls * (1 + 10)
  /\ \A i \in 1 .. Len(xofs) : xofs[i][4] \in 0 .. 255
  /\ v \in {ZEROV} \cup {<<xofs[i]>> : i \in 1 .. Len(xofs)}

(* Domain separation and fast key erasure: between two zeroisations no   *)
(* two XOF invocations (instantiate, reseed, generate chunk) absorb the  *)
(* same input, so no output stream and no V is ever produced twice.  It  *)
(* rests on V being replaced in every fke_init_ctx and on the encode     *)
(* byte n*85 + |alpha| telling the three uses apart.                      *)
XofInputsUnique ==
  \A i, j \in 1 .. Len(xofs) : i # j => xofs[i] # xofs[j]

(* Backtracking resistance (spec: the stored secret is the next key,      *)
(* never bytes that produced output): no byte of the stored V was ever   *)
(* handed to a caller.                                                     *)
KeyNeverReleased ==
  KeyBytes(v) \cap released = {}

(* The encode byte of XDRBG appendix B.2 read back: n = byte \div 85 and *)
(* |alpha| = byte % 85.  The byte of every XOF input absorbed so far     *)
(* decodes to the number of alpha bytes that input absorbed, to a use    *)
(* n in 0 .. 2, and to n = 0 exactly for the instantiation, the one input *)
(* without V: an input of one use or alpha length cannot be read as one  *)
(* of another.                                                             *)
DecodeByte(e) == <<e \div 85, e % 85>>

EncodeSeparates ==
  \A i \in 1 .. Len(xofs) :
    LET d == DecodeByte(xofs[i][4])
    IN  /\ d[1] \in 0 .. 2
        /\ d[2] = xofs[i][3]
        /\ (d[1] = 0) <=> (xofs[i][1] = NOV)

=============================================================================
