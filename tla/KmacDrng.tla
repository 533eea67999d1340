------------------------------- MODULE KmacDrng -------------------------------
(***************************************************************************)
(* The fast-key-erasure KMAC256 DRNG of src/drng/src/kmac_drng.c: seed    *)
(* (initial and reseed), chunked generate and zero.                       *)
(*                                                                         *)
(* Data abstraction.  KMACXOF256 is idealised as a random oracle.  One    *)
(* invocation is identified by its input: the customization string, the  *)
(* key (<< >> for the NULL key of the initial seed), the seed, alpha      *)
(* clamped to 84 bytes, and the encode byte.  The stored key is <<input>>,*)
(* the first KEYSIZE bytes of that output; byte p of the output is        *)
(* <<input, p>>.  lc_kmac_init cannot fail for the 64-byte key and the    *)
(* short customization strings used here.                                 *)
(***************************************************************************)
EXTENDS Naturals, Sequences, SelftestGate

CONSTANTS
  KEYSIZE,      \* LC_KMAC256_DRNG_KEYSIZE, in bytes
  MAX_CHUNK,    \* LC_KMAC256_DRNG_MAX_CHUNK, bytes squeezed per KMAC context
  Seeds,        \* seed strings a caller may pass
  AlphaLens,    \* perslen / addtl_input_len values a caller may pass
  OutLens,      \* outlen values a caller may pass to generate
  MaxCalls,     \* bound on seed/generate calls between two zeroisations
  KAT_OUTLEN    \* sizeof(exp) of kmac256_drng_selftest, within one chunk

ASSUME KEYSIZE \in Nat \ {0} /\ MAX_CHUNK > KEYSIZE
ASSUME KAT_OUTLEN \in 1 .. MAX_CHUNK - KEYSIZE

LC_KMAC256_DRNG_ENCODE_LENGTH == 84
LC_KMAC_DRNG_SEED_CUSTOMIZATION_STRING == "KMAC-DRNG seed"
LC_KMAC_DRNG_CTX_CUSTOMIZATION_STRING == "KMAC-DRNG generate"

VARIABLES
  key,               \* state->key
  initially_seeded,  \* state->initially_seeded
  calls,             \* seed and generate calls since the state was zeroed
  xofs,              \* history: inputs of every KMAC invocation, in order
  released,          \* history: KMAC output bytes handed to callers
  status,            \* process-wide algorithm status of the KMAC DRNG
  fips140_mod        \* build: FIPS140_MOD flips the first KAT seed byte

vars == <<key, initially_seeded, calls, xofs, released, status, fips140_mod>>

NOKEY == << >>          \* lc_kmac_init(kmac_ctx, NULL, 0, ...)
ZEROKEY == << << >> >>  \* the key after lc_kmac256_drng_zero: zero bytes

KeyBytes(k) == IF k = ZEROKEY THEN {} ELSE {<<k[1], p>> : p \in 0 .. KEYSIZE - 1}

(* lc_kmac256_drng_encode: the absorbed alpha and the encode byte.        *)
ClampAlpha(alphalen) ==
  IF alphalen > LC_KMAC256_DRNG_ENCODE_LENGTH
    THEN LC_KMAC256_DRNG_ENCODE_LENGTH ELSE alphalen
Encode(n, alphalen) == (n * 85 + ClampAlpha(alphalen)) % 256

(* Mutation: K(N + 1) is squeezed into a local copy, the state keeps K(N).*)
FkeKeepKey(k, alphalen) ==
  LET in == <<LC_KMAC_DRNG_CTX_CUSTOMIZATION_STRING, k, << >>,
              ClampAlpha(alphalen), Encode(2, alphalen)>>
  IN  [in |-> in, key |-> k]

(* lc_kmac256_drng_fke_init_ctx: KMAC keyed with K(N) and the generate   *)
(* customization, alpha encoded with n = 2, K(N + 1) squeezed into state. *)
FkeInit(k, alphalen) ==
  LET in == <<LC_KMAC_DRNG_CTX_CUSTOMIZATION_STRING, k, << >>,
              ClampAlpha(alphalen), Encode(2, alphalen)>>
  IN  [in |-> in, key |-> <<in>>]

(* Mutation: each chunk is squeezed from the start of the KMAC output,    *)
(* where K(N + 1) was taken from.                                          *)
ChunkBytesFromStart(in, todo) == {<<in, p>> : p \in 0 .. todo - 1}

(* lc_kmac_final_xof(kmac_ctx, out, todo) after K(N + 1) was squeezed.     *)
ChunkBytes(in, todo) == {<<in, p>> : p \in KEYSIZE .. KEYSIZE + todo - 1}

(* The chunk loop of lc_kmac256_drng_generate.                             *)
RECURSIVE GenLoop(_, _, _)
GenLoop(st, alphalen, outlen) ==
  IF outlen = 0 THEN st
  ELSE LET todo == IF outlen < MAX_CHUNK - KEYSIZE
                     THEN outlen ELSE MAX_CHUNK - KEYSIZE
           f    == FkeInit(st.key, alphalen)
       IN  GenLoop([st EXCEPT !.key = f.key, !.xofs = Append(@, f.in),
                              !.out = @ \cup ChunkBytes(f.in, todo)],
                   alphalen, outlen - todo)

(* Mutation: the seed is not absorbed (lc_kmac_update left out).          *)
SeedNoCheckDropSeed(st, seed, perslen) ==
  LET in == <<LC_KMAC_DRNG_SEED_CUSTOMIZATION_STRING,
              IF st.initially_seeded = 1 THEN st.key ELSE NOKEY,
              << >>, ClampAlpha(perslen), Encode(st.initially_seeded, perslen)>>
  IN  [st EXCEPT !.key = <<in>>, !.xofs = Append(@, in), !.initially_seeded = 1]

(* lc_kmac256_drng_seed_nocheck(state, seed, seedlen, persbuf, perslen):  *)
(* KMAC with the seed customization, keyed by K(N) on reseed and by no    *)
(* key on the initial seed, over seed and the personalization encoded     *)
(* with n = initially_seeded as read on entry.                             *)
SeedNoCheck(st, seed, perslen) ==
  LET in == <<LC_KMAC_DRNG_SEED_CUSTOMIZATION_STRING,
              IF st.initially_seeded = 1 THEN st.key ELSE NOKEY,
              seed, ClampAlpha(perslen), Encode(st.initially_seeded, perslen)>>
  IN  [st EXCEPT !.key = <<in>>, !.xofs = Append(@, in), !.initially_seeded = 1]

(* The KAT of kmac256_drng_selftest: seed[] with FIPS140_MOD applied to   *)
(* its first byte, and exp[], the first KAT_OUTLEN bytes of the first     *)
(* generate chunk after an initial seed with that seed and no             *)
(* personalization (encode bytes 0 * 85 + 0 and 2 * 85 + 0).              *)
KAT_SEED == <<"kat seed">>
KatSeed(flip) == IF flip THEN <<"kat seed, first byte flipped">> ELSE KAT_SEED
KatExpected ==
  LET k1 == <<LC_KMAC_DRNG_SEED_CUSTOMIZATION_STRING, NOKEY, KAT_SEED, 0, 0>>
      in == <<LC_KMAC_DRNG_CTX_CUSTOMIZATION_STRING, <<k1>>, << >>, 0, 170>>
  IN  {<<in, p>> : p \in KEYSIZE .. KEYSIZE + KAT_OUTLEN - 1}

(* kmac256_drng_selftest: on a fresh on-stack context, seed_nocheck and a *)
(* generate of sizeof(exp) bytes, compared with exp[].                    *)
kmac256_drng_selftest(st, flip) ==
  LET fresh == [key |-> ZEROKEY, initially_seeded |-> 0, xofs |-> << >>,
                out |-> {}]
      act   == GenLoop(SeedNoCheck(fresh, KatSeed(flip), 0), 0, KAT_OUTLEN).out
  IN  IF SelftestRun(st) THEN CompareSelftest(act, KatExpected) ELSE st

-----------------------------------------------------------------------------
(* lc_kmac256_drng_alloc: the state is zeroed.  The algorithm status is   *)
(* unset until the first seed; the build may or may not apply FIPS140_MOD.*)
Init ==
  /\ key = ZEROKEY
  /\ initially_seeded = 0
  /\ calls = 0
  /\ xofs = << >>
  /\ released = {}
  /\ status = "unset"
  /\ fips140_mod \in BOOLEAN

(* lc_kmac256_drng_seed: the self-test, LC_SELFTEST_COMPLETED, and then   *)
(* seed_nocheck on the caller's state.                                     *)
Seed ==
  \E seed \in Seeds, perslen \in AlphaLens :
    /\ calls < MaxCalls
    /\ status' = kmac256_drng_selftest(status, fips140_mod)
    /\ \/ /\ SelftestCompleted(status')
          /\ LET st == SeedNoCheck([key |-> key, xofs |-> xofs, out |-> {},
                                    initially_seeded |-> initially_seeded],
                                   seed, perslen)
             IN  /\ key' = st.key
                 /\ xofs' = st.xofs
                 /\ initially_seeded' = st.initially_seeded
       \/ /\ ~SelftestCompleted(status')
          /\ UNCHANGED <<key, xofs, initially_seeded>>
    /\ calls' = calls + 1
    /\ UNCHANGED <<released, fips140_mod>>

(* lc_kmac256_drng_generate(state, addtl_input, addtl_input_len, out,     *)
(* outlen).  It tests neither initially_seeded nor the self-test status.  *)
Generate ==
  \E alphalen \in AlphaLens, outlen \in OutLens :
    /\ calls < MaxCalls
    /\ LET st == GenLoop([key |-> key, xofs |-> xofs, out |-> {}],
                         alphalen, outlen)
       IN  /\ key' = st.key
           /\ xofs' = st.xofs
           /\ released' = released \cup st.out
    /\ calls' = calls + 1
    /\ UNCHANGED <<initially_seeded, status, fips140_mod>>

(* Mutation: zero clears initially_seeded but not the key.                 *)
ZeroKeepKey ==
  /\ calls > 0
  /\ initially_seeded' = 0
  /\ calls' = 0
  /\ xofs' = << >>
  /\ released' = {}
  /\ UNCHANGED <<key, status, fips140_mod>>

(* lc_kmac256_drng_zero: the whole state, key and flag, is set to zero;   *)
(* the process-wide status is not part of it.                              *)
Zero ==
  /\ calls > 0
  /\ key' = ZEROKEY
  /\ initially_seeded' = 0
  /\ calls' = 0
  /\ xofs' = << >>
  /\ released' = {}
  /\ UNCHANGED <<status, fips140_mod>>

Next == Seed \/ Generate \/ Zero

Spec == Init /\ [][Next]_vars

-----------------------------------------------------------------------------
TypeOK ==
  /\ initially_seeded \in {0, 1}
  /\ calls \in 0 .. MaxCalls
  /\ \A i \in 1 .. Len(xofs) : xofs[i][5] \in 0 .. 255
  /\ key \in {ZEROKEY} \cup {<<xofs[i]>> : i \in 1 .. Len(xofs)}
  /\ status \in SelftestStatus
  /\ fips140_mod \in BOOLEAN

(* The KAT decides right: kmac256_drng_selftest, run through the same     *)
(* seed_nocheck and generate code as the caller's state, latches passed   *)
(* exactly when the build did not flip a byte of its known seed, so the   *)
(* comparison detects a seed the code does not absorb as specified.       *)
SelftestVerdictCorrect ==
  status # "unset" => (status = "passed" <=> ~fips140_mod)

(* Between two zeroisations no two KMAC invocations (initial seed, reseed *)
(* and every generate chunk) have the same input, so no key and no output *)
(* stream repeats: key chaining through fke_init_ctx and the seed path's  *)
(* choice of key by initially_seeded.                                     *)
KmacInputsUnique ==
  \A i, j \in 1 .. Len(xofs) : i # j => xofs[i] # xofs[j]

(* Refinement: seed, generate and zero implement the abstract fast-key-  *)
(* erasure DRBG: every stored key and every output byte is new, and the  *)
(* stored key never overlaps output (backtracking resistance).            *)
Produced ==
  UNION {KeyBytes(<<xofs[i]>>) : i \in 1 .. Len(xofs)} \cup released

Abstract == INSTANCE FkeDrbg WITH key <- KeyBytes(key), seen <- Produced,
                                  out <- released

ImplementsFkeDrbg == Abstract!Spec

=============================================================================
