# TLA+ models of leancrypto

This directory holds TLA+ models of the stateful parts of leancrypto (`src/`).
TLC checks them. Each module is translated from the C source. The `map` in
`PROJECT.json` names the lines each definition stands for.

## The system and its parts

The library has two kinds of code:

* Stateless primitives: the PQ schemes, the AES modes and the field arithmetic.
* Stateful constructions built on those primitives. These are where the hazards are.

The stateful parts interact like this:

* **Keccak sponge** (`src/unnamed/part_006`, the ARMv8 CE/ASM glue). It
  implements `lc_hash_update` / `lc_hash_final` for SHA-3, SHAKE and cSHAKE.
  Its state is the 200-byte Keccak state plus `msg_len`, `squeeze_more` and
  `offset`. The XOF users below (XDRBG, KMAC DRNG, Hash-AEAD) call `final`
  repeatedly on one context. They rely on each call continuing the same
  output stream.
* **DRBGs**: ChaCha20 DRNG (`src/drng/src/chacha20_drng.c`), XDRBG
  (`src/unnamed/part_004`) and KMAC DRNG (`src/drng/src/kmac_drng.c`). Each
  offers seed, generate and zero. The XOF-based ones use fast key erasure:
  every generate chunk first overwrites the key with the head of the XOF
  stream, then outputs the bytes after it.
* **Hash-AEAD** (`src/unnamed/part_001`). A keystream drawn from a DRBG in
  blocks, with an HMAC tag.
* **Infrastructure**: the secure memory provider
  (`memory_support_linux.c`) and the constant-time `cmov` helpers
  (`sidechannel_resistantce.h`). Another piece is the CPU feature latch of
  `leancrypto_init.c`: a process-wide static that the first callers of
  `lc_cpu_feature_available` fill from `ID_AA64ISAR0_EL1`. The back-end
  dispatch of the schemes reads it, and a test API can disable, re-enable
  or force it.
* **PQ helpers**: the HQC field arithmetic over GF(2^8) (`src/hqc/src/gf.c`).
  Another helper is the SLH-DSA Merkle tree hash with its WOTS+ chain
  verification (`src/slh-dsa/src/sphincs_utilsx1.h`). These are pure
  functions, but branch-free and index-heavy, and the signature schemes
  build on them.
* **Linux kernel akcipher glue** for the ML-DSA+Ed448 composite
  (`src/linux_kernel/leancrypto_kernel_dilithium_ed448_akcipher.c`). Each
  transform keeps one context, whose secret and public key share a union
  told apart by `key_type`.
* **ML-DSA signature hint encoding** (`src/unnamed/part_011`, the AVX2
  signer and verifier). Every attempt of the signing rejection loop packs
  its hint vector into the caller's signature buffer: OMEGA index bytes and
  K cumulative counts. The verifier unpacks them and rejects any encoding
  but the canonical one (strong unforgeability).

## Modules

| Module | Models | State | Actions |
|---|---|---|---|
| `KeccakSponge` | `keccak_arm_asm_absorb_internal`, `keccak_arm_asm_squeeze_internal` | `hist`/`cur` (the state), `msg_len`, `squeeze_more`, `offset`; history `total`, `out` | `Absorb`, `Squeeze`, `Reinit` |
| `ChaCha20Drng` | `lc_cc20_drng_seed`, `_generate`, `_update`, `_zero` | `key`, `counter[0..3]`; histories `blocks`, `released`, `mixed` | `Seed`, `Generate`, `Zero` |
| `MemoryProvider` | `lc_alloc_aligned`, `lc_alloc_aligned_secure`, `alloc_aligned_secure_internal`, `lc_free_internal` | `have_memfd` (the global flag), `blk[p]` per caller slot, `openfds`; history `releases`; the kernel's behaviour chosen at Init | `AllocAligned(p)`, `AllocSecure(p)`, `Free(p)` |
| `HashAead` | `lc_hc_setkey`, `lc_hc_add_aad`, `lc_hc_encrypt`, `lc_hc_decrypt`, `lc_hc_encrypt_tag`, `lc_hc_decrypt_authenticate`, `lc_hc_zero`, `lc_hc_crypt` | `ectx`/`dctx` (DRBG key and generation, keystream block, `keystream_ptr`, HMAC key and absorbed bytes); the channel `ct`/`recv`; `tag`, `verdict` | `EncSetKey`, `DecSetKey`, `EncAad`, `DecAad`, `Encrypt`, `Decrypt`, `EncFinal`, `DecFinal`, `Zero` |
| `KmacDrng` | `lc_kmac256_drng_seed`, `_seed_nocheck`, `_generate`, `_fke_init_ctx`, `_encode`, `_zero`, `_alloc`, `kmac256_drng_selftest` | `key`, `initially_seeded`, the self-test `status`, `fips140_mod` (the known-answer vector is wrong, as when the library was modified); histories `xofs`, `released` | `Seed` (self-test, gate, seed), `Generate`, `Zero` |
| `FkeDrbg` | the promise of a fast-key-erasure DRBG (no code) | `key` (atoms of the stored key), `seen` (atoms produced), `out` (atoms released) | `Seed`, `Generate`, `Zero` |
| `MlDsaHint` | the hint packing of `lc_dilithium_sign_avx2_internal` and the hint unpacking of `lc_dilithium_verify_avx2_internal` | `sig` (the hint bytes), `signed` (the vector the signer returned), `origin` (signer or attacker), `phase`, `result` | `Sign` (the whole rejection loop), `Verify` |
| `Xdrbg` | `lc_xdrbg_drng_seed_nocheck`, `_generate`, `_fke_init_ctx`, `_encode`, `_zero` | `v`, `seeded`; histories `xofs`, `released` | `Seed`, `Generate`, `Zero` |
| `CpuFeatures` | `lc_cpu_feature_available`, `lc_cpu_feature_disable`, `_enable`, `_set` | `features` (the static, a set of flags), the register `hw`; per caller `pc`, test index `k`, loaded value `tmp`, returned `ret`; `forced`, `testcalls` | `Check`, `StoreBase`, `LoadFeature`, `StoreFeature`, `Return` per caller; the three test calls |
| `KernelAkcipher` | `set_pub_key(_int)`, `set_priv_key(_int)`, `sign`, `verify`, `max_size`, `alg_exit` | `key_type`, the union `ukey`; history `installed` (the key of the last successful setkey), `last` (call and result), `ops` | one action per operation |
| `HqcGf` | `trailing_zero_bits_count`, `gf_reduce`, `gf_carryless_mul`, `gf_mul`, `gf_square`, `gf_inverse` | operators only | |
| `ConstTime` | `cmov`, `cmov_int16`, `cmov_uint32`, `cmov_int` | operators only | |
| `SphincsTree` | `treehashx1`, `gen_chain`, `base_w`, `wots_checksum`, `chain_lengths_c`, `wots_pk_from_sig_c` | operators only | |
| `SelftestGate` | the self-test status macros and `lc_compare_selftest` (outside `src/`, from spec section 4.4) | operators only | |
| `SphincsShakex2` | `prf_addrx2` of the ARMv8 two-way SHAKE256 SLH-DSA hash | operators only | |
| `HqcSelftest` | `hqc_kem_keygen_selftest`, `hqc_kem_enc_selftest`, `hqc_kem_dec_selftest` and their KAT bodies | operators only | |
| `PqHelpers` | the harness of the operator modules | `call` (the call, its inputs and its result) | `GfMul`, `GfSquare`, `GfInverse`, `Cmov`, `CmovInt16`, `CmovUint32`, `Treehash`, `WotsPkFromSig`, `PrfAddrx2`, `HqcKeygenSelftest`, `HqcEncSelftest`, `HqcDecSelftest` |

Each `MC*.tla` module extends its spec and defines the small input sets.

### Data abstraction

* **Keccak.** The permutation is taken to be injective. The state is
  represented by the blocks fed to the permutation so far (`hist`) plus the
  bytes XORed in since the last permutation (`cur`). An output byte at
  position `i` is `<<hist, i, cur[i]>>`. The message's k-th byte has the
  value k, so a lost, duplicated or misplaced byte changes the state. The
  asm bulk absorb and squeeze routines are outside `src/`. They are modelled
  from their contract (`AbsorbAsm`, `SqueezeAsm`): squeeze outputs the state
  and permutes between blocks, never after the last one. `padding` is
  a variable fixed at Init from `Paddings` = {0x1f, 0x84}, so both the
  SHAKE byte and a padding byte with its top bit set (which needs the
  extra permutation when it lands on the last rate byte) are reached. No
  caller in the library passes such a padding; the path is kept because
  the code has it.
* **ChaCha20.** The block function is a PRF. Block `(k, c)` is `<<k, c>>` and
  word `w` of it is `<<block, w>>`. A key is the sequence of materials XORed
  into the zero key. Counter words keep their wrap-around, reduced to
  `WORD_BITS` bits: 2 bits instead of 32, so the wrap is reachable.
* **XDRBG.** The XOF is a random oracle. An invocation is identified by its
  input fields in absorb order: V, seed, clamped alpha and encode byte. V is
  "the first KEYSIZE bytes of the output for input `in`". The encode byte is
  computed as the code computes it, modulo 256. `EncodeSeparates` reads it
  back as XDRBG appendix B.2 does (`DecodeByte`: n = byte div 85,
  |alpha| = byte mod 85).
* **KMAC DRNG.** As for XDRBG, with KMACXOF256 as the random oracle. The
  input adds the customization string (seed or generate) and the key: K(N),
  or no key at all (`lc_kmac_init(..., NULL, 0, ...)`) on the initial seed.
  The header comment says the initial key is 512 zero bits; the code uses
  an empty key. The two give different KMAC outputs but the same
  properties, so no run is about it. The self-test is composed in:
  `Seed` runs `kmac256_drng_selftest` on its first call (status `unset`)
  and seeds only if the status is `passed`. The known-answer value
  compared is the KMAC term of the KAT seed, or a different term when
  `fips140_mod` holds, so both verdicts happen.
* **Self-tests.** The status macros are outside `src/`. `SelftestGate`
  takes them from spec section 4.4: a test runs only while its status is
  unset, and every `lc_compare_selftest` records its own verdict. The
  HQC tests rely on this: after a first mismatch they `goto out2` so a
  second, matching comparison does not overwrite `failed`. Known-answer
  values are model values (`HQC_PK`, ...) and a computed value is either
  that value or a wrong one.
* **SLH-DSA two-way PRF.** A 64-bit lane is its 8 little-endian bytes,
  so the shifts and ORs that build the state are modelled by where each
  byte goes. Seed bytes are terms, address words are numbers, and
  Keccak-f is an injective term of its whole input. The reference
  (`RefPrfAddr`) is the single-lane SHAKE256 absorb of
  PK.seed || ADRS || SK.seed with its padding.
* **Refinement.** `FkeDrbg` states what both XOF DRBGs promise, over keys
  and outputs as sets of atoms: seeding stores a key never produced before;
  generating releases atoms never produced before and stores a new key
  disjoint from them; zero forgets everything. `KmacDrng` maps its state
  onto it (key ↦ bytes of K(N), seen ↦ bytes of every key derived plus
  released bytes, out ↦ released bytes) and checks
  `ImplementsFkeDrbg == Abstract!Spec` as a PROPERTY. For XDRBG the same
  mapping adds nothing over `XofInputsUnique` and `KeyNeverReleased`, which
  the xdrbg run checks directly.
* **Hash-AEAD.** DRBG block n after seeding with key K is `<<K, n>>`:
  block 0 is the HMAC key, later blocks are keystream. A byte is the
  plaintext position it carries plus the set of keystream bytes XORed into
  it, so XOR toggles membership and the right keystream byte undoes it. The
  buffer after alloc or zero is all zero, and XOR with it is the identity.
  A tag byte is `<<hmac key, absorbed bytes, index>>`. An attacker may mark
  any AAD, ciphertext or tag byte as altered on its way to the decryptor.
  With `Reframe` the attacker may also hand the decryptor the first
  `moved` ciphertext bytes as AAD, keeping the tag. The decryptor then
  reads the ciphertext from byte `moved + 1` on.
  The one-shot calls are `add_aad`, `encrypt`/`decrypt` and the tag call in
  sequence, so the streamed actions cover them.
* **ML-DSA hints.** A byte ranges over `0..N-1`: in the code N = 256 is
  both the coefficient count and the byte range. A hint vector is a set of
  coefficient indices per row; `poly_make_hint_avx` lists them in
  increasing order (`SetToSortSeq`). The arithmetic that computes the hints
  and the norm checks are abstracted: an attempt chooses its hint vector
  and the row at which a norm check rejects it, if any. The signer starts
  from a caller buffer with leftover bytes; the attacker path starts from
  any hint area.
* **Memory.** A block is its kind (heap or memfd) in the caller's slot. The
  kernel is fixed per run. Either memfd_secret always works, or the syscall
  is missing, or any of memfd_secret, ftruncate and mmap may fail (as when
  secret memory exceeds RLIMIT_MEMLOCK). Syscall outcomes are chosen
  nondeterministically.

* **CPU features.** A feature mask is the set of flags it holds, and
  `LC_CPU_FEATURE_UNSET` is the empty set. The register is given by its
  4-bit fields (AES, SHA1, SHA2, SHA3), and a register value is the set of
  its set bit positions, so `val & MASK` is an intersection. The masks keep
  the code's bits. On Apple (`os = "apple"`) the register is the OR of the
  masks of the `sysctlbyname` queries that answer 1 (`AppleQueries`, in
  the code's order). A failed query adds nothing. `features |= f` is a read-modify-write on a plain
  static, so it is two steps: `LoadFeature` reads `features` into `tmp`,
  and `StoreFeature` writes `tmp` with the flag added. Every other
  statement that writes `features` is a step of its own.
  `Advertised(h)` is the Arm ARM meaning of the field values, and
  `Decode(h)` is what one undisturbed detection stores.
* **Kernel akcipher.** Keys are records `[kind, type, id]`, and a
  signature is `[by, type]`. A key blob that fails to load may leave the
  union untouched or partly written (`Partial`). The type then read from
  the union may be any type. Sign and verify are pure verdicts on the
  union's key. Their allocation and RNG failures are boolean inputs.
* **HQC GF(2^8).** Values are naturals and the C operators are Bitwise
  operators. The 64-bit and 32-bit intermediates stay below 2^15 for
  `M = 8`, so no wrap is lost, and the module says so where the code
  narrows. The branch-free select `1 - ((t | -t) >> 31)` is the sign bit
  of `t - i` or `i - t`.
* **Constant-time moves.** A signed C value is carried as its
  two's-complement pattern. A 32-bit word is a pair of 16-bit limbs,
  because TLC's integers are 32-bit signed. The volatile
  `optimization_blocker_int8` is the constant `OPT_BLOCKER`, 0 as in the
  library.
* **SLH-DSA.** A hash is an injective term: a leaf is `<<"L", index>>`, a
  tree node is `<<"H", height, index, left, right>>`, and a chain step is
  `<<"F", chain, position, input>>`. So two results are equal exactly when
  everything hashed, the address included, is equal. A buffer nobody
  wrote holds `Garbage`. `gen_leaf` and `gen_chain` failures are inputs
  (`fail_leaf`, `fail_chain`). The WOTS+ signer is in another file: the
  harness defines the secret chain start, the public key and the
  signature from the scheme's definition, and `Forge(m, m2)` is what an
  attacker holding a signature of `m` can compute for `m2`.

Each handler is one action, its whole body. Loops (absorb bulk, squeeze
blocks, ChaCha20 seed chunks, generate blocks, XDRBG chunks) are RECURSIVE
operators evaluated inside the action.

## Runs

| Run | cfg | Expect | What it shows |
|---|---|---|---|
| `sponge` | `MCKeccakSponge.cfg` | pass | `AbsorbMatchesOneShot`: after any split of a message into updates, the state equals a one-shot absorb. `SqueezeMatchesOneShot`: the concatenated output of any sequence of final calls is a prefix of the one-shot XOF stream. |
| `chacha20_drng` | `MCChaCha20Drng.cfg` | pass | `KeystreamUnique`: no `(key, counter)` pair is used twice between zeroisations, though `counter[0]` wraps across calls. `KeyNotFromReleased`: no word handed to a caller is mixed back into the key. That includes the partly released word of a tail block. |
| `memory_flag_flip` | `MCMemoryProviderFlagFlip.cfg` | violation | Code bug. Block A is allocated by memfd_secret; a later allocation fails and clears the global flag (line 131). Freeing A then calls `free()` on mmap'd memory and leaks its descriptor (line 173). |
| `hash_aead` | `MCHashAead.cfg` | pass | With the key set first and no boundary shift (`Reframe = FALSE`): `RoundTrip` (the decryptor gets every unaltered byte back however both sides split the data), `KeystreamNeverReused` (no keystream byte masks two ciphertext bytes), `NoPlaintextLeak` (every ciphertext byte is masked by the seeded DRBG's keystream), `Authenticity` (the final accepts only if AAD and the whole ciphertext arrived unaltered). |
| `xdrbg` | `MCXdrbg.cfg` | pass | `XofInputsUnique`: instantiate, reseed and every generate chunk each absorb a distinct input, so no output stream repeats. `KeyNeverReleased`: no byte of the stored V was ever output (backtracking resistance). `EncodeSeparates`: the encode byte of every XOF input absorbed (alpha lengths 0, 84 and 85) decodes to the number of alpha bytes absorbed, to a use n in 0..2, and to n = 0 exactly for the instantiation. |
| `mldsa_hint` | `MCMlDsaHint.cfg` | pass | `SignedHintVerifies`: whatever hints rejected attempts and the caller's buffer left behind, the verifier accepts the signer's hint area and decodes exactly the vector of the accepted attempt. `CanonicalEncoding`: every hint area the verifier accepts, including any an attacker writes, is the signer's packing of the vector it decodes. `TypeOK` includes that every byte stays a byte. The run ends after one verification (`CHECK_DEADLOCK FALSE`). |
| `kmac_drng` | `MCKmacDrng.cfg` | pass | `KmacInputsUnique`: initial seed, reseed and every generate chunk each key KMAC with a distinct input. `ImplementsFkeDrbg`: the KMAC DRNG refines the abstract fast-key-erasure DRBG. `SelftestVerdictCorrect`: the latched verdict is `passed` exactly when the known-answer vector matches. |
| `pq_helpers` | `MCPqHelpers.cfg` | pass | Each state is one helper call on inputs from small sets, judged against a reference. `GfMulCorrect` and `GfInverseCorrect`: `gf_mul`, `gf_square` and `gf_inverse` equal polynomial multiplication modulo x^8+x^4+x^3+x^2+1, and the inverse of 0 is 0. `CmovSelects`: the three moves used in the library pick exactly the source or the destination, for every sign pattern. `TreehashMatchesMerkle`: for every leaf of trees of height 0..3 at offsets 0 and 2^h, the root and the authentication path are the Merkle nodes at their global addresses; a failing leaf returns an error. `WotsVerifiesExactly`: when every chain completes, a signature carried forward to any other one-byte message never reproduces the public key. (A failed chain returns 0 with unwritten entries; whether that could pass depends on the caller's buffer, so the property leaves it out.) `PrfAddrx2MatchesPrfAddr`: for N = 16, 24, 32 and two address pairs, each half of `prf_addrx2`'s hand-filled two-way state gives the single-lane PRF of its own address. `HqcSelftestVerdict`: each HQC self-test latches `passed` exactly when every value it checks matches the vector, whatever the second value is after a first mismatch. `TypeOK`: field results are bytes. The run ends after the call (`CHECK_DEADLOCK FALSE`). |
| `cpu_features` | `MCCpuFeatures.cfg` | pass | Two first callers and one test API call, on four CPUs: no crypto extensions, AES and SHA256, AES+PMULL, and AES+PMULL with SHA512 and SHA3. `NoPhantomFeature`: no interleaving makes the cache or a returned value claim a feature that the CPU lacks and no test forced. Every behaviour ends with both callers done (`CHECK_DEADLOCK FALSE`). |
| `kernel_akcipher` | `MCKernelAkcipher.cfg` | pass | Up to four calls on one transform of ML-DSA-65, with keys of two ids and of types 44 and 65. `SuccessUsesInstalledKey`: a sign or verify that returns 0 used the key of the last setkey that returned 0, of the right kind and of the transform's algorithm. It holds even when later setkey calls failed, loaded a foreign key, or partly overwrote the union. Behaviours end at the call bound (`CHECK_DEADLOCK FALSE`). |
| `cpu_feature_masks` | `MCCpuFeaturesMasks.cfg` | violation | Code bug. One caller on the registers with AES and SHA1 fields at 0 or 1. TLC's trace: aes 0, sha1 1, sha2 0, sha3 0, and the caller returns `ARM_AES`, because `ARM8_AES_FEATURE = 0x11 << 4` (`leancrypto_init.c:106`) also tests bit 8, the low bit of the SHA1 field. A dispatcher would then run AES instructions the CPU lacks. |
| `hash_aead_reframe` | `MCHashAeadReframe.cfg` | violation | Code bug. The tag is an HMAC of `aad || ct` with no lengths (`part_001:336`). TLC's trace: the encryptor sends one ciphertext byte with empty AAD. The attacker hands that byte to the decryptor as AAD and sends an empty ciphertext under the same tag. The final returns success, and `Authenticity` fails. Spec §8 says any change of ciphertext or AAD makes decryption fail. |

Every property of a passing run has a mutant in `PROJECT.json`: a plausible
bug in the mapped code that TLC finds under the run's cfg.

| Property | Mutant |
|---|---|
| `AbsorbMatchesOneShot` | `<=` instead of `<` in the partial-block test |
| `SqueezeMatchesOneShot` | Reads the live `squeeze_more` instead of the snapshot |
| `KeystreamUnique` | The tail block does not advance the counter |
| `KeyNotFromReleased` | The tail word count rounds down |
| `XofInputsUnique` | V is not written back |
| `RoundTrip` | The chunk is not clamped to the keystream left in the block |
| `KeystreamNeverReused` | Refresh resets the pointer but keeps the old block |
| `NoPlaintextLeak` | The XOR is applied to the input, the output keeps the copy |
| `Authenticity` | The tag comparison result is inverted |
| `KeyNeverReleased` | Chunk output starts at stream byte 0 |
| `EncodeSeparates` | Alpha is clamped at 85 bytes instead of 84 |
| `KmacInputsUnique` | K(N+1) is squeezed into a local copy |
| `ImplementsFkeDrbg` (KMAC) | Chunk output starts at KMAC output byte 0 |
| `TypeOK` (KMAC) | Zero leaves the key in place |
| `TypeOK` (ML-DSA) | The `pos + n > OMEGA` rejection is dropped |
| `SignedHintVerifies` | Only the first attempt clears the index bytes |
| `CanonicalEncoding` | The verifier skips the increasing-order check |
| `TypeOK` (PQ) | `gf_reduce` uses a floor instead of a ceiling for the step count |
| `GfMulCorrect` | The top-bit correction of `b` is dropped |
| `GfInverseCorrect` | The addition chain stops one squaring early |
| `CmovSelects` | `cmov_int16` uses `b` as the mask without negating it |
| `TreehashMatchesMerkle` | `internal_idx_offset` is not halved on the way up |
| `WotsVerifiesExactly` | The checksum is not shifted before `ull_to_bytes` |
| `SuccessUsesInstalledKey` | `key_type` is not reset when a load or the type check fails |
| `NoPhantomFeature` | The PMULL mask is one bit too low (bit 4, the AES field) |
| `SelftestVerdictCorrect` | The self-test's seed call drops the KAT seed |
| `PrfAddrx2MatchesPrfAddr` | The two address words of a lane are combined in swapped order |
| `HqcSelftestVerdict` | The keygen KAT compares the secret key after a public-key mismatch |

The violation runs `sponge_zero_squeeze`, `sponge_update_after_final`,
`hash_aead_no_key`, `memory_mlock_fail` and the pass run `memory` of
earlier versions are kept as configurations for reproduction:
`MCKeccakSpongeZeroSqueeze.cfg`, `MCKeccakSpongeUpdateAfterFinal.cfg`,
`MCHashAeadNoKey.cfg`, `MCMemoryProviderMlockFail.cfg` and
`MCMemoryProvider.cfg`. Two more reproduce the hazards left out on
purpose below: `MCHashAeadZeroTag.cfg` (`Authenticity` violated) and
`MCChaCha20DrngLongGenerate.cfg` (`KeystreamUnique` violated). They still behave as described in the hazards of
`PROJECT.json` (the first four and these two find their property violated; the last
passes with `ReleaseMatchesAllocation` and `NoFdLeak`). The project's run
list holds the questions it asks most of the code, and these are listed
as hazards with notes instead.

`MCCpuFeaturesFieldTwo.cfg` reproduces the masks' other bugs: a field at
value 2 loses its base feature (SHA2 = 2 gives no `ARM_SHA2`, since
`ARM8_SHA256_FEATURE` tests bit 12 only, line 102; AES = 2 gives no
`ARM_AES`). `FeaturesMatchHardware` is violated. `MCCpuFeaturesLatchRace.cfg` reproduces the former `cpu_latch_race` run: a lost `ARM_SHA2` flag, `DetectionSettles` violated. It costs only speed, and `NoPhantomFeature` covers its safety side. `MCCpuFeaturesApple.cfg` passes `FeaturesMatchHardware` on the three Apple machines: the `sysctlbyname` masks are exact.

### Bounds

* **Sponge.** `R = 3` and a message of up to 10 bytes. Absorb lengths
  `0..R+1` cover these cases:
  * an empty update;
  * a partial fill;
  * an exact completion of a partial block;
  * more than a block.

  Squeeze lengths `1..R+1` cross the block boundary from every offset. With
  10 bytes the message spans four blocks, so bulk absorb and multi-block
  squeeze both happen.
* **ChaCha20.**
  * `WORD_BITS = 2`, so `counter[0]` wraps after 4 blocks and the nonce
    carries after 4 updates.
  * Generate lengths {3, 32, 33, 64, 100, 128} reach every tail case: no
    tail; tail of at most 8 words (mixed into the key); tail of more than 8
    words (fresh block).
  * Seed lengths {0, 1, 32, 33} reach zero, one and two chunks.
  * `MaxCalls = 4`.
* **XDRBG.**
  * `KEYSIZE = CHUNKSIZE = 2`, with output lengths {1, 2, 5}. Five bytes
    means three chunks.
  * Alpha lengths {0, 84, 85} include the clamp boundary.
  * Seeds include the empty seed.
  * `MaxCalls = 3` is enough to instantiate, reseed and generate in every
    order.

* **Hash-AEAD.** A keystream block of 2 bytes, up to 3 bytes of data in
  calls of 1 to 3 bytes (so a call straddles a block and both sides refresh
  at different calls), AAD of 0 or 1 byte, digest size 2 and tag lengths
  {1, 2, 3}: truncated, full, and above the digest size (`EINVAL`).

* **KMAC DRNG.** `KEYSIZE = 2`, `MAX_CHUNK = 4` (two output bytes per
  chunk), the same seeds, lengths and call bound as XDRBG.

* **ML-DSA hints.** `N = 4`, `K = 2`, `OMEGA = 3`: a row can have more
  hints than OMEGA allows, so the overflow rejection happens, and two rows
  make the counts cumulative. Up to two attempts, so a rejected attempt
  can leave hints behind for the accepted one. The caller buffers are all
  zero, all `N-1`, and one with nonzero index bytes and counts above OMEGA.
  The attacker path enumerates all 4^5 hint areas.

* **PQ helpers.** Field operands include 0, 1, the field generator, the
  elements with the top bit set (the separate correction in
  `gf_carryless_mul`), and 255. Trees of height 0 to 3 reach every
  combination of push, combine and auth pick for every leaf index; offset
  trees make the address shift matter. WOTS+ with `LOGW = 4`, `LEN1 = 2`,
  `LEN2 = 3` is the checksum arithmetic of the real parameters on one-byte
  messages, and every one of the 256 claimed messages is tried against
  seven signed ones.
* **CPU features.** Two callers are enough for a lost update (the race
  takes two writers). Three Apple machines are checked: an M1 without SHA3,
  one with all five features, and one whose FEAT_SHA256 query fails. One test call lets a forced or cleared value
  interleave with a running detection.
* **Self-tests.** `KAT_OUTLEN = 2` bytes of KMAC output, with and without
  `fips140_mod`, so both the passed and the failed latch occur, and a
  seed after zero meets an already latched status. Each HQC test gets
  every combination of right and wrong values.
* **prf_addrx2.** All three SLH-DSA values of N (16, 24, 32), so the
  address, secret-seed and padding lanes move with N, and two address
  pairs: one with small distinct words and one whose words use both
  16-bit halves, so a swapped or shifted word is seen.
* **Kernel akcipher.** Four calls are enough for: set a good key, set a
  failing or foreign one, and then sign or verify.

* **Memory.** Three caller slots. One block can be live while another
  allocation fails, and a slot can be reused after free.

Only `CpuFeatures` assumes fairness: weak fairness of each caller's step.
`lc_cpu_feature_available` is straight-line code with no lock or wait, so a
scheduled thread finishes it. The test thread may stop calling at any time,
so it gets no fairness. The fairness serves `DetectionSettles`, violated in
the reproduction `MCCpuFeaturesLatchRace.cfg`. The `cpu_features` run
checks only invariants: that every caller returns follows from the shape of
straight-line code and is not stated as a property. The other models are
sequential, caller-driven APIs whose properties are about safety; the KMAC
refinement `ImplementsFkeDrbg` is checked without fairness. (The memory
provider's flag is also a data race between threads, but one sequential
order already shows its bug.) Deadlock is checked except where every
behaviour ends by design: `mldsa_hint` (one signature), `pq_helpers` (one
call), `kernel_akcipher` (the call bound) and the CPU runs (callers done).

## Not modelled

`PROJECT.json` lists every component with its status.

* Hash-AEAD: the silent return on a failed keystream refresh, and the
  failed hash init of the XDRBG. Spec §4.9 makes generate infallible after
  a successful seed, so these paths are unreachable. Re-keying in the
  middle of a session is not modelled either.
* The per-call back-end dispatch of the schemes (`part_011`, `part_007`).
* `lc_init`: it only calls the `*_fastest_impl` selectors.
* The ChaCha20 DRNG self-test is not composed into `ChaCha20Drng`: its
  known-answer value is a fixed block of the PRF, which cannot differ in
  the model, so its failure path would never be taken. The other
  primitives' self-tests follow the same pattern as the HQC and KMAC
  ones and are not modelled one by one.
* `cmov_int` is modelled (`ConstTime`) but not run, because nothing in `src/`
  calls it. Its condition is a `uint16_t`, so the mask promoted to `int` is
  `0x0000FFFF` and only the low 16 bits move: `cmov_int(-1, 0, 1)` is
  -65536.

Left out on purpose: `lc_hc_decrypt_authenticate` accepts `taglen = 0`
(`part_001:418`), comparing zero bytes, so any altered data verifies. TLC
finds `Authenticity` violated with tag lengths {0}. No run is kept for it,
because the tag length is the caller's choice.

Also left out on purpose: the counter wrap of ChaCha20 within one generate
call longer than 2^32 blocks (`chacha20_drng.c:174`, against the comment at
lines 151-157). TLC finds it with `WORD_BITS = 2` and a 320-byte request,
but in the code it takes a single 256 GiB request, so no run is kept for it
and the pass run keeps each request below 2^WORD_BITS blocks.

These are out of reach:

* **Testers:** drivers only.
* **Kernel glue:** the SHA-256 shash glue, which only adapts the hash API.
* **ML-KEM and the ARMv8 polynomial kernels:** vector arithmetic on fixed
  arrays, with no control beyond counted loops. The ML-KEM C wrappers in
  `src/` only forward to code outside it (`barrett_reduce` included).
* **Kernel akcipher algorithm structures:** static tables of callbacks.
