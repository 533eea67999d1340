------------------------------ MODULE HqcSelftest ------------------------------
(***************************************************************************)
(* The HQC known-answer tests of src/hqc/src/hqc_selftest.c: key          *)
(* generation, encapsulation and decapsulation, each run under its own    *)
(* algorithm status.                                                       *)
(*                                                                         *)
(* Data abstraction.  The keypair, enc and dec implementations are passed *)
(* in as function pointers; what the tests see of them is the value each *)
(* computes from the test vector, here the vector's own value when the   *)
(* implementation is right (HQC_PK, HQC_SK, HQC_CT, HQC_SS) and a        *)
(* different one when it is not.  The self-test RNG seeded from the      *)
(* vector, the workspace and the unpoisoning do not change the outcome.  *)
(***************************************************************************)
EXTENDS SelftestGate

HQC_PK == "pk"
HQC_SK == "sk"
HQC_CT == "ct"
HQC_SS == "ss"

(* Mutation: no goto out2 after a public-key mismatch; the secret-key     *)
(* comparison runs and its result replaces the first one.                 *)
HqcKeygenKatNoSkip(pk, sk) == CompareSelftest(sk, HQC_SK)

(* _hqc_kem_keygen_selftest: compare the public key; on a mismatch jump   *)
(* to out2, past the secret-key comparison; otherwise compare the secret *)
(* key.  The int it returns is never assigned and its caller drops it.   *)
HqcKeygenKat(pk, sk) ==
  LET s1 == CompareSelftest(pk, HQC_PK)
  IN  IF s1 = "failed" THEN s1 ELSE CompareSelftest(sk, HQC_SK)

(* _hqc_kem_enc_selftest: the same two-step comparison for the           *)
(* ciphertext and the shared secret of an encapsulation to the vector's  *)
(* public key, after the RNG skipped the bytes the keygen drew.          *)
HqcEncKat(ct, ss) ==
  LET s1 == CompareSelftest(ct, HQC_CT)
  IN  IF s1 = "failed" THEN s1 ELSE CompareSelftest(ss, HQC_SS)

(* hqc_kem_keygen_selftest / hqc_kem_enc_selftest / hqc_kem_dec_selftest: *)
(* LC_SELFTEST_RUN on the test's status, then the test; the new status.  *)
hqc_kem_keygen_selftest(st, pk, sk) ==
  IF SelftestRun(st) THEN HqcKeygenKat(pk, sk) ELSE st
hqc_kem_enc_selftest(st, ct, ss) ==
  IF SelftestRun(st) THEN HqcEncKat(ct, ss) ELSE st
hqc_kem_dec_selftest(st, ss) ==
  IF SelftestRun(st) THEN CompareSelftest(ss, HQC_SS) ELSE st

=============================================================================
