------------------------------- MODULE MlDsaHint -------------------------------
(***************************************************************************)
(* The hint part of an ML-DSA signature as the AVX2 back-end of           *)
(* src/unnamed/part_011 writes and reads it: the packing at the end of    *)
(* each attempt of the rejection loop of lc_dilithium_sign_avx2_internal, *)
(* and the unpacking with its strong-unforgeability checks in             *)
(* lc_dilithium_verify_avx2_internal.                                      *)
(*                                                                         *)
(* The hint area is OMEGA index bytes followed by K cumulative counts.   *)
(* A hint vector h gives, per row, the set of coefficients whose hint    *)
(* bit is set; poly_make_hint_avx lists them in increasing order.  The   *)
(* polynomial arithmetic that decides h, and the norm checks that reject  *)
(* an attempt, are outside the model: each attempt chooses h and the row  *)
(* at which a norm check rejects, if any.  A byte is 0 .. N-1: in the     *)
(* code N = 256, the coefficient count, is also the byte range.           *)
(***************************************************************************)
EXTENDS Naturals, FiniteSets, SequencesExt

CONSTANTS
  N,            \* LC_DILITHIUM_N, coefficients per polynomial (= byte range)
  K,            \* LC_DILITHIUM_K, rows of the hint vector
  OMEGA,        \* LC_DILITHIUM_OMEGA, maximum number of hint bits
  MaxAttempts,  \* bound on the iterations of the rejection loop
  Garbage       \* contents of the caller's signature buffer before signing

ASSUME OMEGA < N

Byte == 0 .. N - 1
HintIdx == 0 .. OMEGA + K - 1
HintVec == [0 .. K - 1 -> SUBSET (0 .. N - 1)]

\* one attempt: the hint vector it computes and the row whose norm check
\* (z, r0 or ct0) rejects it, K when none does
Attempt == [h : HintVec, normrej : 0 .. K]

VARIABLES
  sig,     \* the hint bytes of sig->sig
  signed,  \* the hint vector of the attempt the signer returned, if any
  origin,  \* who produced the hint bytes: "signer" or "attacker"
  phase,   \* "signing", "sent", "verified"
  result   \* the verifier's decision and decoded hint vector

vars == <<sig, signed, origin, phase, result>>

-----------------------------------------------------------------------------
(* Mutation: the hint count is not bounded by OMEGA.                        *)
FitsUnbounded(pos, n) == TRUE

(* if (pos + n > LC_DILITHIUM_OMEGA) goto rej                               *)
Fits(pos, n) == pos + n <= OMEGA

(* The hint loop of one attempt, rows i .. K-1: a norm rejection or more  *)
(* than OMEGA hints ends the attempt (goto rej) before row i is written;  *)
(* otherwise the indices go to hint[pos ..] and hint[OMEGA + i] = pos.    *)
RECURSIVE HintRows(_, _, _, _)
HintRows(s, pos, a, i) ==
  IF i = K THEN [sig |-> s, ok |-> TRUE]
  ELSE LET idx == SetToSortSeq(a.h[i], <)
           n   == Len(idx)
       IN  IF a.normrej = i \/ ~Fits(pos, n)
             THEN [sig |-> s, ok |-> FALSE]
             ELSE HintRows([j \in HintIdx |->
                              CASE j \in pos .. pos + n - 1 -> idx[j - pos + 1]
                                [] j = OMEGA + i            -> pos + n
                                [] OTHER                    -> s[j]],
                           pos + n, a, i + 1)

(* Mutation: the index bytes are cleared only by the first attempt.       *)
ZeroHintFirstOnly(s, first) ==
  IF first THEN [j \in HintIdx |-> IF j < OMEGA THEN 0 ELSE s[j]] ELSE s

(* memset(hint, 0, LC_DILITHIUM_OMEGA) before the rows of every attempt.  *)
ZeroHint(s, first) ==
  [j \in HintIdx |-> IF j < OMEGA THEN 0 ELSE s[j]]

(* The rejection loop: attempts are tried in order until one passes.      *)
RECURSIVE SignLoop(_, _, _)
SignLoop(s, as, k) ==
  LET r == HintRows(ZeroHint(s, k = 1), 0, as[k], 0)
  IN  IF r.ok \/ k = Len(as) THEN [sig |-> r.sig, ok |-> r.ok, h |-> as[k].h]
      ELSE SignLoop(r.sig, as, k + 1)

(* Mutation: coefficient order is not checked within a row.               *)
OrderedNoCheck(hint, j, pos) == TRUE

(* if (j > pos && hint[j] <= hint[j - 1]) ret = -1                        *)
Ordered(hint, j, pos) == ~(j > pos /\ hint[j] <= hint[j - 1])

(* The index loop of one row: j = pos .. hint[OMEGA + i] - 1.             *)
RECURSIVE RowBits(_, _, _, _)
RowBits(hint, j, pos, hi) ==
  IF j >= hi THEN [ok |-> TRUE, bits |-> {}]
  ELSE IF ~Ordered(hint, j, pos) THEN [ok |-> FALSE, bits |-> {}]
  ELSE LET rest == RowBits(hint, j + 1, pos, hi)
       IN  [ok |-> rest.ok, bits |-> {hint[j]} \cup rest.bits]

(* The row loop of lc_dilithium_verify_avx2_internal, then the check that *)
(* the index bytes after the last hint are zero.                           *)
RECURSIVE UnpackRows(_, _, _, _)
UnpackRows(hint, pos, h, i) ==
  IF i = K
    THEN [ok |-> \A j \in pos .. OMEGA - 1 : hint[j] = 0, h |-> h]
  ELSE IF hint[OMEGA + i] < pos \/ hint[OMEGA + i] > OMEGA
    THEN [ok |-> FALSE, h |-> h]
  ELSE LET r == RowBits(hint, pos, pos, hint[OMEGA + i])
       IN  IF ~r.ok THEN [ok |-> FALSE, h |-> h]
           ELSE UnpackRows(hint, hint[OMEGA + i],
                           [h EXCEPT ![i] = r.bits], i + 1)

Unpack(hint) == UnpackRows(hint, 0, [i \in 0 .. K - 1 |-> {}], 0)

-----------------------------------------------------------------------------
Init ==
  \/ /\ sig \in Garbage
     /\ origin = "signer"
     /\ phase = "signing"
  \/ /\ sig \in [HintIdx -> Byte]
     /\ origin = "attacker"
     /\ phase = "sent"
  /\ signed = [i \in 0 .. K - 1 |-> {}]
  /\ result = [ok |-> FALSE, h |-> [i \in 0 .. K - 1 |-> {}]]

(* lc_dilithium_sign_avx2_internal on the caller's buffer: the attempts  *)
(* of the rejection loop until one passes.  Runs that reject every       *)
(* attempt within the bound are cut off.                                  *)
Sign ==
  /\ phase = "signing"
  /\ \E n \in 1 .. MaxAttempts, as \in [1 .. MaxAttempts -> Attempt] :
       LET r == SignLoop(sig, [k \in 1 .. n |-> as[k]], 1)
       IN  /\ r.ok
           /\ sig' = r.sig
           /\ signed' = r.h
  /\ phase' = "sent"
  /\ UNCHANGED <<origin, result>>

(* lc_dilithium_verify_avx2_internal on the hint bytes.                    *)
Verify ==
  /\ phase = "sent"
  /\ result' = Unpack(sig)
  /\ phase' = "verified"
  /\ UNCHANGED <<sig, signed, origin>>

Next == Sign \/ Verify

Spec == Init /\ [][Next]_vars

-----------------------------------------------------------------------------
TypeOK ==
  /\ sig \in [HintIdx -> Byte]
  /\ phase \in {"signing", "sent", "verified"}
  /\ origin \in {"signer", "attacker"}

(* The hint vector packed by the last attempt of the rejection loop is   *)
(* accepted and read back exactly, whatever earlier rejected attempts or *)
(* the caller's buffer left in the hint bytes.                            *)
SignedHintVerifies ==
  phase = "verified" /\ origin = "signer" =>
    result.ok /\ result.h = signed

(* Strong unforgeability of the encoding: the verifier accepts a hint    *)
(* area only if it is the one the signer's packing produces for the       *)
(* decoded vector, so no second encoding of a hint vector verifies.      *)
CanonicalEncoding ==
  phase = "verified" /\ result.ok =>
    LET p == HintRows([j \in HintIdx |-> 0], 0,
                         [h |-> result.h, normrej |-> K], 0)
       IN  p.ok /\ p.sig = sig

=============================================================================
