------------------------------- MODULE HashAead -------------------------------
(***************************************************************************)
(* The hash-based Encrypt-then-MAC AEAD of src/unnamed/part_001, lc_hc_:   *)
(* an encrypting and a decrypting context that share a key, the           *)
(* ciphertext travelling from one to the other, possibly forged.          *)
(*                                                                         *)
(* Data abstraction.  DRBG output block n after seeding with key K is     *)
(* <<K, n>>; block 0 is the HMAC key, later blocks are keystream.  A byte *)
(* is the plaintext position it carries plus the set of keystream bytes   *)
(* XORed into it (XOR toggles membership), so decryption with the right   *)
(* keystream byte gives back the plaintext byte.  The keystream buffer    *)
(* after alloc or zero is all zero: XOR with it changes nothing.  An     *)
(* HMAC tag byte is <<hmac key, absorbed bytes, index>>.                  *)
(***************************************************************************)
EXTENDS Naturals, Sequences

CONSTANTS
  LC_HC_KEYSTREAM_BLOCK,  \* keystream bytes per DRBG generate call
  DIGEST,                 \* lc_hc_get_tagsize: HMAC digest size
  MaxMsg,                 \* bound on the plaintext bytes of a session
  ChunkLens,              \* lengths one encrypt/decrypt call may pass
  AadLens,                \* lengths of the one AAD buffer
  TagLens,                \* taglen the callers pass to the final calls
  KeyFirst,               \* callers set the key before encrypting or decrypting
  Forgery,                \* an attacker may alter bytes on the way
  Reframe                 \* an attacker may deliver leading ciphertext
                          \* bytes to the decryptor as AAD

KEY == "session key"
ZEROKEY == "zeroed drbg"
ZEROBUF == <<"zero buffer", 0>>

VARIABLES
  ectx,     \* the encrypting lc_hc_cryptor
  dctx,     \* the decrypting lc_hc_cryptor
  aad_e,    \* AAD the encryptor absorbed
  ct,       \* ciphertext bytes sent, in order
  recv,     \* bytes the decryptor received (and absorbed), in order
  pt_out,   \* plaintext the decryptor returned
  tag,      \* tag produced by the encryptor's final, << >> before it
  efinal,   \* the encryptor's final was called
  verdict,  \* result of the decryptor's final: "none", "ok", "bad", "einval"
  moved     \* ciphertext bytes the decryptor was handed as AAD

vars == <<ectx, dctx, aad_e, ct, recv, pt_out, tag, efinal, verdict, moved>>

MinSize(a, b) == IF a < b THEN a ELSE b

(* lc_hc_alloc / lc_hc_zero: zeroed DRBG, keystream and HMAC state.      *)
ZeroCtx == [key |-> ZEROKEY, gen |-> 0, blk |-> ZEROBUF, ptr |-> 0,
            hkey |-> <<ZEROKEY, 0>>, mac |-> << >>]

PtByte(i, forged) == [pt |-> i, masks |-> {}, forged |-> forged]

(* XOR of a byte with keystream byte k.                                   *)
Xor(b, k) ==
  IF k[1] = ZEROBUF THEN b
  ELSE [b EXCEPT !.masks = IF k \in @ THEN @ \ {k} ELSE @ \cup {k}]

(* Mutation: XOR is applied to the input, so out keeps the copied input.  *)
CryptChunkCopyOnly(in, blk, ptr) == in

(* memcpy(out, in, todo); xor_64(out, keystream + keystream_ptr, todo)    *)
CryptChunk(in, blk, ptr) ==
  [i \in 1 .. Len(in) |-> Xor(in[i], <<blk, ptr + i - 1>>)]

(* Mutation: the refresh resets the pointer but keeps the old block.      *)
RefreshKeepBlock(c) == [c EXCEPT !.ptr = 0]

(* lc_rng_generate(drbg, NULL, 0, keystream, LC_HC_KEYSTREAM_BLOCK) and   *)
(* keystream_ptr = 0.                                                     *)
Refresh(c) == [c EXCEPT !.blk = <<c.key, c.gen>>, !.gen = @ + 1, !.ptr = 0]

(* Mutation: the chunk is not limited to the keystream left in the block. *)
ClampNone(todo, ptr) == todo

(* todo = min_size(todo, LC_HC_KEYSTREAM_BLOCK - keystream_ptr)           *)
Clamp(todo, ptr) == MinSize(todo, LC_HC_KEYSTREAM_BLOCK - ptr)

(* lc_hc_crypt(hc, in, out, len): returns the context and the output.     *)
RECURSIVE Crypt(_, _)
Crypt(c, in) ==
  IF in = << >> THEN [ctx |-> c, out |-> << >>]
  ELSE LET c1   == IF c.ptr >= LC_HC_KEYSTREAM_BLOCK THEN Refresh(c) ELSE c
           todo == Clamp(MinSize(Len(in), LC_HC_KEYSTREAM_BLOCK), c1.ptr)
           rest == Crypt([c1 EXCEPT !.ptr = @ + todo],
                         SubSeq(in, todo + 1, Len(in)))
       IN  [ctx |-> rest.ctx,
            out |-> CryptChunk(SubSeq(in, 1, todo), c1.blk, c1.ptr) \o rest.out]

(* lc_hc_setkey_nocheck: seed the DRBG, take block 0 as HMAC key, block 1 *)
(* as the first keystream block.                                          *)
SetKey(c) == [key |-> KEY, gen |-> 2, blk |-> <<KEY, 1>>, ptr |-> 0,
              hkey |-> <<KEY, 0>>, mac |-> << >>]

(* lc_hc_encrypt_tag: the first min(taglen, digest) bytes of the HMAC.     *)
TagOf(c, taglen) == [i \in 1 .. MinSize(taglen, DIGEST) |-> <<c.hkey, c.mac, i>>]

(* Mutation: the comparison result is inverted.                           *)
TagVerdictInverted(calc, received) == IF calc = received THEN "bad" ELSE "ok"

(* lc_memcmp_secure(calctag, taglen, tag, taglen) ? -EBADMSG : 0          *)
TagVerdict(calc, received) == IF calc = received THEN "ok" ELSE "bad"

-----------------------------------------------------------------------------
Init ==
  /\ ectx = ZeroCtx /\ dctx = ZeroCtx
  /\ aad_e = << >> /\ ct = << >> /\ recv = << >> /\ pt_out = << >>
  /\ tag = << >> /\ efinal = FALSE /\ verdict = "none" /\ moved = 0

Keyed(c) == c.key = KEY

EncSetKey ==
  /\ ~Keyed(ectx) /\ ct = << >>
  /\ ectx' = SetKey(ectx)
  /\ UNCHANGED <<dctx, aad_e, ct, recv, pt_out, tag, efinal, verdict, moved>>

DecSetKey ==
  /\ ~Keyed(dctx) /\ recv = << >>
  /\ dctx' = SetKey(dctx)
  /\ UNCHANGED <<ectx, aad_e, ct, recv, pt_out, tag, efinal, verdict, moved>>

(* lc_hc_add_aad as enc_init: AAD goes into the HMAC only.                *)
EncAad ==
  \E n \in AadLens :
    /\ ct = << >> /\ aad_e = << >> /\ ~efinal
    /\ aad_e' = [i \in 1 .. n |-> PtByte(i, FALSE)]
    /\ ectx' = [ectx EXCEPT !.mac = @ \o aad_e']
    /\ UNCHANGED <<dctx, ct, recv, pt_out, tag, efinal, verdict, moved>>

(* lc_hc_add_aad as dec_init, on the AAD as received: n bytes of AAD,     *)
(* followed by the first s ciphertext bytes when the attacker moved the  *)
(* boundary between AAD and ciphertext.                                   *)
DecAad ==
  \E n \in AadLens, forged \in (IF Forgery THEN BOOLEAN ELSE {FALSE}),
    s \in (IF Reframe THEN 0 .. Len(ct) ELSE {0}) :
    /\ recv = << >> /\ dctx.mac = << >> /\ verdict = "none"
    /\ dctx' = [dctx EXCEPT !.mac = @ \o [i \in 1 .. n |-> PtByte(i, forged)]
                                     \o SubSeq(ct, 1, s)]
    /\ moved' = s
    /\ UNCHANGED <<ectx, aad_e, ct, recv, pt_out, tag, efinal, verdict>>

(* lc_hc_encrypt: crypt, then HMAC over the ciphertext.                   *)
Encrypt ==
  \E len \in ChunkLens :
    /\ Len(ct) + len <= MaxMsg /\ ~efinal
    /\ KeyFirst => Keyed(ectx)
    /\ LET r == Crypt(ectx, [i \in 1 .. len |-> PtByte(Len(ct) + i, FALSE)])
       IN  /\ ectx' = [r.ctx EXCEPT !.mac = @ \o r.out]
           /\ ct' = ct \o r.out
    /\ UNCHANGED <<dctx, aad_e, recv, pt_out, tag, efinal, verdict, moved>>

(* lc_hc_decrypt: HMAC over the ciphertext as received, then crypt.       *)
Decrypt ==
  \E len \in ChunkLens, forged \in (IF Forgery THEN BOOLEAN ELSE {FALSE}) :
    /\ moved + Len(recv) + len <= Len(ct) /\ verdict = "none"
    /\ KeyFirst => Keyed(dctx)
    /\ LET in == [i \in 1 .. len |->
                    [ct[moved + Len(recv) + i] EXCEPT !.forged = @ \/ forged]]
           r  == Crypt([dctx EXCEPT !.mac = @ \o in], in)
       IN  /\ dctx' = r.ctx
           /\ recv' = recv \o in
           /\ pt_out' = pt_out \o r.out
    /\ UNCHANGED <<ectx, aad_e, ct, tag, efinal, verdict, moved>>

(* lc_hc_encrypt_tag as enc_final.                                        *)
EncFinal ==
  \E taglen \in TagLens :
    /\ ~efinal
    /\ tag' = TagOf(ectx, taglen)
    /\ efinal' = TRUE
    /\ UNCHANGED <<ectx, dctx, aad_e, ct, recv, pt_out, verdict, moved>>

(* lc_hc_decrypt_authenticate as dec_final, on the tag as received.       *)
DecFinal ==
  \E taglen \in TagLens, forged \in (IF Forgery THEN BOOLEAN ELSE {FALSE}) :
    /\ efinal /\ verdict = "none"
    /\ LET received == IF forged THEN [i \in 1 .. taglen |-> <<<<"forged", 0>>, << >>, i>>]
                       ELSE SubSeq(tag, 1, MinSize(taglen, Len(tag)))
       IN  verdict' = IF taglen > DIGEST THEN "einval"
                      ELSE TagVerdict(TagOf(dctx, taglen), received)
    /\ UNCHANGED <<ectx, dctx, aad_e, ct, recv, pt_out, tag, efinal, moved>>

(* lc_hc_zero on both contexts once the session is over.                  *)
Zero ==
  /\ verdict # "none"
  /\ ectx' = ZeroCtx /\ dctx' = ZeroCtx
  /\ aad_e' = << >> /\ ct' = << >> /\ recv' = << >> /\ pt_out' = << >>
  /\ tag' = << >> /\ efinal' = FALSE /\ verdict' = "none" /\ moved' = 0

Next == EncSetKey \/ DecSetKey \/ EncAad \/ DecAad \/ Encrypt \/ Decrypt
          \/ EncFinal \/ DecFinal \/ Zero

Spec == Init /\ [][Next]_vars

-----------------------------------------------------------------------------
(* Round trip: every byte the decryptor returned for an unaltered         *)
(* ciphertext byte is the plaintext byte, however the two sides split    *)
(* the data over their calls (keystream pointer and refresh of            *)
(* lc_hc_crypt on both sides).                                             *)
RoundTrip ==
  \A i \in 1 .. Len(pt_out) :
    ~recv[i].forged => pt_out[i] = PtByte(i, FALSE)

(* No two-time pad: no keystream byte masks two ciphertext bytes.        *)
KeystreamNeverReused ==
  \A i, j \in 1 .. Len(ct) : i # j => ct[i].masks \cap ct[j].masks = {}

(* Confidentiality: every ciphertext byte is masked by keystream of the  *)
(* seeded DRBG, never sent in the clear (all-zero keystream buffer) nor  *)
(* masked by output of a zeroed DRBG.                                     *)
NoPlaintextLeak ==
  \A i \in 1 .. Len(ct) :
    ct[i].masks # {} /\ \A k \in ct[i].masks : k[1][1] = KEY

(* Authenticity: the decryptor's final accepts only if the AAD and the   *)
(* whole ciphertext arrived unaltered.                                    *)
Authenticity ==
  verdict = "ok" =>
    /\ recv = ct
    /\ \A i \in 1 .. Len(dctx.mac) : ~dctx.mac[i].forged

=============================================================================
