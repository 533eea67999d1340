---------------------------- MODULE KernelAkcipher ----------------------------
(***************************************************************************)
(* The Linux kernel akcipher glue of the ML-DSA + Ed448 composite          *)
(* signature, src/linux_kernel/leancrypto_kernel_dilithium_ed448_akcipher.c. *)
(* One transform of a registered algorithm (44, 65 or 87) owns a context  *)
(* whose secret and public key share a union, told apart by key_type.     *)
(* setkey, sign, verify, max_size and exit are the operations; each is    *)
(* one step, as the crypto API serialises calls on one transform's key.   *)
(*                                                                         *)
(* Keys are records [kind, type, id]; a signature is [by, type].  A blob  *)
(* that fails to load may leave the union untouched or partly written,   *)
(* and the union's type field then reads as any type.                     *)
(***************************************************************************)
EXTENDS Integers

CONSTANTS
  Types,      \* lc_dilithium_type values: the registered algorithms
  TfmType,    \* the algorithm this transform was allocated for
  Ids,        \* key pairs
  SigSize(_), \* lc_dilithium_ed448_sig_size(type); 0 for "none"
  MaxOps      \* bound on the number of calls

VARIABLES
  key_type,   \* ctx->key_type
  ukey,       \* the union ctx->sk / ctx->pk
  installed,  \* the key of the last setkey that returned 0, if still in place
  last,       \* the last call and its result
  ops         \* calls made

vars == <<key_type, ukey, installed, last, ops>>

(* The negated errno values the glue returns; ESIGN stands for any error *)
(* of lc_dilithium_ed448_sign_final.                                      *)
EINVAL == -22  ENOMEM == -12  EOPNOTSUPP == -95  EBADMSG == -74  ESIGN == -1

Keys    == [kind : {"sk", "pk"}, type : Types, id : Ids]
Partial == [kind : {"partial"}, type : Types, id : {"none"}]
Zero    == [kind |-> "zero", type |-> "none", id |-> "none"]
Invalid == [kind |-> "invalid", type |-> "none", id |-> "none"]
NoKey   == [kind |-> "none", type |-> "none", id |-> "none"]
Blobs   == Keys \cup {Invalid}
Sigs    == [by : Ids, type : Types]

Init ==
  /\ key_type = "unset"        \* the context is zeroed at allocation
  /\ ukey = Zero
  /\ installed = NoKey
  /\ last = [op |-> "none"]
  /\ ops = 0

Call(rec) == /\ last' = rec /\ ops' = ops + 1

-----------------------------------------------------------------------------
(* set_pub_key_int / set_priv_key_int: a key shorter than the Ed448 part  *)
(* is refused before anything changes; otherwise key_type is cleared, the *)
(* blob loaded into the union, and key_type set only for a key of the     *)
(* transform's type.                                                      *)
Loads(kind, blob) == blob.kind = kind

LoadedUnion(kind, blob) ==
  IF Loads(kind, blob) THEN {blob} ELSE {ukey} \cup Partial

(* Mutation: key_type is left as it was when the load or the type check  *)
(* fails.                                                                  *)
SetKeyIntNoReset(kind, blob, keylen_ok, type) ==
  IF ~keylen_ok
  THEN /\ Call([op |-> kind, ret |-> EINVAL])
       /\ UNCHANGED <<key_type, ukey, installed>>
  ELSE \E u \in LoadedUnion(kind, blob) :
         LET ret == IF ~Loads(kind, blob) THEN EINVAL
                    ELSE IF blob.type # type THEN EOPNOTSUPP ELSE 0
         IN  /\ ukey' = u
             /\ key_type' = IF ret = 0 THEN kind ELSE key_type
             /\ installed' = IF ret = 0 THEN blob ELSE NoKey
             /\ Call([op |-> kind, ret |-> ret])

SetKeyInt(kind, blob, keylen_ok, type) ==
  IF ~keylen_ok
  THEN /\ Call([op |-> kind, ret |-> EINVAL])
       /\ UNCHANGED <<key_type, ukey, installed>>
  ELSE \E u \in LoadedUnion(kind, blob) :
         LET ret == IF ~Loads(kind, blob) THEN EINVAL
                    ELSE IF blob.type # type THEN EOPNOTSUPP ELSE 0
         IN  /\ ukey' = u
             /\ key_type' = IF ret = 0 THEN kind ELSE "unset"
             /\ installed' = IF ret = 0 THEN blob ELSE NoKey
             /\ Call([op |-> kind, ret |-> ret])

(* The per-algorithm set_pub_key / set_priv_key pass the registered type. *)
lc_kernel_dilithium_ed448_set_pub_key(blob, keylen_ok) ==
  SetKeyInt("pk", blob, keylen_ok, TfmType)
lc_kernel_dilithium_ed448_set_priv_key(blob, keylen_ok) ==
  SetKeyInt("sk", blob, keylen_ok, TfmType)

(* sign: key_type must be sk and dst_len the signature size of the key's  *)
(* type; then kmalloc, the signing itself (which draws from the seeded    *)
(* RNG and may fail), and the copy of both signature parts.               *)
lc_kernel_dilithium_ed448_sign(dst_type, kmalloc_ok, final_ok) ==
  LET ret == IF key_type # "sk" THEN EINVAL
             ELSE IF SigSize(dst_type) # SigSize(ukey.type) THEN EINVAL
             ELSE IF ~kmalloc_ok THEN ENOMEM
             ELSE IF ~final_ok THEN ESIGN
             ELSE 0
  IN  /\ Call([op |-> "sign", ret |-> ret, key |-> ukey])
      /\ UNCHANGED <<key_type, ukey, installed>>

(* verify: key_type must be pk and src at least one signature of the key's *)
(* type long; the signature is read as one of that type, and verification *)
(* accepts exactly a signature by the matching secret key of that type.   *)
lc_kernel_dilithium_ed448_verify(sig, src_long_enough, kmalloc_ok) ==
  LET ret == IF key_type # "pk" THEN EINVAL
             ELSE IF ~src_long_enough THEN EINVAL
             ELSE IF ~kmalloc_ok THEN ENOMEM
             ELSE IF sig = [by |-> ukey.id, type |-> ukey.type] THEN 0
             ELSE EBADMSG
  IN  /\ Call([op |-> "verify", ret |-> ret, key |-> ukey, sig |-> sig])
      /\ UNCHANGED <<key_type, ukey, installed>>

(* max_size: the signature size of the installed key's type, else 0.     *)
lc_kernel_dilithium_ed448_max_size ==
  /\ Call([op |-> "max_size",
           ret |-> IF key_type \in {"sk", "pk"} THEN SigSize(ukey.type) ELSE 0])
  /\ UNCHANGED <<key_type, ukey, installed>>

(* alg_exit: the key is forgotten (the union keeps its bytes).            *)
lc_kernel_dilithium_ed448_alg_exit ==
  /\ key_type' = "unset"
  /\ installed' = NoKey
  /\ Call([op |-> "exit"])
  /\ UNCHANGED ukey

Next ==
  /\ ops < MaxOps
  /\ \/ \E blob \in Blobs, ok \in BOOLEAN :
          \/ lc_kernel_dilithium_ed448_set_pub_key(blob, ok)
          \/ lc_kernel_dilithium_ed448_set_priv_key(blob, ok)
     \/ \E t \in Types, km, fin \in BOOLEAN :
          lc_kernel_dilithium_ed448_sign(t, km, fin)
     \/ \E sig \in Sigs, long, km \in BOOLEAN :
          lc_kernel_dilithium_ed448_verify(sig, long, km)
     \/ lc_kernel_dilithium_ed448_max_size
     \/ lc_kernel_dilithium_ed448_alg_exit

Spec == Init /\ [][Next]_vars

-----------------------------------------------------------------------------
(* A sign or verify that returns 0 ran on the very key whose setkey last  *)
(* returned 0, of the kind the operation needs and of the transform's    *)
(* algorithm, even after later setkey calls failed, loaded a key of      *)
(* another algorithm, or overwrote part of the shared union.              *)
SuccessUsesInstalledKey ==
  last.op \in {"sign", "verify"} /\ last.ret = 0 =>
    /\ last.key = installed
    /\ installed.kind = IF last.op = "sign" THEN "sk" ELSE "pk"
    /\ installed.type = TfmType

=============================================================================
