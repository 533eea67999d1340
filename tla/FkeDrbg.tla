-------------------------------- MODULE FkeDrbg --------------------------------
(***************************************************************************)
(* What a fast-key-erasure DRBG promises, independent of the primitive.   *)
(* The state is the stored key as the set of secret atoms (bytes) it      *)
(* consists of, the empty set for the all-zero key of a fresh or zeroed   *)
(* state.  seen holds every atom the DRBG produced since the last         *)
(* zeroisation (stored keys, intermediate keys, output); out the atoms    *)
(* handed to callers.                                                      *)
(*                                                                         *)
(*  - seeding stores a key never produced before;                          *)
(*  - generating hands out atoms never produced before and stores a key   *)
(*    never produced before and distinct from that output, so a captured  *)
(*    state reveals nothing that was output (backtracking resistance);    *)
(*  - zeroisation returns to the zero key and forgets everything.          *)
(* Generating does not require a seed: the code of both XOF DRBGs runs   *)
(* from the zero key.                                                      *)
(***************************************************************************)
VARIABLES
  key,   \* atoms of the stored key, {} for the zero key
  seen,  \* atoms produced since the last zeroisation
  out    \* atoms handed to callers since the last zeroisation

absvars == <<key, seen, out>>

Fresh(atoms) == atoms \cap seen = {}

Init ==
  /\ key = {}
  /\ seen = {}
  /\ out = {}

Seed ==
  /\ key' # {}
  /\ Fresh(key')
  /\ out' = out
  /\ seen \cup key' \subseteq seen'

Generate ==
  /\ out \subseteq out'
  /\ LET new == out' \ out
     IN  /\ Fresh(new)
         /\ key' # {}
         /\ Fresh(key')
         /\ key' \cap new = {}
         /\ seen \cup key' \cup new \subseteq seen'

Zero ==
  /\ key' = {}
  /\ seen' = {}
  /\ out' = {}

Next == Seed \/ Generate \/ Zero

Spec == Init /\ [][Next]_absvars

================================================================================
