--------------------------- MODULE MCKeccakSponge ---------------------------
(* Model-checking instance of KeccakSponge: a 3-byte rate so that partial  *)
(* blocks, whole-block bulk absorbs and multi-block squeezes all occur     *)
(* within messages of a few bytes.                                         *)
EXTENDS KeccakSponge

(* The SHAKE suffix 0x1f and a suffix with bit 7 set, for which a message *)
(* ending on the last rate byte needs an extra block.                     *)
MCPaddings == {31, 132}
MCAbsorbLens == 0 .. R + 1
MCSqueezeLens == 1 .. R + 1
MCSqueezeLensWithZero == 0 .. R + 1
=============================================================================
