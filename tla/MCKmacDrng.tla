------------------------------ MODULE MCKmacDrng ------------------------------
(* Seeds as sequences of model values, the empty seed included; a         *)
(* personalization and additional input below, at and above the 84-byte  *)
(* clamp; output lengths of one byte, one chunk and three chunks.         *)
EXTENDS KmacDrng

CONSTANTS s1, s2

MCSeeds == {<< >>, <<s1>>, <<s2>>}
MCAlphaLens == {0, 84, 85}
MCOutLens == {1, 2, 5}
=============================================================================
