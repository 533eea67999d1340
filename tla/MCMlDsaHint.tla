------------------------------ MODULE MCMlDsaHint ------------------------------
(* Four coefficients per row, two rows and at most three hints, so hints  *)
(* fill the area, split over rows, and overflow it.  The caller's buffer  *)
(* holds zeros, all-ones bytes or a previous signature's hint area.       *)
EXTENDS MlDsaHint

MCGarbage ==
  { [j \in HintIdx |-> 0],
    [j \in HintIdx |-> N - 1],
    [j \in HintIdx |-> IF j < OMEGA THEN j + 1 ELSE OMEGA] }
=============================================================================
