----------------------------- MODULE SelftestGate -----------------------------
(***************************************************************************)
(* The algorithm-status registry and the self-test macros every primitive *)
(* uses (spec section 4.4): LC_SELFTEST_RUN, lc_compare_selftest and      *)
(* LC_SELFTEST_COMPLETED.  Their code is outside the source tree, so they *)
(* are taken from the specification: a status is unset until the         *)
(* primitive's known-answer test ran; each comparison of the test records *)
(* passed or failed; an entry point proceeds only on passed.              *)
(***************************************************************************)

SelftestStatus == {"unset", "passed", "failed"}

(* LC_SELFTEST_RUN(id): the self-test body runs only while the status is  *)
(* unset, and returns at once otherwise.                                   *)
SelftestRun(st) == st = "unset"

(* lc_compare_selftest(id, act, exp, len, info): records the outcome of   *)
(* one comparison; its non-zero return value is the mismatch.             *)
CompareSelftest(act, exp) == IF act = exp THEN "passed" ELSE "failed"

(* LC_SELFTEST_COMPLETED(id): the entry point goes on only on passed.     *)
SelftestCompleted(st) == st = "passed"

=============================================================================
