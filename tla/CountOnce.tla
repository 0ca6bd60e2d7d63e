----------------------------- MODULE CountOnce -----------------------------
(***************************************************************************)
(* What a counter behind a request handler promises: every request either  *)
(* adds exactly one, or its loss is reported.  "Correctness here is not    *)
(* 'nothing was lost' -- it is 'nothing was lost quietly'."                *)
(***************************************************************************)
EXTENDS Naturals

VARIABLES value, reported

Init == value = 0 /\ reported = 0

Count == value' = value + 1 /\ UNCHANGED reported

Report == reported' = reported + 1 /\ UNCHANGED value

Spec == Init /\ [][Count \/ Report]_<<value, reported>>
=============================================================================
