------------------------------ MODULE WorkOnce ------------------------------
(***************************************************************************)
(* What a work queue promises the author of a job handler: however many    *)
(* times a job is handed out, at most one result is kept for it, and a     *)
(* result that was kept is never replaced.                                 *)
(***************************************************************************)
CONSTANTS
    Job,        \* every job identifier
    Worker,     \* whoever may produce a result
    None        \* "no result yet", not a worker

VARIABLE result     \* result[j]: the worker whose result was kept, or None

Init == result = [j \in Job |-> None]

Keep(j, w) ==
    /\ result[j] = None
    /\ result' = [result EXCEPT ![j] = w]

Next == \E j \in Job, w \in Worker : Keep(j, w)

Spec == Init /\ [][Next]_result
=============================================================================
