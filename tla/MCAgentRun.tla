----------------------------- MODULE MCAgentRun -----------------------------
(***************************************************************************)
(* The extraction workflow in its two forms, side by side.  AgentRun: two  *)
(* documents that are resumed, one of them extracted badly, and an         *)
(* unparsed one that always starts afresh.  AgentLoop: the same documents. *)
(* They share nothing: the first state picks one of them.                  *)
(***************************************************************************)
EXTENDS AgentRun, AgentLoop

CONSTANTS d1, d2, d3

ThreeDocs == {d1, d2, d3}
OnlyFirstValid ==
    [d \in ThreeDocs |-> CASE d = d1 -> "valid" [] d = d2 -> "invalid" [] d = d3 -> "unparsed"]
ThirdCold == [d \in ThreeDocs |-> d # d3]

VARIABLE lab    \* the part that runs

labVars == <<lab, vars, loopVars>>

LabTypeOK == TypeOK /\ LoopTypeOK

LabInit ==
    /\ lab \in {"run", "loop"}
    /\ Init /\ LoopInit
    /\ lab # "loop" => runner = "pipeline"

LabNext ==
    /\ UNCHANGED lab
    /\ \/ lab = "run" /\ Next /\ UNCHANGED loopVars
       \/ lab = "loop" /\ LoopNext /\ UNCHANGED vars

LabSpec ==
    /\ LabInit /\ [][LabNext]_labVars
    /\ WF_vars(lab = "run" /\ Proceed)
    /\ \A d \in Doc : Resume[d] => SF_vars(lab = "run" /\ Start(d))

\* Every document that AgentRun resumes is stored or rejected in the end.
ResumedDocumentsSettle == lab = "run" => EveryDocumentSettles
=============================================================================
