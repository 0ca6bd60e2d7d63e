----------------------------- MODULE AgentLoop -----------------------------
(***************************************************************************)
(* The same job by a model-driven loop and by a fixed pipeline:            *)
(* run_agent() and run_pipeline() of agent-workflow-lab/loop_lab.py over   *)
(* the steps of agent.py.  Each system runs the documents again and again  *)
(* (the seeds) against one store, one run at a time.                       *)
(*                                                                         *)
(* Every action has a positive weight in every state, so the model may     *)
(* choose any of them at any step; an action that does not apply only uses *)
(* up a step.  The provider is deterministic: a document is extracted the  *)
(* same way each time.                                                     *)
(***************************************************************************)
EXTENDS Naturals, FiniteSets

CONSTANTS
    LoopDoc,
    LoopQuality,    \* LoopQuality[d]: what extract returns for d
    MaxSteps,       \* MAX_STEPS
    LoopCalls,      \* max_calls of run_agent's Budget
    LoopCost,       \* max_cost, in the unit of the next two
    CallCost,       \* what one extraction costs
    CallEstimate,   \* the argument of budget.check in extract
    NoDoc

ASSUME LoopAssumption ==
    /\ LoopQuality \in [LoopDoc -> {"valid", "invalid", "unparsed"}]
    /\ {MaxSteps, LoopCalls, LoopCost, CallCost, CallEstimate} \subseteq Nat
    /\ NoDoc \notin LoopDoc

VARIABLES
    runner,         \* the system this store belongs to
    loopRun,        \* the run under way, and the state dict of run_agent
    loopBudget,     \* [calls, cost] of its Budget
    storeRows,      \* keys of Store.rows: one per document
    unvalidated,    \* UNVALIDATED_WRITES, by document
    outcomes        \* how runs of each document have ended

loopVars == <<runner, loopRun, loopBudget, storeRows, unvalidated, outcomes>>

Ended == {"stored", "rejected", "finished", "gave-up", "step-limit", "halted"}
NoRun == [doc |-> NoDoc, steps |-> 0, record |-> FALSE, validated |-> FALSE]
NoSpend == [calls |-> 0, cost |-> 0]

LoopTypeOK ==
    /\ runner \in {"pipeline", "agent"}
    /\ loopRun \in [doc : LoopDoc \cup {NoDoc}, steps : 0..MaxSteps,
                record : BOOLEAN, validated : BOOLEAN]
    /\ loopBudget \in [calls : 0..LoopCalls, cost : Nat]
    /\ storeRows \subseteq LoopDoc /\ unvalidated \subseteq LoopDoc
    /\ outcomes \subseteq LoopDoc \X Ended

LoopInit ==
    /\ runner \in {"pipeline", "agent"}
    /\ loopRun = NoRun /\ loopBudget = NoSpend
    /\ storeRows = {} /\ unvalidated = {} /\ outcomes = {}

LoopValid(d) == LoopQuality[d] = "valid"
LoopRunning == loopRun.doc # NoDoc

\* the run returns
LoopEnds(outcome) ==
    /\ outcomes' = outcomes \cup {<<loopRun.doc, outcome>>}
    /\ loopRun' = NoRun /\ loopBudget' = NoSpend

\* one more step of the for loop
LoopStep(changed) == loopRun' = [changed EXCEPT !.steps = @ + 1]

MayStep == LoopRunning /\ loopRun.steps < MaxSteps

-----------------------------------------------------------------------------
\* classify, retrieve, extract, check, resolve, store: in this order, and the
\* check decides; two calls stay within the default budget
Pipeline(d) ==
    /\ runner = "pipeline"
    /\ IF LoopValid(d)
       THEN storeRows' = storeRows \cup {d} /\ outcomes' = outcomes \cup {<<d, "stored">>}
       ELSE UNCHANGED storeRows /\ outcomes' = outcomes \cup {<<d, "rejected">>}
    /\ UNCHANGED <<runner, loopRun, loopBudget, unvalidated>>

StartRun(d) ==
    /\ runner = "agent" /\ ~LoopRunning
    /\ loopRun' = [NoRun EXCEPT !.doc = d]
    /\ UNCHANGED <<runner, loopBudget, storeRows, unvalidated, outcomes>>

\* retrieve and resolve only look, and any action may not apply yet
Look ==
    /\ MayStep /\ LoopStep(loopRun)
    /\ UNCHANGED <<runner, loopBudget, storeRows, unvalidated, outcomes>>

MayCallModel ==
    /\ loopBudget.calls + 1 <= LoopCalls
    /\ loopBudget.cost + CallEstimate <= LoopCost

LoopExtract ==
    /\ MayStep
    /\ IF MayCallModel
       THEN /\ loopBudget' = [calls |-> loopBudget.calls + 1, cost |-> loopBudget.cost + CallCost]
            /\ LoopStep([loopRun EXCEPT !.record = LoopQuality[loopRun.doc] # "unparsed",
                                !.validated = FALSE])
            /\ UNCHANGED outcomes
       ELSE LoopEnds("halted")
    /\ UNCHANGED <<runner, storeRows, unvalidated>>

\* check() has run, whatever it found
LoopValidate_Ran ==
    /\ MayStep /\ loopRun.record
    /\ LoopStep([loopRun EXCEPT !.validated = TRUE])
    /\ UNCHANGED <<runner, loopBudget, storeRows, unvalidated, outcomes>>

LoopValidate ==
    /\ MayStep /\ loopRun.record
    /\ LoopStep([loopRun EXCEPT !.validated = LoopValid(loopRun.doc)])
    /\ UNCHANGED <<runner, loopBudget, storeRows, unvalidated, outcomes>>

\* store() is reachable without the flag: the row is written, the write is
\* noted, and the run goes on
LoopStoreRecord ==
    /\ MayStep /\ loopRun.record
    /\ storeRows' = storeRows \cup {loopRun.doc}
    /\ IF loopRun.validated
       THEN LoopEnds("stored") /\ UNCHANGED unvalidated
       ELSE /\ unvalidated' = unvalidated \cup {loopRun.doc}
            /\ LoopStep(loopRun) /\ UNCHANGED <<loopBudget, outcomes>>
    /\ UNCHANGED runner

LoopFinish ==
    /\ MayStep
    /\ LoopEnds(IF loopRun.validated THEN "finished" ELSE "gave-up")
    /\ UNCHANGED <<runner, storeRows, unvalidated>>

StepLimit ==
    /\ LoopRunning /\ loopRun.steps = MaxSteps
    /\ LoopEnds("step-limit")
    /\ UNCHANGED <<runner, storeRows, unvalidated>>

LoopNext ==
    \/ \E d \in LoopDoc : Pipeline(d) \/ StartRun(d)
    \/ Look \/ LoopExtract \/ LoopValidate \/ LoopStoreRecord \/ LoopFinish \/ StepLimit

LoopSpec == LoopInit /\ [][LoopNext]_loopVars

-----------------------------------------------------------------------------
EndedAs(outcome) == {d \in LoopDoc : <<d, outcome>> \in outcomes}

\* The loop may write what did not pass validation, but never claims that it
\* did: a run ends "stored" or "finished" only for a record that validates,
\* every row belongs to such a run or to a noted unvalidated write, and a row
\* that is invalid is always noted.  The pipeline writes no such row at all,
\* and its calls and spend stay within the budget plus one call.
ClaimsAreValidated ==
    /\ \A d \in EndedAs("stored") \cup EndedAs("finished") : LoopValid(d)
    /\ EndedAs("stored") \subseteq storeRows
    /\ storeRows \subseteq EndedAs("stored") \cup unvalidated
    /\ \A d \in storeRows : ~LoopValid(d) => d \in unvalidated
    /\ runner = "pipeline" => unvalidated = {} /\ storeRows = EndedAs("stored")
    /\ loopBudget.calls > 0 => loopBudget.cost + CallEstimate <= LoopCost + CallCost
=============================================================================
