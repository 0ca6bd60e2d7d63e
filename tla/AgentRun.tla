------------------------------ MODULE AgentRun ------------------------------
(***************************************************************************)
(* run() of agent-workflow-lab/resilience_lab.py: one document through     *)
(* classify, retrieve, extract, validate and store, with a checkpoint      *)
(* after each step, a budget checked before each paid step, and a process  *)
(* that may be killed anywhere and run again.                              *)
(*                                                                         *)
(* One process runs one document at a time.  `saved`, `rows` and `budget`  *)
(* outlive it; what it holds in memory does not.  The effect of a step and *)
(* the checkpoint that records it are two steps, so a kill can fall        *)
(* between them.  A record is represented by what validate() says of it.   *)
(***************************************************************************)
EXTENDS Naturals, Sequences

CONSTANTS
    Doc,            \* documents; the run id is doc_id:v1, one per document
    Quality,        \* Quality[d]: "valid", "invalid" or "unparsed" extraction
    Resume,         \* Resume[d]: the argument `resume` of its runs
    MaxCalls, MaxCost,          \* Budget(max_calls, max_cost)
    ClassifyCost,               \* what classify spends, having estimated 0
    Estimate, ExtractCost,      \* what extract asks for, and what it spends
    MaxKills        \* bound: killed processes

ASSUME AgentRunAssumption ==
    /\ Quality \in [Doc -> {"valid", "invalid", "unparsed"}]
    /\ Resume \in [Doc -> BOOLEAN]
    /\ MaxCalls \in Nat /\ MaxCost \in Nat
    /\ ClassifyCost \in Nat
    /\ Estimate \in Nat /\ ExtractCost \in 0..Estimate
    /\ MaxKills \in Nat

VARIABLES
    saved,      \* Checkpoint.saved, by document
    rows,       \* Store.rows, by document
    budget,     \* the Budget object handed to every run
    run,        \* the running process, or Idle
    outcome,    \* what the last run of each document returned
    paid,       \* history: extractions paid for each document
    kills

vars == <<saved, rows, budget, run, outcome, paid, kills>>

STEPS == <<"classify", "retrieve", "extract", "validate", "store">>
StepName == {STEPS[i] : i \in DOMAIN STEPS}

\* None: state.get("record") of a run that has not extracted
Record == {"none", "valid", "invalid", "unparsed"}

State == [done : SUBSET StepName, record : Record]
Empty == [done |-> {}, record |-> "none"]

\* phase "step": at the head of the loop; "save": between a step and its checkpoint
Running == [doc : Doc, at : 1..Len(STEPS) + 1, phase : {"step", "save"}, state : State]
Idle == [doc |-> "idle"]

TypeOK ==
    /\ saved \in [Doc -> State]
    /\ rows \in [Doc -> Record]
    /\ budget \in [calls : 0..MaxCalls, cost : Nat]
    /\ run \in Running \cup {Idle}
    /\ outcome \in [Doc -> {"none", "stored", "rejected", "halted"}]
    /\ paid \in [Doc -> Nat]
    /\ kills \in 0..MaxKills

Init ==
    /\ saved = [d \in Doc |-> Empty]
    /\ rows = [d \in Doc |-> "none"]
    /\ budget = [calls |-> 0, cost |-> 0]
    /\ run = Idle
    /\ outcome = [d \in Doc |-> "none"]
    /\ paid = [d \in Doc |-> 0]
    /\ kills = 0

\* a check that compares the calls made so far
MayCall_OneMore(estimate) ==
    /\ budget.calls <= MaxCalls
    /\ budget.cost + estimate <= MaxCost

\* a check that looks only at what has been spent
MayCall_NoEstimate(estimate) ==
    /\ budget.calls + 1 <= MaxCalls
    /\ budget.cost <= MaxCost

\* Budget.check(estimated_cost)
MayCall(estimate) ==
    /\ budget.calls + 1 <= MaxCalls
    /\ budget.cost + estimate <= MaxCost

\* Budget.spend(cost)
Spent(cost) == [calls |-> budget.calls + 1, cost |-> budget.cost + cost]

\* the process is at the head of the loop, and the step is one it has to do
At(name) ==
    /\ run # Idle /\ run.phase = "step"
    /\ run.at \in DOMAIN STEPS /\ STEPS[run.at] = name
    /\ name \notin run.state.done

Performed == run' = [run EXCEPT !.phase = "save"]

Return(result) ==
    /\ run' = Idle
    /\ outcome' = [outcome EXCEPT ![run.doc] = result]

-----------------------------------------------------------------------------
\* a key minted per attempt: it finds no checkpoint
Start_NewKey(d) ==
    /\ run = Idle
    /\ run' = [doc |-> d, at |-> 1, phase |-> "step", state |-> Empty]
    /\ UNCHANGED <<saved, rows, budget, outcome, paid, kills>>

\* run(): the checkpoint is loaded, or ignored
Start(d) ==
    /\ run = Idle
    /\ run' = [doc |-> d, at |-> 1, phase |-> "step",
               state |-> IF Resume[d] THEN saved[d] ELSE Empty]
    /\ UNCHANGED <<saved, rows, budget, outcome, paid, kills>>

\* if name in state.get("done", []): continue
Skip ==
    /\ run # Idle /\ run.phase = "step" /\ run.at \in DOMAIN STEPS
    /\ STEPS[run.at] \in run.state.done
    /\ run' = [run EXCEPT !.at = @ + 1]
    /\ UNCHANGED <<saved, rows, budget, outcome, paid, kills>>

Classify ==
    /\ At("classify") /\ MayCall(0)
    /\ budget' = Spent(ClassifyCost)
    /\ Performed
    /\ UNCHANGED <<saved, rows, outcome, paid, kills>>

Retrieve ==
    /\ At("retrieve")
    /\ Performed
    /\ UNCHANGED <<saved, rows, budget, outcome, paid, kills>>

Extract ==
    /\ At("extract") /\ MayCall(Estimate)
    /\ budget' = Spent(ExtractCost)
    /\ paid' = [paid EXCEPT ![run.doc] = @ + 1]
    /\ run' = [run EXCEPT !.phase = "save", !.state.record = Quality[run.doc]]
    /\ UNCHANGED <<saved, rows, outcome, kills>>

Validate ==
    /\ At("validate")
    /\ run.state.record = "valid"
    /\ Performed
    /\ UNCHANGED <<saved, rows, budget, outcome, paid, kills>>

\* a validation that only logs
Reject_LogOnly ==
    /\ At("validate")
    /\ run.state.record # "valid"
    /\ Performed
    /\ UNCHANGED <<saved, rows, budget, outcome, paid, kills>>

\* violations: the step is marked done and saved, then the run returns
Reject ==
    /\ At("validate")
    /\ run.state.record # "valid"
    /\ saved' = [saved EXCEPT ![run.doc] =
                    [run.state EXCEPT !.done = @ \cup {"validate"}]]
    /\ Return("rejected")
    /\ UNCHANGED <<rows, budget, paid, kills>>

\* Store.insert: "deduplicated" when the key is there already
StoreRecord ==
    /\ At("store")
    /\ rows' = IF rows[run.doc] = "none"
               THEN [rows EXCEPT ![run.doc] = run.state.record] ELSE rows
    /\ Performed
    /\ UNCHANGED <<saved, budget, outcome, paid, kills>>

\* the step is done: append its name, save, go on
Save ==
    /\ run # Idle /\ run.phase = "save"
    /\ LET after == [run.state EXCEPT !.done = @ \cup {STEPS[run.at]}]
       IN  /\ saved' = [saved EXCEPT ![run.doc] = after]
           /\ run' = [run EXCEPT !.at = @ + 1, !.phase = "step", !.state = after]
    /\ UNCHANGED <<rows, budget, outcome, paid, kills>>

\* return "stored"
Finish ==
    /\ run # Idle /\ run.at = Len(STEPS) + 1
    /\ Return("stored")
    /\ UNCHANGED <<saved, rows, budget, paid, kills>>

\* except BudgetExceeded: the partial result is preserved
Halt ==
    /\ \/ At("classify") /\ ~MayCall(0)
       \/ At("extract") /\ ~MayCall(Estimate)
    /\ saved' = [saved EXCEPT ![run.doc] = run.state]
    /\ Return("halted")
    /\ UNCHANGED <<rows, budget, paid, kills>>

\* a loop that marks a step before it has run
KilledBeforeStep_Marked ==
    /\ run # Idle /\ run.phase = "step" /\ kills < MaxKills
    /\ run.at \in DOMAIN STEPS /\ At(STEPS[run.at])
    /\ kills' = kills + 1
    /\ saved' = [saved EXCEPT ![run.doc] =
                    [run.state EXCEPT !.done = @ \cup {STEPS[run.at]}]]
    /\ Return("halted")
    /\ UNCHANGED <<rows, budget, paid>>

\* kill_at: Killed is raised before a step, and the handler saves
KilledBeforeStep ==
    /\ run # Idle /\ run.phase = "step" /\ kills < MaxKills
    /\ run.at \in DOMAIN STEPS /\ At(STEPS[run.at])
    /\ kills' = kills + 1
    /\ saved' = [saved EXCEPT ![run.doc] = run.state]
    /\ Return("halted")
    /\ UNCHANGED <<rows, budget, paid>>

\* a process that is really gone: no handler runs
Die ==
    /\ run # Idle /\ kills < MaxKills
    /\ kills' = kills + 1
    /\ run' = Idle
    /\ UNCHANGED <<saved, rows, budget, outcome, paid>>

Proceed ==
    \/ Skip \/ Classify \/ Retrieve \/ Extract \/ Validate \/ Reject
    \/ StoreRecord \/ Save \/ Finish \/ Halt

Next == Proceed \/ KilledBeforeStep \/ Die \/ \E d \in Doc : Start(d)

Spec == Init /\ [][Next]_vars

\* A running process goes on, and every document that is resumed at all is run
\* again sooner or later.
FairSpec ==
    /\ Spec
    /\ WF_vars(Proceed)
    /\ \A d \in Doc : Resume[d] => SF_vars(Start(d))

-----------------------------------------------------------------------------
(***************************************************************************)
(* Properties                                                              *)
(***************************************************************************)

\* A document whose runs resume is paid for again only after a process was
\* killed: a resume replays skips, also after a halt on budget.
PaidOncePerKill == \A d \in Doc : Resume[d] => paid[d] <= 1 + kills

\* What a checkpoint says was done has happened: its steps are a prefix of
\* STEPS, it holds the record once extract is in it, and the row it says was
\* stored is the one in the store.
CheckpointIsBacked ==
    \A d \in Doc :
        LET done == saved[d].done IN
        /\ \E n \in 0..Len(STEPS) : done = {STEPS[i] : i \in 1..n}
        /\ "extract" \in done => saved[d].record = Quality[d]
        /\ "store" \in done => rows[d] = saved[d].record

\* "Enforced BEFORE the spend": the calls never pass their limit, and the cost
\* passes it by no more than one classify, which asks with an estimate of zero.
BudgetHolds ==
    /\ budget.calls <= MaxCalls
    /\ budget.cost <= MaxCost + ClassifyCost

\* A record that failed validation does not reach the store: "the pipeline
\* cannot express that state at all".
OnlyValidRows == \A d \in Doc : rows[d] \in {"none", "valid"}

\* Of a document that is never resumed it does not, wherever its runs are killed.
ColdRowsAreValid == \A d \in Doc : ~Resume[d] => rows[d] \in {"none", "valid"}

\* Resuming is safe: what is on record was done, and of a document whose record
\* is never trusted no invalid row is stored.
ResumeIsSound == CheckpointIsBacked /\ ColdRowsAreValid

\* Resuming is cheap: a kill costs one extraction, and no restart escapes the
\* budget.
SpendIsBounded == PaidOncePerKill /\ BudgetHolds

\* With a budget that allows for the kills, every document that is resumed is
\* stored or rejected in the end, unless a run that does not resume spends from
\* the same budget.
EveryDocumentSettles ==
    \A d \in Doc :
        Resume[d] => <>(\/ rows[d] # "none"
                        \/ outcome[d] = "rejected"
                        \/ run # Idle /\ ~Resume[run.doc])
=============================================================================
