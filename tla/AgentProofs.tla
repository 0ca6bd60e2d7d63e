----------------------------- MODULE AgentProofs -----------------------------
(***************************************************************************)
(* Proofs about the agent workflow: what a checkpoint says, what a resumed *)
(* run costs, and what the model-driven loop may claim.                    *)
(***************************************************************************)
EXTENDS MCAgentRun, TLAPS

-----------------------------------------------------------------------------
(***************************************************************************)
(* AgentRun: the steps and their prefixes                                  *)
(***************************************************************************)
Prefix(n) == {STEPS[i] : i \in 1..n}

LEMMA TheSteps ==
    /\ DOMAIN STEPS = 1..5 /\ Len(STEPS) = 5
    /\ STEPS[1] = "classify" /\ STEPS[2] = "retrieve" /\ STEPS[3] = "extract"
    /\ STEPS[4] = "validate" /\ STEPS[5] = "store"
  BY DEF STEPS

LEMMA StepNames == StepName = {"classify", "retrieve", "extract", "validate", "store"}
  BY TheSteps DEF StepName

\* The steps have five different names.
LEMMA PrefixHas ==
    ASSUME NEW n \in 0..5, NEW i \in 1..5
    PROVE  STEPS[i] \in Prefix(n) <=> i <= n
<1>1. \A j \in 1..5 : STEPS[j] = STEPS[i] => j = i
  <2>1. \A j \in 1..5 : j = 1 \/ j = 2 \/ j = 3 \/ j = 4 \/ j = 5
    OBVIOUS
  <2>2. i = 1 \/ i = 2 \/ i = 3 \/ i = 4 \/ i = 5
    OBVIOUS
  <2>3. QED
    BY <2>1, <2>2, TheSteps
<1>2. QED
  BY <1>1 DEF Prefix

LEMMA PrefixGrows ==
    ASSUME NEW n \in 0..4
    PROVE  Prefix(n) \cup {STEPS[n + 1]} = Prefix(n + 1)
  BY DEF Prefix

LEMMA PrefixNamed ==
    ASSUME NEW n \in 0..5
    PROVE  /\ "extract" \in Prefix(n) <=> 3 <= n
           /\ "validate" \in Prefix(n) <=> 4 <= n
           /\ "store" \in Prefix(n) <=> 5 <= n
           /\ Prefix(n) \subseteq StepName
<1>1. /\ "extract" \in Prefix(n) <=> 3 <= n
      /\ "validate" \in Prefix(n) <=> 4 <= n
      /\ "store" \in Prefix(n) <=> 5 <= n
  BY TheSteps, PrefixHas
<1>2. Prefix(n) \subseteq StepName
  BY TheSteps DEF Prefix, StepName
<1>3. QED
  BY <1>1, <1>2

-----------------------------------------------------------------------------
(***************************************************************************)
(* AgentRun: the invariant                                                 *)
(***************************************************************************)

\* What a checkpoint or a state in memory says of document d is true.
Backed(d, state) ==
    \E n \in 0..5 :
       /\ state.done = Prefix(n)
       /\ 3 <= n => state.record = Quality[d]
       /\ 5 <= n => rows[d] = Quality[d]

\* A run is past everything its state says was done by at most one step, whose
\* effect is there before its name is; and a cold run that got past validation
\* has a valid record.
Underway ==
    \E n \in 0..5 :
       /\ run.state.done = Prefix(n)
       /\ run.phase = "step" => run.at <= n + 1
       /\ run.phase = "save" => run.at = n + 1 /\ run.at <= 5
       /\ 3 <= n \/ (run.phase = "save" /\ run.at = 3) => run.state.record = Quality[run.doc]
       /\ 5 <= n \/ (run.phase = "save" /\ run.at = 5) => rows[run.doc] = Quality[run.doc]
       /\ ~Resume[run.doc] /\ (4 <= n \/ (run.phase = "save" /\ run.at = 4)) =>
             run.state.record = "valid"

RunInv == run # Idle => Underway /\ (Resume[run.doc] => saved[run.doc].done = run.state.done)

RowsInv == \A d \in Doc : rows[d] = "none" \/ rows[d] = Quality[d]

ResumeInv ==
    /\ TypeOK
    /\ \A d \in Doc : Backed(d, saved[d])
    /\ RunInv
    /\ RowsInv
    /\ ColdRowsAreValid

\* Extracted and not forgotten: on record, or in the memory of the run.
Extracted(d) ==
    \/ "extract" \in saved[d].done
    \/ run # Idle /\ run.doc = d /\ ("extract" \in run.state.done \/ (run.phase = "save" /\ run.at = 3))

PaidInv ==
    \A d \in Doc : Resume[d] => paid[d] <= kills + (IF Extracted(d) THEN 1 ELSE 0)

SpendInv == PaidInv /\ BudgetHolds

AgentInv == ResumeInv /\ SpendInv

LEMMA InitAgentInv == AgentRunAssumption /\ Init => AgentInv
<1> SUFFICES ASSUME AgentRunAssumption, Init PROVE AgentInv
  OBVIOUS
<1>1. Prefix(0) = {}
  BY DEF Prefix
<1>2. TypeOK
  BY DEF AgentRunAssumption, Init, TypeOK, State, Empty, Record
<1>3. \A d \in Doc : Backed(d, saved[d])
  <2>1. SUFFICES ASSUME NEW d \in Doc PROVE Backed(d, saved[d])
    OBVIOUS
  <2>2. saved[d].done = Prefix(0)
    BY <1>1 DEF Init, Empty
  <2>3. QED
    BY <2>2 DEF Backed
<1>4. RunInv /\ RowsInv /\ ColdRowsAreValid
  BY DEF Init, RunInv, RowsInv, ColdRowsAreValid
<1>5. SpendInv
  BY DEF AgentRunAssumption, Init, SpendInv, PaidInv, BudgetHolds, Extracted, Empty
<1>6. QED
  BY <1>2, <1>3, <1>4, <1>5 DEF AgentInv, ResumeInv

\* At the head of the loop, with a step to do: everything before it is done.
LEMMA AtPlace ==
    ASSUME TypeOK, RunInv, NEW k \in 1..5, At(STEPS[k])
    PROVE  /\ run \in Running /\ run.at = k /\ run.phase = "step"
           /\ run.state.done = Prefix(k - 1)
           /\ 4 <= k => run.state.record = Quality[run.doc]
           /\ ~Resume[run.doc] /\ 5 <= k => run.state.record = "valid"
           /\ Resume[run.doc] => saved[run.doc].done = run.state.done
<1>1. run \in Running /\ run # Idle /\ run.phase = "step" /\ run.at \in 1..5
  BY TheSteps DEF At, TypeOK
<1>2. run.at = k
  <2>1. STEPS[run.at] \in Prefix(k) /\ STEPS[k] \in Prefix(run.at)
    BY <1>1, PrefixHas DEF At
  <2>2. run.at <= k /\ k <= run.at
    BY <2>1, <1>1, PrefixHas
  <2>3. QED
    BY <2>2, <1>1
<1>3. PICK n \in 0..5 :
         /\ run.state.done = Prefix(n)
         /\ run.at <= n + 1
         /\ 3 <= n => run.state.record = Quality[run.doc]
         /\ ~Resume[run.doc] /\ 4 <= n => run.state.record = "valid"
  BY <1>1 DEF RunInv, Underway
<1>4. ~ (k <= n)
  BY <1>3, PrefixHas DEF At
<1>5. n = k - 1
  BY <1>2, <1>3, <1>4
<1>6. QED
  BY <1>1, <1>2, <1>3, <1>5 DEF RunInv

\* A step whose effect is there and whose name is not.
LEMMA SavePlace ==
    ASSUME TypeOK, RunInv, run # Idle, run.phase = "save"
    PROVE  /\ run \in Running /\ run.at \in 1..5
           /\ run.state.done = Prefix(run.at - 1)
           /\ 3 <= run.at => run.state.record = Quality[run.doc]
           /\ 5 <= run.at => rows[run.doc] = Quality[run.doc]
           /\ ~Resume[run.doc] /\ 4 <= run.at => run.state.record = "valid"
           /\ Resume[run.doc] => saved[run.doc].done = run.state.done
<1>1. run \in Running
  BY DEF TypeOK
<1>2. PICK n \in 0..5 :
         /\ run.state.done = Prefix(n)
         /\ run.at = n + 1 /\ run.at <= 5
         /\ 3 <= n \/ run.at = 3 => run.state.record = Quality[run.doc]
         /\ 5 <= n \/ run.at = 5 => rows[run.doc] = Quality[run.doc]
         /\ ~Resume[run.doc] /\ (4 <= n \/ run.at = 4) => run.state.record = "valid"
  BY DEF RunInv, Underway
<1>3. QED
  BY <1>1, <1>2, TheSteps DEF RunInv, Running

\* A step that was due is performed: the run is between it and its checkpoint.
LEMMA PerformedStep ==
    ASSUME AgentRunAssumption, ResumeInv, NEW k \in 1..5, At(STEPS[k]), NEW record \in Record,
           run' \in Running, run'.doc = run.doc, run'.at = run.at, run'.phase = "save",
           run'.state.done = run.state.done, run'.state.record = record, saved' = saved,
           3 <= k => record = Quality[run.doc],
           ~Resume[run.doc] /\ 4 <= k => record = "valid",
           rows' \in [Doc -> Record],
           5 <= k => rows'[run.doc] = Quality[run.doc],
           \A d \in Doc : rows'[d] = rows[d] \/ (d = run.doc /\ rows'[d] = Quality[d])
    PROVE  /\ RunInv' /\ RowsInv'
           /\ \A d \in Doc : Backed(d, saved[d])'
<1>1. /\ run \in Running /\ run.at = k /\ run.phase = "step"
      /\ run.state.done = Prefix(k - 1)
      /\ Resume[run.doc] => saved[run.doc].done = run.state.done
  BY AtPlace DEF ResumeInv
<1>3. RunInv'
  <2>1. k - 1 \in 0..5 /\ ~ (5 <= k - 1)
    OBVIOUS
  <2>2. Underway'
    BY <1>1, <2>1 DEF Underway
  <2>3. QED
    BY <1>1, <2>2 DEF RunInv
<1>4. RowsInv'
  BY DEF ResumeInv, RowsInv
<1>5. \A d \in Doc : Backed(d, saved[d])'
  <2>1. SUFFICES ASSUME NEW d \in Doc PROVE Backed(d, saved[d])'
    OBVIOUS
  <2>2. PICK n \in 0..5 : /\ saved[d].done = Prefix(n)
                          /\ 3 <= n => saved[d].record = Quality[d]
                          /\ 5 <= n => rows[d] = Quality[d]
    BY DEF ResumeInv, Backed
  <2>3. 5 <= n => rows'[d] = Quality[d]
    BY <2>2
  <2>4. QED
    BY <2>2, <2>3 DEF Backed
<1>6. QED
  BY <1>3, <1>4, <1>5

\* A checkpoint is replaced by one that is backed, and the rows stay.
LEMMA BackedAfter ==
    ASSUME \A d \in Doc : Backed(d, saved[d]), saved \in [Doc -> State],
           NEW e \in Doc, NEW state \in State, Backed(e, state),
           saved' = [saved EXCEPT ![e] = state], rows' = rows
    PROVE  \A d \in Doc : Backed(d, saved[d])'
<1>1. SUFFICES ASSUME NEW d \in Doc PROVE Backed(d, saved[d])'
  OBVIOUS
<1>2. saved'[d] = IF d = e THEN state ELSE saved[d]
  OBVIOUS
<1>3. Backed(d, saved'[d])
  BY <1>2
<1>4. QED
  BY <1>3 DEF Backed

\* Nothing about the checkpoints changes when neither they nor the rows do.
LEMMA BackedStays ==
    ASSUME \A d \in Doc : Backed(d, saved[d]), saved' = saved, rows' = rows
    PROVE  \A d \in Doc : Backed(d, saved[d])'
  BY DEF Backed

\* The state of a run that is at the head of the loop is itself backed.
LEMMA MemoryIsBacked ==
    ASSUME TypeOK, RunInv, NEW k \in 1..5, At(STEPS[k])
    PROVE  run.state \in State /\ run.doc \in Doc /\ Backed(run.doc, run.state)
<1>1. /\ run \in Running
      /\ run.state.done = Prefix(k - 1)
      /\ 4 <= k => run.state.record = Quality[run.doc]
  BY AtPlace
<1>2. k - 1 \in 0..5 /\ ~ (5 <= k - 1) /\ (3 <= k - 1 => 4 <= k)
  OBVIOUS
<1>3. QED
  BY <1>1, <1>2 DEF Backed, Running

LEMMA ResumeStep ==
    AgentRunAssumption /\ ResumeInv /\ [Next]_vars => ResumeInv'
<1> SUFFICES ASSUME AgentRunAssumption, ResumeInv, [Next]_vars PROVE ResumeInv'
  OBVIOUS
<1> USE DEF ResumeInv
<1>1. CASE UNCHANGED vars
  <2>1. TypeOK'
    BY <1>1 DEF TypeOK, vars
  <2>2. (\A d \in Doc : Backed(d, saved[d]))'
    BY <1>1, BackedStays DEF vars
  <2>3. RunInv' /\ RowsInv' /\ ColdRowsAreValid'
    BY <1>1 DEF vars, RunInv, Underway, RowsInv, ColdRowsAreValid
  <2>4. QED
    BY <2>1, <2>2, <2>3
<1>2. CASE Skip
  <2>1. run \in Running /\ run # Idle /\ run.phase = "step" /\ run.at \in 1..5
    BY <1>2, TheSteps DEF Skip, TypeOK
  <2>2. /\ run' = [run EXCEPT !.at = run.at + 1] /\ run' \in Running
        /\ run'.at = run.at + 1 /\ run'.phase = "step"
        /\ run'.state = run.state /\ run'.doc = run.doc
    BY <1>2, <2>1, TheSteps DEF Skip, Running
  <2>3. Underway'
    <3>1. PICK n \in 0..5 :
             /\ run.state.done = Prefix(n) /\ run.at <= n + 1
             /\ 3 <= n => run.state.record = Quality[run.doc]
             /\ 5 <= n => rows[run.doc] = Quality[run.doc]
             /\ ~Resume[run.doc] /\ 4 <= n => run.state.record = "valid"
      BY <2>1 DEF RunInv, Underway
    <3>2. run.at <= n
      BY <1>2, <2>1, <3>1, PrefixHas DEF Skip
    <3>3. QED
      BY <1>2, <2>1, <2>2, <3>1, <3>2 DEF Underway, Skip
  <2>4. TypeOK'
    BY <1>2, <2>2 DEF Skip, TypeOK
  <2>5. (\A d \in Doc : Backed(d, saved[d]))'
    BY <1>2, BackedStays DEF Skip
  <2>6. RunInv' /\ RowsInv' /\ ColdRowsAreValid'
    BY <1>2, <2>1, <2>2, <2>3 DEF Skip, RunInv, RowsInv, ColdRowsAreValid
  <2>7. QED
    BY <2>4, <2>5, <2>6
<1>3. CASE Classify
  <2>1. At(STEPS[1])
    BY <1>3, TheSteps DEF Classify
  <2>2. /\ run \in Running /\ run.at = 1 /\ run.phase = "step" /\ run.doc \in Doc
        /\ run.state \in State
        /\ 1 >= 4 => run.state.record = Quality[run.doc]
        /\ ~Resume[run.doc] /\ 1 >= 5 => run.state.record = "valid"
    BY <2>1, AtPlace, MemoryIsBacked
  <2>3. PICK record \in Record :
           /\ record = run.state.record
           /\ run' \in Running /\ run'.doc = run.doc /\ run'.at = run.at /\ run'.phase = "save"
           /\ run'.state.done = run.state.done /\ run'.state.record = record
    BY <1>3, <2>2 DEF Classify, Performed, Running, State, AgentRunAssumption, Record
  <2>4. /\ saved' = saved /\ outcome' = outcome /\ kills' = kills
        /\ rows' \in [Doc -> Record]
        /\ \A d \in Doc : rows'[d] = rows[d] \/ (1 = 5 /\ d = run.doc /\ rows'[d] = run.state.record)
        /\ 5 <= 1 => rows'[run.doc] = Quality[run.doc]
    BY <1>3, <2>2 DEF Classify, TypeOK, RowsInv, State
  <2>5. /\ run' \in Running /\ RunInv' /\ RowsInv'
        /\ \A d \in Doc : Backed(d, saved[d])'
    <3>1. 3 <= 1 => record = Quality[run.doc]
      BY <2>2, <2>3
    <3>2. ~Resume[run.doc] /\ 4 <= 1 => record = "valid"
      BY <1>3, <2>2, <2>3 DEF Classify
    <3>3. \A d \in Doc : rows'[d] = rows[d] \/ (d = run.doc /\ rows'[d] = Quality[d])
      BY <2>2, <2>4
    <3>4. QED
      BY <2>1, <2>3, <2>4, <3>1, <3>2, <3>3, PerformedStep
  <2>6. TypeOK'
    <3>1. budget' \in [calls : 0..MaxCalls, cost : Nat] /\ paid' \in [Doc -> Nat]
      BY <1>3, <2>2 DEF Classify, MayCall, Spent, TypeOK, AgentRunAssumption
    <3>2. QED
      BY <2>4, <2>5, <3>1 DEF TypeOK
  <2>7. ColdRowsAreValid'
    BY <2>2, <2>4 DEF ColdRowsAreValid
  <2>8. QED
    BY <2>5, <2>6, <2>7
<1>4. CASE Retrieve
  <2>1. At(STEPS[2])
    BY <1>4, TheSteps DEF Retrieve
  <2>2. /\ run \in Running /\ run.at = 2 /\ run.phase = "step" /\ run.doc \in Doc
        /\ run.state \in State
        /\ 2 >= 4 => run.state.record = Quality[run.doc]
        /\ ~Resume[run.doc] /\ 2 >= 5 => run.state.record = "valid"
    BY <2>1, AtPlace, MemoryIsBacked
  <2>3. PICK record \in Record :
           /\ record = run.state.record
           /\ run' \in Running /\ run'.doc = run.doc /\ run'.at = run.at /\ run'.phase = "save"
           /\ run'.state.done = run.state.done /\ run'.state.record = record
    BY <1>4, <2>2 DEF Retrieve, Performed, Running, State, AgentRunAssumption, Record
  <2>4. /\ saved' = saved /\ outcome' = outcome /\ kills' = kills
        /\ rows' \in [Doc -> Record]
        /\ \A d \in Doc : rows'[d] = rows[d] \/ (2 = 5 /\ d = run.doc /\ rows'[d] = run.state.record)
        /\ 5 <= 2 => rows'[run.doc] = Quality[run.doc]
    BY <1>4, <2>2 DEF Retrieve, TypeOK, RowsInv, State
  <2>5. /\ run' \in Running /\ RunInv' /\ RowsInv'
        /\ \A d \in Doc : Backed(d, saved[d])'
    <3>1. 3 <= 2 => record = Quality[run.doc]
      BY <2>2, <2>3
    <3>2. ~Resume[run.doc] /\ 4 <= 2 => record = "valid"
      BY <1>4, <2>2, <2>3 DEF Retrieve
    <3>3. \A d \in Doc : rows'[d] = rows[d] \/ (d = run.doc /\ rows'[d] = Quality[d])
      BY <2>2, <2>4
    <3>4. QED
      BY <2>1, <2>3, <2>4, <3>1, <3>2, <3>3, PerformedStep
  <2>6. TypeOK'
    <3>1. budget' \in [calls : 0..MaxCalls, cost : Nat] /\ paid' \in [Doc -> Nat]
      BY <1>4, <2>2 DEF Retrieve, TypeOK, AgentRunAssumption
    <3>2. QED
      BY <2>4, <2>5, <3>1 DEF TypeOK
  <2>7. ColdRowsAreValid'
    BY <2>2, <2>4 DEF ColdRowsAreValid
  <2>8. QED
    BY <2>5, <2>6, <2>7
<1>5. CASE Extract
  <2>1. At(STEPS[3])
    BY <1>5, TheSteps DEF Extract
  <2>2. /\ run \in Running /\ run.at = 3 /\ run.phase = "step" /\ run.doc \in Doc
        /\ run.state \in State
        /\ 3 >= 4 => run.state.record = Quality[run.doc]
        /\ ~Resume[run.doc] /\ 3 >= 5 => run.state.record = "valid"
    BY <2>1, AtPlace, MemoryIsBacked
  <2>3. PICK record \in Record :
           /\ record = Quality[run.doc]
           /\ run' \in Running /\ run'.doc = run.doc /\ run'.at = run.at /\ run'.phase = "save"
           /\ run'.state.done = run.state.done /\ run'.state.record = record
    BY <1>5, <2>2 DEF Extract, Performed, Running, State, AgentRunAssumption, Record
  <2>4. /\ saved' = saved /\ outcome' = outcome /\ kills' = kills
        /\ rows' \in [Doc -> Record]
        /\ \A d \in Doc : rows'[d] = rows[d] \/ (3 = 5 /\ d = run.doc /\ rows'[d] = run.state.record)
        /\ 5 <= 3 => rows'[run.doc] = Quality[run.doc]
    BY <1>5, <2>2 DEF Extract, TypeOK, RowsInv, State
  <2>5. /\ run' \in Running /\ RunInv' /\ RowsInv'
        /\ \A d \in Doc : Backed(d, saved[d])'
    <3>1. 3 <= 3 => record = Quality[run.doc]
      BY <2>2, <2>3
    <3>2. ~Resume[run.doc] /\ 4 <= 3 => record = "valid"
      BY <1>5, <2>2, <2>3 DEF Extract
    <3>3. \A d \in Doc : rows'[d] = rows[d] \/ (d = run.doc /\ rows'[d] = Quality[d])
      BY <2>2, <2>4
    <3>4. QED
      BY <2>1, <2>3, <2>4, <3>1, <3>2, <3>3, PerformedStep
  <2>6. TypeOK'
    <3>1. budget' \in [calls : 0..MaxCalls, cost : Nat] /\ paid' \in [Doc -> Nat]
      BY <1>5, <2>2 DEF Extract, MayCall, Spent, TypeOK, AgentRunAssumption
    <3>2. QED
      BY <2>4, <2>5, <3>1 DEF TypeOK
  <2>7. ColdRowsAreValid'
    BY <2>2, <2>4 DEF ColdRowsAreValid
  <2>8. QED
    BY <2>5, <2>6, <2>7
<1>6. CASE Validate
  <2>1. At(STEPS[4])
    BY <1>6, TheSteps DEF Validate
  <2>2. /\ run \in Running /\ run.at = 4 /\ run.phase = "step" /\ run.doc \in Doc
        /\ run.state \in State
        /\ 4 >= 4 => run.state.record = Quality[run.doc]
        /\ ~Resume[run.doc] /\ 4 >= 5 => run.state.record = "valid"
    BY <2>1, AtPlace, MemoryIsBacked
  <2>3. PICK record \in Record :
           /\ record = run.state.record
           /\ run' \in Running /\ run'.doc = run.doc /\ run'.at = run.at /\ run'.phase = "save"
           /\ run'.state.done = run.state.done /\ run'.state.record = record
    BY <1>6, <2>2 DEF Validate, Performed, Running, State, AgentRunAssumption, Record
  <2>4. /\ saved' = saved /\ outcome' = outcome /\ kills' = kills
        /\ rows' \in [Doc -> Record]
        /\ \A d \in Doc : rows'[d] = rows[d] \/ (4 = 5 /\ d = run.doc /\ rows'[d] = run.state.record)
        /\ 5 <= 4 => rows'[run.doc] = Quality[run.doc]
    BY <1>6, <2>2 DEF Validate, TypeOK, RowsInv, State
  <2>5. /\ run' \in Running /\ RunInv' /\ RowsInv'
        /\ \A d \in Doc : Backed(d, saved[d])'
    <3>1. 3 <= 4 => record = Quality[run.doc]
      BY <2>2, <2>3
    <3>2. ~Resume[run.doc] /\ 4 <= 4 => record = "valid"
      BY <1>6, <2>2, <2>3 DEF Validate
    <3>3. \A d \in Doc : rows'[d] = rows[d] \/ (d = run.doc /\ rows'[d] = Quality[d])
      BY <2>2, <2>4
    <3>4. QED
      BY <2>1, <2>3, <2>4, <3>1, <3>2, <3>3, PerformedStep
  <2>6. TypeOK'
    <3>1. budget' \in [calls : 0..MaxCalls, cost : Nat] /\ paid' \in [Doc -> Nat]
      BY <1>6, <2>2 DEF Validate, TypeOK, AgentRunAssumption
    <3>2. QED
      BY <2>4, <2>5, <3>1 DEF TypeOK
  <2>7. ColdRowsAreValid'
    BY <2>2, <2>4 DEF ColdRowsAreValid
  <2>8. QED
    BY <2>5, <2>6, <2>7
<1>7. CASE Reject
  <2>1. run # Idle /\ run' = Idle /\ rows' = rows /\ budget' = budget /\ paid' = paid
    BY <1>7 DEF Reject, Return, At
  <2>2. At(STEPS[4])
    BY <1>7, TheSteps DEF Reject
  <2>3. /\ run \in Running /\ run.doc \in Doc /\ run.state \in State
        /\ run.state.done = Prefix(3) /\ run.state.record = Quality[run.doc]
    BY <2>2, AtPlace, MemoryIsBacked
  <2> DEFINE after == [run.state EXCEPT !.done = @ \cup {"validate"}]
  <2>4. (\A d \in Doc : Backed(d, saved[d]))'
    <3>1. after.done = Prefix(4) /\ after.record = Quality[run.doc] /\ after \in State
      BY <2>3, PrefixGrows, TheSteps, StepNames DEF State
    <3>2. Backed(run.doc, after)
      BY <3>1 DEF Backed
    <3>3. saved' = [saved EXCEPT ![run.doc] = after]
      BY <1>7 DEF Reject
    <3>4. QED
      BY <2>1, <2>3, <3>1, <3>2, <3>3, BackedAfter DEF TypeOK
  <2>6. TypeOK'
    <3>1. saved' \in [Doc -> State]
      BY <1>7, <2>3, StepNames DEF Reject, TypeOK, State
    <3>2. QED
      BY <1>7, <2>1, <2>3, <3>1 DEF Reject, Return, TypeOK
  <2>7. RunInv' /\ RowsInv' /\ ColdRowsAreValid'
    BY <2>1 DEF RunInv, RowsInv, ColdRowsAreValid
  <2>8. QED
    BY <2>4, <2>6, <2>7
<1>8. CASE StoreRecord
  <2>1. At(STEPS[5])
    BY <1>8, TheSteps DEF StoreRecord
  <2>2. /\ run \in Running /\ run.at = 5 /\ run.phase = "step" /\ run.doc \in Doc
        /\ run.state \in State
        /\ 5 >= 4 => run.state.record = Quality[run.doc]
        /\ ~Resume[run.doc] /\ 5 >= 5 => run.state.record = "valid"
    BY <2>1, AtPlace, MemoryIsBacked
  <2>3. PICK record \in Record :
           /\ record = run.state.record
           /\ run' \in Running /\ run'.doc = run.doc /\ run'.at = run.at /\ run'.phase = "save"
           /\ run'.state.done = run.state.done /\ run'.state.record = record
    BY <1>8, <2>2 DEF StoreRecord, Performed, Running, State, AgentRunAssumption, Record
  <2>4. /\ saved' = saved /\ outcome' = outcome /\ kills' = kills
        /\ rows' \in [Doc -> Record]
        /\ \A d \in Doc : rows'[d] = rows[d] \/ (5 = 5 /\ d = run.doc /\ rows'[d] = run.state.record)
        /\ 5 <= 5 => rows'[run.doc] = Quality[run.doc]
    BY <1>8, <2>2 DEF StoreRecord, TypeOK, RowsInv, State
  <2>5. /\ run' \in Running /\ RunInv' /\ RowsInv'
        /\ \A d \in Doc : Backed(d, saved[d])'
    <3>1. 3 <= 5 => record = Quality[run.doc]
      BY <2>2, <2>3
    <3>2. ~Resume[run.doc] /\ 4 <= 5 => record = "valid"
      BY <1>8, <2>2, <2>3 DEF StoreRecord
    <3>3. \A d \in Doc : rows'[d] = rows[d] \/ (d = run.doc /\ rows'[d] = Quality[d])
      BY <2>2, <2>4
    <3>4. QED
      BY <2>1, <2>3, <2>4, <3>1, <3>2, <3>3, PerformedStep
  <2>6. TypeOK'
    <3>1. budget' \in [calls : 0..MaxCalls, cost : Nat] /\ paid' \in [Doc -> Nat]
      BY <1>8, <2>2 DEF StoreRecord, TypeOK, AgentRunAssumption
    <3>2. QED
      BY <2>4, <2>5, <3>1 DEF TypeOK
  <2>7. ColdRowsAreValid'
    BY <2>2, <2>4 DEF ColdRowsAreValid
  <2>8. QED
    BY <2>5, <2>6, <2>7
<1>9. CASE Save
  <2>1. run # Idle /\ run.phase = "save"
    BY <1>9 DEF Save
  <2>2. /\ run \in Running /\ run.at \in 1..5 /\ run.doc \in Doc /\ run.state \in State
        /\ run.state.done = Prefix(run.at - 1)
        /\ 3 <= run.at => run.state.record = Quality[run.doc]
        /\ 5 <= run.at => rows[run.doc] = Quality[run.doc]
        /\ ~Resume[run.doc] /\ 4 <= run.at => run.state.record = "valid"
    BY <2>1, SavePlace DEF Running
  <2> DEFINE after == [run.state EXCEPT !.done = @ \cup {STEPS[run.at]}]
  <2>3. /\ after.done = Prefix(run.at) /\ after.record = run.state.record
        /\ after \in State
    <3>1. run.at - 1 \in 0..4 /\ (run.at - 1) + 1 = run.at
      BY <2>2
    <3>2. after.done = Prefix(run.at)
      BY <2>2, <3>1, PrefixGrows DEF State
    <3>3. QED
      BY <2>2, <3>2, PrefixNamed DEF State
  <2>4. (\A d \in Doc : Backed(d, saved[d]))'
    <3>1. Backed(run.doc, after)
      BY <2>2, <2>3 DEF Backed
    <3>2. QED
      BY <1>9, <2>2, <2>3, <3>1, BackedAfter DEF Save, TypeOK
  <2>5. /\ run' \in Running /\ run'.at = run.at + 1 /\ run'.phase = "step"
        /\ run'.state = after /\ run'.doc = run.doc
    <3>1. run' = [run EXCEPT !.at = run.at + 1, !.phase = "step", !.state = after]
      BY <1>9, <2>2 DEF Save, Running
    <3>2. run.at + 1 \in 1..Len(STEPS) + 1
      BY <2>2, TheSteps
    <3> HIDE DEF after
    <3>3. QED
      BY <2>2, <2>3, <3>1, <3>2 DEF Running
  <2>6. TypeOK'
    <3>1. saved' \in [Doc -> State]
      BY <1>9, <2>2, <2>3 DEF Save, TypeOK
    <3>2. QED
      BY <1>9, <2>5, <3>1 DEF Save, TypeOK
  <2>7. RunInv'
    <3>1. Underway'
      <4>1. rows' = rows /\ run.at \in 0..5
        BY <1>9, <2>2 DEF Save
      <4> HIDE DEF after
      <4>2. QED
        BY <2>2, <2>3, <2>5, <4>1 DEF Underway
    <3>2. saved'[run.doc] = after
      BY <1>9, <2>2 DEF Save, TypeOK
    <3>3. QED
      BY <2>5, <3>1, <3>2 DEF RunInv
  <2>8. RowsInv' /\ ColdRowsAreValid'
    BY <1>9 DEF Save, RowsInv, ColdRowsAreValid
  <2>9. QED
    BY <2>4, <2>6, <2>7, <2>8
<1>10. CASE Finish
  <2>1. run # Idle /\ run' = Idle /\ rows' = rows /\ budget' = budget /\ paid' = paid
    BY <1>10 DEF Finish, Return, At
  <2>4. (\A d \in Doc : Backed(d, saved[d]))'
    BY <1>10, BackedStays DEF Finish
  <2>6. TypeOK'
    BY <1>10, <2>1 DEF Finish, Return, TypeOK, Running
  <2>7. RunInv' /\ RowsInv' /\ ColdRowsAreValid'
    BY <2>1 DEF RunInv, RowsInv, ColdRowsAreValid
  <2>8. QED
    BY <2>4, <2>6, <2>7
<1>11. CASE Halt
  <2>1. run # Idle /\ run' = Idle /\ rows' = rows /\ budget' = budget /\ paid' = paid
    BY <1>11 DEF Halt, Return, At
  <2>2. \E k \in 1..5 : At(STEPS[k])
    BY <1>11, TheSteps DEF Halt
  <2>3. run.state \in State /\ run.doc \in Doc /\ Backed(run.doc, run.state)
    BY <2>2, MemoryIsBacked
  <2>4. (\A d \in Doc : Backed(d, saved[d]))'
    BY <1>11, <2>1, <2>3, BackedAfter DEF Halt, TypeOK
  <2>6. TypeOK'
    BY <1>11, <2>1, <2>3 DEF Halt, Return, TypeOK
  <2>7. RunInv' /\ RowsInv' /\ ColdRowsAreValid'
    BY <2>1 DEF RunInv, RowsInv, ColdRowsAreValid
  <2>8. QED
    BY <2>4, <2>6, <2>7
<1>12. CASE KilledBeforeStep
  <2>1. run # Idle /\ run' = Idle /\ rows' = rows /\ budget' = budget /\ paid' = paid
    BY <1>12 DEF KilledBeforeStep, Return, At
  <2>2. \E k \in 1..5 : At(STEPS[k])
    BY <1>12, TheSteps DEF KilledBeforeStep
  <2>3. run.state \in State /\ run.doc \in Doc /\ Backed(run.doc, run.state)
    BY <2>2, MemoryIsBacked
  <2>4. (\A d \in Doc : Backed(d, saved[d]))'
    BY <1>12, <2>1, <2>3, BackedAfter DEF KilledBeforeStep, TypeOK
  <2>6. TypeOK'
    BY <1>12, <2>1, <2>3 DEF KilledBeforeStep, Return, TypeOK, AgentRunAssumption
  <2>7. RunInv' /\ RowsInv' /\ ColdRowsAreValid'
    BY <2>1 DEF RunInv, RowsInv, ColdRowsAreValid
  <2>8. QED
    BY <2>4, <2>6, <2>7
<1>13. CASE Die
  <2>1. run # Idle /\ run' = Idle /\ rows' = rows /\ budget' = budget /\ paid' = paid
    BY <1>13 DEF Die
  <2>4. (\A d \in Doc : Backed(d, saved[d]))'
    BY <1>13, BackedStays DEF Die
  <2>6. TypeOK'
    BY <1>13, <2>1 DEF Die, TypeOK, AgentRunAssumption
  <2>7. RunInv' /\ RowsInv' /\ ColdRowsAreValid'
    BY <2>1 DEF RunInv, RowsInv, ColdRowsAreValid
  <2>8. QED
    BY <2>4, <2>6, <2>7
<1>14. ASSUME NEW d \in Doc, Start(d) PROVE ResumeInv'
  <2> DEFINE state == IF Resume[d] THEN saved[d] ELSE Empty
  <2>1. /\ saved' = saved /\ rows' = rows /\ budget' = budget /\ outcome' = outcome
        /\ paid' = paid /\ kills' = kills
        /\ run' = [doc |-> d, at |-> 1, phase |-> "step", state |-> state]
    BY <1>14 DEF Start
  <2>2. state \in State
    BY DEF TypeOK, State, Empty, Record
  <2>3. PICK n \in 0..5 :
           /\ state.done = Prefix(n)
           /\ 3 <= n => state.record = Quality[d]
           /\ 5 <= n => rows[d] = Quality[d]
           /\ ~Resume[d] => n = 0
    <3>1. CASE Resume[d]
      BY <3>1 DEF Backed
    <3>2. CASE ~Resume[d]
      <4>1. state.done = Prefix(0)
        BY <3>2 DEF Prefix, Empty
      <4>2. QED
        BY <4>1
    <3>3. QED
      BY <3>1, <3>2
  <2>4. run' \in Running
    BY <2>1, <2>2, TheSteps DEF Running
  <2>5. TypeOK'
    BY <2>1, <2>4 DEF TypeOK
  <2>6. (\A e \in Doc : Backed(e, saved[e]))'
    BY <2>1, BackedStays
  <2>7. RunInv'
    BY <2>1, <2>3 DEF RunInv, Underway
  <2>8. RowsInv' /\ ColdRowsAreValid'
    BY <2>1 DEF RowsInv, ColdRowsAreValid
  <2>9. QED
    BY <2>5, <2>6, <2>7, <2>8
<1>15. QED
  BY <1>1, <1>2, <1>3, <1>4, <1>5, <1>6, <1>7, <1>8, <1>9, <1>10, <1>11, <1>12, <1>13,
     <1>14 DEF Next, Proceed

-----------------------------------------------------------------------------
(***************************************************************************)
(* AgentRun: what a resume costs                                           *)
(***************************************************************************)

\* Nothing is paid and nothing that was paid for is forgotten.
LEMMA PaidStays ==
    ASSUME TypeOK, TypeOK', PaidInv, paid' = paid, kills' = kills,
           \A d \in Doc : Resume[d] /\ Extracted(d) => Extracted(d)'
    PROVE  PaidInv'
<1>1. SUFFICES ASSUME NEW d \in Doc, Resume[d]
               PROVE  (paid[d] <= kills + (IF Extracted(d) THEN 1 ELSE 0))'
  BY DEF PaidInv
<1>2. paid[d] <= kills + (IF Extracted(d) THEN 1 ELSE 0) /\ paid[d] \in Nat /\ kills \in Nat
  BY <1>1 DEF PaidInv, TypeOK
<1>3. Extracted(d) => Extracted(d)'
  BY <1>1
<1>4. QED
  BY <1>2, <1>3

\* A kill pays for whatever it makes the run forget.
LEMMA PaidAfterKill ==
    ASSUME TypeOK, TypeOK', PaidInv, paid' = paid, kills' = kills + 1
    PROVE  PaidInv'
<1>1. SUFFICES ASSUME NEW d \in Doc, Resume[d]
               PROVE  (paid[d] <= kills + (IF Extracted(d) THEN 1 ELSE 0))'
  BY DEF PaidInv
<1>2. paid[d] <= kills + (IF Extracted(d) THEN 1 ELSE 0) /\ paid[d] \in Nat /\ kills \in Nat
  BY <1>1 DEF PaidInv, TypeOK
<1>3. paid[d] <= kills + 1
  BY <1>2
<1>4. QED
  BY <1>2, <1>3

LEMMA SpendStep ==
    AgentRunAssumption /\ AgentInv /\ ResumeInv' /\ [Next]_vars => SpendInv'
<1> SUFFICES ASSUME AgentRunAssumption, AgentInv, ResumeInv', [Next]_vars PROVE SpendInv'
  OBVIOUS
<1>0. TypeOK /\ TypeOK' /\ RunInv /\ RunInv' /\ PaidInv /\ BudgetHolds
  BY DEF AgentInv, ResumeInv, SpendInv
<1> SUFFICES PaidInv' /\ BudgetHolds'
  BY DEF SpendInv
<1>1. CASE UNCHANGED vars
  <2>1. BudgetHolds'
    BY <1>0, <1>1 DEF vars, BudgetHolds
  <2>2. PaidInv'
    BY <1>0, <1>1, PaidStays DEF vars, Extracted
  <2>3. QED
    BY <2>1, <2>2
<1>2. CASE Skip
  <2>1. BudgetHolds'
    BY <1>0, <1>2 DEF Skip, BudgetHolds
  <2>2. /\ run \in Running /\ saved' = saved /\ paid' = paid /\ kills' = kills
        /\ run.phase = "step" /\ run' # Idle
        /\ run'.doc = run.doc /\ run'.state.done = run.state.done
    BY <1>0, <1>2 DEF Skip, Performed, At, TypeOK, Running, Idle
  <2>3. \A d \in Doc : Extracted(d) => Extracted(d)'
    BY <2>2 DEF Extracted
  <2>4. QED
    BY <1>0, <2>1, <2>2, <2>3, PaidStays
<1>3. CASE Classify
  <2>1. BudgetHolds'
    BY <1>0, <1>3 DEF Classify, BudgetHolds, MayCall, Spent, TypeOK, AgentRunAssumption
  <2>2. /\ run \in Running /\ saved' = saved /\ paid' = paid /\ kills' = kills
        /\ run.phase = "step" /\ run' # Idle
        /\ run'.doc = run.doc /\ run'.state.done = run.state.done
    BY <1>0, <1>3 DEF Classify, Performed, At, TypeOK, Running, Idle
  <2>3. \A d \in Doc : Extracted(d) => Extracted(d)'
    BY <2>2 DEF Extracted
  <2>4. QED
    BY <1>0, <2>1, <2>2, <2>3, PaidStays
<1>4. CASE Retrieve
  <2>1. BudgetHolds'
    BY <1>0, <1>4 DEF Retrieve, BudgetHolds
  <2>2. /\ run \in Running /\ saved' = saved /\ paid' = paid /\ kills' = kills
        /\ run.phase = "step" /\ run' # Idle
        /\ run'.doc = run.doc /\ run'.state.done = run.state.done
    BY <1>0, <1>4 DEF Retrieve, Performed, At, TypeOK, Running, Idle
  <2>3. \A d \in Doc : Extracted(d) => Extracted(d)'
    BY <2>2 DEF Extracted
  <2>4. QED
    BY <1>0, <2>1, <2>2, <2>3, PaidStays
<1>6. CASE Validate
  <2>1. BudgetHolds'
    BY <1>0, <1>6 DEF Validate, BudgetHolds
  <2>2. /\ run \in Running /\ saved' = saved /\ paid' = paid /\ kills' = kills
        /\ run.phase = "step" /\ run' # Idle
        /\ run'.doc = run.doc /\ run'.state.done = run.state.done
    BY <1>0, <1>6 DEF Validate, Performed, At, TypeOK, Running, Idle
  <2>3. \A d \in Doc : Extracted(d) => Extracted(d)'
    BY <2>2 DEF Extracted
  <2>4. QED
    BY <1>0, <2>1, <2>2, <2>3, PaidStays
<1>8. CASE StoreRecord
  <2>1. BudgetHolds'
    BY <1>0, <1>8 DEF StoreRecord, BudgetHolds
  <2>2. /\ run \in Running /\ saved' = saved /\ paid' = paid /\ kills' = kills
        /\ run.phase = "step" /\ run' # Idle
        /\ run'.doc = run.doc /\ run'.state.done = run.state.done
    BY <1>0, <1>8 DEF StoreRecord, Performed, At, TypeOK, Running, Idle
  <2>3. \A d \in Doc : Extracted(d) => Extracted(d)'
    BY <2>2 DEF Extracted
  <2>4. QED
    BY <1>0, <2>1, <2>2, <2>3, PaidStays
<1>5. CASE Extract
  <2>1. BudgetHolds'
    BY <1>0, <1>5 DEF Extract, BudgetHolds, MayCall, Spent, TypeOK, AgentRunAssumption
  <2>2. At(STEPS[3]) /\ kills' = kills /\ saved' = saved
    BY <1>5, TheSteps DEF Extract
  <2>3. /\ run \in Running /\ run.at = 3 /\ run.phase = "step" /\ run.doc \in Doc
        /\ run.state.done = Prefix(2) /\ "extract" \notin run.state.done
        /\ Resume[run.doc] => saved[run.doc].done = run.state.done
    <3>1. run.doc \in Doc
      BY <1>0, <2>2, MemoryIsBacked
    <3>2. QED
      BY <1>0, <2>2, <3>1, AtPlace, PrefixNamed
  <2>4. run'.at = 3 /\ run'.phase = "save" /\ run'.doc = run.doc /\ run' # Idle
    BY <1>5, <2>3 DEF Extract, Running, Idle
  <2>5. paid' = [paid EXCEPT ![run.doc] = @ + 1]
    BY <1>5 DEF Extract
  <2>6. SUFFICES ASSUME NEW d \in Doc, Resume[d]
                 PROVE  (paid[d] <= kills + (IF Extracted(d) THEN 1 ELSE 0))'
    BY <2>1 DEF PaidInv
  <2>7. paid[d] <= kills + (IF Extracted(d) THEN 1 ELSE 0) /\ paid[d] \in Nat /\ kills \in Nat
    BY <1>0, <2>6 DEF PaidInv, TypeOK
  <2>8. CASE d = run.doc
    <3>1. ~Extracted(d) /\ Extracted(d)'
      BY <2>3, <2>4, <2>6, <2>8 DEF Extracted
    <3>2. paid'[d] = paid[d] + 1
      BY <1>0, <2>5, <2>8 DEF TypeOK
    <3>3. QED
      BY <2>2, <2>7, <3>1, <3>2
  <2>9. CASE d # run.doc
    <3>1. Extracted(d) <=> Extracted(d)'
      BY <2>2, <2>4, <2>9 DEF Extracted
    <3>2. paid'[d] = paid[d]
      BY <1>0, <2>5, <2>9 DEF TypeOK
    <3>3. QED
      BY <2>2, <2>7, <3>1, <3>2
  <2>10. QED
    BY <2>8, <2>9
<1>7. CASE Reject
  <2>1. BudgetHolds' /\ At(STEPS[4])
    BY <1>0, <1>7, TheSteps DEF Reject, BudgetHolds
  <2>2. /\ run \in Running /\ run.doc \in Doc /\ run.state \in State /\ run.phase = "step"
        /\ Resume[run.doc] => saved[run.doc].done = run.state.done
    BY <1>0, <2>1, AtPlace, MemoryIsBacked
  <2>3. /\ paid' = paid /\ kills' = kills
        /\ \A d \in Doc : d # run.doc => saved'[d] = saved[d]
        /\ run.state.done \subseteq saved'[run.doc].done
    BY <1>0, <1>7, <2>2 DEF Reject, TypeOK, State
  <2>4. \A d \in Doc : Resume[d] /\ Extracted(d) => Extracted(d)'
    BY <2>2, <2>3 DEF Extracted
  <2>5. QED
    BY <1>0, <2>1, <2>3, <2>4, PaidStays
<1>9. CASE Save
  <2>1. BudgetHolds' /\ run # Idle /\ run.phase = "save"
    BY <1>0, <1>9 DEF Save, BudgetHolds
  <2>2. /\ run \in Running /\ run.at \in 1..5 /\ run.doc \in Doc /\ run.state \in State
        /\ Resume[run.doc] => saved[run.doc].done = run.state.done
    BY <1>0, <2>1, SavePlace DEF Running
  <2>3. /\ paid' = paid /\ kills' = kills
        /\ \A d \in Doc : d # run.doc => saved'[d] = saved[d]
        /\ saved'[run.doc].done = run.state.done \cup {STEPS[run.at]}
    BY <1>0, <1>9, <2>2 DEF Save, TypeOK, State
  <2>4. \A d \in Doc : Resume[d] /\ Extracted(d) => Extracted(d)'
    BY <2>2, <2>3, TheSteps DEF Extracted
  <2>5. QED
    BY <1>0, <2>1, <2>3, <2>4, PaidStays
<1>10. CASE Finish
  <2>1. BudgetHolds' /\ run # Idle /\ run.at = 6
    BY <1>0, <1>10, TheSteps DEF Finish, BudgetHolds
  <2>2. /\ paid' = paid /\ kills' = kills /\ saved' = saved
    BY <1>10 DEF Finish
  <2>3. /\ run \in Running /\ run.doc \in Doc
        /\ Resume[run.doc] => saved[run.doc].done = run.state.done
    BY <1>0, <2>1 DEF TypeOK, Running, RunInv
  <2>4. \A d \in Doc : Resume[d] /\ Extracted(d) => Extracted(d)'
    BY <2>1, <2>2, <2>3 DEF Extracted
  <2>5. QED
    BY <1>0, <2>1, <2>2, <2>4, PaidStays
<1>11. CASE Halt
  <2>1. BudgetHolds' /\ \E k \in 1..5 : At(STEPS[k])
    BY <1>0, <1>11, TheSteps DEF Halt, BudgetHolds
  <2>2. /\ run \in Running /\ run.doc \in Doc /\ run.state \in State /\ run.phase = "step"
        /\ Resume[run.doc] => saved[run.doc].done = run.state.done
    BY <1>0, <2>1, AtPlace, MemoryIsBacked
  <2>3. /\ paid' = paid /\ kills' = kills
        /\ \A d \in Doc : d # run.doc => saved'[d] = saved[d]
        /\ saved'[run.doc].done = run.state.done
    BY <1>0, <1>11, <2>2 DEF Halt, TypeOK, State
  <2>4. \A d \in Doc : Resume[d] /\ Extracted(d) => Extracted(d)'
    BY <2>2, <2>3 DEF Extracted
  <2>5. QED
    BY <1>0, <2>1, <2>3, <2>4, PaidStays
<1>12. CASE KilledBeforeStep
  <2>1. BudgetHolds' /\ paid' = paid /\ kills' = kills + 1
    BY <1>0, <1>12 DEF KilledBeforeStep, BudgetHolds
  <2>2. QED
    BY <1>0, <2>1, PaidAfterKill
<1>13. CASE Die
  <2>1. BudgetHolds' /\ paid' = paid /\ kills' = kills + 1
    BY <1>0, <1>13 DEF Die, BudgetHolds
  <2>2. QED
    BY <1>0, <2>1, PaidAfterKill
<1>14. ASSUME NEW d \in Doc, Start(d) PROVE PaidInv' /\ BudgetHolds'
  <2>1. BudgetHolds' /\ paid' = paid /\ kills' = kills /\ saved' = saved /\ run = Idle
    BY <1>0, <1>14 DEF Start, BudgetHolds
  <2>2. \A e \in Doc : Extracted(e) => Extracted(e)'
    BY <2>1 DEF Extracted
  <2>3. QED
    BY <1>0, <2>1, <2>2, PaidStays
<1>15. QED
  BY <1>1, <1>2, <1>3, <1>4, <1>5, <1>6, <1>7, <1>8, <1>9, <1>10, <1>11, <1>12, <1>13,
     <1>14 DEF Next, Proceed

-----------------------------------------------------------------------------
LEMMA AgentInvHolds == Spec => []AgentInv
<1>1. AgentRunAssumption /\ AgentInv /\ [Next]_vars => AgentInv'
  BY ResumeStep, SpendStep DEF AgentInv
<1>2. QED
  BY AgentRunAssumption, InitAgentInv, <1>1, PTL DEF Spec

\* Wherever the process is killed, a checkpoint says only what was done, and a
\* document that starts afresh every time leaves no invalid row.
THEOREM ResumeStaysSound == Spec => []ResumeIsSound
<1>1. AgentInv => ResumeIsSound
  <2>1. SUFFICES ASSUME AgentInv, NEW d \in Doc
        PROVE  /\ \E n \in 0..Len(STEPS) : saved[d].done = {STEPS[i] : i \in 1..n}
               /\ "extract" \in saved[d].done => saved[d].record = Quality[d]
               /\ "store" \in saved[d].done => rows[d] = saved[d].record
    BY DEF AgentInv, ResumeInv, ResumeIsSound, CheckpointIsBacked
  <2>2. PICK n \in 0..5 : /\ saved[d].done = Prefix(n)
                          /\ 3 <= n => saved[d].record = Quality[d]
                          /\ 5 <= n => rows[d] = Quality[d]
    BY <2>1 DEF AgentInv, ResumeInv, Backed
  <2>3. \E m \in 0..Len(STEPS) : saved[d].done = {STEPS[i] : i \in 1..m}
    BY <2>2, TheSteps DEF Prefix
  <2>4. ("extract" \in saved[d].done => 3 <= n) /\ ("store" \in saved[d].done => 3 <= n /\ 5 <= n)
    BY <2>2, PrefixNamed
  <2>5. QED
    BY <2>2, <2>3, <2>4
<1>2. QED
  BY <1>1, AgentInvHolds, PTL

\* A kill costs at most one more extraction, and no sequence of runs, halts and
\* kills spends past the budget by more than the unestimated classify.
THEOREM SpendStaysBounded == Spec => []SpendIsBounded
<1>1. AgentInv => SpendIsBounded
  <2>1. SUFFICES ASSUME AgentInv, NEW d \in Doc, Resume[d]
        PROVE  paid[d] <= 1 + kills
    BY DEF AgentInv, SpendInv, SpendIsBounded, PaidOncePerKill
  <2>2. /\ paid[d] <= kills + (IF Extracted(d) THEN 1 ELSE 0)
        /\ paid[d] \in Nat /\ kills \in Nat
    BY <2>1 DEF AgentInv, SpendInv, PaidInv, ResumeInv, TypeOK
  <2>3. QED
    BY <2>2
<1>2. QED
  BY <1>1, AgentInvHolds, PTL

-----------------------------------------------------------------------------
(***************************************************************************)
(* AgentLoop: the flag `validated` means what it says                      *)
(***************************************************************************)

\* The flag is set only for a record that validates, and a pipeline has no run.
FlagInv ==
    /\ loopRun.validated => LoopValid(loopRun.doc) /\ LoopRunning
    /\ runner = "pipeline" => loopRun = NoRun

LoopInv == LoopTypeOK /\ FlagInv /\ ClaimsAreValidated

LEMMA LoopTypeStep == LoopAssumption /\ LoopInv /\ [LoopNext]_loopVars => LoopTypeOK'
<1> SUFFICES ASSUME LoopAssumption, LoopInv, [LoopNext]_loopVars PROVE LoopTypeOK'
  OBVIOUS
<1> USE DEF LoopInv, LoopTypeOK
<1>0. /\ NoRun \in [doc : LoopDoc \cup {NoDoc}, steps : 0..MaxSteps, record : BOOLEAN, validated : BOOLEAN]
      /\ NoSpend \in [calls : 0..LoopCalls, cost : Nat]
      /\ LoopRunning => loopRun.doc \in LoopDoc
      /\ MaxSteps \in Nat /\ LoopCalls \in Nat /\ CallCost \in Nat
      /\ LoopQuality \in [LoopDoc -> {"valid", "invalid", "unparsed"}]
  BY DEF NoRun, NoSpend, LoopRunning, LoopAssumption
<1> USE DEF Ended, LoopEnds, LoopStep, MayStep
<1>1. CASE UNCHANGED loopVars
  BY <1>1 DEF loopVars
<1>2. ASSUME NEW d \in LoopDoc, Pipeline(d) PROVE LoopTypeOK'
  BY <1>2 DEF Pipeline
<1>3. ASSUME NEW d \in LoopDoc, StartRun(d) PROVE LoopTypeOK'
  <2>1. loopRun' = [NoRun EXCEPT !.doc = d]
    BY <1>3 DEF StartRun
  <2>2. loopRun' \in [doc : LoopDoc \cup {NoDoc}, steps : 0..MaxSteps, record : BOOLEAN, validated : BOOLEAN]
    BY <1>0, <2>1
  <2>3. QED
    BY <1>3, <2>2 DEF StartRun
<1>4. CASE Look
  BY <1>4 DEF Look
<1>5. CASE LoopExtract
  <2>1. CASE MayCallModel
    <3>1. loopBudget' \in [calls : 0..LoopCalls, cost : Nat]
      BY <1>0, <1>5, <2>1 DEF LoopExtract, MayCallModel
    <3> DEFINE after == [loopRun EXCEPT !.record = LoopQuality[loopRun.doc] # "unparsed",
                                        !.validated = FALSE]
    <3>2. /\ after \in [doc : LoopDoc \cup {NoDoc}, steps : 0..MaxSteps, record : BOOLEAN, validated : BOOLEAN]
          /\ after.steps = loopRun.steps
      OBVIOUS
    <3>3. loopRun' = [after EXCEPT !.steps = after.steps + 1] /\ loopRun.steps < MaxSteps
      BY <1>5, <2>1 DEF LoopExtract
    <3> HIDE DEF after
    <3>4. loopRun' \in [doc : LoopDoc \cup {NoDoc}, steps : 0..MaxSteps, record : BOOLEAN, validated : BOOLEAN]
      BY <1>0, <3>2, <3>3
    <3>5. QED
      BY <1>5, <2>1, <3>1, <3>4 DEF LoopExtract
  <2>2. CASE ~MayCallModel
    BY <1>0, <1>5, <2>2 DEF LoopExtract
  <2>3. QED
    BY <2>1, <2>2
<1>6. CASE LoopValidate
  <2> DEFINE after == [loopRun EXCEPT !.validated = LoopValid(loopRun.doc)]
  <2>1. LoopValid(loopRun.doc) \in BOOLEAN
    BY DEF LoopValid
  <2>2. /\ after \in [doc : LoopDoc \cup {NoDoc}, steps : 0..MaxSteps, record : BOOLEAN, validated : BOOLEAN]
        /\ after.steps = loopRun.steps
    BY <2>1
  <2>3. loopRun' = [after EXCEPT !.steps = after.steps + 1] /\ loopRun.steps < MaxSteps
    BY <1>6 DEF LoopValidate
  <2> HIDE DEF after
  <2>4. loopRun' \in [doc : LoopDoc \cup {NoDoc}, steps : 0..MaxSteps, record : BOOLEAN, validated : BOOLEAN]
    BY <1>0, <2>2, <2>3
  <2>5. QED
    BY <1>6, <2>4 DEF LoopValidate
<1>7. CASE LoopStoreRecord
  BY <1>0, <1>7 DEF LoopStoreRecord
<1>8. CASE LoopFinish
  BY <1>0, <1>8 DEF LoopFinish
<1>9. CASE StepLimit
  BY <1>0, <1>9 DEF StepLimit
<1>10. QED
  BY <1>1, <1>2, <1>3, <1>4, <1>5, <1>6, <1>7, <1>8, <1>9 DEF LoopNext

LEMMA LoopStepInv == LoopAssumption /\ LoopInv /\ [LoopNext]_loopVars => FlagInv' /\ ClaimsAreValidated'
<1> SUFFICES ASSUME LoopAssumption, LoopInv, [LoopNext]_loopVars
             PROVE  FlagInv' /\ ClaimsAreValidated'
  OBVIOUS
<1> USE DEF LoopInv, LoopTypeOK, FlagInv, ClaimsAreValidated, EndedAs, LoopEnds, LoopStep, MayStep
<1>0. LoopRunning => loopRun.doc \in LoopDoc /\ runner = "agent"
  BY DEF LoopRunning, NoRun
<1>1. CASE UNCHANGED loopVars
  BY <1>1 DEF loopVars, LoopRunning
<1>2. ASSUME NEW d \in LoopDoc, Pipeline(d) PROVE FlagInv' /\ ClaimsAreValidated'
  BY <1>2 DEF Pipeline, LoopRunning, LoopValid
<1>3. ASSUME NEW d \in LoopDoc, StartRun(d) PROVE FlagInv' /\ ClaimsAreValidated'
  BY <1>3 DEF StartRun, NoRun
<1>4. CASE Look
  BY <1>0, <1>4 DEF Look, LoopRunning
<1>5. CASE LoopExtract
  <2>1. CASE MayCallModel
    <3>1. /\ UNCHANGED <<runner, storeRows, unvalidated, outcomes>>
          /\ loopRun'.doc = loopRun.doc /\ ~loopRun'.validated
          /\ loopBudget' = [calls |-> loopBudget.calls + 1, cost |-> loopBudget.cost + CallCost]
      <4> DEFINE after == [loopRun EXCEPT !.record = LoopQuality[loopRun.doc] # "unparsed",
                                          !.validated = FALSE]
      <4>1. loopRun' = [after EXCEPT !.steps = after.steps + 1]
        BY <1>5, <2>1 DEF LoopExtract
      <4>2. after.doc = loopRun.doc /\ ~after.validated /\ DOMAIN after = DOMAIN loopRun
        OBVIOUS
      <4>3. DOMAIN after = {"doc", "steps", "record", "validated"}
        BY <4>2
      <4>4. QED
        <5> HIDE DEF after
        <5>1. loopRun'.doc = loopRun.doc /\ ~loopRun'.validated
          BY <4>1, <4>2, <4>3
        <5>2. QED
          BY <1>5, <2>1, <5>1 DEF LoopExtract
    <3>2. loopBudget'.cost + CallEstimate <= LoopCost + CallCost
      <4>1. {CallCost, CallEstimate, LoopCost} \subseteq Nat
        BY DEF LoopAssumption
      <4>2. QED
        BY <2>1, <3>1, <4>1 DEF MayCallModel
    <3>3. QED
      BY <1>0, <1>5, <3>1, <3>2 DEF LoopExtract, LoopRunning
  <2>2. CASE ~MayCallModel
    BY <1>0, <1>5, <2>2 DEF LoopExtract, LoopRunning, NoRun, NoSpend
  <2>3. QED
    BY <2>1, <2>2
<1>6. CASE LoopValidate
  BY <1>0, <1>6 DEF LoopValidate, LoopRunning
<1>7. CASE LoopStoreRecord
  BY <1>0, <1>7 DEF LoopStoreRecord, LoopRunning, NoRun, NoSpend
<1>8. CASE LoopFinish
  BY <1>0, <1>8 DEF LoopFinish, LoopRunning, NoRun, NoSpend
<1>9. CASE StepLimit
  BY <1>0, <1>9 DEF StepLimit, LoopRunning, NoRun, NoSpend
<1>10. QED
  BY <1>1, <1>2, <1>3, <1>4, <1>5, <1>6, <1>7, <1>8, <1>9 DEF LoopNext

LEMMA LoopInvHolds == LoopSpec => []LoopInv
<1>1. LoopAssumption /\ LoopInit => LoopInv
  BY DEF LoopAssumption, LoopInit, LoopInv, LoopTypeOK, FlagInv, ClaimsAreValidated, EndedAs,
         NoRun, NoSpend
<1>2. LoopAssumption /\ LoopInv /\ [LoopNext]_loopVars => LoopInv'
  BY LoopTypeStep, LoopStepInv DEF LoopInv
<1>3. QED
  BY LoopAssumption, <1>1, <1>2, PTL DEF LoopSpec

\* However often the model stores a record it has not validated, the loop claims
\* success only for one that validates, and the pipeline stores no other.
THEOREM ClaimsStayValidated == LoopSpec => []ClaimsAreValidated
<1>1. LoopInv => ClaimsAreValidated
  BY DEF LoopInv
<1>2. QED
  BY LoopInvHolds, <1>1, PTL

-----------------------------------------------------------------------------
(***************************************************************************)
(* The two side by side                                                    *)
(***************************************************************************)

\* Whichever of the two runs, each starts and moves as it does alone.
LEMMA LabParts ==
    /\ LabInit => Init /\ LoopInit
    /\ [LabNext]_labVars => [Next]_vars /\ [LoopNext]_loopVars
<1>1. UNCHANGED labVars => UNCHANGED <<vars, loopVars>>
  BY DEF labVars
<1>2. QED
  BY <1>1 DEF LabInit, LabNext

\* The variables of the run and of the loop keep their types: no run reads past
\* its five steps, makes more calls than the budget has or is in a state
\* the code has no name for.
THEOREM AgentTypes == LabSpec => []LabTypeOK
<1>1. Spec => []AgentInv
  BY AgentInvHolds
<1>2. LoopSpec => []LoopInv
  BY LoopInvHolds
<1>3. AgentInv /\ LoopInv => LabTypeOK
  BY DEF AgentInv, ResumeInv, LoopInv, LabTypeOK
<1>4. LabSpec => Spec /\ LoopSpec
  BY LabParts, PTL DEF LabSpec, Spec, LoopSpec
<1>5. QED
  BY <1>1, <1>2, <1>3, <1>4, PTL
=============================================================================
