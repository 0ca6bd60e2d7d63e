--------------------------- MODULE JobQueueProofs ---------------------------
(***************************************************************************)
(* Who gets served and what a release runs.  First the fencing argument of *)
(* jobs_lab.py, for any number of workers, jobs, sweeps and ticks; then    *)
(* the failure queue, the batch scheduler, the event service, the settings *)
(* and the pins, each by its own invariant; at the end the six together.   *)
(*                                                                         *)
(* A token is only worth something because it never returns: the token a   *)
(* worker carries is at most the one in the row (TokensBounded), so the    *)
(* one a claim hands out is new.  A kept result carries the row's current  *)
(* token, and the row is done, so it is not claimed again.  A second       *)
(* accepted complete() would need that same token in another worker's      *)
(* hands.                                                                  *)
(***************************************************************************)
EXTENDS MCJobQueue, DataLemmas

Working(w) == pc[w] = "work"

\* Tokens in workers' hands and in kept results never exceed the row's.
TokensBounded ==
    /\ \A w \in Worker :
        Working(w) => /\ row[w].job \in JobId
                      /\ row[w].fence <= jobs[row[w].job].fence
    /\ \A a \in written :
        /\ a.job \in JobId
        /\ a.fence <= jobs[a.job].fence
        /\ jobs[a.job].state = "done"

\* The inductive invariant that holds with and without fencing.
TokenInv == TypeOK /\ Len(jobs) <= MaxJobs /\ TokensBounded /\ DistinctTokens

\* With fencing on, what makes a second write impossible.
FenceInv == TokenInv /\ WrittenByLastHolder /\ AtMostOneWrite

-----------------------------------------------------------------------------
(***************************************************************************)
(* Rows of the table                                                       *)
(***************************************************************************)

\* Replacing one row leaves a table of rows with the same identifiers.
LEMMA ReplaceRow ==
    ASSUME NEW s \in Seq(JobRow), NEW j \in DOMAIN s, NEW r \in JobRow,
           NEW t, t = [s EXCEPT ![j] = r]
    PROVE  /\ t \in Seq(JobRow)
           /\ DOMAIN t = DOMAIN s
           /\ Len(t) = Len(s)
           /\ t[j] = r
           /\ \A i \in DOMAIN s : i # j => t[i] = s[i]
<1>1. DOMAIN s = 1..Len(s)
  BY LenProperties
<1>2. t \in Seq(JobRow) /\ Len(t) = Len(s)
  BY <1>1, ExceptSeq
<1>3. QED
  BY <1>1, <1>2

\* A claimed row is a row, with a token larger than the one it replaces.
LEMMA LeasedRow ==
    ASSUME JobQueueAssumption, NEW r \in JobRow, now \in Nat
    PROVE  /\ Leased(r) \in JobRow
           /\ Leased(r).fence = r.fence + 1
           /\ Leased(r).attempts = r.attempts + 1
           /\ Leased(r).state = "leased"
  BY DEF JobQueueAssumption, Leased, JobRow, JobState

\* The rows of a well-typed table.
LEMMA RowTyped ==
    ASSUME TypeOK, NEW j \in JobId
    PROVE  jobs[j] \in JobRow /\ j \in Nat \ {0}
<1>1. jobs \in Seq(JobRow) /\ JobId = 1..Len(jobs) /\ Len(jobs) \in Nat
  BY LenProperties DEF TypeOK, JobId
<1>2. QED
  BY <1>1, ElementOfSeq

\* What claim() does to the table and to the worker.
LEMMA ClaimEffect ==
    ASSUME JobQueueAssumption, TypeOK, NEW w \in Worker, Claim(w)
    PROVE  \E j \in JobId :
            /\ Claimable(j)
            /\ jobs' \in Seq(JobRow) /\ JobId' = JobId /\ Len(jobs') = Len(jobs)
            /\ jobs'[j].fence = jobs[j].fence + 1
            /\ \A i \in JobId : i # j => jobs'[i] = jobs[i]
            /\ row'[w].job = j /\ row'[w].fence = jobs[j].fence + 1
            /\ row'[w] \in ClaimedRow
            /\ row' \in [Worker -> ClaimedRow]
            /\ \A v \in Worker : v # w => row'[v] = row[v]
            /\ pc' = [pc EXCEPT ![w] = "work"]
            /\ UNCHANGED <<now, written, sweeps, use_lease>>
<1>1. PICK j \in JobId :
        /\ NextJob(j)
        /\ jobs' = [jobs EXCEPT ![j] = Leased(jobs[j])]
        /\ row' = [row EXCEPT ![w] = [job |-> j,
                                      fence |-> Leased(jobs[j]).fence,
                                      attempts |-> Leased(jobs[j]).attempts]]
  BY DEF Claim
<1>2. jobs[j] \in JobRow /\ j \in Nat \ {0}
  BY RowTyped
<1>3. /\ Leased(jobs[j]) \in JobRow
      /\ Leased(jobs[j]).fence = jobs[j].fence + 1
      /\ Leased(jobs[j]).attempts = jobs[j].attempts + 1
  BY <1>2, LeasedRow DEF TypeOK
<1>4. /\ jobs' \in Seq(JobRow) /\ JobId' = JobId /\ Len(jobs') = Len(jobs)
      /\ jobs'[j] = Leased(jobs[j])
      /\ \A i \in JobId : i # j => jobs'[i] = jobs[i]
  <2>1. jobs \in Seq(JobRow) /\ j \in DOMAIN jobs
    BY DEF TypeOK, JobId
  <2>2. QED
    BY <1>1, <1>3, <2>1, ReplaceRow DEF JobId
<1>5. /\ row'[w] = [job |-> j, fence |-> Leased(jobs[j]).fence,
                    attempts |-> Leased(jobs[j]).attempts]
      /\ \A v \in Worker : v # w => row'[v] = row[v]
  BY <1>1 DEF TypeOK
<1>6. row'[w] \in ClaimedRow
  BY <1>5, <1>3, <1>2 DEF ClaimedRow, JobRow
<1>7. row' \in [Worker -> ClaimedRow]
  BY <1>1, <1>5, <1>6 DEF TypeOK
<1>8. QED
  BY <1>1, <1>3, <1>4, <1>5, <1>6, <1>7 DEF NextJob, Claim

\* What an accepted complete() does to the table.
LEMMA CompleteEffect ==
    ASSUME TypeOK, TokensBounded, NEW w \in Worker, Complete(w)
    PROVE  LET j == row[w].job IN
            /\ Working(w) /\ j \in JobId
            /\ jobs' \in Seq(JobRow) /\ JobId' = JobId /\ Len(jobs') = Len(jobs)
            /\ jobs'[j].fence = jobs[j].fence /\ jobs'[j].state = "done"
            /\ \A i \in JobId : i # j => jobs'[i] = jobs[i]
<1> DEFINE j == row[w].job
           r == [jobs[j] EXCEPT !.state = "done"]
<1>1. Working(w) /\ j \in JobId
  BY DEF Complete, Working, TokensBounded
<1>2. jobs[j] \in JobRow
  BY <1>1, RowTyped
<1>3. r \in JobRow /\ r.fence = jobs[j].fence /\ r.state = "done"
  BY <1>2 DEF JobRow, JobState
<1>4. jobs' = [jobs EXCEPT ![j] = r]
  BY DEF Complete
<1>5. /\ jobs' \in Seq(JobRow) /\ JobId' = JobId /\ Len(jobs') = Len(jobs)
      /\ jobs'[j] = r
      /\ \A i \in JobId : i # j => jobs'[i] = jobs[i]
  <2>1. jobs \in Seq(JobRow) /\ j \in DOMAIN jobs
    BY <1>1 DEF TypeOK, JobId
  <2> HIDE DEF r, j
  <2>2. QED
    BY <1>3, <1>4, <2>1, ReplaceRow DEF JobId
<1>6. QED
  BY <1>1, <1>3, <1>5

\* What enqueue() does to the table.
LEMMA EnqueueEffect ==
    ASSUME JobQueueAssumption, TypeOK, Enqueue
    PROVE  /\ jobs' \in Seq(JobRow) /\ Len(jobs') <= MaxJobs
           /\ JobId \subseteq JobId'
           /\ \A i \in JobId : jobs'[i] = jobs[i]
<1>1. NewRow \in JobRow
  BY DEF NewRow, JobRow, JobState
<1>2. jobs \in Seq(JobRow) /\ jobs' = Append(jobs, NewRow) /\ Len(jobs) < MaxJobs
  BY DEF TypeOK, Enqueue
<1>3. Len(jobs) \in Nat /\ DOMAIN jobs = 1..Len(jobs)
  BY <1>2, LenProperties
<1>4. jobs' \in Seq(JobRow) /\ Len(jobs') = Len(jobs) + 1
      /\ \A i \in 1..Len(jobs) : jobs'[i] = jobs[i]
  BY <1>1, <1>2, AppendProperties
<1>5. DOMAIN jobs' = 1..Len(jobs')
  BY <1>4, LenProperties
<1>6. QED
  BY <1>2, <1>3, <1>4, <1>5 DEF JobId, JobQueueAssumption
-----------------------------------------------------------------------------
(***************************************************************************)
(* The inductive invariants                                                *)
(***************************************************************************)

LEMMA InitTokenInv == JobQueueAssumption /\ Init => TokenInv
<1> SUFFICES ASSUME JobQueueAssumption, Init PROVE TokenInv
  OBVIOUS
<1>1. NewRow \in JobRow /\ NoRow \in ClaimedRow
  BY DEF NewRow, JobRow, JobState, NoRow, ClaimedRow
<1>2. jobs \in Seq(JobRow) /\ Len(jobs) = InitialJobs
  BY <1>1, IsASeq DEF Init, JobQueueAssumption
<1>3. TypeOK
  BY <1>1, <1>2 DEF Init, TypeOK
<1>4. TokensBounded /\ DistinctTokens
  BY DEF Init, TokensBounded, DistinctTokens, Working
<1>5. QED
  BY <1>2, <1>3, <1>4 DEF TokenInv, JobQueueAssumption

\* A step that leaves the table, the workers' rows and the results alone, and
\* puts no further worker to work, keeps the invariant.
LEMMA QuietStep ==
    ASSUME TokenInv,
           jobs' = jobs, row' = row, written' = written, use_lease' = use_lease,
           now' \in Nat, sweeps' \in Nat,
           pc' \in [Worker -> {"loop", "work", "stopped"}],
           \A w \in Worker : Working(w)' => Working(w)
    PROVE  TokenInv'
<1>1. TypeOK'
  BY DEF TokenInv, TypeOK
<1>2. TokensBounded'
  BY DEF TokenInv, TokensBounded, JobId
<1>3. DistinctTokens'
  BY DEF TokenInv, DistinctTokens, Working
<1>4. QED
  BY <1>1, <1>2, <1>3 DEF TokenInv

LEMMA NextTokenInv == JobQueueAssumption /\ TokenInv /\ [Next]_vars => TokenInv'
<1> SUFFICES ASSUME JobQueueAssumption, TokenInv, [Next]_vars PROVE TokenInv'
  OBVIOUS
<1>0. TypeOK /\ TokensBounded /\ DistinctTokens /\ Len(jobs) <= MaxJobs
  BY DEF TokenInv
<1>1. CASE Enqueue
  <2>1. /\ jobs' \in Seq(JobRow) /\ Len(jobs') <= MaxJobs
        /\ JobId \subseteq JobId'
        /\ \A i \in JobId : jobs'[i] = jobs[i]
    BY <1>0, <1>1, EnqueueEffect
  <2>2. UNCHANGED <<now, pc, row, written, sweeps, use_lease>>
    BY <1>1 DEF Enqueue
  <2>3. TypeOK'
    BY <1>0, <2>1, <2>2 DEF TypeOK
  <2>4. TokensBounded'
    BY <1>0, <2>1, <2>2 DEF TokensBounded, Working
  <2>5. DistinctTokens'
    BY <1>0, <2>2 DEF DistinctTokens
  <2>6. QED
    BY <2>1, <2>3, <2>4, <2>5 DEF TokenInv
<1>2. CASE Sweep
  <2>1. now' \in Nat /\ sweeps' \in Nat
    BY <1>0, <1>2 DEF Sweep, TypeOK, JobQueueAssumption
  <2>2. pc' \in [Worker -> {"loop", "work", "stopped"}]
        /\ \A w \in Worker : ~Working(w)'
    BY <1>2 DEF Sweep, Working
  <2>3. QED
    BY <1>2, <2>1, <2>2, QuietStep DEF Sweep
<1>3. CASE Tick
  BY <1>0, <1>3, QuietStep DEF Tick, TypeOK, Working
<1>4. ASSUME NEW w \in Worker, Claim(w) PROVE TokenInv'
  <2>1. PICK j \in JobId :
          /\ Claimable(j)
          /\ jobs' \in Seq(JobRow) /\ JobId' = JobId /\ Len(jobs') = Len(jobs)
          /\ jobs'[j].fence = jobs[j].fence + 1
          /\ \A i \in JobId : i # j => jobs'[i] = jobs[i]
          /\ row'[w].job = j /\ row'[w].fence = jobs[j].fence + 1
          /\ row'[w] \in ClaimedRow
          /\ row' \in [Worker -> ClaimedRow]
          /\ \A v \in Worker : v # w => row'[v] = row[v]
          /\ pc' = [pc EXCEPT ![w] = "work"]
          /\ UNCHANGED <<now, written, sweeps, use_lease>>
    BY <1>0, <1>4, ClaimEffect
  <2>2. jobs[j].state # "done" /\ jobs[j].fence \in Nat
    BY <1>0, <2>1, RowTyped DEF Claimable, JobRow
  <2>3. \A v \in Worker : v # w => (Working(v)' <=> Working(v))
    BY <1>0, <2>1 DEF Working, TypeOK
  <2>4. \A a \in written : a.job # j
    BY <1>0, <2>2 DEF TokensBounded
  <2>5. \A v \in Worker : (Working(v) /\ row[v].job = j) => row[v].fence <= jobs[j].fence
    BY <1>0 DEF TokensBounded
  <2>6. \A v \in Worker : row[v].fence \in Nat
    BY <1>0 DEF TypeOK, ClaimedRow
  <2>7. TypeOK'
    BY <1>0, <2>1 DEF TypeOK
  <2>8. TokensBounded'
    <3>1. ASSUME NEW v \in Worker, Working(v)'
          PROVE  row'[v].job \in JobId' /\ row'[v].fence <= jobs'[row'[v].job].fence
      <4>1. CASE v = w
        BY <2>1, <2>2, <4>1
      <4>2. CASE v # w /\ row[v].job = j
        BY <2>1, <2>2, <2>5, <2>6, <2>3, <3>1, <4>2
      <4>3. CASE v # w /\ row[v].job # j
        BY <1>0, <2>1, <2>3, <3>1, <4>3 DEF TokensBounded
      <4>4. QED
        BY <4>1, <4>2, <4>3
    <3>2. ASSUME NEW a \in written'
          PROVE  /\ a.job \in JobId' /\ a.fence <= jobs'[a.job].fence
                 /\ jobs'[a.job].state = "done"
      BY <1>0, <2>1, <2>4, <3>2 DEF TokensBounded
    <3>3. QED
      BY <3>1, <3>2 DEF TokensBounded
  <2>9. DistinctTokens'
    <3>1. ASSUME NEW v \in Worker, v # w, Working(v), row[v].job = j
          PROVE  row'[v].fence # row'[w].fence
      BY <2>1, <2>2, <2>5, <2>6, <3>1
    <3>2. ASSUME NEW u \in Worker, NEW v \in Worker, pc'[u] = "work", pc'[v] = "work",
                 u # v, row'[u].job = row'[v].job
          PROVE  row'[u].fence # row'[v].fence
      <4>1. CASE u # w /\ v # w
        BY <1>0, <2>1, <2>3, <3>2, <4>1 DEF DistinctTokens, Working
      <4>2. CASE u = w
        BY <2>1, <2>3, <3>1, <3>2, <4>2 DEF Working
      <4>3. CASE v = w
        BY <2>1, <2>3, <3>1, <3>2, <4>3 DEF Working
      <4>4. QED
        BY <4>1, <4>2, <4>3
    <3>3. ASSUME NEW a \in written', NEW v \in Worker, pc'[v] = "work",
                 row'[v].job = a.job
          PROVE  row'[v].fence # a.fence
      <4>1. a \in written /\ a.job # j
        BY <2>1, <2>4, <3>3
      <4>2. v # w
        BY <2>1, <3>3, <4>1
      <4>3. QED
        BY <1>0, <2>1, <2>3, <3>3, <4>1, <4>2 DEF DistinctTokens, Working
    <3>4. QED
      BY <3>2, <3>3 DEF DistinctTokens
  <2>10. QED
    BY <1>0, <2>1, <2>7, <2>8, <2>9 DEF TokenInv
<1>5. ASSUME NEW w \in Worker, Exit(w) \/ Die(w) \/ Discard(w) PROVE TokenInv'
  BY <1>0, <1>5, QuietStep DEF Exit, Die, Discard, TypeOK, Working
<1>6. ASSUME NEW w \in Worker, Complete(w) PROVE TokenInv'
  <2> DEFINE j == row[w].job
             a0 == [worker |-> w, job |-> j, fence |-> row[w].fence]
  <2>1. /\ Working(w) /\ j \in JobId
        /\ jobs' \in Seq(JobRow) /\ JobId' = JobId /\ Len(jobs') = Len(jobs)
        /\ jobs'[j].fence = jobs[j].fence /\ jobs'[j].state = "done"
        /\ \A i \in JobId : i # j => jobs'[i] = jobs[i]
    BY <1>0, <1>6, CompleteEffect
  <2>2. /\ written' = written \cup {a0}
        /\ pc' = [pc EXCEPT ![w] = "loop"]
        /\ UNCHANGED <<now, row, sweeps, use_lease>>
    BY <1>6 DEF Complete
  <2>3. a0 \in Write /\ a0.job = j /\ a0.fence = row[w].fence
    BY <1>0 DEF Write, TypeOK, ClaimedRow
  <2>4. \A v \in Worker : Working(v)' => Working(v) /\ v # w
    BY <1>0, <2>2 DEF Working, TypeOK
  <2>5. \A i \in JobId : jobs'[i].fence = jobs[i].fence
                         /\ (jobs[i].state = "done" => jobs'[i].state = "done")
    BY <2>1
  <2> HIDE DEF j, a0
  <2>6. TypeOK'
    BY <1>0, <2>1, <2>2, <2>3 DEF TypeOK
  <2>7. TokensBounded'
    BY <1>0, <2>1, <2>2, <2>3, <2>4, <2>5 DEF TokensBounded, j
  <2>8. DistinctTokens'
    <3>1. ASSUME NEW a \in written', NEW v \in Worker, pc'[v] = "work",
                 row'[v].job = a.job
          PROVE  row'[v].fence # a.fence
      <4>1. Working(v) /\ v # w /\ row[v].job = a.job
        BY <2>2, <2>4, <3>1 DEF Working
      <4>2. CASE a \in written
        BY <1>0, <2>2, <4>1, <4>2 DEF DistinctTokens, Working
      <4>3. CASE a = a0
        BY <1>0, <2>1, <2>2, <2>3, <4>1, <4>3 DEF DistinctTokens, Working, j
      <4>4. QED
        BY <2>2, <3>1, <4>2, <4>3
    <3>2. \A u, v \in Worker :
            (pc'[u] = "work" /\ pc'[v] = "work" /\ u # v /\ row'[u].job = row'[v].job)
                => row'[u].fence # row'[v].fence
      BY <1>0, <2>2, <2>4 DEF DistinctTokens, Working
    <3>3. QED
      BY <3>1, <3>2 DEF DistinctTokens
  <2>9. QED
    BY <1>0, <2>1, <2>6, <2>7, <2>8 DEF TokenInv
<1>7. CASE UNCHANGED vars
  BY <1>0, <1>7, QuietStep DEF vars, TypeOK, Working
<1>8. QED
  BY <1>1, <1>2, <1>3, <1>4, <1>5, <1>6, <1>7 DEF Next, Step

\* With the fence checked, the step that keeps a result is the last one that can.
LEMMA NextFenceInv ==
    ASSUME Fencing, JobQueueAssumption
    PROVE  FenceInv /\ [Next]_vars => FenceInv'
<1> SUFFICES ASSUME FenceInv, [Next]_vars PROVE FenceInv'
  OBVIOUS
<1>0. /\ TokenInv /\ WrittenByLastHolder /\ AtMostOneWrite
      /\ TypeOK /\ TokensBounded /\ DistinctTokens
  BY DEF FenceInv, TokenInv
<1>1. SUFFICES WrittenByLastHolder' /\ AtMostOneWrite'
  BY <1>0, NextTokenInv DEF FenceInv
<1>2. ASSUME written' = written, JobId \subseteq JobId',
             \A i \in JobId : jobs[i].state = "done" =>
                jobs'[i].state = "done" /\ jobs'[i].fence = jobs[i].fence
      PROVE  WrittenByLastHolder' /\ AtMostOneWrite'
  BY <1>0, <1>2 DEF WrittenByLastHolder, AtMostOneWrite
<1>3. CASE Enqueue
  BY <1>0, <1>2, <1>3, EnqueueEffect DEF Enqueue
<1>4. CASE Sweep \/ Tick \/ UNCHANGED vars
  BY <1>2, <1>4 DEF Sweep, Tick, vars, JobId
<1>5. ASSUME NEW w \in Worker, Exit(w) \/ Die(w) \/ Discard(w)
      PROVE  WrittenByLastHolder' /\ AtMostOneWrite'
  BY <1>2, <1>5 DEF Exit, Die, Discard, JobId
<1>6. ASSUME NEW w \in Worker, Claim(w)
      PROVE  WrittenByLastHolder' /\ AtMostOneWrite'
  BY <1>0, <1>2, <1>6, ClaimEffect DEF Claimable
<1>7. ASSUME NEW w \in Worker, Complete(w)
      PROVE  WrittenByLastHolder' /\ AtMostOneWrite'
  <2> DEFINE j == row[w].job
             a0 == [worker |-> w, job |-> j, fence |-> row[w].fence]
  <2>1. /\ Working(w) /\ j \in JobId /\ JobId' = JobId
        /\ jobs'[j].fence = jobs[j].fence /\ jobs'[j].state = "done"
        /\ \A i \in JobId : i # j => jobs'[i] = jobs[i]
    BY <1>0, <1>7, CompleteEffect
  <2>2. written' = written \cup {a0} /\ jobs[j].fence = row[w].fence
    BY <1>7 DEF Complete, MayComplete
  <2>3. a0.job = j /\ a0.fence = row[w].fence
    OBVIOUS
  <2>4. \A a \in written : a.job # j
    BY <1>0, <2>1, <2>2 DEF WrittenByLastHolder, DistinctTokens, Working
  <2> HIDE DEF a0, j
  <2>5. WrittenByLastHolder'
    BY <1>0, <2>1, <2>2, <2>3, <2>4 DEF WrittenByLastHolder
  <2>6. AtMostOneWrite'
    BY <1>0, <2>2, <2>3, <2>4 DEF AtMostOneWrite
  <2>7. QED
    BY <2>5, <2>6
<1>8. QED
  BY <1>3, <1>4, <1>5, <1>6, <1>7 DEF Next, Step

-----------------------------------------------------------------------------
(***************************************************************************)
(* Theorems                                                                *)
(***************************************************************************)

\* Every reachable state is well typed.
THEOREM TypeCorrect == Spec => []TypeOK
<1>1. Init => TokenInv
  BY InitTokenInv, JobQueueAssumption
<1>2. TokenInv /\ [Next]_vars => TokenInv'
  BY NextTokenInv, JobQueueAssumption
<1>3. TokenInv => TypeOK
  BY DEF TokenInv
<1>4. QED
  BY <1>1, <1>2, <1>3, PTL DEF Spec

\* claim() never hands out a token twice for one job, fenced or not.
THEOREM TokensNeverRepeat == Spec => []DistinctTokens
<1>1. Init => TokenInv
  BY InitTokenInv, JobQueueAssumption
<1>2. TokenInv /\ [Next]_vars => TokenInv'
  BY NextTokenInv, JobQueueAssumption
<1>3. TokenInv => DistinctTokens
  BY DEF TokenInv
<1>4. QED
  BY <1>1, <1>2, <1>3, PTL DEF Spec

LEMMA InitFenceInv == JobQueueAssumption /\ Init => FenceInv
  BY InitTokenInv DEF FenceInv, Init, WrittenByLastHolder, AtMostOneWrite

\* With the fence checked, the invariant that carries the whole argument.
LEMMA FenceInvariant == ASSUME Fencing PROVE Spec => []FenceInv
<1>1. Init => FenceInv
  BY InitFenceInv, JobQueueAssumption
<1>2. FenceInv /\ [Next]_vars => FenceInv'
  BY NextFenceInv, JobQueueAssumption
<1>3. QED
  BY <1>1, <1>2, PTL DEF Spec

\* With the fence checked, tokens tell the holders apart, no job gets two
\* results, and the one it gets is its last holder's.
THEOREM FenceDecides == ASSUME Fencing PROVE Spec => []FencedWrites
<1>1. FenceInv => FencedWrites
  BY DEF FenceInv, TokenInv, FencedWrites
<1>2. QED
  BY <1>1, FenceInvariant, PTL

\* With the fence checked, at most one result is kept for a job.
THEOREM OneWrite == ASSUME Fencing PROVE Spec => []AtMostOneWrite
<1>1. FenceInv => AtMostOneWrite
  BY DEF FenceInv
<1>2. QED
  BY <1>1, FenceInvariant, PTL

\* With the fence checked, a result is the one of the last lease handed out.
THEOREM LastHolderWrites == ASSUME Fencing PROVE Spec => []WrittenByLastHolder
<1>1. FenceInv => WrittenByLastHolder
  BY DEF FenceInv
<1>2. QED
  BY <1>1, FenceInvariant, PTL

-----------------------------------------------------------------------------
(***************************************************************************)
(* Refinement                                                              *)
(***************************************************************************)

\* The mapped result of a job that has a kept result is that result's worker.
LEMMA ResultOf ==
    ASSUME AtMostOneWrite, NEW a \in written, a.job \in 1..MaxJobs
    PROVE  Results[a.job] = a.worker
<1> DEFINE c == CHOOSE b \in written : b.job = a.job
<1>1. c \in written /\ c.job = a.job
  OBVIOUS
<1>2. c = a
  BY <1>1 DEF AtMostOneWrite
<1>3. QED
  BY <1>2 DEF Results

\* A step that keeps no result is a stutter of the promise.
LEMMA StutterRefines == written' = written => Results' = Results
  BY DEF Results

\* An accepted complete() is one Keep step of the promise.
LEMMA CompleteRefines ==
    ASSUME JobQueueAssumption, FenceInv, AtMostOneWrite', Fencing,
           NEW w \in Worker, Complete(w)
    PROVE  Queue!Next
<1> DEFINE j == row[w].job
           a0 == [worker |-> w, job |-> j, fence |-> row[w].fence]
<1>0. /\ TypeOK /\ TokensBounded /\ WrittenByLastHolder /\ AtMostOneWrite
      /\ DistinctTokens /\ Len(jobs) <= MaxJobs
  BY DEF FenceInv, TokenInv
<1>1. Working(w) /\ j \in JobId
  BY <1>0, CompleteEffect
<1>2. JobId = 1..Len(jobs) /\ Len(jobs) \in Nat
  BY <1>0, LenProperties DEF TypeOK, JobId
<1>3. j \in 1..MaxJobs
  BY <1>0, <1>1, <1>2 DEF JobQueueAssumption
<1>4. written' = written \cup {a0} /\ jobs[j].fence = row[w].fence
  BY DEF Complete, MayComplete
<1>5. \A a \in written : a.job # j
  BY <1>0, <1>1, <1>4 DEF WrittenByLastHolder, DistinctTokens, Working
<1>6. a0 \in written' /\ a0.job = j /\ a0.worker = w
  BY <1>4
<1> HIDE DEF a0, j
<1>7. Results[j] = None
  BY <1>3, <1>5 DEF Results
<1>8. Results'[j] = w
  <2> DEFINE c == CHOOSE b \in written' : b.job = j
  <2>1. c \in written' /\ c.job = j
    BY <1>6
  <2>2. c = a0
    BY <2>1, <1>6 DEF AtMostOneWrite
  <2>3. QED
    BY <1>3, <1>6, <2>2 DEF Results
<1>9. ASSUME NEW i \in 1..MaxJobs, i # j PROVE Results'[i] = Results[i]
  <2>1. \A a : (a \in written' /\ a.job = i) <=> (a \in written /\ a.job = i)
    BY <1>4, <1>6, <1>9
  <2>2. (\E a \in written' : a.job = i) <=> (\E a \in written : a.job = i)
    BY <2>1
  <2>3. (CHOOSE a \in written' : a.job = i) = (CHOOSE a \in written : a.job = i)
    BY <2>1
  <2>4. QED
    BY <2>2, <2>3 DEF Results
<1>10. Results' = [Results EXCEPT ![j] = w]
  <2>1. /\ Results = [i \in 1..MaxJobs |-> Results[i]]
        /\ Results' = [i \in 1..MaxJobs |-> Results'[i]]
    BY DEF Results
  <2>2. QED
    BY <1>3, <1>8, <1>9, <2>1
<1>11. QED
  BY <1>3, <1>7, <1>10 DEF Queue!Next, Queue!Keep

\* Every step of the job table is a step of the promise or a stutter.
LEMMA StepRefines ==
    ASSUME JobQueueAssumption, Fencing
    PROVE  FenceInv /\ FenceInv' /\ [Next]_vars => [Queue!Next]_Results
<1> SUFFICES ASSUME FenceInv, FenceInv', [Next]_vars PROVE [Queue!Next]_Results
  OBVIOUS
<1>1. ASSUME NEW w \in Worker, Complete(w) PROVE [Queue!Next]_Results
  BY <1>1, CompleteRefines DEF FenceInv
<1>2. ASSUME written' = written PROVE [Queue!Next]_Results
  BY <1>2, StutterRefines
<1>3. QED
  BY <1>1, <1>2 DEF Next, Step, Enqueue, Sweep, Tick, Claim, Exit, Die, Discard, vars

\* With the fence checked, the job table keeps the promise of WorkOnce.
THEOREM Refinement == ASSUME Fencing PROVE Spec => KeepsEachResultOnce
<1>1. Init => Queue!Init
  BY DEF Init, Queue!Init, Results
<1>2. FenceInv /\ FenceInv' /\ [Next]_vars => [Queue!Next]_Results
  BY StepRefines, JobQueueAssumption
<1>3. QED
  BY <1>1, <1>2, FenceInvariant, PTL DEF Spec, Queue!Spec, KeepsEachResultOnce

-----------------------------------------------------------------------------
(***************************************************************************)
(* FailureQueue: a healthy item never gets past its first attempt, and the *)
(* heap lets no retry overtake a first attempt.                            *)
(***************************************************************************)

QueueInv ==
    /\ FqTypeOK /\ PoisonIsContained
    /\ \A e, o \in ready : e[1] = o[1] => e = o
    /\ \A e \in ready : e[1] \notin Poison => e[2] = 0

LEMMA LimitIsNat == fqPolicy \in {ParkAtOnce, ThreeTries, Forever} => Limit \in Nat
  BY FailureQueueAssumption DEF FailureQueueAssumption, Limit, ParkAtOnce, ThreeTries, Forever

\* What is popped is in the heap, and is a first attempt while there is one.
LEMMA DueFirst ==
    ASSUME FqTypeOK, NEW e \in Due
    PROVE  /\ e \in ready
           /\ FirstAttempts # {} => e[2] = 0
<1>1. CASE FirstAttempts = {}
  BY <1>1 DEF Due
<1>2. CASE FirstAttempts # {}
  <2> DEFINE items == {o[1] : o \in FirstAttempts}
  <2>1. FirstAttempts \subseteq QueueItem \X (0..Limit) /\ FirstAttempts \subseteq ready
    BY DEF FirstAttempts, FqTypeOK
  <2>2. items \in SUBSET Nat /\ items # {}
    BY <1>2, <2>1, FailureQueueAssumption DEF FailureQueueAssumption
  <2>3. PICK m : m \in items /\ \A n \in items : m <= n
    <3> HIDE DEF items
    <3>1. QED
      BY <2>2, MinOfNumbers
  <2>4. \E f \in FirstAttempts : \A o \in FirstAttempts : f[1] <= o[1]
    BY <2>3
  <2>5. e = CHOOSE f \in FirstAttempts : \A o \in FirstAttempts : f[1] <= o[1]
    BY <1>2 DEF Due
  <2>6. e \in FirstAttempts
    <3> DEFINE P(f) == \A o \in FirstAttempts : f[1] <= o[1]
    <3>1. \E f \in FirstAttempts : P(f)
      BY <2>4
    <3>2. e = CHOOSE f \in FirstAttempts : P(f)
      BY <2>5
    <3> HIDE DEF P
    <3>3. QED
      BY <3>1, <3>2
  <2>7. QED
    BY <2>6 DEF FirstAttempts
<1>3. QED
  BY <1>1, <1>2

LEMMA FailedFinite == FqTypeOK => IsFiniteSet(Failed) /\ Cardinality(Failed) \in Nat
<1> SUFFICES ASSUME FqTypeOK PROVE IsFiniteSet(Failed) /\ Cardinality(Failed) \in Nat
  OBVIOUS
<1>1. Limit \in Nat /\ 0 \in Int /\ Limit \in Int
  BY LimitIsNat DEF FqTypeOK
<1>2. IsFiniteSet(0..Limit)
  BY <1>1, FS_Interval
<1>3. IsFiniteSet(QueueItem \X (0..Limit))
  BY <1>2, FS_Product, FailureQueueAssumption DEF FailureQueueAssumption
<1>4. Failed \in SUBSET (QueueItem \X (0..Limit))
  BY DEF Failed
<1>5. QED
  BY <1>3, <1>4, FS_Subset, FS_CardinalityType

LEMMA InitQueue == FqInit => QueueInv
<1> SUFFICES ASSUME FqInit PROVE QueueInv
  OBVIOUS
<1>1. Limit \in Nat
  BY LimitIsNat DEF FqInit
<1>2. /\ ready = QueueItem \X {0} /\ done = {} /\ parked = {} /\ retries = 0
      /\ Poison \subseteq QueueItem
  BY FailureQueueAssumption DEF FqInit, FailureQueueAssumption
<1>3. FqTypeOK
  BY <1>1, <1>2 DEF FqTypeOK, FqInit
<1>4. Failed = {}
  BY <1>1, <1>2 DEF Failed
<1>5. retries = Cardinality(Failed)
  BY <1>2, <1>4, FS_EmptySet
<1>6. Waiting = QueueItem
  <2>1. \A i \in QueueItem : <<i, 0>> \in ready /\ <<i, 0>>[1] = i
    BY <1>2
  <2>2. \A e \in ready : e[1] \in QueueItem
    BY <1>2
  <2>3. QED
    BY <2>1, <2>2 DEF Waiting
<1>7. \A e \in ready : e[2] = 0 /\ e = <<e[1], 0>>
  BY <1>2
<1>8. QED
  BY <1>2, <1>3, <1>5, <1>6, <1>7 DEF QueueInv, PoisonIsContained

LEMMA NextQueue == QueueInv /\ [FqNext]_fqVars => QueueInv'
<1> SUFFICES ASSUME QueueInv, [FqNext]_fqVars PROVE QueueInv'
  OBVIOUS
<1>0. /\ FqTypeOK /\ Limit \in Nat
      /\ ready \subseteq QueueItem \X (0..Limit)
      /\ done \subseteq QueueItem /\ parked \subseteq QueueItem /\ retries \in Nat
      /\ Waiting \cup done \cup parked = QueueItem
      /\ Waiting \cap done = {} /\ Waiting \cap parked = {}
      /\ done \cap Poison = {} /\ parked \subseteq Poison
      /\ retries = Cardinality(Failed)
      /\ FirstAttempts # {} => \A e \in ready : e[2] <= 1
      /\ \A e, o \in ready : e[1] = o[1] => e = o
      /\ \A e \in ready : e[1] \notin Poison => e[2] = 0
      /\ Poison \subseteq QueueItem
  BY LimitIsNat, FailureQueueAssumption DEF QueueInv, FqTypeOK, PoisonIsContained, FailureQueueAssumption
<1>1. IsFiniteSet(Failed) /\ Cardinality(Failed) \in Nat
  BY <1>0, FailedFinite
<1>2. CASE UNCHANGED fqVars
  <2>1. UNCHANGED <<fqPolicy, ready, done, parked, retries>>
    BY <1>2 DEF fqVars
  <2>2. Limit' = Limit /\ Waiting' = Waiting /\ FirstAttempts' = FirstAttempts /\ Failed' = Failed
    BY <2>1 DEF Limit, Waiting, FirstAttempts, Failed
  <2>3. FqTypeOK'
    BY <1>0, <2>1, <2>2 DEF FqTypeOK
  <2>4. PoisonIsContained'
    BY <1>0, <2>1, <2>2 DEF PoisonIsContained
  <2>5. QED
    BY <1>0, <2>1, <2>3, <2>4 DEF QueueInv
<1>3. ASSUME NEW e \in Due, Succeeds(e) \/ PutBack(e) \/ Park(e) PROVE QueueInv'
  <2>1. e \in ready /\ (FirstAttempts # {} => e[2] = 0)
    BY <1>0, DueFirst
  <2>2. PICK i \in QueueItem, n \in 0..Limit : e = <<i, n>> /\ e[1] = i /\ e[2] = n
    BY <1>0, <2>1
  <2>3. fqPolicy' = fqPolicy /\ Limit' = Limit
    BY <1>3 DEF Succeeds, PutBack, Park, Limit
  <2>4. i \in Waiting /\ i \notin done /\ i \notin parked
    BY <1>0, <2>1, <2>2 DEF Waiting
  <2>5. \A o \in ready \ {e} : o \in ready /\ o[1] # i
    BY <1>0, <2>1, <2>2
  <2>6. \A j \in Waiting : j = i \/ \E o \in ready \ {e} : o[1] = j
    BY <2>2 DEF Waiting
  <2>7. CASE Succeeds(e)
    <3>1. /\ i \notin Poison /\ n = 0
          /\ ready' = ready \ {e} /\ done' = done \cup {i}
          /\ parked' = parked /\ retries' = retries
      BY <1>0, <2>1, <2>2, <2>7 DEF Succeeds
    <3>2. Waiting' = Waiting \ {i}
      BY <2>5, <2>6, <3>1 DEF Waiting
    <3>3. Failed' = Failed
      <4>1. \A f \in QueueItem \X (0..Limit) :
              (\E o \in ready : o[1] = f[1] /\ f[2] < o[2]) <=>
              (\E o \in ready \ {e} : o[1] = f[1] /\ f[2] < o[2])
        BY <2>2, <3>1
      <4>2. QED
        BY <2>3, <3>1, <4>1 DEF Failed
    <3>4. FqTypeOK'
      BY <1>0, <2>2, <2>3, <3>1 DEF FqTypeOK
    <3>5. FirstAttempts' \subseteq FirstAttempts
      BY <3>1 DEF FirstAttempts
    <3>6. PoisonIsContained'
      BY <1>0, <2>4, <3>1, <3>2, <3>3, <3>5 DEF PoisonIsContained
    <3>7. QED
      BY <1>0, <3>1, <3>4, <3>6 DEF QueueInv
  <2>8. CASE PutBack(e)
    <3> DEFINE again == <<i, n + 1>>
    <3>1. /\ i \in Poison /\ n < Limit /\ n \in Nat
          /\ ready' = (ready \ {e}) \cup {again}
          /\ done' = done /\ parked' = parked /\ retries' = retries + 1
      BY <1>0, <2>2, <2>8 DEF PutBack
    <3>2. again[1] = i /\ again[2] = n + 1 /\ again \in QueueItem \X (0..Limit)
      BY <1>0, <3>1
    <3> HIDE DEF again
    <3>3. Waiting' = Waiting
      <4>1. \A j : j \in Waiting' <=> \E o \in ready' : o[1] = j
        BY DEF Waiting
      <4>2. \A j : j \in Waiting <=> \E o \in ready : o[1] = j
        BY DEF Waiting
      <4>3. QED
        BY <2>2, <2>1, <3>1, <3>2, <4>1, <4>2
    <3>4. Failed' = Failed \cup {<<i, n>>} /\ <<i, n>> \notin Failed
      <4>1. ASSUME NEW f \in QueueItem \X (0..Limit)
            PROVE  (\E o \in ready' : o[1] = f[1] /\ f[2] < o[2]) <=>
                      (\E o \in ready : o[1] = f[1] /\ f[2] < o[2]) \/ f = <<i, n>>
        <5>1. f[2] \in Nat /\ f = <<f[1], f[2]>>
          BY <1>0
        <5>2. ASSUME NEW o \in ready', o[1] = f[1], f[2] < o[2]
              PROVE  (\E x \in ready : x[1] = f[1] /\ f[2] < x[2]) \/ f = <<i, n>>
          <6>1. CASE o \in ready
            BY <5>2, <6>1
          <6>2. CASE o = again
            <7>1. f[1] = i /\ (f[2] < n \/ f[2] = n)
              BY <3>1, <3>2, <5>1, <5>2, <6>2
            <7>2. QED
              BY <2>1, <2>2, <5>1, <7>1
          <6>3. QED
            BY <3>1, <6>1, <6>2
        <5>3. ASSUME NEW o \in ready, o[1] = f[1], f[2] < o[2]
              PROVE  \E x \in ready' : x[1] = f[1] /\ f[2] < x[2]
          <6>1. CASE o = e
            <7>1. again \in ready' /\ again[1] = f[1] /\ f[2] < again[2]
              BY <2>2, <3>1, <3>2, <5>1, <5>3, <6>1
            <7>2. QED
              BY <7>1
          <6>2. CASE o # e
            BY <3>1, <5>3, <6>2
          <6>3. QED
            BY <6>1, <6>2
        <5>4. ASSUME f = <<i, n>> PROVE \E x \in ready' : x[1] = f[1] /\ f[2] < x[2]
          <6>1. again \in ready' /\ again[1] = f[1] /\ f[2] < again[2]
            BY <3>1, <3>2, <5>4
          <6>2. QED
            BY <6>1
        <5>5. QED
          BY <5>2, <5>3, <5>4
      <4>2. <<i, n>> \in QueueItem \X (0..Limit) /\ <<i, n>>[1] = i /\ <<i, n>>[2] = n
        OBVIOUS
      <4>3. \A o \in ready : o[1] = i => ~ (n < o[2])
        BY <2>2, <2>5, <3>1
      <4>4. <<i, n>> \notin Failed
        BY <2>4, <4>2, <4>3 DEF Failed
      <4>5. Failed' = {f \in QueueItem \X (0..Limit) :
                         f[1] \in parked \/ \E o \in ready' : o[1] = f[1] /\ f[2] < o[2]}
        BY <2>3, <3>1 DEF Failed
      <4>6. Failed' = Failed \cup {<<i, n>>}
        BY <4>1, <4>2, <4>5 DEF Failed
      <4>7. QED
        BY <4>4, <4>6
    <3>5. Cardinality(Failed') = Cardinality(Failed) + 1
      BY <1>1, <3>4, FS_AddElement
    <3>6. FqTypeOK'
      BY <1>0, <2>3, <3>1, <3>2 DEF FqTypeOK
    <3>7. FirstAttempts' # {} => \A o \in ready' : o[2] <= 1
      <4>1. FirstAttempts' \subseteq FirstAttempts
        BY <3>1, <3>2 DEF FirstAttempts
      <4>2. FirstAttempts # {} => n = 0
        BY <2>1, <2>2
      <4>3. QED
        BY <1>0, <3>1, <3>2, <4>1, <4>2
    <3>8. PoisonIsContained'
      BY <1>0, <3>1, <3>3, <3>5, <3>7 DEF PoisonIsContained
    <3>9. QED
      BY <1>0, <2>5, <3>1, <3>2, <3>6, <3>8 DEF QueueInv
  <2>9. CASE Park(e)
    <3>1. /\ i \in Poison /\ n >= Limit /\ n \in Nat /\ n = Limit
          /\ ready' = ready \ {e} /\ parked' = parked \cup {i}
          /\ done' = done /\ retries' = retries + 1
      BY <1>0, <2>2, <2>9 DEF Park
    <3>2. Waiting' = Waiting \ {i}
      BY <2>5, <2>6, <3>1 DEF Waiting
    <3>3. Failed' = Failed \cup {<<i, n>>} /\ <<i, n>> \notin Failed
      <4>1. <<i, n>> \in QueueItem \X (0..Limit) /\ <<i, n>>[1] = i /\ <<i, n>>[2] = n
        OBVIOUS
      <4>2. \A o \in ready : o[1] = i => o[2] = n
        BY <2>2, <2>5
      <4>3. <<i, n>> \notin Failed
        BY <2>4, <3>1, <4>1, <4>2 DEF Failed
      <4>4. ASSUME NEW f \in QueueItem \X (0..Limit)
            PROVE  f \in Failed' <=> f \in Failed \/ f = <<i, n>>
        <5>1. /\ f[2] \in 0..Limit /\ f = <<f[1], f[2]>> /\ e \in ready /\ e[1] = i /\ e[2] = n
          BY <2>1, <2>2
        <5>2. f \in Failed' <=> f[1] \in parked' \/ \E o \in ready' : o[1] = f[1] /\ f[2] < o[2]
          BY <2>3 DEF Failed
        <5>3. f \in Failed <=> f[1] \in parked \/ \E o \in ready : o[1] = f[1] /\ f[2] < o[2]
          BY DEF Failed
        <5>4. CASE f[1] = i
          <6>1. f[2] < n \/ f[2] = n
            BY <1>0, <3>1, <5>1
          <6>2. f \in Failed'
            BY <3>1, <5>2, <5>4
          <6>3. f \in Failed \/ f = <<i, n>>
            BY <5>1, <5>3, <5>4, <6>1
          <6>4. QED
            BY <6>2, <6>3
        <5>5. CASE f[1] # i
          <6>1. f # <<i, n>>
            BY <4>1, <5>5
          <6>2. (\E o \in ready' : o[1] = f[1] /\ f[2] < o[2]) <=>
                (\E o \in ready : o[1] = f[1] /\ f[2] < o[2])
            BY <2>2, <3>1, <5>5
          <6>3. QED
            BY <3>1, <5>2, <5>3, <5>5, <6>1, <6>2
        <5>6. QED
          BY <5>4, <5>5
      <4>5. Failed' \subseteq QueueItem \X (0..Limit) /\ Failed \subseteq QueueItem \X (0..Limit)
        BY <2>3 DEF Failed
      <4>6. QED
        BY <4>1, <4>3, <4>4, <4>5
    <3>4. Cardinality(Failed') = Cardinality(Failed) + 1
      BY <1>1, <3>3, FS_AddElement
    <3>5. FqTypeOK'
      BY <1>0, <2>3, <3>1 DEF FqTypeOK
    <3>6. FirstAttempts' \subseteq FirstAttempts
      BY <3>1 DEF FirstAttempts
    <3>7. PoisonIsContained'
      BY <1>0, <2>4, <3>1, <3>2, <3>4, <3>6 DEF PoisonIsContained
    <3>8. QED
      BY <1>0, <3>1, <3>5, <3>7 DEF QueueInv
  <2>10. QED
    BY <1>3, <2>7, <2>8, <2>9
<1>4. QED
  BY <1>2, <1>3 DEF FqNext, Attempt, FqDone

\* One queue with items that can never succeed: whatever the items and whichever
\* of them are poison, a poison item costs its own retries and nothing else.
LEMMA QueueHolds == FqSpec => []QueueInv
  BY InitQueue, NextQueue, PTL DEF FqSpec

-----------------------------------------------------------------------------
(***************************************************************************)
(* BatchScheduler: how far each request of the batch has come              *)
(***************************************************************************)

\* pieces of its prompt that a request starts with
Prompt(r) == IF sched.chunked THEN Chunks[r] ELSE 0

\* A step of the engine brings every request that still decodes one step closer;
\* only a static batch keeps a request that has nothing left.
OnItsWay(r) ==
    /\ left[r] > 0 => age[r] + prefill[r] + left[r] = Need(r)
    /\ left[r] = 0 => sched.policy = "static" /\ prefill[r] = 0 /\ age[r] >= Need(r)

BatchInv ==
    /\ SchedTypeOK /\ NobodyWaitsForLongest
    /\ \A r \in Requests : r > admitted => age[r] = 0 /\ left[r] = Tokens[r] /\ prefill[r] = Prompt(r)
    /\ \A r \in active : OnItsWay(r)
    /\ sched.policy = "static" /\ active # {} => \E r \in active : left[r] > 0

LEMMA SchedConstants ==
    /\ Len(Tokens) \in Nat /\ Requests = 1..Len(Tokens)
    /\ \A r \in Requests : Tokens[r] \in Nat \ {0} /\ Chunks[r] \in Nat
    /\ MaxBatch \in Nat \ {0}
    /\ Slots \in Nat \ {0}
    /\ \A r \in Requests : Prompt(r) \in Nat /\ Need(r) = Prompt(r) + Tokens[r] /\ Need(r) \in Nat
<1>1. /\ Len(Tokens) \in Nat /\ Requests = 1..Len(Tokens)
      /\ \A r \in Requests : Tokens[r] \in Nat \ {0}
  BY SchedulerAssumption DEF SchedulerAssumption, Requests
<1>2. \A r \in Requests : Chunks[r] \in Nat
  BY SchedulerAssumption DEF SchedulerAssumption, Requests
<1>3. MaxBatch \in Nat \ {0} /\ Slots \in Nat \ {0}
  BY SchedulerAssumption DEF SchedulerAssumption, Slots
<1>4. QED
  BY <1>1, <1>2, <1>3 DEF Prompt, Need

\* A block of consecutive requests.
LEMMA Block ==
    ASSUME NEW a \in Nat, NEW n \in Nat
    PROVE  /\ IsFiniteSet((a + 1)..(a + n)) /\ Cardinality((a + 1)..(a + n)) = n
           /\ 1..(a + n) = (1..a) \cup (a + 1)..(a + n)
           /\ \A r \in (a + 1)..(a + n) : r \in Nat /\ r > a /\ r >= 1
<1>1. a + 1 \in Int /\ a + n \in Int /\ (a + 1 <= a + n <=> n >= 1) /\ a + n - (a + 1) + 1 = n
  OBVIOUS
<1>2. IsFiniteSet((a + 1)..(a + n)) /\ Cardinality((a + 1)..(a + n)) = n
  <2>1. CASE n >= 1
    BY <1>1, <2>1, FS_Interval
  <2>2. CASE n = 0
    <3>1. (a + 1)..(a + n) = {}
      BY <2>2
    <3>2. QED
      BY <2>2, <3>1, FS_EmptySet
  <2>3. QED
    BY <2>1, <2>2
<1>3. QED
  BY <1>2

\* Free slots are filled from the queue as far as either goes.
LEMMA Filling ==
    ASSUME SchedTypeOK, NobodyWaitsForLongest, NEW n, n = Admissible
    PROVE  /\ n \in Nat /\ admitted + n <= arrived
           /\ IsFiniteSet(active) /\ Cardinality(active) \in Nat
           /\ Cardinality(active) + n <= Slots
           /\ sched.policy = "static" /\ n > 0 => active = {}
           /\ sched.policy # "static" /\ admitted + n < arrived => Cardinality(active) + n = Slots
<1>0. /\ arrived \in Nat /\ admitted \in Nat /\ admitted <= arrived /\ Slots \in Nat
  BY SchedConstants DEF SchedTypeOK
<1>1. IsFiniteSet(active) /\ Cardinality(active) \in Nat /\ Cardinality(active) <= Slots
  <2>1. Requests = 1..Len(Tokens) /\ 1 \in Int /\ Len(Tokens) \in Int
    BY SchedConstants
  <2>2. IsFiniteSet(Requests)
    BY <2>1, FS_Interval
  <2>3. active \in SUBSET Requests /\ Cardinality(active) <= Slots
    BY DEF SchedTypeOK, NobodyWaitsForLongest
  <2>4. QED
    BY <2>2, <2>3, FS_Subset, FS_CardinalityType
<1>2. PICK S : S = {arrived - admitted, Slots - Cardinality(active)}
  OBVIOUS
<1>3. S \in SUBSET Nat /\ S # {}
  BY <1>0, <1>1, <1>2
<1>4. Min(S) \in S /\ \A k \in S : Min(S) <= k
  BY <1>3, MinOfNumbers
<1>5. n = IF CanAdmit THEN Min(S) ELSE 0
  BY <1>2 DEF Admissible
<1>6. CASE CanAdmit
  <2>1. n \in S /\ n \in Nat /\ n <= arrived - admitted /\ n <= Slots - Cardinality(active)
    BY <1>2, <1>3, <1>4, <1>5, <1>6
  <2>2. sched.policy = "static" => active = {}
    BY <1>6 DEF CanAdmit
  <2>3. n = arrived - admitted \/ n = Slots - Cardinality(active)
    BY <1>2, <2>1
  <2>4. QED
    BY <1>0, <1>1, <2>1, <2>2, <2>3
<1>7. CASE ~CanAdmit
  <2>1. n = 0 /\ sched.policy = "static"
    BY <1>5, <1>7 DEF CanAdmit
  <2>2. QED
    BY <1>0, <1>1, <2>1
<1>8. QED
  BY <1>6, <1>7

LEMMA InitBatch == SchedInit => BatchInv
<1> SUFFICES ASSUME SchedInit PROVE BatchInv
  OBVIOUS
<1>1. \A r \in Requests : prefill[r] = Prompt(r) /\ age[r] = 0 /\ left[r] = Tokens[r]
  BY DEF SchedInit, Prompt
<1>2. SchedTypeOK
  <2>1. Tokens \in [Requests -> Nat]
    BY SchedulerAssumption, SchedConstants DEF SchedulerAssumption
  <2>2. prefill \in [Requests -> Nat]
    BY SchedConstants DEF SchedInit
  <2>3. arrived \in 0..Len(Tokens) /\ admitted \in 0..arrived
    BY SchedConstants DEF SchedInit
  <2>4. QED
    BY <2>1, <2>2, <2>3 DEF SchedInit, SchedTypeOK
<1>3. active = {} /\ served = {} /\ admitted = 0 /\ idled = 0 /\ 1..0 = {}
  BY DEF SchedInit
<1>4. Cardinality(active) = 0
  BY <1>3, FS_EmptySet
<1>5. Cardinality(active) <= Slots
  BY <1>4, SchedConstants
<1>6. NobodyWaitsForLongest
  BY <1>3, <1>5 DEF NobodyWaitsForLongest
<1>7. QED
  BY <1>1, <1>2, <1>3, <1>6 DEF BatchInv

LEMMA EngineKeepsBatch == BatchInv /\ EngineStep => BatchInv'
<1> SUFFICES ASSUME BatchInv, EngineStep PROVE BatchInv'
  OBVIOUS
<1>0. /\ SchedTypeOK /\ NobodyWaitsForLongest
      /\ sched \in [policy : {"none", "static", "continuous"}, chunked : BOOLEAN]
      /\ arrived \in 0..Len(Tokens) /\ admitted \in 0..arrived
      /\ active \subseteq Requests /\ served \subseteq Requests
      /\ prefill \in [Requests -> Nat] /\ left \in [Requests -> Nat]
      /\ age \in [Requests -> Nat] /\ idled \in Nat
  BY DEF BatchInv, SchedTypeOK
<1>1. /\ Len(Tokens) \in Nat /\ Requests = 1..Len(Tokens) /\ Slots \in Nat \ {0}
      /\ arrived \in Nat /\ admitted \in Nat /\ admitted <= arrived /\ arrived <= Len(Tokens)
      /\ \A r \in Requests : /\ Tokens[r] \in Nat \ {0} /\ Prompt(r) \in Nat
                             /\ Need(r) = Prompt(r) + Tokens[r] /\ Need(r) \in Nat
                             /\ age[r] \in Nat /\ left[r] \in Nat /\ prefill[r] \in Nat
  BY <1>0, SchedConstants
<1>2. PICK n : n = Admissible
  OBVIOUS
<1>3. /\ n \in Nat /\ admitted + n <= arrived
      /\ IsFiniteSet(active) /\ Cardinality(active) \in Nat
      /\ Cardinality(active) + n <= Slots
      /\ sched.policy = "static" /\ n > 0 => active = {}
      /\ sched.policy # "static" /\ admitted + n < arrived => Cardinality(active) + n = Slots
  BY <1>0, <1>2, Filling
<1>4. PICK new : new = (admitted + 1)..(admitted + n)
  OBVIOUS
<1>5. /\ IsFiniteSet(new) /\ Cardinality(new) = n
      /\ 1..(admitted + n) = (1..admitted) \cup new
      /\ \A r \in new : r \in Requests /\ r > admitted
  <2>1. /\ IsFiniteSet(new) /\ Cardinality(new) = n
        /\ 1..(admitted + n) = (1..admitted) \cup new
        /\ \A r \in new : r \in Nat /\ r > admitted /\ r >= 1
    BY <1>1, <1>3, <1>4, Block
  <2>2. \A r \in new : r <= admitted + n
    BY <1>1, <1>3, <1>4
  <2>3. QED
    BY <1>1, <1>3, <2>1, <2>2
<1>6. PICK batch, decoding, finished, leave :
         /\ batch = active \cup new
         /\ decoding = {r \in batch : prefill[r] = 0}
         /\ finished = {r \in decoding : left[r] <= 1}
         /\ leave = IF sched.policy # "static" THEN finished
                    ELSE IF finished = batch THEN batch ELSE {}
  OBVIOUS
<1>7. /\ batch # {}
      /\ admitted' = admitted + n
      /\ prefill' = [r \in Requests |-> IF r \in batch THEN Less(prefill[r]) ELSE prefill[r]]
      /\ left' = [r \in Requests |-> IF r \in decoding THEN Less(left[r]) ELSE left[r]]
      /\ active' = batch \ leave
      /\ served' = served \cup leave
      /\ age' = [r \in Requests |-> IF r \in batch THEN age[r] + 1 ELSE age[r]]
      /\ idled' = IF admitted' < arrived THEN idled + Slots - Cardinality(batch) ELSE idled
      /\ sched' = sched /\ arrived' = arrived
  BY <1>2, <1>4, <1>6 DEF EngineStep
<1>8. /\ batch \subseteq Requests /\ leave \subseteq batch
      /\ active \cap served = {} /\ active \cup served = 1..admitted
      /\ batch \cap served = {} /\ batch \cup served = 1..admitted'
  <2>1. active \cap served = {} /\ active \cup served = 1..admitted
    BY <1>0 DEF NobodyWaitsForLongest
  <2>2. \A r \in served : r <= admitted
    BY <2>1
  <2>3. new \cap served = {}
    BY <1>1, <1>5, <2>2
  <2>4. leave \subseteq batch
    BY <1>6
  <2>5. QED
    BY <1>0, <1>5, <1>6, <1>7, <2>1, <2>3, <2>4
<1>9. IsFiniteSet(batch) /\ Cardinality(batch) = Cardinality(active) + n
  <2>1. active \cap new = {}
    <3>1. \A r \in active : r <= admitted
      BY <1>8
    <3>2. QED
      BY <1>1, <1>5, <3>1
  <2>2. IsFiniteSet(active \cap new) /\ Cardinality(active \cap new) = 0
    BY <2>1, FS_EmptySet
  <2>3. /\ IsFiniteSet(active \cup new)
        /\ Cardinality(active \cup new) = Cardinality(active) + Cardinality(new) - Cardinality(active \cap new)
    BY <1>3, <1>5, FS_Union
  <2>4. QED
    BY <1>3, <1>5, <1>6, <2>2, <2>3
<1>10. \A r \in batch : OnItsWay(r)
  <2>1. ASSUME NEW r \in new PROVE OnItsWay(r)
    <3>1. age[r] = 0 /\ left[r] = Tokens[r] /\ prefill[r] = Prompt(r) /\ r \in Requests
      BY <1>5 DEF BatchInv
    <3>2. QED
      BY <1>1, <3>1 DEF OnItsWay
  <2>2. QED
    BY <1>6, <2>1 DEF BatchInv
<1>11. sched.policy = "static" =>
          /\ \A r, s \in batch : age[r] = age[s]
          /\ \E r \in batch : left[r] > 0
  <2>1. CASE sched.policy = "static" /\ n = 0
    <3>1. batch = active
      BY <1>5, <1>6, <1>1, <1>4, <2>1
    <3>2. QED
      BY <1>0, <1>7, <2>1, <3>1 DEF NobodyWaitsForLongest, BatchInv
  <2>2. CASE sched.policy = "static" /\ n > 0
    <3>1. batch = new
      BY <1>3, <1>6, <2>2
    <3>2. \A r \in new : age[r] = 0 /\ left[r] > 0
      BY <1>1, <1>5 DEF BatchInv
    <3>3. QED
      BY <1>7, <3>1, <3>2
  <2>3. QED
    BY <1>3, <2>1, <2>2
<1>12. ASSUME NEW r \in batch
       PROVE  /\ age'[r] = age[r] + 1
              /\ r \notin finished => left'[r] > 0 /\ age'[r] + prefill'[r] + left'[r] = Need(r)
              /\ r \in finished => left'[r] = 0 /\ prefill'[r] = 0 /\ age'[r] >= Need(r)
              /\ r \in finished /\ left[r] > 0 => age'[r] = Need(r)
  <2>1. /\ r \in Requests
        /\ age[r] \in Nat /\ left[r] \in Nat /\ prefill[r] \in Nat /\ Need(r) \in Nat
    BY <1>1, <1>8
  <2>2. /\ age'[r] = age[r] + 1
        /\ prefill'[r] = IF prefill[r] > 0 THEN prefill[r] - 1 ELSE 0
        /\ left'[r] = IF prefill[r] # 0 THEN left[r] ELSE IF left[r] > 0 THEN left[r] - 1 ELSE 0
    BY <1>6, <1>7, <2>1 DEF Less
  <2>3. r \in finished <=> prefill[r] = 0 /\ left[r] <= 1
    BY <1>6
  <2>4. /\ left[r] > 0 => age[r] + prefill[r] + left[r] = Need(r)
        /\ left[r] = 0 => prefill[r] = 0 /\ age[r] >= Need(r)
    BY <1>10 DEF OnItsWay
  <2>5. QED
    BY <2>1, <2>2, <2>3, <2>4
<1>13. \A r \in Requests : r \notin batch => age'[r] = age[r] /\ left'[r] = left[r] /\ prefill'[r] = prefill[r]
  BY <1>6, <1>7
<1>14. /\ Slots' = Slots
       /\ \A r \in Requests : Need(r)' = Need(r) /\ Prompt(r)' = Prompt(r)
  BY <1>7 DEF Slots, Need, Prompt
<1>15. SchedTypeOK'
  <2>1. arrived' \in 0..Len(Tokens) /\ admitted' \in 0..arrived'
    BY <1>1, <1>3, <1>7
  <2>2. active' \subseteq Requests /\ served' \subseteq Requests
    BY <1>0, <1>7, <1>8
  <2>3. prefill' \in [Requests -> Nat] /\ left' \in [Requests -> Nat]
    BY <1>1, <1>7 DEF Less
  <2>4. age' \in [Requests -> Nat]
    BY <1>1, <1>7
  <2>5. idled' \in Nat
    <3>1. Cardinality(batch) \in Nat /\ Cardinality(batch) <= Slots /\ Slots \in Nat /\ idled \in Nat
      BY <1>0, <1>1, <1>3, <1>9
    <3>2. idled' = idled + Slots - Cardinality(batch) \/ idled' = idled
      BY <1>7
    <3>3. QED
      BY ONLY <3>1, <3>2
  <2>6. QED
    BY <1>0, <1>7, <2>1, <2>2, <2>3, <2>4, <2>5 DEF SchedTypeOK
<1>16. Cardinality(active') <= Slots'
  <2>1. active' \in SUBSET batch
    BY <1>7
  <2>2. Cardinality(active') <= Cardinality(batch) /\ Cardinality(active') \in Nat
    BY <1>9, <2>1, FS_Subset, FS_CardinalityType
  <2>3. QED
    BY <1>1, <1>3, <1>9, <1>14, <2>2
<1>17. active' \cap served' = {} /\ active' \cup served' = 1..admitted'
  BY <1>7, <1>8
<1>18. CASE sched.policy # "static"
  <2>1. leave = finished
    BY <1>6, <1>18
  <2>2. \A r \in batch : left[r] > 0
    BY <1>1, <1>8, <1>10, <1>18 DEF OnItsWay
  <2>3. \A r \in active' : left'[r] > 0 /\ age'[r] + prefill'[r] + left'[r] = Need(r)
    BY <1>7, <1>12, <2>1
  <2>4. \A r \in active' : age'[r] < Need(r)'
    <3>1. \A r \in active' : age'[r] \in Nat /\ prefill'[r] \in Nat /\ left'[r] \in Nat /\ r \in Requests
      BY <1>15 DEF SchedTypeOK
    <3>2. ASSUME NEW r \in active' PROVE age'[r] < Need(r)
      <4>1. PICK a, p, l : a = age'[r] /\ p = prefill'[r] /\ l = left'[r]
        OBVIOUS
      <4>2. a \in Nat /\ p \in Nat /\ l \in Nat /\ l > 0 /\ a + p + l = Need(r)
        BY <2>3, <3>1, <4>1
      <4>3. QED
        BY ONLY <4>1, <4>2
    <3>3. QED
      BY <1>14, <3>1, <3>2
  <2>5. \A r \in served' : age'[r] = Need(r)'
    <3>1. ASSUME NEW r \in served PROVE age'[r] = Need(r)'
      BY <1>0, <1>8, <1>13, <1>14, <1>18, <3>1 DEF NobodyWaitsForLongest
    <3>2. ASSUME NEW r \in leave PROVE age'[r] = Need(r)'
      BY <1>8, <1>12, <1>14, <2>1, <2>2
    <3>3. QED
      BY <1>7, <3>1, <3>2
  <2>6. idled' = 0
    <3>1. idled = 0
      BY <1>0, <1>18 DEF NobodyWaitsForLongest
    <3>2. admitted' < arrived => Cardinality(batch) = Slots
      BY <1>3, <1>7, <1>9, <1>18
    <3>3. QED
      BY <1>1, <1>7, <3>1, <3>2
  <2>7. NobodyWaitsForLongest'
    BY <1>7, <1>16, <1>17, <1>18, <2>4, <2>5, <2>6 DEF NobodyWaitsForLongest
  <2>8. \A r \in active' : OnItsWay(r)'
    <3>1. \A r \in active' : r \in Requests /\ left'[r] > 0 /\ left'[r] \in Nat
      BY <1>15, <2>3 DEF SchedTypeOK
    <3>2. QED
      BY <1>14, <2>3, <3>1 DEF OnItsWay
  <2>9. \A r \in Requests : r > admitted' =>
            age'[r] = 0 /\ left'[r] = Tokens[r] /\ prefill'[r] = Prompt(r)'
    <3>1. ASSUME NEW r \in Requests, r > admitted'
          PROVE  r \notin batch /\ r > admitted
      <4>1. r \notin 1..admitted' /\ r \in Nat /\ admitted' \in Nat /\ admitted' >= admitted
        BY <1>1, <1>3, <1>7, <3>1
      <4>2. QED
        BY <1>1, <1>8, <3>1, <4>1
    <3>2. QED
      BY <1>13, <1>14, <3>1 DEF BatchInv
  <2>10. QED
    BY <1>7, <1>15, <1>18, <2>7, <2>8, <2>9 DEF BatchInv
<1>19. CASE sched.policy = "static"
  <2>0. /\ \A r, s \in batch : age[r] = age[s]
        /\ \A r \in served : age[r] >= Need(r) /\ \E m \in served : age[r] = Need(m)
    BY <1>0, <1>11, <1>19 DEF NobodyWaitsForLongest
  <2>1. \A r \in batch : age'[r] \in Nat /\ age'[r] = age[r] + 1 /\ r \in Requests
    BY <1>8, <1>12, <1>15 DEF SchedTypeOK
  <2>2. \A r, s \in active' : age'[r] = age'[s]
    BY <1>7, <2>0, <2>1
  <2>3. \A r \in served' : age'[r] >= Need(r)' /\ \E m \in served' : age'[r] = Need(m)'
    <3>1. ASSUME NEW r \in served
          PROVE  age'[r] >= Need(r)' /\ \E m \in served' : age'[r] = Need(m)'
      <4>1. r \in Requests /\ r \notin batch /\ age'[r] = age[r] /\ Need(r)' = Need(r)
        BY <1>0, <1>8, <1>13, <1>14
      <4>2. PICK m \in served : age[r] = Need(m)
        BY <2>0
      <4>3. m \in served' /\ m \in Requests /\ Need(m)' = Need(m)
        BY <1>0, <1>7, <1>14
      <4>4. QED
        BY <2>0, <4>1, <4>2, <4>3
    <3>2. ASSUME NEW r \in leave
          PROVE  age'[r] >= Need(r)' /\ \E m \in served' : age'[r] = Need(m)'
      <4>1. finished = batch /\ leave = batch /\ r \in batch
        BY <1>6, <1>8, <1>19, <3>2
      <4>2. PICK m \in batch : left[m] > 0
        BY <1>11, <1>19
      <4>3. age'[m] = Need(m) /\ age'[r] >= Need(r)
        BY <1>12, <4>1, <4>2
      <4>4. age'[r] = age'[m]
        BY <2>0, <2>1, <4>1
      <4>5. m \in served' /\ Need(m)' = Need(m) /\ Need(r)' = Need(r)
        BY <1>7, <1>8, <1>14, <4>1
      <4>6. QED
        BY <4>3, <4>4, <4>5
    <3>3. QED
      BY <1>7, <3>1, <3>2
  <2>4. NobodyWaitsForLongest'
    BY <1>7, <1>16, <1>17, <1>19, <2>2, <2>3 DEF NobodyWaitsForLongest
  <2>5. \A r \in active' : OnItsWay(r)'
    <3>1. ASSUME NEW r \in batch PROVE OnItsWay(r)'
      <4>1. r \in Requests /\ left'[r] \in Nat /\ Need(r)' = Need(r)
        BY <1>8, <1>14, <1>15 DEF SchedTypeOK
      <4>2. CASE r \in finished
        BY <1>7, <1>12, <1>19, <4>1, <4>2 DEF OnItsWay
      <4>3. CASE r \notin finished
        BY <1>12, <4>1, <4>3 DEF OnItsWay
      <4>4. QED
        BY <4>2, <4>3
    <3>2. QED
      BY <1>7, <3>1
  <2>6. active' # {} => \E r \in active' : left'[r] > 0
    <3>1. CASE finished = batch
      BY <1>6, <1>7, <1>19, <3>1
    <3>2. CASE finished # batch
      <4>1. leave = {} /\ active' = batch /\ finished \subseteq batch
        BY <1>6, <1>7, <1>19, <3>2
      <4>2. PICK r \in batch : r \notin finished
        BY <3>2, <4>1
      <4>3. left'[r] > 0
        BY <1>12, <4>2
      <4>4. QED
        BY <4>1, <4>3
    <3>3. QED
      BY <3>1, <3>2
  <2>7. \A r \in Requests : r > admitted' =>
            age'[r] = 0 /\ left'[r] = Tokens[r] /\ prefill'[r] = Prompt(r)'
    <3>1. ASSUME NEW r \in Requests, r > admitted'
          PROVE  r \notin batch /\ r > admitted
      <4>1. r \notin 1..admitted' /\ r \in Nat /\ admitted' \in Nat /\ admitted' >= admitted
        BY <1>1, <1>3, <1>7, <3>1
      <4>2. QED
        BY <1>1, <1>8, <3>1, <4>1
    <3>2. QED
      BY <1>13, <1>14, <3>1 DEF BatchInv
  <2>8. QED
    BY <1>7, <1>15, <2>4, <2>5, <2>6, <2>7 DEF BatchInv
<1>20. QED
  BY <1>18, <1>19

LEMMA NextBatch == BatchInv /\ [SchedNext]_schedVars => BatchInv'
<1> SUFFICES ASSUME BatchInv, [SchedNext]_schedVars PROVE BatchInv'
  OBVIOUS
<1>0. SchedTypeOK /\ NobodyWaitsForLongest
  BY DEF BatchInv
<1>1. CASE Arrive \/ UNCHANGED schedVars
  <2>1. /\ sched' = sched /\ admitted' = admitted /\ active' = active /\ prefill' = prefill
        /\ left' = left /\ served' = served /\ age' = age /\ idled' = idled
        /\ arrived' = arrived \/ (arrived < Len(Tokens) /\ arrived' = arrived + 1)
    BY <1>1 DEF Arrive, schedVars
  <2>2. Slots' = Slots /\ \A r : Need(r)' = Need(r) /\ Prompt(r)' = Prompt(r)
    BY <2>1 DEF Slots, Need, Prompt
  <2>3. arrived' \in 0..Len(Tokens) /\ admitted' \in 0..arrived'
    BY <1>0, <2>1, SchedConstants DEF SchedTypeOK
  <2>4. SchedTypeOK'
    BY <1>0, <2>1, <2>3 DEF SchedTypeOK
  <2>5. NobodyWaitsForLongest'
    BY <1>0, <2>1, <2>2 DEF NobodyWaitsForLongest
  <2>6. \A r \in active' : OnItsWay(r)'
    BY <2>1, <2>2 DEF BatchInv, OnItsWay
  <2>7. QED
    BY <2>1, <2>2, <2>4, <2>5, <2>6 DEF BatchInv
<1>2. CASE EngineStep
  BY <1>2, EngineKeepsBatch
<1>3. QED
  BY <1>1, <1>2 DEF SchedNext, SchedDone

LEMMA BatchHolds == SchedSpec => []BatchInv
  BY InitBatch, NextBatch, PTL DEF SchedSpec

-----------------------------------------------------------------------------
(***************************************************************************)
(* EventService: which release a day's traffic goes to                     *)
(***************************************************************************)

\* Releases appear in the order of their numbers.
LEMMA ReleasesInOrder ==
    ASSUME NEW a \in Release, NEW b \in Release, a < b
    PROVE  ReleaseDay[a] < ReleaseDay[b]
<1> DEFINE Late == {r \in Release : a < r /\ ~ (ReleaseDay[a] < ReleaseDay[r])}
<1>0. /\ Len(ReleaseDay) \in Nat /\ a \in Nat /\ b \in Nat
      /\ \A r \in Release : ReleaseDay[r] \in Nat /\ r \in Nat
      /\ \A r \in 2..Len(ReleaseDay) : ReleaseDay[r - 1] < ReleaseDay[r]
  BY EventServiceAssumption DEF EventServiceAssumption, Release
<1>1. SUFFICES ASSUME Late # {} PROVE FALSE
  BY <1>0
<1>2. Late \in SUBSET Nat
  BY <1>0
<1>3. PICK m \in Late : \A n \in Late : m <= n
  <2> HIDE DEF Late
  <2>1. QED
    BY <1>1, <1>2, MinOfNumbers
<1>4. m \in Release /\ m \in Nat /\ a < m /\ m \in 2..Len(ReleaseDay) /\ m - 1 \in Release
  BY <1>0 DEF Release
<1>5. ReleaseDay[m - 1] < ReleaseDay[m]
  BY <1>0, <1>4
<1>6. m - 1 = a \/ ReleaseDay[a] < ReleaseDay[m - 1]
  <2>1. m - 1 \notin Late
    BY <1>3, <1>4
  <2>2. QED
    BY <1>0, <1>4, <2>1
<1>7. ReleaseDay[a] < ReleaseDay[m]
  BY <1>0, <1>4, <1>5, <1>6
<1>8. QED
  BY <1>3, <1>7

\* The newest release of a day is followed by releases of later days, and
\* traffic goes to it or, in its canary, to the one before it.
LEMMA LiveReleases ==
    ASSUME NEW d \in Nat
    PROVE  /\ LiveOn(d) \subseteq Release
           /\ \E new \in Release :
                /\ ReleaseDay[new] <= d
                /\ \A r \in Release : r > new => ReleaseDay[r] > d
                /\ \A r \in LiveOn(d) : r = new \/ (r = new - 1 /\ d < ReleaseDay[new] + CanaryDays[new])
<1>0. /\ Len(ReleaseDay) \in Nat /\ Len(ReleaseDay) > 0 /\ ReleaseDay[1] = 0
      /\ \A r \in Release : ReleaseDay[r] \in Nat /\ r \in Nat
      /\ Release = 1..Len(ReleaseDay) /\ 1 \in Release
  BY EventServiceAssumption DEF EventServiceAssumption, Release
<1>1. PICK past : past = {r \in Release : ReleaseDay[r] <= d}
  OBVIOUS
<1>2. past \in SUBSET Nat /\ past # {} /\ past \in SUBSET Release
  BY <1>0, <1>1
<1>3. IsFiniteSet(past)
  <2>1. IsFiniteSet(Release)
    BY <1>0, FS_Interval
  <2>2. QED
    BY <1>2, <2>1, FS_Subset
<1>4. PICK new : new = Max(past)
  OBVIOUS
<1>5. new \in past /\ \A r \in past : new >= r
  BY <1>2, <1>3, <1>4, MaxOfFinite
<1>6. LiveOn(d) = IF new > 1 /\ d < ReleaseDay[new] + CanaryDays[new] THEN {new - 1, new} ELSE {new}
  BY <1>1, <1>4 DEF LiveOn
<1>7. \A r \in Release : r > new => ReleaseDay[r] > d
  BY <1>0, <1>1, <1>5
<1>8. new \in Release /\ ReleaseDay[new] <= d /\ (new > 1 => new - 1 \in Release)
  BY <1>0, <1>1, <1>5
<1>9. LiveOn(d) \subseteq Release
  BY <1>6, <1>8
<1>10. \A r \in LiveOn(d) : r = new \/ (r = new - 1 /\ d < ReleaseDay[new] + CanaryDays[new])
  BY <1>6
<1>11. QED
  BY <1>7, <1>8, <1>9, <1>10

ServiceInv ==
    /\ SvTypeOK /\ ReplayAddsNothing
    /\ Len(events) <= MaxSeq
    /\ serving.at = "request" =>
          /\ serving.item = Len(events) + 1 /\ serving.item <= MaxSeq
          /\ serving.release \in LiveOn(day)
    /\ serving.at = "replay" => Len(events) = MaxSeq /\ serving.item \in Failures
    /\ Len(events) < MaxSeq => lostAck = {} /\ drained = {} /\ fixed = {}
    /\ lostAck \subseteq Stored /\ drained \subseteq Failures \cup lostAck
    /\ \A i \in DOMAIN events :
          /\ events[i].release \in LiveOn(events[i].day)
          /\ events[i].outcome = "stored" => events[i].record \in Record

EventRecord == [day : 0..LastDay, release : Release, outcome : Outcome, record : Record \cup {NoRecord}]

LEMMA ServiceConstants ==
    /\ MaxSeq \in Nat /\ LastDay \in Nat /\ ReskillDay \in Nat /\ Retries \in Nat
    /\ Len(ReleaseDay) \in Nat /\ Len(ReleaseDay) > 0 /\ Release = 1..Len(ReleaseDay)
    /\ 1 \in Release /\ Newest \in Release
    /\ \A r \in Release : r \in Nat /\ ReleaseDay[r] \in Nat /\ CanaryDays[r] \in Nat
<1>1. /\ MaxSeq \in Nat /\ LastDay \in Nat /\ ReskillDay \in Nat /\ Retries \in Nat
      /\ ReleaseDay \in Seq(Nat) /\ Len(ReleaseDay) > 0
      /\ CanaryDays \in [1..Len(ReleaseDay) -> Nat]
  BY EventServiceAssumption DEF EventServiceAssumption
<1>2. Len(ReleaseDay) \in Nat /\ \A r \in 1..Len(ReleaseDay) : ReleaseDay[r] \in Nat
  BY <1>1
<1>3. QED
  BY <1>1, <1>2 DEF Release, Newest

LEMMA InitService == SvInit => ServiceInv
<1> SUFFICES ASSUME SvInit PROVE ServiceInv
  OBVIOUS
<1>1. /\ day = 0 /\ serving = IdleService /\ events = <<>> /\ keyed = {} /\ inserted = 0
      /\ lostAck = {} /\ drained = {} /\ fixed = {}
  BY DEF SvInit
<1>2. Len(events) = 0 /\ DOMAIN events = {} /\ events \in Seq(EventRecord)
  BY <1>1
<1>3. SvTypeOK
  <2>1. serving \in [at : {"idle", "request", "replay"}, item : 0..MaxSeq,
                     release : Release, attempts : 0..Retries]
    BY <1>1, ServiceConstants DEF IdleService
  <2>2. QED
    BY <1>1, <1>2, <2>1, ServiceConstants DEF SvTypeOK, EventRecord
<1>4. ReplayAddsNothing
  <2>1. Stored = {}
    BY <1>2 DEF Stored
  <2>2. Cardinality(drained \cap lostAck) = 0
    BY <1>1, FS_EmptySet
  <2>3. QED
    BY <1>1, <2>1, <2>2 DEF ReplayAddsNothing
<1>5. serving.at = "idle"
  BY <1>1 DEF IdleService
<1>6. QED
  BY <1>1, <1>2, <1>3, <1>4, <1>5, ServiceConstants DEF ServiceInv

\* A step that neither ends a request nor replays anything.
LEMMA QuietService ==
    ASSUME ServiceInv, UNCHANGED <<events, keyed, inserted, drained, fixed>>, lostAck' = lostAck,
           day' \in 0..LastDay,
           serving' \in [at : {"idle", "request", "replay"}, item : 0..MaxSeq,
                         release : Release, attempts : 0..Retries],
           serving'.at = "request" =>
              /\ serving'.item = Len(events) + 1 /\ serving'.item <= MaxSeq
              /\ serving'.release \in LiveOn(day'),
           serving'.at = "replay" => Len(events) = MaxSeq /\ serving'.item \in Failures
    PROVE  ServiceInv'
<1>1. Failures' = Failures /\ Stored' = Stored
  BY DEF Failures, Stored
<1>2. SvTypeOK'
  BY DEF ServiceInv, SvTypeOK
<1>3. ReplayAddsNothing'
  BY <1>1 DEF ServiceInv, ReplayAddsNothing
<1>4. \A d : LiveOn(d)' = LiveOn(d)
  BY DEF LiveOn
<1>5. QED
  BY <1>1, <1>2, <1>3, <1>4 DEF ServiceInv

\* process() returns.
LEMMA EndKeepsService ==
    ASSUME ServiceInv, serving.at # "idle", NEW outcome, NEW record, Ends(outcome, record),
           \/ outcome = "stored" /\ record \in Record
           \/ outcome \in {"invalid", "error"} /\ record = NoRecord
    PROVE  ServiceInv'
<1>0. /\ SvTypeOK /\ ReplayAddsNothing /\ Len(events) <= MaxSeq /\ events \in Seq(EventRecord)
      /\ serving.at \in {"request", "replay"} /\ serving.item \in 0..MaxSeq /\ serving.release \in Release
      /\ day \in 0..LastDay /\ outcome \in Outcome
  BY DEF ServiceInv, SvTypeOK, EventRecord, Outcome
<1>1. /\ serving' = IdleService /\ serving'.at = "idle"
      /\ serving' \in [at : {"idle", "request", "replay"}, item : 0..MaxSeq,
                       release : Release, attempts : 0..Retries]
      /\ UNCHANGED <<day, inserted, lostAck, drained>>
  BY ServiceConstants DEF Ends, IdleService
<1>2. CASE serving.at = "request"
  <2> DEFINE e == [day |-> day, release |-> serving.release, outcome |-> outcome, record |-> record]
             n == Len(events) + 1
  <2>1. /\ e \in EventRecord
        /\ e.day = day /\ e.release = serving.release /\ e.outcome = outcome /\ e.record = record
    BY <1>0 DEF EventRecord
  <2>2. /\ events' = Append(events, e)
        /\ keyed' = IF outcome = "stored" THEN keyed \cup {Fingerprint(serving.item, record)} ELSE keyed
        /\ fixed' = fixed
    BY <1>2 DEF Ends
  <2> HIDE DEF e
  <2>3. /\ serving.item = n /\ n <= MaxSeq /\ serving.release \in LiveOn(day) /\ n \in Nat
        /\ lostAck = {} /\ drained = {} /\ fixed = {}
    BY <1>0, <1>2, ServiceConstants DEF ServiceInv
  <2>4. /\ events' \in Seq(EventRecord) /\ Len(events') = n
        /\ DOMAIN events = 1..Len(events) /\ DOMAIN events' = 1..n
        /\ \A i \in 1..Len(events) : events'[i] = events[i]
        /\ events'[n] = e
    BY <1>0, <2>1, <2>2
  <2>5. DOMAIN events' = DOMAIN events \cup {n} /\ n \notin DOMAIN events
    BY <2>3, <2>4
  <2>6. /\ Stored = {i \in DOMAIN events : events[i].outcome = "stored"}
        /\ Stored' = {i \in DOMAIN events' : events'[i].outcome = "stored"}
    BY DEF Stored, Failures
  <2>7. Stored' = IF outcome = "stored" THEN Stored \cup {n} ELSE Stored
    BY <2>1, <2>4, <2>5, <2>6
  <2>8. \A i \in Stored : events'[i] = events[i]
    BY <2>4, <2>6
  <2>9. keyed' = {<<i, events'[i].record>> : i \in Stored'}
    <3>1. keyed = {<<i, events'[i].record>> : i \in Stored}
      BY <1>0, <2>8 DEF ReplayAddsNothing
    <3>2. events'[n].record = record
      BY <2>1, <2>4
    <3>3. QED
      BY <2>2, <2>3, <2>7, <3>1, <3>2 DEF Fingerprint
  <2>10. \A i \in DOMAIN events' :
            /\ events'[i].release \in LiveOn(events'[i].day)
            /\ events'[i].outcome = "stored" => events'[i].record \in Record
    <3>1. ASSUME NEW i \in DOMAIN events
          PROVE  /\ events'[i].release \in LiveOn(events'[i].day)
                 /\ events'[i].outcome = "stored" => events'[i].record \in Record
      BY <2>4 DEF ServiceInv
    <3>2. /\ events'[n].release \in LiveOn(events'[n].day)
          /\ events'[n].outcome = "stored" => events'[n].record \in Record
      BY <2>1, <2>3, <2>4
    <3>3. QED
      BY <2>5, <3>1, <3>2
  <2>11. ReplayAddsNothing'
    BY <1>0, <1>1, <2>2, <2>3, <2>9 DEF ReplayAddsNothing
  <2>12. keyed' \subseteq (1..MaxSeq) \X Record
    <3>1. \A i \in Stored' : i \in 1..MaxSeq /\ events'[i].record \in Record
      BY <2>3, <2>4, <2>6, <2>10, ServiceConstants
    <3>2. QED
      BY <2>9, <3>1
  <2>13. SvTypeOK'
    BY <1>0, <1>1, <2>2, <2>4, <2>12 DEF SvTypeOK, EventRecord
  <2>14. \A d : LiveOn(d)' = LiveOn(d)
    BY DEF LiveOn
  <2>15. QED
    BY <1>1, <2>2, <2>3, <2>4, <2>10, <2>11, <2>13, <2>14 DEF ServiceInv
<1>3. CASE serving.at = "replay"
  <2>1. /\ fixed' = fixed \cup {<<serving.item, outcome>>} /\ UNCHANGED <<events, keyed>>
        /\ Len(events) = MaxSeq /\ serving.item \in Failures
    BY <1>3 DEF Ends, ServiceInv
  <2>2. Failures' = Failures /\ Stored' = Stored
    BY <2>1 DEF Failures, Stored
  <2>3. Failures \subseteq 1..MaxSeq
    BY <1>0, <2>1 DEF Failures
  <2>4. SvTypeOK'
    BY <1>0, <1>1, <2>1, <2>3 DEF SvTypeOK
  <2>5. \A f \in fixed' : f[1] \in Failures
    BY <1>0, <2>1 DEF ReplayAddsNothing
  <2>6. ReplayAddsNothing'
    BY <1>0, <1>1, <2>1, <2>2, <2>5 DEF ReplayAddsNothing
  <2>7. \A d : LiveOn(d)' = LiveOn(d)
    BY DEF LiveOn
  <2>8. ~ (Len(events') < MaxSeq)
    BY <2>1, ServiceConstants
  <2>9. QED
    BY <1>1, <2>1, <2>2, <2>4, <2>6, <2>7, <2>8 DEF ServiceInv
<1>4. QED
  BY <1>0, <1>2, <1>3

LEMMA NextService == ServiceInv /\ [SvNext]_svVars => ServiceInv'
<1> SUFFICES ASSUME ServiceInv, [SvNext]_svVars PROVE ServiceInv'
  OBVIOUS
<1>0. /\ SvTypeOK /\ ReplayAddsNothing /\ Len(events) <= MaxSeq /\ Len(events) \in Nat
      /\ DOMAIN events = 1..Len(events)
      /\ day \in 0..LastDay
      /\ serving \in [at : {"idle", "request", "replay"}, item : 0..MaxSeq,
                      release : Release, attempts : 0..Retries]
  BY DEF ServiceInv, SvTypeOK
<1>1. CASE UNCHANGED svVars
  <2>1. UNCHANGED <<day, serving, events, keyed, inserted, lostAck, drained, fixed>>
    BY <1>1 DEF svVars
  <2>2. QED
    BY <1>0, <2>1, QuietService DEF ServiceInv
<1>2. CASE NextDay
  <2>1. /\ UNCHANGED <<serving, events, keyed, inserted, lostAck, drained, fixed>>
        /\ serving.at = "idle" /\ day' \in 0..LastDay
    BY <1>0, <1>2, ServiceConstants DEF NextDay
  <2>2. QED
    BY <1>0, <2>1, QuietService DEF ServiceInv
<1>3. CASE Route
  <2>1. PICK r \in LiveOn(day) :
          serving' = [at |-> "request", item |-> Len(events) + 1, release |-> r, attempts |-> 0]
    BY <1>3 DEF Route
  <2>2. day \in Nat /\ r \in Release
    <3>1. day \in Nat
      BY <1>0
    <3>2. QED
      BY <2>1, <3>1, LiveReleases
  <2>3. Len(events) + 1 \in 0..MaxSeq /\ Len(events) + 1 <= MaxSeq /\ 0 \in 0..Retries
    BY <1>0, <1>3, ServiceConstants DEF Route
  <2>4. serving' \in [at : {"idle", "request", "replay"}, item : 0..MaxSeq,
                      release : Release, attempts : 0..Retries]
    BY <2>1, <2>2, <2>3
  <2>5. serving'.at = "request" /\ serving'.item = Len(events) + 1 /\ serving'.release = r
    BY <2>1
  <2>6. UNCHANGED <<events, keyed, inserted, drained, fixed>> /\ lostAck' = lostAck /\ day' = day
    BY <1>3 DEF Route
  <2>7. QED
    BY <1>0, <2>1, <2>3, <2>4, <2>5, <2>6, QuietService
<1>4. CASE ProviderThrows
  <2>1. serving.at # "idle"
    BY <1>4 DEF ProviderThrows
  <2>2. CASE Ends("error", NoRecord)
    BY <2>1, <2>2, EndKeepsService
  <2>3. ASSUME NEW transient \in BOOLEAN, MayTryAgain(transient),
               serving' = [serving EXCEPT !.attempts = @ + 1],
               UNCHANGED <<day, events, keyed, inserted, lostAck, drained, fixed>>
        PROVE  ServiceInv'
    <3>1. serving.attempts + 1 \in 0..Retries
      BY <1>0, <2>3, ServiceConstants DEF MayTryAgain
    <3>2. /\ serving' \in [at : {"idle", "request", "replay"}, item : 0..MaxSeq,
                           release : Release, attempts : 0..Retries]
          /\ serving'.at = serving.at /\ serving'.item = serving.item
          /\ serving'.release = serving.release
      BY <1>0, <2>3, <3>1
    <3>3. QED
      BY <1>0, <2>3, <3>2, QuietService DEF ServiceInv
  <2>4. QED
    BY <1>4, <2>2, <2>3 DEF ProviderThrows
<1>5. CASE ProviderAnswers
  <2>1. serving.at # "idle"
    BY <1>5 DEF ProviderAnswers
  <2>2. ASSUME NEW record \in Record, Ends("stored", record) PROVE ServiceInv'
    BY <2>1, <2>2, EndKeepsService
  <2>3. CASE Ends("invalid", NoRecord)
    BY <2>1, <2>3, EndKeepsService
  <2>4. CASE Ends("error", NoRecord)
    BY <2>1, <2>4, EndKeepsService
  <2>5. QED
    BY <1>5, <2>2, <2>3, <2>4 DEF ProviderAnswers
<1>6. ASSUME NEW i \in DOMAIN events, LoseAck(i) PROVE ServiceInv'
  <2>1. /\ UNCHANGED <<day, serving, events, keyed, inserted, drained, fixed>>
        /\ lostAck' = lostAck \cup {i} /\ drained = {} /\ Len(events) = MaxSeq
        /\ events[i].outcome = "stored"
    BY <1>6 DEF LoseAck, Drained
  <2>2. Failures' = Failures /\ Stored' = Stored /\ \A d : LiveOn(d)' = LiveOn(d)
    BY <2>1 DEF Failures, Stored, LiveOn
  <2>3. i \in Stored /\ i \in 1..MaxSeq
    BY <1>0, <2>1 DEF Stored, Failures
  <2>4. drained' \cap lostAck' = {} /\ drained \cap lostAck = {}
    BY <2>1
  <2>5. ReplayAddsNothing'
    BY <1>0, <2>1, <2>2, <2>4 DEF ReplayAddsNothing
  <2>6. SvTypeOK'
    BY <1>0, <2>1, <2>3 DEF SvTypeOK
  <2>7. ~ (Len(events') < MaxSeq)
    BY <1>0, <2>1
  <2>8. lostAck' \subseteq Stored' /\ drained' \subseteq Failures' \cup lostAck'
    BY <2>1, <2>2, <2>3 DEF ServiceInv
  <2>9. QED
    BY <2>1, <2>2, <2>5, <2>6, <2>7, <2>8 DEF ServiceInv
<1>7. ASSUME NEW i \in DOMAIN events, ReplaySame(i) PROVE ServiceInv'
  <2>1. /\ UNCHANGED <<day, serving, events, lostAck, fixed>>
        /\ drained' = drained \cup {i} /\ i \notin drained /\ Len(events) = MaxSeq
        /\ i \in Failures \cup lostAck
    BY <1>7 DEF ReplaySame, Drained
  <2>2. Failures' = Failures /\ Stored' = Stored /\ \A d : LiveOn(d)' = LiveOn(d)
    BY <2>1 DEF Failures, Stored, LiveOn
  <2>3. i \in 1..MaxSeq /\ lostAck \subseteq Stored /\ drained \subseteq 1..MaxSeq
    BY <1>0, <2>1 DEF ServiceInv, SvTypeOK
  <2>4. i \in Stored <=> events[i].outcome = "stored"
    BY DEF Stored, Failures
  <2>5. IsFiniteSet(drained \cap lostAck)
    <3>1. IsFiniteSet(1..MaxSeq)
      BY ServiceConstants, FS_Interval
    <3>2. QED
      BY <2>3, <3>1, FS_Subset
  <2>6. keyed' = {<<j, events'[j].record>> : j \in Stored'} /\ inserted' = Cardinality(drained' \cap lostAck')
    <3>1. CASE events[i].outcome = "stored"
      <4>1. /\ inserted' = inserted + 1 /\ keyed' = keyed \cup {<<i, events[i].record>>}
        BY <1>7, <3>1 DEF ReplaySame, Fingerprint
      <4>2. i \in Stored /\ i \in lostAck
        BY <2>1, <2>4, <3>1 DEF Failures
      <4>3. drained' \cap lostAck' = (drained \cap lostAck) \cup {i} /\ i \notin drained \cap lostAck
        BY <2>1, <4>2
      <4>4. Cardinality(drained' \cap lostAck') = Cardinality(drained \cap lostAck) + 1
        BY <2>5, <4>3, FS_AddElement
      <4>5. QED
        BY <1>0, <2>1, <2>2, <4>1, <4>2, <4>4 DEF ReplayAddsNothing
    <3>2. CASE events[i].outcome # "stored"
      <4>1. UNCHANGED <<inserted, keyed>>
        BY <1>7, <3>2 DEF ReplaySame
      <4>2. i \notin lostAck
        BY <2>3, <2>4, <3>2
      <4>3. drained' \cap lostAck' = drained \cap lostAck
        BY <2>1, <4>2
      <4>4. QED
        BY <1>0, <2>1, <2>2, <4>1, <4>3 DEF ReplayAddsNothing
    <3>3. QED
      BY <3>1, <3>2
  <2>7. ReplayAddsNothing'
    BY <1>0, <2>1, <2>2, <2>6 DEF ReplayAddsNothing
  <2>8. keyed' \subseteq (1..MaxSeq) \X Record
    <3>1. \A j \in Stored : j \in 1..MaxSeq /\ events[j].record \in Record
      BY <1>0, <2>1 DEF Stored, Failures, ServiceInv
    <3>2. QED
      BY <2>1, <2>2, <2>6, <3>1
  <2>9. inserted' \in Nat
    BY <1>0, <1>7 DEF ReplaySame, SvTypeOK
  <2>10. SvTypeOK'
    BY <1>0, <2>1, <2>3, <2>8, <2>9 DEF SvTypeOK
  <2>11. ~ (Len(events') < MaxSeq)
    BY <1>0, <2>1
  <2>12. lostAck' \subseteq Stored' /\ drained' \subseteq Failures' \cup lostAck'
    BY <2>1, <2>2, <2>3 DEF ServiceInv
  <2>13. QED
    BY <2>1, <2>2, <2>7, <2>10, <2>11, <2>12 DEF ServiceInv
<1>8. ASSUME NEW i \in DOMAIN events, ReplayFixed(i) PROVE ServiceInv'
  <2>1. /\ UNCHANGED <<day, events, keyed, inserted, lostAck, drained, fixed>>
        /\ serving' = [at |-> "replay", item |-> i, release |-> Newest, attempts |-> 0]
        /\ Len(events) = MaxSeq /\ i \in Failures
    BY <1>8 DEF ReplayFixed, Drained
  <2>2. i \in 0..MaxSeq /\ 0 \in 0..Retries
    BY <1>0, <2>1, ServiceConstants
  <2>3. /\ serving' \in [at : {"idle", "request", "replay"}, item : 0..MaxSeq,
                         release : Release, attempts : 0..Retries]
        /\ serving'.at = "replay" /\ serving'.item = i
    BY <2>1, <2>2, ServiceConstants
  <2>4. QED
    BY <1>0, <2>1, <2>3, QuietService
<1>9. CASE SvDone
  BY <1>1, <1>9 DEF SvDone
<1>10. CASE SvNext
  BY <1>2, <1>3, <1>4, <1>5, <1>6, <1>7, <1>8, <1>9, <1>10 DEF SvNext
<1>11. QED
  BY <1>1, <1>10

LEMMA ServiceHolds == SvSpec => []ServiceInv
  BY InitService, NextService, PTL DEF SvSpec

\* What the dates of a release select, and what its stamp names.
LEMMA HistoryAttributed == ServiceInv => HistoryIsAttributable
<1> SUFFICES ASSUME ServiceInv PROVE HistoryIsAttributable
  OBVIOUS
<1>1. ASSUME NEW i \in DOMAIN events
      PROVE  /\ events[i].day \in 0..LastDay /\ events[i].day \in Nat /\ events[i].release \in Release
             /\ events[i].release \in LiveOn(events[i].day)
  <2>1. events \in Seq(EventRecord) /\ events[i].release \in LiveOn(events[i].day)
    BY DEF ServiceInv, SvTypeOK, EventRecord
  <2>2. events[i] \in EventRecord
    BY <2>1
  <2>3. LastDay \in Nat
    BY ServiceConstants
  <2>4. QED
    BY <2>1, <2>2, <2>3 DEF EventRecord
<1>2. ASSUME NEW d \in Nat, NEW s \in LiveOn(d)
      PROVE  /\ s \in Release /\ ReleaseDay[s] <= d
             /\ s # Newest => d < ReleaseDay[s + 1] + CanaryDays[s + 1]
             /\ s = Newest \/ d < ReleaseDay[s + 1] \/ ReleaseDay[s + 1] <= d
             /\ \A r \in Release : ReleaseDay[r] <= d /\ (r = Newest \/ d < ReleaseDay[r + 1]) =>
                   s = r \/ (s = r - 1 /\ d < ReleaseDay[r] + CanaryDays[r])
  <2>1. LiveOn(d) \subseteq Release
    BY LiveReleases
  <2>2. PICK new \in Release :
          /\ ReleaseDay[new] <= d
          /\ \A r \in Release : r > new => ReleaseDay[r] > d
          /\ \A r \in LiveOn(d) : r = new \/ (r = new - 1 /\ d < ReleaseDay[new] + CanaryDays[new])
    BY LiveReleases
  <2>3. s \in Release /\ (s = new \/ (s = new - 1 /\ d < ReleaseDay[new] + CanaryDays[new]))
    BY <2>1, <2>2
  <2>4. /\ s \in Nat /\ new \in Nat /\ ReleaseDay[s] \in Nat /\ ReleaseDay[new] \in Nat
        /\ Newest \in Nat /\ Newest = Len(ReleaseDay) /\ Release = 1..Len(ReleaseDay)
    BY <2>2, <2>3, ServiceConstants DEF Newest
  <2>5. ReleaseDay[s] <= d
    <3>1. CASE s = new
      BY <2>2, <3>1
    <3>2. CASE s = new - 1
      <4>1. s < new
        BY <2>4, <3>2
      <4>2. ReleaseDay[s] < ReleaseDay[new]
        BY <2>2, <2>3, <4>1, ReleasesInOrder
      <4>3. QED
        BY <2>2, <2>4, <4>2
    <3>3. QED
      BY <2>3, <3>1, <3>2
  <2>6. ASSUME s # Newest PROVE d < ReleaseDay[s + 1] + CanaryDays[s + 1]
    <3>1. s + 1 \in Release /\ ReleaseDay[s + 1] \in Nat /\ CanaryDays[s + 1] \in Nat
      <4>1. s + 1 \in Release
        BY <2>3, <2>4, <2>6
      <4>2. QED
        BY <4>1, ServiceConstants
    <3>2. CASE s = new
      <4>1. s + 1 > new
        BY <2>4, <3>2
      <4>2. ReleaseDay[s + 1] > d
        BY <2>2, <3>1, <4>1
      <4>3. QED
        BY <3>1, <4>2
    <3>3. CASE s = new - 1 /\ d < ReleaseDay[new] + CanaryDays[new]
      <4>1. s + 1 = new
        BY <2>4, <3>3
      <4>2. QED
        BY <3>3, <4>1
    <3>4. QED
      BY <2>3, <3>2, <3>3
  <2>7. ASSUME NEW r \in Release, ReleaseDay[r] <= d, r = Newest \/ d < ReleaseDay[r + 1]
        PROVE  r = new
    <3>1. r \in Nat /\ ReleaseDay[r] \in Nat
      BY ServiceConstants
    <3>2. ~ (r > new)
      <4>1. SUFFICES ASSUME r > new PROVE FALSE
        OBVIOUS
      <4>2. ReleaseDay[r] > d
        BY <2>2, <4>1
      <4>3. QED
        BY <2>7, <3>1, <4>2
    <3>3. ~ (r < new)
      <4>1. SUFFICES ASSUME r < new PROVE FALSE
        OBVIOUS
      <4>2. r # Newest /\ r + 1 \in Release /\ r + 1 <= new
        BY <2>4, <3>1, <4>1
      <4>3. ReleaseDay[r + 1] \in Nat /\ d < ReleaseDay[r + 1]
        BY <2>7, <4>2, ServiceConstants
      <4>4. r + 1 = new \/ ReleaseDay[r + 1] < ReleaseDay[new]
        <5>1. r + 1 = new \/ r + 1 < new
          BY <2>4, <3>1, <4>2
        <5>2. QED
          BY <2>2, <4>2, <5>1, ReleasesInOrder
      <4>5. QED
        BY <2>2, <2>4, <4>3, <4>4
    <3>4. QED
      BY <2>4, <3>1, <3>2, <3>3
  <2>8. s = Newest \/ d < ReleaseDay[s + 1] \/ ReleaseDay[s + 1] <= d
    <3>1. CASE s # Newest
      <4>1. s + 1 \in Release
        BY <2>3, <2>4, <3>1
      <4>2. ReleaseDay[s + 1] \in Nat
        BY <4>1, ServiceConstants
      <4>3. QED
        BY <4>2
    <3>2. QED
      BY <3>1
  <2>9. QED
    BY <2>3, <2>5, <2>6, <2>7, <2>8
<1>3. DatesOverselect
  <2> SUFFICES ASSUME NEW i \in DOMAIN events, NEW r \in Release
               PROVE  LET from == ReleaseDay[r]
                          to == IF r = Newest THEN LastDay + 1 ELSE ReleaseDay[r + 1]
                          byDate == from <= events[i].day /\ events[i].day < to
                      IN /\ byDate /\ events[i].release # r =>
                               events[i].release = r - 1 /\ events[i].day < from + CanaryDays[r]
                         /\ events[i].release = r /\ ~byDate =>
                               r # Newest /\ events[i].day < to + CanaryDays[r + 1]
    BY DEF DatesOverselect
  <2>1. PICK d, s : d = events[i].day /\ s = events[i].release
    OBVIOUS
  <2>2. d \in Nat /\ d \in 0..LastDay /\ s \in LiveOn(d) /\ s \in Release /\ d < LastDay + 1
    BY <1>1, <2>1, ServiceConstants
  <2>3. /\ ReleaseDay[s] <= d
        /\ s # Newest => d < ReleaseDay[s + 1] + CanaryDays[s + 1]
        /\ s = Newest \/ d < ReleaseDay[s + 1] \/ ReleaseDay[s + 1] <= d
        /\ ReleaseDay[r] <= d /\ (r = Newest \/ d < ReleaseDay[r + 1]) =>
              s = r \/ (s = r - 1 /\ d < ReleaseDay[r] + CanaryDays[r])
    BY <1>2, <2>2
  <2>4. PICK to : to = IF r = Newest THEN LastDay + 1 ELSE ReleaseDay[r + 1]
    OBVIOUS
  <2>5. ReleaseDay[r] <= d /\ d < to /\ s # r => s = r - 1 /\ d < ReleaseDay[r] + CanaryDays[r]
    BY <2>3, <2>4
  <2>6. s = r /\ ~ (ReleaseDay[r] <= d /\ d < to) => r # Newest /\ d < to + CanaryDays[r + 1]
    BY <2>2, <2>3, <2>4
  <2>7. QED
    BY <2>1, <2>4, <2>5, <2>6
<1>4. StampsNameBehaviours
  <2> SUFFICES ASSUME NEW r \in Release, Cardinality(Behaviours(r)) > 1
               PROVE  /\ ReleaseDay[r] < ReskillDay
                      /\ r = Newest \/ ReskillDay < ReleaseDay[r + 1] + CanaryDays[r + 1]
    BY DEF StampsNameBehaviours
  <2>0. PICK own : own = {k \in DOMAIN events : events[k].release = r}
    OBVIOUS
  <2>1. ASSUME NEW b, \A k \in own : (events[k].day >= ReskillDay) = b PROVE FALSE
    <3>1. Behaviours(r) \subseteq {b}
      BY <2>0, <2>1, Zenon DEF Behaviours
    <3>2. IsFiniteSet({b}) /\ Cardinality({b}) = 1
      BY FS_Singleton
    <3>3. Cardinality(Behaviours(r)) <= 1 /\ Cardinality(Behaviours(r)) \in Nat
      BY <3>1, <3>2, FS_Subset, FS_CardinalityType
    <3>4. QED
      BY <3>3
  <2>2. PICK i \in DOMAIN events : events[i].release = r /\ events[i].day >= ReskillDay
    <3>1. SUFFICES ASSUME \A k \in own : ~ (events[k].day >= ReskillDay) PROVE FALSE
      BY <2>0
    <3>2. \A k \in own : (events[k].day >= ReskillDay) = FALSE
      BY <3>1
    <3>3. QED
      BY <3>2, <2>1, Zenon
  <2>3. PICK j \in DOMAIN events : events[j].release = r /\ ~ (events[j].day >= ReskillDay)
    <3>1. SUFFICES ASSUME \A k \in own : events[k].day >= ReskillDay PROVE FALSE
      BY <2>0
    <3>2. \A k \in own : (events[k].day >= ReskillDay) = TRUE
      BY <3>1
    <3>3. QED
      BY <3>2, <2>1, Zenon
  <2>4. /\ events[i].day \in Nat /\ r \in LiveOn(events[i].day)
        /\ events[j].day \in Nat /\ r \in LiveOn(events[j].day)
    BY <1>1, <2>2, <2>3
  <2>5. ReleaseDay[r] <= events[j].day /\ (r # Newest => events[i].day < ReleaseDay[r + 1] + CanaryDays[r + 1])
    BY <1>2, <2>4
  <2>6. ReleaseDay[r] \in Nat /\ ReskillDay \in Nat
    BY ServiceConstants
  <2>7. ReleaseDay[r] < ReskillDay
    BY <2>3, <2>4, <2>5, <2>6
  <2>8. CASE r # Newest
    <3>1. r + 1 \in Release
      BY <2>8, ServiceConstants DEF Newest
    <3>2. ReleaseDay[r + 1] + CanaryDays[r + 1] \in Nat
      BY <3>1, ServiceConstants
    <3>3. QED
      BY <2>2, <2>4, <2>5, <2>6, <2>7, <2>8, <3>2
  <2>9. QED
    BY <2>7, <2>8
<1>5. QED
  BY <1>3, <1>4 DEF HistoryIsAttributable

-----------------------------------------------------------------------------
(***************************************************************************)
(* ConfigResolve: the same raw string, typed or not                        *)
(***************************************************************************)

\* A text, a typed value and an error are never taken for one another.
LEMMA ValuesDiffer ==
    ASSUME NEW a, NEW b, NEW t, NEW u
    PROVE  /\ Text(a) # Error /\ Text(a) # Typed(t, b) /\ Typed(t, b) # Error
           /\ Text(a) = Text(b) => a = b
           /\ Typed(t, a) = Typed(u, b) => t = u /\ a = b
<1>1. /\ DOMAIN Text(a) = {"text"} /\ DOMAIN Error = {"error"} /\ DOMAIN Typed(t, b) = {"type", "worth"}
      /\ Text(a).text = a /\ Text(b).text = b
      /\ Typed(t, a).type = t /\ Typed(t, a).worth = a
      /\ Typed(u, b).type = u /\ Typed(u, b).worth = b
  BY DEF Text, Error, Typed
<1>2. "text" # "error" /\ "text" # "type" /\ "error" # "type"
  OBVIOUS
<1>3. {"text"} # {"error"} /\ {"text"} # {"type", "worth"} /\ {"type", "worth"} # {"error"}
  BY <1>2
<1>4. QED
  BY <1>1, <1>3

\* A raw string is worth the text itself, a value of its type, or nothing.
LEMMA ParsedKinds ==
    ASSUME NEW n \in Setting, NEW raw
    PROVE  /\ TypeOf[n] = "str" => Parsed(TypeOf[n], raw) = Text(raw)
           /\ Parsed(TypeOf[n], raw) = Typed("bool", FALSE) => Truthy(Text(raw))
<1>1. TypeOf[n] \in {"float", "str", "bool", "int"}
  BY ConfigAssumption DEF ConfigAssumption
<1>2. CASE TypeOf[n] = "str"
  <2>1. Parsed(TypeOf[n], raw) = Text(raw)
    BY <1>2 DEF Parsed
  <2>2. QED
    BY <2>1, ValuesDiffer
<1>3. CASE TypeOf[n] = "bool"
  <2>1. Parsed(TypeOf[n], raw) = IF raw \notin Truth THEN Error ELSE Typed("bool", raw \in {"true", "1"})
    BY <1>3 DEF Parsed
  <2>2. Typed("bool", FALSE) # Error
    BY ValuesDiffer
  <2>3. raw \in Truth => Truthy(Text(raw))
    BY DEF Truth, Truthy
  <2>4. QED
    BY <1>3, <2>1, <2>2, <2>3
<1>4. CASE TypeOf[n] \in {"int", "float"}
  <2>1. TypeOf[n] # "str" /\ TypeOf[n] # "bool"
    BY <1>4
  <2>2. Parsed(TypeOf[n], raw) = IF raw \in Numeral THEN Typed(TypeOf[n], raw) ELSE Error
    BY <1>4, <2>1 DEF Parsed
  <2>3. Typed("bool", FALSE) # Error /\ Typed(TypeOf[n], raw) # Typed("bool", FALSE)
    BY <2>1, ValuesDiffer
  <2>4. QED
    BY <2>1, <2>2, <2>3
<1>5. QED
  BY <1>1, <1>2, <1>3, <1>4

LEMMA SettingsTyped == CfgSpec => []CfgTypeOK
<1>1. CfgInit => CfgTypeOK
  BY DEF CfgInit, CfgTypeOK
<1>2. CfgTypeOK /\ [CfgNext]_cfgVars => CfgTypeOK'
  BY DEF CfgTypeOK, CfgNext, cfgVars, UnsetEnv, SetEnv, With
<1>3. QED
  BY <1>1, <1>2, PTL DEF CfgSpec

LEMMA SettingsResolve == CfgTypeOK => StrictIsPresence
<1> SUFFICES ASSUME CfgTypeOK, NEW n \in Setting
             PROVE  LET strict == StrictResolve(n)
                        loose == LooseResolve(n)
                    IN /\ n \in DOMAIN env => strict = Error \/ strict = Parsed(TypeOf[n], env[n])
                       /\ n \in DOMAIN env /\ env[n] = "" => strict = Error /\ loose # Text("")
                       /\ n \notin DOMAIN env => strict # Error
                       /\ TypeOf[n] = "str" /\ strict # Error => loose = strict
                       /\ strict # Error /\ strict # DefaultOf[n] =>
                             \E raw \in Raw : loose = Text(raw) /\ strict = Parsed(TypeOf[n], raw)
                       /\ strict = Typed("bool", FALSE) /\ loose # DefaultOf[n] => Truthy(loose)
  BY DEF StrictIsPresence
<1>1. /\ n \in DOMAIN env => env[n] \in Raw
      /\ n \in DOMAIN InFile => InFile[n] \in Raw /\ InFile[n] # "" /\ Parsed(TypeOf[n], InFile[n]) # Error
      /\ DefaultOf[n] # Error /\ DefaultOf[n] # Text("")
  BY ConfigAssumption, DeploymentAssumption DEF CfgTypeOK, ConfigAssumption, DeploymentAssumption
<1>2. PICK strict, loose : strict = StrictResolve(n) /\ loose = LooseResolve(n)
  OBVIOUS
<1>3. CASE n \in DOMAIN env /\ env[n] = ""
  <2>1. strict = Error
    BY <1>2, <1>3 DEF StrictResolve, Present
  <2>2. loose # Text("")
    <3>1. loose = IF n \in DOMAIN InFile THEN Text(InFile[n]) ELSE DefaultOf[n]
      BY <1>2, <1>3 DEF LooseResolve
    <3>2. n \in DOMAIN InFile => Text(InFile[n]) # Text("")
      BY <1>1, ValuesDiffer
    <3>3. QED
      BY <1>1, <3>1, <3>2
  <2>3. Error # Typed("bool", FALSE)
    BY ValuesDiffer
  <2>4. QED
    BY <1>2, <1>3, <2>1, <2>2, <2>3
<1>4. CASE n \in DOMAIN env /\ env[n] # ""
  <2>1. strict = Parsed(TypeOf[n], env[n]) /\ loose = Text(env[n])
    BY <1>2, <1>4 DEF StrictResolve, LooseResolve, Present
  <2>2. QED
    BY <1>1, <1>2, <1>4, <2>1, ParsedKinds
<1>5. CASE n \notin DOMAIN env /\ n \in DOMAIN InFile
  <2>1. strict = Parsed(TypeOf[n], InFile[n]) /\ loose = Text(InFile[n])
    BY <1>2, <1>5 DEF StrictResolve, LooseResolve, Present
  <2>2. QED
    BY <1>1, <1>2, <1>5, <2>1, ParsedKinds
<1>6. CASE n \notin DOMAIN env /\ n \notin DOMAIN InFile
  <2>1. strict = DefaultOf[n] /\ loose = DefaultOf[n]
    BY <1>2, <1>6 DEF StrictResolve, LooseResolve, Present
  <2>2. QED
    BY <1>1, <1>2, <1>6, <2>1
<1>7. QED
  BY <1>3, <1>4, <1>5, <1>6

-----------------------------------------------------------------------------
(***************************************************************************)
(* DependencyPins: everything resolved or queued belongs to every closed   *)
(* set, and what a resolved package needs is resolved or queued            *)
(***************************************************************************)

Lock == UNION {[S -> 1..MaxRelease] : S \in SUBSET Package}

BuildRecord == [lock : Lock, index : [Package -> 1..MaxRelease]]

\* A finished build holds the smallest closed set, at the versions of its day.
Finished(b) ==
    /\ Closed(DOMAIN b.lock)
    /\ \A S \in SUBSET Package : Closed(S) => DOMAIN b.lock \subseteq S
    /\ \A p \in DOMAIN b.lock : b.lock[p] = IF p \in DOMAIN Pinned THEN Pinned[p] ELSE b.index[p]

BuildInv ==
    /\ index \in [Package -> 1..MaxRelease] /\ out \in Lock
    /\ queue \in Seq(Package) /\ builds \in Seq(BuildRecord) /\ Len(builds) <= 2
    /\ \A p \in DOMAIN out : out[p] = VersionOf(p)
    /\ Len(builds) < 2 => /\ Range(Direct) \subseteq DOMAIN out \cup Range(queue)
                          /\ \A p \in DOMAIN out : Range(DepsOf[p]) \subseteq DOMAIN out \cup Range(queue)
    /\ Len(builds) = 2 => out = <<>>
    /\ \A S \in SUBSET Package : Closed(S) => DOMAIN out \subseteq S /\ Range(queue) \subseteq S
    /\ \A b \in Range(builds) : Finished(b)

LEMMA PinConstants ==
    /\ Direct \in Seq(Package) /\ DOMAIN Pinned = Range(Direct)
    /\ \A p \in Package : DepsOf[p] \in Seq(Package)
    /\ \A p \in DOMAIN Pinned : p \in Package /\ Pinned[p] \in 1..MaxRelease
    /\ MaxRelease \in Nat \ {0}
<1>1. Range(Direct) \subseteq Package
  BY PinAssumption, RangeOfSeq DEF PinAssumption
<1>2. QED
  BY <1>1, PinAssumption DEF PinAssumption

LEMMA InLock == ASSUME NEW f \in Lock PROVE DOMAIN f \subseteq Package /\ f \in [DOMAIN f -> 1..MaxRelease]
  BY DEF Lock

LEMMA NothingLocked == <<>> \in Lock /\ DOMAIN <<>> = {} /\ \A f \in Lock : DOMAIN f = {} => f = <<>>
<1>1. DOMAIN <<>> = {}
  OBVIOUS
<1>2. <<>> = [x \in {} |-> 1]
  OBVIOUS
<1>3. <<>> \in [{} -> 1..MaxRelease]
  BY <1>2
<1>4. ASSUME NEW f \in Lock, DOMAIN f = {} PROVE f = <<>>
  <2>1. f = [x \in {} |-> f[x]]
    BY <1>4, InLock
  <2>2. QED
    BY <2>1
<1>5. QED
  BY <1>1, <1>3, <1>4 DEF Lock

LEMMA InitBuild == PinInit => BuildInv
<1> SUFFICES ASSUME PinInit PROVE BuildInv
  OBVIOUS
<1>1. /\ index = [p \in Package |-> IF p \in DOMAIN Pinned THEN Pinned[p] ELSE 1]
      /\ out = <<>> /\ queue = Direct /\ builds = <<>>
  BY DEF PinInit
<1>2. index \in [Package -> 1..MaxRelease]
  BY <1>1, PinConstants
<1>3. out \in Lock /\ DOMAIN out = {}
  BY <1>1, NothingLocked
<1>4. builds \in Seq(BuildRecord) /\ Len(builds) = 0 /\ Range(builds) = {}
  BY <1>1 DEF Range
<1>5. \A S : Closed(S) => Range(queue) \subseteq S
  BY <1>1 DEF Closed
<1>6. QED
  BY <1>1, <1>2, <1>3, <1>4, <1>5, PinConstants DEF BuildInv

LEMMA NextBuild == BuildInv /\ [PinNext]_pinVars => BuildInv'
<1> SUFFICES ASSUME BuildInv, [PinNext]_pinVars PROVE BuildInv'
  OBVIOUS
<1>0. /\ index \in [Package -> 1..MaxRelease] /\ out \in Lock
      /\ queue \in Seq(Package) /\ builds \in Seq(BuildRecord) /\ Len(builds) <= 2
      /\ \A p \in DOMAIN out : out[p] = VersionOf(p)
      /\ Len(builds) < 2 => /\ Range(Direct) \subseteq DOMAIN out \cup Range(queue)
                            /\ \A p \in DOMAIN out : Range(DepsOf[p]) \subseteq DOMAIN out \cup Range(queue)
      /\ Len(builds) = 2 => out = <<>>
      /\ \A S \in SUBSET Package : Closed(S) => DOMAIN out \subseteq S /\ Range(queue) \subseteq S
      /\ \A b \in Range(builds) : Finished(b)
  BY DEF BuildInv
<1>00. Len(builds) \in Nat /\ DOMAIN out \subseteq Package /\ out \in [DOMAIN out -> 1..MaxRelease]
  BY <1>0, InLock
<1>1. CASE UNCHANGED pinVars
  <2>1. UNCHANGED <<index, out, queue, builds>>
    BY <1>1 DEF pinVars
  <2>2. \A p : VersionOf(p)' = VersionOf(p)
    BY <2>1 DEF VersionOf
  <2>3. QED
    BY <1>0, <1>00, <2>1, <2>2 DEF BuildInv
<1>2. CASE Pop
  <2>1. PICK p : p = Last(queue)
    OBVIOUS
  <2>2. /\ queue # <<>> /\ Len(builds) < 2 /\ index' = index /\ builds' = builds
        /\ IF p \in DOMAIN out THEN queue' = Front(queue) /\ out' = out
           ELSE /\ out' = [q \in DOMAIN out \cup {p} |-> IF q = p THEN VersionOf(p) ELSE out[q]]
                /\ queue' = Front(queue) \o DepsOf[p]
    BY <1>2, <2>1 DEF Pop, Resolving
  <2>3. /\ Front(queue) \in Seq(Package) /\ p \in Package
        /\ Range(queue) = Range(Front(queue)) \cup {p}
    BY <1>0, <1>00, <2>1, <2>2, Popped
  <2>4. VersionOf(p) \in 1..MaxRelease /\ \A q : VersionOf(q)' = VersionOf(q)
    BY <1>0, <1>00, <2>2, <2>3, PinConstants DEF VersionOf
  <2>5. CASE p \in DOMAIN out
    <3>1. queue' = Front(queue) /\ out' = out
      BY <2>2, <2>5
    <3>2. DOMAIN out \cup Range(queue') = DOMAIN out \cup Range(queue)
      BY <2>3, <2>5, <3>1
    <3>3. Range(queue') \subseteq Range(queue)
      BY <2>3, <3>1
    <3>4. Len(builds') < 2 =>
             /\ Range(Direct) \subseteq DOMAIN out' \cup Range(queue')
             /\ \A q \in DOMAIN out' : Range(DepsOf[q]) \subseteq DOMAIN out' \cup Range(queue')
      BY <1>0, <1>00, <2>2, <3>1, <3>2
    <3>5. \A S \in SUBSET Package : Closed(S) => DOMAIN out' \subseteq S /\ Range(queue') \subseteq S
      BY <1>0, <1>00, <3>1, <3>3
    <3>6. /\ index' \in [Package -> 1..MaxRelease] /\ out' \in Lock /\ queue' \in Seq(Package)
          /\ builds' \in Seq(BuildRecord) /\ Len(builds') <= 2 /\ Len(builds') # 2
          /\ \A q \in DOMAIN out' : out'[q] = VersionOf(q)'
          /\ \A b \in Range(builds') : Finished(b)
      BY <1>0, <1>00, <2>2, <2>3, <2>4, <3>1
    <3>7. QED
      BY <3>4, <3>5, <3>6 DEF BuildInv
  <2>6. CASE p \notin DOMAIN out
    <3>1. /\ out' = [q \in DOMAIN out \cup {p} |-> IF q = p THEN VersionOf(p) ELSE out[q]]
          /\ queue' = Front(queue) \o DepsOf[p]
      BY <2>2, <2>6
    <3>2. /\ DOMAIN out' = DOMAIN out \cup {p} /\ out'[p] = VersionOf(p)
          /\ \A q \in DOMAIN out : out'[q] = out[q]
      BY <2>6, <3>1
    <3>3. out' \in Lock
      <4>1. out' \in [DOMAIN out \cup {p} -> 1..MaxRelease]
        BY <1>0, <1>00, <2>4, <3>1
      <4>2. DOMAIN out \cup {p} \in SUBSET Package
        BY <1>0, <1>00, <2>3
      <4>3. QED
        BY <4>1, <4>2 DEF Lock
    <3>4. queue' \in Seq(Package) /\ Range(queue') = Range(Front(queue)) \cup Range(DepsOf[p])
      <4>1. DepsOf[p] \in Seq(Package)
        BY <2>3, PinConstants
      <4>2. QED
        BY <2>3, <3>1, <4>1, RangeConcatenation, ConcatProperties
    <3>5. DOMAIN out' \cup Range(queue') = DOMAIN out \cup Range(queue) \cup Range(DepsOf[p])
      BY <2>3, <3>2, <3>4
    <3>6. \A q \in DOMAIN out' : Range(DepsOf[q]) \subseteq DOMAIN out' \cup Range(queue')
      BY <1>0, <1>00, <2>2, <3>2, <3>5
    <3>7. ASSUME NEW S \in SUBSET Package, Closed(S)
          PROVE  DOMAIN out' \subseteq S /\ Range(queue') \subseteq S
      <4>1. DOMAIN out \subseteq S /\ Range(queue) \subseteq S
        BY <1>0, <1>00, <3>7
      <4>2. p \in S /\ Range(DepsOf[p]) \subseteq S
        BY <2>3, <3>7, <4>1 DEF Closed
      <4>3. QED
        BY <2>3, <3>2, <3>4, <4>1, <4>2
    <3>8. \A q \in DOMAIN out' : out'[q] = VersionOf(q)'
      BY <1>0, <1>00, <2>4, <3>2
    <3>9. Range(Direct) \subseteq DOMAIN out' \cup Range(queue')
      BY <1>0, <1>00, <2>2, <3>5
    <3>10. /\ index' \in [Package -> 1..MaxRelease]
           /\ builds' \in Seq(BuildRecord) /\ Len(builds') <= 2 /\ Len(builds') # 2
           /\ \A b \in Range(builds') : Finished(b)
      <4>1. Len(builds) # 2
        BY <1>00, <2>2
      <4>2. index' = index /\ builds' = builds
        BY <2>2
      <4>3. QED
        BY <1>0, <4>1, <4>2
    <3>11. QED
      BY <3>3, <3>4, <3>6, <3>7, <3>8, <3>9, <3>10 DEF BuildInv
  <2>7. QED
    BY <2>5, <2>6
<1>3. CASE Built
  <2> DEFINE b == [lock |-> out, index |-> index]
  <2>1. /\ queue = <<>> /\ Len(builds) < 2 /\ builds' = Append(builds, b)
        /\ out' = <<>> /\ index' = index
        /\ queue' = IF builds = <<>> THEN Direct ELSE <<>>
    BY <1>3 DEF Built
  <2>2. b \in BuildRecord /\ b.lock = out /\ b.index = index
    BY <1>0, <1>00 DEF BuildRecord
  <2> HIDE DEF b
  <2>3. Range(queue) = {}
    BY <2>1 DEF Range
  <2>4. Finished(b)
    <3>1. Closed(DOMAIN out)
      BY <1>0, <1>00, <2>1, <2>3 DEF Closed
    <3>2. \A p \in DOMAIN out : out[p] = IF p \in DOMAIN Pinned THEN Pinned[p] ELSE index[p]
      BY <1>0, <1>00 DEF VersionOf
    <3>3. QED
      BY <1>0, <1>00, <2>2, <3>1, <3>2 DEF Finished
  <2>5. /\ builds' \in Seq(BuildRecord) /\ Len(builds') = Len(builds) + 1 /\ Len(builds') <= 2
        /\ Range(builds') = Range(builds) \cup {b}
    <3>1. /\ builds' \in Seq(BuildRecord) /\ Len(builds') = Len(builds) + 1
          /\ \A i \in 1..Len(builds) : builds'[i] = builds[i]
          /\ builds'[Len(builds) + 1] = b
          /\ DOMAIN builds' = 1..Len(builds) + 1 /\ DOMAIN builds = 1..Len(builds)
      BY <1>0, <1>00, <2>1, <2>2
    <3>2. 1..Len(builds) + 1 = (1..Len(builds)) \cup {Len(builds) + 1}
      <4>1. \A n \in Nat : 1..n + 1 = (1..n) \cup {n + 1}
        OBVIOUS
      <4>2. QED
        BY <1>00, <4>1
    <3>3. Range(builds') = Range(builds) \cup {b}
      BY <3>1, <3>2 DEF Range
    <3>4. QED
      BY <1>0, <1>00, <2>1, <3>1, <3>3
  <2>6. /\ queue' \in Seq(Package)
        /\ \A S : Closed(S) => Range(queue') \subseteq S
        /\ Len(builds') < 2 => Range(Direct) \subseteq Range(queue')
    <3>1. CASE builds = <<>>
      BY <2>1, <3>1, PinConstants DEF Closed
    <3>2. CASE builds # <<>>
      <4>1. Len(builds) # 0
        BY <1>0, <1>00, <3>2
      <4>2. queue' = <<>> /\ ~ (Len(builds') < 2)
        BY <1>0, <1>00, <2>1, <2>5, <3>2, <4>1
      <4>3. Range(queue') = {}
        BY <4>2 DEF Range
      <4>4. queue' \in Seq(Package)
        BY <4>2
      <4>5. QED
        BY <4>2, <4>3, <4>4
    <3>3. QED
      BY <3>1, <3>2
  <2>7. out' \in Lock /\ DOMAIN out' = {}
    BY <2>1, NothingLocked
  <2>8. QED
    BY <1>0, <1>00, <2>1, <2>4, <2>5, <2>6, <2>7 DEF BuildInv
<1>4. ASSUME NEW p \in Package, Publish(p) PROVE BuildInv'
  <2>1. /\ Len(builds) = 1 /\ out = <<>> /\ queue = Direct /\ index[p] < MaxRelease
        /\ index' = [index EXCEPT ![p] = @ + 1]
        /\ out' = out /\ queue' = queue /\ builds' = builds
    BY <1>4 DEF Publish
  <2>2. index' \in [Package -> 1..MaxRelease]
    BY <1>0, <1>00, <2>1, PinConstants
  <2>3. DOMAIN out' = {}
    BY <2>1, NothingLocked
  <2>4. \A q \in DOMAIN out' : out'[q] = VersionOf(q)'
    BY <2>3
  <2>5. QED
    BY <1>0, <1>00, <2>1, <2>2, <2>4 DEF BuildInv
<1>5. QED
  BY <1>1, <1>2, <1>3, <1>4 DEF PinNext

LEMMA BuildHolds == PinSpec => []BuildInv
  BY InitBuild, NextBuild, PTL DEF PinSpec

LEMMA PinsHold == BuildInv => PinTypeOK /\ PinsAreNotALock
<1> SUFFICES ASSUME BuildInv PROVE PinTypeOK /\ PinsAreNotALock
  OBVIOUS
<1>0. /\ index \in [Package -> 1..MaxRelease] /\ out \in Lock /\ queue \in Seq(Package)
      /\ builds \in Seq(BuildRecord) /\ Len(builds) <= 2 /\ Len(builds) \in Nat
      /\ Len(builds) = 2 => out = <<>>
      /\ DOMAIN out \subseteq Package /\ out \in [DOMAIN out -> 1..MaxRelease]
  BY InLock DEF BuildInv
<1>1. PinTypeOK
  BY <1>0 DEF PinTypeOK
<1>2. out # <<>> => Range(Direct) \cup UNION {Range(DepsOf[p]) : p \in DOMAIN out}
                       \subseteq DOMAIN out \cup Range(queue)
  <2>1. SUFFICES ASSUME out # <<>>
                 PROVE  Range(Direct) \cup UNION {Range(DepsOf[p]) : p \in DOMAIN out}
                           \subseteq DOMAIN out \cup Range(queue)
    OBVIOUS
  <2>2. Len(builds) < 2
    <3>1. Len(builds) # 2
      BY <1>0, <2>1
    <3>2. \A n \in Nat : n <= 2 /\ n # 2 => n < 2
      OBVIOUS
    <3>3. QED
      BY <1>0, <3>1, <3>2
  <2>3. QED
    BY <2>2 DEF BuildInv
<1>3. ASSUME NEW b \in Range(builds)
      PROVE  /\ b \in BuildRecord /\ Finished(b) /\ DOMAIN b.lock \in SUBSET Package
             /\ \A S \in SUBSET DOMAIN b.lock : Closed(S) => S = DOMAIN b.lock
             /\ \A p \in DOMAIN Pinned : p \in DOMAIN b.lock /\ b.lock[p] = Pinned[p]
  <2>1. b \in BuildRecord
    BY <1>0, RangeOfSeq
  <2>2. Finished(b)
    BY DEF BuildInv
  <2>3. DOMAIN b.lock \in SUBSET Package
    <3>1. b.lock \in Lock
      BY <2>1 DEF BuildRecord
    <3>2. QED
      BY <3>1, InLock
  <2>4. \A p \in DOMAIN Pinned : p \in DOMAIN b.lock
    BY <2>2, PinConstants DEF Finished, Closed
  <2>5. ASSUME NEW S \in SUBSET DOMAIN b.lock, Closed(S) PROVE S = DOMAIN b.lock
    <3>1. S \in SUBSET Package
      BY <2>3
    <3>2. QED
      BY <2>2, <2>5, <3>1 DEF Finished
  <2>6. QED
    BY <2>1, <2>2, <2>3, <2>4, <2>5 DEF Finished
<1>4. ASSUME Len(builds) = 2
      PROVE  /\ DOMAIN builds[1].lock = DOMAIN builds[2].lock
             /\ \A p \in DOMAIN builds[1].lock :
                   builds[1].lock[p] # builds[2].lock[p] <=>
                      p \notin DOMAIN Pinned /\ builds[1].index[p] # builds[2].index[p]
  <2>1. builds[1] \in Range(builds) /\ builds[2] \in Range(builds)
    <3>1. DOMAIN builds = 1..2
      BY <1>0, <1>4
    <3>2. QED
      BY <3>1 DEF Range
  <2>2. /\ Finished(builds[1]) /\ DOMAIN builds[1].lock \in SUBSET Package
        /\ Finished(builds[2]) /\ DOMAIN builds[2].lock \in SUBSET Package
    BY <1>3, <2>1
  <2>3. DOMAIN builds[1].lock = DOMAIN builds[2].lock
    BY <2>2 DEF Finished
  <2>4. QED
    BY <2>2, <2>3 DEF Finished
<1>5. \A b \in Range(builds) :
          LET lock == b.lock IN
          /\ Closed(DOMAIN lock)
          /\ \A S \in SUBSET DOMAIN lock : Closed(S) => S = DOMAIN lock
          /\ \A p \in DOMAIN Pinned : lock[p] = Pinned[p]
  BY <1>3 DEF Finished
<1>6. PinsAreNotALock
  BY <1>2, <1>4, <1>5 DEF PinsAreNotALock
<1>7. QED
  BY <1>1, <1>6

-----------------------------------------------------------------------------
(***************************************************************************)
(* The six side by side                                                    *)
(***************************************************************************)

\* Whichever of the six runs, each starts and moves as it does alone.
LEMMA LabParts ==
    /\ LabInit => Init /\ FqInit /\ SchedInit /\ SvInit /\ CfgInit /\ PinInit
    /\ [LabNext]_labVars => /\ [Next]_vars /\ [FqNext]_fqVars /\ [SchedNext]_schedVars
                            /\ [SvNext]_svVars /\ [CfgNext]_cfgVars /\ [PinNext]_pinVars
<1>1. UNCHANGED labVars => UNCHANGED <<vars, fqVars, schedVars, svVars, cfgVars, pinVars>>
  BY DEF labVars
<1>2. QED
  BY <1>1 DEF LabInit, LabNext

\* What the parts promise holds whichever of them runs.
LEMMA LabSpecs == LabSpec => Spec /\ FqSpec /\ SchedSpec /\ SvSpec /\ CfgSpec /\ PinSpec
  BY LabParts, PTL DEF LabSpec, Spec, FqSpec, SchedSpec, SvSpec, CfgSpec, PinSpec

\* Bad neighbours are contained: for any set of items, poison among them, and any
\* lengths, prompts and batch size.
THEOREM NeighboursServed == LabSpec => []NeighboursAreServed
<1>1. QueueInv /\ BatchInv => NeighboursAreServed
  BY DEF QueueInv, BatchInv, NeighboursAreServed
<1>2. QED
  BY <1>1, LabSpecs, QueueHolds, BatchHolds, PTL

\* What an operator reads later about an event or a failure is what happened,
\* for any timeline of releases, canaries and requests.
THEOREM EventsAccountable == LabSpec => []EventsAreAccountable
<1>1. ServiceInv => EventsAreAccountable
  BY HistoryAttributed DEF ServiceInv, EventsAreAccountable
<1>2. QED
  BY <1>1, LabSpecs, ServiceHolds, PTL

\* What a deployment says of itself holds of what it runs, for any settings,
\* any well-typed file and defaults, and any graph of dependencies.
THEOREM DeploysSayIt == LabSpec => []DeploysSayWhatTheyRun
<1>1. CfgTypeOK /\ BuildInv => DeploysSayWhatTheyRun
  BY SettingsResolve, PinsHold DEF DeploysSayWhatTheyRun
<1>2. QED
  BY <1>1, LabSpecs, SettingsTyped, BuildHolds, PTL

\* Types of all six: no token, attempt, slot or version out of its range.
THEOREM QueueTypes == LabSpec => []LabTypeOK
<1>1. TypeOK /\ QueueInv /\ BatchInv /\ ServiceInv /\ CfgTypeOK /\ BuildInv => LabTypeOK
  BY PinsHold DEF QueueInv, BatchInv, ServiceInv, LabTypeOK
<1>2. QED
  BY <1>1, LabSpecs, TypeCorrect, QueueHolds, BatchHolds, ServiceHolds, SettingsTyped, BuildHolds, PTL
=============================================================================
