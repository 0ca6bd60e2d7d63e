------------------------------ MODULE JobQueue ------------------------------
(***************************************************************************)
(* The durable job table of service-lab/jobs_lab.py: enqueue, claim by     *)
(* lease, complete behind a fencing token, workers that are slow or killed *)
(* and the sweep that restarts them.                                       *)
(*                                                                         *)
(* Every SQL statement of the file is one transaction on one SQLite        *)
(* database, hence one atomic step.  Workers interleave between them, and  *)
(* the clock may move between any two steps, so a worker can be slower     *)
(* than any lease.                                                         *)
(***************************************************************************)
EXTENDS Naturals, Sequences

CONSTANTS
    Worker,         \* the threads of one experiment
    Lease,          \* length of a lease, in ticks
    SweepWait,      \* how long the supervisor sleeps before it restarts workers
    Killed,         \* jobs whose first execution kills the worker
    LeaseModes,     \* values of use_lease: TRUE, a lease; FALSE, a bare flag
    Fencing,        \* TRUE: complete() checks the fence
    InitialJobs,    \* jobs enqueued before the workers start
    MaxJobs,        \* bound: jobs enqueued in all
    MaxTime,        \* bound: ticks of the clock outside the sweep
    MaxSweeps,      \* bound: how often the supervisor sweeps (the lab: once)
    None            \* no row, no result

ASSUME JobQueueAssumption ==
    /\ Lease \in Nat
    /\ SweepWait \in Nat /\ SweepWait > Lease
    /\ Killed \subseteq Nat
    /\ LeaseModes \subseteq BOOLEAN /\ Fencing \in BOOLEAN
    /\ InitialJobs \in Nat /\ MaxJobs \in Nat /\ InitialJobs <= MaxJobs
    /\ MaxTime \in Nat /\ MaxSweeps \in Nat
    /\ None \notin Worker

VARIABLES
    jobs,       \* the table: jobs[j] is the row with job_id = j
    now,        \* time.time()
    pc,         \* where each worker thread is
    row,        \* the worker's local copy of the row claim() returned
    written,    \* the results that were kept (the list `written` of the lab)
    sweeps,     \* how often the supervisor has restarted the workers
    use_lease   \* whether this experiment's workers claim by lease or by flag

vars == <<jobs, now, pc, row, written, sweeps, use_lease>>

(***************************************************************************)
(* Types                                                                   *)
(***************************************************************************)
JobState == {"ready", "leased", "done"}     \* 'parked' is never written

JobRow == [state : JobState, attempts : Nat, lease_until : Nat, fence : Nat]

ClaimedRow == [job : Nat \ {0}, fence : Nat, attempts : Nat]

Write == [worker : Worker, job : Nat \ {0}, fence : Nat]

NewRow == [state |-> "ready", attempts |-> 0, lease_until |-> 0, fence |-> 0]

NoRow == [job |-> 1, fence |-> 0, attempts |-> 0]

TypeOK ==
    /\ jobs \in Seq(JobRow)
    /\ now \in Nat
    /\ pc \in [Worker -> {"loop", "work", "stopped"}]
    /\ row \in [Worker -> ClaimedRow]
    /\ written \subseteq Write
    /\ sweeps \in Nat
    /\ use_lease \in LeaseModes

(***************************************************************************)
(* State predicates of the SQL statements                                  *)
(***************************************************************************)
JobId == DOMAIN jobs

\* a claim that forgets leases expire
Claimable_NoExpiry(j) == jobs[j].state = "ready"

\* a claim that treats a bare flag like an expired lease
Claimable_AnyLeased(j) ==
    \/ jobs[j].state = "ready"
    \/ jobs[j].state = "leased" /\ jobs[j].lease_until < now

\* WHERE state='ready' OR (state='leased' AND lease_until < now)
Claimable(j) ==
    \/ jobs[j].state = "ready"
    \/ use_lease /\ jobs[j].state = "leased" /\ jobs[j].lease_until < now

\* ORDER BY job_id LIMIT 1
NextJob(j) ==
    /\ Claimable(j)
    /\ \A i \in JobId : Claimable(i) => j <= i

\* a claim that forgets to advance the token
Leased_SameFence(r) ==
    [state |-> "leased",
     attempts |-> r.attempts + 1,
     lease_until |-> IF use_lease THEN now + Lease ELSE r.lease_until,
     fence |-> r.fence]

\* a claim that parks a job on its second attempt, without a token
Leased_Parked(r) ==
    IF r.attempts = 0
    THEN [state |-> "leased", attempts |-> 1, lease_until |-> now + Lease,
          fence |-> r.fence + 1]
    ELSE [state |-> "parked", attempts |-> r.attempts + 1,
          lease_until |-> r.lease_until, fence |-> r.fence]

\* SET state='leased', lease_until=?, attempts=attempts+1, fence=fence+1
Leased(r) ==
    [state |-> "leased",
     attempts |-> r.attempts + 1,
     lease_until |-> IF use_lease THEN now + Lease ELSE r.lease_until,
     fence |-> r.fence + 1]

\* complete() with the comparison the wrong way round in time
MayComplete_AnyToken(w) == jobs[row[w].job].fence >= row[w].fence

\* WHERE job_id=? AND fence=?   (without fencing: WHERE job_id=?)
MayComplete(w) == Fencing => jobs[row[w].job].fence = row[w].fence

\* job_id in killed and attempts == 1
KilledBy(w) == row[w].job \in Killed /\ row[w].attempts = 1

-----------------------------------------------------------------------------
Init ==
    /\ jobs = [j \in 1..InitialJobs |-> NewRow]
    /\ now = 1
    /\ pc = [w \in Worker |-> "loop"]
    /\ row = [w \in Worker |-> NoRow]
    /\ written = {}
    /\ sweeps = 0
    /\ use_lease \in LeaseModes

\* enqueue(): one INSERT, committed
Enqueue ==
    /\ Len(jobs) < MaxJobs
    /\ jobs' = Append(jobs, NewRow)
    /\ UNCHANGED <<now, pc, row, written, sweeps, use_lease>>

\* claim(): one UPDATE ... RETURNING, committed
Claim(w) ==
    /\ pc[w] = "loop"
    /\ \E j \in JobId :
        /\ NextJob(j)
        /\ jobs' = [jobs EXCEPT ![j] = Leased(@)]
        /\ row' = [row EXCEPT ![w] = [job |-> j,
                                      fence |-> Leased(jobs[j]).fence,
                                      attempts |-> Leased(jobs[j]).attempts]]
    /\ pc' = [pc EXCEPT ![w] = "work"]
    /\ UNCHANGED <<now, written, sweeps, use_lease>>

\* if not row: break
Exit(w) ==
    /\ pc[w] = "loop"
    /\ \A j \in JobId : ~Claimable(j)
    /\ pc' = [pc EXCEPT ![w] = "stopped"]
    /\ UNCHANGED <<jobs, now, row, written, sweeps, use_lease>>

\* the process is gone, mid-job: the row stays as claim() left it
Die(w) ==
    /\ pc[w] = "work"
    /\ KilledBy(w)
    /\ pc' = [pc EXCEPT ![w] = "stopped"]
    /\ UNCHANGED <<jobs, now, row, written, sweeps, use_lease>>

\* complete() matched a row: the result is kept
Complete(w) ==
    /\ pc[w] = "work"
    /\ ~KilledBy(w)
    /\ MayComplete(w)
    /\ jobs' = [jobs EXCEPT ![row[w].job].state = "done"]
    /\ written' = written \cup
                    {[worker |-> w, job |-> row[w].job, fence |-> row[w].fence]}
    /\ pc' = [pc EXCEPT ![w] = "loop"]
    /\ UNCHANGED <<now, row, sweeps, use_lease>>

\* complete() matched no row: a stale worker discards its own result
Discard(w) ==
    /\ pc[w] = "work"
    /\ ~KilledBy(w)
    /\ ~MayComplete(w)
    /\ pc' = [pc EXCEPT ![w] = "loop"]
    /\ UNCHANGED <<jobs, now, row, written, sweeps, use_lease>>

\* the supervisor: join every worker, outsleep every lease, start workers again
Sweep ==
    /\ sweeps < MaxSweeps
    /\ \A w \in Worker : pc[w] = "stopped"
    /\ now' = now + SweepWait
    /\ pc' = [w \in Worker |-> "loop"]
    /\ sweeps' = sweeps + 1
    /\ UNCHANGED <<jobs, row, written, use_lease>>

Tick ==
    /\ now < MaxTime
    /\ now' = now + 1
    /\ UNCHANGED <<jobs, pc, row, written, sweeps, use_lease>>

Step(w) == Claim(w) \/ Exit(w) \/ Die(w) \/ Complete(w) \/ Discard(w)

Next == Enqueue \/ Sweep \/ Tick \/ \E w \in Worker : Step(w)

Spec == Init /\ [][Next]_vars

\* A started thread runs, and the supervisor does come back.  Nobody has to
\* enqueue, and no worker has to be fast: the clock may pass any lease.
FairSpec == Spec /\ WF_vars(Sweep) /\ \A w \in Worker : WF_vars(Step(w))

-----------------------------------------------------------------------------
(***************************************************************************)
(* Properties                                                              *)
(***************************************************************************)

\* However many workers hold the same job, slow or alive, at most one result
\* is kept for it (jobs_lab.py section 2: one write with the fence on).
AtMostOneWrite ==
    \A a, b \in written : a.job = b.job => a = b

\* No two executions of a job carry the same token: whoever holds a lease can
\* be told from everyone who held it before, in memory or among the results.
DistinctTokens ==
    /\ \A v, w \in Worker :
        (pc[v] = "work" /\ pc[w] = "work" /\ v # w /\ row[v].job = row[w].job)
            => row[v].fence # row[w].fence
    /\ \A a \in written, w \in Worker :
        (pc[w] = "work" /\ row[w].job = a.job) => row[w].fence # a.fence

\* A kept result was written under the last token ever handed out for its job,
\* and the job stays done: nothing hands it out again.
WrittenByLastHolder ==
    \A a \in written :
        /\ a.job \in JobId
        /\ jobs[a.job].state = "done"
        /\ jobs[a.job].fence = a.fence

\* "The fencing token is the part that makes it correct": no two holders share
\* one, what is kept of a job is one result, that of its last holder, and the job
\* is not reopened.
FencedWrites == DistinctTokens /\ AtMostOneWrite /\ WrittenByLastHolder

\* With a bare state flag a job whose worker is gone never changes again: no
\* later worker can take it, however often the workers are restarted.
FlagStrandsJobs ==
    [][\A j \in JobId :
        (/\ ~use_lease
         /\ jobs[j].state = "leased"
         /\ \A w \in Worker : pc[w] = "work" => row[w].job # j)
            => jobs'[j] = jobs[j]]_vars

\* With leases, one sweep, and fewer killing jobs than workers, everything that
\* was enqueued before the workers started is finished in the end.
EverythingIsDone ==
    use_lease ~> [](\A j \in 1..InitialJobs : jobs[j].state = "done")

\* What the lease buys: without it a job is stranded with its worker, with it
\* every job is done in the end.
LeaseKeepsJobsMoving == FlagStrandsJobs /\ EverythingIsDone

\* The results, seen as the promise of a work queue.
Results ==
    [j \in 1..MaxJobs |->
        IF \E a \in written : a.job = j
        THEN (CHOOSE a \in written : a.job = j).worker
        ELSE None]

Queue == INSTANCE WorkOnce WITH Job <- 1..MaxJobs, result <- Results

\* The job table implements that promise.
KeepsEachResultOnce == Queue!Spec
=============================================================================
