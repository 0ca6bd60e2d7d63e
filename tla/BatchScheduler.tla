--------------------------- MODULE BatchScheduler ---------------------------
(***************************************************************************)
(* One engine, one policy, one arrival trace: simulate() of                *)
(* serving-lab/batching_lab.py.  Time is the engine's steps; how long a    *)
(* step or a prefill takes only decides which requests have arrived by the *)
(* next one, which is left open.  Lengths are known to the requests, never *)
(* to the scheduler.                                                       *)
(***************************************************************************)
EXTENDS Naturals, Sequences, FiniteSets, FiniteSetsExt

CONSTANTS
    Tokens,         \* Tokens[r]: gen, the tokens request r will produce
    Chunks,         \* Chunks[r]: pieces of its prompt when prefill is chunked
    MaxBatch

ASSUME SchedulerAssumption ==
    /\ Tokens \in Seq(Nat \ {0}) /\ Chunks \in [DOMAIN Tokens -> Nat \ {0}]
    /\ MaxBatch \in Nat \ {0}

Requests == DOMAIN Tokens

VARIABLES
    sched,      \* [policy, chunked]: the arguments of simulate()
    arrived,    \* cursor: requests 1..arrived have arrived
    admitted,   \* requests 1..admitted have been popped from queue_
    active,
    prefill,    \* prefill_left of each request, in chunks
    left,       \* tokens each has still to produce
    served,     \* done
    age,        \* history: engine steps since each was admitted
    idled       \* history: slots left empty while a request was queued

schedVars == <<sched, arrived, admitted, active, prefill, left, served, age, idled>>

SchedTypeOK ==
    /\ sched \in [policy : {"none", "static", "continuous"}, chunked : BOOLEAN]
    /\ arrived \in 0..Len(Tokens) /\ admitted \in 0..arrived
    /\ active \subseteq Requests /\ served \subseteq Requests
    /\ prefill \in [Requests -> Nat] /\ left \in [Requests -> Nat]
    /\ age \in [Requests -> Nat] /\ idled \in Nat

SchedInit ==
    /\ sched \in [policy : {"none", "static", "continuous"}, chunked : BOOLEAN]
    /\ arrived = 0 /\ admitted = 0
    /\ active = {} /\ served = {}
    /\ prefill = [r \in Requests |-> IF sched.chunked THEN Chunks[r] ELSE 0]
    /\ left = Tokens
    /\ age = [r \in Requests |-> 0]
    /\ idled = 0

Slots == IF sched.policy = "none" THEN 1 ELSE MaxBatch

\* a static batch is filled up again as its members finish
CanAdmit_Always == TRUE

\* (policy != "static") or not active
CanAdmit == sched.policy = "static" => active = {}

\* while queue_ and len(active) < slots
Admissible ==
    IF CanAdmit THEN Min({arrived - admitted, Slots - Cardinality(active)}) ELSE 0

Arrive ==
    /\ arrived < Len(Tokens)
    /\ arrived' = arrived + 1
    /\ UNCHANGED <<sched, admitted, active, prefill, left, served, age, idled>>

Less(n) == IF n > 0 THEN n - 1 ELSE 0

\* one turn of the loop: fill the free slots in order of arrival, then one
\* step of the engine for everybody in the batch; who finishes leaves, in a
\* static batch only when all have finished
EngineStep ==
    LET batch == active \cup (admitted + 1)..(admitted + Admissible)
        decoding == {r \in batch : prefill[r] = 0}
        finished == {r \in decoding : left[r] <= 1}
        leave == IF sched.policy # "static" THEN finished
                 ELSE IF finished = batch THEN batch ELSE {}
    IN
    /\ batch # {}
    /\ admitted' = admitted + Admissible
    /\ prefill' = [r \in Requests |-> IF r \in batch THEN Less(prefill[r]) ELSE prefill[r]]
    /\ left' = [r \in Requests |-> IF r \in decoding THEN Less(left[r]) ELSE left[r]]
    /\ active' = batch \ leave
    /\ served' = served \cup leave
    /\ age' = [r \in Requests |-> IF r \in batch THEN age[r] + 1 ELSE age[r]]
    /\ idled' = IF admitted' < arrived THEN idled + Slots - Cardinality(batch) ELSE idled
    /\ UNCHANGED <<sched, arrived>>

SchedDone == served = Requests /\ UNCHANGED schedVars

SchedNext == Arrive \/ EngineStep \/ SchedDone

SchedSpec == SchedInit /\ [][SchedNext]_schedVars

-----------------------------------------------------------------------------
\* engine steps a request needs once it has a slot
Need(r) == (IF sched.chunked THEN Chunks[r] ELSE 0) + Tokens[r]

\* Nobody waits for anybody else's length unless the batch is static.  With
\* the other policies a slot is never empty while a request is queued, and an
\* admitted request leaves after exactly the steps it needs itself; in a static
\* batch it stays as long as some request needs and never leaves early.
\* Requests are admitted in the order of arrival and every one is in one place.
NobodyWaitsForLongest ==
    /\ Cardinality(active) <= Slots
    /\ active \cap served = {} /\ active \cup served = 1..admitted
    /\ sched.policy # "static" =>
          /\ idled = 0
          /\ \A r \in active : age[r] < Need(r)
          /\ \A r \in served : age[r] = Need(r)
    /\ sched.policy = "static" =>
          /\ \A r \in served : age[r] >= Need(r) /\ \E m \in served : age[r] = Need(m)
          /\ \A r, s \in active : age[r] = age[s]
=============================================================================
