----------------------------- MODULE TxCounter -----------------------------
(***************************************************************************)
(* Read, modify, write, with company: hammer() of service-lab/tx_lab.py.   *)
(* Threads increment one counter row of a SQLite database in WAL mode by   *)
(* one of five strategies; a statement that cannot get the write lock in   *)
(* time raises OperationalError and the request is dropped and counted.    *)
(*                                                                         *)
(* SQLite as the code uses it: readers see the last commit and never wait; *)
(* there is one write lock, taken by BEGIN IMMEDIATE or by the first       *)
(* UPDATE, and released by commit and rollback; a transaction that has     *)
(* read (strategy "deferred") can only become a writer while nobody has    *)
(* committed since that read.                                              *)
(***************************************************************************)
EXTENDS Naturals, FiniteSets

CONSTANTS
    Thread,         \* WORKERS
    Increments,     \* requests per thread
    Strategies,     \* which of them hammer() is called with
    None            \* nobody holds the write lock

Strategy == {"naive", "deferred", "immediate", "optimistic", "atomic"}

ASSUME TxCounterAssumption ==
    /\ Increments \in Nat \ {0}
    /\ Strategies \subseteq Strategy
    /\ None \notin Thread /\ IsFiniteSet(Thread)

VARIABLES
    strategy,   \* the argument of hammer()
    counter,    \* the committed row, with its version column
    commits,    \* how many increments have been committed
    writer,     \* who holds the write lock
    pc,         \* the statement each thread executes next
    seen,       \* what its SELECT returned, and the commit it was taken at
    out,        \* the value its open UPDATE will commit
    hit,        \* cur.rowcount == 1
    left,       \* requests it has still to do
    errors      \* len(errors)

vars == <<strategy, counter, commits, writer, pc, seen, out, hit, left, errors>>

TypeOK ==
    /\ strategy \in Strategies
    /\ counter \in [value : Nat, version : Nat]
    /\ commits \in Nat
    /\ writer \in Thread \cup {None}
    /\ pc \in [Thread -> {"begin", "read", "update", "commit", "done"}]
    /\ seen \in [Thread -> [value : Nat, version : Nat, commit : Nat]]
    /\ out \in [Thread -> Nat]
    /\ hit \in [Thread -> BOOLEAN]
    /\ left \in [Thread -> 0..Increments]
    /\ errors \in Nat

\* the first statement of one attempt
First ==
    IF strategy = "immediate" THEN "begin"
    ELSE IF strategy = "atomic" THEN "update"
    ELSE "read"

Init ==
    /\ strategy \in Strategies
    /\ counter = [value |-> 0, version |-> 0]
    /\ commits = 0
    /\ writer = None
    /\ pc = [t \in Thread |-> First]
    /\ seen = [t \in Thread |-> [value |-> 0, version |-> 0, commit |-> 0]]
    /\ out = [t \in Thread |-> 0]
    /\ hit = [t \in Thread |-> FALSE]
    /\ left = [t \in Thread |-> Increments]
    /\ errors = 0

\* a loop that runs once more
NextRequest_Late(t) ==
    /\ left' = [left EXCEPT ![t] = @ - 1]
    /\ pc' = [pc EXCEPT ![t] = IF left[t] = 0 THEN "done" ELSE First]

\* this request is over: break, and the next one of the for loop
NextRequest(t) ==
    /\ left' = [left EXCEPT ![t] = @ - 1]
    /\ pc' = [pc EXCEPT ![t] = IF left[t] = 1 THEN "done" ELSE First]

\* nobody else holds the write lock
LockFree(t) == writer \in {None, t}

\* a transaction whose read is never too old
Upgradable_Always(t) == TRUE

\* a deferred transaction that has read may only write if its snapshot is current
Upgradable(t) == strategy = "deferred" => seen[t].commit = commits

-----------------------------------------------------------------------------
\* BEGIN IMMEDIATE: write lock up front
Begin(t) ==
    /\ pc[t] = "begin"
    /\ LockFree(t)
    /\ writer' = t
    /\ pc' = [pc EXCEPT ![t] = "read"]
    /\ UNCHANGED <<strategy, counter, commits, seen, out, hit, left, errors>>

\* a read hoisted out of the loop
Read_Hoisted(t) ==
    /\ pc[t] = "read"
    /\ seen' = IF left[t] < Increments THEN seen
               ELSE [seen EXCEPT ![t] = [value |-> counter.value,
                                         version |-> counter.version,
                                         commit |-> commits]]
    /\ pc' = [pc EXCEPT ![t] = "update"]
    /\ UNCHANGED <<strategy, counter, commits, writer, out, hit, left, errors>>

\* SELECT value (and version)
Read(t) ==
    /\ pc[t] = "read"
    /\ seen' = [seen EXCEPT ![t] = [value |-> counter.value,
                                    version |-> counter.version,
                                    commit |-> commits]]
    /\ pc' = [pc EXCEPT ![t] = "update"]
    /\ UNCHANGED <<strategy, counter, commits, writer, out, hit, left, errors>>

\* a WHERE clause that forgot the version
Matches_AnyVersion(t) == TRUE

\* WHERE name='extractions' AND version=?
Matches(t) == strategy = "optimistic" => seen[t].version = counter.version

\* UPDATE counters SET value=...: takes the write lock if it is not held yet
Update(t) ==
    /\ pc[t] = "update"
    /\ LockFree(t) /\ Upgradable(t)
    /\ writer' = t
    /\ hit' = [hit EXCEPT ![t] = Matches(t)]
    /\ out' = [out EXCEPT ![t] =
                IF strategy = "atomic" THEN counter.value + 1 ELSE seen[t].value + 1]
    /\ pc' = [pc EXCEPT ![t] = "commit"]
    /\ UNCHANGED <<strategy, counter, commits, seen, left, errors>>

\* conn.commit() of an UPDATE that changed the row
Commit(t) ==
    /\ pc[t] = "commit" /\ hit[t]
    /\ counter' = [value |-> out[t],
                   version |-> counter.version + (IF strategy = "optimistic" THEN 1 ELSE 0)]
    /\ commits' = commits + 1
    /\ writer' = None
    /\ NextRequest(t)
    /\ UNCHANGED <<strategy, seen, out, hit, errors>>

\* rowcount == 0: somebody else won; re-read
Lose(t) ==
    /\ pc[t] = "commit" /\ ~hit[t]
    /\ writer' = None
    /\ pc' = [pc EXCEPT ![t] = First]
    /\ UNCHANGED <<strategy, counter, commits, seen, out, hit, left, errors>>

\* a request dropped without a word
Fail_Silent(t) ==
    /\ \/ pc[t] \in {"begin", "update"} /\ ~LockFree(t)
       \/ pc[t] = "update" /\ ~Upgradable(t)
    /\ NextRequest(t)
    /\ UNCHANGED <<strategy, counter, commits, writer, seen, out, hit, errors>>

\* a conflict answered by issuing the statement again, not the transaction
Fail_RetryStatement(t) ==
    /\ pc[t] \in {"begin", "update"} /\ ~LockFree(t)
    /\ errors' = errors + 1
    /\ NextRequest(t)
    /\ UNCHANGED <<strategy, counter, commits, writer, seen, out, hit>>

\* OperationalError: rollback, one error, the request is lost, not retried
Fail(t) ==
    /\ \/ pc[t] \in {"begin", "update"} /\ ~LockFree(t)
       \/ pc[t] = "update" /\ ~Upgradable(t)
    /\ errors' = errors + 1
    /\ NextRequest(t)
    /\ UNCHANGED <<strategy, counter, commits, writer, seen, out, hit>>

Step(t) == Begin(t) \/ Read(t) \/ Update(t) \/ Commit(t) \/ Lose(t) \/ Fail(t)

Next == \E t \in Thread : Step(t)

Spec == Init /\ [][Next]_vars

\* A started thread runs.
FairSpec == Spec /\ \A t \in Thread : WF_vars(Step(t))

-----------------------------------------------------------------------------
(***************************************************************************)
(* Properties                                                              *)
(***************************************************************************)

Requests == Cardinality(Thread) * Increments

Finished == \A t \in Thread : pc[t] = "done"

\* Every committed increment of the four transactional strategies is in the
\* total: nothing was lost quietly.
NothingLostQuietly == strategy # "naive" => counter.value = commits

\* When everyone has finished, what is missing from the total was reported:
\* "every loss announced itself".
EveryLossAnnounced ==
    Finished /\ strategy # "naive" => counter.value + errors = Requests

\* Without a transaction increments vanish in silence.  Still none is counted
\* twice, and some survive: two threads that do two or more each, with no lock
\* timeout, leave at least two.
NaiveLosses ==
    /\ counter.value <= commits
    /\ (/\ Finished /\ errors = 0 /\ strategy = "naive"
        /\ Increments > 1 /\ Cardinality(Thread) > 1) => counter.value > 1

\* What the table of the lab says of each strategy: a loss is announced, except
\* by the naive one, whose silent losses stop short of all but one.
LossesAreAnnounced == EveryLossAnnounced /\ NaiveLosses

\* Optimistic losers re-read until they win or are reported: everyone finishes.
EveryoneFinishes == <>Finished

\* what the requests may rely on: the naive strategy counts what it committed,
\* not what is in the row
Counted == IF strategy = "naive" THEN commits ELSE counter.value

Total == INSTANCE CountOnce WITH value <- Counted, reported <- errors

\* Seen from outside, every other strategy is a counter that loses nothing
\* quietly: each step adds one to the total, reports one loss, or is invisible.
CountsOnce == Total!Spec
=============================================================================
