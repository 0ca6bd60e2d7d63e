---------------------------- MODULE FailureQueue ----------------------------
(***************************************************************************)
(* One queue with items that can never succeed: simulate() of              *)
(* ops-lab/dlq_lab.py under its three policies.                            *)
(*                                                                         *)
(* The heap is ordered by time.  Every first attempt is due at time 0 and  *)
(* a retry only after the attempt that failed, so a retry never overtakes  *)
(* a first attempt; which of two retries comes first depends on drawn      *)
(* service times and is left open here.  The workers only set these times. *)
(***************************************************************************)
EXTENDS Naturals, FiniteSets

CONSTANTS
    QueueItem,      \* range(n_items), a set of numbers
    Poison,         \* poison_ids
    ForeverCap      \* the 40 after which "retry_forever" stops

ASSUME FailureQueueAssumption ==
    /\ QueueItem \subseteq Nat /\ IsFiniteSet(QueueItem)
    /\ Poison \subseteq QueueItem
    /\ ForeverCap \in Nat

VARIABLES
    fqPolicy,   \* policy
    ready,      \* the heap, without the times: which attempt each waiting item is at
    done,       \* the items counted in done
    parked,     \* the items counted in parked
    retries     \* how many attempts failed

fqVars == <<fqPolicy, ready, done, parked, retries>>

ParkAtOnce == "park_immediately"
ThreeTries == "retry_3x_then_park"
Forever == "retry_forever"

\* how many times the policy puts an item back
Limit ==
    CASE fqPolicy = ParkAtOnce -> 0
      [] fqPolicy = ThreeTries -> 3
      [] fqPolicy = Forever -> ForeverCap

FqTypeOK ==
    /\ fqPolicy \in {ParkAtOnce, ThreeTries, Forever}
    /\ ready \subseteq QueueItem \X (0..Limit)
    /\ done \subseteq QueueItem /\ parked \subseteq QueueItem
    /\ retries \in Nat

FqInit ==
    /\ fqPolicy \in {ParkAtOnce, ThreeTries, Forever}
    /\ ready = QueueItem \X {0}
    /\ done = {} /\ parked = {}
    /\ retries = 0

FirstAttempts == {e \in ready : e[2] = 0}

\* a heap that ignores the times
Due_Any == ready

\* heapq.heappop: the first attempts by item, then the retries
Due ==
    IF FirstAttempts # {}
    THEN {CHOOSE e \in FirstAttempts : \A o \in FirstAttempts : e[1] <= o[1]}
    ELSE ready

Succeeds(e) ==
    /\ e[1] \notin Poison
    /\ ready' = ready \ {e}
    /\ done' = done \cup {e[1]}
    /\ UNCHANGED <<fqPolicy, parked, retries>>

\* heappush with the next attempt
PutBack(e) ==
    /\ e[1] \in Poison /\ e[2] < Limit
    /\ ready' = (ready \ {e}) \cup {<<e[1], e[2] + 1>>}
    /\ retries' = retries + 1
    /\ UNCHANGED <<fqPolicy, done, parked>>

Park(e) ==
    /\ e[1] \in Poison /\ e[2] >= Limit
    /\ ready' = ready \ {e}
    /\ parked' = parked \cup {e[1]}
    /\ retries' = retries + 1
    /\ UNCHANGED <<fqPolicy, done>>

Attempt == \E e \in Due : Succeeds(e) \/ PutBack(e) \/ Park(e)

FqDone == ready = {} /\ UNCHANGED fqVars

FqNext == Attempt \/ FqDone

FqSpec == FqInit /\ [][FqNext]_fqVars

-----------------------------------------------------------------------------
Waiting == {e[1] : e \in ready}

\* attempts that failed: all those of a parked item, and of an item that was put
\* back the ones before the one it waits for
Failed == {f \in QueueItem \X (0..Limit) :
             f[1] \in parked \/ \E e \in ready : e[1] = f[1] /\ f[2] < e[2]}

\* A poison item costs its own retries and nothing else.  Every item is in
\* exactly one place and parked only if it is poison; the failed attempts are
\* those of the items put back and parked; and no healthy item waits behind a
\* retry: while a first attempt is due, nothing has been tried twice.
PoisonIsContained ==
    /\ Waiting \cup done \cup parked = QueueItem
    /\ Waiting \cap done = {} /\ Waiting \cap parked = {}
    /\ done \cap Poison = {} /\ parked \subseteq Poison
    /\ retries = Cardinality(Failed)
    /\ FirstAttempts # {} => \A e \in ready : e[2] <= 1
=============================================================================
