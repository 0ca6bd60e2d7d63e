-------------------------- MODULE ResilientClient --------------------------
(***************************************************************************)
(* The client of service-lab/resilience_lab.py: concurrent callers that    *)
(* share one circuit breaker and one retry budget, in front of an upstream *)
(* that is down at first and healthy afterwards.                           *)
(*                                                                         *)
(* Breaker.allow, Breaker.record, Budget.first and Budget.allow_retry each *)
(* run under a lock: one atomic step each.  Between them a caller waits on *)
(* the network or sleeps, and every other caller may move.                 *)
(*                                                                         *)
(* Data that is only compared with a limit saturates there: `failures` at  *)
(* Threshold, the time since the breaker opened (`age`) at Cooldown.       *)
(***************************************************************************)
EXTENDS Naturals, FiniteSets

CONSTANTS
    Client,         \* caller threads; each issues one request after another
    Tries,          \* attempts per request
    UseBreaker, UseBudget,
    Threshold, Cooldown, Probes,        \* Breaker(threshold, cooldown, probes)
    RetryNum, RetryDen, MinCalls,       \* Budget: ratio = RetryNum/RetryDen, floor 10
    MaxCalls,       \* bound: requests counted by the budget
    MaxErrors,      \* bound: transport errors (exceptions out of s.get)
    HitCap, EpisodeCap      \* where the two history counters saturate

ASSUME ClientAssumption ==
    /\ Tries \in Nat \ {0} /\ Threshold \in Nat \ {0}
    /\ Cooldown \in Nat /\ Probes \in Nat \ {0}
    /\ RetryNum \in Nat /\ RetryDen \in Nat \ {0} /\ MinCalls \in Nat
    /\ UseBreaker \in BOOLEAN /\ UseBudget \in BOOLEAN
    /\ MaxCalls \in Nat /\ MaxErrors \in Nat
    /\ HitCap \in Nat /\ EpisodeCap \in Nat
    /\ IsFiniteSet(Client)

VARIABLES
    breaker,    \* the Breaker object
    budget,     \* the Budget object
    pc,         \* where each caller is in client()
    attempt,    \* its loop variable
    ok,         \* the response it received: status == 200
    probe,      \* history: its attempt was admitted by a half-open breaker
    up,         \* the upstream answers 200
    errors,     \* transport errors so far
    hits,       \* len(Upstream.hits), saturating at HitCap
    episodes    \* history: how often the breaker went half-open, saturating

callVars == <<pc, attempt, ok, probe>>
vars == <<breaker, budget, callVars, up, errors, hits, episodes>>

AtMost(n, cap) == IF n < cap THEN n ELSE cap
AtLeast(n, low) == IF n < low THEN low ELSE n

BreakerType ==
    [state : {"closed", "open", "half_open"},
     failures : 0..Threshold,
     age : 0..Cooldown,
     in_flight_probes : 0..Probes]

TypeOK ==
    /\ breaker \in BreakerType
    /\ budget \in [calls : Nat, retries : Nat]
    /\ pc \in [Client -> {"idle", "allow", "send", "reply", "retry", "dead"}]
    /\ attempt \in [Client -> 0..(Tries - 1)]
    /\ ok \in [Client -> BOOLEAN]
    /\ probe \in [Client -> BOOLEAN]
    /\ up \in BOOLEAN
    /\ errors \in 0..MaxErrors
    /\ hits \in 0..HitCap
    /\ episodes \in 0..EpisodeCap

Init ==
    /\ breaker = [state |-> "closed", failures |-> 0, age |-> 0,
                  in_flight_probes |-> 0]
    /\ budget = [calls |-> 0, retries |-> 0]
    /\ pc = [c \in Client |-> "idle"]
    /\ attempt = [c \in Client |-> 0]
    /\ ok = [c \in Client |-> FALSE]
    /\ probe = [c \in Client |-> FALSE]
    /\ up = FALSE
    /\ errors = 0
    /\ hits = 0
    /\ episodes = 0

-----------------------------------------------------------------------------
(***************************************************************************)
(* Breaker                                                                 *)
(***************************************************************************)

\* a breaker that reopens its gate without taking its probes back
Settle_KeepProbes(b) ==
    IF b.state = "open" /\ b.age >= Cooldown
    THEN [b EXCEPT !.state = "half_open"]
    ELSE b

\* allow(), first half: an open breaker past its cooldown becomes half-open
Settle(b) ==
    IF b.state = "open" /\ b.age >= Cooldown
    THEN [b EXCEPT !.state = "half_open", !.in_flight_probes = 0]
    ELSE b

\* a breaker that opens the gate instead of admitting probes
Admits_All(b) == b.state # "open"

\* allow(), second half: whether the settled breaker lets a call through
Admits(b) ==
    \/ b.state = "closed"
    \/ b.state = "half_open" /\ b.in_flight_probes < Probes

Admitted(b) ==
    IF b.state = "half_open"
    THEN [b EXCEPT !.in_flight_probes = AtMost(@ + 1, Probes)]
    ELSE b

\* record() that opens one failure too late
Recorded_Late(b, success) ==
    IF success
    THEN [b EXCEPT !.state = "closed", !.failures = 0]
    ELSE LET n == AtMost(b.failures + 1, Threshold)
         IN  IF b.state = "half_open" \/ b.failures >= Threshold
             THEN [b EXCEPT !.state = "open", !.failures = n, !.age = 0]
             ELSE [b EXCEPT !.failures = n]

\* record(): any success closes the breaker, whatever its state
Recorded(b, success) ==
    IF success
    THEN [b EXCEPT !.state = "closed", !.failures = 0]
    ELSE LET n == AtMost(b.failures + 1, Threshold)
         IN  IF b.state = "half_open" \/ n >= Threshold
             THEN [b EXCEPT !.state = "open", !.failures = n, !.age = 0]
             ELSE [b EXCEPT !.failures = n]

\* time passes for an open breaker
Tick ==
    /\ breaker.state = "open"
    /\ breaker.age < Cooldown
    /\ breaker' = [breaker EXCEPT !.age = @ + 1]
    /\ UNCHANGED <<budget, callVars, up, errors, hits, episodes>>

(***************************************************************************)
(* Budget                                                                  *)
(***************************************************************************)

\* retries + 1 > ratio * max(calls, 10), read the lenient way
MayRetry_OffByOne(b) == b.retries * RetryDen <= RetryNum * AtLeast(b.calls, MinCalls)

\* not (retries + 1 > ratio * max(calls, 10))
MayRetry(b) == (b.retries + 1) * RetryDen <= RetryNum * AtLeast(b.calls, MinCalls)

-----------------------------------------------------------------------------
(***************************************************************************)
(* client()                                                                *)
(***************************************************************************)

\* a new logical request: budget.first()
Start(c) ==
    /\ pc[c] = "idle"
    /\ IF UseBudget
       THEN /\ budget.calls < MaxCalls
            /\ budget' = [budget EXCEPT !.calls = @ + 1]
       ELSE UNCHANGED budget
    /\ pc' = [pc EXCEPT ![c] = "allow"]
    /\ attempt' = [attempt EXCEPT ![c] = 0]
    /\ UNCHANGED <<breaker, ok, probe, up, errors, hits, episodes>>

\* breaker.allow() lets the attempt through
Allow(c) ==
    /\ pc[c] = "allow"
    /\ UseBreaker => Admits(Settle(breaker))
    /\ breaker' = IF UseBreaker THEN Admitted(Settle(breaker)) ELSE breaker
    /\ episodes' = IF UseBreaker /\ Settle(breaker).state # breaker.state
                   THEN AtMost(episodes + 1, EpisodeCap) ELSE episodes
    /\ probe' = [probe EXCEPT ![c] = UseBreaker /\ Settle(breaker).state = "half_open"]
    /\ pc' = [pc EXCEPT ![c] = "send"]
    /\ UNCHANGED <<budget, attempt, ok, up, errors, hits>>

\* breaker.allow() refuses: return "short_circuited"
ShortCircuit(c) ==
    /\ pc[c] = "allow"
    /\ UseBreaker /\ ~Admits(Settle(breaker))
    /\ breaker' = Settle(breaker)
    /\ pc' = [pc EXCEPT ![c] = "idle"]
    /\ UNCHANGED <<budget, attempt, ok, probe, up, errors, hits, episodes>>

\* the request arrives: Upstream.do_GET counts it and decides the status
Arrive(c) ==
    /\ pc[c] = "send"
    /\ hits' = AtMost(hits + 1, HitCap)
    /\ ok' = [ok EXCEPT ![c] = up]
    /\ pc' = [pc EXCEPT ![c] = "reply"]
    /\ UNCHANGED <<breaker, budget, attempt, probe, up, errors, episodes>>

\* s.get raises: nothing in client() catches it, record() is never called
Raise(c) ==
    /\ pc[c] \in {"send", "reply"}
    /\ errors < MaxErrors
    /\ errors' = errors + 1
    /\ pc' = [pc EXCEPT ![c] = "dead"]
    /\ UNCHANGED <<breaker, budget, attempt, ok, probe, up, hits, episodes>>

\* a loop that leaves one attempt too late
Record_OneMore(c) ==
    /\ pc[c] = "reply"
    /\ breaker' = IF UseBreaker THEN Recorded(breaker, ok[c]) ELSE breaker
    /\ pc' = [pc EXCEPT ![c] = IF ok[c] \/ attempt[c] = Tries THEN "idle" ELSE "retry"]
    /\ UNCHANGED <<budget, attempt, ok, probe, up, errors, hits, episodes>>

\* breaker.record(ok), then return "ok", return "failed" or go on to a retry
Record(c) ==
    /\ pc[c] = "reply"
    /\ breaker' = IF UseBreaker THEN Recorded(breaker, ok[c]) ELSE breaker
    /\ pc' = [pc EXCEPT ![c] = IF ok[c] \/ attempt[c] = Tries - 1
                               THEN "idle" ELSE "retry"]
    /\ UNCHANGED <<budget, attempt, ok, probe, up, errors, hits, episodes>>

\* budget.allow_retry(), and the backoff sleep
Retry(c) ==
    /\ pc[c] = "retry"
    /\ UseBudget => MayRetry(budget)
    /\ budget' = IF UseBudget THEN [budget EXCEPT !.retries = @ + 1] ELSE budget
    /\ attempt' = [attempt EXCEPT ![c] = @ + 1]
    /\ pc' = [pc EXCEPT ![c] = "allow"]
    /\ UNCHANGED <<breaker, ok, probe, up, errors, hits, episodes>>

\* return "failed (budget)"
GiveUp(c) ==
    /\ pc[c] = "retry"
    /\ UseBudget /\ ~MayRetry(budget)
    /\ pc' = [pc EXCEPT ![c] = "idle"]
    /\ UNCHANGED <<breaker, budget, attempt, ok, probe, up, errors, hits, episodes>>

\* the outage ends
Recover ==
    /\ ~up
    /\ up' = TRUE
    /\ UNCHANGED <<breaker, budget, callVars, errors, hits, episodes>>

Call(c) == Allow(c) \/ ShortCircuit(c) \/ Arrive(c) \/ Record(c) \/ Retry(c) \/ GiveUp(c)

Next ==
    \/ Tick \/ Recover
    \/ \E c \in Client : Start(c) \/ Call(c) \/ Raise(c)

Spec == Init /\ [][Next]_vars

\* Time passes, the outage ends, callers that are not dead keep asking, and a
\* request that was sent is answered or fails.  Errors are never required.
FairSpec ==
    /\ Spec
    /\ WF_vars(Tick) /\ WF_vars(Recover)
    /\ \A c \in Client : WF_vars(Start(c)) /\ WF_vars(Call(c))

-----------------------------------------------------------------------------
(***************************************************************************)
(* Properties                                                              *)
(***************************************************************************)

\* However the callers interleave, what reaches the upstream stays below the
\* requests made plus the fraction of them the budget concedes: the ceiling
\* does not move during an incident.
LoadWithinBudget ==
    /\ budget.retries * RetryDen <= RetryNum * AtLeast(budget.calls, MinCalls)
    /\ UseBudget => hits <= budget.calls + budget.retries

\* While the upstream is down, it is hit by at most the calls that were needed
\* to open the breaker, the ones already let through by then, and the probes.
OutageLoadBounded ==
    (~up /\ episodes < EpisodeCap) =>
        hits <= (Threshold - 1) + Cardinality(Client) + Probes * episodes

\* A breaker that lets everything through has seen fewer failures in a row than
\* its threshold, however late the answers came in.
ClosedBelowThreshold ==
    breaker.state = "closed" => breaker.failures < Threshold

\* What the breaker does for the upstream: it opens at its threshold, and an
\* open one keeps the load of the outage bounded.
BreakerShields == OutageLoadBounded /\ ClosedBelowThreshold

\* "half-open admits a bounded number of probes": no more than Probes of them
\* are under way at a time.
ProbesBounded ==
    Cardinality({c \in Client : probe[c] /\ pc[c] \in {"send", "reply"}}) <= Probes

\* Once the upstream is healthy for good and requests keep coming, the breaker
\* closes and stays closed.
Recovers == <>[](breaker.state = "closed")

\* half_open is left again, for closed or for open.
HalfOpenResolves == breaker.state = "half_open" ~> breaker.state # "half_open"

\* Without transport errors no state of the breaker is a trap.
BreakerIsNoTrap == Recovers /\ HalfOpenResolves
=============================================================================
