---------------------------- MODULE UpstreamLoad ----------------------------
(***************************************************************************)
(* What reaches an upstream: service-lab/resilience_lab.py.  First the     *)
(* chain of section 2, in which retries multiply: each Middle server calls *)
(* the one below up to `tries` times before it answers 503; layer 1 calls  *)
(* the upstream.  The lab keeps the upstream down for the whole run; here  *)
(* it may also come back at any moment.  Then the limiters of section 5.   *)
(***************************************************************************)
EXTENDS Naturals, FiniteSetsExt

CONSTANTS
    Logical,        \* requests that enter at the top
    Layers,         \* Middle servers between them and the upstream
    LayerTries      \* Middle.tries

ASSUME ChainAssumption == Layers \in Nat /\ LayerTries \in Nat \ {0}

VARIABLES
    upstreamUp,
    failedTries,    \* failedTries[q][i]: failed attempts of layer i in its current call
    answer,         \* what each logical request was answered
    upstreamHits    \* requests of each that reached the upstream

chainVars == <<upstreamUp, failedTries, answer, upstreamHits>>

ChainTypeOK ==
    /\ upstreamUp \in BOOLEAN
    /\ failedTries \in [Logical -> [1..Layers -> 0..LayerTries - 1]]
    /\ answer \in [Logical -> {0, 200, 503}]
    /\ upstreamHits \in [Logical -> Nat]

ChainInit ==
    /\ upstreamUp = FALSE
    /\ failedTries = [q \in Logical |-> [i \in 1..Layers |-> 0]]
    /\ answer = [q \in Logical |-> 0]
    /\ upstreamHits = [q \in Logical |-> 0]

\* a layer that tries once more than it may
Exhausted_Late(q, i) == failedTries[q][i] = LayerTries

\* attempt < self.tries - 1 does not hold any more
Exhausted(q, i) == failedTries[q][i] = LayerTries - 1

\* the layers below i have all given up: their next call starts from 0
GivesUpTo(q) == {i \in 0..Layers : \A j \in 1..i : Exhausted(q, j)}

UpstreamRecovers ==
    /\ ~upstreamUp /\ upstreamUp' = TRUE
    /\ UNCHANGED <<failedTries, answer, upstreamHits>>

\* the request reaches the upstream, fails, and climbs as far as layers are
\* exhausted; the first that is not tries again, or the caller gets the 503
HitFails(q) ==
    LET top == Max(GivesUpTo(q)) IN
    /\ answer[q] = 0 /\ ~upstreamUp
    /\ upstreamHits' = [upstreamHits EXCEPT ![q] = @ + 1]
    /\ failedTries' = [failedTries EXCEPT ![q] =
          [i \in 1..Layers |-> IF i <= top THEN 0
                               ELSE IF i = top + 1 THEN @[i] + 1 ELSE @[i]]]
    /\ answer' = IF top = Layers THEN [answer EXCEPT ![q] = 503] ELSE answer
    /\ UNCHANGED upstreamUp

HitSucceeds(q) ==
    /\ answer[q] = 0 /\ upstreamUp
    /\ upstreamHits' = [upstreamHits EXCEPT ![q] = @ + 1]
    /\ answer' = [answer EXCEPT ![q] = 200]
    /\ UNCHANGED <<upstreamUp, failedTries>>

ChainNext == UpstreamRecovers \/ \E q \in Logical : HitFails(q) \/ HitSucceeds(q)

ChainSpec == ChainInit /\ [][ChainNext]_chainVars

-----------------------------------------------------------------------------
\* LayerTries^i: how often one call of layer i hits an upstream that stays down
Weight[i \in 0..Layers] == IF i = 0 THEN 1 ELSE LayerTries * Weight[i - 1]

\* the hits that the failed attempts of the calls under way stand for
HitsUnderWay(q) ==
    LET upTo[i \in 0..Layers] ==
            IF i = 0 THEN 0 ELSE upTo[i - 1] + failedTries[q][i] * Weight[i - 1]
    IN  upTo[Layers]

\* The load on the upstream is the product of the layers' tries, not the sum:
\* a logical request that fails has hit it exactly LayerTries^Layers times, none
\* hits it more often, and on the way every failed attempt of layer i stands
\* for LayerTries^(i-1) hits.
HitsAreTheProduct ==
    \A q \in Logical :
       /\ answer[q] = 503 => upstreamHits[q] = Weight[Layers]
       /\ upstreamHits[q] <= Weight[Layers]
       /\ answer[q] = 0 => upstreamHits[q] = HitsUnderWay(q)

-----------------------------------------------------------------------------
(***************************************************************************)
(* The same limit with three meanings: fixed_window, sliding_log and       *)
(* token_bucket, given the same arrivals.  Time is in ticks, Window of     *)
(* them to the lab's second.  Tokens are counted in 1/Window, so that a    *)
(* tick refills AdmitLimit of them; the lab's floating point is not        *)
(* modelled.                                                               *)
(***************************************************************************)

CONSTANTS
    Window,         \* ticks in a window
    AdmitLimit,     \* limit, capacity, and rate per window
    LastTick,       \* bound on the trace
    PerTick         \* bound on the arrivals of one tick

ASSUME LimitAssumption ==
    {Window, AdmitLimit, LastTick, PerTick} \subseteq Nat \ {0}

Limiter == {"fixed_window", "sliding_log", "token_bucket"}

\* The trace, and one window more for those that begin in it.
Ticks == 0..LastTick + Window

VARIABLES
    tick,           \* the time of the next arrival
    burst,          \* arrivals of this tick so far
    windowCount,    \* counts[w] of the current window
    tokens,         \* what is left in the bucket, in 1/Window
    before          \* before[l][t]: how many arrivals limiter l has admitted
                    \* before tick t; all it has admitted if t is still to come

limitVars == <<tick, burst, windowCount, tokens, before>>

LimitTypeOK ==
    /\ tick \in 0..LastTick /\ burst \in 0..PerTick
    /\ windowCount \in Nat
    /\ tokens \in 0..AdmitLimit * Window
    /\ before \in [Limiter -> [Ticks -> Nat]]

LimitInit ==
    /\ tick = 0 /\ burst = 0
    /\ windowCount = 0
    /\ tokens = AdmitLimit * Window
    /\ before = [l \in Limiter |-> [t \in Ticks |-> 0]]

\* a log that forgets a timestamp one tick early
Oldest_Short == IF tick + 1 < Window THEN 0 ELSE tick + 2 - Window

\* [x for x in seen if x > t - window]: the first tick that is still logged
Oldest == IF tick < Window THEN 0 ELSE tick + 1 - Window

LogLength == before["sliding_log"][tick + 1] - before["sliding_log"][Oldest]

FixedAdmits == windowCount + 1 <= AdmitLimit
LogAdmits == LogLength < AdmitLimit
BucketAdmits == tokens >= Window

Admitting(l) ==
    CASE l = "fixed_window" -> FixedAdmits
      [] l = "sliding_log" -> LogAdmits
      [] l = "token_bucket" -> BucketAdmits

\* one arrival, shown to all three; a rejected one is counted by the fixed window too
Arrival ==
    /\ burst < PerTick
    /\ burst' = burst + 1
    /\ windowCount' = windowCount + 1
    /\ tokens' = IF BucketAdmits THEN tokens - Window ELSE tokens
    /\ before' = [l \in Limiter |-> [t \in Ticks |->
                      IF Admitting(l) /\ t > tick THEN before[l][t] + 1 ELSE before[l][t]]]
    /\ UNCHANGED tick

\* tokens = min(capacity, tokens + (t - last) * rate); w = int(t / window)
NextTick ==
    /\ tick < LastTick
    /\ tick' = tick + 1
    /\ burst' = 0
    /\ windowCount' = IF (tick + 1) % Window = 0 THEN 0 ELSE windowCount
    /\ tokens' = Min({AdmitLimit * Window, tokens + AdmitLimit})
    /\ UNCHANGED before

LimitNext == Arrival \/ NextTick

LimitSpec == LimitInit /\ [][LimitNext]_limitVars

-----------------------------------------------------------------------------
\* what worst_second is the largest of: admitted in the window that begins at t
AdmittedFrom(l, t) == before[l][t + Window] - before[l][t]

\* In any window the sliding log admits at most its limit; the token bucket
\* what it may hold and what flows in meanwhile; the fixed window twice its
\* limit, and its limit in the windows it counts by.
WindowsAreBounded ==
    /\ \A t \in 0..LastTick :
          /\ AdmittedFrom("sliding_log", t) <= AdmitLimit
          /\ AdmittedFrom("token_bucket", t) * Window
                <= AdmitLimit * Window + AdmitLimit * (Window - 1)
          /\ AdmittedFrom("fixed_window", t) <= 2 * AdmitLimit
    /\ \A w \in 0..LastTick \div Window :
          AdmittedFrom("fixed_window", w * Window) <= AdmitLimit
=============================================================================
