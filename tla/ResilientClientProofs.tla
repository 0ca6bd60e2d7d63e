----------------------- MODULE ResilientClientProofs -----------------------
(***************************************************************************)
(* What reaches an upstream, for any number of callers, layers and tries.  *)
(*                                                                         *)
(* The budget: every attempt that is on its way (Outgoing) was paid for,   *)
(* by budget.first() or by budget.allow_retry(), and is paid once.  The    *)
(* breaker: every attempt of an outage was let through closed, by a probe, *)
(* or was under way.  The policies: both meet one script.  The chain: the  *)
(* failed attempts of the layers are the digits of a number, and each hit  *)
(* adds one to it.  The limiters: what was let through since any tick and  *)
(* may still be let through now is bounded.                                *)
(***************************************************************************)
EXTENDS MCRecovery, DataLemmas

\* attempts that are paid for and have not arrived yet
Outgoing == {c \in Client : pc[c] \in {"allow", "send"}}

Paid == budget.calls + budget.retries

\* A caller that may retry has an attempt left.
AttemptLeft == \A c \in Client : pc[c] = "retry" => attempt[c] < Tries - 1

TypeInv == TypeOK /\ AttemptLeft

BudgetInv ==
    /\ TypeInv
    /\ budget.retries * RetryDen <= RetryNum * AtLeast(budget.calls, MinCalls)
    /\ hits + Cardinality(Outgoing) <= Paid

-----------------------------------------------------------------------------
\* Another call never shrinks the number of retries conceded.
LEMMA CeilingGrows ==
    ASSUME NEW k \in Nat, NEW a \in Nat, NEW b \in Nat, a <= b
    PROVE  k * AtLeast(a, MinCalls) <= k * AtLeast(b, MinCalls)
<1>1. /\ AtLeast(a, MinCalls) \in Nat /\ AtLeast(b, MinCalls) \in Nat
      /\ AtLeast(a, MinCalls) <= AtLeast(b, MinCalls)
  BY ClientAssumption DEF AtLeast, ClientAssumption
<1>2. \A m, n \in Nat : m <= n => k * m <= k * n
  OBVIOUS
<1>3. QED
  BY <1>1, <1>2

\* A set of callers is finite.
LEMMA CallersFinite == ASSUME NEW S \in SUBSET Client PROVE IsFiniteSet(S) /\ Cardinality(S) \in Nat
  BY ClientAssumption, FS_Subset, FS_CardinalityType DEF ClientAssumption

\* A caller that joins the outgoing attempts makes them one more.
LEMMA OneMore ==
    ASSUME NEW S \in SUBSET Client, NEW c \in Client, c \notin S
    PROVE  Cardinality(S \cup {c}) = Cardinality(S) + 1
  BY CallersFinite, FS_AddElement

\* A caller that leaves them makes them one less.
LEMMA OneLess ==
    ASSUME NEW S \in SUBSET Client, NEW c \in S
    PROVE  Cardinality(S \ {c}) = Cardinality(S) - 1
  BY CallersFinite, FS_RemoveElement

-----------------------------------------------------------------------------
(***************************************************************************)
(* Types                                                                   *)
(***************************************************************************)

\* Replacing fields of a breaker by legal values gives a breaker.
LEMMA BreakerFields ==
    ASSUME NEW b \in BreakerType,
           NEW st \in {"closed", "open", "half_open"},
           NEW n \in 0..Threshold, NEW t \in 0..Cooldown, NEW q \in 0..Probes
    PROVE  /\ [b EXCEPT !.state = st] \in BreakerType
           /\ [b EXCEPT !.failures = n] \in BreakerType
           /\ [b EXCEPT !.age = t] \in BreakerType
           /\ [b EXCEPT !.in_flight_probes = q] \in BreakerType
  BY DEF BreakerType

\* The breaker's operations return breakers.
LEMMA BreakerTyped ==
    ASSUME NEW b \in BreakerType, NEW s \in BOOLEAN
    PROVE  /\ Settle(b) \in BreakerType
           /\ Admitted(b) \in BreakerType
           /\ Recorded(b, s) \in BreakerType
<1> DEFINE n == AtMost(b.failures + 1, Threshold)
           q == AtMost(b.in_flight_probes + 1, Probes)
<1>0. 0 \in 0..Threshold /\ 0 \in 0..Cooldown /\ 0 \in 0..Probes
  BY ClientAssumption DEF ClientAssumption
<1>1. n \in 0..Threshold /\ q \in 0..Probes
  BY ClientAssumption DEF ClientAssumption, AtMost, BreakerType
<1> HIDE DEF n, q
<1>2. Settle(b) \in BreakerType
  <2> DEFINE h == [b EXCEPT !.state = "half_open"]
  <2>1. h \in BreakerType
    BY <1>0, BreakerFields
  <2> HIDE DEF h
  <2>2. [h EXCEPT !.in_flight_probes = 0] \in BreakerType
    BY <1>0, <2>1, BreakerFields
  <2>3. QED
    BY <2>2 DEF Settle, h
<1>3. Admitted(b) \in BreakerType
  BY <1>0, <1>1, BreakerFields DEF Admitted, q
<1>4. Recorded(b, s) \in BreakerType
  <2> DEFINE c == [b EXCEPT !.state = "closed"]
             o == [b EXCEPT !.state = "open"]
             f == [o EXCEPT !.failures = n]
  <2>1. c \in BreakerType /\ o \in BreakerType
    BY <1>0, BreakerFields
  <2> HIDE DEF c, o
  <2>2. [c EXCEPT !.failures = 0] \in BreakerType /\ f \in BreakerType
    BY <1>0, <1>1, <2>1, BreakerFields
  <2> HIDE DEF f
  <2>3. [f EXCEPT !.age = 0] \in BreakerType /\ [b EXCEPT !.failures = n] \in BreakerType
    BY <1>0, <1>1, <2>2, BreakerFields
  <2>4. QED
    BY <2>2, <2>3 DEF Recorded, n, c, o, f
<1>5. QED
  BY <1>2, <1>3, <1>4

\* Counters that saturate stay within their cap.
LEMMA Saturates == ASSUME NEW cap \in Nat, NEW n \in 0..cap PROVE AtMost(n + 1, cap) \in 0..cap
  BY DEF AtMost

LEMMA NextTypeInv == TypeInv /\ [Next]_vars => TypeInv'
<1> SUFFICES ASSUME TypeInv, [Next]_vars PROVE TypeInv'
  OBVIOUS
<1> USE ClientAssumption DEF ClientAssumption, TypeInv, AttemptLeft, TypeOK, callVars
<1>1. CASE Tick
  BY <1>1 DEF Tick, BreakerType
<1>2. CASE Recover
  BY <1>2 DEF Recover
<1>3. ASSUME NEW c \in Client, Start(c) PROVE TypeInv'
  <2>1. budget' \in [calls : Nat, retries : Nat]
    BY <1>3 DEF Start
  <2>2. QED
    BY <1>3, <2>1 DEF Start
<1>4. ASSUME NEW c \in Client, Allow(c) PROVE TypeInv'
  <2>1. breaker' \in BreakerType
    BY <1>4, BreakerTyped DEF Allow
  <2>2. episodes' \in 0..EpisodeCap
    BY <1>4, Saturates DEF Allow
  <2>3. probe' \in [Client -> BOOLEAN]
    BY <1>4 DEF Allow
  <2>4. QED
    BY <1>4, <2>1, <2>2, <2>3 DEF Allow
<1>5. ASSUME NEW c \in Client, ShortCircuit(c) PROVE TypeInv'
  BY <1>5, BreakerTyped DEF ShortCircuit
<1>6. ASSUME NEW c \in Client, Arrive(c) PROVE TypeInv'
  BY <1>6, Saturates DEF Arrive
<1>7. ASSUME NEW c \in Client, Raise(c) PROVE TypeInv'
  BY <1>7 DEF Raise
<1>8. ASSUME NEW c \in Client, Record(c) PROVE TypeInv'
  <2>1. breaker' \in BreakerType
    BY <1>8, BreakerTyped DEF Record
  <2>2. QED
    BY <1>8, <2>1 DEF Record
<1>9. ASSUME NEW c \in Client, Retry(c) PROVE TypeInv'
  <2>1. budget' \in [calls : Nat, retries : Nat]
    BY <1>9 DEF Retry
  <2>2. QED
    BY <1>9, <2>1 DEF Retry
<1>10. ASSUME NEW c \in Client, GiveUp(c) PROVE TypeInv'
  BY <1>10 DEF GiveUp
<1>11. CASE UNCHANGED vars
  BY <1>11 DEF vars
<1>12. QED
  BY <1>1, <1>2, <1>3, <1>4, <1>5, <1>6, <1>7, <1>8, <1>9, <1>10, <1>11 DEF Next, Call

-----------------------------------------------------------------------------
(***************************************************************************)
(* The budget                                                              *)
(***************************************************************************)

LEMMA InitBudgetInv == Init => BudgetInv
<1> SUFFICES ASSUME Init PROVE BudgetInv
  OBVIOUS
<1>1. TypeInv
  <2>1. breaker \in BreakerType
    BY ClientAssumption DEF ClientAssumption, Init, BreakerType
  <2>2. budget \in [calls : Nat, retries : Nat]
    BY DEF Init
  <2>3. /\ 0 \in 0..(Tries - 1) /\ 0 \in 0..MaxErrors
        /\ 0 \in 0..HitCap /\ 0 \in 0..EpisodeCap
    BY ClientAssumption DEF ClientAssumption
  <2>4. QED
    BY <2>1, <2>2, <2>3 DEF Init, TypeInv, TypeOK, AttemptLeft
<1>2. Outgoing = {}
  BY DEF Init, Outgoing
<1>3. AtLeast(0, MinCalls) \in Nat
  BY ClientAssumption DEF ClientAssumption, AtLeast
<1>4. QED
  BY <1>1, <1>2, <1>3, FS_EmptySet, ClientAssumption
  DEF ClientAssumption, Init, BudgetInv, Paid

LEMMA NextBudgetInv ==
    ASSUME UseBudget
    PROVE  BudgetInv /\ [Next]_vars => BudgetInv'
<1> SUFFICES ASSUME BudgetInv, [Next]_vars PROVE BudgetInv'
  OBVIOUS
<1> USE DEF callVars
<1>0. /\ TypeInv /\ TypeOK /\ TypeInv'
      /\ budget.calls \in Nat /\ budget.retries \in Nat /\ hits \in Nat
      /\ budget.retries * RetryDen <= RetryNum * AtLeast(budget.calls, MinCalls)
      /\ hits + Cardinality(Outgoing) <= Paid
      /\ RetryNum \in Nat /\ RetryDen \in Nat /\ MinCalls \in Nat
  BY NextTypeInv, ClientAssumption DEF BudgetInv, TypeInv, TypeOK, ClientAssumption
<1>01. Outgoing \in SUBSET Client /\ Cardinality(Outgoing) \in Nat
  BY CallersFinite DEF Outgoing
<1>02. hits' \in Nat /\ Cardinality(Outgoing') \in Nat /\ Outgoing' \in SUBSET Client
  BY <1>0, CallersFinite DEF TypeInv, TypeOK, Outgoing
\* Steps that pay for nothing and send nothing more.
<1>1. ASSUME budget' = budget, hits' + Cardinality(Outgoing') <= hits + Cardinality(Outgoing)
      PROVE  BudgetInv'
  BY <1>0, <1>01, <1>02, <1>1 DEF BudgetInv, Paid
<1>2. ASSUME budget' = budget, hits' = hits, Outgoing' = Outgoing
      PROVE  BudgetInv'
  BY <1>0, <1>01, <1>1, <1>2
<1>3. ASSUME NEW c \in Client, Start(c) PROVE BudgetInv'
  <2>1. c \notin Outgoing /\ Outgoing' = Outgoing \cup {c} /\ hits' = hits
    BY <1>0, <1>3 DEF Start, Outgoing, TypeOK
  <2>2. Cardinality(Outgoing') = Cardinality(Outgoing) + 1
    BY <1>01, <2>1, OneMore
  <2>3. budget'.calls = budget.calls + 1 /\ budget'.retries = budget.retries
    BY <1>0, <1>3 DEF Start, TypeOK
  <2>4. RetryNum * AtLeast(budget.calls, MinCalls)
            <= RetryNum * AtLeast(budget'.calls, MinCalls)
    BY <1>0, <2>3, CeilingGrows
  <2>5. /\ RetryNum * AtLeast(budget.calls, MinCalls) \in Nat
        /\ RetryNum * AtLeast(budget'.calls, MinCalls) \in Nat
        /\ budget.retries * RetryDen \in Nat
    BY <1>0, <2>3 DEF AtLeast
  <2>6. budget'.retries * RetryDen <= RetryNum * AtLeast(budget'.calls, MinCalls)
    BY <1>0, <2>3, <2>4, <2>5
  <2>7. hits' + Cardinality(Outgoing') <= Paid'
    BY <1>0, <1>01, <2>1, <2>2, <2>3 DEF Paid
  <2>8. QED
    BY <1>0, <2>6, <2>7 DEF BudgetInv
<1>4. ASSUME NEW c \in Client, Allow(c) PROVE BudgetInv'
  <2>1. Outgoing' = Outgoing
    BY <1>0, <1>4 DEF Allow, Outgoing, TypeOK
  <2>2. QED
    BY <1>2, <1>4, <2>1 DEF Allow
<1>5. ASSUME NEW c \in Client, ShortCircuit(c) \/ Arrive(c)
      PROVE  BudgetInv'
  <2>1. c \in Outgoing /\ Outgoing' = Outgoing \ {c} /\ budget' = budget
    BY <1>0, <1>5 DEF ShortCircuit, Arrive, Outgoing, TypeOK
  <2>2. Cardinality(Outgoing') = Cardinality(Outgoing) - 1
    BY <1>01, <2>1, OneLess
  <2>3. hits' <= hits + 1
    BY <1>0, <1>5, ClientAssumption DEF ShortCircuit, Arrive, AtMost, ClientAssumption
  <2>4. QED
    BY <1>0, <1>01, <1>02, <1>1, <2>1, <2>2, <2>3
<1>6. ASSUME NEW c \in Client, Raise(c) PROVE BudgetInv'
  <2>1. budget' = budget /\ hits' = hits
    BY <1>6 DEF Raise
  <2>2. CASE pc[c] = "reply"
    <3>1. Outgoing' = Outgoing
      BY <1>0, <1>6, <2>2 DEF Raise, Outgoing, TypeOK
    <3>2. QED
      BY <1>2, <2>1, <3>1
  <2>3. CASE pc[c] = "send"
    <3>1. c \in Outgoing /\ Outgoing' = Outgoing \ {c}
      BY <1>0, <1>6, <2>3 DEF Raise, Outgoing, TypeOK
    <3>2. Cardinality(Outgoing') = Cardinality(Outgoing) - 1
      BY <1>01, <3>1, OneLess
    <3>3. QED
      BY <1>0, <1>01, <1>02, <1>1, <2>1, <3>2
  <2>4. QED
    BY <1>6, <2>2, <2>3 DEF Raise
<1>7. ASSUME NEW c \in Client, Record(c) \/ GiveUp(c) PROVE BudgetInv'
  <2>1. Outgoing' = Outgoing
    BY <1>0, <1>7 DEF Record, GiveUp, Outgoing, TypeOK
  <2>2. QED
    BY <1>2, <1>7, <2>1 DEF Record, GiveUp
<1>8. ASSUME NEW c \in Client, Retry(c) PROVE BudgetInv'
  <2>1. c \notin Outgoing /\ Outgoing' = Outgoing \cup {c} /\ hits' = hits
    BY <1>0, <1>8 DEF Retry, Outgoing, TypeOK
  <2>2. Cardinality(Outgoing') = Cardinality(Outgoing) + 1
    BY <1>01, <2>1, OneMore
  <2>3. budget'.calls = budget.calls /\ budget'.retries = budget.retries + 1
    BY <1>0, <1>8 DEF Retry, TypeOK
  <2>4. (budget.retries + 1) * RetryDen <= RetryNum * AtLeast(budget.calls, MinCalls)
    BY <1>8 DEF Retry, MayRetry
  <2>5. hits' + Cardinality(Outgoing') <= Paid'
    BY <1>0, <1>01, <2>1, <2>2, <2>3 DEF Paid
  <2>6. QED
    BY <1>0, <2>3, <2>4, <2>5 DEF BudgetInv
<1>9. CASE Tick \/ Recover \/ UNCHANGED vars
  <2>1. Outgoing' = Outgoing /\ budget' = budget /\ hits' = hits
    BY <1>9 DEF Tick, Recover, vars, Outgoing
  <2>2. QED
    BY <1>2, <2>1
<1>10. QED
  BY <1>3, <1>4, <1>5, <1>6, <1>7, <1>8, <1>9 DEF Next, Call

\* With a retry budget, the upstream is never hit more often than the requests
\* made plus the conceded fraction of them.
THEOREM BudgetIsACeiling == ASSUME UseBudget PROVE Spec => []LoadWithinBudget
<1>1. BudgetInv => LoadWithinBudget
  <2> SUFFICES ASSUME BudgetInv PROVE LoadWithinBudget
    OBVIOUS
  <2>1. hits \in Nat /\ Cardinality(Outgoing) \in Nat /\ Paid \in Nat
    BY CallersFinite, ClientAssumption
    DEF BudgetInv, TypeInv, TypeOK, Outgoing, Paid, ClientAssumption
  <2>2. QED
    BY <2>1 DEF BudgetInv, LoadWithinBudget, Paid
<1>2. QED
  BY <1>1, InitBudgetInv, NextBudgetInv, PTL DEF Spec

-----------------------------------------------------------------------------
(***************************************************************************)
(* The breaker.  During the outage no caller brings a success, so the      *)
(* breaker only moves from closed to open and then between open and        *)
(* half-open.  While it is closed every hit is a counted failure or has a  *)
(* caller that has not recorded it; once it is open nothing new is let     *)
(* through, and each half-open phase adds the probes it admits.            *)
(***************************************************************************)

\* let through, and not arrived yet
Sent == {c \in Client : pc[c] = "send"}

\* let through, and not recorded yet; a caller that died never will
Unrecorded == {c \in Client : pc[c] \in {"send", "reply", "dead"}}

\* what e half-open phases may bring
Ceiling(e) == (Threshold - 1) + Cardinality(Client) + Probes * e

NoSuccessYet == \A c \in Client : pc[c] = "reply" => ~ok[c]

ClosedLoad ==
    breaker.state = "closed" => hits + Cardinality(Sent) <= breaker.failures + Cardinality(Unrecorded)

OpenLoad ==
    episodes < EpisodeCap =>
        /\ breaker.state = "open" => hits + Cardinality(Sent) <= Ceiling(episodes)
        /\ breaker.state = "half_open" =>
              hits + Cardinality(Sent) + Probes <= Ceiling(episodes) + breaker.in_flight_probes

ShieldInv ==
    /\ TypeInv /\ ClosedBelowThreshold
    /\ ~up => NoSuccessYet /\ ClosedLoad /\ OpenLoad

\* One more phase, one more round of probes.
LEMMA CeilingSteps ==
    /\ \A e \in Nat : Ceiling(e) \in Nat /\ Ceiling(e + 1) = Ceiling(e) + Probes
    /\ \A e \in Nat : Threshold - 1 + Cardinality(Client) <= Ceiling(e)
<1>1. Cardinality(Client) \in Nat
  BY CallersFinite
<1>2. \A e \in Nat : Probes * e \in Nat /\ Probes * (e + 1) = Probes * e + Probes
  BY ClientAssumption DEF ClientAssumption
<1> DEFINE Times(e) == Probes * e
<1>3. \A e \in Nat : Times(e) \in Nat /\ Times(e + 1) = Times(e) + Probes
  BY <1>2
<1>4. \A e \in Nat : Ceiling(e) = (Threshold - 1) + Cardinality(Client) + Times(e)
  BY DEF Ceiling
<1> HIDE DEF Times
<1>5. QED
  BY <1>1, <1>3, <1>4, ClientAssumption DEF ClientAssumption

\* How many are under way, as numbers.
LEMMA UnderWay ==
    /\ Sent \in SUBSET Client /\ Unrecorded \in SUBSET Client
    /\ Cardinality(Sent) \in Nat /\ Cardinality(Unrecorded) \in Nat
    /\ Cardinality(Unrecorded) <= Cardinality(Client) /\ Cardinality(Client) \in Nat
<1>1. Sent \in SUBSET Client /\ Unrecorded \in SUBSET Client
  BY DEF Sent, Unrecorded
<1>2. QED
  BY <1>1, CallersFinite, FS_Subset, ClientAssumption DEF ClientAssumption

\* Steps that leave the breaker alone and send nothing new.
LEMMA QuietStep ==
    ASSUME ShieldInv, TypeInv', UNCHANGED <<breaker, episodes>>, up' = up, ~up => NoSuccessYet',
           hits' + Cardinality(Sent') <= hits + Cardinality(Sent),
           Cardinality(Unrecorded') = Cardinality(Unrecorded),
           Cardinality(Sent') \in Nat
    PROVE  ShieldInv'
<1>1. /\ hits \in Nat /\ hits' \in Nat /\ episodes \in Nat
      /\ breaker.failures \in Nat /\ breaker.in_flight_probes \in Nat
      /\ Ceiling(episodes) \in Nat /\ Probes \in Nat
  BY CeilingSteps, ClientAssumption DEF ShieldInv, TypeInv, TypeOK, BreakerType, ClientAssumption
<1>2. ClosedBelowThreshold'
  BY DEF ShieldInv, ClosedBelowThreshold
<1>3. ASSUME ~up PROVE ClosedLoad' /\ OpenLoad'
  <2>1. ClosedLoad /\ OpenLoad
    BY <1>3 DEF ShieldInv
  <2>2. Ceiling(episodes)' = Ceiling(episodes)
    BY DEF Ceiling
  <2>3. QED
    BY <1>1, <2>1, <2>2, UnderWay DEF ClosedLoad, OpenLoad
<1>4. QED
  BY <1>2, <1>3 DEF ShieldInv

LEMMA InitShield == Init => ShieldInv
<1> SUFFICES ASSUME Init PROVE ShieldInv
  OBVIOUS
<1>1. TypeInv
  BY InitBudgetInv DEF BudgetInv
<1>2. Sent = {} /\ hits = 0 /\ breaker.state = "closed" /\ breaker.failures = 0
  BY DEF Init, Sent
<1>3. NoSuccessYet /\ ClosedBelowThreshold
  BY <1>2, ClientAssumption DEF Init, NoSuccessYet, ClosedBelowThreshold, ClientAssumption
<1>4. ClosedLoad /\ OpenLoad
  BY <1>2, UnderWay, FS_EmptySet DEF ClosedLoad, OpenLoad
<1>5. QED
  BY <1>1, <1>3, <1>4 DEF ShieldInv

LEMMA NextShield == ASSUME UseBreaker PROVE ShieldInv /\ [Next]_vars => ShieldInv'
<1> SUFFICES ASSUME ShieldInv, [Next]_vars PROVE ShieldInv'
  OBVIOUS
<1> USE DEF callVars
<1>0. /\ TypeInv /\ TypeOK /\ TypeInv' /\ TypeOK' /\ ClosedBelowThreshold
  BY NextTypeInv DEF ShieldInv, TypeInv
<1>1. /\ hits \in Nat /\ hits' \in Nat /\ episodes \in Nat /\ EpisodeCap \in Nat
      /\ breaker \in BreakerType /\ breaker' \in BreakerType
      /\ breaker.failures \in 0..Threshold
      /\ breaker.in_flight_probes \in 0..Probes
      /\ Probes \in Nat \ {0} /\ Threshold \in Nat \ {0}
      /\ breaker.state \in {"closed", "open", "half_open"}
  BY <1>0, ClientAssumption DEF TypeOK, BreakerType, ClientAssumption
<1>2. /\ Sent \in SUBSET Client /\ Unrecorded \in SUBSET Client
      /\ Sent' \in SUBSET Client /\ Unrecorded' \in SUBSET Client
      /\ Cardinality(Sent) \in Nat /\ Cardinality(Unrecorded) \in Nat
      /\ Cardinality(Sent') \in Nat /\ Cardinality(Unrecorded') \in Nat
      /\ Cardinality(Client) \in Nat
  BY UnderWay, CallersFinite DEF Sent, Unrecorded
<1>3. ASSUME UNCHANGED <<breaker, episodes, up, ok>>, hits' = hits, Sent' = Sent,
             Unrecorded' = Unrecorded,
             \A c \in Client : pc'[c] = "reply" => pc[c] = "reply"
      PROVE  ShieldInv'
  <2>1. ~up => NoSuccessYet'
    BY <1>3 DEF ShieldInv, NoSuccessYet
  <2>2. QED
    BY <1>0, <1>1, <1>2, <1>3, <2>1, QuietStep
<1>4. CASE UNCHANGED vars
  BY <1>3, <1>4 DEF vars, Sent, Unrecorded
<1>5. ASSUME NEW c \in Client, Start(c) \/ Retry(c) \/ GiveUp(c) PROVE ShieldInv'
  <2>1. /\ UNCHANGED <<breaker, episodes, up, ok>> /\ hits' = hits
        /\ pc[c] \in {"idle", "retry"} /\ pc'[c] \in {"allow", "idle"}
        /\ \A e \in Client \ {c} : pc'[e] = pc[e]
    BY <1>0, <1>5 DEF Start, Retry, GiveUp, TypeOK
  <2>2. Sent' = Sent /\ Unrecorded' = Unrecorded
    BY <2>1 DEF Sent, Unrecorded
  <2>3. QED
    BY <1>3, <2>1, <2>2
<1>6. CASE Tick
  <2>1. /\ breaker.state = "open" /\ breaker'.state = "open"
        /\ UNCHANGED <<episodes, up, ok, pc, hits>>
    BY <1>1, <1>6 DEF Tick, BreakerType
  <2>2. Sent' = Sent /\ Ceiling(episodes)' = Ceiling(episodes)
    BY <2>1 DEF Sent, Ceiling
  <2>3. QED
    BY <1>0, <2>1, <2>2 DEF ShieldInv, ClosedBelowThreshold, NoSuccessYet, ClosedLoad, OpenLoad
<1>7. CASE Recover
  BY <1>0, <1>7 DEF Recover, ShieldInv, ClosedBelowThreshold
<1>8. ASSUME NEW c \in Client, Allow(c) PROVE ShieldInv'
  <2>1. /\ pc[c] = "allow" /\ pc' = [pc EXCEPT ![c] = "send"]
        /\ Admits(Settle(breaker)) /\ breaker' = Admitted(Settle(breaker))
        /\ episodes' = IF Settle(breaker).state # breaker.state
                       THEN AtMost(episodes + 1, EpisodeCap) ELSE episodes
        /\ UNCHANGED <<ok, up, hits>>
    BY <1>8 DEF Allow
  <2>2. c \notin Sent /\ Sent' = Sent \cup {c}
    BY <1>0, <2>1 DEF Sent, TypeOK
  <2>3. c \notin Unrecorded /\ Unrecorded' = Unrecorded \cup {c}
    BY <1>0, <2>1 DEF Unrecorded, TypeOK
  <2>4. /\ Cardinality(Sent') = Cardinality(Sent) + 1
        /\ Cardinality(Unrecorded') = Cardinality(Unrecorded) + 1
    BY <1>2, <2>2, <2>3, OneMore
  <2>5. ~up => NoSuccessYet'
    BY <1>0, <2>1 DEF ShieldInv, NoSuccessYet, TypeOK
  <2>6. CASE breaker.state = "closed"
    <3>1. Settle(breaker) = breaker /\ breaker' = breaker /\ episodes' = episodes
      BY <2>1, <2>6 DEF Settle, Admitted
    <3>2. QED
      BY <1>0, <1>1, <1>2, <2>1, <2>4, <2>5, <2>6, <3>1
      DEF ShieldInv, ClosedBelowThreshold, ClosedLoad, OpenLoad
  <2>7. CASE breaker.state = "half_open"
    <3>1. Settle(breaker) = breaker /\ episodes' = episodes
      BY <2>1, <2>7 DEF Settle
    <3>2. breaker.in_flight_probes < Probes
      BY <2>1, <2>7, <3>1 DEF Admits
    <3>3. /\ breaker'.state = "half_open"
          /\ breaker'.in_flight_probes = breaker.in_flight_probes + 1
      BY <1>1, <2>1, <2>7, <3>1, <3>2 DEF Admitted, AtMost, BreakerType
    <3>4. Ceiling(episodes)' = Ceiling(episodes) /\ Ceiling(episodes) \in Nat
      BY <1>1, <3>1, CeilingSteps DEF Ceiling
    <3>5. QED
      BY <1>0, <1>1, <1>2, <2>1, <2>4, <2>5, <2>7, <3>1, <3>3, <3>4
      DEF ShieldInv, ClosedBelowThreshold, ClosedLoad, OpenLoad
  <2>8. CASE breaker.state = "open"
    <3>1. /\ breaker.age >= Cooldown
          /\ Settle(breaker) = [breaker EXCEPT !.state = "half_open", !.in_flight_probes = 0]
      BY <2>1, <2>8 DEF Admits, Settle
    <3>2. Settle(breaker).state = "half_open" /\ Settle(breaker).in_flight_probes = 0
      BY <1>1, <3>1 DEF BreakerType
    <3>3. /\ breaker'.state = "half_open" /\ breaker'.in_flight_probes = 1
          /\ episodes' = AtMost(episodes + 1, EpisodeCap)
      <4>1. AtMost(0 + 1, Probes) = 1
        BY <1>1 DEF AtMost
      <4>2. breaker' = [Settle(breaker) EXCEPT !.in_flight_probes = AtMost(@ + 1, Probes)]
        BY <2>1, <3>2 DEF Admitted
      <4>3. Settle(breaker) \in BreakerType
        BY <1>1, BreakerTyped
      <4>4. QED
        BY <2>1, <2>8, <3>2, <4>1, <4>2, <4>3 DEF BreakerType
    <3>4. ClosedBelowThreshold' /\ ClosedLoad'
      BY <3>3 DEF ClosedBelowThreshold, ClosedLoad
    <3>5. ASSUME ~up PROVE OpenLoad'
      <4>1. SUFFICES ASSUME episodes' < EpisodeCap
                     PROVE  hits' + Cardinality(Sent') + Probes <= Ceiling(episodes') + 1
        BY <3>3 DEF OpenLoad, Ceiling
      <4>2. episodes < EpisodeCap /\ episodes' = episodes + 1
        BY <1>1, <3>3, <4>1 DEF AtMost
      <4>3. hits + Cardinality(Sent) <= Ceiling(episodes)
        BY <2>8, <3>5, <4>2 DEF ShieldInv, OpenLoad
      <4>4. Ceiling(episodes') = Ceiling(episodes) + Probes /\ Ceiling(episodes) \in Nat
        BY <1>1, <4>2, CeilingSteps
      <4>5. QED
        BY <1>1, <1>2, <2>1, <2>4, <4>3, <4>4
    <3>6. QED
      BY <1>0, <2>1, <2>5, <3>4, <3>5 DEF ShieldInv
  <2>9. QED
    BY <1>1, <2>6, <2>7, <2>8
<1>9. ASSUME NEW c \in Client, ShortCircuit(c) PROVE ShieldInv'
  <2>1. /\ pc[c] = "allow" /\ pc' = [pc EXCEPT ![c] = "idle"]
        /\ ~Admits(Settle(breaker)) /\ breaker' = Settle(breaker)
        /\ UNCHANGED <<episodes, up, ok, hits>>
    BY <1>9 DEF ShortCircuit
  \* a breaker that has just become half-open admits
  <2>2. Settle(breaker) = breaker
    <3>1. CASE breaker.state = "open" /\ breaker.age >= Cooldown
      <4>1. Settle(breaker) = [breaker EXCEPT !.state = "half_open", !.in_flight_probes = 0]
        BY <3>1 DEF Settle
      <4>2. Settle(breaker).state = "half_open" /\ Settle(breaker).in_flight_probes = 0
        BY <1>1, <4>1 DEF BreakerType
      <4>3. QED
        BY <1>1, <2>1, <4>2 DEF Admits
    <3>2. QED
      BY <3>1 DEF Settle
  <2>3. Sent' = Sent /\ Unrecorded' = Unrecorded
    BY <1>0, <2>1 DEF Sent, Unrecorded, TypeOK
  <2>4. \A e \in Client : pc'[e] = "reply" => pc[e] = "reply"
    BY <1>0, <2>1 DEF TypeOK
  <2>5. QED
    BY <1>3, <2>1, <2>2, <2>3, <2>4
<1>10. ASSUME NEW c \in Client, Arrive(c) PROVE ShieldInv'
  <2>1. /\ pc[c] = "send" /\ pc' = [pc EXCEPT ![c] = "reply"]
        /\ ok' = [ok EXCEPT ![c] = up] /\ hits' = AtMost(hits + 1, HitCap)
        /\ UNCHANGED <<breaker, episodes, up>>
    BY <1>10 DEF Arrive
  <2>2. c \in Sent /\ Sent' = Sent \ {c} /\ Unrecorded' = Unrecorded
    BY <1>0, <2>1 DEF Sent, Unrecorded, TypeOK
  <2>3. Cardinality(Sent') = Cardinality(Sent) - 1
    BY <1>2, <2>2, OneLess
  <2>4. hits' <= hits + 1
    BY <1>1, <2>1, ClientAssumption DEF AtMost, ClientAssumption
  <2>5. ~up => NoSuccessYet'
    BY <1>0, <2>1 DEF ShieldInv, NoSuccessYet, TypeOK
  <2>6. QED
    BY <1>0, <1>1, <1>2, <2>1, <2>2, <2>3, <2>4, <2>5, QuietStep
<1>11. ASSUME NEW c \in Client, Raise(c) PROVE ShieldInv'
  <2>1. /\ pc[c] \in {"send", "reply"} /\ pc' = [pc EXCEPT ![c] = "dead"]
        /\ UNCHANGED <<breaker, episodes, up, ok, hits>>
    BY <1>11 DEF Raise
  <2>2. Unrecorded' = Unrecorded /\ Sent' = Sent \ {c}
    BY <1>0, <2>1 DEF Sent, Unrecorded, TypeOK
  <2>3. Cardinality(Sent') <= Cardinality(Sent)
    <3>1. CASE c \in Sent
      BY <1>2, <2>2, <3>1, OneLess
    <3>2. CASE c \notin Sent
      <4>1. Sent' = Sent
        BY <2>2, <3>2
      <4>2. QED
        BY <1>2, <4>1
    <3>3. QED
      BY <3>1, <3>2
  <2>4. ~up => NoSuccessYet'
    BY <1>0, <2>1 DEF ShieldInv, NoSuccessYet, TypeOK
  <2>5. QED
    BY <1>0, <1>1, <1>2, <2>1, <2>2, <2>3, <2>4, QuietStep
<1>12. ASSUME NEW c \in Client, Record(c) PROVE ShieldInv'
  <2>1. /\ pc[c] = "reply" /\ breaker' = Recorded(breaker, ok[c])
        /\ pc' = [pc EXCEPT ![c] = IF ok[c] \/ attempt[c] = Tries - 1 THEN "idle" ELSE "retry"]
        /\ UNCHANGED <<episodes, up, ok, hits>>
    BY <1>12 DEF Record
  <2>2. c \in Unrecorded /\ Unrecorded' = Unrecorded \ {c} /\ Sent' = Sent
    BY <1>0, <2>1 DEF Sent, Unrecorded, TypeOK
  <2>3. Cardinality(Unrecorded') = Cardinality(Unrecorded) - 1
    BY <1>2, <2>2, OneLess
  <2>4. ~up => NoSuccessYet' /\ ~ok[c]
    BY <1>0, <2>1 DEF ShieldInv, NoSuccessYet, TypeOK
  <2> DEFINE n == AtMost(breaker.failures + 1, Threshold)
  <2>5. n \in 0..Threshold /\ n <= breaker.failures + 1
        /\ (breaker.failures < Threshold => n = breaker.failures + 1)
    BY <1>1 DEF AtMost
  <2>6. CASE ok[c]
    <3>1. breaker'.state = "closed" /\ breaker'.failures = 0
      BY <1>1, <2>1, <2>6 DEF Recorded, BreakerType
    <3>2. up
      BY <2>4, <2>6
    <3>3. QED
      BY <1>0, <1>1, <2>1, <3>1, <3>2 DEF ShieldInv, ClosedBelowThreshold
  <2>7. CASE ~ok[c] /\ (breaker.state = "half_open" \/ n >= Threshold)
    <3>1. breaker' = [breaker EXCEPT !.state = "open", !.failures = n, !.age = 0]
      BY <2>1, <2>7 DEF Recorded
    <3>2. breaker'.state = "open"
      BY <1>1, <3>1 DEF BreakerType
    <3>3. ClosedBelowThreshold' /\ ClosedLoad'
      BY <3>2 DEF ClosedBelowThreshold, ClosedLoad
    <3>4. ASSUME ~up PROVE OpenLoad'
      <4>1. SUFFICES ASSUME episodes < EpisodeCap
                     PROVE  hits + Cardinality(Sent) <= Ceiling(episodes)
        BY <2>1, <2>2, <3>2 DEF OpenLoad, Ceiling
      <4>2. ClosedLoad /\ OpenLoad /\ Ceiling(episodes) \in Nat
            /\ Threshold - 1 + Cardinality(Client) <= Ceiling(episodes)
        BY <1>1, <3>4, CeilingSteps DEF ShieldInv
      <4>3. CASE breaker.state = "closed"
        <5>1. breaker.failures < Threshold
          BY <1>0, <4>3 DEF ClosedBelowThreshold
        <5>2. Cardinality(Unrecorded) <= Cardinality(Client)
          BY UnderWay
        <5>3. hits + Cardinality(Sent) <= breaker.failures + Cardinality(Unrecorded)
          BY <4>2, <4>3 DEF ClosedLoad
        <5>4. QED
          BY <1>1, <1>2, <4>2, <5>1, <5>2, <5>3
      <4>4. CASE breaker.state = "half_open"
        <5>1. hits + Cardinality(Sent) + Probes <= Ceiling(episodes) + breaker.in_flight_probes
          BY <4>1, <4>2, <4>4 DEF OpenLoad
        <5>2. QED
          BY <1>1, <1>2, <4>2, <5>1
      <4>5. CASE breaker.state = "open"
        BY <4>1, <4>2, <4>5 DEF OpenLoad
      <4>6. QED
        BY <1>1, <4>3, <4>4, <4>5
    <3>5. QED
      BY <1>0, <2>1, <2>4, <3>3, <3>4 DEF ShieldInv
  <2>8. CASE ~ok[c] /\ ~ (breaker.state = "half_open" \/ n >= Threshold)
    <3>1. breaker' = [breaker EXCEPT !.failures = n]
      BY <2>1, <2>8 DEF Recorded
    <3>2. breaker'.state = breaker.state /\ breaker'.failures = n
      BY <1>1, <3>1 DEF BreakerType
    <3>3. n < Threshold /\ n = breaker.failures + 1
      BY <1>1, <2>5, <2>8 DEF AtMost
    <3>4. ClosedBelowThreshold'
      BY <3>2, <3>3 DEF ClosedBelowThreshold
    <3>5. Ceiling(episodes)' = Ceiling(episodes) /\ breaker.state # "half_open"
      BY <2>1, <2>8 DEF Ceiling
    <3>6. ASSUME ~up PROVE ClosedLoad' /\ OpenLoad'
      <4>1. ClosedLoad /\ OpenLoad
        BY <3>6 DEF ShieldInv
      <4>2. ClosedLoad'
        BY <1>1, <1>2, <2>1, <2>2, <2>3, <3>2, <3>3, <4>1 DEF ClosedLoad
      <4>3. OpenLoad'
        BY <2>1, <2>2, <3>2, <3>5, <4>1 DEF OpenLoad
      <4>4. QED
        BY <4>2, <4>3
    <3>7. QED
      BY <1>0, <2>1, <2>4, <3>4, <3>6 DEF ShieldInv
  <2>9. QED
    BY <2>6, <2>7, <2>8
<1>13. QED
  BY <1>4, <1>5, <1>6, <1>7, <1>8, <1>9, <1>10, <1>11, <1>12 DEF Next, Call

\* With a breaker, an outage hits the upstream at most as often as it takes to
\* open it, once more for each caller, and Probes times for each half-open
\* phase; and a closed breaker is below its threshold.
THEOREM BreakerBoundsTheOutage == ASSUME UseBreaker PROVE Spec => []BreakerShields
<1>1. ShieldInv => BreakerShields
  <2> SUFFICES ASSUME ShieldInv, ~up, episodes < EpisodeCap PROVE hits <= Ceiling(episodes)
    BY DEF ShieldInv, BreakerShields, OutageLoadBounded, Ceiling
  <2>1. /\ hits \in Nat /\ episodes \in Nat /\ Ceiling(episodes) \in Nat
        /\ Threshold - 1 + Cardinality(Client) <= Ceiling(episodes)
        /\ breaker.failures \in Nat /\ breaker.in_flight_probes \in 0..Probes
        /\ breaker.state \in {"closed", "open", "half_open"}
        /\ Probes \in Nat /\ Threshold \in Nat
    BY CeilingSteps, ClientAssumption DEF ShieldInv, TypeInv, TypeOK, BreakerType, ClientAssumption
  <2>2. ClosedLoad /\ OpenLoad /\ ClosedBelowThreshold
    BY DEF ShieldInv
  <2>3. CASE breaker.state = "closed"
    <3>1. /\ breaker.failures < Threshold
          /\ hits + Cardinality(Sent) <= breaker.failures + Cardinality(Unrecorded)
      BY <2>2, <2>3 DEF ClosedLoad, ClosedBelowThreshold
    <3>2. QED
      BY <2>1, <3>1, UnderWay
  <2>4. CASE breaker.state = "half_open"
    <3>1. hits + Cardinality(Sent) + Probes <= Ceiling(episodes) + breaker.in_flight_probes
      BY <2>2, <2>4 DEF OpenLoad
    <3>2. QED
      BY <2>1, <3>1, UnderWay
  <2>5. CASE breaker.state = "open"
    <3>1. hits + Cardinality(Sent) <= Ceiling(episodes)
      BY <2>2, <2>5 DEF OpenLoad
    <3>2. QED
      BY <2>1, <3>1, UnderWay
  <2>6. QED
    BY <2>1, <2>3, <2>4, <2>5
<1>2. QED
  BY <1>1, InitShield, NextShield, PTL DEF Spec

-----------------------------------------------------------------------------
(***************************************************************************)
(* RetryPolicy                                                             *)
(***************************************************************************)

\* Once a script says ok or terminal it says so to the end.
LEMMA ScriptStays ==
    ASSUME NEW s \in Scripts, NEW k \in 1..Attempts, s[k] \in {"ok", "terminal"},
           NEW j \in k..Attempts
    PROVE  s[j] = s[k]
<1> DEFINE Other == {m \in k..Attempts : s[m] # s[k]}
<1>0. Attempts \in Nat /\ k \in Nat
  BY PolicyAssumption DEF PolicyAssumption
<1>1. SUFFICES ASSUME Other # {} PROVE FALSE
  OBVIOUS
<1>2. Other \in SUBSET Nat
  BY <1>0
<1>3. PICK m \in Other : \A n \in Other : m <= n
  <2> HIDE DEF Other
  <2>1. QED
    BY <1>1, <1>2, MinOfNumbers
<1>4. m \in k..Attempts /\ m # k /\ m \in Nat
  BY <1>0
<1>5. m - 1 \in k..Attempts /\ m - 1 \in 1..Attempts - 1 /\ ~ (m <= m - 1)
  BY <1>0, <1>4
<1>6. s[m - 1] = s[k]
  BY <1>3, <1>5
<1>7. s[m - 1 + 1] = s[m - 1]
  BY <1>5, <1>6 DEF Scripts
<1>8. m - 1 + 1 = m
  BY <1>4
<1>9. QED
  BY <1>3, <1>6, <1>7, <1>8

\* rows that the first n attempts of the script leave without a key
Rows(n) == {i \in 1..n : Produced(script[i])}

\* The attempts before the n-th that were all worth another one.
WentOn(p, n) == \A i \in 1..n : script[i] # "ok" /\ WorthRetrying(p, script[i])

PolicyInv(p) ==
    LET n == callsMade[p] IN
    /\ plainRows[p] = Cardinality(Rows(n))
    /\ keyedRows[p] = IF plainRows[p] = 0 THEN 0 ELSE 1
    /\ verdict[p] = "running" => n < Attempts /\ WentOn(p, n)
    /\ verdict[p] # "running" => n > 0 /\ WentOn(p, n - 1)
    /\ verdict[p] = "ok" => script[n] = "ok" /\ plainRows[p] > 0
    /\ verdict[p] = "gave_up" =>
          script[n] # "ok" /\ (n = Attempts \/ ~WorthRetrying(p, script[n]))

RetryInv == RetryTypeOK /\ \A p \in RetryPolicies : PolicyInv(p)

LEMMA RowsCounted ==
    ASSUME NEW n \in Nat
    PROVE  /\ IsFiniteSet(Rows(n)) /\ Cardinality(Rows(n)) \in 0..n
           /\ Rows(n + 1) = IF Produced(script[n + 1]) THEN Rows(n) \cup {n + 1} ELSE Rows(n)
           /\ n + 1 \notin Rows(n)
<1>1. IsFiniteSet(1..n) /\ Cardinality(1..n) = n
  BY FS_Interval
<1>2. Rows(n) \in SUBSET (1..n)
  BY DEF Rows
<1>3. IsFiniteSet(Rows(n)) /\ Cardinality(Rows(n)) <= n /\ Cardinality(Rows(n)) \in Nat
  BY <1>1, <1>2, FS_Subset, FS_CardinalityType
<1>4. 1..n + 1 = (1..n) \cup {n + 1} /\ n + 1 \notin 1..n
  OBVIOUS
<1>5. QED
  BY <1>3, <1>4 DEF Rows

LEMMA InitRetry == RetryInit => RetryInv
<1> SUFFICES ASSUME RetryInit PROVE RetryInv
  OBVIOUS
<1>1. /\ Attempts \in Nat \ {0} /\ 0 \in 0..Attempts
  BY PolicyAssumption DEF PolicyAssumption
<1>2. RetryTypeOK
  BY <1>1 DEF RetryInit, RetryTypeOK
<1>3. Rows(0) = {} /\ Cardinality(Rows(0)) = 0
  BY FS_EmptySet DEF Rows
<1>4. ASSUME NEW p \in RetryPolicies PROVE PolicyInv(p)
  <2>1. callsMade[p] = 0 /\ plainRows[p] = 0 /\ keyedRows[p] = 0 /\ verdict[p] = "running"
    BY DEF RetryInit
  <2>2. QED
    BY <1>1, <1>3, <2>1 DEF PolicyInv, WentOn
<1>5. QED
  BY <1>2, <1>4 DEF RetryInv

LEMMA NextRetry == RetryInv /\ [RetryNext]_retryVars => RetryInv'
<1> SUFFICES ASSUME RetryInv, [RetryNext]_retryVars PROVE RetryInv'
  OBVIOUS
<1>0. Attempts \in Nat \ {0}
  BY PolicyAssumption DEF PolicyAssumption
<1>1. CASE UNCHANGED retryVars
  <2>1. UNCHANGED <<script, callsMade, verdict, plainRows, keyedRows>>
    BY <1>1 DEF retryVars
  <2>2. RetryTypeOK' /\ \A p \in RetryPolicies : PolicyInv(p)'
    BY <2>1 DEF RetryInv, RetryTypeOK, PolicyInv, Rows, WentOn
  <2>3. QED
    BY <2>2 DEF RetryInv
<1>2. ASSUME NEW p \in RetryPolicies, AttemptCall(p) PROVE RetryInv'
  <2>0. RetryTypeOK /\ PolicyInv(p)
    BY DEF RetryInv
  <2>1. PICK k, n, outcome : k \in 0..Attempts /\ k = callsMade[p] /\ n = k + 1 /\ outcome = script[n]
    BY <2>0 DEF RetryTypeOK
  <2>2. /\ verdict[p] = "running" /\ script' = script
        /\ callsMade' = [callsMade EXCEPT ![p] = n]
        /\ verdict' = [verdict EXCEPT ![p] =
               CASE outcome = "ok" -> "ok"
                 [] outcome # "ok" /\ WorthRetrying(p, outcome) /\ n < Attempts -> "running"
                 [] OTHER -> "gave_up"]
        /\ IF Produced(outcome)
           THEN /\ plainRows' = [plainRows EXCEPT ![p] = @ + 1]
                /\ keyedRows' = [keyedRows EXCEPT ![p] = Inserted(@)]
           ELSE UNCHANGED <<plainRows, keyedRows>>
    BY <1>2, <2>1 DEF AttemptCall
  <2>3. /\ k \in Nat /\ k < Attempts /\ n \in 1..Attempts /\ n - 1 = k /\ n > 0
        /\ WentOn(p, k) /\ plainRows[p] = Cardinality(Rows(k))
        /\ keyedRows[p] = IF plainRows[p] = 0 THEN 0 ELSE 1
    BY <1>0, <2>0, <2>1, <2>2 DEF PolicyInv
  <2>4. /\ callsMade \in [RetryPolicies -> 0..Attempts]
        /\ verdict \in [RetryPolicies -> {"running", "ok", "gave_up"}]
        /\ plainRows \in [RetryPolicies -> 0..Attempts]
        /\ keyedRows \in [RetryPolicies -> 0..Attempts]
    BY <2>0 DEF RetryTypeOK
  <2>5. /\ callsMade'[p] = n
        /\ verdict'[p] = CASE outcome = "ok" -> "ok"
                           [] outcome # "ok" /\ WorthRetrying(p, outcome) /\ n < Attempts -> "running"
                           [] OTHER -> "gave_up"
        /\ plainRows'[p] = IF Produced(outcome) THEN plainRows[p] + 1 ELSE plainRows[p]
        /\ keyedRows'[p] = IF Produced(outcome) THEN Inserted(keyedRows[p]) ELSE keyedRows[p]
    BY <2>2, <2>4
  <2>6. /\ IsFiniteSet(Rows(k)) /\ Cardinality(Rows(k)) \in Nat /\ n \notin Rows(k)
        /\ Rows(n) = IF Produced(outcome) THEN Rows(k) \cup {n} ELSE Rows(k)
        /\ Cardinality(Rows(n)) \in 0..n
    <3>1. /\ IsFiniteSet(Rows(k)) /\ Cardinality(Rows(k)) \in 0..k /\ k + 1 \notin Rows(k)
          /\ Rows(k + 1) = IF Produced(script[k + 1]) THEN Rows(k) \cup {k + 1} ELSE Rows(k)
      BY <2>3, RowsCounted
    <3>2. n \in Nat
      BY <1>0, <2>3
    <3>3. Cardinality(Rows(n)) \in 0..n
      BY <3>2, RowsCounted
    <3>4. QED
      BY <2>1, <2>3, <3>1, <3>3
  <2>7. plainRows'[p] = Cardinality(Rows(n)) /\ plainRows'[p] \in 0..Attempts
    <3>1. Cardinality(Rows(k) \cup {n}) = Cardinality(Rows(k)) + 1
      BY <2>6, FS_AddElement
    <3>2. plainRows'[p] = Cardinality(Rows(n))
      BY <2>3, <2>5, <2>6, <3>1
    <3>3. QED
      BY <1>0, <2>3, <2>6, <3>2
  <2>8. /\ keyedRows'[p] = IF plainRows'[p] = 0 THEN 0 ELSE 1
        /\ keyedRows'[p] \in 0..Attempts
    <3>1. plainRows[p] \in Nat
      BY <2>3, <2>6
    <3>2. keyedRows'[p] = IF plainRows'[p] = 0 THEN 0 ELSE 1
      BY <2>3, <2>5, <3>1 DEF Inserted
    <3>3. QED
      BY <1>0, <3>2
  <2>9. /\ verdict'[p] = "running" => n < Attempts /\ outcome # "ok" /\ WorthRetrying(p, outcome)
        /\ verdict'[p] = "ok" => outcome = "ok"
        /\ verdict'[p] = "gave_up" => outcome # "ok" /\ (n = Attempts \/ ~WorthRetrying(p, outcome))
        /\ verdict'[p] \in {"running", "ok", "gave_up"}
    <3>1. CASE outcome = "ok"
      BY <2>5, <3>1
    <3>2. CASE outcome # "ok" /\ WorthRetrying(p, outcome) /\ n < Attempts
      BY <2>5, <3>2
    <3>3. CASE outcome # "ok" /\ ~ (WorthRetrying(p, outcome) /\ n < Attempts)
      BY <1>0, <2>3, <2>5, <3>3
    <3>4. QED
      BY <3>1, <3>2, <3>3
  <2>10. outcome = "ok" => plainRows'[p] > 0
    BY <2>3, <2>5, <2>6 DEF Produced
  <2>11. WentOn(p, k)' /\ (outcome # "ok" /\ WorthRetrying(p, outcome) => WentOn(p, n)')
    <3>1. 1..n = (1..k) \cup {n}
      BY <2>1, <2>3
    <3>2. \A i \in 1..k : script'[i] # "ok" /\ WorthRetrying(p, script'[i])
      BY <2>2, <2>3 DEF WentOn
    <3>3. QED
      BY <2>1, <2>2, <3>1, <3>2 DEF WentOn
  <2>12. PolicyInv(p)'
    <3>1. Rows(callsMade[p])' = Rows(n)
      BY <2>2, <2>5 DEF Rows
    <3>2. WentOn(p, callsMade[p])' <=> WentOn(p, n)'
      BY <2>5 DEF WentOn
    <3>3. WentOn(p, callsMade[p] - 1)' <=> WentOn(p, k)'
      BY <2>3, <2>5 DEF WentOn
    <3>4. script'[callsMade'[p]] = outcome
      BY <2>1, <2>2, <2>5
    <3>5. QED
      BY <2>3, <2>5, <2>7, <2>8, <2>9, <2>10, <2>11, <3>1, <3>2, <3>3, <3>4 DEF PolicyInv
  <2>13. ASSUME NEW o \in RetryPolicies, o # p PROVE PolicyInv(o)'
    <3>1. PolicyInv(o)
      BY DEF RetryInv
    <3>2. /\ callsMade'[o] = callsMade[o] /\ verdict'[o] = verdict[o]
          /\ plainRows'[o] = plainRows[o] /\ keyedRows'[o] = keyedRows[o]
      BY <2>2, <2>4, <2>13
    <3>3. QED
      BY <2>2, <3>1, <3>2 DEF PolicyInv, Rows, WentOn
  <2>14. RetryTypeOK'
    <3>1. callsMade' \in [RetryPolicies -> 0..Attempts]
      BY <1>0, <2>2, <2>3, <2>4
    <3>2. verdict' \in [RetryPolicies -> {"running", "ok", "gave_up"}]
      BY <2>2, <2>4, <2>5, <2>9
    <3>3. plainRows' \in [RetryPolicies -> 0..Attempts]
      BY <2>2, <2>4, <2>7
    <3>4. keyedRows' \in [RetryPolicies -> 0..Attempts]
      BY <2>2, <2>4, <2>8
    <3>5. QED
      BY <2>0, <2>2, <3>1, <3>2, <3>3, <3>4 DEF RetryTypeOK
  <2>15. QED
    BY <2>12, <2>13, <2>14 DEF RetryInv
<1>3. QED
  BY <1>1, <1>2 DEF RetryNext

\* Both policies stop at the first ok; at the first terminal error the classified
\* one stops and the naive one goes on to the end; nothing else stops them.
LEMMA SettledAlike ==
    ASSUME RetryInv, Settled
    PROVE  /\ verdict["classified"] = verdict["naive"]
           /\ plainRows["classified"] = plainRows["naive"]
           /\ callsMade["naive"] - callsMade["classified"] =
                 IF TerminalCalls = {} THEN 0 ELSE Cardinality(TerminalCalls) - 1
<1>0. Attempts \in Nat /\ "naive" \in RetryPolicies /\ "classified" \in RetryPolicies
  BY PolicyAssumption DEF PolicyAssumption, RetryPolicies
<1> PICK n, c : n = callsMade["naive"] /\ c = callsMade["classified"]
  OBVIOUS
<1>01. RetryTypeOK /\ PolicyInv("naive") /\ PolicyInv("classified")
  BY <1>0 DEF RetryInv
<1>1. /\ n \in 1..Attempts /\ c \in 1..Attempts
      /\ script \in Scripts /\ \A i \in 1..Attempts : script[i] \in CallOutcome
      /\ verdict["naive"] \in {"ok", "gave_up"} /\ verdict["classified"] \in {"ok", "gave_up"}
  <2>1. /\ n \in 0..Attempts /\ c \in 0..Attempts
        /\ verdict["naive"] \in {"running", "ok", "gave_up"}
        /\ verdict["classified"] \in {"running", "ok", "gave_up"}
    BY <1>0, <1>01 DEF RetryTypeOK
  <2>2. verdict["naive"] # "running" /\ verdict["classified"] # "running"
    BY <1>0 DEF Settled
  <2>3. n > 0 /\ c > 0
    BY <1>01, <2>2 DEF PolicyInv
  <2>4. n \in 1..Attempts /\ c \in 1..Attempts
    BY <1>0, <2>1, <2>3
  <2>5. script \in Scripts /\ script \in [1..Attempts -> CallOutcome]
    BY <1>01 DEF RetryTypeOK, Scripts
  <2>6. QED
    BY <2>1, <2>2, <2>4, <2>5
<1>2. /\ WentOn("naive", n - 1) /\ WentOn("classified", c - 1)
      /\ verdict["naive"] = "ok" => script[n] = "ok"
      /\ verdict["classified"] = "ok" => script[c] = "ok"
      /\ verdict["naive"] = "gave_up" => script[n] # "ok" /\ n = Attempts
      /\ verdict["classified"] = "gave_up" =>
            script[c] # "ok" /\ (c = Attempts \/ script[c] = "terminal")
      /\ plainRows["naive"] = Cardinality(Rows(n)) /\ plainRows["classified"] = Cardinality(Rows(c))
  <2>1. ~WorthRetrying("classified", script[c]) /\ script[c] # "ok" => script[c] = "terminal"
    BY <1>1 DEF WorthRetrying, CallOutcome
  <2>2. WorthRetrying("naive", script[n])
    BY DEF WorthRetrying
  <2>3. QED
    BY <1>1, <1>01, <2>1, <2>2 DEF PolicyInv
<1>3. /\ \A i \in 1..Attempts : i < n => script[i] # "ok"
      /\ \A i \in 1..Attempts : i < c => script[i] \notin {"ok", "terminal"}
  <2>1. \A i \in 1..Attempts : (i < n => i \in 1..n - 1) /\ (i < c => i \in 1..c - 1)
    BY <1>0, <1>1
  <2>2. \A i \in 1..n - 1 : script[i] # "ok"
    BY <1>2 DEF WentOn
  <2>3. \A i \in 1..c - 1 : script[i] \notin {"ok", "terminal"}
    BY <1>2 DEF WentOn, WorthRetrying
  <2>4. QED
    BY <2>1, <2>2, <2>3
<1>4. CASE script[c] = "ok"
  <2>1. verdict["classified"] = "ok"
    BY <1>1, <1>2, <1>4
  <2>2. \A j \in c..Attempts : script[j] = "ok"
    BY <1>1, <1>4, ScriptStays
  <2>3. n <= c
    BY <1>0, <1>1, <1>3, <1>4
  <2>4. verdict["naive"] = "ok"
    <3>1. CASE verdict["naive"] = "gave_up"
      <4>1. n = Attempts /\ c = n
        BY <1>0, <1>1, <1>2, <2>3, <3>1
      <4>2. QED
        BY <1>2, <1>4, <3>1, <4>1
    <3>2. QED
      BY <1>1, <3>1
  <2>5. n = c
    BY <1>0, <1>1, <1>2, <1>3, <2>3, <2>4
  <2>6. TerminalCalls = {}
    BY <1>0, <1>1, <1>3, <2>2 DEF TerminalCalls
  <2>7. QED
    BY <1>1, <1>2, <2>1, <2>4, <2>5, <2>6
<1>5. CASE script[c] # "ok"
  <2>1. verdict["classified"] = "gave_up" /\ (c = Attempts \/ script[c] = "terminal")
    BY <1>1, <1>2, <1>5
  <2>2. CASE script[c] # "terminal"
    <3>1. c = Attempts
      BY <2>1, <2>2
    <3>2. \A i \in 1..Attempts : script[i] \notin {"ok", "terminal"}
      BY <1>0, <1>3, <1>5, <2>2, <3>1
    <3>3. verdict["naive"] = "gave_up" /\ n = Attempts
      BY <1>1, <1>2, <3>2
    <3>4. TerminalCalls = {}
      BY <3>2 DEF TerminalCalls
    <3>5. QED
      BY <1>0, <1>2, <2>1, <3>1, <3>3, <3>4
  <2>3. CASE script[c] = "terminal"
    <3>1. \A j \in c..Attempts : script[j] = "terminal"
      BY <1>1, <2>3, ScriptStays
    <3>2. \A i \in 1..Attempts : script[i] # "ok"
      BY <1>0, <1>1, <1>3, <3>1
    <3>3. verdict["naive"] = "gave_up" /\ n = Attempts
      BY <1>1, <1>2, <3>2
    <3>4. TerminalCalls = c..Attempts
      BY <1>0, <1>1, <1>3, <3>1 DEF TerminalCalls
    <3>5. Cardinality(c..Attempts) = Attempts - c + 1
      <4>1. c \in Int /\ Attempts \in Int /\ c <= Attempts
        BY <1>0, <1>1
      <4>2. QED
        BY <4>1, FS_Interval
    <3>6. Rows(n) = Rows(c)
      <4>1. \A i \in 1..n : i \notin 1..c => script[i] = "terminal"
        BY <1>0, <1>1, <3>1
      <4>2. \A i \in 1..c : i \in 1..n
        BY <1>0, <1>1, <3>3
      <4>3. QED
        BY <4>1, <4>2 DEF Rows, Produced
    <3>7. c \in TerminalCalls
      BY <1>0, <1>1, <3>4
    <3>8. n - c = Cardinality(TerminalCalls) - 1
      BY <1>0, <1>1, <3>3, <3>4, <3>5
    <3>9. QED
      BY <1>2, <2>1, <3>3, <3>6, <3>7, <3>8
  <2>4. QED
    BY <2>2, <2>3
<1>6. QED
  BY <1>4, <1>5

\* Classifying the errors loses neither a verdict nor a row, and saves exactly the
\* repetitions of a terminal error, for any number of attempts and any script.
THEOREM ClassifyingIsFree == RetrySpec => []ClassifiedLosesNothing
<1>1. RetryInv => ClassifiedLosesNothing
  <2> SUFFICES ASSUME RetryInv PROVE ClassifiedLosesNothing
    OBVIOUS
  <2>1. ASSUME NEW p \in RetryPolicies
        PROVE  /\ keyedRows[p] = IF plainRows[p] = 0 THEN 0 ELSE 1
               /\ plainRows[p] = Cardinality({i \in 1..callsMade[p] : Produced(script[i])})
               /\ verdict[p] = "ok" => keyedRows[p] = 1
    BY DEF RetryInv, PolicyInv, Rows
  <2>2. QED
    BY <2>1, SettledAlike DEF ClassifiedLosesNothing
<1>2. QED
  BY <1>1, InitRetry, NextRetry, PTL DEF RetrySpec

-----------------------------------------------------------------------------
(***************************************************************************)
(* UpstreamLoad: the chain, a number in which every layer is a digit       *)
(***************************************************************************)

\* The layer above those that give up has a try left.
LEMMA TopHasATry ==
    ASSUME ChainTypeOK, NEW q \in Logical
    PROVE  /\ Max(GivesUpTo(q)) \in 0..Layers
           /\ \A j \in 1..Max(GivesUpTo(q)) : Exhausted(q, j)
           /\ \A i \in 1..Layers : i = Max(GivesUpTo(q)) + 1 => failedTries[q][i] < LayerTries - 1
<1> DEFINE G == GivesUpTo(q)
<1>0. Layers \in Nat /\ LayerTries \in Nat \ {0} /\ Layers \in Int
  BY ChainAssumption DEF ChainAssumption
<1>1. 0 \in G /\ G \in SUBSET (0..Layers)
  <2>1. \A j \in 1..0 : Exhausted(q, j)
    OBVIOUS
  <2>2. QED
    BY <1>0, <2>1 DEF GivesUpTo
<1>2. IsFiniteSet(G)
  <2>1. IsFiniteSet(0..Layers)
    BY <1>0, FS_Interval
  <2>2. QED
    BY <1>1, <2>1, FS_Subset
<1>3. G \in SUBSET Nat /\ G # {}
  BY <1>0, <1>1
<1>4. Max(G) \in G /\ \A y \in G : Max(G) >= y
  <2> HIDE DEF G
  <2>1. QED
    BY <1>2, <1>3, MaxOfFinite
<1> DEFINE top == Max(G)
<1>5. top \in 0..Layers /\ \A j \in 1..top : Exhausted(q, j)
  BY <1>1, <1>4 DEF GivesUpTo
<1>6. ASSUME NEW i \in 1..Layers, i = top + 1 PROVE ~Exhausted(q, i)
  <2> HIDE DEF top
  <2>1. SUFFICES ASSUME Exhausted(q, i) PROVE FALSE
    OBVIOUS
  <2>2. \A j \in 1..i : j \in 1..top \/ j = i
    BY <1>0, <1>5, <1>6
  <2>3. i \in 0..Layers /\ \A j \in 1..i : Exhausted(q, j)
    BY <1>0, <1>5, <2>1, <2>2
  <2>4. i \in G
    BY <2>3 DEF GivesUpTo
  <2>5. top >= i
    BY <1>4, <2>4 DEF top
  <2>6. QED
    BY <1>0, <1>5, <1>6, <2>5
<1>7. \A i \in 1..Layers : failedTries[q][i] \in 0..LayerTries - 1
  <2>1. failedTries[q] \in [1..Layers -> 0..LayerTries - 1]
    BY DEF ChainTypeOK
  <2>2. QED
    BY <2>1
<1>8. QED
  <2> HIDE DEF top
  <2>1. ASSUME NEW i \in 1..Layers, i = top + 1 PROVE failedTries[q][i] < LayerTries - 1
    <3>1. failedTries[q][i] # LayerTries - 1
      BY <1>6, <2>1 DEF Exhausted
    <3>2. QED
      BY <1>0, <1>7, <3>1
  <2>2. QED
    BY <1>5, <2>1 DEF top

\* Weight is the power it is meant to be.
LEMMA Weights ==
    /\ Weight \in [0..Layers -> Nat] /\ Weight[0] = 1
    /\ \A i \in 1..Layers : Weight[i] = LayerTries * Weight[i - 1]
    /\ \A i \in 0..Layers : Weight[i] > 0
<1>0. Layers \in Nat /\ LayerTries \in Nat /\ LayerTries > 0
  BY ChainAssumption
<1> DEFINE step == [i \in 1..Layers |-> [x \in Nat |-> LayerTries * x]]
<1>1. step \in [1..Layers -> [Nat -> Nat]]
  <2>1. [x \in Nat |-> LayerTries * x] \in [Nat -> Nat]
    BY <1>0
  <2>2. QED
    BY <2>1
<1>2. PICK h \in [0..Layers -> Nat] : h[0] = 1 /\ \A i \in 1..Layers : h[i] = step[i][h[i - 1]]
  <2>1. step \in Steps(Layers, Nat)
    BY <1>1 DEF Steps
  <2> HIDE DEF step
  <2>2. PICK h \in [0..Layers -> Nat] : BuiltUp(h, Layers, 1, step)
    BY <1>0, <2>1, DefinedUpwards
  <2>3. QED
    BY <2>2 DEF BuiltUp
<1>3. \A i \in 0..Layers : i # 0 => i \in 1..Layers /\ i - 1 \in 0..Layers /\ h[i - 1] \in Nat
  BY <1>0
<1>4. h = [i \in 0..Layers |-> IF i = 0 THEN 1 ELSE LayerTries * h[i - 1]]
  <2>1. \A i \in 0..Layers : i # 0 => step[i][h[i - 1]] = LayerTries * h[i - 1]
    BY <1>3
  <2> HIDE DEF step
  <2>2. \A i \in 0..Layers : h[i] = IF i = 0 THEN 1 ELSE LayerTries * h[i - 1]
    BY <1>0, <1>2, <1>3, <2>1
  <2>3. QED
    BY <2>2
<1>5. Weight = [i \in 0..Layers |-> IF i = 0 THEN 1 ELSE LayerTries * Weight[i - 1]]
  BY <1>4, Zenon DEF Weight
<1>6. /\ DOMAIN Weight = 0..Layers /\ Weight[0] = 1
      /\ \A i \in 1..Layers : Weight[i] = LayerTries * Weight[i - 1]
  <2>1. 0 \in 0..Layers /\ \A i \in 1..Layers : i \in 0..Layers /\ i # 0
    BY <1>0
  <2>2. QED
    BY <1>5, <2>1
<1> DEFINE Good == {i \in 0..Layers : Weight[i] \in Nat /\ Weight[i] > 0}
<1>7. Good = 0..Layers
  <2>1. 0 \in Good
    BY <1>0, <1>6
  <2>2. ASSUME NEW i \in 1..Layers, i - 1 \in Good PROVE i \in Good
    <3>1. \A x \in Nat : x > 0 => LayerTries * x \in Nat /\ LayerTries * x > 0
      BY <1>0
    <3>2. QED
      BY <1>0, <1>6, <2>2, <3>1
  <2>3. Good \in SUBSET (0..Layers)
    OBVIOUS
  <2> HIDE DEF Good
  <2>4. QED
    BY <1>0, <2>1, <2>2, <2>3, CountingUp
<1>8. \A i \in 0..Layers : Weight[i] \in Nat /\ Weight[i] > 0
  BY <1>7
<1>9. Weight \in [0..Layers -> Nat]
  BY <1>5, <1>6, <1>8
<1>10. QED
  BY <1>6, <1>8, <1>9

\* the sum over the layers, taken layer by layer
LayerSums(f) ==
    CHOOSE v : v = [i \in 0..Layers |-> IF i = 0 THEN 0 ELSE v[i - 1] + f[i] * Weight[i - 1]]

LEMMA LayerSum ==
    ASSUME NEW f \in [1..Layers -> Nat]
    PROVE  /\ LayerSums(f) \in [0..Layers -> Nat] /\ LayerSums(f)[0] = 0
           /\ \A i \in 1..Layers :
                 LayerSums(f)[i] = LayerSums(f)[i - 1] + f[i] * Weight[i - 1]
<1>0. Layers \in Nat /\ \A i \in 0..Layers : Weight[i] \in Nat
  BY ChainAssumption, Weights
<1> DEFINE step == [i \in 1..Layers |-> [x \in Nat |-> x + f[i] * Weight[i - 1]]]
<1>1. step \in [1..Layers -> [Nat -> Nat]]
  <2>1. ASSUME NEW i \in 1..Layers PROVE [x \in Nat |-> x + f[i] * Weight[i - 1]] \in [Nat -> Nat]
    <3>1. i - 1 \in 0..Layers /\ f[i] \in Nat
      BY <1>0
    <3>2. Weight[i - 1] \in Nat
      BY <1>0, <3>1
    <3>3. \A a, b, x \in Nat : x + a * b \in Nat
      OBVIOUS
    <3>4. QED
      BY <3>1, <3>2, <3>3
  <2>2. QED
    BY <2>1
<1>2. PICK h \in [0..Layers -> Nat] : h[0] = 0 /\ \A i \in 1..Layers : h[i] = step[i][h[i - 1]]
  <2>1. step \in Steps(Layers, Nat)
    BY <1>1 DEF Steps
  <2> HIDE DEF step
  <2>2. PICK h \in [0..Layers -> Nat] : BuiltUp(h, Layers, 0, step)
    BY <1>0, <2>1, DefinedUpwards
  <2>3. QED
    BY <2>2 DEF BuiltUp
<1>3. \A i \in 0..Layers : i # 0 => i \in 1..Layers /\ i - 1 \in 0..Layers /\ h[i - 1] \in Nat
  BY <1>0
<1>4. h = [i \in 0..Layers |-> IF i = 0 THEN 0 ELSE h[i - 1] + f[i] * Weight[i - 1]]
  <2>1. \A i \in 0..Layers : i # 0 => step[i][h[i - 1]] = h[i - 1] + f[i] * Weight[i - 1]
    BY <1>3
  <2> HIDE DEF step
  <2>2. \A i \in 0..Layers : h[i] = IF i = 0 THEN 0 ELSE h[i - 1] + f[i] * Weight[i - 1]
    BY <1>0, <1>2, <1>3, <2>1
  <2>3. QED
    BY <2>2
<1> DEFINE v == LayerSums(f)
<1>5. v = [i \in 0..Layers |-> IF i = 0 THEN 0 ELSE v[i - 1] + f[i] * Weight[i - 1]]
  BY <1>4, Zenon DEF LayerSums
<1> HIDE DEF v
<1>6. /\ DOMAIN v = 0..Layers /\ v[0] = 0
      /\ \A i \in 1..Layers : v[i] = v[i - 1] + f[i] * Weight[i - 1]
  <2>1. 0 \in 0..Layers /\ \A i \in 1..Layers : i \in 0..Layers /\ i # 0
    BY <1>0
  <2>2. QED
    BY <1>5, <2>1
<1> DEFINE Good == {i \in 0..Layers : v[i] \in Nat}
<1>7. Good = 0..Layers
  <2>1. 0 \in Good
    BY <1>0, <1>6
  <2>2. ASSUME NEW i \in 1..Layers, i - 1 \in Good PROVE i \in Good
    <3>1. i - 1 \in 0..Layers /\ f[i] \in Nat /\ v[i - 1] \in Nat /\ i \in 0..Layers
      BY <1>0, <2>2
    <3>2. Weight[i - 1] \in Nat
      BY <1>0, <3>1
    <3>3. \A a, b, x \in Nat : x + a * b \in Nat
      OBVIOUS
    <3>4. QED
      BY <1>6, <3>1, <3>2, <3>3
  <2>3. Good \in SUBSET (0..Layers)
    OBVIOUS
  <2> HIDE DEF Good
  <2>4. QED
    BY <1>0, <2>1, <2>2, <2>3, CountingUp
<1>8. v \in [0..Layers -> Nat]
  BY <1>5, <1>6, <1>7
<1>9. QED
  BY <1>6, <1>8 DEF v

\* The layers up to one have used less than their weight; if all of them are
\* exhausted, exactly one less.
LEMMA SumBelowWeight ==
    ASSUME NEW f \in [1..Layers -> 0..LayerTries - 1]
    PROVE  /\ \A i \in 0..Layers : LayerSums(f)[i] <= Weight[i] - 1
           /\ \A top \in 0..Layers : (\A j \in 1..top : f[j] = LayerTries - 1) =>
                 \A i \in 0..top : LayerSums(f)[i] = Weight[i] - 1
<1> DEFINE v == LayerSums(f)
<1>0. Layers \in Nat /\ LayerTries \in Nat /\ LayerTries > 0
  BY ChainAssumption
<1>1. /\ v \in [0..Layers -> Nat] /\ v[0] = 0
      /\ \A i \in 1..Layers : v[i] = v[i - 1] + f[i] * Weight[i - 1]
  <2>1. f \in [1..Layers -> Nat]
    BY <1>0
  <2>2. QED
    BY <2>1, LayerSum
<1> HIDE DEF v
<1>2. ASSUME NEW i \in 1..Layers
      PROVE  /\ i - 1 \in 0..Layers /\ i \in 0..Layers /\ f[i] \in Nat /\ f[i] <= LayerTries - 1
             /\ v[i] \in Nat /\ v[i - 1] \in Nat /\ Weight[i] \in Nat /\ Weight[i - 1] \in Nat
             /\ Weight[i] = Weight[i - 1] + (LayerTries - 1) * Weight[i - 1]
             /\ f[i] * Weight[i - 1] <= (LayerTries - 1) * Weight[i - 1]
             /\ (LayerTries - 1) * Weight[i - 1] \in Nat /\ f[i] * Weight[i - 1] \in Nat
  <2>1. /\ i - 1 \in 0..Layers /\ i \in 0..Layers /\ f[i] \in 0..LayerTries - 1
    BY <1>0
  <2>2. v[i] \in Nat /\ v[i - 1] \in Nat /\ Weight[i] \in Nat /\ Weight[i - 1] \in Nat
    BY <1>1, <2>1, Weights
  <2>3. \A a, w \in Nat : a > 0 => a * w = w + (a - 1) * w /\ (a - 1) * w \in Nat
    OBVIOUS
  <2>4. \A a, b, w \in Nat : a <= b => a * w <= b * w /\ a * w \in Nat
    OBVIOUS
  <2>5. Weight[i] = LayerTries * Weight[i - 1]
    BY Weights
  <2>6. LayerTries - 1 \in Nat /\ f[i] \in Nat /\ f[i] <= LayerTries - 1
    BY <1>0, <2>1
  <2>7. f[i] * Weight[i - 1] <= (LayerTries - 1) * Weight[i - 1] /\ f[i] * Weight[i - 1] \in Nat
    BY <2>2, <2>4, <2>6
  <2>8. Weight[i] = Weight[i - 1] + (LayerTries - 1) * Weight[i - 1] /\ (LayerTries - 1) * Weight[i - 1] \in Nat
    BY <1>0, <2>2, <2>3, <2>5
  <2>9. QED
    BY <2>1, <2>2, <2>6, <2>7, <2>8
<1> DEFINE Good == {i \in 0..Layers : v[i] <= Weight[i] - 1}
<1>3. Good = 0..Layers
  <2>1. 0 \in Good
    BY <1>0, <1>1, Weights
  <2>2. ASSUME NEW i \in 1..Layers, i - 1 \in Good PROVE i \in Good
    <3>1. v[i - 1] <= Weight[i - 1] - 1 /\ v[i] = v[i - 1] + f[i] * Weight[i - 1]
      BY <1>1, <2>2
    <3> HIDE DEF Good
    <3>2. v[i] <= Weight[i] - 1
      BY <1>2, <3>1
    <3>3. QED
      BY <1>2, <3>2 DEF Good
  <2>3. Good \in SUBSET (0..Layers)
    OBVIOUS
  <2> HIDE DEF Good
  <2>4. QED
    BY <1>0, <2>1, <2>2, <2>3, CountingUp
<1>4. ASSUME NEW top \in 0..Layers, \A j \in 1..top : f[j] = LayerTries - 1
      PROVE  \A i \in 0..top : v[i] = Weight[i] - 1
  <2> DEFINE Full == {i \in 0..top : v[i] = Weight[i] - 1}
  <2>1. 0 \in Full
    BY <1>0, <1>1, Weights
  <2>2. ASSUME NEW i \in 1..top, i - 1 \in Full PROVE i \in Full
    <3>1. /\ v[i - 1] = Weight[i - 1] - 1 /\ v[i] = v[i - 1] + f[i] * Weight[i - 1]
          /\ f[i] = LayerTries - 1 /\ i \in 1..Layers
      BY <1>0, <1>1, <1>4, <2>2
    <3> HIDE DEF Full
    <3>2. v[i] = Weight[i] - 1
      BY <1>2, <3>1
    <3>3. QED
      BY <3>2 DEF Full
  <2>3. Full \in SUBSET (0..top) /\ top \in Nat
    BY <1>0
  <2> HIDE DEF Full
  <2>4. Full = 0..top
    BY <2>1, <2>2, <2>3, CountingUp
  <2>5. QED
    BY <2>4 DEF Full
<1>5. QED
  BY <1>3, <1>4 DEF v

\* A failed attempt climbs: the layers that have given up start from nothing,
\* the next one has one failure more, and together that is one hit more.
LEMMA OneHitMore ==
    ASSUME NEW f \in [1..Layers -> 0..LayerTries - 1], NEW top \in 0..Layers, top # Layers,
           \A j \in 1..top : f[j] = LayerTries - 1, f[top + 1] < LayerTries - 1,
           NEW g, g = [i \in 1..Layers |-> IF i <= top THEN 0
                                           ELSE IF i = top + 1 THEN f[i] + 1 ELSE f[i]]
    PROVE  LayerSums(g)[Layers] = LayerSums(f)[Layers] + 1
<1> DEFINE v == LayerSums(f)
           u == LayerSums(g)
<1>0. Layers \in Nat /\ LayerTries \in Nat /\ LayerTries > 0 /\ top \in Nat
  BY ChainAssumption
<1>1. /\ v \in [0..Layers -> Nat] /\ v[0] = 0
      /\ \A i \in 1..Layers : v[i] = v[i - 1] + f[i] * Weight[i - 1]
  <2>1. f \in [1..Layers -> Nat]
    BY <1>0
  <2>2. QED
    BY <2>1, LayerSum
<1>2. /\ u \in [0..Layers -> Nat] /\ u[0] = 0
      /\ \A i \in 1..Layers : u[i] = u[i - 1] + g[i] * Weight[i - 1]
  <2>1. g \in [1..Layers -> Nat]
    BY <1>0
  <2>2. QED
    BY <2>1, LayerSum
<1>3. \A i \in 0..top : v[i] = Weight[i] - 1
  BY SumBelowWeight
<1> HIDE DEF u, v
<1>4. \A i \in 0..Layers : Weight[i] \in Nat
  BY Weights
<1> DEFINE Ahead == {i \in 0..Layers : u[i] = IF i <= top THEN 0 ELSE v[i] + 1}
<1>5. 0 \in Ahead
  BY <1>0, <1>2
<1>6. ASSUME NEW i \in 1..Layers, i - 1 \in Ahead PROVE i \in Ahead
  <2>0. /\ i - 1 \in 0..Layers /\ i \in 0..Layers /\ Weight[i - 1] \in Nat /\ f[i] \in Nat
        /\ v[i] \in Nat /\ v[i - 1] \in Nat /\ u[i] \in Nat /\ u[i - 1] \in Nat
    <3>1. i - 1 \in 0..Layers /\ i \in 0..Layers /\ f[i] \in Nat
      BY <1>0
    <3>2. QED
      BY <1>1, <1>2, <1>4, <3>1
  <2>1. /\ u[i] = u[i - 1] + g[i] * Weight[i - 1] /\ v[i] = v[i - 1] + f[i] * Weight[i - 1]
        /\ u[i - 1] = IF i - 1 <= top THEN 0 ELSE v[i - 1] + 1
    BY <1>1, <1>2, <1>6
  <2> HIDE DEF Ahead
  <2>2. CASE i <= top
    <3>1. g[i] = 0 /\ u[i - 1] = 0
      BY <1>0, <2>0, <2>1, <2>2
    <3>2. u[i] = 0
      BY <2>0, <2>1, <3>1
    <3>3. QED
      BY <2>0, <2>2, <3>2 DEF Ahead
  <2>3. CASE i = top + 1
    <3>1. g[i] = f[i] + 1 /\ u[i - 1] = 0 /\ i - 1 \in 0..top
      BY <1>0, <2>0, <2>1, <2>3
    <3>2. v[i - 1] = Weight[i - 1] - 1
      BY <1>3, <3>1
    <3>3. \A a, w \in Nat : (a + 1) * w = a * w + w /\ a * w \in Nat
      OBVIOUS
    <3>4. (f[i] + 1) * Weight[i - 1] = f[i] * Weight[i - 1] + Weight[i - 1] /\ f[i] * Weight[i - 1] \in Nat
      BY <2>0, <3>3
    <3>5. u[i] = u[i - 1] + (f[i] + 1) * Weight[i - 1]
      BY <2>1, <3>1
    <3>6. PICK p \in Nat : p = f[i] * Weight[i - 1]
      BY <3>4
    <3>7. v[i] = v[i - 1] + p /\ u[i] = u[i - 1] + (p + Weight[i - 1])
      BY <2>1, <3>4, <3>5, <3>6
    <3>8. u[i] = v[i] + 1
      <4>1. u[i] = p + Weight[i - 1] /\ v[i] = Weight[i - 1] - 1 + p
        BY <2>0, <3>1, <3>2, <3>7
      <4>2. QED
        BY ONLY <2>0, <3>6, <4>1
    <3>9. ~ (i <= top)
      BY <1>0, <2>3
    <3>10. QED
      BY <2>0, <3>8, <3>9 DEF Ahead
  <2>4. CASE i > top + 1
    <3>1. g[i] = f[i] /\ u[i - 1] = v[i - 1] + 1 /\ ~ (i <= top)
      BY <1>0, <2>0, <2>1, <2>4
    <3>2. \A a, w \in Nat : a * w \in Nat
      OBVIOUS
    <3>3. f[i] * Weight[i - 1] \in Nat
      BY <2>0, <3>2
    <3>4. PICK p \in Nat : p = f[i] * Weight[i - 1]
      BY <3>3
    <3>5. v[i] = v[i - 1] + p /\ u[i] = u[i - 1] + p
      BY <2>1, <3>1, <3>4
    <3>6. u[i] = v[i] + 1
      BY ONLY <2>0, <3>1, <3>4, <3>5
    <3>7. QED
      BY <2>0, <3>1, <3>6 DEF Ahead
  <2>5. QED
    BY <1>0, <2>2, <2>3, <2>4
<1>7. Ahead = 0..Layers
  <2>1. Ahead \in SUBSET (0..Layers)
    OBVIOUS
  <2> HIDE DEF Ahead
  <2>2. QED
    BY <1>0, <1>5, <1>6, <2>1, CountingUp
<1>8. Layers \in Ahead /\ ~ (Layers <= top)
  BY <1>0, <1>7
<1>9. QED
  BY <1>8 DEF u, v

LEMMA HitsUnderWayIs == \A q : HitsUnderWay(q) = LayerSums(failedTries[q])[Layers]
  BY Zenon DEF HitsUnderWay, LayerSums

ChainInv == ChainTypeOK /\ HitsAreTheProduct

LEMMA InitChain == ChainInit => ChainInv
<1> SUFFICES ASSUME ChainInit PROVE ChainInv
  OBVIOUS
<1>0. Layers \in Nat /\ LayerTries \in Nat \ {0} /\ 0 \in 0..LayerTries - 1
  BY ChainAssumption
<1>1. [i \in 1..Layers |-> 0] \in [1..Layers -> 0..LayerTries - 1]
  BY <1>0
<1>2. failedTries \in [Logical -> [1..Layers -> 0..LayerTries - 1]]
  BY <1>1 DEF ChainInit
<1>3. ChainTypeOK
  BY <1>2 DEF ChainInit, ChainTypeOK
<1> DEFINE none == [i \in 1..Layers |-> 0]
           v == LayerSums(none)
<1>4. v[0] = 0 /\ \A i \in 1..Layers : v[i] = v[i - 1] + none[i] * Weight[i - 1]
  <2>1. none \in [1..Layers -> Nat]
    OBVIOUS
  <2> HIDE DEF none
  <2>2. QED
    BY <2>1, LayerSum
<1>5. \A i \in 1..Layers : none[i] = 0
  OBVIOUS
<1> HIDE DEF v, none
<1>6. v[Layers] = 0
  <2> DEFINE Zero == {i \in 0..Layers : v[i] = 0}
  <2>1. 0 \in Zero
    BY <1>0, <1>4
  <2>2. ASSUME NEW i \in 1..Layers, i - 1 \in Zero PROVE i \in Zero
    <3>1. i - 1 \in 0..Layers /\ i \in 0..Layers
      BY <1>0
    <3>2. Weight[i - 1] \in Nat
      BY <3>1, Weights
    <3>3. v[i] = 0
      BY <1>4, <1>5, <2>2, <3>2
    <3>4. QED
      BY <3>1, <3>3
  <2>3. Zero \in SUBSET (0..Layers)
    OBVIOUS
  <2> HIDE DEF Zero
  <2>4. Zero = 0..Layers
    BY <1>0, <2>1, <2>2, <2>3, CountingUp
  <2>5. QED
    BY <1>0, <2>4 DEF Zero
<1>7. ASSUME NEW q \in Logical
      PROVE  answer[q] = 0 /\ upstreamHits[q] = 0 /\ failedTries[q] = none
  BY <1>7 DEF ChainInit, none
<1>8. \A q \in Logical : HitsUnderWay(q) = 0
  BY <1>6, <1>7, HitsUnderWayIs DEF v
<1>9. Weight[Layers] \in Nat
  BY <1>0, Weights
<1>10. HitsAreTheProduct
  BY <1>7, <1>8, <1>9 DEF HitsAreTheProduct
<1>11. QED
  BY <1>3, <1>10 DEF ChainInv

LEMMA NextChain == ChainInv /\ [ChainNext]_chainVars => ChainInv'
<1> SUFFICES ASSUME ChainInv, [ChainNext]_chainVars PROVE ChainInv'
  OBVIOUS
<1>0. /\ Layers \in Nat /\ LayerTries \in Nat \ {0} /\ Weight[Layers] \in Nat
      /\ upstreamUp \in BOOLEAN
      /\ failedTries \in [Logical -> [1..Layers -> 0..LayerTries - 1]]
      /\ answer \in [Logical -> {0, 200, 503}]
      /\ upstreamHits \in [Logical -> Nat]
  BY ChainAssumption, Weights DEF ChainInv, ChainTypeOK
<1>1. ASSUME failedTries' = failedTries, upstreamHits' = upstreamHits, answer' = answer,
             upstreamUp' \in BOOLEAN
      PROVE  ChainInv'
  <2>1. ChainTypeOK'
    BY <1>0, <1>1 DEF ChainTypeOK
  <2>2. \A q : HitsUnderWay(q)' = HitsUnderWay(q)
    BY <1>1 DEF HitsUnderWay
  <2>3. QED
    BY <1>1, <2>1, <2>2 DEF ChainInv, HitsAreTheProduct
<1>2. ASSUME NEW q \in Logical, answer[q] = 0
      PROVE  /\ upstreamHits[q] = LayerSums(failedTries[q])[Layers]
             /\ upstreamHits[q] <= Weight[Layers] - 1
  <2>1. upstreamHits[q] = LayerSums(failedTries[q])[Layers]
    BY <1>2, HitsUnderWayIs DEF ChainInv, HitsAreTheProduct
  <2>2. failedTries[q] \in [1..Layers -> 0..LayerTries - 1] /\ Layers \in 0..Layers
    BY <1>0
  <2>3. LayerSums(failedTries[q])[Layers] <= Weight[Layers] - 1
    BY <2>2, SumBelowWeight
  <2>4. QED
    BY <2>1, <2>3
<1>3. ASSUME NEW q \in Logical, HitSucceeds(q) PROVE ChainInv'
  <2>1. /\ answer[q] = 0 /\ upstreamHits' = [upstreamHits EXCEPT ![q] = @ + 1]
        /\ answer' = [answer EXCEPT ![q] = 200] /\ UNCHANGED <<upstreamUp, failedTries>>
    BY <1>3 DEF HitSucceeds
  <2>2. ChainTypeOK'
    BY <1>0, <2>1 DEF ChainTypeOK
  <2>3. \A r : HitsUnderWay(r)' = HitsUnderWay(r)
    BY <2>1 DEF HitsUnderWay
  <2>4. ASSUME NEW r \in Logical
        PROVE  /\ answer'[r] = 503 => upstreamHits'[r] = Weight[Layers]
               /\ upstreamHits'[r] <= Weight[Layers]
               /\ answer'[r] = 0 => upstreamHits'[r] = HitsUnderWay(r)
    <3>1. CASE r = q
      BY <1>0, <1>2, <2>1, <3>1
    <3>2. CASE r # q
      <4>1. answer'[r] = answer[r] /\ upstreamHits'[r] = upstreamHits[r]
        BY <1>0, <2>1, <3>2
      <4>2. QED
        BY <4>1 DEF ChainInv, HitsAreTheProduct
    <3>3. QED
      BY <3>1, <3>2
  <2>5. QED
    BY <2>2, <2>3, <2>4 DEF ChainInv, HitsAreTheProduct
<1>4. ASSUME NEW q \in Logical, HitFails(q) PROVE ChainInv'
  <2>0. PICK top : top = Max(GivesUpTo(q))
    OBVIOUS
  <2> DEFINE f == failedTries[q]
             g == [i \in 1..Layers |-> IF i <= top THEN 0
                                       ELSE IF i = top + 1 THEN f[i] + 1 ELSE f[i]]
  <2>1. /\ answer[q] = 0 /\ upstreamHits' = [upstreamHits EXCEPT ![q] = @ + 1]
        /\ failedTries' = [failedTries EXCEPT ![q] = g]
        /\ answer' = IF top = Layers THEN [answer EXCEPT ![q] = 503] ELSE answer
        /\ UNCHANGED upstreamUp
    BY <1>0, <1>4, <2>0 DEF HitFails
  <2>2. /\ top \in 0..Layers /\ \A j \in 1..top : f[j] = LayerTries - 1
        /\ \A i \in 1..Layers : i = top + 1 => f[i] < LayerTries - 1
    <3>1. ChainTypeOK
      BY DEF ChainInv
    <3>2. /\ top \in 0..Layers /\ \A j \in 1..top : Exhausted(q, j)
          /\ \A i \in 1..Layers : i = top + 1 => failedTries[q][i] < LayerTries - 1
      BY <2>0, <3>1, TopHasATry
    <3>3. QED
      BY <3>2 DEF Exhausted
  <2>3. f \in [1..Layers -> 0..LayerTries - 1]
    BY <1>0
  <2>4. \A i \in 1..Layers : f[i] \in 0..LayerTries - 1
    BY <2>3
  <2> HIDE DEF f
  <2>5. g \in [1..Layers -> 0..LayerTries - 1]
    <3>1. ASSUME NEW i \in 1..Layers
          PROVE  (IF i <= top THEN 0 ELSE IF i = top + 1 THEN f[i] + 1 ELSE f[i]) \in 0..LayerTries - 1
      <4>1. f[i] \in 0..LayerTries - 1 /\ (i = top + 1 => f[i] < LayerTries - 1)
        BY <2>2, <2>4
      <4>2. QED
        BY <1>0, <4>1
    <3>2. QED
      BY <3>1
  <2>6. PICK next : next = g
    OBVIOUS
  <2>7. ChainTypeOK'
    <3>1. failedTries' \in [Logical -> [1..Layers -> 0..LayerTries - 1]]
      <4> HIDE DEF g
      <4>1. QED
        BY <1>0, <2>1, <2>5
    <3>2. answer' \in [Logical -> {0, 200, 503}] /\ upstreamHits' \in [Logical -> Nat]
      BY <1>0, <2>1
    <3>3. QED
      BY <1>0, <2>1, <3>1, <3>2 DEF ChainTypeOK
  <2>8. /\ failedTries'[q] = g /\ upstreamHits'[q] = upstreamHits[q] + 1
        /\ \A r \in Logical : r # q => /\ failedTries'[r] = failedTries[r]
                                       /\ upstreamHits'[r] = upstreamHits[r]
                                       /\ answer'[r] = answer[r]
    <3> HIDE DEF g
    <3>1. QED
      BY <1>0, <2>1
  <2>9. \A r : HitsUnderWay(r)' = LayerSums(failedTries'[r])[Layers]
    BY Zenon DEF HitsUnderWay, LayerSums
  <2>10. top = Layers => answer'[q] = 503 /\ upstreamHits'[q] = Weight[Layers]
    <3>1. ASSUME top = Layers PROVE LayerSums(f)[Layers] = Weight[Layers] - 1
      <4>1. Layers \in 0..top
        BY <1>0, <3>1
      <4>2. QED
        BY <2>2, <2>3, <4>1, SumBelowWeight
    <3> HIDE DEF g
    <3>2. top = Layers => answer'[q] = 503
      BY <1>0, <2>1
    <3>3. upstreamHits[q] = LayerSums(f)[Layers]
      BY <1>2, <2>1 DEF f
    <3>4. QED
      BY <1>0, <2>8, <3>1, <3>2, <3>3
  <2>11. top # Layers => answer'[q] = 0 /\ upstreamHits'[q] = LayerSums(g)[Layers]
    <3>1. ASSUME top # Layers PROVE LayerSums(g)[Layers] = LayerSums(f)[Layers] + 1
      <4>1. top + 1 \in 1..Layers
        BY <1>0, <2>2, <3>1
      <4>2. f[top + 1] < LayerTries - 1
        BY <2>2, <4>1
      <4>3. next = [i \in 1..Layers |-> IF i <= top THEN 0
                                        ELSE IF i = top + 1 THEN f[i] + 1 ELSE f[i]]
        BY <2>6
      <4>4. LayerSums(next)[Layers] = LayerSums(f)[Layers] + 1
        BY <2>2, <2>3, <3>1, <4>2, <4>3, OneHitMore
      <4>5. QED
        BY <2>6, <4>4
    <3> HIDE DEF g
    <3>2. upstreamHits[q] = LayerSums(f)[Layers]
      BY <1>2, <2>1 DEF f
    <3>3. QED
      BY <2>1, <2>8, <3>1, <3>2
  <2>12. upstreamHits'[q] <= Weight[Layers]
    BY <1>0, <1>2, <2>1, <2>8
  <2> HIDE DEF g
  <2>13. ASSUME NEW r \in Logical
         PROVE  /\ answer'[r] = 503 => upstreamHits'[r] = Weight[Layers]
                /\ upstreamHits'[r] <= Weight[Layers]
                /\ answer'[r] = 0 => upstreamHits'[r] = HitsUnderWay(r)'
    <3>1. CASE r = q
      BY <2>8, <2>9, <2>10, <2>11, <2>12, <3>1
    <3>2. CASE r # q
      <4>1. HitsUnderWay(r)' = HitsUnderWay(r)
        BY <2>8, <2>9, <3>2, HitsUnderWayIs
      <4>2. QED
        BY <2>8, <3>2, <4>1 DEF ChainInv, HitsAreTheProduct
    <3>3. QED
      BY <3>1, <3>2
  <2>14. QED
    BY <2>7, <2>13 DEF ChainInv, HitsAreTheProduct
<1>5. CASE UNCHANGED chainVars
  BY <1>0, <1>1, <1>5 DEF chainVars
<1>6. CASE UpstreamRecovers
  BY <1>1, <1>6 DEF UpstreamRecovers
<1>7. QED
  BY <1>3, <1>4, <1>5, <1>6 DEF ChainNext

LEMMA ChainHolds == ChainSpec => []ChainInv
  BY InitChain, NextChain, PTL DEF ChainSpec

-----------------------------------------------------------------------------
(***************************************************************************)
(* UpstreamLoad: the limiters                                              *)
(***************************************************************************)
LogKeeps ==
    \A t \in 0..LastTick :
       before["sliding_log"][t + Window] - before["sliding_log"][t] <= AdmitLimit

\* What the bucket has let through since tick t and still holds: no more than
\* its capacity and what has flowed in.
BucketKeeps ==
    \A t \in 0..tick : \A s \in t..tick :
       (before["token_bucket"][s + 1] - before["token_bucket"][t]) * Window
          + (IF s = tick THEN tokens ELSE 0)
       <= AdmitLimit * Window + AdmitLimit * (s - t)

\* In a window it counts by, the fixed window admits no more than its limit,
\* and in the current one no more than it has counted.
CounterKeeps ==
    \A w \in Nat : \A a \in Ticks : \A b \in Ticks :
       a = w * Window /\ b = a + Window =>
          /\ before["fixed_window"][b] - before["fixed_window"][a] <= AdmitLimit
          /\ a <= tick /\ tick < b =>
                before["fixed_window"][b] - before["fixed_window"][a] <= windowCount

LimitInv ==
    /\ LimitTypeOK
    /\ \A l \in Limiter : \A s \in Ticks : \A t \in Ticks :
          /\ s <= t => before[l][s] <= before[l][t]
          /\ s > tick /\ t > tick => before[l][s] = before[l][t]
    /\ LogKeeps /\ BucketKeeps /\ CounterKeeps

LEMMA LimitNumbers ==
    /\ Window \in Nat /\ Window > 0 /\ AdmitLimit \in Nat /\ AdmitLimit > 0
    /\ LastTick \in Nat /\ PerTick \in Nat
    /\ AdmitLimit * Window \in Nat
<1>1. Window \in Nat \ {0} /\ AdmitLimit \in Nat \ {0} /\ LastTick \in Nat \ {0} /\ PerTick \in Nat \ {0}
  BY LimitAssumption
<1>2. \A a, b \in Nat : a * b \in Nat
  OBVIOUS
<1>3. QED
  BY <1>1, <1>2

LEMMA Names ==
    "fixed_window" \in Limiter /\ "sliding_log" \in Limiter /\ "token_bucket" \in Limiter
  BY DEF Limiter

LEMMA LimitState ==
    ASSUME LimitTypeOK
    PROVE  /\ tick \in Nat /\ tick <= LastTick /\ burst \in 0..PerTick /\ windowCount \in Nat
           /\ tokens \in Nat /\ tokens <= AdmitLimit * Window
           /\ \A l \in Limiter : \A t \in Ticks : before[l][t] \in Nat
           /\ \A t \in 0..tick + 1 : t \in Ticks
           /\ \A t \in 0..LastTick : t \in Ticks /\ t + Window \in Ticks
<1>1. /\ tick \in 0..LastTick /\ burst \in 0..PerTick /\ windowCount \in Nat
      /\ tokens \in 0..AdmitLimit * Window
      /\ before \in [Limiter -> [Ticks -> Nat]]
  BY DEF LimitTypeOK
<1>2. ASSUME NEW l \in Limiter, NEW t \in Ticks PROVE before[l][t] \in Nat
  <2>1. before[l] \in [Ticks -> Nat]
    BY <1>1
  <2>2. QED
    BY <2>1
<1>3. \A t \in 0..tick + 1 : t \in Ticks
  BY <1>1, LimitNumbers DEF Ticks
<1>4. \A t \in 0..LastTick : t \in Ticks /\ t + Window \in Ticks
  BY LimitNumbers DEF Ticks
<1>5. QED
  BY <1>1, <1>2, <1>3, <1>4, LimitNumbers

LEMMA InitLimit == LimitInit => LimitInv
<1> SUFFICES ASSUME LimitInit PROVE LimitInv
  OBVIOUS
<1>1. PICK cap \in Nat : cap = AdmitLimit * Window
  BY LimitNumbers
<1>2. LimitTypeOK
  BY <1>1, LimitNumbers DEF LimitInit, LimitTypeOK
<1>3. \A l \in Limiter : \A t \in Ticks : before[l][t] = 0
  BY DEF LimitInit
<1>4. LogKeeps
  BY <1>2, <1>3, LimitState, LimitNumbers, Names DEF LogKeeps
<1>5. BucketKeeps
  <2>1. ASSUME NEW t \in 0..tick, NEW s \in t..tick
        PROVE  (before["token_bucket"][s + 1] - before["token_bucket"][t]) * Window
                  + (IF s = tick THEN tokens ELSE 0)
               <= AdmitLimit * Window + AdmitLimit * (s - t)
    <3>1. s = 0 /\ t = 0 /\ tick = 0 /\ tokens = cap
      BY <1>1 DEF LimitInit
    <3>2. s + 1 \in Ticks /\ t \in Ticks
      BY <1>2, <3>1, LimitState
    <3>3. before["token_bucket"][s + 1] = 0 /\ before["token_bucket"][t] = 0
      BY <1>3, <3>2, Names
    <3>4. (before["token_bucket"][s + 1] - before["token_bucket"][t]) * Window = 0
          /\ AdmitLimit * (s - t) = 0
      BY <3>1, <3>3, LimitNumbers
    <3>5. QED
      BY <1>1, <3>1, <3>4
  <2>2. QED
    BY <2>1 DEF BucketKeeps
<1>6. CounterKeeps
  <2>1. ASSUME NEW a \in Ticks, NEW b \in Ticks
        PROVE  before["fixed_window"][b] - before["fixed_window"][a] = 0
    BY <1>3, Names
  <2>2. windowCount = 0
    BY DEF LimitInit
  <2>3. QED
    BY <2>1, <2>2, LimitNumbers DEF CounterKeeps
<1>7. QED
  BY <1>2, <1>3, <1>4, <1>5, <1>6 DEF LimitInv

LEMMA ArrivalKeeps == LimitInv /\ Arrival => LimitInv'
<1> SUFFICES ASSUME LimitInv, Arrival PROVE LimitInv'
  OBVIOUS
<1>0. /\ tick \in Nat /\ tick <= LastTick /\ burst \in 0..PerTick /\ windowCount \in Nat
      /\ tokens \in Nat /\ tokens <= AdmitLimit * Window
      /\ \A l \in Limiter : \A t \in Ticks : before[l][t] \in Nat
      /\ \A t \in 0..tick + 1 : t \in Ticks
      /\ \A t \in 0..LastTick : t \in Ticks /\ t + Window \in Ticks
  BY LimitState DEF LimitInv
<1>1. /\ Window \in Nat /\ Window > 0 /\ AdmitLimit \in Nat /\ LastTick \in Nat /\ PerTick \in Nat
      /\ AdmitLimit * Window \in Nat
  BY LimitNumbers
<1>2. /\ burst < PerTick /\ burst' = burst + 1 /\ windowCount' = windowCount + 1
      /\ tokens' = IF BucketAdmits THEN tokens - Window ELSE tokens
      /\ tick' = tick
  BY DEF Arrival
<1>3. ASSUME NEW l \in Limiter, NEW t \in Ticks
      PROVE  before'[l][t] = IF Admitting(l) /\ t > tick THEN before[l][t] + 1 ELSE before[l][t]
  BY DEF Arrival
<1>4. \A t \in Ticks : t \in Nat
  BY DEF Ticks
<1>5. LimitTypeOK'
  <2>1. before' \in [Limiter -> [Ticks -> Nat]]
    <3>1. ASSUME NEW l \in Limiter
          PROVE  [t \in Ticks |-> IF Admitting(l) /\ t > tick THEN before[l][t] + 1 ELSE before[l][t]]
                    \in [Ticks -> Nat]
      BY <1>0
    <3>2. QED
      BY <3>1 DEF Arrival
  <2>2. burst' \in 0..PerTick /\ tokens' \in 0..AdmitLimit * Window
    <3>1. PICK cap \in Nat : cap = AdmitLimit * Window
      BY <1>1
    <3>2. QED
      BY <1>0, <1>1, <1>2, <3>1 DEF BucketAdmits
  <2>3. tick' \in 0..LastTick /\ windowCount' \in Nat
    BY <1>0, <1>1, <1>2
  <2>4. QED
    BY <2>1, <2>2, <2>3 DEF LimitTypeOK
<1>6. ASSUME NEW l \in Limiter, NEW s \in Ticks, NEW t \in Ticks
      PROVE  /\ s <= t => before'[l][s] <= before'[l][t]
             /\ s > tick' /\ t > tick' => before'[l][s] = before'[l][t]
  <2>1. /\ s <= t => before[l][s] <= before[l][t]
        /\ s > tick /\ t > tick => before[l][s] = before[l][t]
    BY DEF LimitInv
  <2>2. before[l][s] \in Nat /\ before[l][t] \in Nat /\ s \in Nat /\ t \in Nat
    BY <1>0, <1>4
  <2>3. QED
    BY <1>0, <1>2, <1>3, <2>1, <2>2
<1>7. LogKeeps'
  <2> SUFFICES ASSUME NEW t \in 0..LastTick
               PROVE  before'["sliding_log"][t + Window] - before'["sliding_log"][t] <= AdmitLimit
    BY DEF LogKeeps
  <2>1. /\ t \in Ticks /\ t + Window \in Ticks /\ tick + 1 \in Ticks /\ Oldest \in Ticks
        /\ Oldest \in Nat
    BY <1>0, <1>1 DEF Oldest
  <2> DEFINE b == before["sliding_log"]
  <2>2. /\ b[t] \in Nat /\ b[t + Window] \in Nat /\ b[tick + 1] \in Nat /\ b[Oldest] \in Nat
        /\ b[t + Window] - b[t] <= AdmitLimit
    BY <1>0, <2>1, Names DEF LimitInv, LogKeeps
  <2>3. /\ t + Window > tick => b[t + Window] = b[tick + 1]
        /\ Oldest <= t => b[Oldest] <= b[t]
    <3>1. \A i, j \in Ticks : /\ i <= j => b[i] <= b[j]
                              /\ i > tick /\ j > tick => b[i] = b[j]
      BY Names DEF LimitInv
    <3>2. tick + 1 > tick
      BY <1>0
    <3> HIDE DEF b
    <3>3. QED
      BY <2>1, <3>1, <3>2
  <2>4. /\ before'["sliding_log"][t] = IF LogAdmits /\ t > tick THEN b[t] + 1 ELSE b[t]
        /\ before'["sliding_log"][t + Window]
              = IF LogAdmits /\ t + Window > tick THEN b[t + Window] + 1 ELSE b[t + Window]
    BY <1>3, <2>1, Names DEF Admitting
  <2>5. LogAdmits => b[tick + 1] - b[Oldest] < AdmitLimit
    BY DEF LogAdmits, LogLength
  <2> HIDE DEF b
  <2>6. t + Window > tick => Oldest <= t
    BY <1>0, <1>1 DEF Oldest
  <2>7. QED
    BY <1>0, <1>1, <2>2, <2>3, <2>4, <2>5, <2>6
<1>8. BucketKeeps'
  <2> SUFFICES ASSUME NEW t \in 0..tick, NEW s \in t..tick
               PROVE  (before'["token_bucket"][s + 1] - before'["token_bucket"][t]) * Window
                         + (IF s = tick THEN tokens' ELSE 0)
                      <= AdmitLimit * Window + AdmitLimit * (s - t)
    BY <1>2 DEF BucketKeeps
  <2>1. t \in Ticks /\ s + 1 \in Ticks /\ t \in Nat /\ s \in Nat
    BY <1>0
  <2> DEFINE b == before["token_bucket"]
  <2>2. /\ b[t] \in Nat /\ b[s + 1] \in Nat
        /\ (b[s + 1] - b[t]) * Window + (IF s = tick THEN tokens ELSE 0)
              <= AdmitLimit * Window + AdmitLimit * (s - t)
    BY <1>0, <2>1, Names DEF LimitInv, BucketKeeps
  <2>3. /\ before'["token_bucket"][t] = b[t]
        /\ before'["token_bucket"][s + 1]
              = IF BucketAdmits /\ s = tick THEN b[s + 1] + 1 ELSE b[s + 1]
    <3>1. ~ (t > tick) /\ (s + 1 > tick <=> s = tick)
      BY <1>0, <2>1
    <3>2. QED
      BY <1>3, <2>1, <3>1, Names DEF Admitting
  <2> HIDE DEF b
  <2>4. CASE BucketAdmits /\ s = tick
    <3>1. (b[s + 1] + 1 - b[t]) * Window = (b[s + 1] - b[t]) * Window + Window
      <4>1. \A x \in Int : \A w \in Nat : (x + 1) * w = x * w + w
        OBVIOUS
      <4>2. b[s + 1] - b[t] \in Int /\ b[s + 1] + 1 - b[t] = (b[s + 1] - b[t]) + 1
        BY <2>2
      <4>3. QED
        BY <1>1, <4>1, <4>2
    <3>2. tokens' = tokens - Window
      BY <1>2, <2>4
    <3>3. PICK x \in Int, y \in Int :
             x = (b[s + 1] - b[t]) * Window /\ y = AdmitLimit * Window + AdmitLimit * (s - t)
      <4>1. \A c, d \in Int : c * d \in Int
        OBVIOUS
      <4>2. b[s + 1] - b[t] \in Int /\ s - t \in Int
        BY <2>1, <2>2
      <4>3. QED
        BY <1>1, <4>1, <4>2
    <3>4. QED
      BY <1>0, <1>1, <2>2, <2>3, <2>4, <3>1, <3>2, <3>3
  <2>5. CASE ~ (BucketAdmits /\ s = tick)
    <3>1. s = tick => tokens' = tokens
      BY <1>2, <2>5
    <3>2. QED
      BY <2>2, <2>3, <2>5, <3>1
  <2>6. QED
    BY <2>4, <2>5
<1>9. CounterKeeps'
  <2> SUFFICES ASSUME NEW w \in Nat, NEW a \in Ticks, NEW c \in Ticks, a = w * Window, c = a + Window
               PROVE  /\ before'["fixed_window"][c] - before'["fixed_window"][a] <= AdmitLimit
                      /\ a <= tick /\ tick < c =>
                            before'["fixed_window"][c] - before'["fixed_window"][a] <= windowCount'
    BY <1>2 DEF CounterKeeps
  <2> DEFINE b == before["fixed_window"]
  <2>1. /\ a \in Nat /\ c \in Nat /\ b[a] \in Nat /\ b[c] \in Nat
        /\ b[c] - b[a] <= AdmitLimit
        /\ a <= tick /\ tick < c => b[c] - b[a] <= windowCount
    BY <1>0, <1>4, Names DEF LimitInv, CounterKeeps
  <2>2. /\ before'["fixed_window"][a] = IF FixedAdmits /\ a > tick THEN b[a] + 1 ELSE b[a]
        /\ before'["fixed_window"][c] = IF FixedAdmits /\ c > tick THEN b[c] + 1 ELSE b[c]
    BY <1>3, Names DEF Admitting
  <2> HIDE DEF b
  <2>3. QED
    BY <1>0, <1>1, <1>2, <2>1, <2>2 DEF FixedAdmits
<1>10. QED
  BY <1>5, <1>6, <1>7, <1>8, <1>9 DEF LimitInv

\* Multiples of the window: the next tick begins a new one exactly if it is one.
LEMMA NewWindow ==
    ASSUME NEW n \in Nat, NEW w \in Nat
    PROVE  /\ n = w * Window => n % Window = 0
           /\ n % Window = 0 /\ w * Window <= n /\ n < w * Window + Window => n = w * Window
<1>1. Window \in Nat /\ Window > 0
  BY LimitNumbers
<1>2. PICK k \in Nat, r \in 0..Window - 1 : n = k * Window + r /\ r = n % Window
  <2>1. /\ n \div Window \in Nat /\ n % Window \in 0..Window - 1
        /\ n = (n \div Window) * Window + (n % Window)
    BY <1>1
  <2>2. QED
    BY <2>1
<1>3. \A i, j \in Nat : i < j => i * Window + Window <= j * Window
  <2>1. ASSUME NEW i \in Nat, NEW j \in Nat, i < j PROVE i * Window + Window <= j * Window
    <3>1. PICK d \in Nat : j = i + 1 + d
      <4>1. j - i - 1 \in Nat /\ j = i + 1 + (j - i - 1)
        BY <2>1
      <4>2. QED
        BY <4>1
    <3>2. \A u, v \in Nat : (u + 1 + v) * Window = u * Window + Window + v * Window /\ v * Window \in Nat
                            /\ u * Window \in Nat
      BY <1>1
    <3>3. j * Window = i * Window + Window + d * Window /\ d * Window \in Nat /\ i * Window \in Nat
      BY <3>1, <3>2
    <3>4. QED
      BY <1>1, <3>3
  <2>2. QED
    BY <2>1
<1>4. k * Window \in Nat /\ w * Window \in Nat
  <2>1. \A i \in Nat : i * Window \in Nat
    BY <1>1
  <2>2. QED
    BY <2>1
<1>5. PICK x \in Nat, y \in Nat : x = k * Window /\ y = w * Window
  BY <1>4
<1>6. k < w \/ k = w \/ w < k
  OBVIOUS
<1>7. (k < w => x + Window <= y) /\ (w < k => y + Window <= x) /\ (k = w => x = y)
  BY <1>3, <1>5
<1>8. ASSUME n = w * Window PROVE n % Window = 0
  BY <1>1, <1>2, <1>5, <1>6, <1>7, <1>8
<1>9. ASSUME n % Window = 0, w * Window <= n, n < w * Window + Window PROVE n = w * Window
  BY <1>1, <1>2, <1>5, <1>6, <1>7, <1>9
<1>10. QED
  BY <1>8, <1>9

LEMMA TickKeeps == LimitInv /\ NextTick => LimitInv'
<1> SUFFICES ASSUME LimitInv, NextTick PROVE LimitInv'
  OBVIOUS
<1>0. /\ tick \in Nat /\ tick <= LastTick /\ burst \in 0..PerTick /\ windowCount \in Nat
      /\ tokens \in Nat /\ tokens <= AdmitLimit * Window
      /\ \A l \in Limiter : \A t \in Ticks : before[l][t] \in Nat
      /\ \A t \in 0..tick + 1 : t \in Ticks
      /\ \A t \in 0..LastTick : t \in Ticks /\ t + Window \in Ticks
  BY LimitState DEF LimitInv
<1>1. /\ Window \in Nat /\ Window > 0 /\ AdmitLimit \in Nat /\ LastTick \in Nat /\ PerTick \in Nat
      /\ AdmitLimit * Window \in Nat
  BY LimitNumbers
<1>2. /\ tick < LastTick /\ tick' = tick + 1 /\ burst' = 0 /\ before' = before
      /\ windowCount' = IF (tick + 1) % Window = 0 THEN 0 ELSE windowCount
  BY DEF NextTick
<1>3. tokens' \in Nat /\ tokens' <= AdmitLimit * Window /\ tokens' <= tokens + AdmitLimit
  <2>1. PICK cap \in Nat : cap = AdmitLimit * Window
    BY <1>1
  <2>2. tokens' = Min({cap, tokens + AdmitLimit})
    BY <2>1 DEF NextTick
  <2>3. {cap, tokens + AdmitLimit} \in SUBSET Nat /\ {cap, tokens + AdmitLimit} # {}
    BY <1>0, <1>1
  <2>4. /\ Min({cap, tokens + AdmitLimit}) \in {cap, tokens + AdmitLimit}
        /\ \A n \in {cap, tokens + AdmitLimit} : Min({cap, tokens + AdmitLimit}) <= n
    BY <2>3, MinOfNumbers
  <2>5. QED
    BY <1>0, <1>1, <2>1, <2>2, <2>3, <2>4
<1>4. \A t \in Ticks : t \in Nat
  BY DEF Ticks
<1>5. LimitTypeOK'
  <2>1. before' \in [Limiter -> [Ticks -> Nat]]
    BY <1>2 DEF LimitInv, LimitTypeOK
  <2>2. tick' \in 0..LastTick /\ burst' \in 0..PerTick /\ windowCount' \in Nat
    BY <1>0, <1>1, <1>2
  <2>3. tokens' \in 0..AdmitLimit * Window
    <3>1. PICK cap \in Nat : cap = AdmitLimit * Window
      BY <1>1
    <3>2. QED
      BY <1>3, <3>1
  <2>4. QED
    BY <2>1, <2>2, <2>3 DEF LimitTypeOK
<1>6. ASSUME NEW l \in Limiter, NEW s \in Ticks, NEW t \in Ticks
      PROVE  /\ s <= t => before'[l][s] <= before'[l][t]
             /\ s > tick' /\ t > tick' => before'[l][s] = before'[l][t]
  <2>1. /\ s <= t => before[l][s] <= before[l][t]
        /\ s > tick /\ t > tick => before[l][s] = before[l][t]
    BY DEF LimitInv
  <2>2. s \in Nat /\ t \in Nat
    BY <1>4
  <2>3. QED
    BY <1>0, <1>2, <2>1, <2>2
<1>7. LogKeeps'
  BY <1>2 DEF LimitInv, LogKeeps
<1>8. BucketKeeps'
  <2> SUFFICES ASSUME NEW t \in 0..tick + 1, NEW s \in t..tick + 1
               PROVE  (before["token_bucket"][s + 1] - before["token_bucket"][t]) * Window
                         + (IF s = tick + 1 THEN tokens' ELSE 0)
                      <= AdmitLimit * Window + AdmitLimit * (s - t)
    BY <1>2 DEF BucketKeeps
  <2> DEFINE b == before["token_bucket"]
             Goal == (b[s + 1] - b[t]) * Window + (IF s = tick + 1 THEN tokens' ELSE 0)
                        <= AdmitLimit * Window + AdmitLimit * (s - t)
  <2>1. t \in Nat /\ s \in Nat /\ t \in Ticks /\ s + 1 \in Ticks /\ tick + 1 \in Ticks
    <3>1. tick + 1 \in 0..LastTick
      BY <1>0, <1>1, <1>2
    <3>2. s + 1 \in 0..LastTick + Window
      BY <1>0, <1>1, <3>1
    <3>3. QED
      BY <1>0, <3>1, <3>2 DEF Ticks
  <2>2. b[t] \in Nat /\ b[s + 1] \in Nat /\ b[tick + 1] \in Nat
    BY <1>0, <2>1, Names
  <2>3. \A c, d \in Int : c * d \in Int
    OBVIOUS
  <2>4. CASE t = tick + 1
    <3>1. s = t /\ b[s + 1] = b[t]
      <4>1. s = t
        BY <1>0, <2>4
      <4>2. s + 1 > tick /\ t > tick
        BY <1>0, <2>4, <4>1
      <4>3. QED
        BY <2>1, <4>1, <4>2, Names DEF LimitInv
    <3>2. (b[s + 1] - b[t]) * Window = 0 /\ AdmitLimit * (s - t) = 0
      <4>1. b[s + 1] - b[t] = 0 /\ s - t = 0
        BY <2>1, <2>2, <3>1
      <4>2. 0 * Window = 0 /\ AdmitLimit * 0 = 0
        BY <1>1
      <4>3. QED
        BY <4>1, <4>2
    <3>3. s = tick + 1
      BY <2>4, <3>1
    <3> HIDE DEF b
    <3>4. Goal
      BY <1>1, <1>3, <3>2, <3>3
    <3>5. QED
      BY <3>4 DEF b
  <2>5. CASE t # tick + 1 /\ s # tick + 1
    <3>1. t \in 0..tick /\ s \in t..tick
      BY <1>0, <2>5
    <3>2. (b[s + 1] - b[t]) * Window + (IF s = tick THEN tokens ELSE 0)
             <= AdmitLimit * Window + AdmitLimit * (s - t)
      BY <3>1 DEF LimitInv, BucketKeeps
    <3>3. (b[s + 1] - b[t]) * Window \in Int /\ AdmitLimit * (s - t) \in Int
      <4>1. b[s + 1] - b[t] \in Int /\ s - t \in Int
        BY <2>1, <2>2
      <4>2. QED
        BY <1>1, <2>3, <4>1
    <3> HIDE DEF b
    <3>4. PICK x \in Int, y \in Int, z \in Nat :
             x = (b[s + 1] - b[t]) * Window /\ y = AdmitLimit * (s - t) /\ z = AdmitLimit * Window
      BY <1>1, <3>3
    <3>5. x <= z + y
      BY <1>0, <3>2, <3>4
    <3>6. Goal
      BY <2>5, <3>4, <3>5
    <3>7. QED
      BY <3>6 DEF b
  <2>6. CASE t # tick + 1 /\ s = tick + 1
    <3>1. t \in 0..tick /\ tick \in t..tick
      BY <1>0, <2>6
    <3>2. (b[tick + 1] - b[t]) * Window + tokens <= AdmitLimit * Window + AdmitLimit * (tick - t)
      BY <3>1 DEF LimitInv, BucketKeeps
    <3>3. b[s + 1] = b[tick + 1]
      <4>1. s + 1 > tick /\ tick + 1 > tick
        BY <1>0, <2>6
      <4>2. QED
        BY <2>1, <4>1, Names DEF LimitInv
    <3>4. AdmitLimit * (s - t) = AdmitLimit * (tick - t) + AdmitLimit
      <4>1. \A x \in Int : AdmitLimit * (x + 1) = AdmitLimit * x + AdmitLimit
        BY <1>1
      <4>2. s - t = (tick - t) + 1 /\ tick - t \in Int
        BY <1>0, <2>1, <2>6
      <4>3. QED
        BY <4>1, <4>2
    <3>5. (b[tick + 1] - b[t]) * Window \in Int /\ AdmitLimit * (tick - t) \in Int
      <4>1. b[tick + 1] - b[t] \in Int /\ tick - t \in Int
        BY <1>0, <2>1, <2>2
      <4>2. QED
        BY <1>1, <2>3, <4>1
    <3> HIDE DEF b
    <3>6. PICK x \in Int, y \in Int, z \in Nat :
             /\ x = (b[tick + 1] - b[t]) * Window /\ y = AdmitLimit * (tick - t)
             /\ z = AdmitLimit * Window
      BY <1>1, <3>5
    <3>7. x + tokens <= z + y
      BY <3>2, <3>6
    <3>8. x + tokens' <= z + (y + AdmitLimit)
      BY <1>0, <1>1, <1>3, <3>6, <3>7
    <3>9. Goal
      <4>1. (b[s + 1] - b[t]) * Window = x /\ AdmitLimit * (s - t) = y + AdmitLimit
        BY <3>3, <3>4, <3>6
      <4>2. QED
        BY <2>6, <3>6, <3>8, <4>1
    <3>10. QED
      BY <3>9 DEF b
  <2>7. QED
    BY <2>4, <2>5, <2>6
<1>9. CounterKeeps'
  <2> SUFFICES ASSUME NEW w \in Nat, NEW a \in Ticks, NEW c \in Ticks, a = w * Window, c = a + Window
               PROVE  /\ before["fixed_window"][c] - before["fixed_window"][a] <= AdmitLimit
                      /\ a <= tick + 1 /\ tick + 1 < c =>
                            before["fixed_window"][c] - before["fixed_window"][a] <= windowCount'
    BY <1>2 DEF CounterKeeps
  <2> DEFINE b == before["fixed_window"]
  <2>1. /\ a \in Nat /\ c \in Nat /\ b[a] \in Nat /\ b[c] \in Nat
        /\ b[c] - b[a] <= AdmitLimit
        /\ a <= tick /\ tick < c => b[c] - b[a] <= windowCount
        /\ a > tick /\ c > tick => b[c] = b[a]
    BY <1>0, <1>4, Names DEF LimitInv, CounterKeeps
  <2> HIDE DEF b
  <2>2. ASSUME a <= tick + 1, tick + 1 < c PROVE b[c] - b[a] <= windowCount'
    <3>1. CASE (tick + 1) % Window = 0
      <4>1. tick + 1 = a
        BY <1>0, <2>2, <3>1, NewWindow
      <4>2. b[c] = b[a]
        BY <1>0, <2>1, <2>2, <4>1
      <4>3. QED
        BY <1>2, <2>1, <3>1, <4>2
    <3>2. CASE (tick + 1) % Window # 0
      <4>1. tick + 1 # a
        BY <1>0, <3>2, NewWindow
      <4>2. a <= tick /\ tick < c
        BY <1>0, <2>1, <2>2, <4>1
      <4>3. QED
        BY <1>2, <2>1, <3>2, <4>2
    <3>3. QED
      BY <3>1, <3>2
  <2>3. QED
    BY <2>1, <2>2 DEF b
<1>10. QED
  BY <1>5, <1>6, <1>7, <1>8, <1>9 DEF LimitInv

LEMMA LimitHolds == LimitSpec => []LimitInv
<1>1. LimitInv /\ UNCHANGED limitVars => LimitInv'
  BY DEF LimitInv, LimitTypeOK, LogKeeps, BucketKeeps, CounterKeeps, limitVars
<1>2. QED
  BY <1>1, InitLimit, ArrivalKeeps, TickKeeps, PTL DEF LimitSpec, LimitNext

\* What the invariant says of any window: a window overlaps at most two of the
\* fixed ones.
LEMMA LimitBounds == LimitInv => WindowsAreBounded
<1> SUFFICES ASSUME LimitInv PROVE WindowsAreBounded
  OBVIOUS
<1>0. /\ tick \in Nat /\ tick <= LastTick /\ tokens \in Nat
      /\ \A l \in Limiter : \A t \in Ticks : before[l][t] \in Nat
      /\ \A t \in 0..tick + 1 : t \in Ticks
      /\ \A t \in 0..LastTick : t \in Ticks /\ t + Window \in Ticks
  BY LimitState DEF LimitInv
<1>1. /\ Window \in Nat /\ Window > 0 /\ AdmitLimit \in Nat /\ LastTick \in Nat
      /\ AdmitLimit * Window \in Nat
  BY LimitNumbers
<1>2. \A t \in Ticks : t \in Nat
  BY DEF Ticks
<1>3. ASSUME NEW t \in 0..LastTick PROVE AdmittedFrom("sliding_log", t) <= AdmitLimit
  BY DEF LimitInv, LogKeeps, AdmittedFrom
<1>4. ASSUME NEW t \in 0..LastTick
      PROVE  AdmittedFrom("token_bucket", t) * Window
                <= AdmitLimit * Window + AdmitLimit * (Window - 1)
  <2> DEFINE b == before["token_bucket"]
  <2>1. /\ t \in Nat /\ t \in Ticks /\ t + Window \in Ticks /\ tick + 1 \in Ticks
        /\ b[t] \in Nat /\ b[t + Window] \in Nat /\ b[tick + 1] \in Nat
    BY <1>0, <1>2, Names
  <2>2. \A c, d \in Nat : c * d \in Nat
    OBVIOUS
  <2>3. AdmittedFrom("token_bucket", t) = b[t + Window] - b[t]
    BY DEF AdmittedFrom
  <2>4. \A c, d \in Nat : c <= d => AdmitLimit * c <= AdmitLimit * d
    BY <1>1
  <2>5. CASE t + Window <= tick
    <3>1. t \in 0..tick /\ t + Window - 1 \in t..tick
      BY <1>0, <1>1, <2>1, <2>5
    <3>2. PICK s \in t..tick : s = t + Window - 1
      BY <3>1
    <3>3. (b[s + 1] - b[t]) * Window + (IF s = tick THEN tokens ELSE 0)
             <= AdmitLimit * Window + AdmitLimit * (s - t)
      BY <3>1 DEF LimitInv, BucketKeeps
    <3>4. (b[t + Window] - b[t]) * Window + 0 <= AdmitLimit * Window + AdmitLimit * (Window - 1)
      <4>1. s # tick /\ s + 1 = t + Window /\ s - t = Window - 1
        BY <1>0, <1>1, <2>1, <2>5, <3>2
      <4> HIDE DEF b
      <4>2. QED
        BY ONLY <3>3, <4>1
    <3> HIDE DEF b
    <3>5. \A c, d \in Int : c * d \in Int
      OBVIOUS
    <3>6. (b[t + Window] - b[t]) * Window \in Int
      BY <1>1, <2>1, <3>5
    <3>7. QED
      BY <2>3, <3>4, <3>6
  <2>6. CASE ~ (t + Window <= tick) /\ t <= tick
    <3>1. t \in 0..tick /\ tick \in t..tick
      BY <1>0, <2>1, <2>6
    <3>2. (b[tick + 1] - b[t]) * Window + (IF tick = tick THEN tokens ELSE 0)
             <= AdmitLimit * Window + AdmitLimit * (tick - t)
      BY <3>1 DEF LimitInv, BucketKeeps
    <3>3. b[t + Window] = b[tick + 1]
      <4>1. t + Window > tick /\ tick + 1 > tick
        BY <1>0, <1>1, <2>1, <2>6
      <4>2. QED
        BY <2>1, <4>1, Names DEF LimitInv
    <3>4. AdmitLimit * (tick - t) <= AdmitLimit * (Window - 1)
      <4>1. tick - t \in Nat /\ Window - 1 \in Nat /\ tick - t <= Window - 1
        BY <1>0, <1>1, <2>1, <2>6
      <4>2. QED
        BY <2>4, <4>1
    <3>5. \A c, d \in Int : c * d \in Int
      OBVIOUS
    <3>6. (b[tick + 1] - b[t]) * Window \in Int /\ AdmitLimit * (tick - t) \in Int
          /\ AdmitLimit * (Window - 1) \in Int
      <4>1. b[tick + 1] - b[t] \in Int /\ tick - t \in Int /\ Window - 1 \in Int
        BY <1>0, <1>1, <2>1
      <4>2. QED
        BY <1>1, <3>5, <4>1
    <3> HIDE DEF b
    <3>7. QED
      BY <1>0, <1>1, <2>3, <3>2, <3>3, <3>4, <3>6
  <2>7. CASE t > tick
    <3>1. b[t + Window] = b[t]
      <4>1. t + Window > tick
        BY <1>0, <1>1, <2>1, <2>7
      <4>2. QED
        BY <2>1, <2>7, <4>1, Names DEF LimitInv
    <3>2. b[t + Window] - b[t] = 0 /\ 0 * Window = 0
      BY <1>1, <2>1, <3>1
    <3>3. Window - 1 \in Nat
      BY <1>1
    <3>4. AdmitLimit * (Window - 1) \in Nat
      BY <1>1, <2>2, <3>3
    <3>5. QED
      BY <1>1, <2>3, <3>2, <3>4
  <2>8. QED
    BY <1>0, <2>1, <2>5, <2>6, <2>7
<1>5. ASSUME NEW t \in 0..LastTick PROVE AdmittedFrom("fixed_window", t) <= 2 * AdmitLimit
  <2> DEFINE b == before["fixed_window"]
  <2>1. PICK k \in Nat, r \in 0..Window - 1 : t = k * Window + r
    <3>1. /\ t \div Window \in Nat /\ t % Window \in 0..Window - 1
          /\ t = (t \div Window) * Window + (t % Window)
      BY <1>1
    <3>2. QED
      BY <3>1
  <2>2. k * Window \in Nat /\ (k + 1) * Window = k * Window + Window
    BY <1>1
  <2>3. PICK x \in Nat : x = k * Window
    BY <2>2
  <2>4. /\ x \in Ticks /\ x + Window \in Ticks /\ t \in Ticks /\ t + Window \in Ticks
        /\ x <= t /\ t <= x + Window
    <3>1. x \in 0..LastTick
      BY <1>1, <2>1, <2>3
    <3>2. QED
      BY <1>0, <1>1, <2>1, <2>3, <3>1
  <2>5. /\ b[x] \in Nat /\ b[x + Window] \in Nat /\ b[t] \in Nat /\ b[t + Window] \in Nat
        /\ b[x] <= b[t]
    BY <1>0, <2>4, Names DEF LimitInv
  <2>6. b[x + Window] - b[x] <= AdmitLimit
    BY <2>3, <2>4 DEF LimitInv, CounterKeeps
  <2>7. CASE x + Window + Window \in Ticks
    <3>1. x + Window = (k + 1) * Window /\ k + 1 \in Nat
      BY <1>1, <2>2, <2>3
    <3>2. b[x + Window + Window] - b[x + Window] <= AdmitLimit
      BY <2>4, <2>7, <3>1 DEF LimitInv, CounterKeeps
    <3>3. t + Window <= x + Window + Window
      BY <1>1, <2>3, <2>4
    <3>4. b[t + Window] <= b[x + Window + Window] /\ b[x + Window + Window] \in Nat
      BY <1>0, <2>4, <2>7, <3>3, Names DEF LimitInv
    <3> HIDE DEF b
    <3>5. b[t + Window] - b[t] <= 2 * AdmitLimit
      BY <1>1, <2>5, <2>6, <3>2, <3>4
    <3>6. QED
      BY <3>5 DEF AdmittedFrom, b
  <2>8. CASE x + Window + Window \notin Ticks
    <3>1. x + Window > tick /\ t + Window > tick
      BY <1>0, <1>1, <2>3, <2>4, <2>8 DEF Ticks
    <3>2. b[t + Window] = b[x + Window]
      BY <2>4, <3>1, Names DEF LimitInv
    <3> HIDE DEF b
    <3>3. b[t + Window] - b[t] <= 2 * AdmitLimit
      BY <1>1, <2>5, <2>6, <3>2
    <3>4. QED
      BY <3>3 DEF AdmittedFrom, b
  <2>9. QED
    BY <2>7, <2>8
<1>6. ASSUME NEW w \in 0..LastTick \div Window
      PROVE  AdmittedFrom("fixed_window", w * Window) <= AdmitLimit
  <2>1. PICK k \in Nat, r \in 0..Window - 1 : LastTick = k * Window + r /\ k = LastTick \div Window
    <3>1. /\ LastTick \div Window \in Nat /\ LastTick % Window \in 0..Window - 1
          /\ LastTick = (LastTick \div Window) * Window + (LastTick % Window)
      BY <1>1
    <3>2. QED
      BY <3>1
  <2>2. w \in Nat /\ w <= k
    BY <2>1
  <2>3. \A i, j \in Nat : i <= j => i * Window \in Nat /\ j * Window \in Nat /\ i * Window <= j * Window
    BY <1>1
  <2>4. w * Window \in Nat /\ k * Window \in Nat /\ w * Window <= k * Window
    BY <2>2, <2>3
  <2>5. w * Window \in 0..LastTick
    BY <1>1, <2>1, <2>4
  <2>6. PICK x \in 0..LastTick : x = w * Window
    BY <2>5
  <2>7. x \in Ticks /\ x + Window \in Ticks
    BY <1>0
  <2>8. QED
    BY <2>2, <2>6, <2>7 DEF LimitInv, CounterKeeps, AdmittedFrom
<1>7. QED
  BY <1>3, <1>4, <1>5, <1>6 DEF WindowsAreBounded

-----------------------------------------------------------------------------
(***************************************************************************)
(* The four side by side                                                   *)
(***************************************************************************)

\* Whichever of the four runs, each starts and moves as it does alone.
LEMMA LabParts ==
    /\ LabInit => Init /\ ChainInit /\ LimitInit /\ RetryInit
    /\ [LabNext]_labVars => /\ [Next]_vars /\ [ChainNext]_chainVars
                            /\ [LimitNext]_limitVars /\ [RetryNext]_retryVars
<1>1. UNCHANGED labVars => UNCHANGED <<vars, chainVars, limitVars, retryVars>>
  BY DEF labVars
<1>2. QED
  BY <1>1 DEF LabInit, LabNext

RecoveryInv == TypeInv /\ ChainInv /\ LimitInv /\ RetryInv

LEMMA RecoveryHolds == LabSpec => []RecoveryInv
<1>1. Spec => []TypeInv
  <2>1. Init => TypeInv
    BY InitBudgetInv DEF BudgetInv
  <2>2. QED
    BY <2>1, NextTypeInv, PTL DEF Spec
<1>2. RetrySpec => []RetryInv
  BY InitRetry, NextRetry, PTL DEF RetrySpec
<1>3. LabSpec => Spec /\ ChainSpec /\ LimitSpec /\ RetrySpec
  BY LabParts, PTL DEF LabSpec, Spec, ChainSpec, LimitSpec, RetrySpec
<1>4. TypeInv /\ ChainInv /\ LimitInv /\ RetryInv => RecoveryInv
  BY DEF RecoveryInv
<1>5. QED
  BY <1>1, <1>2, <1>3, <1>4, ChainHolds, LimitHolds, PTL

\* What reaches the upstream can be computed beforehand, for any number of
\* layers and tries, any window and limit, and any script of errors.
THEOREM LoadPredictable == LabSpec => []LoadIsPredictable
<1>1. RecoveryInv => HitsAreTheProduct /\ WindowsAreBounded
  BY LimitBounds DEF RecoveryInv, ChainInv
<1>2. LabSpec => RetrySpec
  BY LabParts, PTL DEF LabSpec, RetrySpec
<1>3. QED
  BY <1>1, <1>2, RecoveryHolds, ClassifyingIsFree, PTL DEF LoadIsPredictable

\* Between callers and an upstream every counter stays in the range the code
\* gives it: no caller and no layer makes one attempt too many, no more probes
\* are in flight than a half-open breaker lets through, a bucket never holds
\* less than nothing or more than its capacity.
THEOREM RecoveryTypes == LabSpec => []LabTypeOK
<1>1. RecoveryInv => LabTypeOK
  BY DEF RecoveryInv, TypeInv, ChainInv, LimitInv, RetryInv, LabTypeOK
<1>2. QED
  BY <1>1, RecoveryHolds, PTL
=============================================================================
