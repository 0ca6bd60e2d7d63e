----------------------------- MODULE RetryPolicy -----------------------------
(***************************************************************************)
(* Two retry policies against the same failures, and the table their       *)
(* retries write to: model-interface-lab/retry_lab.py.  The script of the  *)
(* provider says how each attempt ends; a terminal error "produces the     *)
(* same rejection however many times you send it".  A timeout is the       *)
(* transient error whose work was done: its row is written, by the other   *)
(* side, before the caller gives up waiting.  Delays are left out.         *)
(***************************************************************************)
EXTENDS Naturals, FiniteSets

CONSTANT Attempts       \* the argument of both policies

ASSUME PolicyAssumption == Attempts \in Nat \ {0}

RetryPolicies == {"naive", "classified"}
CallOutcome == {"ok", "transient", "timeout", "terminal"}

\* SCRIPTS: what the provider raises, call by call
Scripts ==
    {s \in [1..Attempts -> CallOutcome] :
       \A i \in 1..Attempts - 1 : s[i] \in {"ok", "terminal"} => s[i + 1] = s[i]}

VARIABLES
    script,
    callsMade,  \* stats["calls"] of each policy
    verdict,    \* how its run ended: ok or gave_up
    plainRows,  \* rows of an EventTable without keys
    keyedRows   \* rows of one with the key doc:v1

retryVars == <<script, callsMade, verdict, plainRows, keyedRows>>

RetryTypeOK ==
    /\ script \in Scripts
    /\ callsMade \in [RetryPolicies -> 0..Attempts]
    /\ verdict \in [RetryPolicies -> {"running", "ok", "gave_up"}]
    /\ plainRows \in [RetryPolicies -> 0..Attempts]
    /\ keyedRows \in [RetryPolicies -> 0..Attempts]

RetryInit ==
    /\ script \in Scripts
    /\ callsMade = [p \in RetryPolicies |-> 0]
    /\ verdict = [p \in RetryPolicies |-> "running"]
    /\ plainRows = callsMade /\ keyedRows = callsMade

Produced(outcome) == outcome \in {"ok", "timeout"}

\* a timeout taken for a terminal error
WorthRetrying_NotTimeout(p, outcome) == p = "naive" \/ outcome = "transient"

\* naive: except ProviderError; classified: if not exc.transient, return
WorthRetrying(p, outcome) == p = "naive" \/ outcome \in {"transient", "timeout"}

\* EventTable.insert with the key of the attempt instead of the work
Inserted_PerAttempt(rows) == rows + 1

\* EventTable.insert with the key of the work
Inserted(rows) == IF rows = 0 THEN 1 ELSE rows

\* one turn of the for loop
AttemptCall(p) ==
    LET n == callsMade[p] + 1
        outcome == script[n]
    IN  /\ verdict[p] = "running"
        /\ callsMade' = [callsMade EXCEPT ![p] = n]
        /\ verdict' = [verdict EXCEPT ![p] =
               CASE outcome = "ok" -> "ok"
                 [] outcome # "ok" /\ WorthRetrying(p, outcome) /\ n < Attempts -> "running"
                 [] OTHER -> "gave_up"]
        /\ IF Produced(outcome)
           THEN /\ plainRows' = [plainRows EXCEPT ![p] = @ + 1]
                /\ keyedRows' = [keyedRows EXCEPT ![p] = Inserted(@)]
           ELSE UNCHANGED <<plainRows, keyedRows>>
        /\ UNCHANGED script

RetryNext == \E p \in RetryPolicies : AttemptCall(p)

RetrySpec == RetryInit /\ [][RetryNext]_retryVars

-----------------------------------------------------------------------------
Settled == \A p \in RetryPolicies : verdict[p] # "running"

TerminalCalls == {i \in 1..Attempts : script[i] = "terminal"}

\* "Same outcomes": classifying the errors changes no verdict and loses no row,
\* and saves exactly the repetitions of a terminal error.  With a key derived
\* from the work there is one row if any attempt got as far as producing one,
\* given up or not, and never two; without a key there is one per such attempt.
ClassifiedLosesNothing ==
    /\ Settled =>
          /\ verdict["classified"] = verdict["naive"]
          /\ plainRows["classified"] = plainRows["naive"]
          /\ callsMade["naive"] - callsMade["classified"] =
                IF TerminalCalls = {} THEN 0 ELSE Cardinality(TerminalCalls) - 1
    /\ \A p \in RetryPolicies :
          /\ keyedRows[p] = IF plainRows[p] = 0 THEN 0 ELSE 1
          /\ plainRows[p] = Cardinality({i \in 1..callsMade[p] : Produced(script[i])})
          /\ verdict[p] = "ok" => keyedRows[p] = 1
=============================================================================
