----------------------------- MODULE MCRecovery -----------------------------
(***************************************************************************)
(* What stands between callers and an upstream, side by side: the client   *)
(* with its breaker, the chain of retrying layers, the rate limiters, the  *)
(* two retry policies.  They share nothing: the first state picks one of   *)
(* them, the others stay as they are.                                      *)
(***************************************************************************)
EXTENDS MCResilientClient, UpstreamLoad, RetryPolicy

VARIABLE lab    \* the part that runs

labVars == <<lab, vars, chainVars, limitVars, retryVars>>

LabTypeOK == TypeOK /\ ChainTypeOK /\ LimitTypeOK /\ RetryTypeOK

LabInit ==
    /\ lab \in {"client", "chain", "limits", "policies"}
    /\ Init /\ ChainInit /\ LimitInit /\ RetryInit
    /\ lab # "policies" => \A i \in 1..Attempts : script[i] = "ok"

LabNext ==
    /\ UNCHANGED lab
    /\ \/ lab = "client" /\ Next
       \/ lab = "chain" /\ ChainNext
       \/ lab = "limits" /\ LimitNext
       \/ lab = "policies" /\ RetryNext
    /\ lab # "client" => UNCHANGED vars
    /\ lab # "chain" => UNCHANGED chainVars
    /\ lab # "limits" => UNCHANGED limitVars
    /\ lab # "policies" => UNCHANGED retryVars

\* FairSpec of the client, when it is the one that runs.
LabSpec ==
    /\ LabInit /\ [][LabNext]_labVars
    /\ WF_vars(lab = "client" /\ Tick) /\ WF_vars(lab = "client" /\ Recover)
    /\ \A c \in Client :
        /\ WF_vars(lab = "client" /\ Start(c))
        /\ WF_vars(lab = "client" /\ Call(c))

-----------------------------------------------------------------------------
\* What reaches the upstream can be computed beforehand: a chain multiplies its
\* layers' attempts (resilience_lab.py section 2), each limiter admits what its
\* own rule says in any window (section 5), and classifying the errors saves
\* the repetitions of terminal ones and loses nothing (retry_lab.py).
LoadIsPredictable == HitsAreTheProduct /\ WindowsAreBounded /\ ClassifiedLosesNothing
=============================================================================
