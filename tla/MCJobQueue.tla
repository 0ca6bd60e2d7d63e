----------------------------- MODULE MCJobQueue -----------------------------
(***************************************************************************)
(* The parts that work off a queue, side by side: three workers with       *)
(* leases and a first job that kills the first worker that takes it, the   *)
(* failure queue, the batch scheduler and the event service; and what a    *)
(* deployment of them is made of: its settings and its dependencies.  They *)
(* share nothing: the first state picks one, the others stay as they are.  *)
(***************************************************************************)
EXTENDS JobQueue, FailureQueue, BatchScheduler, EventService, ConfigResolve,
        DependencyPins

CONSTANTS w1, w2, w3

ThreeWorkers == {w1, w2, w3}
FirstJob == {1}
ThreePoison == {2, 3, 5}
Lengths == <<3, 1, 2, 1, 3>>
PromptPieces == <<1, 2, 1, 1, 2>>
ThreeReleases == <<0, 1, 3>>
SecondCanaried == <<0, 1, 0>>

\* One setting of each type; the file leaves out two of them.
Settings == {"temperature", "log_level", "debug", "timeout"}
Types == [temperature |-> "float", log_level |-> "str", debug |-> "bool", timeout |-> "int"]
FileConfig == [log_level |-> "info", debug |-> "true"]
Defaults == [temperature |-> Typed("float", "0"), log_level |-> Text("warning"),
             debug |-> Typed("bool", FALSE), timeout |-> Typed("int", "30")]

\* A pinned package that another one needs, shared dependencies, one that
\* nothing needs.
Packages == {"httpx", "httpcore", "certifi", "anyio", "h11", "unused"}
Deps == [httpx |-> <<"httpcore", "certifi", "anyio">>, httpcore |-> <<"h11", "certifi">>,
         anyio |-> <<"h11">>, certifi |-> <<>>, h11 |-> <<>>, unused |-> <<"h11">>]
Pins == [httpx |-> 1, anyio |-> 1]
RequirementsFile == <<"httpx", "anyio">>

VARIABLE lab    \* the part that runs

labVars == <<lab, vars, fqVars, schedVars, svVars, cfgVars, pinVars>>

LabTypeOK == TypeOK /\ FqTypeOK /\ SchedTypeOK /\ SvTypeOK /\ CfgTypeOK /\ PinTypeOK

LabInit ==
    /\ lab \in {"jobs", "failures", "batches", "service", "settings", "pins"}
    /\ Init /\ FqInit /\ SchedInit /\ SvInit /\ CfgInit /\ PinInit
    /\ lab # "jobs" => ~use_lease
    /\ lab # "failures" => fqPolicy = ParkAtOnce
    /\ lab # "batches" => sched = [policy |-> "none", chunked |-> FALSE]

LabNext ==
    /\ UNCHANGED lab
    /\ \/ lab = "jobs" /\ Next
       \/ lab = "failures" /\ FqNext
       \/ lab = "batches" /\ SchedNext
       \/ lab = "service" /\ SvNext
       \/ lab = "settings" /\ CfgNext
       \/ lab = "pins" /\ PinNext
    /\ lab # "jobs" => UNCHANGED vars
    /\ lab # "failures" => UNCHANGED fqVars
    /\ lab # "batches" => UNCHANGED schedVars
    /\ lab # "service" => UNCHANGED svVars
    /\ lab # "settings" => UNCHANGED cfgVars
    /\ lab # "pins" => UNCHANGED pinVars

\* Only the job workers and their supervisor are promised to run.
LabSpec ==
    /\ LabInit /\ [][LabNext]_labVars
    /\ WF_vars(lab = "jobs" /\ Sweep)
    /\ \A w \in Worker : WF_vars(lab = "jobs" /\ Step(w))

-----------------------------------------------------------------------------
\* Bad neighbours are contained: a poison item costs the others nothing once it
\* is parked (dlq_lab.py), and a long sequence holds up nobody but itself where
\* sequences leave a batch on their own (batching_lab.py).
NeighboursAreServed == PoisonIsContained /\ NobodyWaitsForLongest

\* What an operator reads later about an event or a failure is what happened:
\* a replay adds no second row and drops none (dlq_lab.py), and the stamp of an
\* event names the behaviour that produced it where its date does not (ops.py).
EventsAreAccountable == ReplayAddsNothing /\ HistoryIsAttributable

\* What a deployment says of itself holds of what it runs: a variable that is
\* set decides its setting or stops the start (secrets_lab.py), and two builds
\* of the same pins differ only in what no pin names (build_lab.py).
DeploysSayWhatTheyRun == StrictIsPresence /\ PinsAreNotALock
=============================================================================
