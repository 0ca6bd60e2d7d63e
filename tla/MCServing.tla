------------------------------ MODULE MCServing ------------------------------
(***************************************************************************)
(* What a client of the service gets back, side by side: the answers of    *)
(* the idempotent endpoint, a streamed HTTP response, a streamed           *)
(* extraction, the reads and writes of two tenants, a search and the span  *)
(* its results are ranked by.  They share nothing: the first state picks   *)
(* one of them, the others stay as they are.                               *)
(***************************************************************************)
EXTENDS MCIdempotentEndpoint, HttpStream, StreamCommit, Tenancy,
        Retrieval

FirstOnly == {1}
Owners == [x \in {"a1", "a2", "b1"} |-> IF x = "b1" THEN "b" ELSE "a"]

\* One neighbour, which makes regions that cannot be left, or two, the farther
\* first: it is kept, and may then have to give up its place.
OneOrTwo == {<<n>> : n \in 1..4} \cup {l \in (1..4) \X (1..4) : l[1] > l[2]}
SearchSizes == {1, 2, 4}

VARIABLE lab    \* the part that runs

labVars == <<lab, vars, streamVars, consumerVars, tenVars, graphVars, windowVars>>

LabTypeOK ==
    /\ TypeOK /\ StreamTypeOK /\ ConsumerTypeOK /\ TenTypeOK
    /\ GraphTypeOK /\ WindowTypeOK

LabInit ==
    /\ lab \in {"endpoint", "http", "consumer", "tenants", "search", "window"}
    /\ Init /\ StreamInit /\ ConsumerInit /\ TenInit
    /\ lab # "search" => /\ graph = [n \in Node |-> IF n = 1 THEN <<2>> ELSE <<1>>]
                         /\ entry = 1 /\ ef = 1
    /\ lab # "window" => text = [p \in 1..Places |-> IF p = 1 THEN "t1" ELSE "t2"]
    /\ GraphInit /\ WindowInit
    /\ lab # "endpoint" => policy = Configured("none", "wait", FALSE)
    /\ lab # "http" => response = [route |-> "buffered", flush |-> 1, sentinel |-> FALSE]
    /\ lab # "consumer" => consumer = "safe"
    /\ lab # "tenants" => fixedApi

LabNext ==
    /\ UNCHANGED lab
    /\ \/ lab = "endpoint" /\ Next
       \/ lab = "http" /\ StreamNext
       \/ lab = "consumer" /\ ConsumerNext
       \/ lab = "tenants" /\ TenNext
       \/ lab = "search" /\ GraphNext
       \/ lab = "window" /\ WindowNext
    /\ lab # "endpoint" => UNCHANGED vars
    /\ lab # "http" => UNCHANGED streamVars
    /\ lab # "consumer" => UNCHANGED consumerVars
    /\ lab # "tenants" => UNCHANGED tenVars
    /\ lab # "search" => UNCHANGED graphVars
    /\ lab # "window" => UNCHANGED windowVars

\* A handler thread of the endpoint runs until it has answered.
LabSpec ==
    /\ LabInit /\ [][LabNext]_labVars
    /\ \A r \in Request : WF_vars(lab = "endpoint" /\ Handle(r))

-----------------------------------------------------------------------------
\* What is handed out is whole, or says that it is not: the end marker comes
\* after everything (http_lab.py), what a client that left costs is what the
\* buffers hold, only a finished and validated text becomes a row
\* (stream_lab.py), a search with room for its region answers exactly
\* (ann_lab.py), and the span a text is ranked by is the smallest it has
\* (rerank_lab.py).
WhatIsServedIsWhole ==
    /\ SentinelMeansWhole /\ WasteIsTheBuffer /\ NoPartialWrite
    /\ SearchIsExactInItsRegion /\ WindowIsTheSmallest
=============================================================================
