---------------------------- MODULE MCTxCounter ----------------------------
(***************************************************************************)
(* The parts that keep rows and files, side by side: the counter of        *)
(* TxCounter, the two-repository ingest, the cache, the blob store, the    *)
(* incremental pipeline, the schema migration and the search index.  They  *)
(* share nothing: the first state picks one of them, the others stay as    *)
(* they are.                                                               *)
(***************************************************************************)
EXTENDS TxCounter, TxBoundary, ResponseCache, BlobStore, Watermark, Migration,
        IndexFreshness

CONSTANTS t1, t2, t3

ThreeThreads == {t1, t2, t3}
TwoKeys == {"a", "b"}
SameBytes == [d \in 1..4 |-> IF d < 4 THEN "x" ELSE "y"]
SecondFails == {2}

VARIABLE lab    \* the part that runs

labVars == <<lab, vars, txbVars, cacheVars, blobVars, wmVars, migVars, indexVars>>

LabTypeOK ==
    /\ TypeOK /\ TxbTypeOK /\ CacheTypeOK /\ BlobTypeOK
    /\ WMTypeOK /\ MigTypeOK /\ IndexTypeOK

LabInit ==
    /\ lab \in {"counter", "boundary", "cache", "blobs", "watermark", "migration", "index"}
    /\ Init /\ TxbInit /\ CacheInit /\ BlobInit /\ WMInit /\ MigInit /\ IndexInit
    /\ lab # "counter" => strategy = "naive"
    /\ lab # "boundary" => boundary = "outside"
    /\ lab # "cache" => single_flight
    /\ lab # "blobs" => store = [atomic |-> TRUE, blob_first |-> TRUE]
    /\ lab # "migration" => trigger_first

LabNext ==
    /\ UNCHANGED lab
    /\ \/ lab = "counter" /\ Next
       \/ lab = "boundary" /\ TxbNext
       \/ lab = "cache" /\ CacheNext
       \/ lab = "blobs" /\ BlobNext
       \/ lab = "watermark" /\ WMNext
       \/ lab = "migration" /\ MigNext
       \/ lab = "index" /\ IndexNext
    /\ lab # "counter" => UNCHANGED vars
    /\ lab # "boundary" => UNCHANGED txbVars
    /\ lab # "cache" => UNCHANGED cacheVars
    /\ lab # "blobs" => UNCHANGED blobVars
    /\ lab # "watermark" => UNCHANGED wmVars
    /\ lab # "migration" => UNCHANGED migVars
    /\ lab # "index" => UNCHANGED indexVars

\* Only the threads of the counter are promised to run: a started thread runs.
LabSpec ==
    /\ LabInit /\ [][LabNext]_labVars
    /\ \A t \in Thread : WF_vars(lab = "counter" /\ Step(t))

-----------------------------------------------------------------------------
\* Every thread of the counter finishes, whichever strategy it follows.
CounterFinishes == lab = "counter" => EveryoneFinishes
=============================================================================
