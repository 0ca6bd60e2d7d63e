----------------------------- MODULE Watermark -----------------------------
(***************************************************************************)
(* The incremental pipeline of store-lab/pipeline_lab.py: four cursors,    *)
(* A: fetched_at >, B: fetched_at >=, C: (fetched_at, doc_id) >,           *)
(* D: ingest_seq >, run over the same table while documents arrive late,   *)
(* tied or with a skewed timestamp.                                        *)
(*                                                                         *)
(* ingest_seq is the place in raw.  A run reads what has arrived, records  *)
(* it as processed and moves its cursor, in one transaction.               *)
(***************************************************************************)
EXTENDS Naturals, Sequences, FiniteSetsExt

CONSTANTS
    RawDoc,         \* doc_id, as numbers: the code compares them
    Stamp,          \* values of fetched_at
    MaxRuns         \* bound

ASSUME WatermarkAssumption ==
    /\ RawDoc \subseteq Nat \ {0} /\ IsFiniteSet(RawDoc)
    /\ Stamp \subseteq Nat \ {0} /\ IsFiniteSet(Stamp)
    /\ MaxRuns \in Nat

VARIABLES
    raw,        \* the table raw, in the order of ingest_seq
    visible,    \* how much of it the last run saw
    processed,  \* processed[s][i]: how often strategy s has processed raw[i]
    cursor,     \* the row of each strategy in cursor_
    runs

wmVars == <<raw, visible, processed, cursor, runs>>

WMStrategy == {"A", "B", "C", "D"}

WMTypeOK ==
    /\ raw \in Seq([doc : RawDoc, ts : Stamp])
    /\ visible \in 0..Len(raw)
    /\ processed \in [WMStrategy -> [RawDoc -> 0..MaxRuns]]
    /\ cursor \in [WMStrategy -> [ts : Stamp \cup {0}, doc : RawDoc \cup {0}, seq : Nat]]
    /\ runs \in 0..MaxRuns

WMInit ==
    /\ raw = <<>>
    /\ visible = 0
    /\ processed = [s \in WMStrategy |-> [d \in RawDoc |-> 0]]
    /\ cursor = [s \in WMStrategy |-> [ts |-> 0, doc |-> 0, seq |-> 0]]
    /\ runs = 0

\* INSERT INTO raw: any time, any timestamp
Insert(d, ts) ==
    /\ \A i \in DOMAIN raw : raw[i].doc # d
    /\ raw' = Append(raw, [doc |-> d, ts |-> ts])
    /\ UNCHANGED <<visible, processed, cursor, runs>>

\* a comparison on arrival order that lets the cursor's own row in again
Selects_Inclusive(s, i) ==
    CASE s = "A" -> raw[i].ts > cursor[s].ts
      [] s = "B" -> raw[i].ts >= cursor[s].ts
      [] s = "C" -> \/ raw[i].ts > cursor[s].ts
                    \/ raw[i].ts = cursor[s].ts /\ raw[i].doc > cursor[s].doc
      [] s = "D" -> i >= cursor[s].seq

\* STRATEGIES[s]: the WHERE clause on row i
Selects(s, i) ==
    CASE s = "A" -> raw[i].ts > cursor[s].ts
      [] s = "B" -> raw[i].ts >= cursor[s].ts
      [] s = "C" -> \/ raw[i].ts > cursor[s].ts
                    \/ raw[i].ts = cursor[s].ts /\ raw[i].doc > cursor[s].doc
      [] s = "D" -> i > cursor[s].seq

\* a cursor moved to the last row that was read
Moved_LastRow(s, rows) ==
    IF rows = {} THEN cursor[s]
    ELSE [ts |-> raw[Max(rows)].ts, doc |-> raw[Max(rows)].doc, seq |-> Max(rows)]

\* UPDATE cursor_, if there were rows: three maxima, each taken by itself
Moved(s, rows) ==
    IF rows = {} THEN cursor[s]
    ELSE [ts |-> Max({raw[i].ts : i \in rows}),
          doc |-> Max({raw[i].doc : i \in rows}),
          seq |-> Max(rows)]

\* one run of every strategy over the rows that have arrived
PipelineRun ==
    LET Batch(s) == {i \in DOMAIN raw : Selects(s, i)}
    IN  /\ runs < MaxRuns
        /\ runs' = runs + 1
        /\ visible' = Len(raw)
        /\ processed' = [s \in WMStrategy |-> [d \in RawDoc |->
                IF \E i \in Batch(s) : raw[i].doc = d
                THEN processed[s][d] + 1 ELSE processed[s][d]]]
        /\ cursor' = [s \in WMStrategy |-> Moved(s, Batch(s))]
        /\ UNCHANGED raw

WMNext == PipelineRun \/ \E d \in RawDoc, ts \in Stamp : Insert(d, ts)

WMSpec == WMInit /\ [][WMNext]_wmVars

-----------------------------------------------------------------------------
(***************************************************************************)
(* Properties                                                              *)
(***************************************************************************)

Seen == {raw[i].doc : i \in 1..visible}

Missed(s) == {d \in Seen : processed[s][d] = 0}

\* "Drive the cursor from arrival order": D processes every document that a run
\* could see, once, whatever its timestamp.
ArrivalOrderLosesNothing == \A d \in RawDoc : processed["D"][d] = IF d \in Seen THEN 1 ELSE 0

\* The three cursors on a timestamp agree on it: it is the newest timestamp any
\* run has seen, however wrong that is.  So ">=" loses no more than the pair,
\* and the pair no more than ">"; the documents B loses are older than the
\* cursor; those that only C or only A lose tie with it or with an older one.
LossesAreNested ==
    /\ \A s \in {"A", "B", "C"} :
        cursor[s].ts = Max({0} \cup {raw[i].ts : i \in 1..visible})
    /\ Missed("B") \subseteq Missed("C") /\ Missed("C") \subseteq Missed("A")
    /\ \A i \in 1..visible :
        /\ raw[i].doc \in Missed("B") =>
            \E j \in 1..i - 1 : raw[j].ts > raw[i].ts
        /\ raw[i].doc \in Missed("A") \ Missed("B") =>
            \E j \in 1..i - 1 : raw[j].ts = raw[i].ts
        /\ raw[i].doc \in Missed("C") \ Missed("B") =>
            \E j \in 1..i - 1 : raw[j].doc > raw[i].doc

\* Arrival order misses nothing, and what the cursors on a timestamp miss is
\* nested.
CursorsAreSound == ArrivalOrderLosesNothing /\ LossesAreNested
=============================================================================
