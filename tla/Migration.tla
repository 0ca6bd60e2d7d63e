----------------------------- MODULE Migration -----------------------------
(***************************************************************************)
(* Expand and contract, store-lab/migrate_lab.py sections 2 and 3: the     *)
(* column `location` of v1 becomes `location_name` for v2 while both       *)
(* versions of the application insert rows.  The backfill runs in batches  *)
(* below a high-water mark; the trigger that writes both columns comes     *)
(* after it ("the order the runbook was written in") or before it ("the    *)
(* order that works").                                                     *)
(***************************************************************************)
EXTENDS FiniteSetsExt, Integers

CONSTANTS
    EventId,        \* a row is inserted under an id its writer chooses
    BatchSize

ASSUME MigrationAssumption ==
    /\ EventId \subseteq Nat \ {0} /\ IsFiniteSet(EventId)
    /\ BatchSize \in Nat \ {0}

VARIABLES
    trigger_first,  \* the order of the phases
    expanded,       \* the new columns exist
    trigger,        \* dual_write_ins exists
    backfill,       \* "before", "running", "done"
    high_water,
    old, new,       \* rows with a location, rows with a location_name
    missedBy        \* history: rows inserted without the trigger after the
                    \* backfill had started

migVars == <<trigger_first, expanded, trigger, backfill, high_water, old, new, missedBy>>

MigTypeOK ==
    /\ trigger_first \in BOOLEAN /\ expanded \in BOOLEAN /\ trigger \in BOOLEAN
    /\ backfill \in {"before", "running", "done"}
    /\ high_water \in EventId \cup {0}
    /\ old \subseteq EventId /\ new \subseteq EventId /\ missedBy \subseteq EventId

MigInit ==
    /\ trigger_first \in BOOLEAN
    /\ expanded = FALSE /\ trigger = FALSE
    /\ backfill = "before"
    /\ high_water = 0
    /\ old = {} /\ new = {} /\ missedBy = {}

\* the verify query: rows the new code cannot see
Orphans == old \ new

\* v1_write: the trigger, once there, fills the new column
V1Write(e) ==
    /\ e \notin old \cup new
    /\ old' = old \cup {e}
    /\ new' = IF trigger THEN new \cup {e} ELSE new
    /\ missedBy' = IF backfill # "before" /\ ~trigger THEN missedBy \cup {e} ELSE missedBy
    /\ UNCHANGED <<trigger_first, expanded, trigger, backfill, high_water>>

\* v2_write: fails while there are no new columns
V2Write(e) ==
    /\ expanded /\ e \notin old \cup new
    /\ new' = new \cup {e}
    /\ UNCHANGED <<trigger_first, expanded, trigger, backfill, high_water, old, missedBy>>

\* phase 1: ALTER TABLE ... ADD COLUMN
Expand ==
    /\ ~expanded
    /\ expanded' = TRUE
    /\ UNCHANGED <<trigger_first, trigger, backfill, high_water, old, new, missedBy>>

\* a mark taken from count(*)
StartBackfill_Counted ==
    /\ expanded /\ backfill = "before"
    /\ trigger_first => trigger
    /\ backfill' = "running"
    /\ high_water' = Cardinality(old \cup new)
    /\ UNCHANGED <<trigger_first, expanded, trigger, old, new, missedBy>>

\* phase 2 starts: max(event_id), the rows that exist when the job starts
StartBackfill ==
    /\ expanded /\ backfill = "before"
    /\ trigger_first => trigger
    /\ backfill' = "running"
    /\ high_water' = Max({0} \cup old \cup new)
    /\ UNCHANGED <<trigger_first, expanded, trigger, old, new, missedBy>>

\* what the next batch has to do
Pending == {e \in Orphans : e <= high_water}

\* one batch: at most BatchSize of the rows that are left, picked by nobody
Backfill ==
    /\ backfill = "running"
    /\ \E batch \in SUBSET Pending :
        /\ Cardinality(batch) = Min({BatchSize, Cardinality(Pending)})
        /\ new' = new \cup batch
        /\ backfill' = IF batch = {} THEN "done" ELSE "running"
    /\ UNCHANGED <<trigger_first, expanded, trigger, high_water, old, missedBy>>

\* phase 3: CREATE TRIGGER dual_write_ins
CreateTrigger ==
    /\ expanded /\ ~trigger
    /\ trigger_first \/ backfill = "done"
    /\ trigger' = TRUE
    /\ UNCHANGED <<trigger_first, expanded, backfill, high_water, old, new, missedBy>>

\* section 3: the backfill again, over the whole table, with the trigger live
Rerun ==
    /\ backfill = "done" /\ trigger /\ Orphans # {}
    /\ new' = old \cup new
    /\ UNCHANGED <<trigger_first, expanded, trigger, backfill, high_water, old, missedBy>>

MigNext ==
    \/ \E e \in EventId : V1Write(e) \/ V2Write(e)
    \/ Expand \/ StartBackfill \/ Backfill \/ CreateTrigger \/ Rerun

MigSpec == MigInit /\ [][MigNext]_migVars

-----------------------------------------------------------------------------
(***************************************************************************)
(* Properties                                                              *)
(***************************************************************************)

\* "Dual-write comes BEFORE backfill.  Then the backfill only has to catch the
\* rows that existed when it started": in that order no row is hidden from v2
\* once it is done, nor will one be, under whatever ids v1 inserts meanwhile.
\* In the lab's order what is hidden was written by v1 between the start of the
\* backfill and the trigger.
OrphansFellInTheGap ==
    backfill = "done" => Orphans \subseteq (IF trigger_first THEN {} ELSE missedBy)
=============================================================================
