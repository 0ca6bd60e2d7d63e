------------------------------- MODULE Outbox -------------------------------
(***************************************************************************)
(* Ingesting a document means storing it and scheduling its extraction     *)
(* (service-lab/jobs_lab.py section 1).  The process may stop between the  *)
(* two writes.  Three write orders are modelled: the row first, the job    *)
(* first, and one transaction that stores the row together with an outbox  *)
(* row, which relay() later turns into a job.                              *)
(*                                                                         *)
(* Transactions follow Python's sqlite3: a statement opens a transaction   *)
(* that the next commit() on that connection closes.  relay() calls        *)
(* enqueue(), which commits, so the UPDATE that marks one outbox row sent  *)
(* is committed together with the job of the next row.                     *)
(***************************************************************************)
EXTENDS Naturals, FiniteSets

CONSTANTS
    Doc,            \* documents, one ingest process each
    Relayer,        \* processes that run relay() again, after a restart or twice
    OrderOf,        \* OrderOf[d]: "row_first", "job_first" or "outbox"
    MaxCrashes,     \* bound: processes stopped between two writes
    None

ASSUME OutboxAssumption ==
    /\ OrderOf \in [Doc -> {"row_first", "job_first", "outbox"}]
    /\ MaxCrashes \in Nat
    /\ Doc \cap Relayer = {}
    /\ None \notin Doc
    /\ IsFiniteSet(Doc) /\ IsFiniteSet(Relayer)

Process == Doc \cup Relayer

ViaOutbox == {d \in Doc : OrderOf[d] = "outbox"}

VARIABLES
    documents,  \* committed rows of `documents`
    outbox,     \* outbox[d]: "none", "unsent" (sent=0) or "sent" (sent=1)
    queued,     \* queued[d]: how many rows of `jobs` name d
    at,         \* at[d]: where the ingest process of d is
    todo,       \* todo[p]: rows of p's SELECT that it has not enqueued yet
    pending,    \* pending[p]: the row whose UPDATE p has yet to commit
    running,    \* running[p]: p is inside relay()
    crashes

vars == <<documents, outbox, queued, at, todo, pending, running, crashes>>

relayVars == <<todo, pending, running>>

TypeOK ==
    /\ documents \subseteq Doc
    /\ outbox \in [Doc -> {"none", "unsent", "sent"}]
    /\ queued \in [Doc -> Nat]
    /\ at \in [Doc -> {"start", "between", "relay", "done", "crashed"}]
    /\ todo \in [Process -> SUBSET Doc]
    /\ pending \in [Process -> Doc \cup {None}]
    /\ running \in [Process -> BOOLEAN]
    /\ crashes \in 0..MaxCrashes

Init ==
    /\ documents = {}
    /\ outbox = [d \in Doc |-> "none"]
    /\ queued = [d \in Doc |-> 0]
    /\ at = [d \in Doc |-> "start"]
    /\ todo = [p \in Process |-> {}]
    /\ pending = [p \in Process |-> None]
    /\ running = [p \in Process |-> FALSE]
    /\ crashes = 0

\* a relay that does not look at what has been committed
Unsent_All == {d \in Doc : outbox[d] # "sent"}

\* SELECT ... FROM outbox WHERE sent=0
Unsent == {d \in Doc : outbox[d] = "unsent"}

-----------------------------------------------------------------------------
(***************************************************************************)
(* ingest(): the two writes                                                *)
(***************************************************************************)

\* the two plain orders mistaken for each other
FirstWrite_Swapped(d) ==
    /\ at[d] = "start"
    /\ \/ /\ OrderOf[d] = "job_first"
          /\ documents' = documents \cup {d}
          /\ UNCHANGED <<outbox, queued>>
       \/ /\ OrderOf[d] = "row_first"
          /\ queued' = [queued EXCEPT ![d] = @ + 1]
          /\ UNCHANGED <<documents, outbox>>
       \/ /\ OrderOf[d] = "outbox"
          /\ documents' = documents \cup {d}
          /\ outbox' = [outbox EXCEPT ![d] = "unsent"]
          /\ UNCHANGED queued
    /\ at' = [at EXCEPT ![d] = "between"]
    /\ UNCHANGED <<relayVars, crashes>>

\* the first committed write of each order
FirstWrite(d) ==
    /\ at[d] = "start"
    /\ \/ /\ OrderOf[d] = "row_first"
          /\ documents' = documents \cup {d}
          /\ UNCHANGED <<outbox, queued>>
       \/ /\ OrderOf[d] = "job_first"
          /\ queued' = [queued EXCEPT ![d] = @ + 1]
          /\ UNCHANGED <<documents, outbox>>
       \/ /\ OrderOf[d] = "outbox"
          /\ documents' = documents \cup {d}
          /\ outbox' = [outbox EXCEPT ![d] = "unsent"]
          /\ UNCHANGED queued
    /\ at' = [at EXCEPT ![d] = "between"]
    /\ UNCHANGED <<relayVars, crashes>>

\* the second committed write; with an outbox, the process enters relay()
SecondWrite(d) ==
    /\ at[d] = "between"
    /\ \/ /\ OrderOf[d] = "row_first"
          /\ queued' = [queued EXCEPT ![d] = @ + 1]
          /\ UNCHANGED documents
       \/ /\ OrderOf[d] = "job_first"
          /\ documents' = documents \cup {d}
          /\ UNCHANGED queued
    /\ at' = [at EXCEPT ![d] = "done"]
    /\ UNCHANGED <<outbox, relayVars, crashes>>

\* raise Crash: nothing catches this
IngestCrash(d) ==
    /\ at[d] = "between"
    /\ crashes < MaxCrashes
    /\ crashes' = crashes + 1
    /\ at' = [at EXCEPT ![d] = "crashed"]
    /\ UNCHANGED <<documents, outbox, queued, relayVars>>

(***************************************************************************)
(* relay(): run by the ingest process itself, or again by a Relayer        *)
(***************************************************************************)

\* SELECT ... WHERE sent=0, fetched whole
RelaySelect(p) ==
    /\ ~running[p]
    /\ \/ p \in Relayer /\ UNCHANGED at
       \/ p \in ViaOutbox /\ at[p] = "between" /\ at' = [at EXCEPT ![p] = "relay"]
    /\ running' = [running EXCEPT ![p] = TRUE]
    /\ todo' = [todo EXCEPT ![p] = Unsent]
    /\ UNCHANGED <<documents, outbox, queued, pending, crashes>>

\* the loop that updates before it enqueues
MarkSent_Early(p) ==
    [d \in Doc |-> IF d \in todo[p] THEN "sent" ELSE outbox[d]]

\* a relay that forgets to mark what it queued
MarkSent_Never(p) == outbox

\* a relay that deletes the rows it has queued
MarkSent_Deleted(p) ==
    [d \in DOMAIN outbox \ {pending[p]} |-> outbox[d]]

\* the rows whose UPDATE the commit of process p makes permanent
MarkSent(p) ==
    [d \in Doc |-> IF d = pending[p] THEN "sent" ELSE outbox[d]]

\* enqueue(conn, doc_id): commits the job, and the previous row's UPDATE with it
RelayEnqueue(p) ==
    /\ running[p]
    /\ \E d \in todo[p] :
        /\ queued' = [queued EXCEPT ![d] = @ + 1]
        /\ outbox' = MarkSent(p)
        /\ pending' = [pending EXCEPT ![p] = d]
        /\ todo' = [todo EXCEPT ![p] = @ \ {d}]
    /\ UNCHANGED <<documents, at, running, crashes>>

\* the commit after the loop
RelayCommit(p) ==
    /\ running[p]
    /\ todo[p] = {}
    /\ outbox' = MarkSent(p)
    /\ pending' = [pending EXCEPT ![p] = None]
    /\ running' = [running EXCEPT ![p] = FALSE]
    /\ at' = IF p \in Doc THEN [at EXCEPT ![p] = "done"] ELSE at
    /\ UNCHANGED <<documents, queued, todo, crashes>>

\* the process stops inside relay(): its open transaction rolls back
RelayCrash(p) ==
    /\ running[p]
    /\ crashes < MaxCrashes
    /\ crashes' = crashes + 1
    /\ running' = [running EXCEPT ![p] = FALSE]
    /\ todo' = [todo EXCEPT ![p] = {}]
    /\ pending' = [pending EXCEPT ![p] = None]
    /\ at' = IF p \in Doc THEN [at EXCEPT ![p] = "crashed"] ELSE at
    /\ UNCHANGED <<documents, outbox, queued>>

Ingest(d) == FirstWrite(d) \/ SecondWrite(d) \/ IngestCrash(d)

Relay(p) == RelaySelect(p) \/ RelayEnqueue(p) \/ RelayCommit(p)

Next ==
    \/ \E d \in Doc : Ingest(d)
    \/ \E p \in Process : Relay(p) \/ RelayCrash(p)

Spec == Init /\ [][Next]_vars

\* "Its only requirement is that it never runs *never*": relay keeps being run.
\* Nothing is assumed of the ingest processes.
FairSpec == Spec /\ \A p \in Relayer : WF_vars(Relay(p))

-----------------------------------------------------------------------------
(***************************************************************************)
(* Properties                                                              *)
(***************************************************************************)

\* Unless the job is written first, no job names a document that was never
\* stored (phantom_jobs of counts()).
NoPhantomJob ==
    \A d \in Doc : (OrderOf[d] # "job_first" /\ queued[d] > 0) => d \in documents

\* With the job written first, no stored document is without one (orphan_docs).
NoOrphanDoc ==
    \A d \in documents : OrderOf[d] = "job_first" => queued[d] > 0

\* With an outbox, a stored document has a job or a committed row that says it needs one, and
\* an outbox row is only marked sent once its job is in the queue, wherever a
\* relay was stopped and however many relays run at once.
NoLostIntent ==
    /\ \A d \in ViaOutbox : d \in documents => outbox[d] # "none"
    /\ \A d \in Doc : outbox[d] = "sent" => queued[d] > 0

\* Each order of the two writes loses what it may lose and nothing else.
OrdersKeepTheirPromise == NoLostIntent /\ NoPhantomJob /\ NoOrphanDoc

\* A job is duplicated only by relays that overlap or are stopped midway.
DuplicatesNeedACause ==
    \A d \in ViaOutbox :
        queued[d] <= crashes + Cardinality(Relayer \cup ViaOutbox)

\* Whatever was stored with an outbox row is scheduled in the end, its ingest
\* process dead or not.
EverythingIsScheduled ==
    \A d \in ViaOutbox : d \in documents ~> queued[d] > 0
=============================================================================
