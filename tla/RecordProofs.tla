---------------------------- MODULE RecordProofs ----------------------------
(***************************************************************************)
(* Proofs about what is kept of a document: the outbox that schedules it,  *)
(* the body a job carries, the spans that point into it, the entity ids    *)
(* and the scores; and all of these side by side, as MCOutbox runs them.   *)
(***************************************************************************)
EXTENDS MCOutbox, DataLemmas

-----------------------------------------------------------------------------
(***************************************************************************)
(* Outbox: why it loses no intent, for any number of ingest processes,     *)
(* relays and crashes.  A relay commits the UPDATE of a row only after the *)
(* job of that row: PendingIsQueued says that every UPDATE still open      *)
(* belongs to a document already in the queue, so committing it is safe    *)
(* and rolling it back only makes a later relay queue the document again.  *)
(***************************************************************************)

PendingIsQueued ==
    \A p \in Process :
        pending[p] # None => pending[p] \in ViaOutbox /\ queued[pending[p]] > 0

\* A relay only ever works on documents that were stored with an outbox row.
TodoIsStored == \A p \in Process : todo[p] \subseteq documents \cap ViaOutbox

\* The document and its outbox row appear in one transaction.
RowsTogether ==
    \A d \in Doc : outbox[d] # "none" <=> d \in ViaOutbox /\ d \in documents

\* What the first write of an ingest left behind is still there.
FirstWriteStays ==
    \A d \in Doc :
        /\ at[d] = "start" => d \notin documents
        /\ at[d] # "start" => IF OrderOf[d] = "job_first"
                             THEN queued[d] > 0
                             ELSE d \in documents

\* An ingest process is inside relay() only after its transaction.
RelaysAfterwards == \A d \in Doc : running[d] => at[d] = "relay"

OutboxInv ==
    /\ TypeOK
    /\ RelaysAfterwards
    /\ FirstWriteStays
    /\ PendingIsQueued
    /\ TodoIsStored
    /\ RowsTogether
    /\ NoLostIntent
    /\ NoPhantomJob
    /\ NoOrphanDoc

LEMMA InitOutboxInv == OutboxAssumption /\ Init => OutboxInv
  BY DEF OutboxAssumption, Init, OutboxInv, TypeOK, PendingIsQueued, TodoIsStored,
         RelaysAfterwards, FirstWriteStays, RowsTogether, NoLostIntent, NoPhantomJob, NoOrphanDoc,
         ViaOutbox, Process

LEMMA NextOutboxInv ==
    ASSUME OutboxAssumption
    PROVE  OutboxInv /\ [Next]_vars => OutboxInv'
<1> SUFFICES ASSUME OutboxInv, [Next]_vars PROVE OutboxInv'
  OBVIOUS
<1> USE DEF OutboxInv, OutboxAssumption, TypeOK, PendingIsQueued, TodoIsStored,
            RelaysAfterwards, FirstWriteStays, RowsTogether, NoLostIntent, NoPhantomJob, NoOrphanDoc,
            Process, ViaOutbox, relayVars
<1>1. ASSUME NEW d \in Doc, FirstWrite(d) PROVE OutboxInv'
  BY <1>1 DEF FirstWrite
<1>2. ASSUME NEW d \in Doc, SecondWrite(d) PROVE OutboxInv'
  BY <1>2 DEF SecondWrite
<1>3. ASSUME NEW d \in Doc, IngestCrash(d) PROVE OutboxInv'
  BY <1>3 DEF IngestCrash
<1>4. ASSUME NEW p \in Process, RelaySelect(p) PROVE OutboxInv'
  BY <1>4 DEF RelaySelect, Unsent
<1>5. ASSUME NEW p \in Process, RelayEnqueue(p) PROVE OutboxInv'
  <2>1. TypeOK'
    BY <1>5 DEF RelayEnqueue, MarkSent
  <2>2. FirstWriteStays'
    BY <1>5 DEF RelayEnqueue, MarkSent
  <2>3. PendingIsQueued'
    BY <1>5 DEF RelayEnqueue, MarkSent
  <2>4. TodoIsStored'
    BY <1>5 DEF RelayEnqueue, MarkSent
  <2>5. RowsTogether'
    BY <1>5 DEF RelayEnqueue, MarkSent
  <2>6. NoLostIntent'
    BY <1>5 DEF RelayEnqueue, MarkSent
  <2>7. NoPhantomJob'
    BY <1>5 DEF RelayEnqueue, MarkSent
  <2>8. NoOrphanDoc'
    BY <1>5 DEF RelayEnqueue, MarkSent
  <2>9. RelaysAfterwards'
    BY <1>5 DEF RelayEnqueue, MarkSent
  <2>10. QED
    BY <2>9, <2>1, <2>2, <2>3, <2>4, <2>5, <2>6, <2>7, <2>8
<1>6. ASSUME NEW p \in Process, RelayCommit(p) PROVE OutboxInv'
  <2>1. TypeOK'
    BY <1>6 DEF RelayCommit, MarkSent
  <2>2. FirstWriteStays'
    BY <1>6 DEF RelayCommit, MarkSent
  <2>3. PendingIsQueued'
    BY <1>6 DEF RelayCommit, MarkSent
  <2>4. TodoIsStored'
    BY <1>6 DEF RelayCommit, MarkSent
  <2>5. RowsTogether'
    BY <1>6 DEF RelayCommit, MarkSent
  <2>6. NoLostIntent'
    BY <1>6 DEF RelayCommit, MarkSent
  <2>7. NoPhantomJob'
    BY <1>6 DEF RelayCommit, MarkSent
  <2>8. NoOrphanDoc'
    BY <1>6 DEF RelayCommit, MarkSent
  <2>9. RelaysAfterwards'
    BY <1>6 DEF RelayCommit, MarkSent
  <2>10. QED
    BY <2>9, <2>1, <2>2, <2>3, <2>4, <2>5, <2>6, <2>7, <2>8
<1>7. ASSUME NEW p \in Process, RelayCrash(p) PROVE OutboxInv'
  BY <1>7 DEF RelayCrash
<1>8. CASE UNCHANGED vars
  BY <1>8 DEF vars
<1>9. QED
  BY <1>1, <1>2, <1>3, <1>4, <1>5, <1>6, <1>7, <1>8 DEF Next, Ingest, Relay

LEMMA OutboxInvariant == Spec => []OutboxInv
<1>1. Init => OutboxInv
  BY InitOutboxInv, OutboxAssumption
<1>2. OutboxInv /\ [Next]_vars => OutboxInv'
  BY NextOutboxInv, OutboxAssumption
<1>3. QED
  BY <1>1, <1>2, PTL DEF Spec

\* With an outbox, a stored document always has a job or a row asking for one.
THEOREM IntentIsKept == Spec => []NoLostIntent
<1>1. OutboxInv => NoLostIntent
  BY DEF OutboxInv
<1>2. QED
  BY <1>1, OutboxInvariant, PTL

\* Unless the job is written first, every job names a document that was stored.
THEOREM JobsHaveDocuments == Spec => []NoPhantomJob
<1>1. OutboxInv => NoPhantomJob
  BY DEF OutboxInv
<1>2. QED
  BY <1>1, OutboxInvariant, PTL

\* With the job written first, every document that was stored has its job.
THEOREM DocumentsHaveJobs == Spec => []NoOrphanDoc
<1>1. OutboxInv => NoOrphanDoc
  BY DEF OutboxInv
<1>2. QED
  BY <1>1, OutboxInvariant, PTL

\* Whatever order the writes of a document are made in, it keeps its promise.
THEOREM OrdersAreKept == Spec => []OrdersKeepTheirPromise
<1>1. OutboxInv => OrdersKeepTheirPromise
  BY DEF OutboxInv, OrdersKeepTheirPromise
<1>2. QED
  BY <1>1, OutboxInvariant, PTL

-----------------------------------------------------------------------------
(***************************************************************************)
(* How often a document is queued.  A job that was queued while the row    *)
(* was still unsent is accounted for by a relay whose UPDATE is open, or   *)
(* by a crash that rolled the UPDATE back; once the row is sent, only the  *)
(* relays that selected it before that may queue it once more.             *)
(***************************************************************************)

Relaying == Relayer \cup ViaOutbox

\* relays whose UPDATE of the row is open, and those that still mean to queue it
Marking(d) == {p \in Relaying : pending[p] = d}
Planning(d) == {p \in Relaying : d \in todo[p]}

RelaysAtWork ==
    \A p \in Process :
        /\ running[p] => p \in Relaying
        /\ ~running[p] => todo[p] = {} /\ pending[p] = None
        /\ pending[p] # None => pending[p] \notin todo[p]

CountedJobs ==
    \A d \in ViaOutbox :
        /\ outbox[d] # "sent" => queued[d] <= crashes + Cardinality(Marking(d))
        /\ outbox[d] = "sent" =>
              queued[d] + Cardinality(Planning(d)) <= crashes + Cardinality(Relaying)

LEMMA RelaysFinite ==
    ASSUME NEW S \in SUBSET Relaying
    PROVE  IsFiniteSet(S) /\ Cardinality(S) \in Nat /\ Cardinality(S) <= Cardinality(Relaying)
<1>1. IsFiniteSet(ViaOutbox)
  BY OutboxAssumption, FS_Subset DEF OutboxAssumption, ViaOutbox
<1>2. IsFiniteSet(Relaying)
  BY <1>1, OutboxAssumption, FS_Union DEF OutboxAssumption, Relaying
<1>3. QED
  BY <1>2, FS_Subset, FS_CardinalityType

LEMMA ApartCount ==
    ASSUME NEW S \in SUBSET Relaying, NEW T \in SUBSET Relaying, S \cap T = {}
    PROVE  Cardinality(S) + Cardinality(T) <= Cardinality(Relaying)
<1>1. /\ IsFiniteSet(S) /\ IsFiniteSet(T) /\ S \cup T \in SUBSET Relaying
      /\ Cardinality(S) \in Nat /\ Cardinality(T) \in Nat
  BY RelaysFinite
<1>2. Cardinality(S \cup T) = Cardinality(S) + Cardinality(T) - Cardinality(S \cap T)
  BY <1>1, FS_Union
<1>3. Cardinality(S \cap T) = 0
  BY FS_EmptySet
<1>4. Cardinality(S \cup T) <= Cardinality(Relaying)
  BY <1>1, RelaysFinite
<1>5. QED
  BY <1>1, <1>2, <1>3, <1>4

\* one relay more or less, in whatever set it was counted
LEMMA OneRelayMore ==
    ASSUME NEW S \in SUBSET Relaying, NEW p \in Relaying, p \notin S
    PROVE  Cardinality(S \cup {p}) = Cardinality(S) + 1
  BY RelaysFinite, FS_AddElement

LEMMA OneRelayLess ==
    ASSUME NEW S \in SUBSET Relaying, NEW p
    PROVE  Cardinality(S) = Cardinality(S \ {p}) + IF p \in S THEN 1 ELSE 0
<1>1. /\ Cardinality(S \ {p}) = IF p \in S THEN Cardinality(S) - 1 ELSE Cardinality(S)
      /\ Cardinality(S) \in Nat
  BY RelaysFinite, FS_RemoveElement
<1>2. QED
  BY <1>1

LEMMA InitCounted == OutboxAssumption /\ Init => RelaysAtWork /\ CountedJobs
<1> SUFFICES ASSUME OutboxAssumption, Init PROVE RelaysAtWork /\ CountedJobs
  OBVIOUS
<1>1. RelaysAtWork
  BY DEF Init, RelaysAtWork
<1>2. \A d \in ViaOutbox : Marking(d) \subseteq Relaying /\ Cardinality(Marking(d)) \in Nat
  BY RelaysFinite DEF Marking
<1>3. CountedJobs
  BY <1>2 DEF Init, CountedJobs, ViaOutbox
<1>4. QED
  BY <1>1, <1>3

LEMMA NextAtWork == OutboxAssumption /\ OutboxInv /\ RelaysAtWork /\ [Next]_vars => RelaysAtWork'
<1> SUFFICES ASSUME OutboxAssumption, OutboxInv, RelaysAtWork, [Next]_vars PROVE RelaysAtWork'
  OBVIOUS
<1> USE DEF RelaysAtWork, OutboxInv, TypeOK, OutboxAssumption, Process, relayVars
<1>1. ASSUME NEW d \in Doc, Ingest(d) PROVE RelaysAtWork'
  BY <1>1 DEF Ingest, FirstWrite, SecondWrite, IngestCrash
<1>2. ASSUME NEW p \in Process, RelaySelect(p) PROVE RelaysAtWork'
  BY <1>2 DEF RelaySelect, Relaying
<1>3. ASSUME NEW p \in Process, RelayEnqueue(p) PROVE RelaysAtWork'
  BY <1>3 DEF RelayEnqueue
<1>4. ASSUME NEW p \in Process, RelayCommit(p) PROVE RelaysAtWork'
  BY <1>4 DEF RelayCommit
<1>5. ASSUME NEW p \in Process, RelayCrash(p) PROVE RelaysAtWork'
  BY <1>5 DEF RelayCrash
<1>6. CASE UNCHANGED vars
  BY <1>6 DEF vars
<1>7. QED
  BY <1>1, <1>2, <1>3, <1>4, <1>5, <1>6 DEF Next, Relay

LEMMA NextCounted ==
    OutboxAssumption /\ OutboxInv /\ RelaysAtWork /\ CountedJobs /\ [Next]_vars => CountedJobs'
<1> SUFFICES ASSUME OutboxAssumption, OutboxInv, RelaysAtWork, CountedJobs, [Next]_vars,
                    NEW d \in ViaOutbox
             PROVE  /\ outbox'[d] # "sent" => queued'[d] <= crashes' + Cardinality(Marking(d)')
                    /\ outbox'[d] = "sent" =>
                          queued'[d] + Cardinality(Planning(d)') <= crashes' + Cardinality(Relaying)
  BY DEF CountedJobs, ViaOutbox, Relaying
<1>n. d \in Doc /\ d # None /\ OrderOf[d] = "outbox" /\ Relaying \subseteq Process
  BY DEF ViaOutbox, OutboxAssumption, Relaying, Process
<1>t. queued[d] \in Nat /\ crashes \in Nat /\ outbox[d] \in {"none", "unsent", "sent"}
  BY <1>n, OutboxAssumption DEF OutboxInv, TypeOK, OutboxAssumption
<1>m. /\ Marking(d) \in SUBSET Relaying /\ Marking(d)' \in SUBSET Relaying
      /\ Planning(d) \in SUBSET Relaying /\ Planning(d)' \in SUBSET Relaying
  BY DEF Marking, Planning
<1>c. /\ Cardinality(Marking(d)) \in Nat /\ Cardinality(Marking(d)') \in Nat
      /\ Cardinality(Planning(d)) \in Nat /\ Cardinality(Planning(d)') \in Nat
      /\ Cardinality(Relaying) \in Nat
  BY <1>m, RelaysFinite
<1>i. /\ outbox[d] # "sent" => queued[d] <= crashes + Cardinality(Marking(d))
      /\ outbox[d] = "sent" =>
            queued[d] + Cardinality(Planning(d)) <= crashes + Cardinality(Relaying)
  BY DEF CountedJobs
\* marking a row sent: whoever marks it does not plan it
<1>s. Cardinality(Marking(d)) + Cardinality(Planning(d)) <= Cardinality(Relaying)
  <2>1. Marking(d) \cap Planning(d) = {}
    BY <1>n DEF Marking, Planning, RelaysAtWork
  <2>2. QED
    BY <2>1, <1>m, ApartCount
<1> DEFINE Goal == /\ outbox'[d] # "sent" => queued'[d] <= crashes' + Cardinality(Marking(d)')
                   /\ outbox'[d] = "sent" =>
                         queued'[d] + Cardinality(Planning(d)') <= crashes' + Cardinality(Relaying)
<1> USE DEF relayVars
\* nothing but the number of crashes
<1>q. ASSUME /\ outbox'[d] = "sent" <=> outbox[d] = "sent"
             /\ queued'[d] = queued[d] /\ crashes' \in {crashes, crashes + 1}
             /\ UNCHANGED <<todo, pending>>
      PROVE  Goal
  <2>1. Marking(d)' = Marking(d) /\ Planning(d)' = Planning(d)
    BY <1>q DEF Marking, Planning
  <2>2. QED
    BY <2>1, <1>q, <1>i, <1>c, <1>t
<1>1. ASSUME NEW e \in Doc, Ingest(e) PROVE Goal
  <2>1. crashes' \in {crashes, crashes + 1} /\ UNCHANGED <<todo, pending>>
    BY <1>1 DEF Ingest, FirstWrite, SecondWrite, IngestCrash
  <2>2. queued'[d] = queued[d]
    BY <1>1, <1>n DEF Ingest, FirstWrite, SecondWrite, IngestCrash, OutboxInv, TypeOK
  <2>3. outbox'[d] = "sent" <=> outbox[d] = "sent"
    BY <1>1, <1>n DEF Ingest, FirstWrite, SecondWrite, IngestCrash, OutboxInv, TypeOK,
       RowsTogether, FirstWriteStays, ViaOutbox
  <2>4. QED
    BY <2>1, <2>2, <2>3, <1>q
<1>2. ASSUME NEW p \in Process, RelaySelect(p) PROVE Goal
  <2>1. UNCHANGED <<outbox, queued, crashes, pending>> /\ ~running[p] /\ p \in Relaying
    BY <1>2 DEF RelaySelect, Relaying
  <2>2. Marking(d)' = Marking(d)
    BY <2>1 DEF Marking
  <2>3. outbox[d] = "sent" => Planning(d)' = Planning(d)
    BY <1>2, <2>1, <1>n DEF Planning, RelaySelect, Unsent, RelaysAtWork, OutboxInv, TypeOK
  <2>4. QED
    BY <2>1, <2>2, <2>3, <1>i
<1>3. ASSUME NEW p \in Process, RelayEnqueue(p) PROVE Goal
  <2>1. PICK e \in todo[p] : /\ queued' = [queued EXCEPT ![e] = @ + 1]
                             /\ pending' = [pending EXCEPT ![p] = e]
                             /\ todo' = [todo EXCEPT ![p] = @ \ {e}]
    BY <1>3 DEF RelayEnqueue
  <2>2. /\ p \in Relaying /\ pending[p] # e /\ crashes' = crashes
        /\ outbox'[d] = IF d = pending[p] THEN "sent" ELSE outbox[d]
    BY <1>3, <1>n, <2>1 DEF RelayEnqueue, MarkSent, RelaysAtWork, OutboxInv, TypeOK, TodoIsStored, OutboxAssumption, ViaOutbox
  <2>3. queued'[d] = IF d = e THEN queued[d] + 1 ELSE queued[d]
    BY <2>1, <1>n DEF OutboxInv, TypeOK
  <2>4. CASE d = e
    <3>1. Marking(d)' = Marking(d) \cup {p} /\ p \notin Marking(d)
      BY <2>4, <2>1, <2>2, <1>n DEF Marking, OutboxInv, TypeOK
    <3>2. Planning(d)' = Planning(d) \ {p} /\ p \in Planning(d)
      BY <2>4, <2>1, <2>2, <1>n DEF Planning, OutboxInv, TypeOK
    <3>3. Cardinality(Marking(d)') = Cardinality(Marking(d)) + 1
      BY <3>1, <2>2, <1>m, OneRelayMore
    <3>4. Cardinality(Planning(d)) = Cardinality(Planning(d)') + 1
      BY <3>2, <1>m, OneRelayLess
    <3>5. outbox'[d] = outbox[d]
      BY <2>2, <2>4
    <3>6. QED
      BY <2>4, <2>2, <2>3, <3>3, <3>4, <3>5, <1>i, <1>c, <1>t
  <2>5. CASE d # e
    <3>1. Planning(d)' = Planning(d)
      BY <2>5, <2>1, <1>n DEF Planning, OutboxInv, TypeOK
    <3>2. pending[p] # d => Marking(d)' = Marking(d)
      BY <2>5, <2>1, <1>n DEF Marking, OutboxInv, TypeOK
    <3>3. QED
      BY <2>5, <2>2, <2>3, <3>1, <3>2, <1>i, <1>s, <1>c, <1>t
  <2>6. QED
    BY <2>4, <2>5
<1>4. ASSUME NEW p \in Process, RelayCommit(p) PROVE Goal
  <2>1. /\ queued' = queued /\ todo' = todo /\ crashes' = crashes
        /\ pending' = [pending EXCEPT ![p] = None]
        /\ outbox'[d] = IF d = pending[p] THEN "sent" ELSE outbox[d]
    BY <1>4, <1>n DEF RelayCommit, MarkSent
  <2>2. Planning(d)' = Planning(d)
    BY <2>1 DEF Planning
  <2>3. pending[p] # d => Marking(d)' = Marking(d)
    BY <2>1, <1>n DEF Marking, OutboxInv, TypeOK
  <2>4. QED
    BY <2>1, <2>2, <2>3, <1>i, <1>s, <1>c, <1>t
<1>5. ASSUME NEW p \in Process, RelayCrash(p) PROVE Goal
  <2>1. /\ UNCHANGED <<outbox, queued>> /\ crashes' = crashes + 1 /\ p \in Relaying
        /\ pending' = [pending EXCEPT ![p] = None] /\ todo' = [todo EXCEPT ![p] = {}]
    BY <1>5 DEF RelayCrash, RelaysAtWork
  <2>2. Cardinality(Marking(d)) <= Cardinality(Marking(d)') + 1
    <3>1. Marking(d)' = Marking(d) \ {p}
      BY <2>1, <1>n DEF Marking, OutboxInv, TypeOK
    <3>2. QED
      BY <3>1, <1>m, <1>c, OneRelayLess
  <2>3. Cardinality(Planning(d)') <= Cardinality(Planning(d)) + 1
    <3>1. Planning(d)' = Planning(d) \ {p}
      BY <2>1, <1>n DEF Planning, OutboxInv, TypeOK
    <3>2. QED
      BY <3>1, <1>m, <1>c, OneRelayLess
  <2>4. QED
    BY <2>1, <2>2, <2>3, <1>i, <1>c, <1>t
<1>6. CASE UNCHANGED vars
  BY <1>6, <1>q DEF vars
<1>9. QED
  BY <1>1, <1>2, <1>3, <1>4, <1>5, <1>6 DEF Next, Relay

LEMMA CountedInvariant == Spec => [](OutboxInv /\ RelaysAtWork /\ CountedJobs)
<1>1. Init => OutboxInv /\ RelaysAtWork /\ CountedJobs
  BY InitOutboxInv, InitCounted, OutboxAssumption
<1>2. OutboxInv /\ RelaysAtWork /\ CountedJobs /\ [Next]_vars
         => (OutboxInv /\ RelaysAtWork /\ CountedJobs)'
  BY NextOutboxInv, NextAtWork, NextCounted, OutboxAssumption
<1>3. QED
  BY <1>1, <1>2, PTL DEF Spec

LEMMA CountsBound == OutboxInv /\ CountedJobs => DuplicatesNeedACause
<1> SUFFICES ASSUME OutboxInv, CountedJobs, NEW d \in ViaOutbox
             PROVE  queued[d] <= crashes + Cardinality(Relaying)
  BY DEF DuplicatesNeedACause, Relaying
<1>1. /\ Marking(d) \in SUBSET Relaying /\ Planning(d) \in SUBSET Relaying
      /\ queued[d] \in Nat /\ crashes \in Nat
  BY OutboxAssumption DEF Marking, Planning, OutboxInv, TypeOK, ViaOutbox, OutboxAssumption
<1>2. /\ Cardinality(Marking(d)) \in Nat /\ Cardinality(Planning(d)) \in Nat
      /\ Cardinality(Relaying) \in Nat /\ Cardinality(Marking(d)) <= Cardinality(Relaying)
  BY <1>1, RelaysFinite
<1>3. QED
  BY <1>1, <1>2 DEF CountedJobs

\* A document is queued at most once per relay that could have selected it and
\* once more for every crash, however the relays overlap.
THEOREM DuplicatesAreExplained == Spec => []DuplicatesNeedACause
<1>1. QED
  BY CountedInvariant, CountsBound, PTL

-----------------------------------------------------------------------------
(***************************************************************************)
(* JobPayload                                                              *)
(***************************************************************************)

\* What is true of one job p in every state: versions only grow, and a deleted
\* document stays deleted.
JobInv(p) ==
    /\ p.queuedAs <= version[p.doc]
    /\ p.at # "queued" =>
          /\ p.queuedAs <= p.claimedAs /\ p.claimedAs <= version[p.doc]
          /\ p.goneAtClaim => p.doc \in removed
    /\ p.at \in {"read", "done"} =>
          /\ p.seen <= version[p.doc]
          /\ ~p.copied => p.seen >= p.claimedAs /\ ~p.goneAtClaim
          /\ p.copied => p.seen <= p.claimedAs
    /\ p.at = "failed" => ~p.copied /\ p.doc \in removed

PayloadInv == PayTypeOK /\ \A j \in DOMAIN payloads : JobInv(payloads[j])

\* Later versions and more deletions keep what is true of a job.
LEMMA JobInvStays ==
    ASSUME PayTypeOK, PayTypeOK', NEW p \in Payload, JobInv(p),
           \A d \in PayDoc : version[d] <= version'[d], removed \subseteq removed'
    PROVE  /\ p.queuedAs <= version'[p.doc]
           /\ p.at # "queued" =>
                 /\ p.queuedAs <= p.claimedAs /\ p.claimedAs <= version'[p.doc]
                 /\ p.goneAtClaim => p.doc \in removed'
           /\ p.at \in {"read", "done"} =>
                 /\ p.seen <= version'[p.doc]
                 /\ ~p.copied => p.seen >= p.claimedAs /\ ~p.goneAtClaim
                 /\ p.copied => p.seen <= p.claimedAs
           /\ p.at = "failed" => ~p.copied /\ p.doc \in removed'
<1>1. /\ p.doc \in PayDoc /\ p.queuedAs \in Nat /\ p.claimedAs \in Nat /\ p.seen \in Nat
      /\ version[p.doc] \in Nat /\ version'[p.doc] \in Nat
  BY PayloadAssumption DEF Payload, PayTypeOK, Version
<1>2. version[p.doc] <= version'[p.doc]
  BY <1>1
<1>3. QED
  BY <1>1, <1>2 DEF JobInv

\* One job is replaced, the tables stay.
LEMMA JobReplaced ==
    ASSUME PayloadInv, UNCHANGED <<version, removed>>, NEW j \in DOMAIN payloads, NEW p \in Payload,
           JobInv(p), payloads' = [payloads EXCEPT ![j] = p]
    PROVE  PayloadInv'
<1>1. /\ payloads \in Seq(Payload) /\ DOMAIN payloads = 1..Len(payloads)
      /\ Len(payloads) \in Nat /\ Len(payloads) <= MaxPayloads
  BY DEF PayloadInv, PayTypeOK
<1>2. /\ payloads' \in Seq(Payload) /\ Len(payloads') = Len(payloads)
      /\ DOMAIN payloads' = DOMAIN payloads
      /\ \A i \in DOMAIN payloads : payloads'[i] = IF i = j THEN p ELSE payloads[i]
  BY <1>1, ExceptSeq
<1>3. PayTypeOK'
  BY <1>1, <1>2 DEF PayloadInv, PayTypeOK
<1>4. \A i \in DOMAIN payloads' : JobInv(payloads'[i])
  BY <1>2 DEF PayloadInv
<1>5. QED
  BY <1>3, <1>4 DEF PayloadInv, JobInv

LEMMA NextPayload == PayloadInv /\ [PayNext]_payVars => PayloadInv'
<1> SUFFICES ASSUME PayloadInv, [PayNext]_payVars PROVE PayloadInv'
  OBVIOUS
<1>0. /\ payloads \in Seq(Payload) /\ DOMAIN payloads = 1..Len(payloads)
      /\ \A j \in DOMAIN payloads : payloads[j] \in Payload /\ JobInv(payloads[j])
      /\ version \in [PayDoc -> Version] /\ Version \subseteq Nat /\ PayTypeOK
  BY PayloadAssumption DEF PayloadInv, PayTypeOK, Version
<1>1. CASE UNCHANGED payVars
  BY <1>1 DEF payVars, PayloadInv, PayTypeOK, JobInv
<1>2. ASSUME NEW d \in PayDoc, CorrectBody(d) \/ DeleteDoc(d) PROVE PayloadInv'
  <2>1. PayTypeOK'
    BY <1>2, PayloadAssumption DEF CorrectBody, DeleteDoc, PayloadInv, PayTypeOK, Version
  <2>2. (\A e \in PayDoc : version[e] <= version'[e]) /\ removed \subseteq removed' /\ payloads' = payloads
    <3>1. \A e \in PayDoc : version[e] \in Nat
      BY <1>0
    <3>2. CASE CorrectBody(d)
      <4>1. \A e \in PayDoc : version'[e] = IF e = d THEN version[e] + 1 ELSE version[e]
        BY <1>0, <3>2 DEF CorrectBody
      <4>2. QED
        BY <3>1, <3>2, <4>1 DEF CorrectBody
    <3>3. CASE DeleteDoc(d)
      BY <3>1, <3>3 DEF DeleteDoc
    <3>4. QED
      BY <1>2, <3>2, <3>3
  <2>3. QED
    BY <1>0, <2>1, <2>2, JobInvStays DEF PayloadInv, JobInv
<1>3. ASSUME NEW d \in PayDoc, NEW copied \in BOOLEAN, EnqueueFor(d, copied) PROVE PayloadInv'
  <2> DEFINE p == [doc |-> d, copied |-> copied, at |-> "queued", queuedAs |-> version[d],
                   claimedAs |-> 0, goneAtClaim |-> FALSE, seen |-> 0]
  <2>1. p \in Payload /\ JobInv(p)
    BY <1>0, PayloadAssumption DEF Payload, Version, JobInv
  <2>2. payloads' = Append(payloads, p) /\ UNCHANGED <<version, removed>> /\ Len(payloads) < MaxPayloads
    BY <1>3 DEF EnqueueFor
  <2> HIDE DEF p
  <2>3. /\ payloads' \in Seq(Payload) /\ Len(payloads') = Len(payloads) + 1
        /\ \A i \in 1..Len(payloads) : payloads'[i] = payloads[i]
        /\ payloads'[Len(payloads) + 1] = p
    BY <1>0, <2>1, <2>2, AppendProperties
  <2>4. PayTypeOK'
    BY <1>0, <2>2, <2>3, PayloadAssumption DEF PayTypeOK
  <2>5. \A i \in DOMAIN payloads' : JobInv(payloads'[i])
    BY <1>0, <2>1, <2>3
  <2>6. QED
    BY <2>2, <2>4, <2>5 DEF PayloadInv, JobInv
<1>4. ASSUME NEW j \in DOMAIN payloads, ClaimPayload(j) PROVE PayloadInv'
  <2> DEFINE q == payloads[j]
             p == [q EXCEPT !.at = "claimed", !.claimedAs = version[q.doc],
                            !.goneAtClaim = q.doc \in removed]
  <2>1. q \in Payload /\ JobInv(q) /\ q.doc \in PayDoc
    BY <1>0 DEF Payload
  <2>2. version[q.doc] \in Version /\ (q.doc \in removed) \in BOOLEAN
    BY <1>0, <2>1
  <2>a. version[q.doc] \in Nat
    BY <1>0, <2>2
  <2>3. p \in Payload /\ JobInv(p)
    <3> HIDE DEF q
    <3>1. p \in Payload
      BY <2>1, <2>2 DEF Payload
    <3>2. /\ p.at = "claimed" /\ p.claimedAs = version[q.doc] /\ p.doc = q.doc
          /\ p.queuedAs = q.queuedAs /\ p.goneAtClaim = (q.doc \in removed)
      BY <2>1 DEF Payload
    <3>3. version[q.doc] <= version[q.doc]
      BY <2>a
    <3> HIDE DEF p
    <3>4. QED
      BY <2>1, <3>1, <3>2, <3>3 DEF JobInv
  <2>4. payloads' = [payloads EXCEPT ![j] = p] /\ UNCHANGED <<version, removed>>
    BY <1>0, <1>4 DEF ClaimPayload
  <2>5. QED
    <3> HIDE DEF p
    <3>1. QED
      BY <2>3, <2>4, JobReplaced
<1>5. ASSUME NEW j \in DOMAIN payloads, TakeBody(j) PROVE PayloadInv'
  <2> DEFINE q == payloads[j]
             p == IF q.copied THEN [q EXCEPT !.at = "read", !.seen = q.queuedAs]
                  ELSE IF q.doc \in removed THEN [q EXCEPT !.at = "failed"]
                  ELSE [q EXCEPT !.at = "read", !.seen = version[q.doc]]
  <2>1. q \in Payload /\ JobInv(q) /\ q.doc \in PayDoc /\ q.at = "claimed"
    BY <1>0, <1>5 DEF Payload, TakeBody, Working
  <2>2. version[q.doc] \in Version
    BY <1>0, <2>1
  <2>3. p \in Payload /\ JobInv(p)
    <3> HIDE DEF q
    <3>1. /\ q.queuedAs \in Nat /\ q.claimedAs \in Nat /\ version[q.doc] \in Nat
      BY <1>0, <2>1, <2>2 DEF Payload
    <3>2. CASE q.copied
      BY <2>1, <3>1, <3>2 DEF Payload, JobInv
    <3>3. CASE ~q.copied /\ q.doc \in removed
      BY <2>1, <3>1, <3>3 DEF Payload, JobInv
    <3>4. CASE ~q.copied /\ q.doc \notin removed
      <4>1. p \in Payload
        BY <2>1, <2>2, <3>4 DEF Payload
      <4>2. /\ p.at = "read" /\ p.seen = version[q.doc] /\ p.doc = q.doc /\ p.copied = q.copied
            /\ p.queuedAs = q.queuedAs /\ p.claimedAs = q.claimedAs /\ p.goneAtClaim = q.goneAtClaim
        BY <2>1, <3>4 DEF Payload
      <4>3. version[q.doc] <= version[q.doc]
        BY <3>1
      <4> HIDE DEF p
      <4>4. QED
        BY <2>1, <3>1, <3>4, <4>1, <4>2, <4>3 DEF JobInv
    <3>5. QED
      BY <3>2, <3>3, <3>4
  <2>4. payloads' = [payloads EXCEPT ![j] = p] /\ UNCHANGED <<version, removed>>
    BY <1>5 DEF TakeBody
  <2>5. QED
    <3> HIDE DEF p
    <3>1. QED
      BY <2>3, <2>4, JobReplaced
<1>6. ASSUME NEW j \in DOMAIN payloads, CompletePayload(j) PROVE PayloadInv'
  <2> DEFINE q == payloads[j]
             p == [q EXCEPT !.at = "done"]
  <2>1. q \in Payload /\ JobInv(q) /\ q.at = "read"
    BY <1>0, <1>6 DEF CompletePayload, Working
  <2>2. p \in Payload /\ JobInv(p)
    <3> HIDE DEF q
    <3>1. QED
      BY <2>1 DEF Payload, JobInv
  <2>3. payloads' = [payloads EXCEPT ![j] = p] /\ UNCHANGED <<version, removed>>
    BY <1>0, <1>6 DEF CompletePayload
  <2>4. QED
    <3> HIDE DEF p
    <3>1. QED
      BY <2>2, <2>3, JobReplaced
<1>7. QED
  BY <1>1, <1>2, <1>3, <1>4, <1>5, <1>6 DEF PayNext

LEMMA PayloadInvariant == PaySpec => []PayloadInv
<1>1. PayInit => PayloadInv
  BY PayloadAssumption DEF PayInit, PayloadInv, PayTypeOK, Version, PayloadAssumption
<1>2. QED
  BY <1>1, NextPayload, PTL DEF PaySpec

\* However documents change under the queue, an id job extracts nothing older
\* than its claim and nothing that was gone by then.
THEOREM IdJobsReload == PaySpec => []IdsReload
<1>1. PayloadInv => IdsReload
  BY DEF PayloadInv, JobInv, IdsReload
<1>2. QED
  BY <1>1, PayloadInvariant, PTL

-----------------------------------------------------------------------------
(***************************************************************************)
(* Spans into documents                                                    *)
(***************************************************************************)

\* A span was found in the text whose hash is beside it, and a document is
\* always stored with its own hash; so a row the join does not report points
\* into the text it was found in.
EvidenceInv ==
    /\ EvidenceTypeOK
    /\ bodySha = body
    /\ \A r \in provenance : r.value \in Values /\ r.start = Find(r.sha, r.value)
    /\ \A r, q \in provenance : r.source = q.source /\ r.value = q.value => r = q

LEMMA FindNumber ==
    ASSUME NEW text, NEW value, Len(text) \in Nat
    PROVE  /\ Find(text, value) \in 0..Len(text)
           /\ Find(text, value) > 0 => At(text, Find(text, value), Len(value)) = value
<1> DEFINE places == {i \in 1..Len(text) : At(text, i, Len(value)) = value}
<1>1. CASE value = <<>> \/ places = {}
  BY <1>1 DEF Find
<1>2. CASE ~ (value = <<>> \/ places = {})
  <2>1. Find(text, value) = Min(places)
    BY <1>2 DEF Find
  <2>2. places \in SUBSET Nat /\ places # {}
    BY <1>2
  <2>3. Min(places) \in places
    <3> HIDE DEF places
    <3>1. QED
      BY <2>2, MinOfNumbers
  <2>4. QED
    BY <2>1, <2>3
<1>3. QED
  BY <1>1, <1>2

\* A value that is found where it is looked for ends within the text.
LEMMA FoundInBounds ==
    ASSUME NEW S, NEW text \in Seq(S), NEW value \in Seq(S), NEW i \in 1..Len(text),
           At(text, i, Len(value)) = value
    PROVE  i + Len(value) - 1 <= Len(text)
<1> DEFINE ends == {Len(text), i + Len(value) - 1}
           end == Min(ends)
<1>1. Len(text) \in Nat /\ Len(value) \in Nat /\ i \in Nat
  OBVIOUS
<1>2. end \in ends /\ end <= Len(text)
  <2>1. ends \in SUBSET Nat /\ ends # {} /\ Len(text) \in ends
    BY <1>1
  <2> HIDE DEF ends
  <2>2. QED
    BY <2>1, MinOfNumbers
<1>3. CASE Len(value) = 0
  BY <1>1, <1>3
<1>4. CASE Len(value) > 0
  <2>1. value = SubSeq(text, i, end)
    BY DEF At
  <2>2. \A k \in i..end : text[k] \in S
    BY <1>1, <1>2
  <2>e. end \in Int
    BY <1>1, <1>2
  <2> HIDE DEF end
  <2>3. Len(value) = IF i <= end THEN end - i + 1 ELSE 0
    BY <2>1, <2>2, <2>e, <1>1, SubSeqProperties
  <2>4. QED
    BY <2>e, <2>3, <1>1, <1>2, <1>4
<1>5. QED
  BY <1>1, <1>3, <1>4

LEMMA InitEvidence == EvidenceInit => EvidenceInv
  BY DEF EvidenceInit, EvidenceInv, EvidenceTypeOK

LEMMA NextEvidence == EvidenceInv /\ [EvidenceNext]_evidenceVars => EvidenceInv'
<1> SUFFICES ASSUME EvidenceInv, [EvidenceNext]_evidenceVars PROVE EvidenceInv'
  OBVIOUS
<1> USE DEF EvidenceInv, EvidenceTypeOK
<1>1. ASSUME NEW s \in Source, NEW v \in Values, Trace(s, v) PROVE EvidenceInv'
  <2> DEFINE new == [source |-> s, value |-> v, start |-> Find(body[s], v), sha |-> bodySha[s]]
  <2>1. provenance' = provenance \cup {new} /\ UNCHANGED <<body, bodySha>>
    BY <1>1 DEF Trace
  <2>2. new \in Row /\ new.source = s /\ new.value = v /\ new.start = Find(new.sha, v)
    <3>1. Find(body[s], v) \in Nat
      BY FindNumber, EvidenceAssumption DEF EvidenceAssumption
    <3>2. QED
      BY <3>1 DEF Row
  <2>3. \A r \in provenance : ~ (r.source = s /\ r.value = v)
    BY <1>1 DEF Trace
  <2> HIDE DEF new
  <2>4. QED
    BY <2>1, <2>2, <2>3
<1>2. ASSUME NEW s \in Source, NEW text \in Texts, Refetch(s, text) PROVE EvidenceInv'
  BY <1>2 DEF Refetch
<1>3. CASE UNCHANGED evidenceVars
  BY <1>3 DEF evidenceVars
<1>4. QED
  BY <1>1, <1>2, <1>3 DEF EvidenceNext

LEMMA EvidenceBounds == EvidenceInv => StaleFindsDrift
<1> SUFFICES ASSUME EvidenceInv PROVE StaleFindsDrift
  OBVIOUS
<1> USE DEF EvidenceInv, EvidenceTypeOK
<1>1. ASSUME NEW r \in provenance \ Stale PROVE r.start = Find(body[r.source], r.value)
  BY <1>1 DEF Stale
<1>2. ASSUME NEW r \in Traced, r \notin Stale PROVE Intact(r)
  <2>1. r \in Row /\ r \in provenance /\ r.start > 0 /\ r.start = Find(body[r.source], r.value)
    BY <1>1, <1>2 DEF Traced
  <2>2. body[r.source] \in Seq({"a", "b"}) /\ r.value \in Seq({"a", "b"})
    BY <2>1, EvidenceAssumption DEF EvidenceAssumption, Row
  <2>3. /\ r.start \in 1..Len(body[r.source])
        /\ At(body[r.source], r.start, Len(r.value)) = r.value
    BY <2>1, <2>2, FindNumber
  <2>4. r.start + Len(r.value) - 1 <= Len(body[r.source])
    BY <2>2, <2>3, FoundInBounds
  <2>5. QED
    BY <2>2, <2>3, <2>4 DEF Intact, OutOfBounds
<1>3. QED
  BY <1>1, <1>2 DEF StaleFindsDrift, SilentDrift, Intact, Traced

\* A span that has left its text or drifted in it is in a row the join reports.
THEOREM DriftIsFound == EvidenceSpec => []StaleFindsDrift
<1>1. QED
  BY InitEvidence, NextEvidence, EvidenceBounds, PTL DEF EvidenceSpec

-----------------------------------------------------------------------------
(***************************************************************************)
(* Scores and their instruments                                            *)
(***************************************************************************)

\* What the snapshot keeps is of the type of what it is compared with.
ScoresInv ==
    /\ InstTypeOK
    /\ baseline.stamp.gold \in [Item -> Form]
    /\ baseline.stamp.policy_behavior \in [Probes -> Form]

LEMMA InitScores == InstInit => ScoresInv
<1> SUFFICES ASSUME InstInit PROVE ScoresInv
  OBVIOUS
<1>1. Correct \in SUBSET Item
  BY DEF Correct
<1>2. Cardinality(Correct) \in 0..Cardinality(Item)
  BY <1>1, InstrumentAssumption, FS_Subset, FS_CardinalityType DEF InstrumentAssumption
<1>3. /\ baseline.score = Cardinality(Correct) /\ baseline.stamp.gold = labels
      /\ baseline.stamp.policy_behavior = [p \in Probes |-> normalizer[p]]
  BY DEF InstInit, Snapshot, Stamp, Score, BehaviourHash
<1>4. QED
  BY <1>2, <1>3, InstrumentAssumption
     DEF InstInit, ScoresInv, InstTypeOK, Normalizers, InstrumentAssumption

LEMMA NextScores == ScoresInv /\ [InstNext]_instVars => ScoresInv'
<1> SUFFICES ASSUME ScoresInv, [InstNext]_instVars PROVE ScoresInv'
  OBVIOUS
<1> USE DEF ScoresInv, InstTypeOK, Normalizers
<1>1. ASSUME NEW n \in Normalizers, SwapNormalizers(n) \/ EditPolicy(n) PROVE ScoresInv'
  BY <1>1 DEF SwapNormalizers, EditPolicy
<1>2. ASSUME NEW i \in Item, NEW v \in Form, CorrectLabel(i, v) \/ ChangeSystem(i, v)
      PROVE  ScoresInv'
  BY <1>2 DEF CorrectLabel, ChangeSystem
<1>3. CASE UNCHANGED instVars
  BY <1>3 DEF instVars
<1>4. QED
  BY <1>1, <1>2, <1>3 DEF InstNext

LEMMA ScoresCompare == ScoresInv => ScoresAreTheSystem
<1> SUFFICES ASSUME ScoresInv PROVE ScoresAreTheSystem
  OBVIOUS
<1> DEFINE stamp == baseline.stamp
<1>1. ASSUME Comparable(baseline, Snapshot), Probes = Form
      PROVE  Snapshot.score = UnderBaseline
  <2>1. stamp.gold = labels /\ stamp.policy_behavior = BehaviourHash
    BY <1>1 DEF Comparable, Snapshot, Stamp
  <2>2. \A v \in Form : stamp.policy_behavior[v] = normalizer[v]
    BY <2>1, <1>1 DEF BehaviourHash
  <2>3. Correct = {i \in Item : stamp.policy_behavior[stamp.gold[i]]
                                   = stamp.policy_behavior[predictions[i]]}
    BY <2>1, <2>2 DEF Correct, ScoresInv, InstTypeOK, Normalizers
  <2>4. QED
    BY <2>3 DEF UnderBaseline, Snapshot, Score
<1>2. ASSUME ~Comparable(baseline, Snapshot), labels = stamp.gold
      PROVE  \E p \in Probes : normalizer[p] # stamp.policy_behavior[p]
  <2>1. BehaviourHash # stamp.policy_behavior
    BY <1>2 DEF Comparable, Snapshot, Stamp
  <2>2. QED
    BY <2>1 DEF BehaviourHash, ScoresInv, InstTypeOK, Normalizers
<1>3. QED
  BY <1>1, <1>2 DEF ScoresAreTheSystem

\* Two scores that may be compared differ by the system alone.
THEOREM ScoresCompareSystems == InstSpec => []ScoresAreTheSystem
<1>1. QED
  BY InitScores, NextScores, ScoresCompare, PTL DEF InstSpec

-----------------------------------------------------------------------------
(***************************************************************************)
(* Entity ids                                                              *)
(***************************************************************************)

\* From the first cut on, every actor of the wide string stands to the left of
\* its own id.
Shifted ==
    /\ IsInjective(wideIds) /\ Len(wideActors) <= Len(wideIds)
    /\ \A i \in 1..Len(wideActors) :
          IF i < firstCut THEN wideActors[i] = wideIds[i]
          ELSE \E j \in i + 1..Len(wideIds) : wideActors[i] = wideIds[j]

LinkInv ==
    /\ LinkTypeOK
    /\ Len(wideActors) <= Cardinality(Actor)
    /\ firstCut = Never => \A i \in DOMAIN actorRows :
                              i \in 1..Len(wideActors) /\ actorRows[i].name = wideActors[i]
    /\ wideIds # <<>> => Shifted
    /\ \A i \in DOMAIN actorRows : actorRows[i].entity \in {actorRows[i].name, NoLink}
    /\ Names(actorRows) \subseteq Range(wideActors)
    /\ \A a \in Range(wideActors) \ Names(actorRows) : a = Last(wideActors)

LEMMA ActorsCounted == Cardinality(Actor) \in Nat
  BY LinkAssumption, FS_CardinalityType DEF LinkAssumption

LEMMA InitLinks == LinkInit => LinkInv
<1> SUFFICES ASSUME LinkInit PROVE LinkInv
  OBVIOUS
<1> DEFINE n == Cardinality(Actor)
<1>1. n \in Nat
  BY ActorsCounted
<1>2. PICK actors \in SetToSeqs(Actor) :
         /\ wideActors = actors
         /\ actorRows = [i \in DOMAIN actors |-> [name |-> actors[i], entity |-> NoLink]]
  BY DEF LinkInit
<1>3. /\ wideActors \in [1..n -> Actor] /\ IsInjective(wideActors)
      /\ wideIds = <<>> /\ firstCut = Never
  BY <1>2 DEF SetToSeqs, IsInjective, LinkInit
<1>4. wideActors \in Seq(Actor) /\ Len(wideActors) = n
  BY <1>1, <1>3, SeqDef
<1>5. actorRows \in [1..n -> LinkRow]
  BY <1>2, <1>3 DEF LinkRow
<1>6. LinkTypeOK
  BY <1>1, <1>3, <1>4, <1>5 DEF LinkTypeOK, Never
<1>7. \A i \in 1..n : actorRows[i].name = wideActors[i] /\ actorRows[i].entity = NoLink
  BY <1>2, <1>3
<1>8. Names(actorRows) = Range(wideActors)
  BY <1>3, <1>5, <1>7 DEF Names, Range
<1>9. QED
  BY <1>1, <1>3, <1>4, <1>5, <1>6, <1>7, <1>8 DEF LinkInv

LEMMA LinkActorsStep == LinkInv /\ LinkActors => LinkInv'
<1> SUFFICES ASSUME LinkInv, LinkActors PROVE LinkInv'
  OBVIOUS
<1> USE DEF LinkInv, LinkTypeOK
<1>1. /\ wideIds' = wideActors /\ UNCHANGED <<wideActors, firstCut>> /\ firstCut = Never
      /\ actorRows' = [i \in DOMAIN actorRows |->
                          [name |-> actorRows[i].name, entity |-> wideActors[i]]]
  BY DEF LinkActors
<1>2. PICK ordinals \in SUBSET (1..Cardinality(Actor)) : actorRows \in [ordinals -> LinkRow]
  OBVIOUS
<1>3. \A i \in ordinals : i \in 1..Len(wideActors) /\ actorRows[i].name = wideActors[i]
  BY <1>1, <1>2
<1>4. actorRows' \in [ordinals -> LinkRow]
  BY <1>1, <1>2, <1>3 DEF LinkRow
<1>5. \A i \in ordinals : actorRows'[i].name = actorRows[i].name /\ actorRows'[i].entity = actorRows'[i].name
  BY <1>1, <1>2, <1>3
<1>6. Names(actorRows') = Names(actorRows)
  BY <1>2, <1>4, <1>5 DEF Names
<1>7. Shifted'
  <2>1. Len(wideActors) < firstCut
    BY <1>1, ActorsCounted DEF Never
  <2>2. QED
    BY <1>1, <2>1 DEF Shifted
<1>8. QED
  BY <1>1, <1>2, <1>3, <1>4, <1>5, <1>6, <1>7

LEMMA RemoveActorStep ==
    ASSUME NEW a \in Actor, LinkInv, RemoveActor(a)
    PROVE  LinkInv'
<1> USE DEF LinkInv, LinkTypeOK
<1>1. actorRows' = [i \in Kept(a) |-> actorRows[i]] /\ wideIds' = wideIds
  BY DEF RemoveActor, Restrict
<1>2. PICK ordinals \in SUBSET (1..Cardinality(Actor)) : actorRows \in [ordinals -> LinkRow]
  OBVIOUS
<1>3. Kept(a) \in SUBSET ordinals /\ Kept(a) \in SUBSET (1..Cardinality(Actor))
  BY <1>2 DEF Kept
<1>4. actorRows' \in [Kept(a) -> LinkRow]
  BY <1>1, <1>2, <1>3
<1>5. Names(actorRows') = Names(actorRows) \ {a} /\ a \in Names(actorRows)
  <2>1. DOMAIN actorRows' = Kept(a) /\ \A i \in Kept(a) : actorRows'[i] = actorRows[i]
    BY <1>1
  <2>2. Names(actorRows') = {actorRows[i].name : i \in Kept(a)}
    BY <2>1 DEF Names
  <2>3. QED
    BY <2>2 DEF Names, Kept, RemoveActor
<1>6. PICK n \in 1..Len(wideActors) : wideActors[n] = a
  BY <1>5 DEF Range
<1>7. \A i \in DOMAIN actorRows' : actorRows'[i].entity \in {actorRows'[i].name, NoLink}
  BY <1>1, <1>2, <1>3
<1>8. CASE Cuts(a) = {} /\ UNCHANGED <<wideActors, firstCut>>
  <2>1. n = Len(wideActors)
    BY <1>6, <1>8 DEF Cuts
  <2>2. Last(wideActors) = a
    BY <2>1, <1>6 DEF Last
  <2>3. firstCut' = Never => \A i \in DOMAIN actorRows' :
            i \in 1..Len(wideActors') /\ actorRows'[i].name = wideActors'[i]
    BY <1>1, <1>2, <1>3, <1>8
  <2>4. wideIds' # <<>> => Shifted'
    BY <1>1, <1>8 DEF Shifted
  <2>5. QED
    BY <1>3, <1>4, <1>5, <1>7, <1>8, <1>1, <2>2, <2>3, <2>4
<1>9. ASSUME NEW c \in Cuts(a),
             wideActors' = RemoveAt(wideActors, c), firstCut' = Min({firstCut, c})
      PROVE  LinkInv'
  <2>1. /\ c \in 1..Len(wideActors) - 1 /\ c \in 1..Len(wideActors)
        /\ wideActors[c] = a /\ Len(wideActors) \in Nat
    BY DEF Cuts
  <2>2. /\ wideActors' \in Seq(Actor) /\ Len(wideActors') = Len(wideActors) - 1
        /\ \A k \in 1..Len(wideActors) - 1 :
              wideActors'[k] = IF k < c THEN wideActors[k] ELSE wideActors[k + 1]
    BY <2>1, <1>9, Removed
  <2>3. /\ firstCut \in Nat /\ Cardinality(Actor) \in Nat /\ firstCut' \in {firstCut, c}
        /\ firstCut' <= firstCut /\ firstCut' <= c
    <3>1. firstCut \in Nat /\ Cardinality(Actor) \in Nat /\ {firstCut, c} \in SUBSET Nat
      BY <2>1, ActorsCounted DEF Never
    <3>2. QED
      BY <3>1, <1>9, MinOfNumbers
  <2>4. firstCut' \in 1..Never /\ firstCut' # Never
    BY <2>1, <2>3 DEF Never
  <2>5. /\ IsInjective(wideActors') /\ Range(wideActors') = Range(wideActors) \ {a}
        /\ Last(wideActors') = Last(wideActors)
    BY <2>1, <1>9, RemovedElement
  <2>8. ASSUME wideIds' # <<>> PROVE Shifted'
    <3>1. Shifted
      BY <2>8, <1>1
    <3>2. IsInjective(wideIds') /\ Len(wideActors') <= Len(wideIds')
      BY <3>1, <1>1, <2>1, <2>2 DEF Shifted
    <3>0. 1..Len(wideActors') = 1..Len(wideActors) - 1
      BY <2>2
    <3>3. ASSUME NEW i \in 1..Len(wideActors) - 1
          PROVE  IF i < firstCut' THEN wideActors'[i] = wideIds'[i]
                 ELSE \E j \in i + 1..Len(wideIds') : wideActors'[i] = wideIds'[j]
      <4>1. CASE i < c
        <5>0. wideActors'[i] = wideActors[i]
          BY ONLY <2>2, <3>3, <4>1
        <5>1. wideActors'[i] = wideActors[i] /\ i \in 1..Len(wideActors)
          BY ONLY <2>1, <3>3, <5>0
        <5>2. i < firstCut' <=> i < firstCut
          BY <2>3, <4>1, <2>1
        <5>3. QED
          BY <5>1, <5>2, <3>1, <1>1 DEF Shifted
      <4>2. CASE i >= c
        <5>0. c \in Int /\ i \in Int /\ ~ (i < c)
          BY ONLY <2>1, <3>3, <4>2
        <5>1. wideActors'[i] = wideActors[i + 1] /\ i + 1 \in 1..Len(wideActors)
          BY ONLY <2>1, <2>2, <3>3, <5>0
        <5>2. ~ (i < firstCut')
          BY <2>3, <4>2, <2>1
        <5>3. Len(wideIds) \in Nat /\ Len(wideActors) <= Len(wideIds)
          BY <3>1 DEF Shifted
        <5>4. \E j \in i + 1..Len(wideIds) : wideActors[i + 1] = wideIds[j]
          <6>1. CASE i + 1 < firstCut
            <7>1. wideActors[i + 1] = wideIds[i + 1]
              BY <5>1, <6>1, <3>1 DEF Shifted
            <7>2. i + 1 \in i + 1..Len(wideIds)
              BY <5>1, <5>3
            <7>3. QED
              BY <7>1, <7>2
          <6>2. CASE ~ (i + 1 < firstCut)
            <7>1. PICK j \in i + 1 + 1..Len(wideIds) : wideActors[i + 1] = wideIds[j]
              BY <5>1, <6>2, <3>1 DEF Shifted
            <7>2. j \in i + 1..Len(wideIds)
              BY <5>1, <5>3
            <7>3. QED
              BY <7>1, <7>2
          <6>3. QED
            BY <6>1, <6>2
        <5>5. QED
          BY <5>1, <5>2, <5>4, <1>1
      <4>3. QED
        BY <4>1, <4>2, <2>1, <2>2
    <3>4. QED
      BY <3>2, <3>3, <3>0 DEF Shifted
  <2>9. QED
    BY <1>1, <1>3, <1>4, <1>5, <1>7, <2>1, <2>2, <2>3, <2>4, <2>5, <2>8
<1>10. QED
  BY <1>8, <1>9 DEF RemoveActor

LEMMA NextLinks == LinkInv /\ [LinkNext]_linkVars => LinkInv'
<1>1. LinkInv /\ UNCHANGED linkVars => LinkInv'
  BY DEF LinkInv, LinkTypeOK, Shifted, Names, linkVars
<1>2. QED
  BY <1>1, LinkActorsStep, RemoveActorStep DEF LinkNext

LEMMA LinksKeepRows == LinkInv => LinksStayWithTheirRow
<1> SUFFICES ASSUME LinkInv, NEW i \in DOMAIN WidePairs
             PROVE  WidePairs[i][1] = WidePairs[i][2] <=> i < firstCut
  BY DEF LinksStayWithTheirRow, LinkInv
<1> DEFINE both == {Len(wideActors), Len(wideIds)}
<1>1. /\ Len(wideActors) \in both /\ Len(wideIds) \in both /\ both \in SUBSET Nat
      /\ Len(wideActors) \in Nat /\ Len(wideIds) \in Nat /\ firstCut \in Nat
  BY ActorsCounted DEF LinkInv, LinkTypeOK, Never
<1>2. i \in 1..Min(both) /\ WidePairs[i] = <<wideActors[i], wideIds[i]>>
  BY DEF WidePairs
<1> HIDE DEF both
<1>3. Min(both) \in Nat /\ Min(both) <= Len(wideActors) /\ Min(both) <= Len(wideIds)
  BY <1>1, MinOfNumbers
<1>4. i \in 1..Len(wideActors) /\ i \in 1..Len(wideIds)
  BY <1>1, <1>2, <1>3
<1>5. Shifted
  BY <1>4, <1>1 DEF LinkInv
<1>6. CASE i < firstCut
  BY <1>2, <1>4, <1>5, <1>6 DEF Shifted
<1>7. CASE ~ (i < firstCut)
  <2>1. PICK j \in i + 1..Len(wideIds) : wideActors[i] = wideIds[j]
    BY <1>4, <1>5, <1>7 DEF Shifted
  <2>2. j \in 1..Len(wideIds) /\ j # i
    BY <1>1, <1>4
  <2>3. wideIds[j] # wideIds[i]
    BY <2>2, <1>1, <1>4, <1>5 DEF Shifted, IsInjective, LinkInv, LinkTypeOK
  <2>4. QED
    BY <1>2, <1>7, <2>1, <2>3
<1>8. QED
  BY <1>6, <1>7

\* The normalized id goes with its row; from the first cut on, every pair of the
\* wide string is wrong.
THEOREM LinksGoWithRows == LinkSpec => []LinksStayWithTheirRow
<1>1. QED
  BY InitLinks, NextLinks, LinksKeepRows, PTL DEF LinkSpec

-----------------------------------------------------------------------------
(***************************************************************************)
(* All parts side by side                                                  *)
(***************************************************************************)

\* Whichever part runs, each part starts and moves as it does alone.
LEMMA LabParts ==
    /\ LabInit => Init /\ PayInit /\ EvidenceInit /\ LinkInit /\ InstInit
    /\ [LabNext]_labVars => /\ [Next]_vars /\ [PayNext]_payVars
                            /\ [EvidenceNext]_evidenceVars /\ [LinkNext]_linkVars
                            /\ [InstNext]_instVars
<1>1. UNCHANGED labVars => UNCHANGED <<vars, payVars, evidenceVars, linkVars, instVars>>
  BY DEF labVars
<1>2. QED
  BY <1>1 DEF LabInit, LabNext

LEMMA PartsOfTheLab ==
    LabSpec => /\ Spec /\ PaySpec /\ EvidenceSpec /\ LinkSpec /\ InstSpec
  BY LabParts, PTL DEF LabSpec, Spec, PaySpec, EvidenceSpec, LinkSpec, InstSpec

\* The variables of every part keep their types.
THEOREM RecordTypes == LabSpec => []LabTypeOK
<1>1. Spec => []OutboxInv
  BY OutboxInvariant
<1>2. PaySpec => []PayloadInv
  BY PayloadInvariant
<1>3. EvidenceSpec => []EvidenceInv
  BY InitEvidence, NextEvidence, PTL DEF EvidenceSpec
<1>4. LinkSpec => []LinkInv
  BY InitLinks, NextLinks, PTL DEF LinkSpec
<1>5. InstSpec => []ScoresInv
  BY InitScores, NextScores, PTL DEF InstSpec
<1>6. OutboxInv /\ PayloadInv /\ EvidenceInv /\ LinkInv /\ ScoresInv => LabTypeOK
  BY DEF OutboxInv, PayloadInv, EvidenceInv, LinkInv, ScoresInv, LabTypeOK
<1>7. QED
  BY <1>1, <1>2, <1>3, <1>4, <1>5, <1>6, PartsOfTheLab, PTL

\* Whatever happens to a document later, its spans, the ids of its actors and
\* the scores over it keep their meaning or are reported.
THEOREM RecordsStayTrue == LabSpec => []RecordsKeepTheirMeaning
<1>1. StaleFindsDrift /\ LinksStayWithTheirRow /\ ScoresAreTheSystem => RecordsKeepTheirMeaning
  BY DEF RecordsKeepTheirMeaning
<1>2. QED
  BY <1>1, PartsOfTheLab, DriftIsFound, LinksGoWithRows, ScoresCompareSystems, PTL
=============================================================================
