---------------------------- MODULE EventService ----------------------------
(***************************************************************************)
(* The simulated service of ops-lab/ops.py: a timeline of releases with a  *)
(* canary, requests routed to a live release and processed with retries,   *)
(* the events they leave (registry_lab.py asks which release produced      *)
(* them), and the failure queue drained again before and after a fix       *)
(* (dlq_lab.py, sections 3 and 4).                                         *)
(*                                                                         *)
(* process() is a function of the document, the release, the draw and the  *)
(* day: replayed with the same four it gives the same event.  What a call  *)
(* of the provider gives is left open.                                     *)
(***************************************************************************)
EXTENDS Naturals, Sequences, FiniteSets, FiniteSetsExt

CONSTANTS
    MaxSeq,         \* requests of traffic()
    LastDay,        \* days of the timeline, from 0
    ReleaseDay,     \* ReleaseDay[r]: the first day release r sees traffic
    CanaryDays,     \* CanaryDays[r]: its days of partial rollout
    ReskillDay,     \* SILENT_RESKILL_DAY
    Retries,        \* the argument retries of process()
    Record          \* records the provider may return

ASSUME EventServiceAssumption ==
    /\ {MaxSeq, LastDay, ReskillDay, Retries} \subseteq Nat
    /\ ReleaseDay \in Seq(Nat) /\ Len(ReleaseDay) > 0 /\ ReleaseDay[1] = 0
    /\ \A r \in 2..Len(ReleaseDay) : ReleaseDay[r - 1] < ReleaseDay[r]
    /\ CanaryDays \in [1..Len(ReleaseDay) -> Nat]

VARIABLES
    day,
    serving,    \* the request process() is working on
    events,     \* what process() returned, in the order of the requests
    keyed,      \* fingerprints in the table with a key
    inserted,   \* rows the replay added to the table without a key
    lostAck,    \* stored requests whose acknowledgement was lost
    drained,    \* items replayed before the fix
    fixed       \* items replayed under the newest release, and the outcome

svVars == <<day, serving, events, keyed, inserted, lostAck, drained, fixed>>

Release == 1..Len(ReleaseDay)
Newest == Len(ReleaseDay)
Outcome == {"stored", "invalid", "error"}
NoRecord == "no_record"
IdleService == [at |-> "idle", item |-> 0, release |-> 1, attempts |-> 0]

SvTypeOK ==
    /\ day \in 0..LastDay
    /\ serving \in [at : {"idle", "request", "replay"}, item : 0..MaxSeq,
                    release : Release, attempts : 0..Retries]
    /\ events \in Seq([day : 0..LastDay, release : Release, outcome : Outcome,
                       record : Record \cup {NoRecord}])
    /\ keyed \subseteq (1..MaxSeq) \X Record
    /\ inserted \in Nat
    /\ lostAck \subseteq 1..MaxSeq /\ drained \subseteq 1..MaxSeq
    /\ fixed \subseteq (1..MaxSeq) \X Outcome

SvInit ==
    /\ day = 0
    /\ serving = IdleService
    /\ events = <<>>
    /\ keyed = {} /\ inserted = 0
    /\ lostAck = {} /\ drained = {} /\ fixed = {}

\* every release up to today's stays in the rotation
LiveOn_All(d) == {r \in Release : ReleaseDay[r] <= d}

\* releases_on: the newest, and during its canary the one before it
LiveOn(d) ==
    LET new == Max({r \in Release : ReleaseDay[r] <= d}) IN
    IF new > 1 /\ d < ReleaseDay[new] + CanaryDays[new] THEN {new - 1, new} ELSE {new}

\* fingerprint by content alone
Fingerprint_Content(i, record) == <<1, record>>

\* the request and the extracted content
Fingerprint(i, record) == <<i, record>>

Failures == {i \in DOMAIN events : events[i].outcome # "stored"}
Drained == Len(events) = MaxSeq /\ serving.at = "idle"

-----------------------------------------------------------------------------
NextDay ==
    /\ serving.at = "idle" /\ day < LastDay /\ Len(events) < MaxSeq
    /\ day' = day + 1
    /\ UNCHANGED <<serving, events, keyed, inserted, lostAck, drained, fixed>>

\* traffic(): the next request goes to one of the live releases
Route ==
    /\ serving.at = "idle" /\ Len(events) < MaxSeq
    /\ \E r \in LiveOn(day) :
          serving' = [at |-> "request", item |-> Len(events) + 1, release |-> r,
                      attempts |-> 0]
    /\ UNCHANGED <<day, events, keyed, inserted, lostAck, drained, fixed>>

\* process() returns: the event of a request, or the verdict on a replayed item
Ends(outcome, record) ==
    /\ serving' = IdleService
    /\ IF serving.at = "request"
       THEN /\ events' = Append(events, [day |-> day, release |-> serving.release,
                   outcome |-> outcome, record |-> record])
            /\ keyed' = IF outcome = "stored"
                        THEN keyed \cup {Fingerprint(serving.item, record)} ELSE keyed
            /\ UNCHANGED fixed
       ELSE /\ fixed' = fixed \cup {<<serving.item, outcome>>}
            /\ UNCHANGED <<events, keyed>>
    /\ UNCHANGED <<day, inserted, lostAck, drained>>

\* if not thrown.transient or attempt == retries: the request ends
MayTryAgain(transient) == transient /\ serving.attempts < Retries

ProviderThrows ==
    /\ serving.at # "idle"
    /\ \E transient \in BOOLEAN :
          IF MayTryAgain(transient)
          THEN /\ serving' = [serving EXCEPT !.attempts = @ + 1]
               /\ UNCHANGED <<day, events, keyed, inserted, lostAck, drained, fixed>>
          ELSE Ends("error", NoRecord)

\* the answer parses and validates, or does not; the handler's own bug may
\* still turn a valid record into an error
ProviderAnswers ==
    /\ serving.at # "idle"
    /\ \/ \E record \in Record : Ends("stored", record)
       \/ Ends("invalid", NoRecord)
       \/ Ends("error", NoRecord)

LoseAck(i) ==
    /\ Drained /\ drained = {} /\ fixed = {}
    /\ events[i].outcome = "stored" /\ i \notin lostAck
    /\ lostAck' = lostAck \cup {i}
    /\ UNCHANGED <<day, serving, events, keyed, inserted, drained, fixed>>

\* section 3: the same release and the same draw give the same event
ReplaySame(i) ==
    /\ Drained /\ i \in (Failures \cup lostAck) \ drained
    /\ drained' = drained \cup {i}
    /\ IF events[i].outcome = "stored"
       THEN /\ inserted' = inserted + 1
            /\ keyed' = keyed \cup {Fingerprint(i, events[i].record)}
       ELSE UNCHANGED <<inserted, keyed>>
    /\ UNCHANGED <<day, serving, events, lostAck, fixed>>

\* section 4: the failures again, under the fixed release
ReplayFixed(i) ==
    /\ Drained /\ i \in Failures /\ \A o \in Outcome : <<i, o>> \notin fixed
    /\ serving' = [at |-> "replay", item |-> i, release |-> Newest, attempts |-> 0]
    /\ UNCHANGED <<day, events, keyed, inserted, lostAck, drained, fixed>>

SvDone ==
    /\ Drained /\ drained = Failures \cup lostAck
    /\ \A i \in Failures : \E o \in Outcome : <<i, o>> \in fixed
    /\ UNCHANGED svVars

SvNext ==
    \/ NextDay \/ Route \/ ProviderThrows \/ ProviderAnswers
    \/ \E i \in DOMAIN events : LoseAck(i) \/ ReplaySame(i) \/ ReplayFixed(i)
    \/ SvDone

SvSpec == SvInit /\ [][SvNext]_svVars

-----------------------------------------------------------------------------
Stored == DOMAIN events \ Failures

\* A replay before the fix is pure duplication, and only where no key is used:
\* the table with a key holds one row per stored request whatever is replayed,
\* two requests with the same content included; the other has gained one row
\* for each item whose acknowledgement was lost.
ReplayAddsNothing ==
    /\ keyed = {<<i, events[i].record>> : i \in Stored}
    /\ inserted = Cardinality(drained \cap lostAck)
    /\ \A f \in fixed : f[1] \in Failures

\* what the records of a release were produced by
Behaviours(r) == {events[i].day >= ReskillDay :
                  i \in {j \in DOMAIN events : events[j].release = r}}

\* Selecting by date finds every record of a release and, beside them, only
\* records of the release before it, written during the canary.
DatesOverselect ==
    \A i \in DOMAIN events, r \in Release :
       LET from == ReleaseDay[r]
           to == IF r = Newest THEN LastDay + 1 ELSE ReleaseDay[r + 1]
           byDate == from <= events[i].day /\ events[i].day < to
       IN /\ byDate /\ events[i].release # r =>
                events[i].release = r - 1 /\ events[i].day < from + CanaryDays[r]
          /\ events[i].release = r /\ ~byDate =>
                r # Newest /\ events[i].day < to + CanaryDays[r + 1]

\* The release stamped on a record names one behaviour unless the provider
\* changed the model while that release was live.
StampsNameBehaviours ==
    \A r \in Release :
       Cardinality(Behaviours(r)) > 1 =>
          /\ ReleaseDay[r] < ReskillDay
          /\ r = Newest \/ ReskillDay < ReleaseDay[r + 1] + CanaryDays[r + 1]

HistoryIsAttributable == DatesOverselect /\ StampsNameBehaviours
=============================================================================
