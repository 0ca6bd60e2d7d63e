------------------------------- MODULE Evidence -------------------------------
(***************************************************************************)
(* Spans that point into documents: store-lab/provenance_lab.py.  A value  *)
(* is located in the body when it is extracted, and the hash of the body   *)
(* is written beside the span; the document may be fetched again, with any *)
(* other text, at any time.  A text is a sequence of characters, and its   *)
(* hash is modelled by the text itself.                                    *)
(***************************************************************************)
EXTENDS Naturals, Sequences, FiniteSets, FiniteSetsExt

CONSTANTS
    Source,
    Texts,          \* what a body may say
    Values          \* what may be extracted, in the text or not

ASSUME EvidenceAssumption ==
    \A t \in Texts \cup Values : t \in Seq({"a", "b"})

VARIABLES
    body,           \* sources.body
    bodySha,        \* sources.body_sha
    provenance      \* its rows; span 0 stands for NULL

evidenceVars == <<body, bodySha, provenance>>

Row == [source : Source, value : Values, start : Nat, sha : Texts]

EvidenceTypeOK ==
    /\ body \in [Source -> Texts] /\ bodySha \in [Source -> Texts]
    /\ provenance \subseteq Row

EvidenceInit ==
    /\ body \in [Source -> Texts] /\ bodySha = body
    /\ provenance = {}

\* now: what the body says at a place, cut off at its end
At(text, start, len) ==
    SubSeq(text, start, Min({Len(text), start + len - 1}))

\* body.find(value): the first place, or none
Find(text, value) ==
    LET places == {i \in 1..Len(text) : At(text, i, Len(value)) = value}
    IN  IF value = <<>> \/ places = {} THEN 0 ELSE Min(places)

\* INSERT OR IGNORE: one row per value of a source
Trace(s, v) ==
    /\ \A r \in provenance : ~ (r.source = s /\ r.value = v)
    /\ provenance' = provenance \cup
          {[source |-> s, value |-> v, start |-> Find(body[s], v), sha |-> bodySha[s]]}
    /\ UNCHANGED <<body, bodySha>>

\* the new text is stored under the hash of the old one
Refetch_KeepsSha(s, text) ==
    /\ body' = [body EXCEPT ![s] = text]
    /\ UNCHANGED <<bodySha, provenance>>

\* UPDATE sources SET body=?, body_sha=?
Refetch(s, text) ==
    /\ body' = [body EXCEPT ![s] = text]
    /\ bodySha' = [bodySha EXCEPT ![s] = text]
    /\ UNCHANGED provenance

EvidenceNext ==
    \E s \in Source :
       \/ \E v \in Values : Trace(s, v)
       \/ \E text \in Texts : Refetch(s, text)

EvidenceSpec == EvidenceInit /\ [][EvidenceNext]_evidenceVars

-----------------------------------------------------------------------------
Traced == {r \in provenance : r.start > 0}

OutOfBounds(r) == r.start + Len(r.value) - 1 > Len(body[r.source])

\* the verdicts of section 3
Intact(r) == ~OutOfBounds(r) /\ At(body[r.source], r.start, Len(r.value)) = r.value
SilentDrift(r) == ~OutOfBounds(r) /\ ~Intact(r)

\* the join of section 4
Stale == {r \in provenance : r.sha # bodySha[r.source]}

\* "It is exact: every span whose document has changed since the span was
\* recorded": a span that is out of bounds or has drifted silently belongs to a
\* row the join reports, and a row it does not report is still what a new
\* extraction would write.  A document put back to what it said clears it.
StaleFindsDrift ==
    /\ \A r \in Traced : OutOfBounds(r) \/ SilentDrift(r) => r \in Stale
    /\ \A r \in provenance \ Stale : r.start = Find(body[r.source], r.value)
    /\ \A r, q \in provenance : r.source = q.source /\ r.value = q.value => r = q
=============================================================================
