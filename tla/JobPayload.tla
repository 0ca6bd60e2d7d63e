----------------------------- MODULE JobPayload -----------------------------
(***************************************************************************)
(* What a job carries, an id or a copy of the body: section 4 of           *)
(* service-lab/jobs_lab.py.  Documents are corrected and deleted by others *)
(* while one worker takes the jobs in order: it claims one, takes the body *)
(* from the payload or from the table, and completes the job.              *)
(***************************************************************************)
EXTENDS Naturals, Sequences

CONSTANTS
    PayDoc,
    MaxCorrections,     \* bound on the corrections of a document
    MaxPayloads         \* bound on the jobs

ASSUME PayloadAssumption == {MaxCorrections, MaxPayloads} \subseteq Nat

VARIABLES
    version,    \* the body of each document in the table
    removed,    \* documents deleted from it
    payloads    \* the jobs in the order of their ids, with what was true when

payVars == <<version, removed, payloads>>

Version == 0..MaxCorrections
Payload == [doc : PayDoc, copied : BOOLEAN, at : {"queued", "claimed", "read", "done", "failed"},
            queuedAs : Version,     \* the version when it was enqueued: the copy
            claimedAs : Version,    \* history: the version when it was claimed
            goneAtClaim : BOOLEAN,  \* history: deleted by then
            seen : Version]         \* what the worker extracts

PayTypeOK ==
    /\ version \in [PayDoc -> Version] /\ removed \subseteq PayDoc
    /\ payloads \in Seq(Payload) /\ Len(payloads) <= MaxPayloads

PayInit ==
    /\ version = [d \in PayDoc |-> 0] /\ removed = {}
    /\ payloads = <<>>

\* enqueue(conn, doc) or enqueue(conn, doc, payload={"body": ...})
EnqueueFor(d, copied) ==
    /\ d \notin removed /\ Len(payloads) < MaxPayloads
    /\ payloads' = Append(payloads, [doc |-> d, copied |-> copied, at |-> "queued",
           queuedAs |-> version[d], claimedAs |-> 0, goneAtClaim |-> FALSE, seen |-> 0])
    /\ UNCHANGED <<version, removed>>

\* UPDATE documents SET body: a re-fetch, an OCR fix, a redaction
CorrectBody(d) ==
    /\ d \notin removed /\ version[d] < MaxCorrections
    /\ version' = [version EXCEPT ![d] = @ + 1]
    /\ UNCHANGED <<removed, payloads>>

DeleteDoc(d) ==
    /\ d \notin removed
    /\ removed' = removed \cup {d}
    /\ UNCHANGED <<version, payloads>>

\* the one worker works on the first job that is not over
Over(j) == payloads[j].at \in {"done", "failed"}
Working(j, at) == payloads[j].at = at /\ \A i \in 1..j - 1 : Over(i)

ClaimPayload(j) ==
    /\ Working(j, "queued")
    /\ payloads' = [payloads EXCEPT ![j].at = "claimed",
           ![j].claimedAs = version[payloads[j].doc],
           ![j].goneAtClaim = payloads[j].doc \in removed]
    /\ UNCHANGED <<version, removed>>

\* a worker that trusts what the document was when the job was enqueued
TakeBody_Snapshot(j) ==
    /\ Working(j, "claimed")
    /\ payloads' = [payloads EXCEPT ![j].at = "read", ![j].seen = payloads[j].queuedAs]
    /\ UNCHANGED <<version, removed>>

\* the copy, or the row: without a row fetchone() gives None and the worker stops
TakeBody(j) ==
    LET p == payloads[j] IN
    /\ Working(j, "claimed")
    /\ payloads' = [payloads EXCEPT ![j] =
           IF p.copied THEN [p EXCEPT !.at = "read", !.seen = p.queuedAs]
           ELSE IF p.doc \in removed THEN [p EXCEPT !.at = "failed"]
           ELSE [p EXCEPT !.at = "read", !.seen = version[p.doc]]]
    /\ UNCHANGED <<version, removed>>

CompletePayload(j) ==
    /\ Working(j, "read")
    /\ payloads' = [payloads EXCEPT ![j].at = "done"]
    /\ UNCHANGED <<version, removed>>

PayNext ==
    \/ \E d \in PayDoc : EnqueueFor(d, TRUE) \/ EnqueueFor(d, FALSE) \/ CorrectBody(d) \/ DeleteDoc(d)
    \/ \E j \in DOMAIN payloads : ClaimPayload(j) \/ TakeBody(j) \/ CompletePayload(j)

PaySpec == PayInit /\ [][PayNext]_payVars

-----------------------------------------------------------------------------
\* "Pass the id and reload inside the worker": what an id job extracts is no
\* older than the document was when the job was claimed, and a document deleted
\* by then is never extracted.  A job with a copy extracts what was there at
\* enqueue, deleted or not.  Only a change between the reload and complete()
\* can be missed by an id job; no job is newer than its document.
IdsReload ==
    \A j \in DOMAIN payloads :
       LET p == payloads[j] IN
       /\ p.at \in {"read", "done"} => p.seen <= version[p.doc]
       /\ p.at \in {"read", "done"} /\ ~p.copied => p.seen >= p.claimedAs /\ ~p.goneAtClaim
       /\ p.at \in {"read", "done"} /\ p.copied => p.seen <= p.claimedAs
       /\ p.at = "failed" => ~p.copied /\ p.doc \in removed
=============================================================================
