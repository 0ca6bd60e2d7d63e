------------------------------ MODULE MCOutbox ------------------------------
(***************************************************************************)
(* What is stored about a document and has to stay true of it, side by     *)
(* side: two documents ingested through the outbox, one with the row       *)
(* first, one with the job first, and one further relay; what a job        *)
(* carries; the spans that point into a document; the entities its actors  *)
(* are linked to; the instruments that score what was extracted.  They     *)
(* share nothing: the first state picks one, the others stay as they are.  *)
(***************************************************************************)
EXTENDS Outbox, JobPayload, Evidence, EntityLinks, Instruments

CONSTANTS d1, d2, d3, d4, r1

FourDocs == {d1, d2, d3, d4}
Orders == [d \in FourDocs |-> IF d = d3 THEN "row_first"
                              ELSE IF d = d4 THEN "job_first" ELSE "outbox"]
OneRelayer == {r1}

\* A value may occur twice, at a shifted place, past the end, or not at all.
BodyTexts == {<<"a">>, <<"a", "b">>, <<"b", "a">>, <<"a", "a", "b">>, <<"b", "b", "a">>}
Extracted == {<<"a">>, <<"b">>, <<"a", "b">>, <<"b", "a">>}

VARIABLE lab    \* the part that runs

labVars == <<lab, vars, payVars, evidenceVars, linkVars, instVars>>

LabTypeOK == TypeOK /\ PayTypeOK /\ EvidenceTypeOK /\ LinkTypeOK /\ InstTypeOK

AForm == CHOOSE f \in Form : TRUE

\* The parts that do not run start from one state each.
LabInit ==
    /\ lab \in {"outbox", "payload", "evidence", "links", "scores"}
    /\ Init /\ PayInit /\ EvidenceInit /\ LinkInit /\ InstInit
    /\ lab # "evidence" => \A s \in Source : body[s] = <<"a">>
    /\ lab # "links" => wideActors = SetToSeq(Actor)
    /\ lab # "scores" => /\ labels = [i \in Item |-> AForm] /\ predictions = labels
                         /\ \A v \in Form : normalizer[v] = v

LabNext ==
    /\ UNCHANGED lab
    /\ \/ lab = "outbox" /\ Next
       \/ lab = "payload" /\ PayNext
       \/ lab = "evidence" /\ EvidenceNext
       \/ lab = "links" /\ LinkNext
       \/ lab = "scores" /\ InstNext
    /\ lab # "outbox" => UNCHANGED vars
    /\ lab # "payload" => UNCHANGED payVars
    /\ lab # "evidence" => UNCHANGED evidenceVars
    /\ lab # "links" => UNCHANGED linkVars
    /\ lab # "scores" => UNCHANGED instVars

\* FairSpec of the outbox, when it is the part that runs.
LabSpec ==
    /\ LabInit /\ [][LabNext]_labVars
    /\ \A p \in Relayer : WF_vars(lab = "outbox" /\ Relay(p))

-----------------------------------------------------------------------------
\* What was recorded about a document keeps its meaning: a span that no longer
\* points at its value is reported by the join on hashes (provenance_lab.py),
\* an entity id stays with its actor in the shape that keeps both in one row
\* (schema_lab.py), and two scores that may be compared differ by the system
\* alone (version.py).
RecordsKeepTheirMeaning == StaleFindsDrift /\ LinksStayWithTheirRow /\ ScoresAreTheSystem
=============================================================================
