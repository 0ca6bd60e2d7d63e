------------------------ MODULE MCIdempotentEndpoint ------------------------
\* Instances of IdempotentEndpoint for TLC: two keys; the first is sent three
\* times, the last of them with another body.
EXTENDS IdempotentEndpoint

CONSTANTS k1, k2, docA, docB, docC

FiveRequests == 1..5
Keys5 == <<k1, k1, k1, k2, k2>>
Docs5 == <<docA, docA, docB, docB, docC>>
FailedDocs5 == <<docA, docA, docB, docC, docC>>
FailingC == {docC}

Configured(mode, inflight, natural_key) ==
    [mode |-> mode, inflight |-> inflight, natural_key |-> natural_key,
     store_response |-> TRUE, fingerprint |-> TRUE]

\* the configurations idempotency_lab.py serves with, and the claimed key
\* together with the constraint
AllPolicies ==
    {Configured("none", "wait", FALSE), Configured("none", "wait", TRUE),
     Configured("check_insert", "wait", FALSE),
     Configured("unique", "wait", FALSE), Configured("unique", "wait", TRUE),
     Configured("unique", "conflict", FALSE), Configured("unique", "again", FALSE),
     [Configured("unique", "wait", FALSE) EXCEPT !.store_response = FALSE],
     [Configured("unique", "wait", FALSE) EXCEPT !.fingerprint = FALSE]}

WaitPolicy == {Configured("unique", "wait", FALSE)}
=============================================================================
