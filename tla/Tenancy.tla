------------------------------- MODULE Tenancy -------------------------------
(***************************************************************************)
(* Six endpoints over two tenants' documents: the API of                   *)
(* service-lab/auth_lab.py, with the tenant in every query (fixed) or with *)
(* the decision inlined per endpoint, and the deployment of the fix.  Only *)
(* do_POST changes the tables; the other five are what a caller may read   *)
(* in a state.                                                             *)
(*                                                                         *)
(* A token carries claims and a signature over them; a signature is named  *)
(* by the tenant whose claims it was made for, and no tenant can make one  *)
(* for another's.                                                          *)
(***************************************************************************)
EXTENDS Naturals, FiniteSets

CONSTANTS
    Tenant,
    TenantDoc,
    OwnerOf         \* TENANTS, turned round

ASSUME TenancyAssumption ==
    /\ OwnerOf \in [TenantDoc -> Tenant]
    /\ "another_key" \notin Tenant

VARIABLES
    fixedApi,       \* API.fixed
    eventTable      \* rows of events: [doc, tenant, late], late once do_POST wrote them

tenVars == <<fixedApi, eventTable>>

TenTypeOK ==
    /\ fixedApi \in BOOLEAN
    /\ eventTable \subseteq [doc : TenantDoc, tenant : Tenant, late : BOOLEAN]

\* setup(): one event per document, stamped with its owner
TenInit ==
    /\ fixedApi \in BOOLEAN
    /\ eventTable = {[doc |-> d, tenant |-> OwnerOf[d], late |-> FALSE] : d \in TenantDoc}

DocsOf(t) == {d \in TenantDoc : OwnerOf[d] = t}

\* verify() with check_sig
Token == [claims : Tenant, signedFor : Tenant \cup {"another_key"}, expired : BOOLEAN]
Verified(token) == token.signedFor = token.claims /\ ~token.expired

\* the tokens a tenant can present: its own signature, or one of another key
Presents(t) == {k \in Token : k.signedFor \in {t, "another_key"}}

-----------------------------------------------------------------------------
\* AND tenant=?, in the fixed version
InQuery(owner, t) == fixedApi => owner = t

GetDocument(t, d) == IF OwnerOf[d] = t THEN {d} ELSE {}

\* ?ids=...: the first id decides
Batch(t, first, ids) ==
    IF OwnerOf[first] = t THEN {d \in ids \cup {first} : InQuery(OwnerOf[d], t)} ELSE {}

\* total counts the rows of the query, the page is cut from the visible ones
Search(t, matches) ==
    LET rows == {d \in matches : InQuery(OwnerOf[d], t)} IN
    [total |-> Cardinality(rows), visible |-> rows \cap DocsOf(t)]

Export(t) == {d \in TenantDoc : InQuery(OwnerOf[d], t)}

\* /events/{id}
GetEvents(t) == {e \in eventTable : InQuery(e.tenant, t)}

\* the document may be extracted for whoever names it
MayExtract_Anyone(t, d) == TRUE

\* do_POST: SELECT ... WHERE doc_id=? [AND tenant=?]
MayExtract(t, d) == InQuery(OwnerOf[d], t)

\* do_POST: the row is stamped with the caller's tenant; the extraction may fail
PostExtraction(token, d) ==
    /\ Verified(token) /\ MayExtract(token.claims, d)
    /\ eventTable' = eventTable \cup {[doc |-> d, tenant |-> token.claims, late |-> fixedApi]}
    /\ UNCHANGED fixedApi

DeployFix ==
    /\ ~fixedApi /\ fixedApi' = TRUE
    /\ UNCHANGED eventTable

TenNext ==
    \/ DeployFix
    \/ \E t \in Tenant : \E k \in Presents(t), d \in TenantDoc : PostExtraction(k, d)

TenSpec == TenInit /\ [][TenNext]_tenVars

-----------------------------------------------------------------------------
\* "The same rule pushed into every query": once the fix is deployed a tenant
\* reads documents of its own and nothing else, search counts nothing else, and
\* a verified token speaks for whoever holds it.  What "outlives the fix" is an
\* event copied before it: every row about another tenant's document was
\* written by a loose do_POST.  The endpoint with the denied-case test and the
\* page of /search are right in both versions.
TenantsReadTheirOwn ==
    \A t \in Tenant :
       /\ \A k \in Presents(t) : Verified(k) => k.claims = t
       /\ \A d \in TenantDoc : GetDocument(t, d) \subseteq DocsOf(t)
       /\ \A q \in SUBSET TenantDoc : Search(t, q).visible = q \cap DocsOf(t)
       /\ fixedApi =>
             /\ \A first \in TenantDoc, ids \in SUBSET TenantDoc :
                   Batch(t, first, ids) \subseteq DocsOf(t)
             /\ \A q \in SUBSET TenantDoc :
                   Search(t, q).total = Cardinality(q \cap DocsOf(t))
             /\ Export(t) = DocsOf(t)
             /\ \A e \in GetEvents(t) : e.tenant = t /\ (e.late => e.doc \in DocsOf(t))
=============================================================================
