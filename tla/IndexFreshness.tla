--------------------------- MODULE IndexFreshness ---------------------------
(***************************************************************************)
(* What an index still says about a document that was restricted, deleted  *)
(* or edited: zh-retrieval-lab/freshness_lab.py.  One index, three entry   *)
(* points (search, similar_to, preview), and META kept beside it.          *)
(*                                                                         *)
(* Documents are numbered in the order in which the index ranks them.  A   *)
(* query is the set of documents whose indexed text it matches.            *)
(***************************************************************************)
EXTENDS Naturals, FiniteSets

CONSTANTS
    IndexDoc,       \* numbers, best rank first
    Restricted,     \* documents with another acl than "public"
    PageSize,       \* k
    MaxEdits        \* bound on the edits

ASSUME FreshnessAssumption ==
    /\ IndexDoc \subseteq Nat /\ IsFiniteSet(IndexDoc) /\ Restricted \subseteq IndexDoc
    /\ PageSize \in Nat \ {0} /\ MaxEdits \in Nat

VARIABLES
    deleted,    \* META[d]["deleted"]
    updated,    \* META[d]["updated"], 0 at built_at
    indexed,    \* the documents in docs, terms, length and postings
    snippets,   \* the documents with a snippet
    text,       \* which text of d the corpus holds
    indexText,  \* which text of d the index was built from
    erased      \* documents hard_delete() was called for

indexVars == <<deleted, updated, indexed, snippets, text, indexText, erased>>

IndexTypeOK ==
    /\ {deleted, indexed, snippets, erased} \subseteq SUBSET IndexDoc
    /\ updated \in [IndexDoc -> Nat]
    /\ text \in [IndexDoc -> Nat] /\ indexText \in [IndexDoc -> Nat]

IndexInit ==
    /\ deleted = {} /\ erased = {}
    /\ indexed = IndexDoc /\ snippets = IndexDoc
    /\ updated = [d \in IndexDoc |-> 0]
    /\ text = updated /\ indexText = updated

BuiltAt == 0
Principal == BOOLEAN     \* whether it belongs to the team of the restricted documents

Visible(d, principal) == d \notin deleted /\ (d \in Restricted => principal)

\* rank(scores, k)
Ranked(S, k) == {d \in S : Cardinality({e \in S : e < d}) < k}

SearchPre(query, principal) ==
    Ranked({d \in query \cap indexed : Visible(d, principal)}, PageSize)

SearchPost(query, principal) ==
    {d \in Ranked(query \cap indexed, PageSize) : Visible(d, principal)}

\* 'more like this', for the document whose text makes this query
SimilarTo(d, query) == Ranked(query \cap indexed, PageSize + 1) \ {d}

Preview(d) == IF d \in snippets THEN {d} ELSE {}

-----------------------------------------------------------------------------
\* META[d]["deleted"] = True
FlagDelete(d) ==
    /\ d \notin deleted
    /\ deleted' = deleted \cup {d}
    /\ UNCHANGED <<updated, indexed, snippets, text, indexText, erased>>

\* the index is left for the next rebuild
HardDelete_Metadata(d) ==
    /\ d \notin erased
    /\ deleted' = deleted \cup {d}
    /\ snippets' = snippets \ {d}
    /\ erased' = erased \cup {d}
    /\ UNCHANGED <<updated, indexed, text, indexText>>

\* every store that holds the id forgets it
HardDelete(d) ==
    /\ d \notin erased
    /\ deleted' = deleted \cup {d}
    /\ snippets' = snippets \ {d}
    /\ indexed' = indexed \ {d}
    /\ erased' = erased \cup {d}
    /\ UNCHANGED <<updated, text, indexText>>

\* the document's text changes; the index is not rebuilt
Edit(d) ==
    /\ text[d] < MaxEdits
    /\ text' = [text EXCEPT ![d] = @ + 1]
    /\ updated' = [updated EXCEPT ![d] = @ + 1]
    /\ UNCHANGED <<deleted, indexed, snippets, indexText, erased>>

IndexNext == \E d \in IndexDoc : FlagDelete(d) \/ HardDelete(d) \/ Edit(d)

IndexSpec == IndexInit /\ [][IndexNext]_indexVars

-----------------------------------------------------------------------------
Query == SUBSET IndexDoc

\* the sweep of unreachable()
Reachable ==
    {d \in IndexDoc :
        \/ \E q \in Query, p \in Principal : d \in SearchPre(q, p) \cup SearchPost(q, p)
        \/ \E q \in Query, o \in IndexDoc \ {d} : d \in SimilarTo(o, q)
        \/ d \in Preview(d)}

\* A document deleted at the boundary is unreachable from every entry point,
\* whatever happened before and after; one deleted by its flag never comes back
\* through search, and an unprivileged principal never gets a restricted one.
ErasedIsUnreachable ==
    /\ erased \cap Reachable = {}
    /\ \A q \in Query, p \in Principal : \A d \in SearchPre(q, p) \cup SearchPost(q, p) :
          d \notin deleted /\ (d \in Restricted => p)

\* Filtering after ranking shortens the page and never changes it: what it
\* returns is the upper end of the page that filtering before ranking returns.
PostIsTopOfPre ==
    \A q \in Query, p \in Principal :
       LET pre == SearchPre(q, p)
           post == SearchPost(q, p) IN
       post \subseteq pre /\ \A a \in post, b \in pre \ post : a < b

\* the query of section 6: updated after the watermark
Changed == {d \in IndexDoc : updated[d] > BuiltAt}

\* The watermark lists exactly the documents whose indexed text is not their
\* text any more.
WatermarkListsStale == Changed = {d \in IndexDoc : text[d] # indexText[d]}

\* An erasure reaches every path to a document, a filter applied last returns a
\* part of the page, and the watermark knows what the index describes wrongly.
DeletionReachesEveryPath == ErasedIsUnreachable /\ PostIsTopOfPre /\ WatermarkListsStale
=============================================================================
