------------------------------ MODULE Retrieval ------------------------------
(***************************************************************************)
(* Two loops of zh-retrieval-lab, each stepped through and compared with   *)
(* what it is meant to compute: the greedy best-first search over a        *)
(* proximity graph of ann_lab.py, and min_window of rerank_lab.py.         *)
(***************************************************************************)
EXTENDS Naturals, Sequences, FiniteSets, FiniteSetsExt, Functions

(* The search.  A node is named by its rank in distance from the query, 1  *)
(* is the nearest; no two are equally far.  The two heaps are sets, popped *)
(* at their smallest and largest member.                                   *)

CONSTANTS
    Vectors,        \* N
    NeighbourLists, \* what graph[node] may be: sequences of nodes
    CandidateSizes, \* the values of ef
    TopK            \* TOPK

Node == 1..Vectors

ASSUME GraphAssumption ==
    /\ Vectors \in Nat \ {0}
    /\ NeighbourLists \subseteq Seq(Node)
    /\ CandidateSizes \subseteq Nat \ {0} /\ TopK \in Nat \ {0}

VARIABLES
    graph,          \* node |-> its neighbours, in the order of the list
    entry, ef,
    frontier, best, seen,
    todo,           \* the neighbours of the popped node the inner loop has yet to visit
    searching       \* the loop has not ended

graphVars == <<graph, entry, ef, frontier, best, seen, todo, searching>>

GraphTypeOK ==
    /\ graph \in [Node -> NeighbourLists] /\ entry \in Node /\ ef \in CandidateSizes
    /\ seen \subseteq Node /\ frontier \subseteq seen /\ best \subseteq seen
    /\ todo \in Seq(Node)
    /\ searching \in BOOLEAN

GraphInit ==
    /\ graph \in [Node -> NeighbourLists]
    /\ \A n \in Node : n \notin Range(graph[n])
    /\ entry \in Node /\ ef \in CandidateSizes
    /\ frontier = {entry} /\ best = {entry} /\ seen = {entry}
    /\ todo = <<>>
    /\ searching = TRUE

\* compared with the nearest candidate instead of the farthest
Kept_Nearest(nb) == Cardinality(best) < ef \/ nb < Min(best)

\* room in the list, or nearer than the farthest candidate
Kept(nb) == Cardinality(best) < ef \/ nb < Max(best)

\* One neighbour: measured once; if it is kept in a full list, the farthest
\* candidate gives up its place.
Visit ==
    /\ todo # <<>> /\ todo' = Tail(todo)
    /\ LET nb == Head(todo)
           wider == best \cup {nb}
           kept == nb \notin seen /\ Kept(nb)
       IN  /\ seen' = seen \cup {nb}
           /\ frontier' = IF kept THEN frontier \cup {nb} ELSE frontier
           /\ best' = IF ~kept THEN best
                      ELSE IF Cardinality(best) < ef THEN wider ELSE wider \ {Max(wider)}
    /\ UNCHANGED <<graph, entry, ef, searching>>

\* farther than the nearest candidate is taken to be enough
Hopeless_Nearest == Cardinality(best) >= ef /\ \A n \in frontier : n > Min(best)

\* The list is full and the nearest open node, if any, is farther than all of it.
Hopeless == Cardinality(best) >= ef /\ \A n \in frontier : n > Max(best)

\* The nearest open node is popped.
Expand ==
    /\ searching /\ todo = <<>> /\ frontier # {} /\ ~Hopeless
    /\ frontier' = frontier \ {Min(frontier)}
    /\ todo' = graph[Min(frontier)]
    /\ UNCHANGED <<graph, entry, ef, best, seen, searching>>

\* The popped node is dropped; it plays no further part.
Finish ==
    /\ searching /\ todo = <<>>
    /\ frontier = {} \/ Hopeless
    /\ searching' = FALSE
    /\ frontier' = IF frontier = {} THEN {} ELSE frontier \ {Min(frontier)}
    /\ UNCHANGED <<graph, entry, ef, best, seen, todo>>

GraphNext == Visit \/ Expand \/ Finish

GraphSpec == GraphInit /\ [][GraphNext]_graphVars

-----------------------------------------------------------------------------
\* The k nearest of a set of nodes.
Nearest(nodes, k) == {n \in nodes : Cardinality({m \in nodes : m <= n}) <= k}

\* What reachable(graph, entry) counts: the least set that holds the entry and
\* the neighbours of its members.
Reachable ==
    LET closed == {s \in SUBSET Node : entry \in s /\ \A n \in s : Range(graph[n]) \subseteq s}
    IN  {n \in Node : \A s \in closed : n \in s}

\* what is returned
Answers == Nearest(best, TopK)

\* The candidate list holds the ef nearest of all that was measured, whatever
\* order the neighbours came in and whatever was evicted.  The loop ends only
\* where "nothing closer is reachable" in one hop: a neighbour of a candidate
\* is a candidate, or farther than a full list.  "ef controls how thoroughly
\* you search a region": when the list has room for the region that the entry
\* reaches, the answers are the nearest of that region exactly, and never
\* anything outside it, however large ef is.
SearchIsExactInItsRegion ==
    /\ best = Nearest(seen, ef) /\ seen \subseteq Reachable
    /\ ~searching =>
          /\ \A n \in best : \A nb \in Range(graph[n]) :
                nb \in best \/ (Cardinality(best) = ef /\ nb > Max(best))
          /\ Cardinality(Reachable) <= ef => Answers = Nearest(Reachable, TopK)

-----------------------------------------------------------------------------
(* The window.  A term is a bigram, so a place of the text starts at most  *)
(* one of them: the text is given by the term each place starts, and the   *)
(* two indices into the sorted list of events by the places they stand at. *)

CONSTANTS
    Term,           \* the bigrams of the query
    Other,          \* a bigram that is not in the query
    Places          \* the length of the text in bigrams

ASSUME WindowAssumption == IsFiniteSet(Term) /\ Other \notin Term /\ Places \in Nat

VARIABLES
    text,           \* place |-> the bigram that starts there
    right,          \* the last event consumed, 0 before the first
    left,           \* the first event of the window
    have,           \* term |-> occurrences in the window
    shortest        \* best

windowVars == <<text, right, left, have, shortest>>

\* math.inf: more than any span
Infinity == Places + 2

Matched == {t \in Term : \E p \in 1..Places : text[p] = t}

\* events[i + 1], where p is the place of events[i]: the events behind p, and
\* the first of them
EventsAfterPlace(p) == {q \in p + 1..Places : text[q] \in Term}
Following(p) == Min(EventsAfterPlace(p))

WindowTypeOK ==
    /\ text \in [1..Places -> Term \cup {Other}]
    /\ right \in 0..Places /\ left \in 1..Places
    /\ have \in [Term -> 0..Places]
    /\ shortest \in 2..Infinity

\* rerank_score returns before the call when fewer than two terms matched.
WindowInit ==
    /\ text \in [1..Places -> Term \cup {Other}]
    /\ Cardinality(Matched) >= 2
    /\ right = 0 /\ left = Following(0)
    /\ have = [t \in Term |-> 0]
    /\ shortest = Infinity

\* len(have) == need: a term whose count falls to zero is deleted
Complete == Cardinality({t \in Term : have[t] > 0}) = Cardinality(Matched)

\* the for loop takes the next event
Extend ==
    /\ ~Complete /\ EventsAfterPlace(right) # {}
    /\ right' = Following(right)
    /\ have' = [have EXCEPT ![text[right']] = @ + 1]
    /\ UNCHANGED <<text, left, shortest>>

\* the last span found, not the smallest
Shrink_Latest ==
    /\ Complete
    /\ shortest' = right - left + 2
    /\ have' = [have EXCEPT ![text[left]] = @ - 1]
    /\ left' = Following(left)
    /\ UNCHANGED <<text, right>>

\* one round of the while loop
Shrink ==
    /\ Complete
    /\ shortest' = Min({shortest, right - left + 2})
    /\ have' = [have EXCEPT ![text[left]] = @ - 1]
    /\ left' = Following(left)
    /\ UNCHANGED <<text, right>>

WindowNext == Extend \/ Shrink

WindowSpec == WindowInit /\ [][WindowNext]_windowVars

-----------------------------------------------------------------------------
\* The spans up to the last event taken that hold every matched term.
Covers(i, j) == \A t \in Matched : \E p \in i..j : text[p] = t
Spans == {s \in (1..right) \X (1..right) : s[1] <= s[2] /\ Covers(s[1], s[2])}

\* "Smallest character span containing one occurrence of every matched term":
\* the two pointers find the minimum over all spans, although left never moves
\* back; it is settled whenever the window has been shrunk as far as it goes.
WindowIsTheSmallest ==
    ~Complete => shortest = Min({Infinity} \cup {s[2] - s[1] + 2 : s \in Spans})
=============================================================================
