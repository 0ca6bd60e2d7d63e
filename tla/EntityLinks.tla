----------------------------- MODULE EntityLinks -----------------------------
(***************************************************************************)
(* The ids of the entities a record's actors were linked to, in two        *)
(* shapes: store-lab/schema_lab.py, sections 3 and 3b.  The wide row keeps *)
(* the actors and the ids in two delimited strings that every reader has   *)
(* to zip; the normalized table keeps the id in the actor's row.  Actors   *)
(* are added, linked and removed by whoever owns the actor list.           *)
(*                                                                         *)
(* The id an actor ought to have is modelled by the actor itself.  The     *)
(* correction of the wide string replaces "actor|" by nothing, which does  *)
(* not match the last one.                                                 *)
(***************************************************************************)
EXTENDS Naturals, Sequences, SequencesExt, FiniteSets, FiniteSetsExt

CONSTANTS
    Actor,
    NoLink          \* the id is NULL

ASSUME LinkAssumption == IsFiniteSet(Actor) /\ NoLink \notin Actor

VARIABLES
    wideActors,     \* wide.actors, split
    wideIds,        \* wide.actor_eids, split
    actorRows,      \* the rows of actors by their ordinal: name and entity_id
    firstCut        \* history: the lowest place from which the wide string lost an actor

linkVars == <<wideActors, wideIds, actorRows, firstCut>>

LinkRow == [name : Actor, entity : Actor \cup {NoLink}]

Names(rows) == {rows[i].name : i \in DOMAIN rows}

Never == Cardinality(Actor) + 1

LinkTypeOK ==
    /\ wideActors \in Seq(Actor) /\ IsInjective(wideActors)
    /\ wideIds \in Seq(Actor)
    /\ \E ordinals \in SUBSET (1..Cardinality(Actor)) : actorRows \in [ordinals -> LinkRow]
    /\ firstCut \in 1..Never

LinkInit ==
    /\ \E actors \in SetToSeqs(Actor) :
          /\ wideActors = actors
          /\ actorRows = [i \in DOMAIN actors |-> [name |-> actors[i], entity |-> NoLink]]
    /\ wideIds = <<>>
    /\ firstCut = Never

\* change 2, backfilled: the ids of all actors, the rows' by their ordinal
LinkActors ==
    /\ wideIds = <<>> /\ firstCut = Never
    /\ wideIds' = wideActors
    /\ actorRows' = [i \in DOMAIN actorRows |->
                        [name |-> actorRows[i].name, entity |-> wideActors[i]]]
    /\ UNCHANGED <<wideActors, firstCut>>

\* DELETE FROM actors WHERE name = a
Kept(a) == {i \in DOMAIN actorRows : actorRows[i].name # a}

\* where replace(actors, "a|", "") finds something to replace
Cuts(a) == {i \in 1..Len(wideActors) - 1 : wideActors[i] = a}

\* the row at the place the wide string has the actor at
RemoveActor_ByPlace(a) ==
    /\ \E i \in DOMAIN actorRows : actorRows[i].name = a
    /\ \/ /\ Cuts(a) = {}
          /\ actorRows' = Restrict(actorRows, DOMAIN actorRows \ {Len(wideActors)})
          /\ UNCHANGED <<wideActors, firstCut>>
       \/ \E i \in Cuts(a) :
          /\ actorRows' = Restrict(actorRows, DOMAIN actorRows \ {i})
          /\ wideActors' = RemoveAt(wideActors, i)
          /\ firstCut' = Min({firstCut, i})
    /\ UNCHANGED wideIds

\* the labelling correction, applied to both shapes
RemoveActor(a) ==
    /\ \E i \in DOMAIN actorRows : actorRows[i].name = a
    /\ actorRows' = Restrict(actorRows, Kept(a))
    /\ \/ Cuts(a) = {} /\ UNCHANGED <<wideActors, firstCut>>
       \/ \E i \in Cuts(a) : /\ wideActors' = RemoveAt(wideActors, i)
                             /\ firstCut' = Min({firstCut, i})
    /\ UNCHANGED wideIds

LinkNext == LinkActors \/ \E a \in Actor : RemoveActor(a)

LinkSpec == LinkInit /\ [][LinkNext]_linkVars

-----------------------------------------------------------------------------
\* zip() stops at the shorter list
WidePairs ==
    [i \in 1..Min({Len(wideActors), Len(wideIds)}) |-> <<wideActors[i], wideIds[i]>>]

\* In the normalized table "the id went with the row": an actor is linked to
\* its own entity or to none, whatever was removed.  In the wide row the pairs
\* before the first cut are right and every pair from there on is somebody
\* else's id: one removal misaligns the whole rest of the list, and the last
\* actor is never removed at all.
LinksStayWithTheirRow ==
    /\ \A i \in DOMAIN actorRows : actorRows[i].entity \in {actorRows[i].name, NoLink}
    /\ \A i \in DOMAIN WidePairs : WidePairs[i][1] = WidePairs[i][2] <=> i < firstCut
    /\ Names(actorRows) \subseteq Range(wideActors)
    /\ \A a \in Range(wideActors) \ Names(actorRows) : a = Last(wideActors)
=============================================================================
