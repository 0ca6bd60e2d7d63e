---------------------------- MODULE DependencyPins ----------------------------
(***************************************************************************)
(* resolve() of ops-lab/build_lab.py: newest-satisfying resolution of      *)
(* pinned direct dependencies over an index in which releases keep         *)
(* appearing.  One build is resolved at t0 and one at t1; the index does   *)
(* not move while a build is being resolved.                               *)
(***************************************************************************)
EXTENDS Naturals, Sequences, FiniteSets, SequencesExt, FiniteSetsExt

CONSTANTS
    Package,
    DepsOf,         \* DEPS: the dependencies of each package, in order
    Pinned,         \* PINNED: version by package
    Direct,         \* the same packages, in the order of the file
    MaxRelease      \* bound on the versions of a package

ASSUME PinAssumption ==
    /\ DepsOf \in [Package -> Seq(Package)]
    /\ Direct \in Seq(Package) /\ DOMAIN Pinned = Range(Direct)
    /\ MaxRelease \in Nat \ {0}
    /\ \A p \in DOMAIN Pinned : Pinned[p] \in 1..MaxRelease

VARIABLES
    index,          \* the newest version of each package
    out, queue,     \* the locals of resolve()
    builds          \* finished resolutions, each with the index it saw

pinVars == <<index, out, queue, builds>>

PinTypeOK ==
    /\ index \in [Package -> 1..MaxRelease]
    /\ DOMAIN out \subseteq Package /\ \A p \in DOMAIN out : out[p] \in 1..MaxRelease
    /\ queue \in Seq(Package)
    /\ Len(builds) <= 2

PinInit ==
    /\ index = [p \in Package |-> IF p \in DOMAIN Pinned THEN Pinned[p] ELSE 1]
    /\ out = <<>> /\ queue = Direct
    /\ builds = <<>>

Resolving == queue # <<>> /\ Len(builds) < 2

\* out[name] = pinned.get(name) or index[name][-1]
VersionOf(p) == IF p \in DOMAIN Pinned THEN Pinned[p] ELSE index[p]

\* only what the file names is resolved
Pop_DirectOnly ==
    LET p == Last(queue) IN
    /\ Resolving
    /\ IF p \in DOMAIN out THEN queue' = Front(queue) /\ UNCHANGED out
       ELSE /\ out' = [q \in DOMAIN out \cup {p} |-> IF q = p THEN VersionOf(p) ELSE out[q]]
            /\ queue' = Front(queue)
    /\ UNCHANGED <<index, builds>>

\* one turn of the loop: pop, skip or resolve, extend
Pop ==
    LET p == Last(queue) IN
    /\ Resolving
    /\ IF p \in DOMAIN out THEN queue' = Front(queue) /\ UNCHANGED out
       ELSE /\ out' = [q \in DOMAIN out \cup {p} |-> IF q = p THEN VersionOf(p) ELSE out[q]]
            /\ queue' = Front(queue) \o DepsOf[p]
    /\ UNCHANGED <<index, builds>>

\* the build is done; the next one starts from the file again
Built ==
    /\ queue = <<>> /\ Len(builds) < 2
    /\ builds' = Append(builds, [lock |-> out, index |-> index])
    /\ out' = <<>>
    /\ queue' = IF builds = <<>> THEN Direct ELSE <<>>
    /\ UNCHANGED index

\* a new release, some weeks later
Publish(p) ==
    /\ Len(builds) = 1 /\ out = <<>> /\ queue = Direct /\ index[p] < MaxRelease
    /\ index' = [index EXCEPT ![p] = @ + 1]
    /\ UNCHANGED <<out, queue, builds>>

PinNext == Pop \/ Built \/ \E p \in Package : Publish(p)

PinSpec == PinInit /\ [][PinNext]_pinVars

-----------------------------------------------------------------------------
\* a set closed under dependencies that holds what the file names
Closed(S) == Range(Direct) \subseteq S /\ \A p \in S : Range(DepsOf[p]) \subseteq S

\* On the way, whatever a resolved package needs is resolved or queued, so a
\* finished build installs exactly the closure of the file: nothing needed is
\* missing and nothing else gets in.  Both builds satisfy the pins, and the
\* second differs from the first in exactly the unpinned packages of the
\* closure that have had a release.
PinsAreNotALock ==
    /\ out # <<>> => Range(Direct) \cup UNION {Range(DepsOf[p]) : p \in DOMAIN out}
                        \subseteq DOMAIN out \cup Range(queue)
    /\ \A b \in Range(builds) :
          LET lock == b.lock IN
          /\ Closed(DOMAIN lock)
          /\ \A S \in SUBSET DOMAIN lock : Closed(S) => S = DOMAIN lock
          /\ \A p \in DOMAIN Pinned : lock[p] = Pinned[p]
    /\ Len(builds) = 2 =>
          /\ DOMAIN builds[1].lock = DOMAIN builds[2].lock
          /\ \A p \in DOMAIN builds[1].lock :
                builds[1].lock[p] # builds[2].lock[p] <=>
                   p \notin DOMAIN Pinned /\ builds[1].index[p] # builds[2].index[p]
=============================================================================
