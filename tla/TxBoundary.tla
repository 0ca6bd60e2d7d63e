----------------------------- MODULE TxBoundary -----------------------------
(***************************************************************************)
(* Where a transaction begins and ends: sections 1 and 2 of                *)
(* service-lab/tx_lab.py.  An ingest writes a document row and an event    *)
(* row through two repositories, with an extraction in between.            *)
(*   own      each repository commits its own write (section 1)            *)
(*   shared   one transaction around both (section 1)                      *)
(*   inside   the same, and the provider is called inside it (section 2)   *)
(*   outside  the provider is called first (section 2)                     *)
(* Section 1 runs one caller whose extractions may fail; section 2 runs     *)
(* several, whose extractions do not fail but whose wait for the write     *)
(* lock may time out.                                                      *)
(***************************************************************************)
EXTENDS Naturals, FiniteSets

CONSTANTS
    Unit,           \* the threads of section 2
    MaxDocs,        \* documents per thread
    FailsOn,        \* positions at which section 1 raises Boom
    NoUnit          \* the write lock is free

ASSUME BoundaryAssumption == MaxDocs \in Nat \ {0} /\ NoUnit \notin Unit

VARIABLES
    boundary,   \* which of the four programs runs
    unit,       \* [at, doc]: what each thread does next, and for which document
    lock,       \* who has begun a transaction
    tx,         \* [docs, events]: what that transaction has written
    docTable, eventTable,       \* the committed rows
    reported    \* documents counted in errors

txbVars == <<boundary, unit, lock, tx, docTable, eventTable, reported>>

Boundary == {"own", "shared", "inside", "outside"}
Pair == Unit \X (1..MaxDocs)

TxbTypeOK ==
    /\ boundary \in Boundary
    /\ unit \in [Unit -> [at : {"begin", "provider", "call", "second", "end"},
                          doc : 1..MaxDocs + 1]]
    /\ lock \in Unit \cup {NoUnit}
    /\ tx \in [docs : SUBSET Pair, events : SUBSET Pair]
    /\ docTable \subseteq Pair /\ eventTable \subseteq Pair /\ reported \subseteq Pair

Section1 == boundary \in {"own", "shared"}
Empty == [docs |-> {}, events |-> {}]
Ref(u) == <<u, unit[u].doc>>

\* the statement an iteration of the loop starts with
Entry1 == IF boundary = "outside" THEN "provider" ELSE "begin"

TxbInit ==
    /\ boundary \in Boundary
    /\ \E only \in Unit :
          unit = [u \in Unit |-> [at |-> IF Section1 /\ u # only THEN "end" ELSE Entry1,
                                  doc |-> 1]]
    /\ lock = NoUnit
    /\ tx = Empty
    /\ docTable = {} /\ eventTable = {} /\ reported = {}

Moves(u, at) == unit' = [unit EXCEPT ![u].at = at]
NextDoc(u) ==
    unit' = [unit EXCEPT ![u] = [at |-> IF @.doc = MaxDocs THEN "end" ELSE Entry1,
                                 doc |-> @.doc + 1]]

-----------------------------------------------------------------------------
\* docs.add() of a repository that commits its own write
AddOwn(u) ==
    /\ unit[u].at = "begin" /\ boundary = "own"
    /\ docTable' = docTable \cup {Ref(u)}
    /\ Moves(u, "second")
    /\ UNCHANGED <<boundary, lock, tx, eventTable, reported>>

\* time.sleep(PROVIDER_MS) before BEGIN
CallOutside(u) ==
    /\ unit[u].at = "provider"
    /\ Moves(u, "begin")
    /\ UNCHANGED <<boundary, lock, tx, docTable, eventTable, reported>>

\* BEGIN IMMEDIATE, and the document row
BeginTx(u) ==
    /\ unit[u].at = "begin" /\ boundary # "own"
    /\ lock = NoUnit
    /\ lock' = u
    /\ tx' = [Empty EXCEPT !.docs = {Ref(u)}]
    /\ Moves(u, IF boundary = "inside" THEN "call" ELSE "second")
    /\ UNCHANGED <<boundary, docTable, eventTable, reported>>

\* the provider answers while the write lock is held
CallInside(u) ==
    /\ unit[u].at = "call"
    /\ Moves(u, "second")
    /\ UNCHANGED <<boundary, lock, tx, docTable, eventTable, reported>>

\* the rollback is left out and the connection is committed later
Boom_Commits(u) ==
    /\ Section1 /\ unit[u].at = "second" /\ unit[u].doc \in FailsOn
    /\ docTable' = docTable \cup tx.docs
    /\ lock' = NoUnit /\ tx' = Empty
    /\ NextDoc(u)
    /\ UNCHANGED <<boundary, eventTable, reported>>

\* the extraction fails; with a shared transaction the caller rolls it back
Boom(u) ==
    /\ Section1 /\ unit[u].at = "second" /\ unit[u].doc \in FailsOn
    /\ lock' = NoUnit /\ tx' = Empty
    /\ NextDoc(u)
    /\ UNCHANGED <<boundary, docTable, eventTable, reported>>

\* events.add(), and the commit of whoever owns the boundary
AddEvent(u) ==
    /\ unit[u].at = "second"
    /\ ~ (Section1 /\ unit[u].doc \in FailsOn)
    /\ docTable' = docTable \cup tx.docs
    /\ eventTable' = eventTable \cup {Ref(u)}
    /\ lock' = NoUnit /\ tx' = Empty
    /\ NextDoc(u)
    /\ UNCHANGED <<boundary, reported>>

\* no lock within the busy timeout: OperationalError, rollback, counted
LockTimeout(u) ==
    /\ unit[u].at = "begin" /\ boundary # "own"
    /\ lock \notin {NoUnit, u}
    /\ reported' = reported \cup {Ref(u)}
    /\ NextDoc(u)
    /\ UNCHANGED <<boundary, lock, tx, docTable, eventTable>>

TxbStep(u) ==
    \/ AddOwn(u) \/ CallOutside(u) \/ BeginTx(u) \/ CallInside(u)
    \/ Boom(u) \/ AddEvent(u) \/ LockTimeout(u)

TxbDone == (\A u \in Unit : unit[u].at = "end") /\ UNCHANGED txbVars

TxbNext == (\E u \in Unit : TxbStep(u)) \/ TxbDone

TxbSpec == TxbInit /\ [][TxbNext]_txbVars

-----------------------------------------------------------------------------
Orphaned == docTable \ eventTable
Attempted == {p \in Pair : p[2] < unit[p[1]].doc}
Failed == {p \in Pair : Section1 /\ p[2] \in FailsOn}

\* An ingest is all or nothing unless each repository commits its own write:
\* then a document is left without its event exactly while the event is still
\* to be written, or for good if the extraction failed.  An event never lacks
\* its document, and a document that was attempted and is not stored failed or
\* was reported, whoever held the lock meanwhile.
AllOrNothing ==
    /\ eventTable \subseteq docTable
    /\ boundary # "own" => Orphaned = {}
    /\ Orphaned \cap Attempted \subseteq Failed
    /\ Attempted \subseteq eventTable \cup Failed \cup reported
    /\ reported \cap docTable = {}
=============================================================================
