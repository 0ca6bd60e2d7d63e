----------------------------- MODULE StoreProofs -----------------------------
(***************************************************************************)
(* Proofs about what keeps rows, files and cached answers together: the    *)
(* boundary of a transaction, the blobs and their rows, the migration of a *)
(* column, the response cache, the index of a table; and about the cursors *)
(* of a pipeline over a table that grows.                                  *)
(***************************************************************************)
EXTENDS TxBoundary, BlobStore, Migration, ResponseCache, Watermark, IndexFreshness,
        DataLemmas

-----------------------------------------------------------------------------
(***************************************************************************)
(* TxBoundary                                                              *)
(***************************************************************************)

\* Who holds the write lock is between its two statements, for the document it
\* has written and not committed; nobody else is.
LockInv ==
    /\ boundary = "own" => lock = NoUnit
    /\ boundary # "own" => \A u \in Unit : unit[u].at \in {"call", "second"} <=> lock = u
    /\ lock = NoUnit => tx = Empty
    /\ \A u \in Unit : lock = u => tx.docs = {Ref(u)}

\* A thread that has not ended has a document to work on; only the first of the
\* two statements can have been executed for it.
PlaceInv ==
    /\ \A u \in Unit : unit[u].at # "end" => unit[u].doc \in 1..MaxDocs
    /\ \A u \in Unit : unit[u].at = "call" => boundary = "inside"
    /\ \A p \in docTable \ Attempted :
          boundary = "own" /\ p = Ref(p[1]) /\ unit[p[1]].at = "second"
    /\ \A u \in Unit : boundary = "own" /\ unit[u].at = "second" => Ref(u) \in docTable
    /\ eventTable \cup reported \subseteq Attempted

BoundaryInv == TxbTypeOK /\ LockInv /\ PlaceInv /\ AllOrNothing

LEMMA InitBoundaryInv == BoundaryAssumption /\ TxbInit => BoundaryInv
<1> SUFFICES ASSUME BoundaryAssumption, TxbInit PROVE BoundaryInv
  OBVIOUS
<1> USE DEF BoundaryAssumption, TxbInit, Boundary, Entry1, Section1, Empty, Pair
<1>1. PICK only \in Unit :
        unit = [u \in Unit |-> [at |-> IF Section1 /\ u # only THEN "end" ELSE Entry1, doc |-> 1]]
  OBVIOUS
<1>2. TxbTypeOK
  BY <1>1 DEF TxbTypeOK
<1>3. Attempted = {}
  BY <1>1 DEF Attempted
<1>4. LockInv /\ PlaceInv /\ AllOrNothing
  BY <1>1, <1>3 DEF LockInv, PlaceInv, AllOrNothing, Orphaned, Failed, Ref
<1>5. QED
  BY <1>2, <1>4 DEF BoundaryInv

\* What the next document of a thread is, and what has been attempted by then.
LEMMA NextDocEffect ==
    ASSUME BoundaryAssumption, TxbTypeOK, NEW u \in Unit, unit[u].doc \in 1..MaxDocs, NextDoc(u)
    PROVE  /\ unit' \in [Unit -> [at : {"begin", "provider", "call", "second", "end"},
                                  doc : 1..MaxDocs + 1]]
           /\ \A v \in Unit \ {u} : unit'[v] = unit[v]
           /\ unit'[u].doc = unit[u].doc + 1
           /\ unit'[u].at = IF unit[u].doc = MaxDocs THEN "end" ELSE Entry1
           /\ boundary' = boundary => Attempted' = Attempted \cup {Ref(u)}
<1> USE DEF BoundaryAssumption, TxbTypeOK, NextDoc, Entry1
<1> DEFINE r == [at |-> IF unit[u].doc = MaxDocs THEN "end" ELSE Entry1, doc |-> unit[u].doc + 1]
<1>1. unit' = [unit EXCEPT ![u] = r]
  OBVIOUS
<1>2. unit'[u] = r /\ \A v \in Unit \ {u} : unit'[v] = unit[v]
  BY <1>1
<1>3. r \in [at : {"begin", "provider", "call", "second", "end"}, doc : 1..MaxDocs + 1]
  OBVIOUS
<1>4. unit' \in [Unit -> [at : {"begin", "provider", "call", "second", "end"},
                          doc : 1..MaxDocs + 1]]
  BY <1>1, <1>3
<1>5. ASSUME NEW p \in Pair
      PROVE  p[2] < unit'[p[1]].doc <=> p[2] < unit[p[1]].doc \/ p = Ref(u)
  <2>1. p[1] \in Unit /\ p[2] \in 1..MaxDocs /\ p = <<p[1], p[2]>>
    BY DEF Pair
  <2>2. CASE p[1] = u
    BY <2>1, <2>2, <1>2 DEF Ref
  <2>3. CASE p[1] # u
    BY <2>1, <2>3, <1>2 DEF Ref
  <2>4. QED
    BY <2>2, <2>3
<1>6. Ref(u) \in Pair
  BY DEF Ref, Pair
<1>7. Attempted' = Attempted \cup {Ref(u)}
  BY <1>5, <1>6 DEF Attempted, Pair
<1>8. QED
  BY <1>2, <1>4, <1>7

LEMMA MovesEffect ==
    ASSUME BoundaryAssumption, TxbTypeOK, NEW u \in Unit,
           NEW at \in {"begin", "provider", "call", "second", "end"}, Moves(u, at)
    PROVE  /\ unit' \in [Unit -> [at : {"begin", "provider", "call", "second", "end"},
                                  doc : 1..MaxDocs + 1]]
           /\ \A v \in Unit \ {u} : unit'[v] = unit[v]
           /\ unit'[u] = [at |-> at, doc |-> unit[u].doc]
           /\ Attempted' = Attempted
<1> USE DEF BoundaryAssumption, TxbTypeOK, Moves
<1>1. unit'[u] = [at |-> at, doc |-> unit[u].doc] /\ \A v \in Unit \ {u} : unit'[v] = unit[v]
  OBVIOUS
<1>2. \A v \in Unit : unit'[v].doc = unit[v].doc
  BY <1>1
<1>3. Attempted' = Attempted
  BY <1>2 DEF Attempted, Pair
<1>4. QED
  BY <1>1, <1>3

LEMMA NextBoundaryInv == BoundaryAssumption /\ BoundaryInv /\ [TxbNext]_txbVars => BoundaryInv'
<1> SUFFICES ASSUME BoundaryAssumption, BoundaryInv, [TxbNext]_txbVars PROVE BoundaryInv'
  OBVIOUS
<1> USE DEF BoundaryInv
<1>0. TxbTypeOK /\ LockInv /\ PlaceInv /\ AllOrNothing
  OBVIOUS
<1>1. CASE UNCHANGED txbVars
  BY <1>1 DEF txbVars, TxbTypeOK, LockInv, PlaceInv, AllOrNothing, Ref, Attempted, Orphaned,
              Failed, Section1
<1>2. ASSUME NEW u \in Unit, AddOwn(u) PROVE BoundaryInv'
  <2> USE <1>2 DEF AddOwn
  <2>1. unit[u].doc \in 1..MaxDocs /\ Ref(u) \in Pair /\ Ref(u) \notin Attempted
    BY DEF PlaceInv, Ref, Pair, Attempted, BoundaryAssumption, TxbTypeOK
  <2>2. /\ unit' \in [Unit -> [at : {"begin", "provider", "call", "second", "end"},
                              doc : 1..MaxDocs + 1]]
        /\ \A v \in Unit \ {u} : unit'[v] = unit[v]
        /\ unit'[u] = [at |-> "second", doc |-> unit[u].doc]
        /\ Attempted' = Attempted
    BY MovesEffect
  <2>3. TxbTypeOK'
    BY <2>1, <2>2 DEF TxbTypeOK
  <2>4. LockInv'
    BY <2>2 DEF LockInv, Ref
  <2>5. PlaceInv'
    <3>1. ASSUME NEW p \in docTable' \ Attempted'
          PROVE  boundary = "own" /\ p = <<p[1], unit'[p[1]].doc>> /\ unit'[p[1]].at = "second"
      <4>1. CASE p = Ref(u)
        BY <4>1, <2>2 DEF Ref
      <4>2. CASE p \in docTable \ Attempted
        BY <4>2, <2>2 DEF PlaceInv, Ref, TxbTypeOK, Pair
      <4>3. QED
        BY <4>1, <4>2, <2>2
    <3>2. QED
      BY <3>1, <2>2 DEF PlaceInv, Ref
  <2>6. AllOrNothing'
    BY <2>1, <2>2 DEF AllOrNothing, PlaceInv, Orphaned, Failed, Section1
  <2>7. QED
    BY <2>3, <2>4, <2>5, <2>6
<1>3. ASSUME NEW u \in Unit, CallOutside(u) PROVE BoundaryInv'
  <2> USE <1>3 DEF CallOutside
  <2>2. /\ unit' \in [Unit -> [at : {"begin", "provider", "call", "second", "end"},
                              doc : 1..MaxDocs + 1]]
        /\ \A v \in Unit \ {u} : unit'[v] = unit[v]
        /\ unit'[u] = [at |-> "begin", doc |-> unit[u].doc]
        /\ Attempted' = Attempted
    BY MovesEffect
  <2>3. TxbTypeOK' /\ LockInv'
    BY <2>2 DEF TxbTypeOK, LockInv, Ref
  <2>4. PlaceInv'
    <3>1. ASSUME NEW p \in docTable \ Attempted
          PROVE  p[1] \in Unit \ {u}
      BY <3>1 DEF PlaceInv, TxbTypeOK, Pair
    <3>2. QED
      BY <3>1, <2>2 DEF PlaceInv, Ref
  <2>5. AllOrNothing'
    BY <2>2 DEF AllOrNothing, Orphaned, Failed, Section1
  <2>6. QED
    BY <2>3, <2>4, <2>5
<1>4. ASSUME NEW u \in Unit, BeginTx(u) PROVE BoundaryInv'
  <2> USE <1>4 DEF BeginTx
  <2> DEFINE to == IF boundary = "inside" THEN "call" ELSE "second"
  <2>1. unit[u].doc \in 1..MaxDocs /\ Ref(u) \in Pair
    BY DEF PlaceInv, Ref, Pair, BoundaryAssumption, TxbTypeOK
  <2>2. /\ unit' \in [Unit -> [at : {"begin", "provider", "call", "second", "end"},
                              doc : 1..MaxDocs + 1]]
        /\ \A v \in Unit \ {u} : unit'[v] = unit[v]
        /\ unit'[u] = [at |-> to, doc |-> unit[u].doc]
        /\ Attempted' = Attempted
    BY MovesEffect
  <2>3. TxbTypeOK'
    BY <2>1, <2>2 DEF TxbTypeOK, Empty
  <2>4. LockInv'
    BY <2>2, u # NoUnit DEF LockInv, Ref, Empty, BoundaryAssumption
  <2>5. PlaceInv' /\ AllOrNothing'
    BY <2>2 DEF PlaceInv, AllOrNothing, Ref, Orphaned, Failed, Section1
  <2>6. QED
    BY <2>3, <2>4, <2>5
<1>5. ASSUME NEW u \in Unit, CallInside(u) PROVE BoundaryInv'
  <2> USE <1>5 DEF CallInside
  <2>2. /\ unit' \in [Unit -> [at : {"begin", "provider", "call", "second", "end"},
                              doc : 1..MaxDocs + 1]]
        /\ \A v \in Unit \ {u} : unit'[v] = unit[v]
        /\ unit'[u] = [at |-> "second", doc |-> unit[u].doc]
        /\ Attempted' = Attempted
    BY MovesEffect
  <2>3. TxbTypeOK' /\ LockInv' /\ PlaceInv' /\ AllOrNothing'
    BY <2>2 DEF TxbTypeOK, LockInv, PlaceInv, AllOrNothing, Ref, Orphaned, Failed, Section1
  <2>4. QED
    BY <2>3
<1>6. ASSUME NEW u \in Unit, Boom(u) PROVE BoundaryInv'
  <2> USE <1>6 DEF Boom
  <2>1. unit[u].doc \in 1..MaxDocs
    BY DEF PlaceInv
  <2>2. /\ unit' \in [Unit -> [at : {"begin", "provider", "call", "second", "end"},
                              doc : 1..MaxDocs + 1]]
        /\ \A v \in Unit \ {u} : unit'[v] = unit[v]
        /\ unit'[u].doc = unit[u].doc + 1
        /\ unit'[u].at \in {"begin", "provider", "end"}
        /\ unit'[u].at # "end" => unit'[u].doc \in 1..MaxDocs
        /\ Attempted' = Attempted \cup {Ref(u)}
    BY <2>1, NextDocEffect DEF Entry1, BoundaryAssumption, TxbTypeOK
  <2>3. Ref(u) \in Failed
    BY <2>1 DEF Failed, Pair, Ref
  <2>4. TxbTypeOK'
    BY <2>2 DEF TxbTypeOK, Empty
  <2>5. LockInv'
    BY <2>2 DEF LockInv, Ref, Empty, BoundaryAssumption
  <2>6. PlaceInv'
    <3>1. ASSUME NEW p \in docTable \ Attempted'
          PROVE  boundary = "own" /\ p = <<p[1], unit'[p[1]].doc>> /\ unit'[p[1]].at = "second"
      <4>1. p \in docTable \ Attempted /\ p # Ref(u) /\ p = Ref(p[1]) /\ p[1] \in Unit
        BY <2>2 DEF PlaceInv, TxbTypeOK, Pair
      <4>2. p[1] # u
        BY <4>1 DEF Ref
      <4>3. QED
        BY <4>1, <4>2, <2>2 DEF PlaceInv, Ref
    <3>2. QED
      BY <3>1, <2>2 DEF PlaceInv, Ref
  <2>7. AllOrNothing'
    BY <2>2, <2>3 DEF AllOrNothing, Orphaned, Failed, Section1
  <2>8. QED
    BY <2>4, <2>5, <2>6, <2>7
<1>7. ASSUME NEW u \in Unit, AddEvent(u) PROVE BoundaryInv'
  <2> USE <1>7 DEF AddEvent
  <2>1. unit[u].doc \in 1..MaxDocs /\ Ref(u) \in Pair
    BY DEF PlaceInv, Pair, Ref
  <2>2. /\ unit' \in [Unit -> [at : {"begin", "provider", "call", "second", "end"},
                              doc : 1..MaxDocs + 1]]
        /\ \A v \in Unit \ {u} : unit'[v] = unit[v]
        /\ unit'[u].doc = unit[u].doc + 1
        /\ unit'[u].at \in {"begin", "provider", "end"}
        /\ unit'[u].at # "end" => unit'[u].doc \in 1..MaxDocs
        /\ Attempted' = Attempted \cup {Ref(u)}
    BY <2>1, NextDocEffect DEF Entry1, BoundaryAssumption, TxbTypeOK
  <2>3. docTable' = docTable \cup (IF boundary = "own" THEN {} ELSE {Ref(u)})
    BY DEF LockInv, Empty
  <2>4. Ref(u) \in docTable' /\ Ref(u) \notin reported
    BY <2>3, <2>1 DEF PlaceInv, Attempted, Ref, Pair, BoundaryAssumption, TxbTypeOK
  <2>5. TxbTypeOK'
    BY <2>1, <2>2, <2>3 DEF TxbTypeOK, Empty
  <2>6. LockInv'
    BY <2>2 DEF LockInv, Ref, Empty, BoundaryAssumption
  <2>7. PlaceInv'
    <3>1. ASSUME NEW p \in docTable' \ Attempted'
          PROVE  boundary = "own" /\ p = <<p[1], unit'[p[1]].doc>> /\ unit'[p[1]].at = "second"
      <4>1. p \in docTable \ Attempted /\ p # Ref(u) /\ p = Ref(p[1]) /\ p[1] \in Unit
        BY <2>2, <2>3 DEF PlaceInv, TxbTypeOK, Pair
      <4>2. p[1] # u
        BY <4>1 DEF Ref
      <4>3. QED
        BY <4>1, <4>2, <2>2 DEF PlaceInv, Ref
    <3>2. ASSUME NEW v \in Unit, boundary = "own", unit'[v].at = "second"
          PROVE  Ref(v)' \in docTable'
      BY <3>2, <2>2, <2>3 DEF PlaceInv, Ref
    <3>3. QED
      BY <3>1, <3>2, <2>2 DEF PlaceInv, Ref
  <2>8. AllOrNothing'
    BY <2>2, <2>3, <2>4 DEF AllOrNothing, Orphaned, Failed, Section1
  <2>9. QED
    BY <2>5, <2>6, <2>7, <2>8
<1>8. ASSUME NEW u \in Unit, LockTimeout(u) PROVE BoundaryInv'
  <2> USE <1>8 DEF LockTimeout
  <2>1. unit[u].doc \in 1..MaxDocs /\ Ref(u) \in Pair
    BY DEF PlaceInv, Pair, Ref
  <2>2. /\ unit' \in [Unit -> [at : {"begin", "provider", "call", "second", "end"},
                              doc : 1..MaxDocs + 1]]
        /\ \A v \in Unit \ {u} : unit'[v] = unit[v]
        /\ unit'[u].doc = unit[u].doc + 1
        /\ unit'[u].at \in {"begin", "provider", "end"}
        /\ unit'[u].at # "end" => unit'[u].doc \in 1..MaxDocs
        /\ Attempted' = Attempted \cup {Ref(u)}
    BY <2>1, NextDocEffect DEF Entry1, BoundaryAssumption, TxbTypeOK
  <2>3. Ref(u) \notin docTable
    BY <2>1 DEF PlaceInv, AllOrNothing, Attempted, Ref, Pair, BoundaryAssumption, TxbTypeOK
  <2>4. TxbTypeOK'
    BY <2>1, <2>2 DEF TxbTypeOK
  <2>5. LockInv'
    BY <2>2 DEF LockInv, Ref
  <2>6. PlaceInv' /\ AllOrNothing'
    BY <2>2, <2>3 DEF PlaceInv, AllOrNothing, Orphaned, Failed, Section1, Ref
  <2>7. QED
    BY <2>4, <2>5, <2>6
<1>9. QED
  BY <1>1, <1>2, <1>3, <1>4, <1>5, <1>6, <1>7, <1>8 DEF TxbNext, TxbStep, TxbDone

\* Whichever program runs, with any number of threads and documents: without a
\* shared transaction a failed extraction leaves half an ingest behind, with
\* one it does not, and nothing disappears unreported.
THEOREM IngestIsAllOrNothing == TxbSpec => []AllOrNothing
<1>1. TxbInit => BoundaryInv
  BY InitBoundaryInv, BoundaryAssumption
<1>2. BoundaryInv /\ [TxbNext]_txbVars => BoundaryInv'
  BY NextBoundaryInv, BoundaryAssumption
<1>3. BoundaryInv => AllOrNothing
  BY DEF BoundaryInv
<1>4. QED
  BY <1>1, <1>2, <1>3, PTL DEF TxbSpec

-----------------------------------------------------------------------------
(***************************************************************************)
(* BlobStore                                                               *)
(***************************************************************************)

\* A put that has its file open is between open and rename.  Of contents that
\* were never shared one put at a time has the file open, so what it renames is
\* what it wrote.
OpenInv ==
    /\ \A d \in BlobDoc : handle[d] # "none" <=> ingest[d] \in {"write", "rename"}
    /\ \A d \in BlobDoc : ~store.atomic => ingest[d] # "rename" /\ handle[d] # "part"
    /\ \A d \in BlobDoc : store.atomic /\ handle[d] = "file" => ContentOf[d] \in shared

AloneInv ==
    store.atomic =>
       \A d, e \in BlobDoc :
          handle[d] # "none" /\ handle[e] # "none" /\ ContentOf[d] = ContentOf[e] =>
             d = e \/ ContentOf[d] \in shared

RenameInv ==
    store.atomic =>
       \A d \in BlobDoc :
          ingest[d] = "rename" => ContentOf[d] \in shared \/ part[ContentOf[d]] = "whole"

HandleInv == OpenInv /\ AloneInv /\ RenameInv

\* The first of the two writes of an ingest has been made when the second is due.
OrderInv ==
    \A d \in BlobDoc :
       /\ store.blob_first /\ ingest[d] = "row" => file[ContentOf[d]] # "absent"
       /\ ~store.blob_first /\ ingest[d] \in {"put", "write", "rename"} => d \in docRows

BlobInv == BlobTypeOK /\ HandleInv /\ OrderInv /\ BlobsAreSound

LEMMA InitBlobInv == BlobAssumption /\ BlobInit => BlobInv
<1> SUFFICES ASSUME BlobAssumption, BlobInit PROVE BlobInv
  OBVIOUS
<1>1. BlobTypeOK
  BY DEF BlobInit, BlobTypeOK, FileState
<1>2. OpenInv /\ AloneInv
  BY DEF BlobInit, OpenInv, AloneInv
<1>5. RenameInv /\ OrderInv
  BY DEF BlobInit, RenameInv, OrderInv
<1>3. BlobsAreSound
  BY DEF BlobAssumption, BlobInit, BlobsAreSound, NameImpliesBytes, RowsHaveBlobs, Truncated
<1>4. QED
  BY <1>1, <1>2, <1>3, <1>5 DEF BlobInv, HandleInv

LEMMA NextBlobInv == BlobAssumption /\ BlobInv /\ [BlobNext]_blobVars => BlobInv'
<1> SUFFICES ASSUME BlobAssumption, BlobInv, [BlobNext]_blobVars PROVE BlobInv'
  OBVIOUS
<1> USE DEF BlobInv, BlobAssumption, BlobTypeOK, FileState, Goes, AfterPut
<1>1. CASE UNCHANGED blobVars
  BY <1>1 DEF blobVars, HandleInv, OpenInv, AloneInv, RenameInv, OrderInv, BlobsAreSound, NameImpliesBytes, RowsHaveBlobs,
              Truncated
<1>2. ASSUME NEW d \in BlobDoc, StartIngest(d) PROVE BlobInv'
  BY <1>2 DEF StartIngest, HandleInv, OpenInv, AloneInv, RenameInv, OrderInv, BlobsAreSound, NameImpliesBytes, RowsHaveBlobs,
              Truncated
<1>3. ASSUME NEW d \in BlobDoc, Dedup(d) PROVE BlobInv'
  BY <1>3 DEF Dedup, HandleInv, OpenInv, AloneInv, RenameInv, OrderInv, BlobsAreSound, NameImpliesBytes, RowsHaveBlobs,
              Truncated
<1>4. ASSUME NEW d \in BlobDoc, OpenFile(d) PROVE BlobInv'
  <2> USE <1>4 DEF OpenFile
  <2>1. BlobTypeOK'
    OBVIOUS
  <2>2. HandleInv'
    <3>1. OpenInv'
      BY DEF HandleInv, OpenInv, AloneInv, Open
    <3>2. AloneInv'
      BY DEF HandleInv, OpenInv, AloneInv, Open
    <3>3. RenameInv'
      BY DEF HandleInv, OpenInv, AloneInv, RenameInv, Open
    <3>4. QED
      BY <3>1, <3>2, <3>3 DEF HandleInv
  <2>3. OrderInv'
    BY DEF OrderInv
  <2>4. BlobsAreSound'
    BY DEF OrderInv, BlobsAreSound, NameImpliesBytes, RowsHaveBlobs, Truncated
  <2>5. QED
    BY <2>1, <2>2, <2>3, <2>4
<1>5. ASSUME NEW d \in BlobDoc, WriteFile(d) PROVE BlobInv'
  <2> USE <1>5 DEF WriteFile
  <2>1. BlobTypeOK'
    OBVIOUS
  <2>2. HandleInv'
    BY DEF HandleInv, OpenInv, AloneInv, RenameInv
  <2>3. OrderInv'
    BY DEF OrderInv, HandleInv, OpenInv
  <2>4. BlobsAreSound'
    BY DEF OrderInv, BlobsAreSound, NameImpliesBytes, RowsHaveBlobs, Truncated
  <2>5. QED
    BY <2>1, <2>2, <2>3, <2>4
<1>6. ASSUME NEW d \in BlobDoc, Rename(d) PROVE BlobInv'
  <2> USE <1>6 DEF Rename
  <2>1. BlobTypeOK'
    OBVIOUS
  <2>2. HandleInv'
    <3>1. OpenInv'
      BY DEF HandleInv, OpenInv, AloneInv, Open
    <3>2. AloneInv'
      BY DEF HandleInv, OpenInv, AloneInv, Open
    <3>3. RenameInv'
      BY DEF HandleInv, OpenInv, AloneInv, RenameInv, Open
    <3>4. QED
      BY <3>1, <3>2, <3>3 DEF HandleInv
  <2>3. OrderInv'
    BY DEF OrderInv
  <2>4. BlobsAreSound'
    BY DEF HandleInv, AloneInv, RenameInv, OrderInv, BlobsAreSound, NameImpliesBytes, RowsHaveBlobs, Truncated
  <2>5. QED
    BY <2>1, <2>2, <2>3, <2>4
<1>7. ASSUME NEW d \in BlobDoc, InsertRow(d) PROVE BlobInv'
  BY <1>7 DEF InsertRow, HandleInv, OpenInv, AloneInv, RenameInv, OrderInv, BlobsAreSound, NameImpliesBytes, RowsHaveBlobs,
              Truncated
<1>8. ASSUME NEW d \in BlobDoc, Fails(d) PROVE BlobInv'
  <2> USE <1>8 DEF Fails
  <2>1. BlobTypeOK'
    OBVIOUS
  <2>2. HandleInv' /\ OrderInv'
    <3>1. OpenInv'
      BY DEF HandleInv, OpenInv
    <3>2. AloneInv' /\ RenameInv'
      BY DEF HandleInv, AloneInv, RenameInv
    <3>3. OrderInv'
      BY DEF OrderInv
    <3>4. QED
      BY <3>1, <3>2, <3>3 DEF HandleInv
  <2>3. BlobsAreSound'
    BY DEF BlobsAreSound, NameImpliesBytes, RowsHaveBlobs, Truncated
  <2>4. QED
    BY <2>1, <2>2, <2>3
<1>9. QED
  BY <1>1, <1>2, <1>3, <1>4, <1>5, <1>6, <1>7, <1>8 DEF BlobNext

\* For any documents, wherever the processes that ingest them die: a name
\* implies its bytes unless two puts shared a .part file, and the order of the
\* two writes decides which of blob and row may be missing.
THEOREM BlobsStaySound == BlobSpec => []BlobsAreSound
<1>1. BlobInit => BlobInv
  BY InitBlobInv, BlobAssumption
<1>2. BlobInv /\ [BlobNext]_blobVars => BlobInv'
  BY NextBlobInv, BlobAssumption
<1>3. BlobInv => BlobsAreSound
  BY DEF BlobInv
<1>4. QED
  BY <1>1, <1>2, <1>3, PTL DEF BlobSpec

-----------------------------------------------------------------------------
(***************************************************************************)
(* Migration                                                               *)
(***************************************************************************)

\* Once the backfill has started, a row v2 cannot see is one it will still find,
\* or one that v1 wrote in the gap; with the trigger first there is no gap.
GapInv ==
    /\ backfill = "running" => Orphans \subseteq Pending \cup missedBy
    /\ backfill = "done" => Orphans \subseteq missedBy
    /\ backfill = "before" => missedBy = {}
    /\ trigger_first /\ backfill # "before" => trigger /\ missedBy = {}

MigInv == MigTypeOK /\ GapInv

LEMMA InitMigInv == MigInit => MigInv
  BY DEF MigInit, MigInv, MigTypeOK, GapInv

LEMMA NextMigInv == MigrationAssumption /\ MigInv /\ [MigNext]_migVars => MigInv'
<1> SUFFICES ASSUME MigrationAssumption, MigInv, [MigNext]_migVars PROVE MigInv'
  OBVIOUS
<1> USE DEF MigInv
<1>1. CASE UNCHANGED migVars
  BY <1>1 DEF migVars, MigTypeOK, GapInv, Orphans, Pending
<1>2. ASSUME NEW e \in EventId, V1Write(e) PROVE MigInv'
  BY <1>2 DEF V1Write, MigTypeOK, GapInv, Orphans, Pending
<1>3. ASSUME NEW e \in EventId, V2Write(e) PROVE MigInv'
  BY <1>3 DEF V2Write, MigTypeOK, GapInv, Orphans, Pending
<1>4. CASE Expand
  BY <1>4 DEF Expand, MigTypeOK, GapInv, Orphans, Pending
<1>5. CASE StartBackfill
  <2> USE <1>5 DEF StartBackfill
  <2> DEFINE rows == {0} \cup old \cup new
  <2>1. rows \in SUBSET Nat /\ rows # {} /\ rows \subseteq EventId \cup {0}
    BY DEF MigTypeOK, MigrationAssumption
  <2>2. IsFiniteSet(rows)
    <3>1. IsFiniteSet(EventId \cup {0})
      BY FS_AddElement DEF MigrationAssumption
    <3>2. QED
      BY <3>1, <2>1, FS_Subset
  <2>3. Max(rows) \in rows /\ \A e \in rows : Max(rows) >= e
    BY <2>1, <2>2, MaxOfFinite
  <2>4. high_water' = Max(rows)
    OBVIOUS
  <2> HIDE DEF rows
  <2>5. MigTypeOK'
    BY <2>1, <2>3, <2>4 DEF MigTypeOK
  <2>6. \A e \in Orphans : e <= high_water'
    BY <2>1, <2>3, <2>4 DEF Orphans, rows
  <2>7. GapInv'
    BY <2>6 DEF GapInv, Orphans, Pending
  <2>8. QED
    BY <2>5, <2>7
<1>6. CASE Backfill
  <2> USE <1>6 DEF Backfill
  <2>1. PICK batch \in SUBSET Pending :
          /\ Cardinality(batch) = Min({BatchSize, Cardinality(Pending)})
          /\ new' = new \cup batch
          /\ backfill' = IF batch = {} THEN "done" ELSE "running"
    OBVIOUS
  <2>2. IsFiniteSet(Pending)
    <3>1. Pending \subseteq EventId
      BY DEF MigTypeOK, Pending, Orphans
    <3>2. QED
      BY <3>1, FS_Subset DEF MigrationAssumption
  <2>3. batch = {} => Pending = {}
    <3>1. SUFFICES ASSUME batch = {} PROVE Cardinality(Pending) = 0
      BY <2>2, FS_EmptySet
    <3>2. Cardinality(Pending) \in Nat /\ BatchSize \in Nat \ {0}
      BY <2>2, FS_CardinalityType DEF MigrationAssumption
    <3>3. Min({BatchSize, Cardinality(Pending)}) = 0
      BY <2>1, <3>1, FS_EmptySet
    <3>4. \E m \in {BatchSize, Cardinality(Pending)} :
             \A y \in {BatchSize, Cardinality(Pending)} : m <= y
      BY <3>2
    <3>5. Min({BatchSize, Cardinality(Pending)}) \in {BatchSize, Cardinality(Pending)}
      BY <3>4 DEF Min
    <3>6. QED
      BY <3>2, <3>3, <3>5
  <2>4. MigTypeOK'
    BY <2>1 DEF MigTypeOK, Pending, Orphans
  <2>5. GapInv'
    BY <2>1, <2>3 DEF GapInv, Orphans, Pending, MigTypeOK
  <2>6. QED
    BY <2>4, <2>5
<1>7. CASE CreateTrigger
  BY <1>7 DEF CreateTrigger, MigTypeOK, GapInv, Orphans, Pending
<1>8. CASE Rerun
  BY <1>8 DEF Rerun, MigTypeOK, GapInv, Orphans, Pending
<1>9. QED
  BY <1>1, <1>2, <1>3, <1>4, <1>5, <1>6, <1>7, <1>8 DEF MigNext

\* For any rows, batch size and interleaving of the two versions: with the
\* trigger before the backfill nothing stays hidden from v2, in the other order
\* exactly what v1 wrote in the gap may.
THEOREM OnlyTheGapIsHidden == MigSpec => []OrphansFellInTheGap
<1>1. MigInit => MigInv
  BY InitMigInv
<1>2. MigInv /\ [MigNext]_migVars => MigInv'
  BY NextMigInv, MigrationAssumption
<1>3. MigInv => OrphansFellInTheGap
  BY DEF MigInv, GapInv, OrphansFellInTheGap
<1>4. QED
  BY <1>1, <1>2, <1>3, PTL DEF MigSpec

-----------------------------------------------------------------------------
(***************************************************************************)
(* ResponseCache                                                           *)
(***************************************************************************)

\* The part of CacheTypeOK that CacheIsSound needs; KeysInv, below, is the rest.
CacheShape ==
    /\ single_flight \in BOOLEAN
    /\ source \in [CacheKey -> 0..MaxVersion]
    /\ DOMAIN data \subseteq CacheKey /\ \A k \in DOMAIN data : data[k] \in Entry
    /\ keylock \in [CacheKey -> Caller \cup {Nobody}]
    /\ caller \in [Caller -> Request \cup {Idle}]
    /\ calls \in [CacheKey -> Nat]

\* Who loads a key holds its lock and no other, and a key is not fresh while its lock is held.
\* A key that is neither fresh nor being loaded owes nobody a call.
FlightInv ==
    single_flight =>
       /\ \A c \in Caller, k \in CacheKey :
             keylock[k] = c <=> caller[c].at \in {"load", "put"} /\ caller[c].key = k
       /\ \A k \in CacheKey :
             /\ keylock[k] # Nobody => ~Fresh(k)
             /\ keylock[k] = Nobody /\ ~Fresh(k) => calls[k] = 0
             /\ calls[k] <= 1

\* What is about to be stored is as good as what is stored.
OvertakenInv ==
    /\ StaleEntryWasOvertaken
    /\ \A c \in Caller :
          caller[c].at = "put" /\ caller[c].value < source[caller[c].key] =>
             caller[c].key \in due \/ caller[c].overtaken

CacheInv == CacheShape /\ FlightInv /\ OvertakenInv

LEMMA InitCacheInv == CacheAssumption /\ CacheInit => CacheInv
<1> SUFFICES ASSUME CacheAssumption, CacheInit PROVE CacheInv
  OBVIOUS
<1>1. CacheShape
  BY DEF CacheAssumption, CacheInit, CacheShape, Idle
<1>2. FlightInv
  BY DEF CacheInit, FlightInv, Idle
<1>3. OvertakenInv
  BY DEF CacheInit, OvertakenInv, StaleEntryWasOvertaken, Idle
<1>4. QED
  BY <1>1, <1>2, <1>3 DEF CacheInv

LEMMA NextCacheInv == CacheAssumption /\ CacheInv /\ [CacheNext]_cacheVars => CacheInv'
<1> SUFFICES ASSUME CacheAssumption, CacheInv, [CacheNext]_cacheVars PROVE CacheInv'
  OBVIOUS
<1> USE DEF CacheInv, CacheAssumption
<1>1. CASE UNCHANGED cacheVars
  BY <1>1 DEF cacheVars, CacheShape, FlightInv, OvertakenInv, StaleEntryWasOvertaken, Fresh
<1>2. ASSUME NEW c \in Caller, NEW k \in CacheKey, Hit(c, k) PROVE CacheInv'
  BY <1>2 DEF Hit, CacheShape, FlightInv, OvertakenInv, StaleEntryWasOvertaken, Fresh
<1>3. ASSUME NEW c \in Caller, NEW k \in CacheKey, Miss(c, k) PROVE CacheInv'
  <2> USE <1>3 DEF Miss
  <2> DEFINE r == [at |-> IF single_flight THEN "wait" ELSE "load",
                   key |-> k, value |-> 0, overtaken |-> FALSE]
  <2>1. r \in Request
    BY DEF Request
  <2>2. CacheShape'
    BY <2>1 DEF CacheShape
  <2>3. FlightInv'
    BY DEF CacheShape, FlightInv, Fresh
  <2>4. OvertakenInv'
    BY DEF CacheShape, OvertakenInv, StaleEntryWasOvertaken
  <2>5. QED
    BY <2>2, <2>3, <2>4
<1>4. ASSUME NEW c \in Caller, Acquire(c) PROVE CacheInv'
  <2> USE <1>4 DEF Acquire, Loads, Returns
  <2>1. caller[c] \in Request
    BY DEF CacheShape, Idle
  <2>2. CacheShape'
    BY <2>1 DEF CacheShape, Request
  <2>3. FlightInv'
    <3> DEFINE k == caller[c].key
    <3>1. CASE Fresh(k)
      BY <2>1, <3>1 DEF CacheShape, FlightInv, Fresh, Request, Idle
    <3>2. CASE ~Fresh(k)
      <4>1. /\ keylock' = [keylock EXCEPT ![k] = c]
            /\ calls' = [calls EXCEPT ![k] = @ + 1]
            /\ caller'[c].at = "load" /\ caller'[c].key = k
            /\ \A b \in Caller \ {c} : caller'[b] = caller[b]
        BY <2>1, <3>2 DEF CacheShape, Request
      <4>2. k \in CacheKey /\ keylock[k] = Nobody
        BY <2>1 DEF Request
      <4>3. \A j \in CacheKey : Fresh(j)' <=> Fresh(j)
        BY DEF Fresh
      <4>4. QED
        BY <4>1, <4>2, <4>3, <3>2, <2>1 DEF FlightInv, CacheShape
    <3>3. QED
      BY <3>1, <3>2
  <2>4. OvertakenInv'
    BY <2>1 DEF CacheShape, OvertakenInv, StaleEntryWasOvertaken, Request, Idle
  <2>5. QED
    BY <2>2, <2>3, <2>4
<1>5. ASSUME NEW c \in Caller, Load(c) PROVE CacheInv'
  <2> USE <1>5 DEF Load
  <2>1. caller[c] \in Request
    BY DEF CacheShape, Idle
  <2>2. CacheShape'
    BY <2>1 DEF CacheShape, Request
  <2>3. FlightInv'
    BY <2>1 DEF CacheShape, FlightInv, Fresh, Request
  <2>4. OvertakenInv'
    BY <2>1 DEF CacheShape, OvertakenInv, StaleEntryWasOvertaken, Request
  <2>5. QED
    BY <2>2, <2>3, <2>4
<1>6. ASSUME NEW c \in Caller, LoadFails(c) PROVE CacheInv'
  <2> USE <1>6 DEF LoadFails, Release, Reset, Returns
  <2>1. caller[c] \in Request
    BY DEF CacheShape, Idle
  <2>2. CacheShape'
    BY <2>1 DEF CacheShape, Request
  <2>3. FlightInv'
    BY <2>1 DEF CacheShape, FlightInv, Fresh, Request, Idle
  <2>4. OvertakenInv'
    BY <2>1 DEF CacheShape, OvertakenInv, StaleEntryWasOvertaken, Request, Idle
  <2>5. QED
    BY <2>2, <2>3, <2>4
<1>7. ASSUME NEW c \in Caller, Put(c) PROVE CacheInv'
  <2> DEFINE k == caller[c].key
             fresh == [value |-> caller[c].value, age |-> 0, overtaken |-> caller[c].overtaken]
  <2>1. PICK gone : /\ caller[c].at = "put"
                    /\ DOMAIN data' = (DOMAIN data \cup {k}) \ gone
                    /\ \A j \in DOMAIN data' : data'[j] = IF j = k THEN fresh ELSE data[j]
                    /\ calls' = [j \in CacheKey |-> IF j \in gone THEN 0 ELSE calls[j]]
                    /\ keylock' = [j \in CacheKey |-> IF keylock[j] = c THEN Nobody ELSE keylock[j]]
                    /\ caller' = [caller EXCEPT ![c] = Idle]
                    /\ UNCHANGED <<single_flight, source, due>>
    <3> DEFINE all == [j \in DOMAIN data \cup {k} |-> IF j = k THEN fresh ELSE data[j]]
    <3>1. PICK gone : data' = [j \in DOMAIN all \ gone |-> all[j]] /\ Reset(gone)
      BY <1>7 DEF Put
    <3>2. DOMAIN all = DOMAIN data \cup {k}
      OBVIOUS
    <3>3. \A j \in DOMAIN all : all[j] = IF j = k THEN fresh ELSE data[j]
      OBVIOUS
    <3> HIDE DEF all
    <3>4. /\ DOMAIN data' = (DOMAIN data \cup {k}) \ gone
          /\ \A j \in DOMAIN data' : data'[j] = IF j = k THEN fresh ELSE data[j]
      BY <3>1, <3>2, <3>3
    <3>5. QED
      BY <3>1, <3>4, <1>7 DEF Put, Reset, Release, Returns
  <2>2. caller[c] \in Request /\ k \in CacheKey /\ fresh \in Entry
    BY <2>1 DEF CacheShape, Idle, Request, Entry
  <2>3. CacheShape'
    BY <2>1, <2>2 DEF CacheShape
  <2>4. \A j \in CacheKey : Fresh(j)' => j = k \/ Fresh(j)
    BY <2>1 DEF Fresh
  <2>5. \A j \in CacheKey \ gone : j = k \/ Fresh(j) => Fresh(j)'
    BY <2>1, <2>2 DEF Fresh, CacheShape
  <2>6. FlightInv'
    <3>1. SUFFICES ASSUME single_flight PROVE FlightInv'
      BY <2>1 DEF FlightInv
    <3>2. \A b \in Caller \ {c} : caller'[b] = caller[b]
      BY <2>1
    <3>3. caller'[c].at = "idle"
      BY <2>1 DEF CacheShape, Idle
    <3>4. ASSUME NEW b \in Caller, NEW j \in CacheKey
          PROVE  keylock'[j] = b <=> caller'[b].at \in {"load", "put"} /\ caller'[b].key = j
      BY <3>1, <3>2, <3>3, <2>1 DEF FlightInv
    <3>5. \A j \in CacheKey : keylock[j] = c <=> j = k
      BY <3>1, <2>1, <2>2 DEF FlightInv
    <3>6. ASSUME NEW j \in CacheKey
          PROVE  /\ keylock'[j] # Nobody => ~Fresh(j)'
                 /\ keylock'[j] = Nobody /\ ~Fresh(j)' => calls'[j] = 0
                 /\ calls'[j] <= 1
      <4>1. keylock'[j] # Nobody => keylock[j] # Nobody /\ keylock[j] # c
        BY <2>1
      <4>2. CASE j = k
        BY <4>1, <4>2, <3>1, <3>5, <2>1, <2>5 DEF FlightInv
      <4>3. CASE j # k
        BY <4>1, <4>3, <3>1, <3>5, <2>1, <2>4, <2>5 DEF FlightInv
      <4>4. QED
        BY <4>2, <4>3
    <3>7. QED
      BY <3>4, <3>6 DEF FlightInv
  <2>7. OvertakenInv'
    BY <2>1, <2>2 DEF CacheShape, OvertakenInv, StaleEntryWasOvertaken, Idle
  <2>8. QED
    BY <2>3, <2>6, <2>7
<1>8. ASSUME NEW k \in CacheKey, Correct(k) PROVE CacheInv'
  <2> USE <1>8 DEF Correct
  <2>1. CacheShape'
    BY DEF CacheShape
  <2>2. FlightInv'
    BY DEF FlightInv, Fresh
  <2>3. OvertakenInv'
    BY DEF CacheShape, OvertakenInv, StaleEntryWasOvertaken
  <2>4. QED
    BY <2>1, <2>2, <2>3
<1>9. ASSUME NEW k \in CacheKey, Invalidate(k) PROVE CacheInv'
  <2> USE <1>9 DEF Invalidate, Kept, Reset
  <2>1. \A c \in Caller : /\ caller'[c].at = caller[c].at
                          /\ caller'[c].at # "idle" => /\ caller'[c].key = caller[c].key
                                                       /\ caller'[c].value = caller[c].value
    BY DEF CacheShape, Idle, Request
  <2>2. CacheShape'
    <3>1. caller' \in [Caller -> Request \cup {Idle}]
      <4>1. ASSUME NEW c \in Caller, caller[c].at = "put"
            PROVE  [caller[c] EXCEPT !.overtaken = TRUE] \in Request
        <5>1. caller[c] \in Request
          BY <4>1 DEF CacheShape, Idle
        <5>2. QED
          BY <5>1 DEF Request
      <4>2. QED
        BY <4>1 DEF CacheShape
    <3>2. QED
      BY <3>1 DEF CacheShape
  <2>3. DOMAIN data' = DOMAIN data \ {k} /\ \A j \in DOMAIN data' : data'[j] = data[j]
    OBVIOUS
  <2>4. \A j \in CacheKey : Fresh(j)' <=> Fresh(j) /\ j # k
    BY <2>3 DEF Fresh
  <2>5. FlightInv'
    BY <2>1, <2>4 DEF FlightInv, CacheShape
  <2>6. OvertakenInv'
    BY <2>1, <2>3 DEF CacheShape, OvertakenInv, StaleEntryWasOvertaken, Request, Idle
  <2>7. QED
    BY <2>2, <2>5, <2>6
<1>10. CASE Age
  <2> DEFINE older == [k \in DOMAIN data |->
                         [data[k] EXCEPT !.age = IF @ < Ttl THEN @ + 1 ELSE @]]
  <2>1. /\ data' = older
        /\ calls' = [k \in CacheKey |->
                       IF k \in {j \in DOMAIN data : Fresh(j) /\ older[j].age = Ttl}
                       THEN 0 ELSE calls[k]]
        /\ UNCHANGED <<single_flight, source, order, keylock, caller, due>>
    BY <1>10 DEF Age, Reset
  <2>2. \A k \in DOMAIN data : /\ data'[k] \in Entry
                               /\ data'[k].value = data[k].value
                               /\ data'[k].overtaken = data[k].overtaken
    BY <2>1 DEF CacheShape, Entry
  <2>3. CacheShape'
    BY <2>1, <2>2 DEF CacheShape
  <2>4. \A k \in CacheKey :
           /\ Fresh(k)' => Fresh(k)
           /\ Fresh(k) /\ ~Fresh(k)' => k \in DOMAIN data /\ older[k].age = Ttl
    BY <2>1 DEF Fresh, CacheShape, Entry
  <2> HIDE DEF older
  <2>5. FlightInv'
    BY <2>1, <2>4 DEF FlightInv, CacheShape
  <2>6. OvertakenInv'
    BY <2>1, <2>2 DEF older, OvertakenInv, StaleEntryWasOvertaken, CacheShape
  <2>7. QED
    BY <2>3, <2>5, <2>6
<1>11. QED
  BY <1>1, <1>2, <1>3, <1>4, <1>5, <1>6, <1>7, <1>8, <1>9, <1>10 DEF CacheNext

\* For any callers, keys, capacity and time to live: one load per expiry under
\* single flight, and no stale entry but one that a write overtook.
THEOREM CacheStaysSound == CacheSpec => []CacheIsSound
<1>1. CacheInit => CacheInv
  BY InitCacheInv, CacheAssumption
<1>2. CacheInv /\ [CacheNext]_cacheVars => CacheInv'
  BY NextCacheInv, CacheAssumption
<1>3. CacheInv => CacheIsSound
  BY DEF CacheInv, FlightInv, OvertakenInv, CacheIsSound, OneLoadPerExpiry
<1>4. QED
  BY <1>1, <1>2, <1>3, PTL DEF CacheSpec

\* The list of keys, least recently used first, holds each key of the cache once.
KeysInv ==
    /\ order \in Seq(CacheKey) /\ IsInjective(order)
    /\ Range(order) = DOMAIN data /\ Len(order) <= Capacity
    /\ due \subseteq CacheKey

LEMMA WithoutKey ==
    ASSUME order \in Seq(CacheKey), IsInjective(order), NEW k
    PROVE  /\ Without(k) \in Seq(CacheKey) /\ IsInjective(Without(k))
           /\ Range(Without(k)) = Range(order) \ {k}
           /\ Len(Without(k)) = IF k \in Range(order) THEN Len(order) - 1 ELSE Len(order)
<1>1. CASE k \notin Range(order)
  BY <1>1 DEF Without
<1>2. CASE k \in Range(order)
  <2>1. \E i \in DOMAIN order : order[i] = k
    BY <1>2 DEF Range
  <2>2. Place(k) \in 1..Len(order) /\ order[Place(k)] = k
    BY <2>1 DEF Place
  <2>3. Without(k) = RemoveAt(order, Place(k))
    BY <1>2 DEF Without
  <2>4. /\ RemoveAt(order, Place(k)) \in Seq(CacheKey)
        /\ Len(RemoveAt(order, Place(k))) = Len(order) - 1
    BY <2>2, Removed
  <2>5. /\ IsInjective(RemoveAt(order, Place(k)))
        /\ Range(RemoveAt(order, Place(k))) = Range(order) \ {k}
    BY <2>2, RemovedElement
  <2>6. QED
    BY <1>2, <2>3, <2>4, <2>5
<1>3. QED
  BY <1>1, <1>2

LEMMA MostRecentKey ==
    ASSUME order \in Seq(CacheKey), IsInjective(order), NEW k \in CacheKey
    PROVE  /\ MostRecent(k) \in Seq(CacheKey) /\ IsInjective(MostRecent(k))
           /\ Range(MostRecent(k)) = Range(order) \cup {k}
           /\ Len(MostRecent(k)) = IF k \in Range(order) THEN Len(order) ELSE Len(order) + 1
<1>1. /\ Without(k) \in Seq(CacheKey) /\ IsInjective(Without(k))
      /\ Range(Without(k)) = Range(order) \ {k}
      /\ Len(Without(k)) = IF k \in Range(order) THEN Len(order) - 1 ELSE Len(order)
  BY WithoutKey
<1>2. /\ Append(Without(k), k) \in Seq(CacheKey) /\ IsInjective(Append(Without(k), k))
      /\ Range(Append(Without(k), k)) = Range(Without(k)) \cup {k}
      /\ Len(Append(Without(k), k)) = Len(Without(k)) + 1
  BY <1>1, Appended
<1>3. Len(order) \in Nat
  OBVIOUS
<1>4. QED
  BY <1>1, <1>2, <1>3 DEF MostRecent

LEMMA InitKeys == CacheInit => KeysInv
<1> SUFFICES ASSUME CacheInit PROVE KeysInv
  OBVIOUS
<1>1. order = <<>> /\ DOMAIN data = {} /\ due = {}
  BY DEF CacheInit
<1>2. order \in Seq(CacheKey) /\ Len(order) = 0 /\ DOMAIN order = {}
  BY <1>1
<1>3. IsInjective(order) /\ Range(order) = {}
  BY <1>2 DEF IsInjective, Range
<1>4. QED
  BY <1>1, <1>2, <1>3, CacheAssumption DEF KeysInv, CacheAssumption

\* Whatever is evicted, the entries and the list lose it together.
LEMMA NextKeys == CacheShape /\ KeysInv /\ [CacheNext]_cacheVars => KeysInv'
<1> SUFFICES ASSUME CacheShape, KeysInv, [CacheNext]_cacheVars PROVE KeysInv'
  OBVIOUS
<1> USE DEF KeysInv
<1>0. Len(order) \in Nat /\ Capacity \in Nat
  BY CacheAssumption DEF CacheAssumption
<1>1. CASE UNCHANGED cacheVars
  BY <1>1 DEF cacheVars
<1>2. ASSUME NEW c \in Caller, NEW k \in CacheKey, Hit(c, k) PROVE KeysInv'
  <2>1. /\ k \in Range(order) /\ order' = MostRecent(k) /\ UNCHANGED <<data, due>>
    BY <1>2 DEF Hit, Fresh
  <2>2. /\ MostRecent(k) \in Seq(CacheKey) /\ IsInjective(MostRecent(k))
        /\ Range(MostRecent(k)) = Range(order) \cup {k}
        /\ Len(MostRecent(k)) = Len(order)
    BY <2>1, MostRecentKey
  <2>3. QED
    BY <2>1, <2>2
<1>3. ASSUME NEW c \in Caller,
             (\E k \in CacheKey : Miss(c, k)) \/ Acquire(c) \/ Load(c) \/ LoadFails(c)
      PROVE  KeysInv'
  BY <1>3 DEF Miss, Acquire, Load, LoadFails
<1>4. ASSUME NEW c \in Caller, Put(c) PROVE KeysInv'
  <2> DEFINE k == caller[c].key
             keys == MostRecent(k)
  <2>1. caller[c].at = "put" /\ due' = due
    BY <1>4 DEF Put
  <2>2. k \in CacheKey
    <3>1. caller[c] \in Request
      BY <2>1 DEF CacheShape, Idle
    <3>2. QED
      BY <3>1 DEF Request
  <2>3. /\ keys \in Seq(CacheKey) /\ IsInjective(keys)
        /\ Range(keys) = DOMAIN data \cup {k}
        /\ Len(keys) <= Len(order) + 1 /\ Len(keys) \in Nat
    <3>1. /\ keys \in Seq(CacheKey) /\ IsInjective(keys)
          /\ Range(keys) = Range(order) \cup {k}
          /\ Len(keys) = IF k \in Range(order) THEN Len(order) ELSE Len(order) + 1
      BY <2>2, MostRecentKey
    <3>2. QED
      BY <3>1, <1>0
  <2>4. \/ /\ Len(keys) <= Capacity /\ order' = keys
           /\ DOMAIN data' = DOMAIN data \cup {k}
        \/ \E i \in 1..Len(keys) \div 2 :
              /\ order' = RemoveAt(keys, i)
              /\ DOMAIN data' = (DOMAIN data \cup {k}) \ {keys[i]}
    BY <1>4 DEF Put
  <2> HIDE DEF keys, k
  <2>5. CASE Len(keys) <= Capacity /\ order' = keys /\ DOMAIN data' = DOMAIN data \cup {k}
    BY <2>1, <2>3, <2>5
  <2>6. ASSUME NEW i \in 1..Len(keys) \div 2,
               order' = RemoveAt(keys, i), DOMAIN data' = (DOMAIN data \cup {k}) \ {keys[i]}
        PROVE  KeysInv'
    <3>1. i \in 1..Len(keys)
      BY <2>3
    <3>2. RemoveAt(keys, i) \in Seq(CacheKey) /\ Len(RemoveAt(keys, i)) = Len(keys) - 1
      BY <2>3, <3>1, Removed
    <3>3. IsInjective(RemoveAt(keys, i)) /\ Range(RemoveAt(keys, i)) = Range(keys) \ {keys[i]}
      BY <2>3, <3>1, RemovedElement
    <3>4. Len(keys) - 1 <= Capacity
      BY <1>0, <2>3
    <3>5. QED
      BY <2>1, <2>3, <2>6, <3>2, <3>3, <3>4
  <2>7. QED
    BY <2>4, <2>5, <2>6
<1>5. ASSUME NEW k \in CacheKey, Correct(k) PROVE KeysInv'
  BY <1>5 DEF Correct
<1>6. ASSUME NEW k \in CacheKey, Invalidate(k) PROVE KeysInv'
  <2>1. order' = Without(k) /\ DOMAIN data' = DOMAIN data \ {k} /\ due' = due \ {k}
    BY <1>6 DEF Invalidate, Kept
  <2>2. /\ Without(k) \in Seq(CacheKey) /\ IsInjective(Without(k))
        /\ Range(Without(k)) = Range(order) \ {k}
        /\ Len(Without(k)) <= Len(order) /\ Len(Without(k)) \in Nat
    <3>1. /\ Without(k) \in Seq(CacheKey) /\ IsInjective(Without(k))
          /\ Range(Without(k)) = Range(order) \ {k}
          /\ Len(Without(k)) = IF k \in Range(order) THEN Len(order) - 1 ELSE Len(order)
      BY WithoutKey
    <3>2. QED
      BY <3>1, <1>0
  <2>3. QED
    BY <2>1, <2>2, <1>0
<1>7. CASE Age
  BY <1>7 DEF Age
<1>8. QED
  BY <1>1, <1>2, <1>3, <1>4, <1>5, <1>6, <1>7 DEF CacheNext

\* The list of keys never disagrees with the entries and never outgrows the
\* capacity, whichever key eviction picks.
THEOREM CacheTypes == CacheSpec => []CacheTypeOK
<1>1. CacheInit => CacheInv /\ KeysInv
  BY InitCacheInv, InitKeys, CacheAssumption
<1>2. CacheInv /\ KeysInv /\ [CacheNext]_cacheVars => (CacheInv /\ KeysInv)'
  BY NextCacheInv, NextKeys, CacheAssumption DEF CacheInv
<1>3. CacheInv /\ KeysInv => CacheTypeOK
  BY DEF CacheInv, CacheShape, KeysInv, CacheTypeOK
<1>4. QED
  BY <1>1, <1>2, <1>3, PTL DEF CacheSpec

-----------------------------------------------------------------------------
(***************************************************************************)
(* IndexFreshness                                                          *)
(***************************************************************************)

\* A page is part of what was ranked.
LEMMA RankedIsPart == ASSUME NEW S, NEW k PROVE Ranked(S, k) \subseteq S
  BY DEF Ranked

\* Fewer documents before it, no later a place: filtering first never removes
\* from the page a document that passes the filter, and what filtering last
\* leaves on it ranks before what it leaves out.
LEMMA FilteredPage ==
    ASSUME FreshnessAssumption, NEW S \in SUBSET IndexDoc, NEW V \in SUBSET S, NEW k \in Nat
    PROVE  /\ Ranked(S, k) \cap V \subseteq Ranked(V, k)
           /\ \A a \in Ranked(S, k) \cap V, b \in Ranked(V, k) \ Ranked(S, k) : a < b
<1> DEFINE Before(T, d) == {e \in T : e < d}
<1>1. \A d \in IndexDoc : /\ IsFiniteSet(Before(S, d)) /\ IsFiniteSet(Before(V, d))
                          /\ Cardinality(Before(S, d)) \in Nat /\ Cardinality(Before(V, d)) \in Nat
  <2>1. SUFFICES ASSUME NEW d \in IndexDoc
                 PROVE  /\ IsFiniteSet(Before(S, d)) /\ IsFiniteSet(Before(V, d))
                        /\ Cardinality(Before(S, d)) \in Nat /\ Cardinality(Before(V, d)) \in Nat
    OBVIOUS
  <2>2. Before(S, d) \subseteq IndexDoc /\ Before(V, d) \subseteq IndexDoc /\ IsFiniteSet(IndexDoc)
    BY DEF FreshnessAssumption
  <2>3. QED
    BY <2>2, FS_Subset, FS_CardinalityType
<1>2. \A d \in IndexDoc : Cardinality(Before(V, d)) <= Cardinality(Before(S, d))
  <2>1. SUFFICES ASSUME NEW d \in IndexDoc
                 PROVE  Cardinality(Before(V, d)) <= Cardinality(Before(S, d))
    OBVIOUS
  <2>2. Before(V, d) \subseteq Before(S, d)
    OBVIOUS
  <2>3. QED
    BY <1>1, <2>2, FS_Subset
<1>3. \A T : Ranked(T, k) = {d \in T : Cardinality(Before(T, d)) < k}
  BY DEF Ranked
<1>4. Ranked(S, k) \cap V \subseteq Ranked(V, k)
  <2>1. SUFFICES ASSUME NEW d \in Ranked(S, k) \cap V PROVE d \in Ranked(V, k)
    OBVIOUS
  <2> HIDE DEF Before
  <2>2. d \in IndexDoc /\ d \in V /\ Cardinality(Before(S, d)) < k
    BY <1>3
  <2>3. Cardinality(Before(V, d)) < k
    BY <1>1, <1>2, <2>2
  <2>4. QED
    BY <1>3, <2>2, <2>3
<1>5. ASSUME NEW a \in Ranked(S, k) \cap V, NEW b \in Ranked(V, k) \ Ranked(S, k) PROVE a < b
  <2>1. /\ a \in IndexDoc /\ a \in S /\ Cardinality(Before(S, a)) < k
        /\ b \in IndexDoc /\ b \in S /\ ~ (Cardinality(Before(S, b)) < k)
    BY <1>3
  <2>2. a \in Nat /\ b \in Nat
    BY <2>1 DEF FreshnessAssumption
  <2>3. ASSUME b <= a PROVE FALSE
    <3>1. Before(S, b) \subseteq Before(S, a)
      <4>1. \A e \in S : e \in Nat
        BY DEF FreshnessAssumption
      <4>2. ASSUME NEW e \in S, e < b PROVE e < a
        <5>1. e \in Nat
          BY <4>1
        <5>2. QED
          BY <2>2, <2>3, <4>2, <5>1
      <4>3. QED
        BY <4>2
    <3>2. Cardinality(Before(S, b)) <= Cardinality(Before(S, a))
      BY <1>1, <2>1, <3>1, FS_Subset
    <3> HIDE DEF Before
    <3>3. QED
      BY <1>1, <2>1, <3>2
  <2>4. QED
    BY <2>2, <2>3
<1>6. QED
  BY <1>4, <1>5

\* What was deleted at the boundary is in no store; an edit moves both the text
\* and the date that META keeps of it.
FreshInv ==
    /\ IndexTypeOK
    /\ erased \subseteq deleted
    /\ erased \cap indexed = {} /\ erased \cap snippets = {}
    /\ \A d \in IndexDoc : indexText[d] = 0 /\ updated[d] = text[d]

LEMMA InitFresh == IndexInit => FreshInv
  BY DEF IndexInit, FreshInv, IndexTypeOK

LEMMA NextFresh == FreshInv /\ [IndexNext]_indexVars => FreshInv'
<1> SUFFICES ASSUME FreshInv, [IndexNext]_indexVars PROVE FreshInv'
  OBVIOUS
<1> USE DEF FreshInv, IndexTypeOK
<1>1. CASE UNCHANGED indexVars
  BY <1>1 DEF indexVars
<1>2. ASSUME NEW d \in IndexDoc, FlagDelete(d) \/ HardDelete(d) PROVE FreshInv'
  BY <1>2 DEF FlagDelete, HardDelete
<1>3. ASSUME NEW d \in IndexDoc, Edit(d) PROVE FreshInv'
  BY <1>3 DEF Edit
<1>4. QED
  BY <1>1, <1>2, <1>3 DEF IndexNext

\* A document erased at the boundary is out of reach of every entry point, and
\* what is filtered last is the head of what is filtered first.
THEOREM ErasureReaches == IndexSpec => []DeletionReachesEveryPath
<1>1. IndexInit => FreshInv
  BY InitFresh
<1>2. FreshInv => DeletionReachesEveryPath
  <2> SUFFICES ASSUME FreshInv PROVE DeletionReachesEveryPath
    OBVIOUS
  <2>0. PageSize \in Nat
    BY FreshnessAssumption DEF FreshnessAssumption
  <2>1. ASSUME NEW q \in Query, NEW p \in Principal
        PROVE  /\ SearchPost(q, p) \subseteq SearchPre(q, p)
               /\ \A a \in SearchPost(q, p), b \in SearchPre(q, p) \ SearchPost(q, p) : a < b
               /\ SearchPre(q, p) \subseteq {d \in q \cap indexed : Visible(d, p)}
    <3> DEFINE S == q \cap indexed
               V == {d \in S : Visible(d, p)}
    <3>1. S \in SUBSET IndexDoc /\ V \in SUBSET S
      BY DEF Query
    <3>2. SearchPre(q, p) = Ranked(V, PageSize) /\ SearchPost(q, p) = Ranked(S, PageSize) \cap V
      BY RankedIsPart DEF SearchPre, SearchPost
    <3> HIDE DEF S, V
    <3>3. /\ Ranked(S, PageSize) \cap V \subseteq Ranked(V, PageSize)
          /\ \A a \in Ranked(S, PageSize) \cap V, b \in Ranked(V, PageSize) \ Ranked(S, PageSize) : a < b
      BY <2>0, <3>1, FilteredPage, FreshnessAssumption
    <3>4. Ranked(V, PageSize) \subseteq V
      BY RankedIsPart
    <3>5. QED
      BY <3>2, <3>3, <3>4 DEF S, V
  <2>2. PostIsTopOfPre
    BY <2>1 DEF PostIsTopOfPre
  <2>3. \A o, q : SimilarTo(o, q) \subseteq indexed
    BY RankedIsPart DEF SimilarTo
  <2>4. ErasedIsUnreachable
    <3>1. \A q \in Query, p \in Principal : \A d \in SearchPre(q, p) \cup SearchPost(q, p) :
             d \in indexed /\ Visible(d, p)
      BY <2>1
    <3>2. \A d \in erased : d \notin indexed /\ d \notin snippets
      BY DEF FreshInv
    <3>3. \A d \in erased : d \notin Reachable
      BY <2>3, <3>1, <3>2 DEF Reachable, Preview
    <3>4. QED
      BY <3>1, <3>3 DEF ErasedIsUnreachable, Visible
  <2>5. WatermarkListsStale
    BY DEF FreshInv, IndexTypeOK, WatermarkListsStale, Changed, BuiltAt
  <2>6. QED
    BY <2>2, <2>4, <2>5 DEF DeletionReachesEveryPath
<1>3. QED
  BY <1>1, <1>2, NextFresh, PTL DEF IndexSpec

-----------------------------------------------------------------------------
(***************************************************************************)
(* Watermark                                                               *)
(***************************************************************************)

\* m is the newest timestamp among the first n rows, or 0 if there are none.
Newest(m, n) ==
    /\ m \in {0} \cup {raw[i].ts : i \in 1..n}
    /\ \A i \in 1..n : raw[i].ts <= m

OneRowEach == \A i, j \in DOMAIN raw : raw[i].doc = raw[j].doc => i = j

\* What is known of the cursors.
CursorInv ==
    /\ cursor["D"].seq = visible
    /\ \A s \in {"A", "B", "C"} : Newest(cursor[s].ts, visible)
    /\ cursor["C"].doc \in {0} \cup Seen

\* What is known of the counts: no strategy counts what no run could see, and a
\* stricter comparison never counts more.
ProcessedInv ==
    /\ \A s \in WMStrategy, d \in RawDoc :
          processed[s][d] <= runs /\ (d \notin Seen => processed[s][d] = 0)
    /\ \A d \in RawDoc : /\ processed["A"][d] <= processed["C"][d]
                         /\ processed["C"][d] <= processed["B"][d]

\* Why a row was missed, in terms of the rows that arrived before it.
Overtaken(i) == \E j \in 1..i - 1 : raw[j].ts > raw[i].ts
Tied(i) == \E j \in 1..i - 1 : raw[j].ts = raw[i].ts
Outranked(i) == \E j \in 1..i - 1 : raw[j].doc > raw[i].doc

MissedInv ==
    \A i \in 1..visible :
        /\ processed["B"][raw[i].doc] = 0 => Overtaken(i) /\ raw[i].ts < cursor["B"].ts
        /\ processed["A"][raw[i].doc] = 0 /\ processed["B"][raw[i].doc] > 0 => Tied(i)
        /\ processed["C"][raw[i].doc] = 0 /\ processed["B"][raw[i].doc] > 0 => Outranked(i)

WMInv ==
    /\ WMTypeOK /\ OneRowEach /\ CursorInv /\ ProcessedInv /\ MissedInv
    /\ ArrivalOrderLosesNothing

LEMMA InitWM == WMInit => WMInv
<1> SUFFICES ASSUME WMInit PROVE WMInv
  OBVIOUS
<1> USE DEF WMInit
<1>1. WMTypeOK
  BY WatermarkAssumption DEF WMTypeOK, WatermarkAssumption
<1>2. Seen = {}
  BY DEF Seen
<1>3. ArrivalOrderLosesNothing /\ ProcessedInv
  BY <1>2 DEF ArrivalOrderLosesNothing, ProcessedInv, WMStrategy
<1>4. CursorInv /\ OneRowEach /\ MissedInv
  BY DEF CursorInv, OneRowEach, MissedInv, Newest, WMStrategy
<1>5. QED
  BY <1>1, <1>3, <1>4 DEF WMInv

\* what is in the table
LEMMA RowsTyped ==
    ASSUME WMTypeOK
    PROVE  /\ Len(raw) \in Nat /\ visible \in Nat /\ visible <= Len(raw) /\ DOMAIN raw = 1..Len(raw)
           /\ \A i \in 1..Len(raw) : /\ raw[i].ts \in Stamp /\ raw[i].ts \in Nat /\ raw[i].ts > 0
                                     /\ raw[i].doc \in RawDoc /\ raw[i].doc \in Nat /\ raw[i].doc > 0
<1>1. /\ Len(raw) \in Nat /\ visible \in 0..Len(raw) /\ DOMAIN raw = 1..Len(raw)
      /\ \A i \in 1..Len(raw) : raw[i] \in [doc : RawDoc, ts : Stamp]
  <2>1. raw \in Seq([doc : RawDoc, ts : Stamp]) /\ visible \in 0..Len(raw)
    BY DEF WMTypeOK
  <2>2. QED
    BY <2>1, LenProperties, ElementOfSeq
<1>2. \A i \in 1..Len(raw) : raw[i].ts \in Stamp /\ raw[i].doc \in RawDoc
  BY <1>1
<1>3. \A n \in Stamp \cup RawDoc : n \in Nat /\ n > 0
  BY WatermarkAssumption DEF WatermarkAssumption
<1>4. QED
  BY <1>1, <1>2, <1>3

\* A new row comes last: what is known of the earlier ones stays.
LEMMA InsertStep ==
    ASSUME WMInv, NEW d \in RawDoc, NEW ts \in Stamp, Insert(d, ts)
    PROVE  WMInv'
<1> DEFINE row == [doc |-> d, ts |-> ts]
<1>1. /\ raw' = Append(raw, row) /\ UNCHANGED <<visible, processed, cursor, runs>>
      /\ \A i \in 1..Len(raw) : raw[i].doc # d
  BY RowsTyped DEF Insert, WMInv
<1>2. /\ raw' \in Seq([doc : RawDoc, ts : Stamp]) /\ Len(raw') = Len(raw) + 1
      /\ DOMAIN raw' = 1..Len(raw) + 1 /\ raw'[Len(raw) + 1] = row
      /\ \A i \in 1..Len(raw) : raw'[i] = raw[i]
  BY <1>1 DEF WMInv, WMTypeOK
<1>3. Len(raw) \in Nat /\ visible \in Nat /\ visible <= Len(raw)
  BY RowsTyped DEF WMInv
<1>4. \A i \in 1..visible : raw'[i] = raw[i] /\ \A j \in 1..i - 1 : raw'[j] = raw[j]
  BY <1>2, <1>3
<1>5. Seen' = Seen
  BY <1>1, <1>4 DEF Seen
<1>6. WMTypeOK'
  BY <1>1, <1>2, <1>3 DEF WMInv, WMTypeOK
<1>7. OneRowEach'
  BY <1>1, <1>2, <1>3, RowsTyped DEF WMInv, OneRowEach
<1>8. CursorInv'
  <2>1. {raw'[i].ts : i \in 1..visible} = {raw[i].ts : i \in 1..visible}
    BY <1>4
  <2>2. \A m : Newest(m, visible) => Newest(m, visible)'
    BY <1>1, <1>4, <2>1 DEF Newest
  <2>3. QED
    BY <1>1, <1>5, <2>2 DEF WMInv, CursorInv
<1>9. ProcessedInv' /\ ArrivalOrderLosesNothing'
  BY <1>1, <1>5 DEF WMInv, ProcessedInv, ArrivalOrderLosesNothing
<1>10. MissedInv'
  <2>1. ASSUME NEW i \in 1..visible
        PROVE  /\ (Overtaken(i)' <=> Overtaken(i)) /\ (Tied(i)' <=> Tied(i))
               /\ (Outranked(i)' <=> Outranked(i))
               /\ raw'[i] = raw[i]
    BY <1>4 DEF Overtaken, Tied, Outranked
  <2>2. QED
    BY <1>1, <2>1 DEF WMInv, MissedInv
<1>11. QED
  BY <1>6, <1>7, <1>8, <1>9, <1>10 DEF WMInv

\* the cursors on a timestamp stand at the same one
LEMMA OneNewest ==
    ASSUME WMTypeOK, NEW m, NEW k, NEW n \in 0..Len(raw), Newest(m, n), Newest(k, n)
    PROVE  m = k /\ m \in Nat
  BY RowsTyped DEF Newest

LEMMA SameTimestamp ==
    ASSUME WMInv
    PROVE  /\ cursor["A"].ts = cursor["B"].ts /\ cursor["C"].ts = cursor["B"].ts
           /\ cursor["B"].ts \in Nat /\ Newest(cursor["B"].ts, visible)
           /\ \A s \in {"A", "B", "C"} : cursor[s].ts = cursor["B"].ts
<1>1. visible \in 0..Len(raw) /\ WMTypeOK
  BY DEF WMInv, WMTypeOK
<1>2. \A s \in {"A", "B", "C"} : Newest(cursor[s].ts, visible)
  BY DEF WMInv, CursorInv
<1>3. QED
  BY <1>1, <1>2, OneNewest

\* the four WHERE clauses, around the one timestamp
LEMMA Clauses ==
    ASSUME WMInv, NEW i \in 1..Len(raw)
    PROVE  LET T == cursor["B"].ts IN
           /\ Selects("A", i) <=> raw[i].ts > T
           /\ Selects("B", i) <=> raw[i].ts >= T
           /\ Selects("C", i) <=> raw[i].ts > T \/ (raw[i].ts = T /\ raw[i].doc > cursor["C"].doc)
           /\ Selects("D", i) <=> i > visible
<1>1. Selects("A", i) <=> raw[i].ts > cursor["A"].ts
  BY DEF Selects
<1>2. Selects("B", i) <=> raw[i].ts >= cursor["B"].ts
  BY DEF Selects
<1>3. Selects("C", i) <=> \/ raw[i].ts > cursor["C"].ts
                          \/ raw[i].ts = cursor["C"].ts /\ raw[i].doc > cursor["C"].doc
  BY DEF Selects
<1>4. Selects("D", i) <=> i > cursor["D"].seq
  BY DEF Selects
<1>5. QED
  BY <1>1, <1>2, <1>3, <1>4, SameTimestamp DEF WMInv, CursorInv

Batch(s) == {i \in DOMAIN raw : Selects(s, i)}

\* what a maximum over some of the rows gives
LEMMA MaxOverRows ==
    ASSUME WMTypeOK, NEW rows \in SUBSET (1..Len(raw)), rows # {}
    PROVE  /\ Max({raw[i].ts : i \in rows}) \in {raw[i].ts : i \in rows}
           /\ \A i \in rows : raw[i].ts <= Max({raw[j].ts : j \in rows})
           /\ Max({raw[i].doc : i \in rows}) \in {raw[i].doc : i \in rows}
           /\ Max(rows) \in rows /\ \A i \in rows : i <= Max(rows)
<1> DEFINE stamps == {raw[i].ts : i \in rows}
           docs == {raw[i].doc : i \in rows}
<1>1. stamps \in SUBSET Stamp /\ docs \in SUBSET RawDoc /\ stamps # {} /\ docs # {}
  BY RowsTyped
<1>2. stamps \in SUBSET Nat /\ docs \in SUBSET Nat /\ IsFiniteSet(stamps) /\ IsFiniteSet(docs)
  BY <1>1, WatermarkAssumption, FS_Subset DEF WatermarkAssumption
<1>3. rows \in SUBSET Nat /\ IsFiniteSet(rows)
  <2>1. IsFiniteSet(1..Len(raw))
    <3>1. 1 \in Int /\ Len(raw) \in Int
      BY RowsTyped
    <3>2. QED
      BY <3>1, FS_Interval
  <2>2. rows \in SUBSET Nat
    BY RowsTyped
  <2>3. QED
    BY <2>1, <2>2, FS_Subset
<1>4. Max(rows) \in rows /\ \A i \in rows : Max(rows) >= i
  BY <1>3, MaxOfFinite
<1>5. \A i \in rows : raw[i].ts \in stamps
  OBVIOUS
<1> HIDE DEF stamps, docs
<1>6. Max(stamps) \in stamps /\ \A y \in stamps : Max(stamps) >= y
  BY <1>1, <1>2, MaxOfFinite
<1>7. Max(docs) \in docs
  BY <1>1, <1>2, MaxOfFinite
<1>8. \A i \in rows : i <= Max(rows)
  BY <1>3, <1>4
<1>9. \A i \in rows : raw[i].ts <= Max(stamps)
  BY <1>2, <1>5, <1>6
<1>10. QED
  BY <1>4, <1>6, <1>7, <1>8, <1>9 DEF stamps, docs

\* A run leaves every cursor on a timestamp at the newest of all rows.
LEMMA MovedToNewest ==
    ASSUME WMInv, NEW s \in {"A", "B", "C"}
    PROVE  Newest(Moved(s, Batch(s)).ts, Len(raw))
<1> DEFINE T == cursor["B"].ts
<1>0. WMTypeOK
  BY DEF WMInv
<1>1. T \in Nat /\ cursor[s].ts = T /\ Newest(T, visible)
  BY SameTimestamp
<1>2. \A i \in 1..Len(raw) : /\ raw[i].ts > T => i \in Batch(s)
                             /\ i \in Batch(s) => raw[i].ts >= T
                             /\ raw[i].ts \in Nat
  BY <1>0, <1>1, Clauses, RowsTyped DEF Batch
<1>3. Batch(s) \in SUBSET (1..Len(raw)) /\ Len(raw) \in Nat /\ visible \in 0..Len(raw)
  BY <1>0, RowsTyped DEF Batch
<1>4. CASE Batch(s) = {}
  <2>1. Moved(s, Batch(s)).ts = T
    BY <1>1, <1>4 DEF Moved
  <2>2. \A i \in 1..Len(raw) : raw[i].ts <= T
    BY <1>1, <1>2, <1>4
  <2>3. T \in {0} \cup {raw[i].ts : i \in 1..Len(raw)}
    BY <1>1, <1>3 DEF Newest
  <2>4. QED
    BY <2>1, <2>2, <2>3 DEF Newest
<1>5. CASE Batch(s) # {}
  <2> DEFINE top == Max({raw[i].ts : i \in Batch(s)})
  <2>1. Moved(s, Batch(s)).ts = top
    BY <1>5 DEF Moved
  <2>2. top \in {raw[i].ts : i \in Batch(s)} /\ \A i \in Batch(s) : raw[i].ts <= top
    BY <1>0, <1>3, <1>5, MaxOverRows
  <2> HIDE DEF top
  <2>3. top \in Nat /\ top >= T /\ top \in {raw[i].ts : i \in 1..Len(raw)}
    BY <1>1, <1>2, <1>3, <2>2
  <2>4. \A i \in 1..Len(raw) : raw[i].ts <= top
    BY <1>1, <1>2, <2>2, <2>3
  <2>5. QED
    BY <2>1, <2>3, <2>4 DEF Newest
<1>6. QED
  BY <1>4, <1>5

LEMMA RunStep == WMInv /\ PipelineRun => WMInv'
<1> SUFFICES ASSUME WMInv, PipelineRun PROVE WMInv'
  OBVIOUS
<1> DEFINE T == cursor["B"].ts
           Next1(s, d) == IF \E i \in Batch(s) : raw[i].doc = d
                          THEN processed[s][d] + 1 ELSE processed[s][d]
\* what the run does
<1>1. /\ runs < MaxRuns /\ runs' = runs + 1 /\ visible' = Len(raw) /\ raw' = raw
      /\ cursor' = [s \in WMStrategy |-> Moved(s, Batch(s))]
      /\ processed' = [s \in WMStrategy |-> [d \in RawDoc |-> Next1(s, d)]]
  BY DEF PipelineRun, Batch
<1>2. /\ Len(raw) \in Nat /\ visible \in Nat /\ visible <= Len(raw) /\ DOMAIN raw = 1..Len(raw)
      /\ \A i \in 1..Len(raw) : /\ raw[i].ts \in Stamp /\ raw[i].ts \in Nat /\ raw[i].ts > 0
                                /\ raw[i].doc \in RawDoc /\ raw[i].doc \in Nat /\ raw[i].doc > 0
  BY RowsTyped DEF WMInv
<1>3. WMTypeOK /\ OneRowEach
  BY DEF WMInv
<1>4. \A s \in WMStrategy, d \in RawDoc :
         /\ processed[s][d] \in Nat /\ processed[s][d] <= runs
         /\ d \notin Seen => processed[s][d] = 0
  BY DEF WMInv, ProcessedInv, WMTypeOK
<1>5. T \in Nat /\ Newest(T, visible)
  BY SameTimestamp
<1>6. \A s \in WMStrategy : Batch(s) \in SUBSET (1..Len(raw))
  BY <1>2 DEF Batch
<1>7. Seen = {raw[i].doc : i \in 1..visible} /\ Seen' = {raw[i].doc : i \in 1..Len(raw)}
  BY <1>1 DEF Seen
\* row by row
<1>8. ASSUME NEW s \in WMStrategy, NEW i \in 1..Len(raw)
      PROVE  processed'[s][raw[i].doc] = IF Selects(s, i) THEN processed[s][raw[i].doc] + 1
                                                          ELSE processed[s][raw[i].doc]
  <2>1. (\E j \in Batch(s) : raw[j].doc = raw[i].doc) <=> Selects(s, i)
    BY <1>2, <1>3 DEF Batch, OneRowEach
  <2>2. processed'[s][raw[i].doc] = Next1(s, raw[i].doc)
    BY <1>1, <1>2
  <2>3. QED
    BY <2>1, <2>2
<1>9. ASSUME NEW s \in WMStrategy, NEW d \in RawDoc, d \notin Seen'
      PROVE  processed'[s][d] = 0
  <2>1. ~ \E i \in Batch(s) : raw[i].doc = d
    BY <1>6, <1>7, <1>9
  <2>2. d \notin Seen
    BY <1>2, <1>7, <1>9
  <2>3. processed'[s][d] = Next1(s, d)
    BY <1>1
  <2>4. QED
    BY <2>1, <2>2, <2>3, <1>4
<1>10. \A i \in 1..Len(raw) : raw[i].doc \in Seen <=> i <= visible
  <2>1. ASSUME NEW i \in 1..Len(raw), i <= visible PROVE raw[i].doc \in Seen
    <3>1. i \in 1..visible
      BY <1>2, <2>1
    <3>2. QED
      BY <3>1, <1>7
  <2>2. ASSUME NEW i \in 1..Len(raw), raw[i].doc \in Seen PROVE i <= visible
    <3>1. PICK j \in 1..visible : raw[i].doc = raw[j].doc
      BY <1>7, <2>2
    <3>2. j \in 1..Len(raw) /\ j <= visible
      BY <1>2
    <3>3. i = j
      BY <3>1, <3>2, <1>2, <1>3 DEF OneRowEach
    <3>4. QED
      BY <3>2, <3>3
  <2>3. QED
    BY <2>1, <2>2
\* the cursors
<1>11. CursorInv'
  <2>1. \A s \in {"A", "B", "C"} : Newest(cursor'[s].ts, Len(raw))
    <3>1. \A s \in {"A", "B", "C"} : cursor'[s] = Moved(s, Batch(s))
      BY <1>1 DEF WMStrategy
    <3>2. QED
      BY <3>1, MovedToNewest
  <2>2. \A m : Newest(m, Len(raw)) => Newest(m, visible)'
    BY <1>1 DEF Newest
  <2>3. cursor'["D"].seq = Len(raw)
    <3>1. cursor'["D"] = Moved("D", Batch("D")) /\ "D" \in WMStrategy
      BY <1>1 DEF WMStrategy
    <3>2. \A i \in 1..Len(raw) : i \in Batch("D") <=> i > visible
      BY <1>2, Clauses DEF Batch
    <3>3. CASE Batch("D") = {}
      <4>1. visible = Len(raw)
        <5>1. Len(raw) > 0 => Len(raw) \in 1..Len(raw)
          BY <1>2
        <5>2. ASSUME Len(raw) > 0, Len(raw) > visible PROVE FALSE
          <6>1. Len(raw) \in Batch("D")
            BY <5>1, <5>2, <3>2
          <6>2. QED
            BY <6>1, <3>3
        <5>3. Len(raw) \in Nat /\ visible \in Nat /\ visible <= Len(raw)
          BY <1>2
        <5>4. QED
          BY ONLY <5>2, <5>3
      <4>2. cursor["D"].seq = visible
        BY DEF WMInv, CursorInv
      <4>3. QED
        BY <3>1, <3>3, <4>1, <4>2 DEF Moved
    <3>4. CASE Batch("D") # {}
      <4>1. /\ Max(Batch("D")) \in Batch("D") /\ \A i \in Batch("D") : i <= Max(Batch("D"))
        BY <1>3, <1>6, <3>1, <3>4, MaxOverRows
      <4>2. Batch("D") \in SUBSET (1..Len(raw))
        BY <1>6, <3>1
      <4>3. Len(raw) \in Batch("D")
        BY <1>2, <3>2, <3>4, <4>2
      <4>4. Max(Batch("D")) = Len(raw)
        BY <4>1, <4>2, <4>3, <1>2
      <4>5. QED
        BY <3>1, <3>4, <4>4 DEF Moved
    <3>5. QED
      BY <3>3, <3>4
  <2>4. cursor'["C"].doc \in {0} \cup Seen'
    <3>1. cursor'["C"] = Moved("C", Batch("C")) /\ "C" \in WMStrategy
      BY <1>1 DEF WMStrategy
    <3>2. CASE Batch("C") = {}
      <4>1. cursor["C"].doc \in {0} \cup Seen
        BY DEF WMInv, CursorInv
      <4>2. QED
        BY <3>1, <3>2, <4>1, <1>2, <1>7 DEF Moved
    <3>3. CASE Batch("C") # {}
      <4>1. Max({raw[i].doc : i \in Batch("C")}) \in {raw[i].doc : i \in Batch("C")}
        BY <1>3, <1>6, <3>1, <3>3, MaxOverRows
      <4>2. cursor'["C"].doc = Max({raw[i].doc : i \in Batch("C")})
        BY <3>1, <3>3 DEF Moved
      <4>3. QED
        BY <4>1, <4>2, <1>6, <1>7, <3>1
    <3>4. QED
      BY <3>2, <3>3
  <2>5. QED
    BY <1>1, <2>1, <2>2, <2>3, <2>4 DEF CursorInv
<1>12. WMTypeOK'
  <2>1. \A s \in WMStrategy : Moved(s, Batch(s)) \in
             [ts : Stamp \cup {0}, doc : RawDoc \cup {0}, seq : Nat]
    <3> SUFFICES ASSUME NEW s \in WMStrategy
                 PROVE  Moved(s, Batch(s)) \in [ts : Stamp \cup {0}, doc : RawDoc \cup {0}, seq : Nat]
      OBVIOUS
    <3>1. CASE Batch(s) = {}
      BY <3>1, <1>3 DEF Moved, WMTypeOK
    <3>2. CASE Batch(s) # {}
      <4>1. /\ Max({raw[i].ts : i \in Batch(s)}) \in {raw[i].ts : i \in Batch(s)}
            /\ Max({raw[i].doc : i \in Batch(s)}) \in {raw[i].doc : i \in Batch(s)}
            /\ Max(Batch(s)) \in Batch(s)
        BY <1>3, <1>6, <3>2, MaxOverRows
      <4>2. /\ Max({raw[i].ts : i \in Batch(s)}) \in Stamp
            /\ Max({raw[i].doc : i \in Batch(s)}) \in RawDoc
            /\ Max(Batch(s)) \in Nat
        BY <4>1, <1>2, <1>6
      <4>3. QED
        BY <3>2, <4>2 DEF Moved
    <3>3. QED
      BY <3>1, <3>2
  <2>2. runs' \in 0..MaxRuns /\ MaxRuns \in Nat /\ runs \in Nat
    BY <1>1, <1>3, WatermarkAssumption DEF WMTypeOK, WatermarkAssumption
  <2>3. \A s \in WMStrategy, d \in RawDoc : Next1(s, d) \in 0..MaxRuns
    BY <1>1, <1>4, <2>2
  <2>4. processed' \in [WMStrategy -> [RawDoc -> 0..MaxRuns]]
    BY <1>1, <2>3
  <2>5. cursor' \in [WMStrategy -> [ts : Stamp \cup {0}, doc : RawDoc \cup {0}, seq : Nat]]
    BY <1>1, <2>1
  <2>6. raw' \in Seq([doc : RawDoc, ts : Stamp]) /\ visible' \in 0..Len(raw')
    BY <1>1, <1>2, <1>3 DEF WMTypeOK
  <2>7. QED
    BY <2>2, <2>4, <2>5, <2>6 DEF WMTypeOK
\* the counts
<1>13. ArrivalOrderLosesNothing'
  <2> SUFFICES ASSUME NEW d \in RawDoc PROVE processed'["D"][d] = IF d \in Seen' THEN 1 ELSE 0
    BY DEF ArrivalOrderLosesNothing
  <2>1. CASE d \notin Seen'
    BY <1>9, <2>1 DEF WMStrategy
  <2>2. CASE d \in Seen'
    <3>1. PICK i \in 1..Len(raw) : raw[i].doc = d
      BY <1>7, <2>2
    <3>2. processed["D"][d] = IF i <= visible THEN 1 ELSE 0
      BY <1>10, <3>1 DEF WMInv, ArrivalOrderLosesNothing
    <3>3. processed'["D"][d] = IF i > visible THEN processed["D"][d] + 1 ELSE processed["D"][d]
      BY <1>8, <3>1, Clauses DEF WMStrategy
    <3>4. QED
      BY <3>1, <3>2, <3>3, <1>2, <2>2
  <2>3. QED
    BY <2>1, <2>2
<1>14. ProcessedInv'
  <2>1. ASSUME NEW s \in WMStrategy, NEW d \in RawDoc
        PROVE  processed'[s][d] <= runs' /\ (d \notin Seen' => processed'[s][d] = 0)
    <3>1. processed'[s][d] = Next1(s, d) /\ runs' = runs + 1 /\ runs \in Nat
      BY <1>1, <1>3 DEF WMTypeOK
    <3>2. QED
      BY <3>1, <1>4, <1>9
  <2>2. ASSUME NEW d \in RawDoc
        PROVE  /\ processed'["A"][d] <= processed'["C"][d]
               /\ processed'["C"][d] <= processed'["B"][d]
    <3>1. /\ processed["A"][d] <= processed["C"][d] /\ processed["C"][d] <= processed["B"][d]
          /\ \A s \in {"A", "B", "C"} : s \in WMStrategy /\ processed[s][d] \in Nat
      BY <1>4 DEF WMInv, ProcessedInv, WMStrategy
    <3>2. CASE d \notin Seen'
      BY <1>9, <3>1, <3>2
    <3>3. CASE d \in Seen'
      <4>1. PICK i \in 1..Len(raw) : raw[i].doc = d
        BY <1>7, <3>3
      <4>2. (Selects("A", i) => Selects("C", i)) /\ (Selects("C", i) => Selects("B", i))
        BY <1>2, <1>5, Clauses
      <4>3. \A s \in {"A", "B", "C"} :
               processed'[s][d] = IF Selects(s, i) THEN processed[s][d] + 1 ELSE processed[s][d]
        BY <1>8, <4>1, <3>1
      <4>4. QED
        BY <4>2, <4>3, <3>1
    <3>4. QED
      BY <3>2, <3>3
  <2>3. QED
    BY <2>1, <2>2 DEF ProcessedInv
\* the rows that were missed
<1>15. MissedInv'
  <2> SUFFICES ASSUME NEW i \in 1..Len(raw)
               PROVE  /\ processed'["B"][raw[i].doc] = 0 =>
                            Overtaken(i) /\ raw[i].ts < cursor'["B"].ts
                      /\ processed'["A"][raw[i].doc] = 0 /\ processed'["B"][raw[i].doc] > 0 => Tied(i)
                      /\ processed'["C"][raw[i].doc] = 0 /\ processed'["B"][raw[i].doc] > 0 => Outranked(i)
    BY <1>1 DEF MissedInv, Overtaken, Tied, Outranked
  <2> DEFINE d == raw[i].doc
             t == raw[i].ts
  <2>1. /\ d \in RawDoc /\ d \in Nat /\ d > 0 /\ t \in Nat /\ t > 0
        /\ \A s \in {"A", "B", "C"} : s \in WMStrategy /\ processed[s][d] \in Nat
    BY <1>2, <1>4 DEF WMStrategy
  <2>2. \A s \in {"A", "B", "C"} :
           processed'[s][d] = IF Selects(s, i) THEN processed[s][d] + 1 ELSE processed[s][d]
    BY <1>8, <2>1
  <2>3. /\ Selects("A", i) <=> t > T
        /\ Selects("B", i) <=> t >= T
        /\ Selects("C", i) <=> t > T \/ (t = T /\ d > cursor["C"].doc)
    BY Clauses
  <2>4. i <= visible => /\ processed["B"][d] = 0 => Overtaken(i) /\ t < T
                        /\ processed["A"][d] = 0 /\ processed["B"][d] > 0 => Tied(i)
                        /\ processed["C"][d] = 0 /\ processed["B"][d] > 0 => Outranked(i)
    BY <1>2 DEF WMInv, MissedInv
  <2>5. ~ (i <= visible) => /\ \A s \in {"A", "B", "C"} : processed[s][d] = 0
                            /\ 1..visible \subseteq 1..i - 1
    BY <1>2, <1>4, <1>10, <2>1
  <2>6. T > 0 => \E j \in 1..visible : raw[j].ts = T
    BY <1>5 DEF Newest
  <2>7. T <= cursor'["B"].ts
    <3>1. Newest(cursor'["B"].ts, Len(raw))
      BY <1>1, MovedToNewest DEF WMStrategy
    <3>2. cursor'["B"].ts \in Nat
      BY <3>1, <1>2 DEF Newest
    <3>3. T = 0 \/ \E j \in 1..Len(raw) : raw[j].ts = T
      BY <1>2, <1>5 DEF Newest
    <3>4. QED
      BY <3>1, <3>2, <3>3, <1>2 DEF Newest
  <2>8. cursor'["B"].ts \in Nat
    <3>1. Newest(cursor'["B"].ts, Len(raw))
      BY <1>1, MovedToNewest DEF WMStrategy
    <3>2. QED
      BY <3>1, <1>2 DEF Newest
  <2>9. ASSUME processed'["B"][d] = 0 PROVE Overtaken(i) /\ t < cursor'["B"].ts
    <3>1. t < T /\ processed["B"][d] = 0
      BY <2>1, <2>2, <2>3, <2>9, <1>5
    <3>2. Overtaken(i)
      <4>1. CASE i <= visible
        BY <3>1, <4>1, <2>4
      <4>2. CASE ~ (i <= visible)
        <5>1. PICK j \in 1..visible : raw[j].ts = T
          BY <3>1, <2>1, <2>6, <1>5
        <5>2. j \in 1..i - 1 /\ raw[j].ts > t
          BY <3>1, <4>2, <5>1, <2>1, <2>5, <1>5
        <5>3. QED
          BY <5>2 DEF Overtaken
      <4>3. QED
        BY <4>1, <4>2
    <3>3. QED
      BY <3>1, <3>2, <2>1, <2>7, <2>8, <1>5
  <2>10. ASSUME processed'["B"][d] > 0, processed["B"][d] = 0
         PROVE  t >= T /\ ~ (i <= visible)
    BY <2>1, <2>2, <2>3, <2>4, <2>10, <1>5
  <2>11. ASSUME processed'["A"][d] = 0, processed'["B"][d] > 0 PROVE Tied(i)
    <3>1. t <= T /\ processed["A"][d] = 0
      BY <2>1, <2>2, <2>3, <2>11, <1>5
    <3>2. CASE processed["B"][d] > 0
      BY <3>1, <3>2, <2>1, <2>4, <2>5
    <3>3. CASE processed["B"][d] = 0
      <4>1. t = T /\ ~ (i <= visible)
        BY <2>10, <2>11, <3>1, <3>3, <2>1, <1>5
      <4>2. QED
        BY <4>1, <2>1, <2>5, <2>6 DEF Tied
    <3>4. QED
      BY <3>2, <3>3, <2>1
  <2>12. ASSUME processed'["C"][d] = 0, processed'["B"][d] > 0 PROVE Outranked(i)
    <3>1. ~ (t > T) /\ ~ (t = T /\ d > cursor["C"].doc) /\ processed["C"][d] = 0
      BY <2>1, <2>2, <2>3, <2>12
    <3>2. CASE processed["B"][d] > 0
      BY <3>1, <3>2, <2>1, <2>4, <2>5
    <3>3. CASE processed["B"][d] = 0
      <4>1. t = T /\ ~ (i <= visible)
        BY <2>10, <2>12, <3>1, <3>3, <2>1, <1>5
      <4>2. cursor["C"].doc \in {0} \cup Seen
        BY DEF WMInv, CursorInv
      <4>3. ~ (d > cursor["C"].doc)
        BY <3>1, <4>1
      <4>4. cursor["C"].doc # 0
        BY <4>3, <2>1
      <4>5. PICK j \in 1..visible : raw[j].doc = cursor["C"].doc
        BY <4>2, <4>4, <1>7
      <4>6. j \in 1..Len(raw) /\ j # i /\ raw[j].doc \in Nat
        BY <4>1, <1>2
      <4>7. raw[j].doc # d
        BY <4>6, <1>2, <1>3 DEF OneRowEach
      <4>8. raw[j].doc > d
        BY <4>3, <4>5, <4>6, <4>7, <2>1
      <4>9. QED
        BY <4>1, <4>8, <2>5 DEF Outranked
    <3>4. QED
      BY <3>2, <3>3, <2>1
  <2>13. QED
    BY <2>9, <2>11, <2>12
<1>16. OneRowEach'
  BY <1>1, <1>3 DEF OneRowEach
<1>17. QED
  BY <1>11, <1>12, <1>13, <1>14, <1>15, <1>16 DEF WMInv

LEMMA NextWM == WMInv /\ [WMNext]_wmVars => WMInv'
<1>1. ASSUME WMInv, UNCHANGED wmVars PROVE WMInv'
  <2>1. UNCHANGED <<raw, visible, processed, cursor, runs>>
    BY <1>1 DEF wmVars
  <2>2. WMTypeOK' /\ OneRowEach' /\ Seen' = Seen
    BY <1>1, <2>1 DEF WMInv, WMTypeOK, OneRowEach, Seen
  <2>3. CursorInv'
    BY <1>1, <2>1, <2>2 DEF WMInv, CursorInv, Newest
  <2>4. ProcessedInv' /\ ArrivalOrderLosesNothing'
    BY <1>1, <2>1, <2>2 DEF WMInv, ProcessedInv, ArrivalOrderLosesNothing
  <2>5. MissedInv'
    BY <1>1, <2>1 DEF WMInv, MissedInv, Overtaken, Tied, Outranked
  <2>6. QED
    BY <2>2, <2>3, <2>4, <2>5 DEF WMInv
<1>2. QED
  BY <1>1, RunStep, InsertStep DEF WMNext

LEMMA CursorsSound == WMInv => CursorsAreSound
<1> SUFFICES ASSUME WMInv PROVE LossesAreNested
  BY DEF CursorsAreSound, WMInv
<1>0. WMTypeOK /\ visible \in 0..Len(raw) /\ Len(raw) \in Nat
  BY DEF WMInv, WMTypeOK
<1>1. ASSUME NEW s \in {"A", "B", "C"}
      PROVE  cursor[s].ts = Max({0} \cup {raw[i].ts : i \in 1..visible})
  <2> DEFINE stamps == {raw[i].ts : i \in 1..visible}
             S == {0} \cup stamps
             m == cursor[s].ts
  <2>1. Newest(m, visible)
    BY DEF WMInv, CursorInv
  <2>2. m \in S /\ \A y \in S : y <= m
    <3>1. \A i \in 1..visible : raw[i].ts <= m
      BY <2>1 DEF Newest
    <3>2. m \in S
      BY <2>1 DEF Newest
    <3>3. m >= 0
      BY <1>0, <3>2, RowsTyped
    <3>4. QED
      BY <3>1, <3>2, <3>3
  <2>3. S \in SUBSET Nat /\ IsFiniteSet(S) /\ S # {}
    <3>1. stamps \in SUBSET Stamp
      BY <1>0, RowsTyped
    <3>2. IsFiniteSet(stamps)
      BY <3>1, WatermarkAssumption, FS_Subset DEF WatermarkAssumption
    <3>3. IsFiniteSet(stamps \cup {0})
      BY <3>2, FS_AddElement
    <3>4. S = stamps \cup {0}
      OBVIOUS
    <3>5. S \in SUBSET Nat
      <4>1. Stamp \in SUBSET Nat
        BY WatermarkAssumption DEF WatermarkAssumption
      <4>2. stamps \in SUBSET Nat
        BY <3>1, <4>1
      <4> HIDE DEF stamps
      <4>3. QED
        BY <4>2
    <3>6. QED
      BY <3>3, <3>4, <3>5
  <2> HIDE DEF S, m
  <2>4. Max(S) \in S /\ \A y \in S : Max(S) >= y
    BY <2>3, MaxOfFinite
  <2>5. m = Max(S)
    <3>1. m \in Nat /\ Max(S) \in Nat /\ m <= Max(S) /\ Max(S) <= m
      BY <2>2, <2>3, <2>4
    <3>2. QED
      BY <3>1
  <2>6. QED
    BY <2>5 DEF S, m
<1>2. \A s \in WMStrategy, d \in RawDoc : processed[s][d] \in Nat
  BY DEF WMInv, WMTypeOK
<1>3. \A d \in Seen : d \in RawDoc
  BY <1>0, RowsTyped DEF Seen
<1>4. Missed("B") \subseteq Missed("C") /\ Missed("C") \subseteq Missed("A")
  BY <1>2, <1>3 DEF Missed, WMInv, ProcessedInv, WMStrategy
<1>5. ASSUME NEW i \in 1..visible
      PROVE  /\ raw[i].doc \in Missed("B") => Overtaken(i)
             /\ raw[i].doc \in Missed("A") \ Missed("B") => Tied(i)
             /\ raw[i].doc \in Missed("C") \ Missed("B") => Outranked(i)
  <2>1. raw[i].doc \in Seen /\ raw[i].doc \in RawDoc
    BY <1>3 DEF Seen
  <2>2. processed["B"][raw[i].doc] \in Nat
    BY <1>2, <2>1 DEF WMStrategy
  <2>3. QED
    BY <2>1, <2>2 DEF Missed, WMInv, MissedInv
<1>6. QED
  BY <1>1, <1>4, <1>5 DEF LossesAreNested, Overtaken, Tied, Outranked

\* Arrival order processes what a run could see, once; what a cursor on a
\* timestamp loses was overtaken, tied or outranked by an earlier row.
THEOREM CursorsStaySound == WMSpec => []CursorsAreSound
<1>1. QED
  BY InitWM, NextWM, CursorsSound, PTL DEF WMSpec
=============================================================================
