----------------------------- MODULE BlobStore -----------------------------
(***************************************************************************)
(* Blobs of service-lab/storage_lab.py with the metadata rows that point   *)
(* at them: put() in place or through a .part file and a rename, the blob  *)
(* before the row or after it, and a process that dies at any point.       *)
(*                                                                         *)
(* A file is named by its contents, so it is written by whoever stores     *)
(* those bytes.  Two puts of the same bytes also share the .part file: the *)
(* second open truncates what the first has written, and after the rename  *)
(* the handle of the second writes to the renamed file.                    *)
(***************************************************************************)
EXTENDS Naturals, FiniteSets

CONSTANTS
    BlobDoc,        \* documents to ingest
    Content,
    ContentOf,      \* ContentOf[d]: its bytes, named by their digest
    MaxOpen         \* how many ingests are under way at once

ASSUME BlobAssumption ==
    /\ ContentOf \in [BlobDoc -> Content]
    /\ MaxOpen \in Nat \ {0}

VARIABLES
    store,      \* [atomic, blob_first]: Blobs(atomic=...), and the order of the writes
    file,       \* the file named by each digest
    part,       \* its .part file
    ingest,     \* where the ingest of each document is
    handle,     \* the file its put() has open
    docRows,    \* documents with a committed row
    shared      \* history: contents that two puts had open at once

blobVars == <<store, file, part, ingest, handle, docRows, shared>>

FileState == {"absent", "partial", "whole"}

BlobTypeOK ==
    /\ store \in [atomic : BOOLEAN, blob_first : BOOLEAN]
    /\ file \in [Content -> FileState]
    /\ part \in [Content -> FileState]
    /\ ingest \in [BlobDoc -> {"new", "row", "put", "write", "rename", "end"}]
    /\ handle \in [BlobDoc -> {"none", "part", "file"}]
    /\ docRows \subseteq BlobDoc
    /\ shared \subseteq Content

BlobInit ==
    /\ store \in [atomic : BOOLEAN, blob_first : BOOLEAN]
    /\ file = [c \in Content |-> "absent"]
    /\ part = [c \in Content |-> "absent"]
    /\ ingest = [d \in BlobDoc |-> "new"]
    /\ handle = [d \in BlobDoc |-> "none"]
    /\ docRows = {}
    /\ shared = {}

Open(c) == {d \in BlobDoc : handle[d] # "none" /\ ContentOf[d] = c}

Goes(d, to) == ingest' = [ingest EXCEPT ![d] = to]

\* after put(): the row, if it is not there yet
AfterPut == IF store.blob_first THEN "row" ELSE "end"

-----------------------------------------------------------------------------
StartIngest(d) ==
    /\ ingest[d] = "new"
    /\ Cardinality({e \in BlobDoc : ingest[e] \notin {"new", "end"}}) < MaxOpen
    /\ Goes(d, IF store.blob_first THEN "put" ELSE "row")
    /\ UNCHANGED <<store, file, part, handle, docRows, shared>>

\* if dest.exists(): deduped
Dedup(d) ==
    /\ ingest[d] = "put" /\ file[ContentOf[d]] # "absent"
    /\ Goes(d, AfterPut)
    /\ UNCHANGED <<store, file, part, handle, docRows, shared>>

\* open(..., "wb") truncates
OpenFile(d) ==
    LET c == ContentOf[d] IN
    /\ ingest[d] = "put" /\ file[c] = "absent"
    /\ IF store.atomic
       THEN /\ part' = [part EXCEPT ![c] = "partial"]
            /\ handle' = [handle EXCEPT ![d] = "part"]
            /\ UNCHANGED file
       ELSE /\ file' = [file EXCEPT ![c] = "partial"]
            /\ handle' = [handle EXCEPT ![d] = "file"]
            /\ UNCHANGED part
    /\ shared' = IF Open(c) # {} THEN shared \cup {c} ELSE shared
    /\ Goes(d, "write")
    /\ UNCHANGED <<store, docRows>>

\* f.write(data), and the file is closed
WriteFile(d) ==
    LET c == ContentOf[d] IN
    /\ ingest[d] = "write"
    /\ \/ handle[d] = "part" /\ part' = [part EXCEPT ![c] = "whole"] /\ UNCHANGED file
       \/ handle[d] = "file" /\ file' = [file EXCEPT ![c] = "whole"] /\ UNCHANGED part
    /\ handle' = IF store.atomic THEN handle ELSE [handle EXCEPT ![d] = "none"]
    /\ Goes(d, IF store.atomic THEN "rename" ELSE AfterPut)
    /\ UNCHANGED <<store, docRows, shared>>

\* os.replace(tmp, dest) moved in front of the write
Rename_Early(d) ==
    LET c == ContentOf[d] IN
    /\ ingest[d] \in {"write", "rename"} /\ part[c] # "absent"
    /\ file' = [file EXCEPT ![c] = part[c]]
    /\ part' = [part EXCEPT ![c] = "absent"]
    /\ handle' = [e \in BlobDoc |-> IF e = d THEN "none"
                                    ELSE IF e \in Open(c) THEN "file" ELSE handle[e]]
    /\ Goes(d, AfterPut)
    /\ UNCHANGED <<store, docRows, shared>>

\* os.replace(tmp, dest): whoever else has the .part file open now writes to dest
Rename(d) ==
    LET c == ContentOf[d] IN
    /\ ingest[d] = "rename" /\ part[c] # "absent"
    /\ file' = [file EXCEPT ![c] = part[c]]
    /\ part' = [part EXCEPT ![c] = "absent"]
    /\ handle' = [e \in BlobDoc |-> IF e = d THEN "none"
                                    ELSE IF e \in Open(c) THEN "file" ELSE handle[e]]
    /\ Goes(d, AfterPut)
    /\ UNCHANGED <<store, docRows, shared>>

\* INSERT INTO documents, and commit, without waiting for the bytes
InsertRow_AtOnce(d) ==
    /\ ingest[d] \in {"row", "put", "write"}
    /\ docRows' = docRows \cup {d}
    /\ Goes(d, IF ingest[d] = "row" THEN "end" ELSE ingest[d])
    /\ UNCHANGED <<store, file, part, handle, shared>>

\* INSERT INTO documents, and commit
InsertRow(d) ==
    /\ ingest[d] = "row"
    /\ docRows' = docRows \cup {d}
    /\ Goes(d, IF store.blob_first THEN "end" ELSE "put")
    /\ UNCHANGED <<store, file, part, handle, shared>>

\* the process dies, or os.replace() finds no .part file: what is on disk stays
Fails(d) ==
    /\ ingest[d] \notin {"new", "end"}
    /\ handle' = [handle EXCEPT ![d] = "none"]
    /\ Goes(d, "end")
    /\ UNCHANGED <<store, file, part, docRows, shared>>

BlobNext ==
    \E d \in BlobDoc :
        \/ StartIngest(d) \/ Dedup(d) \/ OpenFile(d) \/ WriteFile(d)
        \/ Rename(d) \/ InsertRow(d) \/ Fails(d)

BlobSpec == BlobInit /\ [][BlobNext]_blobVars

-----------------------------------------------------------------------------
(***************************************************************************)
(* Properties                                                              *)
(***************************************************************************)

\* what the hash check of get() finds: the names stay taken, every later put of
\* the same bytes is deduplicated against them
Truncated == {c \in Content : file[c] = "partial"}

\* "the partial file is a .part that no reader looks for, and the real name
\* never existed": with temp + rename the name of a file implies its bytes,
\* however often the process dies, unless two puts of the same bytes overlap,
\* which share one .part file.
NameImpliesBytes == store.atomic => Truncated \subseteq shared

\* "Blob first": no committed row points at bytes that were never stored, for
\* documents of the same contents too.  The other order has the opposite
\* failure and only that one: every blob has its row.
RowsHaveBlobs ==
    IF store.blob_first
    THEN \A d \in docRows : file[ContentOf[d]] # "absent"
    ELSE \A c \in Content : file[c] # "absent" => \E d \in docRows : ContentOf[d] = c

\* A blob and its row may each be missing, but never in the order and never in
\* the way the store was built to exclude.
BlobsAreSound == NameImpliesBytes /\ RowsHaveBlobs
=============================================================================
