----------------------------- MODULE HttpStream -----------------------------
(***************************************************************************)
(* One streamed response of service-lab/http_lab.py and the client that    *)
(* reads it: records() with an upstream that may fail midway, work_stream()*)
(* with a buffer of FlushEvery units, buffered(), and a client that reads  *)
(* to the end of the body or leaves at any moment (abandon).               *)
(*                                                                         *)
(* A write to a client that has left still succeeds while the kernel's     *)
(* buffers absorb it: at most Absorbed of them, then it raises OSError.    *)
(***************************************************************************)
EXTENDS Naturals, FiniteSets

CONSTANTS
    Units,          \* records, or units of work, of a whole response
    FlushEvery,     \* values of flush_every
    Absorbed        \* bound on writes that succeed after the client has left

ASSUME StreamAssumption ==
    /\ {Units, Absorbed} \subseteq Nat /\ Units > 0
    /\ FlushEvery \subseteq Nat \ {0}

VARIABLES
    response,   \* [route, flush, sentinel]
    produced,   \* units done so far
    pending,    \* units waiting for the next flush
    body,       \* units written to the socket
    marked,     \* the done record was written
    server,     \* "writing", "ended" (terminator written) or "aborted" (OSError)
    failed,     \* the upstream raised midway
    client,     \* "reading" or "gone"
    late,       \* history: writes that succeeded after the client had left
    owed        \* history: units done when the client left

streamVars == <<response, produced, pending, body, marked, server, failed, client, late, owed>>

StreamTypeOK ==
    /\ response \in [route : {"records", "work", "buffered"}, flush : FlushEvery,
                     sentinel : BOOLEAN]
    /\ {produced, pending, body, owed} \subseteq 0..Units
    /\ marked \in BOOLEAN /\ failed \in BOOLEAN
    /\ server \in {"writing", "ended", "aborted"}
    /\ client \in {"reading", "gone"}
    /\ late \in 0..Absorbed

StreamInit ==
    /\ response \in [route : {"records", "work", "buffered"}, flush : FlushEvery,
                     sentinel : BOOLEAN]
    /\ response.route # "work" => response.flush = 1
    /\ produced = 0 /\ pending = 0 /\ body = 0 /\ late = 0 /\ owed = 0
    /\ marked = FALSE /\ failed = FALSE
    /\ server = "writing" /\ client = "reading"

\* a unit of work is done; it is written at once unless it is buffered
Produce ==
    /\ server = "writing" /\ ~failed /\ produced < Units
    /\ pending < response.flush \/ response.route = "buffered"
    /\ produced' = produced + 1
    /\ pending' = pending + 1
    /\ UNCHANGED <<response, body, marked, server, failed, client, late, owed>>

\* what a write needs: a full buffer, or all the work done
MustFlush ==
    \/ response.route # "buffered" /\ pending = response.flush
    \/ pending > 0 /\ produced = Units

Flush ==
    /\ server = "writing" /\ MustFlush
    /\ \/ client = "reading" /\ UNCHANGED <<late, server>>
       \/ client = "gone" /\ late < Absorbed /\ late' = late + 1 /\ UNCHANGED server
       \/ client = "gone" /\ server' = "aborted" /\ UNCHANGED late
    /\ body' = IF server' = "writing" THEN produced ELSE body
    /\ pending' = IF server' = "writing" THEN 0 ELSE pending
    /\ UNCHANGED <<response, produced, marked, failed, client, owed>>

\* raise RuntimeError: the status line is gone, the handler stops writing
UpstreamFails ==
    /\ response.route = "records" /\ server = "writing" /\ ~failed
    /\ pending = 0 /\ produced < Units
    /\ failed' = TRUE
    /\ UNCHANGED <<response, produced, pending, body, marked, server, client, late, owed>>

\* the done record after a failure too
EndBody_AlwaysMarked ==
    /\ server = "writing" /\ pending = 0
    /\ failed \/ produced = Units
    /\ marked' = (response.route = "records" /\ response.sentinel)
    /\ server' = "ended"
    /\ UNCHANGED <<response, produced, pending, body, failed, client, late, owed>>

\* the done record if every record was sent, and the clean terminator in any
\* case; these are writes too, and may find that the client has left
EndBody ==
    /\ server = "writing" /\ pending = 0
    /\ failed \/ produced = Units
    /\ marked' = (response.route = "records" /\ response.sentinel /\ ~failed)
    /\ \/ server' = "ended"
       \/ client = "gone" /\ server' = "aborted"
    /\ UNCHANGED <<response, produced, pending, body, failed, client, late, owed>>

Leave ==
    /\ client = "reading" /\ server = "writing"
    /\ client' = "gone" /\ owed' = produced
    /\ UNCHANGED <<response, produced, pending, body, marked, server, failed, late>>

StreamNext == Produce \/ Flush \/ UpstreamFails \/ EndBody \/ Leave

StreamSpec == StreamInit /\ [][StreamNext]_streamVars

-----------------------------------------------------------------------------
\* With the done record a client that has read to the end knows what it has:
\* the record is there exactly if the body is whole.  Without it a clean end
\* says nothing.
SentinelMeansWhole ==
    server = "ended" /\ client = "reading" =>
       /\ marked => body = Units
       /\ response.route = "records" /\ response.sentinel /\ ~marked => body < Units
       /\ response.route # "records" => body = Units

\* The server learns that the client has left at a write and nowhere else: the
\* work it still does is at most the rest of the current buffer and one buffer
\* per absorbed write; a buffered response does all of it.
WasteIsTheBuffer ==
    /\ client = "gone" =>
          \/ response.route = "buffered"
          \/ produced - owed <= response.flush * (Absorbed + 1)
    /\ server = "aborted" => client = "gone"
    /\ server = "aborted" /\ response.route = "buffered" => produced = Units
=============================================================================
