---------------------------- MODULE StreamCommit ----------------------------
(***************************************************************************)
(* Consumers of a streamed extraction: model-interface-lab/stream_lab.py.  *)
(* The naive one writes each delta as it arrives (section 2);              *)
(* extract_streaming() buffers, validates and commits once (section 3).    *)
(* The stream is provider.stream(): deltas, then usage; it may fail midway *)
(* and its consumer may be cancelled after any delta.                      *)
(***************************************************************************)
EXTENDS Naturals, FiniteSets

CONSTANTS
    StreamDoc,
    Deltas,         \* deltas of a whole response
    ValidDoc        \* documents whose record parses and validates

ASSUME StreamCommitAssumption == Deltas \in Nat \ {0} /\ ValidDoc \subseteq StreamDoc

VARIABLES
    consumer,   \* "naive" or "safe"
    got,        \* got[d]: deltas received
    phase,      \* phase[d]: "streaming", "complete", "cancelled", "failed" or "closed"
    fragments,  \* fragments[d]: rows of debris, one per delta written
    committed   \* documents committed as records

consumerVars == <<consumer, got, phase, fragments, committed>>

ConsumerTypeOK ==
    /\ consumer \in {"naive", "safe"}
    /\ got \in [StreamDoc -> 0..Deltas] /\ fragments \in [StreamDoc -> 0..Deltas]
    /\ phase \in [StreamDoc -> {"streaming", "complete", "cancelled", "failed", "closed"}]
    /\ committed \subseteq StreamDoc

ConsumerInit ==
    /\ consumer \in {"naive", "safe"}
    /\ got = [d \in StreamDoc |-> 0] /\ fragments = got
    /\ phase = [d \in StreamDoc |-> "streaming"]
    /\ committed = {}

Becomes(d, to) == phase' = [phase EXCEPT ![d] = to]

\* a delta: appended to the store, or to the buffer
Delta(d) ==
    /\ phase[d] = "streaming" /\ got[d] < Deltas
    /\ got' = [got EXCEPT ![d] = @ + 1]
    /\ fragments' = IF consumer = "naive" THEN [fragments EXCEPT ![d] = @ + 1] ELSE fragments
    /\ UNCHANGED <<consumer, phase, committed>>

\* usage arrives last
StreamEnds(d) ==
    /\ phase[d] = "streaming" /\ got[d] = Deltas
    /\ Becomes(d, "complete")
    /\ UNCHANGED <<consumer, got, fragments, committed>>

\* the user closed the tab, and the generator is closed
Cancel(d) ==
    /\ phase[d] = "streaming" /\ got[d] > 0
    /\ Becomes(d, "cancelled")
    /\ UNCHANGED <<consumer, got, fragments, committed>>

\* OverloadedError, raised by the generator
StreamFails(d) ==
    /\ phase[d] = "streaming" /\ got[d] < Deltas
    /\ Becomes(d, "failed")
    /\ UNCHANGED <<consumer, got, fragments, committed>>

\* a commit of whatever has arrived
Commit_Partial(d) ==
    /\ consumer = "safe" /\ phase[d] \in {"complete", "cancelled"}
    /\ committed' = committed \cup {d}
    /\ Becomes(d, "closed")
    /\ UNCHANGED <<consumer, got, fragments>>

\* json.loads, validate, and the only write
Commit(d) ==
    /\ consumer = "safe" /\ phase[d] = "complete"
    /\ committed' = IF d \in ValidDoc THEN committed \cup {d} ELSE committed
    /\ Becomes(d, "closed")
    /\ UNCHANGED <<consumer, got, fragments>>

ConsumerNext ==
    \E d \in StreamDoc :
       Delta(d) \/ StreamEnds(d) \/ Cancel(d) \/ StreamFails(d) \/ Commit(d)

ConsumerSpec == ConsumerInit /\ [][ConsumerNext]_consumerVars

-----------------------------------------------------------------------------
\* Whatever the naive consumer has received is in the store, a cancelled or
\* failed stream's debris included; the other leaves no trace of a stream it did not see
\* end: what is committed was received whole and is valid.
NoPartialWrite ==
    IF consumer = "naive" THEN fragments = got
    ELSE /\ \A d \in StreamDoc : fragments[d] = 0
         /\ \A d \in committed : got[d] = Deltas /\ d \in ValidDoc /\ phase[d] = "closed"
=============================================================================
