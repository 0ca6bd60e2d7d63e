------------------------- MODULE IdempotentEndpoint -------------------------
(***************************************************************************)
(* POST /extractions of service-lab/idempotency_lab.py: requests that      *)
(* carry an Idempotency-Key, retries of them that overlap the original,    *)
(* and a server process that may be restarted in between.                  *)
(*                                                                         *)
(* One handler thread per request.  Every commit is a step; between two    *)
(* commits lies the provider call, so any other thread may run there.  The *)
(* provider is at temperature 0: the same document always extracts to the  *)
(* same record or always fails, so content_sha is represented by the       *)
(* document and the fingerprint by the body's document.                    *)
(***************************************************************************)
EXTENDS Naturals, Sequences

CONSTANTS
    Request,        \* requests that reach the server, retries included
    KeyOf,          \* KeyOf[r]: its Idempotency-Key
    DocOf,          \* DocOf[r]: the doc_id in its body
    Fails,          \* documents whose extraction comes back unparsed or invalid
    Policies,       \* the configurations of the server: the attributes given to
                    \* serve(), and whether the events table has its natural key
    N01,            \* the document the "again" policy extracts
    MaxCrashes      \* bound: restarts of the server process

Key == {KeyOf[r] : r \in Request}
Doc == {DocOf[r] : r \in Request} \cup {N01}

Policy ==
    [mode : {"none", "check_insert", "unique"},
     inflight : {"again", "conflict", "wait"},
     store_response : BOOLEAN, fingerprint : BOOLEAN, natural_key : BOOLEAN]

ASSUME EndpointAssumption ==
    /\ Policies \subseteq Policy
    /\ MaxCrashes \in Nat

VARIABLES
    policy,     \* how this server was configured
    events,     \* the table `events`: events[i] is the row with event_id = i
    idem,       \* the table `idem`, by key
    pc,         \* where the handler thread of each request is
    resp,       \* the response body a thread has computed and not stored yet
    answer,     \* what was sent back
    crashes

vars == <<policy, events, idem, pc, resp, answer, crashes>>

(***************************************************************************)
(* Bodies and rows.  A body either carries an event id or an error, 0.     *)
(***************************************************************************)
Body == [status : {200, 201, 502}, event : Nat]
Null == [status |-> 200, event |-> 0]       \* {"replayed": true, "body": null}
Silence == [status |-> 0, event |-> 0]      \* nothing sent yet

NoRow == [state |-> "absent", fp |-> N01, response |-> Null]
IdemRow == [state : {"absent", "in_progress", "done"}, fp : Doc, response : Body]

TypeOK ==
    /\ policy \in Policies
    /\ events \in Seq([doc : Doc, request_id : Key])
    /\ idem \in [Key -> IdemRow]
    /\ pc \in [Request -> {"new", "work", "store", "existing", "sent", "dead"}]
    /\ resp \in [Request -> Body]
    /\ answer \in [Request -> [status : {0, 200, 201, 409, 422, 502, 504}, event : Nat]]
    /\ crashes \in 0..MaxCrashes

Init ==
    /\ policy \in Policies
    /\ events = <<>>
    /\ idem = [k \in Key |-> NoRow]
    /\ pc = [r \in Request |-> "new"]
    /\ resp = [r \in Request |-> Null]
    /\ answer = [r \in Request |-> Silence]
    /\ crashes = 0

Row(r) == idem[KeyOf[r]]

Send(r, a) ==
    /\ answer' = [answer EXCEPT ![r] = a]
    /\ pc' = [pc EXCEPT ![r] = "sent"]

-----------------------------------------------------------------------------
(***************************************************************************)
(* work(): extract, then INSERT INTO events                                *)
(***************************************************************************)
SameObservation(d) == {i \in DOMAIN events : events[i].doc = d}

\* the table without UNIQUE(doc_id, content_sha)
EventsAfter_NoConstraint(r, d) ==
    IF d \in Fails
    THEN events
    ELSE Append(events, [doc |-> d, request_id |-> KeyOf[r]])

\* the table after work(d) for request r
EventsAfter(r, d) ==
    IF d \in Fails \/ (policy.natural_key /\ SameObservation(d) # {})
    THEN events
    ELSE Append(events, [doc |-> d, request_id |-> KeyOf[r]])

\* the natural-key branch that answers with the latest row of all
Worked_LastRow(d) ==
    IF d \in Fails
    THEN [status |-> 502, event |-> 0]
    ELSE IF policy.natural_key /\ SameObservation(d) # {}
    THEN [status |-> 200, event |-> Len(events)]
    ELSE [status |-> 201, event |-> Len(events) + 1]

\* work() that blames the request for a bad extraction
Worked_Unprocessable(d) ==
    IF d \in Fails
    THEN [status |-> 422, event |-> 0]
    ELSE [status |-> 201, event |-> Len(events) + 1]

\* what work(d) returns: 502, 201, or 200 when the natural key suppressed it
Worked(d) ==
    IF d \in Fails
    THEN [status |-> 502, event |-> 0]
    ELSE IF policy.natural_key /\ SameObservation(d) # {}
    THEN [status |-> 200, event |-> CHOOSE i \in SameObservation(d) : TRUE]
    ELSE [status |-> 201, event |-> Len(events) + 1]

(***************************************************************************)
(* replay()                                                                *)
(***************************************************************************)
Replay_NoFingerprint(row, r) == [status |-> 200, event |-> row.response.event]

Replay(row, r) ==
    IF policy.fingerprint /\ row.fp # DocOf[r]
    THEN [status |-> 422, event |-> 0]
    ELSE [status |-> 200, event |-> row.response.event]

\* the key is remembered, its answer is not
Done_KeyOnly(r) == [state |-> "done", fp |-> DocOf[r], response |-> Null]

Done(r) ==
    [state |-> "done", fp |-> DocOf[r],
     response |-> IF policy.store_response THEN resp[r] ELSE Null]

-----------------------------------------------------------------------------
(***************************************************************************)
(* do_POST()                                                               *)
(***************************************************************************)

\* mode "none": no key is looked at
PlainPost(r) ==
    /\ pc[r] = "new" /\ policy.mode = "none"
    /\ events' = EventsAfter(r, DocOf[r])
    /\ Send(r, Worked(DocOf[r]))
    /\ UNCHANGED <<policy, idem, resp, crashes>>

\* mode "check_insert": SELECT, then leap
Check(r) ==
    /\ pc[r] = "new" /\ policy.mode = "check_insert"
    /\ \/ Row(r).state = "done" /\ Send(r, Replay(Row(r), r))
       \/ /\ Row(r).state # "done"
          /\ pc' = [pc EXCEPT ![r] = "work"]
          /\ UNCHANGED answer
    /\ UNCHANGED <<policy, events, idem, resp, crashes>>

\* a claim that does not rely on the constraint
ClaimKey_Overwrite(r) ==
    /\ pc[r] = "new" /\ policy.mode = "unique"
    /\ idem' = [idem EXCEPT ![KeyOf[r]] =
                    [state |-> "in_progress", fp |-> DocOf[r], response |-> Null]]
    /\ pc' = [pc EXCEPT ![r] = "work"]
    /\ UNCHANGED <<policy, events, resp, answer, crashes>>

\* mode "unique": INSERT the key first; the constraint decides who won
ClaimKey(r) ==
    /\ pc[r] = "new" /\ policy.mode = "unique"
    /\ \/ /\ Row(r).state = "absent"
          /\ idem' = [idem EXCEPT ![KeyOf[r]] =
                        [state |-> "in_progress", fp |-> DocOf[r], response |-> Null]]
          /\ pc' = [pc EXCEPT ![r] = "work"]
       \/ /\ Row(r).state # "absent"
          /\ pc' = [pc EXCEPT ![r] = "existing"]
          /\ UNCHANGED idem
    /\ UNCHANGED <<policy, events, resp, answer, crashes>>

\* work() for the thread that goes on to store its answer
Work(r) ==
    /\ pc[r] = "work"
    /\ events' = EventsAfter(r, DocOf[r])
    /\ resp' = [resp EXCEPT ![r] = Worked(DocOf[r])]
    /\ pc' = [pc EXCEPT ![r] = "store"]
    /\ UNCHANGED <<policy, idem, answer, crashes>>

\* only a success is stored
Store_SuccessOnly(r) ==
    /\ pc[r] = "store"
    /\ idem' = IF resp[r].status = 502
               THEN idem
               ELSE [idem EXCEPT ![KeyOf[r]].state = "done",
                                 ![KeyOf[r]].response = Done(r).response]
    /\ Send(r, resp[r])
    /\ UNCHANGED <<policy, events, resp, crashes>>

\* INSERT OR REPLACE / UPDATE idem SET state='done', then send_json
Store(r) ==
    /\ pc[r] = "store"
    /\ idem' = IF policy.mode = "unique"
               THEN [idem EXCEPT ![KeyOf[r]].state = "done",
                                 ![KeyOf[r]].response = Done(r).response]
               ELSE [idem EXCEPT ![KeyOf[r]] = Done(r)]
    /\ Send(r, resp[r])
    /\ UNCHANGED <<policy, events, resp, crashes>>

(***************************************************************************)
(* existing(): somebody else owns the key                                  *)
(***************************************************************************)
ReplayExisting(r) ==
    /\ pc[r] = "existing" /\ Row(r).state = "done"
    /\ Send(r, Replay(Row(r), r))
    /\ UNCHANGED <<policy, events, idem, resp, crashes>>

Conflict(r) ==
    /\ pc[r] = "existing" /\ Row(r).state # "done" /\ policy.inflight = "conflict"
    /\ Send(r, [status |-> 409, event |-> 0])
    /\ UNCHANGED <<policy, events, idem, resp, crashes>>

\* send_json(*self.work(conn, "N01", key)): always that document
Again(r) ==
    /\ pc[r] = "existing" /\ Row(r).state # "done" /\ policy.inflight = "again"
    /\ events' = EventsAfter(r, N01)
    /\ Send(r, Worked(N01))
    /\ UNCHANGED <<policy, idem, resp, crashes>>

\* the polling loop ran into its deadline
WaitTimeout(r) ==
    /\ pc[r] = "existing" /\ Row(r).state # "done" /\ policy.inflight = "wait"
    /\ Send(r, [status |-> 504, event |-> 0])
    /\ UNCHANGED <<policy, events, idem, resp, crashes>>

\* the process is restarted: the tables stay, every thread is gone
Restart ==
    /\ crashes < MaxCrashes
    /\ crashes' = crashes + 1
    /\ pc' = [r \in Request |-> IF pc[r] \in {"new", "sent"} THEN pc[r] ELSE "dead"]
    /\ UNCHANGED <<policy, events, idem, resp, answer>>

Handle(r) ==
    \/ PlainPost(r) \/ Check(r) \/ ClaimKey(r) \/ Work(r) \/ Store(r)
    \/ ReplayExisting(r) \/ Conflict(r) \/ Again(r) \/ WaitTimeout(r)

Next == Restart \/ \E r \in Request : Handle(r)

Spec == Init /\ [][Next]_vars

\* A handler thread runs until it has answered.
FairSpec == Spec /\ \A r \in Request : WF_vars(Handle(r))

-----------------------------------------------------------------------------
(***************************************************************************)
(* Properties                                                              *)
(***************************************************************************)

\* When the insert of the key comes first, then however its retries overlap,
\* and wherever the process was restarted, a key has written at most one event.
\* (The "again" policy works for a key that somebody else owns.)
OneEventPerKey ==
    policy.mode = "unique" /\ policy.inflight # "again" =>
    \A i, j \in DOMAIN events :
        events[i].request_id = events[j].request_id => i = j

\* The event named in an answer, fresh or replayed, is in the table and is
\* about the document that this request asked about, if the key record holds
\* the fingerprint of the request.
AnswerIsAboutTheRequest ==
    policy.fingerprint /\ policy.inflight # "again" =>
    \A r \in Request :
        answer[r].event # 0 =>
            /\ answer[r].event \in DOMAIN events
            /\ events[answer[r].event].doc = DocOf[r]

\* A key is marked done only with its answer: whoever replays it gets the
\* event its first request wrote, or the error it ended in.
DoneKeysAreAnswered ==
    policy.store_response =>
    \A k \in Key :
        idem[k].state = "done" =>
            IF idem[k].fp \in Fails
            THEN idem[k].response.event = 0
            ELSE \E i \in DOMAIN events :
                    events[i].doc = idem[k].fp /\ idem[k].response.event = i

\* UNIQUE(doc_id, content_sha): one row per observation, keys or no keys.
OneEventPerObservation ==
    policy.natural_key =>
    \A i, j \in DOMAIN events : events[i].doc = events[j].doc => i = j

\* A key or a constraint writes once.
WritesOnce == OneEventPerKey /\ OneEventPerObservation

\* Answers, fresh or replayed, are the answers to the request.
AnswersAreHonest == AnswerIsAboutTheRequest /\ DoneKeysAreAnswered

\* "key + response body": a retry that is answered with success can proceed,
\* it holds an event id.
SuccessCarriesAnEvent ==
    \A r \in Request : answer[r].status \in {200, 201} => answer[r].event # 0

\* "After a process restart the same key still replays": a claimed key is
\* resolved in the end.
ClaimedKeyResolves ==
    \A k \in Key : idem[k].state = "in_progress" ~> idem[k].state = "done"

\* As long as the process is not restarted, it is: in_progress is left for done
\* whatever the extraction returned.
ResolvesUnlessRestarted ==
    \A k \in Key :
        idem[k].state = "in_progress" ~> (idem[k].state = "done" \/ crashes > 0)
=============================================================================
