---------------------------- MODULE ServingProofs ----------------------------
(***************************************************************************)
(* Proofs about what a caller of the service gets back: the endpoint       *)
(* writes once and answers for the request, a tenant reads its own         *)
(* documents, a stream that ends is whole or says so, the graph search is  *)
(* exact in its region, and the two pointers find the smallest window.     *)
(***************************************************************************)
EXTENDS MCServing, DataLemmas

-----------------------------------------------------------------------------
(***************************************************************************)
(* IdempotentEndpoint: the table of events only grows                      *)
(***************************************************************************)
EventRow == [doc : Doc, request_id : Key]

\* e is no event, or an event about document d.
About(d, e) == e # 0 => e \in DOMAIN events /\ events[e].doc = d

\* work(d) for request r: the table keeps what it had, gains at most one row,
\* and the body names a row about d exactly if the extraction succeeds.
LEMMA WorkEffect ==
    ASSUME EndpointAssumption, TypeOK, NEW r \in Request, NEW d \in Doc,
           NEW es, es = EventsAfter(r, d)
    PROVE  /\ es \in Seq(EventRow)
           /\ DOMAIN events \subseteq DOMAIN es
           /\ \A i \in DOMAIN events : es[i] = events[i]
           /\ \A i \in DOMAIN es \ DOMAIN events :
                 /\ es[i].doc = d /\ es[i].request_id = KeyOf[r]
                 /\ i = Len(events) + 1
                 /\ policy.natural_key => SameObservation(d) = {}
           /\ Worked(d) \in Body
           /\ d \in Fails <=> Worked(d).event = 0
           /\ Worked(d).event # 0 =>
                 Worked(d).event \in DOMAIN es /\ es[Worked(d).event].doc = d
<1>1. events \in Seq(EventRow) /\ KeyOf[r] \in Key
  BY DEF TypeOK, EventRow, Key
<1>2. DOMAIN events = 1..Len(events) /\ Len(events) \in Nat
  BY <1>1
<1> DEFINE new == [doc |-> d, request_id |-> KeyOf[r]]
<1>3. new \in EventRow /\ new.doc = d /\ new.request_id = KeyOf[r]
  BY <1>1 DEF EventRow
<1>4. CASE d \in Fails
  BY <1>1, <1>4 DEF EventsAfter, Worked, Body
<1>5. CASE d \notin Fails /\ policy.natural_key /\ SameObservation(d) # {}
  <2> DEFINE i == CHOOSE j \in SameObservation(d) : TRUE
  <2>1. i \in SameObservation(d) /\ i \in DOMAIN events /\ events[i].doc = d
    BY <1>5 DEF SameObservation
  <2>2. Worked(d) = [status |-> 200, event |-> i] /\ es = events
    BY <1>5 DEF Worked, EventsAfter
  <2> HIDE DEF i
  <2>3. i \in Nat /\ i # 0
    BY <1>2, <2>1
  <2>4. QED
    BY <1>1, <1>5, <2>1, <2>2, <2>3 DEF Body
<1>6. CASE d \notin Fails /\ ~ (policy.natural_key /\ SameObservation(d) # {})
  <2>1. es = Append(events, new) /\ Worked(d) = [status |-> 201, event |-> Len(events) + 1]
    BY <1>6 DEF Worked, EventsAfter
  <2> HIDE DEF new
  <2>2. /\ es \in Seq(EventRow) /\ Len(es) = Len(events) + 1
        /\ \A i \in 1..Len(events) : es[i] = events[i]
        /\ es[Len(events) + 1] = new
    BY <1>1, <1>3, <2>1, AppendProperties
  <2>3. DOMAIN es = 1..Len(events) + 1
    BY <2>2
  <2>4. QED
    BY <1>2, <1>3, <1>6, <2>1, <2>2, <2>3 DEF Body
<1>7. QED
  BY <1>4, <1>5, <1>6

-----------------------------------------------------------------------------
(***************************************************************************)
(* IdempotentEndpoint: types                                               *)
(***************************************************************************)
LEMMA InitTypes == EndpointAssumption /\ Init => TypeOK
  BY DEF EndpointAssumption, Init, TypeOK, NoRow, IdemRow, Null, Silence, Body, Doc

Answer == [status : {0, 200, 201, 409, 422, 502, 504}, event : Nat]

LEMMA ReplayTyped ==
    ASSUME TypeOK, NEW r \in Request
    PROVE  Row(r) \in IdemRow /\ KeyOf[r] \in Key /\ DocOf[r] \in Doc /\ Replay(Row(r), r) \in Answer
<1>1. Row(r) \in IdemRow /\ KeyOf[r] \in Key /\ DocOf[r] \in Doc
  BY DEF TypeOK, Row, Key, Doc
<1>2. QED
  BY <1>1 DEF Replay, IdemRow, Body, Answer

LEMMA NextTypes == EndpointAssumption /\ TypeOK /\ [Next]_vars => TypeOK'
<1> SUFFICES ASSUME EndpointAssumption, TypeOK, [Next]_vars PROVE TypeOK'
  OBVIOUS
<1>0. /\ events \in Seq(EventRow) /\ \A b \in Body : b \in Answer
      /\ answer \in [Request -> Answer] /\ idem \in [Key -> IdemRow]
      /\ pc \in [Request -> {"new", "work", "store", "existing", "sent", "dead"}]
  BY DEF TypeOK, EventRow, Body, Answer
<1>1. CASE UNCHANGED vars
  BY <1>1 DEF TypeOK, vars
<1>2. CASE Restart
  BY <1>2 DEF TypeOK, Restart, EndpointAssumption
<1>3. ASSUME NEW r \in Request, Handle(r) PROVE TypeOK'
  <2>0. Row(r) \in IdemRow /\ KeyOf[r] \in Key /\ DocOf[r] \in Doc /\ Replay(Row(r), r) \in Answer
    BY ReplayTyped
  <2>a. N01 \in Doc
    BY DEF Doc
  <2>b. ASSUME NEW a \in Answer, Send(r, a), events' \in Seq(EventRow),
               idem' \in [Key -> IdemRow], UNCHANGED <<policy, resp, crashes>>
        PROVE  TypeOK'
    <3>1. answer' \in [Request -> Answer]
      BY <1>0, <2>b DEF Send
    <3>2. pc' \in [Request -> {"new", "work", "store", "existing", "sent", "dead"}]
      BY <2>b DEF Send, TypeOK
    <3>3. QED
      BY <2>b, <3>1, <3>2 DEF TypeOK, EventRow, Answer
  <2>1. CASE PlainPost(r)
    <3>1. Worked(DocOf[r]) \in Answer /\ events' \in Seq(EventRow)
      BY <1>0, <2>0, <2>1, WorkEffect DEF PlainPost
    <3>2. QED
      BY <2>1, <2>b, <3>1 DEF PlainPost, TypeOK
  <2>2. CASE Check(r)
    <3>1. CASE Send(r, Replay(Row(r), r))
      BY <1>0, <2>0, <2>2, <2>b, <3>1 DEF Check, TypeOK
    <3>2. CASE pc' = [pc EXCEPT ![r] = "work"] /\ UNCHANGED answer
      BY <2>2, <3>2 DEF Check, TypeOK
    <3>3. QED
      BY <2>2, <3>1, <3>2 DEF Check
  <2>3. CASE ClaimKey(r)
    <3>1. [state |-> "in_progress", fp |-> DocOf[r], response |-> Null] \in IdemRow
      BY <2>0 DEF IdemRow, Null, Body
    <3>2. idem' \in [Key -> IdemRow]
      BY <1>0, <2>0, <2>3, <3>1 DEF ClaimKey
    <3>3. pc' \in [Request -> {"new", "work", "store", "existing", "sent", "dead"}]
      BY <1>0, <2>3 DEF ClaimKey
    <3>4. QED
      BY <2>3, <3>2, <3>3 DEF ClaimKey, TypeOK
  <2>4. CASE Work(r)
    <3>1. Worked(DocOf[r]) \in Body /\ events' \in Seq(EventRow)
      BY <2>0, <2>4, WorkEffect DEF Work
    <3>2. QED
      BY <2>4, <3>1 DEF Work, TypeOK, EventRow
  <2>5. CASE Store(r)
    <3>1. Done(r) \in IdemRow /\ Done(r).response \in Body
      BY <2>0 DEF Done, IdemRow, TypeOK, Null, Body
    <3>2. idem' \in [Key -> IdemRow]
      <4> DEFINE kept == [idem[KeyOf[r]] EXCEPT !.state = "done", !.response = Done(r).response]
      <4>1. kept \in IdemRow
        BY <2>0, <3>1 DEF IdemRow, Row
      <4>2. idem' = [idem EXCEPT ![KeyOf[r]] = kept] \/ idem' = [idem EXCEPT ![KeyOf[r]] = Done(r)]
        <5>1. CASE policy.mode = "unique"
          <6>1. [idem EXCEPT ![KeyOf[r]].state = "done", ![KeyOf[r]].response = Done(r).response]
                   = [idem EXCEPT ![KeyOf[r]] = kept]
            BY <1>0, <2>0
          <6>2. QED
            BY <2>5, <5>1, <6>1 DEF Store
        <5>2. CASE policy.mode # "unique"
          BY <2>5, <5>2 DEF Store
        <5>3. QED
          BY <5>1, <5>2
      <4> HIDE DEF kept
      <4>3. idem \in [Key -> IdemRow] /\ Done(r) \in IdemRow
        BY <1>0, <3>1
      <4>4. PICK row \in IdemRow : idem' = [idem EXCEPT ![KeyOf[r]] = row]
        BY <4>1, <4>2, <4>3, Zenon
      <4>5. QED
        BY ONLY <4>3, <4>4
    <3>3. resp[r] \in Answer
      BY <1>0 DEF TypeOK
    <3>4. QED
      BY <1>0, <2>5, <2>b, <3>2, <3>3 DEF Store
  <2>6. CASE ReplayExisting(r)
    BY <1>0, <2>0, <2>6, <2>b DEF ReplayExisting, TypeOK
  <2>7. CASE Conflict(r)
    <3>1. [status |-> 409, event |-> 0] \in Answer
      BY DEF Answer
    <3>2. QED
      BY <1>0, <2>7, <2>b, <3>1 DEF Conflict, TypeOK
  <2>8. CASE Again(r)
    <3>1. Worked(N01) \in Answer /\ events' \in Seq(EventRow)
      BY <1>0, <2>a, <2>8, WorkEffect DEF Again
    <3>2. QED
      BY <2>8, <2>b, <3>1 DEF Again, TypeOK
  <2>9. CASE WaitTimeout(r)
    <3>1. [status |-> 504, event |-> 0] \in Answer
      BY DEF Answer
    <3>2. QED
      BY <1>0, <2>9, <2>b, <3>1 DEF WaitTimeout, TypeOK
  <2>10. QED
    BY <1>3, <2>1, <2>2, <2>3, <2>4, <2>5, <2>6, <2>7, <2>8, <2>9 DEF Handle
<1>4. QED
  BY <1>1, <1>2, <1>3 DEF Next

-----------------------------------------------------------------------------
(***************************************************************************)
(* IdempotentEndpoint: who owns a key                                      *)
(***************************************************************************)

\* The insert of the key decides: one thread works for it, its row is there
\* and in progress until it stores, and nothing was written for it before.
OneOwner ==
    policy.mode = "unique" =>
    /\ \A r \in Request : pc[r] \in {"work", "store"} =>
          Row(r).state = "in_progress" /\ Row(r).fp = DocOf[r]
    /\ \A r, s \in Request :
          pc[r] \in {"work", "store"} /\ pc[s] \in {"work", "store"} /\ KeyOf[r] = KeyOf[s] => r = s
    /\ policy.inflight # "again" =>
       /\ \A r \in Request, i \in DOMAIN events :
             pc[r] = "work" => events[i].request_id # KeyOf[r]
       /\ \A i \in DOMAIN events : idem[events[i].request_id].state # "absent"

\* What is held for an answer names an event about the document asked for.
Honest ==
    /\ \A r \in Request : About(DocOf[r], resp[r].event)
    /\ \A r \in Request : pc[r] = "store" => (DocOf[r] \in Fails <=> resp[r].event = 0)
    /\ \A k \in Key : About(idem[k].fp, idem[k].response.event)
    /\ policy.store_response =>
          \A k \in Key : idem[k].state = "done" =>
             (idem[k].fp \in Fails <=> idem[k].response.event = 0)

EndpointInv == TypeOK /\ OneOwner /\ Honest /\ WritesOnce /\ AnswerIsAboutTheRequest

LEMMA InitEndpoint == EndpointAssumption /\ Init => EndpointInv
<1> SUFFICES ASSUME EndpointAssumption, Init PROVE EndpointInv
  OBVIOUS
<1>1. TypeOK /\ events = <<>> /\ DOMAIN events = {}
  BY InitTypes DEF Init
<1>2. OneOwner
  BY <1>1 DEF Init, OneOwner
<1>3. Honest
  BY <1>1 DEF Init, Honest, About, Null, NoRow
<1>4. WritesOnce /\ AnswerIsAboutTheRequest
  BY <1>1 DEF Init, WritesOnce, OneEventPerKey, OneEventPerObservation,
              AnswerIsAboutTheRequest, Silence
<1>5. QED
  BY <1>1, <1>2, <1>3, <1>4 DEF EndpointInv

\* A row of the table is about what it was about, however the table grows.
LEMMA AboutStays ==
    ASSUME DOMAIN events \subseteq DOMAIN events', \A i \in DOMAIN events : events'[i] = events[i],
           NEW d, NEW e, About(d, e)
    PROVE  e # 0 => e \in DOMAIN events' /\ events'[e].doc = d
  BY DEF About

LEMMA NextOwner == EndpointAssumption /\ EndpointInv /\ [Next]_vars => OneOwner'
<1> SUFFICES ASSUME EndpointAssumption, EndpointInv, [Next]_vars, policy.mode = "unique"
             PROVE  OneOwner'
  BY DEF EndpointInv, OneOwner, Next, Restart, Handle, PlainPost, Check, ClaimKey, Work, Store,
         ReplayExisting, Conflict, Again, WaitTimeout, vars
<1>0. /\ TypeOK /\ OneOwner /\ events \in Seq(EventRow)
      /\ DOMAIN events = 1..Len(events) /\ Len(events) \in Nat
      /\ \A i \in DOMAIN events : events[i] \in EventRow
      /\ \A r \in Request : KeyOf[r] \in Key /\ DocOf[r] \in Doc
  <2>1. TypeOK /\ OneOwner /\ events \in Seq(EventRow)
    BY DEF EndpointInv, TypeOK, EventRow
  <2>2. \A r \in Request : KeyOf[r] \in Key /\ DocOf[r] \in Doc
    BY DEF Key, Doc
  <2>3. QED
    BY <2>1, <2>2
<1>1. CASE UNCHANGED vars
  BY <1>0, <1>1 DEF vars, OneOwner, Row
<1>2. CASE Restart
  BY <1>0, <1>2 DEF Restart, OneOwner, Row
<1>3. ASSUME NEW r \in Request, Handle(r) PROVE OneOwner'
  <2>1. CASE PlainPost(r) \/ Check(r)
    BY <2>1 DEF PlainPost, Check
  <2>2. CASE ClaimKey(r)
    <3>1. CASE /\ Row(r).state = "absent"
               /\ idem' = [idem EXCEPT ![KeyOf[r]] =
                             [state |-> "in_progress", fp |-> DocOf[r], response |-> Null]]
               /\ pc' = [pc EXCEPT ![r] = "work"]
      <4>1. UNCHANGED <<policy, events>>
        BY <2>2 DEF ClaimKey
      <4>2. \A s \in Request : pc[s] \in {"work", "store"} => KeyOf[s] # KeyOf[r]
        BY <1>0, <3>1 DEF OneOwner, Row
      <4>3. policy.inflight # "again" => \A i \in DOMAIN events : events[i].request_id # KeyOf[r]
        BY <1>0, <3>1 DEF OneOwner, Row
      <4>4. \A k \in Key : idem'[k] = IF k = KeyOf[r]
               THEN [state |-> "in_progress", fp |-> DocOf[r], response |-> Null] ELSE idem[k]
        BY <3>1, <1>0 DEF TypeOK
      <4>5. \A s \in Request : pc'[s] = IF s = r THEN "work" ELSE pc[s]
        BY <3>1, <1>0 DEF TypeOK
      <4>6. \A i \in DOMAIN events : events[i].request_id \in Key
        BY <1>0 DEF EventRow
      <4>7. /\ \A s \in Request : pc'[s] \in {"work", "store"} =>
                 idem'[KeyOf[s]].state = "in_progress" /\ idem'[KeyOf[s]].fp = DocOf[s]
            /\ \A s, t \in Request :
                 pc'[s] \in {"work", "store"} /\ pc'[t] \in {"work", "store"} /\ KeyOf[s] = KeyOf[t] => s = t
        BY <1>0, <4>2, <4>4, <4>5 DEF OneOwner, Row
      <4>8. policy.inflight # "again" =>
              /\ \A s \in Request, i \in DOMAIN events :
                    pc'[s] = "work" => events[i].request_id # KeyOf[s]
              /\ \A i \in DOMAIN events : idem'[events[i].request_id].state # "absent"
        BY <1>0, <4>3, <4>4, <4>5, <4>6 DEF OneOwner
      <4>9. QED
        BY <4>1, <4>7, <4>8 DEF OneOwner, Row
    <3>2. CASE pc' = [pc EXCEPT ![r] = "existing"] /\ UNCHANGED idem
      BY <1>0, <2>2, <3>2 DEF ClaimKey, OneOwner, Row, TypeOK
    <3>3. QED
      BY <2>2, <3>1, <3>2 DEF ClaimKey
  <2>3. CASE Work(r)
    <3>1. /\ UNCHANGED <<policy, idem>> /\ pc[r] = "work" /\ Row(r).state = "in_progress"
          /\ \A s \in Request : pc'[s] = IF s = r THEN "store" ELSE pc[s]
      BY <1>0, <2>3 DEF Work, OneOwner, TypeOK
    <3>2. /\ DOMAIN events \subseteq DOMAIN events'
          /\ \A i \in DOMAIN events : events'[i] = events[i]
          /\ \A i \in DOMAIN events' \ DOMAIN events : events'[i].request_id = KeyOf[r]
      BY <1>0, <2>3, WorkEffect DEF Work
    <3>3. \A s \in Request : pc'[s] = "work" => KeyOf[s] # KeyOf[r]
      BY <1>0, <3>1 DEF OneOwner
    <3>4. \A i \in DOMAIN events' :
             \/ i \in DOMAIN events /\ events'[i] = events[i]
             \/ events'[i].request_id = KeyOf[r]
      BY <3>2
    <3>5. /\ \A s \in Request : pc'[s] \in {"work", "store"} =>
               idem'[KeyOf[s]].state = "in_progress" /\ idem'[KeyOf[s]].fp = DocOf[s]
          /\ \A s, t \in Request :
               pc'[s] \in {"work", "store"} /\ pc'[t] \in {"work", "store"} /\ KeyOf[s] = KeyOf[t] => s = t
      BY <1>0, <3>1 DEF OneOwner, Row
    <3>6. policy.inflight # "again" =>
            /\ \A s \in Request, i \in DOMAIN events' :
                  pc'[s] = "work" => events'[i].request_id # KeyOf[s]
            /\ \A i \in DOMAIN events' : idem[events'[i].request_id].state # "absent"
      BY <1>0, <3>1, <3>3, <3>4 DEF OneOwner, Row
    <3>7. QED
      BY <3>1, <3>5, <3>6 DEF OneOwner, Row
  <2>4. CASE Store(r)
    <3>1. /\ UNCHANGED <<policy, events>> /\ pc[r] = "store"
          /\ \A s \in Request : pc'[s] = IF s = r THEN "sent" ELSE pc[s]
      BY <1>0, <2>4 DEF Store, Send, TypeOK
    <3>2. /\ \A k \in Key : k # KeyOf[r] => idem'[k] = idem[k]
          /\ idem'[KeyOf[r]].state = "done"
      BY <1>0, <2>4 DEF Store, TypeOK, IdemRow
    <3>3. \A s \in Request : pc'[s] \in {"work", "store"} =>
             pc[s] = pc'[s] /\ s # r /\ KeyOf[s] # KeyOf[r]
      BY <1>0, <3>1 DEF OneOwner
    <3>4. \A i \in DOMAIN events : events[i].request_id \in Key
      BY <1>0 DEF EventRow
    <3>5. policy.inflight # "again" =>
            /\ \A s \in Request, i \in DOMAIN events :
                  pc'[s] = "work" => events[i].request_id # KeyOf[s]
            /\ \A i \in DOMAIN events : idem'[events[i].request_id].state # "absent"
      BY <1>0, <3>2, <3>3, <3>4 DEF OneOwner
    <3>6. QED
      BY <1>0, <3>1, <3>2, <3>3, <3>5 DEF OneOwner, Row
  <2>5. CASE ReplayExisting(r) \/ Conflict(r) \/ WaitTimeout(r)
    <3>1. /\ UNCHANGED <<policy, events, idem>>
          /\ \A s \in Request : pc'[s] = IF s = r THEN "sent" ELSE pc[s]
      BY <1>0, <2>5 DEF ReplayExisting, Conflict, WaitTimeout, Send, TypeOK
    <3>2. QED
      BY <1>0, <3>1 DEF OneOwner, Row
  <2>6. CASE Again(r)
    <3>1. /\ UNCHANGED <<policy, idem>> /\ policy.inflight = "again"
          /\ \A s \in Request : pc'[s] = IF s = r THEN "sent" ELSE pc[s]
      BY <1>0, <2>6 DEF Again, Send, TypeOK
    <3>2. QED
      BY <1>0, <3>1 DEF OneOwner, Row
  <2>7. QED
    BY <1>3, <2>1, <2>2, <2>3, <2>4, <2>5, <2>6 DEF Handle
<1>4. QED
  BY <1>1, <1>2, <1>3 DEF Next

\* No row of the table is ever changed or removed.
LEMMA TableGrows ==
    ASSUME EndpointAssumption, TypeOK, [Next]_vars
    PROVE  DOMAIN events \subseteq DOMAIN events' /\ \A i \in DOMAIN events : events'[i] = events[i]
<1>1. CASE UNCHANGED events
  BY <1>1
<1>2. ASSUME NEW r \in Request, NEW d \in Doc, events' = EventsAfter(r, d)
      PROVE  DOMAIN events \subseteq DOMAIN events' /\ \A i \in DOMAIN events : events'[i] = events[i]
  BY <1>2, WorkEffect
<1>3. UNCHANGED events \/ \E r \in Request, d \in Doc : events' = EventsAfter(r, d)
  <2>1. N01 \in Doc /\ \A r \in Request : DocOf[r] \in Doc
    BY DEF Doc
  <2>2. QED
    BY <2>1 DEF Next, Restart, Handle, PlainPost, Check, ClaimKey, Work, Store, ReplayExisting,
                Conflict, Again, WaitTimeout, vars
<1>4. QED
  BY <1>1, <1>2, <1>3

LEMMA NextHonest == EndpointAssumption /\ EndpointInv /\ [Next]_vars => Honest'
<1> SUFFICES ASSUME EndpointAssumption, EndpointInv, [Next]_vars PROVE Honest'
  OBVIOUS
<1>0. /\ TypeOK /\ OneOwner /\ Honest /\ idem \in [Key -> IdemRow]
      /\ pc \in [Request -> {"new", "work", "store", "existing", "sent", "dead"}]
      /\ resp \in [Request -> Body]
  BY DEF EndpointInv, TypeOK
<1>a. \A r \in Request : KeyOf[r] \in Key /\ DocOf[r] \in Doc
  BY DEF Key, Doc
<1>b. ASSUME NEW d, NEW e, About(d, e) PROVE e # 0 => e \in DOMAIN events' /\ events'[e].doc = d
  BY <1>0, <1>b, TableGrows, AboutStays
\* what a step must show of the answers it holds and of the key records
<1>c. ASSUME policy' = policy,
             \A s \in Request :
                \/ resp'[s] = resp[s]
                \/ resp'[s].event # 0 =>
                     resp'[s].event \in DOMAIN events' /\ events'[resp'[s].event].doc = DocOf[s],
             \A s \in Request : pc'[s] = "store" =>
                \/ pc[s] = "store" /\ resp'[s] = resp[s]
                \/ DocOf[s] \in Fails <=> resp'[s].event = 0,
             \A k \in Key : idem'[k] = idem[k] \/
                /\ About(idem'[k].fp, idem'[k].response.event)
                /\ policy.store_response /\ idem'[k].state = "done" =>
                      (idem'[k].fp \in Fails <=> idem'[k].response.event = 0)
      PROVE  Honest'
  <2>1. \A s \in Request : resp'[s].event # 0 =>
           resp'[s].event \in DOMAIN events' /\ events'[resp'[s].event].doc = DocOf[s]
    BY <1>0, <1>b, <1>c DEF Honest
  <2>2. \A k \in Key : idem'[k].response.event # 0 =>
           idem'[k].response.event \in DOMAIN events' /\ events'[idem'[k].response.event].doc = idem'[k].fp
    BY <1>0, <1>b, <1>c DEF Honest
  <2>3. \A s \in Request : pc'[s] = "store" => (DocOf[s] \in Fails <=> resp'[s].event = 0)
    BY <1>0, <1>c DEF Honest
  <2>4. policy'.store_response => \A k \in Key : idem'[k].state = "done" =>
           (idem'[k].fp \in Fails <=> idem'[k].response.event = 0)
    BY <1>0, <1>c DEF Honest
  <2>5. QED
    BY <2>1, <2>2, <2>3, <2>4 DEF Honest, About
<1>1. CASE UNCHANGED vars
  BY <1>c, <1>1 DEF vars
<1>2. CASE Restart
  BY <1>0, <1>c, <1>2 DEF Restart
<1>3. ASSUME NEW r \in Request, Handle(r) PROVE Honest'
  <2>1. CASE PlainPost(r) \/ Check(r) \/ ReplayExisting(r) \/ Conflict(r) \/ Again(r) \/ WaitTimeout(r)
    <3>1. /\ UNCHANGED <<policy, idem, resp>>
          /\ \A s \in Request : pc'[s] = "store" => pc[s] = "store"
      BY <1>0, <2>1 DEF PlainPost, Check, ReplayExisting, Conflict, Again, WaitTimeout, Send
    <3>2. QED
      BY <1>c, <3>1
  <2>2. CASE ClaimKey(r)
    <3>1. /\ UNCHANGED <<policy, resp>>
          /\ \A s \in Request : pc'[s] = "store" => pc[s] = "store"
      BY <1>0, <2>2 DEF ClaimKey
    <3>2. \A k \in Key : idem'[k] = idem[k] \/
             idem'[k] = [state |-> "in_progress", fp |-> DocOf[r], response |-> Null]
      BY <1>0, <2>2 DEF ClaimKey
    <3>3. QED
      BY <1>c, <3>1, <3>2 DEF About, Null
  <2>3. CASE Work(r)
    <3>1. /\ UNCHANGED <<policy, idem>>
          /\ \A s \in Request : s # r => resp'[s] = resp[s] /\ pc'[s] = pc[s]
          /\ resp'[r] = Worked(DocOf[r])
      BY <1>0, <2>3 DEF Work
    <3>2. /\ DocOf[r] \in Fails <=> resp'[r].event = 0
          /\ resp'[r].event # 0 => resp'[r].event \in DOMAIN events' /\ events'[resp'[r].event].doc = DocOf[r]
      BY <1>0, <1>a, <2>3, <3>1, WorkEffect DEF Work
    <3>3. QED
      BY <1>c, <3>1, <3>2
  <2>4. CASE Store(r)
    <3>1. /\ UNCHANGED <<policy, resp>> /\ pc[r] = "store"
          /\ \A s \in Request : pc'[s] = "store" => pc[s] = "store"
      BY <1>0, <2>4 DEF Store, Send
    <3>2. \A k \in Key : k # KeyOf[r] => idem'[k] = idem[k]
      BY <1>0, <2>4 DEF Store
    <3>3. idem'[KeyOf[r]].fp = DocOf[r] /\ idem'[KeyOf[r]].response = Done(r).response
      <4>1. CASE policy.mode = "unique"
        BY <1>0, <1>a, <2>4, <3>1, <4>1 DEF Store, OneOwner, Row, IdemRow
      <4>2. CASE policy.mode # "unique"
        BY <1>0, <1>a, <2>4, <4>2 DEF Store, Done
      <4>3. QED
        BY <4>1, <4>2
    <3>4. /\ About(DocOf[r], Done(r).response.event)
          /\ policy.store_response => (DocOf[r] \in Fails <=> Done(r).response.event = 0)
      BY <1>0, <3>1 DEF Done, Honest, About, Null
    <3>5. QED
      BY <1>c, <3>1, <3>2, <3>3, <3>4
  <2>5. QED
    BY <1>3, <2>1, <2>2, <2>3, <2>4 DEF Handle
<1>4. QED
  BY <1>1, <1>2, <1>3 DEF Next

-----------------------------------------------------------------------------
LEMMA NextWritesOnce == EndpointAssumption /\ EndpointInv /\ [Next]_vars => WritesOnce'
<1> SUFFICES ASSUME EndpointAssumption, EndpointInv, [Next]_vars PROVE WritesOnce'
  OBVIOUS
<1>0. TypeOK /\ OneOwner /\ WritesOnce
  BY DEF EndpointInv
<1>1. UNCHANGED policy
  BY DEF Next, Restart, Handle, PlainPost, Check, ClaimKey, Work, Store, ReplayExisting, Conflict,
         Again, WaitTimeout, vars
<1>2. CASE UNCHANGED events
  BY <1>0, <1>1, <1>2 DEF WritesOnce, OneEventPerKey, OneEventPerObservation
<1>3. ASSUME NEW r \in Request, NEW d \in Doc, events' = EventsAfter(r, d),
             policy.mode = "unique" /\ policy.inflight # "again" => pc[r] = "work"
      PROVE  WritesOnce'
  <2>1. /\ \A i \in DOMAIN events : events'[i] = events[i]
        /\ \A i \in DOMAIN events' \ DOMAIN events :
              /\ events'[i].doc = d /\ events'[i].request_id = KeyOf[r]
              /\ i = Len(events) + 1
              /\ policy.natural_key => SameObservation(d) = {}
    BY <1>0, <1>3, WorkEffect
  <2>2. OneEventPerKey'
    <3>1. policy.mode = "unique" /\ policy.inflight # "again" =>
            \A i \in DOMAIN events : events[i].request_id # KeyOf[r]
      BY <1>0, <1>3 DEF OneOwner
    <3>2. QED
      BY <1>0, <1>1, <2>1, <3>1 DEF WritesOnce, OneEventPerKey
  <2>3. OneEventPerObservation'
    <3>1. \A i \in DOMAIN events' : policy.natural_key =>
            \/ i \in DOMAIN events /\ events'[i] = events[i]
            \/ i = Len(events) + 1 /\ events'[i].doc = d /\ \A j \in DOMAIN events : events[j].doc # d
      BY <2>1 DEF SameObservation
    <3>2. QED
      BY <1>0, <1>1, <3>1 DEF WritesOnce, OneEventPerObservation
  <2>4. QED
    BY <2>2, <2>3 DEF WritesOnce
<1>4. \/ UNCHANGED events
      \/ \E r \in Request, d \in Doc :
            /\ events' = EventsAfter(r, d)
            /\ policy.mode = "unique" /\ policy.inflight # "again" => pc[r] = "work"
  <2>1. N01 \in Doc /\ \A r \in Request : DocOf[r] \in Doc
    BY DEF Doc
  <2>2. QED
    BY <2>1 DEF Next, Restart, Handle, PlainPost, Check, ClaimKey, Work, Store, ReplayExisting,
                Conflict, Again, WaitTimeout, vars
<1>5. QED
  BY <1>2, <1>3, <1>4

LEMMA NextAnswers == EndpointAssumption /\ EndpointInv /\ [Next]_vars => AnswerIsAboutTheRequest'
<1> SUFFICES ASSUME EndpointAssumption, EndpointInv, [Next]_vars,
                    policy.fingerprint, policy.inflight # "again"
             PROVE  \A s \in Request : answer'[s].event # 0 =>
                       answer'[s].event \in DOMAIN events' /\ events'[answer'[s].event].doc = DocOf[s]
  BY DEF AnswerIsAboutTheRequest, Next, Restart, Handle, PlainPost, Check, ClaimKey, Work, Store,
         ReplayExisting, Conflict, Again, WaitTimeout, vars
<1>0. /\ TypeOK /\ Honest /\ \A s \in Request : About(DocOf[s], answer[s].event)
      /\ answer \in [Request -> Answer]
  BY DEF EndpointInv, TypeOK, Answer, AnswerIsAboutTheRequest, About
<1>1. ASSUME NEW r \in Request, NEW a,
             answer' = [answer EXCEPT ![r] = a],
             a.event # 0 => a.event \in DOMAIN events' /\ events'[a.event].doc = DocOf[r]
      PROVE  \A s \in Request : answer'[s].event # 0 =>
                answer'[s].event \in DOMAIN events' /\ events'[answer'[s].event].doc = DocOf[s]
  BY <1>0, <1>1, TableGrows, AboutStays
<1>2. CASE UNCHANGED answer
  BY <1>0, <1>2, TableGrows, AboutStays
<1>3. ASSUME NEW r \in Request, Send(r, Replay(Row(r), r)) PROVE \A s \in Request : answer'[s].event # 0 =>
                answer'[s].event \in DOMAIN events' /\ events'[answer'[s].event].doc = DocOf[s]
  <2>1. KeyOf[r] \in Key
    BY DEF Key
  <2>2. About(DocOf[r], Replay(Row(r), r).event)
    BY <1>0, <2>1 DEF Replay, Row, Honest, About
  <2>3. QED
    BY <1>0, <1>1, <1>3, <2>2, TableGrows, AboutStays DEF Send
<1>4. ASSUME NEW r \in Request, Handle(r) PROVE \A s \in Request : answer'[s].event # 0 =>
                answer'[s].event \in DOMAIN events' /\ events'[answer'[s].event].doc = DocOf[s]
  <2>1. CASE PlainPost(r)
    <3>1. DocOf[r] \in Doc
      BY DEF Doc
    <3>2. Worked(DocOf[r]).event # 0 =>
             /\ Worked(DocOf[r]).event \in DOMAIN events'
             /\ events'[Worked(DocOf[r]).event].doc = DocOf[r]
      BY <1>0, <2>1, <3>1, WorkEffect DEF PlainPost
    <3>3. answer' = [answer EXCEPT ![r] = Worked(DocOf[r])]
      BY <2>1 DEF PlainPost, Send
    <3>4. QED
      BY <1>1, <3>2, <3>3
  <2>2. CASE Check(r) \/ ReplayExisting(r)
    BY <1>2, <1>3, <2>2 DEF Check, ReplayExisting
  <2>3. CASE ClaimKey(r) \/ Work(r)
    BY <1>2, <2>3 DEF ClaimKey, Work
  <2>4. CASE Store(r)
    <3>1. About(DocOf[r], resp[r].event)
      BY <1>0 DEF Honest
    <3>2. QED
      BY <1>0, <1>1, <2>4, <3>1, TableGrows, AboutStays DEF Store, Send
  <2>5. CASE Conflict(r) \/ WaitTimeout(r)
    BY <1>1, <2>5 DEF Conflict, WaitTimeout, Send
  <2>6. CASE Again(r)
    BY <2>6 DEF Again
  <2>7. QED
    BY <1>4, <2>1, <2>2, <2>3, <2>4, <2>5, <2>6 DEF Handle
<1>5. QED
  BY <1>2, <1>4 DEF Next, Restart, vars

LEMMA EndpointInvariant == Spec => []EndpointInv
<1>1. EndpointAssumption /\ EndpointInv /\ [Next]_vars => EndpointInv'
  BY NextTypes, NextOwner, NextHonest, NextWritesOnce, NextAnswers DEF EndpointInv
<1>2. QED
  BY EndpointAssumption, InitEndpoint, <1>1, PTL DEF Spec

\* However retries overlap and wherever the process is restarted, a claimed key
\* writes one event, and a natural key one row per observation.
THEOREM EndpointWritesOnce == Spec => []WritesOnce
<1>1. EndpointInv => WritesOnce
  BY DEF EndpointInv
<1>2. QED
  BY <1>1, EndpointInvariant, PTL

\* Every answer, fresh or replayed, is about the document that was asked for.
THEOREM EndpointIsHonest == Spec => []AnswersAreHonest
<1>1. EndpointInv => AnswersAreHonest
  <2>1. SUFFICES ASSUME EndpointInv, policy.store_response, NEW k \in Key, idem[k].state = "done"
        PROVE  IF idem[k].fp \in Fails
               THEN idem[k].response.event = 0
               ELSE \E i \in DOMAIN events : events[i].doc = idem[k].fp /\ idem[k].response.event = i
    BY DEF EndpointInv, AnswersAreHonest, DoneKeysAreAnswered
  <2>2. /\ idem[k].fp \in Fails <=> idem[k].response.event = 0
        /\ About(idem[k].fp, idem[k].response.event)
    BY <2>1 DEF EndpointInv, Honest
  <2>3. QED
    BY <2>2 DEF About
<1>2. QED
  BY <1>1, EndpointInvariant, PTL

-----------------------------------------------------------------------------
(***************************************************************************)
(* Tenancy: what an event says of its tenant                               *)
(***************************************************************************)

\* A row written through the fixed API is about a document of its own tenant.
LateRowsAreOwn == \A e \in eventTable : e.late => e.doc \in DocsOf(e.tenant)

TenantInv == TenTypeOK /\ LateRowsAreOwn

LEMMA InitTenant == TenancyAssumption /\ TenInit => TenantInv
<1> SUFFICES ASSUME TenancyAssumption, TenInit PROVE TenantInv
  OBVIOUS
<1>1. \A e \in eventTable :
         ~e.late /\ e \in [doc : TenantDoc, tenant : Tenant, late : BOOLEAN]
  <2>1. ASSUME NEW d \in TenantDoc
        PROVE  LET e == [doc |-> d, tenant |-> OwnerOf[d], late |-> FALSE]
               IN  ~e.late /\ e \in [doc : TenantDoc, tenant : Tenant, late : BOOLEAN]
    BY DEF TenancyAssumption
  <2>2. QED
    BY <2>1 DEF TenInit
<1>2. QED
  BY <1>1 DEF TenInit, TenantInv, TenTypeOK, LateRowsAreOwn

LEMMA NextTenant == TenancyAssumption /\ TenantInv /\ [TenNext]_tenVars => TenantInv'
<1> SUFFICES ASSUME TenancyAssumption, TenantInv, [TenNext]_tenVars PROVE TenantInv'
  OBVIOUS
<1>1. CASE UNCHANGED tenVars
  BY <1>1 DEF tenVars, TenantInv, TenTypeOK, LateRowsAreOwn
<1>2. CASE DeployFix
  BY <1>2 DEF DeployFix, TenantInv, TenTypeOK, LateRowsAreOwn
<1>3. ASSUME NEW t \in Tenant, NEW k \in Presents(t), NEW d \in TenantDoc, PostExtraction(k, d)
      PROVE  TenantInv'
  <2> DEFINE new == [doc |-> d, tenant |-> k.claims, late |-> fixedApi]
  <2>1. k.claims \in Tenant
    BY DEF Presents, Token
  <2>2. /\ new \in [doc : TenantDoc, tenant : Tenant, late : BOOLEAN]
        /\ new.late = fixedApi /\ new.doc = d /\ new.tenant = k.claims
    BY <2>1 DEF TenantInv, TenTypeOK
  <2>3. fixedApi => d \in DocsOf(k.claims)
    BY <1>3 DEF PostExtraction, MayExtract, InQuery, DocsOf
  <2>4. eventTable' = eventTable \cup {new} /\ fixedApi' = fixedApi
    BY <1>3 DEF PostExtraction
  <2> HIDE DEF new
  <2>5. TenTypeOK'
    BY <2>2, <2>4 DEF TenantInv, TenTypeOK
  <2>6. LateRowsAreOwn'
    <3>1. \A e \in eventTable' : e \in eventTable \/ e = new
      BY <2>4
    <3>2. \A e \in eventTable' : e.late => e.doc \in DocsOf(e.tenant)
      BY <2>2, <2>3, <3>1 DEF TenantInv, LateRowsAreOwn
    <3>3. QED
      BY <3>2 DEF LateRowsAreOwn, DocsOf
  <2>7. QED
    BY <2>5, <2>6 DEF TenantInv
<1>4. QED
  BY <1>1, <1>2, <1>3 DEF TenNext

\* Once the filter is in every query, no endpoint shows or counts a document of
\* another tenant, whatever was written before.
THEOREM TenantsAreApart == TenSpec => []TenantsReadTheirOwn
<1>1. TenancyAssumption /\ TenantInv => TenantsReadTheirOwn
  <2> SUFFICES ASSUME TenancyAssumption, TenantInv PROVE TenantsReadTheirOwn
    OBVIOUS
  <2>1. ASSUME NEW t \in Tenant
        PROVE  /\ \A k \in Presents(t) : Verified(k) => k.claims = t
               /\ \A d \in TenantDoc : GetDocument(t, d) \subseteq DocsOf(t)
    BY DEF TenancyAssumption, Presents, Token, Verified, GetDocument, DocsOf
  <2>2. ASSUME NEW t \in Tenant, NEW q \in SUBSET TenantDoc
        PROVE  /\ Search(t, q).visible = q \cap DocsOf(t)
               /\ fixedApi => Search(t, q).total = Cardinality(q \cap DocsOf(t))
    <3> DEFINE found == {d \in q : InQuery(OwnerOf[d], t)}
    <3>1. found \cap DocsOf(t) = q \cap DocsOf(t)
      BY DEF InQuery, DocsOf
    <3>2. fixedApi => found = q \cap DocsOf(t)
      BY DEF InQuery, DocsOf
    <3>3. Search(t, q) = [total |-> Cardinality(found), visible |-> found \cap DocsOf(t)]
      BY DEF Search
    <3>4. Search(t, q).visible = found \cap DocsOf(t) /\ Search(t, q).total = Cardinality(found)
      <4>1. \A a, b : [total |-> a, visible |-> b].visible = b /\ [total |-> a, visible |-> b].total = a
        OBVIOUS
      <4>2. QED
        BY <3>3, <4>1, Zenon
    <3> HIDE DEF found
    <3>5. QED
      BY <3>1, <3>2, <3>4
  <2>3. ASSUME NEW t \in Tenant, fixedApi
        PROVE  /\ \A first \in TenantDoc, ids \in SUBSET TenantDoc :
                     Batch(t, first, ids) \subseteq DocsOf(t)
               /\ Export(t) = DocsOf(t)
               /\ \A e \in GetEvents(t) : e.tenant = t /\ (e.late => e.doc \in DocsOf(t))
    BY <2>3 DEF Batch, Export, GetEvents, InQuery, DocsOf, TenantInv, LateRowsAreOwn, TenTypeOK
  <2>4. QED
    BY <2>1, <2>2, <2>3 DEF TenantsReadTheirOwn
<1>2. QED
  BY TenancyAssumption, <1>1, InitTenant, NextTenant, PTL DEF TenSpec

-----------------------------------------------------------------------------
(***************************************************************************)
(* HttpStream: what was produced is on the socket or waits for the flush   *)
(***************************************************************************)
StreamInv ==
    /\ StreamTypeOK
    /\ response.route # "work" => response.flush = 1
    /\ body + pending = produced
    /\ response.route # "buffered" => pending <= response.flush
    /\ failed => response.route = "records" /\ pending = 0 /\ produced < Units
    /\ server = "ended" =>
          /\ pending = 0 /\ (failed \/ produced = Units)
          /\ marked <=> response.route = "records" /\ response.sentinel /\ ~failed
    /\ server = "aborted" =>
          client = "gone" /\ (response.route = "buffered" => produced = Units)
    /\ client = "gone" /\ response.route # "buffered" =>
          produced <= owed + response.flush * late + pending

\* the shapes the prover needs of the constants and the response
LEMMA StreamNumbers ==
    ASSUME StreamAssumption, StreamTypeOK
    PROVE  /\ Units \in Nat /\ Absorbed \in Nat /\ Units > 0
           /\ response.flush \in Nat /\ response.flush > 0
           /\ response.sentinel \in BOOLEAN
           /\ response.route \in {"records", "work", "buffered"}
           /\ produced \in 0..Units /\ pending \in 0..Units /\ body \in 0..Units
           /\ owed \in 0..Units /\ late \in Nat
<1>1. Units \in Nat /\ Absorbed \in Nat /\ Units > 0 /\ FlushEvery \subseteq Nat \ {0}
  BY DEF StreamAssumption
<1>2. /\ response.flush \in FlushEvery /\ response.sentinel \in BOOLEAN
      /\ response.route \in {"records", "work", "buffered"}
  BY DEF StreamTypeOK
<1>3. /\ produced \in 0..Units /\ pending \in 0..Units /\ body \in 0..Units
      /\ owed \in 0..Units /\ late \in 0..Absorbed
  BY DEF StreamTypeOK
<1>4. response.flush \in Nat /\ response.flush > 0
  <2>1. \A f \in FlushEvery : f \in Nat /\ f > 0
    BY <1>1
  <2>2. QED
    BY <1>2, <2>1
<1>5. QED
  BY <1>1, <1>2, <1>3, <1>4

\* One more absorbed write is one more buffer.
LEMMA OneMoreBuffer ==
    ASSUME NEW a \in Nat, NEW b \in Nat
    PROVE  a * (b + 1) = a * b + a /\ a * b \in Nat
  OBVIOUS

LEMMA ShorterProduct ==
    ASSUME NEW a \in Nat, NEW b \in Nat, NEW c \in Nat, b <= c
    PROVE  a * b <= a * c
  OBVIOUS

LEMMA InitStream == StreamAssumption /\ StreamInit => StreamInv
<1> SUFFICES ASSUME StreamAssumption, StreamInit PROVE StreamInv
  OBVIOUS
<1>1. Units \in Nat /\ Absorbed \in Nat
  BY DEF StreamAssumption
<1>2. 0 \in 0..Units /\ 0 \in 0..Absorbed
  BY <1>1
<1>3. StreamTypeOK
  BY <1>2 DEF StreamInit, StreamTypeOK
<1>4. QED
  BY <1>3, StreamNumbers DEF StreamInit, StreamInv

LEMMA NextStream == StreamAssumption /\ StreamInv /\ [StreamNext]_streamVars => StreamInv'
<1> SUFFICES ASSUME StreamAssumption, StreamInv, [StreamNext]_streamVars PROVE StreamInv'
  OBVIOUS
<1>0. /\ Units \in Nat /\ Absorbed \in Nat /\ Units > 0
      /\ response.flush \in Nat /\ response.flush > 0
      /\ response.route \in {"records", "work", "buffered"}
      /\ produced \in 0..Units /\ pending \in 0..Units /\ body \in 0..Units
      /\ owed \in 0..Units /\ late \in Nat
      /\ response.flush * late \in Nat
      /\ response.flush * (late + 1) = response.flush * late + response.flush
  BY StreamNumbers, OneMoreBuffer DEF StreamInv
<1>1. CASE UNCHANGED streamVars
  BY <1>1 DEF StreamInv, StreamTypeOK, streamVars
<1>2. CASE Produce
  <2>1. StreamTypeOK'
    BY <1>0, <1>2 DEF Produce, StreamInv, StreamTypeOK
  <2>2. QED
    BY <1>0, <1>2, <2>1 DEF Produce, StreamInv
<1>3. CASE Flush
  <2>1. pending > 0 /\ ~failed /\ server = "writing" /\ response' = response
    BY <1>0, <1>3 DEF Flush, MustFlush, StreamInv
  <2>2. CASE server' = "writing"
    <3>1. body' = produced /\ pending' = 0 /\ server' = "writing"
      BY <1>3, <2>2 DEF Flush
    <3>2. \/ client = "reading" /\ late' = late
          \/ client = "gone" /\ late < Absorbed /\ late' = late + 1
      BY <1>3, <2>1, <2>2 DEF Flush
    <3>3. StreamTypeOK'
      BY <1>0, <1>3, <3>1, <3>2 DEF Flush, StreamInv, StreamTypeOK
    <3>4. client' = "gone" /\ response'.route # "buffered" =>
             produced' <= owed' + response'.flush * late' + pending'
      BY <1>0, <1>3, <3>1, <3>2 DEF Flush, StreamInv
    <3>5. QED
      BY <1>0, <1>3, <2>1, <3>1, <3>3, <3>4 DEF Flush, StreamInv
  <2>3. CASE server' # "writing"
    <3>1. /\ server' = "aborted" /\ client = "gone"
          /\ UNCHANGED <<response, produced, pending, body, marked, failed, client, late, owed>>
      BY <1>3, <2>1, <2>3 DEF Flush
    <3>2. response.route = "buffered" => produced = Units
      BY <1>3 DEF Flush, MustFlush
    <3>3. StreamTypeOK'
      BY <3>1 DEF StreamInv, StreamTypeOK
    <3>4. QED
      BY <1>0, <2>1, <3>1, <3>2, <3>3 DEF StreamInv
  <2>4. QED
    BY <2>2, <2>3
<1>4. CASE UpstreamFails
  BY <1>0, <1>4 DEF UpstreamFails, StreamInv, StreamTypeOK
<1>5. CASE EndBody
  <2>1. StreamTypeOK'
    BY <1>0, <1>5 DEF EndBody, StreamInv, StreamTypeOK
  <2>2. QED
    BY <1>0, <1>5, <2>1 DEF EndBody, StreamInv
<1>6. CASE Leave
  <2>1. StreamTypeOK'
    BY <1>0, <1>6 DEF Leave, StreamInv, StreamTypeOK
  <2>2. QED
    BY <1>0, <1>6, <2>1 DEF Leave, StreamInv
<1>7. QED
  BY <1>1, <1>2, <1>3, <1>4, <1>5, <1>6 DEF StreamNext

\* what the invariant says of a body that has ended, and of one left behind
LEMMA StreamKeepsItsWord ==
    StreamAssumption /\ StreamInv => SentinelMeansWhole /\ WasteIsTheBuffer
<1> SUFFICES ASSUME StreamAssumption, StreamInv PROVE SentinelMeansWhole /\ WasteIsTheBuffer
  OBVIOUS
<1>0. /\ Units \in Nat /\ Absorbed \in Nat
      /\ response.flush \in Nat
      /\ produced \in Nat /\ pending \in Nat /\ body \in Nat /\ owed \in Nat /\ late \in Nat
      /\ late <= Absorbed
      /\ response.flush * late \in Nat
      /\ response.flush * (Absorbed + 1) = response.flush * Absorbed + response.flush
      /\ response.flush * Absorbed \in Nat
      /\ response.flush * late <= response.flush * Absorbed
  <2>1. late \in 0..Absorbed
    BY DEF StreamInv, StreamTypeOK
  <2>2. QED
    BY <2>1, StreamNumbers, OneMoreBuffer, ShorterProduct DEF StreamInv
<1>1. SentinelMeansWhole
  BY <1>0 DEF StreamInv, SentinelMeansWhole
<1>2. client = "gone" /\ response.route # "buffered" =>
         produced - owed <= response.flush * (Absorbed + 1)
  BY <1>0 DEF StreamInv
<1>3. QED
  BY <1>1, <1>2 DEF StreamInv, WasteIsTheBuffer

-----------------------------------------------------------------------------
(***************************************************************************)
(* StreamCommit: only a stream that was seen to end is committed           *)
(***************************************************************************)
ConsumerInv ==
    /\ ConsumerTypeOK /\ NoPartialWrite
    /\ \A d \in StreamDoc : phase[d] = "complete" => got[d] = Deltas

LEMMA InitConsumer == StreamCommitAssumption /\ ConsumerInit => ConsumerInv
<1> SUFFICES ASSUME StreamCommitAssumption, ConsumerInit PROVE ConsumerInv
  OBVIOUS
<1>1. ConsumerTypeOK
  BY DEF StreamCommitAssumption, ConsumerInit, ConsumerTypeOK
<1>2. QED
  BY <1>1 DEF StreamCommitAssumption, ConsumerInit, ConsumerInv, NoPartialWrite

LEMMA NextConsumer ==
    StreamCommitAssumption /\ ConsumerInv /\ [ConsumerNext]_consumerVars => ConsumerInv'
<1> SUFFICES ASSUME StreamCommitAssumption, ConsumerInv, [ConsumerNext]_consumerVars
             PROVE  ConsumerInv'
  OBVIOUS
<1>0. /\ Deltas \in Nat /\ \A d \in StreamDoc : got[d] \in 0..Deltas /\ fragments[d] \in 0..Deltas
      /\ DOMAIN got = StreamDoc /\ DOMAIN fragments = StreamDoc /\ DOMAIN phase = StreamDoc
  BY DEF StreamCommitAssumption, ConsumerInv, ConsumerTypeOK
<1>1. CASE UNCHANGED consumerVars
  BY <1>1 DEF ConsumerInv, ConsumerTypeOK, NoPartialWrite, consumerVars
<1>2. ASSUME NEW d \in StreamDoc, Delta(d) PROVE ConsumerInv'
  <2>1. fragments = got => fragments[d] < Deltas
    BY <1>2 DEF Delta
  <2>2. ConsumerTypeOK'
    BY <1>0, <1>2, <2>1 DEF Delta, ConsumerInv, ConsumerTypeOK, NoPartialWrite
  <2>3. NoPartialWrite'
    BY <1>0, <1>2 DEF Delta, ConsumerInv, NoPartialWrite, ConsumerTypeOK
  <2>4. QED
    BY <1>0, <1>2, <2>2, <2>3 DEF Delta, ConsumerInv
<1>3. ASSUME NEW d \in StreamDoc, NEW to \in {"complete", "cancelled", "failed"},
             phase[d] = "streaming", Becomes(d, to), to = "complete" => got[d] = Deltas,
             UNCHANGED <<consumer, got, fragments, committed>>
      PROVE  ConsumerInv'
  BY <1>0, <1>3 DEF Becomes, ConsumerInv, ConsumerTypeOK, NoPartialWrite
<1>4. ASSUME NEW d \in StreamDoc, Commit(d) PROVE ConsumerInv'
  BY <1>0, <1>4 DEF Commit, Becomes, ConsumerInv, ConsumerTypeOK, NoPartialWrite
<1>5. QED
  BY <1>1, <1>2, <1>3, <1>4 DEF ConsumerNext, StreamEnds, Cancel, StreamFails

-----------------------------------------------------------------------------
(***************************************************************************)
(* Retrieval: the candidate list of the graph search                       *)
(***************************************************************************)
LEMMA Nodes == Node \subseteq Nat /\ IsFiniteSet(Node)
<1>1. Vectors \in Nat
  BY GraphAssumption
<1>2. QED
  BY <1>1, FS_Interval DEF Node

LEMMA NodeSets ==
    ASSUME NEW S \in SUBSET Node
    PROVE  S \in SUBSET Nat /\ IsFiniteSet(S) /\ Cardinality(S) \in Nat
  BY Nodes, FS_Subset, FS_CardinalityType

\* What makes B the k nearest of S: it is full, or has them all, and nothing
\* that was left out is as near as any of it.
LEMMA NearestIs ==
    ASSUME NEW S \in SUBSET Node, NEW B \in SUBSET S, NEW k \in Nat,
           Cardinality(B) <= k, Cardinality(B) < k => B = S,
           \A b \in B : \A s \in S \ B : b < s
    PROVE  Nearest(S, k) = B
<1> DEFINE nearer(n) == {m \in S : m <= n}
<1>1. S \subseteq Nat /\ B \subseteq Nat /\ IsFiniteSet(B) /\ Cardinality(B) \in Nat
  BY NodeSets
<1>2. ASSUME NEW n \in S
      PROVE  nearer(n) \in SUBSET Node /\ IsFiniteSet(nearer(n)) /\ Cardinality(nearer(n)) \in Nat
  <2>1. nearer(n) \in SUBSET Node
    OBVIOUS
  <2> HIDE DEF nearer
  <2>2. QED
    BY <2>1, NodeSets
<1>3. ASSUME NEW n \in B PROVE Cardinality(nearer(n)) <= k
  <2>1. nearer(n) \subseteq B
    <3>1. ASSUME NEW m \in S \ B PROVE ~ (m <= n)
      BY <1>1, <1>3, <3>1
    <3>2. QED
      BY <3>1
  <2>2. n \in S
    OBVIOUS
  <2> HIDE DEF nearer
  <2>3. Cardinality(nearer(n)) <= Cardinality(B)
    BY <1>1, <2>1, FS_Subset
  <2>4. QED
    BY <1>1, <1>2, <2>2, <2>3
<1>4. ASSUME NEW n \in S \ B PROVE ~ (Cardinality(nearer(n)) <= k)
  <2>1. B \cup {n} \subseteq nearer(n)
    BY <1>1
  <2>2. Cardinality(B \cup {n}) = Cardinality(B) + 1
    BY <1>1, <1>4, FS_AddElement
  <2>3. IsFiniteSet(nearer(n)) /\ Cardinality(nearer(n)) \in Nat
    BY <1>2
  <2> HIDE DEF nearer
  <2>4. Cardinality(B \cup {n}) <= Cardinality(nearer(n))
    BY <2>1, <2>3, FS_Subset
  <2>5. Cardinality(B) = k
    BY <1>1, <1>4
  <2>6. QED
    BY <1>1, <2>2, <2>3, <2>4, <2>5
<1>5. Nearest(S, k) = {n \in S : Cardinality(nearer(n)) <= k}
  BY DEF Nearest
<1> HIDE DEF nearer
<1>6. QED
  BY <1>3, <1>4, <1>5

\* The region holds the entry and is closed, and every closed set around the
\* entry holds it.
LEMMA TheRegion ==
    ASSUME GraphTypeOK
    PROVE  /\ Reachable \in SUBSET Node /\ entry \in Reachable
           /\ \A n \in Reachable : Range(graph[n]) \subseteq Reachable
           /\ \A s \in SUBSET Node :
                 entry \in s /\ (\A n \in s : Range(graph[n]) \subseteq s) => Reachable \subseteq s
<1>1. entry \in Node /\ graph \in [Node -> NeighbourLists] /\ NeighbourLists \subseteq Seq(Node)
  BY GraphAssumption DEF GraphTypeOK
<1>2. ASSUME NEW n \in Node PROVE Range(graph[n]) \subseteq Node
  <2>1. graph[n] \in Seq(Node)
    BY <1>1
  <2>2. QED
    BY <2>1 DEF Range
<1>3. \A n \in Reachable : \A nb \in Range(graph[n]) : nb \in Reachable
  BY <1>2 DEF Reachable
<1>4. QED
  BY <1>1, <1>3 DEF Reachable

SearchInv ==
    /\ GraphTypeOK
    /\ entry \in seen
    /\ Cardinality(best) <= ef
    /\ Cardinality(best) < ef => best = seen
    /\ \A b \in best : \A s \in seen \ best : b < s
    /\ seen \subseteq Reachable /\ Range(todo) \subseteq Reachable
    /\ \A n \in best \ frontier : Range(graph[n]) \subseteq seen \cup Range(todo)
    /\ ~searching => todo = <<>> /\ \A n \in best : Range(graph[n]) \subseteq seen

LEMMA InitSearch == GraphInit => SearchInv
<1> SUFFICES ASSUME GraphInit PROVE SearchInv
  OBVIOUS
<1>1. /\ todo = <<>> /\ Range(todo) = {} /\ todo \in Seq(Node)
      /\ entry \in Node /\ ef \in Nat /\ ef > 0
  BY GraphAssumption DEF GraphInit, Range
<1>2. GraphTypeOK
  BY <1>1 DEF GraphInit, GraphTypeOK
<1>3. Cardinality(best) = 1
  BY FS_Singleton DEF GraphInit
<1>4. QED
  BY <1>1, <1>2, <1>3, TheRegion DEF GraphInit, SearchInv

\* The neighbour that is visited, and the rest of the list.
LEMMA NextNeighbour ==
    ASSUME NEW s \in Seq(Node), s # <<>>
    PROVE  /\ Head(s) \in Node /\ Tail(s) \in Seq(Node)
           /\ Range(s) = {Head(s)} \cup Range(Tail(s))
<1>1. /\ Len(s) \in Nat /\ Len(s) > 0 /\ DOMAIN s = 1..Len(s) /\ Head(s) = s[1]
      /\ Tail(s) \in Seq(Node) /\ Len(Tail(s)) = Len(s) - 1
      /\ \A i \in 1..Len(s) - 1 : Tail(s)[i] = s[i + 1]
      /\ DOMAIN Tail(s) = 1..Len(s) - 1
  OBVIOUS
<1>2. \A i \in 2..Len(s) : i - 1 \in 1..Len(s) - 1 /\ i - 1 + 1 = i
  BY <1>1
<1>3. \A i \in 2..Len(s) : s[i] = Tail(s)[i - 1]
  BY <1>1, <1>2
<1>4. \A i \in 1..Len(s) : i = 1 \/ i \in 2..Len(s)
  BY <1>1
<1>5. Head(s) \in Node
  BY <1>1
<1>6. Range(s) \subseteq {Head(s)} \cup Range(Tail(s))
  BY <1>1, <1>2, <1>3, <1>4 DEF Range
<1>7. {Head(s)} \cup Range(Tail(s)) \subseteq Range(s)
  <2>1. \A i \in 1..Len(s) - 1 : i + 1 \in 1..Len(s)
    BY <1>1
  <2>2. 1 \in 1..Len(s)
    BY <1>1
  <2>3. QED
    BY <1>1, <2>1, <2>2 DEF Range
<1>8. QED
  BY <1>1, <1>5, <1>6, <1>7

\* The list after one neighbour that was not seen before.
LEMMA NextCandidates ==
    ASSUME SearchInv, NEW nb \in Node, nb \notin seen,
           NEW kept, kept = IF ~Kept(nb) THEN best
                            ELSE IF Cardinality(best) < ef THEN best \cup {nb}
                                 ELSE (best \cup {nb}) \ {Max(best \cup {nb})}
    PROVE  /\ kept \subseteq best \cup {nb} /\ (~Kept(nb) => kept = best)
           /\ Cardinality(kept) <= ef
           /\ Cardinality(kept) < ef => kept = seen \cup {nb}
           /\ \A b \in kept : \A s \in (seen \cup {nb}) \ kept : b < s
<1> DEFINE wider == best \cup {nb}
<1>1. /\ seen \in SUBSET Node /\ best \in SUBSET seen /\ best \in SUBSET Node
      /\ ef \in Nat /\ ef > 0 /\ nb \in Nat
      /\ best \in SUBSET Nat /\ seen \in SUBSET Nat /\ IsFiniteSet(best) /\ Cardinality(best) \in Nat
  <2>1. seen \in SUBSET Node /\ best \in SUBSET seen /\ ef \in CandidateSizes
    BY DEF SearchInv, GraphTypeOK
  <2>2. QED
    BY <2>1, NodeSets, Nodes, GraphAssumption
<1>2. /\ IsFiniteSet(wider) /\ Cardinality(wider) = Cardinality(best) + 1 /\ wider \in SUBSET Nat
  BY <1>1, FS_AddElement
<1>3. /\ Max(wider) \in wider /\ \A y \in wider : Max(wider) >= y
  <2> HIDE DEF wider
  <2>1. wider # {}
    BY DEF wider
  <2>2. QED
    BY <1>2, <2>1, MaxOfFinite
<1>4. best # {} => Max(best) \in best /\ \A y \in best : Max(best) >= y
  BY <1>1, MaxOfFinite
<1>5. CASE Cardinality(best) < ef
  <2>1. kept = wider /\ best = seen
    BY <1>5 DEF Kept, SearchInv
  <2>2. QED
    BY <1>1, <1>2, <1>5, <2>1 DEF Kept
<1>6. CASE ~ (Cardinality(best) < ef) /\ nb < Max(best)
  <2>1. Cardinality(best) = ef /\ best # {}
    <3>1. Cardinality(best) = ef
      BY <1>1, <1>6 DEF SearchInv
    <3>2. QED
      BY <1>1, <3>1, FS_EmptySet
  <2>2. Max(wider) \in best
    <3>1. Max(best) \in Nat /\ Max(best) \in wider
      BY <1>1, <1>4, <2>1
    <3>2. Max(wider) # nb
      BY <1>1, <1>3, <1>6, <3>1
    <3>3. QED
      BY <1>3, <3>2
  <2>3. kept = wider \ {Max(wider)}
    BY <1>6 DEF Kept
  <2>4. Cardinality(kept) = ef
    <3>1. Cardinality(wider \ {Max(wider)}) = Cardinality(wider) - 1
      BY <1>2, <1>3, FS_RemoveElement
    <3>2. QED
      BY <1>1, <1>2, <2>1, <2>3, <3>1
  <2> DEFINE top == Max(wider)
  <2>5. /\ top \in best /\ \A y \in wider : top >= y /\ top \in Nat
        /\ kept = wider \ {top}
    BY <1>1, <1>3, <2>2, <2>3
  <2> HIDE DEF top
  <2>6. ASSUME NEW b \in kept, NEW s \in (seen \cup {nb}) \ kept PROVE b < s
    <3>1. b \in wider /\ b # top /\ b \in Nat /\ s \in Nat
      BY <1>1, <2>5
    <3>2. s = top \/ s \in seen \ best
      BY <2>5
    <3>3. CASE s = top
      BY <2>5, <3>1, <3>3
    <3>4. CASE s \in seen \ best
      <4>1. top < s
        BY <2>5, <3>4 DEF SearchInv
      <4>2. top >= b
        BY <2>5, <3>1
      <4>3. QED
        BY <2>5, <3>1, <4>1, <4>2
    <3>5. QED
      BY <3>2, <3>3, <3>4
  <2>7. kept \subseteq wider
    BY <2>5
  <2>8. Kept(nb)
    BY <1>6 DEF Kept
  <2>9. QED
    BY <1>1, <2>4, <2>6, <2>7, <2>8
<1>7. CASE ~ (Cardinality(best) < ef) /\ ~ (nb < Max(best))
  <2>1. kept = best /\ Cardinality(best) = ef /\ best # {}
    <3>1. kept = best /\ Cardinality(best) = ef
      BY <1>1, <1>7 DEF SearchInv, Kept
    <3>2. QED
      BY <1>1, <3>1, FS_EmptySet
  <2>2. ASSUME NEW b \in best, NEW s \in (seen \cup {nb}) \ best PROVE b < s
    <3>1. CASE s \in seen
      BY <3>1 DEF SearchInv
    <3>2. CASE s = nb
      <4>1. Max(best) \in Nat /\ Max(best) >= b /\ b \in Nat /\ b # nb
        BY <1>1, <1>4, <2>1
      <4>2. QED
        BY <1>1, <1>7, <3>2, <4>1
    <3>3. QED
      BY <3>1, <3>2
  <2>3. QED
    BY <1>1, <2>1, <2>2
<1>8. QED
  BY <1>5, <1>6, <1>7

LEMMA NextSearch == SearchInv /\ [GraphNext]_graphVars => SearchInv'
<1> SUFFICES ASSUME SearchInv, [GraphNext]_graphVars PROVE SearchInv'
  OBVIOUS
<1>0. /\ graph \in [Node -> NeighbourLists] /\ entry \in Node /\ ef \in CandidateSizes
      /\ seen \in SUBSET Node /\ frontier \in SUBSET seen /\ best \in SUBSET seen
      /\ todo \in Seq(Node) /\ searching \in BOOLEAN
      /\ frontier \in SUBSET Nat
      /\ frontier # {} => Min(frontier) \in frontier
  <2>1. /\ graph \in [Node -> NeighbourLists] /\ entry \in Node /\ ef \in CandidateSizes
        /\ seen \in SUBSET Node /\ frontier \in SUBSET seen /\ best \in SUBSET seen
        /\ todo \in Seq(Node) /\ searching \in BOOLEAN
    BY DEF SearchInv, GraphTypeOK
  <2>2. QED
    BY <2>1, Nodes, MinOfNumbers
<1>1. CASE UNCHANGED graphVars
  BY <1>1 DEF SearchInv, GraphTypeOK, Reachable, graphVars
<1>2. CASE Visit
  <2> DEFINE nb == Head(todo)
             kept == nb \notin seen /\ Kept(nb)
  <2>1. /\ todo # <<>> /\ todo' = Tail(todo)
        /\ seen' = seen \cup {nb}
        /\ frontier' = IF kept THEN frontier \cup {nb} ELSE frontier
        /\ best' = IF ~kept THEN best
                   ELSE IF Cardinality(best) < ef THEN best \cup {nb}
                        ELSE (best \cup {nb}) \ {Max(best \cup {nb})}
        /\ UNCHANGED <<graph, entry, ef, searching>>
    BY <1>2 DEF Visit
  <2>2. nb \in Node /\ Tail(todo) \in Seq(Node) /\ Range(todo) = {nb} \cup Range(Tail(todo))
    BY <1>0, <2>1, NextNeighbour
  <2>3. /\ best' \subseteq best \cup {nb} /\ (~kept => best' = best)
        /\ Cardinality(best') <= ef
        /\ Cardinality(best') < ef => best' = seen'
        /\ \A b \in best' : \A s \in seen' \ best' : b < s
    <3>1. CASE nb \in seen
      <4>1. best' = best /\ seen' = seen
        BY <2>1, <3>1
      <4>2. QED
        BY <3>1, <4>1 DEF SearchInv
    <3>2. CASE nb \notin seen
      <4> HIDE DEF nb
      <4>1. kept <=> Kept(nb)
        BY <3>2
      <4>2. best' = IF ~Kept(nb) THEN best
                    ELSE IF Cardinality(best) < ef THEN best \cup {nb}
                         ELSE (best \cup {nb}) \ {Max(best \cup {nb})}
        BY <2>1, <4>1
      <4>3. QED
        BY <2>1, <2>2, <3>2, <4>1, <4>2, NextCandidates
    <3>3. QED
      BY <3>1, <3>2
  <2>4. Reachable' = Reachable
    BY <2>1 DEF Reachable
  <2> HIDE DEF nb, kept
  <2>5. GraphTypeOK'
    BY <1>0, <2>1, <2>2, <2>3 DEF GraphTypeOK
  <2>6. \A n \in best' \ frontier' : n \in best \ frontier
    <3>1. CASE kept
      BY <2>1, <2>3, <3>1
    <3>2. CASE ~kept
      BY <2>1, <2>3, <3>2
    <3>3. QED
      BY <3>1, <3>2
  <2>7. \A n \in best' \ frontier' : Range(graph'[n]) \subseteq seen' \cup Range(todo')
    <3>1. seen \cup Range(todo) = seen' \cup Range(todo')
      BY <2>1, <2>2
    <3>2. QED
      BY <2>1, <2>6, <3>1 DEF SearchInv
  <2>8. seen' \subseteq Reachable' /\ Range(todo') \subseteq Reachable'
    BY <2>1, <2>2, <2>4 DEF SearchInv
  <2>9. searching' /\ entry' \in seen'
    BY <1>0, <2>1 DEF SearchInv
  <2>10. QED
    BY <2>1, <2>3, <2>5, <2>7, <2>8, <2>9 DEF SearchInv
<1>3. CASE Expand
  <2> DEFINE node == Min(frontier)
  <2>1. /\ searching /\ todo = <<>> /\ node \in frontier
        /\ frontier' = frontier \ {node} /\ todo' = graph[node]
        /\ UNCHANGED <<graph, entry, ef, best, seen, searching>>
    BY <1>0, <1>3 DEF Expand
  <2> HIDE DEF node
  <2>2. node \in Node /\ graph[node] \in Seq(Node)
    BY <1>0, <2>1, GraphAssumption
  <2>3. Reachable' = Reachable
    BY <2>1 DEF Reachable
  <2>4. GraphTypeOK'
    BY <1>0, <2>1, <2>2 DEF GraphTypeOK
  <2>5. node \in seen /\ node \in Reachable /\ Range(graph[node]) \subseteq Reachable
    BY <1>0, <2>1, TheRegion DEF SearchInv
  <2>6. Range(todo) = {}
    BY <2>1 DEF Range
  <2>7. \A n \in best' \ frontier' : Range(graph'[n]) \subseteq seen' \cup Range(todo')
    <3>1. ASSUME NEW n \in best, n \notin frontier \ {node}
          PROVE  Range(graph[n]) \subseteq seen \cup Range(graph[node])
      <4>1. CASE n = node
        BY <4>1
      <4>2. CASE n # node
        BY <3>1, <4>2, <2>6 DEF SearchInv
      <4>3. QED
        BY <4>1, <4>2
    <3>2. QED
      BY <2>1, <3>1
  <2>8. QED
    BY <2>1, <2>3, <2>4, <2>5, <2>7 DEF SearchInv
<1>4. CASE Finish
  <2>1. /\ searching /\ todo = <<>> /\ searching' = FALSE /\ (frontier = {} \/ Hopeless)
        /\ frontier' \subseteq frontier
        /\ UNCHANGED <<graph, entry, ef, best, seen, todo>>
    BY <1>4 DEF Finish
  <2>2. best \cap frontier = {}
    <3>1. CASE frontier = {}
      BY <3>1
    <3>2. CASE Hopeless
      <4>1. ASSUME NEW n \in best PROVE n \in Nat /\ Max(best) \in Nat /\ Max(best) >= n
        <5>1. best \in SUBSET Nat /\ IsFiniteSet(best) /\ best # {}
          BY <1>0, NodeSets
        <5>2. QED
          BY <5>1, MaxOfFinite
      <4>2. QED
        BY <3>2, <4>1 DEF Hopeless
    <3>3. QED
      BY <2>1, <3>1, <3>2
  <2>3. Range(todo) = {}
    BY <2>1 DEF Range
  <2>4. \A n \in best : Range(graph[n]) \subseteq seen
    BY <2>2, <2>3 DEF SearchInv
  <2>5. Reachable' = Reachable
    BY <2>1 DEF Reachable
  <2>6. GraphTypeOK'
    BY <1>0, <2>1 DEF GraphTypeOK
  <2>7. \A n \in best' \ frontier' : Range(graph'[n]) \subseteq seen' \cup Range(todo')
    BY <2>1, <2>4
  <2>8. QED
    BY <2>1, <2>4, <2>5, <2>6, <2>7 DEF SearchInv
<1>5. QED
  BY <1>1, <1>2, <1>3, <1>4 DEF GraphNext

\* What the invariant says of the answers.
LEMMA SearchAnswers == SearchInv => SearchIsExactInItsRegion
<1> SUFFICES ASSUME SearchInv PROVE SearchIsExactInItsRegion
  OBVIOUS
<1>1. /\ seen \in SUBSET Node /\ best \in SUBSET seen /\ best \in SUBSET Node /\ ef \in Nat /\ ef > 0
  <2>1. seen \in SUBSET Node /\ best \in SUBSET seen /\ ef \in CandidateSizes
    BY DEF SearchInv, GraphTypeOK
  <2>2. QED
    BY <2>1, GraphAssumption
<1>2. Cardinality(best) \in Nat /\ best \in SUBSET Nat /\ IsFiniteSet(best) /\ IsFiniteSet(seen)
  BY <1>1, NodeSets
<1>3. best = Nearest(seen, ef)
  BY <1>1, NearestIs DEF SearchInv
<1>4. ASSUME ~searching, NEW n \in best, NEW nb \in Range(graph[n]), nb \notin best
      PROVE  Cardinality(best) = ef /\ nb > Max(best)
  <2>1. nb \in seen \ best
    BY <1>4 DEF SearchInv
  <2>2. Cardinality(best) = ef
    BY <1>1, <1>2, <2>1 DEF SearchInv
  <2>3. Max(best) \in best
    BY <1>2, MaxOfFinite
  <2>4. Max(best) < nb
    BY <2>1, <2>3 DEF SearchInv
  <2>5. Max(best) \in Nat /\ nb \in Nat
    BY <1>1, <1>2, <2>1, <2>3, Nodes
  <2>6. QED
    BY <2>2, <2>4, <2>5
<1>5. ASSUME ~searching, Cardinality(Reachable) <= ef
      PROVE  best = Reachable
  <2>1. Reachable \in SUBSET Node /\ entry \in seen /\ seen \subseteq Reachable
    BY TheRegion DEF SearchInv
  <2>2. IsFiniteSet(Reachable) /\ Cardinality(Reachable) \in Nat
    BY <2>1, NodeSets
  <2>3. best = seen
    <3>1. ASSUME best # seen PROVE FALSE
      <4>1. PICK s \in seen : s \notin best
        BY <1>1, <3>1
      <4>2. Cardinality(best \cup {s}) = Cardinality(best) + 1
        BY <1>2, <4>1, FS_AddElement
      <4>3. best \cup {s} \subseteq Reachable
        BY <1>1, <2>1
      <4>4. Cardinality(best \cup {s}) <= Cardinality(Reachable)
        BY <2>2, <4>3, FS_Subset
      <4>5. Cardinality(best) = ef
        BY <1>1, <1>2, <3>1 DEF SearchInv
      <4>6. QED
        BY <1>1, <1>2, <1>5, <2>2, <4>2, <4>4, <4>5
    <3>2. QED
      BY <3>1
  <2>4. Reachable \subseteq seen
    <3>1. \A n \in seen : Range(graph[n]) \subseteq seen
      BY <1>5, <2>3 DEF SearchInv
    <3>2. QED
      BY <1>1, <2>1, <3>1, TheRegion DEF SearchInv
  <2>5. QED
    BY <2>1, <2>3, <2>4
<1>6. ASSUME ~searching, Cardinality(Reachable) <= ef PROVE Answers = Nearest(Reachable, TopK)
  BY <1>5, <1>6 DEF Answers
<1>7. QED
  BY <1>3, <1>4, <1>6 DEF SearchInv, SearchIsExactInItsRegion

-----------------------------------------------------------------------------
(***************************************************************************)
(* Retrieval: the two pointers                                             *)
(***************************************************************************)
Held(t) == {p \in left..right : text[p] = t}

\* The best span that starts at place i has been recorded.
Recorded(i) ==
    \E r \in i..right : /\ Covers(i, r) /\ shortest <= r - i + 2
                        /\ \A j \in i..right : j < r => ~Covers(i, j)

WindowInv ==
    /\ WindowTypeOK
    /\ Cardinality(Matched) >= 2
    /\ text[left] \in Term /\ (right > 0 => text[right] \in Term)
    /\ left <= right \/ (right = 0 /\ left = Following(0))
    /\ have = [t \in Term |-> Cardinality(Held(t))]
    /\ shortest = Infinity
         \/ \E i \in 1..right : \E j \in i..right : Covers(i, j) /\ shortest = j - i + 2
    /\ \A i \in 1..Places : i < left /\ text[i] \in Term => Recorded(i)
    /\ \A i \in 1..right : \A j \in i..right : Covers(i, j) /\ j < right => i < left

\* the next event: nothing lies between
LEMMA TheFollowing ==
    ASSUME NEW p \in Nat, EventsAfterPlace(p) # {}
    PROVE  /\ Following(p) \in Nat /\ p < Following(p) /\ Following(p) <= Places
           /\ text[Following(p)] \in Term
           /\ \A q \in p + 1..Places : text[q] \in Term => Following(p) <= q
<1>1. Places \in Nat
  BY WindowAssumption
<1>2. EventsAfterPlace(p) \in SUBSET Nat
  BY <1>1 DEF EventsAfterPlace
<1>3. /\ Following(p) \in EventsAfterPlace(p)
      /\ \A q \in EventsAfterPlace(p) : Following(p) <= q
  BY <1>2, MinOfNumbers DEF Following
<1>4. QED
  BY <1>1, <1>3 DEF EventsAfterPlace

LEMMA MatchedTerms ==
    ASSUME Cardinality(Matched) >= 2
    PROVE  /\ Matched \in SUBSET Term /\ IsFiniteSet(Matched) /\ Matched # {}
           /\ \A t \in Term : \E u \in Matched : u # t
<1>1. Matched \in SUBSET Term /\ IsFiniteSet(Matched)
  BY WindowAssumption, FS_Subset DEF Matched
<1>2. Cardinality(Matched) \in Nat
  BY <1>1, FS_CardinalityType
<1>3. Matched # {}
  BY <1>2, FS_EmptySet
<1>4. ASSUME NEW t \in Term, \A u \in Matched : u = t PROVE FALSE
  <2>1. Matched \subseteq {t}
    BY <1>4
  <2>2. IsFiniteSet({t}) /\ Cardinality({t}) = 1
    BY FS_Singleton
  <2>3. Cardinality(Matched) <= Cardinality({t})
    BY <2>1, <2>2, FS_Subset
  <2>4. QED
    BY <1>2, <2>2, <2>3
<1>5. QED
  BY <1>1, <1>3, <1>4

\* The counts are of sets of places.
LEMMA HeldPlaces ==
    ASSUME WindowTypeOK, NEW t \in Term
    PROVE  /\ IsFiniteSet(Held(t)) /\ Cardinality(Held(t)) \in 0..Places
           /\ (Cardinality(Held(t)) > 0 <=> Held(t) # {})
<1>1. left \in 1..Places /\ right \in 0..Places /\ Places \in Nat
  BY WindowAssumption DEF WindowTypeOK
<1>2. IsFiniteSet(1..Places) /\ Cardinality(1..Places) = Places
  <2>1. Cardinality(1..Places) = Places - 1 + 1
    BY <1>1, FS_Interval
  <2>2. QED
    BY <1>1, <2>1, FS_Interval
<1>3. Held(t) \subseteq 1..Places
  BY <1>1 DEF Held
<1>4. IsFiniteSet(Held(t)) /\ Cardinality(Held(t)) <= Places
  BY <1>2, <1>3, FS_Subset
<1>5. Cardinality(Held(t)) \in Nat /\ (Cardinality(Held(t)) = 0 <=> Held(t) = {})
  BY <1>4, FS_CardinalityType, FS_EmptySet
<1>6. QED
  BY <1>1, <1>4, <1>5

\* The while condition compares two numbers; it says that the window covers.
LEMMA CompleteIsCovers == WindowInv => (Complete <=> Covers(left, right))
<1> SUFFICES ASSUME WindowInv PROVE Complete <=> Covers(left, right)
  OBVIOUS
<1> DEFINE held == {t \in Term : have[t] > 0}
<1>1. left \in 1..Places /\ right \in 0..Places /\ Places \in Nat
  BY WindowAssumption DEF WindowInv, WindowTypeOK
<1>2. \A t \in Term : have[t] > 0 <=> \E p \in left..right : text[p] = t
  <2>1. \A t \in Term : have[t] > 0 <=> Held(t) # {}
    BY HeldPlaces DEF WindowInv
  <2>2. QED
    BY <2>1 DEF Held
<1>3. Matched \in SUBSET Term /\ IsFiniteSet(Matched)
  BY MatchedTerms DEF WindowInv
<1>4. held \subseteq Matched
  BY <1>1, <1>2 DEF Matched
<1>5. held = Matched <=> Covers(left, right)
  BY <1>2, <1>3, <1>4 DEF Covers
<1> HIDE DEF held
<1>6. Cardinality(held) = Cardinality(Matched) <=> held = Matched
  BY <1>3, <1>4, FS_Subset
<1>7. QED
  BY <1>5, <1>6 DEF Complete, held

LEMMA InitWindow == WindowInit => WindowInv
<1> SUFFICES ASSUME WindowInit PROVE WindowInv
  OBVIOUS
<1>1. /\ Places \in Nat /\ right = 0 /\ left = Following(0) /\ shortest = Infinity
      /\ text \in [1..Places -> Term \cup {Other}] /\ have = [t \in Term |-> 0]
      /\ Cardinality(Matched) >= 2
  BY WindowAssumption DEF WindowInit
<1>2. EventsAfterPlace(0) # {}
  <2>1. PICK t \in Matched : TRUE
    BY <1>1, MatchedTerms
  <2>2. PICK p \in 1..Places : text[p] \in Term
    BY <2>1 DEF Matched
  <2>3. QED
    BY <2>2 DEF EventsAfterPlace
<1>3. /\ left \in 1..Places /\ text[left] \in Term
      /\ \A q \in 1..Places : text[q] \in Term => left <= q
  BY <1>1, <1>2, TheFollowing
<1>4. \A t \in Term : Held(t) = {}
  BY <1>1, <1>3 DEF Held
<1>5. \A t \in Term : Cardinality(Held(t)) = 0
  BY <1>4, FS_EmptySet
<1>6. WindowTypeOK
  BY <1>1, <1>3 DEF WindowTypeOK, Infinity
<1>7. \A i \in 1..Places : ~ (i < left /\ text[i] \in Term)
  BY <1>1, <1>3
<1>8. have = [t \in Term |-> Cardinality(Held(t))]
  BY <1>1, <1>5
<1>9. QED
  BY <1>1, <1>3, <1>6, <1>7, <1>8 DEF WindowInv

\* A longer span covers at least as much.
LEMMA CoversMore ==
    ASSUME NEW i \in Nat, NEW j \in Nat, NEW k \in Nat, NEW l \in Nat,
           \A p \in i..j : text[p] \in Term => p \in k..l, Covers(i, j),
           Cardinality(Matched) >= 2
    PROVE  Covers(k, l)
  BY MatchedTerms DEF Covers

LEMMA ExtendKeeps == WindowInv /\ Extend => WindowInv'
<1> SUFFICES ASSUME WindowInv, Extend PROVE WindowInv'
  OBVIOUS
<1> DEFINE q == Following(right)
<1>1. /\ left \in 1..Places /\ right \in 0..Places /\ Places \in Nat
      /\ text \in [1..Places -> Term \cup {Other}] /\ have \in [Term -> 0..Places]
      /\ have = [t \in Term |-> Cardinality(Held(t))]
  BY WindowAssumption DEF WindowInv, WindowTypeOK
<1>2. /\ right' = q /\ have' = [have EXCEPT ![text[q]] = @ + 1] /\ EventsAfterPlace(right) # {}
      /\ text' = text /\ left' = left /\ shortest' = shortest /\ ~Complete
  BY DEF Extend
<1>3. /\ q \in Nat /\ right < q /\ q <= Places /\ text[q] \in Term
      /\ \A p \in right + 1..Places : text[p] \in Term => q <= p
  BY <1>1, <1>2, TheFollowing
<1>4. left <= q
  BY <1>1, <1>3 DEF WindowInv
<1> HIDE DEF q
<1>5. Matched' = Matched /\ \A i, j : Covers(i, j)' = Covers(i, j)
  BY <1>2 DEF Matched, Covers
<1>6. ASSUME NEW t \in Term
      PROVE  Cardinality(Held(t)') = IF t = text[q] THEN Cardinality(Held(t)) + 1
                                                    ELSE Cardinality(Held(t))
  <2>1. Held(t)' = {p \in left..q : text[p] = t}
    BY <1>2 DEF Held
  <2>2. \A p \in left..q : text[p] \in Term => p \in left..right \/ p = q
    BY <1>1, <1>3
  <2>3. \A p \in left..right : p \in left..q /\ p # q
    BY <1>1, <1>3
  <2>4. q \in left..q
    BY <1>1, <1>3, <1>4
  <2>5. Held(t)' = IF t = text[q] THEN Held(t) \cup {q} ELSE Held(t)
    BY <2>1, <2>2, <2>3, <2>4 DEF Held
  <2>6. q \notin Held(t)
    BY <2>3 DEF Held
  <2>7. IsFiniteSet(Held(t))
    BY HeldPlaces DEF WindowInv
  <2>8. Cardinality(Held(t) \cup {q}) = Cardinality(Held(t)) + 1
    BY <2>6, <2>7, FS_AddElement
  <2>9. QED
    BY <2>5, <2>8
<1>7. have' = [t \in Term |-> Cardinality(Held(t)')]
  BY <1>1, <1>2, <1>3, <1>6
<1>8. WindowTypeOK'
  <2>1. \A t \in Term : Cardinality(Held(t)') \in 0..Places
    <3>1. ASSUME NEW t \in Term PROVE Held(t)' \subseteq 1..Places
      BY <1>1, <1>2, <1>3 DEF Held
    <3>2. IsFiniteSet(1..Places) /\ Cardinality(1..Places) = Places
      <4>1. Cardinality(1..Places) = Places - 1 + 1
        BY <1>1, FS_Interval
      <4>2. QED
        BY <1>1, <4>1, FS_Interval
    <3>3. ASSUME NEW t \in Term PROVE Cardinality(Held(t)') \in 0..Places
      <4>1. IsFiniteSet(Held(t)') /\ Cardinality(Held(t)') <= Places
        BY <3>1, <3>2, FS_Subset
      <4>2. Cardinality(Held(t)') \in Nat
        BY <4>1, FS_CardinalityType
      <4>3. QED
        BY <1>1, <4>1, <4>2
    <3>4. QED
      BY <3>3
  <2>2. have' \in [Term -> 0..Places]
    BY <1>7, <2>1
  <2>3. QED
    BY <1>1, <1>2, <1>3, <2>2 DEF WindowInv, WindowTypeOK
<1>9. shortest' = Infinity
         \/ \E i \in 1..right' : \E j \in i..right' : Covers(i, j)' /\ shortest' = j - i + 2
  <2>1. CASE shortest = Infinity
    BY <1>2, <2>1
  <2>2. ASSUME NEW i \in 1..right, NEW j \in i..right, Covers(i, j), shortest = j - i + 2
        PROVE  \E k \in 1..q : \E l \in k..q : Covers(k, l) /\ shortest = l - k + 2
    <3>1. i \in 1..q /\ j \in i..q
      BY <1>1, <1>3
    <3>2. QED
      BY <2>2, <3>1
  <2>3. QED
    BY <1>2, <1>5, <2>1, <2>2 DEF WindowInv
<1>10. ASSUME NEW i \in 1..Places, i < left', text'[i] \in Term PROVE Recorded(i)'
  <2>1. PICK r \in i..right : /\ Covers(i, r) /\ shortest <= r - i + 2
                              /\ \A j \in i..right : j < r => ~Covers(i, j)
    BY <1>2, <1>10 DEF WindowInv, Recorded
  <2>2. r \in i..q
    BY <1>1, <1>3
  <2>3. \A j \in i..q : j < r => j \in i..right
    BY <1>1, <1>3
  <2>4. QED
    BY <1>2, <1>5, <2>1, <2>2, <2>3 DEF Recorded
<1>11. ASSUME NEW i \in 1..q, NEW j \in i..q, Covers(i, j), j < q, ~ (i < left)
       PROVE  FALSE
  <2>1. \A p \in i..j : text[p] \in Term => p \in left..right
    BY <1>1, <1>3, <1>11
  <2>2. Covers(left, right)
    BY <1>1, <1>3, <1>11, <2>1, CoversMore DEF WindowInv
  <2>3. QED
    BY <1>2, <2>2, CompleteIsCovers
<1>12. Cardinality(Matched') >= 2 /\ text'[left'] \in Term /\ text'[right'] \in Term /\ left' <= right'
  BY <1>2, <1>3, <1>4, <1>5 DEF WindowInv
<1>13. \A i \in 1..right' : \A j \in i..right' : Covers(i, j)' /\ j < right' => i < left'
  BY <1>2, <1>5, <1>11
<1>14. QED
  BY <1>7, <1>8, <1>9, <1>10, <1>12, <1>13 DEF WindowInv

LEMMA ShrinkKeeps == WindowInv /\ Shrink => WindowInv'
<1> SUFFICES ASSUME WindowInv, Shrink PROVE WindowInv'
  OBVIOUS
<1> DEFINE n == Following(left)
<1>1. /\ left \in 1..Places /\ right \in 0..Places /\ Places \in Nat
      /\ text \in [1..Places -> Term \cup {Other}] /\ have \in [Term -> 0..Places]
      /\ have = [t \in Term |-> Cardinality(Held(t))]
      /\ shortest \in 2..Infinity /\ text[left] \in Term
  BY WindowAssumption DEF WindowInv, WindowTypeOK
<1>2. /\ left' = n /\ have' = [have EXCEPT ![text[left]] = @ - 1]
      /\ text' = text /\ right' = right /\ Complete
      /\ shortest' = Min({shortest, right - left + 2})
  BY DEF Shrink
<1>3. Covers(left, right)
  BY <1>2, CompleteIsCovers
<1>4. PICK p \in left..right : p # left /\ text[p] \in Term
  <2>1. PICK t \in Matched : t # text[left]
    BY <1>1, MatchedTerms DEF WindowInv
  <2>2. PICK p \in left..right : text[p] = t
    BY <1>3, <2>1 DEF Covers
  <2>3. t \in Term
    BY DEF Matched
  <2>4. QED
    BY <2>1, <2>2, <2>3
<1>5. p \in left + 1..Places /\ p <= right
  BY <1>1, <1>4
<1>6. EventsAfterPlace(left) # {}
  BY <1>4, <1>5 DEF EventsAfterPlace
<1>7. /\ n \in Nat /\ left < n /\ n <= right /\ text[n] \in Term
      /\ \A k \in left + 1..Places : text[k] \in Term => n <= k
  <2>1. /\ n \in Nat /\ left < n /\ text[n] \in Term
        /\ \A k \in left + 1..Places : text[k] \in Term => n <= k
    BY <1>1, <1>6, TheFollowing
  <2> HIDE DEF n
  <2>2. n <= p
    BY <1>4, <1>5, <2>1
  <2>3. QED
    BY <1>1, <1>5, <2>1, <2>2
<1> HIDE DEF n
<1>8. Matched' = Matched /\ \A i, j : Covers(i, j)' = Covers(i, j)
  BY <1>2 DEF Matched, Covers
<1>9. /\ shortest' \in 2..Infinity /\ shortest' <= shortest /\ shortest' <= right - left + 2
      /\ shortest' = shortest \/ shortest' = right - left + 2
  <2> DEFINE span == right - left + 2
  <2>1. span \in 2..Infinity /\ shortest \in Nat
    BY <1>1, <1>7 DEF Infinity
  <2> HIDE DEF span
  <2>2. {shortest, span} \in SUBSET Nat
    BY <2>1
  <2>3. Min({shortest, span}) \in {shortest, span} /\ \A m \in {shortest, span} : Min({shortest, span}) <= m
    BY <2>2, MinOfNumbers
  <2>4. QED
    BY <1>1, <1>2, <2>1, <2>3 DEF span
<1>10. ASSUME NEW t \in Term
       PROVE  Cardinality(Held(t)') = IF t = text[left] THEN Cardinality(Held(t)) - 1
                                                        ELSE Cardinality(Held(t))
  <2>1. Held(t)' = {k \in n..right : text[k] = t}
    BY <1>2 DEF Held
  <2>2. \A k \in left..right : text[k] \in Term => k \in n..right \/ k = left
    BY <1>1, <1>7
  <2>3. \A k \in n..right : k \in left..right /\ k # left
    BY <1>1, <1>7
  <2>4. left \in left..right
    BY <1>1, <1>7
  <2>5. Held(t)' = IF t = text[left] THEN Held(t) \ {left} ELSE Held(t)
    BY <2>1, <2>2, <2>3, <2>4 DEF Held
  <2>6. t = text[left] => left \in Held(t)
    BY <2>4 DEF Held
  <2>7. IsFiniteSet(Held(t))
    BY HeldPlaces DEF WindowInv
  <2>8. t = text[left] => Cardinality(Held(t) \ {left}) = Cardinality(Held(t)) - 1
    BY <2>6, <2>7, FS_RemoveElement
  <2>9. QED
    BY <2>5, <2>8
<1>11. have' = [t \in Term |-> Cardinality(Held(t)')]
  BY <1>1, <1>2, <1>10
<1>12. WindowTypeOK'
  <2>1. Held(text[left]) # {}
    <3>1. left \in left..right
      BY <1>1, <1>7
    <3>2. QED
      BY <3>1 DEF Held
  <2>2. have[text[left]] > 0
    BY <1>1, <2>1, HeldPlaces DEF WindowInv
  <2>3. have' \in [Term -> 0..Places]
    BY <1>1, <1>2, <2>2
  <2>4. left' \in 1..Places
    BY <1>1, <1>2, <1>7
  <2>5. QED
    BY <1>2, <1>9, <2>3, <2>4 DEF WindowInv, WindowTypeOK
<1>13. shortest' = Infinity
          \/ \E i \in 1..right' : \E j \in i..right' : Covers(i, j)' /\ shortest' = j - i + 2
  <2>1. CASE shortest' = shortest
    BY <1>2, <1>8, <2>1 DEF WindowInv
  <2>2. CASE shortest' = right - left + 2
    <3>1. left \in 1..right /\ right \in left..right
      BY <1>1, <1>7
    <3>2. QED
      BY <1>2, <1>3, <1>8, <2>2, <3>1
  <2>3. QED
    BY <1>9, <2>1, <2>2
<1>14. ASSUME NEW i \in 1..Places, i < left', text'[i] \in Term PROVE Recorded(i)'
  <2>1. i < left \/ i = left
    BY <1>1, <1>2, <1>7, <1>14
  <2>2. CASE i < left
    <3>1. PICK r \in i..right : /\ Covers(i, r) /\ shortest <= r - i + 2
                                /\ \A j \in i..right : j < r => ~Covers(i, j)
      BY <1>2, <1>14, <2>2 DEF WindowInv, Recorded
    <3>2. shortest' <= r - i + 2
      <4>1. shortest \in Nat /\ shortest' \in Nat /\ r \in Nat
        BY <1>1, <1>9 DEF Infinity
      <4>2. QED
        BY <1>9, <3>1, <4>1
    <3>3. QED
      BY <1>2, <1>8, <3>1, <3>2 DEF Recorded
  <2>3. CASE i = left
    <3>1. right \in i..right /\ i \in 1..right
      BY <1>1, <1>7, <2>3
    <3>2. \A j \in i..right : j < right => ~Covers(i, j)
      <4>1. ~ (left < left)
        BY <1>1
      <4>2. QED
        BY <2>3, <3>1, <4>1 DEF WindowInv
    <3>3. QED
      BY <1>2, <1>3, <1>8, <1>9, <2>3, <3>1, <3>2 DEF Recorded
  <2>4. QED
    BY <2>1, <2>2, <2>3
<1>15. ASSUME NEW i \in 1..right, NEW j \in i..right, Covers(i, j), j < right
       PROVE  i < n
  <2>1. i < left
    BY <1>15 DEF WindowInv
  <2>2. QED
    BY <1>1, <1>7, <2>1
<1>16. /\ Cardinality(Matched') >= 2 /\ text'[left'] \in Term /\ left' <= right'
       /\ right' > 0 => text'[right'] \in Term
  BY <1>2, <1>7, <1>8 DEF WindowInv
<1>17. \A i \in 1..right' : \A j \in i..right' : Covers(i, j)' /\ j < right' => i < left'
  BY <1>2, <1>8, <1>15
<1>18. QED
  BY <1>11, <1>12, <1>13, <1>14, <1>16, <1>17 DEF WindowInv

LEMMA NextWindow == WindowInv /\ [WindowNext]_windowVars => WindowInv'
<1> SUFFICES ASSUME WindowInv, UNCHANGED windowVars PROVE WindowInv'
  BY ExtendKeeps, ShrinkKeeps DEF WindowNext
<1>1. /\ Matched' = Matched /\ Following(0)' = Following(0) /\ Infinity' = Infinity
      /\ \A t : Held(t)' = Held(t)
      /\ \A i, j : Covers(i, j)' = Covers(i, j)
  BY DEF windowVars, Matched, Following, EventsAfterPlace, Infinity, Held, Covers
<1>2. UNCHANGED <<text, right, left, have, shortest>>
  BY DEF windowVars
<1>3. WindowTypeOK' /\ \A i : Recorded(i)' <=> Recorded(i)
  BY <1>1, <1>2 DEF WindowInv, WindowTypeOK, Recorded
<1>4. QED
  BY <1>1, <1>2, <1>3 DEF WindowInv

\* Whenever the window has been shrunk as far as it goes, every span up to the
\* last event that covers starts before the window, where its start has been
\* recorded with the shortest span there is.
LEMMA SmallestWindow == WindowInv => WindowIsTheSmallest
<1> SUFFICES ASSUME WindowInv, ~Complete
             PROVE  shortest = Min({Infinity} \cup {s[2] - s[1] + 2 : s \in Spans})
  BY DEF WindowIsTheSmallest
<1> DEFINE found == {Infinity} \cup {s[2] - s[1] + 2 : s \in Spans}
<1>1. /\ left \in 1..Places /\ right \in 0..Places /\ Places \in Nat /\ Infinity \in Nat
      /\ shortest \in Nat /\ shortest <= Infinity
  BY WindowAssumption DEF WindowInv, WindowTypeOK, Infinity
<1>2. ASSUME NEW s \in Spans PROVE s[2] - s[1] + 2 \in Nat /\ shortest <= s[2] - s[1] + 2
  <2>1. PICK i \in 1..right, j \in 1..right : s = <<i, j>>
    BY DEF Spans
  <2>2. i <= j /\ Covers(i, j) /\ s[1] = i /\ s[2] = j
    BY <2>1 DEF Spans
  <2> DEFINE inside == {p \in i..j : text[p] \in Term}
  <2>3. inside # {}
    <3>1. PICK t \in Matched : TRUE
      BY MatchedTerms DEF WindowInv
    <3>2. QED
      BY <2>2, <3>1 DEF Covers, Matched
  <2>4. inside \in SUBSET Nat
    BY <1>1
  <2> DEFINE k == Min(inside)
  <2>5. k \in inside /\ \A p \in inside : k <= p
    <3> HIDE DEF inside
    <3>1. QED
      BY <2>3, <2>4, MinOfNumbers
  <2>6. /\ k \in Nat /\ i <= k /\ k <= j /\ text[k] \in Term
        /\ \A p \in i..j : text[p] \in Term => k <= p
    BY <1>1, <2>5
  <2> HIDE DEF k, inside
  <2>7. Covers(k, j)
    <3>1. \A p \in i..j : text[p] \in Term => p \in k..j
      BY <1>1, <2>6
    <3>2. QED
      BY <1>1, <2>2, <2>6, <3>1, CoversMore DEF WindowInv
  <2>8. k < left
    <3>1. ASSUME ~ (k < left) PROVE FALSE
      <4>1. \A p \in k..j : text[p] \in Term => p \in left..right
        BY <1>1, <2>6, <3>1
      <4>2. /\ k \in Nat /\ j \in Nat /\ left \in Nat /\ right \in Nat
            /\ Cardinality(Matched) >= 2
        BY <1>1, <2>6 DEF WindowInv
      <4>3. Covers(left, right)
        BY ONLY <2>7, <4>1, <4>2, CoversMore
      <4>4. QED
        BY <4>3, CompleteIsCovers
    <3>2. QED
      BY <3>1
  <2>9. PICK r \in k..right : /\ Covers(k, r) /\ shortest <= r - k + 2
                              /\ \A l \in k..right : l < r => ~Covers(k, l)
    <3>1. k \in 1..Places
      BY <1>1, <2>6
    <3>2. QED
      BY <2>6, <2>8, <3>1 DEF WindowInv, Recorded
  <2>10. r <= j
    BY <1>1, <2>6, <2>7, <2>9
  <2>11. QED
    BY <1>1, <2>2, <2>6, <2>9, <2>10
<1>3. found \in SUBSET Nat
  BY <1>1, <1>2
<1>4. \A m \in found : shortest <= m
  BY <1>1, <1>2
<1>5. shortest \in found
  <2>1. CASE shortest = Infinity
    BY <2>1
  <2>2. ASSUME NEW i \in 1..right, NEW j \in i..right, Covers(i, j), shortest = j - i + 2
        PROVE  shortest \in found
    <3>1. i \in 1..right /\ j \in 1..right /\ i <= j
      BY <1>1
    <3>2. <<i, j>> \in Spans
      BY <2>2, <3>1 DEF Spans
    <3>3. <<i, j>>[2] - <<i, j>>[1] + 2 \in found
      BY <3>2
    <3>4. QED
      BY <2>2, <3>3
  <2>3. QED
    BY <2>1, <2>2 DEF WindowInv
<1> HIDE DEF found
<1>6. Min(found) \in found /\ \A m \in found : Min(found) <= m
  BY <1>3, <1>5, MinOfNumbers
<1>7. shortest = Min(found)
  <2>1. shortest <= Min(found) /\ Min(found) <= shortest /\ Min(found) \in Nat
    BY <1>3, <1>4, <1>5, <1>6
  <2>2. \A a, b \in Nat : a <= b /\ b <= a => a = b
    OBVIOUS
  <2>3. QED
    BY <1>1, <2>1, <2>2
<1>8. QED
  BY <1>7 DEF found

-----------------------------------------------------------------------------
(***************************************************************************)
(* MCServing: the parts side by side                                       *)
(***************************************************************************)
LEMMA LabParts ==
    /\ LabInit => Init /\ StreamInit /\ ConsumerInit /\ TenInit /\ GraphInit /\ WindowInit
    /\ [LabNext]_labVars => /\ [Next]_vars /\ [StreamNext]_streamVars
                            /\ [ConsumerNext]_consumerVars /\ [TenNext]_tenVars
                            /\ [GraphNext]_graphVars /\ [WindowNext]_windowVars
<1>1. UNCHANGED labVars =>
         UNCHANGED <<vars, streamVars, consumerVars, tenVars, graphVars, windowVars>>
  BY DEF labVars
<1>2. QED
  BY <1>1 DEF LabInit, LabNext

ServingInv ==
    EndpointInv /\ StreamInv /\ ConsumerInv /\ TenantInv /\ SearchInv /\ WindowInv

LEMMA ServingHolds == LabSpec => []ServingInv
<1>1. LabInit => ServingInv
  BY EndpointAssumption, StreamAssumption, StreamCommitAssumption, TenancyAssumption, LabParts,
     InitEndpoint, InitStream, InitConsumer, InitTenant, InitSearch, InitWindow DEF ServingInv
<1>2. EndpointInv /\ [Next]_vars => EndpointInv'
  BY EndpointAssumption, NextTypes, NextOwner, NextHonest, NextWritesOnce, NextAnswers
     DEF EndpointInv
<1>3. ServingInv /\ [LabNext]_labVars => ServingInv'
  BY <1>2, StreamAssumption, StreamCommitAssumption, TenancyAssumption, LabParts,
     NextStream, NextConsumer, NextTenant, NextSearch, NextWindow DEF ServingInv
<1>4. QED
  BY <1>1, <1>3, PTL DEF LabSpec

\* What is handed out is whole, or says that it is not, for any number of
\* records, buffer sizes and absorbed writes; for any graph, entry and size of
\* the candidate list; and for any text and any terms: the two pointers find
\* the smallest window.
THEOREM ServedWhole == LabSpec => []WhatIsServedIsWhole
<1>1. ServingInv => WhatIsServedIsWhole
  BY StreamAssumption, StreamKeepsItsWord, SearchAnswers, SmallestWindow
     DEF ServingInv, ConsumerInv, WhatIsServedIsWhole
<1>2. QED
  BY <1>1, ServingHolds, PTL

\* Types of all six: no count of a window, a buffer or a stream leaves its range.
THEOREM ServingTypes == LabSpec => []LabTypeOK
<1>1. ServingInv => LabTypeOK
  BY DEF ServingInv, EndpointInv, StreamInv, ConsumerInv, TenantInv, SearchInv, WindowInv, LabTypeOK
<1>2. QED
  BY <1>1, ServingHolds, PTL
=============================================================================
