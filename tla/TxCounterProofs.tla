-------------------------- MODULE TxCounterProofs --------------------------
(***************************************************************************)
(* Every strategy of tx_lab.py but the naive one counts without silent     *)
(* loss, for any number of threads and requests, and therefore implements  *)
(* CountOnce.                                                              *)
(*                                                                         *)
(* The total equals the number of commits because an open UPDATE always    *)
(* carries the committed value plus one.  Why it does differs by strategy: *)
(* the lock has been held since the read (immediate), the snapshot is the  *)
(* last commit (deferred), the version matched (optimistic), or the value  *)
(* was computed under the lock (atomic).  CountInv says all of that.       *)
(***************************************************************************)
EXTENDS MCTxCounter, StoreProofs

\* only the thread that holds the lock is between its UPDATE and its commit,
\* or between BEGIN IMMEDIATE and its commit
WriterInv ==
    \A t \in Thread :
        \/ pc[t] = "commit"
        \/ strategy = "immediate" /\ pc[t] \in {"read", "update"}
        => writer = t

\* what each strategy knows about the value it read
SeenInv ==
    \A t \in Thread :
        /\ strategy = "immediate" /\ pc[t] = "update" => seen[t].value = counter.value
        /\ strategy = "deferred" => seen[t].value = seen[t].commit
        /\ strategy = "optimistic" => seen[t].value = seen[t].version

OutInv ==
    \A t \in Thread : pc[t] = "commit" /\ hit[t] => out[t] = counter.value + 1

CountInv ==
    /\ WriterInv
    /\ SeenInv
    /\ OutInv
    /\ strategy = "optimistic" => counter.version = counter.value
    /\ counter.value = commits

\* CountInv holds of every strategy but the naive one.
SoundInv == strategy # "naive" => CountInv

-----------------------------------------------------------------------------
LEMMA FirstType == First \in {"begin", "read", "update"}
BY DEF First

\* A thread that is done has no request left, and no other thread has none.
LeftInv == \A t \in Thread : pc[t] # "done" => left[t] > 0

LEMMA InitType == Init => TypeOK /\ LeftInv
BY TxCounterAssumption, FirstType DEF Init, TypeOK, LeftInv

LEMMA NextRequestType ==
    ASSUME TypeOK, LeftInv, NEW t \in Thread, pc[t] # "done", NextRequest(t),
           strategy' = strategy
    PROVE  /\ pc' \in [Thread -> {"begin", "read", "update", "commit", "done"}]
           /\ left' \in [Thread -> 0..Increments]
           /\ LeftInv'
BY TxCounterAssumption, FirstType DEF NextRequest, TypeOK, LeftInv

LEMMA NextType == TypeOK /\ LeftInv /\ [Next]_vars => (TypeOK /\ LeftInv)'
<1> SUFFICES ASSUME TypeOK, LeftInv, [Next]_vars
             PROVE  (TypeOK /\ LeftInv)'
    OBVIOUS
<1> USE TxCounterAssumption, FirstType
<1>1. ASSUME NEW t \in Thread, Begin(t)
      PROVE  (TypeOK /\ LeftInv)'
    BY <1>1 DEF Begin, TypeOK, LeftInv
<1>2. ASSUME NEW t \in Thread, Read(t)
      PROVE  (TypeOK /\ LeftInv)'
    BY <1>2 DEF Read, TypeOK, LeftInv
<1>3. ASSUME NEW t \in Thread, Update(t)
      PROVE  (TypeOK /\ LeftInv)'
    <2>1. Matches(t) \in BOOLEAN
        BY <1>3 DEF Matches
    <2>2. (IF strategy = "atomic" THEN counter.value + 1 ELSE seen[t].value + 1) \in Nat
        BY <1>3 DEF TypeOK
    <2> QED
        BY <1>3, <2>1, <2>2 DEF Update, TypeOK, LeftInv
<1>4. ASSUME NEW t \in Thread, Commit(t)
      PROVE  (TypeOK /\ LeftInv)'
    <2>1. /\ pc' \in [Thread -> {"begin", "read", "update", "commit", "done"}]
          /\ left' \in [Thread -> 0..Increments]
          /\ LeftInv'
        BY <1>4, NextRequestType DEF Commit
    <2>2. counter' \in [value : Nat, version : Nat]
        BY <1>4 DEF Commit, TypeOK
    <2> QED
        BY <1>4, <2>1, <2>2 DEF Commit, TypeOK
<1>5. ASSUME NEW t \in Thread, Lose(t)
      PROVE  (TypeOK /\ LeftInv)'
    BY <1>5 DEF Lose, TypeOK, LeftInv
<1>6. ASSUME NEW t \in Thread, Fail(t)
      PROVE  (TypeOK /\ LeftInv)'
    <2>1. /\ pc' \in [Thread -> {"begin", "read", "update", "commit", "done"}]
          /\ left' \in [Thread -> 0..Increments]
          /\ LeftInv'
        BY <1>6, NextRequestType DEF Fail
    <2> QED
        BY <1>6, <2>1 DEF Fail, TypeOK
<1>7. CASE UNCHANGED vars
    BY <1>7 DEF vars, TypeOK, LeftInv
<1> QED
    BY <1>1, <1>2, <1>3, <1>4, <1>5, <1>6, <1>7 DEF Next, Step

\* Every reachable state has the declared types, whatever the strategy; in
\* particular no thread runs out of requests twice.
THEOREM CounterTypes == Spec => []TypeOK
<1>1. TypeOK /\ LeftInv => TypeOK
    OBVIOUS
<1> QED
    BY InitType, NextType, <1>1, PTL DEF Spec

-----------------------------------------------------------------------------
LEMMA InitCount == Init => SoundInv
BY TxCounterAssumption, FirstType
   DEF Init, First, SoundInv, CountInv, WriterInv, SeenInv, OutInv

\* The value an UPDATE is about to write is the committed one plus one.
LEMMA FreshWrite ==
    ASSUME TypeOK, CountInv, strategy # "naive",
           NEW t \in Thread, pc[t] = "update", Upgradable(t), Matches(t)
    PROVE  strategy # "atomic" => seen[t].value = counter.value
<1>1. strategy \in {"deferred", "immediate", "optimistic", "atomic"}
    BY TxCounterAssumption DEF TypeOK, Strategy
<1>2. CASE strategy = "immediate"
    BY <1>2 DEF CountInv, SeenInv
<1>3. CASE strategy = "deferred"
    BY <1>3 DEF CountInv, SeenInv, Upgradable
<1>4. CASE strategy = "optimistic"
    BY <1>4 DEF CountInv, SeenInv, Matches
<1> QED
    BY <1>1, <1>2, <1>3, <1>4

LEMMA NextCount ==
    ASSUME TypeOK, CountInv, strategy # "naive", [Next]_vars
    PROVE  CountInv'
<1> USE TxCounterAssumption
<1>1. ASSUME NEW t \in Thread, Begin(t)
      PROVE  CountInv'
    <2>1. WriterInv'
        BY <1>1 DEF Begin, TypeOK, CountInv, WriterInv, LockFree
    <2> QED
        BY <1>1, <2>1 DEF Begin, TypeOK, CountInv, SeenInv, OutInv
<1>2. ASSUME NEW t \in Thread, Read(t)
      PROVE  CountInv'
    <2>1. WriterInv'
        BY <1>2 DEF Read, TypeOK, CountInv, WriterInv
    <2>2. SeenInv'
        BY <1>2 DEF Read, TypeOK, CountInv, SeenInv
    <2> QED
        BY <1>2, <2>1, <2>2 DEF Read, TypeOK, CountInv, OutInv
<1>3. ASSUME NEW t \in Thread, Update(t)
      PROVE  CountInv'
    <2>1. WriterInv'
        BY <1>3 DEF Update, TypeOK, CountInv, WriterInv, LockFree
    <2>2. SeenInv'
        BY <1>3 DEF Update, TypeOK, CountInv, SeenInv
    <2>3. hit'[t] <=> Matches(t)
        BY <1>3 DEF Update, TypeOK
    <2>4. Matches(t) => out'[t] = counter.value + 1
        BY <1>3, FreshWrite DEF Update, TypeOK
    <2>5. ASSUME NEW u \in Thread, u # t
          PROVE  pc'[u] = pc[u] /\ hit'[u] = hit[u] /\ out'[u] = out[u]
        BY <1>3, <2>5 DEF Update, TypeOK
    <2>6. OutInv'
        BY <1>3, <2>3, <2>4, <2>5 DEF Update, CountInv, OutInv
    <2> QED
        BY <1>3, <2>1, <2>2, <2>6 DEF Update, CountInv
<1>4. ASSUME NEW t \in Thread, Commit(t)
      PROVE  CountInv'
    <2>1. /\ writer = t
          /\ out[t] = counter.value + 1
        BY <1>4 DEF Commit, CountInv, WriterInv, OutInv
    <2>2. ASSUME NEW u \in Thread, u # t
          PROVE  /\ pc[u] # "commit"
                 /\ ~(strategy = "immediate" /\ pc[u] \in {"read", "update"})
                 /\ pc'[u] = pc[u]
        BY <1>4, <2>1, <2>2 DEF Commit, NextRequest, TypeOK, CountInv, WriterInv
    <2>3. /\ pc'[t] # "commit"
          /\ strategy = "immediate" => pc'[t] \notin {"read", "update"}
        BY <1>4 DEF Commit, NextRequest, TypeOK, First
    <2>4. WriterInv' /\ OutInv'
        BY <1>4, <2>2, <2>3 DEF Commit, WriterInv, OutInv
    <2>5. SeenInv'
        BY <1>4, <2>2, <2>3 DEF Commit, CountInv, SeenInv
    <2>6. (strategy = "optimistic" => counter.version = counter.value)'
        BY <1>4, <2>1 DEF Commit, CountInv, TypeOK
    <2>7. (counter.value = commits)'
        BY <1>4, <2>1 DEF Commit, CountInv
    <2> QED
        BY <2>4, <2>5, <2>6, <2>7 DEF CountInv
<1>5. ASSUME NEW t \in Thread, Lose(t)
      PROVE  CountInv'
    <2>1. writer = t
        BY <1>5 DEF Lose, CountInv, WriterInv
    <2>2. ASSUME NEW u \in Thread, u # t
          PROVE  /\ pc[u] # "commit"
                 /\ ~(strategy = "immediate" /\ pc[u] \in {"read", "update"})
                 /\ pc'[u] = pc[u]
        BY <1>5, <2>1, <2>2 DEF Lose, TypeOK, CountInv, WriterInv
    <2>3. /\ pc'[t] # "commit"
          /\ strategy = "immediate" => pc'[t] \notin {"read", "update"}
        BY <1>5 DEF Lose, TypeOK, First
    <2>4. WriterInv' /\ OutInv' /\ SeenInv'
        BY <1>5, <2>2, <2>3 DEF Lose, CountInv, WriterInv, OutInv, SeenInv
    <2> QED
        BY <1>5, <2>4 DEF Lose, CountInv
<1>6. ASSUME NEW t \in Thread, Fail(t)
      PROVE  CountInv'
    <2>1. /\ pc'[t] # "commit"
          /\ strategy = "immediate" => pc'[t] \notin {"read", "update"}
        BY <1>6 DEF Fail, NextRequest, TypeOK, First
    <2>2. ASSUME NEW u \in Thread, u # t
          PROVE  pc'[u] = pc[u]
        BY <1>6, <2>2 DEF Fail, NextRequest, TypeOK
    <2>3. WriterInv' /\ OutInv' /\ SeenInv'
        BY <1>6, <2>1, <2>2 DEF Fail, CountInv, WriterInv, OutInv, SeenInv
    <2> QED
        BY <1>6, <2>3 DEF Fail, CountInv
<1>7. CASE UNCHANGED vars
    BY <1>7 DEF vars, CountInv, WriterInv, SeenInv, OutInv
<1> QED
    BY <1>1, <1>2, <1>3, <1>4, <1>5, <1>6, <1>7 DEF Next, Step

\* The strategy is an argument: it never changes.
LEMMA StrategyStays == [Next]_vars => strategy' = strategy
BY DEF Next, Step, vars, Begin, Read, Update, Commit, Lose, Fail

LEMMA InitSound == Init => TypeOK /\ LeftInv /\ SoundInv
BY InitType, InitCount

LEMMA NextSound ==
    TypeOK /\ LeftInv /\ SoundInv /\ [Next]_vars => (TypeOK /\ LeftInv /\ SoundInv)'
<1> SUFFICES ASSUME TypeOK, LeftInv, SoundInv, [Next]_vars
             PROVE  (TypeOK /\ LeftInv /\ SoundInv)'
    OBVIOUS
<1>1. (TypeOK /\ LeftInv)'
    BY NextType
<1>2. strategy # "naive" => CountInv'
    BY NextCount DEF SoundInv
<1> QED
    BY <1>1, <1>2, StrategyStays DEF SoundInv

\* Whatever the other threads do between a read and its update, the committed
\* total is the number of committed increments: nothing is lost quietly by the
\* deferred, immediate, optimistic or atomic strategy.
THEOREM NoSilentLoss == Spec => []NothingLostQuietly
<1>1. SoundInv => NothingLostQuietly
    BY DEF SoundInv, CountInv, NothingLostQuietly
<1> QED
    BY InitSound, NextSound, <1>1, PTL DEF Spec

-----------------------------------------------------------------------------
LEMMA StepRefines ==
    ASSUME TypeOK, SoundInv, [Next]_vars
    PROVE  [Total!Count \/ Total!Report]_<<Counted, errors>>
<1>1. ASSUME NEW t \in Thread, Commit(t)
      PROVE  Total!Count
    <2>1. strategy # "naive" => out[t] = counter.value + 1
        BY <1>1 DEF Commit, SoundInv, CountInv, OutInv
    <2>2. Counted' = Counted + 1
        BY <1>1, <2>1 DEF Commit, Counted
    <2> QED
        BY <1>1, <2>2 DEF Commit, Total!Count
<1>2. ASSUME NEW t \in Thread, Fail(t)
      PROVE  Total!Report
    BY <1>2 DEF Fail, Total!Report, Counted
<1>3. ASSUME NEW t \in Thread, Begin(t) \/ Read(t) \/ Update(t) \/ Lose(t)
      PROVE  UNCHANGED <<Counted, errors>>
    BY <1>3 DEF Begin, Read, Update, Lose, Counted
<1>4. CASE UNCHANGED vars
    BY <1>4 DEF vars, Counted
<1> QED
    BY <1>1, <1>2, <1>3, <1>4 DEF Next, Step

\* Every strategy but the naive one implements CountOnce: each step adds one to
\* the total, reports one loss, or is invisible.
THEOREM CounterRefines == Spec => CountsOnce
<1>1. Init => Total!Init
    BY DEF Init, Total!Init, Counted
<1>2. TypeOK /\ SoundInv /\ [Next]_vars
        => [Total!Count \/ Total!Report]_<<Counted, errors>>
    BY StepRefines
<1> QED
    BY InitSound, NextSound, <1>1, <1>2, PTL DEF Spec, CountsOnce, Total!Spec

-----------------------------------------------------------------------------
(***************************************************************************)
(* What becomes of each request.  A request that a thread has not done yet *)
(* is a pair of the thread and a number; every commit and every error      *)
(* takes one pair away, so the three together stay as many as there were.  *)
(***************************************************************************)

Owed == {q \in Thread \X (1..Increments) : q[2] <= left[q[1]]}

RequestsInv ==
    /\ commits + errors + Cardinality(Owed) = Requests
    /\ \A t \in Thread : pc[t] = "done" => left[t] = 0

LEMMA OwedFinite ==
    /\ IsFiniteSet(Owed) /\ Cardinality(Owed) \in Nat
    /\ Cardinality(Thread \X (1..Increments)) = Requests /\ Requests \in Nat
<1>1. /\ IsFiniteSet(1..Increments) /\ Cardinality(1..Increments) = Increments
      /\ IsFiniteSet(Thread) /\ Cardinality(Thread) \in Nat /\ Increments \in Nat
  <2>1. Increments \in Nat \ {0} /\ IsFiniteSet(Thread)
    BY TxCounterAssumption DEF TxCounterAssumption
  <2>2. /\ IsFiniteSet(1..Increments)
        /\ Cardinality(1..Increments) = IF 1 > Increments THEN 0 ELSE Increments - 1 + 1
    BY <2>1, FS_Interval
  <2>3. QED
    BY <2>1, <2>2, FS_CardinalityType
<1>2. /\ IsFiniteSet(Thread \X (1..Increments))
      /\ Cardinality(Thread \X (1..Increments)) = Cardinality(Thread) * Increments
  BY <1>1, FS_Product
<1>3. Owed \in SUBSET (Thread \X (1..Increments))
  BY DEF Owed
<1>4. QED
  BY <1>1, <1>2, <1>3, FS_Subset, FS_CardinalityType DEF Requests

LEMMA InitRequests == Init => RequestsInv
<1> SUFFICES ASSUME Init PROVE RequestsInv
  OBVIOUS
<1>1. Owed = Thread \X (1..Increments)
  BY TxCounterAssumption DEF Init, Owed, TxCounterAssumption
<1>2. \A t \in Thread : pc[t] # "done"
  BY FirstType DEF Init
<1>3. QED
  BY <1>1, <1>2, OwedFinite DEF Init, RequestsInv

\* One request less, counted on either side.
LEMMA RequestDone ==
    ASSUME TypeOK, LeftInv, RequestsInv, NEW t \in Thread, pc[t] # "done", NextRequest(t),
           \/ commits' = commits + 1 /\ errors' = errors
           \/ commits' = commits /\ errors' = errors + 1
    PROVE  RequestsInv'
<1>1. /\ left \in [Thread -> 0..Increments] /\ left[t] \in 1..Increments
      /\ left' = [left EXCEPT ![t] = @ - 1]
      /\ commits \in Nat /\ errors \in Nat /\ Increments \in Nat
  BY TxCounterAssumption DEF TypeOK, LeftInv, NextRequest, TxCounterAssumption
<1>2. Owed' = Owed \ {<<t, left[t]>>} /\ <<t, left[t]>> \in Owed
  <2>1. <<t, left[t]>> \in Owed
    BY <1>1 DEF Owed
  <2>2. ASSUME NEW q \in Thread \X (1..Increments)
        PROVE  q[2] <= left'[q[1]] <=> q[2] <= left[q[1]] /\ q # <<t, left[t]>>
    <3>1. q = <<q[1], q[2]>> /\ q[1] \in Thread /\ q[2] \in 1..Increments
      OBVIOUS
    <3>2. left'[q[1]] = IF q[1] = t THEN left[t] - 1 ELSE left[q[1]]
      BY <1>1, <3>1
    <3>3. left[q[1]] \in Int /\ left[t] \in Int /\ q[2] \in Int
      BY <1>1, <3>1
    <3>4. q = <<t, left[t]>> <=> q[1] = t /\ q[2] = left[t]
      BY <3>1
    <3>5. QED
      BY <3>2, <3>3, <3>4
  <2>3. QED
    BY <2>1, <2>2 DEF Owed
<1>3. Cardinality(Owed') = Cardinality(Owed) - 1
  BY <1>2, OwedFinite, FS_RemoveElement
<1>4. commits' + errors' + Cardinality(Owed)' = Requests
  BY <1>1, <1>3, OwedFinite DEF RequestsInv
<1>5. ASSUME NEW u \in Thread, pc'[u] = "done" PROVE left'[u] = 0
  BY <1>1, <1>5, FirstType DEF NextRequest, RequestsInv, TypeOK
<1>6. Requests' = Requests
  BY DEF Requests
<1>7. QED
  BY <1>4, <1>5, <1>6 DEF RequestsInv

LEMMA NextRequests == TypeOK /\ LeftInv /\ RequestsInv /\ [Next]_vars => RequestsInv'
<1> SUFFICES ASSUME TypeOK, LeftInv, RequestsInv, [Next]_vars PROVE RequestsInv'
  OBVIOUS
<1>1. ASSUME UNCHANGED <<left, commits, errors>>,
             \A t \in Thread : pc'[t] = "done" => pc[t] = "done"
      PROVE  RequestsInv'
  BY <1>1 DEF RequestsInv, Owed, Requests
<1>2. ASSUME NEW t \in Thread, Begin(t) \/ Read(t) \/ Update(t) \/ Lose(t) PROVE RequestsInv'
  BY <1>1, <1>2, FirstType DEF Begin, Read, Update, Lose, TypeOK
<1>3. ASSUME NEW t \in Thread, Commit(t) PROVE RequestsInv'
  BY <1>3, RequestDone DEF Commit
<1>4. ASSUME NEW t \in Thread, Fail(t) PROVE RequestsInv'
  BY <1>4, RequestDone DEF Fail
<1>5. CASE UNCHANGED vars
  BY <1>5, <1>1 DEF vars
<1>6. QED
  BY <1>2, <1>3, <1>4, <1>5 DEF Next, Step

-----------------------------------------------------------------------------
\* No strategy counts an increment twice.  The naive one, as long as nothing has
\* failed, lets every thread but those at their first request build on a value
\* of at least one; so the last commit of all, which is not the first of its
\* thread, leaves at least two.
ValueInv ==
    /\ counter.value <= commits
    /\ \A t \in Thread : /\ seen[t].value <= commits
                         /\ pc[t] = "commit" => out[t] <= commits + 1

NaiveInv ==
    (strategy = "naive" /\ errors = 0) =>
        /\ commits > 0 => counter.value > 0
        /\ \A t \in Thread :
              /\ left[t] < Increments => commits > 0
              /\ pc[t] \in {"update", "commit"} /\ left[t] < Increments => seen[t].value > 0
              /\ pc[t] = "commit" => out[t] = seen[t].value + 1

LEMMA NextValue == TypeOK /\ LeftInv /\ ValueInv /\ [Next]_vars => ValueInv'
<1> SUFFICES ASSUME TypeOK, LeftInv, ValueInv, [Next]_vars PROVE ValueInv'
  OBVIOUS
<1> USE DEF TypeOK, ValueInv
<1>1. ASSUME NEW t \in Thread, Begin(t) PROVE ValueInv'
  BY <1>1 DEF Begin
<1>2. ASSUME NEW t \in Thread, Read(t) PROVE ValueInv'
  BY <1>2 DEF Read
<1>3. ASSUME NEW t \in Thread, Update(t) PROVE ValueInv'
  <2>1. \A u \in Thread : pc'[u] = "commit" => out'[u] <= commits + 1
    BY <1>3 DEF Update
  <2>2. QED
    BY <2>1, <1>3 DEF Update
<1>4. ASSUME NEW t \in Thread, Commit(t) PROVE ValueInv'
  <2>1. counter'.value = out[t] /\ commits' = commits + 1 /\ UNCHANGED <<seen, out>>
    BY <1>4 DEF Commit
  <2>2. \A u \in Thread : pc'[u] = "commit" => pc[u] = "commit"
    BY <1>4, FirstType DEF Commit, NextRequest
  <2>3. QED
    BY <2>1, <2>2, <1>4 DEF Commit
<1>5. ASSUME NEW t \in Thread, Lose(t) \/ Fail(t) PROVE ValueInv'
  BY <1>5, FirstType DEF Lose, Fail, NextRequest
<1>6. CASE UNCHANGED vars
  BY <1>6 DEF vars
<1>7. QED
  BY <1>1, <1>2, <1>3, <1>4, <1>5, <1>6 DEF Next, Step

LEMMA NextNaive == TypeOK /\ LeftInv /\ NaiveInv /\ [Next]_vars => NaiveInv'
<1> SUFFICES ASSUME TypeOK, LeftInv, NaiveInv, [Next]_vars,
                    strategy' = "naive", errors' = 0
             PROVE  NaiveInv'
  BY DEF NaiveInv
<1>0. strategy = "naive" /\ strategy' = strategy
  BY StrategyStays
<1> USE DEF TypeOK, NaiveInv
<1>1. ASSUME NEW t \in Thread, Begin(t) PROVE NaiveInv'
  BY <1>0, <1>1 DEF Begin
<1>2. ASSUME NEW t \in Thread, Read(t) PROVE NaiveInv'
  BY <1>0, <1>2 DEF Read
<1>3. ASSUME NEW t \in Thread, Update(t) PROVE NaiveInv'
  BY <1>0, <1>3 DEF Update
<1>4. ASSUME NEW t \in Thread, Commit(t) PROVE NaiveInv'
  <2>1. counter'.value = seen[t].value + 1 /\ commits' = commits + 1 /\ UNCHANGED <<seen, out>>
    BY <1>0, <1>4 DEF Commit
  <2>2. \A u \in Thread : pc'[u] \in {"update", "commit"} => pc'[u] = pc[u] /\ left'[u] = left[u]
    BY <1>0, <1>4 DEF Commit, NextRequest, First
  <2>3. QED
    BY <1>0, <1>4, <2>1, <2>2 DEF Commit
<1>5. ASSUME NEW t \in Thread, Lose(t) PROVE NaiveInv'
  BY <1>0, <1>5 DEF Lose, First
<1>6. ASSUME NEW t \in Thread, Fail(t) PROVE FALSE
  BY <1>6 DEF Fail
<1>7. CASE UNCHANGED vars
  BY <1>7 DEF vars
<1>8. QED
  BY <1>1, <1>2, <1>3, <1>4, <1>5, <1>6, <1>7 DEF Next, Step

\* The last commit of all is not the first of its thread.
LEMMA NextLosses ==
    ASSUME TypeOK, LeftInv, NaiveInv, ValueInv, ValueInv', NaiveLosses, [Next]_vars
    PROVE  NaiveLosses'
<1> SUFFICES ASSUME Finished', errors' = 0, strategy' = "naive",
                    Increments > 1, Cardinality(Thread) > 1
             PROVE  (counter.value > 1)'
  BY DEF NaiveLosses, ValueInv
<1>0. strategy = "naive" /\ Increments \in Nat
  BY StrategyStays, TxCounterAssumption DEF TxCounterAssumption
<1>1. ASSUME NEW t \in Thread, Begin(t) \/ Read(t) \/ Update(t) \/ Lose(t) PROVE FALSE
  BY <1>1, FirstType DEF Begin, Read, Update, Lose, Finished, TypeOK
<1>2. ASSUME NEW t \in Thread, Commit(t) PROVE (counter.value > 1)'
  <2>1. left[t] = 1 /\ counter'.value = out[t] /\ errors = 0
    BY <1>2, FirstType DEF Commit, NextRequest, Finished, TypeOK
  <2>2. QED
    BY <1>0, <1>2, <2>1 DEF Commit, NaiveInv, TypeOK
<1>3. ASSUME NEW t \in Thread, Fail(t) PROVE FALSE
  BY <1>3 DEF Fail, TypeOK
<1>4. CASE UNCHANGED vars
  BY <1>4 DEF vars, NaiveLosses, Finished
<1>5. QED
  BY <1>1, <1>2, <1>3, <1>4 DEF Next, Step

LEMMA InitNaive == Init => ValueInv /\ NaiveInv /\ NaiveLosses
<1> SUFFICES ASSUME Init PROVE ValueInv /\ NaiveInv /\ NaiveLosses
  OBVIOUS
<1>1. ValueInv /\ NaiveInv
  BY TxCounterAssumption, FirstType DEF Init, ValueInv, NaiveInv, First, TxCounterAssumption
<1>2. Cardinality(Thread) > 1 => ~Finished
  <2>1. Thread = {} => Cardinality(Thread) = 0
    BY FS_EmptySet
  <2>2. Thread # {} => ~Finished
    BY FirstType DEF Init, Finished
  <2>3. QED
    BY <2>1, <2>2
<1>3. QED
  BY <1>1, <1>2 DEF ValueInv, NaiveLosses

\* When everyone is done, whatever the four transactional strategies did not
\* count they have reported; the naive one counts nothing twice, and of two
\* threads or more that meet no error it never leaves less than two.
THEOREM LossesAnnounced == Spec => []LossesAreAnnounced
<1> DEFINE Inv == /\ TypeOK /\ LeftInv /\ SoundInv /\ RequestsInv
                  /\ ValueInv /\ NaiveInv /\ NaiveLosses
<1>1. Init => Inv
  BY InitSound, InitRequests, InitNaive
<1>2. Inv /\ [Next]_vars => Inv'
  BY NextSound, NextRequests, NextValue, NextNaive, NextLosses
<1>3. Inv => LossesAreAnnounced
  <2> SUFFICES ASSUME Inv, Finished, strategy # "naive"
               PROVE  counter.value + errors = Requests
    BY DEF LossesAreAnnounced, EveryLossAnnounced
  <2>1. \A t \in Thread : left[t] = 0
    BY DEF Finished, RequestsInv
  <2>2. Owed = {}
    BY <2>1 DEF Owed
  <2>3. Cardinality(Owed) = 0
    BY <2>2, FS_EmptySet
  <2>4. QED
    BY <2>3 DEF RequestsInv, SoundInv, CountInv, TypeOK
<1>4. QED
  BY <1>1, <1>2, <1>3, PTL DEF Spec

-----------------------------------------------------------------------------
(***************************************************************************)
(* The counter beside the parts of StoreProofs                             *)
(***************************************************************************)

\* Whichever part runs, each part starts and moves as it does alone.
LEMMA LabParts ==
    /\ LabInit => /\ Init /\ TxbInit /\ CacheInit /\ BlobInit /\ WMInit /\ MigInit /\ IndexInit
    /\ [LabNext]_labVars => /\ [Next]_vars /\ [TxbNext]_txbVars /\ [CacheNext]_cacheVars
                            /\ [BlobNext]_blobVars /\ [WMNext]_wmVars /\ [MigNext]_migVars
                            /\ [IndexNext]_indexVars
<1>1. UNCHANGED labVars => UNCHANGED <<vars, txbVars, cacheVars, blobVars, wmVars, migVars, indexVars>>
  BY DEF labVars
<1>2. QED
  BY <1>1 DEF LabInit, LabNext

\* The variables of every part keep their types.
THEOREM StoreTypes == LabSpec => []LabTypeOK
<1>1. TypeOK /\ LeftInv /\ [Next]_vars => (TypeOK /\ LeftInv)'
  BY NextType
<1>2. LabInit => /\ TypeOK /\ LeftInv /\ BoundaryInv /\ CacheInv /\ BlobInv
                 /\ KeysInv /\ WMInv /\ MigInv /\ FreshInv
  BY LabParts, InitType, InitBoundaryInv, InitCacheInv, InitKeys, InitBlobInv, InitWM, InitMigInv, InitFresh,
     BoundaryAssumption, CacheAssumption, BlobAssumption
<1>3. BoundaryInv /\ [TxbNext]_txbVars => BoundaryInv'
  BY NextBoundaryInv, BoundaryAssumption
<1>4. CacheInv /\ KeysInv /\ [CacheNext]_cacheVars => (CacheInv /\ KeysInv)'
  BY NextCacheInv, NextKeys, CacheAssumption DEF CacheInv
<1>5. BlobInv /\ [BlobNext]_blobVars => BlobInv'
  BY NextBlobInv, BlobAssumption
<1>6. MigInv /\ [MigNext]_migVars => MigInv'
  BY NextMigInv, MigrationAssumption
<1>7. WMInv /\ [WMNext]_wmVars => WMInv'
  BY NextWM
<1>8. FreshInv /\ [IndexNext]_indexVars => FreshInv'
  BY NextFresh
<1>9. /\ TypeOK /\ BoundaryInv /\ CacheInv /\ KeysInv /\ BlobInv /\ WMInv /\ MigInv /\ FreshInv
       => LabTypeOK
  BY DEF BoundaryInv, CacheInv, CacheShape, CacheTypeOK, KeysInv,
         BlobInv, WMInv, MigInv, FreshInv, LabTypeOK
<1>10. QED
  BY <1>1, <1>2, <1>3, <1>4, <1>5, <1>6, <1>7, <1>8, <1>9, LabParts, PTL DEF LabSpec
=============================================================================
