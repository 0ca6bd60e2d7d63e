--------------------------- MODULE ResponseCache ---------------------------
(***************************************************************************)
(* Cache of service-lab/cache_lab.py: bounded, TTL, LRU or cost-aware      *)
(* eviction, optionally one load at a time per key, beside writers that    *)
(* change the source and then call invalidate().                           *)
(*                                                                         *)
(* A block under self.lock is one step.  The loader runs outside it: when  *)
(* it starts, when it reads the source and when put() stores the result    *)
(* are three steps.  A value is the version of the source it was read at.  *)
(***************************************************************************)
EXTENDS Naturals, Sequences, SequencesExt

CONSTANTS
    CacheKey, Caller,
    Capacity, Ttl,
    MaxVersion,     \* bound: corrections of a source
    Nobody          \* the per-key lock is free

ASSUME CacheAssumption ==
    /\ Capacity \in Nat \ {0} /\ Ttl \in Nat \ {0} /\ MaxVersion \in Nat
    /\ Nobody \notin Caller

VARIABLES
    single_flight,  \* how the cache was made
    source,     \* the version of each document
    data,       \* the entries: value, age, and whether an invalidation passed it by
    order,      \* least recently used first
    keylock,    \* who holds the lock of each key
    caller,     \* what each thread is doing, for which key
    due,        \* keys whose writer has not yet called invalidate()
    calls       \* history: loads of a key since it was last fresh

cacheVars == <<single_flight, source, data, order, keylock, caller, due, calls>>

Entry == [value : 0..MaxVersion, age : 0..Ttl, overtaken : BOOLEAN]

Request == [at : {"wait", "load", "put"}, key : CacheKey,
            value : 0..MaxVersion, overtaken : BOOLEAN]
Idle == [at |-> "idle"]

CacheTypeOK ==
    /\ single_flight \in BOOLEAN
    /\ source \in [CacheKey -> 0..MaxVersion]
    /\ DOMAIN data \subseteq CacheKey /\ \A k \in DOMAIN data : data[k] \in Entry
    /\ IsInjective(order) /\ Range(order) = DOMAIN data /\ Len(order) <= Capacity
    /\ keylock \in [CacheKey -> Caller \cup {Nobody}]
    /\ caller \in [Caller -> Request \cup {Idle}]
    /\ due \subseteq CacheKey
    /\ calls \in [CacheKey -> Nat]

CacheInit ==
    /\ single_flight \in BOOLEAN
    /\ source = [k \in CacheKey |-> 0]
    /\ data = <<>>
    /\ order = <<>>
    /\ keylock = [k \in CacheKey |-> Nobody]
    /\ caller = [c \in Caller |-> Idle]
    /\ due = {}
    /\ calls = [k \in CacheKey |-> 0]

Fresh(k) == k \in DOMAIN data /\ data[k].age < Ttl

Kept(keys) == [k \in keys |-> data[k]]

Place(k) == CHOOSE i \in DOMAIN order : order[i] = k

\* order.remove(key), if it is there
Without(k) == IF k \in Range(order) THEN RemoveAt(order, Place(k)) ELSE order

\* ... and order.append(key)
MostRecent(k) == Append(Without(k), k)

\* a key that stops being fresh may be loaded once more
Reset(keys) == calls' = [k \in CacheKey |-> IF k \in keys THEN 0 ELSE calls[k]]

Loads(c) == caller' = [caller EXCEPT ![c].at = "load"]

Returns(c) == caller' = [caller EXCEPT ![c] = Idle]

-----------------------------------------------------------------------------
\* get_or_load: the first look
Hit(c, k) ==
    /\ caller[c].at = "idle" /\ Fresh(k)
    /\ order' = MostRecent(k)
    /\ UNCHANGED <<single_flight, source, data, keylock, caller, due, calls>>

Miss(c, k) ==
    /\ caller[c].at = "idle" /\ ~Fresh(k)
    /\ caller' = [caller EXCEPT ![c] =
                    [at |-> IF single_flight THEN "wait" ELSE "load",
                     key |-> k, value |-> 0, overtaken |-> FALSE]]
    /\ calls' = [calls EXCEPT ![k] = IF single_flight THEN @ ELSE @ + 1]
    /\ UNCHANGED <<single_flight, source, data, order, keylock, due>>

\* a waiter that loads as soon as it has the lock
Acquire_NoRecheck(c) ==
    LET k == caller[c].key IN
    /\ caller[c].at = "wait" /\ keylock[k] = Nobody
    /\ keylock' = [keylock EXCEPT ![k] = c]
    /\ calls' = [calls EXCEPT ![k] = @ + 1]
    /\ Loads(c)
    /\ UNCHANGED <<single_flight, source, data, order, due>>

\* with kl: re-check, then load
Acquire(c) ==
    LET k == caller[c].key IN
    /\ caller[c].at = "wait" /\ keylock[k] = Nobody
    /\ \/ /\ Fresh(k)
          /\ Returns(c)
          /\ UNCHANGED <<keylock, calls>>
       \/ /\ ~Fresh(k)
          /\ keylock' = [keylock EXCEPT ![k] = c]
          /\ calls' = [calls EXCEPT ![k] = @ + 1]
          /\ Loads(c)
    /\ UNCHANGED <<single_flight, source, data, order, due>>

\* the loader reads the source
Load(c) ==
    /\ caller[c].at = "load"
    /\ caller' = [caller EXCEPT ![c].at = "put", ![c].value = source[caller[c].key]]
    /\ UNCHANGED <<single_flight, source, data, order, keylock, due, calls>>

Release(c) ==
    keylock' = [k \in CacheKey |-> IF keylock[k] = c THEN Nobody ELSE keylock[k]]

\* the loader raises: the with statement gives the lock back
LoadFails(c) ==
    /\ caller[c].at = "load"
    /\ Release(c)
    /\ Reset({caller[c].key})
    /\ Returns(c)
    /\ UNCHANGED <<single_flight, source, data, order, due>>

\* put(): store, make the key the most recent, and while the list is too long
\* evict: LRU drops the first, cost-aware eviction the cheapest of the less
\* recently used half
Put(c) ==
    LET k == caller[c].key
        keys == MostRecent(k)
        new == [value |-> caller[c].value, age |-> 0, overtaken |-> caller[c].overtaken]
        all == [j \in DOMAIN data \cup {k} |-> IF j = k THEN new ELSE data[j]]
        Keep(gone) ==
            /\ data' = [j \in DOMAIN all \ gone |-> all[j]]
            /\ Reset(gone)
    IN  /\ caller[c].at = "put"
        /\ \/ Len(keys) <= Capacity /\ Keep({}) /\ order' = keys
           \/ /\ Len(keys) > Capacity
              /\ \E i \in 1..Len(keys) \div 2 : Keep({keys[i]}) /\ order' = RemoveAt(keys, i)
        /\ Release(c)
        /\ Returns(c)
        /\ UNCHANGED <<single_flight, source, due>>

\* a document is corrected ...
Correct(k) ==
    /\ k \notin due /\ source[k] < MaxVersion
    /\ source' = [source EXCEPT ![k] = @ + 1]
    /\ due' = due \cup {k}
    /\ UNCHANGED <<single_flight, data, order, keylock, caller, calls>>

\* ... by a writer that forgets the cache
Invalidate_Forgotten(k) ==
    /\ k \in due
    /\ due' = due \ {k}
    /\ UNCHANGED <<single_flight, source, data, order, keylock, caller, calls>>

\* ... and the writer calls invalidate()
Invalidate(k) ==
    /\ k \in due
    /\ due' = due \ {k}
    /\ data' = Kept(DOMAIN data \ {k})
    /\ order' = Without(k)
    /\ caller' = [c \in Caller |->
                    IF caller[c].at = "put" /\ caller[c].key = k
                    THEN [caller[c] EXCEPT !.overtaken = TRUE] ELSE caller[c]]
    /\ IF Fresh(k) THEN Reset({k}) ELSE UNCHANGED calls
    /\ UNCHANGED <<single_flight, source, keylock>>

\* time.time()
Age ==
    LET older == [k \in DOMAIN data |->
                    [data[k] EXCEPT !.age = IF @ < Ttl THEN @ + 1 ELSE @]]
    IN  /\ data' = older
        /\ Reset({k \in DOMAIN data : Fresh(k) /\ older[k].age = Ttl})
        /\ UNCHANGED <<single_flight, source, order, keylock, caller, due>>

CacheNext ==
    \/ \E c \in Caller :
        \/ \E k \in CacheKey : Hit(c, k) \/ Miss(c, k)
        \/ Acquire(c) \/ Load(c) \/ LoadFails(c) \/ Put(c)
    \/ \E k \in CacheKey : Correct(k) \/ Invalidate(k)
    \/ Age

CacheSpec == CacheInit /\ [][CacheNext]_cacheVars

-----------------------------------------------------------------------------
(***************************************************************************)
(* Properties                                                              *)
(***************************************************************************)

\* With single flight an expiry, an eviction or an invalidation costs one
\* provider call, however many callers notice it at once: the re-check after
\* the per-key lock is what a stampede is eliminated by.
OneLoadPerExpiry == single_flight => \A k \in CacheKey : calls[k] <= 1

\* "0 if every writer remembers", with the exception the table leaves out: an
\* entry older than its source is about to be invalidated, or was put back by
\* a load that had read the source before the invalidation ran.
StaleEntryWasOvertaken ==
    \A k \in DOMAIN data : data[k].value < source[k] => k \in due \/ data[k].overtaken

\* A cached answer is loaded once per expiry, and is only out of date if a write
\* overtook its load.
CacheIsSound == OneLoadPerExpiry /\ StaleEntryWasOvertaken
=============================================================================
