--------------------------- MODULE OverloadProofs ---------------------------
(***************************************************************************)
(* What labs 23, 36 and 37 and the capstone do when there is too much to   *)
(* do, for every size: the circuit breaker, the rate limiters, the bounded *)
(* queue, the connection pool, and the breaker with the timeouts and       *)
(* retries of lab 37 around it.                                            *)
(*                                                                         *)
(* The breaker.  ProbeExclusive is inductive only together with the types; *)
(* HalfOpenHasProbe needs ProbeExclusive, since a rejected caller may move *)
(* an OPEN breaker whose probe is still pending to HALF_OPEN;              *)
(* ClosedBelowThreshold needs the threshold to be positive.  The type of   *)
(* the Boolean flag is an invariant by itself and is kept apart from the   *)
(* arithmetic.                                                             *)
(*                                                                         *)
(* The queue.  The counter follows the jobs because the transaction that   *)
(* changes it holds its row until the job's own change commits             *)
(* (CounterIsLocked), and because no job has two live workers              *)
(* (OneWorkerPerJob).                                                      *)
(*                                                                         *)
(* The pool.  A backend serves one client at a time (OwnBackends), so      *)
(* where a connection keeps its backend it finds its own session state     *)
(* there (MarksBelong); the server turns a client away only when others    *)
(* hold every backend, which takes more clients than backends              *)
(* (RejectedMeansMany).                                                    *)
(*                                                                         *)
(* The limiters.  In order, what the bucket holds and what was admitted    *)
(* since any moment stay within capacity and refill (LeftIsWithinBudget),  *)
(* and since some moment they make it up exactly (MissingWasAdmitted):     *)
(* nobody is refused for nothing.  That a key may expire needs             *)
(* LimitAssumption.  The window's entries are the requests admitted in it, *)
(* and the key outlives them (WindowInv).  Both are sums over ticks, by    *)
(* the lemmas of Sums.tla.                                                 *)
(*                                                                         *)
(* The retries.  A caller of lab 37 enters and leaves the breaker only     *)
(* through execute(), so the breaker under the retries is the one above    *)
(* (RetriesUseTheBreaker).  What a script announces at its end is not      *)
(* inductive: ExerciseStands says, position by position, how the           *)
(* downstream is, what may be on the wire, what the breaker counted and    *)
(* which outcomes there are, for every threshold and cooldown.  A position *)
(* costs at most its attempts (CostIsBounded); the storm's cost is the sum *)
(* of its callers' (StormStands).  The one caller of a guarded script is   *)
(* in the breaker exactly while its request is under way (BreakerFollows). *)
(***************************************************************************)
EXTENDS CircuitBreaker, RateLimit, BoundedQueue, Pooling, Retries, Sums, SequenceTheorems

-----------------------------------------------------------------------------
(* The circuit breaker. *)

BreakerInv ==
    /\ state \in CircuitState
    /\ consecutiveFailures \in Nat
    /\ sinceOpened \in 0 .. CooldownMs
    /\ call \in [Callers -> {"idle", "call", "probe"}]
    /\ ProbeExclusive
    /\ ClosedBelowThreshold
    /\ HalfOpenHasProbe

\* A fresh breaker satisfies the invariant.
LEMMA BreakerInitInv == BreakerInit => BreakerInv
  BY BreakerAssumption
     DEF BreakerAssumption, BreakerInit, BreakerInv, ProbeExclusive,
         ClosedBelowThreshold, HalfOpenHasProbe, CircuitState

\* Every entry into execute(), every settlement and every clock tick keeps it.
LEMMA BreakerStepInv == BreakerInv /\ [BreakerNext]_breakerVars => BreakerInv'
  <1> SUFFICES ASSUME BreakerInv, [BreakerNext]_breakerVars
               PROVE  BreakerInv'
    OBVIOUS
  <1> USE BreakerAssumption
      DEF BreakerAssumption, BreakerInv, ProbeExclusive,
          ClosedBelowThreshold, HalfOpenHasProbe, CircuitState
  <1>1. ASSUME NEW c \in Callers, Reject(c) PROVE BreakerInv'
    BY <1>1 DEF Reject, EntryState
  <1>2. ASSUME NEW c \in Callers, StartProbe(c) PROVE BreakerInv'
    BY <1>2 DEF StartProbe, EntryState
  <1>3. ASSUME NEW c \in Callers, StartCall(c) PROVE BreakerInv'
    BY <1>3 DEF StartCall, EntryState
  <1>4. ASSUME NEW c \in Callers, ProbeSucceeds(c) PROVE BreakerInv'
    BY <1>4 DEF ProbeSucceeds
  <1>5. ASSUME NEW c \in Callers, ProbeFails(c) PROVE BreakerInv'
    BY <1>5 DEF ProbeFails
  <1>6. ASSUME NEW c \in Callers, CallSucceeds(c) PROVE BreakerInv'
    BY <1>6 DEF CallSucceeds
  <1>7. ASSUME NEW c \in Callers, CallFails(c) PROVE BreakerInv'
    BY <1>7 DEF CallFails
  <1>8. CASE Tick
    BY <1>8 DEF Tick
  <1>9. CASE UNCHANGED breakerVars
    BY <1>9 DEF breakerVars
  <1> QED
    BY <1>1, <1>2, <1>3, <1>4, <1>5, <1>6, <1>7, <1>8, <1>9
       DEF BreakerNext, Enter, Settle

\* The invariant holds throughout.
LEMMA BreakerInvariant == BreakerSpec => []BreakerInv
  BY BreakerInitInv, BreakerStepInv, PTL DEF BreakerSpec

\* The probe flag is only ever assigned a Boolean.
LEMMA BreakerFlagType == BreakerSpec => [](halfOpenProbeInFlight \in BOOLEAN)
  <1> DEFINE Flag == halfOpenProbeInFlight \in BOOLEAN
  <1>1. BreakerInit => Flag
    BY Zenon DEF BreakerInit
  <1>2. Flag /\ [BreakerNext]_breakerVars => Flag'
    BY Zenon DEF BreakerNext, breakerVars, Enter, Settle, Reject, StartProbe,
                 StartCall, ProbeSucceeds, ProbeFails, CallSucceeds, CallFails,
                 Tick
  <1> QED
    BY <1>1, <1>2, PTL DEF BreakerSpec

\* The breaker's fields stay in their types.
THEOREM BreakerTypeCorrect == BreakerSpec => []BreakerTypeOK
  <1>1. BreakerInv /\ halfOpenProbeInFlight \in BOOLEAN => BreakerTypeOK
    BY Zenon DEF BreakerInv, BreakerTypeOK
  <1> QED
    BY <1>1, BreakerInvariant, BreakerFlagType, PTL

\* At most one HALF_OPEN probe is pending, and the flag says exactly whether
\* one is, for any number of concurrent callers of execute().
THEOREM BreakerProbeExclusive == BreakerSpec => []ProbeExclusive
  BY BreakerInvariant, PTL DEF BreakerInv

\* After closing, the breaker starts from a count below the threshold.
THEOREM BreakerClosedBelowThreshold == BreakerSpec => []ClosedBelowThreshold
  BY BreakerInvariant, PTL DEF BreakerInv

\* A HALF_OPEN breaker is always waiting for somebody's probe.
THEOREM BreakerHalfOpenHasProbe == BreakerSpec => []HalfOpenHasProbe
  BY BreakerInvariant, PTL DEF BreakerInv

\* The three together: what the run checks for four callers holds for any
\* number of them.
THEOREM BreakerIsSafe == BreakerSpec => []BreakerSafe
  <1>1. BreakerInv => BreakerSafe
    BY DEF BreakerInv, BreakerSafe
  <1> QED
    BY <1>1, BreakerInvariant, PTL

-----------------------------------------------------------------------------
(* The bounded queue. *)

\* What the rows and the program counters may hold.
BoundedTypes ==
    /\ job \in [Submissions -> {"none", "pending", "processing", "completed"}]
    /\ pendingCount \in Nat
    /\ submission \in [Submissions -> {"called", "counted", "inserted", "accepted", "rejected", "failed"}]
    /\ worker \in [QueueWorkers -> {"polling", "selected", "claimed", "marked", "discounted", "returned", "dead"}]
    /\ work \in [QueueWorkers -> Submissions \cup {Nobody}]

\* The transaction that has changed the counter holds its row until it ends;
\* the free slot an enqueue() has counted stays free, and its job is not there
\* before it commits.
CounterIsLocked ==
    /\ \A s \in Submissions :
          /\ submission[s] \in {"counted", "inserted"} => countLock = s /\ pendingCount < QueueCapacity
          /\ submission[s] \in {"called", "counted", "inserted", "rejected"} => job[s] = "none"
    /\ \A w \in QueueWorkers : worker[w] = "discounted" => countLock = w

\* A job has at most one live worker, and is as far as that worker.
OneWorkerPerJob ==
    /\ \A w \in QueueWorkers :
          /\ worker[w] = "selected" => work[w] \in Submissions /\ job[work[w]] = "pending"
          /\ worker[w] \in {"claimed", "marked", "discounted"} =>
                work[w] \in Submissions /\ job[work[w]] = "processing"
    /\ \A v, w \in QueueWorkers :
          v # w /\ {worker[v], worker[w]} \subseteq {"selected", "claimed", "marked", "discounted"} =>
              work[v] # work[w]

BoundedInv == BoundedTypes /\ CounterIsLocked /\ OneWorkerPerJob /\ CounterIsTheQueue

\* The jobs that are not completed are among finitely many submissions.
LEMMA UnfinishedFinite == IsFiniteSet(Unfinished) /\ Cardinality(Unfinished) \in Nat
  BY BoundedAssumption, FS_Subset, FS_CardinalityType DEF BoundedAssumption, Unfinished

\* An empty queue and a counter at zero.
LEMMA BoundedInitInv == BoundedInit => BoundedInv
  <1> SUFFICES ASSUME BoundedInit PROVE BoundedInv
    OBVIOUS
  <1>1. Unfinished = {}
    BY DEF BoundedInit, Unfinished
  <1>2. CounterIsTheQueue
    BY <1>1, FS_EmptySet, BoundedAssumption DEF BoundedInit, CounterIsTheQueue, BoundedAssumption
  <1> QED
    BY <1>2, BoundedAssumption DEF BoundedAssumption, BoundedInit, BoundedInv, BoundedTypes, CounterIsLocked, OneWorkerPerJob

\* A job that is inserted is one more, whoever hears of it.
LEMMA EnqueueStepInv ==
    ASSUME BoundedInv, NEW s \in Submissions, Enqueue(s) \/ EnqueueFails(s) PROVE BoundedInv'
  <1> USE BoundedAssumption DEF BoundedAssumption, BoundedTypes
  <1>0. BoundedTypes /\ CounterIsLocked /\ OneWorkerPerJob /\ CounterIsTheQueue
    BY DEF BoundedInv
  <1>1. CASE Count(s) \/ RejectFull(s) \/ InsertJob(s) \/ EnqueueFails(s)
    <2>1. BoundedTypes' /\ UNCHANGED <<job, pendingCount, worker, work>>
      BY <1>0, <1>1 DEF Count, RejectFull, InsertJob, EnqueueFails
    <2>2. CounterIsLocked'
      BY <1>0, <1>1, <2>1 DEF Count, RejectFull, InsertJob, EnqueueFails, CounterIsLocked, Unlock
    <2>3. OneWorkerPerJob' /\ CounterIsTheQueue'
      BY <1>0, <2>1 DEF OneWorkerPerJob, CounterIsTheQueue, Unfinished
    <2> QED
      BY <2>1, <2>2, <2>3 DEF BoundedInv
  <1>2. ASSUME NEW answered \in BOOLEAN, CommitEnqueue(s, answered) PROVE BoundedInv'
    <2> USE <1>2 DEF CommitEnqueue
    <2>1. BoundedTypes'
      BY <1>0
    <2>2. CounterIsLocked'
      BY <1>0, <2>1 DEF CounterIsLocked, Unlock
    <2>3. OneWorkerPerJob'
      BY <1>0, <2>1 DEF OneWorkerPerJob, CounterIsLocked
    <2>4. s \notin Unfinished /\ Unfinished' = Unfinished \cup {s}
      BY <1>0 DEF Unfinished, CounterIsLocked
    <2>5. Cardinality(Unfinished') = Cardinality(Unfinished) + 1
      BY <2>4, UnfinishedFinite, FS_AddElement
    <2>6. CounterIsTheQueue'
      BY <1>0, <2>5 DEF CounterIsTheQueue, CounterIsLocked
    <2> QED
      BY <2>1, <2>2, <2>3, <2>6 DEF BoundedInv
  <1> QED
    BY <1>1, <1>2 DEF Enqueue

\* A job that is completed is one less, in the transaction that lowers the
\* counter.
LEMMA WorkStepInv ==
    ASSUME BoundedInv, NEW w \in QueueWorkers, Work(w) \/ WorkerFails(w) PROVE BoundedInv'
  <1> USE BoundedAssumption DEF BoundedAssumption, BoundedTypes
  <1>0. BoundedTypes /\ CounterIsLocked /\ OneWorkerPerJob /\ CounterIsTheQueue
    BY DEF BoundedInv
  <1>1. CASE ReturnWhenEmpty(w) \/ MarkCompleted(w) \/ Discount(w) \/ WorkerFails(w)
    <2>1. BoundedTypes' /\ UNCHANGED <<job, pendingCount, submission, work>>
      BY <1>0, <1>1 DEF ReturnWhenEmpty, MarkCompleted, Discount, WorkerFails
    <2>2. CounterIsLocked'
      BY <1>0, <1>1, <2>1 DEF ReturnWhenEmpty, MarkCompleted, Discount, WorkerFails, CounterIsLocked, Unlock
    <2>3. OneWorkerPerJob'
      BY <1>0, <1>1, <2>1 DEF ReturnWhenEmpty, MarkCompleted, Discount, WorkerFails, OneWorkerPerJob
    <2>4. CounterIsTheQueue'
      BY <1>0, <2>1 DEF CounterIsTheQueue, Unfinished
    <2> QED
      BY <2>1, <2>2, <2>3, <2>4 DEF BoundedInv
  <1>2. ASSUME NEW j \in Submissions, SelectJob(w, j) PROVE BoundedInv'
    <2> USE <1>2 DEF SelectJob
    <2>1. BoundedTypes'
      BY <1>0
    <2>2. CounterIsLocked' /\ CounterIsTheQueue'
      BY <1>0, <2>1 DEF CounterIsLocked, CounterIsTheQueue, Unfinished
    <2>3. OneWorkerPerJob'
      BY <1>0, <2>1 DEF OneWorkerPerJob, Claimable
    <2> QED
      BY <2>1, <2>2, <2>3 DEF BoundedInv
  <1>3. ASSUME NEW answered \in BOOLEAN, CommitClaim(w, answered) PROVE BoundedInv'
    <2> USE <1>3 DEF CommitClaim
    <2>1. BoundedTypes' /\ work[w] \in Submissions /\ job[work[w]] = "pending"
      BY <1>0 DEF OneWorkerPerJob
    <2>2. CounterIsLocked'
      BY <1>0, <2>1 DEF CounterIsLocked
    <2>3. OneWorkerPerJob'
      BY <1>0, <2>1 DEF OneWorkerPerJob
    <2>4. Unfinished' = Unfinished
      BY <1>0, <2>1 DEF Unfinished
    <2>5. CounterIsTheQueue'
      BY <1>0, <2>4 DEF CounterIsTheQueue
    <2> QED
      BY <2>1, <2>2, <2>3, <2>5 DEF BoundedInv
  <1>4. ASSUME NEW answered \in BOOLEAN, CommitComplete(w, answered) PROVE BoundedInv'
    <2> USE <1>4 DEF CommitComplete
    <2>1. work[w] \in Submissions /\ job[work[w]] = "processing" /\ countLock = w
      BY <1>0 DEF OneWorkerPerJob, CounterIsLocked
    <2>2. Unfinished' = Unfinished \ {work[w]} /\ work[w] \in Unfinished
      BY <1>0, <2>1 DEF Unfinished
    <2>3. Cardinality(Unfinished') = Cardinality(Unfinished) - 1 /\ Cardinality(Unfinished) > 0
      <3>1. Cardinality(Unfinished \ {work[w]}) = Cardinality(Unfinished) - 1
        BY <2>2, UnfinishedFinite, FS_RemoveElement
      <3>2. Cardinality(Unfinished) # 0
        BY <2>2, UnfinishedFinite, FS_EmptySet
      <3> QED
        BY <2>2, <3>1, <3>2, UnfinishedFinite
    <2>4. BoundedTypes' /\ CounterIsTheQueue'
      BY <1>0, <2>1, <2>3 DEF CounterIsTheQueue
    <2>5. CounterIsLocked'
      BY <1>0, <2>1, <2>4 DEF CounterIsLocked, Unlock
    <2>6. OneWorkerPerJob'
      BY <1>0, <2>1, <2>4 DEF OneWorkerPerJob
    <2> QED
      BY <2>4, <2>5, <2>6 DEF BoundedInv
  <1> QED
    BY <1>1, <1>2, <1>3, <1>4 DEF Work

\* However enqueue() and the workers interleave, throw or die, the counter that
\* decides who is turned away is the number of unfinished jobs, and never more
\* than the capacity.
THEOREM CounterIsTheQueueAlways == BoundedSpec => []CounterIsTheQueue
  <1>1. BoundedInv /\ [BoundedNext]_boundedVars => BoundedInv'
    <2> SUFFICES ASSUME BoundedInv, [BoundedNext]_boundedVars PROVE BoundedInv'
      OBVIOUS
    <2>1. CASE RequestStop \/ UNCHANGED boundedVars
      BY <2>1 DEF RequestStop, boundedVars, BoundedInv, BoundedTypes, CounterIsLocked, OneWorkerPerJob,
                  CounterIsTheQueue, Unfinished
    <2> QED
      BY <2>1, EnqueueStepInv, WorkStepInv DEF BoundedNext
  <1>2. BoundedInv => CounterIsTheQueue
    BY DEF BoundedInv
  <1> QED
    BY BoundedInitInv, <1>1, <1>2, PTL DEF BoundedSpec

-----------------------------------------------------------------------------
(* The connection pool. *)

\* What the admin console, the server and the clients of the pool may hold.
PoolTypes ==
    /\ poolMode \in {"direct", "session", "transaction", "tuning"}
    /\ poolSize \in {OriginalPoolSize, SmallPoolSize, LargePoolSize}
    /\ paused \in BOOLEAN
    /\ opened \subseteq Backends
    /\ client \in [PoolClients -> [pc : {"start", "idle", "busy", "ended", "rejected"},
                                   backend : Backends \cup {NoBackend}, left : 0 .. 2, kept : BOOLEAN]]
    /\ marks \in [Backends -> SUBSET PoolClients]
    /\ tuner \in {"off", "set_small", "kill_small", "resume_small", "burst_small", "set_large",
                  "kill_large", "resume_large", "burst_large", "set_original", "kill_original",
                  "resume_original", "done", "set_threw", "kill_threw", "resume_threw"}

\* No two clients run on one backend; who is not connected has none, who runs
\* a statement has one, and a connection of its own is kept between statements.
OwnBackends ==
    /\ \A c \in PoolClients :
          /\ client[c].backend # NoBackend => client[c].backend \in opened
          /\ client[c].pc \in {"start", "ended", "rejected"} => client[c].backend = NoBackend
          /\ ClientAt(c, "busy") => client[c].backend # NoBackend /\ client[c].left > 0
          /\ ClientAt(c, "start") => client[c].left = 2
          /\ KeepsBackend /\ ClientAt(c, "idle") /\ client[c].left < 2 => client[c].backend # NoBackend
    /\ \A c, d \in PoolClients :
          c # d /\ client[c].backend = client[d].backend => client[c].backend = NoBackend
    /\ poolMode = "direct" =>
          /\ \A c \in PoolClients : ClientAt(c, "idle") => client[c].backend # NoBackend
          /\ opened \subseteq Serving

\* Where a connection keeps its backend, a backend carries the state of the
\* client that is on it and of nobody else.
MarksBelong ==
    KeepsBackend =>
        /\ \A b \in Backends : \A c \in marks[b] : client[c].backend = b
        /\ \A c \in PoolClients :
              client[c].pc \in {"idle", "busy"} /\ client[c].left = 1 => c \in marks[client[c].backend]
        /\ \A c \in PoolClients : client[c].kept

\* The tuning script only works on the pool while no client is connected.
TunerAlone ==
    /\ poolMode = "tuning" <=> tuner # "off"
    /\ ~Bursting => \A c \in PoolClients : client[c].pc \in {"start", "ended"}
    /\ tuner \in {"resume_small", "resume_large", "resume_original", "done"} => opened = {}
    /\ tuner \in {"off", "kill_original", "resume_original", "done"} => poolSize = OriginalPoolSize
    /\ tuner \in {"off", "done"} => ~paused
    /\ \A c \in PoolClients : ClientAt(c, "rejected") => poolMode = "direct"

PoolingInv == PoolTypes /\ OwnBackends /\ MarksBelong /\ TunerAlone /\ PoolWithinSize

\* The server has finitely many connections to give.
LEMMA OpenedFinite ==
    ASSUME opened \subseteq Backends PROVE IsFiniteSet(opened) /\ Cardinality(opened) \in Nat
  BY PoolSizes, FS_Subset, FS_CardinalityType DEF PoolSizes

\* Nobody is connected at first, and nothing has been tuned.
LEMMA PoolingInitInv == PoolingInit => PoolingInv
  <1> SUFFICES ASSUME PoolingInit PROVE PoolingInv
    OBVIOUS
  <1> USE PoolSizes DEF PoolSizes, PoolingInit, NewClient, ClientAt
  <1>1. opened \subseteq Backends /\ Cardinality(opened) <= OriginalPoolSize
        /\ (poolMode = "direct" => opened = {})
    <2>1. opened \subseteq Backends /\ Cardinality(opened) <= IF poolMode = "direct" THEN 0 ELSE OriginalPoolSize
      OBVIOUS
    <2>2. Cardinality(opened) = 0 => opened = {}
      BY <2>1, OpenedFinite, FS_EmptySet
    <2> QED
      BY <2>1, <2>2, OpenedFinite
  <1>2. PoolTypes
    <2>1. /\ poolMode \in {"direct", "session", "transaction", "tuning"} /\ poolSize = OriginalPoolSize
          /\ paused = FALSE /\ marks \in [Backends -> SUBSET PoolClients] /\ tuner \in {"off", "set_small"}
      OBVIOUS
    <2>2. client \in [PoolClients -> [pc : {"start", "idle", "busy", "ended", "rejected"},
                                     backend : Backends \cup {NoBackend}, left : 0 .. 2, kept : BOOLEAN]]
      OBVIOUS
    <2> QED
      BY <1>1, <2>1, <2>2 DEF PoolTypes
  <1>3. OwnBackends /\ MarksBelong
    BY <1>1, <1>2 DEF OwnBackends, MarksBelong
  <1>4. TunerAlone
    BY <1>1, <1>2 DEF TunerAlone, Bursting
  <1>5. PoolWithinSize
    BY <1>1, OpenedFinite, FS_EmptySet
       DEF PoolWithinSize, PoolLeft, tooManyClientsAlready, peakConcurrentBackends
  <1> QED
    BY <1>2, <1>3, <1>4, <1>5 DEF PoolingInv

\* A connection is turned away only when every backend there can be serves
\* somebody else: there are more clients than max_connections.
LEMMA RejectedMeansMany ==
    ASSUME PoolTypes, OwnBackends, poolMode = "direct", NEW c \in PoolClients, ClientAt(c, "start"),
           Cardinality(opened) >= MaxConnections
    PROVE  Cardinality(PoolClients) > MaxConnections
  <1> USE PoolSizes DEF PoolSizes
  <1> DEFINE Users == {d \in PoolClients : client[d].backend \in opened}
             user == [d \in Users |-> client[d].backend]
  <1>1. user \in Surjection(Users, opened)
    BY DEF OwnBackends, PoolTypes, Serving, Surjection
  <1>2. IsFiniteSet(Users) /\ Cardinality(Users) \in Nat
    BY FS_Subset, FS_CardinalityType
  <1>3. Cardinality(opened) <= Cardinality(Users)
    BY <1>1, <1>2, FS_Surjection
  <1>4. Users \subseteq PoolClients \ {c}
    BY DEF OwnBackends, PoolTypes, ClientAt
  <1>5. IsFiniteSet(PoolClients \ {c}) /\ Cardinality(PoolClients \ {c}) = Cardinality(PoolClients) - 1
    BY FS_RemoveElement
  <1>6. Cardinality(Users) <= Cardinality(PoolClients \ {c})
    BY <1>4, <1>5, FS_Subset
  <1> QED
    BY <1>2, <1>3, <1>5, <1>6, OpenedFinite, FS_CardinalityType DEF PoolTypes

\* connect, a statement, its end and disconnect, in each mode of the pool.
LEMMA ClientStepInv ==
    ASSUME PoolingInv, NEW c \in PoolClients, ClientStep(c) PROVE PoolingInv'
  <1> USE PoolSizes DEF PoolSizes, ClientAt
  <1>0. PoolTypes /\ OwnBackends /\ MarksBelong /\ TunerAlone /\ PoolWithinSize
    BY DEF PoolingInv
  <1>f. IsFiniteSet(opened) /\ Cardinality(opened) \in Nat
    BY <1>0, OpenedFinite DEF PoolTypes
  <1>r. client[c] \in [pc : {"start", "idle", "busy", "ended", "rejected"},
                       backend : Backends \cup {NoBackend}, left : 0 .. 2, kept : BOOLEAN]
    BY <1>0 DEF PoolTypes
  <1>1. CASE Connect(c)
    <2>1. CASE poolMode # "direct"
      <3> USE <1>1, <2>1 DEF Connect
      <3>1. PoolTypes'
        BY <1>0, <1>r DEF PoolTypes
      <3>2. OwnBackends'
        BY <1>0, <3>1 DEF PoolTypes, OwnBackends, KeepsBackend
      <3>3. MarksBelong' /\ TunerAlone'
        BY <1>0, <3>1 DEF PoolTypes, OwnBackends, MarksBelong, KeepsBackend, TunerAlone, Bursting
      <3>4. PoolWithinSize'
        BY <1>0, <3>1 DEF PoolTypes, PoolWithinSize, PoolLeft, tooManyClientsAlready, peakConcurrentBackends, Bursting
      <3> QED
        BY <3>1, <3>2, <3>3, <3>4 DEF PoolingInv
    <2>2. CASE poolMode = "direct" /\ Cardinality(opened) >= MaxConnections
      <3> USE <1>1, <2>2 DEF Connect
      <3>1. PoolTypes'
        BY <1>0, <1>r DEF PoolTypes
      <3>2. OwnBackends'
        BY <1>0, <3>1, SMTT(30) DEF PoolTypes, OwnBackends, KeepsBackend, Serving
      <3>3. MarksBelong' /\ TunerAlone'
        BY <1>0, <3>1 DEF PoolTypes, OwnBackends, MarksBelong, KeepsBackend, TunerAlone, Bursting
      <3>4. Cardinality(PoolClients) > MaxConnections
        BY <1>0, RejectedMeansMany
      <3>5. PoolWithinSize'
        BY <1>0, <3>1, <3>4 DEF PoolTypes, PoolWithinSize, PoolLeft, tooManyClientsAlready, peakConcurrentBackends, TunerAlone
      <3> QED
        BY <3>1, <3>2, <3>3, <3>5 DEF PoolingInv
    <2>3. ASSUME poolMode = "direct", Cardinality(opened) < MaxConnections,
                 NEW b \in Backends \ opened, opened' = opened \cup {b},
                 client' = [client EXCEPT ![c] = [@ EXCEPT !.pc = "idle",
                                                           !.backend = b]]
          PROVE  PoolingInv'
      <3>1. PoolTypes' /\ UNCHANGED <<poolMode, poolSize, paused, marks, tuner>>
        BY <1>0, <1>1, <1>r, <2>3 DEF PoolTypes, Connect
      <3>2. /\ \A d \in PoolClients : d # c => client'[d] = client[d]
            /\ client'[c].pc = "idle" /\ client'[c].backend = b
            /\ client'[c].left = client[c].left /\ client'[c].kept = client[c].kept
        BY <1>0, <1>r, <2>3 DEF PoolTypes
      <3>3. client[c].pc = "start" /\ client[c].left = 2 /\ client[c].backend = NoBackend /\ Bursting
        BY <1>0, <1>1 DEF Connect, OwnBackends
      <3>4. opened' \subseteq Serving'
        <4>1. \A x \in opened : \E d \in PoolClients : client[d].backend = x /\ d # c
          BY <1>0, <2>3, <3>3 DEF OwnBackends, Serving, PoolTypes
        <4>2. \A x \in opened' : \E d \in PoolClients : client'[d].backend = x
          BY <2>3, <3>2, <4>1, ZenonT(60)
        <4> QED
          BY <4>2 DEF Serving
      <3>5. OwnBackends'
        BY <1>0, <2>3, <3>1, <3>2, <3>3, <3>4 DEF PoolTypes, OwnBackends, KeepsBackend
      <3>6. MarksBelong'
        BY <1>0, <2>3, <3>1, <3>2, <3>3 DEF PoolTypes, OwnBackends, MarksBelong, KeepsBackend
      <3>7. TunerAlone'
        BY <1>0, <2>3, <3>1, <3>2, <3>3 DEF PoolTypes, TunerAlone, Bursting
      <3>8. Cardinality(opened') = Cardinality(opened) + 1
        BY <1>f, <2>3, FS_AddElement
      <3>9. tooManyClientsAlready' = tooManyClientsAlready
        BY <3>2, <3>3 DEF tooManyClientsAlready
      <3>10. PoolWithinSize'
        BY <1>0, <1>f, <2>3, <3>1, <3>8, <3>9 DEF PoolTypes, PoolWithinSize, PoolLeft, TunerAlone
      <3> QED
        BY <3>1, <3>5, <3>6, <3>7, <3>10 DEF PoolingInv
    <2>4. CASE poolMode = "direct" /\ ~(Cardinality(opened) >= MaxConnections)
      <3>1. PICK b \in Backends \ opened :
               /\ opened' = opened \cup {b}
               /\ client' = [client EXCEPT ![c] = [@ EXCEPT !.pc = "idle", !.backend = b]]
        BY <1>1, <2>4 DEF Connect
      <3>2. Cardinality(opened) < MaxConnections
        BY <1>f, <2>4
      <3> QED
        BY <2>3, <2>4, <3>1, <3>2
    <2> QED
      BY <2>1, <2>2, <2>4
  <1>2. CASE Execute(c)
    <2>1. PICK b \in Candidates(c) : /\ opened' = opened \cup {b}
                                     /\ client' = [client EXCEPT ![c] = [@ EXCEPT !.pc = "busy",
                                                                                  !.backend = b]]
      BY <1>2 DEF Execute
    <2>2. /\ b \in Backends /\ Bursting /\ ~paused /\ ClientAt(c, "idle") /\ client[c].left > 0
          /\ UNCHANGED <<poolMode, poolSize, paused, marks, tuner>>
          /\ \A d \in PoolClients : d # c => client[d].backend # b
          /\ client[c].backend # NoBackend => client[c].backend = b
          /\ b \notin opened => poolMode # "direct" /\ Cardinality(opened) < poolSize
      BY <1>0, <1>2, <2>1 DEF Execute, Candidates, IdleBackends, Serving, PoolTypes, OwnBackends, TunerAlone
    <2>3. PoolTypes'
      BY <1>0, <1>r, <2>1, <2>2 DEF PoolTypes
    <2>4. OwnBackends'
      BY <1>0, <2>1, <2>2, <2>3 DEF PoolTypes, OwnBackends, KeepsBackend, Serving
    <2>5. MarksBelong' /\ TunerAlone'
      BY <1>0, <2>1, <2>2, <2>3 DEF PoolTypes, OwnBackends, MarksBelong, KeepsBackend, TunerAlone, Bursting
    <2>6. PoolWithinSize'
      <3>1. tooManyClientsAlready' = tooManyClientsAlready
        BY <1>0, <2>1, <2>2 DEF PoolTypes, tooManyClientsAlready
      <3>2. CASE b \in opened
        <4>1. opened' = opened
          BY <2>1, <3>2
        <4> QED
          BY <1>0, <2>2, <3>1, <4>1 DEF PoolWithinSize, PoolLeft, peakConcurrentBackends, Bursting
      <3>3. CASE b \notin opened
        <4>1. Cardinality(opened') = Cardinality(opened) + 1
          BY <1>f, <2>1, <3>3, FS_AddElement
        <4>2. poolSize \in Nat /\ tuner \notin {"done", "kill_threw", "resume_threw"}
          BY <1>0, <2>2 DEF PoolTypes, Bursting
        <4> QED
          BY <1>0, <1>f, <2>2, <3>1, <3>3, <4>1, <4>2 DEF PoolWithinSize, PoolLeft, peakConcurrentBackends
      <3> QED
        BY <3>2, <3>3
    <2> QED
      BY <2>3, <2>4, <2>5, <2>6 DEF PoolingInv
  <1>3. CASE StatementEnds(c)
    <2> DEFINE b == client[c].backend
    <2> USE <1>3 DEF StatementEnds
    <2>1. b \in Backends /\ client[c].left \in 1 .. 2 /\ Bursting /\ b \in opened
      BY <1>0, <1>r DEF PoolTypes, OwnBackends, TunerAlone
    <2>2. PoolTypes'
      <3> DEFINE left == client[c].left - 1
                 kept == client[c].kept /\ (client[c].left = 2 \/ c \in marks[b])
                 next == IF KeepsBackend THEN b ELSE NoBackend
                 row == [client[c] EXCEPT !.pc = "idle", !.left = left, !.kept = kept, !.backend = next]
      <3>1. client' = [client EXCEPT ![c] = row]
        OBVIOUS
      <3>2. left \in 0 .. 2 /\ next \in Backends \cup {NoBackend}
        BY <1>r, <2>1
      <3>3. kept \in BOOLEAN
        BY <1>r, Zenon
      <3> HIDE DEF left, kept, next
      <3>4. row \in [pc : {"start", "idle", "busy", "ended", "rejected"},
                    backend : Backends \cup {NoBackend}, left : 0 .. 2, kept : BOOLEAN]
        BY <1>r, <3>2, <3>3
      <3> HIDE DEF row
      <3>5. marks' \in [Backends -> SUBSET PoolClients]
        BY <1>0, <2>1 DEF PoolTypes
      <3>6. UNCHANGED <<poolMode, poolSize, paused, opened, tuner>>
        OBVIOUS
      <3> QED
        BY <1>0, <3>1, <3>4, <3>5, <3>6 DEF PoolTypes
    <2> HIDE DEF b
    <2>3. /\ \A d \in PoolClients : d # c => client'[d] = client[d]
          /\ client'[c].pc = "idle" /\ client'[c].left = client[c].left - 1
          /\ client'[c].backend = IF KeepsBackend THEN b ELSE NoBackend
          /\ client[c].kept /\ (client[c].left = 2 \/ c \in marks[b]) => client'[c].kept
      BY <1>0, <1>r DEF PoolTypes, b
    <2>4. /\ \A a \in Backends : a # b => marks'[a] = marks[a]
          /\ marks'[b] = IF client[c].left = 2 THEN marks[b] \cup {c} ELSE marks[b]
      BY <1>0, <2>1 DEF PoolTypes, b
    <2>5. client[c].backend = b /\ client[c].pc = "busy" /\ UNCHANGED <<poolMode, poolSize, paused, opened, tuner>>
      BY DEF b
    <2> HIDE <1>3
    <2>6. poolMode = "direct" => opened' \subseteq Serving'
      BY <1>0, <2>3, <2>5 DEF OwnBackends, Serving, KeepsBackend
    <2>7. OwnBackends'
      BY <1>0, <2>1, <2>2, <2>3, <2>5, <2>6 DEF OwnBackends, KeepsBackend
    <2>8. MarksBelong'
      BY <1>0, <2>1, <2>2, <2>3, <2>4, <2>5 DEF PoolTypes, OwnBackends, MarksBelong, KeepsBackend
    <2>9. TunerAlone' /\ tooManyClientsAlready' = tooManyClientsAlready
      BY <1>0, <2>1, <2>3, <2>5 DEF TunerAlone, Bursting, tooManyClientsAlready
    <2>10. PoolWithinSize'
      BY <1>0, <2>5, <2>9 DEF PoolWithinSize, PoolLeft, peakConcurrentBackends, Bursting
    <2> QED
      BY <2>2, <2>7, <2>8, <2>9, <2>10 DEF PoolingInv
  <1>4. CASE Disconnect(c)
    <2> USE <1>4 DEF Disconnect
    <2>1. Bursting /\ (KeepsBackend => client[c].backend \in Backends)
      BY <1>0, <1>r DEF PoolTypes, OwnBackends, TunerAlone
    <2>2. PoolTypes' /\ opened' \subseteq opened
      BY <1>0, <1>r, <2>1 DEF PoolTypes
    <2>3. OwnBackends'
      BY <1>0, <2>1, <2>2 DEF PoolTypes, OwnBackends, KeepsBackend, Serving
    <2>4. MarksBelong'
      BY <1>0, <2>1, <2>2 DEF PoolTypes, OwnBackends, MarksBelong, KeepsBackend
    <2>5. Cardinality(opened') <= Cardinality(opened) /\ Cardinality(opened') \in Nat
      BY <1>f, <2>2, FS_Subset, FS_CardinalityType
    <2>6. TunerAlone'
      BY <1>0, <2>1, <2>2 DEF PoolTypes, TunerAlone, Bursting
    <2>7. PoolWithinSize'
      BY <1>0, <1>f, <2>1, <2>2, <2>5
         DEF PoolTypes, PoolWithinSize, PoolLeft, tooManyClientsAlready, peakConcurrentBackends, Bursting
    <2> QED
      BY <2>2, <2>3, <2>4, <2>6, <2>7 DEF PoolingInv
  <1> QED
    BY <1>1, <1>2, <1>3, <1>4 DEF ClientStep

\* The tuning script works on a pool without clients, also when a command of
\* the admin console fails.
LEMMA TunerStepInv ==
    ASSUME PoolingInv, TunerStep \/ AdminFails PROVE PoolingInv'
  <1> USE PoolSizes DEF PoolSizes, ClientAt
  <1>0. PoolTypes /\ OwnBackends /\ MarksBelong /\ TunerAlone /\ PoolWithinSize
    BY DEF PoolingInv
  <1>f. Cardinality({}) = 0 /\ poolSize \in Nat /\ poolSize' = poolSize'
    BY <1>0, FS_EmptySet DEF PoolTypes
  <1>1. CASE setDefaultPoolSize
    <2> USE <1>1 DEF setDefaultPoolSize, SetSize, SizeOf, AfterStage
    <2>0. poolMode = "tuning" /\ ~KeepsBackend /\ UNCHANGED poolMode
      BY <1>0 DEF TunerAlone, KeepsBackend
    <2>1. PoolTypes'
      BY <1>0 DEF PoolTypes
    <2>2. OwnBackends' /\ MarksBelong'
      BY <1>0, <2>0, <2>1 DEF PoolTypes, OwnBackends, MarksBelong, KeepsBackend, TunerAlone, Bursting
    <2>3. TunerAlone'
      BY <1>0, <2>0, <2>1 DEF PoolTypes, TunerAlone, Bursting
    <2>4. PoolWithinSize'
      BY <1>0, <1>f, <2>0, <2>1, <2>3
         DEF PoolTypes, TunerAlone, Bursting, PoolWithinSize, PoolLeft, tooManyClientsAlready, peakConcurrentBackends
    <2> QED
      BY <2>1, <2>2, <2>3, <2>4 DEF PoolingInv
  <1>2. CASE killDatabaseConnections
    <2> USE <1>2 DEF killDatabaseConnections, KillPool, Kills, AfterStage
    <2>0. poolMode = "tuning" /\ ~KeepsBackend /\ UNCHANGED poolMode
      BY <1>0 DEF TunerAlone, KeepsBackend
    <2>1. PoolTypes'
      BY <1>0 DEF PoolTypes
    <2>2. OwnBackends' /\ MarksBelong'
      BY <1>0, <2>0, <2>1 DEF PoolTypes, OwnBackends, MarksBelong, KeepsBackend, TunerAlone, Bursting
    <2>3. TunerAlone'
      BY <1>0, <2>0, <2>1 DEF PoolTypes, TunerAlone, Bursting
    <2>4. PoolWithinSize'
      BY <1>0, <1>f, <2>0, <2>1, <2>3
         DEF PoolTypes, TunerAlone, Bursting, PoolWithinSize, PoolLeft, tooManyClientsAlready, peakConcurrentBackends
    <2> QED
      BY <2>1, <2>2, <2>3, <2>4 DEF PoolingInv
  <1>3. CASE resume
    <2> USE <1>3 DEF resume, ResumePool, Resumes, AfterStage
    <2>0. poolMode = "tuning" /\ ~KeepsBackend /\ UNCHANGED poolMode
      BY <1>0 DEF TunerAlone, KeepsBackend
    <2>1. PoolTypes'
      <3>1. tuner' \in {"burst_small", "burst_large", "done"}
        OBVIOUS
      <3>2. paused' \in BOOLEAN
        OBVIOUS
      <3> QED
        BY <1>0, <3>1, <3>2 DEF PoolTypes
    <2>2. OwnBackends' /\ MarksBelong'
      BY <1>0, <2>0, <2>1 DEF PoolTypes, OwnBackends, MarksBelong, KeepsBackend, TunerAlone, Bursting
    <2>3. TunerAlone'
      BY <1>0, <2>0, <2>1 DEF PoolTypes, TunerAlone, Bursting
    <2>a. /\ tuner' \in {"burst_small", "burst_large", "done"} /\ paused' = FALSE
          /\ UNCHANGED <<poolMode, poolSize, opened, client>>
          /\ opened = {} /\ (tuner' = "done" => poolSize = OriginalPoolSize)
      BY <1>0 DEF TunerAlone
    <2> HIDE <1>3 DEF resume, ResumePool, Resumes, AfterStage
    <2>4. PoolWithinSize'
      BY <1>0, <1>f, <2>0, <2>a
         DEF TunerAlone, PoolWithinSize, PoolLeft, tooManyClientsAlready, peakConcurrentBackends
    <2> QED
      BY <2>1, <2>2, <2>3, <2>4 DEF PoolingInv
  <1>4. CASE runBurst
    <2> USE <1>4 DEF runBurst, NewClient, AfterStage
    <2>0. poolMode = "tuning" /\ ~KeepsBackend /\ UNCHANGED poolMode
      BY <1>0 DEF TunerAlone, KeepsBackend
    <2>1. PoolTypes'
      <3>1. [d \in PoolClients |-> NewClient] \in
               [PoolClients -> [pc : {"start", "idle", "busy", "ended", "rejected"},
                                backend : Backends \cup {NoBackend}, left : 0 .. 2, kept : BOOLEAN]]
        OBVIOUS
      <3> QED
        BY <1>0, <3>1 DEF PoolTypes
    <2>2. OwnBackends' /\ MarksBelong'
      BY <1>0, <2>0, <2>1 DEF PoolTypes, OwnBackends, MarksBelong, KeepsBackend, TunerAlone, Bursting
    <2>3. TunerAlone'
      BY <1>0, <2>0, <2>1 DEF PoolTypes, TunerAlone, Bursting
    <2>4. PoolWithinSize'
      BY <1>0, <1>f, <2>0, <2>1, <2>3
         DEF PoolTypes, TunerAlone, Bursting, PoolWithinSize, PoolLeft, tooManyClientsAlready, peakConcurrentBackends
    <2> QED
      BY <2>1, <2>2, <2>3, <2>4 DEF PoolingInv
  <1>5. CASE AdminFails
    <2>t. /\ UNCHANGED <<poolMode, client>>
          /\ \/ tuner \in Tuning /\ tuner' = "set_original"
             \/ tuner = "set_original" /\ tuner' = "set_threw"
             \/ tuner = "kill_original" /\ tuner' = "kill_threw"
             \/ tuner = "resume_original" /\ tuner' = "resume_threw"
      BY <1>5 DEF AdminFails, ThrownFrom
    <2>0. poolMode = "tuning" /\ ~KeepsBackend /\ ~KeepsBackend' /\ ~Bursting /\ ~Bursting'
      BY <1>0, <2>t DEF TunerAlone, KeepsBackend, Tuning, Bursting
    <2>c. \/ /\ poolSize' \in {OriginalPoolSize, SmallPoolSize, LargePoolSize}
             /\ UNCHANGED <<paused, opened, marks>>
          \/ opened' = {} /\ paused' = TRUE /\ marks' = [b \in Backends |-> {}] /\ UNCHANGED poolSize
          \/ paused' = FALSE /\ UNCHANGED <<poolSize, opened, marks>>
          \/ UNCHANGED <<poolSize, paused, opened, marks>>
      <3>1. CASE SetSize
        BY <3>1 DEF SetSize, SizeOf
      <3>2. CASE KillPool
        BY <3>2 DEF KillPool
      <3>3. CASE ResumePool
        BY <3>3 DEF ResumePool
      <3>4. CASE UNCHANGED <<poolSize, paused, opened, marks>>
        BY <3>4
      <3> QED
        BY <1>5, <3>1, <3>2, <3>3, <3>4 DEF AdminFails
    <2>p. /\ tuner' \in {"set_original", "set_threw", "kill_threw", "resume_threw"}
          /\ poolSize' \in {OriginalPoolSize, SmallPoolSize, LargePoolSize} /\ paused' \in BOOLEAN
          /\ opened' \in {opened, {}} /\ marks' \in [Backends -> SUBSET PoolClients]
      <3>1. marks' = marks \/ marks' = [b \in Backends |-> {}]
        BY <2>c
      <3>2. marks' \in [Backends -> SUBSET PoolClients]
        BY <1>0, <3>1 DEF PoolTypes
      <3> QED
        BY <1>0, <2>t, <2>c, <3>2 DEF PoolTypes
    <2>1. PoolTypes'
      BY <1>0, <2>t, <2>p DEF PoolTypes
    <2>2. OwnBackends' /\ MarksBelong'
      BY <1>0, <2>0, <2>t, <2>p DEF PoolTypes, OwnBackends, MarksBelong, TunerAlone
    <2>3. TunerAlone'
      BY <1>0, <2>0, <2>t, <2>p DEF PoolTypes, TunerAlone
    \* A failed command of the finally block leaves what the commands before it did.
    <2>s. /\ tuner' \in {"kill_threw", "resume_threw"} => poolSize' = OriginalPoolSize
          /\ tuner' = "resume_threw" => opened' = {}
      BY <1>0, <1>5, <2>t
         DEF TunerAlone, AdminFails, Tuning, SetSize, KillPool, ResumePool, SizeOf, Kills, Resumes
    <2>e. paused' => opened' = {}
      BY <1>0, <1>5 DEF PoolWithinSize, PoolLeft, AdminFails, SetSize, KillPool, ResumePool
    <2>4. PoolWithinSize'
      BY <1>0, <2>0, <2>t, <2>p, <2>s, <2>e DEF TunerAlone, PoolWithinSize, PoolLeft, tooManyClientsAlready
    <2> QED
      BY <2>1, <2>2, <2>3, <2>4 DEF PoolingInv
  <1> QED
    BY <1>1, <1>2, <1>3, <1>4, <1>5 DEF TunerStep

\* For every number of clients and backends and every pool size: the server is
\* never asked for more than it has without somebody being turned away, session
\* state is kept where the mode promises it, a burst keeps within the pool, and
\* the tuning scenario restores the pool as far as the commands of its finally
\* block are answered: entirely when all are.
THEOREM PoolingIsSafe == PoolingSpec => []PoolingSafe
  <1>1. PoolingInv /\ [PoolingNext]_poolVars => PoolingInv'
    <2> SUFFICES ASSUME PoolingInv, [PoolingNext]_poolVars PROVE PoolingInv'
      OBVIOUS
    <2>1. CASE UNCHANGED poolVars
      BY <2>1 DEF poolVars, PoolingInv, PoolTypes, OwnBackends, MarksBelong, TunerAlone, PoolWithinSize, PoolLeft,
                  KeepsBackend, Bursting, ClientAt, Serving, tooManyClientsAlready, peakConcurrentBackends
    <2> QED
      BY <2>1, ClientStepInv, TunerStepInv DEF PoolingNext
  <1>2. PoolingInv => PoolingSafe
    <2> SUFFICES ASSUME PoolingInv PROVE PoolingSafe
      OBVIOUS
    <2>1. SessionStateKept
      BY DEF PoolingInv, PoolTypes, OwnBackends, MarksBelong, SessionStateKept, KeepsBackend, ClientAt
    <2> QED
      BY <2>1 DEF PoolingInv, PoolingSafe
  <1> QED
    BY PoolingInitInv, <1>1, <1>2, PTL DEF PoolingSpec

-----------------------------------------------------------------------------
(* The rate limiters. *)

\* Two numbers have a greatest and a least.
LEMMA MaxMin ==
  ASSUME NEW a \in Int, NEW b \in Int
  PROVE  Max({a, b}) = (IF a <= b THEN b ELSE a) /\ Min({a, b}) = (IF a <= b THEN a ELSE b)
  BY DEF Max, Min

Span(a, b) == {t \in Ticks : a <= t /\ t <= b}

\* What is counted is a sum over some ticks.
LEMMA CountIsTotal ==
  ASSUME NEW f, NEW a, NEW b
  PROVE  CountIn(f, a, b) = Total(f, Span(a, b)) /\ Span(a, b) \in SUBSET Ticks /\ IsFiniteSet(Ticks)
  <1>1. Span(a, b) \in SUBSET Ticks
    BY DEF Span
  <1>2. IsFiniteSet(Ticks)
    BY LimitAssumption, FS_Interval DEF LimitAssumption, Ticks
  <1>3. CountIn(f, a, b) = Total(f, Span(a, b))
    BY Zenon DEF CountIn, Total, Span, MapThenSumSet, MapThenFoldSet
  <1> QED BY <1>1, <1>2, <1>3

\* A count is a number, and zero where nothing is.
LEMMA CountIsNumber ==
  ASSUME NEW f \in [Ticks -> Nat], NEW a, NEW b
  PROVE  /\ CountIn(f, a, b) \in Nat
         /\ (\A t \in Span(a, b) : f[t] = 0) => CountIn(f, a, b) = 0
  BY CountIsTotal, TotalByElement, TotalOfZeros

\* One more at a tick is one more in each span that has it.
LEMMA CountOneMore ==
  ASSUME NEW f \in [Ticks -> Nat], NEW n \in Ticks, NEW a, NEW b,
         NEW g \in [Ticks -> Nat], g[n] = f[n] + 1, \A t \in Ticks \ {n} : g[t] = f[t]
  PROVE  /\ n \in Span(a, b) => CountIn(g, a, b) = CountIn(f, a, b) + 1
         /\ n \notin Span(a, b) => CountIn(g, a, b) = CountIn(f, a, b)
  <1> DEFINE T == Span(a, b)
  <1>1. /\ g[n] = f[n] + 1 /\ f[n] \in Nat
        /\ \A t \in Ticks \ {n} : g[t] = f[t]
    OBVIOUS
  <1>2. /\ CountIn(f, a, b) = Total(f, T) /\ CountIn(g, a, b) = Total(g, T)
        /\ T \in SUBSET Ticks /\ IsFiniteSet(Ticks)
    BY CountIsTotal
  <1> HIDE DEF T
  <1>3. ASSUME NEW X \in SUBSET T, n \notin X PROVE Total(g, X) = Total(f, X) /\ Total(f, X) \in Nat
    <2>1. Total(g, X) <= Total(f, X) /\ Total(f, X) <= Total(g, X)
      <3>1. \A t \in X : g[t] <= f[t] /\ f[t] <= g[t]
        BY <1>1, <1>2, <1>3
      <3>2. X \in SUBSET Ticks
        BY <1>2
      <3> QED
        BY <1>1, <1>2, <3>1, <3>2, TotalMonotone
    <2>2. Total(g, X) \in Nat /\ Total(f, X) \in Nat
      BY <1>1, <1>2, TotalByElement
    <2> QED
      BY <2>1, <2>2
  <1>4. CASE n \in T
    <2>1. Total(f, T) = f[n] + Total(f, T \ {n}) /\ Total(g, T) = g[n] + Total(g, T \ {n})
      BY <1>1, <1>2, <1>4, TotalByElement
    <2>2. Total(g, T \ {n}) = Total(f, T \ {n}) /\ Total(f, T \ {n}) \in Nat
      BY <1>3
    <2>3. Total(g, T) = Total(f, T) + 1
      BY <1>1, <2>1, <2>2
    <2> QED
      BY <1>2, <1>4, <2>3 DEF T
  <1>5. CASE n \notin T
    <2>1. Total(g, T) = Total(f, T) /\ Total(f, T) \in Nat
      BY <1>3, <1>5
    <2> QED
      BY <1>2, <1>5, <2>1 DEF T
  <1> QED
    BY <1>4, <1>5

\* Adjacent spans add up.
LEMMA CountSplits ==
  ASSUME NEW f \in [Ticks -> Nat], NEW a \in Int, NEW m \in Int, NEW b \in Int, a <= m + 1, m <= b
  PROVE  CountIn(f, a, b) = CountIn(f, a, m) + CountIn(f, m + 1, b)
  <1>1. Span(a, b) = Span(a, m) \cup Span(m + 1, b) /\ Span(a, m) \cap Span(m + 1, b) = {}
    BY LimitAssumption DEF LimitAssumption, Span, Ticks
  <1>2. /\ Span(a, m) \in SUBSET Ticks /\ Span(m + 1, b) \in SUBSET Ticks /\ IsFiniteSet(Ticks)
    BY CountIsTotal
  <1>3. Total(f, Span(a, m) \cup Span(m + 1, b)) = Total(f, Span(a, m)) + Total(f, Span(m + 1, b))
    BY <1>1, <1>2, TotalOfUnion
  <1> QED
    BY <1>1, <1>3, CountIsTotal

\* A wider span, or more at every tick of a span, counts more.
LEMMA CountGrows ==
  ASSUME NEW f \in [Ticks -> Nat], NEW g \in [Ticks -> Nat],
         NEW a, NEW b, NEW c, NEW d, Span(a, b) \subseteq Span(c, d), \A t \in Span(a, b) : f[t] <= g[t]
  PROVE  CountIn(f, a, b) <= CountIn(g, c, d)
  <1>1. /\ Span(a, b) \in SUBSET Ticks /\ Span(c, d) \in SUBSET Ticks /\ IsFiniteSet(Ticks)
        /\ CountIn(f, a, b) = Total(f, Span(a, b)) /\ CountIn(g, c, d) = Total(g, Span(c, d))
    BY CountIsTotal
  <1>2. Total(f, Span(a, b)) <= Total(g, Span(a, b))
    BY <1>1, TotalMonotone
  <1>3. Total(g, Span(a, b)) <= Total(g, Span(c, d))
    BY <1>1, TotalOfSubset
  <1>4. Total(f, Span(a, b)) \in Nat /\ Total(g, Span(a, b)) \in Nat /\ Total(g, Span(c, d)) \in Nat
    BY <1>1, TotalByElement
  <1> QED
    BY <1>1, <1>2, <1>3, <1>4

\* The tokens that come back in some time.
Refilled(t) == RefillPerTick * t

LimitTypes ==
    /\ algorithm \in {"token_bucket", "sliding_window"}
    /\ clock \in Ticks /\ newest \in 0 .. clock /\ expires \in Nat
    /\ request \in [Checkers -> {NoStamp} \cup 0 .. clock]
    /\ bucket \in [tokens : 0 .. BucketCapacity, last_refill_ms : Ticks]
    /\ entries \in [Ticks -> Nat] /\ admitted \in [Ticks -> Nat]
    /\ reordered \in BOOLEAN /\ delayed \in BOOLEAN

\* No request travels for longer than it may, and nothing was admitted ahead of newest.
StampsAreRecent ==
    /\ \A c \in Checkers : request[c] # NoStamp => clock <= request[c] + MaxDelay
    /\ \A t \in Ticks : t > newest => admitted[t] = 0

\* In order, the bucket is that of newest; the key has its lifetime from then on,
\* unless nothing was admitted at all.
BucketIsNewest ==
    /\ bucket.last_refill_ms = newest
    /\ expires >= newest + BucketTtl \/ \A t \in Ticks : admitted[t] = 0

\* What was admitted since from, and what is left in the bucket, is within budget.
LeftIsWithinBudget ==
    \A from \in 0 .. newest :
        CountIn(admitted, from, newest) + bucket.tokens
            <= BucketCapacity + Refilled(newest - from)

\* What is missing in the bucket was admitted since some moment, beyond the refill.
MissingWasAdmitted ==
    \E from \in 0 .. newest :
        BucketCapacity + Refilled(newest - from) <= CountIn(admitted, from, newest) + bucket.tokens

BucketInv ==
    algorithm = "token_bucket" /\ ~reordered =>
        BucketIsNewest /\ LeftIsWithinBudget /\ MissingWasAdmitted /\ WithinBucket

\* An entry is an admitted request; without delay, the entries of the window are
\* all the requests admitted in it, and the key outlives them.
EntriesAreAdmitted ==
    algorithm = "sliding_window" => \A t \in Ticks : entries[t] <= admitted[t]
WindowInv ==
    algorithm = "sliding_window" /\ ~delayed =>
        /\ \A t \in Ticks : /\ clock < expires /\ t > clock - WindowMs => entries[t] = admitted[t]
                            /\ admitted[t] > 0 => t + WindowMs <= expires
        /\ WithinWindow

LimitInv == LimitTypes /\ StampsAreRecent /\ BucketInv /\ EntriesAreAdmitted /\ WindowInv

\* The constants are numbers, and so is the lifetime of a key.
LEMMA LimitNumbers ==
  /\ BucketCapacity \in Nat /\ MinTtl \in Nat /\ Limit \in Nat /\ MaxDelay \in Nat /\ MaxTime \in Nat
  /\ RefillPerTick \in Nat /\ RefillPerTick > 0 /\ WindowMs \in Nat /\ WindowMs > 0
  /\ BucketTtl \in Nat
  <1>1. (4 * BucketCapacity + RefillPerTick - 1) \div RefillPerTick \in Int
    BY LimitAssumption DEF LimitAssumption
  <1>2. BucketTtl \in Nat
    BY <1>1, LimitAssumption, MaxMin DEF LimitAssumption, BucketTtl
  <1> QED
    BY <1>2, LimitAssumption DEF LimitAssumption

\* The refill of a longer time is that of its parts.
LEMMA Refill ==
  /\ \A x \in Nat : Refilled(x) \in Nat
  /\ \A x, y \in Int : Refilled(x + y) = Refilled(x) + Refilled(y) /\ Refilled(x) \in Int
  /\ \A x, y \in Int : x <= y => Refilled(x) <= Refilled(y)
  /\ Refilled(0) = 0
  BY LimitNumbers DEF Refilled

\* A key that nobody touches for its lifetime would be a full bucket, also in
\* the eyes of a request that is as long on its way as one can be.
LEMMA LifetimeRefills == BucketCapacity <= Refilled(BucketTtl - MaxDelay)
  <1> DEFINE most == 4 * BucketCapacity + RefillPerTick - 1
             full == most \div RefillPerTick
  <1>1. most \in Nat /\ RefillPerTick \in Nat \ {0}
    BY LimitNumbers
  <1>2. full \in Int /\ 4 * BucketCapacity <= RefillPerTick * full
    <2>1. /\ most = RefillPerTick * full + (most % RefillPerTick)
          /\ full \in Int /\ most % RefillPerTick \in 0 .. RefillPerTick - 1
      <3> HIDE DEF most
      <3> QED
        BY <1>1
    <2>2. RefillPerTick * full \in Int
      BY <1>1, <2>1
    <2> HIDE DEF full
    <2> QED
      BY <1>1, <2>1, <2>2, LimitNumbers
  <1>3. BucketTtl \in Nat /\ BucketTtl >= full /\ BucketTtl >= MinTtl
    <2> HIDE DEF most
    <2>1. BucketTtl = Max({MinTtl, full})
      BY DEF BucketTtl, most
    <2> HIDE DEF full
    <2> QED
      BY <1>2, <2>1, MaxMin, LimitNumbers
  <1> HIDE DEF full
  <1>4. CASE RefillPerTick * MaxDelay <= 3 * BucketCapacity
    <2>1. Refilled(full) <= Refilled(BucketTtl)
      BY <1>2, <1>3, Refill
    <2>2. Refilled(BucketTtl) = Refilled(BucketTtl - MaxDelay) + Refilled(MaxDelay)
      <3>1. BucketTtl = (BucketTtl - MaxDelay) + MaxDelay /\ BucketTtl - MaxDelay \in Int /\ MaxDelay \in Int
        BY <1>3, LimitNumbers
      <3> QED
        BY <3>1, Refill
    <2>3. 4 * BucketCapacity <= Refilled(full) /\ Refilled(MaxDelay) <= 3 * BucketCapacity
      BY <1>2, <1>4 DEF Refilled
    <2>4. /\ Refilled(full) \in Int /\ Refilled(BucketTtl) \in Int
          /\ Refilled(MaxDelay) \in Int /\ Refilled(BucketTtl - MaxDelay) \in Int
      <3>1. BucketTtl - MaxDelay \in Int /\ MaxDelay \in Int /\ BucketTtl \in Int
        BY <1>3, LimitNumbers
      <3> QED
        BY <1>2, <3>1, Refill
    <2> QED
      BY <2>1, <2>2, <2>3, <2>4, LimitNumbers
  <1>5. CASE RefillPerTick * (MinTtl - MaxDelay) >= BucketCapacity
    <2>1. MinTtl - MaxDelay \in Int /\ BucketTtl - MaxDelay \in Int /\ MinTtl - MaxDelay <= BucketTtl - MaxDelay
      BY <1>3, LimitNumbers
    <2>2. /\ Refilled(MinTtl - MaxDelay) <= Refilled(BucketTtl - MaxDelay)
          /\ Refilled(MinTtl - MaxDelay) \in Int /\ Refilled(BucketTtl - MaxDelay) \in Int
      BY <2>1, Refill
    <2>3. BucketCapacity <= Refilled(MinTtl - MaxDelay)
      BY <1>5 DEF Refilled
    <2> QED
      BY <2>2, <2>3, LimitNumbers
  <1> QED
    BY <1>4, <1>5, LimitAssumption DEF LimitAssumption

\* What a bucket holds more than its capacity is a number of whole refills and a part.
LEMMA TimeToFill ==
  /\ BucketCapacity \div RefillPerTick \in Nat
  /\ BucketCapacity <= Refilled(BucketCapacity \div RefillPerTick + 1)
  <1>1. \A x \in Nat, y \in Nat : y > 0 => x \div y \in Nat /\ x <= y * (x \div y + 1)
    OBVIOUS
  <1> QED
    BY <1>1, LimitNumbers DEF Refilled

\* Nothing is admitted, and the bucket is full, at first.
LEMMA LimitInitInv == LimitInit => LimitInv
  <1> SUFFICES ASSUME LimitInit PROVE LimitInv
    OBVIOUS
  <1> USE LimitNumbers DEF LimitInit
  <1>1. LimitTypes /\ StampsAreRecent
    <2>1. FullBucket(0) \in [tokens : 0 .. BucketCapacity, last_refill_ms : Ticks] /\ NoEntries \in [Ticks -> Nat]
      BY DEF FullBucket, NoEntries, Ticks
    <2>2. 0 \in Ticks /\ 0 .. 0 = {0} /\ [c \in Checkers |-> NoStamp] \in [Checkers -> {NoStamp} \cup 0 .. 0]
      BY DEF Ticks
    <2>3. LimitTypes
      BY <2>1, <2>2 DEF LimitTypes
    <2> QED
      BY <2>3 DEF StampsAreRecent, NoEntries
  <1>2. \A a, b \in Int : CountIn(admitted, a, b) = 0
    BY <1>1, CountIsNumber DEF LimitTypes, NoEntries, Span
  <1>3. WithinBucket
    <2> SUFFICES ASSUME NEW from \in Ticks, NEW to \in from .. MaxTime
                 PROVE  CountIn(admitted, from, to) <= BucketCapacity + Refilled(to - from)
      BY DEF WithinBucket, Refilled
    <2>1. CountIn(admitted, from, to) = 0 /\ Refilled(to - from) \in Nat
      BY <1>2, Refill DEF Ticks
    <2> QED
      BY <2>1
  <1>4. BucketInv
    <2>1. BucketIsNewest
      BY DEF BucketIsNewest, FullBucket, NoEntries
    <2>2. LeftIsWithinBudget /\ MissingWasAdmitted
      <3>1. newest = 0 /\ 0 .. 0 = {0} /\ 0 - 0 = 0 /\ bucket.tokens = BucketCapacity
        BY DEF FullBucket
      <3>2. CountIn(admitted, 0, 0) = 0 /\ Refilled(0) = 0
        BY <1>2, Refill
      <3>3. CountIn(admitted, 0, 0) + BucketCapacity = BucketCapacity + Refilled(0)
        BY <3>2
      <3>4. BucketCapacity + Refilled(0) \in Int
        BY <3>2
      <3> QED
        BY <3>1, <3>3, <3>4 DEF LeftIsWithinBudget, MissingWasAdmitted
    <2> QED
      BY <1>3, <2>1, <2>2 DEF BucketInv
  <1>5. WithinWindow
    BY <1>2 DEF WithinWindow, Ticks
  <1>6. EntriesAreAdmitted /\ WindowInv
    BY <1>5 DEF EntriesAreAdmitted, WindowInv, NoEntries
  <1> QED
    BY <1>1, <1>4, <1>6 DEF LimitInv

\* What the bucket holds when a script runs with a stamp of now: never more than
\* its capacity, and in order what is left and the refill of the time since.
LEMMA TokensFound ==
  ASSUME LimitTypes, NEW now \in Ticks
  PROVE  /\ Tokens(now) \in 0 .. BucketCapacity
         /\ clock >= expires => Tokens(now) = BucketCapacity
         /\ clock < expires /\ bucket.last_refill_ms <= now =>
               LET more == bucket.tokens + Refilled(now - bucket.last_refill_ms)
               IN  Tokens(now) = IF BucketCapacity <= more THEN BucketCapacity ELSE more
         /\ clock < expires /\ now <= bucket.last_refill_ms => Tokens(now) = bucket.tokens
  <1> DEFINE passed == now - Found(now).last_refill_ms
             more == Found(now).tokens + Refilled(Max({0, passed}))
  <1>1. /\ Found(now).tokens \in 0 .. BucketCapacity /\ Found(now).last_refill_ms \in Ticks
        /\ clock >= expires => Found(now).tokens = BucketCapacity /\ Found(now).last_refill_ms = now
        /\ clock < expires => Found(now) = bucket
    BY LimitNumbers DEF LimitTypes, Found, FullBucket, Ticks
  <1>2. Max({0, passed}) = (IF 0 <= passed THEN passed ELSE 0) /\ passed \in Int
    BY <1>1, MaxMin, LimitNumbers DEF Ticks
  <1>3. Max({0, passed}) \in Nat
    BY <1>2
  <1>4. Refilled(Max({0, passed})) \in Nat
    BY <1>3, Refill
  <1>5. Tokens(now) = IF BucketCapacity <= more THEN BucketCapacity ELSE more
    <2>1. Tokens(now) = Min({BucketCapacity, more})
      BY DEF Tokens, Refilled
    <2>2. more \in Int /\ BucketCapacity \in Int
      BY <1>1, <1>4, LimitNumbers
    <2> HIDE DEF more
    <2> QED
      BY <2>1, <2>2, MaxMin
  <1>6. Tokens(now) \in 0 .. BucketCapacity
    BY <1>1, <1>4, <1>5, LimitNumbers
  <1>7. ASSUME clock >= expires PROVE Tokens(now) = BucketCapacity
    BY <1>1, <1>4, <1>5, <1>7, LimitNumbers
  <1>8. ASSUME clock < expires, bucket.last_refill_ms <= now
        PROVE  more = bucket.tokens + Refilled(now - bucket.last_refill_ms)
    <2>1. passed = now - bucket.last_refill_ms /\ 0 <= passed
      BY <1>1, <1>8, LimitNumbers DEF Ticks
    <2> QED
      BY <1>1, <1>2, <1>8, <2>1
  <1>9. ASSUME clock < expires, now <= bucket.last_refill_ms PROVE Tokens(now) = bucket.tokens
    <2>1. Max({0, passed}) = 0
      BY <1>1, <1>2, <1>9, LimitNumbers DEF Ticks
    <2>2. more = bucket.tokens
      BY <1>1, <1>9, <2>1, Refill
    <2> HIDE DEF more
    <2> QED
      BY <1>1, <1>5, <1>9, <2>2, LimitNumbers
  <1> HIDE DEF more
  <1> QED
    BY <1>5, <1>6, <1>7, <1>8, <1>9

\* What was admitted up to now, when nothing was since newest.
LEMMA CountUpTo ==
  ASSUME LimitTypes, StampsAreRecent, NEW from \in Nat, NEW now \in Nat, newest <= now
  PROVE  /\ from <= newest => CountIn(admitted, from, now) = CountIn(admitted, from, newest)
         /\ from > newest => CountIn(admitted, from, now) = 0
  <1>0. newest \in Nat /\ \A t \in Ticks : t \in Nat
    BY LimitNumbers DEF LimitTypes, Ticks
  <1>1. CountIn(admitted, newest + 1, now) = 0
    <2>1. \A t \in Span(newest + 1, now) : admitted[t] = 0
      BY <1>0 DEF StampsAreRecent, Span
    <2> QED
      BY <2>1, CountIsNumber DEF LimitTypes
  <1>2. ASSUME from <= newest PROVE CountIn(admitted, from, now) = CountIn(admitted, from, newest)
    <2>1. CountIn(admitted, from, now) = CountIn(admitted, from, newest) + CountIn(admitted, newest + 1, now)
      BY <1>0, <1>2, CountSplits DEF LimitTypes
    <2>2. CountIn(admitted, from, newest) \in Nat
      BY CountIsNumber DEF LimitTypes
    <2> QED
      BY <1>1, <2>1, <2>2
  <1>3. ASSUME from > newest PROVE CountIn(admitted, from, now) = 0
    <2>1. \A t \in Span(from, now) : admitted[t] = 0
      BY <1>0, <1>3 DEF StampsAreRecent, Span
    <2> QED
      BY <2>1, CountIsNumber DEF LimitTypes
  <1> QED
    BY <1>2, <1>3

\* In order the bucket keeps the two bounds up to the stamp of the script, also
\* when the key was dropped.
LEMMA TokensInOrder ==
  ASSUME LimitInv, algorithm = "token_bucket", ~reordered,
         NEW now \in Ticks, newest <= now, now <= clock, clock <= now + MaxDelay
  PROVE  /\ \A from \in 0 .. now :
               CountIn(admitted, from, now) + Tokens(now) <= BucketCapacity + Refilled(now - from)
         /\ \E from \in 0 .. now :
               BucketCapacity + Refilled(now - from) <= CountIn(admitted, from, now) + Tokens(now)
  <1>1. LimitTypes /\ StampsAreRecent /\ BucketIsNewest /\ LeftIsWithinBudget /\ MissingWasAdmitted
    BY DEF LimitInv, BucketInv
  <1>2. now \in Nat /\ newest \in Nat /\ clock \in Nat /\ expires \in Nat /\ bucket.tokens \in 0 .. BucketCapacity
    BY <1>1, LimitNumbers DEF LimitTypes, Ticks
  <1>3. Tokens(now) \in 0 .. BucketCapacity /\ Tokens(now) \in Int
    BY <1>1, TokensFound
  <1>4. \A from \in Nat : CountIn(admitted, from, now) \in Nat /\ CountIn(admitted, from, newest) \in Nat
    BY <1>1, CountIsNumber DEF LimitTypes
  <1>5. ASSUME NEW from \in 0 .. newest
        PROVE  /\ CountIn(admitted, from, now) = CountIn(admitted, from, newest)
               /\ CountIn(admitted, from, newest) + bucket.tokens
                     <= BucketCapacity + Refilled(newest - from)
               /\ Refilled(now - from) =
                     Refilled(newest - from) + Refilled(now - newest)
               /\ Refilled(newest - from) \in Nat /\ Refilled(now - newest) \in Nat
    <2>1. from \in Nat /\ newest - from \in Nat /\ now - newest \in Nat
          /\ now - from = (newest - from) + (now - newest)
      BY <1>2
    <2>2. Refilled(now - from) = Refilled(newest - from) + Refilled(now - newest)
      BY <2>1, Refill
    <2>3. Refilled(newest - from) \in Nat /\ Refilled(now - newest) \in Nat
      BY <2>1, Refill
    <2>4. CountIn(admitted, from, now) = CountIn(admitted, from, newest)
      BY <1>1, <1>2, <2>1, CountUpTo
    <2>5. CountIn(admitted, from, newest) + bucket.tokens <= BucketCapacity + Refilled(newest - from)
      BY <1>1 DEF LeftIsWithinBudget
    <2> QED
      BY <2>2, <2>3, <2>4, <2>5
  <1>6. CASE clock >= expires
    <2>1. Tokens(now) = BucketCapacity
      BY <1>1, <1>6, TokensFound
    <2>2. ASSUME NEW from \in 0 .. now
          PROVE  CountIn(admitted, from, now) <= Refilled(now - from)
      <3>1. now - from \in Nat /\ Refilled(now - from) \in Nat /\ from \in Nat
        <4>1. now - from \in Nat /\ from \in Nat
          BY <1>2
        <4> QED
          BY <4>1, Refill
      <3>2. CASE \A t \in Ticks : admitted[t] = 0
        <4>1. CountIn(admitted, from, now) = 0
          BY <1>1, <3>2, CountIsNumber DEF LimitTypes, Span
        <4> QED
          BY <3>1, <4>1
      <3>3. CASE expires >= newest + BucketTtl /\ from <= newest
        <4>1. BucketTtl - MaxDelay <= now - newest
          BY <1>2, <1>6, <3>3, LimitNumbers
        <4>2. BucketCapacity <= Refilled(now - newest)
          <5>1. Refilled(BucketTtl - MaxDelay) <= Refilled(now - newest)
            <6>1. BucketTtl - MaxDelay \in Int /\ now - newest \in Int
              BY <1>2, LimitNumbers
            <6> QED
              BY <4>1, <6>1, Refill
          <5>2. BucketCapacity <= Refilled(BucketTtl - MaxDelay)
            BY LifetimeRefills
          <5>3. Refilled(now - newest) \in Int /\ Refilled(BucketTtl - MaxDelay) \in Int
            <6>1. BucketTtl - MaxDelay \in Int /\ now - newest \in Int
              BY <1>2, LimitNumbers
            <6> QED
              BY <6>1, Refill
          <5> QED
            BY <5>1, <5>2, <5>3, LimitNumbers
        <4>3. from \in 0 .. newest
          BY <1>2, <3>3
        <4> QED
          BY <1>2, <1>4, <1>5, <3>1, <4>2, <4>3, LimitNumbers
      <3>4. CASE from > newest
        <4>1. CountIn(admitted, from, now) = 0
          BY <1>1, <1>2, <3>1, <3>4, CountUpTo
        <4> QED
          BY <3>1, <4>1
      <3> QED
        BY <1>1, <1>2, <3>1, <3>2, <3>3, <3>4 DEF BucketIsNewest
    <2>3. \A from \in 0 .. now :
             CountIn(admitted, from, now) + Tokens(now) <= BucketCapacity + Refilled(now - from)
      <3> TAKE from \in 0 .. now
      <3>1. Refilled(now - from) \in Nat /\ CountIn(admitted, from, now) \in Nat
        <4>1. from \in Nat /\ now - from \in Nat
          BY <1>2
        <4> QED
          BY <1>4, <4>1, Refill
      <3> QED
        BY <2>1, <2>2, <3>1, LimitNumbers
    <2>4. BucketCapacity + Refilled(now - now) <= CountIn(admitted, now, now) + Tokens(now)
      BY <1>2, <1>4, <2>1, Refill, LimitNumbers, SMTT(30)
    <2> QED
      BY <1>2, <2>3, <2>4
  <1>7. CASE clock < expires
    <2> DEFINE more == bucket.tokens + Refilled(now - newest)
    <2>1. Tokens(now) = IF BucketCapacity <= more THEN BucketCapacity ELSE more
      BY <1>1, <1>7, TokensFound DEF BucketIsNewest
    <2>2. Refilled(now - newest) \in Nat
      <3>1. now - newest \in Nat
        BY <1>2
      <3> QED
        BY <3>1, Refill
    <2>3. Tokens(now) <= more /\ Tokens(now) <= BucketCapacity
      BY <1>2, <2>1, <2>2, LimitNumbers
    <2>4. \A from \in 0 .. now :
             CountIn(admitted, from, now) + Tokens(now) <= BucketCapacity + Refilled(now - from)
      <3> TAKE from \in 0 .. now
      <3>1. CASE from <= newest
        <4>1. from \in 0 .. newest /\ from \in Nat
          BY <1>2, <3>1
        <4> QED
          BY <1>2, <1>3, <1>4, <1>5, <2>3, <4>1, LimitNumbers
      <3>2. CASE from > newest
        <4>1. CountIn(admitted, from, now) = 0 /\ Refilled(now - from) \in Nat
          <5>1. from \in Nat /\ now - from \in Nat
            BY <1>2
          <5> QED
            BY <1>1, <1>2, <3>2, <5>1, CountUpTo, Refill
        <4> QED
          BY <1>3, <4>1, LimitNumbers
      <3> QED
        BY <1>2, <3>1, <3>2
    <2>5. \E from \in 0 .. now :
             BucketCapacity + Refilled(now - from) <= CountIn(admitted, from, now) + Tokens(now)
      <3>1. CASE BucketCapacity <= more
        <4>1. BucketCapacity + Refilled(now - now) <= CountIn(admitted, now, now) + Tokens(now)
          <5>1. Tokens(now) = BucketCapacity /\ now - now = 0
            BY <1>2, <2>1, <3>1
          <5> QED
            BY <1>2, <1>4, <5>1, Refill, LimitNumbers, SMTT(30)
        <4> QED
          BY <1>2, <4>1
      <3>2. CASE ~(BucketCapacity <= more)
        <4>1. Tokens(now) = bucket.tokens + Refilled(now - newest)
          BY <2>1, <3>2
        <4>2. PICK from \in 0 .. newest :
                 BucketCapacity + Refilled(newest - from) <= CountIn(admitted, from, newest) + bucket.tokens
          BY <1>1 DEF MissingWasAdmitted
        <4>3. from \in 0 .. now /\ from \in Nat
          BY <1>2
        <4>4. BucketCapacity + Refilled(now - from) <= CountIn(admitted, from, now) + Tokens(now)
          BY <1>2, <1>4, <1>5, <4>1, <4>2, <4>3, LimitNumbers
        <4> QED
          BY <4>3, <4>4
      <3> QED
        BY <3>1, <3>2
    <2> QED
      BY <2>4, <2>5
  <1> QED
    BY <1>2, <1>6, <1>7

\* A script of the token bucket takes one from what it found, if there is one.
LEMMA TokenBucketInv == ASSUME LimitInv, NEW c \in Checkers, TokenBucket(c) PROVE LimitInv'
  <1> DEFINE now == request[c]
  <1>1. LimitTypes /\ StampsAreRecent /\ algorithm = "token_bucket" /\ now # NoStamp
    BY DEF LimitInv, TokenBucket
  <1>2. /\ now \in 0 .. clock /\ now \in Ticks /\ now \in Nat /\ clock <= now + MaxDelay
        /\ newest \in Nat /\ newest <= clock /\ clock \in Nat
    BY <1>1, LimitNumbers DEF LimitTypes, StampsAreRecent, NoStamp, Ticks
  <1>3. Tokens(now) \in 0 .. BucketCapacity
    BY <1>1, <1>2, TokensFound
  <1>4. /\ UNCHANGED <<algorithm, clock, entries>> /\ expires' = clock + BucketTtl
        /\ newest' = (IF newest <= now THEN now ELSE newest)
        /\ (reordered' <=> reordered \/ now < newest) /\ (delayed' <=> delayed \/ now < clock)
        /\ request' = [request EXCEPT ![c] = NoStamp]
        /\ bucket' = [tokens |-> IF Tokens(now) >= 1 THEN Tokens(now) - 1 ELSE Tokens(now), last_refill_ms |-> now]
        /\ admitted' = IF Tokens(now) >= 1 THEN [admitted EXCEPT ![now] = @ + 1] ELSE admitted
    <2>1. newest' = Max({newest, now})
      BY DEF TokenBucket, Record
    <2>2. newest' = (IF newest <= now THEN now ELSE newest)
      BY <1>2, <2>1, MaxMin
    <2>3. (reordered' <=> reordered \/ now < newest) /\ (delayed' <=> delayed \/ now < clock)
      BY DEF TokenBucket, Record
    <2>4. /\ UNCHANGED <<algorithm, clock, entries>> /\ expires' = clock + BucketTtl
          /\ request' = [request EXCEPT ![c] = NoStamp]
          /\ bucket' = [tokens |-> IF Tokens(now) >= 1 THEN Tokens(now) - 1 ELSE Tokens(now), last_refill_ms |-> now]
          /\ admitted' = IF Tokens(now) >= 1 THEN [admitted EXCEPT ![now] = @ + 1] ELSE admitted
      BY DEF TokenBucket, Record
    <2> QED
      BY <2>2, <2>3, <2>4
  <1> HIDE DEF now
  <1>5. admitted' \in [Ticks -> Nat] /\ \A t \in Ticks \ {now} : admitted'[t] = admitted[t]
    BY <1>1, <1>2, <1>4 DEF LimitTypes
  <1>6. bucket' \in [tokens : 0 .. BucketCapacity, last_refill_ms : Ticks]
        /\ bucket'.tokens = (IF Tokens(now) >= 1 THEN Tokens(now) - 1 ELSE Tokens(now))
        /\ bucket'.last_refill_ms = now
    <2>1. (IF Tokens(now) >= 1 THEN Tokens(now) - 1 ELSE Tokens(now)) \in 0 .. BucketCapacity
      BY <1>3, LimitNumbers
    <2> QED
      BY <1>2, <1>4, <2>1
  <1>7. LimitTypes'
    <2>1. newest' \in 0 .. clock' /\ expires' \in Nat
      BY <1>2, <1>4, LimitNumbers
    <2>2. request' \in [Checkers -> {NoStamp} \cup 0 .. clock']
      BY <1>1, <1>4 DEF LimitTypes
    <2>3. reordered' \in BOOLEAN /\ delayed' \in BOOLEAN
      BY DEF TokenBucket, Record
    <2> QED
      BY <1>1, <1>4, <1>5, <1>6, <2>1, <2>2, <2>3 DEF LimitTypes
  <1>8. StampsAreRecent'
    <2>1. \A d \in Checkers : request'[d] # NoStamp => request'[d] = request[d]
      BY <1>1, <1>4 DEF LimitTypes
    <2>2. \A t \in Ticks : t > newest' => t # now /\ t > newest
      BY <1>2, <1>4, LimitNumbers DEF Ticks
    <2> QED
      BY <1>1, <1>4, <1>5, <2>1, <2>2 DEF StampsAreRecent
  <1>9. ASSUME ~reordered' PROVE BucketIsNewest' /\ LeftIsWithinBudget' /\ MissingWasAdmitted' /\ WithinBucket'
    <2>1. ~reordered /\ newest <= now /\ newest' = now
      BY <1>2, <1>4, <1>9
    <2>2. BucketIsNewest'
      BY <1>2, <1>4, <1>6, <2>1, LimitNumbers DEF BucketIsNewest
    <2>3. /\ \A from \in 0 .. now :
                CountIn(admitted, from, now) + Tokens(now) <= BucketCapacity + Refilled(now - from)
          /\ \E from \in 0 .. now :
                BucketCapacity + Refilled(now - from) <= CountIn(admitted, from, now) + Tokens(now)
      BY <1>1, <1>2, <2>1, TokensInOrder
    <2>4. ASSUME NEW from \in 0 .. now
          PROVE  CountIn(admitted', from, now) + bucket'.tokens = CountIn(admitted, from, now) + Tokens(now)
      <3>1. CountIn(admitted, from, now) \in Nat
        BY <1>1, CountIsNumber DEF LimitTypes
      <3>2. CASE Tokens(now) >= 1
        <4>1. now \in Span(from, now)
          BY <1>2 DEF Span
        <4>2. CountIn(admitted', from, now) = CountIn(admitted, from, now) + 1
          <5>1. admitted \in [Ticks -> Nat]
            BY <1>1 DEF LimitTypes
          <5>2. admitted'[now] = admitted[now] + 1
            BY <1>2, <1>4, <3>2, <5>1
          <5> QED
            BY <1>2, <1>5, <4>1, <5>1, <5>2, CountOneMore
        <4> QED
          BY <1>3, <1>6, <3>1, <3>2, <4>2, LimitNumbers
      <3>3. CASE ~(Tokens(now) >= 1)
        BY <1>4, <1>6, <3>3
      <3> QED
        BY <3>2, <3>3
    <2>5. LeftIsWithinBudget'
      BY <2>1, <2>3, <2>4 DEF LeftIsWithinBudget
    <2>6. MissingWasAdmitted'
      BY <2>1, <2>3, <2>4 DEF MissingWasAdmitted
    <2>7. WithinBucket'
      <3> SUFFICES ASSUME NEW from \in Ticks, NEW to \in from .. MaxTime
                   PROVE  CountIn(admitted', from, to) <= BucketCapacity + Refilled(to - from)
        BY DEF WithinBucket, Refilled
      <3>1. from \in Nat /\ to \in Nat /\ from <= to /\ to - from \in Nat /\ Refilled(to - from) \in Nat
        <4>1. from \in Nat /\ to \in Nat /\ from <= to /\ to - from \in Nat
          BY LimitNumbers DEF Ticks
        <4> QED
          BY <4>1, Refill
      <3>2. CASE to < now
        <4>1. now \notin Span(from, to)
          BY <1>2, <3>1, <3>2 DEF Span
        <4>2. CountIn(admitted', from, to) = CountIn(admitted, from, to)
          <5>2. admitted \in [Ticks -> Nat]
            BY <1>1 DEF LimitTypes
          <5>3. CASE Tokens(now) >= 1
            <6>1. admitted'[now] = admitted[now] + 1
              BY <1>2, <1>4, <5>2, <5>3
            <6> QED
              BY <1>2, <1>5, <4>1, <5>2, <6>1, CountOneMore
          <5>4. CASE ~(Tokens(now) >= 1)
            BY <1>4, <5>4
          <5> QED
            BY <5>3, <5>4
        <4>3. CountIn(admitted, from, to) <= BucketCapacity + Refilled(to - from)
          BY <1>1, <2>1 DEF LimitInv, BucketInv, WithinBucket, Refilled
        <4> QED
          BY <4>2, <4>3
      <3>3. CASE now <= to /\ from <= now
        <4>1. CountIn(admitted', from, to) = CountIn(admitted', from, now)
          <5>1. CountIn(admitted', from, to) = CountIn(admitted', from, now) + CountIn(admitted', now + 1, to)
            BY <1>2, <1>5, <3>1, <3>3, CountSplits
          <5>2. \A t \in Span(now + 1, to) : admitted'[t] = 0
            BY <1>2, <1>8, <2>1, LimitNumbers DEF StampsAreRecent, Span, Ticks
          <5>3. CountIn(admitted', now + 1, to) = 0 /\ CountIn(admitted', from, now) \in Nat
            BY <1>5, <5>2, CountIsNumber
          <5> QED
            BY <5>1, <5>3
        <4>2. from \in 0 .. now
          BY <1>2, <3>1, <3>3
        <4>3. CountIn(admitted', from, now) + bucket'.tokens <= BucketCapacity + Refilled(now - from)
          BY <2>3, <2>4, <4>2
        <4>4. Refilled(now - from) <= Refilled(to - from) /\ Refilled(now - from) \in Int
          <5>1. now - from \in Int /\ to - from \in Int /\ now - from <= to - from
            BY <1>2, <3>1, <3>3
          <5> QED
            BY <5>1, Refill
        <4>5. bucket'.tokens \in Nat /\ CountIn(admitted', from, now) \in Nat
          BY <1>5, <1>6, CountIsNumber, LimitNumbers
        <4> QED
          BY <3>1, <4>1, <4>3, <4>4, <4>5, LimitNumbers
      <3>4. CASE now < from
        <4>1. \A t \in Span(from, to) : admitted'[t] = 0
          BY <1>2, <1>8, <2>1, <3>1, <3>4, LimitNumbers DEF StampsAreRecent, Span, Ticks
        <4>2. CountIn(admitted', from, to) = 0
          BY <1>5, <4>1, CountIsNumber
        <4> QED
          BY <3>1, <4>2, LimitNumbers
      <3> QED
        BY <1>2, <3>1, <3>2, <3>3, <3>4
    <2> QED
      BY <2>2, <2>5, <2>6, <2>7
  <1>10. BucketInv' /\ EntriesAreAdmitted' /\ WindowInv'
    BY <1>1, <1>4, <1>9 DEF BucketInv, EntriesAreAdmitted, WindowInv
  <1> QED
    BY <1>7, <1>8, <1>10 DEF LimitInv

\* What ZREMRANGEBYSCORE leaves: no more than there was, all of the window without delay.
LEMMA KeptEntries ==
  ASSUME LimitInv, algorithm = "sliding_window", NEW now \in Nat
  PROVE  /\ InWindow(now) \in [Ticks -> Nat]
         /\ \A t \in Ticks : /\ InWindow(now)[t] <= admitted[t]
                             /\ t <= now - WindowMs => InWindow(now)[t] = 0
         /\ ~delayed /\ now = clock =>
               \A t \in Ticks : t > now - WindowMs => InWindow(now)[t] = admitted[t]
  <1>1. /\ entries \in [Ticks -> Nat] /\ admitted \in [Ticks -> Nat]
        /\ \A t \in Ticks : entries[t] <= admitted[t]
        /\ clock \in Nat /\ expires \in Nat /\ \A t \in Ticks : t \in Nat
    BY LimitNumbers DEF LimitInv, LimitTypes, EntriesAreAdmitted, Ticks
  <1>2. \A t \in Ticks :
           InWindow(now)[t] = IF clock >= expires \/ t <= now - WindowMs THEN 0 ELSE entries[t]
    BY DEF InWindow
  <1>3. InWindow(now) \in [Ticks -> Nat]
    BY <1>1 DEF InWindow
  <1>4. ASSUME ~delayed, now = clock, NEW t \in Ticks, t > now - WindowMs
        PROVE  InWindow(now)[t] = admitted[t]
    <2>1. /\ clock < expires => entries[t] = admitted[t]
          /\ admitted[t] > 0 => t + WindowMs <= expires
      BY <1>4 DEF LimitInv, WindowInv
    <2>2. clock >= expires => admitted[t] = 0
      BY <1>1, <1>4, <2>1, LimitNumbers
    <2> QED
      BY <1>1, <1>2, <1>4, <2>1, <2>2, LimitNumbers
  <1> QED
    BY <1>1, <1>2, <1>3, <1>4, LimitNumbers

\* A script of the window adds its request if there is room.
LEMMA SlidingWindowInv == ASSUME LimitInv, NEW c \in Checkers, SlidingWindow(c) PROVE LimitInv'
  <1> DEFINE now == request[c]
             kept == InWindow(now)
             allowed == CountIn(kept, 0, MaxTime) < Limit
  <1>1. LimitTypes /\ StampsAreRecent /\ algorithm = "sliding_window" /\ now # NoStamp
    BY DEF LimitInv, SlidingWindow
  <1>2. /\ now \in 0 .. clock /\ now \in Ticks /\ now \in Nat
        /\ newest \in Nat /\ newest <= clock /\ clock \in Nat
    BY <1>1, LimitNumbers, SMTT(30) DEF LimitTypes, NoStamp, Ticks
  <1>3. /\ kept \in [Ticks -> Nat]
        /\ \A t \in Ticks : kept[t] <= admitted[t]
        /\ ~delayed /\ now = clock => \A t \in Ticks : t > now - WindowMs => kept[t] = admitted[t]
    BY <1>1, <1>2, KeptEntries
  <1>4. /\ UNCHANGED <<algorithm, clock, bucket>> /\ expires' = clock + WindowMs
        /\ newest' = (IF newest <= now THEN now ELSE newest)
        /\ (delayed' <=> delayed \/ now < clock) /\ reordered' \in BOOLEAN /\ delayed' \in BOOLEAN
        /\ request' = [request EXCEPT ![c] = NoStamp]
        /\ entries' = IF allowed THEN [kept EXCEPT ![now] = @ + 1] ELSE kept
        /\ admitted' = IF allowed THEN [admitted EXCEPT ![now] = @ + 1] ELSE admitted
    <2>1. newest' = Max({newest, now})
      BY DEF SlidingWindow, Record
    <2>2. newest' = (IF newest <= now THEN now ELSE newest)
      BY <1>2, <2>1, MaxMin
    <2>3. (delayed' <=> delayed \/ now < clock) /\ reordered' \in BOOLEAN /\ delayed' \in BOOLEAN
      BY DEF SlidingWindow, Record
    <2>4. /\ UNCHANGED <<algorithm, clock, bucket>> /\ expires' = clock + WindowMs
          /\ request' = [request EXCEPT ![c] = NoStamp]
          /\ entries' = IF allowed THEN [kept EXCEPT ![now] = @ + 1] ELSE kept
          /\ admitted' = IF allowed THEN [admitted EXCEPT ![now] = @ + 1] ELSE admitted
      BY DEF SlidingWindow, Record
    <2> QED
      BY <2>2, <2>3, <2>4
  <1> HIDE DEF now, kept
  <1>5. /\ admitted' \in [Ticks -> Nat] /\ entries' \in [Ticks -> Nat]
        /\ \A t \in Ticks \ {now} : admitted'[t] = admitted[t] /\ entries'[t] = kept[t]
        /\ admitted'[now] = admitted[now] + (IF allowed THEN 1 ELSE 0)
        /\ entries'[now] = kept[now] + (IF allowed THEN 1 ELSE 0)
    <2>1. CASE allowed
      BY <1>1, <1>2, <1>3, <1>4, <2>1 DEF LimitTypes
    <2>2. CASE ~allowed
      BY <1>1, <1>2, <1>3, <1>4, <2>2 DEF LimitTypes
    <2> QED
      BY <2>1, <2>2
  <1>6. LimitTypes'
    <2>1. newest' \in 0 .. clock' /\ expires' \in Nat
      BY <1>2, <1>4, LimitNumbers
    <2>2. request' \in [Checkers -> {NoStamp} \cup 0 .. clock']
      BY <1>1, <1>4 DEF LimitTypes
    <2> QED
      BY <1>1, <1>4, <1>5, <2>1, <2>2 DEF LimitTypes
  <1>7. StampsAreRecent'
    <2>1. \A d \in Checkers : request'[d] # NoStamp => request'[d] = request[d]
      BY <1>1, <1>4 DEF LimitTypes
    <2>2. \A t \in Ticks : t > newest' => t # now /\ t > newest
      BY <1>2, <1>4, LimitNumbers DEF Ticks
    <2> QED
      BY <1>1, <1>4, <1>5, <2>1, <2>2 DEF StampsAreRecent
  <1>8. EntriesAreAdmitted'
    <2>1. \A t \in Ticks : kept[t] \in Nat /\ admitted[t] \in Nat /\ kept[t] <= admitted[t]
      BY <1>1, <1>3 DEF LimitTypes
    <2>2. ASSUME NEW t \in Ticks PROVE entries'[t] <= admitted'[t]
      <3>1. CASE t = now
        BY <1>2, <1>5, <2>1, <3>1
      <3>2. CASE t # now
        BY <1>5, <2>1, <3>2
      <3> QED
        BY <3>1, <3>2
    <2> QED
      BY <1>4, <2>2 DEF EntriesAreAdmitted
  <1>9. ASSUME ~delayed' PROVE WindowInv'
    <2>1. ~delayed /\ now = clock
      BY <1>2, <1>4, <1>9
    <2>2. \A t \in Ticks : t > clock - WindowMs => kept[t] = admitted[t] /\ entries'[t] = admitted'[t]
      BY <1>2, <1>3, <1>5, <2>1
    <2>3. \A t \in Ticks : admitted'[t] > 0 => t + WindowMs <= expires'
      <3>1. \A t \in Ticks : t \in Nat /\ (t > newest' => admitted'[t] = 0)
        BY <1>7, LimitNumbers DEF StampsAreRecent, Ticks
      <3>2. newest' \in Nat /\ newest' <= clock
        BY <1>2, <1>4
      <3> QED
        BY <1>2, <1>4, <3>1, <3>2, LimitNumbers
    <2>4. ASSUME NEW to \in Ticks PROVE CountIn(admitted', to - WindowMs + 1, to) <= Limit
      <3> DEFINE a == to - WindowMs + 1
      <3>1. to \in Nat /\ a \in Int /\ admitted \in [Ticks -> Nat]
        BY <1>1, LimitNumbers DEF LimitTypes, Ticks
      <3>2. CountIn(admitted, a, to) <= Limit
        BY <1>1, <2>1 DEF LimitInv, WindowInv, WithinWindow
      <3>3. CASE ~allowed
        BY <1>4, <3>2, <3>3
      <3>4. CASE allowed /\ now \notin Span(a, to)
        <4>1. CountIn(admitted', a, to) = CountIn(admitted, a, to)
          <5>1. admitted'[now] = admitted[now] + 1
            BY <1>5, <3>4
          <5> HIDE DEF allowed
          <5> QED
            BY <1>2, <1>5, <3>1, <3>4, <5>1, CountOneMore
        <4> QED
          BY <3>2, <4>1
      <3>5. CASE allowed /\ now \in Span(a, to)
        <4>1. CountIn(admitted', a, to) = CountIn(admitted, a, to) + 1
          <5>1. admitted'[now] = admitted[now] + 1
            BY <1>5, <3>5
          <5> HIDE DEF allowed
          <5> QED
            BY <1>2, <1>5, <3>1, <3>5, <5>1, CountOneMore
        <4>2. Span(a, to) \subseteq Span(0, MaxTime)
          BY LimitNumbers DEF Span, Ticks
        <4>3. \A t \in Span(a, to) : admitted[t] <= kept[t]
          <5>1. \A t \in Span(a, to) : t \in Ticks /\ t \in Nat /\ t > clock - WindowMs
            BY <1>2, <2>1, <3>1, <3>5, LimitNumbers DEF Span, Ticks
          <5> QED
            BY <2>2, <3>1, <5>1
        <4>4. CountIn(admitted, a, to) <= CountIn(kept, 0, MaxTime)
          <5> HIDE DEF a
          <5> QED
            BY <1>3, <3>1, <4>2, <4>3, CountGrows
        <4>5. CountIn(admitted, a, to) \in Nat /\ CountIn(kept, 0, MaxTime) \in Nat
          BY <1>3, <3>1, CountIsNumber
        <4> QED
          BY <3>5, <4>1, <4>4, <4>5, LimitNumbers
      <3> QED
        BY <3>3, <3>4, <3>5
    <2> QED
      BY <1>4, <2>2, <2>3, <2>4 DEF WindowInv, WithinWindow
  <1>10. BucketInv' /\ WindowInv'
    BY <1>1, <1>4, <1>9 DEF BucketInv, WindowInv
  <1> QED
    BY <1>6, <1>7, <1>8, <1>10 DEF LimitInv

\* A stamp is taken now; time passes while every request may still be on its way.
LEMMA LimitStepInv == LimitInv /\ [LimitNext]_limitVars => LimitInv'
  <1> SUFFICES ASSUME LimitInv, [LimitNext]_limitVars PROVE LimitInv'
    OBVIOUS
  <1>1. ASSUME NEW c \in Checkers, ReadClock(c) PROVE LimitInv'
    <2>1. /\ request' = [request EXCEPT ![c] = clock] /\ request \in [Checkers -> {NoStamp} \cup 0 .. clock]
          /\ UNCHANGED <<algorithm, clock, bucket, entries, expires, admitted, newest, reordered, delayed>>
          /\ clock \in Nat
      BY <1>1, LimitNumbers DEF ReadClock, LimitInv, LimitTypes, Ticks
    <2>2. LimitTypes'
      BY <2>1 DEF LimitInv, LimitTypes
    <2>3. StampsAreRecent'
      <3>1. \A d \in Checkers : request'[d] = IF d = c THEN clock ELSE request[d]
        BY <2>1
      <3> QED
        BY <2>1, <3>1, LimitNumbers DEF LimitInv, StampsAreRecent
    <2>4. BucketInv' /\ EntriesAreAdmitted' /\ WindowInv'
      BY <2>1 DEF LimitInv, BucketInv, BucketIsNewest, LeftIsWithinBudget, MissingWasAdmitted, WithinBucket,
                  EntriesAreAdmitted, WindowInv, WithinWindow
    <2> QED
      BY <2>2, <2>3, <2>4 DEF LimitInv
  <1>2. CASE PassTime
    <2>1. /\ clock' = clock + 1 /\ clock < MaxTime /\ clock \in Nat /\ newest \in 0 .. clock
          /\ \A c \in Checkers : request[c] # NoStamp => clock < request[c] + MaxDelay
          /\ UNCHANGED <<algorithm, request, bucket, entries, expires, admitted, newest, reordered, delayed>>
      BY <1>2, LimitNumbers DEF PassTime, LimitInv, LimitTypes, Ticks
    <2>2. LimitTypes'
      <3>1. clock' \in Ticks /\ newest' \in 0 .. clock' /\ 0 .. clock \subseteq 0 .. clock'
        BY <2>1, LimitNumbers DEF Ticks
      <3> QED
        BY <2>1, <3>1 DEF LimitInv, LimitTypes
    <2>3. StampsAreRecent'
      <3>1. \A c \in Checkers : request[c] # NoStamp => clock + 1 <= request[c] + MaxDelay
        <4>1. \A c \in Checkers : request[c] \in Int
          BY <2>1 DEF LimitInv, LimitTypes, NoStamp
        <4> QED
          BY <2>1, <4>1, LimitNumbers
      <3> QED
        BY <2>1, <3>1 DEF LimitInv, StampsAreRecent
    <2>4. BucketInv' /\ EntriesAreAdmitted'
      BY <2>1 DEF LimitInv, BucketInv, BucketIsNewest, LeftIsWithinBudget, MissingWasAdmitted, WithinBucket,
                  EntriesAreAdmitted
    <2>5. WindowInv'
      <3>1. /\ clock' < expires => clock < expires
            /\ \A t \in Ticks : t > clock' - WindowMs => t > clock - WindowMs
        BY <2>1, LimitNumbers DEF LimitInv, LimitTypes, Ticks
      <3> QED
        BY <2>1, <3>1 DEF LimitInv, WindowInv, WithinWindow
    <2> QED
      BY <2>2, <2>3, <2>4, <2>5 DEF LimitInv
  <1>3. CASE UNCHANGED limitVars
    BY <1>3 DEF limitVars, LimitInv, LimitTypes, StampsAreRecent, BucketInv, BucketIsNewest, LeftIsWithinBudget,
                MissingWasAdmitted, WithinBucket, EntriesAreAdmitted, WindowInv, WithinWindow
  <1> QED
    BY <1>1, <1>2, <1>3, TokenBucketInv, SlidingWindowInv DEF LimitNext

\* The invariant holds throughout.
LEMMA LimitInvariant == LimitSpec => []LimitInv
  BY LimitInitInv, LimitStepInv, PTL DEF LimitSpec

\* Each limiter keeps to its budget, for every capacity, rate, window and limit:
\* the token bucket as long as its scripts run in the order of their stamps, the
\* sliding window as long as each runs in the tick of its stamp.
THEOREM LimitersKeepTheirBudgets == LimitSpec => []BudgetsHold
  <1>1. LimitInv => BudgetsHold
    BY DEF LimitInv, BucketInv, WindowInv, BudgetsHold, BucketBudget, WindowBudget
  <1> QED
    BY <1>1, LimitInvariant, PTL

\* An empty bucket was emptied within the time it takes to fill: what was admitted
\* up to top is more than the budget of the time before allows.
LEMMA EmptyBucket ==
  ASSUME LimitTypes, WithinBucket, NEW top \in Ticks, NEW from \in 0 .. top,
         BucketCapacity + Refilled(top - from) <= CountIn(admitted, from, top)
  PROVE  CountIn(admitted, top - BucketCapacity \div RefillPerTick, top) >= BucketCapacity
  <1> DEFINE fill == BucketCapacity \div RefillPerTick
             start == top - fill
  <1>1. fill \in Nat /\ BucketCapacity <= Refilled(fill + 1)
    BY TimeToFill
  <1>2. top \in Nat /\ top <= MaxTime /\ from \in Nat /\ from <= top /\ admitted \in [Ticks -> Nat]
    BY LimitNumbers DEF LimitTypes, Ticks
  <1>3. start \in Int /\ CountIn(admitted, start, top) \in Nat /\ CountIn(admitted, from, top) \in Nat
    BY <1>1, <1>2, CountIsNumber
  <1> HIDE DEF fill
  <1>4. CASE start <= from
    <2>1. CountIn(admitted, from, top) <= CountIn(admitted, start, top)
      <3>1. Span(from, top) \subseteq Span(start, top)
        BY <1>2, <1>3, <1>4, LimitNumbers DEF Span, Ticks
      <3>2. \A t \in Span(from, top) : admitted[t] <= admitted[t]
        BY <1>2 DEF Span
      <3> HIDE DEF start
      <3> QED
        BY <1>2, <3>1, <3>2, CountGrows
    <2>2. Refilled(top - from) \in Nat
      <3>1. top - from \in Nat
        BY <1>2
      <3> QED
        BY <3>1, Refill
    <2> QED
      BY <1>3, <2>1, <2>2, LimitNumbers DEF fill
  <1>5. CASE from < start
    <2>1. CountIn(admitted, from, top) = CountIn(admitted, from, start - 1) + CountIn(admitted, start, top)
      <3>1. start - 1 \in Int /\ from <= (start - 1) + 1 /\ start - 1 <= top /\ (start - 1) + 1 = start
        BY <1>1, <1>2, <1>3, <1>5
      <3>2. CountIn(admitted, from, top) =
               CountIn(admitted, from, start - 1) + CountIn(admitted, (start - 1) + 1, top)
        <4> HIDE DEF start
        <4> QED
          BY <1>2, <3>1, CountSplits
      <3> QED
        BY <3>1, <3>2
    <2>2. CountIn(admitted, from, start - 1) <= BucketCapacity + Refilled((start - 1) - from)
      <3>1. from \in Ticks /\ start - 1 \in from .. MaxTime
        BY <1>1, <1>2, <1>3, <1>5, LimitNumbers DEF Ticks
      <3> HIDE DEF start
      <3> QED
        BY <3>1 DEF WithinBucket, Refilled
    <2>3. Refilled(top - from) = Refilled((start - 1) - from) + Refilled(fill + 1)
      <3>1. top - from = ((start - 1) - from) + (fill + 1) /\ (start - 1) - from \in Int /\ fill + 1 \in Int
        BY <1>1, <1>2, <1>3
      <3> HIDE DEF start
      <3> QED
        BY <3>1, Refill
    <2>4. Refilled((start - 1) - from) \in Int /\ Refilled(fill + 1) \in Int
      <3>1. (start - 1) - from \in Int /\ fill + 1 \in Int
        BY <1>1, <1>2, <1>3
      <3> HIDE DEF start
      <3> QED
        BY <3>1, Refill
    <2>5. CountIn(admitted, from, start - 1) \in Nat
      BY <1>2, CountIsNumber
    <2>6. CountIn(admitted, start, top) >= BucketCapacity
      <3> HIDE DEF start
      <3> QED
        BY <1>1, <1>3, <2>1, <2>2, <2>3, <2>4, <2>5, LimitNumbers
    <2> QED
      BY <2>6 DEF fill
  <1> QED
    BY <1>2, <1>3, <1>4, <1>5

\* The token bucket refuses for want of a token only.
LEMMA BucketRefuses ==
  ASSUME LimitInv, NEW c \in Checkers, TokenBucket(c), admitted' = admitted PROVE Spent(request[c])
  <1> DEFINE now == request[c]
  <1>1. LimitTypes /\ StampsAreRecent /\ algorithm = "token_bucket" /\ now # NoStamp
    BY DEF LimitInv, TokenBucket
  <1>2. /\ now \in Ticks /\ now \in Nat /\ now <= clock /\ clock <= now + MaxDelay
        /\ newest \in Ticks /\ newest \in Nat /\ newest <= clock /\ clock \in Nat
        /\ admitted \in [Ticks -> Nat] /\ bucket.tokens \in 0 .. BucketCapacity
    BY <1>1, LimitNumbers DEF LimitTypes, StampsAreRecent, NoStamp, Ticks
  <1>3. Tokens(now) = 0
    <2>1. Tokens(now) \in 0 .. BucketCapacity
      BY <1>1, <1>2, TokensFound
    <2>2. ~(Tokens(now) >= 1)
      <3>1. SUFFICES ASSUME Tokens(now) >= 1 PROVE FALSE
        OBVIOUS
      <3>2. admitted' = [admitted EXCEPT ![now] = @ + 1]
        BY <3>1 DEF TokenBucket, Record
      <3>3. admitted'[now] = admitted[now] + 1 /\ admitted[now] \in Nat
        BY <1>2, <3>2
      <3> QED
        BY <3>3
    <2> QED
      BY <2>1, <2>2, LimitNumbers
  <1> HIDE DEF now
  <1> SUFFICES ASSUME ~reordered
               PROVE  CountIn(admitted, now - BucketCapacity \div RefillPerTick, MaxTime) >= BucketCapacity
    BY <1>1 DEF Spent, now
  <1>4. /\ bucket.last_refill_ms = newest /\ WithinBucket /\ MissingWasAdmitted
    BY <1>1 DEF LimitInv, BucketInv, BucketIsNewest
  <1>5. \E top \in Ticks : \E from \in 0 .. top :
           now <= top /\ BucketCapacity + Refilled(top - from) <= CountIn(admitted, from, top)
    <2>1. CASE newest <= now
      <3>1. PICK from \in 0 .. now :
               BucketCapacity + Refilled(now - from) <= CountIn(admitted, from, now) + Tokens(now)
        BY <1>1, <1>2, <2>1, TokensInOrder
      <3>2. CountIn(admitted, from, now) + Tokens(now) = CountIn(admitted, from, now)
        BY <1>2, <1>3, CountIsNumber
      <3>3. BucketCapacity + Refilled(now - from) <= CountIn(admitted, from, now)
        BY <3>1, <3>2
      <3> QED
        BY <1>2, <3>3
    <2>2. CASE now < newest /\ clock < expires
      <3>1. bucket.tokens = 0
        BY <1>1, <1>2, <1>3, <1>4, <2>2, TokensFound
      <3>2. PICK from \in 0 .. newest :
               BucketCapacity + Refilled(newest - from) <= CountIn(admitted, from, newest) + bucket.tokens
        BY <1>4 DEF MissingWasAdmitted
      <3>3. CountIn(admitted, from, newest) + bucket.tokens = CountIn(admitted, from, newest)
        BY <1>2, <3>1, CountIsNumber
      <3>4. BucketCapacity + Refilled(newest - from) <= CountIn(admitted, from, newest)
        BY <3>2, <3>3
      <3> QED
        BY <1>2, <2>2, <3>4
    <2>3. CASE clock >= expires
      <3>1. BucketCapacity = 0
        BY <1>1, <1>2, <1>3, <2>3, TokensFound
      <3>2. CountIn(admitted, now, now) \in Nat /\ now - now = 0 /\ Refilled(0) = 0
        <4>1. now - now = 0
          BY <1>2
        <4>2. CountIn(admitted, now, now) \in Nat
          BY <1>2, CountIsNumber
        <4> QED
          BY <4>1, <4>2, Refill
      <3>3. BucketCapacity + Refilled(now - now) <= CountIn(admitted, now, now)
        BY <3>1, <3>2
      <3>4. now \in 0 .. now /\ now <= now
        BY <1>2
      <3> QED
        BY <1>2, <3>3, <3>4
    <2>4. expires \in Nat
      BY <1>1 DEF LimitTypes
    <2> QED
      BY <1>2, <2>1, <2>2, <2>3, <2>4
  <1>6. PICK top \in Ticks : \E from \in 0 .. top :
           now <= top /\ BucketCapacity + Refilled(top - from) <= CountIn(admitted, from, top)
    BY <1>5
  <1> DEFINE fill == BucketCapacity \div RefillPerTick
  <1>7. CountIn(admitted, top - fill, top) >= BucketCapacity
    BY <1>1, <1>4, <1>6, EmptyBucket
  <1>8. CountIn(admitted, top - fill, top) <= CountIn(admitted, now - fill, MaxTime)
    <2>1. fill \in Nat /\ top \in Nat /\ now <= top
      BY <1>6, TimeToFill, LimitNumbers DEF Ticks
    <2> HIDE DEF fill
    <2>2. Span(top - fill, top) \subseteq Span(now - fill, MaxTime)
      BY <1>2, <2>1, LimitNumbers DEF Span, Ticks
    <2>3. \A t \in Span(top - fill, top) : admitted[t] <= admitted[t]
      BY <1>2 DEF Span
    <2> QED
      BY <1>2, <2>2, <2>3, CountGrows
  <1>9. CountIn(admitted, top - fill, top) \in Nat /\ CountIn(admitted, now - fill, MaxTime) \in Nat
    BY <1>2, CountIsNumber
  <1> QED
    BY <1>7, <1>8, <1>9, LimitNumbers

\* The window refuses for want of room only.
LEMMA WindowRefuses ==
  ASSUME LimitInv, NEW c \in Checkers, SlidingWindow(c), admitted' = admitted PROVE Spent(request[c])
  <1> DEFINE now == request[c]
             kept == InWindow(now)
             first == now - WindowMs + 1
  <1>1. LimitTypes /\ algorithm = "sliding_window" /\ now # NoStamp
    BY DEF LimitInv, SlidingWindow
  <1>2. now \in Ticks /\ now \in Nat /\ now <= MaxTime /\ admitted \in [Ticks -> Nat] /\ first \in Int
    BY <1>1, LimitNumbers, SMTT(30) DEF LimitTypes, NoStamp, Ticks
  <1>3. /\ kept \in [Ticks -> Nat]
        /\ \A t \in Ticks : kept[t] <= admitted[t] /\ (t <= now - WindowMs => kept[t] = 0)
    BY <1>1, <1>2, KeptEntries
  <1>4. ~(CountIn(kept, 0, MaxTime) < Limit)
    <2>1. SUFFICES ASSUME CountIn(kept, 0, MaxTime) < Limit PROVE FALSE
      OBVIOUS
    <2>2. admitted' = [admitted EXCEPT ![now] = @ + 1]
      BY <2>1 DEF SlidingWindow, Record
    <2>3. admitted'[now] = admitted[now] + 1 /\ admitted[now] \in Nat
      BY <1>2, <2>2
    <2> QED
      BY <2>3
  <1> HIDE DEF kept
  <1>5. CountIn(kept, 0, MaxTime) \in Nat /\ CountIn(admitted, first, MaxTime) \in Nat
    BY <1>2, <1>3, CountIsNumber
  <1>6. CountIn(kept, first, MaxTime) \in Nat /\ CountIn(kept, first, MaxTime) <= CountIn(admitted, first, MaxTime)
    <2>1. \A t \in Span(first, MaxTime) : kept[t] <= admitted[t]
      BY <1>3 DEF Span
    <2> HIDE DEF first
    <2> QED
      BY <1>2, <1>3, <2>1, CountIsNumber, CountGrows
  <1>7. CountIn(kept, 0, MaxTime) <= CountIn(kept, first, MaxTime)
    <2>1. CASE first <= 0
      <3>1. Span(0, MaxTime) \subseteq Span(first, MaxTime) /\ \A t \in Span(0, MaxTime) : kept[t] <= kept[t]
        BY <1>2, <1>3, <2>1, LimitNumbers, SMTT(30) DEF Span, Ticks
      <3> HIDE DEF first
      <3> QED
        BY <1>3, <3>1, CountGrows
    <2>2. CASE first > 0
      <3>1. now - WindowMs \in Int /\ 0 <= (now - WindowMs) + 1 /\ now - WindowMs <= MaxTime
            /\ (now - WindowMs) + 1 = first /\ 0 \in Int /\ MaxTime \in Int
        BY <1>2, <2>2, LimitNumbers
      <3>2. CountIn(kept, 0, MaxTime) =
               CountIn(kept, 0, now - WindowMs) + CountIn(kept, (now - WindowMs) + 1, MaxTime)
        BY <1>3, <3>1, CountSplits
      <3>3. CountIn(kept, 0, now - WindowMs) = 0
        <4>1. \A t \in Span(0, now - WindowMs) : kept[t] = 0
          BY <1>3 DEF Span
        <4> QED
          BY <1>3, <4>1, CountIsNumber
      <3> QED
        BY <1>5, <1>6, <3>1, <3>2, <3>3
    <2> QED
      BY <1>2, <2>1, <2>2
  <1>8. CountIn(admitted, first, MaxTime) >= Limit
    <2> HIDE DEF first
    <2> QED
      BY <1>4, <1>5, <1>6, <1>7, LimitNumbers
  <1> QED
    BY <1>1, <1>8 DEF Spent

\* Nobody is refused while there is something left: a refusal means that others
\* were admitted as many as the limiter allows in the time it looks back.
THEOREM RefusalsAreEarned == LimitSpec => RefusedOnlyWhenSpent
  <1> DEFINE Earned == \A c \in Checkers :
                request[c] # NoStamp /\ request'[c] = NoStamp /\ admitted' = admitted => Spent(request[c])
  <1>1. ASSUME LimitInv, LimitNext PROVE Earned
    <2> SUFFICES ASSUME NEW c \in Checkers, request[c] # NoStamp, request'[c] = NoStamp, admitted' = admitted
                 PROVE  Spent(request[c])
      OBVIOUS
    <2>1. request \in [Checkers -> {NoStamp} \cup 0 .. clock] /\ clock \in Nat
      BY <1>1, LimitNumbers DEF LimitInv, LimitTypes, Ticks
    <2>2. ASSUME NEW d \in Checkers, ReadClock(d) PROVE FALSE
      <3>1. request[d] = NoStamp /\ request' = [request EXCEPT ![d] = clock]
        BY <2>2 DEF ReadClock
      <3> QED
        BY <2>1, <3>1
    <2>3. ASSUME NEW d \in Checkers, TokenBucket(d) \/ SlidingWindow(d) PROVE d = c
      <3>1. request' = [request EXCEPT ![d] = NoStamp]
        BY <2>3 DEF TokenBucket, SlidingWindow, Record
      <3> QED
        BY <2>1, <3>1
    <2>4. ~PassTime
      BY DEF PassTime
    <2> QED
      BY <1>1, <2>2, <2>3, <2>4, BucketRefuses, WindowRefuses DEF LimitNext
  <1>2. LimitInv /\ [LimitNext]_limitVars => [Earned]_limitVars
    BY <1>1
  <1> QED
    BY <1>2, LimitInvariant, PTL DEF LimitSpec, RefusedOnlyWhenSpent

-----------------------------------------------------------------------------
(* Retries under the breaker: what the callers and their breaker may hold. *)

HealthStates == {"healthy", "down-fail-fast", "down-hang", "rejecting", "degraded"}
Outcomes == {"ok", "transient", "fatal", "timeout", "rejected"}

WireAnswers == [answer : {"ok", "transient", "fatal", "none"}, latency : {"fast", "slow", "hang", "none"}]
Positions == [at : Nat \ {0}, phase : {"next", "attempt", "waiting", "backoff"}, attempt : Nat \ {0}]

\* What the callers, the wire and the counters may hold.
RetryTypes ==
    /\ exercise \in DOMAIN Exercises
    /\ health \in HealthStates
    /\ caller \in [StormCallers -> Positions]
    /\ onTheWire \in [StormCallers -> WireAnswers]
    /\ totalCallCount \in Nat /\ chargesApplied \in Nat
    /\ outcomes \in [StormCallers -> Seq(Outcomes)]

\* A retry loop stays within its attempts, and belongs to a request of the script.
LoopsAreBounded ==
    \A c \in StormCallers :
       /\ caller[c].at <= Len(Its.steps) + 1 /\ caller[c].attempt <= Its.maxAttempts
       /\ Phase(c, "next") => caller[c].attempt = 1
       /\ Phase(c, "backoff") => caller[c].attempt < Its.maxAttempts
       /\ Phase(c, "waiting") => onTheWire[c].answer # "none"
       /\ ~Phase(c, "next") => More(c) /\ StepOf(c).op \in RequestOps

\* The calls of the request under way.
CallsMade(c) ==
    IF caller[c].phase \in {"next", "attempt"} THEN caller[c].attempt - 1 ELSE caller[c].attempt

\* Every request behind the script's position cost at most its attempts.
CostIsBounded ==
    exercise # "retry_storm" =>
        totalCallCount <= (caller[Solo].at - 1) * Its.maxAttempts + CallsMade(Solo)

\* The one caller of a guarded script, as its breaker sees it.
BreakerFollows ==
    Its.guarded =>
        /\ call[Solo] = "idle" <=> Phase(Solo, "next")
        /\ call[Solo] = "call" => state = "CLOSED"
        /\ state = "HALF_OPEN" <=> call[Solo] = "probe"
        /\ \A d \in Callers \ {Solo} : call[d] = "idle"

-----------------------------------------------------------------------------
(* Where each exercise stands. *)

At == caller[Solo].at
Waits == Phase(Solo, "waiting")
Comes == onTheWire[Solo].answer
Calls(c) == 3 * (caller[c].at - 1) + CallsMade(c)

HangStands ==
    /\ health = "down-hang" /\ (Waits => Comes = "ok")
    /\ At = 1 => outcomes[Solo] = <<>>
    /\ At = 2 => outcomes[Solo] = <<"ok">>
TimeoutStands ==
    /\ health = "down-hang" /\ (Waits => onTheWire[Solo] = Answer("ok", "hang"))
    /\ Len(outcomes[Solo]) = At - 1
    /\ \A i \in 1 .. At - 1 : outcomes[Solo][i] = "timeout"
StormStands ==
    /\ health = "down-fail-fast"
    /\ \A c \in StormCallers : Phase(c, "waiting") => onTheWire[c].answer = "transient"
    /\ totalCallCount = Total([c \in StormCallers |-> Calls(c)], StormCallers)
RecoversStands ==
    /\ At = 1 =>
          /\ outcomes[Solo] = <<>> /\ totalCallCount = CallsMade(Solo) /\ caller[Solo].attempt <= 4
          /\ health = IF CallsMade(Solo) < 4 THEN "down-fail-fast" ELSE "healthy"
          /\ Waits => Comes = IF caller[Solo].attempt < 4 THEN "transient" ELSE "ok"
          /\ Phase(Solo, "backoff") => caller[Solo].attempt < 4
    /\ At = 2 => outcomes[Solo] = <<"ok">> /\ totalCallCount = 4
NeverRetriedStands ==
    /\ health = "rejecting" /\ (Waits => Comes = "fatal")
    /\ ~Phase(Solo, "backoff") /\ caller[Solo].attempt = 1
    /\ At = 1 => outcomes[Solo] = <<>> /\ totalCallCount = CallsMade(Solo)
    /\ At = 2 => outcomes[Solo] = <<"fatal">> /\ totalCallCount = 1

\* The positions of CircuitBreakerTrip: threshold failures, up to two more,
\* the probe after the cooldown at Probing; a failure for each step after
\* Failing; the last probe after Cooling.
Probing == FailureThreshold + 5
Failing == FailureThreshold + 7
Cooling == 2 * FailureThreshold + 7
TripDone(n) ==
    CASE n <= FailureThreshold + 3 -> n - 1
      [] n \in FailureThreshold + 4 .. Probing -> FailureThreshold + 2
      [] n = Probing + 1 -> FailureThreshold + 3
      [] n \in Failing .. Cooling -> n - 4
      [] n > Cooling -> n - 5
TripStands ==
    /\ ~Phase(Solo, "backoff")
    /\ health = IF At \in FailureThreshold + 4 .. Probing + 1 THEN "healthy" ELSE "down-fail-fast"
    /\ Waits => Comes = IF At = Probing THEN "ok" ELSE "transient"
    /\ state = "CLOSED" <=> At <= FailureThreshold \/ At \in Probing + 1 .. Cooling - 1
    /\ At <= FailureThreshold => consecutiveFailures = At - 1
    /\ At = Probing + 1 => consecutiveFailures = 0
    /\ At \in Failing .. Cooling - 1 => consecutiveFailures = At - Failing
    /\ At \in {Probing, Cooling + 1} /\ Phase(Solo, "next") => sinceOpened >= CooldownMs
    /\ Len(outcomes[Solo]) = TripDone(At)
    /\ \A i \in 1 .. Len(outcomes[Solo]) :
          /\ i <= FailureThreshold => Got(i) = "transient"
          /\ i = FailureThreshold + 3 => Got(i) = "ok"
ComposedDone(n) ==
    CASE n <= FailureThreshold + 3 -> n - 1
      [] n \in FailureThreshold + 4 .. Probing -> FailureThreshold + 2
      [] n > Probing -> FailureThreshold + 3
ComposedStands ==
    /\ At >= FailureThreshold + 4 => health = "healthy"
    /\ At = Probing /\ Waits => Comes = "ok"
    /\ health = "down-fail-fast" =>
          /\ Waits => Comes = "transient"
          /\ state = "CLOSED" => consecutiveFailures = At - 1
    /\ At = Probing /\ Phase(Solo, "next") => sinceOpened >= CooldownMs
    /\ Len(outcomes[Solo]) = ComposedDone(At)
    /\ At > Probing => Got(FailureThreshold + 3) \in {"ok", "timeout"}
DoubleStands ==
    /\ health = "healthy" /\ (Waits => onTheWire[Solo] = Answer("ok", "slow"))
    /\ chargesApplied = (At - 1) + IF Waits THEN 1 ELSE 0
KeyedStands ==
    /\ health = "healthy" /\ (Waits => Comes = "ok")
    /\ appliedCharges <=> At > 1 \/ Waits
    /\ chargesApplied = IF At > 1 \/ Waits THEN 1 ELSE 0

ExerciseStands ==
    /\ exercise = "naive_hang" => HangStands
    /\ exercise = "timeout_bounded" => TimeoutStands
    /\ exercise = "retry_storm" => StormStands
    /\ exercise = "transient_recovers" => RecoversStands
    /\ exercise = "never_retried" => NeverRetriedStands
    /\ exercise = "breaker_trip" => TripStands
    /\ exercise = "composed" => ComposedStands
    /\ exercise = "double_charge" => DoubleStands
    /\ exercise = "idempotent_charge" => KeyedStands

RetryInv == RetryTypes /\ LoopsAreBounded /\ CostIsBounded /\ BreakerFollows /\ ExerciseStands

-----------------------------------------------------------------------------
(* The scripts. *)

Lines == {l \in [op : {"call", "charge", "keyed", "health", "cooldown"},
                 timeout : {"none", "short", "long"}, to : HealthStates \cup {"-"}] :
             l.op = "health" => l.to \in HealthStates}
\* What the retry loop reads of its script besides the steps.
ItsLoop(attempts, retryable, guarded, healAt) ==
    /\ Its.maxAttempts = attempts /\ Its.retryable = retryable
    /\ Its.guarded = guarded /\ Its.healAt = healAt
\* The steps, one by one.
ItsSteps(n) == Its.steps \in Seq(Lines) /\ Len(Its.steps) = n

\* Which script an exercise runs.
LEMMA WhichScript ==
    /\ exercise = "naive_hang" => Its = naiveHang
    /\ exercise = "timeout_bounded" => Its = timeoutBounded
    /\ exercise = "retry_storm" => Its = naiveRetry
    /\ exercise = "transient_recovers" => Its = TransientRecovers
    /\ exercise = "never_retried" => Its = NonTransientNeverRetried
    /\ exercise = "breaker_trip" => Its = CircuitBreakerTrip
    /\ exercise = "composed" => Its = Composed
    /\ exercise = "double_charge" => Its = naiveDoubleCharge
    /\ exercise = "idempotent_charge" => Its = fixedWithIdempotencyKey
  BY DEF Its, Exercises

\* The fields of the scripts.
LEMMA LoopFacts ==
    /\ exercise = "naive_hang" => ItsLoop(1, {}, FALSE, 0)
    /\ exercise = "timeout_bounded" => ItsLoop(1, {}, FALSE, 0)
    /\ exercise = "retry_storm" => ItsLoop(3, Errors, FALSE, 0)
    /\ exercise = "transient_recovers" => ItsLoop(6, {"transient"}, FALSE, 4)
    /\ exercise = "never_retried" => ItsLoop(5, {"transient"}, FALSE, 0)
    /\ exercise = "breaker_trip" => ItsLoop(1, {}, TRUE, 0)
    /\ exercise = "composed" => ItsLoop(3, {"transient", "timeout"}, TRUE, 0)
    /\ exercise = "double_charge" => ItsLoop(1, {}, FALSE, 0)
    /\ exercise = "idempotent_charge" => ItsLoop(1, {}, FALSE, 0)
  <1>1. exercise = "naive_hang" => ItsLoop(1, {}, FALSE, 0)
    BY WhichScript DEF ItsLoop, naiveHang, Script
  <1>2. exercise = "timeout_bounded" => ItsLoop(1, {}, FALSE, 0)
    BY WhichScript DEF ItsLoop, timeoutBounded, Script
  <1>3. exercise = "retry_storm" => ItsLoop(3, Errors, FALSE, 0)
    BY WhichScript DEF ItsLoop, naiveRetry, Script
  <1>4. exercise = "transient_recovers" => ItsLoop(6, {"transient"}, FALSE, 4)
    BY WhichScript DEF ItsLoop, TransientRecovers, Script
  <1>5. exercise = "never_retried" => ItsLoop(5, {"transient"}, FALSE, 0)
    BY WhichScript DEF ItsLoop, NonTransientNeverRetried, Script
  <1>6. exercise = "breaker_trip" => ItsLoop(1, {}, TRUE, 0)
    BY WhichScript DEF ItsLoop, CircuitBreakerTrip, Script
  <1>7. exercise = "composed" => ItsLoop(3, {"transient", "timeout"}, TRUE, 0)
    BY WhichScript DEF ItsLoop, Composed, Script
  <1>8. exercise = "double_charge" => ItsLoop(1, {}, FALSE, 0)
    BY WhichScript DEF ItsLoop, naiveDoubleCharge, Script
  <1>9. exercise = "idempotent_charge" => ItsLoop(1, {}, FALSE, 0)
    BY WhichScript DEF ItsLoop, fixedWithIdempotencyKey, Script
  <1> QED BY <1>1, <1>2, <1>3, <1>4, <1>5, <1>6, <1>7, <1>8, <1>9

\* Where the scripts find the downstream.
LEMMA StartFacts ==
    /\ exercise = "naive_hang" => Its.starts = {"down-hang"}
    /\ exercise = "timeout_bounded" => Its.starts = {"down-hang"}
    /\ exercise = "retry_storm" => Its.starts = {"down-fail-fast"}
    /\ exercise = "transient_recovers" => Its.starts = {"down-fail-fast"}
    /\ exercise = "never_retried" => Its.starts = {"rejecting"}
    /\ exercise = "breaker_trip" => Its.starts = {"down-fail-fast"}
    /\ exercise = "composed" => Its.starts = {"down-fail-fast", "degraded"}
    /\ exercise = "double_charge" => Its.starts = {"healthy"}
    /\ exercise = "idempotent_charge" => Its.starts = {"healthy"}
  <1>1. exercise = "naive_hang" => Its.starts = {"down-hang"}
    BY WhichScript DEF naiveHang, Script
  <1>2. exercise = "timeout_bounded" => Its.starts = {"down-hang"}
    BY WhichScript DEF timeoutBounded, Script
  <1>3. exercise = "retry_storm" => Its.starts = {"down-fail-fast"}
    BY WhichScript DEF naiveRetry, Script
  <1>4. exercise = "transient_recovers" => Its.starts = {"down-fail-fast"}
    BY WhichScript DEF TransientRecovers, Script
  <1>5. exercise = "never_retried" => Its.starts = {"rejecting"}
    BY WhichScript DEF NonTransientNeverRetried, Script
  <1>6. exercise = "breaker_trip" => Its.starts = {"down-fail-fast"}
    BY WhichScript DEF CircuitBreakerTrip, Script
  <1>7. exercise = "composed" => Its.starts = {"down-fail-fast", "degraded"}
    BY WhichScript DEF Composed, Script
  <1>8. exercise = "double_charge" => Its.starts = {"healthy"}
    BY WhichScript DEF naiveDoubleCharge, Script
  <1>9. exercise = "idempotent_charge" => Its.starts = {"healthy"}
    BY WhichScript DEF fixedWithIdempotencyKey, Script
  <1> QED BY <1>1, <1>2, <1>3, <1>4, <1>5, <1>6, <1>7, <1>8, <1>9

\* The scripts of one or two requests.
LEMMA ShortScripts ==
    /\ exercise \in {"naive_hang", "retry_storm", "transient_recovers", "never_retried"} =>
          ItsSteps(1) /\ Its.steps[1] = Request("none")
    /\ exercise = "timeout_bounded" =>
          ItsSteps(2) /\ \A i \in 1 .. 2 : Its.steps[i] = Request("short")
    /\ exercise = "double_charge" =>
          ItsSteps(2) /\ Its.steps[1] = Charge("short", FALSE) /\ Its.steps[2] = Charge("long", FALSE)
    /\ exercise = "idempotent_charge" =>
          ItsSteps(2) /\ Its.steps[1] = Charge("short", TRUE) /\ Its.steps[2] = Charge("long", TRUE)
  <1>1. /\ Request("none") \in Lines /\ Request("short") \in Lines
        /\ \A key \in BOOLEAN : Charge("short", key) \in Lines /\ Charge("long", key) \in Lines
    BY DEF Request, Charge, ScriptLine, Lines
  <1>2. \A r \in Lines : <<r>> \in Seq(Lines) /\ Len(<<r>>) = 1 /\ <<r>>[1] = r
    OBVIOUS
  <1>3. \A r, t \in Lines : /\ <<r, t>> \in Seq(Lines) /\ Len(<<r, t>>) = 2
                           /\ <<r, t>>[1] = r /\ <<r, t>>[2] = t
    OBVIOUS
  <1>4. exercise = "naive_hang" => Its.steps = <<Request("none")>>
    BY WhichScript DEF naiveHang, Script
  <1>5. exercise = "timeout_bounded" => ItsSteps(2) /\ \A i \in 1 .. 2 : Its.steps[i] = Request("short")
    <2>1. exercise = "timeout_bounded" => Its.steps = [i \in 1 .. 2 |-> Request("short")]
      BY WhichScript DEF timeoutBounded, Script, Times
    <2>2. \A r \in Lines : /\ [i \in 1 .. 2 |-> r] \in Seq(Lines) /\ Len([i \in 1 .. 2 |-> r]) = 2
                           /\ \A i \in 1 .. 2 : [j \in 1 .. 2 |-> r][i] = r
      OBVIOUS
    <2> QED BY <1>1, <2>1, <2>2 DEF ItsSteps
  <1>6. exercise = "retry_storm" => Its.steps = <<Request("none")>>
    BY WhichScript DEF naiveRetry, Script
  <1>7. exercise = "transient_recovers" => Its.steps = <<Request("none")>>
    BY WhichScript DEF TransientRecovers, Script
  <1>8. exercise = "never_retried" => Its.steps = <<Request("none")>>
    BY WhichScript DEF NonTransientNeverRetried, Script
  <1>9. exercise = "double_charge" => Its.steps = <<Charge("short", FALSE), Charge("long", FALSE)>>
    <2>1. exercise = "double_charge" => Its = naiveDoubleCharge
      BY WhichScript
    <2>2. naiveDoubleCharge.steps = <<Charge("short", FALSE), Charge("long", FALSE)>>
      BY Zenon DEF naiveDoubleCharge, Script
    <2> QED BY <2>1, <2>2
  <1>10. exercise = "idempotent_charge" => Its.steps = <<Charge("short", TRUE), Charge("long", TRUE)>>
    <2>1. exercise = "idempotent_charge" => Its = fixedWithIdempotencyKey
      BY WhichScript
    <2>2. fixedWithIdempotencyKey.steps = <<Charge("short", TRUE), Charge("long", TRUE)>>
      BY Zenon DEF fixedWithIdempotencyKey, Script
    <2> QED BY <2>1, <2>2
  <1>11. exercise \in {"naive_hang", "retry_storm", "transient_recovers", "never_retried"} =>
            ItsSteps(1) /\ Its.steps[1] = Request("none")
    BY <1>1, <1>2, <1>4, <1>6, <1>7, <1>8 DEF ItsSteps
  <1>12. exercise = "double_charge" =>
            ItsSteps(2) /\ Its.steps[1] = Charge("short", FALSE) /\ Its.steps[2] = Charge("long", FALSE)
    <2> DEFINE a == Charge("short", FALSE)  b == Charge("long", FALSE)
    <2>1. a \in Lines /\ b \in Lines
      BY <1>1, Zenon
    <2> HIDE DEF a, b
    <2>2. <<a, b>> \in Seq(Lines) /\ Len(<<a, b>>) = 2 /\ <<a, b>>[1] = a /\ <<a, b>>[2] = b
      BY <1>3, <2>1
    <2> QED BY <1>9, <2>2, Zenon DEF ItsSteps, a, b
  <1>13. exercise = "idempotent_charge" =>
            ItsSteps(2) /\ Its.steps[1] = Charge("short", TRUE) /\ Its.steps[2] = Charge("long", TRUE)
    <2> DEFINE a == Charge("short", TRUE)  b == Charge("long", TRUE)
    <2>1. a \in Lines /\ b \in Lines
      BY <1>1, Zenon
    <2> HIDE DEF a, b
    <2>2. <<a, b>> \in Seq(Lines) /\ Len(<<a, b>>) = 2 /\ <<a, b>>[1] = a /\ <<a, b>>[2] = b
      BY <1>3, <2>1
    <2> QED BY <1>10, <2>2, Zenon DEF ItsSteps, a, b
  <1> QED BY <1>5, <1>11, <1>12, <1>13

\* A request is repeated.
LEMMA TimesSteps ==
  ASSUME NEW n \in Nat, NEW line \in Lines
  PROVE  /\ Times(n, line) \in Seq(Lines) /\ Len(Times(n, line)) = n
         /\ \A i \in 1 .. n : Times(n, line)[i] = line
  BY DEF Times

\* u is s and then t.
Joined(u, s, t) ==
    /\ u \in Seq(Lines) /\ Len(u) = Len(s) + Len(t)
    /\ \A i \in 1 .. Len(s) : u[i] = s[i]
    /\ \A i \in 1 .. Len(t) : u[Len(s) + i] = t[i]

\* Two sequences of lines, one after the other.
LEMMA LinesConcat ==
  ASSUME NEW s \in Seq(Lines), NEW t \in Seq(Lines) PROVE Joined(s \o t, s, t)
  <1> DEFINE u == s \o t  m == Len(s)  n == Len(t)
  <1>1. u \in Seq(Lines) /\ Len(u) = m + n
        /\ \A i \in 1 .. m + n : u[i] = IF i <= m THEN s[i] ELSE t[i - m]
    BY ConcatProperties
  <1>2. m \in Nat /\ n \in Nat
    OBVIOUS
  <1> HIDE DEF u, m, n
  <1>3. \A i \in 1 .. n : m + i \in 1 .. m + n /\ ~(m + i <= m) /\ (m + i) - m = i
    BY <1>2
  <1>4. \A i \in 1 .. m : i \in 1 .. m + n /\ i <= m
    BY <1>2
  <1>5. \A i \in 1 .. n : u[m + i] = t[i]
    BY <1>1, <1>3
  <1>6. \A i \in 1 .. m : u[i] = s[i]
    BY <1>1, <1>4
  <1> QED BY <1>1, <1>5, <1>6 DEF Joined, u, m, n

\* The steps of CircuitBreakerTrip.
LEMMA TripSteps ==
  ASSUME exercise = "breaker_trip"
  PROVE  LET F == FailureThreshold IN
         /\ ItsSteps(2 * F + 8)
         /\ \A i \in 1 .. F + 2 : Its.steps[i] = Request("none")
         /\ Its.steps[F + 3] = setHealth("healthy")
         /\ Its.steps[F + 4] = CooldownElapses
         /\ Its.steps[F + 5] = Request("none")
         /\ Its.steps[F + 6] = setHealth("down-fail-fast")
         /\ \A i \in F + 7 .. 2 * F + 6 : Its.steps[i] = Request("none")
         /\ Its.steps[2 * F + 7] = CooldownElapses
         /\ Its.steps[2 * F + 8] = Request("none")
  <1> DEFINE F == FailureThreshold
             p == Times(F + 2, Request("none"))
             q == <<setHealth("healthy"), CooldownElapses, Request("none"), setHealth("down-fail-fast")>>
             r == Times(F, Request("none"))
             e == <<CooldownElapses, Request("none")>>
             pq == p \o q
             pqr == pq \o r
             s == pqr \o e
  <1>0. F \in Nat
    BY BreakerAssumption DEF BreakerAssumption
  <1>1. Request("none") \in Lines
    BY DEF Request, ScriptLine, Lines
  <1>2. p \in Seq(Lines) /\ Len(p) = F + 2 /\ \A i \in 1 .. F + 2 : p[i] = Request("none")
    BY <1>0, <1>1, TimesSteps
  <1>3. r \in Seq(Lines) /\ Len(r) = F /\ \A i \in 1 .. F : r[i] = Request("none")
    BY <1>0, <1>1, TimesSteps
  <1>4. /\ q \in Seq(Lines) /\ Len(q) = 4 /\ q[1] = setHealth("healthy") /\ q[2] = CooldownElapses
        /\ q[3] = Request("none") /\ q[4] = setHealth("down-fail-fast")
    BY <1>1 DEF setHealth, CooldownElapses, ScriptLine, Lines, HealthStates
  <1>5. e \in Seq(Lines) /\ Len(e) = 2 /\ e[1] = CooldownElapses /\ e[2] = Request("none")
    BY <1>1 DEF CooldownElapses, ScriptLine, Lines
  <1>6. Its.steps = s
    <2>1. Its = CircuitBreakerTrip
      BY WhichScript
    <2>2. CircuitBreakerTrip.steps = s
      BY DEF CircuitBreakerTrip, Script
    <2> QED BY <2>1, <2>2
  <1> HIDE DEF p, q, r, e
  <1>7. /\ pq \in Seq(Lines) /\ Len(pq) = F + 6
        /\ \A i \in 1 .. F + 2 : pq[i] = p[i]
        /\ \A i \in 1 .. 4 : pq[(F + 2) + i] = q[i]
    <2>1. Joined(pq, p, q)
      BY <1>2, <1>4, LinesConcat
    <2> HIDE DEF pq
    <2> QED BY <1>0, <1>2, <1>4, <2>1 DEF Joined
  <1> HIDE DEF pq
  <1>8. /\ pqr \in Seq(Lines) /\ Len(pqr) = 2 * F + 6
        /\ \A i \in 1 .. F + 6 : pqr[i] = pq[i]
        /\ \A i \in 1 .. F : pqr[(F + 6) + i] = r[i]
    <2>1. Joined(pqr, pq, r)
      BY <1>7, <1>3, LinesConcat
    <2> HIDE DEF pqr
    <2> QED BY <1>0, <1>7, <1>3, <2>1 DEF Joined
  <1> HIDE DEF pqr
  <1>9. /\ s \in Seq(Lines) /\ Len(s) = 2 * F + 8
        /\ \A i \in 1 .. 2 * F + 6 : s[i] = pqr[i]
        /\ \A i \in 1 .. 2 : s[(2 * F + 6) + i] = e[i]
    <2>1. Joined(s, pqr, e)
      BY <1>8, <1>5, LinesConcat
    <2> HIDE DEF s
    <2> QED BY <1>0, <1>8, <1>5, <2>1 DEF Joined
  <1> HIDE DEF s
  <1> HIDE DEF F
  <1>10. \A i \in 1 .. F + 2 : s[i] = Request("none")
    BY <1>0, <1>2, <1>7, <1>8, <1>9
  <1>11. \A i \in 1 .. 4 : s[(F + 2) + i] = q[i]
    <2>1. \A i \in 1 .. 4 : (F + 2) + i \in 1 .. F + 6 /\ (F + 2) + i \in 1 .. 2 * F + 6
      BY <1>0
    <2> QED BY <1>7, <1>8, <1>9, <2>1
  <1>12. s[F + 3] = q[1] /\ s[F + 4] = q[2] /\ s[F + 5] = q[3] /\ s[F + 6] = q[4]
    BY <1>0, <1>11
  <1>13. \A i \in F + 7 .. 2 * F + 6 : s[i] = Request("none")
    <2>1. \A i \in F + 7 .. 2 * F + 6 : /\ i \in 1 .. 2 * F + 6 /\ i - (F + 6) \in 1 .. F
                                        /\ (F + 6) + (i - (F + 6)) = i
      BY <1>0
    <2>2. \A i \in F + 7 .. 2 * F + 6 : s[i] = pqr[(F + 6) + (i - (F + 6))]
      BY <1>9, <2>1
    <2>3. \A i \in F + 7 .. 2 * F + 6 : pqr[(F + 6) + (i - (F + 6))] = r[i - (F + 6)]
      BY <1>8, <2>1
    <2> QED BY <1>3, <2>1, <2>2, <2>3
  <1>14. s[2 * F + 7] = e[1] /\ s[2 * F + 8] = e[2]
    BY <1>0, <1>9
  <1> QED
    BY <1>4, <1>5, <1>6, <1>9, <1>10, <1>12, <1>13, <1>14 DEF ItsSteps, F

\* The steps of the composed scenario.
LEMMA ComposedSteps ==
  ASSUME exercise = "composed"
  PROVE  LET F == FailureThreshold IN
         /\ ItsSteps(F + 5)
         /\ \A i \in 1 .. F + 2 : Its.steps[i] = makeCall
         /\ Its.steps[F + 3] = setHealth("healthy")
         /\ Its.steps[F + 4] = CooldownElapses
         /\ Its.steps[F + 5] = makeCall
  <1> DEFINE F == FailureThreshold
             p == Times(F + 2, makeCall)
             q == <<setHealth("healthy"), CooldownElapses, makeCall>>
             s == p \o q
  <1>0. F \in Nat
    BY BreakerAssumption DEF BreakerAssumption
  <1>1. makeCall \in Lines
    BY DEF makeCall, Request, ScriptLine, Lines
  <1>2. p \in Seq(Lines) /\ Len(p) = F + 2 /\ \A i \in 1 .. F + 2 : p[i] = makeCall
    BY <1>0, <1>1, TimesSteps
  <1>3. /\ q \in Seq(Lines) /\ Len(q) = 3 /\ q[1] = setHealth("healthy") /\ q[2] = CooldownElapses
        /\ q[3] = makeCall
    BY <1>1 DEF setHealth, CooldownElapses, ScriptLine, Lines, HealthStates
  <1>4. Its.steps = s
    BY WhichScript DEF Composed, Script
  <1> HIDE DEF p, q
  <1>5. /\ s \in Seq(Lines) /\ Len(s) = F + 5
        /\ \A i \in 1 .. F + 2 : s[i] = p[i]
        /\ \A i \in 1 .. 3 : s[(F + 2) + i] = q[i]
    <2>1. Joined(s, p, q)
      BY <1>2, <1>3, LinesConcat
    <2> HIDE DEF s
    <2>2. s \in Seq(Lines) /\ Len(s) = (F + 2) + 3
      BY <1>2, <1>3, <2>1 DEF Joined
    <2>3. \A i \in 1 .. F + 2 : s[i] = p[i]
      BY <1>2, <2>1 DEF Joined
    <2>4. \A i \in 1 .. 3 : s[(F + 2) + i] = q[i]
      BY <1>2, <1>3, <2>1 DEF Joined
    <2> QED BY <1>0, <2>2, <2>3, <2>4
  <1> HIDE DEF s
  <1> HIDE DEF F
  <1>6. s[F + 3] = q[1] /\ s[F + 4] = q[2] /\ s[F + 5] = q[3]
    BY <1>0, <1>5
  <1>7. \A i \in 1 .. F + 2 : s[i] = makeCall
    BY <1>0, <1>2, <1>5
  <1> QED
    BY <1>3, <1>4, <1>5, <1>6, <1>7 DEF ItsSteps, F

-----------------------------------------------------------------------------
(* The breaker under the retries. *)

\* The one caller of a solo script is one of the breaker's callers.
LEMMA SoloCalls == /\ Solo \in StormCallers /\ StormCallers \subseteq Callers
                   /\ Participants \subseteq StormCallers
                   /\ exercise = "retry_storm" => Participants = StormCallers
                   /\ exercise # "retry_storm" => Participants = {Solo}
  BY RetriesAssumption DEF RetriesAssumption, Solo, Participants

\* A caller of lab 37 touches its breaker only through execute().
LEMMA CallerIsBreakerStep ==
  ASSUME NEW c \in Participants, AnyCallerStep(c)
  PROVE  BreakerNext \/ UNCHANGED breakerVars
  <1>1. c \in Callers
    BY SoloCalls
  <1>2. CASE ScriptActs(c)
    BY <1>2 DEF ScriptActs
  <1>3. CASE BreakerRefuses(c)
    BY <1>1, <1>3, Zenon DEF BreakerRefuses, BreakerNext, Enter
  <1>4. CASE RequestStarts(c)
    BY <1>1, <1>4, Zenon DEF RequestStarts, BreakerNext, Enter
  <1>5. CASE AttemptStarts(c)
    BY <1>5 DEF AttemptStarts
  <1>6. CASE BackoffEnds(c)
    BY <1>6 DEF BackoffEnds
  <1>7. ASSUME NEW e, Fails(c, e) PROVE BreakerNext \/ UNCHANGED breakerVars
    BY <1>1, <1>7, Zenon DEF Fails, BreakerNext, Settle
  <1>8. CASE TimerFires(c)
    BY <1>7, <1>8, Zenon DEF TimerFires
  <1>9. CASE Succeeds(c)
    BY <1>1, <1>9, Zenon DEF Succeeds, BreakerNext, Settle
  <1>10. CASE AnswerArrives(c)
    BY <1>7, <1>9, <1>10, Zenon DEF AnswerArrives
  <1> QED BY <1>2, <1>3, <1>4, <1>5, <1>6, <1>8, <1>10, Zenon DEF AnyCallerStep, CallerStep

\* Whatever the scripts of lab 37 do with timeouts and retries, their breaker
\* behaves as one that is called directly: what is proved of BreakerSpec is
\* true under them.
THEOREM RetriesUseTheBreaker == RetrySpec => BreakerSpec
  <1>1. [RetryNext]_allRetryVars => [BreakerNext]_breakerVars
    BY CallerIsBreakerStep, Zenon DEF RetryNext, CooldownTicks, BreakerNext, allRetryVars
  <1> QED BY <1>1, PTL DEF RetrySpec, BreakerSpec

-----------------------------------------------------------------------------
(* Types and bounds. *)

\* What every script has in common.
LEMMA ScriptFacts ==
  ASSUME exercise \in DOMAIN Exercises
  PROVE  /\ Its.maxAttempts \in Nat \ {0} /\ Its.retryable \subseteq Errors
         /\ Its.steps \in Seq(Lines) /\ Len(Its.steps) \in Nat \ {0}
         /\ Its.starts \subseteq HealthStates
         /\ Its.guarded \in BOOLEAN
         /\ Its.guarded => exercise # "retry_storm"
  <1>1. exercise \in {"naive_hang", "timeout_bounded", "retry_storm", "transient_recovers", "never_retried",
                      "breaker_trip", "composed", "double_charge", "idempotent_charge"}
    BY DEF Exercises
  <1>2. Its.maxAttempts \in Nat \ {0} /\ Its.retryable \subseteq Errors
    BY <1>1, LoopFacts DEF ItsLoop, Errors
  <1>3. Its.guarded \in BOOLEAN /\ (Its.guarded => exercise # "retry_storm")
    BY <1>1, LoopFacts, Zenon DEF ItsLoop
  <1>4. Its.steps \in Seq(Lines) /\ Len(Its.steps) \in Nat \ {0}
    <2>1. CASE exercise \in {"breaker_trip", "composed"}
      <3>1. FailureThreshold \in Nat
        BY BreakerAssumption DEF BreakerAssumption
      <3>2. exercise = "breaker_trip" => ItsSteps(2 * FailureThreshold + 8)
        BY TripSteps
      <3>3. exercise = "composed" => ItsSteps(FailureThreshold + 5)
        BY ComposedSteps
      <3> QED BY <2>1, <3>1, <3>2, <3>3 DEF ItsSteps
    <2>2. CASE exercise \notin {"breaker_trip", "composed"}
      <3>1. /\ exercise \in {"naive_hang", "retry_storm", "transient_recovers", "never_retried"} => ItsSteps(1)
            /\ exercise \in {"timeout_bounded", "double_charge", "idempotent_charge"} => ItsSteps(2)
        BY ShortScripts, Zenon
      <3> QED BY <1>1, <2>2, <3>1 DEF ItsSteps
    <2> QED BY <2>1, <2>2
  <1>5. Its.starts \subseteq HealthStates
    BY <1>1, StartFacts DEF HealthStates
  <1> QED BY <1>2, <1>3, <1>4, <1>5

\* The script does not change while it runs.
LEMMA ScriptStays ==
  ASSUME exercise' = exercise
  PROVE  Its' = Its /\ Solo' = Solo /\ Participants' = Participants
  BY DEF Its, Solo, Participants, Exercises

\* Where a caller stands in the script while it has more to do.
LEMMA LineFacts ==
  ASSUME RetryTypes, NEW c \in StormCallers, More(c)
  PROVE  /\ caller[c].at \in 1 .. Len(Its.steps) /\ StepOf(c) \in Lines
         /\ caller[c].at + 1 <= Len(Its.steps) + 1
  BY ScriptFacts DEF RetryTypes, More, StepOf, Positions

\* The bookkeeping of a caller's request: its type, its bounds, its cost.
Booked == RetryTypes /\ LoopsAreBounded

\* The scripts start with it in order.
LEMMA BookedInit == RetryInit => Booked
  <1> SUFFICES ASSUME RetryInit PROVE Booked
    OBVIOUS
  <1>1. exercise \in DOMAIN Exercises /\ health \in HealthStates
    BY ScriptFacts DEF RetryInit, Its
  <1>2. RetryTypes
    BY <1>1 DEF RetryInit, RetryTypes, Silence, Answer, WireAnswers, Positions
  <1>3. LoopsAreBounded
    BY <1>1, ScriptFacts DEF RetryInit, LoopsAreBounded, Phase
  <1> QED BY <1>2, <1>3 DEF Booked

\* What an attempt may be answered.
LEMMA AnswersTyped ==
  ASSUME RetryTypes
  PROVE  settleGeneric \subseteq {a \in WireAnswers : a.answer # "none"}
  BY DEF RetryTypes, HealthStates, settleGeneric, Answer, WireAnswers

\* A request that ends leaves a place for the next one.
LEMMA EndsBooked ==
  ASSUME Booked, NEW c \in StormCallers, NEW how \in Outcomes, More(c), Ends(c, how),
         exercise' = exercise, health' = health, NEW w \in WireAnswers, onTheWire' = [onTheWire EXCEPT ![c] = w],
         totalCallCount' = totalCallCount, chargesApplied' = chargesApplied
  PROVE  Booked'
  <1>1. RetryTypes'
    <2>1. caller' \in [StormCallers -> Positions]
      BY DEF Booked, RetryTypes, Ends, Positions
    <2>2. outcomes' \in [StormCallers -> Seq(Outcomes)]
      <3>1. outcomes[c] \in Seq(Outcomes)
        BY DEF Booked, RetryTypes
      <3>2. Append(outcomes[c], how) \in Seq(Outcomes)
        BY <3>1
      <3> QED BY <3>2 DEF Booked, RetryTypes, Ends
    <2>3. onTheWire' \in [StormCallers -> WireAnswers]
      BY DEF Booked, RetryTypes
    <2> QED BY <2>1, <2>2, <2>3 DEF Booked, RetryTypes
  <1>2. caller[c].at + 1 <= Len(Its.steps) + 1
    BY LineFacts DEF Booked
  <1>3. caller' = [caller EXCEPT ![c] = [at |-> caller[c].at + 1, phase |-> "next", attempt |-> 1]]
    BY DEF Booked, RetryTypes, Ends, Positions
  <1>4. Its' = Its
    BY ScriptStays
  <1>5. Its.maxAttempts \in Nat \ {0}
    BY ScriptFacts DEF Booked, RetryTypes
  <1>6. ASSUME NEW d \in StormCallers
        PROVE  /\ caller[d]'.at <= Len(Its.steps) + 1 /\ caller[d]'.attempt <= Its.maxAttempts
               /\ Phase(d, "next")' => caller[d]'.attempt = 1
               /\ Phase(d, "backoff")' => caller[d]'.attempt < Its.maxAttempts
               /\ Phase(d, "waiting")' => onTheWire[d]'.answer # "none"
               /\ ~Phase(d, "next")' => More(d)' /\ StepOf(d)'.op \in RequestOps
    <2>1. CASE d = c
      BY <1>2, <1>3, <1>4, <1>5, <2>1 DEF Booked, RetryTypes, Phase
    <2>2. CASE d # c
      <3>1. caller'[d] = caller[d]
             /\ onTheWire'[d] = onTheWire[d]
        BY <1>3, <2>2 DEF Booked, RetryTypes
      <3> QED BY <1>4, <3>1, Zenon DEF Booked, LoopsAreBounded, Phase, More, StepOf
    <2> QED BY <2>1, <2>2
  <1> QED BY <1>1, <1>4, <1>6, Zenon DEF Booked, LoopsAreBounded

\* The invariant of the other callers is theirs: they do not move.
LEMMA MovesBooked ==
  ASSUME Booked, NEW c \in StormCallers, exercise' = exercise, health' \in HealthStates,
         NEW p \in {"next", "attempt", "waiting", "backoff"}, NEW n \in Nat \ {0}, NEW a \in Nat \ {0},
         caller' = [caller EXCEPT ![c] = [at |-> a, phase |-> p, attempt |-> n]],
         a <= Len(Its.steps) + 1, n <= Its.maxAttempts,
         p = "next" => n = 1, p = "backoff" => n < Its.maxAttempts,
         p # "next" => a <= Len(Its.steps) /\ Its.steps[a].op \in RequestOps,
         NEW w \in WireAnswers, onTheWire' = [onTheWire EXCEPT ![c] = w],
         p = "waiting" => w.answer # "none",
         totalCallCount' \in Nat, chargesApplied' \in Nat, outcomes' = outcomes
  PROVE  Booked'
  <1>1. RetryTypes'
    BY DEF Booked, RetryTypes, Positions
  <1>2. Its' = Its
    BY ScriptStays
  <1>3. ASSUME NEW d \in StormCallers
        PROVE  /\ caller[d]'.at <= Len(Its.steps) + 1 /\ caller[d]'.attempt <= Its.maxAttempts
               /\ Phase(d, "next")' => caller[d]'.attempt = 1
               /\ Phase(d, "backoff")' => caller[d]'.attempt < Its.maxAttempts
               /\ Phase(d, "waiting")' => onTheWire[d]'.answer # "none"
               /\ ~Phase(d, "next")' => More(d)' /\ StepOf(d)'.op \in RequestOps
    <2>1. CASE d = c
      <3>1. caller'[c] = [at |-> a, phase |-> p, attempt |-> n] /\ onTheWire'[c] = w
        BY DEF Booked, RetryTypes
      <3> QED BY <1>2, <2>1, <3>1 DEF Phase, More, StepOf
    <2>2. CASE d # c
      <3>1. caller'[d] = caller[d] /\ onTheWire'[d] = onTheWire[d]
        BY <2>2 DEF Booked, RetryTypes
      <3> QED BY <1>2, <3>1, Zenon DEF Booked, LoopsAreBounded, Phase, More, StepOf
    <2> QED BY <2>1, <2>2
  <1> QED BY <1>1, <1>2, <1>3, Zenon DEF Booked, LoopsAreBounded

\* A caller's place with the next attempt's number: the record BackoffEnds
\* leaves behind.
LEMMA NextAttempt ==
  ASSUME NEW r \in Positions, NEW n \in Nat \ {0}
  PROVE  [r EXCEPT !.phase = "attempt", !.attempt = n] = [at |-> r.at, phase |-> "attempt", attempt |-> n]
  <1> DEFINE row == [r EXCEPT !.phase = "attempt", !.attempt = n]
  <1>1. row \in Positions /\ row.at = r.at /\ row.phase = "attempt" /\ row.attempt = n
    BY DEF Positions
  <1> HIDE DEF row
  <1>2. row = [at |-> r.at, phase |-> "attempt", attempt |-> n]
    BY <1>1 DEF Positions
  <1> QED BY <1>2 DEF row

\* A request starts, a script's own line is passed, an attempt starts.
LEMMA ForwardBooked ==
  ASSUME Booked, NEW c \in StormCallers,
         ScriptActs(c) \/ RequestStarts(c) \/ AttemptStarts(c) \/ BackoffEnds(c)
  PROVE  Booked'
  <1> DEFINE r == caller[c]
  <1>1. /\ r.at \in Nat \ {0} /\ r.attempt \in Nat \ {0} /\ r.attempt <= Its.maxAttempts
        /\ r.at <= Len(Its.steps) + 1
        /\ r = [at |-> r.at, phase |-> r.phase, attempt |-> r.attempt]
        /\ caller \in [StormCallers -> Positions]
    BY DEF Booked, RetryTypes, LoopsAreBounded, Positions
  <1>2. Its.maxAttempts \in Nat \ {0} /\ Len(Its.steps) \in Nat
    BY ScriptFacts DEF Booked, RetryTypes
  <1>3. CASE ScriptActs(c)
    <2>1. More(c) /\ StepOf(c).op \in {"health", "cooldown"} /\ r.phase = "next"
      BY <1>3 DEF ScriptActs, AtStep, Phase
    <2>2. r.at + 1 <= Len(Its.steps) + 1 /\ StepOf(c) \in Lines
      BY <2>1, LineFacts DEF Booked
    <2>3. health' \in HealthStates
      BY <1>3, <2>2 DEF ScriptActs, Lines, Booked, RetryTypes
    <2>4. caller' = [caller EXCEPT ![c] = [at |-> r.at + 1, phase |-> "next", attempt |-> r.attempt]]
      <3>1. caller' = [caller EXCEPT ![c] = [r EXCEPT !.at = r.at + 1]]
        BY <1>3 DEF ScriptActs
      <3>2. [r EXCEPT !.at = r.at + 1] = [at |-> r.at + 1, phase |-> "next", attempt |-> r.attempt]
        BY <1>1, <2>1
      <3> QED BY <3>1, <3>2
    <2>5. r.attempt = 1
      BY <2>1 DEF Booked, LoopsAreBounded, Phase
    <2>6. r.at + 1 \in Nat \ {0}
      BY <1>1
    <2>7. exercise' = exercise /\ onTheWire' = [onTheWire EXCEPT ![c] = onTheWire[c]] /\ totalCallCount' = totalCallCount
          /\ chargesApplied' = chargesApplied /\ outcomes' = outcomes
      BY <1>3 DEF ScriptActs, Booked, RetryTypes
    <2>8. Booked => /\ onTheWire[c] \in WireAnswers
                    /\ totalCallCount \in Nat /\ chargesApplied \in Nat
      BY DEF Booked, RetryTypes
    <2> HIDE DEF r
    <2> QED BY <1>1, <1>2, <2>2, <2>3, <2>4, <2>5, <2>6, <2>7, <2>8, MovesBooked
  <1>4. CASE RequestStarts(c)
    <2>1. More(c) /\ StepOf(c).op \in RequestOps /\ r.phase = "next"
      BY <1>4 DEF RequestStarts, AtStep, Phase
    <2>4. caller' = [caller EXCEPT ![c] = [at |-> r.at, phase |-> "attempt", attempt |-> r.attempt]]
      <3>1. caller' = [caller EXCEPT ![c] = [r EXCEPT !.phase = "attempt"]]
        BY <1>4 DEF RequestStarts
      <3>2. [r EXCEPT !.phase = "attempt"] = [at |-> r.at, phase |-> "attempt", attempt |-> r.attempt]
        BY <1>1
      <3> QED BY <3>1, <3>2
    <2>5. r.at <= Len(Its.steps) /\ Its.steps[r.at].op \in RequestOps
      BY <2>1 DEF More, StepOf
    <2>7. exercise' = exercise /\ onTheWire' = [onTheWire EXCEPT ![c] = onTheWire[c]] /\ totalCallCount' = totalCallCount
          /\ chargesApplied' = chargesApplied /\ outcomes' = outcomes /\ health' = health
      BY <1>4 DEF RequestStarts, Booked, RetryTypes
    <2>8. Booked => /\ onTheWire[c] \in WireAnswers
                    /\ totalCallCount \in Nat /\ chargesApplied \in Nat /\ health \in HealthStates
      BY DEF Booked, RetryTypes
    <2> HIDE DEF r
    <2> QED BY <1>1, <1>2, <2>4, <2>5, <2>7, <2>8, MovesBooked
  <1>5. CASE AttemptStarts(c)
    <2>1. r.phase = "attempt"
      BY <1>5 DEF AttemptStarts, Phase
    <2>2. r.at <= Len(Its.steps) /\ Its.steps[r.at].op \in RequestOps
      BY <2>1 DEF More, StepOf, Booked, LoopsAreBounded, Phase
    <2>4. caller' = [caller EXCEPT ![c] = [at |-> r.at, phase |-> "waiting", attempt |-> r.attempt]]
      <3>1. caller' = [caller EXCEPT ![c] = [r EXCEPT !.phase = "waiting"]]
        BY <1>5 DEF AttemptStarts
      <3>2. [r EXCEPT !.phase = "waiting"] = [at |-> r.at, phase |-> "waiting", attempt |-> r.attempt]
        BY <1>1
      <3> QED BY <3>1, <3>2
    <2>5. health' \in HealthStates
      BY <1>5 DEF AttemptStarts, Booked, RetryTypes, HealthStates
    <2>6. PICK w \in WireAnswers : onTheWire' = [onTheWire EXCEPT ![c] = w] /\ w.answer # "none"
      <3>1. PICK a \in IF StepOf(c).op = "call" THEN IF health' = health THEN settleGeneric ELSE {Answer("ok", "fast")}
                       ELSE {Answer("ok", IF Known(StepOf(c).op) THEN "fast" ELSE "slow")} :
                  onTheWire' = [onTheWire EXCEPT ![c] = a]
        BY <1>5, Zenon DEF AttemptStarts
      <3>2. a \in WireAnswers /\ a.answer # "none"
        BY <3>1, AnswersTyped DEF Answer, Booked, WireAnswers
      <3> QED BY <3>1, <3>2
    <2>7. exercise' = exercise /\ outcomes' = outcomes
      BY <1>5 DEF AttemptStarts
    <2>8. totalCallCount' \in Nat /\ chargesApplied' \in Nat
      BY <1>5 DEF AttemptStarts, ReceiveCall, Booked, RetryTypes
    <2> HIDE DEF r
    <2> QED BY <1>1, <1>2, <2>2, <2>4, <2>5, <2>6, <2>7, <2>8, MovesBooked
  <1>6. CASE BackoffEnds(c)
    <2>1. r.phase = "backoff"
      BY <1>6 DEF BackoffEnds, Phase
    <2>2. r.at <= Len(Its.steps) /\ Its.steps[r.at].op \in RequestOps /\ r.attempt < Its.maxAttempts
      BY <2>1 DEF More, StepOf, Booked, LoopsAreBounded, Phase
    <2>3. r.attempt + 1 \in Nat \ {0} /\ r.attempt + 1 <= Its.maxAttempts
      BY <1>1, <1>2, <2>2
    <2>4. caller' = [caller EXCEPT ![c] = [at |-> r.at, phase |-> "attempt", attempt |-> r.attempt + 1]]
      <3> DEFINE n == r.attempt + 1
      <3>1. caller' = [caller EXCEPT ![c] = [r EXCEPT !.phase = "attempt", !.attempt = n]]
        BY <1>6 DEF BackoffEnds
      <3> HIDE DEF n
      <3>2. [r EXCEPT !.phase = "attempt", !.attempt = n] = [at |-> r.at, phase |-> "attempt", attempt |-> n]
        <4>1. r \in Positions
          BY <1>1
        <4>2. n \in Nat \ {0}
          BY <2>3 DEF n
        <4> HIDE DEF r
        <4> QED BY <4>1, <4>2, NextAttempt
      <3> QED BY <3>1, <3>2 DEF n
    <2>7. exercise' = exercise /\ onTheWire' = [onTheWire EXCEPT ![c] = onTheWire[c]] /\ totalCallCount' = totalCallCount
          /\ chargesApplied' = chargesApplied /\ outcomes' = outcomes /\ health' = health
      BY <1>6 DEF BackoffEnds, Booked, RetryTypes
    <2>8. Booked => /\ onTheWire[c] \in WireAnswers
                    /\ totalCallCount \in Nat /\ chargesApplied \in Nat /\ health \in HealthStates
      BY DEF Booked, RetryTypes
    <2> HIDE DEF r
    <2> QED BY <1>1, <1>2, <2>2, <2>3, <2>4, <2>7, <2>8, MovesBooked
  <1> QED BY <1>3, <1>4, <1>5, <1>6

\* An answer or a timer ends the attempt: the request is over or backs off.
LEMMA AnswerBooked ==
  ASSUME Booked, NEW c \in StormCallers, AnswerArrives(c) \/ TimerFires(c)
  PROVE  Booked'
  <1> DEFINE r == caller[c]
  <1>1. /\ r.at \in Nat \ {0} /\ r.attempt \in Nat \ {0} /\ r.attempt <= Its.maxAttempts
        /\ r = [at |-> r.at, phase |-> r.phase, attempt |-> r.attempt]
        /\ caller \in [StormCallers -> Positions]
    BY DEF Booked, RetryTypes, LoopsAreBounded, Positions
  <1>2. Its.maxAttempts \in Nat \ {0} /\ Len(Its.steps) \in Nat
    BY ScriptFacts DEF Booked, RetryTypes
  <1>3. exercise' = exercise /\ health' = health /\ totalCallCount' = totalCallCount
        /\ chargesApplied' = chargesApplied /\ onTheWire' = [onTheWire EXCEPT ![c] = Silence]
    BY Zenon DEF AnswerArrives, TimerFires
  <1>4. Silence \in WireAnswers
    BY DEF Silence, Answer, WireAnswers
  <1>5. More(c) /\ r.at <= Len(Its.steps) /\ Its.steps[r.at].op \in RequestOps
    <2>1. ~Phase(c, "next")
      BY DEF AnswerArrives, TimerFires, Phase
    <2> QED BY <2>1 DEF Booked, LoopsAreBounded, More, StepOf
  <1>6. ASSUME NEW how \in Outcomes, Ends(c, how) PROVE Booked'
    BY <1>3, <1>4, <1>5, <1>6, EndsBooked
  <1>7. ASSUME NEW e \in Errors \cup {"none"}, Fails(c, e), e # "none" PROVE Booked'
    <2>1. CASE WillRetry(c, e)
      <3>1. caller' = [caller EXCEPT ![c] = [at |-> r.at, phase |-> "backoff", attempt |-> r.attempt]]
            /\ outcomes' = outcomes
        <4>1. caller' = [caller EXCEPT ![c] = [r EXCEPT !.phase = "backoff"]] /\ outcomes' = outcomes
          BY <1>7, <2>1 DEF Fails
        <4>2. [r EXCEPT !.phase = "backoff"] = [at |-> r.at, phase |-> "backoff", attempt |-> r.attempt]
          BY <1>1
        <4> QED BY <4>1, <4>2
      <3>2. r.attempt < Its.maxAttempts
        BY <2>1 DEF WillRetry
      <3>3. health \in HealthStates /\ totalCallCount \in Nat /\ chargesApplied \in Nat
        BY DEF Booked, RetryTypes
      <3>4. r.at <= Len(Its.steps) + 1
        BY <1>1, <1>2, <1>5
      <3> HIDE DEF r
      <3> QED BY <1>1, <1>2, <1>3, <1>4, <1>5, <3>1, <3>2, <3>3, <3>4, MovesBooked
    <2>2. CASE ~WillRetry(c, e)
      <3>1. Ends(c, e) /\ e \in Outcomes
        BY <1>7, <2>2, Zenon DEF Fails, Errors, Outcomes
      <3> QED BY <1>6, <3>1
    <2> QED BY <2>1, <2>2
  <1>8. CASE TimerFires(c)
    <2>1. Fails(c, "timeout") /\ "timeout" \in Errors \cup {"none"}
      BY <1>8 DEF TimerFires, Errors
    <2> QED BY <1>7, <2>1
  <1>9. CASE AnswerArrives(c)
    <2>1. CASE onTheWire[c].answer = "ok"
      <3>1. Ends(c, "ok") /\ "ok" \in Outcomes
        BY <1>9, <2>1, Zenon DEF AnswerArrives, Succeeds, Outcomes
      <3> QED BY <1>6, <3>1
    <2>2. CASE onTheWire[c].answer \in {"transient", "fatal"}
      <3>1. Fails(c, onTheWire[c].answer)
        BY <1>9, <2>2 DEF AnswerArrives
      <3> QED BY <1>7, <2>2, <3>1 DEF Errors
    <2>3. onTheWire[c].answer # "none"
      BY <1>9 DEF AnswerArrives, Booked, LoopsAreBounded
    <2> QED BY <2>1, <2>2, <2>3 DEF Booked, RetryTypes, WireAnswers
  <1> QED BY <1>8, <1>9

\* Every step of a caller keeps the books.
LEMMA CallerBooked ==
  ASSUME Booked, NEW c \in Participants, AnyCallerStep(c) PROVE Booked'
  <1>1. c \in StormCallers
    BY SoloCalls
  <1>2. CASE BreakerRefuses(c)
    <2>1. /\ More(c) /\ Ends(c, "rejected") /\ exercise' = exercise /\ health' = health
          /\ totalCallCount' = totalCallCount /\ chargesApplied' = chargesApplied /\ "rejected" \in Outcomes
          /\ onTheWire' = onTheWire
      BY <1>2 DEF BreakerRefuses, AtStep, Outcomes
    <2>2. onTheWire[c] \in WireAnswers /\ onTheWire' = [onTheWire EXCEPT ![c] = onTheWire[c]]
      BY <1>1, <2>1 DEF Booked, RetryTypes
    <2> QED BY <1>1, <2>1, <2>2, EndsBooked
  <1>3. CASE ScriptActs(c) \/ RequestStarts(c) \/ AttemptStarts(c) \/ BackoffEnds(c)
    BY <1>1, <1>3, ForwardBooked
  <1>4. CASE AnswerArrives(c) \/ TimerFires(c)
    BY <1>1, <1>4, AnswerBooked
  <1> QED BY <1>2, <1>3, <1>4, Zenon DEF AnyCallerStep, CallerStep

-----------------------------------------------------------------------------
(* The moves of a caller, as the exercises see them. *)

Goes(c, a, p, n) == caller' = [caller EXCEPT ![c] = [at |-> a, phase |-> p, attempt |-> n]]
\* How a caller that waits may hear from its attempt.
MayHear(c, h) ==
    \/ /\ h = onTheWire[c].answer
       /\ onTheWire[c].latency = "slow" => TimerOf(c) # "short"
       /\ onTheWire[c].latency = "hang" => TimerOf(c) = "none"
    \/ h = "timeout" /\ TimerOf(c) # "none"
Hears(c, h) ==
    /\ Phase(c, "waiting") /\ MayHear(c, h)
    /\ onTheWire' = [onTheWire EXCEPT ![c] = Silence]
    /\ UNCHANGED <<exercise, health, totalCallCount, chargesApplied, appliedCharges>>
Settles(c, h) ==
    IF h = "ok" THEN ProbeSucceeds(c) \/ CallSucceeds(c) ELSE ProbeFails(c) \/ CallFails(c)

Passes(c) == ScriptActs(c) /\ Goes(c, caller[c].at + 1, "next", 1)
Opens(c) == RequestStarts(c) /\ Goes(c, caller[c].at, "attempt", 1)
TurnedAway(c) == BreakerRefuses(c) /\ Goes(c, caller[c].at + 1, "next", 1)
Asks(c) == AttemptStarts(c) /\ Goes(c, caller[c].at, "waiting", caller[c].attempt)
AsksAgain(c) == BackoffEnds(c) /\ Goes(c, caller[c].at, "attempt", caller[c].attempt + 1)
BacksOff(c) ==
    \E h \in Errors : /\ Hears(c, h) /\ WillRetry(c, h)
                      /\ Goes(c, caller[c].at, "backoff", caller[c].attempt)
                      /\ UNCHANGED <<outcomes, breakerVars>>
Closes(c) ==
    \E h \in Errors \cup {"ok"} :
       /\ Hears(c, h) /\ ~WillRetry(c, h)
       /\ Goes(c, caller[c].at + 1, "next", 1)
       /\ outcomes' = [outcomes EXCEPT ![c] = Append(@, h)]
       /\ IF Its.guarded THEN Settles(c, h) ELSE UNCHANGED breakerVars

\* Where a caller is after it went.
LEMMA GoesTo ==
  ASSUME Booked, NEW c \in StormCallers, NEW a, NEW p, NEW n, Goes(c, a, p, n)
  PROVE  /\ caller'[c] = [at |-> a, phase |-> p, attempt |-> n]
         /\ caller'[c].at = a /\ caller'[c].phase = p /\ caller'[c].attempt = n
         /\ \A d \in StormCallers \ {c} : caller'[d] = caller[d]
  BY DEF Booked, RetryTypes, Goes

\* These are all.
LEMMA CallerMoves ==
  ASSUME Booked, NEW c \in Participants, AnyCallerStep(c)
  PROVE  Passes(c) \/ Opens(c) \/ TurnedAway(c) \/ Asks(c) \/ AsksAgain(c) \/ BacksOff(c) \/ Closes(c)
  <1> DEFINE r == caller[c]
  <1>1. c \in StormCallers
    BY SoloCalls
  <1>2. /\ r = [at |-> r.at, phase |-> r.phase, attempt |-> r.attempt]
        /\ Phase(c, "next") => r.attempt = 1 /\ r.phase = "next"
        /\ r.at \in Nat /\ r.attempt \in Nat
    BY <1>1 DEF Booked, RetryTypes, LoopsAreBounded, Positions, Phase
  <1>3. CASE ScriptActs(c)
    <2>1. caller' = [caller EXCEPT ![c] = [r EXCEPT !.at = r.at + 1]] /\ r.phase = "next" /\ r.attempt = 1
      BY <1>2, <1>3 DEF ScriptActs, AtStep
    <2>2. [r EXCEPT !.at = r.at + 1] = [at |-> r.at + 1, phase |-> "next", attempt |-> 1]
      BY <1>2, <2>1
    <2> QED BY <1>3, <2>1, <2>2 DEF Passes, Goes
  <1>4. CASE RequestStarts(c)
    <2>1. caller' = [caller EXCEPT ![c] = [r EXCEPT !.phase = "attempt"]] /\ r.attempt = 1
      BY <1>2, <1>4 DEF RequestStarts, AtStep
    <2>2. [r EXCEPT !.phase = "attempt"] = [at |-> r.at, phase |-> "attempt", attempt |-> 1]
      BY <1>2, <2>1
    <2> QED BY <1>4, <2>1, <2>2 DEF Opens, Goes
  <1>5. CASE BreakerRefuses(c)
    BY <1>5 DEF BreakerRefuses, Ends, TurnedAway, Goes
  <1>6. CASE AttemptStarts(c)
    <2>1. caller' = [caller EXCEPT ![c] = [r EXCEPT !.phase = "waiting"]]
      BY <1>6 DEF AttemptStarts
    <2>2. [r EXCEPT !.phase = "waiting"] = [at |-> r.at, phase |-> "waiting", attempt |-> r.attempt]
      BY <1>2
    <2> QED BY <1>6, <2>1, <2>2 DEF Asks, Goes
  <1>7. CASE BackoffEnds(c)
    <2>1. caller' = [caller EXCEPT ![c] = [at |-> r.at, phase |-> "attempt", attempt |-> r.attempt + 1]]
      <3> DEFINE n == r.attempt + 1
      <3>1. caller' = [caller EXCEPT ![c] = [r EXCEPT !.phase = "attempt", !.attempt = n]]
        BY <1>7 DEF BackoffEnds
      <3> HIDE DEF n
      <3>2. [r EXCEPT !.phase = "attempt", !.attempt = n] = [at |-> r.at, phase |-> "attempt", attempt |-> n]
        <4>1. r \in Positions
          BY <1>1 DEF Booked, RetryTypes
        <4>2. n \in Nat \ {0}
          BY <4>1 DEF Positions, n
        <4> HIDE DEF r
        <4> QED BY <4>1, <4>2, NextAttempt
      <3> QED BY <3>1, <3>2 DEF n
    <2> QED BY <1>7, <2>1 DEF AsksAgain, Goes
  <1>8. ASSUME NEW h \in Errors, Hears(c, h), Fails(c, h) PROVE BacksOff(c) \/ Closes(c)
    <2>1. CASE WillRetry(c, h)
      <3>1. caller' = [caller EXCEPT ![c] = [r EXCEPT !.phase = "backoff"]] /\ UNCHANGED <<outcomes, breakerVars>>
        BY <1>8, <2>1, Zenon DEF Fails
      <3>2. [r EXCEPT !.phase = "backoff"] = [at |-> r.at, phase |-> "backoff", attempt |-> r.attempt]
        BY <1>2
      <3>3. Goes(c, caller[c].at, "backoff", caller[c].attempt)
        BY <3>1, <3>2 DEF Goes
      <3> QED BY <1>8, <2>1, <3>1, <3>3, Zenon DEF BacksOff
    <2>2. CASE ~WillRetry(c, h)
      <3>1. h # "ok" /\ h \in Errors \cup {"ok"}
        BY <1>8 DEF Errors
      <3>2. Goes(c, caller[c].at + 1, "next", 1) /\ outcomes' = [outcomes EXCEPT ![c] = Append(@, h)]
        BY <1>8, <2>2 DEF Fails, Ends, Goes
      <3>3. IF Its.guarded THEN Settles(c, h) ELSE UNCHANGED breakerVars
        BY <1>8, <2>2, <3>1, Zenon DEF Fails, Settles
      <3> QED BY <1>8, <2>2, <3>1, <3>2, <3>3, Zenon DEF Closes
    <2> QED BY <2>1, <2>2
  <1>9. CASE TimerFires(c)
    <2>1. "timeout" \in Errors /\ Hears(c, "timeout") /\ Fails(c, "timeout")
      BY <1>9, Zenon DEF TimerFires, Hears, MayHear, Errors
    <2> QED BY <1>8, <2>1
  <1>10. CASE AnswerArrives(c)
    <2> DEFINE h == onTheWire[c].answer
    <2>1. Hears(c, h)
      BY <1>10, Zenon DEF AnswerArrives, Hears, MayHear
    <2>2. h \in Errors \cup {"ok"}
      <3>1. h # "none"
        BY <1>1, <1>10 DEF AnswerArrives, Booked, LoopsAreBounded
      <3> QED BY <1>1, <3>1 DEF Booked, RetryTypes, WireAnswers, Errors
    <2>3. CASE h = "ok"
      <3>1. /\ Goes(c, caller[c].at + 1, "next", 1)
            /\ outcomes' = [outcomes EXCEPT ![c] = Append(@, h)]
        BY <1>10, <2>3 DEF AnswerArrives, Succeeds, Ends, Goes
      <3>2. IF Its.guarded THEN Settles(c, h) ELSE UNCHANGED breakerVars
        BY <1>10, <2>3, Zenon DEF AnswerArrives, Succeeds, Settles
      <3>3. ~WillRetry(c, h)
        <4>1. Its.retryable \subseteq Errors
          BY ScriptFacts DEF Booked, RetryTypes
        <4> QED BY <2>3, <4>1 DEF WillRetry, Errors
      <3> HIDE DEF h
      <3> QED BY <2>1, <2>2, <3>1, <3>2, <3>3, Zenon DEF Closes
    <2>4. CASE h # "ok"
      <3>1. h \in Errors /\ Fails(c, h)
        BY <1>10, <2>2, <2>4 DEF AnswerArrives
      <3> QED BY <1>8, <2>1, <3>1
    <2> QED BY <2>3, <2>4
  <1> QED BY <1>3, <1>4, <1>5, <1>6, <1>7, <1>9, <1>10, Zenon DEF AnyCallerStep, CallerStep

\* A sum of attempts, one request more.
LEMMA OneRequestMore ==
  ASSUME NEW a \in Nat \ {0}, NEW m \in Nat, NEW k \in Nat, k <= m
  PROVE  /\ (a - 1) * m \in Nat
         /\ (a - 1) * m + k <= ((a + 1) - 1) * m
  <1>1. PICK b \in Nat : a = b + 1
    <2>1. a - 1 \in Nat /\ a = (a - 1) + 1
      OBVIOUS
    <2> QED BY <2>1
  <1>2. a - 1 = b /\ (a + 1) - 1 = b + 1
    BY <1>1
  <1>3. (b + 1) * m = b * m + m /\ b * m \in Nat
    BY <1>1
  <1> QED BY <1>2, <1>3

\* The downstream is called once per attempt.
LEMMA CallsCounted ==
  ASSUME NEW c \in Participants
  PROVE  /\ Asks(c) => totalCallCount' = totalCallCount + 1
         /\ (Passes(c) \/ Opens(c) \/ TurnedAway(c) \/ AsksAgain(c) \/ BacksOff(c) \/ Closes(c)) =>
               totalCallCount' = totalCallCount
  <1>1. Asks(c) => totalCallCount' = totalCallCount + 1
    BY DEF Asks, AttemptStarts, ReceiveCall
  <1>2. Passes(c) \/ Opens(c) \/ TurnedAway(c) \/ AsksAgain(c) => totalCallCount' = totalCallCount
    BY Zenon DEF Passes, ScriptActs, Opens, RequestStarts, TurnedAway, BreakerRefuses, AsksAgain, BackoffEnds
  <1>3. BacksOff(c) \/ Closes(c) => totalCallCount' = totalCallCount
    BY Zenon DEF BacksOff, Closes, Hears
  <1> QED BY <1>1, <1>2, <1>3

\* What a move does to the calls of the request under way.
LEMMA CallsMoved ==
  ASSUME Booked, NEW c \in Participants, AnyCallerStep(c)
  PROVE  /\ CallsMade(c) \in Nat /\ CallsMade(c) <= Its.maxAttempts
         /\ Asks(c) => caller'[c].at = caller[c].at /\ CallsMade(c)' = CallsMade(c) + 1
         /\ Opens(c) \/ AsksAgain(c) \/ BacksOff(c) =>
               caller'[c].at = caller[c].at /\ CallsMade(c)' = CallsMade(c)
         /\ Passes(c) \/ TurnedAway(c) \/ Closes(c) =>
               caller'[c].at = caller[c].at + 1 /\ CallsMade(c)' = 0
  <1>1. c \in StormCallers
    BY SoloCalls
  <1>2. /\ caller[c].attempt \in Nat \ {0} /\ caller[c].attempt <= Its.maxAttempts
        /\ caller[c].phase \in {"next", "attempt", "waiting", "backoff"}
        /\ Phase(c, "next") => caller[c].attempt = 1
    BY <1>1 DEF Booked, RetryTypes, LoopsAreBounded, Positions
  <1>3. Its.maxAttempts \in Nat
    BY ScriptFacts DEF Booked, RetryTypes
  <1>4. CallsMade(c) \in Nat /\ CallsMade(c) <= Its.maxAttempts
    BY <1>2, <1>3 DEF CallsMade
  <1>5. ASSUME NEW a, NEW p, NEW n, Goes(c, a, p, n)
        PROVE  /\ caller'[c].at = a /\ caller'[c].phase = p /\ caller'[c].attempt = n
    BY <1>1, <1>5, GoesTo, ZenonT(60)
  <1>6. ASSUME Asks(c) PROVE caller'[c].at = caller[c].at /\ CallsMade(c)' = CallsMade(c) + 1
    <2>1. Phase(c, "attempt") /\ Goes(c, caller[c].at, "waiting", caller[c].attempt)
      BY <1>6 DEF Asks, AttemptStarts
    <2> QED BY <1>2, <1>5, <2>1 DEF CallsMade, Phase
  <1>7. ASSUME Opens(c) PROVE caller'[c].at = caller[c].at /\ CallsMade(c)' = CallsMade(c)
    <2>1. Phase(c, "next") /\ Goes(c, caller[c].at, "attempt", 1)
      BY <1>7 DEF Opens, RequestStarts, AtStep
    <2> QED BY <1>2, <1>5, <2>1 DEF CallsMade, Phase
  <1>8. ASSUME AsksAgain(c) PROVE caller'[c].at = caller[c].at /\ CallsMade(c)' = CallsMade(c)
    <2>1. Phase(c, "backoff") /\ Goes(c, caller[c].at, "attempt", caller[c].attempt + 1)
      BY <1>8 DEF AsksAgain, BackoffEnds
    <2> QED BY <1>2, <1>5, <2>1 DEF CallsMade, Phase
  <1>9. ASSUME BacksOff(c) PROVE caller'[c].at = caller[c].at /\ CallsMade(c)' = CallsMade(c)
    <2>1. Phase(c, "waiting") /\ Goes(c, caller[c].at, "backoff", caller[c].attempt)
      BY <1>9, Zenon DEF BacksOff, Hears
    <2> QED BY <1>2, <1>5, <2>1 DEF CallsMade, Phase
  <1>10. ASSUME Passes(c) \/ TurnedAway(c) \/ Closes(c)
         PROVE  caller'[c].at = caller[c].at + 1 /\ CallsMade(c)' = 0
    <2>1. Goes(c, caller[c].at + 1, "next", 1)
      BY <1>10, Zenon DEF Passes, TurnedAway, Closes
    <2> QED BY <1>5, <2>1 DEF CallsMade
  <1> QED BY <1>4, <1>6, <1>7, <1>8, <1>9, <1>10

\* No request costs more than its attempts.
LEMMA CostStep ==
  ASSUME Booked, CostIsBounded, NEW c \in Participants, AnyCallerStep(c)
  PROVE  CostIsBounded'
  <1>0. SUFFICES ASSUME exercise' # "retry_storm" PROVE CostIsBounded'
    BY DEF CostIsBounded
  <1>1. exercise' = exercise
    BY CallerMoves, Zenon DEF Passes, ScriptActs, Opens, RequestStarts, TurnedAway, BreakerRefuses,
       AsksAgain, BackoffEnds, Asks, AttemptStarts, BacksOff, Closes, Hears
  <1>2. c = Solo /\ Solo \in StormCallers /\ Its' = Its /\ Solo' = Solo
    BY <1>0, <1>1, SoloCalls, ScriptStays
  <1> DEFINE a == caller[Solo].at  m == Its.maxAttempts  k == CallsMade(Solo)
             b == caller'[Solo].at  j == CallsMade(Solo)'
  <1>3. a \in Nat \ {0} /\ m \in Nat /\ totalCallCount \in Nat
    BY <1>2, ScriptFacts DEF Booked, RetryTypes, Positions
  <1>4. k \in Nat /\ k <= m
    BY <1>2, CallsMoved
  <1>5. totalCallCount <= (a - 1) * m + k
    BY <1>0, <1>1 DEF CostIsBounded
  <1>6. \/ totalCallCount' = totalCallCount + 1 /\ b = a /\ j = k + 1
        \/ totalCallCount' = totalCallCount /\ b = a /\ j = k
        \/ totalCallCount' = totalCallCount /\ b = a + 1 /\ j = 0
    BY <1>2, CallerMoves, CallsCounted, CallsMoved
  <1>7. (a - 1) * m \in Nat /\ (a - 1) * m + k <= ((a + 1) - 1) * m
    BY <1>3, <1>4, OneRequestMore
  <1>8. totalCallCount' <= (b - 1) * m + j
    <2>1. DEFINE q == (a - 1) * m  r == ((a + 1) - 1) * m
    <2>2. r \in Nat
      BY <1>3, OneRequestMore
    <2>3. q \in Nat /\ q + k <= r /\ totalCallCount <= q + k
      BY <1>5, <1>7
    <2> HIDE DEF a, m, k, b, j
    <2>4. (b = a => (b - 1) * m = q) /\ (b = a + 1 => (b - 1) * m = r)
      OBVIOUS
    <2> HIDE DEF q, r
    <2> QED BY <1>3, <1>4, <1>6, <2>2, <2>3, <2>4
  <1> QED BY <1>1, <1>2, <1>8 DEF CostIsBounded

\* The breaker of a guarded script follows its one caller.
LEMMA BreakerFollowsStep ==
  ASSUME Booked, BreakerInv, BreakerFollows, NEW c \in Participants, AnyCallerStep(c)
  PROVE  BreakerFollows'
  <1>1. exercise' = exercise
    BY CallerMoves, Zenon DEF Passes, ScriptActs, Opens, RequestStarts, TurnedAway, BreakerRefuses,
       AsksAgain, BackoffEnds, Asks, AttemptStarts, BacksOff, Closes, Hears
  <1>2. Its' = Its /\ Solo' = Solo
    BY <1>1, ScriptStays
  <1>3. SUFFICES ASSUME Its.guarded
                 PROVE  /\ call'[Solo] = "idle" <=> caller'[Solo].phase = "next"
                        /\ call'[Solo] = "call" => state' = "CLOSED"
                        /\ state' = "HALF_OPEN" <=> call'[Solo] = "probe"
                        /\ \A d \in Callers \ {Solo} : call'[d] = "idle"
    BY <1>2, Zenon DEF BreakerFollows, Phase
  <1>4. c = Solo /\ Solo \in StormCallers /\ Solo \in Callers
    BY <1>3, SoloCalls, ScriptFacts DEF Booked, RetryTypes
  <1>5. /\ call[Solo] = "idle" <=> Phase(Solo, "next")
        /\ call[Solo] = "call" => state = "CLOSED"
        /\ state = "HALF_OPEN" <=> call[Solo] = "probe"
        /\ \A d \in Callers \ {Solo} : call[d] = "idle"
    BY <1>3, Zenon DEF BreakerFollows
  <1>6. call \in [Callers -> {"idle", "call", "probe"}] /\ state \in CircuitState
    BY DEF BreakerInv
  <1>7. ASSUME NEW a, NEW p, NEW n, Goes(c, a, p, n) PROVE caller'[Solo].phase = p
    <2>1. caller'[c].phase = p
      <3>1. c \in StormCallers
        BY SoloCalls
      <3> QED BY <1>7, <3>1 DEF Booked, RetryTypes, Goes
    <2> QED BY <1>4, <2>1
  <1>8. CASE Passes(c)
    <2>1. Phase(Solo, "next") /\ UNCHANGED breakerVars /\ caller'[Solo].phase = "next"
      BY <1>4, <1>7, <1>8, Zenon DEF Passes, ScriptActs, AtStep
    <2> QED BY <1>5, <2>1 DEF breakerVars
  <1>9. CASE Asks(c) \/ AsksAgain(c) \/ BacksOff(c)
    <2>1. UNCHANGED breakerVars
      BY <1>9, Zenon DEF Asks, AttemptStarts, AsksAgain, BackoffEnds, BacksOff
    <2>2. ~Phase(Solo, "next")
      BY <1>4, <1>9 DEF Asks, AttemptStarts, AsksAgain, BackoffEnds, BacksOff, Hears, Phase
    <2>3. caller'[Solo].phase # "next"
      <3>1. \E p \in {"waiting", "attempt", "backoff"} : \E a, n : Goes(c, a, p, n)
        BY <1>9, Zenon DEF Asks, AsksAgain, BacksOff
      <3> QED BY <1>7, <3>1
    <2> QED BY <1>5, <2>1, <2>2, <2>3 DEF breakerVars
  <1>10. CASE Opens(c)
    <2>1. caller'[Solo].phase = "attempt"
      BY <1>7, <1>10 DEF Opens
    <2>2. StartProbe(c) \/ StartCall(c)
      BY <1>3, <1>10, Zenon DEF Opens, RequestStarts
    <2> QED BY <1>4, <1>5, <1>6, <2>1, <2>2 DEF StartProbe, StartCall, EntryState
  <1>11. CASE TurnedAway(c)
    <2>1. caller'[Solo].phase = "next" /\ Reject(c) /\ Phase(Solo, "next")
      BY <1>4, <1>7, <1>11 DEF TurnedAway, BreakerRefuses, AtStep
    <2>2. ~halfOpenProbeInFlight
      <3>1. ~ \E d \in Callers : call[d] = "probe"
        BY <1>5, <2>1
      <3> QED BY <3>1, Zenon DEF BreakerInv, ProbeExclusive
    <2>3. state' = "OPEN" /\ call' = call
      BY <2>1, <2>2 DEF Reject
    <2> QED BY <1>5, <2>1, <2>3
  <1>12. CASE Closes(c)
    <2>1. PICK h \in Errors \cup {"ok"} : Goes(c, caller[c].at + 1, "next", 1) /\ Settles(c, h)
      BY <1>3, <1>12, Zenon DEF Closes
    <2>2. caller'[Solo].phase = "next"
      BY <1>7, <2>1
    <2>3. ProbeSucceeds(c) \/ CallSucceeds(c) \/ ProbeFails(c) \/ CallFails(c)
      BY <2>1, Zenon DEF Settles
    <2> QED
      BY <1>4, <1>5, <1>6, <2>2, <2>3 DEF ProbeSucceeds, CallSucceeds, ProbeFails, CallFails, CircuitState
  <1> QED BY <1>8, <1>9, <1>10, <1>11, <1>12, CallerMoves

-----------------------------------------------------------------------------
(* The exercises, one by one. *)

\* What a line asks for.
LEMMA LineFields ==
  /\ \A t \in {"none", "short", "long"} : Request(t).op = "call" /\ Request(t).timeout = t
  /\ \A t \in {"none", "short", "long"} : \A key \in BOOLEAN :
        /\ Charge(t, key).timeout = t
        /\ key => Charge(t, key).op = "keyed"
        /\ ~key => Charge(t, key).op = "charge"
  /\ \A h \in HealthStates : setHealth(h).op = "health" /\ setHealth(h).to = h
  /\ CooldownElapses.op = "cooldown"
  BY DEF Request, Charge, setHealth, CooldownElapses, ScriptLine

Stands(c, a, p, n) == caller'[c].at = a /\ caller'[c].phase = p /\ caller'[c].attempt = n

\* A move leaves the exercise and the other callers alone, and each kind of move
\* sets its caller's position.
LEMMA MoveFacts ==
  ASSUME Booked, NEW c \in Participants, AnyCallerStep(c)
  PROVE  /\ exercise' = exercise /\ Its' = Its /\ Solo' = Solo
         /\ Passes(c) \/ TurnedAway(c) =>
               caller[c].phase = "next" /\ More(c) /\ Stands(c, caller[c].at + 1, "next", 1)
         /\ Closes(c) =>
               caller[c].phase = "waiting" /\ More(c) /\ Stands(c, caller[c].at + 1, "next", 1)
         /\ Opens(c) =>
               caller[c].phase = "next" /\ More(c) /\ Stands(c, caller[c].at, "attempt", 1)
         /\ Asks(c) =>
               /\ caller[c].phase = "attempt" /\ More(c)
               /\ Stands(c, caller[c].at, "waiting", caller[c].attempt)
         /\ AsksAgain(c) =>
               /\ caller[c].phase = "backoff" /\ More(c)
               /\ Stands(c, caller[c].at, "attempt", caller[c].attempt + 1)
         /\ BacksOff(c) =>
               /\ caller[c].phase = "waiting" /\ More(c)
               /\ Stands(c, caller[c].at, "backoff", caller[c].attempt)
         /\ \A d \in StormCallers \ {c} : caller'[d] = caller[d]
  <1>1. c \in StormCallers
    BY SoloCalls
  <1>2. exercise' = exercise
    BY CallerMoves, Zenon DEF Passes, ScriptActs, Opens, RequestStarts, TurnedAway, BreakerRefuses,
       AsksAgain, BackoffEnds, Asks, AttemptStarts, BacksOff, Closes, Hears
  <1>3. Its' = Its /\ Solo' = Solo
    BY <1>2, ScriptStays
  <1>4. ASSUME NEW a, NEW p, NEW n, Goes(c, a, p, n)
        PROVE  Stands(c, a, p, n) /\ \A d \in StormCallers \ {c} : caller'[d] = caller[d]
    BY <1>1, <1>4, GoesTo, ZenonT(60) DEF Stands
  <1>5. caller[c].phase # "next" => More(c)
    BY <1>1 DEF Booked, LoopsAreBounded, Phase
  <1>6. \E a, p, n : Goes(c, a, p, n)
    BY CallerMoves, Zenon DEF Passes, Opens, TurnedAway, Asks, AsksAgain, BacksOff, Closes
  <1>7. \A d \in StormCallers \ {c} : caller'[d] = caller[d]
    BY <1>4, <1>6
  <1>8. ASSUME Passes(c) \/ TurnedAway(c)
        PROVE  caller[c].phase = "next" /\ More(c) /\ Stands(c, caller[c].at + 1, "next", 1)
    <2>1. Goes(c, caller[c].at + 1, "next", 1) /\ Phase(c, "next") /\ More(c)
      BY <1>8, Zenon DEF Passes, ScriptActs, TurnedAway, BreakerRefuses, AtStep
    <2> QED BY <1>4, <2>1 DEF Phase
  <1>9. ASSUME Opens(c)
        PROVE  caller[c].phase = "next" /\ More(c) /\ Stands(c, caller[c].at, "attempt", 1)
    <2>1. Goes(c, caller[c].at, "attempt", 1) /\ Phase(c, "next") /\ More(c)
      BY <1>9, Zenon DEF Opens, RequestStarts, AtStep
    <2> QED BY <1>4, <2>1 DEF Phase
  <1>10. ASSUME Asks(c)
         PROVE  /\ caller[c].phase = "attempt" /\ More(c)
                /\ Stands(c, caller[c].at, "waiting", caller[c].attempt)
    <2>1. Goes(c, caller[c].at, "waiting", caller[c].attempt) /\ Phase(c, "attempt")
      BY <1>10 DEF Asks, AttemptStarts
    <2> QED BY <1>4, <1>5, <2>1 DEF Phase
  <1>11. ASSUME AsksAgain(c)
         PROVE  /\ caller[c].phase = "backoff" /\ More(c)
                /\ Stands(c, caller[c].at, "attempt", caller[c].attempt + 1)
    <2>1. Goes(c, caller[c].at, "attempt", caller[c].attempt + 1) /\ Phase(c, "backoff")
      BY <1>11 DEF AsksAgain, BackoffEnds
    <2> QED BY <1>4, <1>5, <2>1 DEF Phase
  <1>12. ASSUME BacksOff(c)
         PROVE  /\ caller[c].phase = "waiting" /\ More(c)
                /\ Stands(c, caller[c].at, "backoff", caller[c].attempt)
    <2>1. Goes(c, caller[c].at, "backoff", caller[c].attempt) /\ Phase(c, "waiting")
      BY <1>12 DEF BacksOff, Hears
    <2> QED BY <1>4, <1>5, <2>1 DEF Phase
  <1>13. ASSUME Closes(c)
         PROVE  caller[c].phase = "waiting" /\ More(c) /\ Stands(c, caller[c].at + 1, "next", 1)
    <2>1. Goes(c, caller[c].at + 1, "next", 1) /\ Phase(c, "waiting")
      BY <1>13 DEF Closes, Hears
    <2> QED BY <1>4, <1>5, <2>1 DEF Phase
  <1> QED BY <1>2, <1>3, <1>7, <1>8, <1>9, <1>10, <1>11, <1>12, <1>13, Zenon

\* A script of requests alone, without a breaker: no line is passed and nobody
\* is turned away.
LEMMA PlainMoves ==
  ASSUME Booked, NEW c \in Participants, AnyCallerStep(c), ~Its.guarded,
         More(c) => StepOf(c).op \in RequestOps
  PROVE  Opens(c) \/ Asks(c) \/ AsksAgain(c) \/ BacksOff(c) \/ Closes(c)
  <1>1. ~Passes(c)
    BY DEF Passes, ScriptActs, AtStep, RequestOps
  <1>2. ~TurnedAway(c)
    BY DEF TurnedAway, BreakerRefuses
  <1> QED BY <1>1, <1>2, CallerMoves

\* A call is answered as the health of the downstream will have it.
LEMMA CallAnswered ==
  ASSUME Booked, NEW c \in StormCallers, Asks(c), StepOf(c).op = "call",
         caller[c].attempt # Its.healAt
  PROVE  /\ health' = health
         /\ onTheWire'[c] \in settleGeneric
         /\ \A d \in StormCallers \ {c} : onTheWire'[d] = onTheWire[d]
         /\ outcomes' = outcomes
  <1>1. health' = health /\ outcomes' = outcomes
    BY DEF Asks, AttemptStarts
  <1>2. \E a \in settleGeneric : onTheWire' = [onTheWire EXCEPT ![c] = a]
    BY <1>1 DEF Asks, AttemptStarts
  <1> QED BY <1>1, <1>2 DEF Booked, RetryTypes

\* Between attempts nothing else changes.
LEMMA BetweenAttempts ==
  ASSUME NEW c \in StormCallers, Opens(c) \/ AsksAgain(c) \/ BacksOff(c)
  PROVE  /\ health' = health /\ outcomes' = outcomes /\ totalCallCount' = totalCallCount
         /\ chargesApplied' = chargesApplied /\ appliedCharges' = appliedCharges
  BY Zenon DEF Opens, RequestStarts, AsksAgain, BackoffEnds, BacksOff, Hears

\* A request ends with what its caller hears.
LEMMA ClosesWith ==
  ASSUME Booked, NEW c \in StormCallers, Closes(c)
  PROVE  \E h \in Errors \cup {"ok"} :
            /\ MayHear(c, h) /\ ~WillRetry(c, h)
            /\ outcomes'[c] = Append(outcomes[c], h)
            /\ \A d \in StormCallers \ {c} : outcomes'[d] = outcomes[d]
            /\ health' = health /\ totalCallCount' = totalCallCount
            /\ chargesApplied' = chargesApplied /\ appliedCharges' = appliedCharges
            /\ Its.guarded => Settles(c, h)
  BY DEF Closes, Hears, Booked, RetryTypes

\* naive-hang: the one answer comes in the end.
LEMMA HangStep ==
  ASSUME Booked, exercise = "naive_hang", HangStands, NEW c \in Participants, AnyCallerStep(c)
  PROVE  HangStands'
  <1> USE DEF At, Waits, Comes
  <1>1. c = Solo /\ Solo \in StormCallers
    BY SoloCalls
  <1>2. Its.maxAttempts = 1 /\ Its.retryable = {} /\ ~Its.guarded /\ Its.healAt = 0
    BY LoopFacts, Zenon DEF ItsLoop
  <1>3. Len(Its.steps) = 1 /\ Its.steps[1].op = "call" /\ Its.steps[1].timeout = "none"
    BY ShortScripts, LineFields DEF ItsSteps
  <1>4. At \in Nat \ {0} /\ caller[Solo].attempt \in Nat \ {0}
    BY <1>1 DEF Booked, RetryTypes, Positions
  <1>5. More(Solo) => At = 1 /\ StepOf(Solo).op = "call" /\ TimerOf(Solo) = "none"
    BY <1>3, <1>4 DEF More, StepOf, TimerOf
  <1>6. Opens(Solo) \/ Asks(Solo) \/ AsksAgain(Solo) \/ BacksOff(Solo) \/ Closes(Solo)
    BY <1>1, <1>2, <1>5, PlainMoves DEF RequestOps
  <1>7. Solo' = Solo
    BY MoveFacts
  <1>8. CASE Opens(Solo) \/ AsksAgain(Solo) \/ BacksOff(Solo)
    <2>1. caller'[Solo].at = At /\ caller'[Solo].phase # "waiting"
      BY <1>1, <1>8, MoveFacts DEF Stands
    <2>2. health' = health /\ outcomes' = outcomes
      BY <1>1, <1>8, BetweenAttempts
    <2> QED BY <1>7, <2>1, <2>2 DEF HangStands, Phase
  <1>9. CASE Asks(Solo)
    <2>1. caller'[Solo].at = At /\ StepOf(Solo).op = "call"
      BY <1>1, <1>5, <1>9, MoveFacts DEF Stands
    <2>2. health' = health /\ onTheWire'[Solo] \in settleGeneric /\ outcomes' = outcomes
      BY <1>1, <1>2, <1>4, <1>9, <2>1, CallAnswered
    <2>3. onTheWire'[Solo].answer = "ok"
      BY <2>2 DEF HangStands, settleGeneric, Answer
    <2> QED BY <1>7, <2>1, <2>2, <2>3 DEF HangStands
  <1>10. CASE Closes(Solo)
    <2>1. caller'[Solo].at = At + 1 /\ caller'[Solo].phase = "next" /\ More(Solo) /\ Phase(Solo, "waiting")
      BY <1>1, <1>10, MoveFacts DEF Stands, Phase
    <2>2. PICK h : MayHear(Solo, h) /\ outcomes'[Solo] = Append(outcomes[Solo], h) /\ health' = health
      BY <1>1, <1>10, ClosesWith
    <2>3. h = "ok"
      BY <1>5, <2>1, <2>2 DEF MayHear, HangStands
    <2>4. At = 1 /\ outcomes'[Solo] = <<"ok">>
      <3>1. At = 1 /\ outcomes[Solo] = <<>>
        BY <1>5, <2>1 DEF HangStands
      <3> QED BY <2>2, <2>3, <3>1
    <2>5. caller'[Solo].at = 2
      BY <2>1, <2>4
    <2> HIDE DEF At
    <2> QED BY <1>7, <2>1, <2>2, <2>4, <2>5 DEF HangStands, Phase, At
  <1> QED BY <1>6, <1>8, <1>9, <1>10

\* An outcome is added at the end.
LEMMA OutcomeAdded ==
  ASSUME NEW s \in Seq(Outcomes), NEW h \in Outcomes
  PROVE  /\ Len(Append(s, h)) = Len(s) + 1
         /\ \A i \in 1 .. Len(s) : Append(s, h)[i] = s[i]
         /\ Append(s, h)[Len(s) + 1] = h
  OBVIOUS

\* The scripts of one call without a timeout or a breaker.
LEMMA OneCall ==
  ASSUME Booked, NEW c \in StormCallers,
         exercise \in {"naive_hang", "retry_storm", "transient_recovers", "never_retried"}
  PROVE  /\ caller[c].at \in {1, 2} /\ ~Its.guarded
         /\ More(c) => caller[c].at = 1 /\ StepOf(c).op = "call" /\ TimerOf(c) = "none"
         /\ ~More(c) => caller[c].at = 2
  <1>1. ~Its.guarded
    BY LoopFacts, Zenon DEF ItsLoop
  <1>2. Len(Its.steps) = 1 /\ Its.steps[1].op = "call" /\ Its.steps[1].timeout = "none"
    BY ShortScripts, LineFields DEF ItsSteps
  <1>3. caller[c].at \in Nat \ {0} /\ caller[c].at <= Len(Its.steps) + 1
    BY DEF Booked, RetryTypes, Positions, LoopsAreBounded
  <1>4. caller[c].at = 1 \/ caller[c].at = 2
    BY <1>2, <1>3
  <1>5. More(c) <=> caller[c].at = 1
    BY <1>2, <1>4 DEF More
  <1> QED BY <1>1, <1>2, <1>4, <1>5 DEF StepOf, TimerOf

\* timeout-bounded: each of the two requests is cut off.
LEMMA TimeoutStep ==
  ASSUME Booked, exercise = "timeout_bounded", TimeoutStands, NEW c \in Participants, AnyCallerStep(c)
  PROVE  TimeoutStands'
  <1>1. c = Solo /\ Solo \in StormCallers
    BY SoloCalls
  <1>2. Its.healAt = 0 /\ ~Its.guarded
    BY LoopFacts, Zenon DEF ItsLoop
  <1>3. Len(Its.steps) = 2 /\ \A i \in 1 .. 2 : Its.steps[i].op = "call" /\ Its.steps[i].timeout = "short"
    BY ShortScripts, LineFields DEF ItsSteps
  <1>4. At \in Nat \ {0} /\ caller[Solo].attempt \in Nat \ {0} /\ outcomes[Solo] \in Seq(Outcomes)
    BY <1>1 DEF Booked, RetryTypes, Positions, At
  <1>5. More(Solo) => StepOf(Solo).op = "call" /\ TimerOf(Solo) = "short"
    BY <1>3, <1>4 DEF More, StepOf, TimerOf, At
  <1>6. Opens(Solo) \/ Asks(Solo) \/ AsksAgain(Solo) \/ BacksOff(Solo) \/ Closes(Solo)
    BY <1>1, <1>2, <1>5, PlainMoves DEF RequestOps
  <1>7. Solo' = Solo
    BY MoveFacts
  <1>8. CASE Opens(Solo) \/ AsksAgain(Solo) \/ BacksOff(Solo)
    <2>1. caller'[Solo].at = At /\ caller'[Solo].phase # "waiting"
      BY <1>1, <1>8, MoveFacts DEF Stands, At
    <2>2. health' = health /\ outcomes' = outcomes
      BY <1>1, <1>8, BetweenAttempts
    <2> QED BY <1>7, <2>1, <2>2 DEF TimeoutStands, Phase, At, Waits, Comes
  <1>9. CASE Asks(Solo)
    <2>1. caller'[Solo].at = At /\ StepOf(Solo).op = "call"
      BY <1>1, <1>5, <1>9, MoveFacts DEF Stands, At
    <2>2. health' = health /\ onTheWire'[Solo] \in settleGeneric /\ outcomes' = outcomes
      BY <1>1, <1>2, <1>4, <1>9, <2>1, CallAnswered
    <2>3. onTheWire'[Solo] = Answer("ok", "hang")
      BY <2>2 DEF TimeoutStands, settleGeneric
    <2> QED BY <1>7, <2>1, <2>2, <2>3 DEF TimeoutStands, Phase, At, Waits, Comes
  <1>10. CASE Closes(Solo)
    <2>1. caller'[Solo].at = At + 1 /\ caller'[Solo].phase = "next" /\ More(Solo) /\ Waits
      BY <1>1, <1>10, MoveFacts DEF Stands, At, Waits, Phase
    <2>2. PICK h : MayHear(Solo, h) /\ outcomes'[Solo] = Append(outcomes[Solo], h) /\ health' = health
      BY <1>1, <1>10, ClosesWith
    <2>3. h = "timeout"
      BY <1>5, <2>1, <2>2 DEF MayHear, TimeoutStands, Answer
    <2>4. /\ Len(outcomes[Solo]) = At - 1 /\ health = "down-hang"
          /\ \A i \in 1 .. At - 1 : outcomes[Solo][i] = "timeout"
      BY DEF TimeoutStands
    <2>5. h \in Outcomes
      BY <2>3 DEF Outcomes
    <2>6. /\ Len(outcomes'[Solo]) = At /\ \A i \in 1 .. At - 1 : outcomes'[Solo][i] = outcomes[Solo][i]
          /\ outcomes'[Solo][At] = "timeout"
      BY <1>4, <2>2, <2>3, <2>4, <2>5, OutcomeAdded
    <2>7. \A i \in 1 .. At : outcomes'[Solo][i] = "timeout"
      BY <1>4, <2>4, <2>6
    <2>8. At' = At + 1 /\ ~Waits'
      BY <1>7, <2>1 DEF At, Waits, Phase
    <2>9. (At + 1) - 1 = At
      BY <1>4
    <2> QED BY <1>7, <2>2, <2>4, <2>6, <2>7, <2>8, <2>9 DEF TimeoutStands
  <1> QED BY <1>6, <1>8, <1>9, <1>10

\* non-transient-never-retried: one call, and no second.
LEMMA NeverRetriedStep ==
  ASSUME Booked, exercise = "never_retried", NeverRetriedStands, NEW c \in Participants, AnyCallerStep(c)
  PROVE  NeverRetriedStands'
  <1>1. c = Solo /\ Solo \in StormCallers
    BY SoloCalls
  <1>2. Its.healAt = 0 /\ ~Its.guarded /\ Its.retryable = {"transient"}
    BY LoopFacts, Zenon DEF ItsLoop
  <1>3. At \in {1, 2} /\ caller[Solo].attempt = 1
    BY <1>1, OneCall DEF At, NeverRetriedStands
  <1>5. More(Solo) => At = 1 /\ StepOf(Solo).op = "call" /\ TimerOf(Solo) = "none"
    BY <1>1, OneCall DEF At
  <1>6. Opens(Solo) \/ Asks(Solo) \/ AsksAgain(Solo) \/ BacksOff(Solo) \/ Closes(Solo)
    BY <1>1, <1>2, <1>5, PlainMoves DEF RequestOps
  <1>7. Solo' = Solo /\ ~AsksAgain(Solo)
    BY <1>1, MoveFacts DEF NeverRetriedStands, Phase
  <1>8. CASE Opens(Solo)
    <2>1. caller'[Solo].at = At /\ caller'[Solo].phase = "attempt" /\ caller'[Solo].attempt = 1
      BY <1>1, <1>8, MoveFacts DEF Stands, At
    <2>2. health' = health /\ outcomes' = outcomes /\ totalCallCount' = totalCallCount
      BY <1>1, <1>8, BetweenAttempts
    <2>3. CallsMade(Solo)' = CallsMade(Solo)
      BY <1>1, <1>8, CallsMoved
    <2> QED BY <1>7, <2>1, <2>2, <2>3 DEF NeverRetriedStands, Phase, At, Waits, Comes
  <1>9. CASE Asks(Solo)
    <2>1. /\ caller'[Solo].at = At /\ caller'[Solo].phase = "waiting" /\ StepOf(Solo).op = "call" /\ At = 1
          /\ caller'[Solo].attempt = 1
      BY <1>1, <1>3, <1>5, <1>9, MoveFacts DEF Stands, At
    <2>2. health' = health /\ onTheWire'[Solo] \in settleGeneric /\ outcomes' = outcomes
      BY <1>1, <1>2, <1>3, <1>9, <2>1, CallAnswered
    <2>3. onTheWire'[Solo].answer = "fatal"
      BY <2>2 DEF NeverRetriedStands, settleGeneric, Answer
    <2>4. CallsMade(Solo)' = CallsMade(Solo) + 1 /\ totalCallCount' = totalCallCount + 1
      BY <1>1, <1>9, CallsMoved, CallsCounted
    <2> QED BY <1>7, <2>1, <2>2, <2>3, <2>4 DEF NeverRetriedStands, Phase, At, Waits, Comes
  <1>10. ASSUME NEW h, MayHear(Solo, h), Waits, More(Solo) PROVE h = "fatal" /\ ~WillRetry(Solo, h)
    BY <1>2, <1>5, <1>10 DEF MayHear, NeverRetriedStands, Comes, WillRetry
  <1>11. CASE BacksOff(Solo)
    <2>1. More(Solo) /\ Waits
      BY <1>1, <1>11, MoveFacts DEF Waits, Phase
    <2> QED BY <1>10, <1>11, <2>1, Zenon DEF BacksOff, Hears
  <1>12. CASE Closes(Solo)
    <2>1. caller'[Solo].at = At + 1 /\ caller'[Solo].phase = "next" /\ More(Solo) /\ Waits
      BY <1>1, <1>12, MoveFacts DEF Stands, At, Waits, Phase
    <2>2. PICK h : /\ MayHear(Solo, h) /\ outcomes'[Solo] = Append(outcomes[Solo], h) /\ health' = health
                   /\ totalCallCount' = totalCallCount
      BY <1>1, <1>12, ClosesWith
    <2>3. h = "fatal" /\ At = 1
      BY <1>5, <1>10, <2>1, <2>2
    <2>4. outcomes[Solo] = <<>> /\ totalCallCount = CallsMade(Solo) /\ health = "rejecting"
      BY <2>3 DEF NeverRetriedStands
    <2>5. outcomes'[Solo] = <<"fatal">>
      BY <2>2, <2>3, <2>4
    <2>6. CallsMade(Solo) = 1
      BY <1>3, <2>1 DEF CallsMade, Waits, Phase
    <2>7. caller'[Solo].attempt = 1 /\ caller'[Solo].at = 2
      BY <1>1, <1>12, <2>1, <2>3, MoveFacts DEF Stands
    <2> QED BY <1>7, <2>1, <2>2, <2>4, <2>5, <2>6, <2>7 DEF NeverRetriedStands, At, Waits, Phase
  <1> QED BY <1>6, <1>7, <1>8, <1>9, <1>11, <1>12

\* transient-recovers: the fourth call finds the downstream repaired.
LEMMA RecoversStep ==
  ASSUME Booked, exercise = "transient_recovers", RecoversStands, NEW c \in Participants, AnyCallerStep(c)
  PROVE  RecoversStands'
  <1>1. c = Solo /\ Solo \in StormCallers
    BY SoloCalls
  <1>2. Its.healAt = 4 /\ ~Its.guarded /\ Its.retryable = {"transient"} /\ Its.maxAttempts = 6
    BY LoopFacts, Zenon DEF ItsLoop
  <1> DEFINE n == caller[Solo].attempt
  <1>3. At \in {1, 2} /\ n \in Nat \ {0} /\ caller[Solo].phase \in {"next", "attempt", "waiting", "backoff"}
        /\ (caller[Solo].phase = "next" => n = 1)
    BY <1>1, OneCall DEF At, Booked, RetryTypes, Positions, LoopsAreBounded, Phase
  <1>4. At = 1 =>
          /\ outcomes[Solo] = <<>> /\ totalCallCount = CallsMade(Solo) /\ n <= 4
          /\ health = IF CallsMade(Solo) < 4 THEN "down-fail-fast" ELSE "healthy"
          /\ caller[Solo].phase = "waiting" => Comes = IF n < 4 THEN "transient" ELSE "ok"
          /\ caller[Solo].phase = "backoff" => n < 4
    BY DEF RecoversStands, Waits, Phase
  <1>5. More(Solo) => At = 1 /\ StepOf(Solo).op = "call" /\ TimerOf(Solo) = "none"
    BY <1>1, OneCall DEF At
  <1>6. Opens(Solo) \/ Asks(Solo) \/ AsksAgain(Solo) \/ BacksOff(Solo) \/ Closes(Solo)
    BY <1>1, <1>2, <1>5, PlainMoves DEF RequestOps
  <1>7. Solo' = Solo /\ At' = caller'[Solo].at /\ Comes' = onTheWire'[Solo].answer
        /\ (Phase(Solo, "backoff")' <=> caller'[Solo].phase = "backoff")
        /\ (Waits' <=> caller'[Solo].phase = "waiting")
    BY MoveFacts DEF At, Comes, Phase, Waits
  <1>8. CASE Opens(Solo) \/ AsksAgain(Solo) \/ BacksOff(Solo)
    <2>1. /\ At = 1 /\ caller'[Solo].at = 1 /\ caller'[Solo].phase # "waiting"
          /\ \/ caller'[Solo].attempt = 1 /\ caller'[Solo].phase # "backoff"
             \/ caller[Solo].phase = "backoff" /\ caller'[Solo].attempt = n + 1 /\ caller'[Solo].phase # "backoff"
             \/ BacksOff(Solo) /\ caller'[Solo].attempt = n
      BY <1>1, <1>5, <1>8, MoveFacts DEF Stands, At
    <2>2. health' = health /\ outcomes' = outcomes /\ totalCallCount' = totalCallCount
      BY <1>1, <1>8, BetweenAttempts
    <2>3. CallsMade(Solo)' = CallsMade(Solo)
      BY <1>1, <1>8, CallsMoved
    <2>4. ASSUME BacksOff(Solo) PROVE n < 4
      <3>1. caller[Solo].phase = "waiting"
        BY <1>1, <2>4, MoveFacts
      <3>2. PICK h \in Errors : MayHear(Solo, h)
        BY <2>4, Zenon DEF BacksOff, Hears
      <3>3. h = Comes /\ h # "ok"
        BY <1>5, <2>1, <3>2, <1>1, <2>4, MoveFacts DEF MayHear, Comes, Errors
      <3> QED BY <1>4, <2>1, <3>1, <3>3
    <2>5. caller'[Solo].attempt <= 4 /\ (caller'[Solo].phase = "backoff" => caller'[Solo].attempt < 4)
      BY <1>3, <1>4, <2>1, <2>4
    <2> HIDE DEF n
    <2> QED BY <1>4, <1>7, <2>1, <2>2, <2>3, <2>5 DEF RecoversStands
  <1>9. CASE Asks(Solo)
    <2>1. /\ At = 1 /\ caller'[Solo].at = 1 /\ caller'[Solo].phase = "waiting" /\ StepOf(Solo).op = "call"
          /\ caller[Solo].phase = "attempt" /\ caller'[Solo].attempt = n
      BY <1>1, <1>5, <1>9, MoveFacts DEF Stands, At
    <2>2. CallsMade(Solo) = n - 1 /\ CallsMade(Solo)' = n /\ totalCallCount' = n
      <3>1. CallsMade(Solo) = n - 1
        BY <2>1 DEF CallsMade
      <3>2. CallsMade(Solo)' = CallsMade(Solo) + 1 /\ totalCallCount' = totalCallCount + 1
        BY <1>1, <1>9, CallsMoved, CallsCounted
      <3> QED BY <1>3, <1>4, <2>1, <3>1, <3>2
    <2>3. health = "down-fail-fast"
      BY <1>3, <1>4, <2>1, <2>2
    <2>4. outcomes' = outcomes /\ health' = IF n = 4 THEN "healthy" ELSE "down-fail-fast"
      BY <1>2, <1>9, <2>3 DEF Asks, AttemptStarts
    <2>5. PICK a \in IF health' = health THEN settleGeneric ELSE {Answer("ok", "fast")} :
             onTheWire' = [onTheWire EXCEPT ![Solo] = a]
      BY <1>9, <2>1 DEF Asks, AttemptStarts
    <2>6. a.answer = IF n = 4 THEN "ok" ELSE "transient"
      BY <2>3, <2>4, <2>5 DEF settleGeneric, Answer
    <2>7. onTheWire'[Solo].answer = IF n = 4 THEN "ok" ELSE "transient"
      BY <1>1, <2>5, <2>6 DEF Booked, RetryTypes
    <2>8. n < 4 <=> n # 4
      BY <1>3, <1>4, <2>1
    <2> HIDE DEF n
    <2> QED BY <1>4, <1>7, <2>1, <2>2, <2>4, <2>7, <2>8 DEF RecoversStands
  <1>10. CASE Closes(Solo)
    <2>1. At = 1 /\ caller'[Solo].at = 2 /\ caller[Solo].phase = "waiting" /\ caller'[Solo].phase = "next"
      BY <1>1, <1>5, <1>10, MoveFacts DEF Stands, At
    <2>2. PICK h : /\ MayHear(Solo, h) /\ outcomes'[Solo] = Append(outcomes[Solo], h)
                   /\ totalCallCount' = totalCallCount /\ ~WillRetry(Solo, h)
      BY <1>1, <1>10, ClosesWith
    <2>3. h = Comes
      BY <1>1, <1>5, <1>10, <2>1, <2>2, MoveFacts DEF MayHear, Comes
    <2>4. n = 4 /\ h = "ok"
      BY <1>2, <1>3, <1>4, <2>1, <2>2, <2>3 DEF WillRetry
    <2>5. outcomes'[Solo] = <<"ok">>
      <3>1. outcomes[Solo] = <<>>
        BY <1>4, <2>1
      <3> QED BY <2>2, <2>4, <3>1
    <2>6. totalCallCount' = 4
      BY <1>4, <2>1, <2>2, <2>4 DEF CallsMade
    <2> QED BY <1>7, <2>1, <2>5, <2>6 DEF RecoversStands
  <1> QED BY <1>6, <1>8, <1>9, <1>10

\* retry-storm: every caller multiplies the load on its own account.
LEMMA StormStep ==
  ASSUME Booked, exercise = "retry_storm", StormStands, NEW c \in Participants, AnyCallerStep(c)
  PROVE  StormStands'
  <1>1. c \in StormCallers /\ IsFiniteSet(StormCallers)
    BY SoloCalls, RetriesAssumption DEF RetriesAssumption
  <1>2. Its.healAt = 0 /\ ~Its.guarded /\ Its.retryable = Errors /\ Its.maxAttempts = 3
    BY LoopFacts, Zenon DEF ItsLoop
  <1> DEFINE n == caller[c].attempt
             w == [d \in StormCallers |-> Calls(d)]
             v == [d \in StormCallers |-> Calls(d)']
  <1>3. /\ health = "down-fail-fast" /\ totalCallCount = Total(w, StormCallers)
        /\ \A d \in StormCallers : caller[d].phase = "waiting" => onTheWire[d].answer = "transient"
    BY DEF StormStands, Phase
  <1>4. /\ n \in Nat \ {0} /\ n <= 3 /\ caller[c].at \in {1, 2}
        /\ caller[c].phase \in {"next", "attempt", "waiting", "backoff"}
    BY <1>1, <1>2, OneCall DEF Booked, RetryTypes, Positions, LoopsAreBounded
  <1>5. More(c) => caller[c].at = 1 /\ StepOf(c).op = "call" /\ TimerOf(c) = "none"
    BY <1>1, OneCall
  <1>6. Opens(c) \/ Asks(c) \/ AsksAgain(c) \/ BacksOff(c) \/ Closes(c)
    BY <1>1, <1>2, <1>5, PlainMoves DEF RequestOps
  <1>7. \A d \in StormCallers \ {c} : caller'[d] = caller[d]
    BY MoveFacts
  <1>8. \A d \in StormCallers \ {c} : Calls(d)' = Calls(d)
    BY <1>7 DEF Calls, CallsMade
  <1>9. w \in [StormCallers -> Nat]
    <2>1. ASSUME NEW d \in StormCallers PROVE Calls(d) \in Nat
      <3>1. caller[d].at \in Nat \ {0} /\ caller[d].attempt \in Nat \ {0}
        BY DEF Booked, RetryTypes, Positions
      <3> QED BY <3>1 DEF Calls, CallsMade
    <2> QED BY <2>1
  <1>10. StormStands' <=>
           /\ health' = "down-fail-fast" /\ totalCallCount' = Total(v, StormCallers)
           /\ \A d \in StormCallers : caller'[d].phase = "waiting" => onTheWire'[d].answer = "transient"
    BY DEF StormStands, Phase
  <1>11. ASSUME Calls(c)' = Calls(c), totalCallCount' = totalCallCount PROVE totalCallCount' = Total(v, StormCallers)
    <2>1. v = w
      BY <1>8, <1>11
    <2> QED BY <1>3, <1>11, <2>1
  <1>12. CASE Opens(c) \/ AsksAgain(c) \/ BacksOff(c)
    <2>1. caller'[c].at = caller[c].at /\ caller'[c].phase # "waiting"
      BY <1>12, MoveFacts DEF Stands
    <2>2. health' = health /\ totalCallCount' = totalCallCount
      BY <1>1, <1>12, BetweenAttempts
    <2>3. CallsMade(c)' = CallsMade(c)
      BY <1>12, CallsMoved
    <2>4. Calls(c)' = Calls(c)
      BY <2>1, <2>3 DEF Calls
    <2>5. \A d \in StormCallers \ {c} : onTheWire'[d] = onTheWire[d]
      BY <1>1, <1>12 DEF Opens, RequestStarts, AsksAgain, BackoffEnds, BacksOff, Hears, Booked, RetryTypes
    <2> HIDE DEF n, w, v
    <2> QED BY <1>3, <1>7, <1>10, <1>11, <2>1, <2>2, <2>4, <2>5
  <1>13. CASE Asks(c)
    <2>1. caller'[c].at = caller[c].at /\ StepOf(c).op = "call"
      BY <1>5, <1>13, MoveFacts DEF Stands
    <2>2. /\ health' = health /\ onTheWire'[c] \in settleGeneric
          /\ \A d \in StormCallers \ {c} : onTheWire'[d] = onTheWire[d]
      BY <1>1, <1>2, <1>4, <1>13, <2>1, CallAnswered
    <2>3. onTheWire'[c].answer = "transient"
      BY <1>3, <2>2 DEF settleGeneric, Answer
    <2>4. CallsMade(c)' = CallsMade(c) + 1 /\ totalCallCount' = totalCallCount + 1 /\ CallsMade(c) \in Nat
      BY <1>13, CallsMoved, CallsCounted
    <2>5. Calls(c)' = Calls(c) + 1
      BY <1>4, <2>1, <2>4 DEF Calls
    <2>6. v = [w EXCEPT ![c] = @ + 1]
      BY <1>1, <1>8, <2>5
    <2>7. Total(v, StormCallers) = Total(w, StormCallers) + 1
      <3> HIDE DEF w
      <3>1. Total([w EXCEPT ![c] = @ + 1], StormCallers) = Total(w, StormCallers) + 1
        BY <1>1, <1>9, TotalOfOneMore, ZenonT(60)
      <3> QED BY <2>6, <3>1
    <2> HIDE DEF n, w, v
    <2> QED BY <1>3, <1>7, <1>10, <2>2, <2>3, <2>4, <2>7
  <1>14. CASE Closes(c)
    <2>1. /\ caller[c].at = 1 /\ caller'[c].at = 2 /\ caller[c].phase = "waiting"
          /\ caller'[c].phase = "next" /\ caller'[c].attempt = 1
      BY <1>5, <1>14, MoveFacts DEF Stands
    <2>2. PICK h : /\ MayHear(c, h) /\ health' = health
                   /\ totalCallCount' = totalCallCount /\ ~WillRetry(c, h)
      BY <1>1, <1>14, ClosesWith
    <2>3. h = "transient"
      BY <1>1, <1>3, <1>5, <1>14, <2>1, <2>2, MoveFacts DEF MayHear
    <2>4. n = 3
      BY <1>2, <1>4, <2>2, <2>3 DEF WillRetry, Errors
    <2>5. Calls(c)' = 3 /\ Calls(c) = 3
      BY <2>1, <2>4 DEF Calls, CallsMade
    <2>6. \A d \in StormCallers \ {c} : onTheWire'[d] = onTheWire[d]
      BY <1>1, <1>14 DEF Closes, Hears, Booked, RetryTypes
    <2> HIDE DEF n, w, v
    <2> QED BY <1>3, <1>7, <1>10, <1>11, <2>1, <2>2, <2>5, <2>6
  <1> QED BY <1>6, <1>12, <1>13, <1>14

\* A script of one attempt per request never backs off.
LEMMA OneAttempt ==
  ASSUME Booked, NEW c \in Participants, AnyCallerStep(c), Its.maxAttempts = 1
  PROVE  ~AsksAgain(c) /\ ~BacksOff(c) /\ caller[c].phase # "backoff" /\ caller[c].attempt = 1
  <1>1. c \in StormCallers
    BY SoloCalls
  <1>2. /\ caller[c].attempt \in Nat \ {0} /\ caller[c].attempt <= 1
        /\ (caller[c].phase = "backoff" => caller[c].attempt < 1)
    BY <1>1 DEF Booked, RetryTypes, Positions, LoopsAreBounded, Phase
  <1>3. caller[c].attempt = 1 /\ caller[c].phase # "backoff"
    BY <1>2
  <1>4. ~AsksAgain(c)
    BY <1>3, MoveFacts
  <1>5. ASSUME NEW h PROVE ~WillRetry(c, h)
    BY <1>3 DEF WillRetry
  <1> QED BY <1>3, <1>4, <1>5, Zenon DEF BacksOff

\* naive-double-charge: each arriving request charges.
LEMMA DoubleStep ==
  ASSUME Booked, exercise = "double_charge", DoubleStands, NEW c \in Participants, AnyCallerStep(c)
  PROVE  DoubleStands'
  <1>1. c = Solo /\ Solo \in StormCallers
    BY SoloCalls
  <1>2. Its.healAt = 0 /\ ~Its.guarded /\ Its.maxAttempts = 1
    BY LoopFacts, Zenon DEF ItsLoop
  <1>3. Len(Its.steps) = 2 /\ \A i \in 1 .. 2 : Its.steps[i].op = "charge"
    <2>1. Its.steps[1].op = "charge" /\ Its.steps[2].op = "charge"
      BY ShortScripts, LineFields, Zenon
    <2> QED BY <2>1, ShortScripts DEF ItsSteps
  <1>4. At \in Nat \ {0} /\ chargesApplied \in Nat
    BY <1>1 DEF Booked, RetryTypes, Positions, At
  <1>5. More(Solo) => StepOf(Solo).op = "charge"
    BY <1>3, <1>4 DEF More, StepOf, At
  <1>6. Opens(Solo) \/ Asks(Solo) \/ Closes(Solo)
    BY <1>1, <1>2, <1>5, PlainMoves, OneAttempt DEF RequestOps
  <1>7. Solo' = Solo /\ At' = caller'[Solo].at /\ (Waits' <=> caller'[Solo].phase = "waiting")
        /\ (Waits <=> caller[Solo].phase = "waiting")
    BY MoveFacts DEF At, Waits, Phase
  <1>8. /\ health = "healthy" /\ (Waits => onTheWire[Solo] = Answer("ok", "slow"))
        /\ chargesApplied = (At - 1) + IF Waits THEN 1 ELSE 0
    BY DEF DoubleStands
  <1>9. CASE Opens(Solo)
    <2>1. caller'[Solo].at = At /\ caller'[Solo].phase = "attempt" /\ caller[Solo].phase = "next"
      BY <1>1, <1>9, MoveFacts DEF Stands, At
    <2>2. health' = health /\ chargesApplied' = chargesApplied
      BY <1>1, <1>9, BetweenAttempts
    <2> QED BY <1>7, <1>8, <2>1, <2>2 DEF DoubleStands
  <1>10. CASE Asks(Solo)
    <2>1. /\ caller'[Solo].at = At /\ StepOf(Solo).op = "charge" /\ caller'[Solo].phase = "waiting"
          /\ caller[Solo].phase = "attempt"
      BY <1>1, <1>5, <1>10, MoveFacts DEF Stands, At
    <2>2. health' = "healthy" /\ chargesApplied' = chargesApplied + 1
      BY <1>8, <1>10, <2>1 DEF Asks, AttemptStarts, ReceiveCall, Known
    <2>3. onTheWire' = [onTheWire EXCEPT ![Solo] = Answer("ok", "slow")]
      BY <1>10, <2>1 DEF Asks, AttemptStarts, Known
    <2>4. onTheWire'[Solo] = Answer("ok", "slow")
      BY <1>1, <2>3 DEF Booked, RetryTypes
    <2> QED BY <1>4, <1>7, <1>8, <2>1, <2>2, <2>4 DEF DoubleStands
  <1>11. CASE Closes(Solo)
    <2>1. caller'[Solo].at = At + 1 /\ caller'[Solo].phase = "next" /\ caller[Solo].phase = "waiting"
      BY <1>1, <1>11, MoveFacts DEF Stands, At
    <2>2. health' = health /\ chargesApplied' = chargesApplied
      BY <1>1, <1>11, ClosesWith
    <2> QED BY <1>4, <1>7, <1>8, <2>1, <2>2 DEF DoubleStands
  <1> QED BY <1>6, <1>9, <1>10, <1>11

\* fixed-with-idempotency-key: the first to arrive charges, however its caller
\* hears of it.
LEMMA KeyedStep ==
  ASSUME Booked, exercise = "idempotent_charge", KeyedStands, NEW c \in Participants, AnyCallerStep(c)
  PROVE  KeyedStands'
  <1>1. c = Solo /\ Solo \in StormCallers
    BY SoloCalls
  <1>2. Its.healAt = 0 /\ ~Its.guarded /\ Its.maxAttempts = 1
    BY LoopFacts, Zenon DEF ItsLoop
  <1>3. Len(Its.steps) = 2 /\ \A i \in 1 .. 2 : Its.steps[i].op = "keyed"
    <2>1. Its.steps[1].op = "keyed" /\ Its.steps[2].op = "keyed"
      BY ShortScripts, LineFields, Zenon
    <2> QED BY <2>1, ShortScripts DEF ItsSteps
  <1>4. At \in Nat \ {0} /\ chargesApplied \in Nat
    BY <1>1 DEF Booked, RetryTypes, Positions, At
  <1>5. More(Solo) => StepOf(Solo).op = "keyed"
    BY <1>3, <1>4 DEF More, StepOf, At
  <1>6. Opens(Solo) \/ Asks(Solo) \/ Closes(Solo)
    BY <1>1, <1>2, <1>5, PlainMoves, OneAttempt DEF RequestOps
  <1>7. Solo' = Solo /\ At' = caller'[Solo].at /\ (Waits' <=> caller'[Solo].phase = "waiting")
        /\ (Waits <=> caller[Solo].phase = "waiting") /\ Comes' = onTheWire'[Solo].answer
    BY MoveFacts DEF At, Waits, Phase, Comes
  <1>8. /\ health = "healthy" /\ (Waits => Comes = "ok")
        /\ (appliedCharges <=> At > 1 \/ Waits)
        /\ chargesApplied = IF At > 1 \/ Waits THEN 1 ELSE 0
    BY Zenon DEF KeyedStands
  <1>9. CASE Opens(Solo)
    <2>1. caller'[Solo].at = At /\ caller'[Solo].phase = "attempt" /\ caller[Solo].phase = "next"
      BY <1>1, <1>9, MoveFacts DEF Stands, At
    <2>2. health' = health /\ chargesApplied' = chargesApplied /\ appliedCharges' = appliedCharges
      BY <1>1, <1>9, BetweenAttempts
    <2>3. At' = At /\ ~Waits' /\ ~Waits
      BY <1>7, <2>1
    <2> QED BY <1>8, <2>2, <2>3, Zenon DEF KeyedStands
  <1>10. CASE Asks(Solo)
    <2>1. /\ caller'[Solo].at = At /\ StepOf(Solo).op = "keyed" /\ caller'[Solo].phase = "waiting"
          /\ caller[Solo].phase = "attempt"
      BY <1>1, <1>5, <1>10, MoveFacts DEF Stands, At
    <2>2. health' = "healthy"
      BY <1>8, <1>10, <2>1 DEF Asks, AttemptStarts
    <2>3. chargesApplied' = 1 /\ appliedCharges'
      <3>1. CASE appliedCharges
        BY <1>8, <1>10, <2>1, <3>1 DEF Asks, AttemptStarts, ReceiveCall, Known
      <3>2. CASE ~appliedCharges
        <4>1. chargesApplied = 0
          BY <1>8, <3>2, Zenon
        <4>2. chargesApplied' = chargesApplied + 1
          BY <1>10, <2>1, <3>2 DEF Asks, AttemptStarts, ReceiveCall, Known
        <4>3. appliedCharges'
          BY <1>10, <2>1, <3>2 DEF Asks, AttemptStarts, ReceiveCall, Known
        <4> QED BY <4>1, <4>2, <4>3
      <3> QED BY <3>1, <3>2
    <2>4. \E l : onTheWire' = [onTheWire EXCEPT ![Solo] = Answer("ok", l)]
      BY <1>10, <2>1 DEF Asks, AttemptStarts
    <2>5. onTheWire'[Solo].answer = "ok"
      BY <1>1, <2>4 DEF Booked, RetryTypes, Answer
    <2>6. Waits' /\ Comes' = "ok"
      BY <1>7, <2>1, <2>5
    <2> QED BY <2>2, <2>3, <2>6, Zenon DEF KeyedStands
  <1>11. CASE Closes(Solo)
    <2>1. caller'[Solo].at = At + 1 /\ caller'[Solo].phase = "next" /\ caller[Solo].phase = "waiting"
      BY <1>1, <1>11, MoveFacts DEF Stands, At
    <2>2. health' = health /\ chargesApplied' = chargesApplied /\ appliedCharges' = appliedCharges
      BY <1>1, <1>11, ClosesWith
    <2>3. At' > 1 /\ ~Waits' /\ Waits
      BY <1>4, <1>7, <2>1
    <2> QED BY <1>8, <2>2, <2>3, Zenon DEF KeyedStands
  <1> QED BY <1>6, <1>9, <1>10, <1>11

\* What the moves of a guarded script's one caller do to its breaker.
LEMMA GuardedMoves ==
  ASSUME Booked, BreakerInv, BreakerFollows, Its.guarded, AnyCallerStep(Solo)
  PROVE  /\ sinceOpened \in Nat /\ CooldownMs \in Nat /\ consecutiveFailures \in Nat
         /\ Passes(Solo) \/ Asks(Solo) \/ AsksAgain(Solo) \/ BacksOff(Solo) => breakerVars' = breakerVars
         /\ Opens(Solo) => /\ consecutiveFailures' = consecutiveFailures
                           /\ \/ state = "CLOSED" /\ state' = "CLOSED"
                              \/ state = "OPEN" /\ state' = "HALF_OPEN"
         /\ TurnedAway(Solo) => /\ consecutiveFailures' = consecutiveFailures
                                /\ state = "OPEN" /\ state' = "OPEN" /\ ~(sinceOpened >= CooldownMs)
         /\ \A h : Settles(Solo, h) =>
               /\ state \in {"CLOSED", "HALF_OPEN"}
               /\ h = "ok" => state' = "CLOSED" /\ consecutiveFailures' = 0
               /\ h # "ok" /\ state = "HALF_OPEN" => state' = "OPEN"
               /\ h # "ok" /\ state = "CLOSED" =>
                     /\ consecutiveFailures' = consecutiveFailures + 1
                     /\ state' = IF consecutiveFailures + 1 >= FailureThreshold THEN "OPEN" ELSE "CLOSED"
  <1>1. Solo \in Participants /\ Solo \in Callers
    BY SoloCalls, ScriptFacts DEF Booked, RetryTypes
  <1>2. /\ call[Solo] = "idle" <=> Phase(Solo, "next")
        /\ call[Solo] = "call" => state = "CLOSED"
        /\ state = "HALF_OPEN" <=> call[Solo] = "probe"
        /\ \A d \in Callers \ {Solo} : call[d] = "idle"
    BY Zenon DEF BreakerFollows
  <1>3. /\ state \in {"CLOSED", "OPEN", "HALF_OPEN"} /\ sinceOpened \in Nat /\ consecutiveFailures \in Nat
        /\ CooldownMs \in Nat /\ FailureThreshold \in Nat
        /\ halfOpenProbeInFlight <=> \E d \in Callers : call[d] = "probe"
    BY BreakerAssumption DEF BreakerInv, BreakerAssumption, CircuitState, ProbeExclusive
  <1>4. Passes(Solo) \/ Asks(Solo) \/ AsksAgain(Solo) \/ BacksOff(Solo) => breakerVars' = breakerVars
    BY Zenon DEF Passes, ScriptActs, Asks, AttemptStarts, AsksAgain, BackoffEnds, BacksOff
  <1>5. call[Solo] = "idle" => ~halfOpenProbeInFlight /\ state \in {"CLOSED", "OPEN"}
    BY <1>2, <1>3
  <1>6. ASSUME Opens(Solo)
        PROVE  /\ consecutiveFailures' = consecutiveFailures
               /\ \/ state = "CLOSED" /\ state' = "CLOSED"
                  \/ state = "OPEN" /\ state' = "HALF_OPEN"
    <2>1. StartProbe(Solo) \/ StartCall(Solo)
      BY <1>6, Zenon DEF Opens, RequestStarts
    <2> QED BY <1>5, <2>1 DEF StartProbe, StartCall, EntryState
  <1>7. ASSUME TurnedAway(Solo)
        PROVE  /\ consecutiveFailures' = consecutiveFailures
               /\ state = "OPEN" /\ state' = "OPEN" /\ ~(sinceOpened >= CooldownMs)
    <2>1. Reject(Solo)
      BY <1>7, Zenon DEF TurnedAway, BreakerRefuses
    <2> QED BY <1>5, <2>1 DEF Reject, EntryState
  <1>8. ASSUME NEW h, Settles(Solo, h)
        PROVE  /\ state \in {"CLOSED", "HALF_OPEN"}
               /\ h = "ok" => state' = "CLOSED" /\ consecutiveFailures' = 0
               /\ h # "ok" /\ state = "HALF_OPEN" => state' = "OPEN"
               /\ h # "ok" /\ state = "CLOSED" =>
                     /\ consecutiveFailures' = consecutiveFailures + 1
                     /\ state' = IF consecutiveFailures + 1 >= FailureThreshold THEN "OPEN" ELSE "CLOSED"
    <2>1. CASE h = "ok"
      <3>1. ProbeSucceeds(Solo) \/ CallSucceeds(Solo)
        BY <1>8, <2>1 DEF Settles
      <3> QED BY <1>2, <2>1, <3>1 DEF ProbeSucceeds, CallSucceeds
    <2>2. CASE h # "ok"
      <3>1. ProbeFails(Solo) \/ CallFails(Solo)
        BY <1>8, <2>2 DEF Settles
      <3> QED BY <1>2, <2>2, <3>1 DEF ProbeFails, CallFails
    <2> QED BY <2>1, <2>2
  <1> QED BY <1>3, <1>4, <1>6, <1>7, <1>8

\* A line of the script, and a caller turned away, as the exercises see them.
LEMMA PassedAndTurnedAway ==
  ASSUME Booked, NEW c \in StormCallers
  PROVE  /\ Passes(c) => /\ StepOf(c).op \in {"health", "cooldown"}
                         /\ outcomes' = outcomes
                         /\ StepOf(c).op = "health" => health' = StepOf(c).to
                         /\ StepOf(c).op # "health" => health' = health
                         /\ StepOf(c).op = "cooldown" => sinceOpened >= CooldownMs
         /\ TurnedAway(c) => /\ StepOf(c).op \in RequestOps
                             /\ outcomes'[c] = Append(outcomes[c], "rejected")
                             /\ health' = health
         /\ Opens(c) => StepOf(c).op \in RequestOps
  <1>1. ASSUME Passes(c)
        PROVE  /\ StepOf(c).op \in {"health", "cooldown"}
               /\ outcomes' = outcomes
               /\ StepOf(c).op = "health" => health' = StepOf(c).to
               /\ StepOf(c).op # "health" => health' = health
               /\ StepOf(c).op = "cooldown" => sinceOpened >= CooldownMs
    BY <1>1 DEF Passes, ScriptActs, AtStep
  <1>2. ASSUME TurnedAway(c)
        PROVE  /\ StepOf(c).op \in RequestOps
               /\ outcomes'[c] = Append(outcomes[c], "rejected")
               /\ health' = health
    BY <1>2 DEF TurnedAway, BreakerRefuses, AtStep, Ends, Booked, RetryTypes
  <1>3. Opens(c) => StepOf(c).op \in RequestOps
    BY DEF Opens, RequestStarts, AtStep
  <1> QED BY <1>1, <1>2, <1>3, Zenon

\* The positions of CircuitBreakerTrip that are requests.
TripCalls == At \in 1 .. FailureThreshold + 2 \/ At = Probing \/ At \in Failing .. Cooling - 1 \/ At = Cooling + 1

\* The lines of CircuitBreakerTrip at the caller's position.
LEMMA TripLine ==
  ASSUME Booked, exercise = "breaker_trip"
  PROVE  /\ At \in Nat \ {0} /\ At <= 2 * FailureThreshold + 9 /\ FailureThreshold \in Nat \ {0}
         /\ More(Solo) <=> At <= Cooling + 1
         /\ TripCalls => StepOf(Solo).op = "call" /\ TimerOf(Solo) = "none"
         /\ At = FailureThreshold + 3 => StepOf(Solo).op = "health" /\ StepOf(Solo).to = "healthy"
         /\ At = FailureThreshold + 4 => StepOf(Solo).op = "cooldown"
         /\ At = Probing + 1 => StepOf(Solo).op = "health" /\ StepOf(Solo).to = "down-fail-fast"
         /\ At = Cooling => StepOf(Solo).op = "cooldown"
         /\ More(Solo) /\ StepOf(Solo).op \in RequestOps => TripCalls
  <1> DEFINE F == FailureThreshold
  <1>1. Solo \in StormCallers
    BY SoloCalls
  <1>2. F \in Nat \ {0}
    BY BreakerAssumption DEF BreakerAssumption
  <1>3. Len(Its.steps) = 2 * F + 8
    BY TripSteps DEF ItsSteps
  <1>4. At \in Nat \ {0} /\ At <= 2 * F + 9
    BY <1>1, <1>2, <1>3 DEF At, Booked, RetryTypes, Positions, LoopsAreBounded
  <1>5. StepOf(Solo) = Its.steps[At]
    BY DEF StepOf, At
  <1>6. TripCalls => StepOf(Solo) = Request("none")
    <2>1. /\ \A i \in 1 .. F + 2 : Its.steps[i] = Request("none")
          /\ Its.steps[F + 5] = Request("none")
          /\ \A i \in F + 7 .. 2 * F + 6 : Its.steps[i] = Request("none")
          /\ Its.steps[2 * F + 8] = Request("none")
      BY TripSteps
    <2>2. TripCalls <=> At \in 1 .. F + 2 \/ At = F + 5 \/ At \in F + 7 .. 2 * F + 6 \/ At = 2 * F + 8
      BY <1>2, <1>4 DEF TripCalls, Probing, Failing, Cooling
    <2> QED BY <1>5, <2>1, <2>2
  <1>7. TripCalls => StepOf(Solo).op = "call" /\ TimerOf(Solo) = "none"
    BY <1>6, LineFields DEF TimerOf
  <1>8. /\ At = F + 3 => StepOf(Solo) = setHealth("healthy")
        /\ At = F + 4 => StepOf(Solo) = CooldownElapses
        /\ At = F + 6 => StepOf(Solo) = setHealth("down-fail-fast")
        /\ At = 2 * F + 7 => StepOf(Solo) = CooldownElapses
    BY <1>5, TripSteps
  <1>9. "healthy" \in HealthStates /\ "down-fail-fast" \in HealthStates
    BY DEF HealthStates
  <1>10. /\ At = F + 3 => StepOf(Solo).op = "health" /\ StepOf(Solo).to = "healthy"
         /\ At = F + 4 => StepOf(Solo).op = "cooldown"
         /\ At = Probing + 1 => StepOf(Solo).op = "health" /\ StepOf(Solo).to = "down-fail-fast"
         /\ At = Cooling => StepOf(Solo).op = "cooldown"
    <2>1. Probing + 1 = F + 6 /\ Cooling = 2 * F + 7
      BY <1>2 DEF Probing, Cooling
    <2> QED BY <1>8, <1>9, <2>1, LineFields
  <1>11. More(Solo) <=> At <= Cooling + 1
    BY <1>2, <1>3, <1>4 DEF More, At, Cooling
  <1>12. At <= Cooling + 1 =>
            TripCalls \/ At = F + 3 \/ At = F + 4 \/ At = Probing + 1 \/ At = Cooling
    BY <1>2, <1>4 DEF TripCalls, Probing, Failing, Cooling
  <1>13. More(Solo) /\ StepOf(Solo).op \in RequestOps => TripCalls
    BY <1>10, <1>11, <1>12 DEF RequestOps
  <1> QED BY <1>2, <1>4, <1>7, <1>10, <1>11, <1>13

\* How many requests ended before a position of CircuitBreakerTrip.
LEMMA TripCount ==
  ASSUME NEW a \in Nat \ {0}, a <= Cooling + 1, FailureThreshold \in Nat \ {0}
  PROVE  /\ TripDone(a) \in Nat
         /\ a \in 1 .. FailureThreshold + 2 \/ a = Probing \/ a \in Failing .. Cooling - 1 \/ a = Cooling + 1 =>
               TripDone(a + 1) = TripDone(a) + 1
         /\ a \in {FailureThreshold + 3, FailureThreshold + 4, Probing + 1, Cooling} =>
               TripDone(a + 1) = TripDone(a)
         /\ a <= FailureThreshold + 2 => TripDone(a) = a - 1
         /\ a = Probing => TripDone(a) = FailureThreshold + 2
         /\ a > Probing => TripDone(a) >= FailureThreshold + 3
  <1> DEFINE F == FailureThreshold
  <1>1. Probing = F + 5 /\ Failing = F + 7 /\ Cooling = 2 * F + 7
    BY DEF Probing, Failing, Cooling
  <1>2. \A n \in Nat \ {0} :
           /\ n <= F + 3 => TripDone(n) = n - 1
           /\ n \in F + 4 .. F + 5 => TripDone(n) = F + 2
           /\ n = F + 6 => TripDone(n) = F + 3
           /\ n \in F + 7 .. 2 * F + 7 => TripDone(n) = n - 4
           /\ n > 2 * F + 7 => TripDone(n) = n - 5
    BY <1>1 DEF TripDone
  <1> HIDE DEF F
  <1>3. F \in Nat \ {0}
    BY DEF F
  <1>4. a + 1 \in Nat \ {0} /\ a <= 2 * F + 8
    BY <1>1, <1>3
  <1>5. a <= F + 3 \/ a \in F + 4 .. F + 5 \/ a = F + 6 \/ a \in F + 7 .. 2 * F + 7 \/ a = 2 * F + 8
    BY <1>3, <1>4
  <1>6. TripDone(a) \in Nat
    BY <1>2, <1>3, <1>5
  <1>7. a \in 1 .. F + 2 \/ a = F + 5 \/ a \in F + 7 .. 2 * F + 6 \/ a = 2 * F + 8 =>
               TripDone(a + 1) = TripDone(a) + 1
    BY <1>2, <1>3, <1>4
  <1>8. a \in {F + 3, F + 4, F + 6, 2 * F + 7} => TripDone(a + 1) = TripDone(a)
    BY <1>2, <1>3, <1>4
  <1>9. /\ a <= F + 2 => TripDone(a) = a - 1
        /\ a = F + 5 => TripDone(a) = F + 2
        /\ a > F + 5 => TripDone(a) >= F + 3
    BY <1>2, <1>3, <1>4, <1>5
  <1> QED
    <2>1. Cooling - 1 = 2 * F + 6 /\ Cooling + 1 = 2 * F + 8 /\ Probing + 1 = F + 6
      BY <1>1, <1>3
    <2> QED BY <1>1, <1>6, <1>7, <1>8, <1>9, <2>1 DEF F

\* circuit-breaker-trip: the breaker opens at its threshold, is probed once
\* after the cooldown, and opens again.
LEMMA TripStep ==
  ASSUME Booked, BreakerInv, BreakerFollows, exercise = "breaker_trip", TripStands,
         NEW c \in Participants, AnyCallerStep(c)
  PROVE  TripStands'
  <1> DEFINE F == FailureThreshold
             a == At
             o == outcomes[Solo]
             phase == caller[Solo].phase
  <1>1. c = Solo /\ Solo \in StormCallers /\ AnyCallerStep(Solo)
    BY SoloCalls
  <1>2. Its.healAt = 0 /\ Its.guarded /\ Its.maxAttempts = 1
    BY LoopFacts, Zenon DEF ItsLoop
  <1>3. /\ a \in Nat \ {0} /\ a <= 2 * F + 9 /\ F \in Nat \ {0}
        /\ Probing = F + 5 /\ Failing = F + 7 /\ Cooling = 2 * F + 7
    BY TripLine DEF Probing, Failing, Cooling
  <1>4. /\ At' = caller'[Solo].at /\ o' = outcomes'[Solo] /\ (Waits' <=> caller'[Solo].phase = "waiting")
        /\ (Waits <=> phase = "waiting") /\ Comes' = onTheWire'[Solo].answer
        /\ (Phase(Solo, "backoff")' <=> caller'[Solo].phase = "backoff")
        /\ (Phase(Solo, "next")' <=> caller'[Solo].phase = "next")
        /\ (Phase(Solo, "next") <=> caller[Solo].phase = "next")
    BY MoveFacts DEF At, Waits, Phase, Comes
  <1>5. Passes(Solo) \/ TurnedAway(Solo) \/ Opens(Solo) \/ Asks(Solo) \/ Closes(Solo)
    BY <1>1, <1>2, CallerMoves, OneAttempt
  <1>6. /\ health = IF a \in F + 4 .. F + 6 THEN "healthy" ELSE "down-fail-fast"
        /\ phase = "waiting" => Comes = IF a = F + 5 THEN "ok" ELSE "transient"
        /\ state = "CLOSED" <=> a <= F \/ a \in F + 6 .. 2 * F + 6
        /\ a <= F => consecutiveFailures = a - 1
        /\ a = F + 6 => consecutiveFailures = 0
        /\ a \in F + 7 .. 2 * F + 6 => consecutiveFailures = a - (F + 7)
        /\ a \in {F + 5, 2 * F + 8} /\ phase = "next" => sinceOpened >= CooldownMs
    BY <1>3, <1>4 DEF TripStands
  <1>7. /\ o \in Seq(Outcomes) /\ Len(o) = TripDone(a)
        /\ \A i \in 1 .. Len(o) : (i <= F => o[i] = "transient") /\ (i = F + 3 => o[i] = "ok")
    BY <1>1 DEF TripStands, Got, Booked, RetryTypes
  <1>8. TripStands' <=>
          /\ caller'[Solo].phase # "backoff"
          /\ health' = IF At' \in F + 4 .. F + 6 THEN "healthy" ELSE "down-fail-fast"
          /\ caller'[Solo].phase = "waiting" => Comes' = IF At' = F + 5 THEN "ok" ELSE "transient"
          /\ state' = "CLOSED" <=> At' <= F \/ At' \in F + 6 .. 2 * F + 6
          /\ At' <= F => consecutiveFailures' = At' - 1
          /\ At' = F + 6 => consecutiveFailures' = 0
          /\ At' \in F + 7 .. 2 * F + 6 => consecutiveFailures' = At' - (F + 7)
          /\ At' \in {F + 5, 2 * F + 8} /\ caller'[Solo].phase = "next" => sinceOpened' >= CooldownMs
          /\ Len(o') = TripDone(At')
          /\ \A i \in 1 .. Len(o') : (i <= F => o'[i] = "transient") /\ (i = F + 3 => o'[i] = "ok")
    <2>1. /\ Probing + 1 = F + 6 /\ Cooling - 1 = 2 * F + 6 /\ Cooling + 1 = 2 * F + 8
          /\ Probing = F + 5 /\ Failing = F + 7
      BY <1>3
    <2> QED BY <1>4, <2>1 DEF TripStands, Got, TripDone
  <1>9. TripCalls <=> a \in 1 .. F + 2 \/ a = F + 5 \/ a \in F + 7 .. 2 * F + 6 \/ a = 2 * F + 8
    BY <1>3 DEF TripCalls
  <1>10. sinceOpened \in Nat /\ CooldownMs \in Nat /\ consecutiveFailures \in Nat
    BY <1>1, <1>2, GuardedMoves
  <1>11. CASE Opens(Solo)
    <2>1. caller'[Solo].at = a /\ caller'[Solo].phase = "attempt"
      BY <1>1, <1>11, MoveFacts DEF Stands, At
    <2>2. health' = health /\ outcomes' = outcomes
      BY <1>1, <1>11, BetweenAttempts
    <2>3. (state' = "CLOSED" <=> state = "CLOSED") /\ consecutiveFailures' = consecutiveFailures
      BY <1>1, <1>2, <1>11, GuardedMoves
    <2>4. At' = a /\ o' = o
      BY <1>4, <2>1, <2>2
    <2> HIDE DEF a, o, F
    <2> QED BY <1>6, <1>7, <1>8, <2>1, <2>2, <2>3, <2>4
  <1>12. CASE Asks(Solo)
    <2>1. /\ caller'[Solo].at = a /\ caller'[Solo].phase = "waiting" /\ More(Solo) /\ phase = "attempt"
      BY <1>1, <1>12, MoveFacts DEF Stands, At
    <2>2. StepOf(Solo).op = "call" /\ TripCalls
      BY <1>1, <2>1, TripLine DEF Booked, LoopsAreBounded, Phase
    <2>3. health' = health /\ onTheWire'[Solo] \in settleGeneric /\ outcomes' = outcomes
      BY <1>1, <1>2, <1>12, <2>2, OneAttempt, CallAnswered
    <2>4. breakerVars' = breakerVars
      BY <1>1, <1>2, <1>12, GuardedMoves
    <2>5. state' = state /\ consecutiveFailures' = consecutiveFailures
      BY <2>4 DEF breakerVars
    <2>6. a \in F + 4 .. F + 6 <=> a = F + 5
      BY <1>3, <1>9, <2>2
    <2>7. Comes' = IF a = F + 5 THEN "ok" ELSE "transient"
      <3>1. health = IF a = F + 5 THEN "healthy" ELSE "down-fail-fast"
        BY <1>6, <2>6
      <3>2. onTheWire'[Solo].answer = IF a = F + 5 THEN "ok" ELSE "transient"
        BY <2>3, <3>1 DEF settleGeneric, Answer
      <3> QED BY <1>4, <3>2
    <2>8. At' = a /\ o' = o
      BY <1>4, <2>1, <2>3
    <2> HIDE DEF a, o, F
    <2> QED BY <1>6, <1>7, <1>8, <2>1, <2>3, <2>5, <2>7, <2>8
  <1>13. CASE Passes(Solo)
    <2>1. caller'[Solo].at = a + 1 /\ caller'[Solo].phase = "next" /\ More(Solo) /\ phase = "next"
      BY <1>1, <1>13, MoveFacts DEF Stands, At
    <2>2. /\ StepOf(Solo).op \in {"health", "cooldown"} /\ outcomes' = outcomes
          /\ StepOf(Solo).op = "health" => health' = StepOf(Solo).to
          /\ StepOf(Solo).op # "health" => health' = health
          /\ StepOf(Solo).op = "cooldown" => sinceOpened >= CooldownMs
      BY <1>1, <1>13, PassedAndTurnedAway
    <2>3. a \in {F + 3, F + 4, F + 6, 2 * F + 7}
      <3>1. ~TripCalls
        BY <2>2, TripLine
      <3>2. a <= 2 * F + 8
        BY <1>3, <2>1, TripLine
      <3> QED BY <1>3, <1>9, <3>1, <3>2
    <2>4. health' = IF a + 1 \in F + 4 .. F + 6 THEN "healthy" ELSE "down-fail-fast"
      <3>1. CASE a = F + 3
        BY <1>3, <2>2, <3>1, TripLine
      <3>2. CASE a = F + 4
        BY <1>3, <1>6, <2>2, <3>2, TripLine
      <3>3. CASE a = F + 6
        BY <1>3, <2>2, <3>3, TripLine
      <3>4. CASE a = 2 * F + 7
        BY <1>3, <1>6, <2>2, <3>4, TripLine
      <3> QED BY <2>3, <3>1, <3>2, <3>3, <3>4
    <2>5. a + 1 \in {F + 5, 2 * F + 8} => sinceOpened >= CooldownMs
      <3>1. a + 1 \in {F + 5, 2 * F + 8} => a = F + 4 \/ a = 2 * F + 7
        BY <1>3, <2>3
      <3> QED BY <1>3, <2>2, <3>1, TripLine
    <2>6. breakerVars' = breakerVars
      BY <1>1, <1>2, <1>13, GuardedMoves
    <2>7. state' = state /\ consecutiveFailures' = consecutiveFailures /\ sinceOpened' = sinceOpened
      BY <2>6 DEF breakerVars
    <2>8. At' = a + 1 /\ o' = o
      BY <1>4, <2>1, <2>2
    <2>9. TripDone(a + 1) = TripDone(a)
      <3>1. a \in {F + 3, F + 4, Probing + 1, Cooling} /\ a <= Cooling + 1
        BY <1>3, <2>3
      <3> QED BY <1>3, <3>1, TripCount
    <2> HIDE DEF a, o, F
    <2>10. state = "CLOSED" <=> a + 1 <= F \/ a + 1 \in F + 6 .. 2 * F + 6
      BY <1>3, <1>6, <2>3
    <2>11. /\ a + 1 <= F => consecutiveFailures = (a + 1) - 1
           /\ a + 1 = F + 6 => consecutiveFailures = 0
           /\ a + 1 \in F + 7 .. 2 * F + 6 => consecutiveFailures = (a + 1) - (F + 7)
      BY <1>3, <1>6, <2>3
    <2> QED BY <1>7, <1>8, <2>1, <2>4, <2>5, <2>7, <2>8, <2>9, <2>10, <2>11
  <1>14. CASE TurnedAway(Solo)
    <2>1. caller'[Solo].at = a + 1 /\ caller'[Solo].phase = "next" /\ More(Solo) /\ phase = "next"
      BY <1>1, <1>14, MoveFacts DEF Stands, At
    <2>2. /\ StepOf(Solo).op \in RequestOps /\ outcomes'[Solo] = Append(outcomes[Solo], "rejected")
          /\ health' = health
      BY <1>1, <1>14, PassedAndTurnedAway
    <2>3. /\ consecutiveFailures' = consecutiveFailures
          /\ state = "OPEN" /\ state' = "OPEN" /\ ~(sinceOpened >= CooldownMs)
      BY <1>1, <1>2, <1>14, GuardedMoves
    <2>4. TripCalls
      BY <2>1, <2>2, TripLine
    <2>5. a = F + 1 \/ a = F + 2
      BY <1>3, <1>6, <1>9, <2>1, <2>3, <2>4
    <2>6. "rejected" \in Outcomes
      BY DEF Outcomes
    <2>7. TripDone(a) = a - 1 /\ TripDone(a + 1) = TripDone(a) + 1
      <3>1. a <= Cooling + 1 /\ a \in 1 .. F + 2
        BY <1>3, <2>5
      <3> QED BY <1>3, <3>1, TripCount
    <2>8. At' = a + 1 /\ o' = Append(o, "rejected")
      BY <1>4, <2>1, <2>2
    <2>9. Len(o') = TripDone(a + 1) /\ \A i \in 1 .. Len(o) : o'[i] = o[i]
      BY <1>7, <2>6, <2>7, <2>8, OutcomeAdded
    <2> HIDE DEF a, o, F
    <2>10. \A i \in 1 .. Len(o') : (i <= F => o'[i] = "transient") /\ (i = F + 3 => o'[i] = "ok")
      <3>1. \A i \in 1 .. Len(o') : i <= F \/ i = F + 3 => i \in 1 .. Len(o)
        BY <1>3, <1>7, <2>5, <2>7, <2>9
      <3> QED BY <1>7, <2>9, <3>1
    <2>11. health' = IF a + 1 \in F + 4 .. F + 6 THEN "healthy" ELSE "down-fail-fast"
      BY <1>3, <1>6, <2>2, <2>5
    <2>12. ~(a + 1 <= F) /\ ~(a + 1 \in F + 6 .. 2 * F + 6) /\ a + 1 # F + 6 /\ ~(a + 1 \in F + 7 .. 2 * F + 6)
           /\ a + 1 # F + 5
      BY <1>3, <2>5
    <2>13. a + 1 # 2 * F + 8
      BY <1>3, <2>5
    <2> QED BY <1>8, <2>1, <2>3, <2>8, <2>9, <2>10, <2>11, <2>12, <2>13
  <1>15. CASE Closes(Solo)
    <2>1. caller'[Solo].at = a + 1 /\ caller'[Solo].phase = "next" /\ More(Solo) /\ phase = "waiting"
      BY <1>1, <1>15, MoveFacts DEF Stands, At
    <2>2. PICK h \in Errors \cup {"ok"} :
             /\ MayHear(Solo, h) /\ outcomes'[Solo] = Append(outcomes[Solo], h) /\ health' = health
             /\ Settles(Solo, h)
      BY <1>1, <1>2, <1>15, ClosesWith
    <2>3. TripCalls /\ TimerOf(Solo) = "none"
      <3>1. StepOf(Solo).op \in RequestOps
        BY <1>1, <2>1 DEF Booked, LoopsAreBounded, Phase
      <3> QED BY <2>1, <3>1, TripLine
    <2>4. h = IF a = F + 5 THEN "ok" ELSE "transient"
      <3>1. h = Comes
        BY <2>2, <2>3 DEF MayHear, Comes
      <3> QED BY <1>6, <2>1, <3>1
    <2>5. h \in Outcomes
      BY <2>4 DEF Outcomes
    <2>6. /\ state \in {"CLOSED", "HALF_OPEN"}
          /\ h = "ok" => state' = "CLOSED" /\ consecutiveFailures' = 0
          /\ h # "ok" /\ state = "HALF_OPEN" => state' = "OPEN"
          /\ h # "ok" /\ state = "CLOSED" =>
                /\ consecutiveFailures' = consecutiveFailures + 1
                /\ state' = IF consecutiveFailures + 1 >= FailureThreshold THEN "OPEN" ELSE "CLOSED"
      BY <1>1, <1>2, <2>2, GuardedMoves
    <2>7. a <= Cooling + 1 /\ a <= 2 * F + 8
      BY <1>3, <2>1, TripLine
    <2>8. /\ TripDone(a) \in Nat /\ TripDone(a + 1) = TripDone(a) + 1
          /\ a <= F + 2 => TripDone(a) = a - 1
          /\ a = F + 5 => TripDone(a) = F + 2
          /\ a > F + 5 => TripDone(a) >= F + 3
      <3>1. a \in 1 .. F + 2 \/ a = Probing \/ a \in Failing .. Cooling - 1 \/ a = Cooling + 1
        BY <2>3 DEF TripCalls
      <3>2. Probing = F + 5
        BY <1>3
      <3> QED BY <1>3, <2>7, <3>1, <3>2, TripCount
    <2>9. At' = a + 1 /\ o' = Append(o, h)
      BY <1>4, <2>1, <2>2
    <2>10. Len(o') = TripDone(a + 1) /\ (\A i \in 1 .. Len(o) : o'[i] = o[i]) /\ o'[Len(o) + 1] = h
           /\ Len(o') = Len(o) + 1
      BY <1>7, <2>5, <2>8, <2>9, OutcomeAdded
    <2> HIDE DEF a, o
    <2>11. \A i \in 1 .. Len(o') : (i <= F => o'[i] = "transient") /\ (i = F + 3 => o'[i] = "ok")
      <3>1. Len(o) \in Nat
        BY <1>7, <2>8
      <3>2. \A i \in 1 .. Len(o') : i \in 1 .. Len(o) \/ i = Len(o) + 1
        BY <2>10, <3>1
      <3>3. Len(o) + 1 <= F => h = "transient"
        BY <1>3, <1>7, <1>9, <2>3, <2>4, <2>8
      <3>4. Len(o) + 1 = F + 3 => h = "ok"
        BY <1>3, <1>7, <1>9, <2>3, <2>4, <2>8
      <3> QED BY <1>7, <2>10, <3>2, <3>3, <3>4
    <2>12. health' = IF a + 1 \in F + 4 .. F + 6 THEN "healthy" ELSE "down-fail-fast"
      <3>1. a \in F + 4 .. F + 6 <=> a + 1 \in F + 4 .. F + 6
        BY <1>3, <1>9, <2>3
      <3> QED BY <1>6, <2>2, <3>1
    <2>13. a <= F => /\ consecutiveFailures' = a
                     /\ state' = "CLOSED" <=> a + 1 <= F
      <3>1. a <= F => state = "CLOSED" /\ consecutiveFailures = a - 1 /\ h # "ok" /\ (a - 1) + 1 = a
        BY <1>3, <1>6, <2>4
      <3>2. a <= F => (a >= F <=> ~(a + 1 <= F))
        BY <1>3
      <3> QED BY <2>6, <3>1, <3>2
    <2>14. a = F + 1 \/ a = F + 2 \/ a = 2 * F + 8 => state' = "OPEN"
      <3>1. a = F + 1 \/ a = F + 2 \/ a = 2 * F + 8 => state # "CLOSED" /\ h # "ok"
        BY <1>3, <1>6, <2>4
      <3> QED BY <2>6, <3>1
    <2>15. a = F + 5 => state' = "CLOSED" /\ consecutiveFailures' = 0
      BY <2>4, <2>6
    <2>16. a \in F + 7 .. 2 * F + 6 => /\ consecutiveFailures' = (a - (F + 7)) + 1
                                       /\ state' = "CLOSED" <=> a + 1 \in F + 6 .. 2 * F + 6
      <3>1. a \in F + 7 .. 2 * F + 6 => state = "CLOSED" /\ consecutiveFailures = a - (F + 7) /\ h # "ok"
        BY <1>3, <1>6, <2>4
      <3>2. a \in F + 7 .. 2 * F + 6 => ((a - (F + 7)) + 1 >= F <=> ~(a + 1 \in F + 6 .. 2 * F + 6))
        BY <1>3
      <3> QED BY <2>6, <3>1, <3>2
    <2>17. state' = "CLOSED" <=> a + 1 <= F \/ a + 1 \in F + 6 .. 2 * F + 6
      <3>1. CASE a <= F
        BY <1>3, <2>13, <3>1
      <3>2. CASE a = F + 1 \/ a = F + 2 \/ a = 2 * F + 8
        BY <1>3, <2>14, <3>2
      <3>3. CASE a = F + 5
        BY <1>3, <2>15, <3>3
      <3>4. CASE a \in F + 7 .. 2 * F + 6
        BY <1>3, <2>16, <3>4
      <3> QED BY <1>3, <1>9, <2>3, <3>1, <3>2, <3>3, <3>4
    <2>18. /\ a + 1 <= F => consecutiveFailures' = (a + 1) - 1
           /\ a + 1 = F + 6 => consecutiveFailures' = 0
           /\ a + 1 \in F + 7 .. 2 * F + 6 => consecutiveFailures' = (a + 1) - (F + 7)
      <3>1. a + 1 <= F => a <= F /\ (a + 1) - 1 = a
        BY <1>3
      <3>2. a + 1 = F + 6 => a = F + 5
        BY <1>3
      <3>3. a + 1 \in F + 7 .. 2 * F + 6 => a \in F + 7 .. 2 * F + 6 /\ (a + 1) - (F + 7) = (a - (F + 7)) + 1
        BY <1>3, <1>9, <2>3
      <3> QED BY <2>13, <2>15, <2>16, <3>1, <3>2, <3>3
    <2>19. a + 1 # F + 5 /\ a + 1 # 2 * F + 8
      BY <1>3, <1>9, <2>3
    <2> HIDE DEF F
    <2> QED BY <1>8, <2>1, <2>9, <2>10, <2>11, <2>12, <2>17, <2>18, <2>19
  <1> QED BY <1>5, <1>11, <1>12, <1>13, <1>14, <1>15

\* The lines of the composed scenario at the caller's position.
LEMMA ComposedLine ==
  ASSUME Booked, exercise = "composed"
  PROVE  LET F == FailureThreshold IN
         /\ At \in Nat \ {0} /\ At <= F + 6 /\ F \in Nat \ {0}
         /\ More(Solo) <=> At <= F + 5
         /\ At \in 1 .. F + 2 \/ At = F + 5 => StepOf(Solo).op = "call" /\ TimerOf(Solo) = "short"
         /\ At = F + 3 => StepOf(Solo).op = "health" /\ StepOf(Solo).to = "healthy"
         /\ At = F + 4 => StepOf(Solo).op = "cooldown"
         /\ More(Solo) /\ StepOf(Solo).op \in RequestOps => At \in 1 .. F + 2 \/ At = F + 5
  <1> DEFINE F == FailureThreshold
  <1>1. Solo \in StormCallers
    BY SoloCalls
  <1>2. F \in Nat \ {0}
    BY BreakerAssumption DEF BreakerAssumption
  <1>3. Len(Its.steps) = F + 5
    BY ComposedSteps DEF ItsSteps
  <1>4. At \in Nat \ {0} /\ At <= F + 6
    BY <1>1, <1>2, <1>3 DEF At, Booked, RetryTypes, Positions, LoopsAreBounded
  <1>5. StepOf(Solo) = Its.steps[At]
    BY DEF StepOf, At
  <1>6. At \in 1 .. F + 2 \/ At = F + 5 => StepOf(Solo) = Request("short")
    <2>1. (\A i \in 1 .. F + 2 : Its.steps[i] = makeCall) /\ Its.steps[F + 5] = makeCall
      BY ComposedSteps
    <2> QED BY <1>5, <2>1 DEF makeCall
  <1>7. At \in 1 .. F + 2 \/ At = F + 5 => StepOf(Solo).op = "call" /\ TimerOf(Solo) = "short"
    BY <1>6, LineFields DEF TimerOf
  <1>8. /\ At = F + 3 => StepOf(Solo) = setHealth("healthy")
        /\ At = F + 4 => StepOf(Solo) = CooldownElapses
    BY <1>5, ComposedSteps
  <1>9. /\ At = F + 3 => StepOf(Solo).op = "health" /\ StepOf(Solo).to = "healthy"
        /\ At = F + 4 => StepOf(Solo).op = "cooldown"
    <2>1. "healthy" \in HealthStates
      BY DEF HealthStates
    <2> QED BY <1>8, <2>1, LineFields
  <1>10. More(Solo) <=> At <= F + 5
    BY <1>2, <1>3, <1>4 DEF More, At
  <1>11. At <= F + 5 => At \in 1 .. F + 2 \/ At = F + 5 \/ At = F + 3 \/ At = F + 4
    BY <1>2, <1>4
  <1>12. More(Solo) /\ StepOf(Solo).op \in RequestOps => At \in 1 .. F + 2 \/ At = F + 5
    BY <1>9, <1>10, <1>11 DEF RequestOps
  <1> QED BY <1>2, <1>4, <1>7, <1>9, <1>10, <1>12

\* How many requests ended before a position of the composed scenario.
LEMMA ComposedCount ==
  ASSUME NEW a \in Nat \ {0}, FailureThreshold \in Nat \ {0}
  PROVE  /\ ComposedDone(a) \in Nat
         /\ a \in 1 .. FailureThreshold + 2 \/ a = FailureThreshold + 5 => ComposedDone(a + 1) = ComposedDone(a) + 1
         /\ a \in {FailureThreshold + 3, FailureThreshold + 4} => ComposedDone(a + 1) = ComposedDone(a)
         /\ a = FailureThreshold + 5 => ComposedDone(a) = FailureThreshold + 2
  <1> DEFINE F == FailureThreshold
  <1>1. Probing = F + 5
    BY DEF Probing
  <1>2. \A n \in Nat \ {0} :
           /\ n <= F + 3 => ComposedDone(n) = n - 1
           /\ n \in F + 4 .. F + 5 => ComposedDone(n) = F + 2
           /\ n > F + 5 => ComposedDone(n) = F + 3
    BY <1>1 DEF ComposedDone
  <1> HIDE DEF F
  <1>3. F \in Nat \ {0} /\ a + 1 \in Nat \ {0}
    BY DEF F
  <1>4. a <= F + 3 \/ a \in F + 4 .. F + 5 \/ a > F + 5
    BY <1>3
  <1>5. ComposedDone(a) \in Nat
    BY <1>2, <1>3, <1>4
  <1>6. a \in 1 .. F + 2 \/ a = F + 5 => ComposedDone(a + 1) = ComposedDone(a) + 1
    BY <1>2, <1>3
  <1>7. a \in {F + 3, F + 4} => ComposedDone(a + 1) = ComposedDone(a)
    BY <1>2, <1>3
  <1>8. a = F + 5 => ComposedDone(a) = F + 2
    BY <1>2, <1>3
  <1> QED BY <1>5, <1>6, <1>7, <1>8 DEF F

\* The composed scenario: the breaker counts requests, not attempts.
LEMMA ComposedStep ==
  ASSUME Booked, BreakerInv, BreakerFollows, exercise = "composed", ComposedStands,
         NEW c \in Participants, AnyCallerStep(c)
  PROVE  ComposedStands'
  <1> DEFINE F == FailureThreshold
             a == At
             o == outcomes[Solo]
             phase == caller[Solo].phase
  <1>1. c = Solo /\ Solo \in StormCallers /\ AnyCallerStep(Solo)
    BY SoloCalls
  <1>2. Its.healAt = 0 /\ Its.guarded /\ Its.maxAttempts = 3
    BY LoopFacts, Zenon DEF ItsLoop
  <1>3. a \in Nat \ {0} /\ a <= F + 6 /\ F \in Nat \ {0} /\ Probing = F + 5 /\ caller[Solo].attempt # 0
    BY <1>1, ComposedLine DEF Probing, Booked, RetryTypes, Positions
  <1>4. /\ At' = caller'[Solo].at /\ o' = outcomes'[Solo] /\ (Waits' <=> caller'[Solo].phase = "waiting")
        /\ (Waits <=> phase = "waiting") /\ Comes' = onTheWire'[Solo].answer
        /\ (Phase(Solo, "next")' <=> caller'[Solo].phase = "next")
        /\ (Phase(Solo, "next") <=> caller[Solo].phase = "next")
    BY MoveFacts DEF At, Waits, Phase, Comes
  <1>5. Passes(Solo) \/ TurnedAway(Solo) \/ Opens(Solo) \/ Asks(Solo) \/ AsksAgain(Solo) \/ BacksOff(Solo)
        \/ Closes(Solo)
    BY <1>1, CallerMoves
  <1>6. /\ a >= F + 4 => health = "healthy"
        /\ a = F + 5 /\ phase = "waiting" => Comes = "ok"
        /\ health = "down-fail-fast" =>
              /\ phase = "waiting" => Comes = "transient"
              /\ state = "CLOSED" => consecutiveFailures = a - 1
        /\ a = F + 5 /\ phase = "next" => sinceOpened >= CooldownMs
    BY <1>3, <1>4 DEF ComposedStands
  <1>7. /\ o \in Seq(Outcomes) /\ Len(o) = ComposedDone(a)
        /\ a > F + 5 => o[F + 3] \in {"ok", "timeout"}
    BY <1>1, <1>3 DEF ComposedStands, Got, Booked, RetryTypes
  <1>8. ComposedStands' <=>
          /\ At' >= F + 4 => health' = "healthy"
          /\ At' = F + 5 /\ caller'[Solo].phase = "waiting" => Comes' = "ok"
          /\ health' = "down-fail-fast" =>
                /\ caller'[Solo].phase = "waiting" => Comes' = "transient"
                /\ state' = "CLOSED" => consecutiveFailures' = At' - 1
          /\ At' = F + 5 /\ caller'[Solo].phase = "next" => sinceOpened' >= CooldownMs
          /\ Len(o') = ComposedDone(At')
          /\ At' > F + 5 => o'[F + 3] \in {"ok", "timeout"}
    BY <1>3, <1>4 DEF ComposedStands, Got, ComposedDone
  <1>9. sinceOpened \in Nat /\ CooldownMs \in Nat /\ consecutiveFailures \in Nat
    BY <1>1, <1>2, GuardedMoves
  <1>10. CASE Opens(Solo) \/ AsksAgain(Solo) \/ BacksOff(Solo)
    <2>1. caller'[Solo].at = a /\ caller'[Solo].phase \in {"attempt", "backoff"}
      BY <1>1, <1>10, MoveFacts DEF Stands, At
    <2>2. health' = health /\ outcomes' = outcomes
      BY <1>1, <1>10, BetweenAttempts
    <2>3. (state' = "CLOSED" <=> state = "CLOSED") /\ consecutiveFailures' = consecutiveFailures
      BY <1>1, <1>2, <1>10, GuardedMoves DEF breakerVars
    <2>4. At' = a /\ o' = o
      BY <1>4, <2>1, <2>2
    <2> HIDE DEF a, o, F
    <2> QED BY <1>6, <1>7, <1>8, <2>1, <2>2, <2>3, <2>4
  <1>11. CASE Asks(Solo)
    <2>1. /\ caller'[Solo].at = a /\ caller'[Solo].phase = "waiting" /\ More(Solo) /\ phase = "attempt"
      BY <1>1, <1>11, MoveFacts DEF Stands, At
    <2>2. StepOf(Solo).op = "call"
      BY <1>1, <2>1, ComposedLine DEF Booked, LoopsAreBounded, Phase
    <2>3. health' = health /\ onTheWire'[Solo] \in settleGeneric /\ outcomes' = outcomes
      BY <1>1, <1>2, <1>3, <1>11, <2>2, CallAnswered
    <2>4. breakerVars' = breakerVars
      BY <1>1, <1>2, <1>11, GuardedMoves
    <2>5. state' = state /\ consecutiveFailures' = consecutiveFailures
      BY <2>4 DEF breakerVars
    <2>6. /\ health = "healthy" => Comes' = "ok"
          /\ health = "down-fail-fast" => Comes' = "transient"
      BY <1>4, <2>3 DEF settleGeneric, Answer
    <2>7. At' = a /\ o' = o
      BY <1>4, <2>1, <2>3
    <2>8. a = F + 5 => a >= F + 4
      BY <1>3
    <2> HIDE DEF a, o, F
    <2> QED BY <1>6, <1>7, <1>8, <2>1, <2>3, <2>5, <2>6, <2>7, <2>8
  <1>12. CASE Passes(Solo)
    <2>1. caller'[Solo].at = a + 1 /\ caller'[Solo].phase = "next" /\ More(Solo) /\ phase = "next"
      BY <1>1, <1>12, MoveFacts DEF Stands, At
    <2>2. /\ StepOf(Solo).op \in {"health", "cooldown"} /\ outcomes' = outcomes
          /\ StepOf(Solo).op = "health" => health' = StepOf(Solo).to
          /\ StepOf(Solo).op # "health" => health' = health
          /\ StepOf(Solo).op = "cooldown" => sinceOpened >= CooldownMs
      BY <1>1, <1>12, PassedAndTurnedAway
    <2>3. a = F + 3 \/ a = F + 4
      <3>1. ~(a \in 1 .. F + 2) /\ a # F + 5 /\ a <= F + 5
        BY <2>1, <2>2, ComposedLine
      <3> QED BY <1>3, <3>1
    <2>4. health' = "healthy"
      <3>1. CASE a = F + 3
        BY <2>2, <3>1, ComposedLine
      <3>2. CASE a = F + 4
        BY <1>3, <1>6, <2>2, <3>2, ComposedLine
      <3> QED BY <2>3, <3>1, <3>2
    <2>5. a + 1 = F + 5 => sinceOpened >= CooldownMs
      <3>1. a + 1 = F + 5 => a = F + 4
        BY <1>3
      <3> QED BY <2>2, <3>1, ComposedLine
    <2>6. breakerVars' = breakerVars
      BY <1>1, <1>2, <1>12, GuardedMoves
    <2>7. sinceOpened' = sinceOpened
      BY <2>6 DEF breakerVars
    <2>8. At' = a + 1 /\ o' = o /\ ComposedDone(a + 1) = ComposedDone(a)
      BY <1>3, <1>4, <2>1, <2>2, <2>3, ComposedCount
    <2>9. ~(a + 1 > F + 5)
      BY <1>3, <2>3
    <2> HIDE DEF a, o, F
    <2> QED BY <1>7, <1>8, <2>1, <2>4, <2>5, <2>7, <2>8, <2>9
  <1>13. CASE TurnedAway(Solo)
    <2>1. caller'[Solo].at = a + 1 /\ caller'[Solo].phase = "next" /\ More(Solo) /\ phase = "next"
      BY <1>1, <1>13, MoveFacts DEF Stands, At
    <2>2. /\ StepOf(Solo).op \in RequestOps /\ outcomes'[Solo] = Append(outcomes[Solo], "rejected")
          /\ health' = health
      BY <1>1, <1>13, PassedAndTurnedAway
    <2>3. state' = "OPEN" /\ ~(sinceOpened >= CooldownMs)
      BY <1>1, <1>2, <1>13, GuardedMoves
    <2>4. a \in 1 .. F + 2
      BY <1>6, <2>1, <2>2, <2>3, ComposedLine
    <2>5. ~(a + 1 >= F + 4) /\ a + 1 # F + 5 /\ ~(a + 1 > F + 5)
      BY <1>3, <2>4
    <2>6. "rejected" \in Outcomes
      BY DEF Outcomes
    <2>7. ComposedDone(a + 1) = ComposedDone(a) + 1
      BY <1>3, <2>4, ComposedCount
    <2>8. At' = a + 1 /\ o' = Append(o, "rejected")
      BY <1>4, <2>1, <2>2
    <2>9. Len(o') = ComposedDone(a + 1)
      BY <1>7, <2>6, <2>7, <2>8, OutcomeAdded
    <2> HIDE DEF a, o, F
    <2> QED BY <1>8, <2>1, <2>3, <2>5, <2>8, <2>9
  <1>14. CASE Closes(Solo)
    <2>1. caller'[Solo].at = a + 1 /\ caller'[Solo].phase = "next" /\ More(Solo) /\ phase = "waiting"
      BY <1>1, <1>14, MoveFacts DEF Stands, At
    <2>2. PICK h \in Errors \cup {"ok"} :
             /\ MayHear(Solo, h) /\ outcomes'[Solo] = Append(outcomes[Solo], h) /\ health' = health
             /\ Settles(Solo, h)
      BY <1>1, <1>2, <1>14, ClosesWith
    <2>3. a \in 1 .. F + 2 \/ a = F + 5
      <3>1. StepOf(Solo).op \in RequestOps
        BY <1>1, <2>1 DEF Booked, LoopsAreBounded, Phase
      <3> QED BY <2>1, <3>1, ComposedLine
    <2>4. h = Comes \/ h = "timeout"
      BY <2>2 DEF MayHear, Comes
    <2>5. h \in Outcomes
      BY DEF Outcomes, Errors
    <2>6. /\ state \in {"CLOSED", "HALF_OPEN"}
          /\ h # "ok" /\ state = "HALF_OPEN" => state' = "OPEN"
          /\ h # "ok" /\ state = "CLOSED" => consecutiveFailures' = consecutiveFailures + 1
      BY <1>1, <1>2, <2>2, GuardedMoves
    <2>7. At' = a + 1 /\ o' = Append(o, h)
      BY <1>4, <2>1, <2>2
    <2>8. ComposedDone(a) \in Nat /\ ComposedDone(a + 1) = ComposedDone(a) + 1
      BY <1>3, <2>3, ComposedCount
    <2>9. Len(o') = ComposedDone(a + 1) /\ o'[Len(o) + 1] = h
      BY <1>7, <2>5, <2>7, <2>8, OutcomeAdded
    <2>10. CASE a \in 1 .. F + 2
      <3>1. ~(a + 1 >= F + 4) /\ a + 1 # F + 5 /\ ~(a + 1 > F + 5) /\ (a - 1) + 1 = (a + 1) - 1
        BY <1>3, <2>10
      <3>2. health' = "down-fail-fast" /\ state' = "CLOSED" => consecutiveFailures' = (a + 1) - 1
        <4>1. ASSUME health' = "down-fail-fast", state' = "CLOSED" PROVE consecutiveFailures' = (a + 1) - 1
          <5>1. h # "ok"
            BY <1>6, <2>1, <2>2, <2>4, <4>1
          <5>2. state = "CLOSED"
            BY <2>6, <4>1, <5>1
          <5>3. consecutiveFailures = a - 1
            BY <1>6, <2>2, <4>1, <5>2
          <5> QED BY <2>6, <3>1, <5>1, <5>2, <5>3
        <4> QED BY <4>1
      <3> HIDE DEF a, o, F
      <3> QED BY <1>8, <2>1, <2>7, <2>9, <3>1, <3>2
    <2>11. CASE a = F + 5
      <3>1. health' = "healthy"
        BY <1>3, <1>6, <2>2, <2>11
      <3>2. o'[F + 3] \in {"ok", "timeout"}
        <4>1. Len(o) + 1 = F + 3
          BY <1>3, <1>7, <2>11, ComposedCount
        <4>2. h \in {"ok", "timeout"}
          BY <1>6, <2>1, <2>4, <2>11
        <4> QED BY <2>9, <4>1, <4>2
      <3>3. a + 1 # F + 5
        BY <1>3, <2>11
      <3> HIDE DEF a, o, F
      <3> QED BY <1>8, <2>1, <2>7, <2>9, <3>1, <3>2, <3>3
    <2> QED BY <2>3, <2>10, <2>11
  <1> QED BY <1>5, <1>10, <1>11, <1>12, <1>13, <1>14

-----------------------------------------------------------------------------
(* All exercises together. *)

\* The scripts start where their exercises stand.
LEMMA RetryStarts == RetryInit /\ BreakerInit => RetryInv
  <1> SUFFICES ASSUME RetryInit, BreakerInit PROVE RetryInv
    OBVIOUS
  <1>1. Booked
    BY BookedInit
  <1>2. Solo \in StormCallers /\ StormCallers \subseteq Callers /\ IsFiniteSet(StormCallers)
    BY SoloCalls, RetriesAssumption DEF RetriesAssumption
  <1>3. /\ \A c \in StormCallers : /\ caller[c].at = 1 /\ caller[c].phase = "next" /\ caller[c].attempt = 1
                                   /\ outcomes[c] = <<>>
        /\ totalCallCount = 0 /\ chargesApplied = 0 /\ health \in Its.starts
    BY DEF RetryInit, Its
  <1>4. /\ At = 1 /\ ~Waits /\ ~Phase(Solo, "backoff") /\ outcomes[Solo] = <<>> /\ Len(outcomes[Solo]) = 0
        /\ caller[Solo].attempt = 1 /\ Phase(Solo, "next") /\ CallsMade(Solo) = 0
    BY <1>2, <1>3 DEF At, Waits, Phase, CallsMade
  <1>5. FailureThreshold \in Nat \ {0}
    BY BreakerAssumption DEF BreakerAssumption
  <1>6. CostIsBounded
    <2>1. Its.maxAttempts \in Nat
      BY <1>1, ScriptFacts DEF Booked, RetryTypes
    <2>2. (1 - 1) * Its.maxAttempts = 0
      BY <2>1
    <2> QED BY <1>2, <1>3, <1>4, <2>2 DEF CostIsBounded
  <1>7. BreakerFollows
    BY <1>2, <1>4 DEF BreakerFollows, BreakerInit
  <1>8. exercise = "naive_hang" => HangStands
    BY <1>3, <1>4, StartFacts DEF HangStands
  <1>9. exercise = "timeout_bounded" => TimeoutStands
    BY <1>3, <1>4, StartFacts DEF TimeoutStands
  <1>10. exercise = "retry_storm" => StormStands
    <2> DEFINE w == [c \in StormCallers |-> Calls(c)]
    <2>1. \A c \in StormCallers : w[c] = 0
      BY <1>3 DEF Calls, CallsMade
    <2>2. w \in [StormCallers -> Nat]
      BY <2>1
    <2> HIDE DEF w
    <2>3. Total(w, StormCallers) = 0
      BY <1>2, <2>1, <2>2, TotalOfZeros
    <2>4. \A c \in StormCallers : ~Phase(c, "waiting")
      BY <1>3 DEF Phase
    <2> QED BY <1>3, <2>3, <2>4, StartFacts DEF StormStands, w
  <1>11. exercise = "transient_recovers" => RecoversStands
    BY <1>3, <1>4, StartFacts DEF RecoversStands
  <1>12. exercise = "never_retried" => NeverRetriedStands
    BY <1>3, <1>4, StartFacts DEF NeverRetriedStands
  <1>13. exercise = "breaker_trip" => TripStands
    <2>1. state = "CLOSED" /\ consecutiveFailures = 0
      BY DEF BreakerInit
    <2>2. TripDone(1) = 0
      <3>1. 1 \in Nat \ {0} /\ 1 <= Cooling + 1 /\ 1 <= FailureThreshold + 2 /\ 1 - 1 = 0
        BY <1>5 DEF Cooling
      <3> QED BY <1>5, <3>1, TripCount
    <2>3. Probing = FailureThreshold + 5 /\ Failing = FailureThreshold + 7 /\ Cooling = 2 * FailureThreshold + 7
      BY DEF Probing, Failing, Cooling
    <2>4. 1 <= FailureThreshold /\ ~(1 \in FailureThreshold + 4 .. Probing + 1) /\ 1 # Probing /\ 1 # Probing + 1
          /\ ~(1 \in Failing .. Cooling - 1) /\ ~(1 \in {Probing, Cooling + 1})
      BY <1>5, <2>3
    <2>5. \A i \in 1 .. Len(outcomes[Solo]) : FALSE
      BY <1>4
    <2>6. exercise = "breaker_trip" => health = "down-fail-fast"
      BY <1>3, StartFacts
    <2> QED BY <1>4, <2>1, <2>2, <2>4, <2>5, <2>6 DEF TripStands
  <1>14. exercise = "composed" => ComposedStands
    <2>1. state = "CLOSED" /\ consecutiveFailures = 0
      BY DEF BreakerInit
    <2>2. ComposedDone(1) = 0
      <3>1. 1 <= FailureThreshold + 3 /\ ~(1 \in FailureThreshold + 4 .. Probing) /\ ~(1 > Probing)
        BY <1>5 DEF Probing
      <3> QED BY <3>1 DEF ComposedDone
    <2>3. ~(1 >= FailureThreshold + 4) /\ 1 # Probing /\ ~(1 > Probing)
      BY <1>5 DEF Probing
    <2> QED BY <1>4, <2>1, <2>2, <2>3 DEF ComposedStands
  <1>15. exercise = "double_charge" => DoubleStands
    BY <1>3, <1>4, StartFacts DEF DoubleStands
  <1>16. exercise = "idempotent_charge" => KeyedStands
    <2>1. ~appliedCharges /\ ~(At > 1) /\ ~Waits
      BY <1>4 DEF RetryInit
    <2>2. exercise = "idempotent_charge" => health = "healthy"
      BY <1>3, StartFacts
    <2> QED BY <1>3, <2>1, <2>2, Zenon DEF KeyedStands
  <1>17. ExerciseStands
    BY <1>8, <1>9, <1>10, <1>11, <1>12, <1>13, <1>14, <1>15, <1>16, Zenon DEF ExerciseStands
  <1> QED BY <1>1, <1>6, <1>7, <1>17 DEF Booked, RetryInv

\* The clock moves nobody.
LEMMA RetryRests ==
  ASSUME RetryInv, UNCHANGED retryVars, state' = state, call' = call, consecutiveFailures' = consecutiveFailures,
         sinceOpened >= CooldownMs => sinceOpened' >= CooldownMs
  PROVE  RetryInv'
  <1>1. /\ exercise' = exercise /\ health' = health /\ caller' = caller /\ onTheWire' = onTheWire
        /\ totalCallCount' = totalCallCount /\ chargesApplied' = chargesApplied
        /\ appliedCharges' = appliedCharges /\ outcomes' = outcomes
    BY DEF retryVars
  <1>2. Its' = Its /\ Solo' = Solo
    BY <1>1, ScriptStays
  <1>3. RetryTypes'
    BY <1>1 DEF RetryInv, RetryTypes, Exercises
  <1>4. LoopsAreBounded'
    BY <1>1, <1>2 DEF RetryInv, LoopsAreBounded, Phase, More, StepOf
  <1>5. (\A c : CallsMade(c)' = CallsMade(c)) /\ (\A c : Calls(c)' = Calls(c)) /\ At' = At
        /\ (Waits' <=> Waits) /\ Comes' = Comes /\ (\A i : Got(i)' = Got(i))
        /\ (\A c, p : Phase(c, p)' <=> Phase(c, p))
    BY <1>1, <1>2 DEF CallsMade, Calls, At, Waits, Comes, Got, Phase
  <1>6. CostIsBounded'
    BY <1>1, <1>2, <1>5 DEF RetryInv, CostIsBounded
  <1>7. BreakerFollows'
    BY <1>2, <1>5, Zenon DEF RetryInv, BreakerFollows
  <1>8. ExerciseStands'
    <2>1. HangStands => HangStands'
      BY <1>1, <1>2, <1>5 DEF HangStands
    <2>2. TimeoutStands => TimeoutStands'
      BY <1>1, <1>2, <1>5 DEF TimeoutStands
    <2>3. StormStands => StormStands'
      BY <1>1, <1>2, <1>5 DEF StormStands
    <2>4. RecoversStands => RecoversStands'
      BY <1>1, <1>2, <1>5 DEF RecoversStands
    <2>5. NeverRetriedStands => NeverRetriedStands'
      BY <1>1, <1>2, <1>5 DEF NeverRetriedStands
    <2>6. TripStands => TripStands'
      BY <1>1, <1>2, <1>5 DEF TripStands, TripDone
    <2>7. ComposedStands => ComposedStands'
      BY <1>1, <1>2, <1>5 DEF ComposedStands, ComposedDone
    <2>8. DoubleStands => DoubleStands'
      BY <1>1, <1>2, <1>5 DEF DoubleStands
    <2>9. KeyedStands => KeyedStands'
      BY <1>1, <1>2, <1>5, Zenon DEF KeyedStands
    <2> QED BY <1>1, <2>1, <2>2, <2>3, <2>4, <2>5, <2>6, <2>7, <2>8, <2>9, Zenon DEF RetryInv, ExerciseStands
  <1> QED BY <1>3, <1>4, <1>6, <1>7, <1>8 DEF RetryInv

\* Every step of a caller, of the clock and of the script keeps it.
LEMMA RetryStepInv == RetryInv /\ BreakerInv /\ [RetryNext]_allRetryVars => RetryInv'
  <1> SUFFICES ASSUME RetryInv, BreakerInv, [RetryNext]_allRetryVars PROVE RetryInv'
    OBVIOUS
  <1>1. Booked /\ CostIsBounded /\ BreakerFollows /\ ExerciseStands
    BY DEF RetryInv, Booked
  <1>2. ASSUME NEW c \in Participants, AnyCallerStep(c) PROVE RetryInv'
    <2>1. exercise' = exercise
      BY <1>1, <1>2, MoveFacts
    <2>2. Booked'
      BY <1>1, <1>2, CallerBooked
    <2>3. CostIsBounded'
      BY <1>1, <1>2, CostStep
    <2>4. BreakerFollows'
      BY <1>1, <1>2, BreakerFollowsStep
    <2>5. exercise = "naive_hang" => HangStands'
      BY <1>1, <1>2, HangStep DEF ExerciseStands
    <2>6. exercise = "timeout_bounded" => TimeoutStands'
      BY <1>1, <1>2, TimeoutStep DEF ExerciseStands
    <2>7. exercise = "retry_storm" => StormStands'
      BY <1>1, <1>2, StormStep DEF ExerciseStands
    <2>8. exercise = "transient_recovers" => RecoversStands'
      BY <1>1, <1>2, RecoversStep DEF ExerciseStands
    <2>9. exercise = "never_retried" => NeverRetriedStands'
      BY <1>1, <1>2, NeverRetriedStep DEF ExerciseStands
    <2>10. exercise = "breaker_trip" => TripStands'
      BY <1>1, <1>2, TripStep DEF ExerciseStands
    <2>11. exercise = "composed" => ComposedStands'
      BY <1>1, <1>2, ComposedStep DEF ExerciseStands
    <2>12. exercise = "double_charge" => DoubleStands'
      BY <1>1, <1>2, DoubleStep DEF ExerciseStands
    <2>13. exercise = "idempotent_charge" => KeyedStands'
      BY <1>1, <1>2, KeyedStep DEF ExerciseStands
    <2>14. ExerciseStands'
      BY <2>1, <2>5, <2>6, <2>7, <2>8, <2>9, <2>10, <2>11, <2>12, <2>13, Zenon DEF ExerciseStands
    <2> QED BY <2>2, <2>3, <2>4, <2>14, Zenon DEF Booked, RetryInv
  <1>3. CASE CooldownTicks
    <2>1. sinceOpened \in Nat /\ CooldownMs \in Nat
      BY BreakerAssumption DEF BreakerInv, BreakerAssumption
    <2> QED BY <1>3, <2>1, RetryRests DEF CooldownTicks, Tick
  <1>4. CASE UNCHANGED allRetryVars
    BY <1>4, RetryRests DEF allRetryVars, breakerVars
  <1> QED BY <1>2, <1>3, <1>4, Zenon DEF RetryNext

\* The retries stay in step with their scripts and their breaker.
LEMMA RetryInvariant == RetrySpec => [](RetryInv /\ BreakerInv)
  <1>1. RetrySpec => []BreakerInv
    BY RetriesUseTheBreaker, BreakerInvariant, PTL
  <1> QED BY <1>1, RetryStarts, RetryStepInv, PTL DEF RetrySpec

\* What the callers of the storm cost, and what they cost in the end.
LEMMA StormCost ==
  ASSUME RetryInv, exercise = "retry_storm"
  PROVE  /\ totalCallCount <= Cardinality(StormCallers) * 3
         /\ RetriesOver => totalCallCount = Cardinality(StormCallers) * 3
  <1> DEFINE w == [d \in StormCallers |-> Calls(d)]
  <1>1. Participants = StormCallers /\ IsFiniteSet(StormCallers) /\ Booked
    BY SoloCalls, RetriesAssumption DEF RetriesAssumption, RetryInv, Booked
  <1>2. ~Its.guarded /\ Its.maxAttempts = 3
    BY LoopFacts, Zenon DEF ItsLoop
  <1>3. totalCallCount = Total(w, StormCallers)
    BY DEF RetryInv, ExerciseStands, StormStands
  <1>4. ASSUME NEW d \in StormCallers PROVE Calls(d) \in Nat /\ Calls(d) <= 3 /\ (RetriesOver => Calls(d) = 3)
    <2>1. /\ caller[d].at \in {1, 2} /\ caller[d].attempt \in Nat \ {0} /\ caller[d].attempt <= 3
          /\ caller[d].phase \in {"next", "attempt", "waiting", "backoff"}
          /\ ~More(d) => caller[d].at = 2
          /\ caller[d].phase # "next" => More(d)
          /\ caller[d].phase = "next" => caller[d].attempt = 1
      BY <1>1, <1>2, OneCall DEF Booked, RetryTypes, Positions, LoopsAreBounded, Phase
    <2>2. More(d) => caller[d].at = 1
      BY <1>1, OneCall
    <2>3. RetriesOver => ~More(d) /\ caller[d].phase = "next"
      BY <1>1 DEF RetriesOver, Phase
    <2>4. CASE More(d)
      BY <2>1, <2>2, <2>3, <2>4 DEF Calls, CallsMade
    <2>5. CASE ~More(d)
      BY <2>1, <2>3, <2>5 DEF Calls, CallsMade
    <2> QED BY <2>4, <2>5
  <1>5. w \in [StormCallers -> Nat] /\ \A d \in StormCallers : w[d] <= 3 /\ (RetriesOver => w[d] = 3)
    BY <1>4
  <1> HIDE DEF w
  <1>6. Total(w, StormCallers) <= Cardinality(StormCallers) * 3
    BY <1>1, <1>5, TotalIsBounded
  <1>7. RetriesOver => Total(w, StormCallers) = Cardinality(StormCallers) * 3
    BY <1>1, <1>5, TotalOfEquals
  <1> QED BY <1>3, <1>6, <1>7

\* The whole load stays within callers times requests times attempts.
LEMMA LoadIsBounded ==
  ASSUME RetryInv PROVE totalCallCount <= Cardinality(Participants) * Len(Its.steps) * Its.maxAttempts
  <1>1. Booked /\ CostIsBounded /\ exercise \in DOMAIN Exercises
    BY DEF RetryInv, Booked, RetryTypes
  <1>2. CASE exercise = "retry_storm"
    <2>1. Participants = StormCallers /\ Len(Its.steps) = 1 /\ Its.maxAttempts = 3
      BY <1>2, SoloCalls, ShortScripts, LoopFacts DEF ItsSteps, ItsLoop
    <2>2. Cardinality(StormCallers) \in Nat
      BY RetriesAssumption, FS_CardinalityType DEF RetriesAssumption
    <2>3. Cardinality(StormCallers) * 1 = Cardinality(StormCallers)
      BY <2>2
    <2> QED BY <1>2, <2>1, <2>3, StormCost
  <1>3. CASE exercise # "retry_storm"
    <2> DEFINE a == caller[Solo].at  m == Its.maxAttempts  l == Len(Its.steps)  k == CallsMade(Solo)
    <2>1. Participants = {Solo} /\ Solo \in StormCallers /\ Cardinality({Solo}) = 1
      BY <1>3, SoloCalls, FS_Singleton
    <2>2. l \in Nat \ {0} /\ m \in Nat \ {0} /\ a \in Nat \ {0} /\ a <= l + 1 /\ totalCallCount \in Nat
      BY <1>1, <2>1, ScriptFacts DEF Booked, RetryTypes, Positions, LoopsAreBounded
    <2>3. totalCallCount <= (a - 1) * m + k
      BY <1>1, <1>3 DEF CostIsBounded
    <2>4. /\ caller[Solo].attempt \in Nat \ {0} /\ caller[Solo].attempt <= m
          /\ caller[Solo].phase = "next" => caller[Solo].attempt = 1
          /\ caller[Solo].phase # "next" => a <= l
      BY <1>1, <2>1 DEF Booked, RetryTypes, Positions, LoopsAreBounded, Phase, More
    <2>5. k \in Nat /\ k <= m /\ (a = l + 1 => k = 0)
      BY <2>2, <2>4 DEF CallsMade
    <2> HIDE DEF a, m, l, k
    <2>6. (a - 1) * m + k <= l * m
      <3>1. CASE a = l + 1
        <4>1. a - 1 = l /\ l * m \in Nat
          BY <2>2, <3>1
        <4> QED BY <2>5, <3>1, <4>1
      <3>2. CASE a <= l
        <4>1. (a - 1) * m \in Nat /\ (a - 1) * m + m = a * m
          <5>1. (a - 1) * m + k <= ((a + 1) - 1) * m /\ (a - 1) * m \in Nat
            BY <2>2, <2>5, OneRequestMore
          <5>2. PICK b \in Nat : a = b + 1
            <6>1. a - 1 \in Nat /\ a = (a - 1) + 1
              BY <2>2
            <6> QED BY <6>1
          <5>3. (b + 1) * m = b * m + m /\ a - 1 = b
            BY <2>2, <5>2
          <5> QED BY <5>1, <5>2, <5>3
        <4>2. PICK e \in Nat : l = a + e
          <5>1. l - a \in Nat /\ l = a + (l - a)
            BY <2>2, <3>2
          <5> QED BY <5>1
        <4>3. l * m = a * m + e * m /\ e * m \in Nat /\ a * m \in Nat
          BY <2>2, <4>2
        <4> QED BY <2>2, <2>5, <4>1, <4>3
      <3> QED BY <2>2, <3>1, <3>2
    <2>7. 1 * l = l /\ l * m \in Nat /\ (a - 1) * m \in Nat
      BY <2>2
    <2>8. totalCallCount <= l * m
      BY <2>2, <2>3, <2>5, <2>6, <2>7
    <2> QED BY <2>1, <2>7, <2>8 DEF l, m
  <1> QED BY <1>2, <1>3

\* While the downstream fails, a closed breaker has let fewer requests fail
\* than its threshold.
LEMMA FailuresAreCapped ==
  ASSUME RetryInv, BreakerInv, exercise = "composed", health = "down-fail-fast", state = "CLOSED"
  PROVE  totalCallCount <= FailureThreshold * Its.maxAttempts
  <1> DEFINE a == caller[Solo].at  k == CallsMade(Solo)  F == FailureThreshold
  <1>1. Booked /\ CostIsBounded /\ ComposedStands /\ Solo \in StormCallers
    BY SoloCalls DEF RetryInv, Booked, ExerciseStands
  <1>2. Its.maxAttempts = 3
    BY LoopFacts DEF ItsLoop
  <1>3. a \in Nat \ {0} /\ F \in Nat /\ totalCallCount \in Nat /\ consecutiveFailures \in Nat
    BY <1>1, BreakerAssumption DEF Booked, RetryTypes, Positions, BreakerAssumption, BreakerInv
  <1>4. consecutiveFailures = a - 1 /\ consecutiveFailures < F
    BY <1>1 DEF ComposedStands, BreakerInv, ClosedBelowThreshold, At
  <1>5. totalCallCount <= (a - 1) * 3 + k
    BY <1>1, <1>2 DEF CostIsBounded
  <1>6. k \in Nat /\ k <= 3
    <2>1. caller[Solo].attempt \in Nat \ {0} /\ caller[Solo].attempt <= 3
      BY <1>1, <1>2 DEF Booked, RetryTypes, Positions, LoopsAreBounded
    <2> QED BY <2>1 DEF CallsMade
  <1> HIDE DEF a, k
  <1> QED BY <1>2, <1>3, <1>4, <1>5, <1>6

\* Each script ends with the numbers it announces.
LEMMA VerdictsHold ==
  ASSUME RetryInv, BreakerInv, RetriesOver
  PROVE  Verdict
  <1>1. Booked /\ BreakerFollows /\ ExerciseStands /\ Solo \in StormCallers
    BY SoloCalls DEF RetryInv, Booked
  <1>2. Solo \in Participants
    BY SoloCalls, Zenon DEF Participants
  <1>3. ~More(Solo) /\ caller[Solo].phase = "next" /\ Phase(Solo, "next") /\ ~Waits
    BY <1>2 DEF RetriesOver, Phase, Waits
  <1>4. At \in Nat \ {0} /\ At <= Len(Its.steps) + 1 /\ Len(Its.steps) \in Nat /\ ~(At <= Len(Its.steps))
    BY <1>1, <1>3, ScriptFacts DEF Booked, RetryTypes, Positions, LoopsAreBounded, At, More
  <1>5. At = Len(Its.steps) + 1
    BY <1>4
  <1>6. outcomes[Solo] \in Seq(Outcomes)
    BY <1>1 DEF Booked, RetryTypes
  <1>7. exercise \in {"naive_hang", "timeout_bounded", "retry_storm", "transient_recovers", "never_retried",
                      "breaker_trip", "composed", "double_charge", "idempotent_charge"}
    BY <1>1 DEF Booked, RetryTypes, Exercises
  <1>8. CASE exercise = "naive_hang"
    <2>1. At = 2
      BY <1>1, <1>3, <1>8, OneCall DEF At
    <2> QED BY <1>1, <1>8, <2>1 DEF ExerciseStands, HangStands, Verdict, HangVerdict
  <1>9. CASE exercise = "timeout_bounded"
    <2>1. At = 3
      <3>1. Len(Its.steps) = 2
        BY <1>9, ShortScripts, Zenon DEF ItsSteps
      <3> QED BY <1>5, <3>1
    <2>2. Len(outcomes[Solo]) = 2 /\ \A i \in 1 .. 2 : outcomes[Solo][i] = "timeout"
      BY <1>1, <1>9, <2>1 DEF ExerciseStands, TimeoutStands
    <2>3. outcomes[Solo] = <<"timeout", "timeout">>
      BY <1>6, <2>2
    <2> QED BY <1>9, <2>3 DEF Verdict, TimeoutVerdict
  <1>10. CASE exercise = "retry_storm"
    <2>1. naiveRetry.maxAttempts = 3
      BY DEF naiveRetry, Script
    <2> QED BY <1>10, <2>1, StormCost DEF Verdict, StormVerdict
  <1>11. CASE exercise = "transient_recovers"
    <2>1. At = 2
      BY <1>1, <1>3, <1>11, OneCall DEF At
    <2>2. TransientRecovers.healAt = 4
      BY DEF TransientRecovers, Script
    <2> QED BY <1>1, <1>11, <2>1, <2>2 DEF ExerciseStands, RecoversStands, Verdict, RecoversVerdict
  <1>12. CASE exercise = "never_retried"
    <2>1. At = 2
      BY <1>1, <1>3, <1>12, OneCall DEF At
    <2> QED BY <1>1, <1>12, <2>1 DEF ExerciseStands, NeverRetriedStands, Verdict, NeverRetriedVerdict
  <1>13. CASE exercise = "breaker_trip"
    <2> DEFINE F == FailureThreshold
    <2>1. F \in Nat \ {0} /\ At = 2 * F + 9
      BY <1>5, <1>13, BreakerAssumption, TripSteps DEF ItsSteps, BreakerAssumption
    <2>2. Probing = F + 5 /\ Failing = F + 7 /\ Cooling = 2 * F + 7
      BY DEF Probing, Failing, Cooling
    <2>3. TripDone(At) = 2 * F + 4
      <3>1. /\ ~(At <= F + 3) /\ ~(At \in F + 4 .. Probing) /\ At # Probing + 1
            /\ ~(At \in Failing .. Cooling) /\ At > Cooling /\ At - 5 = 2 * F + 4
        BY <2>1, <2>2
      <3> QED BY <3>1 DEF TripDone
    <2>4. /\ state # "CLOSED" /\ Len(outcomes[Solo]) = 2 * F + 4
          /\ \A i \in 1 .. Len(outcomes[Solo]) : (i <= F => Got(i) = "transient") /\ (i = F + 3 => Got(i) = "ok")
      <3>1. ~(At <= F) /\ ~(At \in Probing + 1 .. Cooling - 1)
        BY <2>1, <2>2
      <3> QED BY <1>1, <1>13, <2>3, <3>1 DEF ExerciseStands, TripStands
    <2>5. \A i \in 1 .. F : i \in 1 .. 2 * F + 4 /\ i <= F
      BY <2>1
    <2>6. F + 3 \in 1 .. 2 * F + 4
      BY <2>1
    <2>7. state = "OPEN"
      <3>1. Its.guarded
        BY <1>13, LoopFacts, Zenon DEF ItsLoop
      <3>2. call[Solo] = "idle" /\ (state = "HALF_OPEN" <=> call[Solo] = "probe")
        BY <1>1, <1>3, <3>1, Zenon DEF BreakerFollows
      <3> QED BY <2>4, <3>2 DEF BreakerInv, CircuitState
    <2>8. TripVerdict
      BY <2>4, <2>5, <2>6, <2>7 DEF TripVerdict
    <2> QED BY <1>13, <2>8 DEF Verdict
  <1>14. CASE exercise = "composed"
    <2>1. At > Probing
      BY <1>5, <1>14, BreakerAssumption, ComposedSteps DEF ItsSteps, BreakerAssumption, Probing
    <2>2. ComposedVerdict
      BY <1>1, <1>14, <2>1 DEF ExerciseStands, ComposedStands, ComposedVerdict
    <2> QED BY <1>14, <2>2 DEF Verdict
  <1>15. CASE exercise = "double_charge"
    <2>1. At = 3
      <3>1. Len(Its.steps) = 2
        BY <1>15, ShortScripts, Zenon DEF ItsSteps
      <3> QED BY <1>5, <3>1
    <2>2. chargesApplied = 2
      BY <1>1, <1>3, <1>15, <2>1 DEF ExerciseStands, DoubleStands
    <2> QED BY <1>15, <2>2 DEF Verdict, DoubleVerdict
  <1>16. CASE exercise = "idempotent_charge"
    <2>1. At > 1
      <3>1. Len(Its.steps) = 2
        BY <1>16, ShortScripts, Zenon DEF ItsSteps
      <3> QED BY <1>5, <3>1
    <2>2. KeyedStands
      BY <1>1, <1>16 DEF ExerciseStands
    <2>3. chargesApplied = 1
      BY <2>1, <2>2, Zenon DEF KeyedStands
    <2> QED BY <1>16, <2>3 DEF Verdict, KeyedVerdict
  <1> QED BY <1>7, <1>8, <1>9, <1>10, <1>11, <1>12, <1>13, <1>14, <1>15, <1>16

\* Lab 37: whatever the timers and the wire do to one another, retries cost the
\* downstream no more than callers times requests times attempts, an open breaker
\* costs it nothing more, a charge repeated with its key is applied once, and
\* every script ends with the numbers it announces, for every threshold, cooldown
\* and number of callers.
THEOREM RetriesStayBounded == RetrySpec => []RetriesBounded
  <1>1. RetryInv /\ BreakerInv => RetriesBounded
    <2> SUFFICES ASSUME RetryInv, BreakerInv PROVE RetriesBounded
      OBVIOUS
    <2>1. \A c \in Participants : Its.guarded /\ caller[c].phase # "next" => call[c] # "idle"
      <3>1. Booked /\ BreakerFollows
        BY DEF RetryInv, Booked
      <3>2. Its.guarded => Participants = {Solo}
        BY <3>1, SoloCalls, ScriptFacts DEF Booked, RetryTypes
      <3>3. Its.guarded => (call[Solo] = "idle" <=> caller[Solo].phase = "next")
        BY <3>1, Zenon DEF BreakerFollows, Phase
      <3> QED BY <3>2, <3>3
    <2>2. totalCallCount <= Cardinality(Participants) * Len(Its.steps) * Its.maxAttempts
      BY LoadIsBounded
    <2>3. exercise = "composed" /\ health = "down-fail-fast" /\ state = "CLOSED" =>
             totalCallCount <= FailureThreshold * Its.maxAttempts
      BY FailuresAreCapped
    <2>4. exercise = "idempotent_charge" => chargesApplied <= 1
      <3>1. exercise = "idempotent_charge" => KeyedStands
        BY DEF RetryInv, ExerciseStands
      <3>2. KeyedStands => chargesApplied = 0 \/ chargesApplied = 1
        BY Zenon DEF KeyedStands
      <3> QED BY <3>1, <3>2
    <2>5. RetriesOver => Verdict
      BY VerdictsHold
    <2> QED BY <2>1, <2>2, <2>3, <2>4, <2>5 DEF RetriesBounded
  <1> QED BY <1>1, RetryInvariant, PTL

=============================================================================
