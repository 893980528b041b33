------------------------------ MODULE Pooling ------------------------------
(***************************************************************************)
(* Lab 23: client connections, the backends PostgreSQL opens for them      *)
(* directly, and PgBouncer in between, in session and in transaction mode. *)
(* A client connects and sends two statements; the first one leaves        *)
(* session state (SET, CREATE TEMP TABLE, PREPARE) on the backend it ran   *)
(* on, the second one looks for it.  The tuning scenario changes           *)
(* default_pool_size around two bursts of clients.                         *)
(***************************************************************************)
EXTENDS Naturals, FiniteSets

CONSTANTS
    PoolClients, Backends,  \* client connections; backends that could exist
    MaxConnections,         \* max_connections of PostgreSQL
    OriginalPoolSize, SmallPoolSize, LargePoolSize


VARIABLES
    poolMode,   \* "direct", "session", "transaction", "tuning" (transaction mode)
    poolSize,   \* default_pool_size
    paused,     \* PgBouncer's flag: KILL sets it, RESUME clears it
    opened,     \* backends that are open
    client,     \* [pc, backend, left: statements to send, kept: state was there]
    marks,      \* per backend: clients whose session state it holds
    tuner       \* stage of the tuning scenario, or how it ended; "off" in the others

poolVars == <<poolMode, poolSize, paused, opened, client, marks, tuner>>

NoBackend == "none"

\* The sizes of pgbouncer.ini and of the scenario stay below max_connections.
ASSUME PoolSizes ==
    /\ MaxConnections \in Nat
    /\ {OriginalPoolSize, SmallPoolSize, LargePoolSize} \subseteq 1..MaxConnections
    /\ IsFiniteSet(PoolClients) /\ IsFiniteSet(Backends) /\ NoBackend \notin Backends

NewClient == [pc |-> "start", backend |-> NoBackend, left |-> 2, kept |-> TRUE]
Serving == {client[c].backend : c \in PoolClients}
IdleBackends == opened \ Serving

\* PgBouncer may be warm from earlier scenarios.
PoolingInit ==
    /\ poolMode \in {"direct", "session", "transaction", "tuning"}
    /\ opened \in {s \in SUBSET Backends : Cardinality(s) <= IF poolMode = "direct" THEN 0 ELSE OriginalPoolSize}
    /\ poolSize = OriginalPoolSize /\ paused = FALSE
    /\ client = [c \in PoolClients |-> NewClient]
    /\ marks = [b \in Backends |-> {}]
    /\ tuner = IF poolMode = "tuning" THEN "set_small" ELSE "off"

Bursting == tuner \in {"off", "burst_small", "burst_large"}
ClientAt(c, p) == client[c].pc = p

(***************************************************************************)
(* A client.                                                               *)
(***************************************************************************)
Connect(c) ==
    /\ Bursting /\ ClientAt(c, "start")
    /\ IF poolMode # "direct"
       THEN client' = [client EXCEPT ![c].pc = "idle"] /\ UNCHANGED opened
       ELSE IF Cardinality(opened) >= MaxConnections
       THEN client' = [client EXCEPT ![c].pc = "rejected"] /\ UNCHANGED opened  \* 53300
       ELSE \E b \in Backends \ opened :
               /\ opened' = opened \cup {b}
               /\ client' = [client EXCEPT ![c] = [@ EXCEPT !.pc = "idle",
                                                            !.backend = b]]
    /\ UNCHANGED <<poolMode, poolSize, paused, marks, tuner>>

\* The next statement gets a backend: the client's own, an idle one, or a new
\* one while the pool is below its size.  Otherwise the client waits.
Candidates(c) ==
    IF client[c].backend # NoBackend THEN {client[c].backend}
    ELSE IF IdleBackends # {} THEN IdleBackends
    ELSE IF Cardinality(opened) < poolSize THEN Backends \ opened ELSE {}
Execute(c) ==
    /\ ClientAt(c, "idle") /\ client[c].left > 0 /\ ~paused
    /\ \E b \in Candidates(c) :
          /\ opened' = opened \cup {b}
          /\ client' = [client EXCEPT ![c] = [@ EXCEPT !.pc = "busy", !.backend = b]]
    /\ UNCHANGED <<poolMode, poolSize, paused, marks, tuner>>

\* Mutant: session mode releases the backend like transaction mode.
MutKeepsBackend == poolMode = "direct"
KeepsBackend == poolMode \in {"direct", "session"}
StatementEnds(c) ==
    /\ ClientAt(c, "busy")
    /\ LET b == client[c].backend
       IN  /\ client' = [client EXCEPT ![c] =
                 [@ EXCEPT !.pc = "idle",
                           !.left = client[c].left - 1,
                           !.kept = client[c].kept /\ (client[c].left = 2 \/ c \in marks[b]),
                           !.backend = IF KeepsBackend THEN b ELSE NoBackend]]
           /\ marks' = IF client[c].left = 2 THEN [marks EXCEPT ![b] = @ \cup {c}] ELSE marks
    /\ UNCHANGED <<poolMode, poolSize, paused, opened, tuner>>

\* A direct backend exits with its client; in session mode PgBouncer resets
\* the server (DISCARD ALL) before it goes back to the pool.
Disconnect(c) ==
    /\ ClientAt(c, "idle") /\ client[c].left = 0
    /\ client' = [client EXCEPT ![c] = [@ EXCEPT !.pc = "ended", !.backend = NoBackend]]
    /\ opened' = IF poolMode = "direct" THEN opened \ {client[c].backend} ELSE opened
    /\ marks' = IF KeepsBackend THEN [marks EXCEPT ![client[c].backend] = {}] ELSE marks
    /\ UNCHANGED <<poolMode, poolSize, paused, tuner>>

(***************************************************************************)
(* runPoolSizeTuningScenario: for a small and a large pool, SET            *)
(* default_pool_size, KILL, RESUME, burst; finally, the same for the       *)
(* original size.                                                          *)
(***************************************************************************)
AfterStage == [set_small |-> "kill_small", kill_small |-> "resume_small", resume_small |-> "burst_small",
               burst_small |-> "set_large", set_large |-> "kill_large", kill_large |-> "resume_large",
               resume_large |-> "burst_large", burst_large |-> "set_original",
               set_original |-> "kill_original", kill_original |-> "resume_original",
               resume_original |-> "done"]
SizeOf == [set_small |-> SmallPoolSize, set_large |-> LargePoolSize, set_original |-> OriginalPoolSize]
Kills == {"kill_small", "kill_large", "kill_original"}
Resumes == {"resume_small", "resume_large", "resume_original"}

\* What PgBouncer does with each admin command.  KILL closes every connection
\* and leaves the database paused.
SetSize ==
    /\ tuner \in DOMAIN SizeOf /\ poolSize' = SizeOf[tuner]
    /\ UNCHANGED <<paused, opened, marks>>
KillPool ==
    /\ tuner \in Kills
    /\ opened' = {} /\ paused' = TRUE /\ marks' = [b \in Backends |-> {}]
    /\ UNCHANGED poolSize
ResumePool ==
    /\ tuner \in Resumes /\ paused' = FALSE
    /\ UNCHANGED <<poolSize, opened, marks>>

\* killDatabaseConnections is KILL and RESUME on one admin connection.
setDefaultPoolSize == SetSize /\ tuner' = AfterStage[tuner] /\ UNCHANGED <<poolMode, client>>
killDatabaseConnections == KillPool /\ tuner' = AfterStage[tuner] /\ UNCHANGED <<poolMode, client>>
resume == ResumePool /\ tuner' = AfterStage[tuner] /\ UNCHANGED <<poolMode, client>>
runBurst ==
    /\ tuner \in {"burst_small", "burst_large"}
    /\ \A c \in PoolClients : ClientAt(c, "ended")
    /\ tuner' = AfterStage[tuner]
    /\ client' = IF tuner = "burst_small" THEN [c \in PoolClients |-> NewClient] ELSE client
    /\ UNCHANGED <<poolMode, poolSize, paused, opened, marks>>
\* An admin command throws: it had no effect, or it had its effect and the
\* answer was lost.  In the try block the finally block comes next; in the
\* finally block nothing does, what was to follow is left undone.
Tuning == {"set_small", "kill_small", "resume_small", "set_large", "kill_large", "resume_large"}
ThrownFrom == [set_original |-> "set_threw", kill_original |-> "kill_threw", resume_original |-> "resume_threw"]
AdminFails ==
    /\ \/ tuner \in Tuning /\ tuner' = "set_original"
       \/ tuner \in DOMAIN ThrownFrom /\ tuner' = ThrownFrom[tuner]
    /\ SetSize \/ KillPool \/ ResumePool \/ UNCHANGED <<poolSize, paused, opened, marks>>
    /\ UNCHANGED <<poolMode, client>>

ClientStep(c) == Connect(c) \/ Execute(c) \/ StatementEnds(c) \/ Disconnect(c)
TunerStep == setDefaultPoolSize \/ killDatabaseConnections \/ resume \/ runBurst
PoolingNext == TunerStep \/ AdminFails \/ \E c \in PoolClients : ClientStep(c)
PoolingSpec == PoolingInit /\ [][PoolingNext]_poolVars

(***************************************************************************)
(* Properties.                                                             *)
(***************************************************************************)
\* Session pooling (and a direct connection) keeps what a client left on its
\* backend, and shows it to no other client; transaction pooling promises
\* neither.
SessionStateKept ==
    poolMode \in {"direct", "session"} =>
        /\ \A c \in PoolClients : client[c].kept
        /\ \A c \in PoolClients : ClientAt(c, "busy") => marks[client[c].backend] \subseteq {c}

\* What runDirectConnectionOverhead counts as rejected with 53300.
tooManyClientsAlready == {c \in PoolClients : ClientAt(c, "rejected")}
\* What monitorBackendPids sees in pg_stat_activity.
peakConcurrentBackends == Cardinality(opened)

\* How the tuning scenario leaves the pool.  Whichever command failed in the try
\* block, a finally block that came through leaves the original size, no pause and nothing
\* open.  If one of its own commands throws, the answered ones before it have done
\* their part, and the rest is left: the size of the failed stage after SET, the
\* backends of the last burst (more than the original size allows) or an empty,
\* paused pool after KILL, an empty and perhaps paused one after RESUME.
PoolLeft ==
    /\ tuner = "done" => poolSize = OriginalPoolSize /\ ~paused /\ opened = {}
    /\ tuner \in {"kill_threw", "resume_threw"} => poolSize = OriginalPoolSize
    /\ tuner = "resume_threw" => opened = {}
    /\ paused => opened = {}

\* A burst never runs on more backends than the size under test, however warm
\* the pool was, and the scenario restores the pool as far as its last commands
\* are answered.
PoolWithinSize ==
    /\ poolMode = "direct" => Cardinality(opened) <= MaxConnections
    /\ tooManyClientsAlready # {} => Cardinality(PoolClients) > MaxConnections
    /\ poolMode # "direct" /\ Bursting => peakConcurrentBackends <= poolSize
    /\ PoolLeft

\* The two promises of a pool: whose state a backend carries, how many there are.
PoolingSafe == SessionStateKept /\ PoolWithinSize

\* Every client that connected had its turn, even with fewer backends than
\* clients; only a direct one may be turned away.  The tuning script has ended.
ClientsServed ==
    /\ \A c \in PoolClients : client[c].pc \in {"start", "ended", "rejected"}
    /\ tuner \in {"off", "done", "set_threw", "kill_threw", "resume_threw"}
=============================================================================
