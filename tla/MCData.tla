------------------------------- MODULE MCData -------------------------------
(***************************************************************************)
(* What becomes of the data behind the request: the outbox publishers of   *)
(* lab 17 and the senders and receivers of labs 18 and 19 carry its        *)
(* events, it is replicated and fails over, it is backfilled, paged        *)
(* through, shared by tenants, parted into partitions and vacuumed, and    *)
(* metrics and logs show it to an operator.  The parts share no state, so  *)
(* a behaviour exercises one of them, its subject, and the others keep one *)
(* initial value.                                                          *)
(***************************************************************************)
EXTENDS Replication, Backfill, Pagination, TenantSessions, Partitions, Vacuum, Observability,
        OutboxPublisher, Delivery, TLC

CONSTANTS v1, v2, w1, w2, e1, e2, s1, s2, s3, m1, m2, a1

MCIds == 1..5
MCBatchSizes == [first |-> 2, second |-> 3]
MCPlans == {"interrupted", "limited", "giant", "expand"}
MCSeeded == <<1, 1, 2, 2, 2>>
MCMonths == <<"y2025m01", "y2025m12">>
MCProbers == {v1, v2}
MCScenarios ==
    [write_to_primary |-> WriteToPrimaryObserveReplica, replica_rejects |-> ReplicaRejectsWrites,
     inspect_wal |-> InspectWalAndLsn, artificial_lag |-> ArtificialReplicationLag,
     naive_router |-> NaiveRouterStaleRead, corrected_router |-> CorrectedRouterReadAfterWrite,
     transaction |-> TransactionMustRunOnPrimary, naive_stale |-> NaiveStaleReadAfterWrite,
     strategy_a |-> StrategyAStickyPrimary, strategy_b |-> StrategyBLsnGatedRead,
     strategy_c |-> StrategyCBoundedStaleness, cascading_lag |-> CascadingLag,
     topology |-> TopologyAndFanout, upstream_failure |-> UpstreamFailure,
     baseline |-> BaselineTopology, failover |-> FailoverAndPromote,
     split_brain |-> SplitBrainOldPrimaryReturns]

\* Two publishers and two events.
MCWorkers == {w1, w2}
MCEvents == {e1, e2}
\* Two retrying senders of one message, and one that sends another message, to
\* the same account, once.
MCSenders == {s1, s2, s3}
MCMessageIds == {m1, m2}
MCAccounts == {a1}
MCMessageOf == (s1 :> m1) @@ (s2 :> m1) @@ (s3 :> m2)
MCAccountOf == [m \in MCMessageIds |-> a1]
MCModeOf == (s1 :> "retry") @@ (s2 :> "retry") @@ (s3 :> "once")

VARIABLE subject

\* The scripts of one lab each, and what flows from table to table.
labVars == <<replicationVars, backfillVars, pageVars, tenantVars, partVars, vacVars, obsVars>>
flowVars == <<publisherVars, deliveryVars>>
dataVars == <<subject, labVars, flowVars>>

Init ==
    /\ subject \in {"replication", "backfill", "paging", "tenants", "partitions", "vacuum", "metrics",
                   "publisher", "delivery"}
    /\ ReplicationInit /\ (subject # "replication" => scenario = "baseline")
    /\ BackfillInit    /\ (subject # "backfill" => plan = "giant")
    /\ PageInit        /\ (subject # "paging" => paging = "keyset")
    /\ TenantInit      /\ (subject # "tenants" => DOMAIN process = {"rls_fix", "owner_bypass"})
    /\ PartInit
    /\ VacInit         /\ (subject # "vacuum" => vacScript = "bloat" /\ dead = 0 /\ reusable = 0 /\ autovacuum = "off")
    /\ ObsInit         /\ (subject # "metrics" => obsScript = "tracing")
    /\ PublisherInit
    /\ DeliveryInit    /\ (subject # "delivery" => handler = "idempotent")

LabNext ==
    \/ /\ subject = "replication" /\ ReplicationNext
       /\ UNCHANGED <<backfillVars, pageVars, tenantVars, partVars, vacVars, obsVars>>
    \/ /\ subject = "backfill" /\ BackfillNext
       /\ UNCHANGED <<replicationVars, pageVars, tenantVars, partVars, vacVars, obsVars>>
    \/ /\ subject = "paging" /\ PageNext
       /\ UNCHANGED <<replicationVars, backfillVars, tenantVars, partVars, vacVars, obsVars>>
    \/ /\ subject = "tenants" /\ TenantNext
       /\ UNCHANGED <<replicationVars, backfillVars, pageVars, partVars, vacVars, obsVars>>
    \/ /\ subject = "partitions" /\ PartNext
       /\ UNCHANGED <<replicationVars, backfillVars, pageVars, tenantVars, vacVars, obsVars>>
    \/ /\ subject = "vacuum" /\ VacNext
       /\ UNCHANGED <<replicationVars, backfillVars, pageVars, tenantVars, partVars, obsVars>>
    \/ /\ subject = "metrics" /\ ObsNext
       /\ UNCHANGED <<replicationVars, backfillVars, pageVars, tenantVars, partVars, vacVars>>

FlowNext ==
    \/ subject = "publisher" /\ PublisherNext /\ UNCHANGED deliveryVars
    \/ subject = "delivery" /\ DeliveryNext /\ UNCHANGED publisherVars

Next ==
    /\ UNCHANGED subject
    /\ \/ LabNext /\ UNCHANGED flowVars
       \/ FlowNext /\ UNCHANGED labVars

\* The event loop serves the script; replication goes on as long as two nodes
\* are connected, and they reconnect; time passes.
ReplicationFairness ==
    /\ WF_replicationVars(subject = "replication" /\ ScriptStep)
    /\ WF_replicationVars(subject = "replication" /\ TimePasses)
    /\ \A s \in Standbys : /\ WF_replicationVars(subject = "replication" /\ Connect(s))
                           /\ WF_replicationVars(subject = "replication" /\ Stream(s))
                           /\ WF_replicationVars(subject = "replication" /\ Replay(s))

\* The server goes on with every statement, the scripts with their calls.
BackfillFairness ==
    /\ \A r \in Runs : WF_backfillVars(subject = "backfill" /\ RunStep(r))
    /\ WF_backfillVars(subject = "backfill" /\ ScriptMoves)
    /\ \A i \in Ids : WF_backfillVars(subject = "backfill" /\ CommitWrite(i))

\* A script goes on unless it is killed, its client until the last page; the
\* autovacuum launcher keeps looking; queries and the log's flush are answered.
ScriptFairness ==
    /\ WF_pageVars(subject = "paging" /\ FetchPage)
    /\ \A p \in DOMAIN TenantScripts :
          WF_tenantVars(subject = "tenants" /\ p \in DOMAIN process /\ ScriptSteps(p))
    /\ WF_partVars(subject = "partitions" /\ RunStatement)
    /\ WF_vacVars(subject = "vacuum" /\ StatementSteps)
    /\ SF_vacVars(subject = "vacuum" /\ WorkerStarts) /\ WF_vacVars(subject = "vacuum" /\ WorkerEnds)
    /\ \A p \in Probers : WF_vacVars(subject = "vacuum" /\ ProberSteps(p))
    /\ WF_obsVars(subject = "metrics" /\ ReaderSteps)
    /\ WF_obsVars(subject = "metrics" /\ \E r \in Request : Handle(r))

\* The publisher loops run and time passes; every call of a sender or receiver
\* returns in the end.
MessageFairness ==
    /\ \A w \in Workers : WF_publisherVars(subject = "publisher" /\ Step(w))
    /\ \A e \in Events : WF_publisherVars(subject = "publisher" /\ Lapse(e))
    /\ \A s \in Senders : WF_deliveryVars(subject = "delivery" /\ SenderStep(s))

Spec == /\ Init /\ [][Next]_dataVars
        /\ ReplicationFairness /\ BackfillFairness /\ ScriptFairness
        /\ MessageFairness

\* What the scenario prints, once it has come through to its end.
Reported ==
    CASE scenario = "replica_rejects" -> RefusedOnReplica
      [] scenario = "inspect_wal" -> WalAdvanced
      [] scenario = "artificial_lag" -> StaleWhilePrompt("a")
      [] scenario = "naive_router" -> StaleWhilePrompt("b")
      [] scenario = "corrected_router" -> NoStaleReads
      [] scenario = "transaction" -> PurchasedOnPrimary
      [] scenario = "naive_stale" -> StaleWhilePrompt("a") /\ StaleWhilePrompt("b")
      [] scenario = "strategy_a" -> StickyWindow
      [] scenario = "strategy_b" -> LsnGated
      [] scenario = "strategy_c" -> BoundedStaleness
      [] scenario = "topology" -> FanOut
      [] scenario = "upstream_failure" -> CascadeResumed
      [] scenario = "failover" -> Promoted
      [] scenario = "split_brain" -> Diverged
      [] OTHER -> acked \subseteq RowsOf("R1")

\* A replication scenario that was not thrown out of reports what really
\* happened, stale reads included where its sleeps were long enough; whatever it
\* did, no later scenario inherits an apply delay unless setting it threw, and a
\* standby never has WAL its upstream lacks.
ReportsHold == (fate = "done" => Reported) /\ DelayIsTakenBack /\ StandbyIsPrefix

\* Everything that was started comes to rest: standbys catch up, backfills
\* leave nothing pending, clients reach the last page, sessions give their
\* connection back, partition scripts and probers end, autovacuum cleans up and
\* every request is answered.
DataSettles ==
    <>[](/\ subject = "replication" => StandbysCaughtUp
         /\ subject = "backfill" => BackfillOver
         /\ subject = "paging" => Finished
         /\ subject = "tenants" => TenantScriptsOver
         /\ subject = "partitions" => Idle
         /\ subject = "vacuum" => VacuumOver
         /\ subject = "metrics" => ObservedOver)

\* Every event ends published or failed, and no sender waits for ever on an
\* inbox key or on an account row.
MessagesEnd ==
    <>[](/\ subject = "publisher" => EventsEnded
         /\ subject = "delivery" => SendersEnded)
=============================================================================
