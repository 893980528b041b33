---------------------------- MODULE CacheRefill ----------------------------
(***************************************************************************)
(* Lab 21: getProduct of the four caches in front of one product, from     *)
(* naive cache-aside to request coalescing, lease-based refill and         *)
(* stale-while-revalidate.                                                 *)
(*                                                                         *)
(* An entry is the version of the product row that was read.  Redis drops  *)
(* an entry (EX, PX) or a lease (PX) at any moment, whether or not the     *)
(* process that took the lease is done; the row changes now and then.      *)
(***************************************************************************)
EXTENDS Naturals, FiniteSets

CONSTANTS
    Requests,     \* concurrent calls of getProduct
    Processes,    \* each with its own in-memory maps
    ProcessOf,    \* request -> process
    Strategies,   \* which caches to try
    RefillAttempts,  \* maxAttempts of the lease-based cache
    MaxVersion,   \* bound: versions of the row
    MaxLosses     \* bound: entries and leases Redis expires

VARIABLES
    strategy,
    product,    \* the row's version
    entry,      \* the cached version, NoEntry if none
    fresh,      \* stale-while-revalidate: freshUntil is ahead
    leaseOf,    \* owner of lock:product, NoRequest if free
    request,    \* per request: [pc, got, attempt, behind]
    inFlight,   \* per process: the request whose promise is in the map
    refresh,    \* per process: background refresh, [pc, got]
    lapsedLeases,  \* requests whose lease expired under them
    dbCalls,    \* callCount
    losses

refillVars == <<strategy, product, entry, fresh, leaseOf, request, inFlight,
                refresh, lapsedLeases, dbCalls, losses>>

NoEntry == 0
NoRequest == "none"

ASSUME RefillAssumption ==
    /\ IsFiniteSet(Requests) /\ NoRequest \notin Requests
    /\ IsFiniteSet(Processes) /\ ProcessOf \in [Requests -> Processes]
    /\ Strategies \subseteq {"naive", "coalescing", "lease", "swr"}
    /\ RefillAttempts \in Nat \ {0} /\ MaxVersion \in Nat /\ MaxLosses \in Nat

NoRead == [pc |-> "idle", got |-> NoEntry]

RefillInit ==
    /\ strategy \in Strategies
    /\ product = 1 /\ entry = NoEntry /\ fresh = FALSE /\ leaseOf = NoRequest
    /\ request = [r \in Requests |-> [pc |-> "start", got |-> NoEntry, attempt |-> 1, behind |-> NoRequest]]
    /\ inFlight = [p \in Processes |-> NoRequest]
    /\ refresh = [p \in Processes |-> NoRead]
    /\ lapsedLeases = {} /\ dbCalls = 0 /\ losses = 0

RequestAt(r, p) == request[r].pc = p
Advance(r, p) == request' = [request EXCEPT ![r].pc = p]
Map(r) == inFlight[ProcessOf[r]]
Joined(r) == {q \in Requests : RequestAt(q, "joined") /\ ProcessOf[q] = ProcessOf[r]}

\* The promise of r settles: r returns, and with it everybody who joined it;
\* finally, the promise leaves the map.
Settled(r, result, v) ==
    /\ request' = [q \in Requests |->
                      IF q = r \/ (strategy = "coalescing" /\ q \in Joined(r))
                      THEN [request[q] EXCEPT !.pc = result, !.got = v] ELSE request[q]]
    /\ inFlight' = IF Map(r) = r THEN [inFlight EXCEPT ![ProcessOf[r]] = NoRequest] ELSE inFlight

(***************************************************************************)
(* getProduct up to the cache lookup.                                      *)
(***************************************************************************)
\* Mutant: the map is looked at, but the promise never put into it.
MutJoin(r) ==
    /\ strategy = "coalescing" /\ RequestAt(r, "start")
    /\ Advance(r, "get")
    /\ UNCHANGED <<strategy, product, entry, fresh, leaseOf, inFlight, refresh, lapsedLeases, dbCalls, losses>>
Join(r) ==
    /\ strategy = "coalescing" /\ RequestAt(r, "start")
    /\ IF Map(r) # NoRequest
       THEN Advance(r, "joined") /\ UNCHANGED inFlight
       ELSE Advance(r, "get") /\ inFlight' = [inFlight EXCEPT ![ProcessOf[r]] = r]
    /\ UNCHANGED <<strategy, product, entry, fresh, leaseOf, refresh, lapsedLeases, dbCalls, losses>>
CacheGet(r) ==
    /\ RequestAt(r, IF strategy = "coalescing" THEN "get" ELSE "start")
    /\ IF entry = NoEntry
       THEN Advance(r, IF strategy = "lease" THEN "acquire" ELSE "query") /\ UNCHANGED <<inFlight, refresh, dbCalls>>
       ELSE /\ Settled(r, "done", entry)
            /\ IF strategy = "swr" /\ ~fresh /\ refresh[ProcessOf[r]].pc = "idle"
               THEN /\ refresh' = [refresh EXCEPT ![ProcessOf[r]].pc = "querying"]  \* triggerBackgroundRefresh
                    /\ dbCalls' = dbCalls + 1
               ELSE UNCHANGED <<refresh, dbCalls>>
    /\ UNCHANGED <<strategy, product, entry, fresh, leaseOf, lapsedLeases, losses>>

(***************************************************************************)
(* The refill: getProductFromDatabase, then SET.                           *)
(***************************************************************************)
QueryStarts(r) ==
    /\ RequestAt(r, "query")
    /\ Advance(r, "querying")
    /\ dbCalls' = dbCalls + 1
    /\ UNCHANGED <<strategy, product, entry, fresh, leaseOf, inFlight, refresh, lapsedLeases, losses>>
QueryReturns(r) ==
    /\ RequestAt(r, "querying")
    /\ request' = [request EXCEPT ![r] = [@ EXCEPT !.pc = "fill", !.got = product]]
    /\ UNCHANGED <<strategy, product, entry, fresh, leaseOf, inFlight, refresh, lapsedLeases, dbCalls, losses>>
\* The query throws: the lease is released (finally), a joined promise rejects
\* for everybody.
QueryFails(r) ==
    /\ RequestAt(r, "querying")
    /\ IF strategy = "lease"
       THEN request' = [request EXCEPT ![r].pc = "release_failed"] /\ UNCHANGED inFlight
       ELSE Settled(r, "failed", NoEntry)
    /\ UNCHANGED <<strategy, product, entry, fresh, leaseOf, refresh, lapsedLeases, dbCalls, losses>>
CacheSet(r) ==
    /\ RequestAt(r, "fill")
    /\ entry' = request[r].got /\ fresh' = (strategy = "swr")
    /\ IF strategy = "lease"
       THEN Advance(r, "release") /\ UNCHANGED inFlight
       ELSE Settled(r, "done", request[r].got)
    /\ UNCHANGED <<strategy, product, leaseOf, refresh, lapsedLeases, dbCalls, losses>>

(***************************************************************************)
(* The lease: SET lock NX PX, release if owner, poll the cache otherwise.  *)
(***************************************************************************)
Acquire(r) ==
    /\ RequestAt(r, "acquire")
    /\ IF leaseOf = NoRequest
       THEN Advance(r, "query") /\ leaseOf' = r
       ELSE /\ request' = [request EXCEPT ![r] = [@ EXCEPT !.pc = "poll",
                                                           !.behind = leaseOf]]
            /\ UNCHANGED leaseOf
    /\ UNCHANGED <<strategy, product, entry, fresh, inFlight, refresh, lapsedLeases, dbCalls, losses>>
ReleaseIfOwner(r) == IF leaseOf = r THEN NoRequest ELSE leaseOf
Release(r) ==
    /\ request[r].pc \in {"release", "release_failed"}
    /\ leaseOf' = ReleaseIfOwner(r)
    /\ Advance(r, IF RequestAt(r, "release") THEN "done" ELSE "failed")
    /\ UNCHANGED <<strategy, product, entry, fresh, inFlight, refresh, lapsedLeases, dbCalls, losses>>
PollForCacheValue(r) ==
    /\ RequestAt(r, "poll") /\ entry # NoEntry
    /\ request' = [request EXCEPT ![r] = [@ EXCEPT !.pc = "done", !.got = entry]]
    /\ UNCHANGED <<strategy, product, entry, fresh, leaseOf, inFlight, refresh, lapsedLeases, dbCalls, losses>>
\* The poll lasts leaseMs + 250: the lease it waits behind is gone by then.
PollTimesOut(r) ==
    /\ RequestAt(r, "poll") /\ entry = NoEntry /\ leaseOf # request[r].behind
    /\ IF request[r].attempt >= RefillAttempts
       THEN Advance(r, "failed")
       ELSE request' = [request EXCEPT ![r] = [@ EXCEPT !.pc = "start",
                                                        !.attempt = request[r].attempt + 1,
                                                        !.behind = NoRequest]]
    /\ UNCHANGED <<strategy, product, entry, fresh, leaseOf, inFlight, refresh, lapsedLeases, dbCalls, losses>>

(***************************************************************************)
(* The background refresh of stale-while-revalidate; its error is logged.  *)
(***************************************************************************)
RefreshReads(p) ==
    /\ refresh[p].pc = "querying"
    /\ \/ refresh' = [refresh EXCEPT ![p] = [pc |-> "write", got |-> product]]
       \/ refresh' = [refresh EXCEPT ![p] = NoRead]
    /\ UNCHANGED <<strategy, product, entry, fresh, leaseOf, request, inFlight, lapsedLeases, dbCalls, losses>>
RefreshWrites(p) ==
    /\ refresh[p].pc = "write"
    /\ entry' = refresh[p].got /\ fresh' = TRUE
    /\ refresh' = [refresh EXCEPT ![p] = NoRead]
    /\ UNCHANGED <<strategy, product, leaseOf, request, inFlight, lapsedLeases, dbCalls, losses>>

(***************************************************************************)
(* Redis and the table.                                                    *)
(***************************************************************************)
EntryExpires ==
    /\ entry # NoEntry /\ losses < MaxLosses
    /\ entry' = NoEntry /\ fresh' = FALSE /\ losses' = losses + 1
    /\ UNCHANGED <<strategy, product, leaseOf, request, inFlight, refresh, lapsedLeases, dbCalls>>
EntryTurnsStale ==
    /\ fresh
    /\ fresh' = FALSE
    /\ UNCHANGED <<strategy, product, entry, leaseOf, request, inFlight, refresh, lapsedLeases, dbCalls, losses>>
RefillLeaseExpires ==
    /\ leaseOf # NoRequest /\ losses < MaxLosses
    /\ lapsedLeases' = lapsedLeases \cup {leaseOf}
    /\ leaseOf' = NoRequest /\ losses' = losses + 1
    /\ UNCHANGED <<strategy, product, entry, fresh, request, inFlight, refresh, dbCalls>>
ProductChanges ==
    /\ product < MaxVersion
    /\ product' = product + 1
    /\ UNCHANGED <<strategy, entry, fresh, leaseOf, request, inFlight, refresh, lapsedLeases, dbCalls, losses>>

RequestStep(r) ==
    \/ Join(r) \/ CacheGet(r) \/ QueryStarts(r) \/ QueryReturns(r) \/ QueryFails(r) \/ CacheSet(r)
    \/ Acquire(r) \/ Release(r) \/ PollForCacheValue(r) \/ PollTimesOut(r)
RefreshStep(p) == RefreshReads(p) \/ RefreshWrites(p)
RefillNext ==
    \/ \E r \in Requests : RequestStep(r)
    \/ \E p \in Processes : RefreshStep(p)
    \/ EntryExpires \/ EntryTurnsStale \/ RefillLeaseExpires \/ ProductChanges

RefillSpec == RefillInit /\ [][RefillNext]_refillVars

(***************************************************************************)
(* Properties.                                                             *)
(***************************************************************************)
\* The verdicts of the cold bursts: what one of them costs when nothing expires
\* and no query fails is one database call per process with coalescing.
ColdBurst == losses = 0 /\ \A r \in Requests : request[r].pc \notin {"failed", "release_failed"}
CoalescedBurst == strategy = "coalescing" /\ ColdBurst => dbCalls <= Cardinality(Processes)

Querying(rs) == {r \in rs : request[r].pc \in {"query", "querying", "fill"}}
InProcess(p) == {r \in Requests : ProcessOf[r] = p}

\* No stampede: one process has at most one coalesced refill under way, and so
\* has the whole system under the lease while no lease expires under its
\* holder; the background refresh is single-flight too, and answers no request.
OneRefillAtATime ==
    /\ strategy = "coalescing" =>
          \A p \in Processes : Cardinality(Querying(InProcess(p))) <= 1
    /\ CoalescedBurst
    /\ strategy = "lease" => Cardinality(Querying(Requests) \ lapsedLeases) <= 1

\* The lease is what keeps an entry from going back in time: an older read
\* replaces a newer one only once a lease has expired under its holder.
NoStaleOverwriteWithinLease ==
    \A r \in Requests :
        strategy = "lease" /\ CacheSet(r) /\ entry # NoEntry /\ entry' < entry => lapsedLeases # {}

\* The two promises of a guarded cache: no stampede after any step,
\* no step back in time.
CacheSafe == [][OneRefillAtATime' /\ NoStaleOverwriteWithinLease]_refillVars

\* Every request has its answer, whatever expired and whichever query failed:
\* the promise it joined settled, the lease it waited behind went away.
RequestsAnswered == \A r \in Requests : request[r].pc \in {"done", "failed"}
=============================================================================
