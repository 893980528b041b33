---------------------------- MODULE Replication ----------------------------
(***************************************************************************)
(* Streaming replication as labs 24 to 28 drive it: a primary P, a standby *)
(* R1 and, in the cascading topology, a standby R2 that streams from R1.   *)
(* Receiving WAL, replaying it, reporting the replay position upstream and *)
(* the connection between two nodes go on by themselves; a scenario is the *)
(* sequence of calls its script awaits while they do.  The servers are not *)
(* part of the repository: what they do is what the scripts rely on.       *)
(*                                                                         *)
(* WAL is counted in records, one per write.  A standby with an apply      *)
(* delay (recovery_min_apply_delay) replays a record once it is aged;      *)
(* prompt remembers that no record aged while the script was not waiting,  *)
(* which is all a script may hope for when it reads at once.               *)
(***************************************************************************)
EXTENDS Integers, Sequences, FiniteSets, SequencesExt

Nodes == {"P", "R1", "R2"}
Standbys == {"R1", "R2"}
Upstream == [R1 |-> "P", R2 |-> "R1"]
Vars == {"a", "b", "c", "d", "e", "f"}
NotRead == -2
NotReported == -1

CONSTANT Scenarios  \* name -> [nodes; prelude, body, cleanup: calls; cuts: links that may break]

VARIABLES
    scenario,   \* the scenario this behaviour runs
    wal,        \* per node: its WAL, the received part of it on a standby
    replayed,   \* per node: how many records of it are applied
    reported,   \* per standby: the replay position its upstream knows of, if any
    inRecovery, \* per node: pg_is_in_recovery()
    up,         \* the nodes whose container runs
    link,       \* per standby: "none", "catchup" or "streaming"
    cuts,       \* how often a connection was lost
    slow,       \* the standbys with an apply delay
    aged,       \* the records older than the delay
    at, v,      \* the script: its next call and its local variables
    fate,       \* "running", "done", "thrown"; "delay": setting a delay threw
    prompt,     \* no record aged while the script was not waiting
    acked,      \* the records whose write was answered with success
    returned    \* the old primary was started again after the promotion

replicationVars == <<scenario, wal, replayed, reported, inRecovery, up, link, cuts, slow,
                     aged, at, v, fate, prompt, acked, returned>>
serverVars == <<wal, replayed, reported, inRecovery, up, link, cuts, slow, aged, acked, returned>>

(***************************************************************************)
(* The calls of a script.                                                  *)
(***************************************************************************)
Call(op, n, x, into) == [op |-> op, n |-> n, x |-> x, into |-> into, from |-> "-"]
\* A write that must succeed; one whose answer is kept: 1 accepted, 0 refused
\* with SQLSTATE 25006, -1 unreachable.
Put(n, x) == Call("put", n, x, "-")
attemptWrite(n, x, into) == Call("put", n, x, into)
See(n, x, into) == Call("see", n, x, into)
\* Polls until the row is there, or throws at the deadline.
waitForRowVisible(n, x) == Call("wait_row", n, x, "-")
captureCurrentLsn(into) == Call("lsn", "P", 0, into)
waitForReplicaToReachLsn(n, lsn) == [Call("wait_lsn", n, 0, "-") EXCEPT !.from = lsn]
setReplicaApplyDelay(n, on) == Call("delay", n, IF on THEN 1 ELSE 0, "-")
getDownstreamReplicationStats(n, into) == Call("stats", n, 0, into)
\* The backlog in records, into; from gets what it rests on (ReplicaRow), which
\* the caller does not look at.
getReplicationLagFromPrimary(into, state) == [Call("lag", "P", 0, into) EXCEPT !.from = state]
waitForReplicationCaughtUp == Call("wait_lag", "P", 0, "-")
\* Throws unless the variable is x.
Expect(var, x) == [Call("expect", "P", x, "-") EXCEPT !.from = var]
isInRecovery(n, into) == Call("recovery", n, 0, into)
stopContainer(n) == Call("stop", n, 0, "-")
startContainer(n) == Call("start", n, 0, "-")
waitUntilReachable(n) == Call("wait_up", n, 0, "-")
promote(n) == Call("promote", n, 0, "-")
Observe == Call("observe", "P", 0, "-")
\* Strategy C: the primary when the measured backlog is over the threshold
\* (100 bytes, less than one record), else the replica.
BoundedRead(lag, x, into) == [Call("routed", "P", x, into) EXCEPT !.from = lag]
LAG_THRESHOLD == 0

CallsOf(s) == Scenarios[s].prelude \o Scenarios[s].body \o Scenarios[s].cleanup
BodyAt(s) == Len(Scenarios[s].prelude) + 1
CleanupOf(s) == BodyAt(s) + Len(Scenarios[s].body)
CallRecords == [op : STRING, n : Nodes, x : Int, into : STRING, from : STRING]
IsCall(call, op, n) == call.op = op /\ call.n = n
SetsDelay(call, n, on) == IsCall(call, "delay", n) /\ (call.x = 1 <=> on)
\* Node n was stopped before call i, and not started again.
StoppedBefore(s, n, i) ==
    \E j \in 1..(i - 1) : /\ IsCall(CallsOf(s)[j], "stop", n)
                          /\ \A k \in j..(i - 1) : ~IsCall(CallsOf(s)[k], "start", n)
\* What is promoted is R1, in the try, with the old primary stopped and every
\* row written to it while it was up seen on R1.
PromotesCarefully(s) ==
    \A k \in DOMAIN CallsOf(s) : CallsOf(s)[k].op = "promote" =>
        /\ CallsOf(s)[k].n = "R1" /\ k < CleanupOf(s)
        /\ StoppedBefore(s, "P", k)
        /\ \A i \in 1..(k - 1) : IsCall(CallsOf(s)[i], "put", "P") =>
              \/ StoppedBefore(s, "P", i)
              \/ \E w \in 1..(k - 1) : /\ IsCall(CallsOf(s)[w], "wait_row", "R1")
                                        /\ CallsOf(s)[w].x = CallsOf(s)[i].x
\* A delay is set last before the try or in it, and the finally, which does
\* nothing else, takes it back.
TakesDelaysBack(s) ==
    /\ \A k \in DOMAIN CallsOf(s) : k >= CleanupOf(s) => CallsOf(s)[k].op = "delay"
    /\ \A k \in DOMAIN CallsOf(s) : \A n \in Nodes : SetsDelay(CallsOf(s)[k], n, TRUE) =>
          /\ k + 1 \in BodyAt(s)..CleanupOf(s)
          /\ \E m \in DOMAIN CallsOf(s) : m >= CleanupOf(s) /\ SetsDelay(CallsOf(s)[m], n, FALSE)
\* How the scripts are written.
ASSUME CarefulScripts ==
    \A s \in DOMAIN Scenarios :
        /\ Scenarios[s].nodes \subseteq Nodes
        /\ Scenarios[s].prelude \in Seq(CallRecords) /\ Scenarios[s].body \in Seq(CallRecords)
        /\ Scenarios[s].cleanup \in Seq(CallRecords)
        /\ PromotesCarefully(s) /\ TakesDelaysBack(s)

Calls == CallsOf(scenario)
CleanupAt == CleanupOf(scenario)
Cur == Calls[at]
Active == at <= Len(Calls)
AtCall(ops) == Active /\ Cur.op \in ops

(***************************************************************************)
(* What the nodes answer.                                                  *)
(***************************************************************************)
RowsOf(n) == {wal[n][i] : i \in 1..replayed[n]}
Writable(n) == n \in up /\ ~inRecovery[n]
WriteAnswer(n) == IF n \notin up THEN -1 ELSE IF inRecovery[n] THEN 0 ELSE 1
Downstream(n) == {s \in Standbys : Upstream[s] = n /\ link[s] # "none"}
\* The row with state = 'streaming': there is none, it has a replay_lsn, or it
\* is that of a standby that has connected and not reported yet.
ReplicaRow ==
    IF link["R1"] # "streaming" THEN 0 ELSE IF reported["R1"] # NotReported THEN 1 ELSE 2
\* Without a row, and with the NULL of a row without a replay_lsn, the backlog
\* counts as 0.
Backlog == IF ReplicaRow = 1 THEN Len(wal["P"]) - reported["R1"] ELSE 0

Keep(into, x) == v' = IF into \in Vars THEN [v EXCEPT ![into] = x] ELSE v
Proceed == /\ at' = at + 1
           /\ fate' = IF at = Len(Calls) /\ fate = "running" THEN "done" ELSE fate
\* A throw before the try ends the script; one in the try runs its finally.
Throws ==
    /\ fate' = IF Cur.op = "delay" THEN "delay" ELSE IF fate = "running" THEN "thrown" ELSE fate
    /\ at' = IF at >= BodyAt(scenario) /\ at < CleanupAt
             THEN CleanupAt ELSE Len(Calls) + 1
    /\ UNCHANGED v

(***************************************************************************)
(* The script's calls.                                                     *)
(***************************************************************************)
WriteCall ==
    /\ AtCall({"put"})
    /\ LET ok == WriteAnswer(Cur.n) = 1
       IN  /\ wal' = IF ok THEN [wal EXCEPT ![Cur.n] = Append(@, Cur.x)] ELSE wal
           /\ replayed' = IF ok THEN [replayed EXCEPT ![Cur.n] = @ + 1] ELSE replayed
           /\ acked' = IF ok THEN acked \cup {Cur.x} ELSE acked
           /\ IF ok \/ Cur.into # "-" THEN Keep(Cur.into, WriteAnswer(Cur.n)) /\ Proceed ELSE Throws
    /\ UNCHANGED <<scenario, reported, inRecovery, up, link, cuts, slow, aged, prompt, returned>>

\* A query of a node that is down throws.
ReadCall ==
    /\ AtCall({"see", "lsn", "stats", "recovery", "lag", "routed", "expect", "observe"})
    /\ LET n == IF Cur.op = "routed" /\ v[Cur.from] <= LAG_THRESHOLD THEN "R1" ELSE Cur.n
           answer == CASE Cur.op \in {"see", "routed"} -> IF Cur.x \in RowsOf(n) THEN 1 ELSE 0
                       [] Cur.op = "lsn" -> Len(wal["P"])
                       [] Cur.op = "stats" -> Cardinality(Downstream(n))
                       [] Cur.op = "recovery" -> IF inRecovery[n] THEN 1 ELSE 0
                       [] OTHER -> Backlog
       IN  CASE Cur.op = "expect" -> IF v[Cur.from] = Cur.x THEN Keep("-", 0) /\ Proceed ELSE Throws
             [] Cur.op = "observe" -> Keep("-", 0) /\ Proceed
             [] Cur.op = "lag" /\ n \in up ->
                   /\ v' = [x \in Vars |-> IF x # Cur.from
                                            THEN IF x = Cur.into THEN answer ELSE v[x]
                                            ELSE ReplicaRow]
                   /\ Proceed
             [] Cur.op \notin {"expect", "observe", "lag"} /\ n \in up -> Keep(Cur.into, answer) /\ Proceed
             [] Cur.op \notin {"expect", "observe"} /\ n \notin up -> Throws
    /\ UNCHANGED <<scenario, serverVars, prompt>>

\* ALTER SYSTEM and a reload; the poll for the new value may run out of time.
DelayCall ==
    /\ AtCall({"delay"})
    /\ IF Cur.n \in up
       THEN /\ slow' = IF Cur.x = 1 THEN slow \cup {Cur.n} ELSE slow \ {Cur.n}
            /\ (Keep("-", 0) /\ Proceed) \/ Throws
       ELSE Throws /\ UNCHANGED slow
    /\ UNCHANGED <<scenario, wal, replayed, reported, inRecovery, up, link, cuts, aged, prompt,
                   acked, returned>>

\* Mutant: the first poll is believed, whatever it finds.
MutMet == Cur.op \in {"wait_row", "wait_up"} => Cur.n \in up
Met ==
    CASE Cur.op = "wait_row" -> Cur.n \in up /\ Cur.x \in RowsOf(Cur.n)
      [] Cur.op = "wait_lsn" -> Cur.n \in up /\ replayed[Cur.n] >= v[Cur.from]
      [] Cur.op = "wait_lag" -> Backlog <= 0
      [] Cur.op = "wait_up" -> Cur.n \in up
WaitOps == {"wait_row", "wait_lsn", "wait_lag", "wait_up"}
\* A poll that finds what it waits for, and one that finds its deadline: the
\* caller of waitForReplicationCaughtUp ignores that.
WaitCall ==
    /\ AtCall(WaitOps)
    /\ \/ Met /\ Keep("-", 0) /\ Proceed
       \/ ~Met /\ IF Cur.op = "wait_lag" THEN Keep("-", 0) /\ Proceed ELSE Throws
    /\ UNCHANGED <<scenario, serverVars, prompt>>

\* docker stop and start.  The primary that stops first sends a standby that
\* streams what it still lacks.
ContainerCall ==
    /\ AtCall({"stop", "start"})
    /\ Keep("-", 0) /\ Proceed
    /\ LET n == Cur.n
           cut == {s \in Standbys : s = n \/ Upstream[s] = n}
           flushed == {s \in cut \ {n} : link[s] = "streaming" /\ s \in up}
       IN  IF Cur.op = "stop"
           THEN /\ up' = up \ {n}
                /\ wal' = [m \in Nodes |-> IF m \in flushed THEN wal[n] ELSE wal[m]]
                /\ link' = [s \in Standbys |-> IF s \in cut THEN "none" ELSE link[s]]
                /\ UNCHANGED returned
           ELSE /\ up' = up \cup {n} /\ UNCHANGED <<wal, link>>
                /\ returned' = (returned \/ (n = "P" /\ ~inRecovery["R1"]))
    /\ UNCHANGED <<scenario, replayed, reported, inRecovery, cuts, slow, aged, prompt, acked>>

\* pg_promote(wait): what was received is replayed first; false when that
\* takes longer than it waits for, and the script throws.
PromoteCall ==
    /\ AtCall({"promote"})
    /\ \/ /\ Cur.n \in up /\ replayed[Cur.n] = Len(wal[Cur.n])
          /\ inRecovery' = [inRecovery EXCEPT ![Cur.n] = FALSE]
          /\ link' = [link EXCEPT ![Cur.n] = "none"]
          /\ Keep("-", 0) /\ Proceed
       \/ Throws /\ UNCHANGED <<inRecovery, link>>
    /\ UNCHANGED <<scenario, wal, replayed, reported, up, cuts, slow, aged, prompt, acked, returned>>

ScriptStep ==
    WriteCall \/ ReadCall \/ DelayCall \/ WaitCall \/ ContainerCall \/ PromoteCall

(***************************************************************************)
(* The servers.                                                            *)
(***************************************************************************)
Caught(s) == Len(wal[s]) = Len(wal[Upstream[s]])
Follows(s) == s \in up /\ inRecovery[s] /\ Upstream[s] \in up
\* A connection starts with a replay position that is NULL upstream.
Connect(s) ==
    /\ Follows(s) /\ link[s] = "none" /\ IsPrefix(wal[s], wal[Upstream[s]])
    /\ link' = [link EXCEPT ![s] = IF Caught(s) THEN "streaming" ELSE "catchup"]
    /\ reported' = [reported EXCEPT ![s] = NotReported]
    /\ UNCHANGED <<scenario, wal, replayed, inRecovery, up, cuts, slow, aged, acked, returned,
                   at, v, fate, prompt>>
Disconnect(s) ==
    /\ link[s] # "none" /\ cuts < Scenarios[scenario].cuts
    /\ link' = [link EXCEPT ![s] = "none"] /\ cuts' = cuts + 1
    /\ UNCHANGED <<scenario, wal, replayed, reported, inRecovery, up, slow, aged, acked, returned,
                   at, v, fate, prompt>>
\* A standby passes on what it has received, replayed or not.
Stream(s) ==
    /\ Follows(s) /\ link[s] # "none" /\ ~Caught(s)
    /\ wal' = [wal EXCEPT ![s] = Append(@, wal[Upstream[s]][Len(@) + 1])]
    /\ link' = [link EXCEPT ![s] = IF Len(wal'[s]) = Len(wal[Upstream[s]]) THEN "streaming" ELSE @]
    /\ UNCHANGED <<scenario, replayed, reported, inRecovery, up, cuts, slow, aged, acked, returned,
                   at, v, fate, prompt>>
Replay(s) ==
    /\ s \in up /\ inRecovery[s] /\ replayed[s] < Len(wal[s])
    /\ s \in slow => wal[s][replayed[s] + 1] \in aged
    /\ replayed' = [replayed EXCEPT ![s] = @ + 1]
    /\ UNCHANGED <<scenario, wal, reported, inRecovery, up, link, cuts, slow, aged, acked, returned,
                   at, v, fate, prompt>>
Report(s) ==
    /\ link[s] # "none" /\ reported[s] < replayed[s]
    /\ reported' = [reported EXCEPT ![s] = replayed[s]]
    /\ UNCHANGED <<scenario, wal, replayed, inRecovery, up, link, cuts, slow, aged, acked, returned,
                   at, v, fate, prompt>>
\* Time passes: a record outlives the delay.
Age(x) ==
    /\ slow # {} /\ x \in acked \ aged
    /\ aged' = aged \cup {x}
    /\ prompt' = (prompt /\ (~Active \/ Cur.op \in WaitOps))
    /\ UNCHANGED <<scenario, wal, replayed, reported, inRecovery, up, link, cuts, slow, acked,
                   returned, at, v, fate>>

ServerStep ==
    \E s \in Standbys : Connect(s) \/ Disconnect(s) \/ Stream(s) \/ Replay(s) \/ Report(s)
TimePasses == \E x \in acked : Age(x)

(***************************************************************************)
(* The scenarios.                                                          *)
(***************************************************************************)
Pair(prelude, body, cleanup) ==
    [nodes |-> {"P", "R1"}, prelude |-> prelude, body |-> body, cleanup |-> cleanup, cuts |-> 1]
Cascade(body, cleanup) ==
    [nodes |-> Nodes, prelude |-> <<>>, body |-> body, cleanup |-> cleanup, cuts |-> 0]
Plain(body) == Pair(<<>>, body, <<>>)
withReplicaApplyDelay(fn) ==
    Pair(<<setReplicaApplyDelay("R1", TRUE)>>, fn, <<setReplicaApplyDelay("R1", FALSE)>>)

\* Lab 24.
measureOneWrite(x) == <<Put("P", x), waitForRowVisible("R1", x)>>
WriteToPrimaryObserveReplica == Plain(measureOneWrite(1) \o measureOneWrite(2))
ReplicaRejectsWrites == Plain(<<isInRecovery("R1", "a"), attemptWrite("R1", 1, "b")>>)
InspectWalAndLsn ==
    Plain(<<captureCurrentLsn("a"), Put("P", 1), captureCurrentLsn("b"),
            getDownstreamReplicationStats("P", "c"), isInRecovery("R1", "d")>>)
ArtificialReplicationLag ==
    withReplicaApplyDelay(<<Put("P", 1), Put("P", 2), See("R1", 2, "a"), waitForRowVisible("R1", 2)>>)

\* Lab 25: the node an operation is routed to.
classifyNaive(kind) == IF kind = "write" THEN "P" ELSE "R1"
\* Mutant: a read after the caller's own write is a read like any other.
MutClassifyCorrected(kind) == IF kind \in {"write", "transaction"} THEN "P" ELSE "R1"
classifyCorrected(kind) == IF kind = "read" THEN "R1" ELSE "P"

oneTrial(x, into) ==
    <<Put(classifyNaive("write"), x), See(classifyNaive("read-after-write"), x, into)>>
NaiveRouterStaleRead ==
    LET slowPart == withReplicaApplyDelay(oneTrial(2, "b"))
    IN  [slowPart EXCEPT !.prelude = oneTrial(1, "a") \o @]
primaryStrategyTrial(x, into) ==
    <<Put(classifyCorrected("write"), x), See(classifyCorrected("read-after-write"), x, into)>>
lsnWaitStrategyTrial(x, lsn, into) ==
    <<Put(classifyCorrected("write"), x), captureCurrentLsn(lsn),
      waitForReplicaToReachLsn("R1", lsn), See("R1", x, into)>>
CorrectedRouterReadAfterWrite ==
    withReplicaApplyDelay(
        primaryStrategyTrial(1, "a") \o lsnWaitStrategyTrial(2, "b", "c")
        \o <<Put(classifyCorrected("write"), 3), See(classifyCorrected("read"), 3, "d"),
             See(classifyCorrected("read-after-write"), 3, "e")>>)
\* BEGIN, SELECT FOR UPDATE, UPDATE, COMMIT, on one client of one node.
purchase(target, x, into) == <<attemptWrite(target, x, into)>>
TransactionMustRunOnPrimary ==
    Plain(purchase(classifyNaive("transaction"), 1, "a")
          \o purchase(classifyCorrected("transaction"), 2, "b") \o <<Expect("b", 1)>>)

\* Lab 26.
NaiveStaleReadAfterWrite ==
    withReplicaApplyDelay(<<Put("P", 1), See("R1", 1, "a"), Put("P", 2), See("R1", 2, "b")>>)
\* The sticky window is shorter than the delay.
StrategyAStickyPrimary ==
    withReplicaApplyDelay(<<Put("P", 1), See("P", 1, "a"), Put("P", 2), Observe, See("R1", 2, "b")>>)
LsnGatedTrial(x, lsn, into) ==
    <<Put("P", x), captureCurrentLsn(lsn), waitForReplicaToReachLsn("R1", lsn), See("R1", x, into)>>
StrategyBLsnGatedRead ==
    Pair(<<>>, <<setReplicaApplyDelay("R1", TRUE)>> \o LsnGatedTrial(1, "a", "b")
               \o <<setReplicaApplyDelay("R1", FALSE)>> \o LsnGatedTrial(2, "c", "d"),
         <<setReplicaApplyDelay("R1", FALSE)>>)
BoundedTrial(x, lag, state, into) ==
    <<Put("P", x), Observe, getReplicationLagFromPrimary(lag, state), BoundedRead(lag, x, into)>>
StrategyCBoundedStaleness ==
    Pair(<<>>, <<setReplicaApplyDelay("R1", TRUE)>> \o BoundedTrial(1, "a", "b", "c")
               \o <<setReplicaApplyDelay("R1", FALSE), waitForReplicationCaughtUp>>
               \o BoundedTrial(2, "d", "e", "f"),
         <<setReplicaApplyDelay("R1", FALSE)>>)

\* Lab 27.
measureHops(x) == <<Put("P", x), waitForRowVisible("R1", x), waitForRowVisible("R2", x)>>
CascadingLag ==
    Cascade(measureHops(1)
            \o <<setReplicaApplyDelay("R1", TRUE), setReplicaApplyDelay("R2", TRUE)>> \o measureHops(2)
            \o <<setReplicaApplyDelay("R1", FALSE), setReplicaApplyDelay("R2", TRUE)>> \o measureHops(3),
            <<setReplicaApplyDelay("R1", FALSE), setReplicaApplyDelay("R2", FALSE)>>)
TopologyAndFanout ==
    Cascade(<<getDownstreamReplicationStats("P", "a"), getDownstreamReplicationStats("R1", "b"),
              getDownstreamReplicationStats("R2", "c"), isInRecovery("R1", "d"),
              isInRecovery("R2", "e")>>, <<>>)
UpstreamFailure ==
    Cascade(<<Put("P", 1), waitForRowVisible("R2", 1), stopContainer("R1"),
              getDownstreamReplicationStats("P", "a"), Put("P", 2), Observe, See("R2", 2, "b"),
              Expect("b", 0), startContainer("R1"), waitUntilReachable("R1"),
              waitForRowVisible("R1", 2), waitForRowVisible("R2", 2),
              getDownstreamReplicationStats("P", "c"), getDownstreamReplicationStats("R1", "d")>>,
            <<>>)

\* Lab 28.  Records 3, 4, 5 and 6 are the attempts that must be refused.
BaselineTopology ==
    Plain(<<getDownstreamReplicationStats("P", "a"), Expect("a", 1), isInRecovery("P", "b"),
            Expect("b", 0), isInRecovery("R1", "c"), Expect("c", 1), Put("P", 1),
            waitForRowVisible("R1", 1)>>)
Canary == <<Put("P", 1), waitForRowVisible("R1", 1)>>
FailOver ==
    <<getDownstreamReplicationStats("P", "a"), Expect("a", 1)>> \o Canary
    \o <<attemptWrite("R1", 3, "b"), Expect("b", 0), stopContainer("P"), attemptWrite("P", 4, "c"),
         Expect("c", -1), promote("R1"), isInRecovery("R1", "d"), Expect("d", 0),
         attemptWrite("R1", 2, "e"), Expect("e", 1)>>
FailoverAndPromote == Plain(FailOver)
OldPrimaryReturns ==
    <<isInRecovery("R1", "a"), Expect("a", 0), attemptWrite("P", 5, "b"), Expect("b", -1),
      startContainer("P"), waitUntilReachable("P"), isInRecovery("P", "c"), Expect("c", 0),
      Put("P", 6), attemptWrite("R1", 7, "f"), Expect("f", 1)>>
SplitBrainOldPrimaryReturns == Plain(FailOver \o OldPrimaryReturns)

(***************************************************************************)
(* What each script reports.                                               *)
(***************************************************************************)
RefusedOnReplica == v["a"] = 1 /\ v["b"] = 0 /\ wal["R1"] = <<>>
WalAdvanced == v["b"] = v["a"] + 1 /\ v["d"] = 1
StaleWhilePrompt(x) == prompt => v[x] = 0
\* primaryStale = 0 and lsnStale = 0, however far behind the replica is.
NoStaleReads == v["a"] = 1 /\ v["c"] = 1 /\ v["e"] = 1 /\ StaleWhilePrompt("d")
PurchasedOnPrimary == v["a"] = 0 /\ v["b"] = 1 /\ acked = {2}
StickyWindow == v["a"] = 1 /\ StaleWhilePrompt("b")
LsnGated == v["b"] = 1 /\ v["d"] = 1
\* A read is right whenever the primary knew how far a streaming replica was.  With
\* no streaming row, or one without a replay position yet, the backlog it has
\* measured is 0 however far behind the replica is: the read goes there, and right
\* after the write it is stale.
BoundedStaleness ==
    /\ v["b"] = 1 => v["c"] = 1 /\ (prompt => v["a"] > LAG_THRESHOLD)
    /\ v["b"] # 1 => v["a"] = 0 /\ StaleWhilePrompt("c")
    /\ IF v["e"] = 1 THEN v["f"] = 1 ELSE v["d"] = 0
FanOut == v["a"] = 1 /\ v["b"] = 1 /\ v["c"] = 0 /\ v["d"] = 1 /\ v["e"] = 1
CascadeResumed == v["a"] = 0 /\ v["b"] = 0 /\ v["c"] = 1 /\ v["d"] = 1
Promoted == v["e"] = 1 /\ {1, 2} \subseteq RowsOf("R1") /\ Writable("R1")
\* Two histories: each node has a row the other one will never get.
Diverged ==
    /\ Writable("P") /\ Writable("R1")
    /\ 6 \in RowsOf("P") \ RowsOf("R1") /\ 7 \in RowsOf("R1") \ RowsOf("P")

ReplicationInit ==
    /\ scenario \in DOMAIN Scenarios
    /\ wal = [n \in Nodes |-> <<>>]
    /\ replayed = [n \in Nodes |-> 0]
    /\ reported = [s \in Standbys |-> 0]
    /\ inRecovery = [n \in Nodes |-> n # "P"]
    /\ up = Scenarios[scenario].nodes
    /\ link = [s \in Standbys |-> IF s \in up THEN "streaming" ELSE "none"]
    /\ cuts = 0 /\ slow = {} /\ aged = {}
    /\ at = 1 /\ v = [x \in Vars |-> NotRead]
    /\ fate = "running" /\ prompt = TRUE
    /\ acked = {} /\ returned = FALSE
ReplicationNext == ScriptStep \/ ServerStep \/ TimePasses
ReplicationSpec == ReplicationInit /\ [][ReplicationNext]_replicationVars
(***************************************************************************)
(* Properties.                                                             *)
(***************************************************************************)
\* A failover script that was not thrown out of keeps the history: as long as
\* the old primary stays down at most one node takes writes, and the promoted
\* one has every write that was ever acknowledged.
FailoverKeepsHistory ==
    ~returned => /\ Cardinality({n \in Nodes : Writable(n)}) <= 1
                 /\ ~inRecovery["R1"] => acked \subseteq RowsOf("R1")
\* Whatever throws, no standby is left with an apply delay for the scenarios
\* that follow, unless a call that sets one threw itself: before the try, or in
\* the finally ahead of the next standby's.
DelayIsTakenBack == ~Active /\ slow # {} => fate = "delay"
\* A standby never has WAL its upstream does not have, so R2 gets nothing past
\* an R1 that is down.
StandbyIsPrefix ==
    \A s \in Standbys : inRecovery[s] => IsPrefix(wal[s], wal[Upstream[s]])
\* The script is over, and every standby that still follows its upstream has
\* replayed all of it.
StandbysCaughtUp ==
    /\ ~Active
    /\ \A s \in Standbys : Follows(s) => replayed[s] = Len(wal[Upstream[s]])
=============================================================================
