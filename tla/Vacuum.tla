------------------------------- MODULE Vacuum -------------------------------
(***************************************************************************)
(* Lab 31: dead row versions of page_views, what VACUUM, VACUUM FULL and   *)
(* autovacuum do about them, and the write probers that run meanwhile.     *)
(*                                                                         *)
(* The heap is a number of slots: a live version per row, dead versions,   *)
(* and slots that a vacuum made reusable.  An UPDATE writes its new        *)
(* versions into reusable slots and extends the file when there are none   *)
(* (the little that page pruning gives back between vacuums is left out).  *)
(* The statistics a script reads are those its backends have flushed, which*)
(* they do when they disconnect: the scripts open a connection per         *)
(* statement for that reason.                                              *)
(***************************************************************************)
EXTENDS Integers, Sequences, FiniteSets

CONSTANTS
    TableRows,   \* rows seeded
    Passes,      \* full-table UPDATE passes of reproduceBloat
    Probers,     \* the concurrent write probers
    MaxProbes    \* bound: writes of one prober while one statement runs

\* The probers write far less than the UPDATE passes did (15 of them for the
\* time of a VACUUM, against 20 passes over 80000 rows).
ASSUME VacuumSizes ==
    /\ TableRows \in Nat \ {0} /\ Passes \in Nat \ {0} /\ MaxProbes \in Nat \ {0}
    /\ IsFiniteSet(Probers) /\ Cardinality(Probers) * MaxProbes < Passes * TableRows

VARIABLES
    vacScript,    \* "bloat", "vacuum", "autovacuum"
    vacPc,        \* the statement the script is at
    busy,         \* that statement has its lock and runs; stop() was called
    pass,         \* UPDATE passes done
    dead, reusable,
    autovacuum,   \* "on" or "off" for this table
    insertsSeen,  \* rows were inserted since the last vacuum
    autovacuumWorker,  \* its worker: "idle", "running"
    horizon,      \* dead versions the running vacuum may take
    autovacuumCount,
    probing,      \* per prober: "off", "waiting", "writing", "stopped"
    probes,       \* per prober: its writes so far
    readings      \* what the script read: label -> [size, dead, count]

vacVars == <<vacScript, vacPc, busy, pass, dead, reusable, autovacuum, insertsSeen, autovacuumWorker, horizon,
             autovacuumCount, probing, probes, readings>>
heapVars == <<dead, reusable>>
workerVars == <<autovacuumWorker, horizon, autovacuumCount, insertsSeen>>
probeVars == <<probing, probes>>

BloatScript == <<"seed", "disable", "before", "update", "after">>
VacuumScript == BloatScript \o <<"probe", "vacuum", "stop", "vacuumed", "probe", "full", "stop", "shrunk">>
AutovacuumScript == <<"seed", "enable", "before", "update", "after", "poll">>
VacuumScripts == [bloat |-> BloatScript, vacuum |-> VacuumScript, autovacuum |-> AutovacuumScript]

AtStatement(s) == vacPc <= Len(VacuumScripts[vacScript]) /\ VacuumScripts[vacScript][vacPc] = s
VacDone == vacPc > Len(VacuumScripts[vacScript])
NextStatement == vacPc' = vacPc + 1 /\ busy' = FALSE
relationSize == TableRows + dead + reusable
getTableStats == [size |-> relationSize, dead |-> dead, count |-> autovacuumCount]
HasRead(l) == l \in DOMAIN readings

\* n rows get a new version each.
WriteVersions(n) ==
    /\ dead' = dead + n
    /\ reusable' = IF reusable < n THEN 0 ELSE reusable - n

VacInit ==
    /\ vacScript \in DOMAIN VacuumScripts /\ vacPc = 1 /\ busy = FALSE /\ pass = 0
    \* What earlier scenarios left: churn, and either storage parameter.
    /\ dead \in {0, TableRows} /\ reusable \in {0, TableRows} /\ autovacuum \in {"on", "off"}
    /\ insertsSeen = FALSE /\ autovacuumWorker = "idle" /\ horizon = 0 /\ autovacuumCount = 0
    /\ probing = [p \in Probers |-> "off"] /\ probes = [p \in Probers |-> 0]
    /\ readings = [l \in {} |-> 0]

(***************************************************************************)
(* Locks: a full-table statement of the script, the worker, the probers.   *)
(***************************************************************************)
Writing == \E p \in Probers : probing[p] = "writing"
FullHeld == AtStatement("full") /\ busy
Stopping == AtStatement("stop") /\ busy
\* TRUNCATE and VACUUM FULL are ACCESS EXCLUSIVE; ALTER TABLE SET, VACUUM and
\* autovacuum exclude each other only.
Exclusive == ~Writing /\ autovacuumWorker = "idle"

\* The seed also resets the counters of the table.
seedPageViews ==
    /\ AtStatement("seed") /\ autovacuumWorker = "idle"
    /\ dead' = 0 /\ reusable' = 0 /\ insertsSeen' = TRUE /\ autovacuumCount' = 0 /\ NextStatement
    /\ UNCHANGED <<vacScript, pass, autovacuum, autovacuumWorker, horizon, probeVars, readings>>
SetAutovacuum ==
    /\ AtStatement("disable") \/ AtStatement("enable")
    /\ autovacuumWorker = "idle" /\ NextStatement
    /\ autovacuum' = IF AtStatement("disable") THEN "off" ELSE "on"
    /\ UNCHANGED <<vacScript, pass, heapVars, workerVars, probeVars, readings>>
ReadStats ==
    /\ \E l \in {"before", "after", "vacuumed", "shrunk"} :
          AtStatement(l) /\ readings' = [k \in DOMAIN readings \cup {l} |-> IF k = l THEN getTableStats ELSE readings[k]]
    /\ NextStatement
    /\ UNCHANGED <<vacScript, pass, heapVars, autovacuum, workerVars, probeVars>>
\* UPDATE of every row; reproduceBloat repeats it.
UpdateStarts ==
    /\ AtStatement("update") /\ ~busy /\ busy' = TRUE
    /\ UNCHANGED <<vacScript, vacPc, pass, heapVars, autovacuum, workerVars, probeVars, readings>>
UpdateCommits ==
    /\ AtStatement("update") /\ busy
    /\ WriteVersions(TableRows) /\ pass' = pass + 1
    /\ IF vacScript # "autovacuum" /\ pass + 1 < Passes THEN busy' = FALSE /\ UNCHANGED vacPc ELSE NextStatement
    /\ UNCHANGED <<vacScript, autovacuum, workerVars, probeVars, readings>>
\* Mutant: VACUUM returns the space to the operating system.
MutVacuumEnds ==
    /\ AtStatement("vacuum") /\ busy
    /\ dead' = dead - horizon /\ UNCHANGED reusable
    /\ insertsSeen' = FALSE /\ NextStatement
    /\ UNCHANGED <<vacScript, pass, autovacuum, autovacuumWorker, horizon, autovacuumCount, probeVars, readings>>
\* Plain VACUUM, beside the writers: it takes what was dead when it began.
VacuumStarts ==
    /\ AtStatement("vacuum") /\ ~busy /\ autovacuumWorker = "idle"
    /\ busy' = TRUE /\ horizon' = dead
    /\ UNCHANGED <<vacScript, vacPc, pass, heapVars, autovacuum, autovacuumWorker, autovacuumCount, insertsSeen, probeVars, readings>>
VacuumEnds ==
    /\ AtStatement("vacuum") /\ busy
    /\ dead' = dead - horizon /\ reusable' = reusable + horizon
    /\ insertsSeen' = FALSE /\ NextStatement
    /\ UNCHANGED <<vacScript, pass, autovacuum, autovacuumWorker, horizon, autovacuumCount, probeVars, readings>>
\* VACUUM FULL waits for the writers and rewrites the table.
FullStarts ==
    /\ AtStatement("full") /\ ~busy /\ Exclusive /\ busy' = TRUE
    /\ UNCHANGED <<vacScript, vacPc, pass, heapVars, autovacuum, workerVars, probeVars, readings>>
FullEnds ==
    /\ FullHeld /\ dead' = 0 /\ reusable' = 0 /\ NextStatement
    /\ UNCHANGED <<vacScript, pass, autovacuum, workerVars, probeVars, readings>>

(***************************************************************************)
(* Autovacuum: the launcher looks at every table again and again.          *)
(***************************************************************************)
Due == autovacuum = "on" /\ (dead > 0 \/ insertsSeen)
WorkerStarts ==
    /\ Due /\ autovacuumWorker = "idle" /\ ~FullHeld /\ ~(AtStatement("vacuum") /\ busy)
    /\ autovacuumWorker' = "running" /\ horizon' = dead
    /\ UNCHANGED <<vacScript, vacPc, busy, pass, heapVars, autovacuum, autovacuumCount, insertsSeen, probeVars, readings>>
WorkerEnds ==
    /\ autovacuumWorker = "running" /\ autovacuumWorker' = "idle"
    /\ dead' = dead - horizon /\ reusable' = reusable + horizon /\ insertsSeen' = FALSE
    /\ autovacuumCount' = autovacuumCount + 1
    /\ UNCHANGED <<vacScript, vacPc, busy, pass, autovacuum, horizon, probeVars, readings>>
\* The poll sees the count advance, or gives up after maxWaitMs.
PollSees ==
    /\ AtStatement("poll") /\ autovacuumCount > readings["before"].count
    /\ readings' = [l \in DOMAIN readings \cup {"poll"} |-> IF l = "poll" THEN getTableStats ELSE readings[l]]
    /\ NextStatement /\ UNCHANGED <<vacScript, pass, heapVars, autovacuum, workerVars, probeVars>>
PollGivesUp ==
    /\ AtStatement("poll") /\ autovacuumCount = readings["before"].count
    /\ NextStatement /\ UNCHANGED <<vacScript, pass, heapVars, autovacuum, workerVars, probeVars, readings>>

(***************************************************************************)
(* startConcurrentWriteProbers.                                            *)
(***************************************************************************)
ProbersStart ==
    /\ AtStatement("probe") /\ NextStatement
    /\ probing' = [p \in Probers |-> "waiting"] /\ probes' = [p \in Probers |-> 0]
    /\ UNCHANGED <<vacScript, pass, heapVars, autovacuum, workerVars, readings>>
\* The probers of one row exclude each other, and wait while VACUUM FULL runs;
\* before it has its lock the script sleeps, connects and queues, and any of
\* them may still write.
ProbeStarts(p) ==
    /\ probing[p] = "waiting" /\ ~Writing /\ ~FullHeld
    /\ probing' = [probing EXCEPT ![p] = "writing"]
    /\ UNCHANGED <<vacScript, vacPc, busy, pass, heapVars, autovacuum, workerVars, probes, readings>>
ProbeCommits(p) ==
    /\ probing[p] = "writing" /\ WriteVersions(1)
    /\ probes' = [probes EXCEPT ![p] = @ + 1]
    /\ probing' = [probing EXCEPT ![p] = IF Stopping \/ probes[p] + 1 >= MaxProbes THEN "stopped" ELSE "waiting"]
    /\ UNCHANGED <<vacScript, vacPc, busy, pass, autovacuum, workerVars, readings>>
\* stop() is called when the answer to the statement has arrived: every loop
\* finishes the write it is in or connects for; one that has not begun another stops.
StopCalled ==
    /\ AtStatement("stop") /\ ~busy /\ busy' = TRUE
    /\ UNCHANGED <<vacScript, vacPc, pass, heapVars, autovacuum, workerVars, probeVars, readings>>
ProberStops(p) ==
    /\ Stopping /\ probing[p] = "waiting"
    /\ probing' = [probing EXCEPT ![p] = "stopped"]
    /\ UNCHANGED <<vacScript, vacPc, busy, pass, heapVars, autovacuum, workerVars, probes, readings>>
ProbersStop ==
    /\ Stopping /\ \A p \in Probers : probing[p] = "stopped"
    /\ NextStatement
    /\ UNCHANGED <<vacScript, pass, heapVars, autovacuum, workerVars, probeVars, readings>>

StatementSteps ==
    \/ seedPageViews \/ SetAutovacuum \/ ReadStats \/ UpdateStarts \/ UpdateCommits
    \/ VacuumStarts \/ VacuumEnds \/ FullStarts \/ FullEnds \/ PollSees \/ PollGivesUp
    \/ ProbersStart \/ StopCalled \/ ProbersStop
ProberSteps(p) == ProbeStarts(p) \/ ProbeCommits(p) \/ ProberStops(p)
VacNext == StatementSteps \/ WorkerStarts \/ WorkerEnds \/ \E p \in Probers : ProberSteps(p)
VacSpec == VacInit /\ [][VacNext]_vacVars
(***************************************************************************)
(* What the scripts log.                                                   *)
(***************************************************************************)
\* Every dead version of every pass is still on disk.
ReproduceBloat ==
    vacScript # "autovacuum" /\ HasRead("after") =>
        /\ readings["after"].dead = Passes * TableRows
        /\ readings["after"].size = readings["before"].size + Passes * TableRows
\* VACUUM reclaims, but the file does not shrink.
PlainVacuum ==
    HasRead("vacuumed") =>
        /\ readings["vacuumed"].dead <= Cardinality(Probers) * MaxProbes
        /\ readings["vacuumed"].size >= readings["after"].size
\* VACUUM FULL shrinks it to the rows and what was written since.
VacuumFull ==
    HasRead("shrunk") =>
        /\ readings["shrunk"].size <= TableRows + Cardinality(Probers) * MaxProbes
        /\ readings["shrunk"].size < readings["vacuumed"].size
\* The poll looks at the count alone, and logs that dead tuples dropped: they
\* did, unless the run it counts is the first one since the seed, the one that is
\* due for the seed's inserts.  That run may have begun before the UPDATE
\* committed, and then takes none of its dead versions.
AutovacuumRan ==
    HasRead("poll") =>
        /\ readings["poll"].count > readings["before"].count
        /\ readings["poll"].dead # 0 => readings["poll"].count = 1

(***************************************************************************)
(* Properties.                                                             *)
(***************************************************************************)
\* The sizes the scripts compare are what they say whatever the probers and
\* the autovacuum worker do meanwhile: bloat is exactly the versions written
\* with autovacuum off, VACUUM never gives space back, VACUUM FULL does while no
\* write is in flight, a prober that was stopped writes no more, and an autovacuum
\* the poll sees has taken what was dead, but for the one that began too early.
BloatAccounted ==
    /\ ReproduceBloat /\ PlainVacuum /\ VacuumFull /\ AutovacuumRan
    /\ FullHeld => ~Writing /\ autovacuumWorker = "idle"
    /\ HasRead("vacuumed") /\ (AtStatement("vacuumed") \/ AtStatement("shrunk") \/ VacDone) => ~Writing
\* The script and its probers are over, and with autovacuum on the dead
\* versions are gone without anybody asking.
VacuumOver == VacDone /\ ~Writing /\ (autovacuum = "on" => dead = 0)
=============================================================================
