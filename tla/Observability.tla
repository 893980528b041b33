---------------------------- MODULE Observability ----------------------------
(***************************************************************************)
(* Lab 38: the instrumented order service.  What its counters, its         *)
(* structured log and its naive log say about the requests it served, and  *)
(* the scripts that drive it and read them back.                           *)
(*                                                                         *)
(* handleRequest runs to completion between its awaits, so a step of a     *)
(* request is everything it does from one await to the next.  The log      *)
(* lines of a request carry its requestId, so the file is kept per         *)
(* request; a transport thread writes what it is sent some time later, at  *)
(* the latest when it is flushed.                                          *)
(***************************************************************************)
EXTENDS Integers, Sequences, FiniteSets

CONSTANTS
    TrafficCount,  \* requests of generateTraffic
    PoolSize,      \* connections of the pg pool
    MaxDbErrors,   \* bound: queries the database fails
    MaxForeign     \* bound: lines another server on the same log file writes

ASSUME ObservedSizes ==
    /\ TrafficCount \in Nat \ {0} /\ PoolSize \in Nat \ {0}
    /\ MaxDbErrors \in Nat /\ MaxForeign \in Nat

VARIABLES
    obsScript,   \* the scenario that runs
    stage,       \* the stage it is at
    fired,       \* the last stage whose requests were fired together
    bucket,      \* per request: what it asks for, "none" before it is sent
    phase,       \* per request: the await it is at
    code,        \* per request: the status it was answered, 0 before
    inFlight, requestsTotal, errorsTotal,   \* prom-client's metrics
    poolWaiting, \* the gauge sampleDbPoolMetrics last set
    lines,       \* per request: the steps it has logged
    flushed,     \* per request: how many of them are surely in structured.log
    naive,       \* lines of naive.log
    dbErrors,
    reads        \* what the script read back: stage -> record

obsVars == <<obsScript, stage, fired, bucket, phase, code, inFlight, requestsTotal, errorsTotal, poolWaiting,
             lines, flushed, naive, dbErrors, reads>>
metricVars == <<inFlight, requestsTotal, errorsTotal, poolWaiting>>

(***************************************************************************)
(* The scenarios and their requests.                                       *)
(***************************************************************************)
Stages ==
    [structured |-> <<"traffic", "flush", "parse">>,
     metrics    |-> <<"traffic", "flush", "scrape">>,
     tracing    |-> <<"trace", "flush", "parse">>,
     narrative  |-> <<"traffic", "flush", "parse", "scrape", "slow_burst", "error_burst">>]
\* pickBucket: any bucket of the mix.
pickBucket == {"fast", "missing", "slow", "guest", "create"}
\* The requests fired together, by stage.
Concurrent == [s \in {"trace", "slow_burst", "error_burst"} |->
    CASE s = "trace" -> <<"fast", "slow", "guest", "missing">>
      [] s = "slow_burst" -> <<"slow", "slow">>
      [] s = "error_burst" -> <<"guest", "guest">>]
Buckets == pickBucket \cup {"metrics", "none"}
Request == 1 .. TrafficCount + 5

At(s) == stage <= Len(Stages[obsScript]) /\ Stages[obsScript][stage] = s
ObsDone == stage > Len(Stages[obsScript])
Sent == {r \in Request : bucket[r] # "none"}
Done == {r \in Request : phase[r] = "done"}
Quiet == Sent = Done
Fresh == Cardinality(Sent) + 1
HasReport(s) == s \in DOMAIN reads
Routes == {"/metrics", "/orders", "/orders/:id"}
Route(b) == IF b = "metrics" THEN "/metrics" ELSE IF b = "create" THEN "/orders" ELSE "/orders/:id"

\* startLabServer: empty log files, every metric back to zero.
ObsInit ==
    /\ obsScript \in DOMAIN Stages /\ stage = 1 /\ fired = 0
    /\ bucket = [r \in Request |-> "none"] /\ phase = [r \in Request |-> "unsent"]
    /\ code = [r \in Request |-> 0]
    /\ inFlight = 0 /\ requestsTotal = 0 /\ errorsTotal = [t \in Routes |-> 0] /\ poolWaiting = 0
    /\ lines = [r \in Request |-> <<>>] /\ flushed = [r \in Request |-> 0]
    /\ naive = 0 /\ dbErrors = 0
    /\ reads = [s \in {} |-> 0]

(***************************************************************************)
(* handleRequest.                                                          *)
(***************************************************************************)
Emit(r, steps) == lines' = [lines EXCEPT ![r] = @ \o steps]
AtAwait(r, p) == phase' = [phase EXCEPT ![r] = p]
InPool(p) == Cardinality({r \in Request : phase[r] = p})
Free == PoolSize - InPool("sleeping") - InPool("querying")
\* sampleDbPoolMetrics, when the connection of this request is back.
waitingCount(freed) ==
    LET queued == InPool("acquire_sleep") + InPool("acquire_query") - Free - freed
    IN  IF queued > 0 THEN queued ELSE 0
\* Mutant: the gauge is decremented where the answer is sent, not in finally.
MutComplete(r, status, steps, freed) ==
    /\ AtAwait(r, "done") /\ code' = [code EXCEPT ![r] = status]
    /\ inFlight' = IF status >= 500 THEN inFlight ELSE inFlight - 1
    /\ poolWaiting' = waitingCount(freed)
    /\ requestsTotal' = requestsTotal + 1
    /\ errorsTotal' = [errorsTotal EXCEPT ![Route(bucket[r])] = @ + (IF status >= 500 THEN 1 ELSE 0)]
    /\ Emit(r, steps \o <<"request.complete">>) /\ naive' = naive + 1
\* send and the finally block: one synchronous run, whatever the outcome.
Complete(r, status, steps, freed) ==
    /\ AtAwait(r, "done") /\ code' = [code EXCEPT ![r] = status]
    /\ inFlight' = inFlight - 1 /\ poolWaiting' = waitingCount(freed)
    /\ requestsTotal' = requestsTotal + 1
    /\ errorsTotal' = [errorsTotal EXCEPT ![Route(bucket[r])] = @ + (IF status >= 500 THEN 1 ELSE 0)]
    /\ Emit(r, steps \o <<"request.complete">>) /\ naive' = naive + 1

\* The handler up to its first await.
Arrive(r) ==
    /\ phase[r] = "sent" /\ inFlight' = inFlight + 1
    /\ IF bucket[r] \in {"metrics", "create"}
         THEN Emit(r, <<"request.start">>)
         ELSE Emit(r, <<"request.start", "db.query.start">>)
    /\ AtAwait(r, CASE bucket[r] = "metrics" -> "collecting" [] bucket[r] = "create" -> "body"
                    [] bucket[r] = "slow" -> "acquire_sleep" [] OTHER -> "acquire_query")
    /\ UNCHANGED <<obsScript, stage, fired, bucket, code, requestsTotal, errorsTotal, poolWaiting, flushed,
                   naive, dbErrors, reads>>
\* readJsonBody, then insertOrder.
BodyRead(r) ==
    /\ phase[r] = "body" /\ Emit(r, <<"db.query.start">>) /\ AtAwait(r, "acquire_query")
    /\ UNCHANGED <<obsScript, stage, fired, bucket, code, metricVars, flushed, naive, dbErrors, reads>>
Acquire(r) ==
    /\ Free > 0
    /\ \/ phase[r] = "acquire_sleep" /\ AtAwait(r, "sleeping")
       \/ phase[r] = "acquire_query" /\ AtAwait(r, "querying")
    /\ UNCHANGED <<obsScript, stage, fired, bucket, code, metricVars, lines, flushed, naive, dbErrors, reads>>
SleepEnds(r) ==
    /\ phase[r] = "sleeping" /\ AtAwait(r, "acquire_query")
    /\ UNCHANGED <<obsScript, stage, fired, bucket, code, metricVars, lines, flushed, naive, dbErrors, reads>>
\* buildOrderView throws for the row of a guest, which has no email.
buildOrderView(b) ==
    IF b = "guest" THEN [status |-> 500, steps |-> <<"business_logic.start">>]
                   ELSE [status |-> 200, steps |-> <<"business_logic.start", "business_logic.end">>]
QueryEnds(r) ==
    /\ phase[r] = "querying"
    /\ LET view == CASE bucket[r] = "missing" -> [status |-> 404, steps |-> <<>>]
                     [] bucket[r] = "create"  -> [status |-> 201, steps |-> <<>>]
                     [] OTHER -> buildOrderView(bucket[r])
       IN  Complete(r, view.status, <<"db.query.end">> \o view.steps, 1)
    /\ UNCHANGED <<obsScript, stage, fired, bucket, flushed, dbErrors, reads>>
\* Either query may fail: the catch block answers 500.
QueryFails(r) ==
    /\ phase[r] \in {"sleeping", "querying"} /\ dbErrors < MaxDbErrors
    /\ dbErrors' = dbErrors + 1 /\ Complete(r, 500, <<>>, 1)
    /\ UNCHANGED <<obsScript, stage, fired, bucket, flushed, reads>>
\* registry.metrics(): the totals do not hold this request yet, inFlight does.
Collected == [total |-> requestsTotal, errors |-> errorsTotal, inFlight |-> inFlight, waiting |-> poolWaiting]
ScrapeAnswers(r) ==
    /\ phase[r] = "collecting" /\ Complete(r, 200, <<>>, 0)
    /\ reads' = [s \in DOMAIN reads \cup {"scrape"} |-> IF s = "scrape" THEN Collected ELSE reads[s]]
    /\ UNCHANGED <<obsScript, stage, fired, bucket, flushed, dbErrors>>

(***************************************************************************)
(* The scripts.                                                            *)
(***************************************************************************)
Served == <<code, metricVars, lines, flushed, naive, dbErrors>>
\* generateTraffic: the next request when the answer to the last one was read.
generateTraffic ==
    /\ At("traffic") /\ Quiet /\ UNCHANGED <<obsScript, fired, Served, reads>>
    /\ \/ /\ Fresh <= TrafficCount /\ UNCHANGED stage
          /\ \E b \in pickBucket : bucket' = [bucket EXCEPT ![Fresh] = b]
          /\ AtAwait(Fresh, "sent")
       \/ Fresh > TrafficCount /\ stage' = stage + 1 /\ UNCHANGED <<bucket, phase>>
\* Promise.all over fetches; bursts are sampled before they are awaited.
FireTogether ==
    /\ fired # stage /\ fired' = stage /\ UNCHANGED <<obsScript, stage, Served, reads>>
    /\ \E s \in DOMAIN Concurrent :
          LET together == Fresh .. Fresh + Len(Concurrent[s]) - 1
              Asked(r) == Concurrent[s][r - Fresh + 1]
          IN  /\ At(s) /\ Quiet
              /\ bucket' = [r \in Request |-> IF r \in together THEN Asked(r) ELSE bucket[r]]
              /\ phase' = [r \in Request |-> IF r \in together THEN "sent" ELSE phase[r]]
Fired == fired = stage
\* pg_stat_activity through the same pool: the backends in pg_sleep.
SampleActivity ==
    /\ \E s \in {"slow_burst", "error_burst"} :
          /\ At(s) /\ Fired /\ ~HasReport(s) /\ Free > 0
          /\ reads' = [k \in DOMAIN reads \cup {s} |-> IF k = s THEN InPool("sleeping") ELSE reads[k]]
    /\ UNCHANGED <<obsScript, stage, fired, bucket, phase, Served>>
AwaitAll ==
    /\ \E s \in DOMAIN Concurrent : At(s) /\ Fired /\ (s = "trace" \/ HasReport(s))
    /\ Quiet /\ stage' = stage + 1
    /\ UNCHANGED <<obsScript, fired, bucket, phase, Served, reads>>
\* flushStructuredLogger resolves when every line sent so far is on file.
flushLogs ==
    /\ At("flush") /\ flushed' = [r \in Request |-> Len(lines[r])] /\ stage' = stage + 1
    /\ UNCHANGED <<obsScript, fired, bucket, phase, code, metricVars, lines, naive, dbErrors, reads>>
\* What the transport has written of the lines it was sent: those flushed, and
\* maybe the others.
OnFile == {flushed, [r \in Request |-> Len(lines[r])]}
\* `pnpm dev` runs a second server on the same two files, and Prometheus scrapes it.
Foreign == 0 .. MaxForeign
aggregateByRoute(traces, foreign) ==
    [t \in Routes |->
        LET completions == {r \in Request : traces[r] # <<>> /\ traces[r][Len(traces[r])] = "request.complete"
                                                            /\ Route(bucket[r]) = t}
        IN  [total |-> Cardinality(completions) + (IF t = "/metrics" THEN foreign ELSE 0),
             errorCount |-> Cardinality({r \in completions : code[r] >= 500})]]
\* The formats of naive.log: by route and duration, and one for errors; the
\* regex of the parser knows one of them.
appendNaiveLogLine(status) == IF status >= 500 THEN {"ERROR"} ELSE {"completed_in", "took", "->"}
attemptNaiveLogParse(foreign) ==
    IF obsScript # "structured" THEN {[totalLines |-> 0, successfullyParsed |-> 0]}
    ELSE {[totalLines |-> naive + foreign, successfullyParsed |-> m] :
            m \in 0 .. Cardinality({r \in Done : "completed_in" \in appendNaiveLogLine(code[r])}) + foreign}
parseStructuredLog ==
    /\ At("parse") /\ stage' = stage + 1
    /\ \E onFile \in OnFile, foreign \in Foreign :
        \E parsed \in attemptNaiveLogParse(foreign) :
            LET traces == [r \in Request |-> SubSeq(lines[r], 1, onFile[r])]
                report == [byRoute |-> aggregateByRoute(traces, foreign), traces |-> traces, naive |-> parsed]
            IN  reads' = [k \in DOMAIN reads \cup {"parse"} |-> IF k = "parse" THEN report ELSE reads[k]]
    /\ UNCHANGED <<obsScript, fired, bucket, phase, Served>>
Scrape ==
    /\ At("scrape") /\ Quiet /\ UNCHANGED <<obsScript, fired, Served, reads>>
    /\ \/ /\ ~HasReport("scrape") /\ UNCHANGED stage
          /\ bucket' = [bucket EXCEPT ![Fresh] = "metrics"] /\ AtAwait(Fresh, "sent")
       \/ HasReport("scrape") /\ stage' = stage + 1 /\ UNCHANGED <<bucket, phase>>

ReaderSteps == generateTraffic \/ FireTogether \/ SampleActivity \/ AwaitAll \/ flushLogs \/ parseStructuredLog \/ Scrape
Handle(r) ==
    Arrive(r) \/ BodyRead(r) \/ Acquire(r) \/ SleepEnds(r) \/ QueryEnds(r) \/ QueryFails(r) \/ ScrapeAnswers(r)
ObsNext == ReaderSteps \/ \E r \in Request : Handle(r)
ObsSpec == ObsInit /\ [][ObsNext]_obsVars
(***************************************************************************)
(* Properties.                                                             *)
(***************************************************************************)
Failed(t) == {r \in Done : code[r] >= 500 /\ Route(bucket[r]) = t}
\* The path of a request that met no database error.
Path(b) ==
    <<"request.start", "db.query.start", "db.query.end">> \o
    (IF b \in {"missing", "create"} THEN <<>> ELSE buildOrderView(b).steps) \o <<"request.complete">>
\* The counters are those of the answers sent.
CountersAreTheAnswers ==
    /\ inFlight = Cardinality({r \in Sent : phase[r] \notin {"sent", "done"}})
    /\ requestsTotal = Cardinality(Done) /\ naive = Cardinality(Done)
    /\ \A t \in Routes : errorsTotal[t] = Cardinality(Failed(t))
    /\ Quiet => poolWaiting = 0
\* metrics-scrape's MATCH: all the traffic, the scrape itself not included.
ScrapeMatches ==
    HasReport("scrape") => reads["scrape"].inFlight = 1 /\ reads["scrape"].total = TrafficCount
\* The log accounts for every order request, though another server's lines may
\* be in the file, and debug-narrative's scrape counts the same errors.
LogMatches ==
    HasReport("parse") =>
        LET parsed == reads["parse"]
            own == {r \in Request : parsed.traces[r] # <<>>}
        IN  /\ Cardinality(own) = IF obsScript = "tracing" THEN Len(Concurrent["trace"]) ELSE TrafficCount
            /\ parsed.byRoute["/orders"].total + parsed.byRoute["/orders/:id"].total = Cardinality(own)
            /\ obsScript = "structured" =>
                  parsed.naive.successfullyParsed
                      <= parsed.naive.totalLines - parsed.byRoute["/orders/:id"].errorCount
            /\ HasReport("scrape") => reads["scrape"].errors["/orders/:id"] = parsed.byRoute["/orders/:id"].errorCount
            /\ dbErrors = 0 => \A r \in own : parsed.traces[r] = Path(bucket[r])
\* debug-narrative's last conclusion: no failing request is in pg_sleep.
ErrorsDoNotSleep == HasReport("error_burst") => reads["error_burst"] = 0

\* The sources an operator compares agree whatever interleaves: the metrics
\* with the answers sent, the scrape with the traffic before it, the flushed log
\* with both, and filtering by requestId returns each request's own path, the
\* failed one's up to the statement that threw.
MetricsAgree == CountersAreTheAnswers /\ ScrapeMatches /\ LogMatches /\ ErrorsDoNotSleep
\* Every request is answered, and the script is over with nothing in flight.
ObservedOver == ObsDone /\ Quiet /\ inFlight = 0
=============================================================================
