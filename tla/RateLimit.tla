----------------------------- MODULE RateLimit -----------------------------
(***************************************************************************)
(* The two rate limiters of lab 36 (token-bucket.ts, sliding-window.ts;    *)
(* lab 40 carries a copy of the first).  check() stamps the request with   *)
(* the caller's Date.now() and sends it to a Lua script that Redis runs to *)
(* completion.  The stamp is taken by the caller and the script runs later *)
(* (ReadClock, then a script): requests of different processes may reach   *)
(* Redis out of the order of their stamps, and the EXPIRE of the key runs  *)
(* by the clock of Redis.  All clocks agree here; only messages take time. *)
(*                                                                         *)
(* One client key is behind one limiter, chosen initially.  Tokens are     *)
(* whole: refillPerSecond is RefillPerTick, and cost is 1.                 *)
(***************************************************************************)
EXTENDS Integers, FiniteSetsExt

CONSTANTS Checkers,       \* processes that check the one client key
          BucketCapacity, \* config.capacity
          RefillPerTick,  \* config.refillPerSecond
          MinTtl,         \* the 60 of the bucket's EXPIRE
          WindowMs,       \* config.windowMs, in ticks
          Limit,          \* config.limit
          MaxDelay,       \* bound: ticks a request spends on its way to Redis
          MaxTime,        \* bound on the clock
          MaxAdmitted     \* bound: no more checks once so many were admitted

VARIABLES algorithm,  \* "token_bucket" or "sliding_window"
          clock,      \* Date.now() everywhere, and the clock of Redis
          request,    \* the stamp of each caller's request on its way
          bucket,     \* the hash of the token bucket
          entries,    \* the sorted set of the window: members per score
          expires,    \* when Redis drops the key
          admitted,   \* history: admitted requests per stamp
          newest,     \* history: the newest stamp a script has run with
          reordered,  \* history: some script ran with a stamp behind newest
          delayed     \* history: some script ran in a later tick than its stamp

limitVars == <<algorithm, clock, request, bucket, entries, expires,
               admitted, newest, reordered, delayed>>

NoStamp == -1
Ticks == 0 .. MaxTime
FullBucket(now) == [tokens |-> BucketCapacity, last_refill_ms |-> now]
NoEntries == [t \in Ticks |-> 0]

\* The members of f whose score is in from .. to.
CountIn(f, from, to) ==
    MapThenSumSet(LAMBDA t : f[t], {t \in Ticks : from <= t /\ t <= to})

LimitInit ==
    /\ algorithm \in {"token_bucket", "sliding_window"}
    /\ clock = 0
    /\ request = [c \in Checkers |-> NoStamp]
    /\ bucket = FullBucket(0)
    /\ entries = NoEntries
    /\ expires = 0
    /\ admitted = NoEntries
    /\ newest = 0
    /\ reordered = FALSE
    /\ delayed = FALSE

\* check() is called: now = Date.now(), and the command leaves for Redis.
ReadClock(c) ==
    /\ request[c] = NoStamp
    /\ CountIn(admitted, 0, MaxTime) < MaxAdmitted
    /\ request' = [request EXCEPT ![c] = clock]
    /\ UNCHANGED <<algorithm, clock, bucket, entries, expires,
                   admitted, newest, reordered, delayed>>

\* Mutant: a bucket idle for one refill's time is dropped although it is not full.
MutBucketTtl == 1

\* Math.max(60, Math.ceil((capacity / refillPerSecond) * 4))
BucketTtl ==
    Max({MinTtl, (4 * BucketCapacity + RefillPerTick - 1) \div RefillPerTick})

\* A request is on its way for no longer than three quarters of the lifetime of
\* a key, or than leaves the shortest lifetime to refill a bucket.
ASSUME LimitAssumption ==
    /\ {BucketCapacity, MinTtl, Limit, MaxDelay, MaxTime, MaxAdmitted} \subseteq Nat
    /\ RefillPerTick \in Nat \ {0} /\ WindowMs \in Nat \ {0}
    /\ \/ RefillPerTick * MaxDelay <= 3 * BucketCapacity
       \/ RefillPerTick * (MinTtl - MaxDelay) >= BucketCapacity

\* The hash as the script sees it: an expired key is a full bucket.
Found(now) == IF clock >= expires THEN FullBucket(now) ELSE bucket

Tokens(now) ==
    Min({BucketCapacity,
         Found(now).tokens
           + RefillPerTick * Max({0, now - Found(now).last_refill_ms})})

\* The members left by ZREMRANGEBYSCORE.
InWindow(now) ==
    [t \in Ticks |-> IF clock >= expires \/ t <= now - WindowMs
                     THEN 0 ELSE entries[t]]

\* What the history keeps of a script that ran with c's stamp.
Record(c, allowed) ==
    /\ request' = [request EXCEPT ![c] = NoStamp]
    /\ admitted' = IF allowed THEN [admitted EXCEPT ![request[c]] = @ + 1]
                              ELSE admitted
    /\ newest' = Max({newest, request[c]})
    /\ reordered' = (reordered \/ request[c] < newest)
    /\ delayed' = (delayed \/ request[c] < clock)
    /\ UNCHANGED <<algorithm, clock>>

\* Mutant: the rejected request is added to the sorted set as well.
MutSlidingWindowCountsRejected(c) ==
    LET now == request[c]
        allowed == CountIn(InWindow(now), 0, MaxTime) < Limit
    IN /\ algorithm = "sliding_window" /\ now # NoStamp
       /\ entries' = [InWindow(now) EXCEPT ![now] = @ + 1]
       /\ expires' = clock + WindowMs
       /\ Record(c, allowed)
       /\ UNCHANGED bucket

\* TOKEN_BUCKET_SCRIPT.  last_refill_ms becomes now_ms in every case, also
\* when now_ms lies behind it.
TokenBucket(c) ==
    LET now == request[c]
        allowed == Tokens(now) >= 1
    IN /\ algorithm = "token_bucket" /\ now # NoStamp
       /\ bucket' = [tokens |-> IF allowed THEN Tokens(now) - 1 ELSE Tokens(now),
                     last_refill_ms |-> now]
       /\ expires' = clock + BucketTtl
       /\ Record(c, allowed)
       /\ UNCHANGED entries

\* SLIDING_WINDOW_SCRIPT
SlidingWindow(c) ==
    LET now == request[c]
        allowed == CountIn(InWindow(now), 0, MaxTime) < Limit
    IN /\ algorithm = "sliding_window" /\ now # NoStamp
       /\ entries' = IF allowed THEN [InWindow(now) EXCEPT ![now] = @ + 1]
                                ELSE InWindow(now)
       /\ expires' = clock + WindowMs
       /\ Record(c, allowed)
       /\ UNCHANGED bucket

\* Time passes, but no request stays on its way for longer than MaxDelay.
PassTime ==
    /\ clock < MaxTime
    /\ \A c \in Checkers : request[c] # NoStamp => clock < request[c] + MaxDelay
    /\ clock' = clock + 1
    /\ UNCHANGED <<algorithm, request, bucket, entries, expires,
                   admitted, newest, reordered, delayed>>

LimitNext ==
    \/ \E c \in Checkers : ReadClock(c) \/ TokenBucket(c) \/ SlidingWindow(c)
    \/ PassTime

LimitSpec == LimitInit /\ [][LimitNext]_limitVars

-----------------------------------------------------------------------------
WithinBucket ==
    \A from \in Ticks : \A to \in from .. MaxTime :
        CountIn(admitted, from, to)
            <= BucketCapacity + RefillPerTick * (to - from)

WithinWindow ==
    \A to \in Ticks : CountIn(admitted, to - WindowMs + 1, to) <= Limit

\* As long as the scripts run in the order of their stamps, the token bucket
\* admits in no interval more than its capacity and the refill of the
\* interval, idle periods in which the key expires included: the key lives
\* until the bucket would be full.
BucketBudget == algorithm = "token_bucket" /\ ~reordered => WithinBucket

\* As long as every script runs in the tick of its stamp, no interval of
\* windowMs, wherever it begins, holds more than limit admitted requests.
WindowBudget == algorithm = "sliding_window" /\ ~delayed => WithinWindow

\* Each limiter keeps to its budget under the delays it is built for.
BudgetsHold == BucketBudget /\ WindowBudget

\* What README.md of the lab says of both limiters ("at most N admitted
\* requests per configured window (sliding window: exact; token bucket: exact
\* up to its capacity, then rate-limited to the refill rate)"), with nothing
\* assumed about how long a request is on its way.
AdmitsAtMostN == IF algorithm = "token_bucket" THEN WithinBucket ELSE WithinWindow

\* A request is refused only when others have used the allowance up: limit
\* admitted requests less than a window old or, in order, capacity of them in
\* the time a bucket takes to fill.  Refused requests use nothing up.
Spent(now) ==
    IF algorithm = "token_bucket"
    THEN reordered \/ CountIn(admitted, now - BucketCapacity \div RefillPerTick, MaxTime)
                        >= BucketCapacity
    ELSE CountIn(admitted, now - WindowMs + 1, MaxTime) >= Limit

RefusedOnlyWhenSpent ==
    [][\A c \in Checkers :
         request[c] # NoStamp /\ request'[c] = NoStamp /\ admitted' = admitted
           => Spent(request[c])]_limitVars

=============================================================================
