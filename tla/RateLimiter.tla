----------------------------- MODULE RateLimiter -----------------------------
(***************************************************************************)
(* rate-limiting/rate-limiter.service.ts: consume and reset of one key by  *)
(* several API instances, over the two Redis scripts (token bucket and     *)
(* sliding window) and the in-memory fallback of each instance.            *)
(*                                                                         *)
(* Time is counted in seconds; a token is Window units, so that the refill *)
(* of a second is Limit units.  The scripts use the caller's clock, which  *)
(* is ahead of Redis' by Ahead[i]; expiry uses Redis' own.  A window is a  *)
(* set of scores, each with the number of its admission for a request id.  *)
(***************************************************************************)
EXTENDS Integers, Sequences, FiniteSetsExt

CONSTANTS
    Instances,   \* API instances
    Ahead,       \* per instance: how far its clock is ahead
    Slowest,     \* the least and
    Fastest,     \* the largest that Ahead may be
    Limit,       \* policy.limit
    Window,      \* policy.windowMs
    Burst,       \* policy.burst
    CheckEvery,  \* how long the result of a ping is used
    MaxTime,     \* bound on time
    MaxAdmitted, \* bound on the admissions since the last resets, by all stores
    Enabled      \* the disturbances that may happen, of {"outage", "restart", "reset"}

VARIABLES
    strategy,   \* policy.strategy, fixed
    now,
    redis,      \* reachable?, the key's value, when it expires
    memory,     \* per instance: the value in memoryWindows or memoryBuckets
    health,     \* per instance: lastRedisCheck, redisHealthy, a ping is under way
    admitted,   \* history, per store: when it admitted a request, since it was last reset
    forgotten   \* history: Redis dropped a bucket that was not full by the slowest clock

vars == <<strategy, now, redis, memory, health, admitted, forgotten>>

Stores == Instances \union {"redis"}
Capacity == Burst * Window
Clock(i) == now + Ahead[i]

NoValue == [log |-> {}, tokens |-> Capacity, ts |-> -1]
Unchecked == [checked |-> -CheckEvery, ok |-> FALSE, pinging |-> FALSE]

Init ==
    /\ strategy \in {"bucket", "window"}
    /\ now = 0
    /\ redis = [up |-> TRUE, value |-> NoValue, expires |-> 0]
    /\ memory = [i \in Instances |-> NoValue]
    /\ health = [i \in Instances |-> Unchecked]
    /\ admitted = [s \in Stores |-> <<>>]
    /\ forgotten = FALSE

-----------------------------------------------------------------------------
\* What a store holds for the key at time t, before the decision.
Refresh(v, t) ==
    [log    |-> {entry \in v.log : entry[1] > t - Window},
     tokens |-> IF v = NoValue \/ strategy = "window" THEN Capacity
                ELSE Min({Capacity, v.tokens + (t - v.ts) * Limit}),
     ts     |-> IF strategy = "window" THEN 0 ELSE t]

AllowsOneMore(v) ==  \* mutant: both comparisons are off by one
    IF strategy = "window" THEN Cardinality(v.log) <= Limit ELSE v.tokens >= 0

Allows(v) == IF strategy = "window" THEN Cardinality(v.log) < Limit ELSE v.tokens >= Window

\* The decision of store s for a request at time t.
Spend(s, v, t) ==
    IF ~Allows(v) THEN v
    ELSE IF strategy = "window" THEN [v EXCEPT !.log = @ \union {<<t, Len(admitted[s]) + 1>>}]
    ELSE [v EXCEPT !.tokens = @ - Window]

\* PEXPIRE for an admission; EXPIRE for every decision of the token bucket, after
\* the time that the missing tokens, or those missing for one request, and one
\* more take to come back.
CeilDiv(a, b) == (a + b - 1) \div b
Expiry(v) ==
    IF strategy = "window" THEN IF Allows(v) THEN now + Window ELSE redis.expires
    ELSE LET left    == IF Allows(v) THEN v.tokens - Window ELSE v.tokens
             missing == (IF Allows(v) THEN Capacity ELSE Window) - left + Window
         IN  now + Max({1, CeilDiv(missing, Limit)})

Expired == redis.value # NoValue /\ now >= redis.expires

\* The key as the script finds it.
Found == IF Expired THEN NoValue ELSE redis.value
NotYetFull(v) == v.tokens + (now + Slowest - v.ts) * Limit < Capacity

Admit(s, v) == IF Allows(v) THEN Append(admitted[s], now) ELSE admitted[s]
Admissions(s) == Len(admitted[s])
WithinBound(v) == Allows(v) => MapThenSumSet(Admissions, Stores) < MaxAdmitted

\* One run of TOKEN_BUCKET_LUA or SLIDING_WINDOW_LUA for instance i.
Asked(i) == Refresh(Found, Clock(i))
Script(i) ==
    /\ redis.up /\ WithinBound(Asked(i))
    /\ redis' = [redis EXCEPT !.value = Spend("redis", Asked(i), Clock(i)), !.expires = Expiry(Asked(i))]
    /\ forgotten' = (forgotten \/ (strategy = "bucket" /\ Expired /\ NotYetFull(redis.value)))

Recalled(i) == Refresh(memory[i], Clock(i))
ByMemory(i) ==
    /\ WithinBound(Recalled(i))
    /\ memory' = [memory EXCEPT ![i] = Spend(i, Recalled(i), Clock(i))]

\* consumeRedis or consumeMemory; an error of the former falls back to the latter,
\* although the script may have run.
ConsumeRedis(i) ==
    /\ Script(i)
    /\ admitted' = [admitted EXCEPT !["redis"] = Admit("redis", Asked(i))]
    /\ UNCHANGED memory

AnswerLost(i) ==
    /\ "outage" \in Enabled
    /\ Script(i) /\ ByMemory(i)
    /\ admitted' = [admitted EXCEPT !["redis"] = Admit("redis", Asked(i)), ![i] = Admit(i, Recalled(i))]

ConsumeMemory(i) ==
    /\ ByMemory(i)
    /\ admitted' = [admitted EXCEPT ![i] = Admit(i, Recalled(i))]
    /\ UNCHANGED <<redis, forgotten>>

Decide(i, healthy) ==
    \/ healthy /\ ConsumeRedis(i)
    \/ healthy /\ AnswerLost(i)
    \/ ~(healthy /\ redis.up) /\ ConsumeMemory(i)

\* reset: the key of one store is deleted, or of both if an error hides the first
\* deletion.  What the store admitted so far is forgiven.
DeleteRedis ==
    /\ redis.up /\ redis' = [redis EXCEPT !.value = NoValue]
    /\ admitted' = [admitted EXCEPT !["redis"] = <<>>]
    /\ UNCHANGED <<memory, forgotten>>

DeleteMemory(i) ==
    /\ memory' = [memory EXCEPT ![i] = NoValue]
    /\ admitted' = [admitted EXCEPT ![i] = <<>>]
    /\ UNCHANGED <<redis, forgotten>>

DeleteBoth(i) ==
    /\ "outage" \in Enabled
    /\ redis.up /\ redis' = [redis EXCEPT !.value = NoValue]
    /\ memory' = [memory EXCEPT ![i] = NoValue]
    /\ admitted' = [admitted EXCEPT !["redis"] = <<>>, ![i] = <<>>]
    /\ UNCHANGED forgotten

Delete(i, healthy) ==
    /\ "reset" \in Enabled
    /\ \/ healthy /\ DeleteRedis
       \/ healthy /\ DeleteBoth(i)
       \/ ~(healthy /\ redis.up) /\ DeleteMemory(i)

-----------------------------------------------------------------------------
\* isRedisHealthy: a check that is due is stamped before its ping is answered ...
CheckDue(i) == Clock(i) - health[i].checked >= CheckEvery

StartPing(i) ==
    /\ CheckDue(i) /\ ~health[i].pinging
    /\ health' = [health EXCEPT ![i].checked = Clock(i), ![i].pinging = TRUE]
    /\ UNCHANGED <<strategy, now, redis, memory, admitted, forgotten>>

PingEnds(i) ==
    /\ health[i].pinging
    /\ health' = [health EXCEPT ![i].ok = redis.up, ![i].pinging = FALSE]
    /\ Decide(i, redis.up) \/ Delete(i, redis.up)
    /\ UNCHANGED <<strategy, now>>

\* ... and everybody else uses the last answer.
Consume(i) ==
    /\ ~CheckDue(i)
    /\ Decide(i, health[i].ok)
    /\ UNCHANGED <<strategy, now, health>>

Reset(i) ==
    /\ ~CheckDue(i)
    /\ Delete(i, health[i].ok)
    /\ UNCHANGED <<strategy, now, health>>

\* External: time; Redis becomes unreachable or comes back; an instance
\* restarts, and its memory is another store from then on.
Tick ==
    /\ now < MaxTime /\ now' = now + 1
    /\ UNCHANGED <<strategy, redis, memory, health, admitted, forgotten>>

Outage ==
    /\ "outage" \in Enabled
    /\ redis' = [redis EXCEPT !.up = ~@]
    /\ UNCHANGED <<strategy, now, memory, health, admitted, forgotten>>

Restart(i) ==
    /\ "restart" \in Enabled
    /\ memory' = [memory EXCEPT ![i] = NoValue]
    /\ health' = [health EXCEPT ![i] = Unchecked]
    /\ admitted' = [admitted EXCEPT ![i] = <<>>]
    /\ UNCHANGED <<strategy, now, redis, forgotten>>

Next ==
    \/ Tick \/ Outage
    \/ \E i \in Instances : StartPing(i) \/ PingEnds(i) \/ Consume(i) \/ Reset(i) \/ Restart(i)

Spec == Init /\ [][Next]_vars

-----------------------------------------------------------------------------
Skew(s) == IF s = "redis" THEN Fastest - Slowest ELSE 0

\* Within the admissions a of store s, those from the m-th to the n-th keep to the
\* policy for the time between them, which clocks that disagree may lengthen.
Between(s, a, m, n) == a[n] - a[m] + Skew(s)
WithinWindow(s, a) ==
    \A n \in 1 .. Len(a) : \A m \in 1 .. n : Between(s, a, m, n) < Window => n - m + 1 <= Limit
WithinBucket(s, a) ==
    \A n \in 1 .. Len(a) : \A m \in 1 .. n : (n - m + 1) * Window <= Capacity + Between(s, a, m, n) * Limit

\* "a burst that straddles a boundary is still capped at the configured limit":
\* through outages, lost answers, restarts, resets and clocks that disagree,
\* each store, Redis or one instance's memory, admits at most limit requests in
\* every window (shorter by the clocks' disagreement) and at most the burst and
\* what was refilled since, unless Redis dropped a bucket that was not full.
EachStoreHolds ==
    \A s \in Stores :
        IF strategy = "window" THEN WithinWindow(s, admitted[s])
        ELSE (s = "redis" /\ forgotten) \/ WithinBucket(s, admitted[s])

-----------------------------------------------------------------------------
\* The inductive invariant.
IsValue(v) ==
    /\ v = [log |-> v.log, tokens |-> v.tokens, ts |-> v.ts]
    /\ v.tokens \in Int /\ v.ts \in Int /\ IsFiniteSet(v.log)

Value(s) == IF s = "redis" THEN redis.value ELSE memory[s]
Low(s) == IF s = "redis" THEN Slowest ELSE Ahead[s]

Shape ==
    /\ strategy \in {"bucket", "window"} /\ now \in Int /\ forgotten \in BOOLEAN
    /\ redis = [up |-> redis.up, value |-> redis.value, expires |-> redis.expires]
    /\ redis.expires \in Int
    /\ memory = [i \in Instances |-> memory[i]]
    /\ admitted = [s \in Stores |-> admitted[s]]
    /\ \A s \in Stores : IsValue(Value(s)) /\ admitted[s] \in Seq(Int)

\* Admissions are in the order of time, and a store without a value has none.
InOrder(a) == \A n \in 1 .. Len(a) : a[n] <= now /\ \A m \in 1 .. n : a[m] <= a[n]
Ordered == \A s \in Stores : InOrder(admitted[s]) /\ (Value(s) = NoValue => admitted[s] = <<>>)

\* Each admission that may still count is in the log, by a score that is not too early.
Logged(s, v, a) ==
    \A m \in 1 .. Len(a) :
        \/ now - a[m] + Skew(s) >= Window
        \/ \E score \in Int : score >= a[m] + Low(s) /\ <<score, m>> \in v.log

\* What was spent since an admission, and what is left, was there or refilled since.
Accounted(s, v, a) ==
    /\ v.tokens <= Capacity
    /\ \A m \in 1 .. Len(a) : (Len(a) - m + 1) * Window + v.tokens <= Capacity + (v.ts - a[m] - Low(s)) * Limit

Kept(s, v, a, excused) ==
    IF strategy = "window" THEN Logged(s, v, a) ELSE (s = "redis" /\ excused) \/ Accounted(s, v, a)

\* Redis keeps a window for as long as its latest admission counts.
KeptLongEnough ==
    strategy = "window" => \A m \in 1 .. Len(admitted["redis"]) : admitted["redis"][m] + Window <= redis.expires

IInv ==
    /\ Shape /\ Ordered /\ KeptLongEnough /\ EachStoreHolds
    /\ \A s \in Stores : Kept(s, Value(s), admitted[s], forgotten)
=============================================================================
