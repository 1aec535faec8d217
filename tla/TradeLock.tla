------------------------------ MODULE TradeLock ------------------------------
(***************************************************************************)
(* defi/trade-lock.service.ts: executeTrade for one user, in one process.  *)
(*                                                                         *)
(* userLocks holds at most one promise for the user. Code between two      *)
(* timers is one turn of the event loop: when a trade's timer fires, its   *)
(* result is cached, its lock resolved, and every waiter on that lock runs *)
(* up to its own timer (or to its return) before another request arrives.  *)
(***************************************************************************)
EXTENDS Integers, Sequences, FiniteSets, Functions

CONSTANTS
    Requests,     \* requests of the user in progress at once
    Keys,         \* idempotency keys
    MaxTrades,    \* bound on the trades started
    MaxExpiries,  \* bound on the cached results that outlive their 24 hours
    NoRequest

VARIABLES
    lock,     \* the request whose promise is in userLocks, or NoRequest
    waiters,  \* per request: who awaits its promise, in the order they came
    req,      \* per request: "idle", "waiting" or "trading", and its key
    cache,    \* keys with an unexpired result in idempotencyCache
    trades,   \* history, per key: trades started
    expired,  \* history, per key: results that expired
    crowded   \* history: some promise woke more than one waiter

vars == <<lock, waiters, req, cache, trades, expired, crowded>>

Init ==
    /\ lock = NoRequest
    /\ waiters = [r \in Requests |-> <<>>]
    /\ req = [r \in Requests |-> [pc |-> "idle"]]
    /\ cache = {}
    /\ trades = [k \in Keys |-> 0]
    /\ expired = [k \in Keys |-> 0]
    /\ crowded = FALSE

Trading == {r \in Requests : req[r].pc = "trading"}
Started == FoldFunction(LAMBDA n, m : n + m, 0, trades)

-----------------------------------------------------------------------------
\* executeTrade with a cached result returns it and changes nothing.
\* Nobody holds the lock: lock, look again, start the trade.
TradeAtOnce(r, k) ==
    /\ req[r].pc = "idle" /\ k \notin cache /\ Started < MaxTrades
    /\ lock = NoRequest
    /\ lock' = r
    /\ req' = [req EXCEPT ![r] = [pc |-> "trading", key |-> k]]
    /\ trades' = [trades EXCEPT ![k] = @ + 1]
    /\ UNCHANGED <<waiters, cache, expired, crowded>>

\* Somebody does: wait for the promise found.
Wait(r, k) ==
    /\ req[r].pc = "idle" /\ k \notin cache /\ Started < MaxTrades
    /\ lock # NoRequest
    /\ req' = [req EXCEPT ![r] = [pc |-> "waiting", key |-> k]]
    /\ waiters' = [waiters EXCEPT ![lock] = Append(@, r)]
    /\ UNCHANGED <<lock, cache, trades, expired, crowded>>

WakeWithoutRecheck(woken, held) == woken  \* mutant: the cache is not read again inside the lock

\* The second look at the cache, inside the lock.
WakeToTrade(woken, held) == {w \in woken : req[w].key \notin held}

\* The timer of r's trade fires. Each waiter in turn puts its own promise into
\* userLocks, whatever is there; one that finds its key cached takes its promise
\* out again if no later one has replaced it.
Finish(r) ==
    LET held   == cache \union {req[r].key}
        queue  == waiters[r]
        woken  == {queue[n] : n \in DOMAIN queue}
        trader == WakeToTrade(woken, held)
    IN  /\ r \in Trading
        /\ cache' = held
        /\ req' = [q \in Requests |-> IF q \in trader THEN [req[q] EXCEPT !.pc = "trading"]
                                      ELSE IF q \in woken \union {r} THEN [pc |-> "idle"] ELSE req[q]]
        /\ trades' = [k \in Keys |-> trades[k] + Cardinality({w \in trader : req[w].key = k})]
        /\ waiters' = [waiters EXCEPT ![r] = <<>>]
        /\ lock' = IF queue # <<>>
                   THEN IF queue[Len(queue)] \in trader THEN queue[Len(queue)] ELSE NoRequest
                   ELSE IF lock = r THEN NoRequest ELSE lock
        /\ crowded' = (crowded \/ Len(queue) > 1)
        /\ UNCHANGED expired

\* 24 hours pass; cleanupExpiredCache or the next request removes the entry.
ExpireResult(k) ==
    /\ k \in cache /\ expired[k] < MaxExpiries
    /\ cache' = cache \ {k}
    /\ expired' = [expired EXCEPT ![k] = @ + 1]
    /\ UNCHANGED <<lock, waiters, req, trades, crowded>>

Next ==
    \/ \E r \in Requests, k \in Keys : TradeAtOnce(r, k) \/ Wait(r, k)
    \/ \E r \in Requests : Finish(r)
    \/ \E k \in Keys : ExpireResult(k)

Spec == Init /\ [][Next]_vars

-----------------------------------------------------------------------------
\* "prevent concurrent trades on same user" (userLocks), "Re-check idempotency
\* inside lock" (executeTrade): as long as no promise ever woke two waiters at
\* once, the user has at most one trade in progress, its request holds the
\* lock, and a key is traded again only after its result expired. Retries that
\* arrive while a trade runs, or while its result expires, change none of it.
ExclusiveUnlessCrowded ==
    crowded \/ ( /\ \A r, s \in Trading : r = s /\ lock = r
                /\ \A k \in Keys : trades[k] <= expired[k] + 1 )

\* The promise without its exception: "Trade locking (prevent double-execution)".
KeyTradesOnce == \A k \in Keys : trades[k] <= expired[k] + 1

-----------------------------------------------------------------------------
\* The inductive invariant, as long as no promise woke two waiters.
Shape ==
    /\ lock \in Requests \union {NoRequest}
    /\ waiters \in [Requests -> Seq(Requests)]
    /\ req = [r \in Requests |-> req[r]]
    /\ \A r \in Requests :
          /\ req[r].pc \in {"idle", "waiting", "trading"}
          /\ req[r].pc # "idle" => {"pc", "key"} \subseteq DOMAIN req[r] /\ req[r].key \in Keys
    /\ trades \in [Keys -> Nat] /\ expired \in [Keys -> Nat]

\* Whoever trades holds the lock, whoever holds it trades, and only it is waited for.
OneHolder ==
    /\ \A r \in Trading : lock = r
    /\ lock # NoRequest => lock \in Trading
    /\ \A r \in Requests : waiters[r] # <<>> => lock = r
    /\ \A r \in Requests : \A n \in 1..Len(waiters[r]) : req[waiters[r][n]].pc = "waiting"

\* Results account for all trades but the one in progress, which has none yet.
Accounted(k) ==
    /\ trades[k] <= expired[k] + 1
    /\ k \notin cache /\ (\A r \in Trading : req[r].key # k) => trades[k] <= expired[k]

IInv ==
    crowded \/ ( /\ Shape /\ OneHolder
                 /\ \A r \in Trading : req[r].key \notin cache
                 /\ \A k \in Keys : Accounted(k) )
=============================================================================
