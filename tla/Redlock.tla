------------------------------- MODULE Redlock -------------------------------
(***************************************************************************)
(* infrastructure/distributed-lock: RedlockManager, Lock and the           *)
(* @DistributedLock wrapper, for one lock key.                             *)
(*                                                                         *)
(* A caller is one invocation of a locked method, on any process of the    *)
(* cluster.  onAllNodes sends one command to every Redis node and waits    *)
(* for answers until its timeout, so a caller may go on without an answer  *)
(* at any time.  The Redis nodes and the network are external: a command   *)
(* reaches a node late, out of order, again (ioredis resends what was not  *)
(* answered) or never, and every answer may be lost.  A key lives on its   *)
(* node between TTL - Drift and TTL ticks, measured by the callers' clock. *)
(* Tokens and commands are numbered in the order of their creation; the    *)
(* number of an acquiring command is its token (randomBytes(16)).          *)
(***************************************************************************)
EXTENDS Integers, FiniteSets

CONSTANTS
    Callers,   \* invocations that want the lock
    Nodes,     \* the independent Redis masters
    TTL,       \* ttlMs
    Drift,     \* drift(ttlMs)
    MaxTime,   \* bound on the clock
    MaxSent,   \* bound on the commands sent
    None       \* nobody

ASSUME RedlockAssumption ==
    /\ IsFiniteSet(Nodes)
    /\ TTL \in Nat /\ Drift \in Nat /\ Drift <= TTL
    /\ MaxTime \in Nat
    /\ MaxSent \in Nat
    /\ None \notin Callers

VARIABLES
    now,    \* the clock, Date.now()
    node,   \* per node: the token stored under the key (0: no key) and its expiry
    sent,   \* the commands sent so far, each to all nodes
    count,  \* how many of them have their own number
    pc,     \* per caller: idle, acquiring, held (the body runs) or extending
    token,  \* per caller: Lock.token
    req,    \* per caller: the command whose answers it waits for
    start,  \* per caller: when it sent that command
    votes,  \* per caller: the nodes that accepted it
    until   \* per caller: Lock.expiresAt

waiting == <<req, start, votes>>
vars == <<now, node, sent, count, pc, token, waiting, until>>

NoKey == [token |-> 0, exp |-> 0]
Commands == [op : {"SET", "EXTEND", "RELEASE"}, token : Nat, req : Nat]

Init ==
    /\ now = 0
    /\ node = [n \in Nodes |-> NoKey]
    /\ sent = {}
    /\ count = 0
    /\ pc = [c \in Callers |-> "idle"]
    /\ token = [c \in Callers |-> 0]
    /\ req = [c \in Callers |-> 0]
    /\ start = [c \in Callers |-> 0]
    /\ votes = [c \in Callers |-> {}]
    /\ until = [c \in Callers |-> 0]

QuorumOneShort == Cardinality(Nodes) \div 2  \* mutant: off by one
Quorum == Cardinality(Nodes) \div 2 + 1

ExpiresAtFromNow(c) == now + TTL - Drift  \* mutant: the clock is read after the answers
ExpiresAt(c) == start[c] + TTL - Drift

\* Lock.isValid.
Valid(c) == pc[c] \in {"held", "extending"} /\ now < until[c]

\* The start of onAllNodes for a command op under token t.
SendToAll(c, op, t) ==
    /\ count < MaxSent
    /\ count' = count + 1
    /\ sent' = sent \union {[op |-> op, token |-> t, req |-> count + 1]}
    /\ req' = [req EXCEPT ![c] = count + 1]
    /\ start' = [start EXCEPT ![c] = now]
    /\ votes' = [votes EXCEPT ![c] = {}]

\* releaseRaw.  Nobody looks at its answers, so it needs no number.
SendRelease(c) ==
    /\ sent' = sent \union {[op |-> "RELEASE", token |-> token[c], req |-> 0]}
    /\ pc' = [pc EXCEPT ![c] = "idle"]
    /\ token' = [token EXCEPT ![c] = 0]
    /\ req' = [req EXCEPT ![c] = 0]
    /\ start' = [start EXCEPT ![c] = 0]
    /\ votes' = [votes EXCEPT ![c] = {}]
    /\ until' = [until EXCEPT ![c] = 0]

-----------------------------------------------------------------------------
\* acquire: one attempt of the retry loop, with a fresh token.
AcquireStart(c) ==
    /\ pc[c] = "idle"
    /\ SendToAll(c, "SET", count + 1)
    /\ pc' = [pc EXCEPT ![c] = "acquiring"]
    /\ token' = [token EXCEPT ![c] = count + 1]
    /\ UNCHANGED <<now, node, until>>

Granted(c) == Cardinality(votes[c]) >= Quorum /\ now < ExpiresAt(c)

AcquireSucceeds(c) ==
    /\ pc[c] = "acquiring" /\ Granted(c)
    /\ until' = [until EXCEPT ![c] = ExpiresAt(c)]
    /\ pc' = [pc EXCEPT ![c] = "held"]
    /\ UNCHANGED <<now, node, sent, count, token, waiting>>

\* "Undo partial acquisitions"; then null, or the loop's next attempt.
AcquireFails(c) ==
    /\ pc[c] = "acquiring" /\ ~Granted(c)
    /\ SendRelease(c)
    /\ UNCHANGED <<now, node, count>>

\* Lock.extend, fired by the wrapper's timer as long as the body runs, whether
\* the lock is still valid or not.
ExtendStart(c) ==
    /\ pc[c] = "held"
    /\ SendToAll(c, "EXTEND", token[c])
    /\ pc' = [pc EXCEPT ![c] = "extending"]
    /\ UNCHANGED <<now, node, token, until>>

\* A failed extension is logged and changes nothing.
ExtendEnds(c) ==
    /\ pc[c] = "extending"
    /\ until' = [until EXCEPT ![c] = IF Granted(c) THEN ExpiresAt(c) ELSE @]
    /\ pc' = [pc EXCEPT ![c] = "held"]
    /\ UNCHANGED <<now, node, sent, count, token, waiting>>

\* The body settles: the timer is cleared and the lock released, an extension
\* in flight notwithstanding.
Release(c) ==
    /\ pc[c] \in {"held", "extending"}
    /\ SendRelease(c)
    /\ UNCHANGED <<now, node, count>>

\* The process dies: nothing is released.
Crash(c) ==
    /\ pc[c] # "idle"
    /\ pc' = [pc EXCEPT ![c] = "idle"]
    /\ token' = [token EXCEPT ![c] = 0]
    /\ req' = [req EXCEPT ![c] = 0]
    /\ start' = [start EXCEPT ![c] = 0]
    /\ votes' = [votes EXCEPT ![c] = {}]
    /\ until' = [until EXCEPT ![c] = 0]
    /\ UNCHANGED <<now, node, sent, count>>

-----------------------------------------------------------------------------
\* A node accepts a command: the answer reaches the caller that still waits
\* for it, or nobody.
Answer(m, n) ==
    \/ UNCHANGED votes
    \/ \E c \in Callers : req[c] = m.req /\ pc[c] \in {"acquiring", "extending"}
                          /\ votes' = [votes EXCEPT ![c] = @ \union {n}]

Present(n) == node[n].exp > now

Store(n, t) == \E e \in now + TTL - Drift .. now + TTL : node' = [node EXCEPT ![n] = [token |-> t, exp |-> e]]

\* SET key token NX PX ttl.
DeliverSet(m, n) ==
    /\ m.op = "SET" /\ ~Present(n)
    /\ Store(n, m.token)
    /\ Answer(m, n)
    /\ UNCHANGED <<now, sent, count, pc, token, req, start, until>>

\* EXTEND_SCRIPT.
DeliverExtend(m, n) ==
    /\ m.op = "EXTEND" /\ Present(n) /\ node[n].token = m.token
    /\ Store(n, m.token)
    /\ Answer(m, n)
    /\ UNCHANGED <<now, sent, count, pc, token, req, start, until>>

\* RELEASE_SCRIPT.
DeliverReleaseUnchecked(m, n) ==  \* mutant: a plain DEL
    /\ m.op = "RELEASE" /\ Present(n)
    /\ node' = [node EXCEPT ![n] = NoKey]
    /\ UNCHANGED <<now, sent, count, pc, token, waiting, until>>

DeliverRelease(m, n) ==
    /\ m.op = "RELEASE" /\ Present(n) /\ node[n].token = m.token
    /\ node' = [node EXCEPT ![n] = NoKey]
    /\ UNCHANGED <<now, sent, count, pc, token, waiting, until>>

\* Time passes; keys past their expiry are gone.
Tick ==
    /\ now < MaxTime
    /\ now' = now + 1
    /\ node' = [n \in Nodes |-> IF node[n].exp > now' THEN node[n] ELSE NoKey]
    /\ UNCHANGED <<sent, count, pc, token, waiting, until>>

Caller(c) ==
    \/ AcquireStart(c) \/ AcquireSucceeds(c) \/ AcquireFails(c)
    \/ ExtendStart(c) \/ ExtendEnds(c) \/ Release(c) \/ Crash(c)

Network(m, n) == DeliverSet(m, n) \/ DeliverExtend(m, n) \/ DeliverRelease(m, n)

Next ==
    \/ Tick
    \/ \E c \in Callers : Caller(c)
    \/ \E m \in sent, n \in Nodes : Network(m, n)

Spec == Init /\ [][Next]_vars

-----------------------------------------------------------------------------
\* The shape of every variable.
TypeOK ==
    /\ now \in Nat
    /\ node \in [Nodes -> [token : Nat, exp : Nat]]
    /\ sent \subseteq Commands
    /\ count \in Nat
    /\ pc \in [Callers -> {"idle", "acquiring", "held", "extending"}]
    /\ token \in [Callers -> 0..count]
    /\ req \in [Callers -> 0..count]
    /\ start \in [Callers -> 0..now]
    /\ votes \in [Callers -> SUBSET Nodes]
    /\ until \in [Callers -> Nat]

\* No two locks are valid at once, through lost, late, repeated and reordered
\* commands, crashes, expiries, extensions and releases of expired locks.
AtMostOneValid == \A c, d \in Callers : Valid(c) /\ Valid(d) => c = d

\* "A lock is held when a majority of independent Redis masters accepted": a
\* valid lock has its token on a majority of the nodes until the very end of
\* its validity; no other caller's command can remove it.
ValidLockHasQuorum ==
    \A c \in Callers : Valid(c) =>
        Cardinality({n \in Nodes : Present(n) /\ node[n].token = token[c]}) >= Quorum

\* The caller with a valid lock.
Owner == IF \E c \in Callers : Valid(c) THEN CHOOSE c \in Callers : Valid(c) ELSE None

Abstract == INSTANCE LeaseMutex WITH owner <- Owner

\* Redlock implements the abstract lock: it passes from one caller to another
\* only through a moment in which nobody's lock is valid.
ImplementsMutex == Abstract!Spec
=============================================================================
