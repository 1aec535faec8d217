--------------------------- MODULE Redlock_proofs ---------------------------
(***************************************************************************)
(* For any number of callers and nodes, any TTL and drift: two locks are   *)
(* never valid at once, and Redlock implements LeaseMutex.                 *)
(*                                                                         *)
(* The inductive invariant says that a node that voted keeps the caller's  *)
(* token until the lock the vote is for would end, because nothing that is *)
(* under way can take it away: a SET finds the key present, an EXTEND of   *)
(* the token only moves the expiry past that end, and no RELEASE of the    *)
(* token exists while its caller uses it (Numbers: tokens and command      *)
(* numbers belong to one caller).  Two majorities share a node, and a node *)
(* stores one token.                                                       *)
(***************************************************************************)
EXTENDS Redlock, FiniteSetTheorems, TLAPS

Numbers ==
    /\ \A m \in sent : m.token <= count /\ m.req <= count
    /\ \A c \in Callers : pc[c] # "idle" => req[c] # 0
    /\ \A c, d \in Callers : pc[c] # "idle" /\ pc[d] # "idle" /\ token[c] = token[d] => c = d
    /\ \A c \in Callers, m \in sent : pc[c] # "idle" /\ m.req = req[c] => m.token = token[c]

NotReleased ==
    \A c \in Callers, m \in sent : pc[c] # "idle" /\ m.op = "RELEASE" => m.token # token[c]

Keeps(n, t, u) == u <= now \/ (node[n].token = t /\ node[n].exp >= u)

VotesKept ==
    \A c \in Callers : pc[c] \in {"acquiring", "extending"} =>
        \A n \in votes[c] : Keeps(n, token[c], ExpiresAt(c))

Majorities == {Q \in SUBSET Nodes : Cardinality(Q) >= Quorum}

LocksKept ==
    \A c \in Callers : pc[c] \in {"held", "extending"} =>
        /\ until[c] <= now + TTL - Drift
        /\ \E Q \in Majorities : \A n \in Q : Keeps(n, token[c], until[c])

IInv == TypeOK /\ Numbers /\ NotReleased /\ VotesKept /\ LocksKept

LEMMA InitIInv == Init => IInv
  <1> SUFFICES ASSUME Init PROVE IInv
    OBVIOUS
  <1> USE RedlockAssumption DEF Init
  <1>1. TypeOK
    BY DEF TypeOK, NoKey, Commands
  <1>2. Numbers /\ NotReleased /\ VotesKept /\ LocksKept
    BY DEF Numbers, NotReleased, VotesKept, LocksKept
  <1> QED BY <1>1, <1>2 DEF IInv

-----------------------------------------------------------------------------
\* Neither time nor any command takes a token that nobody releases from a node
\* that is to keep it until u.
LEMMA KeepsToken ==
  ASSUME TypeOK,
         NEW n \in Nodes, NEW t \in Nat, NEW u \in Nat,
         Keeps(n, t, u), u <= now + TTL - Drift,
         \A m \in sent : m.op = "RELEASE" => m.token # t,
         Tick \/ \E m \in sent, k \in Nodes : Network(m, k)
  PROVE  u <= now' \/ (node'[n].token = t /\ node'[n].exp >= u)
  <1> USE RedlockAssumption
  <1>1. now \in Nat /\ node \in [Nodes -> [token : Nat, exp : Nat]] /\ node[n].exp \in Nat
    BY DEF TypeOK
  <1>2. CASE Tick
    BY <1>1, <1>2 DEF Tick, Keeps, NoKey
  <1>3. ASSUME NEW m \in sent, NEW k \in Nodes, Network(m, k)
        PROVE  u <= now' \/ (node'[n].token = t /\ node'[n].exp >= u)
    <2>1. now' = now
      BY <1>3 DEF Network, DeliverSet, DeliverExtend, DeliverRelease
    <2>2. CASE k # n
      BY <1>1, <1>3, <2>1, <2>2 DEF Network, DeliverSet, DeliverExtend, DeliverRelease, Store, Keeps
    <2>3. CASE k = n /\ u > now
      <3>1. node[n].token = t /\ node[n].exp > now
        BY <1>1, <2>3 DEF Keeps
      <3>2. m.op = "EXTEND" /\ m.token = t /\ Store(n, t)
        BY <1>3, <2>3, <3>1 DEF Network, DeliverSet, DeliverExtend, DeliverRelease, Present
      <3>3. PICK e \in now + TTL - Drift .. now + TTL : node' = [node EXCEPT ![n] = [token |-> t, exp |-> e]]
        BY <3>2 DEF Store
      <3> QED BY <1>1, <3>3
    <2> QED BY <1>1, <2>1, <2>2, <2>3
  <1> QED BY <1>2, <1>3

\* A command or a tick leaves every caller alone, except for a vote.
LEMMA NetworkStep ==
  ASSUME IInv, Tick \/ \E m \in sent, k \in Nodes : Network(m, k)
  PROVE  IInv'
  <1> USE RedlockAssumption DEF IInv
  <1>1. UNCHANGED <<sent, count, pc, token, req, start, until>>
    BY DEF Tick, Network, DeliverSet, DeliverExtend, DeliverRelease, waiting
  <1>2. now \in Nat /\ now' \in Nat /\ now <= now'
    BY DEF TypeOK, Tick, Network, DeliverSet, DeliverExtend, DeliverRelease
  <1>3. node' \in [Nodes -> [token : Nat, exp : Nat]]
    <2>1. now \in Nat /\ node \in [Nodes -> [token : Nat, exp : Nat]] /\ NoKey \in [token : Nat, exp : Nat]
      BY DEF TypeOK, NoKey
    <2>2. CASE Tick
      BY <2>1, <2>2 DEF Tick
    <2>3. ASSUME NEW m \in sent, NEW k \in Nodes, Network(m, k)
          PROVE  node' \in [Nodes -> [token : Nat, exp : Nat]]
      <3>1. m.token \in Nat
        BY DEF TypeOK, Commands
      <3>2. CASE Store(k, m.token)
        <4>1. PICK e \in now + TTL - Drift .. now + TTL :
                node' = [node EXCEPT ![k] = [token |-> m.token, exp |-> e]]
          BY <3>2 DEF Store
        <4>2. e \in Nat
          BY <2>1
        <4> QED BY <2>1, <3>1, <4>1, <4>2
      <3>3. CASE node' = [node EXCEPT ![k] = NoKey]
        BY <2>1, <3>3
      <3> QED BY <2>3, <3>2, <3>3 DEF Network, DeliverSet, DeliverExtend, DeliverRelease
    <2> QED BY <2>2, <2>3
  <1>4. \/ UNCHANGED votes
        \/ \E d \in Callers, n \in Nodes :
              /\ pc[d] \in {"acquiring", "extending"}
              /\ votes' = [votes EXCEPT ![d] = @ \union {n}]
              /\ now' = now /\ node'[n].token = token[d] /\ node'[n].exp >= ExpiresAt(d)
    <2>1. ASSUME NEW m \in sent, NEW n \in Nodes, Store(n, m.token), now' = now,
                 NEW d \in Callers, req[d] = m.req, pc[d] \in {"acquiring", "extending"}
          PROVE  node'[n].token = token[d] /\ node'[n].exp >= ExpiresAt(d)
      <3>1. m.token = token[d]
        BY <2>1 DEF Numbers
      <3>2. now \in Nat /\ start[d] \in 0..now /\ node \in [Nodes -> [token : Nat, exp : Nat]]
        BY DEF TypeOK
      <3>3. PICK e \in now + TTL - Drift .. now + TTL :
              node' = [node EXCEPT ![n] = [token |-> m.token, exp |-> e]]
        BY <2>1 DEF Store
      <3> QED BY <3>1, <3>2, <3>3 DEF ExpiresAt
    <2>2. CASE Tick
      BY <2>2 DEF Tick, waiting
    <2>3. ASSUME NEW m \in sent, NEW n \in Nodes, Network(m, n), votes' # votes
          PROVE  \E d \in Callers :
                   /\ pc[d] \in {"acquiring", "extending"}
                   /\ votes' = [votes EXCEPT ![d] = @ \union {n}]
                   /\ now' = now /\ node'[n].token = token[d] /\ node'[n].exp >= ExpiresAt(d)
      <3>1. Store(n, m.token) /\ now' = now /\ Answer(m, n)
        BY <2>3 DEF Network, DeliverSet, DeliverExtend, DeliverRelease, waiting
      <3>2. PICK d \in Callers : /\ req[d] = m.req /\ pc[d] \in {"acquiring", "extending"}
                                 /\ votes' = [votes EXCEPT ![d] = @ \union {n}]
        BY <2>3, <3>1 DEF Answer
      <3> QED BY <2>1, <3>1, <3>2
    <2> QED BY <2>2, <2>3
  <1>5. TypeOK'
    <2>1. votes' \in [Callers -> SUBSET Nodes]
      BY <1>4 DEF TypeOK
    <2>2. start' \in [Callers -> 0..now']
      <3>1. start \in [Callers -> 0..now] /\ 0..now \subseteq 0..now'
        BY <1>2 DEF TypeOK
      <3> QED BY <1>1, <3>1
    <2> QED BY <1>1, <1>2, <1>3, <2>1, <2>2 DEF TypeOK
  <1>6. Numbers' /\ NotReleased'
    BY <1>1 DEF Numbers, NotReleased
  <1>7. \A c \in Callers, n \in Nodes, u \in Nat :
          pc[c] # "idle" /\ u <= now + TTL - Drift /\ Keeps(n, token[c], u)
            => u <= now' \/ (node'[n].token = token[c] /\ node'[n].exp >= u)
    <2> SUFFICES ASSUME NEW c \in Callers, NEW n \in Nodes, NEW u \in Nat,
                        pc[c] # "idle", u <= now + TTL - Drift, Keeps(n, token[c], u)
                 PROVE  u <= now' \/ (node'[n].token = token[c] /\ node'[n].exp >= u)
      OBVIOUS
    <2>1. token[c] \in Nat
      BY DEF TypeOK
    <2>2. \A m \in sent : m.op = "RELEASE" => m.token # token[c]
      BY DEF NotReleased
    <2> QED BY <2>1, <2>2, KeepsToken
  <1>8. VotesKept'
    <2> SUFFICES ASSUME NEW c \in Callers, pc[c] \in {"acquiring", "extending"}, NEW n \in votes'[c]
                 PROVE  ExpiresAt(c) <= now' \/ (node'[n].token = token[c] /\ node'[n].exp >= ExpiresAt(c))
      BY <1>1 DEF VotesKept, Keeps, ExpiresAt
    <2>1. ExpiresAt(c) \in Nat /\ ExpiresAt(c) <= now + TTL - Drift
      BY DEF TypeOK, ExpiresAt
    <2>2. CASE n \in votes[c]
      <3>1. Keeps(n, token[c], ExpiresAt(c)) /\ n \in Nodes
        BY <2>2 DEF VotesKept, TypeOK
      <3> QED BY <1>7, <2>1, <3>1
    <2>3. CASE n \notin votes[c]
      BY <1>4, <2>3 DEF TypeOK
    <2> QED BY <2>2, <2>3
  <1>9. LocksKept'
    <2> SUFFICES ASSUME NEW c \in Callers, pc[c] \in {"held", "extending"}
                 PROVE  /\ until[c] <= now' + TTL - Drift
                        /\ \E Q \in Majorities : \A n \in Q :
                              until[c] <= now' \/ (node'[n].token = token[c] /\ node'[n].exp >= until[c])
      BY <1>1 DEF LocksKept, Keeps, Majorities, Quorum
    <2>1. until[c] \in Nat /\ until[c] <= now + TTL - Drift
      BY DEF TypeOK, LocksKept
    <2>2. PICK Q \in Majorities : \A n \in Q : Keeps(n, token[c], until[c])
      BY DEF LocksKept
    <2>3. \A n \in Q : until[c] <= now' \/ (node'[n].token = token[c] /\ node'[n].exp >= until[c])
      BY <1>7, <2>1, <2>2 DEF Majorities
    <2> QED BY <1>2, <2>1, <2>3
  <1> QED BY <1>5, <1>6, <1>8, <1>9

-----------------------------------------------------------------------------
\* What the steps of caller c leave alone.
LEMMA OthersUntouched ==
  ASSUME IInv, NEW c \in Callers, Caller(c)
  PROVE  /\ UNCHANGED <<now, node>>
         /\ \A d \in Callers \ {c} :
              /\ pc'[d] = pc[d] /\ token'[d] = token[d] /\ req'[d] = req[d]
              /\ start'[d] = start[d] /\ votes'[d] = votes[d] /\ until'[d] = until[d]
  <1> USE DEF IInv, TypeOK
  <1>1. CASE AcquireStart(c) \/ ExtendStart(c)
    BY <1>1 DEF AcquireStart, ExtendStart, SendToAll
  <1>2. CASE AcquireSucceeds(c) \/ ExtendEnds(c)
    BY <1>2 DEF AcquireSucceeds, ExtendEnds, waiting
  <1>3. CASE AcquireFails(c) \/ Release(c) \/ Crash(c)
    BY <1>3 DEF AcquireFails, Release, Crash, SendRelease
  <1> QED BY <1>1, <1>2, <1>3 DEF Caller

\* A caller that sends a command takes a number nobody has.
LEMMA SendStep ==
  ASSUME IInv, NEW c \in Callers, AcquireStart(c) \/ ExtendStart(c)
  PROVE  IInv'
  <1> USE RedlockAssumption DEF IInv
  <1>0. /\ UNCHANGED <<now, node, until>>
        /\ \A d \in Callers \ {c} :
              /\ pc'[d] = pc[d] /\ token'[d] = token[d] /\ req'[d] = req[d]
              /\ start'[d] = start[d] /\ votes'[d] = votes[d]
    BY OthersUntouched DEF Caller, AcquireStart, ExtendStart
  <1>1. /\ count' = count + 1 /\ count \in Nat
        /\ req' = [req EXCEPT ![c] = count + 1] /\ start' = [start EXCEPT ![c] = now]
        /\ votes' = [votes EXCEPT ![c] = {}]
    BY DEF AcquireStart, ExtendStart, SendToAll, TypeOK
  <1>2. PICK t \in 0..count + 1, o \in {"SET", "EXTEND"} :
          /\ sent' = sent \union {[op |-> o, token |-> t, req |-> count + 1]}
          /\ token' = [token EXCEPT ![c] = t]
          /\ t = count + 1 \/ (pc[c] = "held" /\ t = token[c])
    <2>1. token \in [Callers -> 0..count] /\ count \in Nat
      BY DEF TypeOK
    <2>2. CASE AcquireStart(c)
      <3>1. count + 1 \in 0..count + 1
        BY <2>1
      <3>2. /\ sent' = sent \union {[op |-> "SET", token |-> count + 1, req |-> count + 1]}
            /\ token' = [token EXCEPT ![c] = count + 1]
        BY <2>2 DEF AcquireStart, SendToAll
      <3> QED BY <3>1, <3>2, Zenon
    <2>3. CASE ExtendStart(c)
      <3>1. token' = [token EXCEPT ![c] = token[c]] /\ token[c] \in 0..count + 1
        BY <2>1, <2>3 DEF ExtendStart
      <3> QED BY <2>3, <3>1 DEF ExtendStart, SendToAll
    <2> QED BY <2>2, <2>3
  <1>3. /\ pc' \in [Callers -> {"idle", "acquiring", "held", "extending"}]
        /\ pc'[c] \in {"acquiring", "extending"}
        /\ pc'[c] = "extending" => pc[c] = "held" /\ t = token[c]
    BY <1>2 DEF TypeOK, AcquireStart, ExtendStart
  <1>4. TypeOK'
    <2>1. token' \in [Callers -> 0..count'] /\ req' \in [Callers -> 0..count']
      <3>1. token \in [Callers -> 0..count'] /\ req \in [Callers -> 0..count'] /\ count + 1 \in 0..count'
        BY <1>1 DEF TypeOK
      <3> QED BY <1>1, <1>2, <3>1
    <2>2. sent' \subseteq Commands
      BY <1>1, <1>2 DEF TypeOK, Commands
    <2>3. start' \in [Callers -> 0..now'] /\ votes' \in [Callers -> SUBSET Nodes]
      BY <1>0, <1>1 DEF TypeOK
    <2> QED BY <1>0, <1>1, <1>3, <2>1, <2>2, <2>3 DEF TypeOK
  <1>5. Numbers'
    <2>1. \A m \in sent' : m.token <= count' /\ m.req <= count'
      BY <1>1, <1>2 DEF Numbers, TypeOK, Commands
    <2>2. \A d \in Callers : pc'[d] # "idle" => req'[d] # 0
      BY <1>0, <1>1 DEF Numbers, TypeOK
    <2>3. \A d \in Callers \ {c} : pc[d] # "idle" => token[d] # t
      BY <1>1, <1>2 DEF Numbers, TypeOK
    <2>4. \A d, e \in Callers : pc'[d] # "idle" /\ pc'[e] # "idle" /\ token'[d] = token'[e] => d = e
      <3>1. token'[c] = t
        BY <1>2 DEF TypeOK
      <3>2. \A d \in Callers \ {c} : pc'[d] # "idle" => pc[d] # "idle" /\ token'[d] = token[d] /\ token'[d] # t
        BY <1>0, <2>3
      <3> QED BY <3>1, <3>2 DEF Numbers
    <2>5. \A d \in Callers, m \in sent' : pc'[d] # "idle" /\ m.req = req'[d] => m.token = token'[d]
      <3> SUFFICES ASSUME NEW d \in Callers, NEW m \in sent', pc'[d] # "idle", m.req = req'[d]
                   PROVE  m.token = token'[d]
        OBVIOUS
      <3>1. m \in sent => m.req <= count /\ m.req \in Nat
        BY DEF Numbers, TypeOK, Commands
      <3>2. CASE d = c
        BY <1>1, <1>2, <3>1, <3>2 DEF TypeOK
      <3>3. CASE d # c
        <4>1. req'[d] = req[d] /\ req[d] <= count
          BY <1>0, <3>3 DEF TypeOK
        <4>2. m \in sent
          BY <1>1, <1>2, <4>1 DEF TypeOK
        <4> QED BY <1>0, <3>3, <4>1, <4>2 DEF Numbers
      <3> QED BY <3>2, <3>3
    <2> QED BY <2>1, <2>2, <2>4, <2>5 DEF Numbers
  <1>6. NotReleased'
    <2> SUFFICES ASSUME NEW d \in Callers, NEW m \in sent', pc'[d] # "idle", m.op = "RELEASE"
                 PROVE  m.token # token'[d]
      BY DEF NotReleased
    <2>1. m \in sent /\ m.token <= count /\ m.token \in Nat
      BY <1>2 DEF Numbers, TypeOK, Commands
    <2>2. CASE d = c
      BY <1>1, <1>2, <2>1, <2>2 DEF NotReleased, TypeOK
    <2>3. CASE d # c
      BY <1>0, <2>1, <2>3 DEF NotReleased
    <2> QED BY <2>2, <2>3
  <1>7. VotesKept'
    BY <1>0, <1>1 DEF VotesKept, TypeOK, Keeps, ExpiresAt
  <1>8. LocksKept'
    <2> SUFFICES ASSUME NEW d \in Callers, pc'[d] \in {"held", "extending"}
                 PROVE  /\ until[d] <= now + TTL - Drift
                        /\ \E Q \in Majorities : \A n \in Q : Keeps(n, token'[d], until[d])
      BY <1>0 DEF LocksKept, Keeps, Majorities, Quorum
    <2>1. pc[d] \in {"held", "extending"} /\ token'[d] = token[d]
      BY <1>0, <1>2, <1>3 DEF TypeOK
    <2> QED BY <2>1 DEF LocksKept
  <1> QED BY <1>4, <1>5, <1>6, <1>7, <1>8

\* Granted votes become a lock; a refused extension changes nothing.
LEMMA GrantStep ==
  ASSUME IInv, NEW c \in Callers, AcquireSucceeds(c) \/ ExtendEnds(c)
  PROVE  IInv'
  <1> USE RedlockAssumption DEF IInv
  <1>1. /\ UNCHANGED <<now, node, sent, count, token, req, start, votes>>
        /\ pc[c] \in {"acquiring", "extending"} /\ pc' = [pc EXCEPT ![c] = "held"]
    BY DEF AcquireSucceeds, ExtendEnds, waiting
  <1>2. \/ Granted(c) /\ until' = [until EXCEPT ![c] = ExpiresAt(c)]
        \/ pc[c] = "extending" /\ UNCHANGED until
    BY DEF AcquireSucceeds, ExtendEnds, TypeOK
  <1>3. ExpiresAt(c) \in Nat /\ ExpiresAt(c) <= now + TTL - Drift
    BY DEF TypeOK, ExpiresAt
  <1>4. TypeOK'
    <2>1. until' \in [Callers -> Nat]
      BY <1>2, <1>3 DEF TypeOK
    <2> QED BY <1>1, <2>1 DEF TypeOK
  <1>5. Numbers' /\ NotReleased'
    BY <1>1 DEF Numbers, NotReleased, TypeOK
  <1>6. VotesKept'
    BY <1>1 DEF VotesKept, TypeOK, Keeps, ExpiresAt
  <1>7. LocksKept'
    <2> SUFFICES ASSUME NEW d \in Callers, pc'[d] \in {"held", "extending"}
                 PROVE  /\ until'[d] <= now + TTL - Drift
                        /\ \E Q \in Majorities : \A n \in Q : Keeps(n, token[d], until'[d])
      BY <1>1 DEF LocksKept, Keeps, Majorities, Quorum
    <2>1. CASE until'[d] = until[d] /\ pc[d] \in {"held", "extending"}
      BY <2>1 DEF LocksKept
    <2>2. CASE d = c /\ Granted(c) /\ until'[d] = ExpiresAt(c)
      <3>1. votes[c] \in Majorities
        BY <2>2 DEF Granted, Majorities, TypeOK
      <3>2. \A n \in votes[c] : Keeps(n, token[c], ExpiresAt(c))
        BY <1>1 DEF VotesKept
      <3> QED BY <1>3, <2>2, <3>1, <3>2
    <2> QED BY <1>1, <1>2, <2>1, <2>2 DEF TypeOK
  <1> QED BY <1>4, <1>5, <1>6, <1>7

\* A caller that gives up its token, whether or not it says so to the nodes.
LEMMA GiveUpStep ==
  ASSUME IInv, NEW c \in Callers, AcquireFails(c) \/ Release(c) \/ Crash(c)
  PROVE  IInv'
  <1> USE RedlockAssumption DEF IInv
  <1>1. /\ UNCHANGED <<now, node, count>> /\ pc[c] # "idle"
        /\ pc' = [pc EXCEPT ![c] = "idle"] /\ token' = [token EXCEPT ![c] = 0]
        /\ req' = [req EXCEPT ![c] = 0] /\ start' = [start EXCEPT ![c] = 0]
        /\ votes' = [votes EXCEPT ![c] = {}] /\ until' = [until EXCEPT ![c] = 0]
    BY DEF AcquireFails, Release, Crash, SendRelease
  <1>2. sent' \in {sent, sent \union {[op |-> "RELEASE", token |-> token[c], req |-> 0]}}
    BY DEF AcquireFails, Release, Crash, SendRelease
  <1>3. token[c] \in Nat /\ token[c] <= count /\ count \in Nat /\ now \in Nat
    BY DEF TypeOK
  <1>4. TypeOK'
    <2>1. sent' \subseteq Commands
      BY <1>2, <1>3 DEF TypeOK, Commands
    <2>2. token' \in [Callers -> 0..count'] /\ req' \in [Callers -> 0..count']
      BY <1>1, <1>3 DEF TypeOK
    <2>3. start' \in [Callers -> 0..now'] /\ until' \in [Callers -> Nat] /\ votes' \in [Callers -> SUBSET Nodes]
      BY <1>1, <1>3 DEF TypeOK
    <2> QED BY <1>1, <2>1, <2>2, <2>3 DEF TypeOK
  <1>5. Numbers'
    <2>1. \A m \in sent' : m.token <= count /\ m.req <= count
      BY <1>2, <1>3 DEF Numbers
    <2>2. \A m \in sent' : m.req # 0 => m \in sent
      BY <1>2
    <2> QED BY <1>1, <2>1, <2>2 DEF Numbers, TypeOK
  <1>6. NotReleased'
    <2>1. \A d \in Callers \ {c} : pc[d] # "idle" => token[d] # token[c]
      BY <1>1 DEF Numbers
    <2> QED BY <1>1, <1>2, <2>1 DEF NotReleased, TypeOK
  <1>7. VotesKept'
    BY <1>1 DEF VotesKept, TypeOK, Keeps, ExpiresAt
  <1>8. LocksKept'
    <2> SUFFICES ASSUME NEW d \in Callers, pc'[d] \in {"held", "extending"}
                 PROVE  /\ until'[d] <= now + TTL - Drift
                        /\ \E Q \in Majorities : \A n \in Q : Keeps(n, token'[d], until'[d])
      BY <1>1 DEF LocksKept, Keeps, Majorities, Quorum
    <2>1. d # c /\ pc[d] \in {"held", "extending"} /\ token'[d] = token[d] /\ until'[d] = until[d]
      BY <1>1 DEF TypeOK
    <2> QED BY <2>1 DEF LocksKept
  <1> QED BY <1>4, <1>5, <1>6, <1>7, <1>8

LEMMA NextIInv == IInv /\ [Next]_vars => IInv'
  <1> SUFFICES ASSUME IInv, [Next]_vars PROVE IInv'
    OBVIOUS
  <1>1. CASE UNCHANGED vars
    BY <1>1 DEF vars, waiting, IInv, TypeOK, Numbers, NotReleased, VotesKept, LocksKept, Majorities,
                Keeps, ExpiresAt, Quorum
  <1>2. CASE Next
    BY <1>2, NetworkStep, SendStep, GrantStep, GiveUpStep DEF Next, Caller
  <1> QED BY <1>1, <1>2

LEMMA Invariance == Spec => []IInv
  BY InitIInv, NextIInv, PTL DEF Spec

-----------------------------------------------------------------------------
\* Two majorities share a node, and the node stores one token.
LEMMA ValidIsUnique == IInv => AtMostOneValid
  <1> SUFFICES ASSUME IInv, NEW c \in Callers, NEW d \in Callers, Valid(c), Valid(d) PROVE c = d
    BY DEF AtMostOneValid
  <1> USE RedlockAssumption DEF IInv
  <1>1. PICK P \in Majorities : \A n \in P : Keeps(n, token[c], until[c])
    BY DEF Valid, LocksKept
  <1>2. PICK Q \in Majorities : \A n \in Q : Keeps(n, token[d], until[d])
    BY DEF Valid, LocksKept
  <1>3. P \cap Q # {}
    <2>1. P \subseteq Nodes /\ Q \subseteq Nodes /\ IsFiniteSet(Nodes)
      BY DEF Majorities
    <2>2. Cardinality(Nodes) \in Nat /\ Cardinality(P) \in Nat /\ Cardinality(Q) \in Nat
      BY <2>1, FS_CardinalityType, FS_Subset
    <2>3. Cardinality(P) + Cardinality(Q) > Cardinality(Nodes)
      BY <2>2 DEF Majorities, Quorum
    <2> QED BY <2>1, <2>3, FS_MajoritiesIntersect
  <1>4. PICK n \in P \cap Q : TRUE
    BY <1>3
  <1>5. now \in Nat /\ until[c] \in Nat /\ until[d] \in Nat
    BY DEF TypeOK
  <1>6. node[n].token = token[c] /\ node[n].token = token[d]
    BY <1>1, <1>2, <1>4, <1>5 DEF Valid, Keeps
  <1> QED BY <1>6 DEF Numbers, Valid

\* Mutual exclusion (acquire, extend, release of RedlockManager and Lock).
THEOREM MutualExclusion == Spec => []AtMostOneValid
  BY Invariance, ValidIsUnique, PTL

\* A valid lock is on a majority of the nodes (acquire, extend, RELEASE_SCRIPT).
THEOREM ValidLocksAreBacked == Spec => []ValidLockHasQuorum
  <1>1. ASSUME IInv PROVE ValidLockHasQuorum
    <2> SUFFICES ASSUME NEW c \in Callers, Valid(c)
                 PROVE  Cardinality({n \in Nodes : Present(n) /\ node[n].token = token[c]}) >= Quorum
      BY DEF ValidLockHasQuorum
    <2> DEFINE Holding == {n \in Nodes : Present(n) /\ node[n].token = token[c]}
    <2>1. PICK Q \in Majorities : \A n \in Q : Keeps(n, token[c], until[c])
      BY <1>1 DEF Valid, LocksKept, IInv
    <2>2. Q \subseteq Holding
      <3>1. now \in Nat /\ until[c] \in Nat /\ node \in [Nodes -> [token : Nat, exp : Nat]]
        BY <1>1 DEF TypeOK, IInv
      <3> QED BY <2>1, <3>1 DEF Majorities, Keeps, Present, Valid
    <2>3. IsFiniteSet(Nodes) /\ Holding \subseteq Nodes
      BY RedlockAssumption
    <2>4. IsFiniteSet(Holding)
      BY <2>3, FS_Subset
    <2>5. Cardinality(Q) <= Cardinality(Holding) /\ Cardinality(Q) \in Nat /\ Cardinality(Holding) \in Nat
      BY <2>2, <2>4, FS_Subset, FS_CardinalityType
    <2>6. Cardinality(Nodes) \in Nat
      BY <2>3, FS_CardinalityType
    <2>7. Cardinality(Q) >= Quorum /\ Quorum \in Nat
      BY <2>6 DEF Majorities, Quorum
    <2> HIDE DEF Holding
    <2>8. Cardinality(Holding) >= Quorum
      BY <2>5, <2>7
    <2> QED BY <2>8 DEF Holding
  <1> QED BY <1>1, Invariance, PTL

-----------------------------------------------------------------------------
\* Owner names the valid lock, if there is one.
LEMMA OwnerIsValid ==
  AtMostOneValid => /\ \A c \in Callers : Owner = c <=> Valid(c)
                    /\ Owner \in Callers \union {None}
  <1> SUFFICES ASSUME AtMostOneValid
               PROVE  (\A c \in Callers : Owner = c <=> Valid(c)) /\ Owner \in Callers \union {None}
    OBVIOUS
  <1>1. CASE \E c \in Callers : Valid(c)
    <2>1. Owner \in Callers /\ Valid(Owner)
      BY <1>1 DEF Owner
    <2> QED BY <2>1 DEF AtMostOneValid
  <1>2. CASE ~\E c \in Callers : Valid(c)
    BY <1>2, RedlockAssumption DEF Owner
  <1> QED BY <1>1, <1>2

\* A lock becomes valid only by a step of its own caller, which leaves the
\* validity of the others alone.
LEMMA ValidityStep ==
  ASSUME IInv, [Next]_vars, NEW c \in Callers, NEW d \in Callers, c # d, ~Valid(c), Valid(c)', Valid(d)
  PROVE  Valid(d)'
  <1>1. CASE UNCHANGED vars
    BY <1>1 DEF vars, waiting, Valid
  <1>2. CASE Tick \/ \E m \in sent, n \in Nodes : Network(m, n)
    <2>1. UNCHANGED <<pc, until>> /\ now \in Nat /\ now' \in Nat /\ now <= now' /\ until[c] \in Nat
      BY <1>2 DEF Tick, Network, DeliverSet, DeliverExtend, DeliverRelease, IInv, TypeOK
    <2> QED BY <2>1 DEF Valid
  <1>3. ASSUME NEW e \in Callers, Caller(e) PROVE Valid(d)'
    <2>1. /\ now' = now
          /\ \A x \in Callers \ {e} : pc'[x] = pc[x] /\ until'[x] = until[x]
      BY <1>3, OthersUntouched
    <2> QED BY <2>1 DEF Valid
  <1> QED BY <1>1, <1>2, <1>3 DEF Next

\* Redlock implements the abstract lock.
THEOREM Refinement == Spec => ImplementsMutex
  <1>1. Init => Abstract!Init
    BY DEF Init, Abstract!Init, Owner, Valid
  <1>2. ASSUME IInv, IInv', [Next]_vars PROVE [Abstract!Next]_Owner
    <2>1. AtMostOneValid /\ AtMostOneValid'
      BY <1>2, ValidIsUnique, PTL
    <2>2. (\A c \in Callers : Owner = c <=> Valid(c)) /\ Owner \in Callers \union {None}
      BY <2>1, OwnerIsValid
    <2>3. (\A c \in Callers : Owner' = c <=> Valid(c)') /\ Owner' \in Callers \union {None}
      <3>1. (AtMostOneValid => /\ \A c \in Callers : Owner = c <=> Valid(c)
                               /\ Owner \in Callers \union {None})'
        BY OwnerIsValid, PTL
      <3> QED BY <2>1, <3>1
    <2>4. CASE Owner \in Callers /\ Owner' \in Callers /\ Owner' # Owner
      <3>1. PICK c \in Callers, d \in Callers : d = Owner /\ c = Owner'
        BY <2>4
      <3>2. c # d /\ ~Valid(c) /\ Valid(c)' /\ Valid(d)
        BY <2>2, <2>3, <2>4, <3>1
      <3>3. Valid(d)'
        BY <1>2, <3>2, ValidityStep
      <3> QED BY <2>3, <3>1, <3>2, <3>3
    <2> QED BY <2>2, <2>3, <2>4 DEF Abstract!Next, Abstract!Acquire, Abstract!Lose
  <1> QED BY <1>1, <1>2, Invariance, PTL DEF Spec, ImplementsMutex, Abstract!Spec
=============================================================================
