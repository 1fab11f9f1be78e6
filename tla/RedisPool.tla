------------------------------ MODULE RedisPool ------------------------------
(***************************************************************************)
(* apps/redis/accel_module.c: accel.async hands a blocked client to a pool *)
(* of workers through a ring protected by qmx with the condition variable  *)
(* qcv; accel.sync runs the offload on the event loop.                     *)
(***************************************************************************)
EXTENDS Naturals, FiniteSets

CONSTANTS
    RpClient,   \* clients
    RpWorker,   \* threads of the pool
    RpQN,       \* QN, size of the ring
    RpMaxCmd    \* bound: commands over the run

ASSUME RpAssumption ==
    /\ IsFiniteSet(RpClient) /\ IsFiniteSet(RpWorker)
    /\ RpClient \cap {"awake", "asleep", "empty"} = {}
    /\ RpQN \in Nat \ {0} /\ Cardinality(RpClient) <= RpQN

VARIABLES
    rpAt,            \* idle, blocked or (accel.sync) on the event loop
    rpRing, rpHead, rpTail,    \* q, qhead, qtail
    rpWork,          \* what each worker does: awake, asleep on qcv, or its job
    rpReady,         \* clients unblocked, reply pending (kept by Redis)
    rpCmds

rpVars == <<rpAt, rpRing, rpHead, rpTail, rpWork, rpReady, rpCmds>>

RpInit ==
    /\ rpAt = [c \in RpClient |-> "idle"]
    /\ rpRing = [i \in 0..(RpQN - 1) |-> "empty"]
    /\ rpHead = 0 /\ rpTail = 0 /\ rpCmds = 0
    /\ rpWork = [w \in RpWorker |-> "awake"]
    /\ rpReady = {}

RpAsleep == {w \in RpWorker : rpWork[w] = "asleep"}
RpQueued == {rpRing[i % RpQN] : i \in rpTail..(rpHead - 1)}
RpLoopFree == \A c \in RpClient : rpAt[c] # "sync"

\* Mutant: qcv is signalled only when the ring was empty.
RpSignalFirst(w) == IF rpHead = rpTail THEN [rpWork EXCEPT ![w] = "awake"] ELSE rpWork

\* pthread_cond_signal(): one sleeper, if any, wakes up.
RpSignal(w) == [rpWork EXCEPT ![w] = "awake"]

\* cmd_async().
RpAsync(c) ==
    /\ RpLoopFree /\ rpAt[c] = "idle" /\ rpCmds < RpMaxCmd
    /\ rpAt' = [rpAt EXCEPT ![c] = "blocked"]
    /\ rpRing' = [rpRing EXCEPT ![rpHead % RpQN] = c]
    /\ rpHead' = rpHead + 1 /\ rpCmds' = rpCmds + 1
    /\ IF RpAsleep = {} THEN rpWork' = rpWork
                        ELSE \E w \in RpAsleep : rpWork' = RpSignal(w)
    /\ UNCHANGED <<rpTail, rpReady>>

\* cmd_sync(): the event loop stalls until the offload is over.
RpSync(c) ==
    /\ RpLoopFree /\ rpAt[c] = "idle" /\ rpCmds < RpMaxCmd
    /\ rpAt' = [rpAt EXCEPT ![c] = "sync"] /\ rpCmds' = rpCmds + 1
    /\ UNCHANGED <<rpRing, rpHead, rpTail, rpWork, rpReady>>

RpSyncEnd(c) ==
    /\ rpAt[c] = "sync"
    /\ rpAt' = [rpAt EXCEPT ![c] = "idle"]
    /\ UNCHANGED <<rpRing, rpHead, rpTail, rpWork, rpReady, rpCmds>>

\* worker(), under qmx: sleep when the ring is empty, or take the next job.
RpTake(w) ==
    /\ rpWork[w] = "awake"
    /\ IF rpHead = rpTail
       THEN rpWork' = [rpWork EXCEPT ![w] = "asleep"] /\ rpTail' = rpTail
       ELSE /\ rpWork' = [rpWork EXCEPT ![w] = rpRing[rpTail % RpQN]]
            /\ rpTail' = rpTail + 1
    /\ UNCHANGED <<rpAt, rpRing, rpHead, rpReady, rpCmds>>

\* The offload is over: UnblockClient.
RpUnblock(w) ==
    /\ rpWork[w] \in RpClient
    /\ rpReady' = rpReady \cup {rpWork[w]}
    /\ rpWork' = [rpWork EXCEPT ![w] = "awake"]
    /\ UNCHANGED <<rpAt, rpRing, rpHead, rpTail, rpCmds>>

\* reply_cb().  The timeout is 0, so timeout_cb() is never called.
RpReply(c) ==
    /\ RpLoopFree /\ c \in rpReady
    /\ rpReady' = rpReady \ {c}
    /\ rpAt' = [rpAt EXCEPT ![c] = "idle"]
    /\ UNCHANGED <<rpRing, rpHead, rpTail, rpWork, rpCmds>>

RpServe ==
    \/ \E c \in RpClient : RpSyncEnd(c) \/ RpReply(c)
    \/ \E w \in RpWorker : RpTake(w) \/ RpUnblock(w)

RpNext == RpServe \/ \E c \in RpClient : RpAsync(c) \/ RpSync(c)

RpSpec == RpInit /\ [][RpNext]_rpVars

-----------------------------------------------------------------------------
\* Each blocked client is in exactly one place: in the ring once, in the hands
\* of one worker, or among the clients to reply to.
RpOnePlace ==
    \A c \in RpClient :
        Cardinality({i \in rpTail..(rpHead - 1) : rpRing[i % RpQN] = c})
        + Cardinality({w \in RpWorker : rpWork[w] = c})
        + (IF c \in rpReady THEN 1 ELSE 0)
        = IF rpAt[c] = "blocked" THEN 1 ELSE 0

\* No lost wake-up: a worker sleeps only while enough others are awake and
\* free to take everything that is in the ring.
RpNoIdleSleeper ==
    RpAsleep # {} =>
        rpHead - rpTail <= Cardinality({w \in RpWorker : rpWork[w] = "awake"})

\* The pool neither loses, repeats nor sits on a blocked client.
RpServed == RpOnePlace /\ RpNoIdleSleeper
=============================================================================
