------------------------------ MODULE OpenLoop ------------------------------
(***************************************************************************)
(* runtime/openloop.c up to the end of its run: a producer injects         *)
(* arrivals into a ring; a dispatcher with a pool of fibers (coro) or a    *)
(* set of threads (block) serves them.  The device reports completions to  *)
(* the dispatcher through a second ring, so that there is no scan for      *)
(* them.  Arrival times and device latency are arbitrary.                  *)
(***************************************************************************)
EXTENDS Naturals, Sequences, FiniteSets

CONSTANTS
    OlPool,      \* POOL (coro) or NTHREAD (block): tasks 1..OlPool
    OlRING,      \* RING
    OlCQN,       \* CQN
    OlArrivals   \* bound: arrivals over the run

ASSUME OlAssumption ==
    /\ {OlPool, OlRING, OlCQN} \subseteq Nat \ {0} /\ OlCQN >= OlPool
    /\ OlArrivals \in Nat

VARIABLES
    olMode,
    olSeen, olDropped,   \* arrivals so far; the ones that found the ring full
    olRing,      \* ring from r_tail to r_head
    olTask,      \* each fiber or thread: state, place, arrival
    olFree, olReady, olBatch,  \* freelist, ready, and what is left of this pass
    olSlot, olDev,       \* slots; the slot the device is reporting
    olComp, olHead, olTail,    \* comp_ring
    olAt,        \* the dispatcher's phase
    olCompleted  \* how often each arrival was recorded

olVars == <<olMode, olSeen, olDropped, olRing, olTask, olFree, olReady, olBatch, olSlot, olDev,
            olComp, olHead, olTail, olAt, olCompleted>>

OlTasks == 1..OlPool

OlInit ==
    /\ olMode \in {"coro", "block"}
    /\ olSeen = 0 /\ olDropped = {} /\ olRing = <<>>
    /\ olTask = [i \in OlTasks |-> [st |-> "FREE", pc |-> "pre", arr |-> 0]]
    /\ olFree = [i \in OlTasks |-> i] /\ olReady = <<>> /\ olBatch = <<>>
    /\ olSlot = [i \in OlTasks |-> [active |-> FALSE, done |-> FALSE]] /\ olDev = 0
    /\ olComp = [i \in 0..(OlCQN - 1) |-> 1] /\ olHead = 0 /\ olTail = 0
    /\ olAt = "assign" /\ olCompleted = [a \in 1..OlArrivals |-> 0]

-----------------------------------------------------------------------------
\* producer(): an arrival, dropped when the ring is full.
OlArrive ==
    /\ olSeen < OlArrivals
    /\ olSeen' = olSeen + 1
    /\ IF Len(olRing) < OlRING
       THEN olRing' = Append(olRing, olSeen + 1) /\ olDropped' = olDropped
       ELSE olRing' = olRing /\ olDropped' = olDropped \cup {olSeen + 1}
    /\ UNCHANGED <<olMode, olTask, olFree, olReady, olBatch, olSlot, olDev, olComp, olHead, olTail, olAt, olCompleted>>

\* Mutant: a request that is done is not passed over.
OlDevDoneAgain(i) ==
    /\ olDev = 0 /\ olSlot[i].active
    /\ olSlot' = [olSlot EXCEPT ![i].done = TRUE]
    /\ olDev' = i
    /\ UNCHANGED <<olMode, olSeen, olDropped, olRing, olTask, olFree, olReady, olBatch, olComp, olHead, olTail,
                   olAt, olCompleted>>

\* device_fn(): a request is over ...  The latency is arbitrary, so that it adds
\* nothing to take the loads of active and done apart: done=0 is read only after
\* the submit of this request has begun, and no one else sets it.
OlDevDone(i) ==
    /\ olDev = 0 /\ olSlot[i].active /\ ~olSlot[i].done
    /\ olSlot' = [olSlot EXCEPT ![i].done = TRUE]
    /\ olDev' = i
    /\ UNCHANGED <<olMode, olSeen, olDropped, olRing, olTask, olFree, olReady, olBatch, olComp, olHead, olTail,
                   olAt, olCompleted>>

\* ... and is reported: the entry first, then comp_head.
OlDevPush ==
    /\ olDev # 0
    /\ olComp' = [olComp EXCEPT ![olHead % OlCQN] = olDev]
    /\ olHead' = olHead + 1 /\ olDev' = 0
    /\ UNCHANGED <<olMode, olSeen, olDropped, olRing, olTask, olFree, olReady, olBatch, olSlot, olTail,
                   olAt, olCompleted>>

-----------------------------------------------------------------------------
(* srv_coro() *)

\* Give arrivals to free fibers.
OlAssign ==
    /\ olMode = "coro" /\ olAt = "assign"
    /\ IF olRing # <<>> /\ olFree # <<>>
       THEN LET id == olFree[Len(olFree)]
            IN  /\ olFree' = SubSeq(olFree, 1, Len(olFree) - 1)
                /\ olRing' = Tail(olRing)
                /\ olTask' = [olTask EXCEPT ![id].arr = Head(olRing), ![id].st = "READY"]
                /\ olReady' = Append(olReady, id) /\ olAt' = olAt
       ELSE olAt' = "drain" /\ UNCHANGED <<olFree, olRing, olTask, olReady>>
    /\ UNCHANGED <<olMode, olSeen, olDropped, olBatch, olSlot, olDev, olComp, olHead, olTail, olCompleted>>

\* Take in the completions, then start a pass over the ready fibers.
OlDrain ==
    /\ olMode = "coro" /\ olAt = "drain"
    /\ IF olTail < olHead
       THEN LET id == olComp[olTail % OlCQN]
                parked == olTask[id].st = "WAIT_OFF"
            IN  /\ olTail' = olTail + 1
                /\ olTask' = IF parked THEN [olTask EXCEPT ![id].st = "READY"] ELSE olTask
                /\ olSlot' = IF parked THEN [olSlot EXCEPT ![id].active = FALSE] ELSE olSlot
                /\ olReady' = IF parked THEN Append(olReady, id) ELSE olReady
                /\ UNCHANGED <<olAt, olBatch>>
       ELSE /\ olAt' = "run" /\ olBatch' = olReady /\ olReady' = <<>>
            /\ UNCHANGED <<olTail, olTask, olSlot>>
    /\ UNCHANGED <<olMode, olSeen, olDropped, olRing, olFree, olDev, olComp, olHead, olCompleted>>

\* Submit: done, deadline, then active.
OlSubmitted(i) == [olSlot EXCEPT ![i] = [active |-> TRUE, done |-> FALSE]]

\* task_body() up to its next switch: the offload, or record() and free self.
OlStep(i) ==
    IF olTask[i].pc = "pre"
    THEN /\ olSlot' = OlSubmitted(i)
         /\ olTask' = [olTask EXCEPT ![i].st = "WAIT_OFF", ![i].pc = "post"]
         /\ UNCHANGED <<olFree, olCompleted>>
    ELSE /\ olCompleted' = [olCompleted EXCEPT ![olTask[i].arr] = @ + 1]
         /\ olTask' = [olTask EXCEPT ![i] = [st |-> "FREE", pc |-> "pre", arr |-> 0]]
         /\ olFree' = Append(olFree, i)
         /\ UNCHANGED olSlot

\* Run each ready fiber one step.
OlRun ==
    /\ olMode = "coro" /\ olAt = "run"
    /\ IF olBatch = <<>>
       THEN olAt' = "assign" /\ UNCHANGED <<olBatch, olTask, olFree, olSlot, olCompleted>>
       ELSE /\ olBatch' = Tail(olBatch) /\ olAt' = olAt
            /\ IF olTask[Head(olBatch)].st = "READY" THEN OlStep(Head(olBatch))
               ELSE UNCHANGED <<olTask, olFree, olSlot, olCompleted>>
    /\ UNCHANGED <<olMode, olSeen, olDropped, olRing, olReady, olDev, olComp, olHead, olTail>>

-----------------------------------------------------------------------------
(* block_worker() *)

\* Mutant: another thread's increment of r_tail is lost.
OlPopRacy(i) ==
    /\ olMode = "block" /\ olTask[i].st = "FREE" /\ olRing # <<>>
    /\ olTask' = [olTask EXCEPT ![i] = [st |-> "WAIT_OFF", pc |-> "post", arr |-> Head(olRing)]]
    /\ olSlot' = OlSubmitted(i)
    /\ UNCHANGED <<olMode, olSeen, olDropped, olRing, olFree, olReady, olBatch, olDev, olComp, olHead, olTail,
                   olAt, olCompleted>>

\* Pop an arrival under qmx and submit it.
OlPop(i) ==
    /\ olMode = "block" /\ olTask[i].st = "FREE" /\ olRing # <<>>
    /\ olTask' = [olTask EXCEPT ![i] = [st |-> "WAIT_OFF", pc |-> "post", arr |-> Head(olRing)]]
    /\ olRing' = Tail(olRing)
    /\ olSlot' = OlSubmitted(i)
    /\ UNCHANGED <<olMode, olSeen, olDropped, olFree, olReady, olBatch, olDev, olComp, olHead, olTail, olAt, olCompleted>>

\* Sleep until the offload is done, then record.
OlWake(i) ==
    /\ olMode = "block" /\ olTask[i].st = "WAIT_OFF" /\ olSlot[i].done
    /\ olSlot' = [olSlot EXCEPT ![i].active = FALSE]
    /\ olCompleted' = [olCompleted EXCEPT ![olTask[i].arr] = @ + 1]
    /\ olTask' = [olTask EXCEPT ![i] = [st |-> "FREE", pc |-> "pre", arr |-> 0]]
    /\ UNCHANGED <<olMode, olSeen, olDropped, olRing, olFree, olReady, olBatch, olDev, olComp, olHead, olTail, olAt>>

OlServe == OlAssign \/ OlDrain \/ OlRun
OlDevice == OlDevPush \/ \E i \in OlTasks : OlDevDone(i)
OlWorker(i) == OlPop(i) \/ OlWake(i)

OlNext == OlArrive \/ OlServe \/ OlDevice \/ \E i \in OlTasks : OlWorker(i)

OlSpec == OlInit /\ [][OlNext]_olVars

-----------------------------------------------------------------------------
\* Every arrival is in exactly one place: dropped, in the ring, in the hands
\* of one fiber or thread, or recorded once; and a fiber is free, ready or
\* parked, never on two lists.
OlOnePlace ==
    LET in(q, x) == Cardinality({k \in 1..Len(q) : q[k] = x})
    IN  /\ \A a \in 1..olSeen :
               in(olRing, a) + Cardinality({i \in OlTasks : olTask[i].arr = a}) + olCompleted[a]
               + (IF a \in olDropped THEN 1 ELSE 0) = 1
        /\ olMode = "coro" =>
               \A i \in OlTasks : in(olFree, i) + in(olReady, i) + in(olBatch, i)
                                  + (IF olTask[i].st = "WAIT_OFF" THEN 1 ELSE 0) = 1

\* A fiber is parked exactly while its slot is active.
OlParkedOnSlot == \A i \in OlTasks : olSlot[i].active <=> olTask[i].st = "WAIT_OFF"

\* The entries of comp_ring that the dispatcher has not taken in, and the slot of
\* each.
OlPending == olTail..(olHead - 1)
OlEntry(k) == olComp[k % OlCQN]

\* The device reports every request that it has done, once, and none before: each
\* entry the dispatcher has still to take in, and the one that the device is
\* about to write, is that of another parked fiber whose offload is done, and
\* every such fiber has one.
OlReported ==
    olMode = "coro" =>
        /\ \A k, l \in OlPending : OlEntry(k) = OlEntry(l) => k = l
        /\ \A k \in OlPending : OlEntry(k) # olDev
        /\ \A i \in OlTasks :
               olSlot[i].active /\ olSlot[i].done <=> olDev = i \/ \E k \in OlPending : OlEntry(k) = i

\* Arrivals, fibers, slots and completions are each in one state, and these
\* agree.
OlPlaces == OlOnePlace /\ OlParkedOnSlot /\ OlReported
=============================================================================
