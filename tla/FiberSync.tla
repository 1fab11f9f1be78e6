------------------------------ MODULE FiberSync ------------------------------
(***************************************************************************)
(* The fiber-aware mutex and condition variable of libtransparent.c, used  *)
(* the way thread pools and barrier_server.c use them: one mutex, one      *)
(* condition variable and a counter of work items that consumers wait for. *)
(*                                                                         *)
(* Fibers run on the carrier, one at a time, and poll the mutex with       *)
(* trylock.  Real threads block in the real mutex and run in parallel with *)
(* the carrier; their signals reach waiting fibers through pend_ring.      *)
(***************************************************************************)
EXTENDS Integers, FiniteSets

CONSTANTS
    N,           \* number of fibers, all in the table (nfib = N)
    Producers,   \* the fibers that make work; the others consume it
    Thread,      \* real threads, all of them producers
    PENDN,       \* size of pend_ring
    MaxItems,    \* work items made over the run (a bound)
    Timed,       \* consumers call pthread_cond_timedwait()
    Recursive    \* the mutex is of the recursive kind

Fiber == 1..N
Consumers == Fiber \ Producers

ASSUME SyncAssumption ==
    /\ N \in Nat /\ MaxItems \in Nat
    /\ Producers \subseteq Fiber
    /\ Thread \cap Fiber = {} /\ Thread \cap {"nobody", "carrier"} = {}
    /\ PENDN \in Nat \ {0}
    /\ Timed \in BOOLEAN /\ Recursive \in BOOLEAN

NoFib == 0
Nobody == "nobody"
Cv == "cv"
Null == "null"

VARIABLES
    owner, count,   \* the mutex as the C library keeps it: owning OS thread, depth
    holders,        \* who has returned from lock and not called unlock
    items, made,    \* work items present; work items made so far
    state,          \* F_RUN or F_WAIT_COND
    waitcond, has_deadline, timed_out,    \* struct fiber
    expired,        \* fibers whose deadline has passed
    at,             \* where each fiber is in its program
    tat, claim,     \* where each real thread is; the ring position it took
    ring, head, tail,    \* pend_ring, pend_head, pend_tail
    pc, idx, cur    \* carrier loop

mutexVars == <<owner, count, holders>>
workVars == <<items, made>>
fiberVars == <<state, waitcond, has_deadline, timed_out, expired, at>>
ringVars == <<ring, head, tail>>
loopVars == <<pc, idx, cur>>
vars == <<mutexVars, workVars, fiberVars, tat, claim, ringVars, loopVars>>

\* All fibers have the thread id of the carrier.
Tid(x) == IF x \in Fiber THEN "carrier" ELSE x

TypeOK ==
    /\ owner \in {Nobody, "carrier"} \cup Thread
    /\ count \in 0..(N + 1)
    /\ holders \subseteq Fiber \cup Thread
    /\ items \in 0..MaxItems
    /\ made \in 0..MaxItems
    /\ state \in [Fiber -> {"RUN", "WAIT_COND"}]
    /\ waitcond \in [Fiber -> {Cv, Null}]
    /\ has_deadline \in [Fiber -> BOOLEAN]
    /\ timed_out \in [Fiber -> BOOLEAN]
    /\ expired \subseteq Fiber
    /\ at \in [Fiber -> {"idle", "lock", "cs", "relock", "back", "signal", "unlock"}]
    /\ tat \in [Thread -> {"idle", "lock", "cs", "signal", "store", "unlock"}]
    /\ claim \in [Thread -> Nat]
    /\ ring \in [0..(PENDN - 1) -> {Cv, Null}]
    /\ tail \in 0..head /\ head \in 0..(MaxItems + tail)
    /\ pc \in {"ring", "deadline", "run"}
    /\ idx \in 1..(N + 1)
    /\ cur \in Fiber \cup {NoFib}

Init ==
    /\ owner = Nobody /\ count = 0 /\ holders = {}
    /\ items = 0 /\ made = 0
    /\ state = [f \in Fiber |-> "RUN"]
    /\ waitcond = [f \in Fiber |-> Null]
    /\ has_deadline = [f \in Fiber |-> FALSE]
    /\ timed_out = [f \in Fiber |-> FALSE]
    /\ expired = {}
    /\ at = [f \in Fiber |-> "idle"]
    /\ tat = [t \in Thread |-> "idle"]
    /\ claim = [t \in Thread |-> 0]
    /\ ring = [i \in 0..(PENDN - 1) |-> Null]
    /\ head = 0 /\ tail = 0
    /\ pc = "ring" /\ idx = 1 /\ cur = NoFib

-----------------------------------------------------------------------------
(***************************************************************************)
(* The mutex of the C library.                                             *)
(***************************************************************************)

\* Whether pthread_mutex_trylock() by x succeeds.
CanLock(x) == owner = Nobody \/ (Recursive /\ owner = Tid(x))

Take(x) ==
    /\ owner' = Tid(x)
    /\ count' = count + 1
    /\ holders' = holders \cup {x}

Drop(x) ==
    /\ count' = count - 1
    /\ owner' = IF count = 1 THEN Nobody ELSE owner
    /\ holders' = holders \ {x}

-----------------------------------------------------------------------------
(***************************************************************************)
(* The running fiber.                                                      *)
(***************************************************************************)

SwitchOut == cur' = NoFib /\ idx' = idx + 1 /\ pc' = pc

Go(f, where) == at' = [at EXCEPT ![f] = where]

\* The handler starts on the monitor, or parks elsewhere (in a read, or in an
\* offload while it holds the mutex) until its next slice.
Enter(f) ==
    /\ cur = f /\ at[f] = "idle"
    /\ f \in Producers => made < MaxItems
    /\ Go(f, "lock")
    /\ UNCHANGED <<mutexVars, workVars, state, waitcond, has_deadline, timed_out,
                   expired, tat, claim, ringVars, loopVars>>

Elsewhere(f) ==
    /\ cur = f /\ at[f] \in {"idle", "cs", "back"}
    /\ SwitchOut
    /\ UNCHANGED <<mutexVars, workVars, fiberVars, tat, claim, ringVars>>

\* pthread_mutex_lock() of a fiber, and the re-acquisition at the end of
\* fiber_cond_wait(): trylock succeeds ...
Lock(f) ==
    /\ cur = f /\ at[f] \in {"lock", "relock"}
    /\ CanLock(f)
    /\ Take(f)
    /\ Go(f, IF at[f] = "lock" THEN "cs" ELSE "back")
    /\ UNCHANGED <<workVars, state, waitcond, has_deadline, timed_out, expired,
                   tat, claim, ringVars, loopVars>>

\* Mutant: the waiter retries without letting the carrier run anybody else.
LockSpins(f) ==
    /\ cur = f /\ at[f] \in {"lock", "relock"}
    /\ ~CanLock(f)
    /\ UNCHANGED vars

\* ... or the fiber stays runnable and tries again on the next pass.
LockRetry(f) ==
    /\ cur = f /\ at[f] \in {"lock", "relock"}
    /\ ~CanLock(f)
    /\ SwitchOut
    /\ UNCHANGED <<mutexVars, workVars, fiberVars, tat, claim, ringVars>>

\* fiber_cond_wait(): called with the mutex by a consumer that finds no work,
\* at first and again after a wake-up that was not for it.
Wait(f) ==
    /\ cur = f /\ f \in Consumers
    /\ at[f] = "cs" \/ (at[f] = "back" /\ ~timed_out[f])
    /\ items = 0
    /\ waitcond' = [waitcond EXCEPT ![f] = Cv]
    /\ timed_out' = [timed_out EXCEPT ![f] = FALSE]
    /\ has_deadline' = [has_deadline EXCEPT ![f] = Timed]
    /\ state' = [state EXCEPT ![f] = "WAIT_COND"]
    /\ Drop(f)
    /\ Go(f, "relock")
    /\ SwitchOut
    /\ UNCHANGED <<workVars, expired, tat, claim, ringVars>>

Consume(f) ==
    /\ cur = f /\ at[f] \in {"cs", "back"} /\ f \in Consumers
    /\ items > 0
    /\ items' = items - 1
    /\ Go(f, "unlock")
    /\ UNCHANGED <<mutexVars, made, state, waitcond, has_deadline, timed_out,
                   expired, tat, claim, ringVars, loopVars>>

\* The wait returned ETIMEDOUT and there is still nothing to do.
GiveUp(f) ==
    /\ cur = f /\ at[f] = "back" /\ timed_out[f] /\ items = 0
    /\ Go(f, "unlock")
    /\ UNCHANGED <<mutexVars, workVars, state, waitcond, has_deadline, timed_out,
                   expired, tat, claim, ringVars, loopVars>>

Produce(f) ==
    /\ cur = f /\ at[f] = "cs" /\ f \in Producers
    /\ made < MaxItems
    /\ items' = items + 1 /\ made' = made + 1
    /\ Go(f, "signal")
    /\ UNCHANGED <<mutexVars, state, waitcond, has_deadline, timed_out, expired,
                   tat, claim, ringVars, loopVars>>

\* A producer that finds the bound reached has nothing to do.
NoProduce(f) ==
    /\ cur = f /\ at[f] = "cs" /\ f \in Producers
    /\ made = MaxItems
    /\ Go(f, "unlock")
    /\ UNCHANGED <<mutexVars, workVars, state, waitcond, has_deadline, timed_out,
                   expired, tat, claim, ringVars, loopVars>>

\* Mutant: only waiters in slots after the signaller's are woken.
WakeFibersAfter(c) ==
    LET W == {f \in Fiber : f > cur /\ state[f] = "WAIT_COND" /\ waitcond[f] = c}
    IN  /\ state' = [f \in Fiber |-> IF f \in W THEN "RUN" ELSE state[f]]
        /\ waitcond' = [f \in Fiber |-> IF f \in W THEN Null ELSE waitcond[f]]

\* wake_fibers(c).
WakeFibers(c) ==
    LET W == {f \in Fiber : state[f] = "WAIT_COND" /\ waitcond[f] = c}
    IN  /\ state' = [f \in Fiber |-> IF f \in W THEN "RUN" ELSE state[f]]
        /\ waitcond' = [f \in Fiber |-> IF f \in W THEN Null ELSE waitcond[f]]

\* pthread_cond_signal() or pthread_cond_broadcast() from a fiber: both wake
\* every waiting fiber at once.
Signal(f) ==
    /\ cur = f /\ at[f] = "signal"
    /\ WakeFibers(Cv)
    /\ Go(f, "unlock")
    /\ UNCHANGED <<mutexVars, workVars, has_deadline, timed_out, expired, tat,
                   claim, ringVars, loopVars>>

Unlock(f) ==
    /\ cur = f /\ at[f] = "unlock"
    /\ Drop(f)
    /\ Go(f, "idle")
    /\ UNCHANGED <<workVars, state, waitcond, has_deadline, timed_out, expired,
                   tat, claim, ringVars, loopVars>>

FiberStep(f) ==
    \/ Enter(f) \/ Elsewhere(f) \/ Lock(f) \/ LockRetry(f) \/ Wait(f)
    \/ Consume(f) \/ GiveUp(f) \/ Produce(f) \/ NoProduce(f) \/ Signal(f)
    \/ Unlock(f)

-----------------------------------------------------------------------------
(***************************************************************************)
(* The carrier loop: drain pend_ring, expire deadlines, run.               *)
(***************************************************************************)

\* One iteration of the drain loop; the slot is read as it is.
Drain ==
    /\ pc = "ring" /\ tail < head
    /\ WakeFibers(ring[tail % PENDN])
    /\ tail' = tail + 1
    /\ UNCHANGED <<mutexVars, workVars, has_deadline, timed_out, expired, at, tat,
                   claim, ring, head, loopVars>>

DrainEnd ==
    /\ pc = "ring" /\ tail >= head
    /\ pc' = "deadline"
    /\ UNCHANGED <<mutexVars, workVars, fiberVars, tat, claim, ringVars, idx, cur>>

\* Mutant: a timed-out waiter keeps its waitcond.
DeadlineKeepsCond ==
    /\ pc = "deadline"
    /\ LET L == {f \in Fiber : state[f] = "WAIT_COND" /\ has_deadline[f] /\ f \in expired}
       IN  /\ timed_out' = [f \in Fiber |-> timed_out[f] \/ f \in L]
           /\ state' = [f \in Fiber |-> IF f \in L THEN "RUN" ELSE state[f]]
    /\ pc' = "run" /\ idx' = 1
    /\ UNCHANGED <<mutexVars, workVars, waitcond, has_deadline, expired, at, tat,
                   claim, ringVars, cur>>

DeadlineScan ==
    /\ pc = "deadline"
    /\ LET L == {f \in Fiber : state[f] = "WAIT_COND" /\ has_deadline[f] /\ f \in expired}
       IN  /\ timed_out' = [f \in Fiber |-> timed_out[f] \/ f \in L]
           /\ state' = [f \in Fiber |-> IF f \in L THEN "RUN" ELSE state[f]]
           /\ waitcond' = [f \in Fiber |-> IF f \in L THEN Null ELSE waitcond[f]]
    /\ pc' = "run" /\ idx' = 1
    /\ UNCHANGED <<mutexVars, workVars, has_deadline, expired, at, tat, claim,
                   ringVars, cur>>

\* Switching to a fiber that was parked in fiber_cond_wait() clears its
\* deadline before the mutex is taken again.
Dispatch ==
    /\ pc = "run" /\ cur = NoFib /\ idx <= N
    /\ state[idx] = "RUN"
    /\ cur' = idx
    /\ has_deadline' = [has_deadline EXCEPT ![idx] = FALSE]
    /\ expired' = expired \ {idx}
    /\ UNCHANGED <<mutexVars, workVars, state, waitcond, timed_out, at, tat,
                   claim, ringVars, pc, idx>>

Skip ==
    /\ pc = "run" /\ cur = NoFib /\ idx <= N
    /\ state[idx] # "RUN"
    /\ idx' = idx + 1
    /\ UNCHANGED <<mutexVars, workVars, fiberVars, tat, claim, ringVars, pc, cur>>

EndPass ==
    /\ pc = "run" /\ cur = NoFib /\ idx > N
    /\ pc' = "ring" /\ idx' = 1
    /\ UNCHANGED <<mutexVars, workVars, fiberVars, tat, claim, ringVars, cur>>

CarrierStep == Drain \/ DrainEnd \/ DeadlineScan \/ Dispatch \/ Skip \/ EndPass

-----------------------------------------------------------------------------
(***************************************************************************)
(* Real threads: the same monitor through the real mutex.                  *)
(***************************************************************************)

TGo(t, where) == tat' = [tat EXCEPT ![t] = where]

TEnter(t) ==
    /\ tat[t] = "idle" /\ made < MaxItems
    /\ TGo(t, "lock")
    /\ UNCHANGED <<mutexVars, workVars, fiberVars, claim, ringVars, loopVars>>

\* real_mutex_lock() blocks until the mutex is free.
TLock(t) ==
    /\ tat[t] = "lock" /\ CanLock(t)
    /\ Take(t)
    /\ TGo(t, "cs")
    /\ UNCHANGED <<workVars, fiberVars, claim, ringVars, loopVars>>

TProduce(t) ==
    /\ tat[t] = "cs" /\ made < MaxItems
    /\ items' = items + 1 /\ made' = made + 1
    /\ TGo(t, "signal")
    /\ UNCHANGED <<mutexVars, fiberVars, claim, ringVars, loopVars>>

TNoProduce(t) ==
    /\ tat[t] = "cs" /\ made = MaxItems
    /\ TGo(t, "unlock")
    /\ UNCHANGED <<mutexVars, workVars, fiberVars, claim, ringVars, loopVars>>

\* pthread_cond_signal() from a real thread takes a ring position ...
TClaim(t) ==
    /\ tat[t] = "signal" /\ N > 0
    /\ claim' = [claim EXCEPT ![t] = head]
    /\ head' = head + 1
    /\ TGo(t, "store")
    /\ UNCHANGED <<mutexVars, workVars, fiberVars, ring, tail, loopVars>>

\* ... and only then stores the condition variable there.
TStore(t) ==
    /\ tat[t] = "store"
    /\ ring' = [ring EXCEPT ![claim[t] % PENDN] = Cv]
    /\ TGo(t, "unlock")
    /\ UNCHANGED <<mutexVars, workVars, fiberVars, claim, head, tail, loopVars>>

TUnlock(t) ==
    /\ tat[t] = "unlock"
    /\ Drop(t)
    /\ TGo(t, "idle")
    /\ UNCHANGED <<workVars, fiberVars, claim, ringVars, loopVars>>

ThreadStep(t) ==
    \/ TEnter(t) \/ TLock(t) \/ TProduce(t) \/ TNoProduce(t) \/ TClaim(t)
    \/ TStore(t) \/ TUnlock(t)

Expire(f) ==
    /\ state[f] = "WAIT_COND" /\ has_deadline[f] /\ f \notin expired
    /\ expired' = expired \cup {f}
    /\ UNCHANGED <<mutexVars, workVars, state, waitcond, has_deadline, timed_out,
                   at, tat, claim, ringVars, loopVars>>

-----------------------------------------------------------------------------
Next ==
    \/ CarrierStep
    \/ \E f \in Fiber : FiberStep(f) \/ Expire(f)
    \/ \E t \in Thread : ThreadStep(t)

Spec == Init /\ [][Next]_vars

(***************************************************************************)
(* The carrier loops forever.  A fiber that is given one slice after the   *)
(* other goes on with its program: it may park elsewhere with the mutex,   *)
(* but not for ever (an offload returns), and a consumer comes back for    *)
(* more.  This is strong fairness because a fiber can only step in its own *)
(* slices; it does not assume that a trylock ever succeeds.                *)
(***************************************************************************)
SliceStep(f) ==
    \/ Lock(f) \/ LockRetry(f) \/ Wait(f) \/ Consume(f) \/ GiveUp(f)
    \/ Produce(f) \/ NoProduce(f) \/ Signal(f) \/ Unlock(f) \/ (f \in Consumers /\ Enter(f))

SliceEnd(f) == at[f] = "idle" /\ f \in Producers /\ Elsewhere(f)

Fairness ==
    /\ WF_vars(CarrierStep)
    /\ \A f \in Fiber : SF_vars(SliceStep(f)) /\ WF_vars(SliceEnd(f))
    /\ \A t \in Thread : WF_vars(ThreadStep(t) /\ tat[t] # "idle")

FairSpec == Spec /\ Fairness

-----------------------------------------------------------------------------
\* At most one fiber or thread is between lock and unlock: "Real apps that
\* protect shared state with a mutex are then correct under the runtime".
MutualExclusion == Cardinality(holders) <= 1

\* No lost wake-up: when there is work, a consumer sleeps only as long as the
\* wake-up for it is on its way, in a producer that is about to signal or in
\* the part of pend_ring that the carrier has yet to drain.
WakePending ==
    \/ \E f \in Fiber : at[f] = "signal"
    \/ \E t \in Thread : tat[t] = "signal"
    \/ \E t \in Thread : tat[t] = "store" /\ claim[t] >= tail
    \/ \E k \in tail..(head - 1) : ring[k % PENDN] = Cv
NoSleepingWithWork ==
    items > 0 /\ (\E f \in Consumers : state[f] = "WAIT_COND") => WakePending

\* The same among fibers, whose signals do not pass through pend_ring: until a
\* real thread has signalled, no consumer sleeps while there is work.
FiberSignalsReach == head = 0 => NoSleepingWithWork

\* A parked fiber does not hold the mutex it waits with, and a fiber that left
\* the wait is not on the condition variable any more.
WaitReleases ==
    \A f \in Fiber :
        /\ state[f] = "WAIT_COND" => f \notin holders /\ waitcond[f] = Cv /\ cur # f
        /\ state[f] = "RUN" => waitcond[f] = Null

\* The state of the monitor as pthreads defines it: one holder, and waiters
\* that are outside.
MonitorInv == TypeOK /\ MutualExclusion /\ WaitReleases

\* Work that was made is eventually taken: the carrier is not stuck behind a
\* waiter that polls a mutex held by a fiber it would have to run.  (A real
\* thread's signal, which advances pend_head, may be lost.)
WorkIsDone == items > 0 ~> items = 0 \/ head > 0
=============================================================================
