--------------------------- MODULE FiberSyncProofs ---------------------------
(***************************************************************************)
(* Proofs about the fiber-aware mutex and condition variable, for any      *)
(* number of fibers and real threads, any size of pend_ring and any number *)
(* of work items: with a mutex that is not recursive the monitor is one,   *)
(* and no signal among fibers is lost.  (A recursive mutex lets two fibers *)
(* in, because all fibers have the carrier's thread id: see the run about  *)
(* it.)                                                                    *)
(***************************************************************************)
EXTENDS FiberSync, FiniteSetTheorems, TLAPS

\* The mutex is held by who is between lock and unlock in its program, and by
\* nobody else; the C library's owner and depth agree with that.
HoldInv ==
    /\ ~Recursive
    /\ \A f \in Fiber : f \in holders <=> at[f] \in {"cs", "back", "signal", "unlock"}
    /\ \A t \in Thread : t \in holders <=> tat[t] \in {"cs", "signal", "store", "unlock"}
    /\ \A x, y \in holders : x = y
    /\ \A x \in holders : owner = Tid(x)
    /\ owner = Nobody <=> holders = {}
    /\ count = IF holders = {} THEN 0 ELSE 1

\* The carrier runs the fiber of its pass, and only a runnable one.
LoopInv == cur # NoFib => cur = idx /\ pc = "run" /\ state[cur] = "RUN"

\* A fiber is on the condition variable exactly while it is parked, and then
\* it has yet to take the mutex again.
ParkInv ==
    \A f \in Fiber :
        /\ state[f] = "WAIT_COND" => at[f] = "relock" /\ waitcond[f] = Cv
        /\ state[f] = "RUN" => waitcond[f] = Null

\* Ring positions are taken once for each item a real thread made.
RingInv ==
    /\ items <= made /\ head <= made
    /\ \A t \in Thread : tat[t] = "signal" => head < made
    /\ \A t \in Thread : tat[t] = "store" => head > 0

\* Until a real thread has signalled, a sleeper with work has a producer that
\* is about to signal.
SleepInv ==
    head = 0 /\ items > 0 /\ (\E f \in Consumers : state[f] = "WAIT_COND")
        => (\E f \in Fiber : at[f] = "signal") \/ (\E t \in Thread : tat[t] = "signal")

IndInv == TypeOK /\ HoldInv /\ LoopInv /\ ParkInv /\ RingInv /\ SleepInv

-----------------------------------------------------------------------------
LEMMA InitInv == Init /\ ~Recursive => IndInv
  <1> SUFFICES ASSUME Init, ~Recursive PROVE IndInv
    OBVIOUS
  <1> USE SyncAssumption DEF Init, Fiber, NoFib, Nobody, Cv, Null
  <1>1. TypeOK
    BY DEF TypeOK
  <1>2. HoldInv /\ LoopInv /\ ParkInv /\ RingInv /\ SleepInv
    BY DEF HoldInv, LoopInv, ParkInv, RingInv, SleepInv
  <1>3. QED
    BY <1>1, <1>2 DEF IndInv

\* The fiber starts, parks elsewhere or polls a mutex that is taken.
LEMMA QuietStep ==
  ASSUME IndInv, NEW f \in Fiber, Enter(f) \/ Elsewhere(f) \/ LockRetry(f)
  PROVE  IndInv'
  <1> USE SyncAssumption
      DEF IndInv, Fiber, NoFib, Nobody, Cv, Null, Enter, Elsewhere, LockRetry, SwitchOut, Go,
          mutexVars, workVars, fiberVars, ringVars, loopVars
  <1>1. TypeOK'
    <2>1. CASE Enter(f)
      BY <2>1 DEF TypeOK, HoldInv, LoopInv, RingInv
    <2>2. CASE Elsewhere(f)
      BY <2>2 DEF TypeOK, HoldInv, LoopInv, RingInv
    <2>3. CASE LockRetry(f)
      BY <2>3 DEF TypeOK, HoldInv, LoopInv, RingInv
    <2>4. QED
      BY <2>1, <2>2, <2>3
  <1>2. HoldInv'
    <2>1. CASE Enter(f)
      BY <2>1 DEF TypeOK, HoldInv
    <2>2. CASE Elsewhere(f)
      BY <2>2 DEF TypeOK, HoldInv
    <2>3. CASE LockRetry(f)
      BY <2>3 DEF TypeOK, HoldInv
    <2>4. QED
      BY <2>1, <2>2, <2>3
  <1>3. LoopInv' /\ ParkInv'
    BY DEF TypeOK, LoopInv, ParkInv
  <1>4. RingInv' /\ SleepInv'
    BY DEF TypeOK, HoldInv, LoopInv, ParkInv, RingInv, SleepInv, Consumers
  <1>5. QED
    BY <1>1, <1>2, <1>3, <1>4

\* trylock succeeds: nobody held the mutex.
LEMMA LockStep ==
  ASSUME IndInv, NEW f \in Fiber, Lock(f)
  PROVE  IndInv'
  <1> USE SyncAssumption
      DEF IndInv, Fiber, NoFib, Nobody, Cv, Null, Lock, CanLock, Take, Tid, Go,
          mutexVars, workVars, fiberVars, ringVars, loopVars
  <1>1. TypeOK'
    BY DEF TypeOK, HoldInv, LoopInv, RingInv
  <1>2. HoldInv'
    <2>1. holders = {} /\ holders' = {f} /\ owner' = "carrier" /\ count' = 1
      BY DEF HoldInv
    <2>2. \A u \in Thread : u # f
      OBVIOUS
    <2>3. \A g \in Fiber : g \in holders' <=> at'[g] \in {"cs", "back", "signal", "unlock"}
      BY <2>1, <2>2 DEF TypeOK, HoldInv
    <2>4. \A u \in Thread : u \in holders' <=> tat'[u] \in {"cs", "signal", "store", "unlock"}
      BY <2>1, <2>2 DEF TypeOK, HoldInv
    <2>5. QED
      BY <2>1, <2>2, <2>3, <2>4 DEF HoldInv, TypeOK
  <1>3. LoopInv' /\ ParkInv'
    BY DEF TypeOK, LoopInv, ParkInv
  <1>4. RingInv' /\ SleepInv'
    BY DEF TypeOK, HoldInv, LoopInv, ParkInv, RingInv, SleepInv, Consumers
  <1>5. QED
    BY <1>1, <1>2, <1>3, <1>4

\* fiber_cond_wait() gives the mutex up and parks.
LEMMA WaitStep ==
  ASSUME IndInv, NEW f \in Fiber, Wait(f)
  PROVE  IndInv'
  <1> USE SyncAssumption
      DEF IndInv, Fiber, NoFib, Nobody, Cv, Null, Wait, Drop, SwitchOut, Go,
          mutexVars, workVars, fiberVars, ringVars, loopVars
  <1>1. TypeOK'
    BY DEF TypeOK, HoldInv, LoopInv, RingInv
  <1>2. HoldInv'
    <2>1. f \in holders
      BY DEF TypeOK, HoldInv
    <2>2. holders = {f}
      BY <2>1 DEF HoldInv
    <2>3. holders' = {} /\ owner' = Nobody /\ count' = 0
      BY <2>2 DEF HoldInv
    <2>4. \A u \in Thread : u # f
      OBVIOUS
    <2>5. \A g \in Fiber : at'[g] \notin {"cs", "back", "signal", "unlock"}
      BY <2>2, <2>4 DEF TypeOK, HoldInv
    <2>6. \A u \in Thread : tat'[u] \notin {"cs", "signal", "store", "unlock"}
      BY <2>2, <2>4 DEF TypeOK, HoldInv
    <2>7. QED
      BY <2>3, <2>5, <2>6 DEF HoldInv
  <1>3. LoopInv' /\ ParkInv'
    BY DEF TypeOK, LoopInv, ParkInv
  <1>4. RingInv' /\ SleepInv'
    BY DEF TypeOK, HoldInv, LoopInv, ParkInv, RingInv, SleepInv, Consumers
  <1>5. QED
    BY <1>1, <1>2, <1>3, <1>4

\* Work is made or taken under the mutex.
LEMMA WorkStep ==
  ASSUME IndInv, NEW f \in Fiber, Consume(f) \/ GiveUp(f) \/ Produce(f) \/ NoProduce(f)
  PROVE  IndInv'
  <1> USE SyncAssumption
      DEF IndInv, Fiber, NoFib, Nobody, Cv, Null, Consume, GiveUp, Produce, NoProduce, Go,
          mutexVars, workVars, fiberVars, ringVars, loopVars
  <1>1. TypeOK'
    <2>1. CASE Consume(f)
      BY <2>1 DEF TypeOK, HoldInv, LoopInv, RingInv
    <2>2. CASE GiveUp(f)
      BY <2>2 DEF TypeOK, HoldInv, LoopInv, RingInv
    <2>3. CASE Produce(f)
      BY <2>3 DEF TypeOK, HoldInv, LoopInv, RingInv
    <2>4. CASE NoProduce(f)
      BY <2>4 DEF TypeOK, HoldInv, LoopInv, RingInv
    <2>5. QED
      BY <2>1, <2>2, <2>3, <2>4
  <1>2. HoldInv'
    <2>1. CASE Consume(f)
      BY <2>1 DEF TypeOK, HoldInv
    <2>2. CASE GiveUp(f)
      BY <2>2 DEF TypeOK, HoldInv
    <2>3. CASE Produce(f)
      BY <2>3 DEF TypeOK, HoldInv
    <2>4. CASE NoProduce(f)
      BY <2>4 DEF TypeOK, HoldInv
    <2>5. QED
      BY <2>1, <2>2, <2>3, <2>4
  <1>3. LoopInv' /\ ParkInv'
    BY DEF TypeOK, LoopInv, ParkInv
  <1>4. RingInv' /\ SleepInv'
    BY DEF TypeOK, HoldInv, LoopInv, ParkInv, RingInv, SleepInv, Consumers
  <1>5. QED
    BY <1>1, <1>2, <1>3, <1>4

\* A fiber's signal leaves nobody parked.
LEMMA SignalStep ==
  ASSUME IndInv, NEW f \in Fiber, Signal(f)
  PROVE  IndInv'
  <1> USE SyncAssumption
      DEF IndInv, Fiber, NoFib, Nobody, Cv, Null, Signal, WakeFibers, Go,
          mutexVars, workVars, fiberVars, ringVars, loopVars
  <1>1. TypeOK'
    BY DEF TypeOK, HoldInv, LoopInv, RingInv
  <1>2. HoldInv'
    BY DEF TypeOK, HoldInv
  <1>3. LoopInv' /\ ParkInv'
    BY DEF TypeOK, LoopInv, ParkInv
  <1>4. RingInv' /\ SleepInv'
    BY DEF TypeOK, HoldInv, LoopInv, ParkInv, RingInv, SleepInv, Consumers
  <1>5. QED
    BY <1>1, <1>2, <1>3, <1>4

\* The fiber leaves the monitor.
LEMMA UnlockStep ==
  ASSUME IndInv, NEW f \in Fiber, Unlock(f)
  PROVE  IndInv'
  <1> USE SyncAssumption
      DEF IndInv, Fiber, NoFib, Nobody, Cv, Null, Unlock, Drop, Go,
          mutexVars, workVars, fiberVars, ringVars, loopVars
  <1>1. TypeOK'
    BY DEF TypeOK, HoldInv, LoopInv, RingInv
  <1>2. HoldInv'
    <2>1. f \in holders
      BY DEF TypeOK, HoldInv
    <2>2. holders = {f}
      BY <2>1 DEF HoldInv
    <2>3. holders' = {} /\ owner' = Nobody /\ count' = 0
      BY <2>2 DEF HoldInv
    <2>4. \A u \in Thread : u # f
      OBVIOUS
    <2>5. \A g \in Fiber : at'[g] \notin {"cs", "back", "signal", "unlock"}
      BY <2>2, <2>4 DEF TypeOK, HoldInv
    <2>6. \A u \in Thread : tat'[u] \notin {"cs", "signal", "store", "unlock"}
      BY <2>2, <2>4 DEF TypeOK, HoldInv
    <2>7. QED
      BY <2>3, <2>5, <2>6 DEF HoldInv
  <1>3. LoopInv' /\ ParkInv'
    BY DEF TypeOK, LoopInv, ParkInv
  <1>4. RingInv' /\ SleepInv'
    BY DEF TypeOK, HoldInv, LoopInv, ParkInv, RingInv, SleepInv, Consumers
  <1>5. QED
    BY <1>1, <1>2, <1>3, <1>4

\* The carrier wakes fibers for an entry of pend_ring or for a deadline.
LEMMA WakeStep ==
  ASSUME IndInv, Drain \/ DeadlineScan
  PROVE  IndInv'
  <1> USE SyncAssumption
      DEF IndInv, Fiber, NoFib, Nobody, Cv, Null, Drain, DeadlineScan, WakeFibers,
          mutexVars, workVars, fiberVars, ringVars, loopVars
  <1>1. TypeOK'
    <2>1. CASE Drain
      BY <2>1 DEF TypeOK, HoldInv, LoopInv, RingInv
    <2>2. CASE DeadlineScan
      BY <2>2 DEF TypeOK, HoldInv, LoopInv, RingInv
    <2>3. QED
      BY <2>1, <2>2
  <1>2. HoldInv'
    BY DEF TypeOK, HoldInv
  <1>3. LoopInv' /\ ParkInv'
    BY DEF TypeOK, LoopInv, ParkInv
  <1>4. RingInv' /\ SleepInv'
    BY DEF TypeOK, HoldInv, LoopInv, ParkInv, RingInv, SleepInv, Consumers
  <1>5. QED
    BY <1>1, <1>2, <1>3, <1>4

\* The carrier's pass goes on.
LEMMA LoopStep ==
  ASSUME IndInv, DrainEnd \/ Dispatch \/ Skip \/ EndPass
  PROVE  IndInv'
  <1> USE SyncAssumption
      DEF IndInv, Fiber, NoFib, Nobody, Cv, Null, DrainEnd, Dispatch, Skip, EndPass,
          mutexVars, workVars, fiberVars, ringVars, loopVars
  <1>1. TypeOK'
    <2>1. CASE DrainEnd
      BY <2>1 DEF TypeOK, HoldInv, LoopInv, RingInv
    <2>2. CASE Dispatch
      BY <2>2 DEF TypeOK, HoldInv, LoopInv, RingInv
    <2>3. CASE Skip
      BY <2>3 DEF TypeOK, HoldInv, LoopInv, RingInv
    <2>4. CASE EndPass
      BY <2>4 DEF TypeOK, HoldInv, LoopInv, RingInv
    <2>5. QED
      BY <2>1, <2>2, <2>3, <2>4
  <1>2. HoldInv'
    BY DEF TypeOK, HoldInv
  <1>3. LoopInv' /\ ParkInv'
    BY DEF TypeOK, LoopInv, ParkInv
  <1>4. RingInv' /\ SleepInv'
    BY DEF TypeOK, HoldInv, LoopInv, ParkInv, RingInv, SleepInv, Consumers
  <1>5. QED
    BY <1>1, <1>2, <1>3, <1>4

\* A deadline passes.
LEMMA PassageStep ==
  ASSUME IndInv, NEW f \in Fiber, Expire(f)
  PROVE  IndInv'
  <1> USE SyncAssumption
      DEF IndInv, Fiber, NoFib, Nobody, Cv, Null, Expire,
          mutexVars, workVars, fiberVars, ringVars, loopVars
  <1>1. TypeOK'
    BY DEF TypeOK, HoldInv, LoopInv, RingInv
  <1>2. HoldInv'
    BY DEF TypeOK, HoldInv
  <1>3. LoopInv' /\ ParkInv'
    BY DEF TypeOK, LoopInv, ParkInv
  <1>4. RingInv' /\ SleepInv'
    BY DEF TypeOK, HoldInv, LoopInv, ParkInv, RingInv, SleepInv, Consumers
  <1>5. QED
    BY <1>1, <1>2, <1>3, <1>4

\* A thread comes to the monitor, or finds the bound reached.
LEMMA TQuietStep ==
  ASSUME IndInv, NEW t \in Thread, TEnter(t) \/ TNoProduce(t)
  PROVE  IndInv'
  <1> USE SyncAssumption
      DEF IndInv, Fiber, NoFib, Nobody, Cv, Null, TEnter, TNoProduce, TGo,
          mutexVars, workVars, fiberVars, ringVars, loopVars
  <1>1. TypeOK'
    <2>1. CASE TEnter(t)
      BY <2>1 DEF TypeOK, HoldInv, LoopInv, RingInv
    <2>2. CASE TNoProduce(t)
      BY <2>2 DEF TypeOK, HoldInv, LoopInv, RingInv
    <2>3. QED
      BY <2>1, <2>2
  <1>2. HoldInv'
    <2>1. CASE TEnter(t)
      BY <2>1 DEF TypeOK, HoldInv
    <2>2. CASE TNoProduce(t)
      BY <2>2 DEF TypeOK, HoldInv
    <2>3. QED
      BY <2>1, <2>2
  <1>3. LoopInv' /\ ParkInv'
    BY DEF TypeOK, LoopInv, ParkInv
  <1>4. RingInv' /\ SleepInv'
    BY DEF TypeOK, HoldInv, LoopInv, ParkInv, RingInv, SleepInv, Consumers
  <1>5. QED
    BY <1>1, <1>2, <1>3, <1>4

\* real_mutex_lock() returns.
LEMMA TLockStep ==
  ASSUME IndInv, NEW t \in Thread, TLock(t)
  PROVE  IndInv'
  <1> USE SyncAssumption
      DEF IndInv, Fiber, NoFib, Nobody, Cv, Null, TLock, CanLock, Take, Tid, TGo,
          mutexVars, workVars, fiberVars, ringVars, loopVars
  <1>1. TypeOK'
    <2>1. owner' \in {Nobody, "carrier"} \cup Thread /\ count' \in 0..(N + 1)
      BY DEF TypeOK, HoldInv
    <2>2. holders' \subseteq Fiber \cup Thread
      BY DEF TypeOK
    <2>3. tat' \in [Thread -> {"idle", "lock", "cs", "signal", "store", "unlock"}]
      BY DEF TypeOK
    <2>4. QED
      BY <2>1, <2>2, <2>3 DEF TypeOK
  <1>2. HoldInv'
    <2>1. holders = {} /\ holders' = {t} /\ owner' = t /\ count' = 1
      BY DEF HoldInv
    <2>2. \A g \in Fiber : g # t
      OBVIOUS
    <2>3. \A g \in Fiber : g \in holders' <=> at'[g] \in {"cs", "back", "signal", "unlock"}
      BY <2>1, <2>2 DEF TypeOK, HoldInv
    <2>4. \A u \in Thread : u \in holders' <=> tat'[u] \in {"cs", "signal", "store", "unlock"}
      BY <2>1, <2>2 DEF TypeOK, HoldInv
    <2>5. QED
      BY <2>1, <2>2, <2>3, <2>4 DEF HoldInv, TypeOK
  <1>3. LoopInv' /\ ParkInv'
    BY DEF TypeOK, LoopInv, ParkInv
  <1>4. RingInv' /\ SleepInv'
    BY DEF TypeOK, HoldInv, LoopInv, ParkInv, RingInv, SleepInv, Consumers
  <1>5. QED
    BY <1>1, <1>2, <1>3, <1>4

\* A thread makes an item.
LEMMA TProduceStep ==
  ASSUME IndInv, NEW t \in Thread, TProduce(t)
  PROVE  IndInv'
  <1> USE SyncAssumption
      DEF IndInv, Fiber, NoFib, Nobody, Cv, Null, TProduce, TGo,
          mutexVars, workVars, fiberVars, ringVars, loopVars
  <1>1. TypeOK'
    BY DEF TypeOK, HoldInv, LoopInv, RingInv
  <1>2. HoldInv'
    BY DEF TypeOK, HoldInv
  <1>3. LoopInv' /\ ParkInv'
    BY DEF TypeOK, LoopInv, ParkInv
  <1>4. RingInv' /\ SleepInv'
    BY DEF TypeOK, HoldInv, LoopInv, ParkInv, RingInv, SleepInv, Consumers
  <1>5. QED
    BY <1>1, <1>2, <1>3, <1>4

\* A thread takes a ring position.
LEMMA TClaimStep ==
  ASSUME IndInv, NEW t \in Thread, TClaim(t)
  PROVE  IndInv'
  <1> USE SyncAssumption
      DEF IndInv, Fiber, NoFib, Nobody, Cv, Null, TClaim, TGo,
          mutexVars, workVars, fiberVars, ringVars, loopVars
  <1>1. TypeOK'
    BY DEF TypeOK, HoldInv, LoopInv, RingInv
  <1>2. HoldInv'
    BY DEF TypeOK, HoldInv
  <1>3. LoopInv' /\ ParkInv'
    BY DEF TypeOK, LoopInv, ParkInv
  <1>4. RingInv' /\ SleepInv'
    <2>1. \A u \in Thread : u # t => tat[u] # "signal"
      BY DEF HoldInv
    <2>2. head \in Nat /\ made \in Nat /\ head < made
      BY DEF TypeOK, RingInv
    <2>3. QED
      BY <2>1, <2>2 DEF TypeOK, RingInv, SleepInv
  <1>5. QED
    BY <1>1, <1>2, <1>3, <1>4

\* The thread stores the condition variable in the ring.
LEMMA TStoreStep ==
  ASSUME IndInv, NEW t \in Thread, TStore(t)
  PROVE  IndInv'
  <1> USE SyncAssumption
      DEF IndInv, Fiber, NoFib, Nobody, Cv, Null, TStore, TGo,
          mutexVars, workVars, fiberVars, ringVars, loopVars
  <1>1. TypeOK'
    BY DEF TypeOK, HoldInv, LoopInv, RingInv
  <1>2. HoldInv'
    BY DEF TypeOK, HoldInv
  <1>3. LoopInv' /\ ParkInv'
    BY DEF TypeOK, LoopInv, ParkInv
  <1>4. RingInv' /\ SleepInv'
    BY DEF TypeOK, HoldInv, LoopInv, ParkInv, RingInv, SleepInv, Consumers
  <1>5. QED
    BY <1>1, <1>2, <1>3, <1>4

\* The thread leaves the monitor.
LEMMA TUnlockStep ==
  ASSUME IndInv, NEW t \in Thread, TUnlock(t)
  PROVE  IndInv'
  <1> USE SyncAssumption
      DEF IndInv, Fiber, NoFib, Nobody, Cv, Null, TUnlock, Drop, TGo,
          mutexVars, workVars, fiberVars, ringVars, loopVars
  <1>1. TypeOK'
    <2>1. t \in holders /\ count = 1
      BY DEF TypeOK, HoldInv
    <2>2. tat' \in [Thread -> {"idle", "lock", "cs", "signal", "store", "unlock"}]
      BY DEF TypeOK
    <2>3. QED
      BY <2>1, <2>2 DEF TypeOK
  <1>2. HoldInv'
    <2>1. t \in holders
      BY DEF TypeOK, HoldInv
    <2>2. holders = {t}
      BY <2>1 DEF HoldInv
    <2>3. holders' = {} /\ owner' = Nobody /\ count' = 0
      BY <2>2 DEF HoldInv
    <2>4. \A g \in Fiber : g # t
      OBVIOUS
    <2>5. \A g \in Fiber : at'[g] \notin {"cs", "back", "signal", "unlock"}
      BY <2>2, <2>4 DEF TypeOK, HoldInv
    <2>6. \A u \in Thread : tat'[u] \notin {"cs", "signal", "store", "unlock"}
      BY <2>2, <2>4 DEF TypeOK, HoldInv
    <2>7. QED
      BY <2>3, <2>5, <2>6 DEF HoldInv
  <1>3. LoopInv' /\ ParkInv'
    BY DEF TypeOK, LoopInv, ParkInv
  <1>4. RingInv' /\ SleepInv'
    BY DEF TypeOK, HoldInv, LoopInv, ParkInv, RingInv, SleepInv, Consumers
  <1>5. QED
    BY <1>1, <1>2, <1>3, <1>4

LEMMA NextInv == IndInv /\ [Next]_vars => IndInv'
  <1> SUFFICES ASSUME IndInv, [Next]_vars PROVE IndInv'
    OBVIOUS
  <1>1. CASE CarrierStep
    <2>1. CASE Drain \/ DeadlineScan
      BY <2>1, WakeStep
    <2>2. CASE DrainEnd \/ Dispatch \/ Skip \/ EndPass
      BY <2>2, LoopStep
    <2>3. QED
      BY <1>1, <2>1, <2>2 DEF CarrierStep
  <1>2. ASSUME NEW f \in Fiber, FiberStep(f) \/ Expire(f) PROVE IndInv'
    <2>1. CASE Expire(f)
      BY <2>1, PassageStep
    <2>2. CASE FiberStep(f)
      BY <2>2, QuietStep, LockStep, WaitStep, WorkStep, SignalStep, UnlockStep DEF FiberStep
    <2>3. QED
      BY <1>2, <2>1, <2>2
  <1>3. ASSUME NEW t \in Thread, ThreadStep(t) PROVE IndInv'
    BY <1>3, TQuietStep, TLockStep, TProduceStep, TClaimStep, TStoreStep, TUnlockStep
       DEF ThreadStep
  <1>4. CASE UNCHANGED vars
    <2> USE <1>4 DEF IndInv, vars, mutexVars, workVars, fiberVars, ringVars, loopVars
    <2>1. TypeOK' /\ HoldInv'
      BY DEF TypeOK, HoldInv
    <2>2. LoopInv' /\ ParkInv' /\ RingInv' /\ SleepInv'
      BY DEF LoopInv, ParkInv, RingInv, SleepInv
    <2>3. QED
      BY <2>1, <2>2
  <1>5. QED
    BY <1>1, <1>2, <1>3, <1>4 DEF Next

LEMMA IndInvAlways == Spec /\ ~Recursive => []IndInv
  <1>1. QED
    BY InitInv, NextInv, PTL DEF Spec

-----------------------------------------------------------------------------
LEMMA IndInvMonitor == IndInv => MonitorInv
  <1> SUFFICES ASSUME IndInv PROVE MonitorInv
    OBVIOUS
  <1>1. MutualExclusion
    <2>1. CASE holders = {}
      BY <2>1, FS_EmptySet DEF MutualExclusion
    <2>2. ASSUME NEW x \in holders PROVE MutualExclusion
      <3>1. holders = {x}
        BY <2>2 DEF IndInv, HoldInv
      <3>2. QED
        BY <3>1, FS_Singleton DEF MutualExclusion
    <2>3. QED
      BY <2>1, <2>2
  <1>2. WaitReleases
    BY DEF IndInv, HoldInv, LoopInv, ParkInv, WaitReleases, TypeOK, NoFib, Fiber
  <1>3. QED
    BY <1>1, <1>2 DEF MonitorInv, IndInv

LEMMA IndInvReach == IndInv => FiberSignalsReach
  BY DEF IndInv, SleepInv, FiberSignalsReach, NoSleepingWithWork, WakePending

\* "Real apps that protect shared state with a mutex are then correct under
\* the runtime": pthread_mutex_lock() by polling, fiber_cond_wait() and the
\* real threads' blocking lock keep the monitor's contract: one holder at a
\* time, and a parked waiter is outside and on the condition variable.
THEOREM MonitorCorrect == Spec /\ ~Recursive => []MonitorInv
  <1>1. QED
    BY IndInvAlways, IndInvMonitor, PTL

\* wake_fibers() loses no signal among fibers: as long as no real thread has
\* signalled, no consumer sleeps over work unless a producer is about to
\* signal it.
THEOREM SignalsReach == Spec /\ ~Recursive => []FiberSignalsReach
  <1>1. QED
    BY IndInvAlways, IndInvReach, PTL
=============================================================================
