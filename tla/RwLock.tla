------------------------------- MODULE RwLock -------------------------------
(***************************************************************************)
(* The reader-writer locks of libtransparent.c.  A fiber tries the real    *)
(* lock and goes back to the carrier while the try fails; an OS thread     *)
(* blocks in the real lock.  Each round takes the lock, offloads while     *)
(* holding it, and releases it; a writer adds one to a shared value that   *)
(* it read before the offload.  The real lock is glibc's default kind,     *)
(* which lets a reader in while readers hold it.                           *)
(***************************************************************************)
EXTENDS Naturals, FiniteSets

CONSTANTS
    RwFibers,    \* number of fibers, in slots 1..RwFibers of the carrier
    RwThread,    \* OS threads that use the same lock
    RwRounds     \* rounds of each of them

ASSUME RwAssumption == RwFibers \in Nat \ {0} /\ RwRounds \in Nat \ {0}

RwFiber == 1..RwFibers
RwAll == RwFiber \cup RwThread

VARIABLES
    rwPc,        \* idle, want, hold, back, done
    rwMode,      \* rd or wr, of the round
    rwLeft,      \* rounds that are left
    rwState,     \* F_RUN or F_WAIT_OFF of a fiber
    rwCur,       \* cur_fib, 0 while the carrier's loop runs
    rwPos,       \* slot the carrier's pass visits next
    rwDone,      \* fibers whose offload is complete
    rwRd, rwWr,  \* holders of the real lock
    rwVal,       \* the protected value
    rwLoc        \* what each has read of it

rwVars == <<rwPc, rwMode, rwLeft, rwState, rwCur, rwPos, rwDone, rwRd, rwWr, rwVal, rwLoc>>

RwInit ==
    /\ rwPc = [x \in RwAll |-> "idle"] /\ rwMode = [x \in RwAll |-> "rd"]
    /\ rwLeft = [x \in RwAll |-> RwRounds]
    /\ rwState = [f \in RwFiber |-> "F_RUN"] /\ rwCur = 0 /\ rwPos = 1 /\ rwDone = {}
    /\ rwRd = {} /\ rwWr = {} /\ rwVal = 0 /\ rwLoc = [x \in RwAll |-> 0]

-----------------------------------------------------------------------------
(* The carrier: it visits the slots in order and runs a fiber that is      *)
(* runnable, or whose offload is done, until the fiber switches back.      *)

RwRunnable(f) == rwPc[f] # "done" /\ (rwState[f] = "F_RUN" \/ f \in rwDone)

RwVisit ==
    /\ rwCur = 0 /\ \E f \in RwFiber : RwRunnable(f)
    /\ rwPos' = (rwPos % RwFibers) + 1
    /\ rwCur' = IF RwRunnable(rwPos) THEN rwPos ELSE 0
    /\ rwState' = IF RwRunnable(rwPos) THEN [rwState EXCEPT ![rwPos] = "F_RUN"] ELSE rwState
    /\ rwDone' = IF RwRunnable(rwPos) THEN rwDone \ {rwPos} ELSE rwDone
    /\ UNCHANGED <<rwPc, rwMode, rwLeft, rwRd, rwWr, rwVal, rwLoc>>

\* The device completes the offload of a fiber that waits for it.
RwComplete(f) ==
    /\ rwState[f] = "F_WAIT_OFF" /\ f \notin rwDone
    /\ rwDone' = rwDone \cup {f}
    /\ UNCHANGED <<rwPc, rwMode, rwLeft, rwState, rwCur, rwPos, rwRd, rwWr, rwVal, rwLoc>>

RwRuns(x) == x \in RwThread \/ rwCur = x

\* Mutant: the trying fiber keeps the carrier.
RwYieldRunSpin(f) == UNCHANGED <<rwState, rwCur>>

\* yield_run(): the fiber stays runnable and the carrier's pass goes on.
RwYieldRun(f) ==
    /\ rwState' = [rwState EXCEPT ![f] = "F_RUN"] /\ rwCur' = 0

-----------------------------------------------------------------------------
\* real_rwlock_tryrdlock(), real_rwlock_trywrlock(): whether the try succeeds.
RwTryRd == rwWr = {}

\* Mutant: the writer tries for a read lock.
RwTryWrAsReader == rwWr = {}

RwTryWr == rwWr = {} /\ rwRd = {}

RwTry(mode) == IF mode = "rd" THEN RwTryRd ELSE RwTryWr

RwBegin(x, mode) ==
    /\ RwRuns(x) /\ rwPc[x] = "idle" /\ rwLeft[x] > 0
    /\ rwPc' = [rwPc EXCEPT ![x] = "want"] /\ rwMode' = [rwMode EXCEPT ![x] = mode]
    /\ UNCHANGED <<rwLeft, rwState, rwCur, rwPos, rwDone, rwRd, rwWr, rwVal, rwLoc>>

RwTake(x) ==
    /\ rwPc' = [rwPc EXCEPT ![x] = "hold"] /\ rwLoc' = [rwLoc EXCEPT ![x] = rwVal]
    /\ rwRd' = IF rwMode[x] = "rd" THEN rwRd \cup {x} ELSE rwRd
    /\ rwWr' = IF rwMode[x] = "wr" THEN rwWr \cup {x} ELSE rwWr

\* pthread_rwlock_rdlock() and _wrlock() of a fiber: one turn of the loop.
RwFiberLock(f) ==
    /\ rwCur = f /\ rwPc[f] = "want"
    /\ IF RwTry(rwMode[f]) THEN RwTake(f) /\ UNCHANGED <<rwState, rwCur>>
                           ELSE RwYieldRun(f) /\ UNCHANGED <<rwPc, rwLoc, rwRd, rwWr>>
    /\ UNCHANGED <<rwMode, rwLeft, rwPos, rwDone, rwVal>>

\* The same of an OS thread: it blocks until the lock is its own.
RwThreadLock(t) ==
    /\ t \in RwThread /\ rwPc[t] = "want" /\ RwTry(rwMode[t]) /\ RwTake(t)
    /\ UNCHANGED <<rwMode, rwLeft, rwState, rwCur, rwPos, rwDone, rwVal>>

\* accel_encrypt() under the lock: yield_off() of a fiber, a wait of a thread.
RwOffload(x) ==
    /\ RwRuns(x) /\ rwPc[x] = "hold" /\ rwPc' = [rwPc EXCEPT ![x] = "back"]
    /\ IF x \in RwThread THEN UNCHANGED <<rwState, rwCur>>
       ELSE rwState' = [rwState EXCEPT ![x] = "F_WAIT_OFF"] /\ rwCur' = 0
    /\ UNCHANGED <<rwMode, rwLeft, rwPos, rwDone, rwRd, rwWr, rwVal, rwLoc>>

\* The store of a writer, then pthread_rwlock_unlock().
RwUnlock(x) ==
    /\ RwRuns(x) /\ rwPc[x] = "back"
    /\ rwVal' = IF rwMode[x] = "wr" THEN rwLoc[x] + 1 ELSE rwVal
    /\ rwRd' = rwRd \ {x} /\ rwWr' = rwWr \ {x}
    /\ rwPc' = [rwPc EXCEPT ![x] = "idle"] /\ rwLeft' = [rwLeft EXCEPT ![x] = @ - 1]
    /\ rwLoc' = [rwLoc EXCEPT ![x] = 0]
    /\ UNCHANGED <<rwMode, rwState, rwCur, rwPos, rwDone>>

\* The start function returns (fib_entry sets F_DONE).
RwExit(x) ==
    /\ RwRuns(x) /\ rwPc[x] = "idle" /\ rwLeft[x] = 0
    /\ rwPc' = [rwPc EXCEPT ![x] = "done"] /\ rwCur' = IF x \in RwThread THEN rwCur ELSE 0
    /\ UNCHANGED <<rwMode, rwLeft, rwState, rwPos, rwDone, rwRd, rwWr, rwVal, rwLoc>>

RwStep(x) ==
    \/ \E mode \in {"rd", "wr"} : RwBegin(x, mode)
    \/ x \in RwFiber /\ RwFiberLock(x)
    \/ RwThreadLock(x) \/ RwOffload(x) \/ RwUnlock(x) \/ RwExit(x)

RwNext == RwVisit \/ \E f \in RwFiber : RwComplete(f) \/ \E x \in RwAll : RwStep(x)

RwSpec == RwInit /\ [][RwNext]_rwVars

-----------------------------------------------------------------------------
\* What a writer read before its offload is still the value when it stores:
\* no reader or writer, fiber or thread, shares the lock with it meanwhile.
RwNoLost == \A x \in RwAll : rwPc[x] = "back" => rwLoc[x] = rwVal

\* Whoever asks for the lock gets it and gives it back: the holder that is
\* parked in an offload is resumed, because a fiber whose try fails gives the
\* carrier back.
RwFinish == \A x \in RwAll : []<>(rwPc[x] \in {"idle", "done"})
=============================================================================
