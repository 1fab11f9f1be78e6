--------------------------- MODULE SpecSerialize ---------------------------
(***************************************************************************)
(* runtime/conflict_detector.c: coroutines on one scheduler thread do      *)
(* read-modify-writes of a shared cache that span an offload, in one of    *)
(* four modes.  naive commits what it read; detect validates the version   *)
(* of the entry and reads again on a conflict; serial finishes the update  *)
(* before it offloads; lock holds the lock of the key across the offload.  *)
(***************************************************************************)
EXTENDS Integers

CONSTANTS
    C,        \* number of coroutines
    Key,      \* entries of the cache
    N_ITERS,  \* requests per coroutine
    Modes     \* the modes the program may be started in

ASSUME SerializeAssumption ==
    /\ C \in Nat /\ N_ITERS \in Nat /\ Key # {}
    /\ Modes \subseteq {"naive", "detect", "serial", "lock"}

Coro == 1..C
NoCoro == 0

VARIABLES
    MODE,
    val, ver, keylock,            \* the cache, and the lock of each key
    g_commits, g_fallbacks,
    key, v, rver,                 \* locals of body(): k, v and ver
    i,                            \* requests done
    at,                           \* where each coroutine is in body()
    waiting, finished,            \* struct coro
    done,                         \* the device's answer in the coroutine's slot
    pc, idx, cur, fin             \* run(): phase, position, running coroutine,
                                  \* finished coroutines met in this pass

cacheVars == <<val, ver, keylock, g_commits, g_fallbacks>>
localVars == <<key, v, rver, i, at>>
slotVars == <<waiting, done>>
loopVars == <<pc, idx, cur, fin>>
vars == <<MODE, cacheVars, localVars, slotVars, finished, loopVars>>

TypeOK ==
    /\ MODE \in Modes
    /\ val \in [Key -> Nat] /\ ver \in [Key -> Nat]
    /\ keylock \in [Key -> BOOLEAN]
    /\ g_commits \in Nat /\ g_fallbacks \in Nat
    /\ key \in [Coro -> Key]
    /\ v \in [Coro -> Nat] /\ rver \in [Coro -> Nat]
    /\ i \in [Coro -> 0..N_ITERS]
    /\ at \in [Coro -> {"top", "lock", "commit"}]
    /\ waiting \in [Coro -> BOOLEAN] /\ finished \in [Coro -> BOOLEAN]
    /\ done \in [Coro -> BOOLEAN]
    /\ pc \in {"scan", "run", "end"}
    /\ idx \in 1..(C + 1)
    /\ cur \in Coro \cup {NoCoro}
    /\ fin \in 0..C

Init ==
    /\ MODE \in Modes
    /\ val = [k \in Key |-> 0] /\ ver = [k \in Key |-> 0]
    /\ keylock = [k \in Key |-> FALSE]
    /\ g_commits = 0 /\ g_fallbacks = 0
    /\ key = [c \in Coro |-> CHOOSE k \in Key : TRUE]
    /\ v = [c \in Coro |-> 0] /\ rver = [c \in Coro |-> 0]
    /\ i = [c \in Coro |-> 0]
    /\ at = [c \in Coro |-> "top"]
    /\ waiting = [c \in Coro |-> FALSE] /\ finished = [c \in Coro |-> FALSE]
    /\ done = [c \in Coro |-> FALSE]
    /\ pc = "scan" /\ idx = 1 /\ cur = NoCoro /\ fin = 0

Go(c, where) == at' = [at EXCEPT ![c] = where]

-----------------------------------------------------------------------------
(***************************************************************************)
(* run() and the device.                                                   *)
(***************************************************************************)

\* The completion scan at the top of the loop; fin is local to a pass.
Scan ==
    /\ pc = "scan"
    /\ waiting' = [c \in Coro |-> waiting[c] /\ ~done[c]]
    /\ pc' = "run" /\ idx' = 1 /\ fin' = 0
    /\ UNCHANGED <<MODE, cacheVars, localVars, done, finished, cur>>

Dispatch ==
    /\ pc = "run" /\ cur = NoCoro /\ idx <= C
    /\ ~finished[idx] /\ ~waiting[idx]
    /\ cur' = idx
    /\ UNCHANGED <<MODE, cacheVars, localVars, slotVars, finished, pc, idx, fin>>

Skip ==
    /\ pc = "run" /\ cur = NoCoro /\ idx <= C
    /\ finished[idx] \/ waiting[idx]
    /\ idx' = idx + 1
    /\ fin' = IF finished[idx] THEN fin + 1 ELSE fin
    /\ UNCHANGED <<MODE, cacheVars, localVars, slotVars, finished, pc, cur>>

\* The loop ends after a pass that found every coroutine finished.
EndPass ==
    /\ pc = "run" /\ cur = NoCoro /\ idx > C
    /\ pc' = IF fin = C THEN "end" ELSE "scan"
    /\ UNCHANGED <<MODE, cacheVars, localVars, slotVars, finished, idx, cur, fin>>

\* device_fn(), after any latency: no one else sets done, so that it makes no
\* difference how far its loads of active and done are apart.
Complete(c) ==
    /\ waiting[c] /\ ~done[c]
    /\ done' = [done EXCEPT ![c] = TRUE]
    /\ UNCHANGED <<MODE, cacheVars, localVars, waiting, finished, loopVars>>

-----------------------------------------------------------------------------
(***************************************************************************)
(* body().                                                                 *)
(***************************************************************************)

SwitchOut == cur' = NoCoro /\ idx' = idx + 1 /\ UNCHANGED <<pc, fin>>

\* coro_offload(): submit to the coroutine's slot and switch to the scheduler.
Offload(c) ==
    /\ waiting' = [waiting EXCEPT ![c] = TRUE]
    /\ done' = [done EXCEPT ![c] = FALSE]
    /\ SwitchOut

InLoop(c) == cur = c /\ at[c] = "top" /\ i[c] < N_ITERS

\* naive and detect: read the entry of the request's key and park.
Read(c, k) ==
    /\ InLoop(c) /\ MODE \in {"naive", "detect"}
    /\ key' = [key EXCEPT ![c] = k]
    /\ v' = [v EXCEPT ![c] = val[k]]
    /\ rver' = [rver EXCEPT ![c] = ver[k]]
    /\ Go(c, "commit")
    /\ Offload(c)
    /\ UNCHANGED <<MODE, cacheVars, i, finished>>

\* Mutant: one version for the whole cache.
WriteGlobalVersion(c, k, x) ==
    /\ val' = [val EXCEPT ![k] = x + 1]
    /\ ver' = [e \in Key |-> ver[e] + 1]
    /\ g_commits' = g_commits + 1
    /\ i' = [i EXCEPT ![c] = @ + 1]

\* The write of an entry and the end of the request.
Write(c, k, x) ==
    /\ val' = [val EXCEPT ![k] = x + 1]
    /\ ver' = [ver EXCEPT ![k] = @ + 1]
    /\ g_commits' = g_commits + 1
    /\ i' = [i EXCEPT ![c] = @ + 1]

\* Mutant: the entry's version is not validated.
CommitBlind(c) ==
    /\ cur = c /\ at[c] = "commit" /\ MODE \in {"naive", "detect"}
    /\ Write(c, key[c], v[c])
    /\ Go(c, "top")
    /\ UNCHANGED <<MODE, g_fallbacks, keylock, key, v, rver, slotVars, finished, loopVars>>

\* ... and after the offload validate, if need be read again, and commit.
Commit(c) ==
    LET k == key[c]
        stale == MODE = "detect" /\ ver[k] # rver[c]
    IN  /\ cur = c /\ at[c] = "commit" /\ MODE \in {"naive", "detect"}
        /\ g_fallbacks' = IF stale THEN g_fallbacks + 1 ELSE g_fallbacks
        /\ Write(c, k, IF stale THEN val[k] ELSE v[c])
        /\ Go(c, "top")
        /\ UNCHANGED <<MODE, keylock, key, v, rver, slotVars, finished, loopVars>>

\* serial: the whole update, then the offload.
Update(c, k) ==
    /\ InLoop(c) /\ MODE = "serial"
    /\ Write(c, k, val[k])
    /\ Offload(c)
    /\ UNCHANGED <<MODE, keylock, g_fallbacks, key, v, rver, at, finished>>

\* lock: the key's lock, taken ...
Choose(c, k) ==
    /\ InLoop(c) /\ MODE = "lock"
    /\ key' = [key EXCEPT ![c] = k]
    /\ Go(c, "lock")
    /\ UNCHANGED <<MODE, cacheVars, v, rver, i, slotVars, finished, loopVars>>

LockRead(c) ==
    /\ cur = c /\ at[c] = "lock" /\ ~keylock[key[c]]
    /\ keylock' = [keylock EXCEPT ![key[c]] = TRUE]
    /\ v' = [v EXCEPT ![c] = val[key[c]]]
    /\ Go(c, "commit")
    /\ Offload(c)
    /\ UNCHANGED <<MODE, val, ver, g_commits, g_fallbacks, key, rver, i, finished>>

\* ... or found taken: the coroutine lets the others run and tries again.
LockRetry(c) ==
    /\ cur = c /\ at[c] = "lock" /\ keylock[key[c]]
    /\ SwitchOut
    /\ UNCHANGED <<MODE, cacheVars, localVars, slotVars, finished>>

\* Mutant: the lock is not given back.
UnlockForgotten(c) ==
    /\ cur = c /\ at[c] = "commit" /\ MODE = "lock"
    /\ Write(c, key[c], v[c])
    /\ Go(c, "top")
    /\ UNCHANGED <<MODE, keylock, g_fallbacks, key, v, rver, slotVars, finished, loopVars>>

WriteUnlock(c) ==
    /\ cur = c /\ at[c] = "commit" /\ MODE = "lock"
    /\ Write(c, key[c], v[c])
    /\ keylock' = [keylock EXCEPT ![key[c]] = FALSE]
    /\ Go(c, "top")
    /\ UNCHANGED <<MODE, g_fallbacks, key, v, rver, slotVars, finished, loopVars>>

\* The end of body().
Finish(c) ==
    /\ cur = c /\ at[c] = "top" /\ i[c] = N_ITERS
    /\ finished' = [finished EXCEPT ![c] = TRUE]
    /\ SwitchOut
    /\ UNCHANGED <<MODE, cacheVars, localVars, slotVars>>

-----------------------------------------------------------------------------
Body(c) ==
    \/ \E k \in Key : Read(c, k) \/ Update(c, k) \/ Choose(c, k)
    \/ Commit(c) \/ LockRead(c) \/ LockRetry(c) \/ WriteUnlock(c) \/ Finish(c)

SchedulerStep == Scan \/ Dispatch \/ Skip \/ EndPass \/ \E c \in Coro : Body(c)

\* run() has returned.
Terminated == pc = "end" /\ UNCHANGED vars

Next == SchedulerStep \/ (\E c \in Coro : Complete(c)) \/ Terminated

Spec == Init /\ [][Next]_vars

\* The scheduler thread and the device thread never block.
FairSpec == Spec /\ WF_vars(SchedulerStep) /\ \A c \in Coro : WF_vars(Complete(c))

-----------------------------------------------------------------------------
CountersBar == INSTANCE Counters WITH commits <- g_commits

\* "detect is always correct", and so are serial and lock: whatever happens
\* to the entry during the offload, every commit adds one to the latest value.
CommitsAreAtomic == CountersBar!Spec

\* A fallback is a real conflict and every conflict falls back: the entry's
\* value has changed since this request read it.
FallbackIsConflict ==
    [][MODE = "detect" => \A c \in Coro : Commit(c) =>
          (g_fallbacks' # g_fallbacks <=> v[c] # val[key[c]])]_vars

\* run() returns once a coroutine has begun a request: no coroutine waits for
\* ever, neither for the device nor for the lock of a key that another one
\* holds across its offload; and then every request of every coroutine has
\* been committed, and no lock is left behind.
Terminates ==
    []<>((\E c \in Coro : i[c] > 0 \/ at[c] # "top") =>
            pc = "end" /\ g_commits = C * N_ITERS /\ \A k \in Key : ~keylock[k])

(***************************************************************************)
(* The inductive invariant.  LoopInv: the running coroutine is the one the *)
(* pass is at, and a request begun is one of N_ITERS.  LockInv: a          *)
(* coroutine between its read and its write has the lock of its key to     *)
(* itself.  ReadInv: what it has read is still in the cache; in detect     *)
(* mode the entry's value and its version have moved on by the same        *)
(* amount since.                                                           *)
(***************************************************************************)
LockInv ==
    /\ \A c \in Coro : at[c] = "lock" => MODE = "lock"
    /\ \A c \in Coro : MODE = "lock" /\ at[c] = "commit" => keylock[key[c]]
    /\ \A c, e \in Coro : MODE = "lock" /\ at[c] = "commit" /\ at[e] = "commit"
                          /\ key[c] = key[e] => c = e

ReadInv ==
    \A c \in Coro : at[c] = "commit" =>
        /\ MODE = "lock" => v[c] = val[key[c]]
        /\ MODE = "detect" => rver[c] <= ver[key[c]]
        /\ MODE = "detect" => v[c] - rver[c] = val[key[c]] - ver[key[c]]

LoopInv ==
    /\ cur # NoCoro => pc = "run" /\ cur = idx
    /\ fin < idx
    /\ \A c \in Coro : at[c] # "top" => i[c] < N_ITERS

IndInv == TypeOK /\ LoopInv /\ LockInv /\ ReadInv
=============================================================================
