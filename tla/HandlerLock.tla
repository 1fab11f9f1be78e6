----------------------------- MODULE HandlerLock -----------------------------
(***************************************************************************)
(* The page-protection conflict detector (detector.c), the handler lock    *)
(* that RT_ENFORCE or a detected conflict switches on (libtransparent.c),  *)
(* and the server that provokes conflicts (hostile_server.c): every        *)
(* request reads a shared counter, offloads, and writes the counter back   *)
(* incremented.  The counter, the ground truth and the application's mutex *)
(* are neighbours in .bss and lie on one protected page.                   *)
(*                                                                         *)
(* The carrier's loop is reduced to what matters here: any runnable fiber  *)
(* may be switched to next (the run pass takes them in slot order).        *)
(* Names that the carrier's and the locks' modules use have the prefix hl. *)
(***************************************************************************)
EXTENDS Integers, FiniteSets

CONSTANTS
    HlFiber,    \* connection handlers
    HlNoFib,    \* no fiber; also "-1" of hlock_owner
    MaxReq,     \* requests sent over the run (a bound)
    MaxClk,     \* version clock up to which the mutex is retried (a bound)
    Detect,     \* settings of RT_DETECT the server may be started with,
    Enforce,    \* of RT_ENFORCE,
    Locked,     \* and of LOCKED
    Closing     \* clients close their connection when they are done

ASSUME HandlerAssumption ==
    /\ HlNoFib \notin HlFiber
    /\ MaxReq \in Nat /\ MaxClk \in Nat
    /\ Detect \subseteq BOOLEAN /\ Enforce \subseteq BOOLEAN
    /\ Locked \subseteq BOOLEAN /\ Closing \in BOOLEAN

VARIABLES
    det_on,           \* RT_DETECT: the detector watches the page
    g_enforce,        \* RT_ENFORCE: handlers are serialized
    LOCKED,           \* hostile_server: the handler takes a mutex
    shared, total,    \* the application's counter and its ground truth
    v,                \* the handler's local copy
    mtx,              \* holder of the application's mutex
    hlAt,             \* where each handler is
    hlState,          \* RUN, WAIT_IO, WAIT_OFF or DONE
    hlCur,            \* cur_fib
    hlock_owner,
    det_conflicts,
    gclk, pver,       \* version clock; version of the page
    park_clk,         \* struct det_fib
    writable,         \* the page is unprotected
    inbox, eof,       \* a request is readable; the client has closed
    waiting,          \* the client has sent a request and has no reply
    sent

confVars == <<det_on, g_enforce, LOCKED>>
appVars == <<shared, total, v, mtx>>
detVars == <<det_conflicts, gclk, pver, park_clk, writable>>
clientVars == <<inbox, eof, waiting, sent>>
hlVars == <<confVars, appVars, hlAt, hlState, hlCur, hlock_owner, detVars, clientVars>>

HlTypeOK ==
    /\ det_on \in Detect /\ g_enforce \in Enforce /\ LOCKED \in Locked
    /\ shared \in Nat /\ total \in Nat
    /\ v \in [HlFiber -> Nat]
    /\ mtx \in HlFiber \cup {HlNoFib}
    /\ hlAt \in [HlFiber -> {"read", "recv", "mlock", "load", "store", "write"}]
    /\ hlState \in [HlFiber -> {"RUN", "WAIT_IO", "WAIT_OFF", "DONE"}]
    /\ hlCur \in HlFiber \cup {HlNoFib}
    /\ hlock_owner \in HlFiber \cup {HlNoFib}
    /\ det_conflicts \in Nat /\ gclk \in Nat /\ pver \in 0..gclk
    /\ park_clk \in [HlFiber -> 0..gclk]
    /\ writable \in BOOLEAN
    /\ inbox \in [HlFiber -> BOOLEAN] /\ eof \in [HlFiber -> BOOLEAN]
    /\ waiting \in [HlFiber -> BOOLEAN]
    /\ sent \in Nat

HlInit ==
    /\ det_on \in Detect /\ g_enforce \in Enforce /\ LOCKED \in Locked
    /\ shared = 0 /\ total = 0
    /\ v = [f \in HlFiber |-> 0]
    /\ mtx = HlNoFib
    /\ hlAt = [f \in HlFiber |-> "read"]
    /\ hlState = [f \in HlFiber |-> "RUN"]
    /\ hlCur = HlNoFib
    /\ hlock_owner = HlNoFib
    /\ det_conflicts = 0 /\ gclk = 0 /\ pver = 0
    /\ park_clk = [f \in HlFiber |-> 0]
    /\ writable = TRUE
    /\ inbox = [f \in HlFiber |-> FALSE]
    /\ eof = [f \in HlFiber |-> FALSE]
    /\ waiting = [f \in HlFiber |-> FALSE]
    /\ sent = 0

HlGo(f, where) == hlAt' = [hlAt EXCEPT ![f] = where]
Park(f, s) == hlState' = [hlState EXCEPT ![f] = s] /\ hlCur' = HlNoFib

\* Handlers are serialized by configuration or since the first conflict.
Enforcing == g_enforce \/ det_conflicts > 0

-----------------------------------------------------------------------------
(***************************************************************************)
(* The detector.                                                           *)
(***************************************************************************)

\* det_reprotect(): with the detector off the page stays writable.
DetReprotect == writable' = ~det_on

\* Mutant: the park does not snapshot the version clock.
DetParkNoSnapshot(f) == DetReprotect /\ UNCHANGED park_clk

\* det_park(): snapshot the version clock and protect the page.
DetPark(f) ==
    /\ park_clk' = [park_clk EXCEPT ![f] = IF det_on THEN gclk ELSE @]
    /\ DetReprotect

\* A write to the page: protected, it faults and the handler compares the
\* page's version with the writer's snapshot.
PageWrite(f) ==
    /\ det_conflicts' = IF ~writable /\ pver > park_clk[f]
                        THEN det_conflicts + 1 ELSE det_conflicts
    /\ gclk' = IF writable THEN gclk ELSE gclk + 1
    /\ pver' = IF writable THEN pver ELSE gclk + 1
    /\ writable' = TRUE

-----------------------------------------------------------------------------
(***************************************************************************)
(* The carrier.                                                            *)
(***************************************************************************)

\* Mutant: the page is left unprotected when another fiber is switched to.
DispatchNoReprotect(f) ==
    /\ hlCur = HlNoFib /\ hlState[f] = "RUN"
    /\ hlCur' = f
    /\ UNCHANGED <<confVars, appVars, hlAt, hlState, hlock_owner, detVars, clientVars>>

\* Switch to a runnable fiber: det_set_fiber(), active, det_reprotect().
HlDispatch(f) ==
    /\ hlCur = HlNoFib /\ hlState[f] = "RUN"
    /\ hlAt[f] = "mlock" => mtx = HlNoFib \/ gclk < MaxClk
    /\ hlCur' = f
    /\ DetReprotect
    /\ UNCHANGED <<confVars, appVars, hlAt, hlState, hlock_owner, det_conflicts,
                   gclk, pver, park_clk, clientVars>>

\* The event loop finds the socket readable (data, or end of stream).
IoReady(f) ==
    /\ hlCur = HlNoFib /\ hlState[f] = "WAIT_IO"
    /\ inbox[f] \/ eof[f]
    /\ hlState' = [hlState EXCEPT ![f] = "RUN"]
    /\ UNCHANGED <<confVars, appVars, hlAt, hlCur, hlock_owner, detVars, clientVars>>

\* The completion scan finds the offload done.
OffloadDone(f) ==
    /\ hlCur = HlNoFib /\ hlState[f] = "WAIT_OFF"
    /\ hlState' = [hlState EXCEPT ![f] = "RUN"]
    /\ UNCHANGED <<confVars, appVars, hlAt, hlCur, hlock_owner, detVars, clientVars>>

-----------------------------------------------------------------------------
(***************************************************************************)
(* The handler inside the runtime.                                         *)
(***************************************************************************)

\* Mutant: read() takes the lock whoever holds it.
AcquireBarging(f) ==
    /\ hlCur = f /\ hlAt[f] = "read"
    /\ hlock_owner' = IF Enforcing THEN f ELSE hlock_owner
    /\ HlGo(f, "recv")
    /\ UNCHANGED <<confVars, appVars, hlState, hlCur, detVars, clientVars>>

\* The head of read(): hl_acquire() when handlers are serialized ...
Acquire(f) ==
    /\ hlCur = f /\ hlAt[f] = "read"
    /\ Enforcing => hlock_owner \in {HlNoFib, f}
    /\ hlock_owner' = IF Enforcing THEN f ELSE hlock_owner
    /\ HlGo(f, "recv")
    /\ UNCHANGED <<confVars, appVars, hlState, hlCur, detVars, clientVars>>

\* ... which yields and retries while another handler has the lock.
AcquireRetry(f) ==
    /\ hlCur = f /\ hlAt[f] = "read"
    /\ Enforcing /\ hlock_owner \notin {HlNoFib, f}
    /\ Park(f, "RUN")
    /\ UNCHANGED <<confVars, appVars, hlAt, hlock_owner, detVars, clientVars>>

\* The body of read(): a request, ...
Receive(f) ==
    /\ hlCur = f /\ hlAt[f] = "recv" /\ inbox[f]
    /\ inbox' = [inbox EXCEPT ![f] = FALSE]
    /\ HlGo(f, IF LOCKED THEN "mlock" ELSE "load")
    /\ UNCHANGED <<confVars, appVars, hlState, hlCur, hlock_owner, detVars,
                   eof, waiting, sent>>

\* ... nothing yet (EAGAIN), so the fiber parks inside read(), ...
ReceivePark(f) ==
    /\ hlCur = f /\ hlAt[f] = "recv" /\ ~inbox[f] /\ ~eof[f]
    /\ Park(f, "WAIT_IO")
    /\ UNCHANGED <<confVars, appVars, hlAt, hlock_owner, detVars, clientVars>>

\* ... or end of stream: the handler returns and the carrier frees the fiber.
Finish(f) ==
    /\ hlCur = f /\ hlAt[f] = "recv" /\ ~inbox[f] /\ eof[f]
    /\ Park(f, "DONE")
    /\ UNCHANGED <<confVars, appVars, hlAt, hlock_owner, detVars, clientVars>>

\* LOCKED: pthread_mutex_lock() of the fiber-aware kind.  A trylock writes to
\* the mutex, or at least needs the page writable, whether it succeeds ...
MutexLock(f) ==
    /\ hlCur = f /\ hlAt[f] = "mlock" /\ mtx = HlNoFib
    /\ mtx' = f
    /\ PageWrite(f)
    /\ HlGo(f, "load")
    /\ UNCHANGED <<confVars, shared, total, v, hlState, hlCur, hlock_owner, park_clk,
                   clientVars>>

\* ... or fails, and the fiber stays runnable and tries again later.
MutexRetry(f) ==
    /\ hlCur = f /\ hlAt[f] = "mlock" /\ mtx # HlNoFib
    /\ PageWrite(f)
    /\ Park(f, "RUN")
    /\ UNCHANGED <<confVars, appVars, hlAt, hlock_owner, park_clk, clientVars>>

\* v = shared; accel_encrypt(), which parks the fiber.
Load(f) ==
    /\ hlCur = f /\ hlAt[f] = "load"
    /\ v' = [v EXCEPT ![f] = shared]
    /\ DetPark(f)
    /\ HlGo(f, "store")
    /\ Park(f, "WAIT_OFF")
    /\ UNCHANGED <<confVars, shared, total, mtx, hlock_owner, det_conflicts,
                   gclk, pver, clientVars>>

\* Mutant: the application's unlock is not forwarded to the mutex.
StoreKeepsMutex(f) ==
    /\ hlCur = f /\ hlAt[f] = "store"
    /\ shared' = v[f] + 1
    /\ total' = total + 1
    /\ PageWrite(f)
    /\ HlGo(f, "write")
    /\ UNCHANGED <<confVars, v, mtx, hlState, hlCur, hlock_owner, park_clk, clientVars>>

\* shared = v + 1, unlock, total++: no yield in between.
Store(f) ==
    /\ hlCur = f /\ hlAt[f] = "store"
    /\ shared' = v[f] + 1
    /\ total' = total + 1
    /\ PageWrite(f)
    /\ mtx' = IF LOCKED THEN HlNoFib ELSE mtx
    /\ HlGo(f, "write")
    /\ UNCHANGED <<confVars, v, hlState, hlCur, hlock_owner, park_clk, clientVars>>

\* write(): hl_release() when handlers are serialized, then the reply.
Reply(f) ==
    /\ hlCur = f /\ hlAt[f] = "write"
    /\ hlock_owner' = IF Enforcing /\ hlock_owner = f THEN HlNoFib ELSE hlock_owner
    /\ waiting' = [waiting EXCEPT ![f] = FALSE]
    /\ HlGo(f, "read")
    /\ UNCHANGED <<confVars, appVars, hlState, hlCur, detVars, inbox, eof, sent>>

-----------------------------------------------------------------------------
(***************************************************************************)
(* The clients: one request at a time; the connection is closed at the end.*)
(***************************************************************************)
ClientSend(f) ==
    /\ sent < MaxReq /\ ~waiting[f] /\ ~eof[f]
    /\ inbox' = [inbox EXCEPT ![f] = TRUE]
    /\ waiting' = [waiting EXCEPT ![f] = TRUE]
    /\ sent' = sent + 1
    /\ UNCHANGED <<confVars, appVars, hlAt, hlState, hlCur, hlock_owner, detVars, eof>>

ClientClose(f) ==
    /\ Closing /\ ~waiting[f] /\ ~eof[f]
    /\ eof' = [eof EXCEPT ![f] = TRUE]
    /\ UNCHANGED <<confVars, appVars, hlAt, hlState, hlCur, hlock_owner, detVars,
                   inbox, waiting, sent>>

-----------------------------------------------------------------------------
HlCarrierStep(f) == HlDispatch(f) \/ IoReady(f) \/ OffloadDone(f)

HandlerStep(f) ==
    \/ Acquire(f) \/ AcquireRetry(f) \/ Receive(f) \/ ReceivePark(f) \/ Finish(f)
    \/ MutexLock(f) \/ MutexRetry(f) \/ Load(f) \/ Store(f) \/ Reply(f)

HlNext ==
    \E f \in HlFiber :
        HlCarrierStep(f) \/ HandlerStep(f) \/ ClientSend(f) \/ ClientClose(f)

HlSpec == HlInit /\ [][HlNext]_hlVars

(***************************************************************************)
(* The carrier goes round its table for ever, so a fiber that is runnable  *)
(* or becomes ready again and again is switched to again and again; a      *)
(* handler takes its steps.                                                *)
(***************************************************************************)
HlFairness ==
    \A f \in HlFiber : SF_hlVars(HlCarrierStep(f)) /\ WF_hlVars(HandlerStep(f))

HlFairSpec == HlSpec /\ HlFairness

-----------------------------------------------------------------------------
\* With the handler lock on from the start, or with the application's own
\* mutex held across the offload, no increment is lost however handlers
\* interleave at their offloads.
NoLostUpdate == g_enforce \/ LOCKED => shared = total

\* The detector misses nothing: whenever an increment has been lost, a
\* conflict has been counted.
LossIsDetected == det_on /\ shared # total => det_conflicts > 0

\* It raises no alarm for handlers that the handler lock serializes.  (With the
\* application's mutex it does: the waiters' trylocks write to the same page.)
NoFalseAlarm == g_enforce /\ ~LOCKED => det_conflicts = 0

\* Every request that a client has sent is eventually answered.
RequestAnswered == \A f \in HlFiber : []<>(~waiting[f])

\* So it is as long as read() does not take the handler lock: with neither
\* RT_ENFORCE nor the detector, which turns it on after a conflict, a
\* fiber that polls the application's mutex lets its holder finish.
AnsweredUnlessEnforced ==
    \A f \in HlFiber : []<>(~det_on /\ ~g_enforce => ~waiting[f])

(***************************************************************************)
(* The inductive invariant.  SerialInv: a serialized handler between its   *)
(* read of the counter and its write back has the lock or the mutex, so    *)
(* nobody has written the counter meanwhile.  SnapshotInv: the page has    *)
(* moved past the snapshot of a handler whose copy is stale, but not past  *)
(* that of a handler inside the handler lock; a handler that is about to   *)
(* write the counter runs with the page protected.                         *)
(***************************************************************************)
Serialized == g_enforce \/ LOCKED

SerialInv ==
    /\ g_enforce => \A f \in HlFiber : hlAt[f] # "read" => hlock_owner = f
    /\ LOCKED => \A f \in HlFiber : hlAt[f] \in {"load", "store"} => mtx = f
    /\ Serialized => \A f \in HlFiber : hlAt[f] = "store" => v[f] = shared

SnapshotInv ==
    /\ det_on => \A f \in HlFiber :
          /\ hlAt[f] = "store" /\ v[f] # shared => pver > park_clk[f]
          /\ hlAt[f] = "store" /\ hlCur = f => ~writable
    /\ ~det_on => writable /\ pver = 0
    /\ g_enforce /\ ~LOCKED => \A f \in HlFiber :
          /\ hlAt[f] = "store" => pver <= park_clk[f]
          /\ hlAt[f] # "mlock"

IndInv ==
    /\ HlTypeOK
    /\ SerialInv
    /\ SnapshotInv
    /\ NoLostUpdate
    /\ LossIsDetected
    /\ NoFalseAlarm
=============================================================================
