------------------------------ MODULE Deadline ------------------------------
(***************************************************************************)
(* The deadlines of libtransparent.c: to_realtime() converts a time-out    *)
(* given on another clock to CLOCK_REALTIME, yield_io_to() adds poll()'s   *)
(* milliseconds to it, and the carrier compares with CLOCK_REALTIME.       *)
(* Nobody sets the clocks while a fiber waits.                             *)
(***************************************************************************)
EXTENDS Integers

CONSTANTS
    DlBase,     \* ticks in a second (1000000000)
    DlMs,       \* ticks in a millisecond (1000000)
    DlMaxSec    \* bound: seconds a clock shows

ASSUME DlAssumption ==
    /\ DlBase \in Nat \ {0} /\ DlMs \in 1..DlBase /\ DlMaxSec \in Nat

VARIABLES
    dlMono, dlReal,   \* CLOCK_MONOTONIC, CLOCK_REALTIME
    dlOn,             \* a fiber waits
    dlAbs,            \* when its wait ends, on CLOCK_MONOTONIC
    dlDeadline        \* f->deadline

dlVars == <<dlMono, dlReal, dlOn, dlAbs, dlDeadline>>

\* The carrier's test in its deadline scan.
DlLate(now, d) == now.sec > d.sec \/ (now.sec = d.sec /\ now.nsec >= d.nsec)

DlInit ==
    /\ dlMono \in [sec : 0..DlMaxSec, nsec : 0..(DlBase - 1)]
    /\ dlReal \in [sec : 0..DlMaxSec, nsec : 0..(DlBase - 1)]
    /\ dlOn = FALSE /\ dlAbs = dlMono /\ dlDeadline = dlReal

-----------------------------------------------------------------------------
\* Mutant: a negative difference of nanoseconds is not normalised.
DlToRealtimeNoBorrow(abs, nm, nr) ==
    LET s == nr.sec + (abs.sec - nm.sec)
        n == nr.nsec + (abs.nsec - nm.nsec)
    IN  IF n >= DlBase THEN [sec |-> s + 1, nsec |-> n - DlBase] ELSE [sec |-> s, nsec |-> n]

\* to_realtime() with the two clocks read as nm and nr.
DlToRealtime(abs, nm, nr) ==
    LET s == nr.sec + (abs.sec - nm.sec)
        n == nr.nsec + (abs.nsec - nm.nsec)
    IN  IF n >= DlBase THEN [sec |-> s + 1, nsec |-> n - DlBase]
        ELSE IF n < 0 THEN [sec |-> s - 1, nsec |-> n + DlBase]
        ELSE [sec |-> s, nsec |-> n]

\* yield_io_to(): now plus whole seconds plus less than a second of ticks.
DlAfter(now, s, n) ==
    IF now.nsec + n >= DlBase
    THEN [sec |-> now.sec + s + 1, nsec |-> now.nsec + n - DlBase]
    ELSE [sec |-> now.sec + s, nsec |-> now.nsec + n]

\* pthread_cond_clockwait() on CLOCK_MONOTONIC.
DlCondWait(abs) ==
    /\ ~dlOn
    /\ dlAbs' = abs
    /\ dlDeadline' = DlToRealtime(abs, dlMono, dlReal)
    /\ dlOn' = TRUE /\ UNCHANGED <<dlMono, dlReal>>

\* poll() with a time-out of s seconds and m milliseconds, m less than 1000.
DlPoll(s, m) ==
    /\ ~dlOn
    /\ dlAbs' = DlAfter(dlMono, s, m * DlMs)
    /\ dlDeadline' = DlAfter(dlReal, s, m * DlMs)
    /\ dlOn' = TRUE /\ UNCHANGED <<dlMono, dlReal>>

\* Both clocks advance by a tick.
DlTick ==
    /\ dlMono.sec < DlMaxSec + 2
    /\ dlMono' = DlAfter(dlMono, 0, 1)
    /\ dlReal' = DlAfter(dlReal, 0, 1)
    /\ UNCHANGED <<dlOn, dlAbs, dlDeadline>>

\* The wait is over, by the deadline or by a signal.
DlWake ==
    /\ dlOn /\ dlOn' = FALSE
    /\ UNCHANGED <<dlMono, dlReal, dlAbs, dlDeadline>>

\* poll()'s whole seconds are bounded by the run, its milliseconds by a second.
DlNext ==
    \/ \E s \in 0..DlMaxSec, n \in 0..(DlBase - 1) : DlCondWait([sec |-> s, nsec |-> n])
    \/ \E s \in 0..DlMaxSec, m \in {k \in 0..DlBase : k * DlMs < DlBase} : DlPoll(s, m)
    \/ DlTick \/ DlWake

DlSpec == DlInit /\ [][DlNext]_dlVars

-----------------------------------------------------------------------------
\* A fiber's wait ends when its caller asked for, not a tick earlier or later:
\* the carrier finds the deadline passed on CLOCK_REALTIME exactly when the
\* time-out has passed on the caller's clock.
DlOnTime == dlOn => (DlLate(dlReal, dlDeadline) <=> DlLate(dlMono, dlAbs))
=============================================================================
