--------------------------- MODULE DeadlineProofs ---------------------------
(***************************************************************************)
(* to_realtime() is exact: DlOnTime for clocks of any resolution.          *)
(* The two clocks keep their distance, up to a carry between seconds and   *)
(* ticks; the deadline has the same distance from the time-out.            *)
(***************************************************************************)
EXTENDS Deadline, TLAPS

\* struct timespec, normalised; differences may be before the epoch.
DlStamp == [sec : Int, nsec : 0..(DlBase - 1)]

\* a - b = c - d, for normalised times; k carries between seconds and ticks.
SameGap(a, b, c, d) ==
    \E k \in {-1, 0, 1} :
        /\ a.sec - b.sec = (c.sec - d.sec) + k
        /\ a.nsec - b.nsec = (c.nsec - d.nsec) - (IF k = 1 THEN DlBase ELSE IF k = -1 THEN -DlBase ELSE 0)

\* The inductive invariant.
DlInv ==
    /\ dlMono \in DlStamp /\ dlReal \in DlStamp /\ dlAbs \in DlStamp /\ dlDeadline \in DlStamp
    /\ dlOn \in BOOLEAN
    /\ dlOn => SameGap(dlDeadline, dlReal, dlAbs, dlMono)

\* The conversion returns a normalised time at the same distance.
LEMMA ToRealtimeExact ==
    ASSUME NEW abs \in DlStamp, NEW nm \in DlStamp, NEW nr \in DlStamp
    PROVE  /\ DlToRealtime(abs, nm, nr) \in DlStamp
           /\ SameGap(DlToRealtime(abs, nm, nr), nr, abs, nm)
BY DlAssumption, SMT DEF DlToRealtime, SameGap, DlStamp

\* Adding less than a second of ticks to two clocks keeps their distance.
LEMMA AfterExact ==
    ASSUME NEW a \in DlStamp, NEW b \in DlStamp, NEW s \in Int, NEW n \in 0..(DlBase - 1)
    PROVE  /\ DlAfter(a, s, n) \in DlStamp
           /\ DlAfter(b, s, n) \in DlStamp
           /\ SameGap(DlAfter(a, s, n), a, DlAfter(b, s, n), b)
BY DlAssumption, SMT DEF DlAfter, SameGap, DlStamp

LEMMA GapDecides ==
    ASSUME NEW a \in DlStamp, NEW b \in DlStamp, NEW c \in DlStamp, NEW d \in DlStamp,
           SameGap(a, b, c, d)
    PROVE  DlLate(b, a) <=> DlLate(d, c)
BY DlAssumption, SMT DEF SameGap, DlLate, DlStamp

\* Both clocks advance by the same amount: the gap to a fixed time stays.
LEMMA GapAdvances ==
    ASSUME NEW a \in DlStamp, NEW b \in DlStamp, NEW c \in DlStamp, NEW d \in DlStamp,
           NEW s \in Int, NEW n \in 0..(DlBase - 1),
           SameGap(a, b, c, d)
    PROVE  SameGap(a, DlAfter(b, s, n), c, DlAfter(d, s, n))
BY DlAssumption, SMT DEF SameGap, DlAfter, DlStamp

LEMMA DlInit_Inv == DlInit => DlInv
<1> SUFFICES ASSUME DlInit PROVE DlInv
    OBVIOUS
<1>1. dlMono \in DlStamp /\ dlReal \in DlStamp
    BY DlAssumption, SMT DEF DlInit, DlStamp
<1>2. dlAbs \in DlStamp /\ dlDeadline \in DlStamp /\ dlOn = FALSE
    BY <1>1 DEF DlInit
<1> QED BY <1>1, <1>2 DEF DlInv

LEMMA DlNext_Inv == DlInv /\ [DlNext]_dlVars => DlInv'
<1> SUFFICES ASSUME DlInv, [DlNext]_dlVars PROVE DlInv'
    OBVIOUS
<1>1. ASSUME NEW s \in 0..DlMaxSec, NEW n \in 0..(DlBase - 1), DlCondWait([sec |-> s, nsec |-> n])
      PROVE  DlInv'
    <2> DEFINE abs == [sec |-> s, nsec |-> n]
    <2>1. abs \in DlStamp
        BY DlAssumption DEF DlStamp
    <2> HIDE DEF abs
    <2>2. /\ DlToRealtime(abs, dlMono, dlReal) \in DlStamp
          /\ SameGap(DlToRealtime(abs, dlMono, dlReal), dlReal, abs, dlMono)
        BY <2>1, ToRealtimeExact DEF DlInv
    <2>3. /\ dlAbs' = abs /\ dlDeadline' = DlToRealtime(abs, dlMono, dlReal)
          /\ dlOn' = TRUE /\ dlMono' = dlMono /\ dlReal' = dlReal
        BY <1>1 DEF DlCondWait, abs
    <2> QED BY <2>1, <2>2, <2>3 DEF DlInv
<1>2. ASSUME NEW s \in 0..DlMaxSec, NEW m \in {k \in 0..DlBase : k * DlMs < DlBase}, DlPoll(s, m)
      PROVE  DlInv'
    <2>1. m * DlMs \in 0..(DlBase - 1)
        BY DlAssumption, SMT
    <2>2. /\ DlAfter(dlReal, s, m * DlMs) \in DlStamp /\ DlAfter(dlMono, s, m * DlMs) \in DlStamp
          /\ SameGap(DlAfter(dlReal, s, m * DlMs), dlReal, DlAfter(dlMono, s, m * DlMs), dlMono)
        BY <2>1, AfterExact, DlAssumption DEF DlInv
    <2> QED BY <1>2, <2>2 DEF DlInv, DlPoll
<1>3. ASSUME DlTick PROVE DlInv'
    <2>1. CASE DlBase = 1
        BY <1>3, <2>1, SMT DEF DlTick, DlInv, DlStamp, DlAfter, SameGap
    <2>2. CASE DlBase > 1
        <3>1. 1 \in 0..(DlBase - 1) /\ 0 \in Int
            BY <2>2, DlAssumption
        <3>2. DlAfter(dlReal, 0, 1) \in DlStamp /\ DlAfter(dlMono, 0, 1) \in DlStamp
            BY <3>1, AfterExact DEF DlInv
        <3>3. dlOn => SameGap(dlDeadline, DlAfter(dlReal, 0, 1), dlAbs, DlAfter(dlMono, 0, 1))
            BY <3>1, GapAdvances DEF DlInv
        <3> QED BY <1>3, <3>2, <3>3 DEF DlInv, DlTick
    <2> QED BY <2>1, <2>2, DlAssumption
<1>4. ASSUME DlWake PROVE DlInv'
    BY <1>4 DEF DlWake, DlInv
<1>5. CASE UNCHANGED dlVars
    BY <1>5 DEF dlVars, DlInv, SameGap
<1> QED BY <1>1, <1>2, <1>3, <1>4, <1>5 DEF DlNext

\* A wait with a time-out on any clock ends on time: to_realtime() and the
\* addition in yield_io_to() are exact and normalise with a single carry.
THEOREM DeadlineOnTime == DlSpec => []DlOnTime
<1>1. DlInv => DlOnTime
    BY GapDecides DEF DlInv, DlOnTime
<1> QED BY DlInit_Inv, DlNext_Inv, <1>1, PTL DEF DlSpec
=============================================================================
