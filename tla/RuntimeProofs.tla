---------------------------- MODULE RuntimeProofs ----------------------------
(***************************************************************************)
(* Proofs about four parts of the runtime and its detector that keep their *)
(* own state: the fiber-aware reader-writer locks, the detector prototype, *)
(* the per-fiber thread state and the context switch.  Each has an         *)
(* inductive invariant of its own; none of the constants is bounded.       *)
(***************************************************************************)
EXTENDS RwLock, DetectorTest, FiberTls, FiberContext, TLAPS

-----------------------------------------------------------------------------
(* Reader-writer locks. *)

RwTypeOK ==
    /\ rwPc \in [RwAll -> {"idle", "want", "hold", "back", "done"}]
    /\ rwMode \in [RwAll -> {"rd", "wr"}]
    /\ rwRd \subseteq RwAll /\ rwWr \subseteq RwAll
    /\ rwVal \in Nat /\ rwLoc \in [RwAll -> Nat]

RwHolds(x) == rwPc[x] \in {"hold", "back"}

\* The real lock is held by who is between lock and unlock, in the mode of its
\* round; a writer shares it with nobody.
RwLockInv ==
    /\ \A x \in RwAll : x \in rwRd <=> RwHolds(x) /\ rwMode[x] = "rd"
    /\ \A x \in RwAll : x \in rwWr <=> RwHolds(x) /\ rwMode[x] = "wr"
    /\ \A x \in rwWr : rwRd = {} /\ rwWr = {x}

\* What a holder read is the value.
RwReadInv == \A x \in RwAll : RwHolds(x) => rwLoc[x] = rwVal

RwIndInv == RwTypeOK /\ RwLockInv /\ RwReadInv

LEMMA RwInitInv == RwInit => RwIndInv
  BY DEF RwInit, RwIndInv, RwTypeOK, RwLockInv, RwReadInv, RwHolds

\* Steps of the carrier and the device, and steps outside the lock.
LEMMA RwQuietStep ==
  ASSUME RwIndInv, NEW x \in RwAll,
         \/ RwVisit \/ RwComplete(x) \/ RwOffload(x) \/ RwExit(x)
         \/ \E mode \in {"rd", "wr"} : RwBegin(x, mode)
  PROVE  RwIndInv'
  <1> USE DEF RwIndInv, RwTypeOK, RwVisit, RwComplete, RwOffload, RwExit, RwBegin
  <1>1. RwTypeOK'
    OBVIOUS
  <1>2. RwLockInv' /\ RwReadInv'
    BY DEF RwLockInv, RwReadInv, RwHolds
  <1>3. QED
    BY <1>1, <1>2

\* Whoever gets the lock found no writer, and a writer found nobody.
LEMMA RwTakeStep ==
  ASSUME RwIndInv, NEW x \in RwAll, rwPc[x] = "want", RwTry(rwMode[x]), RwTake(x),
         UNCHANGED <<rwMode, rwVal>>
  PROVE  RwIndInv'
  <1> USE DEF RwIndInv, RwTypeOK, RwTake, RwTry, RwTryRd, RwTryWr
  <1>1. RwTypeOK'
    OBVIOUS
  <1>2. RwLockInv'
    BY DEF RwLockInv, RwHolds
  <1>3. RwReadInv'
    BY DEF RwReadInv, RwHolds
  <1>4. QED
    BY <1>1, <1>2, <1>3

LEMMA RwFiberLockStep ==
  ASSUME RwIndInv, NEW x \in RwAll, RwFiberLock(x) \/ RwThreadLock(x)
  PROVE  RwIndInv'
  <1>1. CASE RwTry(rwMode[x])
    BY <1>1, RwTakeStep DEF RwFiberLock, RwThreadLock
  <1>2. CASE ~RwTry(rwMode[x])
    <2>1. UNCHANGED <<rwPc, rwMode, rwLoc, rwRd, rwWr, rwVal>>
      BY <1>2 DEF RwFiberLock, RwThreadLock
    <2>2. QED
      BY <2>1 DEF RwIndInv, RwTypeOK, RwLockInv, RwReadInv, RwHolds
  <1>3. QED
    BY <1>1, <1>2

\* A writer's store changes what nobody else has read.
LEMMA RwUnlockStep ==
  ASSUME RwIndInv, NEW x \in RwAll, RwUnlock(x)
  PROVE  RwIndInv'
  <1> USE DEF RwIndInv, RwTypeOK, RwUnlock
  <1>1. RwTypeOK'
    OBVIOUS
  <1>2. RwLockInv'
    BY DEF RwLockInv, RwHolds
  <1>3. RwReadInv'
    BY DEF RwReadInv, RwLockInv, RwHolds
  <1>4. QED
    BY <1>1, <1>2, <1>3

LEMMA RwNextInv == RwIndInv /\ [RwNext]_rwVars => RwIndInv'
  <1> SUFFICES ASSUME RwIndInv, [RwNext]_rwVars PROVE RwIndInv'
    OBVIOUS
  <1>1. CASE RwVisit
    <2>1. 1 \in RwAll
      BY RwAssumption DEF RwAll, RwFiber
    <2>2. QED
      BY <1>1, <2>1, RwQuietStep
  <1>2. ASSUME NEW f \in RwFiber, RwComplete(f) PROVE RwIndInv'
    <2>1. f \in RwAll
      BY DEF RwAll
    <2>2. QED
      BY <1>2, <2>1, RwQuietStep
  <1>3. ASSUME NEW x \in RwAll, RwStep(x) PROVE RwIndInv'
    BY <1>3, RwQuietStep, RwFiberLockStep, RwUnlockStep DEF RwStep
  <1>4. CASE UNCHANGED rwVars
    BY <1>4 DEF rwVars, RwIndInv, RwTypeOK, RwLockInv, RwReadInv, RwHolds
  <1>5. QED
    BY <1>1, <1>2, <1>3, <1>4 DEF RwNext

\* pthread_rwlock_wrlock() by polling keeps a writer alone, whatever fibers
\* and threads do while it is parked in its offload: the value that it adds
\* one to is the value that it read.
THEOREM RwCorrect == RwSpec => []RwNoLost
  <1>1. RwIndInv => RwNoLost
    BY DEF RwIndInv, RwReadInv, RwHolds, RwNoLost
  <1>2. QED
    BY <1>1, RwInitInv, RwNextInv, PTL DEF RwSpec

-----------------------------------------------------------------------------
(* The detector prototype. *)

DtTypeOK ==
    /\ dtPc \in [DtFiber -> {"new", "parked", "done"}]
    /\ dtWord \in [DtFiber -> DtWord]
    /\ dtV \in [DtFiber -> Nat] /\ dtParkClk \in [DtFiber -> Nat]
    /\ dtMem \in [DtWord -> Nat] /\ dtPver \in [DtPage -> Nat]
    /\ dtGclk \in Nat /\ dtConflicts \in Nat

\* The clock is ahead of every park, and a word that changed under a parked
\* fiber is on a page whose version is newer than the park.
DtVersionInv ==
    \A f \in DtFiber :
        /\ dtParkClk[f] <= dtGclk
        /\ dtPc[f] = "parked" /\ dtMem[dtWord[f]] # dtV[f]
               => dtPver[DtPageOf[dtWord[f]]] > dtParkClk[f]

DtIndInv == DtTypeOK /\ DtVersionInv

LEMMA DtPages == \A w \in DtWord : DtPageOf[w] \in DtPage
  BY DEF DtPage

LEMMA DtInitInv == DtInit => DtIndInv
  <1> SUFFICES ASSUME DtInit PROVE DtIndInv
    OBVIOUS
  <1>1. DtTypeOK
    BY DEF DtInit, DtTypeOK
  <1>2. DtVersionInv
    BY DEF DtInit, DtVersionInv
  <1>3. QED
    BY <1>1, <1>2 DEF DtIndInv

LEMMA DtParkStep ==
  ASSUME DtIndInv, NEW f \in DtFiber, DtPark(f)
  PROVE  DtIndInv'
  BY DtPages DEF DtIndInv, DtTypeOK, DtVersionInv, DtPark

LEMMA DtResumeStep ==
  ASSUME DtIndInv, NEW f \in DtFiber, DtResume(f)
  PROVE  DtIndInv'
  <1> DEFINE p == DtPageOf[dtWord[f]]
  <1> USE DEF DtIndInv, DtTypeOK, DtResume
  <1>1. p \in DtPage
    BY DtPages
  <1>2. DtSegHandler(f, p)
    BY <1>1 DEF DtProtectAll
  <1>3. DtTypeOK'
    BY <1>1, <1>2 DEF DtSegHandler
  <1>4. DtVersionInv'
    <2> SUFFICES ASSUME NEW g \in DtFiber
                 PROVE  /\ dtParkClk'[g] <= dtGclk'
                        /\ dtPc'[g] = "parked" /\ dtMem'[dtWord'[g]] # dtV'[g]
                               => dtPver'[DtPageOf[dtWord'[g]]] > dtParkClk'[g]
      BY DEF DtVersionInv
    <2>1. dtParkClk'[g] <= dtGclk'
      BY <1>2 DEF DtSegHandler, DtVersionInv
    <2>2. CASE DtPageOf[dtWord[g]] = p
      BY <1>1, <1>2, <2>1, <2>2 DEF DtSegHandler, DtVersionInv
    <2>3. CASE DtPageOf[dtWord[g]] # p
      BY <1>1, <1>2, <2>1, <2>3, DtPages DEF DtSegHandler, DtVersionInv
    <2>4. QED
      BY <2>1, <2>2, <2>3
  <1>5. QED
    BY <1>3, <1>4

LEMMA DtNextInv == DtIndInv /\ [DtNext]_dtVars => DtIndInv'
  <1> SUFFICES ASSUME DtIndInv, [DtNext]_dtVars PROVE DtIndInv'
    OBVIOUS
  <1>1. CASE DtNext
    BY <1>1, DtParkStep, DtResumeStep DEF DtNext
  <1>2. CASE UNCHANGED dtVars
    BY <1>2 DEF dtVars, DtIndInv, DtTypeOK, DtVersionInv
  <1>3. QED
    BY <1>1, <1>2

\* The store that overwrites an update is counted by its own SIGSEGV.
LEMMA DtCaughtStep ==
  ASSUME DtIndInv, DtNext, NEW f \in DtFiber,
         dtPc[f] = "parked", dtPc'[f] = "done", dtMem[dtWord[f]] # dtV[f]
  PROVE  dtConflicts' = dtConflicts + 1
  <1>1. DtResume(f)
    <2>1. ASSUME NEW g \in DtFiber, DtPark(g) PROVE FALSE
      BY <2>1 DEF DtIndInv, DtTypeOK, DtPark
    <2>2. ASSUME NEW g \in DtFiber, DtResume(g), g # f PROVE FALSE
      BY <2>2 DEF DtIndInv, DtTypeOK, DtResume
    <2>3. QED
      BY <2>1, <2>2 DEF DtNext
  <1>2. DtSegHandler(f, DtPageOf[dtWord[f]])
    BY <1>1, DtPages DEF DtIndInv, DtTypeOK, DtResume, DtProtectAll
  <1>3. QED
    BY <1>2 DEF DtSegHandler, DtIndInv, DtVersionInv

\* "CAUGHT THE CROSS-FIBER CONFLICT": no order of parks and resumptions, and no
\* sharing of pages, makes the detector miss a store that overwrites an update
\* made while its fiber was parked.
THEOREM DtCaught == DtSpec => DtLostIsCaught
  <1> DEFINE Caught == \A f \in DtFiber :
                 dtPc[f] = "parked" /\ dtPc'[f] = "done" /\ dtMem[dtWord[f]] # dtV[f]
                     => dtConflicts' = dtConflicts + 1
  <1>1. DtIndInv /\ [DtNext]_dtVars => [Caught]_dtVars
    BY DtCaughtStep
  <1>2. DtInit => DtIndInv
    BY DtInitInv
  <1>3. DtIndInv /\ [DtNext]_dtVars => DtIndInv'
    BY DtNextInv
  <1>4. QED
    BY <1>1, <1>2, <1>3, PTL DEF DtSpec, DtLostIsCaught

-----------------------------------------------------------------------------
(* Per-fiber thread state. *)

FtFiberRecord ==
    [serr : FtValue, errbuf : Seq(FtValue), tls : FtFiber \cup {"none"},
     how : FtYields \cup {"new", "done"}, n : Nat]

FtTypeOK ==
    /\ ftRt \in {"libtransparent", "coop_saved", "coop_naive"}
    /\ ftCur \in FtFiber \cup {"sched"}
    /\ ftF \in [FtFiber -> FtFiberRecord] /\ DOMAIN ftMark = FtFiber

\* A fiber that has yielded left its mark, and what the runtime saves for it is
\* the mark; it has its own copy of the first keys.
FtSavedInv ==
    \A f \in FtFiber :
        /\ ftF[f].how = "new" <=> ftF[f].n = 0
        /\ ftF[f].how \in FtYields =>
               /\ ftF[f].tls = f
               /\ FtSaves(ftF[f].how) => ftF[f].serr = ftMark[f].errno
               /\ ftRt = "coop_saved" => ftF[f].errbuf = ftMark[f].queue

\* The running fiber has been given back what was saved for it.
FtRunInv ==
    \A f \in FtFiber : ftCur = f =>
        /\ ftF[f].how # "done"
        /\ ftF[f].how \in FtYields =>
               /\ FtSaves(ftF[f].how) => ftErrno = ftMark[f].errno
               /\ ftRt = "coop_saved" => ftQueue = ftMark[f].queue

FtIndInv == FtTypeOK /\ FtSavedInv /\ FtRunInv /\ FtKept

LEMMA FtInitInv == FtInit => FtIndInv
  <1> SUFFICES ASSUME FtInit PROVE FtIndInv
    OBVIOUS
  <1> USE FtAssumption DEF FtInit
  <1>1. FtTypeOK
    BY DEF FtTypeOK, FtFiberRecord, FtUnset, FtValue
  <1>2. FtSavedInv /\ FtRunInv
    BY DEF FtSavedInv, FtRunInv, FtYields
  <1>3. FtKept
    BY DEF FtKept, FtSavedIsClean, FtErrnoKept
  <1>4. QED
    BY <1>1, <1>2, <1>3 DEF FtIndInv

LEMMA FtResumeStep ==
  ASSUME FtIndInv, NEW f \in FtFiber, FtResume(f)
  PROVE  FtIndInv'
  <1> USE FtAssumption DEF FtIndInv, FtResume
  <1>1. FtTypeOK'
    BY DEF FtTypeOK
  <1>2. FtSavedInv'
    BY DEF FtSavedInv, FtSaves
  <1>3. FtRunInv'
    <2>1. ftCur' = f /\ ftF' = ftF /\ ftMark' = ftMark /\ ftRt' = ftRt /\ ftF[f].how # "done"
      OBVIOUS
    <2>2. ASSUME ftF[f].how \in FtYields, FtSaves(ftF[f].how) PROVE ftErrno' = ftMark[f].errno
      <3>1. ftF[f].how # "new" /\ ftF[f].serr = ftMark[f].errno
        BY <2>2 DEF FtSavedInv, FtYields
      <3>2. QED
        BY <2>2, <3>1
    <2>3. ASSUME ftF[f].how \in FtYields, ftRt = "coop_saved" PROVE ftQueue' = ftMark[f].queue
      <3>1. ftF[f].how # "new" /\ ftF[f].errbuf = ftMark[f].queue
        BY <2>3 DEF FtSavedInv, FtYields
      <3>2. FtSaves(ftF[f].how)
        BY <2>3 DEF FtSaves
      <3>3. QED
        BY <2>3, <3>1, <3>2
    <2>4. FtSaves(ftF[f].how)' <=> FtSaves(ftF[f].how)
      BY <2>1 DEF FtSaves
    <2> HIDE DEF FtIndInv, FtResume
    <2>5. QED
      BY <2>1, <2>2, <2>3, <2>4 DEF FtRunInv, FtSaves
  <1>4. FtKept'
    BY DEF FtKept, FtSavedIsClean, FtErrnoKept
  <1>5. QED
    BY <1>1, <1>2, <1>3, <1>4

\* What a running fiber finds different after a yield.
LEMMA FtDiffKept ==
  ASSUME FtIndInv, NEW f \in FtFiber, ftCur = f, ftF[f].how # "new", ftBad' = FtDiff(f)
  PROVE  FtKept'
  <1>1. ftF[f].how \in FtYields
    BY DEF FtIndInv, FtTypeOK, FtFiberRecord, FtRunInv
  <1> SUFFICES ASSUME NEW b \in FtDiff(f)
               PROVE  /\ b[1] = "coop_saved" => b[3] \in {"key", "high_key"}
                      /\ b[1] = "libtransparent" =>
                             b[3] # "key" /\ (b[3] = "errno" => b[2] = "cond")
    BY DEF FtKept, FtSavedIsClean, FtErrnoKept
  <1>2. PICK what \in {"errno", "queue", "key", "high_key"} :
            /\ b = <<ftRt, ftF[f].how, what>>
            /\ \/ what = "errno" /\ ftErrno # ftMark[f].errno
               \/ what = "queue" /\ ftQueue # ftMark[f].queue
               \/ what = "key" /\ FtGetspecific(f, 127) # f
               \/ what = "high_key" /\ FtGetspecific(f, 128) # f
    BY DEF FtDiff
  <1>3. b[1] = ftRt /\ b[2] = ftF[f].how /\ b[3] = what
    BY <1>2
  <1>4. CASE ftRt = "coop_saved"
    BY <1>1, <1>2, <1>3, <1>4 DEF FtIndInv, FtRunInv, FtSavedInv, FtSaves
  <1>5. CASE ftRt = "libtransparent"
    BY <1>1, <1>2, <1>3, <1>5 DEF FtIndInv, FtRunInv, FtSavedInv, FtSaves, FtGetspecific
  <1>6. QED
    BY <1>3, <1>4, <1>5

LEMMA FtEndStep ==
  ASSUME FtIndInv, NEW f \in FtFiber, FtEnd(f)
  PROVE  FtIndInv'
  <1> USE FtAssumption DEF FtIndInv, FtEnd
  <1>1. FtTypeOK'
    <2>1. [ftF[f] EXCEPT !.how = "done"] \in FtFiberRecord
      BY DEF FtTypeOK, FtFiberRecord
    <2>2. QED
      BY <2>1 DEF FtTypeOK
  <1>2. FtSavedInv'
    <2>1. ftF'[f].how = "done" /\ ftF'[f].n # 0
      BY DEF FtTypeOK, FtFiberRecord
    <2>2. \A g \in FtFiber \ {f} : ftF'[g] = ftF[g]
      BY DEF FtTypeOK
    <2>3. ftRt' = ftRt /\ ftMark' = ftMark
      OBVIOUS
    <2>4. \A w \in FtYields : FtSaves(w)' = FtSaves(w)
      BY <2>3 DEF FtSaves
    <2>5. QED
      BY <2>1, <2>2, <2>3, <2>4 DEF FtSavedInv, FtYields
  <1>3. FtRunInv'
    BY DEF FtRunInv
  <1>4. FtKept'
    BY FtDiffKept DEF FtSavedInv, FtTypeOK, FtFiberRecord
  <1>5. QED
    BY <1>1, <1>2, <1>3, <1>4

\* One error fits the buffer, whatever its size.
LEMMA FtOneError ==
  ASSUME NEW v \in FtValue
  PROVE  FtDrained([i \in 1..1 |-> v]).kept = [i \in 1..1 |-> v]
  BY FtAssumption DEF FtDrained, FtMin

LEMMA FtDrainedType ==
  ASSUME NEW v \in FtValue, NEW n \in Nat
  PROVE  FtDrained([i \in 1..n |-> v]).kept \in Seq(FtValue)
  BY FtAssumption DEF FtDrained, FtMin

LEMMA FtYieldStep ==
  ASSUME FtIndInv, NEW f \in FtFiber, NEW how \in FtYields, NEW n \in FtRaise,
         FtYield(f, how, n)
  PROVE  FtIndInv'
  <1> DEFINE v == <<f, ftF[f].n + 1>>
             q == [i \in 1..n |-> v]
             r == ftF'[f]
  <1>1. /\ ftCur' = "sched" /\ ftRt' = ftRt
        /\ ftMark' = [ftMark EXCEPT ![f] = [errno |-> v, queue |-> q]]
        /\ ftCur = f
        /\ ftRt # "libtransparent" => how = "off" /\ n = 1
        /\ ftBad' = IF ftF[f].how = "new" THEN {} ELSE FtDiff(f)
    BY DEF FtYield
  <1>2. v \in FtValue /\ FtDrained(q).kept \in Seq(FtValue)
    <2>1. v \in FtValue
      BY DEF FtIndInv, FtTypeOK, FtFiberRecord, FtValue
    <2> HIDE DEF v
    <2>2. QED
      BY <2>1, FtAssumption, FtDrainedType
  <1>3. /\ DOMAIN ftF' = FtFiber
        /\ \A g \in FtFiber \ {f} : ftF'[g] = ftF[g]
        /\ r = [serr |-> IF FtSaves(how) THEN v ELSE ftF[f].serr,
                errbuf |-> IF FtSaves(how) THEN FtDrained(q).kept ELSE ftF[f].errbuf,
                tls |-> f, how |-> how, n |-> ftF[f].n + 1]
    BY DEF FtYield, FtIndInv, FtTypeOK, FtFiberRecord
  <1> HIDE DEF v, q, r
  <1>4. FtTypeOK'
    <2>1. ftF[f] \in FtFiberRecord
      BY DEF FtIndInv, FtTypeOK
    <2>2. r \in FtFiberRecord
      BY <1>2, <1>3, <2>1 DEF FtFiberRecord
    <2>3. \A g \in FtFiber : ftF'[g] \in FtFiberRecord
      BY <1>3, <2>2 DEF FtIndInv, FtTypeOK, r
    <2>4. ftF' = [g \in FtFiber |-> ftF'[g]]
      BY <1>3 DEF FtYield, FtIndInv, FtTypeOK
    <2>5. ftF' \in [FtFiber -> FtFiberRecord]
      BY <2>3, <2>4
    <2>6. QED
      BY <1>1, <2>5 DEF FtIndInv, FtTypeOK
  <1>5. FtSavedInv'
    <2> SUFFICES ASSUME NEW g \in FtFiber
                 PROVE  /\ ftF'[g].how = "new" <=> ftF'[g].n = 0
                        /\ ftF'[g].how \in FtYields =>
                               /\ ftF'[g].tls = g
                               /\ FtSaves(ftF'[g].how) => ftF'[g].serr = ftMark'[g].errno
                               /\ ftRt = "coop_saved" => ftF'[g].errbuf = ftMark'[g].queue
      BY <1>1 DEF FtSavedInv, FtSaves
    <2>1. CASE g = f
      <3>1. ftMark'[g] = [errno |-> v, queue |-> q]
        BY <1>1, <2>1 DEF FtIndInv, FtTypeOK
      <3>2. r.how = how /\ r.tls = f /\ r.n # 0 /\ (FtSaves(how) => r.serr = v)
        BY <1>3 DEF FtIndInv, FtTypeOK, FtFiberRecord
      <3>3. ftRt = "coop_saved" => r.errbuf = q
        <4>1. SUFFICES ASSUME ftRt = "coop_saved" PROVE r.errbuf = q
          OBVIOUS
        <4>2. n = 1 /\ FtSaves(how)
          BY <1>1, <4>1 DEF FtSaves
        <4>3. FtDrained(q).kept = q
          BY <1>2, <4>2, FtOneError DEF q
        <4>4. QED
          BY <1>3, <4>2, <4>3
      <3>4. QED
        BY <2>1, <3>1, <3>2, <3>3 DEF FtYields, r
    <2>2. CASE g # f
      <3>1. ftF'[g] = ftF[g] /\ ftMark'[g] = ftMark[g]
        BY <1>1, <1>3, <2>2 DEF FtIndInv, FtTypeOK
      <3>2. QED
        BY <3>1 DEF FtIndInv, FtSavedInv
    <2>3. QED
      BY <2>1, <2>2
  <1>6. FtRunInv'
    BY <1>1, FtAssumption DEF FtRunInv
  <1>7. FtKept'
    <2>1. CASE ftF[f].how = "new"
      BY <1>1, <2>1 DEF FtKept, FtSavedIsClean, FtErrnoKept
    <2>2. CASE ftF[f].how # "new"
      BY <1>1, <2>2, FtDiffKept
    <2>3. QED
      BY <2>1, <2>2
  <1>8. QED
    BY <1>4, <1>5, <1>6, <1>7 DEF FtIndInv

LEMMA FtNextInv == FtIndInv /\ [FtNext]_ftVars => FtIndInv'
  <1> SUFFICES ASSUME FtIndInv, [FtNext]_ftVars PROVE FtIndInv'
    OBVIOUS
  <1>1. CASE FtNext
    BY <1>1, FtResumeStep, FtEndStep, FtYieldStep DEF FtNext
  <1>2. CASE UNCHANGED ftVars
    <2> USE <1>2 DEF ftVars, FtIndInv
    <2>1. FtTypeOK' /\ FtKept'
      BY DEF FtTypeOK, FtKept, FtSavedIsClean, FtErrnoKept
    <2>2. FtSavedInv' /\ FtRunInv'
      BY DEF FtSavedInv, FtRunInv, FtSaves
    <2>3. QED
      BY <2>1, <2>2
  <1>3. QED
    BY <1>1, <1>2

\* tls_save() and tls_restore() at the yields: a coroutine of coop_err in the
\* mode "saved" finds its errno and its error queue; a fiber of libtransparent
\* finds the errno of that very yield after each but the condition wait, and
\* its first 128 keys after every yield; for any number of fibers, yields and
\* errors.
THEOREM FtCorrect == FtSpec => []FtKept
  <1>1. FtIndInv => FtKept
    BY DEF FtIndInv
  <1>2. QED
    BY <1>1, FtInitInv, FtNextInv, PTL DEF FtSpec

-----------------------------------------------------------------------------
(* The context switch. *)

\* The context that a switch to f takes from its stack.
FcSaved(f) ==
    [sp |-> <<f, fcF[f].sp + FcFrameSize>>,
     pc |-> fcMem[f][fcF[f].sp + Len(FcFrame) - 1],
     regs |-> [r \in FcRegNames |-> fcMem[f][fcF[f].sp + FcPlace(r) - 1]]]

FcMadeSp == FcTop - (IF FcX86 THEN 8 ELSE 14)

FcTypeOK ==
    /\ fcArch \in {"x86_64", "aarch64"}
    /\ DOMAIN fcMem = FcAll /\ DOMAIN fcLeft = FcAll
    /\ fcF \in [FcAll -> [st : {"none", "made", "live", "done", "freed"}, sp : Nat, n : Nat]]
    /\ fcCur \in FcAll /\ fcF["sched"].st = "live"
    /\ fcRegs = [r \in FcRegNames |-> fcRegs[r]]

\* The running fiber is on its own stack; a new one has just left the switch.
FcRunInv ==
    \/ /\ fcF[fcCur].st = "live"
       /\ [sp |-> fcSp, pc |-> fcPc, regs |-> fcRegs] = fcLeft[fcCur]
       /\ \E a \in FcFrameSize..FcTop : fcSp = <<fcCur, a>>
    \/ /\ fcF[fcCur].st = "made" /\ fcCur # "sched"
       /\ fcPc = FcTrampoline /\ fcRegs[FcFrame[1]] = <<fcCur>>
       /\ fcSp = <<fcCur, FcMadeSp + FcFrameSize>>

\* The others: what a switch would restore is what they left with.
FcWaitInv ==
    \A f \in FcAll : f # fcCur =>
        /\ fcF[f].st = "live" => fcF[f].sp + FcFrameSize <= FcTop /\ fcLeft[f] = FcSaved(f)
        /\ fcF[f].st = "made" => /\ fcF[f].sp = FcMadeSp /\ FcSaved(f).pc = FcTrampoline
                                 /\ FcSaved(f).regs[FcFrame[1]] = <<f>>

FcIndInv == FcTypeOK /\ FcRunInv /\ FcWaitInv

\* The layout of a frame: every register has a place, below the return address.
LEMMA FcLayout ==
  ASSUME fcArch \in {"x86_64", "aarch64"}
  PROVE  /\ \/ FcX86 /\ Len(FcFrame) = 7 /\ FcFrameSize = 7
            \/ ~FcX86 /\ Len(FcFrame) = 12 /\ FcFrameSize = 14
         /\ FcFrame[Len(FcFrame)] = "ret"
         /\ \A k \in 1..(Len(FcFrame) - 1) : FcFrame[k] \in FcRegNames /\ FcPlace(FcFrame[k]) = k
         /\ \A r \in FcRegNames : FcPlace(r) \in 1..(Len(FcFrame) - 1) /\ FcFrame[FcPlace(r)] = r
  <1>1. /\ \/ FcX86 /\ Len(FcFrame) = 7 /\ FcFrameSize = 7
           \/ ~FcX86 /\ Len(FcFrame) = 12 /\ FcFrameSize = 14
        /\ FcFrame[Len(FcFrame)] = "ret"
    BY DEF FcFrame, FcX86, FcFrameSize
  <1>2. \A k, l \in 1..Len(FcFrame) : FcFrame[k] = FcFrame[l] => k = l
    <2>1. CASE FcX86
      BY <1>1, <2>1 DEF FcFrame
    <2>2. CASE ~FcX86
      BY <1>1, <2>2 DEF FcFrame
    <2>3. QED
      BY <2>1, <2>2
  <1>3. ASSUME NEW k \in 1..(Len(FcFrame) - 1) PROVE FcFrame[k] \in FcRegNames /\ FcPlace(FcFrame[k]) = k
    <2>1. k \in 1..Len(FcFrame)
      BY <1>1
    <2>2. FcPlace(FcFrame[k]) \in 1..Len(FcFrame) /\ FcFrame[FcPlace(FcFrame[k])] = FcFrame[k]
      BY <2>1 DEF FcPlace
    <2>3. QED
      BY <1>2, <2>1, <2>2 DEF FcRegNames
  <1>4. ASSUME NEW r \in FcRegNames PROVE FcPlace(r) \in 1..(Len(FcFrame) - 1) /\ FcFrame[FcPlace(r)] = r
    <2>1. PICK k \in 1..(Len(FcFrame) - 1) : r = FcFrame[k]
      BY DEF FcRegNames
    <2>2. QED
      BY <1>3, <2>1
  <1>5. QED
    BY <1>1, <1>3, <1>4

LEMMA FcSizes ==
  ASSUME fcArch \in {"x86_64", "aarch64"}
  PROVE  /\ Len(FcFrame) \in Nat /\ FcFrameSize \in Nat /\ 7 <= Len(FcFrame) /\ Len(FcFrame) <= FcFrameSize
         /\ FcFrameSize <= 14 /\ FcMadeSp \in Nat /\ FcMadeSp + FcFrameSize <= FcTop
         /\ 1 \in 1..(Len(FcFrame) - 1) /\ FcTop \in Nat
  <1>1. \/ FcX86 /\ Len(FcFrame) = 7 /\ FcFrameSize = 7
        \/ ~FcX86 /\ Len(FcFrame) = 12 /\ FcFrameSize = 14
    BY FcLayout
  <1>2. FcTop \in Nat /\ FcTop >= 18
    BY FcAssumption
  <1>3. CASE FcX86
    <2>1. Len(FcFrame) = 7 /\ FcFrameSize = 7 /\ FcMadeSp = FcTop - 8
      BY <1>1, <1>3 DEF FcMadeSp
    <2>2. QED
      BY <1>2, <2>1
  <1>4. CASE ~FcX86
    <2>1. Len(FcFrame) = 12 /\ FcFrameSize = 14 /\ FcMadeSp = FcTop - 14
      BY <1>1, <1>4 DEF FcMadeSp
    <2>2. QED
      BY <1>2, <2>1
  <1>5. QED
    BY <1>3, <1>4

\* The architecture and with it the layout do not change.
LEMMA FcSameLayout ==
  ASSUME UNCHANGED fcArch
  PROVE  /\ FcFrame' = FcFrame /\ FcFrameSize' = FcFrameSize /\ FcRegNames' = FcRegNames /\ FcMadeSp' = FcMadeSp
         /\ \A r : FcPlace(r)' = FcPlace(r)
  BY DEF FcFrame, FcFrameSize, FcRegNames, FcMadeSp, FcPlace, FcX86

LEMMA FcInitInv == FcInit => FcIndInv
  <1> SUFFICES ASSUME FcInit PROVE FcIndInv
    OBVIOUS
  <1>1. FcTypeOK
    BY DEF FcInit, FcTypeOK, FcAll
  <1>2. fcCur = "sched" /\ fcCur \in FcAll
    BY DEF FcInit, FcAll
  <1>3. FcTop - 2 \in FcFrameSize..FcTop
    BY <1>1, FcAssumption, FcLayout DEF FcTypeOK
  <1>4. FcRunInv
    BY <1>2, <1>3 DEF FcInit, FcRunInv
  <1>5. FcWaitInv
    BY DEF FcInit, FcWaitInv
  <1>6. QED
    BY <1>1, <1>4, <1>5 DEF FcIndInv

LEMMA FcSavedStays ==
  ASSUME UNCHANGED fcArch, NEW g \in FcAll, fcMem'[g] = fcMem[g], fcF'[g].sp = fcF[g].sp
  PROVE  FcSaved(g)' = FcSaved(g)
  BY FcSameLayout DEF FcSaved

\* fw_ctx_swap(): the context that is pushed is the one that a later switch pops.
LEMMA FcSwapStep ==
  ASSUME FcIndInv, NEW f \in FcAll, NEW g \in FcAll, f # g, fcCur = f, fcF[f].st = "live",
         fcF[g].st \in {"made", "live"}, NEW at \in FcFrameSize..FcTop, FcSwap(f, g, at), UNCHANGED fcArch
  PROVE  FcIndInv'
  <1> DEFINE sp == at - FcFrameSize
             ret == <<f, fcF[f].n + 1>>
             n == Len(FcFrame)
             r1 == [fcF[f] EXCEPT !.sp = sp]
             r2 == [r1 EXCEPT !.n = r1.n + 1]
  <1> fcArch \in {"x86_64", "aarch64"}
    BY DEF FcIndInv, FcTypeOK
  <1>1. /\ n \in Nat /\ FcFrameSize \in Nat /\ 7 <= n /\ n <= FcFrameSize /\ FcTop \in Nat
        /\ \A r \in FcRegNames : FcPlace(r) \in 1..(n - 1) /\ FcFrame[FcPlace(r)] = r
        /\ FcFrame[1] \in FcRegNames
    BY FcLayout, FcSizes
  <1>2. sp \in Nat /\ sp + FcFrameSize = at /\ sp + n <= FcTop
    BY <1>1
  <1>3. /\ fcMem' = [fcMem EXCEPT ![f] = FcPushed(f, sp, ret)]
        /\ fcMem'[f] = FcPushed(f, sp, ret) /\ \A h \in FcAll : h # f => fcMem'[h] = fcMem[h]
        /\ DOMAIN fcMem' = FcAll
    BY DEF FcSwap, FcIndInv, FcTypeOK
  <1>4. /\ fcF'[f].st = "live" /\ fcF'[f].sp = sp /\ \A h \in FcAll : h # f => fcF'[h] = fcF[h]
        /\ fcF' \in [FcAll -> [st : {"none", "made", "live", "done", "freed"}, sp : Nat, n : Nat]]
    <2>1. fcF' = [fcF EXCEPT ![f] = r2]
      BY DEF FcSwap, FcIndInv, FcTypeOK
    <2>2. r1 \in [st : {"none", "made", "live", "done", "freed"}, sp : Nat, n : Nat] /\ r1.st = "live" /\ r1.sp = sp
      BY <1>2 DEF FcIndInv, FcTypeOK
    <2> HIDE DEF r1
    <2>3. r2 \in [st : {"none", "made", "live", "done", "freed"}, sp : Nat, n : Nat] /\ r2.st = "live" /\ r2.sp = sp
      BY <2>2
    <2> HIDE DEF r2
    <2>4. QED
      BY <2>1, <2>3 DEF FcIndInv, FcTypeOK
  <1>5. fcMem'[f][sp + n - 1] = ret
    <2>1. sp + n - 1 \in 0..(FcTop - 1)
      BY <1>1, <1>2
    <2>2. QED
      BY <1>3, <2>1 DEF FcPushed
  <1>6. ASSUME NEW r \in FcRegNames PROVE fcMem'[f][sp + FcPlace(r) - 1] = fcRegs[r]
    <2>1. FcPlace(r) \in 1..(n - 1)
      BY <1>1
    <2> HIDE DEF sp, n
    <2>2. /\ sp + FcPlace(r) - 1 \in 0..(FcTop - 1) /\ sp + FcPlace(r) - 1 # sp + n - 1
          /\ (sp + FcPlace(r) - 1) - sp \in 0..(n - 2) /\ (sp + FcPlace(r) - 1) - sp + 1 = FcPlace(r)
      BY <1>1, <1>2, <2>1
    <2>3. FcPushed(f, sp, ret)[sp + FcPlace(r) - 1] = fcRegs[FcFrame[FcPlace(r)]]
      BY <2>2 DEF FcPushed, n
    <2>4. QED
      BY <1>1, <1>3, <2>3
  <1>7. /\ fcLeft'[f] = [sp |-> <<f, at>>, pc |-> ret, regs |-> fcRegs]
        /\ \A h \in FcAll : h # f => fcLeft'[h] = fcLeft[h]
        /\ DOMAIN fcLeft' = FcAll /\ fcCur' = g
    BY DEF FcSwap, FcIndInv, FcTypeOK
  <1>8. FcSaved(f)' = fcLeft'[f]
    <2>1. [r \in FcRegNames |-> fcMem'[f][sp + FcPlace(r) - 1]] = fcRegs
      BY <1>6 DEF FcIndInv, FcTypeOK
    <2>2. FcSaved(f)' = [sp |-> <<f, sp + FcFrameSize>>, pc |-> fcMem'[f][sp + n - 1],
                         regs |-> [r \in FcRegNames |-> fcMem'[f][sp + FcPlace(r) - 1]]]
      BY <1>4, FcSameLayout DEF FcSaved
    <2>3. QED
      BY <1>2, <1>5, <1>7, <2>1, <2>2
  <1>9. \A h \in FcAll : h # f => FcSaved(h)' = FcSaved(h)
    BY <1>3, <1>4, FcSavedStays
  <1>10. fcSp' = FcSaved(g).sp /\ fcPc' = FcSaved(g).pc /\ fcRegs' = FcSaved(g).regs
    <2>1. fcMem'[g] = fcMem[g]
      BY <1>3
    <2>2. /\ fcSp' = <<g, fcF[g].sp + FcFrameSize>> /\ fcPc' = fcMem'[g][fcF[g].sp + n - 1]
          /\ fcRegs' = [r \in FcRegNames |-> fcMem'[g][fcF[g].sp + FcPlace(r) - 1]]
      BY DEF FcSwap
    <2>3. QED
      BY <2>1, <2>2 DEF FcSaved
  <1>11. FcTypeOK'
    <2>1. fcF'["sched"].st = "live"
      BY <1>4 DEF FcIndInv, FcTypeOK, FcAll
    <2>2. fcRegs' = [r \in FcRegNames |-> fcRegs'[r]]
      BY <1>10 DEF FcSaved
    <2>3. QED
      BY <1>3, <1>4, <1>7, <2>1, <2>2, FcSameLayout DEF FcIndInv, FcTypeOK
  <1>12. FcRunInv'
    <2>1. CASE fcF[g].st = "live"
      <3>1. fcLeft[g] = FcSaved(g) /\ fcF[g].sp \in Nat /\ fcF[g].sp + FcFrameSize <= FcTop
        BY <2>1 DEF FcIndInv, FcWaitInv, FcTypeOK
      <3>2. fcSp' = <<g, fcF[g].sp + FcFrameSize>>
        BY <1>10 DEF FcSaved
      <3>3. fcF[g].sp + FcFrameSize \in FcFrameSize..FcTop
        <4>1. \A a, b \in Nat : a + b <= FcTop => a + b \in b..FcTop
          BY FcAssumption
        <4>2. FcFrameSize \in Nat
          BY <1>1
        <4>3. QED
          BY <3>1, <4>1, <4>2
      <3>4. [sp |-> fcSp', pc |-> fcPc', regs |-> fcRegs'] = FcSaved(g)
        <4>1. FcSaved(g) = [sp |-> FcSaved(g).sp, pc |-> FcSaved(g).pc, regs |-> FcSaved(g).regs]
          BY DEF FcSaved
        <4>2. QED
          BY <1>10, <4>1
      <3>5. QED
        BY <1>4, <1>7, <2>1, <3>1, <3>2, <3>3, <3>4, FcSameLayout DEF FcRunInv
    <2>2. CASE fcF[g].st = "made"
      <3>1. /\ fcF[g].sp = FcMadeSp /\ FcSaved(g).pc = FcTrampoline /\ FcSaved(g).regs[FcFrame[1]] = <<g>>
            /\ g # "sched"
        BY <2>2 DEF FcIndInv, FcWaitInv, FcTypeOK
      <3>2. fcSp' = <<g, FcMadeSp + FcFrameSize>>
        BY <1>10, <3>1 DEF FcSaved
      <3>3. QED
        BY <1>4, <1>7, <1>10, <2>2, <3>1, <3>2, FcSameLayout DEF FcRunInv, FcTrampoline
    <2>3. QED
      BY <2>1, <2>2
  <1>13. FcWaitInv'
    <2>1. ASSUME NEW h \in FcAll, h # g
          PROVE  /\ fcF'[h].st = "live" => fcF'[h].sp + FcFrameSize <= FcTop /\ fcLeft'[h] = FcSaved(h)'
                 /\ fcF'[h].st = "made" => /\ fcF'[h].sp = FcMadeSp /\ FcSaved(h)'.pc = FcTrampoline
                                           /\ FcSaved(h)'.regs[FcFrame[1]] = <<h>>
      <3>1. CASE h = f
        <4>1. fcF'[h].st = "live" /\ fcF'[h].sp + FcFrameSize <= FcTop /\ fcLeft'[h] = FcSaved(h)'
          BY <1>2, <1>4, <1>8, <3>1
        <4>2. QED
          BY <4>1
      <3>2. CASE h # f
        BY <1>4, <1>7, <1>9, <3>2 DEF FcIndInv, FcWaitInv
      <3>3. QED
        BY <3>1, <3>2
    <2>2. QED
      BY <1>7, <2>1, FcSameLayout DEF FcWaitInv, FcTrampoline
  <1>14. QED
    BY <1>11, <1>12, <1>13 DEF FcIndInv

\* fw_fiber_make(): the planted frame is what the first switch restores.
LEMMA FcMakeStep ==
  ASSUME FcIndInv, NEW f \in FcFiber, FcMake(f)
  PROVE  FcIndInv'
  <1> DEFINE n == Len(FcFrame)
             sp == FcMadeSp
             stack == [i \in 0..(FcTop - 1) |-> IF i - sp \in 0..(n - 1) THEN FcMakeFrame(f)[i - sp + 1] ELSE <<>>]
             r1 == [fcF[f] EXCEPT !.st = "made"]
             r2 == [r1 EXCEPT !.sp = sp]
  <1> fcArch \in {"x86_64", "aarch64"}
    BY DEF FcIndInv, FcTypeOK
  <1>1. /\ n \in Nat /\ 7 <= n /\ n <= FcFrameSize /\ FcFrameSize \in Nat /\ FcTop \in Nat
        /\ sp \in Nat /\ sp + FcFrameSize <= FcTop
        /\ FcFrame[n] = "ret" /\ FcFrame[1] \in FcRegNames /\ FcPlace(FcFrame[1]) = 1
    BY FcLayout, FcSizes
  <1>2. /\ fcCur = "sched" /\ f # "sched" /\ f \in FcAll /\ fcF[f].st = "none"
        /\ UNCHANGED <<fcArch, fcSp, fcRegs, fcPc, fcCur, fcLeft>>
    BY FcAssumption DEF FcMake, FcAll
  <1>3. fcMem' = [fcMem EXCEPT ![f] = stack] /\ fcF' = [fcF EXCEPT ![f] = r2]
    BY <1>2 DEF FcMake, FcMadeSp, FcIndInv, FcTypeOK
  <1>4. /\ r2 \in [st : {"none", "made", "live", "done", "freed"}, sp : Nat, n : Nat]
        /\ r2.st = "made" /\ r2.sp = sp
    <2>1. r1 \in [st : {"none", "made", "live", "done", "freed"}, sp : Nat, n : Nat] /\ r1.st = "made"
      BY <1>2 DEF FcIndInv, FcTypeOK
    <2> HIDE DEF r1
    <2>2. QED
      BY <1>1, <2>1
  <1> HIDE DEF r2
  <1>5. stack[sp + n - 1] = FcTrampoline /\ stack[sp] = <<f>>
    <2>1. FcMakeFrame(f)[n] = FcTrampoline /\ FcMakeFrame(f)[1] = <<f>>
      <3>1. n \in 1..n /\ 1 \in 1..n /\ n # 1
        BY <1>1
      <3>2. QED
        BY <1>1, <3>1 DEF FcMakeFrame
    <2> HIDE DEF sp, n
    <2>2. /\ sp + n - 1 \in 0..(FcTop - 1) /\ (sp + n - 1) - sp \in 0..(n - 1) /\ (sp + n - 1) - sp + 1 = n
          /\ sp \in 0..(FcTop - 1) /\ sp - sp \in 0..(n - 1) /\ sp - sp + 1 = 1
      BY <1>1
    <2>3. QED
      BY <2>1, <2>2
  <1> HIDE DEF stack
  <1>6. /\ fcMem'[f] = stack /\ fcF'[f] = r2
        /\ \A h \in FcAll : h # f => fcMem'[h] = fcMem[h] /\ fcF'[h] = fcF[h]
    BY <1>2, <1>3 DEF FcIndInv, FcTypeOK
  <1>7. FcSaved(f)'.pc = FcTrampoline /\ FcSaved(f)'.regs[FcFrame[1]] = <<f>>
    <2>1. FcSaved(f)' = [sp |-> <<f, sp + FcFrameSize>>, pc |-> stack[sp + n - 1],
                         regs |-> [r \in FcRegNames |-> stack[sp + FcPlace(r) - 1]]]
      BY <1>4, <1>6, FcSameLayout, <1>2 DEF FcSaved
    <2>2. sp + 1 - 1 = sp
      BY <1>1
    <2>3. FcFrame[1] \in FcRegNames /\ FcPlace(FcFrame[1]) = 1
      BY <1>1
    <2> HIDE DEF sp, n
    <2>4. QED
      BY <1>5, <2>1, <2>2, <2>3
  <1>8. \A h \in FcAll : h # f => FcSaved(h)' = FcSaved(h)
    BY <1>2, <1>6, FcSavedStays
  <1>9. FcTypeOK'
    <2>1. /\ fcF' \in [FcAll -> [st : {"none", "made", "live", "done", "freed"}, sp : Nat, n : Nat]]
          /\ DOMAIN fcMem' = FcAll
      BY <1>3, <1>4 DEF FcIndInv, FcTypeOK
    <2>2. fcF'["sched"].st = "live"
      BY <1>2, <1>6 DEF FcIndInv, FcTypeOK, FcAll
    <2>3. QED
      BY <1>2, <2>1, <2>2, FcSameLayout DEF FcIndInv, FcTypeOK
  <1>10. FcRunInv'
    <2>1. fcF'[fcCur] = fcF[fcCur]
      BY <1>2, <1>6 DEF FcAll
    <2>2. QED
      BY <1>2, <2>1, FcSameLayout DEF FcIndInv, FcRunInv, FcTrampoline
  <1>11. FcWaitInv'
    <2>1. ASSUME NEW h \in FcAll, h # fcCur
          PROVE  /\ fcF'[h].st = "live" => fcF'[h].sp + FcFrameSize <= FcTop /\ fcLeft'[h] = FcSaved(h)'
                 /\ fcF'[h].st = "made" => /\ fcF'[h].sp = FcMadeSp /\ FcSaved(h)'.pc = FcTrampoline
                                           /\ FcSaved(h)'.regs[FcFrame[1]] = <<h>>
      <3>1. CASE h = f
        BY <1>4, <1>6, <1>7, <3>1
      <3>2. CASE h # f
        BY <1>2, <1>6, <1>8, <2>1, <3>2 DEF FcIndInv, FcWaitInv
      <3>3. QED
        BY <3>1, <3>2
    <2>2. QED
      BY <1>2, <2>1, FcSameLayout DEF FcWaitInv, FcTrampoline
  <1>12. QED
    BY <1>9, <1>10, <1>11 DEF FcIndInv

\* The scheduler dispatches, and a fiber yields.
LEMMA FcSwitchStep ==
  ASSUME FcIndInv, NEW f \in FcFiber, FcYield(f) \/ \E d \in FcDepth : FcDispatch(f, d)
  PROVE  FcIndInv'
  <1> fcArch \in {"x86_64", "aarch64"}
    BY DEF FcIndInv, FcTypeOK
  <1>1. f \in FcAll /\ "sched" \in FcAll /\ f # "sched" /\ fcF["sched"].st = "live"
    BY FcAssumption DEF FcAll, FcIndInv, FcTypeOK
  <1>2. ASSUME NEW d \in FcDepth, FcDispatch(f, d) PROVE FcIndInv'
    <2>1. FcTop - 2 - d \in FcFrameSize..FcTop
      <3>1. d \in Nat /\ d + 18 <= FcTop /\ FcTop \in Nat /\ FcFrameSize \in Nat /\ FcFrameSize <= 14
        BY FcAssumption, FcSizes
      <3>2. QED
        BY <3>1
    <2>2. /\ fcCur = "sched" /\ fcF[f].st \in {"made", "live"} /\ UNCHANGED fcArch
          /\ FcSwap("sched", f, FcTop - 2 - d)
      BY <1>2 DEF FcDispatch
    <2>3. QED
      BY <1>1, <2>1, <2>2, FcSwapStep
  <1>3. CASE FcYield(f)
    <2>1. /\ fcCur = f /\ fcF[f].st = "live" /\ UNCHANGED fcArch /\ FcSwap(f, "sched", fcSp[2])
      BY <1>3 DEF FcYield
    <2>2. fcSp[2] \in FcFrameSize..FcTop
      BY <2>1 DEF FcIndInv, FcRunInv
    <2>3. QED
      BY <1>1, <2>1, <2>2, FcSwapStep
  <1>4. QED
    BY <1>2, <1>3

\* A step of the running fiber that leaves all stacks alone.
LEMMA FcOwnStep ==
  ASSUME FcIndInv, NEW f \in FcFiber, FcStart(f) \/ \E d \in FcDepth : FcWork(f, d)
  PROVE  FcIndInv'
  <1> fcArch \in {"x86_64", "aarch64"}
    BY DEF FcIndInv, FcTypeOK
  <1>1. /\ f \in FcAll /\ f # "sched" /\ fcCur = f /\ UNCHANGED <<fcArch, fcMem, fcCur>>
        /\ FcTop \in Nat /\ FcFrameSize \in Nat /\ FcFrameSize <= 14
    BY FcAssumption, FcSizes DEF FcAll, FcStart, FcWork
  <1>2. \A h \in FcAll : h # f => fcF'[h] = fcF[h] /\ fcLeft'[h] = fcLeft[h]
    BY <1>1 DEF FcStart, FcWork, FcIndInv, FcTypeOK
  <1>3. DOMAIN fcLeft' = FcAll
    BY <1>1 DEF FcStart, FcWork, FcIndInv, FcTypeOK
  <1>4. /\ fcF' \in [FcAll -> [st : {"none", "made", "live", "done", "freed"}, sp : Nat, n : Nat]]
        /\ fcF'[f].st = "live"
    BY <1>1 DEF FcStart, FcWork, FcIndInv, FcTypeOK
  <1>5. fcRegs' = [r \in FcRegNames |-> fcRegs'[r]]
    BY <1>1 DEF FcStart, FcWork, FcIndInv, FcTypeOK
  <1>6. /\ [sp |-> fcSp', pc |-> fcPc', regs |-> fcRegs'] = fcLeft'[f]
        /\ \E a \in FcFrameSize..FcTop : fcSp' = <<f, a>>
    <2>1. CASE FcStart(f)
      <3>1. /\ fcRegs[FcFrame[1]] = <<f>> /\ fcSp = <<f, FcMadeSp + FcFrameSize>>
        BY <1>1, <2>1 DEF FcStart, FcIndInv, FcRunInv
      <3>2. fcPc' = <<f, 0>> /\ fcRegs' = fcRegs
        BY <2>1, <3>1 DEF FcStart
      <3>3. fcSp' = <<f, FcTop - (IF FcX86 THEN 3 ELSE 0)>>
        <4>1. CASE FcX86
          <5>1. FcMadeSp + FcFrameSize = FcTop - 1
            BY <1>1, <4>1 DEF FcMadeSp, FcFrameSize
          <5>2. ((FcTop - 1) \div 2) * 2 - 1 = FcTop - 3
            <6>1. FcTop % 2 = 0 /\ FcTop \in Nat /\ FcTop >= 18
              BY FcAssumption
            <6>2. QED
              BY <6>1
          <5>3. fcSp' = <<f, ((FcTop - 1) \div 2) * 2 - 1>>
            BY <2>1, <3>1, <4>1, <5>1 DEF FcStart
          <5>4. QED
            BY <4>1, <5>2, <5>3
        <4>2. CASE ~FcX86
          <5>1. FcMadeSp + FcFrameSize = FcTop
            BY <1>1, <4>2 DEF FcMadeSp, FcFrameSize
          <5>2. FcTop - 0 = FcTop
            BY <1>1
          <5>3. QED
            BY <2>1, <3>1, <4>2, <5>1, <5>2 DEF FcStart
        <4>3. QED
          BY <4>1, <4>2
      <3>4. fcLeft'[f] = [sp |-> <<f, FcTop - (IF FcX86 THEN 3 ELSE 0)>>, pc |-> <<f, 0>>, regs |-> fcRegs]
        BY <1>1, <2>1 DEF FcStart, FcIndInv, FcTypeOK
      <3>5. FcTop - (IF FcX86 THEN 3 ELSE 0) \in FcFrameSize..FcTop
        <4>1. FcTop >= 18
          BY FcAssumption
        <4>2. FcTop - 3 \in FcFrameSize..FcTop /\ FcTop - 0 \in FcFrameSize..FcTop
          BY <1>1, <4>1
        <4>3. QED
          BY <4>2
      <3>6. QED
        BY <3>2, <3>3, <3>4, <3>5
    <2>2. ASSUME NEW d \in FcDepth, FcWork(f, d)
          PROVE  /\ [sp |-> fcSp', pc |-> fcPc', regs |-> fcRegs'] = fcLeft'[f]
                 /\ \E a \in FcFrameSize..FcTop : fcSp' = <<f, a>>
      <3>1. FcTop - 4 - d \in FcFrameSize..FcTop
        <4>1. d \in Nat /\ d + 18 <= FcTop
          BY FcAssumption
        <4>2. QED
          BY <1>1, <4>1
      <3>2. fcSp' = <<f, FcTop - 4 - d>>
        BY <1>1, <2>2 DEF FcWork, FcIndInv, FcRunInv
      <3>3. [sp |-> fcSp', pc |-> fcPc', regs |-> fcRegs'] = fcLeft'[f]
        BY <1>1, <2>2 DEF FcWork, FcIndInv, FcTypeOK
      <3>4. QED
        BY <3>1, <3>2, <3>3
    <2>3. QED
      BY <2>1, <2>2
  <1>7. \A h \in FcAll : h # f => FcSaved(h)' = FcSaved(h)
    BY <1>1, <1>2, FcSavedStays
  <1>8. FcTypeOK'
    <2>1. fcF'["sched"].st = "live"
      BY <1>1, <1>2 DEF FcIndInv, FcTypeOK, FcAll
    <2>2. QED
      BY <1>1, <1>3, <1>4, <1>5, <2>1, FcSameLayout DEF FcIndInv, FcTypeOK
  <1>9. FcRunInv'
    BY <1>1, <1>4, <1>6, FcSameLayout DEF FcRunInv
  <1>10. FcWaitInv'
    BY <1>1, <1>2, <1>7, FcSameLayout DEF FcIndInv, FcWaitInv, FcTrampoline
  <1>11. QED
    BY <1>8, <1>9, <1>10 DEF FcIndInv

\* A fiber that ends goes back to the scheduler; its stack may go.
LEMMA FcEndStep ==
  ASSUME FcIndInv, NEW f \in FcFiber, FcReturn(f) \/ FcFree(f)
  PROVE  FcIndInv'
  <1> fcArch \in {"x86_64", "aarch64"}
    BY DEF FcIndInv, FcTypeOK
  <1>1. /\ f \in FcAll /\ "sched" \in FcAll /\ f # "sched" /\ UNCHANGED <<fcArch, fcMem, fcLeft>> /\ fcCur' = "sched"
        /\ FcTop \in Nat /\ FcFrameSize \in Nat
    BY FcAssumption, FcSizes DEF FcAll, FcReturn, FcFree
  <1>2. /\ \A h \in FcAll : h # f => fcF'[h] = fcF[h]
        /\ fcF'[f].st \in {"done", "freed"}
        /\ fcF' \in [FcAll -> [st : {"none", "made", "live", "done", "freed"}, sp : Nat, n : Nat]]
    BY <1>1 DEF FcReturn, FcFree, FcIndInv, FcTypeOK
  <1>3. \A h \in FcAll : h # f => FcSaved(h)' = FcSaved(h)
    BY <1>1, <1>2, FcSavedStays
  <1>4. /\ [sp |-> fcSp', pc |-> fcPc', regs |-> fcRegs'] = fcLeft["sched"]
        /\ \E a \in FcFrameSize..FcTop : fcSp' = <<"sched", a>>
        /\ fcRegs' = [r \in FcRegNames |-> fcRegs'[r]]
    <2>1. CASE FcFree(f)
      BY <1>1, <2>1 DEF FcFree, FcIndInv, FcRunInv, FcTypeOK
    <2>2. CASE FcReturn(f)
      <3>1. /\ fcLeft["sched"] = FcSaved("sched") /\ fcF["sched"].sp \in Nat
            /\ fcF["sched"].sp + FcFrameSize <= FcTop
        BY <1>1, <2>2 DEF FcReturn, FcIndInv, FcWaitInv, FcTypeOK
      <3>2. fcF["sched"].sp + FcFrameSize \in FcFrameSize..FcTop
        BY <1>1, <3>1
      <3>3. /\ fcSp' = <<"sched", fcF["sched"].sp + FcFrameSize>>
            /\ fcPc' = fcMem["sched"][fcF["sched"].sp + Len(FcFrame) - 1]
            /\ fcRegs' = [r \in FcRegNames |-> fcMem["sched"][fcF["sched"].sp + FcPlace(r) - 1]]
        BY <2>2 DEF FcReturn
      <3>4. QED
        BY <3>1, <3>2, <3>3 DEF FcSaved
    <2>3. QED
      BY <2>1, <2>2
  <1>5. FcTypeOK'
    BY <1>1, <1>2, <1>4, FcSameLayout DEF FcIndInv, FcTypeOK
  <1>6. FcRunInv'
    BY <1>1, <1>2, <1>4, FcSameLayout DEF FcRunInv, FcIndInv, FcTypeOK
  <1>7. FcWaitInv'
    <2>1. ASSUME NEW h \in FcAll, h # "sched"
          PROVE  /\ fcF'[h].st = "live" => fcF'[h].sp + FcFrameSize <= FcTop /\ fcLeft'[h] = FcSaved(h)'
                 /\ fcF'[h].st = "made" => /\ fcF'[h].sp = FcMadeSp /\ FcSaved(h)'.pc = FcTrampoline
                                           /\ FcSaved(h)'.regs[FcFrame[1]] = <<h>>
      <3>1. CASE h = f
        BY <1>2, <3>1
      <3>2. CASE h # f
        <4>1. h # fcCur
          BY <2>1, <3>2 DEF FcReturn, FcFree
        <4>2. QED
          BY <1>1, <1>2, <1>3, <3>2, <4>1 DEF FcIndInv, FcWaitInv
      <3>3. QED
        BY <3>1, <3>2
    <2>2. QED
      BY <1>1, <2>1, FcSameLayout DEF FcWaitInv, FcTrampoline
  <1>8. QED
    BY <1>5, <1>6, <1>7 DEF FcIndInv

LEMMA FcNextInv == FcIndInv /\ [FcNext]_fcVars => FcIndInv'
  <1> SUFFICES ASSUME FcIndInv, [FcNext]_fcVars PROVE FcIndInv'
    OBVIOUS
  <1>1. CASE UNCHANGED fcVars
    <2>1. UNCHANGED <<fcArch, fcMem, fcSp, fcRegs, fcPc, fcF, fcCur, fcLeft>>
      BY <1>1 DEF fcVars
    <2>2. \A h \in FcAll : FcSaved(h)' = FcSaved(h)
      BY <2>1, FcSavedStays
    <2>3. QED
      BY <2>1, <2>2, FcSameLayout DEF FcIndInv, FcTypeOK, FcRunInv, FcWaitInv, FcTrampoline
  <1>2. QED
    BY <1>1, FcMakeStep, FcSwitchStep, FcOwnStep, FcEndStep DEF FcNext

\* fw_ctx_swap(), fw_fiber_make() and the trampoline on both architectures: for
\* any number of fibers and any stack that does not overflow, a switch returns
\* with the stack pointer, the registers and the place that the fiber left with.
THEOREM FcCorrect == FcSpec => []FcSwitches
  <1>1. ASSUME FcIndInv PROVE FcSwitches
    <2> fcArch \in {"x86_64", "aarch64"}
      BY <1>1 DEF FcIndInv, FcTypeOK
    <2>1. FcKept
      <3>1. CASE fcF[fcCur].st = "live"
        <4>1. [sp |-> fcSp, pc |-> fcPc, regs |-> fcRegs] = fcLeft[fcCur]
          BY <1>1, <3>1 DEF FcIndInv, FcRunInv
        <4>2. QED
          BY <3>1, <4>1 DEF FcKept
      <3>2. CASE fcF[fcCur].st = "made"
        <4>1. /\ fcCur # "sched" /\ fcPc = FcTrampoline /\ fcRegs[FcFrame[1]] = <<fcCur>>
              /\ fcSp = <<fcCur, FcMadeSp + FcFrameSize>>
          BY <1>1, <3>2 DEF FcIndInv, FcRunInv
        <4>2. fcCur \in FcFiber /\ fcSp[1] = fcCur
          BY <1>1, <4>1 DEF FcIndInv, FcTypeOK, FcAll
        <4>3. QED
          BY <3>2, <4>1, <4>2 DEF FcKept
      <3>3. QED
        BY <1>1, <3>1, <3>2 DEF FcIndInv, FcRunInv
    <2>2. FcSavedIntact
      <3> SUFFICES ASSUME NEW f \in FcAll, f # fcCur, fcF[f].st = "live"
                   PROVE  /\ fcF[f].sp \in 0..(FcTop - FcFrameSize)
                          /\ \A k \in 1..(Len(FcFrame) - 1) :
                                 fcMem[f][fcF[f].sp + k - 1] = fcLeft[f].regs[FcFrame[k]]
                          /\ fcMem[f][fcF[f].sp + Len(FcFrame) - 1] = fcLeft[f].pc
        BY DEF FcSavedIntact
      <3>1. fcF[f].sp \in Nat /\ fcF[f].sp + FcFrameSize <= FcTop /\ fcLeft[f] = FcSaved(f)
        BY <1>1 DEF FcIndInv, FcWaitInv, FcTypeOK
      <3>2. fcF[f].sp \in 0..(FcTop - FcFrameSize)
        BY <3>1, FcSizes
      <3>3. ASSUME NEW k \in 1..(Len(FcFrame) - 1)
            PROVE  fcMem[f][fcF[f].sp + k - 1] = fcLeft[f].regs[FcFrame[k]]
        <4>1. FcFrame[k] \in FcRegNames /\ FcPlace(FcFrame[k]) = k
          BY FcLayout
        <4>2. QED
          BY <3>1, <4>1 DEF FcSaved
      <3>4. QED
        BY <3>1, <3>2, <3>3 DEF FcSaved
    <2>3. QED
      BY <2>1, <2>2 DEF FcSwitches
  <1>2. QED
    BY <1>1, FcInitInv, FcNextInv, PTL DEF FcSpec
=============================================================================
