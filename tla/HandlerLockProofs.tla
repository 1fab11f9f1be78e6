-------------------------- MODULE HandlerLockProofs --------------------------
(***************************************************************************)
(* Proofs about the conflict detector and the handler lock, for any number *)
(* of handlers and requests.  IndInv of module HandlerLock is inductive;   *)
(* only the actions that take or release the lock or the mutex, load or    *)
(* store the counter, or change the page's protection can disturb it.      *)
(***************************************************************************)
EXTENDS HandlerLock, TLAPS

LEMMA InitInv == HlInit => IndInv
  <1> SUFFICES ASSUME HlInit PROVE IndInv
    OBVIOUS
  <1> USE HandlerAssumption DEF HlInit
  <1>1. HlTypeOK
    <2>1. writable \in BOOLEAN
      OBVIOUS
    <2>2. QED
      BY <2>1 DEF HlTypeOK
  <1>2. SerialInv /\ NoLostUpdate /\ LossIsDetected /\ NoFalseAlarm
    BY DEF SerialInv, NoLostUpdate, LossIsDetected, NoFalseAlarm
  <1>3. SnapshotInv
    BY DEF SnapshotInv
  <1>4. QED
    BY <1>1, <1>2, <1>3 DEF IndInv

\* Steps that touch neither the locks nor the counter nor the page.
LEMMA QuietStep ==
  ASSUME IndInv, NEW f \in HlFiber,
         \/ IoReady(f) \/ OffloadDone(f) \/ AcquireRetry(f) \/ ReceivePark(f)
         \/ Finish(f) \/ ClientSend(f) \/ ClientClose(f)
  PROVE  IndInv'
  <1> USE HandlerAssumption
      DEF IndInv, HlTypeOK, IoReady, OffloadDone, AcquireRetry, ReceivePark,
          Finish, ClientSend, ClientClose, Park, confVars, appVars, detVars,
          clientVars
  <1>1. HlTypeOK'
    <2>1. hlState' \in [HlFiber -> {"RUN", "WAIT_IO", "WAIT_OFF", "DONE"}]
      OBVIOUS
    <2>2. /\ inbox' \in [HlFiber -> BOOLEAN] /\ eof' \in [HlFiber -> BOOLEAN]
          /\ waiting' \in [HlFiber -> BOOLEAN] /\ sent' \in Nat
      <3>1. CASE ClientSend(f)
        BY <3>1
      <3>2. CASE ClientClose(f)
        BY <3>2
      <3>3. CASE UNCHANGED clientVars
        BY <3>3
      <3>4. QED
        BY <3>1, <3>2, <3>3
    <2>3. QED
      BY <2>1, <2>2
  <1>2. SerialInv' /\ NoLostUpdate'
    BY DEF SerialInv, NoLostUpdate, Serialized
  <1>3. SnapshotInv' /\ LossIsDetected' /\ NoFalseAlarm'
    BY DEF SnapshotInv, LossIsDetected, NoFalseAlarm, Serialized
  <1>4. QED
    BY <1>1, <1>2, <1>3

LEMMA DispatchStep ==
  ASSUME IndInv, NEW f \in HlFiber, HlDispatch(f)
  PROVE  IndInv'
  <1> USE HandlerAssumption
      DEF IndInv, HlTypeOK, Serialized, HlDispatch, DetReprotect,
          confVars, appVars, detVars, clientVars
  <1>1. HlTypeOK'
    OBVIOUS
  <1>2. SerialInv'
    BY DEF SerialInv, Enforcing
  <1>3. SnapshotInv'
    BY DEF SnapshotInv, SerialInv
  <1>4. NoLostUpdate' /\ LossIsDetected' /\ NoFalseAlarm'
    BY DEF NoLostUpdate, LossIsDetected, NoFalseAlarm, SerialInv, SnapshotInv
  <1>5. QED
    BY <1>1, <1>2, <1>3, <1>4

LEMMA AcquireStep ==
  ASSUME IndInv, NEW f \in HlFiber, Acquire(f)
  PROVE  IndInv'
  <1> USE HandlerAssumption
      DEF IndInv, HlTypeOK, Serialized, Acquire, HlGo,
          confVars, appVars, detVars, clientVars
  <1>1. HlTypeOK'
    OBVIOUS
  <1>2. SerialInv'
    BY DEF SerialInv, Enforcing
  <1>3. SnapshotInv'
    BY DEF SnapshotInv, SerialInv
  <1>4. NoLostUpdate' /\ LossIsDetected' /\ NoFalseAlarm'
    BY DEF NoLostUpdate, LossIsDetected, NoFalseAlarm, SerialInv, SnapshotInv
  <1>5. QED
    BY <1>1, <1>2, <1>3, <1>4

LEMMA ReceiveStep ==
  ASSUME IndInv, NEW f \in HlFiber, Receive(f)
  PROVE  IndInv'
  <1> USE HandlerAssumption
      DEF IndInv, HlTypeOK, Serialized, Receive, HlGo,
          confVars, appVars, detVars, clientVars
  <1>1. HlTypeOK'
    OBVIOUS
  <1>2. SerialInv'
    BY DEF SerialInv, Enforcing
  <1>3. SnapshotInv'
    BY DEF SnapshotInv, SerialInv
  <1>4. NoLostUpdate' /\ LossIsDetected' /\ NoFalseAlarm'
    BY DEF NoLostUpdate, LossIsDetected, NoFalseAlarm, SerialInv, SnapshotInv
  <1>5. QED
    BY <1>1, <1>2, <1>3, <1>4

LEMMA MutexLockStep ==
  ASSUME IndInv, NEW f \in HlFiber, MutexLock(f)
  PROVE  IndInv'
  <1> USE HandlerAssumption
      DEF IndInv, HlTypeOK, Serialized, MutexLock, PageWrite, HlGo,
          confVars, appVars, detVars, clientVars
  <1>1. HlTypeOK'
    OBVIOUS
  <1>2. SerialInv'
    BY DEF SerialInv, Enforcing
  <1>3. SnapshotInv'
    BY DEF SnapshotInv, SerialInv
  <1>4. NoLostUpdate' /\ LossIsDetected' /\ NoFalseAlarm'
    BY DEF NoLostUpdate, LossIsDetected, NoFalseAlarm, SerialInv, SnapshotInv
  <1>5. QED
    BY <1>1, <1>2, <1>3, <1>4

LEMMA MutexRetryStep ==
  ASSUME IndInv, NEW f \in HlFiber, MutexRetry(f)
  PROVE  IndInv'
  <1> USE HandlerAssumption
      DEF IndInv, HlTypeOK, Serialized, MutexRetry, PageWrite, Park,
          confVars, appVars, detVars, clientVars
  <1>1. HlTypeOK'
    OBVIOUS
  <1>2. SerialInv'
    BY DEF SerialInv, Enforcing
  <1>3. SnapshotInv'
    BY DEF SnapshotInv, SerialInv
  <1>4. NoLostUpdate' /\ LossIsDetected' /\ NoFalseAlarm'
    BY DEF NoLostUpdate, LossIsDetected, NoFalseAlarm, SerialInv, SnapshotInv
  <1>5. QED
    BY <1>1, <1>2, <1>3, <1>4

LEMMA LoadStep ==
  ASSUME IndInv, NEW f \in HlFiber, Load(f)
  PROVE  IndInv'
  <1> USE HandlerAssumption
      DEF IndInv, HlTypeOK, Serialized, Load, DetPark, DetReprotect, Park, HlGo,
          confVars, appVars, detVars, clientVars
  <1>1. HlTypeOK'
    OBVIOUS
  <1>2. SerialInv'
    BY DEF SerialInv, Enforcing
  <1>3. SnapshotInv'
    <2>1. CASE det_on
      BY <2>1 DEF SnapshotInv, SerialInv
    <2>2. CASE ~det_on
      <3>1. writable' /\ pver' = 0
        BY <2>2 DEF SnapshotInv
      <3>2. \A g \in HlFiber : pver' <= park_clk'[g]
        <4>1. park_clk' \in [HlFiber -> 0..gclk']
          BY <1>1
        <4>2. QED
          BY <3>1, <4>1
      <3>3. QED
        BY <2>2, <3>1, <3>2 DEF SnapshotInv
    <2>3. QED
      BY <2>1, <2>2
  <1>4. NoLostUpdate' /\ LossIsDetected' /\ NoFalseAlarm'
    BY DEF NoLostUpdate, LossIsDetected, NoFalseAlarm, SerialInv, SnapshotInv
  <1>5. QED
    BY <1>1, <1>2, <1>3, <1>4

LEMMA StoreStep ==
  ASSUME IndInv, NEW f \in HlFiber, Store(f)
  PROVE  IndInv'
  <1> USE HandlerAssumption
      DEF IndInv, HlTypeOK, Serialized, Store, PageWrite, HlGo,
          confVars, appVars, detVars, clientVars
  <1>1. HlTypeOK'
    OBVIOUS
  <1>2. SerialInv'
    BY DEF SerialInv, Enforcing
  <1>3. SnapshotInv'
    BY DEF SnapshotInv, SerialInv
  <1>4. NoLostUpdate' /\ LossIsDetected' /\ NoFalseAlarm'
    BY DEF NoLostUpdate, LossIsDetected, NoFalseAlarm, SerialInv, SnapshotInv
  <1>5. QED
    BY <1>1, <1>2, <1>3, <1>4

LEMMA ReplyStep ==
  ASSUME IndInv, NEW f \in HlFiber, Reply(f)
  PROVE  IndInv'
  <1> USE HandlerAssumption
      DEF IndInv, HlTypeOK, Serialized, Reply, HlGo,
          confVars, appVars, detVars, clientVars
  <1>1. HlTypeOK'
    OBVIOUS
  <1>2. SerialInv'
    BY DEF SerialInv, Enforcing
  <1>3. SnapshotInv'
    BY DEF SnapshotInv, SerialInv
  <1>4. NoLostUpdate' /\ LossIsDetected' /\ NoFalseAlarm'
    BY DEF NoLostUpdate, LossIsDetected, NoFalseAlarm, SerialInv, SnapshotInv
  <1>5. QED
    BY <1>1, <1>2, <1>3, <1>4

LEMMA NextInv == IndInv /\ [HlNext]_hlVars => IndInv'
  <1> SUFFICES ASSUME IndInv, [HlNext]_hlVars PROVE IndInv'
    OBVIOUS
  <1>1. ASSUME NEW f \in HlFiber, HlCarrierStep(f) PROVE IndInv'
    BY <1>1, DispatchStep, QuietStep DEF HlCarrierStep
  <1>2. ASSUME NEW f \in HlFiber, HandlerStep(f) PROVE IndInv'
    BY <1>2, AcquireStep, ReceiveStep, MutexLockStep, MutexRetryStep, LoadStep,
       StoreStep, ReplyStep, QuietStep DEF HandlerStep
  <1>3. ASSUME NEW f \in HlFiber, ClientSend(f) \/ ClientClose(f) PROVE IndInv'
    BY <1>3, QuietStep
  <1>4. CASE UNCHANGED hlVars
    BY <1>4 DEF hlVars, confVars, appVars, detVars, clientVars, IndInv, HlTypeOK,
       SerialInv, Serialized, SnapshotInv, NoLostUpdate, LossIsDetected, NoFalseAlarm
  <1>5. QED
    BY <1>1, <1>2, <1>3, <1>4 DEF HlNext

\* IndInv holds in every reachable state.
THEOREM Invariance == HlSpec => []IndInv
  BY InitInv, NextInv, PTL DEF HlSpec

\* With RT_ENFORCE, or with a mutex held across the offload, no increment of
\* the shared counter is lost, for any number of handlers and requests.
THEOREM EnforcementIsSound == HlSpec => []NoLostUpdate
  <1>1. IndInv => NoLostUpdate
    BY DEF IndInv
  <1>2. QED
    BY Invariance, <1>1, PTL

\* The page-protection detector misses no lost update.
THEOREM DetectorIsComplete == HlSpec => []LossIsDetected
  <1>1. IndInv => LossIsDetected
    BY DEF IndInv
  <1>2. QED
    BY Invariance, <1>1, PTL

\* The detector counts no conflict between handlers that the handler lock
\* serializes.
THEOREM NoFalseAlarms == HlSpec => []NoFalseAlarm
  <1>1. IndInv => NoFalseAlarm
    BY DEF IndInv
  <1>2. QED
    BY Invariance, <1>1, PTL
=============================================================================
