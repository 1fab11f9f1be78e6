---------------------------- MODULE CarrierProofs ----------------------------
(***************************************************************************)
(* Proofs about the carrier loop for any number of connections that the    *)
(* table has slots for, any descriptors and any size of the event array.   *)
(*                                                                         *)
(* IndInv is inductive: one lemma per action, one step per conjunct that   *)
(* the action can disturb.  The properties of module Carrier follow from   *)
(* it, and so does the simulation of blocking threads.                     *)
(***************************************************************************)
EXTENDS CarrierFits, SequenceTheorems, TLAPS

LEMMA Lengths == TypeOK => Len(fibs) \in Nat /\ Len(newq) \in Nat
  BY DEF TypeOK

LEMMA QueueMonotonic ==
  ASSUME NEW S, NEW x, NEW q \in Seq(S)
  PROVE  q \in Seq(S \cup {x})
  OBVIOUS

LEMMA InitInv == Init => IndInv
  <1> SUFFICES ASSUME Init PROVE IndInv
    OBVIOUS
  <1> USE BoundsAssumption, FdAssumption DEF Init, Fiber, NoFib
  <1>1. TypeOK
    BY DEF TypeOK
  <1>2. SlotsInv /\ LoopInv /\ CallInv /\ ConnInv /\ PollInv
    BY DEF SlotsInv, LoopInv, CallInv, ConnInv, PollInv
  <1>3. ArmedIsParked /\ ParkedIsArmed /\ DeviceOwnsBuffer
    BY DEF ArmedIsParked, ParkedIsArmed, DeviceOwnsBuffer
  <1>4. QED
    BY <1>1, <1>2, <1>3 DEF IndInv

-----------------------------------------------------------------------------
LEMMA CreateStep ==
  ASSUME IndInv,
         NEW d \in Fd,
         Create(d)
  PROVE  IndInv'
  <1>1. Len(fibs) \in Nat /\ Len(newq) \in Nat
    BY Lengths DEF IndInv
  <1> USE <1>1, BoundsAssumption, FdAssumption
      DEF IndInv, TypeOK, Fiber, NoFib,
          Create, fiberVars, envVars, loopVars
  <1> DEFINE g == created + 1
  <1>2. /\ g \in Fiber /\ g > Len(fibs) /\ g > created
        /\ state[g] = "NONE" /\ call[g] = "none" /\ dev[g] = "idle"
        /\ Len(newq) < MAXFIB /\ newq' = Append(newq, g)
    <2>1. g \in Fiber /\ g > created /\ g > Len(fibs) /\ Len(newq) < MAXFIB
      BY TableAssumption DEF SlotsInv
    <2>2. state[g] = "NONE"
      BY <2>1 DEF SlotsInv
    <2>3. QED
      BY <2>1, <2>2 DEF CallInv, DeviceOwnsBuffer
  <1> HIDE DEF g
  <1>3. TypeOK'
    <2>1. newq' \in Seq(Fiber)
      BY <1>2
    <2>2. created' \in 0..N
      OBVIOUS
    <2>3. QED
      BY <1>2, <2>1, <2>2 DEF g
  <1>4. SlotsInv'
    <2>1. /\ Len(newq') = Len(newq) + 1
          /\ \A j \in 1..Len(newq) : newq'[j] = newq[j]
          /\ newq'[Len(newq) + 1] = g
      BY <1>2, AppendProperties
    <2>2. \A j \in 1..Len(newq') : newq'[j] = Len(fibs) + j
      <3> SUFFICES ASSUME NEW j \in 1..Len(newq') PROVE newq'[j] = Len(fibs) + j
        OBVIOUS
      <3>1. CASE j \in 1..Len(newq)
        BY <2>1, <3>1 DEF SlotsInv
      <3>2. CASE j = Len(newq) + 1
        <4>1. newq'[j] = created + 1
          BY <2>1, <3>2 DEF g
        <4>2. created = Len(fibs) + Len(newq)
          BY DEF SlotsInv
        <4>3. QED
          BY <3>2, <4>1, <4>2
      <3>3. QED
        BY <2>1, <3>1, <3>2
    <2>3. /\ Len(fibs') + Len(newq') = created'
          /\ \A i \in 1..Len(fibs') : fibs'[i] = IF state'[i] = "FREE" THEN NoFib ELSE i
      <3>1. Len(fibs') + Len(newq') = created'
        <4>1. created = Len(fibs) + Len(newq)
          BY DEF SlotsInv
        <4>2. fibs' = fibs /\ created' = created + 1
          OBVIOUS
        <4>3. QED
          BY <2>1, <4>1, <4>2
      <3>2. \A i \in 1..Len(fibs) : state'[i] = state[i]
        BY <1>2 DEF g
      <3>3. QED
        BY <3>1, <3>2 DEF SlotsInv
    <2>4. \A f \in Fiber : f > Len(fibs) =>
            state'[f] = IF f <= created' THEN "NEW" ELSE "NONE"
      BY <1>2 DEF SlotsInv, g
    <2>5. \A f \in Fiber : f <= Len(fibs) => state'[f] # "NONE"
      BY <1>2 DEF SlotsInv, g
    <2>6. QED
      BY <2>2, <2>3, <2>4, <2>5 DEF SlotsInv
  <1>5. LoopInv'
    BY <1>2 DEF LoopInv, Runnable, g
  <1>6. CallInv'
    BY <1>2 DEF CallInv, g
  <1>7. ConnInv'
    BY <1>2 DEF ConnInv, g
  <1>8. PollInv'
    BY <1>2 DEF PollInv, CallInv, ConnInv, g
  <1>9. ArmedIsParked'
    BY <1>2 DEF ArmedIsParked, g
  <1>10. ParkedIsArmed'
    BY <1>2 DEF ParkedIsArmed, g
  <1>11. DeviceOwnsBuffer'
    BY <1>2 DEF DeviceOwnsBuffer, g
  <1>12. QED
    BY <1>3, <1>4, <1>5, <1>6, <1>7, <1>8, <1>9, <1>10, <1>11

LEMMA IntakeStep ==
  ASSUME IndInv, Intake
  PROVE  IndInv'
  <1>1. Len(fibs) \in Nat /\ Len(newq) \in Nat
    BY Lengths DEF IndInv
  <1> USE <1>1, BoundsAssumption, FdAssumption
      DEF IndInv, TypeOK, Fiber, NoFib,
          Intake, fiberVars, envVars, loopVars
  <1>2. /\ fibs' \in Seq(Fiber \cup {NoFib})
        /\ Len(fibs') = Len(fibs) + Len(newq)
        /\ \A i \in 1..Len(fibs') :
             fibs'[i] = IF i <= Len(fibs) THEN fibs[i] ELSE newq[i - Len(fibs)]
        /\ Len(newq') = 0
    <2>1. newq \in Seq(Fiber \cup {NoFib}) /\ fibs \in Seq(Fiber \cup {NoFib})
      <3>1. newq \in Seq(Fiber) /\ fibs \in Seq(Fiber \cup {NoFib})
        OBVIOUS
      <3> HIDE DEF IndInv, Fiber, NoFib, Intake
      <3>2. QED
        BY <3>1, QueueMonotonic
    <2>2. fibs' = fibs \o newq /\ newq' = <<>>
      OBVIOUS
    <2> HIDE DEF IndInv, Intake
    <2>3. QED
      BY <2>1, <2>2, ConcatProperties
  <1>3. TypeOK'
    BY <1>2, TableAssumption DEF SlotsInv, LoopInv
  <1>4. SlotsInv'
    <2>1. \A i \in 1..Len(fibs') : fibs'[i] = IF state'[i] = "FREE" THEN NoFib ELSE i
      <3> SUFFICES ASSUME NEW i \in 1..Len(fibs')
                   PROVE  fibs'[i] = IF state'[i] = "FREE" THEN NoFib ELSE i
        OBVIOUS
      <3>1. CASE i <= Len(fibs)
        BY <1>2, <3>1 DEF SlotsInv
      <3>2. CASE i > Len(fibs)
        <4>1. i - Len(fibs) \in 1..Len(newq) /\ i \in Fiber /\ i <= created
          BY <1>2, <3>2 DEF SlotsInv
        <4>2. fibs'[i] = i /\ state[i] = "NEW"
          BY <1>2, <3>2, <4>1 DEF SlotsInv
        <4>3. QED
          BY <4>2
      <3>3. QED
        BY <1>2, <3>1, <3>2
    <2>2. Len(fibs') = created /\ Len(fibs) <= created
      BY <1>2 DEF SlotsInv
    <2>3. Len(fibs') + Len(newq') = created' /\ 1..Len(newq') = {}
      BY <1>2, <2>2
    <2>4. \A f \in Fiber : f > Len(fibs') =>
            state'[f] = IF f <= created' THEN "NEW" ELSE "NONE"
      <3> SUFFICES ASSUME NEW f \in Fiber, f > created
                   PROVE  state[f] = "NONE"
        BY <2>2
      <3>1. f > Len(fibs)
        BY <2>2
      <3>2. QED
        BY <3>1 DEF SlotsInv
    <2>5. \A f \in Fiber : f <= Len(fibs') => state'[f] # "NONE"
      <3> SUFFICES ASSUME NEW f \in Fiber, f <= created
                   PROVE  state[f] # "NONE"
        BY <2>2
      <3>1. CASE f <= Len(fibs)
        BY <3>1 DEF SlotsInv
      <3>2. CASE f > Len(fibs)
        BY <3>2 DEF SlotsInv
      <3>3. QED
        BY <3>1, <3>2
    <2>6. QED
      BY <2>1, <2>3, <2>4, <2>5 DEF SlotsInv
  <1>5. LoopInv'
    BY <1>2 DEF LoopInv, Runnable
  <1>6. CallInv' /\ ConnInv' /\ PollInv'
        /\ ArmedIsParked' /\ ParkedIsArmed' /\ DeviceOwnsBuffer'
    BY DEF CallInv, ConnInv, PollInv,
           ArmedIsParked, ParkedIsArmed, DeviceOwnsBuffer
  <1>7. QED
    BY <1>3, <1>4, <1>5, <1>6

LEMMA EpollWaitStep ==
  ASSUME IndInv, EpollWait
  PROVE  IndInv'
  <1>1. Len(fibs) \in Nat /\ Len(newq) \in Nat
    BY Lengths DEF IndInv
  <1> USE <1>1, BoundsAssumption, FdAssumption
      DEF IndInv, TypeOK, Fiber, NoFib,
          EpollWait, Ready, Disarm, fiberVars, envVars, loopVars
  <1>2. TypeOK'
    BY DEF LoopInv
  <1>3. SlotsInv'
    <2>1. /\ UNCHANGED <<created, newq, fibs>>
          /\ \A f \in Fiber : state'[f] = state[f] \/ (state[f] = "WAIT_IO" /\ state'[f] = "RUN")
      OBVIOUS
    <2>2. \A i \in 1..Len(fibs) : i \in Fiber
      BY DEF SlotsInv
    <2> HIDE DEF EpollWait
    <2>3. QED
      BY <2>1, <2>2 DEF SlotsInv
  <1>4. LoopInv'
    BY DEF LoopInv, Runnable
  <1>5. CallInv'
    BY DEF CallInv, LoopInv, Runnable
  <1>6. ConnInv'
    BY DEF ConnInv, CallInv, LoopInv, Runnable
  <1>7. PollInv'
    BY DEF PollInv, CallInv, ConnInv, ArmedIsParked
  <1>8. ArmedIsParked'
    BY DEF ArmedIsParked, LoopInv, Runnable, CallInv
  <1>9. ParkedIsArmed'
    BY DEF ParkedIsArmed, ConnInv, CallInv
  <1>10. DeviceOwnsBuffer'
    BY DEF DeviceOwnsBuffer, LoopInv, Runnable, CallInv
  <1>11. QED
    BY <1>2, <1>3, <1>4, <1>5, <1>6, <1>7, <1>8, <1>9, <1>10

LEMMA CompleteScanStep ==
  ASSUME IndInv, CompleteScan
  PROVE  IndInv'
  <1>1. Len(fibs) \in Nat /\ Len(newq) \in Nat
    BY Lengths DEF IndInv
  <1> USE <1>1, BoundsAssumption, FdAssumption
      DEF IndInv, TypeOK, Fiber, NoFib,
          CompleteScan, fiberVars, envVars, loopVars
  <1>2. TypeOK'
    BY DEF LoopInv
  <1>3. SlotsInv'
    BY DEF SlotsInv, LoopInv, Runnable
  <1>4. LoopInv'
    BY DEF LoopInv, Runnable
  <1>5. CallInv'
    BY DEF CallInv, LoopInv, Runnable
  <1>6. ConnInv'
    BY DEF ConnInv, CallInv, LoopInv, Runnable
  <1>7. PollInv'
    BY DEF PollInv, CallInv, LoopInv, Runnable, ConnInv
  <1>8. ArmedIsParked'
    BY DEF ArmedIsParked, LoopInv, Runnable, CallInv
  <1>9. ParkedIsArmed'
    BY DEF ParkedIsArmed, ConnInv, CallInv
  <1>10. DeviceOwnsBuffer'
    BY DEF DeviceOwnsBuffer, LoopInv, Runnable, CallInv
  <1>11. QED
    BY <1>2, <1>3, <1>4, <1>5, <1>6, <1>7, <1>8, <1>9, <1>10

LEMMA DeadlineScanStep ==
  ASSUME IndInv, DeadlineScan
  PROVE  IndInv'
  <1>1. Len(fibs) \in Nat /\ Len(newq) \in Nat
    BY Lengths DEF IndInv
  <1> USE <1>1, BoundsAssumption, FdAssumption
      DEF IndInv, TypeOK, Fiber, NoFib,
          DeadlineScan, Late, Disarm, fiberVars, envVars, loopVars
  <1>2. TypeOK'
    BY DEF LoopInv
  <1>3. SlotsInv'
    BY DEF SlotsInv, LoopInv, Runnable
  <1>4. LoopInv'
    BY DEF LoopInv, Runnable
  <1>5. CallInv'
    BY DEF CallInv, LoopInv, Runnable
  <1>6. ConnInv'
    BY DEF ConnInv, CallInv, LoopInv, Runnable
  <1>7. PollInv'
    BY DEF PollInv, CallInv, LoopInv, Runnable, ConnInv
  <1>8. ArmedIsParked'
    BY DEF ArmedIsParked, LoopInv, Runnable, CallInv
  <1>9. ParkedIsArmed'
    BY DEF ParkedIsArmed, ConnInv, CallInv
  <1>10. DeviceOwnsBuffer'
    BY DEF DeviceOwnsBuffer, LoopInv, Runnable, CallInv
  <1>11. QED
    BY <1>2, <1>3, <1>4, <1>5, <1>6, <1>7, <1>8, <1>9, <1>10

LEMMA DispatchStep ==
  ASSUME IndInv, Dispatch
  PROVE  IndInv'
  <1>1. Len(fibs) \in Nat /\ Len(newq) \in Nat
    BY Lengths DEF IndInv
  <1> USE <1>1, BoundsAssumption, FdAssumption
      DEF IndInv, TypeOK, Fiber, NoFib,
          Dispatch, fiberVars, envVars, loopVars
  <1>2. TypeOK'
    BY DEF LoopInv
  <1>3. LoopInv'
    BY DEF LoopInv, Runnable, SlotsInv
  <1>4. CallInv'
    BY DEF CallInv, LoopInv, Runnable
  <1>5. SlotsInv' /\ ConnInv' /\ PollInv'
        /\ ArmedIsParked' /\ ParkedIsArmed' /\ DeviceOwnsBuffer'
    BY DEF SlotsInv, ConnInv, PollInv,
           ArmedIsParked, ParkedIsArmed, DeviceOwnsBuffer
  <1>6. QED
    BY <1>2, <1>3, <1>4, <1>5

LEMMA SkipStep ==
  ASSUME IndInv, Skip
  PROVE  IndInv'
  <1>1. Len(fibs) \in Nat /\ Len(newq) \in Nat
    BY Lengths DEF IndInv
  <1> USE <1>1, BoundsAssumption, FdAssumption
      DEF IndInv, TypeOK, Fiber, NoFib,
          Skip, fiberVars, envVars, loopVars
  <1>2. TypeOK'
    BY DEF LoopInv
  <1>3. LoopInv'
    BY DEF LoopInv, Runnable
  <1>4. SlotsInv' /\ CallInv' /\ ConnInv'
        /\ PollInv' /\ ArmedIsParked' /\ ParkedIsArmed' /\ DeviceOwnsBuffer'
    BY DEF SlotsInv, CallInv, ConnInv,
           PollInv, ArmedIsParked, ParkedIsArmed, DeviceOwnsBuffer
  <1>5. QED
    BY <1>2, <1>3, <1>4

LEMMA EndPassStep ==
  ASSUME IndInv, EndPass
  PROVE  IndInv'
  <1>1. Len(fibs) \in Nat /\ Len(newq) \in Nat
    BY Lengths DEF IndInv
  <1> USE <1>1, BoundsAssumption, FdAssumption
      DEF IndInv, TypeOK, Fiber, NoFib,
          EndPass, fiberVars, envVars, loopVars
  <1>2. TypeOK'
    BY DEF LoopInv
  <1>3. LoopInv'
    BY DEF LoopInv, Runnable
  <1>4. SlotsInv' /\ CallInv' /\ ConnInv'
        /\ PollInv' /\ ArmedIsParked' /\ ParkedIsArmed' /\ DeviceOwnsBuffer'
    BY DEF SlotsInv, CallInv, ConnInv,
           PollInv, ArmedIsParked, ParkedIsArmed, DeviceOwnsBuffer
  <1>5. QED
    BY <1>2, <1>3, <1>4

LEMMA IoNowStep ==
  ASSUME IndInv,
         NEW f \in Fiber, NEW d \in Fd, NEW e \in Event,
         IoNow(f, d, e)
  PROVE  IndInv'
  <1>1. Len(fibs) \in Nat /\ Len(newq) \in Nat
    BY Lengths DEF IndInv
  <1> USE <1>1, BoundsAssumption, FdAssumption
      DEF IndInv, TypeOK, Fiber, NoFib,
          IoNow, InHandler, Usable, Transfer, fiberVars, envVars, loopVars
  <1>2. TypeOK'
    <2>1. avail' \in [Fd -> SUBSET Event]
      <3>1. CASE avail' = avail
        BY <3>1
      <3>2. CASE avail' = [avail EXCEPT ![d] = @ \ {e}]
        BY <3>2
      <3>3. QED
        BY <3>1, <3>2
    <2>2. QED
      BY <2>1
  <1>3. PollInv'
    BY DEF PollInv, CallInv, LoopInv, Runnable, ConnInv
  <1>4. SlotsInv' /\ LoopInv' /\ CallInv'
        /\ ConnInv' /\ ArmedIsParked' /\ ParkedIsArmed' /\ DeviceOwnsBuffer'
    BY DEF SlotsInv, LoopInv, CallInv, ConnInv,
           ArmedIsParked, ParkedIsArmed, DeviceOwnsBuffer, Runnable
  <1>5. QED
    BY <1>2, <1>3, <1>4

LEMMA IoParkStep ==
  ASSUME IndInv,
         NEW f \in Fiber, NEW d \in Fd, NEW e \in Event,
         IoPark(f, d, e)
  PROVE  IndInv'
  <1>1. Len(fibs) \in Nat /\ Len(newq) \in Nat
    BY Lengths DEF IndInv
  <1> USE <1>1, BoundsAssumption, FdAssumption
      DEF IndInv, TypeOK, Fiber, NoFib,
          IoPark, InHandler, Usable, SwitchOut, Arm, YieldIo, fiberVars, envVars, loopVars
  <1>2. TypeOK'
    <2>1. idx' \in 1..(Len(fibs') + 1)
      BY DEF LoopInv
    <2>2. QED
      BY <2>1
  <1>3. SlotsInv'
    BY DEF SlotsInv, LoopInv, Runnable
  <1>4. LoopInv'
    BY DEF LoopInv, Runnable
  <1>5. CallInv'
    BY DEF CallInv, LoopInv, Runnable
  <1>6. ConnInv'
    BY DEF ConnInv, CallInv, LoopInv, Runnable
  <1>7. PollInv'
    BY DEF PollInv, CallInv, LoopInv, Runnable, ConnInv
  <1>8. ArmedIsParked'
    BY DEF ArmedIsParked, LoopInv, Runnable, CallInv
  <1>9. ParkedIsArmed'
    BY DEF ParkedIsArmed, ConnInv, CallInv
  <1>10. DeviceOwnsBuffer'
    BY DEF DeviceOwnsBuffer, LoopInv, Runnable, CallInv
  <1>11. QED
    BY <1>2, <1>3, <1>4, <1>5, <1>6, <1>7, <1>8, <1>9, <1>10

LEMMA IoReturnStep ==
  ASSUME IndInv,
         NEW f \in Fiber,
         IoReturn(f)
  PROVE  IndInv'
  <1>1. Len(fibs) \in Nat /\ Len(newq) \in Nat
    BY Lengths DEF IndInv
  <1> USE <1>1, BoundsAssumption, FdAssumption
      DEF IndInv, TypeOK, Fiber, NoFib,
          IoReturn, Transfer, fiberVars, envVars, loopVars
  <1>2. TypeOK'
    <2>1. avail' \in [Fd -> SUBSET Event]
      <3>1. CASE avail' = avail
        BY <3>1
      <3>2. CASE avail' = [avail EXCEPT ![fd[f]] = @ \ {ev[f]}]
        BY <3>2
      <3>3. QED
        BY <3>1, <3>2
    <2>2. QED
      BY <2>1
  <1>3. CallInv'
    BY DEF CallInv, LoopInv, Runnable
  <1>4. ConnInv'
    BY DEF ConnInv, CallInv, LoopInv, Runnable
  <1>5. PollInv'
    BY DEF PollInv, CallInv, LoopInv, Runnable, ConnInv
  <1>6. SlotsInv' /\ LoopInv'
        /\ ArmedIsParked' /\ ParkedIsArmed' /\ DeviceOwnsBuffer'
    BY DEF SlotsInv, LoopInv, ArmedIsParked,
           ParkedIsArmed, DeviceOwnsBuffer, Runnable
  <1>7. QED
    BY <1>2, <1>3, <1>4, <1>5, <1>6

LEMMA IoRetryStep ==
  ASSUME IndInv,
         NEW f \in Fiber,
         IoRetry(f)
  PROVE  IndInv'
  <1>1. Len(fibs) \in Nat /\ Len(newq) \in Nat
    BY Lengths DEF IndInv
  <1> USE <1>1, BoundsAssumption, FdAssumption
      DEF IndInv, TypeOK, Fiber, NoFib,
          IoRetry, InHandler, Usable, SwitchOut, Arm, YieldIo, fiberVars, envVars, loopVars
  <1>2. TypeOK'
    <2>1. idx' \in 1..(Len(fibs') + 1)
      BY DEF LoopInv
    <2>2. QED
      BY <2>1
  <1>3. SlotsInv'
    BY DEF SlotsInv, LoopInv, Runnable
  <1>4. LoopInv'
    BY DEF LoopInv, Runnable
  <1>5. CallInv'
    BY DEF CallInv, LoopInv, Runnable
  <1>6. ConnInv'
    BY DEF ConnInv, CallInv, LoopInv, Runnable
  <1>7. PollInv'
    BY DEF PollInv, CallInv, LoopInv, Runnable, ConnInv
  <1>8. ArmedIsParked'
    BY DEF ArmedIsParked, LoopInv, Runnable, CallInv
  <1>9. ParkedIsArmed'
    BY DEF ParkedIsArmed, ConnInv, CallInv
  <1>10. DeviceOwnsBuffer'
    BY DEF DeviceOwnsBuffer, LoopInv, Runnable, CallInv
  <1>11. QED
    BY <1>2, <1>3, <1>4, <1>5, <1>6, <1>7, <1>8, <1>9, <1>10

LEMMA PollParkStep ==
  ASSUME IndInv,
         NEW f \in Fiber, NEW d \in Fd, NEW e \in Event, NEW b \in BOOLEAN,
         PollPark(f, d, e, b)
  PROVE  IndInv'
  <1>1. Len(fibs) \in Nat /\ Len(newq) \in Nat
    BY Lengths DEF IndInv
  <1> USE <1>1, BoundsAssumption, FdAssumption
      DEF IndInv, TypeOK, Fiber, NoFib,
          PollPark, InHandler, Usable, SwitchOut, Arm, YieldIo, fiberVars, envVars, loopVars
  <1>2. TypeOK'
    <2>1. idx' \in 1..(Len(fibs') + 1)
      BY DEF LoopInv
    <2>2. QED
      BY <2>1
  <1>3. SlotsInv'
    BY DEF SlotsInv, LoopInv, Runnable
  <1>4. LoopInv'
    BY DEF LoopInv, Runnable
  <1>5. CallInv'
    BY DEF CallInv, LoopInv, Runnable
  <1>6. ConnInv'
    BY DEF ConnInv, CallInv, LoopInv, Runnable
  <1>7. PollInv'
    BY DEF PollInv, CallInv, LoopInv, Runnable, ConnInv
  <1>8. ArmedIsParked'
    BY DEF ArmedIsParked, LoopInv, Runnable, CallInv
  <1>9. ParkedIsArmed'
    BY DEF ParkedIsArmed, ConnInv, CallInv
  <1>10. DeviceOwnsBuffer'
    BY DEF DeviceOwnsBuffer, LoopInv, Runnable, CallInv
  <1>11. QED
    BY <1>2, <1>3, <1>4, <1>5, <1>6, <1>7, <1>8, <1>9, <1>10

LEMMA PollReturnStep ==
  ASSUME IndInv,
         NEW f \in Fiber,
         PollReturn(f)
  PROVE  IndInv'
  <1>1. Len(fibs) \in Nat /\ Len(newq) \in Nat
    BY Lengths DEF IndInv
  <1> USE <1>1, BoundsAssumption, FdAssumption
      DEF IndInv, TypeOK, Fiber, NoFib,
          PollReturn, fiberVars, envVars, loopVars
  <1>2. TypeOK'
    BY DEF LoopInv
  <1>3. CallInv'
    BY DEF CallInv, LoopInv, Runnable
  <1>4. ConnInv'
    BY DEF ConnInv, CallInv, LoopInv, Runnable
  <1>5. PollInv'
    BY DEF PollInv, CallInv, LoopInv, Runnable, ConnInv
  <1>6. SlotsInv' /\ LoopInv'
        /\ ArmedIsParked' /\ ParkedIsArmed' /\ DeviceOwnsBuffer'
    BY DEF SlotsInv, LoopInv, ArmedIsParked,
           ParkedIsArmed, DeviceOwnsBuffer, Runnable
  <1>7. QED
    BY <1>2, <1>3, <1>4, <1>5, <1>6

LEMMA OffloadStep ==
  ASSUME IndInv,
         NEW f \in Fiber,
         Offload(f)
  PROVE  IndInv'
  <1>1. Len(fibs) \in Nat /\ Len(newq) \in Nat
    BY Lengths DEF IndInv
  <1> USE <1>1, BoundsAssumption, FdAssumption
      DEF IndInv, TypeOK, Fiber, NoFib,
          Offload, InHandler, SwitchOut, fiberVars, envVars, loopVars
  <1>2. TypeOK'
    <2>1. idx' \in 1..(Len(fibs') + 1)
      BY DEF LoopInv
    <2>2. QED
      BY <2>1
  <1>3. SlotsInv'
    BY DEF SlotsInv, LoopInv, Runnable
  <1>4. LoopInv'
    BY DEF LoopInv, Runnable
  <1>5. CallInv'
    BY DEF CallInv, LoopInv, Runnable
  <1>6. ConnInv'
    BY DEF ConnInv, CallInv, LoopInv, Runnable
  <1>7. PollInv'
    BY DEF PollInv, CallInv, LoopInv, Runnable, ConnInv
  <1>8. ArmedIsParked'
    BY DEF ArmedIsParked, LoopInv, Runnable, CallInv
  <1>9. ParkedIsArmed'
    BY DEF ParkedIsArmed, ConnInv, CallInv
  <1>10. DeviceOwnsBuffer'
    BY DEF DeviceOwnsBuffer, LoopInv, Runnable, CallInv
  <1>11. QED
    BY <1>2, <1>3, <1>4, <1>5, <1>6, <1>7, <1>8, <1>9, <1>10

LEMMA OffReturnStep ==
  ASSUME IndInv,
         NEW f \in Fiber,
         OffReturn(f)
  PROVE  IndInv'
  <1>1. Len(fibs) \in Nat /\ Len(newq) \in Nat
    BY Lengths DEF IndInv
  <1> USE <1>1, BoundsAssumption, FdAssumption
      DEF IndInv, TypeOK, Fiber, NoFib,
          OffReturn, fiberVars, envVars, loopVars
  <1>2. TypeOK'
    BY DEF LoopInv
  <1>3. CallInv'
    BY DEF CallInv, LoopInv, Runnable
  <1>4. ConnInv'
    BY DEF ConnInv, CallInv, LoopInv, Runnable
  <1>5. PollInv'
    BY DEF PollInv, CallInv, LoopInv, Runnable, ConnInv
  <1>6. SlotsInv' /\ LoopInv'
        /\ ArmedIsParked' /\ ParkedIsArmed' /\ DeviceOwnsBuffer'
    BY DEF SlotsInv, LoopInv, ArmedIsParked,
           ParkedIsArmed, DeviceOwnsBuffer, Runnable
  <1>7. QED
    BY <1>2, <1>3, <1>4, <1>5, <1>6

LEMMA FinishStep ==
  ASSUME IndInv,
         NEW f \in Fiber,
         Finish(f)
  PROVE  IndInv'
  <1>1. Len(fibs) \in Nat /\ Len(newq) \in Nat
    BY Lengths DEF IndInv
  <1> USE <1>1, BoundsAssumption, FdAssumption
      DEF IndInv, TypeOK, Fiber, NoFib,
          Finish, InHandler, SwitchOut, fiberVars, envVars, loopVars
  <1>2. TypeOK'
    <2>1. fibs' \in Seq(Fiber \cup {NoFib}) /\ Len(fibs') = Len(fibs)
      BY DEF LoopInv
    <2>2. idx' \in 1..(Len(fibs') + 1)
      BY <2>1 DEF LoopInv
    <2>3. QED
      BY <2>1, <2>2
  <1>3. SlotsInv'
    BY DEF SlotsInv, LoopInv, Runnable
  <1>4. LoopInv'
    BY DEF LoopInv, Runnable
  <1>5. CallInv'
    BY DEF CallInv, LoopInv, Runnable
  <1>6. ConnInv'
    BY DEF ConnInv, CallInv, LoopInv, Runnable
  <1>7. PollInv'
    BY DEF PollInv, CallInv, LoopInv, Runnable, ConnInv
  <1>8. ArmedIsParked'
    BY DEF ArmedIsParked, LoopInv, Runnable, CallInv
  <1>9. ParkedIsArmed'
    BY DEF ParkedIsArmed, ConnInv, CallInv
  <1>10. DeviceOwnsBuffer'
    BY DEF DeviceOwnsBuffer, LoopInv, Runnable, CallInv
  <1>11. QED
    BY <1>2, <1>3, <1>4, <1>5, <1>6, <1>7, <1>8, <1>9, <1>10

LEMMA PeerReadyStep ==
  ASSUME IndInv,
         NEW d \in Fd, NEW e \in Event,
         PeerReady(d, e)
  PROVE  IndInv'
  <1>1. Len(fibs) \in Nat /\ Len(newq) \in Nat
    BY Lengths DEF IndInv
  <1> USE <1>1, BoundsAssumption, FdAssumption
      DEF IndInv, TypeOK, Fiber, NoFib,
          PeerReady, fiberVars, envVars, loopVars
  <1>2. TypeOK'
    BY DEF LoopInv
  <1>3. PollInv'
    BY DEF PollInv, CallInv, LoopInv, Runnable, ConnInv
  <1>4. SlotsInv' /\ LoopInv' /\ CallInv'
        /\ ConnInv' /\ ArmedIsParked' /\ ParkedIsArmed' /\ DeviceOwnsBuffer'
    BY DEF SlotsInv, LoopInv, CallInv, ConnInv,
           ArmedIsParked, ParkedIsArmed, DeviceOwnsBuffer, Runnable
  <1>5. QED
    BY <1>2, <1>3, <1>4

LEMMA ExpireStep ==
  ASSUME IndInv,
         NEW f \in Fiber,
         Expire(f)
  PROVE  IndInv'
  <1>1. Len(fibs) \in Nat /\ Len(newq) \in Nat
    BY Lengths DEF IndInv
  <1> USE <1>1, BoundsAssumption, FdAssumption
      DEF IndInv, TypeOK, Fiber, NoFib,
          Expire, fiberVars, envVars, loopVars
  <1>2. TypeOK'
    BY DEF LoopInv
  <1>3. PollInv'
    BY DEF PollInv, CallInv, LoopInv, Runnable, ConnInv
  <1>4. SlotsInv' /\ LoopInv' /\ CallInv'
        /\ ConnInv' /\ ArmedIsParked' /\ ParkedIsArmed' /\ DeviceOwnsBuffer'
    BY DEF SlotsInv, LoopInv, CallInv, ConnInv,
           ArmedIsParked, ParkedIsArmed, DeviceOwnsBuffer, Runnable
  <1>5. QED
    BY <1>2, <1>3, <1>4

LEMMA CompleteStep ==
  ASSUME IndInv,
         NEW f \in Fiber,
         Complete(f)
  PROVE  IndInv'
  <1>1. Len(fibs) \in Nat /\ Len(newq) \in Nat
    BY Lengths DEF IndInv
  <1> USE <1>1, BoundsAssumption, FdAssumption
      DEF IndInv, TypeOK, Fiber, NoFib,
          Complete, fiberVars, envVars, loopVars
  <1>2. TypeOK'
    BY DEF LoopInv
  <1>3. DeviceOwnsBuffer'
    BY DEF DeviceOwnsBuffer, LoopInv, Runnable, CallInv
  <1>4. SlotsInv' /\ LoopInv' /\ CallInv'
    BY DEF SlotsInv, LoopInv, CallInv, Runnable
  <1>5. ConnInv' /\ PollInv'
    BY DEF ConnInv, PollInv
  <1>6. ArmedIsParked' /\ ParkedIsArmed'
    BY DEF ArmedIsParked, ParkedIsArmed
  <1>7. QED
    BY <1>2, <1>3, <1>4, <1>5, <1>6

-----------------------------------------------------------------------------
\* No action, and no stuttering step, leaves the inductive invariant.
LEMMA NextInv == IndInv /\ [Next]_vars => IndInv'
  <1> SUFFICES ASSUME IndInv, [Next]_vars PROVE IndInv'
    OBVIOUS
  <1>1. CASE CarrierStep
    BY <1>1, IntakeStep, EpollWaitStep, CompleteScanStep, DeadlineScanStep,
       DispatchStep, SkipStep, EndPassStep DEF CarrierStep
  <1>2. ASSUME NEW f \in Fiber, Resume(f) PROVE IndInv'
    BY <1>2, IoReturnStep, IoRetryStep, PollReturnStep, OffReturnStep DEF Resume
  <1>3. ASSUME NEW f \in Fiber, HandlerCall(f) PROVE IndInv'
    BY <1>3, IoNowStep, IoParkStep, PollParkStep, OffloadStep, FinishStep
    DEF HandlerCall
  <1>4. CASE \E f \in Fiber : Expire(f) \/ Complete(f)
    BY <1>4, ExpireStep, CompleteStep
  <1>5. CASE \E d \in Fd : Create(d)
    BY <1>5, CreateStep
  <1>6. CASE \E d \in Fd, e \in Event : PeerReady(d, e)
    BY <1>6, PeerReadyStep
  <1>7. CASE UNCHANGED vars
    BY <1>7 DEF vars, fiberVars, envVars, loopVars, IndInv, TypeOK, SlotsInv,
       LoopInv, CallInv, ConnInv, PollInv, ArmedIsParked, ParkedIsArmed,
       DeviceOwnsBuffer, Runnable
  <1>8. QED
    BY <1>1, <1>2, <1>3, <1>4, <1>5, <1>6, <1>7 DEF Next

\* The inductive invariant holds in every reachable state of the carrier.
THEOREM Invariance == Spec => []IndInv
  BY InitInv, NextInv, PTL DEF Spec

\* Every variable of the carrier keeps its type; in particular the slot table
\* never grows past MAXFIB when at most MAXFIB connections are ever accepted.
THEOREM TypeCorrect == Spec => []TypeOK
  <1>1. IndInv => TypeOK
    BY DEF IndInv
  <1>2. QED
    BY Invariance, <1>1, PTL

\* No epoll event reaches a fiber that does not wait for it, whether or not
\* fibers share descriptors.
THEOREM NoStaleEvent == Spec => []ArmedIsParked
  <1>1. IndInv => ArmedIsParked
    BY DEF IndInv
  <1>2. QED
    BY Invariance, <1>1, PTL

\* With one fiber per socket, no parked fiber is without its registration.
THEOREM NoLostWakeup == Spec => []ParkedIsArmed
  <1>1. IndInv => ParkedIsArmed
    BY DEF IndInv
  <1>2. QED
    BY Invariance, <1>1, PTL

\* The accelerator never works on the stack of a fiber that is not parked in
\* accel_encrypt(), and nobody is parked there without a request.
THEOREM BufferSafe == Spec => []DeviceOwnsBuffer
  <1>1. IndInv => DeviceOwnsBuffer
    BY DEF IndInv
  <1>2. QED
    BY Invariance, <1>1, PTL

\* Every fiber made by pthread_create() stays in exactly one place, the queue
\* or its slot of the table, until it has finished.
THEOREM NoneLost == Spec => []NoFiberLost
  <1>1. IndInv => NoFiberLost
    <2> SUFFICES ASSUME IndInv PROVE NoFiberLost
      OBVIOUS
    <2> USE BoundsAssumption DEF Fiber, NoFib
    <2>1. Len(fibs) \in Nat /\ Len(newq) \in Nat /\ created \in Nat
      BY Lengths DEF IndInv, TypeOK
    <2>2. \A f \in Fiber : Queued(f) <=> Len(fibs) < f /\ f <= created
      <3> SUFFICES ASSUME NEW f \in Fiber
                   PROVE  Queued(f) <=> Len(fibs) < f /\ f <= created
        OBVIOUS
      <3>1. Queued(f) => Len(fibs) < f /\ f <= created
        BY <2>1 DEF Queued, IndInv, SlotsInv
      <3>2. ASSUME Len(fibs) < f, f <= created PROVE Queued(f)
        <4>1. f - Len(fibs) \in 1..Len(newq) /\ newq[f - Len(fibs)] = f
          BY <2>1, <3>2 DEF IndInv, SlotsInv
        <4>2. QED
          BY <4>1 DEF Queued
      <3>3. QED
        BY <3>1, <3>2
    <2>3. \A f \in Fiber : InTable(f) <=> f <= Len(fibs) /\ state[f] # "FREE"
      BY <2>1 DEF InTable, IndInv, SlotsInv
    <2>4. \A f \in Fiber : state[f] \notin {"NONE", "FREE"} <=>
            \/ Len(fibs) < f /\ f <= created
            \/ f <= Len(fibs) /\ state[f] # "FREE"
      BY <2>1 DEF IndInv, SlotsInv
    <2>5. \A i, j \in 1..Len(fibs) : fibs[i] = fibs[j] /\ fibs[i] # NoFib => i = j
      BY <2>1 DEF IndInv, SlotsInv
    <2>6. QED
      BY <2>1, <2>2, <2>3, <2>4, <2>5 DEF NoFiberLost
  <1>2. QED
    BY Invariance, <1>1, PTL

-----------------------------------------------------------------------------
(***************************************************************************)
(* Refinement.  Under the inductive invariant each carrier step maps to a  *)
(* step of BlockingThreads or to a stuttering step: the scans and the run  *)
(* pass are invisible, a handler's call is the same call of its thread and *)
(* a resumption is the return of that call.                                *)
(***************************************************************************)
LEMMA RefineInit == Init => Threads!Init
  BY DEF Init, Threads!Init, thBar, devBar

\* The carrier's own steps are invisible.
LEMMA RefineCarrier ==
  ASSUME IndInv, CarrierStep
  PROVE  UNCHANGED Threads!vars
  <1> USE DEF IndInv, TypeOK, CallInv, DeviceOwnsBuffer, thBar, devBar,
          Threads!vars, fiberVars, envVars, loopVars
  <1>1. CASE Intake \/ Dispatch \/ Skip \/ EndPass
    BY <1>1 DEF Intake, Dispatch, Skip, EndPass
  <1>2. CASE EpollWait
    BY <1>2 DEF EpollWait
  <1>3. CASE CompleteScan
    BY <1>3 DEF CompleteScan
  <1>4. CASE DeadlineScan
    BY <1>4 DEF DeadlineScan, Late
  <1>5. QED
    BY <1>1, <1>2, <1>3, <1>4 DEF CarrierStep

\* A resumption is a return, or nothing when the transfer would still block.
LEMMA RefineResume ==
  ASSUME IndInv, Exclusive, NEW f \in Fiber, Resume(f)
  PROVE  Threads!Next \/ UNCHANGED Threads!vars
  <1> USE BoundsAssumption
      DEF IndInv, TypeOK, CallInv, LoopInv, Runnable, thBar, devBar, Fiber,
          NoFib, fiberVars, envVars, loopVars
  <1>1. CASE IoReturn(f)
    <2>1. devBar' = devBar
      BY <1>1 DEF IoReturn
    <2>2. thBar[f] = "io" /\ thBar' = [thBar EXCEPT ![f] = "run"]
      BY <1>1 DEF IoReturn
    <2>3. fd[f] = conn[f]
      BY <1>1 DEF IoReturn, ConnInv
    <2> HIDE DEF IndInv, thBar, devBar
    <2>4. Threads!ReturnIo(f)
      BY <1>1, <2>1, <2>2, <2>3 DEF IoReturn, Transfer, Threads!ReturnIo, Threads!Transfer
    <2>5. QED
      BY <2>4 DEF Threads!Next
  <1>2. CASE IoRetry(f)
    BY <1>2 DEF IoRetry, YieldIo, Threads!vars
  <1>3. CASE PollReturn(f)
    <2>1. thBar[f] = "poll" /\ thBar' = [thBar EXCEPT ![f] = "run"]
      BY <1>3 DEF PollReturn
    <2>2. devBar' = devBar
      BY <1>3 DEF PollReturn
    <2>3. CASE has_deadline[f] /\ timed_out[f]
      <3>1. f \in expired
        BY <1>3, <2>3 DEF PollReturn, PollInv
      <3>2. Threads!ReturnPoll(f, "timeout")
        BY <1>3, <2>1, <2>2, <2>3, <3>1 DEF PollReturn, Threads!ReturnPoll
      <3>3. QED
        BY <3>2 DEF Threads!Next
    <2>4. CASE ~(has_deadline[f] /\ timed_out[f])
      <3>1. ev[f] \in avail[conn[f]]
        BY <1>3, <2>4 DEF PollReturn, PollInv, ConnInv
      <3>2. Threads!ReturnPoll(f, "ready")
        BY <1>3, <2>1, <2>2, <2>4, <3>1 DEF PollReturn, Threads!ReturnPoll
      <3>3. QED
        BY <3>2 DEF Threads!Next
    <2>5. QED
      BY <2>3, <2>4
  <1>4. CASE OffReturn(f)
    <2>1. thBar[f] = "off" /\ thBar' = [thBar EXCEPT ![f] = "run"]
      BY <1>4 DEF OffReturn
    <2>2. devBar[f] = "done" /\ devBar' = [devBar EXCEPT ![f] = "idle"]
      <3>1. state[f] = "RUN" /\ dev[f] = "idle" /\ call[f] = "off"
        BY <1>4 DEF OffReturn, DeviceOwnsBuffer
      <3>2. dev' = dev /\ call' = [call EXCEPT ![f] = "none"]
        BY <1>4 DEF OffReturn
      <3>3. devBar[f] = "done"
        BY <3>1
      <3>4. \A g \in Fiber : devBar'[g] = IF g = f THEN "idle" ELSE devBar[g]
        BY <3>1, <3>2
      <3>5. QED
        BY <3>3, <3>4
    <2>3. Threads!ReturnOff(f)
      BY <1>4, <2>1, <2>2 DEF OffReturn, Threads!ReturnOff
    <2>4. QED
      BY <2>3 DEF Threads!Next
  <1>5. QED
    BY <1>1, <1>2, <1>3, <1>4 DEF Resume

\* A call of the running handler is the same call of its thread.
LEMMA RefineCall ==
  ASSUME IndInv, Exclusive, NEW f \in Fiber, HandlerCall(f)
  PROVE  Threads!Next
  <1> USE BoundsAssumption
      DEF IndInv, TypeOK, CallInv, LoopInv, Runnable, thBar, devBar, Fiber,
          NoFib, InHandler, Usable, fiberVars, envVars, loopVars
  <1>0. state[f] \in {"NEW", "RUN"} /\ call[f] = "none" /\ thBar[f] = "run"
    <2>1. InHandler(f)
      BY DEF HandlerCall, IoNow, IoPark, PollPark, Offload, Finish
    <2>2. state[f] \in {"NEW", "RUN"} /\ call[f] = "none"
      BY <2>1
    <2>3. QED
      BY <2>2
  <1>1. ASSUME NEW d \in Fd, NEW e \in Event, IoNow(f, d, e)
        PROVE  Threads!IoNow(f, e)
    BY <1>1 DEF IoNow, Transfer, Threads!IoNow, Threads!Transfer
  <1>2. ASSUME NEW d \in Fd, NEW e \in Event, IoPark(f, d, e)
        PROVE  Threads!CallIo(f, e)
    <2>1. thBar[f] = "run" /\ thBar' = [thBar EXCEPT ![f] = "io"]
      BY <1>0, <1>2 DEF IoPark, YieldIo
    <2>2. devBar' = devBar
      BY <1>2 DEF IoPark, YieldIo, DeviceOwnsBuffer
    <2>3. has_deadline' = has_deadline
      BY <1>2 DEF IoPark, PollInv
    <2>4. QED
      BY <1>2, <2>1, <2>2, <2>3 DEF IoPark, YieldIo, Threads!CallIo
  <1>3. ASSUME NEW d \in Fd, NEW e \in Event, NEW b \in BOOLEAN, PollPark(f, d, e, b)
        PROVE  Threads!CallPoll(f, e, b)
    <2>1. thBar[f] = "run" /\ thBar' = [thBar EXCEPT ![f] = "poll"]
      BY <1>0, <1>3 DEF PollPark, YieldIo
    <2>2. devBar' = devBar
      BY <1>3 DEF PollPark, YieldIo, DeviceOwnsBuffer
    <2>3. QED
      BY <1>3, <2>1, <2>2 DEF PollPark, YieldIo, Threads!CallPoll
  <1>4. CASE Offload(f)
    <2>1. thBar[f] = "run" /\ thBar' = [thBar EXCEPT ![f] = "off"]
      BY <1>0, <1>4 DEF Offload
    <2>2. devBar' = [devBar EXCEPT ![f] = "busy"]
      BY <1>4 DEF Offload
    <2>3. Threads!Submit(f)
      BY <1>4, <2>1, <2>2 DEF Offload, Threads!Submit
    <2>4. QED
      BY <2>3 DEF Threads!Next
  <1>5. CASE Finish(f)
    <2>1. thBar[f] = "run" /\ thBar' = [thBar EXCEPT ![f] = "done"]
      BY <1>0, <1>5 DEF Finish
    <2>2. devBar' = devBar
      BY <1>5 DEF Finish
    <2>3. Threads!Exit(f)
      BY <1>5, <2>1, <2>2 DEF Finish, Threads!Exit
    <2>4. QED
      BY <2>3 DEF Threads!Next
  <1>6. QED
    BY <1>1, <1>2, <1>3, <1>4, <1>5 DEF HandlerCall, Threads!Next

\* The accepting thread, the peers, the clock and the device are the same.
LEMMA RefineEnv ==
  ASSUME IndInv,
         \/ \E f \in Fiber : Expire(f) \/ Complete(f)
         \/ \E d \in Fd : Create(d)
         \/ \E d \in Fd, e \in Event : PeerReady(d, e)
  PROVE  Threads!Next
  <1> USE BoundsAssumption
      DEF IndInv, TypeOK, CallInv, thBar, devBar, Fiber,
          NoFib, fiberVars, envVars, loopVars
  <1>1. ASSUME NEW f \in Fiber, Expire(f) PROVE Threads!Expire(f)
    BY <1>1 DEF Expire, Threads!Expire
  <1>2. ASSUME NEW f \in Fiber, Complete(f) PROVE Threads!Complete(f)
    BY <1>2 DEF Complete, DeviceOwnsBuffer, Threads!Complete
  <1>3. ASSUME NEW d \in Fd, Create(d) PROVE Threads!Create(created + 1, d)
    <2>1. created + 1 \in Fiber /\ state[created + 1] = "NONE"
      BY <1>3, Lengths DEF Create, SlotsInv
    <2>2. QED
      BY <1>3, <2>1 DEF Create, Threads!Create
  <1>4. ASSUME NEW d \in Fd, Create(d) PROVE created + 1 \in Fiber
    BY <1>4 DEF Create
  <1>5. ASSUME NEW d \in Fd, NEW e \in Event, PeerReady(d, e)
        PROVE  Threads!PeerReady(d, e)
    BY <1>5 DEF PeerReady, Threads!PeerReady
  <1>6. QED
    BY <1>1, <1>2, <1>3, <1>4, <1>5 DEF Threads!Next

\* With one fiber per socket the runtime implements blocking threads: what a
\* server observes of its calls, one thread per connection could show it.
THEOREM Refinement == Exclusive => (Spec => ThreadsSpec)
  <1> SUFFICES ASSUME Exclusive PROVE Spec => ThreadsSpec
    OBVIOUS
  <1>1. IndInv /\ [Next]_vars => [Threads!Next]_(Threads!vars)
    <2> SUFFICES ASSUME IndInv, [Next]_vars
                 PROVE  Threads!Next \/ UNCHANGED Threads!vars
      OBVIOUS
    <2>1. CASE UNCHANGED vars
      BY <2>1 DEF vars, fiberVars, envVars, loopVars, Threads!vars, thBar, devBar
    <2>2. CASE Next
      BY <2>2, RefineCarrier, RefineResume, RefineCall, RefineEnv DEF Next
    <2>3. QED
      BY <2>1, <2>2
  <1>2. QED
    BY <1>1, Invariance, RefineInit, PTL DEF Spec, ThreadsSpec, Threads!Spec
=============================================================================
