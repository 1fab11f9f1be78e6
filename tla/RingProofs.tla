----------------------------- MODULE RingProofs -----------------------------
(***************************************************************************)
(* Proofs about the parts that place requests by a counter modulo the size *)
(* of a table: the worker pool of the Redis module, for any number of      *)
(* clients that fits its ring, workers and commands; the accelerator       *)
(* libraries with local slots, for any number of callers, slots and        *)
(* requests; the open-loop benchmark, for any pool, ring and load; and the *)
(* TCO servers, for any number of clients that MAXCONN has room for.       *)
(***************************************************************************)
EXTENDS RedisPool, AccelSlots, OpenLoop, TcoServer, FiniteSetTheorems, SequenceTheorems, TLAPS

-----------------------------------------------------------------------------
(* Positions of a ring that are less than its size apart have different    *)
(* slots.                                                                  *)

LEMMA DivMod ==
  ASSUME NEW a \in Nat, NEW n \in Nat \ {0}
  PROVE  a = n * (a \div n) + (a % n) /\ a \div n \in Nat
  OBVIOUS

LEMMA ModRange ==
  ASSUME NEW a \in Nat, NEW n \in Nat \ {0}
  PROVE  a % n \in 0..(n - 1)
  OBVIOUS

LEMMA MultipleBound ==
  ASSUME NEW n \in Nat \ {0}, NEW d \in Int, d >= 1
  PROVE  n * d >= n
  OBVIOUS

LEMMA RingSlotsDiffer ==
  ASSUME NEW n \in Nat \ {0}, NEW a \in Nat, NEW b \in Nat, a < b, b < a + n
  PROVE  a % n # b % n
  <1> SUFFICES ASSUME a % n = b % n PROVE FALSE
    OBVIOUS
  <1> DEFINE x == a \div n
             y == b \div n
  <1>0. a % n \in Nat
    BY ModRange
  <1>1. a = n * x + (a % n) /\ x \in Nat
    BY DivMod
  <1>2. b = n * y + (b % n) /\ y \in Nat
    BY DivMod
  <1> HIDE DEF x, y
  <1>3. n * (y - x) = b - a
    <2>1. n * y - n * x = b - a
      BY <1>0, <1>1, <1>2
    <2>2. n * y - n * x = n * (y - x)
      BY <1>1, <1>2
    <2>3. QED
      BY <2>1, <2>2
  <1>4. CASE y - x >= 1
    <2>1. n * (y - x) >= n
      BY <1>1, <1>2, <1>4, MultipleBound
    <2>2. QED
      BY <1>3, <2>1
  <1>5. CASE y - x <= 0
    <2>1. n * (x - y) >= 0
      BY <1>1, <1>2, <1>5
    <2>2. n * (y - x) = 0 - n * (x - y)
      BY <1>1, <1>2
    <2>3. QED
      BY <1>1, <1>2, <1>3, <2>1, <2>2
  <1>6. QED
    BY <1>1, <1>2, <1>4, <1>5

-----------------------------------------------------------------------------
(* The worker pool of the Redis module. *)

\* Positions of the ring that are in use, and what is there.
RpUsed == rpTail..(rpHead - 1)
RpAtPos(i) == rpRing[i % RpQN]

RpTypeOK ==
    /\ rpAt \in [RpClient -> {"idle", "blocked", "sync"}]
    /\ rpRing \in [0..(RpQN - 1) -> RpClient \cup {"empty"}]
    /\ rpHead \in Nat /\ rpTail \in Nat /\ rpTail <= rpHead
    /\ rpWork \in [RpWorker -> RpClient \cup {"awake", "asleep"}]
    /\ rpReady \subseteq RpClient

\* The ring never overflows and holds no client twice.
RpRingInv ==
    /\ rpHead - rpTail <= RpQN
    /\ \A i \in RpUsed : RpAtPos(i) \in RpClient
    /\ \A i, j \in RpUsed : RpAtPos(i) = RpAtPos(j) => i = j

\* The ring, the workers and the pending replies share no client.
RpApartInv ==
    /\ \A i \in RpUsed : RpAtPos(i) \notin rpReady /\ \A w \in RpWorker : rpWork[w] # RpAtPos(i)
    /\ \A w, v \in RpWorker : rpWork[w] \in RpClient /\ rpWork[w] = rpWork[v] => w = v
    /\ \A w \in RpWorker : rpWork[w] \notin rpReady

\* Somebody has every blocked client, and nobody has another one.
RpBlockedInv ==
    \A c \in RpClient : rpAt[c] = "blocked" <=>
        \/ \E i \in RpUsed : RpAtPos(i) = c
        \/ \E w \in RpWorker : rpWork[w] = c
        \/ c \in rpReady

RpIndInv == RpTypeOK /\ RpRingInv /\ RpApartInv /\ RpBlockedInv /\ RpNoIdleSleeper

RpAwake == {w \in RpWorker : rpWork[w] = "awake"}

LEMMA RpInitInv == RpInit => RpIndInv
  <1> SUFFICES ASSUME RpInit PROVE RpIndInv
    OBVIOUS
  <1> USE RpAssumption DEF RpInit
  <1>1. RpTypeOK
    BY DEF RpTypeOK
  <1>2. RpUsed = {}
    BY DEF RpUsed
  <1>3. RpRingInv /\ RpApartInv /\ RpBlockedInv
    BY <1>2 DEF RpRingInv, RpApartInv, RpBlockedInv
  <1>4. RpNoIdleSleeper
    BY DEF RpNoIdleSleeper, RpAsleep
  <1>5. QED
    BY <1>1, <1>3, <1>4 DEF RpIndInv

\* There is room in the ring for a client that is not blocked: the others are
\* fewer than its places.
LEMMA RpRoom ==
  ASSUME RpIndInv, NEW c \in RpClient, rpAt[c] # "blocked"
  PROVE  rpHead - rpTail < RpQN
  <1> DEFINE F == [i \in RpUsed |-> RpAtPos(i)]
             T == RpClient \ {c}
  <1>1. \A i \in RpUsed : RpAtPos(i) \in T
    BY DEF RpIndInv, RpRingInv, RpBlockedInv
  <1>2. F \in Injection(RpUsed, T)
    <2>1. F \in [RpUsed -> T]
      BY <1>1
    <2>2. \A i, j \in RpUsed : F[i] = F[j] => i = j
      BY DEF RpIndInv, RpRingInv
    <2>3. QED
      BY <2>1, <2>2 DEF Injection, IsInjective
  <1>3. IsFiniteSet(T) /\ Cardinality(T) = Cardinality(RpClient) - 1
    BY RpAssumption, FS_RemoveElement
  <1>4. Cardinality(RpUsed) <= Cardinality(T)
    BY <1>2, <1>3, FS_Injection
  <1>5. rpTail \in Int /\ rpHead - 1 \in Int
    BY DEF RpIndInv, RpTypeOK
  <1>6. Cardinality(RpUsed) = IF rpTail > rpHead - 1 THEN 0 ELSE (rpHead - 1) - rpTail + 1
    BY <1>5, FS_Interval DEF RpUsed
  <1>7. Cardinality(RpClient) \in Nat
    BY RpAssumption, FS_CardinalityType
  <1>8. QED
    BY <1>3, <1>4, <1>6, <1>7, RpAssumption DEF RpIndInv, RpTypeOK

LEMMA RpAwakeFinite == IsFiniteSet(RpAwake) /\ Cardinality(RpAwake) \in Nat
  <1>1. RpAwake \in SUBSET RpWorker
    BY DEF RpAwake
  <1>2. QED
    BY <1>1, RpAssumption, FS_Subset, FS_CardinalityType

LEMMA RpAwakeFiniteNext == IsFiniteSet(RpAwake') /\ Cardinality(RpAwake') \in Nat
  <1>1. RpAwake' \in SUBSET RpWorker
    BY DEF RpAwake
  <1>2. QED
    BY <1>1, RpAssumption, FS_Subset, FS_CardinalityType

\* RpBlockedInv after a step, client by client.
LEMMA RpBlockedNext ==
  ASSUME \A d \in RpClient :
           (rpAt'[d] = "blocked") <=> (\/ \E i \in RpUsed' : RpAtPos(i)' = d
                                       \/ \E w \in RpWorker : rpWork'[w] = d
                                       \/ d \in rpReady')
  PROVE  RpBlockedInv'
  BY DEF RpBlockedInv

\* cmd_async(): the new entry overwrites none that is in use.
LEMMA RpAsyncStep ==
  ASSUME RpIndInv, NEW c \in RpClient, RpAsync(c)
  PROVE  RpIndInv'
  <1> USE RpAssumption DEF RpAsync
  <1>1. rpHead - rpTail < RpQN /\ rpHead \in Nat /\ rpTail \in Nat /\ rpTail <= rpHead
    BY RpRoom DEF RpIndInv, RpTypeOK
  <1>2. RpUsed' = RpUsed \cup {rpHead} /\ rpHead \notin RpUsed
    BY <1>1 DEF RpUsed
  <1>3. rpHead % RpQN \in 0..(RpQN - 1)
    BY <1>1, ModRange
  <1>4. \A i \in RpUsed' : i = rpHead => RpAtPos(i)' = c
    BY <1>3 DEF RpAtPos, RpIndInv, RpTypeOK
  <1>5. ASSUME NEW i \in RpUsed PROVE RpAtPos(i)' = RpAtPos(i)
    <2>1. i \in Nat /\ i < rpHead /\ rpHead < i + RpQN
      BY <1>1 DEF RpUsed
    <2>2. i % RpQN # rpHead % RpQN
      BY <1>1, <2>1, RingSlotsDiffer
    <2>3. i % RpQN \in 0..(RpQN - 1)
      BY <2>1, ModRange
    <2>4. QED
      BY <1>3, <2>2, <2>3 DEF RpAtPos, RpIndInv, RpTypeOK
  <1>6. \A w \in RpWorker :
            rpWork'[w] = rpWork[w] \/ (rpWork[w] = "asleep" /\ rpWork'[w] = "awake")
    BY DEF RpSignal, RpAsleep, RpIndInv, RpTypeOK
  <1>7. RpTypeOK'
    BY <1>1, <1>3 DEF RpSignal, RpAsleep, RpIndInv, RpTypeOK
  <1>8. /\ \A i \in RpUsed : RpAtPos(i) # c
        /\ \A w \in RpWorker : rpWork[w] # c
        /\ c \notin rpReady
    BY DEF RpIndInv, RpBlockedInv
  <1>9. \A w \in RpWorker : rpWork'[w] \in RpClient => rpWork'[w] = rpWork[w]
    BY <1>6
  <1>10. RpRingInv'
    <2>1. rpHead' - rpTail' <= RpQN
      BY <1>1
    <2>2. \A i \in RpUsed' : RpAtPos(i)' \in RpClient
      BY <1>2, <1>4, <1>5 DEF RpIndInv, RpRingInv
    <2>3. \A i, j \in RpUsed' : RpAtPos(i)' = RpAtPos(j)' => i = j
      BY <1>2, <1>4, <1>5, <1>8 DEF RpIndInv, RpRingInv
    <2>4. QED
      BY <2>1, <2>2, <2>3 DEF RpRingInv
  <1>11. RpApartInv'
    <2>1. ASSUME NEW i \in RpUsed'
          PROVE  RpAtPos(i)' \notin rpReady' /\ \A w \in RpWorker : rpWork'[w] # RpAtPos(i)'
      <3>1. RpAtPos(i)' \in RpClient
        BY <1>10 DEF RpRingInv
      <3>2. CASE i = rpHead
        BY <1>4, <1>8, <1>9, <3>1, <3>2
      <3>3. CASE i \in RpUsed
        BY <1>5, <1>9, <3>1, <3>3 DEF RpIndInv, RpApartInv
      <3>4. QED
        BY <1>2, <3>2, <3>3
    <2>2. /\ \A w, v \in RpWorker : rpWork'[w] \in RpClient /\ rpWork'[w] = rpWork'[v] => w = v
          /\ \A w \in RpWorker : rpWork'[w] \notin rpReady'
      BY <1>9 DEF RpIndInv, RpApartInv, RpTypeOK
    <2>3. QED
      BY <2>1, <2>2 DEF RpApartInv
  <1>12. RpBlockedInv'
    <2> SUFFICES ASSUME NEW d \in RpClient
                 PROVE  (rpAt'[d] = "blocked") <=> (\/ \E i \in RpUsed' : RpAtPos(i)' = d
                                                    \/ \E w \in RpWorker : rpWork'[w] = d
                                                    \/ d \in rpReady')
      BY RpBlockedNext
    <2>1. CASE d = c
      BY <1>2, <1>4, <2>1 DEF RpIndInv, RpTypeOK
    <2>2. CASE d # c
      <3>1. rpAt'[d] = rpAt[d] /\ rpReady' = rpReady
        BY <2>2 DEF RpIndInv, RpTypeOK
      <3>2. (\E i \in RpUsed' : RpAtPos(i)' = d) <=> (\E i \in RpUsed : RpAtPos(i) = d)
        BY <1>2, <1>4, <1>5, <2>2
      <3>3. (\E w \in RpWorker : rpWork'[w] = d) <=> (\E w \in RpWorker : rpWork[w] = d)
        BY <1>6
      <3>4. (rpAt[d] = "blocked") <=> (\/ \E i \in RpUsed : RpAtPos(i) = d
                                       \/ \E w \in RpWorker : rpWork[w] = d
                                       \/ d \in rpReady)
        BY DEF RpIndInv, RpBlockedInv
      <3>5. QED
        BY <3>1, <3>2, <3>3, <3>4, Zenon
    <2>3. QED
      BY <2>1, <2>2
  <1>13. RpNoIdleSleeper'
    <2>1. CASE RpAsleep = {}
      BY <2>1 DEF RpNoIdleSleeper, RpAsleep
    <2>2. ASSUME NEW w \in RpAsleep, rpWork' = RpSignal(w) PROVE RpNoIdleSleeper'
      <3>1. RpAwake' = RpAwake \cup {w} /\ w \notin RpAwake
        BY <2>2 DEF RpAwake, RpAsleep, RpSignal, RpIndInv, RpTypeOK
      <3>2. Cardinality(RpAwake') = Cardinality(RpAwake) + 1
        BY <3>1, RpAwakeFinite, FS_AddElement
      <3>3. rpHead - rpTail <= Cardinality(RpAwake)
        BY <2>2 DEF RpIndInv, RpNoIdleSleeper, RpAwake
      <3>4. rpHead' - rpTail' <= Cardinality(RpAwake')
        BY <1>1, <3>2, <3>3, RpAwakeFinite
      <3>5. QED
        BY <3>4 DEF RpNoIdleSleeper, RpAwake
    <2>3. QED
      BY <2>1, <2>2
  <1>14. QED
    BY <1>7, <1>10, <1>11, <1>12, <1>13 DEF RpIndInv

\* accel.sync() and the replies touch neither the ring nor the workers.
LEMMA RpLoopStep ==
  ASSUME RpIndInv, NEW c \in RpClient, RpSync(c) \/ RpSyncEnd(c) \/ RpReply(c)
  PROVE  RpIndInv'
  <1> USE RpAssumption DEF RpSync, RpSyncEnd, RpReply
  <1>1. /\ RpUsed' = RpUsed /\ rpWork' = rpWork /\ rpHead' = rpHead /\ rpTail' = rpTail
        /\ rpReady' \in SUBSET rpReady /\ rpRing' = rpRing
    BY DEF RpUsed
  <1>2. \A i \in RpUsed : RpAtPos(i)' = RpAtPos(i)
    BY <1>1 DEF RpAtPos
  <1>3. RpTypeOK'
    BY <1>1 DEF RpIndInv, RpTypeOK
  <1>4. RpRingInv' /\ RpApartInv'
    BY <1>1, <1>2 DEF RpIndInv, RpRingInv, RpApartInv
  <1>5. RpBlockedInv'
    <2> SUFFICES ASSUME NEW d \in RpClient
                 PROVE  (rpAt'[d] = "blocked") <=> (\/ \E i \in RpUsed : RpAtPos(i) = d
                                                    \/ \E w \in RpWorker : rpWork[w] = d
                                                    \/ d \in rpReady')
      BY <1>1, <1>2, RpBlockedNext
    <2>1. CASE d # c
      <3>1. rpAt'[d] = rpAt[d] /\ (d \in rpReady' <=> d \in rpReady)
        BY <2>1 DEF RpIndInv, RpTypeOK
      <3>2. (rpAt[d] = "blocked") <=> (\/ \E i \in RpUsed : RpAtPos(i) = d
                                       \/ \E w \in RpWorker : rpWork[w] = d
                                       \/ d \in rpReady)
        BY DEF RpIndInv, RpBlockedInv
      <3>3. QED
        BY <3>1, <3>2, Zenon
    <2>2. CASE d = c /\ RpReply(c)
      <3>1. rpAt'[d] = "idle" /\ d \notin rpReady' /\ d \in rpReady
        BY <2>2 DEF RpIndInv, RpTypeOK
      <3>2. (\A i \in RpUsed : RpAtPos(i) # d) /\ (\A w \in RpWorker : rpWork[w] # d)
        BY <3>1 DEF RpIndInv, RpApartInv
      <3>3. QED
        BY <3>1, <3>2
    <2>3. CASE d = c /\ (RpSync(c) \/ RpSyncEnd(c))
      <3>1. rpAt'[d] # "blocked" /\ rpAt[d] # "blocked" /\ rpReady' = rpReady
        BY <2>3 DEF RpIndInv, RpTypeOK
      <3>2. QED
        BY <3>1 DEF RpIndInv, RpBlockedInv
    <2>4. QED
      BY <2>1, <2>2, <2>3
  <1>6. RpNoIdleSleeper'
    BY <1>1 DEF RpIndInv, RpNoIdleSleeper, RpAsleep
  <1>7. QED
    BY <1>3, <1>4, <1>5, <1>6 DEF RpIndInv

\* worker(): an awake worker finds the ring empty, ...
LEMMA RpSleepStep ==
  ASSUME RpIndInv, NEW w \in RpWorker, RpTake(w), rpHead = rpTail
  PROVE  RpIndInv'
  <1> USE RpAssumption DEF RpTake
  <1>1. /\ rpWork' = [rpWork EXCEPT ![w] = "asleep"] /\ rpWork[w] = "awake"
        /\ UNCHANGED <<rpAt, rpRing, rpHead, rpTail, rpReady>>
    OBVIOUS
  <1>2. RpUsed = {} /\ RpUsed' = {}
    BY <1>1 DEF RpUsed, RpIndInv, RpTypeOK
  <1>3. \A v \in RpWorker : rpWork'[v] = rpWork[v] \/ (rpWork[v] = "awake" /\ rpWork'[v] = "asleep")
    BY <1>1 DEF RpIndInv, RpTypeOK
  <1>4. RpTypeOK'
    BY <1>1 DEF RpIndInv, RpTypeOK
  <1>5. RpRingInv'
    BY <1>1, <1>2 DEF RpIndInv, RpRingInv
  <1>6. RpApartInv'
    BY <1>1, <1>2, <1>3 DEF RpIndInv, RpApartInv, RpTypeOK
  <1>7. RpBlockedInv'
    BY <1>1, <1>2, <1>3 DEF RpIndInv, RpBlockedInv
  <1>8. RpNoIdleSleeper'
    <2>1. rpHead' - rpTail' = 0
      BY <1>1 DEF RpIndInv, RpTypeOK
    <2>2. Cardinality(RpAwake') \in Nat
      BY RpAwakeFiniteNext
    <2>3. QED
      BY <2>1, <2>2 DEF RpNoIdleSleeper, RpAwake
  <1>9. QED
    BY <1>4, <1>5, <1>6, <1>7, <1>8 DEF RpIndInv

\* ... or takes the job at its tail.
LEMMA RpJobStep ==
  ASSUME RpIndInv, NEW w \in RpWorker, RpTake(w), rpHead # rpTail
  PROVE  RpIndInv'
  <1> USE RpAssumption DEF RpTake
  <1> DEFINE c == rpRing[rpTail % RpQN]
  <1>1. /\ rpWork' = [rpWork EXCEPT ![w] = c] /\ rpWork[w] = "awake" /\ rpTail' = rpTail + 1
        /\ UNCHANGED <<rpAt, rpRing, rpHead, rpReady>>
    OBVIOUS
  <1>2. /\ rpTail \in RpUsed /\ RpUsed' = RpUsed \ {rpTail}
        /\ rpHead \in Nat /\ rpTail \in Nat /\ rpTail < rpHead
    BY <1>1 DEF RpUsed, RpIndInv, RpTypeOK
  <1>3. c = RpAtPos(rpTail) /\ c \in RpClient
    BY <1>2 DEF RpAtPos, RpIndInv, RpRingInv
  <1> HIDE DEF c
  <1>4. \A i \in RpUsed' : i \in RpUsed /\ RpAtPos(i)' = RpAtPos(i) /\ RpAtPos(i) # c
    BY <1>1, <1>2, <1>3 DEF RpAtPos, RpIndInv, RpRingInv
  <1>5. rpWork'[w] = c /\ \A v \in RpWorker : v # w => rpWork'[v] = rpWork[v]
    BY <1>1 DEF RpIndInv, RpTypeOK
  <1>6. c \notin rpReady /\ \A v \in RpWorker : rpWork[v] # c
    BY <1>2, <1>3 DEF RpIndInv, RpApartInv
  <1>7. RpTypeOK'
    <2>1. rpWork' \in [RpWorker -> RpClient \cup {"awake", "asleep"}]
      BY <1>1, <1>3 DEF RpIndInv, RpTypeOK
    <2>2. rpTail' \in Nat /\ rpTail' <= rpHead
      BY <1>1, <1>2
    <2>3. QED
      BY <1>1, <2>1, <2>2 DEF RpIndInv, RpTypeOK
  <1>8. RpRingInv'
    BY <1>1, <1>2, <1>4 DEF RpIndInv, RpRingInv
  <1>9. RpApartInv'
    BY <1>1, <1>4, <1>5, <1>6 DEF RpIndInv, RpApartInv
  <1>10. RpBlockedInv'
    <2> SUFFICES ASSUME NEW d \in RpClient
                 PROVE  rpAt[d] = "blocked" <=> \/ \E i \in RpUsed' : RpAtPos(i)' = d
                                                \/ \E v \in RpWorker : rpWork'[v] = d
                                                \/ d \in rpReady
      BY <1>1 DEF RpBlockedInv
    <2>1. CASE d = c
      BY <1>2, <1>3, <1>5, <2>1 DEF RpIndInv, RpBlockedInv
    <2>2. CASE d # c
      <3>1. (\E i \in RpUsed' : RpAtPos(i)' = d) <=> (\E i \in RpUsed : RpAtPos(i) = d)
        BY <1>2, <1>3, <1>4, <2>2
      <3>2. (\E v \in RpWorker : rpWork'[v] = d) <=> (\E v \in RpWorker : rpWork[v] = d)
        BY <1>1, <1>5, <2>2
      <3>3. QED
        BY <3>1, <3>2 DEF RpIndInv, RpBlockedInv
    <2>3. QED
      BY <2>1, <2>2
  <1>11. RpNoIdleSleeper'
    <2>1. RpAwake' = RpAwake \ {w} /\ w \in RpAwake
      BY <1>1, <1>3, <1>5 DEF RpAwake
    <2>2. Cardinality(RpAwake') = Cardinality(RpAwake) - 1
      BY <2>1, RpAwakeFinite, FS_RemoveElement
    <2>3. RpAsleep' = RpAsleep
      BY <1>1, <1>3, <1>5 DEF RpAsleep
    <2>4. RpAsleep # {} => rpHead - rpTail <= Cardinality(RpAwake)
      BY DEF RpIndInv, RpNoIdleSleeper, RpAwake
    <2>5. RpAsleep' # {} => rpHead' - rpTail' <= Cardinality(RpAwake')
      BY <1>1, <1>2, <2>2, <2>3, <2>4, RpAwakeFinite
    <2>6. QED
      BY <2>5 DEF RpNoIdleSleeper, RpAwake
  <1>12. QED
    BY <1>7, <1>8, <1>9, <1>10, <1>11 DEF RpIndInv

LEMMA RpUnblockStep ==
  ASSUME RpIndInv, NEW w \in RpWorker, RpUnblock(w)
  PROVE  RpIndInv'
  <1> USE RpAssumption DEF RpUnblock
  <1> DEFINE c == rpWork[w]
  <1>1. /\ c \in RpClient /\ rpReady' = rpReady \cup {c}
        /\ rpWork' = [rpWork EXCEPT ![w] = "awake"]
        /\ UNCHANGED <<rpAt, rpRing, rpHead, rpTail>>
    OBVIOUS
  <1>2. RpUsed' = RpUsed /\ \A i \in RpUsed : RpAtPos(i)' = RpAtPos(i) /\ RpAtPos(i) # c
    BY <1>1 DEF RpUsed, RpAtPos, RpIndInv, RpApartInv
  <1>3. /\ rpWork'[w] = "awake"
        /\ \A v \in RpWorker : v # w => rpWork'[v] = rpWork[v] /\ rpWork[v] # c
    BY <1>1 DEF RpIndInv, RpTypeOK, RpApartInv
  <1>4. RpTypeOK'
    BY <1>1 DEF RpIndInv, RpTypeOK
  <1>5. RpRingInv'
    BY <1>1, <1>2 DEF RpIndInv, RpRingInv
  <1>6. RpApartInv'
    BY <1>1, <1>2, <1>3 DEF RpIndInv, RpRingInv, RpApartInv, RpTypeOK
  <1>7. RpBlockedInv'
    <2> SUFFICES ASSUME NEW d \in RpClient
                 PROVE  rpAt[d] = "blocked" <=> \/ \E i \in RpUsed : RpAtPos(i) = d
                                                \/ \E v \in RpWorker : rpWork'[v] = d
                                                \/ d \in rpReady'
      BY <1>1, <1>2 DEF RpBlockedInv
    <2>1. CASE d = c
      BY <1>1, <2>1 DEF RpIndInv, RpBlockedInv
    <2>2. CASE d # c
      <3>1. (\E v \in RpWorker : rpWork'[v] = d) <=> (\E v \in RpWorker : rpWork[v] = d)
        BY <1>3, <2>2
      <3>2. d \in rpReady' <=> d \in rpReady
        BY <1>1, <2>2
      <3>3. QED
        BY <3>1, <3>2 DEF RpIndInv, RpBlockedInv
    <2>3. QED
      BY <2>1, <2>2
  <1>8. RpNoIdleSleeper'
    <2>1. RpAwake' = RpAwake \cup {w}
      BY <1>3 DEF RpAwake
    <2>2. Cardinality(RpAwake') = Cardinality(RpAwake) + 1
      <3>1. w \notin RpAwake
        BY <1>1 DEF RpAwake
      <3>2. QED
        BY <2>1, <3>1, RpAwakeFinite, FS_AddElement
    <2>3. RpAsleep' # {} => RpAsleep # {}
      BY <1>3 DEF RpAsleep
    <2>4. RpAsleep # {} => rpHead - rpTail <= Cardinality(RpAwake)
      BY DEF RpIndInv, RpNoIdleSleeper, RpAwake
    <2>5. rpHead \in Nat /\ rpTail \in Nat /\ Cardinality(RpAwake') \in Nat
      BY RpAwakeFiniteNext DEF RpIndInv, RpTypeOK
    <2>6. RpAsleep' # {} => rpHead' - rpTail' <= Cardinality(RpAwake')
      BY <1>1, <2>2, <2>3, <2>4, <2>5, RpAwakeFinite
    <2>7. QED
      BY <2>6 DEF RpNoIdleSleeper, RpAwake
  <1>9. QED
    BY <1>4, <1>5, <1>6, <1>7, <1>8 DEF RpIndInv

LEMMA RpNextInv == RpIndInv /\ [RpNext]_rpVars => RpIndInv'
  <1> SUFFICES ASSUME RpIndInv, [RpNext]_rpVars PROVE RpIndInv'
    OBVIOUS
  <1>1. CASE RpServe
    BY <1>1, RpLoopStep, RpSleepStep, RpJobStep, RpUnblockStep DEF RpServe
  <1>2. ASSUME NEW c \in RpClient, RpAsync(c) \/ RpSync(c) PROVE RpIndInv'
    BY <1>2, RpAsyncStep, RpLoopStep
  <1>3. CASE UNCHANGED rpVars
    <2> USE <1>3 DEF rpVars, RpIndInv, RpUsed, RpAtPos
    <2>1. RpTypeOK' /\ RpRingInv'
      BY DEF RpTypeOK, RpRingInv
    <2>2. RpApartInv' /\ RpBlockedInv'
      BY DEF RpApartInv, RpBlockedInv
    <2>3. RpNoIdleSleeper'
      BY DEF RpNoIdleSleeper, RpAsleep
    <2>4. QED
      BY <2>1, <2>2, <2>3
  <1>4. QED
    BY <1>1, <1>2, <1>3 DEF RpNext

\* A set with at most one element has as many as there is a witness for.
LEMMA AtMostOne ==
  ASSUME NEW S, \A x, y \in S : x = y
  PROVE  Cardinality(S) = IF S = {} THEN 0 ELSE 1
  <1>1. CASE S = {}
    BY <1>1, FS_EmptySet
  <1>2. ASSUME NEW x \in S PROVE Cardinality(S) = 1 /\ S # {}
    <2>1. S = {x}
      BY <1>2
    <2>2. QED
      BY <2>1, FS_Singleton
  <1>3. QED
    BY <1>1, <1>2

LEMMA RpIndInvOnePlace == RpIndInv => RpOnePlace
  <1> SUFFICES ASSUME RpIndInv, NEW c \in RpClient
               PROVE  Cardinality({i \in RpUsed : RpAtPos(i) = c})
                      + Cardinality({w \in RpWorker : rpWork[w] = c})
                      + (IF c \in rpReady THEN 1 ELSE 0)
                      = IF rpAt[c] = "blocked" THEN 1 ELSE 0
    BY DEF RpOnePlace, RpUsed, RpAtPos
  <1> DEFINE I == {i \in RpUsed : RpAtPos(i) = c}
             W == {w \in RpWorker : rpWork[w] = c}
  <1>1. Cardinality(I) = IF I = {} THEN 0 ELSE 1
    <2>1. \A x, y \in I : x = y
      BY DEF RpIndInv, RpRingInv
    <2>2. QED
      BY <2>1, AtMostOne
  <1>2. Cardinality(W) = IF W = {} THEN 0 ELSE 1
    <2>1. \A x, y \in W : x = y
      BY DEF RpIndInv, RpApartInv
    <2>2. QED
      BY <2>1, AtMostOne
  <1>3. I # {} => W = {} /\ c \notin rpReady
    BY DEF RpIndInv, RpApartInv
  <1>4. W # {} => c \notin rpReady
    BY DEF RpIndInv, RpApartInv
  <1>5. rpAt[c] = "blocked" <=> I # {} \/ W # {} \/ c \in rpReady
    BY DEF RpIndInv, RpBlockedInv
  <1> HIDE DEF I, W
  <1>6. Cardinality(I) + Cardinality(W) + (IF c \in rpReady THEN 1 ELSE 0)
        = IF rpAt[c] = "blocked" THEN 1 ELSE 0
    BY <1>1, <1>2, <1>3, <1>4, <1>5
  <1>7. QED
    BY <1>6 DEF I, W

\* cmd_async() and worker() with qmx and qcv: a blocked client is in the ring,
\* with one worker or among the replies, never in two of them and never in
\* none; and one pthread_cond_signal() per command is enough, because a worker
\* sleeps only while enough others are awake for all that is in the ring.
THEOREM RpCorrect == RpSpec => []RpServed
  <1>1. RpIndInv => RpServed
    BY RpIndInvOnePlace DEF RpIndInv, RpServed
  <1>2. QED
    BY <1>1, RpInitInv, RpNextInv, PTL DEF RpSpec

-----------------------------------------------------------------------------
(* The accelerator libraries with local slots. *)

AsPcs == {"ensure", "lock", "start", "take", "inited?", "initlock", "init", "fill", "arm", "submitted"}

\* The ids a caller has to collect; the last of them may not be submitted yet.
AsPend(t) == {asIds[t][k] : k \in 1..Len(asIds[t])}
AsNew(t) == asPc[t] \in {"inited?", "initlock", "init", "fill", "arm"}
AsArmed(t) == IF AsNew(t) THEN AsPend(t) \ {AsMine(t)} ELSE AsPend(t)

AsRecord == [id : Nat, busy : BOOLEAN, done : BOOLEAN, inited : Nat]

AsTypeOK ==
    /\ asLib \in {"emu", "gpu", "heavy"} /\ asStarted \in BOOLEAN
    /\ asDevices \subseteq AsThread
    /\ asHead \in Nat /\ asHead <= AsMaxId
    /\ asSlot \in [AsSlots -> AsRecord]
    /\ asPc \in [AsThread -> AsPcs]
    /\ asIds \in [AsThread -> Seq(Nat)]
    /\ asDev \in [AsThread -> 0..AsNSLOT]
    /\ asEnc \in [AsIds -> Nat]

\* Ids are handed out once, and are collected within NSLOT of the latest.
AsIdInv ==
    /\ \A t, u \in AsThread : \A k \in 1..Len(asIds[t]), l \in 1..Len(asIds[u]) :
           asIds[t][k] = asIds[u][l] => t = u /\ k = l
    /\ \A t \in AsThread : \A x \in AsPend(t) : x < asHead /\ asHead <= x + AsNSLOT
    /\ \A t \in AsThread : AsNew(t) \/ asPc[t] = "submitted" => asIds[t] # <<>>

\* A request that is being submitted: nothing has touched its slot.
AsNewInv ==
    \A t \in AsThread : AsNew(t) =>
        LET x == AsMine(t)
            s == asSlot[AsSlotOf(x)]
        IN  /\ asEnc[x] = 0 /\ ~s.busy
            /\ asPc[t] = "arm" => s.id = x /\ ~s.done
            /\ asPc[t] = "initlock" => asLib = "gpu"
            /\ asLib = "heavy" /\ asPc[t] = "init" => s.inited = 0

\* A request that was submitted has its slot, and was transformed when the
\* slot says done or a device thread is about to say so.
AsWorks(i) == \E d \in AsThread : asDev[d] = i

AsArmedInv ==
    \A t \in AsThread : \A x \in AsArmed(t) :
        LET s == asSlot[AsSlotOf(x)]
        IN  /\ s.id = x
            /\ s.busy = (IF AsGpu THEN ~s.done ELSE TRUE)
            /\ asEnc[x] = IF s.done \/ AsWorks(AsSlotOf(x)) THEN 1 ELSE 0

\* The device: one thread, and none on a GPU; it works on slots in use.
AsDeviceInv ==
    /\ \A i \in AsSlots : asSlot[i].busy => \E t \in AsThread : \E x \in AsArmed(t) : AsSlotOf(x) = i
    /\ \A d \in AsThread : asDev[d] # AsNSLOT => d \in asDevices /\ asSlot[asDev[d]].busy /\ ~asSlot[asDev[d]].done
    /\ asDevices # {} => asStarted /\ ~AsGpu
    /\ \A d, e \in asDevices : d = e

\* Requests that nobody waits for were transformed once, or not taken yet.
AsPastInv ==
    /\ \A x \in AsIds : x >= asHead => asEnc[x] = 0
    /\ \A x \in AsIds : x < asHead /\ (\A t \in AsThread : x \notin AsPend(t)) => asEnc[x] = 1
    /\ \A i \in AsSlots : asSlot[i].inited <= 1

AsIndInv == AsTypeOK /\ AsIdInv /\ AsNewInv /\ AsArmedInv /\ AsDeviceInv /\ AsPastInv

LEMMA AsInitInv == AsInit => AsIndInv
  <1> SUFFICES ASSUME AsInit PROVE AsIndInv
    OBVIOUS
  <1> USE AsAssumption
  <1>1. AsTypeOK
    <2>1. asSlot \in [AsSlots -> AsRecord]
      BY DEF AsInit, AsRecord
    <2>2. asIds \in [AsThread -> Seq(Nat)] /\ asDev \in [AsThread -> 0..AsNSLOT] /\ asEnc \in [AsIds -> Nat]
      BY DEF AsInit
    <2>3. asPc \in [AsThread -> AsPcs]
      BY DEF AsInit, AsPcs
    <2>4. asLib \in {"emu", "gpu", "heavy"} /\ asStarted \in BOOLEAN /\ asDevices \subseteq AsThread
      BY DEF AsInit
    <2>5. asHead \in Nat /\ asHead <= AsMaxId
      BY DEF AsInit
    <2>6. QED
      BY <2>1, <2>2, <2>3, <2>4, <2>5 DEF AsTypeOK
  <1>2. \A t \in AsThread : Len(asIds[t]) = 0 /\ AsPend(t) = {} /\ ~AsNew(t) /\ asPc[t] = "ensure"
    BY DEF AsInit, AsPend, AsNew
  <1>3. AsIdInv
    BY <1>2 DEF AsIdInv
  <1>4. AsNewInv /\ AsArmedInv
    BY <1>2 DEF AsNewInv, AsArmedInv, AsArmed
  <1>5. AsDeviceInv /\ AsPastInv
    BY <1>2 DEF AsDeviceInv, AsPastInv, AsInit, AsSlots, AsIds
  <1>6. QED
    BY <1>1, <1>3, <1>4, <1>5 DEF AsIndInv

-----------------------------------------------------------------------------
(* Requests that are under way have different slots. *)

LEMMA AsPending ==
  ASSUME AsTypeOK, AsIdInv, NEW t \in AsThread, NEW x \in AsPend(t)
  PROVE  x \in Nat /\ x \in AsIds /\ x < asHead /\ asHead <= x + AsNSLOT /\ AsSlotOf(x) \in AsSlots
  <1>1. x \in Nat
    BY DEF AsTypeOK, AsPend
  <1>2. x < asHead /\ asHead <= x + AsNSLOT
    BY DEF AsIdInv
  <1>3. x \in AsIds
    BY <1>1, <1>2, AsAssumption DEF AsTypeOK, AsIds
  <1>4. AsSlotOf(x) \in AsSlots
    BY <1>1, AsAssumption, ModRange DEF AsSlotOf, AsSlots
  <1>5. QED
    BY <1>1, <1>2, <1>3, <1>4

LEMMA AsApart ==
  ASSUME AsTypeOK, AsIdInv, NEW t \in AsThread, NEW u \in AsThread,
         NEW x \in AsPend(t), NEW y \in AsPend(u), x # y
  PROVE  AsSlotOf(x) # AsSlotOf(y)
  <1>1. /\ x \in Nat /\ x < asHead /\ asHead <= x + AsNSLOT
        /\ y \in Nat /\ y < asHead /\ asHead <= y + AsNSLOT
        /\ asHead \in Nat /\ AsNSLOT \in Nat \ {0}
    BY AsPending, AsAssumption DEF AsTypeOK
  <1>2. CASE x < y
    <2>1. y < x + AsNSLOT
      BY <1>1
    <2>2. QED
      BY <1>1, <1>2, <2>1, RingSlotsDiffer DEF AsSlotOf
  <1>3. CASE y < x
    <2>1. x < y + AsNSLOT
      BY <1>1
    <2>2. QED
      BY <1>1, <1>3, <2>1, RingSlotsDiffer DEF AsSlotOf
  <1>4. QED
    BY <1>1, <1>2, <1>3

LEMMA AsOwner ==
  ASSUME AsTypeOK, AsIdInv, NEW t \in AsThread, NEW u \in AsThread, NEW x \in AsPend(t), x \in AsPend(u)
  PROVE  t = u
  BY DEF AsIdInv, AsPend

LEMMA AsMinePending ==
  ASSUME AsTypeOK, AsIdInv, NEW t \in AsThread, AsNew(t)
  PROVE  AsMine(t) \in AsPend(t)
  <1>1. asIds[t] \in Seq(Nat) /\ asIds[t] # <<>>
    BY DEF AsTypeOK, AsIdInv
  <1>2. Len(asIds[t]) \in 1..Len(asIds[t])
    BY <1>1
  <1>3. QED
    BY <1>2 DEF AsMine, AsPend

LEMMA AsArmedPending ==
  ASSUME NEW t \in AsThread
  PROVE  AsArmed(t) \subseteq AsPend(t)
  BY DEF AsArmed

\* The request that a caller is submitting against all others.
LEMMA AsNewApart ==
  ASSUME AsTypeOK, AsIdInv, NEW t \in AsThread, AsNew(t)
  PROVE  /\ \A u \in AsThread : \A y \in AsArmed(u) : y # AsMine(t) /\ AsSlotOf(y) # AsSlotOf(AsMine(t))
         /\ \A u \in AsThread : u # t /\ AsNew(u) =>
                AsMine(u) # AsMine(t) /\ AsSlotOf(AsMine(u)) # AsSlotOf(AsMine(t))
  <1>1. AsMine(t) \in AsPend(t)
    BY AsMinePending
  <1>2. ASSUME NEW u \in AsThread, NEW y \in AsArmed(u)
        PROVE  y # AsMine(t) /\ AsSlotOf(y) # AsSlotOf(AsMine(t))
    <2>1. y \in AsPend(u)
      BY AsArmedPending
    <2>2. y # AsMine(t)
      BY <1>1, <2>1, AsOwner DEF AsArmed
    <2>3. QED
      BY <1>1, <2>1, <2>2, AsApart
  <1>3. ASSUME NEW u \in AsThread, u # t, AsNew(u)
        PROVE  AsMine(u) # AsMine(t) /\ AsSlotOf(AsMine(u)) # AsSlotOf(AsMine(t))
    <2>1. AsMine(u) \in AsPend(u)
      BY <1>3, AsMinePending
    <2>2. AsMine(u) # AsMine(t)
      BY <1>1, <1>3, <2>1, AsOwner
    <2>3. QED
      BY <1>1, <2>1, <2>2, AsApart
  <1>4. QED
    BY <1>2, <1>3

\* A busy slot and the request that is in it.
LEMMA AsBusy ==
  ASSUME AsIndInv, NEW i \in AsSlots, asSlot[i].busy
  PROVE  \E t \in AsThread : \E x \in AsArmed(t) :
             /\ AsSlotOf(x) = i /\ asSlot[i].id = x /\ x \in AsPend(t) /\ x \in AsIds /\ x < asHead
             /\ asEnc[x] = (IF asSlot[i].done \/ AsWorks(i) THEN 1 ELSE 0)
             /\ asSlot[i].busy = (IF AsGpu THEN ~asSlot[i].done ELSE TRUE)
  <1>1. PICK t \in AsThread : \E x \in AsArmed(t) : AsSlotOf(x) = i
    BY DEF AsIndInv, AsDeviceInv
  <1>2. PICK x \in AsArmed(t) : AsSlotOf(x) = i
    BY <1>1
  <1>3. x \in AsPend(t)
    BY AsArmedPending
  <1>4. x \in AsIds /\ x < asHead
    BY <1>3, AsPending DEF AsIndInv
  <1>5. QED
    BY <1>2, <1>3, <1>4 DEF AsIndInv, AsArmedInv

-----------------------------------------------------------------------------
(* The steps. *)

\* The invariants about requests after a step, request by request.
LEMMA AsNewNext ==
  ASSUME \A u \in AsThread : AsNew(u)' =>
           /\ asEnc'[AsMine(u)'] = 0 /\ ~asSlot'[AsSlotOf(AsMine(u)')].busy
           /\ asPc'[u] = "arm" => /\ asSlot'[AsSlotOf(AsMine(u)')].id = AsMine(u)'
                                  /\ ~asSlot'[AsSlotOf(AsMine(u)')].done
           /\ asPc'[u] = "initlock" => asLib' = "gpu"
           /\ asLib' = "heavy" /\ asPc'[u] = "init" => asSlot'[AsSlotOf(AsMine(u)')].inited = 0
  PROVE  AsNewInv'
  BY DEF AsNewInv, AsSlotOf

LEMMA AsArmedNext ==
  ASSUME \A u \in AsThread : \A x \in AsArmed(u)' :
           /\ asSlot'[AsSlotOf(x)].id = x
           /\ asSlot'[AsSlotOf(x)].busy = (IF AsGpu' THEN ~asSlot'[AsSlotOf(x)].done ELSE TRUE)
           /\ asEnc'[x] = IF asSlot'[AsSlotOf(x)].done \/ (\E d \in AsThread : asDev'[d] = AsSlotOf(x)) THEN 1 ELSE 0
  PROVE  AsArmedInv'
  BY DEF AsArmedInv, AsSlotOf, AsWorks

\* A caller moves on without touching ids, slots or the device's work.
LEMMA AsMoves ==
  ASSUME AsIndInv, NEW t \in AsThread, NEW l \in AsPcs, asPc' = [asPc EXCEPT ![t] = l],
         UNCHANGED <<asLib, asHead, asSlot, asIds, asDev, asEnc>>,
         AsNew(t) <=> l \in {"inited?", "initlock", "init", "fill", "arm"},
         l # "arm", l = "submitted" => asPc[t] = "submitted",
         l = "initlock" => asLib = "gpu",
         asLib = "heavy" /\ l = "init" => asSlot[AsSlotOf(AsMine(t))].inited = 0,
         asStarted' \in BOOLEAN, asDevices \subseteq asDevices', asDevices' \subseteq AsThread,
         asDevices' # {} => asStarted' /\ ~AsGpu, \A d, e \in asDevices' : d = e
  PROVE  AsIndInv'
  <1>1. asPc'[t] = l /\ \A u \in AsThread : u # t => asPc'[u] = asPc[u]
    BY DEF AsIndInv, AsTypeOK
  <1>2. AsTypeOK'
    BY DEF AsIndInv, AsTypeOK
  <1>3. \A u \in AsThread : /\ AsNew(u)' <=> AsNew(u)
                            /\ AsPend(u)' = AsPend(u) /\ AsMine(u)' = AsMine(u)
    BY <1>1 DEF AsNew, AsPend, AsMine
  <1>4. \A u \in AsThread : AsArmed(u)' = AsArmed(u)
    BY <1>3 DEF AsArmed
  <1>5. AsIdInv'
    BY <1>1, <1>3 DEF AsIndInv, AsIdInv
  <1>6. AsNewInv'
    <2> SUFFICES ASSUME NEW u \in AsThread, AsNew(u)
                 PROVE  /\ asEnc[AsMine(u)] = 0 /\ ~asSlot[AsSlotOf(AsMine(u))].busy
                        /\ asPc'[u] = "arm" => /\ asSlot[AsSlotOf(AsMine(u))].id = AsMine(u)
                                               /\ ~asSlot[AsSlotOf(AsMine(u))].done
                        /\ asPc'[u] = "initlock" => asLib = "gpu"
                        /\ asLib = "heavy" /\ asPc'[u] = "init" => asSlot[AsSlotOf(AsMine(u))].inited = 0
      BY <1>3 DEF AsNewInv, AsSlotOf
    <2>1. QED
      BY <1>1 DEF AsIndInv, AsNewInv
  <1>7. AsArmedInv'
    <2>1. AsGpu' <=> AsGpu
      BY DEF AsGpu
    <2>2. ASSUME NEW u \in AsThread, NEW x \in AsArmed(u)'
          PROVE  /\ asSlot'[AsSlotOf(x)].id = x
                 /\ asSlot'[AsSlotOf(x)].busy = (IF AsGpu' THEN ~asSlot'[AsSlotOf(x)].done ELSE TRUE)
                 /\ asEnc'[x] = IF asSlot'[AsSlotOf(x)].done \/ (\E d \in AsThread : asDev'[d] = AsSlotOf(x)) THEN 1 ELSE 0
      <3>1. x \in AsArmed(u) /\ UNCHANGED <<asSlot, asEnc, asDev>>
        BY <1>4
      <3>2. /\ asSlot[AsSlotOf(x)].id = x
            /\ asSlot[AsSlotOf(x)].busy = (IF AsGpu THEN ~asSlot[AsSlotOf(x)].done ELSE TRUE)
            /\ asEnc[x] = IF asSlot[AsSlotOf(x)].done \/ (\E d \in AsThread : asDev[d] = AsSlotOf(x)) THEN 1 ELSE 0
        BY <3>1 DEF AsIndInv, AsArmedInv, AsWorks
      <3>3. QED
        BY <2>1, <3>1, <3>2
    <2>3. QED
      BY <2>2, AsArmedNext
  <1>8. AsDeviceInv'
    BY <1>4 DEF AsIndInv, AsDeviceInv, AsSlotOf, AsGpu
  <1>9. AsPastInv'
    BY <1>3 DEF AsIndInv, AsPastInv
  <1>10. QED
    BY <1>2, <1>5, <1>6, <1>7, <1>8, <1>9 DEF AsIndInv

LEMMA AsMovesStep ==
  ASSUME AsIndInv, NEW t \in AsThread, AsEnsure(t) \/ AsLock(t) \/ AsInited(t) \/ AsMore(t)
  PROVE  AsIndInv'
  <1> DEFINE l == asPc'[t]
  <1>1. /\ asPc' = [asPc EXCEPT ![t] = l] /\ l \in AsPcs
        /\ UNCHANGED <<asLib, asStarted, asDevices, asHead, asSlot, asIds, asDev, asEnc>>
    BY DEF AsIndInv, AsTypeOK, AsEnsure, AsLock, AsInited, AsMore, AsGoto, AsPcs
  <1>2. /\ AsNew(t) <=> l \in {"inited?", "initlock", "init", "fill", "arm"}
        /\ l \notin {"arm", "submitted"}
    BY DEF AsIndInv, AsTypeOK, AsEnsure, AsLock, AsInited, AsMore, AsGoto, AsNew
  <1>3. l = "initlock" => asLib = "gpu"
    BY DEF AsIndInv, AsTypeOK, AsEnsure, AsLock, AsInited, AsMore, AsGoto
  <1>4. asLib = "heavy" /\ l = "init" => asSlot[AsSlotOf(AsMine(t))].inited = 0
    <2>1. CASE AsInited(t)
      <3>1. asSlot[AsSlotOf(AsMine(t))].inited \in Nat
        <4>1. AsNew(t)
          BY <2>1 DEF AsInited, AsNew
        <4>2. AsSlotOf(AsMine(t)) \in AsSlots
          BY <4>1, AsMinePending, AsPending DEF AsIndInv
        <4>3. QED
          BY <4>2 DEF AsIndInv, AsTypeOK, AsRecord
      <3>2. l = "init" => ~(asSlot[AsSlotOf(AsMine(t))].inited > 0)
        BY <2>1 DEF AsIndInv, AsTypeOK, AsInited, AsGoto
      <3>3. QED
        BY <3>1, <3>2
    <2>2. CASE AsLock(t)
      <3>1. l = "init" => asPc[t] = "initlock"
        BY <2>2 DEF AsIndInv, AsTypeOK, AsLock, AsGoto
      <3>2. asPc[t] = "initlock" => asLib = "gpu"
        BY DEF AsIndInv, AsNewInv, AsNew
      <3>3. QED
        BY <3>1, <3>2
    <2>3. CASE AsEnsure(t) \/ AsMore(t)
      BY <2>3 DEF AsIndInv, AsTypeOK, AsEnsure, AsMore, AsGoto
    <2>4. QED
      BY <2>1, <2>2, <2>3
  <1> HIDE DEF l
  <1>5. /\ asStarted' \in BOOLEAN /\ asDevices \subseteq asDevices' /\ asDevices' \subseteq AsThread
        /\ asDevices' # {} => asStarted' /\ ~AsGpu
        /\ \A d, e \in asDevices' : d = e
    BY <1>1 DEF AsIndInv, AsTypeOK, AsDeviceInv
  <1>6. QED
    BY <1>1, <1>2, <1>3, <1>4, <1>5, AsMoves

\* The second look under the lock: libaccel never has two device threads.
LEMMA AsStartStep ==
  ASSUME AsIndInv, NEW t \in AsThread, AsStart(t) \/ AsStartGpu(t)
  PROVE  AsIndInv'
  <1>1. /\ asPc' = [asPc EXCEPT ![t] = "take"] /\ "take" \in AsPcs /\ ~AsNew(t)
        /\ UNCHANGED <<asLib, asHead, asSlot, asIds, asDev, asEnc>>
    BY DEF AsStart, AsStartGpu, AsGoto, AsPcs, AsNew
  <1>2. asStarted' \in BOOLEAN /\ asDevices \subseteq asDevices' /\ asDevices' \subseteq AsThread
    BY DEF AsIndInv, AsTypeOK, AsStart, AsStartGpu
  <1>3. /\ asDevices' # {} => asStarted' /\ ~AsGpu
        /\ \A d, e \in asDevices' : d = e
    BY DEF AsIndInv, AsDeviceInv, AsStart, AsStartGpu
  <1>4. QED
    BY <1>1, <1>2, <1>3, AsMoves

\* What a step on one slot leaves: the other slots, and the invariants of the
\* requests in them.
LEMMA AsInitSlotStep ==
  ASSUME AsIndInv, NEW t \in AsThread, AsInitSlot(t) \/ AsInitSlotHeavy(t)
  PROVE  AsIndInv'
  <1> DEFINE i == AsSlotOf(AsMine(t))
  <1>1. AsNew(t) /\ asPc[t] = "init" /\ UNCHANGED <<asLib, asStarted, asDevices, asHead, asIds, asDev, asEnc>>
    BY DEF AsInitSlot, AsInitSlotHeavy, AsNew
  <1>2. i \in AsSlots
    BY <1>1, AsMinePending, AsPending DEF AsIndInv
  <1>3. asLib = "heavy" => asSlot[i].inited = 0
    BY <1>1 DEF AsIndInv, AsNewInv
  <1>4. asSlot[i] \in AsRecord /\ asSlot[i].inited <= 1
    BY <1>2 DEF AsIndInv, AsTypeOK, AsPastInv
  <1>5. PICK v \in 0..1 : asSlot' = [asSlot EXCEPT ![i].inited = v]
    <2>1. asSlot[i].inited \in 0..1
      BY <1>4 DEF AsRecord
    <2>2. CASE AsInitSlot(t)
      <3>1. asSlot' = [asSlot EXCEPT ![i].inited = IF asSlot[i].inited = 0 THEN 1 ELSE asSlot[i].inited]
        BY <2>2 DEF AsInitSlot
      <3>2. (IF asSlot[i].inited = 0 THEN 1 ELSE asSlot[i].inited) = 1
        BY <2>1
      <3>3. asSlot' = [asSlot EXCEPT ![i].inited = 1]
        BY <3>1, <3>2
      <3>4. QED
        BY <3>3
    <2>3. CASE AsInitSlotHeavy(t)
      <3>1. asSlot[i].inited = 0 /\ asSlot' = [asSlot EXCEPT ![i].inited = asSlot[i].inited + 1]
        BY <1>3, <2>3 DEF AsInitSlotHeavy
      <3>2. asSlot' = [asSlot EXCEPT ![i].inited = 1]
        BY <3>1
      <3>3. QED
        BY <3>2
    <2>4. QED
      BY <2>2, <2>3
  <1> HIDE DEF i
  <1>6. asPc'[t] = "fill" /\ \A u \in AsThread : u # t => asPc'[u] = asPc[u]
    BY DEF AsInitSlot, AsInitSlotHeavy, AsGoto, AsIndInv, AsTypeOK
  <1>7. /\ \A j \in AsSlots : /\ asSlot'[j].id = asSlot[j].id /\ asSlot'[j].busy = asSlot[j].busy
                              /\ asSlot'[j].done = asSlot[j].done
                              /\ j # i => asSlot'[j] = asSlot[j]
        /\ asSlot'[i].inited = v
    BY <1>2, <1>5 DEF AsIndInv, AsTypeOK, AsRecord
  <1>8. AsTypeOK'
    <2>1. [asSlot[i] EXCEPT !.inited = v] \in AsRecord
      BY <1>4 DEF AsRecord
    <2>2. asSlot' = [asSlot EXCEPT ![i] = [asSlot[i] EXCEPT !.inited = v]]
      BY <1>5
    <2>3. asSlot' \in [AsSlots -> AsRecord]
      BY <2>1, <2>2 DEF AsIndInv, AsTypeOK
    <2>4. asPc' \in [AsThread -> AsPcs]
      BY DEF AsInitSlot, AsInitSlotHeavy, AsGoto, AsIndInv, AsTypeOK, AsPcs
    <2>5. QED
      BY <1>1, <2>3, <2>4 DEF AsIndInv, AsTypeOK
  <1>9. \A u \in AsThread : /\ AsNew(u)' <=> AsNew(u)
                            /\ AsPend(u)' = AsPend(u) /\ AsMine(u)' = AsMine(u)
    BY <1>1, <1>6 DEF AsNew, AsPend, AsMine
  <1>10. \A u \in AsThread : AsArmed(u)' = AsArmed(u)
    BY <1>9 DEF AsArmed
  <1>11. AsIdInv'
    BY <1>1, <1>6, <1>9 DEF AsIndInv, AsIdInv
  <1>12. AsNewInv'
    <2> SUFFICES ASSUME NEW u \in AsThread, AsNew(u)
                 PROVE  /\ asEnc[AsMine(u)] = 0 /\ ~asSlot'[AsSlotOf(AsMine(u))].busy
                        /\ asPc'[u] = "arm" => /\ asSlot'[AsSlotOf(AsMine(u))].id = AsMine(u)
                                               /\ ~asSlot'[AsSlotOf(AsMine(u))].done
                        /\ asPc'[u] = "initlock" => asLib = "gpu"
                        /\ asLib = "heavy" /\ asPc'[u] = "init" => asSlot'[AsSlotOf(AsMine(u))].inited = 0
      BY <1>1, <1>9 DEF AsNewInv, AsSlotOf
    <2>1. AsSlotOf(AsMine(u)) \in AsSlots
      BY AsMinePending, AsPending DEF AsIndInv
    <2>2. u # t => AsSlotOf(AsMine(u)) # i
      BY <1>1, AsNewApart DEF AsIndInv, i
    <2>3. QED
      BY <1>6, <1>7, <2>1, <2>2 DEF AsIndInv, AsNewInv
  <1>13. AsArmedInv'
    <2>1. \A j \in AsSlots : AsWorks(j)' <=> AsWorks(j)
      BY <1>1 DEF AsWorks
    <2>2. ASSUME NEW u \in AsThread, NEW x \in AsArmed(u)
          PROVE  /\ AsSlotOf(x) \in AsSlots
                 /\ asSlot'[AsSlotOf(x)].id = x
                 /\ asSlot'[AsSlotOf(x)].busy = (IF AsGpu THEN ~asSlot'[AsSlotOf(x)].done ELSE TRUE)
                 /\ asEnc[x] = IF asSlot'[AsSlotOf(x)].done \/ AsWorks(AsSlotOf(x)) THEN 1 ELSE 0
      <3>1. AsSlotOf(x) \in AsSlots
        BY AsArmedPending, AsPending DEF AsIndInv
      <3>2. /\ asSlot[AsSlotOf(x)].id = x
            /\ asSlot[AsSlotOf(x)].busy = (IF AsGpu THEN ~asSlot[AsSlotOf(x)].done ELSE TRUE)
            /\ asEnc[x] = IF asSlot[AsSlotOf(x)].done \/ AsWorks(AsSlotOf(x)) THEN 1 ELSE 0
        BY DEF AsIndInv, AsArmedInv
      <3>3. QED
        BY <1>7, <3>1, <3>2
    <2>3. (AsGpu' <=> AsGpu) /\ asEnc' = asEnc
      BY <1>1 DEF AsGpu
    <2>4. ASSUME NEW u \in AsThread, NEW x \in AsArmed(u)'
          PROVE  /\ asSlot'[AsSlotOf(x)].id = x
                 /\ asSlot'[AsSlotOf(x)].busy = (IF AsGpu' THEN ~asSlot'[AsSlotOf(x)].done ELSE TRUE)
                 /\ asEnc'[x] = IF asSlot'[AsSlotOf(x)].done \/ (\E d \in AsThread : asDev'[d] = AsSlotOf(x)) THEN 1 ELSE 0
      <3>1. x \in AsArmed(u) /\ asDev' = asDev
        BY <1>1, <1>10
      <3>2. QED
        BY <2>2, <2>3, <3>1 DEF AsWorks
    <2>5. QED
      BY <2>4, AsArmedNext
  <1>14. AsDeviceInv'
    <2>1. \A d \in AsThread : asDev[d] # AsNSLOT => asDev[d] \in AsSlots
      BY AsAssumption DEF AsIndInv, AsTypeOK, AsSlots
    <2>2. QED
      BY <1>1, <1>7, <1>10, <2>1 DEF AsIndInv, AsDeviceInv, AsSlotOf, AsGpu
  <1>15. AsPastInv'
    BY <1>1, <1>7, <1>9 DEF AsIndInv, AsPastInv
  <1>16. QED
    BY <1>8, <1>11, <1>12, <1>13, <1>14, <1>15 DEF AsIndInv

\* The facts of the invariant that later steps use again and again.
LEMMA AsNewFacts ==
  ASSUME AsIndInv, NEW u \in AsThread, AsNew(u)
  PROVE  /\ AsMine(u) \in AsPend(u) /\ AsMine(u) \in AsIds /\ AsSlotOf(AsMine(u)) \in AsSlots
         /\ asEnc[AsMine(u)] = 0 /\ ~asSlot[AsSlotOf(AsMine(u))].busy
         /\ asPc[u] = "arm" => /\ asSlot[AsSlotOf(AsMine(u))].id = AsMine(u)
                               /\ ~asSlot[AsSlotOf(AsMine(u))].done
         /\ asPc[u] = "initlock" => asLib = "gpu"
         /\ asLib = "heavy" /\ asPc[u] = "init" => asSlot[AsSlotOf(AsMine(u))].inited = 0
  <1>1. AsMine(u) \in AsPend(u)
    BY AsMinePending DEF AsIndInv
  <1>2. AsMine(u) \in AsIds /\ AsSlotOf(AsMine(u)) \in AsSlots
    BY <1>1, AsPending DEF AsIndInv
  <1>3. QED
    BY <1>1, <1>2 DEF AsIndInv, AsNewInv

LEMMA AsArmedFacts ==
  ASSUME AsIndInv, NEW u \in AsThread, NEW x \in AsArmed(u)
  PROVE  /\ x \in AsPend(u) /\ x \in AsIds /\ AsSlotOf(x) \in AsSlots
         /\ asSlot[AsSlotOf(x)].id = x
         /\ asSlot[AsSlotOf(x)].busy = (IF AsGpu THEN ~asSlot[AsSlotOf(x)].done ELSE TRUE)
         /\ asEnc[x] = IF asSlot[AsSlotOf(x)].done \/ (\E d \in AsThread : asDev[d] = AsSlotOf(x)) THEN 1 ELSE 0
  <1>1. x \in AsPend(u)
    BY AsArmedPending
  <1>2. x \in AsIds /\ AsSlotOf(x) \in AsSlots
    BY <1>1, AsPending DEF AsIndInv
  <1>3. QED
    BY <1>1, <1>2 DEF AsIndInv, AsArmedInv, AsWorks

\* The device's work is on slots that are busy and not done.
LEMMA AsDevFacts ==
  ASSUME AsIndInv, NEW d \in AsThread, asDev[d] # AsNSLOT
  PROVE  /\ asDev[d] \in AsSlots /\ d \in asDevices /\ ~AsGpu
         /\ asSlot[asDev[d]].busy /\ ~asSlot[asDev[d]].done
         /\ \A e \in AsThread : asDev[e] = asDev[d] => e = d
  <1>1. asDev[d] \in AsSlots
    BY AsAssumption DEF AsIndInv, AsTypeOK, AsSlots
  <1>2. QED
    BY <1>1 DEF AsIndInv, AsDeviceInv

LEMMA AsSlotNotN == AsNSLOT \notin AsSlots
  BY AsAssumption DEF AsSlots

LEMMA AsFillStep ==
  ASSUME AsIndInv, NEW t \in AsThread, AsFill(t)
  PROVE  AsIndInv'
  <1> DEFINE y == AsMine(t)
             i == AsSlotOf(y)
             r1 == [asSlot[i] EXCEPT !.id = y]
             r == [r1 EXCEPT !.done = FALSE]
  <1>1. AsNew(t) /\ UNCHANGED <<asLib, asStarted, asDevices, asHead, asIds, asDev, asEnc>>
    BY DEF AsFill, AsNew
  <1>2. i \in AsSlots /\ y \in AsPend(t) /\ y \in AsIds /\ ~asSlot[i].busy /\ asEnc[y] = 0
    BY <1>1, AsNewFacts
  <1>3. asSlot[i] \in AsRecord /\ y \in Nat
    BY <1>2, AsPending DEF AsIndInv, AsTypeOK
  <1>4. asSlot' = [asSlot EXCEPT ![i] = r]
    BY DEF AsFill, AsIndInv, AsTypeOK
  <1>5. r \in AsRecord /\ r.id = y /\ ~r.done /\ ~r.busy /\ r.inited = asSlot[i].inited
    <2>1. r1 \in AsRecord /\ r1.id = y /\ ~r1.busy /\ r1.inited = asSlot[i].inited
      BY <1>2, <1>3 DEF AsRecord
    <2> HIDE DEF r1
    <2>2. QED
      BY <2>1 DEF AsRecord
  <1> HIDE DEF r, r1
  <1>6. asSlot'[i] = r /\ \A j \in AsSlots : j # i => asSlot'[j] = asSlot[j]
    BY <1>2, <1>4 DEF AsIndInv, AsTypeOK
  <1>7. asPc'[t] = "arm" /\ \A u \in AsThread : u # t => asPc'[u] = asPc[u]
    BY DEF AsFill, AsGoto, AsIndInv, AsTypeOK
  <1>8. AsTypeOK'
    <2>1. asSlot' \in [AsSlots -> AsRecord]
      BY <1>4, <1>5 DEF AsIndInv, AsTypeOK
    <2>2. asPc' \in [AsThread -> AsPcs]
      BY DEF AsFill, AsGoto, AsIndInv, AsTypeOK, AsPcs
    <2>3. QED
      BY <1>1, <2>1, <2>2 DEF AsIndInv, AsTypeOK
  <1>9. \A u \in AsThread : /\ AsNew(u)' <=> AsNew(u)
                            /\ AsPend(u)' = AsPend(u) /\ AsMine(u)' = AsMine(u)
    BY <1>1, <1>7 DEF AsNew, AsPend, AsMine
  <1>10. \A u \in AsThread : AsArmed(u)' = AsArmed(u)
    BY <1>9 DEF AsArmed
  <1>11. AsIdInv'
    BY <1>1, <1>7, <1>9 DEF AsIndInv, AsIdInv
  <1>12. AsNewInv'
    <2>1. ASSUME NEW u \in AsThread, AsNew(u)'
          PROVE  /\ asEnc'[AsMine(u)'] = 0 /\ ~asSlot'[AsSlotOf(AsMine(u)')].busy
                 /\ asPc'[u] = "arm" => /\ asSlot'[AsSlotOf(AsMine(u)')].id = AsMine(u)'
                                        /\ ~asSlot'[AsSlotOf(AsMine(u)')].done
                 /\ asPc'[u] = "initlock" => asLib' = "gpu"
                 /\ asLib' = "heavy" /\ asPc'[u] = "init" => asSlot'[AsSlotOf(AsMine(u)')].inited = 0
      <3>1. AsNew(u) /\ AsMine(u)' = AsMine(u)
        BY <1>9, <2>1
      <3>2. u # t => AsSlotOf(AsMine(u)) # i
        BY <1>1, <3>1, AsNewApart DEF AsIndInv
      <3>3. CASE u = t
        BY <1>1, <1>2, <1>5, <1>6, <1>7, <3>1, <3>3
      <3>4. CASE u # t
        BY <1>1, <1>6, <1>7, <3>1, <3>2, <3>4, AsNewFacts
      <3>5. QED
        BY <3>3, <3>4
    <2>2. QED
      BY <2>1, AsNewNext
  <1>13. AsArmedInv'
    <2>1. AsGpu' <=> AsGpu
      BY <1>1 DEF AsGpu
    <2>2. ASSUME NEW u \in AsThread, NEW x \in AsArmed(u)'
          PROVE  /\ asSlot'[AsSlotOf(x)].id = x
                 /\ asSlot'[AsSlotOf(x)].busy = (IF AsGpu' THEN ~asSlot'[AsSlotOf(x)].done ELSE TRUE)
                 /\ asEnc'[x] = IF asSlot'[AsSlotOf(x)].done \/ (\E d \in AsThread : asDev'[d] = AsSlotOf(x)) THEN 1 ELSE 0
      <3>1. x \in AsArmed(u)
        BY <1>10
      <3>2. AsSlotOf(x) # i
        BY <1>1, <3>1, AsNewApart DEF AsIndInv
      <3>3. asSlot'[AsSlotOf(x)] = asSlot[AsSlotOf(x)]
        BY <1>6, <3>1, <3>2, AsArmedFacts
      <3>4. QED
        BY <1>1, <2>1, <3>1, <3>3, AsArmedFacts
    <2>3. QED
      BY <2>2, AsArmedNext
  <1>14. AsDeviceInv'
    <2>1. \A j \in AsSlots : asSlot'[j].busy => j # i /\ asSlot[j].busy
      BY <1>2, <1>5, <1>6
    <2>2. \A d \in AsThread : asDev[d] # AsNSLOT => asDev[d] # i /\ asDev[d] \in AsSlots
      BY <1>2, AsDevFacts
    <2>3. QED
      BY <1>1, <1>6, <1>10, <2>1, <2>2 DEF AsIndInv, AsDeviceInv, AsSlotOf, AsGpu
  <1>15. AsPastInv'
    BY <1>1, <1>5, <1>6, <1>9 DEF AsIndInv, AsPastInv
  <1>16. QED
    BY <1>8, <1>11, <1>12, <1>13, <1>14, <1>15 DEF AsIndInv

\* The request becomes one that the device may take.
LEMMA AsArmStep ==
  ASSUME AsIndInv, NEW t \in AsThread, AsArm(t)
  PROVE  AsIndInv'
  <1> DEFINE y == AsMine(t)
             i == AsSlotOf(y)
             r == [asSlot[i] EXCEPT !.busy = TRUE]
  <1>1. AsNew(t) /\ asPc[t] = "arm" /\ UNCHANGED <<asLib, asStarted, asDevices, asHead, asIds, asDev, asEnc>>
    BY DEF AsArm, AsNew
  <1>2. /\ i \in AsSlots /\ y \in AsPend(t) /\ y \in AsIds /\ ~asSlot[i].busy /\ asEnc[y] = 0
        /\ asSlot[i].id = y /\ ~asSlot[i].done
    BY <1>1, AsNewFacts
  <1>3. asSlot[i] \in AsRecord
    BY <1>2 DEF AsIndInv, AsTypeOK
  <1>4. asSlot' = [asSlot EXCEPT ![i] = r]
    BY DEF AsArm, AsIndInv, AsTypeOK
  <1>5. r \in AsRecord /\ r.id = y /\ ~r.done /\ r.busy /\ r.inited = asSlot[i].inited
    BY <1>2, <1>3 DEF AsRecord
  <1> HIDE DEF r
  <1>6. asSlot'[i] = r /\ \A j \in AsSlots : j # i => asSlot'[j] = asSlot[j]
    BY <1>2, <1>4 DEF AsIndInv, AsTypeOK
  <1>7. asPc'[t] = "submitted" /\ \A u \in AsThread : u # t => asPc'[u] = asPc[u]
    BY DEF AsArm, AsGoto, AsIndInv, AsTypeOK
  <1>8. AsTypeOK'
    <2>1. asSlot' \in [AsSlots -> AsRecord]
      BY <1>4, <1>5 DEF AsIndInv, AsTypeOK
    <2>2. asPc' \in [AsThread -> AsPcs]
      BY DEF AsArm, AsGoto, AsIndInv, AsTypeOK, AsPcs
    <2>3. QED
      BY <1>1, <2>1, <2>2 DEF AsIndInv, AsTypeOK
  <1>9. /\ ~AsNew(t)' /\ \A u \in AsThread : u # t => (AsNew(u)' <=> AsNew(u))
        /\ \A u \in AsThread : AsPend(u)' = AsPend(u) /\ AsMine(u)' = AsMine(u)
    BY <1>1, <1>7 DEF AsNew, AsPend, AsMine
  <1>10. AsArmed(t)' = AsArmed(t) \cup {y} /\ \A u \in AsThread : u # t => AsArmed(u)' = AsArmed(u)
    BY <1>1, <1>2, <1>9 DEF AsArmed
  <1>11. AsIdInv'
    BY <1>1, <1>7, <1>9 DEF AsIndInv, AsIdInv
  <1>12. AsNewInv'
    <2>1. ASSUME NEW u \in AsThread, AsNew(u)'
          PROVE  /\ asEnc'[AsMine(u)'] = 0 /\ ~asSlot'[AsSlotOf(AsMine(u)')].busy
                 /\ asPc'[u] = "arm" => /\ asSlot'[AsSlotOf(AsMine(u)')].id = AsMine(u)'
                                        /\ ~asSlot'[AsSlotOf(AsMine(u)')].done
                 /\ asPc'[u] = "initlock" => asLib' = "gpu"
                 /\ asLib' = "heavy" /\ asPc'[u] = "init" => asSlot'[AsSlotOf(AsMine(u)')].inited = 0
      <3>1. u # t /\ AsNew(u) /\ AsMine(u)' = AsMine(u)
        BY <1>9, <2>1
      <3>2. AsSlotOf(AsMine(u)) # i
        BY <1>1, <3>1, AsNewApart DEF AsIndInv
      <3>3. QED
        BY <1>1, <1>6, <1>7, <3>1, <3>2, AsNewFacts
    <2>2. QED
      BY <2>1, AsNewNext
  <1>13. AsArmedInv'
    <2>1. AsGpu' <=> AsGpu
      BY <1>1 DEF AsGpu
    <2>2. \A d \in AsThread : asDev[d] # i
      BY <1>2, AsDevFacts, AsSlotNotN
    <2>3. ASSUME NEW u \in AsThread, NEW x \in AsArmed(u)'
          PROVE  /\ asSlot'[AsSlotOf(x)].id = x
                 /\ asSlot'[AsSlotOf(x)].busy = (IF AsGpu' THEN ~asSlot'[AsSlotOf(x)].done ELSE TRUE)
                 /\ asEnc'[x] = IF asSlot'[AsSlotOf(x)].done \/ (\E d \in AsThread : asDev'[d] = AsSlotOf(x)) THEN 1 ELSE 0
      <3>1. CASE x = y
        BY <1>1, <1>2, <1>5, <1>6, <2>2, <3>1
      <3>2. CASE x # y
        <4>1. x \in AsArmed(u)
          BY <1>10, <3>2
        <4>2. AsSlotOf(x) # i
          BY <1>1, <4>1, AsNewApart DEF AsIndInv
        <4>3. asSlot'[AsSlotOf(x)] = asSlot[AsSlotOf(x)]
          BY <1>6, <4>1, <4>2, AsArmedFacts
        <4>4. QED
          <5>1. /\ asSlot[AsSlotOf(x)].id = x
                /\ asSlot[AsSlotOf(x)].busy = (IF AsGpu THEN ~asSlot[AsSlotOf(x)].done ELSE TRUE)
                /\ asEnc[x] = IF asSlot[AsSlotOf(x)].done \/ (\E d \in AsThread : asDev[d] = AsSlotOf(x)) THEN 1 ELSE 0
            BY <4>1, AsArmedFacts
          <5>2. asEnc' = asEnc /\ asDev' = asDev
            BY <1>1
          <5>3. QED
            BY <2>1, <4>3, <5>1, <5>2
      <3>3. QED
        BY <3>1, <3>2
    <2>4. QED
      BY <2>3, AsArmedNext
  <1>14. AsDeviceInv'
    <2>1. ASSUME NEW j \in AsSlots, asSlot'[j].busy
          PROVE  \E u \in AsThread : \E x \in AsArmed(u)' : AsSlotOf(x) = j
      <3>1. CASE j = i
        BY <1>10, <3>1
      <3>2. CASE j # i
        BY <1>6, <1>10, <2>1, <3>2 DEF AsIndInv, AsDeviceInv
      <3>3. QED
        BY <3>1, <3>2
    <2>2. \A d \in AsThread : asDev[d] # AsNSLOT => asDev[d] # i /\ asDev[d] \in AsSlots
      BY <1>2, AsDevFacts
    <2>3. QED
      BY <1>1, <1>6, <2>1, <2>2 DEF AsIndInv, AsDeviceInv, AsSlotOf, AsGpu
  <1>15. AsPastInv'
    BY <1>1, <1>5, <1>6, <1>9 DEF AsIndInv, AsPastInv
  <1>16. QED
    BY <1>8, <1>11, <1>12, <1>13, <1>14, <1>15 DEF AsIndInv

\* A new id: no request under way has its slot.
LEMMA AsTakeStep ==
  ASSUME AsIndInv, NEW t \in AsThread, AsTake(t)
  PROVE  AsIndInv'
  <1> DEFINE n == Len(asIds[t])
  <1>1. /\ ~AsNew(t) /\ asHead \in Nat /\ asHead \in AsIds /\ asHead < AsMaxId /\ asHead' = asHead + 1
        /\ UNCHANGED <<asLib, asStarted, asDevices, asSlot, asDev, asEnc>>
    BY AsAssumption DEF AsTake, AsNew, AsIds, AsIndInv, AsTypeOK
  <1>2. asIds[t] \in Seq(Nat) /\ n \in Nat
    BY DEF AsIndInv, AsTypeOK
  <1>3. /\ asIds'[t] = Append(asIds[t], asHead) /\ Len(asIds'[t]) = n + 1 /\ asIds'[t][n + 1] = asHead
        /\ \A k \in 1..n : asIds'[t][k] = asIds[t][k]
        /\ \A u \in AsThread : u # t => asIds'[u] = asIds[u]
    BY <1>1, <1>2 DEF AsTake, AsIndInv, AsTypeOK
  <1>4. asPc'[t] \in {"inited?", "fill"} /\ \A u \in AsThread : u # t => asPc'[u] = asPc[u]
    BY DEF AsTake, AsGoto, AsIndInv, AsTypeOK
  <1>5. AsTypeOK'
    <2>1. asIds' \in [AsThread -> Seq(Nat)]
      BY <1>1, <1>2 DEF AsTake, AsIndInv, AsTypeOK
    <2>2. asPc' \in [AsThread -> AsPcs]
      BY DEF AsTake, AsGoto, AsIndInv, AsTypeOK, AsPcs
    <2>3. asHead' \in Nat /\ asHead' <= AsMaxId
      BY <1>1, AsAssumption
    <2>4. QED
      BY <1>1, <2>1, <2>2, <2>3 DEF AsIndInv, AsTypeOK
  <1>6. /\ AsNew(t)' /\ AsMine(t)' = asHead
        /\ \A u \in AsThread : u # t => (AsNew(u)' <=> AsNew(u)) /\ AsMine(u)' = AsMine(u)
    BY <1>3, <1>4 DEF AsNew, AsMine
  <1>7. AsPend(t)' = AsPend(t) \cup {asHead} /\ \A u \in AsThread : u # t => AsPend(u)' = AsPend(u)
    <2>1. \A k \in 1..(n + 1) : k \in 1..n \/ k = n + 1
      BY <1>2
    <2>2. \A k \in 1..n : k \in 1..(n + 1)
      BY <1>2
    <2>3. n + 1 \in 1..(n + 1)
      BY <1>2
    <2>4. AsPend(t)' = AsPend(t) \cup {asHead}
      BY <1>3, <2>1, <2>2, <2>3 DEF AsPend
    <2>5. \A u \in AsThread : u # t => AsPend(u)' = AsPend(u)
      BY <1>3 DEF AsPend
    <2>6. QED
      BY <2>4, <2>5
  <1>8. \A u \in AsThread : \A x \in AsPend(u) : x # asHead /\ x \in Nat /\ x < asHead /\ asHead < x + AsNSLOT
    <2>1. ASSUME NEW u \in AsThread, NEW x \in AsPend(u)
          PROVE  x # asHead /\ x \in Nat /\ x < asHead /\ asHead < x + AsNSLOT
      <3>1. x \in Nat /\ x < asHead
        BY AsPending DEF AsIndInv
      <3>2. asHead - x < AsNSLOT
        BY DEF AsTake, AsPend
      <3>3. QED
        BY <1>1, <3>1, <3>2, AsAssumption
    <2>2. QED
      BY <2>1
  <1>9. \A u \in AsThread : AsArmed(u)' = AsArmed(u)
    BY <1>1, <1>6, <1>7, <1>8 DEF AsArmed
  <1>10. \A u \in AsThread : \A x \in AsPend(u) : AsSlotOf(x) # AsSlotOf(asHead)
    BY <1>1, <1>8, AsAssumption, RingSlotsDiffer DEF AsSlotOf
  <1>11. AsIdInv'
    <2>1. ASSUME NEW u \in AsThread, NEW v \in AsThread,
                 NEW k \in 1..Len(asIds'[u]), NEW l \in 1..Len(asIds'[v]), asIds'[u][k] = asIds'[v][l]
          PROVE  u = v /\ k = l
      <3>1. \A w \in AsThread : \A m \in 1..Len(asIds'[w]) :
                \/ w = t /\ m = n + 1 /\ asIds'[w][m] = asHead
                \/ m \in 1..Len(asIds[w]) /\ asIds'[w][m] = asIds[w][m] /\ asIds[w][m] # asHead
        <4>1. ASSUME NEW w \in AsThread, NEW m \in 1..Len(asIds'[w])
              PROVE  \/ w = t /\ m = n + 1
                     \/ m \in 1..Len(asIds[w]) /\ asIds'[w][m] = asIds[w][m]
          <5>1. CASE w = t
            <6>1. m \in 1..(n + 1)
              BY <1>3, <5>1
            <6>2. m = n + 1 \/ m \in 1..n
              BY <1>2, <6>1
            <6>3. QED
              BY <1>3, <5>1, <6>2
          <5>2. CASE w # t
            BY <1>3, <5>2
          <5>3. QED
            BY <5>1, <5>2
        <4>2. \A w \in AsThread : \A m \in 1..Len(asIds[w]) : asIds[w][m] # asHead
          BY <1>8 DEF AsPend
        <4>3. QED
          BY <1>3, <4>1, <4>2
      <3>2. \A p, w \in AsThread : \A m \in 1..Len(asIds[p]), o \in 1..Len(asIds[w]) :
                asIds[p][m] = asIds[w][o] => p = w /\ m = o
        BY DEF AsIndInv, AsIdInv
      <3>3. \/ u = t /\ k = n + 1 /\ asIds'[u][k] = asHead
            \/ k \in 1..Len(asIds[u]) /\ asIds'[u][k] = asIds[u][k] /\ asIds[u][k] # asHead
        BY <3>1
      <3>4. \/ v = t /\ l = n + 1 /\ asIds'[v][l] = asHead
            \/ l \in 1..Len(asIds[v]) /\ asIds'[v][l] = asIds[v][l] /\ asIds[v][l] # asHead
        BY <3>1
      <3>5. QED
        BY <2>1, <3>2, <3>3, <3>4
    <2>2. ASSUME NEW u \in AsThread, NEW x \in AsPend(u)'
          PROVE  x < asHead' /\ asHead' <= x + AsNSLOT
      <3>1. CASE x = asHead
        BY <1>1, <3>1, AsAssumption
      <3>2. CASE x # asHead
        <4>1. x \in AsPend(u)
          BY <1>7, <3>2
        <4>2. QED
          BY <1>1, <1>8, <4>1, AsAssumption
      <3>3. QED
        BY <3>1, <3>2
    <2>3. ASSUME NEW u \in AsThread, AsNew(u)' \/ asPc'[u] = "submitted" PROVE asIds'[u] # <<>>
      <3>1. CASE u = t
        BY <1>2, <1>3, <3>1
      <3>2. CASE u # t
        BY <1>3, <1>4, <1>6, <2>3, <3>2 DEF AsIndInv, AsIdInv
      <3>3. QED
        BY <3>1, <3>2
    <2>4. QED
      BY <2>1, <2>2, <2>3 DEF AsIdInv
  <1>12. AsNewInv'
    <2>1. AsSlotOf(asHead) \in AsSlots /\ ~asSlot[AsSlotOf(asHead)].busy
      <3>1. AsSlotOf(asHead) \in AsSlots
        BY <1>1, AsAssumption, ModRange DEF AsSlotOf, AsSlots
      <3>2. ~asSlot[AsSlotOf(asHead)].busy
        BY <1>10, <3>1, AsBusy
      <3>3. QED
        BY <3>1, <3>2
    <2>2. asEnc[asHead] = 0
      BY <1>1 DEF AsIndInv, AsPastInv
    <2>3. ASSUME NEW u \in AsThread, AsNew(u)'
          PROVE  /\ asEnc'[AsMine(u)'] = 0 /\ ~asSlot'[AsSlotOf(AsMine(u)')].busy
                 /\ asPc'[u] = "arm" => /\ asSlot'[AsSlotOf(AsMine(u)')].id = AsMine(u)'
                                        /\ ~asSlot'[AsSlotOf(AsMine(u)')].done
                 /\ asPc'[u] = "initlock" => asLib' = "gpu"
                 /\ asLib' = "heavy" /\ asPc'[u] = "init" => asSlot'[AsSlotOf(AsMine(u)')].inited = 0
      <3>1. CASE u = t
        BY <1>1, <1>4, <1>6, <2>1, <2>2, <3>1
      <3>2. CASE u # t
        <4>1. AsNew(u) /\ AsMine(u)' = AsMine(u) /\ asPc'[u] = asPc[u]
          BY <1>4, <1>6, <2>3, <3>2
        <4>2. QED
          BY <1>1, <4>1, AsNewFacts
      <3>3. QED
        BY <3>1, <3>2
    <2>4. QED
      BY <2>3, AsNewNext
  <1>13. AsArmedInv'
    <2>1. AsGpu' <=> AsGpu
      BY <1>1 DEF AsGpu
    <2>2. ASSUME NEW u \in AsThread, NEW x \in AsArmed(u)'
          PROVE  /\ asSlot'[AsSlotOf(x)].id = x
                 /\ asSlot'[AsSlotOf(x)].busy = (IF AsGpu' THEN ~asSlot'[AsSlotOf(x)].done ELSE TRUE)
                 /\ asEnc'[x] = IF asSlot'[AsSlotOf(x)].done \/ (\E d \in AsThread : asDev'[d] = AsSlotOf(x)) THEN 1 ELSE 0
      <3>1. x \in AsArmed(u)
        BY <1>9
      <3>2. QED
        BY <1>1, <2>1, <3>1, AsArmedFacts
    <2>3. QED
      BY <2>2, AsArmedNext
  <1>14. AsDeviceInv'
    BY <1>1, <1>9 DEF AsIndInv, AsDeviceInv, AsSlotOf, AsGpu
  <1>15. AsPastInv'
    <2>1. \A x \in AsIds : x >= asHead' => x >= asHead
      BY <1>1, AsAssumption DEF AsIds
    <2>2. \A x \in AsIds : x < asHead' => x < asHead \/ x = asHead
      BY <1>1, AsAssumption DEF AsIds
    <2>3. \A u \in AsThread : AsPend(u) \subseteq AsPend(u)'
      BY <1>7
    <2>4. asHead \in AsPend(t)'
      BY <1>7
    <2>5. QED
      BY <1>1, <2>1, <2>2, <2>3, <2>4 DEF AsIndInv, AsPastInv
  <1>16. QED
    BY <1>5, <1>11, <1>12, <1>13, <1>14, <1>15 DEF AsIndInv

\* The oldest request of a batch is collected: it was transformed, and no
\* device is at its slot.
LEMMA AsCollectStep ==
  ASSUME AsIndInv, NEW t \in AsThread, AsCollect(t)
  PROVE  AsIndInv'
  <1> DEFINE q == asIds[t]
             y == Head(asIds[t])
             i == AsSlotOf(y)
             r == [asSlot[i] EXCEPT !.busy = FALSE]
  <1>1. /\ asPc[t] = "submitted" /\ ~AsNew(t) /\ asSlot[i].done
        /\ UNCHANGED <<asLib, asStarted, asDevices, asHead, asDev, asEnc>>
    BY DEF AsCollect, AsNew
  <1>2. q \in Seq(Nat) /\ q # <<>> /\ Len(q) \in Nat /\ Len(q) >= 1 /\ y = q[1]
    BY <1>1 DEF AsIndInv, AsIdInv, AsTypeOK
  <1>3. y \in AsPend(t) /\ y \in AsArmed(t) /\ AsArmed(t) = AsPend(t)
    BY <1>1, <1>2 DEF AsPend, AsArmed
  <1>4. /\ y \in AsIds /\ i \in AsSlots /\ asSlot[i].id = y /\ asEnc[y] = 1
        /\ AsGpu => ~asSlot[i].busy
    BY <1>1, <1>3, AsArmedFacts
  <1>5. asSlot[i] \in AsRecord
    BY <1>4 DEF AsIndInv, AsTypeOK
  <1>6. asSlot' = [asSlot EXCEPT ![i] = r]
    <2>1. asSlot' = [asSlot EXCEPT ![i].busy = IF AsGpu THEN asSlot[i].busy ELSE FALSE]
      BY DEF AsCollect
    <2>2. (IF AsGpu THEN asSlot[i].busy ELSE FALSE) = FALSE
      BY <1>4, <1>5 DEF AsRecord
    <2>3. asSlot' = [asSlot EXCEPT ![i].busy = FALSE]
      BY <2>1, <2>2
    <2>4. QED
      BY <2>3
  <1>7. r \in AsRecord /\ ~r.busy /\ r.inited = asSlot[i].inited
    BY <1>5 DEF AsRecord
  <1> HIDE DEF r
  <1>8. asSlot'[i] = r /\ \A j \in AsSlots : j # i => asSlot'[j] = asSlot[j]
    BY <1>4, <1>6 DEF AsIndInv, AsTypeOK
  <1>9. /\ asPc'[t] = (IF Len(q) = 1 THEN "ensure" ELSE "submitted")
        /\ \A u \in AsThread : u # t => asPc'[u] = asPc[u]
    BY DEF AsCollect, AsGoto, AsIndInv, AsTypeOK
  <1>10. /\ asIds'[t] = Tail(q) /\ \A u \in AsThread : u # t => asIds'[u] = asIds[u]
    BY DEF AsCollect, AsIndInv, AsTypeOK
  <1>11. /\ Tail(q) \in Seq(Nat) /\ Len(Tail(q)) = Len(q) - 1
         /\ \A k \in 1..(Len(q) - 1) : Tail(q)[k] = q[k + 1]
    BY <1>2
  <1>12. AsTypeOK'
    <2>1. asSlot' \in [AsSlots -> AsRecord]
      BY <1>6, <1>7 DEF AsIndInv, AsTypeOK
    <2>2. asPc' \in [AsThread -> AsPcs]
      BY DEF AsCollect, AsGoto, AsIndInv, AsTypeOK, AsPcs
    <2>3. asIds' \in [AsThread -> Seq(Nat)]
      BY <1>11 DEF AsCollect, AsIndInv, AsTypeOK
    <2>4. QED
      BY <1>1, <2>1, <2>2, <2>3 DEF AsIndInv, AsTypeOK
  <1>13. /\ ~AsNew(t)' /\ \A u \in AsThread : u # t => (AsNew(u)' <=> AsNew(u)) /\ AsMine(u)' = AsMine(u)
    BY <1>9, <1>10 DEF AsNew, AsMine
  <1>14. \A u \in AsThread : u # t => AsPend(u)' = AsPend(u)
    BY <1>10 DEF AsPend
  <1>15. AsPend(t)' = AsPend(t) \ {y}
    <2>1. \A k, l \in 1..Len(q) : q[k] = q[l] => k = l
      BY DEF AsIndInv, AsIdInv
    <2>2. ASSUME NEW x \in AsPend(t)' PROVE x \in AsPend(t) /\ x # y
      <3>1. PICK k \in 1..(Len(q) - 1) : x = Tail(q)[k]
        BY <1>10, <1>11 DEF AsPend
      <3>2. k + 1 \in 1..Len(q) /\ k + 1 # 1 /\ x = q[k + 1] /\ 1 \in 1..Len(q)
        BY <1>2, <1>11, <3>1
      <3>3. QED
        BY <1>2, <2>1, <3>2 DEF AsPend
    <2>3. ASSUME NEW x \in AsPend(t), x # y PROVE x \in AsPend(t)'
      <3>1. PICK k \in 1..Len(q) : x = q[k]
        BY DEF AsPend
      <3>2. k # 1
        BY <1>2, <2>3, <3>1
      <3>3. k - 1 \in 1..(Len(q) - 1) /\ Tail(q)[k - 1] = q[k]
        BY <1>2, <1>11, <3>1, <3>2
      <3>4. QED
        BY <1>10, <1>11, <3>1, <3>3 DEF AsPend
    <2>4. QED
      BY <2>2, <2>3
  <1>16. \A u \in AsThread : AsArmed(u)' = AsArmed(u) \ {y}
    <2>1. \A u \in AsThread : u # t => y \notin AsPend(u)
      BY <1>3, AsOwner DEF AsIndInv
    <2>2. \A u \in AsThread : u # t => AsArmed(u)' = AsArmed(u) /\ y \notin AsArmed(u)
      BY <1>13, <1>14, <2>1 DEF AsArmed
    <2>3. AsArmed(t)' = AsArmed(t) \ {y}
      BY <1>3, <1>13, <1>15 DEF AsArmed
    <2>4. QED
      BY <2>2, <2>3
  <1>17. AsIdInv'
    <2>1. ASSUME NEW u \in AsThread, NEW v \in AsThread,
                 NEW k \in 1..Len(asIds'[u]), NEW l \in 1..Len(asIds'[v]), asIds'[u][k] = asIds'[v][l]
          PROVE  u = v /\ k = l
      <3> DEFINE off(w) == IF w = t THEN 1 ELSE 0
      <3>1. \A w \in AsThread : \A m \in 1..Len(asIds'[w]) :
                m + off(w) \in 1..Len(asIds[w]) /\ asIds'[w][m] = asIds[w][m + off(w)]
        <4>1. ASSUME NEW w \in AsThread, NEW m \in 1..Len(asIds'[w])
              PROVE  m + off(w) \in 1..Len(asIds[w]) /\ asIds'[w][m] = asIds[w][m + off(w)]
          <5>1. CASE w = t
            <6>1. m \in 1..(Len(q) - 1)
              BY <1>10, <1>11, <5>1
            <6>2. m + 1 \in 1..Len(q) /\ Tail(q)[m] = q[m + 1]
              <7>1. Len(q) \in Nat /\ q \in Seq(Nat) /\ q # <<>>
                BY <1>2, <1>11
              <7>2. m + 1 \in 1..Len(q)
                BY <6>1, <7>1
              <7>3. Tail(q)[m] = q[m + 1]
                BY <6>1, <7>1
              <7>4. QED
                BY <7>2, <7>3
            <6>3. QED
              BY <1>10, <5>1, <6>2
          <5>2. CASE w # t
            <6>1. asIds'[w] = asIds[w] /\ Len(asIds[w]) \in Nat
              BY <1>10, <5>2 DEF AsIndInv, AsTypeOK
            <6>2. m + 0 = m
              BY <6>1
            <6>3. QED
              BY <5>2, <6>1, <6>2
          <5>3. QED
            BY <5>1, <5>2
        <4>2. QED
          BY <4>1
      <3>2. k \in Int /\ l \in Int /\ off(u) \in Int
        BY <1>12 DEF AsTypeOK
      <3> HIDE DEF off
      <3>3. /\ k + off(u) \in 1..Len(asIds[u]) /\ l + off(v) \in 1..Len(asIds[v])
            /\ asIds[u][k + off(u)] = asIds[v][l + off(v)]
        BY <2>1, <3>1
      <3>4. u = v /\ k + off(u) = l + off(v)
        BY <3>3 DEF AsIndInv, AsIdInv
      <3>5. QED
        BY <3>2, <3>4
    <2>2. \A u \in AsThread : \A x \in AsPend(u)' : x < asHead' /\ asHead' <= x + AsNSLOT
      BY <1>1, <1>14, <1>15 DEF AsIndInv, AsIdInv
    <2>3. ASSUME NEW u \in AsThread, AsNew(u)' \/ asPc'[u] = "submitted" PROVE asIds'[u] # <<>>
      <3>1. CASE u = t
        <4>1. Len(q) # 1
          BY <1>9, <1>13, <2>3, <3>1
        <4>2. Len(Tail(q)) # 0
          BY <1>2, <1>11, <4>1
        <4> DEFINE z == Tail(q)
        <4>3. z # <<>>
          <5>1. z \in Seq(Nat) /\ Len(z) # 0
            BY <1>11, <4>2
          <5> HIDE DEF z
          <5>2. QED
            BY <5>1
        <4>4. QED
          BY <1>10, <3>1, <4>3
      <3>2. CASE u # t
        BY <1>9, <1>10, <1>13, <2>3, <3>2 DEF AsIndInv, AsIdInv
      <3>3. QED
        BY <3>1, <3>2
    <2>4. QED
      BY <2>1, <2>2, <2>3 DEF AsIdInv
  <1>18. AsNewInv'
    <2>1. ASSUME NEW u \in AsThread, AsNew(u)'
          PROVE  /\ asEnc'[AsMine(u)'] = 0 /\ ~asSlot'[AsSlotOf(AsMine(u)')].busy
                 /\ asPc'[u] = "arm" => /\ asSlot'[AsSlotOf(AsMine(u)')].id = AsMine(u)'
                                        /\ ~asSlot'[AsSlotOf(AsMine(u)')].done
                 /\ asPc'[u] = "initlock" => asLib' = "gpu"
                 /\ asLib' = "heavy" /\ asPc'[u] = "init" => asSlot'[AsSlotOf(AsMine(u)')].inited = 0
      <3>1. u # t /\ AsNew(u) /\ AsMine(u)' = AsMine(u) /\ asPc'[u] = asPc[u]
        BY <1>9, <1>13, <2>1
      <3>2. AsSlotOf(AsMine(u)) # i
        BY <1>3, <3>1, AsNewApart DEF AsIndInv
      <3>3. QED
        BY <1>1, <1>8, <3>1, <3>2, AsNewFacts
    <2>2. QED
      BY <2>1, AsNewNext
  <1>19. AsArmedInv'
    <2>1. AsGpu' <=> AsGpu
      BY <1>1 DEF AsGpu
    <2>2. ASSUME NEW u \in AsThread, NEW x \in AsArmed(u)'
          PROVE  /\ asSlot'[AsSlotOf(x)].id = x
                 /\ asSlot'[AsSlotOf(x)].busy = (IF AsGpu' THEN ~asSlot'[AsSlotOf(x)].done ELSE TRUE)
                 /\ asEnc'[x] = IF asSlot'[AsSlotOf(x)].done \/ (\E d \in AsThread : asDev'[d] = AsSlotOf(x)) THEN 1 ELSE 0
      <3>1. x \in AsArmed(u) /\ x # y
        BY <1>16
      <3>2. x \in AsPend(u)
        BY <3>1, AsArmedPending
      <3>3. AsSlotOf(x) # i
        <4>1. AsTypeOK /\ AsIdInv
          BY DEF AsIndInv
        <4> HIDE DEF y
        <4>2. QED
          BY <1>3, <3>1, <3>2, <4>1, AsApart
      <3>4. /\ AsSlotOf(x) \in AsSlots /\ asSlot[AsSlotOf(x)].id = x
            /\ asSlot[AsSlotOf(x)].busy = (IF AsGpu THEN ~asSlot[AsSlotOf(x)].done ELSE TRUE)
            /\ asEnc[x] = IF asSlot[AsSlotOf(x)].done \/ (\E d \in AsThread : asDev[d] = AsSlotOf(x)) THEN 1 ELSE 0
        BY <3>1, AsArmedFacts
      <3>5. asSlot'[AsSlotOf(x)] = asSlot[AsSlotOf(x)]
        BY <1>8, <3>3, <3>4
      <3>6. QED
        BY <1>1, <2>1, <3>4, <3>5
    <2>3. QED
      BY <2>2, AsArmedNext
  <1>20. AsDeviceInv'
    <2>1. ASSUME NEW j \in AsSlots, asSlot'[j].busy
          PROVE  \E u \in AsThread : \E x \in AsArmed(u)' : AsSlotOf(x) = j
      <3>1. j # i /\ asSlot[j].busy
        BY <1>7, <1>8, <2>1
      <3>2. PICK u \in AsThread : \E x \in AsArmed(u) : AsSlotOf(x) = j
        BY <3>1 DEF AsIndInv, AsDeviceInv
      <3>3. PICK x \in AsArmed(u) : AsSlotOf(x) = j
        BY <3>2
      <3>4. x # y
        BY <3>1, <3>3
      <3>5. QED
        BY <1>16, <3>3, <3>4
    <2>2. \A d \in AsThread : asDev[d] # AsNSLOT => asDev[d] # i /\ asDev[d] \in AsSlots
      BY <1>1, AsDevFacts
    <2>3. QED
      BY <1>1, <1>8, <2>1, <2>2 DEF AsIndInv, AsDeviceInv, AsSlotOf, AsGpu
  <1>21. AsPastInv'
    <2>1. \A x \in AsIds : (\A u \in AsThread : x \notin AsPend(u)') =>
              x = y \/ \A u \in AsThread : x \notin AsPend(u)
      BY <1>14, <1>15
    <2>2. \A j \in AsSlots : asSlot'[j].inited <= 1
      BY <1>7, <1>8 DEF AsIndInv, AsPastInv
    <2>3. QED
      BY <1>1, <1>4, <2>1, <2>2 DEF AsIndInv, AsPastInv
  <1>22. QED
    BY <1>12, <1>17, <1>18, <1>19, <1>20, <1>21 DEF AsIndInv

\* A step of the device leaves the callers where they are.
LEMMA AsCallersStay ==
  ASSUME AsIndInv, UNCHANGED <<asLib, asStarted, asDevices, asHead, asPc, asIds>>
  PROVE  /\ AsIdInv' /\ (AsGpu' <=> AsGpu)
         /\ \A u \in AsThread : /\ AsNew(u)' <=> AsNew(u)
                                /\ AsPend(u)' = AsPend(u) /\ AsMine(u)' = AsMine(u) /\ AsArmed(u)' = AsArmed(u)
  <1>1. \A u \in AsThread : /\ AsNew(u)' <=> AsNew(u)
                            /\ AsPend(u)' = AsPend(u) /\ AsMine(u)' = AsMine(u)
    BY DEF AsNew, AsPend, AsMine
  <1>2. \A u \in AsThread : AsArmed(u)' = AsArmed(u)
    BY <1>1 DEF AsArmed
  <1>3. AsIdInv' /\ (AsGpu' <=> AsGpu)
    BY <1>1 DEF AsIndInv, AsIdInv, AsGpu
  <1>4. QED
    BY <1>1, <1>2, <1>3

\* device() takes up a request that nobody has transformed.
LEMMA AsScanStep ==
  ASSUME AsIndInv, NEW d \in AsThread, NEW i \in AsSlots, AsScan(d, i)
  PROVE  AsIndInv'
  <1>1. /\ d \in asDevices /\ asDev[d] = AsNSLOT /\ asSlot[i].busy /\ ~asSlot[i].done
        /\ UNCHANGED <<asLib, asStarted, asDevices, asHead, asSlot, asPc, asIds>>
    BY DEF AsScan
  <1>2. PICK v \in AsThread : \E x \in AsArmed(v) :
             /\ AsSlotOf(x) = i /\ asSlot[i].id = x /\ x \in AsPend(v) /\ x \in AsIds /\ x < asHead
             /\ asEnc[x] = (IF asSlot[i].done \/ AsWorks(i) THEN 1 ELSE 0)
    BY <1>1, AsBusy
  <1>3. PICK y \in AsArmed(v) :
             /\ AsSlotOf(y) = i /\ asSlot[i].id = y /\ y \in AsPend(v) /\ y \in AsIds /\ y < asHead
             /\ asEnc[y] = (IF asSlot[i].done \/ AsWorks(i) THEN 1 ELSE 0)
    BY <1>2
  <1>4. ~AsWorks(i)
    <2>1. ASSUME NEW e \in AsThread, asDev[e] = i PROVE FALSE
      <3>1. e \in asDevices
        BY <2>1, AsDevFacts, AsSlotNotN
      <3>2. e = d
        BY <1>1, <3>1 DEF AsIndInv, AsDeviceInv
      <3>3. QED
        BY <1>1, <2>1, <3>2, AsSlotNotN
    <2>2. QED
      BY <2>1 DEF AsWorks
  <1>5. asEnc[y] = 0
    BY <1>1, <1>3, <1>4
  <1>6. asEnc' = [asEnc EXCEPT ![y] = 1]
    <2>1. asEnc' = [asEnc EXCEPT ![y] = asEnc[y] + 1]
      BY <1>3 DEF AsScan
    <2>2. asEnc[y] + 1 = 1
      BY <1>5
    <2>3. QED
      BY <2>1, <2>2
  <1>7. asEnc'[y] = 1 /\ \A x \in AsIds : x # y => asEnc'[x] = asEnc[x]
    BY <1>3, <1>6 DEF AsIndInv, AsTypeOK
  <1>8. asDev'[d] = i /\ \A e \in AsThread : e # d => asDev'[e] = asDev[e]
    BY DEF AsScan, AsIndInv, AsTypeOK
  <1>9. AsTypeOK'
    <2>1. asEnc' \in [AsIds -> Nat]
      BY <1>6 DEF AsIndInv, AsTypeOK
    <2>2. asDev' \in [AsThread -> 0..AsNSLOT]
      BY AsAssumption DEF AsScan, AsIndInv, AsTypeOK, AsSlots
    <2>3. QED
      BY <1>1, <2>1, <2>2 DEF AsIndInv, AsTypeOK
  <1>10. AsNewInv'
    <2>1. ASSUME NEW u \in AsThread, AsNew(u)'
          PROVE  /\ asEnc'[AsMine(u)'] = 0 /\ ~asSlot'[AsSlotOf(AsMine(u)')].busy
                 /\ asPc'[u] = "arm" => /\ asSlot'[AsSlotOf(AsMine(u)')].id = AsMine(u)'
                                        /\ ~asSlot'[AsSlotOf(AsMine(u)')].done
                 /\ asPc'[u] = "initlock" => asLib' = "gpu"
                 /\ asLib' = "heavy" /\ asPc'[u] = "init" => asSlot'[AsSlotOf(AsMine(u)')].inited = 0
      <3>1. AsNew(u) /\ AsMine(u)' = AsMine(u)
        BY <1>1, <2>1, AsCallersStay
      <3>2. AsMine(u) # y
        BY <3>1, AsNewApart DEF AsIndInv
      <3>3. QED
        BY <1>1, <1>7, <3>1, <3>2, AsNewFacts
    <2>2. QED
      BY <2>1, AsNewNext
  <1>11. AsArmedInv'
    <2>1. ASSUME NEW u \in AsThread, NEW x \in AsArmed(u)'
          PROVE  /\ asSlot'[AsSlotOf(x)].id = x
                 /\ asSlot'[AsSlotOf(x)].busy = (IF AsGpu' THEN ~asSlot'[AsSlotOf(x)].done ELSE TRUE)
                 /\ asEnc'[x] = IF asSlot'[AsSlotOf(x)].done \/ (\E e \in AsThread : asDev'[e] = AsSlotOf(x)) THEN 1 ELSE 0
      <3>1. x \in AsArmed(u) /\ (AsGpu' <=> AsGpu)
        BY <1>1, AsCallersStay
      <3>2. CASE x = y
        <4>1. /\ asSlot[AsSlotOf(x)].id = x
              /\ asSlot[AsSlotOf(x)].busy = (IF AsGpu THEN ~asSlot[AsSlotOf(x)].done ELSE TRUE)
          BY <3>1, AsArmedFacts
        <4>2. \E e \in AsThread : asDev'[e] = AsSlotOf(x)
          BY <1>3, <1>8, <3>2
        <4>3. QED
          BY <1>1, <1>7, <3>1, <3>2, <4>1, <4>2
      <3>3. CASE x # y
        <4>1. AsSlotOf(x) # i
          <5>1. x \in AsPend(u)
            BY <3>1, AsArmedPending
          <5>2. AsTypeOK /\ AsIdInv
            BY DEF AsIndInv
          <5>3. QED
            BY <1>3, <3>3, <5>1, <5>2, AsApart
        <4>2. /\ x \in AsIds /\ AsSlotOf(x) \in AsSlots /\ asSlot[AsSlotOf(x)].id = x
              /\ asSlot[AsSlotOf(x)].busy = (IF AsGpu THEN ~asSlot[AsSlotOf(x)].done ELSE TRUE)
              /\ asEnc[x] = IF asSlot[AsSlotOf(x)].done \/ (\E e \in AsThread : asDev[e] = AsSlotOf(x)) THEN 1 ELSE 0
          BY <3>1, AsArmedFacts
        <4>3. AsSlotOf(x) # AsNSLOT
          BY <4>2, AsSlotNotN
        <4>4. asEnc'[x] = asEnc[x]
          BY <1>7, <3>3, <4>2
        <4>5. (\E e \in AsThread : asDev'[e] = AsSlotOf(x)) <=> (\E e \in AsThread : asDev[e] = AsSlotOf(x))
          BY <1>1, <1>8, <4>1, <4>3
        <4>6. QED
          BY <1>1, <3>1, <4>4, <4>5, <4>2
      <3>4. QED
        BY <3>2, <3>3
    <2>2. QED
      BY <2>1, AsArmedNext
  <1>12. AsDeviceInv'
    <2>1. \A j \in AsSlots : asSlot'[j].busy => \E u \in AsThread : \E x \in AsArmed(u)' : AsSlotOf(x) = j
      BY <1>1, AsCallersStay DEF AsIndInv, AsDeviceInv
    <2>2. QED
      BY <1>1, <1>8, <2>1 DEF AsIndInv, AsDeviceInv, AsSlotOf, AsGpu
  <1>13. AsPastInv'
    <2>1. \A u \in AsThread : AsPend(u)' = AsPend(u)
      BY <1>1, AsCallersStay
    <2>2. ~(y >= asHead) /\ y \in AsPend(v)'
      BY <1>3, <2>1, AsPending DEF AsIndInv, AsTypeOK
    <2>3. QED
      BY <1>1, <1>7, <2>1, <2>2 DEF AsIndInv, AsPastInv
  <1>14. QED
    BY <1>1, <1>9, <1>10, <1>11, <1>12, <1>13, AsCallersStay DEF AsIndInv

\* device() reports the request that it has transformed.
LEMMA AsDoneStep ==
  ASSUME AsIndInv, NEW d \in AsThread, AsDone(d)
  PROVE  AsIndInv'
  <1> DEFINE i == asDev[d]
             r == [asSlot[i] EXCEPT !.done = TRUE]
  <1>1. /\ i # AsNSLOT /\ UNCHANGED <<asLib, asStarted, asDevices, asHead, asPc, asIds, asEnc>>
        /\ asSlot' = [asSlot EXCEPT ![i] = r]
    BY DEF AsDone
  <1>2. /\ i \in AsSlots /\ ~AsGpu /\ asSlot[i].busy /\ ~asSlot[i].done
        /\ \A e \in AsThread : asDev[e] = i => e = d
    BY <1>1, AsDevFacts
  <1>3. r \in AsRecord /\ r.done /\ r.busy /\ r.id = asSlot[i].id /\ r.inited = asSlot[i].inited
    <2>1. asSlot[i] \in AsRecord
      BY <1>2 DEF AsIndInv, AsTypeOK
    <2>2. QED
      BY <1>2, <2>1 DEF AsRecord
  <1> HIDE DEF r
  <1>4. asSlot'[i] = r /\ \A j \in AsSlots : j # i => asSlot'[j] = asSlot[j]
    BY <1>1, <1>2 DEF AsIndInv, AsTypeOK
  <1>5. asDev'[d] = AsNSLOT /\ \A e \in AsThread : e # d => asDev'[e] = asDev[e]
    BY DEF AsDone, AsIndInv, AsTypeOK
  <1>6. AsTypeOK'
    <2>1. asDev' \in [AsThread -> 0..AsNSLOT]
      BY AsAssumption DEF AsDone, AsIndInv, AsTypeOK
    <2>2. asSlot' \in [AsSlots -> AsRecord]
      BY <1>1, <1>3 DEF AsIndInv, AsTypeOK
    <2>3. QED
      BY <1>1, <2>1, <2>2 DEF AsIndInv, AsTypeOK
  <1>7. AsNewInv'
    <2>1. ASSUME NEW u \in AsThread, AsNew(u)'
          PROVE  /\ asEnc'[AsMine(u)'] = 0 /\ ~asSlot'[AsSlotOf(AsMine(u)')].busy
                 /\ asPc'[u] = "arm" => /\ asSlot'[AsSlotOf(AsMine(u)')].id = AsMine(u)'
                                        /\ ~asSlot'[AsSlotOf(AsMine(u)')].done
                 /\ asPc'[u] = "initlock" => asLib' = "gpu"
                 /\ asLib' = "heavy" /\ asPc'[u] = "init" => asSlot'[AsSlotOf(AsMine(u)')].inited = 0
      <3>1. AsNew(u) /\ AsMine(u)' = AsMine(u)
        BY <1>1, <2>1, AsCallersStay
      <3>2. AsSlotOf(AsMine(u)) # i
        BY <1>2, <3>1, AsNewFacts
      <3>3. QED
        BY <1>1, <1>4, <3>1, <3>2, AsNewFacts
    <2>2. QED
      BY <2>1, AsNewNext
  <1>8. AsArmedInv'
    <2>1. ASSUME NEW u \in AsThread, NEW x \in AsArmed(u)'
          PROVE  /\ asSlot'[AsSlotOf(x)].id = x
                 /\ asSlot'[AsSlotOf(x)].busy = (IF AsGpu' THEN ~asSlot'[AsSlotOf(x)].done ELSE TRUE)
                 /\ asEnc'[x] = IF asSlot'[AsSlotOf(x)].done \/ (\E e \in AsThread : asDev'[e] = AsSlotOf(x)) THEN 1 ELSE 0
      <3>1. x \in AsArmed(u) /\ (AsGpu' <=> AsGpu)
        BY <1>1, AsCallersStay
      <3>2. /\ x \in AsIds /\ AsSlotOf(x) \in AsSlots /\ asSlot[AsSlotOf(x)].id = x
            /\ asSlot[AsSlotOf(x)].busy = (IF AsGpu THEN ~asSlot[AsSlotOf(x)].done ELSE TRUE)
            /\ asEnc[x] = IF asSlot[AsSlotOf(x)].done \/ (\E e \in AsThread : asDev[e] = AsSlotOf(x)) THEN 1 ELSE 0
        BY <3>1, AsArmedFacts
      <3>3. CASE AsSlotOf(x) = i
        <4>1. asEnc[x] = 1
          BY <3>3, <3>2
        <4>2. asSlot'[AsSlotOf(x)] = r /\ asEnc'[x] = 1 /\ r.id = x
          BY <1>1, <1>3, <1>4, <3>3, <3>2, <4>1
        <4>3. r.busy = TRUE /\ ~AsGpu'
          BY <1>1, <1>2, <1>3, <1>4, <3>1, <3>3, <3>2 DEF AsRecord
        <4>4. QED
          BY <1>3, <4>2, <4>3
      <3>4. CASE AsSlotOf(x) # i
        <4>1. AsSlotOf(x) # AsNSLOT /\ asSlot'[AsSlotOf(x)] = asSlot[AsSlotOf(x)]
          BY <1>4, <3>2, <3>4, AsSlotNotN
        <4>2. (\E e \in AsThread : asDev'[e] = AsSlotOf(x)) <=> (\E e \in AsThread : asDev[e] = AsSlotOf(x))
          BY <1>5, <3>4, <4>1
        <4>3. QED
          BY <1>1, <3>1, <3>2, <4>1, <4>2
      <3>5. QED
        BY <3>3, <3>4
    <2>2. QED
      BY <2>1, AsArmedNext
  <1>9. AsDeviceInv'
    <2>1. \A j \in AsSlots : asSlot'[j].busy => \E u \in AsThread : \E x \in AsArmed(u)' : AsSlotOf(x) = j
      BY <1>1, <1>2, <1>4, AsCallersStay DEF AsIndInv, AsDeviceInv
    <2>2. ASSUME NEW e \in AsThread, asDev'[e] # AsNSLOT
          PROVE  e \in asDevices' /\ asSlot'[asDev'[e]].busy /\ ~asSlot'[asDev'[e]].done
      <3>1. e # d /\ asDev'[e] = asDev[e] /\ asDev[e] # i
        BY <1>2, <1>5, <2>2
      <3>2. QED
        BY <1>1, <1>4, <2>2, <3>1, AsDevFacts
    <2>3. QED
      BY <1>1, <2>1, <2>2 DEF AsIndInv, AsDeviceInv, AsSlotOf, AsGpu
  <1>10. AsPastInv'
    BY <1>1, <1>3, <1>4, AsCallersStay DEF AsIndInv, AsPastInv
  <1>11. QED
    BY <1>1, <1>6, <1>7, <1>8, <1>9, <1>10, AsCallersStay DEF AsIndInv

\* A stream runs what was queued on it, once.
LEMMA AsStreamStep ==
  ASSUME AsIndInv, NEW i \in AsSlots, AsStream(i)
  PROVE  AsIndInv'
  <1> DEFINE r1 == [asSlot[i] EXCEPT !.busy = FALSE]
             r == [r1 EXCEPT !.done = TRUE]
  <1>1. /\ AsGpu /\ asSlot[i].busy
        /\ UNCHANGED <<asLib, asStarted, asDevices, asHead, asPc, asIds, asDev>>
        /\ asSlot' = [asSlot EXCEPT ![i] = r]
    BY DEF AsStream, AsIndInv, AsTypeOK
  <1>2. \A e \in AsThread : asDev[e] = AsNSLOT
    BY <1>1, AsDevFacts
  <1>3. PICK v \in AsThread : \E x \in AsArmed(v) :
             /\ AsSlotOf(x) = i /\ asSlot[i].id = x /\ x \in AsPend(v) /\ x \in AsIds /\ x < asHead
             /\ asEnc[x] = (IF asSlot[i].done \/ AsWorks(i) THEN 1 ELSE 0)
             /\ asSlot[i].busy = (IF AsGpu THEN ~asSlot[i].done ELSE TRUE)
    BY <1>1, AsBusy
  <1>4. PICK y \in AsArmed(v) :
             /\ AsSlotOf(y) = i /\ asSlot[i].id = y /\ y \in AsPend(v) /\ y \in AsIds /\ y < asHead
             /\ asEnc[y] = (IF asSlot[i].done \/ AsWorks(i) THEN 1 ELSE 0)
             /\ asSlot[i].busy = (IF AsGpu THEN ~asSlot[i].done ELSE TRUE)
    BY <1>3
  <1>5. asEnc[y] = 0
    <2>1. ~AsWorks(i)
      BY <1>2, AsSlotNotN DEF AsWorks
    <2>2. ~asSlot[i].done
      BY <1>1, <1>4
    <2>3. QED
      BY <1>4, <2>1, <2>2
  <1>6. asEnc' = [asEnc EXCEPT ![y] = 1]
    <2>1. asEnc' = [asEnc EXCEPT ![y] = asEnc[y] + 1]
      BY <1>4 DEF AsStream
    <2>2. asEnc[y] + 1 = 1
      BY <1>5
    <2>3. QED
      BY <2>1, <2>2
  <1>7. asEnc'[y] = 1 /\ \A x \in AsIds : x # y => asEnc'[x] = asEnc[x]
    BY <1>4, <1>6 DEF AsIndInv, AsTypeOK
  <1>8. r \in AsRecord /\ r.done /\ ~r.busy /\ r.id = y /\ r.inited = asSlot[i].inited
    <2>1. r1 \in AsRecord /\ ~r1.busy /\ r1.id = y /\ r1.inited = asSlot[i].inited
      BY <1>4 DEF AsIndInv, AsTypeOK, AsRecord
    <2> HIDE DEF r1
    <2>2. QED
      BY <2>1 DEF AsRecord
  <1> HIDE DEF r, r1
  <1>9. asSlot'[i] = r /\ \A j \in AsSlots : j # i => asSlot'[j] = asSlot[j]
    BY <1>1 DEF AsIndInv, AsTypeOK
  <1>10. AsTypeOK'
    <2>1. asEnc' \in [AsIds -> Nat] /\ asSlot' \in [AsSlots -> AsRecord]
      BY <1>1, <1>6, <1>8 DEF AsIndInv, AsTypeOK
    <2>2. QED
      BY <1>1, <2>1 DEF AsIndInv, AsTypeOK
  <1>11. AsNewInv'
    <2>1. ASSUME NEW u \in AsThread, AsNew(u)'
          PROVE  /\ asEnc'[AsMine(u)'] = 0 /\ ~asSlot'[AsSlotOf(AsMine(u)')].busy
                 /\ asPc'[u] = "arm" => /\ asSlot'[AsSlotOf(AsMine(u)')].id = AsMine(u)'
                                        /\ ~asSlot'[AsSlotOf(AsMine(u)')].done
                 /\ asPc'[u] = "initlock" => asLib' = "gpu"
                 /\ asLib' = "heavy" /\ asPc'[u] = "init" => asSlot'[AsSlotOf(AsMine(u)')].inited = 0
      <3>1. AsNew(u) /\ AsMine(u)' = AsMine(u)
        BY <1>1, <2>1, AsCallersStay
      <3>2. AsMine(u) # y /\ AsSlotOf(AsMine(u)) # i
        BY <1>4, <3>1, AsNewApart DEF AsIndInv
      <3>3. QED
        BY <1>1, <1>7, <1>9, <3>1, <3>2, AsNewFacts
    <2>2. QED
      BY <2>1, AsNewNext
  <1>12. AsArmedInv'
    <2>1. ASSUME NEW u \in AsThread, NEW x \in AsArmed(u)'
          PROVE  /\ asSlot'[AsSlotOf(x)].id = x
                 /\ asSlot'[AsSlotOf(x)].busy = (IF AsGpu' THEN ~asSlot'[AsSlotOf(x)].done ELSE TRUE)
                 /\ asEnc'[x] = IF asSlot'[AsSlotOf(x)].done \/ (\E e \in AsThread : asDev'[e] = AsSlotOf(x)) THEN 1 ELSE 0
      <3>1. x \in AsArmed(u) /\ (AsGpu' <=> AsGpu)
        BY <1>1, AsCallersStay
      <3>2. CASE x = y
        <4>1. asSlot'[AsSlotOf(x)] = r /\ asEnc'[x] = 1 /\ r.id = x
          BY <1>4, <1>7, <1>8, <1>9, <3>2
        <4>2. r.busy = FALSE /\ r.done = TRUE /\ AsGpu'
          BY <1>1, <1>8, <3>1 DEF AsRecord
        <4>3. QED
          BY <4>1, <4>2
      <3>3. CASE x # y
        <4>1. AsSlotOf(x) # i
          BY <1>4, <3>1, <3>3, AsArmedFacts, AsApart DEF AsIndInv
        <4>2. asSlot'[AsSlotOf(x)] = asSlot[AsSlotOf(x)] /\ asEnc'[x] = asEnc[x]
          BY <1>7, <1>9, <3>1, <3>3, <4>1, AsArmedFacts
        <4>3. QED
          BY <1>1, <3>1, <4>2, AsArmedFacts
      <3>4. QED
        BY <3>2, <3>3
    <2>2. QED
      BY <2>1, AsArmedNext
  <1>13. AsDeviceInv'
    <2>1. \A j \in AsSlots : asSlot'[j].busy => \E u \in AsThread : \E x \in AsArmed(u)' : AsSlotOf(x) = j
      BY <1>1, <1>8, <1>9, AsCallersStay DEF AsIndInv, AsDeviceInv
    <2>2. QED
      BY <1>1, <1>2, <2>1 DEF AsIndInv, AsDeviceInv, AsSlotOf, AsGpu
  <1>14. AsPastInv'
    <2>1. \A u \in AsThread : AsPend(u)' = AsPend(u)
      BY <1>1, AsCallersStay
    <2>2. ~(y >= asHead) /\ y \in AsPend(v)'
      BY <1>4, <2>1, AsPending DEF AsIndInv, AsTypeOK
    <2>3. \A j \in AsSlots : asSlot'[j].inited <= 1
      BY <1>8, <1>9 DEF AsIndInv, AsPastInv
    <2>4. QED
      BY <1>1, <1>7, <2>1, <2>2, <2>3 DEF AsIndInv, AsPastInv
  <1>15. QED
    BY <1>1, <1>10, <1>11, <1>12, <1>13, <1>14, AsCallersStay DEF AsIndInv

LEMMA AsNextInv == AsIndInv /\ [AsNext]_asVars => AsIndInv'
  <1> SUFFICES ASSUME AsIndInv, [AsNext]_asVars PROVE AsIndInv'
    OBVIOUS
  <1>1. CASE UNCHANGED asVars
    <2>1. UNCHANGED <<asLib, asStarted, asDevices, asHead, asSlot, asPc, asIds, asDev, asEnc>>
      BY <1>1 DEF asVars
    <2>2. /\ AsIdInv' /\ (AsGpu' <=> AsGpu)
          /\ \A u \in AsThread : /\ AsNew(u)' <=> AsNew(u)
                                 /\ AsPend(u)' = AsPend(u) /\ AsMine(u)' = AsMine(u) /\ AsArmed(u)' = AsArmed(u)
      BY <2>1, AsCallersStay
    <2>3. AsTypeOK'
      BY <2>1 DEF AsIndInv, AsTypeOK
    <2>4. AsNewInv'
      BY <2>1, <2>2, AsNewFacts, AsNewNext
    <2>5. AsArmedInv'
      <3>1. ASSUME NEW u \in AsThread, NEW x \in AsArmed(u)'
            PROVE  /\ asSlot'[AsSlotOf(x)].id = x
                   /\ asSlot'[AsSlotOf(x)].busy = (IF AsGpu' THEN ~asSlot'[AsSlotOf(x)].done ELSE TRUE)
                   /\ asEnc'[x] = IF asSlot'[AsSlotOf(x)].done \/ (\E d \in AsThread : asDev'[d] = AsSlotOf(x)) THEN 1 ELSE 0
        <4>1. x \in AsArmed(u)
          BY <2>2
        <4>2. QED
          BY <2>1, <2>2, <4>1, AsArmedFacts
      <3>2. QED
        BY <3>1, AsArmedNext
    <2>6. AsDeviceInv'
      BY <2>1, <2>2 DEF AsIndInv, AsDeviceInv, AsSlotOf
    <2>7. AsPastInv'
      BY <2>1, <2>2 DEF AsIndInv, AsPastInv
    <2>8. QED
      BY <2>2, <2>3, <2>4, <2>5, <2>6, <2>7 DEF AsIndInv
  <1>2. QED
    BY <1>1, AsMovesStep, AsStartStep, AsInitSlotStep, AsFillStep, AsArmStep, AsTakeStep, AsCollectStep,
       AsScanStep, AsDoneStep, AsStreamStep DEF AsNext

\* accel_submit() with slots shared by a counter: for any number of callers,
\* slots and requests a buffer is transformed exactly once, while its caller
\* waits for it, and a slot's stream is created once although the heavy
\* library takes no lock for it.
THEOREM AsCorrect == AsSpec => []AsExclusive
  <1>1. ASSUME AsIndInv PROVE AsExclusive
    <2>1. AsOnceEach
      <3>1. UNION {{asIds[t][k] : k \in 1..Len(asIds[t])} : t \in AsThread} = UNION {AsPend(t) : t \in AsThread}
        BY DEF AsPend
      <3>2. ASSUME NEW x \in AsIds
            PROVE  IF x >= asHead THEN asEnc[x] = 0
                   ELSE IF x \in UNION {AsPend(t) : t \in AsThread} THEN asEnc[x] <= 1 ELSE asEnc[x] = 1
        <4>1. CASE x >= asHead
          BY <1>1, <4>1 DEF AsIndInv, AsPastInv
        <4>2. ASSUME NEW t \in AsThread, x \in AsPend(t) PROVE asEnc[x] <= 1
          <5>1. CASE x \in AsArmed(t)
            <6>1. asEnc[x] = IF asSlot[AsSlotOf(x)].done \/ (\E d \in AsThread : asDev[d] = AsSlotOf(x)) THEN 1 ELSE 0
              BY <1>1, <5>1, AsArmedFacts
            <6>2. asEnc[x] = 1 \/ asEnc[x] = 0
              BY <6>1
            <6>3. QED
              BY <6>2
          <5>2. CASE x \notin AsArmed(t)
            <6>1. AsNew(t) /\ x = AsMine(t)
              BY <4>2, <5>2 DEF AsArmed
            <6>2. QED
              BY <1>1, <6>1, AsNewFacts
          <5>3. QED
            BY <5>1, <5>2
        <4>3. CASE ~(x >= asHead) /\ \A t \in AsThread : x \notin AsPend(t)
          <5>1. x < asHead
            BY <1>1, <4>3, AsAssumption DEF AsIndInv, AsTypeOK, AsIds
          <5>2. asEnc[x] = 1
            BY <1>1, <4>3, <5>1 DEF AsIndInv, AsPastInv
          <5>3. QED
            BY <4>3, <5>2
        <4>4. QED
          BY <4>1, <4>2, <4>3
      <3>3. \A i \in AsSlots : asSlot[i].inited <= 1
        BY <1>1 DEF AsIndInv, AsPastInv
      <3>4. QED
        BY <3>1, <3>2, <3>3 DEF AsOnceEach
    <2>2. AsDeviceOwns
      <3> SUFFICES ASSUME NEW i \in AsSlots, asSlot[i].busy
                   PROVE  \E t \in AsThread : \E k \in 1..Len(asIds[t]) : asIds[t][k] = asSlot[i].id
        BY DEF AsDeviceOwns
      <3>1. PICK t \in AsThread : asSlot[i].id \in AsPend(t)
        BY <1>1, AsBusy
      <3>2. QED
        BY <3>1 DEF AsPend
    <2>3. QED
      BY <2>1, <2>2 DEF AsExclusive
  <1>2. QED
    BY <1>1, AsInitInv, AsNextInv, PTL DEF AsSpec

-----------------------------------------------------------------------------
(* The open-loop benchmark. *)

\* x is an entry of the queue q; q has no entry twice.
OlIn(q, x) == \E k \in 1..Len(q) : q[k] = x
OlOnce(q) == \A k, l \in 1..Len(q) : q[k] = q[l] => k = l

OlHeld(a) == \E i \in OlTasks : olTask[i].arr = a

OlTypeOK ==
    /\ olMode \in {"coro", "block"}
    /\ olSeen \in 0..OlArrivals /\ olRing \in Seq(1..OlArrivals)
    /\ olTask \in [OlTasks -> [st : {"FREE", "READY", "WAIT_OFF"}, pc : {"pre", "post"}, arr : Nat]]
    /\ olFree \in Seq(OlTasks) /\ olReady \in Seq(OlTasks) /\ olBatch \in Seq(OlTasks)
    /\ olSlot \in [OlTasks -> [active : BOOLEAN, done : BOOLEAN]] /\ olDev \in 0..OlPool
    /\ olComp \in [0..(OlCQN - 1) -> OlTasks] /\ olHead \in Nat /\ olTail \in Nat
    /\ olCompleted \in [1..OlArrivals -> Nat]

\* Where an arrival can be, one at a time.
OlPlace(a) ==
    /\ OlIn(olRing, a) \/ OlHeld(a) \/ olCompleted[a] = 1 \/ a \in olDropped
    /\ olCompleted[a] \in {0, 1}
    /\ OlIn(olRing, a) => ~OlHeld(a) /\ olCompleted[a] = 0 /\ a \notin olDropped
    /\ OlHeld(a) => olCompleted[a] = 0 /\ a \notin olDropped
    /\ olCompleted[a] = 1 => a \notin olDropped

OlArrivalInv ==
    /\ OlOnce(olRing)
    /\ \A a \in 1..OlArrivals : OlIn(olRing, a) => a <= olSeen
    /\ \A i \in OlTasks : olTask[i].arr <= olSeen
    /\ \A i, j \in OlTasks : olTask[i].arr = olTask[j].arr /\ olTask[i].arr # 0 => i = j
    /\ \A a \in 1..OlArrivals : a <= olSeen => OlPlace(a)
    /\ \A a \in 1..OlArrivals : a > olSeen => olCompleted[a] = 0 /\ a \notin olDropped

\* A task has an arrival unless it is free, and its slot while it is parked.
OlTaskInv ==
    \A i \in OlTasks : /\ olTask[i].st = "FREE" <=> olTask[i].arr = 0
                       /\ olSlot[i].active <=> olTask[i].st = "WAIT_OFF"

\* The lists of the dispatcher tell the state of each fiber.
OlListInv ==
    olMode = "coro" =>
        /\ OlOnce(olFree) /\ OlOnce(olReady) /\ OlOnce(olBatch) /\ (olAt # "run" => olBatch = <<>>)
        /\ \A i \in OlTasks : /\ OlIn(olFree, i) <=> olTask[i].st = "FREE"
                              /\ OlIn(olReady, i) \/ OlIn(olBatch, i) <=> olTask[i].st = "READY"
                              /\ ~(OlIn(olReady, i) /\ OlIn(olBatch, i))

OlIndInv == OlTypeOK /\ OlArrivalInv /\ OlTaskInv /\ OlListInv

\* Queues: what append, tail and front do to the entries.
LEMMA OlAppend ==
  ASSUME NEW S, NEW q \in Seq(S), NEW x \in S, OlOnce(q), ~OlIn(q, x)
  PROVE  /\ Append(q, x) \in Seq(S) /\ OlOnce(Append(q, x))
         /\ \A y : OlIn(Append(q, x), y) <=> OlIn(q, y) \/ y = x
  <1> DEFINE p == Append(q, x)
  <1>1. /\ p \in Seq(S) /\ Len(q) \in Nat /\ Len(p) = Len(q) + 1 /\ p[Len(q) + 1] = x
        /\ \A k \in 1..Len(q) : p[k] = q[k]
    OBVIOUS
  <1> HIDE DEF p
  <1>2. \A k \in 1..Len(p) : k = Len(q) + 1 \/ k \in 1..Len(q)
    BY <1>1
  <1>3. (\A k \in 1..Len(q) : k \in 1..Len(p)) /\ Len(q) + 1 \in 1..Len(p)
    BY <1>1
  <1>4. OlOnce(p)
    BY <1>1, <1>2 DEF OlOnce, OlIn
  <1>5. \A y : OlIn(p, y) <=> OlIn(q, y) \/ y = x
    BY <1>1, <1>2, <1>3 DEF OlIn
  <1>6. QED
    BY <1>1, <1>4, <1>5 DEF p

LEMMA OlTailOf ==
  ASSUME NEW S, NEW q \in Seq(S), q # <<>>, OlOnce(q)
  PROVE  /\ Tail(q) \in Seq(S) /\ OlOnce(Tail(q)) /\ Head(q) \in S /\ OlIn(q, Head(q))
         /\ \A y : OlIn(Tail(q), y) <=> OlIn(q, y) /\ y # Head(q)
  <1> DEFINE p == Tail(q)
             n == Len(q)
  <1>1. /\ p \in Seq(S) /\ n \in Nat /\ n >= 1 /\ Len(p) = n - 1 /\ Head(q) = q[1]
        /\ \A k \in 1..(n - 1) : p[k] = q[k + 1]
    OBVIOUS
  <1>2. q[1] \in S
    BY <1>1
  <1> HIDE DEF p
  <1>3. \A k \in 1..Len(p) : k + 1 \in 1..n /\ k + 1 # 1 /\ p[k] = q[k + 1]
    BY <1>1
  <1>4. \A k \in 1..n : k = 1 \/ (k - 1 \in 1..Len(p) /\ p[k - 1] = q[k])
    <2>1. ASSUME NEW k \in 1..n, k # 1 PROVE k - 1 \in 1..(n - 1) /\ (k - 1) + 1 = k
      BY <1>1, <2>1
    <2>2. QED
      BY <1>1, <2>1
  <1>5. 1 \in 1..n
    BY <1>1
  <1>6. OlOnce(p)
    <2>1. ASSUME NEW k \in 1..Len(p), NEW l \in 1..Len(p), p[k] = p[l] PROVE k = l
      <3>1. k + 1 = l + 1
        BY <1>3, <2>1 DEF OlOnce
      <3>2. k \in Nat /\ l \in Nat
        BY <1>1
      <3>3. QED
        BY <3>1, <3>2
    <2>2. QED
      BY <2>1 DEF OlOnce
  <1>7. ASSUME NEW y PROVE OlIn(p, y) <=> OlIn(q, y) /\ y # q[1]
    <2>1. ASSUME OlIn(p, y) PROVE OlIn(q, y) /\ y # q[1]
      BY <1>3, <1>5, <2>1 DEF OlIn, OlOnce
    <2>2. ASSUME OlIn(q, y), y # q[1] PROVE OlIn(p, y)
      BY <1>4, <2>2 DEF OlIn
    <2>3. QED
      BY <2>1, <2>2
  <1>8. OlIn(q, q[1])
    BY <1>5 DEF OlIn
  <1>9. QED
    BY <1>1, <1>2, <1>6, <1>7, <1>8 DEF p

LEMMA OlFrontOf ==
  ASSUME NEW S, NEW q \in Seq(S), q # <<>>, OlOnce(q)
  PROVE  /\ SubSeq(q, 1, Len(q) - 1) \in Seq(S) /\ OlOnce(SubSeq(q, 1, Len(q) - 1))
         /\ q[Len(q)] \in S /\ OlIn(q, q[Len(q)])
         /\ \A y : OlIn(SubSeq(q, 1, Len(q) - 1), y) <=> OlIn(q, y) /\ y # q[Len(q)]
  <1> DEFINE n == Len(q)
             p == SubSeq(q, 1, n - 1)
  <1>1. n \in Nat /\ n >= 1
    OBVIOUS
  <1>2. p \in Seq(S) /\ Len(p) = n - 1 /\ \A k \in 1..(n - 1) : p[k] = q[k]
    <2>1. 1 \in 1..(n + 1) /\ n - 1 \in (1 - 1)..n /\ (n - 1) - 1 + 1 = n - 1
          /\ \A k \in 1..(n - 1) : 1 + k - 1 = k
      BY <1>1
    <2>2. QED
      BY <2>1, SubSeqProperties
  <1> HIDE DEF p
  <1>3. /\ n \in 1..n /\ \A k \in 1..Len(p) : k \in 1..n /\ k # n /\ p[k] = q[k]
        /\ \A k \in 1..n : k = n \/ k \in 1..Len(p)
    BY <1>1, <1>2
  <1>4. q[n] \in S
    BY <1>3
  <1>5. OlOnce(p) /\ OlIn(q, q[n])
    BY <1>3 DEF OlOnce, OlIn
  <1>6. ASSUME NEW y PROVE OlIn(p, y) <=> OlIn(q, y) /\ y # q[n]
    <2>1. ASSUME OlIn(p, y) PROVE OlIn(q, y) /\ y # q[n]
      BY <1>3, <2>1 DEF OlIn, OlOnce
    <2>2. ASSUME OlIn(q, y), y # q[n] PROVE OlIn(p, y)
      BY <1>3, <2>2 DEF OlIn
    <2>3. QED
      BY <2>1, <2>2
  <1>7. QED
    BY <1>2, <1>4, <1>5, <1>6 DEF p

LEMMA OlEmpty == OlOnce(<<>>) /\ <<>> \in Seq(OlTasks) /\ \A y : ~OlIn(<<>>, y)
  <1>1. 1..Len(<<>>) = {}
    OBVIOUS
  <1>2. QED
    BY <1>1 DEF OlOnce, OlIn

LEMMA OlInitInv == OlInit => OlIndInv
  <1> SUFFICES ASSUME OlInit PROVE OlIndInv
    OBVIOUS
  <1>1. OlPool \in Nat \ {0} /\ OlCQN \in Nat \ {0} /\ OlArrivals \in Nat
    BY OlAssumption
  <1>2. OlTypeOK
    <2>1. olFree \in Seq(OlTasks)
      BY <1>1 DEF OlInit, OlTasks
    <2>2. 1 \in OlTasks /\ 0 \in 0..OlArrivals /\ 0 \in 0..OlPool
      BY <1>1 DEF OlTasks
    <2>3. QED
      BY <2>1, <2>2 DEF OlInit, OlTypeOK
  <1>3. OlArrivalInv
    <2>1. ~(\E a \in 1..OlArrivals : a <= 0) /\ \A a \in 1..OlArrivals : a > 0
      BY <1>1
    <2>2. QED
      BY <2>1, OlEmpty DEF OlInit, OlArrivalInv
  <1>4. OlTaskInv
    BY DEF OlInit, OlTaskInv
  <1>5. OlListInv
    <2>1. Len(olFree) = OlPool /\ \A k \in 1..OlPool : olFree[k] = k
      BY <1>1 DEF OlInit, OlTasks
    <2>2. OlOnce(olFree) /\ \A i \in OlTasks : OlIn(olFree, i)
      BY <1>1, <2>1 DEF OlOnce, OlIn, OlTasks
    <2>3. QED
      BY <2>2, OlEmpty DEF OlInit, OlListInv
  <1>6. QED
    BY <1>2, <1>3, <1>4, <1>5 DEF OlIndInv

-----------------------------------------------------------------------------
(* What the steps do to arrivals. *)

\* Nothing.
LEMMA OlArrivalsStay ==
  ASSUME OlArrivalInv, UNCHANGED <<olSeen, olDropped, olRing, olCompleted>>,
         \A i \in OlTasks : olTask'[i].arr = olTask[i].arr
  PROVE  OlArrivalInv'
  <1>1. \A a : OlHeld(a)' <=> OlHeld(a)
    BY DEF OlHeld
  <1>2. \A a \in 1..OlArrivals : a <= olSeen => OlPlace(a)'
    BY <1>1 DEF OlArrivalInv, OlPlace
  <1>3. QED
    BY <1>2 DEF OlArrivalInv

\* A task takes the oldest one from the ring.
LEMMA OlTakes ==
  ASSUME OlTypeOK, OlArrivalInv, NEW t \in OlTasks, olRing # <<>>, olTask[t].arr = 0,
         UNCHANGED <<olSeen, olDropped, olCompleted>>, olRing' = Tail(olRing),
         olTask'[t].arr = Head(olRing), \A i \in OlTasks : i # t => olTask'[i].arr = olTask[i].arr
  PROVE  OlArrivalInv' /\ olRing' \in Seq(1..OlArrivals) /\ Head(olRing) \in 1..OlArrivals
  <1>0. PICK x \in 1..OlArrivals : x = Head(olRing)
    BY OlTailOf DEF OlTypeOK, OlArrivalInv
  <1>1. /\ olRing' \in Seq(1..OlArrivals) /\ OlOnce(olRing') /\ OlIn(olRing, x) /\ olTask'[t].arr = x
        /\ \A y : OlIn(olRing', y) <=> OlIn(olRing, y) /\ y # x
    BY <1>0, OlTailOf DEF OlTypeOK, OlArrivalInv
  <1>2. x <= olSeen /\ x # 0 /\ OlPlace(x)
    BY <1>1, OlAssumption DEF OlArrivalInv
  <1>3. ~OlHeld(x) /\ olCompleted[x] = 0 /\ x \notin olDropped
    BY <1>1, <1>2 DEF OlPlace
  <1>5. OlHeld(x)' /\ \A a : a # x /\ a # 0 => (OlHeld(a)' <=> OlHeld(a))
    BY <1>1 DEF OlHeld
  <1>6. \A i \in OlTasks : olTask'[i].arr <= olSeen
    BY <1>2, <1>1 DEF OlArrivalInv
  <1>7. ASSUME NEW i \in OlTasks, NEW j \in OlTasks, olTask'[i].arr = olTask'[j].arr, olTask'[i].arr # 0
        PROVE  i = j
    BY <1>3, <1>1, <1>7 DEF OlArrivalInv, OlHeld
  <1>8. ASSUME NEW a \in 1..OlArrivals, a <= olSeen PROVE OlPlace(a)'
    <2>1. OlPlace(a) /\ a # 0
      BY <1>8, OlAssumption DEF OlArrivalInv
    <2>2. CASE a = x
      BY <1>1, <1>3, <1>5, <2>2 DEF OlPlace
    <2>3. CASE a # x
      BY <1>1, <1>5, <2>1, <2>3 DEF OlPlace
    <2>4. QED
      BY <2>2, <2>3
  <1>9. \A a \in 1..OlArrivals : OlIn(olRing', a) => a <= olSeen
    BY <1>1 DEF OlArrivalInv
  <1>10. OlArrivalInv'
    BY <1>1, <1>6, <1>7, <1>8, <1>9 DEF OlArrivalInv
  <1>11. QED
    BY <1>0, <1>1, <1>10

\* A task records the one that it has.
LEMMA OlRecords ==
  ASSUME OlTypeOK, OlArrivalInv, NEW t \in OlTasks, olTask[t].arr # 0,
         UNCHANGED <<olSeen, olDropped, olRing>>,
         olCompleted' = [olCompleted EXCEPT ![olTask[t].arr] = olCompleted[olTask[t].arr] + 1],
         olTask'[t].arr = 0, \A i \in OlTasks : i # t => olTask'[i].arr = olTask[i].arr
  PROVE  OlArrivalInv' /\ olCompleted' \in [1..OlArrivals -> Nat]
  <1>0. PICK x \in 1..OlArrivals : x = olTask[t].arr /\ x <= olSeen /\ x # 0
    BY OlAssumption DEF OlTypeOK, OlArrivalInv
  <1>1. x \in 1..OlArrivals /\ x = olTask[t].arr /\ x <= olSeen /\ x # 0
    BY <1>0
  <1>2. OlPlace(x) /\ OlHeld(x)
    BY <1>1 DEF OlArrivalInv, OlHeld
  <1>3. olCompleted[x] = 0 /\ x \notin olDropped /\ ~OlIn(olRing, x)
    BY <1>2 DEF OlPlace
  <1>4. olCompleted' = [olCompleted EXCEPT ![x] = 1]
    <2>1. olCompleted[x] + 1 = 1
      BY <1>3
    <2>2. QED
      BY <1>1, <2>1
  <1>5. \A i \in OlTasks : olTask[i].arr = x => i = t
    BY <1>1 DEF OlArrivalInv
  <1>6. /\ olCompleted' \in [1..OlArrivals -> Nat] /\ olCompleted'[x] = 1
        /\ \A a \in 1..OlArrivals : a # x => olCompleted'[a] = olCompleted[a]
    BY <1>1, <1>4 DEF OlTypeOK
  <1>7. ~OlHeld(x)' /\ \A a : a # x /\ a # 0 => (OlHeld(a)' <=> OlHeld(a))
    BY <1>1, <1>5 DEF OlHeld
  <1>8. ASSUME NEW a \in 1..OlArrivals, a <= olSeen PROVE OlPlace(a)'
    <2>1. OlPlace(a) /\ a # 0
      BY <1>8, OlAssumption DEF OlArrivalInv
    <2>2. CASE a = x
      BY <1>3, <1>6, <1>7, <2>2 DEF OlPlace
    <2>3. CASE a # x
      BY <1>6, <1>7, <2>1, <2>3 DEF OlPlace
    <2>4. QED
      BY <2>2, <2>3
  <1>9. \A a \in 1..OlArrivals : a > olSeen => olCompleted'[a] = 0
    <2>1. \A a \in 1..OlArrivals : a > olSeen => a # x
      BY <1>1, OlAssumption DEF OlTypeOK
    <2>2. QED
      BY <1>6, <2>1 DEF OlArrivalInv
  <1>10. \A i \in OlTasks : olTask'[i].arr <= olSeen
    <2>1. 0 <= olSeen
      BY OlAssumption DEF OlTypeOK
    <2>2. QED
      BY <2>1 DEF OlArrivalInv
  <1>11. OlArrivalInv'
    BY <1>8, <1>9, <1>10 DEF OlArrivalInv
  <1>12. QED
    BY <1>6, <1>11

\* producer() and the device: an arrival; slots that are reported.
LEMMA OlArriveStep ==
  ASSUME OlIndInv, OlArrive
  PROVE  OlIndInv'
  <1>0. PICK x \in 1..OlArrivals : x = olSeen + 1
    BY OlAssumption DEF OlIndInv, OlTypeOK, OlArrive
  <1>1. /\ olSeen' = x /\ olSeen \in Nat /\ x > olSeen /\ x # 0 /\ x \in Nat
        /\ UNCHANGED <<olMode, olTask, olFree, olReady, olBatch, olSlot, olDev, olComp, olHead, olTail, olAt, olCompleted>>
    BY <1>0, OlAssumption DEF OlIndInv, OlTypeOK, OlArrive
  <1>2. olCompleted[x] = 0 /\ x \notin olDropped /\ ~OlHeld(x) /\ ~OlIn(olRing, x)
    <2>1. olCompleted[x] = 0 /\ x \notin olDropped
      BY <1>1 DEF OlIndInv, OlArrivalInv
    <2>2. ~(x <= olSeen)
      BY <1>0, <1>1
    <2>3. QED
      BY <2>1, <2>2 DEF OlIndInv, OlArrivalInv, OlHeld
  <1>3. \/ /\ olRing' = Append(olRing, x) /\ olDropped' = olDropped
        \/ /\ olRing' = olRing /\ olDropped' = olDropped \cup {x}
    BY <1>0 DEF OlArrive
  <1>4. olRing' \in Seq(1..OlArrivals) /\ OlOnce(olRing') /\ \A y : OlIn(olRing', y) => OlIn(olRing, y) \/ y = x
    <2>1. olRing \in Seq(1..OlArrivals) /\ OlOnce(olRing)
      BY DEF OlIndInv, OlTypeOK, OlArrivalInv
    <2>2. CASE olRing' = Append(olRing, x)
      <3> DEFINE A == 1..OlArrivals
      <3>0. olRing \in Seq(A) /\ x \in A
        BY <2>1
      <3>1. /\ Append(olRing, x) \in Seq(A) /\ OlOnce(Append(olRing, x))
            /\ \A y : OlIn(Append(olRing, x), y) <=> OlIn(olRing, y) \/ y = x
        <4> HIDE DEF A
        <4>1. QED
          BY <1>2, <2>1, <3>0, OlAppend
      <3>2. QED
        BY <2>2, <3>1
    <2>3. CASE olRing' = olRing
      BY <2>1, <2>3
    <2>4. QED
      BY <1>3, <2>2, <2>3
  <1>5. /\ \A a \in 1..OlArrivals : a <= x => a <= olSeen \/ a = x
        /\ \A a \in 1..OlArrivals : a <= olSeen => a <= x /\ a # x
        /\ \A a \in 1..OlArrivals : a > x => a > olSeen /\ a # x
    BY <1>0, <1>1, OlAssumption
  <1>6. \A a : OlHeld(a)' <=> OlHeld(a)
    BY <1>1 DEF OlHeld
  <1>7. ASSUME NEW a \in 1..OlArrivals, a <= x PROVE OlPlace(a)'
    <2>1. CASE a = x
      <3>1. CASE olRing' = Append(olRing, x) /\ olDropped' = olDropped
        <4>1. OlIn(olRing', x)
          BY <1>2, <3>1, OlAppend DEF OlIndInv, OlTypeOK, OlArrivalInv
        <4>2. QED
          BY <1>1, <1>2, <1>6, <2>1, <3>1, <4>1 DEF OlPlace
      <3>2. CASE olRing' = olRing /\ olDropped' = olDropped \cup {x}
        BY <1>1, <1>2, <1>6, <2>1, <3>2 DEF OlPlace
      <3>3. QED
        BY <1>3, <3>1, <3>2
    <2>2. CASE a # x
      <3>1. OlPlace(a)
        BY <1>5, <1>7, <2>2 DEF OlIndInv, OlArrivalInv
      <3>2. (OlIn(olRing', a) <=> OlIn(olRing, a)) /\ (a \in olDropped' <=> a \in olDropped)
        <4>1. olRing \in Seq(1..OlArrivals) /\ OlOnce(olRing)
          BY DEF OlIndInv, OlTypeOK, OlArrivalInv
        <4>2. CASE olRing' = Append(olRing, x) /\ olDropped' = olDropped
          <5>1. \A y : OlIn(Append(olRing, x), y) <=> OlIn(olRing, y) \/ y = x
            BY <1>2, <4>1, OlAppend
          <5>2. OlIn(Append(olRing, x), a) <=> OlIn(olRing, a)
            BY <2>2, <5>1
          <5>3. QED
            BY <4>2, <5>2
        <4>3. CASE olRing' = olRing /\ olDropped' = olDropped \cup {x}
          BY <2>2, <4>3
        <4>4. QED
          BY <1>3, <4>2, <4>3
      <3>3. QED
        BY <1>1, <1>6, <3>1, <3>2 DEF OlPlace
    <2>3. QED
      BY <2>1, <2>2
  <1>8. OlArrivalInv'
    <2>1. \A i \in OlTasks : olTask'[i].arr <= x
      <3>1. ASSUME NEW i \in OlTasks PROVE olTask[i].arr <= x
        <4>1. olTask[i].arr \in Nat /\ olTask[i].arr <= olSeen
          BY DEF OlIndInv, OlTypeOK, OlArrivalInv
        <4>2. QED
          BY <1>0, <1>1, <4>1
      <3>2. QED
        BY <1>1, <3>1
    <2>2. \A a \in 1..OlArrivals : OlIn(olRing', a) => a <= x
      BY <1>1, <1>4, <1>5 DEF OlIndInv, OlArrivalInv
    <2>3. \A a \in 1..OlArrivals : a > x => olCompleted'[a] = 0 /\ a \notin olDropped'
      BY <1>1, <1>3, <1>5 DEF OlIndInv, OlArrivalInv
    <2>4. \A i, j \in OlTasks : olTask'[i].arr = olTask'[j].arr /\ olTask'[i].arr # 0 => i = j
      BY <1>1 DEF OlIndInv, OlArrivalInv
    <2>5. QED
      BY <1>1, <1>4, <1>7, <2>1, <2>2, <2>3, <2>4 DEF OlArrivalInv
  <1>9. OlTypeOK'
    <2>1. olSeen' \in 0..OlArrivals
      BY <1>1, OlAssumption
    <2>2. QED
      BY <1>1, <1>4, <2>1 DEF OlIndInv, OlTypeOK
  <1>10. OlTaskInv' /\ OlListInv'
    BY <1>1 DEF OlIndInv, OlTaskInv, OlListInv
  <1>11. QED
    BY <1>8, <1>9, <1>10 DEF OlIndInv

LEMMA OlDeviceStep ==
  ASSUME OlIndInv, OlDevice
  PROVE  OlIndInv'
  <1>1. UNCHANGED <<olMode, olSeen, olDropped, olRing, olTask, olFree, olReady, olBatch, olTail, olAt, olCompleted>>
    BY DEF OlDevice, OlDevPush, OlDevDone
  <1>2. OlTypeOK'
    <2>1. CASE OlDevPush
      <3>1. olHead % OlCQN \in 0..(OlCQN - 1) /\ olDev \in OlTasks /\ olHead + 1 \in Nat /\ 0 \in 0..OlPool
        <4>1. olHead \in Nat /\ OlCQN \in Nat \ {0} /\ OlPool \in Nat /\ olDev \in 0..OlPool /\ olDev # 0
          BY <2>1, OlAssumption DEF OlDevPush, OlIndInv, OlTypeOK
        <4>2. olHead % OlCQN \in 0..(OlCQN - 1)
          BY <4>1, ModRange
        <4>3. olDev \in OlTasks /\ olHead + 1 \in Nat /\ 0 \in 0..OlPool
          BY <4>1 DEF OlTasks
        <4>4. QED
          BY <4>2, <4>3
      <3>2. olComp' \in [0..(OlCQN - 1) -> OlTasks]
        BY <2>1, <3>1 DEF OlDevPush, OlIndInv, OlTypeOK
      <3>3. QED
        BY <1>1, <2>1, <3>1, <3>2 DEF OlDevPush, OlIndInv, OlTypeOK
    <2>2. ASSUME NEW i \in OlTasks, OlDevDone(i) PROVE OlTypeOK'
      <3>1. i \in 0..OlPool
        BY OlAssumption DEF OlTasks
      <3>2. olSlot' \in [OlTasks -> [active : BOOLEAN, done : BOOLEAN]]
        BY <2>2 DEF OlDevDone, OlIndInv, OlTypeOK
      <3>3. QED
        BY <1>1, <2>2, <3>1, <3>2 DEF OlDevDone, OlIndInv, OlTypeOK
    <2>3. QED
      BY <2>1, <2>2 DEF OlDevice
  <1>3. \A i \in OlTasks : olSlot'[i].active = olSlot[i].active
    <2>1. CASE OlDevPush
      BY <2>1 DEF OlDevPush
    <2>2. ASSUME NEW j \in OlTasks, OlDevDone(j) PROVE \A i \in OlTasks : olSlot'[i].active = olSlot[i].active
      BY <2>2 DEF OlDevDone, OlIndInv, OlTypeOK
    <2>3. QED
      BY <2>1, <2>2 DEF OlDevice
  <1>4. OlArrivalInv'
    BY <1>1, OlArrivalsStay DEF OlIndInv
  <1>5. OlTaskInv' /\ OlListInv'
    BY <1>1, <1>3 DEF OlIndInv, OlTaskInv, OlListInv
  <1>6. QED
    BY <1>2, <1>4, <1>5 DEF OlIndInv

\* block_worker().
LEMMA OlWorkerStep ==
  ASSUME OlIndInv, NEW t \in OlTasks, OlWorker(t)
  PROVE  OlIndInv'
  <1>1. /\ olMode = "block"
        /\ UNCHANGED <<olMode, olSeen, olDropped, olFree, olReady, olBatch, olDev, olComp, olHead, olTail>>
    BY DEF OlWorker, OlPop, OlWake
  <1>2. CASE OlPop(t)
    <2> DEFINE r == [st |-> "WAIT_OFF", pc |-> "post", arr |-> Head(olRing)]
    <2>1. /\ olTask[t].st = "FREE" /\ olRing # <<>> /\ olTask' = [olTask EXCEPT ![t] = r] /\ olRing' = Tail(olRing)
          /\ olSlot' = [olSlot EXCEPT ![t] = [active |-> TRUE, done |-> FALSE]] /\ UNCHANGED olCompleted
      BY <1>2 DEF OlPop, OlSubmitted
    <2>2. olTask[t].arr = 0
      BY <2>1 DEF OlIndInv, OlTaskInv
    <2>3. olTask'[t] = r /\ \A i \in OlTasks : i # t => olTask'[i] = olTask[i]
      BY <2>1 DEF OlIndInv, OlTypeOK
    <2>4. OlArrivalInv' /\ olRing' \in Seq(1..OlArrivals) /\ Head(olRing) \in 1..OlArrivals
      BY <1>1, <2>1, <2>2, <2>3, OlTakes DEF OlIndInv
    <2>5. Head(olRing) \in Nat /\ Head(olRing) # 0
      BY <2>4, OlAssumption
    <2>6. OlTypeOK'
      BY <1>1, <2>1, <2>4, <2>5 DEF OlIndInv, OlTypeOK
    <2>7. OlTaskInv'
      BY <2>1, <2>3, <2>5 DEF OlIndInv, OlTypeOK, OlTaskInv
    <2>8. QED
      BY <1>1, <2>4, <2>6, <2>7 DEF OlIndInv, OlListInv
  <1>3. CASE OlWake(t)
    <2> DEFINE r == [st |-> "FREE", pc |-> "pre", arr |-> 0]
    <2>1. /\ olTask[t].st = "WAIT_OFF" /\ olTask' = [olTask EXCEPT ![t] = r] /\ UNCHANGED olRing
          /\ olSlot' = [olSlot EXCEPT ![t].active = FALSE]
          /\ olCompleted' = [olCompleted EXCEPT ![olTask[t].arr] = olCompleted[olTask[t].arr] + 1]
      BY <1>3 DEF OlWake
    <2>2. olTask[t].arr # 0
      BY <2>1 DEF OlIndInv, OlTaskInv
    <2>3. olTask'[t] = r /\ \A i \in OlTasks : i # t => olTask'[i] = olTask[i]
      BY <2>1 DEF OlIndInv, OlTypeOK
    <2>4. OlArrivalInv' /\ olCompleted' \in [1..OlArrivals -> Nat]
      <3>1. olTask'[t].arr = 0 /\ \A i \in OlTasks : i # t => olTask'[i].arr = olTask[i].arr
        BY <2>3
      <3>2. QED
        BY <1>1, <2>1, <2>2, <3>1, OlRecords DEF OlIndInv
    <2>5. OlTypeOK'
      BY <1>1, <2>1, <2>4 DEF OlIndInv, OlTypeOK
    <2>6. OlTaskInv'
      BY <2>1, <2>3 DEF OlIndInv, OlTypeOK, OlTaskInv
    <2>7. QED
      BY <1>1, <2>4, <2>5, <2>6 DEF OlIndInv, OlListInv
  <1>4. QED
    BY <1>2, <1>3 DEF OlWorker

\* The dispatcher: free fibers take arrivals,
LEMMA OlAssignStep ==
  ASSUME OlIndInv, OlAssign
  PROVE  OlIndInv'
  <1>1. /\ olMode = "coro" /\ olBatch = <<>>
        /\ UNCHANGED <<olMode, olSeen, olDropped, olBatch, olSlot, olDev, olComp, olHead, olTail, olCompleted>>
    BY DEF OlAssign, OlIndInv, OlListInv
  <1>2. CASE ~(olRing # <<>> /\ olFree # <<>>)
    <2>1. UNCHANGED <<olFree, olRing, olTask, olReady>>
      BY <1>2 DEF OlAssign
    <2>2. OlArrivalInv'
      BY <1>1, <2>1, OlArrivalsStay DEF OlIndInv
    <2>3. QED
      BY <1>1, <2>1, <2>2 DEF OlIndInv, OlTypeOK, OlTaskInv, OlListInv
  <1>3. CASE olRing # <<>> /\ olFree # <<>>
    <2>0. /\ OlOnce(olFree) /\ OlOnce(olReady) /\ olFree \in Seq(OlTasks) /\ olReady \in Seq(OlTasks)
          /\ olTask \in [OlTasks -> [st : {"FREE", "READY", "WAIT_OFF"}, pc : {"pre", "post"}, arr : Nat]]
      BY <1>1 DEF OlIndInv, OlTypeOK, OlListInv
    <2>1. PICK t \in OlTasks : t = olFree[Len(olFree)]
      BY <1>3, <2>0, OlFrontOf
    <2>2. /\ olFree' = SubSeq(olFree, 1, Len(olFree) - 1) /\ olRing' = Tail(olRing) /\ olReady' = Append(olReady, t)
          /\ olTask' = [olTask EXCEPT ![t].arr = Head(olRing), ![t].st = "READY"]
      BY <1>3, <2>1 DEF OlAssign
    <2>3. /\ olFree' \in Seq(OlTasks) /\ OlOnce(olFree') /\ OlIn(olFree, t)
          /\ \A y : OlIn(olFree', y) <=> OlIn(olFree, y) /\ y # t
      BY <1>3, <2>0, <2>1, <2>2, OlFrontOf
    <2>4. /\ olTask[t].st = "FREE" /\ olTask[t].arr = 0 /\ ~olSlot[t].active /\ ~OlIn(olReady, t) /\ ~OlIn(olBatch, t)
      BY <1>1, <2>3 DEF OlIndInv, OlListInv, OlTaskInv
    <2>5. /\ olReady' \in Seq(OlTasks) /\ OlOnce(olReady')
          /\ \A y : OlIn(olReady', y) <=> OlIn(olReady, y) \/ y = t
      BY <2>0, <2>2, <2>4, OlAppend
    <2>6. /\ olTask'[t].arr = Head(olRing) /\ olTask'[t].st = "READY"
          /\ \A i \in OlTasks : i # t => olTask'[i] = olTask[i]
      BY <2>0, <2>2
    <2>7. OlArrivalInv' /\ olRing' \in Seq(1..OlArrivals) /\ Head(olRing) \in 1..OlArrivals
      <3>1. \A i \in OlTasks : i # t => olTask'[i].arr = olTask[i].arr
        BY <2>6
      <3>2. QED
        BY <1>1, <1>3, <2>2, <2>4, <2>6, <3>1, OlTakes DEF OlIndInv
    <2>8. Head(olRing) \in Nat /\ Head(olRing) # 0
      BY <2>7, OlAssumption
    <2>9. OlTypeOK'
      <3>1. olTask' \in [OlTasks -> [st : {"FREE", "READY", "WAIT_OFF"}, pc : {"pre", "post"}, arr : Nat]]
        <4> DEFINE r1 == [olTask[t] EXCEPT !.arr = Head(olRing)]
                   r2 == [r1 EXCEPT !.st = "READY"]
        <4>1. olTask' = [olTask EXCEPT ![t] = r2]
          BY <2>0, <2>2
        <4>2. r1 \in [st : {"FREE", "READY", "WAIT_OFF"}, pc : {"pre", "post"}, arr : Nat]
          BY <2>0, <2>8
        <4> HIDE DEF r1
        <4>3. r2 \in [st : {"FREE", "READY", "WAIT_OFF"}, pc : {"pre", "post"}, arr : Nat]
          BY <4>2
        <4> HIDE DEF r2
        <4>4. QED
          BY <2>0, <4>1, <4>3
      <3>2. QED
        BY <1>1, <2>3, <2>5, <2>7, <3>1 DEF OlIndInv, OlTypeOK
    <2>10. OlTaskInv'
      BY <1>1, <2>4, <2>6, <2>8 DEF OlIndInv, OlTaskInv
    <2>11. OlListInv'
      <3>1. ASSUME NEW i \in OlTasks
            PROVE  /\ OlIn(olFree', i) <=> olTask'[i].st = "FREE"
                   /\ OlIn(olReady', i) \/ OlIn(olBatch, i) <=> olTask'[i].st = "READY"
                   /\ ~(OlIn(olReady', i) /\ OlIn(olBatch, i))
        <4>1. CASE i = t
          BY <2>3, <2>4, <2>5, <2>6, <4>1
        <4>2. CASE i # t
          BY <1>1, <2>3, <2>5, <2>6, <4>2 DEF OlIndInv, OlListInv
        <4>3. QED
          BY <4>1, <4>2
      <3>2. OlOnce(olBatch)
        BY <1>1 DEF OlIndInv, OlListInv
      <3>3. QED
        BY <1>1, <2>3, <2>5, <3>1, <3>2 DEF OlListInv
    <2>12. QED
      BY <2>7, <2>9, <2>10, <2>11 DEF OlIndInv
  <1>4. QED
    BY <1>2, <1>3

\* completions make parked fibers ready, or the ready ones become the batch,
LEMMA OlDrainStep ==
  ASSUME OlIndInv, OlDrain
  PROVE  OlIndInv'
  <1>1. /\ olMode = "coro" /\ olBatch = <<>> /\ olAt = "drain"
        /\ UNCHANGED <<olMode, olSeen, olDropped, olRing, olFree, olDev, olComp, olHead, olCompleted>>
    BY DEF OlDrain, OlIndInv, OlListInv
  <1>2. /\ OlOnce(olReady) /\ OlOnce(olFree) /\ olReady \in Seq(OlTasks)
        /\ olTask \in [OlTasks -> [st : {"FREE", "READY", "WAIT_OFF"}, pc : {"pre", "post"}, arr : Nat]]
        /\ olSlot \in [OlTasks -> [active : BOOLEAN, done : BOOLEAN]]
        /\ \A i \in OlTasks : /\ OlIn(olFree, i) <=> olTask[i].st = "FREE"
                              /\ OlIn(olReady, i) <=> olTask[i].st = "READY"
    BY <1>1, OlEmpty DEF OlIndInv, OlTypeOK, OlListInv
  <1>3. CASE ~(olTail < olHead)
    <2>1. olBatch' = olReady /\ olReady' = <<>> /\ olAt' = "run" /\ UNCHANGED <<olTail, olTask, olSlot>>
      BY <1>3 DEF OlDrain
    <2>2. OlArrivalInv'
      BY <1>1, <2>1, OlArrivalsStay DEF OlIndInv
    <2>3. OlTypeOK' /\ OlTaskInv'
      BY <1>1, <1>2, <2>1, OlEmpty DEF OlIndInv, OlTypeOK, OlTaskInv
    <2>4. OlListInv'
      BY <1>1, <1>2, <2>1, OlEmpty DEF OlListInv
    <2>5. QED
      BY <2>2, <2>3, <2>4 DEF OlIndInv
  <1>4. CASE olTail < olHead
    <2>1. PICK t \in OlTasks : t = olComp[olTail % OlCQN]
      <3>1. olTail \in Nat /\ OlCQN \in Nat \ {0} /\ olComp \in [0..(OlCQN - 1) -> OlTasks]
        BY OlAssumption DEF OlIndInv, OlTypeOK
      <3>2. olTail % OlCQN \in 0..(OlCQN - 1)
        BY <3>1, ModRange
      <3>3. QED
        BY <3>1, <3>2
    <2>2. olTail' = olTail + 1 /\ olTail' \in Nat /\ UNCHANGED <<olAt, olBatch>>
      <3>1. olTail' = olTail + 1 /\ UNCHANGED <<olAt, olBatch>>
        BY <1>4 DEF OlDrain
      <3>2. olTail \in Nat
        BY DEF OlIndInv, OlTypeOK
      <3>3. QED
        BY <3>1, <3>2
    <2>3. CASE olTask[t].st # "WAIT_OFF"
      <3>1. UNCHANGED <<olTask, olSlot, olReady>>
        BY <1>4, <2>1, <2>3 DEF OlDrain
      <3>2. OlArrivalInv'
        BY <1>1, <3>1, OlArrivalsStay DEF OlIndInv
      <3>3. QED
        BY <1>1, <2>2, <3>1, <3>2 DEF OlIndInv, OlTypeOK, OlTaskInv, OlListInv
    <2>4. CASE olTask[t].st = "WAIT_OFF"
      <3>1. /\ olTask' = [olTask EXCEPT ![t].st = "READY"] /\ olSlot' = [olSlot EXCEPT ![t].active = FALSE]
            /\ olReady' = Append(olReady, t)
        BY <1>4, <2>1, <2>4 DEF OlDrain
      <3>2. /\ olReady' \in Seq(OlTasks) /\ OlOnce(olReady')
            /\ \A y : OlIn(olReady', y) <=> OlIn(olReady, y) \/ y = t
        BY <1>2, <2>4, <3>1, OlAppend
      <3>3. /\ olTask'[t].st = "READY" /\ \A i \in OlTasks : olTask'[i].arr = olTask[i].arr
            /\ \A i \in OlTasks : i # t => olTask'[i] = olTask[i] /\ olSlot'[i] = olSlot[i]
            /\ ~olSlot'[t].active
            /\ olTask' \in [OlTasks -> [st : {"FREE", "READY", "WAIT_OFF"}, pc : {"pre", "post"}, arr : Nat]]
            /\ olSlot' \in [OlTasks -> [active : BOOLEAN, done : BOOLEAN]]
        BY <1>2, <3>1
      <3>4. OlArrivalInv'
        BY <1>1, <3>3, OlArrivalsStay DEF OlIndInv
      <3>5. OlTypeOK'
        BY <1>1, <2>2, <3>2, <3>3 DEF OlIndInv, OlTypeOK
      <3>6. OlTaskInv'
        BY <2>4, <3>3 DEF OlIndInv, OlTaskInv
      <3>7. OlListInv'
        <4>1. ASSUME NEW i \in OlTasks
              PROVE  /\ OlIn(olFree, i) <=> olTask'[i].st = "FREE"
                     /\ OlIn(olReady', i) <=> olTask'[i].st = "READY"
          <5>1. CASE i = t
            BY <1>2, <2>4, <3>2, <3>3, <5>1
          <5>2. CASE i # t
            BY <1>2, <3>2, <3>3, <5>2
          <5>3. QED
            BY <5>1, <5>2
        <4>2. QED
          BY <1>1, <1>2, <2>2, <3>2, <4>1, OlEmpty DEF OlListInv
      <3>8. QED
        BY <3>4, <3>5, <3>6, <3>7 DEF OlIndInv
    <2>5. QED
      BY <2>3, <2>4
  <1>5. QED
    BY <1>3, <1>4

\* and the batch runs: a fiber submits and parks, or records and is free.
LEMMA OlRunStep ==
  ASSUME OlIndInv, OlRun
  PROVE  OlIndInv'
  <1>1. /\ olMode = "coro" /\ olAt = "run"
        /\ UNCHANGED <<olMode, olSeen, olDropped, olRing, olReady, olDev, olComp, olHead, olTail>>
    BY DEF OlRun
  <1>2. CASE olBatch = <<>>
    <2>1. UNCHANGED <<olBatch, olTask, olFree, olSlot, olCompleted>>
      BY <1>2 DEF OlRun
    <2>2. OlArrivalInv'
      BY <1>1, <2>1, OlArrivalsStay DEF OlIndInv
    <2>3. QED
      BY <1>1, <1>2, <2>1, <2>2 DEF OlIndInv, OlTypeOK, OlTaskInv, OlListInv
  <1>3. CASE olBatch # <<>>
    <2>1. /\ OlOnce(olReady) /\ OlOnce(olFree) /\ OlOnce(olBatch)
          /\ olBatch \in Seq(OlTasks) /\ olFree \in Seq(OlTasks)
          /\ olTask \in [OlTasks -> [st : {"FREE", "READY", "WAIT_OFF"}, pc : {"pre", "post"}, arr : Nat]]
          /\ olSlot \in [OlTasks -> [active : BOOLEAN, done : BOOLEAN]]
      BY <1>1 DEF OlIndInv, OlTypeOK, OlListInv
    <2>2. PICK t \in OlTasks : t = Head(olBatch)
      BY <1>3, <2>1, OlTailOf
    <2>3. /\ olBatch' \in Seq(OlTasks) /\ OlOnce(olBatch') /\ OlIn(olBatch, t) /\ olAt' = "run"
          /\ \A y : OlIn(olBatch', y) <=> OlIn(olBatch, y) /\ y # t
      <3>1. olBatch' = Tail(olBatch) /\ olAt' = "run"
        BY <1>1, <1>3 DEF OlRun
      <3>2. QED
        BY <1>3, <2>1, <2>2, <3>1, OlTailOf
    <2>4. /\ olTask[t].st = "READY" /\ olTask[t].arr # 0 /\ ~olSlot[t].active
          /\ ~OlIn(olReady, t) /\ ~OlIn(olFree, t)
      BY <1>1, <2>3 DEF OlIndInv, OlListInv, OlTaskInv
    <2>5. OlStep(t)
      BY <1>3, <2>2, <2>4 DEF OlRun
    <2>6. ASSUME NEW i \in OlTasks, i # t
          PROVE  /\ OlIn(olFree, i) <=> olTask[i].st = "FREE"
                 /\ OlIn(olReady', i) \/ OlIn(olBatch', i) <=> olTask[i].st = "READY"
                 /\ ~(OlIn(olReady', i) /\ OlIn(olBatch', i))
      BY <1>1, <2>3, <2>6 DEF OlIndInv, OlListInv
    <2>7. CASE olTask[t].pc = "pre"
      <3>1. /\ olSlot' = [olSlot EXCEPT ![t] = [active |-> TRUE, done |-> FALSE]]
            /\ olTask' = [olTask EXCEPT ![t].st = "WAIT_OFF", ![t].pc = "post"] /\ UNCHANGED <<olFree, olCompleted>>
        BY <2>5, <2>7 DEF OlStep, OlSubmitted
      <3>2. /\ olTask'[t].st = "WAIT_OFF" /\ \A i \in OlTasks : olTask'[i].arr = olTask[i].arr
            /\ \A i \in OlTasks : i # t => olTask'[i] = olTask[i] /\ olSlot'[i] = olSlot[i]
            /\ olSlot'[t].active
        BY <2>1, <3>1
      <3>3. olTask' \in [OlTasks -> [st : {"FREE", "READY", "WAIT_OFF"}, pc : {"pre", "post"}, arr : Nat]]
        <4> DEFINE r1 == [olTask[t] EXCEPT !.st = "WAIT_OFF"]
                   r2 == [r1 EXCEPT !.pc = "post"]
        <4>1. olTask' = [olTask EXCEPT ![t] = r2]
          BY <2>1, <3>1
        <4>2. r1 \in [st : {"FREE", "READY", "WAIT_OFF"}, pc : {"pre", "post"}, arr : Nat]
          BY <2>1
        <4> HIDE DEF r1
        <4>3. r2 \in [st : {"FREE", "READY", "WAIT_OFF"}, pc : {"pre", "post"}, arr : Nat]
          BY <4>2
        <4> HIDE DEF r2
        <4>4. QED
          BY <2>1, <4>1, <4>3
      <3>4. olSlot' \in [OlTasks -> [active : BOOLEAN, done : BOOLEAN]]
        BY <2>1, <3>1
      <3>5. OlArrivalInv'
        BY <1>1, <3>1, <3>2, OlArrivalsStay DEF OlIndInv
      <3>6. OlTypeOK'
        BY <1>1, <2>3, <3>1, <3>3, <3>4 DEF OlIndInv, OlTypeOK
      <3>7. OlTaskInv'
        BY <2>4, <3>2 DEF OlIndInv, OlTaskInv
      <3>8. OlListInv'
        <4>1. ASSUME NEW i \in OlTasks
              PROVE  /\ OlIn(olFree', i) <=> olTask'[i].st = "FREE"
                     /\ OlIn(olReady', i) \/ OlIn(olBatch', i) <=> olTask'[i].st = "READY"
                     /\ ~(OlIn(olReady', i) /\ OlIn(olBatch', i))
          <5>1. CASE i = t
            BY <1>1, <2>3, <2>4, <2>6, <3>1, <3>2, <5>1
          <5>2. CASE i # t
            <6>1. /\ OlIn(olFree, i) <=> olTask[i].st = "FREE"
                  /\ OlIn(olReady', i) \/ OlIn(olBatch', i) <=> olTask[i].st = "READY"
                  /\ ~(OlIn(olReady', i) /\ OlIn(olBatch', i))
              BY <2>6, <5>2
            <6>2. olTask'[i] = olTask[i] /\ olFree' = olFree
              BY <3>1, <3>2, <5>2
            <6>3. QED
              BY <6>1, <6>2
          <5>3. QED
            BY <5>1, <5>2
        <4>2. QED
          BY <1>1, <2>1, <2>3, <3>1, <4>1 DEF OlListInv
      <3>9. QED
        BY <3>5, <3>6, <3>7, <3>8 DEF OlIndInv
    <2>8. CASE olTask[t].pc # "pre"
      <3> DEFINE r == [st |-> "FREE", pc |-> "pre", arr |-> 0]
      <3>1. /\ olCompleted' = [olCompleted EXCEPT ![olTask[t].arr] = olCompleted[olTask[t].arr] + 1]
            /\ olTask' = [olTask EXCEPT ![t] = r] /\ olFree' = Append(olFree, t) /\ UNCHANGED olSlot
        BY <2>5, <2>8 DEF OlStep
      <3>2. olTask'[t] = r /\ \A i \in OlTasks : i # t => olTask'[i] = olTask[i]
        BY <2>1, <3>1
      <3>3. OlArrivalInv' /\ olCompleted' \in [1..OlArrivals -> Nat]
        <4>1. olTask'[t].arr = 0 /\ \A i \in OlTasks : i # t => olTask'[i].arr = olTask[i].arr
          BY <3>2
        <4>2. QED
          BY <1>1, <2>4, <3>1, <4>1, OlRecords DEF OlIndInv
      <3>4. /\ olFree' \in Seq(OlTasks) /\ OlOnce(olFree')
            /\ \A y : OlIn(olFree', y) <=> OlIn(olFree, y) \/ y = t
        BY <2>1, <2>4, <3>1, OlAppend
      <3>5. OlTypeOK'
        <4>1. olTask' \in [OlTasks -> [st : {"FREE", "READY", "WAIT_OFF"}, pc : {"pre", "post"}, arr : Nat]]
          BY <2>1, <3>1
        <4>2. QED
          BY <1>1, <2>3, <3>1, <3>3, <3>4, <4>1 DEF OlIndInv, OlTypeOK
      <3>6. OlTaskInv'
        BY <2>4, <3>1, <3>2 DEF OlIndInv, OlTaskInv
      <3>7. OlListInv'
        <4>1. \A i \in OlTasks : /\ OlIn(olFree', i) <=> olTask'[i].st = "FREE"
                                 /\ OlIn(olReady', i) \/ OlIn(olBatch', i) <=> olTask'[i].st = "READY"
                                 /\ ~(OlIn(olReady', i) /\ OlIn(olBatch', i))
          BY <1>1, <2>3, <2>4, <2>6, <3>2, <3>4
        <4>2. QED
          BY <1>1, <2>1, <2>3, <3>4, <4>1 DEF OlListInv
      <3>8. QED
        BY <3>3, <3>5, <3>6, <3>7 DEF OlIndInv
    <2>9. QED
      BY <2>7, <2>8
  <1>4. QED
    BY <1>2, <1>3

LEMMA OlNextInv == OlIndInv /\ [OlNext]_olVars => OlIndInv'
  <1> SUFFICES ASSUME OlIndInv, [OlNext]_olVars PROVE OlIndInv'
    OBVIOUS
  <1>1. CASE UNCHANGED olVars
    <2>1. UNCHANGED <<olMode, olSeen, olDropped, olRing, olTask, olFree, olReady, olBatch, olSlot, olDev,
                      olComp, olHead, olTail, olAt, olCompleted>>
      BY <1>1 DEF olVars
    <2>2. OlArrivalInv'
      BY <2>1, OlArrivalsStay DEF OlIndInv
    <2>3. QED
      BY <2>1, <2>2 DEF OlIndInv, OlTypeOK, OlTaskInv, OlListInv
  <1>2. QED
    BY <1>1, OlArriveStep, OlDeviceStep, OlWorkerStep, OlAssignStep, OlDrainStep, OlRunStep DEF OlNext, OlServe

\* The device's reports: the ring is not read beyond its head, and holds what the
\* device has done.
OlCompInv == olTail <= olHead /\ OlReported

LEMMA OlCompSame ==
  ASSUME OlCompInv, UNCHANGED <<olMode, olSlot, olDev, olComp, olHead, olTail>>
  PROVE  OlCompInv'
  BY DEF OlCompInv, OlReported, OlPending, OlEntry

\* There is room for the device's report: the requests that the dispatcher has
\* still to take in are other fibers'.
LEMMA OlRoom ==
  ASSUME OlTypeOK, OlCompInv, olMode = "coro", olDev # 0
  PROVE  olHead - olTail < OlCQN
  <1> DEFINE F == [k \in OlPending |-> OlEntry(k)]
             T == OlTasks \ {olDev}
  <1>0. /\ olTail \in Nat /\ olHead \in Nat /\ OlPool \in Nat /\ OlCQN \in Nat \ {0} /\ OlCQN >= OlPool
        /\ olDev \in OlTasks /\ olComp \in [0..(OlCQN - 1) -> OlTasks]
    BY OlAssumption DEF OlTypeOK, OlTasks
  <1>1. \A k \in OlPending : OlEntry(k) \in T
    <2>1. ASSUME NEW k \in OlPending PROVE OlEntry(k) \in OlTasks
      <3>1. k \in Nat
        BY <1>0 DEF OlPending
      <3>2. k % OlCQN \in 0..(OlCQN - 1)
        BY <1>0, <3>1, ModRange
      <3>3. QED
        BY <1>0, <3>2 DEF OlEntry
    <2>2. QED
      BY <2>1 DEF OlCompInv, OlReported
  <1>2. F \in Injection(OlPending, T)
    <2>1. F \in [OlPending -> T]
      BY <1>1
    <2>2. \A k, l \in OlPending : F[k] = F[l] => k = l
      BY DEF OlCompInv, OlReported
    <2>3. QED
      BY <2>1, <2>2 DEF Injection, IsInjective
  <1>3. IsFiniteSet(OlTasks) /\ Cardinality(OlTasks) = OlPool
    <2>1. 1 \in Int /\ OlPool \in Int
      BY <1>0
    <2>2. Cardinality(1..OlPool) = (IF 1 > OlPool THEN 0 ELSE OlPool - 1 + 1) /\ IsFiniteSet(1..OlPool)
      BY <2>1, FS_Interval
    <2>3. QED
      BY <1>0, <2>2 DEF OlTasks
  <1>4. IsFiniteSet(T) /\ Cardinality(T) = OlPool - 1
    BY <1>0, <1>3, FS_RemoveElement
  <1>5. Cardinality(OlPending) <= OlPool - 1
    BY <1>2, <1>4, FS_Injection
  <1>6. Cardinality(OlPending) = IF olTail > olHead - 1 THEN 0 ELSE (olHead - 1) - olTail + 1
    <2>1. olTail \in Int /\ olHead - 1 \in Int
      BY <1>0
    <2>2. QED
      BY <2>1, FS_Interval DEF OlPending
  <1>7. QED
    BY <1>0, <1>5, <1>6

\* The device marks a request done ...
LEMMA OlDevDoneComp ==
  ASSUME OlTypeOK, OlCompInv, NEW i \in OlTasks, OlDevDone(i)
  PROVE  OlCompInv'
  <1>1. /\ olDev = 0 /\ olDev' = i /\ ~olSlot[i].done
        /\ UNCHANGED <<olMode, olComp, olHead, olTail>> /\ i # 0
    BY OlAssumption DEF OlDevDone, OlTasks
  <1>2. \A j \in OlTasks : IF j = i THEN olSlot'[j].active /\ olSlot'[j].done ELSE olSlot'[j] = olSlot[j]
    BY DEF OlDevDone, OlTypeOK
  <1>3. olMode = "coro" => \A k \in OlPending : OlEntry(k) # i
    BY <1>1 DEF OlCompInv, OlReported
  <1>4. OlPending' = OlPending /\ \A k : OlEntry(k)' = OlEntry(k)
    BY <1>1 DEF OlPending, OlEntry
  <1>5. \A j \in OlTasks : j # olDev
    BY <1>1, OlAssumption DEF OlTasks
  <1>6. QED
    BY <1>1, <1>2, <1>3, <1>4, <1>5 DEF OlCompInv, OlReported

\* ... and reports it at a place of the ring that no pending entry has.
LEMMA OlDevPushComp ==
  ASSUME OlTypeOK, OlCompInv, OlDevPush
  PROVE  OlCompInv'
  <1>1. /\ olTail \in Nat /\ olHead \in Nat /\ olTail <= olHead /\ OlCQN \in Nat \ {0}
        /\ olComp \in [0..(OlCQN - 1) -> OlTasks]
    BY OlAssumption DEF OlTypeOK, OlCompInv
  <1>2. /\ olDev # 0 /\ olDev' = 0 /\ olHead' = olHead + 1 /\ UNCHANGED <<olMode, olSlot, olTail>>
        /\ olComp' = [olComp EXCEPT ![olHead % OlCQN] = olDev]
    BY DEF OlDevPush
  <1>3. OlPending' = OlPending \cup {olHead}
    BY <1>1, <1>2 DEF OlPending
  <1>4. olTail' <= olHead'
    BY <1>1, <1>2
  <1>5. ASSUME olMode = "coro" PROVE OlReported'
    <2>1. olHead - olTail < OlCQN
      BY <1>2, <1>5, OlRoom
    <2> DEFINE E(k) == olComp'[k % OlCQN]
    <2>0. \A k : OlEntry(k)' = E(k)
      BY DEF OlEntry
    <2>2. E(olHead) = olDev
      <3>1. olHead % OlCQN \in 0..(OlCQN - 1)
        BY <1>1, ModRange
      <3>2. QED
        BY <1>1, <1>2, <3>1
    <2>3. ASSUME NEW k \in OlPending PROVE E(k) = OlEntry(k) /\ k # olHead
      <3>1. k \in Nat /\ k < olHead /\ olHead < k + OlCQN
        BY <1>1, <2>1 DEF OlPending
      <3>2. k % OlCQN # olHead % OlCQN
        BY <1>1, <3>1, RingSlotsDiffer
      <3>3. k % OlCQN \in 0..(OlCQN - 1)
        BY <1>1, <3>1, ModRange
      <3>4. olComp'[k % OlCQN] = olComp[k % OlCQN]
        BY <1>1, <1>2, <3>2, <3>3
      <3>5. QED
        BY <3>1, <1>1, <3>4 DEF OlEntry
    <2> HIDE DEF E
    <2>4. \A k \in OlPending : OlEntry(k) # olDev
      BY <1>5 DEF OlCompInv, OlReported
    <2>5. \A k, l \in OlPending' : OlEntry(k)' = OlEntry(l)' => k = l
      BY <1>3, <1>5, <2>0, <2>2, <2>3, <2>4 DEF OlCompInv, OlReported
    <2>6. \A k \in OlPending' : OlEntry(k)' # olDev'
      <3>1. ASSUME NEW k \in OlPending PROVE OlEntry(k) # 0
        <4>1. k \in Nat
          BY <1>1 DEF OlPending
        <4>2. k % OlCQN \in 0..(OlCQN - 1)
          BY <1>1, <4>1, ModRange
        <4>3. QED
          BY <1>1, <4>2, OlAssumption DEF OlEntry, OlTasks
      <3>2. QED
        BY <1>2, <1>3, <2>0, <2>2, <2>3, <3>1
    <2>7. ASSUME NEW i \in OlTasks
          PROVE  olSlot'[i].active /\ olSlot'[i].done <=> olDev' = i \/ \E k \in OlPending' : OlEntry(k)' = i
      <3>1. i # 0
        BY OlAssumption DEF OlTasks
      <3>2. olSlot[i].active /\ olSlot[i].done <=> olDev = i \/ \E k \in OlPending : OlEntry(k) = i
        BY <1>5 DEF OlCompInv, OlReported
      <3>3. (\E k \in OlPending' : OlEntry(k)' = i) <=> olDev = i \/ \E k \in OlPending : OlEntry(k) = i
        BY <1>3, <2>0, <2>2, <2>3
      <3>4. QED
        BY <1>2, <3>1, <3>2, <3>3
    <2>8. QED
      BY <2>5, <2>6, <2>7 DEF OlReported
  <1>6. QED
    BY <1>2, <1>4, <1>5 DEF OlCompInv, OlReported

\* The dispatcher takes in an entry: its fiber is parked, and no other entry is
\* that fiber's.
LEMMA OlDrainComp ==
  ASSUME OlIndInv, OlCompInv, OlDrain
  PROVE  OlCompInv'
  <1>1. olMode = "coro" /\ olTail \in Nat /\ olHead \in Nat /\ UNCHANGED <<olMode, olDev, olComp, olHead>>
    BY DEF OlDrain, OlIndInv, OlTypeOK
  <1>2. CASE ~(olTail < olHead)
    BY <1>1, <1>2, OlCompSame DEF OlDrain
  <1>3. CASE olTail < olHead
    <2> DEFINE id == OlEntry(olTail)
    <2>1. olTail \in OlPending /\ OlPending' = OlPending \ {olTail} /\ olTail' = olTail + 1
      BY <1>1, <1>3 DEF OlDrain, OlPending
    <2>2. id \in OlTasks
      <3>1. olTail % OlCQN \in 0..(OlCQN - 1)
        BY <1>1, OlAssumption, ModRange
      <3>2. QED
        BY <3>1 DEF OlIndInv, OlTypeOK, OlEntry
    <2>3. olSlot[id].active /\ olSlot[id].done /\ id # olDev /\ \A k \in OlPending : OlEntry(k) = id => k = olTail
      BY <1>1, <2>1, <2>2 DEF OlCompInv, OlReported
    <2>4. olTask[id].st = "WAIT_OFF"
      BY <2>2, <2>3 DEF OlIndInv, OlTaskInv
    <2>5. olSlot' = [olSlot EXCEPT ![id].active = FALSE]
      BY <1>3, <2>4 DEF OlDrain, OlEntry
    <2>6. \A j \in OlTasks : IF j = id THEN ~olSlot'[j].active ELSE olSlot'[j] = olSlot[j]
      BY <2>2, <2>5 DEF OlIndInv, OlTypeOK
    <2>7. \A k : OlEntry(k)' = OlEntry(k)
      BY <1>1 DEF OlEntry
    <2>8. olTail' <= olHead'
      BY <1>1, <1>3, <2>1
    <2> HIDE DEF id
    <2>9. OlReported'
      <3>1. \A k, l \in OlPending' : OlEntry(k)' = OlEntry(l)' => k = l
        BY <1>1, <2>1, <2>7 DEF OlCompInv, OlReported
      <3>2. \A k \in OlPending' : OlEntry(k)' # olDev'
        BY <1>1, <2>1, <2>7 DEF OlCompInv, OlReported
      <3>3. ASSUME NEW i \in OlTasks
            PROVE  olSlot'[i].active /\ olSlot'[i].done <=> olDev' = i \/ \E k \in OlPending' : OlEntry(k)' = i
        <4>1. CASE i = id
          BY <1>1, <2>1, <2>3, <2>6, <2>7, <4>1
        <4>2. CASE i # id
          <5>1. OlEntry(olTail) # i
            BY <4>2 DEF id
          <5>2. QED
            BY <1>1, <2>1, <2>6, <2>7, <4>2, <5>1 DEF OlCompInv, OlReported
        <4>3. QED
          BY <4>1, <4>2
      <3>4. QED
        BY <3>1, <3>2, <3>3 DEF OlReported
    <2>10. QED
      BY <2>8, <2>9 DEF OlCompInv
  <1>4. QED
    BY <1>2, <1>3

\* A fiber that submits was not parked, so that it has no report.
LEMMA OlRunComp ==
  ASSUME OlIndInv, OlCompInv, OlRun
  PROVE  OlCompInv'
  <1>1. olMode = "coro" /\ UNCHANGED <<olMode, olDev, olComp, olHead, olTail>>
    BY DEF OlRun
  <1>2. CASE UNCHANGED olSlot
    BY <1>1, <1>2, OlCompSame
  <1>3. CASE olSlot' # olSlot
    <2>1. PICK t : olTask[t].st = "READY" /\ olSlot' = OlSubmitted(t) /\ olBatch # <<>> /\ t = Head(olBatch)
      BY <1>3 DEF OlRun, OlStep
    <2>2. t \in OlTasks
      BY <2>1 DEF OlIndInv, OlTypeOK
    <2>3. ~olSlot[t].active
      BY <2>1, <2>2 DEF OlIndInv, OlTaskInv
    <2>4. \A j \in OlTasks : IF j = t THEN ~olSlot'[j].done ELSE olSlot'[j] = olSlot[j]
      BY <2>1, <2>2 DEF OlSubmitted, OlIndInv, OlTypeOK
    <2>5. OlPending' = OlPending /\ \A k : OlEntry(k)' = OlEntry(k)
      BY <1>1 DEF OlPending, OlEntry
    <2>6. OlReported'
      BY <1>1, <2>2, <2>3, <2>4, <2>5 DEF OlCompInv, OlReported
    <2>7. QED
      BY <1>1, <2>6 DEF OlCompInv
  <1>4. QED
    BY <1>2, <1>3

LEMMA OlNextComp == OlIndInv /\ OlCompInv /\ [OlNext]_olVars => OlCompInv'
  <1> SUFFICES ASSUME OlIndInv, OlCompInv, [OlNext]_olVars PROVE OlCompInv'
    OBVIOUS
  <1>1. OlTypeOK
    BY DEF OlIndInv
  <1>2. CASE UNCHANGED olVars
    BY <1>2, OlCompSame DEF olVars
  <1>3. CASE OlArrive
    BY <1>3, OlCompSame DEF OlArrive
  <1>4. CASE OlAssign
    BY <1>4, OlCompSame DEF OlAssign
  <1>5. ASSUME NEW t \in OlTasks, OlWorker(t) PROVE OlCompInv'
    BY <1>5 DEF OlWorker, OlPop, OlWake, OlCompInv, OlReported
  <1>6. QED
    BY <1>1, <1>2, <1>3, <1>4, <1>5, OlDevDoneComp, OlDevPushComp, OlDrainComp, OlRunComp
    DEF OlNext, OlServe, OlDevice

LEMMA OlInitComp == OlInit => OlCompInv
  <1> SUFFICES ASSUME OlInit PROVE OlCompInv
    OBVIOUS
  <1>1. OlPending = {} /\ olTail <= olHead
    BY DEF OlInit, OlPending
  <1>2. \A i \in OlTasks : i # 0 /\ ~olSlot[i].active
    BY OlAssumption DEF OlInit, OlTasks
  <1>3. olDev = 0
    BY DEF OlInit
  <1>4. QED
    BY <1>1, <1>2, <1>3 DEF OlCompInv, OlReported

\* How often an entry is in a queue without repetition.
LEMMA OlCount ==
  ASSUME NEW q, NEW x, OlOnce(q)
  PROVE  Cardinality({k \in 1..Len(q) : q[k] = x}) = IF OlIn(q, x) THEN 1 ELSE 0
  <1> DEFINE S == {k \in 1..Len(q) : q[k] = x}
  <1>1. \A k, l \in S : k = l
    BY DEF OlOnce
  <1>2. S # {} <=> OlIn(q, x)
    BY DEF OlIn
  <1> HIDE DEF S
  <1>3. Cardinality(S) = IF S = {} THEN 0 ELSE 1
    BY <1>1, AtMostOne
  <1>4. Cardinality(S) = IF OlIn(q, x) THEN 1 ELSE 0
    BY <1>2, <1>3
  <1>5. QED
    BY <1>4 DEF S

\* producer(), srv_coro() and block_worker() with a device that reports: for any
\* pool, ring and load no arrival is lost, served twice or kept by two fibers,
\* no fiber is on two lists, a fiber is parked exactly while its slot is active,
\* and comp_ring holds each parked fiber whose offload is done, once, and no other.
THEOREM OlCorrect == OlSpec => []OlPlaces
  <1>1. ASSUME OlIndInv, OlCompInv PROVE OlPlaces
    <2>1. ASSUME NEW a \in 1..olSeen
          PROVE  Cardinality({k \in 1..Len(olRing) : olRing[k] = a}) + Cardinality({i \in OlTasks : olTask[i].arr = a})
                 + olCompleted[a] + (IF a \in olDropped THEN 1 ELSE 0) = 1
      <3> DEFINE H == {i \in OlTasks : olTask[i].arr = a}
                 c == Cardinality({k \in 1..Len(olRing) : olRing[k] = a})
                 h == Cardinality(H)
      <3>1. a \in 1..OlArrivals /\ a <= olSeen /\ a # 0
        BY <1>1, OlAssumption DEF OlIndInv, OlTypeOK
      <3>2. OlPlace(a)
        BY <1>1, <3>1 DEF OlIndInv, OlArrivalInv
      <3>3. c = IF OlIn(olRing, a) THEN 1 ELSE 0
        BY <1>1, OlCount DEF OlIndInv, OlArrivalInv
      <3>4. h = IF OlHeld(a) THEN 1 ELSE 0
        <4>1. \A i, j \in H : i = j
          BY <1>1, <3>1 DEF OlIndInv, OlArrivalInv
        <4>2. H # {} <=> OlHeld(a)
          BY DEF OlHeld
        <4> HIDE DEF H
        <4>3. Cardinality(H) = IF H = {} THEN 0 ELSE 1
          BY <4>1, AtMostOne
        <4>4. QED
          BY <4>2, <4>3
      <3> HIDE DEF c, h
      <3>5. c + h + olCompleted[a] + (IF a \in olDropped THEN 1 ELSE 0) = 1
        BY <3>2, <3>3, <3>4 DEF OlPlace
      <3>6. QED
        BY <3>5 DEF c, h, H
    <2>2. ASSUME olMode = "coro", NEW i \in OlTasks
          PROVE  Cardinality({k \in 1..Len(olFree) : olFree[k] = i}) + Cardinality({k \in 1..Len(olReady) : olReady[k] = i})
                 + Cardinality({k \in 1..Len(olBatch) : olBatch[k] = i})
                 + (IF olTask[i].st = "WAIT_OFF" THEN 1 ELSE 0) = 1
      <3> DEFINE f == Cardinality({k \in 1..Len(olFree) : olFree[k] = i})
                 r == Cardinality({k \in 1..Len(olReady) : olReady[k] = i})
                 b == Cardinality({k \in 1..Len(olBatch) : olBatch[k] = i})
      <3>1. /\ f = IF OlIn(olFree, i) THEN 1 ELSE 0
            /\ r = IF OlIn(olReady, i) THEN 1 ELSE 0
            /\ b = IF OlIn(olBatch, i) THEN 1 ELSE 0
        BY <1>1, <2>2, OlCount DEF OlIndInv, OlListInv
      <3> HIDE DEF f, r, b
      <3>2. /\ olTask[i].st \in {"FREE", "READY", "WAIT_OFF"}
            /\ OlIn(olFree, i) <=> olTask[i].st = "FREE"
            /\ OlIn(olReady, i) \/ OlIn(olBatch, i) <=> olTask[i].st = "READY"
            /\ ~(OlIn(olReady, i) /\ OlIn(olBatch, i))
        BY <1>1, <2>2 DEF OlIndInv, OlListInv, OlTypeOK
      <3>3. f + r + b + (IF olTask[i].st = "WAIT_OFF" THEN 1 ELSE 0) = 1
        BY <3>1, <3>2
      <3>4. QED
        BY <3>3 DEF f, r, b
    <2>3. OlOnePlace
      BY <2>1, <2>2 DEF OlOnePlace
    <2>4. OlParkedOnSlot
      BY <1>1 DEF OlIndInv, OlTaskInv, OlParkedOnSlot
    <2>5. QED
      BY <1>1, <2>3, <2>4 DEF OlPlaces, OlCompInv
  <1>2. QED
    BY <1>1, OlInitInv, OlNextInv, OlInitComp, OlNextComp, PTL DEF OlSpec

-----------------------------------------------------------------------------
(* The TCO servers and their clients. *)


TcChunks == Seq(Nat \X Nat)
TcConns ==
    [st : {"none", "RUNNABLE", "WAIT_IO", "WAIT_OFF", "thread", "closed"},
     pc : {"read", "offload", "result", "write"}, armed : {"no", "in", "out"},
     buf : TcChunks, put : Nat, seq : Nat, enc : Nat, mask : Nat]
TcReplyChunks == [r : [n : Nat, enc : Nat, mask : Nat], h : Nat]

TcTypeOK ==
    /\ tcMode \in {"coro", "block"} /\ tcDev \in {"emu", "gpu"} /\ tcBefore \in {0, TcMAXCONN - 1}
    /\ tcCli \in [TcClient -> [ph : {"new", "send", "recv", "idle", "out"}, round : Nat, n : Nat, bad : BOOLEAN]]
    /\ tcIn \in [TcClient -> TcChunks] /\ tcOut \in [TcClient -> Seq(TcReplyChunks)]
    /\ tcBacklog \in Seq(TcClient) /\ tcTab \in Seq(TcClient)
    /\ tcConn \in [TcClient -> TcConns]
    /\ tcSlot \in [0..(TcMAXCONN - 1) -> [active : BOOLEAN, done : BOOLEAN]]
    /\ tcAt \in Nat /\ tcCur \in TcClient \cup {"sched"}

\* A connection is new, in the backlog, or in the table; with one of these once.
\* What is not in the table has not been served.
TcTabInv ==
    /\ \A i, j \in 1..Len(tcTab) : tcTab[i] = tcTab[j] => i = j
    /\ \A i, j \in 1..Len(tcBacklog) : tcBacklog[i] = tcBacklog[j] => i = j
    /\ \A i \in 1..Len(tcBacklog) : tcConn[tcBacklog[i]].st = "none" /\ tcCli[tcBacklog[i]].ph # "new"
    /\ \A i \in 1..Len(tcTab) : tcConn[tcTab[i]].st # "none"
    /\ \A c \in TcClient : tcCli[c].ph = "new" => tcConn[c].st = "none"
    /\ \A c \in TcClient : (\A i \in 1..Len(tcTab) : tcTab[i] # c) =>
           tcConn[c].st \in {"none", "closed"} /\ tcConn[c].pc = "read"
    /\ TcCoro => tcBefore + Len(tcTab) <= TcMAXCONN

\* The running fiber is runnable; threads belong to the other mode.
TcRunInv ==
    /\ tcCur # "sched" => TcCoro /\ tcConn[tcCur].st = "RUNNABLE"
    /\ \A c \in TcClient : TcCoro => tcConn[c].st # "thread"

\* The place in serve() and the buffer.
TcPlaceInv(c) ==
    LET k == tcConn[c]
    IN  /\ IF k.pc = "read" THEN Len(k.buf) < 2 ELSE Len(k.buf) = 2
        /\ k.put \in 0..1 /\ (k.pc # "write" => k.put = 0)
        /\ k.pc = "offload" => k.enc = 0
        /\ k.pc = "result" /\ tcDev = "emu" => k.enc = 0
        /\ k.pc = "write" => k.enc = 1
        /\ k.pc \in {"offload", "result"} \/ (k.pc = "write" /\ tcDev = "gpu") => k.mask = 0

\* The slot of the j-th connection in the table.
TcPlace(j) == (tcBefore + j - 1) % TcMAXCONN

\* The slot of a connection, seen from it: it has work only while the fiber
\* waits; on the GPU a result is there exactly when the event is done.
TcSlotOf(j) ==
    LET k == tcConn[tcTab[j]]
        x == tcSlot[TcPlace(j)]
    IN  /\ TcCoro /\ k.st = "WAIT_OFF" => k.pc = "result" /\ (tcDev = "emu" => x.active)
        /\ TcCoro /\ x.active => k.st = "WAIT_OFF"
        /\ tcDev = "gpu" /\ k.pc = "result" => IF x.active THEN ~x.done /\ k.enc = 0 ELSE x.done /\ k.enc = 1

TcSlotInv ==
    /\ TcCoro => \A i \in 0..(TcMAXCONN - 1) : tcSlot[i].active => \E j \in 1..Len(tcTab) : i = TcPlace(j)
    /\ \A j \in 1..Len(tcTab) : TcSlotOf(j)

TcPipeOf == IF tcDev = "emu" THEN TcPipe ELSE 1
TcBytes(k) == <<k \div 2, k % 2>>
TcAnswer(k, masked) == [r |-> [n |-> k \div 2, enc |-> 1, mask |-> IF masked THEN k \div 2 ELSE 0], h |-> k % 2]

\* Chunks that the client has read and written, over all rounds.
TcGot(c) == 2 * (tcCli[c].round * TcPipeOf) + (IF tcCli[c].ph = "recv" THEN tcCli[c].n ELSE 0)
TcSent(c) ==
    2 * (tcCli[c].round * TcPipeOf) + (IF tcCli[c].ph = "send" THEN tcCli[c].n
                                       ELSE IF tcCli[c].ph = "recv" THEN 2 * TcPipeOf ELSE 0)

\* The number of the chunk that buf begins with.
TcFirst(c) == TcGot(c) + Len(tcOut[c]) - tcConn[c].put

\* From the client's reads back to its writes, what is in tcOut, in buf and in
\* tcIn is one run of consecutive chunks; the mask counts along with it.
TcStreamInv(c) ==
    LET k == tcConn[c]
        b == TcFirst(c)
    IN  tcCli[c].ph # "out" =>
            /\ tcCli[c].ph \in {"new", "idle"} => tcCli[c].n = 0
            /\ b \in Nat /\ b % 2 = 0
            /\ \A i \in 1..Len(tcOut[c]) : tcOut[c][i] = TcAnswer(TcGot(c) + i - 1, tcDev = "emu")
            /\ \A i \in 1..Len(k.buf) : k.buf[i] = TcBytes(b + i - 1)
            /\ \A i \in 1..Len(tcIn[c]) : tcIn[c][i] = TcBytes(b + Len(k.buf) + i - 1)
            /\ TcSent(c) = b + Len(k.buf) + Len(tcIn[c])
            /\ tcDev = "emu" => 2 * k.seq = b + (IF k.pc = "write" THEN 2 ELSE 0)
            /\ tcDev = "emu" /\ k.pc = "write" => 2 * k.mask = b

TcIndInv ==
    /\ TcTypeOK /\ TcTabInv /\ TcRunInv
    /\ \A c \in TcClient : TcPlaceInv(c) /\ TcStreamInv(c)
    /\ TcSlotInv /\ TcNoneBad

(* What the steps of serve() do to the connection. *)

\* The fiber that runs, or a thread.
TcLive(c) == IF TcCoro THEN tcCur = c /\ tcConn[c].st = "RUNNABLE" ELSE tcConn[c].st = "thread"

\* The connection's record but for its state and its count of transformations.
TcSame(c) ==
    /\ tcConn'[c].pc = tcConn[c].pc /\ tcConn'[c].buf = tcConn[c].buf /\ tcConn'[c].put = tcConn[c].put
    /\ tcConn'[c].seq = tcConn[c].seq /\ tcConn'[c].mask = tcConn[c].mask

\* One connection's record becomes k.
LEMMA TcConnBecomes ==
  ASSUME TcTypeOK, NEW c \in TcClient, NEW k \in TcConns, tcConn' = [tcConn EXCEPT ![c] = k]
  PROVE  /\ tcConn' \in [TcClient -> TcConns] /\ tcConn'[c] = k
         /\ \A d \in TcClient : d # c => tcConn'[d] = tcConn[d]
  BY DEF TcTypeOK

LEMMA TcConnType ==
  ASSUME TcTypeOK, NEW c \in TcClient
  PROVE  /\ tcConn[c] \in TcConns /\ tcConn[c].buf \in TcChunks /\ tcConn[c].put \in Nat /\ tcConn[c].seq \in Nat
         /\ tcConn[c].enc \in Nat /\ tcConn[c].mask \in Nat
         /\ tcConn[c].st \in {"none", "RUNNABLE", "WAIT_IO", "WAIT_OFF", "thread", "closed"}
         /\ tcConn[c].pc \in {"read", "offload", "result", "write"}
  BY DEF TcTypeOK, TcConns

\* co_read_n(): a chunk is moved to buf, or the fiber waits, or the connection
\* is closed.
LEMMA TcReadStep ==
  ASSUME TcTypeOK, NEW c \in TcClient, TcRead(c)
  PROVE  /\ tcConn[c].pc = "read" /\ tcConn' \in [TcClient -> TcConns]
         /\ \A d \in TcClient : d # c => tcConn'[d] = tcConn[d]
         /\ \/ /\ tcIn[c] # <<>> /\ tcIn' = [tcIn EXCEPT ![c] = Tail(@)] /\ tcCur' = tcCur
               /\ tcConn'[c].st = tcConn[c].st /\ tcConn'[c].buf = Append(tcConn[c].buf, Head(tcIn[c]))
               /\ tcConn'[c].pc = IF Len(tcConn[c].buf) = 1 THEN "offload" ELSE "read"
               /\ tcConn'[c].put = tcConn[c].put /\ tcConn'[c].seq = tcConn[c].seq
               /\ tcConn'[c].enc = 0 /\ tcConn'[c].mask = 0
            \/ /\ tcIn' = tcIn /\ tcCur' = "sched" /\ TcSame(c) /\ tcConn'[c].enc = tcConn[c].enc
               /\ tcConn'[c].st = "closed" \/ (TcCoro /\ tcConn'[c].st = "WAIT_IO")
  <1> DEFINE k == tcConn[c]
  <1>1. k \in TcConns /\ k.pc = "read" /\ k.buf \in TcChunks /\ tcIn[c] \in TcChunks
    BY DEF TcRead, TcTypeOK, TcConns
  <1>2. CASE tcIn[c] # <<>>
    <2> DEFINE b == Append(k.buf, Head(tcIn[c]))
               p == IF Len(k.buf) = 1 THEN "offload" ELSE k.pc
               n == [[[[k EXCEPT !.buf = b] EXCEPT !.pc = p] EXCEPT !.enc = 0] EXCEPT !.mask = 0]
    <2>1. b \in TcChunks
      BY <1>1, <1>2 DEF TcChunks
    <2>2. p \in {"read", "offload", "result", "write"} /\ p = IF Len(k.buf) = 1 THEN "offload" ELSE "read"
      BY <1>1
    <2>3. tcConn' = [tcConn EXCEPT ![c] = n] /\ tcIn' = [tcIn EXCEPT ![c] = Tail(@)] /\ tcCur' = tcCur
      BY <1>2, <1>1 DEF TcRead, TcConns
    <2> HIDE DEF b, p
    <2>4. n \in TcConns /\ n.st = k.st /\ n.buf = b /\ n.pc = p /\ n.put = k.put /\ n.seq = k.seq /\ n.enc = 0 /\ n.mask = 0
      BY <1>1, <2>1, <2>2 DEF TcConns
    <2> HIDE DEF n
    <2>5. tcConn' \in [TcClient -> TcConns] /\ tcConn'[c] = n /\ \A d \in TcClient : d # c => tcConn'[d] = tcConn[d]
      BY <2>3, <2>4 DEF TcTypeOK
    <2>6. QED
      BY <1>1, <1>2, <2>2, <2>3, <2>4, <2>5 DEF b
  <1>3. CASE tcIn[c] = <<>>
    <2> DEFINE n == IF tcCli[c].ph = "out" THEN [k EXCEPT !.st = "closed", !.armed = "no"] ELSE TcYieldIo(c, "in")
    <2>1. /\ tcConn' = [tcConn EXCEPT ![c] = n] /\ tcIn' = tcIn /\ tcCur' = "sched"
          /\ TcCoro \/ tcCli[c].ph = "out"
      BY <1>3 DEF TcRead
    <2>2. /\ n \in TcConns /\ n.pc = k.pc /\ n.buf = k.buf /\ n.put = k.put /\ n.seq = k.seq
          /\ n.mask = k.mask /\ n.enc = k.enc
          /\ IF tcCli[c].ph = "out" THEN n.st = "closed" ELSE n.st = "WAIT_IO"
      BY <1>1 DEF TcYieldIo, TcConns
    <2> HIDE DEF n
    <2>3. tcConn' \in [TcClient -> TcConns] /\ tcConn'[c] = n /\ \A d \in TcClient : d # c => tcConn'[d] = tcConn[d]
      BY <2>1, <2>2 DEF TcTypeOK
    <2>4. QED
      BY <1>1, <2>1, <2>2, <2>3 DEF TcSame
  <1>4. QED
    BY <1>2, <1>3

\* co_offload() before it parks.
LEMMA TcOffloadStep ==
  ASSUME TcTypeOK, NEW c \in TcClient, TcOffload(c)
  PROVE  /\ tcConn[c].pc = "offload" /\ tcConn' \in [TcClient -> TcConns]
         /\ \A d \in TcClient : d # c => tcConn'[d] = tcConn[d]
         /\ tcConn'[c].pc = "result" /\ tcConn'[c].st = IF TcCoro THEN "WAIT_OFF" ELSE tcConn[c].st
         /\ tcConn'[c].buf = tcConn[c].buf /\ tcConn'[c].put = tcConn[c].put
         /\ tcConn'[c].seq = tcConn[c].seq /\ tcConn'[c].mask = tcConn[c].mask /\ tcConn'[c].enc = tcConn[c].enc
  <1> DEFINE k == tcConn[c]
             s == IF TcCoro THEN "WAIT_OFF" ELSE k.st
             n == [[k EXCEPT !.pc = "result"] EXCEPT !.st = s]
  <1>1. k \in TcConns /\ k.pc = "offload" /\ s \in {"none", "RUNNABLE", "WAIT_IO", "WAIT_OFF", "thread", "closed"}
    BY DEF TcOffload, TcTypeOK, TcConns
  <1>2. tcConn' = [tcConn EXCEPT ![c] = n]
    BY <1>1 DEF TcOffload, TcConns
  <1> HIDE DEF s
  <1>3. /\ n \in TcConns /\ n.pc = "result" /\ n.st = s /\ n.buf = k.buf /\ n.put = k.put /\ n.seq = k.seq
        /\ n.mask = k.mask /\ n.enc = k.enc
    BY <1>1 DEF TcConns
  <1> HIDE DEF n
  <1>4. tcConn' \in [TcClient -> TcConns] /\ tcConn'[c] = n /\ \A d \in TcClient : d # c => tcConn'[d] = tcConn[d]
    BY <1>2, <1>3 DEF TcTypeOK
  <1>5. QED
    BY <1>1, <1>3, <1>4 DEF s

\* co_offload() and block_conn() once the result is there.
LEMMA TcResultStep ==
  ASSUME TcTypeOK, NEW c \in TcClient, TcResult(c)
  PROVE  /\ tcConn[c].pc = "result" /\ tcConn' \in [TcClient -> TcConns]
         /\ \A d \in TcClient : d # c => tcConn'[d] = tcConn[d]
         /\ tcConn'[c].pc = "write" /\ tcConn'[c].st = tcConn[c].st
         /\ tcConn'[c].buf = tcConn[c].buf /\ tcConn'[c].put = tcConn[c].put
         /\ tcConn'[c].seq = tcConn[c].seq + 1 /\ tcConn'[c].mask = tcConn[c].seq
         /\ tcConn'[c].enc = tcConn[c].enc + 1
  <1> DEFINE k == tcConn[c]
             e == k.enc + 1
             q == k.seq + 1
             n1 == [[k EXCEPT !.pc = "write"] EXCEPT !.enc = e]
             n == [[n1 EXCEPT !.mask = k.seq] EXCEPT !.seq = q]
  <1>1. k \in TcConns /\ k.pc = "result" /\ k.seq \in Nat /\ k.enc \in Nat
    BY DEF TcResult, TcTypeOK, TcConns
  <1>2. tcConn' = [tcConn EXCEPT ![c] = n]
    BY <1>1 DEF TcResult, TcConns
  <1>0. e \in Nat /\ q \in Nat
    BY <1>1
  <1> HIDE DEF e, q
  <1>3. /\ n1 \in TcConns /\ n1.pc = "write" /\ n1.st = k.st /\ n1.buf = k.buf /\ n1.put = k.put
        /\ n1.enc = e
    BY <1>0, <1>1 DEF TcConns
  <1> HIDE DEF n1
  <1>4. /\ n \in TcConns /\ n.pc = "write" /\ n.st = k.st /\ n.buf = k.buf /\ n.put = k.put /\ n.seq = q
        /\ n.mask = k.seq /\ n.enc = e
    BY <1>0, <1>1, <1>3 DEF TcConns
  <1> HIDE DEF n
  <1>5. tcConn' \in [TcClient -> TcConns] /\ tcConn'[c] = n /\ \A d \in TcClient : d # c => tcConn'[d] = tcConn[d]
    BY <1>2, <1>4 DEF TcTypeOK
  <1>6. QED
    BY <1>1, <1>4, <1>5 DEF e, q

LEMMA TcResultGpuStep ==
  ASSUME TcTypeOK, NEW c \in TcClient, TcResultGpu(c)
  PROVE  /\ tcConn[c].pc = "result" /\ tcConn' \in [TcClient -> TcConns]
         /\ \A d \in TcClient : d # c => tcConn'[d] = tcConn[d]
         /\ tcConn'[c].pc = "write" /\ tcConn'[c].st = tcConn[c].st
         /\ tcConn'[c].buf = tcConn[c].buf /\ tcConn'[c].put = tcConn[c].put
         /\ tcConn'[c].seq = tcConn[c].seq /\ tcConn'[c].mask = tcConn[c].mask
         /\ tcConn'[c].enc = tcConn[c].enc
  <1> DEFINE k == tcConn[c]
             n == [k EXCEPT !.pc = "write"]
  <1>1. k \in TcConns /\ k.pc = "result"
    BY DEF TcResultGpu, TcTypeOK
  <1>2. tcConn' = [tcConn EXCEPT ![c] = n]
    BY DEF TcResultGpu
  <1>3. /\ n \in TcConns /\ n.pc = "write" /\ n.st = k.st /\ n.buf = k.buf /\ n.put = k.put /\ n.seq = k.seq
        /\ n.mask = k.mask /\ n.enc = k.enc
    BY <1>1 DEF TcConns
  <1> HIDE DEF n
  <1>4. tcConn' \in [TcClient -> TcConns] /\ tcConn'[c] = n /\ \A d \in TcClient : d # c => tcConn'[d] = tcConn[d]
    BY <1>2, <1>3 DEF TcTypeOK
  <1>5. QED
    BY <1>1, <1>3, <1>4

\* co_write_n(): a chunk of the reply, the last of which ends the request, or
\* the fiber waits.
LEMMA TcWriteStep ==
  ASSUME TcTypeOK, NEW c \in TcClient, TcWrite(c)
  PROVE  /\ tcConn[c].pc = "write" /\ tcConn' \in [TcClient -> TcConns]
         /\ \A d \in TcClient : d # c => tcConn'[d] = tcConn[d]
         /\ tcConn'[c].seq = tcConn[c].seq /\ tcConn'[c].mask = tcConn[c].mask /\ tcConn'[c].enc = tcConn[c].enc
         /\ \/ /\ tcConn'[c].st = tcConn[c].st /\ tcCur' = tcCur
               /\ tcOut' = [tcOut EXCEPT ![c] = Append(@,
                      [r |-> [n |-> tcConn[c].buf[tcConn[c].put + 1][1], enc |-> tcConn[c].enc, mask |-> tcConn[c].mask],
                       h |-> tcConn[c].buf[tcConn[c].put + 1][2]])]
               /\ IF tcConn[c].put = 1
                  THEN tcConn'[c].put = 0 /\ tcConn'[c].buf = <<>> /\ tcConn'[c].pc = "read"
                  ELSE tcConn'[c].put = 1 /\ tcConn'[c].buf = tcConn[c].buf /\ tcConn'[c].pc = "write"
            \/ /\ TcCoro /\ tcConn'[c].st = "WAIT_IO" /\ tcCur' = "sched" /\ tcOut' = tcOut /\ TcSame(c)
  <1> DEFINE k == tcConn[c]
  <1>1. k \in TcConns /\ k.pc = "write"
    BY DEF TcWrite, TcTypeOK
  <1>2. CASE Len(tcOut[c]) < TcSock
    <2> DEFINE n == IF k.put = 1 THEN [k EXCEPT !.put = 0, !.buf = <<>>, !.pc = "read"] ELSE [k EXCEPT !.put = 1]
    <2>1. /\ tcConn' = [tcConn EXCEPT ![c] = n] /\ tcCur' = tcCur
          /\ tcOut' = [tcOut EXCEPT ![c] = Append(@,
                      [r |-> [n |-> k.buf[k.put + 1][1], enc |-> k.enc, mask |-> k.mask], h |-> k.buf[k.put + 1][2]])]
      BY <1>2 DEF TcWrite
    <2>2. /\ n \in TcConns /\ n.st = k.st /\ n.seq = k.seq /\ n.mask = k.mask /\ n.enc = k.enc
          /\ IF k.put = 1 THEN n.put = 0 /\ n.buf = <<>> /\ n.pc = "read"
                          ELSE n.put = 1 /\ n.buf = k.buf /\ n.pc = "write"
      <3>1. <<>> \in TcChunks
        BY DEF TcChunks
      <3>2. QED
        BY <1>1, <3>1 DEF TcConns
    <2> HIDE DEF n
    <2>3. tcConn' \in [TcClient -> TcConns] /\ tcConn'[c] = n /\ \A d \in TcClient : d # c => tcConn'[d] = tcConn[d]
      BY <2>1, <2>2 DEF TcTypeOK
    <2>4. QED
      BY <1>1, <2>1, <2>2, <2>3
  <1>3. CASE ~(Len(tcOut[c]) < TcSock)
    <2> DEFINE n == TcYieldIo(c, "out")
    <2>1. tcConn' = [tcConn EXCEPT ![c] = n] /\ TcCoro /\ tcOut' = tcOut /\ tcCur' = "sched"
      BY <1>3 DEF TcWrite
    <2>2. /\ n \in TcConns /\ n.st = "WAIT_IO" /\ n.pc = k.pc /\ n.buf = k.buf /\ n.put = k.put /\ n.seq = k.seq
          /\ n.mask = k.mask /\ n.enc = k.enc
      BY <1>1 DEF TcYieldIo, TcConns
    <2> HIDE DEF n
    <2>3. tcConn' \in [TcClient -> TcConns] /\ tcConn'[c] = n /\ \A d \in TcClient : d # c => tcConn'[d] = tcConn[d]
      BY <2>1, <2>2 DEF TcTypeOK
    <2>4. QED
      BY <1>1, <2>1, <2>2, <2>3 DEF TcSame
  <1>4. QED
    BY <1>2, <1>3

\* The steps, one by one.  serve() of the two files differs in what a result is.
TcServes(c) ==
    \/ TcRead(c) \/ TcOffload(c) \/ TcWrite(c)
    \/ tcDev = "emu" /\ TcResult(c)
    \/ tcDev = "gpu" /\ TcResultGpu(c)

LEMMA TcStepCases ==
  ASSUME TcIndInv, TcNext
  PROVE  \/ \E c \in TcClient : \/ TcConnect(c) \/ TcSend(c, TcPipeOf) \/ TcRecv(c, TcPipeOf, tcDev = "emu")
                                 \/ TcRound(c) \/ TcClose(c) \/ (TcLive(c) /\ TcServes(c))
         \/ TcScan \/ TcScanGpu \/ TcEpoll \/ TcRun \/ TcAcceptThread
         \/ \E i \in 0..(TcMAXCONN - 1) : TcDevice(i) \/ TcKernel(i)
  <1>1. tcMode \in {"coro", "block"} /\ tcDev \in {"emu", "gpu"} /\ tcCur \in TcClient \cup {"sched"}
    BY DEF TcIndInv, TcTypeOK
  <1>2. ASSUME NEW c \in TcClient, TcServe(c) \/ TcServeGpu(c), TcCoro => tcCur = c
        PROVE  TcLive(c) /\ TcServes(c)
    <2>1. "sched" \notin TcClient
      BY TcAssumption
    <2>2. TcRead(c) \/ TcOffload(c) \/ TcOffloadGpu(c) \/ TcResult(c) \/ TcResultGpu(c) \/ TcWrite(c)
      BY <1>2 DEF TcServe, TcServeGpu
    <2>3. TcRuns(c)
      BY <2>2 DEF TcRead, TcOffload, TcOffloadGpu, TcResult, TcResultGpu, TcWrite
    <2>4. TcLive(c)
      BY <1>2, <2>1, <2>3 DEF TcLive, TcRuns, TcIndInv, TcRunInv
    <2>5. TcOffloadGpu(c) => TcOffload(c)
      BY DEF TcOffload, TcOffloadGpu
    <2>6. TcServes(c)
      BY <1>2, <2>5 DEF TcServe, TcServeGpu, TcServes
    <2>7. QED
      BY <2>4, <2>6
  <1>3. CASE TcSched
    <2>1. CASE tcCur # "sched" /\ (TcServe(tcCur) \/ TcServeGpu(tcCur))
      <3>1. PICK c \in TcClient : c = tcCur
        BY <1>1, <2>1
      <3>2. TcServe(c) \/ TcServeGpu(c)
        BY <2>1, <3>1
      <3>3. QED
        BY <1>2, <3>1, <3>2
    <2>2. QED
      BY <1>3, <2>1 DEF TcSched, TcRunCoro, TcRunCoroGpu
  <1>4. CASE TcUnits
    BY <1>4 DEF TcUnits
  <1>5. ASSUME NEW c \in TcClient, TcThread(c)
        PROVE  TcLive(c) /\ TcServes(c)
    BY <1>2, <1>5 DEF TcThread, TcBlockConn, TcBlockConnGpu
  <1>6. ASSUME NEW c \in TcClient, TcClientStep(c)
        PROVE  TcSend(c, TcPipeOf) \/ TcRecv(c, TcPipeOf, tcDev = "emu") \/ TcClose(c)
    <2>1. CASE TcClientThread(c)
      BY <2>1 DEF TcClientThread, TcPipeOf
    <2>2. CASE TcClientThreadGpu(c)
      <3>1. tcDev = "gpu" /\ TcPipeOf = 1 /\ (tcDev = "emu") = FALSE
        BY <2>2 DEF TcClientThreadGpu, TcPipeOf
      <3>2. QED
        BY <2>2, <3>1 DEF TcClientThreadGpu
    <2>3. QED
      BY <1>6, <2>1, <2>2 DEF TcClientStep
  <1>7. QED
    BY <1>3, <1>4, <1>5, <1>6 DEF TcNext

\* What one step of serve() leaves alone.
LEMMA TcServeEffect ==
  ASSUME TcTypeOK, NEW c \in TcClient, TcLive(c), TcServes(c)
  PROVE  /\ UNCHANGED <<tcMode, tcDev, tcBefore, tcBacklog, tcTab, tcAt, tcCli>>
         /\ tcConn' \in [TcClient -> TcConns]
         /\ \A d \in TcClient : d # c => tcConn'[d] = tcConn[d]
         /\ tcConn'[c].st \in {tcConn[c].st, "closed"} \/ (TcCoro /\ tcConn'[c].st \in {"WAIT_IO", "WAIT_OFF"})
         /\ (tcCur' = tcCur /\ tcConn'[c].st = tcConn[c].st) \/ tcCur' = "sched"
  <1>1. CASE TcRead(c)
    <2>1. UNCHANGED <<tcMode, tcDev, tcBefore, tcBacklog, tcTab, tcAt, tcCli>>
      BY <1>1 DEF TcRead
    <2>2. QED
      BY <1>1, <2>1, TcReadStep
  <1>2. CASE TcOffload(c)
    <2>1. UNCHANGED <<tcMode, tcDev, tcBefore, tcBacklog, tcTab, tcAt, tcCli>> /\ tcCur' = "sched"
      BY <1>2 DEF TcOffload
    <2>2. QED
      BY <1>2, <2>1, TcOffloadStep
  <1>3. CASE TcResult(c)
    <2>1. UNCHANGED <<tcMode, tcDev, tcBefore, tcBacklog, tcTab, tcAt, tcCli>> /\ tcCur' = tcCur
      BY <1>3 DEF TcResult
    <2>2. QED
      BY <1>3, <2>1, TcResultStep
  <1>4. CASE TcResultGpu(c)
    <2>1. UNCHANGED <<tcMode, tcDev, tcBefore, tcBacklog, tcTab, tcAt, tcCli>> /\ tcCur' = tcCur
      BY <1>4 DEF TcResultGpu
    <2>2. QED
      BY <1>4, <2>1, TcResultGpuStep
  <1>5. CASE TcWrite(c)
    <2>1. UNCHANGED <<tcMode, tcDev, tcBefore, tcBacklog, tcTab, tcAt, tcCli>>
      BY <1>5 DEF TcWrite
    <2>2. QED
      BY <1>5, <2>1, TcWriteStep
  <1>6. QED
    BY <1>1, <1>2, <1>3, <1>4, <1>5 DEF TcServes

TcClis == [ph : {"new", "send", "recv", "idle", "out"}, round : Nat, n : Nat, bad : BOOLEAN]

\* The number of a request on its connection.
LEMMA TcTimes ==
  \A a, b \in Nat : a * b \in Nat /\ (a + 1) * b = a * b + b
  OBVIOUS

LEMMA TcPipeNat == ASSUME TcTypeOK PROVE TcPipeOf \in Nat \ {0}
  BY TcAssumption DEF TcPipeOf

LEMMA TcCliType ==
  ASSUME TcTypeOK, NEW c \in TcClient
  PROVE  /\ tcCli[c] \in TcClis /\ tcCli[c].round \in Nat /\ tcCli[c].n \in Nat /\ tcCli[c].bad \in BOOLEAN
         /\ tcCli[c].ph \in {"new", "send", "recv", "idle", "out"}
         /\ tcCli[c].round * TcPipeOf \in Nat
         /\ tcIn[c] \in TcChunks /\ tcOut[c] \in Seq(TcReplyChunks)
  <1>1. tcCli[c] \in TcClis /\ tcIn[c] \in TcChunks /\ tcOut[c] \in Seq(TcReplyChunks)
    BY DEF TcTypeOK, TcClis
  <1>2. /\ tcCli[c].round \in Nat /\ tcCli[c].n \in Nat /\ tcCli[c].bad \in BOOLEAN
        /\ tcCli[c].ph \in {"new", "send", "recv", "idle", "out"}
    BY <1>1 DEF TcClis
  <1>3. TcPipeOf \in Nat
    BY TcPipeNat
  <1>4. tcCli[c].round * TcPipeOf \in Nat
    BY <1>2, <1>3, TcTimes
  <1>5. QED
    BY <1>1, <1>2, <1>4

\* A chunk is written.
LEMMA TcSendStep ==
  ASSUME TcTypeOK, NEW c \in TcClient, TcSend(c, TcPipeOf)
  PROVE  /\ tcCli[c].ph = "send" /\ tcConn[c].st # "closed"
         /\ tcCli' \in [TcClient -> TcClis] /\ \A d \in TcClient : d # c => tcCli'[d] = tcCli[d]
         /\ tcCli'[c].round = tcCli[c].round /\ tcCli'[c].bad = tcCli[c].bad
         /\ IF tcCli[c].n + 1 = 2 * TcPipeOf THEN tcCli'[c].ph = "recv" /\ tcCli'[c].n = 0
                                             ELSE tcCli'[c].ph = "send" /\ tcCli'[c].n = tcCli[c].n + 1
         /\ tcIn' \in [TcClient -> TcChunks] /\ \A d \in TcClient : d # c => tcIn'[d] = tcIn[d]
         /\ tcIn'[c] = Append(tcIn[c], <<tcCli[c].round * TcPipeOf + tcCli[c].n \div 2, tcCli[c].n % 2>>)
  <1> DEFINE q == tcCli[c]
             m == IF q.n + 1 = 2 * TcPipeOf THEN 0 ELSE q.n + 1
             h == IF q.n + 1 = 2 * TcPipeOf THEN "recv" ELSE "send"
             x == <<q.round * TcPipeOf + q.n \div 2, q.n % 2>>
             r == [[q EXCEPT !.n = m] EXCEPT !.ph = h]
  <1>1. q \in TcClis /\ q.round * TcPipeOf \in Nat /\ q.n \in Nat /\ tcIn[c] \in TcChunks
    BY TcCliType
  <1>2. q.ph = "send" /\ tcConn[c].st # "closed" /\ tcIn' = [tcIn EXCEPT ![c] = Append(@, x)]
    BY DEF TcSend
  <1>3. tcCli' = [tcCli EXCEPT ![c] = r]
    BY <1>1, <1>2 DEF TcSend, TcClis
  <1>4. m \in Nat /\ h \in {"new", "send", "recv", "idle", "out"}
    BY <1>1
  <1>5. q.n \div 2 \in Nat /\ q.n % 2 \in Nat
    BY <1>1
  <1>6. x \in Nat \X Nat
    BY <1>1, <1>5
  <1>7. Append(tcIn[c], x) \in TcChunks
    BY <1>1, <1>6 DEF TcChunks
  <1> HIDE DEF m, h, x
  <1>8. r \in TcClis /\ r.round = q.round /\ r.bad = q.bad /\ r.n = m /\ r.ph = h
    BY <1>1, <1>4 DEF TcClis
  <1> HIDE DEF r
  <1>9. tcCli' \in [TcClient -> TcClis] /\ tcCli'[c] = r /\ \A d \in TcClient : d # c => tcCli'[d] = tcCli[d]
    BY <1>3, <1>8 DEF TcTypeOK, TcClis
  <1>10. /\ tcIn' \in [TcClient -> TcChunks] /\ tcIn'[c] = Append(tcIn[c], x)
         /\ \A d \in TcClient : d # c => tcIn'[d] = tcIn[d]
    BY <1>2, <1>7 DEF TcTypeOK
  <1>11. QED
    BY <1>2, <1>8, <1>9, <1>10 DEF m, h, x

\* A chunk is read and compared.
LEMMA TcRecvStep ==
  ASSUME TcTypeOK, NEW c \in TcClient, TcRecv(c, TcPipeOf, tcDev = "emu")
  PROVE  /\ tcCli[c].ph = "recv" /\ tcOut[c] # <<>>
         /\ tcCli' \in [TcClient -> TcClis] /\ \A d \in TcClient : d # c => tcCli'[d] = tcCli[d]
         /\ IF tcCli[c].n + 1 = 2 * TcPipeOf
            THEN tcCli'[c].ph = "idle" /\ tcCli'[c].n = 0 /\ tcCli'[c].round = tcCli[c].round + 1
            ELSE tcCli'[c].ph = "recv" /\ tcCli'[c].n = tcCli[c].n + 1 /\ tcCli'[c].round = tcCli[c].round
         /\ tcCli'[c].bad => \/ tcCli[c].bad
                             \/ Head(tcOut[c]).h # tcCli[c].n % 2
                             \/ Head(tcOut[c]).r # [n |-> tcCli[c].round * TcPipeOf + tcCli[c].n \div 2, enc |-> 1,
                                    mask |-> IF tcDev = "emu" THEN tcCli[c].round * TcPipeOf + tcCli[c].n \div 2 ELSE 0]
         /\ tcOut' \in [TcClient -> Seq(TcReplyChunks)] /\ \A d \in TcClient : d # c => tcOut'[d] = tcOut[d]
         /\ tcOut'[c] = Tail(tcOut[c])
  <1> DEFINE q == tcCli[c]
             last == q.n + 1 = 2 * TcPipeOf
             w == q.round * TcPipeOf + q.n \div 2
             m == IF last THEN 0 ELSE q.n + 1
             h == IF last THEN "idle" ELSE "recv"
             o == IF last THEN q.round + 1 ELSE q.round
             x == \/ q.bad
                  \/ Head(tcOut[c]).h # q.n % 2
                  \/ Head(tcOut[c]).r # [n |-> w, enc |-> 1, mask |-> IF tcDev = "emu" THEN w ELSE 0]
             r1 == [[q EXCEPT !.n = m] EXCEPT !.ph = h]
             r == [[r1 EXCEPT !.round = o] EXCEPT !.bad = x]
  <1>1. q \in TcClis /\ q.round \in Nat /\ q.n \in Nat /\ tcOut[c] \in Seq(TcReplyChunks)
    BY TcCliType
  <1>2. q.ph = "recv" /\ tcOut[c] # <<>> /\ tcOut' = [tcOut EXCEPT ![c] = Tail(@)]
    BY DEF TcRecv
  <1>3. tcCli' = [tcCli EXCEPT ![c] = r]
    BY <1>1, <1>2 DEF TcRecv, TcClis
  <1>4. m \in Nat /\ o \in Nat /\ h \in {"new", "send", "recv", "idle", "out"}
    BY <1>1
  <1>5. x \in BOOLEAN
    OBVIOUS
  <1>6. Tail(tcOut[c]) \in Seq(TcReplyChunks)
    BY <1>1, <1>2
  <1> HIDE DEF m, h, x, o
  <1>7. r1 \in TcClis /\ r1.n = m /\ r1.ph = h
    BY <1>1, <1>4 DEF TcClis
  <1> HIDE DEF r1
  <1>8. r \in TcClis /\ r.n = m /\ r.ph = h /\ r.round = o /\ r.bad = x
    BY <1>4, <1>5, <1>7 DEF TcClis
  <1> HIDE DEF r
  <1>9. tcCli' \in [TcClient -> TcClis] /\ tcCli'[c] = r /\ \A d \in TcClient : d # c => tcCli'[d] = tcCli[d]
    BY <1>3, <1>8 DEF TcTypeOK, TcClis
  <1>10. /\ tcOut' \in [TcClient -> Seq(TcReplyChunks)] /\ tcOut'[c] = Tail(tcOut[c])
         /\ \A d \in TcClient : d # c => tcOut'[d] = tcOut[d]
    BY <1>2, <1>6 DEF TcTypeOK
  <1>11. QED
    BY <1>2, <1>8, <1>9, <1>10 DEF m, h, x, o

\* A change of phase.
LEMMA TcPhaseStep ==
  ASSUME TcTypeOK, NEW c \in TcClient, NEW p \in {"send", "out"}, tcCli' = [tcCli EXCEPT ![c].ph = p]
  PROVE  /\ tcCli' \in [TcClient -> TcClis] /\ \A d \in TcClient : d # c => tcCli'[d] = tcCli[d]
         /\ tcCli'[c].ph = p /\ tcCli'[c].n = tcCli[c].n /\ tcCli'[c].round = tcCli[c].round
         /\ tcCli'[c].bad = tcCli[c].bad
  <1> DEFINE r == [tcCli[c] EXCEPT !.ph = p]
  <1>1. tcCli[c] \in TcClis
    BY TcCliType
  <1>2. r \in TcClis /\ r.ph = p /\ r.n = tcCli[c].n /\ r.round = tcCli[c].round /\ r.bad = tcCli[c].bad
    BY <1>1 DEF TcClis
  <1>3. tcCli' = [tcCli EXCEPT ![c] = r]
    OBVIOUS
  <1>4. tcCli \in [TcClient -> TcClis]
    BY DEF TcTypeOK, TcClis
  <1> HIDE DEF r
  <1>5. tcCli' \in [TcClient -> TcClis] /\ tcCli'[c] = r /\ \A d \in TcClient : d # c => tcCli'[d] = tcCli[d]
    BY <1>2, <1>3, <1>4
  <1>6. QED
    BY <1>2, <1>5

\* What a client changes.
TcClientAct(c) ==
    TcConnect(c) \/ TcSend(c, TcPipeOf) \/ TcRecv(c, TcPipeOf, tcDev = "emu") \/ TcRound(c) \/ TcClose(c)

LEMMA TcClientEffect ==
  ASSUME TcTypeOK, NEW c \in TcClient, TcClientAct(c)
  PROVE  /\ UNCHANGED <<tcMode, tcDev, tcBefore, tcConn, tcTab, tcSlot, tcAt, tcCur>>
         /\ tcCli' \in [TcClient -> TcClis] /\ \A d \in TcClient : d # c => tcCli'[d] = tcCli[d]
         /\ tcIn' \in [TcClient -> TcChunks] /\ \A d \in TcClient : d # c => tcIn'[d] = tcIn[d]
         /\ tcOut' \in [TcClient -> Seq(TcReplyChunks)] /\ \A d \in TcClient : d # c => tcOut'[d] = tcOut[d]
         /\ tcCli'[c].ph # "new"
         /\ \/ tcCli[c].ph # "new" /\ tcBacklog' = tcBacklog
            \/ tcCli[c].ph = "new" /\ tcBacklog' = Append(tcBacklog, c)
  <1>0. tcIn \in [TcClient -> TcChunks] /\ tcOut \in [TcClient -> Seq(TcReplyChunks)]
    BY DEF TcTypeOK
  <1>1. CASE TcConnect(c)
    <2>1. /\ UNCHANGED <<tcMode, tcDev, tcBefore, tcIn, tcOut, tcConn, tcTab, tcSlot, tcAt, tcCur>>
          /\ tcCli[c].ph = "new" /\ tcBacklog' = Append(tcBacklog, c) /\ tcCli' = [tcCli EXCEPT ![c].ph = "send"]
      BY <1>1 DEF TcConnect
    <2>2. QED
      BY <1>0, <2>1, TcPhaseStep
  <1>2. CASE TcSend(c, TcPipeOf)
    <2>1. UNCHANGED <<tcMode, tcDev, tcBefore, tcOut, tcBacklog, tcConn, tcTab, tcSlot, tcAt, tcCur>>
      BY <1>2 DEF TcSend
    <2>2. QED
      BY <1>0, <1>2, <2>1, TcSendStep
  <1>3. CASE TcRecv(c, TcPipeOf, tcDev = "emu")
    <2>1. UNCHANGED <<tcMode, tcDev, tcBefore, tcIn, tcBacklog, tcConn, tcTab, tcSlot, tcAt, tcCur>>
      BY <1>3 DEF TcRecv
    <2>2. QED
      BY <1>0, <1>3, <2>1, TcRecvStep
  <1>4. CASE TcRound(c)
    <2>1. /\ UNCHANGED <<tcMode, tcDev, tcBefore, tcIn, tcOut, tcBacklog, tcConn, tcTab, tcSlot, tcAt, tcCur>>
          /\ tcCli[c].ph = "idle" /\ tcCli' = [tcCli EXCEPT ![c].ph = "send"]
      BY <1>4 DEF TcRound
    <2>2. QED
      BY <1>0, <2>1, TcPhaseStep
  <1>5. CASE TcClose(c)
    <2>1. /\ UNCHANGED <<tcMode, tcDev, tcBefore, tcIn, tcOut, tcBacklog, tcConn, tcTab, tcSlot, tcAt, tcCur>>
          /\ tcCli[c].ph # "new" /\ tcCli' = [tcCli EXCEPT ![c].ph = "out"]
      BY <1>5 DEF TcClose
    <2>2. QED
      BY <1>0, <2>1, TcPhaseStep
  <1>6. QED
    BY <1>1, <1>2, <1>3, <1>4, <1>5 DEF TcClientAct

(* The table, the running fiber: what the steps keep. *)

\* A connection that is served is in the table.
LEMMA TcLiveInTab ==
  ASSUME TcIndInv, NEW c \in TcClient, TcLive(c)
  PROVE  /\ tcConn[c].st \notin {"none", "closed"}
         /\ \E j \in 1..Len(tcTab) : tcTab[j] = c
  BY DEF TcLive, TcIndInv, TcTabInv

LEMMA TcClientTab ==
  ASSUME TcIndInv, NEW c \in TcClient, TcClientAct(c)
  PROVE  TcTabInv' /\ TcRunInv'
  <1>1. TcTypeOK /\ TcTabInv /\ TcRunInv /\ tcBacklog \in Seq(TcClient)
    BY DEF TcIndInv, TcTypeOK
  <1>2. UNCHANGED <<tcMode, tcBefore, tcConn, tcTab, tcCur>>
    BY <1>1, TcClientEffect
  <1>3. TcRunInv'
    BY <1>1, <1>2 DEF TcRunInv, TcCoro
  <1>4. \A d \in TcClient : tcCli'[d].ph = "new" => tcCli[d].ph = "new" /\ d # c
    BY <1>1, TcClientEffect
  <1>4a. \A d \in TcClient : tcCli'[d].ph = "new" => tcConn'[d].st = "none"
    BY <1>1, <1>2, <1>4 DEF TcTabInv
  <1>4b. ASSUME \A i, j \in 1..Len(tcBacklog') : tcBacklog'[i] = tcBacklog'[j] => i = j,
                \A i \in 1..Len(tcBacklog') : tcConn'[tcBacklog'[i]].st = "none" /\ tcCli'[tcBacklog'[i]].ph # "new"
         PROVE  TcTabInv'
    <2>1. /\ \A i, j \in 1..Len(tcTab') : tcTab'[i] = tcTab'[j] => i = j
          /\ \A i \in 1..Len(tcTab') : tcConn'[tcTab'[i]].st # "none"
          /\ TcCoro' => tcBefore' + Len(tcTab') <= TcMAXCONN
      BY <1>1, <1>2 DEF TcTabInv, TcCoro
    <2>2. \A d \in TcClient : (\A i \in 1..Len(tcTab') : tcTab'[i] # d) =>
             tcConn'[d].st \in {"none", "closed"} /\ tcConn'[d].pc = "read"
      BY <1>1, <1>2 DEF TcTabInv
    <2>3. QED
      BY <1>4a, <1>4b, <2>1, <2>2 DEF TcTabInv
  <1>5. CASE tcCli[c].ph # "new" /\ tcBacklog' = tcBacklog
    <2>1. \A i \in 1..Len(tcBacklog) : tcBacklog[i] \in TcClient
      BY <1>1
    <2>2. \A i, j \in 1..Len(tcBacklog') : tcBacklog'[i] = tcBacklog'[j] => i = j
      BY <1>1, <1>5 DEF TcTabInv
    <2>3. \A i \in 1..Len(tcBacklog) : tcConn[tcBacklog[i]].st = "none" /\ tcCli[tcBacklog[i]].ph # "new"
      BY <1>1 DEF TcTabInv
    <2>4. \A i \in 1..Len(tcBacklog') : tcConn'[tcBacklog'[i]].st = "none" /\ tcCli'[tcBacklog'[i]].ph # "new"
      BY <1>2, <1>4, <1>5, <2>1, <2>3
    <2>5. QED
      BY <1>3, <1>4b, <2>2, <2>4
  <1>6. CASE tcCli[c].ph = "new" /\ tcBacklog' = Append(tcBacklog, c)
    <2>1. /\ Len(tcBacklog') = Len(tcBacklog) + 1 /\ tcBacklog'[Len(tcBacklog) + 1] = c
          /\ \A i \in 1..Len(tcBacklog) : tcBacklog'[i] = tcBacklog[i] /\ tcBacklog[i] \in TcClient
      BY <1>1, <1>6
    <2>2. /\ tcConn[c].st = "none" /\ \A i \in 1..Len(tcBacklog) : tcBacklog[i] # c
      BY <1>1, <1>6, <2>1 DEF TcTabInv
    <2>3. Len(tcBacklog) \in Nat
      BY <1>1
    <2>4. \A i, j \in 1..Len(tcBacklog') : tcBacklog'[i] = tcBacklog'[j] => i = j
      BY <1>1, <2>1, <2>2, <2>3 DEF TcTabInv
    <2>5. tcCli'[c].ph # "new"
      BY <1>1, TcClientEffect
    <2>6. \A i \in 1..Len(tcBacklog') : tcConn'[tcBacklog'[i]].st = "none" /\ tcCli'[tcBacklog'[i]].ph # "new"
      <3>1. TAKE i \in 1..Len(tcBacklog')
      <3>2. CASE i \in 1..Len(tcBacklog)
        BY <1>1, <1>2, <1>4, <2>1, <3>2 DEF TcTabInv
      <3>3. CASE i = Len(tcBacklog) + 1
        BY <1>2, <2>1, <2>2, <2>5, <3>3
      <3>4. QED
        BY <2>1, <2>3, <3>2, <3>3
    <2>7. QED
      BY <1>3, <1>4b, <2>4, <2>6
  <1>7. QED
    BY <1>1, <1>3, <1>5, <1>6, TcClientEffect

LEMMA TcServeTab ==
  ASSUME TcIndInv, NEW c \in TcClient, TcLive(c), TcServes(c)
  PROVE  TcTabInv' /\ TcRunInv'
  <1>1. TcTypeOK /\ TcTabInv /\ TcRunInv /\ tcBacklog \in Seq(TcClient) /\ tcTab \in Seq(TcClient) /\ tcCur \in TcClient \cup {"sched"}
    BY DEF TcIndInv, TcTypeOK
  <1>2. /\ UNCHANGED <<tcMode, tcDev, tcBefore, tcBacklog, tcTab, tcAt, tcCli>>
        /\ \A d \in TcClient : d # c => tcConn'[d] = tcConn[d]
        /\ tcConn'[c].st \in {tcConn[c].st, "closed"} \/ (TcCoro /\ tcConn'[c].st \in {"WAIT_IO", "WAIT_OFF"})
        /\ (tcCur' = tcCur /\ tcConn'[c].st = tcConn[c].st) \/ tcCur' = "sched"
    BY <1>1, TcServeEffect
  <1>3. tcConn[c].st \notin {"none", "closed"} /\ \E j \in 1..Len(tcTab) : tcTab[j] = c
    BY TcLiveInTab
  <1>4. TcRunInv'
    BY <1>1, <1>2 DEF TcRunInv, TcCoro
  <1>5. \A i \in 1..Len(tcBacklog) : tcBacklog[i] \in TcClient
    BY <1>1
  <1>6. \A i \in 1..Len(tcTab) : tcTab[i] \in TcClient
    BY <1>1
  <1>7. tcConn'[c].st # "none"
    BY <1>2, <1>3
  <1>8. \A i \in 1..Len(tcBacklog) : tcConn'[tcBacklog[i]].st = "none"
    BY <1>1, <1>2, <1>3, <1>5 DEF TcTabInv
  <1>9. \A i \in 1..Len(tcTab) : tcConn'[tcTab[i]].st # "none"
    BY <1>1, <1>2, <1>6, <1>7 DEF TcTabInv
  <1>10. \A d \in TcClient : (\A i \in 1..Len(tcTab) : tcTab[i] # d) =>
             tcConn'[d].st \in {"none", "closed"} /\ tcConn'[d].pc = "read"
    BY <1>1, <1>2, <1>3 DEF TcTabInv
  <1>11. \A d \in TcClient : tcCli[d].ph = "new" => tcConn'[d].st = "none"
    BY <1>1, <1>2, <1>3 DEF TcTabInv
  <1>12. TcTabInv'
    BY <1>1, <1>2, <1>8, <1>9, <1>10, <1>11 DEF TcTabInv, TcCoro
  <1>13. QED
    BY <1>4, <1>12

\* The scan changes states from WAIT_OFF to RUNNABLE only.
LEMMA TcScanStep ==
  ASSUME TcTypeOK, TcScan \/ TcScanGpu
  PROVE  /\ UNCHANGED <<tcMode, tcDev, tcBefore, tcCli, tcIn, tcOut, tcBacklog, tcTab, tcCur>>
         /\ TcCoro /\ tcCur = "sched" /\ tcAt' = 1
         /\ tcConn' \in [TcClient -> TcConns]
         /\ \A c \in TcClient : TcSame(c) /\ tcConn'[c].enc = tcConn[c].enc
         /\ \A c \in TcClient : IF tcConn[c].st = "WAIT_OFF" /\ tcSlot[TcIdx(c)].done
                                THEN tcConn'[c].st = "RUNNABLE" ELSE tcConn'[c].st = tcConn[c].st
  <1> DEFINE N(c) == IF tcConn[c].st = "WAIT_OFF" /\ tcSlot[TcIdx(c)].done
                     THEN [tcConn[c] EXCEPT !.st = "RUNNABLE"] ELSE tcConn[c]
  <1>1. /\ UNCHANGED <<tcMode, tcDev, tcBefore, tcCli, tcIn, tcOut, tcBacklog, tcTab, tcCur>>
        /\ TcCoro /\ tcCur = "sched" /\ tcAt' = 1
    BY DEF TcScan, TcScanGpu
  <1>2. tcConn' = [c \in TcClient |-> N(c)]
    BY DEF TcScan, TcScanGpu
  <1>3. ASSUME NEW c \in TcClient
        PROVE  /\ N(c) \in TcConns /\ N(c).pc = tcConn[c].pc /\ N(c).buf = tcConn[c].buf /\ N(c).put = tcConn[c].put
               /\ N(c).seq = tcConn[c].seq /\ N(c).mask = tcConn[c].mask /\ N(c).enc = tcConn[c].enc
               /\ IF tcConn[c].st = "WAIT_OFF" /\ tcSlot[TcIdx(c)].done
                  THEN N(c).st = "RUNNABLE" ELSE N(c).st = tcConn[c].st
    <2>1. tcConn[c] \in TcConns
      BY TcConnType
    <2>2. QED
      BY <2>1 DEF TcConns
  <1> HIDE DEF N
  <1>4. QED
    BY <1>1, <1>2, <1>3 DEF TcSame

\* How many of the backlog find room in conns[].
TcFits ==
    IF Len(tcBacklog) < TcMAXCONN - (tcBefore + Len(tcTab)) THEN Len(tcBacklog)
    ELSE TcMAXCONN - (tcBefore + Len(tcTab))

LEMMA TcJoin ==
  ASSUME NEW S, NEW s \in Seq(S), NEW t \in Seq(S)
  PROVE  /\ s \o t \in Seq(S) /\ Len(s \o t) = Len(s) + Len(t)
         /\ \A j \in 1..Len(s) : (s \o t)[j] = s[j]
         /\ \A k \in 1..Len(t) : (s \o t)[Len(s) + k] = t[k]
  <1>1. s \o t \in Seq(S) /\ Len(s \o t) = Len(s) + Len(t) /\ Len(s) \in Nat /\ Len(t) \in Nat
    OBVIOUS
  <1>2. \A j \in 1..Len(s) : (s \o t)[j] = s[j]
    OBVIOUS
  <1>3. \A k \in 1..Len(t) : (s \o t)[Len(s) + k] = t[k]
    OBVIOUS
  <1>4. QED
    BY <1>1, <1>2, <1>3

\* epoll_wait(): who is accepted is RUNNABLE or closed, an event wakes a fiber
\* in WAIT_IO only.
LEMMA TcEpollStep ==
  ASSUME TcIndInv, TcEpoll
  PROVE  /\ UNCHANGED <<tcMode, tcDev, tcBefore, tcCli, tcIn, tcOut, tcSlot, tcCur>>
         /\ TcCoro /\ tcCur = "sched" /\ tcAt' = 2 /\ tcBacklog' = <<>>
         /\ TcFits \in 0..Len(tcBacklog) /\ tcBefore + Len(tcTab) + TcFits <= TcMAXCONN
         /\ tcTab' \in Seq(TcClient) /\ Len(tcTab') = Len(tcTab) + TcFits
         /\ \A j \in 1..Len(tcTab) : tcTab'[j] = tcTab[j]
         /\ \A k \in 1..TcFits : tcTab'[Len(tcTab) + k] = tcBacklog[k]
         /\ tcConn' \in [TcClient -> TcConns]
         /\ \A c \in TcClient : TcSame(c) /\ tcConn'[c].enc = tcConn[c].enc
         /\ \A k \in 1..Len(tcBacklog) :
                tcConn'[tcBacklog[k]].st = IF k <= TcFits THEN "RUNNABLE" ELSE "closed"
         /\ \A c \in TcClient : (\A k \in 1..Len(tcBacklog) : tcBacklog[k] # c) =>
                tcConn'[c].st = tcConn[c].st \/ (tcConn[c].st = "WAIT_IO" /\ tcConn'[c].st = "RUNNABLE")
  <1> DEFINE fit == SubSeq(tcBacklog, 1, TcFits)
             N(c) == IF \E k \in 1..Len(tcBacklog) : tcBacklog[k] = c
                     THEN TcAccepted(c, \E k \in 1..Len(fit) : fit[k] = c)
                     ELSE IF TcReady(c) THEN TcEvent(c) ELSE tcConn[c]
  <1>1. /\ TcTypeOK /\ tcBacklog \in Seq(TcClient) /\ tcTab \in Seq(TcClient) /\ tcBefore \in Nat
        /\ TcMAXCONN \in Nat \ {0}
    BY TcAssumption DEF TcIndInv, TcTypeOK
  <1>2. /\ UNCHANGED <<tcMode, tcDev, tcBefore, tcCli, tcIn, tcOut, tcSlot, tcCur>>
        /\ TcCoro /\ tcCur = "sched" /\ tcAt' = 2 /\ tcBacklog' = <<>>
    BY DEF TcEpoll
  <1>3. tcBefore + Len(tcTab) <= TcMAXCONN
    BY <1>2 DEF TcIndInv, TcTabInv
  <1>4. TcFits \in 0..Len(tcBacklog) /\ tcBefore + Len(tcTab) + TcFits <= TcMAXCONN
    <2>1. Len(tcBacklog) \in Nat /\ Len(tcTab) \in Nat
      BY <1>1
    <2>2. TcFits = IF Len(tcBacklog) < TcMAXCONN - (tcBefore + Len(tcTab)) THEN Len(tcBacklog)
                   ELSE TcMAXCONN - (tcBefore + Len(tcTab))
      BY DEF TcFits
    <2> DEFINE a == Len(tcBacklog)
               l == Len(tcTab)
               f == TcFits
    <2>3. a \in Nat /\ l \in Nat /\ tcBefore + l <= TcMAXCONN
          /\ f = IF a < TcMAXCONN - (tcBefore + l) THEN a ELSE TcMAXCONN - (tcBefore + l)
      BY <1>3, <2>1, <2>2
    <2> HIDE DEF a, l, f
    <2>4. f \in 0..a /\ tcBefore + l + f <= TcMAXCONN
      BY <1>1, <2>3
    <2>5. QED
      BY <2>4 DEF a, l, f
  <1>5. tcConn' = [c \in TcClient |-> N(c)] /\ tcTab' = tcTab \o fit
    <2>1. tcConn' = [c \in TcClient |->
                        IF c \in {tcBacklog[k] : k \in 1..Len(tcBacklog)}
                        THEN TcAccepted(c, \E k \in 1..Len(fit) : fit[k] = c)
                        ELSE IF TcReady(c) THEN TcEvent(c) ELSE tcConn[c]]
          /\ tcTab' = tcTab \o fit
      BY DEF TcEpoll, TcFits
    <2>2. \A c : c \in {tcBacklog[k] : k \in 1..Len(tcBacklog)} <=> \E k \in 1..Len(tcBacklog) : tcBacklog[k] = c
      OBVIOUS
    <2>3. QED
      BY <2>1, <2>2
  <1>6. fit \in Seq(TcClient) /\ Len(fit) = TcFits /\ \A k \in 1..TcFits : fit[k] = tcBacklog[k]
    BY <1>1, <1>4
  <1> HIDE DEF fit
  <1>7. /\ tcTab' \in Seq(TcClient) /\ Len(tcTab') = Len(tcTab) + TcFits
        /\ \A j \in 1..Len(tcTab) : tcTab'[j] = tcTab[j]
        /\ \A k \in 1..TcFits : tcTab'[Len(tcTab) + k] = tcBacklog[k]
    <2>1. tcTab' = tcTab \o fit /\ tcTab \in Seq(TcClient) /\ fit \in Seq(TcClient)
      BY <1>1, <1>5, <1>6
    <2>2. /\ tcTab' \in Seq(TcClient) /\ Len(tcTab') = Len(tcTab) + Len(fit)
          /\ \A j \in 1..Len(tcTab) : tcTab'[j] = tcTab[j]
          /\ \A k \in 1..Len(fit) : tcTab'[Len(tcTab) + k] = fit[k]
      BY <2>1, TcJoin
    <2>3. QED
      BY <1>6, <2>2
  <1>8. ASSUME NEW c \in TcClient
        PROVE  /\ N(c) \in TcConns /\ N(c).pc = tcConn[c].pc /\ N(c).buf = tcConn[c].buf /\ N(c).put = tcConn[c].put
               /\ N(c).seq = tcConn[c].seq /\ N(c).mask = tcConn[c].mask /\ N(c).enc = tcConn[c].enc
               /\ IF \E k \in 1..Len(tcBacklog) : tcBacklog[k] = c
                  THEN N(c).st = IF \E k \in 1..Len(fit) : fit[k] = c THEN "RUNNABLE" ELSE "closed"
                  ELSE N(c).st = tcConn[c].st \/ (tcConn[c].st = "WAIT_IO" /\ N(c).st = "RUNNABLE")
    <2>1. tcConn[c] \in TcConns
      BY <1>1, TcConnType
    <2>2. QED
      BY <2>1 DEF TcConns, TcAccepted, TcEvent
  <1> HIDE DEF N
  <1>9. ASSUME NEW k \in 1..Len(tcBacklog)
        PROVE  tcConn'[tcBacklog[k]].st = IF k <= TcFits THEN "RUNNABLE" ELSE "closed"
    <2>1. tcBacklog[k] \in TcClient
      BY <1>1
    <2>2. (\E i \in 1..Len(fit) : fit[i] = tcBacklog[k]) <=> k <= TcFits
      <3>1. \A i \in 1..Len(tcBacklog) : tcBacklog[i] = tcBacklog[k] => i = k
        BY DEF TcIndInv, TcTabInv
      <3>2. \A i \in 1..TcFits : i \in 1..Len(tcBacklog)
        BY <1>1, <1>4
      <3>3. k <= TcFits => k \in 1..TcFits
        BY <1>1, <1>4
      <3>4. \A i \in 1..TcFits : i <= TcFits
        BY <1>1, <1>4
      <3>5. QED
        BY <1>6, <3>1, <3>2, <3>3, <3>4
    <2>3. QED
      BY <1>5, <1>8, <2>1, <2>2
  <1>10. /\ tcConn' \in [TcClient -> TcConns]
         /\ \A c \in TcClient : TcSame(c) /\ tcConn'[c].enc = tcConn[c].enc
         /\ \A c \in TcClient : (\A k \in 1..Len(tcBacklog) : tcBacklog[k] # c) =>
                tcConn'[c].st = tcConn[c].st \/ (tcConn[c].st = "WAIT_IO" /\ tcConn'[c].st = "RUNNABLE")
    BY <1>5, <1>8 DEF TcSame
  <1>11. QED
    BY <1>2, <1>4, <1>7, <1>9, <1>10

\* accept() and a thread.
LEMMA TcAcceptStep ==
  ASSUME TcTypeOK, TcAcceptThread
  PROVE  /\ UNCHANGED <<tcMode, tcDev, tcBefore, tcCli, tcIn, tcOut, tcSlot, tcAt, tcCur>>
         /\ ~TcCoro /\ tcBacklog # <<>> /\ tcBacklog[1] \in TcClient
         /\ tcBacklog' \in Seq(TcClient) /\ Len(tcBacklog) = Len(tcBacklog') + 1
         /\ \A i \in 1..Len(tcBacklog') : tcBacklog'[i] = tcBacklog[i + 1]
         /\ tcTab' \in Seq(TcClient) /\ Len(tcTab') = Len(tcTab) + 1 /\ tcTab'[Len(tcTab) + 1] = tcBacklog[1]
         /\ \A j \in 1..Len(tcTab) : tcTab'[j] = tcTab[j]
         /\ tcConn' \in [TcClient -> TcConns]
         /\ \A c \in TcClient : TcSame(c) /\ tcConn'[c].enc = tcConn[c].enc
         /\ \A c \in TcClient : tcConn'[c].st = IF c = tcBacklog[1] THEN "thread" ELSE tcConn[c].st
  <1> DEFINE h == Head(tcBacklog)
             n == [tcConn[h] EXCEPT !.st = "thread"]
  <1>1. tcBacklog \in Seq(TcClient) /\ tcTab \in Seq(TcClient)
    BY DEF TcTypeOK
  <1>2. /\ UNCHANGED <<tcMode, tcDev, tcBefore, tcCli, tcIn, tcOut, tcSlot, tcAt, tcCur>>
        /\ ~TcCoro /\ tcBacklog # <<>> /\ tcBacklog' = Tail(tcBacklog) /\ tcTab' = Append(tcTab, h)
        /\ tcConn' = [tcConn EXCEPT ![h] = n]
    BY DEF TcAcceptThread
  <1>3. h \in TcClient /\ h = tcBacklog[1]
    BY <1>1, <1>2
  <1>4. /\ tcBacklog' \in Seq(TcClient) /\ Len(tcBacklog) = Len(tcBacklog') + 1
        /\ \A i \in 1..Len(tcBacklog') : tcBacklog'[i] = tcBacklog[i + 1]
    BY <1>1, <1>2
  <1>5. /\ tcTab' \in Seq(TcClient) /\ Len(tcTab') = Len(tcTab) + 1 /\ tcTab'[Len(tcTab) + 1] = h
        /\ \A j \in 1..Len(tcTab) : tcTab'[j] = tcTab[j]
    BY <1>1, <1>2, <1>3
  <1>6. tcConn[h] \in TcConns
    BY <1>3, TcConnType
  <1> HIDE DEF h
  <1>7. /\ n \in TcConns /\ n.st = "thread" /\ n.pc = tcConn[h].pc /\ n.buf = tcConn[h].buf /\ n.put = tcConn[h].put
        /\ n.seq = tcConn[h].seq /\ n.mask = tcConn[h].mask /\ n.enc = tcConn[h].enc
    BY <1>6 DEF TcConns
  <1> HIDE DEF n
  <1>8. tcConn' \in [TcClient -> TcConns] /\ tcConn'[h] = n /\ \A d \in TcClient : d # h => tcConn'[d] = tcConn[d]
    BY <1>2, <1>3, <1>7 DEF TcTypeOK
  <1>9. \A c \in TcClient : TcSame(c) /\ tcConn'[c].enc = tcConn[c].enc
    BY <1>7, <1>8 DEF TcSame
  <1>10. \A c \in TcClient : tcConn'[c].st = IF c = h THEN "thread" ELSE tcConn[c].st
    BY <1>7, <1>8
  <1>11. QED
    BY <1>2, <1>3, <1>4, <1>5, <1>8, <1>9, <1>10

\* The device.
LEMMA TcDeviceStep ==
  ASSUME TcTypeOK, NEW i \in 0..(TcMAXCONN - 1), TcDevice(i) \/ TcKernel(i)
  PROVE  /\ UNCHANGED <<tcMode, tcDev, tcBefore, tcCli, tcIn, tcOut, tcBacklog, tcTab, tcAt, tcCur>>
         /\ tcConn' \in [TcClient -> TcConns]
         /\ \A c \in TcClient : TcSame(c) /\ tcConn'[c].st = tcConn[c].st
         /\ \A c \in TcClient : tcConn'[c].enc = IF tcDev = "gpu" /\ tcConn[c].pc = "result" /\ TcIdx(c) = i
                                                THEN tcConn[c].enc + 1 ELSE tcConn[c].enc
         /\ tcSlot[i].active
         /\ tcSlot' \in [0..(TcMAXCONN - 1) -> [active : BOOLEAN, done : BOOLEAN]]
         /\ tcSlot'[i].done /\ tcSlot'[i].active = (tcDev = "emu")
         /\ \A x \in 0..(TcMAXCONN - 1) : x # i => tcSlot'[x] = tcSlot[x]
  <1>1. tcSlot \in [0..(TcMAXCONN - 1) -> [active : BOOLEAN, done : BOOLEAN]] /\ tcConn \in [TcClient -> TcConns]
    BY DEF TcTypeOK
  <1>2. CASE TcDevice(i)
    <2> DEFINE n == [tcSlot[i] EXCEPT !.done = TRUE]
    <2>1. /\ UNCHANGED <<tcMode, tcDev, tcBefore, tcCli, tcIn, tcOut, tcBacklog, tcConn, tcTab, tcAt, tcCur>>
          /\ tcDev = "emu" /\ tcSlot[i].active /\ tcSlot' = [tcSlot EXCEPT ![i] = n]
      BY <1>2 DEF TcDevice
    <2>2. n \in [active : BOOLEAN, done : BOOLEAN] /\ n.done = TRUE /\ n.active = tcSlot[i].active
      BY <1>1
    <2> HIDE DEF n
    <2>3. /\ tcSlot' \in [0..(TcMAXCONN - 1) -> [active : BOOLEAN, done : BOOLEAN]] /\ tcSlot'[i] = n
          /\ \A x \in 0..(TcMAXCONN - 1) : x # i => tcSlot'[x] = tcSlot[x]
      BY <1>1, <2>1, <2>2
    <2>4. \A c \in TcClient : TcSame(c) /\ tcConn'[c].st = tcConn[c].st /\ tcConn'[c].enc = tcConn[c].enc
      BY <2>1 DEF TcSame
    <2>5. tcSlot[i].active = TRUE
      BY <1>1, <2>1
    <2>6. tcSlot'[i].done /\ tcSlot'[i].active = (tcDev = "emu")
      BY <2>1, <2>2, <2>3, <2>5
    <2>7. tcDev # "gpu"
      BY <2>1
    <2>8. QED
      BY <1>1, <2>1, <2>3, <2>4, <2>6, <2>7
  <1>3. CASE TcKernel(i)
    <2> DEFINE N(c) == IF tcConn[c].pc = "result" /\ TcIdx(c) = i THEN [tcConn[c] EXCEPT !.enc = @ + 1] ELSE tcConn[c]
               n == [active |-> FALSE, done |-> TRUE]
    <2>1. /\ UNCHANGED <<tcMode, tcDev, tcBefore, tcCli, tcIn, tcOut, tcBacklog, tcTab, tcAt, tcCur>>
          /\ tcDev = "gpu" /\ tcSlot[i].active /\ tcSlot' = [tcSlot EXCEPT ![i] = n]
          /\ tcConn' = [c \in TcClient |-> N(c)]
      BY <1>3 DEF TcKernel
    <2>2. /\ tcSlot' \in [0..(TcMAXCONN - 1) -> [active : BOOLEAN, done : BOOLEAN]] /\ tcSlot'[i] = n
          /\ \A x \in 0..(TcMAXCONN - 1) : x # i => tcSlot'[x] = tcSlot[x]
      BY <1>1, <2>1
    <2>3. ASSUME NEW c \in TcClient
          PROVE  /\ N(c) \in TcConns /\ N(c).pc = tcConn[c].pc /\ N(c).buf = tcConn[c].buf /\ N(c).put = tcConn[c].put
                 /\ N(c).seq = tcConn[c].seq /\ N(c).mask = tcConn[c].mask /\ N(c).st = tcConn[c].st
                 /\ N(c).enc = IF tcConn[c].pc = "result" /\ TcIdx(c) = i THEN tcConn[c].enc + 1 ELSE tcConn[c].enc
      <3>1. tcConn[c] \in TcConns /\ tcConn[c].enc + 1 \in Nat
        <4>1. tcConn[c] \in TcConns /\ tcConn[c].enc \in Nat
          BY TcConnType
        <4>2. QED
          BY <4>1
      <3> DEFINE e == tcConn[c].enc + 1
      <3>2. N(c) = IF tcConn[c].pc = "result" /\ TcIdx(c) = i THEN [tcConn[c] EXCEPT !.enc = e] ELSE tcConn[c]
        BY <3>1 DEF TcConns
      <3>3. e \in Nat
        BY <3>1
      <3> HIDE DEF N, e
      <3>4. QED
        <4>1. CASE tcConn[c].pc = "result" /\ TcIdx(c) = i
          BY <3>1, <3>2, <3>3, <4>1 DEF TcConns, e
        <4>2. CASE ~(tcConn[c].pc = "result" /\ TcIdx(c) = i)
          BY <3>1, <3>2, <4>2
        <4>3. QED
          BY <4>1, <4>2
    <2> HIDE DEF N
    <2>4. /\ tcConn' \in [TcClient -> TcConns]
          /\ \A c \in TcClient : TcSame(c) /\ tcConn'[c].st = tcConn[c].st
          /\ \A c \in TcClient : tcConn'[c].enc = IF tcConn[c].pc = "result" /\ TcIdx(c) = i
                                                 THEN tcConn[c].enc + 1 ELSE tcConn[c].enc
      BY <2>1, <2>3 DEF TcSame
    <2>5. tcSlot'[i].done /\ tcSlot'[i].active = (tcDev = "emu")
      BY <2>1, <2>2
    <2>6. QED
      BY <2>1, <2>2, <2>4, <2>5
  <1>4. QED
    BY <1>2, <1>3

\* Type correctness.
LEMMA TcTypeKept ==
  ASSUME TcIndInv, TcNext PROVE TcTypeOK'
  <1>1. /\ TcTypeOK /\ tcMode \in {"coro", "block"} /\ tcDev \in {"emu", "gpu"} /\ tcBefore \in {0, TcMAXCONN - 1}
        /\ tcCli \in [TcClient -> TcClis] /\ tcIn \in [TcClient -> TcChunks] /\ tcOut \in [TcClient -> Seq(TcReplyChunks)]
        /\ tcBacklog \in Seq(TcClient) /\ tcTab \in Seq(TcClient) /\ tcConn \in [TcClient -> TcConns]
        /\ tcSlot \in [0..(TcMAXCONN - 1) -> [active : BOOLEAN, done : BOOLEAN]]
        /\ tcAt \in Nat /\ tcCur \in TcClient \cup {"sched"}
    BY DEF TcIndInv, TcTypeOK, TcClis
  <1>2. ASSUME NEW c \in TcClient, TcClientAct(c) PROVE TcTypeOK'
    <2>1. tcBacklog' \in Seq(TcClient)
      <3>1. tcBacklog' \in {tcBacklog, Append(tcBacklog, c)}
        BY <1>1, <1>2, TcClientEffect
      <3>2. Append(tcBacklog, c) \in Seq(TcClient)
        BY <1>1, <1>2
      <3>3. QED
        BY <1>1, <3>1, <3>2
    <2>2. QED
      BY <1>1, <1>2, <2>1, TcClientEffect DEF TcTypeOK, TcClis
  <1>3. ASSUME NEW c \in TcClient, TcLive(c), TcServes(c) PROVE TcTypeOK'
    <2>1. /\ UNCHANGED <<tcMode, tcDev, tcBefore, tcBacklog, tcTab, tcAt, tcCli>>
          /\ tcConn' \in [TcClient -> TcConns] /\ tcCur' \in TcClient \cup {"sched"}
      BY <1>1, <1>3, TcServeEffect
    <2>2. tcIn' \in [TcClient -> TcChunks] /\ tcOut' \in [TcClient -> Seq(TcReplyChunks)]
          /\ tcSlot' \in [0..(TcMAXCONN - 1) -> [active : BOOLEAN, done : BOOLEAN]]
      <3>1. CASE TcRead(c)
        <4>1. tcOut' = tcOut /\ tcSlot' = tcSlot
          BY <3>1 DEF TcRead
        <4>2. CASE tcIn[c] # <<>> /\ tcIn' = [tcIn EXCEPT ![c] = Tail(@)]
          <5>1. Tail(tcIn[c]) \in TcChunks
            BY <1>1, <4>2 DEF TcChunks
          <5>2. QED
            BY <1>1, <4>1, <4>2, <5>1
        <4>3. QED
          BY <1>1, <3>1, <4>1, <4>2, TcReadStep
      <3>2. CASE TcOffload(c)
        <4>1. /\ tcOut' = tcOut /\ tcIn' = tcIn
              /\ tcSlot' = [tcSlot EXCEPT ![TcIdx(c)] = [active |-> TRUE, done |-> FALSE]]
          BY <3>2 DEF TcOffload
        <4>2. QED
          BY <1>1, <4>1
      <3>3. CASE TcWrite(c)
        <4>1. tcIn' = tcIn /\ tcSlot' = tcSlot
          BY <3>3 DEF TcWrite
        <4>2. QED
          <5>1. CASE tcOut' = tcOut
            BY <1>1, <4>1, <5>1
          <5>2. CASE tcOut' # tcOut
            <6> DEFINE k == tcConn[c]
                       x == k.buf[k.put + 1]
                       y == [r |-> [n |-> x[1], enc |-> k.enc, mask |-> k.mask], h |-> x[2]]
            <6>1. tcOut' = [tcOut EXCEPT ![c] = Append(@, y)]
              BY <1>1, <3>3, <5>2, TcWriteStep
            <6>2. k.pc = "write"
              BY <1>1, <3>3, TcWriteStep
            <6>3. k.put \in 0..1 /\ Len(k.buf) = 2
              BY <6>2 DEF TcIndInv, TcPlaceInv
            <6>4. k.buf \in Seq(Nat \X Nat) /\ k.enc \in Nat /\ k.mask \in Nat
              BY <1>1, TcConnType DEF TcChunks
            <6>5. x \in Nat \X Nat
              BY <6>3, <6>4
            <6> HIDE DEF x, k
            <6>6. y \in TcReplyChunks
              BY <6>4, <6>5 DEF TcReplyChunks
            <6> HIDE DEF y
            <6>7. Append(tcOut[c], y) \in Seq(TcReplyChunks)
              BY <1>1, <6>6
            <6>8. QED
              BY <1>1, <4>1, <6>1, <6>7
          <5>3. QED
            BY <5>1, <5>2
      <3>4. CASE TcResult(c)
        <4>1. /\ tcOut' = tcOut /\ tcIn' = tcIn
              /\ tcSlot' = IF TcCoro THEN tcSlot ELSE [tcSlot EXCEPT ![TcIdx(c)].active = FALSE]
          BY <3>4 DEF TcResult
        <4>2. QED
          BY <1>1, <4>1
      <3>5. CASE TcResultGpu(c)
        BY <1>1, <3>5 DEF TcResultGpu
      <3>6. QED
        BY <1>3, <3>1, <3>2, <3>3, <3>4, <3>5 DEF TcServes
    <2>3. QED
      BY <1>1, <2>1, <2>2 DEF TcTypeOK, TcClis
  <1>4. CASE TcScan \/ TcScanGpu
    <2>1. tcSlot' \in [0..(TcMAXCONN - 1) -> [active : BOOLEAN, done : BOOLEAN]]
      <3>1. CASE TcScan
        <4>1. PICK A : tcSlot' = [i \in DOMAIN tcSlot |-> IF i \in A THEN [tcSlot[i] EXCEPT !.active = FALSE] ELSE tcSlot[i]]
          <5> DEFINE over == {c \in TcClient : tcConn[c].st = "WAIT_OFF" /\ tcSlot[TcIdx(c)].done}
                     A == {i \in DOMAIN tcSlot : \E c \in over : TcIdx(c) = i}
          <5>1. tcSlot' = [i \in DOMAIN tcSlot |->
                         IF \E c \in over : TcIdx(c) = i THEN [tcSlot[i] EXCEPT !.active = FALSE] ELSE tcSlot[i]]
            BY <3>1 DEF TcScan
          <5>2. \A i \in DOMAIN tcSlot : i \in A <=> \E c \in over : TcIdx(c) = i
            OBVIOUS
          <5> HIDE DEF over, A
          <5>3. tcSlot' = [i \in DOMAIN tcSlot |-> IF i \in A THEN [tcSlot[i] EXCEPT !.active = FALSE] ELSE tcSlot[i]]
            BY <5>1, <5>2
          <5>4. QED
            BY <5>3
        <4>2. QED
          BY <1>1, <4>1
      <3>2. CASE TcScanGpu
        BY <1>1, <3>2 DEF TcScanGpu
      <3>3. QED
        BY <1>4, <3>1, <3>2
    <2>2. /\ UNCHANGED <<tcMode, tcDev, tcBefore, tcCli, tcIn, tcOut, tcBacklog, tcTab, tcCur>>
          /\ tcAt' \in Nat /\ tcConn' \in [TcClient -> TcConns]
      BY <1>1, <1>4, TcScanStep
    <2>3. QED
      BY <1>1, <2>1, <2>2 DEF TcTypeOK, TcClis
  <1>5. CASE TcEpoll
    <2>1. /\ UNCHANGED <<tcMode, tcDev, tcBefore, tcCli, tcIn, tcOut, tcSlot, tcCur>>
          /\ tcAt' \in Nat /\ tcBacklog' \in Seq(TcClient) /\ tcTab' \in Seq(TcClient)
          /\ tcConn' \in [TcClient -> TcConns]
      BY <1>5, TcEpollStep
    <2>2. QED
      BY <1>1, <2>1 DEF TcTypeOK, TcClis
  <1>6. CASE TcRun
    <2>1. /\ UNCHANGED <<tcMode, tcDev, tcBefore, tcCli, tcIn, tcOut, tcBacklog, tcConn, tcTab, tcSlot>>
          /\ \/ tcAt' = 0 /\ tcCur' = tcCur
             \/ \E i \in (tcAt - 1)..Len(tcTab) : tcAt >= 2 /\ tcAt' = i + 2 /\ tcCur' = tcTab[i]
      BY <1>6 DEF TcRun
    <2>2. tcAt' \in Nat /\ tcCur' \in TcClient \cup {"sched"}
      <3>1. CASE tcAt' = 0 /\ tcCur' = tcCur
        BY <1>1, <3>1
      <3>2. ASSUME NEW i \in (tcAt - 1)..Len(tcTab), tcAt >= 2, tcAt' = i + 2, tcCur' = tcTab[i]
            PROVE  tcAt' \in Nat /\ tcCur' \in TcClient
        <4>1. i \in 1..Len(tcTab)
          BY <1>1, <3>2
        <4>2. QED
          BY <1>1, <3>2, <4>1
      <3>3. QED
        BY <2>1, <3>1, <3>2
    <2>3. QED
      BY <1>1, <2>1, <2>2 DEF TcTypeOK, TcClis
  <1>7. CASE TcAcceptThread
    <2>1. /\ UNCHANGED <<tcMode, tcDev, tcBefore, tcCli, tcIn, tcOut, tcSlot, tcAt, tcCur>>
          /\ tcBacklog' \in Seq(TcClient) /\ tcTab' \in Seq(TcClient) /\ tcConn' \in [TcClient -> TcConns]
      BY <1>1, <1>7, TcAcceptStep
    <2>2. QED
      BY <1>1, <2>1 DEF TcTypeOK, TcClis
  <1>8. ASSUME NEW i \in 0..(TcMAXCONN - 1), TcDevice(i) \/ TcKernel(i) PROVE TcTypeOK'
    <2>1. /\ UNCHANGED <<tcMode, tcDev, tcBefore, tcCli, tcIn, tcOut, tcBacklog, tcTab, tcAt, tcCur>>
          /\ tcConn' \in [TcClient -> TcConns]
          /\ tcSlot' \in [0..(TcMAXCONN - 1) -> [active : BOOLEAN, done : BOOLEAN]]
      BY <1>1, <1>8, TcDeviceStep
    <2>2. QED
      BY <1>1, <2>1 DEF TcTypeOK, TcClis
  <1>9. QED
    BY <1>2, <1>3, <1>4, <1>5, <1>6, <1>7, <1>8, TcStepCases DEF TcClientAct

LEMMA TcTabs ==
  ASSUME TcIndInv
  PROVE  /\ tcTab \in Seq(TcClient) /\ Len(tcTab) \in Nat /\ \A j \in 1..Len(tcTab) : tcTab[j] \in TcClient
         /\ tcBacklog \in Seq(TcClient) /\ Len(tcBacklog) \in Nat
         /\ \A k \in 1..Len(tcBacklog) : tcBacklog[k] \in TcClient
         /\ \A j \in 1..Len(tcTab), k \in 1..Len(tcBacklog) : tcTab[j] # tcBacklog[k]
  <1>1. tcTab \in Seq(TcClient) /\ tcBacklog \in Seq(TcClient)
    BY DEF TcIndInv, TcTypeOK
  <1>2. /\ \A j \in 1..Len(tcTab) : tcConn[tcTab[j]].st # "none"
        /\ \A k \in 1..Len(tcBacklog) : tcConn[tcBacklog[k]].st = "none"
    BY DEF TcIndInv, TcTabInv
  <1>3. \A j \in 1..Len(tcTab), k \in 1..Len(tcBacklog) : tcTab[j] # tcBacklog[k]
    BY <1>2
  <1>4. QED
    BY <1>1, <1>3

LEMMA TcEpollTab ==
  ASSUME TcIndInv, TcEpoll
  PROVE  TcTabInv' /\ TcRunInv'
  <1>1. /\ TcTabInv /\ TcRunInv
    BY DEF TcIndInv
  <1>2. /\ UNCHANGED <<tcMode, tcBefore, tcCli, tcCur>> /\ tcCur = "sched" /\ tcBacklog' = <<>>
        /\ TcFits \in 0..Len(tcBacklog) /\ tcBefore + Len(tcTab) + TcFits <= TcMAXCONN
        /\ tcTab' \in Seq(TcClient) /\ Len(tcTab') = Len(tcTab) + TcFits /\ TcCoro
        /\ \A j \in 1..Len(tcTab) : tcTab'[j] = tcTab[j]
        /\ \A k \in 1..TcFits : tcTab'[Len(tcTab) + k] = tcBacklog[k]
        /\ \A k \in 1..Len(tcBacklog) :
               tcConn'[tcBacklog[k]].st = IF k <= TcFits THEN "RUNNABLE" ELSE "closed"
        /\ \A c \in TcClient : (\A k \in 1..Len(tcBacklog) : tcBacklog[k] # c) =>
               tcConn'[c].st = tcConn[c].st \/ (tcConn[c].st = "WAIT_IO" /\ tcConn'[c].st = "RUNNABLE")
    BY TcEpollStep
  <1>3. \A c \in TcClient : tcConn'[c].pc = tcConn[c].pc
    BY TcEpollStep DEF TcSame
  <1>4. /\ Len(tcTab) \in Nat /\ \A j \in 1..Len(tcTab) : tcTab[j] \in TcClient
        /\ Len(tcBacklog) \in Nat /\ \A k \in 1..Len(tcBacklog) : tcBacklog[k] \in TcClient
        /\ \A j \in 1..Len(tcTab), k \in 1..Len(tcBacklog) : tcTab[j] # tcBacklog[k]
    BY TcTabs
  <1>5. ASSUME NEW j \in 1..Len(tcTab')
        PROVE  \/ j \in 1..Len(tcTab) /\ tcTab'[j] = tcTab[j]
               \/ \E k \in 1..TcFits : k \in 1..Len(tcBacklog) /\ j = Len(tcTab) + k /\ tcTab'[j] = tcBacklog[k]
    <2>1. CASE j \in 1..Len(tcTab)
      BY <1>2, <2>1
    <2>2. CASE j \notin 1..Len(tcTab)
      <3> DEFINE k == j - Len(tcTab)
      <3>1. k \in 1..TcFits /\ k \in 1..Len(tcBacklog) /\ j = Len(tcTab) + k
        BY <1>2, <1>4, <1>5, <2>2
      <3> HIDE DEF k
      <3>2. QED
        BY <1>2, <3>1
    <2>3. QED
      BY <2>1, <2>2
  <1>6. \A i, j \in 1..Len(tcTab') : tcTab'[i] = tcTab'[j] => i = j
    <2>1. SUFFICES ASSUME NEW i \in 1..Len(tcTab'), NEW j \in 1..Len(tcTab'), tcTab'[i] = tcTab'[j] PROVE i = j
      OBVIOUS
    <2>2. CASE i \in 1..Len(tcTab) /\ tcTab'[i] = tcTab[i]
      <3>1. j \in 1..Len(tcTab) /\ tcTab'[j] = tcTab[j]
        BY <1>4, <1>5, <2>1, <2>2
      <3>2. \A x, y \in 1..Len(tcTab) : tcTab[x] = tcTab[y] => x = y
        BY <1>1 DEF TcTabInv
      <3>3. QED
        BY <2>1, <2>2, <3>1, <3>2
    <2>3. CASE ~(i \in 1..Len(tcTab) /\ tcTab'[i] = tcTab[i])
      <3>1. PICK k \in 1..TcFits : k \in 1..Len(tcBacklog) /\ i = Len(tcTab) + k /\ tcTab'[i] = tcBacklog[k]
        BY <1>5, <2>3
      <3>2. PICK l \in 1..TcFits : l \in 1..Len(tcBacklog) /\ j = Len(tcTab) + l /\ tcTab'[j] = tcBacklog[l]
        BY <1>4, <1>5, <2>1, <3>1
      <3>3. k = l
        BY <1>1, <2>1, <3>1, <3>2 DEF TcTabInv
      <3>4. QED
        BY <3>1, <3>2, <3>3
    <2>4. QED
      BY <2>2, <2>3
  <1>7. \A i \in 1..Len(tcTab') : tcConn'[tcTab'[i]].st # "none"
    <2>1. TAKE i \in 1..Len(tcTab')
    <2>2. CASE i \in 1..Len(tcTab) /\ tcTab'[i] = tcTab[i]
      <3>1. tcConn[tcTab[i]].st # "none"
        BY <1>1, <2>2 DEF TcTabInv
      <3>2. tcTab[i] \in TcClient /\ \A k \in 1..Len(tcBacklog) : tcBacklog[k] # tcTab[i]
        BY <1>4, <2>2
      <3>3. QED
        BY <1>2, <2>2, <3>1, <3>2
    <2>3. CASE ~(i \in 1..Len(tcTab) /\ tcTab'[i] = tcTab[i])
      BY <1>2, <1>5, <2>3
    <2>4. QED
      BY <2>2, <2>3
  <1>8. \A c \in TcClient : tcCli'[c].ph = "new" => tcConn'[c].st = "none"
    BY <1>1, <1>2 DEF TcTabInv
  <1>9. \A c \in TcClient : (\A i \in 1..Len(tcTab') : tcTab'[i] # c) =>
            tcConn'[c].st \in {"none", "closed"} /\ tcConn'[c].pc = "read"
    <2>1. SUFFICES ASSUME NEW c \in TcClient, \A i \in 1..Len(tcTab') : tcTab'[i] # c
                   PROVE  tcConn'[c].st \in {"none", "closed"} /\ tcConn'[c].pc = "read"
      OBVIOUS
    <2>2. \A i \in 1..Len(tcTab) : i \in 1..Len(tcTab') /\ tcTab[i] # c
      BY <1>2, <1>4, <2>1
    <2>3. tcConn[c].st \in {"none", "closed"} /\ tcConn[c].pc = "read"
      BY <1>1, <2>1, <2>2 DEF TcTabInv
    <2>4. CASE \E k \in 1..Len(tcBacklog) : tcBacklog[k] = c
      <3>1. PICK k \in 1..Len(tcBacklog) : tcBacklog[k] = c
        BY <2>4
      <3>2. ~(k <= TcFits)
        <4>1. SUFFICES ASSUME k <= TcFits PROVE FALSE
          OBVIOUS
        <4>2. k \in 1..TcFits /\ Len(tcTab) + k \in 1..Len(tcTab')
          BY <1>2, <1>4, <3>1, <4>1
        <4>3. QED
          BY <1>2, <2>1, <3>1, <4>2
      <3>3. QED
        BY <1>2, <1>3, <2>1, <2>3, <3>1, <3>2
    <2>5. CASE \A k \in 1..Len(tcBacklog) : tcBacklog[k] # c
      BY <1>2, <1>3, <2>1, <2>3, <2>5
    <2>6. QED
      BY <2>4, <2>5
  <1>10. tcBefore' + Len(tcTab') <= TcMAXCONN
    <2>1. tcBefore \in Nat
      BY TcAssumption DEF TcIndInv, TcTypeOK
    <2>2. QED
      BY <1>2, <1>4, <2>1
  <1>11. Len(tcBacklog') = 0
    BY <1>2
  <1>12. TcTabInv'
    BY <1>6, <1>7, <1>8, <1>9, <1>10, <1>11 DEF TcTabInv
  <1>13. \A c \in TcClient : tcConn'[c].st # "thread"
    <2>1. TAKE c \in TcClient
    <2>2. tcConn[c].st # "thread"
      BY <1>1, <1>2 DEF TcRunInv
    <2>3. QED
      BY <1>2, <2>2
  <1>14. TcRunInv'
    BY <1>2, <1>13 DEF TcRunInv
  <1>15. QED
    BY <1>12, <1>14

LEMMA TcAcceptTab ==
  ASSUME TcIndInv, TcAcceptThread
  PROVE  TcTabInv' /\ TcRunInv'
  <1>1. TcTypeOK /\ TcTabInv /\ TcRunInv
    BY DEF TcIndInv
  <1> DEFINE h == tcBacklog[1]
  <1>2. /\ UNCHANGED <<tcMode, tcCli, tcCur>>
        /\ ~TcCoro /\ h \in TcClient /\ Len(tcBacklog) = Len(tcBacklog') + 1 /\ tcBacklog' \in Seq(TcClient)
        /\ \A i \in 1..Len(tcBacklog') : tcBacklog'[i] = tcBacklog[i + 1]
        /\ Len(tcTab') = Len(tcTab) + 1 /\ tcTab'[Len(tcTab) + 1] = h
        /\ \A j \in 1..Len(tcTab) : tcTab'[j] = tcTab[j]
        /\ \A c \in TcClient : tcConn'[c].st = IF c = h THEN "thread" ELSE tcConn[c].st
    BY <1>1, TcAcceptStep
  <1>3. \A c \in TcClient : tcConn'[c].pc = tcConn[c].pc
    BY <1>1, TcAcceptStep DEF TcSame
  <1>4. /\ Len(tcTab) \in Nat /\ \A j \in 1..Len(tcTab) : tcTab[j] \in TcClient
        /\ Len(tcBacklog) \in Nat /\ \A k \in 1..Len(tcBacklog) : tcBacklog[k] \in TcClient
        /\ \A j \in 1..Len(tcTab), k \in 1..Len(tcBacklog) : tcTab[j] # tcBacklog[k]
    BY TcTabs
  <1>5. Len(tcBacklog') \in Nat /\ 1 \in 1..Len(tcBacklog)
    BY <1>2, <1>4
  <1>6. \A j \in 1..Len(tcTab) : tcTab[j] # h
    BY <1>4, <1>5
  <1>7. \A j \in 1..Len(tcTab') : j \in 1..Len(tcTab) \/ j = Len(tcTab) + 1
    BY <1>2, <1>4
  <1>8. \A i, j \in 1..Len(tcTab') : tcTab'[i] = tcTab'[j] => i = j
    BY <1>1, <1>2, <1>6, <1>7 DEF TcTabInv
  <1>9. \A i \in 1..Len(tcBacklog') : i + 1 \in 1..Len(tcBacklog) /\ i + 1 # 1
    BY <1>2, <1>5
  <1>10. \A i, j \in 1..Len(tcBacklog') : tcBacklog'[i] = tcBacklog'[j] => i = j
    <2>1. SUFFICES ASSUME NEW i \in 1..Len(tcBacklog'), NEW j \in 1..Len(tcBacklog'), tcBacklog'[i] = tcBacklog'[j]
                   PROVE  i = j
      OBVIOUS
    <2>2. i + 1 = j + 1
      BY <1>1, <1>2, <1>9, <2>1 DEF TcTabInv
    <2>3. QED
      BY <1>5, <2>2
  <1>11. \A i \in 1..Len(tcBacklog') : tcConn'[tcBacklog'[i]].st = "none" /\ tcCli'[tcBacklog'[i]].ph # "new"
    <2>1. TAKE i \in 1..Len(tcBacklog')
    <2>2. tcBacklog'[i] \in TcClient /\ tcBacklog'[i] # h
      BY <1>1, <1>2, <1>4, <1>5, <1>9 DEF TcTabInv
    <2>3. QED
      BY <1>1, <1>2, <1>9, <2>2 DEF TcTabInv
  <1>12. \A i \in 1..Len(tcTab') : tcConn'[tcTab'[i]].st # "none"
    BY <1>1, <1>2, <1>4, <1>7 DEF TcTabInv
  <1>13. \A c \in TcClient : tcCli'[c].ph = "new" => tcConn'[c].st = "none"
    <2>1. tcCli[h].ph # "new"
      BY <1>1, <1>5 DEF TcTabInv
    <2>2. QED
      BY <1>1, <1>2, <2>1 DEF TcTabInv
  <1>14. \A c \in TcClient : (\A i \in 1..Len(tcTab') : tcTab'[i] # c) =>
            tcConn'[c].st \in {"none", "closed"} /\ tcConn'[c].pc = "read"
    <2>1. SUFFICES ASSUME NEW c \in TcClient, \A i \in 1..Len(tcTab') : tcTab'[i] # c
                   PROVE  tcConn'[c].st \in {"none", "closed"} /\ tcConn'[c].pc = "read"
      OBVIOUS
    <2>2. (\A i \in 1..Len(tcTab) : i \in 1..Len(tcTab') /\ tcTab[i] # c) /\ Len(tcTab) + 1 \in 1..Len(tcTab')
      BY <1>2, <1>4, <2>1
    <2>3. tcConn[c].st \in {"none", "closed"} /\ tcConn[c].pc = "read" /\ c # h
      BY <1>1, <1>2, <2>1, <2>2 DEF TcTabInv
    <2>4. QED
      BY <1>2, <1>3, <2>1, <2>3
  <1> HIDE DEF h
  <1>15. ~TcCoro'
    BY <1>2 DEF TcCoro
  <1>16. TcTabInv'
    BY <1>8, <1>10, <1>11, <1>12, <1>13, <1>14, <1>15 DEF TcTabInv
  <1>17. TcRunInv'
    BY <1>1, <1>2, <1>15 DEF TcRunInv
  <1>18. QED
    BY <1>16, <1>17

LEMMA TcTabKept ==
  ASSUME TcIndInv, TcNext PROVE TcTabInv' /\ TcRunInv'
  <1>1. TcTypeOK /\ TcTabInv /\ TcRunInv
    BY DEF TcIndInv
  <1>2. /\ Len(tcTab) \in Nat /\ \A j \in 1..Len(tcTab) : tcTab[j] \in TcClient
        /\ Len(tcBacklog) \in Nat /\ \A k \in 1..Len(tcBacklog) : tcBacklog[k] \in TcClient
    BY TcTabs
  \* A step that changes states only between RUNNABLE and WAIT_OFF.
  <1>3. ASSUME UNCHANGED <<tcMode, tcBefore, tcCli, tcBacklog, tcTab>>,
               \A c \in TcClient : tcConn'[c].pc = tcConn[c].pc
                   /\ (tcConn'[c].st = tcConn[c].st \/ (tcConn[c].st = "WAIT_OFF" /\ tcConn'[c].st = "RUNNABLE"))
        PROVE  TcTabInv'
    <2>1. \A c \in TcClient : tcConn'[c].st = "none" <=> tcConn[c].st = "none"
      BY <1>3
    <2>2. /\ \A i \in 1..Len(tcBacklog) : tcConn'[tcBacklog[i]].st = "none"
          /\ \A i \in 1..Len(tcTab) : tcConn'[tcTab[i]].st # "none"
      BY <1>1, <1>2, <2>1 DEF TcTabInv
    <2>3. \A c \in TcClient : tcCli[c].ph = "new" => tcConn'[c].st = "none"
      BY <1>1, <2>1 DEF TcTabInv
    <2>4. \A c \in TcClient : (\A i \in 1..Len(tcTab) : tcTab[i] # c) =>
              tcConn'[c].st \in {"none", "closed"} /\ tcConn'[c].pc = "read"
      BY <1>1, <1>3 DEF TcTabInv
    <2>5. QED
      BY <1>1, <1>3, <2>2, <2>3, <2>4 DEF TcTabInv, TcCoro
  <1>4. CASE TcScan \/ TcScanGpu
    <2>1. /\ UNCHANGED <<tcMode, tcBefore, tcCli, tcBacklog, tcTab, tcCur>> /\ tcCur = "sched"
          /\ \A c \in TcClient :
                tcConn'[c].st = tcConn[c].st \/ (tcConn[c].st = "WAIT_OFF" /\ tcConn'[c].st = "RUNNABLE")
      BY <1>1, <1>4, TcScanStep
    <2>2. \A c \in TcClient : tcConn'[c].pc = tcConn[c].pc
      BY <1>1, <1>4, TcScanStep DEF TcSame
    <2>3. TcRunInv'
      BY <1>1, <2>1 DEF TcRunInv, TcCoro
    <2>4. QED
      BY <1>3, <2>1, <2>2, <2>3
  <1>5. CASE TcRun
    <2>1. /\ UNCHANGED <<tcMode, tcBefore, tcCli, tcBacklog, tcTab, tcConn>> /\ TcCoro
          /\ tcCur' = tcCur \/ tcConn[tcCur'].st = "RUNNABLE"
      BY <1>5 DEF TcRun
    <2>2. TcRunInv'
      BY <1>1, <2>1 DEF TcRunInv, TcCoro
    <2>3. QED
      BY <1>3, <2>1, <2>2
  <1>6. ASSUME NEW i \in 0..(TcMAXCONN - 1), TcDevice(i) \/ TcKernel(i) PROVE TcTabInv' /\ TcRunInv'
    <2>1. /\ UNCHANGED <<tcMode, tcBefore, tcCli, tcBacklog, tcTab, tcCur>>
          /\ \A c \in TcClient : tcConn'[c].st = tcConn[c].st
      BY <1>1, <1>6, TcDeviceStep
    <2>2. \A c \in TcClient : tcConn'[c].pc = tcConn[c].pc
      BY <1>1, <1>6, TcDeviceStep DEF TcSame
    <2>3. tcCur \in TcClient \cup {"sched"}
      BY <1>1 DEF TcTypeOK
    <2>4. TcRunInv'
      BY <1>1, <2>1, <2>3 DEF TcRunInv, TcCoro
    <2>5. QED
      BY <1>3, <2>1, <2>2, <2>4
  <1>7. QED
    BY <1>4, <1>5, <1>6, TcStepCases, TcClientTab, TcServeTab, TcEpollTab, TcAcceptTab DEF TcClientAct

\* The table has no more connections than places, so that they have different
\* slots, and the index of a connection is its place.
LEMMA TcPlaces ==
  ASSUME TcTypeOK, TcTabInv
  PROVE  /\ Len(tcTab) \in Nat /\ Len(tcTab) <= TcMAXCONN
         /\ \A j \in 1..Len(tcTab) : tcTab[j] \in TcClient /\ TcPlace(j) \in 0..(TcMAXCONN - 1)
         /\ \A i, j \in 1..Len(tcTab) : TcPlace(i) = TcPlace(j) => i = j
         /\ \A j \in 1..Len(tcTab) : TcIdx(tcTab[j]) = TcPlace(j)
  <1>1. /\ Len(tcTab) \in Nat /\ \A j \in 1..Len(tcTab) : tcTab[j] \in TcClient
        /\ tcBefore \in Nat /\ TcMAXCONN \in Nat \ {0}
    BY TcAssumption DEF TcTypeOK
  <1>2. Len(tcTab) <= TcMAXCONN
    <2> DEFINE f == [j \in 1..Len(tcTab) |-> tcTab[j]]
    <2>1. f \in Injection(1..Len(tcTab), TcClient)
      BY <1>1 DEF Injection, IsInjective, TcTabInv
    <2>2. IsFiniteSet(TcClient) /\ Cardinality(TcClient) <= TcMAXCONN /\ Cardinality(TcClient) \in Nat
      BY TcAssumption, FS_CardinalityType
    <2> HIDE DEF f
    <2>3. Cardinality(1..Len(tcTab)) <= Cardinality(TcClient)
      BY <2>1, <2>2, FS_Injection
    <2>4. Cardinality(1..Len(tcTab)) = IF 1 > Len(tcTab) THEN 0 ELSE Len(tcTab) - 1 + 1
      BY <1>1, FS_Interval
    <2>5. Cardinality(1..Len(tcTab)) = Len(tcTab)
      BY <1>1, <2>4
    <2>6. QED
      BY <1>1, <2>2, <2>3, <2>5
  <1>3. \A j \in 1..Len(tcTab) : tcBefore + j - 1 \in Nat
    BY <1>1
  <1>4. \A j \in 1..Len(tcTab) : TcPlace(j) \in 0..(TcMAXCONN - 1)
    BY <1>1, <1>3, ModRange DEF TcPlace
  <1>5. ASSUME NEW i \in 1..Len(tcTab), NEW j \in 1..Len(tcTab), i < j PROVE TcPlace(i) # TcPlace(j)
    <2> DEFINE a == tcBefore + i - 1
               b == tcBefore + j - 1
    <2>1. a \in Nat /\ b \in Nat /\ a < b /\ b < a + TcMAXCONN
      BY <1>1, <1>2, <1>5
    <2>2. TcPlace(i) = a % TcMAXCONN /\ TcPlace(j) = b % TcMAXCONN
      BY DEF TcPlace
    <2> HIDE DEF a, b
    <2>3. QED
      BY <1>1, <2>1, <2>2, RingSlotsDiffer
  <1>6. \A i, j \in 1..Len(tcTab) : TcPlace(i) = TcPlace(j) => i = j
    BY <1>1, <1>5
  <1>7. ASSUME NEW j \in 1..Len(tcTab) PROVE TcIdx(tcTab[j]) = TcPlace(j)
    <2> DEFINE k == CHOOSE i \in 1..Len(tcTab) : tcTab[i] = tcTab[j]
    <2>1. k \in 1..Len(tcTab) /\ tcTab[k] = tcTab[j]
      BY <1>7
    <2>2. TcIdx(tcTab[j]) = (tcBefore + k - 1) % TcMAXCONN
      BY DEF TcIdx
    <2> HIDE DEF k
    <2>3. k = j
      BY <1>7, <2>1 DEF TcTabInv
    <2>4. QED
      BY <2>2, <2>3 DEF TcPlace
  <1>8. QED
    BY <1>1, <1>2, <1>4, <1>6, <1>7

(* The place in serve(). *)

LEMMA TcPlaceKept ==
  ASSUME TcIndInv, TcNext PROVE \A c \in TcClient : TcPlaceInv(c)'
  <1>1. TcTypeOK /\ \A c \in TcClient : TcPlaceInv(c)
    BY DEF TcIndInv
  \* The record is as it was, but for its state.
  <1>2. ASSUME NEW c \in TcClient, TcSame(c), tcConn'[c].enc = tcConn[c].enc, tcDev' = tcDev
        PROVE  TcPlaceInv(c)'
    BY <1>1, <1>2 DEF TcSame, TcPlaceInv
  <1>3. ASSUME NEW c \in TcClient, tcConn'[c] = tcConn[c], tcDev' = tcDev PROVE TcPlaceInv(c)'
    BY <1>2, <1>3 DEF TcSame
  <1>4. ASSUME NEW c \in TcClient, TcClientAct(c) PROVE \A d \in TcClient : TcPlaceInv(d)'
    <2>1. tcConn' = tcConn /\ tcDev' = tcDev
      BY <1>1, <1>4, TcClientEffect
    <2>2. QED
      BY <1>3, <2>1
  <1>5. ASSUME NEW c \in TcClient, TcLive(c), TcServes(c) PROVE \A d \in TcClient : TcPlaceInv(d)'
    <2>1. tcDev' = tcDev /\ \A d \in TcClient : d # c => tcConn'[d] = tcConn[d]
      BY <1>1, <1>5, TcServeEffect
    <2>2. TcPlaceInv(c)'
      <3>0. TcPlaceInv(c) /\ tcConn[c].buf \in TcChunks /\ tcConn[c].put \in Nat
        BY <1>1, <1>5, TcConnType
      <3>1. CASE TcRead(c)
        <4>1. CASE /\ tcConn'[c].buf = Append(tcConn[c].buf, Head(tcIn[c]))
                   /\ tcConn'[c].pc = IF Len(tcConn[c].buf) = 1 THEN "offload" ELSE "read"
                   /\ tcConn'[c].put = tcConn[c].put /\ tcConn'[c].enc = 0 /\ tcConn'[c].mask = 0
                   /\ tcConn[c].pc = "read"
          <5>1. Len(tcConn'[c].buf) = Len(tcConn[c].buf) + 1 /\ Len(tcConn[c].buf) \in Nat
            BY <3>0, <4>1 DEF TcChunks
          <5>2. Len(tcConn[c].buf) < 2 /\ tcConn[c].put = 0
            BY <3>0, <4>1 DEF TcPlaceInv
          <5>3. CASE tcConn'[c].pc = "offload" /\ Len(tcConn[c].buf) = 1
            BY <4>1, <5>1, <5>2, <5>3 DEF TcPlaceInv
          <5>4. CASE tcConn'[c].pc = "read" /\ Len(tcConn[c].buf) = 0
            BY <4>1, <5>1, <5>2, <5>4 DEF TcPlaceInv
          <5>5. Len(tcConn[c].buf) = 1 \/ Len(tcConn[c].buf) = 0
            <6>1. \A n \in Nat : n < 2 => n = 1 \/ n = 0
              OBVIOUS
            <6>2. QED
              BY <5>1, <5>2, <6>1
          <5>6. QED
            BY <4>1, <5>3, <5>4, <5>5
        <4>2. CASE TcSame(c) /\ tcConn'[c].enc = tcConn[c].enc
          BY <1>2, <1>5, <2>1, <4>2
        <4>3. QED
          BY <1>1, <1>5, <3>1, <4>1, <4>2, TcReadStep
      <3>2. CASE TcOffload(c)
        <4>1. /\ tcConn[c].pc = "offload" /\ tcConn'[c].pc = "result"
              /\ tcConn'[c].buf = tcConn[c].buf /\ tcConn'[c].put = tcConn[c].put
              /\ tcConn'[c].mask = tcConn[c].mask /\ tcConn'[c].enc = tcConn[c].enc
          BY <1>1, <1>5, <3>2, TcOffloadStep
        <4>2. QED
          BY <2>1, <3>0, <4>1 DEF TcPlaceInv
      <3>3. CASE tcDev = "emu" /\ TcResult(c)
        <4>1. /\ tcConn[c].pc = "result" /\ tcConn'[c].pc = "write"
              /\ tcConn'[c].buf = tcConn[c].buf /\ tcConn'[c].put = tcConn[c].put
              /\ tcConn'[c].enc = tcConn[c].enc + 1
          BY <1>1, <1>5, <3>3, TcResultStep
        <4>2. tcConn[c].enc = 0 /\ tcConn[c].put = 0 /\ Len(tcConn[c].buf) = 2
          BY <3>0, <3>3, <4>1 DEF TcPlaceInv
        <4>3. tcConn'[c].enc = 1
          BY <4>1, <4>2
        <4>4. tcDev' # "gpu"
          BY <2>1, <3>3
        <4>5. QED
          BY <4>1, <4>2, <4>3, <4>4 DEF TcPlaceInv
      <3>4. CASE tcDev = "gpu" /\ TcResultGpu(c)
        <4>1. /\ tcConn[c].pc = "result" /\ tcConn'[c].pc = "write"
              /\ tcConn'[c].buf = tcConn[c].buf /\ tcConn'[c].put = tcConn[c].put
              /\ tcConn'[c].mask = tcConn[c].mask /\ tcConn'[c].enc = tcConn[c].enc
          BY <1>1, <1>5, <3>4, TcResultGpuStep
        \* The event is done, or the fiber would not run.
        <4>2. PICK j \in 1..Len(tcTab) : tcTab[j] = c
          BY <1>5, TcLiveInTab
        <4>3. TcSlotOf(j) /\ TcPlace(j) \in 0..(TcMAXCONN - 1) /\ TcIdx(c) = TcPlace(j)
          BY <4>2, TcPlaces DEF TcIndInv, TcSlotInv
        <4>4. ~tcSlot[TcPlace(j)].active
          <5>1. CASE TcCoro
            BY <1>5, <4>2, <4>3, <5>1 DEF TcLive, TcSlotOf
          <5>2. CASE ~TcCoro
            <6>1. tcSlot[TcPlace(j)].done
              BY <3>4, <4>3, <5>2 DEF TcResultGpu
            <6>2. QED
              BY <3>4, <4>1, <4>2, <4>3, <6>1 DEF TcSlotOf
          <5>3. QED
            BY <5>1, <5>2
        <4>5. tcConn[c].enc = 1
          BY <3>4, <4>1, <4>2, <4>3, <4>4 DEF TcSlotOf
        <4>6. QED
          BY <2>1, <3>0, <4>1, <4>5 DEF TcPlaceInv
      <3>5. CASE TcWrite(c)
        <4>0. tcConn[c].pc = "write" /\ tcConn'[c].mask = tcConn[c].mask /\ tcConn'[c].enc = tcConn[c].enc
          BY <1>1, <1>5, <3>5, TcWriteStep
        <4>1. CASE tcConn[c].put = 1 /\ tcConn'[c].put = 0 /\ tcConn'[c].buf = <<>> /\ tcConn'[c].pc = "read"
          BY <4>1 DEF TcPlaceInv
        <4>2. CASE tcConn'[c].put = 1 /\ tcConn'[c].buf = tcConn[c].buf /\ tcConn'[c].pc = "write"
          BY <2>1, <3>0, <4>0, <4>2 DEF TcPlaceInv
        <4>3. CASE TcSame(c)
          BY <1>2, <1>5, <2>1, <4>0, <4>3
        <4>4. QED
          BY <1>1, <1>5, <3>5, <4>1, <4>2, <4>3, TcWriteStep
      <3>6. QED
        BY <1>5, <3>1, <3>2, <3>3, <3>4, <3>5 DEF TcServes
    <2>3. QED
      BY <1>3, <2>1, <2>2
  <1>6. CASE TcScan \/ TcScanGpu
    BY <1>1, <1>2, <1>6, TcScanStep
  <1>7. CASE TcEpoll
    BY <1>2, <1>7, TcEpollStep
  <1>8. CASE TcRun
    <2>1. tcConn' = tcConn /\ tcDev' = tcDev
      BY <1>8 DEF TcRun
    <2>2. QED
      BY <1>3, <2>1
  <1>9. CASE TcAcceptThread
    BY <1>1, <1>2, <1>9, TcAcceptStep
  <1>10. ASSUME NEW i \in 0..(TcMAXCONN - 1), TcDevice(i) \/ TcKernel(i), NEW c \in TcClient PROVE TcPlaceInv(c)'
    <2>1. tcDev' = tcDev /\ TcSame(c)
      BY <1>1, <1>10, TcDeviceStep
    <2>2. CASE tcConn'[c].enc = tcConn[c].enc
      BY <1>2, <1>10, <2>1, <2>2
    <2>3. CASE tcConn'[c].enc # tcConn[c].enc
      <3>1. tcDev = "gpu" /\ tcConn[c].pc = "result"
        BY <1>1, <1>10, <2>3, TcDeviceStep
      <3>2. TcPlaceInv(c)
        BY <1>1, <1>10
      <3>3. QED
        BY <2>1, <3>1, <3>2 DEF TcPlaceInv, TcSame
    <2>4. QED
      BY <2>2, <2>3
  <1>11. QED
    BY <1>4, <1>5, <1>6, <1>7, <1>8, <1>9, <1>10, TcStepCases DEF TcClientAct

(* The slots. *)

LEMMA TcSlotFacts ==
  ASSUME TcIndInv
  PROVE  /\ TcTypeOK /\ Len(tcTab) \in Nat
         /\ \A j \in 1..Len(tcTab) : /\ tcTab[j] \in TcClient /\ TcPlace(j) \in 0..(TcMAXCONN - 1)
                                     /\ TcSlotOf(j) /\ TcIdx(tcTab[j]) = TcPlace(j)
         /\ \A i, j \in 1..Len(tcTab) : TcPlace(i) = TcPlace(j) => i = j
         /\ \A i, j \in 1..Len(tcTab) : tcTab[i] = tcTab[j] => i = j
         /\ TcCoro => \A i \in 0..(TcMAXCONN - 1) : tcSlot[i].active => \E j \in 1..Len(tcTab) : i = TcPlace(j)
  <1>1. TcTypeOK /\ TcTabInv /\ TcSlotInv
    BY DEF TcIndInv
  <1>2. QED
    BY <1>1, TcPlaces DEF TcSlotInv, TcTabInv

\* Steps that leave the table as it is.
LEMMA TcSlotSame ==
  ASSUME UNCHANGED <<tcMode, tcBefore, tcTab>>,
         TcCoro => \A i \in 0..(TcMAXCONN - 1) : tcSlot'[i].active => \E j \in 1..Len(tcTab) : i = TcPlace(j),
         \A j \in 1..Len(tcTab) : TcSlotOf(j)'
  PROVE  TcSlotInv'
  <1>1. \A j \in 1..Len(tcTab) : TcPlace(j)' = TcPlace(j)
    BY DEF TcPlace
  <1>2. TcCoro' = TcCoro /\ tcTab' = tcTab
    BY DEF TcCoro
  <1>3. TcCoro' => \A i \in 0..(TcMAXCONN - 1) : tcSlot'[i].active => \E j \in 1..Len(tcTab') : i = TcPlace(j)'
    BY <1>1, <1>2
  <1>4. \A j \in 1..Len(tcTab') : TcSlotOf(j)'
    BY <1>2
  <1>5. QED
    BY <1>3, <1>4 DEF TcSlotInv

LEMMA TcServeSlot ==
  ASSUME TcIndInv, NEW c \in TcClient, TcLive(c), TcServes(c)
  PROVE  TcSlotInv'
  <1>1. /\ TcTypeOK /\ Len(tcTab) \in Nat
        /\ \A j \in 1..Len(tcTab) : /\ tcTab[j] \in TcClient /\ TcPlace(j) \in 0..(TcMAXCONN - 1)
                                    /\ TcSlotOf(j) /\ TcIdx(tcTab[j]) = TcPlace(j)
        /\ \A i, j \in 1..Len(tcTab) : TcPlace(i) = TcPlace(j) => i = j
        /\ TcCoro => \A i \in 0..(TcMAXCONN - 1) : tcSlot[i].active => \E j \in 1..Len(tcTab) : i = TcPlace(j)
        /\ tcSlot \in [0..(TcMAXCONN - 1) -> [active : BOOLEAN, done : BOOLEAN]]
    BY TcSlotFacts DEF TcTypeOK
  <1>2. /\ UNCHANGED <<tcMode, tcDev, tcBefore, tcTab>>
        /\ \A d \in TcClient : d # c => tcConn'[d] = tcConn[d]
    BY <1>1, TcServeEffect
  <1>3. PICK l \in 1..Len(tcTab) : tcTab[l] = c
    BY TcLiveInTab
  <1>4. TcIdx(c) = TcPlace(l) /\ TcPlace(l) \in 0..(TcMAXCONN - 1) /\ TcSlotOf(l)
    BY <1>1, <1>3
  <1>5. TcCoro => tcConn[c].st = "RUNNABLE" /\ ~tcSlot[TcPlace(l)].active
    BY <1>3, <1>4 DEF TcLive, TcSlotOf
  <1>6. \A j \in 1..Len(tcTab) : TcPlace(j)' = TcPlace(j)
    BY <1>2 DEF TcPlace
  <1>7. ASSUME \A i \in 0..(TcMAXCONN - 1) : i # TcPlace(l) => tcSlot'[i] = tcSlot[i],
               TcSlotOf(l)'
        PROVE  TcSlotInv'
    <2>1. ASSUME NEW j \in 1..Len(tcTab), j # l PROVE TcSlotOf(j)'
      <3>1. tcTab[j] # c /\ tcTab[j] \in TcClient
        BY <1>1, <1>3, <2>1
      <3>2. tcConn'[tcTab[j]] = tcConn[tcTab[j]] /\ tcSlot'[TcPlace(j)] = tcSlot[TcPlace(j)]
        BY <1>1, <1>2, <1>7, <2>1, <3>1
      <3>3. TcSlotOf(j) /\ TcPlace(j)' = TcPlace(j)
        BY <1>1, <1>6, <2>1
      <3>4. QED
        BY <1>2, <3>2, <3>3 DEF TcSlotOf, TcCoro
    <2>2. \A j \in 1..Len(tcTab) : TcSlotOf(j)'
      BY <1>7, <2>1
    <2>3. TcCoro => \A i \in 0..(TcMAXCONN - 1) : tcSlot'[i].active => \E j \in 1..Len(tcTab) : i = TcPlace(j)
      BY <1>1, <1>7
    <2>4. QED
      BY <1>2, <2>2, <2>3, TcSlotSame
  \* No work for it, and it does not wait for any.
  <1>8. ASSUME \A i \in 0..(TcMAXCONN - 1) : i # TcPlace(l) => tcSlot'[i] = tcSlot[i],
               TcCoro => ~tcSlot'[TcPlace(l)].active /\ tcConn'[c].st # "WAIT_OFF",
               tcConn'[c].pc # "result"
        PROVE  TcSlotInv'
    <2>1. TcSlotOf(l)'
      <3>1. tcTab'[l] = c /\ TcPlace(l)' = TcPlace(l) /\ TcCoro' = TcCoro
        BY <1>2, <1>3, <1>6 DEF TcCoro
      <3>2. QED
        BY <1>8, <3>1 DEF TcSlotOf
    <2>2. QED
      BY <1>7, <1>8, <2>1
  <1>9. CASE TcRead(c)
    <2>1. tcSlot' = tcSlot
      BY <1>9 DEF TcRead
    <2>2. tcConn'[c].pc # "result" /\ (TcCoro => tcConn'[c].st # "WAIT_OFF")
      BY <1>1, <1>5, <1>9, TcReadStep DEF TcSame
    <2>3. QED
      BY <1>5, <1>8, <2>1, <2>2
  <1>10. CASE TcOffload(c)
    <2>1. tcSlot' = [tcSlot EXCEPT ![TcPlace(l)] = [active |-> TRUE, done |-> FALSE]]
      BY <1>4, <1>10 DEF TcOffload
    <2>2. /\ tcConn[c].pc = "offload" /\ tcConn'[c].pc = "result" /\ tcConn'[c].enc = tcConn[c].enc
          /\ TcCoro => tcConn'[c].st = "WAIT_OFF"
      BY <1>1, <1>10, TcOffloadStep
    <2>3. tcConn'[c].enc = 0
      BY <2>2 DEF TcIndInv, TcPlaceInv
    <2>4. tcSlot'[TcPlace(l)] = [active |-> TRUE, done |-> FALSE]
      BY <1>1, <1>4, <2>1
    <2>5. tcTab'[l] = c /\ TcPlace(l)' = TcPlace(l) /\ TcCoro' = TcCoro
      BY <1>2, <1>3, <1>6 DEF TcCoro
    <2>6. TcSlotOf(l)'
      BY <2>2, <2>3, <2>4, <2>5 DEF TcSlotOf
    <2>7. \A i \in 0..(TcMAXCONN - 1) : i # TcPlace(l) => tcSlot'[i] = tcSlot[i]
      BY <1>1, <2>1
    <2>8. QED
      BY <1>7, <2>6, <2>7
  <1>11. CASE TcResult(c)
    <2>1. tcSlot' = IF TcCoro THEN tcSlot ELSE [tcSlot EXCEPT ![TcPlace(l)].active = FALSE]
      BY <1>4, <1>11 DEF TcResult
    <2>2. tcConn'[c].pc = "write" /\ tcConn'[c].st = tcConn[c].st
      BY <1>1, <1>11, TcResultStep
    <2>3. \A i \in 0..(TcMAXCONN - 1) : i # TcPlace(l) => tcSlot'[i] = tcSlot[i]
      BY <1>1, <2>1
    <2>4. TcCoro => ~tcSlot'[TcPlace(l)].active /\ tcConn'[c].st # "WAIT_OFF"
      BY <1>5, <2>1, <2>2
    <2>5. QED
      BY <1>8, <2>2, <2>3, <2>4
  <1>12. CASE TcResultGpu(c)
    <2>1. tcSlot' = tcSlot
      BY <1>12 DEF TcResultGpu
    <2>2. tcConn'[c].pc = "write" /\ tcConn'[c].st = tcConn[c].st
      BY <1>1, <1>12, TcResultGpuStep
    <2>3. QED
      BY <1>5, <1>8, <2>1, <2>2
  <1>13. CASE TcWrite(c)
    <2>1. tcSlot' = tcSlot
      BY <1>13 DEF TcWrite
    <2>2. tcConn'[c].pc # "result" /\ (TcCoro => tcConn'[c].st # "WAIT_OFF")
      BY <1>1, <1>5, <1>13, TcWriteStep DEF TcSame
    <2>3. QED
      BY <1>5, <1>8, <2>1, <2>2
  <1>14. QED
    BY <1>9, <1>10, <1>11, <1>12, <1>13 DEF TcServes

LEMMA TcScanSlot ==
  ASSUME TcIndInv, TcScan \/ TcScanGpu
  PROVE  TcSlotInv'
  <1>1. /\ TcTypeOK /\ Len(tcTab) \in Nat
        /\ \A j \in 1..Len(tcTab) : /\ tcTab[j] \in TcClient /\ TcPlace(j) \in 0..(TcMAXCONN - 1)
                                    /\ TcSlotOf(j) /\ TcIdx(tcTab[j]) = TcPlace(j)
        /\ \A i, j \in 1..Len(tcTab) : TcPlace(i) = TcPlace(j) => i = j
        /\ TcCoro => \A i \in 0..(TcMAXCONN - 1) : tcSlot[i].active => \E j \in 1..Len(tcTab) : i = TcPlace(j)
        /\ tcSlot \in [0..(TcMAXCONN - 1) -> [active : BOOLEAN, done : BOOLEAN]]
    BY TcSlotFacts DEF TcTypeOK
  <1>2. /\ UNCHANGED <<tcMode, tcDev, tcBefore, tcTab>> /\ TcCoro
        /\ \A c \in TcClient : tcConn'[c].enc = tcConn[c].enc
        /\ \A c \in TcClient : IF tcConn[c].st = "WAIT_OFF" /\ tcSlot[TcIdx(c)].done
                               THEN tcConn'[c].st = "RUNNABLE" ELSE tcConn'[c].st = tcConn[c].st
    BY <1>1, TcScanStep
  <1>3. \A c \in TcClient : tcConn'[c].pc = tcConn[c].pc
    BY <1>1, TcScanStep DEF TcSame
  <1>4. \A j \in 1..Len(tcTab) : TcPlace(j)' = TcPlace(j)
    BY <1>2 DEF TcPlace
  <1>5. CASE TcScanGpu
    <2>1. tcSlot' = tcSlot /\ tcDev = "gpu"
      BY <1>5 DEF TcScanGpu
    <2>2. ASSUME NEW j \in 1..Len(tcTab) PROVE TcSlotOf(j)'
      <3>1. /\ tcTab[j] \in TcClient /\ TcSlotOf(j) /\ TcPlace(j)' = TcPlace(j) /\ TcIdx(tcTab[j]) = TcPlace(j)
            /\ tcTab'[j] = tcTab[j] /\ TcCoro'
        BY <1>1, <1>2, <1>4 DEF TcCoro
      <3>2. CASE tcConn[tcTab[j]].st = "WAIT_OFF" /\ tcSlot[TcPlace(j)].done
        <4>1. ~tcSlot[TcPlace(j)].active /\ tcConn[tcTab[j]].enc = 1
          BY <1>2, <2>1, <3>1, <3>2 DEF TcSlotOf
        <4>2. tcConn'[tcTab[j]].st = "RUNNABLE" /\ tcConn'[tcTab[j]].enc = 1
          BY <1>2, <3>1, <3>2, <4>1
        <4>3. QED
          BY <2>1, <3>1, <3>2, <4>1, <4>2 DEF TcSlotOf
      <3>3. CASE ~(tcConn[tcTab[j]].st = "WAIT_OFF" /\ tcSlot[TcPlace(j)].done)
        <4>1. /\ tcConn'[tcTab[j]].st = tcConn[tcTab[j]].st /\ tcConn'[tcTab[j]].enc = tcConn[tcTab[j]].enc
              /\ tcConn'[tcTab[j]].pc = tcConn[tcTab[j]].pc
          BY <1>2, <1>3, <3>1, <3>3
        <4>2. QED
          BY <1>2, <2>1, <3>1, <4>1 DEF TcSlotOf
      <3>4. QED
        BY <3>2, <3>3
    <2>3. QED
      BY <1>1, <1>2, <2>1, <2>2, TcSlotSame
  <1>6. CASE TcScan
    <2> DEFINE over == {c \in TcClient : tcConn[c].st = "WAIT_OFF" /\ tcSlot[TcIdx(c)].done}
    <2>1. /\ tcDev = "emu" /\ TcCoro
          /\ tcSlot' = [i \in DOMAIN tcSlot |->
                         IF \E c \in over : TcIdx(c) = i THEN [tcSlot[i] EXCEPT !.active = FALSE] ELSE tcSlot[i]]
      BY <1>6 DEF TcScan
    <2>2. \A c \in over : \E j \in 1..Len(tcTab) : tcTab[j] = c
      BY DEF TcIndInv, TcTabInv
    <2>3. \A c \in TcClient : c \in over <=> tcConn[c].st = "WAIT_OFF" /\ tcSlot[TcIdx(c)].done
      OBVIOUS
    <2>4. \A c \in over : c \in TcClient
      OBVIOUS
    <2> HIDE DEF over
    <2>5. ASSUME NEW i \in 0..(TcMAXCONN - 1)
          PROVE  tcSlot'[i].active = (tcSlot[i].active /\ ~\E c \in over : TcIdx(c) = i)
      <3>1. tcSlot'[i] = IF \E c \in over : TcIdx(c) = i THEN [tcSlot[i] EXCEPT !.active = FALSE] ELSE tcSlot[i]
        BY <1>1, <2>1, <2>5
      <3>2. tcSlot[i] \in [active : BOOLEAN, done : BOOLEAN]
        BY <1>1, <2>5
      <3>3. QED
        BY <3>1, <3>2
    <2>6. ASSUME NEW j \in 1..Len(tcTab) PROVE TcSlotOf(j)'
      <3>1. /\ tcTab[j] \in TcClient /\ TcSlotOf(j) /\ TcPlace(j)' = TcPlace(j) /\ TcIdx(tcTab[j]) = TcPlace(j)
            /\ tcTab'[j] = tcTab[j] /\ TcPlace(j) \in 0..(TcMAXCONN - 1) /\ tcDev' # "gpu"
        BY <1>1, <1>2, <1>4, <2>1
      <3>2. CASE tcTab[j] \in over
        <4>1. tcConn'[tcTab[j]].st = "RUNNABLE" /\ ~tcSlot'[TcPlace(j)].active
          BY <1>2, <2>3, <2>5, <3>1, <3>2
        <4>2. QED
          BY <3>1, <4>1 DEF TcSlotOf
      <3>3. CASE tcTab[j] \notin over
        <4>1. ~\E c \in over : TcIdx(c) = TcPlace(j)
          BY <1>1, <2>2, <2>4, <3>1, <3>3
        <4>2. tcSlot'[TcPlace(j)].active = tcSlot[TcPlace(j)].active
          <5>1. tcSlot[TcPlace(j)].active \in BOOLEAN
            BY <1>1, <3>1
          <5>2. QED
            BY <2>5, <3>1, <4>1, <5>1
        <4>3. tcConn'[tcTab[j]].st = tcConn[tcTab[j]].st /\ tcConn'[tcTab[j]].pc = tcConn[tcTab[j]].pc
          BY <1>2, <1>3, <2>3, <3>1, <3>3
        <4>4. QED
          BY <1>2, <2>1, <3>1, <4>2, <4>3 DEF TcSlotOf, TcCoro
      <3>4. QED
        BY <3>2, <3>3
    <2>7. \A i \in 0..(TcMAXCONN - 1) : tcSlot'[i].active => \E j \in 1..Len(tcTab) : i = TcPlace(j)
      BY <1>1, <2>1, <2>5
    <2>8. QED
      BY <1>2, <2>6, <2>7, TcSlotSame
  <1>7. QED
    BY <1>5, <1>6

\* What was never served is at "read".
LEMMA TcBacklogReads ==
  ASSUME TcIndInv, NEW k \in 1..Len(tcBacklog)
  PROVE  tcBacklog[k] \in TcClient /\ tcConn[tcBacklog[k]].pc = "read"
  <1>1. tcBacklog[k] \in TcClient /\ \A j \in 1..Len(tcTab) : tcTab[j] # tcBacklog[k]
    BY TcTabs
  <1>2. QED
    BY <1>1 DEF TcIndInv, TcTabInv

LEMMA TcEpollSlot ==
  ASSUME TcIndInv, TcEpoll
  PROVE  TcSlotInv'
  <1>1. /\ TcTypeOK /\ Len(tcTab) \in Nat
        /\ \A j \in 1..Len(tcTab) : /\ tcTab[j] \in TcClient /\ TcPlace(j) \in 0..(TcMAXCONN - 1)
                                    /\ TcSlotOf(j) /\ TcIdx(tcTab[j]) = TcPlace(j)
        /\ TcCoro => \A i \in 0..(TcMAXCONN - 1) : tcSlot[i].active => \E j \in 1..Len(tcTab) : i = TcPlace(j)
        /\ TcMAXCONN \in Nat \ {0} /\ tcBefore \in Nat
    BY TcSlotFacts, TcAssumption DEF TcTypeOK
  <1>2. /\ UNCHANGED <<tcMode, tcDev, tcBefore, tcSlot>> /\ TcCoro
        /\ TcFits \in 0..Len(tcBacklog) /\ tcBefore + Len(tcTab) + TcFits <= TcMAXCONN
        /\ Len(tcTab') = Len(tcTab) + TcFits
        /\ \A j \in 1..Len(tcTab) : tcTab'[j] = tcTab[j]
        /\ \A k \in 1..TcFits : tcTab'[Len(tcTab) + k] = tcBacklog[k]
        /\ \A c \in TcClient : tcConn'[c].enc = tcConn[c].enc
        /\ \A k \in 1..Len(tcBacklog) :
               tcConn'[tcBacklog[k]].st = IF k <= TcFits THEN "RUNNABLE" ELSE "closed"
        /\ \A c \in TcClient : (\A k \in 1..Len(tcBacklog) : tcBacklog[k] # c) =>
               tcConn'[c].st = tcConn[c].st \/ (tcConn[c].st = "WAIT_IO" /\ tcConn'[c].st = "RUNNABLE")
    BY TcEpollStep
  <1>3. \A c \in TcClient : tcConn'[c].pc = tcConn[c].pc
    BY TcEpollStep DEF TcSame
  <1>4. /\ Len(tcBacklog) \in Nat /\ \A j \in 1..Len(tcTab), k \in 1..Len(tcBacklog) : tcTab[j] # tcBacklog[k]
    BY TcTabs
  <1>5. \A j : TcPlace(j)' = TcPlace(j)
    BY <1>2 DEF TcPlace
  <1>6. TcCoro'
    BY <1>2 DEF TcCoro
  <1>7. ASSUME NEW j \in 1..Len(tcTab) PROVE TcSlotOf(j)'
    <2>1. tcTab'[j] = tcTab[j] /\ tcTab[j] \in TcClient /\ TcSlotOf(j) /\ TcPlace(j)' = TcPlace(j)
      BY <1>1, <1>2, <1>5, <1>7
    <2>2. \/ tcConn'[tcTab[j]].st = tcConn[tcTab[j]].st
          \/ (tcConn[tcTab[j]].st = "WAIT_IO" /\ tcConn'[tcTab[j]].st = "RUNNABLE")
      BY <1>2, <1>4, <1>7, <2>1
    <2>3. tcConn'[tcTab[j]].pc = tcConn[tcTab[j]].pc /\ tcConn'[tcTab[j]].enc = tcConn[tcTab[j]].enc
      BY <1>2, <1>3, <2>1
    <2>4. QED
      BY <1>2, <1>6, <2>1, <2>2, <2>3 DEF TcSlotOf
  <1>8. ASSUME NEW k \in 1..TcFits, NEW j, j = Len(tcTab) + k PROVE TcSlotOf(j)'
    <2>1. k \in 1..Len(tcBacklog) /\ k <= TcFits
      BY <1>2, <1>4, <1>8
    <2>2. tcConn'[tcBacklog[k]].st = "RUNNABLE" /\ tcConn'[tcBacklog[k]].pc = "read"
      BY <1>2, <1>3, <2>1, TcBacklogReads
    \* The slots in use belong to others.
    <2>3. j \in Nat /\ TcPlace(j) \in 0..(TcMAXCONN - 1) /\ \A i \in 1..Len(tcTab) : TcPlace(i) # TcPlace(j)
      <3> DEFINE b == tcBefore + j - 1
      <3>1. b \in Nat /\ j \in Nat
        BY <1>1, <1>2, <1>4, <1>8
      <3>2. ASSUME NEW i \in 1..Len(tcTab) PROVE TcPlace(i) # TcPlace(j)
        <4> DEFINE a == tcBefore + i - 1
        <4>1. a \in Nat /\ a < b /\ b < a + TcMAXCONN
          <5> DEFINE L == Len(tcTab)
                     F == TcFits
          <5>1. L \in Nat /\ F \in Nat /\ i \in 1..L /\ k \in 1..F /\ j = L + k /\ tcBefore + L + F <= TcMAXCONN
            BY <1>1, <1>2, <1>4, <1>8, <3>2
          <5> HIDE DEF L, F
          <5>2. QED
            BY <1>1, <5>1
        <4>2. TcPlace(i) = a % TcMAXCONN /\ TcPlace(j) = b % TcMAXCONN
          BY DEF TcPlace
        <4> HIDE DEF a, b
        <4>3. QED
          BY <1>1, <3>1, <4>1, <4>2, RingSlotsDiffer
      <3>3. TcPlace(j) = b % TcMAXCONN
        BY DEF TcPlace
      <3> HIDE DEF b
      <3>4. QED
        BY <1>1, <3>1, <3>2, <3>3, ModRange
    <2>4. ~tcSlot[TcPlace(j)].active
      BY <1>1, <1>2, <2>3
    <2>5. tcTab'[j] = tcBacklog[k] /\ TcPlace(j)' = TcPlace(j)
      BY <1>2, <1>5, <1>8
    <2>6. QED
      BY <1>2, <2>2, <2>4, <2>5 DEF TcSlotOf
  <1>9. ASSUME NEW j \in 1..Len(tcTab') PROVE TcSlotOf(j)'
    <2>1. CASE j \in 1..Len(tcTab)
      BY <1>7, <2>1
    <2>2. CASE j \notin 1..Len(tcTab)
      <3>1. PICK k \in 1..TcFits : j = Len(tcTab) + k
        <4> DEFINE k == j - Len(tcTab)
        <4>1. k \in 1..TcFits /\ j = Len(tcTab) + k
          BY <1>1, <1>2, <1>4, <1>9, <2>2
        <4> HIDE DEF k
        <4>2. QED
          BY <4>1
      <3>2. QED
        BY <1>8, <3>1
    <2>3. QED
      BY <2>1, <2>2
  <1>10. \A j \in 1..Len(tcTab) : j \in 1..Len(tcTab')
    BY <1>1, <1>2, <1>4
  <1>11. \A i \in 0..(TcMAXCONN - 1) : tcSlot'[i].active => \E j \in 1..Len(tcTab') : i = TcPlace(j)'
    BY <1>1, <1>2, <1>5, <1>10
  <1>12. QED
    BY <1>9, <1>11 DEF TcSlotInv

LEMMA TcAcceptSlot ==
  ASSUME TcIndInv, TcAcceptThread
  PROVE  TcSlotInv'
  <1>1. /\ TcTypeOK /\ Len(tcTab) \in Nat
        /\ \A j \in 1..Len(tcTab) : tcTab[j] \in TcClient /\ TcSlotOf(j)
    BY TcSlotFacts
  <1>2. /\ UNCHANGED <<tcMode, tcDev, tcBefore, tcSlot>> /\ ~TcCoro /\ tcBacklog # <<>>
        /\ Len(tcTab') = Len(tcTab) + 1 /\ tcTab'[Len(tcTab) + 1] = tcBacklog[1]
        /\ \A j \in 1..Len(tcTab) : tcTab'[j] = tcTab[j]
        /\ \A c \in TcClient : tcConn'[c].enc = tcConn[c].enc
    BY <1>1, TcAcceptStep
  <1>3. \A c \in TcClient : tcConn'[c].pc = tcConn[c].pc
    BY <1>1, TcAcceptStep DEF TcSame
  <1>4. ~TcCoro' /\ \A j : TcPlace(j)' = TcPlace(j)
    BY <1>2 DEF TcCoro, TcPlace
  <1>5. ASSUME NEW j \in 1..Len(tcTab') PROVE TcSlotOf(j)'
    <2>1. CASE j \in 1..Len(tcTab)
      <3>1. /\ tcTab'[j] = tcTab[j] /\ TcSlotOf(j) /\ TcPlace(j)' = TcPlace(j)
            /\ tcConn'[tcTab[j]].pc = tcConn[tcTab[j]].pc /\ tcConn'[tcTab[j]].enc = tcConn[tcTab[j]].enc
        BY <1>1, <1>2, <1>3, <1>4, <2>1
      <3>2. QED
        BY <1>2, <1>4, <3>1 DEF TcSlotOf
    <2>2. CASE j = Len(tcTab) + 1
      <3>1. 1 \in 1..Len(tcBacklog)
        BY <1>2, TcTabs
      <3>2. tcConn'[tcTab'[j]].pc = "read"
        BY <1>2, <1>3, <2>2, <3>1, TcBacklogReads
      <3>3. QED
        BY <1>4, <3>2 DEF TcSlotOf
    <2>3. QED
      BY <1>1, <1>2, <1>5, <2>1, <2>2
  <1>6. QED
    BY <1>4, <1>5 DEF TcSlotInv

LEMMA TcDeviceSlot ==
  ASSUME TcIndInv, NEW i \in 0..(TcMAXCONN - 1), TcDevice(i) \/ TcKernel(i)
  PROVE  TcSlotInv'
  <1>1. /\ TcTypeOK /\ Len(tcTab) \in Nat
        /\ \A j \in 1..Len(tcTab) : /\ tcTab[j] \in TcClient /\ TcPlace(j) \in 0..(TcMAXCONN - 1)
                                    /\ TcSlotOf(j) /\ TcIdx(tcTab[j]) = TcPlace(j)
        /\ TcCoro => \A x \in 0..(TcMAXCONN - 1) : tcSlot[x].active => \E j \in 1..Len(tcTab) : x = TcPlace(j)
    BY TcSlotFacts
  <1>2. /\ UNCHANGED <<tcMode, tcDev, tcBefore, tcTab>>
        /\ \A c \in TcClient : tcConn'[c].st = tcConn[c].st
        /\ \A c \in TcClient : tcConn'[c].enc = IF tcDev = "gpu" /\ tcConn[c].pc = "result" /\ TcIdx(c) = i
                                               THEN tcConn[c].enc + 1 ELSE tcConn[c].enc
        /\ tcSlot[i].active /\ tcSlot'[i].done /\ tcSlot'[i].active = (tcDev = "emu")
        /\ \A x \in 0..(TcMAXCONN - 1) : x # i => tcSlot'[x] = tcSlot[x]
    BY <1>1, TcDeviceStep
  <1>3. \A c \in TcClient : tcConn'[c].pc = tcConn[c].pc
    BY <1>1, TcDeviceStep DEF TcSame
  <1>4. \A x \in 0..(TcMAXCONN - 1) : tcSlot'[x].active => tcSlot[x].active
    BY <1>2
  <1>5. \A j : TcPlace(j)' = TcPlace(j)
    BY <1>2 DEF TcPlace
  <1>6. ASSUME NEW j \in 1..Len(tcTab) PROVE TcSlotOf(j)'
    <2>1. /\ tcTab[j] \in TcClient /\ TcPlace(j) \in 0..(TcMAXCONN - 1) /\ TcSlotOf(j) /\ TcIdx(tcTab[j]) = TcPlace(j)
          /\ tcTab'[j] = tcTab[j] /\ TcPlace(j)' = TcPlace(j) /\ tcDev \in {"emu", "gpu"}
          /\ tcConn'[tcTab[j]].st = tcConn[tcTab[j]].st /\ tcConn'[tcTab[j]].pc = tcConn[tcTab[j]].pc
      BY <1>1, <1>2, <1>3, <1>5, <1>6 DEF TcTypeOK
    <2>2. CASE TcPlace(j) # i
      <3>1. tcSlot'[TcPlace(j)] = tcSlot[TcPlace(j)] /\ tcConn'[tcTab[j]].enc = tcConn[tcTab[j]].enc
        BY <1>2, <2>1, <2>2
      <3>2. QED
        BY <1>2, <2>1, <3>1 DEF TcSlotOf, TcCoro
    <2>3. CASE TcPlace(j) = i /\ tcDev = "emu"
      <3>1. tcSlot'[TcPlace(j)].active /\ tcSlot[TcPlace(j)].active /\ tcDev' # "gpu"
        BY <1>2, <2>3
      <3>2. QED
        BY <1>2, <2>1, <3>1 DEF TcSlotOf, TcCoro
    <2>4. CASE TcPlace(j) = i /\ tcDev = "gpu"
      <3>1. ~tcSlot'[TcPlace(j)].active /\ tcSlot'[TcPlace(j)].done /\ tcSlot[TcPlace(j)].active /\ tcDev' # "emu"
        BY <1>2, <2>4
      <3>2. tcConn[tcTab[j]].pc = "result" => tcConn[tcTab[j]].enc = 0
        BY <2>1, <2>4, <3>1 DEF TcSlotOf
      <3>3. tcConn[tcTab[j]].pc = "result" => tcConn'[tcTab[j]].enc = 1
        BY <1>2, <2>1, <2>4, <3>2
      <3>4. QED
        BY <1>2, <2>1, <3>1, <3>3 DEF TcSlotOf, TcCoro
    <2>5. QED
      BY <2>1, <2>2, <2>3, <2>4
  <1>7. QED
    BY <1>1, <1>2, <1>4, <1>6, TcSlotSame

LEMMA TcSlotKept ==
  ASSUME TcIndInv, TcNext PROVE TcSlotInv'
  <1>1. /\ TcTypeOK
        /\ TcCoro => \A i \in 0..(TcMAXCONN - 1) : tcSlot[i].active => \E j \in 1..Len(tcTab) : i = TcPlace(j)
        /\ \A j \in 1..Len(tcTab) : TcSlotOf(j)
    BY TcSlotFacts
  <1>2. ASSUME UNCHANGED <<tcMode, tcDev, tcBefore, tcTab, tcSlot, tcConn>> PROVE TcSlotInv'
    <2>1. \A j \in 1..Len(tcTab) : TcSlotOf(j)'
      BY <1>1, <1>2 DEF TcSlotOf, TcCoro, TcPlace
    <2>2. QED
      BY <1>1, <1>2, <2>1, TcSlotSame
  <1>3. ASSUME NEW c \in TcClient, TcClientAct(c) PROVE TcSlotInv'
    BY <1>1, <1>2, <1>3, TcClientEffect
  <1>4. CASE TcRun
    BY <1>2, <1>4 DEF TcRun
  <1>5. QED
    BY <1>3, <1>4, TcStepCases, TcServeSlot, TcScanSlot, TcEpollSlot, TcAcceptSlot, TcDeviceSlot DEF TcClientAct

(* The stream of a connection. *)

LEMMA TcHalf ==
  ASSUME NEW x \in Nat, NEW n \in Nat
  PROVE  (2 * x + n) \div 2 = x + (n \div 2) /\ (2 * x + n) % 2 = n % 2
  OBVIOUS

LEMMA TcEven ==
  ASSUME NEW b \in Nat, b % 2 = 0
  PROVE  (b + 1) \div 2 = b \div 2 /\ (b + 2) % 2 = 0 /\ \A m \in Nat : 2 * m = b => m = b \div 2
  OBVIOUS

\* A connection whose data a step leaves alone.
LEMMA TcStreamSame ==
  ASSUME NEW c \in TcClient, TcStreamInv(c), tcDev' = tcDev, TcSame(c),
         tcCli'[c] = tcCli[c], tcIn'[c] = tcIn[c], tcOut'[c] = tcOut[c]
  PROVE  TcStreamInv(c)'
  <1>1. TcGot(c)' = TcGot(c) /\ TcSent(c)' = TcSent(c)
    BY DEF TcGot, TcSent, TcPipeOf
  <1>2. TcFirst(c)' = TcFirst(c)
    BY <1>1 DEF TcFirst, TcSame
  <1>3. QED
    BY <1>1, <1>2 DEF TcStreamInv, TcSame

\* What the invariant says while the client is connected.
LEMMA TcStreamFacts ==
  ASSUME TcIndInv, NEW c \in TcClient, tcCli[c].ph # "out"
  PROVE  /\ TcGot(c) \in Nat /\ TcSent(c) \in Nat /\ TcFirst(c) \in Nat /\ TcFirst(c) % 2 = 0
         /\ TcFirst(c) = TcGot(c) + Len(tcOut[c]) - tcConn[c].put
         /\ tcCli[c].ph \in {"new", "idle"} => tcCli[c].n = 0
         /\ \A i \in 1..Len(tcOut[c]) : tcOut[c][i] = TcAnswer(TcGot(c) + i - 1, tcDev = "emu")
         /\ \A i \in 1..Len(tcConn[c].buf) : tcConn[c].buf[i] = TcBytes(TcFirst(c) + i - 1)
         /\ \A i \in 1..Len(tcIn[c]) : tcIn[c][i] = TcBytes(TcFirst(c) + Len(tcConn[c].buf) + i - 1)
         /\ TcSent(c) = TcFirst(c) + Len(tcConn[c].buf) + Len(tcIn[c])
         /\ tcDev = "emu" => 2 * tcConn[c].seq = TcFirst(c) + (IF tcConn[c].pc = "write" THEN 2 ELSE 0)
         /\ tcDev = "emu" /\ tcConn[c].pc = "write" => 2 * tcConn[c].mask = TcFirst(c)
         /\ Len(tcOut[c]) \in Nat /\ Len(tcConn[c].buf) \in Nat /\ Len(tcIn[c]) \in Nat
  <1>1. TcTypeOK /\ TcStreamInv(c)
    BY DEF TcIndInv
  <1>2. Len(tcOut[c]) \in Nat /\ Len(tcConn[c].buf) \in Nat /\ Len(tcIn[c]) \in Nat
    BY <1>1, TcConnType, TcCliType DEF TcChunks
  <1>3. TcGot(c) \in Nat /\ TcSent(c) \in Nat
    <2>1. tcCli[c].round * TcPipeOf \in Nat /\ tcCli[c].n \in Nat /\ TcPipeOf \in Nat
      BY <1>1, TcCliType, TcPipeNat
    <2>2. QED
      BY <2>1 DEF TcGot, TcSent
  <1>4. QED
    BY <1>1, <1>2, <1>3 DEF TcStreamInv, TcFirst

\* A change of phase.
LEMMA TcPhaseStream ==
  ASSUME TcIndInv, NEW c \in TcClient, TcConnect(c) \/ TcRound(c) \/ TcClose(c)
  PROVE  TcStreamInv(c)' /\ tcCli'[c].bad = tcCli[c].bad
  <1>1. TcTypeOK
    BY DEF TcIndInv
  <1>2. /\ UNCHANGED <<tcDev, tcIn, tcOut, tcConn>>
        /\ \/ tcCli' = [tcCli EXCEPT ![c].ph = "out"]
           \/ tcCli' = [tcCli EXCEPT ![c].ph = "send"] /\ tcCli[c].ph \in {"new", "idle"}
    BY DEF TcConnect, TcRound, TcClose
  <1>3. CASE tcCli' = [tcCli EXCEPT ![c].ph = "out"]
    <2>1. tcCli'[c].ph = "out" /\ tcCli'[c].bad = tcCli[c].bad
      BY <1>1, <1>3, TcPhaseStep
    <2>2. QED
      BY <2>1 DEF TcStreamInv
  <1>4. CASE tcCli' = [tcCli EXCEPT ![c].ph = "send"] /\ tcCli[c].ph \in {"new", "idle"}
    <2>1. /\ tcCli'[c].ph = "send" /\ tcCli'[c].n = tcCli[c].n /\ tcCli'[c].round = tcCli[c].round
          /\ tcCli'[c].bad = tcCli[c].bad
      BY <1>1, <1>4, TcPhaseStep
    <2>2. tcCli[c].n = 0
      BY <1>4, TcStreamFacts
    <2>3. TcGot(c)' = TcGot(c) /\ TcSent(c)' = TcSent(c)
      <3>1. tcCli[c].round * TcPipeOf \in Nat
        BY <1>1, TcCliType
      <3>2. TcPipeOf' = TcPipeOf
        BY <1>2 DEF TcPipeOf
      <3>3. QED
        BY <1>4, <2>1, <2>2, <3>1, <3>2 DEF TcGot, TcSent
    <2>4. TcFirst(c)' = TcFirst(c)
      BY <1>2, <2>3 DEF TcFirst
    <2>5. TcStreamInv(c)
      BY DEF TcIndInv
    <2>6. QED
      BY <1>2, <1>4, <2>1, <2>3, <2>4, <2>5 DEF TcStreamInv
  <1>5. QED
    BY <1>2, <1>3, <1>4

\* A request chunk joins the run at its end.
LEMMA TcSendStream ==
  ASSUME TcIndInv, NEW c \in TcClient, TcSend(c, TcPipeOf)
  PROVE  TcStreamInv(c)' /\ tcCli'[c].bad = tcCli[c].bad
  <1>1. TcTypeOK
    BY DEF TcIndInv
  <1> DEFINE x == tcCli[c].round * TcPipeOf
             n == tcCli[c].n
             k == tcConn[c]
  <1>2. /\ tcCli[c].ph = "send" /\ tcCli'[c].round = tcCli[c].round /\ tcCli'[c].bad = tcCli[c].bad
        /\ IF n + 1 = 2 * TcPipeOf THEN tcCli'[c].ph = "recv" /\ tcCli'[c].n = 0
                                   ELSE tcCli'[c].ph = "send" /\ tcCli'[c].n = n + 1
        /\ tcIn'[c] = Append(tcIn[c], <<x + n \div 2, n % 2>>)
    BY <1>1, TcSendStep
  <1>3. UNCHANGED <<tcDev, tcOut, tcConn>> /\ TcPipeOf' = TcPipeOf
    BY DEF TcSend, TcPipeOf
  <1>4. x \in Nat /\ n \in Nat /\ TcPipeOf \in Nat /\ tcIn[c] \in TcChunks
    BY <1>1, TcCliType, TcPipeNat
  <1>5. TcGot(c) = 2 * x /\ TcSent(c) = 2 * x + n
    BY <1>2, <1>4 DEF TcGot, TcSent
  <1>6. TcGot(c)' = 2 * x /\ TcSent(c)' = 2 * x + n + 1
    <2>1. tcCli'[c].round * TcPipeOf' = x
      BY <1>2, <1>3
    <2>2. /\ TcGot(c)' = 2 * (tcCli'[c].round * TcPipeOf') + (IF tcCli'[c].ph = "recv" THEN tcCli'[c].n ELSE 0)
          /\ TcSent(c)' = 2 * (tcCli'[c].round * TcPipeOf') + (IF tcCli'[c].ph = "send" THEN tcCli'[c].n
                                       ELSE IF tcCli'[c].ph = "recv" THEN 2 * TcPipeOf' ELSE 0)
      BY DEF TcGot, TcSent
    <2> HIDE DEF x, n
    <2>3. CASE n + 1 = 2 * TcPipeOf
      <3>1. TcGot(c)' = 2 * x + 0 /\ TcSent(c)' = 2 * x + 2 * TcPipeOf
        BY <1>2, <1>3, <2>1, <2>2, <2>3
      <3>2. QED
        BY <1>4, <2>3, <3>1
    <2>4. CASE n + 1 # 2 * TcPipeOf
      <3>1. TcGot(c)' = 2 * x + 0 /\ TcSent(c)' = 2 * x + (n + 1)
        BY <1>2, <1>3, <2>1, <2>2, <2>4
      <3>2. QED
        BY <1>4, <3>1
    <2>5. QED
      BY <2>3, <2>4
  <1>7. TcFirst(c)' = TcFirst(c) /\ TcGot(c)' = TcGot(c)
    BY <1>3, <1>5, <1>6 DEF TcFirst
  <1>8. <<x + n \div 2, n % 2>> = TcBytes(TcSent(c))
    BY <1>4, <1>5, TcHalf DEF TcBytes
  <1>9. TcSent(c)' = TcSent(c) + 1
    BY <1>4, <1>5, <1>6
  <1> HIDE DEF x, n
  <1>10. /\ TcFirst(c) \in Nat /\ TcSent(c) = TcFirst(c) + Len(k.buf) + Len(tcIn[c])
         /\ Len(k.buf) \in Nat /\ Len(tcIn[c]) \in Nat
         /\ \A i \in 1..Len(tcIn[c]) : tcIn[c][i] = TcBytes(TcFirst(c) + Len(k.buf) + i - 1)
    BY <1>2, TcStreamFacts
  <1>11. /\ Len(tcIn'[c]) = Len(tcIn[c]) + 1 /\ tcIn'[c][Len(tcIn[c]) + 1] = TcBytes(TcSent(c))
         /\ \A i \in 1..Len(tcIn[c]) : tcIn'[c][i] = tcIn[c][i]
    BY <1>2, <1>4, <1>8 DEF TcChunks
  <1>12. \A i \in 1..Len(tcIn'[c]) : tcIn'[c][i] = TcBytes(TcFirst(c) + Len(k.buf) + i - 1)
    <2>1. TAKE i \in 1..Len(tcIn'[c])
    <2>2. CASE i \in 1..Len(tcIn[c])
      BY <1>10, <1>11, <2>2
    <2>3. CASE i = Len(tcIn[c]) + 1
      <3>1. TcFirst(c) + Len(k.buf) + i - 1 = TcSent(c)
        BY <1>10, <2>3
      <3>2. QED
        BY <1>11, <2>3, <3>1
    <2>4. QED
      BY <1>10, <1>11, <2>2, <2>3
  <1>13. TcSent(c)' = TcFirst(c) + Len(k.buf) + Len(tcIn'[c])
    <2> DEFINE a == Len(k.buf)
               b == Len(tcIn[c])
    <2>1. /\ TcSent(c)' = TcSent(c) + 1 /\ TcSent(c) = TcFirst(c) + a + b /\ Len(tcIn'[c]) = b + 1
          /\ TcFirst(c) \in Nat /\ a \in Nat /\ b \in Nat
      BY <1>9, <1>10, <1>11
    <2> HIDE DEF a, b
    <2>2. TcSent(c)' = TcFirst(c) + a + Len(tcIn'[c])
      BY <2>1
    <2>3. QED
      BY <2>2 DEF a
  <1>14. tcCli'[c].ph \notin {"new", "idle"}
    BY <1>2
  <1>15. TcStreamInv(c) /\ tcCli[c].ph # "out"
    BY <1>2 DEF TcIndInv
  <1>16. TcStreamInv(c)'
    BY <1>3, <1>7, <1>12, <1>13, <1>14, <1>15 DEF TcStreamInv
  <1>17. QED
    BY <1>2, <1>16

\* A reply chunk leaves the run at its front, and it is the one expected.
LEMMA TcRecvStream ==
  ASSUME TcIndInv, NEW c \in TcClient, TcRecv(c, TcPipeOf, tcDev = "emu")
  PROVE  TcStreamInv(c)' /\ (tcCli'[c].bad => tcCli[c].bad)
  <1>1. TcTypeOK
    BY DEF TcIndInv
  <1> DEFINE x == tcCli[c].round * TcPipeOf
             n == tcCli[c].n
             k == tcConn[c]
             w == x + n \div 2
  <1>2. /\ tcCli[c].ph = "recv" /\ tcOut[c] # <<>> /\ tcOut'[c] = Tail(tcOut[c])
        /\ IF n + 1 = 2 * TcPipeOf
           THEN tcCli'[c].ph = "idle" /\ tcCli'[c].n = 0 /\ tcCli'[c].round = tcCli[c].round + 1
           ELSE tcCli'[c].ph = "recv" /\ tcCli'[c].n = n + 1 /\ tcCli'[c].round = tcCli[c].round
    BY <1>1, TcRecvStep
  <1>3. tcCli'[c].bad => \/ tcCli[c].bad
                         \/ Head(tcOut[c]).h # n % 2
                         \/ Head(tcOut[c]).r # [n |-> w, enc |-> 1, mask |-> IF tcDev = "emu" THEN w ELSE 0]
    BY <1>1, TcRecvStep
  <1>4. UNCHANGED <<tcDev, tcIn, tcConn>> /\ TcPipeOf' = TcPipeOf
    BY DEF TcRecv, TcPipeOf
  <1>5. x \in Nat /\ n \in Nat /\ TcPipeOf \in Nat /\ tcCli[c].round \in Nat /\ tcOut[c] \in Seq(TcReplyChunks)
    BY <1>1, TcCliType, TcPipeNat
  <1>6. TcGot(c) = 2 * x + n /\ TcSent(c) = 2 * x + 2 * TcPipeOf
    BY <1>2, <1>5 DEF TcGot, TcSent
  <1>7. TcGot(c)' = TcGot(c) + 1 /\ TcSent(c)' = TcSent(c)
    <2>1. /\ TcGot(c)' = 2 * (tcCli'[c].round * TcPipeOf') + (IF tcCli'[c].ph = "recv" THEN tcCli'[c].n ELSE 0)
          /\ TcSent(c)' = 2 * (tcCli'[c].round * TcPipeOf') + (IF tcCli'[c].ph = "send" THEN tcCli'[c].n
                                       ELSE IF tcCli'[c].ph = "recv" THEN 2 * TcPipeOf' ELSE 0)
      BY DEF TcGot, TcSent
    <2>2. CASE n + 1 = 2 * TcPipeOf
      <3>1. tcCli'[c].round * TcPipeOf' = x + TcPipeOf
        BY <1>2, <1>4, <1>5, <2>2, TcTimes
      <3> HIDE DEF x, n
      <3>2. TcGot(c)' = 2 * (x + TcPipeOf) + 0 /\ TcSent(c)' = 2 * (x + TcPipeOf) + 0
        BY <1>2, <2>1, <2>2, <3>1
      <3>3. QED
        BY <1>5, <1>6, <2>2, <3>2
    <2>3. CASE n + 1 # 2 * TcPipeOf
      <3>1. tcCli'[c].round * TcPipeOf' = x
        BY <1>2, <1>4, <2>3
      <3> HIDE DEF x, n
      <3>2. TcGot(c)' = 2 * x + (n + 1) /\ TcSent(c)' = 2 * x + 2 * TcPipeOf
        BY <1>2, <1>4, <2>1, <2>3, <3>1
      <3>3. QED
        BY <1>5, <1>6, <3>2
    <2>4. QED
      BY <2>2, <2>3
  <1>8. /\ TcFirst(c) = TcGot(c) + Len(tcOut[c]) - k.put /\ TcGot(c) \in Nat /\ Len(tcOut[c]) \in Nat
        /\ \A i \in 1..Len(tcOut[c]) : tcOut[c][i] = TcAnswer(TcGot(c) + i - 1, tcDev = "emu")
    BY <1>2, TcStreamFacts
  <1>9. /\ Len(tcOut[c]) = Len(tcOut'[c]) + 1 /\ Len(tcOut'[c]) \in Nat
        /\ \A i \in 1..Len(tcOut'[c]) : i + 1 \in 1..Len(tcOut[c]) /\ tcOut'[c][i] = tcOut[c][i + 1]
        /\ 1 \in 1..Len(tcOut[c]) /\ Head(tcOut[c]) = tcOut[c][1]
    BY <1>2, <1>5
  <1>10. k.put \in Nat
    BY <1>1, TcConnType
  <1>11. TcFirst(c)' = TcFirst(c)
    <2>1. TcFirst(c)' = TcGot(c)' + Len(tcOut'[c]) - k.put
      BY <1>4 DEF TcFirst
    <2> DEFINE l == Len(tcOut'[c])
               m == Len(tcOut[c])
    <2>2. l \in Nat /\ m = l + 1
      BY <1>9
    <2>3. TcGot(c) \in Nat /\ k.put \in Nat
      BY <1>8, <1>10
    <2> DEFINE g == TcGot(c)
               p == k.put
    <2>4. TcFirst(c) = g + m - p /\ TcFirst(c)' = (g + 1) + l - p
      BY <1>7, <1>8, <2>1
    <2>5. g \in Nat /\ p \in Nat
      BY <2>3
    <2> HIDE DEF l, m, g, p
    <2>6. g + m - p = (g + 1) + l - p
      BY <2>2, <2>5
    <2>7. QED
      BY <2>4, <2>6
  <1>12. \A i \in 1..Len(tcOut'[c]) : tcOut'[c][i] = TcAnswer(TcGot(c)' + i - 1, tcDev = "emu")
    <2>1. TAKE i \in 1..Len(tcOut'[c])
    <2>2. tcOut'[c][i] = TcAnswer(TcGot(c) + (i + 1) - 1, tcDev = "emu")
      BY <1>8, <1>9
    <2>3. TcGot(c) + (i + 1) - 1 = TcGot(c)' + i - 1
      BY <1>7, <1>8
    <2>4. QED
      BY <2>2, <2>3
  <1>13. Head(tcOut[c]) = TcAnswer(TcGot(c), tcDev = "emu")
    <2>1. tcOut[c][1] = TcAnswer(TcGot(c) + 1 - 1, tcDev = "emu")
      BY <1>8, <1>9
    <2>2. TcGot(c) + 1 - 1 = TcGot(c)
      BY <1>8
    <2>3. QED
      BY <1>9, <2>1, <2>2
  <1>14. TcGot(c) \div 2 = w /\ TcGot(c) % 2 = n % 2
    <2> HIDE DEF x, n
    <2>1. (2 * x + n) \div 2 = x + (n \div 2) /\ (2 * x + n) % 2 = n % 2
      BY <1>5, TcHalf
    <2>2. QED
      BY <1>6, <2>1
  <1>15. tcCli'[c].bad => tcCli[c].bad
    <2> HIDE DEF w, n
    <2>1. Head(tcOut[c]).h = n % 2 /\ Head(tcOut[c]).r = [n |-> w, enc |-> 1, mask |-> IF tcDev = "emu" THEN w ELSE 0]
      BY <1>13, <1>14 DEF TcAnswer
    <2>2. QED
      BY <1>3, <2>1
  <1>16. tcCli'[c].ph \in {"new", "idle"} => tcCli'[c].n = 0
    BY <1>2
  <1>17. TcStreamInv(c) /\ tcCli[c].ph # "out"
    BY <1>2 DEF TcIndInv
  <1>18. TcStreamInv(c)'
    BY <1>4, <1>7, <1>11, <1>12, <1>16, <1>17 DEF TcStreamInv
  <1>19. QED
    BY <1>15, <1>18

\* serve() moves chunks from one part of the run to the next.
LEMMA TcReadStream ==
  ASSUME TcIndInv, NEW c \in TcClient, TcRead(c)
  PROVE  TcStreamInv(c)'
  <1>1. TcTypeOK /\ TcStreamInv(c)
    BY DEF TcIndInv
  <1> DEFINE k == tcConn[c]
             k2 == tcConn'[c]
  <1>2. UNCHANGED <<tcDev, tcCli, tcOut>>
    BY DEF TcRead
  <1>3. CASE TcSame(c) /\ tcIn' = tcIn
    BY <1>1, <1>2, <1>3, TcStreamSame
  <1>4. CASE ~(TcSame(c) /\ tcIn' = tcIn)
    <2>1. SUFFICES ASSUME tcCli[c].ph # "out" PROVE TcStreamInv(c)'
      BY <1>2 DEF TcStreamInv
    <2>2. /\ tcIn[c] # <<>> /\ tcIn' = [tcIn EXCEPT ![c] = Tail(@)]
          /\ k2.buf = Append(k.buf, Head(tcIn[c])) /\ k.pc = "read"
          /\ k2.pc = IF Len(k.buf) = 1 THEN "offload" ELSE "read"
          /\ k2.put = k.put /\ k2.seq = k.seq
      BY <1>1, <1>4, TcReadStep
    <2>3. tcIn \in [TcClient -> TcChunks] /\ tcIn[c] \in TcChunks /\ k.buf \in TcChunks
      BY <1>1, TcConnType DEF TcTypeOK
    <2>4. /\ TcFirst(c) \in Nat /\ Len(k.buf) \in Nat /\ Len(tcIn[c]) \in Nat
          /\ \A i \in 1..Len(k.buf) : k.buf[i] = TcBytes(TcFirst(c) + i - 1)
          /\ \A i \in 1..Len(tcIn[c]) : tcIn[c][i] = TcBytes(TcFirst(c) + Len(k.buf) + i - 1)
          /\ TcSent(c) = TcFirst(c) + Len(k.buf) + Len(tcIn[c])
      BY <2>1, TcStreamFacts
    <2>5. tcIn'[c] = Tail(tcIn[c])
      BY <2>2, <2>3
    <2>6. /\ Len(tcIn[c]) = Len(tcIn'[c]) + 1 /\ Len(tcIn'[c]) \in Nat
          /\ \A i \in 1..Len(tcIn'[c]) : i + 1 \in 1..Len(tcIn[c]) /\ tcIn'[c][i] = tcIn[c][i + 1]
          /\ 1 \in 1..Len(tcIn[c]) /\ Head(tcIn[c]) = tcIn[c][1] /\ Head(tcIn[c]) \in Nat \X Nat
      BY <2>2, <2>3, <2>5 DEF TcChunks
    <2> DEFINE h == Head(tcIn[c])
    <2>7. h = TcBytes(TcFirst(c) + Len(k.buf))
      <3>1. h = TcBytes(TcFirst(c) + Len(k.buf) + 1 - 1)
        BY <2>4, <2>6
      <3>2. TcFirst(c) + Len(k.buf) + 1 - 1 = TcFirst(c) + Len(k.buf)
        BY <2>4
      <3>3. QED
        BY <3>1, <3>2
    <2>8. k2.buf = Append(k.buf, h) /\ h \in Nat \X Nat
      BY <2>2, <2>6
    <2> HIDE DEF h
    <2>9. /\ Len(k2.buf) = Len(k.buf) + 1 /\ k2.buf[Len(k.buf) + 1] = h
          /\ \A i \in 1..Len(k.buf) : k2.buf[i] = k.buf[i]
      BY <2>3, <2>8 DEF TcChunks
    <2> DEFINE L == Len(k.buf)
               M == Len(tcIn'[c])
               b == TcFirst(c)
    <2>10. b \in Nat /\ L \in Nat /\ M \in Nat
      BY <2>4, <2>6
    <2>11. TcGot(c)' = TcGot(c) /\ TcSent(c)' = TcSent(c)
      BY <1>2 DEF TcGot, TcSent, TcPipeOf
    <2>12. TcFirst(c)' = b
      BY <1>2, <2>2, <2>11 DEF TcFirst
    <2>13. \A i \in 1..Len(k2.buf) : k2.buf[i] = TcBytes(b + i - 1)
      <3>1. SUFFICES ASSUME NEW i \in 1..(L + 1) PROVE k2.buf[i] = TcBytes(b + i - 1)
        BY <2>9
      <3>2. CASE i \in 1..L
        BY <2>4, <2>9, <3>2
      <3>3. CASE i = L + 1
        <4>1. b + i - 1 = b + L
          <5> HIDE DEF b, L
          <5>1. QED
            BY <2>10, <3>3
        <4>2. QED
          BY <2>7, <2>9, <3>3, <4>1
      <3> HIDE DEF L
      <3>4. QED
        BY <2>10, <3>1, <3>2, <3>3
    <2>14. \A i \in 1..Len(tcIn'[c]) : tcIn'[c][i] = TcBytes(b + Len(k2.buf) + i - 1)
      <3>1. TAKE i \in 1..Len(tcIn'[c])
      <3>2. tcIn'[c][i] = TcBytes(b + L + (i + 1) - 1)
        BY <2>4, <2>6
      <3>3. b + L + (i + 1) - 1 = b + (L + 1) + i - 1
        <4> HIDE DEF b, L
        <4>1. QED
          BY <2>10
      <3>4. QED
        BY <2>9, <3>2, <3>3
    <2>15. TcSent(c) = b + Len(k2.buf) + Len(tcIn'[c])
      <3>1. TcSent(c) = b + L + (M + 1)
        BY <2>4, <2>6
      <3>2. b + L + (M + 1) = b + (L + 1) + M
        <4> HIDE DEF b, L, M
        <4>1. QED
          BY <2>10
      <3>3. QED
        BY <2>9, <3>1, <3>2
    <2>16. k2.pc # "write"
      BY <2>2
    <2> HIDE DEF b, L, M
    <2>17. TcStreamInv(c)'
      BY <1>1, <1>2, <2>1, <2>2, <2>11, <2>12, <2>13, <2>14, <2>15, <2>16 DEF TcStreamInv, b
    <2>18. QED
      BY <2>17
  <1>5. QED
    BY <1>3, <1>4

\* The offload leaves the chunks alone; the mask is the number of the request.
LEMMA TcWorkStream ==
  ASSUME TcIndInv, NEW c \in TcClient,
         \/ TcOffload(c)
         \/ tcDev = "emu" /\ TcResult(c)
         \/ tcDev = "gpu" /\ TcResultGpu(c)
  PROVE  TcStreamInv(c)'
  <1>1. TcTypeOK /\ TcStreamInv(c)
    BY DEF TcIndInv
  <1> DEFINE k == tcConn[c]
             k2 == tcConn'[c]
  <1>2. UNCHANGED <<tcDev, tcCli, tcIn, tcOut>>
    BY DEF TcOffload, TcResult, TcResultGpu
  <1>3. SUFFICES ASSUME tcCli[c].ph # "out" PROVE TcStreamInv(c)'
    BY <1>2 DEF TcStreamInv
  <1>4. k2.buf = k.buf /\ k2.put = k.put
    BY <1>1, TcOffloadStep, TcResultStep, TcResultGpuStep
  <1>5. TcGot(c)' = TcGot(c) /\ TcSent(c)' = TcSent(c)
    BY <1>2 DEF TcGot, TcSent, TcPipeOf
  <1>6. TcFirst(c)' = TcFirst(c)
    BY <1>2, <1>4, <1>5 DEF TcFirst
  <1>7. /\ tcDev = "emu" => 2 * k2.seq = TcFirst(c) + (IF k2.pc = "write" THEN 2 ELSE 0)
        /\ tcDev = "emu" /\ k2.pc = "write" => 2 * k2.mask = TcFirst(c)
    <2>1. TcFirst(c) \in Nat /\ (tcDev = "emu" => 2 * k.seq = TcFirst(c) + (IF k.pc = "write" THEN 2 ELSE 0))
      BY <1>3, TcStreamFacts
    <2>2. CASE TcOffload(c)
      <3>1. k.pc = "offload" /\ k2.pc = "result" /\ k2.seq = k.seq
        BY <1>1, <2>2, TcOffloadStep
      <3>2. QED
        BY <2>1, <3>1
    <2>3. CASE tcDev = "emu" /\ TcResult(c)
      <3>1. k.pc = "result" /\ k2.pc = "write" /\ k2.seq = k.seq + 1 /\ k2.mask = k.seq /\ k.seq \in Nat
        BY <1>1, <2>3, TcResultStep, TcConnType
      <3> DEFINE q == k.seq
                 b == TcFirst(c)
      <3>2. 2 * q = b + 0 /\ q \in Nat /\ b \in Nat /\ k2.seq = q + 1
        BY <2>1, <2>3, <3>1
      <3> HIDE DEF q, b
      <3>3. 2 * (q + 1) = b + 2 /\ 2 * q = b
        BY <3>2
      <3>4. QED
        BY <3>1, <3>2, <3>3 DEF q, b
    <2>4. CASE tcDev = "gpu" /\ TcResultGpu(c)
      BY <2>4
    <2>5. QED
      BY <2>2, <2>3, <2>4
  <1>8. QED
    BY <1>1, <1>2, <1>3, <1>4, <1>5, <1>6, <1>7 DEF TcStreamInv

LEMMA TcWriteStream ==
  ASSUME TcIndInv, NEW c \in TcClient, TcWrite(c)
  PROVE  TcStreamInv(c)'
  <1>1. TcTypeOK /\ TcStreamInv(c) /\ TcPlaceInv(c)
    BY DEF TcIndInv
  <1> DEFINE k == tcConn[c]
             k2 == tcConn'[c]
  <1>2. UNCHANGED <<tcDev, tcCli, tcIn>>
    BY DEF TcWrite
  <1>3. CASE TcSame(c) /\ tcOut' = tcOut
    BY <1>1, <1>2, <1>3, TcStreamSame
  <1>4. CASE ~(TcSame(c) /\ tcOut' = tcOut)
    <2>1. SUFFICES ASSUME tcCli[c].ph # "out" PROVE TcStreamInv(c)'
      BY <1>2 DEF TcStreamInv
    <2> DEFINE x == k.buf[k.put + 1]
               y == [r |-> [n |-> x[1], enc |-> k.enc, mask |-> k.mask], h |-> x[2]]
               b == TcFirst(c)
               g == TcGot(c)
               L == Len(tcOut[c])
               p == k.put
    <2>2. /\ tcOut' = [tcOut EXCEPT ![c] = Append(@, y)] /\ k.pc = "write"
          /\ k2.seq = k.seq /\ k2.mask = k.mask
          /\ IF k.put = 1 THEN k2.put = 0 /\ k2.buf = <<>> /\ k2.pc = "read"
                          ELSE k2.put = 1 /\ k2.buf = k.buf /\ k2.pc = "write"
      BY <1>1, <1>4, TcWriteStep
    <2>3. /\ b \in Nat /\ b % 2 = 0 /\ b = g + L - p /\ g \in Nat /\ L \in Nat /\ Len(tcIn[c]) \in Nat
          /\ \A i \in 1..L : tcOut[c][i] = TcAnswer(g + i - 1, tcDev = "emu")
          /\ \A i \in 1..Len(k.buf) : k.buf[i] = TcBytes(b + i - 1)
          /\ \A i \in 1..Len(tcIn[c]) : tcIn[c][i] = TcBytes(b + Len(k.buf) + i - 1)
          /\ TcSent(c) = b + Len(k.buf) + Len(tcIn[c])
          /\ tcDev = "emu" => 2 * k.seq = b + 2 /\ 2 * k.mask = b
      BY <2>1, <2>2, TcStreamFacts
    <2>4. Len(k.buf) = 2 /\ p \in 0..1 /\ k.enc = 1 /\ (tcDev = "gpu" => k.mask = 0)
      BY <1>1, <2>2 DEF TcPlaceInv
    <2>5. tcOut \in [TcClient -> Seq(TcReplyChunks)] /\ tcDev \in {"emu", "gpu"} /\ k.mask \in Nat /\ k.buf \in TcChunks
      BY <1>1, TcConnType DEF TcTypeOK
    <2>5a. b \in Nat /\ p \in Nat
      <3>1. b \in Nat
        BY <2>3
      <3>2. p \in Nat
        BY <2>4
      <3>3. QED
        BY <3>1, <3>2
    <2>6. x = TcBytes(b + p)
      <3>1. p + 1 \in 1..2
        BY <2>4
      <3>2. x = TcBytes(b + (p + 1) - 1)
        BY <2>3, <2>4, <3>1
      <3>3. b \in Nat /\ p \in Nat
        BY <2>5a
      <3> HIDE DEF b, p
      <3>5. b + (p + 1) - 1 = b + p
        BY <3>3
      <3>6. QED
        BY <3>2, <3>5
    <2>7. y = TcAnswer(b + p, tcDev = "emu")
      <3>1. (b + p) \div 2 = b \div 2
        <4> HIDE DEF b, p
        <4>1. CASE p = 0
          BY <2>3, <4>1
        <4>2. CASE p = 1
          BY <2>3, <4>2, TcEven
        <4>3. QED
          BY <2>4, <4>1, <4>2
      <3>2. k.mask = IF tcDev = "emu" THEN b \div 2 ELSE 0
        <4>1. CASE tcDev = "emu"
          <5> DEFINE m == k.mask
          <5>1. m \in Nat /\ 2 * m = b
            BY <2>3, <2>5, <4>1
          <5> HIDE DEF b, m
          <5>2. m = b \div 2
            BY <2>3, <5>1, TcEven
          <5>3. QED
            BY <4>1, <5>2 DEF m
        <4>2. CASE tcDev = "gpu"
          BY <2>4, <4>2
        <4>3. QED
          BY <2>5, <4>1, <4>2
      <3>3. x[1] = (b + p) \div 2 /\ x[2] = (b + p) % 2
        <4> HIDE DEF b, p, x
        <4>1. QED
          BY <2>6 DEF TcBytes
      <3> HIDE DEF b, p, x
      <3>4. QED
        BY <2>4, <3>1, <3>2, <3>3 DEF TcAnswer
    <2>8. y \in TcReplyChunks
      <3>1. b + p \in Nat
        <4> HIDE DEF b, p
        <4>1. QED
          BY <2>5a
      <3> HIDE DEF b, p, y
      <3>2. (b + p) \div 2 \in Nat /\ (b + p) % 2 \in Nat
        BY <3>1
      <3>3. QED
        BY <2>7, <3>2 DEF TcAnswer, TcReplyChunks
    <2> HIDE DEF y
    <2>9. tcOut'[c] = Append(tcOut[c], y)
      BY <2>2, <2>5
    <2>10. Len(tcOut'[c]) = L + 1 /\ tcOut'[c][L + 1] = y /\ \A i \in 1..L : tcOut'[c][i] = tcOut[c][i]
      BY <2>5, <2>8, <2>9
    <2>11. TcGot(c)' = g /\ TcSent(c)' = TcSent(c)
      BY <1>2 DEF TcGot, TcSent, TcPipeOf
    <2>12. \A i \in 1..Len(tcOut'[c]) : tcOut'[c][i] = TcAnswer(g + i - 1, tcDev = "emu")
      <3>1. SUFFICES ASSUME NEW i \in 1..(L + 1) PROVE tcOut'[c][i] = TcAnswer(g + i - 1, tcDev = "emu")
        BY <2>10
      <3>2. CASE i \in 1..L
        BY <2>3, <2>10, <3>2
      <3>3. CASE i = L + 1
        <4>1. g + i - 1 = b + p
          <5> HIDE DEF b, p, g, L
          <5>1. QED
            BY <2>3, <2>4, <3>3
        <4>2. QED
          BY <2>7, <2>10, <3>3, <4>1
      <3> HIDE DEF L
      <3>4. QED
        BY <2>3, <3>1, <3>2, <3>3
    <2>13. TcFirst(c)' = g + (L + 1) - k2.put
      BY <2>10, <2>11 DEF TcFirst
    <2>14. CASE p = 0
      <3>1. k2.put = 1 /\ k2.buf = k.buf /\ k2.pc = "write"
        BY <2>2, <2>14
      <3>2. TcFirst(c)' = b
        <4>1. TcFirst(c)' = g + (L + 1) - 1
          BY <2>13, <3>1
        <4> HIDE DEF b, p, g, L
        <4>2. QED
          BY <2>3, <2>14, <4>1
      <3> HIDE DEF g, L, p
      <3>3. QED
        BY <1>1, <1>2, <2>1, <2>2, <2>11, <2>12, <3>1, <3>2 DEF TcStreamInv, g
    <2>15. CASE p = 1
      <3>1. k2.put = 0 /\ k2.buf = <<>> /\ k2.pc = "read" /\ k2.seq = k.seq /\ Len(k2.buf) = 0
        BY <2>2, <2>15
      <3>2. TcFirst(c)' = b + 2
        <4>1. TcFirst(c)' = g + (L + 1) - 0
          BY <2>13, <3>1
        <4> HIDE DEF b, p, g, L
        <4>2. QED
          BY <2>3, <2>15, <4>1
      <3>3. (b + 2) % 2 = 0 /\ b + 2 \in Nat
        <4>1. b \in Nat /\ b % 2 = 0
          BY <2>3
        <4> HIDE DEF b
        <4>2. QED
          BY <4>1, TcEven
      <3>4. \A i \in 1..Len(tcIn[c]) : tcIn[c][i] = TcBytes((b + 2) + 0 + i - 1)
        <4>1. TAKE i \in 1..Len(tcIn[c])
        <4>2. tcIn[c][i] = TcBytes(b + 2 + i - 1)
          BY <2>3, <2>4
        <4>3. b + 2 + i - 1 = (b + 2) + 0 + i - 1
          <5> HIDE DEF b
          <5>1. QED
            BY <2>3
        <4>4. QED
          BY <4>2, <4>3
      <3>5. TcSent(c) = (b + 2) + 0 + Len(tcIn[c])
        <4> DEFINE M == Len(tcIn[c])
        <4>1. TcSent(c) = b + 2 + M /\ M \in Nat /\ b \in Nat
          BY <2>3, <2>4
        <4> HIDE DEF b, M
        <4>2. TcSent(c) = (b + 2) + 0 + M
          BY <4>1
        <4>3. QED
          BY <4>2 DEF M
      <3>6. tcDev = "emu" => 2 * k2.seq = (b + 2) + 0
        <4>1. tcDev = "emu" => 2 * k2.seq = b + 2
          BY <2>3, <3>1
        <4> HIDE DEF b
        <4>2. QED
          BY <2>3, <4>1
      <3>7. tcCli[c].ph \in {"new", "idle"} => tcCli[c].n = 0
        BY <2>1, TcStreamFacts
      <3> DEFINE e == b + 2
                 z == Len(k2.buf)
      <3>8. /\ e \in Nat /\ e % 2 = 0 /\ TcFirst(c)' = e /\ z = 0
            /\ \A i \in 1..Len(tcIn[c]) : tcIn[c][i] = TcBytes(e + z + i - 1)
            /\ TcSent(c) = e + z + Len(tcIn[c])
            /\ tcDev = "emu" => 2 * k2.seq = e + 0
        BY <3>1, <3>2, <3>3, <3>4, <3>5, <3>6
      <3>9. \A i \in 1..z : k2.buf[i] = TcBytes(e + i - 1)
        BY <3>8
      <3> HIDE DEF b, g, L, p, e, z
      <3>10. QED
        BY <1>2, <2>11, <2>12, <3>1, <3>7, <3>8, <3>9 DEF TcStreamInv, g, z
    <2>16. QED
      BY <2>4, <2>14, <2>15
  <1>5. QED
    BY <1>3, <1>4

LEMMA TcStreamKept ==
  ASSUME TcIndInv, TcNext
  PROVE  (\A c \in TcClient : TcStreamInv(c)') /\ TcNoneBad'
  <1>1. TcTypeOK /\ TcNoneBad /\ \A c \in TcClient : TcStreamInv(c)
    BY DEF TcIndInv
  \* Steps of the scheduler and of the device do not touch the chunks.
  <1>2. ASSUME UNCHANGED <<tcDev, tcCli, tcIn, tcOut>>, \A c \in TcClient : TcSame(c)
        PROVE  (\A c \in TcClient : TcStreamInv(c)') /\ TcNoneBad'
    <2>1. \A c \in TcClient : TcStreamInv(c)'
      BY <1>1, <1>2, TcStreamSame
    <2>2. QED
      BY <1>1, <1>2, <2>1 DEF TcNoneBad
  <1>3. ASSUME NEW c \in TcClient, TcClientAct(c)
        PROVE  (\A d \in TcClient : TcStreamInv(d)') /\ TcNoneBad'
    <2>1. TcStreamInv(c)' /\ (tcCli'[c].bad => tcCli[c].bad)
      BY <1>3, TcPhaseStream, TcSendStream, TcRecvStream DEF TcClientAct
    <2>2. /\ UNCHANGED <<tcDev, tcConn>>
          /\ \A d \in TcClient : d # c => tcCli'[d] = tcCli[d] /\ tcIn'[d] = tcIn[d] /\ tcOut'[d] = tcOut[d]
      BY <1>1, <1>3, TcClientEffect
    <2>3. ASSUME NEW d \in TcClient, d # c PROVE TcStreamInv(d)'
      <3>1. TcSame(d)
        BY <2>2 DEF TcSame
      <3>2. QED
        BY <1>1, <2>2, <2>3, <3>1, TcStreamSame
    <2>4. \A d \in TcClient : tcCli'[d].bad => tcCli[d].bad
      BY <2>1, <2>2
    <2>5. QED
      BY <1>1, <2>1, <2>3, <2>4 DEF TcNoneBad
  <1>4. ASSUME NEW c \in TcClient, TcLive(c), TcServes(c)
        PROVE  (\A d \in TcClient : TcStreamInv(d)') /\ TcNoneBad'
    <2>1. TcStreamInv(c)'
      BY <1>4, TcReadStream, TcWorkStream, TcWriteStream DEF TcServes
    <2>2. UNCHANGED <<tcDev, tcCli>> /\ \A d \in TcClient : d # c => tcConn'[d] = tcConn[d]
      BY <1>1, <1>4, TcServeEffect
    <2>3. \A d \in TcClient : d # c => tcIn'[d] = tcIn[d] /\ tcOut'[d] = tcOut[d]
      <3>0. tcIn \in [TcClient -> TcChunks] /\ tcOut \in [TcClient -> Seq(TcReplyChunks)]
        BY <1>1 DEF TcTypeOK
      <3>1. CASE TcRead(c)
        <4>1. tcOut' = tcOut
          BY <3>1 DEF TcRead
        <4>2. tcIn' = tcIn \/ tcIn' = [tcIn EXCEPT ![c] = Tail(@)]
          BY <1>1, <1>4, <3>1, TcReadStep
        <4>3. QED
          BY <3>0, <4>1, <4>2
      <3>2. CASE TcOffload(c) \/ TcResult(c) \/ TcResultGpu(c)
        BY <3>2 DEF TcOffload, TcResult, TcResultGpu
      <3>3. CASE TcWrite(c)
        <4>1. tcIn' = tcIn
          BY <3>3 DEF TcWrite
        <4>2. tcOut' = tcOut \/ \E y : tcOut' = [tcOut EXCEPT ![c] = y]
          BY <1>1, <1>4, <3>3, TcWriteStep
        <4>3. QED
          BY <3>0, <4>1, <4>2
      <3>4. QED
        BY <1>4, <3>1, <3>2, <3>3 DEF TcServes
    <2>4. ASSUME NEW d \in TcClient, d # c PROVE TcStreamInv(d)'
      <3>1. TcSame(d)
        BY <2>2, <2>4 DEF TcSame
      <3>2. QED
        BY <1>1, <2>2, <2>3, <2>4, <3>1, TcStreamSame
    <2>5. TcNoneBad'
      BY <1>1, <2>2 DEF TcNoneBad
    <2>6. QED
      BY <2>1, <2>4, <2>5
  <1>5. CASE TcScan \/ TcScanGpu
    BY <1>1, <1>2, <1>5, TcScanStep
  <1>6. CASE TcEpoll
    BY <1>2, <1>6, TcEpollStep
  <1>7. CASE TcRun
    <2>1. UNCHANGED <<tcDev, tcCli, tcIn, tcOut, tcConn>>
      BY <1>7 DEF TcRun
    <2>2. \A c \in TcClient : TcSame(c)
      BY <2>1 DEF TcSame
    <2>3. QED
      BY <1>2, <2>1, <2>2
  <1>8. CASE TcAcceptThread
    BY <1>1, <1>2, <1>8, TcAcceptStep
  <1>9. ASSUME NEW i \in 0..(TcMAXCONN - 1), TcDevice(i) \/ TcKernel(i)
        PROVE  (\A c \in TcClient : TcStreamInv(c)') /\ TcNoneBad'
    BY <1>1, <1>2, <1>9, TcDeviceStep
  <1>10. QED
    BY <1>3, <1>4, <1>5, <1>6, <1>7, <1>8, <1>9, TcStepCases DEF TcClientAct

LEMMA TcInitial ==
  ASSUME TcInit PROVE TcIndInv
  <1>1. TcTypeOK
    <2>1. <<>> \in TcChunks /\ <<>> \in Seq(TcReplyChunks) /\ <<>> \in Seq(TcClient)
      BY DEF TcChunks
    <2>2. tcConn \in [TcClient -> TcConns]
      BY <2>1 DEF TcInit, TcConns
    <2>3. tcCli \in [TcClient -> TcClis]
      BY DEF TcInit, TcClis
    <2>4. tcSlot \in [0..(TcMAXCONN - 1) -> [active : BOOLEAN, done : BOOLEAN]]
      BY TcAssumption DEF TcInit
    <2>5. tcIn \in [TcClient -> TcChunks] /\ tcOut \in [TcClient -> Seq(TcReplyChunks)]
      BY <2>1 DEF TcInit
    <2>6. QED
      BY <2>1, <2>2, <2>3, <2>4, <2>5 DEF TcInit, TcTypeOK, TcClis
  <1>2. /\ Len(tcTab) = 0 /\ Len(tcBacklog) = 0 /\ tcCur = "sched"
        /\ tcBefore + 0 <= TcMAXCONN /\ \A c \in TcClient : tcConn[c].st = "none" /\ tcConn[c].pc = "read"
    BY TcAssumption DEF TcInit
  <1>3. TcTabInv /\ TcRunInv
    BY <1>2 DEF TcTabInv, TcRunInv
  <1>4. ASSUME NEW c \in TcClient PROVE TcPlaceInv(c) /\ TcStreamInv(c) /\ ~tcCli[c].bad
    <2>1. /\ tcConn[c].buf = <<>> /\ tcConn[c].put = 0 /\ tcConn[c].seq = 0 /\ tcConn[c].pc = "read"
          /\ tcIn[c] = <<>> /\ tcOut[c] = <<>>
          /\ tcCli[c].ph = "new" /\ tcCli[c].round = 0 /\ tcCli[c].n = 0 /\ ~tcCli[c].bad
      BY DEF TcInit
    <2>2. Len(tcConn[c].buf) = 0 /\ Len(tcIn[c]) = 0 /\ Len(tcOut[c]) = 0
      BY <2>1
    <2>3. TcPlaceInv(c)
      BY <2>1, <2>2 DEF TcPlaceInv
    <2>4. 0 * TcPipeOf = 0
      BY <1>1, TcPipeNat
    <2>5. TcGot(c) = 0 /\ TcSent(c) = 0
      BY <2>1, <2>4 DEF TcGot, TcSent
    <2>6. TcFirst(c) = 0
      BY <2>1, <2>2, <2>5 DEF TcFirst
    <2>7. TcStreamInv(c)
      BY <2>1, <2>2, <2>5, <2>6 DEF TcStreamInv
    <2>8. QED
      BY <2>1, <2>3, <2>7
  <1>5. TcSlotInv
    <2>1. \A i \in 0..(TcMAXCONN - 1) : ~tcSlot[i].active
      BY DEF TcInit
    <2>2. QED
      BY <1>2, <2>1 DEF TcSlotInv
  <1>6. QED
    BY <1>1, <1>3, <1>4, <1>5 DEF TcIndInv, TcNoneBad

LEMMA TcInductive ==
  ASSUME TcIndInv, [TcNext]_tcVars PROVE TcIndInv'
  <1>1. CASE TcNext
    <2>1. TcTypeOK' /\ TcTabInv' /\ TcRunInv' /\ TcSlotInv'
      BY <1>1, TcTypeKept, TcTabKept, TcSlotKept
    <2>2. \A c \in TcClient : TcPlaceInv(c)' /\ TcStreamInv(c)'
      BY <1>1, TcPlaceKept, TcStreamKept
    <2>3. TcNoneBad'
      BY <1>1, TcStreamKept
    <2>4. QED
      BY <2>1, <2>2, <2>3 DEF TcIndInv
  <1>2. CASE UNCHANGED tcVars
    <2>1. UNCHANGED <<tcMode, tcDev, tcBefore, tcCli, tcIn, tcOut, tcBacklog, tcConn, tcTab, tcSlot, tcAt, tcCur>>
      BY <1>2 DEF tcVars
    <2>2. TcTypeOK' /\ TcTabInv' /\ TcRunInv' /\ TcNoneBad'
      BY <2>1 DEF TcIndInv, TcTypeOK, TcTabInv, TcRunInv, TcNoneBad, TcCoro
    <2>3. \A c \in TcClient : TcPlaceInv(c)' /\ TcStreamInv(c)'
      <3>1. \A c \in TcClient : TcSame(c) /\ TcPlaceInv(c) /\ TcStreamInv(c)
        BY <2>1 DEF TcSame, TcIndInv
      <3>2. \A c \in TcClient : TcPlaceInv(c)'
        BY <2>1, <3>1 DEF TcPlaceInv
      <3>3. QED
        BY <2>1, <3>1, <3>2, TcStreamSame
    <2>4. TcSlotInv'
      BY <2>1 DEF TcIndInv, TcSlotInv, TcSlotOf, TcPlace, TcCoro
    <2>5. QED
      BY <2>2, <2>3, <2>4 DEF TcIndInv
  <1>3. QED
    BY <1>1, <1>2

\* A fiber that waits has its slot, and a slot with work has a fiber that waits.
LEMMA TcParked ==
  ASSUME TcIndInv PROVE TcReplies
  <1>1. ASSUME NEW c \in TcClient, c \in {tcTab[i] : i \in 1..Len(tcTab)}, TcCoro
        PROVE  /\ tcSlot[TcIdx(c)].active => tcConn[c].st = "WAIT_OFF"
               /\ tcDev = "emu" /\ tcConn[c].st = "WAIT_OFF" => tcSlot[TcIdx(c)].active
    <2>1. PICK j \in 1..Len(tcTab) : tcTab[j] = c
      BY <1>1
    <2>2. TcSlotOf(j) /\ TcIdx(c) = TcPlace(j)
      BY <2>1, TcSlotFacts
    <2>3. QED
      BY <1>1, <2>1, <2>2 DEF TcSlotOf
  <1>2. TcNoneBad
    BY DEF TcIndInv
  <1>3. QED
    BY <1>1, <1>2 DEF TcReplies, TcParkedOnSlot

\* Every reply that a client of the TCO servers reads is the one it expects, and
\* no fiber of run_coro() resumes while the device works on its buffer: for any
\* number of clients that MAXCONN has room for, any PIPE and socket size.
THEOREM TcCorrect == TcSpec => []TcReplies
  <1>1. TcInit => TcIndInv
    BY TcInitial
  <1>2. TcIndInv /\ [TcNext]_tcVars => TcIndInv'
    BY TcInductive
  <1>3. TcIndInv => TcReplies
    BY TcParked
  <1>4. QED
    BY <1>1, <1>2, <1>3, PTL DEF TcSpec
=============================================================================
