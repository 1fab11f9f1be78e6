------------------------ MODULE SpecSerializeProofs ------------------------
(***************************************************************************)
(* Proofs about handlers that interleave on shared state.                  *)
(*                                                                         *)
(* Speculate-or-serialize, for any number of coroutines, keys and          *)
(* requests: a coroutine between its read and its commit relates to the    *)
(* cache through ReadInv; the scheduler and the device only move           *)
(* coroutines about and cannot disturb it.                                 *)
(*                                                                         *)
(* The measured patterns under their mutex, for any number of handlers,    *)
(* iterations, entries and blocks: all but one handler are outside every   *)
(* section (ShOthers), so that what is half done belongs to one handler.   *)
(***************************************************************************)
EXTENDS SpecSerialize, SharedState, Sequences, FiniteSetTheorems, TLAPS

LEMMA InitInv == Init => IndInv
  <1> SUFFICES ASSUME Init PROVE IndInv
    OBVIOUS
  <1>1. (CHOOSE k \in Key : TRUE) \in Key
    BY SerializeAssumption
  <1>2. QED
    BY <1>1, SerializeAssumption
       DEF Init, IndInv, TypeOK, LoopInv, LockInv, ReadInv, Coro, NoCoro

\* The scheduler and the device touch neither the cache nor a local of body().
LEMMA SchedulerStepInv ==
  ASSUME IndInv,
         \/ Scan \/ Dispatch \/ Skip \/ EndPass \/ Terminated
         \/ \E c \in Coro : Complete(c)
  PROVE  IndInv'
  <1> USE SerializeAssumption DEF IndInv, TypeOK, Coro, NoCoro
  <1>1. UNCHANGED <<MODE, cacheVars, localVars, finished>>
    BY DEF Scan, Dispatch, Skip, EndPass, Terminated, Complete, vars
  <1>2. LockInv' /\ ReadInv'
    BY <1>1 DEF LockInv, ReadInv, cacheVars, localVars
  <1>3. waiting' \in [Coro -> BOOLEAN] /\ done' \in [Coro -> BOOLEAN]
    BY DEF Scan, Dispatch, Skip, EndPass, Terminated, Complete, vars, slotVars
  <1>4. /\ pc' \in {"scan", "run", "end"} /\ idx' \in 1..(C + 1)
        /\ cur' \in Coro \cup {NoCoro} /\ fin' \in 0..C
        /\ LoopInv'
    <2> USE DEF LoopInv, localVars
    <2>1. CASE Scan
      BY <1>1, <2>1 DEF Scan
    <2>2. CASE Dispatch
      BY <1>1, <2>2 DEF Dispatch
    <2>3. CASE Skip
      <3>1. /\ pc' = pc /\ cur' = cur /\ cur = NoCoro /\ idx <= C /\ idx' = idx + 1
            /\ fin' \in {fin, fin + 1} /\ fin < idx
        BY <2>3 DEF Skip
      <3>2. idx' \in 1..(C + 1) /\ fin' \in 0..C /\ fin' < idx'
        BY <3>1
      <3>3. QED
        BY <1>1, <3>1, <3>2
    <2>4. CASE EndPass
      BY <1>1, <2>4 DEF EndPass
    <2>5. CASE UNCHANGED loopVars
      BY <1>1, <2>5 DEF loopVars
    <2>6. QED
      BY <2>1, <2>2, <2>3, <2>4, <2>5 DEF Terminated, Complete, vars
  <1>5. QED
    BY <1>1, <1>2, <1>3, <1>4 DEF cacheVars, localVars

\* What a commit leaves of the types.
LEMMA WriteType ==
  ASSUME TypeOK, NEW c \in Coro, NEW k \in Key, NEW x \in Nat,
         i[c] + 1 \in 0..N_ITERS, Write(c, k, x)
  PROVE  /\ val' \in [Key -> Nat] /\ ver' \in [Key -> Nat]
         /\ i' \in [Coro -> 0..N_ITERS] /\ g_commits' \in Nat
  <1>1. val' = [val EXCEPT ![k] = x + 1] /\ val \in [Key -> Nat] /\ x + 1 \in Nat
    BY DEF Write, TypeOK
  <1>2. ver' = [ver EXCEPT ![k] = ver[k] + 1] /\ ver \in [Key -> Nat]
    BY DEF Write, TypeOK
  <1>3. i' = [i EXCEPT ![c] = i[c] + 1] /\ i \in [Coro -> 0..N_ITERS]
    BY DEF Write, TypeOK
  <1>4. g_commits' \in Nat
    BY DEF Write, TypeOK
  <1>5. QED
    BY <1>1, <1>2, <1>3, <1>4

LEMMA ReadStepInv ==
  ASSUME IndInv, NEW c \in Coro, NEW k \in Key, Read(c, k)
  PROVE  IndInv'
  <1>1. c = idx /\ pc = "run" /\ idx \in 1..C /\ fin < idx
    <2>1. cur = c /\ c # NoCoro
      BY DEF Read, InLoop, Coro, NoCoro
    <2>2. QED
      BY <2>1 DEF IndInv, LoopInv, Coro
  <1> USE SerializeAssumption
      DEF IndInv, TypeOK, Coro, NoCoro, Read, Go, Offload, SwitchOut, InLoop,
          cacheVars, localVars, slotVars, loopVars
  <1>2. pc' \in {"scan", "run", "end"} /\ idx' \in 1..(C + 1) /\ fin' \in 0..C
        /\ cur' \in Coro \cup {NoCoro} /\ LoopInv'
    BY <1>1 DEF LoopInv
  <1>3. TypeOK'
    BY <1>2 DEF LoopInv
  <1>4. LockInv'
    BY DEF LockInv
  <1>5. ReadInv'
    <2> SUFFICES ASSUME NEW e \in Coro, at'[e] = "commit"
                 PROVE  /\ MODE' = "lock" => v'[e] = val'[key'[e]]
                        /\ MODE' = "detect" => rver'[e] <= ver'[key'[e]]
                        /\ MODE' = "detect" =>
                             v'[e] - rver'[e] = val'[key'[e]] - ver'[key'[e]]
      BY DEF ReadInv
    <2>1. CASE e = c
      BY <2>1 DEF ReadInv, LockInv
    <2>2. CASE e # c
      BY <2>2 DEF ReadInv, LockInv
    <2>3. QED
      BY <2>1, <2>2
  <1>6. QED
    BY <1>2, <1>3, <1>4, <1>5

LEMMA UpdateStepInv ==
  ASSUME IndInv, NEW c \in Coro, NEW k \in Key, Update(c, k)
  PROVE  IndInv'
  <1>1. c = idx /\ pc = "run" /\ idx \in 1..C /\ fin < idx
    <2>1. cur = c /\ c # NoCoro
      BY DEF Update, InLoop, Coro, NoCoro
    <2>2. QED
      BY <2>1 DEF IndInv, LoopInv, Coro
  <1> USE SerializeAssumption
      DEF IndInv, TypeOK, Coro, NoCoro, Update, Write, Offload, SwitchOut, InLoop,
          cacheVars, localVars, slotVars, loopVars
  <1>2. pc' \in {"scan", "run", "end"} /\ idx' \in 1..(C + 1) /\ fin' \in 0..C
        /\ cur' \in Coro \cup {NoCoro} /\ LoopInv'
    <2>1. pc' = pc /\ idx' = idx + 1 /\ fin' = fin /\ cur' = NoCoro
      OBVIOUS
    <2>2. idx' \in 1..(C + 1) /\ fin' \in 0..C /\ fin' < idx'
      BY <1>1, <2>1
    <2>3. \A d \in Coro : at'[d] # "top" => i'[d] < N_ITERS
      BY DEF LoopInv
    <2>4. QED
      BY <2>1, <2>2, <2>3 DEF LoopInv
  <1>3. TypeOK'
    <2>1. /\ val' \in [Key -> Nat] /\ ver' \in [Key -> Nat] /\ g_commits' \in Nat
          /\ i' \in [Coro -> 0..N_ITERS]
      <3>1. val' = [val EXCEPT ![k] = val[k] + 1] /\ ver' = [ver EXCEPT ![k] = ver[k] + 1] /\ g_commits' = g_commits + 1
        OBVIOUS
      <3>2. i' = [i EXCEPT ![c] = i[c] + 1] /\ i \in [Coro -> 0..N_ITERS] /\ i[c] < N_ITERS
        OBVIOUS
      <3>3. val \in [Key -> Nat] /\ ver \in [Key -> Nat] /\ g_commits \in Nat
        OBVIOUS
      <3> HIDE DEF Update, IndInv, Coro
      <3>4. i[c] + 1 \in 0..N_ITERS
        BY <3>2
      <3>5. i' \in [Coro -> 0..N_ITERS]
        BY <3>2, <3>4
      <3>6. QED
        BY <3>1, <3>3, <3>5
    <2>2. waiting' \in [Coro -> BOOLEAN] /\ done' \in [Coro -> BOOLEAN]
      OBVIOUS
    <2>3. UNCHANGED <<MODE, keylock, g_fallbacks, key, v, rver, at, finished>>
      OBVIOUS
    <2> HIDE DEF Update
    <2>4. QED
      BY <1>2, <2>1, <2>2, <2>3
  <1>4. LockInv'
    BY DEF LockInv
  <1>5. ReadInv'
    <2> SUFFICES ASSUME NEW e \in Coro, at'[e] = "commit"
                 PROVE  /\ MODE' = "lock" => v'[e] = val'[key'[e]]
                        /\ MODE' = "detect" => rver'[e] <= ver'[key'[e]]
                        /\ MODE' = "detect" =>
                             v'[e] - rver'[e] = val'[key'[e]] - ver'[key'[e]]
      BY DEF ReadInv
    <2>1. CASE e = c
      BY <2>1 DEF ReadInv, LockInv
    <2>2. CASE e # c
      BY <2>2 DEF ReadInv, LockInv
    <2>3. QED
      BY <2>1, <2>2
  <1>6. QED
    BY <1>2, <1>3, <1>4, <1>5

LEMMA ChooseStepInv ==
  ASSUME IndInv, NEW c \in Coro, NEW k \in Key, Choose(c, k)
  PROVE  IndInv'
  <1>1. c = idx /\ pc = "run" /\ idx \in 1..C /\ fin < idx
    <2>1. cur = c /\ c # NoCoro
      BY DEF Choose, InLoop, Coro, NoCoro
    <2>2. QED
      BY <2>1 DEF IndInv, LoopInv, Coro
  <1> USE SerializeAssumption
      DEF IndInv, TypeOK, Coro, NoCoro, Choose, Go, InLoop,
          cacheVars, localVars, slotVars, loopVars
  <1>2. pc' \in {"scan", "run", "end"} /\ idx' \in 1..(C + 1) /\ fin' \in 0..C
        /\ cur' \in Coro \cup {NoCoro} /\ LoopInv'
    BY <1>1 DEF LoopInv
  <1>3. TypeOK'
    BY <1>2 DEF LoopInv
  <1>4. LockInv'
    BY DEF LockInv
  <1>5. ReadInv'
    <2> SUFFICES ASSUME NEW e \in Coro, at'[e] = "commit"
                 PROVE  /\ MODE' = "lock" => v'[e] = val'[key'[e]]
                        /\ MODE' = "detect" => rver'[e] <= ver'[key'[e]]
                        /\ MODE' = "detect" =>
                             v'[e] - rver'[e] = val'[key'[e]] - ver'[key'[e]]
      BY DEF ReadInv
    <2>1. CASE e = c
      BY <2>1 DEF ReadInv, LockInv
    <2>2. CASE e # c
      BY <2>2 DEF ReadInv, LockInv
    <2>3. QED
      BY <2>1, <2>2
  <1>6. QED
    BY <1>2, <1>3, <1>4, <1>5

LEMMA CommitStepInv ==
  ASSUME IndInv, NEW c \in Coro, Commit(c)
  PROVE  IndInv'
  <1>1. c = idx /\ pc = "run" /\ idx \in 1..C /\ fin < idx
    <2>1. cur = c /\ c # NoCoro
      BY DEF Commit, Coro, NoCoro
    <2>2. QED
      BY <2>1 DEF IndInv, LoopInv, Coro
  <1>2. /\ at[c] = "commit" /\ key[c] \in Key /\ v[c] \in Nat /\ rver[c] \in Nat
        /\ val[key[c]] \in Nat /\ ver[key[c]] \in Nat
    BY DEF Commit, IndInv, TypeOK
  <1>3. i[c] + 1 \in 0..N_ITERS
    <2>1. i[c] < N_ITERS /\ i[c] \in 0..N_ITERS
      BY <1>2 DEF IndInv, TypeOK, LoopInv
    <2>2. QED
      BY <2>1, SerializeAssumption
  <1>4. MODE = "detect" /\ ver[key[c]] = rver[c] => v[c] = val[key[c]]
    <2>1. MODE = "detect" => v[c] - rver[c] = val[key[c]] - ver[key[c]]
      BY <1>2 DEF IndInv, ReadInv
    <2>2. QED
      BY <1>2, <2>1
  <1>5. /\ val' \in [Key -> Nat] /\ ver' \in [Key -> Nat]
        /\ i' \in [Coro -> 0..N_ITERS] /\ g_commits' \in Nat
    <2>1. PICK x \in Nat : Write(c, key[c], x)
      BY <1>2 DEF Commit
    <2>2. QED
      BY <1>2, <1>3, <2>1, WriteType DEF IndInv
  <1> USE SerializeAssumption
      DEF IndInv, TypeOK, Coro, NoCoro, Commit, Go, Write,
          cacheVars, localVars, slotVars, loopVars
  <1>6. pc' \in {"scan", "run", "end"} /\ idx' \in 1..(C + 1) /\ fin' \in 0..C
        /\ cur' \in Coro \cup {NoCoro} /\ LoopInv'
    BY <1>1 DEF LoopInv
  <1>7. TypeOK'
    <2>1. at' \in [Coro -> {"top", "lock", "commit"}] /\ g_fallbacks' \in Nat
      OBVIOUS
    <2>2. QED
      BY <1>5, <1>6, <2>1
  <1>8. LockInv'
    BY DEF LockInv
  <1>9. ReadInv'
    <2> SUFFICES ASSUME NEW e \in Coro, at'[e] = "commit"
                 PROVE  /\ MODE' = "lock" => v'[e] = val'[key'[e]]
                        /\ MODE' = "detect" => rver'[e] <= ver'[key'[e]]
                        /\ MODE' = "detect" =>
                             v'[e] - rver'[e] = val'[key'[e]] - ver'[key'[e]]
      BY DEF ReadInv
    <2>1. CASE e = c
      BY <2>1 DEF ReadInv, LockInv
    <2>2. CASE e # c /\ MODE = "detect"
      <3>1. at[e] = "commit" /\ v'[e] = v[e] /\ rver'[e] = rver[e] /\ key'[e] = key[e]
        BY <2>2
      <3>2. /\ v[c] \in Nat /\ rver[c] \in Nat /\ v[e] \in Nat /\ rver[e] \in Nat
            /\ key[c] \in Key /\ key[e] \in Key
            /\ \A k \in Key : val[k] \in Nat /\ ver[k] \in Nat
        OBVIOUS
      <3>3. val' = [val EXCEPT ![key[c]] = val[key[c]] + 1]
        BY <2>2, <1>4
      <3>4. ver' = [ver EXCEPT ![key[c]] = ver[key[c]] + 1]
        OBVIOUS
      <3>5. rver[e] <= ver[key[e]] /\ v[e] - rver[e] = val[key[e]] - ver[key[e]]
        BY <2>2, <3>1 DEF ReadInv
      <3>6. \/ val'[key[e]] = val[key[e]] /\ ver'[key[e]] = ver[key[e]]
            \/ val'[key[e]] = val[key[e]] + 1 /\ ver'[key[e]] = ver[key[e]] + 1
        BY <3>2, <3>3, <3>4
      <3> HIDE DEF Commit, IndInv, TypeOK, Write
      <3>7. MODE' = "detect"
        BY <2>2 DEF Commit
      <3>8. QED
        BY <3>1, <3>2, <3>5, <3>6, <3>7
    <2>3. CASE e # c /\ MODE = "naive"
      BY <2>3
    <2>4. QED
      BY <2>1, <2>2, <2>3
  <1>10. QED
    BY <1>6, <1>7, <1>8, <1>9

LEMMA LockReadStepInv ==
  ASSUME IndInv, NEW c \in Coro, LockRead(c)
  PROVE  IndInv'
  <1>1. c = idx /\ pc = "run" /\ idx \in 1..C /\ fin < idx
    <2>1. cur = c /\ c # NoCoro
      BY DEF LockRead, Coro, NoCoro
    <2>2. QED
      BY <2>1 DEF IndInv, LoopInv, Coro
  <1> USE SerializeAssumption
      DEF IndInv, TypeOK, Coro, NoCoro, LockRead, Go, Offload, SwitchOut,
          cacheVars, localVars, slotVars, loopVars
  <1>2. pc' \in {"scan", "run", "end"} /\ idx' \in 1..(C + 1) /\ fin' \in 0..C
        /\ cur' \in Coro \cup {NoCoro} /\ LoopInv'
    BY <1>1 DEF LoopInv
  <1>3. TypeOK'
    BY <1>2 DEF LoopInv
  <1>4. LockInv'
    BY DEF LockInv
  <1>5. ReadInv'
    <2> SUFFICES ASSUME NEW e \in Coro, at'[e] = "commit"
                 PROVE  /\ MODE' = "lock" => v'[e] = val'[key'[e]]
                        /\ MODE' = "detect" => rver'[e] <= ver'[key'[e]]
                        /\ MODE' = "detect" =>
                             v'[e] - rver'[e] = val'[key'[e]] - ver'[key'[e]]
      BY DEF ReadInv
    <2>1. CASE e = c
      BY <2>1 DEF ReadInv, LockInv
    <2>2. CASE e # c
      BY <2>2 DEF ReadInv, LockInv
    <2>3. QED
      BY <2>1, <2>2
  <1>6. QED
    BY <1>2, <1>3, <1>4, <1>5

LEMMA LockRetryStepInv ==
  ASSUME IndInv, NEW c \in Coro, LockRetry(c)
  PROVE  IndInv'
  <1>1. c = idx /\ pc = "run" /\ idx \in 1..C /\ fin < idx
    <2>1. cur = c /\ c # NoCoro
      BY DEF LockRetry, Coro, NoCoro
    <2>2. QED
      BY <2>1 DEF IndInv, LoopInv, Coro
  <1> USE SerializeAssumption
      DEF IndInv, TypeOK, Coro, NoCoro, LockRetry, SwitchOut,
          cacheVars, localVars, slotVars, loopVars
  <1>2. pc' \in {"scan", "run", "end"} /\ idx' \in 1..(C + 1) /\ fin' \in 0..C
        /\ cur' \in Coro \cup {NoCoro} /\ LoopInv'
    BY <1>1 DEF LoopInv
  <1>3. TypeOK'
    BY <1>2 DEF LoopInv
  <1>4. LockInv'
    BY DEF LockInv
  <1>5. ReadInv'
    BY DEF ReadInv
  <1>6. QED
    BY <1>2, <1>3, <1>4, <1>5

LEMMA WriteUnlockStepInv ==
  ASSUME IndInv, NEW c \in Coro, WriteUnlock(c)
  PROVE  IndInv'
  <1>1. c = idx /\ pc = "run" /\ idx \in 1..C /\ fin < idx
    <2>1. cur = c /\ c # NoCoro
      BY DEF WriteUnlock, Coro, NoCoro
    <2>2. QED
      BY <2>1 DEF IndInv, LoopInv, Coro
  <1>2. /\ at[c] = "commit" /\ key[c] \in Key /\ v[c] \in Nat /\ rver[c] \in Nat
        /\ val[key[c]] \in Nat /\ ver[key[c]] \in Nat
    BY DEF WriteUnlock, IndInv, TypeOK
  <1>3. i[c] + 1 \in 0..N_ITERS
    <2>1. i[c] < N_ITERS /\ i[c] \in 0..N_ITERS
      BY <1>2 DEF IndInv, TypeOK, LoopInv
    <2>2. QED
      BY <2>1, SerializeAssumption
  <1>4. /\ val' \in [Key -> Nat] /\ ver' \in [Key -> Nat]
        /\ i' \in [Coro -> 0..N_ITERS] /\ g_commits' \in Nat
    BY <1>2, <1>3, WriteType DEF IndInv, WriteUnlock
  <1> USE SerializeAssumption
      DEF IndInv, TypeOK, Coro, NoCoro, WriteUnlock, Go, Write,
          cacheVars, localVars, slotVars, loopVars
  <1>5. pc' \in {"scan", "run", "end"} /\ idx' \in 1..(C + 1) /\ fin' \in 0..C
        /\ cur' \in Coro \cup {NoCoro} /\ LoopInv'
    BY <1>1 DEF LoopInv
  <1>6. TypeOK'
    <2>1. /\ at' \in [Coro -> {"top", "lock", "commit"}]
          /\ keylock' \in [Key -> BOOLEAN]
      OBVIOUS
    <2>2. QED
      BY <1>4, <1>5, <2>1
  <1>7. LockInv'
    BY DEF LockInv
  <1>8. ReadInv'
    <2> SUFFICES ASSUME NEW e \in Coro, at'[e] = "commit"
                 PROVE  /\ MODE' = "lock" => v'[e] = val'[key'[e]]
                        /\ MODE' = "detect" => rver'[e] <= ver'[key'[e]]
                        /\ MODE' = "detect" =>
                             v'[e] - rver'[e] = val'[key'[e]] - ver'[key'[e]]
      BY DEF ReadInv
    <2>1. CASE e = c
      BY <2>1 DEF ReadInv, LockInv
    <2>2. CASE e # c
      BY <2>2 DEF ReadInv, LockInv
    <2>3. QED
      BY <2>1, <2>2
  <1>9. QED
    BY <1>5, <1>6, <1>7, <1>8

LEMMA FinishStepInv ==
  ASSUME IndInv, NEW c \in Coro, Finish(c)
  PROVE  IndInv'
  <1>1. c = idx /\ pc = "run" /\ idx \in 1..C /\ fin < idx
    <2>1. cur = c /\ c # NoCoro
      BY DEF Finish, Coro, NoCoro
    <2>2. QED
      BY <2>1 DEF IndInv, LoopInv, Coro
  <1> USE SerializeAssumption
      DEF IndInv, TypeOK, Coro, NoCoro, Finish, SwitchOut,
          cacheVars, localVars, slotVars, loopVars
  <1>2. pc' \in {"scan", "run", "end"} /\ idx' \in 1..(C + 1) /\ fin' \in 0..C
        /\ cur' \in Coro \cup {NoCoro} /\ LoopInv'
    BY <1>1 DEF LoopInv
  <1>3. TypeOK'
    BY <1>2 DEF LoopInv
  <1>4. LockInv'
    BY DEF LockInv
  <1>5. ReadInv'
    BY DEF ReadInv
  <1>6. QED
    BY <1>2, <1>3, <1>4, <1>5

LEMMA NextInv == IndInv /\ [Next]_vars => IndInv'
  <1> SUFFICES ASSUME IndInv, [Next]_vars PROVE IndInv'
    OBVIOUS
  <1>1. ASSUME NEW c \in Coro, Body(c) PROVE IndInv'
    BY <1>1, ReadStepInv, UpdateStepInv, ChooseStepInv, CommitStepInv,
       LockReadStepInv, LockRetryStepInv, WriteUnlockStepInv, FinishStepInv DEF Body
  <1>2. CASE UNCHANGED vars
    BY <1>2 DEF IndInv, TypeOK, LoopInv, LockInv, ReadInv, vars, cacheVars,
       localVars, slotVars, loopVars
  <1>3. QED
    BY <1>1, <1>2, SchedulerStepInv DEF Next, SchedulerStep

\* IndInv holds in every reachable state of the scheduler.
THEOREM Invariance == Spec => []IndInv
  BY InitInv, NextInv, PTL DEF Spec

\* The program's variables keep their types; in particular no coroutine does
\* more than N_ITERS requests.
THEOREM TypeCorrect == Spec => []TypeOK
  <1>1. IndInv => TypeOK
    BY DEF IndInv
  <1>2. QED
    BY Invariance, <1>1, PTL

\* In detect mode the version check is exact: a commit falls back to reading
\* the entry again if and only if the entry's value is not what it read.
THEOREM FallbackExact == Spec => FallbackIsConflict
  <1>1. ASSUME IndInv, MODE = "detect", NEW c \in Coro, Commit(c)
        PROVE  g_fallbacks' # g_fallbacks <=> v[c] # val[key[c]]
    <2>1. at[c] = "commit"
      BY <1>1 DEF Commit
    <2>2. v[c] - rver[c] = val[key[c]] - ver[key[c]]
      BY <1>1, <2>1 DEF IndInv, ReadInv
    <2>3. /\ v[c] \in Nat /\ rver[c] \in Nat /\ g_fallbacks \in Nat
          /\ val[key[c]] \in Nat /\ ver[key[c]] \in Nat
      BY <1>1 DEF IndInv, TypeOK
    <2>4. g_fallbacks' = IF ver[key[c]] # rver[c] THEN g_fallbacks + 1 ELSE g_fallbacks
      BY <1>1 DEF Commit
    <2>5. QED
      BY <2>2, <2>3, <2>4
  <1>2. IndInv /\ [Next]_vars =>
          [MODE = "detect" => \A c \in Coro : Commit(c) =>
             (g_fallbacks' # g_fallbacks <=> v[c] # val[key[c]])]_vars
    BY <1>1
  <1>3. QED
    BY <1>2, Invariance, PTL DEF Spec, FallbackIsConflict

\* In the modes detect, serial and lock every commit adds one to the latest
\* value of its entry: the program implements a bank of atomic counters.
THEOREM NoUpdateIsLost == "naive" \notin Modes => (Spec => CommitsAreAtomic)
  <1> SUFFICES ASSUME "naive" \notin Modes PROVE Spec => CommitsAreAtomic
    OBVIOUS
  <1>1. Init => CountersBar!Init
    BY DEF Init, CountersBar!Init
  <1>2. ASSUME IndInv, [Next]_vars
        PROVE  [CountersBar!Next]_<<val, g_commits>>
    <2>1. ASSUME NEW c \in Coro, NEW k \in Key, Write(c, k, val[k])
          PROVE  CountersBar!Next
      BY <2>1 DEF Write, CountersBar!Next, CountersBar!Increment
    <2>2. ASSUME NEW c \in Coro, Commit(c) PROVE CountersBar!Next
      <3>1. MODE = "detect" /\ key[c] \in Key /\ at[c] = "commit"
        BY <1>2, <2>2 DEF Commit, IndInv, TypeOK
      <3>2. ver[key[c]] = rver[c] => v[c] = val[key[c]]
        <4>1. v[c] - rver[c] = val[key[c]] - ver[key[c]]
          BY <1>2, <2>2, <3>1 DEF IndInv, ReadInv
        <4>2. /\ v[c] \in Nat /\ rver[c] \in Nat
              /\ val[key[c]] \in Nat /\ ver[key[c]] \in Nat
          BY <1>2, <2>2, <3>1 DEF IndInv, TypeOK
        <4>3. QED
          BY <4>1, <4>2
      <3>3. Write(c, key[c], val[key[c]])
        BY <2>2, <3>1, <3>2 DEF Commit
      <3>4. QED
        BY <2>1, <3>1, <3>3
    <2>3. ASSUME NEW c \in Coro, WriteUnlock(c) PROVE CountersBar!Next
      <3>1. key[c] \in Key /\ v[c] = val[key[c]]
        BY <1>2, <2>3 DEF WriteUnlock, IndInv, TypeOK, ReadInv
      <3>2. QED
        BY <2>1, <2>3, <3>1 DEF WriteUnlock
    <2>4. ASSUME NEW c \in Coro, NEW k \in Key, Update(c, k) PROVE CountersBar!Next
      BY <2>1, <2>4 DEF Update
    <2>5. ASSUME \/ Scan \/ Dispatch \/ Skip \/ EndPass \/ Terminated
                 \/ UNCHANGED vars
                 \/ \E c \in Coro :
                      \/ Complete(c) \/ LockRead(c) \/ LockRetry(c) \/ Finish(c)
                      \/ \E k \in Key : Read(c, k) \/ Choose(c, k)
          PROVE  UNCHANGED <<val, g_commits>>
      BY <2>5 DEF Scan, Dispatch, Skip, EndPass, Terminated, Complete, LockRead,
         LockRetry, Finish, Read, Choose, vars, cacheVars
    <2>6. QED
      BY <1>2, <2>2, <2>3, <2>4, <2>5 DEF Next, SchedulerStep, Body
  <1>3. QED
    BY <1>1, <1>2, Invariance, PTL DEF Spec, CommitsAreAtomic, CountersBar!Spec
-----------------------------------------------------------------------------
(* The measured patterns under their mutex. *)

ShPlaces ==
    {"post", "load", "store", "tail", "moved", "val", "end", "queued", "prefill", "alloc", "popped",
     "have", "offload", "free", "freed"}

ShOutside == {"post", "prefill", "offload"}
ShEntries == (ShThread \X Nat) \cup {ShNoPush}
ShHandlers ==
    [it : 0..ShIters, at : ShPlaces, k : Nat, reg : Nat, mine : [1..ShBlocks -> 0..ShNBLOCK]]

ShTypeOK ==
    /\ shPat \in ShPatterns /\ shMtx \in ShThread \cup {"free"}
    /\ shT \in [ShThread -> ShHandlers]
    /\ shCell \in [ShCells -> Nat]
    /\ shRing \in [0..(ShQN - 1) -> ShEntries]
    /\ shEnt \in [key : ShEntries, val : ShEntries]
    /\ shList \in [0..(ShNBLOCK - 1) -> 1..ShNBLOCK]
    /\ shOwner \in [1..ShNBLOCK -> ShThread \cup {ShNobody}]
    /\ shDouble \in BOOLEAN

\* A handler at work has an iteration left; its position is within its words or blocks.
ShPlaceInv ==
    \A t \in ShThread :
        /\ shT[t].at # "post" => shT[t].it < ShIters
        /\ shT[t].at \in {"load", "store"} => shT[t].k \in 1..Len(ShWords)
        /\ shT[t].at \in {"alloc", "popped", "free", "freed"} => shT[t].k \in 1..ShBlocks

\* Inside a section, and only there, a handler holds the mutex.
ShMutexInv == \A t \in ShThread : shT[t].at \notin ShOutside <=> shMtx = t

\* What was loaded is still the word's value at the store.
ShRegInv ==
    \A t \in ShThread :
        /\ shT[t].at = "store" => shT[t].reg = shCell[ShWords[shT[t].k]]
        /\ shT[t].at = "moved" => shT[t].reg = shCell["tail"]
        /\ shT[t].at \in {"popped", "freed"} => shT[t].reg = shCell["top"]

\* Whether this iteration's store to word j is done; ShAdded(j) is all of them.
ShPast(t, j) ==
    \/ shT[t].at \notin {"post", "load", "store"}
    \/ shT[t].at \in {"load", "store"} /\ shT[t].k > j
ShAdded(j) ==
    {p \in ShThread \X (0..(ShIters - 1)) :
        p[2] < shT[p[1]].it \/ (p[2] = shT[p[1]].it /\ ShPast(p[1], j))}
ShCountInv ==
    shPat # "cache" => \A j \in 1..Len(ShWords) : shCell[ShWords[j]] = Cardinality(ShAdded(j))

\* A queue's element is in the ring before q_head counts it.  The entries are
\* the first ones, or all; each was pushed once, and by whom it says.
ShPushing == IF \E t \in ShThread : shT[t].at = "store" THEN 1 ELSE 0
ShRingInv ==
    shPat = "queue" =>
        /\ \A z \in 0..(ShQN - 1) : shRing[z] # ShNoPush <=> z < shCell["head"] + ShPushing
        /\ \A z, j \in 0..(ShQN - 1) : shRing[z] # ShNoPush /\ shRing[z] = shRing[j] => z = j
        /\ \A z \in 0..(ShQN - 1), t \in ShThread : shRing[z][1] = t =>
               \/ shRing[z][2] < shT[t].it
               \/ shRing[z][2] = shT[t].it /\ shT[t].at \notin {"post", "load"}
\* q_tail lags one behind only inside the section that catches it up.
ShTailInv ==
    shPat = "queue" =>
        /\ shCell["head"] <= shCell["tail"] + ShQN + 1
        /\ shCell["head"] > shCell["tail"] + ShQN => \E t \in ShThread : shT[t].at \in {"tail", "moved"}
        /\ \A t \in ShThread : shT[t].at = "moved" => shCell["head"] > shCell["tail"] + ShQN

\* Key and value differ only between the two stores.
ShEntInv ==
    /\ shEnt.key # shEnt.val => \E t \in ShThread : shT[t].at = "val"
    /\ \A t \in ShThread : shT[t].at = "val" => shEnt.key = ShPush(t)

\* mine[i] names a block that t has: taken, and not yet given back.
ShHas(t, z) ==
    /\ \/ shT[t].at \in {"alloc", "popped"} /\ z < shT[t].k
       \/ shT[t].at \in {"have", "offload"}
       \/ shT[t].at = "free" /\ z >= shT[t].k
       \/ shT[t].at = "freed" /\ z > shT[t].k
    /\ shT[t].mine[z] # 0
ShFreeing(b) == \E t \in ShThread : shT[t].at = "freed" /\ shT[t].mine[shT[t].k] = b
ShListed(b) == \E z \in 0..(shCell["top"] - 1) : shList[z] = b
\* The list holds each of its blocks once; these are the blocks that nobody owns,
\* but for one that is on its way back.
ShListInv ==
    /\ shCell["top"] <= ShNBLOCK
    /\ \A z, j \in 0..(shCell["top"] - 1) : shList[z] = shList[j] => z = j
    /\ \A b \in 1..ShNBLOCK : shOwner[b] = ShNobody <=> ShListed(b) \/ ShFreeing(b)
    /\ \A b \in 1..ShNBLOCK : ~(ShListed(b) /\ ShFreeing(b))
    /\ \A t \in ShThread : shT[t].at = "freed" => shT[t].mine[shT[t].k] # 0
\* A handler has each of its blocks once, and is the owner of just these.
ShHeldInv ==
    \A t \in ShThread :
        /\ \A z, j \in 1..ShBlocks : ShHas(t, z) /\ ShHas(t, j) /\ shT[t].mine[z] = shT[t].mine[j] => z = j
        /\ \A b \in 1..ShNBLOCK : shOwner[b] = t <=> \E z \in 1..ShBlocks : ShHas(t, z) /\ shT[t].mine[z] = b

-----------------------------------------------------------------------------
(* What the steps of a handler do, without the updates of records. *)

ShNow(t, place, k, it, reg, mine) ==
    /\ shT' \in [ShThread -> ShHandlers]
    /\ shT'[t].at = place /\ shT'[t].k = k /\ shT'[t].it = it /\ shT'[t].reg = reg /\ shT'[t].mine = mine
    /\ \A u \in ShThread : u # t => shT'[u] = shT[u]

\* Enter or leave a section.
ShEnters(t, l, next) ==
    /\ shT[t].at = l /\ shT[t].it < ShIters /\ shMtx = "free" /\ shMtx' = t
    /\ ShNow(t, next, 1, shT[t].it, shT[t].reg, shT[t].mine)
    /\ UNCHANGED <<shCell, shRing, shEnt, shList, shOwner, shDouble>>

ShLeaves(t, l, next, it) ==
    /\ shT[t].at = l /\ shMtx' = "free"
    /\ ShNow(t, next, 1, it, shT[t].reg, shT[t].mine)
    /\ UNCHANGED <<shCell, shRing, shEnt, shList, shOwner, shDouble>>

\* A step inside the section.
ShInside(t, l, place, k, reg, mine) ==
    /\ shT[t].at = l /\ shMtx' = shMtx
    /\ ShNow(t, place, k, shT[t].it, reg, mine)

ShLoads(t) ==
    /\ shPat # "cache"
    /\ ShInside(t, "load", "store", shT[t].k, shCell[ShWords[shT[t].k]], shT[t].mine)
    /\ shPat = "queue" => shRing' = [shRing EXCEPT ![shCell["head"] % ShQN] = ShPush(t)]
    /\ shRing' \in [0..(ShQN - 1) -> ShEntries]
    /\ UNCHANGED <<shCell, shEnt, shList, shOwner, shDouble>>

ShAfterStore(k) ==
    IF k < Len(ShWords) THEN "load"
    ELSE IF shPat = "queue" THEN "tail" ELSE IF shPat = "kv" THEN "queued" ELSE "end"

ShStores(t) ==
    /\ shPat # "cache"
    /\ ShInside(t, "store", ShAfterStore(shT[t].k), shT[t].k + 1, shT[t].reg, shT[t].mine)
    /\ shCell' = [shCell EXCEPT ![ShWords[shT[t].k]] = shT[t].reg + 1]
    /\ UNCHANGED <<shRing, shEnt, shList, shOwner, shDouble>>

ShTests(t) ==
    /\ shPat \in {"queue", "kv"}
    /\ ShInside(t, "tail", IF ShTailMoves THEN "moved" ELSE "end", shT[t].k, shCell["tail"], shT[t].mine)
    /\ UNCHANGED <<shCell, shRing, shEnt, shList, shOwner, shDouble>>

ShMoves(t) ==
    /\ shPat \in {"queue", "kv"}
    /\ ShInside(t, "moved", "end", 1, shT[t].reg, shT[t].mine)
    /\ shCell' = [shCell EXCEPT !["tail"] = shT[t].reg + 1]
    /\ UNCHANGED <<shRing, shEnt, shList, shOwner, shDouble>>

ShKeys(t) ==
    /\ shPat = "cache"
    /\ ShInside(t, "load", "val", 1, shT[t].reg, shT[t].mine)
    /\ shEnt'.key = ShPush(t) /\ shEnt'.val = shEnt.val /\ shEnt' \in [key : ShEntries, val : ShEntries]
    /\ UNCHANGED <<shCell, shRing, shList, shOwner, shDouble>>

ShVals(t) ==
    /\ shPat = "cache"
    /\ ShInside(t, "val", "end", 1, shT[t].reg, shT[t].mine)
    /\ shEnt'.key = shEnt.key /\ shEnt'.val = ShPush(t) /\ shEnt' \in [key : ShEntries, val : ShEntries]
    /\ UNCHANGED <<shCell, shRing, shList, shOwner, shDouble>>

ShPops(t) ==
    /\ shPat = "kv"
    /\ ShInside(t, "alloc", "popped", shT[t].k, shCell["top"], shT[t].mine)
    /\ UNCHANGED <<shCell, shRing, shEnt, shList, shOwner, shDouble>>

ShNextK(t) == IF shT[t].k = ShBlocks THEN 1 ELSE shT[t].k + 1

ShTakesNone(t) ==
    /\ shPat = "kv" /\ shT[t].reg = 0
    /\ ShInside(t, "popped", ShNextBlock(t, "alloc", "have"), ShNextK(t), shT[t].reg,
                [shT[t].mine EXCEPT ![shT[t].k] = 0])
    /\ UNCHANGED <<shCell, shRing, shEnt, shList, shOwner, shDouble>>

ShTakes(t, blk) ==
    /\ shPat = "kv" /\ shT[t].reg # 0 /\ blk = shList[shT[t].reg - 1]
    /\ ShInside(t, "popped", ShNextBlock(t, "alloc", "have"), ShNextK(t), shT[t].reg,
                [shT[t].mine EXCEPT ![shT[t].k] = blk])
    /\ shCell' = [shCell EXCEPT !["top"] = shT[t].reg - 1]
    /\ shOwner' = [shOwner EXCEPT ![blk] = t]
    /\ shDouble' = (shDouble \/ shOwner[blk] # ShNobody)
    /\ UNCHANGED <<shRing, shEnt, shList>>

ShFreesNone(t) ==
    /\ shPat = "kv" /\ shT[t].mine[shT[t].k] = 0
    /\ ShInside(t, "free", ShNextBlock(t, "free", "tail"), ShNextK(t), shT[t].reg, shT[t].mine)
    /\ UNCHANGED <<shCell, shRing, shEnt, shList, shOwner, shDouble>>

ShFrees(t, blk) ==
    /\ shPat = "kv" /\ blk = shT[t].mine[shT[t].k] /\ blk # 0
    /\ ShInside(t, "free", "freed", shT[t].k, shCell["top"], shT[t].mine)
    /\ shOwner' = [shOwner EXCEPT ![blk] = ShNobody]
    /\ UNCHANGED <<shCell, shRing, shEnt, shList, shDouble>>

ShLists(t, blk) ==
    /\ shPat = "kv" /\ blk = shT[t].mine[shT[t].k] /\ shT[t].reg < ShNBLOCK
    /\ ShInside(t, "freed", ShNextBlock(t, "free", "tail"), ShNextK(t), shT[t].reg, shT[t].mine)
    /\ shList' = [shList EXCEPT ![shT[t].reg] = blk]
    /\ shCell' = [shCell EXCEPT !["top"] = shT[t].reg + 1]
    /\ UNCHANGED <<shRing, shEnt, shOwner, shDouble>>

\* The steps that leave the blocks alone, and the others.
ShPlain(t) ==
    \/ ShEnters(t, "post", "load") \/ ShLeaves(t, "end", "post", shT[t].it + 1)
    \/ ShLoads(t) \/ ShStores(t) \/ ShTests(t) \/ ShMoves(t) \/ ShKeys(t) \/ ShVals(t)

ShBlock(t) ==
    \/ shPat = "kv" /\ ShLeaves(t, "queued", "prefill", shT[t].it)
    \/ shPat = "kv" /\ ShEnters(t, "prefill", "alloc")
    \/ shPat = "kv" /\ ShLeaves(t, "have", "offload", shT[t].it)
    \/ shPat = "kv" /\ ShEnters(t, "offload", "free")
    \/ ShPops(t) \/ ShTakesNone(t) \/ ShTakes(t, shList[shT[t].reg - 1])
    \/ ShFreesNone(t) \/ ShFrees(t, shT[t].mine[shT[t].k]) \/ ShLists(t, shT[t].mine[shT[t].k])

LEMMA ShWordsAre ==
  ASSUME ShTypeOK
  PROVE  /\ Len(ShWords) = (IF shPat = "stats" THEN 3 ELSE 1)
         /\ \A j \in 1..Len(ShWords) : ShWords[j] \in ShCells \ {"tail", "top"}
         /\ \A z, j \in 1..Len(ShWords) : ShWords[z] = ShWords[j] => z = j
         /\ \A j \in 1..Len(ShWords) : ShWords[j] \in {"counter", "count", "head"} <=> j = Len(ShWords)
  <1>1. CASE shPat = "stats"
    BY <1>1 DEF ShWords, ShCells
  <1>2. CASE shPat = "counter"
    BY <1>2 DEF ShWords, ShCells
  <1>3. CASE shPat \notin {"stats", "counter"}
    BY <1>3 DEF ShWords, ShCells
  <1> QED
    BY <1>1, <1>2, <1>3

\* The two updates of a handler's record.
LEMMA ShUpdates ==
  ASSUME ShTypeOK, NEW t \in ShThread
  PROVE  \A place \in ShPlaces, n \in Nat :
            /\ shT' = [shT EXCEPT ![t].at = place, ![t].k = n]
                 => ShNow(t, place, n, shT[t].it, shT[t].reg, shT[t].mine)
            /\ shT' = [shT EXCEPT ![t].at = place, ![t].reg = n]
                 => ShNow(t, place, shT[t].k, shT[t].it, n, shT[t].mine)
  <1> SUFFICES ASSUME NEW place \in ShPlaces, NEW n \in Nat
               PROVE  /\ shT' = [shT EXCEPT ![t].at = place, ![t].k = n]
                           => ShNow(t, place, n, shT[t].it, shT[t].reg, shT[t].mine)
                      /\ shT' = [shT EXCEPT ![t].at = place, ![t].reg = n]
                           => ShNow(t, place, shT[t].k, shT[t].it, n, shT[t].mine)
    OBVIOUS
  <1>1. ASSUME shT' = [shT EXCEPT ![t].at = place, ![t].k = n]
        PROVE  ShNow(t, place, n, shT[t].it, shT[t].reg, shT[t].mine)
    BY <1>1 DEF ShTypeOK, ShNow, ShHandlers
  <1>2. ASSUME shT' = [shT EXCEPT ![t].at = place, ![t].reg = n]
        PROVE  ShNow(t, place, shT[t].k, shT[t].it, n, shT[t].mine)
    BY <1>2 DEF ShTypeOK, ShNow, ShHandlers
  <1> QED
    BY <1>1, <1>2

LEMMA ShLockStep ==
  ASSUME ShTypeOK, shLocked, NEW t \in ShThread, NEW l, NEW next \in ShPlaces, ShLock(t, l, next)
  PROVE  ShEnters(t, l, next)
  <1> USE DEF ShTypeOK
  <1>1. shT' = [shT EXCEPT ![t].at = next, ![t].k = 1]
    BY DEF ShLock, ShGoto
  <1>2. ShNow(t, next, 1, shT[t].it, shT[t].reg, shT[t].mine)
    BY <1>1, ShUpdates
  <1> QED
    BY <1>2 DEF ShLock, ShEnters, ShAt

LEMMA ShUnlockStep ==
  ASSUME ShTypeOK, shLocked, NEW t \in ShThread, NEW l, NEW next \in ShPlaces, ShUnlock(t, l, next),
         next = "post" => shT[t].it < ShIters, ShAssumption
  PROVE  ShLeaves(t, l, next, IF next = "post" THEN shT[t].it + 1 ELSE shT[t].it)
  <1> USE DEF ShTypeOK
  <1> DEFINE it == IF next = "post" THEN shT[t].it + 1 ELSE shT[t].it
  <1>1. shT' = [shT EXCEPT ![t].at = next, ![t].k = 1, ![t].it = it]
    BY DEF ShUnlock
  <1>2. it \in 0..ShIters
    BY DEF ShHandlers, ShAssumption
  <1>3. ShNow(t, next, 1, it, shT[t].reg, shT[t].mine)
    <2> HIDE DEF it
    <2>1. PICK h : h = [shT[t] EXCEPT !.at = next, !.k = 1, !.it = it]
      OBVIOUS
    <2>2. shT[t] \in ShHandlers
      OBVIOUS
    <2>3. /\ h \in ShHandlers /\ h.at = next /\ h.k = 1 /\ h.it = it
          /\ h.reg = shT[t].reg /\ h.mine = shT[t].mine
      BY <1>2, <2>1, <2>2 DEF ShHandlers
    <2>4. shT' = [shT EXCEPT ![t] = h]
      BY <1>1, <2>1
    <2> QED
      BY <2>3, <2>4 DEF ShNow
  <1> QED
    BY <1>3 DEF ShUnlock, ShLeaves, ShAt

LEMMA ShLoadStep ==
  ASSUME ShTypeOK, ShPlaceInv, ShAssumption, NEW t \in ShThread, shPat # "cache", ShLoad(t)
  PROVE  ShLoads(t)
  <1> USE DEF ShTypeOK
  <1> DEFINE w == shCell[ShWords[shT[t].k]]
  <1>0. shT[t].k \in 1..Len(ShWords) /\ shT[t].at = "load"
    BY DEF ShLoad, ShAt, ShPlaceInv
  <1>1. ShWords[shT[t].k] \in ShCells
    BY <1>0, ShWordsAre
  <1>2. w \in Nat
    BY <1>1
  <1>3. shT' = [shT EXCEPT ![t].at = "store", ![t].reg = w]
    BY DEF ShLoad
  <1>4. ShNow(t, "store", shT[t].k, shT[t].it, w, shT[t].mine)
    <2>1. "store" \in ShPlaces
      BY DEF ShPlaces
    <2> QED
      BY <1>2, <1>3, <2>1, ShUpdates
  <1>5. ShPush(t) \in ShEntries
    BY DEF ShPush, ShEntries, ShHandlers
  <1>6. shRing' \in [0..(ShQN - 1) -> ShEntries]
    BY <1>5 DEF ShLoad
  <1> QED
    BY <1>0, <1>4, <1>6 DEF ShLoad, ShLoads, ShInside

LEMMA ShStoreStep ==
  ASSUME ShTypeOK, ShPlaceInv, NEW t \in ShThread, shPat # "cache", ShStore(t)
  PROVE  ShStores(t)
  <1> USE DEF ShTypeOK
  <1> DEFINE k == shT[t].k
             place == ShAfterStore(k)
  <1>0. k \in 1..Len(ShWords) /\ shT[t].at = "store" /\ k \in Nat
    BY DEF ShStore, ShAt, ShPlaceInv, ShHandlers
  <1> DEFINE last == ShWords[k] \in {"counter", "count", "head"}
  <1>1. last <=> k = Len(ShWords)
    BY <1>0, ShWordsAre
  <1>2. Len(ShWords) \in Nat
    BY ShWordsAre
  <1>6. shT' = [shT EXCEPT ![t].at = CASE ~last -> "load"
                                       [] shPat = "queue" -> "tail"
                                       [] shPat = "kv" -> "queued"
                                       [] OTHER -> "end",
                           ![t].k = k + 1]
    BY DEF ShStore
  <1> HIDE DEF last, k
  <1>3. shT' = [shT EXCEPT ![t].at = place, ![t].k = k + 1]
    <2>1. ~last <=> k < Len(ShWords)
      BY <1>0, <1>1, <1>2 DEF k
    <2>2. place = CASE ~last -> "load" [] shPat = "queue" -> "tail" [] shPat = "kv" -> "queued" [] OTHER -> "end"
      <3>1. CASE ~last
        <4>1. shPat = "stats"
          BY <1>0, <2>1, <3>1, ShWordsAre DEF k
        <4> QED
          BY <2>1, <3>1, <4>1 DEF ShAfterStore, k
      <3>2. CASE last /\ shPat = "queue"
        BY <2>1, <3>2 DEF ShAfterStore, k
      <3>3. CASE last /\ shPat = "kv"
        BY <2>1, <3>3 DEF ShAfterStore, k
      <3>4. CASE last /\ shPat \notin {"queue", "kv"}
        BY <2>1, <3>4 DEF ShAfterStore, k
      <3> QED
        BY <3>1, <3>2, <3>3, <3>4
    <2> QED
      BY <1>6, <2>2
  <1>4. place \in ShPlaces /\ k + 1 \in Nat
    BY <1>0 DEF ShAfterStore, ShPlaces, k
  <1>5. ShNow(t, place, k + 1, shT[t].it, shT[t].reg, shT[t].mine)
    BY <1>3, <1>4, ShUpdates DEF k
  <1> QED
    BY <1>0, <1>5 DEF ShStore, ShStores, ShInside, k

LEMMA ShTailStep ==
  ASSUME ShTypeOK, NEW t \in ShThread, shPat \in {"queue", "kv"}, ShTail(t)
  PROVE  ShTests(t) \/ ShMoves(t)
  <1> USE DEF ShTypeOK
  <1> DEFINE w == shCell["tail"]
             place == IF ShTailMoves THEN "moved" ELSE "end"
  <1>1. w \in Nat /\ place \in ShPlaces
    BY DEF ShCells, ShPlaces
  <1>2. CASE ShAt(t, "tail") /\ shCell' = shCell
             /\ shT' = [shT EXCEPT ![t].at = IF ShTailMoves THEN "moved" ELSE "end", ![t].reg = shCell["tail"]]
    <2>1. ShNow(t, place, shT[t].k, shT[t].it, w, shT[t].mine)
      BY <1>1, <1>2, ShUpdates
    <2> QED
      BY <1>2, <2>1 DEF ShTail, ShTests, ShInside, ShAt
  <1>3. CASE ShAt(t, "moved") /\ shCell' = [shCell EXCEPT !["tail"] = shT[t].reg + 1] /\ ShGoto(t, "end")
    <2>1. ShNow(t, "end", 1, shT[t].it, shT[t].reg, shT[t].mine)
      BY <1>3, ShUpdates DEF ShGoto, ShPlaces
    <2> QED
      BY <1>3, <2>1 DEF ShTail, ShMoves, ShInside, ShAt
  <1> QED
    BY <1>2, <1>3 DEF ShTail

LEMMA ShCacheStep ==
  ASSUME ShTypeOK, NEW t \in ShThread, shPat = "cache", ShCache(t)
  PROVE  ShKeys(t) \/ ShVals(t)
  <1> USE DEF ShTypeOK
  <1>1. ShPush(t) \in ShEntries
    BY DEF ShPush, ShEntries, ShHandlers
  <1>2. CASE ShAt(t, "load") /\ shEnt' = [shEnt EXCEPT !.key = ShPush(t)] /\ ShGoto(t, "val")
    <2>1. ShNow(t, "val", 1, shT[t].it, shT[t].reg, shT[t].mine)
      BY <1>2, ShUpdates DEF ShGoto, ShPlaces
    <2> QED
      BY <1>1, <1>2, <2>1 DEF ShCache, ShKeys, ShInside, ShAt
  <1>3. CASE ShAt(t, "val") /\ shEnt' = [shEnt EXCEPT !.val = ShPush(t)] /\ ShGoto(t, "end")
    <2>1. ShNow(t, "end", 1, shT[t].it, shT[t].reg, shT[t].mine)
      BY <1>3, ShUpdates DEF ShGoto, ShPlaces
    <2> QED
      BY <1>1, <1>3, <2>1 DEF ShCache, ShVals, ShInside, ShAt
  <1> QED
    BY <1>2, <1>3 DEF ShCache

LEMMA ShBlockPlaces ==
  ASSUME ShTypeOK, ShAssumption, NEW t \in ShThread
  PROVE  /\ ShNextK(t) \in Nat
         /\ \A l, next \in ShPlaces : ShNextBlock(t, l, next) \in ShPlaces
  BY DEF ShTypeOK, ShAssumption, ShHandlers, ShNextK, ShNextBlock

LEMMA ShPopStep ==
  ASSUME ShTypeOK, NEW t \in ShThread, shPat = "kv", ShPop(t)
  PROVE  ShPops(t)
  <1> DEFINE w == shCell["top"]
  <1>1. w \in Nat
    BY DEF ShTypeOK, ShCells
  <1>2. ShNow(t, "popped", shT[t].k, shT[t].it, w, shT[t].mine)
    BY <1>1, ShUpdates DEF ShPop, ShPlaces
  <1> QED
    BY <1>2 DEF ShPop, ShPops, ShInside, ShAt

LEMMA ShTakeStep ==
  ASSUME ShTypeOK, ShPlaceInv, ShRegInv, ShListInv, ShAssumption, NEW t \in ShThread, shPat = "kv", ShTake(t)
  PROVE  ShTakesNone(t) \/ ShTakes(t, shList[shT[t].reg - 1])
  <1> DEFINE blk == shList[shT[t].reg - 1]
             m == IF shT[t].reg = 0 THEN 0 ELSE blk
             k == shT[t].k
             n == ShNextK(t)
             place == ShNextBlock(t, "alloc", "have")
  <1>1. shT[t].at = "popped" /\ k \in 1..ShBlocks /\ shT[t].reg = shCell["top"] /\ shT[t].reg \in Nat
    BY DEF ShTake, ShAt, ShPlaceInv, ShRegInv, ShTypeOK, ShHandlers
  <1>2. shT[t].reg # 0 => shT[t].reg - 1 \in 0..(ShNBLOCK - 1)
    BY <1>1 DEF ShListInv, ShAssumption
  <1>3. m \in 0..ShNBLOCK
    BY <1>2 DEF ShTypeOK, ShAssumption
  <1>4. n \in Nat /\ place \in ShPlaces
    BY ShBlockPlaces DEF ShPlaces
  <1>5. shT' = [shT EXCEPT ![t].at = place, ![t].k = n, ![t].mine[k] = m]
    BY DEF ShTake, ShNextK
  <1>6. ShNow(t, place, n, shT[t].it, shT[t].reg, [shT[t].mine EXCEPT ![k] = m])
    <2> DEFINE q == [shT[t].mine EXCEPT ![k] = m]
    <2>1. q \in [1..ShBlocks -> 0..ShNBLOCK]
      BY <1>1, <1>3 DEF ShTypeOK, ShHandlers
    <2>2. shT' = [shT EXCEPT ![t].at = place, ![t].k = n, ![t].mine = q]
      BY <1>5 DEF ShTypeOK, ShHandlers
    <2> HIDE DEF q, n, place
    <2>3. ShNow(t, place, n, shT[t].it, shT[t].reg, q)
      <3>1. PICK h : h = [shT[t] EXCEPT !.at = place, !.k = n, !.mine = q]
        OBVIOUS
      <3>2. shT[t] \in ShHandlers /\ shT \in [ShThread -> ShHandlers]
        BY DEF ShTypeOK
      <3>3. /\ h \in ShHandlers /\ h.at = place /\ h.k = n /\ h.mine = q
            /\ h.it = shT[t].it /\ h.reg = shT[t].reg
        BY <1>4, <2>1, <3>1, <3>2 DEF ShHandlers
      <3>4. shT' = [shT EXCEPT ![t] = h]
        BY <2>2, <3>1
      <3> QED
        BY <3>2, <3>3, <3>4 DEF ShNow
    <2> QED
      BY <2>3 DEF q
  <1>7. CASE shT[t].reg = 0
    BY <1>1, <1>6, <1>7 DEF ShTake, ShTakesNone, ShInside
  <1>8. CASE shT[t].reg # 0
    BY <1>1, <1>6, <1>8 DEF ShTake, ShTakes, ShInside
  <1> QED
    BY <1>7, <1>8

LEMMA ShFreeStep ==
  ASSUME ShTypeOK, ShPlaceInv, ShAssumption, NEW t \in ShThread, shPat = "kv", ShFree(t)
  PROVE  ShFreesNone(t) \/ ShFrees(t, shT[t].mine[shT[t].k]) \/ ShLists(t, shT[t].mine[shT[t].k])
  <1> DEFINE w == shCell["top"]
             n == ShNextK(t)
             k == shT[t].k
             place == ShNextBlock(t, "free", "tail")
             over == [shT EXCEPT ![t].at = place, ![t].k = n]
  <1>1. w \in Nat
    BY DEF ShTypeOK, ShCells
  <1>2. n \in Nat /\ place \in ShPlaces
    BY ShBlockPlaces DEF ShPlaces
  <1>3. shT' = over => ShNow(t, place, n, shT[t].it, shT[t].reg, shT[t].mine)
    BY <1>2, ShUpdates
  <1>4. over = [shT EXCEPT ![t].at = ShNextBlock(t, "free", "tail"),
                           ![t].k = IF shT[t].k = ShBlocks THEN 1 ELSE shT[t].k + 1]
    BY DEF ShNextK
  <1> HIDE DEF n, place, over
  <1>5. CASE ShAt(t, "free") /\ shT[t].mine[k] = 0 /\ shT' = over /\ UNCHANGED <<shCell, shList, shOwner>>
    BY <1>3, <1>5 DEF ShFree, ShFreesNone, ShInside, ShAt, n, place
  <1>6. CASE /\ ShAt(t, "free") /\ shT[t].mine[k] # 0
             /\ shOwner' = [shOwner EXCEPT ![shT[t].mine[k]] = ShNobody]
             /\ shT' = [shT EXCEPT ![t].at = "freed", ![t].reg = shCell["top"]]
             /\ UNCHANGED <<shCell, shList>>
    <2>1. ShNow(t, "freed", k, shT[t].it, w, shT[t].mine)
      BY <1>1, <1>6, ShUpdates DEF ShPlaces
    <2> QED
      BY <1>6, <2>1 DEF ShFree, ShFrees, ShInside, ShAt
  <1>7. CASE /\ ShAt(t, "freed") /\ shT[t].reg < ShNBLOCK
             /\ shList' = [shList EXCEPT ![shT[t].reg] = shT[t].mine[k]]
             /\ shCell' = [shCell EXCEPT !["top"] = shT[t].reg + 1]
             /\ shT' = over /\ shOwner' = shOwner
    BY <1>3, <1>7 DEF ShFree, ShLists, ShInside, ShAt, n, place
  <1> QED
    BY <1>4, <1>5, <1>6, <1>7 DEF ShFree

LEMMA ShStepCases ==
  ASSUME ShTypeOK, ShPlaceInv, ShRegInv, ShListInv, ShAssumption, shLocked, NEW t \in ShThread, ShWorker(t)
  PROVE  shPat' = shPat /\ shLocked' = shLocked /\ (ShPlain(t) \/ ShBlock(t))
  <1>0. shT[t].at = "end" => shT[t].it < ShIters
    BY DEF ShPlaceInv
  <1>1. CASE ShLock(t, "post", "load") \/ ShUnlock(t, "end", "post")
    <2>1. ShEnters(t, "post", "load") \/ ShLeaves(t, "end", "post", shT[t].it + 1)
      BY <1>0, <1>1, ShLockStep, ShUnlockStep DEF ShPlaces, ShUnlock, ShAt
    <2> QED
      BY <1>1, <2>1 DEF ShPlain, ShLock, ShUnlock
  <1>2. CASE shPat # "cache" /\ (ShLoad(t) \/ ShStore(t))
    BY <1>2, ShLoadStep, ShStoreStep DEF ShPlain, ShLoad, ShStore
  <1>3. CASE shPat \in {"queue", "kv"} /\ ShTail(t)
    BY <1>3, ShTailStep DEF ShPlain, ShTail
  <1>4. CASE shPat = "cache" /\ ShCache(t)
    BY <1>4, ShCacheStep DEF ShPlain, ShCache
  <1>5. CASE shPat = "kv" /\ (ShLock(t, "prefill", "alloc") \/ ShLock(t, "offload", "free"))
    <2>1. ShEnters(t, "prefill", "alloc") \/ ShEnters(t, "offload", "free")
      BY <1>5, ShLockStep DEF ShPlaces
    <2> QED
      BY <1>5, <2>1 DEF ShBlock, ShLock
  <1>6. CASE shPat = "kv" /\ (ShUnlock(t, "queued", "prefill") \/ ShUnlock(t, "have", "offload"))
    <2>1. ShLeaves(t, "queued", "prefill", shT[t].it) \/ ShLeaves(t, "have", "offload", shT[t].it)
      BY <1>6, ShUnlockStep DEF ShPlaces
    <2> QED
      BY <1>6, <2>1 DEF ShBlock, ShUnlock
  <1>7. CASE shPat = "kv" /\ (ShPop(t) \/ ShTake(t) \/ ShFree(t))
    BY <1>7, ShPopStep, ShTakeStep, ShFreeStep DEF ShBlock, ShPop, ShTake, ShFree
  <1> QED
    BY <1>1, <1>2, <1>3, <1>4, <1>5, <1>6, <1>7 DEF ShWorker, ShKv

LEMMA ShOthers ==
  ASSUME ShTypeOK, ShMutexInv, ShAssumption, NEW t \in ShThread, ShPlain(t) \/ ShBlock(t)
  PROVE  /\ shT' \in [ShThread -> ShHandlers]
         /\ \A u \in ShThread : u # t => shT'[u] = shT[u] /\ shT[u].at \in ShOutside
  <1>1. shT' \in [ShThread -> ShHandlers] /\ \A u \in ShThread : u # t => shT'[u] = shT[u]
    BY DEF ShPlain, ShBlock, ShEnters, ShLeaves, ShLoads, ShStores, ShTests, ShMoves, ShKeys, ShVals, ShPops,
           ShTakesNone, ShTakes, ShFreesNone, ShFrees, ShLists, ShInside, ShNow
  <1>2. shMtx = "free" \/ shT[t].at \notin ShOutside
    BY DEF ShPlain, ShBlock, ShEnters, ShLeaves, ShLoads, ShStores, ShTests, ShMoves, ShKeys, ShVals, ShPops,
           ShTakesNone, ShTakes, ShFreesNone, ShFrees, ShLists, ShInside, ShOutside
  <1> QED
    BY <1>1, <1>2 DEF ShMutexInv, ShAssumption

LEMMA ShMutexStep ==
  ASSUME ShTypeOK, ShMutexInv, ShAssumption, NEW t \in ShThread, ShPlain(t) \/ ShBlock(t)
  PROVE  ShMutexInv'
  <1>1. \A u \in ShThread : u # t => shT'[u] = shT[u] /\ shT[u].at \in ShOutside
    BY ShOthers
  <1>2. shMtx' \in {t, "free"} /\ (shT'[t].at \notin ShOutside <=> shMtx' = t)
    <2> USE DEF ShNow, ShOutside, ShMutexInv, ShInside, ShNextBlock, ShAfterStore
    <2>1. CASE \/ ShEnters(t, "post", "load") \/ ShLeaves(t, "end", "post", shT[t].it + 1)
               \/ ShLeaves(t, "queued", "prefill", shT[t].it) \/ ShEnters(t, "prefill", "alloc")
               \/ ShLeaves(t, "have", "offload", shT[t].it) \/ ShEnters(t, "offload", "free")
      BY <2>1 DEF ShEnters, ShLeaves, ShAssumption
    <2>2. CASE ShLoads(t) \/ ShStores(t) \/ ShTests(t) \/ ShMoves(t)
      BY <2>2 DEF ShLoads, ShStores, ShTests, ShMoves
    <2>3. CASE ShKeys(t) \/ ShVals(t) \/ ShPops(t) \/ ShTakesNone(t) \/ ShTakes(t, shList[shT[t].reg - 1])
      BY <2>3 DEF ShKeys, ShVals, ShPops, ShTakesNone, ShTakes
    <2>4. CASE ShFreesNone(t) \/ ShFrees(t, shT[t].mine[shT[t].k]) \/ ShLists(t, shT[t].mine[shT[t].k])
      BY <2>4 DEF ShFreesNone, ShFrees, ShLists
    <2> QED
      BY <2>1, <2>2, <2>3, <2>4 DEF ShPlain, ShBlock
  <1> QED
    BY <1>1, <1>2 DEF ShMutexInv, ShAssumption

LEMMA ShTypeStep ==
  ASSUME ShTypeOK, ShPlaceInv, ShMutexInv, ShListInv, ShAssumption, shPat' = shPat, NEW t \in ShThread,
         ShPlain(t) \/ ShBlock(t)
  PROVE  ShTypeOK'
  <1>1. shT' \in [ShThread -> ShHandlers] /\ shPat' \in ShPatterns
    BY ShOthers DEF ShTypeOK
  <1>2. shMtx' \in ShThread \cup {"free"}
    BY DEF ShTypeOK, ShPlain, ShBlock, ShEnters, ShLeaves, ShLoads, ShStores, ShTests, ShMoves, ShKeys, ShVals,
           ShPops, ShTakesNone, ShTakes, ShFreesNone, ShFrees, ShLists, ShInside
  <1>3. shT[t].reg \in Nat /\ shT[t].at = "store" => ShWords[shT[t].k] \in ShCells
    BY ShWordsAre DEF ShTypeOK, ShPlaceInv
  <1>4. shCell' \in [ShCells -> Nat]
    <2>1. shT[t].reg \in Nat
      BY DEF ShTypeOK, ShHandlers
    <2>7. \A c \in ShCells, n \in Nat : shCell' = [shCell EXCEPT ![c] = n] => shCell' \in [ShCells -> Nat]
      BY DEF ShTypeOK
    <2>8. shT[t].reg + 1 \in Nat /\ (shT[t].reg # 0 => shT[t].reg - 1 \in Nat)
      BY <2>1
    <2>9. {"tail", "top"} \subseteq ShCells
      BY DEF ShCells
    <2>2. CASE ShStores(t)
      BY <1>3, <2>1, <2>2, <2>7, <2>8 DEF ShStores, ShInside
    <2>3. CASE ShMoves(t)
      BY <2>3, <2>7, <2>8, <2>9 DEF ShMoves
    <2>4. CASE ShTakes(t, shList[shT[t].reg - 1])
      BY <2>4, <2>7, <2>8, <2>9 DEF ShTakes
    <2>5. CASE ShLists(t, shT[t].mine[shT[t].k])
      BY <2>5, <2>7, <2>8, <2>9 DEF ShLists
    <2>6. CASE shCell' = shCell
      BY <2>6 DEF ShTypeOK
    <2> QED
      BY <2>2, <2>3, <2>4, <2>5, <2>6
         DEF ShPlain, ShBlock, ShEnters, ShLeaves, ShLoads, ShTests, ShKeys, ShVals, ShPops, ShTakesNone,
             ShFreesNone, ShFrees
  <1>5. shRing' \in [0..(ShQN - 1) -> ShEntries] /\ shEnt' \in [key : ShEntries, val : ShEntries]
    BY DEF ShTypeOK, ShPlain, ShBlock, ShEnters, ShLeaves, ShLoads, ShStores, ShTests, ShMoves, ShKeys, ShVals,
           ShPops, ShTakesNone, ShTakes, ShFreesNone, ShFrees, ShLists
  <1>6. shList' \in [0..(ShNBLOCK - 1) -> 1..ShNBLOCK]
    <2>1. ASSUME ShLists(t, shT[t].mine[shT[t].k])
          PROVE  shT[t].mine[shT[t].k] \in 1..ShNBLOCK
      BY <2>1 DEF ShLists, ShInside, ShTypeOK, ShHandlers, ShPlaceInv, ShListInv, ShAssumption
    <2>2. CASE ShLists(t, shT[t].mine[shT[t].k])
      BY <2>1, <2>2 DEF ShLists, ShTypeOK
    <2>3. CASE shList' = shList
      BY <2>3 DEF ShTypeOK
    <2> QED
      BY <2>2, <2>3 DEF ShPlain, ShBlock, ShEnters, ShLeaves, ShLoads, ShStores, ShTests, ShMoves, ShKeys, ShVals,
           ShPops, ShTakesNone, ShTakes, ShFreesNone, ShFrees
  <1>7. shOwner' \in [1..ShNBLOCK -> ShThread \cup {ShNobody}] /\ shDouble' \in BOOLEAN
    <2>1. CASE ShTakes(t, shList[shT[t].reg - 1])
      BY <2>1 DEF ShTakes, ShTypeOK
    <2>2. CASE ShFrees(t, shT[t].mine[shT[t].k])
      BY <2>2 DEF ShFrees, ShTypeOK
    <2>3. CASE shOwner' = shOwner /\ shDouble' = shDouble
      BY <2>3 DEF ShTypeOK
    <2> QED
      BY <2>1, <2>2, <2>3 DEF ShPlain, ShBlock, ShEnters, ShLeaves, ShLoads, ShStores, ShTests, ShMoves, ShKeys,
           ShVals, ShPops, ShTakesNone, ShFreesNone, ShLists
  <1> QED
    BY <1>1, <1>2, <1>4, <1>5, <1>6, <1>7 DEF ShTypeOK

LEMMA ShPlaceStep ==
  ASSUME ShTypeOK, ShPlaceInv, ShMutexInv, ShAssumption, shPat' = shPat, NEW t \in ShThread,
         ShPlain(t) \/ ShBlock(t)
  PROVE  ShPlaceInv'
  <1> DEFINE P(r) == /\ r.at # "post" => r.it < ShIters
                     /\ r.at \in {"load", "store"} => r.k \in 1..Len(ShWords)
                     /\ r.at \in {"alloc", "popped", "free", "freed"} => r.k \in 1..ShBlocks
  <1>1. \A u \in ShThread : P(shT[u])
    BY DEF ShPlaceInv
  <1>2. ShWords' = ShWords
    BY DEF ShWords
  <1>3. Len(ShWords) \in Nat \ {0} /\ ShBlocks \in Nat \ {0} /\ shT[t].k \in Nat
    <2>1. Len(ShWords) \in Nat \ {0}
      BY ShWordsAre
    <2>2. ShBlocks \in Nat \ {0}
      BY DEF ShAssumption
    <2>3. shT[t].k \in Nat
      BY DEF ShTypeOK, ShHandlers
    <2> QED
      BY <2>1, <2>2, <2>3
  <1>4. P(shT[t])
    BY <1>1
  <1>5. P(shT'[t])
    <2> DEFINE L == Len(ShWords)
    <2> USE DEF ShNow, ShInside
    <2> HIDE DEF L
    <2>0. /\ L \in Nat \ {0} /\ ShBlocks \in Nat \ {0} /\ shT[t].k \in Nat
          /\ shT[t].at # "post" => shT[t].it < ShIters
          /\ shT[t].at \in {"load", "store"} => shT[t].k \in 1..L
          /\ shT[t].at \in {"alloc", "popped", "free", "freed"} => shT[t].k \in 1..ShBlocks
      BY <1>3, <1>4 DEF L
    <2>1. CASE \/ ShEnters(t, "post", "load") \/ ShLeaves(t, "end", "post", shT[t].it + 1)
               \/ ShLeaves(t, "queued", "prefill", shT[t].it) \/ ShEnters(t, "prefill", "alloc")
               \/ ShLeaves(t, "have", "offload", shT[t].it) \/ ShEnters(t, "offload", "free")
      BY <1>3, <2>0, <2>1 DEF ShEnters, ShLeaves
    <2>2. CASE ShLoads(t) \/ ShTests(t) \/ ShMoves(t)
      BY <2>0, <2>2 DEF ShLoads, ShTests, ShMoves, L
    <2>3. CASE ShStores(t)
      BY <2>0, <2>3 DEF ShStores, ShAfterStore, L
    <2>4. CASE ShKeys(t) \/ ShVals(t) \/ ShPops(t)
      BY <2>0, <2>4 DEF ShKeys, ShVals, ShPops
    <2>6. CASE ShTakesNone(t)
      BY <2>0, <2>6 DEF ShTakesNone, ShNextBlock, ShNextK
    <2>7. CASE ShTakes(t, shList[shT[t].reg - 1])
      BY <2>0, <2>7 DEF ShTakes, ShNextBlock, ShNextK
    <2>5. CASE ShFreesNone(t) \/ ShFrees(t, shT[t].mine[shT[t].k]) \/ ShLists(t, shT[t].mine[shT[t].k])
      BY <2>0, <2>5 DEF ShFreesNone, ShFrees, ShLists, ShNextBlock, ShNextK
    <2> QED
      BY <2>1, <2>2, <2>3, <2>4, <2>5, <2>6, <2>7 DEF ShPlain, ShBlock
  <1>6. \A u \in ShThread : u # t => shT'[u] = shT[u]
    BY ShOthers
  <1>7. \A u \in ShThread : P(shT'[u])
    BY <1>1, <1>5, <1>6
  <1> QED
    BY <1>2, <1>7 DEF ShPlaceInv

LEMMA ShRegStep ==
  ASSUME ShTypeOK, ShMutexInv, ShAssumption, shPat' = shPat, NEW t \in ShThread, ShPlain(t) \/ ShBlock(t)
  PROVE  ShRegInv'
  <1>1. \A u \in ShThread : u # t => shT'[u] = shT[u] /\ shT[u].at \in ShOutside
    BY ShOthers
  <1>2. ShWords' = ShWords
    BY DEF ShWords
  <1>3. /\ shT'[t].at = "store" => shT'[t].reg = shCell'[ShWords[shT'[t].k]]
        /\ shT'[t].at = "moved" => shT'[t].reg = shCell'["tail"]
        /\ shT'[t].at \in {"popped", "freed"} => shT'[t].reg = shCell'["top"]
    <2> USE DEF ShNow, ShInside
    <2>1. CASE \/ ShEnters(t, "post", "load") \/ ShLeaves(t, "end", "post", shT[t].it + 1)
               \/ ShLeaves(t, "queued", "prefill", shT[t].it) \/ ShEnters(t, "prefill", "alloc")
               \/ ShLeaves(t, "have", "offload", shT[t].it) \/ ShEnters(t, "offload", "free")
      BY <2>1 DEF ShEnters, ShLeaves
    <2>2. CASE ShLoads(t)
      BY <2>2 DEF ShLoads
    <2>3. CASE ShTests(t) \/ ShPops(t) \/ ShFrees(t, shT[t].mine[shT[t].k])
      BY <2>3 DEF ShTests, ShPops, ShFrees
    <2>4. CASE ShStores(t) \/ ShMoves(t) \/ ShKeys(t) \/ ShVals(t)
      BY <2>4 DEF ShStores, ShMoves, ShKeys, ShVals, ShAfterStore
    <2>5. CASE \/ ShTakesNone(t) \/ ShTakes(t, shList[shT[t].reg - 1]) \/ ShFreesNone(t)
               \/ ShLists(t, shT[t].mine[shT[t].k])
      BY <2>5 DEF ShTakesNone, ShTakes, ShFreesNone, ShLists, ShNextBlock
    <2> QED
      BY <2>1, <2>2, <2>3, <2>4, <2>5 DEF ShPlain, ShBlock
  <1> QED
    BY <1>1, <1>2, <1>3 DEF ShRegInv, ShOutside

LEMMA ShEntStep ==
  ASSUME ShTypeOK, ShMutexInv, ShEntInv, ShAssumption, NEW t \in ShThread, ShPlain(t) \/ ShBlock(t)
  PROVE  ShEntInv'
  <1>1. \A u \in ShThread : u # t => shT'[u] = shT[u] /\ shT[u].at # "val"
    BY ShOthers DEF ShOutside
  <1>2. CASE ShKeys(t)
    BY <1>1, <1>2 DEF ShKeys, ShInside, ShNow, ShEntInv, ShPush
  <1>3. CASE ShVals(t)
    <2>1. shT[t].at = "val" /\ shT'[t].at = "end" /\ shEnt'.key = shEnt.key /\ shEnt'.val = ShPush(t)
      BY <1>3 DEF ShVals, ShInside, ShNow
    <2>2. shEnt.key = ShPush(t)
      BY <2>1 DEF ShEntInv
    <2> QED
      BY <1>1, <2>1, <2>2 DEF ShEntInv
  <1>4. ASSUME ~ShKeys(t), ~ShVals(t)
        PROVE  shT[t].at # "val" /\ shT'[t].at # "val" /\ shEnt' = shEnt
    BY <1>4 DEF ShPlain, ShBlock, ShEnters, ShLeaves, ShLoads, ShStores, ShTests, ShMoves, ShPops, ShTakesNone,
                ShTakes, ShFreesNone, ShFrees, ShLists, ShInside, ShNow, ShAfterStore, ShNextBlock
  <1>5. CASE ~ShKeys(t) /\ ~ShVals(t)
    BY <1>1, <1>4, <1>5 DEF ShEntInv
  <1> QED
    BY <1>2, <1>3, <1>5

\* The steps of a handler of the ring that neither load, store nor move the tail.
ShQueueQuiet(t) ==
    /\ shCell' = shCell /\ shRing' = shRing
    /\ \/ shT[t].at = "post" /\ shT'[t].at = "load" /\ shT'[t].it = shT[t].it
       \/ shT[t].at = "end" /\ shT'[t].at = "post" /\ shT'[t].it = shT[t].it + 1

LEMMA ShQueueSteps ==
  ASSUME shPat = "queue", NEW t \in ShThread, ShPlain(t) \/ ShBlock(t)
  PROVE  ShQueueQuiet(t) \/ ShLoads(t) \/ ShStores(t) \/ ShTests(t) \/ ShMoves(t)
  <1>1. CASE ShEnters(t, "post", "load") \/ ShLeaves(t, "end", "post", shT[t].it + 1)
    BY <1>1 DEF ShEnters, ShLeaves, ShNow, ShQueueQuiet
  <1>2. ~ShBlock(t) /\ ~ShKeys(t) /\ ~ShVals(t)
    BY DEF ShBlock, ShPops, ShTakesNone, ShTakes, ShFreesNone, ShFrees, ShLists, ShKeys, ShVals
  <1> QED
    BY <1>1, <1>2 DEF ShPlain

\* In the queue the only word is q_head.
LEMMA ShQueueStore ==
  ASSUME ShTypeOK, ShPlaceInv, ShRegInv, NEW t \in ShThread, ShStores(t), shPat = "queue"
  PROVE  /\ shT[t].at = "store" /\ shT'[t].at = "tail" /\ shT'[t].it = shT[t].it
         /\ shCell' = [shCell EXCEPT !["head"] = shCell["head"] + 1] /\ shRing' = shRing
  <1>1. shT[t].at = "store" /\ shT'[t].at = ShAfterStore(shT[t].k) /\ shT'[t].it = shT[t].it
    BY DEF ShStores, ShInside, ShNow
  <1>2. ShWords = <<"head">> /\ Len(ShWords) = 1
    BY DEF ShWords
  <1>3. shT[t].k = 1
    BY <1>1, <1>2 DEF ShPlaceInv
  <1>4. shT[t].reg = shCell["head"]
    BY <1>1, <1>2, <1>3 DEF ShRegInv
  <1> QED
    BY <1>1, <1>2, <1>3, <1>4 DEF ShStores, ShAfterStore

LEMMA ShTailInvStep ==
  ASSUME ShTypeOK, ShPlaceInv, ShMutexInv, ShRegInv, ShTailInv, ShAssumption, shPat' = shPat,
         NEW t \in ShThread, ShPlain(t) \/ ShBlock(t)
  PROVE  ShTailInv'
  <1> SUFFICES ASSUME shPat = "queue" PROVE ShTailInv'
    BY DEF ShTailInv
  <1>1. \A u \in ShThread : u # t => shT'[u] = shT[u] /\ shT[u].at \notin {"tail", "moved"}
    BY ShOthers DEF ShOutside
  <1>2. shCell["head"] \in Nat /\ shCell["tail"] \in Nat /\ ShQN \in Nat
    BY DEF ShTypeOK, ShCells, ShAssumption
  <1>3. CASE ShQueueQuiet(t) \/ ShLoads(t)
    <2>1. shCell' = shCell /\ shT[t].at \notin {"tail", "moved"} /\ shT'[t].at \notin {"tail", "moved"}
      BY <1>3 DEF ShQueueQuiet, ShLoads, ShInside, ShNow
    <2> QED
      BY <1>1, <2>1 DEF ShTailInv
  <1>4. CASE ShStores(t)
    <2>1. shT[t].at = "store" /\ shT'[t].at = "tail"
      BY <1>4, ShQueueStore
    <2>2. shCell'["head"] = shCell["head"] + 1 /\ shCell'["tail"] = shCell["tail"]
      BY <1>4, ShQueueStore DEF ShTypeOK, ShCells
    <2>3. shCell["head"] <= shCell["tail"] + ShQN
      BY <1>1, <1>2, <2>1 DEF ShTailInv
    <2> QED
      BY <1>1, <1>2, <2>1, <2>2, <2>3 DEF ShTailInv
  <1>5. CASE ShTests(t)
    <2>1. shCell' = shCell /\ shT[t].at = "tail"
          /\ shT'[t].at = IF shCell["head"] > shCell["tail"] + ShQN THEN "moved" ELSE "end"
      BY <1>5 DEF ShTests, ShInside, ShNow, ShTailMoves
    <2> QED
      BY <1>1, <1>2, <2>1 DEF ShTailInv
  <1>6. CASE ShMoves(t)
    <2>1. shT[t].at = "moved" /\ shT'[t].at = "end" /\ shCell' = [shCell EXCEPT !["tail"] = shT[t].reg + 1]
      BY <1>6 DEF ShMoves, ShInside, ShNow
    <2>2. shCell'["head"] = shCell["head"] /\ shCell'["tail"] = shCell["tail"] + 1
      BY <2>1 DEF ShRegInv, ShTypeOK, ShCells
    <2>3. shCell'["head"] <= shCell'["tail"] + ShQN
      BY <1>2, <2>2 DEF ShTailInv
    <2> QED
      BY <1>1, <1>2, <2>1, <2>2, <2>3 DEF ShTailInv
  <1> QED
    BY <1>3, <1>4, <1>5, <1>6, ShQueueSteps

LEMMA ShRingPlace ==
  ASSUME NEW n \in Nat, NEW q \in Nat \ {0}
  PROVE  n % q \in 0..(q - 1) /\ (n < q => n % q = n)
  OBVIOUS

\* An entry of the ring is a handler's push or none.
LEMMA ShEntryIs ==
  ASSUME ShAssumption, NEW e \in ShEntries
  PROVE  e = ShNoPush \/ (e[1] \in ShThread /\ e[2] \in Nat /\ e = <<e[1], e[2]>>)
  BY DEF ShEntries

LEMMA ShNoPushIs ==
  ASSUME ShAssumption
  PROVE  ShNoPush[1] \notin ShThread
  BY DEF ShAssumption, ShNoPush, ShNobody

LEMMA ShPushingIs ==
  ASSUME ShTypeOK, ShMutexInv, ShAssumption, NEW t \in ShThread, ShPlain(t) \/ ShBlock(t)
  PROVE  /\ ShPushing = (IF shT[t].at = "store" THEN 1 ELSE 0)
         /\ ShPushing' = (IF shT'[t].at = "store" THEN 1 ELSE 0)
  <1>1. \A u \in ShThread : u # t => shT'[u] = shT[u] /\ shT[u].at # "store"
    BY ShOthers DEF ShOutside
  <1> QED
    BY <1>1 DEF ShPushing

LEMMA ShRingLoad ==
  ASSUME ShTypeOK, ShMutexInv, ShRingInv, ShAssumption, shPat = "queue", shPat' = shPat, NEW t \in ShThread,
         ShLoads(t)
  PROVE  ShRingInv'
  <1> DEFINE h == shCell["head"]
             p == h % ShQN
             x == <<t, shT[t].it>>
  <1>0. ShPlain(t)
    BY DEF ShPlain
  <1>1. /\ shT[t].at = "load" /\ shT'[t].at = "store" /\ shT'[t].it = shT[t].it
        /\ shRing' = [shRing EXCEPT ![p] = x] /\ shCell' = shCell
    BY DEF ShLoads, ShInside, ShNow, ShPush
  <1>2. h \in Nat /\ ShQN \in Nat \ {0}
    BY DEF ShTypeOK, ShCells, ShAssumption
  <1>3. p \in 0..(ShQN - 1) /\ (h < ShQN => p = h)
    BY <1>2, ShRingPlace
  <1>4. \A u \in ShThread : u # t => shT'[u] = shT[u]
    BY <1>0, ShOthers
  <1>5. ShPushing = 0 /\ ShPushing' = 1
    BY <1>0, <1>1, ShPushingIs
  <1>6. shRing'[p] = x /\ x # ShNoPush /\ \A z \in 0..(ShQN - 1) : z # p => shRing'[z] = shRing[z]
    BY <1>1, <1>3, ShNoPushIs DEF ShTypeOK
  <1>7. x[1] = t /\ x[2] = shT[t].it /\ shT[t].it \in Nat
    BY DEF ShTypeOK, ShHandlers
  <1>8. \A z \in 0..(ShQN - 1) : shRing[z] # x
    <2> SUFFICES ASSUME NEW z \in 0..(ShQN - 1), shRing[z] = x PROVE FALSE
      OBVIOUS
    <2>1. shRing[z][1] = t /\ shRing[z][2] = shT[t].it
      BY <1>7
    <2> QED
      BY <1>1, <1>7, <2>1 DEF ShRingInv
  <1> HIDE DEF x, p, h
  <1>a. \A z \in 0..(ShQN - 1) : shRing'[z] # ShNoPush <=> z < h + 1
    <2>1. \A z \in 0..(ShQN - 1) : shRing[z] # ShNoPush <=> z < h
      BY <1>2, <1>5 DEF ShRingInv, h
    <2> QED
      BY <1>2, <1>3, <1>6, <2>1
  <1>b. \A z, j \in 0..(ShQN - 1) : shRing'[z] # ShNoPush /\ shRing'[z] = shRing'[j] => z = j
    BY <1>6, <1>8 DEF ShRingInv
  <1>c. \A z \in 0..(ShQN - 1), u \in ShThread : shRing'[z][1] = u =>
               \/ shRing'[z][2] < shT'[u].it
               \/ shRing'[z][2] = shT'[u].it /\ shT'[u].at \notin {"post", "load"}
    <2> SUFFICES ASSUME NEW z \in 0..(ShQN - 1), NEW u \in ShThread, shRing'[z][1] = u
                 PROVE  \/ shRing'[z][2] < shT'[u].it
                        \/ shRing'[z][2] = shT'[u].it /\ shT'[u].at \notin {"post", "load"}
      OBVIOUS
    <2>1. CASE z = p
      BY <1>1, <1>6, <1>7, <2>1
    <2>2. CASE z # p /\ u = t
      BY <1>1, <1>6, <2>2 DEF ShRingInv
    <2>3. CASE z # p /\ u # t
      BY <1>4, <1>6, <2>3 DEF ShRingInv
    <2> QED
      BY <2>1, <2>2, <2>3
  <1> QED
    BY <1>1, <1>5, <1>a, <1>b, <1>c DEF ShRingInv, h

LEMMA ShRingStep ==
  ASSUME ShTypeOK, ShPlaceInv, ShMutexInv, ShRegInv, ShRingInv, ShAssumption, shPat' = shPat,
         NEW t \in ShThread, ShPlain(t) \/ ShBlock(t)
  PROVE  ShRingInv'
  <1> SUFFICES ASSUME shPat = "queue" PROVE ShRingInv'
    BY DEF ShRingInv
  <1>1. CASE ShLoads(t)
    BY <1>1, ShRingLoad
  <1>2. CASE ~ShLoads(t)
    <2>1. \A u \in ShThread : u # t => shT'[u] = shT[u]
      BY ShOthers
    <2>2. /\ shRing' = shRing /\ shCell["head"] \in Nat /\ shCell'["head"] + ShPushing' = shCell["head"] + ShPushing
          /\ \/ shT'[t].it = shT[t].it /\ (shT[t].at \notin {"post", "load"} => shT'[t].at \notin {"post", "load"})
             \/ shT'[t].it = shT[t].it + 1
      <3>0. shCell["head"] \in Nat /\ shT[t].reg \in Nat
        BY DEF ShTypeOK, ShCells, ShHandlers
      <3>1. CASE ShQueueQuiet(t)
        BY <3>0, <3>1, ShPushingIs DEF ShQueueQuiet
      <3>2. CASE ShStores(t)
        <4>1. shCell'["head"] = shCell["head"] + 1
          BY <3>2, ShQueueStore DEF ShTypeOK, ShCells
        <4> QED
          BY <3>0, <3>2, <4>1, ShQueueStore, ShPushingIs
      <3>3. CASE ShTests(t)
        BY <3>0, <3>3, ShPushingIs DEF ShTests, ShInside, ShNow
      <3>4. CASE ShMoves(t)
        <4>1. shCell'["head"] = shCell["head"]
          BY <3>4 DEF ShMoves, ShTypeOK, ShCells
        <4> QED
          BY <3>0, <3>4, <4>1, ShPushingIs DEF ShMoves, ShInside, ShNow
      <3> QED
        BY <1>2, <3>1, <3>2, <3>3, <3>4, ShQueueSteps
    <2>3. shT[t].it \in Nat
      BY DEF ShTypeOK, ShHandlers
    <2>4. \A z \in 0..(ShQN - 1) : shRing'[z] # ShNoPush <=> z < shCell'["head"] + ShPushing'
      BY <2>2 DEF ShRingInv
    <2>5. \A z \in 0..(ShQN - 1), u \in ShThread : shRing'[z][1] = u =>
               \/ shRing'[z][2] < shT'[u].it
               \/ shRing'[z][2] = shT'[u].it /\ shT'[u].at \notin {"post", "load"}
      <3> SUFFICES ASSUME NEW z \in 0..(ShQN - 1), NEW u \in ShThread, shRing'[z][1] = u
                   PROVE  \/ shRing'[z][2] < shT'[u].it
                          \/ shRing'[z][2] = shT'[u].it /\ shT'[u].at \notin {"post", "load"}
        OBVIOUS
      <3>1. \/ shRing[z][2] < shT[u].it
            \/ shRing[z][2] = shT[u].it /\ shT[u].at \notin {"post", "load"}
        BY <2>2 DEF ShRingInv
      <3>2. CASE u # t
        BY <2>1, <2>2, <3>1, <3>2
      <3>3. CASE u = t
        <4>1. shRing[z][2] \in Nat
          BY <2>2, <3>3, ShEntryIs, ShNoPushIs DEF ShTypeOK
        <4> QED
          BY <2>2, <2>3, <3>1, <3>3, <4>1
      <3> QED
        BY <3>2, <3>3
    <2> QED
      BY <2>2, <2>4, <2>5 DEF ShRingInv
  <1> QED
    BY <1>1, <1>2

\* A step that adds nothing: it stays before, between or behind the stores, or
\* begins the next iteration.
ShAddsNone(t) ==
    \/ shT'[t].it = shT[t].it /\ \A j \in 1..Len(ShWords) : ShPast(t, j)' <=> ShPast(t, j)
    \/ shT'[t].it = shT[t].it + 1 /\ shT[t].at = "end" /\ shT'[t].at = "post"

LEMMA ShAddedSame ==
  ASSUME ShTypeOK, shPat' = shPat, NEW t \in ShThread, ShAddsNone(t), ShAssumption,
         \A u \in ShThread : u # t => shT'[u] = shT[u]
  PROVE  \A j \in 1..Len(ShWords) : ShAdded(j)' = ShAdded(j)
  <1> SUFFICES ASSUME NEW j \in 1..Len(ShWords) PROVE ShAdded(j)' = ShAdded(j)
    OBVIOUS
  <1> DEFINE R(u, n) == n < shT[u].it \/ (n = shT[u].it /\ ShPast(u, j))
  <1>1. \A u \in ShThread, n \in 0..(ShIters - 1) : R(u, n)' <=> R(u, n)
    <2> SUFFICES ASSUME NEW u \in ShThread, NEW n \in 0..(ShIters - 1) PROVE R(u, n)' <=> R(u, n)
      OBVIOUS
    <2>0. shT[u].it \in Nat /\ n \in Nat
      BY DEF ShTypeOK, ShHandlers, ShAssumption
    <2>1. CASE u # t
      BY <2>1 DEF ShPast
    <2>2. CASE u = t /\ shT'[t].it = shT[t].it /\ (ShPast(t, j)' <=> ShPast(t, j))
      BY <2>2
    <2>3. CASE u = t /\ shT'[t].it = shT[t].it + 1 /\ shT[t].at = "end" /\ shT'[t].at = "post"
      <3>1. ShPast(u, j) /\ ~ShPast(u, j)'
        BY <2>3 DEF ShPast
      <3> QED
        BY <2>0, <2>3, <3>1
    <2> QED
      BY <2>1, <2>2, <2>3 DEF ShAddsNone
  <1>2. \A p \in ShThread \X (0..(ShIters - 1)) : R(p[1], p[2])' <=> R(p[1], p[2])
    BY <1>1
  <1> QED
    BY <1>2 DEF ShAdded

LEMMA ShAddedFinite ==
  ASSUME ShAssumption
  PROVE  \A j : IsFiniteSet(ShAdded(j))
  <1>1. IsFiniteSet(0..(ShIters - 1))
    BY FS_Interval DEF ShAssumption
  <1>2. IsFiniteSet(ShThread \X (0..(ShIters - 1)))
    BY <1>1, FS_Product DEF ShAssumption
  <1> QED
    BY <1>2, FS_Subset DEF ShAdded

LEMMA ShStoreAdds ==
  ASSUME ShTypeOK, ShPlaceInv, ShAssumption, shPat' = shPat, NEW t \in ShThread, ShStores(t),
         \A u \in ShThread : u # t => shT'[u] = shT[u]
  PROVE  \A j \in 1..Len(ShWords) :
            /\ j # shT[t].k => ShAdded(j)' = ShAdded(j)
            /\ j = shT[t].k => /\ ShAdded(j)' = ShAdded(j) \cup {<<t, shT[t].it>>}
                               /\ <<t, shT[t].it>> \notin ShAdded(j)
  <1> SUFFICES ASSUME NEW j \in 1..Len(ShWords)
               PROVE  /\ j # shT[t].k => ShAdded(j)' = ShAdded(j)
                      /\ j = shT[t].k => /\ ShAdded(j)' = ShAdded(j) \cup {<<t, shT[t].it>>}
                                         /\ <<t, shT[t].it>> \notin ShAdded(j)
    OBVIOUS
  <1> DEFINE k == shT[t].k
             L == Len(ShWords)
  <1>1. /\ shT[t].at = "store" /\ shT'[t].at = ShAfterStore(k) /\ shT'[t].it = shT[t].it /\ shT'[t].k = k + 1
    BY DEF ShStores, ShInside, ShNow
  <1>2. k \in 1..L /\ L \in Nat /\ shT[t].it < ShIters /\ shT[t].it \in Nat /\ k \in Nat
    BY <1>1, ShWordsAre DEF ShPlaceInv, ShTypeOK, ShHandlers
  <1>3. ShPast(t, j) <=> k > j
    BY <1>1 DEF ShPast
  <1>4. ShPast(t, j)' <=> k >= j
    <2>1. CASE k < L
      <3>1. shT'[t].at = "load"
        BY <1>1, <2>1 DEF ShAfterStore
      <3> QED
        BY <1>1, <1>2, <3>1 DEF ShPast
    <2>2. CASE k = L
      <3>1. shT'[t].at \in {"tail", "queued", "end"}
        BY <1>1, <1>2, <2>2 DEF ShAfterStore
      <3> QED
        BY <1>2, <2>2, <3>1 DEF ShPast
    <2> QED
      BY <1>2, <2>1, <2>2
  <1>5. CASE j # k
    <2>1. ShPast(t, j)' <=> ShPast(t, j)
      BY <1>2, <1>3, <1>4, <1>5
    <2>2. \A u \in ShThread : shT'[u].it = shT[u].it /\ (ShPast(u, j)' <=> ShPast(u, j))
      BY <1>1, <2>1 DEF ShPast
    <2>3. \A p \in ShThread \X (0..(ShIters - 1)) :
             shT'[p[1]].it = shT[p[1]].it /\ (ShPast(p[1], j)' <=> ShPast(p[1], j))
      BY <2>2
    <2> QED
      BY <1>5, <2>3 DEF ShAdded
  <1>6. CASE j = k
    <2> DEFINE x == <<t, shT[t].it>>
    <2>1. ShPast(t, j)' /\ ~ShPast(t, j)
      BY <1>2, <1>3, <1>4, <1>6
    <2>2. x \in ShThread \X (0..(ShIters - 1)) /\ x[1] = t /\ x[2] = shT[t].it
      BY <1>2 DEF ShAssumption
    <2>3. x \in ShAdded(j)' /\ x \notin ShAdded(j)
      BY <1>1, <1>2, <2>1, <2>2 DEF ShAdded
    <2>4. \A p \in ShThread \X (0..(ShIters - 1)) : p # x => (p \in ShAdded(j)' <=> p \in ShAdded(j))
      <3> SUFFICES ASSUME NEW u \in ShThread, NEW n \in 0..(ShIters - 1), <<u, n>> # x
                   PROVE  <<u, n>> \in ShAdded(j)' <=> <<u, n>> \in ShAdded(j)
        OBVIOUS
      <3>1. CASE u # t
        BY <3>1 DEF ShAdded, ShPast
      <3>2. CASE u = t
        BY <1>1, <3>2 DEF ShAdded
      <3> QED
        BY <3>1, <3>2
    <2>5. ShAdded(j) \subseteq ShThread \X (0..(ShIters - 1)) /\ ShAdded(j)' \subseteq ShThread \X (0..(ShIters - 1))
      BY DEF ShAdded
    <2> HIDE DEF x
    <2>6. ShAdded(j)' = ShAdded(j) \cup {x}
      BY <2>2, <2>3, <2>4, <2>5
    <2> QED
      BY <1>6, <2>3, <2>6 DEF x
  <1> QED
    BY <1>5, <1>6

LEMMA ShCountStep ==
  ASSUME ShTypeOK, ShPlaceInv, ShMutexInv, ShRegInv, ShCountInv, ShAssumption, shPat' = shPat,
         NEW t \in ShThread, ShPlain(t) \/ ShBlock(t)
  PROVE  ShCountInv'
  <1> SUFFICES ASSUME shPat # "cache" PROVE \A j \in 1..Len(ShWords) : shCell'[ShWords[j]] = Cardinality(ShAdded(j)')
    BY DEF ShCountInv, ShWords
  <1>1. \A u \in ShThread : u # t => shT'[u] = shT[u]
    BY ShOthers
  <1>2. CASE ShStores(t)
    <2> DEFINE k == shT[t].k
    <2>1. k \in 1..Len(ShWords) /\ shT[t].reg = shCell[ShWords[k]]
          /\ shCell' = [shCell EXCEPT ![ShWords[k]] = shT[t].reg + 1]
      BY <1>2 DEF ShStores, ShInside, ShPlaceInv, ShRegInv
    <2> SUFFICES ASSUME NEW j \in 1..Len(ShWords) PROVE shCell'[ShWords[j]] = Cardinality(ShAdded(j)')
      OBVIOUS
    <2>2. ShWords[j] \in ShCells /\ ShWords[k] \in ShCells /\ (ShWords[j] = ShWords[k] => j = k)
      BY <2>1, ShWordsAre
    <2>3. IsFiniteSet(ShAdded(j)) /\ shCell[ShWords[j]] = Cardinality(ShAdded(j))
      BY ShAddedFinite DEF ShCountInv
    <2>4. CASE j # k
      BY <1>1, <1>2, <2>1, <2>2, <2>3, <2>4, ShStoreAdds DEF ShTypeOK
    <2>5. CASE j = k
      <3>1. Cardinality(ShAdded(j)') = Cardinality(ShAdded(j)) + 1
        <4>1. ShAdded(j)' = ShAdded(j) \cup {<<t, shT[t].it>>} /\ <<t, shT[t].it>> \notin ShAdded(j)
          BY <1>1, <1>2, <2>5, ShStoreAdds
        <4> QED
          BY <2>3, <4>1, FS_AddElement
      <3>2. shCell'[ShWords[j]] = shT[t].reg + 1
        BY <2>1, <2>2, <2>5 DEF ShTypeOK
      <3> QED
        BY <2>1, <2>3, <2>5, <3>1, <3>2
    <2> QED
      BY <2>4, <2>5
  <1>3. CASE ~ShStores(t)
    <2>1. \A j \in 1..Len(ShWords) : shCell'[ShWords[j]] = shCell[ShWords[j]]
      <3>1. \A c \in ShCells \ {"tail", "top"} : shCell'[c] = shCell[c]
        BY <1>3 DEF ShTypeOK, ShPlain, ShBlock, ShEnters, ShLeaves, ShLoads, ShTests, ShMoves, ShKeys, ShVals, ShPops,
           ShTakesNone, ShTakes, ShFreesNone, ShFrees, ShLists
      <3> QED
        BY <3>1, ShWordsAre
    <2>2. ShAddsNone(t)
      <3> USE DEF ShNow, ShInside
      <3>1. CASE ShEnters(t, "post", "load")
        BY <3>1 DEF ShEnters, ShAddsNone, ShPast
      <3>2. CASE ShLeaves(t, "end", "post", shT[t].it + 1)
        BY <3>2 DEF ShLeaves, ShAddsNone
      <3>3. CASE ShLoads(t)
        BY <3>3 DEF ShLoads, ShAddsNone, ShPast
      <3>4. CASE ShTests(t) \/ ShMoves(t)
        BY <3>4 DEF ShTests, ShMoves, ShAddsNone, ShPast
      <3>5. CASE ShBlock(t)
        <4>1. shT'[t].it = shT[t].it /\ {shT[t].at, shT'[t].at} \cap {"post", "load", "store"} = {}
          BY <3>5 DEF ShBlock, ShEnters, ShLeaves, ShPops, ShTakesNone, ShTakes, ShFreesNone, ShFrees, ShLists,
                      ShNextBlock
        <4> QED
          BY <4>1 DEF ShAddsNone, ShPast
      <3> QED
        BY <1>3, <3>1, <3>2, <3>3, <3>4, <3>5 DEF ShPlain, ShKeys, ShVals
    <2> QED
      BY <1>1, <2>1, <2>2, ShAddedSame DEF ShCountInv
  <1> QED
    BY <1>2, <1>3

(* The blocks. *)

\* What a step that moves no block keeps.
ShSameBlocks(t) ==
    /\ UNCHANGED <<shList, shOwner, shDouble>> /\ shCell'["top"] = shCell["top"]
    /\ shT[t].at # "freed" /\ shT'[t].at # "freed"
    /\ \A z \in 1..ShBlocks : (ShHas(t, z)' <=> ShHas(t, z)) /\ (ShHas(t, z) => shT'[t].mine[z] = shT[t].mine[z])

LEMMA ShKeepBlocks ==
  ASSUME ShListInv, ShHeldInv, NEW t \in ShThread, ShSameBlocks(t),
         \A u \in ShThread : u # t => shT'[u] = shT[u] /\ shT[u].at \in ShOutside
  PROVE  ShListInv' /\ ShHeldInv'
  <1>1. \A b : (ShListed(b)' <=> ShListed(b)) /\ ~ShFreeing(b) /\ ~ShFreeing(b)'
    BY DEF ShListed, ShFreeing, ShSameBlocks, ShOutside
  <1>2. \A u \in ShThread : shT'[u].at # "freed"
    BY DEF ShSameBlocks, ShOutside
  <1>3. \A z, j \in 0..(shCell'["top"] - 1) : shList'[z] = shList'[j] => z = j
    BY DEF ShSameBlocks, ShListInv
  <1>4. ShListInv'
    BY <1>1, <1>2, <1>3 DEF ShListInv, ShSameBlocks
  <1>5. \A u \in ShThread, z \in 1..ShBlocks :
           (ShHas(u, z)' <=> ShHas(u, z)) /\ (ShHas(u, z) => shT'[u].mine[z] = shT[u].mine[z])
    BY DEF ShHas, ShSameBlocks
  <1>6. shOwner' = shOwner
    BY DEF ShSameBlocks
  <1>7. ShHeldInv'
    BY <1>5, <1>6 DEF ShHeldInv
  <1> QED
    BY <1>4, <1>7

LEMMA ShSameSteps ==
  ASSUME ShTypeOK, ShPlaceInv, ShAssumption, NEW t \in ShThread, ShPlain(t) \/ ShBlock(t),
         ~ShTakes(t, shList[shT[t].reg - 1]), ~ShFrees(t, shT[t].mine[shT[t].k]), ~ShLists(t, shT[t].mine[shT[t].k])
  PROVE  ShSameBlocks(t)
  <1> DEFINE none == {"post", "load", "store", "tail", "moved", "val", "end", "queued", "prefill"}
             Keep == UNCHANGED <<shList, shOwner, shDouble>> /\ shCell'["top"] = shCell["top"]
  <1>0. shT[t].k \in Nat /\ ShBlocks \in Nat \ {0} /\ shT[t].mine \in [1..ShBlocks -> 0..ShNBLOCK]
    BY DEF ShTypeOK, ShHandlers, ShAssumption
  <1>1. Keep /\ shT[t].at \in none /\ shT'[t].at \in none => ShSameBlocks(t)
    BY DEF ShSameBlocks, ShHas
  <1>2. CASE ShPlain(t)
    <2>1. Keep
      <3>1. CASE ShStores(t)
        <4>1. ShWords[shT[t].k] # "top"
          BY <3>1, ShWordsAre DEF ShStores, ShInside, ShPlaceInv
        <4> QED
          BY <3>1, <4>1 DEF ShStores, ShTypeOK, ShCells
      <3>2. CASE ShMoves(t)
        BY <3>2 DEF ShMoves, ShTypeOK, ShCells
      <3>3. CASE ~ShStores(t) /\ ~ShMoves(t)
        BY <1>2, <3>3 DEF ShPlain, ShEnters, ShLeaves, ShLoads, ShTests, ShKeys, ShVals
      <3> QED
        BY <3>1, <3>2, <3>3
    <2>2. shT[t].at \in none /\ shT'[t].at \in none
      BY <1>2 DEF ShPlain, ShEnters, ShLeaves, ShLoads, ShStores, ShTests, ShMoves, ShKeys, ShVals, ShInside, ShNow,
             ShAfterStore
    <2> QED
      BY <1>1, <2>1, <2>2
  <1>3. CASE ShLeaves(t, "queued", "prefill", shT[t].it)
    BY <1>1, <1>3 DEF ShLeaves, ShNow
  <1>4. CASE ShEnters(t, "prefill", "alloc")
    BY <1>4 DEF ShEnters, ShNow, ShSameBlocks, ShHas
  <1>5. CASE ShLeaves(t, "have", "offload", shT[t].it)
    BY <1>5 DEF ShLeaves, ShNow, ShSameBlocks, ShHas
  <1>6. CASE ShEnters(t, "offload", "free")
    BY <1>6 DEF ShEnters, ShNow, ShSameBlocks, ShHas
  <1>7. CASE ShPops(t)
    BY <1>7 DEF ShPops, ShInside, ShNow, ShSameBlocks, ShHas
  <1>8. CASE ShTakesNone(t)
    <2> DEFINE k == shT[t].k
    <2>1. /\ UNCHANGED <<shCell, shList, shOwner, shDouble>> /\ shT[t].at = "popped"
          /\ shT'[t].at = (IF k = ShBlocks THEN "have" ELSE "alloc")
          /\ shT'[t].k = (IF k = ShBlocks THEN 1 ELSE k + 1)
          /\ shT'[t].mine = [shT[t].mine EXCEPT ![k] = 0]
      BY <1>8 DEF ShTakesNone, ShInside, ShNow, ShNextBlock, ShNextK
    <2>2. k \in 1..ShBlocks
      BY <2>1 DEF ShPlaceInv
    <2>3. \A z \in 1..ShBlocks : shT'[t].mine[z] = IF z = k THEN 0 ELSE shT[t].mine[z]
      BY <1>0, <2>1
    <2>4. \A z \in 1..ShBlocks : ShHas(t, z) <=> z < k /\ shT[t].mine[z] # 0
      BY <2>1 DEF ShHas
    <2>5. \A z \in 1..ShBlocks : ShHas(t, z)' <=> z <= k /\ shT'[t].mine[z] # 0
      BY <1>0, <2>1, <2>2 DEF ShHas
    <2>6. \A z \in 1..ShBlocks : (ShHas(t, z)' <=> ShHas(t, z)) /\ (ShHas(t, z) => shT'[t].mine[z] = shT[t].mine[z])
      <3> SUFFICES ASSUME NEW z \in 1..ShBlocks
                   PROVE  (ShHas(t, z)' <=> ShHas(t, z)) /\ (ShHas(t, z) => shT'[t].mine[z] = shT[t].mine[z])
        OBVIOUS
      <3>1. CASE z = k
        BY <1>0, <2>3, <2>4, <2>5, <3>1
      <3>2. CASE z # k
        <4>0. z \in Nat /\ k \in Nat
          BY <2>2, ShAssumption DEF ShAssumption
        <4>1. z <= k <=> z < k
          BY <3>2, <4>0
        <4> QED
          BY <2>3, <2>4, <2>5, <3>2, <4>1
      <3> QED
        BY <3>1, <3>2
    <2> QED
      BY <2>1, <2>6 DEF ShSameBlocks
  <1>9. CASE ShFreesNone(t)
    <2> DEFINE k == shT[t].k
    <2>1. /\ UNCHANGED <<shCell, shList, shOwner, shDouble>> /\ shT[t].at = "free" /\ shT[t].mine[k] = 0
          /\ shT'[t].at = (IF k = ShBlocks THEN "tail" ELSE "free")
          /\ shT'[t].k = (IF k = ShBlocks THEN 1 ELSE k + 1)
          /\ shT'[t].mine = shT[t].mine
      BY <1>9 DEF ShFreesNone, ShInside, ShNow, ShNextBlock, ShNextK
    <2>2. k \in 1..ShBlocks
      BY <2>1 DEF ShPlaceInv
    <2>4. \A z \in 1..ShBlocks : ShHas(t, z) <=> z >= k /\ shT[t].mine[z] # 0
      BY <2>1 DEF ShHas
    <2>5. \A z \in 1..ShBlocks : ShHas(t, z)' <=> z > k /\ shT[t].mine[z] # 0
      BY <1>0, <2>1, <2>2 DEF ShHas
    <2>6. \A z \in 1..ShBlocks : ShHas(t, z)' <=> ShHas(t, z)
      BY <1>0, <2>1, <2>2, <2>4, <2>5
    <2> QED
      BY <2>1, <2>6 DEF ShSameBlocks
  <1> QED
    BY <1>2, <1>3, <1>4, <1>5, <1>6, <1>7, <1>8, <1>9 DEF ShBlock

\* The owner of a block changes to or from t: the others have what they had.
LEMMA ShOthersHold ==
  ASSUME ShHeldInv, ShAssumption, NEW t \in ShThread,
         \A u \in ShThread : u # t => shT'[u] = shT[u],
         \A b \in 1..ShNBLOCK : shOwner'[b] = shOwner[b] \/ {shOwner'[b], shOwner[b]} \subseteq {t, ShNobody}
  PROVE  \A u \in ShThread \ {t} :
            /\ \A z, j \in 1..ShBlocks : ShHas(u, z)' /\ ShHas(u, j)' /\ shT'[u].mine[z] = shT'[u].mine[j] => z = j
            /\ \A b \in 1..ShNBLOCK : shOwner'[b] = u <=> \E z \in 1..ShBlocks : ShHas(u, z)' /\ shT'[u].mine[z] = b
  <1> SUFFICES ASSUME NEW u \in ShThread, u # t
               PROVE  /\ \A z, j \in 1..ShBlocks :
                            ShHas(u, z)' /\ ShHas(u, j)' /\ shT'[u].mine[z] = shT'[u].mine[j] => z = j
                      /\ \A b \in 1..ShNBLOCK :
                            shOwner'[b] = u <=> \E z \in 1..ShBlocks : ShHas(u, z)' /\ shT'[u].mine[z] = b
    OBVIOUS
  <1>1. shT'[u] = shT[u] /\ \A z \in 1..ShBlocks : ShHas(u, z)' <=> ShHas(u, z)
    BY DEF ShHas
  <1>2. \A b \in 1..ShNBLOCK : shOwner'[b] = u <=> shOwner[b] = u
    BY DEF ShAssumption, ShNobody
  <1> QED
    BY <1>1, <1>2 DEF ShHeldInv

LEMMA ShTakesStep ==
  ASSUME ShTypeOK, ShPlaceInv, ShRegInv, ShListInv, ShHeldInv, ~shDouble, ShAssumption, NEW t \in ShThread,
         ShTakes(t, shList[shT[t].reg - 1]),
         \A u \in ShThread : u # t => shT'[u] = shT[u] /\ shT[u].at \in ShOutside
  PROVE  ShListInv' /\ ShHeldInv' /\ ~shDouble'
  <1> DEFINE top == shCell["top"]
             blk == shList[top - 1]
             k == shT[t].k
  <1>1. /\ shT[t].at = "popped" /\ shT[t].reg = top /\ top # 0
        /\ shT'[t].at = (IF k = ShBlocks THEN "have" ELSE "alloc")
        /\ shT'[t].k = (IF k = ShBlocks THEN 1 ELSE k + 1)
        /\ shT'[t].mine = [shT[t].mine EXCEPT ![k] = blk]
    BY DEF ShTakes, ShInside, ShNow, ShNextBlock, ShNextK, ShRegInv
  <1>2. /\ shCell' = [shCell EXCEPT !["top"] = top - 1]
        /\ shOwner' = [shOwner EXCEPT ![blk] = t]
        /\ shDouble' = (shDouble \/ shOwner[blk] # ShNobody) /\ shList' = shList
    BY <1>1 DEF ShTakes
  <1>3. k \in 1..ShBlocks /\ k \in Nat /\ ShBlocks \in Nat
    BY <1>1 DEF ShPlaceInv, ShTypeOK, ShHandlers, ShAssumption
  <1>4. top \in Nat /\ top <= ShNBLOCK /\ ShNBLOCK \in Nat /\ top - 1 \in 0..(ShNBLOCK - 1) /\ top - 1 \in 0..(top - 1)
    <2>1. top \in Nat
      BY DEF ShTypeOK, ShCells
    <2>2. top <= ShNBLOCK
      BY DEF ShListInv
    <2>3. ShNBLOCK \in Nat
      BY DEF ShAssumption
    <2> HIDE DEF top
    <2> QED
      BY <1>1, <2>1, <2>2, <2>3
  <1>5. blk \in 1..ShNBLOCK /\ blk # 0
    BY <1>4 DEF ShTypeOK
  <1>6. ShListed(blk)
    BY <1>4 DEF ShListed
  <1>7. shOwner[blk] = ShNobody /\ ShNobody # t
    BY <1>5, <1>6 DEF ShListInv, ShAssumption, ShNobody
  <1>8. shCell'["top"] = top - 1
    BY <1>2 DEF ShTypeOK, ShCells
  <1>9. \A b \in 1..ShNBLOCK : shOwner'[b] = IF b = blk THEN t ELSE shOwner[b]
    BY <1>2 DEF ShTypeOK
  <1>10. \A b : ~ShFreeing(b) /\ ~ShFreeing(b)'
    BY <1>1 DEF ShFreeing, ShOutside
  <1>11. \A u \in ShThread : shT'[u].at # "freed"
    BY <1>1 DEF ShOutside
  <1> HIDE DEF top, blk, k
  <1>12. \A b \in 1..ShNBLOCK : ShListed(b)' <=> ShListed(b) /\ b # blk
    <2> SUFFICES ASSUME NEW b \in 1..ShNBLOCK PROVE ShListed(b)' <=> ShListed(b) /\ b # blk
      OBVIOUS
    <2>1. ShListed(b)' <=> \E z \in 0..(top - 2) : shList[z] = b
      <3>1. 0..(shCell'["top"] - 1) = 0..(top - 2)
        BY <1>4, <1>8
      <3> QED
        BY <1>2, <3>1 DEF ShListed
    <2>2. \A z \in 0..(top - 1) : shList[z] = blk <=> z = top - 1
      BY <1>4 DEF ShListInv, blk, top
    <2>3. ShListed(b) <=> \E z \in 0..(top - 1) : shList[z] = b
      BY DEF ShListed, top
    <2> QED
      BY <1>4, <2>1, <2>2, <2>3
  <1>13. ShListInv'
    <2>1. \A z, j \in 0..(shCell'["top"] - 1) : shList'[z] = shList'[j] => z = j
      BY <1>2, <1>4, <1>8 DEF ShListInv, top
    <2>2. shCell'["top"] <= ShNBLOCK
      BY <1>4, <1>8
    <2>3. \A b \in 1..ShNBLOCK : shOwner'[b] = ShNobody <=> ShListed(b)' \/ ShFreeing(b)'
      BY <1>7, <1>9, <1>10, <1>12 DEF ShListInv
    <2> QED
      BY <1>10, <1>11, <2>1, <2>2, <2>3 DEF ShListInv
  <1>14. \A z \in 1..ShBlocks : shT'[t].mine[z] = IF z = k THEN blk ELSE shT[t].mine[z]
    BY <1>1 DEF ShTypeOK, ShHandlers
  <1>15. \A z \in 1..ShBlocks : (ShHas(t, z) <=> z < k /\ shT[t].mine[z] # 0) /\ (ShHas(t, z)' <=> ShHas(t, z) \/ z = k)
    <2> SUFFICES ASSUME NEW z \in 1..ShBlocks
                 PROVE  (ShHas(t, z) <=> z < k /\ shT[t].mine[z] # 0) /\ (ShHas(t, z)' <=> ShHas(t, z) \/ z = k)
      OBVIOUS
    <2>1. ShHas(t, z) <=> z < k /\ shT[t].mine[z] # 0
      BY <1>1 DEF ShHas, k
    <2>2. ShHas(t, z)' <=> z <= k /\ shT'[t].mine[z] # 0
      BY <1>1, <1>3 DEF ShHas
    <2>3. CASE z = k
      BY <1>3, <1>5, <1>14, <2>1, <2>2, <2>3
    <2>4. CASE z # k
      <3>1. z <= k <=> z < k
        BY <1>3, <2>4
      <3> QED
        BY <1>14, <2>1, <2>2, <2>4, <3>1
    <2> QED
      BY <2>3, <2>4
  <1>16. \A z \in 1..ShBlocks : ShHas(t, z) => shT[t].mine[z] # blk /\ z # k
    <2> SUFFICES ASSUME NEW z \in 1..ShBlocks, ShHas(t, z) PROVE shT[t].mine[z] # blk /\ z # k
      OBVIOUS
    <2>1. shT[t].mine[z] = blk => shOwner[blk] = t
      BY <1>5 DEF ShHeldInv
    <2> QED
      BY <1>3, <1>7, <1>15, <2>1
  <1>17. \A z, j \in 1..ShBlocks : ShHas(t, z)' /\ ShHas(t, j)' /\ shT'[t].mine[z] = shT'[t].mine[j] => z = j
    BY <1>14, <1>15, <1>16 DEF ShHeldInv
  <1>18. \A b \in 1..ShNBLOCK : shOwner'[b] = t <=> \E z \in 1..ShBlocks : ShHas(t, z)' /\ shT'[t].mine[z] = b
    <2> SUFFICES ASSUME NEW b \in 1..ShNBLOCK
                 PROVE  shOwner'[b] = t <=> \E z \in 1..ShBlocks : ShHas(t, z)' /\ shT'[t].mine[z] = b
      OBVIOUS
    <2>1. CASE b = blk
      BY <1>3, <1>9, <1>14, <1>15, <2>1
    <2>2. CASE b # blk
      <3>1. shOwner'[b] = t <=> \E z \in 1..ShBlocks : ShHas(t, z) /\ shT[t].mine[z] = b
        BY <1>9, <2>2 DEF ShHeldInv
      <3>2. \A z \in 1..ShBlocks : ShHas(t, z)' /\ shT'[t].mine[z] = b <=> ShHas(t, z) /\ shT[t].mine[z] = b
        BY <1>14, <1>15, <1>16, <2>2
      <3> QED
        BY <3>1, <3>2
    <2> QED
      BY <2>1, <2>2
  <1>19. \A b \in 1..ShNBLOCK : shOwner'[b] = shOwner[b] \/ {shOwner'[b], shOwner[b]} \subseteq {t, ShNobody}
    BY <1>7, <1>9
  <1>20. ShHeldInv'
    BY <1>17, <1>18, <1>19, ShOthersHold DEF ShHeldInv
  <1> QED
    BY <1>2, <1>7, <1>13, <1>20

LEMMA ShFreesStep ==
  ASSUME ShTypeOK, ShPlaceInv, ShListInv, ShHeldInv, ShAssumption, NEW t \in ShThread,
         ShFrees(t, shT[t].mine[shT[t].k]),
         \A u \in ShThread : u # t => shT'[u] = shT[u] /\ shT[u].at \in ShOutside
  PROVE  ShListInv' /\ ShHeldInv' /\ shDouble' = shDouble
  <1> DEFINE k == shT[t].k
             blk == shT[t].mine[k]
  <1>1. /\ shT[t].at = "free" /\ blk # 0
        /\ shT'[t].at = "freed" /\ shT'[t].k = k /\ shT'[t].mine = shT[t].mine
        /\ shOwner' = [shOwner EXCEPT ![blk] = ShNobody]
        /\ shCell' = shCell /\ shList' = shList /\ shDouble' = shDouble
    BY DEF ShFrees, ShInside, ShNow
  <1>2. k \in 1..ShBlocks /\ k \in Nat
    BY <1>1 DEF ShPlaceInv, ShTypeOK, ShHandlers
  <1>3. blk \in 1..ShNBLOCK
    BY <1>1, <1>2 DEF ShTypeOK, ShHandlers, ShAssumption
  <1>4. ShHas(t, k)
    BY <1>1, <1>2 DEF ShHas
  <1>5. shOwner[blk] = t /\ t # ShNobody
    BY <1>2, <1>3, <1>4 DEF ShHeldInv, ShAssumption, ShNobody
  <1>6. \A b \in 1..ShNBLOCK : shOwner'[b] = IF b = blk THEN ShNobody ELSE shOwner[b]
    BY <1>1 DEF ShTypeOK
  <1>7. \A b : ~ShFreeing(b) /\ (ShFreeing(b)' <=> b = blk)
    BY <1>1 DEF ShFreeing, ShOutside
  <1>8. \A b : ShListed(b)' <=> ShListed(b)
    BY <1>1 DEF ShListed
  <1>9. ~ShListed(blk)
    BY <1>3, <1>5 DEF ShListInv
  <1>10. \A u \in ShThread : shT'[u].at = "freed" => shT'[u].mine[shT'[u].k] # 0
    BY <1>1 DEF ShOutside
  <1>11. \A z \in 1..ShBlocks : ShHas(t, z)' <=> ShHas(t, z) /\ z # k
    <2> SUFFICES ASSUME NEW z \in 1..ShBlocks PROVE ShHas(t, z)' <=> ShHas(t, z) /\ z # k
      OBVIOUS
    <2>1. ShHas(t, z) <=> z >= k /\ shT[t].mine[z] # 0
      BY <1>1 DEF ShHas
    <2>2. ShHas(t, z)' <=> z > k /\ shT[t].mine[z] # 0
      BY <1>1 DEF ShHas
    <2>3. z > k <=> z >= k /\ z # k
      BY <1>2
    <2> QED
      BY <2>1, <2>2, <2>3
  <1>12. \A z \in 1..ShBlocks : ShHas(t, z) /\ shT[t].mine[z] = blk => z = k
    BY <1>2, <1>4 DEF ShHeldInv
  <1>13. shT'[t].mine = shT[t].mine /\ shCell' = shCell /\ shList' = shList
    BY <1>1
  <1> HIDE DEF blk, k
  <1>14. ShListInv'
    <2>1. \A b \in 1..ShNBLOCK : shOwner'[b] = ShNobody <=> ShListed(b)' \/ ShFreeing(b)'
      BY <1>6, <1>7, <1>8 DEF ShListInv
    <2>2. \A b \in 1..ShNBLOCK : ~(ShListed(b)' /\ ShFreeing(b)')
      BY <1>7, <1>8, <1>9
    <2> QED
      BY <1>10, <1>13, <2>1, <2>2 DEF ShListInv
  <1>15. \A z, j \in 1..ShBlocks : ShHas(t, z)' /\ ShHas(t, j)' /\ shT'[t].mine[z] = shT'[t].mine[j] => z = j
    BY <1>11, <1>13 DEF ShHeldInv
  <1>16. \A b \in 1..ShNBLOCK : shOwner'[b] = t <=> \E z \in 1..ShBlocks : ShHas(t, z)' /\ shT'[t].mine[z] = b
    <2> SUFFICES ASSUME NEW b \in 1..ShNBLOCK
                 PROVE  shOwner'[b] = t <=> \E z \in 1..ShBlocks : ShHas(t, z)' /\ shT'[t].mine[z] = b
      OBVIOUS
    <2>1. CASE b = blk
      BY <1>5, <1>6, <1>11, <1>12, <1>13, <2>1
    <2>2. CASE b # blk
      <3>1. shOwner'[b] = t <=> \E z \in 1..ShBlocks : ShHas(t, z) /\ shT[t].mine[z] = b
        BY <1>6, <2>2 DEF ShHeldInv
      <3>2. \A z \in 1..ShBlocks : ShHas(t, z)' /\ shT'[t].mine[z] = b <=> ShHas(t, z) /\ shT[t].mine[z] = b
        BY <1>11, <1>13, <2>2 DEF blk
      <3> QED
        BY <3>1, <3>2
    <2> QED
      BY <2>1, <2>2
  <1>17. \A b \in 1..ShNBLOCK : shOwner'[b] = shOwner[b] \/ {shOwner'[b], shOwner[b]} \subseteq {t, ShNobody}
    BY <1>5, <1>6
  <1>18. ShHeldInv'
    BY <1>15, <1>16, <1>17, ShOthersHold DEF ShHeldInv
  <1> QED
    BY <1>1, <1>14, <1>18

LEMMA ShListsStep ==
  ASSUME ShTypeOK, ShPlaceInv, ShRegInv, ShListInv, ShHeldInv, ShAssumption, NEW t \in ShThread,
         ShLists(t, shT[t].mine[shT[t].k]),
         \A u \in ShThread : u # t => shT'[u] = shT[u] /\ shT[u].at \in ShOutside
  PROVE  ShListInv' /\ ShHeldInv' /\ shDouble' = shDouble
  <1> DEFINE k == shT[t].k
             blk == shT[t].mine[k]
             top == shCell["top"]
  <1>1. /\ shT[t].at = "freed" /\ shT[t].reg = top /\ top < ShNBLOCK
        /\ shT'[t].at = (IF k = ShBlocks THEN "tail" ELSE "free")
        /\ shT'[t].k = (IF k = ShBlocks THEN 1 ELSE k + 1) /\ shT'[t].mine = shT[t].mine
        /\ shOwner' = shOwner /\ shDouble' = shDouble
    BY DEF ShLists, ShInside, ShNow, ShNextBlock, ShNextK, ShRegInv
  <1>2. shCell' = [shCell EXCEPT !["top"] = top + 1] /\ shList' = [shList EXCEPT ![top] = blk]
    BY <1>1 DEF ShLists
  <1>3. k \in 1..ShBlocks /\ k \in Nat /\ ShBlocks \in Nat
    BY <1>1 DEF ShPlaceInv, ShTypeOK, ShHandlers, ShAssumption
  <1>4. top \in Nat /\ ShNBLOCK \in Nat /\ top \in 0..(ShNBLOCK - 1)
    BY <1>1 DEF ShTypeOK, ShCells, ShAssumption
  <1>5. shCell'["top"] = top + 1
    BY <1>2 DEF ShTypeOK, ShCells
  <1>6. \A z \in 0..(ShNBLOCK - 1) : shList'[z] = IF z = top THEN blk ELSE shList[z]
    BY <1>2 DEF ShTypeOK
  <1>7. \A b : (ShFreeing(b) <=> b = blk) /\ ~ShFreeing(b)'
    BY <1>1 DEF ShFreeing, ShOutside
  <1>8. blk \in 1..ShNBLOCK
    BY <1>1, <1>3 DEF ShListInv, ShTypeOK, ShHandlers, ShAssumption
  <1>9. \A u \in ShThread : shT'[u].at # "freed"
    BY <1>1 DEF ShOutside
  <1>10. shT'[t].mine = shT[t].mine /\ shOwner' = shOwner
    BY <1>1
  <1>11. \A z \in 1..ShBlocks : ShHas(t, z)' <=> ShHas(t, z)
    <2> SUFFICES ASSUME NEW z \in 1..ShBlocks PROVE ShHas(t, z)' <=> ShHas(t, z)
      OBVIOUS
    <2>1. ShHas(t, z) <=> z > k /\ shT[t].mine[z] # 0
      BY <1>1 DEF ShHas
    <2>2. ShHas(t, z)' <=> z > k /\ shT[t].mine[z] # 0
      <3>1. CASE k = ShBlocks
        BY <1>1, <1>3, <3>1 DEF ShHas
      <3>2. CASE k # ShBlocks
        BY <1>1, <1>3, <3>2 DEF ShHas
      <3> QED
        BY <3>1, <3>2
    <2> QED
      BY <2>1, <2>2
  <1> HIDE DEF k, blk
  <1>12. \A z \in 0..(top - 1) : shList[z] # blk /\ shList'[z] = shList[z]
    <2>1. ~ShListed(blk)
      BY <1>7, <1>8 DEF ShListInv
    <2> QED
      BY <1>4, <1>6, <2>1 DEF ShListed
  <1>13. shList'[top] = blk
    BY <1>4, <1>6
  <1>14. \A b : ShListed(b)' <=> ShListed(b) \/ b = blk
    <2>1. 0..(shCell'["top"] - 1) = (0..(top - 1)) \cup {top}
      BY <1>4, <1>5
    <2> HIDE DEF top
    <2>2. \A b : ShListed(b)' <=> \E z \in (0..(top - 1)) \cup {top} : shList'[z] = b
      BY <2>1 DEF ShListed
    <2>3. \A b : ShListed(b) <=> \E z \in 0..(top - 1) : shList[z] = b
      BY DEF ShListed, top
    <2> QED
      BY <1>12, <1>13, <2>2, <2>3
  <1>15. ShListInv'
    <2>1. \A z, j \in 0..(shCell'["top"] - 1) : shList'[z] = shList'[j] => z = j
      <3>1. 0..(shCell'["top"] - 1) = (0..(top - 1)) \cup {top}
        BY <1>4, <1>5
      <3>2. \A z, j \in 0..(top - 1) : shList[z] = shList[j] => z = j
        BY DEF ShListInv
      <3> HIDE DEF top
      <3> QED
        BY <1>12, <1>13, <3>1, <3>2
    <2>2. shCell'["top"] <= ShNBLOCK
      BY <1>1, <1>4, <1>5
    <2>3. \A b \in 1..ShNBLOCK : shOwner'[b] = ShNobody <=> ShListed(b)' \/ ShFreeing(b)'
      <3> SUFFICES ASSUME NEW b \in 1..ShNBLOCK PROVE shOwner[b] = ShNobody <=> ShListed(b)'
        BY <1>7, <1>10
      <3>1. shOwner[b] = ShNobody <=> ShListed(b) \/ b = blk
        BY <1>7 DEF ShListInv
      <3>2. ShListed(b)' <=> ShListed(b) \/ b = blk
        BY <1>14
      <3> QED
        BY <3>1, <3>2
    <2> QED
      BY <1>7, <1>9, <2>1, <2>2, <2>3 DEF ShListInv
  <1>16. ShHeldInv'
    <2>1. /\ \A z, j \in 1..ShBlocks : ShHas(t, z)' /\ ShHas(t, j)' /\ shT'[t].mine[z] = shT'[t].mine[j] => z = j
          /\ \A b \in 1..ShNBLOCK : shOwner'[b] = t <=> \E z \in 1..ShBlocks : ShHas(t, z)' /\ shT'[t].mine[z] = b
      BY <1>10, <1>11 DEF ShHeldInv
    <2> QED
      BY <1>10, <2>1, ShOthersHold DEF ShHeldInv
  <1> QED
    BY <1>1, <1>15, <1>16

ShIndInv == shLocked =>
    /\ ShTypeOK /\ ShPlaceInv /\ ShMutexInv /\ ShRegInv
    /\ ShCountInv /\ ShRingInv /\ ShTailInv /\ ShEntInv
    /\ ShListInv /\ ShHeldInv /\ ~shDouble

LEMMA ShInitInv ==
  ASSUME ShInit, ShAssumption
  PROVE  ShIndInv
  <1> SUFFICES ASSUME shLocked PROVE ShIndInv
    BY DEF ShIndInv
  <1>0. /\ \A t \in ShThread : shT[t].at = "post" /\ shT[t].it = 0 /\ shT[t].k = 1
        /\ shT \in [ShThread -> ShHandlers] /\ ShThread = ShThread
    BY DEF ShInit, ShHandlers, ShPlaces, ShAssumption
  <1>1. ShTypeOK
    <2>1. ShNoPush \in ShEntries
      BY DEF ShEntries
    <2>2. shCell \in [ShCells -> Nat] /\ shList \in [0..(ShNBLOCK - 1) -> 1..ShNBLOCK]
      BY DEF ShInit, ShAssumption
    <2> QED
      BY <1>0, <2>1, <2>2 DEF ShInit, ShTypeOK
  <1>2. ShPlaceInv /\ ShMutexInv /\ ShRegInv
    BY <1>0 DEF ShInit, ShPlaceInv, ShMutexInv, ShRegInv, ShOutside, ShAssumption
  <1>3. ShCountInv
    <2> SUFFICES ASSUME NEW j \in 1..Len(ShWords) PROVE shCell[ShWords[j]] = Cardinality(ShAdded(j))
      BY DEF ShCountInv
    <2>1. ShAdded(j) = {}
      BY <1>0 DEF ShAdded, ShPast, ShAssumption
    <2>2. shCell[ShWords[j]] = 0
      BY <1>1, ShWordsAre DEF ShInit
    <2> QED
      BY <2>1, <2>2, FS_EmptySet
  <1>4. ShRingInv
    <2>1. ShPushing = 0 /\ shCell["head"] = 0
      BY <1>0 DEF ShPushing, ShInit, ShCells
    <2>2. \A z \in 0..(ShQN - 1) : shRing[z] = ShNoPush
      BY DEF ShInit
    <2> QED
      BY <2>1, <2>2, ShNoPushIs DEF ShRingInv, ShAssumption
  <1>5. ShTailInv
    <2>1. shCell["head"] = 0 /\ shCell["tail"] = 0
      BY DEF ShInit, ShCells
    <2> QED
      BY <1>0, <2>1 DEF ShTailInv, ShAssumption
  <1>6. ShEntInv
    BY <1>0 DEF ShEntInv, ShInit
  <1>7. ShListInv
    <2>1. shCell["top"] = ShNBLOCK /\ ShNBLOCK \in Nat \ {0}
      BY DEF ShInit, ShCells, ShAssumption
    <2>2. \A z \in 0..(ShNBLOCK - 1) : shList[z] = z + 1
      BY DEF ShInit
    <2>3. \A b \in 1..ShNBLOCK : ShListed(b) /\ ~ShFreeing(b) /\ shOwner[b] = ShNobody
      <3> SUFFICES ASSUME NEW b \in 1..ShNBLOCK PROVE ShListed(b) /\ ~ShFreeing(b) /\ shOwner[b] = ShNobody
        OBVIOUS
      <3>1. b - 1 \in 0..(ShNBLOCK - 1) /\ (b - 1) + 1 = b
        BY <2>1
      <3>2. ShListed(b)
        BY <2>1, <2>2, <3>1 DEF ShListed
      <3> QED
        BY <1>0, <3>2 DEF ShFreeing, ShInit
    <2>4. \A z, j \in 0..(ShNBLOCK - 1) : shList[z] = shList[j] => z = j
      BY <2>1, <2>2
    <2> QED
      BY <1>0, <2>1, <2>3, <2>4 DEF ShListInv
  <1>8. ShHeldInv /\ ~shDouble
    <2>1. \A t \in ShThread, z \in 1..ShBlocks : ~ShHas(t, z)
      BY <1>0 DEF ShHas
    <2>2. \A t \in ShThread, b \in 1..ShNBLOCK : shOwner[b] # t
      BY DEF ShInit, ShAssumption, ShNobody
    <2> QED
      BY <2>1, <2>2 DEF ShHeldInv, ShInit
  <1> QED
    BY <1>1, <1>2, <1>3, <1>4, <1>5, <1>6, <1>7, <1>8 DEF ShIndInv

LEMMA ShIndStep ==
  ASSUME ShIndInv, [ShNext]_shVars, ShAssumption
  PROVE  ShIndInv'
  <1>1. CASE UNCHANGED shVars
    <2> USE <1>1 DEF shVars
    <2>1. ShWords' = ShWords /\ shLocked' = shLocked
      BY DEF ShWords
    <2>2. ShTypeOK => ShTypeOK'
      BY DEF ShTypeOK
    <2>3. ShPlaceInv => ShPlaceInv'
      BY <2>1 DEF ShPlaceInv
    <2>4. ShMutexInv => ShMutexInv'
      BY DEF ShMutexInv
    <2>5. ShRegInv => ShRegInv'
      BY <2>1 DEF ShRegInv
    <2>6. ShCountInv => ShCountInv'
      <3>1. \A j : ShAdded(j)' = ShAdded(j)
        BY DEF ShAdded, ShPast
      <3> QED
        BY <2>1, <3>1 DEF ShCountInv
    <2>7. ShRingInv => ShRingInv'
      BY DEF ShRingInv, ShPushing
    <2>8. ShTailInv => ShTailInv'
      BY DEF ShTailInv
    <2>9. ShEntInv => ShEntInv'
      BY DEF ShEntInv, ShPush
    <2>10. ShListInv => ShListInv'
      BY DEF ShListInv, ShListed, ShFreeing
    <2>11. ShHeldInv => ShHeldInv'
      BY DEF ShHeldInv, ShHas
    <2> QED
      BY <2>1, <2>2, <2>3, <2>4, <2>5, <2>6, <2>7, <2>8, <2>9, <2>10, <2>11 DEF ShIndInv
  <1>2. ASSUME NEW t \in ShThread, ShWorker(t)
        PROVE  ShIndInv'
    <2>1. shLocked' = shLocked
      BY <1>2 DEF ShWorker, ShKv, ShLock, ShUnlock, ShLoad, ShStore, ShTail, ShCache, ShPop, ShTake, ShFree
    <2> SUFFICES ASSUME shLocked PROVE ShIndInv'
      BY <2>1 DEF ShIndInv
    <2>2. /\ ShTypeOK /\ ShPlaceInv /\ ShMutexInv /\ ShRegInv /\ ShCountInv /\ ShRingInv /\ ShTailInv /\ ShEntInv
          /\ ShListInv /\ ShHeldInv /\ ~shDouble
      BY DEF ShIndInv
    <2>3. shPat' = shPat /\ (ShPlain(t) \/ ShBlock(t))
      BY <1>2, <2>2, ShStepCases
    <2>4. \A u \in ShThread : u # t => shT'[u] = shT[u] /\ shT[u].at \in ShOutside
      BY <2>2, <2>3, ShOthers
    <2>5. ShTypeOK' /\ ShPlaceInv' /\ ShMutexInv' /\ ShRegInv'
      BY <2>2, <2>3, ShTypeStep, ShPlaceStep, ShMutexStep, ShRegStep
    <2>6. ShCountInv' /\ ShRingInv' /\ ShTailInv' /\ ShEntInv'
      BY <2>2, <2>3, ShCountStep, ShRingStep, ShTailInvStep, ShEntStep
    <2>7. ShListInv' /\ ShHeldInv' /\ ~shDouble'
      <3>1. CASE ShTakes(t, shList[shT[t].reg - 1])
        BY <2>2, <2>4, <3>1, ShTakesStep
      <3>2. CASE ShFrees(t, shT[t].mine[shT[t].k])
        BY <2>2, <2>4, <3>2, ShFreesStep
      <3>3. CASE ShLists(t, shT[t].mine[shT[t].k])
        BY <2>2, <2>4, <3>3, ShListsStep
      <3>4. CASE /\ ~ShTakes(t, shList[shT[t].reg - 1]) /\ ~ShFrees(t, shT[t].mine[shT[t].k])
                 /\ ~ShLists(t, shT[t].mine[shT[t].k])
        <4>1. ShSameBlocks(t)
          BY <2>2, <2>3, <3>4, ShSameSteps
        <4> QED
          BY <2>2, <2>4, <4>1, ShKeepBlocks DEF ShSameBlocks
      <3> QED
        BY <3>1, <3>2, <3>3, <3>4
    <2> QED
      BY <2>5, <2>6, <2>7 DEF ShIndInv
  <1> QED
    BY <1>1, <1>2 DEF ShNext

LEMMA ShUpTo ==
  ASSUME NEW n \in Nat
  PROVE  IsFiniteSet(0..(n - 1)) /\ Cardinality(0..(n - 1)) = n
  <1>1. 0 \in Int /\ n - 1 \in Int
    OBVIOUS
  <1>2. IsFiniteSet(0..(n - 1)) /\ Cardinality(0..(n - 1)) = IF 0 > n - 1 THEN 0 ELSE (n - 1) - 0 + 1
    BY <1>1, FS_Interval
  <1> QED
    BY <1>2

LEMMA ShIndNothingLost ==
  ASSUME ShIndInv, ShAssumption
  PROVE  ShNothingLost
  <1> SUFFICES ASSUME shLocked, ShDone PROVE ShNothingLost
    BY DEF ShNothingLost
  <1>0. /\ ShTypeOK /\ ShPlaceInv /\ ShCountInv /\ ShRingInv /\ ShTailInv /\ ShEntInv
    BY DEF ShIndInv
  <1>1. \A t \in ShThread : shT[t].at = "post" /\ shT[t].it = ShIters
    BY <1>0 DEF ShDone, ShPlaceInv, ShAssumption
  <1>2. ShTotal \in Nat /\ Cardinality(ShThread \X (0..(ShIters - 1))) = ShTotal
    <2>1. IsFiniteSet(0..(ShIters - 1)) /\ Cardinality(0..(ShIters - 1)) = ShIters
      BY ShUpTo DEF ShAssumption
    <2>2. Cardinality(ShThread) \in Nat
      BY FS_CardinalityType DEF ShAssumption
    <2>3. Cardinality(ShThread \X (0..(ShIters - 1))) = Cardinality(ShThread) * ShIters
      BY <2>1, FS_Product DEF ShAssumption
    <2>4. Cardinality(ShThread) * ShIters \in Nat
      BY <2>2 DEF ShAssumption
    <2> QED
      BY <2>3, <2>4 DEF ShTotal
  <1>3. \A j : ShAdded(j) = ShThread \X (0..(ShIters - 1))
    BY <1>1 DEF ShAdded, ShAssumption
  <1>4. shPat # "cache" => \A j \in 1..Len(ShWords) : shCell[ShWords[j]] = ShTotal
    BY <1>0, <1>2, <1>3 DEF ShCountInv
  <1>5. shPat = "counter" => shCell["counter"] = ShTotal
    BY <1>4 DEF ShWords
  <1>6. shPat = "stats" => \A c \in {"in", "out", "count"} : shCell[c] = ShTotal
    <2> SUFFICES ASSUME shPat = "stats" PROVE \A c \in {"in", "out", "count"} : shCell[c] = ShTotal
      OBVIOUS
    <2>1. ShWords = <<"in", "out", "count">> /\ Len(ShWords) = 3
      BY DEF ShWords
    <2>2. shCell[ShWords[1]] = ShTotal /\ shCell[ShWords[2]] = ShTotal /\ shCell[ShWords[3]] = ShTotal
      BY <1>4, <2>1
    <2> QED
      BY <2>1, <2>2
  <1>7. shPat \in {"queue", "kv"} => shCell["head"] = ShTotal
    BY <1>4 DEF ShWords
  <1>8. shPat = "queue" => Cardinality({shRing[z] : z \in DOMAIN shRing} \ {ShNoPush})
                             = IF ShTotal < ShQN THEN ShTotal ELSE ShQN
    <2> SUFFICES ASSUME shPat = "queue"
                 PROVE  Cardinality({shRing[z] : z \in DOMAIN shRing} \ {ShNoPush})
                             = IF ShTotal < ShQN THEN ShTotal ELSE ShQN
      OBVIOUS
    <2> DEFINE n == IF ShTotal < ShQN THEN ShTotal ELSE ShQN
               S == {shRing[z] : z \in DOMAIN shRing} \ {ShNoPush}
               f == [z \in 0..(n - 1) |-> shRing[z]]
    <2>1. ShPushing = 0
      BY <1>1 DEF ShPushing
    <2>2. DOMAIN shRing = 0..(ShQN - 1) /\ ShQN \in Nat \ {0}
      BY <1>0 DEF ShTypeOK, ShAssumption
    <2>3. n \in Nat /\ 0..(n - 1) \subseteq 0..(ShQN - 1)
      BY <1>2, <2>2
    <2>4. \A z \in 0..(ShQN - 1) : shRing[z] # ShNoPush <=> z \in 0..(n - 1)
      <3>1. \A z \in 0..(ShQN - 1) : shRing[z] # ShNoPush <=> z < ShTotal
        BY <1>0, <1>2, <1>7, <2>1 DEF ShRingInv
      <3> QED
        BY <1>2, <2>2, <3>1
    <2> HIDE DEF n
    <2>5. f \in Bijection(0..(n - 1), S)
      <3>1. S = {shRing[z] : z \in 0..(n - 1)}
        BY <2>2, <2>3, <2>4
      <3>2. \A z, j \in 0..(n - 1) : shRing[z] = shRing[j] => z = j
        BY <1>0, <2>3, <2>4 DEF ShRingInv
      <3>3. f \in [0..(n - 1) -> S]
        BY <3>1
      <3>4. \A y \in S : \E z \in 0..(n - 1) : f[z] = y
        BY <3>1
      <3>5. \A z, j \in 0..(n - 1) : f[z] = f[j] => z = j
        BY <3>2
      <3> QED
        BY <3>3, <3>4, <3>5 DEF Bijection, Injection, Surjection, IsInjective
    <2>6. IsFiniteSet(0..(n - 1)) /\ Cardinality(0..(n - 1)) = n
      BY <2>3, ShUpTo
    <2>7. Cardinality(S) = n
      BY <2>5, <2>6, FS_Bijection DEF ExistsBijection
    <2> QED
      BY <2>7 DEF n
  <1>9. shPat = "queue" => shCell["head"] - shCell["tail"] <= ShQN
    <2>1. shCell["head"] \in Nat /\ shCell["tail"] \in Nat /\ ShQN \in Nat
      BY <1>0 DEF ShTypeOK, ShCells, ShAssumption
    <2>2. shPat = "queue" => shCell["head"] <= shCell["tail"] + ShQN
      BY <1>0, <1>1, <2>1 DEF ShTailInv
    <2> QED
      BY <2>1, <2>2
  <1>10. shPat = "cache" => shEnt.key = shEnt.val
    BY <1>0, <1>1 DEF ShEntInv
  <1> QED
    BY <1>5, <1>6, <1>7, <1>8, <1>9, <1>10 DEF ShNothingLost

LEMMA ShIndKvIntact ==
  ASSUME ShIndInv, ShAssumption
  PROVE  ShKvIntact
  <1> SUFFICES ASSUME shLocked, shPat = "kv" PROVE ShKvIntact
    BY DEF ShKvIntact
  <1>0. ShTypeOK /\ ShPlaceInv /\ ShMutexInv /\ ShListInv /\ ShHeldInv /\ ~shDouble
    BY DEF ShIndInv
  <1> DEFINE top == shCell["top"]
             listed == {shList[z] : z \in 0..(top - 1)}
  <1>1. top \in Nat /\ top <= ShNBLOCK /\ ShNBLOCK \in Nat
    BY <1>0 DEF ShTypeOK, ShCells, ShAssumption, ShListInv
  <1>2. Cardinality(listed) = top
    <2> DEFINE f == [z \in 0..(top - 1) |-> shList[z]]
    <2>1. \A z, j \in 0..(top - 1) : f[z] = f[j] => z = j
      BY <1>0 DEF ShListInv
    <2>2. f \in [0..(top - 1) -> listed] /\ \A y \in listed : \E z \in 0..(top - 1) : f[z] = y
      OBVIOUS
    <2>3. f \in Bijection(0..(top - 1), listed)
      BY <2>1, <2>2 DEF Bijection, Injection, Surjection, IsInjective
    <2>4. IsFiniteSet(0..(top - 1)) /\ Cardinality(0..(top - 1)) = top
      BY <1>1, ShUpTo
    <2> QED
      BY <2>3, <2>4, FS_Bijection DEF ExistsBijection
  <1>3. \A b \in 1..ShNBLOCK : ShListed(b) <=> b \in listed
    BY DEF ShListed
  <1>4. listed \subseteq 1..ShNBLOCK
    BY <1>0, <1>1 DEF ShTypeOK
  <1>5. (\A t \in ShThread : shT[t].at # "freed") => listed = {b \in 1..ShNBLOCK : shOwner[b] = ShNobody}
    <2>1. (\A t \in ShThread : shT[t].at # "freed") =>
             \A b \in 1..ShNBLOCK : shOwner[b] = ShNobody <=> b \in listed
      BY <1>0, <1>3 DEF ShListInv, ShFreeing
    <2> QED
      BY <1>4, <2>1
  <1>6. ASSUME shMtx = "free"
        PROVE  \A t \in ShThread : shT[t].at # "freed"
    BY <1>0, <1>6 DEF ShMutexInv, ShOutside, ShAssumption
  <1>7. \A t \in ShThread, k \in 1..ShBlocks :
           ShAt(t, "offload") /\ shT[t].mine[k] # 0 => shOwner[shT[t].mine[k]] = t
    <2> SUFFICES ASSUME NEW t \in ShThread, NEW k \in 1..ShBlocks, shT[t].at = "offload", shT[t].mine[k] # 0
                 PROVE  shOwner[shT[t].mine[k]] = t
      BY DEF ShAt
    <2>1. ShHas(t, k)
      BY DEF ShHas
    <2>2. shT[t].mine[k] \in 1..ShNBLOCK
      <3>1. shT[t] \in ShHandlers
        BY <1>0 DEF ShTypeOK
      <3>2. shT[t].mine[k] \in 0..ShNBLOCK
        BY <3>1 DEF ShHandlers
      <3>3. ShNBLOCK \in Nat
        BY ShAssumption DEF ShAssumption
      <3> QED
        BY <3>2, <3>3
    <2> QED
      BY <1>0, <2>1, <2>2 DEF ShHeldInv
  <1>8. ASSUME ShDone
        PROVE  top = ShNBLOCK
    <2>1. \A t \in ShThread : shT[t].at = "post"
      BY <1>0, <1>8 DEF ShDone, ShPlaceInv, ShAssumption
    <2>2. \A t \in ShThread, z \in 1..ShBlocks : ~ShHas(t, z)
      BY <2>1 DEF ShHas
    <2>3. \A b \in 1..ShNBLOCK : shOwner[b] = ShNobody
      BY <1>0, <2>2 DEF ShHeldInv, ShTypeOK
    <2>4. listed = 1..ShNBLOCK
      BY <1>5, <2>1, <2>3
    <2>5. Cardinality(1..ShNBLOCK) = ShNBLOCK
      BY <1>1, FS_Interval
    <2> QED
      BY <1>2, <2>4, <2>5
  <1> QED
    BY <1>0, <1>2, <1>5, <1>6, <1>7, <1>8 DEF ShKvIntact

\* The measured structures are sound under their mutex, in every state of every
\* pattern: at the end no update, push or block is lost or doubled, and between
\* the sections each block is listed once or owned by the handler that has it.
THEOREM ShCorrect == ShSpec => []ShLockedIntact
  <1>1. ShInit => ShIndInv
    BY ShInitInv, ShAssumption
  <1>2. ShIndInv /\ [ShNext]_shVars => ShIndInv'
    BY ShIndStep, ShAssumption
  <1>3. ShIndInv => ShLockedIntact
    BY ShIndNothingLost, ShIndKvIntact, ShAssumption DEF ShLockedIntact
  <1> QED
    BY <1>1, <1>2, <1>3, PTL DEF ShSpec

=============================================================================
