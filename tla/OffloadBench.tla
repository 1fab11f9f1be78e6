---------------------------- MODULE OffloadBench ----------------------------
(***************************************************************************)
(* The closed-loop benchmarks: runtime/accel_compare.c (busy, block and    *)
(* coro on an emulated device) and runtime/gpu_runtime.cu with its         *)
(* verifying copy gpu_runtime_verify.cu (busy and coro on CUDA streams).   *)
(* Each connection repeats preprocess, offload, postprocess until stop.    *)
(*                                                                         *)
(* submit() of accel_compare.c is three stores and the device thread's test *)
(* three loads, each a step of its own (x86 keeps the order of both; the   *)
(* file uses its pause instruction).  A slot's deadline is past or not.    *)
(***************************************************************************)
EXTENDS Naturals, FiniteSets

CONSTANTS
    ObC,         \* connections 1..C; busy uses one
    ObModes      \* modes the program may be started in

ASSUME ObAssumption == ObC \in Nat \ {0} /\ ObModes \subseteq {"busy", "block", "coro"}

VARIABLES
    obLib, obMode,
    obTask,      \* each connection: place in its body, waiting, finished
    obSlot,      \* slots: active, done, deadline past, eventfd count
    obBuf,       \* times the offload was done since the last preprocessing: the
                 \* encryptions of the GPU's host buffer, the completions of a slot
    obDev,       \* the slot that device_fn() looks at, and how far it is with it
    obStop, obReturned,
    obAt, obCur, obFin,   \* run_coro(): place in the pass, running fiber, fin
    obBad        \* connections that went on too soon, and in what respect

obVars == <<obLib, obMode, obTask, obSlot, obBuf, obDev, obStop, obReturned, obAt, obCur, obFin, obBad>>

ObConns == IF obMode = "busy" THEN {1} ELSE 1..ObC
ObGpu == obLib = "gpu_runtime"

ObInit ==
    /\ obLib \in {"accel_compare", "gpu_runtime"}
    /\ obMode \in ObModes \ (IF ObGpu THEN {"block"} ELSE {})
    /\ obTask = [i \in 1..ObC |-> [pc |-> "top", waiting |-> FALSE, finished |-> FALSE]]
    /\ obSlot = [i \in 1..ObC |-> [active |-> FALSE, done |-> FALSE, past |-> TRUE, efd |-> 0]]
    /\ obBuf = [i \in 1..ObC |-> 0]
    /\ obDev = [slot |-> 1, pc |-> "active"]
    /\ obStop = FALSE /\ obReturned = FALSE
    /\ obAt = 1 /\ obCur = 0 /\ obFin = 0 /\ obBad = {}

ObRuns(i) == i \in ObConns /\ ~obTask[i].finished /\ (obMode = "coro" => obCur = i)
ObGoto(i, l) == obTask' = [obTask EXCEPT ![i].pc = l]

-----------------------------------------------------------------------------
\* The loop head and the preprocessing (memset of the GPU's buffer).
ObTop(i) ==
    /\ ObRuns(i) /\ obTask[i].pc = "top"
    /\ IF obStop THEN obTask' = [obTask EXCEPT ![i].finished = TRUE] /\ obCur' = 0
                 ELSE ObGoto(i, "submit") /\ obCur' = obCur
    /\ obBuf' = [obBuf EXCEPT ![i] = 0]
    /\ UNCHANGED <<obLib, obMode, obSlot, obDev, obStop, obReturned, obAt, obFin, obBad>>

\* The last store of submit(); coro_offload() then switches to the scheduler.
ObPark(i) == obTask' = [obTask EXCEPT ![i].pc = "wait", ![i].waiting = obMode = "coro"] /\ obCur' = 0

\* Mutant: done is cleared after active is set.
ObSubmitDoneLast(i) ==
    /\ ObRuns(i) /\ ~ObGpu
    /\ \/ /\ obTask[i].pc = "submit" /\ ObGoto(i, "deadline")
          /\ obSlot' = [obSlot EXCEPT ![i].past = FALSE] /\ obCur' = obCur
       \/ /\ obTask[i].pc = "deadline" /\ ObGoto(i, "active")
          /\ obSlot' = [obSlot EXCEPT ![i].active = TRUE] /\ obCur' = obCur
       \/ /\ obTask[i].pc = "active" /\ ObPark(i)
          /\ obSlot' = [obSlot EXCEPT ![i].done = FALSE]
    /\ UNCHANGED <<obLib, obMode, obBuf, obDev, obStop, obReturned, obAt, obFin, obBad>>

\* submit(): done=0; deadline=now+L; active=1.
ObSubmit(i) ==
    /\ ObRuns(i) /\ ~ObGpu
    /\ \/ /\ obTask[i].pc = "submit" /\ ObGoto(i, "deadline")
          /\ obSlot' = [obSlot EXCEPT ![i].done = FALSE] /\ obCur' = obCur
       \/ /\ obTask[i].pc = "deadline" /\ ObGoto(i, "active")
          /\ obSlot' = [obSlot EXCEPT ![i].past = FALSE] /\ obCur' = obCur
       \/ /\ obTask[i].pc = "active" /\ ObPark(i)
          /\ obSlot' = [obSlot EXCEPT ![i].active = TRUE]
    /\ UNCHANGED <<obLib, obMode, obBuf, obDev, obStop, obReturned, obAt, obFin, obBad>>

\* submit_offload(): copies, kernel and event on the connection's stream.
ObLaunch(i) ==
    /\ ObRuns(i) /\ ObGpu /\ obTask[i].pc = "submit" /\ ObPark(i)
    /\ obSlot' = [obSlot EXCEPT ![i].active = TRUE, ![i].done = FALSE]
    /\ UNCHANGED <<obLib, obMode, obBuf, obDev, obStop, obReturned, obAt, obFin, obBad>>

\* What the connection waits for: done, its eventfd, the stream, or its turn.
ObAwaited(i) ==
    CASE obMode = "busy"  -> obSlot[i].done
      [] obMode = "block" -> obSlot[i].efd > 0
      [] obMode = "coro"  -> TRUE

\* Postprocess and record; the verifying copy compares the buffer.
ObPost(i) ==
    /\ ObRuns(i) /\ obTask[i].pc = "wait" /\ ObAwaited(i)
    /\ obSlot' = [obSlot EXCEPT ![i].efd = 0]
    /\ obBad' = obBad \cup (IF obBuf[i] = 1 THEN {} ELSE {<<i, "result">>})
                     \cup (IF obSlot[i].past THEN {} ELSE {<<i, "latency">>})
    /\ ObGoto(i, "top")
    /\ UNCHANGED <<obLib, obMode, obBuf, obDev, obStop, obReturned, obAt, obCur, obFin>>

-----------------------------------------------------------------------------
\* run_coro(), first loop: an offload that is over (done, or cudaEventQuery on
\* the GPU) makes its connection runnable and frees the slot.
ObScan ==
    LET over == obTask[obAt].waiting /\ obSlot[obAt].done
    IN  /\ obMode = "coro" /\ obAt \in 1..ObC /\ ~obReturned
        /\ obTask' = IF over THEN [obTask EXCEPT ![obAt].waiting = FALSE] ELSE obTask
        /\ obSlot' = IF over THEN [obSlot EXCEPT ![obAt].active = FALSE] ELSE obSlot
        /\ obAt' = obAt + 1 /\ obFin' = 0
        /\ UNCHANGED <<obLib, obMode, obBuf, obDev, obStop, obReturned, obCur, obBad>>

\* Second loop: count the connection, skip it, or switch to it.
ObVisit ==
    LET i == obAt - ObC
    IN  /\ obMode = "coro" /\ i \in 1..ObC /\ obCur = 0
        /\ obAt' = obAt + 1
        /\ obFin' = IF obTask[i].finished THEN obFin + 1 ELSE obFin
        /\ obCur' = IF obTask[i].finished \/ obTask[i].waiting THEN 0 ELSE i
        /\ UNCHANGED <<obLib, obMode, obTask, obSlot, obBuf, obDev, obStop, obReturned, obBad>>

\* The end of a pass: return when every connection was found finished.
ObPassEnd ==
    /\ obMode = "coro" /\ obAt = 2 * ObC + 1 /\ obCur = 0
    /\ obReturned' = (obFin = ObC) /\ obAt' = 1
    /\ UNCHANGED <<obLib, obMode, obTask, obSlot, obBuf, obDev, obStop, obCur, obFin, obBad>>

\* run_busy() and run_block() return when their loops have ended.
ObJoin ==
    /\ obMode # "coro" /\ ~obReturned /\ \A i \in ObConns : obTask[i].finished
    /\ obReturned' = TRUE
    /\ UNCHANGED <<obLib, obMode, obTask, obSlot, obBuf, obDev, obStop, obAt, obCur, obFin, obBad>>

-----------------------------------------------------------------------------
ObNextSlot == [slot |-> IF obDev.slot = ObC THEN 1 ELSE obDev.slot + 1, pc |-> "active"]

\* device_fn() loads active, done and deadline one after the other and goes to
\* the next slot when one of them says no.  t was taken at the start of the
\* pass, so that a deadline that is past now may still look ahead.
ObLook ==
    LET s == obSlot[obDev.slot]
    IN  /\ ~ObGpu
        /\ \/ obDev.pc = "active" /\ obDev' = IF s.active THEN [obDev EXCEPT !.pc = "done"] ELSE ObNextSlot
           \/ obDev.pc = "done" /\ obDev' = IF s.done THEN ObNextSlot ELSE [obDev EXCEPT !.pc = "deadline"]
           \/ obDev.pc = "deadline" /\ s.past /\ obDev' = [obDev EXCEPT !.pc = "finish"]
           \/ obDev.pc = "deadline" /\ obDev' = ObNextSlot
        /\ UNCHANGED <<obLib, obMode, obTask, obSlot, obBuf, obStop, obReturned, obAt, obCur, obFin, obBad>>

\* done=1, and in the mode block, whose slots have an eventfd, the write to it.
ObDevice ==
    LET i == obDev.slot
    IN  /\ ~ObGpu
        /\ \/ /\ obDev.pc = "finish"
              /\ obSlot' = [obSlot EXCEPT ![i].done = TRUE] /\ obBuf' = [obBuf EXCEPT ![i] = @ + 1]
              /\ obDev' = IF obMode = "block" THEN [obDev EXCEPT !.pc = "write"] ELSE ObNextSlot
           \/ /\ obDev.pc = "write"
              /\ obSlot' = [obSlot EXCEPT ![i].efd = @ + 1] /\ obBuf' = obBuf
              /\ obDev' = ObNextSlot
        /\ UNCHANGED <<obLib, obMode, obTask, obStop, obReturned, obAt, obCur, obFin, obBad>>

\* L nanoseconds are over.
ObLatency(i) ==
    /\ ~obSlot[i].past
    /\ obSlot' = [obSlot EXCEPT ![i].past = TRUE]
    /\ UNCHANGED <<obLib, obMode, obTask, obBuf, obDev, obStop, obReturned, obAt, obCur, obFin, obBad>>

\* The stream runs what submit_offload() queued, in order.
ObStream(i) ==
    /\ ObGpu /\ obSlot[i].active /\ ~obSlot[i].done
    /\ obBuf' = [obBuf EXCEPT ![i] = @ + 1]
    /\ obSlot' = [obSlot EXCEPT ![i].done = TRUE]
    /\ UNCHANGED <<obLib, obMode, obTask, obDev, obStop, obReturned, obAt, obCur, obFin, obBad>>

\* timer_fn().
ObTimer ==
    /\ ~obStop /\ obStop' = TRUE
    /\ UNCHANGED <<obLib, obMode, obTask, obSlot, obBuf, obDev, obReturned, obAt, obCur, obFin, obBad>>

ObBody(i) == ObTop(i) \/ ObSubmit(i) \/ ObLaunch(i) \/ ObPost(i)
ObSched == ObScan \/ ObVisit \/ ObPassEnd \/ ObJoin \/ (obCur # 0 /\ ObBody(obCur))
ObUnit(i) == ObLatency(i) \/ ObStream(i)

ObNext == ObSched \/ ObTimer \/ ObLook \/ ObDevice
          \/ \E i \in 1..ObC : (obMode # "coro" /\ ObBody(i)) \/ ObUnit(i)

ObSpec == ObInit /\ [][ObNext]_obVars

-----------------------------------------------------------------------------
\* MISMATCHES=0, and its counterpart on the emulated device: when a connection
\* goes on, in every mode, its offload has been done exactly once since it was
\* prepared.  No look at a slot that began for the last request marks the next
\* one done twice, and no write to an eventfd is left over for it.
ObResultReady == \A b \in obBad : b[2] # "result"

\* "offload(L ns on device)": no connection goes on before its latency is over.
ObLatencyKept == \A b \in obBad : b[2] # "latency"
=============================================================================
