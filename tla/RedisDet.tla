------------------------------ MODULE RedisDet ------------------------------
(***************************************************************************)
(* apps/redis/detector_module.c: the command DET.RMW reads a counter,      *)
(* offloads, and writes the counter back in the reply callback, with the   *)
(* gates of the three modes and the page-protection detector of detector.c *)
(* over one page per counter.                                              *)
(*                                                                         *)
(* A key is its slot (slot_of).  The event loop runs one callback at a     *)
(* time; workers run the offload.  Every write to a counter follows a      *)
(* det_reprotect(), so it always faults when the detector is on.           *)
(***************************************************************************)
EXTENDS Naturals, Sequences, FiniteSets

CONSTANTS
    RdClient,        \* clients; at most PENDN of them, so that pend never wraps
    RdSlot,          \* slots of the arena
    RdWorkers,       \* size of the worker pool
    RdMaxRmw,        \* bound: DET.RMW commands over the run
    RdDropped,       \* bound: clients that may disconnect while blocked
    RdResetAnytime   \* DET.RESET may come while jobs are in flight

\* KSLOTS is a positive constant.
ASSUME RdAssumption ==
    /\ RdWorkers \in Nat \ {0} /\ RdResetAnytime \in BOOLEAN
    /\ IsFiniteSet(RdSlot) /\ RdSlot # {}

VARIABLES
    rdMode,     \* MODE
    rdJob,      \* job_t of each client: where it is, slot, v, df.park_clk
    rdGate,     \* inflight and pend of each gate
    rdQueue,    \* q from qt to qh
    rdReady,    \* clients unblocked and not yet replied to (kept by Redis)
    rdGone,     \* clients that disconnected while blocked
    rdCnt, rdTotal,   \* the arena, g_total
    rdDet,      \* pver, gclk, det_conflicts
    rdIssued    \* commands so far

rdVars == <<rdMode, rdJob, rdGate, rdQueue, rdReady, rdGone, rdCnt, rdTotal, rdDet, rdIssued>>

RdGates == {"all"} \cup RdSlot

RdInit ==
    /\ rdMode \in {"naive", "detect", "lock"}
    /\ rdJob = [c \in RdClient |-> [at |-> "idle", slot |-> CHOOSE s \in RdSlot : TRUE, v |-> 0, park |-> 0]]
    /\ rdGate = [g \in RdGates |-> [inflight |-> FALSE, pend |-> <<>>]]
    /\ rdQueue = <<>> /\ rdReady = <<>> /\ rdGone = {}
    /\ rdCnt = [s \in RdSlot |-> 0] /\ rdTotal = 0
    /\ rdDet = [pver |-> [s \in RdSlot |-> 0], gclk |-> 0, conflicts |-> 0]
    /\ rdIssued = 0

RdGateOf(s) == IF rdMode = "lock" THEN "all" ELSE s

-----------------------------------------------------------------------------
\* begin(): read the counter, snapshot the version clock, and (in the caller)
\* append to the workers' queue.
RdBegun(job, c, cnt, clk) ==
    [job EXCEPT ![c].at = "queued",
                ![c].v = cnt[job[c].slot],
                ![c].park = IF rdMode = "lock" THEN @ ELSE clk]

\* The fault handler of detector.c for a write of job c to its slot's page.
RdFault(c) ==
    LET s == rdJob[c].slot
    IN  IF rdMode = "lock" THEN rdDet
        ELSE [pver |-> [rdDet.pver EXCEPT ![s] = rdDet.gclk + 1],
              gclk |-> rdDet.gclk + 1,
              conflicts |-> rdDet.conflicts
                            + (IF rdDet.pver[s] > rdJob[c].park THEN 1 ELSE 0)]

\* Mutant: the gate is not looked at.
RdCmdUngated(c, s) ==
    /\ rdJob[c].at = "idle" /\ rdIssued < RdMaxRmw
    /\ rdIssued' = rdIssued + 1
    /\ rdJob' = RdBegun([rdJob EXCEPT ![c].slot = s], c, rdCnt, rdDet.gclk)
    /\ rdQueue' = Append(rdQueue, c)
    /\ UNCHANGED <<rdMode, rdGate, rdReady, rdGone, rdCnt, rdTotal, rdDet>>

\* cmd_rmw(): block the client; go, or queue behind the gate.
RdCmd(c, s) ==
    LET g == RdGateOf(s)
        new == [rdJob EXCEPT ![c].slot = s]
        go == rdMode = "naive" \/ ~rdGate[g].inflight
    IN  /\ rdJob[c].at = "idle" /\ rdIssued < RdMaxRmw
        /\ rdIssued' = rdIssued + 1
        /\ rdJob' = IF go THEN RdBegun(new, c, rdCnt, rdDet.gclk)
                          ELSE [new EXCEPT ![c].at = "pend"]
        /\ rdQueue' = IF go THEN Append(rdQueue, c) ELSE rdQueue
        /\ rdGate' = IF rdMode = "naive" THEN rdGate
                     ELSE IF go THEN [rdGate EXCEPT ![g].inflight = TRUE]
                     ELSE [rdGate EXCEPT ![g].pend = Append(@, c)]
        /\ UNCHANGED <<rdMode, rdReady, rdGone, rdCnt, rdTotal, rdDet>>

\* worker(): take a job off the queue, run the offload ...
RdTake ==
    /\ rdQueue # <<>>
    /\ Cardinality({c \in RdClient : rdJob[c].at = "offload"}) < RdWorkers
    /\ rdJob' = [rdJob EXCEPT ![Head(rdQueue)].at = "offload"]
    /\ rdQueue' = Tail(rdQueue)
    /\ UNCHANGED <<rdMode, rdGate, rdReady, rdGone, rdCnt, rdTotal, rdDet, rdIssued>>

\* ... and unblock the client.
RdUnblock(c) ==
    /\ rdJob[c].at = "offload"
    /\ rdJob' = [rdJob EXCEPT ![c].at = "ready"]
    /\ rdReady' = Append(rdReady, c)
    /\ UNCHANGED <<rdMode, rdGate, rdQueue, rdGone, rdCnt, rdTotal, rdDet, rdIssued>>

\* Mutant: the gate goes idle although jobs wait behind it.
RdReplyForgetsPend(c) ==
    LET s == rdJob[c].slot
        g == RdGateOf(s)
    IN  /\ rdReady # <<>> /\ c = Head(rdReady) /\ c \notin rdGone
        /\ rdCnt' = [rdCnt EXCEPT ![s] = rdJob[c].v + 1]
        /\ rdDet' = RdFault(c)
        /\ rdTotal' = rdTotal + 1 /\ rdReady' = Tail(rdReady)
        /\ rdJob' = [rdJob EXCEPT ![c].at = "idle"]
        /\ rdGate' = [rdGate EXCEPT ![g].inflight = FALSE]
        /\ UNCHANGED <<rdMode, rdQueue, rdGone, rdIssued>>

\* reply_cb(): write the counter, count, start the next job of the gate or
\* mark the gate idle.
RdReply(c) ==
    LET s == rdJob[c].slot
        g == RdGateOf(s)
        cnt == [rdCnt EXCEPT ![s] = rdJob[c].v + 1]
        det == RdFault(c)
        done == [rdJob EXCEPT ![c].at = "idle"]
        nx == Head(rdGate[g].pend)
        more == rdMode # "naive" /\ rdGate[g].pend # <<>>
    IN  /\ rdReady # <<>> /\ c = Head(rdReady) /\ c \notin rdGone
        /\ rdCnt' = cnt /\ rdDet' = det
        /\ rdTotal' = rdTotal + 1 /\ rdReady' = Tail(rdReady)
        /\ rdJob' = IF more THEN RdBegun(done, nx, cnt, det.gclk) ELSE done
        /\ rdQueue' = IF more THEN Append(rdQueue, nx) ELSE rdQueue
        /\ rdGate' = IF rdMode = "naive" THEN rdGate
                     ELSE IF more THEN [rdGate EXCEPT ![g].pend = Tail(@)]
                     ELSE [rdGate EXCEPT ![g].inflight = FALSE]
        /\ UNCHANGED <<rdMode, rdGone, rdIssued>>

\* A blocked client disconnects: the module registered no callback for that,
\* and Redis does not call reply_cb for a client that is gone.
RdDisconnect(c) ==
    /\ rdJob[c].at # "idle" /\ c \notin rdGone
    /\ Cardinality(rdGone) < RdDropped
    /\ rdGone' = rdGone \cup {c}
    /\ UNCHANGED <<rdMode, rdJob, rdGate, rdQueue, rdReady, rdCnt, rdTotal, rdDet, rdIssued>>

RdDiscard(c) ==
    /\ rdReady # <<>> /\ c = Head(rdReady) /\ c \in rdGone
    /\ rdReady' = Tail(rdReady)
    /\ rdJob' = [rdJob EXCEPT ![c].at = "dropped"]
    /\ UNCHANGED <<rdMode, rdGate, rdQueue, rdGone, rdCnt, rdTotal, rdDet, rdIssued>>

\* cmd_reset().
RdReset ==
    /\ RdResetAnytime \/ \A c \in RdClient : rdJob[c].at = "idle"
    /\ rdTotal > 0
    /\ rdCnt' = [s \in RdSlot |-> 0] /\ rdTotal' = 0
    /\ rdGate' = [g \in RdGates |-> [inflight |-> FALSE, pend |-> <<>>]]
    /\ rdDet' = [rdDet EXCEPT !.conflicts = 0]
    /\ UNCHANGED <<rdMode, rdJob, rdQueue, rdReady, rdGone, rdIssued>>

RdServe == RdTake \/ \E c \in RdClient : RdUnblock(c) \/ RdReply(c) \/ RdDiscard(c)

RdNext ==
    \/ \E c \in RdClient, s \in RdSlot : RdCmd(c, s)
    \/ RdServe
    \/ \E c \in RdClient : RdDisconnect(c)
    \/ RdReset

RdSpec == RdInit /\ [][RdNext]_rdVars

-----------------------------------------------------------------------------
\* The sum of f over the slots is the number of these units.
RdUnits(f) == UNION {{s} \X (1..f[s]) : s \in RdSlot}

\* cmd_stats(): the sum of the counters, to compare with g_total.
RdSum == Cardinality(RdUnits(rdCnt))

\* "detect ... -> 0 lost", "lock ... -> 0 lost": with the gates every
\* completed read-modify-write is in the counters.
RdNoLost == rdMode # "naive" => RdSum = rdTotal

\* The detector's count is neither blind nor alarmist: it is zero exactly when
\* no update is lost, whatever the interleaving.
RdLossIsCounted == rdDet.conflicts = 0 <=> RdSum = rdTotal

\* A blocked client is answered, unless a client of the same gate went away
\* while it was blocked.
RdAnswered ==
    \A c \in RdClient :
        []<>(\/ rdJob[c].at = "idle" \/ c \in rdGone
             \/ /\ rdMode # "naive"
                /\ \E d \in rdGone : RdGateOf(rdJob[d].slot) = RdGateOf(rdJob[c].slot))

\* What the module's counters claim: no update is lost with the gates, and
\* without them none unnoticed.
RdAccounts == RdNoLost /\ RdLossIsCounted
=============================================================================
