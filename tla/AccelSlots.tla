----------------------------- MODULE AccelSlots -----------------------------
(***************************************************************************)
(* The three accelerator libraries with local slots: libaccel.c (a device  *)
(* thread), libaccel_gpu.cu (AES on CUDA streams) and libaccel_gpu_heavy.cu*)
(* (GEMM on CUDA streams).  A request takes the next id; its slot is the   *)
(* id modulo NSLOT.  Callers submit a batch and collect it in order, as    *)
(* accel_ext.c does; a batch of one is accel_encrypt().                    *)
(*                                                                         *)
(* Device latency is arbitrary.  A caller is assumed to collect an id      *)
(* before NSLOT later ones are taken: the libraries do not check it.       *)
(***************************************************************************)
EXTENDS Naturals, Sequences, FiniteSets

CONSTANTS
    AsThread,   \* calling threads
    AsNSLOT,    \* NSLOT
    AsBatch,    \* bound: requests a caller has in flight
    AsMaxId     \* bound: requests over the run

ASSUME AsAssumption == AsNSLOT \in Nat \ {0} /\ AsBatch \in Nat \ {0} /\ AsMaxId \in Nat

VARIABLES
    asLib,       \* which library
    asStarted, asDevices,   \* dev_started (started); device threads created
    asMx,        \* holder of startmx (mx)
    asHead,      \* sub_head
    asSlot,      \* slots
    asPc, asIds, \* each caller: where it is, ids to collect
    asDev,       \* the slot each device thread is working on
    asEnc        \* how often the buffer of each request was transformed

asVars == <<asLib, asStarted, asDevices, asMx, asHead, asSlot, asPc, asIds, asDev, asEnc>>

AsSlots == 0..(AsNSLOT - 1)
AsIds == 0..(AsMaxId - 1)
AsGpu == asLib # "emu"

AsInit ==
    /\ asLib \in {"emu", "gpu", "heavy"}
    /\ asStarted = FALSE /\ asDevices = {} /\ asMx = "free" /\ asHead = 0
    /\ asSlot = [i \in AsSlots |-> [id |-> 0, busy |-> FALSE, done |-> FALSE, inited |-> 0]]
    /\ asPc = [t \in AsThread |-> "ensure"]
    /\ asIds = [t \in AsThread |-> <<>>]
    /\ asDev = [d \in AsThread |-> AsNSLOT]
    /\ asEnc = [k \in AsIds |-> 0]

AsGoto(t, l) == asPc' = [asPc EXCEPT ![t] = l]
AsMine(t) == asIds[t][Len(asIds[t])]
AsSlotOf(id) == id % AsNSLOT

-----------------------------------------------------------------------------
\* ensure_dev() and the two ensure(): a look without the lock ...
AsEnsure(t) ==
    /\ asPc[t] = "ensure"
    /\ AsGoto(t, IF asStarted THEN "take" ELSE "lock")
    /\ UNCHANGED <<asLib, asStarted, asDevices, asMx, asHead, asSlot, asIds, asDev, asEnc>>

AsLock(t) ==
    /\ asPc[t] \in {"lock", "initlock"} /\ asMx = "free"
    /\ asMx' = t
    /\ AsGoto(t, IF asPc[t] = "lock" THEN "start" ELSE "init")
    /\ UNCHANGED <<asLib, asStarted, asDevices, asHead, asSlot, asIds, asDev, asEnc>>

\* Mutant: no second look under the lock.
AsStartUnchecked(t) ==
    /\ asPc[t] = "start" /\ ~AsGpu
    /\ asDevices' = asDevices \cup {t}
    /\ asStarted' = TRUE /\ asMx' = "free" /\ AsGoto(t, "take")
    /\ UNCHANGED <<asLib, asHead, asSlot, asIds, asDev, asEnc>>

\* ... and, under it, one more look: libaccel starts its device thread.
AsStart(t) ==
    /\ asPc[t] = "start" /\ ~AsGpu
    /\ asDevices' = IF asStarted THEN asDevices ELSE asDevices \cup {t}
    /\ asStarted' = TRUE /\ asMx' = "free" /\ AsGoto(t, "take")
    /\ UNCHANGED <<asLib, asHead, asSlot, asIds, asDev, asEnc>>

\* The GPU libraries read their sizes; AES also uploads its key schedule.
AsStartGpu(t) ==
    /\ asPc[t] = "start" /\ AsGpu
    /\ asStarted' = TRUE /\ asMx' = "free" /\ AsGoto(t, "take")
    /\ UNCHANGED <<asLib, asDevices, asHead, asSlot, asIds, asDev, asEnc>>

\* accel_submit() takes an id: atomic fetch and add.
AsTake(t) ==
    /\ asPc[t] = "take" /\ asHead < AsMaxId
    /\ \A u \in AsThread : \A k \in 1..Len(asIds[u]) : asHead - asIds[u][k] < AsNSLOT
    /\ asIds' = [asIds EXCEPT ![t] = Append(@, asHead)]
    /\ asHead' = asHead + 1
    /\ AsGoto(t, IF AsGpu THEN "inited?" ELSE "fill")
    /\ UNCHANGED <<asLib, asStarted, asDevices, asMx, asSlot, asDev, asEnc>>

\* libaccel_gpu: create the slot's stream, event and buffers once, under mx.
AsInited(t) ==
    /\ asPc[t] = "inited?"
    /\ AsGoto(t, IF asSlot[AsSlotOf(AsMine(t))].inited > 0 THEN "fill"
                 ELSE IF asLib = "gpu" THEN "initlock" ELSE "init")
    /\ UNCHANGED <<asLib, asStarted, asDevices, asMx, asHead, asSlot, asIds, asDev, asEnc>>

AsInitSlot(t) ==
    /\ asPc[t] = "init" /\ asLib = "gpu"
    /\ asSlot' = [asSlot EXCEPT ![AsSlotOf(AsMine(t))].inited = IF @ = 0 THEN 1 ELSE @]
    /\ asMx' = "free" /\ AsGoto(t, "fill")
    /\ UNCHANGED <<asLib, asStarted, asDevices, asHead, asIds, asDev, asEnc>>

\* libaccel_gpu_heavy: init_slot() without a lock.
AsInitSlotHeavy(t) ==
    /\ asPc[t] = "init" /\ asLib = "heavy"
    /\ asSlot' = [asSlot EXCEPT ![AsSlotOf(AsMine(t))].inited = @ + 1]
    /\ AsGoto(t, "fill")
    /\ UNCHANGED <<asLib, asStarted, asDevices, asMx, asHead, asIds, asDev, asEnc>>

\* Fill in the slot (libaccel: buf, n, done, deadline; GPU: copy the input) ...
AsFill(t) ==
    /\ asPc[t] = "fill"
    /\ asSlot' = [asSlot EXCEPT ![AsSlotOf(AsMine(t))].id = AsMine(t),
                                ![AsSlotOf(AsMine(t))].done = FALSE]
    /\ AsGoto(t, "arm")
    /\ UNCHANGED <<asLib, asStarted, asDevices, asMx, asHead, asIds, asDev, asEnc>>

\* ... and only then hand it to the device: busy, or the launch on the stream.
AsArm(t) ==
    /\ asPc[t] = "arm"
    /\ asSlot' = [asSlot EXCEPT ![AsSlotOf(AsMine(t))].busy = TRUE]
    /\ AsGoto(t, "submitted")
    /\ UNCHANGED <<asLib, asStarted, asDevices, asMx, asHead, asIds, asDev, asEnc>>

\* The caller submits another one of its batch, or collects the oldest:
\* accel_done() and accel_release(); the GPU's release does nothing.
AsMore(t) ==
    /\ asPc[t] = "submitted" /\ Len(asIds[t]) < AsBatch
    /\ AsGoto(t, "ensure")
    /\ UNCHANGED <<asLib, asStarted, asDevices, asMx, asHead, asSlot, asIds, asDev, asEnc>>

AsCollect(t) ==
    LET i == AsSlotOf(Head(asIds[t]))
    IN  /\ asPc[t] = "submitted" /\ asSlot[i].done
        /\ asSlot' = [asSlot EXCEPT ![i].busy = IF AsGpu THEN @ ELSE FALSE]
        /\ asIds' = [asIds EXCEPT ![t] = Tail(@)]
        /\ AsGoto(t, IF Len(asIds[t]) = 1 THEN "ensure" ELSE "submitted")
        /\ UNCHANGED <<asLib, asStarted, asDevices, asMx, asHead, asDev, asEnc>>

-----------------------------------------------------------------------------
\* device(): sees a busy slot that is not done, transforms the buffer, and
\* only then says done.  The latency is arbitrary, so its loads of busy and done
\* are one step: done=0 is read only after buf and n are stored, and no one
\* else sets it.
AsScan(d, i) ==
    /\ d \in asDevices /\ asDev[d] = AsNSLOT
    /\ asSlot[i].busy /\ ~asSlot[i].done
    /\ asDev' = [asDev EXCEPT ![d] = i]
    /\ asEnc' = [asEnc EXCEPT ![asSlot[i].id] = @ + 1]
    /\ UNCHANGED <<asLib, asStarted, asDevices, asMx, asHead, asSlot, asPc, asIds>>

AsDone(d) ==
    /\ asDev[d] # AsNSLOT
    /\ asSlot' = [asSlot EXCEPT ![asDev[d]].done = TRUE]
    /\ asDev' = [asDev EXCEPT ![d] = AsNSLOT]
    /\ UNCHANGED <<asLib, asStarted, asDevices, asMx, asHead, asPc, asIds, asEnc>>

\* The stream of a slot runs its copies and kernel, then fires the event.
AsStream(i) ==
    /\ AsGpu /\ asSlot[i].busy
    /\ asEnc' = [asEnc EXCEPT ![asSlot[i].id] = @ + 1]
    /\ asSlot' = [asSlot EXCEPT ![i].busy = FALSE, ![i].done = TRUE]
    /\ UNCHANGED <<asLib, asStarted, asDevices, asMx, asHead, asPc, asIds, asDev>>

AsNext ==
    \/ \E t \in AsThread :
          \/ AsEnsure(t) \/ AsLock(t) \/ AsStart(t) \/ AsStartGpu(t) \/ AsTake(t)
          \/ AsInited(t) \/ AsInitSlot(t) \/ AsInitSlotHeavy(t) \/ AsFill(t) \/ AsArm(t)
          \/ AsMore(t) \/ AsCollect(t)
    \/ \E d \in AsThread : AsDone(d) \/ \E i \in AsSlots : AsScan(d, i)
    \/ \E i \in AsSlots : AsStream(i)

AsSpec == AsInit /\ [][AsNext]_asVars

-----------------------------------------------------------------------------
\* A request is transformed once: never before it is submitted, exactly once
\* when the caller has it back, and by no device after that; a slot's stream
\* and buffers are created once.
AsOnceEach ==
    LET pending == UNION {{asIds[t][k] : k \in 1..Len(asIds[t])} : t \in AsThread}
    IN  /\ \A k \in AsIds : IF k >= asHead THEN asEnc[k] = 0
                            ELSE IF k \in pending THEN asEnc[k] <= 1 ELSE asEnc[k] = 1
        /\ \A i \in AsSlots : asSlot[i].inited <= 1

\* The device works only on buffers whose caller still waits for them: done is
\* never left over from an earlier request of the slot.
AsDeviceOwns ==
    \A i \in AsSlots :
        asSlot[i].busy /\ (AsGpu \/ ~asSlot[i].done)
            => \E t \in AsThread : \E k \in 1..Len(asIds[t]) : asIds[t][k] = asSlot[i].id

\* A slot serves one request at a time, and serves it once.
AsExclusive == AsOnceEach /\ AsDeviceOwns
=============================================================================
