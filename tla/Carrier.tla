------------------------------- MODULE Carrier -------------------------------
(***************************************************************************)
(* The carrier of transparent-runtime/libtransparent.c: one OS thread that *)
(* runs every connection handler as a fiber.  A handler enters the runtime *)
(* through the interposed calls (read, write, poll, accel_encrypt, return);*)
(* the peers of the sockets, the clock, the accelerator and the accepting  *)
(* thread run concurrently with the carrier.                               *)
(*                                                                         *)
(* The carrier is the only thread that touches fiber states, so each scan  *)
(* of its loop is one action; the other threads interleave between them.   *)
(* Locks and condition variables are in FiberSync, the handler lock and    *)
(* the conflict detector in HandlerLock.                                   *)
(***************************************************************************)
EXTENDS Integers, Sequences, FiniteSets

CONSTANTS
    N,          \* number of connections accepted over the run (a bound)
    MAXFIB,     \* capacity of newq and fibs
    MAXEV,      \* capacity of the event array given to epoll_wait
    Fd,         \* socket descriptors; a closed one is reused
    None,       \* no descriptor
    Event,      \* the readiness events handlers wait for, of "in" and "out"
    Exclusive   \* each fiber uses the socket of its own connection only

ASSUME BoundsAssumption ==
    /\ N \in Nat
    /\ MAXFIB \in Nat
    /\ MAXEV \in Nat \ {0}

ASSUME FdAssumption ==
    /\ None \notin Fd
    /\ "in" \in Event /\ Event \subseteq {"in", "out"}
    /\ Exclusive \in BOOLEAN

\* Fibers are numbered in the order in which pthread_create() makes them.
Fiber == 1..N
NoFib == 0

VARIABLES
    created,        \* fibers made so far
    newq,           \* made, not yet taken in by the carrier
    fibs,           \* the carrier's slot table; a freed slot holds NoFib
    state,          \* struct fiber: F_NEW, F_RUN, F_WAIT_IO, F_WAIT_OFF, F_FREE
    fd,             \* struct fiber: the descriptor it is parked on
    ev,             \* the events it is parked for
    has_deadline,   \* struct fiber
    timed_out,      \* struct fiber
    call,           \* the interposed call the fiber is inside of
    res,            \* what its last poll() returned
    conn,           \* the socket the fiber's handler serves
    reg,            \* armed epoll registrations: data.ptr of each descriptor
    avail,          \* kernel: readiness of each descriptor
    expired,        \* fibers whose deadline has passed
    dev,            \* accelerator: state of the fiber's request
    pc,             \* where the carrier is in its loop
    idx,            \* slot of the run pass
    cur             \* cur_fib

fiberVars == <<state, fd, ev, has_deadline, timed_out, call, res>>
envVars == <<conn, avail, expired, dev>>
loopVars == <<pc, idx, cur>>
vars == <<created, newq, fibs, fiberVars, reg, envVars, loopVars>>

TypeOK ==
    /\ created \in 0..N
    /\ newq \in Seq(Fiber)
    /\ fibs \in Seq(Fiber \cup {NoFib})
    /\ Len(fibs) <= MAXFIB
    /\ state \in [Fiber -> {"NONE", "NEW", "RUN", "WAIT_IO", "WAIT_OFF", "FREE"}]
    /\ fd \in [Fiber -> Fd \cup {None}]
    /\ ev \in [Fiber -> Event]
    /\ has_deadline \in [Fiber -> BOOLEAN]
    /\ timed_out \in [Fiber -> BOOLEAN]
    /\ call \in [Fiber -> {"none", "io", "poll", "off"}]
    /\ res \in [Fiber -> {"none", "ready", "timeout"}]
    /\ conn \in [Fiber -> Fd \cup {None}]
    /\ reg \in [Fd -> Fiber \cup {NoFib}]
    /\ avail \in [Fd -> SUBSET Event]
    /\ expired \subseteq Fiber
    /\ dev \in [Fiber -> {"idle", "busy", "done"}]
    /\ pc \in {"intake", "epoll", "offload", "deadline", "run"}
    /\ idx \in 1..(Len(fibs) + 1)
    /\ cur \in Fiber \cup {NoFib}

Init ==
    /\ created = 0
    /\ newq = <<>>
    /\ fibs = <<>>
    /\ state = [f \in Fiber |-> "NONE"]
    /\ fd = [f \in Fiber |-> None]
    /\ ev = [f \in Fiber |-> "in"]
    /\ has_deadline = [f \in Fiber |-> FALSE]
    /\ timed_out = [f \in Fiber |-> FALSE]
    /\ call = [f \in Fiber |-> "none"]
    /\ res = [f \in Fiber |-> "none"]
    /\ conn = [f \in Fiber |-> None]
    /\ reg = [d \in Fd |-> NoFib]
    /\ avail = [d \in Fd |-> {}]
    /\ expired = {}
    /\ dev = [f \in Fiber |-> "idle"]
    /\ pc = "intake"
    /\ idx = 1
    /\ cur = NoFib

-----------------------------------------------------------------------------
(***************************************************************************)
(* The accepting thread.                                                   *)
(***************************************************************************)

\* accept() has returned descriptor d (so g_serving is set) and the server
\* calls pthread_create(), which queues a fiber if newq has room.
Create(d) ==
    /\ created < N
    /\ \A f \in Fiber : conn[f] # d
    /\ created' = created + 1
    /\ newq' = IF Len(newq) < MAXFIB THEN Append(newq, created + 1) ELSE newq
    /\ state' = [state EXCEPT ![created + 1] = "NEW"]
    /\ conn' = [conn EXCEPT ![created + 1] = d]
    /\ avail' = [avail EXCEPT ![d] = {}]
    /\ UNCHANGED <<fibs, fd, ev, has_deadline, timed_out, call, res, reg,
                   expired, dev, loopVars>>

(***************************************************************************)
(* The carrier loop.                                                       *)
(***************************************************************************)

\* Mutant: only the first queued fiber is taken in before newn is reset.
IntakeFirstOnly ==
    /\ pc = "intake"
    /\ fibs' = IF newq = <<>> THEN fibs ELSE Append(fibs, Head(newq))
    /\ newq' = <<>>
    /\ pc' = "epoll"
    /\ UNCHANGED <<created, fiberVars, reg, envVars, idx, cur>>

Intake ==
    /\ pc = "intake"
    /\ fibs' = fibs \o newq
    /\ newq' = <<>>
    /\ pc' = "epoll"
    /\ UNCHANGED <<created, fiberVars, reg, envVars, idx, cur>>

\* The descriptors whose armed registration has a pending event.
Ready == {d \in Fd : reg[d] # NoFib /\ ev[reg[d]] \in avail[d]}

\* Registrations are one-shot: what epoll_wait() returns is disarmed.
Disarm(D) == [d \in Fd |-> IF d \in D THEN NoFib ELSE reg[d]]

\* epoll_wait(epfd, evs, 256, 0) and the loop over the events.
EpollWait ==
    /\ pc = "epoll"
    /\ \E D \in SUBSET Ready :
         /\ D = Ready \/ Cardinality(D) = MAXEV
         /\ Cardinality(D) <= MAXEV
         /\ state' = [f \in Fiber |->
                IF (\E d \in D : reg[d] = f) /\ state[f] = "WAIT_IO"
                THEN "RUN" ELSE state[f]]
         /\ reg' = Disarm(D)
    /\ pc' = "offload"
    /\ UNCHANGED <<created, newq, fibs, fd, ev, has_deadline, timed_out, call,
                   res, envVars, idx, cur>>

\* Fibers present in the slot table.
InTable(f) == \E i \in 1..Len(fibs) : fibs[i] = f

\* Mutant: every parked offload is released at the first scan.
CompleteScanNoCheck ==
    /\ pc = "offload"
    /\ LET C == {f \in Fiber : InTable(f) /\ state[f] = "WAIT_OFF"}
       IN  state' = [f \in Fiber |-> IF f \in C THEN "RUN" ELSE state[f]]
    /\ pc' = "deadline"
    /\ UNCHANGED <<created, newq, fibs, fd, ev, has_deadline, timed_out, call,
                   res, reg, envVars, idx, cur>>

\* Mutant: the scan looks at the first entry of the table only.
CompleteScanFirst ==
    /\ pc = "offload"
    /\ LET C == {f \in Fiber : Len(fibs) > 0 /\ fibs[1] = f /\ state[f] = "WAIT_OFF" /\ dev[f] = "done"}
       IN  /\ state' = [f \in Fiber |-> IF f \in C THEN "RUN" ELSE state[f]]
           /\ dev' = [f \in Fiber |-> IF f \in C THEN "idle" ELSE dev[f]]
    /\ pc' = "deadline"
    /\ UNCHANGED <<created, newq, fibs, fd, ev, has_deadline, timed_out, call,
                   res, reg, conn, avail, expired, idx, cur>>

\* The scan over accel_done(), with accel_release() of what is done.
CompleteScan ==
    /\ pc = "offload"
    /\ LET C == {f \in Fiber : InTable(f) /\ state[f] = "WAIT_OFF" /\ dev[f] = "done"}
       IN  /\ state' = [f \in Fiber |-> IF f \in C THEN "RUN" ELSE state[f]]
           /\ dev' = [f \in Fiber |-> IF f \in C THEN "idle" ELSE dev[f]]
    /\ pc' = "deadline"
    /\ UNCHANGED <<created, newq, fibs, fd, ev, has_deadline, timed_out, call,
                   res, reg, conn, avail, expired, idx, cur>>

\* The parked fibers whose deadline has passed.
Late == {f \in Fiber : InTable(f) /\ state[f] = "WAIT_IO" /\ has_deadline[f]
                       /\ f \in expired}

\* Mutant: the registration of a timed-out poll stays armed.
DeadlineScanNoDel ==
    /\ pc = "deadline"
    /\ timed_out' = [f \in Fiber |-> timed_out[f] \/ f \in Late]
    /\ state' = [f \in Fiber |-> IF f \in Late THEN "RUN" ELSE state[f]]
    /\ pc' = "run"
    /\ idx' = 1
    /\ UNCHANGED <<created, newq, fibs, fd, ev, has_deadline, call, res, reg,
                   envVars, cur>>

\* The deadline scan; EPOLL_CTL_DEL of a descriptor drops its registration.
DeadlineScan ==
    /\ pc = "deadline"
    /\ reg' = Disarm({fd[f] : f \in Late})
    /\ timed_out' = [f \in Fiber |-> timed_out[f] \/ f \in Late]
    /\ state' = [f \in Fiber |-> IF f \in Late THEN "RUN" ELSE state[f]]
    /\ pc' = "run"
    /\ idx' = 1
    /\ UNCHANGED <<created, newq, fibs, fd, ev, has_deadline, call, res,
                   envVars, cur>>

Runnable(f) == f # NoFib /\ state[f] \in {"NEW", "RUN"}

\* The run pass switches to the next runnable fiber of the table ...
Dispatch ==
    /\ pc = "run" /\ cur = NoFib
    /\ idx <= Len(fibs) /\ Runnable(fibs[idx])
    /\ cur' = fibs[idx]
    /\ UNCHANGED <<created, newq, fibs, fiberVars, reg, envVars, pc, idx>>

\* ... skips a slot that is free or whose fiber is parked ...
Skip ==
    /\ pc = "run" /\ cur = NoFib
    /\ idx <= Len(fibs) /\ ~Runnable(fibs[idx])
    /\ idx' = idx + 1
    /\ UNCHANGED <<created, newq, fibs, fiberVars, reg, envVars, pc, cur>>

\* ... and goes back to the top of the loop after the last slot.
EndPass ==
    /\ pc = "run" /\ cur = NoFib
    /\ idx > Len(fibs)
    /\ pc' = "intake"
    /\ idx' = 1
    /\ UNCHANGED <<created, newq, fibs, fiberVars, reg, envVars, cur>>

-----------------------------------------------------------------------------
(***************************************************************************)
(* The running fiber: the calls of its handler and their resumption.       *)
(***************************************************************************)

InHandler(f) == cur = f /\ call[f] = "none"

Usable(f) == IF Exclusive THEN {conn[f]} ELSE Fd

\* fw_fiber_switch(&f->fb, &sched_fb): the run pass moves to the next slot.
SwitchOut == cur' = NoFib /\ idx' = idx + 1 /\ pc' = pc

\* A transfer leaves the descriptor ready or drains it.
Transfer(d, e) == avail' \in {avail, [avail EXCEPT ![d] = @ \ {e}]}

\* EPOLL_CTL_MOD, or EPOLL_CTL_ADD if the descriptor is not registered: either
\* way the descriptor now reports to f, whoever it reported to before.
Arm(f, d) == reg' = [reg EXCEPT ![d] = f]

\* Mutant: yield_io() parks the fiber but leaves a spent registration alone.
YieldIoAddOnly(f, d, e) ==
    /\ reg' = IF fd[f] = d THEN reg ELSE [reg EXCEPT ![d] = f]
    /\ fd' = [fd EXCEPT ![f] = d]
    /\ ev' = [ev EXCEPT ![f] = e]
    /\ state' = [state EXCEPT ![f] = "WAIT_IO"]
    /\ SwitchOut

\* The parking half of yield_io() and yield_io_to().
YieldIo(f, d, e) ==
    /\ Arm(f, d)
    /\ fd' = [fd EXCEPT ![f] = d]
    /\ ev' = [ev EXCEPT ![f] = e]
    /\ state' = [state EXCEPT ![f] = "WAIT_IO"]
    /\ SwitchOut

\* read(), recv(), recvfrom() with e = "in"; write(), send(), sendto() with
\* e = "out": the transfer succeeds at once ...
IoNow(f, d, e) ==
    /\ InHandler(f)
    /\ d \in Usable(f)
    /\ e \in avail[d]
    /\ Transfer(d, e)
    /\ UNCHANGED <<created, newq, fibs, fiberVars, reg, conn, expired, dev, loopVars>>

\* ... or it would block: EAGAIN parks the fiber inside the call.
IoPark(f, d, e) ==
    /\ InHandler(f)
    /\ d \in Usable(f)
    /\ e \notin avail[d]
    /\ YieldIo(f, d, e)
    /\ has_deadline' = [has_deadline EXCEPT ![f] = FALSE]
    /\ call' = [call EXCEPT ![f] = "io"]
    /\ UNCHANGED <<created, newq, fibs, timed_out, res, envVars>>

\* Resumed inside the call the fiber tries again: done, or parked once more.
IoReturn(f) ==
    /\ cur = f /\ call[f] = "io"
    /\ ev[f] \in avail[fd[f]]
    /\ Transfer(fd[f], ev[f])
    /\ call' = [call EXCEPT ![f] = "none"]
    /\ UNCHANGED <<created, newq, fibs, state, fd, ev, has_deadline, timed_out,
                   res, reg, conn, expired, dev, loopVars>>

IoRetry(f) ==
    /\ cur = f /\ call[f] = "io"
    /\ ev[f] \notin avail[fd[f]]
    /\ YieldIo(f, fd[f], ev[f])
    /\ UNCHANGED <<created, newq, fibs, has_deadline, timed_out, call, res, envVars>>

\* poll() of one descriptor; b says whether the timeout is finite.  It parks
\* without looking whether the descriptor is ready already.
PollPark(f, d, e, b) ==
    /\ InHandler(f)
    /\ d \in Usable(f)
    /\ YieldIo(f, d, e)
    /\ has_deadline' = [has_deadline EXCEPT ![f] = b]
    /\ timed_out' = [timed_out EXCEPT ![f] = IF b THEN FALSE ELSE @]
    /\ call' = [call EXCEPT ![f] = "poll"]
    /\ UNCHANGED <<created, newq, fibs, res, envVars>>

\* Mutant: an untimed poll() also reports the timed_out flag.
PollReturnStale(f) ==
    /\ cur = f /\ call[f] = "poll"
    /\ res' = [res EXCEPT ![f] = IF timed_out[f] THEN "timeout" ELSE "ready"]
    /\ has_deadline' = [has_deadline EXCEPT ![f] = FALSE]
    /\ expired' = expired \ {f}
    /\ call' = [call EXCEPT ![f] = "none"]
    /\ UNCHANGED <<created, newq, fibs, state, fd, ev, timed_out, reg, conn,
                   avail, dev, loopVars>>

\* A poll() with an infinite timeout went through yield_io() and returns 1
\* whatever timed_out holds from an earlier call.
PollReturn(f) ==
    /\ cur = f /\ call[f] = "poll"
    /\ res' = [res EXCEPT ![f] =
                 IF has_deadline[f] /\ timed_out[f] THEN "timeout" ELSE "ready"]
    /\ has_deadline' = [has_deadline EXCEPT ![f] = FALSE]
    /\ expired' = expired \ {f}
    /\ call' = [call EXCEPT ![f] = "none"]
    /\ UNCHANGED <<created, newq, fibs, state, fd, ev, timed_out, reg, conn,
                   avail, dev, loopVars>>

\* accel_encrypt(): accel_submit() and yield_off().
Offload(f) ==
    /\ InHandler(f)
    /\ dev' = [dev EXCEPT ![f] = "busy"]
    /\ state' = [state EXCEPT ![f] = "WAIT_OFF"]
    /\ call' = [call EXCEPT ![f] = "off"]
    /\ SwitchOut
    /\ UNCHANGED <<created, newq, fibs, fd, ev, has_deadline, timed_out, res,
                   reg, conn, avail, expired>>

OffReturn(f) ==
    /\ cur = f /\ call[f] = "off"
    /\ call' = [call EXCEPT ![f] = "none"]
    /\ UNCHANGED <<created, newq, fibs, state, fd, ev, has_deadline, timed_out,
                   res, reg, envVars, loopVars>>

\* Mutant: the table is compacted in the middle of the run pass.
FinishCompacts(f) ==
    /\ InHandler(f)
    /\ reg' = [reg EXCEPT ![conn[f]] = NoFib]
    /\ conn' = [conn EXCEPT ![f] = None]
    /\ state' = [state EXCEPT ![f] = "FREE"]
    /\ fibs' = SubSeq(fibs, 1, idx - 1) \o SubSeq(fibs, idx + 1, Len(fibs))
    /\ SwitchOut
    /\ UNCHANGED <<created, newq, fd, ev, has_deadline, timed_out, call, res,
                   avail, expired, dev>>

\* The handler closes its socket and returns: fib_entry() sets F_DONE, the
\* carrier frees the fiber and its slot.  Closing drops the registration.
Finish(f) ==
    /\ InHandler(f)
    /\ reg' = [reg EXCEPT ![conn[f]] = NoFib]
    /\ conn' = [conn EXCEPT ![f] = None]
    /\ state' = [state EXCEPT ![f] = "FREE"]
    /\ fibs' = [fibs EXCEPT ![idx] = NoFib]
    /\ SwitchOut
    /\ UNCHANGED <<created, newq, fd, ev, has_deadline, timed_out, call, res,
                   avail, expired, dev>>

-----------------------------------------------------------------------------
(***************************************************************************)
(* The peers, the clock and the accelerator.                               *)
(***************************************************************************)

PeerReady(d, e) ==
    /\ e \notin avail[d]
    /\ avail' = [avail EXCEPT ![d] = @ \cup {e}]
    /\ UNCHANGED <<created, newq, fibs, fiberVars, reg, conn, expired, dev, loopVars>>

Expire(f) ==
    /\ call[f] = "poll" /\ has_deadline[f]
    /\ f \notin expired
    /\ expired' = expired \cup {f}
    /\ UNCHANGED <<created, newq, fibs, fiberVars, reg, conn, avail, dev, loopVars>>

\* The device thread finishes the request and sets the slot's done flag.
Complete(f) ==
    /\ dev[f] = "busy"
    /\ dev' = [dev EXCEPT ![f] = "done"]
    /\ UNCHANGED <<created, newq, fibs, fiberVars, reg, conn, avail, expired, loopVars>>

-----------------------------------------------------------------------------
CarrierStep ==
    \/ Intake \/ EpollWait \/ CompleteScan \/ DeadlineScan
    \/ Dispatch \/ Skip \/ EndPass

Resume(f) == IoReturn(f) \/ IoRetry(f) \/ PollReturn(f) \/ OffReturn(f)

HandlerCall(f) ==
    \/ \E d \in Fd, e \in Event : IoNow(f, d, e) \/ IoPark(f, d, e)
    \/ \E d \in Fd, e \in Event, b \in BOOLEAN : PollPark(f, d, e, b)
    \/ Offload(f)
    \/ Finish(f)

Next ==
    \/ CarrierStep
    \/ \E f \in Fiber : Resume(f) \/ HandlerCall(f) \/ Expire(f) \/ Complete(f)
    \/ \E d \in Fd : Create(d)
    \/ \E d \in Fd, e \in Event : PeerReady(d, e)

Spec == Init /\ [][Next]_vars

(***************************************************************************)
(* The carrier thread and the device thread are never blocked, so each     *)
(* keeps taking steps.  A handler does not compute forever without         *)
(* entering the runtime in a call that parks or returns: every request     *)
(* loop of the servers contains an offload, and a fiber cannot be          *)
(* preempted, so nothing weaker than that lets another fiber run.          *)
(***************************************************************************)
SliceEnd(f) == Offload(f) \/ Finish(f)

Fairness ==
    /\ WF_vars(CarrierStep)
    /\ \A f \in Fiber : WF_vars(Resume(f)) /\ WF_vars(SliceEnd(f)) /\ WF_vars(Complete(f))

FairSpec == Spec /\ Fairness

-----------------------------------------------------------------------------
(***************************************************************************)
(* Properties.                                                             *)
(***************************************************************************)

\* An armed registration points to a fiber that is parked on exactly that
\* descriptor: no readiness event can reach a fiber that timed out, moved on
\* to another descriptor, waits for an offload or has been freed (the event
\* loop of the carrier dereferences data.ptr without any other check).
ArmedIsParked ==
    \A d \in Fd : reg[d] # NoFib => state[reg[d]] = "WAIT_IO" /\ fd[reg[d]] = d

\* With one fiber per socket no wake-up is lost: a fiber parked in read(),
\* write() or poll() has its registration armed.
ParkedIsArmed ==
    Exclusive => \A f \in Fiber : state[f] = "WAIT_IO" => reg[fd[f]] = f

\* The accelerator works on a fiber's buffer (it lies on the fiber's stack)
\* only while the fiber is parked in accel_encrypt(), and a fiber parked there
\* has a request that the device will answer or has answered.
DeviceOwnsBuffer ==
    \A f \in Fiber : dev[f] # "idle" <=> state[f] = "WAIT_OFF"

\* Every fiber that pthread_create() made is queued or in the table until it
\* has finished, and in one place only, so none is forgotten or run twice.
Queued(f) == \E j \in 1..Len(newq) : newq[j] = f
NoFiberLost ==
    /\ \A f \in Fiber : state[f] \notin {"NONE", "FREE"} <=> (Queued(f) \/ InTable(f))
    /\ \A f \in Fiber : ~(Queued(f) /\ InTable(f))
    /\ \A i, j \in 1..Len(fibs) : fibs[i] = fibs[j] /\ fibs[i] # NoFib => i = j

\* The carrier's table has room for every fiber it takes in: a server that is
\* turned into coroutines may accept connections for as long as it runs.
TableFits == Len(fibs) <= MAXFIB

(***************************************************************************)
(* The inductive invariant behind these properties.  Fibers enter the      *)
(* table in the order of their creation, so slot i holds fiber i.          *)
(***************************************************************************)
SlotsInv ==
    /\ Len(fibs) + Len(newq) = created
    /\ \A i \in 1..Len(fibs) : fibs[i] = IF state[i] = "FREE" THEN NoFib ELSE i
    /\ \A j \in 1..Len(newq) : newq[j] = Len(fibs) + j
    /\ \A f \in Fiber : f > Len(fibs) =>
          state[f] = IF f <= created THEN "NEW" ELSE "NONE"
    /\ \A f \in Fiber : f <= Len(fibs) => state[f] # "NONE"

LoopInv ==
    cur # NoFib => pc = "run" /\ cur = idx /\ idx <= Len(fibs) /\ Runnable(cur)

\* The call a fiber is in, as far as its state tells.
CallInv ==
    \A f \in Fiber :
        /\ state[f] = "WAIT_IO" => call[f] \in {"io", "poll"}
        /\ state[f] = "WAIT_OFF" => call[f] = "off"
        /\ state[f] \in {"NONE", "NEW", "FREE"} => call[f] = "none"
        /\ call[f] = "none" /\ state[f] = "RUN" => cur = f

\* A live fiber has a socket, and no other live fiber has it.
ConnInv ==
    /\ \A f \in Fiber : conn[f] = None <=> state[f] \in {"NONE", "FREE"}
    /\ \A f, g \in Fiber : conn[f] = conn[g] /\ conn[f] # None => f = g
    /\ \A f \in Fiber : call[f] \in {"io", "poll"} => fd[f] \in Fd
    /\ Exclusive => \A f \in Fiber : call[f] \in {"io", "poll"} => fd[f] = conn[f]

\* A fiber is resumed inside poll() for a reason that still holds.
PollInv ==
    \A f \in Fiber :
        /\ f \in expired => has_deadline[f]
        /\ has_deadline[f] => call[f] = "poll"
        /\ call[f] = "poll" /\ has_deadline[f] /\ timed_out[f] =>
              state[f] = "RUN" /\ f \in expired
        /\ Exclusive /\ call[f] = "poll" /\ state[f] = "RUN" =>
              \/ has_deadline[f] /\ timed_out[f]
              \/ ev[f] \in avail[fd[f]]

IndInv ==
    /\ TypeOK
    /\ SlotsInv
    /\ LoopInv
    /\ CallInv
    /\ ConnInv
    /\ PollInv
    /\ ArmedIsParked
    /\ ParkedIsArmed
    /\ DeviceOwnsBuffer

(***************************************************************************)
(* Refinement: seen from the server, fibers are blocking threads.  A call  *)
(* returns when the fiber resumes inside it, so an offload that the carrier*)
(* has released is still "done" for the thread that has not resumed yet.   *)
(***************************************************************************)
thBar == [f \in Fiber |->
            CASE state[f] = "NONE" -> "none"
              [] state[f] = "FREE" -> "done"
              [] OTHER -> IF call[f] = "none" THEN "run" ELSE call[f]]
devBar == [f \in Fiber |->
            IF call[f] = "off" /\ dev[f] = "idle" THEN "done" ELSE dev[f]]

Threads == INSTANCE BlockingThreads WITH
    Thread <- Fiber, th <- thBar, timed <- has_deadline, dev <- devBar

\* With one fiber per socket the runtime implements blocking threads: every
\* step of it is a step of a server with one thread per connection, or none.
ThreadsSpec == Threads!Spec

\* ... and with the carrier and the device running, every call whose condition
\* holds does return.
ThreadsFairSpec == Threads!FairSpec
=============================================================================
