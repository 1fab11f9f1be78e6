------------------------------ MODULE TcoServer ------------------------------
(***************************************************************************)
(* runtime/tco_server.c (mode "emu" below, run with STATEFUL) and its GPU  *)
(* version runtime/tco_server_gpu.cu: a coroutine server on one core, the  *)
(* same server with a thread per connection, and the client that pipelines *)
(* PIPE requests and verifies every reply.                                 *)
(*                                                                         *)
(* A request is two chunks, so that reads and writes may be partial; a     *)
(* reply chunk carries the request it answers, how often it was            *)
(* transformed and the sequence number of its mask.  epoll_wait() returns  *)
(* every ready descriptor (evs has room for them).                         *)
(***************************************************************************)
EXTENDS Naturals, Sequences, FiniteSets

CONSTANTS
    TcClient,    \* client threads
    TcMAXCONN,   \* MAXCONN
    TcPipe,      \* PIPE of tco_server.c; the GPU client sends one request
    TcRounds,    \* bound: rounds of a client
    TcSock       \* chunks that a socket buffers in each direction

\* The client writes PIPE requests before it reads: they must fit the sockets.
\* main() has room for 512 clients (cl), fewer than MAXCONN.
ASSUME TcAssumption ==
    /\ TcMAXCONN \in Nat \ {0} /\ TcSock \in Nat \ {0}
    /\ TcPipe \in Nat \ {0} /\ 2 * TcPipe <= 2 * TcSock
    /\ IsFiniteSet(TcClient) /\ Cardinality(TcClient) <= TcMAXCONN
    /\ "sched" \notin TcClient

VARIABLES
    tcMode, tcDev,  \* coro or block; emu or gpu
    tcBefore,    \* connections accepted earlier, all closed by now
    tcCli,       \* each client: phase, round, chunks written and read, cli_bad
    tcIn, tcOut, \* chunks on the way to and from the server
    tcBacklog,   \* connections not accepted yet
    tcConn,      \* struct conn: state, place in serve(), epoll, buf, put, seq
    tcTab,       \* conns[] from tcBefore on
    tcSlot,      \* slots[], or a connection's stream (active) and event (done)
    tcAt, tcCur  \* where run_coro() is; the running fiber

tcVars == <<tcMode, tcDev, tcBefore, tcCli, tcIn, tcOut, tcBacklog, tcConn, tcTab, tcSlot, tcAt, tcCur>>

TcIdx(c) == (tcBefore + (CHOOSE i \in 1..Len(tcTab) : tcTab[i] = c) - 1) % TcMAXCONN
TcCoro == tcMode = "coro"

TcInit ==
    /\ tcMode \in {"coro", "block"} /\ tcDev \in {"emu", "gpu"}
    /\ tcBefore \in {0, TcMAXCONN - 1}
    /\ tcCli = [c \in TcClient |-> [ph |-> "new", round |-> 0, n |-> 0, bad |-> FALSE]]
    /\ tcIn = [c \in TcClient |-> <<>>] /\ tcOut = [c \in TcClient |-> <<>>]
    /\ tcBacklog = <<>> /\ tcTab = <<>>
    /\ tcConn = [c \in TcClient |-> [st |-> "none", pc |-> "read", armed |-> "no", buf |-> <<>>, put |-> 0,
                                     seq |-> 0, enc |-> 0, mask |-> 0]]
    /\ tcSlot = [i \in 0..(TcMAXCONN - 1) |-> [active |-> FALSE, done |-> i < tcBefore]]
    /\ tcAt = 0 /\ tcCur = "sched"

-----------------------------------------------------------------------------
(* client_thread() *)

TcConnect(c) ==
    /\ tcCli[c].ph = "new"
    /\ tcCli' = [tcCli EXCEPT ![c].ph = "send"]
    /\ tcBacklog' = Append(tcBacklog, c)
    /\ UNCHANGED <<tcMode, tcDev, tcBefore, tcIn, tcOut, tcConn, tcTab, tcSlot, tcAt, tcCur>>

\* Write the requests of the round, chunk by chunk; a full socket blocks.
TcSend(c, pipe) ==
    LET q == tcCli[c]
        last == q.n + 1 = 2 * pipe
    IN  /\ q.ph = "send" /\ tcConn[c].st # "closed" /\ Len(tcIn[c]) < TcSock
        /\ tcIn' = [tcIn EXCEPT ![c] = Append(@, <<q.round * pipe + q.n \div 2, q.n % 2>>)]
        /\ tcCli' = [tcCli EXCEPT ![c].n = IF last THEN 0 ELSE @ + 1,
                                  ![c].ph = IF last THEN "recv" ELSE @]
        /\ UNCHANGED <<tcMode, tcDev, tcBefore, tcOut, tcBacklog, tcConn, tcTab, tcSlot, tcAt, tcCur>>

\* Read a reply chunk and compare; the round ends with the last one.
TcRecv(c, pipe, masked) ==
    LET q == tcCli[c]
        k == Head(tcOut[c])
        n == q.round * pipe + q.n \div 2
        last == q.n + 1 = 2 * pipe
    IN  /\ q.ph = "recv" /\ tcOut[c] # <<>>
        /\ tcOut' = [tcOut EXCEPT ![c] = Tail(@)]
        /\ tcCli' = [tcCli EXCEPT ![c].n = IF last THEN 0 ELSE @ + 1,
                                  ![c].ph = IF last THEN "idle" ELSE @,
                                  ![c].round = IF last THEN @ + 1 ELSE @,
                                  ![c].bad = \/ @ \/ k.h # q.n % 2
                                             \/ k.r # [n |-> n, enc |-> 1, mask |-> IF masked THEN n ELSE 0]]
        /\ UNCHANGED <<tcMode, tcDev, tcBefore, tcIn, tcBacklog, tcConn, tcTab, tcSlot, tcAt, tcCur>>

\* The client of tco_server.c: PIPE requests, then as many replies, each masked
\* with its number on this connection.
TcClientThread(c) == tcDev = "emu" /\ (TcSend(c, TcPipe) \/ TcRecv(c, TcPipe, TRUE))

\* The client of tco_server_gpu.cu: one request, one reply, no mask.
TcClientThreadGpu(c) == tcDev = "gpu" /\ (TcSend(c, 1) \/ TcRecv(c, 1, FALSE))

\* The next round, unless cli_stop is set.
TcRound(c) ==
    /\ tcCli[c].ph = "idle" /\ tcCli[c].round < TcRounds
    /\ tcCli' = [tcCli EXCEPT ![c].ph = "send"]
    /\ UNCHANGED <<tcMode, tcDev, tcBefore, tcIn, tcOut, tcBacklog, tcConn, tcTab, tcSlot, tcAt, tcCur>>

\* cli_stop at the end of a round, or a connection that the server closed.
TcClose(c) ==
    /\ tcCli[c].ph = "idle" \/ (tcCli[c].ph \in {"send", "recv"} /\ tcConn[c].st = "closed")
    /\ tcCli' = [tcCli EXCEPT ![c].ph = "out"]
    /\ UNCHANGED <<tcMode, tcDev, tcBefore, tcIn, tcOut, tcBacklog, tcConn, tcTab, tcSlot, tcAt, tcCur>>

-----------------------------------------------------------------------------
(* run_coro() *)

\* 1: offloads that are done.  The slots are independent and done only rises,
\* so that one look at all of them stands for the scan.
TcScan ==
    LET over == {c \in TcClient : tcConn[c].st = "WAIT_OFF" /\ tcSlot[TcIdx(c)].done}
    IN  /\ TcCoro /\ tcDev = "emu" /\ tcAt = 0 /\ tcCur = "sched"
        /\ tcConn' = [c \in TcClient |-> IF c \in over THEN [tcConn[c] EXCEPT !.st = "RUNNABLE"] ELSE tcConn[c]]
        /\ tcSlot' = [i \in DOMAIN tcSlot |->
                         IF \E c \in over : TcIdx(c) = i THEN [tcSlot[i] EXCEPT !.active = FALSE] ELSE tcSlot[i]]
        /\ tcAt' = 1
        /\ UNCHANGED <<tcMode, tcDev, tcBefore, tcCli, tcIn, tcOut, tcBacklog, tcTab, tcCur>>

\* 1 of tco_server_gpu.cu: cudaEventQuery() of each waiting connection.
TcScanGpu ==
    /\ TcCoro /\ tcDev = "gpu" /\ tcAt = 0 /\ tcCur = "sched"
    /\ tcConn' = [c \in TcClient |-> IF tcConn[c].st = "WAIT_OFF" /\ tcSlot[TcIdx(c)].done
                                     THEN [tcConn[c] EXCEPT !.st = "RUNNABLE"] ELSE tcConn[c]]
    /\ tcAt' = 1
    /\ UNCHANGED <<tcMode, tcDev, tcBefore, tcCli, tcIn, tcOut, tcBacklog, tcTab, tcSlot, tcCur>>

TcReady(c) ==
    \/ tcConn[c].armed = "in" /\ (tcIn[c] # <<>> \/ tcCli[c].ph = "out")
    \/ tcConn[c].armed = "out" /\ Len(tcOut[c]) < TcSock

\* conn_new(), or close() when the table is full.
TcAccepted(c, room) ==
    IF room THEN [tcConn[c] EXCEPT !.st = "RUNNABLE", !.armed = "in"] ELSE [tcConn[c] EXCEPT !.st = "closed"]

\* Mutant: an event makes the fiber runnable whatever it waits for.
TcEventUnchecked(c) == [tcConn[c] EXCEPT !.armed = "no", !.st = "RUNNABLE"]

\* An event spends the one-shot registration; only a fiber in WAIT_IO runs.
TcEvent(c) == [tcConn[c] EXCEPT !.armed = "no", !.st = IF @ = "WAIT_IO" THEN "RUNNABLE" ELSE @]

\* 2: epoll_wait(), with the listener's accept() loop.
TcEpoll ==
    LET left == TcMAXCONN - (tcBefore + Len(tcTab))
        fit == SubSeq(tcBacklog, 1, IF Len(tcBacklog) < left THEN Len(tcBacklog) ELSE left)
        come == {tcBacklog[k] : k \in 1..Len(tcBacklog)}
    IN  /\ TcCoro /\ tcAt = 1 /\ tcCur = "sched"
        /\ tcConn' = [c \in TcClient |->
                         IF c \in come THEN TcAccepted(c, \E k \in 1..Len(fit) : fit[k] = c)
                         ELSE IF TcReady(c) THEN TcEvent(c) ELSE tcConn[c]]
        /\ tcTab' = tcTab \o fit
        /\ tcBacklog' = <<>> /\ tcAt' = 2
        /\ UNCHANGED <<tcMode, tcDev, tcBefore, tcCli, tcIn, tcOut, tcSlot, tcCur>>

\* 3: switch to the next runnable fiber, or start over.
TcRun ==
    LET rest == {i \in (tcAt - 1)..Len(tcTab) : tcConn[tcTab[i]].st = "RUNNABLE"}
    IN  /\ TcCoro /\ tcAt >= 2 /\ tcCur = "sched"
        /\ \/ rest = {} /\ tcAt' = 0 /\ tcCur' = tcCur
           \/ \E i \in rest : (\A y \in rest : i <= y) /\ tcAt' = i + 2 /\ tcCur' = tcTab[i]
        /\ UNCHANGED <<tcMode, tcDev, tcBefore, tcCli, tcIn, tcOut, tcBacklog, tcConn, tcTab, tcSlot>>

-----------------------------------------------------------------------------
(* serve(), run by the fiber, or block_conn(), run by a thread *)

TcRuns(c) == IF TcCoro THEN tcCur = c ELSE tcConn[c].st = "thread"

\* Mutant: the descriptor is not registered again.
TcYieldIoNoMod(c, ev) == [tcConn[c] EXCEPT !.st = "WAIT_IO"]

\* co_yield_io(): arm the descriptor and switch to the scheduler.
TcYieldIo(c, ev) == [tcConn[c] EXCEPT !.st = "WAIT_IO", !.armed = ev]

\* co_read_n(): take a chunk, end at end of stream, or yield.
TcRead(c) ==
    LET k == tcConn[c]
    IN  /\ TcRuns(c) /\ k.pc = "read"
        /\ IF tcIn[c] # <<>>
           THEN /\ tcConn' = [tcConn EXCEPT ![c].buf = Append(@, Head(tcIn[c])),
                                            ![c].pc = IF Len(k.buf) = 1 THEN "offload" ELSE @,
                                            ![c].enc = 0, ![c].mask = 0]
                /\ tcIn' = [tcIn EXCEPT ![c] = Tail(@)] /\ tcCur' = tcCur
           ELSE /\ TcCoro \/ tcCli[c].ph = "out"
                /\ tcConn' = [tcConn EXCEPT ![c] = IF tcCli[c].ph = "out"
                                                   THEN [@ EXCEPT !.st = "closed", !.armed = "no"]
                                                   ELSE TcYieldIo(c, "in")]
                /\ tcIn' = tcIn /\ tcCur' = "sched"
        /\ UNCHANGED <<tcMode, tcDev, tcBefore, tcCli, tcOut, tcBacklog, tcTab, tcSlot, tcAt>>

\* co_offload() submits and parks; block_conn() submits and sleeps until done.
TcOffload(c) ==
    /\ TcRuns(c) /\ tcConn[c].pc = "offload"
    /\ tcSlot' = [tcSlot EXCEPT ![TcIdx(c)] = [active |-> TRUE, done |-> FALSE]]
    /\ tcConn' = [tcConn EXCEPT ![c].pc = "result", ![c].st = IF TcCoro THEN "WAIT_OFF" ELSE @]
    /\ tcCur' = "sched"
    /\ UNCHANGED <<tcMode, tcDev, tcBefore, tcCli, tcIn, tcOut, tcBacklog, tcTab, tcAt>>

\* co_offload() of tco_server_gpu.cu queues the copies, the kernel and the event
\* on the connection's stream; in block mode the thread's own stream.
TcOffloadGpu(c) ==
    /\ TcRuns(c) /\ tcConn[c].pc = "offload"
    /\ tcSlot' = [tcSlot EXCEPT ![TcIdx(c)] = [active |-> TRUE, done |-> FALSE]]
    /\ tcConn' = [tcConn EXCEPT ![c].pc = "result", ![c].st = IF TcCoro THEN "WAIT_OFF" ELSE @]
    /\ tcCur' = "sched"
    /\ UNCHANGED <<tcMode, tcDev, tcBefore, tcCli, tcIn, tcOut, tcBacklog, tcTab, tcAt>>

\* Resumed, or awake in block_conn(): transform() and seqmask().
TcResult(c) ==
    /\ TcRuns(c) /\ tcConn[c].pc = "result"
    /\ TcCoro \/ tcSlot[TcIdx(c)].done
    /\ tcSlot' = IF TcCoro THEN tcSlot ELSE [tcSlot EXCEPT ![TcIdx(c)].active = FALSE]
    /\ tcConn' = [tcConn EXCEPT ![c].pc = "write", ![c].enc = @ + 1, ![c].mask = tcConn[c].seq,
                                ![c].seq = @ + 1]
    /\ UNCHANGED <<tcMode, tcDev, tcBefore, tcCli, tcIn, tcOut, tcBacklog, tcTab, tcAt, tcCur>>

\* The GPU's copy back to buf is the result; block_conn() of tco_server_gpu.cu
\* waits for it in cudaStreamSynchronize().
TcResultGpu(c) ==
    /\ TcRuns(c) /\ tcConn[c].pc = "result"
    /\ TcCoro \/ tcSlot[TcIdx(c)].done
    /\ tcConn' = [tcConn EXCEPT ![c].pc = "write"]
    /\ UNCHANGED <<tcMode, tcDev, tcBefore, tcCli, tcIn, tcOut, tcBacklog, tcTab, tcSlot, tcAt, tcCur>>

\* co_write_n(): put a chunk, or yield when the socket is full.
TcWrite(c) ==
    LET k == tcConn[c]
        chunk == k.buf[k.put + 1]
    IN  /\ TcRuns(c) /\ k.pc = "write"
        /\ IF Len(tcOut[c]) < TcSock
           THEN /\ tcOut' = [tcOut EXCEPT ![c] = Append(@,
                        [r |-> [n |-> chunk[1], enc |-> k.enc, mask |-> k.mask], h |-> chunk[2]])]
                /\ tcConn' = [tcConn EXCEPT ![c] = IF k.put = 1
                                 THEN [@ EXCEPT !.put = 0, !.buf = <<>>, !.pc = "read"]
                                 ELSE [@ EXCEPT !.put = 1]]
                /\ tcCur' = tcCur
           ELSE /\ TcCoro
                /\ tcConn' = [tcConn EXCEPT ![c] = TcYieldIo(c, "out")]
                /\ tcOut' = tcOut /\ tcCur' = "sched"
        /\ UNCHANGED <<tcMode, tcDev, tcBefore, tcCli, tcIn, tcBacklog, tcTab, tcSlot, tcAt>>

-----------------------------------------------------------------------------
\* run_block(): accept and create the thread.
TcAcceptThread ==
    /\ ~TcCoro /\ tcBacklog # <<>>
    /\ tcTab' = Append(tcTab, Head(tcBacklog))
    /\ tcConn' = [tcConn EXCEPT ![Head(tcBacklog)].st = "thread"]
    /\ tcBacklog' = Tail(tcBacklog)
    /\ UNCHANGED <<tcMode, tcDev, tcBefore, tcCli, tcIn, tcOut, tcSlot, tcAt, tcCur>>

\* device_fn(), after any latency: no one else sets done, so that it makes no
\* difference how far its loads of active and done are apart.
TcDevice(i) ==
    /\ tcDev = "emu" /\ tcSlot[i].active /\ ~tcSlot[i].done
    /\ tcSlot' = [tcSlot EXCEPT ![i].done = TRUE]
    /\ UNCHANGED <<tcMode, tcDev, tcBefore, tcCli, tcIn, tcOut, tcBacklog, tcConn, tcTab, tcAt, tcCur>>

\* The copies and the kernel that were queued on the stream, then the event.
TcKernel(i) ==
    /\ tcDev = "gpu" /\ tcSlot[i].active
    /\ tcConn' = [c \in TcClient |-> IF tcConn[c].pc = "result" /\ TcIdx(c) = i
                                     THEN [tcConn[c] EXCEPT !.enc = @ + 1] ELSE tcConn[c]]
    /\ tcSlot' = [tcSlot EXCEPT ![i] = [active |-> FALSE, done |-> TRUE]]
    /\ UNCHANGED <<tcMode, tcDev, tcBefore, tcCli, tcIn, tcOut, tcBacklog, tcTab, tcAt, tcCur>>

TcServe(c) == tcDev = "emu" /\ (TcRead(c) \/ TcOffload(c) \/ TcResult(c) \/ TcWrite(c))

\* serve() of tco_server_gpu.cu, its co_read_n(), co_offload() and co_write_n().
TcServeGpu(c) == tcDev = "gpu" /\ (TcRead(c) \/ TcOffloadGpu(c) \/ TcResultGpu(c) \/ TcWrite(c))

TcRunCoro == TcScan \/ TcEpoll \/ TcRun \/ (tcCur # "sched" /\ TcServe(tcCur))
TcRunCoroGpu == TcScanGpu \/ TcEpoll \/ TcRun \/ (tcCur # "sched" /\ TcServeGpu(tcCur))
TcSched == TcRunCoro \/ TcRunCoroGpu \/ TcAcceptThread

TcBlockConn(c) == ~TcCoro /\ TcServe(c)
TcBlockConnGpu(c) == ~TcCoro /\ TcServeGpu(c)
TcThread(c) == TcBlockConn(c) \/ TcBlockConnGpu(c)
TcUnits == \E i \in 0..(TcMAXCONN - 1) : TcDevice(i) \/ TcKernel(i)
TcClientStep(c) == TcClientThread(c) \/ TcClientThreadGpu(c) \/ TcClose(c)

TcNext ==
    \/ TcSched \/ TcUnits
    \/ \E c \in TcClient : TcThread(c) \/ TcConnect(c) \/ TcRound(c) \/ TcClientStep(c)

TcSpec == TcInit /\ [][TcNext]_tcVars

-----------------------------------------------------------------------------
\* bad=0: every reply is the client's own request, transformed once and masked
\* with its place in the connection's order, however requests are pipelined.
TcNoneBad == \A c \in TcClient : ~tcCli[c].bad

\* A slot is active exactly while its connection waits for the offload, and a
\* stream has work only then: a fiber is never resumed by an event that is left
\* from an earlier wait while the device still works on its buffer.
TcParkedOnSlot ==
    \A c \in TcClient :
        c \in {tcTab[i] : i \in 1..Len(tcTab)} /\ TcCoro
            => /\ tcSlot[TcIdx(c)].active => tcConn[c].st = "WAIT_OFF"
               /\ tcDev = "emu" /\ tcConn[c].st = "WAIT_OFF" => tcSlot[TcIdx(c)].active

\* Every round ends, or the connection was refused because MAXCONN others were
\* accepted since the server started.
TcRoundEnds == \A c \in TcClient : []<>(tcCli[c].ph \notin {"send", "recv"})

\* Replies are right, and no fiber runs ahead of its offload.
TcReplies == TcNoneBad /\ TcParkedOnSlot
=============================================================================
