------------------------------ MODULE ForkChild ------------------------------
(***************************************************************************)
(* libtransparent.c across fork(): the constructor warms the accelerator   *)
(* and starts the carrier; only the forking thread survives in the child,  *)
(* where atfork_child() rebuilds the runtime.  Connections are accepted in *)
(* either process and become fibers of that process; a handler may hold    *)
(* the handler lock (RT_ENFORCE) and may offload.                          *)
(***************************************************************************)
EXTENDS Naturals, FiniteSets

CONSTANTS
    FkConn       \* connections

FkProc == {"parent", "child"}

VARIABLES
    fkP,         \* the runtime's state in each process
    fkC          \* each connection: process, thread or fiber, and where it is

fkVars == <<fkP, fkC>>

FkNone == "none"

FkInit ==
    /\ fkP = [p \in FkProc |-> [ready |-> FALSE, alive |-> p = "parent", carrier |-> FALSE, device |-> FALSE,
                                dev_started |-> FALSE, serving |-> FALSE, hlock |-> FkNone, forked |-> FALSE]]
    /\ fkC = [c \in FkConn |-> [proc |-> FkNone, kind |-> FkNone, at |-> "unborn"]]

\* init(), the constructor: accel_encrypt() once if the library is linked,
\* which starts the device thread, then runtime_ready and start_carrier().
FkStartup ==
    /\ ~fkP["parent"].ready
    /\ \E warm \in BOOLEAN :
           fkP' = [fkP EXCEPT !["parent"] = [@ EXCEPT !.dev_started = warm, !.device = warm,
                                                      !.ready = TRUE, !.carrier = TRUE]]
    /\ UNCHANGED fkC

\* Mutant: the child keeps the handler lock's owner.
FkForkKeepsLock ==
    LET q == fkP["parent"]
    IN  /\ q.ready /\ ~q.forked
        /\ fkP' = [fkP EXCEPT !["parent"].forked = TRUE,
                              !["child"] = [q EXCEPT !.alive = TRUE, !.device = FALSE, !.carrier = q.ready,
                                                     !.forked = TRUE]]
        /\ UNCHANGED fkC

\* fork() and atfork_child(): memory is copied, threads are not; the fiber
\* table, the queue of new fibers, the ring and the handler lock are reset
\* and a carrier is started.
FkFork ==
    LET q == fkP["parent"]
    IN  /\ q.ready /\ ~q.forked
        /\ fkP' = [fkP EXCEPT !["parent"].forked = TRUE,
                              !["child"] = [q EXCEPT !.alive = TRUE, !.device = FALSE, !.carrier = q.ready,
                                                     !.hlock = FkNone, !.forked = TRUE]]
        /\ UNCHANGED fkC

\* accept() or accept4() returns: from now on threads are fibers (serving),
\* and the server creates the connection's thread.
FkAccept(p, c) ==
    /\ fkP[p].alive /\ fkP[p].ready /\ fkC[c].at = "unborn"
    /\ fkP' = [fkP EXCEPT ![p].serving = TRUE]
    /\ \E kind \in {"plain", "offload"} :
           fkC' = [fkC EXCEPT ![c] = [proc |-> p, kind |-> kind, at |-> "request"]]

\* The fiber runs on its process's carrier: it takes the handler lock with the
\* request, submits its offload (ensure_dev() starts no thread when
\* dev_started is set), and answers.
FkRun(c) ==
    LET p == fkC[c].proc
    IN  /\ fkC[c].at = "request" /\ fkP[p].carrier /\ fkP[p].hlock = FkNone
        /\ fkP' = [fkP EXCEPT ![p].hlock = c,
                              ![p].device = @ \/ (fkC[c].kind = "offload" /\ ~fkP[p].dev_started),
                              ![p].dev_started = @ \/ fkC[c].kind = "offload"]
        /\ fkC' = [fkC EXCEPT ![c].at = IF fkC[c].kind = "offload" THEN "device" ELSE "answer"]

FkDevice(c) ==
    /\ fkC[c].at = "device" /\ fkP[fkC[c].proc].device
    /\ fkC' = [fkC EXCEPT ![c].at = "answer"]
    /\ UNCHANGED fkP

FkAnswer(c) ==
    LET p == fkC[c].proc
    IN  /\ fkC[c].at = "answer" /\ fkP[p].carrier
        /\ fkP' = [fkP EXCEPT ![p].hlock = FkNone]
        /\ fkC' = [fkC EXCEPT ![c].at = "served"]

FkServe == \E c \in FkConn : FkRun(c) \/ FkDevice(c) \/ FkAnswer(c)

FkNext ==
    \/ FkStartup \/ FkFork \/ FkServe
    \/ \E p \in FkProc, c \in FkConn : FkAccept(p, c)

FkSpec == FkInit /\ [][FkNext]_fkVars /\ WF_fkVars(FkServe)

-----------------------------------------------------------------------------
\* "Rebuild runtime state and a fresh carrier in every fork child so fiber-ized
\* connections still run": a connection is served in either process.
FkServed == \A c \in FkConn : []<>(fkC[c].at \in {"unborn", "served"})

\* The same as far as it holds: in the parent, and in a child none of whose
\* connections offloads.
FkServedUntilOffload ==
    \A c \in FkConn :
        []<>(\/ fkC[c].at \in {"unborn", "served"}
             \/ \E d \in FkConn : fkC[d].proc = "child" /\ fkC[c].proc = "child" /\ fkC[d].kind = "offload")
=============================================================================
