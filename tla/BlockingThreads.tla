--------------------------- MODULE BlockingThreads ---------------------------
(***************************************************************************)
(* What an unmodified thread-per-connection server assumes of the system   *)
(* below it: every connection has a thread of its own, a call blocks until *)
(* its condition holds and then returns.  There is no scheduler, no epoll  *)
(* set and no run queue here; the fiber runtime (module Carrier) promises  *)
(* that a server cannot tell it from this.                                 *)
(***************************************************************************)
CONSTANTS Thread, Fd, None, Event

VARIABLES
    th,       \* what each thread does: "none", "run", "io", "poll", "off", "done"
    conn,     \* the socket each live thread serves
    ev,       \* the readiness a blocked thread waits for: "in" or "out"
    timed,    \* the thread polls with a finite timeout
    expired,  \* threads whose poll timeout has elapsed
    res,      \* what the thread's last poll returned
    avail,    \* readiness of each socket
    dev       \* each thread's request to the accelerator

vars == <<th, conn, ev, timed, expired, res, avail, dev>>

Init ==
    /\ th = [t \in Thread |-> "none"]
    /\ conn = [t \in Thread |-> None]
    /\ ev = [t \in Thread |-> "in"]
    /\ timed = [t \in Thread |-> FALSE]
    /\ expired = {}
    /\ res = [t \in Thread |-> "none"]
    /\ avail = [d \in Fd |-> {}]
    /\ dev = [t \in Thread |-> "idle"]

\* accept() followed by pthread_create().
Create(t, d) ==
    /\ th[t] = "none"
    /\ \A u \in Thread : conn[u] # d
    /\ th' = [th EXCEPT ![t] = "run"]
    /\ conn' = [conn EXCEPT ![t] = d]
    /\ avail' = [avail EXCEPT ![d] = {}]
    /\ UNCHANGED <<ev, timed, expired, res, dev>>

\* A transfer leaves the socket ready or drains it.
Transfer(d, e) == avail' \in {avail, [avail EXCEPT ![d] = @ \ {e}]}

\* A read or write that need not block.
IoNow(t, e) ==
    /\ th[t] = "run"
    /\ e \in avail[conn[t]]
    /\ Transfer(conn[t], e)
    /\ UNCHANGED <<th, conn, ev, timed, expired, res, dev>>

CallIo(t, e) ==
    /\ th[t] = "run"
    /\ th' = [th EXCEPT ![t] = "io"]
    /\ ev' = [ev EXCEPT ![t] = e]
    /\ UNCHANGED <<conn, timed, expired, res, avail, dev>>

ReturnIo(t) ==
    /\ th[t] = "io"
    /\ ev[t] \in avail[conn[t]]
    /\ th' = [th EXCEPT ![t] = "run"]
    /\ Transfer(conn[t], ev[t])
    /\ UNCHANGED <<conn, ev, timed, expired, res, dev>>

CallPoll(t, e, b) ==
    /\ th[t] = "run"
    /\ th' = [th EXCEPT ![t] = "poll"]
    /\ ev' = [ev EXCEPT ![t] = e]
    /\ timed' = [timed EXCEPT ![t] = b]
    /\ UNCHANGED <<conn, expired, res, avail, dev>>

\* A poll says "ready" only of a ready socket and "timeout" only once its
\* timeout has elapsed.
ReturnPoll(t, r) ==
    /\ th[t] = "poll"
    /\ r = "ready" => ev[t] \in avail[conn[t]]
    /\ r = "timeout" => timed[t] /\ t \in expired
    /\ th' = [th EXCEPT ![t] = "run"]
    /\ res' = [res EXCEPT ![t] = r]
    /\ timed' = [timed EXCEPT ![t] = FALSE]
    /\ expired' = expired \ {t}
    /\ UNCHANGED <<conn, ev, avail, dev>>

Submit(t) ==
    /\ th[t] = "run"
    /\ th' = [th EXCEPT ![t] = "off"]
    /\ dev' = [dev EXCEPT ![t] = "busy"]
    /\ UNCHANGED <<conn, ev, timed, expired, res, avail>>

ReturnOff(t) ==
    /\ th[t] = "off"
    /\ dev[t] = "done"
    /\ th' = [th EXCEPT ![t] = "run"]
    /\ dev' = [dev EXCEPT ![t] = "idle"]
    /\ UNCHANGED <<conn, ev, timed, expired, res, avail>>

Exit(t) ==
    /\ th[t] = "run"
    /\ th' = [th EXCEPT ![t] = "done"]
    /\ conn' = [conn EXCEPT ![t] = None]
    /\ UNCHANGED <<ev, timed, expired, res, avail, dev>>

\* The peer, the clock and the accelerator.
PeerReady(d, e) ==
    /\ avail' = [avail EXCEPT ![d] = @ \cup {e}]
    /\ UNCHANGED <<th, conn, ev, timed, expired, res, dev>>

Expire(t) ==
    /\ th[t] = "poll"
    /\ timed[t]
    /\ expired' = expired \cup {t}
    /\ UNCHANGED <<th, conn, ev, timed, res, avail, dev>>

Complete(t) ==
    /\ dev[t] = "busy"
    /\ dev' = [dev EXCEPT ![t] = "done"]
    /\ UNCHANGED <<th, conn, ev, timed, expired, res, avail>>

Next ==
    \/ \E t \in Thread :
         \/ \E d \in Fd : Create(t, d)
         \/ \E e \in Event : IoNow(t, e) \/ CallIo(t, e)
         \/ \E e \in Event, b \in BOOLEAN : CallPoll(t, e, b)
         \/ \E r \in {"ready", "timeout"} : ReturnPoll(t, r)
         \/ ReturnIo(t) \/ Submit(t) \/ ReturnOff(t) \/ Exit(t)
         \/ Expire(t) \/ Complete(t)
    \/ \E d \in Fd, e \in Event : PeerReady(d, e)

Spec == Init /\ [][Next]_vars

\* A call whose condition holds returns, and the accelerator answers.
Fairness ==
    \A t \in Thread :
        /\ WF_vars(ReturnIo(t))
        /\ WF_vars(\E r \in {"ready", "timeout"} : ReturnPoll(t, r))
        /\ WF_vars(ReturnOff(t))
        /\ WF_vars(Complete(t))

FairSpec == Spec /\ Fairness
=============================================================================
