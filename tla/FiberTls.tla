------------------------------ MODULE FiberTls ------------------------------
(***************************************************************************)
(* Per-thread state under fibers: errno, the OpenSSL error queue and the   *)
(* pthread keys.  Fibers of libtransparent.c share those of the carrier;   *)
(* tls_save() and tls_restore() surround every yield but the one in        *)
(* fiber_cond_wait().  The experiment coop_err.c does the same with its    *)
(* coroutines in the mode "saved", and nothing in the mode "naive".        *)
(***************************************************************************)
EXTENDS Naturals, Sequences

CONSTANTS
    FtFiber,    \* fibers
    FtErrbuf,   \* entries of errbuf
    FtRaise,    \* numbers of errors a fiber may have queued when it yields
    FtRounds    \* bound: yields per fiber

ASSUME FtAssumption ==
    /\ FtErrbuf \in Nat \ {0} /\ FtRaise \subseteq Nat /\ FtRounds \in Nat \ {0}
    /\ "sched" \notin FtFiber

VARIABLES
    ftRt,        \* the runtime: libtransparent, coop_saved or coop_naive
    ftCur,       \* running fiber, or "sched"
    ftErrno, ftQueue, ftReal,    \* the carrier's errno, error queue and key values
    ftF,         \* each fiber: saved errno, errbuf, tls[k], where it is
    ftMark,      \* what each fiber left behind at its yield
    ftBad        \* differences that the last fiber to run saw after its yield

ftVars == <<ftRt, ftCur, ftErrno, ftQueue, ftReal, ftF, ftMark, ftBad>>

FtYields == {"io", "off", "run", "cond"}

\* A value of errno or an error: who set it, before which of its yields.
FtValue == (FtFiber \cup {"sched"}) \X Nat
FtUnset == <<"sched", 0>>

FtInit ==
    /\ ftRt \in {"libtransparent", "coop_saved", "coop_naive"}
    /\ ftCur = "sched" /\ ftErrno = FtUnset /\ ftQueue = <<>> /\ ftReal = "none"
    /\ ftF = [f \in FtFiber |-> [serr |-> FtUnset, errbuf |-> <<>>, tls |-> "none", how |-> "new", n |-> 0]]
    /\ ftMark = [f \in FtFiber |-> <<>>]
    /\ ftBad = {}

FtMin(a, b) == IF a < b THEN a ELSE b

\* while((e=get())!=0 && n<ERRBUF): a full buffer swallows one more error.
FtDrained(q) ==
    [kept |-> SubSeq(q, 1, FtMin(Len(q), FtErrbuf)), left |-> SubSeq(q, FtErrbuf + 2, Len(q))]

\* The functions init() looks up; it never looks up ssl_err_put.
FtResolved == {"get", "clear", "peek"}

\* Whether the yield of this kind saves and restores.
FtSaves(how) ==
    CASE ftRt = "libtransparent" -> how # "cond"
      [] ftRt = "coop_saved"     -> TRUE
      [] ftRt = "coop_naive"     -> FALSE

-----------------------------------------------------------------------------
\* The scheduler resumes a fiber that has not finished.
FtResume(f) ==
    LET r == ftF[f]
        saved == r.how # "new" /\ FtSaves(r.how)
        puts == ftRt = "coop_saved" \/ {"get", "clear", "put"} \subseteq FtResolved
    IN  /\ ftCur = "sched" /\ r.how # "done"
        /\ ftCur' = f
        /\ ftErrno' = IF saved THEN r.serr ELSE ftErrno
        /\ ftQueue' = IF saved /\ puts THEN r.errbuf ELSE ftQueue
        /\ ftBad' = {}
        /\ UNCHANGED <<ftRt, ftReal, ftF, ftMark>>

\* pthread_getspecific(): keys below 128 are kept per fiber, the others and
\* those of coop_err are the carrier's.
FtGetspecific(f, k) == IF ftRt = "libtransparent" /\ k < 128 THEN ftF[f].tls ELSE ftReal

\* What the fiber reads after the yield, against what it left.
FtDiff(f) ==
    LET m == ftMark[f]
    IN  {<<ftRt, ftF[f].how, what>> : what \in
            {w \in {"errno", "queue", "key", "high_key"} :
                \/ w = "errno" /\ ftErrno # m.errno
                \/ w = "queue" /\ ftQueue # m.queue
                \/ w = "key" /\ FtGetspecific(f, 127) # f
                \/ w = "high_key" /\ FtGetspecific(f, 128) # f}}

\* The fiber checks its state and, when its rounds are over, ends.
FtEnd(f) ==
    /\ ftCur = f /\ ftF[f].n = FtRounds
    /\ ftBad' = FtDiff(f)
    /\ ftF' = [ftF EXCEPT ![f].how = "done"]
    /\ ftCur' = "sched"
    /\ UNCHANGED <<ftRt, ftErrno, ftQueue, ftReal, ftMark>>

\* Mutant: the fiber's errno is not saved.
FtYieldNoErrno(f, how, n) ==
    LET v == <<f, ftF[f].n + 1>>
        q == [i \in 1..n |-> v]
        d == FtDrained(q)
    IN  /\ ftCur = f /\ ftF[f].n < FtRounds
        /\ ftRt # "libtransparent" => how = "off" /\ n = 1
        /\ ftBad' = IF ftF[f].how = "new" THEN {} ELSE FtDiff(f)
        /\ ftErrno' = v /\ ftReal' = f
        /\ ftMark' = [ftMark EXCEPT ![f] = [errno |-> v, queue |-> q]]
        /\ ftQueue' = IF FtSaves(how) THEN d.left ELSE q
        /\ ftF' = [ftF EXCEPT ![f].errbuf = IF FtSaves(how) THEN d.kept ELSE @,
                              ![f].tls = f, ![f].how = how, ![f].n = @ + 1]
        /\ ftCur' = "sched"
        /\ UNCHANGED ftRt

\* The fiber checks its state, sets errno, clears the queue and queues n errors,
\* sets its keys and yields.  coop_err's body queues exactly one error and yields
\* for an offload.
FtYield(f, how, n) ==
    LET v == <<f, ftF[f].n + 1>>
        q == [i \in 1..n |-> v]
        d == FtDrained(q)
    IN  /\ ftCur = f /\ ftF[f].n < FtRounds
        /\ ftRt # "libtransparent" => how = "off" /\ n = 1
        /\ ftBad' = IF ftF[f].how = "new" THEN {} ELSE FtDiff(f)
        /\ ftErrno' = v /\ ftReal' = f
        /\ ftMark' = [ftMark EXCEPT ![f] = [errno |-> v, queue |-> q]]
        /\ ftQueue' = IF FtSaves(how) THEN d.left ELSE q
        /\ ftF' = [ftF EXCEPT ![f].serr = IF FtSaves(how) THEN v ELSE @,
                              ![f].errbuf = IF FtSaves(how) THEN d.kept ELSE @,
                              ![f].tls = f, ![f].how = how, ![f].n = @ + 1]
        /\ ftCur' = "sched"
        /\ UNCHANGED ftRt

FtNext ==
    \E f \in FtFiber : \/ FtResume(f) \/ FtEnd(f)
                       \/ \E how \in FtYields, n \in FtRaise : FtYield(f, how, n)

FtSpec == FtInit /\ [][FtNext]_ftVars

-----------------------------------------------------------------------------
\* Mode "saved: ... Expect 0 corruptions": neither errno nor the error queue
\* of a coroutine is disturbed when the runtime saves both.
FtSavedIsClean == \A b \in ftBad : b[1] = "coop_saved" => b[3] \in {"key", "high_key"}

\* Under libtransparent a fiber that yielded for a descriptor, an offload or a
\* lock finds the errno it left at that yield, whichever yields of its own or of
\* the other fibers, condition waits among them, came before and in between; and
\* its first 128 pthread keys after every yield.  FtCondKept is about the yield
\* that this leaves out.
FtErrnoKept ==
    \A b \in ftBad : b[1] = "libtransparent" => b[3] # "key" /\ (b[3] = "errno" => b[2] = "cond")

\* What the two runtimes keep of it at the yields at which they save it.
FtKept == FtSavedIsClean /\ FtErrnoKept

\* "Per-fiber errno/ERR preserved across the wait" of a condition variable.
FtCondKept ==
    \A b \in ftBad : b[1] = "libtransparent" /\ b[2] = "cond" => b[3] \notin {"errno", "queue"}

\* "per-fiber thread-local-state save/restore (errno + OpenSSL ERR queue) at
\* every yield": at the yields that save it, a fiber finds the errors it had
\* queued.
FtQueueKept == \A b \in ftBad : b[1] = "libtransparent" /\ b[3] = "queue" => b[2] = "cond"
=============================================================================
