---------------------------- MODULE ServerProofs ----------------------------
(***************************************************************************)
(* Proofs about the server side: the reference counting of the nginx       *)
(* module, for any number of requests, pool threads and queue places; the  *)
(* remote accelerator, for any number of threads, calls and crashes; the   *)
(* closed-loop benchmarks, for any number of connections; the counts of    *)
(* the Redis detector module, for any number of clients and slots; and the *)
(* frames of the HAProxy agent, for any number of connections and workers. *)
(***************************************************************************)
EXTENDS Ngx, RemoteAccel, OffloadBench, RedisDet, Spoa,
        FiniteSetTheorems, SequenceTheorems, TLAPS

-----------------------------------------------------------------------------
(* nginx. *)

NgRecord ==
    [loc : {"sync", "async"}, st : {"new", "active", "freed"}, count : Int, blocked : Int,
     error : BOOLEAN, replies : Int]

NgTasks == {"posted", "running", "notified"}

NgTypeOK ==
    /\ ngLoop \in NgReq \cup {"poll"}
    /\ ngR \in [NgReq -> NgRecord]
    /\ ngTask \in [NgReq -> NgTasks \cup {"none"}]

\* A request as nginx hands it to the handler: one reference, not blocked.
NgFresh(r) ==
    ngR[r].count = 1 /\ ngR[r].blocked = 0 /\ ~ngR[r].error /\ ngR[r].replies = 0

\* Where a request's references are, by where the request is: not arrived, in
\* the handler that runs on the loop, parked behind its task, or freed.  Only
\* a request that is held or about to be held has a task.
NgRequestInv(r) ==
    /\ ngR[r].st = "new" => NgFresh(r) /\ ngTask[r] = "none" /\ ngLoop # r
    /\ ngLoop = r =>
           /\ ngR[r].st = "active" /\ NgFresh(r)
           /\ \/ ngPc \in {"discard_failed", "sync", "async"} /\ ngTask[r] = "none"
              \/ ngPc = "hold" /\ ngTask[r] \in NgTasks
    /\ ngR[r].st = "active" /\ ngLoop # r =>
           /\ ngR[r].count = 1 /\ ngR[r].blocked = 1 /\ ngR[r].replies = 0
           /\ ngTask[r] \in NgTasks
    /\ ngR[r].st = "freed" =>
           /\ ngR[r].count = 0 /\ ngR[r].blocked = 0 /\ ngR[r].replies \in 0..1
           /\ ngTask[r] = "none" /\ ngLoop # r

NgIndInv == NgTypeOK /\ (\A r \in NgReq : NgRequestInv(r)) /\ ~ngUaf

\* ngx_http_close_request() with the last reference, and with one more.
LEMMA NgCloseLast ==
  ASSUME NEW q \in NgRecord, q.count = 1, q.blocked = 0
  PROVE  /\ NgClose(q) \in NgRecord /\ NgClose(q).st = "freed" /\ NgClose(q).count = 0
         /\ NgClose(q).blocked = 0 /\ NgClose(q).replies = q.replies
  <1>1. NgClose(q) = [[q EXCEPT !.count = 0] EXCEPT !.st = "freed"]
    BY DEF NgClose, NgRecord
  <1>2. [q EXCEPT !.count = 0] \in NgRecord
    BY DEF NgRecord
  <1>3. QED
    BY <1>1, <1>2 DEF NgRecord

LEMMA NgCloseHeld ==
  ASSUME NEW q \in NgRecord, q.count = 2
  PROVE  /\ NgClose(q) \in NgRecord /\ NgClose(q).st = q.st /\ NgClose(q).count = 1
         /\ NgClose(q).blocked = q.blocked /\ NgClose(q).replies = q.replies
  <1>1. NgClose(q) = [[q EXCEPT !.count = 1] EXCEPT !.st = q.st]
    BY DEF NgClose, NgRecord
  <1>2. [q EXCEPT !.count = 1] \in NgRecord
    BY DEF NgRecord
  <1>3. QED
    BY <1>1, <1>2 DEF NgRecord

\* Terminating a request that nobody blocks frees it; otherwise it is marked.
LEMMA NgTerminateFree ==
  ASSUME NEW q \in NgRecord, q.blocked = 0
  PROVE  /\ NgTerminate(q) \in NgRecord /\ NgTerminate(q).st = "freed"
         /\ NgTerminate(q).count = 0 /\ NgTerminate(q).blocked = 0
         /\ NgTerminate(q).replies = q.replies
  <1> DEFINE p == [q EXCEPT !.error = TRUE]
             s == [p EXCEPT !.count = 0]
  <1>1. NgTerminate(q) = [s EXCEPT !.st = "freed"]
    BY DEF NgTerminate, NgRecord
  <1>2. p \in NgRecord /\ p.blocked = 0 /\ p.replies = q.replies
    BY DEF NgRecord
  <1> HIDE DEF p
  <1>3. s \in NgRecord /\ s.count = 0 /\ s.blocked = 0 /\ s.replies = q.replies
    BY <1>2 DEF NgRecord
  <1> HIDE DEF s
  <1>4. QED
    BY <1>1, <1>3 DEF NgRecord

LEMMA NgTerminateBlocked ==
  ASSUME NEW q \in NgRecord, q.blocked = 1
  PROVE  /\ NgTerminate(q) \in NgRecord /\ NgTerminate(q).st = q.st
         /\ NgTerminate(q).count = q.count /\ NgTerminate(q).blocked = 1
         /\ NgTerminate(q).replies = q.replies
  <1>1. NgTerminate(q) = [q EXCEPT !.error = TRUE]
    BY DEF NgTerminate, NgRecord
  <1>2. QED
    BY <1>1 DEF NgRecord

\* The two holds of accel_async_handler().
LEMMA NgHeldRecord ==
  ASSUME NEW q \in NgRecord, q.count = 1, q.blocked = 0,
         NEW p, p = [q EXCEPT !.blocked = @ + 1, !.count = @ + 1]
  PROVE  /\ p \in NgRecord /\ p.st = q.st /\ p.count = 2 /\ p.blocked = 1
         /\ p.replies = q.replies
  <1> DEFINE s == [q EXCEPT !.blocked = 1]
  <1>1. p = [s EXCEPT !.count = 2]
    BY DEF NgRecord
  <1>2. s \in NgRecord /\ s.st = q.st /\ s.blocked = 1 /\ s.replies = q.replies
    BY DEF NgRecord
  <1> HIDE DEF s
  <1>3. p \in NgRecord
    BY <1>1, <1>2 DEF NgRecord
  <1>4. p.st = s.st /\ p.count = 2 /\ p.blocked = s.blocked /\ p.replies = s.replies
    BY <1>1, <1>2 DEF NgRecord
  <1>5. QED
    BY <1>2, <1>3, <1>4

\* The reply drops the last reference; a request that failed is freed without.
LEMMA NgSendOkLast ==
  ASSUME NEW q \in NgRecord, q.count = 1, q.blocked = 0, q.replies = 0
  PROVE  /\ NgSendOk(q) \in NgRecord /\ NgSendOk(q).st = "freed"
         /\ NgSendOk(q).count = 0 /\ NgSendOk(q).blocked = 0
         /\ NgSendOk(q).replies \in 0..1
  <1> DEFINE p == [q EXCEPT !.replies = @ + 1]
  <1>1. p \in NgRecord /\ p.count = 1 /\ p.blocked = 0 /\ p.replies = 1
    BY DEF NgRecord
  <1>2. CASE q.error
    BY <1>2, NgTerminateFree DEF NgSendOk
  <1>3. CASE ~q.error
    <2>1. NgSendOk(q) = NgClose(p)
      BY <1>3 DEF NgSendOk
    <2> HIDE DEF p
    <2>2. QED
      BY <1>1, <2>1, NgCloseLast
  <1>4. QED
    BY <1>2, <1>3

LEMMA NgInitInv == NgInit => NgIndInv
  <1> SUFFICES ASSUME NgInit PROVE NgIndInv
    OBVIOUS
  <1>1. ngR \in [NgReq -> {[loc |-> l, st |-> "new", count |-> 1, blocked |-> 0,
                            error |-> FALSE, replies |-> 0] : l \in {"sync", "async"}}]
    BY DEF NgInit
  <1>2. ASSUME NEW r \in NgReq
        PROVE  ngR[r] \in NgRecord /\ ngR[r].st = "new" /\ NgFresh(r)
    <2>1. PICK l \in {"sync", "async"} :
              ngR[r] = [loc |-> l, st |-> "new", count |-> 1, blocked |-> 0,
                        error |-> FALSE, replies |-> 0]
      BY <1>1
    <2>2. ngR[r] \in NgRecord
      BY <2>1 DEF NgRecord
    <2>3. ngR[r].st = "new" /\ NgFresh(r)
      BY <2>1 DEF NgFresh
    <2>4. QED
      BY <2>2, <2>3
  <1>3. NgTypeOK
    BY <1>1, <1>2 DEF NgInit, NgTypeOK
  <1>4. \A r \in NgReq : NgRequestInv(r)
    BY <1>2, NgAssumption DEF NgInit, NgRequestInv
  <1>5. QED
    BY <1>3, <1>4 DEF NgInit, NgIndInv

\* A step that gives request r the record q and the task w, and leaves the
\* loop with r or without a request, is right if it is right for r.
LEMMA NgLocalStep ==
  ASSUME NgIndInv, NEW r \in NgReq, NEW q \in NgRecord, NEW w \in NgTasks \cup {"none"},
         ngR' = [ngR EXCEPT ![r] = q], ngTask' = [ngTask EXCEPT ![r] = w],
         ngLoop \in {"poll", r} \/ (ngLoop' = ngLoop /\ ngPc' = ngPc),
         ngLoop' \in {"poll", r} \/ (ngLoop' = ngLoop /\ ngPc' = ngPc),
         NgRequestInv(r)', ~ngUaf'
  PROVE  NgIndInv'
  <1>1. NgTypeOK'
    BY DEF NgIndInv, NgTypeOK
  <1>2. ASSUME NEW s \in NgReq, s # r PROVE NgRequestInv(s)'
    <2>1. ngR'[s] = ngR[s] /\ ngTask'[s] = ngTask[s]
      BY <1>2 DEF NgIndInv, NgTypeOK
    <2>2. ngLoop' = s <=> ngLoop = s
      BY <1>2, NgAssumption
    <2>3. ngLoop = s => ngPc' = ngPc
      BY <1>2, NgAssumption
    <2>4. NgRequestInv(s)
      BY DEF NgIndInv
    <2>5. QED
      BY <2>1, <2>2, <2>3, <2>4 DEF NgRequestInv, NgFresh
  <1>3. QED
    BY <1>1, <1>2 DEF NgIndInv

\* Who touches a request that has a task, or that the loop runs, touches a
\* live one.
LEMMA NgLive ==
  ASSUME NgIndInv, NEW r \in NgReq, ngTask[r] # "none" \/ ngLoop = r
  PROVE  ngR[r].st = "active"
  BY DEF NgIndInv, NgTypeOK, NgRecord, NgRequestInv

LEMMA NgHandlerStep ==
  ASSUME NgIndInv, NEW r \in NgReq,
         NgHandle(r) \/ NgDiscardFails(r) \/ NgSync(r) \/ NgPost(r) \/ NgHold(r)
  PROVE  NgIndInv'
  <1>r. ngR[r] \in NgRecord /\ NgRequestInv(r)
    BY DEF NgIndInv, NgTypeOK
  <1>1. CASE NgHandle(r)
    <2> DEFINE q == [ngR[r] EXCEPT !.st = "active"]
    <2>1. q \in NgRecord
      BY <1>r DEF NgRecord
    <2>2. ngR' = [ngR EXCEPT ![r] = q] /\ ngTask' = [ngTask EXCEPT ![r] = "none"]
      BY <1>1, <1>r DEF NgHandle, NgRequestInv, NgIndInv, NgTypeOK
    <2>3. NgRequestInv(r)'
      BY <1>1, <1>r, <2>2 DEF NgHandle, NgRequestInv, NgFresh, NgIndInv, NgTypeOK, NgRecord
    <2>4. QED
      BY <1>1, <2>1, <2>2, <2>3, NgLocalStep DEF NgHandle, NgIndInv
  <1>2. CASE NgDiscardFails(r)
    <2> DEFINE q == NgTerminate(ngR[r])
    <2>1. q \in NgRecord /\ q.st = "freed" /\ q.count = 0 /\ q.blocked = 0 /\ q.replies = 0
      BY <1>2, <1>r, NgTerminateFree DEF NgDiscardFails, NgRequestInv, NgFresh
    <2>2. ngR' = [ngR EXCEPT ![r] = q] /\ ngTask' = [ngTask EXCEPT ![r] = "none"]
      BY <1>2, <1>r DEF NgDiscardFails, NgRequestInv, NgIndInv, NgTypeOK
    <2> HIDE DEF q
    <2>3. NgRequestInv(r)'
      BY <1>2, <2>1, <2>2, NgAssumption
      DEF NgDiscardFails, NgToLoop, NgRequestInv, NgIndInv, NgTypeOK
    <2>4. QED
      BY <1>2, <2>1, <2>2, <2>3, NgLocalStep DEF NgDiscardFails, NgToLoop, NgIndInv
  <1>3. CASE NgSync(r)
    <2> DEFINE q == NgSendOk(ngR[r])
    <2>1. q \in NgRecord /\ q.st = "freed" /\ q.count = 0 /\ q.blocked = 0 /\ q.replies \in 0..1
      BY <1>3, <1>r, NgSendOkLast DEF NgSync, NgRequestInv, NgFresh
    <2>2. ngR' = [ngR EXCEPT ![r] = q] /\ ngTask' = [ngTask EXCEPT ![r] = "none"] /\ ~ngUaf'
      BY <1>3, <1>r, NgLive DEF NgSync, NgTouch, NgRequestInv, NgIndInv, NgTypeOK
    <2> HIDE DEF q
    <2>3. NgRequestInv(r)'
      BY <1>3, <2>1, <2>2, NgAssumption
      DEF NgSync, NgToLoop, NgRequestInv, NgIndInv, NgTypeOK
    <2>4. QED
      BY <1>3, <2>1, <2>2, <2>3, NgLocalStep DEF NgSync, NgToLoop, NgIndInv
  <1>4. CASE NgPost(r)
    <2>1. CASE Cardinality({x \in NgReq : ngTask[x] = "posted"}) < NgQueue
      <3>1. ngTask' = [ngTask EXCEPT ![r] = "posted"] /\ ngPc' = "hold" /\ ngLoop' = r
        BY <1>4, <2>1 DEF NgPost
      <3>2. ngR' = [ngR EXCEPT ![r] = ngR[r]]
        BY <1>4, <2>1 DEF NgPost, NgIndInv, NgTypeOK
      <3>3. NgRequestInv(r)'
        BY <1>4, <1>r, <3>1, <3>2 DEF NgPost, NgRequestInv, NgFresh, NgIndInv, NgTypeOK, NgTasks
      <3>4. QED
        BY <1>4, <1>r, <3>1, <3>2, <3>3, NgLocalStep DEF NgPost, NgIndInv, NgTasks
    <2>2. CASE ~(Cardinality({x \in NgReq : ngTask[x] = "posted"}) < NgQueue)
      <3> DEFINE p == [ngR[r] EXCEPT !.replies = @ + 1]
                 q == NgClose(p)
      <3>1. p \in NgRecord /\ p.count = 1 /\ p.blocked = 0 /\ p.replies = 1
        BY <1>4, <1>r DEF NgPost, NgRequestInv, NgFresh, NgRecord
      <3>2. ngR' = [ngR EXCEPT ![r] = q] /\ ngLoop' = "poll" /\ ngPc' = "none"
        BY <1>4, <2>2 DEF NgPost, NgToLoop
      <3>3. ngTask' = [ngTask EXCEPT ![r] = "none"]
        BY <1>4, <1>r, <2>2 DEF NgPost, NgRequestInv, NgIndInv, NgTypeOK
      <3> HIDE DEF p
      <3>4. q \in NgRecord /\ q.st = "freed" /\ q.count = 0 /\ q.blocked = 0 /\ q.replies = 1
        BY <3>1, NgCloseLast
      <3> HIDE DEF q
      <3>5. NgRequestInv(r)'
        BY <3>2, <3>3, <3>4, NgAssumption DEF NgRequestInv, NgIndInv, NgTypeOK
      <3>6. QED
        BY <1>4, <3>2, <3>3, <3>4, <3>5, NgLocalStep DEF NgPost, NgIndInv
    <2>3. QED
      BY <2>1, <2>2
  <1>5. CASE NgHold(r)
    <2> DEFINE p == [ngR[r] EXCEPT !.blocked = @ + 1, !.count = @ + 1]
               q == NgClose(p)
    <2>0. /\ p \in NgRecord /\ p.st = "active" /\ p.count = 2 /\ p.blocked = 1
          /\ p.replies = 0
      BY <1>5, <1>r, NgHeldRecord DEF NgHold, NgRequestInv, NgFresh
    <2>2. ngR' = [ngR EXCEPT ![r] = q] /\ ngTask' = [ngTask EXCEPT ![r] = ngTask[r]]
      BY <1>5 DEF NgHold, NgIndInv, NgTypeOK
    <2> HIDE DEF p
    <2>1. q \in NgRecord /\ q.st = "active" /\ q.count = 1 /\ q.blocked = 1 /\ q.replies = 0
      BY <2>0, NgCloseHeld
    <2> HIDE DEF q
    <2>3. NgRequestInv(r)'
      BY <1>5, <1>r, <2>1, <2>2, NgAssumption
      DEF NgHold, NgToLoop, NgRequestInv, NgIndInv, NgTypeOK
    <2>4. QED
      BY <1>5, <2>1, <2>2, <2>3, NgLocalStep DEF NgHold, NgToLoop, NgIndInv, NgTypeOK
  <1>6. QED
    BY <1>1, <1>2, <1>3, <1>4, <1>5

LEMMA NgTaskStep ==
  ASSUME NgIndInv, NEW r \in NgReq, NgRun(r) \/ NgRan(r) \/ NgCompletion(r)
  PROVE  NgIndInv'
  <1>r. /\ ngR[r] \in NgRecord /\ NgRequestInv(r) /\ ngR[r].st = "active" /\ ~ngUaf'
        /\ ngTask[r] \in NgTasks
    <2>1. ngTask[r] \in NgTasks /\ ngTask[r] # "none"
      BY DEF NgRun, NgRan, NgCompletion, NgTasks
    <2>2. ngR[r].st = "active"
      BY <2>1, NgLive
    <2>3. QED
      BY <2>1, <2>2 DEF NgIndInv, NgTypeOK, NgRun, NgRan, NgCompletion, NgTouch
  <1>1. CASE NgRun(r) \/ NgRan(r)
    <2>1. PICK w \in NgTasks : ngTask' = [ngTask EXCEPT ![r] = w]
      BY <1>1 DEF NgRun, NgRan, NgTasks
    <2>2. ngR' = [ngR EXCEPT ![r] = ngR[r]] /\ ngLoop' = ngLoop /\ ngPc' = ngPc
      BY <1>1 DEF NgRun, NgRan, NgIndInv, NgTypeOK
    <2>3. ngTask'[r] = w /\ ngR'[r] = ngR[r]
      BY <2>1, <2>2 DEF NgIndInv, NgTypeOK
    <2>4. NgRequestInv(r)'
      BY <1>r, <2>2, <2>3 DEF NgRequestInv, NgFresh, NgTasks
    <2>5. QED
      BY <1>r, <2>1, <2>2, <2>4, NgLocalStep
  <1>2. CASE NgCompletion(r)
    <2> DEFINE p == [ngR[r] EXCEPT !.blocked = @ - 1]
               q == NgSendOk(p)
    <2>1. ngLoop = "poll" /\ ngLoop # r
      BY <1>2, NgAssumption DEF NgCompletion
    <2>2. p \in NgRecord /\ p.count = 1 /\ p.blocked = 0 /\ p.replies = 0
      BY <1>r, <2>1 DEF NgRequestInv, NgRecord
    <2>3. /\ ngR' = [ngR EXCEPT ![r] = q] /\ ngTask' = [ngTask EXCEPT ![r] = "none"]
          /\ ngLoop' = ngLoop /\ ngPc' = ngPc
      BY <1>2 DEF NgCompletion
    <2> HIDE DEF p
    <2>4. q \in NgRecord /\ q.st = "freed" /\ q.count = 0 /\ q.blocked = 0 /\ q.replies \in 0..1
      BY <2>2, NgSendOkLast
    <2> HIDE DEF q
    <2>5. NgRequestInv(r)'
      BY <2>1, <2>3, <2>4 DEF NgRequestInv, NgIndInv, NgTypeOK
    <2>6. QED
      BY <1>r, <2>1, <2>3, <2>4, <2>5, NgLocalStep
  <1>3. QED
    BY <1>1, <1>2

LEMMA NgAbortStep ==
  ASSUME NgIndInv, NEW r \in NgReq, NgAbort(r)
  PROVE  NgIndInv'
  <1> DEFINE q == NgTerminate(ngR[r])
  <1>1. ngR[r] \in NgRecord /\ NgRequestInv(r) /\ ngLoop # r /\ ngR[r].st = "active"
    BY NgAssumption DEF NgAbort, NgIndInv, NgTypeOK
  <1>2. q \in NgRecord /\ q.st = "active" /\ q.count = 1 /\ q.blocked = 1 /\ q.replies = 0
    BY <1>1, NgTerminateBlocked DEF NgRequestInv
  <1>3. /\ ngR' = [ngR EXCEPT ![r] = q] /\ ngTask' = [ngTask EXCEPT ![r] = ngTask[r]]
        /\ ngLoop' = ngLoop /\ ngPc' = ngPc /\ ~ngUaf'
    BY DEF NgAbort, NgIndInv, NgTypeOK
  <1> HIDE DEF q
  <1>4. NgRequestInv(r)'
    BY <1>1, <1>2, <1>3 DEF NgRequestInv, NgIndInv, NgTypeOK
  <1>5. QED
    BY <1>2, <1>3, <1>4, NgLocalStep DEF NgIndInv, NgTypeOK

LEMMA NgNextInv == NgIndInv /\ [NgNext]_ngVars => NgIndInv'
  <1> SUFFICES ASSUME NgIndInv, [NgNext]_ngVars PROVE NgIndInv'
    OBVIOUS
  <1>1. CASE NgServe
    BY <1>1, NgHandlerStep, NgTaskStep DEF NgServe
  <1>2. ASSUME NEW r \in NgReq, NgAbort(r) PROVE NgIndInv'
    BY <1>2, NgAbortStep
  <1>3. CASE UNCHANGED ngVars
    BY <1>3 DEF ngVars, NgIndInv, NgTypeOK, NgRequestInv, NgFresh
  <1>4. QED
    BY <1>1, <1>2, <1>3 DEF NgNext

\* r->main->blocked++ and r->main->count++ of accel_async_handler() keep the
\* request until its completion event, whatever the client and the pool do:
\* no freed request is touched, and every reference is given back once.
THEOREM NgCorrect == NgSpec => []NgReferences
  <1>1. NgIndInv => NgReferences
    <2> SUFFICES ASSUME NgIndInv PROVE NgReferences
      OBVIOUS
    <2>1. NgBalanced
      BY DEF NgIndInv, NgTypeOK, NgRecord, NgRequestInv, NgFresh, NgBalanced
    <2>2. QED
      BY <2>1 DEF NgIndInv, NgReferences, NgNoUseAfterFree
  <1>2. QED
    BY <1>1, NgInitInv, NgNextInv, PTL DEF NgSpec


-----------------------------------------------------------------------------
(* The remote accelerator. *)

RaBad == <<"garbage">>
RaResult == {<<"sig", k>> : k \in Nat} \cup {RaBad, <<"untouched">>}

RaTypeOK ==
    /\ raUp \in BOOLEAN /\ raCrashes \in Nat
    /\ raSock \in [RaThread -> {"none", "open", "fin", "rst"}]
    /\ raWire \in [RaThread -> Seq(Nat)] /\ raBack \in [RaThread -> Seq(Nat)]
    /\ raSign \in [RaThread -> Nat] /\ raCall \in [RaThread -> Nat]
    /\ raPc \in [RaThread -> {"idle", "connect", "reconnect", "write", "rewrite", "read"}]
    /\ raGot \in [RaThread -> Seq(RaResult)]

\* One result for each call that is over: its own signature, or none.
RaGotInv(t) ==
    /\ Len(raGot[t]) = IF raPc[t] = "idle" THEN raCall[t] ELSE raCall[t] - 1
    /\ raPc[t] # "idle" => raCall[t] > 0
    /\ \A k \in 1..Len(raGot[t]) : raGot[t][k] \in {<<"sig", k>>, RaBad, <<"untouched">>}

\* The socket a caller may have at each place.
RaSockInv(t) ==
    /\ raPc[t] \in {"write", "rewrite", "read"} => raSock[t] # "none"
    /\ raPc[t] = "rewrite" => raSock[t] # "rst"

\* At most one request is under way on a connection, and it is the current
\* call's: as digest, in the signer, or as signature.
RaQuiet(t) == raWire[t] = <<>> /\ raSign[t] = 0

RaFlight(t) ==
    \/ RaQuiet(t) /\ raBack[t] = <<>>
    \/ raWire[t] = <<raCall[t]>> /\ raSign[t] = 0 /\ raBack[t] = <<>>
    \/ raWire[t] = <<>> /\ raSign[t] = raCall[t] /\ raBack[t] = <<>>
    \/ RaQuiet(t) /\ raBack[t] = <<raCall[t]>>

RaFlightInv(t) ==
    /\ RaFlight(t)
    /\ raPc[t] # "read" => RaQuiet(t) /\ raBack[t] = <<>>
    /\ raSock[t] # "open" => RaQuiet(t)

\* The garbage results that a dead connection can still cause.
RaDue(t) ==
    CASE raSock[t] = "fin" -> IF raPc[t] = "read" THEN 2 ELSE 1
      [] raSock[t] = "rst" -> IF raPc[t] = "read" THEN 1 ELSE 0
      [] OTHER -> 0

RaGarbage(t) == {k \in 1..Len(raGot[t]) : raGot[t][k] = RaBad}
RaBudgetInv(t) == Cardinality(RaGarbage(t)) + RaDue(t) <= 2 * raCrashes

RaThreadInv(t) == RaGotInv(t) /\ RaSockInv(t) /\ RaFlightInv(t) /\ RaBudgetInv(t)
RaIndInv == RaTypeOK /\ \A t \in RaThread : RaThreadInv(t)

LEMMA RaInitInv == RaInit => RaIndInv
  <1> SUFFICES ASSUME RaInit PROVE RaIndInv
    OBVIOUS
  <1>1. RaTypeOK
    BY DEF RaInit, RaTypeOK
  <1>2. ASSUME NEW t \in RaThread PROVE RaThreadInv(t)
    <2>1. raGot[t] = <<>> /\ raPc[t] = "idle" /\ raSock[t] = "none" /\ raCall[t] = 0 /\ raCrashes = 0
      BY DEF RaInit
    <2>2. raWire[t] = <<>> /\ raSign[t] = 0 /\ raBack[t] = <<>>
      BY DEF RaInit
    <2>3. RaGarbage(t) = {}
      BY <2>1 DEF RaGarbage
    <2>4. RaBudgetInv(t)
      BY <2>1, <2>3, FS_EmptySet DEF RaBudgetInv, RaDue
    <2>5. QED
      BY <2>1, <2>2, <2>4 DEF RaThreadInv, RaGotInv, RaSockInv, RaFlightInv, RaFlight, RaQuiet
  <1>3. QED
    BY <1>1, <1>2 DEF RaIndInv

\* A thread whose own variables stay keeps its invariant.
LEMMA RaFrame ==
  ASSUME NEW u \in RaThread, RaThreadInv(u), raCrashes' = raCrashes,
         raSock'[u] = raSock[u], raWire'[u] = raWire[u], raBack'[u] = raBack[u], raSign'[u] = raSign[u],
         raPc'[u] = raPc[u], raCall'[u] = raCall[u], raGot'[u] = raGot[u]
  PROVE  RaThreadInv(u)'
  <1>1. RaGarbage(u)' = RaGarbage(u)
    BY DEF RaGarbage
  <1>2. RaDue(u)' = RaDue(u)
    BY DEF RaDue
  <1>3. RaBudgetInv(u)'
    BY <1>1, <1>2 DEF RaThreadInv, RaBudgetInv
  <1>4. QED
    BY <1>3 DEF RaThreadInv, RaGotInv, RaSockInv, RaFlightInv, RaFlight, RaQuiet

LEMMA RaGarbageFinite ==
  ASSUME RaTypeOK, NEW t \in RaThread
  PROVE  IsFiniteSet(RaGarbage(t)) /\ Cardinality(RaGarbage(t)) \in Nat
  <1>1. IsFiniteSet(1..Len(raGot[t]))
    BY FS_Interval DEF RaTypeOK
  <1>2. RaGarbage(t) \subseteq 1..Len(raGot[t])
    BY DEF RaGarbage
  <1>3. QED
    BY <1>1, <1>2, FS_Subset, FS_CardinalityType

\* A call returns: one more result, which is its own.
LEMMA RaReturned ==
  ASSUME RaTypeOK, NEW t \in RaThread, RaGotInv(t), raPc[t] # "idle", NEW what,
         raGot' = [raGot EXCEPT ![t] = Append(raGot[t], what)],
         raPc' = [raPc EXCEPT ![t] = "idle"], raCall' = raCall,
         what \in {<<"sig", raCall[t]>>, RaBad, <<"untouched">>}
  PROVE  /\ what \in RaResult /\ RaGotInv(t)'
         /\ Cardinality(RaGarbage(t)') = Cardinality(RaGarbage(t)) + (IF what = RaBad THEN 1 ELSE 0)
  <1> DEFINE g == raGot[t]
             n == Len(raGot[t])
  <1>1. what \in RaResult
    BY DEF RaTypeOK, RaResult
  <1>2. g \in Seq(RaResult) /\ n \in Nat /\ n = raCall[t] - 1 /\ raCall[t] \in Nat
    BY DEF RaTypeOK, RaGotInv
  <1>3. /\ raGot'[t] = Append(g, what) /\ Len(raGot'[t]) = n + 1 /\ raGot'[t][n + 1] = what
        /\ \A k \in 1..n : raGot'[t][k] = g[k]
    BY <1>1, <1>2 DEF RaTypeOK
  <1>4. raPc'[t] = "idle" /\ n + 1 = raCall'[t]
    BY <1>2 DEF RaTypeOK
  <1>5. RaGotInv(t)'
    <2>1. ASSUME NEW k \in 1..(n + 1) PROVE raGot'[t][k] \in {<<"sig", k>>, RaBad, <<"untouched">>}
      <3>1. CASE k = n + 1
        BY <1>2, <1>3, <3>1
      <3>2. CASE k \in 1..n
        BY <1>3, <3>2 DEF RaGotInv
      <3>3. QED
        BY <1>2, <3>1, <3>2
    <2>2. QED
      BY <1>3, <1>4, <2>1 DEF RaGotInv
  <1>6. RaGarbage(t)' = IF what = RaBad THEN RaGarbage(t) \cup {n + 1} ELSE RaGarbage(t)
    BY <1>2, <1>3 DEF RaGarbage
  <1>7. n + 1 \notin RaGarbage(t)
    BY <1>2 DEF RaGarbage
  <1> HIDE DEF n, g
  <1>8. Cardinality(RaGarbage(t)') = Cardinality(RaGarbage(t)) + (IF what = RaBad THEN 1 ELSE 0)
    <2>1. CASE what = RaBad
      <3>1. Cardinality(RaGarbage(t) \cup {n + 1}) = Cardinality(RaGarbage(t)) + 1
        BY <1>7, RaGarbageFinite, FS_AddElement
      <3>2. QED
        BY <1>6, <2>1, <3>1
    <2>2. CASE what # RaBad
      BY <1>6, <2>2, RaGarbageFinite
    <2>3. QED
      BY <2>1, <2>2
  <1>9. QED
    BY <1>1, <1>5, <1>8

\* Nothing of another thread changes.
RaOthers(t) ==
    \A u \in RaThread \ {t} :
        /\ raSock'[u] = raSock[u] /\ raWire'[u] = raWire[u] /\ raBack'[u] = raBack[u]
        /\ raSign'[u] = raSign[u] /\ raPc'[u] = raPc[u] /\ raCall'[u] = raCall[u] /\ raGot'[u] = raGot[u]

LEMMA RaLocal ==
  ASSUME RaIndInv, NEW t \in RaThread, RaTypeOK', RaOthers(t), raCrashes' = raCrashes, RaThreadInv(t)'
  PROVE  RaIndInv'
  <1>1. ASSUME NEW u \in RaThread, u # t PROVE RaThreadInv(u)'
    BY <1>1, RaFrame DEF RaIndInv, RaOthers
  <1>2. QED
    BY <1>1 DEF RaIndInv

\* The results stay and the caller does not return: what is left to show.
LEMMA RaGoesOn ==
  ASSUME RaTypeOK, NEW t \in RaThread, RaThreadInv(t), raCrashes' = raCrashes, raGot' = raGot,
         RaGotInv(t)', RaSockInv(t)', RaFlightInv(t)', RaDue(t)' <= RaDue(t), RaDue(t)' \in Nat
  PROVE  RaThreadInv(t)'
  <1>1. RaGarbage(t)' = RaGarbage(t)
    BY DEF RaGarbage
  <1>2. RaDue(t) \in Nat
    BY DEF RaDue
  <1>3. RaBudgetInv(t)'
    <2>1. Cardinality(RaGarbage(t)) + RaDue(t) <= 2 * raCrashes
      BY DEF RaThreadInv, RaBudgetInv
    <2>2. Cardinality(RaGarbage(t)) + RaDue(t)' <= 2 * raCrashes
      BY <1>2, <2>1, RaGarbageFinite DEF RaTypeOK
    <2>3. QED
      BY <1>1, <2>2 DEF RaBudgetInv
  <1>4. QED
    BY <1>3 DEF RaThreadInv

LEMMA RaBeginStep ==
  ASSUME RaIndInv, NEW t \in RaThread, RaBegin(t)
  PROVE  RaIndInv'
  <1> USE DEF RaBegin, RaGoto
  <1>1. RaTypeOK'
    BY DEF RaIndInv, RaTypeOK
  <1>2. RaOthers(t) /\ raCrashes' = raCrashes
    BY DEF RaIndInv, RaTypeOK, RaOthers
  <1>3. /\ raPc[t] = "idle" /\ raCall'[t] = raCall[t] + 1 /\ raCall[t] \in Nat
        /\ raPc'[t] = IF raSock[t] = "none" THEN "connect" ELSE "write"
    BY DEF RaIndInv, RaTypeOK
  <1>4. RaThreadInv(t)
    BY DEF RaIndInv
  <1>5. RaGotInv(t)' /\ RaSockInv(t)' /\ RaFlightInv(t)'
    BY <1>3, <1>4 DEF RaThreadInv, RaGotInv, RaSockInv, RaFlightInv, RaFlight, RaQuiet
  <1>6. RaDue(t)' <= RaDue(t) /\ RaDue(t)' \in Nat
    BY <1>3 DEF RaDue
  <1>7. QED
    BY <1>1, <1>2, <1>4, <1>5, <1>6, RaGoesOn, RaLocal DEF RaIndInv

\* connect_remote() succeeds, or the call returns with the buffer untouched.
LEMMA RaConnectStep ==
  ASSUME RaIndInv, NEW t \in RaThread, RaConnect(t)
  PROVE  RaIndInv'
  <1> USE DEF RaConnect, RaGoto
  <1>1. RaThreadInv(t) /\ RaTypeOK
    BY DEF RaIndInv
  <1>2. raBack'[t] = <<>> /\ raPc[t] \notin {"idle", "read"} /\ UNCHANGED <<raUp, raCrashes, raWire, raSign, raCall>>
    BY <1>1 DEF RaTypeOK
  <1>3. RaQuiet(t)' /\ RaFlightInv(t)'
    BY <1>1, <1>2 DEF RaThreadInv, RaFlightInv, RaFlight, RaQuiet
  <1>4. CASE raUp
    <2>1. /\ raSock' = [raSock EXCEPT ![t] = "open"] /\ raGot' = raGot
          /\ raPc' = [raPc EXCEPT ![t] = IF raPc[t] = "connect" THEN "write" ELSE "rewrite"]
          /\ raBack' = [raBack EXCEPT ![t] = <<>>]
      BY <1>4
    <2>2. RaTypeOK' /\ RaOthers(t)
      BY <1>1, <1>2, <2>1 DEF RaTypeOK, RaOthers
    <2>3. RaGotInv(t)' /\ RaSockInv(t)'
      BY <1>1, <1>2, <2>1 DEF RaThreadInv, RaGotInv, RaSockInv, RaTypeOK
    <2>4. RaDue(t)' = 0 /\ RaDue(t) \in Nat
      BY <1>1, <2>1 DEF RaDue, RaTypeOK
    <2>5. QED
      BY <1>1, <1>2, <1>3, <2>1, <2>2, <2>3, <2>4, RaGoesOn, RaLocal
  <1>5. CASE ~raUp
    <2>1. /\ raSock' = [raSock EXCEPT ![t] = "none"] /\ raPc' = [raPc EXCEPT ![t] = "idle"]
          /\ raGot' = [raGot EXCEPT ![t] = Append(raGot[t], <<"untouched">>)]
          /\ raBack' = [raBack EXCEPT ![t] = <<>>]
      BY <1>5 DEF RaReturn
    <2>2. /\ <<"untouched">> \in RaResult /\ RaGotInv(t)'
          /\ Cardinality(RaGarbage(t)') = Cardinality(RaGarbage(t)) + (IF <<"untouched">> = RaBad THEN 1 ELSE 0)
      BY <1>1, <1>2, <2>1, RaReturned DEF RaThreadInv
    <2>3. RaTypeOK' /\ RaOthers(t)
      BY <1>1, <1>2, <2>1, <2>2 DEF RaTypeOK, RaOthers
    <2>4. RaSockInv(t)' /\ RaDue(t)' = 0 /\ RaDue(t) \in Nat
      BY <1>1, <2>1 DEF RaSockInv, RaDue, RaTypeOK
    <2>5. Cardinality(RaGarbage(t)') = Cardinality(RaGarbage(t))
      BY <1>1, <2>2, RaGarbageFinite DEF RaBad
    <2>6. RaBudgetInv(t)'
      <3>1. Cardinality(RaGarbage(t)') + RaDue(t)' <= 2 * raCrashes
        BY <1>1, <2>4, <2>5, RaGarbageFinite DEF RaThreadInv, RaBudgetInv, RaTypeOK
      <3>2. QED
        BY <1>2, <3>1 DEF RaBudgetInv
    <2>7. QED
      BY <1>2, <1>3, <2>2, <2>3, <2>4, <2>6, RaLocal DEF RaThreadInv
  <1>6. QED
    BY <1>4, <1>5

\* The digest goes out on an open connection only; a dead one turns from fin
\* to rst, or makes the caller reconnect.
LEMMA RaWriteStep ==
  ASSUME RaIndInv, NEW t \in RaThread, RaWrite(t)
  PROVE  RaIndInv'
  <1> USE DEF RaWrite, RaGoto
  <1>1. RaThreadInv(t) /\ RaTypeOK
    BY DEF RaIndInv
  <1>2. /\ raPc[t] \in {"write", "rewrite"} /\ raCall[t] \in Nat
        /\ UNCHANGED <<raUp, raCrashes, raBack, raSign, raCall, raGot>>
    BY <1>1 DEF RaTypeOK
  <1>3. raWire[t] = <<>> /\ raSign[t] = 0 /\ raBack[t] = <<>>
    BY <1>1, <1>2 DEF RaThreadInv, RaFlightInv, RaQuiet
  <1>4. RaTypeOK'
    <2>1. raWire' \in [RaThread -> Seq(Nat)]
      BY <1>1, <1>2 DEF RaTypeOK
    <2>2. raSock' \in [RaThread -> {"none", "open", "fin", "rst"}]
      BY <1>1 DEF RaTypeOK
    <2>3. QED
      BY <1>1, <1>2, <2>1, <2>2 DEF RaTypeOK
  <1>5. RaOthers(t)
    BY <1>1 DEF RaTypeOK, RaOthers
  <1>6. CASE raSock[t] = "rst" /\ raPc[t] = "write"
    <2>1. raPc'[t] = "reconnect" /\ raSock'[t] = "none" /\ raWire' = raWire
      BY <1>1, <1>6 DEF RaTypeOK
    <2>2. RaGotInv(t)' /\ RaSockInv(t)' /\ RaFlightInv(t)'
      BY <1>1, <1>2, <1>3, <2>1 DEF RaThreadInv, RaGotInv, RaSockInv, RaFlightInv, RaFlight, RaQuiet
    <2>3. RaDue(t)' = 0 /\ RaDue(t) \in Nat
      BY <2>1 DEF RaDue
    <2>4. QED
      BY <1>1, <1>2, <1>4, <1>5, <2>2, <2>3, RaGoesOn, RaLocal
  <1>7. CASE ~(raSock[t] = "rst" /\ raPc[t] = "write")
    <2>1. raPc'[t] = "read" /\ raSock'[t] = IF raSock[t] = "fin" THEN "rst" ELSE raSock[t]
      BY <1>1, <1>7 DEF RaTypeOK
    <2>2. raSock[t] \in {"open", "fin"}
      BY <1>1, <1>2, <1>7 DEF RaThreadInv, RaSockInv, RaTypeOK
    <2>3. raWire'[t] = IF raSock[t] = "open" THEN <<raCall[t]>> ELSE <<>>
      BY <1>1, <1>2, <1>3 DEF RaTypeOK
    <2>4. RaGotInv(t)' /\ RaSockInv(t)'
      BY <1>1, <1>2, <2>1, <2>2 DEF RaThreadInv, RaGotInv, RaSockInv
    <2>5. RaFlightInv(t)'
      BY <1>2, <1>3, <2>1, <2>2, <2>3 DEF RaFlightInv, RaFlight, RaQuiet
    <2>6. RaDue(t)' <= RaDue(t) /\ RaDue(t)' \in Nat
      BY <1>2, <2>1, <2>2 DEF RaDue
    <2>7. QED
      BY <1>1, <1>2, <1>4, <1>5, <2>4, <2>5, <2>6, RaGoesOn, RaLocal
  <1>8. QED
    BY <1>6, <1>7

\* A signature that arrives is the current call's; without one the connection
\* is dead and pays for the garbage.
LEMMA RaReadStep ==
  ASSUME RaIndInv, NEW t \in RaThread, RaRead(t)
  PROVE  RaIndInv'
  <1> USE DEF RaRead, RaReturn, RaGoto
  <1>1. RaThreadInv(t) /\ RaTypeOK
    BY DEF RaIndInv
  <1>2. raPc[t] = "read" /\ raCall[t] \in Nat /\ UNCHANGED <<raUp, raCrashes, raSock, raWire, raSign, raCall>>
    BY <1>1 DEF RaTypeOK
  <1>3. PICK what : /\ raGot' = [raGot EXCEPT ![t] = Append(raGot[t], what)]
                    /\ what \in {<<"sig", raCall[t]>>, RaBad}
                    /\ raBack[t] # <<>> => what = <<"sig", raCall[t]>>
                    /\ raBack[t] = <<>> => what = RaBad /\ raSock[t] # "open"
                    /\ raBack' \in [RaThread -> Seq(Nat)] /\ raBack'[t] = <<>>
                    /\ \A u \in RaThread : u # t => raBack'[u] = raBack[u]
    <2>1. CASE raBack[t] # <<>>
      <3>1. raBack[t] = <<raCall[t]>>
        BY <1>1, <2>1 DEF RaThreadInv, RaFlightInv, RaFlight
      <3>2. Head(raBack[t]) = raCall[t] /\ Tail(raBack[t]) = <<>>
        BY <1>2, <3>1
      <3>3. /\ raGot' = [raGot EXCEPT ![t] = Append(raGot[t], <<"sig", raCall[t]>>)]
            /\ raBack' = [raBack EXCEPT ![t] = <<>>]
        BY <2>1, <3>2
      <3>4. raBack' \in [RaThread -> Seq(Nat)] /\ raBack'[t] = <<>> /\ \A u \in RaThread : u # t => raBack'[u] = raBack[u]
        BY <1>1, <3>3 DEF RaTypeOK
      <3>5. QED
        BY <2>1, <3>3, <3>4
    <2>2. CASE raBack[t] = <<>>
      <3>1. raGot' = [raGot EXCEPT ![t] = Append(raGot[t], RaBad)] /\ raBack' = raBack /\ raSock[t] # "open"
        BY <2>2 DEF RaBad
      <3>2. QED
        BY <1>1, <2>2, <3>1 DEF RaTypeOK
    <2>3. QED
      BY <2>1, <2>2
  <1>4. raPc' = [raPc EXCEPT ![t] = "idle"]
    OBVIOUS
  <1>5. /\ what \in RaResult /\ RaGotInv(t)'
        /\ Cardinality(RaGarbage(t)') = Cardinality(RaGarbage(t)) + (IF what = RaBad THEN 1 ELSE 0)
    BY <1>1, <1>2, <1>3, <1>4, RaReturned DEF RaThreadInv
  <1>6. RaTypeOK' /\ RaOthers(t)
    <2>1. raGot' \in [RaThread -> Seq(RaResult)]
      <3>1. Append(raGot[t], what) \in Seq(RaResult)
        BY <1>1, <1>5 DEF RaTypeOK
      <3>2. QED
        BY <1>1, <1>3, <3>1 DEF RaTypeOK
    <2>2. raPc' \in [RaThread -> {"idle", "connect", "reconnect", "write", "rewrite", "read"}]
      BY <1>1, <1>4 DEF RaTypeOK
    <2>3. RaTypeOK'
      BY <1>1, <1>2, <1>3, <2>1, <2>2 DEF RaTypeOK
    <2>4. \A u \in RaThread \ {t} : raPc'[u] = raPc[u] /\ raGot'[u] = raGot[u]
      BY <1>1, <1>3, <1>4 DEF RaTypeOK
    <2>5. RaOthers(t)
      BY <1>2, <1>3, <2>4 DEF RaOthers
    <2>6. QED
      BY <2>3, <2>5
  <1>7. RaQuiet(t) /\ raPc'[t] = "idle"
    BY <1>1, <1>3, <1>4 DEF RaThreadInv, RaFlightInv, RaFlight, RaTypeOK, RaQuiet
  <1>8. RaSockInv(t)' /\ RaFlightInv(t)'
    BY <1>2, <1>3, <1>7 DEF RaSockInv, RaFlightInv, RaFlight, RaQuiet
  <1>9. RaDue(t)' + (IF what = RaBad THEN 1 ELSE 0) <= RaDue(t) /\ RaDue(t)' \in Nat /\ RaDue(t) \in Nat
    <2>1. raSock[t] \in {"open", "fin", "rst"}
      BY <1>1, <1>2 DEF RaThreadInv, RaSockInv, RaTypeOK
    <2>2. what = RaBad => raSock[t] # "open"
      BY <1>3 DEF RaBad
    <2>3. QED
      BY <1>2, <1>7, <2>1, <2>2 DEF RaDue
  <1>10. RaBudgetInv(t)'
    <2> DEFINE G == Cardinality(RaGarbage(t))
               x == IF what = RaBad THEN 1 ELSE 0
    <2>1. G + RaDue(t) <= 2 * raCrashes /\ G \in Nat /\ x \in Nat /\ raCrashes \in Nat
      BY <1>1, RaGarbageFinite DEF RaThreadInv, RaBudgetInv, RaTypeOK
    <2>2. Cardinality(RaGarbage(t)') = G + x /\ RaDue(t)' + x <= RaDue(t)
      BY <1>5, <1>9
    <2> HIDE DEF G, x
    <2>3. G + x + RaDue(t)' <= 2 * raCrashes
      BY <1>9, <2>1, <2>2
    <2>4. QED
      BY <1>2, <2>2, <2>3 DEF RaBudgetInv
  <1>11. QED
    BY <1>2, <1>5, <1>6, <1>8, <1>10, RaLocal DEF RaThreadInv

LEMMA RaHsmStep ==
  ASSUME RaIndInv, NEW t \in RaThread, RaHsmRead(t) \/ RaHsmSign(t)
  PROVE  RaIndInv'
  <1>1. RaThreadInv(t) /\ RaTypeOK
    BY DEF RaIndInv
  <1>2. UNCHANGED <<raUp, raCrashes, raSock, raPc, raCall, raGot>>
    BY DEF RaHsmRead, RaHsmSign
  <1>3. raSock[t] = "open" /\ raPc[t] = "read" /\ raCall[t] \in Nat \ {0}
    BY <1>1 DEF RaHsmRead, RaHsmSign, RaThreadInv, RaFlightInv, RaQuiet, RaGotInv, RaTypeOK
  <1>4. RaTypeOK' /\ RaOthers(t) /\ RaFlightInv(t)'
    <2>1. CASE RaHsmRead(t)
      <3>1. raWire[t] = <<raCall[t]>> /\ raSign[t] = 0 /\ raBack[t] = <<>>
        BY <1>1, <2>1 DEF RaHsmRead, RaThreadInv, RaFlightInv, RaFlight, RaQuiet
      <3>2. Head(raWire[t]) = raCall[t] /\ Tail(raWire[t]) = <<>>
        BY <1>3, <3>1
      <3>3. /\ raSign' = [raSign EXCEPT ![t] = raCall[t]] /\ raWire' = [raWire EXCEPT ![t] = <<>>]
            /\ raBack' = raBack
        BY <2>1, <3>2 DEF RaHsmRead
      <3>4. QED
        BY <1>1, <1>2, <1>3, <3>1, <3>3 DEF RaTypeOK, RaOthers, RaFlightInv, RaFlight
    <2>2. CASE RaHsmSign(t)
      <3>1. raWire[t] = <<>> /\ raSign[t] = raCall[t] /\ raBack[t] = <<>>
        BY <1>1, <2>2 DEF RaHsmSign, RaThreadInv, RaFlightInv, RaFlight, RaQuiet
      <3>2. /\ raBack' = [raBack EXCEPT ![t] = <<raCall[t]>>] /\ raSign' = [raSign EXCEPT ![t] = 0]
            /\ raWire' = raWire
        BY <1>3, <2>2, <3>1 DEF RaHsmSign
      <3>3. <<raCall[t]>> \in Seq(Nat)
        BY <1>3
      <3>4. RaTypeOK' /\ RaOthers(t)
        BY <1>1, <1>2, <1>3, <3>2, <3>3 DEF RaTypeOK, RaOthers
      <3>5. RaFlightInv(t)'
        BY <1>1, <1>2, <1>3, <3>1, <3>2 DEF RaTypeOK, RaFlightInv, RaFlight, RaQuiet
      <3>6. QED
        BY <3>4, <3>5
    <2>3. QED
      BY <2>1, <2>2
  <1>5. RaGotInv(t)' /\ RaSockInv(t)'
    BY <1>1, <1>2 DEF RaThreadInv, RaGotInv, RaSockInv
  <1>6. RaDue(t)' <= RaDue(t) /\ RaDue(t)' \in Nat
    BY <1>2, <1>3 DEF RaDue
  <1>7. QED
    BY <1>1, <1>2, <1>4, <1>5, <1>6, RaGoesOn, RaLocal

\* A crash ends what was under way, and pays for two garbage results.
LEMMA RaCrashStep ==
  ASSUME RaIndInv, RaCrash
  PROVE  RaIndInv'
  <1>1. RaTypeOK
    BY DEF RaIndInv
  <1>2. RaTypeOK'
    <2>1. <<>> \in Seq(Nat)
      OBVIOUS
    <2>2. raWire' \in [RaThread -> Seq(Nat)]
      BY <2>1 DEF RaCrash
    <2>3. raSock' \in [RaThread -> {"none", "open", "fin", "rst"}]
      BY <1>1 DEF RaTypeOK, RaCrash
    <2>4. raSign' \in [RaThread -> Nat] /\ raCrashes' \in Nat /\ raUp' \in BOOLEAN
      <3>1. raSign' = [t \in RaThread |-> 0] /\ raCrashes' = raCrashes + 1 /\ raUp' = FALSE
        BY DEF RaCrash
      <3>2. raSign' \in [RaThread -> Nat]
        BY <3>1
      <3>3. raCrashes' \in Nat
        BY <1>1, <3>1 DEF RaTypeOK
      <3>4. QED
        BY <3>1, <3>2, <3>3
    <2>5. UNCHANGED <<raBack, raPc, raCall, raGot>>
      BY DEF RaCrash
    <2>6. QED
      BY <1>1, <2>2, <2>3, <2>4, <2>5 DEF RaTypeOK
  <1>3. ASSUME NEW t \in RaThread PROVE RaThreadInv(t)'
    <2>1. RaThreadInv(t)
      BY DEF RaIndInv
    <2>2. /\ raBack' = raBack /\ raPc' = raPc /\ raCall' = raCall /\ raGot' = raGot
          /\ raCrashes' = raCrashes + 1 /\ raWire'[t] = <<>> /\ raSign'[t] = 0
          /\ raSock'[t] = IF raSock[t] # "open" THEN raSock[t] ELSE IF raWire[t] # <<>> THEN "rst" ELSE "fin"
      BY DEF RaCrash
    <2>3. RaGotInv(t)' /\ RaFlightInv(t)'
      BY <2>1, <2>2 DEF RaThreadInv, RaGotInv, RaFlightInv, RaFlight, RaQuiet
    <2>4. RaSockInv(t)'
      BY <2>1, <2>2 DEF RaThreadInv, RaSockInv, RaFlightInv, RaQuiet
    <2>5. RaDue(t)' <= RaDue(t) + 2 /\ RaDue(t)' \in Nat /\ RaDue(t) \in Nat
      BY <1>1, <2>2 DEF RaDue, RaTypeOK
    <2>6. RaGarbage(t)' = RaGarbage(t)
      BY <2>2 DEF RaGarbage
    <2>7. RaBudgetInv(t)'
      <3>1. Cardinality(RaGarbage(t)) + RaDue(t)' <= 2 * (raCrashes + 1)
        <4>1. Cardinality(RaGarbage(t)) + RaDue(t) <= 2 * raCrashes
          BY <2>1 DEF RaThreadInv, RaBudgetInv
        <4>2. Cardinality(RaGarbage(t)) \in Nat
          BY <1>1, RaGarbageFinite
        <4>3. raCrashes \in Nat
          BY <1>1 DEF RaTypeOK
        <4>4. QED
          BY <2>5, <4>1, <4>2, <4>3
      <3>2. QED
        BY <2>2, <2>6, <3>1 DEF RaBudgetInv
    <2>8. QED
      BY <2>3, <2>4, <2>7 DEF RaThreadInv
  <1>4. QED
    BY <1>2, <1>3 DEF RaIndInv

LEMMA RaNextInv == RaIndInv /\ [RaNext]_raVars => RaIndInv'
  <1> SUFFICES ASSUME RaIndInv, [RaNext]_raVars PROVE RaIndInv'
    OBVIOUS
  <1>1. CASE RaStart \/ UNCHANGED raVars
    <2>1. RaTypeOK'
      BY <1>1 DEF RaIndInv, RaTypeOK, RaStart, raVars
    <2>2. \A t \in RaThread : RaThreadInv(t)'
      BY <1>1, RaFrame DEF RaIndInv, RaStart, raVars
    <2>3. QED
      BY <2>1, <2>2 DEF RaIndInv
  <1>2. QED
    BY <1>1, RaBeginStep, RaConnectStep, RaWriteStep, RaReadStep, RaHsmStep, RaCrashStep DEF RaNext, RaStep

\* accel_encrypt() over a connection that a crash of the signer may cut at any
\* point: a call gets its own signature or none, never one that an earlier
\* request left behind, and each crash costs a thread at most two results.
THEOREM RaCorrect == RaSpec => []RaResults
  <1>1. ASSUME RaIndInv PROVE RaResults
    <2>1. RaOwnSignature
      BY <1>1 DEF RaIndInv, RaThreadInv, RaGotInv, RaBad, RaOwnSignature
    <2>2. ASSUME NEW t \in RaThread PROVE Cardinality(RaGarbage(t)) <= 2 * raCrashes
      <3>1. RaDue(t) \in Nat /\ Cardinality(RaGarbage(t)) + RaDue(t) <= 2 * raCrashes
        BY <1>1 DEF RaIndInv, RaThreadInv, RaBudgetInv, RaDue
      <3>2. QED
        BY <1>1, <3>1, RaGarbageFinite DEF RaIndInv, RaTypeOK
    <2>3. RaGarbageBounded
      BY <2>2 DEF RaGarbageBounded, RaGarbage, RaBad
    <2>4. QED
      BY <2>1, <2>3 DEF RaResults
  <1>2. QED
    BY <1>1, RaInitInv, RaNextInv, PTL DEF RaSpec

-----------------------------------------------------------------------------
(* The closed-loop benchmarks. *)

\* What the records of obTask and obSlot may be.
ObTaskRec == [pc : {"top", "submit", "deadline", "active", "wait"}, waiting : BOOLEAN, finished : BOOLEAN]
ObSlotRec == [active : BOOLEAN, done : BOOLEAN, past : BOOLEAN, efd : Nat]
ObDevRec == [slot : 1..ObC, pc : {"active", "done", "deadline", "finish", "write"}]

ObTypeOK ==
    /\ obLib \in {"accel_compare", "gpu_runtime"} /\ obMode \in {"busy", "block", "coro"}
    /\ obTask \in [1..ObC -> ObTaskRec] /\ obSlot \in [1..ObC -> ObSlotRec]
    /\ obBuf \in [1..ObC -> Nat] /\ obDev \in ObDevRec
    /\ obCur \in 0..ObC
    /\ obAt \in 1..(2 * ObC + 1)

\* Where a connection has an offload that it has asked for and not gone on from.
ObOut == {"deadline", "active", "wait"}

\* A connection, its slot and its count: an offload that is out was done once if
\* it is marked done and otherwise not at all; a slot is active without being
\* done only for an offload that is out; a count in the eventfd belongs to one.
ObConnOK(T, S, b) ==
    /\ T.waiting => T.pc = "wait" /\ obMode = "coro"
    /\ obMode = "coro" /\ T.pc = "wait" /\ ~T.waiting => S.done
    /\ T.pc \in ObOut => b = IF S.done THEN 1 ELSE 0
    /\ T.pc = "submit" => b = 0
    /\ T.pc \notin ObOut /\ S.active => S.done
    /\ ObGpu => T.pc \in {"top", "submit", "wait"} /\ obMode # "block"
    /\ S.efd > 0 => S.done /\ T.pc \in ObOut

\* What the device thread has seen of its slot still holds when it finishes: the
\* offload is out and not done, whatever active and deadline were then.
ObDevOK(d, T, S) ==
    /\ ObGpu => d.pc = "active"
    /\ d.pc = "done" => T.pc \in ObOut \/ S.done
    /\ d.pc \in {"deadline", "finish"} => T.pc \in ObOut /\ ~S.done
    /\ d.pc = "write" => T.pc \in ObOut /\ S.done /\ S.efd = 0 /\ obMode = "block"

ObIndInv ==
    /\ ObTypeOK
    /\ \A i \in 1..ObC : ObConnOK(obTask[i], obSlot[i], obBuf[i])
    /\ obCur # 0 => ~obTask[obCur].waiting
    /\ ObDevOK(obDev, obTask[obDev.slot], obSlot[obDev.slot])
    /\ ObResultReady

LEMMA ObInitInv == ObInit => ObIndInv
  <1> SUFFICES ASSUME ObInit PROVE ObIndInv
    OBVIOUS
  <1> USE ObAssumption DEF ObInit
  <1>1. ObTypeOK
    BY DEF ObTypeOK, ObTaskRec, ObSlotRec, ObDevRec
  <1>2. \A i \in 1..ObC : ObConnOK(obTask[i], obSlot[i], obBuf[i])
    BY DEF ObConnOK, ObOut, ObGpu
  <1>3. ObDevOK(obDev, obTask[obDev.slot], obSlot[obDev.slot])
    BY DEF ObDevOK
  <1>4. QED
    BY <1>1, <1>2, <1>3 DEF ObIndInv, ObResultReady

\* A step of one connection, of its slot or of the device at its slot: the
\* records of the others stay.
LEMMA ObLocal ==
  ASSUME ObIndInv, NEW i \in 1..ObC, NEW p \in ObTaskRec, NEW s \in ObSlotRec, NEW b \in Nat,
         obTask' = [obTask EXCEPT ![i] = p], obSlot' = [obSlot EXCEPT ![i] = s],
         obBuf' = [obBuf EXCEPT ![i] = b], UNCHANGED <<obLib, obMode>>,
         obCur' \in {0, obCur}, p.waiting => obCur' # i, obAt' \in 1..(2 * ObC + 1),
         ObConnOK(p, s, b), obDev' \in ObDevRec,
         \/ obDev'.pc = "active"
         \/ obDev'.slot = i /\ ObDevOK(obDev', p, s)
         \/ obDev'.slot # i /\ obDev' = obDev,
         ObResultReady'
  PROVE  ObIndInv'
  <1>1. /\ obTask'[i] = p /\ obSlot'[i] = s /\ obBuf'[i] = b
        /\ \A j \in 1..ObC : j # i => obTask'[j] = obTask[j] /\ obSlot'[j] = obSlot[j] /\ obBuf'[j] = obBuf[j]
    BY DEF ObIndInv, ObTypeOK
  <1>2. ObTypeOK'
    BY ObAssumption DEF ObIndInv, ObTypeOK
  <1>3. ASSUME NEW j \in 1..ObC PROVE ObConnOK(obTask[j], obSlot[j], obBuf[j])'
    <2>1. ObConnOK(obTask'[j], obSlot'[j], obBuf'[j])
      BY <1>1 DEF ObIndInv
    <2>2. QED
      BY <2>1 DEF ObConnOK, ObGpu
  <1>4. (obCur # 0 => ~obTask[obCur].waiting)'
    <2>1. CASE obCur' = 0
      BY <2>1
    <2>2. CASE obCur' = obCur /\ obCur # 0 /\ obCur # i
      BY <1>1, <2>2, ObAssumption DEF ObIndInv, ObTypeOK
    <2>3. CASE obCur' = obCur /\ obCur = i
      BY <1>1, <2>3
    <2>4. QED
      BY <2>1, <2>2, <2>3
  <1>5. ObDevOK(obDev, obTask[obDev.slot], obSlot[obDev.slot])'
    <2>1. obDev'.slot \in 1..ObC
      BY DEF ObDevRec
    <2>2. ObDevOK(obDev', obTask'[obDev'.slot], obSlot'[obDev'.slot])
      <3>1. CASE obDev'.pc = "active"
        BY <3>1 DEF ObDevOK
      <3>2. CASE obDev'.slot = i /\ ObDevOK(obDev', p, s)
        BY <1>1, <3>2
      <3>3. CASE obDev'.slot # i /\ obDev' = obDev
        BY <1>1, <2>1, <3>3 DEF ObIndInv
      <3>4. QED
        BY <3>1, <3>2, <3>3
    <2>3. QED
      BY <2>2 DEF ObDevOK, ObGpu
  <1>6. QED
    BY <1>2, <1>3, <1>4, <1>5 DEF ObIndInv

\* The facts of the invariant about one connection.
LEMMA ObFacts ==
  ASSUME ObIndInv, NEW i \in 1..ObC
  PROVE  /\ obTask[i] \in ObTaskRec /\ obSlot[i] \in ObSlotRec /\ obBuf[i] \in Nat
         /\ obTask = [obTask EXCEPT ![i] = obTask[i]]
         /\ obSlot = [obSlot EXCEPT ![i] = obSlot[i]]
         /\ obBuf = [obBuf EXCEPT ![i] = obBuf[i]]
         /\ ObConnOK(obTask[i], obSlot[i], obBuf[i])
         /\ obDev \in ObDevRec /\ obAt \in 1..(2 * ObC + 1)
         /\ obDev.slot = i => ObDevOK(obDev, obTask[i], obSlot[i])
  BY DEF ObIndInv, ObTypeOK

\* A step that leaves the device thread where it is only has to respect what it
\* has seen of this slot.
LEMMA ObDevStays ==
  ASSUME NEW i \in 1..ObC, NEW p, NEW s, obDev' = obDev,
         obDev.slot = i => ObDevOK(obDev, p, s)
  PROVE  \/ obDev'.pc = "active"
         \/ obDev'.slot = i /\ ObDevOK(obDev', p, s)
         \/ obDev'.slot # i /\ obDev' = obDev
  OBVIOUS

LEMMA ObTopStep ==
  ASSUME ObIndInv, NEW i \in 1..ObC, ObTop(i)
  PROVE  ObIndInv'
  <1> DEFINE p == IF obStop THEN [obTask[i] EXCEPT !.finished = TRUE] ELSE [obTask[i] EXCEPT !.pc = "submit"]
  <1>1. /\ obTask[i].pc = "top" /\ obTask' = [obTask EXCEPT ![i] = p]
        /\ obSlot' = obSlot /\ obBuf' = [obBuf EXCEPT ![i] = 0]
        /\ obCur' \in {0, obCur} /\ UNCHANGED <<obLib, obMode, obAt, obDev, obBad>>
    BY DEF ObTop, ObGoto, ObIndInv, ObTypeOK
  <1>2. /\ p \in ObTaskRec /\ p.pc \in {"top", "submit"} /\ p.waiting = obTask[i].waiting
    BY <1>1, ObFacts DEF ObTaskRec
  <1> HIDE DEF p
  <1>3. ~obTask[i].waiting
    BY <1>1, ObFacts DEF ObConnOK
  <1>4. ObConnOK(p, obSlot[i], 0)
    BY <1>1, <1>2, <1>3, ObFacts DEF ObConnOK, ObOut
  <1>5. obDev.slot = i => ObDevOK(obDev, p, obSlot[i])
    BY <1>1, <1>2, ObFacts DEF ObDevOK, ObOut
  <1>6. ObResultReady'
    BY <1>1 DEF ObIndInv, ObResultReady
  <1>7. QED
    BY <1>1, <1>2, <1>3, <1>4, <1>5, <1>6, ObFacts, ObDevStays, ObLocal

LEMMA ObSubmitStep ==
  ASSUME ObIndInv, NEW i \in 1..ObC, ObSubmit(i)
  PROVE  ObIndInv'
  <1> DEFINE T == obTask[i]
             S == obSlot[i]
  <1>1. /\ ~ObGpu /\ ~T.waiting /\ obBuf' = obBuf /\ i # 0
        /\ UNCHANGED <<obLib, obMode, obAt, obDev, obBad>>
    <2>1. T.pc # "wait"
      BY DEF ObSubmit
    <2>2. QED
      BY <2>1, ObFacts, ObAssumption DEF ObSubmit, ObConnOK
  <1>2. ObResultReady'
    BY <1>1 DEF ObIndInv, ObResultReady
  <1>3. T \in ObTaskRec /\ S \in ObSlotRec /\ ObConnOK(T, S, obBuf[i])
    BY ObFacts
  <1>4. CASE T.pc = "submit"
    <2> DEFINE p == [T EXCEPT !.pc = "deadline"]
               s == [S EXCEPT !.done = FALSE]
    <2>1. obTask' = [obTask EXCEPT ![i] = p] /\ obSlot' = [obSlot EXCEPT ![i] = s] /\ obCur' = obCur
      BY <1>4 DEF ObSubmit, ObGoto, ObIndInv, ObTypeOK
    <2>2. p \in ObTaskRec /\ p.pc = "deadline" /\ ~p.waiting
      BY <1>1, <1>3 DEF ObTaskRec
    <2>3. s \in ObSlotRec /\ ~s.done /\ s.active = S.active /\ s.efd = S.efd
      BY <1>3 DEF ObSlotRec
    <2> HIDE DEF p, s
    <2>4. S.efd = 0
      BY <1>3, <1>4 DEF ObConnOK, ObOut, ObSlotRec
    <2>5. ObConnOK(p, s, obBuf[i])
      BY <1>1, <1>3, <1>4, <2>2, <2>3, <2>4 DEF ObConnOK, ObOut
    <2>6. obDev.slot = i => ObDevOK(obDev, p, s)
      BY <1>4, <2>2, <2>3, ObFacts DEF ObDevOK, ObOut
    <2> HIDE DEF T, S
    <2>7. QED
      BY <1>1, <1>2, <2>1, <2>2, <2>3, <2>5, <2>6, ObFacts, ObDevStays, ObLocal
  <1>5. CASE T.pc = "deadline"
    <2> DEFINE p == [T EXCEPT !.pc = "active"]
               s == [S EXCEPT !.past = FALSE]
    <2>1. obTask' = [obTask EXCEPT ![i] = p] /\ obSlot' = [obSlot EXCEPT ![i] = s] /\ obCur' = obCur
      BY <1>5 DEF ObSubmit, ObGoto, ObIndInv, ObTypeOK
    <2>2. p \in ObTaskRec /\ p.pc = "active" /\ ~p.waiting
      BY <1>1, <1>3 DEF ObTaskRec
    <2>3. s \in ObSlotRec /\ s.done = S.done /\ s.active = S.active /\ s.efd = S.efd
      BY <1>3 DEF ObSlotRec
    <2> HIDE DEF p, s
    <2>4. ObConnOK(p, s, obBuf[i])
      BY <1>1, <1>3, <1>5, <2>2, <2>3 DEF ObConnOK, ObOut
    <2>5. obDev.slot = i => ObDevOK(obDev, p, s)
      BY <1>5, <2>2, <2>3, ObFacts DEF ObDevOK, ObOut
    <2> HIDE DEF T, S
    <2>6. QED
      BY <1>1, <1>2, <2>1, <2>2, <2>3, <2>4, <2>5, ObFacts, ObDevStays, ObLocal
  <1>6. CASE T.pc = "active"
    <2> DEFINE p == [pc |-> "wait", waiting |-> obMode = "coro", finished |-> T.finished]
               s == [S EXCEPT !.active = TRUE]
    <2>1. obTask' = [obTask EXCEPT ![i] = p] /\ obSlot' = [obSlot EXCEPT ![i] = s] /\ obCur' = 0
      BY <1>6, ObFacts DEF ObSubmit, ObPark, ObIndInv, ObTypeOK, ObTaskRec
    <2>2. p \in ObTaskRec /\ p.pc = "wait" /\ (p.waiting <=> obMode = "coro")
      BY <1>3 DEF ObTaskRec
    <2>3. s \in ObSlotRec /\ s.done = S.done /\ s.efd = S.efd
      BY <1>3 DEF ObSlotRec
    <2> HIDE DEF p, s
    <2>4. ObConnOK(p, s, obBuf[i])
      BY <1>1, <1>3, <1>6, <2>2, <2>3 DEF ObConnOK, ObOut
    <2>5. obDev.slot = i => ObDevOK(obDev, p, s)
      BY <1>6, <2>2, <2>3, ObFacts DEF ObDevOK, ObOut
    <2> HIDE DEF T, S
    <2>6. QED
      BY <1>1, <1>2, <2>1, <2>2, <2>3, <2>4, <2>5, ObFacts, ObDevStays, ObLocal
  <1>7. QED
    BY <1>4, <1>5, <1>6 DEF ObSubmit

LEMMA ObLaunchStep ==
  ASSUME ObIndInv, NEW i \in 1..ObC, ObLaunch(i)
  PROVE  ObIndInv'
  <1> DEFINE p1 == [obTask[i] EXCEPT !.pc = "wait"]
             p == [p1 EXCEPT !.waiting = obMode = "coro"]
             s1 == [obSlot[i] EXCEPT !.active = TRUE]
             s == [s1 EXCEPT !.done = FALSE]
  <1>1. /\ ObGpu /\ obTask[i].pc = "submit" /\ obCur' = 0 /\ i # 0
        /\ UNCHANGED <<obLib, obMode, obAt, obDev, obBad, obBuf>>
    BY ObAssumption DEF ObLaunch, ObPark
  <1>2. obTask' = [obTask EXCEPT ![i] = p] /\ obSlot' = [obSlot EXCEPT ![i] = s]
    BY DEF ObLaunch, ObPark, ObIndInv, ObTypeOK
  <1>3. p1 \in ObTaskRec /\ p1.pc = "wait"
    BY ObFacts DEF ObTaskRec
  <1>4. s1 \in ObSlotRec /\ s1.efd = obSlot[i].efd
    BY ObFacts DEF ObSlotRec
  <1> HIDE DEF p1, s1
  <1>5. p \in ObTaskRec /\ p.pc = "wait" /\ (p.waiting <=> obMode = "coro")
    BY <1>3 DEF ObTaskRec
  <1>6. s \in ObSlotRec /\ ~s.done /\ s.efd = obSlot[i].efd
    BY <1>4 DEF ObSlotRec
  <1> HIDE DEF p, s
  <1>7. ObConnOK(p, s, obBuf[i])
    BY <1>1, <1>5, <1>6, ObFacts DEF ObConnOK, ObOut
  <1>8. obDev.pc = "active"
    BY <1>1 DEF ObIndInv, ObDevOK
  <1>9. ObResultReady'
    BY <1>1 DEF ObIndInv, ObResultReady
  <1>10. QED
    BY <1>1, <1>2, <1>5, <1>6, <1>7, <1>8, <1>9, ObFacts, ObLocal

\* The connection goes on: what it waited for says that its offload is done.
LEMMA ObPostStep ==
  ASSUME ObIndInv, NEW i \in 1..ObC, ObPost(i)
  PROVE  ObIndInv'
  <1> DEFINE p == [obTask[i] EXCEPT !.pc = "top"]
             s == [obSlot[i] EXCEPT !.efd = 0]
  <1>1. /\ obTask[i].pc = "wait" /\ UNCHANGED <<obLib, obMode, obAt, obBuf, obCur, obDev>>
        /\ obTask' = [obTask EXCEPT ![i] = p] /\ obSlot' = [obSlot EXCEPT ![i] = s]
    BY DEF ObPost, ObGoto, ObIndInv, ObTypeOK
  <1>2. p \in ObTaskRec /\ p.pc = "top" /\ p.waiting = obTask[i].waiting
    BY <1>1, ObFacts DEF ObTaskRec
  <1>3. s \in ObSlotRec /\ s.done = obSlot[i].done /\ s.active = obSlot[i].active /\ s.efd = 0
    BY <1>1, ObFacts DEF ObSlotRec
  <1> HIDE DEF p, s
  <1>4. ~obTask[i].waiting
    <2>1. obMode = "coro" => obCur = i
      BY DEF ObPost, ObRuns
    <2>2. i # 0
      BY ObAssumption
    <2>3. QED
      BY <2>1, <2>2, ObFacts DEF ObIndInv, ObConnOK
  <1>5. obSlot[i].done
    <2>1. obMode \in {"busy", "block", "coro"}
      BY DEF ObIndInv, ObTypeOK
    <2>2. QED
      BY <1>1, <1>4, <2>1, ObFacts DEF ObPost, ObAwaited, ObConnOK
  <1>6. ObConnOK(p, s, obBuf[i])
    BY <1>2, <1>3, <1>4, <1>5, ObFacts DEF ObConnOK, ObOut
  <1>7. obDev.slot = i => ObDevOK(obDev, p, s)
    <2>1. ASSUME obDev.slot = i PROVE obDev.pc # "write"
      <3>1. ObDevOK(obDev, obTask[i], obSlot[i]) /\ obSlot[i] \in ObSlotRec
        BY <2>1, ObFacts
      <3>2. obMode = "block" => obSlot[i].efd > 0
        BY DEF ObPost, ObAwaited
      <3>3. QED
        BY <3>1, <3>2 DEF ObDevOK, ObSlotRec
    <2>2. QED
      BY <1>2, <1>3, <1>5, <2>1, ObFacts DEF ObDevOK, ObOut
  <1>8. ObResultReady'
    <2>1. obBuf[i] = 1
      BY <1>1, <1>5, ObFacts DEF ObConnOK, ObOut
    <2>2. obBad' = obBad \cup {} \cup (IF obSlot[i].past THEN {} ELSE {<<i, "latency">>})
      BY <2>1 DEF ObPost
    <2>3. \A x \in obBad' : x \in obBad \/ x = <<i, "latency">>
      BY <2>2
    <2>4. QED
      BY <2>3 DEF ObIndInv, ObResultReady
  <1>9. QED
    BY <1>1, <1>2, <1>3, <1>4, <1>6, <1>7, <1>8, ObFacts, ObDevStays, ObLocal

\* The scheduler finds an offload over: its connection need not wait, and a slot
\* that is done may cease to be active.
LEMMA ObScanStep ==
  ASSUME ObIndInv, ObScan
  PROVE  ObIndInv'
  <1>1. /\ UNCHANGED <<obLib, obMode, obBuf, obCur, obDev, obBad>> /\ obMode = "coro"
        /\ obAt \in 1..ObC /\ obAt' = obAt + 1
    BY DEF ObScan
  <1>2. ObResultReady' /\ obAt' \in 1..(2 * ObC + 1)
    BY <1>1, ObAssumption DEF ObIndInv, ObResultReady
  <1>3. CASE obTask[obAt].waiting /\ obSlot[obAt].done
    <2>1. PICK i \in 1..ObC : i = obAt
      BY <1>1
    <2> DEFINE p == [obTask[i] EXCEPT !.waiting = FALSE]
               s == [obSlot[i] EXCEPT !.active = FALSE]
    <2>2. obTask' = [obTask EXCEPT ![i] = p] /\ obSlot' = [obSlot EXCEPT ![i] = s]
      BY <1>3, <2>1 DEF ObScan, ObIndInv, ObTypeOK
    <2>3. p \in ObTaskRec /\ p.pc = obTask[i].pc /\ ~p.waiting
      BY ObFacts DEF ObTaskRec
    <2>4. s \in ObSlotRec /\ s.done = obSlot[i].done /\ ~s.active /\ s.efd = obSlot[i].efd
      BY ObFacts DEF ObSlotRec
    <2> HIDE DEF p, s
    <2>5. ObConnOK(p, s, obBuf[i])
      BY <1>3, <2>1, <2>3, <2>4, ObFacts DEF ObConnOK
    <2>6. obDev.slot = i => ObDevOK(obDev, p, s)
      BY <2>3, <2>4, ObFacts DEF ObDevOK
    <2>7. QED
      BY <1>1, <1>2, <2>2, <2>3, <2>4, <2>5, <2>6, ObFacts, ObDevStays, ObLocal
  <1>4. CASE ~(obTask[obAt].waiting /\ obSlot[obAt].done)
    <2>1. obTask' = obTask /\ obSlot' = obSlot
      BY <1>4 DEF ObScan
    <2>2. ObTypeOK'
      BY <1>1, <1>2, <2>1 DEF ObIndInv, ObTypeOK
    <2>3. QED
      BY <1>1, <1>2, <2>1, <2>2 DEF ObIndInv, ObConnOK, ObDevOK, ObGpu
  <1>5. QED
    BY <1>3, <1>4

\* Steps that leave connections, slots and the device alone.
LEMMA ObSchedStep ==
  ASSUME ObIndInv, ObVisit \/ ObPassEnd \/ ObJoin \/ ObTimer
  PROVE  ObIndInv'
  <1>1. UNCHANGED <<obLib, obMode, obTask, obSlot, obBuf, obDev, obBad>>
    BY DEF ObVisit, ObPassEnd, ObJoin, ObTimer
  <1>2. obAt' \in 1..(2 * ObC + 1) /\ obCur' \in 0..ObC /\ (obCur' # 0 => ~obTask[obCur'].waiting)
    <2>1. CASE ObVisit
      <3>1. obAt \in Int /\ obAt - ObC \in 1..ObC
        BY <2>1 DEF ObVisit, ObIndInv, ObTypeOK
      <3>2. QED
        BY <2>1, <3>1, ObAssumption DEF ObVisit
    <2>2. CASE ObPassEnd \/ ObJoin \/ ObTimer
      BY <2>2, ObAssumption DEF ObPassEnd, ObJoin, ObTimer, ObIndInv, ObTypeOK
    <2>3. QED
      BY <2>1, <2>2
  <1>3. ObTypeOK'
    BY <1>1, <1>2 DEF ObIndInv, ObTypeOK
  <1>4. QED
    BY <1>1, <1>2, <1>3 DEF ObIndInv, ObConnOK, ObDevOK, ObResultReady, ObGpu

LEMMA ObNextSlotType ==
  ASSUME ObIndInv
  PROVE  ObNextSlot \in ObDevRec /\ ObNextSlot.pc = "active"
  BY ObAssumption DEF ObNextSlot, ObDevRec, ObIndInv, ObTypeOK

\* The three loads: each keeps what the thread has seen of the slot.
LEMMA ObLookStep ==
  ASSUME ObIndInv, ObLook
  PROVE  ObIndInv'
  <1> DEFINE T == obTask[obDev.slot]
             S == obSlot[obDev.slot]
  <1>1. UNCHANGED <<obLib, obMode, obTask, obSlot, obBuf, obAt, obCur, obBad>> /\ ~ObGpu
    BY DEF ObLook
  <1>2. obDev \in ObDevRec /\ obDev.slot \in 1..ObC
    BY DEF ObIndInv, ObTypeOK, ObDevRec
  <1>3. ObConnOK(T, S, obBuf[obDev.slot]) /\ ObDevOK(obDev, T, S)
    BY <1>2 DEF ObIndInv
  <1>4. \/ obDev' = ObNextSlot
        \/ obDev' = [obDev EXCEPT !.pc = "done"] /\ S.active
        \/ obDev' = [obDev EXCEPT !.pc = "deadline"] /\ obDev.pc = "done" /\ ~S.done
        \/ obDev' = [obDev EXCEPT !.pc = "finish"] /\ obDev.pc = "deadline"
    BY DEF ObLook
  <1>5. obDev' \in ObDevRec /\ (obDev'.pc = "active" \/ (obDev'.slot = obDev.slot /\ ObDevOK(obDev', T, S)))
    <2>1. CASE obDev' = ObNextSlot
      BY <2>1, ObNextSlotType
    <2>2. CASE obDev' = [obDev EXCEPT !.pc = "done"] /\ S.active
      <3>1. obDev' \in ObDevRec /\ obDev'.slot = obDev.slot /\ obDev'.pc = "done"
        BY <1>2, <2>2 DEF ObDevRec
      <3>2. T.pc \in ObOut \/ S.done
        BY <1>3, <2>2 DEF ObConnOK
      <3>3. QED
        BY <1>1, <3>1, <3>2 DEF ObDevOK
    <2>3. CASE obDev' = [obDev EXCEPT !.pc = "deadline"] /\ obDev.pc = "done" /\ ~S.done
      <3>1. obDev' \in ObDevRec /\ obDev'.slot = obDev.slot /\ obDev'.pc = "deadline"
        BY <1>2, <2>3 DEF ObDevRec
      <3>2. QED
        BY <1>1, <1>3, <2>3, <3>1 DEF ObDevOK
    <2>4. CASE obDev' = [obDev EXCEPT !.pc = "finish"] /\ obDev.pc = "deadline"
      <3>1. obDev' \in ObDevRec /\ obDev'.slot = obDev.slot /\ obDev'.pc = "finish"
        BY <1>2, <2>4 DEF ObDevRec
      <3>2. QED
        BY <1>1, <1>3, <2>4, <3>1 DEF ObDevOK
    <2>5. QED
      BY <1>4, <2>1, <2>2, <2>3, <2>4
  <1>6. ObTypeOK'
    BY <1>1, <1>5 DEF ObIndInv, ObTypeOK
  <1>7. ObDevOK(obDev', obTask'[obDev'.slot], obSlot'[obDev'.slot])
    <2>1. CASE obDev'.pc = "active"
      BY <2>1 DEF ObDevOK
    <2>2. CASE obDev'.slot = obDev.slot /\ ObDevOK(obDev', T, S)
      BY <1>1, <2>2
    <2>3. QED
      BY <1>5, <2>1, <2>2
  <1> HIDE DEF T, S
  <1>8. QED
    BY <1>1, <1>6, <1>7 DEF ObIndInv, ObConnOK, ObDevOK, ObResultReady, ObGpu

\* The device marks the offload done, or writes to its eventfd.
LEMMA ObDeviceStep ==
  ASSUME ObIndInv, ObDevice
  PROVE  ObIndInv'
  <1>1. PICK i \in 1..ObC : i = obDev.slot
    BY DEF ObIndInv, ObTypeOK, ObDevRec
  <1> DEFINE T == obTask[i]
             S == obSlot[i]
  <1>2. /\ UNCHANGED <<obLib, obMode, obTask, obAt, obCur, obBad>> /\ ~ObGpu
    BY DEF ObDevice
  <1>3. ObResultReady'
    BY <1>2 DEF ObIndInv, ObResultReady
  <1>4. /\ T \in ObTaskRec /\ S \in ObSlotRec /\ obBuf[i] \in Nat /\ obDev \in ObDevRec
        /\ ObConnOK(T, S, obBuf[i]) /\ ObDevOK(obDev, T, S)
        /\ obTask' = [obTask EXCEPT ![i] = T] /\ obAt' \in 1..(2 * ObC + 1)
    BY <1>1, <1>2, ObFacts
  <1>5. T.waiting => obCur' # i
    BY <1>2, ObAssumption DEF ObIndInv
  <1>6. CASE obDev.pc = "finish"
    <2> DEFINE s == [S EXCEPT !.done = TRUE]
    <2>1. /\ obSlot' = [obSlot EXCEPT ![i] = s] /\ obBuf' = [obBuf EXCEPT ![i] = obBuf[i] + 1]
          /\ obDev' = IF obMode = "block" THEN [obDev EXCEPT !.pc = "write"] ELSE ObNextSlot
      BY <1>1, <1>6 DEF ObDevice, ObIndInv, ObTypeOK
    <2>2. s \in ObSlotRec /\ s.done /\ s.efd = S.efd
      BY <1>4 DEF ObSlotRec
    <2> HIDE DEF s
    <2>3. T.pc \in ObOut /\ ~S.done /\ obBuf[i] = 0 /\ S.efd = 0
      BY <1>4, <1>6 DEF ObDevOK, ObConnOK, ObSlotRec
    <2>4. obBuf' = [obBuf EXCEPT ![i] = 1] /\ ObConnOK(T, s, 1)
      BY <1>2, <1>4, <2>1, <2>2, <2>3 DEF ObConnOK, ObOut
    <2>5. obDev' \in ObDevRec /\ (obDev'.pc = "active" \/ (obDev'.slot = i /\ ObDevOK(obDev', T, s)))
      <3>1. CASE obMode = "block"
        <4>1. obDev' \in ObDevRec /\ obDev'.slot = i /\ obDev'.pc = "write"
          BY <1>1, <1>4, <2>1, <3>1 DEF ObDevRec
        <4>2. QED
          BY <1>2, <2>2, <2>3, <3>1, <4>1 DEF ObDevOK
      <3>2. CASE obMode # "block"
        BY <2>1, <3>2, ObNextSlotType
      <3>3. QED
        BY <3>1, <3>2
    <2> HIDE DEF T, S
    <2>6. QED
      BY <1>2, <1>3, <1>4, <1>5, <2>1, <2>2, <2>4, <2>5, ObLocal
  <1>7. CASE obDev.pc = "write"
    <2> DEFINE s == [S EXCEPT !.efd = S.efd + 1]
    <2>1. /\ obSlot' = [obSlot EXCEPT ![i] = s] /\ obBuf' = [obBuf EXCEPT ![i] = obBuf[i]]
          /\ obDev' = ObNextSlot
      BY <1>1, <1>7 DEF ObDevice, ObIndInv, ObTypeOK
    <2>2. s \in ObSlotRec /\ s.done = S.done /\ s.active = S.active
      BY <1>4 DEF ObSlotRec
    <2> HIDE DEF s
    <2>3. ObConnOK(T, s, obBuf[i])
      BY <1>4, <1>7, <2>2 DEF ObDevOK, ObConnOK
    <2>4. obDev' \in ObDevRec /\ obDev'.pc = "active"
      BY <2>1, ObNextSlotType
    <2> HIDE DEF T, S
    <2>5. QED
      BY <1>2, <1>3, <1>4, <1>5, <2>1, <2>2, <2>3, <2>4, ObLocal
  <1>8. QED
    BY <1>6, <1>7 DEF ObDevice

\* The latency and the stream of one slot.
LEMMA ObUnitStep ==
  ASSUME ObIndInv, NEW i \in 1..ObC, ObUnit(i)
  PROVE  ObIndInv'
  <1> DEFINE T == obTask[i]
             S == obSlot[i]
  <1>1. /\ ObResultReady' /\ UNCHANGED <<obLib, obMode, obTask, obAt, obCur, obDev>>
    BY DEF ObUnit, ObLatency, ObStream, ObIndInv, ObResultReady
  <1>2. /\ T \in ObTaskRec /\ S \in ObSlotRec /\ obBuf[i] \in Nat /\ obDev' \in ObDevRec
        /\ ObConnOK(T, S, obBuf[i]) /\ (obDev.slot = i => ObDevOK(obDev, T, S))
        /\ obTask' = [obTask EXCEPT ![i] = T] /\ obAt' \in 1..(2 * ObC + 1)
    BY <1>1, ObFacts
  <1>3. T.waiting => obCur' # i
    BY <1>1, ObAssumption DEF ObIndInv
  <1>4. CASE ObLatency(i)
    <2> DEFINE s == [S EXCEPT !.past = TRUE]
    <2>1. obSlot' = [obSlot EXCEPT ![i] = s] /\ obBuf' = [obBuf EXCEPT ![i] = obBuf[i]]
      BY <1>4 DEF ObLatency, ObIndInv, ObTypeOK
    <2>2. s \in ObSlotRec /\ s.done = S.done /\ s.active = S.active /\ s.efd = S.efd
      BY <1>2 DEF ObSlotRec
    <2> HIDE DEF s
    <2>3. ObConnOK(T, s, obBuf[i]) /\ (obDev.slot = i => ObDevOK(obDev, T, s))
      BY <1>2, <2>2 DEF ObConnOK, ObDevOK
    <2> HIDE DEF T, S
    <2>4. QED
      BY <1>1, <1>2, <1>3, <2>1, <2>2, <2>3, ObDevStays, ObLocal
  <1>5. CASE ObStream(i)
    <2> DEFINE s == [S EXCEPT !.done = TRUE]
    <2>1. /\ obSlot' = [obSlot EXCEPT ![i] = s] /\ obBuf' = [obBuf EXCEPT ![i] = obBuf[i] + 1]
          /\ ObGpu /\ S.active /\ ~S.done
      BY <1>5 DEF ObStream, ObIndInv, ObTypeOK
    <2>2. s \in ObSlotRec /\ s.done /\ s.efd = S.efd
      BY <1>2 DEF ObSlotRec
    <2> HIDE DEF s
    <2>3. T.pc \in ObOut /\ obBuf[i] = 0
      BY <1>2, <2>1 DEF ObConnOK
    <2>4. obBuf' = [obBuf EXCEPT ![i] = 1] /\ ObConnOK(T, s, 1)
      BY <1>2, <2>1, <2>2, <2>3 DEF ObConnOK, ObOut
    <2>5. obDev'.pc = "active"
      BY <1>1, <2>1 DEF ObIndInv, ObDevOK
    <2> HIDE DEF T, S
    <2>6. QED
      BY <1>1, <1>2, <1>3, <2>1, <2>2, <2>4, <2>5, ObLocal
  <1>6. QED
    BY <1>4, <1>5 DEF ObUnit

LEMMA ObNextInv == ObIndInv /\ [ObNext]_obVars => ObIndInv'
  <1> SUFFICES ASSUME ObIndInv, [ObNext]_obVars PROVE ObIndInv'
    OBVIOUS
  <1>1. ASSUME NEW i \in 1..ObC, ObBody(i) PROVE ObIndInv'
    BY <1>1, ObTopStep, ObSubmitStep, ObLaunchStep, ObPostStep DEF ObBody
  <1>2. CASE ObSched
    <2>1. obCur \in 0..ObC
      BY DEF ObIndInv, ObTypeOK
    <2>2. obCur # 0 => obCur \in 1..ObC
      BY <2>1, ObAssumption
    <2>3. QED
      BY <1>1, <1>2, <2>2, ObScanStep, ObSchedStep DEF ObSched
  <1>3. CASE UNCHANGED obVars
    BY <1>3 DEF obVars, ObIndInv, ObTypeOK, ObConnOK, ObDevOK, ObResultReady, ObGpu
  <1>4. QED
    BY <1>1, <1>2, <1>3, ObUnitStep, ObLookStep, ObDeviceStep, ObSchedStep DEF ObNext

\* device_fn() or a CUDA stream with the connections of every mode: when a
\* connection goes on, its offload has been done exactly once since it was
\* prepared, although the device may act on loads that are out of date; for any
\* number of connections.  That the latency is then over is not claimed.
THEOREM ObCorrect == ObSpec => []ObResultReady
  <1>1. ObIndInv => ObResultReady
    BY DEF ObIndInv
  <1>2. QED
    BY <1>1, ObInitInv, ObNextInv, PTL DEF ObSpec

-----------------------------------------------------------------------------
(* The Redis detector module. *)

RdOpenAt == {"queued", "offload", "ready"}
RdJobs == [at : RdOpenAt \cup {"idle", "pend", "dropped"}, slot : RdSlot, v : Nat, park : Nat]

RdTypeOK ==
    /\ rdMode \in {"naive", "detect", "lock"}
    /\ rdJob \in [RdClient -> RdJobs]
    /\ rdGate \in [RdGates -> [inflight : BOOLEAN, pend : Seq(RdClient)]]
    /\ rdQueue \in Seq(RdClient) /\ rdReady \in Seq(RdClient)
    /\ rdCnt \in [RdSlot -> Nat] /\ rdTotal \in Nat
    /\ rdDet \in [pver : [RdSlot -> Nat], gclk : Nat, conflicts : Nat]

RdAt(a) == {c \in RdClient : rdJob[c].at = a}
RdPend(g) == {c \in RdAt("pend") : RdGateOf(rdJob[c].slot) = g}

\* The entries of a queue are in S and distinct.
RdEach(q, S) ==
    /\ \A i \in 1..Len(q) : q[i] \in S
    /\ \A i, j \in 1..Len(q) : q[i] = q[j] => i = j

\* The workers' queue, the clients to reply to and the jobs behind a gate are
\* each in one place, once.
RdQueueInv ==
    /\ RdEach(rdQueue, RdAt("queued")) /\ RdEach(rdReady, RdAt("ready"))
    /\ \A g \in RdGates : RdEach(rdGate[g].pend, RdPend(g))

\* With gates, a job past its gate keeps the gate shut, and is alone there.
RdGateInv ==
    rdMode # "naive" =>
        \A c \in RdClient : rdJob[c].at \in RdOpenAt =>
            /\ rdGate[RdGateOf(rdJob[c].slot)].inflight
            /\ \A d \in RdClient :
                   rdJob[d].at \in RdOpenAt /\ RdGateOf(rdJob[d].slot) = RdGateOf(rdJob[c].slot) => d = c

\* No page is newer than the clock, no snapshot either; with gates nobody
\* writes a page while a job that read it is under way.
RdClockInv ==
    /\ \A s \in RdSlot : rdDet.pver[s] <= rdDet.gclk /\ (rdMode = "lock" => rdDet.pver[s] = 0)
    /\ rdMode # "naive" => rdDet.conflicts = 0
    /\ \A c \in RdClient : rdJob[c].at \in RdOpenAt =>
           /\ rdMode # "lock" => rdJob[c].park <= rdDet.gclk
           /\ rdMode # "naive" => rdDet.pver[rdJob[c].slot] <= rdJob[c].park

\* w counts the writes of each slot since the last reset.  A counter shows at
\* most that many, all of them when no conflict was counted, and fewer in some
\* slot once one was.  A job whose page nobody wrote since it read it holds the
\* counter's value, any other an earlier one.
RdHist(w) ==
    /\ w \in [RdSlot -> Nat] /\ Cardinality(RdUnits(w)) = rdTotal
    /\ \A s \in RdSlot : rdCnt[s] <= w[s]
    /\ rdDet.conflicts = 0 => rdCnt = w
    /\ rdDet.conflicts > 0 => \E s \in RdSlot : rdCnt[s] < w[s]
    /\ \A c \in RdClient : rdJob[c].at \in RdOpenAt =>
           IF rdDet.pver[rdJob[c].slot] <= rdJob[c].park
           THEN rdJob[c].v = rdCnt[rdJob[c].slot] ELSE rdJob[c].v < w[rdJob[c].slot]

RdIndInv == RdTypeOK /\ RdQueueInv /\ RdGateInv /\ RdClockInv /\ \E w \in [RdSlot -> Nat] : RdHist(w)

LEMMA RdEachTail ==
  ASSUME NEW X, NEW S, NEW q \in Seq(X), q # <<>>, RdEach(q, S)
  PROVE  Head(q) \in S /\ Tail(q) \in Seq(X) /\ RdEach(Tail(q), S \ {Head(q)})
  <1>1. Len(q) \in Nat \ {0} /\ Head(q) = q[1] /\ Tail(q) \in Seq(X) /\ Len(Tail(q)) = Len(q) - 1
    OBVIOUS
  <1>2. \A i \in 1..Len(Tail(q)) : Tail(q)[i] = q[i + 1]
    OBVIOUS
  <1>3. \A i \in 1..Len(Tail(q)) : i + 1 \in 1..Len(q) /\ i + 1 # 1
    BY <1>1
  <1>4. 1 \in 1..Len(q)
    BY <1>1
  <1>5. \A i \in 1..Len(Tail(q)) : Tail(q)[i] \in S \ {Head(q)}
    BY <1>1, <1>2, <1>3, <1>4 DEF RdEach
  <1>6. ASSUME NEW i \in 1..Len(Tail(q)), NEW j \in 1..Len(Tail(q)), Tail(q)[i] = Tail(q)[j]
        PROVE  i = j
    <2>1. q[i + 1] = q[j + 1] /\ i + 1 \in 1..Len(q) /\ j + 1 \in 1..Len(q)
      BY <1>2, <1>3, <1>6
    <2>2. i + 1 = j + 1
      BY <2>1 DEF RdEach
    <2>3. QED
      BY <2>2, <1>1
  <1>7. QED
    BY <1>1, <1>4, <1>5, <1>6 DEF RdEach

LEMMA RdEachAppend ==
  ASSUME NEW X, NEW S, NEW q \in Seq(X), RdEach(q, S), NEW x \in X, x \notin S
  PROVE  Append(q, x) \in Seq(X) /\ RdEach(Append(q, x), S \cup {x})
  <1>1. /\ Append(q, x) \in Seq(X) /\ Len(Append(q, x)) = Len(q) + 1 /\ Len(q) \in Nat
        /\ Append(q, x)[Len(q) + 1] = x
        /\ \A i \in 1..Len(q) : Append(q, x)[i] = q[i] /\ q[i] \in S
    BY DEF RdEach
  <1>2. \A i \in 1..(Len(q) + 1) : i \in 1..Len(q) \/ i = Len(q) + 1
    BY <1>1
  <1>3. \A i \in 1..(Len(q) + 1) : Append(q, x)[i] \in S \cup {x}
    BY <1>1, <1>2
  <1>4. ASSUME NEW i \in 1..(Len(q) + 1), NEW j \in 1..(Len(q) + 1), Append(q, x)[i] = Append(q, x)[j]
        PROVE  i = j
    <2>1. CASE i = Len(q) + 1 \/ j = Len(q) + 1
      BY <2>1, <1>1, <1>2, <1>4
    <2>2. CASE i \in 1..Len(q) /\ j \in 1..Len(q)
      BY <2>2, <1>1, <1>4 DEF RdEach
    <2>3. QED
      BY <2>1, <2>2, <1>2
  <1>5. QED
    BY <1>1, <1>3, <1>4 DEF RdEach

LEMMA RdEachIn ==
  ASSUME NEW S, NEW T, S \subseteq T, NEW q, RdEach(q, S)
  PROVE  RdEach(q, T)
  BY DEF RdEach

(* What the actions do to the jobs. *)

\* begin() changes one job, to this.
RdBegunJob(j, cnt, clk) ==
    [at |-> "queued", slot |-> j.slot, v |-> cnt[j.slot], park |-> IF rdMode = "lock" THEN j.park ELSE clk]

LEMMA RdBegunIs ==
  \A job \in [RdClient -> RdJobs], c \in RdClient, cnt \in [RdSlot -> Nat], clk \in Nat :
      /\ RdBegunJob(job[c], cnt, clk) \in RdJobs
      /\ RdBegun(job, c, cnt, clk) = [job EXCEPT ![c] = RdBegunJob(job[c], cnt, clk)]
  <1> TAKE job \in [RdClient -> RdJobs], c \in RdClient, cnt \in [RdSlot -> Nat], clk \in Nat
  <1> DEFINE x == cnt[job[c].slot]
             z == IF rdMode = "lock" THEN job[c].park ELSE clk
             r == [at |-> "queued", slot |-> job[c].slot, v |-> x, park |-> z]
  <1>1. job[c] \in RdJobs /\ x \in Nat /\ z \in Nat
    BY DEF RdJobs
  <1>2. r \in RdJobs
    BY <1>1 DEF RdJobs, RdOpenAt
  <1>3. RdBegun(job, c, cnt, clk)
            = [job EXCEPT ![c] = [[[job[c] EXCEPT !.at = "queued"] EXCEPT !.v = x] EXCEPT !.park = z]]
    <2>1. [job[c] EXCEPT !.at = "queued"].park = job[c].park
          /\ [[job[c] EXCEPT !.at = "queued"] EXCEPT !.v = x].park = job[c].park
      BY <1>1 DEF RdJobs
    <2>2. QED
      BY <2>1, <1>1 DEF RdBegun
  <1>4. [[[job[c] EXCEPT !.at = "queued"] EXCEPT !.v = x] EXCEPT !.park = z] = r
    <2> DEFINE q == [at |-> "queued", slot |-> job[c].slot, v |-> job[c].v, park |-> job[c].park]
    <2>1. [job[c] EXCEPT !.at = "queued"] = q
      BY <1>1 DEF RdJobs
    <2>2. [[q EXCEPT !.v = x] EXCEPT !.park = z] = r
      <3> HIDE DEF x, z
      <3>1. [q EXCEPT !.v = x] = [at |-> "queued", slot |-> job[c].slot, v |-> x, park |-> job[c].park]
        OBVIOUS
      <3>2. [[at |-> "queued", slot |-> job[c].slot, v |-> x, park |-> job[c].park] EXCEPT !.park = z] = r
        OBVIOUS
      <3> HIDE DEF q, r
      <3>3. QED
        BY <3>1, <3>2
    <2>3. QED
      BY <2>1, <2>2
  <1>5. QED
    BY <1>2, <1>3, <1>4 DEF RdBegunJob

\* cmd_rmw(): the new job is begun, or waits behind a gate that is shut.
LEMMA RdCmdStep ==
  ASSUME RdTypeOK, NEW c \in RdClient, NEW s \in RdSlot, RdCmd(c, s)
  PROVE  /\ rdJob[c].at = "idle"
         /\ rdJob' \in [RdClient -> RdJobs] /\ rdJob'[c].slot = s
         /\ \A d \in RdClient : d # c => rdJob'[d] = rdJob[d]
         /\ \/ /\ \/ rdMode = "naive" /\ rdGate' = rdGate
                  \/ /\ ~rdGate[RdGateOf(s)].inflight
                     /\ rdGate' = [rdGate EXCEPT ![RdGateOf(s)].inflight = TRUE]
               /\ rdJob'[c].at = "queued" /\ rdJob'[c].v = rdCnt[s] /\ rdQueue' = Append(rdQueue, c)
               /\ rdJob'[c].park = IF rdMode = "lock" THEN rdJob[c].park ELSE rdDet.gclk
            \/ /\ rdMode # "naive" /\ rdJob'[c].at = "pend" /\ rdQueue' = rdQueue
               /\ rdGate' = [rdGate EXCEPT ![RdGateOf(s)].pend = Append(@, c)]
  <1> DEFINE new == [rdJob EXCEPT ![c].slot = s]
             go == rdMode = "naive" \/ ~rdGate[RdGateOf(s)].inflight
  <1>0. rdJob[c].at = "idle"
    BY DEF RdCmd
  <1>1. new \in [RdClient -> RdJobs] /\ new[c] = [rdJob[c] EXCEPT !.slot = s]
        /\ \A d \in RdClient : d # c => new[d] = rdJob[d]
    BY DEF RdTypeOK, RdJobs
  <1>2. rdCnt[s] \in Nat /\ rdDet.gclk \in Nat /\ rdJob[c] \in RdJobs
    BY DEF RdTypeOK
  <1>3. CASE go
    <2>1. rdJob' = RdBegun(new, c, rdCnt, rdDet.gclk) /\ rdQueue' = Append(rdQueue, c)
      BY <1>3 DEF RdCmd
    <2> DEFINE r == [at |-> "queued", slot |-> s, v |-> rdCnt[s],
                     park |-> IF rdMode = "lock" THEN rdJob[c].park ELSE rdDet.gclk]
    <2>2. new[c].slot = s /\ new[c].park = rdJob[c].park
      BY <1>1, <1>2 DEF RdJobs
    <2>3. r \in RdJobs /\ rdJob' = [new EXCEPT ![c] = r]
      <3> HIDE DEF new
      <3>1. rdCnt \in [RdSlot -> Nat]
        BY DEF RdTypeOK
      <3> DEFINE b == RdBegunJob(new[c], rdCnt, rdDet.gclk)
      <3>2. b \in RdJobs /\ RdBegun(new, c, rdCnt, rdDet.gclk) = [new EXCEPT ![c] = b]
        <4>1. new \in [RdClient -> RdJobs] /\ rdDet.gclk \in Nat
          BY <1>1, <1>2
        <4>2. \A cnt \in [RdSlot -> Nat], clk \in Nat :
                 /\ RdBegunJob(new[c], cnt, clk) \in RdJobs
                 /\ RdBegun(new, c, cnt, clk) = [new EXCEPT ![c] = RdBegunJob(new[c], cnt, clk)]
          BY <4>1, RdBegunIs
        <4>3. QED
          BY <4>1, <4>2, <3>1
      <3>3. b = r
        BY <2>2 DEF RdBegunJob
      <3>4. QED
        BY <2>1, <3>2, <3>3
    <2>4. \/ rdMode = "naive" /\ rdGate' = rdGate
          \/ ~rdGate[RdGateOf(s)].inflight /\ rdGate' = [rdGate EXCEPT ![RdGateOf(s)].inflight = TRUE]
      BY <1>3 DEF RdCmd
    <2>5. rdJob' \in [RdClient -> RdJobs] /\ rdJob'[c] = r /\ \A d \in RdClient : d # c => rdJob'[d] = rdJob[d]
      BY <2>3, <1>1
    <2>6. r.at = "queued" /\ r.slot = s /\ r.v = rdCnt[s]
          /\ r.park = IF rdMode = "lock" THEN rdJob[c].park ELSE rdDet.gclk
      OBVIOUS
    <2> HIDE DEF r
    <2>7. QED
      BY <2>1, <2>4, <2>5, <2>6, <1>0
  <1>4. CASE ~go
    <2>1. rdJob' = [new EXCEPT ![c].at = "pend"] /\ rdQueue' = rdQueue /\ rdMode # "naive"
          /\ rdGate' = [rdGate EXCEPT ![RdGateOf(s)].pend = Append(@, c)]
      BY <1>4 DEF RdCmd
    <2>2. rdJob' = [new EXCEPT ![c] = [rdJob[c] EXCEPT !.slot = s, !.at = "pend"]]
      BY <2>1, <1>1
    <2>3. [rdJob[c] EXCEPT !.slot = s, !.at = "pend"] \in RdJobs
      BY <1>2 DEF RdJobs, RdOpenAt
    <2>4. [rdJob[c] EXCEPT !.slot = s, !.at = "pend"].at = "pend"
          /\ [rdJob[c] EXCEPT !.slot = s, !.at = "pend"].slot = s
      BY <1>2 DEF RdJobs
    <2>5. QED
      BY <2>1, <2>2, <2>3, <2>4, <1>1 DEF RdCmd
  <1>5. QED
    BY <1>3, <1>4

\* A job that only moves on.
LEMMA RdMoved ==
  ASSUME RdTypeOK, NEW c \in RdClient, NEW a \in RdOpenAt \cup {"idle", "pend", "dropped"},
         rdJob' = [rdJob EXCEPT ![c].at = a]
  PROVE  /\ rdJob' \in [RdClient -> RdJobs]
         /\ rdJob'[c] = [rdJob[c] EXCEPT !.at = a]
         /\ rdJob'[c].at = a /\ rdJob'[c].slot = rdJob[c].slot /\ rdJob'[c].v = rdJob[c].v
         /\ rdJob'[c].park = rdJob[c].park
         /\ \A d \in RdClient : d # c => rdJob'[d] = rdJob[d]
  <1>1. rdJob[c] \in RdJobs /\ rdJob'[c] = [rdJob[c] EXCEPT !.at = a]
        /\ rdJob' = [rdJob EXCEPT ![c] = [rdJob[c] EXCEPT !.at = a]]
    BY DEF RdTypeOK
  <1>2. [rdJob[c] EXCEPT !.at = a] \in RdJobs
    BY <1>1 DEF RdJobs
  <1>3. QED
    BY <1>1, <1>2 DEF RdTypeOK, RdJobs

LEMMA RdGateType ==
  ASSUME RdTypeOK
  PROVE  \A s \in RdSlot : /\ RdGateOf(s) \in RdGates /\ rdGate[RdGateOf(s)].pend \in Seq(RdClient)
                           /\ rdGate[RdGateOf(s)] \in [inflight : BOOLEAN, pend : Seq(RdClient)]
  BY DEF RdTypeOK, RdGateOf, RdGates

\* The handler's result: the clock and the page of a written slot rise together.
LEMMA RdFaultStep ==
  ASSUME RdTypeOK, NEW c \in RdClient
  PROVE  LET s == rdJob[c].slot
             det == RdFault(c)
         IN  /\ det \in [pver : [RdSlot -> Nat], gclk : Nat, conflicts : Nat]
             /\ rdMode = "lock" => det = rdDet
             /\ rdMode # "lock" =>
                    /\ det.gclk = rdDet.gclk + 1 /\ det.pver[s] = rdDet.gclk + 1
                    /\ \A r \in RdSlot : r # s => det.pver[r] = rdDet.pver[r]
                    /\ det.conflicts = rdDet.conflicts + (IF rdDet.pver[s] > rdJob[c].park THEN 1 ELSE 0)
  <1> DEFINE s == rdJob[c].slot
             pv == [rdDet.pver EXCEPT ![s] = rdDet.gclk + 1]
             k == rdDet.conflicts + (IF rdDet.pver[s] > rdJob[c].park THEN 1 ELSE 0)
             d == [pver |-> pv, gclk |-> rdDet.gclk + 1, conflicts |-> k]
  <1>1. /\ rdDet \in [pver : [RdSlot -> Nat], gclk : Nat, conflicts : Nat]
        /\ rdDet.gclk \in Nat /\ rdDet.conflicts \in Nat /\ rdDet.pver \in [RdSlot -> Nat]
        /\ s \in RdSlot /\ rdJob[c].park \in Nat
    BY DEF RdTypeOK, RdJobs
  <1>2. rdMode # "lock" => RdFault(c) = d
    BY DEF RdFault
  <1>3. pv \in [RdSlot -> Nat] /\ k \in Nat /\ pv[s] = rdDet.gclk + 1
        /\ \A r \in RdSlot : r # s => pv[r] = rdDet.pver[r]
    BY <1>1
  <1>4. d \in [pver : [RdSlot -> Nat], gclk : Nat, conflicts : Nat] /\ d.pver = pv
        /\ d.gclk = rdDet.gclk + 1 /\ d.conflicts = k
    <2> HIDE DEF pv, k
    <2>1. QED
      BY <1>1, <1>3
  <1>5. rdMode = "lock" => RdFault(c) = rdDet
    BY DEF RdFault
  <1> HIDE DEF d, pv
  <1>6. QED
    BY <1>1, <1>2, <1>3, <1>4, <1>5

\* reply_cb(): the job ends, and with a job behind its gate that one is begun.
LEMMA RdReplyStep ==
  ASSUME RdTypeOK, RdQueueInv, NEW c \in RdClient, RdReply(c)
  PROVE  LET s == rdJob[c].slot
             g == RdGateOf(s)
             nx == Head(rdGate[g].pend)
         IN  /\ rdJob[c].at = "ready" /\ rdJob' \in [RdClient -> RdJobs]
             /\ rdJob'[c] = [rdJob[c] EXCEPT !.at = "idle"] /\ rdJob'[c].at = "idle"
             /\ \/ /\ \A d \in RdClient : d # c => rdJob'[d] = rdJob[d]
                   /\ rdQueue' = rdQueue
                   /\ rdMode # "naive" => rdGate' = [rdGate EXCEPT ![g].inflight = FALSE]
                   /\ rdMode = "naive" => rdGate' = rdGate
                \/ /\ rdMode # "naive" /\ rdGate[g].pend # <<>> /\ nx \in RdPend(g) /\ nx \in RdClient
                   /\ rdJob'[nx] = RdBegunJob(rdJob[nx], rdCnt', rdDet'.gclk)
                   /\ \A d \in RdClient : d # c /\ d # nx => rdJob'[d] = rdJob[d]
                   /\ rdQueue' = Append(rdQueue, nx)
                   /\ rdGate' = [rdGate EXCEPT ![g].pend = Tail(@)]
  <1> DEFINE s == rdJob[c].slot
             g == RdGateOf(s)
             nx == Head(rdGate[g].pend)
             done == [rdJob EXCEPT ![c].at = "idle"]
             more == rdMode # "naive" /\ rdGate[g].pend # <<>>
  <1>1. rdReady # <<>> /\ c = Head(rdReady) /\ rdReady \in Seq(RdClient) /\ RdEach(rdReady, RdAt("ready"))
    BY DEF RdReply, RdTypeOK, RdQueueInv
  <1>2. rdJob[c].at = "ready"
    <2>1. Head(rdReady) \in RdAt("ready")
      BY <1>1, RdEachTail
    <2>2. QED
      BY <1>1, <2>1 DEF RdAt
  <1>3. s \in RdSlot /\ rdJob[c] \in RdJobs /\ rdJob[c].v \in Nat /\ g \in RdGates
    BY RdGateType DEF RdTypeOK, RdJobs
  <1>4. done \in [RdClient -> RdJobs] /\ done[c] = [rdJob[c] EXCEPT !.at = "idle"] /\ done[c].at = "idle"
        /\ \A d \in RdClient : d # c => done[d] = rdJob[d]
    <2>1. [rdJob[c] EXCEPT !.at = "idle"] \in RdJobs /\ [rdJob[c] EXCEPT !.at = "idle"].at = "idle"
      BY <1>3 DEF RdJobs
    <2>2. QED
      BY <2>1 DEF RdTypeOK
  <1>5. CASE ~more
    <2>1. rdJob' = done /\ rdQueue' = rdQueue
          /\ rdGate' = IF rdMode = "naive" THEN rdGate ELSE [rdGate EXCEPT ![g].inflight = FALSE]
      BY <1>5 DEF RdReply
    <2> HIDE DEF done
    <2>2. QED
      BY <2>1, <1>2, <1>4
  <1>6. CASE more
    <2>1. nx \in RdPend(g) /\ nx \in RdClient /\ rdJob[nx].at = "pend"
      <3>1. rdGate[g].pend \in Seq(RdClient) /\ RdEach(rdGate[g].pend, RdPend(g)) /\ rdGate[g].pend # <<>>
        BY <1>3, <1>6, RdGateType DEF RdQueueInv
      <3>2. nx \in RdPend(g)
        BY <3>1, RdEachTail
      <3>3. QED
        BY <3>2 DEF RdPend, RdAt
    <2>2. nx # c
      BY <2>1, <1>2
    <2>3. rdCnt' \in [RdSlot -> Nat] /\ rdDet' = RdFault(c) /\ rdDet'.gclk \in Nat
      <3>1. rdCnt' = [rdCnt EXCEPT ![s] = rdJob[c].v + 1] /\ rdDet' = RdFault(c)
        BY DEF RdReply
      <3>2. RdFault(c).gclk \in Nat
        BY RdFaultStep
      <3>3. QED
        BY <3>1, <3>2, <1>3 DEF RdTypeOK
    <2>4. rdJob' = RdBegun(done, nx, rdCnt', rdDet'.gclk) /\ rdQueue' = Append(rdQueue, nx)
          /\ rdGate' = [rdGate EXCEPT ![g].pend = Tail(@)]
      BY <1>6 DEF RdReply
    <2> HIDE DEF done
    <2>5. /\ RdBegunJob(done[nx], rdCnt', rdDet'.gclk) \in RdJobs
          /\ RdBegun(done, nx, rdCnt', rdDet'.gclk) = [done EXCEPT ![nx] = RdBegunJob(done[nx], rdCnt', rdDet'.gclk)]
      <3>1. \A cnt \in [RdSlot -> Nat], clk \in Nat :
                 /\ RdBegunJob(done[nx], cnt, clk) \in RdJobs
                 /\ RdBegun(done, nx, cnt, clk) = [done EXCEPT ![nx] = RdBegunJob(done[nx], cnt, clk)]
        BY <1>4, <2>1, RdBegunIs
      <3>2. QED
        BY <3>1, <2>3
    <2>6. done[nx] = rdJob[nx] /\ done[c] = [rdJob[c] EXCEPT !.at = "idle"]
      BY <1>4, <2>1, <2>2
    <2>7. /\ rdJob' \in [RdClient -> RdJobs] /\ rdJob'[c] = done[c]
          /\ rdJob'[nx] = RdBegunJob(rdJob[nx], rdCnt', rdDet'.gclk)
          /\ \A d \in RdClient : d # c /\ d # nx => rdJob'[d] = rdJob[d]
      BY <2>1, <2>2, <2>4, <2>5, <2>6, <1>4
    <2>8. QED
      BY <1>2, <1>4, <1>6, <2>1, <2>4, <2>7
  <1>7. QED
    BY <1>5, <1>6

\* worker() takes the job at the head of its queue.
LEMMA RdTakeStep ==
  ASSUME RdTypeOK, RdQueueInv, RdTake
  PROVE  \E c \in RdClient : /\ c = Head(rdQueue) /\ rdJob[c].at = "queued"
                             /\ rdJob' = [rdJob EXCEPT ![c].at = "offload"]
  <1>1. rdQueue # <<>> /\ rdQueue \in Seq(RdClient) /\ RdEach(rdQueue, RdAt("queued"))
    BY DEF RdTake, RdTypeOK, RdQueueInv
  <1>2. Head(rdQueue) \in RdAt("queued")
    BY <1>1, RdEachTail
  <1>3. QED
    BY <1>2 DEF RdAt, RdTake

\* Redis discards the reply at the head of what it has to reply to.
LEMMA RdDiscardStep ==
  ASSUME RdTypeOK, RdQueueInv, NEW c \in RdClient, RdDiscard(c)
  PROVE  rdJob[c].at = "ready"
  <1>1. rdReady # <<>> /\ rdReady \in Seq(RdClient) /\ RdEach(rdReady, RdAt("ready")) /\ c = Head(rdReady)
    BY DEF RdDiscard, RdTypeOK, RdQueueInv
  <1>2. Head(rdReady) \in RdAt("ready")
    BY <1>1, RdEachTail
  <1>3. QED
    BY <1>1, <1>2 DEF RdAt

LEMMA RdTypeStep ==
  ASSUME RdTypeOK, RdQueueInv, RdNext
  PROVE  RdTypeOK'
  <1>0. RdOpenAt = {"queued", "offload", "ready"}
    BY DEF RdOpenAt
  <1>1. ASSUME NEW c \in RdClient, NEW s \in RdSlot, RdCmd(c, s)
        PROVE  RdTypeOK'
    <2>1. rdJob' \in [RdClient -> RdJobs] /\ rdQueue' \in Seq(RdClient)
      <3>1. rdJob' \in [RdClient -> RdJobs] /\ (rdQueue' = rdQueue \/ rdQueue' = Append(rdQueue, c))
        BY <1>1, RdCmdStep
      <3>2. rdQueue \in Seq(RdClient)
        BY DEF RdTypeOK
      <3>3. QED
        BY <3>1, <3>2
    <2>2. rdGate' \in [RdGates -> [inflight : BOOLEAN, pend : Seq(RdClient)]]
      <3> DEFINE q == rdGate[RdGateOf(s)]
      <3>1. /\ RdGateOf(s) \in RdGates /\ q \in [inflight : BOOLEAN, pend : Seq(RdClient)]
            /\ q.pend \in Seq(RdClient)
        BY RdGateType
      <3>2. /\ [q EXCEPT !.inflight = TRUE] \in [inflight : BOOLEAN, pend : Seq(RdClient)]
            /\ [q EXCEPT !.pend = Append(q.pend, c)] \in [inflight : BOOLEAN, pend : Seq(RdClient)]
        <4> HIDE DEF q
        <4>1. Append(q.pend, c) \in Seq(RdClient)
          BY <3>1
        <4>2. QED
          BY <3>1, <4>1
      <3>3. \/ rdGate' = rdGate
            \/ rdGate' = [rdGate EXCEPT ![RdGateOf(s)] = [q EXCEPT !.inflight = TRUE]]
            \/ rdGate' = [rdGate EXCEPT ![RdGateOf(s)] = [q EXCEPT !.pend = Append(q.pend, c)]]
        BY <1>1 DEF RdCmd
      <3>4. QED
        BY <3>1, <3>2, <3>3 DEF RdTypeOK
    <2>3. QED
      BY <2>1, <2>2, <1>1 DEF RdTypeOK, RdCmd
  <1>2. ASSUME RdTake
        PROVE  RdTypeOK'
    <2>1. PICK c \in RdClient : rdJob' = [rdJob EXCEPT ![c].at = "offload"]
      BY <1>2, RdTakeStep
    <2>2. rdJob' \in [RdClient -> RdJobs]
      BY <2>1, <1>0, RdMoved
    <2>3. rdQueue' \in Seq(RdClient)
      BY <1>2 DEF RdTake, RdTypeOK
    <2>4. QED
      BY <2>2, <2>3, <1>2 DEF RdTake, RdTypeOK
  <1>3. ASSUME NEW c \in RdClient, RdUnblock(c)
        PROVE  RdTypeOK'
    <2>1. rdJob' \in [RdClient -> RdJobs]
      BY <1>3, <1>0, RdMoved DEF RdUnblock
    <2>2. QED
      BY <2>1, <1>3 DEF RdUnblock, RdTypeOK
  <1>4. ASSUME NEW c \in RdClient, RdReply(c)
        PROVE  RdTypeOK'
    <2> DEFINE s == rdJob[c].slot
               g == RdGateOf(s)
    <2>1. s \in RdSlot /\ rdJob[c].v \in Nat /\ g \in RdGates
      BY RdGateType DEF RdTypeOK, RdJobs
    <2>2. rdJob' \in [RdClient -> RdJobs]
      BY <1>4, RdReplyStep
    <2>3. rdQueue' \in Seq(RdClient)
      <3>1. rdQueue' = rdQueue
            \/ (Head(rdGate[g].pend) \in RdClient /\ rdQueue' = Append(rdQueue, Head(rdGate[g].pend)))
        BY <1>4, RdReplyStep
      <3>2. rdQueue \in Seq(RdClient)
        BY DEF RdTypeOK
      <3>3. QED
        BY <3>1, <3>2
    <2>4. rdGate' \in [RdGates -> [inflight : BOOLEAN, pend : Seq(RdClient)]]
      <3> DEFINE q == rdGate[g]
      <3>1. q \in [inflight : BOOLEAN, pend : Seq(RdClient)] /\ q.pend \in Seq(RdClient)
        BY <2>1, RdGateType
      <3>2. /\ [q EXCEPT !.inflight = FALSE] \in [inflight : BOOLEAN, pend : Seq(RdClient)]
            /\ q.pend # <<>> => [q EXCEPT !.pend = Tail(q.pend)] \in [inflight : BOOLEAN, pend : Seq(RdClient)]
        <4> HIDE DEF q
        <4>1. q.pend # <<>> => Tail(q.pend) \in Seq(RdClient)
          BY <3>1
        <4>2. QED
          BY <3>1, <4>1
      <3>3. \/ rdGate' = rdGate
            \/ rdGate' = [rdGate EXCEPT ![g] = [q EXCEPT !.inflight = FALSE]]
            \/ q.pend # <<>> /\ rdGate' = [rdGate EXCEPT ![g] = [q EXCEPT !.pend = Tail(q.pend)]]
        BY <1>4 DEF RdReply
      <3>4. QED
        BY <2>1, <3>2, <3>3 DEF RdTypeOK
    <2>5. rdDet' \in [pver : [RdSlot -> Nat], gclk : Nat, conflicts : Nat]
      BY <1>4, RdFaultStep DEF RdReply
    <2>6. rdCnt' \in [RdSlot -> Nat] /\ rdTotal' \in Nat /\ rdReady' \in Seq(RdClient) /\ rdMode' = rdMode
      <3>1. /\ rdCnt' = [rdCnt EXCEPT ![s] = rdJob[c].v + 1] /\ rdTotal' = rdTotal + 1
            /\ rdReady # <<>> /\ rdReady' = Tail(rdReady) /\ rdMode' = rdMode
        BY <1>4 DEF RdReply
      <3>2. rdCnt \in [RdSlot -> Nat] /\ rdTotal \in Nat /\ rdReady \in Seq(RdClient)
        BY DEF RdTypeOK
      <3>3. QED
        BY <2>1, <3>1, <3>2
    <2>7. QED
      BY <2>2, <2>3, <2>4, <2>5, <2>6 DEF RdTypeOK
  <1>5. ASSUME NEW c \in RdClient, RdDiscard(c)
        PROVE  RdTypeOK'
    <2>1. rdJob' \in [RdClient -> RdJobs]
      BY <1>5, RdMoved DEF RdDiscard
    <2>2. QED
      BY <2>1, <1>5 DEF RdDiscard, RdTypeOK
  <1>6. ASSUME NEW c \in RdClient, RdDisconnect(c)
        PROVE  RdTypeOK'
    BY <1>6 DEF RdDisconnect, RdTypeOK
  <1>7. ASSUME RdReset
        PROVE  RdTypeOK'
    <2>1. rdDet' \in [pver : [RdSlot -> Nat], gclk : Nat, conflicts : Nat]
      BY <1>7 DEF RdReset, RdTypeOK
    <2>2. rdGate' \in [RdGates -> [inflight : BOOLEAN, pend : Seq(RdClient)]]
      BY <1>7 DEF RdReset
    <2>3. QED
      BY <2>1, <2>2, <1>7 DEF RdReset, RdTypeOK
  <1>8. QED
    BY <1>1, <1>2, <1>3, <1>4, <1>5, <1>6, <1>7 DEF RdNext, RdServe

LEMMA RdQueueStep ==
  ASSUME RdTypeOK, RdQueueInv, RdNext
  PROVE  RdQueueInv'
  <1>0. RdOpenAt = {"queued", "offload", "ready"}
    BY DEF RdOpenAt
  <1>t. /\ rdJob \in [RdClient -> RdJobs] /\ rdGate \in [RdGates -> [inflight : BOOLEAN, pend : Seq(RdClient)]]
        /\ rdQueue \in Seq(RdClient) /\ rdReady \in Seq(RdClient)
    BY DEF RdTypeOK
  <1>q. /\ RdEach(rdQueue, RdAt("queued")) /\ RdEach(rdReady, RdAt("ready"))
        /\ \A g \in RdGates : RdEach(rdGate[g].pend, RdPend(g))
    BY DEF RdQueueInv
  <1>1. ASSUME NEW c \in RdClient, NEW s \in RdSlot, RdCmd(c, s)
        PROVE  RdQueueInv'
    <2>1. /\ rdJob[c].at = "idle" /\ rdJob'[c].slot = s /\ \A d \in RdClient : d # c => rdJob'[d] = rdJob[d]
          /\ rdMode' = rdMode /\ rdReady' = rdReady
      BY <1>1, RdCmdStep DEF RdCmd
    <2>2. PICK g \in RdGates : g = RdGateOf(s) /\ rdGate[g].pend \in Seq(RdClient)
      BY RdGateType
    <2>3. c \notin RdAt("queued") /\ c \notin RdAt("ready") /\ c \notin RdAt("pend")
      BY <2>1 DEF RdAt
    <2>4. RdAt("ready") \subseteq RdAt("ready")'
      BY <2>1, <2>3 DEF RdAt
    <2>5. \A h \in RdGates : RdPend(h) \subseteq RdPend(h)'
      BY <2>1, <2>3 DEF RdPend, RdAt, RdGateOf
    <2>6. CASE /\ rdJob'[c].at = "queued" /\ rdQueue' = Append(rdQueue, c)
               /\ \/ rdGate' = rdGate
                  \/ rdGate' = [rdGate EXCEPT ![g].inflight = TRUE]
      <3>1. RdAt("queued") \cup {c} \subseteq RdAt("queued")'
        BY <2>1, <2>6 DEF RdAt
      <3>2. RdEach(Append(rdQueue, c), RdAt("queued") \cup {c})
        BY <1>t, <1>q, <2>3, RdEachAppend
      <3>3. RdEach(rdQueue, RdAt("queued"))'
        BY <2>6, <3>1, <3>2, RdEachIn
      <3>4. \A h \in RdGates : rdGate'[h].pend = rdGate[h].pend
        <4>1. rdGate'[g] = rdGate[g] \/ rdGate'[g] = [rdGate[g] EXCEPT !.inflight = TRUE]
          BY <2>2, <2>6, <1>t
        <4>2. rdGate'[g].pend = rdGate[g].pend
          BY <4>1, <2>2, <1>t
        <4>3. \A h \in RdGates : h # g => rdGate'[h] = rdGate[h]
          BY <2>2, <2>6, <1>t
        <4>4. QED
          BY <4>2, <4>3
      <3>5. \A h \in RdGates : RdEach(rdGate[h].pend, RdPend(h))'
        BY <3>4, <2>5, <1>q, RdEachIn
      <3>6. QED
        BY <3>3, <3>5, <2>4, <2>1, <1>q, RdEachIn DEF RdQueueInv
    <2>7. CASE /\ rdJob'[c].at = "pend" /\ rdQueue' = rdQueue
               /\ rdGate' = [rdGate EXCEPT ![g].pend = Append(@, c)]
      <3>1. RdAt("queued") \subseteq RdAt("queued")'
        BY <2>1, <2>3 DEF RdAt
      <3>2. RdPend(g) \cup {c} \subseteq RdPend(g)'
        BY <2>1, <2>2, <2>7, <2>3 DEF RdPend, RdAt, RdGateOf
      <3>3. RdEach(Append(rdGate[g].pend, c), RdPend(g) \cup {c})
        BY <2>2, <2>3, <1>q, RdEachAppend DEF RdPend
      <3>4. RdEach(rdGate'[g].pend, RdPend(g)')
        BY <3>2, <3>3, <2>7, <2>2, <1>t, RdEachIn
      <3>5. \A h \in RdGates : h # g => RdEach(rdGate'[h].pend, RdPend(h)')
        BY <2>7, <2>2, <2>5, <1>t, <1>q, RdEachIn
      <3>6. QED
        <4>1. RdEach(rdQueue', RdAt("queued")') /\ RdEach(rdReady', RdAt("ready")')
          BY <3>1, <2>4, <2>1, <2>7, <1>q, RdEachIn
        <4>2. \A h \in RdGates : RdEach(rdGate'[h].pend, RdPend(h)')
          BY <3>4, <3>5
        <4>3. QED
          BY <4>1, <4>2 DEF RdQueueInv
    <2>8. QED
      BY <2>2, <2>6, <2>7, <1>1, RdCmdStep
  <1>2. ASSUME RdTake
        PROVE  RdQueueInv'
    <2>1. PICK c \in RdClient : /\ c = Head(rdQueue) /\ rdJob[c].at = "queued"
                                /\ rdJob' = [rdJob EXCEPT ![c].at = "offload"]
      BY <1>2, RdTakeStep
    <2>2. rdJob'[c].at = "offload" /\ \A d \in RdClient : d # c => rdJob'[d] = rdJob[d]
      <3>1. "offload" \in RdOpenAt \cup {"idle", "pend", "dropped"} /\ rdJob' = [rdJob EXCEPT ![c].at = "offload"]
        BY <1>0, <2>1
      <3>2. QED
        BY <3>1, RdMoved
    <2>3. RdAt("queued") \ {c} \subseteq RdAt("queued")' /\ RdAt("ready") \subseteq RdAt("ready")'
          /\ \A g \in RdGates : RdPend(g) \subseteq RdPend(g)'
      <3>1. RdAt("queued") \ {c} \subseteq RdAt("queued")' /\ RdAt("ready") \subseteq RdAt("ready")'
        BY <2>1, <2>2 DEF RdAt
      <3>2. rdMode' = rdMode
        BY <1>2 DEF RdTake
      <3>3. \A d \in RdClient : rdJob[d].at = "pend" =>
                rdJob'[d] = rdJob[d] /\ RdGateOf(rdJob[d].slot)' = RdGateOf(rdJob[d].slot)
        BY <2>1, <2>2, <3>2 DEF RdGateOf
      <3>4. QED
        BY <3>1, <3>3 DEF RdAt, RdPend
    <2>4. RdEach(Tail(rdQueue), RdAt("queued") \ {c})
      BY <1>2, <1>t, <1>q, <2>1, RdEachTail DEF RdTake
    <2>5. RdEach(rdQueue', RdAt("queued")') /\ RdEach(rdReady', RdAt("ready")')
      BY <2>3, <2>4, <1>2, <1>q, RdEachIn DEF RdTake
    <2>6. \A g \in RdGates : RdEach(rdGate'[g].pend, RdPend(g)')
      BY <2>3, <1>2, <1>q, RdEachIn DEF RdTake
    <2>7. QED
      BY <2>5, <2>6 DEF RdQueueInv
  <1>3. ASSUME NEW c \in RdClient, RdUnblock(c)
        PROVE  RdQueueInv'
    <2>1. rdJob[c].at = "offload" /\ rdJob' = [rdJob EXCEPT ![c].at = "ready"] /\ rdReady' = Append(rdReady, c)
          /\ rdQueue' = rdQueue /\ rdGate' = rdGate /\ rdMode' = rdMode
      BY <1>3 DEF RdUnblock
    <2>2. rdJob'[c].at = "ready" /\ \A d \in RdClient : d # c => rdJob'[d] = rdJob[d]
      BY <2>1, <1>0, RdMoved
    <2>3. RdAt("queued") \subseteq RdAt("queued")' /\ RdAt("ready") \cup {c} \subseteq RdAt("ready")'
          /\ c \notin RdAt("ready") /\ \A g \in RdGates : RdPend(g) \subseteq RdPend(g)'
      BY <2>1, <2>2 DEF RdAt, RdPend, RdGateOf
    <2>4. RdEach(Append(rdReady, c), RdAt("ready") \cup {c})
      BY <1>t, <1>q, <2>3, RdEachAppend
    <2>5. RdEach(rdQueue', RdAt("queued")') /\ RdEach(rdReady', RdAt("ready")')
      BY <2>1, <2>3, <2>4, <1>q, RdEachIn
    <2>6. \A g \in RdGates : RdEach(rdGate'[g].pend, RdPend(g)')
      BY <2>1, <2>3, <1>q, RdEachIn
    <2>7. QED
      BY <2>5, <2>6 DEF RdQueueInv
  <1>4. ASSUME NEW c \in RdClient, RdReply(c)
        PROVE  RdQueueInv'
    <2>2. PICK g \in RdGates : g = RdGateOf(rdJob[c].slot) /\ rdGate[g].pend \in Seq(RdClient)
      BY RdGateType DEF RdTypeOK, RdJobs
    <2> DEFINE nx == Head(rdGate[g].pend)
    <2>1. rdReady # <<>> /\ c = Head(rdReady) /\ rdReady' = Tail(rdReady) /\ rdMode' = rdMode
      BY <1>4 DEF RdReply
    <2>3. rdJob[c].at = "ready" /\ rdJob'[c].at = "idle"
      BY <1>4, RdReplyStep
    <2>4. RdEach(Tail(rdReady), RdAt("ready") \ {c})
      BY <2>1, <1>t, <1>q, RdEachTail
    <2>5. CASE /\ \A d \in RdClient : d # c => rdJob'[d] = rdJob[d]
               /\ rdQueue' = rdQueue
               /\ rdMode # "naive" => rdGate' = [rdGate EXCEPT ![g].inflight = FALSE]
               /\ rdMode = "naive" => rdGate' = rdGate
      <3>1. RdAt("queued") \subseteq RdAt("queued")' /\ RdAt("ready") \ {c} \subseteq RdAt("ready")'
            /\ \A h \in RdGates : RdPend(h) \subseteq RdPend(h)'
        BY <2>1, <2>3, <2>5 DEF RdAt, RdPend, RdGateOf
      <3>2. RdEach(rdQueue', RdAt("queued")') /\ RdEach(rdReady', RdAt("ready")')
        BY <3>1, <2>1, <2>4, <2>5, <1>q, RdEachIn
      <3>3. \A h \in RdGates : rdGate'[h].pend = rdGate[h].pend
        <4>1. rdGate'[g] = rdGate[g] \/ rdGate'[g] = [rdGate[g] EXCEPT !.inflight = FALSE]
          BY <2>2, <2>5, <1>t
        <4>2. rdGate'[g].pend = rdGate[g].pend
          BY <4>1, <2>2, <1>t
        <4>3. \A h \in RdGates : h # g => rdGate'[h] = rdGate[h]
          BY <2>5, <1>t
        <4>4. QED
          BY <4>2, <4>3
      <3>4. \A h \in RdGates : RdEach(rdGate'[h].pend, RdPend(h)')
        BY <3>1, <3>3, <1>q, RdEachIn
      <3>5. QED
        BY <3>2, <3>4 DEF RdQueueInv
    <2>6. CASE /\ rdMode # "naive" /\ rdGate[g].pend # <<>> /\ nx \in RdPend(g) /\ nx \in RdClient
               /\ rdJob'[nx] = RdBegunJob(rdJob[nx], rdCnt', rdDet'.gclk)
               /\ \A d \in RdClient : d # c /\ d # nx => rdJob'[d] = rdJob[d]
               /\ rdQueue' = Append(rdQueue, nx)
               /\ rdGate' = [rdGate EXCEPT ![g].pend = Tail(@)]
      <3>1. rdJob[nx].at = "pend" /\ RdGateOf(rdJob[nx].slot) = g /\ rdJob'[nx].at = "queued"
        <4>1. rdJob[nx].at = "pend" /\ RdGateOf(rdJob[nx].slot) = g
          BY <2>6 DEF RdPend, RdAt
        <4>2. RdBegunJob(rdJob[nx], rdCnt', rdDet'.gclk).at = "queued"
          BY DEF RdBegunJob
        <4>3. QED
          BY <2>6, <4>1, <4>2
      <3> HIDE DEF nx
      <3>2. RdAt("queued") \cup {nx} \subseteq RdAt("queued")' /\ nx \notin RdAt("queued")
            /\ RdAt("ready") \ {c} \subseteq RdAt("ready")'
        BY <2>3, <2>6, <3>1 DEF RdAt
      <3>3. RdPend(g) \ {nx} \subseteq RdPend(g)' /\ \A h \in RdGates : h # g => RdPend(h) \subseteq RdPend(h)'
        <4>1. \A d \in RdClient : d # nx /\ rdJob[d].at = "pend" =>
                  rdJob'[d] = rdJob[d] /\ RdGateOf(rdJob[d].slot)' = RdGateOf(rdJob[d].slot)
          BY <2>1, <2>3, <2>6 DEF RdGateOf
        <4>2. ASSUME NEW h, NEW d \in RdPend(h), d # nx
              PROVE  d \in RdPend(h)'
          BY <4>1, <4>2 DEF RdPend, RdAt
        <4>3. \A h : h # g => nx \notin RdPend(h)
          BY <3>1 DEF RdPend
        <4>4. RdPend(g) \ {nx} \subseteq RdPend(g)'
          BY <4>2
        <4>5. QED
          BY <4>2, <4>3, <4>4
      <3>4. RdEach(Append(rdQueue, nx), RdAt("queued") \cup {nx})
        BY <2>6, <3>2, <1>t, <1>q, RdEachAppend
      <3>5. RdEach(rdQueue', RdAt("queued")') /\ RdEach(rdReady', RdAt("ready")')
        BY <3>2, <3>4, <2>1, <2>4, <2>6, RdEachIn
      <3>6. RdEach(Tail(rdGate[g].pend), RdPend(g) \ {nx})
        BY <2>2, <2>6, <1>q, RdEachTail DEF nx
      <3>7. RdEach(rdGate'[g].pend, RdPend(g)')
        BY <3>3, <3>6, <2>2, <2>6, <1>t, RdEachIn
      <3>8. \A h \in RdGates : h # g => RdEach(rdGate'[h].pend, RdPend(h)')
        BY <3>3, <2>2, <2>6, <1>t, <1>q, RdEachIn
      <3>9. QED
        <4>1. \A h \in RdGates : RdEach(rdGate'[h].pend, RdPend(h)')
          BY <3>7, <3>8
        <4>2. QED
          BY <3>5, <4>1 DEF RdQueueInv
    <2>7. QED
      BY <2>2, <2>5, <2>6, <1>4, RdReplyStep
  <1>5. ASSUME NEW c \in RdClient, RdDiscard(c)
        PROVE  RdQueueInv'
    <2>1. /\ rdReady # <<>> /\ c = Head(rdReady) /\ rdJob' = [rdJob EXCEPT ![c].at = "dropped"]
          /\ rdReady' = Tail(rdReady) /\ rdQueue' = rdQueue /\ rdGate' = rdGate /\ rdMode' = rdMode
      BY <1>5 DEF RdDiscard
    <2>2. rdJob'[c].at = "dropped" /\ \A d \in RdClient : d # c => rdJob'[d] = rdJob[d]
      BY <2>1, RdMoved
    <2>3. rdJob[c].at = "ready"
      BY <1>5, RdDiscardStep
    <2>4. RdAt("queued") \subseteq RdAt("queued")' /\ RdAt("ready") \ {c} \subseteq RdAt("ready")'
          /\ \A g \in RdGates : RdPend(g) \subseteq RdPend(g)'
      BY <2>1, <2>2, <2>3 DEF RdAt, RdPend, RdGateOf
    <2>5. RdEach(Tail(rdReady), RdAt("ready") \ {c})
      BY <2>1, <1>t, <1>q, RdEachTail
    <2>6. RdEach(rdQueue', RdAt("queued")') /\ RdEach(rdReady', RdAt("ready")')
      BY <2>1, <2>4, <2>5, <1>q, RdEachIn
    <2>7. \A g \in RdGates : RdEach(rdGate'[g].pend, RdPend(g)')
      BY <2>1, <2>4, <1>q, RdEachIn
    <2>8. QED
      BY <2>6, <2>7 DEF RdQueueInv
  <1>6. ASSUME NEW c \in RdClient, RdDisconnect(c)
        PROVE  RdQueueInv'
    BY <1>6 DEF RdDisconnect, RdQueueInv, RdPend, RdAt, RdGateOf
  <1>7. ASSUME RdReset
        PROVE  RdQueueInv'
    <2>1. RdAt("queued")' = RdAt("queued") /\ RdAt("ready")' = RdAt("ready")
      BY <1>7 DEF RdReset, RdAt
    <2>2. \A g \in RdGates : rdGate'[g].pend = <<>>
      BY <1>7 DEF RdReset
    <2>3. \A g \in RdGates : RdEach(rdGate'[g].pend, RdPend(g)')
      BY <2>2 DEF RdEach
    <2>4. QED
      BY <2>1, <2>3, <1>7, <1>q DEF RdReset, RdQueueInv
  <1>8. QED
    BY <1>1, <1>2, <1>3, <1>4, <1>5, <1>6, <1>7 DEF RdNext, RdServe

\* A step that begins and ends no job past its gate.
RdQuiet ==
    /\ UNCHANGED <<rdMode, rdCnt, rdTotal, rdDet>>
    /\ \A g \in RdGates : rdGate'[g].inflight = rdGate[g].inflight
    /\ \A d \in RdClient : rdJob'[d].at \in RdOpenAt =>
           /\ rdJob[d].at \in RdOpenAt /\ rdJob'[d].slot = rdJob[d].slot
           /\ rdJob'[d].v = rdJob[d].v /\ rdJob'[d].park = rdJob[d].park

\* A command that finds its gate open.
RdBegins(c) ==
    /\ UNCHANGED <<rdMode, rdCnt, rdTotal, rdDet>>
    /\ \/ rdMode = "naive"
       \/ /\ ~rdGate[RdGateOf(rdJob'[c].slot)].inflight
          /\ rdGate'[RdGateOf(rdJob'[c].slot)].inflight
          /\ \A g \in RdGates : g # RdGateOf(rdJob'[c].slot) => rdGate'[g].inflight = rdGate[g].inflight
    /\ rdJob'[c] \in RdJobs /\ rdJob'[c].v = rdCnt[rdJob'[c].slot]
    /\ rdMode # "lock" => rdJob'[c].park = rdDet.gclk
    /\ \A d \in RdClient : d # c => rdJob'[d] = rdJob[d]

LEMMA RdStepCases ==
  ASSUME RdTypeOK, RdQueueInv, RdNext
  PROVE  RdQuiet \/ (\E c \in RdClient : RdBegins(c) \/ RdReply(c)) \/ RdReset
  <1>0. RdOpenAt = {"queued", "offload", "ready"}
    BY DEF RdOpenAt
  <1>1. ASSUME NEW c \in RdClient, NEW s \in RdSlot, RdCmd(c, s)
        PROVE  RdQuiet \/ RdBegins(c)
    <2> DEFINE g == RdGateOf(s)
    <2>1. UNCHANGED <<rdMode, rdCnt, rdTotal, rdDet>> /\ g \in RdGates
      BY <1>1, RdGateType DEF RdCmd
    <2>2. /\ rdJob' \in [RdClient -> RdJobs] /\ rdJob'[c].slot = s
          /\ \A d \in RdClient : d # c => rdJob'[d] = rdJob[d]
      BY <1>1, RdCmdStep
    <2>3. CASE /\ \/ rdMode = "naive" /\ rdGate' = rdGate
                  \/ ~rdGate[g].inflight /\ rdGate' = [rdGate EXCEPT ![g].inflight = TRUE]
               /\ rdJob'[c].v = rdCnt[s] /\ rdJob'[c].park = IF rdMode = "lock" THEN rdJob[c].park ELSE rdDet.gclk
      <3>1. rdMode = "naive" \/ (/\ ~rdGate[g].inflight /\ rdGate'[g].inflight
                                 /\ \A h \in RdGates : h # g => rdGate'[h].inflight = rdGate[h].inflight)
        BY <2>1, <2>3 DEF RdTypeOK
      <3>2. QED
        BY <2>1, <2>2, <2>3, <3>1 DEF RdBegins
    <2>4. CASE rdJob'[c].at = "pend" /\ rdGate' = [rdGate EXCEPT ![g].pend = Append(@, c)]
      <3>1. rdGate'[g] = [rdGate[g] EXCEPT !.pend = Append(@, c)]
            /\ \A h \in RdGates : h # g => rdGate'[h] = rdGate[h]
        BY <2>1, <2>4 DEF RdTypeOK
      <3>2. rdGate'[g].inflight = rdGate[g].inflight
        BY <3>1, RdGateType
      <3>3. \A h \in RdGates : rdGate'[h].inflight = rdGate[h].inflight
        BY <3>1, <3>2
      <3>4. rdJob'[c].at \notin RdOpenAt
        BY <2>4, <1>0
      <3>5. QED
        BY <2>1, <2>2, <3>3, <3>4 DEF RdQuiet
    <2>5. QED
      BY <2>3, <2>4, <1>1, RdCmdStep
  <1>2. ASSUME RdTake
        PROVE  RdQuiet
    <2>1. PICK c \in RdClient : rdJob[c].at = "queued" /\ rdJob' = [rdJob EXCEPT ![c].at = "offload"]
      BY <1>2, RdTakeStep
    <2>2. /\ rdJob'[c].slot = rdJob[c].slot /\ rdJob'[c].v = rdJob[c].v /\ rdJob'[c].park = rdJob[c].park
          /\ \A d \in RdClient : d # c => rdJob'[d] = rdJob[d]
      BY <2>1, <1>0, RdMoved
    <2>3. QED
      BY <1>0, <1>2, <2>1, <2>2 DEF RdTake, RdQuiet
  <1>3. ASSUME NEW c \in RdClient, RdUnblock(c)
        PROVE  RdQuiet
    <2>1. /\ rdJob'[c].slot = rdJob[c].slot /\ rdJob'[c].v = rdJob[c].v /\ rdJob'[c].park = rdJob[c].park
          /\ \A d \in RdClient : d # c => rdJob'[d] = rdJob[d]
      BY <1>0, <1>3, RdMoved DEF RdUnblock
    <2>2. QED
      BY <1>0, <1>3, <2>1 DEF RdUnblock, RdQuiet
  <1>4. ASSUME NEW c \in RdClient, RdDiscard(c)
        PROVE  RdQuiet
    <2>1. rdJob'[c].at = "dropped" /\ \A d \in RdClient : d # c => rdJob'[d] = rdJob[d]
      BY <1>4, RdMoved DEF RdDiscard
    <2>2. QED
      BY <1>0, <1>4, <2>1 DEF RdDiscard, RdQuiet
  <1>5. ASSUME NEW c \in RdClient, RdDisconnect(c)
        PROVE  RdQuiet
    BY <1>5 DEF RdDisconnect, RdQuiet
  <1>6. QED
    BY <1>1, <1>2, <1>3, <1>4, <1>5 DEF RdNext, RdServe

LEMMA RdGateStep ==
  ASSUME RdTypeOK, RdQueueInv, RdGateInv, RdNext, ~RdResetAnytime
  PROVE  RdGateInv'
  <1>0. RdOpenAt = {"queued", "offload", "ready"}
    BY DEF RdOpenAt
  <1>g. \A c \in RdClient : rdJob[c].slot \in RdSlot /\ RdGateOf(rdJob[c].slot) \in RdGates
    BY RdGateType DEF RdTypeOK, RdJobs
  <1>m. rdMode' = rdMode /\ \A s : RdGateOf(s)' = RdGateOf(s)
    <2>1. rdMode' = rdMode
      BY RdStepCases DEF RdQuiet, RdBegins, RdReply, RdReset
    <2>2. QED
      BY <2>1 DEF RdGateOf
  <1>1. CASE rdMode = "naive"
    BY <1>1, <1>m DEF RdGateInv
  <1>2. CASE rdMode # "naive" /\ RdQuiet
    <2>1. \A d \in RdClient : rdJob'[d].at \in RdOpenAt =>
              rdJob[d].at \in RdOpenAt /\ RdGateOf(rdJob[d].slot)' = RdGateOf(rdJob[d].slot)
      BY <1>2, <1>m DEF RdQuiet, RdGateOf
    <2>2. \A g \in RdGates : rdGate'[g].inflight = rdGate[g].inflight
      BY <1>2 DEF RdQuiet
    <2>3. QED
      BY <2>1, <2>2, <1>2, <1>g DEF RdGateInv
  <1>3. ASSUME NEW c \in RdClient, RdBegins(c), rdMode # "naive"
        PROVE  RdGateInv'
    <2>1. PICK g : g = RdGateOf(rdJob'[c].slot)
      OBVIOUS
    <2>2. /\ ~rdGate[g].inflight /\ rdGate'[g].inflight
          /\ \A h \in RdGates : h # g => rdGate'[h].inflight = rdGate[h].inflight
          /\ \A d \in RdClient : d # c => rdJob'[d] = rdJob[d]
      BY <1>3, <2>1 DEF RdBegins
    <2>3. RdGateOf(rdJob[c].slot)' = g
          /\ \A d \in RdClient : d # c => RdGateOf(rdJob[d].slot)' = RdGateOf(rdJob[d].slot)
      BY <2>1, <2>2, <1>m DEF RdGateOf
    <2>4. \A d \in RdClient : d # c /\ rdJob'[d].at \in RdOpenAt =>
              /\ rdGate[RdGateOf(rdJob[d].slot)].inflight /\ RdGateOf(rdJob[d].slot) # g
              /\ rdGate'[RdGateOf(rdJob[d].slot)].inflight
      BY <1>3, <1>g, <2>2 DEF RdGateInv
    <2>5. \A d \in RdClient : rdJob'[d].at \in RdOpenAt => rdGate'[RdGateOf(rdJob[d].slot)'].inflight
      BY <2>2, <2>3, <2>4
    <2>6. ASSUME NEW d \in RdClient, NEW e \in RdClient, rdJob'[d].at \in RdOpenAt, rdJob'[e].at \in RdOpenAt,
                 RdGateOf(rdJob[e].slot)' = RdGateOf(rdJob[d].slot)'
          PROVE  e = d
      <3>1. CASE d = c \/ e = c
        BY <3>1, <2>3, <2>4, <2>6
      <3>2. CASE d # c /\ e # c
        BY <3>2, <2>2, <2>3, <2>6, <1>3 DEF RdGateInv
      <3>3. QED
        BY <3>1, <3>2
    <2>7. QED
      BY <2>5, <2>6 DEF RdGateInv
  <1>4. ASSUME NEW c \in RdClient, RdReply(c), rdMode # "naive"
        PROVE  RdGateInv'
    <2>1. PICK g \in RdGates : g = RdGateOf(rdJob[c].slot)
      BY <1>g
    <2>2. rdJob[c].at \in RdOpenAt /\ rdJob'[c].at \notin RdOpenAt
      BY <1>0, <1>4, RdReplyStep
    <2>3. \A d \in RdClient : d # c /\ rdJob[d].at \in RdOpenAt => RdGateOf(rdJob[d].slot) # g
      BY <1>4, <2>1, <2>2 DEF RdGateInv
    <2>4. rdGate[g].inflight /\ rdGate[g] \in [inflight : BOOLEAN, pend : Seq(RdClient)]
      BY <1>4, <2>1, <2>2 DEF RdGateInv, RdTypeOK
    <2>5. CASE /\ \A d \in RdClient : d # c => rdJob'[d] = rdJob[d]
               /\ rdGate' = [rdGate EXCEPT ![g].inflight = FALSE]
      <3>1. \A d \in RdClient : rdJob'[d].at \in RdOpenAt =>
                d # c /\ rdJob[d].at \in RdOpenAt /\ RdGateOf(rdJob[d].slot)' = RdGateOf(rdJob[d].slot)
        BY <2>2, <2>5, <1>m DEF RdGateOf
      <3>2. \A h \in RdGates : h # g => rdGate'[h] = rdGate[h]
        BY <2>5 DEF RdTypeOK
      <3>3. \A d \in RdClient : rdJob'[d].at \in RdOpenAt => rdGate'[RdGateOf(rdJob[d].slot)'].inflight
        BY <1>4, <1>g, <2>3, <3>1, <3>2 DEF RdGateInv
      <3>4. QED
        BY <1>4, <3>1, <3>3 DEF RdGateInv
    <2>6. ASSUME NEW nx \in RdClient, nx \in RdPend(g),
                 rdJob'[nx] = RdBegunJob(rdJob[nx], rdCnt', rdDet'.gclk),
                 \A d \in RdClient : d # c /\ d # nx => rdJob'[d] = rdJob[d],
                 rdGate' = [rdGate EXCEPT ![g].pend = Tail(@)]
          PROVE  RdGateInv'
      <3>1. rdJob'[nx].slot = rdJob[nx].slot /\ RdGateOf(rdJob[nx].slot) = g
        BY <2>6 DEF RdBegunJob, RdPend
      <3>2. RdGateOf(rdJob[nx].slot)' = g
        BY <3>1, <1>m DEF RdGateOf
      <3>3. \A d \in RdClient : d # nx /\ rdJob'[d].at \in RdOpenAt =>
                /\ d # c /\ rdJob[d].at \in RdOpenAt /\ rdJob'[d] = rdJob[d]
                /\ RdGateOf(rdJob[d].slot)' = RdGateOf(rdJob[d].slot) /\ RdGateOf(rdJob[d].slot) # g
        BY <2>2, <2>3, <2>6, <1>m DEF RdGateOf
      <3>4. \A h \in RdGates : rdGate'[h].inflight = rdGate[h].inflight
        <4>1. rdGate'[g] = [rdGate[g] EXCEPT !.pend = Tail(@)] /\ \A h \in RdGates : h # g => rdGate'[h] = rdGate[h]
          BY <2>6 DEF RdTypeOK
        <4>2. rdGate'[g].inflight = rdGate[g].inflight
          BY <4>1, <2>4
        <4>3. QED
          BY <4>1, <4>2
      <3>5. \A d \in RdClient : rdJob'[d].at \in RdOpenAt => rdGate'[RdGateOf(rdJob[d].slot)'].inflight
        <4>1. ASSUME NEW d \in RdClient, d # nx, rdJob'[d].at \in RdOpenAt
              PROVE  rdGate'[RdGateOf(rdJob[d].slot)'].inflight
          BY <4>1, <1>4, <1>g, <3>3, <3>4 DEF RdGateInv
        <4>2. rdGate'[RdGateOf(rdJob[nx].slot)'].inflight
          BY <2>4, <3>2, <3>4
        <4>3. QED
          BY <4>1, <4>2
      <3>6. ASSUME NEW d \in RdClient, NEW e \in RdClient, rdJob'[d].at \in RdOpenAt, rdJob'[e].at \in RdOpenAt,
                   RdGateOf(rdJob[e].slot)' = RdGateOf(rdJob[d].slot)'
            PROVE  e = d
        <4>1. CASE d = nx \/ e = nx
          BY <4>1, <3>2, <3>3, <3>6
        <4>2. CASE d # nx /\ e # nx
          BY <4>2, <3>3, <3>6, <1>4 DEF RdGateInv
        <4>3. QED
          BY <4>1, <4>2
      <3>7. QED
        BY <3>5, <3>6 DEF RdGateInv
    <2>7. QED
      BY <2>1, <2>5, <2>6, <1>4, RdReplyStep
  <1>5. CASE RdReset
    <2>1. \A c \in RdClient : rdJob'[c].at \notin RdOpenAt
      BY <1>0, <1>5 DEF RdReset
    <2>2. QED
      BY <2>1 DEF RdGateInv
  <1>6. QED
    BY <1>1, <1>2, <1>3, <1>4, <1>5, RdStepCases

LEMMA RdTypes ==
  ASSUME RdTypeOK
  PROVE  /\ rdDet.gclk \in Nat /\ rdDet.conflicts \in Nat /\ rdDet.pver \in [RdSlot -> Nat]
         /\ rdCnt \in [RdSlot -> Nat] /\ rdTotal \in Nat
         /\ \A c \in RdClient : rdJob[c].slot \in RdSlot /\ rdJob[c].v \in Nat /\ rdJob[c].park \in Nat
  BY DEF RdTypeOK, RdJobs

\* Which jobs are past their gate after a reply: the others, unless their gate
\* is the same, and the one that was begun.
LEMMA RdReplyOpen ==
  ASSUME RdTypeOK, RdQueueInv, RdGateInv, NEW c \in RdClient, RdReply(c),
         NEW d \in RdClient, rdJob'[d].at \in RdOpenAt
  PROVE  \/ /\ d # c /\ rdJob[d].at \in RdOpenAt /\ rdJob'[d] = rdJob[d]
            /\ rdMode # "naive" => RdGateOf(rdJob[d].slot) # RdGateOf(rdJob[c].slot)
         \/ /\ rdMode # "naive" /\ rdJob'[d].slot \in RdSlot /\ rdJob'[d].v = rdCnt'[rdJob'[d].slot]
            /\ rdMode # "lock" => rdJob'[d].park = rdDet'.gclk
            /\ rdJob'[d].park \in Nat
  <1>0. RdOpenAt = {"queued", "offload", "ready"}
    BY DEF RdOpenAt
  <1>1. rdJob[c].at \in RdOpenAt /\ rdJob'[c].at \notin RdOpenAt
    BY <1>0, RdReplyStep
  <1>2. d # c
    BY <1>1
  <1>3. rdMode # "naive" /\ rdJob[d].at \in RdOpenAt => RdGateOf(rdJob[d].slot) # RdGateOf(rdJob[c].slot)
    BY <1>1, <1>2 DEF RdGateInv
  <1>4. CASE rdJob'[d] = rdJob[d]
    BY <1>2, <1>3, <1>4
  <1>5. CASE rdMode # "naive" /\ rdJob'[d] = RdBegunJob(rdJob[d], rdCnt', rdDet'.gclk)
    <2>1. rdJob'[d] \in RdJobs
      BY RdReplyStep
    <2>2. rdJob'[d].slot \in RdSlot /\ rdJob'[d].park \in Nat
      BY <2>1 DEF RdJobs
    <2>3. rdJob'[d].slot = rdJob[d].slot /\ rdJob'[d].v = rdCnt'[rdJob[d].slot]
          /\ (rdMode # "lock" => rdJob'[d].park = rdDet'.gclk)
      BY <1>5 DEF RdBegunJob
    <2>4. QED
      BY <1>5, <2>2, <2>3
  <1>6. QED
    BY <1>2, <1>4, <1>5, RdReplyStep

LEMMA RdClockStep ==
  ASSUME RdTypeOK, RdTypeOK', RdQueueInv, RdGateInv, RdClockInv, RdNext, ~RdResetAnytime
  PROVE  RdClockInv'
  <1>0. RdOpenAt = {"queued", "offload", "ready"}
    BY DEF RdOpenAt
  <1>1. CASE RdQuiet
    BY <1>1 DEF RdQuiet, RdClockInv
  <1>2. ASSUME NEW c \in RdClient, RdBegins(c)
        PROVE  RdClockInv'
    <2>1. rdMode' = rdMode /\ rdDet' = rdDet /\ rdJob'[c] \in RdJobs
          /\ (rdMode # "lock" => rdJob'[c].park = rdDet.gclk)
          /\ \A d \in RdClient : d # c => rdJob'[d] = rdJob[d]
      BY <1>2 DEF RdBegins
    <2>2. rdJob'[c].slot \in RdSlot /\ rdJob'[c].park \in Nat
      BY <2>1 DEF RdJobs
    <2>3. (rdMode # "lock" => rdJob'[c].park <= rdDet.gclk) /\ rdDet.pver[rdJob'[c].slot] <= rdJob'[c].park
      BY <2>1, <2>2, RdTypes DEF RdClockInv
    <2>4. QED
      BY <2>1, <2>3 DEF RdClockInv
  <1>3. ASSUME NEW c \in RdClient, RdReply(c)
        PROVE  RdClockInv'
    <2> DEFINE s == rdJob[c].slot
    <2>1. rdMode' = rdMode /\ rdDet' = RdFault(c) /\ rdJob[c].at \in RdOpenAt
      BY <1>0, <1>3, RdReplyStep DEF RdReply
    <2>2. /\ rdMode = "lock" => rdDet' = rdDet
          /\ rdMode # "lock" =>
                 /\ rdDet'.gclk = rdDet.gclk + 1 /\ rdDet'.pver[s] = rdDet.gclk + 1
                 /\ \A r \in RdSlot : r # s => rdDet'.pver[r] = rdDet.pver[r]
                 /\ rdDet'.conflicts = rdDet.conflicts + (IF rdDet.pver[s] > rdJob[c].park THEN 1 ELSE 0)
      BY <2>1, RdFaultStep
    <2>3. s \in RdSlot /\ rdJob[c].park \in Nat /\ rdDet.gclk \in Nat
          /\ rdDet.pver \in [RdSlot -> Nat] /\ rdDet.conflicts \in Nat
      BY RdTypes
    <2> HIDE DEF s
    <2>4. \A r \in RdSlot : rdDet'.pver[r] <= rdDet'.gclk /\ (rdMode = "lock" => rdDet'.pver[r] = 0)
      BY <2>2, <2>3 DEF RdClockInv
    <2>5. rdMode # "naive" => rdDet'.conflicts = 0
      <3>1. rdMode # "naive" => rdDet.conflicts = 0 /\ rdDet.pver[s] <= rdJob[c].park
        BY <2>1 DEF RdClockInv, s
      <3>2. QED
        BY <2>2, <2>3, <3>1
    <2>6. ASSUME NEW d \in RdClient, rdJob'[d].at \in RdOpenAt
          PROVE  /\ rdMode # "lock" => rdJob'[d].park <= rdDet'.gclk
                 /\ rdMode # "naive" => rdDet'.pver[rdJob'[d].slot] <= rdJob'[d].park
      <3>1. CASE /\ d # c /\ rdJob[d].at \in RdOpenAt /\ rdJob'[d] = rdJob[d]
                 /\ rdMode # "naive" => RdGateOf(rdJob[d].slot) # RdGateOf(rdJob[c].slot)
        <4>1. rdMode = "detect" => rdJob[d].slot # s
          BY <3>1 DEF RdGateOf, s
        <4>2. rdMode \in {"naive", "detect", "lock"} /\ rdJob[d].slot \in RdSlot /\ rdJob[d].park \in Nat
          BY RdTypes DEF RdTypeOK
        <4>3. /\ rdMode # "lock" => rdJob[d].park <= rdDet.gclk
              /\ rdMode # "naive" => rdDet.pver[rdJob[d].slot] <= rdJob[d].park
          BY <3>1 DEF RdClockInv
        <4>4. rdMode # "lock" => rdJob'[d].park <= rdDet'.gclk
          BY <2>2, <2>3, <3>1, <4>2, <4>3
        <4>5. rdMode # "naive" => rdDet'.pver[rdJob'[d].slot] <= rdJob'[d].park
          BY <2>2, <3>1, <4>1, <4>2, <4>3
        <4>6. QED
          BY <4>4, <4>5
      <3>2. CASE /\ rdMode # "naive" /\ rdJob'[d].slot \in RdSlot
                 /\ rdMode # "lock" => rdJob'[d].park = rdDet'.gclk
                 /\ rdJob'[d].park \in Nat
        BY <2>2, <2>3, <2>4, <3>2
      <3>3. QED
        BY <1>3, <2>6, <3>1, <3>2, RdReplyOpen
    <2>7. QED
      BY <2>1, <2>4, <2>5, <2>6 DEF RdClockInv
  <1>4. CASE RdReset
    <2>1. rdDet' = [rdDet EXCEPT !.conflicts = 0] /\ rdMode' = rdMode
          /\ \A c \in RdClient : rdJob'[c].at \notin RdOpenAt
      BY <1>0, <1>4 DEF RdReset
    <2>2. rdDet'.conflicts = 0 /\ rdDet'.pver = rdDet.pver /\ rdDet'.gclk = rdDet.gclk
      BY <2>1 DEF RdTypeOK
    <2>3. QED
      BY <2>1, <2>2 DEF RdClockInv
  <1>5. QED
    BY <1>1, <1>2, <1>3, <1>4, RdStepCases

(* Sums as numbers of units. *)

LEMMA RdUnitIn ==
  ASSUME NEW f, NEW u
  PROVE  u \in RdUnits(f) <=> \E s \in RdSlot : \E n \in 1..f[s] : u = <<s, n>>
  <1>1. u \in RdUnits(f) <=> \E s \in RdSlot : u \in {s} \X (1..f[s])
    BY DEF RdUnits
  <1>2. \A s : u \in {s} \X (1..f[s]) <=> \E n \in 1..f[s] : u = <<s, n>>
    OBVIOUS
  <1>3. QED
    BY <1>1, <1>2

LEMMA RdUnitsFinite ==
  ASSUME NEW f \in [RdSlot -> Nat]
  PROVE  IsFiniteSet(RdUnits(f)) /\ Cardinality(RdUnits(f)) \in Nat
  <1> DEFINE T == {{s} \X (1..f[s]) : s \in RdSlot}
             h == [s \in RdSlot |-> {s} \X (1..f[s])]
  <1>1. h \in Surjection(RdSlot, T)
    BY DEF Surjection
  <1>2. IsFiniteSet(T)
    BY <1>1, RdAssumption, FS_Surjection
  <1>3. ASSUME NEW s \in RdSlot
        PROVE  IsFiniteSet({s} \X (1..f[s]))
    <2>1. IsFiniteSet({s}) /\ IsFiniteSet(1..f[s])
      <3>1. f[s] \in Int /\ 1 \in Int
        OBVIOUS
      <3>2. QED
        BY <3>1, FS_Singleton, FS_Interval
    <2>2. QED
      BY <2>1, FS_Product
  <1>4. IsFiniteSet(UNION T)
    BY <1>2, <1>3, FS_UNION
  <1>5. QED
    BY <1>4, FS_CardinalityType DEF RdUnits

\* One write more makes the sum one larger.
LEMMA RdUnitsAdd ==
  ASSUME NEW f \in [RdSlot -> Nat], NEW g \in [RdSlot -> Nat], NEW s \in RdSlot,
         g[s] = f[s] + 1, \A r \in RdSlot : r # s => g[r] = f[r]
  PROVE  Cardinality(RdUnits(g)) = Cardinality(RdUnits(f)) + 1
  <1>1. g[s] = f[s] + 1 /\ f[s] \in Nat
    OBVIOUS
  <1>2. \A n : n \in 1..g[s] <=> n \in 1..f[s] \/ n = f[s] + 1
    BY <1>1
  <1>3. RdUnits(g) = RdUnits(f) \cup {<<s, f[s] + 1>>}
    <2>1. ASSUME NEW u
          PROVE  u \in RdUnits(g) <=> u \in RdUnits(f) \cup {<<s, f[s] + 1>>}
      <3>1. u \in RdUnits(g) <=> \E r \in RdSlot : \E n \in 1..g[r] : u = <<r, n>>
        BY RdUnitIn
      <3>2. u \in RdUnits(f) <=> \E r \in RdSlot : \E n \in 1..f[r] : u = <<r, n>>
        BY RdUnitIn
      <3>3. QED
        BY <3>1, <3>2, <1>2
    <2>2. QED
      BY <2>1
  <1>4. <<s, f[s] + 1>> \notin RdUnits(f)
    <2>1. SUFFICES ASSUME NEW r \in RdSlot, NEW n \in 1..f[r], <<s, f[s] + 1>> = <<r, n>>
                   PROVE  FALSE
      BY RdUnitIn
    <2>2. r = s /\ n = f[s] + 1
      BY <2>1
    <2>3. QED
      BY <2>2, <1>1
  <1>5. QED
    BY <1>3, <1>4, RdUnitsFinite, FS_AddElement

\* A sum of smaller summands is smaller.
LEMMA RdUnitsLess ==
  ASSUME NEW f \in [RdSlot -> Nat], NEW g \in [RdSlot -> Nat], \A r \in RdSlot : f[r] <= g[r],
         NEW s \in RdSlot, f[s] < g[s]
  PROVE  Cardinality(RdUnits(f)) # Cardinality(RdUnits(g))
  <1>1. RdUnits(f) \subseteq RdUnits(g)
    <2>1. ASSUME NEW r \in RdSlot, NEW n \in 1..f[r]
          PROVE  n \in 1..g[r]
      <3>1. f[r] \in Nat /\ g[r] \in Nat /\ f[r] <= g[r]
        OBVIOUS
      <3>2. QED
        BY <3>1
    <2>2. ASSUME NEW u \in RdUnits(f)
          PROVE  u \in RdUnits(g)
      <3>0. PICK r \in RdSlot : \E n \in 1..f[r] : u = <<r, n>>
        BY <2>2, RdUnitIn
      <3>1. PICK n \in 1..f[r] : u = <<r, n>>
        BY <3>0
      <3>2. n \in 1..g[r]
        BY <2>1
      <3>3. QED
        BY <3>1, <3>2, RdUnitIn
    <2>3. QED
      BY <2>2
  <1>2. f[s] \in Nat /\ g[s] \in Nat
    OBVIOUS
  <1>3. <<s, g[s]>> \in RdUnits(g)
    <2>1. g[s] \in 1..g[s]
      BY <1>2
    <2>2. QED
      BY <2>1, RdUnitIn
  <1>4. <<s, g[s]>> \notin RdUnits(f)
    <2>1. SUFFICES ASSUME NEW r \in RdSlot, NEW n \in 1..f[r], <<s, g[s]>> = <<r, n>>
                   PROVE  FALSE
      BY RdUnitIn
    <2>2. r = s /\ n = g[s]
      BY <2>1
    <2>3. QED
      BY <2>2, <1>2
  <1>5. RdUnits(f) # RdUnits(g)
    BY <1>3, <1>4
  <1>6. IsFiniteSet(RdUnits(g))
    BY RdUnitsFinite
  <1>7. QED
    BY <1>1, <1>5, <1>6, FS_Subset

LEMMA RdNoUnits ==
  Cardinality(RdUnits([s \in RdSlot |-> 0])) = 0
  <1>1. \A u : u \notin RdUnits([s \in RdSlot |-> 0])
    BY DEF RdUnits
  <1>2. RdUnits([s \in RdSlot |-> 0]) = {}
    BY <1>1
  <1>3. QED
    BY <1>2, FS_EmptySet

LEMMA RdHistStep ==
  ASSUME RdTypeOK, RdTypeOK', RdQueueInv, RdGateInv, RdClockInv, RdNext, ~RdResetAnytime,
         NEW w \in [RdSlot -> Nat], RdHist(w)
  PROVE  \E x \in [RdSlot -> Nat] : RdHist(x)'
  <1>0. RdOpenAt = {"queued", "offload", "ready"}
    BY DEF RdOpenAt
  <1>t. /\ rdDet.gclk \in Nat /\ rdDet.conflicts \in Nat /\ rdDet.pver \in [RdSlot -> Nat]
        /\ rdCnt \in [RdSlot -> Nat] /\ rdTotal \in Nat
        /\ \A c \in RdClient : rdJob[c].slot \in RdSlot /\ rdJob[c].v \in Nat /\ rdJob[c].park \in Nat
    BY RdTypes
  <1>1. CASE RdQuiet
    <2>1. RdHist(w)'
      BY <1>1 DEF RdQuiet, RdHist
    <2>2. QED
      BY <2>1
  <1>2. ASSUME NEW c \in RdClient, RdBegins(c)
        PROVE  RdHist(w)'
    <2>1. /\ UNCHANGED <<rdMode, rdCnt, rdTotal, rdDet>> /\ rdJob'[c] \in RdJobs
          /\ (rdMode # "lock" => rdJob'[c].park = rdDet.gclk) /\ rdJob'[c].v = rdCnt[rdJob'[c].slot]
          /\ \A d \in RdClient : d # c => rdJob'[d] = rdJob[d]
      BY <1>2 DEF RdBegins
    <2>2. rdJob'[c].slot \in RdSlot /\ rdJob'[c].park \in Nat
      BY <2>1 DEF RdJobs
    <2>3. rdDet.pver[rdJob'[c].slot] <= rdJob'[c].park
      BY <2>1, <2>2, <1>t DEF RdClockInv
    <2>4. QED
      BY <2>1, <2>3 DEF RdHist
  <1>3. ASSUME NEW c \in RdClient, RdReply(c)
        PROVE  \E x \in [RdSlot -> Nat] : RdHist(x)'
    <2>1. PICK s \in RdSlot : s = rdJob[c].slot
      BY <1>t
    <2>2. PICK x \in [RdSlot -> Nat] : x = [w EXCEPT ![s] = @ + 1]
      <3>1. w[s] + 1 \in Nat
        OBVIOUS
      <3>2. [w EXCEPT ![s] = @ + 1] \in [RdSlot -> Nat]
        BY <3>1
      <3>3. QED
        BY <3>2
    <2>3. x[s] = w[s] + 1 /\ w[s] \in Nat /\ \A r \in RdSlot : r # s => x[r] = w[r]
      BY <2>2
    <2>4. rdMode' = rdMode /\ rdDet' = RdFault(c) /\ rdTotal' = rdTotal + 1
          /\ rdCnt' = [rdCnt EXCEPT ![s] = rdJob[c].v + 1]
      BY <1>3, <2>1 DEF RdReply
    <2>5. rdCnt'[s] = rdJob[c].v + 1 /\ \A r \in RdSlot : r # s => rdCnt'[r] = rdCnt[r]
      BY <2>4, <1>t
    <2>6. rdJob[c].at \in RdOpenAt
      BY <1>0, <1>3, RdReplyStep
    <2>7. /\ rdMode = "lock" => rdDet' = rdDet
          /\ rdMode # "lock" =>
                 /\ rdDet'.gclk = rdDet.gclk + 1 /\ rdDet'.pver[s] = rdDet.gclk + 1
                 /\ \A r \in RdSlot : r # s => rdDet'.pver[r] = rdDet.pver[r]
                 /\ rdDet'.conflicts = rdDet.conflicts + (IF rdDet.pver[s] > rdJob[c].park THEN 1 ELSE 0)
      BY <2>1, <2>4, RdFaultStep
    <2>8. Cardinality(RdUnits(x)) = rdTotal'
      BY <2>3, <2>4, RdUnitsAdd DEF RdHist
    <2>9. rdDet.pver[s] > rdJob[c].park => rdMode # "lock"
      BY <2>1, <1>t DEF RdClockInv
    <2>10. IF rdDet.pver[s] <= rdJob[c].park THEN rdJob[c].v = rdCnt[s] ELSE rdJob[c].v < w[s]
      BY <2>1, <2>6 DEF RdHist
    <2>11. rdDet.pver[s] <= rdJob[c].park => rdDet'.conflicts = rdDet.conflicts /\ rdCnt'[s] = rdCnt[s] + 1
      BY <2>1, <2>5, <2>7, <2>10, <1>t
    <2>12. rdDet.pver[s] > rdJob[c].park => rdDet'.conflicts > 0 /\ rdCnt'[s] < x[s]
      BY <2>1, <2>3, <2>5, <2>7, <2>9, <2>10, <1>t
    <2>13. \A r \in RdSlot : rdCnt[r] <= w[r]
      BY DEF RdHist
    <2>14. \A r \in RdSlot : rdCnt'[r] <= x[r]
      <3>1. rdCnt'[s] <= x[s]
        BY <2>1, <2>3, <2>5, <2>11, <2>12, <2>13, <1>t
      <3>2. QED
        BY <3>1, <2>3, <2>5, <2>13
    <2>15. rdDet'.conflicts = 0 => rdCnt' = x
      <3>1. SUFFICES ASSUME rdDet'.conflicts = 0
                     PROVE  rdCnt' = x
        OBVIOUS
      <3>2. rdDet.pver[s] <= rdJob[c].park /\ rdDet.conflicts = 0
        BY <3>1, <2>1, <2>11, <2>12, <1>t
      <3>3. rdCnt = w /\ rdCnt'[s] = x[s]
        BY <3>2, <2>3, <2>11 DEF RdHist
      <3>4. QED
        BY <3>3, <2>2, <2>3, <2>4, <1>t
    <2>16. rdDet'.conflicts > 0 => \E r \in RdSlot : rdCnt'[r] < x[r]
      <3>1. CASE rdDet.pver[s] > rdJob[c].park
        BY <3>1, <2>12
      <3>2. ASSUME rdDet.pver[s] <= rdJob[c].park, rdDet'.conflicts > 0
            PROVE  \E r \in RdSlot : rdCnt'[r] < x[r]
        <4>1. PICK r \in RdSlot : rdCnt[r] < w[r]
          BY <3>2, <2>11 DEF RdHist
        <4>2. rdCnt'[r] < x[r]
          BY <4>1, <3>2, <2>3, <2>5, <2>11, <1>t
        <4>3. QED
          BY <4>2
      <3>3. QED
        BY <3>1, <3>2, <2>1, <1>t
    <2>17. ASSUME NEW d \in RdClient, rdJob'[d].at \in RdOpenAt
           PROVE  IF rdDet'.pver[rdJob'[d].slot] <= rdJob'[d].park
                  THEN rdJob'[d].v = rdCnt'[rdJob'[d].slot] ELSE rdJob'[d].v < x[rdJob'[d].slot]
      <3>1. CASE /\ d # c /\ rdJob[d].at \in RdOpenAt /\ rdJob'[d] = rdJob[d]
                 /\ rdMode # "naive" => RdGateOf(rdJob[d].slot) # RdGateOf(rdJob[c].slot)
        <4> DEFINE r == rdJob[d].slot
        <4>1. r \in RdSlot /\ rdJob[d].v \in Nat /\ rdJob[d].park \in Nat
          BY <1>t
        <4>2. IF rdDet.pver[r] <= rdJob[d].park THEN rdJob[d].v = rdCnt[r] ELSE rdJob[d].v < w[r]
          BY <3>1 DEF RdHist
        <4>3. CASE r # s
          <5>1. rdDet'.pver[r] = rdDet.pver[r] /\ rdCnt'[r] = rdCnt[r] /\ x[r] = w[r]
            BY <4>1, <4>3, <2>3, <2>5, <2>7
          <5>2. QED
            BY <3>1, <4>2, <5>1
        <4>4. CASE r = s
          <5>1. rdMode = "naive"
            BY <3>1, <4>4, <2>1
          <5>2. rdDet'.pver[s] = rdDet.gclk + 1 /\ rdJob[d].park <= rdDet.gclk
            BY <5>1, <2>7, <3>1 DEF RdClockInv
          <5>3. ~(rdDet'.pver[s] <= rdJob[d].park)
            BY <5>2, <4>1, <1>t
          <5>4. rdJob[d].v < x[s]
            BY <4>1, <4>2, <4>4, <2>3, <2>13, <1>t
          <5>5. QED
            BY <3>1, <4>4, <5>3, <5>4
        <4>5. QED
          BY <4>3, <4>4
      <3>2. CASE /\ rdMode # "naive" /\ rdJob'[d].slot \in RdSlot /\ rdJob'[d].v = rdCnt'[rdJob'[d].slot]
        <4>1. rdDet'.pver[rdJob'[d].slot] <= rdJob'[d].park
          BY <2>4, <2>17, <3>2, RdClockStep DEF RdClockInv
        <4>2. QED
          BY <3>2, <4>1
      <3>3. QED
        BY <1>3, <2>17, <3>1, <3>2, RdReplyOpen
    <2>18. RdHist(x)'
      BY <2>8, <2>14, <2>15, <2>16, <2>17 DEF RdHist
    <2>19. QED
      BY <2>18
  <1>4. ASSUME RdReset
        PROVE  \E x \in [RdSlot -> Nat] : RdHist(x)'
    <2>1. PICK x \in [RdSlot -> Nat] : x = [s \in RdSlot |-> 0]
      OBVIOUS
    <2>2. rdCnt' = x /\ rdTotal' = 0 /\ rdDet' = [rdDet EXCEPT !.conflicts = 0]
          /\ \A c \in RdClient : rdJob'[c].at \notin RdOpenAt
      BY <1>0, <1>4, <2>1 DEF RdReset
    <2>3. rdDet'.conflicts = 0
      BY <2>2 DEF RdTypeOK
    <2>4. Cardinality(RdUnits(x)) = 0
      BY <2>1, RdNoUnits
    <2>5. RdHist(x)'
      BY <2>1, <2>2, <2>3, <2>4 DEF RdHist
    <2>6. QED
      BY <2>5
  <1>5. QED
    BY <1>1, <1>2, <1>3, <1>4, RdStepCases

LEMMA RdInitInv ==
  ASSUME RdInit
  PROVE  RdIndInv
  <1>0. RdOpenAt = {"queued", "offload", "ready"}
    BY DEF RdOpenAt
  <1>1. RdTypeOK
    <2>1. (CHOOSE s \in RdSlot : TRUE) \in RdSlot
      BY RdAssumption
    <2>2. rdJob \in [RdClient -> RdJobs]
      BY <2>1 DEF RdInit, RdJobs
    <2>3. QED
      BY <2>2 DEF RdInit, RdTypeOK
  <1>2. \A c \in RdClient : rdJob[c].at = "idle"
    BY DEF RdInit
  <1>3. RdQueueInv
    <2>1. \A S : RdEach(<<>>, S)
      BY DEF RdEach
    <2>2. \A g \in RdGates : rdGate[g].pend = <<>>
      BY DEF RdInit
    <2>3. QED
      BY <2>1, <2>2 DEF RdInit, RdQueueInv
  <1>4. RdGateInv /\ RdClockInv
    BY <1>0, <1>2 DEF RdInit, RdGateInv, RdClockInv
  <1>5. PICK w \in [RdSlot -> Nat] : w = [s \in RdSlot |-> 0]
    OBVIOUS
  <1>6. Cardinality(RdUnits(w)) = 0
    BY <1>5, RdNoUnits
  <1>7. RdHist(w)
    <2>1. rdCnt = w /\ rdTotal = 0 /\ rdDet.conflicts = 0
      BY <1>5 DEF RdInit
    <2>2. QED
      BY <1>0, <1>2, <1>5, <1>6, <2>1 DEF RdHist
  <1>8. QED
    BY <1>1, <1>3, <1>4, <1>7 DEF RdIndInv

LEMMA RdIndStep ==
  ASSUME RdIndInv, [RdNext]_rdVars, ~RdResetAnytime
  PROVE  RdIndInv'
  <1>1. CASE RdNext
    <2>1. RdTypeOK /\ RdQueueInv /\ RdGateInv /\ RdClockInv
      BY DEF RdIndInv
    <2>2. PICK w \in [RdSlot -> Nat] : RdHist(w)
      BY DEF RdIndInv
    <2>3. RdTypeOK'
      BY <1>1, <2>1, RdTypeStep
    <2>4. RdQueueInv' /\ RdGateInv'
      BY <1>1, <2>1, RdQueueStep, RdGateStep
    <2>5. RdClockInv'
      BY <1>1, <2>1, <2>3, RdClockStep
    <2>6. \E x \in [RdSlot -> Nat] : RdHist(x)'
      BY <1>1, <2>1, <2>2, <2>3, RdHistStep
    <2>7. QED
      BY <2>3, <2>4, <2>5, <2>6 DEF RdIndInv
  <1>2. CASE UNCHANGED rdVars
    <2>1. RdTypeOK' /\ RdClockInv'
      BY <1>2 DEF rdVars, RdIndInv, RdTypeOK, RdClockInv
    <2>2. RdQueueInv'
      BY <1>2 DEF rdVars, RdIndInv, RdQueueInv, RdAt, RdPend, RdGateOf
    <2>3. RdGateInv'
      BY <1>2 DEF rdVars, RdIndInv, RdGateInv, RdGateOf
    <2>4. PICK w \in [RdSlot -> Nat] : RdHist(w)
      BY DEF RdIndInv
    <2>5. RdHist(w)'
      BY <1>2, <2>4 DEF rdVars, RdHist
    <2>6. QED
      BY <2>1, <2>2, <2>3, <2>5 DEF RdIndInv
  <1>3. QED
    BY <1>1, <1>2

\* The invariant says where the updates are.
LEMMA RdIndAccounts ==
  ASSUME RdIndInv
  PROVE  RdAccounts
  <1>1. PICK w \in [RdSlot -> Nat] : RdHist(w)
    BY DEF RdIndInv
  <1>2. rdDet.conflicts \in Nat /\ rdCnt \in [RdSlot -> Nat]
    BY RdTypes DEF RdIndInv
  <1>3. rdDet.conflicts = 0 => RdSum = rdTotal
    BY <1>1 DEF RdHist, RdSum
  <1>4. rdDet.conflicts > 0 => RdSum # rdTotal
    <2>1. SUFFICES ASSUME rdDet.conflicts > 0
                   PROVE  RdSum # rdTotal
      OBVIOUS
    <2>2. PICK s \in RdSlot : rdCnt[s] < w[s]
      BY <1>1, <2>1 DEF RdHist
    <2>3. PICK f \in [RdSlot -> Nat] : f = rdCnt
      BY <1>2
    <2>4. \A r \in RdSlot : f[r] <= w[r]
      BY <1>1, <2>3 DEF RdHist
    <2>5. Cardinality(RdUnits(f)) # Cardinality(RdUnits(w))
      BY <2>2, <2>3, <2>4, RdUnitsLess
    <2>6. QED
      BY <1>1, <2>3, <2>5 DEF RdHist, RdSum
  <1>5. rdMode # "naive" => rdDet.conflicts = 0
    BY DEF RdIndInv, RdClockInv
  <1>6. QED
    BY <1>2, <1>3, <1>4, <1>5 DEF RdAccounts, RdNoLost, RdLossIsCounted

\* reply_cb() and cmd_stats(): with the gates of "detect" and "lock" no update
\* is ever lost, and the handler's det_conflicts is zero exactly when none is,
\* in every mode, for any number of clients, slots and workers and whoever
\* disconnects, as long as DET.RESET comes while no job is in flight.
THEOREM RdCorrect ==
  ASSUME ~RdResetAnytime
  PROVE  RdSpec => []RdAccounts
  <1>1. RdInit => RdIndInv
    BY RdInitInv
  <1>2. RdIndInv /\ [RdNext]_rdVars => RdIndInv'
    BY RdIndStep
  <1>3. RdIndInv => RdAccounts
    BY RdIndAccounts
  <1>4. QED
    BY <1>1, <1>2, <1>3, PTL DEF RdSpec

-----------------------------------------------------------------------------
(* The HAProxy agent. *)

\* The quotients of the wire format, from those of the loop.
LEMMA SpShift ==
  \A v, u \in Nat : v >= 240 /\ u = (v - 240) \div 16 =>
     /\ v = 240 + 16 * u + (v % 16) /\ v % 16 \in 0..15
     /\ v < 2288 <=> u < 128
     /\ v < 264432 <=> u < 16512
     /\ v < SpTop <=> u < 2113664
     /\ v >= 2288 => (v - 2288) \div 2048 = (u - 128) \div 128
     /\ v >= 264432 => (v - 264432) \div 262144 = (u - 16512) \div 16384
  BY SMT DEF SpTop

LEMMA SpLoop ==
  \A u \in Nat : u >= 128 =>
     /\ SpRest(u) \in Nat /\ u = 128 + 128 * SpRest(u) + (u % 128) /\ u % 128 \in 0..127
     /\ SpRest(u) = (u - 128) \div 128
     /\ SpRest(u) < 128 <=> u < 16512
     /\ u >= 16512 => SpRest(SpRest(u)) = (u - 16512) \div 16384
  BY SMT DEF SpRest

LEMMA SpTails ==
  ASSUME NEW a \in Nat, NEW s \in Seq(Nat)
  PROVE  /\ <<a>> \o s \in Seq(Nat) /\ Len(<<a>> \o s) = 1 + Len(s) /\ (<<a>> \o s)[1] = a
         /\ \A k \in 2..(1 + Len(s)) : (<<a>> \o s)[k] = s[k - 1]
  <1>1. <<a>> \in Seq(Nat) /\ Len(<<a>>) = 1 /\ <<a>>[1] = a
    OBVIOUS
  <1> QED
    BY <1>1, ConcatProperties

\* A byte before one, two or three others.
LEMMA SpJoin ==
  /\ \A a, b \in Nat : <<a>> \o <<b>> = <<a, b>>
  /\ \A a, b, c \in Nat : <<a>> \o <<b, c>> = <<a, b, c>>
  /\ \A a, b, c, d \in Nat : <<a>> \o <<b, c, d>> = <<a, b, c, d>>
  <1>1. ASSUME NEW a \in Nat, NEW b \in Nat
        PROVE  <<a>> \o <<b>> = <<a, b>>
    <2> DEFINE s == <<b>>
               l == <<a>> \o s
               r == <<a, b>>
    <2>1. s \in Seq(Nat) /\ Len(s) = 1 /\ r \in Seq(Nat) /\ Len(r) = 2
      OBVIOUS
    <2>2. \A k \in 1..2 : k >= 2 => s[k - 1] = r[k]
      OBVIOUS
    <2>3. r[1] = a
      OBVIOUS
    <2> HIDE DEF s, r
    <2>4. l \in Seq(Nat) /\ Len(l) = 1 + Len(s) /\ l[1] = a /\ \A k \in 2..(1 + Len(s)) : l[k] = s[k - 1]
      BY <2>1, SpTails
    <2> HIDE DEF l
    <2>6. \A k \in 1..2 : l[k] = r[k]
      BY <2>1, <2>2, <2>3, <2>4
    <2>5. l = r
      <3>1. l \in Seq(Nat) /\ r \in Seq(Nat) /\ Len(l) = Len(r)
        BY <2>1, <2>4
      <3>2. \A k \in 1..Len(l) : l[k] = r[k]
        BY <2>1, <2>4, <2>6
      <3> QED
        BY <3>1, <3>2, SeqEqual
    <2> QED
      BY <2>5 DEF s, l, r
  <1>2. ASSUME NEW a \in Nat, NEW b \in Nat, NEW c \in Nat
        PROVE  <<a>> \o <<b, c>> = <<a, b, c>>
    <2> DEFINE s == <<b, c>>
               l == <<a>> \o s
               r == <<a, b, c>>
    <2>1. s \in Seq(Nat) /\ Len(s) = 2 /\ r \in Seq(Nat) /\ Len(r) = 3
      OBVIOUS
    <2>2. \A k \in 1..3 : k >= 2 => s[k - 1] = r[k]
      OBVIOUS
    <2>3. r[1] = a
      OBVIOUS
    <2> HIDE DEF s, r
    <2>4. l \in Seq(Nat) /\ Len(l) = 1 + Len(s) /\ l[1] = a /\ \A k \in 2..(1 + Len(s)) : l[k] = s[k - 1]
      BY <2>1, SpTails
    <2> HIDE DEF l
    <2>6. \A k \in 1..3 : l[k] = r[k]
      BY <2>1, <2>2, <2>3, <2>4
    <2>5. l = r
      <3>1. l \in Seq(Nat) /\ r \in Seq(Nat) /\ Len(l) = Len(r)
        BY <2>1, <2>4
      <3>2. \A k \in 1..Len(l) : l[k] = r[k]
        BY <2>1, <2>4, <2>6
      <3> QED
        BY <3>1, <3>2, SeqEqual
    <2> QED
      BY <2>5 DEF s, l, r
  <1>3. ASSUME NEW a \in Nat, NEW b \in Nat, NEW c \in Nat, NEW d \in Nat
        PROVE  <<a>> \o <<b, c, d>> = <<a, b, c, d>>
    <2> DEFINE s == <<b, c, d>>
               l == <<a>> \o s
               r == <<a, b, c, d>>
    <2>1. s \in Seq(Nat) /\ Len(s) = 3 /\ r \in Seq(Nat) /\ Len(r) = 4
      OBVIOUS
    <2>2. \A k \in 1..4 : k >= 2 => s[k - 1] = r[k]
      OBVIOUS
    <2>3. r[1] = a
      OBVIOUS
    <2> HIDE DEF s, r
    <2>4. l \in Seq(Nat) /\ Len(l) = 1 + Len(s) /\ l[1] = a /\ \A k \in 2..(1 + Len(s)) : l[k] = s[k - 1]
      BY <2>1, SpTails
    <2> HIDE DEF l
    <2>6. \A k \in 1..4 : l[k] = r[k]
      BY <2>1, <2>2, <2>3, <2>4
    <2>5. l = r
      <3>1. l \in Seq(Nat) /\ r \in Seq(Nat) /\ Len(l) = Len(r)
        BY <2>1, <2>4
      <3>2. \A k \in 1..Len(l) : l[k] = r[k]
        BY <2>1, <2>4, <2>6
      <3> QED
        BY <3>1, <3>2, SeqEqual
    <2> QED
      BY <2>5 DEF s, l, r
  <1> QED
    BY <1>1, <1>2, <1>3

\* The agent writes a number as HAProxy does.
LEMMA SpEncIs ==
  ASSUME NEW v \in Nat, v < SpTop
  PROVE  SpEncVarint(v) = SpWireVarint(v)
  <1>1. CASE v < 240
    BY <1>1 DEF SpEncVarint, SpWireVarint
  <1>2. CASE ~(v < 240)
    <2>0. PICK u \in Nat : u = (v - 240) \div 16
      BY <1>2
    <2>1. /\ v < 2288 <=> u < 128
          /\ v < 264432 <=> u < 16512
          /\ u < 2113664
          /\ v >= 2288 => (v - 2288) \div 2048 = (u - 128) \div 128
          /\ v >= 264432 => (v - 264432) \div 262144 = (u - 16512) \div 16384
      BY <1>2, <2>0, SpShift, SMT
    <2> DEFINE a == 240 + (v % 16)
               b == 128 + (u % 128)
               q == SpRest(u)
    <2>2. SpEncVarint(v) = <<a>> \o SpEncTail(u)
      BY <1>2, <2>0 DEF SpEncVarint
    <2>3. a \in Nat /\ b \in Nat
      OBVIOUS
    <2>4. u >= 128 => /\ q \in Nat /\ q = (u - 128) \div 128 /\ (q < 128 <=> u < 16512)
                      /\ u >= 16512 => SpRest(q) = (u - 16512) \div 16384 /\ SpRest(q) \in Nat
      BY SpLoop, SMT
    <2>5. CASE u < 128
      <3>1. SpWireVarint(v) = <<a, u>>
        BY <1>2, <2>0, <2>1, <2>5, SMT DEF SpWireVarint
      <3>2. SpEncTail(u) = <<u>>
        BY <2>5 DEF SpEncTail
      <3> HIDE DEF a
      <3>3. <<a>> \o <<u>> = <<a, u>>
        BY <2>3, SpJoin
      <3> QED
        BY <2>2, <3>1, <3>2, <3>3
    <2>6. CASE u >= 128 /\ u < 16512
      <3>1. SpWireVarint(v) = <<a, b, q>>
        BY <1>2, <2>0, <2>1, <2>4, <2>6, SMT DEF SpWireVarint
      <3>2. SpEncTail(u) = <<b, q>>
        BY <2>4, <2>6, SMT DEF SpEncTail, SpMore
      <3> HIDE DEF a, b, q
      <3>3. <<a>> \o <<b, q>> = <<a, b, q>>
        BY <2>3, <2>4, <2>6, SpJoin
      <3> QED
        BY <2>2, <3>1, <3>2, <3>3
    <2>7. CASE u >= 16512
      <3> DEFINE c == 128 + (q % 128)
                 r == SpRest(q)
      <3>1. SpWireVarint(v) = <<a, b, c, r>>
        BY <1>2, <2>0, <2>1, <2>4, <2>7, SMT DEF SpWireVarint
      <3>2. SpEncTail(u) = <<b, c, r>>
        BY <2>4, <2>7, SMT DEF SpEncTail, SpMore
      <3>3. c \in Nat /\ r \in Nat
        BY <2>4, <2>7, SMT
      <3> HIDE DEF a, b, c, r
      <3>4. <<a>> \o <<b, c, r>> = <<a, b, c, r>>
        BY <2>3, <3>3, SpJoin
      <3> QED
        BY <2>2, <3>1, <3>2, <3>4
    <2> QED
      BY <2>5, <2>6, <2>7, SMT
  <1> QED
    BY <1>1, <1>2

LEMMA SpWireIs ==
  ASSUME NEW v \in Nat, v < SpTop
  PROVE  SpWireVarint(v) \in Seq(Nat) /\ Len(SpWireVarint(v)) \in 1..4
  <1>1. CASE v < 240
    BY <1>1, SMT DEF SpWireVarint
  <1>2. CASE ~(v < 240)
    <2> DEFINE a == 240 + (v % 16)
               b == 128 + (((v - 240) \div 16) % 128)
               c == (v - 240) \div 16
               d == (v - 2288) \div 2048
               e == 128 + (((v - 2288) \div 2048) % 128)
               f == (v - 264432) \div 262144
    <2>1. SpWireVarint(v) = IF v < 2288 THEN <<a, c>> ELSE IF v < 264432 THEN <<a, b, d>> ELSE <<a, b, e, f>>
      BY <1>2, SMT DEF SpWireVarint
    <2>2. a \in Nat /\ b \in Nat /\ c \in Nat
      BY <1>2, SMT
    <2>3. ~(v < 2288) => d \in Nat /\ e \in Nat
      BY <1>2, SMT
    <2>4. ~(v < 264432) => f \in Nat /\ ~(v < 2288)
      BY <1>2, SMT
    <2> HIDE DEF a, b, c, d, e, f
    <2> QED
      BY <2>1, <2>2, <2>3, <2>4, SMT
  <1> QED
    BY <1>1, <1>2

\* The agent reads what HAProxy has written, wherever it stands.
LEMMA SpDecIs ==
  ASSUME NEW v \in Nat, v < SpTop, NEW off \in Nat, NEW s,
         \A k \in 1..Len(SpWireVarint(v)) : s[off + k - 1] = SpWireVarint(v)[k]
  PROVE  SpDecVarint(s, off) = [val |-> v, off |-> off + Len(SpWireVarint(v))]
  <1> DEFINE w == SpWireVarint(v)
  <1>1. CASE v < 240
    <2>1. w = <<v>>
      BY <1>1 DEF SpWireVarint
    <2>2. Len(w) = 1 /\ s[off] = v
      BY <2>1
    <2> QED
      BY <1>1, <2>2 DEF SpDecVarint
  <1>2. CASE ~(v < 240)
    <2>0. PICK u \in Nat : u = (v - 240) \div 16
      BY <1>2
    <2>1. /\ v < 2288 <=> u < 128
          /\ v < 264432 <=> u < 16512
          /\ u < 2113664
          /\ v >= 2288 => (v - 2288) \div 2048 = (u - 128) \div 128
          /\ v >= 264432 => (v - 264432) \div 262144 = (u - 16512) \div 16384
      BY <1>2, <2>0, SpShift, SMT
    <2>2. v = 240 + 16 * u + (v % 16) /\ v % 16 \in 0..15
      BY <1>2, <2>0, SpShift, SMT
    <2> DEFINE a == 240 + (v % 16)
               b == 128 + (u % 128)
               q == SpRest(u)
    <2>3. u >= 128 => /\ q \in Nat /\ q = (u - 128) \div 128 /\ (q < 128 <=> u < 16512)
                      /\ u >= 16512 => SpRest(q) = (u - 16512) \div 16384
      BY SpLoop, SMT
    <2>8. u >= 128 => u = 128 + 128 * q + (u % 128) /\ u % 128 \in 0..127
      BY SpLoop, SMT
    <2>4. off + 1 - 1 = off /\ off + 2 - 1 = off + 1 /\ off + 3 - 1 = off + 2 /\ off + 4 - 1 = off + 3
          /\ off + 1 + 1 = off + 2 /\ off + 1 + 2 = off + 3 /\ off + 1 + 3 = off + 4
      OBVIOUS
    <2>5. CASE u < 128
      <3>1. w = <<a, u>>
        BY <1>2, <2>0, <2>1, <2>5, SMT DEF SpWireVarint
      <3>2. Len(w) = 2 /\ s[off] = a /\ s[off + 1] = u
        <4> HIDE DEF a
        <4> QED
          BY <2>4, <3>1
      <3>3. a \in Nat /\ ~(a < 240) /\ v = a + 16 * u
        BY <2>2
      <3> HIDE DEF a, w
      <3> QED
        BY <2>4, <2>5, <3>2, <3>3 DEF SpDecVarint, SpDecTail, w
    <2>6. CASE u >= 128 /\ u < 16512
      <3>1. w = <<a, b, q>>
        BY <1>2, <2>0, <2>1, <2>3, <2>6, SMT DEF SpWireVarint
      <3>2. Len(w) = 3 /\ s[off] = a /\ s[off + 1] = b /\ s[off + 2] = q
        <4> HIDE DEF a, b, q
        <4> QED
          BY <2>4, <3>1
      <3>3. a \in Nat /\ ~(a < 240) /\ b \in Nat /\ ~(b < 128) /\ q \in Nat /\ q < 128 /\ v = a + 16 * b + 2048 * q
        BY <2>2, <2>3, <2>6, <2>8, SMT
      <3> HIDE DEF a, b, q, w
      <3>4. SpDecVarint(s, off) = SpDecTail(s, off + 1, a)
        BY <3>2, <3>3 DEF SpDecVarint
      <3>5. SpDecTail(s, off + 1, a) = [val |-> a + 16 * b + 2048 * q, off |-> off + 3]
        BY <2>4, <3>2, <3>3, SMT DEF SpDecTail
      <3> QED
        BY <3>2, <3>3, <3>4, <3>5 DEF w
    <2>7. CASE u >= 16512
      <3> DEFINE c == 128 + (q % 128)
                 r == SpRest(q)
      <3>1. w = <<a, b, c, r>>
        BY <1>2, <2>0, <2>1, <2>3, <2>7, SMT DEF SpWireVarint
      <3>2. Len(w) = 4 /\ s[off] = a /\ s[off + 1] = b /\ s[off + 2] = c /\ s[off + 3] = r
        <4> HIDE DEF a, b, c, q, r
        <4> QED
          BY <2>4, <3>1
      <3>3. q \in Nat /\ q >= 128
        BY <2>3, <2>7, SMT
      <3>4. /\ r \in Nat /\ r < 128 /\ q = 128 + 128 * r + (q % 128) /\ q % 128 \in 0..127
            /\ u = 128 + 128 * q + (u % 128) /\ u % 128 \in 0..127
        <4>1. r = (u - 16512) \div 16384
          BY <2>3, <2>7, SMT
        <4>2. r < 128
          BY <2>1, <2>7, <4>1, SMT
        <4> HIDE DEF q
        <4>3. r \in Nat /\ q = 128 + 128 * r + (q % 128) /\ q % 128 \in 0..127
          BY <3>3, SpLoop, SMT
        <4>4. u = 128 + 128 * q + (u % 128) /\ u % 128 \in 0..127
          BY <2>7, <2>8, SMT
        <4> QED
          BY <4>2, <4>3, <4>4
      <3>5. /\ a \in Nat /\ ~(a < 240) /\ b \in Nat /\ ~(b < 128) /\ c \in Nat /\ ~(c < 128)
            /\ r < 128 /\ v = a + 16 * b + 2048 * c + 262144 * r
        <4> HIDE DEF q, r
        <4> QED
          BY <2>2, <3>3, <3>4, SMT
      <3> HIDE DEF a, b, c, q, r, w
      <3>6. SpDecVarint(s, off) = SpDecTail(s, off + 1, a)
        BY <3>2, <3>5 DEF SpDecVarint
      <3>7. SpDecTail(s, off + 1, a) = [val |-> a + 16 * b + 2048 * c + 262144 * r, off |-> off + 4]
        <4>1. /\ s[off + 1] = b /\ s[(off + 1) + 1] = c /\ s[(off + 1) + 2] = r
              /\ (off + 1) + 3 = off + 4
          BY <2>4, <3>2
        <4>2. SpDecTail(s, off + 1, a) =
                 [val |-> a + 16 * s[off + 1] + 2048 * s[(off + 1) + 1] + 262144 * s[(off + 1) + 2],
                  off |-> (off + 1) + 3]
          <5>1. ~(s[off + 1] < 128) /\ ~(s[(off + 1) + 1] < 128)
            BY <3>5, <4>1
          <5> QED
            BY <5>1, SMT DEF SpDecTail
        <4> QED
          BY <4>1, <4>2, SMT
      <3> QED
        BY <3>2, <3>5, <3>6, <3>7 DEF w
    <2> QED
      BY <2>5, <2>6, <2>7, SMT
  <1> QED
    BY <1>1, <1>2

-----------------------------------------------------------------------------
(* Where the answer to a frame is, from the peer's write to its read. *)

\* The pairs of ids a peer may send, and the frames the agent may write.
SpPairs == {<<i + n, n>> : i \in SpIds, n \in 0..SpMaxNotify}
SpAcks == {SpWire(y) : y \in SpPairs}
SpHello == <<"HELLO">>

SpFrame == [type : {"HELLO", "NOTIFY", "DISCON", "EOF"}, pl : SpAcks \cup {<<0, 0>>}]
SpJob == [c : SpConn, sid : Nat, fid : Nat]
SpWriter == [to : SpConn \cup {"none"}, part : 0..2, frame : SpAcks \cup {SpHello, <<>>}]
SpHalf == [frame : SpAcks \cup {SpHello}, part : 1..2]

SpTypeOK ==
    /\ spBase \in SpIds
    /\ spIn \in [SpConn -> Seq(SpFrame)]
    /\ spOpen \in [SpConn -> {"listening", "open", "freed"}]
    /\ spPeer \in [SpConn -> {"new", "hello", "closing"}]
    /\ spSent \in [SpConn -> SUBSET SpPairs]
    /\ spQueue \in Seq(SpJob)
    /\ spWr \in [SpThread -> SpWriter]
    /\ spLock \in [SpConn -> SpThread \cup {"free"}]
    /\ spOut \in [SpConn -> Seq(SpHalf)]

\* The answer that is due to a frame of the peer, and all that a connection is due.
SpDue(f) == IF f.type = "HELLO" THEN SpHello ELSE f.pl
SpAsks(f) == f.type \in {"HELLO", "NOTIFY"}
SpAck(j) == SpWire(<<j.sid, j.fid>>)
SpAnswers(c) == {SpHello} \cup {SpWire(y) : y \in spSent[c]}

\* An answer is due to an unread frame, is in the queue, with a writer, or whole on the connection.
SpInHas(c, t) == \E k \in 1..Len(spIn[c]) : SpAsks(spIn[c][k]) /\ SpDue(spIn[c][k]) = t
SpQueueHas(c, t) == \E k \in 1..Len(spQueue) : spQueue[k].c = c /\ SpAck(spQueue[k]) = t
SpWriterHas(c, t) == \E x \in SpThread : spWr[x].to = c /\ spWr[x].part < 2 /\ spWr[x].frame = t
SpOutHas(c, t) == \E k \in SpWhole(c) : spOut[c][k].frame = t

\* The pairs sent are numbered from the base, so each is new.
SpAll == UNION {spSent[d] : d \in SpConn}
SpIdInv ==
    /\ IsFiniteSet(SpAll) /\ Cardinality(SpAll) \in 0..SpMaxNotify
    /\ \A y \in SpAll : \E k \in 0..SpMaxNotify : k < Cardinality(SpAll) /\ y = <<spBase + k, k>>

\* What is on its way answers a frame of that connection.
SpInOwn ==
    \A c \in SpConn : \A k \in 1..Len(spIn[c]) :
        spIn[c][k].type = "NOTIFY" => \E y \in spSent[c] : spIn[c][k].pl = SpWire(y)
SpQueueOwn == \A k \in 1..Len(spQueue) : <<spQueue[k].sid, spQueue[k].fid>> \in spSent[spQueue[k].c]
SpWriterOwn ==
    \A x \in SpThread : spWr[x] # SpIdle => spWr[x].to \in SpConn /\ spWr[x].frame \in SpAnswers(spWr[x].to)
SpOutOwn == \A c \in SpConn : \A k \in 1..Len(spOut[c]) : spOut[c][k].frame \in SpAnswers(c)
SpOwnInv == SpInOwn /\ SpQueueOwn /\ SpWriterOwn /\ SpOutOwn

\* No answer is twice at a place, ...
SpInOnce ==
    \A c \in SpConn : \A j, k \in 1..Len(spIn[c]) :
        SpAsks(spIn[c][j]) /\ SpAsks(spIn[c][k]) /\ SpDue(spIn[c][j]) = SpDue(spIn[c][k]) => j = k
SpQueueOnce ==
    \A j, k \in 1..Len(spQueue) : spQueue[j].c = spQueue[k].c /\ SpAck(spQueue[j]) = SpAck(spQueue[k]) => j = k
SpWriterOnce ==
    \A x, y \in SpThread :
        spWr[x].to # "none" /\ spWr[x].to = spWr[y].to /\ spWr[x].frame = spWr[y].frame
        /\ spWr[x].part < 2 /\ spWr[y].part < 2 => x = y
SpOutOnce ==
    \A c \in SpConn : \A j, k \in SpWhole(c) : spOut[c][j].frame = spOut[c][k].frame => j = k
SpDistinctInv == SpInOnce /\ SpQueueOnce /\ SpWriterOnce /\ SpOutOnce

\* ... or at two of them.
SpApartInv ==
    \A c \in SpConn : \A t \in SpAnswers(c) :
        /\ SpInHas(c, t) => ~SpQueueHas(c, t) /\ ~SpWriterHas(c, t) /\ ~SpOutHas(c, t)
        /\ SpQueueHas(c, t) => ~SpWriterHas(c, t) /\ ~SpOutHas(c, t)
        /\ SpWriterHas(c, t) => ~SpOutHas(c, t)

\* A thread holds wlk from its first write to its unlock.
SpLockInv ==
    \A c \in SpConn, x \in SpThread : spLock[c] = x <=> spWr[x].to = c /\ spWr[x].part > 0

\* The halves of a frame follow each other; an odd one out is the holder's.
SpHalves ==
    \A c \in SpConn : \A k \in 1..Len(spOut[c]) :
        /\ spOut[c][k].part = 2 - (k % 2)
        /\ k % 2 = 0 => spOut[c][k - 1].frame = spOut[c][k].frame
SpHalfInv ==
    /\ SpHalves
    /\ \A c \in SpConn : Len(spOut[c]) % 2 = 1 => \E x \in SpThread : spWr[x].to = c /\ spWr[x].part = 1
    /\ \A x \in SpThread : spWr[x].part = 1 =>
           /\ Len(spOut[spWr[x].to]) % 2 = 1
           /\ spOut[spWr[x].to][Len(spOut[spWr[x].to])].frame = spWr[x].frame

\* Hello comes first.
SpPhase(c) ==
    /\ spOpen[c] = "listening" <=> spPeer[c] = "new"
    /\ spPeer[c] = "new" => /\ spIn[c] = <<>> /\ spOut[c] = <<>>
                            /\ \A x \in SpThread : spWr[x].to # c
    /\ Len(spOut[c]) < 2 => spSent[c] = {}
    /\ \A k \in 1..Len(spOut[c]) : k <= 2 <=> spOut[c][k].frame = SpHello
SpPhaseInv == \A c \in SpConn : SpPhase(c)

SpIndInv == SpTypeOK /\ SpIdInv /\ SpOwnInv /\ SpDistinctInv /\ SpApartInv /\ SpLockInv /\ SpHalfInv /\ SpPhaseInv

LEMMA SpCoding ==
  ASSUME SpAssumption
  PROVE  \A y \in SpPairs :
            /\ y = <<y[1], y[2]>> /\ y[1] \in Nat /\ y[2] \in Nat
            /\ SpIdsOf(SpWire(y)) = y
            /\ SpEncVarint(y[1]) \o SpEncVarint(y[2]) = SpWire(y)
            /\ SpWire(y) # <<"HELLO">>
  <1> SUFFICES ASSUME NEW i \in SpIds, NEW n \in 0..SpMaxNotify, NEW y, y = <<i + n, n>>
               PROVE  /\ y = <<y[1], y[2]>> /\ y[1] \in Nat /\ y[2] \in Nat
                      /\ SpIdsOf(SpWire(y)) = y
                      /\ SpEncVarint(y[1]) \o SpEncVarint(y[2]) = SpWire(y)
                      /\ SpWire(y) # <<"HELLO">>
    BY DEF SpPairs
  <1> DEFINE a == i + n
             p == SpWireVarint(a)
             q == SpWireVarint(n)
             b == p \o q
  <1>1. a \in Nat /\ a < SpTop /\ n \in Nat /\ n < SpTop /\ y = <<a, n>> /\ y[1] = a /\ y[2] = n
    BY DEF SpAssumption, SpTop
  <1>2. p \in Seq(Nat) /\ Len(p) \in 1..4 /\ q \in Seq(Nat) /\ Len(q) \in 1..4
    BY <1>1, SpWireIs
  <1>3. SpWire(y) = b
    BY <1>1 DEF SpWire
  <1>4. SpEncVarint(y[1]) \o SpEncVarint(y[2]) = b
    BY <1>1, SpEncIs
  <1> HIDE DEF a, p, q
  <1>5. /\ b \in Seq(Nat) /\ Len(b) = Len(p) + Len(q)
        /\ \A k \in 1..Len(p) : b[1 + k - 1] = p[k]
        /\ \A k \in 1..Len(q) : b[(1 + Len(p)) + k - 1] = q[k]
    <2>1. Len(p) \in Nat /\ Len(q) \in Nat
      BY <1>2
    <2>2. b \in Seq(Nat) /\ Len(b) = Len(p) + Len(q)
      BY <1>2
    <2>3. /\ \A k \in 1..Len(p) : b[k] = p[k]
          /\ \A k \in 1..Len(q) : b[Len(p) + k] = q[k]
      BY <1>2, ConcatProperties
    <2>4. /\ \A k \in 1..Len(p) : 1 + k - 1 = k
          /\ \A k \in 1..Len(q) : (1 + Len(p)) + k - 1 = Len(p) + k
      BY <2>1
    <2> HIDE DEF b
    <2> QED
      BY <2>2, <2>3, <2>4
  <1> HIDE DEF b
  <1>6. SpDecVarint(b, 1) = [val |-> a, off |-> 1 + Len(p)]
    BY <1>1, <1>5, SpDecIs DEF p
  <1>7. SpDecVarint(b, 1 + Len(p)) = [val |-> n, off |-> 1 + Len(p) + Len(q)]
    <2>1. PICK r \in Nat : r = 1 + Len(p)
      BY <1>2
    <2>2. q = SpWireVarint(n)
      BY DEF q
    <2>3. \A k \in 1..Len(SpWireVarint(n)) : b[r + k - 1] = SpWireVarint(n)[k]
      BY <1>5, <2>1, <2>2
    <2>4. SpDecVarint(b, r) = [val |-> n, off |-> r + Len(SpWireVarint(n))]
      BY <1>1, <2>3, SpDecIs
    <2> QED
      BY <2>1, <2>2, <2>4
  <1>8. SpIdsOf(b) = <<a, n>>
    BY <1>6, <1>7 DEF SpIdsOf
  <1>9. b # <<"HELLO">>
    <2>1. Len(b) \in Nat /\ Len(b) # 1
      BY <1>2, <1>5
    <2>2. Len(<<"HELLO">>) = 1
      OBVIOUS
    <2> QED
      BY <2>1, <2>2
  <1>10. y = <<y[1], y[2]>> /\ SpIdsOf(SpWire(y)) = y
    BY <1>1, <1>3, <1>8, Zenon
  <1>11. y[1] \in Nat /\ y[2] \in Nat
    BY <1>1
  <1>12. SpEncVarint(y[1]) \o SpEncVarint(y[2]) = SpWire(y)
    BY <1>3, <1>4, Zenon
  <1>13. SpWire(y) # <<"HELLO">>
    BY <1>3, <1>9, Zenon
  <1> QED
    BY <1>10, <1>11, <1>12, <1>13, Zenon

-----------------------------------------------------------------------------
(* What the moves of an answer do to its places. *)

LEMMA SpTailIs ==
  ASSUME NEW S, NEW s \in Seq(S), s # <<>>
  PROVE  /\ Head(s) \in S /\ Head(s) = s[1] /\ Tail(s) \in Seq(S)
         /\ Len(s) \in Nat /\ Len(s) >= 1 /\ Len(Tail(s)) = Len(s) - 1
         /\ \A k \in 1..Len(Tail(s)) : k + 1 \in 1..Len(s) /\ Tail(s)[k] = s[k + 1]
         /\ \A k \in 2..Len(s) : k - 1 \in 1..Len(Tail(s)) /\ s[k] = Tail(s)[k - 1]
  <1>1. Len(s) \in Nat /\ Len(s) # 0
    BY EmptySeq, LenProperties
  <1>2. Head(s) \in S /\ Tail(s) \in Seq(S) /\ Head(s) = s[1] /\ Len(Tail(s)) = Len(s) - 1
        /\ \A k \in 1..Len(Tail(s)) : Tail(s)[k] = s[k + 1]
    BY HeadTailProperties
  <1>3. \A k \in 1..Len(Tail(s)) : k + 1 \in 1..Len(s)
    BY <1>1, <1>2
  <1>4. \A k \in 2..Len(s) : k - 1 \in 1..Len(Tail(s)) /\ s[k] = Tail(s)[k - 1]
    BY <1>1, <1>2
  <1> QED
    BY <1>1, <1>2, <1>3, <1>4

LEMMA SpAppendIs ==
  ASSUME NEW S, NEW s \in Seq(S), NEW e \in S
  PROVE  /\ Append(s, e) \in Seq(S) /\ Len(s) \in Nat /\ Len(Append(s, e)) = Len(s) + 1
         /\ Append(s, e)[Len(s) + 1] = e
         /\ \A k \in 1..Len(s) : Append(s, e)[k] = s[k]
         /\ \A k \in 1..(Len(s) + 1) : k \in 1..Len(s) \/ k = Len(s) + 1
  <1>1. Len(s) \in Nat
    BY LenProperties
  <1> QED
    BY <1>1, AppendProperties

\* The thread of a connection takes the next frame.
LEMMA SpTakes ==
  ASSUME SpTypeOK, SpOwnInv, SpDistinctInv, NEW c \in SpConn, spIn[c] # <<>>,
         spIn' = [spIn EXCEPT ![c] = Tail(@)], spSent' = spSent
  PROVE  \E h :
         /\ h = Head(spIn[c])
         /\ h \in SpFrame /\ h = spIn[c][1] /\ 1 \in 1..Len(spIn[c])
         /\ spIn' \in [SpConn -> Seq(SpFrame)]
         /\ \A d \in SpConn : d # c => spIn'[d] = spIn[d]
         /\ \A d \in SpConn : \A k \in 1..Len(spIn'[d]) : \E l \in 1..Len(spIn[d]) : spIn'[d][k] = spIn[d][l]
         /\ \A d \in SpConn : \A t : SpInHas(d, t)' <=> SpInHas(d, t) /\ ~(d = c /\ SpAsks(h) /\ t = SpDue(h))
         /\ SpInOnce'
  <1>0. PICK h : h = Head(spIn[c])
    OBVIOUS
  <1> DEFINE s == spIn[c]
             r == Tail(s)
  <1>1. s \in Seq(SpFrame) /\ s # <<>>
    BY DEF SpTypeOK
  <1>2. /\ h \in SpFrame /\ h = s[1] /\ r \in Seq(SpFrame)
        /\ Len(s) \in Nat /\ Len(s) >= 1 /\ Len(r) = Len(s) - 1
        /\ \A k \in 1..Len(r) : k + 1 \in 1..Len(s) /\ r[k] = s[k + 1]
        /\ \A k \in 2..Len(s) : k - 1 \in 1..Len(r) /\ s[k] = r[k - 1]
    BY <1>0, <1>1, SpTailIs
  <1>3. spIn'[c] = r /\ \A d \in SpConn : d # c => spIn'[d] = spIn[d]
    BY DEF SpTypeOK
  <1>4. \A j, k \in 1..Len(s) : SpAsks(s[j]) /\ SpAsks(s[k]) /\ SpDue(s[j]) = SpDue(s[k]) => j = k
    BY DEF SpDistinctInv, SpInOnce
  <1>5. spIn' \in [SpConn -> Seq(SpFrame)]
    BY <1>2 DEF SpTypeOK
  <1> HIDE DEF s, r
  <1>6. \A d \in SpConn : \A k \in 1..Len(spIn'[d]) : \E l \in 1..Len(spIn[d]) : spIn'[d][k] = spIn[d][l]
    BY <1>2, <1>3 DEF s
  <1>7. \A t : SpInHas(c, t)' <=> SpInHas(c, t) /\ ~(SpAsks(h) /\ t = SpDue(h))
    <2> TAKE t
    <2>1. SpInHas(c, t)' <=> \E k \in 1..Len(r) : SpAsks(r[k]) /\ SpDue(r[k]) = t
      BY <1>3 DEF SpInHas
    <2>2. SpInHas(c, t) <=> \E k \in 1..Len(s) : SpAsks(s[k]) /\ SpDue(s[k]) = t
      BY DEF SpInHas, s
    <2>3. ASSUME NEW k \in 1..Len(r), SpAsks(r[k]), SpDue(r[k]) = t
          PROVE  SpInHas(c, t) /\ ~(SpAsks(h) /\ t = SpDue(h))
      <3>1. k + 1 \in 1..Len(s) /\ r[k] = s[k + 1] /\ k + 1 # 1 /\ 1 \in 1..Len(s)
        BY <1>2
      <3> QED
        BY <1>2, <1>4, <2>2, <2>3, <3>1
    <2>4. ASSUME NEW k \in 1..Len(s), SpAsks(s[k]), SpDue(s[k]) = t, ~(SpAsks(h) /\ t = SpDue(h))
          PROVE  SpInHas(c, t)'
      <3>1. k \in 2..Len(s)
        BY <1>2, <2>4
      <3> QED
        BY <1>2, <2>1, <2>4, <3>1
    <2> QED
      BY <2>1, <2>2, <2>3, <2>4
  <1>8. \A d \in SpConn : \A t : d # c => (SpInHas(d, t)' <=> SpInHas(d, t))
    BY <1>3 DEF SpInHas
  <1>9. \A j, k \in 1..Len(r) : SpAsks(r[j]) /\ SpAsks(r[k]) /\ SpDue(r[j]) = SpDue(r[k]) => j = k
    <2> SUFFICES ASSUME NEW j \in 1..Len(r), NEW k \in 1..Len(r),
                        SpAsks(r[j]), SpAsks(r[k]), SpDue(r[j]) = SpDue(r[k])
                 PROVE  j = k
      OBVIOUS
    <2>1. j + 1 \in 1..Len(s) /\ r[j] = s[j + 1] /\ k + 1 \in 1..Len(s) /\ r[k] = s[k + 1]
      BY <1>2
    <2>2. j + 1 = k + 1
      BY <1>4, <2>1
    <2> QED
      BY <2>2
  <1>10. SpInOnce'
    BY <1>3, <1>9 DEF SpDistinctInv, SpInOnce
  <1>11. h = spIn[c][1] /\ 1 \in 1..Len(spIn[c])
    BY <1>2 DEF s
  <1> QED
    BY <1>0, <1>2, <1>3, <1>5, <1>6, <1>7, <1>8, <1>10, <1>11

\* The peer sends a frame.
LEMMA SpGives ==
  ASSUME SpTypeOK, SpDistinctInv, NEW c \in SpConn, NEW f \in SpFrame, SpAsks(f) => ~SpInHas(c, SpDue(f)),
         spIn' = [spIn EXCEPT ![c] = Append(@, f)]
  PROVE  /\ spIn' \in [SpConn -> Seq(SpFrame)]
         /\ \A d \in SpConn : \A k \in 1..Len(spIn'[d]) :
               \/ d = c /\ spIn'[d][k] = f
               \/ \E l \in 1..Len(spIn[d]) : spIn'[d][k] = spIn[d][l]
         /\ \A d \in SpConn : \A t : SpInHas(d, t)' <=> SpInHas(d, t) \/ (d = c /\ SpAsks(f) /\ t = SpDue(f))
         /\ SpInOnce'
  <1> DEFINE s == spIn[c]
             r == Append(s, f)
             n == Len(s)
  <1>1. /\ r \in Seq(SpFrame) /\ n \in Nat /\ Len(r) = n + 1 /\ r[n + 1] = f
        /\ \A k \in 1..n : r[k] = s[k]
        /\ \A k \in 1..(n + 1) : k \in 1..n \/ k = n + 1
    <2>1. s \in Seq(SpFrame)
      BY DEF SpTypeOK
    <2> QED
      BY <2>1, SpAppendIs
  <1>2. spIn'[c] = r /\ \A d \in SpConn : d # c => spIn'[d] = spIn[d]
    BY DEF SpTypeOK
  <1>3. \A j, k \in 1..n : SpAsks(s[j]) /\ SpAsks(s[k]) /\ SpDue(s[j]) = SpDue(s[k]) => j = k
    BY DEF SpDistinctInv, SpInOnce
  <1>4. spIn' \in [SpConn -> Seq(SpFrame)]
    BY <1>1 DEF SpTypeOK
  <1>5. \A t : SpInHas(c, t) <=> \E k \in 1..n : SpAsks(s[k]) /\ SpDue(s[k]) = t
    BY DEF SpInHas
  <1> HIDE DEF s, r, n
  <1>6. \A d \in SpConn : \A k \in 1..Len(spIn'[d]) :
           \/ d = c /\ spIn'[d][k] = f
           \/ \E l \in 1..Len(spIn[d]) : spIn'[d][k] = spIn[d][l]
    BY <1>1, <1>2 DEF s, n
  <1>7. \A t : SpInHas(c, t)' <=> SpInHas(c, t) \/ (SpAsks(f) /\ t = SpDue(f))
    <2> TAKE t
    <2>1. SpInHas(c, t)' <=> \E k \in 1..(n + 1) : SpAsks(r[k]) /\ SpDue(r[k]) = t
      BY <1>1, <1>2 DEF SpInHas
    <2>2. n + 1 \in 1..(n + 1) /\ \A k \in 1..n : k \in 1..(n + 1)
      BY <1>1
    <2> QED
      BY <1>1, <1>5, <2>1, <2>2
  <1>8. \A d \in SpConn : \A t : d # c => (SpInHas(d, t)' <=> SpInHas(d, t))
    BY <1>2 DEF SpInHas
  <1>9. \A j, k \in 1..(n + 1) : SpAsks(r[j]) /\ SpAsks(r[k]) /\ SpDue(r[j]) = SpDue(r[k]) => j = k
    BY <1>1, <1>3, <1>5
  <1>10. SpInOnce'
    <2>1. \A d \in SpConn : \A j, k \in 1..Len(spIn[d]) :
             SpAsks(spIn[d][j]) /\ SpAsks(spIn[d][k]) /\ SpDue(spIn[d][j]) = SpDue(spIn[d][k]) => j = k
      BY DEF SpDistinctInv, SpInOnce
    <2>2. ASSUME NEW d \in SpConn, NEW j \in 1..Len(spIn'[d]), NEW k \in 1..Len(spIn'[d]),
                 SpAsks(spIn'[d][j]), SpAsks(spIn'[d][k]), SpDue(spIn'[d][j]) = SpDue(spIn'[d][k])
          PROVE  j = k
      <3>1. CASE d = c
        BY <1>1, <1>2, <1>9, <2>2, <3>1
      <3>2. CASE d # c
        BY <1>2, <2>1, <2>2, <3>2
      <3> QED
        BY <3>1, <3>2
    <2> QED
      BY <2>2 DEF SpInOnce
  <1> QED
    BY <1>4, <1>6, <1>7, <1>8, <1>10

\* A job is queued.
LEMMA SpQueues ==
  ASSUME SpTypeOK, SpDistinctInv, NEW j \in SpJob, ~SpQueueHas(j.c, SpAck(j)), spQueue' = Append(spQueue, j)
  PROVE  /\ spQueue' \in Seq(SpJob)
         /\ \A k \in 1..Len(spQueue') : spQueue'[k] = j \/ \E l \in 1..Len(spQueue) : spQueue'[k] = spQueue[l]
         /\ \A d \in SpConn : \A t : SpQueueHas(d, t)' <=> SpQueueHas(d, t) \/ (d = j.c /\ t = SpAck(j))
         /\ SpQueueOnce'
  <1> DEFINE n == Len(spQueue)
  <1>1. /\ spQueue' \in Seq(SpJob) /\ n \in Nat /\ Len(spQueue') = n + 1 /\ spQueue'[n + 1] = j
        /\ \A k \in 1..n : spQueue'[k] = spQueue[k]
        /\ \A k \in 1..(n + 1) : k \in 1..n \/ k = n + 1
    <2>1. spQueue \in Seq(SpJob)
      BY DEF SpTypeOK
    <2> QED
      BY <2>1, SpAppendIs
  <1>2. \A i, k \in 1..n : spQueue[i].c = spQueue[k].c /\ SpAck(spQueue[i]) = SpAck(spQueue[k]) => i = k
    BY DEF SpDistinctInv, SpQueueOnce
  <1>3. \A d \in SpConn : \A t : SpQueueHas(d, t) <=> \E k \in 1..n : spQueue[k].c = d /\ SpAck(spQueue[k]) = t
    BY DEF SpQueueHas
  <1>4. j.c \in SpConn
    BY DEF SpJob
  <1> HIDE DEF n
  <1>5. \A d \in SpConn : \A t : SpQueueHas(d, t)' <=> \E k \in 1..(n + 1) : spQueue'[k].c = d /\ SpAck(spQueue'[k]) = t
    BY <1>1 DEF SpQueueHas
  <1>6. n + 1 \in 1..(n + 1) /\ \A k \in 1..n : k \in 1..(n + 1)
    BY <1>1
  <1>7. \A d \in SpConn : \A t : SpQueueHas(d, t)' <=> SpQueueHas(d, t) \/ (d = j.c /\ t = SpAck(j))
    BY <1>1, <1>3, <1>5, <1>6
  <1>8. \A i, k \in 1..(n + 1) :
           spQueue'[i].c = spQueue'[k].c /\ SpAck(spQueue'[i]) = SpAck(spQueue'[k]) => i = k
    BY <1>1, <1>2, <1>3, <1>4
  <1>9. \A k \in 1..(n + 1) : spQueue'[k] = j \/ \E l \in 1..n : spQueue'[k] = spQueue[l]
    BY <1>1
  <1> QED
    BY <1>1, <1>7, <1>8, <1>9 DEF n, SpQueueOnce

\* A worker takes a job.
LEMMA SpUnqueues ==
  ASSUME SpTypeOK, SpDistinctInv, spQueue # <<>>, spQueue' = Tail(spQueue)
  PROVE  \E j :
         /\ j = Head(spQueue)
         /\ j \in SpJob /\ j = spQueue[1] /\ 1 \in 1..Len(spQueue)
         /\ spQueue' \in Seq(SpJob)
         /\ \A k \in 1..Len(spQueue') : \E l \in 1..Len(spQueue) : spQueue'[k] = spQueue[l]
         /\ \A d \in SpConn : \A t : SpQueueHas(d, t)' <=> SpQueueHas(d, t) /\ ~(d = j.c /\ t = SpAck(j))
         /\ SpQueueOnce'
  <1>0. PICK j : j = Head(spQueue)
    OBVIOUS
  <1> DEFINE n == Len(spQueue)
             m == Len(spQueue')
  <1>1. /\ j \in SpJob /\ j = spQueue[1] /\ spQueue' \in Seq(SpJob) /\ n \in Nat /\ n >= 1 /\ m = n - 1
        /\ \A k \in 1..m : k + 1 \in 1..n /\ spQueue'[k] = spQueue[k + 1]
        /\ \A k \in 2..n : k - 1 \in 1..m /\ spQueue[k] = spQueue'[k - 1]
    <2>1. spQueue \in Seq(SpJob)
      BY DEF SpTypeOK
    <2> QED
      BY <1>0, <2>1, SpTailIs
  <1>2. \A i, k \in 1..n : spQueue[i].c = spQueue[k].c /\ SpAck(spQueue[i]) = SpAck(spQueue[k]) => i = k
    BY DEF SpDistinctInv, SpQueueOnce
  <1>3. \A d \in SpConn : \A t : SpQueueHas(d, t) <=> \E k \in 1..n : spQueue[k].c = d /\ SpAck(spQueue[k]) = t
    BY DEF SpQueueHas
  <1>4. \A d \in SpConn : \A t : SpQueueHas(d, t)' <=> \E k \in 1..m : spQueue'[k].c = d /\ SpAck(spQueue'[k]) = t
    BY DEF SpQueueHas
  <1> HIDE DEF n, m
  <1>5. 1 \in 1..n /\ m \in Nat /\ \A k \in 1..n : k # 1 => k \in 2..n
    BY <1>1
  <1>6. ASSUME NEW d \in SpConn, NEW t
        PROVE  SpQueueHas(d, t)' <=> SpQueueHas(d, t) /\ ~(d = j.c /\ t = SpAck(j))
    <2>1. ASSUME NEW k \in 1..m, spQueue'[k].c = d, SpAck(spQueue'[k]) = t
          PROVE  SpQueueHas(d, t) /\ ~(d = j.c /\ t = SpAck(j))
      <3>0. k + 1 # 1
        BY <1>5
      <3>1. k + 1 \in 1..n /\ spQueue'[k] = spQueue[k + 1] /\ k + 1 # 1
        BY <1>1, <3>0
      <3>2. spQueue[k + 1].c = d /\ SpAck(spQueue[k + 1]) = t
        BY <2>1, <3>1
      <3>3. SpQueueHas(d, t)
        BY <1>3, <3>1, <3>2
      <3>4. ~(d = spQueue[1].c /\ t = SpAck(spQueue[1]))
        BY <1>2, <1>5, <3>1, <3>2
      <3> QED
        BY <1>1, <3>3, <3>4
    <2>2. ASSUME NEW k \in 1..n, spQueue[k].c = d, SpAck(spQueue[k]) = t, ~(d = j.c /\ t = SpAck(j))
          PROVE  SpQueueHas(d, t)'
      <3>1. k \in 2..n
        BY <1>1, <1>5, <2>2
      <3>2. k - 1 \in 1..m /\ spQueue[k] = spQueue'[k - 1]
        BY <1>1, <3>1
      <3>3. spQueue'[k - 1].c = d /\ SpAck(spQueue'[k - 1]) = t
        BY <2>2, <3>2
      <3> QED
        BY <1>4, <3>2, <3>3
    <2>3. SpQueueHas(d, t)' => SpQueueHas(d, t) /\ ~(d = j.c /\ t = SpAck(j))
      BY <1>4, <2>1
    <2> QED
      BY <1>3, <2>2, <2>3
  <1>7. ASSUME NEW i \in 1..m, NEW k \in 1..m,
               spQueue'[i].c = spQueue'[k].c, SpAck(spQueue'[i]) = SpAck(spQueue'[k])
        PROVE  i = k
    <2>1. i + 1 \in 1..n /\ spQueue'[i] = spQueue[i + 1] /\ k + 1 \in 1..n /\ spQueue'[k] = spQueue[k + 1]
      BY <1>1
    <2>2. i + 1 = k + 1
      BY <1>2, <1>7, <2>1
    <2> QED
      BY <2>2
  <1>8. \A k \in 1..m : \E l \in 1..n : spQueue'[k] = spQueue[l]
    BY <1>1
  <1> QED
    BY <1>0, <1>1, <1>5, <1>6, <1>7, <1>8 DEF n, m, SpQueueOnce

\* A thread of the pool, or of a connection, moves on.
LEMMA SpWrites ==
  ASSUME SpAssumption, SpTypeOK, SpDistinctInv, NEW x \in SpThread, NEW w \in SpWriter,
         spWr' = [spWr EXCEPT ![x] = w],
         w.to # "none" /\ w.part < 2 =>
            \/ w.to = spWr[x].to /\ w.frame = spWr[x].frame /\ spWr[x].part < 2
            \/ ~SpWriterHas(w.to, w.frame)
  PROVE  /\ spWr' \in [SpThread -> SpWriter] /\ spWr'[x] = w
         /\ \A y \in SpThread : y # x => spWr'[y] = spWr[y]
         /\ \A d \in SpConn : \A t :
               SpWriterHas(d, t)' <=> \/ w.to = d /\ w.part < 2 /\ w.frame = t
                                      \/ /\ SpWriterHas(d, t)
                                         /\ ~(spWr[x].to = d /\ spWr[x].part < 2 /\ spWr[x].frame = t)
         /\ SpWriterOnce'
  <1>1. spWr' \in [SpThread -> SpWriter] /\ spWr'[x] = w /\ \A y \in SpThread : y # x => spWr'[y] = spWr[y]
    BY DEF SpTypeOK
  <1>2. \A d \in SpConn : d # "none"
    BY DEF SpAssumption
  <1>3. \A y, z \in SpThread :
           spWr[y].to # "none" /\ spWr[y].to = spWr[z].to /\ spWr[y].frame = spWr[z].frame
           /\ spWr[y].part < 2 /\ spWr[z].part < 2 => y = z
    BY DEF SpDistinctInv, SpWriterOnce
  <1>4. ASSUME NEW d \in SpConn, NEW t
        PROVE  SpWriterHas(d, t)' <=> \/ w.to = d /\ w.part < 2 /\ w.frame = t
                                      \/ /\ SpWriterHas(d, t)
                                         /\ ~(spWr[x].to = d /\ spWr[x].part < 2 /\ spWr[x].frame = t)
    <2>1. SpWriterHas(d, t)' <=> \E y \in SpThread : spWr'[y].to = d /\ spWr'[y].part < 2 /\ spWr'[y].frame = t
      BY DEF SpWriterHas
    <2>2. SpWriterHas(d, t) <=> \E y \in SpThread : spWr[y].to = d /\ spWr[y].part < 2 /\ spWr[y].frame = t
      BY DEF SpWriterHas
    <2> QED
      BY <1>1, <1>2, <1>3, <2>1, <2>2
  <1>5. ASSUME NEW y \in SpThread, NEW z \in SpThread,
               spWr'[y].to # "none", spWr'[y].to = spWr'[z].to, spWr'[y].frame = spWr'[z].frame,
               spWr'[y].part < 2, spWr'[z].part < 2
        PROVE  y = z
    <2>1. CASE y # x /\ z # x
      BY <1>1, <1>3, <1>5, <2>1
    <2>2. ASSUME NEW u \in SpThread, u # x, spWr[u].to = w.to, spWr[u].frame = w.frame, spWr[u].part < 2,
                 w.to # "none", w.part < 2
          PROVE  FALSE
      <3>1. SpWriterHas(w.to, w.frame)
        BY <2>2 DEF SpWriterHas
      <3> QED
        BY <1>3, <2>2, <3>1
    <2> QED
      BY <1>1, <1>5, <2>1, <2>2
  <1> QED
    BY <1>1, <1>4, <1>5 DEF SpWriterOnce

LEMMA SpParity ==
  \A n \in Nat :
     \/ n % 2 = 0 /\ 2 - (n % 2) = 2 /\ (n + 1) % 2 = 1 /\ 2 - ((n + 1) % 2) = 1
     \/ n % 2 = 1 /\ 2 - (n % 2) = 1 /\ (n + 1) % 2 = 0 /\ 2 - ((n + 1) % 2) = 2 /\ n # 0
  OBVIOUS

\* A thread writes half of a frame.
LEMMA SpPuts ==
  ASSUME SpTypeOK, SpHalfInv, NEW c \in SpConn, NEW h \in SpHalf,
         spOut' = [spOut EXCEPT ![c] = Append(@, h)],
         h.part = 2 - ((Len(spOut[c]) + 1) % 2),
         h.part = 2 => spOut[c][Len(spOut[c])].frame = h.frame
  PROVE  /\ spOut' \in [SpConn -> Seq(SpHalf)]
         /\ \A d \in SpConn : d # c => spOut'[d] = spOut[d]
         /\ Len(spOut[c]) \in Nat /\ Len(spOut'[c]) = Len(spOut[c]) + 1 /\ spOut'[c][Len(spOut[c]) + 1] = h
         /\ \A k \in 1..Len(spOut[c]) : spOut'[c][k] = spOut[c][k]
         /\ \A k \in 1..(Len(spOut[c]) + 1) : k \in 1..Len(spOut[c]) \/ k = Len(spOut[c]) + 1
         /\ SpHalves'
         /\ SpWhole(c)' = SpWhole(c) \cup (IF h.part = 1 THEN {} ELSE {Len(spOut[c])})
  <1> DEFINE s == spOut[c]
             r == spOut'[c]
             n == Len(s)
  <1>1. r = Append(s, h) /\ \A d \in SpConn : d # c => spOut'[d] = spOut[d]
    BY DEF SpTypeOK
  <1>2. s \in Seq(SpHalf)
    BY DEF SpTypeOK
  <1>3. /\ r \in Seq(SpHalf) /\ n \in Nat /\ Len(r) = n + 1 /\ r[n + 1] = h
        /\ \A k \in 1..n : r[k] = s[k]
        /\ \A k \in 1..(n + 1) : k \in 1..n \/ k = n + 1
    BY <1>1, <1>2, SpAppendIs
  <1>4. spOut' \in [SpConn -> Seq(SpHalf)]
    BY <1>1, <1>3 DEF SpTypeOK
  <1>5. \A k \in 1..n : s[k].part = 2 - (k % 2) /\ (k % 2 = 0 => s[k - 1].frame = s[k].frame)
    BY DEF SpHalfInv, SpHalves
  <1>6. h.part = 2 - ((n + 1) % 2) /\ (h.part = 2 => s[n].frame = h.frame)
    OBVIOUS
  <1>7. SpWhole(c) = {k \in 1..(n - 1) : s[k].part = 1} /\ SpWhole(c)' = {k \in 1..(Len(r) - 1) : r[k].part = 1}
    BY DEF SpWhole
  <1> HIDE DEF s, r, n
  <1>8. ASSUME NEW k \in 1..(n + 1)
        PROVE  r[k].part = 2 - (k % 2) /\ (k % 2 = 0 => r[k - 1].frame = r[k].frame)
    <2>1. CASE k = n + 1
      <3>1. r[k] = h /\ h.part = 2 - (k % 2)
        BY <1>3, <1>6, <2>1
      <3>2. ASSUME k % 2 = 0
            PROVE  r[k - 1].frame = h.frame
        <4>1. n # 0 /\ k - 1 = n
          BY <1>3, <2>1, <3>2
        <4>2. n \in 1..n
          BY <1>3, <4>1
        <4>3. h.part = 2
          <5>1. n % 2 = 1
            BY <1>3, <2>1, <3>2
          <5>2. 2 - ((n + 1) % 2) = 2
            BY <1>3, <5>1, SpParity
          <5> QED
            BY <1>6, <5>2
        <4> QED
          BY <1>3, <1>6, <4>1, <4>2, <4>3
      <3> QED
        BY <3>1, <3>2
    <2>2. CASE k \in 1..n
      <3>1. k % 2 = 0 => k - 1 \in 1..n
        BY <1>3, <2>2
      <3> QED
        BY <1>3, <1>5, <2>2, <3>1
    <2> QED
      BY <1>3, <2>1, <2>2
  <1>9. \A d \in SpConn : \A k \in 1..Len(spOut'[d]) :
           /\ spOut'[d][k].part = 2 - (k % 2)
           /\ k % 2 = 0 => spOut'[d][k - 1].frame = spOut'[d][k].frame
    <2> DEFINE P(q, k) == q[k].part = 2 - (k % 2) /\ (k % 2 = 0 => q[k - 1].frame = q[k].frame)
    <2>1. \A d \in SpConn : \A k \in 1..Len(spOut[d]) : P(spOut[d], k)
      BY DEF SpHalfInv, SpHalves
    <2>2. \A k \in 1..Len(spOut'[c]) : P(spOut'[c], k)
      BY <1>3, <1>8 DEF r
    <2> HIDE DEF P
    <2>3. \A d \in SpConn : \A k \in 1..Len(spOut'[d]) : P(spOut'[d], k)
      BY <1>1, <2>1, <2>2
    <2> QED
      BY <2>3 DEF P
  <1>10. SpWhole(c)' = SpWhole(c) \cup (IF h.part = 1 THEN {} ELSE {n})
    <2>1. SpWhole(c)' = {k \in 1..n : s[k].part = 1}
      <3>1. Len(r) - 1 = n
        BY <1>3
      <3> QED
        BY <1>3, <1>7, <3>1
    <2>2. n \in 1..n => (s[n].part = 1 <=> h.part # 1)
      <3>1. n \in 1..n => s[n].part = 2 - (n % 2)
        BY <1>5
      <3>2. \/ 2 - (n % 2) = 2 /\ 2 - ((n + 1) % 2) = 1
            \/ 2 - (n % 2) = 1 /\ 2 - ((n + 1) % 2) = 2
        BY <1>3, SpParity
      <3>3. 1 # 2
        OBVIOUS
      <3> QED
        BY <1>6, <3>1, <3>2, <3>3, Zenon
    <2>3. n = 0 => h.part = 1
      <3>1. n = 0 => 2 - ((n + 1) % 2) = 1
        BY <1>3, SpParity
      <3> QED
        BY <1>6, <3>1
    <2>4. \A k \in 1..n : k \in 1..(n - 1) \/ k = n
      BY <1>3
    <2>5. \A k \in 1..(n - 1) : k \in 1..n /\ k # n
      BY <1>3
    <2>6. n # 0 => n \in 1..n
      BY <1>3
    <2> QED
      BY <1>7, <2>1, <2>2, <2>3, <2>4, <2>5, <2>6
  <1> QED
    BY <1>1, <1>3, <1>4, <1>9, <1>10 DEF s, r, n, SpHalves

\* After the first half the connection holds the same answers, ...
LEMMA SpFirstHalf ==
  ASSUME SpTypeOK, SpHalfInv, SpDistinctInv, NEW c \in SpConn, NEW h \in SpHalf,
         spOut' = [spOut EXCEPT ![c] = Append(@, h)],
         Len(spOut[c]) % 2 = 0, h.part = 1
  PROVE  /\ \A d \in SpConn : \A t : SpOutHas(d, t)' <=> SpOutHas(d, t)
         /\ SpOutOnce'
  <1>1. Len(spOut[c]) \in Nat
    BY LenProperties DEF SpTypeOK
  <1>2. h.part = 2 - ((Len(spOut[c]) + 1) % 2) /\ h.part # 2
    <2>1. PICK n \in Nat : n = Len(spOut[c])
      BY <1>1
    <2>2. n % 2 = 0
      BY <2>1
    <2>3. 2 - ((n + 1) % 2) = 1
      BY <2>2, SpParity
    <2>4. h.part = 2 - ((Len(spOut[c]) + 1) % 2)
      BY <2>1, <2>3, Zenon
    <2>5. 1 # 2
      OBVIOUS
    <2> QED
      BY <2>4, <2>5, Zenon
  <1>3. /\ \A d \in SpConn : d # c => spOut'[d] = spOut[d]
        /\ \A k \in 1..Len(spOut[c]) : spOut'[c][k] = spOut[c][k]
        /\ SpWhole(c)' = SpWhole(c)
    <2>1. /\ \A d \in SpConn : d # c => spOut'[d] = spOut[d]
          /\ \A k \in 1..Len(spOut[c]) : spOut'[c][k] = spOut[c][k]
          /\ SpWhole(c)' = SpWhole(c) \cup (IF h.part = 1 THEN {} ELSE {Len(spOut[c])})
      BY <1>2, SpPuts
    <2>2. SpWhole(c) \cup (IF h.part = 1 THEN {} ELSE {Len(spOut[c])}) = SpWhole(c)
      OBVIOUS
    <2> QED
      BY <2>1, <2>2
  <1>4. \A k \in SpWhole(c) : k \in 1..Len(spOut[c])
    BY <1>1 DEF SpWhole
  <1>5. \A k \in SpWhole(c) : spOut'[c][k] = spOut[c][k]
    BY <1>3, <1>4
  <1>6. \A d \in SpConn : SpWhole(d)' = SpWhole(d) /\ \A k \in SpWhole(d) : spOut'[d][k] = spOut[d][k]
    <2>1. ASSUME NEW d \in SpConn, d # c
          PROVE  SpWhole(d)' = SpWhole(d) /\ spOut'[d] = spOut[d]
      BY <1>3, <2>1 DEF SpWhole
    <2> QED
      BY <1>3, <1>5, <2>1
  <1>7. \A d \in SpConn : \A j, k \in SpWhole(d) : spOut[d][j].frame = spOut[d][k].frame => j = k
    BY DEF SpDistinctInv, SpOutOnce
  <1>8. ASSUME NEW d \in SpConn, NEW t
        PROVE  SpOutHas(d, t)' <=> SpOutHas(d, t)
    BY <1>6 DEF SpOutHas
  <1>9. ASSUME NEW d \in SpConn, NEW j \in SpWhole(d)', NEW k \in SpWhole(d)', spOut'[d][j].frame = spOut'[d][k].frame
        PROVE  j = k
    <2>1. j \in SpWhole(d) /\ k \in SpWhole(d) /\ spOut'[d][j] = spOut[d][j] /\ spOut'[d][k] = spOut[d][k]
      BY <1>6
    <2> QED
      BY <1>7, <1>9, <2>1
  <1> QED
    BY <1>8, <1>9 DEF SpOutOnce

\* ... after the second half one more.
LEMMA SpSecondHalf ==
  ASSUME SpTypeOK, SpHalfInv, SpDistinctInv, NEW c \in SpConn, NEW h \in SpHalf,
         spOut' = [spOut EXCEPT ![c] = Append(@, h)],
         Len(spOut[c]) % 2 = 1, h.part = 2, spOut[c][Len(spOut[c])].frame = h.frame, ~SpOutHas(c, h.frame)
  PROVE  /\ \A d \in SpConn : \A t : SpOutHas(d, t)' <=> SpOutHas(d, t) \/ (d = c /\ t = h.frame)
         /\ SpOutOnce'
  <1> DEFINE n == Len(spOut[c])
  <1>1. n \in Nat
    BY LenProperties DEF SpTypeOK
  <1>2. h.part = 2 - ((n + 1) % 2) /\ h.part # 1 /\ n \in 1..n
    <2>1. n % 2 = 1
      OBVIOUS
    <2> HIDE DEF n
    <2>2. n \in 1..n
      BY <1>1, <2>1
    <2>3. h.part = 2 - ((n + 1) % 2)
      BY <1>1, <2>1, SpParity
    <2> QED
      BY <2>2, <2>3
  <1>3. /\ \A d \in SpConn : d # c => spOut'[d] = spOut[d]
        /\ \A k \in 1..n : spOut'[c][k] = spOut[c][k]
        /\ SpWhole(c)' = SpWhole(c) \cup {n}
    BY <1>2, SpPuts
  <1>4. \A k \in SpWhole(c) : k \in 1..n
    BY <1>1 DEF SpWhole
  <1>5. (\A k \in SpWhole(c) : spOut'[c][k] = spOut[c][k]) /\ spOut'[c][n].frame = h.frame
    BY <1>2, <1>3, <1>4
  <1> HIDE DEF n
  <1>6. ASSUME NEW d \in SpConn, d # c
        PROVE  SpWhole(d)' = SpWhole(d) /\ spOut'[d] = spOut[d]
    BY <1>3, <1>6 DEF SpWhole
  <1>7. \A d \in SpConn : \A j, k \in SpWhole(d) : spOut[d][j].frame = spOut[d][k].frame => j = k
    BY DEF SpDistinctInv, SpOutOnce
  <1>8. \A k \in SpWhole(c) : spOut[c][k].frame # h.frame
    BY DEF SpOutHas
  <1>9. \A d \in SpConn : \A t : SpOutHas(d, t) <=> \E k \in SpWhole(d) : spOut[d][k].frame = t
    BY DEF SpOutHas
  <1>10. \A d \in SpConn : \A t : SpOutHas(d, t)' <=> \E k \in SpWhole(d)' : spOut'[d][k].frame = t
    BY DEF SpOutHas
  <1>11. \A d \in SpConn : \A t : SpOutHas(d, t)' <=> SpOutHas(d, t) \/ (d = c /\ t = h.frame)
    <2>1. \A t : SpOutHas(c, t)' <=> SpOutHas(c, t) \/ t = h.frame
      <3> TAKE t
      <3>1. SpOutHas(c, t)' <=> \E k \in SpWhole(c) \cup {n} : spOut'[c][k].frame = t
        BY <1>3, <1>10
      <3>2. SpOutHas(c, t) <=> \E k \in SpWhole(c) : spOut'[c][k].frame = t
        <4>1. SpOutHas(c, t) <=> \E k \in SpWhole(c) : spOut[c][k].frame = t
          BY <1>9
        <4>2. \A k \in SpWhole(c) : spOut'[c][k] = spOut[c][k]
          BY <1>5
        <4> QED
          BY <4>1, <4>2
      <3> QED
        BY <1>5, <3>1, <3>2
    <2>2. ASSUME NEW d \in SpConn, d # c, NEW t
          PROVE  SpOutHas(d, t)' <=> SpOutHas(d, t)
      BY <1>6, <1>9, <1>10, <2>2
    <2> QED
      BY <2>1, <2>2
  <1>12. ASSUME NEW j \in SpWhole(c)', NEW k \in SpWhole(c)', spOut'[c][j].frame = spOut'[c][k].frame
         PROVE  j = k
    <2>1. j \in SpWhole(c) \cup {n} /\ k \in SpWhole(c) \cup {n}
      BY <1>3
    <2>2. CASE j \in SpWhole(c) /\ k \in SpWhole(c)
      BY <1>5, <1>7, <1>12, <2>2
    <2>3. CASE j = n \/ k = n
      BY <1>5, <1>8, <1>12, <2>1, <2>3
    <2> QED
      BY <2>1, <2>2, <2>3
  <1>13. ASSUME NEW d \in SpConn, d # c,
                NEW j \in SpWhole(d)', NEW k \in SpWhole(d)', spOut'[d][j].frame = spOut'[d][k].frame
         PROVE  j = k
    <2>1. j \in SpWhole(d) /\ k \in SpWhole(d) /\ spOut[d][j].frame = spOut[d][k].frame
      BY <1>6, <1>13
    <2> QED
      BY <1>7, <2>1
  <1>14. \A d \in SpConn : \A j, k \in SpWhole(d)' : spOut'[d][j].frame = spOut'[d][k].frame => j = k
    BY <1>12, <1>13
  <1> QED
    BY <1>11, <1>14 DEF SpOutOnce

\* What a step leaves alone has what it had.
LEMMA SpStill ==
  /\ spIn' = spIn => \A c \in SpConn : \A t : SpInHas(c, t)' <=> SpInHas(c, t)
  /\ spQueue' = spQueue => \A c \in SpConn : \A t : SpQueueHas(c, t)' <=> SpQueueHas(c, t)
  /\ spWr' = spWr => \A c \in SpConn : \A t : SpWriterHas(c, t)' <=> SpWriterHas(c, t)
  /\ spOut' = spOut => \A c \in SpConn : SpWhole(c)' = SpWhole(c) /\ \A t : SpOutHas(c, t)' <=> SpOutHas(c, t)
  /\ spSent' = spSent => \A c \in SpConn : SpAnswers(c)' = SpAnswers(c)
  /\ spIn' = spIn /\ SpInOnce => SpInOnce'
  /\ spQueue' = spQueue /\ SpQueueOnce => SpQueueOnce'
  /\ spWr' = spWr /\ SpWriterOnce => SpWriterOnce'
  /\ spOut' = spOut /\ SpOutOnce => SpOutOnce'
  /\ spIn' = spIn /\ spSent' = spSent /\ SpInOwn => SpInOwn'
  /\ spQueue' = spQueue /\ spSent' = spSent /\ SpQueueOwn => SpQueueOwn'
  /\ spWr' = spWr /\ spSent' = spSent /\ SpWriterOwn => SpWriterOwn'
  /\ spOut' = spOut /\ spSent' = spSent /\ SpOutOwn => SpOutOwn'
  /\ spSent' = spSent /\ spBase' = spBase /\ SpIdInv => SpIdInv'
  /\ spWr' = spWr /\ spLock' = spLock /\ SpLockInv => SpLockInv'
  /\ spWr' = spWr /\ spOut' = spOut /\ SpHalfInv => SpHalfInv'
  <1>1. spIn' = spIn => (\A c \in SpConn : \A t : SpInHas(c, t)' <=> SpInHas(c, t)) /\ (SpInOnce => SpInOnce')
    BY DEF SpInHas, SpInOnce
  <1>2. spQueue' = spQueue =>
           (\A c \in SpConn : \A t : SpQueueHas(c, t)' <=> SpQueueHas(c, t)) /\ (SpQueueOnce => SpQueueOnce')
    BY DEF SpQueueHas, SpQueueOnce
  <1>3. spWr' = spWr =>
           (\A c \in SpConn : \A t : SpWriterHas(c, t)' <=> SpWriterHas(c, t)) /\ (SpWriterOnce => SpWriterOnce')
    BY DEF SpWriterHas, SpWriterOnce
  <1>4. spOut' = spOut =>
           /\ \A c \in SpConn : SpWhole(c)' = SpWhole(c) /\ \A t : SpOutHas(c, t)' <=> SpOutHas(c, t)
           /\ SpOutOnce => SpOutOnce'
    BY DEF SpWhole, SpOutHas, SpOutOnce
  <1>5. spSent' = spSent => \A c \in SpConn : SpAnswers(c)' = SpAnswers(c)
    BY DEF SpAnswers
  <1>6. spSent' = spSent /\ spBase' = spBase /\ SpIdInv => SpIdInv'
    BY DEF SpIdInv, SpAll
  <1>7. spWr' = spWr /\ spLock' = spLock /\ SpLockInv => SpLockInv'
    BY DEF SpLockInv
  <1>8. spWr' = spWr /\ spOut' = spOut /\ SpHalfInv => SpHalfInv'
    <2> SUFFICES ASSUME spWr' = spWr, spOut' = spOut, SpHalfInv PROVE SpHalfInv'
      OBVIOUS
    <2>1. SpHalves'
      BY DEF SpHalfInv, SpHalves
    <2>2. \A c \in SpConn : Len(spOut'[c]) % 2 = 1 => \E x \in SpThread : spWr'[x].to = c /\ spWr'[x].part = 1
      BY DEF SpHalfInv
    <2>3. \A x \in SpThread : spWr'[x].part = 1 =>
             /\ Len(spOut'[spWr'[x].to]) % 2 = 1
             /\ spOut'[spWr'[x].to][Len(spOut'[spWr'[x].to])].frame = spWr'[x].frame
      BY DEF SpHalfInv
    <2> QED
      BY <2>1, <2>2, <2>3 DEF SpHalfInv
  <1>9. /\ spIn' = spIn /\ spSent' = spSent /\ SpInOwn => SpInOwn'
        /\ spQueue' = spQueue /\ spSent' = spSent /\ SpQueueOwn => SpQueueOwn'
    BY DEF SpInOwn, SpQueueOwn
  <1>10. /\ spWr' = spWr /\ spSent' = spSent /\ SpWriterOwn => SpWriterOwn'
         /\ spOut' = spOut /\ spSent' = spSent /\ SpOutOwn => SpOutOwn'
    BY DEF SpWriterOwn, SpOutOwn, SpAnswers
  <1> QED
    BY <1>1, <1>2, <1>3, <1>4, <1>5, <1>6, <1>7, <1>8, <1>9, <1>10

\* Threads that are not between the halves of a frame do not matter to the halves.
LEMMA SpHalfStill ==
  ASSUME SpHalfInv, spOut' = spOut,
         \A x \in SpThread : spWr'[x].part = 1 \/ spWr[x].part = 1 => spWr'[x] = spWr[x]
  PROVE  SpHalfInv'
  <1>1. SpHalves'
    BY DEF SpHalfInv, SpHalves
  <1>2. ASSUME NEW d \in SpConn, Len(spOut'[d]) % 2 = 1
        PROVE  \E x \in SpThread : spWr'[x].to = d /\ spWr'[x].part = 1
    <2>1. PICK x \in SpThread : spWr[x].to = d /\ spWr[x].part = 1
      BY <1>2 DEF SpHalfInv
    <2> QED
      BY <2>1
  <1>3. \A x \in SpThread : spWr'[x].part = 1 =>
           /\ Len(spOut'[spWr'[x].to]) % 2 = 1
           /\ spOut'[spWr'[x].to][Len(spOut'[spWr'[x].to])].frame = spWr'[x].frame
    BY DEF SpHalfInv
  <1> QED
    BY <1>1, <1>2, <1>3 DEF SpHalfInv

\* The wire format tells the answers apart.
LEMMA SpWireTells ==
  ASSUME SpAssumption
  PROVE  /\ \A y, z \in SpPairs : SpWire(y) = SpWire(z) => y = z
         /\ \A y \in SpPairs : SpWire(y) # SpHello
         /\ \A y \in SpPairs : y = <<y[1], y[2]>> /\ y[1] \in Nat /\ y[2] \in Nat /\ SpIdsOf(SpWire(y)) = y
         /\ \A y \in SpPairs : SpEncVarint(y[1]) \o SpEncVarint(y[2]) = SpWire(y)
  BY SpCoding, Zenon DEF SpHello

\* Nothing is on its way to a connection before it has got hello but hello.
LEMMA SpNoneQueued ==
  ASSUME SpAssumption, SpTypeOK, SpOwnInv, NEW c \in SpConn
  PROVE  /\ ~SpQueueHas(c, SpHello)
         /\ \A t : SpQueueHas(c, t) => \E y \in spSent[c] : t = SpWire(y)
  <1>1. ASSUME NEW t, SpQueueHas(c, t)
        PROVE  \E y \in spSent[c] : t = SpWire(y)
    BY <1>1 DEF SpQueueHas, SpOwnInv, SpQueueOwn, SpAck
  <1>2. \A y \in spSent[c] : y \in SpPairs
    BY DEF SpTypeOK
  <1> QED
    BY <1>1, <1>2, SpWireTells

-----------------------------------------------------------------------------
(* The steps of the peer. *)

LEMMA SpConnectStep ==
  ASSUME SpAssumption, SpIndInv, NEW c \in SpConn, SpConnect(c)
  PROVE  SpIndInv'
  <1> DEFINE f == [type |-> "HELLO", pl |-> <<0, 0>>]
  <1>1. SpTypeOK /\ SpIdInv /\ SpOwnInv /\ SpDistinctInv /\ SpApartInv /\ SpLockInv /\ SpHalfInv /\ SpPhaseInv
    BY DEF SpIndInv
  <1>2. /\ spOpen[c] = "listening" /\ spOpen' = [spOpen EXCEPT ![c] = "open"]
        /\ spPeer' = [spPeer EXCEPT ![c] = "hello"] /\ spIn' = [spIn EXCEPT ![c] = <<f>>]
        /\ spBase' = spBase /\ spSent' = spSent /\ spQueue' = spQueue /\ spWr' = spWr
        /\ spLock' = spLock /\ spOut' = spOut
    BY DEF SpConnect
  <1>3. /\ spPeer[c] = "new" /\ spIn[c] = <<>> /\ spOut[c] = <<>> /\ spSent[c] = {}
        /\ \A x \in SpThread : spWr[x].to # c
    BY <1>1, <1>2 DEF SpPhaseInv, SpPhase
  <1>4. f \in SpFrame /\ SpAsks(f) /\ SpDue(f) = SpHello /\ f.type = "HELLO"
    BY DEF SpFrame, SpAsks, SpDue
  <1> HIDE DEF f
  <1>5. Append(spIn[c], f) = <<f>> /\ \A t : ~SpInHas(c, t)
    BY <1>3 DEF SpInHas
  <1>6. spIn' = [spIn EXCEPT ![c] = Append(@, f)]
    BY <1>2, <1>5
  <1>7. /\ spIn' \in [SpConn -> Seq(SpFrame)]
        /\ \A d \in SpConn : \A k \in 1..Len(spIn'[d]) :
              \/ d = c /\ spIn'[d][k] = f
              \/ \E l \in 1..Len(spIn[d]) : spIn'[d][k] = spIn[d][l]
        /\ \A d \in SpConn : \A t : SpInHas(d, t)' <=> SpInHas(d, t) \/ (d = c /\ SpAsks(f) /\ t = SpDue(f))
        /\ SpInOnce'
    BY <1>1, <1>4, <1>5, <1>6, SpGives
  <1>8. ~SpQueueHas(c, SpHello) /\ ~SpWriterHas(c, SpHello) /\ ~SpOutHas(c, SpHello)
    <2>1. ~SpWriterHas(c, SpHello)
      BY <1>3 DEF SpWriterHas
    <2>2. ~SpOutHas(c, SpHello)
      BY <1>3 DEF SpOutHas, SpWhole
    <2> QED
      BY <1>1, <2>1, <2>2, SpNoneQueued
  <1>9. SpTypeOK'
    BY <1>1, <1>2, <1>7 DEF SpTypeOK
  <1>10. SpOwnInv'
    <2>1. ASSUME NEW d \in SpConn, NEW k \in 1..Len(spIn'[d]), spIn'[d][k].type = "NOTIFY"
          PROVE  \E y \in spSent[d] : spIn'[d][k].pl = SpWire(y)
      <3>1. PICK l \in 1..Len(spIn[d]) : spIn'[d][k] = spIn[d][l]
        BY <1>4, <1>7, <2>1
      <3> QED
        BY <1>1, <2>1, <3>1 DEF SpOwnInv, SpInOwn
    <2>2. SpInOwn'
      BY <1>2, <2>1 DEF SpInOwn
    <2> QED
      BY <1>1, <1>2, <2>2, SpStill DEF SpOwnInv
  <1>11. SpDistinctInv'
    BY <1>1, <1>2, <1>7, SpStill DEF SpDistinctInv
  <1>12. SpApartInv'
    BY <1>1, <1>2, <1>4, <1>7, <1>8, SpStill DEF SpApartInv
  <1>13. SpIdInv' /\ SpLockInv' /\ SpHalfInv'
    BY <1>1, <1>2, SpStill
  <1>14. SpPhaseInv'
    <2> SUFFICES ASSUME NEW d \in SpConn PROVE SpPhase(d)'
      BY DEF SpPhaseInv
    <2>0. SpPhase(d)
      BY <1>1 DEF SpPhaseInv
    <2>1. CASE d = c
      <3>1. spOpen'[d] = "open" /\ spPeer'[d] = "hello"
        BY <1>1, <1>2, <2>1 DEF SpTypeOK
      <3>2. \A k \in 1..Len(spIn'[d]) : spIn'[d][k].type = "HELLO"
        BY <1>3, <1>4, <1>7, <2>1
      <3> QED
        BY <1>2, <2>0, <3>1, <3>2, SpStill DEF SpPhase
    <2>2. CASE d # c
      <3>1. spOpen'[d] = spOpen[d] /\ spPeer'[d] = spPeer[d] /\ spIn'[d] = spIn[d]
        BY <1>1, <1>2, <2>2 DEF SpTypeOK
      <3> QED
        BY <1>2, <2>0, <3>1, SpStill DEF SpPhase
    <2> QED
      BY <2>1, <2>2
  <1> QED
    BY <1>9, <1>10, <1>11, <1>12, <1>13, <1>14 DEF SpIndInv

LEMMA SpByeStep ==
  ASSUME SpAssumption, SpIndInv, NEW c \in SpConn, NEW how \in {"DISCON", "EOF"}, SpBye(c, how)
  PROVE  SpIndInv'
  <1> DEFINE f == [type |-> how, pl |-> <<0, 0>>]
  <1>1. SpTypeOK /\ SpIdInv /\ SpOwnInv /\ SpDistinctInv /\ SpApartInv /\ SpLockInv /\ SpHalfInv /\ SpPhaseInv
    BY DEF SpIndInv
  <1>2. /\ spPeer[c] = "hello" /\ Len(spOut[c]) = 2 * (1 + Cardinality(spSent[c]))
        /\ spPeer' = [spPeer EXCEPT ![c] = "closing"] /\ spIn' = [spIn EXCEPT ![c] = Append(@, f)]
        /\ spBase' = spBase /\ spOpen' = spOpen /\ spSent' = spSent /\ spQueue' = spQueue /\ spWr' = spWr
        /\ spLock' = spLock /\ spOut' = spOut
    BY DEF SpBye
  <1>3. f \in SpFrame /\ ~SpAsks(f) /\ f.type # "NOTIFY"
    BY DEF SpFrame, SpAsks
  <1> HIDE DEF f
  <1>4. /\ spIn' \in [SpConn -> Seq(SpFrame)]
        /\ \A d \in SpConn : \A k \in 1..Len(spIn'[d]) :
              \/ d = c /\ spIn'[d][k] = f
              \/ \E l \in 1..Len(spIn[d]) : spIn'[d][k] = spIn[d][l]
        /\ \A d \in SpConn : \A t : SpInHas(d, t)' <=> SpInHas(d, t) \/ (d = c /\ SpAsks(f) /\ t = SpDue(f))
        /\ SpInOnce'
    BY <1>1, <1>2, <1>3, SpGives
  <1>5. SpTypeOK'
    BY <1>1, <1>2, <1>4 DEF SpTypeOK
  <1>6. SpOwnInv'
    <2>1. ASSUME NEW d \in SpConn, NEW k \in 1..Len(spIn'[d]), spIn'[d][k].type = "NOTIFY"
          PROVE  \E y \in spSent[d] : spIn'[d][k].pl = SpWire(y)
      <3>1. PICK l \in 1..Len(spIn[d]) : spIn'[d][k] = spIn[d][l]
        BY <1>3, <1>4, <2>1
      <3> QED
        BY <1>1, <2>1, <3>1 DEF SpOwnInv, SpInOwn
    <2>2. SpInOwn'
      BY <1>2, <2>1 DEF SpInOwn
    <2> QED
      BY <1>1, <1>2, <2>2, SpStill DEF SpOwnInv
  <1>7. SpDistinctInv'
    BY <1>1, <1>2, <1>4, SpStill DEF SpDistinctInv
  <1>8. SpApartInv'
    BY <1>1, <1>2, <1>3, <1>4, SpStill DEF SpApartInv
  <1>9. SpIdInv' /\ SpLockInv' /\ SpHalfInv'
    BY <1>1, <1>2, SpStill
  <1>10. SpPhaseInv'
    <2> SUFFICES ASSUME NEW d \in SpConn PROVE SpPhase(d)'
      BY DEF SpPhaseInv
    <2>0. SpPhase(d)
      BY <1>1 DEF SpPhaseInv
    <2>1. CASE d = c
      <3>1. spPeer'[d] = "closing" /\ spOpen[d] # "listening"
        BY <1>1, <1>2, <2>0, <2>1 DEF SpTypeOK, SpPhase
      <3> QED
        BY <1>2, <2>0, <3>1, SpStill DEF SpPhase
    <2>2. CASE d # c
      <3>1. spPeer'[d] = spPeer[d] /\ spIn'[d] = spIn[d]
        BY <1>1, <1>2, <2>2 DEF SpTypeOK
      <3> QED
        BY <1>2, <2>0, <3>1, SpStill DEF SpPhase
    <2> QED
      BY <2>1, <2>2
  <1> QED
    BY <1>5, <1>6, <1>7, <1>8, <1>9, <1>10 DEF SpIndInv

\* What is on its way to a connection is due there.
LEMMA SpPlaced ==
  ASSUME SpAssumption, SpTypeOK, SpOwnInv, NEW c \in SpConn, NEW t,
         SpInHas(c, t) \/ SpQueueHas(c, t) \/ SpWriterHas(c, t) \/ SpOutHas(c, t)
  PROVE  t \in SpAnswers(c)
  <1>1. ASSUME SpInHas(c, t)
        PROVE  t \in SpAnswers(c)
    <2>1. PICK k \in 1..Len(spIn[c]) : SpAsks(spIn[c][k]) /\ SpDue(spIn[c][k]) = t
      BY <1>1 DEF SpInHas
    <2>2. CASE spIn[c][k].type = "HELLO"
      BY <2>1, <2>2 DEF SpDue, SpAnswers
    <2>3. CASE spIn[c][k].type = "NOTIFY"
      <3>1. PICK y \in spSent[c] : spIn[c][k].pl = SpWire(y)
        BY <2>3 DEF SpOwnInv, SpInOwn
      <3> QED
        BY <2>1, <2>3, <3>1 DEF SpDue, SpAnswers
    <2> QED
      BY <2>1, <2>2, <2>3 DEF SpAsks
  <1>2. SpQueueHas(c, t) => t \in SpAnswers(c)
    BY SpNoneQueued DEF SpAnswers
  <1>3. SpWriterHas(c, t) => t \in SpAnswers(c)
    <2>1. \A x \in SpThread : spWr[x].to = c => spWr[x] # SpIdle
      BY DEF SpIdle, SpAssumption
    <2> QED
      BY <2>1 DEF SpWriterHas, SpOwnInv, SpWriterOwn
  <1>4. SpOutHas(c, t) => t \in SpAnswers(c)
    <2>1. Len(spOut[c]) \in Nat
      BY LenProperties DEF SpTypeOK
    <2>2. \A k \in SpWhole(c) : k \in 1..Len(spOut[c])
      BY <2>1 DEF SpWhole
    <2> QED
      BY <2>2 DEF SpOutHas, SpOwnInv, SpOutOwn
  <1> QED
    BY <1>1, <1>2, <1>3, <1>4

LEMMA SpNotifyStep ==
  ASSUME SpAssumption, SpIndInv, NEW c \in SpConn, SpNotify(c)
  PROVE  SpIndInv'
  <1>1. SpTypeOK /\ SpIdInv /\ SpOwnInv /\ SpDistinctInv /\ SpApartInv /\ SpLockInv /\ SpHalfInv /\ SpPhaseInv
    BY DEF SpIndInv
  <1>0. PICK n \in Nat : n = Cardinality(SpAll)
    BY <1>1 DEF SpIdInv
  <1> DEFINE y == <<spBase + n, n>>
             f == [type |-> "NOTIFY", pl |-> SpWire(y)]
  <1>2. /\ spPeer[c] = "hello" /\ Len(spOut[c]) >= 2 /\ n < SpMaxNotify
        /\ spSent' = [spSent EXCEPT ![c] = @ \cup {y}] /\ spIn' = [spIn EXCEPT ![c] = Append(@, f)]
        /\ spBase' = spBase /\ spOpen' = spOpen /\ spPeer' = spPeer /\ spQueue' = spQueue /\ spWr' = spWr
        /\ spLock' = spLock /\ spOut' = spOut
    BY <1>0 DEF SpNotify, SpAll
  <1>3. y \in SpPairs
    BY <1>1, <1>2 DEF SpPairs, SpTypeOK, SpAssumption
  <1>4. y \notin SpAll
    <2>1. \A k \in Nat : k < n => y # <<spBase + k, k>>
      BY <1>0
    <2> QED
      BY <1>0, <1>1, <2>1 DEF SpIdInv
  <1>5. f \in SpFrame /\ SpAsks(f) /\ SpDue(f) = SpWire(y) /\ f.type = "NOTIFY" /\ f.pl = SpWire(y)
    BY <1>3 DEF SpFrame, SpAsks, SpDue, SpAcks
  <1> HIDE DEF f, y
  <1>6. SpWire(y) \notin SpAnswers(c)
    <2>1. SpWire(y) # SpHello
      BY <1>3, SpWireTells
    <2>2. ASSUME NEW z \in spSent[c], SpWire(z) = SpWire(y)
          PROVE  FALSE
      <3>1. z \in SpPairs /\ z \in SpAll
        BY <1>1 DEF SpTypeOK, SpAll
      <3> QED
        BY <1>3, <1>4, <2>2, <3>1, SpWireTells
    <2> QED
      BY <2>1, <2>2 DEF SpAnswers
  <1>7. ~SpInHas(c, SpWire(y)) /\ ~SpQueueHas(c, SpWire(y)) /\ ~SpWriterHas(c, SpWire(y)) /\ ~SpOutHas(c, SpWire(y))
    BY <1>1, <1>6, SpPlaced
  <1>8. /\ spIn' \in [SpConn -> Seq(SpFrame)]
        /\ \A d \in SpConn : \A k \in 1..Len(spIn'[d]) :
              \/ d = c /\ spIn'[d][k] = f
              \/ \E l \in 1..Len(spIn[d]) : spIn'[d][k] = spIn[d][l]
        /\ \A d \in SpConn : \A t : SpInHas(d, t)' <=> SpInHas(d, t) \/ (d = c /\ SpAsks(f) /\ t = SpDue(f))
        /\ SpInOnce'
    BY <1>1, <1>2, <1>5, <1>7, SpGives
  <1>9. /\ spSent'[c] = spSent[c] \cup {y}
        /\ \A d \in SpConn : d # c => spSent'[d] = spSent[d] /\ spIn'[d] = spIn[d]
        /\ \A d \in SpConn : spSent[d] \subseteq spSent'[d]
    BY <1>1, <1>2 DEF SpTypeOK
  <1>10. /\ SpAnswers(c)' = SpAnswers(c) \cup {SpWire(y)}
         /\ \A d \in SpConn : d # c => SpAnswers(d)' = SpAnswers(d)
         /\ \A d \in SpConn : SpAnswers(d) \subseteq SpAnswers(d)'
    BY <1>9 DEF SpAnswers
  <1>11. SpTypeOK'
    <2>1. spSent' \in [SpConn -> SUBSET SpPairs]
      BY <1>1, <1>2, <1>3 DEF SpTypeOK
    <2> QED
      BY <1>1, <1>2, <1>8, <2>1 DEF SpTypeOK
  <1>12. SpIdInv'
    <2>1. SpAll' = SpAll \cup {y}
      BY <1>9 DEF SpAll
    <2>2. IsFiniteSet(SpAll') /\ Cardinality(SpAll') = n + 1
      BY <1>0, <1>1, <1>4, <2>1, FS_AddElement DEF SpIdInv
    <2>3. n + 1 \in 0..SpMaxNotify /\ n \in 0..SpMaxNotify
      BY <1>2 DEF SpAssumption
    <2>4. ASSUME NEW z \in SpAll'
          PROVE  \E k \in 0..SpMaxNotify : k < n + 1 /\ z = <<spBase + k, k>>
      <3>1. CASE z = y
        BY <2>3, <3>1 DEF y
      <3>2. CASE z \in SpAll
        <4>1. PICK k \in 0..SpMaxNotify : k < n /\ z = <<spBase + k, k>>
          BY <1>0, <1>1, <3>2 DEF SpIdInv
        <4>2. k < n + 1
          BY <4>1
        <4> QED
          BY <4>1, <4>2
      <3> QED
        BY <2>1, <3>1, <3>2
    <2> QED
      BY <1>2, <2>2, <2>3, <2>4 DEF SpIdInv
  <1>13. SpOwnInv'
    <2>1. ASSUME NEW d \in SpConn, NEW k \in 1..Len(spIn'[d]), spIn'[d][k].type = "NOTIFY"
          PROVE  \E z \in spSent'[d] : spIn'[d][k].pl = SpWire(z)
      <3>1. CASE d = c /\ spIn'[d][k] = f
        BY <1>5, <1>9, <3>1
      <3>2. CASE \E l \in 1..Len(spIn[d]) : spIn'[d][k] = spIn[d][l]
        <4>1. \E z \in spSent[d] : spIn'[d][k].pl = SpWire(z)
          BY <1>1, <2>1, <3>2 DEF SpOwnInv, SpInOwn
        <4> QED
          BY <1>9, <4>1
      <3> QED
        BY <1>8, <3>1, <3>2
    <2>2. SpInOwn'
      BY <2>1 DEF SpInOwn
    <2>3. SpQueueOwn'
      <3>1. \A k \in 1..Len(spQueue) : spQueue[k].c \in SpConn
        <4>1. spQueue \in Seq(SpJob)
          BY <1>1 DEF SpTypeOK
        <4>2. \A k \in 1..Len(spQueue) : spQueue[k] \in SpJob
          BY <4>1
        <4> QED
          BY <4>2 DEF SpJob
      <3> QED
        BY <1>1, <1>2, <1>9, <3>1 DEF SpOwnInv, SpQueueOwn
    <2>4. SpWriterOwn' /\ SpOutOwn'
      BY <1>1, <1>2, <1>10 DEF SpOwnInv, SpWriterOwn, SpOutOwn
    <2> QED
      BY <2>2, <2>3, <2>4 DEF SpOwnInv
  <1>14. SpDistinctInv'
    BY <1>1, <1>2, <1>8, SpStill DEF SpDistinctInv
  <1>15. SpApartInv'
    <2> SUFFICES ASSUME NEW d \in SpConn, NEW t \in SpAnswers(d)'
                 PROVE  /\ SpInHas(d, t)' => ~SpQueueHas(d, t) /\ ~SpWriterHas(d, t) /\ ~SpOutHas(d, t)
                        /\ SpQueueHas(d, t) => ~SpWriterHas(d, t) /\ ~SpOutHas(d, t)
                        /\ SpWriterHas(d, t) => ~SpOutHas(d, t)
      BY <1>2, SpStill DEF SpApartInv
    <2>1. CASE d = c /\ t = SpWire(y)
      BY <1>7, <2>1
    <2>2. CASE t \in SpAnswers(d) /\ ~(d = c /\ t = SpWire(y))
      BY <1>1, <1>5, <1>8, <2>2 DEF SpApartInv
    <2> QED
      BY <1>6, <1>10, <2>1, <2>2
  <1>16. SpLockInv' /\ SpHalfInv'
    BY <1>1, <1>2, SpStill
  <1>17. SpPhaseInv'
    <2> SUFFICES ASSUME NEW d \in SpConn PROVE SpPhase(d)'
      BY DEF SpPhaseInv
    <2>0. SpPhase(d)
      BY <1>1 DEF SpPhaseInv
    <2>1. CASE d = c
      <3>1. ~(Len(spOut[d]) < 2)
        BY <1>1, <1>2, <2>1, LenProperties DEF SpTypeOK
      <3> QED
        BY <1>2, <2>0, <2>1, <3>1, SpStill DEF SpPhase
    <2>2. CASE d # c
      BY <1>2, <1>9, <1>10, <2>0, <2>2, SpStill DEF SpPhase
    <2> QED
      BY <2>1, <2>2
  <1> QED
    BY <1>11, <1>12, <1>13, <1>14, <1>15, <1>16, <1>17 DEF SpIndInv

-----------------------------------------------------------------------------
(* The steps of the agent. *)

LEMMA SpReadStep ==
  ASSUME SpAssumption, SpIndInv, NEW c \in SpConn, SpRead(c)
  PROVE  SpIndInv'
  <1>1. SpTypeOK /\ SpIdInv /\ SpOwnInv /\ SpDistinctInv /\ SpApartInv /\ SpLockInv /\ SpHalfInv /\ SpPhaseInv
    BY DEF SpIndInv
  <1> DEFINE f == Head(spIn[c])
             ids == SpIdsOf(f.pl)
             w == [to |-> c, part |-> 0, frame |-> SpHello]
             j == [c |-> c, sid |-> ids[1], fid |-> ids[2]]
  <1>2. /\ spOpen[c] = "open" /\ spWr[c] = SpIdle /\ spIn[c] # <<>>
        /\ spWr' = IF f.type = "HELLO" THEN [spWr EXCEPT ![c] = w] ELSE spWr
        /\ spQueue' = IF f.type = "NOTIFY" THEN Append(spQueue, j) ELSE spQueue
        /\ spOpen' = IF f.type \in {"DISCON", "EOF"} THEN [spOpen EXCEPT ![c] = "freed"] ELSE spOpen
        /\ spIn' = [spIn EXCEPT ![c] = Tail(@)]
        /\ spBase' = spBase /\ spPeer' = spPeer /\ spSent' = spSent /\ spLock' = spLock /\ spOut' = spOut
    BY DEF SpRead, SpHello
  <1>3. PICK h :
           /\ h = Head(spIn[c])
           /\ h \in SpFrame /\ h = spIn[c][1] /\ 1 \in 1..Len(spIn[c])
           /\ spIn' \in [SpConn -> Seq(SpFrame)]
           /\ \A d \in SpConn : d # c => spIn'[d] = spIn[d]
           /\ \A d \in SpConn : \A k \in 1..Len(spIn'[d]) : \E l \in 1..Len(spIn[d]) : spIn'[d][k] = spIn[d][l]
           /\ \A d \in SpConn : \A t : SpInHas(d, t)' <=> SpInHas(d, t) /\ ~(d = c /\ SpAsks(h) /\ t = SpDue(h))
           /\ SpInOnce'
    BY <1>1, <1>2, SpTakes
  <1>4. h = f
    BY <1>3
  <1> HIDE DEF f
  <1>5. SpInOwn'
    <2>1. ASSUME NEW d \in SpConn, NEW k \in 1..Len(spIn'[d]), spIn'[d][k].type = "NOTIFY"
          PROVE  \E y \in spSent[d] : spIn'[d][k].pl = SpWire(y)
      <3>1. PICK l \in 1..Len(spIn[d]) : spIn'[d][k] = spIn[d][l]
        BY <1>3, <2>1
      <3> QED
        BY <1>1, <2>1, <3>1 DEF SpOwnInv, SpInOwn
    <2> QED
      BY <1>2, <2>1 DEF SpInOwn
  <1>6. SpIdInv' /\ SpOutOnce' /\ SpOutOwn'
    BY <1>1, <1>2, SpStill DEF SpDistinctInv, SpOwnInv
  <1>7. SpAsks(h) => SpInHas(c, SpDue(h)) /\ SpDue(h) \in SpAnswers(c)
    <2>1. SpAsks(h) => SpInHas(c, SpDue(h))
      BY <1>3 DEF SpInHas
    <2> QED
      BY <1>1, <2>1, SpPlaced
  <1>8. SpAsks(h) => ~SpQueueHas(c, SpDue(h)) /\ ~SpWriterHas(c, SpDue(h)) /\ ~SpOutHas(c, SpDue(h))
    BY <1>1, <1>7 DEF SpApartInv
  <1>9. ASSUME NEW d \in SpConn
        PROVE  spIn[d] = <<>> => spIn'[d] = <<>>
    BY <1>2, <1>3
  <1>10. CASE h.type = "HELLO"
    <2>1. SpAsks(h) /\ SpDue(h) = SpHello
      BY <1>10 DEF SpAsks, SpDue
    <2>2. spWr' = [spWr EXCEPT ![c] = w] /\ spQueue' = spQueue /\ spOpen' = spOpen
      BY <1>2, <1>4, <1>10
    <2>3. c \in SpThread /\ c # "none" /\ w \in SpWriter
          /\ w.to = c /\ w.part = 0 /\ w.frame = SpHello
      BY DEF SpThread, SpWriter, SpAssumption
    <2>4. spWr[c].to = "none" /\ spWr[c].part = 0
      BY <1>2 DEF SpIdle
    <2> HIDE DEF w
    <2>5. /\ spWr' \in [SpThread -> SpWriter] /\ spWr'[c] = w
          /\ \A y \in SpThread : y # c => spWr'[y] = spWr[y]
          /\ \A d \in SpConn : \A t :
                SpWriterHas(d, t)' <=> \/ w.to = d /\ w.part < 2 /\ w.frame = t
                                       \/ /\ SpWriterHas(d, t)
                                          /\ ~(spWr[c].to = d /\ spWr[c].part < 2 /\ spWr[c].frame = t)
          /\ SpWriterOnce'
      BY <1>1, <1>8, <2>1, <2>2, <2>3, SpWrites
    <2>6. \A d \in SpConn : \A t : SpWriterHas(d, t)' <=> SpWriterHas(d, t) \/ (d = c /\ t = SpHello)
      BY <2>3, <2>4, <2>5 DEF SpAssumption
    <2>7. SpTypeOK'
      BY <1>1, <1>2, <1>3, <2>2, <2>5 DEF SpTypeOK
    <2>8. SpOwnInv'
      <3>1. SpHello \in SpAnswers(c)
        BY DEF SpAnswers
      <3>2. \A d \in SpConn : SpAnswers(d)' = SpAnswers(d)
        BY <1>2, SpStill
      <3>3. SpWriterOwn'
        BY <1>1, <2>3, <2>5, <3>1, <3>2 DEF SpOwnInv, SpWriterOwn
      <3> QED
        BY <1>1, <1>2, <1>5, <1>6, <2>2, <3>3, SpStill DEF SpOwnInv
    <2>9. SpDistinctInv'
      BY <1>1, <1>2, <1>3, <1>6, <2>2, <2>5, SpStill DEF SpDistinctInv
    <2>10. SpApartInv'
      BY <1>1, <1>2, <1>3, <1>8, <2>1, <2>2, <2>6, SpStill DEF SpApartInv
    <2>11. SpLockInv'
      BY <1>1, <1>2, <2>3, <2>4, <2>5 DEF SpLockInv, SpAssumption
    <2>12. SpHalfInv'
      <3>1. \A x \in SpThread : spWr'[x].part = 1 \/ spWr[x].part = 1 => spWr'[x] = spWr[x]
        BY <2>3, <2>4, <2>5
      <3> QED
        BY <1>1, <1>2, <3>1, SpHalfStill
    <2>13. SpPhaseInv'
      <3> SUFFICES ASSUME NEW d \in SpConn PROVE SpPhase(d)'
        BY DEF SpPhaseInv
      <3>0. SpPhase(d)
        BY <1>1 DEF SpPhaseInv
      <3>1. spPeer[d] = "new" => d # c
        BY <1>2, <3>0 DEF SpPhase
      <3>2. spPeer[d] = "new" => \A x \in SpThread : spWr'[x].to # d
        BY <2>3, <2>5, <3>0, <3>1 DEF SpPhase
      <3> QED
        BY <1>2, <1>9, <2>2, <3>0, <3>2, SpStill DEF SpPhase
    <2> QED
      BY <1>6, <2>7, <2>8, <2>9, <2>10, <2>11, <2>12, <2>13 DEF SpIndInv
  <1>11. CASE h.type = "NOTIFY"
    <2>1. SpAsks(h) /\ SpDue(h) = h.pl
      BY <1>11 DEF SpAsks, SpDue
    <2>2. PICK y \in spSent[c] : h.pl = SpWire(y)
      BY <1>1, <1>3, <1>11 DEF SpOwnInv, SpInOwn
    <2>3. y \in SpPairs
      BY <1>1 DEF SpTypeOK
    <2>4. y = <<y[1], y[2]>> /\ y[1] \in Nat /\ y[2] \in Nat /\ SpIdsOf(h.pl) = y
      BY <2>2, <2>3, SpWireTells
    <2>5. PICK g : g = [c |-> c, sid |-> y[1], fid |-> y[2]]
      OBVIOUS
    <2>6. g \in SpJob /\ g.c = c /\ <<g.sid, g.fid>> = y /\ SpAck(g) = SpDue(h)
      <3>1. g \in SpJob /\ g.c = c /\ <<g.sid, g.fid>> = <<y[1], y[2]>>
        BY <2>4, <2>5 DEF SpJob
      <3> QED
        BY <2>1, <2>2, <2>4, <3>1, Zenon DEF SpAck
    <2>7. spWr' = spWr /\ spQueue' = Append(spQueue, g) /\ spOpen' = spOpen
      <3>1. j = g
        BY <1>4, <2>4, <2>5
      <3> HIDE DEF j
      <3> QED
        BY <1>2, <1>4, <1>11, <3>1
    <2>8. /\ spQueue' \in Seq(SpJob)
          /\ \A k \in 1..Len(spQueue') : spQueue'[k] = g \/ \E l \in 1..Len(spQueue) : spQueue'[k] = spQueue[l]
          /\ \A d \in SpConn : \A t : SpQueueHas(d, t)' <=> SpQueueHas(d, t) \/ (d = g.c /\ t = SpAck(g))
          /\ SpQueueOnce'
      BY <1>1, <1>8, <2>1, <2>6, <2>7, SpQueues
    <2>9. SpTypeOK'
      BY <1>1, <1>2, <1>3, <2>7, <2>8 DEF SpTypeOK
    <2>10. SpOwnInv'
      <3>1. SpQueueOwn'
        BY <1>1, <1>2, <2>2, <2>6, <2>8 DEF SpOwnInv, SpQueueOwn
      <3> QED
        BY <1>1, <1>2, <1>5, <1>6, <2>7, <3>1, SpStill DEF SpOwnInv
    <2>11. SpDistinctInv'
      BY <1>1, <1>2, <1>3, <1>6, <2>7, <2>8, SpStill DEF SpDistinctInv
    <2>12. SpApartInv'
      BY <1>1, <1>2, <1>3, <1>8, <2>1, <2>6, <2>7, <2>8, SpStill DEF SpApartInv
    <2>13. SpLockInv' /\ SpHalfInv'
      BY <1>1, <1>2, <2>7, SpStill
    <2>14. SpPhaseInv'
      <3> SUFFICES ASSUME NEW d \in SpConn PROVE SpPhase(d)'
        BY DEF SpPhaseInv
      <3>0. SpPhase(d)
        BY <1>1 DEF SpPhaseInv
      <3> QED
        BY <1>2, <1>9, <2>7, <3>0, SpStill DEF SpPhase
    <2> QED
      BY <1>6, <2>9, <2>10, <2>11, <2>12, <2>13, <2>14 DEF SpIndInv
  <1>12. CASE h.type \in {"DISCON", "EOF"}
    <2>1. ~SpAsks(h)
      BY <1>12 DEF SpAsks
    <2>2. spWr' = spWr /\ spQueue' = spQueue /\ spOpen' = [spOpen EXCEPT ![c] = "freed"]
      BY <1>2, <1>4, <1>12
    <2>3. SpTypeOK'
      BY <1>1, <1>2, <1>3, <2>2 DEF SpTypeOK
    <2>4. SpOwnInv'
      BY <1>1, <1>2, <1>5, <1>6, <2>2, SpStill DEF SpOwnInv
    <2>5. SpDistinctInv'
      BY <1>1, <1>2, <1>3, <1>6, <2>2, SpStill DEF SpDistinctInv
    <2>6. SpApartInv'
      BY <1>1, <1>2, <1>3, <2>1, <2>2, SpStill DEF SpApartInv
    <2>7. SpLockInv' /\ SpHalfInv'
      BY <1>1, <1>2, <2>2, SpStill
    <2>8. SpPhaseInv'
      <3> SUFFICES ASSUME NEW d \in SpConn PROVE SpPhase(d)'
        BY DEF SpPhaseInv
      <3>0. SpPhase(d)
        BY <1>1 DEF SpPhaseInv
      <3>1. CASE d = c
        <4>1. spPeer[d] # "new" /\ spOpen'[d] = "freed"
          BY <1>1, <1>2, <2>2, <3>0, <3>1 DEF SpPhase, SpTypeOK
        <4> QED
          BY <1>2, <1>9, <2>2, <3>0, <4>1, SpStill DEF SpPhase
      <3>2. CASE d # c
        <4>1. spOpen'[d] = spOpen[d]
          BY <1>1, <2>2, <3>2 DEF SpTypeOK
        <4> QED
          BY <1>2, <1>9, <2>2, <3>0, <4>1, SpStill DEF SpPhase
      <3> QED
        BY <3>1, <3>2
    <2> QED
      BY <1>6, <2>3, <2>4, <2>5, <2>6, <2>7, <2>8 DEF SpIndInv
  <1> QED
    BY <1>3, <1>10, <1>11, <1>12 DEF SpFrame

-----------------------------------------------------------------------------
(* The steps of the workers and of the writers. *)

LEMMA SpWorkStep ==
  ASSUME SpAssumption, SpIndInv, NEW w \in SpWorker, SpWork(w)
  PROVE  SpIndInv'
  <1>1. SpTypeOK /\ SpIdInv /\ SpOwnInv /\ SpDistinctInv /\ SpApartInv /\ SpLockInv /\ SpHalfInv /\ SpPhaseInv
    BY DEF SpIndInv
  <1> DEFINE q == Head(spQueue)
             v == [to |-> q.c, part |-> 0, frame |-> SpEncVarint(q.sid) \o SpEncVarint(q.fid)]
  <1>2. /\ spWr[w] = SpIdle /\ spQueue # <<>>
        /\ spWr' = [spWr EXCEPT ![w] = v]
        /\ spQueue' = Tail(spQueue)
        /\ spBase' = spBase /\ spIn' = spIn /\ spOpen' = spOpen /\ spPeer' = spPeer
        /\ spSent' = spSent /\ spLock' = spLock /\ spOut' = spOut
    BY DEF SpWork
  <1>3. PICK j :
           /\ j = Head(spQueue)
           /\ j \in SpJob /\ j = spQueue[1] /\ 1 \in 1..Len(spQueue)
           /\ spQueue' \in Seq(SpJob)
           /\ \A k \in 1..Len(spQueue') : \E l \in 1..Len(spQueue) : spQueue'[k] = spQueue[l]
           /\ \A d \in SpConn : \A t : SpQueueHas(d, t)' <=> SpQueueHas(d, t) /\ ~(d = j.c /\ t = SpAck(j))
           /\ SpQueueOnce'
    BY <1>1, <1>2, SpUnqueues
  <1>4. PICK c \in SpConn : c = j.c
    BY <1>3 DEF SpJob
  <1>5. PICK y \in spSent[c] : y = <<j.sid, j.fid>>
    BY <1>1, <1>3, <1>4 DEF SpOwnInv, SpQueueOwn
  <1>6. y \in SpPairs /\ SpWire(y) \in SpAcks /\ SpWire(y) \in SpAnswers(c) /\ SpAck(j) = SpWire(y)
    <2>1. y \in SpPairs
      BY <1>1 DEF SpTypeOK
    <2> QED
      BY <1>5, <2>1 DEF SpAcks, SpAnswers, SpAck
  <1>7. SpEncVarint(j.sid) \o SpEncVarint(j.fid) = SpWire(y)
    <2>1. y[1] = j.sid /\ y[2] = j.fid
      BY <1>5
    <2>2. SpEncVarint(y[1]) \o SpEncVarint(y[2]) = SpWire(y)
      BY <1>6, SpWireTells
    <2> QED
      BY <2>1, <2>2
  <1>8. PICK u : u = [to |-> c, part |-> 0, frame |-> SpWire(y)]
    OBVIOUS
  <1>9. spWr' = [spWr EXCEPT ![w] = u]
    <2>1. v = u
      BY <1>3, <1>4, <1>7, <1>8
    <2> HIDE DEF v
    <2> QED
      BY <1>2, <2>1
  <1> HIDE DEF v, q
  <1>10. /\ w \in SpThread /\ c # "none" /\ u \in SpWriter
         /\ u.to = c /\ u.part = 0 /\ u.frame = SpWire(y)
         /\ spWr[w].to = "none" /\ spWr[w].part = 0
    <2>1. u \in SpWriter
      BY <1>6, <1>8 DEF SpWriter
    <2>2. spWr[w].to = "none" /\ spWr[w].part = 0
      BY <1>2 DEF SpIdle
    <2> QED
      BY <1>8, <2>1, <2>2 DEF SpThread, SpAssumption
  <1>11. SpQueueHas(c, SpWire(y))
    BY <1>3, <1>4, <1>6 DEF SpQueueHas
  <1>12. ~SpInHas(c, SpWire(y)) /\ ~SpWriterHas(c, SpWire(y)) /\ ~SpOutHas(c, SpWire(y))
    BY <1>1, <1>6, <1>11 DEF SpApartInv
  <1>13. /\ spWr' \in [SpThread -> SpWriter] /\ spWr'[w] = u
         /\ \A x \in SpThread : x # w => spWr'[x] = spWr[x]
         /\ \A d \in SpConn : \A t :
               SpWriterHas(d, t)' <=> \/ u.to = d /\ u.part < 2 /\ u.frame = t
                                      \/ /\ SpWriterHas(d, t)
                                         /\ ~(spWr[w].to = d /\ spWr[w].part < 2 /\ spWr[w].frame = t)
         /\ SpWriterOnce'
    BY <1>1, <1>9, <1>10, <1>12, SpWrites
  <1>14. \A d \in SpConn : \A t : SpWriterHas(d, t)' <=> SpWriterHas(d, t) \/ (d = c /\ t = SpWire(y))
    BY <1>10, <1>13 DEF SpAssumption
  <1>15. SpTypeOK'
    BY <1>1, <1>2, <1>3, <1>13 DEF SpTypeOK
  <1>16. SpOwnInv'
    <2>1. \A d \in SpConn : SpAnswers(d)' = SpAnswers(d)
      BY <1>2, SpStill
    <2>2. SpWriterOwn'
      BY <1>1, <1>6, <1>10, <1>13, <2>1 DEF SpOwnInv, SpWriterOwn
    <2>3. SpQueueOwn'
      <3>1. ASSUME NEW k \in 1..Len(spQueue')
            PROVE  <<spQueue'[k].sid, spQueue'[k].fid>> \in spSent[spQueue'[k].c]
        <4>1. PICK l \in 1..Len(spQueue) : spQueue'[k] = spQueue[l]
          BY <1>3
        <4> QED
          BY <1>1, <4>1 DEF SpOwnInv, SpQueueOwn
      <3> QED
        BY <1>2, <3>1 DEF SpQueueOwn
    <2> QED
      BY <1>1, <1>2, <2>2, <2>3, SpStill DEF SpOwnInv
  <1>17. SpDistinctInv'
    BY <1>1, <1>2, <1>3, <1>13, SpStill DEF SpDistinctInv
  <1>18. SpApartInv'
    <2>1. \A d \in SpConn : \A t : SpQueueHas(d, t)' <=> SpQueueHas(d, t) /\ ~(d = c /\ t = SpWire(y))
      BY <1>3, <1>4, <1>6
    <2> QED
      BY <1>1, <1>2, <1>12, <1>14, <2>1, SpStill DEF SpApartInv
  <1>19. SpLockInv'
    BY <1>1, <1>2, <1>10, <1>13 DEF SpLockInv, SpAssumption
  <1>20. SpHalfInv'
    <2>1. \A x \in SpThread : spWr'[x].part = 1 \/ spWr[x].part = 1 => spWr'[x] = spWr[x]
      BY <1>10, <1>13
    <2> QED
      BY <1>1, <1>2, <2>1, SpHalfStill
  <1>21. SpPhaseInv'
    <2> SUFFICES ASSUME NEW d \in SpConn PROVE SpPhase(d)'
      BY DEF SpPhaseInv
    <2>0. SpPhase(d)
      BY <1>1 DEF SpPhaseInv
    <2>1. spPeer[d] = "new" => d # c
      <3>1. Len(<<>>) < 2
        OBVIOUS
      <3> QED
        BY <1>5, <2>0, <3>1 DEF SpPhase
    <2>2. spPeer[d] = "new" => \A x \in SpThread : spWr'[x].to # d
      BY <1>10, <1>13, <2>0, <2>1 DEF SpPhase
    <2> QED
      BY <1>2, <2>0, <2>2, SpStill DEF SpPhase
  <1>22. SpIdInv'
    BY <1>1, <1>2, SpStill
  <1> QED
    BY <1>15, <1>16, <1>17, <1>18, <1>19, <1>20, <1>21, <1>22 DEF SpIndInv

LEMMA SpUnlockStep ==
  ASSUME SpAssumption, SpIndInv, NEW x \in SpThread, SpUnlock(x)
  PROVE  SpIndInv'
  <1>1. SpTypeOK /\ SpIdInv /\ SpOwnInv /\ SpDistinctInv /\ SpApartInv /\ SpLockInv /\ SpHalfInv /\ SpPhaseInv
    BY DEF SpIndInv
  <1> DEFINE c == spWr[x].to
  <1>2. /\ spWr[x].part = 2
        /\ spLock' = [spLock EXCEPT ![c] = "free"]
        /\ spWr' = [spWr EXCEPT ![x] = SpIdle]
        /\ spBase' = spBase /\ spIn' = spIn /\ spOpen' = spOpen /\ spPeer' = spPeer
        /\ spSent' = spSent /\ spQueue' = spQueue /\ spOut' = spOut
    BY DEF SpUnlock
  <1>3. c \in SpConn /\ spLock[c] = x /\ c # "none"
    <2>1. spWr[x] # SpIdle
      BY <1>2 DEF SpIdle
    <2>2. c \in SpConn
      BY <1>1, <2>1 DEF SpOwnInv, SpWriterOwn
    <2>3. spWr[x].part > 0
      BY <1>2
    <2> QED
      BY <1>1, <2>2, <2>3 DEF SpLockInv, SpAssumption
  <1>4. SpIdle \in SpWriter /\ SpIdle.to = "none" /\ SpIdle.part = 0
    BY DEF SpIdle, SpWriter
  <1>5. /\ spWr' \in [SpThread -> SpWriter] /\ spWr'[x] = SpIdle
        /\ \A y \in SpThread : y # x => spWr'[y] = spWr[y]
        /\ \A d \in SpConn : \A t :
              SpWriterHas(d, t)' <=> \/ SpIdle.to = d /\ SpIdle.part < 2 /\ SpIdle.frame = t
                                     \/ /\ SpWriterHas(d, t)
                                        /\ ~(spWr[x].to = d /\ spWr[x].part < 2 /\ spWr[x].frame = t)
        /\ SpWriterOnce'
    BY <1>1, <1>2, <1>4, SpWrites
  <1>6. \A d \in SpConn : \A t : SpWriterHas(d, t)' <=> SpWriterHas(d, t)
    BY <1>2, <1>4, <1>5 DEF SpAssumption
  <1>7. SpTypeOK'
    BY <1>1, <1>2, <1>3, <1>5 DEF SpTypeOK
  <1>8. SpOwnInv'
    <2>1. \A d \in SpConn : SpAnswers(d)' = SpAnswers(d)
      BY <1>2, SpStill
    <2>2. SpWriterOwn'
      BY <1>1, <1>5, <2>1 DEF SpOwnInv, SpWriterOwn
    <2> QED
      BY <1>1, <1>2, <2>2, SpStill DEF SpOwnInv
  <1>9. SpDistinctInv'
    BY <1>1, <1>2, <1>5, SpStill DEF SpDistinctInv
  <1>10. SpApartInv'
    BY <1>1, <1>2, <1>6, SpStill DEF SpApartInv
  <1>11. SpLockInv'
    <2> SUFFICES ASSUME NEW d \in SpConn, NEW y \in SpThread
                 PROVE  spLock'[d] = y <=> spWr'[y].to = d /\ spWr'[y].part > 0
      BY DEF SpLockInv
    <2>0. y # "free"
      BY DEF SpThread, SpAssumption
    <2>1. CASE d = c
      <3>1. spLock'[d] = "free"
        BY <1>1, <1>2, <1>3, <2>1 DEF SpTypeOK
      <3>2. y # x => ~(spWr[y].to = d /\ spWr[y].part > 0)
        BY <1>1, <1>3, <2>1 DEF SpLockInv
      <3> QED
        BY <1>3, <1>4, <1>5, <2>0, <2>1, <3>1, <3>2
    <2>2. CASE d # c
      <3>1. spLock'[d] = spLock[d] /\ (spLock[d] = y <=> spWr[y].to = d /\ spWr[y].part > 0)
        BY <1>1, <1>2, <2>2 DEF SpTypeOK, SpLockInv
      <3>2. d # "none"
        BY DEF SpAssumption
      <3> QED
        BY <1>4, <1>5, <2>2, <3>1, <3>2
    <2> QED
      BY <2>1, <2>2
  <1>12. SpHalfInv'
    <2>1. \A y \in SpThread : spWr'[y].part = 1 \/ spWr[y].part = 1 => spWr'[y] = spWr[y]
      BY <1>2, <1>4, <1>5
    <2> QED
      BY <1>1, <1>2, <2>1, SpHalfStill
  <1>13. SpPhaseInv'
    <2> SUFFICES ASSUME NEW d \in SpConn PROVE SpPhase(d)'
      BY DEF SpPhaseInv
    <2>0. SpPhase(d)
      BY <1>1 DEF SpPhaseInv
    <2>1. d # "none"
      BY DEF SpAssumption
    <2>2. spPeer[d] = "new" => \A y \in SpThread : spWr'[y].to # d
      BY <1>4, <1>5, <2>0, <2>1 DEF SpPhase
    <2> QED
      BY <1>2, <2>0, <2>2, SpStill DEF SpPhase
  <1>14. SpIdInv'
    BY <1>1, <1>2, SpStill
  <1> QED
    BY <1>7, <1>8, <1>9, <1>10, <1>11, <1>12, <1>13, <1>14 DEF SpIndInv

LEMMA SpEvens ==
  \A n \in Nat :
     /\ n % 2 = 0 => n = 0 \/ n >= 2
     /\ n % 2 # 1 => n % 2 = 0
     /\ n % 2 = 1 => n >= 1 /\ (n <= 2 <=> n + 1 <= 2)
     /\ n % 2 = 0 => (n + 1) % 2 = 1
     /\ n % 2 = 1 => (n + 1) % 2 # 1
  OBVIOUS

\* What a thread that writes to a connection has in hand.
LEMMA SpInHand ==
  ASSUME SpAssumption, SpTypeOK, SpOwnInv, NEW x \in SpThread, spWr[x] # SpIdle
  PROVE  /\ spWr[x].to \in SpConn /\ spWr[x].to # "none"
         /\ spWr[x].frame \in SpAnswers(spWr[x].to) /\ spWr[x].frame \in SpAcks \cup {SpHello}
         /\ spWr[x].part < 2 => SpWriterHas(spWr[x].to, spWr[x].frame)
         /\ Len(spOut[spWr[x].to]) \in Nat
  <1>1. spWr[x].to \in SpConn /\ spWr[x].frame \in SpAnswers(spWr[x].to)
    BY DEF SpOwnInv, SpWriterOwn
  <1>2. spSent[spWr[x].to] \subseteq SpPairs
    BY <1>1 DEF SpTypeOK
  <1>3. spWr[x].frame \in SpAcks \cup {SpHello}
    BY <1>1, <1>2 DEF SpAnswers, SpAcks
  <1>4. spWr[x].part < 2 => SpWriterHas(spWr[x].to, spWr[x].frame)
    BY DEF SpWriterHas
  <1>5. Len(spOut[spWr[x].to]) \in Nat
    BY <1>1, LenProperties DEF SpTypeOK
  <1> QED
    BY <1>1, <1>3, <1>4, <1>5 DEF SpAssumption

LEMMA SpLockStep ==
  ASSUME SpAssumption, SpIndInv, NEW x \in SpThread, SpLock(x)
  PROVE  SpIndInv'
  <1>1. SpTypeOK /\ SpIdInv /\ SpOwnInv /\ SpDistinctInv /\ SpApartInv /\ SpLockInv /\ SpHalfInv /\ SpPhaseInv
    BY DEF SpIndInv
  <1>2. PICK c, t : c = spWr[x].to /\ t = spWr[x].frame
    OBVIOUS
  <1>3. PICK h, w : h = [frame |-> t, part |-> 1] /\ w = [to |-> c, part |-> 1, frame |-> t]
    OBVIOUS
  <1>4. /\ spWr[x] # SpIdle /\ spWr[x].part = 0 /\ spLock[c] = "free"
        /\ spLock' = [spLock EXCEPT ![c] = x]
        /\ spBase' = spBase /\ spIn' = spIn /\ spOpen' = spOpen /\ spPeer' = spPeer
        /\ spSent' = spSent /\ spQueue' = spQueue
    BY <1>2 DEF SpLock
  <1>5. spOut' = [spOut EXCEPT ![c] = Append(@, h)]
    <2>1. spOut' = [spOut EXCEPT ![c] = Append(@, [frame |-> t, part |-> spWr[x].part + 1])]
      BY <1>2 DEF SpLock, SpPut
    <2>2. spWr[x].part + 1 = 1
      BY <1>4
    <2> QED
      BY <1>3, <2>1, <2>2
  <1>6. spWr' = [spWr EXCEPT ![x] = w]
    <2>1. spWr' = [spWr EXCEPT ![x] = [@ EXCEPT !.part = 1]]
      BY DEF SpLock
    <2>2. spWr[x] \in SpWriter
      BY <1>1 DEF SpTypeOK
    <2>3. [spWr[x] EXCEPT !.part = 1] = w
      BY <1>2, <1>3, <2>2 DEF SpWriter
    <2> QED
      BY <2>1, <2>3
  <1>7. /\ c \in SpConn /\ c # "none" /\ t \in SpAnswers(c) /\ t \in SpAcks \cup {SpHello}
        /\ SpWriterHas(c, t) /\ Len(spOut[c]) \in Nat
    BY <1>1, <1>2, <1>4, SpInHand
  <1>8. /\ h \in SpHalf /\ h.part = 1 /\ h.frame = t
        /\ w \in SpWriter /\ w.to = c /\ w.part = 1 /\ w.frame = t
    <2>1. h \in SpHalf
      BY <1>3, <1>7 DEF SpHalf
    <2>2. w \in SpWriter
      BY <1>3, <1>7 DEF SpWriter
    <2> QED
      BY <1>3, <2>1, <2>2
  <1>9. \A y \in SpThread : ~(spWr[y].to = c /\ spWr[y].part > 0)
    <2>1. \A y \in SpThread : y # "free"
      BY DEF SpThread, SpAssumption
    <2> QED
      BY <1>1, <1>4, <1>7, <2>1 DEF SpLockInv
  <1>10. PICK n \in Nat : n = Len(spOut[c])
    BY <1>7
  <1>11. n % 2 = 0 /\ (n + 1) % 2 = 1 /\ (n = 0 \/ n >= 2)
    <2>1. n % 2 # 1
      <3>1. ASSUME n % 2 = 1
            PROVE  FALSE
        <4>1. PICK y \in SpThread : spWr[y].to = c /\ spWr[y].part = 1
          BY <1>1, <1>7, <1>10, <3>1 DEF SpHalfInv
        <4>2. 1 > 0
          OBVIOUS
        <4> QED
          BY <1>9, <4>1, <4>2
      <3> QED
        BY <3>1
    <2> QED
      BY <2>1, SpEvens
  <1>12. /\ \A d \in SpConn : \A a : SpOutHas(d, a)' <=> SpOutHas(d, a)
         /\ SpOutOnce'
    BY <1>1, <1>5, <1>7, <1>8, <1>10, <1>11, SpFirstHalf
  <1>13. /\ spOut' \in [SpConn -> Seq(SpHalf)]
         /\ \A d \in SpConn : d # c => spOut'[d] = spOut[d]
         /\ Len(spOut'[c]) = n + 1 /\ spOut'[c][n + 1] = h
         /\ \A k \in 1..n : spOut'[c][k] = spOut[c][k]
         /\ \A k \in 1..(n + 1) : k \in 1..n \/ k = n + 1
         /\ SpHalves'
    <2>1. h.part = 2 - ((Len(spOut[c]) + 1) % 2)
      <3>1. 2 - ((n + 1) % 2) = 1
        BY <1>11
      <3> QED
        BY <1>8, <1>10, <3>1
    <2>2. h.part = 2 => spOut[c][Len(spOut[c])].frame = h.frame
      BY <1>8
    <2>3. SpTypeOK /\ SpHalfInv /\ c \in SpConn /\ h \in SpHalf
      BY <1>1, <1>7, <1>8
    <2>4. /\ spOut' \in [SpConn -> Seq(SpHalf)]
          /\ \A d \in SpConn : d # c => spOut'[d] = spOut[d]
          /\ Len(spOut'[c]) = Len(spOut[c]) + 1 /\ spOut'[c][Len(spOut[c]) + 1] = h
          /\ \A k \in 1..Len(spOut[c]) : spOut'[c][k] = spOut[c][k]
          /\ \A k \in 1..(Len(spOut[c]) + 1) : k \in 1..Len(spOut[c]) \/ k = Len(spOut[c]) + 1
          /\ SpHalves'
      BY <1>5, <2>1, <2>2, <2>3, SpPuts
    <2> QED
      BY <1>10, <2>4
  <1>14. /\ spWr' \in [SpThread -> SpWriter] /\ spWr'[x] = w
         /\ \A y \in SpThread : y # x => spWr'[y] = spWr[y]
         /\ \A d \in SpConn : \A a :
               SpWriterHas(d, a)' <=> \/ w.to = d /\ w.part < 2 /\ w.frame = a
                                      \/ /\ SpWriterHas(d, a)
                                         /\ ~(spWr[x].to = d /\ spWr[x].part < 2 /\ spWr[x].frame = a)
         /\ SpWriterOnce'
    <2>1. w.to = spWr[x].to /\ w.frame = spWr[x].frame /\ spWr[x].part < 2
      BY <1>2, <1>4, <1>8
    <2> QED
      BY <1>1, <1>6, <1>8, <2>1, SpWrites
  <1>15. \A d \in SpConn : \A a : SpWriterHas(d, a)' <=> SpWriterHas(d, a)
    <2>1. w.part < 2 /\ spWr[x].part < 2
      BY <1>4, <1>8
    <2> QED
      BY <1>2, <1>7, <1>8, <1>14, <2>1
  <1>16. SpTypeOK'
    BY <1>1, <1>4, <1>7, <1>13, <1>14 DEF SpTypeOK
  <1>17. SpOwnInv'
    <2>1. \A d \in SpConn : SpAnswers(d)' = SpAnswers(d)
      BY <1>4, SpStill
    <2>2. SpWriterOwn'
      BY <1>1, <1>7, <1>8, <1>14, <2>1 DEF SpOwnInv, SpWriterOwn
    <2>3. SpOutOwn'
      <3>1. ASSUME NEW d \in SpConn, NEW k \in 1..Len(spOut'[d])
            PROVE  spOut'[d][k].frame \in SpAnswers(d)
        <4>1. CASE d # c
          BY <1>1, <1>13, <3>1, <4>1 DEF SpOwnInv, SpOutOwn
        <4>2. CASE d = c /\ k = n + 1
          BY <1>7, <1>8, <1>13, <4>2
        <4>3. CASE d = c /\ k \in 1..n
          <5>1. spOut[c][k].frame \in SpAnswers(c)
            BY <1>1, <1>7, <1>10, <4>3 DEF SpOwnInv, SpOutOwn
          <5> QED
            BY <1>13, <4>3, <5>1
        <4> QED
          BY <1>13, <3>1, <4>1, <4>2, <4>3
      <3> QED
        BY <2>1, <3>1 DEF SpOutOwn
    <2> QED
      BY <1>1, <1>4, <2>2, <2>3, SpStill DEF SpOwnInv
  <1>18. SpDistinctInv'
    BY <1>1, <1>4, <1>12, <1>14, SpStill DEF SpDistinctInv
  <1>19. SpApartInv'
    BY <1>1, <1>4, <1>12, <1>15, SpStill DEF SpApartInv
  <1>20. SpLockInv'
    <2> SUFFICES ASSUME NEW d \in SpConn, NEW y \in SpThread
                 PROVE  spLock'[d] = y <=> spWr'[y].to = d /\ spWr'[y].part > 0
      BY DEF SpLockInv
    <2>1. CASE d = c
      <3>1. spLock'[d] = x
        BY <1>1, <1>4, <1>7, <2>1 DEF SpTypeOK
      <3>2. w.part > 0
        BY <1>8
      <3> QED
        BY <1>8, <1>9, <1>14, <2>1, <3>1, <3>2
    <2>2. CASE d # c
      <3>1. spLock'[d] = spLock[d] /\ (spLock[d] = y <=> spWr[y].to = d /\ spWr[y].part > 0)
        BY <1>1, <1>4, <2>2 DEF SpTypeOK, SpLockInv
      <3> QED
        BY <1>2, <1>8, <1>14, <2>2, <3>1
    <2> QED
      BY <2>1, <2>2
  <1>21. SpHalfInv'
    <2>1. ASSUME NEW d \in SpConn, Len(spOut'[d]) % 2 = 1
          PROVE  \E y \in SpThread : spWr'[y].to = d /\ spWr'[y].part = 1
      <3>1. CASE d = c
        BY <1>8, <1>14, <3>1
      <3>2. CASE d # c
        <4>1. PICK y \in SpThread : spWr[y].to = d /\ spWr[y].part = 1
          BY <1>1, <1>13, <2>1, <3>2 DEF SpHalfInv
        <4> QED
          BY <1>2, <1>14, <3>2, <4>1
      <3> QED
        BY <3>1, <3>2
    <2>2. ASSUME NEW y \in SpThread, spWr'[y].part = 1
          PROVE  /\ Len(spOut'[spWr'[y].to]) % 2 = 1
                 /\ spOut'[spWr'[y].to][Len(spOut'[spWr'[y].to])].frame = spWr'[y].frame
      <3>1. CASE y = x
        <4>1. spWr'[y].to = c /\ spWr'[y].frame = t
          BY <1>8, <1>14, <3>1
        <4> QED
          BY <1>8, <1>11, <1>13, <4>1
      <3>2. CASE y # x
        <4>1. spWr'[y] = spWr[y] /\ spWr[y].part = 1 /\ spWr[y].part > 0
          BY <1>14, <2>2, <3>2
        <4>2. spWr[y] # SpIdle
          BY <4>1 DEF SpIdle
        <4>3. spWr[y].to \in SpConn /\ spWr[y].to # c
          BY <1>1, <1>9, <4>1, <4>2, SpInHand
        <4>4. spOut'[spWr[y].to] = spOut[spWr[y].to]
          BY <1>13, <4>3
        <4>6. /\ Len(spOut[spWr[y].to]) % 2 = 1
              /\ spOut[spWr[y].to][Len(spOut[spWr[y].to])].frame = spWr[y].frame
          BY <1>1, <4>1 DEF SpHalfInv
        <4>7. PICK e, o : e = spWr[y] /\ o = spOut[spWr[y].to]
          OBVIOUS
        <4>8. Len(o) % 2 = 1 /\ o[Len(o)].frame = e.frame
          BY <4>6, <4>7
        <4>9. spWr'[y] = e /\ spOut'[e.to] = o
          BY <4>1, <4>4, <4>7
        <4> QED
          BY <4>8, <4>9, Zenon
      <3> QED
        BY <3>1, <3>2
    <2> QED
      BY <1>13, <2>1, <2>2 DEF SpHalfInv
  <1>22. SpPhaseInv'
    <2> SUFFICES ASSUME NEW d \in SpConn PROVE SpPhase(d)'
      BY DEF SpPhaseInv
    <2>0. SpPhase(d)
      BY <1>1 DEF SpPhaseInv
    <2>1. CASE d = c
      <3>1. spPeer[d] # "new"
        BY <1>2, <2>0, <2>1 DEF SpPhase
      <3>2. n < 2 => spSent[d] = {}
        BY <1>10, <2>0, <2>1 DEF SpPhase
      <3>3. n + 1 <= 2 <=> t = SpHello
        <4>1. CASE n = 0
          <5>1. t \in {SpHello} \cup {SpWire(y) : y \in {}}
            BY <1>7, <2>1, <3>2, <4>1 DEF SpAnswers
          <5> QED
            BY <4>1, <5>1
        <4>2. CASE n >= 2
          <5>1. 1 \in 1..n /\ 1 \in 1..(n - 1) /\ 1 <= 2 /\ ~(n + 1 <= 2) /\ 2 - (1 % 2) = 1
            BY <4>2
          <5>2. spOut[c][1].frame = SpHello
            BY <1>10, <2>0, <2>1, <5>1 DEF SpPhase
          <5>3. spOut[c][1].part = 1
            BY <1>1, <1>7, <1>10, <5>1 DEF SpHalfInv, SpHalves
          <5>4. SpOutHas(c, SpHello)
            BY <1>10, <5>1, <5>2, <5>3 DEF SpOutHas, SpWhole
          <5>5. ~SpOutHas(c, t)
            BY <1>1, <1>7 DEF SpApartInv
          <5> QED
            BY <5>1, <5>4, <5>5
        <4> QED
          BY <1>11, <4>1, <4>2
      <3>4. \A k \in 1..Len(spOut'[d]) : k <= 2 <=> spOut'[d][k].frame = SpHello
        <4>1. \A k \in 1..n : k <= 2 <=> spOut[d][k].frame = SpHello
          BY <1>10, <2>0, <2>1 DEF SpPhase
        <4> QED
          BY <1>8, <1>13, <2>1, <3>3, <4>1
      <3>5. Len(spOut'[d]) < 2 => spSent[d] = {}
        BY <1>13, <2>1, <3>2
      <3> QED
        BY <1>4, <2>0, <3>1, <3>4, <3>5, SpStill DEF SpPhase
    <2>2. CASE d # c
      <3>1. spPeer[d] = "new" => \A y \in SpThread : spWr'[y].to # d
        BY <1>8, <1>14, <2>0, <2>2 DEF SpPhase
      <3>2. spOut'[d] = spOut[d]
        BY <1>13, <2>2
      <3> QED
        BY <1>4, <2>0, <3>1, <3>2, SpStill DEF SpPhase
    <2> QED
      BY <2>1, <2>2
  <1>23. SpIdInv'
    BY <1>1, <1>4, SpStill
  <1> QED
    BY <1>16, <1>17, <1>18, <1>19, <1>20, <1>21, <1>22, <1>23 DEF SpIndInv

LEMMA SpWriteRestStep ==
  ASSUME SpAssumption, SpIndInv, NEW x \in SpThread, SpWriteRest(x)
  PROVE  SpIndInv'
  <1>1. SpTypeOK /\ SpIdInv /\ SpOwnInv /\ SpDistinctInv /\ SpApartInv /\ SpLockInv /\ SpHalfInv /\ SpPhaseInv
    BY DEF SpIndInv
  <1>2. PICK c, t : c = spWr[x].to /\ t = spWr[x].frame
    OBVIOUS
  <1>3. PICK h, w : h = [frame |-> t, part |-> 2] /\ w = [to |-> c, part |-> 2, frame |-> t]
    OBVIOUS
  <1>4. /\ spWr[x] # SpIdle /\ spWr[x].part = 1
        /\ spBase' = spBase /\ spIn' = spIn /\ spOpen' = spOpen /\ spPeer' = spPeer
        /\ spSent' = spSent /\ spQueue' = spQueue /\ spLock' = spLock
    <2>1. spWr[x].part = 1
      BY DEF SpWriteRest
    <2>2. SpIdle.part # 1
      BY DEF SpIdle
    <2> QED
      BY <2>1, <2>2 DEF SpWriteRest
  <1>5. spOut' = [spOut EXCEPT ![c] = Append(@, h)]
    <2>1. spOut' = [spOut EXCEPT ![c] = Append(@, [frame |-> t, part |-> spWr[x].part + 1])]
      BY <1>2 DEF SpWriteRest, SpPut
    <2>2. spWr[x].part + 1 = 2
      BY <1>4
    <2> QED
      BY <1>3, <2>1, <2>2
  <1>6. spWr' = [spWr EXCEPT ![x] = w]
    <2>1. spWr' = [spWr EXCEPT ![x] = [@ EXCEPT !.part = 2]]
      BY DEF SpWriteRest
    <2>2. spWr[x] \in SpWriter
      BY <1>1 DEF SpTypeOK
    <2>3. [spWr[x] EXCEPT !.part = 2] = w
      BY <1>2, <1>3, <2>2 DEF SpWriter
    <2> QED
      BY <2>1, <2>3
  <1>7. /\ c \in SpConn /\ c # "none" /\ t \in SpAnswers(c) /\ t \in SpAcks \cup {SpHello}
        /\ SpWriterHas(c, t) /\ Len(spOut[c]) \in Nat
    <2>1. spWr[x].part < 2
      BY <1>4
    <2> QED
      BY <1>1, <1>2, <1>4, <2>1, SpInHand
  <1>8. /\ h \in SpHalf /\ h.part = 2 /\ h.frame = t
        /\ w \in SpWriter /\ w.to = c /\ w.part = 2 /\ w.frame = t
    <2>1. h \in SpHalf
      BY <1>3, <1>7 DEF SpHalf
    <2>2. w \in SpWriter
      BY <1>3, <1>7 DEF SpWriter
    <2> QED
      BY <1>3, <2>1, <2>2
  <1>9. \A y \in SpThread : y # x => ~(spWr[y].to = c /\ spWr[y].part > 0)
    <2>1. spWr[x].part > 0
      BY <1>4
    <2>2. spLock[c] = x
      BY <1>1, <1>2, <1>7, <2>1 DEF SpLockInv
    <2> QED
      BY <1>1, <1>7, <2>2 DEF SpLockInv
  <1>10. PICK n \in Nat : n = Len(spOut[c])
    BY <1>7
  <1>11. /\ n % 2 = 1 /\ (n + 1) % 2 # 1 /\ n >= 1 /\ (n <= 2 <=> n + 1 <= 2)
         /\ spOut[c][n].frame = t
    <2>1. n % 2 = 1 /\ spOut[c][n].frame = t
      BY <1>1, <1>2, <1>4, <1>10, Zenon DEF SpHalfInv
    <2> QED
      BY <2>1, SpEvens
  <1>12. ~SpInHas(c, t) /\ ~SpQueueHas(c, t) /\ ~SpOutHas(c, t)
    BY <1>1, <1>7 DEF SpApartInv
  <1>13. /\ \A d \in SpConn : \A a : SpOutHas(d, a)' <=> SpOutHas(d, a) \/ (d = c /\ a = t)
         /\ SpOutOnce'
    <2>1. Len(spOut[c]) % 2 = 1 /\ spOut[c][Len(spOut[c])].frame = h.frame /\ ~SpOutHas(c, h.frame)
      BY <1>8, <1>10, <1>11, <1>12
    <2>2. /\ \A d \in SpConn : \A a : SpOutHas(d, a)' <=> SpOutHas(d, a) \/ (d = c /\ a = h.frame)
          /\ SpOutOnce'
      BY <1>1, <1>5, <1>7, <1>8, <2>1, SpSecondHalf
    <2> QED
      BY <1>8, <2>2
  <1>14. /\ spOut' \in [SpConn -> Seq(SpHalf)]
         /\ \A d \in SpConn : d # c => spOut'[d] = spOut[d]
         /\ Len(spOut'[c]) = n + 1 /\ spOut'[c][n + 1] = h
         /\ \A k \in 1..n : spOut'[c][k] = spOut[c][k]
         /\ \A k \in 1..(n + 1) : k \in 1..n \/ k = n + 1
         /\ SpHalves'
    <2>1. h.part = 2 - ((Len(spOut[c]) + 1) % 2)
      <3>1. 2 - ((n + 1) % 2) = 2
        BY <1>11, SpParity
      <3> QED
        BY <1>8, <1>10, <3>1
    <2>2. h.part = 2 => spOut[c][Len(spOut[c])].frame = h.frame
      BY <1>8, <1>10, <1>11
    <2>3. SpTypeOK /\ SpHalfInv /\ c \in SpConn /\ h \in SpHalf
      BY <1>1, <1>7, <1>8
    <2>4. /\ spOut' \in [SpConn -> Seq(SpHalf)]
          /\ \A d \in SpConn : d # c => spOut'[d] = spOut[d]
          /\ Len(spOut'[c]) = Len(spOut[c]) + 1 /\ spOut'[c][Len(spOut[c]) + 1] = h
          /\ \A k \in 1..Len(spOut[c]) : spOut'[c][k] = spOut[c][k]
          /\ \A k \in 1..(Len(spOut[c]) + 1) : k \in 1..Len(spOut[c]) \/ k = Len(spOut[c]) + 1
          /\ SpHalves'
      BY <1>5, <2>1, <2>2, <2>3, SpPuts
    <2> QED
      BY <1>10, <2>4
  <1>15. /\ spWr' \in [SpThread -> SpWriter] /\ spWr'[x] = w
         /\ \A y \in SpThread : y # x => spWr'[y] = spWr[y]
         /\ \A d \in SpConn : \A a :
               SpWriterHas(d, a)' <=> \/ w.to = d /\ w.part < 2 /\ w.frame = a
                                      \/ /\ SpWriterHas(d, a)
                                         /\ ~(spWr[x].to = d /\ spWr[x].part < 2 /\ spWr[x].frame = a)
         /\ SpWriterOnce'
    <2>1. ~(w.part < 2)
      BY <1>8
    <2> QED
      BY <1>1, <1>6, <1>8, <2>1, SpWrites
  <1>16. \A d \in SpConn : \A a : SpWriterHas(d, a)' <=> SpWriterHas(d, a) /\ ~(d = c /\ a = t)
    <2>1. ~(w.part < 2) /\ spWr[x].part < 2
      BY <1>4, <1>8
    <2> QED
      BY <1>2, <1>7, <1>15, <2>1
  <1>17. SpTypeOK'
    BY <1>1, <1>4, <1>14, <1>15 DEF SpTypeOK
  <1>18. SpOwnInv'
    <2>1. \A d \in SpConn : SpAnswers(d)' = SpAnswers(d)
      BY <1>4, SpStill
    <2>2. SpWriterOwn'
      BY <1>1, <1>7, <1>8, <1>15, <2>1 DEF SpOwnInv, SpWriterOwn
    <2>3. SpOutOwn'
      <3>1. ASSUME NEW d \in SpConn, NEW k \in 1..Len(spOut'[d])
            PROVE  spOut'[d][k].frame \in SpAnswers(d)
        <4>1. CASE d # c
          BY <1>1, <1>14, <3>1, <4>1 DEF SpOwnInv, SpOutOwn
        <4>2. CASE d = c /\ k = n + 1
          BY <1>7, <1>8, <1>14, <4>2
        <4>3. CASE d = c /\ k \in 1..n
          <5>1. spOut[c][k].frame \in SpAnswers(c)
            BY <1>1, <1>7, <1>10, <4>3 DEF SpOwnInv, SpOutOwn
          <5> QED
            BY <1>14, <4>3, <5>1
        <4> QED
          BY <1>14, <3>1, <4>1, <4>2, <4>3
      <3> QED
        BY <2>1, <3>1 DEF SpOutOwn
    <2> QED
      BY <1>1, <1>4, <2>2, <2>3, SpStill DEF SpOwnInv
  <1>19. SpDistinctInv'
    BY <1>1, <1>4, <1>13, <1>15, SpStill DEF SpDistinctInv
  <1>20. SpApartInv'
    BY <1>1, <1>4, <1>12, <1>13, <1>16, SpStill DEF SpApartInv
  <1>21. SpLockInv'
    <2>1. \A y \in SpThread : spWr'[y].to = spWr[y].to /\ (spWr'[y].part > 0 <=> spWr[y].part > 0)
      <3>1. w.part > 0 /\ spWr[x].part > 0
        BY <1>4, <1>8
      <3> QED
        BY <1>2, <1>8, <1>15, <3>1
    <2> QED
      BY <1>1, <1>4, <2>1 DEF SpLockInv
  <1>22. SpHalfInv'
    <2>1. ASSUME NEW d \in SpConn, Len(spOut'[d]) % 2 = 1
          PROVE  \E y \in SpThread : spWr'[y].to = d /\ spWr'[y].part = 1
      <3>1. d # c
        BY <1>11, <1>14, <2>1
      <3>2. PICK y \in SpThread : spWr[y].to = d /\ spWr[y].part = 1
        BY <1>1, <1>14, <2>1, <3>1 DEF SpHalfInv
      <3> QED
        BY <1>2, <1>15, <3>1, <3>2
    <2>2. ASSUME NEW y \in SpThread, spWr'[y].part = 1
          PROVE  /\ Len(spOut'[spWr'[y].to]) % 2 = 1
                 /\ spOut'[spWr'[y].to][Len(spOut'[spWr'[y].to])].frame = spWr'[y].frame
      <3>1. y # x
        <4>1. w.part # 1
          BY <1>8
        <4> QED
          BY <1>15, <2>2, <4>1
      <3>2. spWr'[y] = spWr[y] /\ spWr[y].part = 1 /\ spWr[y].part > 0
        BY <1>15, <2>2, <3>1
      <3>3. spWr[y] # SpIdle
        BY <3>2 DEF SpIdle
      <3>4. spWr[y].to \in SpConn /\ spWr[y].to # c
        BY <1>1, <1>9, <3>1, <3>2, <3>3, SpInHand
      <3>5. spOut'[spWr[y].to] = spOut[spWr[y].to]
        BY <1>14, <3>4
      <3>6. /\ Len(spOut[spWr[y].to]) % 2 = 1
            /\ spOut[spWr[y].to][Len(spOut[spWr[y].to])].frame = spWr[y].frame
        BY <1>1, <3>2 DEF SpHalfInv
      <3>7. PICK e, o : e = spWr[y] /\ o = spOut[spWr[y].to]
        OBVIOUS
      <3>8. Len(o) % 2 = 1 /\ o[Len(o)].frame = e.frame
        BY <3>6, <3>7
      <3>9. spWr'[y] = e /\ spOut'[e.to] = o
        BY <3>2, <3>5, <3>7
      <3> QED
        BY <3>8, <3>9, Zenon
    <2> QED
      BY <1>14, <2>1, <2>2 DEF SpHalfInv
  <1>23. SpPhaseInv'
    <2> SUFFICES ASSUME NEW d \in SpConn PROVE SpPhase(d)'
      BY DEF SpPhaseInv
    <2>0. SpPhase(d)
      BY <1>1 DEF SpPhaseInv
    <2>1. CASE d = c
      <3>1. spPeer[d] # "new"
        BY <1>2, <2>0, <2>1 DEF SpPhase
      <3>2. n < 2 => spSent[d] = {}
        BY <1>10, <2>0, <2>1 DEF SpPhase
      <3>3. \A k \in 1..n : k <= 2 <=> spOut[d][k].frame = SpHello
        BY <1>10, <2>0, <2>1 DEF SpPhase
      <3>4. n + 1 <= 2 <=> t = SpHello
        <4>1. n \in 1..n
          BY <1>11
        <4> QED
          BY <1>11, <2>1, <3>3, <4>1
      <3>5. \A k \in 1..Len(spOut'[d]) : k <= 2 <=> spOut'[d][k].frame = SpHello
        BY <1>8, <1>14, <2>1, <3>3, <3>4
      <3>6. Len(spOut'[d]) < 2 => spSent[d] = {}
        BY <1>14, <2>1, <3>2
      <3> QED
        BY <1>4, <2>0, <3>1, <3>5, <3>6, SpStill DEF SpPhase
    <2>2. CASE d # c
      <3>1. spPeer[d] = "new" => \A y \in SpThread : spWr'[y].to # d
        BY <1>8, <1>15, <2>0, <2>2 DEF SpPhase
      <3>2. spOut'[d] = spOut[d]
        BY <1>14, <2>2
      <3> QED
        BY <1>4, <2>0, <3>1, <3>2, SpStill DEF SpPhase
    <2> QED
      BY <2>1, <2>2
  <1>24. SpIdInv'
    BY <1>1, <1>4, SpStill
  <1> QED
    BY <1>17, <1>18, <1>19, <1>20, <1>21, <1>22, <1>23, <1>24 DEF SpIndInv

-----------------------------------------------------------------------------
LEMMA SpInitInv ==
  ASSUME SpAssumption, SpInit
  PROVE  SpIndInv
  <1>1. /\ spBase \in SpIds
        /\ \A c \in SpConn : /\ spIn[c] = <<>> /\ spOpen[c] = "listening" /\ spPeer[c] = "new"
                             /\ spSent[c] = {} /\ spLock[c] = "free" /\ spOut[c] = <<>>
        /\ spQueue = <<>>
        /\ \A x \in SpThread : spWr[x] = SpIdle
    BY DEF SpInit
  <1>2. SpIdle.to = "none" /\ SpIdle.part = 0 /\ SpIdle \in SpWriter
    BY DEF SpIdle, SpWriter
  <1>3. "none" \notin SpConn /\ "free" \notin SpThread
    BY DEF SpAssumption, SpThread
  <1>4. SpTypeOK
    <2>1. spIn \in [SpConn -> Seq(SpFrame)] /\ spQueue \in Seq(SpJob) /\ spOut \in [SpConn -> Seq(SpHalf)]
      BY DEF SpInit
    <2>2. spWr \in [SpThread -> SpWriter]
      BY <1>2 DEF SpInit
    <2>3. /\ spOpen \in [SpConn -> {"listening", "open", "freed"}]
          /\ spPeer \in [SpConn -> {"new", "hello", "closing"}]
          /\ spSent \in [SpConn -> SUBSET SpPairs]
          /\ spLock \in [SpConn -> SpThread \cup {"free"}]
      BY DEF SpInit
    <2> QED
      BY <1>1, <2>1, <2>2, <2>3 DEF SpTypeOK
  <1>5. SpIdInv
    <2>1. SpAll = {}
      BY <1>1 DEF SpAll
    <2>2. IsFiniteSet(SpAll) /\ Cardinality(SpAll) = 0
      BY <2>1, FS_EmptySet
    <2> QED
      BY <2>1, <2>2 DEF SpIdInv, SpAssumption
  <1>6. SpOwnInv
    BY <1>1 DEF SpOwnInv, SpInOwn, SpQueueOwn, SpWriterOwn, SpOutOwn
  <1>7. \A c \in SpConn : SpWhole(c) = {}
    BY <1>1 DEF SpWhole
  <1>8. SpDistinctInv
    BY <1>1, <1>2, <1>7 DEF SpDistinctInv, SpInOnce, SpQueueOnce, SpWriterOnce, SpOutOnce
  <1>9. SpApartInv
    <2>1. \A c \in SpConn : \A t : ~SpInHas(c, t) /\ ~SpQueueHas(c, t) /\ ~SpWriterHas(c, t)
      BY <1>1, <1>2, <1>3 DEF SpInHas, SpQueueHas, SpWriterHas
    <2> QED
      BY <2>1 DEF SpApartInv
  <1>10. SpLockInv
    BY <1>1, <1>2, <1>3 DEF SpLockInv
  <1>11. SpHalfInv
    <2>1. \A x \in SpThread : spWr[x].part # 1
      BY <1>1, <1>2
    <2>2. \A c \in SpConn : Len(spOut[c]) = 0
      BY <1>1
    <2>3. 0 % 2 # 1
      OBVIOUS
    <2>4. \A c \in SpConn : ~(Len(spOut[c]) % 2 = 1)
      BY <2>2, <2>3
    <2>5. \A c \in SpConn : \A k \in 1..Len(spOut[c]) : FALSE
      BY <2>2
    <2>6. SpHalves
      BY <2>5, Zenon DEF SpHalves
    <2> QED
      BY <2>1, <2>4, <2>6, Zenon DEF SpHalfInv
  <1>12. SpPhaseInv
    BY <1>1, <1>2, <1>3 DEF SpPhaseInv, SpPhase
  <1> QED
    BY <1>4, <1>5, <1>6, <1>8, <1>9, <1>10, <1>11, <1>12 DEF SpIndInv

LEMMA SpIndStep ==
  ASSUME SpAssumption, SpIndInv, [SpNext]_spVars
  PROVE  SpIndInv'
  <1>1. ASSUME NEW c \in SpConn, SpConnect(c) \/ SpNotify(c) \/ SpBye(c, "DISCON") \/ SpBye(c, "EOF")
        PROVE  SpIndInv'
    BY <1>1, SpConnectStep, SpNotifyStep, SpByeStep
  <1>2. ASSUME NEW x \in SpThread, SpLock(x) \/ SpWriteRest(x) \/ SpUnlock(x)
        PROVE  SpIndInv'
    BY <1>2, SpLockStep, SpWriteRestStep, SpUnlockStep
  <1>3. ASSUME UNCHANGED spVars
        PROVE  SpIndInv'
    <2>1. /\ spBase' = spBase /\ spIn' = spIn /\ spOpen' = spOpen /\ spPeer' = spPeer /\ spSent' = spSent
          /\ spQueue' = spQueue /\ spWr' = spWr /\ spLock' = spLock /\ spOut' = spOut
      BY <1>3 DEF spVars
    <2>2. SpTypeOK' /\ SpIdInv' /\ SpOwnInv' /\ SpDistinctInv' /\ SpLockInv' /\ SpHalfInv'
      BY <2>1, SpStill DEF SpIndInv, SpTypeOK, SpOwnInv, SpDistinctInv
    <2>3. SpApartInv'
      BY <2>1, SpStill DEF SpIndInv, SpApartInv
    <2>4. SpPhaseInv'
      BY <2>1, SpStill DEF SpIndInv, SpPhaseInv, SpPhase
    <2> QED
      BY <2>2, <2>3, <2>4 DEF SpIndInv
  <1> QED
    BY <1>1, <1>2, <1>3, SpReadStep, SpWorkStep DEF SpNext, SpServe

LEMMA SpIndFrames ==
  ASSUME SpAssumption, SpIndInv
  PROVE  SpFrames
  <1>1. SpTypeOK /\ SpOwnInv /\ SpDistinctInv /\ SpHalfInv /\ SpPhaseInv
    BY DEF SpIndInv
  <1>2. SpAcksMatch
    <2>1. ASSUME NEW c \in SpConn, NEW k \in 1..Len(spOut[c])
          PROVE  /\ spOut[c][k].part = 2 - (k % 2)
                 /\ spOut[c][k].part = 2 => spOut[c][k - 1].frame = spOut[c][k].frame
                 /\ IF k <= 2 THEN spOut[c][k].frame = SpHello
                    ELSE spOut[c][k].frame \in {SpWire(y) : y \in spSent[c]}
      <3>1. /\ spOut[c][k].part = 2 - (k % 2)
            /\ k % 2 = 0 => spOut[c][k - 1].frame = spOut[c][k].frame
        BY <1>1 DEF SpHalfInv, SpHalves
      <3>2. 2 - (k % 2) = 2 => k % 2 = 0
        <4>1. k \in Nat
          BY LenProperties
        <4> QED
          BY <4>1
      <3>3. k <= 2 <=> spOut[c][k].frame = SpHello
        BY <1>1 DEF SpPhaseInv, SpPhase
      <3>4. spOut[c][k].frame \in SpAnswers(c)
        BY <1>1 DEF SpOwnInv, SpOutOwn
      <3> QED
        BY <3>1, <3>2, <3>3, <3>4 DEF SpAnswers
    <2>2. \A c \in SpConn : \A i, j \in SpWhole(c) : spOut[c][i].frame = spOut[c][j].frame => i = j
      BY <1>1 DEF SpDistinctInv, SpOutOnce
    <2> QED
      BY <2>1, <2>2 DEF SpAcksMatch, SpHello
  <1> QED
    BY <1>2 DEF SpFrames

\* Every connection of spoa_agent.c gets whole frames: the agent's hello, then
\* for each NOTIFY at most one ACK with its two ids and no other, however many
\* connections and workers there are.  It says nothing of the memory of a
\* connection that the peer has left: the model takes no account of free().
THEOREM SpCorrect == SpSpec => []SpFrames
  <1>1. SpInit => SpIndInv
    BY SpInitInv, SpAssumption
  <1>2. SpIndInv /\ [SpNext]_spVars => SpIndInv'
    BY SpIndStep, SpAssumption
  <1>3. SpIndInv => SpFrames
    BY SpIndFrames, SpAssumption
  <1> QED
    BY <1>1, <1>2, <1>3, PTL DEF SpSpec
=============================================================================
