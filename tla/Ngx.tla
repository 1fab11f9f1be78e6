--------------------------------- MODULE Ngx ---------------------------------
(***************************************************************************)
(* apps/ngx_accel/ngx_http_accel_module.c: an nginx content handler that   *)
(* posts the offload to the thread pool and finishes the request in the    *)
(* completion event.  The request's reference count and its blocked count  *)
(* keep it alive in between; ngx_http_finalize_request() and the thread    *)
(* pool are nginx's own and modelled from how the module uses them.        *)
(***************************************************************************)
EXTENDS Integers, FiniteSets

CONSTANTS
    NgReq,      \* requests
    NgThreads,  \* threads of the pool "default"
    NgQueue     \* max_queue of the pool

ASSUME NgAssumption ==
    NgThreads \in Nat \ {0} /\ NgQueue \in Nat \ {0} /\ "poll" \notin NgReq

VARIABLES
    ngLoop,     \* the request whose handler runs on the event loop, or "poll"
    ngPc,       \* where that handler is
    ngR,        \* each request: location, state, count, blocked, replies
    ngTask,     \* where the request's task is: none, posted, running, notified
    ngUaf       \* a freed request was touched

ngVars == <<ngLoop, ngPc, ngR, ngTask, ngUaf>>

\* accel_sync and accel_async give a location its handler.
NgInit ==
    /\ ngLoop = "poll" /\ ngPc = "none" /\ ngUaf = FALSE
    /\ ngR \in [NgReq -> {[loc |-> l, st |-> "new", count |-> 1, blocked |-> 0, error |-> FALSE, replies |-> 0] :
                              l \in {"sync", "async"}}]
    /\ ngTask = [r \in NgReq |-> "none"]

NgTouch(r) == ngUaf' = (ngUaf \/ ngR[r].st = "freed")
NgToLoop == ngLoop' = "poll" /\ ngPc' = "none"

\* ngx_http_close_request(): drop one reference; free when none is left.
NgClose(q) ==
    LET n == q.count - 1
    IN  [q EXCEPT !.count = n, !.st = IF n = 0 /\ q.blocked = 0 THEN "freed" ELSE @]

\* ngx_http_finalize_request() with an error: terminate unless blocked.
NgTerminate(q) ==
    IF q.blocked > 0 THEN [q EXCEPT !.error = TRUE]
    ELSE [q EXCEPT !.error = TRUE, !.count = 0, !.st = "freed"]

\* accel_send_ok() and the finalization with its result.
NgSendOk(q) ==
    IF q.error THEN NgTerminate(q) ELSE NgClose([q EXCEPT !.replies = @ + 1])

-----------------------------------------------------------------------------
\* nginx calls the content handler; discarding the body may fail.
NgHandle(r) ==
    /\ ngLoop = "poll" /\ ngR[r].st = "new"
    /\ ngR' = [ngR EXCEPT ![r].st = "active"]
    /\ ngLoop' = r
    /\ ngPc' \in {"discard_failed", ngR[r].loc}
    /\ UNCHANGED <<ngTask, ngUaf>>

NgDiscardFails(r) ==
    /\ ngLoop = r /\ ngPc = "discard_failed"
    /\ ngR' = [ngR EXCEPT ![r] = NgTerminate(ngR[r])]
    /\ NgToLoop
    /\ UNCHANGED <<ngTask, ngUaf>>

\* accel_sync_handler(): the offload runs here, then the reply.
NgSync(r) ==
    /\ ngLoop = r /\ ngPc = "sync"
    /\ ngR' = [ngR EXCEPT ![r] = NgSendOk(ngR[r])]
    /\ NgToLoop /\ NgTouch(r)
    /\ UNCHANGED ngTask

\* accel_async_handler(): post the task (error 500 when the pool is full) ...
NgPost(r) ==
    /\ ngLoop = r /\ ngPc = "async"
    /\ IF Cardinality({x \in NgReq : ngTask[x] = "posted"}) < NgQueue
       THEN /\ ngTask' = [ngTask EXCEPT ![r] = "posted"]
            /\ ngPc' = "hold" /\ UNCHANGED <<ngLoop, ngR>>
       ELSE /\ ngR' = [ngR EXCEPT ![r] = NgClose([ngR[r] EXCEPT !.replies = @ + 1])]
            /\ NgToLoop /\ UNCHANGED ngTask
    /\ UNCHANGED ngUaf

\* Mutant: blocked is not raised.
NgHoldNotBlocked(r) ==
    /\ ngLoop = r /\ ngPc = "hold"
    /\ ngR' = [ngR EXCEPT ![r] = NgClose([ngR[r] EXCEPT !.count = @ + 1])]
    /\ NgToLoop /\ UNCHANGED <<ngTask, ngUaf>>

\* ... then hold the request and return NGX_DONE, which drops one reference.
\* The pool may run the task before the holds are taken.
NgHold(r) ==
    /\ ngLoop = r /\ ngPc = "hold"
    /\ ngR' = [ngR EXCEPT ![r] = NgClose([ngR[r] EXCEPT !.blocked = @ + 1, !.count = @ + 1])]
    /\ NgToLoop /\ UNCHANGED <<ngTask, ngUaf>>

\* A pool thread starts accel_thread_func() and later notifies the loop.
NgRun(r) ==
    /\ ngTask[r] = "posted"
    /\ Cardinality({x \in NgReq : ngTask[x] = "running"}) < NgThreads
    /\ ngTask' = [ngTask EXCEPT ![r] = "running"]
    /\ NgTouch(r) /\ UNCHANGED <<ngLoop, ngPc, ngR>>

NgRan(r) ==
    /\ ngTask[r] = "running"
    /\ ngTask' = [ngTask EXCEPT ![r] = "notified"]
    /\ NgTouch(r) /\ UNCHANGED <<ngLoop, ngPc, ngR>>

\* Mutant: the completion does not finalize the request.
NgCompletionNoFinalize(r) ==
    /\ ngLoop = "poll" /\ ngTask[r] = "notified"
    /\ ngTask' = [ngTask EXCEPT ![r] = "none"]
    /\ ngR' = [ngR EXCEPT ![r].blocked = @ - 1]
    /\ NgTouch(r) /\ UNCHANGED <<ngLoop, ngPc>>

\* accel_thread_completion(), an event of the loop.
NgCompletion(r) ==
    /\ ngLoop = "poll" /\ ngTask[r] = "notified"
    /\ ngTask' = [ngTask EXCEPT ![r] = "none"]
    /\ ngR' = [ngR EXCEPT ![r] = NgSendOk([ngR[r] EXCEPT !.blocked = @ - 1])]
    /\ NgTouch(r) /\ UNCHANGED <<ngLoop, ngPc>>

\* The client aborts while the request is being processed.
NgAbort(r) ==
    /\ ngLoop = "poll" /\ ngR[r].st = "active" /\ ~ngR[r].error
    /\ ngR' = [ngR EXCEPT ![r] = NgTerminate(ngR[r])]
    /\ UNCHANGED <<ngLoop, ngPc, ngTask, ngUaf>>

NgServe ==
    \E r \in NgReq : \/ NgHandle(r) \/ NgDiscardFails(r) \/ NgSync(r) \/ NgPost(r) \/ NgHold(r)
                     \/ NgRun(r) \/ NgRan(r) \/ NgCompletion(r)

NgNext == NgServe \/ \E r \in NgReq : NgAbort(r)

NgSpec == NgInit /\ [][NgNext]_ngVars

-----------------------------------------------------------------------------
\* Neither the pool nor the completion event touches a request that nginx has
\* freed, although the client may abort at any time.
NgNoUseAfterFree == ~ngUaf

\* The references are balanced: a live request keeps at least one, a freed one
\* has none, is not blocked and was answered at most once.
NgBalanced ==
    \A r \in NgReq :
        LET q == ngR[r]
        IN  IF q.st = "freed" THEN q.count = 0 /\ q.blocked = 0 /\ q.replies <= 1
                              ELSE q.count \in 1..2 /\ q.blocked \in 0..1

\* Every request that arrives is eventually freed: no hold is leaked.
NgFreed == \A r \in NgReq : []<>(ngR[r].st \in {"new", "freed"})

\* The module's use of count and blocked keeps a request exactly as long as
\* somebody needs it.
NgReferences == NgNoUseAfterFree /\ NgBalanced
=============================================================================
