----------------------------- MODULE SharedState -----------------------------
(***************************************************************************)
(* What interleaved handlers do to shared state, as the experiments of     *)
(* conflict-measurement measure it: the patterns of pattern_taxonomy.c     *)
(* (counter, batch queue, cache, each with and without the mutex; the      *)
(* others touch no shared word), the statistics of zlib_harness.c, and the *)
(* paged KV-cache allocator of inference_skel.c.  A handler is a thread;   *)
(* every load and store of a shared word is a step of its own.             *)
(***************************************************************************)
EXTENDS Naturals, FiniteSets

CONSTANTS
    ShThread,    \* handlers
    ShIters,     \* ITERS
    ShQN,        \* QN, entries of the ring
    ShNBLOCK,    \* NBLOCK of the allocator
    ShBlocks,    \* NREQ_BLOCKS
    ShBare       \* patterns that are also run without the mutex

\* The strings stand for a free mutex and for a block without an owner.
ASSUME ShAssumption ==
    /\ {ShIters, ShQN, ShNBLOCK, ShBlocks} \subseteq Nat \ {0}
    /\ IsFiniteSet(ShThread) /\ "free" \notin ShThread /\ "nobody" \notin ShThread

VARIABLES
    shPat, shLocked,   \* the pattern; whether it takes the mutex
    shMtx,       \* holder of the mutex, or "free"
    shT,         \* each handler: iterations done, place, position, register, blocks
    shCell,      \* shared words: counter, in, out, count, head, tail, top
    shRing,      \* q_buf: the push that each entry holds
    shEnt,       \* the hot cache entry: who wrote key and val
    shList, shOwner,   \* free_list, block_owner
    shDouble     \* g_double_alloc

shVars == <<shPat, shLocked, shMtx, shT, shCell, shRing, shEnt, shList, shOwner, shDouble>>

ShPatterns == {"counter", "stats", "queue", "cache", "kv"}
ShCells == {"counter", "in", "out", "count", "head", "tail", "top"}
ShNobody == "nobody"
ShNoPush == <<ShNobody, 0>>

ShInit ==
    /\ shPat \in ShPatterns /\ shLocked \in {TRUE} \cup (IF shPat \in ShBare THEN {FALSE} ELSE {})
    /\ shMtx = "free"
    /\ shT = [t \in ShThread |-> [it |-> 0, at |-> "post", k |-> 1, reg |-> 0, mine |-> [b \in 1..ShBlocks |-> 0]]]
    /\ shCell = [c \in ShCells |-> IF c = "top" THEN ShNBLOCK ELSE 0]
    /\ shRing = [i \in 0..(ShQN - 1) |-> ShNoPush]
    /\ shEnt = [key |-> ShNoPush, val |-> ShNoPush]
    /\ shList = [i \in 0..(ShNBLOCK - 1) |-> i + 1] /\ shOwner = [b \in 1..ShNBLOCK |-> ShNobody]
    /\ shDouble = FALSE

\* The words that the pattern adds to, in the order of its statements.
ShWords ==
    CASE shPat = "counter" -> <<"counter">>
      [] shPat = "stats"   -> <<"in", "out", "count">>
      [] OTHER             -> <<"head">>

ShAt(t, l) == shT[t].at = l
ShGoto(t, l) == shT' = [shT EXCEPT ![t].at = l, ![t].k = 1]
ShPush(t) == <<t, shT[t].it>>

-----------------------------------------------------------------------------
\* lk(), or pthread_mutex_lock() of the pattern.
ShLock(t, l, next) ==
    /\ ShAt(t, l) /\ shT[t].it < ShIters
    /\ shLocked => shMtx = "free"
    /\ shMtx' = IF shLocked THEN t ELSE shMtx
    /\ ShGoto(t, next)
    /\ UNCHANGED <<shPat, shLocked, shCell, shRing, shEnt, shList, shOwner, shDouble>>

\* ul(); "post" as the next place begins the next iteration.
ShUnlock(t, l, next) ==
    /\ ShAt(t, l)
    /\ shMtx' = IF shLocked THEN "free" ELSE shMtx
    /\ shT' = [shT EXCEPT ![t].at = next, ![t].k = 1, ![t].it = IF next = "post" THEN @ + 1 ELSE @]
    /\ UNCHANGED <<shPat, shLocked, shCell, shRing, shEnt, shList, shOwner, shDouble>>

\* The load of "x += r"; a queue also stores the element at q_head % QN.
ShLoad(t) ==
    /\ ShAt(t, "load")
    /\ shT' = [shT EXCEPT ![t].at = "store", ![t].reg = shCell[ShWords[shT[t].k]]]
    /\ shRing' = IF shPat \in {"queue", "kv"} THEN [shRing EXCEPT ![shCell["head"] % ShQN] = ShPush(t)] ELSE shRing
    /\ UNCHANGED <<shPat, shLocked, shMtx, shCell, shEnt, shList, shOwner, shDouble>>

\* The store; then the next word, or what follows in the pattern.
ShStore(t) ==
    LET k == shT[t].k
        last == ShWords[k] \in {"counter", "count", "head"}
    IN  /\ ShAt(t, "store")
        /\ shCell' = [shCell EXCEPT ![ShWords[k]] = shT[t].reg + 1]
        /\ shT' = [shT EXCEPT ![t].at = CASE ~last -> "load"
                                          [] shPat = "queue" -> "tail"
                                          [] shPat = "kv" -> "queued"
                                          [] OTHER -> "end",
                              ![t].k = k + 1]
        /\ UNCHANGED <<shPat, shLocked, shMtx, shRing, shEnt, shList, shOwner, shDouble>>

\* When q_tail advances: the push of a full ring, or the end of a request.
ShTailMoves ==
    IF shPat = "queue" THEN shCell["head"] > shCell["tail"] + ShQN ELSE shCell["tail"] < shCell["head"]

\* if(...) q_tail++: test and load, then store.
ShTail(t) ==
    /\ UNCHANGED <<shPat, shLocked, shMtx, shRing, shEnt, shList, shOwner, shDouble>>
    /\ \/ /\ ShAt(t, "tail") /\ shCell' = shCell
          /\ shT' = [shT EXCEPT ![t].at = IF ShTailMoves THEN "moved" ELSE "end", ![t].reg = shCell["tail"]]
       \/ /\ ShAt(t, "moved") /\ shCell' = [shCell EXCEPT !["tail"] = shT[t].reg + 1]
          /\ ShGoto(t, "end")

\* cache[b].key=r; cache[b].val=r^id: two stores.
ShCache(t) ==
    /\ UNCHANGED <<shPat, shLocked, shMtx, shCell, shRing, shList, shOwner, shDouble>>
    /\ \/ ShAt(t, "load") /\ shEnt' = [shEnt EXCEPT !.key = ShPush(t)] /\ ShGoto(t, "val")
       \/ ShAt(t, "val") /\ shEnt' = [shEnt EXCEPT !.val = ShPush(t)] /\ ShGoto(t, "end")

-----------------------------------------------------------------------------
(* handler() of inference_skel.c, after it has queued its request *)

\* if(free_top>0) blk=free_list[--free_top]: load, then decrement and read.
ShPop(t) ==
    /\ ShAt(t, "alloc") /\ shT' = [shT EXCEPT ![t].at = "popped", ![t].reg = shCell["top"]]
    /\ UNCHANGED <<shPat, shLocked, shMtx, shCell, shRing, shEnt, shList, shOwner, shDouble>>

\* The place after block k of a loop over the request's blocks.
ShNextBlock(t, loop, next) == IF shT[t].k = ShBlocks THEN next ELSE loop

\* Mutant: a block that could not be had keeps its old number in mine[].
ShTakeStale(t) ==
    LET k == shT[t].k
        blk == shList[shT[t].reg - 1]
    IN  /\ ShAt(t, "popped")
        /\ IF shT[t].reg = 0
           THEN UNCHANGED <<shCell, shOwner, shDouble>>
           ELSE /\ shCell' = [shCell EXCEPT !["top"] = shT[t].reg - 1]
                /\ shDouble' = (shDouble \/ shOwner[blk] # ShNobody)
                /\ shOwner' = [shOwner EXCEPT ![blk] = t]
        /\ shT' = [shT EXCEPT ![t].at = ShNextBlock(t, "alloc", "have"), ![t].k = IF k = ShBlocks THEN 1 ELSE k + 1,
                              ![t].mine[k] = IF shT[t].reg = 0 THEN @ ELSE blk]
        /\ UNCHANGED <<shPat, shLocked, shMtx, shRing, shEnt, shList>>

\* mine[b]=blk, the check of block_owner and its store; 0 stands for -1.
ShTake(t) ==
    LET k == shT[t].k
        blk == shList[shT[t].reg - 1]
    IN  /\ ShAt(t, "popped")
        /\ IF shT[t].reg = 0
           THEN UNCHANGED <<shCell, shOwner, shDouble>>
           ELSE /\ shCell' = [shCell EXCEPT !["top"] = shT[t].reg - 1]
                /\ shDouble' = (shDouble \/ shOwner[blk] # ShNobody)
                /\ shOwner' = [shOwner EXCEPT ![blk] = t]
        /\ shT' = [shT EXCEPT ![t].at = ShNextBlock(t, "alloc", "have"), ![t].k = IF k = ShBlocks THEN 1 ELSE k + 1,
                              ![t].mine[k] = IF shT[t].reg = 0 THEN 0 ELSE blk]
        /\ UNCHANGED <<shPat, shLocked, shMtx, shRing, shEnt, shList>>

\* block_owner[blk]=-1; free_list[free_top++]=blk: the load and the stores.
\* Unlocked handlers may raise free_top past the array, where the model stops.
ShFree(t) ==
    LET k == shT[t].k
        blk == shT[t].mine[k]
        over == [shT EXCEPT ![t].at = ShNextBlock(t, "free", "tail"), ![t].k = IF k = ShBlocks THEN 1 ELSE k + 1]
    IN  /\ UNCHANGED <<shPat, shLocked, shMtx, shRing, shEnt, shDouble>>
        /\ \/ /\ ShAt(t, "free") /\ blk = 0
              /\ shT' = over /\ UNCHANGED <<shCell, shList, shOwner>>
           \/ /\ ShAt(t, "free") /\ blk # 0
              /\ shOwner' = [shOwner EXCEPT ![blk] = ShNobody]
              /\ shT' = [shT EXCEPT ![t].at = "freed", ![t].reg = shCell["top"]]
              /\ UNCHANGED <<shCell, shList>>
           \/ /\ ShAt(t, "freed") /\ shT[t].reg < ShNBLOCK
              /\ shList' = [shList EXCEPT ![shT[t].reg] = blk]
              /\ shCell' = [shCell EXCEPT !["top"] = shT[t].reg + 1]
              /\ shT' = over /\ shOwner' = shOwner

\* The sections of handler() and the offload between them.
ShKv(t) ==
    \/ ShUnlock(t, "queued", "prefill") \/ ShLock(t, "prefill", "alloc")
    \/ ShPop(t) \/ ShTake(t)
    \/ ShUnlock(t, "have", "offload") \/ ShLock(t, "offload", "free")
    \/ ShFree(t) \/ ShTail(t)

\* postprocess() or handle(): one section around the pattern.
ShWorker(t) ==
    \/ ShLock(t, "post", "load") \/ ShUnlock(t, "end", "post")
    \/ shPat # "cache" /\ (ShLoad(t) \/ ShStore(t))
    \/ shPat = "queue" /\ ShTail(t)
    \/ shPat = "cache" /\ ShCache(t)
    \/ shPat = "kv" /\ ShKv(t)

ShNext == \E t \in ShThread : ShWorker(t)

ShSpec == ShInit /\ [][ShNext]_shVars

-----------------------------------------------------------------------------
ShDone == \A t \in ShThread : shT[t].it = ShIters
ShTotal == Cardinality(ShThread) * ShIters

\* The locked variants have no conflict: at the end every update has counted,
\* the statistics agree, the ring holds the last QN pushes, each of them once,
\* and a cache entry's key and value come from one handler.
ShNothingLost ==
    shLocked /\ ShDone =>
        /\ shPat = "counter" => shCell["counter"] = ShTotal
        /\ shPat = "stats" => \A c \in {"in", "out", "count"} : shCell[c] = ShTotal
        /\ shPat \in {"queue", "kv"} => shCell["head"] = ShTotal
        /\ shPat = "queue" => Cardinality({shRing[i] : i \in DOMAIN shRing} \ {ShNoPush})
                                = IF ShTotal < ShQN THEN ShTotal ELSE ShQN
        /\ shPat = "queue" => shCell["head"] - shCell["tail"] <= ShQN
        /\ shPat = "cache" => shEnt.key = shEnt.val

\* double_alloc=0, blocks_leaked=0, blocks_still_owned=0 when LOCKED: whenever
\* the mutex is free the blocks are either on the free list, once, or owned by
\* the handler that has them, also when the list ran empty.
ShKvIntact ==
    shLocked /\ shPat = "kv" =>
        /\ ~shDouble
        /\ shMtx = "free" =>
             LET listed == {shList[i] : i \in 0..(shCell["top"] - 1)}
             IN  /\ Cardinality(listed) = shCell["top"]
                 /\ listed = {b \in 1..ShNBLOCK : shOwner[b] = ShNobody}
                 /\ \A t \in ShThread, k \in 1..ShBlocks :
                        ShAt(t, "offload") /\ shT[t].mine[k] # 0 => shOwner[shT[t].mine[k]] = t
        /\ ShDone => shCell["top"] = ShNBLOCK

\* The measured structures are sound under their mutex.
ShLockedIntact == ShNothingLost /\ ShKvIntact
=============================================================================
