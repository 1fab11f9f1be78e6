# Verification of the transparent-offload runtime

TLA+ models of the fiber runtime that turns an unmodified thread-per-connection
server into overlapped coroutines, of its conflict detection and enforcement, of the
accelerator libraries, of the server integrations, and of the prototypes, benchmark
servers and measurement programs beside it; TLC configurations that check them; and
TLAPS proofs of the results that should hold for every number of connections.

Paths below are relative to `src/`; `LT` is `transparent-runtime/libtransparent.c`.

## 1. The system

| Component | State | Operations | Talks to |
|---|---|---|---|
| Carrier scheduler and blocking I/O (`LT`) | `newq`, `fibs`, `struct fiber` (state, fd, deadline, flags), epoll set, `cur_fib` | `pthread_create`, carrier loop (intake, epoll, completions, wake ring, deadlines, run pass), `read`/`write`/`recv`/`send`, `poll`, `accel_encrypt`, end of a fiber | accepting thread through `newq`; kernel through epoll; accelerator through submit/done/release |
| Mutex and condition variables (`LT`) | `waitcond`, `timed_out`, `pend_ring`, `pend_head`, `pend_tail` | lock/trylock/unlock, `cond_wait`/`timedwait`/`clockwait`, `signal`/`broadcast`, `wake_fibers` | carrier; real threads of the server |
| Handler lock (`LT`) | `hlock_owner`, `g_enforce` | `hl_acquire` in `read`, `hl_release` in `write` | detector (`det_conflicts`) |
| Conflict detector (`transparent-runtime/detector.c`) | `gclk`, `pver`, `park_clk`, page protection, `det_conflicts` | `det_park`, `det_reprotect`, SIGSEGV handler | carrier (at dispatch and park), handler lock |
| Speculate-or-serialize prototype (`runtime/conflict_detector.c`) | cache of values and versions, key locks, coroutines, slots | `body` in four modes, scheduler `run`, device | - |
| Emulated accelerator (`transparent-runtime/libaccel.c`) | slot ring, `sub_head` | submit, done, release, device thread | runtime, servers |
| Demo servers (`conn_server.c`, `hostile_server.c`, `barrier_server.c`, ...) | application counters | request loops | everything above through the interposed calls |
| Per-fiber thread state (`LT`, `conflict-measurement/coop_err.c`) | errno, OpenSSL queue, `tls[]` | `tls_save`/`tls_restore`, `set`/`getspecific` | every yield |
| Rwlocks (`LT`) | the real lock | try-and-yield, unlock | carrier, real threads |
| Fork handling (`LT`) | the runtime's globals in each process | `init`, `atfork_child` | accelerator's device thread |
| Deadlines (`LT`) | `deadline` | `to_realtime`, `yield_io_to`, the carrier's comparison | clocks |
| GPU accelerators (`libaccel_gpu.cu`, `libaccel_gpu_heavy.cu`, `gpu/aes_gpu.cu`) | slots with stream, event and buffers; key schedule | submit, done; AES-CTR kernel | CUDA |
| Remote accelerator (`libaccel_remote.c`, `remote_hsm.c`) | a socket per thread | connect, request, retry; the signer's connections | network, a signer that may crash |
| Redis modules (`apps/redis/*.c`) | ring of jobs, per-key gates, counters | commands, workers, reply callbacks, reset | Redis' event loop and blocked clients |
| nginx module, HAProxy agent (`apps/ngx_accel`, `apps/haproxy_accel`) | request counts; connections, job ring, write locks | handlers, thread pool, completion; frames and ACKs | nginx core; HAProxy |
| Benchmark servers (`runtime/tco_server*.c*`, `openloop.c`, `accel_compare.c`, `gpu_runtime*.cu`) | connections, slots, rings, fibers | schedulers, device threads, clients, timers | sockets, CUDA |
| Measurement harnesses (`conflict-measurement/*.c`) | counters, ring, cache, block allocator, session cache | handlers with and without the mutex; shutdown | - |
| Context switch (`runtime/fw_fiber.c`, `fw_switch.S`) | stacks, saved `sp` | make, switch, trampoline, return, free | every scheduler above |
| Other integrations, static shims, site, paper | | thin call-outs, presentation | |

What is hard: the carrier interleaves with the accepting thread, the device, real
threads and socket peers; one-shot epoll registrations carry raw fiber pointers; a
timeout races with readiness; a read-modify-write spans a yield; signals from real
threads cross a lock-free ring; locks are polled on a single thread; and tables
are finite while connections come and go. `PROJECT.json` lists each hazard at its line.

What makes each component correct:

* carrier: no stale or lost wake-up, no lost fiber, no buffer shared with the
  device, and - all in all - indistinguishable from blocking threads;
* synchronisation: exclusion, no lost signal, the mutex is free during a wait;
* handler lock and detector: no lost update when serialized, none unnoticed when
  not, no alarm for handlers that the lock serializes, and every request answered;
* prototype: every commit is an atomic increment, a fallback is exactly a
  conflict, and the program ends;
* accelerators: each request is transformed once, in its caller's buffer, and by no
  device after the caller has it back; the AES kernel is FIPS-197's;
* integrations: each request has one answer, its own; no nginx request is used after it
  is freed; a sleeping worker is woken; a lost connection costs what the code accepts;
* schedulers of the benchmarks: a fiber is parked exactly while its slot is in use,
  an offload is done exactly once before its connection goes on, what is done is reported
  once, nothing is served twice, rounds end;
* per-fiber state: after a yield that saves it a fiber has the errno of that very yield,
  and after every yield its own keys;
* context switch: a switch is a call that returns, with everything it saved.

## 2. Modules

| Module | Models |
|---|---|
| `BlockingThreads` | Abstract: a server with one blocking thread per connection. |
| `Carrier` | The carrier, the I/O calls, the accelerator's requests and the accepting thread; refines `BlockingThreads`. |
| `CarrierFits` | `Carrier` with the assumption that at most `MAXFIB` connections are accepted. |
| `FiberSync` | Mutex and condition variables for fibers and real threads, `pend_ring`, deadlines; the application is a producer/consumer monitor in the manner of `barrier_server.c`. |
| `HandlerLock` | `detector.c`, the handler lock, and `hostile_server.c` on top. |
| `Counters` | Abstract: counters with atomic increments. |
| `SpecSerialize` | `runtime/conflict_detector.c`; refines `Counters`. |
| `RwLock` | Reader-writer locks of fibers and OS threads, held across an offload. |
| `FiberTls` | errno, OpenSSL queue and keys at every kind of yield; `coop_err.c`'s modes. |
| `ForkChild` | `init`, `fork`, `atfork_child`, connections in both processes. |
| `Deadline` | Time-outs on another clock and `poll`'s milliseconds against `CLOCK_REALTIME`. |
| `AccelSlots` | The slot rings of `libaccel.c` and of the two GPU libraries. |
| `AesGpu` | Key schedule and AES-CTR kernel, byte by byte, against FIPS-197. |
| `RemoteAccel` | The remote accelerator's client and the signer, with crashes. |
| `RedisDet`, `RedisPool` | The Redis modules with gates, and with the plain pool. |
| `Ngx`, `Spoa` | The nginx module; the HAProxy agent with its integer coding. |
| `TcoServer`, `OpenLoop`, `OffloadBench` | The benchmark servers, coroutine and blocking, emulated and GPU. |
| `FiberContext` | Stacks and registers across `fw_ctx_swap`, x86_64 and aarch64. |
| `SharedState`, `SessSocket` | The measurement harnesses' patterns and their shutdown. |
| `DetectorTest` | The stand-alone detector with page versions. |
| `CarrierProofs`, `HandlerLockProofs`, `DeadlineProofs`, `FiberSyncProofs` | TLAPS proofs of the module they are named after. |
| `SpecSerializeProofs` | Proofs about `SpecSerialize` and `SharedState`. |
| `RuntimeProofs` | Proofs about `RwLock`, `DetectorTest`, `FiberTls`, `FiberContext`. |
| `ServerProofs` | Proofs about `Ngx`, `RemoteAccel`, `OffloadBench`, `RedisDet`, `Spoa`. |
| `RingProofs` | Proofs about `RedisPool`, `AccelSlots`, `OpenLoop`, `TcoServer`. |
| `MCParts` | The components around the runtime, side by side. |
| `MCLocks` | `FiberSync` and `HandlerLock`, side by side. |
| `MCLive` | The carrier and the components with a liveness property, side by side. |
| other `MC*` | Instances for TLC. |

The map in `PROJECT.json` gives the source lines of every definition. Operators
called "Mutant:" in their comment are plausible bugs of the definition that follows
them; no specification uses them. They show that each property can fail.

### Carrier

The variables are the fields of `struct fiber` and the globals of `LT`; `call` is
the interposed call a fiber is inside of, `reg` the armed epoll registrations
(`data.ptr` per descriptor), `avail` the kernel's readiness, `dev` the accelerator's
view of a fiber's request, `expired` the deadlines that the clock has passed. The
carrier's loop is one action per scan (`Intake`, `EpollWait`, `CompleteScan`,
`DeadlineScan`) and one per slot of the run pass (`Dispatch`, `Skip`, `EndPass`).
That is atomic enough: only the carrier thread touches fiber states, and intake
holds `qmx`; readiness or completion that arrives during a scan is as if it arrived
before or after it. The calls of the running fiber are `IoNow`/`IoPark`, `PollPark`,
`Offload`, `Finish` with the resumptions `IoReturn`/`IoRetry`, `PollReturn`,
`OffReturn`. With `Exclusive` each handler uses the socket of its connection only
(what the demo servers do); without it any fiber may wait on any descriptor.
A buffer's bytes are not modelled: a transfer leaves the descriptor ready or drains it.

### FiberSync

One mutex and one condition variable. `Lock` is the poll of `pthread_mutex_trylock`
with `yield_run`, `Wait` is `fiber_cond_wait` (record, unlock, park; after the wake
the fiber locks again), `Signal` wakes fibers at once, while a real thread claims a
`pend_ring` index (`TClaim`) and stores into it (`TStore`) in two steps, as the code
does. `Drain` and `DeadlineScan` are the carrier's side. `Recursive` makes the mutex a
recursive one: glibc identifies the owner by thread id, which all fibers share (`Tid`).

### HandlerLock

Handlers run the loop of `hostile_server.c`: read, load the counter, offload, store,
reply; `LOCKED` adds the application's mutex. The switches are chosen at start-up
(`det_on`, `g_enforce`, `LOCKED`). The counter, the ground truth and
the mutex are neighbours in `.bss` and share one protected page, so a trylock faults
too. `PageWrite` is the SIGSEGV handler, `DetPark` and `DetReprotect` the hooks of the
runtime. `HlDispatch` may pick any runnable fiber, which includes the slot order of the
run pass. `Closing` lets clients end their connection.

### SpecSerialize

`body()` in its four modes with the key chosen freely (the code hashes the request
number; naive, which is meant to lose updates, is in no run), the scheduler's passes with the local count `fin`, and the device.

### Parts around the runtime

* `AccelSlots`: the unlocked and the locked look at `dev_started`; an id from an
  atomic counter, its slot `id % NSLOT`; filling and arming a slot as two steps, as
  the barrier between them separates them; the device marks a slot done only after
  it has transformed the buffer. A caller collects a batch in order, as
  `accel_ext.c` does. *Assumed*: an id is collected before `NSLOT` later ones are
  taken; the libraries do not check this (see the hazards).
* `RemoteAccel`: `rw_all`'s results decide only about the write; the read's result
  is ignored, so a lost connection yields `"garbage"` (what the buffer held). A
  crash of the signer ends connections with an end of stream or a reset.
* `FiberTls`: a fiber sets errno, its queue (up to `FtRaise` errors, more than
  `errbuf` holds) and its keys, yields in one of the four ways, and compares. An errno or
  error is a pair of the fiber and the number of its yield, so that a value of another
  fiber and one of the fiber's own past both show. The yield of `fiber_cond_wait` saves nothing
  (`FtSaves`), and `put` is absent from `FtResolved` as it is from `init()`.
* `RedisDet` runs the page detector of `detector.c` under the module's counters;
  a client may go away while blocked, and Redis then drops its reply (`RdDiscard`).
* `Ngx`: nginx's `count`/`blocked` rules are external and written from how the
  module uses them; the event loop is one thread, the pool another.
* `Spoa`: frames are written in two parts under the connection's mutex, ids are encoded
  with the agent's varint and decoded by the peer's. The loops of the varint are unrolled for
  ids below `SpTop`, which take at most four bytes. *Assumed* (`SpBye`): the peer leaves only
  when it has all its ACKs. `free()` ends what the model says of a connection: its memory and its
  descriptor go to nobody else, and `SpUnlock` may come after it, as in the code.
* `TcoServer`: requests are two chunks, so that reads and writes are short; a socket
  buffers `TcSock` chunks; a server that has accepted all but one of `MAXCONN`
  connections is one of the initial states. One slot per connection stands for the
  slot of `tco_server.c` or the stream and event of `tco_server_gpu.cu`.
* `OffloadBench`: `submit()` of `accel_compare.c` is three stores and the test of its device
  thread three loads, each a step, with the requests of the other connections and the
  scheduler in between; a slot's deadline is past or not.
  In the other modules with a device (`OpenLoop`, `TcoServer`, `AccelSlots`, `SpecSerialize`)
  the test is one step. There the claim is about which request is done and how often, not when,
  and a request takes as long as it likes: a device whose loads are spread over time finds
  `done` = 0 only after the submit it completes has begun, nobody but the device sets `done`, and so it
  does what an atomic device does that finishes this request a little later. Only a statement about
  the latency, such as `ObLatencyKept`, can tell the two apart.
* `FiberContext`: a stack is an array of words; registers hold tokens that name who
  computed them, so that any mix-up is visible.
* `AesGpu`: one action per word of the key schedule and per round of a thread. The
  counter block is checked by its value as a number, not by how the kernel builds it. The
  same kernel is repeated in `gpu_runtime.cu`, `tco_server_gpu.cu` and `libaccel_gpu.cu`.
* `SharedState`: every load and store is a step; each pattern runs locked, and all
  but the allocator also bare, where nothing is claimed.

## 3. Runs

| Run | Question | Bounds |
|---|---|---|
| `carrier` | No stale event, no lost fiber, no shared buffer, also when fibers use each other's descriptors. | 2 connections, 2 descriptors (reused after close), both events, event array of 1, so that an event has to wait for a later pass. |
| `live` | The carrier with one fiber per socket: no lost wake-up, and refinement of `BlockingThreads`, including fairness (a call whose condition holds returns). The liveness of seven more components. | Carrier: 2 connections, one event, event array of 2 (see below). The others: as in `parts`, a little smaller; `MCLive.cfg`. |
| `locks` | Mutex and condition variable: exclusion and release during a wait (`MonitorInv`); no signal of a fiber lost; all work is done although fibers poll the mutex. Handler lock and detector: no lost update when serialized (by `RT_ENFORCE` or `LOCKED`), none unnoticed with `RT_DETECT`, no alarm under the handler lock, and requests are answered while the handler lock is off. | 2 consumers, 1 producing fiber, 1 real thread, ring of 2, 3 items, timed waits. 2 handlers, 5 requests, version clock up to 8; all eight settings of the three switches. |
| `carrier_table` | *Violation*: the table overflows with connection `MAXFIB`+1. | `MAXFIB` = 2, 3 connections one after the other. |
| `sync_ring` | *Violation*: a signal is lost in `pend_ring`. | 1 fiber, 1 thread. |
| `sync_recursive` | *Violation*: a recursive mutex admits two fibers. | 2 fibers. |
| `handler_stuck` | *Violation*: with `RT_ENFORCE` requests may wait for ever. | 3 handlers, 3 requests. |
| `parts` | Safety of each component of `MCParts`, and the end of every run of the prototype. | Two or three threads, clients or connections each; see `MCParts.cfg`. |
| `fork` | *Violation*: a connection of a fork child that offloads is never served. | 2 connections. |
| `tls` | *Violation*: a fiber's OpenSSL errors do not survive a yield that saves them. | 2 fibers, `errbuf` of 2. |
| `tls_cond` | *Violation*: errno and errors do not survive a condition wait. | 2 fibers. |
| `bench` | *Violation*: in mode coro a request is completed before its latency is over. | 2 connections. |

`MCParts` puts nineteen components into one state space: `app` picks one of them in the
initial state and only its variables move, so that the run is the disjoint union of
nineteen separate ones, and an invariant of one component is checked in all states of it.
`MCLive` and `MCLocks` do the same with eight and two. In the table, what is checked in `live`
is marked with an asterisk.

| Component | Properties |
|---|---|
| `RedisDet` | `RdAccounts`: gates lose no update (`RdNoLost`), and the detector counts a conflict exactly if an update is lost (`RdLossIsCounted`). `RdAnswered`*: clients are answered, unless a client of the same gate has gone away. |
| `RedisPool` | `RpServed`: a job is in one place (`RpOnePlace`), and no worker sleeps while it is needed (`RpNoIdleSleeper`). |
| `Ngx` | `NgReferences`: with aborts at any time nothing is used after it is freed (`NgNoUseAfterFree`) and references are balanced (`NgBalanced`). `NgFreed`*: every request is freed. |
| `Spoa` | `SpFrames`: whole frames, and at most one ACK for each NOTIFY, with its ids and on its connection (`SpAcksMatch`). |
| `AccelSlots` | `AsExclusive`: each request is transformed once (`AsOnceEach`), and the device works only on buffers that are waited for (`AsDeviceOwns`). |
| `RemoteAccel` | `RaResults`: never the answer to another request (`RaOwnSignature`), at most two bad results per crash and thread (`RaGarbageBounded`). `RaReturns`*: every call returns. |
| `FiberTls` | `FtKept`: `coop_err`'s claim (`FtSavedIsClean`), and under libtransparent keys after every yield and errno after those that save it (`FtErrnoKept`). What it leaves out is `tls` and `tls_cond`. |
| `Deadline` | `DlOnTime`, also proved. |
| `TcoServer` | `TcReplies`: replies in order and right (`TcNoneBad`), a fiber is parked while its slot is active (`TcParkedOnSlot`). `TcRoundEnds`*: a client's round ends, by replies or by a closed connection. |
| `OpenLoop` | `OlPlaces`: an arrival is in one place (`OlOnePlace`), a fiber is parked exactly while its slot is active (`OlParkedOnSlot`), and the completion ring names each parked fiber whose offload is done, once, and no other (`OlReported`). |
| `OffloadBench` | `ObResultReady`: in every mode, a connection that goes on has had its offload done exactly once since it was prepared. |
| `FiberContext` | `FcSwitches`: a switch returns everything (`FcKept`), and waiting contexts stay intact (`FcSavedIntact`). |
| `SharedState` | `ShLockedIntact`: no update, push or block is lost or doubled under the mutex (`ShNothingLost`, `ShKvIntact`). |
| `AesGpu` | `AeStandard`: every word, round and stored block is the standard's; the S-box is checked for all bytes. |
| `RwLock` | `RwNoLost`, `RwFinish`*. |
| `DetectorTest` | `DtLostIsCaught`. |
| `SessSocket` | `SsServersEnd`*: server threads end after `stop`. |
| `ForkChild` | `FkServedUntilOffload`*: what holds of the claim that `fork` refutes. |
| `SpecSerialize` | `CommitsAreAtomic`, `FallbackIsConflict` (2 requests each); `Terminates`: the run ends, with every request committed and no lock held. |

Why the bounds are enough: the hazards involve two fibers and one third party (a
peer, a timeout, the device, a real thread), and descriptors, slots and ring entries are
reused within the bound: `NSLOT` = 3 with 4 ids, `RING` = 2 with 4 arrivals, `QN` = 2 with 4
pushes, 3 blocks for 2 handlers that want 2 each, so that the free list runs empty. The
bounded quantities are named constants. `SpIds` include the last number of each
length of the varint, so that the ids sent from there lie on both sides of each place where
it grows by a byte, and `AeBases` where the counter carries into the next byte. A nanosecond
counter wraps at `DlBase` = 4 instead of 10^9; the proof removes that bound. `MaxClk` stops
the retries of a fiber that polls a held mutex, each of which ticks the version clock; the
holder itself is never stopped. Where a smaller instance is used than the question seems to
ask for (two handlers, one kind of event in `live`), the safety result is a theorem
for any number (section 5). Runs with `CHECK_DEADLOCK FALSE` are those whose programs end or
whose clients may stop.

**Liveness** properties are of the form "again and again nothing is pending"
(`[]<>`). Pending work stays pending until it is dealt with, so this says the same as
that each request is eventually answered.

**Fairness.** Carrier thread, scheduler threads and device threads never block, hence
weak fairness of their steps. A fiber is not preempted: if a handler computes for ever
nothing else runs, so `Carrier` and `FiberSync` assume that a running handler
reaches its next parking or returning call, which the request loops of the servers
do. In `HandlerLock` the pass over the slots is abstracted, so dispatch of a fiber
is strongly fair: the carrier goes through its table again and again, so a fiber
that is runnable whenever its turn comes gets its turn. Nothing is assumed of peers,
clocks, clients and the accepting thread.
With more ready descriptors than the event array holds, `EpollWait` may report any of
them; that the kernel serves its ready list in turn is not modelled, so `live` uses an
array that holds every descriptor (the code's holds 256): an event that does not fit
is covered for safety only, in `carrier`.
In `locks` (`LocksFairness`) both modules have the fairness of their own specifications
(`HlFairness` for the handlers). In `live` (`LiveFairness`) the service threads of a component
are weakly fair as one, which is enough because each has finitely much to do; threads of
`TcoServer`, of `RwLock` and of `SessSocket` are weakly fair one by one, as the operating
system schedules them; so are the verifying clients of `TcoServer` within a round. `RwLock` has finitely many
rounds: with endless ones readers could keep a writer out, which glibc's default lock
allows. In `parts` only the prototype's scheduler and device are fair (`PartsFairness`). Crashes, forks, disconnections and new requests are not fair.

## 4. What the violations show

* `carrier_table` - `fibs[nfib++]=f` (`LT:172`) has no bound, and freed slots are
  not reused, so a carrier that has taken in `MAXFIB` = 8192 connections in its
  lifetime writes past the table with the next one.
* `sync_ring` - a real thread advances `pend_head` before it stores the condition
  variable (`LT:470`, `LT:479`); a carrier that drains in between skips the signal for good.
* `sync_recursive` - the fiber-aware mutex relies on `trylock` failing for a held
  mutex (`LT:359`); for a recursive one it succeeds, since all fibers are one thread.
* `handler_stuck` - `read()` takes the handler lock before a request is there
  (`LT:286`), keeps it while parked on an idle socket, and a handler that reads
  end of stream ends without `hl_release`.

* `fork` - `dev_started` is copied into the child, the device thread is not
  (`LT:208`, `libaccel.c:59`); the constructor of the parent may have offloaded once to warm up.
* `tls` - `ssl_err_put` is never resolved, so `tls_restore` skips the queue that
  `tls_save` has drained (`LT:97`).
* `tls_cond` - `fiber_cond_wait` switches without `tls_save` and `tls_restore` (`LT:436-446`), unlike
  every other yield: a fiber finds the errno and errors that others left meanwhile.
  `COND_RWLOCK_POOL_RESULTS.md:11` says that errno and errors are preserved across that wait.
* `bench` - the device thread reads `active` before the scheduler clears it, `done` after the
  connection's next `submit()` has cleared it, and the deadline before that `submit()` has set it
  (`accel_compare.c:50`, `:60`, `:134`): the new request is completed against the old deadline. In
  busy and block, which never clear `active`, this needs no old load of `active`. The result is
  right all the same (`ObResultReady`); it is the measured latency that is too short.

Related observations that no run calls an error:

* With `LOCKED=1` and the detector on, `det_conflicts` grows although no update is lost,
  because a failing trylock writes to the page of the counter after the holder's write; this
  turns the handler lock on (`locks` includes these states, `NoFalseAlarm` excludes them).
* A Redis client that goes away while it holds a gate leaves the gate shut (`RdAnswered`).
* A HAProxy that leaves before it has its ACKs leaves queued jobs and workers with a freed
  connection; and even one that waits for them may be gone, and the connection freed
  (`spoa_agent.c:117`), when the worker that sent the last ACK unlocks its mutex (`:72`). `SpFrames`
  is about the bytes on the wire only.
* When all server threads of `sess_socket_harness.c` have ended, a client may still wait in the
  backlog, and `main` in `pthread_join` of it.

## 5. Proofs

All theorems are checked by TLAPS for every value of the constants that satisfies the
named assumptions. Each is proved from an inductive invariant (`IndInv`, with the component's
prefix where several share a module), with one lemma per action or group of like actions. The
invariant is in the component's module where a run also checks it, otherwise in the proof module.

* `CarrierProofs` (assumes `BoundsAssumption`, `FdAssumption` and, for the size of
  the table only, `TableAssumption`). `IndInv` adds to the properties: `SlotsInv` (slot
  *i* holds fiber *i* or nothing, the queue holds the fibers after them),
  `LoopInv` (`cur_fib` is the fiber of the current slot and is runnable),
  `CallInv` (state and call agree), `ConnInv` (live fibers have distinct sockets, and
  with `Exclusive` park on their own) and `PollInv` (a fiber is resumed inside
  `poll` for a reason that still holds). They are needed because a step of one
  fiber could otherwise disturb the registration of another. Theorems: `TypeCorrect`,
  `NoStaleEvent`, `NoLostWakeup`, `BufferSafe`, `NoneLost`, and `Refinement`: with one
  fiber per socket the carrier implements `BlockingThreads` (`thBar` and `devBar` map the
  state; a call returns when its fiber resumes, so a released offload still counts as
  done until then).
* `HandlerLockProofs` (assumes `HandlerAssumption`). `SerialInv`: a serialized handler past
  its read holds the lock or the mutex, so its copy of the counter is current.
  `SnapshotInv`: a stale copy implies that the page has moved past the
  snapshot, and a handler about to store runs with the page protected. Theorems:
  `EnforcementIsSound`, `DetectorIsComplete`, `NoFalseAlarms`.
* `SpecSerializeProofs` (assumes `SerializeAssumption`). `LockInv` and `ReadInv`: in lock
  mode a read value is current; in detect mode value and version of the entry
  have moved by the same amount since the read, which is why comparing versions is
  exact. Theorems: `TypeCorrect`, `FallbackExact`, and `NoUpdateIsLost`, the refinement of
  `Counters` in every mode but naive.
  `ShCorrect` (`ShAssumption`) is about `SharedState` under its mutex. By `ShMutexInv` whatever is
  half done belongs to the one handler inside a section. `ShCountInv`: a word is the number of
  stores made to it. `ShRingInv`, `ShTailInv`, `ShEntInv`: which pushes the ring holds, how far `q_tail` is
  behind, when key and value differ. `ShListInv`, `ShHeldInv`: a block is listed once, or on its way
  back, or owned by the handler that has it once.
* `DeadlineProofs` (assumes `DlAssumption`). The invariant says that both clocks and both
  deadlines are normalised and that deadline minus clock is the same on both sides; it is
  needed because the carrier compares seconds and nanoseconds separately. Theorem: `DeadlineOnTime`.
* `FiberSyncProofs` (assumes `SyncAssumption`; the theorems are about a mutex that is not
  recursive, because `MCFiberSyncRecursive` shows that a recursive one lets two fibers in).
  `HoldInv`: who is between lock and unlock holds the mutex, alone, and the C library's
  owner and depth agree. `ParkInv`: a fiber is on the condition variable
  exactly while parked. `RingInv` ties the ring positions to the items that real threads made.
  `SleepInv`: until a real thread has signalled, a sleeper with work has somebody who is
  about to signal. It needs `HoldInv`: the look at the queue and the park are under the mutex.
  Theorems: `MonitorCorrect`, `SignalsReach`. (A real thread's signal may be lost in the ring;
  `MCFiberSyncRing` shows how, so nothing is claimed after one.)
* `RuntimeProofs`
  * `RwCorrect` (`RwAssumption`): a holder's copy is the value, because a writer
    holds the real lock alone, parked or not.
  * `DtCaught` (`DtAssumption`): an action property. A word that changed under a parked fiber is
    on a page whose version is newer than the park, whatever words share a page.
  * `FtCorrect` (`FtAssumption`): what is saved for a fiber that yielded is what it left at that
    yield, and the running fiber was given it back. A condition wait saves nothing, and
    nothing is claimed of errno after one; the runs `tls` and `tls_cond` show what is lost.
  * `FcCorrect` (`FcAssumption`, of which `d + 18 <= FcTop` says that no stack overflows: the
    code has no guard beyond the size it allocates). The running fiber is on its own stack, and
    what a switch would restore from the stack of each other fiber (`FcSaved`) is what it left
    with. `FcLayout` and `FcSizes` are the facts about the two frame layouts.
* `ServerProofs`
  * `NgCorrect` (`NgAssumption`): `NgRequestInv` counts a request's references by where it
    is (connection, pool, completion event), and a request in the pool is blocked.
  * `RaCorrect` (`RaAssumption`): `RaThreadInv` says what may be on a thread's connection
    at each point of a call: nothing of an earlier request; `RaBudgetInv` charges a lost result to a crash.
  * `ObCorrect` (`ObAssumption`), in every mode. `ObConnOK`: an offload that is out has been done
    once if it is marked done and otherwise not at all. `ObDevOK`: the device's loads may be out of
    date, but when it finishes, the offload is still out and not done: `done` = 0 was stored after
    the preparation, and only the device sets it. A request may so be done early (run
    `bench`), but neither twice nor instead of the one after it.
  * `RdCorrect` (`RdAssumption`; hypothesis `~RdResetAnytime`: `DET.RESET` comes while no job
    is in flight, since one in between zeroes half of what is compared). `RdQueueInv`: the job ring,
    the results and the pending commands hold each client once. `RdGateInv`: at most
    one client of a gate is between its read and its write. `RdClockInv`: no page version and no
    snapshot is past the clock, and behind a gate nobody writes a page that a job has read.
    `RdHist(w)`: `w[s]` writes were made to slot `s`; they sum to the completed ones, a counter is
    behind exactly if a conflict was counted, and a job's copy is current unless the page has
    moved since its park. No variable holds `w`, so the invariant says that there is one. A sum over the slots is the cardinality of a set
    of pairs (`RdUnits`), so that one step adds or removes one element (`RdUnitsAdd`).
  * `SpCorrect` (`SpAssumption`: thread names are distinct, ids stay below `SpTop`). `SpWire` is
    what HAProxy writes, by ranges of the number; the agent's encoder writes it (`SpEncIs`) and its
    decoder reads it back at any offset (`SpDecIs`), so that different ids have different answers
    (`SpCoding`). An answer is due to an unread frame, in the queue, with a writer, or
    whole on its connection: once there (`SpDistinctInv`), at one place only (`SpApartInv`), and always
    to a frame of that connection (`SpOwnInv`). `SpLockInv` and `SpHalfInv`: an odd number of halves on
    a connection means that the holder of `wlk` is in between. `SpPhaseInv`: the hello comes
    first. Nothing is said of a connection's memory after `free()`.
* `RingProofs`
  * `RpCorrect` (`RpAssumption`: a command per client fits the ring). Ring, workers and replies
    share no client and hold exactly the blocked ones; `RpNoIdleSleeper` is inductive because
    each command wakes one sleeper and a worker looks at the ring before it sleeps.
  * `AsCorrect` (`AsAssumption`). Pending ids lie within `AsNSLOT` of the latest, so different
    ones have different slots (a lemma on `%`). That bound is the guard of `AsTake`, the
    libraries' unchecked assumption named in section 2: the theorem says what holds
    when the callers respect it.
  * `OlCorrect` (`OlAssumption`: a completion per fiber fits `OlCQN`, as in the code). Each
    arrival is in the ring, with one task, completed or dropped; the lists give the state of each
    fiber. `OlCompInv`: the entries of the completion ring that are not taken in name different fibers,
    so there are fewer than `OlCQN` and the device's next store overwrites none of them.
  * `TcCorrect` (`TcAssumption`: a pipeline fits the sockets, and the clients fit the table of
    connections; `main()` has room for 512, `MAXCONN` is 4096). `TcStreamInv`: what a client has read, the
    replies on their way, the request in the server's buffer, and the requests on their way are one
    run of consecutive chunks up to what it has sent, and the mask counts along. `TcSlotInv`: a slot
    is active only while the coroutine at its place in the table is parked for it (on the GPU,
    until its event is done); places modulo `MAXCONN` are distinct because there are no more connections than
    slots. `TcTabInv`, `TcRunInv` and `TcPlaceInv` say who is in the table, who runs and where each is.

Only model-checked: the liveness results (fairness and `ENABLED` are outside the prover's
reach; all that the runs check of `ForkChild` and `SessSocket` is of this kind) and the properties
of the violation runs; and `AeStandard`, whose module needs `Bitwise`.

## 6. Not modelled, and the plan

Not modelled: the numeric work of the emulated ciphers, of zlib, RSA and the matrix product
(a buffer is transformed or not); symbol resolution and environment switches of `init()`, socket
set-up, pinning and priorities, statistics and printing; `/proc/self/maps` parsing in
`detector.c`; the integrations that only forward a call (Apache, MariaDB, Node, Go, Python), whose
concurrency is that of the host server; `harness.c`, a workload for a race detector; the static
shims; `redismodule.h`, which is Redis' own header; site, paper and sweep scripts. `RT_NOIO`, `RT_REALMUTEX` and their
like disable interposition and are taken to be unset.

Every safety invariant and action property of the passing runs but `AeStandard` is now the
subject of a theorem. What is left to do:

1. `Spoa`: a peer that leaves early, with the memory of connections; a fifth byte in the varint, for ids from `SpTop` on.
2. `AesGpu`: `AeStandard` compares each step of the kernel with FIPS-197 for sample keys. A proof
   for every key would need `AeSub` and the round functions without `Bitwise`.
3. A full `newq` (`LT:275`) drops a fiber although `pthread_create` returns success. Nothing in
   the code makes up for it, so there is no property to state.
4. `RemoteAccel`: a signature of which a part has arrived when the signer dies.
5. `Carrier`: liveness of an event that does not fit the array, which needs the order of the
   kernel's ready list.
6. `RedisDet`: `DET.RESET` while jobs are in flight, for which the repository states no intent.
