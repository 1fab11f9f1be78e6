-------------------------------- MODULE Spoa --------------------------------
(***************************************************************************)
(* apps/haproxy_accel/spoa_agent.c: a reader thread per HAProxy connection *)
(* decodes frames, answers HELLO itself and queues NOTIFY for a pool of    *)
(* workers, which send the ACK on the connection the NOTIFY came from.  A  *)
(* frame is written in several write() calls under the connection's wlk.   *)
(***************************************************************************)
EXTENDS Naturals, Sequences, FiniteSets, SequencesExt

CONSTANTS
    SpConn,      \* connections
    SpWorker,    \* threads of the pool
    SpIds,       \* stream ids the peer starts from
    SpMaxNotify  \* bound: NOTIFY frames over the run

\* Bound: ids below it take at most four bytes on the wire.
SpTop == 33818864

ASSUME SpAssumption ==
    /\ SpIds \subseteq Nat /\ SpMaxNotify \in Nat /\ \A i \in SpIds : i + SpMaxNotify < SpTop
    /\ SpConn \cap SpWorker = {} /\ "none" \notin SpConn /\ "free" \notin SpConn \cup SpWorker

VARIABLES
    spBase,      \* first stream id of this run
    spIn,        \* frames the peer has sent and the agent has not read
    spOpen,      \* connections with a live conn_thread; closed ones are freed
    spPeer,      \* what the peer did: new, hello, closing
    spSent,      \* NOTIFY frames sent per connection
    spQueue,     \* q from qt to qh
    spWr,        \* what each thread is about to write, and how far it is
    spLock,      \* holder of each connection's wlk
    spOut        \* halves of frames written to each connection

spVars == <<spBase, spIn, spOpen, spPeer, spSent, spQueue, spWr, spLock, spOut>>

SpThread == SpConn \cup SpWorker
SpIdle == [to |-> "none", part |-> 0, frame |-> <<>>]

SpInit ==
    /\ spBase \in SpIds
    /\ spIn = [c \in SpConn |-> <<>>]
    /\ spOpen = [c \in SpConn |-> "listening"]
    /\ spPeer = [c \in SpConn |-> "new"]
    /\ spSent = [c \in SpConn |-> {}]
    /\ spQueue = <<>>
    /\ spWr = [x \in SpThread |-> SpIdle]
    /\ spLock = [c \in SpConn |-> "free"]
    /\ spOut = [c \in SpConn |-> <<>>]

-----------------------------------------------------------------------------
(* SPOP variable-length integers, as sequences of bytes. *)

\* One round of the loop of enc_varint(): a byte that says more follow, and the rest.
SpMore(v) == 128 + (v % 128)
SpRest(v) == (v - 128) \div 128

\* The loop: for ids below SpTop it writes one to three bytes.
SpEncTail(v) ==
    IF v < 128 THEN <<v>>
    ELSE IF SpRest(v) < 128 THEN <<SpMore(v), SpRest(v)>>
    ELSE <<SpMore(v), SpMore(SpRest(v)), SpRest(SpRest(v))>>

\* enc_varint().
SpEncVarint(v) == IF v < 240 THEN <<v>>
                  ELSE <<240 + (v % 16)>> \o SpEncTail((v - 240) \div 16)

\* The loop of dec_varint(), shifting by 4, 11 and 18 bits.
SpDecTail(b, off, v) ==
    IF b[off] < 128 THEN [val |-> v + 16 * b[off], off |-> off + 1]
    ELSE IF b[off + 1] < 128 THEN [val |-> v + 16 * b[off] + 2048 * b[off + 1], off |-> off + 2]
    ELSE [val |-> v + 16 * b[off] + 2048 * b[off + 1] + 262144 * b[off + 2], off |-> off + 3]

\* dec_varint(): the value and the offset after it.
SpDecVarint(b, off) ==
    IF b[off] < 240 THEN [val |-> b[off], off |-> off + 1] ELSE SpDecTail(b, off + 1, b[off])

\* The two ids in the payload of a frame.
SpIdsOf(b) ==
    LET sid == SpDecVarint(b, 1)
    IN  <<sid.val, SpDecVarint(b, sid.off).val>>

\* The wire format of a number, by its ranges, as HAProxy writes and reads it.
SpWireVarint(v) ==
    IF v < 240 THEN <<v>>
    ELSE IF v < 2288 THEN <<240 + (v % 16), (v - 240) \div 16>>
    ELSE IF v < 264432 THEN <<240 + (v % 16), 128 + (((v - 240) \div 16) % 128), (v - 2288) \div 2048>>
    ELSE <<240 + (v % 16), 128 + (((v - 240) \div 16) % 128),
           128 + (((v - 2288) \div 2048) % 128), (v - 264432) \div 262144>>

SpWire(ids) == SpWireVarint(ids[1]) \o SpWireVarint(ids[2])

-----------------------------------------------------------------------------
\* The peer: connects, says hello, waits for the answer, pipelines NOTIFY
\* frames, and closes when each one is acknowledged.  One that left earlier
\* would have queued jobs and writers refer to a conn that is freed.
SpWhole(c) == {k \in 1..(Len(spOut[c]) - 1) : spOut[c][k].part = 1}

SpConnect(c) ==
    /\ spOpen[c] = "listening"
    /\ spOpen' = [spOpen EXCEPT ![c] = "open"]
    /\ spPeer' = [spPeer EXCEPT ![c] = "hello"]
    /\ spIn' = [spIn EXCEPT ![c] = <<[type |-> "HELLO", pl |-> <<0, 0>>]>>]
    /\ UNCHANGED <<spBase, spSent, spQueue, spWr, spLock, spOut>>

SpNotify(c) ==
    LET n == Cardinality(UNION {spSent[d] : d \in SpConn})
        ids == <<spBase + n, n>>
    IN  /\ spPeer[c] = "hello" /\ Len(spOut[c]) >= 2 /\ n < SpMaxNotify
        /\ spSent' = [spSent EXCEPT ![c] = @ \cup {ids}]
        /\ spIn' = [spIn EXCEPT ![c] = Append(@,
                        [type |-> "NOTIFY", pl |-> SpWire(ids)])]
        /\ UNCHANGED <<spBase, spOpen, spPeer, spQueue, spWr, spLock, spOut>>

SpBye(c, how) ==
    /\ spPeer[c] = "hello" /\ Len(spOut[c]) = 2 * (1 + Cardinality(spSent[c]))
    /\ spPeer' = [spPeer EXCEPT ![c] = "closing"]
    /\ spIn' = [spIn EXCEPT ![c] = Append(@, [type |-> how, pl |-> <<0, 0>>])]
    /\ UNCHANGED <<spBase, spOpen, spSent, spQueue, spWr, spLock, spOut>>

-----------------------------------------------------------------------------
\* One iteration of conn_thread(): HELLO makes it write, NOTIFY is queued, and
\* DISCONNECT, end of stream or a bad length ends the thread and frees conn;
\* no other connection gets its memory or its descriptor in the model.
SpRead(c) ==
    /\ spOpen[c] = "open" /\ spWr[c] = SpIdle /\ spIn[c] # <<>>
    /\ LET f == Head(spIn[c])
           ids == SpIdsOf(f.pl)
       IN  /\ spWr' = IF f.type = "HELLO"
                      THEN [spWr EXCEPT ![c] = [to |-> c, part |-> 0, frame |-> <<"HELLO">>]] ELSE spWr
           /\ spQueue' = IF f.type = "NOTIFY"
                         THEN Append(spQueue, [c |-> c, sid |-> ids[1], fid |-> ids[2]]) ELSE spQueue
           /\ spOpen' = IF f.type \in {"DISCON", "EOF"} THEN [spOpen EXCEPT ![c] = "freed"] ELSE spOpen
    /\ spIn' = [spIn EXCEPT ![c] = Tail(@)]
    /\ UNCHANGED <<spBase, spPeer, spSent, spLock, spOut>>

\* worker(): take a job and run the offload; the ACK carries the ids.
SpWork(w) ==
    /\ spWr[w] = SpIdle /\ spQueue # <<>>
    /\ LET j == Head(spQueue)
       IN  spWr' = [spWr EXCEPT ![w] = [to |-> j.c, part |-> 0,
                       frame |-> SpEncVarint(j.sid) \o SpEncVarint(j.fid)]]
    /\ spQueue' = Tail(spQueue)
    /\ UNCHANGED <<spBase, spIn, spOpen, spPeer, spSent, spLock, spOut>>

SpPut(x) == spOut' = [spOut EXCEPT ![spWr[x].to] =
                Append(@, [frame |-> spWr[x].frame, part |-> spWr[x].part + 1])]

\* Mutant: wlk is not taken.
SpLockNot(x) ==
    /\ spWr[x] # SpIdle /\ spWr[x].part = 0
    /\ SpPut(x)
    /\ spWr' = [spWr EXCEPT ![x].part = 1]
    /\ UNCHANGED <<spBase, spIn, spOpen, spPeer, spSent, spQueue, spLock>>

\* send_ack() and send_agent_hello(): lock wlk and write the first bytes, ...
SpLock(x) ==
    /\ spWr[x] # SpIdle /\ spWr[x].part = 0 /\ spLock[spWr[x].to] = "free"
    /\ spLock' = [spLock EXCEPT ![spWr[x].to] = x]
    /\ SpPut(x)
    /\ spWr' = [spWr EXCEPT ![x].part = 1]
    /\ UNCHANGED <<spBase, spIn, spOpen, spPeer, spSent, spQueue>>

\* ... write the rest, ...
SpWriteRest(x) ==
    /\ spWr[x].part = 1
    /\ SpPut(x)
    /\ spWr' = [spWr EXCEPT ![x].part = 2]
    /\ UNCHANGED <<spBase, spIn, spOpen, spPeer, spSent, spQueue, spLock>>

\* ... and unlock, if need be after conn_thread() has freed the connection: the
\* peer may leave as soon as it has the last byte.
SpUnlock(x) ==
    /\ spWr[x].part = 2
    /\ spLock' = [spLock EXCEPT ![spWr[x].to] = "free"]
    /\ spWr' = [spWr EXCEPT ![x] = SpIdle]
    /\ UNCHANGED <<spBase, spIn, spOpen, spPeer, spSent, spQueue, spOut>>

SpServe ==
    \/ \E c \in SpConn : SpRead(c)
    \/ \E w \in SpWorker : SpWork(w)
    \/ \E x \in SpThread : SpLock(x) \/ SpWriteRest(x) \/ SpUnlock(x)

SpNext ==
    \/ SpServe
    \/ \E c \in SpConn : SpConnect(c) \/ SpNotify(c) \/ SpBye(c, "DISCON") \/ SpBye(c, "EOF")

-----------------------------------------------------------------------------
\* What the peer reads on a connection is whole frames: the agent's hello,
\* then one ACK with the ids of each NOTIFY it sent there, none twice and none
\* that belongs to another connection.
SpAcksMatch ==
    \A c \in SpConn :
        /\ \A k \in 1..Len(spOut[c]) :
               LET h == spOut[c][k]
               IN  /\ h.part = 2 - (k % 2)
                   /\ h.part = 2 => spOut[c][k - 1].frame = h.frame
                   /\ IF k <= 2 THEN h.frame = <<"HELLO">> ELSE h.frame \in {SpWire(ids) : ids \in spSent[c]}
        /\ \A i, j \in SpWhole(c) : spOut[c][i].frame = spOut[c][j].frame => i = j

SpSpec == SpInit /\ [][SpNext]_spVars

\* Reader and workers share a connection without harm to its frames and their
\* ids, as long as the peer leaves only with all its answers.
SpFrames == SpAcksMatch
=============================================================================
