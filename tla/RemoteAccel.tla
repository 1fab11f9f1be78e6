----------------------------- MODULE RemoteAccel -----------------------------
(***************************************************************************)
(* libaccel_remote.c and remote_hsm.c: accel_encrypt() is a blocking call  *)
(* to a signer over one persistent connection per calling thread.  The     *)
(* signer may crash and restart; the caller reconnects once when a write   *)
(* fails, and ignores the result of the read.                              *)
(*                                                                         *)
(* The first write after the signer closed a connection is accepted and    *)
(* answered by a reset, which the next write sees (loopback TCP, with      *)
(* SIGPIPE ignored as the host servers do).                                *)
(***************************************************************************)
EXTENDS Naturals, Sequences, FiniteSets

CONSTANTS
    RaThread,    \* calling threads
    RaMaxCall,   \* bound: calls per thread
    RaMaxCrash   \* bound: crashes of the signer

ASSUME RaAssumption == RaMaxCall \in Nat /\ RaMaxCrash \in Nat

VARIABLES
    raUp, raCrashes,  \* the signer process
    raSock,      \* each thread's socket: none, open, fin or rst
    raWire,      \* digests on the connection that the signer has not read
    raBack,      \* signatures on the connection that the caller has not read
    raSign,      \* the digest each conn() thread of the signer is signing
    raPc, raCall,     \* each caller: where it is, its current call
    raGot        \* results so far: the call whose signature it got, or a failure

raVars == <<raUp, raCrashes, raSock, raWire, raBack, raSign, raPc, raCall, raGot>>

RaInit ==
    /\ raUp \in BOOLEAN /\ raCrashes = 0
    /\ raSock = [t \in RaThread |-> "none"]
    /\ raWire = [t \in RaThread |-> <<>>]
    /\ raBack = [t \in RaThread |-> <<>>]
    /\ raSign = [t \in RaThread |-> 0]
    /\ raPc = [t \in RaThread |-> "idle"]
    /\ raCall = [t \in RaThread |-> 0]
    /\ raGot = [t \in RaThread |-> <<>>]

RaGoto(t, l) == raPc' = [raPc EXCEPT ![t] = l]

\* The call returns: the buffer holds a signature, garbage, or is untouched.
RaReturn(t, what) ==
    /\ raGot' = [raGot EXCEPT ![t] = Append(@, what)]
    /\ RaGoto(t, "idle")

-----------------------------------------------------------------------------
RaBegin(t) ==
    /\ raPc[t] = "idle" /\ raCall[t] < RaMaxCall
    /\ raCall' = [raCall EXCEPT ![t] = @ + 1]
    /\ RaGoto(t, IF raSock[t] = "none" THEN "connect" ELSE "write")
    /\ UNCHANGED <<raUp, raCrashes, raSock, raWire, raBack, raSign, raGot>>

\* connect_remote(), at first or after a failed write.
RaConnect(t) ==
    /\ raPc[t] \in {"connect", "reconnect"}
    /\ IF raUp
       THEN /\ raSock' = [raSock EXCEPT ![t] = "open"]
            /\ RaGoto(t, IF raPc[t] = "connect" THEN "write" ELSE "rewrite")
            /\ raGot' = raGot
       ELSE raSock' = [raSock EXCEPT ![t] = "none"] /\ RaReturn(t, <<"untouched">>)
    /\ raBack' = [raBack EXCEPT ![t] = <<>>]
    /\ UNCHANGED <<raUp, raCrashes, raWire, raSign, raCall>>

\* rw_all(sock, digest, 32, 1): a failure closes the socket and reconnects
\* once; the second write's result is ignored.
RaWrite(t) ==
    /\ raPc[t] \in {"write", "rewrite"}
    /\ raWire' = IF raSock[t] = "open" THEN [raWire EXCEPT ![t] = Append(@, raCall[t])] ELSE raWire
    /\ IF raSock[t] = "rst" /\ raPc[t] = "write"
       THEN RaGoto(t, "reconnect") /\ raSock' = [raSock EXCEPT ![t] = "none"]
       ELSE RaGoto(t, "read") /\ raSock' = [raSock EXCEPT ![t] = IF @ = "fin" THEN "rst" ELSE @]
    /\ UNCHANGED <<raUp, raCrashes, raBack, raSign, raCall, raGot>>

\* Mutant: the caller does not wait for the signature.
RaReadImpatient(t) ==
    /\ raPc[t] = "read"
    /\ IF raBack[t] # <<>>
       THEN RaReturn(t, <<"sig", Head(raBack[t])>>) /\ raBack' = [raBack EXCEPT ![t] = Tail(@)]
       ELSE RaReturn(t, <<"garbage">>) /\ raBack' = raBack
    /\ UNCHANGED <<raUp, raCrashes, raSock, raWire, raSign, raCall>>

\* Mutant: rw_all() does not return at the end of the connection.
RaReadDeaf(t) ==
    /\ raPc[t] = "read" /\ raBack[t] # <<>>
    /\ RaReturn(t, <<"sig", Head(raBack[t])>>) /\ raBack' = [raBack EXCEPT ![t] = Tail(@)]
    /\ UNCHANGED <<raUp, raCrashes, raSock, raWire, raSign, raCall>>

\* rw_all(sock, sig, 256, 0): blocks until a signature or the end of the
\* connection; sig is copied to the buffer either way.
RaRead(t) ==
    /\ raPc[t] = "read"
    /\ IF raBack[t] # <<>>
       THEN RaReturn(t, <<"sig", Head(raBack[t])>>) /\ raBack' = [raBack EXCEPT ![t] = Tail(@)]
       ELSE raSock[t] # "open" /\ RaReturn(t, <<"garbage">>) /\ raBack' = raBack
    /\ UNCHANGED <<raUp, raCrashes, raSock, raWire, raSign, raCall>>

-----------------------------------------------------------------------------
\* conn() of the signer: read a digest ...
RaHsmRead(t) ==
    /\ raUp /\ raSock[t] = "open" /\ raSign[t] = 0 /\ raWire[t] # <<>>
    /\ raSign' = [raSign EXCEPT ![t] = Head(raWire[t])]
    /\ raWire' = [raWire EXCEPT ![t] = Tail(@)]
    /\ UNCHANGED <<raUp, raCrashes, raSock, raBack, raPc, raCall, raGot>>

\* ... and sign it and write the signature.
RaHsmSign(t) ==
    /\ raSign[t] # 0
    /\ raBack' = [raBack EXCEPT ![t] = Append(@, raSign[t])]
    /\ raSign' = [raSign EXCEPT ![t] = 0]
    /\ UNCHANGED <<raUp, raCrashes, raSock, raWire, raPc, raCall, raGot>>

\* A crash closes every connection; a request that was read or not is lost,
\* an unread one makes the close a reset.  Signatures already sent stay.
RaCrash ==
    /\ raUp /\ raCrashes < RaMaxCrash
    /\ raUp' = FALSE /\ raCrashes' = raCrashes + 1
    /\ raSock' = [t \in RaThread |-> IF raSock[t] # "open" THEN raSock[t]
                                     ELSE IF raWire[t] # <<>> THEN "rst" ELSE "fin"]
    /\ raWire' = [t \in RaThread |-> <<>>]
    /\ raSign' = [t \in RaThread |-> 0]
    /\ UNCHANGED <<raBack, raPc, raCall, raGot>>

\* main() of the signer listens.
RaStart ==
    /\ ~raUp /\ raUp' = TRUE
    /\ UNCHANGED <<raCrashes, raSock, raWire, raBack, raSign, raPc, raCall, raGot>>

RaStep == \E t \in RaThread : \/ RaConnect(t) \/ RaWrite(t) \/ RaRead(t) \/ RaHsmRead(t) \/ RaHsmSign(t)

RaNext == RaStep \/ RaCrash \/ RaStart \/ \E t \in RaThread : RaBegin(t)

RaSpec == RaInit /\ [][RaNext]_raVars

-----------------------------------------------------------------------------
\* The result of a call is the signature of that call's digest, garbage or
\* the untouched buffer: a reconnection never makes a thread read the answer
\* to an earlier request.
RaOwnSignature ==
    \A t \in RaThread : \A k \in 1..Len(raGot[t]) : raGot[t][k] \in {<<"sig", k>>, <<"garbage">>, <<"untouched">>}

\* A crash of the signer costs a thread at most two garbage results: the call
\* that was under way, and the next one, whose write is still accepted.
RaGarbageBounded ==
    \A t \in RaThread : Cardinality({k \in 1..Len(raGot[t]) : raGot[t][k] = <<"garbage">>}) <= 2 * raCrashes

\* Every call returns, also when the signer is down and never comes back.
RaReturns == \A t \in RaThread : []<>(raPc[t] = "idle")

\* Results after a crash: never somebody else's, and only few that are bad.
RaResults == RaOwnSignature /\ RaGarbageBounded
=============================================================================
