----------------------------- MODULE SessSocket -----------------------------
(***************************************************************************)
(* conflict-measurement/sess_socket_harness.c: TLS servers that accept on  *)
(* one listening socket, clients that connect and resume the session they  *)
(* kept, and main(), which stops them all: it sets stop, connects once for *)
(* every server thread that may sit in accept(), and joins them.  OpenSSL  *)
(* and the session cache are external: a handshake with a live peer        *)
(* succeeds, one with main()'s short-lived connection fails.               *)
(***************************************************************************)
EXTENDS Naturals, Sequences, FiniteSets

CONSTANTS
    SsServer, SsClient,  \* server threads, client threads
    SsConns,             \* bound: connections of a client
    SsCacheSize          \* SSL_CTX_sess_set_cache_size()

ASSUME SsAssumption == SsConns \in Nat /\ SsCacheSize \in Nat \ {0}

\* The connections that main() makes to unblock accept().
SsNobody == "main"

VARIABLES
    ssStop,              \* stop
    ssMain,              \* run, unblock, clients, servers, done: where main() is
    ssK,                 \* unblocking connections it has made
    ssBacklog,           \* connections that nobody has accepted
    ssSrv, ssPeer,       \* where a server thread is, and its connection
    ssCli, ssN,          \* where a client is; its connections so far
    ssSaved,             \* saved: the session a client kept, <<>> or <<client, n>>
    ssCache,             \* the server's cache, oldest first
    ssAccepts, ssResumed \* g_accept, g_resumed

ssVars == <<ssStop, ssMain, ssK, ssBacklog, ssSrv, ssPeer, ssCli, ssN, ssSaved, ssCache, ssAccepts, ssResumed>>
ssCount == <<ssN, ssSaved, ssCache, ssAccepts, ssResumed>>

SsInit ==
    /\ ssStop = FALSE /\ ssMain = "run" /\ ssK = 0 /\ ssBacklog = <<>>
    /\ ssSrv = [s \in SsServer |-> "top"] /\ ssPeer = [s \in SsServer |-> SsNobody]
    /\ ssCli = [c \in SsClient |-> "top"] /\ ssN = [c \in SsClient |-> 0]
    /\ ssSaved = [c \in SsClient |-> <<>>] /\ ssCache = <<>>
    /\ ssAccepts = 0 /\ ssResumed = 0

-----------------------------------------------------------------------------
(* server_thread() *)

SsTop(s) ==
    /\ ssSrv[s] = "top" /\ ssSrv' = [ssSrv EXCEPT ![s] = IF ssStop THEN "ended" ELSE "accept"]
    /\ UNCHANGED <<ssStop, ssMain, ssK, ssBacklog, ssPeer, ssCli, ssCount>>

SsAccept(s) ==
    /\ ssSrv[s] = "accept" /\ ssBacklog # <<>>
    /\ ssPeer' = [ssPeer EXCEPT ![s] = Head(ssBacklog)] /\ ssBacklog' = Tail(ssBacklog)
    /\ ssSrv' = [ssSrv EXCEPT ![s] = "handshake"]
    /\ UNCHANGED <<ssStop, ssMain, ssK, ssCli, ssCount>>

SsInCache(x) == \E i \in 1..Len(ssCache) : ssCache[i] = x

\* A new session goes into the cache; a full cache gives up its oldest.
SsInsert(x) == LET q == Append(ssCache, x) IN IF Len(q) > SsCacheSize THEN Tail(q) ELSE q

\* SSL_accept() and the client's SSL_connect(): a session of the cache is
\* resumed, otherwise a new one is made.
SsHandshake(s) ==
    LET c == ssPeer[s]
        again == SsInCache(ssSaved[c])
    IN  /\ ssSrv[s] = "handshake" /\ c # SsNobody /\ ssCli[c] = "connect"
        /\ ssSrv' = [ssSrv EXCEPT ![s] = "read"] /\ ssCli' = [ssCli EXCEPT ![c] = "write"]
        /\ ssAccepts' = ssAccepts + 1 /\ ssResumed' = ssResumed + (IF again THEN 1 ELSE 0)
        /\ ssCache' = IF again THEN ssCache ELSE SsInsert(<<c, ssN[c]>>)
        /\ ssSaved' = IF again THEN ssSaved ELSE [ssSaved EXCEPT ![c] = <<c, ssN[c]>>]
        /\ UNCHANGED <<ssStop, ssMain, ssK, ssBacklog, ssPeer, ssN>>

\* SSL_accept() fails: main() has closed its connection already.
SsRefused(s) ==
    /\ ssSrv[s] = "handshake" /\ ssPeer[s] = SsNobody
    /\ ssSrv' = [ssSrv EXCEPT ![s] = "top"]
    /\ UNCHANGED <<ssStop, ssMain, ssK, ssBacklog, ssPeer, ssCli, ssCount>>

\* SSL_read(), SSL_write(), and the connection is closed.
SsReply(s) ==
    LET c == ssPeer[s]
    IN  /\ ssSrv[s] = "read" /\ ssCli[c] = "read"
        /\ ssSrv' = [ssSrv EXCEPT ![s] = "top"] /\ ssPeer' = [ssPeer EXCEPT ![s] = SsNobody]
        /\ ssCli' = [ssCli EXCEPT ![c] = "close"]
        /\ UNCHANGED <<ssStop, ssMain, ssK, ssBacklog, ssCount>>

SsServerThread(s) == SsTop(s) \/ SsAccept(s) \/ SsHandshake(s) \/ SsRefused(s) \/ SsReply(s)

-----------------------------------------------------------------------------
(* client_thread() *)

\* The loop's test, then connect(): the kernel completes it before accept().
SsConnect(c) ==
    /\ ssCli[c] = "loop" /\ ssN[c] < SsConns
    /\ ssCli' = [ssCli EXCEPT ![c] = "connect"] /\ ssN' = [ssN EXCEPT ![c] = @ + 1]
    /\ ssBacklog' = Append(ssBacklog, c)
    /\ UNCHANGED <<ssStop, ssMain, ssK, ssSrv, ssPeer, ssSaved, ssCache, ssAccepts, ssResumed>>

SsTest(c) ==
    /\ ssCli[c] \in {"top", "close"}
    /\ IF ssStop THEN ssCli' = [ssCli EXCEPT ![c] = "ended"]
       ELSE ssN[c] < SsConns /\ ssCli' = [ssCli EXCEPT ![c] = "loop"]
    /\ UNCHANGED <<ssStop, ssMain, ssK, ssBacklog, ssSrv, ssPeer, ssCount>>

SsWrite(c) ==
    /\ ssCli[c] = "write" /\ ssCli' = [ssCli EXCEPT ![c] = "read"]
    /\ UNCHANGED <<ssStop, ssMain, ssK, ssBacklog, ssSrv, ssPeer, ssCount>>

SsClientThread(c) == SsTest(c) \/ SsConnect(c) \/ SsWrite(c)

-----------------------------------------------------------------------------
(* main() *)

SsSetStop ==
    /\ ssMain = "run" /\ ssStop' = TRUE /\ ssMain' = "unblock"
    /\ UNCHANGED <<ssK, ssBacklog, ssSrv, ssPeer, ssCli, ssCount>>

\* Mutant: one connection, whatever the number of server threads.
SsUnblockOnce ==
    /\ ssMain = "unblock" /\ ssBacklog' = Append(ssBacklog, SsNobody)
    /\ ssK' = ssK + 1 /\ ssMain' = "clients"
    /\ UNCHANGED <<ssStop, ssSrv, ssPeer, ssCli, ssCount>>

\* One connection for each server thread, closed at once.
SsUnblock ==
    /\ ssMain = "unblock" /\ ssBacklog' = Append(ssBacklog, SsNobody)
    /\ ssK' = ssK + 1 /\ ssMain' = IF ssK + 1 = Cardinality(SsServer) THEN "clients" ELSE "unblock"
    /\ UNCHANGED <<ssStop, ssSrv, ssPeer, ssCli, ssCount>>

\* pthread_join() of the clients, then of the servers.
SsJoin ==
    /\ \/ ssMain = "clients" /\ (\A c \in SsClient : ssCli[c] = "ended") /\ ssMain' = "servers"
       \/ ssMain = "servers" /\ (\A s \in SsServer : ssSrv[s] = "ended") /\ ssMain' = "done"
    /\ UNCHANGED <<ssStop, ssK, ssBacklog, ssSrv, ssPeer, ssCli, ssCount>>

SsMainThread == SsSetStop \/ SsUnblock \/ SsJoin

SsNext == (\E s \in SsServer : SsServerThread(s)) \/ (\E c \in SsClient : SsClientThread(c)) \/ SsMainThread

-----------------------------------------------------------------------------
\* "unblock accept() threads": after stop is set every server thread returns,
\* whichever connections wait in the backlog and whoever accepts them.
SsServersEnd == []<>(ssStop => \A s \in SsServer : ssSrv[s] = "ended")
=============================================================================
