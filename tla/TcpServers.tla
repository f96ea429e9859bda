----------------------------- MODULE TcpServers -----------------------------
(***************************************************************************)
(* The three servers of src/boost/boost_asio/socket/dummy_application:     *)
(*   iter      iter_tcp_server.cpp           one client after the other    *)
(*   threaded  sync_tcp_server_threaded.cpp  a detached thread per client  *)
(*   async     async_tcp_server.cpp          a pool that runs callbacks    *)
(* each with clients that behave as SyncTCPClient (sync_tcp_client.cpp) or *)
(* go away at any point.  The socket layer, boost::asio's io_service and   *)
(* the threads are modelled from their use: a listening port queues the    *)
(* connections, closing it resets the ones that were not accepted.         *)
(***************************************************************************)
EXTENDS Naturals, FiniteSets, Sequences

CONSTANTS
    Clients,
    Dummy,     \* the connection that stop() of the first two servers makes
    Threads    \* size of the pool of the third

ASSUME ServersAssumption == /\ IsFiniteSet(Clients) /\ Dummy \notin Clients
                            /\ Threads \in Nat \ {0}

VARIABLES
    kind,      \* which server
    \* the connections, Dummy among them
    backlog,   \* waiting to be accepted, in order
    link,      \* new, open, reset (by the server's side) or closed (by the client)
    sent,      \* request on its way or read
    answered,  \* response on its way or read
    \* the server
    run,       \* thread that runs run(): new, check, accept, read, write, done
    current,   \* connection that handleClient() of the iterating server is in
    handling,  \* what is done for a connection: none, read or write is pending
    busy,      \* callbacks being executed, as <<which, connection>>
    services,  \* connections whose Service object exists
    discarded, \* connections whose pending operation went with m_ios.stop()
    armed,     \* an asynchronous accept is pending
    stop,      \* the thread in stop(): no, flagged, connected, join, returned, threw
    m_stop     \* m_stop, or m_isStopped of the third server's acceptor

network == <<backlog, link, sent, answered>>
server == <<run, current, handling, busy, services, discarded, armed>>
serversVars == <<kind, network, server, stop, m_stop>>

Peers == Clients \cup {Dummy}
Listening == run \notin {"new", "done"}
Alive == stop \notin {"returned", "threw"}

ServersInit ==
    /\ kind \in {"iter", "threaded", "async"}
    /\ backlog = << >>
    /\ link = [p \in Peers |-> "new"]
    /\ sent = {} /\ answered = {}
    /\ run = "new" /\ current = Dummy
    /\ handling = [p \in Peers |-> "none"]
    /\ busy = {} /\ services = {} /\ discarded = {}
    /\ armed = FALSE
    /\ stop = "no" /\ m_stop = FALSE

\* What the peers see when the server's side of the connections S goes away.
Reset(S) == [p \in Peers |-> IF p \in S /\ link[p] = "open" THEN "reset" ELSE link[p]]
Queued == { backlog[i] : i \in DOMAIN backlog }

-----------------------------------------------------------------------------
(* SyncTCPClient: connect(), a request, its response, close().             *)

Connect(c) ==
    /\ Listening /\ Alive
    /\ link[c] = "new"
    /\ link' = [link EXCEPT ![c] = "open"]
    /\ backlog' = Append(backlog, c)
    /\ UNCHANGED <<kind, sent, answered, server, stop, m_stop>>

sendRequest(c) ==
    /\ link[c] = "open" /\ c \notin sent
    /\ sent' = sent \cup {c}
    /\ UNCHANGED <<kind, backlog, link, answered, server, stop, m_stop>>

\* After the response, after an error, or because the client went away.
CloseClient(c) ==
    /\ link[c] \in {"open", "reset"}
    /\ link' = [link EXCEPT ![c] = "closed"]
    /\ UNCHANGED <<kind, backlog, sent, answered, server, stop, m_stop>>

-----------------------------------------------------------------------------
(* The acceptor loop of the first two servers: Acceptor and Server::run(). *)

Open == /\ kind # "async" /\ run = "new"
        /\ run' = "check"
        /\ UNCHANGED <<kind, network, current, handling, busy, services,
                       discarded, armed, stop, m_stop>>

\* Leaving the loop destroys the acceptor.
CheckStop ==
    /\ run = "check"
    /\ IF m_stop THEN /\ run' = "done"
                      /\ link' = Reset(Queued) /\ backlog' = << >>
                 ELSE run' = "accept" /\ UNCHANGED <<link, backlog>>
    /\ UNCHANGED <<kind, sent, answered, current, handling, busy, services,
                   discarded, armed, stop, m_stop>>

accept ==
    /\ run = "accept" /\ backlog # << >>
    /\ LET c == Head(backlog) IN
       IF kind = "iter"
       THEN /\ run' = "read" /\ current' = c
            /\ UNCHANGED <<handling, services>>
       ELSE /\ run' = "check"
            /\ services' = services \cup {c}
            /\ handling' = [handling EXCEPT ![c] = "read"]
            /\ UNCHANGED current
    /\ backlog' = Tail(backlog)
    /\ UNCHANGED <<kind, link, sent, answered, busy, discarded, armed, stop, m_stop>>

\* read_until() returns with a request, or fails because the client is gone.
Readable(c) == c \in sent
Failed(c) == c \notin sent /\ link[c] = "closed"
\* write() to a client that has closed fails, or is lost.
Written(c) == IF link[c] = "open" THEN answered \cup {c} ELSE answered

\* handleClient() of the iterating server.
handleClientRead ==
    /\ run = "read"
    /\ \/ Readable(current) /\ run' = "write"
       \/ Failed(current) /\ run' = "check"
    /\ UNCHANGED <<kind, network, current, handling, busy, services,
                   discarded, armed, stop, m_stop>>

handleClientWrite ==
    /\ run = "write"
    /\ answered' = Written(current)
    /\ run' = "check"
    /\ UNCHANGED <<kind, backlog, link, sent, current, handling, busy, services,
                   discarded, armed, stop, m_stop>>

\* handleClient() in the thread of a connection; it ends with delete this.
ThreadReads(c) ==
    /\ kind = "threaded" /\ handling[c] = "read" /\ Alive
    /\ \/ /\ Readable(c)
          /\ handling' = [handling EXCEPT ![c] = "write"]
          /\ UNCHANGED services
       \/ /\ Failed(c)
          /\ handling' = [handling EXCEPT ![c] = "none"]
          /\ services' = services \ {c}
    /\ UNCHANGED <<kind, network, run, current, busy, discarded, armed, stop, m_stop>>

ThreadWrites(c) ==
    /\ kind = "threaded" /\ handling[c] = "write" /\ Alive
    /\ answered' = Written(c)
    /\ handling' = [handling EXCEPT ![c] = "none"]
    /\ services' = services \ {c}
    /\ UNCHANGED <<kind, backlog, link, sent, run, current, busy, discarded, armed,
                   stop, m_stop>>

-----------------------------------------------------------------------------
(* The callbacks of the third server.  A thread of the pool takes a        *)
(* callback that is due (Begin...), and its effects are those of its end.  *)

start ==
    /\ kind = "async" /\ run = "new"
    /\ run' = "listen"
    /\ armed' = TRUE
    /\ UNCHANGED <<kind, network, current, handling, busy, services, discarded,
                   stop, m_stop>>

Begin(which, c) ==
    /\ kind = "async" /\ stop \in {"no", "flagged"}
    /\ Cardinality(busy) < Threads
    /\ busy' = busy \cup {<<which, c>>}
    /\ UNCHANGED <<kind, link, sent, run, current, services, discarded, stop, m_stop>>

BeginAccept ==
    /\ armed /\ backlog # << >>
    /\ Begin("accept", Head(backlog))
    /\ backlog' = Tail(backlog)
    /\ armed' = FALSE
    /\ UNCHANGED <<answered, handling>>

\* The accept completes with an error and takes no connection.
BeginAcceptError ==
    /\ armed /\ backlog # << >>
    /\ Begin("accept", Dummy)
    /\ armed' = FALSE
    /\ UNCHANGED <<backlog, answered, handling>>

BeginRequestReceived(c) ==
    /\ handling[c] = "read" /\ (Readable(c) \/ Failed(c))
    /\ Begin("read", c)
    /\ handling' = [handling EXCEPT ![c] = "none"]
    /\ UNCHANGED <<backlog, answered, armed>>

BeginResponseSent(c) ==
    /\ handling[c] = "write"
    /\ Begin("write", c)
    /\ answered' = Written(c)
    /\ handling' = [handling EXCEPT ![c] = "none"]
    /\ UNCHANGED <<backlog, armed>>

End(which, c) ==
    /\ <<which, c>> \in busy /\ Alive
    /\ busy' = busy \ {<<which, c>>}
    /\ UNCHANGED <<kind, sent, answered, current, discarded, stop, m_stop>>

\* (A variant: after an error no other accept is started.)
AcceptOnce(c) ==
    /\ End("accept", c)
    /\ IF c = Dummy THEN UNCHANGED <<services, handling, armed>>
       ELSE /\ services' = services \cup {c}
            /\ handling' = [handling EXCEPT ![c] = "read"]
            /\ armed' = TRUE
    /\ UNCHANGED <<run, link, backlog>>

\* Another accept, or m_acceptor.close().
onAccept(c) ==
    /\ End("accept", c)
    /\ IF c = Dummy THEN UNCHANGED <<services, handling>>
       ELSE /\ services' = services \cup {c}
            /\ handling' = [handling EXCEPT ![c] = "read"]
    /\ IF ~m_stop THEN armed' = TRUE /\ UNCHANGED <<run, link, backlog>>
       ELSE /\ run' = "done" /\ link' = Reset(Queued) /\ backlog' = << >>
            /\ UNCHANGED armed

onFinish(c) == services' = services \ {c}

\* (A variant: no return after onFinish().)
FinishAndAnswer(c) ==
    /\ End("read", c)
    /\ handling' = [handling EXCEPT ![c] = "write"]
    /\ IF Failed(c) THEN onFinish(c) ELSE UNCHANGED services
    /\ UNCHANGED <<backlog, link, run, armed>>

onRequestReceived(c) ==
    /\ End("read", c)
    /\ IF Failed(c) THEN onFinish(c) /\ UNCHANGED handling
       ELSE /\ handling' = [handling EXCEPT ![c] = "write"]
            /\ UNCHANGED services
    /\ UNCHANGED <<backlog, link, run, armed>>

onResponseSent(c) ==
    /\ End("write", c)
    /\ onFinish(c)
    /\ UNCHANGED <<backlog, link, run, handling, armed>>

-----------------------------------------------------------------------------
(* Server::stop(), called once by main(); then main() returns.  main() has *)
(* slept since start(), so that the port is open by then.                  *)

stopFlag ==
    /\ stop = "no" /\ run # "new"
    /\ m_stop' = TRUE
    /\ stop' = "flagged"
    /\ UNCHANGED <<kind, network, server>>

\* m_ios.stop(): no callback is begun any more, and none of the pending ones
\* will be.
stopService ==
    /\ kind = "async" /\ stop = "flagged"
    /\ stop' = "join"
    /\ UNCHANGED <<kind, network, server, m_stop>>

\* The exception that an error of the dummy connection throws is a system_error,
\* which the handler for error_code does not catch.  It leaves stop(), and main()
\* destroys a Server whose thread was not joined: the process ends.
Throw == /\ stop' = "threw"
         /\ link' = Reset(Peers)

\* (A variant: stop() only sets the flag.)
NoDummyRequest ==
    /\ kind # "async" /\ stop = "flagged"
    /\ stop' = "join"
    /\ UNCHANGED <<kind, network, server, m_stop>>

send_dummy_request ==
    /\ kind # "async" /\ stop = "flagged"
    /\ IF ~Listening THEN Throw /\ UNCHANGED backlog
       ELSE /\ link' = [link EXCEPT ![Dummy] = "open"]
            /\ backlog' = Append(backlog, Dummy)
            /\ stop' = "connected"
    /\ UNCHANGED <<kind, sent, answered, server, m_stop>>

\* The iterating server is sent a request and its answer awaited, the other one's
\* connection is shut down at once.
DummyRequest ==
    /\ stop = "connected"
    /\ IF link[Dummy] = "reset" THEN Throw /\ UNCHANGED sent
       ELSE IF kind = "threaded"
       THEN /\ link' = [link EXCEPT ![Dummy] = "closed"]
            /\ stop' = "join" /\ UNCHANGED sent
       ELSE IF Dummy \notin sent
       THEN sent' = sent \cup {Dummy} /\ UNCHANGED <<link, stop>>
       ELSE /\ Dummy \in answered
            /\ link' = [link EXCEPT ![Dummy] = "closed"]
            /\ stop' = "join" /\ UNCHANGED sent
    /\ UNCHANGED <<kind, backlog, answered, server, m_stop>>

\* The threads end: the loop, or the callbacks that were under way.  The
\* operations that are pending in the stopped io_service, those that the last
\* callbacks started included, are discarded: nothing refers to their Service
\* objects any more.
join ==
    /\ stop = "join"
    /\ IF kind = "async"
       THEN /\ busy = {}
            /\ discarded' = { p \in Peers : handling[p] # "none" }
            /\ handling' = [p \in Peers |-> "none"]
            /\ armed' = FALSE
       ELSE run = "done" /\ UNCHANGED <<discarded, handling, armed>>
    /\ stop' = "returned"
    /\ link' = Reset(Peers)
    /\ UNCHANGED <<kind, backlog, sent, answered, run, current, busy, services, m_stop>>

-----------------------------------------------------------------------------
StopStep == stopFlag \/ stopService \/ send_dummy_request \/ DummyRequest \/ join
LoopStep == Open \/ CheckStop \/ accept \/ handleClientRead \/ handleClientWrite
Callback(c) == onAccept(c) \/ onRequestReceived(c) \/ onResponseSent(c)

ServersNext ==
    \/ StopStep
    \/ Alive /\ LoopStep
    \/ start
    \/ Alive /\ (BeginAccept \/ BeginAcceptError)
    \/ \E c \in Peers :
         \/ ThreadReads(c) \/ ThreadWrites(c)
         \/ BeginRequestReceived(c) \/ BeginResponseSent(c) \/ Callback(c)
    \/ \E c \in Clients : Connect(c) \/ sendRequest(c) \/ CloseClient(c)

\* Every thread of the server runs on, and a callback that is due again and again
\* is taken.  Nothing is asked of the clients, which may stay silent for ever, and
\* nobody has to call stop().
ServersFairness ==
    /\ WF_serversVars(Alive /\ LoopStep)
    /\ WF_serversVars(start)
    /\ WF_serversVars(stopService \/ send_dummy_request \/ DummyRequest \/ join)
    /\ SF_serversVars(Alive /\ BeginAccept)
    /\ \A c \in Peers : /\ WF_serversVars(ThreadReads(c) \/ ThreadWrites(c))
                        /\ SF_serversVars(BeginRequestReceived(c))
                        /\ SF_serversVars(BeginResponseSent(c))
                        /\ WF_serversVars(Callback(c))

ServersSpec == ServersInit /\ [][ServersNext]_serversVars /\ ServersFairness

-----------------------------------------------------------------------------
\* Connections that a thread, a pending operation or a callback is working for.
Handled ==
    { c \in Peers : handling[c] # "none" }
    \cup { c \in Peers : <<"read", c>> \in busy \/ <<"write", c>> \in busy }

\* A Service object exists exactly while its connection is handled, with one
\* exception: no thread and no callback of any order of events, errors included,
\* uses one that has deleted itself (delete this in handleClient() and onFinish()),
\* and the only ones left behind are those of the connections whose pending
\* operation m_ios.stop() of the third server discarded, which nobody deletes.
ServiceLifetime ==
    /\ services = Handled \cup discarded
    /\ Handled \cap discarded = {}
    /\ discarded # {} => kind = "async" /\ stop = "returned"

\* read_until() has no timeout: the iterating server waits for a client that is
\* connected and says nothing.
HeldUp == kind = "iter" /\ run = "read" /\ ~Readable(current) /\ ~Failed(current)

\* A client whose request is on its way gets a response, unless it goes away or
\* the server is being stopped: the other clients cannot prevent it, except one
\* that keeps the iterating server waiting for its request for ever.
RequestsAnswered ==
    \A c \in Clients :
        c \in sent ~> \/ c \in answered \/ link[c] = "closed"
                     \/ stop # "no"
                     \/ []HeldUp

\* stop() ends, in whatever state the server's threads and clients are when it is
\* called: the pool's threads come back, or the accept loop is woken up, also where
\* run() of the iterating server says that stop() "will never make the server thread
\* exit", blocked in accept().  The exception is again the iterating server with a
\* client that stays silent.
ServersStop == (stop # "no") ~> (~Alive \/ []HeldUp)

\* send_dummy_request() catches its errors and does nothing about them
\* ("// do nothing"): stop() is never left by an exception.
DummyErrorsIgnored == stop # "threw"
=============================================================================
