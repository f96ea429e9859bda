----------------------------- MODULE TcpProofs ------------------------------
(***************************************************************************)
(* The client and the servers of boost_asio/socket/dummy_application.      *)
(*                                                                         *)
(* The asynchronous client, for every set of requests, of calls of         *)
(* cancelRequest() and every number of threads: a request that was marked  *)
(* as cancelled is not reported as a success, and goes no further.         *)
(*                                                                         *)
(* onRequestComplete() reads m_was_cancelled after it has released         *)
(* m_active_sessions_guard.  What makes that sound is that a call of       *)
(* cancelRequest() holds this mutex while its request is in the map        *)
(* (Sought), so that no request is taken out, and reported, before it is   *)
(* marked (Unreported).                                                    *)
(*                                                                         *)
(* The servers, for every set of clients and every size of the pool: a     *)
(* Service object exists exactly while its connection is handled, but for  *)
(* those whose pending operation stop() of the third server discards.  A   *)
(* callback deletes the object without looking whether anything else is    *)
(* pending for it.  What makes that sound is that a connection is in one   *)
(* place (OneStation): in the backlog, in an accept, or waiting for one    *)
(* operation, or in one callback.                                          *)
(***************************************************************************)
EXTENDS AsyncTcpClient, TcpServers, SequenceLemmas, TLAPS

Sought ==
    /\ \A c \in Cancels : cancel[c] = "found" => guard = c /\ target[c] \in active
    /\ \A c \in Cancels : cancel[c] \in {"hit", "threw"} => cancelled[target[c]]

Underway ==
    \A s \in Sessions :
        /\ handler[s] # "idle" => stage[s] \in {"connect", "write", "read"}
        /\ result[s] # "pending" => stage[s] \notin {"new", "registered"}

Unreported ==
    \A s \in Sessions :
        /\ stage[s] # "over" => outcome[s] = "none"
        /\ s \in active => outcome[s] = "none" /\ handler[s] # "report"

Marked == \A s \in Sessions : cancelled[s] => outcome[s] # "ok"

ClientInv == TypeOK /\ Sought /\ Underway /\ Unreported /\ Marked

-----------------------------------------------------------------------------
\* No request is sent and none is cancelled at first.
LEMMA ClientInitInv == Init => ClientInv
BY DEF Init, ClientInv, TypeOK, Stages, Errors, Sought, Underway, Unreported, Marked

\* What the main thread and the operations themselves do for a request.
LEMMA OperationInv ==
    ASSUME ClientInv, NEW s \in Sessions, Register(s) \/ StartConnect(s) \/ Complete(s)
    PROVE  ClientInv'
<1>0. TypeOK /\ Sought /\ Underway /\ Unreported /\ Marked
  BY DEF ClientInv
<1> USE ThreadAssumption DEF Errors, Stages, session, canceller
<1>1. CASE Register(s)
  <2>1. TypeOK'
    BY <1>0, <1>1 DEF Register, TypeOK
  <2>2. Sought' /\ Underway' /\ Unreported' /\ Marked'
    BY <1>0, <1>1 DEF Register, TypeOK, Sought, Underway, Unreported, Marked
  <2> QED BY <2>1, <2>2 DEF ClientInv
<1>2. CASE StartConnect(s)
  <2>1. TypeOK'
    BY <1>0, <1>2 DEF StartConnect, TypeOK
  <2>2. Sought' /\ Underway' /\ Unreported' /\ Marked'
    BY <1>0, <1>2 DEF StartConnect, TypeOK, Sought, Underway, Unreported, Marked
  <2> QED BY <2>1, <2>2 DEF ClientInv
<1>3. CASE Complete(s)
  <2>1. TypeOK'
    BY <1>0, <1>3 DEF Complete, Pending, TypeOK
  <2>2. Sought' /\ Underway' /\ Unreported' /\ Marked'
    BY <1>0, <1>3 DEF Complete, Pending, TypeOK, Sought, Underway, Unreported, Marked
  <2> QED BY <2>1, <2>2 DEF ClientInv
<1> QED BY <1>1, <1>2, <1>3

\* A completion handler, up to the callback: the request leaves the map with no
\* call of cancelRequest() at work on it.
LEMMA HandlerInv ==
    ASSUME ClientInv, NEW s \in Sessions, Handler(s)
    PROVE  ClientInv'
<1>0. TypeOK /\ Sought /\ Underway /\ Unreported /\ Marked
  BY DEF ClientInv
<1> USE ThreadAssumption DEF Errors, Stages, session, canceller
<1>1. CASE HandlerLocks(s)
  <2>1. TypeOK'
    BY <1>0, <1>1 DEF HandlerLocks, Runnable, TypeOK
  <2>2. Sought' /\ Underway' /\ Unreported' /\ Marked'
    BY <1>0, <1>1 DEF HandlerLocks, Runnable, TypeOK, Sought, Underway, Unreported, Marked
  <2> QED BY <2>1, <2>2 DEF ClientInv
<1>2. CASE HandlerEnds(s)
  <2>1. TypeOK'
    BY <1>0, <1>2 DEF HandlerEnds, Runnable, TypeOK
  <2>2. Sought' /\ Underway' /\ Unreported' /\ Marked'
    BY <1>0, <1>2 DEF HandlerEnds, Runnable, TypeOK, Sought, Underway, Unreported, Marked
  <2> QED BY <2>1, <2>2 DEF ClientInv
<1>3. CASE HandlerGoesOn(s)
  <2>1. TypeOK'
    BY <1>0, <1>3 DEF HandlerGoesOn, GoOn, TypeOK
  <2>2. Sought' /\ Underway' /\ Unreported' /\ Marked'
    BY <1>0, <1>3 DEF HandlerGoesOn, GoOn, TypeOK, Sought, Underway, Unreported, Marked
  <2> QED BY <2>1, <2>2 DEF ClientInv
<1>4. CASE HandlerCancelled(s)
  <2>1. TypeOK'
    BY <1>0, <1>4 DEF HandlerCancelled, TypeOK
  <2>2. Sought' /\ Underway' /\ Unreported' /\ Marked'
    BY <1>0, <1>4 DEF HandlerCancelled, TypeOK, Sought, Underway, Unreported, Marked
  <2> QED BY <2>1, <2>2 DEF ClientInv
<1>5. CASE CloseSocket(s)
  <2>1. TypeOK'
    BY <1>0, <1>5 DEF CloseSocket, TypeOK
  <2>2. Sought' /\ Underway' /\ Unreported' /\ Marked'
    BY <1>0, <1>5 DEF CloseSocket, TypeOK, Sought, Underway, Unreported, Marked
  <2> QED BY <2>1, <2>2 DEF ClientInv
<1>6. CASE Erase(s)
  <2>1. TypeOK'
    BY <1>0, <1>6 DEF Erase, TypeOK
  <2>2. Sought' /\ Underway' /\ Unreported' /\ Marked'
    BY <1>0, <1>6 DEF Erase, TypeOK, Sought, Underway, Unreported, Marked
  <2> QED BY <2>1, <2>2 DEF ClientInv
<1>7. CASE Report(s)
  <2>1. TypeOK'
    BY <1>0, <1>7 DEF Report, TypeOK
  <2>2. Sought' /\ Underway' /\ Unreported' /\ Marked'
    BY <1>0, <1>7 DEF Report, TypeOK, Sought, Underway, Unreported, Marked
  <2> QED BY <2>1, <2>2 DEF ClientInv
<1> QED BY <1>1, <1>2, <1>3, <1>4, <1>5, <1>6, <1>7 DEF Handler

\* cancelRequest() marks a request that has not been reported.
LEMMA CancelInv ==
    ASSUME ClientInv, NEW c \in Cancels, CancelMisses(c) \/ CancelFinds(c) \/ CancelSets(c)
    PROVE  ClientInv'
<1>0. TypeOK /\ Sought /\ Underway /\ Unreported /\ Marked
  BY DEF ClientInv
<1> USE ThreadAssumption DEF Errors, Stages, session, canceller
<1>1. CASE CancelMisses(c)
  <2>1. TypeOK'
    BY <1>0, <1>1 DEF CancelMisses, TypeOK
  <2>2. Sought' /\ Underway' /\ Unreported' /\ Marked'
    BY <1>0, <1>1 DEF CancelMisses, TypeOK, Sought, Underway, Unreported, Marked
  <2> QED BY <2>1, <2>2 DEF ClientInv
<1>2. CASE CancelFinds(c)
  <2>1. TypeOK'
    BY <1>0, <1>2 DEF CancelFinds, TypeOK
  <2>2. Sought' /\ Underway' /\ Unreported' /\ Marked'
    BY <1>0, <1>2 DEF CancelFinds, TypeOK, Sought, Underway, Unreported, Marked
  <2> QED BY <2>1, <2>2 DEF ClientInv
<1>3. CASE CancelSets(c)
  <2> DEFINE s == target[c]
  <2>1. s \in Sessions /\ outcome[s] = "none" /\ cancel[c] = "found" /\ guard = c
    BY <1>0, <1>3 DEF CancelSets, TypeOK, Sought, Unreported
  <2>2. \/ result' = [result EXCEPT ![s] = "aborted"] /\ Pending(s)
        \/ result' = result
    BY <1>3 DEF CancelSets, CancelSocket
  <2>3. cancel' \in [Cancels -> {"uncalled", "found", "hit", "threw", "missed"}]
        /\ cancel'[c] \in {"hit", "threw"} /\ \A d \in Cancels \ {c} : cancel'[d] = cancel[d]
    BY <1>0, <1>3 DEF CancelSets, TypeOK
  <2>4. TypeOK'
    BY <1>0, <1>3, <2>1, <2>2, <2>3 DEF CancelSets, TypeOK
  <2>5. Sought'
    BY <1>0, <1>3, <2>1, <2>3 DEF CancelSets, TypeOK, Sought
  <2>6. Underway'
    BY <1>0, <1>3, <2>1, <2>2 DEF CancelSets, TypeOK, Underway, Pending
  <2>7. Unreported' /\ Marked'
    BY <1>0, <1>3, <2>1 DEF CancelSets, TypeOK, Unreported, Marked
  <2> QED BY <2>4, <2>5, <2>6, <2>7 DEF ClientInv
<1> QED BY <1>1, <1>2, <1>3

\* Every step of the client keeps the invariant.
LEMMA ClientNextInv == ClientInv /\ [Next]_vars => ClientInv'
<1> SUFFICES ASSUME ClientInv, [Next]_vars PROVE ClientInv'
  OBVIOUS
<1>1. CASE UNCHANGED vars
  BY <1>1 DEF vars, session, canceller, ClientInv, TypeOK, Sought, Underway, Unreported, Marked
<1>2. CASE Close \/ JoinThreads
  BY <1>2 DEF Close, JoinThreads, session, canceller, ClientInv, TypeOK, Sought, Underway,
              Unreported, Marked
<1> QED BY <1>1, <1>2, OperationInv, HandlerInv, CancelInv DEF Next

\* A request that cancelRequest() has marked is never reported as a success,
\* although onRequestComplete() reads m_was_cancelled without a lock.
THEOREM CancelIsReported == Spec => []CancelledReported
<1>1. ClientInv => CancelledReported
  BY DEF ClientInv, CancelledReported, Sought, Marked, TypeOK
<1> QED BY <1>1, ClientInitInv, ClientNextInv, PTL DEF Spec

\* No operation is started for a request once it is marked: the handlers of connect
\* and write test m_was_cancelled in the critical section that starts the next one.
THEOREM CancelStopsTheChain == Spec => NoOperationAfterCancel
<1> DEFINE Stays(s) == cancelled[s] /\ stage[s] \in {"connect", "write", "read"}
                          => stage'[s] \in {stage[s], "over"}
<1>1. ClientInv /\ [Next]_vars => [\A s \in Sessions : Stays(s)]_vars
  <2> SUFFICES ASSUME ClientInv, Next, NEW s \in Sessions PROVE Stays(s)
    BY DEF vars
  <2>0. TypeOK
    BY DEF ClientInv
  <2>1. ASSUME NEW t \in Sessions,
               Register(t) \/ StartConnect(t) \/ HandlerGoesOn(t) \/ Report(t)
        PROVE  Stays(s)
    BY <2>0, <2>1 DEF TypeOK, Register, StartConnect, HandlerGoesOn, GoOn, Report
  <2>2. ASSUME stage' = stage PROVE Stays(s)
    BY <2>2
  <2>3. ASSUME NEW t \in Sessions, Complete(t) \/ HandlerLocks(t) \/ HandlerEnds(t)
                                   \/ HandlerCancelled(t) \/ CloseSocket(t) \/ Erase(t)
        PROVE  stage' = stage
    BY <2>3 DEF Complete, HandlerLocks, HandlerEnds, HandlerCancelled, CloseSocket, Erase
  <2>4. ASSUME NEW c \in Cancels, CancelMisses(c) \/ CancelFinds(c) \/ CancelSets(c)
        PROVE  stage' = stage
    BY <2>4 DEF CancelMisses, CancelFinds, CancelSets, session
  <2>5. ASSUME Close \/ JoinThreads \/ UNCHANGED vars PROVE stage' = stage
    BY <2>5 DEF Close, JoinThreads, vars, session
  <2> QED BY <2>1, <2>2, <2>3, <2>4, <2>5 DEF Next, Handler
<1> QED BY <1>1, ClientInitInv, ClientNextInv, PTL DEF Spec, NoOperationAfterCancel
-----------------------------------------------------------------------------
(* The servers.                                                            *)

Served(c) == handling[c] # "none" \/ <<"read", c>> \in busy \/ <<"write", c>> \in busy
Waiting(c) == Among(backlog, c) \/ <<"accept", c>> \in busy

ServersType ==
    /\ kind \in {"iter", "threaded", "async"}
    /\ backlog \in Seq(Peers)
    /\ link \in [Peers -> {"new", "open", "reset", "closed"}]
    /\ handling \in [Peers -> {"none", "read", "write"}]
    /\ busy \subseteq {"accept", "read", "write"} \X Peers
    /\ services \subseteq Peers
    /\ discarded \subseteq Peers

OneStation ==
    /\ NoTwice(backlog)
    /\ ~Among(backlog, Dummy)
    /\ \A c \in Clients :
         /\ Waiting(c) => ~Served(c)
         /\ Waiting(c) \/ Served(c) => link[c] # "new"
         /\ ~(Among(backlog, c) /\ <<"accept", c>> \in busy)
    /\ \A c \in Peers :
         /\ <<"read", c>> \in busy => handling[c] = "none" /\ <<"write", c>> \notin busy
         /\ <<"write", c>> \in busy => handling[c] = "none"

\* The third server has no accept loop, the others have no callbacks.
NoLoop == run \notin {"check", "accept", "read", "write"}

ServersInv ==
    /\ ServersType
    /\ IF kind = "async" THEN OneStation /\ NoLoop ELSE busy = {}
    /\ ServiceLifetime

\* No connection has been made, and no Service.
LEMMA ServersInitInv == ServersInit => ServersInv
<1> SUFFICES ASSUME ServersInit PROVE ServersInv
  OBVIOUS
<1> USE DEF ServersInit
<1>1. ServersType
  BY DEF ServersType
<1>2. ServiceLifetime
  BY DEF ServiceLifetime, Handled
<1>3. \A c : ~Among(backlog, c)
  BY DEF Among
<1>4. NoTwice(backlog)
  BY DEF NoTwice
<1>5. OneStation /\ NoLoop
  BY <1>3, <1>4 DEF OneStation, Served, Waiting, NoLoop, Peers
<1> QED BY <1>1, <1>2, <1>5 DEF ServersInv

\* The steps that serve no connection: whoever was waiting still is, or is no more
\* because the acceptor was closed.
LEMMA ElsewhereInv ==
    ASSUME ServersInv, UNCHANGED <<kind, handling, busy, services, discarded>>,
           backlog' = backlog \/ backlog' = <<>>,
           link' \in [Peers -> {"new", "open", "reset", "closed"}],
           kind = "async" => \A c \in Clients : link'[c] = "new" => link[c] = "new",
           kind = "async" => NoLoop',
           stop = "returned" => stop' = "returned"
    PROVE  ServersInv'
<1>0. backlog' \in Seq(Peers)
  <2>1. backlog \in Seq(Peers)
    BY DEF ServersInv, ServersType
  <2>2. CASE backlog' = <<>>
    BY <2>2
  <2> QED BY <2>1, <2>2
<1>1. ServersType'
  BY <1>0 DEF ServersInv, ServersType
<1>2. ServiceLifetime'
  BY DEF ServersInv, ServiceLifetime, Handled
<1>3. ASSUME kind = "async" PROVE OneStation'
  <2>1. OneStation
    BY <1>3 DEF ServersInv
  <2>2. NoTwice(backlog)'
    BY <2>1 DEF OneStation, NoTwice
  <2>3. \A c : Among(backlog, c)' => Among(backlog, c)
    BY DEF Among
  <2>4. \A c \in Peers : (Served(c)' <=> Served(c)) /\ (Waiting(c)' => Waiting(c))
    BY <2>3 DEF Served, Waiting
  <2> QED BY <1>3, <2>1, <2>2, <2>3, <2>4 DEF OneStation, Peers
<1> QED BY <1>1, <1>2, <1>3 DEF ServersInv

\* What a peer's link is after the server's side of some connections went away.
LEMMA ResetLinks ==
    ASSUME NEW S, ServersType
    PROVE  /\ Reset(S) \in [Peers -> {"new", "open", "reset", "closed"}]
           /\ \A c \in Peers : Reset(S)[c] = "new" => link[c] = "new"
BY DEF Reset, ServersType

\* The clients: a connection begins in the backlog.
LEMMA ClientsInv ==
    ASSUME ServersInv, NEW c \in Clients, Connect(c) \/ sendRequest(c) \/ CloseClient(c)
    PROVE  ServersInv'
<1>0. ServersType /\ c \in Peers
  BY DEF ServersInv, Peers
<1>1. CASE Connect(c)
  <2> USE <1>1 DEF Connect, server
  <2>1. ServersType'
    <3>1. backlog' \in Seq(Peers)
      BY <1>0 DEF ServersType
    <3>2. link' \in [Peers -> {"new", "open", "reset", "closed"}]
      BY <1>0 DEF ServersType
    <3> QED BY <1>0, <3>1, <3>2 DEF ServersType
  <2>2. ServiceLifetime'
    BY DEF ServersInv, ServiceLifetime, Handled
  <2>3. ASSUME kind = "async" PROVE OneStation'
    <3>1. OneStation /\ link[c] = "new" /\ ~Waiting(c) /\ ~Served(c) /\ ~Among(backlog, c)
      BY <2>3 DEF ServersInv, OneStation, Waiting
    <3>2. \A p : Among(backlog, p)' <=> Among(backlog, p) \/ p = c
      BY <1>0, AmongAppend DEF ServersType
    <3>3. NoTwice(backlog)' /\ ~Among(backlog, Dummy)'
      BY <1>0, <3>1, <3>2, NoTwiceAppend, ServersAssumption DEF ServersType, OneStation
    <3>4. \A p \in Peers : Served(p)' <=> Served(p)
      BY DEF Served
    <3>5. \A p \in Peers : Waiting(p)' <=> Waiting(p) \/ p = c
      BY <3>2 DEF Waiting
    <3>6. \A p \in Clients : p # c => link'[p] = link[p]
      BY <1>0 DEF ServersType, Peers
    <3>7. link'[c] = "open" /\ <<"accept", c>> \notin busy
      BY <1>0, <3>1 DEF ServersType, Waiting
    <3> QED BY <3>1, <3>2, <3>3, <3>4, <3>5, <3>6, <3>7 DEF OneStation, Peers
  <2> QED BY <2>1, <2>2, <2>3 DEF ServersInv, NoLoop
<1>2. CASE sendRequest(c)
  BY <1>0, <1>2, ElsewhereInv DEF sendRequest, server, ServersType, ServersInv, NoLoop
<1>3. CASE CloseClient(c)
  BY <1>0, <1>3, ElsewhereInv DEF CloseClient, server, ServersType, Peers, ServersInv, NoLoop
<1> QED BY <1>1, <1>2, <1>3

\* The accept loop and the threads of the first two servers, which run no callbacks.
LEMMA LoopInv ==
    ASSUME ServersInv, LoopStep \/ start PROVE ServersInv'
<1>0. ServersType /\ ServiceLifetime
  BY DEF ServersInv
<1>1. CASE Open \/ handleClientRead \/ handleClientWrite \/ start
  BY <1>0, <1>1, ElsewhereInv
  DEF Open, handleClientRead, handleClientWrite, start, network, ServersType, ServersInv, NoLoop
<1>2. CASE CheckStop
  BY <1>0, <1>2, ElsewhereInv, ResetLinks DEF CheckStop, ServersType, ServersInv, NoLoop
<1>3. CASE accept
  <2> USE <1>3 DEF accept
  <2>1. Head(backlog) \in Peers /\ Tail(backlog) \in Seq(Peers)
    BY <1>0, TailType DEF ServersType
  <2>2. ServersType'
    BY <1>0, <2>1 DEF ServersType
  <2>4. discarded = {} /\ discarded' = {}
    BY <1>0 DEF ServersInv, ServiceLifetime, NoLoop
  <2>3. ServiceLifetime'
    <3>1. CASE kind = "iter"
      BY <1>0, <2>4, <3>1 DEF ServiceLifetime, Handled
    <3>2. CASE kind # "iter"
      <4>1. handling' = [handling EXCEPT ![Head(backlog)] = "read"]
            /\ services' = services \cup {Head(backlog)} /\ busy' = busy
        BY <3>2
      <4>2. Handled' = Handled \cup {Head(backlog)}
        BY <1>0, <2>1, <4>1 DEF Handled, ServersType
      <4> QED BY <1>0, <2>4, <4>1, <4>2 DEF ServiceLifetime
    <3> QED BY <3>1, <3>2
  <2> QED BY <2>2, <2>3 DEF ServersInv, NoLoop
<1> QED BY <1>1, <1>2, <1>3 DEF LoopStep

\* The threads of the second server delete their Service when they end.
LEMMA ThreadsInv ==
    ASSUME ServersInv, NEW c \in Peers, ThreadReads(c) \/ ThreadWrites(c)
    PROVE  ServersInv'
<1>0. ServersType /\ ServiceLifetime /\ kind # "async" /\ busy = {}
  BY DEF ServersInv, ThreadReads, ThreadWrites
<1>1. ServersType' /\ kind' = kind /\ busy' = busy
  BY <1>0 DEF ServersType, ThreadReads, ThreadWrites, network
<1>2. ServiceLifetime'
  BY <1>0 DEF ServiceLifetime, Handled, ServersType, ThreadReads, ThreadWrites
<1> QED BY <1>0, <1>1, <1>2 DEF ServersInv

\* stop() of the three servers; only the first two make the dummy connection.
LEMMA StopInv ==
    ASSUME ServersInv, StopStep PROVE ServersInv'
<1>0. ServersType /\ Dummy \in Peers
  BY DEF ServersInv, Peers
<1>1. CASE stopFlag \/ stopService
  BY <1>0, <1>1, ElsewhereInv
  DEF stopFlag, stopService, network, server, ServersType, ServersInv, NoLoop
<1>2. CASE send_dummy_request
  <2> USE <1>2 DEF send_dummy_request, server
  <2>1. CASE ~Listening
    BY <1>0, <2>1, ElsewhereInv, ResetLinks DEF Throw, ServersInv, NoLoop
  <2>2. CASE Listening
    <3>0. /\ backlog' = Append(backlog, Dummy) /\ link' = [link EXCEPT ![Dummy] = "open"]
          /\ UNCHANGED <<kind, handling, busy, services, discarded>>
      BY <2>2
    <3>1. ServersType'
      <4>1. backlog' \in Seq(Peers)
        BY <1>0, <3>0 DEF ServersType
      <4>2. link' \in [Peers -> {"new", "open", "reset", "closed"}]
        BY <1>0, <3>0 DEF ServersType
      <4> QED BY <1>0, <3>0, <4>1, <4>2 DEF ServersType
    <3>2. ServiceLifetime'
      BY <2>2 DEF ServersInv, ServiceLifetime, Handled
    <3> QED BY <3>1, <3>2 DEF ServersInv
  <2> QED BY <2>1, <2>2
<1>3. CASE DummyRequest
  <2>1. link' \in [Peers -> {"new", "open", "reset", "closed"}]
    BY <1>0, <1>3, ResetLinks DEF DummyRequest, Throw, ServersType
  <2>2. \A c \in Clients : link'[c] = "new" => link[c] = "new"
    BY <1>0, <1>3, ResetLinks, ServersAssumption DEF DummyRequest, Throw, ServersType, Peers
  <2> QED BY <1>3, <2>1, <2>2, ElsewhereInv DEF DummyRequest, server, ServersInv, NoLoop
<1>4. CASE join
  <2> USE <1>4 DEF join
  <2>1. \A c \in Clients : link'[c] = "new" => link[c] = "new"
    BY <1>0, ResetLinks DEF Peers
  <2>2. CASE kind # "async"
    BY <1>0, <2>1, <2>2, ElsewhereInv, ResetLinks DEF ServersInv, NoLoop
  <2>3. CASE kind = "async"
    <3>1. ServersType'
      BY <1>0, <2>3, ResetLinks DEF ServersType
    <3>2. ServiceLifetime'
      BY <1>0, <2>3 DEF ServersInv, ServiceLifetime, Handled
    <3>3. OneStation /\ NoLoop
      BY <2>3 DEF ServersInv
    <3>4. \A c \in Peers : ~Served(c)' /\ (Waiting(c)' <=> Waiting(c))
      BY <2>3 DEF Served, Waiting, Among
    <3>5. NoTwice(backlog)' /\ \A c : Among(backlog, c)' <=> Among(backlog, c)
      BY <3>3 DEF OneStation, NoTwice, Among
    <3>6. OneStation'
      BY <2>1, <2>3, <3>3, <3>4, <3>5 DEF OneStation, Peers
    <3> QED BY <2>3, <3>1, <3>2, <3>3, <3>6 DEF ServersInv, NoLoop
  <2> QED BY <2>2, <2>3
<1> QED BY <1>1, <1>2, <1>3, <1>4 DEF StopStep

\* A thread of the pool takes a callback that is due: the connection leaves the
\* backlog for the accept, or its pending operation for the callback.
LEMMA BeginInv ==
    ASSUME ServersInv,
           \/ BeginAccept \/ BeginAcceptError
           \/ \E c \in Peers : BeginRequestReceived(c) \/ BeginResponseSent(c)
    PROVE  ServersInv'
<1>0. ServersType /\ ServiceLifetime /\ OneStation /\ NoLoop /\ kind = "async" /\ Dummy \in Peers
  BY DEF ServersInv, BeginAccept, BeginAcceptError, BeginRequestReceived, BeginResponseSent,
         Begin, Peers
<1>1. CASE BeginAccept
  <2> USE <1>1 DEF BeginAccept, Begin
  <2> DEFINE c == Head(backlog)
  <2>1. c \in Peers /\ Tail(backlog) \in Seq(Peers)
    BY <1>0, TailType DEF ServersType
  <2>2. NoTwice(backlog)' /\ Among(backlog, c) /\ ~Among(backlog', c)
    BY <1>0, NoTwiceTail DEF OneStation, ServersType
  <2>3. \A p : Among(backlog, p)' => Among(backlog, p)
    BY <1>0, AmongTail DEF ServersType
  <2>4. c \in Clients
    BY <1>0, <2>1, <2>2 DEF OneStation, Peers
  <2> HIDE DEF c
  <2>5. busy' = busy \cup {<<"accept", c>>}
    BY DEF c
  <2>6. ServersType'
    BY <1>0, <2>1, <2>5 DEF ServersType, c
  <2>7. \A p \in Peers : Served(p)' <=> Served(p)
    BY <2>5 DEF Served
  <2>8. \A p \in Peers : Waiting(p)' => Waiting(p)
    BY <2>2, <2>3, <2>5 DEF Waiting
  <2>9. ServiceLifetime'
    BY <1>0, <2>5 DEF ServiceLifetime, Handled
  <2>10. ASSUME NEW p \in Clients
         PROVE ~(Among(backlog, p)' /\ <<"accept", p>> \in busy')
    BY <1>0, <2>2, <2>3, <2>5 DEF OneStation
  <2>11. \A p \in Peers : /\ <<"read", p>> \in busy' <=> <<"read", p>> \in busy
                          /\ <<"write", p>> \in busy' <=> <<"write", p>> \in busy
    BY <2>5
  <2>12. link' = link /\ handling' = handling /\ ~Among(backlog, Dummy)'
    BY <1>0, <2>3 DEF OneStation
  <2>13. OneStation'
    BY <1>0, <2>2, <2>7, <2>8, <2>10, <2>11, <2>12 DEF OneStation, Peers
  <2> QED BY <1>0, <2>6, <2>9, <2>13 DEF ServersInv, NoLoop
<1>2. CASE BeginAcceptError
  <2> USE <1>2 DEF BeginAcceptError, Begin
  <2>1. \A p \in Peers : /\ <<"read", p>> \in busy' <=> <<"read", p>> \in busy
                         /\ <<"write", p>> \in busy' <=> <<"write", p>> \in busy
    OBVIOUS
  <2>2. \A p \in Clients : <<"accept", p>> \in busy' <=> <<"accept", p>> \in busy
    BY ServersAssumption
  <2>3. ServersType'
    BY <1>0 DEF ServersType
  <2>4. ServiceLifetime'
    BY <1>0, <2>1 DEF ServiceLifetime, Handled
  <2>5. \A p \in Peers : Served(p)' <=> Served(p)
    BY <2>1 DEF Served
  <2>6. \A p \in Clients : Waiting(p)' <=> Waiting(p)
    BY <2>2 DEF Waiting
  <2>7. OneStation'
    BY <1>0, <2>1, <2>2, <2>5, <2>6 DEF OneStation, Peers
  <2> QED BY <1>0, <2>3, <2>4, <2>7 DEF ServersInv, NoLoop
<1>3. ASSUME NEW c \in Peers, NEW which \in {"read", "write"}, handling[c] = which,
             Begin(which, c), handling' = [handling EXCEPT ![c] = "none"],
             UNCHANGED backlog
      PROVE  ServersInv'
  <2> USE <1>3 DEF Begin
  <2>1. \A p \in Peers : handling'[p] = IF p = c THEN "none" ELSE handling[p]
    BY <1>0 DEF ServersType
  <2>2. \A p \in Peers, w \in {"accept", "read", "write"} :
           <<w, p>> \in busy' <=> <<w, p>> \in busy \/ (w = which /\ p = c)
    OBVIOUS
  <2>3. <<"read", c>> \notin busy /\ <<"write", c>> \notin busy
    BY <1>0 DEF OneStation
  <2>4. ServersType'
    BY <1>0 DEF ServersType
  <2>5. \A p \in Peers : Served(p)' <=> Served(p)
    BY <2>1, <2>2 DEF Served
  <2>6. \A p \in Peers : Waiting(p)' <=> Waiting(p)
    BY <2>2 DEF Waiting
  <2>7. ServiceLifetime'
    BY <1>0, <2>1, <2>2 DEF ServiceLifetime, Handled
  <2>8. OneStation'
    BY <1>0, <2>1, <2>2, <2>3, <2>5, <2>6 DEF OneStation, Peers
  <2> QED BY <1>0, <2>4, <2>7, <2>8 DEF ServersInv, NoLoop
<1> QED BY <1>1, <1>2, <1>3 DEF BeginRequestReceived, BeginResponseSent

\* A callback ends: it goes on to the next operation of its connection, or deletes
\* the Service, for which nothing is pending.
LEMMA CallbackInv ==
    ASSUME ServersInv, NEW c \in Peers, Callback(c) PROVE ServersInv'
<1>0. ServersType /\ ServiceLifetime /\ OneStation /\ NoLoop /\ kind = "async"
  BY DEF ServersInv, Callback, onAccept, onRequestReceived, onResponseSent, End
<1>1. CASE onAccept(c)
  <2> USE <1>1 DEF onAccept, End
  <2>1. \A p \in Peers, w \in {"accept", "read", "write"} :
           <<w, p>> \in busy' <=> <<w, p>> \in busy /\ ~(w = "accept" /\ p = c)
    OBVIOUS
  <2>2. \/ backlog' = backlog /\ link' = link /\ run' = run
        \/ backlog' = <<>> /\ link' = Reset(Queued) /\ run' = "done"
    OBVIOUS
  <2>7. backlog' \in Seq(Peers)
    <3>1. CASE backlog' = <<>>
      BY <3>1
    <3> QED BY <1>0, <2>2, <3>1 DEF ServersType
  <2>3. /\ link' \in [Peers -> {"new", "open", "reset", "closed"}]
        /\ \A p \in Peers : link'[p] = "new" => link[p] = "new"
    BY <1>0, <2>2, ResetLinks DEF ServersType
  <2>4. NoTwice(backlog)' /\ \A p : Among(backlog, p)' => Among(backlog, p)
    BY <1>0, <2>2 DEF OneStation, NoTwice, Among
  <2>5. CASE c = Dummy
    <3>1. handling' = handling /\ services' = services
      BY <2>5
    <3>2. ServersType'
      BY <1>0, <2>3, <2>7, <3>1 DEF ServersType
    <3>3. ServiceLifetime'
      BY <1>0, <2>1, <3>1 DEF ServiceLifetime, Handled
    <3>4. \A p \in Peers : (Served(p)' <=> Served(p)) /\ (Waiting(p)' => Waiting(p))
      BY <2>1, <2>4, <3>1 DEF Served, Waiting
    <3>5. OneStation'
      BY <1>0, <2>1, <2>3, <2>4, <3>1, <3>4 DEF OneStation, Peers
    <3> QED BY <1>0, <2>2, <3>2, <3>3, <3>5 DEF ServersInv, NoLoop
  <2>6. CASE c # Dummy
    <3>1. /\ \A p \in Peers : handling'[p] = IF p = c THEN "read" ELSE handling[p]
          /\ services' = services \cup {c}
      BY <1>0, <2>6 DEF ServersType
    <3>2. c \in Clients /\ Waiting(c) /\ ~Served(c) /\ link[c] # "new" /\ ~Among(backlog, c)
      BY <1>0, <2>6 DEF Peers, Waiting, OneStation
    <3>3. ServersType'
      BY <1>0, <2>3, <2>6, <2>7 DEF ServersType
    <3>4. ServiceLifetime'
      <4>1. discarded = {} /\ discarded' = {}
        BY <1>0 DEF ServiceLifetime, Alive
      <4>2. Handled' = Handled \cup {c}
        BY <1>0, <2>1, <3>1 DEF Handled
      <4> QED BY <1>0, <3>1, <4>1, <4>2 DEF ServiceLifetime
    <3>5. \A p \in Peers : /\ Served(p)' <=> Served(p) \/ p = c
                           /\ Waiting(p)' => Waiting(p) /\ p # c
      BY <2>1, <2>4, <3>1, <3>2 DEF Served, Waiting
    <3>6. OneStation'
      BY <1>0, <2>1, <2>3, <2>4, <3>1, <3>2, <3>5 DEF OneStation, Peers, Served
    <3> QED BY <1>0, <2>2, <3>3, <3>4, <3>6 DEF ServersInv, NoLoop
  <2> QED BY <2>5, <2>6
<1>2. ASSUME NEW which \in {"read", "write"}, End(which, c), UNCHANGED <<backlog, link, run>>,
             \/ /\ handling' = [handling EXCEPT ![c] = "write"]
                /\ UNCHANGED services
             \/ onFinish(c) /\ UNCHANGED handling
      PROVE  ServersInv'
  <2> USE <1>2 DEF End, onFinish
  <2>1. \A p \in Peers, w \in {"accept", "read", "write"} :
           <<w, p>> \in busy' <=> <<w, p>> \in busy /\ ~(w = which /\ p = c)
    OBVIOUS
  <2>2. handling[c] = "none" /\ Served(c) /\ \A w \in {"read", "write"} : <<w, c>> \notin busy'
    BY <1>0, <2>1 DEF OneStation, Served
  <2>3. \A p \in Peers : p # c => handling'[p] = handling[p]
    BY <1>0 DEF ServersType
  <2>4. ServersType'
    BY <1>0 DEF ServersType
  <2>5. ServiceLifetime'
    <3>1. CASE UNCHANGED handling
      BY <1>0, <2>1, <2>2, <2>3, <3>1 DEF ServiceLifetime, Handled, ServersType
    <3>2. CASE handling' = [handling EXCEPT ![c] = "write"]
      BY <1>0, <2>1, <2>2, <2>3, <3>2 DEF ServiceLifetime, Handled, ServersType, Served
    <3> QED BY <3>1, <3>2
  <2>6. \A p \in Peers : (Served(p)' => Served(p)) /\ (Waiting(p)' <=> Waiting(p))
    BY <2>1, <2>2, <2>3 DEF Served, Waiting
  <2>7. OneStation'
    BY <1>0, <2>1, <2>2, <2>3, <2>6 DEF OneStation, Peers
  <2> QED BY <1>0, <2>4, <2>5, <2>7 DEF ServersInv, NoLoop
<1> QED BY <1>1, <1>2 DEF Callback, onRequestReceived, onResponseSent

\* Under every order of connections, requests, errors, callbacks and stop(), delete
\* this never leaves a callback or a thread with a Service that is gone, and a
\* Service whose connection is no longer handled is there only if m_ios.stop() of
\* the third server discarded the operation it was waiting for.
THEOREM ServicesLiveLongEnough == ServersSpec => []ServiceLifetime
<1>1. ServersInv /\ [ServersNext]_serversVars => ServersInv'
  <2> SUFFICES ASSUME ServersInv, [ServersNext]_serversVars PROVE ServersInv'
    OBVIOUS
  <2>1. CASE UNCHANGED serversVars
    BY <2>1, ElsewhereInv DEF serversVars, network, server, ServersInv, ServersType, NoLoop
  <2> QED BY <2>1, ClientsInv, LoopInv, ThreadsInv, StopInv, BeginInv, CallbackInv DEF ServersNext
<1>2. ServersInv => ServiceLifetime
  BY DEF ServersInv
<1> QED BY <1>1, <1>2, ServersInitInv, PTL DEF ServersSpec
=============================================================================
