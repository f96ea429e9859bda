--------------------------- MODULE AsyncTcpClient ---------------------------
(***************************************************************************)
(* The asynchronous TCP clients of                                         *)
(* boost/boost_asio/socket/dummy_application: async_tcp_client_threaded.cpp*)
(* (a pool of threads runs the handlers) and async_tcp_client.cpp (the     *)
(* same client with one thread).                                           *)
(*                                                                         *)
(* A request connects, writes and reads; each completion handler starts    *)
(* the next operation under the session's m_cancel_guard.  Any thread may  *)
(* call cancelRequest() at any time.  The map and its mutex                *)
(* m_active_sessions_guard are taken and released in one step, except by   *)
(* cancelRequest(), which takes m_cancel_guard while it holds the other.   *)
(* A session's id is the session itself: main() gives every request an id  *)
(* of its own.                                                             *)
(***************************************************************************)
EXTENDS Integers, FiniteSets

CONSTANTS
    Sessions,       \* requests
    Cancels,        \* calls of cancelRequest()
    NumThreads,     \* num_of_threads
    Repeat,         \* may a request be cancelled more than once?
    Nobody          \* a mutex that is free

ASSUME ThreadAssumption == NumThreads \in Nat \ {0} /\ Nobody \notin Cancels

VARIABLES
    stage,      \* the session's pending operation: "new", "registered", ...
    result,     \* how it completed: "pending", "ok", "error", "aborted"
    handler,    \* where its completion handler is: "idle", "lock", ...
    active,     \* m_active_sessions
    guard,      \* holder of m_active_sessions_guard
    cguard,     \* is a session's m_cancel_guard held by its handler?
    cancelled,  \* m_was_cancelled
    sock,       \* is m_sock open?
    ec,         \* m_ec, "ok" is 0
    outcome,    \* what the callback was given, "none" before
    cancel,     \* where each call of cancelRequest() is
    target,     \* the session it is for
    main        \* "running", "closing", "closed"

session == <<stage, result, handler, sock, ec, outcome>>
canceller == <<cancel, target>>
vars == <<session, active, guard, cguard, cancelled, canceller, main>>

Stages == {"new", "registered", "connect", "write", "read", "over"}
Errors == {"error", "aborted"}

TypeOK ==
    /\ stage \in [Sessions -> Stages]
    /\ result \in [Sessions -> {"pending", "ok"} \cup Errors]
    /\ handler \in [Sessions -> {"idle", "lock", "close", "erase", "report"}]
    /\ active \subseteq Sessions
    /\ guard \in Cancels \cup {Nobody}
    /\ cguard \in [Sessions -> BOOLEAN] /\ cancelled \in [Sessions -> BOOLEAN]
    /\ sock \in [Sessions -> BOOLEAN]
    /\ ec \in [Sessions -> {"ok"} \cup Errors]
    /\ outcome \in [Sessions -> {"none", "ok"} \cup Errors]
    /\ cancel \in [Cancels -> {"uncalled", "found", "hit", "threw", "missed"}]
    /\ target \in [Cancels -> Sessions]
    /\ main \in {"running", "closing", "closed"}

Init ==
    /\ stage = [s \in Sessions |-> "new"]
    /\ result = [s \in Sessions |-> "pending"]
    /\ handler = [s \in Sessions |-> "idle"]
    /\ active = {} /\ guard = Nobody
    /\ cguard = [s \in Sessions |-> FALSE]
    /\ cancelled = [s \in Sessions |-> FALSE]
    /\ sock = [s \in Sessions |-> FALSE]
    /\ ec = [s \in Sessions |-> "ok"]
    /\ outcome = [s \in Sessions |-> "none"]
    /\ cancel = [c \in Cancels |-> "uncalled"]
    /\ target \in [Cancels -> Sessions]
    /\ ~Repeat => \A c, d \in Cancels : c # d => target[c] # target[d]
    /\ main = "running"

-----------------------------------------------------------------------------
(* emulateLongComputationOp(), called by the main thread.                  *)

Register(s) ==
    /\ main = "running" /\ stage[s] = "new" /\ guard = Nobody
    /\ \A t \in Sessions : stage[t] # "registered"
    /\ stage' = [stage EXCEPT ![s] = "registered"]
    /\ sock' = [sock EXCEPT ![s] = TRUE]
    /\ active' = active \cup {s}
    /\ UNCHANGED <<result, handler, ec, outcome, guard, cguard, cancelled, canceller, main>>

StartConnect(s) ==
    /\ stage[s] = "registered"
    /\ stage' = [stage EXCEPT ![s] = "connect"]
    /\ UNCHANGED <<result, handler, sock, ec, outcome, active, guard, cguard, cancelled, canceller, main>>

-----------------------------------------------------------------------------
(* The io_service: an operation completes, a free thread runs its handler. *)

Pending(s) == stage[s] \in {"connect", "write", "read"} /\ result[s] = "pending"

Complete(s) ==
    /\ Pending(s)
    /\ \E r \in {"ok", "error"} : result' = [result EXCEPT ![s] = r]
    /\ UNCHANGED <<stage, handler, sock, ec, outcome, active, guard, cguard, cancelled, canceller, main>>

ThreadFree == Cardinality({t \in Sessions : handler[t] # "idle"}) < NumThreads

Runnable(s) == handler[s] = "idle" /\ result[s] # "pending" /\ stage[s] # "over" /\ ThreadFree

\* Only the handlers of connect and write lock m_cancel_guard, and only if
\* their operation succeeded.
HandlerLocks(s) ==
    /\ Runnable(s) /\ result[s] = "ok" /\ stage[s] # "read"
    /\ handler' = [handler EXCEPT ![s] = "lock"]
    /\ UNCHANGED <<stage, result, sock, ec, outcome, active, guard, cguard, cancelled, canceller, main>>

HandlerEnds(s) ==
    /\ Runnable(s) /\ (result[s] # "ok" \/ stage[s] = "read")
    /\ handler' = [handler EXCEPT ![s] = "close"]
    /\ ec' = [ec EXCEPT ![s] = result[s]]
    /\ UNCHANGED <<stage, result, sock, outcome, active, guard, cguard, cancelled, canceller, main>>

GoOnUnchecked(s) == handler[s] = "lock" /\ ~cguard[s]

GoOn(s) == handler[s] = "lock" /\ ~cguard[s] /\ ~cancelled[s]

HandlerWritesAgain(s) ==
    /\ GoOn(s)
    /\ stage' = [stage EXCEPT ![s] = "write"]
    /\ result' = [result EXCEPT ![s] = "pending"]
    /\ handler' = [handler EXCEPT ![s] = "idle"]
    /\ UNCHANGED <<sock, ec, outcome, active, guard, cguard, cancelled, canceller, main>>

\* Not cancelled: the next operation is started before the guard is released.
HandlerGoesOn(s) ==
    /\ GoOn(s)
    /\ stage' = [stage EXCEPT ![s] = IF @ = "connect" THEN "write" ELSE "read"]
    /\ result' = [result EXCEPT ![s] = "pending"]
    /\ handler' = [handler EXCEPT ![s] = "idle"]
    /\ UNCHANGED <<sock, ec, outcome, active, guard, cguard, cancelled, canceller, main>>

HandlerReturns(s) ==
    /\ handler[s] = "lock" /\ ~cguard[s] /\ cancelled[s]
    /\ handler' = [handler EXCEPT ![s] = "idle"]
    /\ result' = [result EXCEPT ![s] = "pending"]
    /\ stage' = [stage EXCEPT ![s] = "over"]
    /\ UNCHANGED <<sock, ec, outcome, active, guard, cguard, cancelled, canceller, main>>

\* Cancelled: onRequestComplete() is called with m_cancel_guard held.
HandlerCancelled(s) ==
    /\ handler[s] = "lock" /\ ~cguard[s] /\ cancelled[s]
    /\ handler' = [handler EXCEPT ![s] = "close"]
    /\ cguard' = [cguard EXCEPT ![s] = TRUE]
    /\ UNCHANGED <<stage, result, sock, ec, outcome, active, guard, cancelled, canceller, main>>

-----------------------------------------------------------------------------
(* onRequestComplete()                                                     *)

CloseSocket(s) ==
    /\ handler[s] = "close"
    /\ handler' = [handler EXCEPT ![s] = "erase"]
    /\ sock' = [sock EXCEPT ![s] = FALSE]
    /\ UNCHANGED <<stage, result, ec, outcome, active, guard, cguard, cancelled, canceller, main>>

Erase(s) ==
    /\ handler[s] = "erase" /\ guard = Nobody
    /\ handler' = [handler EXCEPT ![s] = "report"]
    /\ active' = active \ {s}
    /\ UNCHANGED <<stage, result, sock, ec, outcome, guard, cguard, cancelled, canceller, main>>

\* The error code is computed after the mutex is released.  The lock on
\* m_cancel_guard, if any, ends with the handler.
Report(s) ==
    /\ handler[s] = "report"
    /\ outcome' = [outcome EXCEPT ![s] = IF ec[s] = "ok" /\ cancelled[s] THEN "aborted" ELSE ec[s]]
    /\ handler' = [handler EXCEPT ![s] = "idle"]
    /\ stage' = [stage EXCEPT ![s] = "over"]
    /\ cguard' = [cguard EXCEPT ![s] = FALSE]
    /\ UNCHANGED <<result, sock, ec, active, guard, cancelled, canceller, main>>

-----------------------------------------------------------------------------
(* cancelRequest()                                                         *)

CancelMisses(c) ==
    /\ cancel[c] = "uncalled" /\ guard = Nobody /\ target[c] \notin active
    /\ cancel' = [cancel EXCEPT ![c] = "missed"]
    /\ UNCHANGED <<session, active, guard, cguard, cancelled, target, main>>

CancelFindsUnlocked(c) ==
    /\ cancel[c] = "uncalled" /\ guard = Nobody /\ target[c] \in active
    /\ cancel' = [cancel EXCEPT ![c] = "found"]
    /\ UNCHANGED <<session, active, guard, cguard, cancelled, target, main>>

CancelFinds(c) ==
    /\ cancel[c] = "uncalled" /\ guard = Nobody /\ target[c] \in active
    /\ cancel' = [cancel EXCEPT ![c] = "found"]
    /\ guard' = c
    /\ UNCHANGED <<session, active, cguard, cancelled, target, main>>

\* m_sock.cancel() completes the pending operation with operation_aborted.
\* async_write and async_read_until are made of several operations: between
\* two of them there is nothing to cancel and they go on.
CancelSocket(s) ==
    \/ Pending(s) /\ result' = [result EXCEPT ![s] = "aborted"]
    \/ ~(Pending(s) /\ stage[s] = "connect") /\ UNCHANGED result

\* m_sock.cancel() throws if onRequestComplete() has closed the socket.
CancelSets(c) ==
    LET s == target[c]
    IN  /\ cancel[c] = "found" /\ ~cguard[s]
        /\ cancelled' = [cancelled EXCEPT ![s] = TRUE]
        /\ \/ sock[s] /\ CancelSocket(s) /\ cancel' = [cancel EXCEPT ![c] = "hit"]
           \/ ~sock[s] /\ UNCHANGED result /\ cancel' = [cancel EXCEPT ![c] = "threw"]
        /\ guard' = Nobody
        /\ UNCHANGED <<stage, handler, sock, ec, outcome, active, cguard, target, main>>

-----------------------------------------------------------------------------
(* close(): without the work object run() returns when nothing is pending. *)

Close ==
    /\ main = "running" /\ \A s \in Sessions : stage[s] # "registered"
    /\ main' = "closing"
    /\ UNCHANGED <<session, active, guard, cguard, cancelled, canceller>>

JoinThreads ==
    /\ main = "closing" /\ \A s \in Sessions : stage[s] \in {"new", "over"}
    /\ main' = "closed"
    /\ UNCHANGED <<session, active, guard, cguard, cancelled, canceller>>

Handler(s) ==
    \/ HandlerLocks(s) \/ HandlerEnds(s) \/ HandlerGoesOn(s) \/ HandlerCancelled(s)
    \/ CloseSocket(s) \/ Erase(s) \/ Report(s)

Next ==
    \/ \E s \in Sessions : Register(s) \/ StartConnect(s) \/ Complete(s) \/ Handler(s)
    \/ \E c \in Cancels : CancelMisses(c) \/ CancelFinds(c) \/ CancelSets(c)
    \/ Close \/ JoinThreads
    \/ (main = "closed" /\ UNCHANGED vars)

\* Threads keep running, and every operation completes: the peer answers or
\* the connection fails.  Nobody has to cancel or close anything.
Fairness ==
    /\ \A s \in Sessions : WF_vars(StartConnect(s)) /\ WF_vars(Complete(s)) /\ WF_vars(Handler(s))
    /\ \A c \in Cancels : WF_vars(CancelSets(c))
    /\ WF_vars(JoinThreads)

Spec == Init /\ [][Next]_vars
FairSpec == Spec /\ Fairness

-----------------------------------------------------------------------------
(* A request that cancelRequest() has marked is never reported as a        *)
(* success, although onRequestComplete() reads the mark without a lock.    *)
CancelledReported ==
    /\ TypeOK
    /\ \A c \in Cancels : cancel[c] \in {"hit", "threw"} => outcome[target[c]] # "ok"

(* Once a request is marked, no further operation of the chain is started  *)
(* for it ("we check the cancel status between each call").                *)
NoOperationAfterCancel ==
    [][\A s \in Sessions : cancelled[s] /\ stage[s] \in {"connect", "write", "read"}
           => stage'[s] \in {stage[s], "over"}]_vars

(* Every request ends with its callback, however it is cancelled.          *)
CalledBack == \A s \in Sessions : stage[s] = "registered" ~> outcome[s] # "none"

(* close() returns after all asynchronous operations are completed.        *)
CloseReturns == main = "closing" ~> main = "closed"
=============================================================================
