----------------------------- MODULE Handshake -----------------------------
(***************************************************************************)
(* The programs of books/ldxcfwqbc/02_thread_synchronization whose threads *)
(* wait for one another through condition variables:                       *)
(*   latch  count_down_latch.cpp    main() and its workers, two Latches    *)
(*   turns  onetwothree.cpp         a(), b() and c() print 1, 2 and 3      *)
(*   data   condition_variable.cpp  main() and a worker pass data          *)
(*                                                                         *)
(* A thread is a sequence of critical sections.  Each waits until certain  *)
(* events have happened, makes an event happen and notifies the threads    *)
(* asleep in a condition variable, after the mutex is released (a step of  *)
(* its own) or, in a Latch, before and only if its count has reached 0.    *)
(***************************************************************************)
EXTENDS Naturals, Sequences

CONSTANT Jobs    \* workers of count_down_latch.cpp

VARIABLES
    handshake,    \* the program
    happened,     \* a_finish, b_finish, ready, processed; the count_downs of a Latch
    at,           \* the critical section each thread is at
    asleep,       \* threads asleep in a condition variable
    notifying     \* threads that have released the mutex and not notified yet

handshakeVars == <<handshake, happened, at, asleep, notifying>>

Section(cv, needs, makes) == [cv |-> cv, needs |-> needs, makes |-> makes]

\* The threads of each program.  main() of onetwothree.cpp only joins.
latch ==
    [t \in Jobs \cup {"main"} |->
       IF t = "main" THEN << Section("work_done", Jobs, {}),
                             Section("start_clean_up", {}, {"clean"}) >>
                     ELSE << Section("work_done", {}, {t}),
                             Section("start_clean_up", {"clean"}, {}) >>]
turns ==
    [t \in {"a", "b", "c"} |->
       CASE t = "a" -> << Section("cv", {}, {"a_finish"}) >>
         [] t = "b" -> << Section("cv", {"a_finish"}, {"b_finish"}) >>
         [] t = "c" -> << Section("cv", {"b_finish"}, {"b_finish"}) >>]
data ==
    [t \in {"main", "worker"} |->
       IF t = "main" THEN << Section("cv", {}, {"ready"}), Section("cv", {"processed"}, {}) >>
                     ELSE << Section("cv", {"ready"}, {"processed"}) >>]

Programs == {"latch", "turns", "data"}
Script(p) == CASE p = "latch" -> latch [] p = "turns" -> turns [] p = "data" -> data
AllThreads == UNION {DOMAIN Script(p) : p \in Programs}
Threads == DOMAIN Script(handshake)
Now(t) == Script(handshake)[t][at[t]]
Ended(t) == at[t] > Len(Script(handshake)[t])

HandshakeInit ==
    /\ handshake \in Programs
    /\ happened = {}
    /\ at = [t \in AllThreads |-> 1]
    /\ asleep = {} /\ notifying = {}

Waiters(cv) == {t \in asleep : Now(t).cv = cv}

\* What a Latch's waiters wait for, and what has been counted down.
LatchOpen(cv, events) == (IF cv = "work_done" THEN Jobs ELSE {"clean"}) \subseteq events

\* while (...) _cv.wait(lock)
Wait(t) ==
    /\ ~Ended(t) /\ t \notin asleep \cup notifying
    /\ ~(Now(t).needs \subseteq happened)
    /\ asleep' = asleep \cup {t}
    /\ UNCHANGED <<handshake, happened, at, notifying>>

\* A Latch's wait() or count_down().
LatchSection(t) ==
    /\ handshake = "latch"
    /\ ~Ended(t) /\ t \notin asleep
    /\ Now(t).needs \subseteq happened
    /\ happened' = happened \cup Now(t).makes
    /\ asleep' = IF Now(t).makes # {} /\ LatchOpen(Now(t).cv, happened')
                 THEN asleep \ Waiters(Now(t).cv) ELSE asleep
    /\ at' = [at EXCEPT ![t] = @ + 1]
    /\ UNCHANGED <<handshake, notifying>>

\* The event under the mutex, the notification to follow.
PlainSection(t) ==
    /\ handshake # "latch"
    /\ ~Ended(t) /\ t \notin asleep \cup notifying
    /\ Now(t).needs \subseteq happened
    /\ happened' = happened \cup Now(t).makes
    /\ IF Now(t).makes = {}
       THEN at' = [at EXCEPT ![t] = @ + 1] /\ UNCHANGED notifying
       ELSE notifying' = notifying \cup {t} /\ UNCHANGED at
    /\ UNCHANGED <<handshake, asleep>>

\* (A variant: notify_one, where several threads share a condition variable.)
NotifyOneOnly(t) ==
    /\ t \in notifying
    /\ IF asleep = {} THEN UNCHANGED asleep
       ELSE \E u \in asleep : asleep' = asleep \ {u}
    /\ notifying' = notifying \ {t}
    /\ at' = [at EXCEPT ![t] = @ + 1]
    /\ UNCHANGED <<handshake, happened>>

\* cv.notify_all()
notify_all(t) ==
    /\ t \in notifying
    /\ asleep' = asleep \ Waiters(Now(t).cv)
    /\ notifying' = notifying \ {t}
    /\ at' = [at EXCEPT ![t] = @ + 1]
    /\ UNCHANGED <<handshake, happened>>

WakeUpSpuriously(t) ==
    /\ t \in asleep
    /\ asleep' = asleep \ {t}
    /\ UNCHANGED <<handshake, happened, at, notifying>>

ThreadStep(t) == Wait(t) \/ LatchSection(t) \/ PlainSection(t) \/ notify_all(t)

HandshakeNext == \E t \in Threads : ThreadStep(t) \/ WakeUpSpuriously(t)

\* Every thread that can run does; nothing is assumed of spurious wakeups.
HandshakeFairness ==
    \A t \in AllThreads : WF_handshakeVars(t \in Threads /\ ThreadStep(t))

-----------------------------------------------------------------------------
\* Nobody sleeps although all it waits for has happened, unless the notification is
\* on its way, and the threads never all wait for one another: until they have ended
\* one of them can notify or go through its critical section.
NoLostWakeup ==
    /\ \A t \in asleep : Now(t).needs \subseteq happened => \E u \in notifying : Now(u).cv = Now(t).cv
    /\ (\E t \in Threads : ~Ended(t)) =>
         \E t \in Threads \ asleep : ~Ended(t) /\ (t \in notifying \/ Now(t).needs \subseteq happened)

\* Every thread comes to its end and can be joined, in whatever order the threads
\* reach their waits and their notifications.
AllEnd == <>(\A t \in Threads : Ended(t))
=============================================================================
