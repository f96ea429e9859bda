----------------------------- MODULE Singleton -----------------------------
(***************************************************************************)
(* The lock-free singleton of                                              *)
(* books/cpp_concurrency_in_action/05_synchronizing_concurrent_operations/ *)
(* lockfree_singleton.cpp: threads that find no object make one each, and  *)
(* a compare_exchange_weak, which may fail for no reason, picks the one    *)
(* that stays.  An object is named after the thread that made it.          *)
(***************************************************************************)
EXTENDS Naturals

CONSTANTS Callers, Nullptr    \* threads; no object

VARIABLES
    cached_object,  \* cached_object
    gpc,            \* where each thread is in get_object()
    obj,            \* its obj
    existing        \* the objects made and not deleted

singletonVars == <<cached_object, gpc, obj, existing>>

SingletonInit ==
    /\ cached_object = Nullptr
    /\ gpc = [c \in Callers |-> "load"]
    /\ obj = [c \in Callers |-> Nullptr]
    /\ existing = {}

Load(c) ==
    /\ gpc[c] = "load"
    /\ obj' = [obj EXCEPT ![c] = cached_object]
    /\ gpc' = [gpc EXCEPT ![c] = IF cached_object = Nullptr THEN "new" ELSE "returned"]
    /\ UNCHANGED <<cached_object, existing>>

New(c) ==
    /\ gpc[c] = "new"
    /\ obj' = [obj EXCEPT ![c] = c]
    /\ existing' = existing \cup {c}
    /\ gpc' = [gpc EXCEPT ![c] = "exchange"]
    /\ UNCHANGED cached_object

\* Succeeds, or fails spuriously and is tried again.
Exchange(c) ==
    /\ gpc[c] = "exchange" /\ cached_object = Nullptr
    /\ \/ cached_object' = c /\ gpc' = [gpc EXCEPT ![c] = "returned"]
       \/ UNCHANGED <<cached_object, gpc>>
    /\ UNCHANGED <<obj, existing>>

\* Another thread's object was there first.
ExchangeFails(c) ==
    /\ gpc[c] = "exchange" /\ cached_object # Nullptr
    /\ existing' = existing \ {c}
    /\ obj' = [obj EXCEPT ![c] = cached_object]
    /\ gpc' = [gpc EXCEPT ![c] = "returned"]
    /\ UNCHANGED cached_object

SingletonNext == \E c \in Callers : Load(c) \/ New(c) \/ Exchange(c) \/ ExchangeFails(c)

-----------------------------------------------------------------------------
\* Every thread that has returned from get_object() has the same object, which is
\* never deleted; the objects of the threads that lost are.
OneObject ==
    /\ \A c \in Callers : gpc[c] = "returned" =>
           obj[c] = cached_object /\ obj[c] \in existing
    /\ existing \subseteq {cached_object} \cup {c \in Callers : gpc[c] = "exchange"}
=============================================================================
