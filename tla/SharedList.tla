----------------------------- MODULE SharedList -----------------------------
(***************************************************************************)
(* The copy-on-write list of                                               *)
(* books/ldxcfwqbc/02_thread_synchronization/cow.cpp, called by several    *)
(* threads: post() appends in place unless somebody still traverses the    *)
(* list, and traverse() visits a view of it, outside the mutex, while the  *)
(* elements it visits call post() themselves.                              *)
(*                                                                         *)
(* A shared_ptr's use count is the number of pointers that are equal to    *)
(* it.  A critical section of g_foolist_mutex is one step.                 *)
(***************************************************************************)
EXTENDS Integers, Sequences

CONSTANTS
    Readers,    \* the threads
    MaxPosts    \* elements posted (a bound on the run)

VARIABLES
    lists,      \* the FooLists on the heap; FooLists with no pointer are gone
    g_foos,     \* g_foos
    foos_view,  \* foos_view of the threads in traverse(); 0 for the others
    it,         \* the position of each traversal
    posts,      \* elements posted so far, numbered in their order
    seen        \* what the list held when its view was taken

listVars == <<lists, g_foos, foos_view, it, posts, seen>>

Addresses == 1 .. MaxPosts + 1

Fresh == CHOOSE a \in Addresses : a \notin DOMAIN lists

ListInit ==
    /\ lists = [a \in {1} |-> <<>>] /\ g_foos = 1
    /\ foos_view = [t \in Readers |-> 0] /\ it = [t \in Readers |-> 0]
    /\ posts = 0 /\ seen = [t \in Readers |-> <<>>]

\* (A variant: the list is always taken for the caller's own.)
UniqueAlways == TRUE

unique == \A t \in Readers : foos_view[t] # g_foos

\* A FooList that is not unique is left to its readers, and a copy changed.
post ==
    /\ posts < MaxPosts
    /\ posts' = posts + 1
    /\ LET a == IF unique THEN g_foos ELSE Fresh
       IN  /\ g_foos' = a
           /\ lists' = [b \in DOMAIN lists \cup {a} |->
                          IF b = a THEN Append(lists[g_foos], posts') ELSE lists[b]]

Post(t) == foos_view[t] = 0 /\ post /\ UNCHANGED <<foos_view, it, seen>>

traverse(t) ==
    /\ foos_view[t] = 0
    /\ foos_view' = [foos_view EXCEPT ![t] = g_foos]
    /\ it' = [it EXCEPT ![t] = 1]
    /\ seen' = [seen EXCEPT ![t] = lists[g_foos]]
    /\ UNCHANGED <<lists, g_foos, posts>>

\* it->doit() posts another element.
doit(t) ==
    /\ foos_view[t] # 0 /\ it[t] <= Len(lists[foos_view[t]])
    /\ post
    /\ it' = [it EXCEPT ![t] = @ + 1]
    /\ UNCHANGED <<foos_view, seen>>

\* foos_view is destroyed, and with it a FooList it was the last to point to.
EndTraverse(t) ==
    /\ foos_view[t] # 0 /\ it[t] > Len(lists[foos_view[t]])
    /\ foos_view' = [foos_view EXCEPT ![t] = 0]
    /\ it' = [it EXCEPT ![t] = 0]
    /\ LET used == {g_foos} \cup {foos_view'[u] : u \in Readers}
       IN  lists' = [a \in DOMAIN lists \cap used |-> lists[a]]
    /\ seen' = [seen EXCEPT ![t] = <<>>]
    /\ UNCHANGED <<g_foos, posts>>

ListNext == \E t \in Readers : Post(t) \/ traverse(t) \/ doit(t) \/ EndTraverse(t)

-----------------------------------------------------------------------------
\* A traversal meets the list as it was when it began, whoever posts meanwhile, the
\* visited elements included: post() never changes, and nobody frees, a FooList that
\* somebody has a view of.  No element posted is lost by the copying.
SnapshotsStable ==
    /\ \A t \in Readers : foos_view[t] # 0 =>
           foos_view[t] \in DOMAIN lists /\ lists[foos_view[t]] = seen[t]
    /\ lists[g_foos] = [k \in 1..posts |-> k]
=============================================================================
