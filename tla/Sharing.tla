------------------------------ MODULE Sharing ------------------------------
(***************************************************************************)
(* Objects that threads share and that the last one to use them, or the    *)
(* one that lost a race, deletes: an execution has threads on the          *)
(* copy-on-write list, threads with a stock factory, or threads that ask   *)
(* for the singleton.  What is not the subject of an execution stays as it *)
(* is.                                                                     *)
(***************************************************************************)
EXTENDS SharedList, StockFactory, Singleton

ASSUME SharingAssumption == MaxPosts \in Nat /\ MaxStocks \in Nat /\ Nullptr \notin Callers

VARIABLE subject    \* of the execution; "heap" is none of these

sharingVars == <<subject, listVars, stockVars, singletonVars>>

SharingInit ==
    /\ subject \in {"heap", "list", "stocks", "singleton"}
    /\ ListInit /\ StockInit /\ SingletonInit
    /\ subject # "stocks" => factory_kind = "plain"

SharingNext ==
    /\ UNCHANGED subject
    /\ \/ subject = "list" /\ ListNext /\ UNCHANGED <<stockVars, singletonVars>>
       \/ subject = "stocks" /\ StockNext /\ UNCHANGED <<listVars, singletonVars>>
       \/ subject = "singleton" /\ SingletonNext /\ UNCHANGED <<listVars, stockVars>>

SharingSpec == SharingInit /\ [][SharingNext]_sharingVars

-----------------------------------------------------------------------------
\* Nobody holds a Stock or a singleton that has been deleted and each is deleted at
\* most once, whatever falls between the last reference's end, the deleter and the
\* factory's own end, or between a failed exchange and its retry.  None that nobody
\* holds escapes its deletion, except the Stocks whose last reference ends after the
\* factory of stock_factory.cpp is gone: their deleter finds no factory and leaks them
\* (that of stock_factory_weak_ref.cpp does not).
ObjectsOwned == StocksOwned /\ OneObject
=============================================================================
