---------------------------- MODULE StockFactory ----------------------------
(***************************************************************************)
(* The factories of                                                        *)
(* books/ldxcfwqbc/01_thread_safe_object_management:                       *)
(*   cached    stock_factory_weak_ref.cpp, whose get() remembers the Stock *)
(*   plain     stock_factory.cpp, whose get() makes one every time         *)
(* under threads that get Stocks and let them go.  The last shared_ptr to  *)
(* a Stock runs its deleter, which locks a weak_ptr to the factory: steps  *)
(* of other threads fall between the moment the Stock expires and the      *)
(* removal of its entry, and the factory may be gone by then.              *)
(***************************************************************************)
EXTENDS Integers, Sequences, FiniteSets

CONSTANTS Users, Keys, MaxStocks    \* threads, names, Stocks made (a bound)

VARIABLES
    factory_kind,   \* "cached" or "plain"
    owned,          \* does the owner still hold its shared_ptr to the factory?
    key,            \* the Stocks made so far, with their names
    stocks,         \* _stocks: names to Stocks, 0 for an empty weak_ptr
    held,           \* the Stock a thread holds a shared_ptr to, or 0
    dpc,            \* where a thread is in a deleter: "no", "lock", "erase" or "delete"
    dying,          \* the Stock of that deleter
    sfp,            \* does the deleter hold a shared_ptr to the factory?
    deleted         \* how often each Stock has been deleted

stockVars == <<factory_kind, owned, key, stocks, held, dpc, dying, sfp, deleted>>

StockInit ==
    /\ factory_kind \in {"cached", "plain"}
    /\ owned = TRUE /\ key = <<>> /\ deleted = <<>>
    /\ stocks = [k \in {} |-> 0]
    /\ held = [u \in Users |-> 0]
    /\ dpc = [u \in Users |-> "no"] /\ dying = [u \in Users |-> 0]
    /\ sfp = [u \in Users |-> FALSE]

Made == DOMAIN key
Held(s) == \E u \in Users : held[u] = s
FactoryAlive == owned \/ \E u \in Users : sfp[u]
Entry(k, s) == [j \in DOMAIN stocks \cup {k} |-> IF j = k THEN s ELSE stocks[j]]

Expired(k) == ~(k \in DOMAIN stocks /\ stocks[k] # 0 /\ Held(stocks[k]))

\* get(): the entry's Stock if there is one that somebody holds,
GetExisting(u, k) ==
    /\ owned /\ held[u] = 0 /\ dpc[u] = "no"
    /\ ~Expired(k)
    /\ held' = [held EXCEPT ![u] = stocks[k]]
    /\ UNCHANGED <<factory_kind, owned, key, stocks, dpc, dying, sfp, deleted>>

\* or a new one, which the second factory does not enter.
GetNew(u, k) ==
    /\ owned /\ held[u] = 0 /\ dpc[u] = "no"
    /\ Expired(k) /\ Cardinality(Made) < MaxStocks
    /\ LET s == Cardinality(Made) + 1
       IN  /\ held' = [held EXCEPT ![u] = s]
           /\ key' = Append(key, k)
           /\ deleted' = Append(deleted, 0)
           /\ stocks' = Entry(k, IF factory_kind = "cached" THEN s ELSE 0)
    /\ UNCHANGED <<factory_kind, owned, dpc, dying, sfp>>

\* The last one to let a Stock go finds itself in its deleter.
LetGo(u) ==
    /\ held[u] # 0
    /\ held' = [held EXCEPT ![u] = 0]
    /\ IF \E v \in Users \ {u} : held[v] = held[u] THEN UNCHANGED <<dpc, dying>>
       ELSE /\ dpc' = [dpc EXCEPT ![u] = "lock"]
            /\ dying' = [dying EXCEPT ![u] = held[u]]
    /\ UNCHANGED <<factory_kind, owned, key, stocks, sfp, deleted>>

\* Without a factory the first deleter deletes at once; the second does nothing,
\* and the Stock is leaked.
LockFactory(u) ==
    /\ dpc[u] = "lock"
    /\ sfp' = [sfp EXCEPT ![u] = FactoryAlive]
    /\ dpc' = [dpc EXCEPT ![u] = IF FactoryAlive THEN "erase"
                                 ELSE IF factory_kind = "cached" THEN "delete" ELSE "no"]
    /\ dying' = [dying EXCEPT ![u] = IF dpc'[u] = "no" THEN 0 ELSE @]
    /\ UNCHANGED <<factory_kind, owned, key, stocks, held, deleted>>

\* (A variant: the entry is left to the next get().)
KeepEntry(u) ==
    /\ dpc[u] = "erase"
    /\ dpc' = [dpc EXCEPT ![u] = "delete"]
    /\ UNCHANGED <<factory_kind, owned, key, stocks, held, dying, sfp, deleted>>

remove_stock(u) ==
    /\ dpc[u] = "erase"
    /\ stocks' = [k \in DOMAIN stocks \ {key[dying[u]]} |-> stocks[k]]
    /\ dpc' = [dpc EXCEPT ![u] = "delete"]
    /\ UNCHANGED <<factory_kind, owned, key, held, dying, sfp, deleted>>

\* delete sp, and the shared_ptr to the factory is given up.
DeleteStock(u) ==
    /\ dpc[u] = "delete"
    /\ deleted' = [deleted EXCEPT ![dying[u]] = @ + 1]
    /\ dpc' = [dpc EXCEPT ![u] = "no"]
    /\ sfp' = [sfp EXCEPT ![u] = FALSE]
    /\ dying' = [dying EXCEPT ![u] = 0]
    /\ UNCHANGED <<factory_kind, owned, key, stocks, held>>

\* The owner's shared_ptr goes out of scope; no get() is possible any more.
DropFactory ==
    /\ owned /\ owned' = FALSE
    /\ UNCHANGED <<factory_kind, key, stocks, held, dpc, dying, sfp, deleted>>

StockNext ==
    \/ DropFactory
    \/ \E u \in Users : \/ \E k \in Keys : GetExisting(u, k) \/ GetNew(u, k)
                        \/ LetGo(u) \/ LockFactory(u) \/ remove_stock(u) \/ DeleteStock(u)

-----------------------------------------------------------------------------
\* The last reference decides about a Stock: one that is held is never deleted, one
\* that is not is being deleted or has been, exactly once.  The one exception is the
\* code's own leak: the deleter of stock_factory.cpp deletes nothing once its factory
\* is gone, so a Stock may be left over when that factory is no longer alive, and only
\* then.  As long as the factory lives, an entry of _stocks has a Stock of its name
\* that is held or whose deleter will remove it.
LeftOver == factory_kind = "plain" /\ ~FactoryAlive
Erasing(s) == \E u \in Users : dying[u] = s /\ dpc[u] \in {"lock", "erase"}
StocksOwned ==
    /\ \A s \in Made :
         /\ deleted[s] <= 1
         /\ deleted[s] = 1 => ~Held(s) /\ \A u \in Users : dying[u] # s
         /\ deleted[s] = 0 => \/ Held(s) \/ \E u \in Users : dying[u] = s
                              \/ LeftOver
    /\ FactoryAlive => \A k \in DOMAIN stocks :
         \E s \in Made : key[s] = k /\ (Held(s) \/ Erasing(s))
=============================================================================
