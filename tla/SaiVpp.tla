------------------------------- MODULE SaiVpp -------------------------------
(***************************************************************************)
(* A client of the SAI library for VPP (src/VPP/sai_vpp.cpp): it starts    *)
(* the library, asks sai_api_query() for the table of an API before a call *)
(* and calls entries of that table, and before it stops the library it     *)
(* removes what it created.  The library behind the tables, saivpp::Sai,   *)
(* is not in the repository.  It is modelled as the store the calls need:  *)
(* objects live under the type and the identifier they were created with,  *)
(* and every later call must give both.                                    *)
(***************************************************************************)
EXTENDS Naturals, FiniteSets, SaiApi

CONSTANTS
    Ids,      \* identifiers the library may hand out, and keys a caller may use
    MaxLive,  \* bound: objects alive at a time
    OffApi    \* an api that no case of sai_api_query() names

ASSUME SaiAssumption == /\ IsFiniteSet(Ids) /\ MaxLive \in Nat
                        /\ OffApi \notin DOMAIN Tables

VARIABLES
    initialized,  \* between sai_api_initialize() and sai_api_uninitialize()
    closing,      \* the client is giving its objects back
    live,         \* the store: records of a type and an identifier
    handles,      \* what the client thinks it owns, by api, object name and id
    status        \* what the last call returned

saiVars == <<initialized, closing, live, handles, status>>

SaiTypeOK ==
    /\ initialized \in BOOLEAN /\ closing \in BOOLEAN
    /\ \A o \in live : DOMAIN o = {"type", "id"} /\ o.id \in Ids
    /\ \A h \in handles : h.api \in DOMAIN Tables /\ h.id \in Ids
    /\ status \in {"SUCCESS", "FAILURE", "INVALID_PARAMETER", "ITEM_NOT_FOUND",
                   "ITEM_ALREADY_EXISTS", "NOT_IMPLEMENTED"}

SaiInit ==
    /\ initialized = FALSE /\ closing = FALSE
    /\ live = {} /\ handles = {}
    /\ status = "SUCCESS"

\* The entries of an api that do one of the operations.
Entries(api, ops) == { e \in sai_api_query(api, FALSE).table : e.op \in ops }

Keep(result) == /\ status' = result
                /\ UNCHANGED <<initialized, closing, live, handles>>

sai_api_initialize ==
    /\ ~initialized
    /\ initialized' = TRUE
    /\ status' = "SUCCESS"
    /\ UNCHANGED <<closing, live, handles>>

sai_api_uninitialize ==
    /\ initialized /\ closing /\ handles = {}
    /\ initialized' = FALSE
    /\ closing' = FALSE
    /\ live' = {}
    /\ status' = "SUCCESS"
    /\ UNCHANGED handles

\* The client starts to shut down.
Close ==
    /\ initialized /\ ~closing
    /\ closing' = TRUE
    /\ UNCHANGED <<initialized, live, handles, status>>

\* A query that is refused leaves the caller without a table.
QueryRefused ==
    \E api \in {"SWITCH", "UNSPECIFIED", OffApi}, nullTable \in BOOLEAN :
        LET q == sai_api_query(api, nullTable) IN
        q.status # "SUCCESS" /\ Keep(q.status)

-----------------------------------------------------------------------------
\* The identifiers a call may create: fresh ones, or, where the caller names
\* them, any keys.
Candidates(e) == IF e.keyed THEN Ids ELSE Ids \ { o.id : o \in live }

\* The library refuses a key that exists, may refuse any object, and says for
\* each object of a bulk call what happened: new are the ones it made.
Create(api, e) ==
    /\ Cardinality(live) < MaxLive
    /\ \E asked \in (SUBSET Candidates(e)) \ {{}} : \E new \in SUBSET asked :
        /\ Cardinality(live) + Cardinality(asked) <= MaxLive
        /\ e.op = "create" => Cardinality(asked) = 1
        /\ \A i \in new : [type |-> e.type, id |-> i] \notin live
        /\ live' = live \cup { [type |-> e.type, id |-> i] : i \in new }
        /\ handles' = handles \cup
              { [api |-> api, object |-> e.object, id |-> i] : i \in new }
        /\ status' = IF new = asked THEN "SUCCESS"
                     ELSE IF \E i \in asked : [type |-> e.type, id |-> i] \in live
                     THEN "ITEM_ALREADY_EXISTS" ELSE "FAILURE"
        /\ UNCHANGED <<initialized, closing>>

\* The client's own handles a call may name: one, or several in a bulk call.
Named(api, e) ==
    LET own == { h \in handles : h.api = api /\ h.object = e.object } IN
    { named \in SUBSET own :
        /\ named # {}
        /\ e.op \notin {"bulkRemove", "bulkSet", "bulkGet"} => Cardinality(named) = 1 }

Stored(e, named) == { [type |-> e.type, id |-> h.id] : h \in named }

RemoveObjects(api, e) ==
    \E named \in Named(api, e) :
        LET found == { h \in named : [type |-> e.type, id |-> h.id] \in live } IN
        /\ live' = live \ Stored(e, named)
        /\ handles' = handles \ found
        /\ status' = IF found = named THEN "SUCCESS" ELSE "ITEM_NOT_FOUND"
        /\ UNCHANGED <<initialized, closing>>

\* Attributes and counters change nothing the store is told apart by.
Access(api, e) ==
    \E named \in Named(api, e) :
        Keep(IF Stored(e, named) \subseteq live THEN "SUCCESS"
                                               ELSE "ITEM_NOT_FOUND")

\* flush_fdb_entries() without a filter: the library drops all its entries.
FlushFdbEntries ==
    /\ Entries("FDB", {"flushFdbEntries"}) # {}
    /\ live' = { o \in live : o.type # "FDB_ENTRY" }
    /\ handles' = { h \in handles : h.object # "fdb_entry" }
    /\ status' = "SUCCESS"
    /\ UNCHANGED <<initialized, closing>>

MdioAccess ==
    \E e \in Entries("SWITCH", {"switchMdioRead", "switchMdioWrite",
                               "switchMdioCl22Read", "switchMdioCl22Write"}) :
        Keep("SUCCESS")

CallNotImplemented ==
    /\ \/ \E a \in DOMAIN Tables : Entries(a, {"none"}) # {}
       \/ GlobalUnimplemented \cup GlobalStageUnimplemented
             \cup GlobalTelemetryUnimplemented # {}
    /\ Keep("NOT_IMPLEMENTED")

QueryLibrary == \E f \in GlobalQueries : Keep("SUCCESS")

-----------------------------------------------------------------------------
GiveBack ==
    \E api \in { h.api : h \in handles } :
        \E e \in Entries(api, {"remove", "bulkRemove"}) : RemoveObjects(api, e)

Use ==
    /\ initialized /\ ~closing
    /\ \/ \E api \in DOMAIN Tables :
             \E e \in Entries(api, {"create", "bulkCreate"}) : Create(api, e)
       \/ \E api \in { h.api : h \in handles } :
             \E e \in Entries(api, {"set", "get"} \cup Counters \cup BulkAttributes) :
                 Access(api, e)
       \/ GiveBack
       \/ FlushFdbEntries
       \/ MdioAccess
       \/ CallNotImplemented
       \/ QueryLibrary

SaiNext ==
    \/ sai_api_initialize
    \/ Use
    \/ Close
    \/ initialized /\ closing /\ GiveBack
    \/ sai_api_uninitialize
    \/ QueryRefused

\* The client goes on with what it has begun once it closes.
SaiFairness == /\ WF_saiVars(initialized /\ closing /\ GiveBack)
               /\ WF_saiVars(sai_api_uninitialize)

SaiSpec == SaiInit /\ [][SaiNext]_saiVars /\ SaiFairness

-----------------------------------------------------------------------------
\* What the client owns is what the library stores: no call on an object the
\* client created is answered "not found", because every entry of every table
\* passes on the type that the create entry of the same object passed on, and
\* no object of the library is without an owner.
StoreMatchesClient ==
    /\ status # "ITEM_NOT_FOUND"
    /\ Cardinality(live) = Cardinality(handles)
    /\ \A h \in handles : \E o \in live : o.id = h.id

\* A client that closes ends with an empty library: whatever it created, through
\* any of the tables and any of their entries, one at a time or in bulk, some
\* table that sai_api_query() hands out also removes.
ShutdownCompletes == closing ~> (~initialized /\ live = {})
=============================================================================
