----------------------------- MODULE SaiEntries -----------------------------
(***************************************************************************)
(* The functions of src/VPP/sai_vpp.cpp, the C entry points of the SAI     *)
(* (Switch Abstraction Interface) library for VPP. Every function hands    *)
(* its arguments to one method of the object `stub` and gives it the       *)
(* object type it works on.                                                *)
(*                                                                         *)
(* A function is an entry: the operation and the object its name speaks    *)
(* of, the method it calls, and the type it passes on. The name and the    *)
(* type are written separately because they are written separately in the  *)
(* source, and nothing but the author makes them agree.                    *)
(***************************************************************************)

Entry(ops, object, type, keyed) ==
    { [op |-> o, object |-> object, type |-> type, keyed |-> keyed] : o \in ops }

Crud == {"create", "remove", "set", "get"}
Counters == {"getStats", "getStatsExt", "clearStats"}
BulkCrud == {"bulkCreate", "bulkRemove"}
BulkAttributes == {"bulkSet", "bulkGet"}

\* Objects whose identifier the library hands out, with counters or without,
\* and entries that are named by a key the caller builds (where the overload of
\* the method gives the type).
Object(object, type) == Entry(Crud, object, type, FALSE)
Stats(object, type) == Entry(Counters, object, type, FALSE)
Counted(object, type) == Entry(Crud \cup Counters, object, type, FALSE)
Keyed(object, type) == Entry(Crud, object, type, TRUE)
KeyedCounted(object, type) == Entry(Crud \cup Counters, object, type, TRUE)

\* The calls on several objects at once: creating and removing only, the
\* attributes only, or both.
Bulk(object, type) == Entry(BulkCrud, object, type, FALSE)
BulkAttr(object, type) == Entry(BulkAttributes, object, type, FALSE)
BulkAll(object, type) ==
    Entry(BulkCrud \cup BulkAttributes, object, type, FALSE)
BulkKeyed(object, type) == Entry(BulkCrud, object, type, TRUE)
BulkKeyedAll(object, type) ==
    Entry(BulkCrud \cup BulkAttributes, object, type, TRUE)

\* Functions with a method of their own, and functions without any.
Special(op, object) == Entry({op}, object, "NONE", FALSE)
NotImplemented(object) == Special("none", object)
=============================================================================
