------------------------------ MODULE Objects ------------------------------
(***************************************************************************)
(* Who may use a piece of memory, and until when: an execution is one of   *)
(* the heap allocators (Heaps) with a caller, or one of the programs of    *)
(* Sharing.                                                                *)
(***************************************************************************)
EXTENDS Heaps, Sharing

objectsVars == <<vars, sharingVars>>

ObjectsInit ==
    /\ Init /\ SharingInit
    /\ subject # "heap" => allocator = "tags"

ObjectsNext ==
    \/ subject = "heap" /\ Next /\ UNCHANGED sharingVars
    \/ SharingNext /\ UNCHANGED vars

ObjectsSpec == ObjectsInit /\ [][ObjectsNext]_objectsVars
=============================================================================
