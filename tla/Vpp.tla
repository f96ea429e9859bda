-------------------------------- MODULE Vpp --------------------------------
(***************************************************************************)
(* The two ways of src/VPP to talk to VPP: a client of the SAI library     *)
(* (SaiVpp) and the programs that use VPP's binary API (VppClient).  They  *)
(* share nothing; a behaviour is one of the first or one of the second.    *)
(***************************************************************************)
EXTENDS SaiVpp, VppClient

VARIABLE part   \* which of the two runs

vpp == <<part, saiVars, vppVars>>

TwoInterfaces == [bvi1000 |-> 1, eth0 |-> 2]

VppSpecInit == /\ SaiInit /\ VppInit
               /\ part \in {"sai", "binary"}
               /\ part = "sai" => prog = "list"

VppSpecNext ==
    \/ part = "sai" /\ SaiNext /\ UNCHANGED <<part, vppVars>>
    \/ part = "binary" /\ VppNext /\ UNCHANGED <<part, saiVars>>
    \/ part = "binary" /\ exit # -1 /\ UNCHANGED vpp

VppSpec == VppSpecInit /\ [][VppSpecNext]_vpp /\ SaiFairness
=============================================================================
