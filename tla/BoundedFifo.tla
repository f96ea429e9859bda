---------------------------- MODULE BoundedFifo -----------------------------
(***************************************************************************)
(* What every queue and ring of the repository promises its clients: the   *)
(* elements taken out are the elements put in, in the order they went in,  *)
(* each exactly once, and at most Bound of them are inside at any time.    *)
(* sent and rcvd are the whole histories; the queue's content is the part  *)
(* of sent beyond Len(rcvd).                                               *)
(***************************************************************************)
EXTENDS Naturals, Sequences

CONSTANTS Elements, Bound

VARIABLES sent, rcvd

fifoVars == <<sent, rcvd>>

FifoInit == sent = <<>> /\ rcvd = <<>>

Put(e) ==
    /\ Len(sent) - Len(rcvd) < Bound
    /\ sent' = Append(sent, e)
    /\ UNCHANGED rcvd

Get ==
    /\ Len(rcvd) < Len(sent)
    /\ rcvd' = Append(rcvd, sent[Len(rcvd) + 1])
    /\ UNCHANGED sent

FifoNext == (\E e \in Elements : Put(e)) \/ Get

FifoSpec == FifoInit /\ [][FifoNext]_fifoVars
=============================================================================
