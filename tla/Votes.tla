------------------------------- MODULE Votes -------------------------------
(***************************************************************************)
(* What a validator may still sign, given what it has signed: V are the    *)
(* blocks it signed a PrepareVote for, C the ViewChanges it signed, each a *)
(* view and the highest certified block of the signer.  Voter and          *)
(* Agreement are written with these rules.                                 *)
(***************************************************************************)
EXTENDS Blocks

CONSTANT BlockIndex      \* QuorumCert.BlockIndex

(* View (e, v) is not after, or before, view (f, w). *)
NotAfter(e, v, f, w) == e < f \/ (e = f /\ v <= w)
Before(e, v, f, w) == e < f \/ (e = f /\ v < w)

SameSlot(b, d) ==
    /\ Epoch[b] = Epoch[d] /\ ViewNumber[b] = ViewNumber[d]
    /\ BlockIndex[b] = BlockIndex[d]

(* A vote is of a view after every view it asked to leave, never of a view  *)
(* before one it voted in, and the only one of its place in the view.       *)
CanVote(b, V, C) ==
    /\ \A c \in C : Before(c.epoch, c.number, Epoch[b], ViewNumber[b])
    /\ \A d \in V : /\ NotAfter(Epoch[d], ViewNumber[d], Epoch[b], ViewNumber[b])
                    /\ SameSlot(b, d) => b = d

(* A ViewChange is of a view not before any view voted in, is the only one  *)
(* of its view, and its block is not below the parent of any block voted    *)
(* for and not below the block of an earlier ViewChange.                    *)
CanChange(c, V, C) ==
    /\ \A b \in V : /\ NotAfter(Epoch[b], ViewNumber[b], c.epoch, c.number)
                    /\ ~HigherQuorumCert(Parent[b], c.block)
    /\ \A d \in C : /\ Before(d.epoch, d.number, c.epoch, c.number)
                    /\ ~HigherQuorumCert(d.block, c.block)
=============================================================================
