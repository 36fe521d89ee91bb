------------------------------- MODULE Voter -------------------------------
(***************************************************************************)
(* What one validator promises the others by its signatures, whatever it   *)
(* does inside: the abstract specification that CbftNode implements (its   *)
(* ImplementsVoter), and what the Vote, Insert and Change of Agreement ask *)
(* of each of its validators.                                              *)
(*                                                                         *)
(* votes are the blocks it signed a PrepareVote for, changes the           *)
(* ViewChanges it signed (view and highest certified block), and known the *)
(* certified blocks it holds at the moment.  One step may sign several     *)
(* messages: a handler that inserts a certificate sends the pending votes  *)
(* and may then sign a ViewChange.                                         *)
(***************************************************************************)
EXTENDS Votes

VARIABLES votes, changes, known

voterVars == <<votes, changes, known>>

VoterInit == votes = {} /\ changes = {} /\ known = {Genesis}

(* It votes on certified blocks only, in a view that none of the            *)
(* certificates it holds is after, and reports only certified blocks.  What *)
(* it takes in is not below what it holds already.                          *)
VoterNext ==
    /\ votes \subseteq votes' /\ changes \subseteq changes'
    /\ \A b \in votes' \ votes :
          /\ CanVote(b, votes', changes) /\ Parent[b] \in known'
          /\ \A y \in known' \ {Genesis} :
                NotAfter(Epoch[y], ViewNumber[y], Epoch[b], ViewNumber[b])
    /\ \A c \in changes' \ changes :
          CanChange(c, votes', changes) /\ c.block \in known'
    /\ \A x \in known' \ known, y \in known : Number[y] <= Number[x]

VoterSpec == VoterInit /\ [][VoterNext]_voterVars
=============================================================================
