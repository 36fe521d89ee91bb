----------------------------- MODULE CSMsgPool -----------------------------
(***************************************************************************)
(* The cache of consensus messages that arrive before their view: blocks,  *)
(* votes and certificates, filed by epoch and view.  Package types uses it *)
(* through Add, Get and Purge; Inbox shows how the engine calls them.      *)
(***************************************************************************)
EXTENDS Integers

CONSTANTS Key,        \* block index, or block index and validator index
          MaxEpoch, MaxView

ASSUME PoolAssumption == MaxEpoch \in Nat /\ MaxView \in Nat

VARIABLES cache,      \* entries: where a message is filed, and the message
          min         \* minEpoch, minView

poolVars == <<cache, min>>

Msg == [kind : {"block", "vote", "qc"}, epoch : 0..MaxEpoch, view : 0..MaxView, key : Key]

(* The place of a message: views of an epoch, kind, key *)
Slot == Msg

(* NewCSMsgPool: a minimum above every epoch and view *)
PoolInit == cache = {} /\ min = [epoch |-> MaxEpoch + 2, view |-> MaxView + 2]

invalidEpochView(e, v) ==
    ~ \/ e = min.epoch /\ v \in {min.view, min.view + 1}
      \/ e = min.epoch + 1 /\ v = 0

(* Where Add files a message: AddPrepareQC asks for the view cache of the   *)
(* epoch.                                                                   *)
filed(m) == IF m.kind = "qc" THEN [m EXCEPT !.view = m.epoch] ELSE m

(* AddPrepareBlock, AddPrepareVote, AddPrepareQC.  An inner message, one    *)
(* that comes from the cache, is not added again.                           *)
Add(m, inner) ==
    /\ cache' = IF invalidEpochView(m.epoch, m.view) \/ inner THEN cache
                ELSE {c \in cache : c.slot # filed(m)} \cup {[slot |-> filed(m), msg |-> m]}
    /\ UNCHANGED min

(* GetPrepareBlock, GetPrepareVote, GetPrepareQC find an entry: it leaves   *)
(* the cache.                                                               *)
Get(s) ==
    /\ ~invalidEpochView(s.epoch, s.view)
    /\ \E c \in cache : c.slot = s
    /\ cache' = {c \in cache : c.slot # s}
    /\ UNCHANGED min

(* Purge: lower epochs go, and in all others the lower views.               *)
Purge(e, v) ==
    /\ cache' = {c \in cache : c.slot.epoch >= e /\ c.slot.view >= v}
    /\ min' = [epoch |-> e, view |-> v]

(* changeView only moves forward. *)
later(e, v) ==
    \/ min.epoch > MaxEpoch
    \/ e > min.epoch
    \/ e = min.epoch /\ v > min.view

PoolNext ==
    \/ \E m \in Msg, inner \in BOOLEAN : Add(m, inner)
    \/ \E s \in Slot : Get(s)
    \/ \E e \in 0..MaxEpoch, v \in 0..MaxView : later(e, v) /\ Purge(e, v)

PoolSpec == PoolInit /\ [][PoolNext]_poolVars

-----------------------------------------------------------------------------
(* The cache holds blocks and votes of the current view, the next one and   *)
(* the first of the next epoch only, whatever views were skipped: Purge     *)
(* leaves nothing that Get would refuse and nobody would delete.            *)
AdmissibleOnly ==
    \A c \in cache : c.slot.kind # "qc" => ~invalidEpochView(c.slot.epoch, c.slot.view)
=============================================================================
