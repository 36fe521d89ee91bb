------------------------------- MODULE Inbox -------------------------------
(***************************************************************************)
(* How messages get to the handlers of the engine: one goroutine per peer  *)
(* runs ReceiveMessage or ReceiveSyncMsg, two bounded channels lead to     *)
(* receiveLoop, queues counts what each peer has in flight, the history of *)
(* message hashes filters repeats, and csPool (module CSMsgPool) is to     *)
(* keep what comes too early.                                              *)
(*                                                                         *)
(* Blocks and votes are consensus messages, certificates are sync          *)
(* messages.  What a handler does with a message is left open as far as    *)
(* this module needs it: it accepts the message or returns an error, and   *)
(* it may change the view.  GetPrepareBlock of csPool and the redelivery   *)
(* of what it returns are left out: csPool is always empty, as every       *)
(* message handed to it is wrapped as an inner one, and Add ignores those. *)
(***************************************************************************)
EXTENDS CSMsgPool, Sequences, FiniteSets

CONSTANTS Peer,
          Idle,             \* a peer's goroutine between two messages
          MaxQueuesLimit,   \* messages of one peer in flight
          QueueSize,        \* PeerMsgQueueSize: capacity of each channel
          HistorySize,      \* hashes remembered
          Offered,          \* the messages the peers have to send
          MaxReceive        \* bound: messages from each peer

ASSUME InboxAssumption ==
    /\ Idle \notin [msg : Offered, checked : BOOLEAN]
    /\ Offered \subseteq Msg
    /\ {MaxQueuesLimit, QueueSize, HistorySize, MaxReceive} \subseteq Nat \ {0}

VARIABLES at,         \* what the goroutine of each peer is doing
          queues,     \* cbft.queues
          peerMsgCh, syncMsgCh,
          history,    \* historyMessageHash of the network handler
          status,     \* running, fetching or syncing
          handled,    \* history: how often each message was accepted
          evicted,    \* history: messages that history had to forget
          received,   \* history: messages received from each peer
          dropped     \* history: messages of each peer lost at a full channel

vars == <<cache, min, at, queues, peerMsgCh, syncMsgCh, history, status, handled,
          evicted, received, dropped>>

isSync(m) == m.kind = "qc"
Flying(p, m) == [peer |-> p, msg |-> m]

(* The engine starts in view 0: Start has called changeView. *)
Init ==
    /\ cache = {} /\ min = [epoch |-> 0, view |-> 0]
    /\ at = [p \in Peer |-> Idle] /\ queues = [p \in Peer |-> 0]
    /\ peerMsgCh = <<>> /\ syncMsgCh = <<>>
    /\ history = {} /\ status = "running"
    /\ handled = [m \in Offered |-> 0] /\ evicted = {}
    /\ received = [p \in Peer |-> 0] /\ dropped = [p \in Peer |-> 0]

-----------------------------------------------------------------------------
(* The goroutine of a peer *)

(* Mutant of recordMessage: the count before this message is compared.      *)
recordMessageLate(p) ==
    queues[p] <= MaxQueuesLimit /\ queues' = [queues EXCEPT ![p] = @ + 1]

recordMessage(p) ==
    queues[p] + 1 <= MaxQueuesLimit /\ queues' = [queues EXCEPT ![p] = @ + 1]

(* Mutant of forgetMessage: the record of the peer is deleted.              *)
forgetMessageDelete(p) == queues' = [queues EXCEPT ![p] = 0]

forgetMessage(p) == queues' = [queues EXCEPT ![p] = @ - 1]

(* ReceiveMessage and ReceiveSyncMsg up to recordMessage.  A message that   *)
(* is refused here leaves no trace.                                         *)
Receive(p, m) ==
    /\ at[p] = Idle /\ received[p] < MaxReceive
    /\ received' = [received EXCEPT ![p] = @ + 1]
    /\ \/ /\ IF isSync(m) THEN status # "syncing"
             ELSE status = "running" /\ ~invalidEpochView(m.epoch, m.view)
          /\ recordMessage(p)
          /\ at' = [at EXCEPT ![p] = [msg |-> m, checked |-> isSync(m)]]
       \/ /\ IF isSync(m) THEN status = "syncing"
             ELSE status # "running" \/ invalidEpochView(m.epoch, m.view)
          /\ UNCHANGED <<queues, at>>
       \/ queues[p] + 1 > MaxQueuesLimit /\ UNCHANGED <<queues, at>>
    /\ UNCHANGED <<cache, min, peerMsgCh, syncMsgCh, history, status, handled, evicted,
                   dropped>>

(* The first check for repeats, for consensus messages *)
FirstCheck(p) ==
    /\ at[p] # Idle /\ ~at[p].checked
    /\ IF at[p].msg \in history
       THEN forgetMessage(p) /\ at' = [at EXCEPT ![p] = Idle]
       ELSE at' = [at EXCEPT ![p].checked = TRUE] /\ UNCHANGED queues
    /\ UNCHANGED <<cache, min, peerMsgCh, syncMsgCh, history, status, handled, evicted,
                   received, dropped>>

(* Message m of peer p goes to its channel, or nowhere if the channel is    *)
(* full: it is discarded and its record stays, for forgetMessage is not     *)
(* called on that branch.                                                   *)
offer(ch, next, p, m) ==
    IF Len(ch) < QueueSize
    THEN next = Append(ch, Flying(p, m)) /\ UNCHANGED dropped
    ELSE next = ch /\ dropped' = [dropped EXCEPT ![p] = @ + 1]

Enqueue(p) ==
    /\ at[p] # Idle /\ at[p].checked
    /\ LET m == at[p].msg IN
       IF isSync(m)
       THEN offer(syncMsgCh, syncMsgCh', p, m) /\ UNCHANGED peerMsgCh
       ELSE offer(peerMsgCh, peerMsgCh', p, m) /\ UNCHANGED syncMsgCh
    /\ at' = [at EXCEPT ![p] = Idle]
    /\ UNCHANGED <<cache, min, queues, history, status, handled, evicted, received>>
-----------------------------------------------------------------------------
(* receiveLoop *)

(* MarkHistoryMessageHash: a full history forgets some message.             *)
MarkHistory(m) ==
    \/ /\ m \in history \/ Cardinality(history) < HistorySize
       /\ history' = history \cup {m} /\ UNCHANGED evicted
    \/ /\ m \notin history /\ Cardinality(history) >= HistorySize
       /\ \E o \in history :
            history' = (history \ {o}) \cup {m} /\ evicted' = evicted \cup {o}

(* handleConsensusMsg accepts m.  A block of the next view may bring the    *)
(* change of view with it.  The message is offered to csPool as an inner    *)
(* one first.                                                               *)
Accept(m) ==
    /\ status = "running"
    /\ \/ m.view = min.view /\ Add(m, TRUE)
       \/ m.kind = "block" /\ m.view = min.view + 1 /\ Purge(min.epoch, m.view)
    /\ handled' = [handled EXCEPT ![m] = @ + 1]
    /\ MarkHistory(m)

(* handleConsensusMsg returns an error: paused, of another view, or not     *)
(* valid.  The message may come again.                                      *)
Refuse(m) ==
    /\ Add(m, TRUE)
    /\ UNCHANGED <<handled, history, evicted>>

(* Mutant of handleConsensusMsg: no second check for repeats.               *)
handleUnchecked ==
    /\ peerMsgCh # <<>>
    /\ LET m == Head(peerMsgCh).msg IN Accept(m) \/ Refuse(m)
    /\ forgetMessage(Head(peerMsgCh).peer)
    /\ peerMsgCh' = Tail(peerMsgCh)
    /\ UNCHANGED <<at, syncMsgCh, status, received, dropped>>

(* Mutant of handleConsensusMsg: a message stays while the engine pauses.   *)
handleWhenRunning ==
    /\ peerMsgCh # <<>> /\ status = "running"
    /\ LET m == Head(peerMsgCh).msg IN
       IF m \in history THEN UNCHANGED <<cache, min, handled, history, evicted>>
       ELSE Accept(m) \/ Refuse(m)
    /\ forgetMessage(Head(peerMsgCh).peer)
    /\ peerMsgCh' = Tail(peerMsgCh)
    /\ UNCHANGED <<at, syncMsgCh, status, received, dropped>>

(* The handler of a consensus message, with the second check for repeats    *)
handleConsensusMsg ==
    /\ peerMsgCh # <<>>
    /\ LET m == Head(peerMsgCh).msg IN
       IF m \in history THEN UNCHANGED <<cache, min, handled, history, evicted>>
       ELSE Accept(m) \/ Refuse(m)
    /\ forgetMessage(Head(peerMsgCh).peer)
    /\ peerMsgCh' = Tail(peerMsgCh)
    /\ UNCHANGED <<at, syncMsgCh, status, received, dropped>>

(* The handler of a sync message; a certificate is offered to csPool.       *)
handleSyncMsg ==
    /\ syncMsgCh # <<>>
    /\ IF status = "syncing" THEN UNCHANGED <<cache, min>>
       ELSE Add(Head(syncMsgCh).msg, TRUE)
    /\ forgetMessage(Head(syncMsgCh).peer)
    /\ syncMsgCh' = Tail(syncMsgCh)
    /\ UNCHANGED <<at, peerMsgCh, history, status, handled, evicted, received, dropped>>

(* changeView for another reason: enough blocks, or enough ViewChanges      *)
changeView ==
    /\ min.view < MaxView /\ Purge(min.epoch, min.view + 1)
    /\ UNCHANGED <<at, queues, peerMsgCh, syncMsgCh, history, status, handled, evicted,
                   received, dropped>>

(* The downloader or the fetcher pauses the engine, and ends.               *)
Pause(s) ==
    /\ s # status /\ (status = "running" \/ s = "running")
    /\ status' = s
    /\ UNCHANGED <<cache, min, at, queues, peerMsgCh, syncMsgCh, history, handled,
                   evicted, received, dropped>>

Next ==
    \/ \E p \in Peer : (\E m \in Offered : Receive(p, m)) \/ FirstCheck(p) \/ Enqueue(p)
    \/ handleConsensusMsg
    \/ handleSyncMsg
    \/ changeView
    \/ \E s \in {"running", "fetching", "syncing"} : Pause(s)

Spec == Init /\ [][Next]_vars

(* receiveLoop and the goroutines of the peers keep running.                *)
Fairness ==
    /\ \A p \in Peer : WF_vars(FirstCheck(p) \/ Enqueue(p))
    /\ WF_vars(handleConsensusMsg) /\ WF_vars(handleSyncMsg)

FairSpec == Spec /\ Fairness

-----------------------------------------------------------------------------
(* Properties *)

InFlight(p) ==
    Cardinality({i \in 1..Len(peerMsgCh) : peerMsgCh[i].peer = p})
    + Cardinality({i \in 1..Len(syncMsgCh) : syncMsgCh[i].peer = p})
    + (IF at[p] = Idle THEN 0 ELSE 1)

(* The counter of a peer is what the peer has in flight plus what was       *)
(* discarded at a full channel, and stays within the limit: forgetMessage   *)
(* runs once for each recorded message, on whichever goroutine disposes of  *)
(* it, except on the full-channel branch of ReceiveMessage and              *)
(* ReceiveSyncMsg, which never runs it.  So a peer that had MaxQueuesLimit  *)
(* messages discarded is not heard again.                                   *)
Accounted ==
    \A p \in Peer : queues[p] = InFlight(p) + dropped[p] /\ queues[p] <= MaxQueuesLimit

(* The same message from several peers is accepted once, as long as the     *)
(* history remembers it: the check in ReceiveMessage may be stale when the  *)
(* message is handled, the one in receiveLoop is not.                       *)
AcceptedOnce == \A m \in Offered : handled[m] > 1 => m \in evicted

(* Whether or not the engine is paused, the channels are emptied again and  *)
(* again, so that no peer is blocked for good by what is in front of it.    *)
ChannelsDrain == []<>(peerMsgCh = <<>> /\ syncMsgCh = <<>>)
=============================================================================
