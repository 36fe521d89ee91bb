------------------------------ MODULE MCInbox ------------------------------
(* Instances of Inbox for TLC. *)
EXTENDS Inbox

CONSTANTS p1, p2

MCPeer == {p1, p2}
message(k, v) == [kind |-> k, epoch |-> 0, view |-> v, key |-> 1]
MCOffered == {message("block", 0), message("block", 1), message("qc", 0)}
=============================================================================
