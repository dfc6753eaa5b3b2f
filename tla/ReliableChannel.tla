-------------------------- MODULE ReliableChannel --------------------------
(***************************************************************************)
(* What a pair of SessionMessageManagers promises for messages that carry  *)
(* the reliable flag (src/source/net/session.h:21-41): a message is        *)
(* handled at most once by the other end, messages are handled without     *)
(* gaps, and the writer forgets a message only once it has been handled.   *)
(*                                                                         *)
(* Messages written by one end are numbered 1, 2, 3, ... in the order of   *)
(* the calls to Write; the number is called the body of the message.       *)
(***************************************************************************)
EXTENDS Integers

CONSTANT MaxWrites     \* [Nodes -> Nat], how many messages each end writes

Nodes == {"client", "server"}
Peer(p) == IF p = "client" THEN "server" ELSE "client"

VARIABLES
    written,    \* number of reliable messages each end has written
    delivered,  \* how often each message of an end was handed to the other
    unacked     \* bodies an end still keeps for retransmission

vars == <<written, delivered, unacked>>

Init ==
    /\ written = [p \in Nodes |-> 0]
    /\ delivered = [p \in Nodes |-> [b \in 1..MaxWrites[p] |-> 0]]
    /\ unacked = [p \in Nodes |-> {}]

Write(p) ==
    /\ written[p] < MaxWrites[p]
    /\ written' = [written EXCEPT ![p] = @ + 1]
    /\ unacked' = [unacked EXCEPT ![p] = @ \cup {written[p] + 1}]
    /\ UNCHANGED delivered

\* One packet of the peer reaches p: p handles the messages of the peer up to
\* body n that it had not handled yet, and forgets messages of its own that
\* the peer has handled.
Transfer(p, n, acked) ==
    /\ \A b \in acked : delivered[p][b] = 1
    /\ delivered' = [delivered EXCEPT ![Peer(p)] =
                        [b \in DOMAIN @ |-> IF b <= n /\ @[b] = 0 THEN 1 ELSE @[b]]]
    /\ unacked' = [unacked EXCEPT ![p] = @ \ acked]
    /\ UNCHANGED written

Next ==
    \E p \in Nodes :
        \/ Write(p)
        \/ \E n \in 0..written[Peer(p)], acked \in SUBSET unacked[p] :
              Transfer(p, n, acked)

Spec == Init /\ [][Next]_vars
=============================================================================
