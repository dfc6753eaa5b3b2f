------------------------- MODULE SessionChannelInv -------------------------
(***************************************************************************)
(* Why SessionChannel is safe: two ways of using it that make it so, over  *)
(* a path that loses packets or with few messages over any path, and the   *)
(* inductive invariants behind AtMostOnce, NoReliableLoss and NoGaps.      *)
(***************************************************************************)
EXTENDS SessionChannel

\* At most half of the ids are in use, a packet holds all of them, the path is
\* FIFO and duplicates nothing, and id_counter starts within the half range
\* above the 255 that last_seen_id starts with.
SafeUse ==
    /\ Window <= HalfRange
    /\ Window <= Capacity
    /\ Faults \subseteq {"lose"}
    /\ \A id \in InitialIds : IsNewMessage(id, 255)

\* m is the message of p that its body says.
Numbered(p, m) ==
    (m.seq - first_id[p]) % MAX_MESSAGE_SEQUENCE_ID
        = (m.body - 1) % MAX_MESSAGE_SEQUENCE_ID

\* No message is numbered above those written (what makes the newest message
\* of a packet well defined).
BodiesBounded(p) ==
    /\ \A m \in out_reliable[p] : m.body <= written[p]
    /\ \A k \in 1..Len(net[p]) : \A m \in net[p][k].reliable : m.body <= written[p]

TypeInv == TypeOK /\ \A p \in Nodes : BodiesBounded(p)

Unacked(p) == Bodies(out_reliable[p])

\* The receiver of p's messages: what it has seen is what it was handed.
ReceiverOK(p) ==
    /\ last_seen_body[p] <= written[p]
    /\ IF last_seen_body[p] = 0
       THEN last_seen_id[Peer(p)] = 255
       ELSE Numbered(p, [body |-> last_seen_body[p], seq |-> last_seen_id[Peer(p)]])
    /\ \A b \in 1..MaxWrites[p] :
          delivered[p][b] = IF b <= last_seen_body[p] THEN 1 ELSE 0

\* The writer keeps what has not been handled, and is never half the id space
\* ahead.
WriterOK(p) ==
    /\ (id_counter[p] - first_id[p]) % MAX_MESSAGE_SEQUENCE_ID
          = written[p] % MAX_MESSAGE_SEQUENCE_ID
    /\ \A m \in out_reliable[p] : Numbered(p, m) /\ written[p] - m.body < Window
    /\ (last_seen_body[p] + 1)..written[p] \subseteq Unacked(p)

\* A packet of p is not stale, and has no gap above what was handled.
PacketOK(p, pack) ==
    \A m \in pack.reliable :
        /\ Numbered(p, m)
        /\ last_seen_body[p] - m.body < HalfRange
        /\ (last_seen_body[p] + 1)..m.body \subseteq Bodies(pack.reliable)

PacketsOK(p) ==
    /\ \A k \in 1..Len(net[p]) : PacketOK(p, net[p][k])
    /\ \A j, k \in 1..Len(net[p]) : j < k =>
          \A m \in net[p][j].reliable, n \in net[p][k].reliable :
              m.body - n.body < HalfRange

\* An acknowledgement on its way to p names a message that was handled, and
\* everything above it is still kept.
AckOK(p, ack) ==
    /\ Numbered(p, ack)
    /\ ack.body <= last_seen_body[p]
    /\ (ack.body + 1)..written[p] \subseteq Unacked(p)

AcksOK(p) ==
    LET sent == net[Peer(p)]
        queued == out_acks[Peer(p)]
    IN  /\ \A i \in 1..Len(queued) : AckOK(p, queued[i])
        /\ \A k \in 1..Len(sent) : \A i \in 1..Len(sent[k].acks) : AckOK(p, sent[k].acks[i])

\* Acknowledgements reach p in the order of the messages they name.
AcksOrdered(p) ==
    LET sent == net[Peer(p)]
        queued == out_acks[Peer(p)]
    IN  /\ \A j, k \in 1..Len(sent) : j < k =>
              \A x \in 1..Len(sent[j].acks), y \in 1..Len(sent[k].acks) :
                  sent[j].acks[x].body <= sent[k].acks[y].body
        /\ \A j \in 1..Len(sent) : \A x \in 1..Len(sent[j].acks), y \in 1..Len(queued) :
              sent[j].acks[x].body <= queued[y].body

\* The inductive invariant: the ids in use on the path always lie within half
\* of the id space around what the receiver has seen.
IInv ==
    /\ TypeInv
    /\ \A p \in Nodes :
        /\ ReceiverOK(p)
        /\ WriterOK(p)
        /\ PacketsOK(p)
        /\ AcksOK(p)
        /\ AcksOrdered(p)

-----------------------------------------------------------------------------
(* The first messages of an end, over a path with any of the faults *)

\* A packet holds half of the ids, and id_counter starts within the half range
\* above 255.  Nothing is assumed of the path or of how far a writer runs ahead.
FewUse ==
    /\ HalfRange <= Capacity
    /\ \A id \in InitialIds : IsNewMessage(id, 255)

\* The writer's ids are the next ones, and it keeps what has not been handled.
KeptOK(p) ==
    /\ (id_counter[p] - first_id[p]) % MAX_MESSAGE_SEQUENCE_ID
          = written[p] % MAX_MESSAGE_SEQUENCE_ID
    /\ \A m \in out_reliable[p] : Numbered(p, m)
    /\ (last_seen_body[p] + 1)..written[p] \subseteq Unacked(p)

\* A packet of p, however old, has no gap above what was handled.
OnPathOK(p, pack) ==
    \A m \in pack.reliable :
        /\ Numbered(p, m)
        /\ (last_seen_body[p] + 1)..m.body \subseteq Bodies(pack.reliable)

\* An acknowledgement of p's messages names one that was handled.
HandledOK(p, ack) == Numbered(p, ack) /\ ack.body <= last_seen_body[p]

FirstMessagesOK(p) ==
    /\ ReceiverOK(p)
    /\ KeptOK(p)
    /\ \A k \in 1..Len(net[p]) : OnPathOK(p, net[p][k])
    /\ \A i \in 1..Len(out_acks[Peer(p)]) : HandledOK(p, out_acks[Peer(p)][i])
    /\ \A k \in 1..Len(net[Peer(p)]) : \A i \in 1..Len(net[Peer(p)][k].acks) :
          HandledOK(p, net[Peer(p)][k].acks[i])

\* The inductive invariant: as long as an end has written no more than half of
\* the ids, its ids are told apart whatever the path does to its packets.
FewInv ==
    /\ TypeInv
    /\ \A p \in Nodes : written[p] <= HalfRange => FirstMessagesOK(p)

\* As long as an end has written five messages at most, they are handled at most
\* once, kept until they are handled, and handled without gaps (is_new_message
\* and is_acked of src/source/net/session.cpp), whatever the other end has done.
FirstMessagesSafe ==
    \A p \in Nodes : written[p] <= HalfRange =>
        \A b \in 1..written[p] :
            /\ delivered[p][b] <= 1
            /\ delivered[p][b] = 0 => b \in Unacked(p)
            /\ \A a \in 1..b : delivered[p][b] > 0 => delivered[p][a] > 0
=============================================================================
