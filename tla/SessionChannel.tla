--------------------------- MODULE SessionChannel ---------------------------
(***************************************************************************)
(* The two SessionMessageManagers of one session and the UDP path between  *)
(* them (src/source/net/session.cpp, session.h).                           *)
(*                                                                         *)
(* Each end keeps a deque of reliable messages it has written and that are *)
(* not acknowledged yet; every packet it sends carries all of them, newest *)
(* first, then the unreliable messages, acknowledgements last.  The other  *)
(* end accepts a reliable message when its id lies in the half range above *)
(* the last id it has seen, and queues one acknowledgement per packet that *)
(* held something new.                                                     *)
(***************************************************************************)
EXTENDS Integers, Sequences, FiniteSets

CONSTANTS
    MaxWrites,    \* [Nodes -> Nat], bound: reliable messages each end writes
    MaxLossy,     \* bound: unreliable messages waiting at one end
    MaxInFlight,  \* bound: packets of one sender in the network
    Window,       \* workload: how far the writer runs ahead of its oldest
                  \* unacknowledged message; nothing in the code limits it
    Capacity,     \* messages that fit a packet
    InitialIds,   \* values the uninitialised id_counter may start with
    Faults        \* what the network may do: "lose", "duplicate", "reorder"

Nodes == {"client", "server"}
Peer(p) == IF p = "client" THEN "server" ELSE "client"

ASSUME ChannelAssumption ==
    /\ MaxWrites \in [Nodes -> Nat]
    /\ MaxLossy \in Nat
    /\ MaxInFlight \in Nat
    /\ Window \in Nat \ {0}
    /\ Capacity \in Nat
    /\ InitialIds \subseteq 0..255
    /\ Faults \subseteq {"lose", "duplicate", "reorder"}

VARIABLES
    id_counter,      \* id of the next reliable message
    out_reliable,    \* reliable messages not acknowledged; the deque's order
                     \* is that of the bodies, newest first
    out_lossy,       \* number of unreliable messages at the front of the
                     \* deque out_lossy (Write pushes to the front)
    out_acks,        \* acknowledgements at its back, oldest first
    last_seen_id,    \* id of the newest message accepted from the peer
    net,             \* packets an end has sent that are still in flight
    (* history: what the ids stand for *)
    written,         \* reliable messages written so far
    delivered,       \* how often each was pushed on the peer's inbound queue
    first_id,        \* what id_counter held when the session was made
    last_seen_body   \* the message of p that last_seen_id[Peer(p)] stands for

managerVars == <<id_counter, out_reliable, out_lossy, out_acks, last_seen_id>>
historyVars == <<written, delivered, first_id, last_seen_body>>
vars == <<managerVars, net, historyVars>>

-----------------------------------------------------------------------------
(* Sequence ids *)

\* 2^(8*sizeof(MessageSequenceID)): in C++ this is 2 XOR 8, not 2 to the 8th.
MAX_MESSAGE_SEQUENCE_ID == 10
HalfRange == MAX_MESSAGE_SEQUENCE_ID \div 2

\* Mutants, here and below, are the code with a plausible mistake in it: each is
\* what one of the properties tells from the code.

\* Mutant: every id but the last one seen is new.
IsNewMessageAnyOther(id, seen) ==
    (id - seen) % MAX_MESSAGE_SEQUENCE_ID # 0

\* The code adds MAX to a negative remainder, which is TLA+'s modulo.
IsNewMessage(id, seen) ==
    (id - seen) % MAX_MESSAGE_SEQUENCE_ID \in 1..HalfRange

\* Mutant: the difference is taken the wrong way round.
IsAckedReversed(id, ack) ==
    (id - ack) % MAX_MESSAGE_SEQUENCE_ID < HalfRange

IsAcked(id, ack) ==
    (ack - id) % MAX_MESSAGE_SEQUENCE_ID < HalfRange

\* A reliable message: its id, and which message it is (history).
Message == [body : Nat \ {0}, seq : 0..255]

-----------------------------------------------------------------------------
(* One end *)

\* SessionMessageManager's constructor: id_counter is left uninitialised.
Init ==
    /\ first_id \in [Nodes -> InitialIds]
    /\ id_counter = first_id
    /\ out_reliable = [p \in Nodes |-> {}]
    /\ out_lossy = [p \in Nodes |-> 0]
    /\ out_acks = [p \in Nodes |-> <<>>]
    /\ last_seen_id = [p \in Nodes |-> 255]
    /\ net = [p \in Nodes |-> <<>>]
    /\ written = [p \in Nodes |-> 0]
    /\ delivered = [p \in Nodes |-> [b \in 1..MaxWrites[p] |-> 0]]
    /\ last_seen_body = [p \in Nodes |-> 0]

\* Write of a message with the reliable flag.  The second conjunct bounds the
\* workload, not the code.
WriteReliable(p) ==
    /\ written[p] < MaxWrites[p]
    /\ \A m \in out_reliable[p] : written[p] + 1 - m.body < Window
    /\ out_reliable' = [out_reliable EXCEPT ![p] =
                          @ \cup {[body |-> written[p] + 1, seq |-> id_counter[p]]}]
    /\ id_counter' = [id_counter EXCEPT ![p] = (@ + 1) % MAX_MESSAGE_SEQUENCE_ID]
    /\ written' = [written EXCEPT ![p] = @ + 1]
    /\ UNCHANGED <<out_lossy, out_acks, last_seen_id, net,
                   delivered, first_id, last_seen_body>>

\* Write of a message without the reliable flag.
WriteLossy(p) ==
    /\ out_lossy[p] < MaxLossy
    /\ out_lossy' = [out_lossy EXCEPT ![p] = @ + 1]
    /\ UNCHANGED <<id_counter, out_reliable, out_acks, last_seen_id, net, historyVars>>

Bodies(messages) == {m.body : m \in messages}

AtMost(n, room) == IF n <= room THEN n ELSE IF room > 0 THEN room ELSE 0

\* Mutant: only the newest message is sent, older ones are taken as received.
AppendedNewest(p) == {m \in out_reliable[p] : m.body = written[p]}

\* The unacknowledged messages that are appended to a packet: from the front
\* of the deque until it is full.
Appended(p) ==
    {m \in out_reliable[p] :
        Cardinality(Bodies(out_reliable[p]) \cap (m.body + 1)..written[p]) < Capacity}

\* CraftSendPacket and the send: out_lossy is cleared, what did not fit included.
CraftSendPacket(p) ==
    /\ out_reliable[p] # {} \/ out_lossy[p] > 0 \/ out_acks[p] # <<>>
    /\ Len(net[p]) < MaxInFlight
    /\ LET lossy == AtMost(out_lossy[p], Capacity - Cardinality(Appended(p)))
           acks  == AtMost(Len(out_acks[p]), Capacity - Cardinality(Appended(p)) - lossy)
       IN  net' = [net EXCEPT ![p] =
                     Append(@, [reliable |-> Appended(p),
                                lossy    |-> lossy,
                                acks     |-> SubSeq(out_acks[p], 1, acks)])]
    /\ out_lossy' = [out_lossy EXCEPT ![p] = 0]
    /\ out_acks' = [out_acks EXCEPT ![p] = <<>>]
    /\ UNCHANGED <<id_counter, out_reliable, last_seen_id, historyVars>>

\* Mutant: an acknowledgement clears the queue.
ProcessAcksAll(queue, acks) == IF acks = <<>> THEN queue ELSE {}

\* ProcessAck for every acknowledgement of a packet.
ProcessAcks(queue, acks) ==
    {m \in queue : \A i \in 1..Len(acks) : ~ IsAcked(m.seq, acks[i].seq)}

\* Mutant: no message is too old.
FreshAll(p, pack) == pack.reliable

\* The messages of a packet that HandleReceivedPacket pushes on inbound: they
\* are all compared with the last_seen_id from before the packet.
Fresh(p, pack) == {m \in pack.reliable : IsNewMessage(m.seq, last_seen_id[p])}

\* Mutant: the oldest message accepted is recorded as the last one seen.
LastAccepted(fresh) == CHOOSE m \in fresh : \A n \in fresh : m.body <= n.body

\* newest(last_seen, id) compares its first argument with last_seen_id and not
\* with its second one: it keeps the first message accepted, the packet's
\* newest.
FirstAccepted(fresh) == CHOOSE m \in fresh : \A n \in fresh : n.body <= m.body

HandleReceivedPacket(p, pack) ==
    LET q == Peer(p)
        fresh == Fresh(p, pack)
    IN  /\ delivered' = [delivered EXCEPT ![q] =
                           [b \in DOMAIN @ |-> IF b \in Bodies(fresh) THEN @[b] + 1 ELSE @[b]]]
        /\ out_reliable' = [out_reliable EXCEPT ![p] = ProcessAcks(@, pack.acks)]
        /\ IF fresh = {}
           THEN UNCHANGED <<last_seen_id, last_seen_body, out_acks>>
           ELSE /\ last_seen_id' = [last_seen_id EXCEPT ![p] = FirstAccepted(fresh).seq]
                /\ last_seen_body' = [last_seen_body EXCEPT ![q] = FirstAccepted(fresh).body]
                /\ out_acks' = [out_acks EXCEPT ![p] = Append(@, FirstAccepted(fresh))]
        /\ UNCHANGED <<id_counter, out_lossy, written, first_id>>

-----------------------------------------------------------------------------
(* The network: a FIFO path each way, with the faults the constant allows *)

Deliver(p) ==
    /\ net[Peer(p)] # <<>>
    /\ HandleReceivedPacket(p, Head(net[Peer(p)]))
    /\ net' = [net EXCEPT ![Peer(p)] = Tail(@)]

Lose(p) ==
    /\ "lose" \in Faults
    /\ net[p] # <<>>
    /\ net' = [net EXCEPT ![p] = Tail(@)]
    /\ UNCHANGED <<managerVars, historyVars>>

\* The packet is handled and a copy of it arrives later.
Duplicate(p) ==
    /\ "duplicate" \in Faults
    /\ net[Peer(p)] # <<>>
    /\ HandleReceivedPacket(p, Head(net[Peer(p)]))
    /\ UNCHANGED net

\* The k-th packet overtakes the ones sent before it.
Overtake(p, k) ==
    /\ "reorder" \in Faults
    /\ HandleReceivedPacket(p, net[Peer(p)][k])
    /\ net' = [net EXCEPT ![Peer(p)] = SubSeq(@, 1, k - 1) \o SubSeq(@, k + 1, Len(@))]

Next ==
    \E p \in Nodes :
        \/ WriteReliable(p)
        \/ WriteLossy(p)
        \/ CraftSendPacket(p)
        \/ Deliver(p)
        \/ Lose(p)
        \/ Duplicate(p)
        \/ \E k \in 2..Len(net[Peer(p)]) : Overtake(p, k)

Spec == Init /\ [][Next]_vars

\* The game loops craft a packet at every send tick; the network does not lose
\* every packet for ever.
Fairness ==
    \A p \in Nodes : WF_vars(CraftSendPacket(p)) /\ SF_vars(Deliver(p))

FairSpec == Spec /\ Fairness

-----------------------------------------------------------------------------
(* Properties *)

Packet == [reliable : SUBSET Message, lossy : 0..MaxLossy, acks : Seq(Message)]

\* Every variable holds a value of its type, and ids fit a byte.
TypeOK ==
    /\ first_id \in [Nodes -> InitialIds]
    /\ id_counter \in [Nodes -> 0..255]
    /\ out_reliable \in [Nodes -> SUBSET Message]
    /\ \A p \in Nodes : IsFiniteSet(out_reliable[p])
    /\ out_lossy \in [Nodes -> 0..MaxLossy]
    /\ out_acks \in [Nodes -> Seq(Message)]
    /\ last_seen_id \in [Nodes -> 0..255]
    /\ net \in [Nodes -> Seq(Packet)]
    /\ written \in [Nodes -> Nat]
    /\ \A p \in Nodes : written[p] <= MaxWrites[p]
    /\ DOMAIN delivered = Nodes
    /\ \A p \in Nodes : delivered[p] \in [1..MaxWrites[p] -> Nat]
    /\ last_seen_body \in [Nodes -> Nat]

\* However often a message is retransmitted or duplicated on the way, the
\* windowed comparison of ids hands it to the other end once
\* (HandleReceivedPacket with is_new_message).
AtMostOnce ==
    \A p \in Nodes : \A b \in 1..written[p] : delivered[p][b] <= 1

\* A message that the other end has not handled is still kept for
\* retransmission: neither an old acknowledgement nor an id that wrapped
\* around makes ProcessAck drop it.
NoReliableLoss ==
    \A p \in Nodes : \A b \in 1..written[p] :
        delivered[p][b] = 0 => b \in Bodies(out_reliable[p])

\* Messages are handled without gaps: when one has been handled, so have all
\* those written before it (within one packet they are handled newest first).
NoGaps ==
    \A p \in Nodes : \A b \in 2..written[p] :
        delivered[p][b] > 0 => delivered[p][b - 1] > 0

\* Every reliable message that was written is handled by the other end at last,
\* however many packets are lost on the way.
Delivery ==
    \A p \in Nodes : \A b \in 1..MaxWrites[p] :
        (written[p] >= b) ~> (delivered[p][b] > 0)

\* The channel as its users see it.
Abstract == INSTANCE ReliableChannel WITH
    unacked <- [p \in Nodes |-> Bodies(out_reliable[p])]

\* Two managers over a lossy path implement the reliable channel.
ImplementsReliableChannel == Abstract!Spec
=============================================================================
