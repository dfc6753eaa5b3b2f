------------------------ MODULE FirstMessagesProofs -------------------------
(***************************************************************************)
(* The first messages of each end, over a path that loses, duplicates and  *)
(* reorders: until an end has written more than half of the ids, nothing   *)
(* the path does makes the other end mistake one message for another.      *)
(***************************************************************************)
EXTENDS SessionChannelProofs

LEMMA FewInvFacts ==
    ASSUME FewInv, NEW p \in Nodes
    PROVE  /\ TypeInv
           /\ written[p] <= 5 => /\ ReceiverOK(p) /\ KeptOK(p) /\ FirstMessagesOK(p)
<1>1. HalfRange = 5
  BY DEF HalfRange, MAX_MESSAGE_SEQUENCE_ID
<1> QED BY <1>1 DEF FewInv, FirstMessagesOK

\* Every packet on a path after the step was on it before.
PathsShrink ==
    \A r \in Nodes : \A i \in 1..Len(net'[r]) :
        \E j \in 1..Len(net[r]) : net'[r][i] = net[r][j]

\* A packet of an end with few messages is readable, however late it comes.
LEMMA FewAreReadable ==
    ASSUME FewInv, FewUse, NEW p \in Nodes, written[p] <= 5, NEW k \in 1..Len(net[p])
    PROVE  /\ FirstIdsInRange
           /\ net[p][k] \in Packet
           /\ Readable(p, net[p][k])
<1>1. TypeInv /\ FirstMessagesOK(p) /\ ReceiverOK(p)
  BY FewInvFacts
<1>2. /\ net[p] \in Seq(Packet) /\ BodiesBounded(p)
      /\ written[p] \in Nat /\ last_seen_body[p] \in Nat
  BY <1>1, TypeFacts
<1>3. net[p][k] \in Packet /\ net[p][k].reliable \in SUBSET Message
  BY <1>2, PacketFacts
<1>4. OnPathOK(p, net[p][k])
  BY <1>1 DEF FirstMessagesOK
<1>5. last_seen_body[p] <= written[p]
  BY <1>1 DEF ReceiverOK
<1>6. ASSUME NEW m \in net[p][k].reliable
      PROVE  m.body <= written[p] /\ last_seen_body[p] - m.body < 5
  <2>1. m.body \in Nat \ {0}
    BY <1>3 DEF Message
  <2> QED BY <2>1, <1>2, <1>5 DEF BodiesBounded
<1>7. written[p] - last_seen_body[p] <= 5
  BY <1>2
<1> QED BY <1>1, <1>3, <1>4, <1>6, <1>7
        DEF Readable, OnPathOK, FirstIdsInRange, FewUse, HalfRange, MAX_MESSAGE_SEQUENCE_ID

-----------------------------------------------------------------------------
(* The invariant: one lemma per action *)

LEMMA InitFewInv == Init => FewInv
<1> SUFFICES ASSUME Init PROVE FewInv
  OBVIOUS
<1>1. IInv
  BY InitIInv
<1>2. ASSUME NEW p \in Nodes PROVE FirstMessagesOK(p)
  <2>1. ReceiverOK(p) /\ WriterOK(p)
    BY <1>1, IInvFacts
  <2>2. KeptOK(p)
    BY <2>1 DEF WriterOK, KeptOK
  <2>3. net[p] = <<>> /\ net[Peer(p)] = <<>> /\ out_acks[Peer(p)] = <<>>
    BY PeerIsNode DEF Init
  <2> QED BY <2>1, <2>2, <2>3 DEF FirstMessagesOK
<1> QED BY <1>1, <1>2 DEF IInv, FewInv

LEMMA WriteReliableFewInv ==
    ASSUME FewInv, NEW p \in Nodes, WriteReliable(p)
    PROVE  FewInv'
<1> DEFINE m == [body |-> written[p] + 1, seq |-> id_counter[p]]
<1>1. TypeInv /\ TypeInv'
  BY FewInvFacts, WriteReliableTypeInv
<1>2. /\ UNCHANGED <<out_acks, last_seen_id, net, delivered, first_id, last_seen_body>>
      /\ out_reliable'[p] = out_reliable[p] \cup {m}
      /\ written'[p] = written[p] + 1
      /\ id_counter'[p] = (id_counter[p] + 1) % 10
      /\ \A q \in Nodes \ {p} : /\ out_reliable'[q] = out_reliable[q]
                                /\ written'[q] = written[q]
                                /\ id_counter'[q] = id_counter[q]
  BY <1>1 DEF WriteReliable, TypeInv, TypeOK, MAX_MESSAGE_SEQUENCE_ID
<1> HIDE DEF m
<1>3. ASSUME NEW q \in Nodes, FirstMessagesOK(q), ReceiverOK(q)', KeptOK(q)'
      PROVE  FirstMessagesOK(q)'
  BY <1>2, <1>3 DEF FirstMessagesOK, OnPathOK, HandledOK, Numbered
<1>4. ASSUME NEW q \in Nodes, q # p, FirstMessagesOK(q)
      PROVE  FirstMessagesOK(q)'
  <2>1. written'[q] = written[q] /\ out_reliable'[q] = out_reliable[q] /\ id_counter'[q] = id_counter[q]
    BY <1>2, <1>4
  <2>2. ReceiverOK(q) /\ KeptOK(q)
    BY <1>4 DEF FirstMessagesOK
  <2>3. ReceiverOK(q)'
    BY <2>1, <2>2, <1>2 DEF ReceiverOK, Numbered
  <2>4. KeptOK(q)'
    BY <2>1, <2>2, <1>2 DEF KeptOK, Numbered, Unacked
  <2> QED BY <2>3, <2>4, <1>3, <1>4
<1>5. ASSUME written[p] + 1 <= 5 PROVE FirstMessagesOK(p)'
  <2>1. /\ written[p] \in Nat /\ last_seen_body[p] \in Nat
        /\ id_counter[p] \in 0..255 /\ first_id[p] \in 0..255
    BY <1>1, TypeFacts
  <2>2. written[p] <= 5
    BY <2>1, <1>5
  <2>3. FirstMessagesOK(p) /\ ReceiverOK(p) /\ KeptOK(p)
    BY <2>2, FewInvFacts
  <2>4. ReceiverOK(p)'
    BY <2>1, <2>3, <1>2 DEF ReceiverOK, Numbered
  <2>5. (id_counter[p] - first_id[p]) % 10 = written[p] % 10
    BY <2>3 DEF KeptOK, MAX_MESSAGE_SEQUENCE_ID
  <2>6. (id_counter'[p] - first_id'[p]) % 10 = written'[p] % 10
    <3>1. id_counter[p] \in Int /\ first_id[p] \in Int /\ written[p] \in Int
      BY <2>1
    <3>2. (((id_counter[p] + 1) % 10) - first_id[p]) % 10 = (written[p] + 1) % 10
      BY ONLY <3>1, <2>5, ModCount
    <3> QED BY <3>2, <1>2
  <2>7. ASSUME NEW n \in out_reliable'[p] PROVE Numbered(p, n)'
    <3>1. CASE n = m
      <4>1. n.seq = id_counter[p] /\ n.body - 1 = written[p]
        BY <3>1, <2>1 DEF m
      <4> QED BY <4>1, <2>5, <1>2 DEF Numbered, MAX_MESSAGE_SEQUENCE_ID
    <3>2. CASE n \in out_reliable[p]
      BY <3>2, <2>3, <1>2 DEF KeptOK, Numbered
    <3> QED BY <3>1, <3>2, <1>2
  <2>8. (last_seen_body[p] + 1)..written'[p] \subseteq Unacked(p)'
    <3>1. Unacked(p)' = Unacked(p) \cup {written[p] + 1}
      <4>1. Bodies(out_reliable[p] \cup {m}) = Bodies(out_reliable[p]) \cup {m.body}
        BY Zenon DEF Bodies
      <4> QED BY <4>1, <1>2 DEF Unacked, m
    <3>2. (last_seen_body[p] + 1)..written[p] \subseteq Unacked(p)
      BY <2>3 DEF KeptOK
    <3> QED BY <3>1, <3>2, <2>1, <1>2
  <2>9. KeptOK(p)'
    BY <2>6, <2>7, <2>8, <1>2 DEF KeptOK, MAX_MESSAGE_SEQUENCE_ID
  <2> QED BY <2>3, <2>4, <2>9, <1>3
<1>6. ASSUME NEW q \in Nodes, written'[q] <= 5 PROVE FirstMessagesOK(q)'
  <2>1. CASE q = p
    BY <2>1, <1>2, <1>5, <1>6
  <2>2. CASE q # p
    <3>1. written[q] <= 5
      BY <2>2, <1>2, <1>6
    <3> QED BY <3>1, <2>2, <1>4, FewInvFacts
  <2> QED BY <2>1, <2>2
<1> QED BY <1>1, <1>6 DEF FewInv, HalfRange, MAX_MESSAGE_SEQUENCE_ID

\* Few messages all fit the packet.
LEMMA FewAreAppended ==
    ASSUME FewInv, FewUse, NEW p \in Nodes, written[p] <= 5
    PROVE  Appended(p) = out_reliable[p]
<1> SUFFICES ASSUME NEW m \in out_reliable[p]
             PROVE  Cardinality(Bodies(out_reliable[p]) \cap (m.body + 1)..written[p]) < Capacity
  BY DEF Appended
<1> DEFINE newer == Bodies(out_reliable[p]) \cap (m.body + 1)..written[p]
<1>1. m.body \in Nat \ {0} /\ written[p] \in Nat
  BY FewInvFacts, TypeFacts DEF Message
<1>2. Capacity \in Nat /\ 5 <= Capacity
  BY ChannelAssumption DEF FewUse, HalfRange, MAX_MESSAGE_SEQUENCE_ID
<1>3. /\ IsFiniteSet((m.body + 1)..written[p])
      /\ Cardinality((m.body + 1)..written[p])
           = IF m.body + 1 > written[p] THEN 0 ELSE written[p] - (m.body + 1) + 1
  <2>1. m.body + 1 \in Int /\ written[p] \in Int
    BY <1>1
  <2> QED BY <2>1, FS_Interval
<1>4. Cardinality((m.body + 1)..written[p]) < 5
  BY ONLY <1>1, <1>3, written[p] <= 5
<1>5. Cardinality(newer) <= Cardinality((m.body + 1)..written[p]) /\ IsFiniteSet(newer)
  BY <1>3, FS_Subset
<1>6. Cardinality(newer) \in Nat /\ Cardinality((m.body + 1)..written[p]) \in Nat
  BY <1>3, <1>5, FS_CardinalityType
<1> HIDE DEF newer
<1>7. Cardinality(newer) < Capacity
  BY ONLY <1>2, <1>4, <1>5, <1>6
<1> QED BY <1>7 DEF newer

LEMMA CraftSendPacketFewInv ==
    ASSUME FewInv, FewUse, NEW p \in Nodes, CraftSendPacket(p)
    PROVE  FewInv'
<1>1. TypeInv /\ TypeInv'
  BY FewInvFacts, CraftSendPacketTypeInv
<1>2. PICK pack \in Packet :
         /\ pack.reliable = Appended(p)
         /\ net' = [net EXCEPT ![p] = Append(@, pack)]
         /\ \E n \in 0..Len(out_acks[p]) : pack.acks = SubSeq(out_acks[p], 1, n)
  BY <1>1, CraftedPacket
<1>3. /\ UNCHANGED <<id_counter, out_reliable, last_seen_id, written, delivered,
                     first_id, last_seen_body>>
      /\ out_acks'[p] = <<>>
      /\ \A q \in Nodes \ {p} : out_acks'[q] = out_acks[q] /\ net'[q] = net[q]
  BY <1>1, <1>2 DEF CraftSendPacket, historyVars, TypeInv, TypeOK
<1>4. /\ Len(net[p]) \in Nat
      /\ net'[p][Len(net[p]) + 1] = pack
      /\ \A k \in 1..Len(net[p]) : net'[p][k] = net[p][k]
      /\ \A k \in 1..Len(net'[p]) : k \in 1..Len(net[p]) \/ k = Len(net[p]) + 1
  <2>1. net \in [Nodes -> Seq(Packet)] /\ net[p] \in Seq(Packet)
    BY <1>1 DEF TypeInv, TypeOK
  <2>2. net'[p] = Append(net[p], pack)
    BY <2>1, <1>2
  <2>3. /\ Len(net[p]) \in Nat /\ Len(net'[p]) = Len(net[p]) + 1
        /\ net'[p][Len(net[p]) + 1] = pack
        /\ \A k \in 1..Len(net[p]) : net'[p][k] = net[p][k]
    BY <2>1, <2>2, AppendProperties, LenProperties
  <2> QED BY <2>3
<1>5. ASSUME NEW i \in 1..Len(pack.acks)
      PROVE  \E j \in 1..Len(out_acks[p]) : pack.acks[i] = out_acks[p][j]
  <2>1. PICK n \in 0..Len(out_acks[p]) : pack.acks = SubSeq(out_acks[p], 1, n)
    BY <1>2
  <2>2. out_acks[p] \in Seq(Message) /\ Len(out_acks[p]) \in Nat
    BY <1>1, TypeFacts, LenProperties
  <2>3. \A j \in 1..n : out_acks[p][j] \in Message
    BY <2>1, <2>2, ElementOfSeq
  <2>4. /\ Len(SubSeq(out_acks[p], 1, n)) = IF 1 <= n THEN n - 1 + 1 ELSE 0
        /\ \A j \in 1..n - 1 + 1 : SubSeq(out_acks[p], 1, n)[j] = out_acks[p][1 + j - 1]
    BY <2>1, <2>2, <2>3, SubSeqProperties
  <2>5. n \in Nat /\ n <= Len(out_acks[p]) /\ Len(pack.acks) = n
    BY <2>1, <2>2, <2>4
  <2>6. i \in 1..Len(out_acks[p]) /\ pack.acks[i] = out_acks[p][i]
    BY <2>1, <2>4, <2>5, <1>5, <2>2
  <2> QED BY <2>6
<1>6. ASSUME NEW q \in Nodes, written[q] <= 5 PROVE FirstMessagesOK(q)'
  <2>1. FirstMessagesOK(q) /\ ReceiverOK(q) /\ KeptOK(q)
    BY <1>6, FewInvFacts
  <2>2. ReceiverOK(q)' /\ KeptOK(q)'
    BY <2>1, <1>3 DEF ReceiverOK, KeptOK, Numbered, Unacked
  <2>3. \A a : HandledOK(q, a)' <=> HandledOK(q, a)
    BY <1>3 DEF HandledOK, Numbered
  <2>4. \A a : OnPathOK(q, a)' <=> OnPathOK(q, a)
    BY <1>3 DEF OnPathOK, Numbered
  <2>5. CASE q = p
    <3>1. Peer(p) \in Nodes \ {p}
      BY PeerIsNode
    <3>2. net'[Peer(p)] = net[Peer(p)] /\ out_acks'[Peer(p)] = out_acks[Peer(p)]
      BY <3>1, <1>3
    <3>3. OnPathOK(p, pack)
      <4>1. pack.reliable = out_reliable[p]
        BY <1>2, <1>6, <2>5, FewAreAppended
      <4>2. /\ written[p] \in Nat /\ last_seen_body[p] \in Nat
            /\ \A m \in out_reliable[p] : m.body \in Nat /\ m.body <= written[p]
        BY <1>1, TypeFacts DEF BodiesBounded, Message
      <4>3. \A m \in out_reliable[p] :
               (last_seen_body[p] + 1)..m.body \subseteq (last_seen_body[p] + 1)..written[p]
        BY <4>2
      <4> QED BY <4>1, <4>3, <2>1, <2>5 DEF OnPathOK, KeptOK, Unacked
    <3>4. \A k \in 1..Len(net'[p]) : OnPathOK(p, net'[p][k])
      BY <3>3, <1>4, <2>1, <2>5 DEF FirstMessagesOK
    <3>5. \A k \in 1..Len(net'[p]) : OnPathOK(p, net[p][k])'
      BY <3>4, <2>4, <2>5
    <3> QED BY <3>2, <3>5, <2>1, <2>2, <2>3, <2>5 DEF FirstMessagesOK
  <2>6. CASE q # p
    <3>1. Peer(q) = p /\ net'[q] = net[q]
      BY <2>6, <1>3 DEF Nodes, Peer
    <3>2. \A i \in 1..Len(pack.acks) : HandledOK(q, pack.acks[i])
      BY <3>1, <1>5, <2>1 DEF FirstMessagesOK
    <3>3. \A k \in 1..Len(net'[p]) : \A i \in 1..Len(net'[p][k].acks) :
             HandledOK(q, net'[p][k].acks[i])
      BY <3>1, <3>2, <1>4, <2>1 DEF FirstMessagesOK
    <3>4. Len(out_acks'[p]) = 0
      BY <1>3
    <3> QED BY <3>1, <3>3, <3>4, <2>1, <2>2, <2>3, <2>4 DEF FirstMessagesOK
  <2> QED BY <2>5, <2>6
<1> QED BY <1>1, <1>3, <1>6 DEF FewInv, HalfRange, MAX_MESSAGE_SEQUENCE_ID

\* A step that only takes packets off the paths.
LEMMA ShrinkFewInv ==
    ASSUME FewInv, TypeInv', PathsShrink, UNCHANGED <<managerVars, historyVars>>
    PROVE  FewInv'
<1>1. UNCHANGED <<id_counter, out_reliable, out_acks, last_seen_id, written, delivered,
                  first_id, last_seen_body>>
  BY DEF managerVars, historyVars
<1>2. ASSUME NEW q \in Nodes, written[q] <= 5 PROVE FirstMessagesOK(q)'
  <2>1. FirstMessagesOK(q) /\ ReceiverOK(q) /\ KeptOK(q)
    BY <1>2, FewInvFacts
  <2>2. ReceiverOK(q)' /\ KeptOK(q)'
    BY <2>1, <1>1 DEF ReceiverOK, KeptOK, Numbered, Unacked
  <2>3. \A a : (HandledOK(q, a)' <=> HandledOK(q, a)) /\ (OnPathOK(q, a)' <=> OnPathOK(q, a))
    BY <1>1 DEF HandledOK, OnPathOK, Numbered
  <2>4. \A k \in 1..Len(net'[q]) : OnPathOK(q, net'[q][k])
    BY <2>1 DEF PathsShrink, FirstMessagesOK
  <2>5. \A k \in 1..Len(net'[Peer(q)]) : \A i \in 1..Len(net'[Peer(q)][k].acks) :
           HandledOK(q, net'[Peer(q)][k].acks[i])
    BY <2>1, PeerIsNode DEF PathsShrink, FirstMessagesOK
  <2>6. \A k \in 1..Len(net'[q]) : OnPathOK(q, net[q][k])'
    BY <2>3, <2>4
  <2> QED BY <2>1, <2>2, <2>3, <2>5, <2>6, <1>1 DEF FirstMessagesOK
<1> QED BY <1>1, <1>2 DEF FewInv, HalfRange, MAX_MESSAGE_SEQUENCE_ID

\* Handling a packet of the path, whichever it is, keeps what holds of the
\* messages of its sender ...
LEMMA HandlingKeepsSender ==
    ASSUME FewInv, FewUse, NEW p \in Nodes, NEW k \in 1..Len(net[Peer(p)]),
           HandleReceivedPacket(p, net[Peer(p)][k]), PathsShrink,
           written[Peer(p)] <= 5
    PROVE  FirstMessagesOK(Peer(p))'
<1> DEFINE q == Peer(p)
           pack == net[q][k]
<1>1. q \in Nodes /\ q # p /\ Peer(q) = p
  BY PeerIsNode
<1>2. TypeInv /\ FirstMessagesOK(q) /\ KeptOK(q)
  BY <1>1, FewInvFacts
<1>3. FirstIdsInRange /\ pack \in Packet /\ Readable(q, pack)
  BY <1>1, FewAreReadable
<1>4. /\ last_seen_body'[q] \in Nat
      /\ last_seen_body[q] <= last_seen_body'[q]
      /\ \/ UNCHANGED <<last_seen_body, last_seen_id, out_acks>>
         \/ \E a \in pack.reliable :
               /\ last_seen_body'[q] = a.body
               /\ out_acks'[p] = Append(out_acks[p], a)
      /\ ReceiverOK(q)'
  BY <1>2, <1>3, DeliverReceiver
<1> HIDE DEF q, pack
<1>5. /\ UNCHANGED <<id_counter, written, first_id>>
      /\ out_reliable'[q] = out_reliable[q]
  <2>1. out_reliable \in [Nodes -> SUBSET Message]
    BY <1>2 DEF TypeInv, TypeOK
  <2> QED BY <2>1, <1>1 DEF HandleReceivedPacket, q
<1>6. last_seen_body[q] \in Nat /\ written[q] \in Nat /\ out_acks[p] \in Seq(Message)
  BY <1>1, <1>2, TypeFacts
<1>7. KeptOK(q)'
  <2>1. (last_seen_body'[q] + 1)..written[q] \subseteq (last_seen_body[q] + 1)..written[q]
    BY <1>4, <1>6
  <2> QED BY <2>1, <1>2, <1>5 DEF KeptOK, Numbered, Unacked
<1>8. ASSUME NEW i \in 1..Len(net'[q]) PROVE OnPathOK(q, net[q][i])'
  <2>1. PICK j \in 1..Len(net[q]) : net'[q][i] = net[q][j]
    BY <1>1 DEF PathsShrink
  <2>2. OnPathOK(q, net'[q][i])
    BY <2>1, <1>2 DEF FirstMessagesOK
  <2>3. \A m \in net'[q][i].reliable : m.body \in Nat
    BY <2>1, <1>1, <1>2, TypeFacts, PacketFacts DEF Message
  <2>4. \A m \in net'[q][i].reliable :
           (last_seen_body'[q] + 1)..m.body \subseteq (last_seen_body[q] + 1)..m.body
    BY <2>3, <1>4, <1>6
  <2> QED BY <2>2, <2>4, <1>5 DEF OnPathOK, Numbered
<1>9. ASSUME NEW ack \in Message, HandledOK(q, ack) PROVE HandledOK(q, ack)'
  <2>1. ack.body \in Nat
    BY DEF Message
  <2> QED BY <2>1, <1>4, <1>5, <1>6, <1>9 DEF HandledOK, Numbered
<1>10. ASSUME NEW i \in 1..Len(out_acks'[p]) PROVE HandledOK(q, out_acks[p][i])'
  <2>1. \A j \in 1..Len(out_acks[p]) : out_acks[p][j] \in Message /\ HandledOK(q, out_acks[p][j])
    BY <1>1, <1>2, <1>6, ElementOfSeq DEF FirstMessagesOK
  <2>2. CASE out_acks' = out_acks
    BY <2>1, <2>2, <1>9, <1>10
  <2>3. ASSUME NEW a \in pack.reliable, last_seen_body'[q] = a.body,
               out_acks'[p] = Append(out_acks[p], a)
        PROVE  HandledOK(q, out_acks[p][i])'
    <3>1. a \in Message /\ Numbered(q, a) /\ a.body \in Nat
      BY <1>3 DEF Packet, Readable, Message
    <3>2. /\ Len(out_acks[p]) \in Nat
          /\ Len(out_acks'[p]) = Len(out_acks[p]) + 1
          /\ out_acks'[p][Len(out_acks[p]) + 1] = a
          /\ \A j \in 1..Len(out_acks[p]) : out_acks'[p][j] = out_acks[p][j]
      BY <2>3, <3>1, <1>6, AppendProperties, LenProperties
    <3>3. HandledOK(q, a)'
      BY <3>1, <2>3, <1>5 DEF HandledOK, Numbered
    <3>4. CASE i = Len(out_acks[p]) + 1
      BY <3>2, <3>3, <3>4
    <3>5. CASE i \in 1..Len(out_acks[p])
      BY <3>2, <3>5, <2>1, <1>9
    <3>6. i = Len(out_acks[p]) + 1 \/ i \in 1..Len(out_acks[p])
      BY <3>2
    <3> QED BY <3>4, <3>5, <3>6
  <2> QED BY <2>2, <2>3, <1>4
<1>11. ASSUME NEW j \in 1..Len(net'[p]), NEW i \in 1..Len(net'[p][j].acks)
       PROVE  HandledOK(q, net[p][j].acks[i])'
  <2>1. PICK l \in 1..Len(net[p]) : net'[p][j] = net[p][l]
    BY DEF PathsShrink
  <2>2. net'[p][j].acks[i] \in Message
    BY <2>1, <1>2, TypeFacts, PacketFacts, ElementOfSeq
  <2>3. HandledOK(q, net'[p][j].acks[i])
    BY <2>1, <1>1, <1>2 DEF FirstMessagesOK
  <2> QED BY <2>2, <2>3, <1>9
<1>12. ReceiverOK(q)'
  BY <1>4
<1> QED BY <1>1, <1>7, <1>8, <1>10, <1>11, <1>12 DEF FirstMessagesOK, q

\* ... and of the messages of the end that handles it.
LEMMA HandlingKeepsReceiver ==
    ASSUME FewInv, FewUse, NEW p \in Nodes, NEW k \in 1..Len(net[Peer(p)]),
           HandleReceivedPacket(p, net[Peer(p)][k]), PathsShrink,
           written[p] <= 5
    PROVE  FirstMessagesOK(p)'
<1> DEFINE q == Peer(p)
           pack == net[q][k]
<1>1. q \in Nodes /\ q # p /\ Peer(q) = p
  BY PeerIsNode
<1>2. TypeInv /\ FirstMessagesOK(p) /\ ReceiverOK(p) /\ KeptOK(p)
  BY FewInvFacts
<1>3. /\ UNCHANGED <<id_counter, written, first_id>>
      /\ out_reliable'[p] = ProcessAcks(out_reliable[p], pack.acks)
      /\ delivered'[p] = delivered[p]
      /\ last_seen_body'[p] = last_seen_body[p]
      /\ last_seen_id'[q] = last_seen_id[q]
      /\ out_acks'[q] = out_acks[q]
  <2> HIDE DEF q
  <2>1. /\ out_reliable \in [Nodes -> SUBSET Message] /\ DOMAIN delivered = Nodes
        /\ last_seen_body \in [Nodes -> Nat] /\ last_seen_id \in [Nodes -> 0..255]
        /\ out_acks \in [Nodes -> Seq(Message)]
    BY <1>2 DEF TypeInv, TypeOK
  <2>2. /\ UNCHANGED <<id_counter, written, first_id>>
        /\ out_reliable'[p] = ProcessAcks(out_reliable[p], pack.acks)
        /\ delivered'[p] = delivered[p]
    BY <2>1, <1>1 DEF HandleReceivedPacket, q
  <2>3. CASE Fresh(p, pack) = {}
    <3>1. UNCHANGED <<last_seen_id, last_seen_body, out_acks>>
      BY <2>3 DEF HandleReceivedPacket, q
    <3> QED BY <2>2, <3>1
  <2>4. CASE Fresh(p, pack) # {}
    <3>1. \E a : /\ last_seen_id' = [last_seen_id EXCEPT ![p] = a.seq]
                 /\ last_seen_body' = [last_seen_body EXCEPT ![q] = a.body]
                 /\ out_acks' = [out_acks EXCEPT ![p] = Append(@, a)]
      BY <2>4 DEF HandleReceivedPacket, q
    <3> QED BY <2>1, <2>2, <3>1, <1>1
  <2> QED BY <2>3, <2>4
<1> HIDE DEF q, pack
<1>4. /\ written[p] \in Nat /\ last_seen_body[p] \in Nat /\ first_id[p] \in 0..255
      /\ out_reliable[p] \in SUBSET Message
      /\ \A m \in out_reliable[p] : m.body <= written[p]
  BY <1>2, TypeFacts DEF BodiesBounded
<1>5. ReceiverOK(p)'
  BY <1>2, <1>3 DEF ReceiverOK, Numbered, q
<1>6. ASSUME NEW m \in out_reliable[p], m.body > last_seen_body[p]
      PROVE  m \in out_reliable'[p]
  <2>1. ASSUME NEW i \in 1..Len(pack.acks), IsAcked(m.seq, pack.acks[i].seq) PROVE FALSE
    <3>1. pack.acks[i] \in Message
      BY <1>1, <1>2, TypeFacts, PacketFacts, ElementOfSeq DEF pack, q
    <3>2. HandledOK(p, pack.acks[i])
      BY <1>2 DEF FirstMessagesOK, pack, q
    <3>3. /\ m \in Message /\ Numbered(p, m) /\ Numbered(p, pack.acks[i])
          /\ pack.acks[i].body <= last_seen_body[p]
      BY <3>2, <1>2, <1>4 DEF KeptOK, HandledOK
    <3>4. m.body \in Nat /\ pack.acks[i].body \in Nat /\ m.body <= 5
      BY <3>1, <3>3, <1>4 DEF Message
    <3>5. m.body - pack.acks[i].body <= 5
      BY ONLY <3>4
    <3>6. m.body <= pack.acks[i].body
      BY <3>1, <3>3, <3>5, <2>1, <1>4, AckedIsOlder
    <3> QED BY <3>3, <3>4, <3>6, <1>4, <1>6
  <2> QED BY <2>1, <1>3 DEF ProcessAcks
<1>7. KeptOK(p)'
  <2>1. ASSUME NEW c \in (last_seen_body[p] + 1)..written[p] PROVE c \in Unacked(p)'
    <3>1. PICK m \in out_reliable[p] : m.body = c
      BY <1>2 DEF KeptOK, Unacked, Bodies
    <3>2. m \in out_reliable'[p]
      BY <3>1, <1>4, <1>6
    <3> QED BY <3>1, <3>2 DEF Unacked, Bodies
  <2>2. out_reliable'[p] \subseteq out_reliable[p]
    BY <1>3 DEF ProcessAcks
  <2> QED BY <2>1, <2>2, <1>2, <1>3 DEF KeptOK, Numbered
<1>8. \A a : (HandledOK(p, a)' <=> HandledOK(p, a)) /\ (OnPathOK(p, a)' <=> OnPathOK(p, a))
  BY <1>3 DEF HandledOK, OnPathOK, Numbered
<1>9. \A i \in 1..Len(net'[p]) : OnPathOK(p, net'[p][i])
  BY <1>2 DEF PathsShrink, FirstMessagesOK
<1>10. \A j \in 1..Len(net'[q]) : \A i \in 1..Len(net'[q][j].acks) : HandledOK(p, net'[q][j].acks[i])
  BY <1>1, <1>2 DEF PathsShrink, FirstMessagesOK, q
<1>11. \A i \in 1..Len(net'[p]) : OnPathOK(p, net[p][i])'
  BY <1>8, <1>9
<1>12. \A j \in 1..Len(net'[q]) : \A i \in 1..Len(net'[q][j].acks) : HandledOK(p, net[q][j].acks[i])'
  BY <1>8, <1>10
<1>13. \A i \in 1..Len(out_acks'[q]) : HandledOK(p, out_acks[q][i])'
  BY <1>2, <1>3, <1>8 DEF FirstMessagesOK, q
<1> QED BY <1>5, <1>7, <1>11, <1>12, <1>13 DEF FirstMessagesOK, q

LEMMA HandlingFewInv ==
    ASSUME FewInv, FewUse, TypeInv', NEW p \in Nodes, NEW k \in 1..Len(net[Peer(p)]),
           HandleReceivedPacket(p, net[Peer(p)][k]), PathsShrink
    PROVE  FewInv'
<1>1. written' = written
  BY DEF HandleReceivedPacket
<1>2. \A r \in Nodes : r = p \/ r = Peer(p)
  BY DEF Nodes, Peer
<1>3. \A r \in Nodes : written[r] <= 5 => FirstMessagesOK(r)'
  BY <1>2, HandlingKeepsSender, HandlingKeepsReceiver
<1> QED BY <1>1, <1>3 DEF FewInv, HalfRange, MAX_MESSAGE_SEQUENCE_ID

LEMMA NextFewInv == FewInv /\ FewUse /\ [Next]_vars => FewInv'
<1> SUFFICES ASSUME FewInv, FewUse, [Next]_vars PROVE FewInv'
  OBVIOUS
<1>1. TypeInv /\ TypeInv'
  BY NextTypeInv DEF FewInv
<1>2. CASE UNCHANGED vars
  <2>1. net' = net /\ UNCHANGED <<managerVars, historyVars>>
    BY <1>2 DEF vars
  <2>2. PathsShrink
    BY <2>1 DEF PathsShrink
  <2> QED BY <2>1, <2>2, <1>1, ShrinkFewInv
<1>3. ASSUME NEW p \in Nodes, WriteReliable(p) PROVE FewInv'
  BY <1>3, WriteReliableFewInv
<1>4. ASSUME NEW p \in Nodes, WriteLossy(p) PROVE FewInv'
  <2>1. UNCHANGED <<id_counter, out_reliable, out_acks, last_seen_id, net, historyVars>>
    BY <1>4 DEF WriteLossy
  <2>2. /\ UNCHANGED <<id_counter, out_reliable, out_acks, last_seen_id, net, written,
                       delivered, first_id, last_seen_body>>
    BY <2>1 DEF historyVars
  <2>3. ASSUME NEW q \in Nodes, FirstMessagesOK(q) PROVE FirstMessagesOK(q)'
    <3>1. ReceiverOK(q)' /\ KeptOK(q)'
      BY <2>2, <2>3 DEF FirstMessagesOK, ReceiverOK, KeptOK, Numbered, Unacked
    <3> QED BY <3>1, <2>2, <2>3 DEF FirstMessagesOK, OnPathOK, HandledOK, Numbered
  <2> QED BY <2>2, <2>3, <1>1 DEF FewInv
<1>5. ASSUME NEW p \in Nodes, CraftSendPacket(p) PROVE FewInv'
  BY <1>5, CraftSendPacketFewInv
<1>6. ASSUME NEW p \in Nodes, Deliver(p) PROVE FewInv'
  <2>1. /\ Peer(p) \in Nodes /\ net[Peer(p)] # <<>>
        /\ net' = [net EXCEPT ![Peer(p)] = Tail(@)]
        /\ HandleReceivedPacket(p, Head(net[Peer(p)]))
    BY <1>6, PeerIsNode DEF Deliver
  <2>2. /\ 1 \in 1..Len(net[Peer(p)]) /\ Head(net[Peer(p)]) = net[Peer(p)][1]
        /\ PathsShrink
    BY <2>1, <1>1, TailOfPath DEF PathsShrink
  <2>3. HandleReceivedPacket(p, net[Peer(p)][1])
    BY <2>1, <2>2
  <2> QED BY <2>2, <2>3, <1>1, HandlingFewInv
<1>7. ASSUME NEW p \in Nodes, Lose(p) PROVE FewInv'
  <2>1. /\ net[p] # <<>> /\ net' = [net EXCEPT ![p] = Tail(@)]
        /\ UNCHANGED <<managerVars, historyVars>>
    BY <1>7 DEF Lose
  <2>2. PathsShrink
    BY <2>1, <1>1, TailOfPath DEF PathsShrink
  <2> QED BY <2>1, <2>2, <1>1, ShrinkFewInv
<1>8. ASSUME NEW p \in Nodes, Duplicate(p) PROVE FewInv'
  <2>1. /\ net[Peer(p)] # <<>> /\ net' = net
        /\ HandleReceivedPacket(p, Head(net[Peer(p)]))
    BY <1>8 DEF Duplicate
  <2>2. net[Peer(p)] \in Seq(Packet)
    BY <1>1, PeerIsNode, TypeFacts
  <2>3. Head(net[Peer(p)]) = net[Peer(p)][1] /\ 1 \in 1..Len(net[Peer(p)])
    BY <2>1, <2>2, EmptySeq
  <2>4. PathsShrink
    BY <2>1 DEF PathsShrink
  <2>5. HandleReceivedPacket(p, net[Peer(p)][1])
    BY <2>1, <2>3
  <2> QED BY <2>3, <2>4, <2>5, <1>1, HandlingFewInv
<1>9. ASSUME NEW p \in Nodes, NEW k \in 2..Len(net[Peer(p)]), Overtake(p, k) PROVE FewInv'
  <2>1. k \in 1..Len(net[Peer(p)])
    <3>1. Len(net[Peer(p)]) \in Nat
      BY <1>1, PeerIsNode, TypeFacts, LenProperties
    <3> QED BY <3>1
  <2>2. PathsShrink
    BY <1>9, <1>1, PathWithout DEF PathsShrink
  <2>3. HandleReceivedPacket(p, net[Peer(p)][k])
    BY <1>9 DEF Overtake
  <2> QED BY <2>1, <2>2, <2>3, <1>1, HandlingFewInv
<1> QED BY <1>2, <1>3, <1>4, <1>5, <1>6, <1>7, <1>8, <1>9 DEF Next

-----------------------------------------------------------------------------
(* What it says of the messages *)

\* Whatever the path loses, duplicates and reorders, and however far a writer
\* runs ahead, the ids of an end that has written no more than half of them are
\* told apart (is_new_message and is_acked of src/source/net/session.cpp).
THEOREM FewInvariantHolds == FewUse => (Spec => []FewInv)
<1> SUFFICES ASSUME FewUse PROVE Spec => []FewInv
  OBVIOUS
<1>1. FewInv /\ [Next]_vars => FewInv'
  BY NextFewInv
<1> QED BY <1>1, InitFewInv, PTL DEF Spec

LEMMA FewInvImpliesSafety == FewInv => FirstMessagesSafe
<1> SUFFICES ASSUME FewInv, NEW p \in Nodes, written[p] <= 5, NEW b \in 1..written[p]
             PROVE  /\ delivered[p][b] <= 1
                    /\ delivered[p][b] = 0 => b \in Unacked(p)
                    /\ \A a \in 1..b : delivered[p][b] > 0 => delivered[p][a] > 0
  BY DEF FirstMessagesSafe, HalfRange, MAX_MESSAGE_SEQUENCE_ID
<1>1. ReceiverOK(p) /\ KeptOK(p)
  BY FewInvFacts
<1>2. /\ written[p] \in Nat /\ MaxWrites[p] \in Nat /\ written[p] <= MaxWrites[p]
      /\ last_seen_body[p] \in Nat
  BY FewInvFacts, TypeFacts
<1>3. \A c \in 1..written[p] : delivered[p][c] = IF c <= last_seen_body[p] THEN 1 ELSE 0
  BY <1>1, <1>2 DEF ReceiverOK
<1>4. b <= last_seen_body[p] \/ b \in (last_seen_body[p] + 1)..written[p]
  BY <1>2
<1>5. (last_seen_body[p] + 1)..written[p] \subseteq Unacked(p)
  BY <1>1 DEF KeptOK
<1> QED BY <1>2, <1>3, <1>4, <1>5

\* As long as an end has written five messages at most, they are handled at most
\* once, kept until they are handled and handled without gaps over a path with any
\* of the faults (HandleReceivedPacket and ProcessAck of src/source/net/session.cpp).
THEOREM FirstMessagesAreSafe == FewUse => (Spec => []FirstMessagesSafe)
BY FewInvariantHolds, FewInvImpliesSafety, PTL

\* No end writes more than half of the ids in the whole run.
FewMessages == \A p \in Nodes : MaxWrites[p] <= HalfRange

LEMMA FewMessagesSafety ==
    ASSUME FewMessages, TypeInv, FirstMessagesSafe
    PROVE  AtMostOnce /\ NoReliableLoss
<1>1. ASSUME NEW p \in Nodes PROVE written[p] <= HalfRange
  <2>1. written[p] \in Nat /\ MaxWrites[p] \in Nat /\ written[p] <= MaxWrites[p]
    BY TypeFacts
  <2> QED BY <2>1 DEF FewMessages, HalfRange, MAX_MESSAGE_SEQUENCE_ID
<1> QED BY <1>1 DEF FirstMessagesSafe, AtMostOnce, NoReliableLoss, Unacked

\* With few messages in all, none is handled twice however often packets are
\* duplicated and reordered on the way.
THEOREM FewAtMostOnce == FewUse /\ FewMessages => (Spec => []AtMostOnce)
<1> SUFFICES ASSUME FewUse, FewMessages PROVE Spec => []AtMostOnce
  OBVIOUS
<1>1. FewInv => AtMostOnce
  BY FewInvImpliesSafety, FewMessagesSafety DEF FewInv
<1> QED BY <1>1, FewInvariantHolds, PTL

\* With few messages in all, an old acknowledgement never takes one from the
\* queue that the other end has not handled.
THEOREM FewNoReliableLoss == FewUse /\ FewMessages => (Spec => []NoReliableLoss)
<1> SUFFICES ASSUME FewUse, FewMessages PROVE Spec => []NoReliableLoss
  OBVIOUS
<1>1. FewInv => NoReliableLoss
  BY FewInvImpliesSafety, FewMessagesSafety DEF FewInv
<1> QED BY <1>1, FewInvariantHolds, PTL

LEMMA FewHandling ==
    ASSUME FewInv, FewInv', FewUse, FewMessages
    PROVE  HandlingIsTransfer
<1> SUFFICES ASSUME NEW p \in Nodes, NEW k \in 1..Len(net[Peer(p)]),
                    HandleReceivedPacket(p, net[Peer(p)][k])
             PROVE  \E n \in 0..written[Peer(p)], acked \in SUBSET Unacked(p) :
                        Abstract!Transfer(p, n, acked)
  BY DEF HandlingIsTransfer
<1>1. ASSUME NEW q \in Nodes PROVE written[q] <= 5
  <2>1. written[q] \in Nat /\ MaxWrites[q] \in Nat /\ written[q] <= MaxWrites[q]
    BY FewInvFacts, TypeFacts
  <2> QED BY <2>1 DEF FewMessages, HalfRange, MAX_MESSAGE_SEQUENCE_ID
<1>2. /\ TypeInv /\ ReceiverOK(p) /\ Peer(p) \in Nodes
      /\ FirstIdsInRange /\ net[Peer(p)][k] \in Packet /\ Readable(Peer(p), net[Peer(p)][k])
  BY <1>1, PeerIsNode, FewInvFacts, FewAreReadable
<1>3. (last_seen_body[p] + 1)..written[p] \subseteq Bodies(out_reliable'[p])
  <2>1. last_seen_body'[p] = last_seen_body[p] /\ written' = written
    BY <1>2, DeliverReceiver DEF HandleReceivedPacket
  <2>2. KeptOK(p)'
    BY <2>1, <1>1 DEF FewInv, FirstMessagesOK, HalfRange, MAX_MESSAGE_SEQUENCE_ID
  <2> QED BY <2>1, <2>2 DEF KeptOK, Unacked, Bodies
<1> QED BY <1>2, <1>3, HandlingRefines

\* With few messages in all, two managers implement the reliable channel over a
\* path that loses, duplicates and reorders: what such a path does to packets
\* and acknowledgements cannot be told from the outside.
THEOREM FewChannelRefines == FewUse /\ FewMessages => (Spec => ImplementsReliableChannel)
<1> SUFFICES ASSUME FewUse, FewMessages PROVE Spec => ImplementsReliableChannel
  OBVIOUS
<1>1. FewInv /\ FewInv' /\ [Next]_vars => [Abstract!Next]_(Abstract!vars)
  BY FewHandling, NextRefines DEF FewInv
<1> QED BY <1>1, FewInvariantHolds, InitRefines, PTL DEF Spec, ImplementsReliableChannel, Abstract!Spec
=============================================================================
