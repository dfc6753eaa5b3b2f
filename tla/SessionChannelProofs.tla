------------------------ MODULE SessionChannelProofs ------------------------
(***************************************************************************)
(* Proofs about SessionChannel, for every number of writes, every packet   *)
(* capacity and every bound on the network.                                *)
(***************************************************************************)
EXTENDS SessionChannelInv, FiniteSetTheorems, SequenceTheorems,
        WellFoundedInduction, TLAPS

-----------------------------------------------------------------------------
(* Lemmas about the operators *)

\* A set of numbers that is bounded and not empty has a largest element.
LEMMA BoundedHasMax ==
    ASSUME NEW S \in SUBSET Nat, S # {}, NEW n \in Nat, \A x \in S : x <= n
    PROVE  \E x \in S : \A y \in S : y <= x
<1> DEFINE Bounds == {k \in Nat : \A x \in S : x <= k}
<1>1. PICK least \in Bounds : \A k \in Bounds : ~ (<<k, least>> \in OpToRel(<, Nat))
  <2>1. Bounds \subseteq Nat /\ Bounds # {}
    OBVIOUS
  <2> HIDE DEF Bounds
  <2> QED BY <2>1, NatLessThanWellFounded, WFMin
<1>2. \A k \in Bounds : ~ (k < least)
  BY <1>1 DEF OpToRel
<1>3. least \in S
  <2> SUFFICES ASSUME least \notin S PROVE FALSE
    OBVIOUS
  <2>1. PICK x \in S : TRUE
    OBVIOUS
  <2>2. least - 1 \in Nat /\ \A y \in S : y <= least - 1
    BY <2>1
  <2> QED BY <2>2, <1>2
<1> QED BY <1>3

LEMMA PeerIsNode ==
    ASSUME NEW p \in Nodes
    PROVE  Peer(p) \in Nodes /\ Peer(p) # p /\ Peer(Peer(p)) = p
BY DEF Nodes, Peer

\* The message that HandleReceivedPacket records as last seen is the newest of
\* those it accepts.
LEMMA FirstAcceptedIsNewest ==
    ASSUME NEW fresh \in SUBSET Message, fresh # {}, NEW n \in Nat,
           \A m \in fresh : m.body <= n
    PROVE  /\ FirstAccepted(fresh) \in fresh
           /\ \A m \in fresh : m.body <= FirstAccepted(fresh).body
<1>1. Bodies(fresh) \in SUBSET Nat /\ Bodies(fresh) # {} /\ \A x \in Bodies(fresh) : x <= n
  BY DEF Bodies, Message
<1>2. PICK x \in Bodies(fresh) : \A y \in Bodies(fresh) : y <= x
  BY <1>1, BoundedHasMax
<1>3. \E m \in fresh : \A k \in fresh : k.body <= m.body
  BY <1>2 DEF Bodies
<1> QED BY <1>3 DEF FirstAccepted

\* What type correctness says of one end.
LEMMA TypeFacts ==
    ASSUME TypeInv, NEW p \in Nodes
    PROVE  /\ MaxWrites[p] \in Nat
           /\ first_id[p] \in 0..255
           /\ id_counter[p] \in 0..255
           /\ out_reliable[p] \in SUBSET Message
           /\ IsFiniteSet(out_reliable[p])
           /\ out_lossy[p] \in 0..MaxLossy
           /\ out_acks[p] \in Seq(Message)
           /\ last_seen_id[p] \in 0..255
           /\ net[p] \in Seq(Packet)
           /\ written[p] \in Nat
           /\ written[p] <= MaxWrites[p]
           /\ delivered[p] \in [1..MaxWrites[p] -> Nat]
           /\ last_seen_body[p] \in Nat
           /\ BodiesBounded(p)
<1>1. /\ MaxWrites[p] \in Nat
      /\ InitialIds \subseteq 0..255
  BY ChannelAssumption
<1>2. TypeOK /\ BodiesBounded(p)
  BY DEF TypeInv
<1>3. first_id[p] \in InitialIds
  BY <1>2 DEF TypeOK
<1>4. first_id[p] \in 0..255
  BY ONLY <1>1, <1>3
<1>5. /\ id_counter[p] \in 0..255
      /\ last_seen_id[p] \in 0..255
      /\ out_lossy[p] \in 0..MaxLossy
  BY <1>2 DEF TypeOK
<1>6. /\ out_reliable[p] \in SUBSET Message
      /\ IsFiniteSet(out_reliable[p])
      /\ out_acks[p] \in Seq(Message)
      /\ net[p] \in Seq(Packet)
  BY <1>2 DEF TypeOK
<1>7. /\ written[p] \in Nat /\ written[p] <= MaxWrites[p]
      /\ delivered[p] \in [1..MaxWrites[p] -> Nat]
      /\ last_seen_body[p] \in Nat
  BY <1>2 DEF TypeOK
<1> QED BY ONLY <1>1, <1>2, <1>4, <1>5, <1>6, <1>7

LEMMA PacketFacts ==
    ASSUME NEW queue \in Seq(Packet), NEW k \in 1..Len(queue)
    PROVE  /\ queue[k] \in Packet
           /\ queue[k].reliable \in SUBSET Message
           /\ queue[k].acks \in Seq(Message)
<1>1. queue[k] \in Packet
  BY ElementOfSeq
<1> QED BY <1>1 DEF Packet

\* What is appended to a packet comes from the queue, and is finite.
LEMMA AppendedProperties ==
    ASSUME TypeInv, NEW p \in Nodes
    PROVE  /\ Appended(p) \subseteq out_reliable[p]
           /\ Appended(p) \in SUBSET Message
           /\ Cardinality(Appended(p)) \in Nat
<1>1. Appended(p) \subseteq out_reliable[p]
  BY DEF Appended
<1>2. IsFiniteSet(out_reliable[p]) /\ out_reliable[p] \in SUBSET Message
  BY TypeFacts
<1> QED BY <1>1, <1>2, FS_Subset, FS_CardinalityType

\* AtMost(n, room) never exceeds n.
LEMMA AtMostBound ==
    ASSUME NEW n \in Nat, NEW room \in Int
    PROVE  AtMost(n, room) \in 0..n
BY DEF AtMost

-----------------------------------------------------------------------------
(* Type correctness *)

LEMMA InitTypeInv == Init => TypeInv
<1> SUFFICES ASSUME Init PROVE TypeInv
  OBVIOUS
<1> USE ChannelAssumption DEF Init
<1>1. first_id \in [Nodes -> 0..255] /\ id_counter \in [Nodes -> 0..255]
  OBVIOUS
<1>2. \A p \in Nodes : /\ IsFiniteSet(out_reliable[p])
                       /\ delivered[p] \in [1..MaxWrites[p] -> Nat]
                       /\ Len(net[p]) = 0
                       /\ written[p] <= MaxWrites[p]
  BY FS_EmptySet
<1>3. /\ out_reliable \in [Nodes -> SUBSET Message]
      /\ out_lossy \in [Nodes -> 0..MaxLossy]
      /\ out_acks \in [Nodes -> Seq(Message)]
      /\ last_seen_id \in [Nodes -> 0..255]
      /\ net \in [Nodes -> Seq(Packet)]
      /\ written \in [Nodes -> Nat]
      /\ DOMAIN delivered = Nodes
      /\ last_seen_body \in [Nodes -> Nat]
  OBVIOUS
<1>4. \A p \in Nodes : BodiesBounded(p)
  BY <1>2 DEF BodiesBounded
<1> QED BY <1>1, <1>2, <1>3, <1>4 DEF TypeInv, TypeOK

LEMMA WriteReliableTypeInv ==
    ASSUME TypeInv, NEW p \in Nodes, WriteReliable(p)
    PROVE  TypeInv'
<1> DEFINE m == [body |-> written[p] + 1, seq |-> id_counter[p]]
<1>1. m \in Message /\ m.body = written[p] + 1
  BY TypeFacts DEF Message
<1>2. /\ out_reliable' = [out_reliable EXCEPT ![p] = @ \cup {m}]
      /\ written' = [written EXCEPT ![p] = @ + 1]
      /\ id_counter' = [id_counter EXCEPT ![p] = (@ + 1) % 10]
      /\ UNCHANGED <<out_lossy, out_acks, last_seen_id, net,
                     delivered, first_id, last_seen_body>>
  BY DEF WriteReliable, MAX_MESSAGE_SEQUENCE_ID
<1> HIDE DEF m
<1>3. out_reliable' \in [Nodes -> SUBSET Message]
  <2>1. out_reliable \in [Nodes -> SUBSET Message]
    BY DEF TypeInv, TypeOK
  <2> QED BY <2>1, <1>1, <1>2
<1>4. \A q \in Nodes : IsFiniteSet(out_reliable'[q])
  <2>1. out_reliable \in [Nodes -> SUBSET Message] /\ \A q \in Nodes : IsFiniteSet(out_reliable[q])
    BY DEF TypeInv, TypeOK
  <2>2. IsFiniteSet(out_reliable[p] \cup {m})
    BY <2>1, FS_AddElement
  <2> QED BY <2>1, <2>2, <1>2
<1>5. id_counter' \in [Nodes -> 0..255]
  <2>1. id_counter \in [Nodes -> 0..255]
    BY DEF TypeInv, TypeOK
  <2>2. (id_counter[p] + 1) % 10 \in 0..255
    BY <2>1
  <2> QED BY <2>1, <2>2, <1>2
<1>6. /\ written' \in [Nodes -> Nat]
      /\ \A q \in Nodes : written'[q] <= MaxWrites[q] /\ written[q] <= written'[q]
  <2>1. /\ written \in [Nodes -> Nat] /\ written[p] < MaxWrites[p]
        /\ \A q \in Nodes : written[q] <= MaxWrites[q]
    BY DEF TypeInv, TypeOK, WriteReliable
  <2>2. MaxWrites \in [Nodes -> Nat]
    BY ChannelAssumption
  <2> QED BY <2>1, <2>2, <1>2
<1>7. ASSUME NEW q \in Nodes PROVE BodiesBounded(q)'
  <2>1. written[q] \in Nat /\ written'[q] \in Nat /\ written[q] <= written'[q]
    BY <1>6, TypeFacts
  <2>2. ASSUME NEW n \in out_reliable'[q] PROVE n.body <= written'[q]
    <3>1. CASE n \in out_reliable[q]
      <4>1. n \in Message /\ n.body <= written[q]
        BY <3>1, TypeFacts DEF BodiesBounded
      <4> QED BY <4>1, <2>1 DEF Message
    <3>2. CASE n \notin out_reliable[q]
      <4>1. q = p /\ n = m
        BY <3>2, <1>2, <2>2 DEF TypeInv, TypeOK
      <4>2. written'[p] = written[p] + 1
        BY <1>2 DEF TypeInv, TypeOK
      <4> QED BY <4>1, <4>2, <1>1, <2>1
    <3> QED BY <3>1, <3>2
  <2>3. ASSUME NEW k \in 1..Len(net[q]), NEW n \in net[q][k].reliable
        PROVE  n.body <= written'[q]
    <3>1. n \in Message /\ n.body <= written[q]
      BY TypeFacts, PacketFacts DEF BodiesBounded
    <3> QED BY <3>1, <2>1 DEF Message
  <2> QED BY <2>2, <2>3, <1>2 DEF BodiesBounded
<1> QED BY <1>2, <1>3, <1>4, <1>5, <1>6, <1>7 DEF TypeInv, TypeOK

\* What CraftSendPacket appends to the path.
LEMMA CraftedPacket ==
    ASSUME TypeInv, NEW p \in Nodes, CraftSendPacket(p)
    PROVE  \E pack \in Packet :
              /\ pack.reliable = Appended(p)
              /\ net' = [net EXCEPT ![p] = Append(@, pack)]
              /\ \E n \in 0..Len(out_acks[p]) : pack.acks = SubSeq(out_acks[p], 1, n)
<1> DEFINE room == Capacity - Cardinality(Appended(p))
           lossy == AtMost(out_lossy[p], room)
           acks == AtMost(Len(out_acks[p]), room - lossy)
           pack == [reliable |-> Appended(p), lossy |-> lossy,
                    acks |-> SubSeq(out_acks[p], 1, acks)]
<1>1. Appended(p) \in SUBSET Message /\ room \in Int
  <2>1. Capacity \in Nat
    BY ChannelAssumption
  <2> QED BY <2>1, AppendedProperties
<1>2. lossy \in 0..MaxLossy
  <2>1. out_lossy[p] \in Nat /\ out_lossy[p] <= MaxLossy /\ MaxLossy \in Nat
    BY TypeFacts, ChannelAssumption
  <2>2. lossy \in 0..out_lossy[p]
    BY <2>1, <1>1, AtMostBound
  <2> HIDE DEF lossy
  <2> QED BY <2>1, <2>2
<1>3. acks \in 0..Len(out_acks[p])
  <2> HIDE DEF lossy, room
  <2>1. Len(out_acks[p]) \in Nat /\ room - lossy \in Int
    BY <1>1, <1>2, TypeFacts, LenProperties
  <2> QED BY <2>1, AtMostBound
<1> HIDE DEF lossy, acks
<1>4. SubSeq(out_acks[p], 1, acks) \in Seq(Message)
  <2>1. out_acks[p] \in Seq(Message)
    BY TypeFacts
  <2>2. \A i \in 1..acks : out_acks[p][i] \in Message
    BY <2>1, <1>3, ElementOfSeq
  <2> QED BY <1>3, <2>2, SubSeqProperties
<1>5. pack \in Packet
  BY <1>1, <1>2, <1>4 DEF Packet
<1>6. net' = [net EXCEPT ![p] = Append(@, pack)]
  BY DEF CraftSendPacket, lossy, acks
<1> QED BY <1>3, <1>5, <1>6

LEMMA CraftSendPacketTypeInv ==
    ASSUME TypeInv, NEW p \in Nodes, CraftSendPacket(p)
    PROVE  TypeInv'
<1>1. PICK pack \in Packet : /\ pack.reliable = Appended(p)
                             /\ net' = [net EXCEPT ![p] = Append(@, pack)]
  BY CraftedPacket
<1>2. net \in [Nodes -> Seq(Packet)] /\ net[p] \in Seq(Packet)
  BY DEF TypeInv, TypeOK
<1>3. net' \in [Nodes -> Seq(Packet)]
  BY <1>1, <1>2, AppendProperties
<1>4. out_lossy' \in [Nodes -> 0..MaxLossy] /\ out_acks' \in [Nodes -> Seq(Message)]
  <2>1. MaxLossy \in Nat
    BY ChannelAssumption
  <2>2. /\ out_lossy \in [Nodes -> 0..MaxLossy] /\ out_acks \in [Nodes -> Seq(Message)]
        /\ out_lossy' = [out_lossy EXCEPT ![p] = 0]
        /\ out_acks' = [out_acks EXCEPT ![p] = <<>>]
    BY DEF TypeInv, TypeOK, CraftSendPacket
  <2> QED BY <2>1, <2>2
<1>5. UNCHANGED <<id_counter, out_reliable, last_seen_id, written, delivered,
                  first_id, last_seen_body>>
  BY DEF CraftSendPacket, historyVars
<1>6. ASSUME NEW q \in Nodes PROVE BodiesBounded(q)'
  <2>1. BodiesBounded(q)
    BY TypeFacts
  <2>2. CASE q = p
    <3>1. net'[q] = Append(net[p], pack)
      BY <1>1, <1>2, <2>2
    <3>2. /\ Len(net'[q]) = Len(net[p]) + 1
          /\ net'[q][Len(net[p]) + 1] = pack
          /\ \A k \in 1..Len(net[p]) : net'[q][k] = net[p][k]
          /\ Len(net[p]) \in Nat
      BY <3>1, <1>2, AppendProperties, LenProperties
    <3>3. \A n \in pack.reliable : n.body <= written[p]
      BY <1>1, <2>1, <2>2, AppendedProperties DEF BodiesBounded
    <3>4. \A k \in 1..Len(net'[q]) : k \in 1..Len(net[p]) \/ k = Len(net[p]) + 1
      BY <3>2
    <3> QED BY <3>2, <3>3, <3>4, <2>1, <2>2, <1>5 DEF BodiesBounded
  <2>3. CASE q # p
    <3>1. net'[q] = net[q]
      BY <1>1, <1>2, <2>3
    <3> QED BY <3>1, <2>1, <1>5 DEF BodiesBounded
  <2> QED BY <2>2, <2>3
<1> QED BY <1>3, <1>4, <1>5, <1>6 DEF TypeInv, TypeOK

\* Handling a packet keeps the type of everything but the path.
LEMMA HandleReceivedPacketTypeInv ==
    ASSUME TypeInv, NEW p \in Nodes, NEW pack \in Packet,
           \A m \in pack.reliable : m.body <= written[Peer(p)],
           HandleReceivedPacket(p, pack),
           net' \in [Nodes -> Seq(Packet)],
           \A q \in Nodes : \A k \in 1..Len(net'[q]) :
              \E j \in 1..Len(net[q]) : net'[q][k] = net[q][j]
    PROVE  TypeInv'
<1> DEFINE q == Peer(p)
           fresh == Fresh(p, pack)
<1>1. q \in Nodes /\ written[q] \in Nat
  BY PeerIsNode, TypeFacts
<1>2. fresh \in SUBSET Message /\ \A m \in fresh : m.body <= written[q]
  BY DEF Fresh, Packet
<1>3. fresh # {} => FirstAccepted(fresh) \in Message
  BY <1>1, <1>2, FirstAcceptedIsNewest
<1>4. TypeOK /\ UNCHANGED <<id_counter, out_lossy, written, first_id>>
  BY DEF TypeInv, HandleReceivedPacket
<1>5. DOMAIN delivered' = Nodes /\ \A r \in Nodes : delivered'[r] \in [1..MaxWrites[r] -> Nat]
  <2>1. /\ DOMAIN delivered = Nodes
        /\ \A r \in Nodes : delivered[r] \in [1..MaxWrites[r] -> Nat]
        /\ delivered' = [delivered EXCEPT ![q] =
                [b \in DOMAIN @ |-> IF b \in Bodies(fresh) THEN @[b] + 1 ELSE @[b]]]
    BY <1>4 DEF TypeOK, HandleReceivedPacket
  <2> HIDE DEF q, fresh
  <2>2. delivered'[q] = [b \in 1..MaxWrites[q] |->
                            IF b \in Bodies(fresh) THEN delivered[q][b] + 1 ELSE delivered[q][b]]
    BY <2>1, <1>1
  <2>3. delivered'[q] \in [1..MaxWrites[q] -> Nat]
    BY <2>1, <2>2, <1>1
  <2> QED BY <2>1, <2>3
<1>6. out_reliable' = [out_reliable EXCEPT ![p] = ProcessAcks(@, pack.acks)]
  BY DEF HandleReceivedPacket
<1>7. /\ out_reliable' \in [Nodes -> SUBSET Message]
      /\ \A r \in Nodes : IsFiniteSet(out_reliable'[r]) /\ out_reliable'[r] \subseteq out_reliable[r]
  <2>1. ProcessAcks(out_reliable[p], pack.acks) \subseteq out_reliable[p]
    BY DEF ProcessAcks
  <2>2. IsFiniteSet(ProcessAcks(out_reliable[p], pack.acks))
    BY <2>1, <1>4, FS_Subset DEF TypeOK
  <2> QED BY <1>4, <1>6, <2>1, <2>2 DEF TypeOK
<1>8. /\ last_seen_id' \in [Nodes -> 0..255]
      /\ last_seen_body' \in [Nodes -> Nat]
      /\ out_acks' \in [Nodes -> Seq(Message)]
  <2>1. CASE fresh = {}
    BY <2>1, <1>4 DEF TypeOK, HandleReceivedPacket
  <2>2. CASE fresh # {}
    <3>1. /\ last_seen_id' = [last_seen_id EXCEPT ![p] = FirstAccepted(fresh).seq]
          /\ last_seen_body' = [last_seen_body EXCEPT ![q] = FirstAccepted(fresh).body]
          /\ out_acks' = [out_acks EXCEPT ![p] = Append(@, FirstAccepted(fresh))]
      BY <2>2 DEF HandleReceivedPacket
    <3>2. FirstAccepted(fresh).seq \in 0..255 /\ FirstAccepted(fresh).body \in Nat
      BY <2>2, <1>3 DEF Message
    <3>3. Append(out_acks[p], FirstAccepted(fresh)) \in Seq(Message)
      BY <2>2, <1>3, <1>4, AppendProperties DEF TypeOK
    <3> HIDE DEF fresh, q
    <3> QED BY <3>1, <3>2, <3>3, <1>4 DEF TypeOK
  <2> QED BY <2>1, <2>2
<1>9. ASSUME NEW r \in Nodes PROVE BodiesBounded(r)'
  <2>1. BodiesBounded(r)
    BY TypeFacts
  <2> QED BY <2>1, <1>4, <1>7 DEF BodiesBounded
<1> QED BY <1>4, <1>5, <1>7, <1>8, <1>9 DEF TypeInv, TypeOK

\* Every step that hands a packet to p hands it one of those in flight, and
\* leaves on the path only packets that were there.
LEMMA PacketFromPath ==
    ASSUME TypeInv, NEW p \in Nodes, NEW k \in 1..Len(net[Peer(p)])
    PROVE  /\ net[Peer(p)][k] \in Packet
           /\ \A m \in net[Peer(p)][k].reliable : m.body <= written[Peer(p)]
BY PeerIsNode, TypeFacts, PacketFacts DEF BodiesBounded

LEMMA TailOfPath ==
    ASSUME TypeInv, NEW q \in Nodes, net[q] # <<>>,
           net' = [net EXCEPT ![q] = Tail(@)]
    PROVE  /\ net' \in [Nodes -> Seq(Packet)]
           /\ 1 \in 1..Len(net[q]) /\ Head(net[q]) = net[q][1]
           /\ Len(net'[q]) = Len(net[q]) - 1
           /\ \A k \in 1..Len(net'[q]) : k + 1 \in 1..Len(net[q]) /\ net'[q][k] = net[q][k + 1]
           /\ \A r \in Nodes \ {q} : net'[r] = net[r]
           /\ \A r \in Nodes : \A k \in 1..Len(net'[r]) :
                 \E j \in 1..Len(net[r]) : net'[r][k] = net[r][j]
<1>1. net \in [Nodes -> Seq(Packet)] /\ net[q] \in Seq(Packet)
  BY DEF TypeInv, TypeOK
<1>2. /\ Tail(net[q]) \in Seq(Packet)
      /\ Len(net[q]) \in Nat \ {0}
      /\ Len(Tail(net[q])) = Len(net[q]) - 1
      /\ \A i \in 1..Len(Tail(net[q])) : Tail(net[q])[i] = net[q][i + 1]
  BY <1>1, HeadTailProperties, EmptySeq
<1>3. Head(net[q]) = net[q][1]
  BY <1>1
<1>4. /\ net' \in [Nodes -> Seq(Packet)]
      /\ net'[q] = Tail(net[q])
      /\ \A r \in Nodes \ {q} : net'[r] = net[r]
  BY <1>1, <1>2
<1>5. \A k \in 1..Len(net'[q]) : k + 1 \in 1..Len(net[q]) /\ net'[q][k] = net[q][k + 1]
  BY <1>2, <1>4
<1>6. ASSUME NEW r \in Nodes, NEW k \in 1..Len(net'[r])
      PROVE  \E j \in 1..Len(net[r]) : net'[r][k] = net[r][j]
  BY <1>4, <1>5
<1> QED BY <1>2, <1>3, <1>4, <1>5, <1>6

\* Overtaking takes one packet off the path and keeps the others.
LEMMA PathWithout ==
    ASSUME TypeInv, NEW p \in Nodes, NEW k \in 2..Len(net[Peer(p)]), Overtake(p, k)
    PROVE  /\ net' \in [Nodes -> Seq(Packet)]
           /\ \A r \in Nodes : \A i \in 1..Len(net'[r]) :
                 \E j \in 1..Len(net[r]) : net'[r][i] = net[r][j]
<1> DEFINE q == Peer(p)
           before == SubSeq(net[q], 1, k - 1)
           after == SubSeq(net[q], k + 1, Len(net[q]))
<1>1. q \in Nodes /\ net \in [Nodes -> Seq(Packet)] /\ net[q] \in Seq(Packet)
      /\ Len(net[q]) \in Nat
  BY PeerIsNode, LenProperties DEF TypeInv, TypeOK
<1> HIDE DEF q
<1>2. /\ before \in Seq(Packet) /\ Len(before) = k - 1
      /\ \A i \in 1..k - 1 : before[i] = net[q][i]
  <2>1. \A i \in 1..k - 1 : net[q][i] \in Packet
    BY <1>1, ElementOfSeq DEF q
  <2> QED BY <2>1, <1>1, SubSeqProperties DEF q
<1>3. /\ after \in Seq(Packet) /\ Len(after) = Len(net[q]) - k
      /\ \A i \in 1..Len(net[q]) - k : after[i] = net[q][k + i]
  <2>1. \A i \in k + 1..Len(net[q]) : net[q][i] \in Packet
    BY <1>1, ElementOfSeq DEF q
  <2> QED BY <2>1, <1>1, SubSeqProperties DEF q
<1> HIDE DEF before, after
<1>4. /\ before \o after \in Seq(Packet)
      /\ Len(before \o after) = Len(net[q]) - 1
      /\ \A i \in 1..Len(net[q]) - 1 :
            (before \o after)[i] = IF i <= k - 1 THEN net[q][i] ELSE net[q][i + 1]
  <2>1. /\ before \o after \in Seq(Packet)
        /\ Len(before \o after) = Len(before) + Len(after)
        /\ \A i \in 1..Len(before) + Len(after) : (before \o after)[i] =
              IF i <= Len(before) THEN before[i] ELSE after[i - Len(before)]
    BY <1>2, <1>3, ConcatProperties
  <2>2. k \in 2..Len(net[q])
    BY DEF q
  <2>3. Len(before) + Len(after) = Len(net[q]) - 1
    BY <2>2, <1>1, <1>2, <1>3
  <2>4. ASSUME NEW i \in 1..Len(net[q]) - 1
        PROVE  (before \o after)[i] = IF i <= k - 1 THEN net[q][i] ELSE net[q][i + 1]
    <3>1. CASE i <= k - 1
      BY <3>1, <2>1, <2>2, <2>3, <1>1, <1>2
    <3>2. CASE i > k - 1
      <4>1. i - (k - 1) \in 1..Len(net[q]) - k /\ k + (i - (k - 1)) = i + 1
        BY <3>2, <2>2, <1>1
      <4>2. (before \o after)[i] = after[i - (k - 1)]
        BY <3>2, <2>1, <2>2, <2>3, <1>1, <1>2
      <4>3. after[i - (k - 1)] = net[q][k + (i - (k - 1))]
        BY <4>1, <1>3
      <4> QED BY <4>1, <4>2, <4>3, <3>2, <2>2, <1>1
    <3>3. i \in Int /\ k \in Int
      BY <2>2, <1>1
    <3>4. i <= k - 1 \/ (i > k - 1 /\ ~ (i <= k - 1))
      BY <3>3
    <3> QED BY <3>1, <3>2, <3>4
  <2> QED BY <2>1, <2>3, <2>4
<1>5. net' = [net EXCEPT ![q] = before \o after]
  BY DEF Overtake, q, before, after
<1>6. net' \in [Nodes -> Seq(Packet)]
  BY <1>1, <1>4, <1>5
<1>7. ASSUME NEW r \in Nodes, NEW i \in 1..Len(net'[r])
      PROVE  \E j \in 1..Len(net[r]) : net'[r][i] = net[r][j]
  <2>1. CASE r = q
    <3>1. net'[r] = before \o after
      BY <2>1, <1>1, <1>5
    <3>2. i \in 1..Len(net[q]) /\ i + 1 \in 1..Len(net[q]) /\ i \in 1..Len(net[q]) - 1
      BY <3>1, <1>1, <1>4
    <3> QED BY <3>1, <3>2, <1>4, <2>1
  <2>2. CASE r # q
    <3>1. net'[r] = net[r]
      BY <2>2, <1>1, <1>5
    <3> QED BY <3>1, <1>7
  <2> QED BY <2>1, <2>2
<1> QED BY <1>6, <1>7

LEMMA OvertakeTypeInv ==
    ASSUME TypeInv, NEW p \in Nodes, NEW k \in 2..Len(net[Peer(p)]), Overtake(p, k)
    PROVE  TypeInv'
<1>1. k \in 1..Len(net[Peer(p)])
  <2>1. Len(net[Peer(p)]) \in Nat
    BY PeerIsNode, TypeFacts, LenProperties
  <2> QED BY <2>1
<1>2. HandleReceivedPacket(p, net[Peer(p)][k])
  BY DEF Overtake
<1> QED BY <1>1, <1>2, PathWithout, PacketFromPath, HandleReceivedPacketTypeInv

LEMMA NextTypeInv == TypeInv /\ [Next]_vars => TypeInv'
<1> SUFFICES ASSUME TypeInv, [Next]_vars PROVE TypeInv'
  OBVIOUS
<1>1. CASE UNCHANGED vars
  BY <1>1 DEF vars, managerVars, historyVars, TypeInv, TypeOK, BodiesBounded
<1>2. ASSUME NEW p \in Nodes, WriteReliable(p) PROVE TypeInv'
  BY <1>2, WriteReliableTypeInv
<1>3. ASSUME NEW p \in Nodes, WriteLossy(p) PROVE TypeInv'
  <2>1. /\ out_lossy \in [Nodes -> 0..MaxLossy] /\ MaxLossy \in Nat
        /\ out_lossy[p] < MaxLossy
        /\ out_lossy' = [out_lossy EXCEPT ![p] = @ + 1]
    BY <1>3, ChannelAssumption DEF TypeInv, TypeOK, WriteLossy
  <2>2. out_lossy' \in [Nodes -> 0..MaxLossy]
    BY <2>1
  <2> QED BY <1>3, <2>2 DEF WriteLossy, historyVars, TypeInv, TypeOK, BodiesBounded
<1>4. ASSUME NEW p \in Nodes, CraftSendPacket(p) PROVE TypeInv'
  BY <1>4, CraftSendPacketTypeInv
<1>5. ASSUME NEW p \in Nodes, Deliver(p) PROVE TypeInv'
  <2>1. /\ Peer(p) \in Nodes /\ net[Peer(p)] # <<>>
        /\ net' = [net EXCEPT ![Peer(p)] = Tail(@)]
        /\ HandleReceivedPacket(p, Head(net[Peer(p)]))
    BY <1>5, PeerIsNode DEF Deliver
  <2>2. /\ net' \in [Nodes -> Seq(Packet)]
        /\ 1 \in 1..Len(net[Peer(p)]) /\ Head(net[Peer(p)]) = net[Peer(p)][1]
        /\ \A r \in Nodes : \A k \in 1..Len(net'[r]) :
              \E j \in 1..Len(net[r]) : net'[r][k] = net[r][j]
    BY <2>1, TailOfPath
  <2>3. /\ net[Peer(p)][1] \in Packet
        /\ \A m \in net[Peer(p)][1].reliable : m.body <= written[Peer(p)]
    BY <2>2, PacketFromPath
  <2>4. HandleReceivedPacket(p, net[Peer(p)][1])
    BY <2>1, <2>2
  <2> QED BY <2>2, <2>3, <2>4, HandleReceivedPacketTypeInv
<1>6. ASSUME NEW p \in Nodes, Lose(p) PROVE TypeInv'
  <2>1. /\ net[p] # <<>> /\ net' = [net EXCEPT ![p] = Tail(@)]
        /\ UNCHANGED <<managerVars, historyVars>>
    BY <1>6 DEF Lose
  <2>2. /\ net' \in [Nodes -> Seq(Packet)]
        /\ \A r \in Nodes : \A k \in 1..Len(net'[r]) :
              \E j \in 1..Len(net[r]) : net'[r][k] = net[r][j]
    BY <2>1, TailOfPath
  <2>3. \A r \in Nodes : BodiesBounded(r)'
    BY <2>1, <2>2 DEF TypeInv, BodiesBounded, managerVars, historyVars
  <2> QED BY <2>1, <2>2, <2>3 DEF TypeInv, TypeOK, managerVars, historyVars
<1>7. ASSUME NEW p \in Nodes, Duplicate(p) PROVE TypeInv'
  <2>1. /\ Peer(p) \in Nodes /\ net[Peer(p)] # <<>> /\ net' = net
        /\ HandleReceivedPacket(p, Head(net[Peer(p)]))
    BY <1>7, PeerIsNode DEF Duplicate
  <2>2. net \in [Nodes -> Seq(Packet)] /\ net[Peer(p)] \in Seq(Packet)
    BY <2>1 DEF TypeInv, TypeOK
  <2>3. Head(net[Peer(p)]) = net[Peer(p)][1] /\ 1 \in 1..Len(net[Peer(p)])
    BY <2>1, <2>2, EmptySeq
  <2>4. net' \in [Nodes -> Seq(Packet)]
        /\ \A r \in Nodes : \A k \in 1..Len(net'[r]) :
              \E j \in 1..Len(net[r]) : net'[r][k] = net[r][j]
    BY <2>1, <2>2
  <2> QED BY <2>1, <2>3, <2>4, PacketFromPath, HandleReceivedPacketTypeInv
<1>8. ASSUME NEW p \in Nodes, NEW k \in 2..Len(net[Peer(p)]), Overtake(p, k) PROVE TypeInv'
  BY <1>8, OvertakeTypeInv
<1> QED BY <1>1, <1>2, <1>3, <1>4, <1>5, <1>6, <1>7, <1>8 DEF Next

\* Every variable keeps its type, whatever the network does and however the
\* channel is used: the ids fit a byte and no message is numbered above those
\* written (SessionMessageManager, src/source/net/session.cpp).
THEOREM TypeCorrect == Spec => []TypeOK
<1>1. TypeInv => TypeOK
  BY DEF TypeInv
<1> QED BY <1>1, InitTypeInv, NextTypeInv, PTL DEF Spec

-----------------------------------------------------------------------------
(* Ids: what the windowed comparisons mean while IInv holds *)

\* Ids are compared modulo 10: facts about remainders.
LEMMA ModDifference ==
    ASSUME NEW x \in Int, NEW y \in Int, x % 10 = y % 10
    PROVE  \E k \in Int : x - y = 10 * k
<1>1. (x - y) % 10 = 0
  OBVIOUS
<1> QED BY <1>1

LEMMA ModOfMultiple ==
    ASSUME NEW x \in Int, NEW y \in Int, NEW k \in Int, x - y = 10 * k
    PROVE  x % 10 = y % 10
OBVIOUS

LEMMA ModType ==
    ASSUME NEW x \in Int
    PROVE  x % 10 \in 0..9
OBVIOUS

\* Ids x and y that stand for i and j from the same start are as far apart.
LEMMA ModDistance ==
    ASSUME NEW x \in Int, NEW y \in Int, NEW f \in Int, NEW i \in Int, NEW j \in Int,
           (x - f) % 10 = i % 10, (y - f) % 10 = j % 10
    PROVE  (x - y) % 10 = (i - j) % 10
<1>1. PICK k \in Int : x - f - i = 10 * k
  BY ModDifference
<1>2. PICK l \in Int : y - f - j = 10 * l
  BY ModDifference
<1>3. (x - y) - (i - j) = 10 * (k - l)
  BY <1>1, <1>2
<1> QED BY <1>3, ModOfMultiple

LEMMA ModShift ==
    ASSUME NEW x \in Int, NEW y \in Int, NEW z \in Int, x % 10 = y % 10
    PROVE  (x + z) % 10 = (y + z) % 10
OBVIOUS

LEMMA ModSum ==
    ASSUME NEW x \in Int, NEW y \in Int
    PROVE  ((x % 10) + y) % 10 = (x + y) % 10
OBVIOUS

\* The counter c that has started at f counts on.
LEMMA ModCount ==
    ASSUME NEW c \in Int, NEW f \in Int, NEW w \in Int, (c - f) % 10 = w % 10
    PROVE  (((c + 1) % 10) - f) % 10 = (w + 1) % 10
<1>1. ((c - f) + 1) % 10 = (w + 1) % 10
  BY ModShift
<1>2. (((c + 1) % 10) + (0 - f)) % 10 = ((c + 1) + (0 - f)) % 10
  BY ModSum
<1>3. (c + 1) + (0 - f) = (c - f) + 1
  OBVIOUS
<1>4. ((c + 1) % 10) + (0 - f) = ((c + 1) % 10) - f
  BY ModType
<1> QED BY <1>1, <1>2, <1>3, <1>4

LEMMA NewWindow == \A d \in -4..5 : d % 10 \in 1..5 <=> d > 0
OBVIOUS

LEMMA AckWindow == \A d \in -5..(-1) : d % 10 >= 5
OBVIOUS

LEMMA FirstWindow == \A d \in 1..5, b \in 1..5 : (d + b - 1) % 10 \in 1..5 <=> d + b - 1 <= 5
OBVIOUS

LEMMA IInvFacts ==
    ASSUME IInv, NEW p \in Nodes
    PROVE  /\ TypeInv
           /\ ReceiverOK(p) /\ WriterOK(p) /\ PacketsOK(p) /\ AcksOK(p) /\ AcksOrdered(p)
BY DEF IInv

LEMMA WindowFacts ==
    ASSUME SafeUse
    PROVE  Window \in Nat \ {0} /\ Capacity \in Nat /\ Window <= 5 /\ Window <= Capacity
BY ChannelAssumption DEF SafeUse, HalfRange, MAX_MESSAGE_SEQUENCE_ID

\* The writer is at most half the id space ahead of what was handled.
LEMMA AheadBound ==
    ASSUME IInv, SafeUse, NEW p \in Nodes,
           NEW b \in Nat, b <= written[p], (b + 1)..written[p] \subseteq Unacked(p)
    PROVE  written[p] - b <= 5
<1>1. written[p] \in Nat /\ out_reliable[p] \in SUBSET Message
  BY IInvFacts, TypeFacts
<1>2. CASE b = written[p]
  BY <1>1, <1>2
<1>3. CASE b < written[p]
  <2>1. b + 1 \in Unacked(p)
    BY <1>1, <1>3
  <2>2. PICK m \in out_reliable[p] : m.body = b + 1
    BY <2>1 DEF Unacked, Bodies
  <2>3. written[p] - m.body < Window
    BY IInvFacts DEF WriterOK
  <2> QED BY <2>2, <2>3, <1>1, WindowFacts
<1> QED BY <1>1, <1>2, <1>3

LEMMA ReceiverBehind ==
    ASSUME IInv, SafeUse, NEW p \in Nodes
    PROVE  written[p] - last_seen_body[p] <= 5
<1>1. last_seen_body[p] \in Nat /\ last_seen_body[p] <= written[p]
  BY IInvFacts, TypeFacts DEF ReceiverOK
<1> QED BY <1>1, IInvFacts, AheadBound DEF WriterOK

\* ProcessAck tells a message from newer ones as long as it is at most five behind.
LEMMA AckedIsOlder ==
    ASSUME NEW p \in Nodes, first_id[p] \in 0..255,
           NEW ack \in Message, Numbered(p, ack),
           NEW m \in Message, Numbered(p, m),
           m.body - ack.body <= 5, IsAcked(m.seq, ack.seq)
    PROVE  m.body <= ack.body
<1>1. ack.body \in Nat /\ ack.seq \in 0..255 /\ m.body \in Nat /\ m.seq \in 0..255
  BY DEF Message
<1>2. /\ (m.seq - first_id[p]) % 10 = (m.body - 1) % 10
      /\ (ack.seq - first_id[p]) % 10 = (ack.body - 1) % 10
  BY DEF Numbered, MAX_MESSAGE_SEQUENCE_ID
<1>3. (ack.seq - m.seq) % 10 < 5
  BY DEF IsAcked, HalfRange, MAX_MESSAGE_SEQUENCE_ID
<1>4. (ack.seq - m.seq) % 10 = ((ack.body - 1) - (m.body - 1)) % 10
  <2>1. /\ ack.seq \in Int /\ m.seq \in Int /\ first_id[p] \in Int
        /\ ack.body - 1 \in Int /\ m.body - 1 \in Int
    BY <1>1
  <2> QED BY ONLY <2>1, <1>2, ModDistance
<1>5. (ack.body - 1) - (m.body - 1) = ack.body - m.body
  BY <1>1
<1>6. (ack.body - m.body) % 10 < 5
  BY <1>3, <1>4, <1>5
<1>7. SUFFICES ASSUME m.body > ack.body PROVE FALSE
  BY <1>1
<1>8. ack.body - m.body \in -5..(-1)
  BY <1>1, <1>7
<1>9. (ack.body - m.body) % 10 >= 5 /\ (ack.body - m.body) % 10 \in Int
  BY <1>1, <1>8, AckWindow
<1> QED BY <1>6, <1>9

\* An acknowledgement only removes messages up to the one it names.
LEMMA AckRemovesHandled ==
    ASSUME IInv, SafeUse, NEW p \in Nodes, NEW ack \in Message, AckOK(p, ack),
           NEW m \in out_reliable[p], IsAcked(m.seq, ack.seq)
    PROVE  m.body <= ack.body
<1>1. /\ m \in Message /\ m.body <= written[p] /\ Numbered(p, m)
      /\ written[p] \in Nat /\ first_id[p] \in 0..255
  BY IInvFacts, TypeFacts DEF BodiesBounded, WriterOK
<1>2. ack.body \in Nat /\ m.body \in Nat /\ Numbered(p, ack)
  BY <1>1 DEF Message, AckOK
<1>3. written[p] - ack.body <= 5
  <2>1. last_seen_body[p] \in Nat /\ last_seen_body[p] <= written[p] /\ ack.body <= last_seen_body[p]
    BY IInvFacts, TypeFacts DEF ReceiverOK, AckOK
  <2>2. ack.body <= written[p] /\ (ack.body + 1)..written[p] \subseteq Unacked(p)
    BY <2>1, <1>1, <1>2 DEF AckOK
  <2> QED BY <2>2, <1>2, AheadBound
<1>4. m.body - ack.body <= 5
  BY <1>1, <1>2, <1>3
<1> QED BY <1>1, <1>2, <1>4, AckedIsOlder

\* A packet of p whose ids the other end tells apart: none is half the id space
\* from what it has seen, and what it holds has no gap above that.
Readable(p, pack) ==
    /\ ReceiverOK(p)
    /\ written[p] - last_seen_body[p] <= HalfRange
    /\ \A m \in pack.reliable :
          /\ m.body <= written[p]
          /\ Numbered(p, m)
          /\ last_seen_body[p] - m.body < HalfRange
          /\ (last_seen_body[p] + 1)..m.body \subseteq Bodies(pack.reliable)

FirstIdsInRange == \A id \in InitialIds : IsNewMessage(id, 255)

LEMMA PacketIsReadable ==
    ASSUME IInv, SafeUse, NEW p \in Nodes, NEW pack \in Packet,
           PacketOK(p, pack), \A m \in pack.reliable : m.body <= written[p]
    PROVE  TypeInv /\ FirstIdsInRange /\ Readable(p, pack)
<1>1. written[p] - last_seen_body[p] <= HalfRange
  BY ReceiverBehind DEF HalfRange, MAX_MESSAGE_SEQUENCE_ID
<1> QED BY <1>1, IInvFacts DEF Readable, FirstIdsInRange, SafeUse, PacketOK

\* A message of a packet in flight is taken for new only if it was not handled
\* yet, and everything older in the packet that was not handled is taken with it.
LEMMA NewMeansNotHandled ==
    ASSUME TypeInv, FirstIdsInRange, NEW p \in Nodes, NEW pack \in Packet,
           Readable(p, pack), NEW m \in pack.reliable
    PROVE  /\ IsNewMessage(m.seq, last_seen_id[Peer(p)]) => m.body > last_seen_body[p]
           /\ \A n \in pack.reliable :
                 /\ IsNewMessage(m.seq, last_seen_id[Peer(p)])
                 /\ last_seen_body[p] < n.body
                 /\ n.body <= m.body
                 => IsNewMessage(n.seq, last_seen_id[Peer(p)])
<1> DEFINE L == last_seen_body[p]
           seen == last_seen_id[Peer(p)]
           first == first_id[p]
<1>1. /\ L \in Nat /\ written[p] \in Nat /\ L <= written[p] /\ written[p] - L <= 5
      /\ seen \in 0..255 /\ first \in 0..255
  BY TypeFacts, PeerIsNode DEF Readable, ReceiverOK, HalfRange, MAX_MESSAGE_SEQUENCE_ID
<1>2. \A n \in pack.reliable : /\ n.body \in Nat \ {0} /\ n.seq \in 0..255
                               /\ (n.seq - first) % 10 = (n.body - 1) % 10
                               /\ L - n.body < 5
  BY DEF Packet, Message, Readable, Numbered, HalfRange, MAX_MESSAGE_SEQUENCE_ID
<1>3. \A x, y : IsNewMessage(x, y) <=> (x - y) % 10 \in 1..5
  BY DEF IsNewMessage, HalfRange, MAX_MESSAGE_SEQUENCE_ID
<1>4. CASE L = 0
  <2>1. seen = 255
    BY <1>4 DEF Readable, ReceiverOK
  <2>2. (first - 255) % 10 \in 1..5
    <3>1. first \in InitialIds
      BY DEF TypeInv, TypeOK
    <3> QED BY <3>1, <1>3 DEF FirstIdsInRange
  <2>3. \A n \in pack.reliable : (n.seq - 255) % 10 = (((first - 255) % 10) + n.body - 1) % 10
    <3> SUFFICES ASSUME NEW n \in pack.reliable
                 PROVE  (n.seq - 255) % 10 = (((first - 255) % 10) + n.body - 1) % 10
      OBVIOUS
    <3> HIDE DEF first
    <3>1. n.seq \in Int /\ n.body \in Int /\ (n.seq - first) % 10 = (n.body - 1) % 10 /\ first \in Int
      BY <1>1, <1>2
    <3>2. ((n.seq - first) + (first - 255)) % 10 = ((n.body - 1) + (first - 255)) % 10
      BY <3>1, ModShift
    <3>3. (((first - 255) % 10) + (n.body - 1)) % 10 = ((first - 255) + (n.body - 1)) % 10
      <4>1. first - 255 \in Int /\ n.body - 1 \in Int
        BY <3>1
      <4> QED BY <4>1, ModSum
    <3>4. (n.seq - first) + (first - 255) = n.seq - 255
          /\ (n.body - 1) + (first - 255) = (first - 255) + (n.body - 1)
      BY <3>1
    <3>5. ((first - 255) % 10) + n.body - 1 = ((first - 255) % 10) + (n.body - 1)
      BY <3>1
    <3> QED BY <3>2, <3>3, <3>4, <3>5
  <2> HIDE DEF L, seen, first
  <2>4. \A n \in pack.reliable : n.body <= 5 =>
           (IsNewMessage(n.seq, seen) <=> ((first - 255) % 10) + n.body - 1 <= 5)
    <3> SUFFICES ASSUME NEW n \in pack.reliable, n.body <= 5
                 PROVE  (n.seq - 255) % 10 \in 1..5 <=> ((first - 255) % 10) + n.body - 1 <= 5
      BY <1>3, <2>1
    <3>1. n.body \in 1..5
      BY <1>2
    <3> QED BY <2>2, <2>3, <3>1, FirstWindow
  <2>5. m.body <= 5 /\ m.body > L
    <3>1. m.body <= written[p]
      BY DEF Readable
    <3> QED BY <3>1, <1>1, <1>2, <1>4
  <2>6. ASSUME NEW n \in pack.reliable, IsNewMessage(m.seq, seen), L < n.body, n.body <= m.body
        PROVE  IsNewMessage(n.seq, seen)
    <3>1. n.body \in Nat /\ m.body \in Nat /\ n.body <= 5
      BY <1>2, <2>5, <2>6
    <3>2. ((first - 255) % 10) + m.body - 1 <= 5
      BY <2>4, <2>5, <2>6
    <3>3. ((first - 255) % 10) + n.body - 1 <= 5
      BY <3>1, <3>2, <2>2, <2>6
    <3> QED BY <3>1, <3>3, <2>4
  <2> QED BY <2>5, <2>6 DEF L, seen
<1>5. CASE L # 0
  <2>1. (seen - first) % 10 = (L - 1) % 10
    BY <1>5 DEF Readable, ReceiverOK, Numbered, MAX_MESSAGE_SEQUENCE_ID
  <2> HIDE DEF L, seen, first
  <2>2. ASSUME NEW n \in pack.reliable, n.body <= written[p]
        PROVE  IsNewMessage(n.seq, seen) <=> n.body > L
    <3>1. (n.seq - seen) % 10 = (n.body - L) % 10
      <4>1. /\ n.seq \in Int /\ seen \in Int /\ first \in Int /\ n.body \in Int /\ L \in Int
            /\ (n.seq - first) % 10 = (n.body - 1) % 10
        BY <1>1, <1>2
      <4>2. (n.seq - seen) % 10 = ((n.body - 1) - (L - 1)) % 10
        <5>1. n.body - 1 \in Int /\ L - 1 \in Int
          BY <4>1
        <5> QED BY ONLY <4>1, <5>1, <2>1, ModDistance
      <4>3. (n.body - 1) - (L - 1) = n.body - L
        BY <4>1
      <4> QED BY <4>2, <4>3
    <3>2. n.body - L \in -4..5
      BY <1>1, <1>2, <2>2
    <3>3. (n.body - L) % 10 \in 1..5 <=> n.body - L > 0
      BY <3>2, NewWindow
    <3>4. n.body \in Int /\ L \in Int
      BY <1>1, <1>2
    <3> QED BY <1>3, <3>1, <3>3, <3>4
  <2>3. \A n \in pack.reliable : n.body <= written[p]
    BY DEF Readable
  <2> QED BY <2>2, <2>3 DEF L, seen
<1> QED BY <1>4, <1>5

\* What HandleReceivedPacket accepts is exactly the next messages in order.
LEMMA FreshIsNext ==
    ASSUME TypeInv, FirstIdsInRange, NEW p \in Nodes, NEW pack \in Packet,
           Readable(Peer(p), pack), Fresh(p, pack) # {}
    PROVE  /\ FirstAccepted(Fresh(p, pack)) \in pack.reliable
           /\ FirstAccepted(Fresh(p, pack)).body > last_seen_body[Peer(p)]
           /\ Bodies(Fresh(p, pack)) =
                 (last_seen_body[Peer(p)] + 1)..FirstAccepted(Fresh(p, pack)).body
<1> DEFINE q == Peer(p)
           fresh == Fresh(p, pack)
           top == FirstAccepted(fresh)
           L == last_seen_body[q]
<1>1. q \in Nodes /\ Peer(q) = p /\ written[q] \in Nat /\ L \in Nat
  BY PeerIsNode, TypeFacts
<1>2. /\ fresh \in SUBSET Message /\ fresh \subseteq pack.reliable
      /\ \A m \in fresh : m.body <= written[q]
  BY DEF Fresh, Packet, Readable
<1>3. top \in fresh /\ \A m \in fresh : m.body <= top.body
  BY <1>1, <1>2, FirstAcceptedIsNewest
<1>4. \A m \in fresh : IsNewMessage(m.seq, last_seen_id[p])
  BY DEF Fresh
<1> HIDE DEF q, top, fresh
<1>5. \A m \in fresh : m.body > L
  BY <1>1, <1>2, <1>4, NewMeansNotHandled DEF q
<1>6. Bodies(fresh) \subseteq (L + 1)..top.body
  <2>1. \A m \in fresh : m.body \in Nat
    BY <1>2 DEF Message
  <2> QED BY <2>1, <1>1, <1>3, <1>5 DEF Bodies
<1>7. ASSUME NEW b \in (L + 1)..top.body PROVE b \in Bodies(fresh)
  <2>1. top \in pack.reliable
    BY <1>2, <1>3
  <2>2. (L + 1)..top.body \subseteq Bodies(pack.reliable)
    BY <2>1 DEF Readable, q
  <2>3. PICK n \in pack.reliable : n.body = b
    BY <2>2, <1>7 DEF Bodies
  <2>4. L < n.body /\ n.body <= top.body
    BY <2>3, <1>7, <1>1
  <2>5. IsNewMessage(n.seq, last_seen_id[p])
    BY <1>1, <1>3, <1>4, <2>1, <2>4, NewMeansNotHandled DEF q
  <2>6. n \in fresh
    BY <2>5 DEF Fresh, fresh
  <2> QED BY <2>3, <2>6 DEF Bodies
<1>8. top \in pack.reliable /\ top.body > L
  BY <1>2, <1>3, <1>5
<1> QED BY <1>6, <1>7, <1>8 DEF top, fresh, q

-----------------------------------------------------------------------------
(* The invariant: one lemma per action *)

LEMMA InitIInv == Init => IInv
<1> SUFFICES ASSUME Init PROVE IInv
  OBVIOUS
<1>1. TypeInv
  BY InitTypeInv
<1>2. ASSUME NEW p \in Nodes
      PROVE  /\ ReceiverOK(p) /\ WriterOK(p) /\ PacketsOK(p) /\ AcksOK(p) /\ AcksOrdered(p)
  <2>1. /\ written[p] = 0 /\ last_seen_body[p] = 0 /\ last_seen_id[Peer(p)] = 255
        /\ out_reliable[p] = {} /\ id_counter[p] = first_id[p] /\ first_id[p] \in 0..255
        /\ net[p] = <<>> /\ net[Peer(p)] = <<>> /\ out_acks[Peer(p)] = <<>>
    BY <1>1, TypeFacts, PeerIsNode DEF Init
  <2>2. \A b \in 1..MaxWrites[p] : delivered[p][b] = 0 /\ ~ (b <= 0)
    BY <1>1, TypeFacts DEF Init
  <2>3. ReceiverOK(p)
    BY <2>1, <2>2 DEF ReceiverOK
  <2>4. WriterOK(p)
    <3>1. id_counter[p] - first_id[p] = written[p]
      <4>1. \A x \in Int : x - x = 0
        OBVIOUS
      <4>2. first_id[p] \in Int
        BY ONLY <2>1
      <4> QED BY ONLY <2>1, <4>1, <4>2
    <3>2. (last_seen_body[p] + 1)..written[p] = {}
      <4>1. \A a, b : a = 0 /\ b = 0 => (a + 1)..b = {}
        OBVIOUS
      <4> QED BY ONLY <2>1, <4>1
    <3> QED BY <2>1, <3>1, <3>2 DEF WriterOK
  <2>5. PacketsOK(p) /\ AcksOK(p) /\ AcksOrdered(p)
    BY <2>1 DEF PacketsOK, AcksOK, AcksOrdered
  <2> QED BY <2>3, <2>4, <2>5
<1> QED BY <1>1, <1>2 DEF IInv

LEMMA WriteReliableIInv ==
    ASSUME IInv, SafeUse, NEW p \in Nodes, WriteReliable(p)
    PROVE  IInv'
<1> DEFINE m == [body |-> written[p] + 1, seq |-> id_counter[p]]
<1>1. TypeInv /\ TypeInv'
  BY IInvFacts, WriteReliableTypeInv
<1>2. /\ UNCHANGED <<out_acks, last_seen_id, net, delivered, first_id, last_seen_body>>
      /\ out_reliable'[p] = out_reliable[p] \cup {m}
      /\ written'[p] = written[p] + 1
      /\ id_counter'[p] = (id_counter[p] + 1) % 10
      /\ \A q \in Nodes \ {p} : /\ out_reliable'[q] = out_reliable[q]
                                /\ written'[q] = written[q]
                                /\ id_counter'[q] = id_counter[q]
  BY <1>1 DEF WriteReliable, TypeInv, TypeOK, MAX_MESSAGE_SEQUENCE_ID
<1>3. /\ written[p] \in Nat /\ last_seen_body[p] \in Nat /\ last_seen_body[p] <= written[p]
      /\ id_counter[p] \in 0..255 /\ first_id[p] \in 0..255
      /\ out_reliable[p] \in SUBSET Message
  BY <1>1, TypeFacts, IInvFacts DEF ReceiverOK
<1>4. Unacked(p)' = Unacked(p) \cup {written[p] + 1}
  <2>1. Bodies(out_reliable[p] \cup {m}) = Bodies(out_reliable[p]) \cup {m.body}
    BY Zenon DEF Bodies
  <2> QED BY <2>1, <1>2 DEF Unacked
<1>5. \A a \in Nat : a <= written[p] /\ (a + 1)..written[p] \subseteq Unacked(p)
         => (a + 1)..written'[p] \subseteq Unacked(p)'
  <2> HIDE DEF m
  <2> QED BY <1>2, <1>3, <1>4
<1>6. ReceiverOK(p)'
  BY <1>2, <1>3, IInvFacts DEF ReceiverOK, Numbered
<1>7. WriterOK(p)'
  <2>1. (id_counter[p] - first_id[p]) % 10 = written[p] % 10
    BY IInvFacts DEF WriterOK, MAX_MESSAGE_SEQUENCE_ID
  <2>2. (id_counter'[p] - first_id'[p]) % 10 = written'[p] % 10
    <3>1. id_counter[p] \in Int /\ first_id[p] \in Int /\ written[p] \in Int
      BY <1>3
    <3>2. (((id_counter[p] + 1) % 10) - first_id[p]) % 10 = (written[p] + 1) % 10
      BY ONLY <3>1, <2>1, ModCount
    <3> QED BY <3>2, <1>2
  <2>3. ASSUME NEW n \in out_reliable'[p]
        PROVE  Numbered(p, n)' /\ written'[p] - n.body < Window
    <3>1. CASE n = m
      <4>1. n.seq = id_counter[p] /\ n.body = written[p] + 1
        BY <3>1
      <4>2. n.body - 1 = written[p] /\ written'[p] - n.body < Window
        BY <4>1, <1>2, <1>3, WindowFacts
      <4> QED BY <4>1, <4>2, <2>1, <1>2 DEF Numbered, MAX_MESSAGE_SEQUENCE_ID
    <3>2. CASE n \in out_reliable[p]
      <4>1. Numbered(p, n)'
        BY <3>2, <1>2, IInvFacts DEF WriterOK, Numbered
      <4>2. written[p] + 1 - n.body < Window
        BY <3>2 DEF WriteReliable
      <4>3. n.body \in Nat /\ written'[p] = written[p] + 1
        BY <3>2, <1>2, <1>3 DEF Message
      <4> QED BY <4>1, <4>2, <4>3, <1>3
    <3> HIDE DEF m
    <3> QED BY <3>1, <3>2, <1>2
  <2>4. (last_seen_body[p] + 1)..written'[p] \subseteq Unacked(p)'
    BY <1>3, <1>5, IInvFacts DEF WriterOK
  <2> HIDE DEF m
  <2> QED BY <2>2, <2>3, <2>4, <1>2 DEF WriterOK, MAX_MESSAGE_SEQUENCE_ID
<1>8. PacketsOK(p)'
  BY <1>2, IInvFacts DEF PacketsOK, PacketOK, Numbered
<1>9. AcksOK(p)'
  <2>1. ASSUME NEW ack \in Message, AckOK(p, ack) PROVE AckOK(p, ack)'
    <3>1. ack.body \in Nat /\ ack.body <= written[p]
      BY <2>1, <1>3 DEF AckOK, Message
    <3> HIDE DEF m
    <3> QED BY <2>1, <3>1, <1>2, <1>5 DEF AckOK, Numbered
  <2>2. /\ out_acks[Peer(p)] \in Seq(Message) /\ net[Peer(p)] \in Seq(Packet)
    BY <1>1, TypeFacts, PeerIsNode
  <2>3. \A i \in 1..Len(out_acks[Peer(p)]) : out_acks[Peer(p)][i] \in Message
    BY <2>2, ElementOfSeq
  <2>4. \A k \in 1..Len(net[Peer(p)]) : \A i \in 1..Len(net[Peer(p)][k].acks) :
           net[Peer(p)][k].acks[i] \in Message
    BY <2>2, PacketFacts, ElementOfSeq
  <2> HIDE DEF m
  <2> QED BY <2>1, <2>3, <2>4, <1>2, IInvFacts DEF AcksOK
<1>10. \A q \in Nodes : AcksOrdered(q)'
  <2> SUFFICES ASSUME NEW q \in Nodes PROVE AcksOrdered(q)'
    OBVIOUS
  <2>1. net' = net /\ out_acks' = out_acks
    BY <1>2
  <2>2. AcksOrdered(q)
    BY IInvFacts
  <2> QED BY ONLY <2>1, <2>2 DEF AcksOrdered
<1>11. ASSUME NEW q \in Nodes \ {p}
       PROVE  (ReceiverOK(q) /\ WriterOK(q) /\ PacketsOK(q) /\ AcksOK(q) /\ AcksOrdered(q))'
  <2> HIDE DEF m
  <2>1. written'[q] = written[q] /\ out_reliable'[q] = out_reliable[q] /\ id_counter'[q] = id_counter[q]
    BY <1>2
  <2>2. ReceiverOK(q)'
    BY <2>1, <1>2, IInvFacts DEF ReceiverOK, Numbered
  <2>3. WriterOK(q)'
    BY <2>1, <1>2, IInvFacts DEF WriterOK, Numbered, Unacked
  <2>4. PacketsOK(q)'
    BY <1>2, IInvFacts DEF PacketsOK, PacketOK, Numbered
  <2>5. AcksOK(q)'
    <3>1. net' = net /\ out_acks' = out_acks /\ \A a : AckOK(q, a) <=> AckOK(q, a)'
      BY <2>1, <1>2 DEF AckOK, Numbered, Unacked
    <3> QED BY <3>1, IInvFacts DEF AcksOK
  <2> QED BY <2>2, <2>3, <2>4, <2>5, <1>10
<1> QED BY <1>1, <1>6, <1>7, <1>8, <1>9, <1>10, <1>11 DEF IInv

\* With the writer at most Window messages ahead, every unacknowledged message
\* fits the packet.
LEMMA AppendedIsEverything ==
    ASSUME IInv, SafeUse, NEW p \in Nodes
    PROVE  Appended(p) = out_reliable[p]
<1> SUFFICES ASSUME NEW m \in out_reliable[p]
             PROVE  Cardinality(Bodies(out_reliable[p]) \cap (m.body + 1)..written[p]) < Capacity
  BY DEF Appended
<1> DEFINE newer == Bodies(out_reliable[p]) \cap (m.body + 1)..written[p]
<1>1. m.body \in Nat /\ written[p] \in Nat /\ m.body <= written[p]
  BY IInvFacts, TypeFacts DEF BodiesBounded, Message
<1>2. written[p] - m.body < Capacity
  <2>1. written[p] - m.body < Window
    BY IInvFacts DEF WriterOK
  <2> QED BY <2>1, <1>1, WindowFacts
<1> QED
  <2>1. newer \in SUBSET ((m.body + 1)..written[p])
    OBVIOUS
  <2>2. /\ IsFiniteSet((m.body + 1)..written[p])
        /\ Cardinality((m.body + 1)..written[p])
             = IF m.body + 1 > written[p] THEN 0 ELSE written[p] - (m.body + 1) + 1
    <3>1. m.body + 1 \in Int /\ written[p] \in Int
      BY <1>1
    <3> QED BY <3>1, FS_Interval
  <2>3. Cardinality(newer) <= Cardinality((m.body + 1)..written[p]) /\ IsFiniteSet(newer)
    BY <2>1, <2>2, FS_Subset
  <2>4. Cardinality(newer) \in Nat /\ Capacity \in Nat
    BY <2>3, FS_CardinalityType, ChannelAssumption
  <2> HIDE DEF newer
  <2>5. Cardinality(newer) < Capacity
    BY <1>1, <1>2, <2>2, <2>3, <2>4
  <2> QED BY <2>5 DEF newer

LEMMA CraftSendPacketIInv ==
    ASSUME IInv, SafeUse, NEW p \in Nodes, CraftSendPacket(p)
    PROVE  IInv'
<1>1. TypeInv /\ TypeInv'
  BY IInvFacts, CraftSendPacketTypeInv
<1>2. PICK pack \in Packet :
         /\ pack.reliable = Appended(p)
         /\ net' = [net EXCEPT ![p] = Append(@, pack)]
         /\ \E n \in 0..Len(out_acks[p]) : pack.acks = SubSeq(out_acks[p], 1, n)
  BY <1>1, CraftedPacket
<1>3. /\ UNCHANGED <<id_counter, out_reliable, last_seen_id, written, delivered,
                     first_id, last_seen_body>>
      /\ out_acks'[p] = <<>>
      /\ \A q \in Nodes \ {p} : out_acks'[q] = out_acks[q] /\ net'[q] = net[q]
  BY <1>1, <1>2 DEF CraftSendPacket, historyVars, TypeInv, TypeOK
<1>4. /\ net[p] \in Seq(Packet) /\ Len(net[p]) \in Nat
      /\ Len(net'[p]) = Len(net[p]) + 1
      /\ net'[p][Len(net[p]) + 1] = pack
      /\ \A k \in 1..Len(net[p]) : net'[p][k] = net[p][k]
  <2>1. net \in [Nodes -> Seq(Packet)] /\ net[p] \in Seq(Packet)
    BY <1>1 DEF TypeInv, TypeOK
  <2>2. net'[p] = Append(net[p], pack)
    BY <2>1, <1>2
  <2> QED BY <2>1, <2>2, AppendProperties, LenProperties
<1>5. \A k \in 1..Len(net'[p]) : k \in 1..Len(net[p]) \/ k = Len(net[p]) + 1
  BY <1>4
<1>6. ASSUME NEW i \in 1..Len(pack.acks)
      PROVE  i \in 1..Len(out_acks[p]) /\ pack.acks[i] = out_acks[p][i]
  <2>1. PICK n \in 0..Len(out_acks[p]) : pack.acks = SubSeq(out_acks[p], 1, n)
    BY <1>2
  <2>2. out_acks[p] \in Seq(Message) /\ Len(out_acks[p]) \in Nat
    BY <1>1, TypeFacts, LenProperties
  <2>3. \A j \in 1..n : out_acks[p][j] \in Message
    BY <2>1, <2>2, ElementOfSeq
  <2>4. /\ Len(SubSeq(out_acks[p], 1, n)) = IF 1 <= n THEN n - 1 + 1 ELSE 0
        /\ \A j \in 1..n - 1 + 1 : SubSeq(out_acks[p], 1, n)[j] = out_acks[p][1 + j - 1]
    BY <2>1, <2>2, <2>3, SubSeqProperties
  <2>5. n \in Nat /\ n <= Len(out_acks[p]) /\ Len(pack.acks) = n
    BY <2>1, <2>2, <2>4
  <2> QED BY <2>1, <2>4, <2>5, <1>6, <2>2
<1>7. \A q \in Nodes : ReceiverOK(q)' /\ WriterOK(q)'
  <2> SUFFICES ASSUME NEW q \in Nodes PROVE ReceiverOK(q)' /\ WriterOK(q)'
    OBVIOUS
  <2> QED BY <1>3, IInvFacts DEF ReceiverOK, WriterOK, Numbered, Unacked
<1>8. /\ written[p] \in Nat /\ last_seen_body[p] \in Nat /\ last_seen_body[p] <= written[p]
      /\ \A m \in out_reliable[p] : /\ m \in Message /\ m.body \in Nat /\ Numbered(p, m)
                                    /\ m.body <= written[p] /\ written[p] - m.body < 5
  <2>1. \A m \in out_reliable[p] : /\ m \in Message /\ m.body \in Nat
                                   /\ Numbered(p, m) /\ m.body <= written[p]
                                   /\ written[p] - m.body < Window
    BY <1>1, TypeFacts, IInvFacts DEF WriterOK, BodiesBounded, Message
  <2>2. written[p] \in Nat /\ last_seen_body[p] \in Nat /\ last_seen_body[p] <= written[p]
    BY <1>1, TypeFacts, IInvFacts DEF ReceiverOK
  <2> QED BY <2>1, <2>2, WindowFacts
<1>9. PacketOK(p, pack)
  <2>1. pack.reliable = out_reliable[p]
    BY <1>2, AppendedIsEverything
  <2>2. (last_seen_body[p] + 1)..written[p] \subseteq Bodies(pack.reliable)
    BY <2>1, IInvFacts DEF WriterOK, Unacked
  <2>3. ASSUME NEW m \in pack.reliable
        PROVE  /\ last_seen_body[p] - m.body < 5
               /\ (last_seen_body[p] + 1)..m.body \subseteq (last_seen_body[p] + 1)..written[p]
    <3>1. m.body \in Nat /\ m.body <= written[p] /\ written[p] - m.body < 5
      BY <2>1, <1>8
    <3> QED BY <3>1, <1>8
  <2> QED BY <2>1, <2>2, <2>3, <1>8 DEF PacketOK, HalfRange, MAX_MESSAGE_SEQUENCE_ID
<1>10. PacketsOK(p)'
  <2>1. \A k \in 1..Len(net[p]) : PacketOK(p, net[p][k])
    BY IInvFacts DEF PacketsOK
  <2>2. \A k \in 1..Len(net'[p]) : PacketOK(p, net'[p][k])
    BY <2>1, <1>4, <1>5, <1>9
  <2>3. \A k \in 1..Len(net'[p]) : PacketOK(p, net[p][k])'
    BY <2>2, <1>3 DEF PacketOK, Numbered
  <2>4. ASSUME NEW j \in 1..Len(net'[p]), NEW k \in 1..Len(net'[p]), j < k,
               NEW m \in net'[p][j].reliable, NEW n \in net'[p][k].reliable
        PROVE  m.body - n.body < 5
    <3>1. j \in 1..Len(net[p]) /\ net'[p][j] = net[p][j]
      BY <2>4, <1>4, <1>5
    <3>2. CASE k \in 1..Len(net[p])
      BY <3>1, <3>2, <2>4, <1>4, IInvFacts DEF PacketsOK, HalfRange, MAX_MESSAGE_SEQUENCE_ID
    <3>3. CASE k = Len(net[p]) + 1
      <4>1. n \in out_reliable[p]
        BY <3>3, <1>4, <1>2, AppendedIsEverything
      <4>2. m \in Message /\ m.body <= written[p]
        BY <3>1, <1>1, TypeFacts, PacketFacts DEF BodiesBounded
      <4>3. m.body \in Nat /\ n.body \in Nat /\ written[p] - n.body < 5
        BY <4>1, <4>2, <1>8 DEF Message
      <4> QED BY <4>2, <4>3, <1>8
    <3> QED BY <3>2, <3>3, <1>5
  <2> QED BY <2>3, <2>4 DEF PacketsOK, HalfRange, MAX_MESSAGE_SEQUENCE_ID
<1>11. ASSUME NEW q \in Nodes, q # p PROVE PacketsOK(q)'
  <2>1. net'[q] = net[q]
    BY <1>3, <1>11
  <2> QED BY <2>1, <1>3, IInvFacts DEF PacketsOK, PacketOK, Numbered
<1>12. \A q \in Nodes : \A a : AckOK(q, a)' <=> AckOK(q, a)
  BY <1>3 DEF AckOK, Numbered, Unacked
<1>13. ASSUME NEW q \in Nodes, q = Peer(p) PROVE AcksOK(q)' /\ AcksOrdered(q)'
  <2>1. Peer(q) = p
    BY <1>13, PeerIsNode
  <2>2. /\ \A i \in 1..Len(out_acks[p]) : AckOK(q, out_acks[p][i])
        /\ \A k \in 1..Len(net[p]) : \A i \in 1..Len(net[p][k].acks) : AckOK(q, net[p][k].acks[i])
    BY <2>1, IInvFacts DEF AcksOK
  <2>3. /\ \A j, k \in 1..Len(net[p]) : j < k =>
              \A x \in 1..Len(net[p][j].acks), y \in 1..Len(net[p][k].acks) :
                  net[p][j].acks[x].body <= net[p][k].acks[y].body
        /\ \A j \in 1..Len(net[p]) : \A x \in 1..Len(net[p][j].acks), y \in 1..Len(out_acks[p]) :
              net[p][j].acks[x].body <= out_acks[p][y].body
    <3>1. AcksOrdered(q)
      BY IInvFacts
    <3> QED BY ONLY <2>1, <3>1 DEF AcksOrdered
  <2>4. \A k \in 1..Len(net'[p]) : \A i \in 1..Len(net'[p][k].acks) : AckOK(q, net'[p][k].acks[i])
    BY <2>2, <1>4, <1>5, <1>6
  <2>5. out_acks'[p] = <<>> /\ \A i \in 1..Len(out_acks'[p]) : FALSE
    BY <1>3
  <2>6. AcksOK(q)'
    BY <2>1, <2>4, <2>5, <1>12 DEF AcksOK
  <2>7. ASSUME NEW j \in 1..Len(net'[p]), NEW k \in 1..Len(net'[p]), j < k,
               NEW x \in 1..Len(net'[p][j].acks), NEW y \in 1..Len(net'[p][k].acks)
        PROVE  net'[p][j].acks[x].body <= net'[p][k].acks[y].body
    <3>1. j \in 1..Len(net[p]) /\ net'[p][j] = net[p][j]
      BY <2>7, <1>4, <1>5
    <3>2. CASE k \in 1..Len(net[p])
      BY <3>1, <3>2, <2>7, <2>3, <1>4
    <3>3. CASE k = Len(net[p]) + 1
      <4>1. y \in 1..Len(out_acks[p]) /\ net'[p][k].acks[y] = out_acks[p][y]
        BY <3>3, <2>7, <1>4, <1>6
      <4> QED BY <4>1, <3>1, <2>7, <2>3
    <3> QED BY <3>2, <3>3, <1>5
  <2>8. AcksOrdered(q)'
    BY <2>1, <2>5, <2>7 DEF AcksOrdered
  <2> QED BY <2>6, <2>8
<1>14. ASSUME NEW q \in Nodes, q # Peer(p) PROVE AcksOK(q)' /\ AcksOrdered(q)'
  <2>1. Peer(q) \in Nodes \ {p}
    BY <1>14 DEF Nodes, Peer
  <2>2. net'[Peer(q)] = net[Peer(q)] /\ out_acks'[Peer(q)] = out_acks[Peer(q)]
    BY <2>1, <1>3
  <2>3. AcksOK(q) /\ AcksOrdered(q)
    BY IInvFacts
  <2>4. AcksOK(q)'
    BY <2>2, <2>3, <1>12 DEF AcksOK
  <2>5. AcksOrdered(q)'
    BY ONLY <2>2, <2>3 DEF AcksOrdered
  <2> QED BY <2>4, <2>5
<1> QED BY <1>1, <1>7, <1>10, <1>11, <1>13, <1>14 DEF IInv

\* Dropping the first packet of a path keeps what holds of all of them.
LEMMA TailKeepsOrder ==
    ASSUME IInv, NEW q \in Nodes, net[q] # <<>>,
           net' = [net EXCEPT ![q] = Tail(@)], out_acks'[q] = out_acks[q]
    PROVE  /\ AcksOrdered(Peer(q))'
           /\ \A j, k \in 1..Len(net'[q]) : j < k =>
                 \A m \in net'[q][j].reliable, n \in net'[q][k].reliable :
                     m.body - n.body < 5
<1>1. /\ Len(net'[q]) = Len(net[q]) - 1
      /\ \A k \in 1..Len(net'[q]) : k + 1 \in 1..Len(net[q]) /\ net'[q][k] = net[q][k + 1]
  BY IInvFacts, TailOfPath
<1>2. Peer(q) \in Nodes /\ Peer(Peer(q)) = q
  BY PeerIsNode
<1>3. \A j, k \in 1..Len(net[q]) : j < k =>
         \A m \in net[q][j].reliable, n \in net[q][k].reliable : m.body - n.body < 5
  BY IInvFacts DEF PacketsOK, HalfRange, MAX_MESSAGE_SEQUENCE_ID
<1>4. /\ \A j, k \in 1..Len(net[q]) : j < k =>
            \A x \in 1..Len(net[q][j].acks), y \in 1..Len(net[q][k].acks) :
                net[q][j].acks[x].body <= net[q][k].acks[y].body
      /\ \A j \in 1..Len(net[q]) : \A x \in 1..Len(net[q][j].acks), y \in 1..Len(out_acks[q]) :
            net[q][j].acks[x].body <= out_acks[q][y].body
  BY <1>2, IInvFacts DEF AcksOrdered
<1>5. \A j, k \in 1..Len(net'[q]) : j < k => j + 1 < k + 1
  BY <1>1
<1>6. \A j, k \in 1..Len(net'[q]) : j < k =>
         \A m \in net'[q][j].reliable, n \in net'[q][k].reliable : m.body - n.body < 5
  BY <1>1, <1>3, <1>5
<1>7. \A j, k \in 1..Len(net'[q]) : j < k =>
         \A x \in 1..Len(net'[q][j].acks), y \in 1..Len(net'[q][k].acks) :
             net'[q][j].acks[x].body <= net'[q][k].acks[y].body
  BY <1>1, <1>4, <1>5
<1>8. \A j \in 1..Len(net'[q]) : \A x \in 1..Len(net'[q][j].acks), y \in 1..Len(out_acks'[q]) :
         net'[q][j].acks[x].body <= out_acks'[q][y].body
  BY <1>1, <1>4
<1>9. AcksOrdered(Peer(q))'
  BY <1>2, <1>7, <1>8 DEF AcksOrdered
<1> QED BY <1>6, <1>9

LEMMA LoseIInv ==
    ASSUME IInv, SafeUse, NEW p \in Nodes, Lose(p), TypeInv'
    PROVE  IInv'
<1>1. /\ net[p] # <<>> /\ net' = [net EXCEPT ![p] = Tail(@)]
      /\ UNCHANGED <<id_counter, out_reliable, out_acks, last_seen_id,
                     written, delivered, first_id, last_seen_body>>
  BY DEF Lose, managerVars, historyVars
<1>2. /\ \A k \in 1..Len(net'[p]) : k + 1 \in 1..Len(net[p]) /\ net'[p][k] = net[p][k + 1]
      /\ \A q \in Nodes \ {p} : net'[q] = net[q]
  BY <1>1, IInvFacts, TailOfPath
<1>3. \A q \in Nodes : ReceiverOK(q)' /\ WriterOK(q)'
  <2> SUFFICES ASSUME NEW q \in Nodes PROVE ReceiverOK(q)' /\ WriterOK(q)'
    OBVIOUS
  <2> QED BY <1>1, IInvFacts DEF ReceiverOK, WriterOK, Numbered, Unacked
<1>4. /\ \A q \in Nodes : \A a : AckOK(q, a)' <=> AckOK(q, a)
      /\ \A q \in Nodes : \A pack : PacketOK(q, pack)' <=> PacketOK(q, pack)
  BY <1>1 DEF AckOK, PacketOK, Numbered, Unacked
<1>5. PacketsOK(p)'
  <2>1. \A k \in 1..Len(net'[p]) : PacketOK(p, net[p][k])'
    BY <1>2, <1>4, IInvFacts DEF PacketsOK
  <2>2. \A j, k \in 1..Len(net'[p]) : j < k =>
           \A m \in net'[p][j].reliable, n \in net'[p][k].reliable : m.body - n.body < 5
    BY <1>1, TailKeepsOrder
  <2> QED BY <2>1, <2>2 DEF PacketsOK, HalfRange, MAX_MESSAGE_SEQUENCE_ID
<1>6. AcksOK(Peer(p))' /\ AcksOrdered(Peer(p))'
  <2>1. Peer(p) \in Nodes /\ Peer(Peer(p)) = p
    BY PeerIsNode
  <2>2. /\ \A i \in 1..Len(out_acks[p]) : AckOK(Peer(p), out_acks[p][i])
        /\ \A k \in 1..Len(net[p]) : \A i \in 1..Len(net[p][k].acks) :
              AckOK(Peer(p), net[p][k].acks[i])
    BY <2>1, IInvFacts DEF AcksOK
  <2>3. /\ \A i \in 1..Len(out_acks'[p]) : AckOK(Peer(p), out_acks[p][i])'
        /\ \A k \in 1..Len(net'[p]) : \A i \in 1..Len(net'[p][k].acks) :
              AckOK(Peer(p), net[p][k].acks[i])'
    BY <2>1, <2>2, <1>1, <1>2, <1>4
  <2>4. AcksOK(Peer(p))'
    BY <2>1, <2>3 DEF AcksOK
  <2> QED BY <2>4, <1>1, TailKeepsOrder
<1>7. ASSUME NEW q \in Nodes, q # p PROVE PacketsOK(q)'
  BY <1>2, <1>4, <1>7, IInvFacts DEF PacketsOK
<1>8. ASSUME NEW q \in Nodes, q # Peer(p) PROVE AcksOK(q)' /\ AcksOrdered(q)'
  <2>1. Peer(q) \in Nodes \ {p}
    BY <1>8 DEF Nodes, Peer
  <2>2. net'[Peer(q)] = net[Peer(q)] /\ out_acks'[Peer(q)] = out_acks[Peer(q)]
    BY <2>1, <1>1, <1>2
  <2>3. AcksOK(q) /\ AcksOrdered(q)
    BY IInvFacts
  <2>4. AcksOK(q)'
    BY <2>2, <2>3, <1>4 DEF AcksOK
  <2>5. AcksOrdered(q)'
    BY ONLY <2>2, <2>3 DEF AcksOrdered
  <2> QED BY <2>4, <2>5
<1> QED BY <1>3, <1>5, <1>6, <1>7, <1>8 DEF IInv

\* A packet of q = Peer(p) reaches p: how far p's knowledge of q moves.
LEMMA DeliverReceiver ==
    ASSUME TypeInv, FirstIdsInRange, NEW p \in Nodes, NEW pack \in Packet,
           Readable(Peer(p), pack), HandleReceivedPacket(p, pack)
    PROVE  LET q == Peer(p) IN
           /\ last_seen_body'[q] \in Nat
           /\ last_seen_body[q] <= last_seen_body'[q]
           /\ last_seen_body'[p] = last_seen_body[p]
           /\ last_seen_id'[q] = last_seen_id[q]
           /\ out_acks'[q] = out_acks[q]
           /\ \/ UNCHANGED <<last_seen_body, last_seen_id, out_acks>>
              \/ \E a \in pack.reliable :
                    /\ last_seen_body'[q] = a.body
                    /\ last_seen_id'[p] = a.seq
                    /\ last_seen_body[q] < a.body
                    /\ out_acks'[p] = Append(out_acks[p], a)
           /\ ReceiverOK(q)'
           /\ ReceiverOK(p) => ReceiverOK(p)'
<1> DEFINE q == Peer(p)
           fresh == Fresh(p, pack)
           a == FirstAccepted(fresh)
           L == last_seen_body[q]
<1>1. /\ q \in Nodes /\ q # p /\ Peer(q) = p
      /\ written[q] \in Nat /\ L \in Nat /\ L <= written[q]
      /\ DOMAIN delivered = Nodes
      /\ delivered[q] \in [1..MaxWrites[q] -> Nat] /\ MaxWrites[q] \in Nat
      /\ last_seen_id \in [Nodes -> 0..255] /\ last_seen_body \in [Nodes -> Nat]
      /\ out_acks \in [Nodes -> Seq(Message)]
  <2>1. q \in Nodes /\ q # p /\ Peer(q) = p
    BY PeerIsNode
  <2> HIDE DEF q
  <2>2. TypeInv /\ ReceiverOK(q)
    BY DEF Readable, q
  <2>3. /\ DOMAIN delivered = Nodes
        /\ last_seen_id \in [Nodes -> 0..255] /\ last_seen_body \in [Nodes -> Nat]
        /\ out_acks \in [Nodes -> Seq(Message)]
    BY <2>2 DEF TypeInv, TypeOK
  <2>4. /\ written[q] \in Nat /\ MaxWrites[q] \in Nat
        /\ delivered[q] \in [1..MaxWrites[q] -> Nat]
    BY <2>1, <2>2, TypeFacts
  <2> QED BY <2>1, <2>2, <2>3, <2>4 DEF ReceiverOK
<1>2. /\ UNCHANGED <<written, first_id>>
      /\ delivered' = [delivered EXCEPT ![q] =
            [b \in DOMAIN @ |-> IF b \in Bodies(fresh) THEN @[b] + 1 ELSE @[b]]]
      /\ IF fresh = {}
         THEN UNCHANGED <<last_seen_id, last_seen_body, out_acks>>
         ELSE /\ last_seen_id' = [last_seen_id EXCEPT ![p] = a.seq]
              /\ last_seen_body' = [last_seen_body EXCEPT ![q] = a.body]
              /\ out_acks' = [out_acks EXCEPT ![p] = Append(@, a)]
  BY DEF HandleReceivedPacket
<1>3. fresh # {} => /\ a \in pack.reliable
                    /\ a \in Message
                    /\ L < a.body
                    /\ Bodies(fresh) = (L + 1)..a.body
  BY <1>1, FreshIsNext DEF Packet
<1>4. ReceiverOK(q)
  BY DEF Readable
<1> HIDE DEF q, fresh, a
<1>5. /\ delivered'[p] = delivered[p]
      /\ \A b \in 1..MaxWrites[q] :
            delivered'[q][b] = IF b \in Bodies(fresh) THEN delivered[q][b] + 1 ELSE delivered[q][b]
  BY <1>1, <1>2
<1>6. last_seen_body'[p] = last_seen_body[p] /\ last_seen_id'[q] = last_seen_id[q]
      /\ out_acks'[q] = out_acks[q]
  BY <1>1, <1>2
<1>7. ReceiverOK(p) => ReceiverOK(p)'
  BY <1>2, <1>5, <1>6 DEF ReceiverOK, Numbered, q
<1>8. CASE fresh = {}
  <2>1. UNCHANGED <<last_seen_id, last_seen_body, out_acks>>
    BY <1>2, <1>8
  <2>2. Bodies(fresh) = {}
    BY <1>8 DEF Bodies
  <2>3. \A b \in 1..MaxWrites[q] : delivered'[q][b] = delivered[q][b]
    BY <1>5, <2>2
  <2>4. ReceiverOK(q)'
    BY <1>2, <1>4, <2>1, <2>3 DEF ReceiverOK, Numbered
  <2> QED BY <1>1, <1>6, <1>7, <2>1, <2>4 DEF q
<1>9. CASE fresh # {}
  <2>1. /\ a \in pack.reliable /\ a \in Message /\ L < a.body
        /\ Bodies(fresh) = (L + 1)..a.body
        /\ last_seen_id'[p] = a.seq
        /\ last_seen_body'[q] = a.body
        /\ out_acks'[p] = Append(out_acks[p], a)
    BY <1>1, <1>2, <1>3, <1>9
  <2>2. a.body \in Nat \ {0} /\ a.body <= written[q]
    BY <2>1 DEF Message, Readable, q
  <2>3. ASSUME NEW b \in 1..MaxWrites[q]
        PROVE  delivered'[q][b] = IF b <= a.body THEN 1 ELSE 0
    <3>1. delivered[q][b] = IF b <= L THEN 1 ELSE 0
      BY <1>4 DEF ReceiverOK
    <3>2. delivered'[q][b] = IF b \in (L + 1)..a.body THEN delivered[q][b] + 1 ELSE delivered[q][b]
      BY <1>5, <2>1
    <3>3. b \in Nat /\ L \in Nat
      BY <1>1
    <3> QED BY <3>1, <3>2, <3>3, <2>1, <2>2
  <2>4. Numbered(q, a)
    BY <2>1 DEF Readable, q
  <2>5. ReceiverOK(q)'
    <3>1. Peer(q) = p /\ a.body # 0
      BY <1>1, <2>2
    <3>2. Numbered(q, [body |-> last_seen_body[q], seq |-> last_seen_id[Peer(q)]])'
      BY <3>1, <2>1, <2>4, <1>2 DEF Numbered
    <3> QED BY <3>1, <3>2, <2>1, <2>2, <2>3, <1>2 DEF ReceiverOK
  <2>6. last_seen_body'[q] \in Nat /\ last_seen_body[q] <= last_seen_body'[q]
    BY <2>1, <2>2, <1>1
  <2> QED BY <1>6, <1>7, <2>1, <2>5, <2>6 DEF q
<1> QED BY <1>8, <1>9

\* The acknowledgements of a packet leave in p's queue what must stay there.
LEMMA ProcessAcksKeeps ==
    ASSUME IInv, SafeUse, NEW p \in Nodes, NEW pack \in Packet, NEW b \in Nat,
           \A i \in 1..Len(pack.acks) : AckOK(p, pack.acks[i]) /\ pack.acks[i].body <= b,
           (b + 1)..written[p] \subseteq Unacked(p)
    PROVE  (b + 1)..written[p] \subseteq Bodies(ProcessAcks(out_reliable[p], pack.acks))
<1> SUFFICES ASSUME NEW c \in (b + 1)..written[p]
             PROVE  c \in Bodies(ProcessAcks(out_reliable[p], pack.acks))
  OBVIOUS
<1>1. written[p] \in Nat /\ c \in Nat /\ c > b
  BY IInvFacts, TypeFacts
<1>2. PICK m \in out_reliable[p] : m.body = c
  BY DEF Unacked, Bodies
<1>3. ASSUME NEW i \in 1..Len(pack.acks), IsAcked(m.seq, pack.acks[i].seq) PROVE FALSE
  <2>1. pack.acks[i] \in Message /\ AckOK(p, pack.acks[i]) /\ pack.acks[i].body <= b
    BY ElementOfSeq DEF Packet
  <2>2. m.body <= pack.acks[i].body
    BY <1>3, <2>1, AckRemovesHandled
  <2>3. pack.acks[i].body \in Nat
    BY <2>1 DEF Message
  <2> QED BY <1>1, <1>2, <2>1, <2>2, <2>3
<1>4. m \in ProcessAcks(out_reliable[p], pack.acks)
  BY <1>3 DEF ProcessAcks
<1> QED BY <1>2, <1>4 DEF Bodies

LEMMA DeliverIInv ==
    ASSUME IInv, SafeUse, NEW p \in Nodes, Deliver(p), TypeInv'
    PROVE  IInv'
<1> DEFINE q == Peer(p)
           pack == net[q][1]
<1>1. /\ q \in Nodes /\ q # p /\ Peer(q) = p
      /\ \A r \in Nodes : r = p \/ r = q
  BY PeerIsNode DEF Nodes, Peer
<1>2. /\ net[q] # <<>> /\ net' = [net EXCEPT ![q] = Tail(@)]
      /\ HandleReceivedPacket(p, Head(net[q]))
  BY DEF Deliver
<1>3. /\ 1 \in 1..Len(net[q]) /\ Head(net[q]) = pack
      /\ \A k \in 1..Len(net'[q]) : k + 1 \in 1..Len(net[q]) /\ net'[q][k] = net[q][k + 1]
      /\ net'[p] = net[p]
      /\ Len(net[q]) \in Nat
  <2>1. \A r \in Nodes \ {q} : net'[r] = net[r]
    BY <1>1, <1>2, IInvFacts, TailOfPath
  <2>2. net[q] \in Seq(Packet)
    BY <1>1, IInvFacts, TypeFacts
  <2> QED BY <2>1, <2>2, <1>1, <1>2, IInvFacts, TailOfPath, LenProperties
<1>4. /\ pack \in Packet /\ PacketOK(q, pack)
      /\ \A m \in pack.reliable : m.body <= written[q]
  <2>1. PacketOK(q, pack)
    BY <1>1, <1>3, IInvFacts DEF PacketsOK
  <2> QED BY <2>1, <1>3, IInvFacts, PacketFromPath
<1>5. HandleReceivedPacket(p, pack)
  BY <1>2, <1>3
<1> HIDE DEF q, pack
<1>6. /\ UNCHANGED <<id_counter, written, first_id>>
      /\ out_reliable'[p] = ProcessAcks(out_reliable[p], pack.acks)
      /\ out_reliable'[q] = out_reliable[q]
  <2>1. out_reliable \in [Nodes -> SUBSET Message]
    BY IInvFacts DEF TypeInv, TypeOK
  <2> QED BY <2>1, <1>1, <1>5 DEF HandleReceivedPacket
<1>7. /\ written[p] \in Nat /\ last_seen_body[p] \in Nat /\ last_seen_body[p] <= written[p]
      /\ written[q] \in Nat /\ last_seen_body[q] \in Nat /\ last_seen_body[q] <= written[q]
      /\ out_reliable[p] \in SUBSET Message
  BY <1>1, IInvFacts, TypeFacts DEF ReceiverOK
<1>8. /\ last_seen_body'[q] \in Nat
      /\ last_seen_body[q] <= last_seen_body'[q]
      /\ last_seen_body'[p] = last_seen_body[p]
      /\ out_acks'[q] = out_acks[q]
      /\ \/ UNCHANGED <<last_seen_body, last_seen_id, out_acks>>
         \/ \E a \in pack.reliable :
               /\ last_seen_body'[q] = a.body
               /\ last_seen_id'[p] = a.seq
               /\ last_seen_body[q] < a.body
               /\ out_acks'[p] = Append(out_acks[p], a)
      /\ ReceiverOK(p)' /\ ReceiverOK(q)'
  <2>1. TypeInv /\ FirstIdsInRange /\ Readable(q, pack)
    BY <1>1, <1>4, PacketIsReadable
  <2>2. ReceiverOK(p)
    BY IInvFacts
  <2> QED BY <2>1, <2>2, <1>4, <1>5, DeliverReceiver DEF q
<1>9. \A i \in 1..Len(pack.acks) : AckOK(p, pack.acks[i])
  BY <1>1, <1>3, IInvFacts DEF AcksOK, pack, q
<1>10. ASSUME NEW b \in Nat, \A i \in 1..Len(pack.acks) : pack.acks[i].body <= b,
              (b + 1)..written[p] \subseteq Unacked(p)
       PROVE  (b + 1)..written'[p] \subseteq Unacked(p)'
  <2>1. (b + 1)..written[p] \subseteq Bodies(ProcessAcks(out_reliable[p], pack.acks))
    BY <1>4, <1>9, <1>10, ProcessAcksKeeps
  <2> QED BY <2>1, <1>6 DEF Unacked
<1>11. WriterOK(p)'
  <2>1. WriterOK(p)
    BY IInvFacts
  <2>2. \A i \in 1..Len(pack.acks) : pack.acks[i].body <= last_seen_body[p]
    BY <1>9 DEF AckOK
  <2>3. (last_seen_body[p] + 1)..written'[p] \subseteq Unacked(p)'
    BY <2>1, <2>2, <1>7, <1>10 DEF WriterOK
  <2>4. ProcessAcks(out_reliable[p], pack.acks) \subseteq out_reliable[p]
    BY DEF ProcessAcks
  <2> QED BY <2>1, <2>3, <2>4, <1>6, <1>8 DEF WriterOK, Numbered
<1>12. WriterOK(q)'
  <2>1. WriterOK(q)
    BY <1>1, IInvFacts
  <2>2. (last_seen_body'[q] + 1)..written[q] \subseteq (last_seen_body[q] + 1)..written[q]
    BY <1>8, <1>7
  <2> QED BY <2>1, <2>2, <1>6 DEF WriterOK, Numbered, Unacked
<1>13. PacketsOK(p)'
  BY <1>3, <1>6, <1>8, IInvFacts DEF PacketsOK, PacketOK, Numbered
<1>14. PacketsOK(q)'
  <2>1. \A j, k \in 1..Len(net'[q]) : j < k =>
           \A m \in net'[q][j].reliable, n \in net'[q][k].reliable : m.body - n.body < 5
    BY <1>1, <1>2, <1>8, TailKeepsOrder
  <2>2. ASSUME NEW k \in 1..Len(net'[q]), NEW m \in net'[q][k].reliable
        PROVE  /\ Numbered(q, m)'
               /\ last_seen_body'[q] - m.body < 5
               /\ (last_seen_body'[q] + 1)..m.body \subseteq Bodies(net'[q][k].reliable)
    <3>1. k + 1 \in 1..Len(net[q]) /\ net'[q][k] = net[q][k + 1] /\ 1 < k + 1
      BY <1>3
    <3>2. PacketOK(q, net[q][k + 1]) /\ m \in net[q][k + 1].reliable
      BY <3>1, <2>2, <1>1, IInvFacts DEF PacketsOK
    <3>3. /\ Numbered(q, m)
          /\ last_seen_body[q] - m.body < 5
          /\ (last_seen_body[q] + 1)..m.body \subseteq Bodies(net[q][k + 1].reliable)
      BY <3>2 DEF PacketOK, HalfRange, MAX_MESSAGE_SEQUENCE_ID
    <3>4. m.body \in Nat
      <4>1. net[q] \in Seq(Packet)
        BY <1>1, IInvFacts, TypeFacts
      <4> QED BY <4>1, <3>1, <3>2, PacketFacts DEF Message
    <3>5. (last_seen_body'[q] + 1)..m.body \subseteq (last_seen_body[q] + 1)..m.body
      BY <3>4, <1>8, <1>7
    <3>6. last_seen_body'[q] - m.body < 5
      <4>1. CASE last_seen_body' = last_seen_body
        BY <4>1, <3>3
      <4>2. ASSUME NEW a \in pack.reliable, last_seen_body'[q] = a.body
            PROVE  last_seen_body'[q] - m.body < 5
        <5>1. PacketsOK(q)
          BY <1>1, IInvFacts
        <5>2. a.body - m.body < 5
          BY <5>1, <4>2, <3>1, <3>2, <1>3 DEF PacketsOK, HalfRange, MAX_MESSAGE_SEQUENCE_ID, pack
        <5> QED BY <5>2, <4>2
      <4> QED BY <4>1, <4>2, <1>8
    <3>7. Numbered(q, m)'
      BY <3>3, <1>6 DEF Numbered
    <3> QED BY <3>1, <3>3, <3>5, <3>6, <3>7
  <2> QED BY <2>1, <2>2 DEF PacketsOK, PacketOK, HalfRange, MAX_MESSAGE_SEQUENCE_ID
<1>15. AcksOrdered(p)'
  BY <1>1, <1>2, <1>8, TailKeepsOrder
<1>16. AcksOK(p)'
  <2>1. AcksOK(p) /\ AcksOrdered(p)
    BY IInvFacts
  <2>2. ASSUME NEW ack \in Message, AckOK(p, ack),
               \A i \in 1..Len(pack.acks) : pack.acks[i].body <= ack.body
        PROVE  AckOK(p, ack)'
    <3>1. ack.body \in Nat
      BY DEF Message
    <3>2. (ack.body + 1)..written'[p] \subseteq Unacked(p)'
      BY <3>1, <2>2, <1>10 DEF AckOK
    <3> QED BY <3>2, <2>2, <1>6, <1>8 DEF AckOK, Numbered
  <2>3. out_acks[q] \in Seq(Message) /\ net[q] \in Seq(Packet)
    BY <1>1, IInvFacts, TypeFacts
  <2>4. ASSUME NEW i \in 1..Len(out_acks[q]) PROVE AckOK(p, out_acks[q][i])'
    <3>1. out_acks[q][i] \in Message /\ AckOK(p, out_acks[q][i])
      BY <2>1, <2>3, ElementOfSeq DEF AcksOK, q
    <3>2. \A x \in 1..Len(pack.acks) : pack.acks[x].body <= out_acks[q][i].body
      BY <2>1, <1>3 DEF AcksOrdered, q, pack
    <3>3. \A ack : ack = out_acks[q][i] => AckOK(p, ack)'
      BY <3>1, <3>2, <2>2
    <3> QED BY <3>3, <1>8
  <2>5. ASSUME NEW k \in 1..Len(net'[q]), NEW i \in 1..Len(net'[q][k].acks)
        PROVE  AckOK(p, net[q][k].acks[i])'
    <3>1. k + 1 \in 1..Len(net[q]) /\ net'[q][k] = net[q][k + 1] /\ 1 < k + 1
      BY <1>3
    <3>2. i \in 1..Len(net[q][k + 1].acks)
      BY <3>1
    <3>3. net[q][k + 1].acks[i] \in Message /\ AckOK(p, net[q][k + 1].acks[i])
      BY <3>1, <3>2, <2>1, <2>3, PacketFacts, ElementOfSeq DEF AcksOK, q
    <3>4. \A x \in 1..Len(pack.acks) : pack.acks[x].body <= net[q][k + 1].acks[i].body
      BY <2>1, <3>1, <3>2, <1>3 DEF AcksOrdered, q, pack
    <3>5. \A ack : ack = net[q][k + 1].acks[i] => AckOK(p, ack)'
      BY <3>3, <3>4, <2>2
    <3> QED BY <3>1, <3>5
  <2> QED BY <2>4, <2>5, <1>8 DEF AcksOK, q
<1>17. AcksOK(q)'
  <2>1. AcksOK(q)
    BY <1>1, IInvFacts
  <2>2. ASSUME NEW ack \in Message, AckOK(q, ack) PROVE AckOK(q, ack)'
    <3>1. ack.body \in Nat /\ ack.body <= last_seen_body[q]
      BY <2>2 DEF AckOK, Message
    <3>2. ack.body <= last_seen_body'[q]
      BY <3>1, <1>8, <1>7
    <3> QED BY <3>2, <2>2, <1>6 DEF AckOK, Numbered, Unacked
  <2>3. out_acks[p] \in Seq(Message) /\ net[p] \in Seq(Packet)
    BY <1>1, IInvFacts, TypeFacts
  <2>4. \A k \in 1..Len(net[p]) : \A i \in 1..Len(net[p][k].acks) : AckOK(q, net[p][k].acks[i])'
    <3> SUFFICES ASSUME NEW k \in 1..Len(net[p]), NEW i \in 1..Len(net[p][k].acks)
                 PROVE  \A ack : ack = net[p][k].acks[i] => AckOK(q, ack)'
      BY <1>3
    <3>1. net[p][k].acks[i] \in Message /\ AckOK(q, net[p][k].acks[i])
      BY <2>1, <2>3, <1>1, PacketFacts, ElementOfSeq DEF AcksOK
    <3> QED BY <3>1, <2>2
  <2>5. ASSUME NEW i \in 1..Len(out_acks[p])
        PROVE  \A ack : ack = out_acks[p][i] => AckOK(q, ack)'
    <3>1. out_acks[p][i] \in Message /\ AckOK(q, out_acks[p][i])
      BY <2>1, <2>3, <1>1, ElementOfSeq DEF AcksOK
    <3> QED BY <3>1, <2>2
  <2>6. CASE UNCHANGED <<last_seen_body, last_seen_id, out_acks>>
    BY <2>4, <2>5, <2>6, <1>1, <1>3 DEF AcksOK
  <2>7. ASSUME NEW a \in pack.reliable, last_seen_body'[q] = a.body,
               last_seen_body[q] < a.body, out_acks'[p] = Append(out_acks[p], a)
        PROVE  AcksOK(q)'
    <3>1. a \in Message /\ a.body \in Nat /\ a.body <= written[q] /\ Numbered(q, a)
      BY <2>7, <1>4 DEF Packet, Message, PacketOK
    <3>2. (a.body + 1)..written[q] \subseteq Unacked(q)
      <4>1. (last_seen_body[q] + 1)..written[q] \subseteq Unacked(q)
        BY <1>1, IInvFacts DEF WriterOK
      <4>2. (a.body + 1)..written[q] \subseteq (last_seen_body[q] + 1)..written[q]
        BY <3>1, <2>7, <1>7
      <4> QED BY <4>1, <4>2
    <3>3. AckOK(q, a)'
      BY <3>1, <3>2, <2>7, <1>6 DEF AckOK, Numbered, Unacked
    <3>4. /\ Len(out_acks'[p]) = Len(out_acks[p]) + 1
          /\ out_acks'[p][Len(out_acks[p]) + 1] = a
          /\ \A i \in 1..Len(out_acks[p]) : out_acks'[p][i] = out_acks[p][i]
          /\ Len(out_acks[p]) \in Nat
      BY <3>1, <2>3, <2>7, AppendProperties, LenProperties
    <3>5. ASSUME NEW i \in 1..Len(out_acks'[p])
          PROVE  \A ack : ack = out_acks'[p][i] => AckOK(q, ack)'
      <4>1. CASE i \in 1..Len(out_acks[p])
        BY <4>1, <3>4, <2>5
      <4>2. CASE i = Len(out_acks[p]) + 1
        BY <4>2, <3>3, <3>4
      <4> QED BY <4>1, <4>2, <3>4
    <3> QED BY <3>5, <2>4, <1>1, <1>3 DEF AcksOK
  <2> QED BY <2>6, <2>7, <1>8
<1>18. AcksOrdered(q)'
  <2>1. AcksOrdered(q) /\ AcksOK(q)
    BY <1>1, IInvFacts
  <2>2. /\ \A j, k \in 1..Len(net[p]) : j < k =>
              \A x \in 1..Len(net[p][j].acks), y \in 1..Len(net[p][k].acks) :
                  net[p][j].acks[x].body <= net[p][k].acks[y].body
        /\ \A j \in 1..Len(net[p]) : \A x \in 1..Len(net[p][j].acks), y \in 1..Len(out_acks[p]) :
              net[p][j].acks[x].body <= out_acks[p][y].body
    BY ONLY <2>1, <1>1 DEF AcksOrdered
  <2>3. CASE UNCHANGED <<last_seen_body, last_seen_id, out_acks>>
    <3>1. out_acks'[p] = out_acks[p]
      BY <2>3
    <3>2. net'[p] = net[p] /\ Peer(q) = p
      BY <1>1, <1>3
    <3> QED BY ONLY <2>2, <3>1, <3>2 DEF AcksOrdered
  <2>4. ASSUME NEW a \in pack.reliable,
               last_seen_body[q] < a.body, out_acks'[p] = Append(out_acks[p], a)
        PROVE  AcksOrdered(q)'
    <3>1. a \in Message /\ a.body \in Nat /\ out_acks[p] \in Seq(Message) /\ net[p] \in Seq(Packet)
      <4>1. out_acks[p] \in Seq(Message) /\ net[p] \in Seq(Packet)
        BY IInvFacts, TypeFacts
      <4>2. a \in Message
        BY <2>4, <1>4 DEF Packet
      <4> QED BY <4>1, <4>2 DEF Message
    <3>2. /\ Len(out_acks'[p]) = Len(out_acks[p]) + 1
          /\ out_acks'[p][Len(out_acks[p]) + 1] = a
          /\ \A i \in 1..Len(out_acks[p]) : out_acks'[p][i] = out_acks[p][i]
          /\ Len(out_acks[p]) \in Nat
      BY <3>1, <2>4, AppendProperties, LenProperties
    <3>3. ASSUME NEW j \in 1..Len(net[p]), NEW x \in 1..Len(net[p][j].acks),
                 NEW y \in 1..Len(out_acks'[p])
          PROVE  net[p][j].acks[x].body <= out_acks'[p][y].body
      <4>1. CASE y \in 1..Len(out_acks[p])
        BY <4>1, <3>2, <2>2
      <4>2. CASE y = Len(out_acks[p]) + 1
        <5>1. AckOK(q, net[p][j].acks[x]) /\ net[p][j].acks[x] \in Message
          BY <2>1, <3>1, <1>1, PacketFacts, ElementOfSeq DEF AcksOK
        <5>2. net[p][j].acks[x].body \in Nat /\ net[p][j].acks[x].body <= last_seen_body[q]
          BY <5>1 DEF AckOK, Message
        <5>3. out_acks'[p][y] = a
          BY <4>2, <3>2
        <5>4. last_seen_body[q] \in Nat /\ last_seen_body[q] < a.body /\ a.body \in Nat
          BY <3>1, <2>4, <1>7
        <5> QED BY ONLY <5>2, <5>3, <5>4
      <4> QED BY <4>1, <4>2, <3>2
    <3>4. net'[p] = net[p] /\ Peer(q) = p
      BY <1>1, <1>3
    <3> QED BY ONLY <2>2, <3>3, <3>4 DEF AcksOrdered
  <2> QED BY <2>3, <2>4, <1>8
<1>19. \A r \in Nodes : ReceiverOK(r)' /\ WriterOK(r)' /\ PacketsOK(r)' /\ AcksOK(r)' /\ AcksOrdered(r)'
  <2> SUFFICES ASSUME NEW r \in Nodes
               PROVE  ReceiverOK(r)' /\ WriterOK(r)' /\ PacketsOK(r)' /\ AcksOK(r)' /\ AcksOrdered(r)'
    OBVIOUS
  <2>1. CASE r = p
    BY <2>1, <1>8, <1>11, <1>13, <1>15, <1>16
  <2>2. CASE r = q
    BY <2>2, <1>8, <1>12, <1>14, <1>17, <1>18
  <2> QED BY <2>1, <2>2, <1>1
<1> QED BY <1>19 DEF IInv

LEMMA UnchangedKeepsIInv ==
    ASSUME IInv, TypeInv',
           UNCHANGED <<id_counter, out_reliable, out_acks, last_seen_id, net,
                       written, delivered, first_id, last_seen_body>>
    PROVE  IInv'
<1> SUFFICES ASSUME NEW p \in Nodes
             PROVE  ReceiverOK(p)' /\ WriterOK(p)' /\ PacketsOK(p)' /\ AcksOK(p)' /\ AcksOrdered(p)'
  BY DEF IInv
<1>1. ReceiverOK(p) /\ WriterOK(p) /\ PacketsOK(p) /\ AcksOK(p) /\ AcksOrdered(p)
  BY IInvFacts
<1>2. ReceiverOK(p)' /\ WriterOK(p)'
  BY <1>1 DEF ReceiverOK, WriterOK, Numbered, Unacked
<1>3. PacketsOK(p)'
  BY <1>1 DEF PacketsOK, PacketOK, Numbered
<1>4. AcksOK(p)'
  <2>1. net' = net /\ out_acks' = out_acks /\ \A a : AckOK(p, a) <=> AckOK(p, a)'
    BY DEF AckOK, Numbered, Unacked
  <2> QED BY <1>1, <2>1 DEF AcksOK
<1>5. AcksOrdered(p)'
  <2>1. net' = net /\ out_acks' = out_acks
    OBVIOUS
  <2> QED BY ONLY <1>1, <2>1 DEF AcksOrdered
<1> QED BY <1>2, <1>3, <1>4, <1>5

LEMMA NextIInv ==
    ASSUME SafeUse
    PROVE  IInv /\ [Next]_vars => IInv'
<1> SUFFICES ASSUME IInv, [Next]_vars PROVE IInv'
  OBVIOUS
<1>1. TypeInv'
  BY IInvFacts, NextTypeInv DEF IInv
<1>2. CASE UNCHANGED vars
  <2>1. UNCHANGED <<id_counter, out_reliable, out_acks, last_seen_id, net,
                    written, delivered, first_id, last_seen_body>>
    BY <1>2 DEF vars, managerVars, historyVars
  <2> QED BY <1>1, <2>1, UnchangedKeepsIInv
<1>3. ASSUME NEW p \in Nodes, WriteReliable(p) PROVE IInv'
  BY <1>3, WriteReliableIInv
<1>4. ASSUME NEW p \in Nodes, WriteLossy(p) PROVE IInv'
  <2>1. UNCHANGED <<id_counter, out_reliable, out_acks, last_seen_id, net,
                    written, delivered, first_id, last_seen_body>>
    BY <1>4 DEF WriteLossy, historyVars
  <2> QED BY <1>1, <2>1, UnchangedKeepsIInv
<1>5. ASSUME NEW p \in Nodes, CraftSendPacket(p) PROVE IInv'
  BY <1>5, CraftSendPacketIInv
<1>6. ASSUME NEW p \in Nodes, Deliver(p) PROVE IInv'
  BY <1>1, <1>6, DeliverIInv
<1>7. ASSUME NEW p \in Nodes, Lose(p) PROVE IInv'
  BY <1>1, <1>7, LoseIInv
<1>8. ASSUME NEW p \in Nodes, Duplicate(p) PROVE FALSE
  BY <1>8 DEF Duplicate, SafeUse
<1>9. ASSUME NEW p \in Nodes, NEW k \in 2..Len(net[Peer(p)]), Overtake(p, k) PROVE FALSE
  BY <1>9 DEF Overtake, SafeUse
<1> QED BY <1>2, <1>3, <1>4, <1>5, <1>6, <1>7, <1>8, <1>9 DEF Next

-----------------------------------------------------------------------------
(* The theorems *)

\* Used within half of the id space over a path that only loses packets, the
\* ids on the path always lie within half the id space around what the receiver
\* has seen (is_new_message, is_acked).
THEOREM InvariantHolds == SafeUse => (Spec => []IInv)
<1> SUFFICES ASSUME SafeUse PROVE Spec => []IInv
  OBVIOUS
<1> QED BY InitIInv, NextIInv, PTL DEF Spec

LEMMA DeliveredIsPrefix ==
    ASSUME IInv, NEW p \in Nodes
    PROVE  /\ written[p] \in Nat /\ written[p] <= MaxWrites[p] /\ MaxWrites[p] \in Nat
           /\ last_seen_body[p] \in Nat /\ last_seen_body[p] <= written[p]
           /\ \A b \in 1..MaxWrites[p] :
                 delivered[p][b] = IF b <= last_seen_body[p] THEN 1 ELSE 0
BY IInvFacts, TypeFacts DEF ReceiverOK

LEMMA IInvImpliesSafety == IInv => AtMostOnce /\ NoReliableLoss /\ NoGaps
<1> SUFFICES ASSUME IInv, NEW p \in Nodes, NEW b \in 1..written[p]
             PROVE  /\ delivered[p][b] <= 1
                    /\ delivered[p][b] = 0 => b \in Bodies(out_reliable[p])
                    /\ b > 1 /\ delivered[p][b] > 0 => delivered[p][b - 1] > 0
  <2>1. \A q \in Nodes : 2..written[q] \subseteq 1..written[q] /\ \A c \in 2..written[q] : c > 1
    BY DeliveredIsPrefix
  <2> QED BY <2>1 DEF AtMostOnce, NoReliableLoss, NoGaps
<1>1. /\ b \in 1..MaxWrites[p] /\ b \in Nat
      /\ b > 1 => b - 1 \in 1..MaxWrites[p]
  BY DeliveredIsPrefix
<1>2. delivered[p][b] <= 1
  BY <1>1, DeliveredIsPrefix
<1>3. ASSUME delivered[p][b] = 0 PROVE b \in Bodies(out_reliable[p])
  <2>1. b \in (last_seen_body[p] + 1)..written[p]
    BY <1>1, <1>3, DeliveredIsPrefix
  <2> QED BY <2>1, IInvFacts DEF WriterOK, Unacked
<1>4. ASSUME b > 1, delivered[p][b] > 0 PROVE delivered[p][b - 1] > 0
  <2>1. b <= last_seen_body[p]
    BY <1>1, <1>4, DeliveredIsPrefix
  <2>2. b - 1 <= last_seen_body[p] /\ b - 1 \in 1..MaxWrites[p]
    BY <2>1, <1>1, <1>4, DeliveredIsPrefix
  <2> QED BY <2>2, DeliveredIsPrefix
<1> QED BY <1>2, <1>3, <1>4

\* A reliable message is handed to the other end at most once, however often
\* CraftSendPacket repeats it (HandleReceivedPacket ignores what is not new).
THEOREM AtMostOnceHolds == SafeUse => (Spec => []AtMostOnce)
<1> SUFFICES ASSUME SafeUse PROVE Spec => []AtMostOnce
  OBVIOUS
<1> QED BY InvariantHolds, IInvImpliesSafety, PTL

\* ProcessAck never drops a message that the other end has not handled.
THEOREM NoReliableLossHolds == SafeUse => (Spec => []NoReliableLoss)
<1> SUFFICES ASSUME SafeUse PROVE Spec => []NoReliableLoss
  OBVIOUS
<1> QED BY InvariantHolds, IInvImpliesSafety, PTL

\* When a message has been handled, so have all those written before it.
THEOREM NoGapsHolds == SafeUse => (Spec => []NoGaps)
<1> SUFFICES ASSUME SafeUse PROVE Spec => []NoGaps
  OBVIOUS
<1> QED BY InvariantHolds, IInvImpliesSafety, PTL

-----------------------------------------------------------------------------
(* Refinement *)

LEMMA InitRefines == Init => Abstract!Init
<1> SUFFICES ASSUME Init PROVE Abstract!Init
  OBVIOUS
<1>1. [p \in Nodes |-> Bodies(out_reliable[p])] = [p \in Nodes |-> {}]
  BY DEF Init, Bodies
<1> QED BY <1>1 DEF Init, Abstract!Init, Nodes, Abstract!Nodes

LEMMA WriteReliableRefines ==
    ASSUME TypeInv, NEW p \in Nodes, WriteReliable(p)
    PROVE  Abstract!Write(p)
<1> DEFINE m == [body |-> written[p] + 1, seq |-> id_counter[p]]
           unacked == [q \in Nodes |-> Bodies(out_reliable[q])]
<1>1. /\ out_reliable \in [Nodes -> SUBSET Message]
      /\ out_reliable' = [out_reliable EXCEPT ![p] = @ \cup {m}]
  BY DEF TypeInv, TypeOK, WriteReliable
<1>2. Bodies(out_reliable[p] \cup {m}) = Bodies(out_reliable[p]) \cup {written[p] + 1}
  <2>1. Bodies(out_reliable[p] \cup {m}) = Bodies(out_reliable[p]) \cup {m.body}
    BY Zenon DEF Bodies
  <2> QED BY <2>1
<1> HIDE DEF m
<1>3. [q \in Nodes |-> Bodies(out_reliable'[q])]
         = [unacked EXCEPT ![p] = @ \cup {written[p] + 1}]
  BY <1>1, <1>2
<1>4. unacked' = [q \in Nodes |-> Bodies(out_reliable'[q])]
  BY DEF Bodies
<1>5. /\ written[p] < MaxWrites[p]
      /\ written' = [written EXCEPT ![p] = @ + 1]
      /\ UNCHANGED delivered
  BY DEF WriteReliable
<1> QED BY <1>3, <1>4, <1>5 DEF Abstract!Write, Bodies

\* Handling a packet that is readable is a transfer up to the newest message
\* accepted, provided that what was not handled stays in the queue.
LEMMA HandlingRefines ==
    ASSUME TypeInv, FirstIdsInRange, NEW p \in Nodes, NEW pack \in Packet,
           Readable(Peer(p), pack), HandleReceivedPacket(p, pack), ReceiverOK(p),
           (last_seen_body[p] + 1)..written[p] \subseteq Bodies(out_reliable'[p])
    PROVE  \E n \in 0..written[Peer(p)], acked \in SUBSET Unacked(p) :
              Abstract!Transfer(p, n, acked)
<1> DEFINE q == Peer(p)
           n == last_seen_body'[q]
           acked == Unacked(p) \ Bodies(out_reliable'[p])
           unacked == [r \in Nodes |-> Bodies(out_reliable[r])]
<1>1. /\ q \in Nodes /\ q # p /\ \A r \in Nodes : r = p \/ r = q
      /\ Abstract!Peer(p) = q
  BY PeerIsNode DEF Nodes, Peer, Abstract!Peer
<1>2. /\ UNCHANGED written
      /\ out_reliable' = [out_reliable EXCEPT ![p] = ProcessAcks(@, pack.acks)]
      /\ delivered' = [delivered EXCEPT ![q] =
            [b \in DOMAIN @ |-> IF b \in Bodies(Fresh(p, pack)) THEN @[b] + 1 ELSE @[b]]]
  BY DEF HandleReceivedPacket
<1>3. /\ out_reliable \in [Nodes -> SUBSET Message]
      /\ DOMAIN delivered = Nodes /\ delivered[q] \in [1..MaxWrites[q] -> Nat]
      /\ MaxWrites[q] \in Nat /\ written[q] \in Nat /\ written[q] <= MaxWrites[q]
      /\ last_seen_body[q] \in Nat
  <2>1. out_reliable \in [Nodes -> SUBSET Message] /\ DOMAIN delivered = Nodes
    BY DEF TypeInv, TypeOK
  <2> QED BY <2>1, <1>1, TypeFacts
<1>4. /\ n \in Nat /\ last_seen_body[q] <= n /\ ReceiverOK(q)'
  BY DeliverReceiver
<1> HIDE DEF q
<1>5. n \in 0..written[q]
  BY <1>2, <1>3, <1>4 DEF ReceiverOK
<1>6. ASSUME NEW b \in acked PROVE delivered[p][b] = 1
  <2>1. PICK m \in out_reliable[p] : m.body = b
    BY <1>6 DEF Unacked, Bodies
  <2>2. /\ b \in Nat \ {0} /\ b <= written[p] /\ written[p] <= MaxWrites[p]
        /\ written[p] \in Nat /\ last_seen_body[p] \in Nat /\ MaxWrites[p] \in Nat
    BY <2>1, TypeFacts DEF BodiesBounded, Message
  <2>3. b \notin (last_seen_body[p] + 1)..written[p]
    BY <1>6
  <2>4. b \in 1..MaxWrites[p] /\ b <= last_seen_body[p]
    BY <2>2, <2>3
  <2> QED BY <2>4 DEF ReceiverOK
<1>7. delivered' = [delivered EXCEPT ![q] =
                      [b \in DOMAIN @ |-> IF b <= n /\ @[b] = 0 THEN 1 ELSE @[b]]]
  <2>1. ASSUME NEW b \in 1..MaxWrites[q]
        PROVE  delivered'[q][b] = IF b <= n /\ delivered[q][b] = 0 THEN 1 ELSE delivered[q][b]
    <3>1. delivered[q][b] = IF b <= last_seen_body[q] THEN 1 ELSE 0
      BY DEF Readable, ReceiverOK, q
    <3>2. delivered'[q][b] = IF b <= n THEN 1 ELSE 0
      BY <1>4 DEF ReceiverOK
    <3> HIDE DEF n
    <3> QED BY <3>1, <3>2, <1>3, <1>4
  <2>2. /\ DOMAIN delivered[q] = 1..MaxWrites[q]
        /\ delivered'[q] = [b \in 1..MaxWrites[q] |->
              IF b \in Bodies(Fresh(p, pack)) THEN delivered[q][b] + 1 ELSE delivered[q][b]]
    BY <1>1, <1>2, <1>3
  <2>3. delivered'[q] = [b \in DOMAIN delivered[q] |->
                           IF b <= n /\ delivered[q][b] = 0 THEN 1 ELSE delivered[q][b]]
    <3> HIDE DEF n
    <3> QED BY <2>1, <2>2
  <2> QED BY <2>3, <1>1, <1>2, <1>3
<1>8. unacked' = [unacked EXCEPT ![p] = @ \ acked]
  <2>1. unacked' = [r \in Nodes |-> Bodies(out_reliable'[r])]
    BY DEF Bodies
  <2>2. Bodies(out_reliable'[p]) = Unacked(p) \ acked
    <3>1. out_reliable'[p] \subseteq out_reliable[p]
      BY <1>2, <1>3 DEF ProcessAcks
    <3> QED BY <3>1 DEF Unacked, Bodies
  <2>3. \A r \in Nodes \ {p} : out_reliable'[r] = out_reliable[r]
    BY <1>2, <1>3
  <2> HIDE DEF acked
  <2> QED BY <2>1, <2>2, <2>3 DEF Unacked
<1>9. Abstract!Transfer(p, n, acked)
  <2> HIDE DEF n, acked
  <2> QED BY <1>1, <1>2, <1>6, <1>7, <1>8 DEF Abstract!Transfer, Bodies
<1> QED BY <1>5, <1>9 DEF q

\* Whichever packet of a path is handled, that is a transfer.
HandlingIsTransfer ==
    \A p \in Nodes : \A k \in 1..Len(net[Peer(p)]) :
        HandleReceivedPacket(p, net[Peer(p)][k]) =>
            \E n \in 0..written[Peer(p)], acked \in SUBSET Unacked(p) :
                Abstract!Transfer(p, n, acked)

LEMMA SafeHandling ==
    ASSUME IInv, IInv', SafeUse
    PROVE  HandlingIsTransfer
<1> SUFFICES ASSUME NEW p \in Nodes, NEW k \in 1..Len(net[Peer(p)]),
                    HandleReceivedPacket(p, net[Peer(p)][k])
             PROVE  \E n \in 0..written[Peer(p)], acked \in SUBSET Unacked(p) :
                        Abstract!Transfer(p, n, acked)
  BY DEF HandlingIsTransfer
<1>1. PacketOK(Peer(p), net[Peer(p)][k])
  BY PeerIsNode, IInvFacts DEF PacketsOK
<1>2. /\ net[Peer(p)][k] \in Packet
      /\ FirstIdsInRange /\ Readable(Peer(p), net[Peer(p)][k])
  BY <1>1, PeerIsNode, IInvFacts, PacketFromPath, PacketIsReadable
<1>3. (last_seen_body[p] + 1)..written[p] \subseteq Bodies(out_reliable'[p])
  <2>1. last_seen_body'[p] = last_seen_body[p] /\ written' = written
    BY <1>2, IInvFacts, DeliverReceiver DEF HandleReceivedPacket
  <2>2. WriterOK(p)'
    BY DEF IInv
  <2> QED BY <2>1, <2>2 DEF WriterOK, Unacked, Bodies
<1> QED BY <1>2, <1>3, IInvFacts, HandlingRefines

\* Every step is a step of the abstract channel or leaves it alone.
LEMMA NextRefines ==
    ASSUME TypeInv, HandlingIsTransfer, [Next]_vars
    PROVE  Abstract!Next \/ UNCHANGED Abstract!vars
<1> DEFINE unacked == [q \in Nodes |-> Bodies(out_reliable[q])]
<1>1. ASSUME UNCHANGED <<out_reliable, written, delivered>>
      PROVE  UNCHANGED Abstract!vars
  <2>1. unacked' = unacked
    BY <1>1 DEF Bodies
  <2> QED BY <1>1, <2>1 DEF Abstract!vars, Bodies
<1>2. CASE UNCHANGED vars
  BY <1>1, <1>2 DEF vars, managerVars, historyVars
<1>3. CASE Next
  <2>1. PICK p \in Nodes :
          \/ WriteReliable(p)
          \/ WriteLossy(p)
          \/ CraftSendPacket(p)
          \/ Deliver(p)
          \/ Lose(p)
          \/ Duplicate(p)
          \/ \E k \in 2..Len(net[Peer(p)]) : Overtake(p, k)
    BY <1>3 DEF Next
  <2>2. p \in Abstract!Nodes /\ Abstract!Peer(p) = Peer(p) /\ Peer(p) \in Abstract!Nodes
    BY <2>1 DEF Nodes, Abstract!Nodes, Peer, Abstract!Peer
  <2>3. CASE WriteReliable(p)
    <3>1. Abstract!Write(p)
      BY <2>1, <2>3, WriteReliableRefines DEF IInv
    <3> QED BY <3>1, <2>2 DEF Abstract!Next
  <2>4. CASE WriteLossy(p)
    BY <2>4, <1>1 DEF WriteLossy, historyVars
  <2>5. CASE CraftSendPacket(p)
    BY <2>5, <1>1 DEF CraftSendPacket, historyVars
  <2>6. ASSUME NEW k \in 1..Len(net[Peer(p)]), HandleReceivedPacket(p, net[Peer(p)][k])
        PROVE  Abstract!Next
    <3>1. PICK n \in 0..written[Peer(p)], acked \in SUBSET Unacked(p) :
            Abstract!Transfer(p, n, acked)
      BY <2>1, <2>6 DEF HandlingIsTransfer
    <3>2. unacked[p] = Unacked(p)
      BY <2>1 DEF Unacked
    <3>3. acked \in SUBSET unacked[p]
      BY <3>1, <3>2
    <3> QED BY <3>1, <3>3, <2>2 DEF Abstract!Next, Bodies
  <2>7. CASE Lose(p)
    BY <2>7, <1>1 DEF Lose, managerVars, historyVars
  <2>8. net[Peer(p)] \in Seq(Packet) /\ Len(net[Peer(p)]) \in Nat
    BY <2>1, PeerIsNode, TypeFacts, LenProperties
  <2>9. CASE Deliver(p) \/ Duplicate(p)
    <3>1. net[Peer(p)] # <<>> /\ HandleReceivedPacket(p, Head(net[Peer(p)]))
      BY <2>9 DEF Deliver, Duplicate
    <3>2. Head(net[Peer(p)]) = net[Peer(p)][1] /\ 1 \in 1..Len(net[Peer(p)])
      BY <2>8, <3>1, EmptySeq
    <3> QED BY <2>6, <3>1, <3>2
  <2>10. CASE \E k \in 2..Len(net[Peer(p)]) : Overtake(p, k)
    <3>1. PICK k \in 2..Len(net[Peer(p)]) : HandleReceivedPacket(p, net[Peer(p)][k])
      BY <2>10 DEF Overtake
    <3>2. k \in 1..Len(net[Peer(p)])
      BY <2>8
    <3> QED BY <2>6, <3>1, <3>2
  <2> QED BY <2>1, <2>3, <2>4, <2>5, <2>7, <2>9, <2>10
<1> QED BY <1>2, <1>3

\* Two managers over a path that loses packets implement the reliable channel:
\* no retransmission, lost packet or late acknowledgement can be told from the
\* outside, for any number of messages.
THEOREM ChannelRefines == SafeUse => (Spec => ImplementsReliableChannel)
<1> SUFFICES ASSUME SafeUse PROVE Spec => ImplementsReliableChannel
  OBVIOUS
<1>1. IInv /\ IInv' /\ [Next]_vars => [Abstract!Next]_(Abstract!vars)
  BY SafeHandling, NextRefines DEF IInv
<1> QED BY <1>1, InvariantHolds, InitRefines, PTL DEF Spec, ImplementsReliableChannel, Abstract!Spec
=============================================================================
