--------------------------- MODULE JoinGameProofs ---------------------------
(***************************************************************************)
(* Proofs about JoinGame, for any clients, limits, bases and attempts: the *)
(* types, RefusedWhenFull, EarlierPlayersKnown and OwnPlayer.              *)
(***************************************************************************)
EXTENDS JoinGame, DataLemmas

-----------------------------------------------------------------------------
(* One channel: K is the set of its messages, w what was written, s how    *)
(* many were seen, t the packets under way, b those that wait              *)

IsChannel(K, w, s, t, b) ==
    /\ w \in Seq(K) /\ b \in Seq(K)
    /\ s \in 0..Len(w) /\ t \in SUBSET ((s + 1)..Len(w))
    /\ \E lo \in Nat :
        /\ lo + Len(b) <= s
        /\ \A j \in 1..Len(b) : b[j] = w[lo + Len(b) + 1 - j]

LEMMA ChannelWrite ==
    ASSUME NEW K, NEW w, NEW s, NEW t, NEW b, IsChannel(K, w, s, t, b), NEW q \in Seq(K)
    PROVE  /\ IsChannel(K, w \o q, s, t, b)
           /\ Len(w) \in Nat /\ Len(q) \in Nat /\ Len(w \o q) = Len(w) + Len(q)
           /\ \A k \in 1..Len(w) : (w \o q)[k] = w[k]
           /\ \A k \in 1..Len(q) : (w \o q)[Len(w) + k] = q[k]
           /\ \A k \in 1..Len(w \o q) : k > Len(w) => k - Len(w) \in 1..Len(q)
<1>1. w \in Seq(K) /\ b \in Seq(K) /\ s \in 0..Len(w) /\ t \in SUBSET ((s + 1)..Len(w))
    BY DEF IsChannel
<1>2. /\ w \o q \in Seq(K)
      /\ Len(w) \in Nat /\ Len(q) \in Nat /\ Len(b) \in Nat /\ Len(w \o q) = Len(w) + Len(q)
      /\ \A k \in 1..Len(w) : (w \o q)[k] = w[k]
      /\ \A k \in 1..Len(q) : (w \o q)[Len(w) + k] = q[k]
    BY <1>1
<1>3. s \in 0..Len(w \o q) /\ t \in SUBSET ((s + 1)..Len(w \o q))
    BY <1>1, <1>2
<1>4. PICK lo \in Nat : /\ lo + Len(b) <= s
                        /\ \A j \in 1..Len(b) : b[j] = w[lo + Len(b) + 1 - j]
    BY DEF IsChannel
<1>5. \A j \in 1..Len(b) : b[j] = (w \o q)[lo + Len(b) + 1 - j]
    <2>1. \A j \in 1..Len(b) : lo + Len(b) + 1 - j \in 1..Len(w)
        BY <1>1, <1>2, <1>4
    <2> QED
        BY <2>1, <1>2, <1>4
<1>6. IsChannel(K, w \o q, s, t, b)
    BY <1>1, <1>2, <1>3, <1>4, <1>5 DEF IsChannel
<1> QED
    BY <1>2, <1>6

LEMMA ChannelSend ==
    ASSUME NEW K, NEW w, NEW s, NEW t, NEW b, IsChannel(K, w, s, t, b), Len(w) > s
    PROVE  IsChannel(K, w, s, t \cup {Len(w)}, b)
<1>1. Len(w) \in Nat /\ s \in Nat /\ t \in SUBSET ((s + 1)..Len(w))
    BY DEF IsChannel
<1>2. Len(w) \in (s + 1)..Len(w)
    BY <1>1
<1>3. t \cup {Len(w)} \in SUBSET ((s + 1)..Len(w))
    BY <1>1, <1>2
<1> QED
    BY <1>3 DEF IsChannel

LEMMA ReverseTurns ==
    ASSUME NEW K, NEW r \in Seq(K)
    PROVE  /\ Reverse(r) \in Seq(K) /\ Len(Reverse(r)) = Len(r)
           /\ \A j \in 1..Len(r) : Reverse(r)[j] = r[(Len(r) - j) + 1]
<1>1. Len(r) \in Nat /\ \A j \in 1..Len(r) : (Len(r) - j) + 1 \in 1..Len(r)
    OBVIOUS
<1>2. Reverse(r) \in [1..Len(r) -> K]
    BY <1>1 DEF Reverse
<1> QED
    BY <1>1, <1>2 DEF Reverse

LEMMA ChannelReceive ==
    ASSUME NEW K, NEW w, NEW s, NEW t, NEW b, IsChannel(K, w, s, t, b), NEW n \in t
    PROVE  LET new == Reverse(SubSeq(w, s + 1, n))
           IN  /\ IsChannel(K, w, n, {k \in t : k > n}, new)
               /\ n \in 1..Len(w) /\ Len(new) = n - s
               /\ \A j \in 1..Len(new) : new[j] = w[n + 1 - j] /\ n + 1 - j \in (s + 1)..n
<1> DEFINE new == Reverse(SubSeq(w, s + 1, n))
<1>1. /\ w \in Seq(K) /\ Len(w) \in Nat /\ s \in 0..Len(w) /\ t \in SUBSET ((s + 1)..Len(w))
      /\ n \in (s + 1)..Len(w)
    BY DEF IsChannel
<1>2. /\ SubSeq(w, s + 1, n) \in Seq(K) /\ Len(SubSeq(w, s + 1, n)) = n - s
      /\ \A k \in 1..(n - s) : SubSeq(w, s + 1, n)[k] = w[s + k]
    BY <1>1
<1>3. n - s \in Nat
    BY <1>1
<1>4. /\ new \in Seq(K) /\ Len(new) = n - s
      /\ \A j \in 1..(n - s) : new[j] = SubSeq(w, s + 1, n)[(n - s - j) + 1]
    <2> DEFINE r == SubSeq(w, s + 1, n)
    <2>1. r \in Seq(K) /\ Len(r) = n - s /\ new = Reverse(r)
        BY <1>2
    <2> HIDE DEF r, new
    <2>2. /\ new \in Seq(K) /\ Len(new) = n - s
          /\ \A j \in 1..(n - s) : new[j] = r[(n - s - j) + 1]
        BY <2>1, ReverseTurns
    <2> QED
        BY <2>2 DEF r
<1>5. \A j \in 1..(n - s) : new[j] = w[n + 1 - j] /\ n + 1 - j \in (s + 1)..n
    <2> SUFFICES ASSUME NEW j \in 1..(n - s)
                 PROVE  new[j] = w[n + 1 - j] /\ n + 1 - j \in (s + 1)..n
        OBVIOUS
    <2>1. (n - s - j) + 1 \in 1..(n - s) /\ s + ((n - s - j) + 1) = n + 1 - j
        BY <1>1, <1>3
    <2>2. n + 1 - j \in (s + 1)..n
        BY <1>1, <1>3
    <2> QED
        BY <2>1, <2>2, <1>2, <1>4
<1> HIDE DEF new
<1>6. IsChannel(K, w, n, {k \in t : k > n}, new)
    <2>1. n \in 0..Len(w) /\ {k \in t : k > n} \in SUBSET ((n + 1)..Len(w))
        <3>1. \A k \in t : k > n => k \in (n + 1)..Len(w)
            BY <1>1
        <3>2. {k \in t : k > n} \in SUBSET ((n + 1)..Len(w))
            BY <3>1
        <3>3. n \in 0..Len(w)
            BY <1>1
        <3> QED
            BY <3>2, <3>3
    <2>2. s \in Nat /\ s + Len(new) <= n
        BY <1>1, <1>4
    <2>3. \A j \in 1..Len(new) : new[j] = w[s + Len(new) + 1 - j]
        <3>1. \A j \in 1..Len(new) : s + Len(new) + 1 - j = n + 1 - j
            BY <1>1, <1>4
        <3> QED
            BY <3>1, <1>4, <1>5
    <2> QED
        BY <2>1, <2>2, <2>3, <1>1, <1>4 DEF IsChannel
<1>7. n \in 1..Len(w)
    BY <1>1
<1> QED
    BY <1>4, <1>5, <1>6, <1>7 DEF new

\* What waits was written.
LEMMA ChannelElements ==
    ASSUME NEW K, NEW w, NEW s, NEW t, NEW b, IsChannel(K, w, s, t, b)
    PROVE  \A j \in 1..Len(b) : \E k \in 1..Len(w) : k <= s /\ b[j] = w[k]
<1>1. Len(w) \in Nat /\ Len(b) \in Nat /\ s \in 0..Len(w)
    BY DEF IsChannel
<1>2. PICK lo \in Nat : /\ lo + Len(b) <= s
                        /\ \A j \in 1..Len(b) : b[j] = w[lo + Len(b) + 1 - j]
    BY DEF IsChannel
<1>3. \A j \in 1..Len(b) : lo + Len(b) + 1 - j \in 1..Len(w) /\ lo + Len(b) + 1 - j <= s
    BY <1>1, <1>2
<1> QED
    BY <1>2, <1>3

LEMMA ChannelRead ==
    ASSUME NEW K, NEW w, NEW s, NEW t, NEW b, IsChannel(K, w, s, t, b), b # <<>>
    PROVE  /\ IsChannel(K, w, s, t, Tail(b))
           /\ Len(b) \in Nat \ {0} /\ Head(b) = b[1] /\ Len(Tail(b)) = Len(b) - 1
           /\ \A j \in 1..Len(Tail(b)) : Tail(b)[j] = b[j + 1] /\ j + 1 \in 1..Len(b)
<1>1. b \in Seq(K)
    BY DEF IsChannel
<1>2. /\ Tail(b) \in Seq(K) /\ Len(b) \in Nat /\ Len(b) # 0
      /\ Len(Tail(b)) = Len(b) - 1 /\ Head(b) = b[1]
      /\ \A j \in 1..(Len(b) - 1) : Tail(b)[j] = b[j + 1]
    BY <1>1
<1>3. PICK lo \in Nat : /\ lo + Len(b) <= s
                        /\ \A j \in 1..Len(b) : b[j] = w[lo + Len(b) + 1 - j]
    BY DEF IsChannel
<1>4. s \in Nat
    BY DEF IsChannel
<1>5. lo + Len(Tail(b)) <= s
    BY <1>2, <1>3, <1>4
<1>6. \A j \in 1..Len(Tail(b)) : Tail(b)[j] = w[lo + Len(Tail(b)) + 1 - j]
    <2> SUFFICES ASSUME NEW j \in 1..Len(Tail(b))
                 PROVE  Tail(b)[j] = w[lo + Len(Tail(b)) + 1 - j]
        OBVIOUS
    <2>1. j + 1 \in 1..Len(b) /\ j \in 1..(Len(b) - 1)
        BY <1>2
    <2>2. lo + Len(b) + 1 - (j + 1) = lo + Len(Tail(b)) + 1 - j
        BY <1>2, <1>3
    <2> QED
        BY <2>1, <2>2, <1>2, <1>3
<1>7. IsChannel(K, w, s, t, Tail(b))
    BY <1>2, <1>5, <1>6 DEF IsChannel
<1> QED
    BY <1>2, <1>7

-----------------------------------------------------------------------------
(* The invariant *)

Ends == {"up", "down"}

Requests == {GetServerInfo, RequestJoinGame, SyncWorld}

Answers ==
    [type : {"SERVER_INFO"}, number_of_players : PlayerIds \cup {0}]
    \cup [type : {"ACCEPT_JOIN"}, client_id : PlayerIds]
    \cup {DenyJoin}
    \cup [type : {"PLAYER_INFO", "PLAYER_JOINS"}, client_id : PlayerIds, team : Teams]
    \cup [type : {"OBJECT_SPAWN"}, id : Bases]

Kind(d) == IF d = "up" THEN Requests ELSE Answers

Shapes ==
    /\ written \in [Ends -> [Clients -> Seq(Requests \cup Answers)]]
    /\ inbound \in [Ends -> [Clients -> Seq(Requests \cup Answers)]]
    /\ seen \in [Ends -> [Clients -> Nat]]
    /\ sent \in [Ends -> [Clients -> SUBSET Nat]]

Channel(d, c) == IsChannel(Kind(d), written[d][c], seen[d][c], sent[d][c], inbound[d][c])

ChannelsOK == Shapes /\ \A d \in Ends, c \in Clients : Channel(d, c)

\* Ids are given out from 1 on, within the limit.
ServerOK ==
    /\ max_clients \in Limits
    /\ instances \in [PlayerIds -> [client : Clients, team : Teams] \cup {Null}]
    /\ client_id \in [Clients -> PlayerIds \cup {0}]
    /\ IsFiniteSet(Players) /\ Cardinality(Players) <= max_clients
    /\ \A i \in Players, j \in PlayerIds : j < i => j \in Players

\* What an answer says to c is so, with these players and this limit.
TrueOf(players, records, limit, c, m) ==
    /\ m.type = "SERVER_INFO" => m.number_of_players <= Cardinality(players)
    /\ m.type = "DENY_JOIN" => Cardinality(players) >= limit
    /\ m.type = "ACCEPT_JOIN" => m.client_id \in players /\ records[m.client_id].client = c
    /\ m.type \in {"PLAYER_INFO", "PLAYER_JOINS"} =>
        m.client_id \in players /\ records[m.client_id].team = m.team

\* It is so now, and after a step.
IsTrue(c, m) == TrueOf(Players, instances, max_clients, c, m)
NextTrue(c, m) == TrueOf(Players', instances', max_clients', c, m)

AnswersTrue ==
    \A c \in Clients : \A k \in 1..Len(written["down"][c]) : IsTrue(c, written["down"][c][k])

Told(c, i) == roster[c][i] = instances[i].team
Information(i) == PlayerInformation(i, instances[i].team)

\* An acceptance that has not arrived is followed by the information about all
\* earlier players, in the same packets.
InformationComes(c) ==
    \A k \in 1..Len(written["down"][c]) :
        k > seen["down"][c] /\ written["down"][c][k].type = "ACCEPT_JOIN" =>
            \A i \in Players : i < written["down"][c][k].client_id =>
                \E l \in 1..Len(written["down"][c]) :
                    /\ l > k /\ written["down"][c][l] = Information(i)
                    /\ \A n \in sent["down"][c] : n >= k => n >= l

\* An acceptance that waits for its handler has that information in front.
InformationFirst(c) ==
    \A j \in 1..Len(inbound["down"][c]) : inbound["down"][c][j].type = "ACCEPT_JOIN" =>
        \A i \in Players : i < inbound["down"][c][j].client_id =>
            \/ Told(c, i)
            \/ \E x \in 1..Len(inbound["down"][c]) :
                x < j /\ inbound["down"][c][x] = Information(i)

ClientStates ==
    {"S_INITIAL", "S_AWAITING_INFO", "S_RECEIVED_INFO", "S_JOINING_SERVER", "S_AWAITING_JOIN",
     "S_SERVER_FULL", "S_ACCEPTED", "S_DENIED", "S_TIMEOUT"}

ClientTypes ==
    /\ state \in [Clients -> ClientStates]
    /\ attempts \in [Clients -> 0..(MaxAttempts + 2)]
    /\ in_game \in [Clients -> BOOLEAN]
    /\ self \in [Clients -> PlayerIds \cup {0}]
    /\ roster \in [Clients -> [PlayerIds -> Teams \cup {NONE}]]
    /\ world \in [Clients -> SUBSET Bases]

\* What a client concluded from the answers is so.
ClientOK(c) ==
    /\ state[c] = "S_TIMEOUT" => inbound["down"][c] = <<>> /\ ~ in_game[c]
    /\ state[c] # "S_TIMEOUT" => attempts[c] <= MaxAttempts + 1
    /\ in_game[c] => state[c] = "S_ACCEPTED"
    /\ state[c] = "S_ACCEPTED" => self[c] # 0
    /\ state[c] = "S_DENIED" => Cardinality(Players) >= max_clients
    /\ state[c] = "S_SERVER_FULL" => Cardinality(Players) >= MAXPLAYERS
    /\ self[c] # 0 =>
        /\ self[c] \in Players /\ instances[self[c]].client = c
        /\ \A i \in Players : i < self[c] => Told(c, i)

Inv ==
    /\ ChannelsOK /\ ServerOK /\ AnswersTrue /\ ClientTypes
    /\ \A c \in Clients : ClientOK(c) /\ InformationComes(c) /\ InformationFirst(c)

-----------------------------------------------------------------------------
(* Steps of a channel *)

LEMMA Update ==
    ASSUME NEW X, NEW v \in [Ends -> [Clients -> X]], NEW d \in Ends, NEW c \in Clients,
           NEW e \in X, NEW u, u = [v EXCEPT ![d][c] = e]
    PROVE  /\ u \in [Ends -> [Clients -> X]] /\ u[d][c] = e
           /\ \A x \in Ends, y \in Clients : x # d \/ y # c => u[x][y] = v[x][y]
OBVIOUS

LEMMA KindsAreMessages == ASSUME NEW d \in Ends PROVE Seq(Kind(d)) \subseteq Seq(Requests \cup Answers)
<1>1. Kind(d) \subseteq Requests \cup Answers
    BY DEF Kind
<1> QED
    BY <1>1, SeqGrows

LEMMA ChannelShape ==
    ASSUME ChannelsOK, NEW d \in Ends, NEW c \in Clients
    PROVE  /\ Channel(d, c)
           /\ written[d][c] \in Seq(Kind(d)) /\ inbound[d][c] \in Seq(Kind(d))
           /\ Len(written[d][c]) \in Nat /\ Len(inbound[d][c]) \in Nat
           /\ seen[d][c] \in 0..Len(written[d][c])
           /\ sent[d][c] \in SUBSET ((seen[d][c] + 1)..Len(written[d][c]))
<1>1. /\ Channel(d, c)
      /\ written[d][c] \in Seq(Kind(d)) /\ inbound[d][c] \in Seq(Kind(d))
      /\ seen[d][c] \in 0..Len(written[d][c])
      /\ sent[d][c] \in SUBSET ((seen[d][c] + 1)..Len(written[d][c]))
    BY DEF ChannelsOK, Channel, IsChannel
<1> QED
    BY <1>1

LEMMA WriteStep ==
    ASSUME ChannelsOK, NEW d \in Ends, NEW c \in Clients, NEW q \in Seq(Kind(d)), Write(d, c, q),
           UNCHANGED <<seen, sent, inbound>>
    PROVE  /\ ChannelsOK' /\ written'[d][c] = written[d][c] \o q
           /\ \A x \in Ends, y \in Clients : x # d \/ y # c => written'[x][y] = written[x][y]
<1>1. written' = [written EXCEPT ![d][c] = written[d][c] \o q]
    BY DEF Write
<1>2. IsChannel(Kind(d), written[d][c] \o q, seen[d][c], sent[d][c], inbound[d][c])
    BY ChannelShape, ChannelWrite DEF Channel
<1>3. written[d][c] \o q \in Seq(Requests \cup Answers)
    BY <1>2, KindsAreMessages DEF IsChannel
<1>4. /\ written' \in [Ends -> [Clients -> Seq(Requests \cup Answers)]]
      /\ written'[d][c] = written[d][c] \o q
      /\ \A x \in Ends, y \in Clients : x # d \/ y # c => written'[x][y] = written[x][y]
    BY <1>1, <1>3, Update DEF ChannelsOK, Shapes
<1>5. \A x \in Ends, y \in Clients : Channel(x, y)'
    BY <1>2, <1>4 DEF ChannelsOK, Channel
<1> QED
    BY <1>4, <1>5 DEF ChannelsOK, Shapes

LEMMA SendStep ==
    ASSUME ChannelsOK, NEW d \in Ends, NEW c \in Clients, Send(d, c),
           UNCHANGED <<written, seen, inbound>>
    PROVE  /\ ChannelsOK' /\ sent'[d][c] = sent[d][c] \cup {Len(written[d][c])}
           /\ \A x \in Ends, y \in Clients : x # d \/ y # c => sent'[x][y] = sent[x][y]
<1> DEFINE t == sent[d][c] \cup {Len(written[d][c])}
<1>1. sent' = [sent EXCEPT ![d][c] = t]
    BY DEF Send
<1>2. IsChannel(Kind(d), written[d][c], seen[d][c], t, inbound[d][c])
    BY ChannelShape, ChannelSend DEF Channel, Send
<1>3. t \in SUBSET Nat
    BY ChannelShape DEF ChannelsOK, Shapes
<1> HIDE DEF t
<1>4. /\ sent' \in [Ends -> [Clients -> SUBSET Nat]] /\ sent'[d][c] = t
      /\ \A x \in Ends, y \in Clients : x # d \/ y # c => sent'[x][y] = sent[x][y]
    BY <1>1, <1>3, Update DEF ChannelsOK, Shapes
<1>5. \A x \in Ends, y \in Clients : Channel(x, y)'
    BY <1>2, <1>4 DEF ChannelsOK, Channel
<1> QED
    BY <1>4, <1>5 DEF ChannelsOK, Shapes, t

LEMMA ReceiveStep ==
    ASSUME ChannelsOK, NEW d \in Ends, NEW c \in Clients, NEW n, Receive(d, c, n),
           UNCHANGED written
    PROVE  /\ ChannelsOK' /\ n \in sent[d][c] /\ n \in 1..Len(written[d][c])
           /\ seen'[d][c] = n /\ sent'[d][c] = {k \in sent[d][c] : k > n}
           /\ Len(inbound'[d][c]) = n - seen[d][c]
           /\ \A j \in 1..Len(inbound'[d][c]) :
                /\ inbound'[d][c][j] = written[d][c][n + 1 - j]
                /\ n + 1 - j \in (seen[d][c] + 1)..n
           /\ \A x \in Ends, y \in Clients : x # d \/ y # c =>
                /\ seen'[x][y] = seen[x][y] /\ sent'[x][y] = sent[x][y]
                /\ inbound'[x][y] = inbound[x][y]
<1> DEFINE b == Reverse(SubSeq(written[d][c], seen[d][c] + 1, n))
           t == {k \in sent[d][c] : k > n}
<1>1. /\ n \in sent[d][c] /\ inbound' = [inbound EXCEPT ![d][c] = b]
      /\ seen' = [seen EXCEPT ![d][c] = n] /\ sent' = [sent EXCEPT ![d][c] = t]
    BY DEF Receive
<1>2. /\ IsChannel(Kind(d), written[d][c], n, t, b)
      /\ n \in 1..Len(written[d][c]) /\ Len(b) = n - seen[d][c]
      /\ \A j \in 1..Len(b) : b[j] = written[d][c][n + 1 - j] /\ n + 1 - j \in (seen[d][c] + 1)..n
    BY <1>1, ChannelShape, ChannelReceive DEF Channel
<1>3. b \in Seq(Requests \cup Answers) /\ t \in SUBSET Nat /\ n \in Nat
    <2>1. b \in Seq(Requests \cup Answers)
        BY <1>2, KindsAreMessages DEF IsChannel
    <2>2. t \in SUBSET Nat
        BY ChannelShape DEF ChannelsOK, Shapes
    <2> QED
        BY <2>1, <2>2, <1>2
<1> HIDE DEF b, t
<1>4. /\ sent' \in [Ends -> [Clients -> SUBSET Nat]] /\ sent'[d][c] = t
      /\ \A x \in Ends, y \in Clients : x # d \/ y # c => sent'[x][y] = sent[x][y]
    BY <1>1, <1>3, Update DEF ChannelsOK, Shapes
<1>5. /\ seen' \in [Ends -> [Clients -> Nat]] /\ seen'[d][c] = n
      /\ \A x \in Ends, y \in Clients : x # d \/ y # c => seen'[x][y] = seen[x][y]
    BY <1>1, <1>3, Update DEF ChannelsOK, Shapes
<1>6. /\ inbound' \in [Ends -> [Clients -> Seq(Requests \cup Answers)]] /\ inbound'[d][c] = b
      /\ \A x \in Ends, y \in Clients : x # d \/ y # c => inbound'[x][y] = inbound[x][y]
    BY <1>1, <1>3, Update DEF ChannelsOK, Shapes
<1>7. \A x \in Ends, y \in Clients : Channel(x, y)'
    BY <1>2, <1>4, <1>5, <1>6 DEF ChannelsOK, Channel
<1>8. ChannelsOK'
    BY <1>4, <1>5, <1>6, <1>7 DEF ChannelsOK, Shapes
<1> QED
    BY <1>1, <1>2, <1>4, <1>5, <1>6, <1>8 DEF t

\* What Read does to inbound, and what the message is that it takes.
LEMMA ReadStep ==
    ASSUME ChannelsOK, NEW d \in Ends, NEW c \in Clients, Read(d, c)
    PROVE  /\ inbound[d][c] # <<>> /\ inbound'[d][c] = Tail(inbound[d][c])
           /\ inbound' \in [Ends -> [Clients -> Seq(Requests \cup Answers)]]
           /\ IsChannel(Kind(d), written[d][c], seen[d][c], sent[d][c], inbound'[d][c])
           /\ Len(inbound[d][c]) \in Nat \ {0} /\ Head(inbound[d][c]) = inbound[d][c][1]
           /\ Head(inbound[d][c]) \in Kind(d)
           /\ \E k \in 1..Len(written[d][c]) : Head(inbound[d][c]) = written[d][c][k]
           /\ Len(inbound'[d][c]) = Len(inbound[d][c]) - 1
           /\ \A j \in 1..Len(inbound'[d][c]) :
                inbound'[d][c][j] = inbound[d][c][j + 1] /\ j + 1 \in 1..Len(inbound[d][c])
           /\ \A x \in Ends, y \in Clients : x # d \/ y # c => inbound'[x][y] = inbound[x][y]
<1> DEFINE b == inbound[d][c]
<1>1. b # <<>> /\ inbound' = [inbound EXCEPT ![d][c] = Tail(b)]
    BY DEF Read
<1>2. /\ IsChannel(Kind(d), written[d][c], seen[d][c], sent[d][c], Tail(b))
      /\ Len(b) \in Nat \ {0} /\ Head(b) = b[1] /\ Len(Tail(b)) = Len(b) - 1
      /\ \A j \in 1..Len(Tail(b)) : Tail(b)[j] = b[j + 1] /\ j + 1 \in 1..Len(b)
    BY <1>1, ChannelShape, ChannelRead DEF Channel
<1>3. Tail(b) \in Seq(Requests \cup Answers)
    BY <1>2, KindsAreMessages DEF IsChannel
<1>4. b \in Seq(Kind(d)) /\ 1 \in 1..Len(b)
    BY <1>2, ChannelShape
<1>5. Head(b) \in Kind(d) /\ \E k \in 1..Len(written[d][c]) : Head(b) = written[d][c][k]
    <2>1. b[1] \in Kind(d)
        BY <1>4
    <2>2. \E k \in 1..Len(written[d][c]) : b[1] = written[d][c][k]
        BY <1>4, ChannelShape, ChannelElements DEF Channel
    <2> QED
        BY <2>1, <2>2, <1>2
<1>6. /\ inbound' \in [Ends -> [Clients -> Seq(Requests \cup Answers)]] /\ inbound'[d][c] = Tail(b)
      /\ \A x \in Ends, y \in Clients : x # d \/ y # c => inbound'[x][y] = inbound[x][y]
    BY <1>1, <1>3, Update DEF ChannelsOK, Shapes
<1> QED
    BY <1>1, <1>2, <1>5, <1>6

\* The server writes the answers q[r] to each client r.
Answered(q) ==
    written' = [written EXCEPT !["down"] = [r \in Clients |-> written["down"][r] \o q[r]]]

LEMMA AnswerStep ==
    ASSUME ChannelsOK, NEW c \in Clients, Read("up", c), UNCHANGED <<seen, sent>>,
           NEW q \in [Clients -> Seq(Answers)], Answered(q)
    PROVE  /\ ChannelsOK' /\ written'["up"] = written["up"]
           /\ \A r \in Clients : written'["down"][r] = written["down"][r] \o q[r]
           /\ \A r \in Clients : inbound'["down"][r] = inbound["down"][r]
<1>1. "up" \in Ends /\ "down" \in Ends /\ Kind("down") = Answers
    BY DEF Ends, Kind
<1>2. \A r \in Clients : /\ written["down"][r] \o q[r] \in Seq(Requests \cup Answers)
                         /\ IsChannel(Kind("down"), written["down"][r] \o q[r], seen["down"][r],
                                      sent["down"][r], inbound["down"][r])
    <2> SUFFICES ASSUME NEW r \in Clients
                 PROVE  /\ written["down"][r] \o q[r] \in Seq(Requests \cup Answers)
                        /\ IsChannel(Kind("down"), written["down"][r] \o q[r], seen["down"][r],
                                     sent["down"][r], inbound["down"][r])
        OBVIOUS
    <2>1. q[r] \in Seq(Kind("down"))
        BY <1>1
    <2>2. IsChannel(Kind("down"), written["down"][r] \o q[r], seen["down"][r],
                    sent["down"][r], inbound["down"][r])
        BY <1>1, <2>1, ChannelShape, ChannelWrite DEF Channel
    <2>3. written["down"][r] \o q[r] \in Seq(Kind("down"))
        BY <2>2 DEF IsChannel
    <2> QED
        BY <1>1, <2>2, <2>3, KindsAreMessages
<1>3. /\ written' \in [Ends -> [Clients -> Seq(Requests \cup Answers)]]
      /\ written'["up"] = written["up"]
      /\ \A r \in Clients : written'["down"][r] = written["down"][r] \o q[r]
    BY <1>1, <1>2 DEF Answered, ChannelsOK, Shapes
<1>4. /\ inbound' \in [Ends -> [Clients -> Seq(Requests \cup Answers)]]
      /\ IsChannel(Kind("up"), written["up"][c], seen["up"][c], sent["up"][c], inbound'["up"][c])
      /\ \A x \in Ends, y \in Clients : x # "up" \/ y # c => inbound'[x][y] = inbound[x][y]
    BY <1>1, ReadStep
<1>5. \A r \in Clients : Channel("down", r)'
    BY <1>2, <1>3, <1>4, <1>1 DEF Channel
<1>6. \A r \in Clients : Channel("up", r)'
    BY <1>3, <1>4, <1>1 DEF Channel, ChannelsOK
<1>7. ChannelsOK'
    BY <1>3, <1>4, <1>5, <1>6 DEF ChannelsOK, Shapes, Ends
<1> QED
    BY <1>1, <1>3, <1>4, <1>7

-----------------------------------------------------------------------------
(* The server's handlers *)

LEMMA PlayerIdsAreNumbers ==
    /\ PlayerIds \in SUBSET (Nat \ {0})
    /\ \A i \in PlayerIds, j \in Nat \ {0} : j <= i => j \in PlayerIds
    /\ \A n \in Limits : n \in Nat \ {0} /\ 1..n \subseteq PlayerIds
<1>1. Limits \subseteq Nat \ {0}
    BY JoinAssumption
<1>2. ASSUME NEW i \in PlayerIds
      PROVE  i \in Nat \ {0} /\ \A j \in Nat \ {0} : j <= i => j \in PlayerIds
    <2>1. PICK n \in Limits : i \in 1..n
        BY DEF PlayerIds
    <2>2. n \in Nat /\ \A j \in Nat \ {0} : j <= i => j \in 1..n
        BY <1>1, <2>1
    <2> QED
        BY <2>1, <2>2 DEF PlayerIds
<1> QED
    BY <1>1, <1>2 DEF PlayerIds

\* There is a free id, above those in use and next to them.
LEMMA FreeId ==
    ASSUME ServerOK, Cardinality(Players) < max_clients
    PROVE  /\ GeneratePlayerID \in PlayerIds \ Players
           /\ \A i \in Players : i < GeneratePlayerID
           /\ \A j \in PlayerIds : j < GeneratePlayerID => j \in Players
<1> DEFINE free == PlayerIds \ Players
<1>1. PlayerIds \in SUBSET Nat /\ max_clients \in Nat \ {0} /\ 1..max_clients \subseteq PlayerIds
    BY PlayerIdsAreNumbers DEF ServerOK
<1>2. free # {}
    <2> SUFFICES ASSUME free = {} PROVE FALSE
        OBVIOUS
    <2>1. 1..max_clients \in SUBSET Players
        BY <1>1
    <2>2. Cardinality(1..max_clients) <= Cardinality(Players)
        BY <2>1, FS_Subset DEF ServerOK
    <2>3. Cardinality(1..max_clients) = max_clients
        BY <1>1, FS_Interval
    <2>4. Cardinality(Players) \in Nat
        BY FS_CardinalityType DEF ServerOK
    <2> QED
        BY <1>1, <2>2, <2>3, <2>4
<1>3. free \in SUBSET Nat
    BY <1>1
<1>4. PICK least \in free : \A j \in free : least <= j
    BY <1>2, <1>3, LeastExists
<1>5. GeneratePlayerID \in free /\ \A j \in free : GeneratePlayerID <= j
    BY <1>4 DEF GeneratePlayerID
<1>6. ASSUME NEW i \in Players PROVE i < GeneratePlayerID
    <2>1. i \in Nat /\ GeneratePlayerID \in Nat /\ i # GeneratePlayerID
        BY <1>1, <1>5 DEF Players
    <2>2. ~ (GeneratePlayerID < i)
        BY <1>5 DEF ServerOK
    <2> QED
        BY <2>1, <2>2
<1>7. ASSUME NEW j \in PlayerIds, j < GeneratePlayerID PROVE j \in Players
    <2>1. j \in Nat /\ GeneratePlayerID \in Nat
        BY <1>1, <1>5
    <2>2. ~ (GeneratePlayerID <= j)
        BY <1>7, <2>1
    <2> QED
        BY <1>5, <2>2
<1> QED
    BY <1>5, <1>6, <1>7

\* Players are added, above those there are, and stay as they are.
Grows ==
    /\ max_clients' = max_clients
    /\ Players \subseteq Players' /\ Cardinality(Players) <= Cardinality(Players')
    /\ \A i \in Players : instances'[i] = instances[i]
    /\ \A i \in Players, j \in Players' \ Players : i < j

LEMMA StandsStill ==
    ASSUME ServerOK, UNCHANGED <<max_clients, instances>>
    PROVE  Grows
<1>1. Players' = Players
    BY DEF Players
<1>2. Cardinality(Players) \in Nat
    BY FS_CardinalityType DEF ServerOK
<1> QED
    BY <1>1, <1>2 DEF Grows

LEMMA AcceptGrows ==
    ASSUME ServerOK, NEW c \in Clients, NEW team \in Teams, Cardinality(Players) < max_clients,
           AcceptPlayer(c, team)
    PROVE  /\ ServerOK' /\ Grows
           /\ Players' = Players \cup {GeneratePlayerID} /\ GeneratePlayerID \in PlayerIds \ Players
           /\ instances'[GeneratePlayerID].client = c /\ instances'[GeneratePlayerID].team \in Teams
           /\ client_id' = [client_id EXCEPT ![c] = GeneratePlayerID]
<1> DEFINE new == GeneratePlayerID
<1>1. /\ new \in PlayerIds \ Players /\ \A i \in Players : i < new
      /\ \A j \in PlayerIds : j < new => j \in Players
    BY FreeId
<1>2. /\ instances' = [instances EXCEPT ![new] = [client |-> c, team |-> team]]
      /\ client_id' = [client_id EXCEPT ![c] = new] /\ max_clients' = max_clients
    BY DEF AcceptPlayer
<1>3. [client |-> c, team |-> team] # Null
    BY JoinAssumption DEF Teams
<1> HIDE DEF new
<1>4. /\ instances' \in [PlayerIds -> [client : Clients, team : Teams] \cup {Null}]
      /\ instances'[new] = [client |-> c, team |-> team]
      /\ \A i \in PlayerIds : i # new => instances'[i] = instances[i]
    BY <1>1, <1>2, <1>3 DEF ServerOK
<1>5. Players' = Players \cup {new}
    BY <1>1, <1>3, <1>4 DEF Players
<1>6. /\ IsFiniteSet(Players') /\ Cardinality(Players') = Cardinality(Players) + 1
      /\ Cardinality(Players) \in Nat
    BY <1>1, <1>5, FS_AddElement, FS_CardinalityType DEF ServerOK
<1>7. max_clients \in Nat
    BY PlayerIdsAreNumbers DEF ServerOK
<1>8. Cardinality(Players') <= max_clients'
    BY <1>2, <1>6, <1>7
<1>9. \A i \in Players', j \in PlayerIds : j < i => j \in Players'
    BY <1>1, <1>5 DEF ServerOK
<1>10. client_id' \in [Clients -> PlayerIds \cup {0}]
    BY <1>1, <1>2 DEF ServerOK
<1>11. ServerOK'
    BY <1>2, <1>4, <1>6, <1>8, <1>9, <1>10 DEF ServerOK
<1>12. Grows
    BY <1>1, <1>2, <1>4, <1>5, <1>6 DEF Grows, Players
<1> QED
    BY <1>1, <1>2, <1>3, <1>4, <1>5, <1>11, <1>12 DEF new

\* Answers that say what is so, acceptances with what follows them.
GoodAnswers(q) ==
    /\ \A r \in Clients : \A k \in 1..Len(q[r]) : NextTrue(r, q[r][k])
    /\ \A r \in Clients : \A k \in 1..Len(q[r]) : q[r][k].type = "ACCEPT_JOIN" =>
        \A i \in Players' : i < q[r][k].client_id =>
            \E l \in 1..Len(q[r]) : l > k /\ q[r][l] = PlayerInformation(i, instances'[i].team)

\* What HandleJoin writes when it accepts: the acceptance, then what it tells of
\* and to the players there are.
LEMMA AcceptAnswers ==
    ASSUME ChannelsOK, ServerOK, NEW c \in Clients, NEW team \in Teams,
           Cardinality(Players) < max_clients, AcceptPlayer(c, team)
    PROVE  \E q \in [Clients -> Seq(Answers)] :
            /\ Answered(q) /\ GoodAnswers(q)
            /\ \A r \in Clients : \A k \in 1..Len(q[r]) :
                /\ q[r][k].type \in {"ACCEPT_JOIN", "PLAYER_INFO", "PLAYER_JOINS"}
                /\ q[r][k].type = "ACCEPT_JOIN" => r = c /\ q[r][k].client_id = client_id'[c]
<1> DEFINE new == GeneratePlayerID
           others == Ascending(Players)
           W == {PlayerInformation(i, instances[i].team) : i \in Players} \cup {PlayerJoins(new, team)}
           parts(r) == [k \in 1..Len(others) |-> Announcement(c, r, others[k], new, team)]
           first(r) == IF r = c THEN <<AcceptJoin(new)>> ELSE <<>>
           q == [r \in Clients |-> first(r) \o FlattenSeq(parts(r))]
<1>1. /\ Grows /\ Players' = Players \cup {new} /\ new \in PlayerIds \ Players
      /\ instances'[new].client = c
      /\ client_id' = [client_id EXCEPT ![c] = new]
    BY AcceptGrows
<1>2. /\ instances'[new].team = team
      /\ written' = [written EXCEPT !["down"] = [r \in Clients |->
              written["down"][r] \o first(r) \o FlattenSeq(parts(r))]]
    BY <1>1 DEF AcceptPlayer, ServerOK, Teams
<1>3. /\ Cardinality(Players) \in Nat /\ others \in [1..Cardinality(Players) -> Players]
      /\ \A i \in Players : \E k \in 1..Cardinality(Players) : others[k] = i
    <2>1. Players \in SUBSET Nat /\ IsFiniteSet(Players)
        BY PlayerIdsAreNumbers DEF Players, ServerOK
    <2> QED
        BY <2>1, AscendingOrders
<1>4. Len(others) = Cardinality(Players)
    BY <1>3
<1> HIDE DEF others, new
<1>5. W \subseteq Answers
    <2>1. ASSUME NEW i \in Players PROVE PlayerInformation(i, instances[i].team) \in Answers
        <3>1. i \in PlayerIds /\ instances[i] \in [client : Clients, team : Teams]
            BY DEF Players, ServerOK
        <3> QED
            BY <3>1 DEF PlayerInformation, Answers
    <2>2. PlayerJoins(new, team) \in Answers
        BY <1>1, <1>2 DEF PlayerJoins, Answers
    <2> QED
        BY <2>1, <2>2
<1>6. ASSUME NEW r \in Clients PROVE parts(r) \in [1..Cardinality(Players) -> Seq(W)]
    <2> SUFFICES ASSUME NEW k \in 1..Cardinality(Players)
                 PROVE  Announcement(c, r, others[k], new, team) \in Seq(W)
        BY <1>4
    <2>1. others[k] \in Players
        BY <1>3
    <2>2. /\ PlayerInformation(others[k], instances[others[k]].team) \in W
          /\ PlayerJoins(new, team) \in W
        BY <2>1
    <2> HIDE DEF W
    <2>3. \A x \in W, y \in W : <<x>> \in Seq(W) /\ <<>> \in Seq(W) /\ <<x>> \o <<y>> \in Seq(W)
                                /\ <<x>> \o <<>> \in Seq(W) /\ <<>> \o <<y>> \in Seq(W)
                                /\ <<>> \o <<>> \in Seq(W)
        OBVIOUS
    <2> QED
        BY <2>2, <2>3 DEF Announcement
<1> DEFINE told(r) == FlattenSeq(parts(r))
<1>7. ASSUME NEW r \in Clients
      PROVE  told(r) \in Seq(W) /\ HasParts(told(r), Cardinality(Players), parts(r))
    <2> DEFINE p == parts(r)
    <2>1. p \in [1..Cardinality(Players) -> Seq(W)]
        BY <1>6
    <2> HIDE DEF W, p
    <2>2. FlattenSeq(p) \in Seq(W) /\ HasParts(FlattenSeq(p), Cardinality(Players), p)
        BY <1>3, <2>1, FlattenKeeps
    <2> QED
        BY <2>2 DEF p
<1>8. ASSUME NEW i \in Players
      PROVE  \E l \in 1..Len(told(c)) : told(c)[l] = PlayerInformation(i, instances[i].team)
    <2>1. PICK k \in 1..Cardinality(Players) : others[k] = i
        BY <1>3
    <2>2. parts(c)[k] = Announcement(c, c, i, new, team)
        BY <1>4, <2>1
    <2> DEFINE x == PlayerInformation(i, instances[i].team)
               tail == IF c = instances[i].client THEN <<PlayerJoins(new, team)>> ELSE <<>>
    <2>3. parts(c)[k] = <<x>> \o tail /\ tail \in Seq(W)
        <3>1. Announcement(c, c, i, new, team) = <<x>> \o tail
            BY DEF Announcement
        <3>2. tail \in Seq(W)
            <4>1. PlayerJoins(new, team) \in W
                OBVIOUS
            <4> HIDE DEF W
            <4> QED
                BY <4>1
        <3> QED
            BY <2>2, <3>1, <3>2
    <2> HIDE DEF x, tail, W
    <2>4. 1 \in 1..Len(<<x>> \o tail) /\ (<<x>> \o tail)[1] = x
        BY <2>3
    <2> HIDE DEF told, parts
    <2>5. \E l \in 1..Len(told(c)) : told(c)[l] = parts(c)[k][1]
        BY <1>7, <2>3, <2>4 DEF HasParts
    <2> QED
        BY <2>3, <2>4, <2>5 DEF x
<1> HIDE DEF parts, W, q
<1>9. ASSUME NEW r \in Clients
      PROVE  /\ first(r) \in Seq(Answers) /\ told(r) \in Seq(Answers) /\ q[r] = first(r) \o told(r)
             /\ Len(told(r)) \in Nat
             /\ \A k \in 1..Len(told(r)) : told(r)[k] \in W
    <2>1. AcceptJoin(new) \in Answers
        BY <1>1 DEF AcceptJoin, Answers
    <2>2. first(r) \in Seq(Answers)
        <3>1. <<AcceptJoin(new)>> \in Seq(Answers) /\ <<>> \in Seq(Answers)
            BY <2>1
        <3>2. CASE r = c
            BY <3>1, <3>2
        <3>3. CASE r # c
            BY <3>1, <3>3
        <3> QED
            BY <3>2, <3>3
    <2>3. told(r) \in Seq(W)
        BY <1>7
    <2>4. told(r) \in Seq(Answers)
        BY <2>3, <1>5, SeqGrows
    <2>5. q[r] = first(r) \o told(r)
        BY DEF q
    <2> HIDE DEF told, first
    <2> QED
        BY <2>2, <2>3, <2>4, <2>5
<1> HIDE DEF told
<1>10. q \in [Clients -> Seq(Answers)]
    <2>1. \A r \in Clients : first(r) \o told(r) \in Seq(Answers)
        <3> SUFFICES ASSUME NEW r \in Clients PROVE first(r) \o told(r) \in Seq(Answers)
            OBVIOUS
        <3>1. first(r) \in Seq(Answers) /\ told(r) \in Seq(Answers)
            BY <1>9
        <3> HIDE DEF first
        <3> QED
            BY <3>1
    <2> QED
        BY <2>1 DEF q, told
<1>11. Answered(q)
    <2>1. \A r \in Clients :
            written["down"][r] \o first(r) \o told(r) = written["down"][r] \o q[r]
        <3> SUFFICES ASSUME NEW r \in Clients
                     PROVE  written["down"][r] \o first(r) \o told(r) = written["down"][r] \o q[r]
            OBVIOUS
        <3>1. written["down"][r] \in Seq(Answers)
            BY ChannelShape DEF Ends, Kind
        <3>2. first(r) \in Seq(Answers) /\ told(r) \in Seq(Answers) /\ q[r] = first(r) \o told(r)
            BY <1>9
        <3> DEFINE w == written["down"][r]
                   f == first(r)
                   o == told(r)
        <3>3. w \in Seq(Answers) /\ f \in Seq(Answers) /\ o \in Seq(Answers) /\ q[r] = f \o o
            BY <3>1, <3>2
        <3> HIDE DEF w, f, o
        <3>4. w \o f \o o = w \o q[r]
            BY <3>3, Associative
        <3> QED
            BY <3>4 DEF w, f, o
    <2>2. [r \in Clients |-> written["down"][r] \o first(r) \o told(r)]
            = [r \in Clients |-> written["down"][r] \o q[r]]
        BY <2>1
    <2> HIDE DEF first
    <2>3. written' = [written EXCEPT !["down"] = [r \in Clients |->
                        written["down"][r] \o first(r) \o told(r)]]
        BY <1>2 DEF told, first
    <2> QED
        BY <2>2, <2>3 DEF Answered
<1>12. ASSUME NEW r \in Clients, NEW k \in 1..Len(q[r])
       PROVE  (r = c /\ k = 1 /\ q[r][k] = AcceptJoin(new)) \/ q[r][k] \in W
    <2>1. /\ told(r) \in Seq(Answers) /\ q[r] = first(r) \o told(r)
          /\ Len(told(r)) \in Nat
          /\ \A j \in 1..Len(told(r)) : told(r)[j] \in W
        BY <1>9
    <2>2. CASE r = c
        <3>1. q[r] = <<AcceptJoin(new)>> \o told(r)
            BY <2>1, <2>2
        <3>2. Len(q[r]) = 1 + Len(told(r))
            BY <2>1, <3>1
        <3>3. CASE k = 1
            BY <2>1, <2>2, <3>1, <3>3
        <3>4. CASE k # 1
            <4>1. k - 1 \in 1..Len(told(r)) /\ q[r][k] = told(r)[k - 1]
                BY <2>1, <3>1, <3>2, <3>4
            <4> QED
                BY <4>1, <2>1
        <3> QED
            BY <3>3, <3>4
    <2>3. CASE r # c
        <3>1. q[r] = <<>> \o told(r)
            BY <2>1, <2>3
        <3>2. q[r] = told(r)
            BY <2>1, <3>1
        <3> QED
            BY <2>1, <3>2
    <2> QED
        BY <2>2, <2>3
<1>13. ASSUME NEW m \in W, NEW r \in Clients
       PROVE  m.type \in {"PLAYER_INFO", "PLAYER_JOINS"} /\ NextTrue(r, m)
    <2>1. CASE m = PlayerJoins(new, team)
        BY <2>1, <1>1, <1>2 DEF PlayerJoins, NextTrue, TrueOf
    <2>2. ASSUME NEW i \in Players, m = PlayerInformation(i, instances[i].team)
          PROVE  m.type \in {"PLAYER_INFO", "PLAYER_JOINS"} /\ NextTrue(r, m)
        <3>1. i \in Players' /\ instances'[i] = instances[i]
            BY <1>1 DEF Grows
        <3> QED
            BY <2>2, <3>1 DEF PlayerInformation, NextTrue, TrueOf
    <2> QED
        BY <2>1, <2>2 DEF W
<1>14. NextTrue(c, AcceptJoin(new))
    BY <1>1 DEF AcceptJoin, NextTrue, TrueOf
<1>15. ASSUME NEW r \in Clients, NEW k \in 1..Len(q[r])
       PROVE  /\ NextTrue(r, q[r][k])
              /\ q[r][k].type \in {"ACCEPT_JOIN", "PLAYER_INFO", "PLAYER_JOINS"}
              /\ q[r][k].type = "ACCEPT_JOIN" =>
                    r = c /\ k = 1 /\ q[r][k].client_id = new
    <2>1. CASE q[r][k] \in W
        BY <2>1, <1>13
    <2>2. CASE q[r][k] \notin W
        BY <2>2, <1>12, <1>14 DEF AcceptJoin
    <2> QED
        BY <2>1, <2>2
<1>16. ASSUME NEW i \in Players', i < new
       PROVE  \E l \in 1..Len(q[c]) : l > 1 /\ q[c][l] = PlayerInformation(i, instances'[i].team)
    <2>1. i \in Players
        <3>1. new \in Nat
            BY <1>1, PlayerIdsAreNumbers
        <3> QED
            BY <3>1, <1>1, <1>16
    <2>2. PICK l \in 1..Len(told(c)) : told(c)[l] = PlayerInformation(i, instances[i].team)
        BY <1>8, <2>1
    <2>3. told(c) \in Seq(Answers) /\ q[c] = <<AcceptJoin(new)>> \o told(c)
        BY <1>9
    <2>4. l + 1 \in 1..Len(q[c]) /\ l + 1 > 1 /\ q[c][l + 1] = told(c)[l]
        BY <2>2, <2>3
    <2>5. instances'[i] = instances[i]
        BY <2>1, <1>1 DEF Grows
    <2> QED
        BY <2>2, <2>4, <2>5
<1>17. GoodAnswers(q)
    BY <1>15, <1>16 DEF GoodAnswers
<1>18. client_id'[c] = new
    BY <1>1 DEF ServerOK
<1> QED
    BY <1>10, <1>11, <1>15, <1>17, <1>18

\* What the server writes when it handles the message in front of c's stream.
AnswersTo(c, request, q) ==
    /\ Answered(q) /\ GoodAnswers(q) /\ ServerOK' /\ Grows
    /\ \A r \in Clients : \A k \in 1..Len(q[r]) :
        /\ q[r][k].type = "ACCEPT_JOIN" =>
            r = c /\ request = RequestJoinGame /\ q[r][k].client_id = client_id'[c]
        /\ q[r][k].type = "DENY_JOIN" => r = c /\ request = RequestJoinGame
        /\ q[r][k].type = "SERVER_INFO" => r = c /\ request = GetServerInfo /\ k = 1
    /\ request # RequestJoinGame => client_id' = client_id
    /\ \A r \in Clients : r # c => client_id'[r] = client_id[r]

\* The answers that are written to the client that asked and change no state.
LEMMA OneAnswer ==
    ASSUME ChannelsOK, ServerOK, NEW c \in Clients, NEW request, NEW ms \in Seq(Answers),
           Write("down", c, ms), UNCHANGED serverVars,
           \A k \in 1..Len(ms) : NextTrue(c, ms[k]) /\ ms[k].type # "ACCEPT_JOIN",
           \A k \in 1..Len(ms) : ms[k].type = "SERVER_INFO" => request = GetServerInfo /\ k = 1,
           \A k \in 1..Len(ms) : ms[k].type = "DENY_JOIN" => request = RequestJoinGame
    PROVE  \E q \in [Clients -> Seq(Answers)] : AnswersTo(c, request, q)
<1> DEFINE q == [r \in Clients |-> IF r = c THEN ms ELSE <<>>]
<1>1. q \in [Clients -> Seq(Answers)] /\ q[c] = ms /\ \A r \in Clients : r # c => q[r] = <<>>
    OBVIOUS
<1>2. \A r \in Clients : r # c => Len(q[r]) = 0
    BY <1>1
<1>3. UNCHANGED <<max_clients, instances, client_id>> /\ Players' = Players
    BY DEF serverVars, Players
<1>4. ServerOK' /\ Grows
    BY <1>3, StandsStill DEF ServerOK
<1>5. Answered(q)
    <2>1. \A r \in Clients : written["down"][r] \in Seq(Answers)
        BY ChannelShape DEF Ends, Kind
    <2>2. written \in [Ends -> [Clients -> Seq(Requests \cup Answers)]] /\ "down" \in Ends
        BY DEF ChannelsOK, Shapes, Ends
    <2>3. written' = [written EXCEPT !["down"] = [written["down"] EXCEPT ![c] = written["down"][c] \o ms]]
        BY <2>2 DEF Write
    <2> HIDE DEF q
    <2>4. \A r \in Clients : [written["down"] EXCEPT ![c] = written["down"][c] \o ms][r]
                                = written["down"][r] \o q[r]
        <3> SUFFICES ASSUME NEW r \in Clients
                     PROVE  [written["down"] EXCEPT ![c] = written["down"][c] \o ms][r]
                                = written["down"][r] \o q[r]
            OBVIOUS
        <3>1. CASE r = c
            BY <3>1, <1>1, <2>2
        <3>2. CASE r # c
            <4>1. q[r] = <<>> /\ written["down"][r] \o <<>> = written["down"][r]
                BY <3>2, <1>1, <2>1
            <4> QED
                BY <4>1, <3>2, <2>2
        <3> QED
            BY <3>1, <3>2
    <2>5. [written["down"] EXCEPT ![c] = written["down"][c] \o ms]
            = [r \in Clients |-> written["down"][r] \o q[r]]
        BY <2>2, <2>4
    <2> QED
        BY <2>3, <2>5 DEF Answered
<1> HIDE DEF q
<1>6. \A r \in Clients : \A k \in 1..Len(q[r]) : r = c /\ q[r] = ms
    BY <1>1, <1>2
<1>7. GoodAnswers(q)
    BY <1>6 DEF GoodAnswers
<1> QED
    BY <1>1, <1>3, <1>4, <1>5, <1>6, <1>7 DEF AnswersTo

LEMMA ServerAnswers ==
    ASSUME ChannelsOK, ServerOK, NEW c \in Clients, ServerHandles(c)
    PROVE  \E q \in [Clients -> Seq(Answers)] : AnswersTo(c, Head(inbound["up"][c]), q)
<1> DEFINE request == Head(inbound["up"][c])
<1>1. request \in Requests
    BY ReadStep DEF ServerHandles, Ends, Kind
<1>2. /\ GetServerInfo # RequestJoinGame /\ GetServerInfo # SyncWorld
      /\ RequestJoinGame # SyncWorld
    BY DEF GetServerInfo, RequestJoinGame, SyncWorld
<1>3. /\ request = GetServerInfo => HandleInfo(c)
      /\ request = RequestJoinGame => HandleJoin(c)
      /\ request = SyncWorld => HandleSyncWorld(c)
    BY <1>1, <1>2 DEF ServerHandles, Requests
<1> HIDE DEF request
<1>4. Cardinality(Players) \in Nat /\ max_clients \in Nat \ {0} /\ 1..max_clients \subseteq PlayerIds
    BY FS_CardinalityType, PlayerIdsAreNumbers DEF ServerOK
<1>5. CASE request = GetServerInfo
    <2> DEFINE m == ServerInformation(Cardinality(Players))
               ms == <<m>>
    <2>1. Write("down", c, ms) /\ UNCHANGED serverVars
        BY <1>3, <1>5 DEF HandleInfo
    <2>2. Cardinality(Players) \in PlayerIds \cup {0}
        BY <1>4 DEF ServerOK
    <2>3. m \in Answers /\ m.type = "SERVER_INFO" /\ m.number_of_players = Cardinality(Players)
        BY <2>2 DEF ServerInformation, Answers
    <2>4. Players' = Players
        BY <2>1 DEF serverVars, Players
    <2>5. NextTrue(c, m)
        BY <2>3, <2>4, <1>4 DEF NextTrue, TrueOf
    <2> HIDE DEF m
    <2>6. ms \in Seq(Answers) /\ \A k \in 1..Len(ms) : ms[k] = m /\ k = 1
        BY <2>3
    <2> HIDE DEF ms
    <2> QED
        BY <2>1, <2>3, <2>5, <2>6, <1>5, OneAnswer DEF request
<1>6. CASE request = SyncWorld
    <2> DEFINE n == Cardinality(Bases)
               order == Ascending(Bases)
               ms == [k \in 1..n |-> ObjectSpawn(order[k])]
    <2>1. Write("down", c, ms) /\ UNCHANGED serverVars
        BY <1>3, <1>6 DEF HandleSyncWorld
    <2>2. n \in Nat /\ order \in [1..n -> Bases]
        BY JoinAssumption, AscendingOrders
    <2> HIDE DEF n, order
    <2>3. \A k \in 1..n : ms[k] \in Answers /\ ms[k].type = "OBJECT_SPAWN"
        BY <2>2 DEF ObjectSpawn, Answers
    <2>4. ms \in Seq(Answers) /\ Len(ms) = n
        <3>1. ms \in [1..n -> Answers]
            BY <2>3
        <3> QED
            BY <3>1, <2>2
    <2> HIDE DEF ms
    <2>5. \A k \in 1..Len(ms) : /\ NextTrue(c, ms[k]) /\ ms[k].type # "ACCEPT_JOIN"
                                /\ ms[k].type # "SERVER_INFO" /\ ms[k].type # "DENY_JOIN"
        BY <2>3, <2>4 DEF NextTrue, TrueOf
    <2> QED
        BY <2>1, <2>4, <2>5, OneAnswer DEF request
<1>7. CASE request = RequestJoinGame /\ ~ (Cardinality(Players) < max_clients)
    <2> DEFINE ms == <<DenyJoin>>
    <2>1. Write("down", c, ms) /\ UNCHANGED serverVars
        BY <1>3, <1>7 DEF HandleJoin
    <2>2. DenyJoin \in Answers /\ DenyJoin.type = "DENY_JOIN"
        BY DEF DenyJoin, Answers
    <2>3. Players' = Players /\ max_clients' = max_clients
        BY <2>1 DEF serverVars, Players
    <2>4. NextTrue(c, DenyJoin)
        BY <2>2, <2>3, <1>4, <1>7 DEF NextTrue, TrueOf
    <2>5. ms \in Seq(Answers) /\ \A k \in 1..Len(ms) : ms[k] = DenyJoin
        BY <2>2
    <2> HIDE DEF ms
    <2> QED
        BY <2>1, <2>2, <2>4, <2>5, <1>7, OneAnswer DEF request
<1>8. CASE request = RequestJoinGame /\ Cardinality(Players) < max_clients
    <2>1. PICK garbage \in GarbageTeams : AcceptPlayer(c, GetBalancedTeam(garbage))
        BY <1>3, <1>8 DEF HandleJoin
    <2> DEFINE team == GetBalancedTeam(garbage)
    <2>7. team \in Teams /\ AcceptPlayer(c, team)
        BY <2>1 DEF GetBalancedTeam, Teams
    <2> HIDE DEF team
    <2>2. PICK q \in [Clients -> Seq(Answers)] :
            /\ Answered(q) /\ GoodAnswers(q)
            /\ \A r \in Clients : \A k \in 1..Len(q[r]) :
                /\ q[r][k].type \in {"ACCEPT_JOIN", "PLAYER_INFO", "PLAYER_JOINS"}
                /\ q[r][k].type = "ACCEPT_JOIN" => r = c /\ q[r][k].client_id = client_id'[c]
        BY <1>8, <2>7, AcceptAnswers
    <2>3. ServerOK' /\ Grows /\ client_id' = [client_id EXCEPT ![c] = GeneratePlayerID]
        BY <1>8, <2>7, AcceptGrows
    <2>4. \A r \in Clients : r # c => client_id'[r] = client_id[r]
        BY <2>3 DEF ServerOK
    <2>5. \A r \in Clients : \A k \in 1..Len(q[r]) :
            q[r][k].type # "SERVER_INFO" /\ q[r][k].type # "DENY_JOIN"
        BY <2>2
    <2>6. AnswersTo(c, request, q)
        BY <1>8, <2>2, <2>3, <2>4, <2>5 DEF AnswersTo
    <2> QED
        BY <2>6 DEF request
<1> QED
    BY <1>1, <1>5, <1>6, <1>7, <1>8 DEF Requests

-----------------------------------------------------------------------------
(* What stays so while the server only adds players *)

LEMMA TrueStays ==
    ASSUME ServerOK, ServerOK', Grows, NEW c, NEW m \in Answers, IsTrue(c, m)
    PROVE  NextTrue(c, m)
<1>1. /\ Cardinality(Players) \in Nat /\ Cardinality(Players') \in Nat
      /\ max_clients \in Nat /\ max_clients' = max_clients
    <2>1. IsFiniteSet(Players) /\ IsFiniteSet(Players') /\ max_clients \in Limits
        BY DEF ServerOK
    <2> QED
        BY <2>1, FS_CardinalityType, PlayerIdsAreNumbers DEF Grows
<1>2. m.type = "SERVER_INFO" => m.number_of_players <= Cardinality(Players')
    <2> SUFFICES ASSUME m.type = "SERVER_INFO" PROVE m.number_of_players <= Cardinality(Players')
        OBVIOUS
    <2>1. m.number_of_players <= Cardinality(Players) /\ Cardinality(Players) <= Cardinality(Players')
        BY DEF IsTrue, TrueOf, Grows
    <2>2. m.number_of_players \in PlayerIds \cup {0}
        BY DEF Answers, DenyJoin
    <2>3. m.number_of_players \in Nat
        <3>1. \A x \in PlayerIds \cup {0} : x \in Nat
            BY PlayerIdsAreNumbers
        <3> QED
            BY <2>2, <3>1
    <2> QED
        BY <2>1, <2>3, <1>1
<1> QED
    BY <1>1, <1>2 DEF IsTrue, NextTrue, TrueOf, Grows

LEMMA AnswersStay ==
    ASSUME ChannelsOK, ServerOK, ServerOK', Grows, AnswersTrue, written'["down"] = written["down"]
    PROVE  AnswersTrue'
<1>1. \A c \in Clients : written["down"][c] \in Seq(Answers)
    BY ChannelShape DEF Ends, Kind
<1>2. \A c \in Clients : \A k \in 1..Len(written["down"][c]) : NextTrue(c, written["down"][c][k])
    BY <1>1, TrueStays DEF AnswersTrue
<1> QED
    BY <1>2 DEF AnswersTrue, NextTrue, IsTrue

\* Players that come later have higher ids.
LEMMA EarlierPlayers ==
    ASSUME Grows, ServerOK, ServerOK', NEW i \in Players, NEW j \in Players', j < i
    PROVE  j \in Players /\ instances'[j] = instances[j]
<1>1. j \in PlayerIds /\ i \in PlayerIds
    BY DEF Players
<1>2. i \in Nat /\ j \in Nat
    BY <1>1, PlayerIdsAreNumbers
<1>3. ~ (i < j)
    BY <1>2
<1> QED
    BY <1>3 DEF Grows

\* What is written down was true, so what waits is.
LEMMA WaitingAnswer ==
    ASSUME ChannelsOK, AnswersTrue, NEW c \in Clients, NEW j \in 1..Len(inbound["down"][c])
    PROVE  IsTrue(c, inbound["down"][c][j])
<1>1. Channel("down", c)
    BY ChannelShape DEF Ends
<1>2. \E k \in 1..Len(written["down"][c]) : inbound["down"][c][j] = written["down"][c][k]
    BY <1>1, ChannelElements DEF Channel
<1> QED
    BY <1>2 DEF AnswersTrue

LEMMA ClientKept ==
    ASSUME ServerOK, ServerOK', Grows, NEW c \in Clients, ClientOK(c),
           state'[c] = state[c], attempts'[c] = attempts[c], in_game'[c] = in_game[c],
           self'[c] = self[c], roster'[c] = roster[c],
           state[c] = "S_TIMEOUT" => inbound'["down"][c] = inbound["down"][c]
    PROVE  ClientOK(c)'
<1>1. /\ Cardinality(Players) \in Nat /\ Cardinality(Players') \in Nat
      /\ max_clients \in Nat /\ max_clients' = max_clients /\ MAXPLAYERS \in Nat
      /\ Cardinality(Players) <= Cardinality(Players')
    <2>1. IsFiniteSet(Players) /\ IsFiniteSet(Players') /\ max_clients \in Limits
        BY DEF ServerOK
    <2> QED
        BY <2>1, FS_CardinalityType, PlayerIdsAreNumbers, JoinAssumption DEF Grows
<1>2. /\ state'[c] = "S_TIMEOUT" => inbound'["down"][c] = <<>> /\ ~ in_game'[c]
      /\ state'[c] # "S_TIMEOUT" => attempts'[c] <= MaxAttempts + 1
      /\ in_game'[c] => state'[c] = "S_ACCEPTED"
      /\ state'[c] = "S_ACCEPTED" => self'[c] # 0
    BY DEF ClientOK
<1>3. /\ state'[c] = "S_DENIED" => Cardinality(Players') >= max_clients'
      /\ state'[c] = "S_SERVER_FULL" => Cardinality(Players') >= MAXPLAYERS
    <2>1. /\ state'[c] = "S_DENIED" => Cardinality(Players) >= max_clients
          /\ state'[c] = "S_SERVER_FULL" => Cardinality(Players) >= MAXPLAYERS
        BY DEF ClientOK
    <2> QED
        BY <2>1, <1>1
<1>4. ASSUME self'[c] # 0
      PROVE  /\ self'[c] \in Players' /\ instances'[self'[c]].client = c
             /\ \A i \in Players' : i < self'[c] => Told(c, i)'
    <2>1. self[c] # 0 /\ self'[c] = self[c]
        BY <1>4
    <2>2. /\ self[c] \in Players /\ instances[self[c]].client = c
          /\ \A i \in Players : i < self[c] => Told(c, i)
        BY <2>1 DEF ClientOK
    <2>3. \A i \in Players' : i < self[c] => roster'[c][i] = instances'[i].team
        BY <2>2, EarlierPlayers DEF Told
    <2> QED
        BY <2>1, <2>2, <2>3 DEF Told, Grows
<1> QED
    BY <1>2, <1>3, <1>4 DEF ClientOK

LEMMA FirstKept ==
    ASSUME ChannelsOK, ServerOK, ServerOK', Grows, AnswersTrue, NEW c \in Clients, InformationFirst(c),
           roster'[c] = roster[c], inbound'["down"][c] = inbound["down"][c]
    PROVE  InformationFirst(c)'
<1> SUFFICES ASSUME NEW j \in 1..Len(inbound["down"][c]), inbound["down"][c][j].type = "ACCEPT_JOIN",
                    NEW i \in Players', i < inbound["down"][c][j].client_id
             PROVE  \/ roster[c][i] = instances'[i].team
                    \/ \E x \in 1..Len(inbound["down"][c]) :
                        x < j /\ inbound["down"][c][x] = PlayerInformation(i, instances'[i].team)
    BY DEF InformationFirst, Told, Information
<1>1. inbound["down"][c][j].client_id \in Players
    BY WaitingAnswer DEF IsTrue, TrueOf
<1>2. i \in Players /\ instances'[i] = instances[i]
    BY <1>1, EarlierPlayers
<1>3. Told(c, i) \/ \E x \in 1..Len(inbound["down"][c]) :
                        x < j /\ inbound["down"][c][x] = Information(i)
    BY <1>2 DEF InformationFirst
<1> QED
    BY <1>2, <1>3 DEF Told, Information

\* Packets that are dropped or handled take no information away that others
\* would bring without it.
LEMMA ComesKept ==
    ASSUME ChannelsOK, ServerOK, ServerOK', Grows, AnswersTrue, NEW c \in Clients, InformationComes(c),
           written'["down"][c] = written["down"][c],
           \A k \in 1..Len(written["down"][c]) : k > seen'["down"][c] => k > seen["down"][c],
           \A n \in sent'["down"][c] : n \in sent["down"][c] \/ n = Len(written["down"][c])
    PROVE  InformationComes(c)'
<1> DEFINE w == written["down"][c]
<1> SUFFICES ASSUME NEW k \in 1..Len(w), k > seen["down"][c], w[k].type = "ACCEPT_JOIN",
                    NEW i \in Players', i < w[k].client_id
             PROVE  \E l \in 1..Len(w) :
                        /\ l > k /\ w[l] = PlayerInformation(i, instances'[i].team)
                        /\ \A n \in sent'["down"][c] : n >= k => n >= l
    BY DEF InformationComes, Information
<1>1. w[k].client_id \in Players
    BY DEF AnswersTrue, IsTrue, TrueOf
<1>2. i \in Players /\ instances'[i] = instances[i]
    BY <1>1, EarlierPlayers
<1>3. PICK l \in 1..Len(w) : /\ l > k /\ w[l] = Information(i)
                             /\ \A n \in sent["down"][c] : n >= k => n >= l
    BY <1>2 DEF InformationComes
<1>4. Len(w) \in Nat /\ Len(w) >= l
    BY <1>3, ChannelShape DEF Ends
<1>5. \A n \in sent'["down"][c] : n >= k => n >= l
    BY <1>3, <1>4
<1> QED
    BY <1>2, <1>3, <1>5 DEF Information

\* The clients that take no part in a step of the client or server side.
Aside(c) ==
    /\ state'[c] = state[c] /\ attempts'[c] = attempts[c] /\ in_game'[c] = in_game[c]
    /\ self'[c] = self[c] /\ roster'[c] = roster[c]
    /\ inbound'["down"][c] = inbound["down"][c] /\ seen'["down"][c] = seen["down"][c]

LEMMA AsideKept ==
    ASSUME Inv, ServerOK', Grows, NEW c \in Clients, Aside(c),
           written'["down"][c] = written["down"][c],
           \A n \in sent'["down"][c] : n \in sent["down"][c] \/ n = Len(written["down"][c])
    PROVE  ClientOK(c)' /\ InformationComes(c)' /\ InformationFirst(c)'
<1>1. ClientOK(c)'
    BY ClientKept DEF Inv, Aside
<1>2. InformationFirst(c)'
    BY FirstKept DEF Inv, Aside
<1>3. InformationComes(c)'
    <2>1. \A k \in 1..Len(written["down"][c]) : k > seen'["down"][c] => k > seen["down"][c]
        BY DEF Aside
    <2> QED
        BY <2>1, ComesKept DEF Inv
<1> QED
    BY <1>1, <1>2, <1>3

-----------------------------------------------------------------------------
(* The steps *)

LEMMA NoPlayersYet == ASSUME Init PROVE Players = {} /\ Cardinality(Players) = 0
<1>1. Players = {}
    BY DEF Init, Players
<1> QED
    BY <1>1, FS_EmptySet

LEMMA InitInv == Init => Inv
<1> SUFFICES ASSUME Init PROVE Inv
    OBVIOUS
<1>1. Players = {} /\ Cardinality(Players) = 0
    BY NoPlayersYet
<1>2. /\ written = [d \in Ends |-> [c \in Clients |-> <<>>]]
      /\ seen = [d \in Ends |-> [c \in Clients |-> 0]]
      /\ sent = [d \in Ends |-> [c \in Clients |-> {}]]
      /\ inbound = [d \in Ends |-> [c \in Clients |-> <<>>]]
    BY DEF Init, Ends
<1>3. ChannelsOK
    <2>1. Shapes
        BY <1>2 DEF Shapes
    <2>2. ASSUME NEW d \in Ends, NEW c \in Clients PROVE Channel(d, c)
        <3>1. written[d][c] = <<>> /\ inbound[d][c] = <<>> /\ seen[d][c] = 0 /\ sent[d][c] = {}
            BY <1>2
        <3>2. IsChannel(Kind(d), <<>>, 0, {}, <<>>)
            BY DEF IsChannel
        <3> QED
            BY <3>1, <3>2 DEF Channel
    <2> QED
        BY <2>1, <2>2 DEF ChannelsOK
<1>4. ServerOK
    <2>1. max_clients \in Nat
        BY PlayerIdsAreNumbers DEF Init
    <2>2. IsFiniteSet(Players)
        BY <1>1, FS_EmptySet
    <2> QED
        BY <1>1, <2>1, <2>2 DEF Init, ServerOK
<1>5. \A c \in Clients : Len(written["down"][c]) = 0 /\ inbound["down"][c] = <<>>
                         /\ Len(inbound["down"][c]) = 0
    BY <1>2 DEF Ends
<1>6. AnswersTrue
    BY <1>5 DEF AnswersTrue
<1>7. ClientTypes
    BY JoinAssumption DEF Init, ClientTypes, ClientStates
<1>8. ASSUME NEW c \in Clients PROVE ClientOK(c) /\ InformationComes(c) /\ InformationFirst(c)
    <2>1. ClientOK(c)
        BY JoinAssumption DEF Init, ClientOK
    <2> QED
        BY <2>1, <1>5 DEF InformationComes, InformationFirst
<1> QED
    BY <1>3, <1>4, <1>6, <1>7, <1>8 DEF Inv

\* A step that leaves the server, what comes down and what the client learned.
LEMMA ClientTurn ==
    ASSUME Inv, NEW c \in Clients, UNCHANGED <<serverVars, self, roster>>,
           ChannelsOK', ClientTypes', ClientOK(c)',
           written'["down"] = written["down"], seen'["down"] = seen["down"],
           sent'["down"] = sent["down"], inbound'["down"] = inbound["down"],
           \A r \in Clients : r # c =>
                state'[r] = state[r] /\ attempts'[r] = attempts[r] /\ in_game'[r] = in_game[r]
    PROVE  Inv'
<1>1. UNCHANGED <<max_clients, instances, client_id>>
    BY DEF serverVars
<1>2. ServerOK' /\ Grows
    <2>1. Players' = Players
        BY <1>1 DEF Players
    <2> QED
        BY <1>1, <2>1, StandsStill DEF Inv, ServerOK
<1>3. AnswersTrue'
    BY <1>2, AnswersStay DEF Inv
<1>4. ASSUME NEW r \in Clients PROVE InformationComes(r)' /\ InformationFirst(r)'
    <2>1. InformationFirst(r)'
        BY <1>2, FirstKept DEF Inv
    <2>2. InformationComes(r)'
        BY <1>2, ComesKept DEF Inv
    <2> QED
        BY <2>1, <2>2
<1>5. ASSUME NEW r \in Clients, r # c PROVE ClientOK(r)'
    BY <1>2, <1>5, ClientKept DEF Inv
<1> QED
    BY <1>2, <1>3, <1>4, <1>5 DEF Inv

\* A client writes a request.
LEMMA RequestStep ==
    ASSUME ChannelsOK, NEW c \in Clients, NEW m \in Requests, Write("up", c, <<m>>),
           UNCHANGED <<seen, sent, inbound>>
    PROVE  /\ ChannelsOK' /\ written'["down"] = written["down"]
           /\ written'["up"][c] = written["up"][c] \o <<m>>
           /\ \A r \in Clients : r # c => written'["up"][r] = written["up"][r]
<1>1. "up" \in Ends /\ "down" \in Ends /\ <<m>> \in Seq(Kind("up"))
    BY DEF Ends, Kind
<1>2. /\ ChannelsOK' /\ written'["up"][c] = written["up"][c] \o <<m>>
      /\ \A r \in Clients : r # c => written'["up"][r] = written["up"][r]
    BY <1>1, WriteStep
<1>3. written'["down"] = written["down"]
    BY <1>1 DEF Write, ChannelsOK, Shapes
<1> QED
    BY <1>2, <1>3

LEMMA RequestInfoInv == ASSUME Inv, NEW c \in Clients, RequestInfo(c) PROVE Inv'
<1> USE DEF RequestInfo
<1>1. ChannelsOK' /\ written'["down"] = written["down"]
    BY RequestStep DEF Inv, Requests
<1>2. state[c] = "S_INITIAL" /\ state'[c] = "S_AWAITING_INFO" /\ ~ in_game[c]
      /\ \A r \in Clients : r # c => state'[r] = state[r]
    BY DEF Inv, ClientTypes, ClientOK
<1>3. ClientTypes'
    BY DEF Inv, ClientTypes, ClientStates
<1>4. ClientOK(c)'
    BY <1>2 DEF Inv, ClientOK, Told, serverVars, Players
<1> QED
    BY <1>1, <1>2, <1>3, <1>4, ClientTurn DEF serverVars

LEMMA ReceivedInfoInv == ASSUME Inv, NEW c \in Clients, ReceivedInfo(c) PROVE Inv'
<1> USE DEF ReceivedInfo
<1>1. UNCHANGED channelVars /\ UNCHANGED <<written, seen, sent, inbound>>
    BY DEF channelVars
<1>2. ChannelsOK'
    BY <1>1 DEF Inv, ChannelsOK, Shapes, Channel
<1>3. state[c] = "S_RECEIVED_INFO" /\ state'[c] = "S_JOINING_SERVER" /\ attempts'[c] = 0
      /\ \A r \in Clients : r # c => state'[r] = state[r] /\ attempts'[r] = attempts[r]
    BY DEF Inv, ClientTypes
<1>4. ClientTypes'
    <2>1. 0 \in 0..(MaxAttempts + 2)
        BY JoinAssumption
    <2> QED
        BY <2>1 DEF Inv, ClientTypes, ClientStates
<1>5. ClientOK(c)'
    <2>1. UNCHANGED <<max_clients, instances, client_id, in_game, self, roster>>
        BY DEF serverVars
    <2>2. Players' = Players
        BY <2>1 DEF Players
    <2>3. ~ in_game[c] /\ 0 <= MaxAttempts + 1
        BY <1>3, JoinAssumption DEF Inv, ClientOK
    <2> HIDE DEF ReceivedInfo
    <2> QED
        BY <1>1, <1>3, <2>1, <2>2, <2>3 DEF Inv, ClientOK, Told
<1> QED
    BY <1>1, <1>2, <1>3, <1>4, <1>5, ClientTurn DEF serverVars

LEMMA RequestJoinInv == ASSUME Inv, NEW c \in Clients, RequestJoin(c) PROVE Inv'
<1> USE DEF RequestJoin
<1>1. ChannelsOK' /\ written'["down"] = written["down"]
    BY RequestStep DEF Inv, Requests
<1>2. state[c] = "S_JOINING_SERVER" /\ state'[c] = "S_AWAITING_JOIN" /\ ~ in_game[c]
      /\ \A r \in Clients : r # c => state'[r] = state[r]
    BY DEF Inv, ClientTypes, ClientOK
<1>3. ClientTypes'
    BY DEF Inv, ClientTypes, ClientStates
<1>4. ClientOK(c)'
    BY <1>2 DEF Inv, ClientOK, Told, serverVars, Players
<1> QED
    BY <1>1, <1>2, <1>3, <1>4, ClientTurn DEF serverVars

LEMMA TimeoutInv == ASSUME Inv, NEW c \in Clients, Timeout(c) PROVE Inv'
<1>1. PICK awaiting \in {"S_AWAITING_INFO", "S_AWAITING_JOIN"},
           again \in {"S_INITIAL", "S_JOINING_SERVER"} : Retry(c, awaiting, again)
    BY DEF Timeout
<1> USE DEF Retry
<1>2. UNCHANGED <<written, seen, sent, inbound>> /\ inbound["down"][c] = <<>>
    BY <1>1 DEF channelVars, Turn
<1>3. ChannelsOK'
    BY <1>2 DEF Inv, ChannelsOK, Shapes, Channel
<1>4. /\ state[c] # "S_TIMEOUT" /\ ~ in_game[c]
      /\ attempts'[c] = attempts[c] + 1 /\ attempts[c] \in Nat /\ attempts[c] <= MaxAttempts + 1
      /\ state'[c] = IF attempts'[c] > MaxAttempts THEN "S_TIMEOUT" ELSE again
      /\ \A r \in Clients : r # c => state'[r] = state[r] /\ attempts'[r] = attempts[r]
    <2>1. /\ state[c] = awaiting /\ attempts' = [attempts EXCEPT ![c] = attempts[c] + 1]
          /\ state' = [state EXCEPT ![c] = IF attempts'[c] > MaxAttempts THEN "S_TIMEOUT" ELSE again]
        BY <1>1
    <2>2. state[c] # "S_TIMEOUT" /\ state[c] # "S_ACCEPTED"
        BY <2>1
    <2>3. ~ in_game[c] /\ attempts[c] <= MaxAttempts + 1
        BY <2>2 DEF Inv, ClientOK
    <2>4. attempts[c] \in 0..(MaxAttempts + 2)
        BY DEF Inv, ClientTypes
    <2> QED
        BY <2>1, <2>2, <2>3, <2>4, JoinAssumption DEF Inv, ClientTypes
<1>5. ClientTypes'
    <2>1. attempts' = [attempts EXCEPT ![c] = attempts[c] + 1] /\ attempts[c] + 1 \in 0..(MaxAttempts + 2)
        BY <1>1, <1>4, JoinAssumption
    <2>2. attempts' \in [Clients -> 0..(MaxAttempts + 2)]
        BY <2>1 DEF Inv, ClientTypes
    <2>3. state' \in [Clients -> ClientStates]
        BY <1>1 DEF Inv, ClientTypes, ClientStates
    <2> QED
        BY <1>1, <2>2, <2>3 DEF Inv, ClientTypes
<1>6. ClientOK(c)'
    <2>1. state'[c] # "S_TIMEOUT" => attempts'[c] <= MaxAttempts + 1
        BY <1>4, JoinAssumption
    <2>2. state'[c] \in {"S_TIMEOUT", "S_INITIAL", "S_JOINING_SERVER"}
        BY <1>4
    <2> HIDE DEF Retry
    <2>3. UNCHANGED <<max_clients, instances, client_id, in_game, self, roster, inbound>>
        BY <1>1 DEF Retry, serverVars, channelVars
    <2> QED
        BY <1>2, <1>4, <2>1, <2>2, <2>3 DEF Inv, ClientOK, Told, Players
<1>7. UNCHANGED <<serverVars, self, roster, in_game>>
    BY <1>1
<1> QED
    BY <1>2, <1>3, <1>4, <1>5, <1>6, <1>7, ClientTurn

LEMMA StartGameInv == ASSUME Inv, NEW c \in Clients, StartGame(c) PROVE Inv'
<1> USE DEF StartGame
<1>1. ChannelsOK' /\ written'["down"] = written["down"]
    BY RequestStep DEF Inv, Requests
<1>2. state[c] = "S_ACCEPTED" /\ in_game'[c] = TRUE
      /\ \A r \in Clients : r # c => in_game'[r] = in_game[r]
    BY DEF Inv, ClientTypes
<1>3. ClientTypes'
    BY DEF Inv, ClientTypes
<1>4. ClientOK(c)'
    BY <1>2 DEF Inv, ClientOK, Told, serverVars, Players
<1> QED
    BY <1>1, <1>2, <1>3, <1>4, ClientTurn DEF serverVars

LEMMA ClientSendsInv == ASSUME Inv, NEW c \in Clients, ClientSends(c) PROVE Inv'
<1> USE DEF ClientSends
<1>1. UNCHANGED <<serverVars, state, attempts, in_game, self, roster, world, written, seen, inbound>>
    BY DEF clientVars
<1>2. ChannelsOK'
    BY SendStep DEF Inv, Ends
<1>3. sent'["down"] = sent["down"]
    BY DEF Send, Inv, ChannelsOK, Shapes, Ends
<1>4. ClientTypes'
    BY <1>1 DEF Inv, ClientTypes
<1>5. ClientOK(c)'
    <2> HIDE DEF ClientSends
    <2>1. UNCHANGED <<max_clients, instances, client_id>>
        BY <1>1 DEF serverVars
    <2>2. Players' = Players
        BY <2>1 DEF Players
    <2> QED
        BY <1>1, <2>1, <2>2 DEF Inv, ClientOK, Told
<1> QED
    BY <1>1, <1>2, <1>3, <1>4, <1>5, ClientTurn

LEMMA ServerSendsInv == ASSUME Inv, NEW c \in Clients, ServerSends(c) PROVE Inv'
<1>1. /\ UNCHANGED <<max_clients, instances, client_id>>
      /\ UNCHANGED <<state, attempts, in_game, self, roster, world, written, seen, inbound>>
      /\ Send("down", c)
    BY DEF ServerSends, serverVars, clientVars
<1>2. /\ ChannelsOK' /\ sent'["down"][c] = sent["down"][c] \cup {Len(written["down"][c])}
      /\ \A r \in Clients : r # c => sent'["down"][r] = sent["down"][r]
    BY <1>1, SendStep DEF Inv, Ends
<1>3. ServerOK' /\ Grows
    <2>1. Players' = Players
        BY <1>1 DEF Players
    <2> QED
        BY <1>1, <2>1, StandsStill DEF Inv, ServerOK
<1>4. AnswersTrue'
    BY <1>1, <1>3, AnswersStay DEF Inv
<1>5. ClientTypes'
    BY <1>1 DEF Inv, ClientTypes
<1>6. ASSUME NEW r \in Clients PROVE ClientOK(r)' /\ InformationComes(r)' /\ InformationFirst(r)'
    <2>1. Aside(r)
        BY <1>1 DEF Aside
    <2>2. \A n \in sent'["down"][r] : n \in sent["down"][r] \/ n = Len(written["down"][r])
        BY <1>2
    <2> QED
        BY <1>1, <1>3, <2>1, <2>2, AsideKept
<1> QED
    BY <1>2, <1>3, <1>4, <1>5, <1>6 DEF Inv

LEMMA ServerReceivesInv ==
    ASSUME Inv, NEW c \in Clients, NEW n, ServerReceives(c, n)
    PROVE  Inv'
<1>1. /\ UNCHANGED <<max_clients, instances, client_id>>
      /\ UNCHANGED <<state, attempts, in_game, self, roster, world, written>>
      /\ Receive("up", c, n)
    BY DEF ServerReceives, serverVars, clientVars
<1>2. /\ ChannelsOK'
      /\ \A r \in Clients : /\ seen'["down"][r] = seen["down"][r]
                            /\ sent'["down"][r] = sent["down"][r]
                            /\ inbound'["down"][r] = inbound["down"][r]
    BY <1>1, ReceiveStep DEF Inv, Ends
<1>3. ServerOK' /\ Grows
    <2>1. Players' = Players
        BY <1>1 DEF Players
    <2> QED
        BY <1>1, <2>1, StandsStill DEF Inv, ServerOK
<1>4. AnswersTrue'
    BY <1>1, <1>3, AnswersStay DEF Inv
<1>5. ClientTypes'
    BY <1>1 DEF Inv, ClientTypes
<1>6. ASSUME NEW r \in Clients PROVE ClientOK(r)' /\ InformationComes(r)' /\ InformationFirst(r)'
    <2>1. Aside(r)
        BY <1>1, <1>2 DEF Aside
    <2>2. \A k \in sent'["down"][r] : k \in sent["down"][r] \/ k = Len(written["down"][r])
        BY <1>2
    <2> QED
        BY <1>1, <1>3, <2>1, <2>2, AsideKept
<1> QED
    BY <1>2, <1>3, <1>4, <1>5, <1>6 DEF Inv

\* The packet with an acceptance has the information that follows it, and the
\* newest message is handled first.
LEMMA ClientReceivesInv ==
    ASSUME Inv, NEW c \in Clients, NEW n, ClientReceives(c, n)
    PROVE  Inv'
<1> DEFINE w == written["down"][c]
           b == inbound'["down"][c]
<1>1. /\ UNCHANGED <<max_clients, instances, client_id>>
      /\ UNCHANGED <<state, attempts, in_game, self, roster, world, written>>
      /\ Receive("down", c, n) /\ Running(c)
    BY DEF ClientReceives, serverVars, clientVars
<1>2. /\ ChannelsOK' /\ n \in sent["down"][c] /\ n \in 1..Len(w)
      /\ seen'["down"][c] = n /\ sent'["down"][c] = {k \in sent["down"][c] : k > n}
      /\ Len(b) = n - seen["down"][c]
      /\ \A j \in 1..Len(b) : b[j] = w[n + 1 - j] /\ n + 1 - j \in (seen["down"][c] + 1)..n
      /\ \A r \in Clients : r # c => /\ seen'["down"][r] = seen["down"][r]
                                     /\ sent'["down"][r] = sent["down"][r]
                                     /\ inbound'["down"][r] = inbound["down"][r]
    <2>1. ChannelsOK /\ "down" \in Ends /\ UNCHANGED written /\ Receive("down", c, n)
        BY <1>1 DEF Inv, Ends
    <2> HIDE DEF w, b
    <2>2. /\ ChannelsOK' /\ n \in sent["down"][c] /\ n \in 1..Len(w)
          /\ seen'["down"][c] = n /\ sent'["down"][c] = {k \in sent["down"][c] : k > n}
          /\ Len(b) = n - seen["down"][c]
        BY <2>1, ReceiveStep DEF w, b
    <2>3. \A j \in 1..Len(b) : b[j] = w[n + 1 - j] /\ n + 1 - j \in (seen["down"][c] + 1)..n
        BY <2>1, ReceiveStep DEF w, b
    <2>4. \A r \in Clients : r # c => /\ seen'["down"][r] = seen["down"][r]
                                     /\ sent'["down"][r] = sent["down"][r]
                                     /\ inbound'["down"][r] = inbound["down"][r]
        BY <2>1, ReceiveStep
    <2> QED
        BY <2>2, <2>3, <2>4
<1>3. Players' = Players /\ ServerOK' /\ Grows
    <2>1. Players' = Players
        BY <1>1 DEF Players
    <2> QED
        BY <1>1, <2>1, StandsStill DEF Inv, ServerOK
<1>4. AnswersTrue'
    BY <1>1, <1>3, AnswersStay DEF Inv
<1>5. ClientTypes'
    BY <1>1 DEF Inv, ClientTypes
<1>6. ASSUME NEW r \in Clients, r # c
      PROVE  ClientOK(r)' /\ InformationComes(r)' /\ InformationFirst(r)'
    <2>1. Aside(r)
        BY <1>1, <1>2, <1>6 DEF Aside
    <2>2. \A k \in sent'["down"][r] : k \in sent["down"][r] \/ k = Len(written["down"][r])
        BY <1>2, <1>6
    <2> QED
        BY <1>1, <1>3, <2>1, <2>2, AsideKept
<1>7. ClientOK(c)'
    <2>1. state[c] # "S_TIMEOUT"
        BY <1>1 DEF Inv, ClientOK, Running, Ended
    <2> QED
        BY <1>1, <1>3, <2>1, ClientKept DEF Inv
<1>8. Len(w) \in Nat /\ seen["down"][c] \in 0..Len(w)
    BY ChannelShape DEF Inv, Ends
<1>9. InformationComes(c)'
    <2>1. \A k \in 1..Len(w) : k > seen'["down"][c] => k > seen["down"][c]
        <3>1. n \in (seen["down"][c] + 1)..Len(w)
            BY <1>2, ChannelShape DEF Inv, Ends
        <3> QED
            BY <1>2, <1>8, <3>1
    <2>2. \A k \in sent'["down"][c] : k \in sent["down"][c] \/ k = Len(w)
        BY <1>2
    <2> HIDE DEF w
    <2>3. w' = w
        BY <1>1 DEF w
    <2> QED
        BY <1>1, <1>3, <2>1, <2>2, ComesKept DEF Inv, w
<1>10. InformationFirst(c)'
    <2> SUFFICES ASSUME NEW j \in 1..Len(b), b[j].type = "ACCEPT_JOIN",
                        NEW i \in Players, i < b[j].client_id
                 PROVE  \E x \in 1..Len(b) : x < j /\ b[x] = Information(i)
        BY <1>1, <1>3 DEF InformationFirst, Information
    <2>1. /\ b[j] = w[n + 1 - j] /\ n + 1 - j \in 1..Len(w) /\ n + 1 - j > seen["down"][c]
          /\ n + 1 - j <= n
        BY <1>2, <1>8
    <2>2. PICK l \in 1..Len(w) : /\ l > n + 1 - j /\ w[l] = Information(i)
                                 /\ \A k \in sent["down"][c] : k >= n + 1 - j => k >= l
        BY <2>1 DEF Inv, InformationComes
    <2>3. l <= n
        BY <2>1, <2>2, <1>2
    <2>4. n + 1 - l \in 1..Len(b) /\ n + 1 - l < j /\ n + 1 - (n + 1 - l) = l
        BY <1>2, <1>8, <2>1, <2>2, <2>3
    <2> QED
        BY <1>2, <2>2, <2>4
<1> QED
    BY <1>2, <1>3, <1>4, <1>5, <1>6, <1>7, <1>9, <1>10 DEF Inv

\* A handler of the server writes what is so, and the information about the
\* players there are behind an acceptance.
LEMMA ServerHandlesInv == ASSUME Inv, NEW c \in Clients, ServerHandles(c) PROVE Inv'
<1>1. PICK q \in [Clients -> Seq(Answers)] : AnswersTo(c, Head(inbound["up"][c]), q)
    BY ServerAnswers DEF Inv
<1>2. /\ Answered(q) /\ GoodAnswers(q) /\ ServerOK' /\ Grows
    BY <1>1 DEF AnswersTo
<1>3. /\ UNCHANGED <<state, attempts, in_game, self, roster, world, seen, sent>>
      /\ Read("up", c)
    BY DEF ServerHandles, clientVars
<1>4. /\ ChannelsOK'
      /\ \A r \in Clients : /\ written'["down"][r] = written["down"][r] \o q[r]
                            /\ inbound'["down"][r] = inbound["down"][r]
    BY <1>2, <1>3, AnswerStep DEF Inv
<1>5. ASSUME NEW r \in Clients
      PROVE  /\ written["down"][r] \in Seq(Answers) /\ q[r] \in Seq(Answers)
             /\ Len(written["down"][r]) \in Nat /\ Len(q[r]) \in Nat
             /\ Len(written'["down"][r]) = Len(written["down"][r]) + Len(q[r])
             /\ \A k \in 1..Len(written["down"][r]) :
                    written'["down"][r][k] = written["down"][r][k]
             /\ \A k \in 1..Len(q[r]) :
                    written'["down"][r][Len(written["down"][r]) + k] = q[r][k]
             /\ \A k \in 1..Len(written'["down"][r]) : k > Len(written["down"][r]) =>
                    k - Len(written["down"][r]) \in 1..Len(q[r])
    <2>1. Channel("down", r) /\ q[r] \in Seq(Kind("down")) /\ Kind("down") = Answers
        BY ChannelShape DEF Inv, Ends, Kind
    <2>2. written["down"][r] \in Seq(Answers)
        BY <2>1 DEF Channel, IsChannel
    <2>3. written'["down"][r] = written["down"][r] \o q[r]
        BY <1>4
    <2> DEFINE w == written["down"][r]
               o == q[r]
    <2>4. w \in Seq(Answers) /\ o \in Seq(Answers)
        BY <2>1, <2>2
    <2> HIDE DEF w, o
    <2>5. /\ Len(w) \in Nat /\ Len(o) \in Nat /\ Len(w \o o) = Len(w) + Len(o)
          /\ \A k \in 1..Len(w) : (w \o o)[k] = w[k]
          /\ \A k \in 1..Len(o) : (w \o o)[Len(w) + k] = o[k]
          /\ \A k \in 1..Len(w \o o) : k > Len(w) => k - Len(w) \in 1..Len(o)
        BY <2>4
    <2> QED
        BY <2>3, <2>4, <2>5 DEF w, o
<1>6. AnswersTrue'
    <2> SUFFICES ASSUME NEW r \in Clients, NEW k \in 1..Len(written'["down"][r])
                 PROVE  NextTrue(r, written'["down"][r][k])
        BY DEF AnswersTrue, IsTrue, NextTrue
    <2>1. CASE k <= Len(written["down"][r])
        <3>1. k \in 1..Len(written["down"][r])
            BY <2>1, <1>5
        <3>2. written'["down"][r][k] = written["down"][r][k] /\ written["down"][r][k] \in Answers
            BY <3>1, <1>5
        <3>3. IsTrue(r, written["down"][r][k])
            BY <3>1 DEF Inv, AnswersTrue
        <3>4. NextTrue(r, written["down"][r][k])
            BY <3>2, <3>3, <1>2, TrueStays DEF Inv
        <3> QED
            BY <3>2, <3>4
    <2>2. CASE k > Len(written["down"][r])
        <3> DEFINE j == k - Len(written["down"][r])
        <3>1. j \in 1..Len(q[r]) /\ Len(written["down"][r]) + j = k
            BY <2>2, <1>5
        <3> HIDE DEF j
        <3>2. written'["down"][r][k] = q[r][j]
            BY <3>1, <1>5
        <3> QED
            BY <3>1, <3>2, <1>2 DEF GoodAnswers
    <2> QED
        BY <2>1, <2>2, <1>5
<1>7. ClientTypes'
    BY <1>3 DEF Inv, ClientTypes
<1>8. ASSUME NEW r \in Clients PROVE ClientOK(r)' /\ InformationFirst(r)'
    <2>1. ClientOK(r)'
        BY <1>2, <1>3, <1>4, ClientKept DEF Inv
    <2>2. InformationFirst(r)'
        BY <1>2, <1>3, <1>4, FirstKept DEF Inv
    <2> QED
        BY <2>1, <2>2
<1>9. ASSUME NEW r \in Clients PROVE InformationComes(r)'
    <2> DEFINE w == written["down"][r]
               v == written'["down"][r]
    <2> SUFFICES ASSUME NEW k \in 1..Len(v), k > seen["down"][r], v[k].type = "ACCEPT_JOIN",
                        NEW i \in Players', i < v[k].client_id
                 PROVE  \E l \in 1..Len(v) :
                            /\ l > k /\ v[l] = PlayerInformation(i, instances'[i].team)
                            /\ \A n \in sent["down"][r] : n >= k => n >= l
        BY <1>3 DEF InformationComes, Information
    <2>1. CASE k <= Len(w)
        <3>1. k \in 1..Len(w) /\ v[k] = w[k]
            BY <2>1, <1>5
        <3>2. w[k].client_id \in Players
            BY <3>1 DEF Inv, AnswersTrue, IsTrue, TrueOf
        <3>3. i \in Players /\ instances'[i] = instances[i]
            BY <3>1, <3>2, <1>2, EarlierPlayers DEF Inv
        <3>4. PICK l \in 1..Len(w) : /\ l > k /\ w[l] = Information(i)
                                     /\ \A n \in sent["down"][r] : n >= k => n >= l
            BY <3>1, <3>3 DEF Inv, InformationComes
        <3>5. l \in 1..Len(v) /\ v[l] = w[l]
            BY <3>4, <1>5
        <3> QED
            BY <3>3, <3>4, <3>5 DEF Information
    <2>2. CASE k > Len(w)
        <3> DEFINE j == k - Len(w)
        <3>1. j \in 1..Len(q[r]) /\ Len(w) + j = k
            BY <2>2, <1>5
        <3> HIDE DEF j
        <3>2. v[k] = q[r][j]
            BY <3>1, <1>5
        <3>3. PICK l \in 1..Len(q[r]) : l > j /\ q[r][l] = PlayerInformation(i, instances'[i].team)
            BY <3>1, <3>2, <1>2 DEF GoodAnswers
        <3>4. Len(w) + l \in 1..Len(v) /\ v[Len(w) + l] = q[r][l] /\ Len(w) + l > k
            BY <3>1, <3>3, <1>5
        <3>5. \A n \in sent["down"][r] : ~ (n >= k)
            <4>1. \A n \in sent["down"][r] : n \in Nat /\ n <= Len(w)
                BY ChannelShape DEF Inv, Ends
            <4> QED
                BY <4>1, <2>2, <1>5
        <3> QED
            BY <3>3, <3>4, <3>5
    <2> QED
        BY <2>1, <2>2, <1>5
<1> QED
    BY <1>2, <1>4, <1>6, <1>7, <1>8, <1>9 DEF Inv

\* What HandleInfo and the others wrote was true, so what the client concludes
\* is; and when it handles an acceptance, it has been told of the earlier players.
LEMMA ClientHandlesInv == ASSUME Inv, NEW c \in Clients, ClientHandles(c) PROVE Inv'
<1> DEFINE b == inbound["down"][c]
           m == Head(b)
<1>1. /\ UNCHANGED <<max_clients, instances, client_id, attempts, in_game, written, seen, sent>>
      /\ Read("down", c)
      /\ IF in_game[c] THEN HandleInGame(c, m) ELSE HandleInJoinLoop(c, m)
    BY DEF ClientHandles, serverVars
<1>2. /\ b # <<>> /\ Len(b) \in Nat \ {0} /\ m = b[1] /\ m \in Answers
      /\ Len(inbound'["down"][c]) = Len(b) - 1
      /\ \A j \in 1..Len(inbound'["down"][c]) :
            inbound'["down"][c][j] = b[j + 1] /\ j + 1 \in 1..Len(b)
      /\ \A x \in Ends, r \in Clients : x # "down" \/ r # c => inbound'[x][r] = inbound[x][r]
      /\ inbound' \in [Ends -> [Clients -> Seq(Requests \cup Answers)]]
      /\ IsChannel(Kind("down"), written["down"][c], seen["down"][c], sent["down"][c],
                   inbound'["down"][c])
    BY <1>1, ReadStep DEF Inv, Ends, Kind
<1>3. ChannelsOK'
    <2>1. \A x \in Ends, r \in Clients : Channel(x, r)'
        BY <1>1, <1>2 DEF Inv, ChannelsOK, Channel
    <2> QED
        BY <1>1, <1>2, <2>1 DEF Inv, ChannelsOK, Shapes
<1>4. Players' = Players /\ ServerOK' /\ Grows
    <2>1. Players' = Players
        BY <1>1 DEF Players
    <2> QED
        BY <1>1, <2>1, StandsStill DEF Inv, ServerOK
<1>5. AnswersTrue'
    BY <1>1, <1>4, AnswersStay DEF Inv
<1>6. IsTrue(c, m)
    <2>1. 1 \in 1..Len(b)
        BY <1>2
    <2> QED
        BY <1>2, <2>1, WaitingAnswer DEF Inv
<1> HIDE DEF m
<1>7. /\ m.type \in {"SERVER_INFO", "ACCEPT_JOIN", "DENY_JOIN", "PLAYER_INFO", "PLAYER_JOINS",
                     "OBJECT_SPAWN"}
      /\ m.type = "SERVER_INFO" => m.number_of_players \in PlayerIds \cup {0}
      /\ m.type = "ACCEPT_JOIN" => m.client_id \in PlayerIds
      /\ m.type \in {"PLAYER_INFO", "PLAYER_JOINS"} => m.client_id \in PlayerIds /\ m.team \in Teams
      /\ m.type = "OBJECT_SPAWN" => m.id \in Bases
    BY <1>2 DEF Answers, DenyJoin
\* What the handlers do, in either loop.
<1>8. /\ state' = state \/ \E e \in ClientStates \ {"S_TIMEOUT"} : state' = [state EXCEPT ![c] = e]
      /\ self' = self \/ (m.type = "ACCEPT_JOIN" /\ self' = [self EXCEPT ![c] = m.client_id])
      /\ \/ roster' = roster /\ m.type # "PLAYER_INFO"
         \/ /\ m.type \in {"PLAYER_INFO", "PLAYER_JOINS"}
            /\ roster' = [roster EXCEPT ![c][m.client_id] = m.team]
      /\ world' = world \/ (m.type = "OBJECT_SPAWN" /\ world' = [world EXCEPT ![c] = @ \cup {m.id}])
    <2>1. CASE in_game[c]
        BY <1>1, <1>7, <2>1 DEF HandleInGame, AddPlayer
    <2>2. CASE ~ in_game[c]
        <3>1. HandleInJoinLoop(c, m)
            BY <1>1, <2>2
        <3>2. CASE m.type = "SERVER_INFO"
            <4>1. UNCHANGED <<self, roster, world>>
                  /\ \E e \in {"S_SERVER_FULL", "S_RECEIVED_INFO"} : state' = [state EXCEPT ![c] = e]
                BY <3>1, <3>2 DEF HandleInJoinLoop
            <4> QED
                BY <3>2, <4>1 DEF ClientStates
        <3>3. CASE m.type = "ACCEPT_JOIN"
            <4>1. /\ UNCHANGED <<roster, world>> /\ state' = [state EXCEPT ![c] = "S_ACCEPTED"]
                  /\ self' = [self EXCEPT ![c] = m.client_id]
                BY <3>1, <3>3 DEF HandleInJoinLoop
            <4> QED
                BY <3>3, <4>1 DEF ClientStates
        <3>4. CASE m.type = "DENY_JOIN"
            <4>1. UNCHANGED <<self, roster, world>> /\ state' = [state EXCEPT ![c] = "S_DENIED"]
                BY <3>1, <3>4 DEF HandleInJoinLoop
            <4> QED
                BY <3>4, <4>1 DEF ClientStates
        <3>5. CASE m.type \in {"PLAYER_INFO", "PLAYER_JOINS", "OBJECT_SPAWN"}
            BY <3>1, <3>5 DEF HandleInJoinLoop, AddPlayer
        <3> QED
            BY <1>7, <3>2, <3>3, <3>4, <3>5
    <2> QED
        BY <2>1, <2>2
<1>9. ClientTypes'
    <2>1. state' \in [Clients -> ClientStates]
        BY <1>8 DEF Inv, ClientTypes
    <2>2. self' \in [Clients -> PlayerIds \cup {0}]
        BY <1>7, <1>8 DEF Inv, ClientTypes
    <2>3. roster' \in [Clients -> [PlayerIds -> Teams \cup {NONE}]]
        <3>1. roster \in [Clients -> [PlayerIds -> Teams \cup {NONE}]]
            BY DEF Inv, ClientTypes
        <3>2. ASSUME m.client_id \in PlayerIds, m.team \in Teams,
                     roster' = [roster EXCEPT ![c][m.client_id] = m.team]
              PROVE  roster' \in [Clients -> [PlayerIds -> Teams \cup {NONE}]]
            <4>1. [roster[c] EXCEPT ![m.client_id] = m.team] \in [PlayerIds -> Teams \cup {NONE}]
                BY <3>1, <3>2
            <4> QED
                BY <3>1, <3>2, <4>1
        <3> QED
            BY <1>7, <1>8, <3>1, <3>2
    <2>4. world' \in [Clients -> SUBSET Bases]
        BY <1>7, <1>8 DEF Inv, ClientTypes
    <2> QED
        BY <1>1, <2>1, <2>2, <2>3, <2>4 DEF Inv, ClientTypes
<1>10. ASSUME NEW r \in Clients, r # c
       PROVE  ClientOK(r)' /\ InformationComes(r)' /\ InformationFirst(r)'
    <2>1. state'[r] = state[r] /\ self'[r] = self[r] /\ roster'[r] = roster[r]
        BY <1>8, <1>10 DEF Inv, ClientTypes
    <2>2. Aside(r)
        BY <1>1, <1>2, <1>10, <2>1 DEF Aside, Ends
    <2> QED
        BY <1>1, <1>4, <2>2, AsideKept
<1>11. InformationComes(c)'
    BY <1>1, <1>4, ComesKept DEF Inv
\* What the client is told is so, and it forgets nothing that is.
<1>12. ASSUME NEW i \in Players
       PROVE  Told(c, i) \/ m = Information(i) => Told(c, i)'
    <2>1. i \in PlayerIds /\ instances' = instances
        BY <1>1 DEF Players
    <2>2. CASE roster' = roster /\ m.type # "PLAYER_INFO"
        BY <2>1, <2>2 DEF Told, Information, PlayerInformation
    <2>3. CASE /\ m.type \in {"PLAYER_INFO", "PLAYER_JOINS"}
               /\ roster' = [roster EXCEPT ![c][m.client_id] = m.team]
        <3>1. m.team = instances[m.client_id].team
            BY <2>3, <1>6 DEF IsTrue, TrueOf
        <3>2. roster'[c][i] = IF i = m.client_id THEN m.team ELSE roster[c][i]
            BY <2>1, <2>3 DEF Inv, ClientTypes
        <3>3. m = Information(i) => i = m.client_id
            BY DEF Information, PlayerInformation
        <3> QED
            BY <2>1, <3>1, <3>2, <3>3 DEF Told
    <2> QED
        BY <1>8, <2>2, <2>3
<1>13. InformationFirst(c)'
    <2> SUFFICES ASSUME NEW j \in 1..Len(inbound'["down"][c]),
                        inbound'["down"][c][j].type = "ACCEPT_JOIN",
                        NEW i \in Players, i < inbound'["down"][c][j].client_id
                 PROVE  \/ Told(c, i)'
                        \/ \E x \in 1..Len(inbound'["down"][c]) :
                            x < j /\ inbound'["down"][c][x] = Information(i)
        BY <1>1, <1>4 DEF InformationFirst, Information
    <2>1. inbound'["down"][c][j] = b[j + 1] /\ j + 1 \in 1..Len(b)
        BY <1>2
    <2>2. Told(c, i) \/ \E x \in 1..Len(b) : x < j + 1 /\ b[x] = Information(i)
        BY <2>1 DEF Inv, InformationFirst
    <2>3. CASE Told(c, i)
        BY <2>3, <1>12
    <2>4. ASSUME NEW x \in 1..Len(b), x < j + 1, b[x] = Information(i)
          PROVE  \/ Told(c, i)'
                 \/ \E y \in 1..Len(inbound'["down"][c]) :
                     y < j /\ inbound'["down"][c][y] = Information(i)
        <3>1. CASE x = 1
            BY <2>4, <3>1, <1>2, <1>12
        <3>2. CASE x # 1
            <4>1. x - 1 \in 1..Len(inbound'["down"][c]) /\ x - 1 < j /\ (x - 1) + 1 = x
                BY <2>4, <3>2, <1>2
            <4>2. inbound'["down"][c][x - 1] = b[x]
                BY <4>1, <1>2
            <4> QED
                BY <2>4, <4>1, <4>2
        <3> QED
            BY <3>1, <3>2
    <2> QED
        BY <2>2, <2>3, <2>4
<1>14. ASSUME m.type = "ACCEPT_JOIN"
       PROVE  /\ m.client_id \in Players /\ instances[m.client_id].client = c
              /\ \A i \in Players : i < m.client_id => Told(c, i)
    <2>1. m.client_id \in Players /\ instances[m.client_id].client = c
        BY <1>14, <1>6 DEF IsTrue, TrueOf
    <2>2. 1 \in 1..Len(b) /\ ~ \E x \in 1..Len(b) : x < 1
        BY <1>2
    <2>3. b[1].type = "ACCEPT_JOIN" /\ m = b[1] /\ InformationFirst(c)
        BY <1>2, <1>14 DEF Inv
    <2>4. \A i \in Players : i < b[1].client_id => Told(c, i)
        BY <2>2, <2>3 DEF InformationFirst
    <2> QED
        BY <2>1, <2>3, <2>4
<1>15. ClientOK(c)'
    <2>1. state[c] # "S_TIMEOUT"
        BY <1>2 DEF Inv, ClientOK
    <2>2. state'[c] # "S_TIMEOUT" /\ attempts'[c] <= MaxAttempts + 1
        BY <1>1, <1>8, <2>1 DEF Inv, ClientOK, ClientTypes
    <2>3. in_game'[c] => state'[c] = "S_ACCEPTED"
        BY <1>1 DEF HandleInGame, Inv, ClientOK
    <2>4. self[c] # 0 => self'[c] # 0
        BY <1>7, <1>8, PlayerIdsAreNumbers DEF Inv, ClientTypes
    <2>5. state'[c] = "S_ACCEPTED" => self'[c] # 0
        <3>1. state'[c] = "S_ACCEPTED" => state[c] = "S_ACCEPTED" \/ self'[c] \in PlayerIds
            BY <1>1, <1>7 DEF HandleInGame, HandleInJoinLoop, Inv, ClientTypes
        <3> QED
            BY <2>4, <3>1, PlayerIdsAreNumbers DEF Inv, ClientOK
    <2>6. state'[c] = "S_DENIED" => state[c] = "S_DENIED" \/ m.type = "DENY_JOIN"
        BY <1>1, <1>7 DEF HandleInGame, HandleInJoinLoop, Inv, ClientTypes
    <2>7. state'[c] = "S_SERVER_FULL" =>
            \/ state[c] = "S_SERVER_FULL"
            \/ m.type = "SERVER_INFO" /\ m.number_of_players = MAXPLAYERS
        BY <1>1, <1>7 DEF HandleInGame, HandleInJoinLoop, Inv, ClientTypes
    <2>8. /\ state'[c] = "S_DENIED" => Cardinality(Players) >= max_clients
          /\ state'[c] = "S_SERVER_FULL" => Cardinality(Players) >= MAXPLAYERS
        <3>1. m.type = "DENY_JOIN" => Cardinality(Players) >= max_clients
            BY <1>6 DEF IsTrue, TrueOf
        <3>2. m.type = "SERVER_INFO" /\ m.number_of_players = MAXPLAYERS =>
                Cardinality(Players) >= MAXPLAYERS
            <4>1. Cardinality(Players) \in Nat /\ MAXPLAYERS \in Nat
                BY FS_CardinalityType, JoinAssumption DEF Inv, ServerOK
            <4> QED
                BY <1>6, <4>1 DEF IsTrue, TrueOf
        <3> QED
            BY <2>6, <2>7, <3>1, <3>2 DEF Inv, ClientOK
    <2>9. ASSUME self'[c] # 0
          PROVE  /\ self'[c] \in Players /\ instances[self'[c]].client = c
                 /\ \A i \in Players : i < self'[c] => Told(c, i)
        <3>1. CASE self' = self
            BY <2>9, <3>1 DEF Inv, ClientOK
        <3>2. CASE m.type = "ACCEPT_JOIN" /\ self' = [self EXCEPT ![c] = m.client_id]
            <4>1. self'[c] = m.client_id
                BY <3>2 DEF Inv, ClientTypes
            <4> QED
                BY <3>2, <4>1, <1>14
        <3> QED
            BY <1>8, <3>1, <3>2
    <2>10. self'[c] # 0 =>
            /\ self'[c] \in Players' /\ instances'[self'[c]].client = c
            /\ \A i \in Players' : i < self'[c] => Told(c, i)'
        BY <1>1, <1>4, <1>12, <2>9
    <2> QED
        BY <1>1, <1>4, <2>2, <2>3, <2>5, <2>8, <2>10 DEF ClientOK
<1> QED
    BY <1>3, <1>4, <1>5, <1>9, <1>10, <1>11, <1>13, <1>15 DEF Inv

LEMMA NextInv == Inv /\ [Next]_vars => Inv'
<1> SUFFICES ASSUME Inv, [Next]_vars PROVE Inv'
    OBVIOUS
<1>1. CASE UNCHANGED vars
    <2>1. /\ UNCHANGED <<max_clients, instances, client_id>>
          /\ UNCHANGED <<state, attempts, in_game, self, roster, world>>
          /\ UNCHANGED <<written, seen, sent, inbound>>
        BY <1>1 DEF vars, serverVars, clientVars, channelVars
    <2>2. Players' = Players
        BY <2>1 DEF Players
    <2>3. ChannelsOK' /\ ServerOK' /\ AnswersTrue' /\ ClientTypes'
        BY <2>1, <2>2 DEF Inv, ChannelsOK, Shapes, Channel, ServerOK, AnswersTrue, IsTrue, ClientTypes
    <2>4. Grows
        BY <2>1, StandsStill DEF Inv
    <2>5. \A c \in Clients : Aside(c)
        BY <2>1 DEF Aside
    <2> QED
        BY <2>1, <2>3, <2>4, <2>5, AsideKept DEF Inv
<1>2. ASSUME NEW c \in Clients, ClientStep(c) PROVE Inv'
    BY <1>2, RequestInfoInv, ReceivedInfoInv, RequestJoinInv, StartGameInv, TimeoutInv,
       ClientSendsInv, ClientHandlesInv, ClientReceivesInv DEF ClientStep
<1>3. ASSUME NEW c \in Clients, ServerStep(c) PROVE Inv'
    BY <1>3, ServerSendsInv, ServerHandlesInv, ServerReceivesInv DEF ServerStep
<1> QED
    BY <1>1, <1>2, <1>3 DEF Next

LEMMA Invariant == Spec => []Inv
BY InitInv, NextInv, PTL DEF Spec

-----------------------------------------------------------------------------
(* The theorems *)

LEMMA InvTypes == Inv => TypeOK
<1> SUFFICES ASSUME Inv PROVE TypeOK
    OBVIOUS
<1>1. Requests \cup Answers \subseteq Message
    BY DEF Requests, GetServerInfo, RequestJoinGame, SyncWorld, Answers, DenyJoin, Message
<1>2. ASSUME NEW d \in Ends, NEW c \in Clients
      PROVE  /\ written[d][c] \in Seq(Message) /\ inbound[d][c] \in Seq(Message)
             /\ seen[d][c] \in 0..Len(written[d][c])
             /\ sent[d][c] \subseteq (seen[d][c] + 1)..Len(written[d][c])
    <2>1. written[d][c] \in Seq(Requests \cup Answers) /\ inbound[d][c] \in Seq(Requests \cup Answers)
        BY DEF Inv, ChannelsOK, Shapes
    <2>2. written[d][c] \in Seq(Message) /\ inbound[d][c] \in Seq(Message)
        BY <1>1, <2>1, SeqGrows
    <2> QED
        BY <2>2, ChannelShape DEF Inv
<1>3. /\ max_clients \in Limits
      /\ instances \in [PlayerIds -> [client : Clients, team : Teams] \cup {Null}]
      /\ client_id \in [Clients -> PlayerIds \cup {0}]
    BY DEF Inv, ServerOK
<1>4. ClientTypes
    BY DEF Inv
<1> QED
    BY <1>2, <1>3, <1>4 DEF TypeOK, Ends, ClientTypes, ClientStates

LEMMA InvRefused == Inv => RefusedWhenFull
<1> SUFFICES ASSUME Inv, NEW c \in Clients
             PROVE  /\ state[c] = "S_DENIED" => Cardinality(Players) = max_clients
                    /\ state[c] = "S_SERVER_FULL" => Cardinality(Players) >= MAXPLAYERS
    BY DEF RefusedWhenFull
<1>1. Cardinality(Players) \in Nat /\ max_clients \in Nat /\ Cardinality(Players) <= max_clients
    <2>1. IsFiniteSet(Players) /\ max_clients \in Limits /\ Cardinality(Players) <= max_clients
        BY DEF Inv, ServerOK
    <2> QED
        BY <2>1, FS_CardinalityType, PlayerIdsAreNumbers
<1>2. /\ state[c] = "S_DENIED" => Cardinality(Players) >= max_clients
      /\ state[c] = "S_SERVER_FULL" => Cardinality(Players) >= MAXPLAYERS
    BY DEF Inv, ClientOK
<1> QED
    BY <1>1, <1>2

LEMMA InvEarlier == Inv => EarlierPlayersKnown
<1> SUFFICES ASSUME Inv, NEW c \in Clients, in_game[c], NEW i \in Players, i < self[c]
             PROVE  roster[c][i] = instances[i].team
    BY DEF EarlierPlayersKnown
<1>1. self[c] # 0
    BY DEF Inv, ClientOK
<1> QED
    BY <1>1 DEF Inv, ClientOK, Told

\* What the server and the clients keep, and every message on the way and every
\* packet counter, is of its type, however many join: the join loop, GameLoop,
\* HandleInfo, HandleJoin and HandleSyncWorld over the message channels.
THEOREM TypeCorrect == Spec => []TypeOK
BY Invariant, InvTypes, PTL

\* A client that ends in S_DENIED or S_SERVER_FULL was told the truth by
\* HandleJoin or HandleInfo, and it still is: nobody leaves in the meantime.
THEOREM RefusedWhenFullHolds == Spec => []RefusedWhenFull
BY Invariant, InvRefused, PTL

\* Whoever starts GameLoop knows the players before it: HandleJoin writes them
\* behind ACCEPT_JOIN, so that they are handled before it (the newest message of
\* a packet comes first), by the callbacks of the join loop, which are still set.
THEOREM EarlierPlayersKnownHolds == Spec => []EarlierPlayersKnown
BY Invariant, InvEarlier, PTL

-----------------------------------------------------------------------------
(* Every player was asked for *)

\* The requests that were handled, and made the players of c, are among those c
\* wrote and not among those that wait or are under way.
AskedFor(c) ==
    LET b == inbound["up"][c]
    IN  \E lo \in Nat, handled \in SUBSET JoinRequests(c) :
            /\ lo + Len(b) <= seen["up"][c]
            /\ \A j \in 1..Len(b) : b[j] = written["up"][c][lo + Len(b) + 1 - j]
            /\ \A h \in handled : h <= seen["up"][c] /\ h \notin (lo + 1)..(lo + Len(b))
            /\ Cardinality(PlayersOf(c)) <= Cardinality(handled)

\* A session that has a player has the id of one.
OwnOK(c) == AskedFor(c) /\ (PlayersOf(c) # {} => client_id[c] \in PlayersOf(c))

\* What c wrote is finite, and what it writes next changes no earlier request.
LEMMA RequestsStay ==
    ASSUME ChannelsOK, ChannelsOK', NEW c \in Clients, NEW q \in Seq(Requests),
           written'["up"][c] = written["up"][c] \o q
    PROVE  /\ \A k \in 1..Len(written["up"][c]) : written'["up"][c][k] = written["up"][c][k]
           /\ JoinRequests(c) \subseteq JoinRequests(c)'
<1>1. written["up"][c] \in Seq(Requests) /\ Len(written["up"][c]) \in Nat
    BY ChannelShape DEF Ends, Kind
<1> DEFINE w == written["up"][c]
<1> HIDE DEF w
<1>2. \A k \in 1..Len(w) : k \in 1..Len(w \o q) /\ (w \o q)[k] = w[k]
    BY <1>1 DEF w
<1> QED
    BY <1>2 DEF JoinRequests, w

LEMMA PlayersAreFinite ==
    ASSUME ServerOK, NEW c \in Clients
    PROVE  IsFiniteSet(PlayersOf(c)) /\ Cardinality(PlayersOf(c)) \in Nat
<1>1. PlayersOf(c) \in SUBSET Players
    BY DEF PlayersOf
<1> QED
    BY <1>1, FS_Subset, FS_CardinalityType DEF ServerOK

LEMMA RequestsAreFinite ==
    ASSUME ChannelsOK, NEW c \in Clients, NEW handled \in SUBSET JoinRequests(c)
    PROVE  /\ IsFiniteSet(handled) /\ Cardinality(handled) \in Nat
           /\ Cardinality(JoinRequests(c)) \in Nat
           /\ Cardinality(handled) <= Cardinality(JoinRequests(c))
<1>1. Len(written["up"][c]) \in Nat
    BY ChannelShape DEF Ends
<1>2. IsFiniteSet(1..Len(written["up"][c]))
    BY <1>1, FS_Interval
<1>3. JoinRequests(c) \in SUBSET (1..Len(written["up"][c]))
    BY DEF JoinRequests
<1>4. IsFiniteSet(JoinRequests(c))
    BY <1>2, <1>3, FS_Subset
<1> QED
    BY <1>4, FS_Subset, FS_CardinalityType

\* A client whose channel only grows keeps its players.
LEMMA OwnKept ==
    ASSUME ChannelsOK, ChannelsOK', NEW c \in Clients, OwnOK(c), NEW q \in Seq(Requests),
           written'["up"][c] = written["up"][c] \o q,
           seen'["up"][c] = seen["up"][c], inbound'["up"][c] = inbound["up"][c],
           PlayersOf(c)' = PlayersOf(c), client_id'[c] = client_id[c]
    PROVE  OwnOK(c)'
<1> DEFINE b == inbound["up"][c]
           w == written["up"][c]
           s == seen["up"][c]
<1>1. PICK lo \in Nat, handled \in SUBSET JoinRequests(c) :
        /\ lo + Len(b) <= s
        /\ \A j \in 1..Len(b) : b[j] = w[lo + Len(b) + 1 - j]
        /\ \A h \in handled : h <= s /\ h \notin (lo + 1)..(lo + Len(b))
        /\ Cardinality(PlayersOf(c)) <= Cardinality(handled)
    BY DEF OwnOK, AskedFor
<1>2. Len(b) \in Nat /\ Len(w) \in Nat /\ s \in 0..Len(w)
    BY ChannelShape DEF Ends
<1>3. handled \in SUBSET (JoinRequests(c)') /\ \A k \in 1..Len(w) : written'["up"][c][k] = w[k]
    BY RequestsStay
<1> HIDE DEF b, w, s
<1>4. \A j \in 1..Len(b) : lo + Len(b) + 1 - j \in 1..Len(w)
    BY <1>1, <1>2
<1>5. \A j \in 1..Len(b) : b[j] = written'["up"][c][lo + Len(b) + 1 - j]
    BY <1>1, <1>3, <1>4
<1>6. inbound'["up"][c] = b /\ seen'["up"][c] = s
    BY DEF b, s
<1>7. AskedFor(c)'
    BY <1>1, <1>3, <1>5, <1>6 DEF AskedFor
<1> QED
    BY <1>7 DEF OwnOK

\* The server is handed the packet that covers n messages.
LEMMA OwnReceived ==
    ASSUME ChannelsOK, ServerOK, NEW c \in Clients, OwnOK(c), NEW n, Receive("up", c, n),
           UNCHANGED <<written, instances, client_id>>
    PROVE  OwnOK(c)'
<1> DEFINE b == inbound'["up"][c]
           w == written["up"][c]
           s == seen["up"][c]
<1>1. PICK handled \in SUBSET JoinRequests(c) :
        /\ \A h \in handled : h <= s
        /\ Cardinality(PlayersOf(c)) <= Cardinality(handled)
    BY DEF OwnOK, AskedFor
<1>2. /\ seen'["up"][c] = n /\ Len(b) = n - s /\ n \in sent["up"][c]
      /\ \A j \in 1..Len(b) : b[j] = w[n + 1 - j]
    BY ReceiveStep DEF Ends
<1>3. s \in Nat /\ n \in Nat /\ s <= n
    BY <1>2, ChannelShape DEF Ends
<1>4. handled \subseteq Nat
    <2>1. Len(w) \in Nat
        BY ChannelShape DEF Ends
    <2> QED
        BY <2>1 DEF JoinRequests
<1>5. PlayersOf(c)' = PlayersOf(c) /\ JoinRequests(c)' = JoinRequests(c)
    BY DEF PlayersOf, Players, JoinRequests
<1> HIDE DEF b, s
<1>6. s + Len(b) = n /\ \A h \in handled : h <= n /\ h \notin (s + 1)..(s + Len(b))
    BY <1>1, <1>2, <1>3, <1>4
<1>7. \A j \in 1..Len(b) : b[j] = w[s + Len(b) + 1 - j]
    BY <1>2, <1>6
<1>8. AskedFor(c)'
    BY <1>1, <1>2, <1>3, <1>5, <1>6, <1>7 DEF AskedFor, b
<1> QED
    BY <1>5, <1>8 DEF OwnOK

\* What handling a message does to the players: nothing, or JOIN_GAME makes one.
MakesPlayer(c, new) ==
    /\ Head(inbound["up"][c]) = RequestJoinGame
    /\ new \in PlayerIds \ Players /\ Players' = Players \cup {new}
    /\ \A i \in Players : instances'[i] = instances[i]
    /\ instances'[new].client = c
    /\ client_id' = [client_id EXCEPT ![c] = new]

LEMMA HandledPlayers ==
    ASSUME ChannelsOK, ServerOK, NEW c \in Clients, ServerHandles(c)
    PROVE  UNCHANGED <<instances, client_id>> \/ \E new : MakesPlayer(c, new)
<1> DEFINE request == Head(inbound["up"][c])
<1>1. request \in Requests
    BY ReadStep DEF ServerHandles, Ends, Kind
<1>2. /\ GetServerInfo # RequestJoinGame /\ GetServerInfo # SyncWorld
      /\ RequestJoinGame # SyncWorld
    BY DEF GetServerInfo, RequestJoinGame, SyncWorld
<1>3. /\ request = GetServerInfo => HandleInfo(c)
      /\ request = RequestJoinGame => HandleJoin(c)
      /\ request = SyncWorld => HandleSyncWorld(c)
    BY <1>1, <1>2 DEF ServerHandles, Requests
<1>4. CASE request = RequestJoinGame /\ Cardinality(Players) < max_clients
    <2>1. PICK garbage \in GarbageTeams : AcceptPlayer(c, GetBalancedTeam(garbage))
        BY <1>3, <1>4 DEF HandleJoin
    <2> DEFINE team == GetBalancedTeam(garbage)
    <2>2. team \in Teams /\ AcceptPlayer(c, team)
        BY <2>1 DEF GetBalancedTeam, Teams
    <2> HIDE DEF team
    <2>3. /\ Grows /\ Players' = Players \cup {GeneratePlayerID}
          /\ GeneratePlayerID \in PlayerIds \ Players
          /\ instances'[GeneratePlayerID].client = c
          /\ client_id' = [client_id EXCEPT ![c] = GeneratePlayerID]
        BY <1>4, <2>2, AcceptGrows
    <2>4. MakesPlayer(c, GeneratePlayerID)
        BY <1>4, <2>3 DEF MakesPlayer, Grows
    <2> QED
        BY <2>4
<1>5. CASE ~ (request = RequestJoinGame /\ Cardinality(Players) < max_clients)
    BY <1>1, <1>3, <1>5 DEF Requests, HandleInfo, HandleJoin, HandleSyncWorld, serverVars
<1> QED
    BY <1>4, <1>5

\* The message in front is handled: if it made a player, it was not handled before.
LEMMA OwnHandled ==
    ASSUME ChannelsOK, ServerOK, NEW c \in Clients, OwnOK(c), Read("up", c),
           UNCHANGED seen, written'["up"] = written["up"],
           UNCHANGED <<instances, client_id>> \/ \E new : MakesPlayer(c, new)
    PROVE  OwnOK(c)'
<1> DEFINE b == inbound["up"][c]
           w == written["up"][c]
           s == seen["up"][c]
<1>1. PICK lo \in Nat, handled \in SUBSET JoinRequests(c) :
        /\ lo + Len(b) <= s
        /\ \A j \in 1..Len(b) : b[j] = w[lo + Len(b) + 1 - j]
        /\ \A h \in handled : h <= s /\ h \notin (lo + 1)..(lo + Len(b))
        /\ Cardinality(PlayersOf(c)) <= Cardinality(handled)
    BY DEF OwnOK, AskedFor
<1> DEFINE rest == inbound'["up"][c]
           p == lo + Len(b)
<1>2. /\ Len(b) \in Nat \ {0} /\ Head(b) = b[1] /\ Len(rest) = Len(b) - 1
      /\ \A j \in 1..Len(rest) : rest[j] = b[j + 1] /\ j + 1 \in 1..Len(b)
    BY ReadStep DEF Ends
<1>3. s \in Nat /\ Len(w) \in Nat /\ s <= Len(w) /\ handled \subseteq Nat
    <2>1. Len(w) \in Nat /\ s \in 0..Len(w)
        BY ChannelShape DEF Ends
    <2> QED
        BY <2>1 DEF JoinRequests
<1>4. JoinRequests(c)' = JoinRequests(c)
    BY DEF JoinRequests
<1>5. seen'["up"][c] = s /\ written'["up"][c] = w
    OBVIOUS
<1> HIDE DEF b, w, s, rest
<1>6. p \in 1..Len(w) /\ p <= s /\ w[p] = Head(b) /\ p \notin handled
    <2>1. 1 \in 1..Len(b) /\ lo + Len(b) + 1 - 1 = p /\ p \in (lo + 1)..(lo + Len(b))
        BY <1>2
    <2>2. b[1] = w[p]
        BY <1>1, <2>1
    <2> QED
        BY <1>1, <1>2, <1>3, <2>1, <2>2
<1>7. /\ lo + Len(rest) <= s
      /\ \A j \in 1..Len(rest) : rest[j] = w[lo + Len(rest) + 1 - j]
    <2>1. \A j \in 1..Len(rest) : lo + Len(b) + 1 - (j + 1) = lo + Len(rest) + 1 - j
        BY <1>2
    <2>2. \A j \in 1..Len(rest) : rest[j] = w[lo + Len(b) + 1 - (j + 1)]
        BY <1>1, <1>2
    <2>3. lo + Len(rest) <= s
        BY <1>1, <1>2, <1>3
    <2> QED
        BY <2>1, <2>2, <2>3
<1>8. \A h \in handled \cup {p} : h <= s /\ h \notin (lo + 1)..(lo + Len(rest))
    <2>1. p > lo + Len(rest)
        BY <1>2
    <2>2. \A h \in handled : h \notin (lo + 1)..(lo + Len(rest))
        BY <1>1, <1>2, <1>3
    <2>3. p \notin (lo + 1)..(lo + Len(rest))
        BY <2>1, <1>2
    <2> QED
        BY <1>1, <1>6, <2>2, <2>3
<1> DEFINE Counted(set) == Cardinality(PlayersOf(c))' <= Cardinality(set)
<1>9. ASSUME NEW set \in SUBSET (handled \cup {p}), set \in SUBSET JoinRequests(c), Counted(set)
      PROVE  AskedFor(c)'
    <2>1. \A h \in set : h <= s /\ h \notin (lo + 1)..(lo + Len(rest))
        BY <1>8, <1>9
    <2> QED
        BY <2>1, <1>4, <1>5, <1>7, <1>9 DEF AskedFor, rest
<1>10. CASE UNCHANGED <<instances, client_id>>
    <2>1. PlayersOf(c)' = PlayersOf(c)
        BY <1>10 DEF PlayersOf, Players
    <2>2. AskedFor(c)'
        BY <1>1, <1>9, <2>1
    <2> QED
        BY <2>1, <2>2, <1>10 DEF OwnOK
<1>11. ASSUME NEW new, MakesPlayer(c, new) PROVE OwnOK(c)'
    <2>1. PlayersOf(c)' = PlayersOf(c) \cup {new} /\ new \notin PlayersOf(c)
        <3>1. /\ Players' = Players \cup {new} /\ new \notin Players
              /\ instances'[new].client = c /\ \A i \in Players : instances'[i] = instances[i]
            BY <1>11 DEF MakesPlayer
        <3> QED
            BY <3>1 DEF PlayersOf
    <2>2. /\ IsFiniteSet(PlayersOf(c)) /\ Cardinality(PlayersOf(c)) \in Nat
          /\ IsFiniteSet(handled) /\ Cardinality(handled) \in Nat
        BY PlayersAreFinite, RequestsAreFinite
    <2>3. Cardinality(PlayersOf(c) \cup {new}) = Cardinality(PlayersOf(c)) + 1
        BY <2>1, <2>2, FS_AddElement
    <2>4. Cardinality(handled \cup {p}) = Cardinality(handled) + 1
        BY <1>6, <2>2, FS_AddElement
    <2>5. handled \cup {p} \in SUBSET JoinRequests(c)
        <3>1. w[p] = RequestJoinGame
            BY <1>6, <1>11 DEF MakesPlayer, b
        <3> QED
            BY <3>1, <1>6 DEF JoinRequests, w
    <2>6. Counted(handled \cup {p})
        BY <1>1, <2>1, <2>2, <2>3, <2>4
    <2>7. AskedFor(c)'
        BY <1>9, <2>5, <2>6
    <2>8. client_id'[c] = new
        BY <1>11 DEF MakesPlayer, ServerOK
    <2> QED
        BY <2>1, <2>7, <2>8 DEF OwnOK
<1> QED
    BY <1>10, <1>11

LEMMA OwnInit == Inv /\ Init => \A c \in Clients : OwnOK(c)
<1> SUFFICES ASSUME Inv, Init, NEW c \in Clients PROVE OwnOK(c)
    OBVIOUS
<1>1. PlayersOf(c) = {} /\ inbound["up"][c] = <<>> /\ seen["up"][c] = 0
    BY NoPlayersYet DEF PlayersOf, Init
<1>2. Len(inbound["up"][c]) = 0 /\ Cardinality(PlayersOf(c)) = 0 /\ Cardinality({}) = 0
    BY <1>1, FS_EmptySet
<1>3. {} \in SUBSET JoinRequests(c) /\ 0 \in Nat
    OBVIOUS
<1>4. AskedFor(c)
    BY <1>1, <1>2, <1>3 DEF AskedFor
<1> QED
    BY <1>1, <1>4 DEF OwnOK

\* A step of a client: it writes a request, or leaves what concerns its players.
LEMMA OwnClientStep ==
    ASSUME Inv, Inv', NEW c \in Clients, ClientStep(c), NEW r \in Clients, OwnOK(r)
    PROVE  OwnOK(r)'
<1>1. UNCHANGED <<instances, client_id>> /\ PlayersOf(r)' = PlayersOf(r)
    <2>1. UNCHANGED serverVars
        BY DEF ClientStep, RequestInfo, ReceivedInfo, RequestJoin, StartGame, Timeout, Retry,
               ClientSends, ClientHandles, ClientReceives
    <2> QED
        BY <2>1 DEF serverVars, PlayersOf, Players
<1>2. <<>> \in Seq(Requests) /\ written["up"][r] \o <<>> = written["up"][r]
    BY ChannelShape DEF Inv, Ends, Kind
<1>3. ASSUME written'["up"][r] = written["up"][r], seen'["up"][r] = seen["up"][r],
             inbound'["up"][r] = inbound["up"][r]
      PROVE  OwnOK(r)'
    BY <1>1, <1>2, <1>3, OwnKept DEF Inv
<1>4. ASSUME NEW m \in Requests, Write("up", c, <<m>>), UNCHANGED <<seen, sent, inbound>>
      PROVE  OwnOK(r)'
    <2>1. /\ written'["up"][c] = written["up"][c] \o <<m>>
          /\ \A x \in Clients : x # c => written'["up"][x] = written["up"][x]
        BY <1>4, RequestStep DEF Inv
    <2>2. <<m>> \in Seq(Requests)
        OBVIOUS
    <2>3. CASE r = c
        BY <2>1, <2>2, <2>3, <1>1, <1>4, OwnKept DEF Inv
    <2>4. CASE r # c
        BY <2>1, <2>4, <1>3, <1>4
    <2> QED
        BY <2>3, <2>4
<1>5. CASE RequestInfo(c)
    BY <1>4, <1>5 DEF RequestInfo, Requests
<1>6. CASE RequestJoin(c)
    BY <1>4, <1>6 DEF RequestJoin, Requests
<1>7. CASE StartGame(c)
    BY <1>4, <1>7 DEF StartGame, Requests
<1>8. CASE ReceivedInfo(c) \/ Timeout(c)
    BY <1>3, <1>8 DEF ReceivedInfo, Timeout, Retry, channelVars
<1>9. CASE ClientSends(c)
    BY <1>3, <1>9 DEF ClientSends
<1>10. CASE ClientHandles(c)
    <2>1. Read("down", c) /\ UNCHANGED <<written, seen>>
        BY <1>10 DEF ClientHandles
    <2>2. inbound'["up"][r] = inbound["up"][r]
        BY <2>1, ReadStep DEF Inv, Ends
    <2> QED
        BY <2>1, <2>2, <1>3
<1>11. ASSUME NEW n, ClientReceives(c, n) PROVE OwnOK(r)'
    <2>1. Receive("down", c, n) /\ UNCHANGED written
        BY <1>11 DEF ClientReceives
    <2>2. inbound'["up"][r] = inbound["up"][r] /\ seen'["up"][r] = seen["up"][r]
        BY <2>1, ReceiveStep DEF Inv, Ends
    <2> QED
        BY <2>1, <2>2, <1>3
<1> QED
    BY <1>5, <1>6, <1>7, <1>8, <1>9, <1>10, <1>11 DEF ClientStep

LEMMA OwnServerStep ==
    ASSUME Inv, Inv', NEW c \in Clients, ServerStep(c), NEW r \in Clients, OwnOK(r)
    PROVE  OwnOK(r)'
<1>1. <<>> \in Seq(Requests) /\ written["up"][r] \o <<>> = written["up"][r]
    BY ChannelShape DEF Inv, Ends, Kind
<1>2. ASSUME written'["up"][r] = written["up"][r], seen'["up"][r] = seen["up"][r],
             inbound'["up"][r] = inbound["up"][r],
             PlayersOf(r)' = PlayersOf(r), client_id'[r] = client_id[r]
      PROVE  OwnOK(r)'
    BY <1>1, <1>2, OwnKept DEF Inv
<1>3. CASE ServerSends(c)
    <2>1. UNCHANGED <<instances, client_id, written, seen, inbound>>
        BY <1>3 DEF ServerSends, serverVars
    <2> QED
        BY <2>1, <1>2 DEF PlayersOf, Players
<1>4. ASSUME NEW n, ServerReceives(c, n) PROVE OwnOK(r)'
    <2>1. Receive("up", c, n) /\ UNCHANGED <<written, instances, client_id>>
        BY <1>4 DEF ServerReceives, serverVars
    <2>2. CASE r = c
        BY <2>1, <2>2, OwnReceived DEF Inv
    <2>3. CASE r # c
        <3>1. inbound'["up"][r] = inbound["up"][r] /\ seen'["up"][r] = seen["up"][r]
            BY <2>1, <2>3, ReceiveStep DEF Inv, Ends
        <3> QED
            BY <2>1, <3>1, <1>2 DEF PlayersOf, Players
    <2> QED
        BY <2>2, <2>3
<1>5. CASE ServerHandles(c)
    <2>1. PICK q \in [Clients -> Seq(Answers)] : AnswersTo(c, Head(inbound["up"][c]), q)
        BY <1>5, ServerAnswers DEF Inv
    <2>2. Read("up", c) /\ UNCHANGED <<seen, sent>>
        BY <1>5 DEF ServerHandles
    <2>3. written'["up"] = written["up"]
        BY <2>1, <2>2, AnswerStep DEF Inv, AnswersTo
    <2>4. UNCHANGED <<instances, client_id>> \/ \E new : MakesPlayer(c, new)
        BY <1>5, HandledPlayers DEF Inv
    <2>5. CASE r = c
        BY <2>2, <2>3, <2>4, <2>5, OwnHandled DEF Inv
    <2>6. CASE r # c
        <3>1. inbound'["up"][r] = inbound["up"][r]
            BY <2>2, <2>6, ReadStep DEF Inv, Ends
        <3>2. PlayersOf(r)' = PlayersOf(r) /\ client_id'[r] = client_id[r]
            <4>1. CASE UNCHANGED <<instances, client_id>>
                BY <4>1 DEF PlayersOf, Players
            <4>2. ASSUME NEW new, MakesPlayer(c, new)
                  PROVE  PlayersOf(r)' = PlayersOf(r) /\ client_id'[r] = client_id[r]
                BY <4>2, <2>6 DEF MakesPlayer, PlayersOf, Inv, ServerOK
            <4> QED
                BY <2>4, <4>1, <4>2
        <3> QED
            BY <2>2, <2>3, <3>1, <3>2, <1>2
    <2> QED
        BY <2>5, <2>6
<1> QED
    BY <1>3, <1>4, <1>5 DEF ServerStep

LEMMA OwnNext ==
    Inv /\ Inv' /\ (\A c \in Clients : OwnOK(c)) /\ [Next]_vars => (\A c \in Clients : OwnOK(c))'
<1> SUFFICES ASSUME Inv, Inv', \A x \in Clients : OwnOK(x), [Next]_vars, NEW r \in Clients
             PROVE  OwnOK(r)'
    OBVIOUS
<1>1. CASE UNCHANGED vars
    <2>1. UNCHANGED <<written, seen, inbound, instances, client_id>>
        BY <1>1 DEF vars, serverVars, channelVars
    <2>2. JoinRequests(r)' = JoinRequests(r) /\ PlayersOf(r)' = PlayersOf(r)
        BY <2>1 DEF JoinRequests, PlayersOf, Players
    <2> QED
        BY <2>1, <2>2 DEF OwnOK, AskedFor
<1>2. ASSUME NEW c \in Clients, ClientStep(c) PROVE OwnOK(r)'
    BY <1>2, OwnClientStep
<1>3. ASSUME NEW c \in Clients, ServerStep(c) PROVE OwnOK(r)'
    BY <1>3, OwnServerStep
<1> QED
    BY <1>1, <1>2, <1>3 DEF Next

LEMMA InvOwn == Inv /\ (\A c \in Clients : OwnOK(c)) => OwnPlayer
<1> SUFFICES ASSUME Inv, NEW c \in Clients, OwnOK(c)
             PROVE  /\ Cardinality(PlayersOf(c)) <= Cardinality(JoinRequests(c))
                    /\ in_game[c] => {self[c], client_id[c]} \subseteq PlayersOf(c)
    BY DEF OwnPlayer
<1>1. PICK handled \in SUBSET JoinRequests(c) : Cardinality(PlayersOf(c)) <= Cardinality(handled)
    BY DEF OwnOK, AskedFor
<1>2. /\ Cardinality(handled) \in Nat /\ Cardinality(JoinRequests(c)) \in Nat
      /\ Cardinality(handled) <= Cardinality(JoinRequests(c))
    BY RequestsAreFinite DEF Inv
<1>3. Cardinality(PlayersOf(c)) \in Nat
    BY PlayersAreFinite DEF Inv
<1>4. in_game[c] => self[c] \in PlayersOf(c)
    BY DEF Inv, ClientOK, PlayersOf
<1>5. in_game[c] => client_id[c] \in PlayersOf(c)
    BY <1>4 DEF OwnOK
<1> QED
    BY <1>1, <1>2, <1>3, <1>4, <1>5

\* Whatever is lost and however often a client repeats its questions, HandleJoin
\* makes no more players than it was asked for, and the player a client plays and
\* the one its session names are both its own: with one JOIN_GAME, the same.
THEOREM OwnPlayerHolds == Spec => []OwnPlayer
<1> DEFINE Own == \A c \in Clients : OwnOK(c)
<1>1. Inv /\ Init => Own
    BY OwnInit
<1>2. Inv /\ Inv' /\ Own /\ [Next]_vars => Own'
    BY OwnNext
<1>3. Inv /\ Own => OwnPlayer
    BY InvOwn
<1> HIDE DEF Own
<1> QED
    BY <1>1, <1>2, <1>3, Invariant, PTL DEF Spec

-----------------------------------------------------------------------------
(* Teams stay close *)

\* The counts of the teams are numbers, and the new player counts once at most.
LEMMA CountsAreNear ==
    ASSUME ServerOK, NEW garbage, NEW team
    PROVE  /\ TeamCount(team) \in Nat
           /\ GetTeamCount(team, garbage) \in TeamCount(team)..(TeamCount(team) + 1)
<1> DEFINE members == {i \in Players : instances[i].team = team}
<1>1. Cardinality(members) \in Nat
    BY FS_Subset, FS_CardinalityType DEF ServerOK
<1>2. TeamCount(team) = Cardinality(members)
    BY DEF TeamCount
<1> HIDE DEF members
<1> QED
    BY <1>1, <1>2 DEF GetTeamCount

LEMMA StepBalances ==
    ASSUME Inv, [Next]_vars, NEW i \in PlayerIds, instances[i] = Null, instances'[i] # Null,
           NEW other \in Teams \ {instances'[i].team}
    PROVE  TeamCount(instances'[i].team) <= TeamCount(other) + 1
<1>1. PICK c \in Clients : ServerHandles(c)
    BY DEF Next, vars, serverVars, ClientStep, RequestInfo, ReceivedInfo, RequestJoin, StartGame,
           Timeout, Retry, ClientSends, ClientHandles, ClientReceives, ServerStep, ServerSends,
           ServerReceives
<1>2. Head(inbound["up"][c]) \in Requests
    BY <1>1, ReadStep DEF ServerHandles, Inv, Ends, Kind
<1>3. HandleJoin(c) \/ UNCHANGED serverVars
    BY <1>1, <1>2 DEF ServerHandles, Requests, HandleInfo, HandleSyncWorld, GetServerInfo,
                      RequestJoinGame, SyncWorld
<1>4. Cardinality(Players) < max_clients
    BY <1>3 DEF HandleJoin, serverVars
<1>5. PICK garbage \in GarbageTeams : AcceptPlayer(c, GetBalancedTeam(garbage))
    BY <1>3, <1>4 DEF HandleJoin, serverVars
<1>6. GeneratePlayerID \in PlayerIds
    BY <1>4, FreeId DEF Inv
<1>7. i = GeneratePlayerID /\ instances'[i].team = GetBalancedTeam(garbage)
    BY <1>5, <1>6 DEF AcceptPlayer, Inv, ServerOK
<1>8. /\ TeamCount("RED") \in Nat /\ TeamCount("BLUE") \in Nat
      /\ GetTeamCount("RED", garbage) \in TeamCount("RED")..(TeamCount("RED") + 1)
      /\ GetTeamCount("BLUE", garbage) \in TeamCount("BLUE")..(TeamCount("BLUE") + 1)
    BY CountsAreNear DEF Inv
<1>9. CASE GetTeamCount("RED", garbage) <= GetTeamCount("BLUE", garbage)
    <2>1. instances'[i].team = "RED" /\ other = "BLUE"
        BY <1>7, <1>9 DEF GetBalancedTeam, Teams
    <2> QED
        BY <1>8, <1>9, <2>1
<1>10. CASE ~ (GetTeamCount("RED", garbage) <= GetTeamCount("BLUE", garbage))
    <2>1. instances'[i].team = "BLUE" /\ other = "RED"
        BY <1>7, <1>10 DEF GetBalancedTeam, Teams
    <2> QED
        BY <1>8, <1>10, <2>1
<1> QED
    BY <1>9, <1>10

\* Whatever the memory of a new player holds where its team goes, GetBalancedTeam
\* puts it in a team that is at most one player ahead.
THEOREM TeamsStayCloseHolds == Spec => TeamsStayClose
<1>1. Inv /\ [Next]_vars =>
        [\A i \in PlayerIds : instances[i] = Null /\ instances'[i] # Null =>
          \A other \in Teams \ {instances'[i].team} :
              TeamCount(instances'[i].team) <= TeamCount(other) + 1]_vars
    BY StepBalances
<1> QED
    BY <1>1, Invariant, PTL DEF Spec, TeamsStayClose
=============================================================================
