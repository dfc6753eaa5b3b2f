------------------------------ MODULE JoinGame ------------------------------
(***************************************************************************)
(* Clients that join a game: Client::JoinLoop and the start of GameLoop    *)
(* (src/source/client/client.cpp) against HandleInfo, HandleJoin and       *)
(* HandleSyncWorld (src/source/server/server.cpp).                         *)
(*                                                                         *)
(* Every client has a session, and its messages travel on a pair of        *)
(* SessionMessageManagers as ReliableChannel has it: a packet stands for   *)
(* all the messages written before it was crafted, those not handled yet   *)
(* are handled newest first, and a lost packet is sent again.              *)
(*                                                                         *)
(* A new player is announced to the others with one message object, and    *)
(* the streams are those of ReliableChannel only when that is written to   *)
(* one session: with at most two players.  JoinAnnouncement has the third. *)
(*                                                                         *)
(* Sessions live as long as their clients here, and nothing is purged: the *)
(* purge is in GameServer.                                                 *)
(***************************************************************************)
EXTENDS Integers, Sequences, FiniteSets, SequencesExt, Ordering

CONSTANTS
    Clients,
    Null,
    Bases,          \* ids of the bases, Base::all_bases
    Limits,         \* limits on players a server may be started with
    MAXPLAYERS,     \* the limit HandleInfo reports
    MaxAttempts,    \* requests a client repeats before it gives up; 5
    GarbageTeams    \* what the uninitialised team of a new player may hold

ASSUME JoinAssumption ==
    /\ Limits \subseteq Nat \ {0}
    /\ MAXPLAYERS \in Nat
    /\ MaxAttempts \in Nat
    /\ Bases \subseteq Nat /\ IsFiniteSet(Bases)
    /\ Null \notin [client : Clients, team : {"RED", "BLUE"}]

PlayerIds == UNION {1..n : n \in Limits}
Teams == {"RED", "BLUE"}
NONE == "NONE"   \* no team

VARIABLES
    (* the server *)
    max_clients,     \* its limit on players, an argument of its constructor
    instances,       \* [PlayerIds -> [client, team] or Null]
    client_id,       \* the player id in each client's session, 0 before
    (* the clients *)
    state,           \* ClientState
    attempts,
    in_game,         \* does GameLoop run, with its callbacks?
    self,            \* player id from ACCEPT_JOIN, 0 before
    roster,          \* team of every player a client has, or NONE
    world,           \* bases a client has
    (* the channels: "up" from the client, "down" from the server *)
    written,         \* messages written so far
    seen,            \* how many of them were handed to the other end
    sent,            \* packets under way, as how many messages they cover
    inbound          \* messages of the last packet that wait for their handler

serverVars == <<max_clients, instances, client_id>>
clientVars == <<state, attempts, in_game, self, roster, world>>
channelVars == <<written, seen, sent, inbound>>
vars == <<serverVars, clientVars, channelVars>>

Players == {i \in PlayerIds : instances[i] # Null}

Init ==
    /\ max_clients \in Limits
    /\ instances = [i \in PlayerIds |-> Null]
    /\ client_id = [c \in Clients |-> 0]
    /\ state = [c \in Clients |-> "S_INITIAL"]
    /\ attempts = [c \in Clients |-> 1]
    /\ in_game = [c \in Clients |-> FALSE]
    /\ self = [c \in Clients |-> 0]
    /\ roster = [c \in Clients |-> [i \in PlayerIds |-> NONE]]
    /\ world = [c \in Clients |-> {}]
    /\ written = [d \in {"up", "down"} |-> [c \in Clients |-> <<>>]]
    /\ seen = [d \in {"up", "down"} |-> [c \in Clients |-> 0]]
    /\ sent = [d \in {"up", "down"} |-> [c \in Clients |-> {}]]
    /\ inbound = [d \in {"up", "down"} |-> [c \in Clients |-> <<>>]]

-----------------------------------------------------------------------------
(* Messages and packets *)

GetServerInfo == [type |-> "SERVER_INFO"]
RequestJoinGame == [type |-> "JOIN_GAME"]
SyncWorld == [type |-> "SYNC_WORLD"]
ServerInformation(n) == [type |-> "SERVER_INFO", number_of_players |-> n]
AcceptJoin(i) == [type |-> "ACCEPT_JOIN", client_id |-> i]
DenyJoin == [type |-> "DENY_JOIN"]
PlayerInformation(i, team) == [type |-> "PLAYER_INFO", client_id |-> i, team |-> team]
PlayerJoins(i, team) == [type |-> "PLAYER_JOINS", client_id |-> i, team |-> team]
ObjectSpawn(id) == [type |-> "OBJECT_SPAWN", id |-> id]

Write(d, c, messages) == written' = [written EXCEPT ![d][c] = @ \o messages]

\* CraftSendPacket: all that is written, when something of it is not handled.
Send(d, c) ==
    /\ Len(written[d][c]) > seen[d][c]
    /\ sent' = [sent EXCEPT ![d][c] = @ \cup {Len(written[d][c])}]

\* Mutants, here and below, are the code with a plausible mistake in it: each is
\* what one of the properties tells from the code.

\* Mutant: all messages of a packet are handled, seen before or not, and old
\* packets are not dropped.
ReceiveAgain(d, c, n) ==
    /\ n \in sent[d][c]
    /\ inbound' = [inbound EXCEPT ![d][c] = Reverse(SubSeq(written[d][c], 1, n))]
    /\ seen' = [seen EXCEPT ![d][c] = n]
    /\ sent' = [sent EXCEPT ![d][c] = @ \ {n}]

\* HandleReceivedPacket for the packet that covers n messages.  Packets that
\* hold nothing new are dropped from sent: they change nothing.
Receive(d, c, n) ==
    /\ n \in sent[d][c]
    /\ inbound' = [inbound EXCEPT ![d][c] =
                     Reverse(SubSeq(written[d][c], seen[d][c] + 1, n))]
    /\ seen' = [seen EXCEPT ![d][c] = n]
    /\ sent' = [sent EXCEPT ![d][c] = {k \in @ : k > n}]

\* The next message in inbound.
Read(d, c) ==
    /\ inbound[d][c] # <<>>
    /\ inbound' = [inbound EXCEPT ![d][c] = Tail(@)]

-----------------------------------------------------------------------------
(* The client *)

\* The states in which the join loop ends.
Ended(c) == state[c] \in {"S_ACCEPTED", "S_SERVER_FULL", "S_TIMEOUT", "S_DENIED"}

\* A turn of the join loop, before it looks at the socket.
Turn(c) == ~ Ended(c) /\ inbound["down"][c] = <<>>

RequestInfo(c) ==
    /\ Turn(c) /\ state[c] = "S_INITIAL"
    /\ Write("up", c, <<GetServerInfo>>)
    /\ state' = [state EXCEPT ![c] = "S_AWAITING_INFO"]
    /\ UNCHANGED <<serverVars, attempts, in_game, self, roster, world, seen, sent, inbound>>

ReceivedInfo(c) ==
    /\ Turn(c) /\ state[c] = "S_RECEIVED_INFO"
    /\ attempts' = [attempts EXCEPT ![c] = 0]
    /\ state' = [state EXCEPT ![c] = "S_JOINING_SERVER"]
    /\ UNCHANGED <<serverVars, in_game, self, roster, world, channelVars>>

RequestJoin(c) ==
    /\ Turn(c) /\ state[c] = "S_JOINING_SERVER"
    /\ Write("up", c, <<RequestJoinGame>>)
    /\ state' = [state EXCEPT ![c] = "S_AWAITING_JOIN"]
    /\ UNCHANGED <<serverVars, attempts, in_game, self, roster, world, seen, sent, inbound>>

\* 500 ms without an answer: ask again, or give up.
Retry(c, awaiting, again) ==
    /\ Turn(c) /\ state[c] = awaiting
    /\ attempts' = [attempts EXCEPT ![c] = @ + 1]
    /\ state' = [state EXCEPT ![c] = IF attempts'[c] > MaxAttempts THEN "S_TIMEOUT" ELSE again]
    /\ UNCHANGED <<serverVars, in_game, self, roster, world, channelVars>>

\* Mutant: a client that asked to join waits for the answer however long it takes.
TimeoutForInfo(c) == Retry(c, "S_AWAITING_INFO", "S_INITIAL")

Timeout(c) ==
    \/ Retry(c, "S_AWAITING_INFO", "S_INITIAL")
    \/ Retry(c, "S_AWAITING_JOIN", "S_JOINING_SERVER")

\* The join loop, or the game loop, of a client runs.
Running(c) == ~ Ended(c) \/ in_game[c]

ClientSends(c) ==
    /\ Running(c) /\ inbound["down"][c] = <<>>
    /\ Send("up", c)
    /\ UNCHANGED <<serverVars, clientVars, written, seen, inbound>>

ClientReceives(c, n) ==
    /\ Running(c) /\ inbound["down"][c] = <<>>
    /\ Receive("down", c, n)
    /\ UNCHANGED <<serverVars, clientVars, written>>

AddPlayer(c, message) ==
    roster' = [roster EXCEPT ![c][message.client_id] = message.team]

\* The callbacks of SetupJoinCallsbacks.
HandleInJoinLoop(c, message) ==
    CASE message.type = "SERVER_INFO" ->
            /\ state' = [state EXCEPT ![c] =
                  IF message.number_of_players = MAXPLAYERS THEN "S_SERVER_FULL" ELSE "S_RECEIVED_INFO"]
            /\ UNCHANGED <<self, roster, world>>
      [] message.type = "ACCEPT_JOIN" ->
            /\ self' = [self EXCEPT ![c] = message.client_id]
            /\ state' = [state EXCEPT ![c] = "S_ACCEPTED"]
            /\ UNCHANGED <<roster, world>>
      [] message.type = "DENY_JOIN" ->
            /\ state' = [state EXCEPT ![c] = "S_DENIED"]
            /\ UNCHANGED <<self, roster, world>>
      [] message.type = "PLAYER_INFO" ->
            AddPlayer(c, message) /\ UNCHANGED <<state, self, world>>
      [] OTHER -> UNCHANGED <<state, self, roster, world>>

\* The callbacks of SetupCallbacks.
HandleInGame(c, message) ==
    CASE message.type \in {"PLAYER_JOINS", "PLAYER_INFO"} ->
            AddPlayer(c, message) /\ UNCHANGED <<state, self, world>>
      [] message.type = "OBJECT_SPAWN" ->
            /\ world' = [world EXCEPT ![c] = @ \cup {message.id}]
            /\ UNCHANGED <<state, self, roster>>
      [] OTHER -> UNCHANGED <<state, self, roster, world>>

\* All messages of a packet are handled before the loop looks at its state.
ClientHandles(c) ==
    /\ Read("down", c)
    /\ IF in_game[c]
       THEN HandleInGame(c, Head(inbound["down"][c]))
       ELSE HandleInJoinLoop(c, Head(inbound["down"][c]))
    /\ UNCHANGED <<serverVars, attempts, in_game, written, seen, sent>>

\* The game loop starts: it sets its callbacks and asks for the world.
StartGame(c) ==
    /\ state[c] = "S_ACCEPTED" /\ ~ in_game[c] /\ inbound["down"][c] = <<>>
    /\ in_game' = [in_game EXCEPT ![c] = TRUE]
    /\ Write("up", c, <<SyncWorld>>)
    /\ UNCHANGED <<serverVars, state, attempts, self, roster, world, seen, sent, inbound>>

-----------------------------------------------------------------------------
(* The server: its loop handles all messages of a packet before it sends *)

Idle == \A c \in Clients : inbound["up"][c] = <<>>

ServerSends(c) ==
    /\ Idle
    /\ Send("down", c)
    /\ UNCHANGED <<serverVars, clientVars, written, seen, inbound>>

ServerReceives(c, n) ==
    /\ Idle
    /\ Receive("up", c, n)
    /\ UNCHANGED <<serverVars, clientVars, written>>

HandleInfo(c) ==
    /\ Write("down", c, <<ServerInformation(Cardinality(Players))>>)
    /\ UNCHANGED serverVars

TeamCount(team) == Cardinality({i \in Players : instances[i].team = team})

\* Mutant: the new player is told of nobody.
AnnouncementToOthers(c, r, i, new, team) ==
    IF r = instances[i].client THEN <<PlayerJoins(new, team)>> ELSE <<>>

\* Mutant: nobody is told of the new player.
AnnouncementToNew(c, r, i, new, team) ==
    IF r = c THEN <<PlayerInformation(i, instances[i].team)>> ELSE <<>>

\* What HandleJoin writes for each player there is already: the new one gets
\* its information, and the player's client hears of the new one.
Announcement(c, r, i, new, team) ==
    (IF r = c THEN <<PlayerInformation(i, instances[i].team)>> ELSE <<>>)
        \o (IF r = instances[i].client THEN <<PlayerJoins(new, team)>> ELSE <<>>)

\* Mutant: ids in use are handed out again.
GeneratePlayerIDFirst == 1

\* The lowest id that no player has.
GeneratePlayerID ==
    CHOOSE i \in PlayerIds \ Players : \A j \in PlayerIds \ Players : i <= j

\* The new player is among instances when its team is chosen, with whatever
\* its memory holds for one.
GetTeamCount(team, garbage) == TeamCount(team) + (IF garbage = team THEN 1 ELSE 0)

\* Mutant: the larger team gets the player.
GetLargerTeam(garbage) ==
    IF GetTeamCount("RED", garbage) >= GetTeamCount("BLUE", garbage) THEN "RED" ELSE "BLUE"

GetBalancedTeam(garbage) ==
    IF GetTeamCount("RED", garbage) <= GetTeamCount("BLUE", garbage) THEN "RED" ELSE "BLUE"

AcceptPlayer(c, team) ==
    LET new == GeneratePlayerID
        others == Ascending(Players)
    IN  /\ instances' = [instances EXCEPT ![new] = [client |-> c, team |-> team]]
        /\ client_id' = [client_id EXCEPT ![c] = new]
        /\ written' = [written EXCEPT !["down"] = [r \in Clients |->
              @[r] \o (IF r = c THEN <<AcceptJoin(new)>> ELSE <<>>)
                   \o FlattenSeq([k \in 1..Len(others) |->
                                    Announcement(c, r, others[k], new, team)])]]
        /\ UNCHANGED max_clients

\* Mutant: the last place is never given.
HandleJoinOffByOne(c) ==
    IF Cardinality(Players) < max_clients - 1
    THEN \E garbage \in GarbageTeams : AcceptPlayer(c, GetBalancedTeam(garbage))
    ELSE Write("down", c, <<DenyJoin>>) /\ UNCHANGED serverVars

HandleJoin(c) ==
    IF Cardinality(Players) < max_clients
    THEN \E garbage \in GarbageTeams : AcceptPlayer(c, GetBalancedTeam(garbage))
    ELSE Write("down", c, <<DenyJoin>>) /\ UNCHANGED serverVars

\* Mutant: the last base is left out.
HandleSyncWorldOffByOne(c) ==
    /\ Write("down", c, [k \in 1..(Cardinality(Bases) - 1) |->
                            ObjectSpawn(Ascending(Bases)[k])])
    /\ UNCHANGED serverVars

HandleSyncWorld(c) ==
    /\ Write("down", c, [k \in 1..Cardinality(Bases) |->
                            ObjectSpawn(Ascending(Bases)[k])])
    /\ UNCHANGED serverVars

ServerHandles(c) ==
    /\ Read("up", c)
    /\ CASE Head(inbound["up"][c]) = GetServerInfo -> HandleInfo(c)
         [] Head(inbound["up"][c]) = RequestJoinGame -> HandleJoin(c)
         [] Head(inbound["up"][c]) = SyncWorld -> HandleSyncWorld(c)
    /\ UNCHANGED <<clientVars, seen, sent>>

ClientStep(c) ==
    \/ RequestInfo(c) \/ ReceivedInfo(c) \/ RequestJoin(c) \/ StartGame(c)
    \/ Timeout(c)
    \/ ClientSends(c)
    \/ ClientHandles(c)
    \/ \E n \in 1..Len(written["down"][c]) : ClientReceives(c, n)

ServerStep(c) ==
    \/ ServerSends(c)
    \/ ServerHandles(c)
    \/ \E n \in 1..Len(written["up"][c]) : ServerReceives(c, n)

Next == \E c \in Clients : ClientStep(c) \/ ServerStep(c)

Spec == Init /\ [][Next]_vars

\* The loops never stop, and a message that is written is delivered (Delivery
\* of SessionChannel).
Fairness ==
    \A c \in Clients :
        /\ WF_vars(ClientStep(c))
        /\ WF_vars(ServerHandles(c))
        /\ WF_vars(ServerSends(c))
        /\ WF_vars(\E n \in 1..Len(written["up"][c]) : ServerReceives(c, n))
        /\ WF_vars(\E n \in 1..Len(written["down"][c]) : ClientReceives(c, n))

FairSpec == Spec /\ Fairness

\* Only the loops of the clients are known to go on: the server may have quit and
\* the network may deliver nothing.
LoopSpec == Spec /\ \A c \in Clients : WF_vars(ClientStep(c))

-----------------------------------------------------------------------------
(* Properties *)

Message ==
    [type : {"JOIN_GAME", "SYNC_WORLD", "SERVER_INFO", "DENY_JOIN"}]
    \cup [type : {"SERVER_INFO"}, number_of_players : PlayerIds \cup {0}]
    \cup [type : {"ACCEPT_JOIN"}, client_id : PlayerIds]
    \cup [type : {"PLAYER_INFO", "PLAYER_JOINS"}, client_id : PlayerIds, team : Teams]
    \cup [type : {"OBJECT_SPAWN"}, id : Bases]

TypeOK ==
    /\ max_clients \in Limits
    /\ instances \in [PlayerIds -> [client : Clients, team : Teams] \cup {Null}]
    /\ client_id \in [Clients -> PlayerIds \cup {0}]
    /\ state \in [Clients -> {"S_INITIAL", "S_AWAITING_INFO", "S_RECEIVED_INFO",
                              "S_JOINING_SERVER", "S_AWAITING_JOIN", "S_SERVER_FULL",
                              "S_ACCEPTED", "S_DENIED", "S_TIMEOUT"}]
    /\ attempts \in [Clients -> 0..(MaxAttempts + 2)]
    /\ in_game \in [Clients -> BOOLEAN]
    /\ self \in [Clients -> PlayerIds \cup {0}]
    /\ roster \in [Clients -> [PlayerIds -> Teams \cup {NONE}]]
    /\ world \in [Clients -> SUBSET Bases]
    /\ \A d \in {"up", "down"}, c \in Clients :
        /\ written[d][c] \in Seq(Message)
        /\ inbound[d][c] \in Seq(Message)
        /\ seen[d][c] \in 0..Len(written[d][c])
        /\ sent[d][c] \subseteq (seen[d][c] + 1)..Len(written[d][c])

PlayersOf(c) == {i \in Players : instances[i].client = c}
JoinRequests(c) == {k \in 1..Len(written["up"][c]) : written["up"][c][k] = RequestJoinGame}

\* No JOIN_GAME makes two players, however often its packet is sent, and both the
\* player a client plays (HandleAcceptJoin) and the one that the server moves for
\* it (session->client_id) were made for this client.  They are the same one when
\* it asked once; when it repeated the request (JoinLoop) they may be two.
OwnPlayer ==
    \A c \in Clients :
        /\ Cardinality(PlayersOf(c)) <= Cardinality(JoinRequests(c))
        /\ in_game[c] => {self[c], client_id[c]} \subseteq PlayersOf(c)

\* A client starts to play knowing every player that joined before it, with
\* the team the server has for it: the callbacks that end the join loop do not
\* run before those that fill the roster are there.
EarlierPlayersKnown ==
    \A c \in Clients : in_game[c] =>
        \A i \in Players : i < self[c] /\ instances[i].client # c =>
            roster[c][i] = instances[i].team

\* A client is refused only when there is no place.
RefusedWhenFull ==
    \A c \in Clients :
        /\ state[c] = "S_DENIED" => Cardinality(Players) = max_clients
        /\ state[c] = "S_SERVER_FULL" => Cardinality(Players) >= MAXPLAYERS

\* A new player gets a team that was at most one player ahead, whatever its memory
\* held for a team when it was counted (GetBalancedTeam, GetTeamCount), and even
\* when all the players are one client's.
TeamsStayClose ==
    [][\A i \in PlayerIds : instances[i] = Null /\ instances'[i] # Null =>
          \A other \in Teams \ {instances'[i].team} :
              TeamCount(instances'[i].team) <= TeamCount(other) + 1]_vars

\* The join loop of every client ends, though it repeats its questions, late
\* answers start it again (HandleServerInfo), or no answer comes at all.
JoinLoopEnds == \A c \in Clients : <>Ended(c)

\* A client that plays gets the world at last.
WorldArrives == \A c \in Clients : in_game[c] ~> (world[c] = Bases)

\* A client that plays already when another one joins learns of it.
LaterPlayersKnown ==
    \A c \in Clients, i \in PlayerIds :
        [](in_game[c] /\ i \notin Players =>
              [](i \in Players => <>(roster[c][i] # NONE \/ i = self[c])))
=============================================================================
