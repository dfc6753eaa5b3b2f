----------------------------- MODULE GameWorld -----------------------------
(***************************************************************************)
(* The world as the server has it and as the clients that play see it: the *)
(* players' status and the bases.  HandleAction, HandleSyncWorld and       *)
(* WriteUpdates of src/source/server/server.cpp against the callbacks of   *)
(* Client::GameLoop (src/source/client/client.cpp).                        *)
(*                                                                         *)
(* What an action changes reaches a client twice: at once as a reliable    *)
(* event, and again and again as PLAYER_STATE, which is not reliable.  A   *)
(* packet's new reliable messages are handled newest first, then its       *)
(* states, the newest of them first.                                       *)
(***************************************************************************)
EXTENDS Integers, Sequences, FiniteSets, SequencesExt, Ordering

CONSTANTS
    Players,        \* the players, each with its client
    Clients,        \* players whose client is modelled; actions of the others
                    \* arrive at any time
    Bases,          \* ids of the bases
    team,           \* [Players -> Teams]
    owner,          \* [Bases -> team], which nothing changes after Load
    MaxRequests,    \* bound: requests of a client the server has not handled
    MaxUpdates,     \* bound: updates written between two packets
    MaxInFlight     \* bound: packets under way to a client

Teams == {"RED", "BLUE"}
Status == {"DEAD", "LANDED", "FLYING"}
Actions == {"PA_LIFTOFF", "PA_SPAWN"}

\* The bases a team owns; the levels that come with the game give each team one.
OwnedBy(t) == {b \in Bases : owner[b] = t}

ASSUME WorldAssumption ==
    /\ Bases \subseteq Nat \ {0} /\ IsFiniteSet(Bases)
    /\ Clients \subseteq Players
    /\ team \in [Players -> Teams]
    /\ owner \in [Bases -> Teams \cup {"NEUTRAL"}]
    /\ \A t \in Teams : OwnedBy(t) # {}
    /\ MaxRequests \in Nat /\ MaxUpdates \in Nat /\ MaxInFlight \in Nat

VARIABLES
    (* the server *)
    status,      \* status of every player
    events,      \* reliable messages for a client that it has not handled
    updates,     \* PLAYER_STATEs in out_lossy, one element for all players
    (* the path to a client *)
    sent,        \* packets under way
    (* the clients *)
    requests,    \* reliable messages of a client the server has not handled
    all_bases,   \* bases a client knows
    view,        \* status a client has for every player, itself included
    place,       \* base at which a client's own player was put, 0 before
    crashed      \* did the client use a base it does not know?

serverVars == <<status, events, updates>>
worldVars == <<all_bases, view, place, crashed>>
vars == <<serverVars, sent, requests, worldVars>>

SyncWorld == [type |-> "SYNC_WORLD"]
RequestAction(action) == [type |-> "REQUEST_ACTION", action_id |-> action]
ObjectSpawn(b) == [type |-> "OBJECT_SPAWN", id |-> b]
PlayerSpawn(i, b) == [type |-> "PLAYER_SPAWN", client_id |-> i, base_id |-> b]
PlayerLiftOff(i) == [type |-> "PLAYER_LIFTOFF", client_id |-> i]

\* The game loop starts: SYNC_WORLD is written, players are dead.
Init ==
    /\ status = [i \in Players |-> "DEAD"]
    /\ events = [c \in Clients |-> <<>>]
    /\ updates = [c \in Clients |-> <<>>]
    /\ sent = [c \in Clients |-> {}]
    /\ requests = [c \in Clients |-> <<SyncWorld>>]
    /\ all_bases = [c \in Clients |-> {}]
    /\ view = [c \in Clients |-> [i \in Players |-> "DEAD"]]
    /\ place = [c \in Clients |-> 0]
    /\ crashed = [c \in Clients |-> FALSE]

-----------------------------------------------------------------------------
(* The server *)

\* Mutants, here and below, are the code with a plausible mistake in it: each is
\* what one of the properties tells from the code.

\* Mutant: a player that is alive spawns again.
SpawnAlive(s, i, b) ==
    [status |-> [s.status EXCEPT ![i] = "LANDED"],
     events |-> [c \in Clients |-> Append(s.events[c], PlayerSpawn(i, b))]]

\* Mutant: the player gets a status of its own while it waits for its base.
SpawnWaiting(s, i, b) ==
    IF s.status[i] # "DEAD" THEN s
    ELSE [status |-> [s.status EXCEPT ![i] = "RESPAWN"],
          events |-> [c \in Clients |-> Append(s.events[c], PlayerSpawn(i, b))]]

\* PA_SPAWN: a dead player lands, and every session is told at which base.
Spawn(s, i, b) ==
    IF s.status[i] # "DEAD" THEN s
    ELSE [status |-> [s.status EXCEPT ![i] = "LANDED"],
          events |-> [c \in Clients |-> Append(s.events[c], PlayerSpawn(i, b))]]

\* PA_LIFTOFF: a landed player flies, and every session is told.
LiftOff(s, i) ==
    IF s.status[i] # "LANDED" THEN s
    ELSE [status |-> [s.status EXCEPT ![i] = "FLYING"],
          events |-> [c \in Clients |-> Append(s.events[c], PlayerLiftOff(i))]]

HandleSyncWorld(s, c) ==
    [s EXCEPT !.events[c] = @ \o [k \in 1..Cardinality(Bases) |->
                                      ObjectSpawn(Ascending(Bases)[k])]]

BasesOwned(t) == Cardinality(OwnedBy(t))

\* The owned bases that come before b in all_bases, which is in the order of the
\* ids: idx when the loop reaches b.
OwnedBefore(t, b) == {o \in OwnedBy(t) : o < b}

\* Mutant: idx starts at one.
RespawnBaseFromOne(t, selected_base) ==
    LET found == {b \in OwnedBy(t) : Cardinality(OwnedBefore(t, b)) + 1 = selected_base}
    IN  IF found = {} THEN 0 ELSE CHOOSE b \in found : TRUE

\* The loop of GetRandomRespawnBase, with the return behind it that "should not
\* happen".
RespawnBase(t, selected_base) ==
    LET found == {b \in OwnedBy(t) : Cardinality(OwnedBefore(t, b)) = selected_base}
    IN  IF found = {} THEN 0 ELSE CHOOSE b \in found : TRUE

\* Any selected_base that rand_dev() % count yields.  A count of 0, which is
\* undefined, is excluded by WorldAssumption.
GetRandomRespawnBase(t) ==
    {RespawnBase(t, selected_base) : selected_base \in 0..(BasesOwned(t) - 1)}

HandleRequest(s, c, message, b) ==
    CASE message = SyncWorld -> HandleSyncWorld(s, c)
      [] message = RequestAction("PA_SPAWN") -> Spawn(s, c, b)
      [] message = RequestAction("PA_LIFTOFF") -> LiftOff(s, c)

\* A packet that covers the first n requests of c: newest first.  One of them
\* spawns the player at most.
ServerReceives(c, n) ==
    /\ \E b \in GetRandomRespawnBase(team[c]) :
        LET after[k \in 0..n] ==
                IF k = 0 THEN [status |-> status, events |-> events]
                ELSE HandleRequest(after[k - 1], c, requests[c][n + 1 - k], b)
        IN  status' = after[n].status /\ events' = after[n].events
    /\ requests' = [requests EXCEPT ![c] = SubSeq(@, n + 1, Len(@))]
    /\ UNCHANGED <<updates, sent, worldVars>>

\* An action of a player whose client is not modelled.
OtherActs(i, action) ==
    /\ \E b \in GetRandomRespawnBase(team[i]) :
        LET s == HandleRequest([status |-> status, events |-> events], i, RequestAction(action), b)
        IN  status' = s.status /\ events' = s.events
    /\ UNCHANGED <<updates, sent, requests, worldVars>>

\* Mutant: a player's own state is left out.
EmitStatesOfOthers(c) == [i \in Players \ {c} |-> status[i]]

EmitStates(c) == status

\* The update timer.  Write puts unreliable messages in front.
WriteUpdates ==
    /\ \A c \in Clients : Len(updates[c]) < MaxUpdates
    /\ updates' = [c \in Clients |-> <<EmitStates(c)>> \o updates[c]]
    /\ UNCHANGED <<status, events, sent, requests, worldVars>>

\* CraftSendPacket of c's session: all that waits, and out_lossy is cleared.
SendOutboundMessages(c) ==
    /\ events[c] # <<>> \/ updates[c] # <<>>
    /\ Cardinality(sent[c]) < MaxInFlight
    /\ sent' = [sent EXCEPT ![c] = @ \cup {[covers |-> Len(events[c]), states |-> updates[c]]}]
    /\ updates' = [updates EXCEPT ![c] = <<>>]
    /\ UNCHANGED <<status, events, requests, worldVars>>

-----------------------------------------------------------------------------
(* The clients *)

\* SPACE and UP, by the status the client has for its own player.
Asks(c, action) ==
    \/ action = "PA_SPAWN" /\ view[c][c] = "DEAD"
    \/ action = "PA_LIFTOFF" /\ view[c][c] = "LANDED"

SendAction(c, action) ==
    /\ ~ crashed[c]
    /\ Asks(c, action)
    /\ Len(requests[c]) < MaxRequests
    /\ requests' = [requests EXCEPT ![c] = Append(@, RequestAction(action))]
    /\ UNCHANGED <<serverVars, sent, worldVars>>

\* The events of a packet that a client handles: covers counts the oldest.
Covered(c, packet) == 1..packet.covers

IsSpawn(c, k) == events[c][k].type = "PLAYER_SPAWN"

\* HandleObjectSpawn for the events from k on, which are handled first.
BasesFrom(c, k, packet) ==
    all_bases[c] \cup {events[c][j].id :
        j \in {l \in k..packet.covers : events[c][l].type = "OBJECT_SPAWN"}}

\* HandleSpawnEvent looks the base up and uses what it gets.
Crashes(c, packet) ==
    \E k \in Covered(c, packet) :
        IsSpawn(c, k) /\ events[c][k].base_id \notin BasesFrom(c, k, packet)

\* Whatever player an event names, the own one is moved; the oldest one counts.
PlaceAfter(c, packet) ==
    LET spawns == {k \in Covered(c, packet) : IsSpawn(c, k)}
    IN  IF spawns = {} THEN place[c]
        ELSE events[c][CHOOSE k \in spawns : \A l \in spawns : k <= l].base_id

\* HandleLiftOffEvent: the own player flies, whatever player it names.
ViewAfterEvents(c, packet) ==
    IF \E k \in Covered(c, packet) : events[c][k].type = "PLAYER_LIFTOFF"
    THEN [view[c] EXCEPT ![c] = "FLYING"]
    ELSE view[c]

\* Mutant: a client trusts itself about its own player once it is alive.
ViewAfterOwn(c, packet) ==
    IF packet.states = <<>> THEN ViewAfterEvents(c, packet)
    ELSE [i \in Players |-> IF i # c \/ view[c][c] = "DEAD"
                            THEN Last(packet.states)[i]
                            ELSE ViewAfterEvents(c, packet)[i]]

\* HandlePlayerState for every player of every update, the own one too: the
\* oldest is handled last.
ViewAfter(c, packet) ==
    IF packet.states = <<>> THEN ViewAfterEvents(c, packet)
    ELSE [i \in Players |-> IF i \in DOMAIN Last(packet.states)
                            THEN Last(packet.states)[i]
                            ELSE ViewAfterEvents(c, packet)[i]]

Later(n, packets) ==
    {[p EXCEPT !.covers = IF @ > n THEN @ - n ELSE 0] : p \in packets}

\* A turn of the game loop that finds a packet.
ClientReceives(c, packet) ==
    /\ ~ crashed[c]
    /\ crashed' = [crashed EXCEPT ![c] = Crashes(c, packet)]
    /\ IF Crashes(c, packet)
       THEN UNCHANGED <<all_bases, place, view>>
       ELSE /\ all_bases' = [all_bases EXCEPT ![c] = BasesFrom(c, 1, packet)]
            /\ place' = [place EXCEPT ![c] = PlaceAfter(c, packet)]
            /\ view' = [view EXCEPT ![c] = ViewAfter(c, packet)]
    /\ events' = [events EXCEPT ![c] = SubSeq(@, packet.covers + 1, Len(@))]
    /\ sent' = [sent EXCEPT ![c] = Later(packet.covers, @ \ {packet})]
    /\ UNCHANGED <<status, updates, requests>>

Lose(c, packet) ==
    /\ sent' = [sent EXCEPT ![c] = @ \ {packet}]
    /\ UNCHANGED <<serverVars, requests, worldVars>>

Receives(c) == \E packet \in sent[c] : ClientReceives(c, packet)
Handles(c) == \E n \in 1..Len(requests[c]) : ServerReceives(c, n)

Next ==
    \/ WriteUpdates
    \/ \E i \in Players \ Clients, action \in Actions : OtherActs(i, action)
    \/ \E c \in Clients :
        \/ Handles(c)
        \/ SendOutboundMessages(c)
        \/ Receives(c)
        \/ \E packet \in sent[c] : Lose(c, packet)
        \/ \E action \in Actions : SendAction(c, action)

Spec == Init /\ [][Next]_vars

\* The timers and the loops go on, requests arrive (Delivery of SessionChannel)
\* and the network does not lose every packet for ever.
Fairness ==
    /\ WF_vars(WriteUpdates)
    /\ \A c \in Clients :
        /\ WF_vars(Handles(c))
        /\ WF_vars(SendOutboundMessages(c))
        /\ SF_vars(Receives(c))

FairSpec == Spec /\ Fairness

-----------------------------------------------------------------------------
(* Properties *)

Event ==
    [type : {"OBJECT_SPAWN"}, id : Bases]
    \cup [type : {"PLAYER_SPAWN"}, client_id : Players, base_id : Bases \cup {0}]
    \cup [type : {"PLAYER_LIFTOFF"}, client_id : Players]

TypeOK ==
    /\ status \in [Players -> Status]
    /\ place \in [Clients -> Bases \cup {0}]
    /\ all_bases \in [Clients -> SUBSET Bases]
    /\ view \in [Clients -> [Players -> Status]]
    /\ crashed \in [Clients -> BOOLEAN]
    /\ \A c \in Clients :
        /\ events[c] \in Seq(Event)
        /\ requests[c] \in Seq({SyncWorld} \cup {RequestAction(a) : a \in Actions})
        /\ Len(updates[c]) <= MaxUpdates
        /\ Cardinality(sent[c]) <= MaxInFlight
        /\ \A p \in sent[c] : p.covers \in 0..Len(events[c])

Rank(s) == CASE s = "DEAD" -> 0 [] s = "LANDED" -> 1 [] s = "FLYING" -> 2

\* No client takes another player for more than the server made of it, however
\* old the states are that it handles.  Of its own player it may: PLAYER_LIFTOFF
\* of any player sets it to FLYING (HandleLiftOffEvent).
ViewsNotAhead ==
    \A c \in Clients : \A i \in Players : Rank(view[c][i]) > Rank(status[i]) =>
        /\ i = c /\ view[c][c] = "FLYING"
        /\ \E j \in Players \ {c} : status[j] = "FLYING"

\* PA_SPAWN was handled for these players.
Spawned == {i \in Players : status[i] # "DEAD"}

\* The base GetRandomRespawnBase picks reaches the clients as the team's own: the
\* place of a client is a base it knows, of the team of a player that spawned,
\* and HandleSpawnEvent brings a client down only by such a base that it has not
\* been told of yet, never by one that is no base (the return of 0).
SpawnsNameOwnBases ==
    \A c \in Clients :
        /\ place[c] # 0 => \E i \in Spawned : place[c] \in all_bases[c] \cap OwnedBy(team[i])
        /\ crashed[c] => \E i \in Spawned : ~ (OwnedBy(team[i]) \subseteq all_bases[c])

\* What a client has for the status of every player is at last what the server
\* has, though states are lost, overtake each other and undo events.
StatusConverges ==
    \A c \in Clients : \A i \in Players : <>[](crashed[c] \/ view[c][i] = status[i])

\* A client that asks to spawn sees itself alive at last: PLAYER_SPAWN does not
\* set its status, only PLAYER_STATE does.
SpawnIsSeen ==
    \A c \in Clients :
        (\E k \in 1..Len(requests[c]) : requests[c][k] = RequestAction("PA_SPAWN"))
            ~> (crashed[c] \/ view[c][c] # "DEAD")
=============================================================================
