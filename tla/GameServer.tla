----------------------------- MODULE GameServer -----------------------------
(***************************************************************************)
(* What the server keeps about its clients: the sessions                   *)
(* (src/source/net/session.h, ShipzSession) and the players                *)
(* (src/source/common/player.cpp), as the handlers of                      *)
(* src/source/server/server.cpp create, use and purge them.                *)
(*                                                                         *)
(* A player points at its session by address and a session names its       *)
(* player by id.  The server's loop is one thread: every handler is one    *)
(* step.  What the clients know decides which packets may arrive.          *)
(***************************************************************************)
EXTENDS Integers, FiniteSets

CONSTANTS
    Endpoints,          \* address and port of the clients
    Addresses,          \* where a ShipzSession may be allocated
    Null,
    MAX_SESSION_COUNT,
    max_clients,        \* the server's limit on players
    MaxJoins,           \* join requests of one client: one, and its retries
    Silence,            \* may a client that runs be silent for MAX_SESSION_AGE?
    GarbageIds,         \* what the uninitialised client_id may hold
    GarbageTeams        \* what the uninitialised team may hold

ASSUME ServerAssumption ==
    /\ MAX_SESSION_COUNT \in Nat \ {0}
    /\ max_clients \in Nat
    /\ MaxJoins \in Nat
    /\ Silence \in BOOLEAN
    /\ Null \notin Endpoints \cup Addresses
    /\ GarbageIds \subseteq 0..max_clients

\* _getFreeID searches twice the session count; GeneratePlayerID takes the
\* lowest free id, and players below max_clients leave one free.
SessionIds == 1..(2 * MAX_SESSION_COUNT)
PlayerIds == 1..max_clients

VARIABLES
    running,        \* FALSE once an exception ended the server
    by_id_map,      \* [SessionIds -> Addresses or Null]; active_ids and
                    \* active_sessions always hold the same sessions
    endpoint,       \* endpoint of the session at an address, Null when free
    client_id,      \* player id a session was given by HandleJoin
    stale,          \* sessions whose last_active is MAX_SESSION_AGE ago
    instances,      \* [PlayerIds -> Player or Null]
    (* the clients *)
    client_session, \* session id a client sends in its packets, 0 before
    joins,          \* join requests of a client that were handled
    playing,        \* clients whose join was accepted
    gone            \* clients that quit

sessionVars == <<running, by_id_map, endpoint, client_id, stale>>
clientVars == <<client_session, joins, playing, gone>>
vars == <<sessionVars, instances, clientVars>>

\* owner, the client that asked to join, is history.
Player == [session : Addresses, team : {"RED", "BLUE"},
           status : {"DEAD", "LANDED", "FLYING"}, owner : Endpoints]

ASSUME NullAssumption == Null \notin Player

Live == {a \in Addresses : endpoint[a] # Null}
Players == {i \in PlayerIds : instances[i] # Null}

Lowest(ids) == CHOOSE i \in ids : \A j \in ids : i <= j

Init ==
    /\ running = TRUE
    /\ by_id_map = [s \in SessionIds |-> Null]
    /\ endpoint = [a \in Addresses |-> Null]
    /\ client_id \in [Addresses -> GarbageIds]
    /\ stale = {}
    /\ instances = [i \in PlayerIds |-> Null]
    /\ client_session = [e \in Endpoints |-> 0]
    /\ joins = [e \in Endpoints |-> 0]
    /\ playing = {}
    /\ gone = {}

-----------------------------------------------------------------------------
(* Sessions *)

FreeIds == {s \in SessionIds : by_id_map[s] = Null}

\* Mutant: an endpoint may have several sessions.
ExistsNever(e) == FALSE

Exists(e) == \E a \in Live : endpoint[a] = e

\* ShipzSession's constructor, or its exception when no id is free.  The
\* memory it gets keeps an old client_id.
NewSession(e, a, garbage) ==
    IF FreeIds = {}
    THEN /\ running' = FALSE
         /\ UNCHANGED <<by_id_map, endpoint, client_id>>
    ELSE /\ by_id_map' = [by_id_map EXCEPT ![Lowest(FreeIds)] = a]
         /\ endpoint' = [endpoint EXCEPT ![a] = e]
         /\ client_id' = [client_id EXCEPT ![a] = garbage]
         /\ UNCHANGED running

\* A client that has no session asks for one.  The answer names the session
\* and may be lost; another request is then ignored while the session exists.
HandleCreateSession(e) ==
    /\ running
    /\ client_session[e] = 0 /\ e \notin gone
    /\ ~ Exists(e)
    /\ \E a \in Addresses \ Live, garbage \in GarbageIds : NewSession(e, a, garbage)
    /\ \/ FreeIds # {} /\ client_session' = [client_session EXCEPT ![e] = Lowest(FreeIds)]
       \/ UNCHANGED client_session
    /\ UNCHANGED <<stale, instances, joins, playing, gone>>

\* A packet of client e is handled by the session its id names, whatever
\* endpoint that session belongs to.
Receives(a, e) ==
    /\ running
    /\ e \notin gone
    /\ client_session[e] \in SessionIds
    /\ a = by_id_map[client_session[e]]
    /\ a \in Addresses

\* A packet that asks for nothing: an update, or acknowledgements.
HandleReceivedPacket(a, e) ==
    /\ Receives(a, e)
    /\ stale' = stale \ {a}
    /\ UNCHANGED <<running, by_id_map, endpoint, client_id, instances, clientVars>>

\* MAX_SESSION_AGE passes without a packet for the session: no client uses it,
\* or one is silent.
GoesStale(a) ==
    /\ a \in Live \ stale
    /\ Silence \/ \A e \in Endpoints : ~ Receives(a, e)
    /\ stale' = stale \cup {a}
    /\ UNCHANGED <<running, by_id_map, endpoint, client_id, instances, clientVars>>

\* Mutant: the player's session is not compared.
FirstPlayer(a) == IF Players = {} THEN {} ELSE {Lowest(Players)}

\* Mutant: the players of a purged session stay.
FirstPlayerOfNone(a) == {}

\* The loop over instances stops at the first player of a session.
FirstPlayerOf(a) ==
    LET own == {i \in Players : instances[i].session = a}
    IN  IF own = {} THEN {} ELSE {Lowest(own)}

PurgeStaleSessions ==
    /\ running
    /\ stale # {}
    /\ LET removed == UNION {FirstPlayerOf(a) : a \in stale}
       IN  instances' = [i \in PlayerIds |-> IF i \in removed THEN Null ELSE instances[i]]
    /\ by_id_map' = [s \in SessionIds |-> IF by_id_map[s] \in stale THEN Null ELSE by_id_map[s]]
    /\ endpoint' = [a \in Addresses |-> IF a \in stale THEN Null ELSE endpoint[a]]
    /\ stale' = {}
    /\ UNCHANGED <<running, client_id, clientVars>>

-----------------------------------------------------------------------------
(* Players *)

\* The new player is in instances already when teams are counted, and its own
\* team is not initialised.
GetTeamCount(team, garbage) ==
    Cardinality({i \in Players : instances[i].team = team})
        + IF garbage = team THEN 1 ELSE 0

GetBalancedTeam(garbage) ==
    IF GetTeamCount("RED", garbage) <= GetTeamCount("BLUE", garbage) THEN "RED" ELSE "BLUE"

\* A request to join: denied when the server is full.  Nothing asks whether the
\* session has a player.  The answer goes to the session's endpoint.
HandleJoin(a, e) ==
    /\ Receives(a, e)
    /\ joins[e] < MaxJoins
    /\ joins' = [joins EXCEPT ![e] = @ + 1]
    /\ IF Cardinality(Players) < max_clients
       THEN \E garbage \in GarbageTeams :
            LET i == Lowest(PlayerIds \ Players)
            IN  /\ instances' = [instances EXCEPT ![i] =
                      [session |-> a, team |-> GetBalancedTeam(garbage),
                       status |-> "DEAD", owner |-> e]]
                /\ client_id' = [client_id EXCEPT ![a] = i]
                /\ playing' = playing \cup {c \in Endpoints : c = endpoint[a] /\ Receives(a, c)}
       ELSE UNCHANGED <<instances, client_id, playing>>
    /\ stale' = stale \ {a}
    /\ UNCHANGED <<running, by_id_map, endpoint, client_session, gone>>

\* Mutant: spawning has a status of its own, which the enumeration lacks.
StatusAfterRespawn(status, action) ==
    IF action = "PA_SPAWN" /\ status = "DEAD" THEN "RESPAWN" ELSE status

\* LiftOff and Spawn: the status an action asks for, when it is allowed.
StatusAfter(status, action) ==
    CASE action = "PA_LIFTOFF" /\ status = "LANDED" -> "FLYING"
      [] action = "PA_SPAWN" /\ status = "DEAD" -> "LANDED"
      [] OTHER -> status

\* Mutant: the session's id is taken for a player's.
ActingPlayerBySession(a) == CHOOSE s \in SessionIds : by_id_map[s] = a

\* The player the server moves for a session.
ActingPlayer(a) == client_id[a]

\* Clients send actions once they play.
HandleAction(a, e, action) ==
    /\ Receives(a, e)
    /\ e \in playing
    /\ IF ActingPlayer(a) \in Players
       THEN instances' = [instances EXCEPT ![ActingPlayer(a)].status = StatusAfter(@, action)]
       ELSE UNCHANGED instances
    /\ stale' = stale \ {a}
    /\ UNCHANGED <<running, by_id_map, endpoint, client_id, clientVars>>

-----------------------------------------------------------------------------
(* The clients *)

\* A client process ends and another one starts at the endpoint.
Restart(e) ==
    /\ client_session[e] # 0 /\ e \notin gone
    /\ client_session' = [client_session EXCEPT ![e] = 0]
    /\ joins' = [joins EXCEPT ![e] = 0]
    /\ playing' = playing \ {e}
    /\ UNCHANGED <<sessionVars, instances, gone>>

\* A client quits; the server has no handler for LEAVE_GAME.
Leave(e) ==
    /\ e \notin gone
    /\ gone' = gone \cup {e}
    /\ playing' = playing \ {e}
    /\ UNCHANGED <<sessionVars, instances, client_session, joins>>

Next ==
    \/ PurgeStaleSessions
    \/ \E e \in Endpoints : HandleCreateSession(e) \/ Restart(e) \/ Leave(e)
    \/ \E a \in Addresses : GoesStale(a)
    \/ \E a \in Addresses, e \in Endpoints :
          \/ HandleReceivedPacket(a, e)
          \/ HandleJoin(a, e)
          \/ \E action \in {"PA_LIFTOFF", "PA_SPAWN"} : HandleAction(a, e, action)

Spec == Init /\ [][Next]_vars

\* The cleanup timer fires every second, and time passes for sessions that get
\* no packets.
Fairness ==
    /\ WF_vars(PurgeStaleSessions)
    /\ \A a \in Addresses : WF_vars(GoesStale(a))

FairSpec == Spec /\ Fairness

-----------------------------------------------------------------------------
(* Properties *)

TypeOK ==
    /\ running \in BOOLEAN
    /\ by_id_map \in [SessionIds -> Addresses \cup {Null}]
    /\ endpoint \in [Addresses -> Endpoints \cup {Null}]
    /\ client_id \in [Addresses -> 0..max_clients]
    /\ stale \subseteq Live
    /\ instances \in [PlayerIds -> Player \cup {Null}]
    /\ client_session \in [Endpoints -> SessionIds \cup {0}]
    /\ joins \in [Endpoints -> 0..MaxJoins]
    /\ playing \subseteq Endpoints
    /\ gone \subseteq Endpoints

\* A session has one id and one endpoint, and no other session has them: an
\* endpoint is refused while it has a session, and ids are free again only with
\* the session they named (CreateSessionForClient, ShipzSession::Init).
SessionsDistinct ==
    /\ \A a \in Live : \E s \in SessionIds : \A t \in SessionIds : by_id_map[t] = a <=> s = t
    /\ \A s \in SessionIds : by_id_map[s] # Null => by_id_map[s] \in Live
    /\ \A a, b \in Live : endpoint[a] = endpoint[b] => a = b

\* No player points at a session that was deleted, or at a new session that
\* was given its memory: the session is still that of the client that joined
\* (PurgeStaleSessions removes the player with the session).
PlayersKeepTheirSession ==
    \A i \in Players : endpoint[instances[i].session] = instances[i].owner

\* A client has one player, however often it is restarted.
OnePlayerPerClient ==
    \A i, j \in Players : instances[i].owner = instances[j].owner => i = j

\* An action of a client moves the player of that client and no other.
ActionsMoveOwnPlayer ==
    [][\A a \in Addresses, e \in Endpoints, action \in {"PA_LIFTOFF", "PA_SPAWN"} :
          HandleAction(a, e, action) =>
              \A i \in PlayerIds : instances'[i] # instances[i] => instances[i].owner = e]_vars

\* A player is removed only when its own client's session is stale.
PurgeSparesTheLiving ==
    [][\A i \in Players : instances'[i] = Null =>
          \E a \in stale : endpoint[a] = instances[i].owner]_vars

TeamSize(team) == Cardinality({i \in Players : instances[i].team = team})

\* Whatever the new player's team held before it was set, the team it gets was
\* at most one player ahead.
TeamsStayClose ==
    [][\A i \in PlayerIds : instances[i] = Null /\ instances'[i] # Null =>
          LET other == IF instances'[i].team = "RED" THEN "BLUE" ELSE "RED"
          IN  TeamSize(instances'[i].team) <= TeamSize(other) + 1]_vars

\* The player of a client that quit is removed at last, and its place in the
\* game is free again.
PlacesAreFreed ==
    \A e \in Endpoints :
        (e \in gone /\ running) ~> (\A i \in Players : instances[i].owner # e) \/ ~ running
=============================================================================
