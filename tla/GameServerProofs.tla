--------------------------- MODULE GameServerProofs ---------------------------
(***************************************************************************)
(* Proofs about GameServer, for any number of clients, sessions and        *)
(* places.                                                                 *)
(***************************************************************************)
EXTENDS GameServer, FiniteSetTheorems, WellFoundedInduction, TLAPS

\* What the clients have to keep to: nobody asks to join twice, and nobody is
\* silent for MAX_SESSION_AGE.
WellBehaved == MaxJoins = 1 /\ Silence = FALSE

\* The session a client uses is its own, and it is there.
ClientsKeepSession ==
    \A e \in Endpoints : e \notin gone /\ client_session[e] # 0 =>
        /\ by_id_map[client_session[e]] # Null
        /\ endpoint[by_id_map[client_session[e]]] = e

\* A session that is stale has no client that uses it.
UsedIsFresh == \A a \in stale, e \in Endpoints : ~ Receives(a, e)

OnePlayerPerSession ==
    \A i, j \in Players : instances[i].session = instances[j].session => i = j

\* A session that has a player has spent its client's request to join.
JoinedOnce ==
    \A i \in Players, e \in Endpoints : Receives(instances[i].session, e) => joins[e] >= 1

\* The session of a client that plays names the player of that session.
PlayingOwns ==
    \A e \in playing :
        /\ client_session[e] # 0
        /\ \A a \in Addresses : Receives(a, e) =>
            client_id[a] \in Players /\ instances[client_id[a]].session = a

SessionInv == TypeOK /\ SessionsDistinct

Inv == /\ SessionInv
       /\ PlayersKeepTheirSession
       /\ ClientsKeepSession
       /\ UsedIsFresh
       /\ OnePlayerPerSession
       /\ JoinedOnce
       /\ PlayingOwns

-----------------------------------------------------------------------------
(* Lemmas about the operators *)

\* Lowest finds the least id of a set that is not empty.
LEMMA LowestIsThere ==
    ASSUME NEW ids \in SUBSET Nat, ids # {}
    PROVE  Lowest(ids) \in ids
<1>1. PICK least \in ids : \A j \in ids : ~ (<<j, least>> \in OpToRel(<, Nat))
    BY NatLessThanWellFounded, WFMin
<1>2. \A j \in ids : ~ (j < least)
    BY <1>1 DEF OpToRel
<1>3. \A j \in ids : least <= j
    BY <1>2
<1> QED
    BY <1>3 DEF Lowest

LEMMA IdsAreNumbers == SessionIds \subseteq Nat /\ PlayerIds \subseteq Nat /\ 0 \notin PlayerIds
BY ServerAssumption DEF SessionIds, PlayerIds

\* GeneratePlayerID finds an id when the server is not full.
LEMMA PlaceIsFree ==
    ASSUME Cardinality(Players) < max_clients
    PROVE  Lowest(PlayerIds \ Players) \in PlayerIds \ Players
<1>1. IsFiniteSet(PlayerIds) /\ Cardinality(PlayerIds) = max_clients
    BY ServerAssumption, FS_Interval DEF PlayerIds
<1>2. PlayerIds \ Players # {}
    <2> SUFFICES ASSUME PlayerIds \ Players = {} PROVE FALSE
        OBVIOUS
    <2>1. Players = PlayerIds
        BY DEF Players
    <2> QED
        BY <2>1, <1>1, ServerAssumption
<1> QED
    BY <1>2, IdsAreNumbers, LowestIsThere

LEMMA FreeIdIsFree ==
    ASSUME FreeIds # {}
    PROVE  Lowest(FreeIds) \in SessionIds /\ by_id_map[Lowest(FreeIds)] = Null
<1>1. FreeIds \in SUBSET Nat
    BY IdsAreNumbers DEF FreeIds
<1>2. Lowest(FreeIds) \in FreeIds
    BY <1>1, LowestIsThere
<1> QED
    BY <1>2 DEF FreeIds

\* The players a purge removes are players of stale sessions.
LEMMA RemovedAreOwn ==
    ASSUME NEW a
    PROVE  FirstPlayerOf(a) \subseteq {i \in Players : instances[i].session = a}
<1> DEFINE own == {i \in Players : instances[i].session = a}
<1>1. own \in SUBSET Nat
    BY IdsAreNumbers DEF Players
<1> HIDE DEF own
<1>2. own # {} => Lowest(own) \in own
    BY <1>1, LowestIsThere
<1>3. FirstPlayerOf(a) = IF own = {} THEN {} ELSE {Lowest(own)}
    BY DEF FirstPlayerOf, own
<1> QED
    BY <1>2, <1>3 DEF own

\* When sessions have one player each a purge removes all players of a session.
LEMMA AllPlayersRemoved ==
    ASSUME OnePlayerPerSession, NEW i \in Players
    PROVE  i \in FirstPlayerOf(instances[i].session)
<1> DEFINE own == {j \in Players : instances[j].session = instances[i].session}
<1>1. own = {i}
    BY DEF OnePlayerPerSession
<1>2. own \in SUBSET Nat
    BY IdsAreNumbers DEF Players
<1> HIDE DEF own
<1>3. Lowest(own) \in own
    BY <1>1, <1>2, LowestIsThere
<1>4. FirstPlayerOf(instances[i].session) = IF own = {} THEN {} ELSE {Lowest(own)}
    BY DEF FirstPlayerOf, own
<1> QED
    BY <1>1, <1>3, <1>4

LEMMA BalancedTeamIsTeam ==
    ASSUME NEW garbage
    PROVE  GetBalancedTeam(garbage) \in {"RED", "BLUE"}
BY DEF GetBalancedTeam

LEMMA StatusIsStatus ==
    ASSUME NEW status \in {"DEAD", "LANDED", "FLYING"}, NEW action
    PROVE  StatusAfter(status, action) \in {"DEAD", "LANDED", "FLYING"}
BY DEF StatusAfter

-----------------------------------------------------------------------------
(* Type correctness *)

LEMMA InitType == Init => TypeOK
<1> SUFFICES ASSUME Init PROVE TypeOK
    OBVIOUS
<1>1. client_id \in [Addresses -> 0..max_clients]
    BY ServerAssumption DEF Init
<1>2. joins \in [Endpoints -> 0..MaxJoins]
    BY ServerAssumption DEF Init
<1> QED
    BY <1>1, <1>2 DEF Init, TypeOK

LEMMA HandleCreateSessionType ==
    ASSUME TypeOK, NEW e \in Endpoints, HandleCreateSession(e)
    PROVE  TypeOK'
<1>1. PICK a \in Addresses \ Live, garbage \in GarbageIds : NewSession(e, a, garbage)
    BY DEF HandleCreateSession
<1>2. garbage \in 0..max_clients
    BY ServerAssumption
<1>3. /\ running' \in BOOLEAN
      /\ by_id_map' \in [SessionIds -> Addresses \cup {Null}]
      /\ endpoint' \in [Addresses -> Endpoints \cup {Null}]
      /\ client_id' \in [Addresses -> 0..max_clients]
      /\ Live \subseteq Live'
    <2>1. CASE FreeIds = {}
        BY <1>1, <2>1 DEF NewSession, TypeOK, Live
    <2>2. CASE FreeIds # {}
        BY <1>1, <1>2, <2>2, ServerAssumption DEF NewSession, TypeOK, Live
    <2> QED
        BY <2>1, <2>2
<1>4. client_session' \in [Endpoints -> SessionIds \cup {0}]
    BY FreeIdIsFree DEF HandleCreateSession, TypeOK
<1> QED
    BY <1>3, <1>4 DEF HandleCreateSession, TypeOK

LEMMA PurgeType ==
    ASSUME TypeOK, PurgeStaleSessions
    PROVE  TypeOK'
BY DEF PurgeStaleSessions, TypeOK, clientVars, Live

LEMMA HandleJoinType ==
    ASSUME TypeOK, NEW a \in Addresses, NEW e \in Endpoints, HandleJoin(a, e)
    PROVE  TypeOK'
<1>1. joins' \in [Endpoints -> 0..MaxJoins]
    BY ServerAssumption DEF HandleJoin, TypeOK
<1>2. /\ instances' \in [PlayerIds -> Player \cup {Null}]
      /\ client_id' \in [Addresses -> 0..max_clients]
      /\ playing' \subseteq Endpoints
    <2>1. CASE Cardinality(Players) < max_clients
        <3> DEFINE i == Lowest(PlayerIds \ Players)
        <3>1. PICK garbage \in GarbageTeams :
                /\ instances' = [instances EXCEPT ![i] =
                      [session |-> a, team |-> GetBalancedTeam(garbage),
                       status |-> "DEAD", owner |-> e]]
                /\ client_id' = [client_id EXCEPT ![a] = i]
                /\ playing' = playing \cup {c \in Endpoints : c = endpoint[a] /\ Receives(a, c)}
            BY <2>1 DEF HandleJoin
        <3>2. i \in PlayerIds
            BY <2>1, PlaceIsFree
        <3>3. i \in 0..max_clients
            BY <3>2, ServerAssumption DEF PlayerIds
        <3>4. [session |-> a, team |-> GetBalancedTeam(garbage), status |-> "DEAD", owner |-> e] \in Player
            BY BalancedTeamIsTeam DEF Player
        <3> HIDE DEF i
        <3> QED
            BY <3>1, <3>2, <3>3, <3>4 DEF TypeOK
    <2>2. CASE ~ (Cardinality(Players) < max_clients)
        BY <2>2 DEF HandleJoin, TypeOK
    <2> QED
        BY <2>1, <2>2
<1>3. stale' \subseteq Live /\ UNCHANGED <<running, by_id_map, endpoint, client_session, gone>>
    BY DEF HandleJoin, TypeOK
<1> QED
    BY <1>1, <1>2, <1>3 DEF TypeOK, Live

LEMMA HandleActionType ==
    ASSUME TypeOK, NEW a \in Addresses, NEW e \in Endpoints, NEW action, HandleAction(a, e, action)
    PROVE  TypeOK'
<1> DEFINE p == ActingPlayer(a)
<1>1. instances' \in [PlayerIds -> Player \cup {Null}]
    <2>1. CASE p \in Players
        <3>1. p \in PlayerIds /\ instances[p] \in Player
            BY <2>1 DEF Players, TypeOK
        <3>2. StatusAfter(instances[p].status, action) \in {"DEAD", "LANDED", "FLYING"}
            BY <3>1, StatusIsStatus DEF Player
        <3>3. [instances[p] EXCEPT !.status = StatusAfter(instances[p].status, action)] \in Player
            BY <3>1, <3>2 DEF Player
        <3>4. instances' = [instances EXCEPT ![p].status = StatusAfter(@, action)]
            BY <2>1 DEF HandleAction
        <3> HIDE DEF p
        <3> QED
            BY <3>1, <3>3, <3>4 DEF TypeOK
    <2>2. CASE p \notin Players
        BY <2>2 DEF HandleAction, TypeOK
    <2> QED
        BY <2>1, <2>2
<1>2. stale' \subseteq Live /\ UNCHANGED <<running, by_id_map, endpoint, client_id, clientVars>>
    BY DEF HandleAction, TypeOK
<1> QED
    BY <1>1, <1>2 DEF TypeOK, Live, clientVars

LEMMA OtherTypes ==
    ASSUME TypeOK,
           \/ UNCHANGED vars
           \/ \E e \in Endpoints : Restart(e) \/ Leave(e)
           \/ \E a \in Addresses : GoesStale(a)
           \/ \E a \in Addresses, e \in Endpoints : HandleReceivedPacket(a, e)
    PROVE  TypeOK'
<1>1. CASE UNCHANGED vars
    BY <1>1 DEF TypeOK, vars, sessionVars, clientVars, Live
<1>2. ASSUME NEW e \in Endpoints, Restart(e) PROVE TypeOK'
    BY <1>2, ServerAssumption DEF Restart, TypeOK, sessionVars, Live
<1>3. ASSUME NEW e \in Endpoints, Leave(e) PROVE TypeOK'
    BY <1>3 DEF Leave, TypeOK, sessionVars, Live
<1>4. ASSUME NEW a \in Addresses, GoesStale(a) PROVE TypeOK'
    BY <1>4 DEF GoesStale, TypeOK, clientVars, Live
<1>5. ASSUME NEW a \in Addresses, NEW e \in Endpoints, HandleReceivedPacket(a, e) PROVE TypeOK'
    BY <1>5 DEF HandleReceivedPacket, TypeOK, clientVars, Live
<1> QED
    BY <1>1, <1>2, <1>3, <1>4, <1>5

LEMMA NextType == TypeOK /\ [Next]_vars => TypeOK'
<1> SUFFICES ASSUME TypeOK, [Next]_vars
             PROVE  TypeOK'
    OBVIOUS
<1> QED
    BY HandleCreateSessionType, PurgeType, HandleJoinType, HandleActionType, OtherTypes DEF Next

\* The variables keep their types: the lowest free id is found whenever it is
\* looked for, and a status is always one of the enumeration.
THEOREM TypeCorrect == Spec => []TypeOK
BY InitType, NextType, PTL DEF Spec

-----------------------------------------------------------------------------
(* Sessions *)

LEMMA CreateKeepsDistinct ==
    ASSUME SessionInv, NEW e \in Endpoints, HandleCreateSession(e)
    PROVE  SessionsDistinct'
<1>1. PICK a \in Addresses \ Live, garbage \in GarbageIds : NewSession(e, a, garbage)
    BY DEF HandleCreateSession
<1>2. CASE FreeIds = {}
    BY <1>1, <1>2 DEF NewSession, SessionInv, SessionsDistinct, Live
<1>3. CASE FreeIds # {}
    <2> DEFINE new == Lowest(FreeIds)
    <2>1. new \in SessionIds /\ by_id_map[new] = Null
        BY <1>3, FreeIdIsFree
    <2>2. /\ by_id_map' = [by_id_map EXCEPT ![new] = a]
          /\ endpoint' = [endpoint EXCEPT ![a] = e]
        BY <1>1, <1>3 DEF NewSession
    <2>3. /\ by_id_map \in [SessionIds -> Addresses \cup {Null}]
          /\ endpoint \in [Addresses -> Endpoints \cup {Null}]
          /\ SessionsDistinct
          /\ e # Null /\ a # Null /\ endpoint[a] = Null
        BY ServerAssumption DEF SessionInv, TypeOK, Live
    <2> HIDE DEF new
    <2>4. Live' = Live \cup {a} /\ a \notin Live
        BY <2>2, <2>3 DEF Live
    <2>5. \A s \in SessionIds : by_id_map[s] # a
        BY <2>3 DEF SessionsDistinct, Live
    <2>6. \A b \in Live : endpoint[b] # e
        BY DEF HandleCreateSession, Exists
    <2>7. \A b \in Live' : \E s \in SessionIds : \A t \in SessionIds : by_id_map'[t] = b <=> s = t
        <3> SUFFICES ASSUME NEW b \in Live'
                     PROVE  \E s \in SessionIds : \A t \in SessionIds : by_id_map'[t] = b <=> s = t
            OBVIOUS
        <3>1. CASE b = a
            <4>1. \A t \in SessionIds : by_id_map'[t] = a <=> new = t
                BY <2>1, <2>2, <2>3, <2>5
            <4> QED
                BY <3>1, <4>1, <2>1
        <3>2. CASE b # a
            <4>1. b \in Live
                BY <3>2, <2>4
            <4>2. PICK s \in SessionIds : \A t \in SessionIds : by_id_map[t] = b <=> s = t
                BY <4>1, <2>3 DEF SessionsDistinct
            <4>3. b # Null
                BY <4>1, ServerAssumption DEF Live
            <4>4. \A t \in SessionIds : by_id_map'[t] = b <=> s = t
                BY <4>2, <4>3, <3>2, <2>1, <2>2, <2>3
            <4> QED
                BY <4>4
        <3> QED
            BY <3>1, <3>2
    <2>8. \A s \in SessionIds : by_id_map'[s] # Null => by_id_map'[s] \in Live'
        BY <2>2, <2>3, <2>4 DEF SessionsDistinct
    <2>9. \A b, c \in Live' : endpoint'[b] = endpoint'[c] => b = c
        BY <2>2, <2>3, <2>4, <2>6 DEF SessionsDistinct, Live
    <2> QED
        BY <2>7, <2>8, <2>9 DEF SessionsDistinct
<1> QED
    BY <1>2, <1>3

LEMMA PurgeKeepsDistinct ==
    ASSUME SessionInv, PurgeStaleSessions
    PROVE  SessionsDistinct'
<1>1. /\ by_id_map' = [s \in SessionIds |-> IF by_id_map[s] \in stale THEN Null ELSE by_id_map[s]]
      /\ endpoint' = [a \in Addresses |-> IF a \in stale THEN Null ELSE endpoint[a]]
    BY DEF PurgeStaleSessions
<1>2. /\ by_id_map \in [SessionIds -> Addresses \cup {Null}]
      /\ endpoint \in [Addresses -> Endpoints \cup {Null}]
      /\ SessionsDistinct
    BY DEF SessionInv, TypeOK
<1>3. Live' = Live \ stale
    BY <1>1, <1>2 DEF Live
<1>4. \A a \in Live' : \E s \in SessionIds : \A t \in SessionIds : by_id_map'[t] = a <=> s = t
    <2> SUFFICES ASSUME NEW a \in Live'
                 PROVE  \E s \in SessionIds : \A t \in SessionIds : by_id_map'[t] = a <=> s = t
        OBVIOUS
    <2>1. a \in Live /\ a \notin stale /\ a # Null
        BY <1>3, ServerAssumption DEF Live
    <2>2. PICK s \in SessionIds : \A t \in SessionIds : by_id_map[t] = a <=> s = t
        BY <2>1, <1>2 DEF SessionsDistinct
    <2>3. \A t \in SessionIds : by_id_map'[t] = a <=> s = t
        BY <2>1, <2>2, <1>1
    <2> QED
        BY <2>3
<1>5. \A s \in SessionIds : by_id_map'[s] # Null => by_id_map'[s] \in Live'
    BY <1>1, <1>2, <1>3 DEF SessionsDistinct
<1>6. \A a, b \in Live' : endpoint'[a] = endpoint'[b] => a = b
    BY <1>1, <1>2, <1>3 DEF SessionsDistinct, Live
<1> QED
    BY <1>4, <1>5, <1>6 DEF SessionsDistinct

\* What no other step changes.
LEMMA OthersKeepSessions ==
    ASSUME [Next]_vars,
           ~ PurgeStaleSessions, ~ \E e \in Endpoints : HandleCreateSession(e)
    PROVE  UNCHANGED <<running, by_id_map, endpoint>>
<1>1. CASE UNCHANGED vars
    BY <1>1 DEF vars, sessionVars
<1>2. ASSUME NEW e \in Endpoints, Restart(e) \/ Leave(e)
      PROVE  UNCHANGED <<running, by_id_map, endpoint>>
    BY <1>2 DEF Restart, Leave, sessionVars
<1>3. ASSUME NEW a \in Addresses, NEW e \in Endpoints, NEW action,
             \/ GoesStale(a) \/ HandleReceivedPacket(a, e)
             \/ HandleJoin(a, e) \/ HandleAction(a, e, action)
      PROVE  UNCHANGED <<running, by_id_map, endpoint>>
    BY <1>3 DEF GoesStale, HandleReceivedPacket, HandleJoin, HandleAction
<1>4. CASE \E a \in Addresses : GoesStale(a)
    BY <1>4 DEF GoesStale
<1> QED
    BY <1>1, <1>2, <1>3, <1>4 DEF Next

LEMMA NextSession == SessionInv /\ [Next]_vars => SessionInv'
<1> SUFFICES ASSUME SessionInv, [Next]_vars
             PROVE  SessionInv'
    OBVIOUS
<1>1. TypeOK'
    BY NextType DEF SessionInv
<1>2. SessionsDistinct'
    <2>1. CASE UNCHANGED <<running, by_id_map, endpoint>>
        BY <2>1 DEF SessionInv, SessionsDistinct, Live
    <2> QED
        BY <2>1, CreateKeepsDistinct, PurgeKeepsDistinct, OthersKeepSessions
<1> QED
    BY <1>1, <1>2 DEF SessionInv

LEMMA InitSession == Init => SessionInv
<1> SUFFICES ASSUME Init PROVE SessionInv
    OBVIOUS
<1>1. Live = {}
    BY DEF Init, Live
<1> QED
    BY <1>1, InitType DEF Init, SessionInv, SessionsDistinct

\* A session has one id and one endpoint, and no other has them, whatever the
\* clients do: an endpoint that has a session is refused another one, and an id
\* is free again only with its session (CreateSessionForClient).
THEOREM SessionsDistinctHolds == Spec => []SessionsDistinct
<1>1. SessionInv => SessionsDistinct
    BY DEF SessionInv
<1> QED
    BY <1>1, InitSession, NextSession, PTL DEF Spec

-----------------------------------------------------------------------------
(* Players *)

\* The client that uses a session is the only one, and it is its own.
LEMMA UserOwns ==
    ASSUME SessionInv, ClientsKeepSession,
           NEW a \in Addresses, NEW e \in Endpoints, Receives(a, e)
    PROVE  /\ running /\ e \notin gone
           /\ client_session[e] \in SessionIds /\ client_session[e] # 0
           /\ by_id_map[client_session[e]] = a
           /\ endpoint[a] = e /\ a \in Live
           /\ \A f \in Endpoints : Receives(a, f) => f = e
           /\ \A b \in Addresses : Receives(b, e) => b = a
<1>1. 0 \notin SessionIds
    BY ServerAssumption DEF SessionIds
<1>2. a # Null /\ e # Null
    BY ServerAssumption
<1>3. running /\ e \notin gone /\ client_session[e] \in SessionIds
      /\ by_id_map[client_session[e]] = a /\ client_session[e] # 0
    BY <1>1 DEF Receives
<1>4. endpoint[a] = e
    BY <1>3 DEF ClientsKeepSession
<1>5. \A f \in Endpoints : Receives(a, f) => f = e
    BY <1>1, <1>4 DEF Receives, ClientsKeepSession
<1> QED
    BY <1>2, <1>3, <1>4, <1>5 DEF Receives, Live

\* A player's session is live, and the player is no Null.
LEMMA PlayerFacts ==
    ASSUME TypeOK, PlayersKeepTheirSession, NEW i \in Players
    PROVE  /\ i \in PlayerIds /\ instances[i] \in Player /\ instances[i] # Null
           /\ instances[i].session \in Live
           /\ instances[i].owner \in Endpoints
           /\ endpoint[instances[i].session] = instances[i].owner
<1>1. i \in PlayerIds /\ instances[i] \in Player /\ instances[i] # Null
    BY DEF Players, TypeOK
<1>2. instances[i].session \in Addresses /\ instances[i].owner \in Endpoints
    BY <1>1 DEF Player
<1>3. endpoint[instances[i].session] = instances[i].owner /\ instances[i].owner # Null
    BY <1>2, ServerAssumption DEF PlayersKeepTheirSession
<1> QED
    BY <1>1, <1>2, <1>3 DEF Live

\* Steps that leave sessions and players alone, take clients from a session and
\* activity from none keep the invariant.
LEMMA FewerUses ==
    ASSUME Inv, SessionInv',
           UNCHANGED <<by_id_map, endpoint, client_id, instances>>,
           \A a \in Addresses, e \in Endpoints : Receives(a, e)' => Receives(a, e) /\ joins'[e] >= joins[e],
           \A e \in Endpoints : e \notin gone' /\ client_session'[e] # 0 =>
                e \notin gone /\ client_session'[e] = client_session[e],
           \A a \in stale', e \in Endpoints : ~ Receives(a, e)',
           playing' \subseteq playing, \A e \in playing' : client_session'[e] # 0
    PROVE  Inv'
<1>1. Players' = Players
    BY DEF Players
<1>2. PlayersKeepTheirSession' /\ OnePlayerPerSession'
    BY <1>1 DEF Inv, PlayersKeepTheirSession, OnePlayerPerSession
<1>3. ClientsKeepSession'
    BY DEF Inv, ClientsKeepSession
<1>4. UsedIsFresh'
    BY DEF UsedIsFresh
<1>5. JoinedOnce'
    <2> SUFFICES ASSUME NEW i \in Players', NEW e \in Endpoints, Receives(instances[i].session, e)'
                 PROVE  joins'[e] >= 1
        BY DEF JoinedOnce
    <2>1. i \in Players /\ instances[i].session \in Addresses
        BY <1>1, PlayerFacts DEF Inv, SessionInv, Live
    <2>2. Receives(instances[i].session, e) /\ joins'[e] >= joins[e]
        BY <2>1
    <2>3. joins[e] >= 1
        BY <2>1, <2>2 DEF Inv, JoinedOnce
    <2>4. joins[e] \in Int /\ joins'[e] \in Int
        BY ServerAssumption DEF Inv, SessionInv, TypeOK
    <2> QED
        BY <2>2, <2>3, <2>4
<1>6. PlayingOwns'
    <2> SUFFICES ASSUME NEW e \in playing'
                 PROVE  /\ client_session'[e] # 0
                        /\ \A a \in Addresses : Receives(a, e)' =>
                            client_id'[a] \in Players' /\ instances'[client_id'[a]].session = a
        BY DEF PlayingOwns
    <2>1. e \in playing /\ e \in Endpoints
        BY DEF Inv, SessionInv, TypeOK
    <2>2. \A a \in Addresses : Receives(a, e)' => Receives(a, e)
        BY <2>1
    <2> QED
        BY <1>1, <2>1, <2>2 DEF Inv, PlayingOwns
<1> QED
    BY <1>2, <1>3, <1>4, <1>5, <1>6 DEF Inv

LEMMA CreateInv ==
    ASSUME Inv, SessionInv', NEW e \in Endpoints, HandleCreateSession(e)
    PROVE  Inv'
<1>1. PICK a \in Addresses \ Live, garbage \in GarbageIds : NewSession(e, a, garbage)
    BY DEF HandleCreateSession
<1>2. /\ client_session[e] = 0 /\ e \notin gone
      /\ UNCHANGED <<stale, instances, joins, playing, gone>>
    BY DEF HandleCreateSession
<1>3. Players' = Players
    BY <1>2 DEF Players
<1>4. OnePlayerPerSession'
    BY <1>2, <1>3 DEF Inv, OnePlayerPerSession
<1>5. CASE FreeIds = {}
    <2>1. /\ UNCHANGED <<by_id_map, endpoint, client_id, client_session>>
          /\ running' = FALSE
        BY <1>1, <1>5 DEF NewSession, HandleCreateSession
    <2>2. \A b \in Addresses, f \in Endpoints : ~ Receives(b, f)'
        BY <2>1 DEF Receives
    <2>3. stale' \subseteq Addresses
        BY <1>2 DEF Inv, SessionInv, TypeOK, Live
    <2>4. \A f \in playing' : client_session'[f] # 0
        BY <1>2, <2>1 DEF Inv, PlayingOwns
    <2> QED
        BY <1>2, <2>1, <2>2, <2>3, <2>4, FewerUses
<1>6. CASE FreeIds # {}
    <2> DEFINE new == Lowest(FreeIds)
    <2>1. new \in SessionIds /\ by_id_map[new] = Null
        BY <1>6, FreeIdIsFree
    <2>2. /\ by_id_map' = [by_id_map EXCEPT ![new] = a]
          /\ endpoint' = [endpoint EXCEPT ![a] = e]
          /\ client_id' = [client_id EXCEPT ![a] = garbage]
          /\ running' = running
        BY <1>1, <1>6 DEF NewSession
    <2>3. client_session' = [client_session EXCEPT ![e] = new] \/ client_session' = client_session
        BY DEF HandleCreateSession
    <2>4. /\ by_id_map \in [SessionIds -> Addresses \cup {Null}]
          /\ endpoint \in [Addresses -> Endpoints \cup {Null}]
          /\ client_id \in [Addresses -> 0..max_clients]
          /\ client_session \in [Endpoints -> SessionIds \cup {0}]
          /\ stale \subseteq Live
          /\ playing \subseteq Endpoints
        BY DEF Inv, SessionInv, TypeOK
    <2>5. /\ endpoint[a] = Null /\ e # Null /\ a # Null /\ 0 \notin SessionIds
          /\ \A f \in Endpoints : f # Null
          /\ \A b \in Addresses : b # Null
        BY ServerAssumption DEF Live, SessionIds
    <2> HIDE DEF new
    <2>6. \A b \in Addresses, f \in Endpoints : Receives(b, f)' =>
            \/ f = e /\ b = a
            \/ f # e /\ b # a /\ Receives(b, f)
        <3> SUFFICES ASSUME NEW b \in Addresses, NEW f \in Endpoints, Receives(b, f)'
                     PROVE  \/ f = e /\ b = a
                            \/ f # e /\ b # a /\ Receives(b, f)
            OBVIOUS
        <3>1. /\ running' /\ f \notin gone
              /\ client_session'[f] \in SessionIds /\ b = by_id_map'[client_session'[f]]
            BY <1>2 DEF Receives
        <3>2. CASE f = e
            <4>1. client_session'[e] = new
                BY <3>1, <3>2, <1>2, <2>3, <2>4, <2>5
            <4> QED
                BY <4>1, <3>1, <3>2, <2>1, <2>2, <2>4
        <3>3. CASE f # e
            <4>1. client_session'[f] = client_session[f] /\ client_session[f] # 0
                BY <3>1, <3>3, <2>3, <2>4, <2>5
            <4>2. by_id_map[client_session[f]] # Null /\ endpoint[by_id_map[client_session[f]]] = f
                BY <4>1, <3>1 DEF Inv, ClientsKeepSession
            <4>3. by_id_map'[client_session[f]] = by_id_map[client_session[f]]
                BY <4>1, <4>2, <3>1, <2>1, <2>2, <2>4
            <4>4. b = by_id_map[client_session[f]] /\ b # a
                BY <4>1, <4>2, <4>3, <3>1, <2>5
            <4> QED
                BY <4>1, <4>4, <3>1, <3>3, <2>2 DEF Receives
        <3> QED
            BY <3>2, <3>3
    <2>7. \A i \in Players : instances[i].session # a /\ instances[i].session \in Addresses
        BY <2>5, PlayerFacts DEF Inv, SessionInv, Live
    <2>8. PlayersKeepTheirSession'
        BY <1>2, <1>3, <2>2, <2>4, <2>7 DEF Inv, PlayersKeepTheirSession
    <2>9. ClientsKeepSession'
        <3> SUFFICES ASSUME NEW f \in Endpoints, f \notin gone, client_session'[f] # 0
                     PROVE  /\ by_id_map'[client_session'[f]] # Null
                            /\ endpoint'[by_id_map'[client_session'[f]]] = f
            BY <1>2 DEF ClientsKeepSession
        <3>1. CASE f = e
            <4>1. client_session'[e] = new
                BY <3>1, <1>2, <2>3, <2>4
            <4> QED
                BY <4>1, <3>1, <2>1, <2>2, <2>4, <2>5
        <3>2. CASE f # e
            <4>1. client_session'[f] = client_session[f] /\ client_session[f] \in SessionIds
                BY <3>2, <2>3, <2>4
            <4>2. by_id_map[client_session[f]] # Null /\ endpoint[by_id_map[client_session[f]]] = f
                BY <4>1 DEF Inv, ClientsKeepSession
            <4>3. by_id_map'[client_session[f]] = by_id_map[client_session[f]]
                BY <4>1, <4>2, <2>1, <2>2, <2>4
            <4>4. by_id_map[client_session[f]] \in Addresses /\ by_id_map[client_session[f]] # a
                BY <4>1, <4>2, <2>4, <2>5
            <4> QED
                BY <4>1, <4>2, <4>3, <4>4, <2>2, <2>4
        <3> QED
            BY <3>1, <3>2
    <2>10. UsedIsFresh'
        <3>1. \A b \in stale : b \in Addresses /\ b # a
            BY <2>4, <2>5 DEF Live
        <3> QED
            BY <1>2, <2>6, <3>1 DEF Inv, UsedIsFresh
    <2>11. JoinedOnce'
        BY <1>2, <1>3, <2>6, <2>7 DEF Inv, JoinedOnce
    <2>12. PlayingOwns'
        <3> SUFFICES ASSUME NEW f \in playing
                     PROVE  /\ client_session'[f] # 0
                            /\ \A b \in Addresses : Receives(b, f)' =>
                                client_id'[b] \in Players /\ instances[client_id'[b]].session = b
            BY <1>2, <1>3 DEF PlayingOwns
        <3>1. f \in Endpoints /\ f # e /\ client_session[f] # 0
            BY <1>2, <2>4 DEF Inv, PlayingOwns
        <3>2. client_session'[f] = client_session[f]
            BY <3>1, <2>3, <2>4
        <3>3. \A b \in Addresses : Receives(b, f)' => b # a /\ Receives(b, f)
            BY <3>1, <2>6
        <3>4. \A b \in Addresses : b # a => client_id'[b] = client_id[b]
            BY <2>2, <2>4
        <3> QED
            BY <3>1, <3>2, <3>3, <3>4 DEF Inv, PlayingOwns
    <2> QED
        BY <1>4, <2>8, <2>9, <2>10, <2>11, <2>12 DEF Inv
<1> QED
    BY <1>5, <1>6

LEMMA ClientStepsInv ==
    ASSUME WellBehaved, Inv, SessionInv',
           \/ UNCHANGED vars
           \/ \E e \in Endpoints : Restart(e) \/ Leave(e)
           \/ \E a \in Addresses : GoesStale(a)
           \/ \E a \in Addresses, e \in Endpoints : HandleReceivedPacket(a, e)
    PROVE  Inv'
<1>1. /\ client_session \in [Endpoints -> SessionIds \cup {0}] /\ 0 \notin SessionIds
      /\ joins \in [Endpoints -> 0..MaxJoins] /\ \A e \in Endpoints : joins[e] \in Int
      /\ stale \subseteq Addresses /\ playing \subseteq Endpoints
      /\ \A e \in playing : client_session[e] # 0
      /\ UsedIsFresh
    BY ServerAssumption DEF Inv, SessionInv, TypeOK, SessionIds, Live, PlayingOwns
<1>2. CASE UNCHANGED vars
    <2>1. UNCHANGED <<sessionVars, instances, clientVars>>
        BY <1>2 DEF vars
    <2>2. \A a, e : Receives(a, e)' <=> Receives(a, e)
        BY <2>1 DEF Receives, sessionVars, clientVars
    <2> QED
        BY <1>1, <2>1, <2>2, FewerUses DEF sessionVars, clientVars, UsedIsFresh
<1>3. ASSUME NEW e \in Endpoints, Restart(e)
      PROVE  Inv'
    <2>1. /\ client_session' = [client_session EXCEPT ![e] = 0]
          /\ joins' = [joins EXCEPT ![e] = 0]
          /\ playing' = playing \ {e}
          /\ UNCHANGED <<running, by_id_map, endpoint, client_id, stale, instances, gone>>
        BY <1>3 DEF Restart, sessionVars
    <2>2. \A a, f : f \in Endpoints /\ Receives(a, f)' => f # e /\ Receives(a, f)
        BY <1>1, <2>1 DEF Receives
    <2>3. \A f \in Endpoints : f # e => joins'[f] >= joins[f] /\ client_session'[f] = client_session[f]
        BY <1>1, <2>1
    <2>4. client_session'[e] = 0
        BY <1>1, <2>1
    <2> QED
        BY <1>1, <2>1, <2>2, <2>3, <2>4, FewerUses DEF UsedIsFresh
<1>4. ASSUME NEW e \in Endpoints, Leave(e)
      PROVE  Inv'
    <2>1. /\ gone' = gone \cup {e}
          /\ playing' = playing \ {e}
          /\ UNCHANGED <<running, by_id_map, endpoint, client_id, stale, instances, client_session, joins>>
        BY <1>4 DEF Leave, sessionVars
    <2>2. \A a, f : Receives(a, f)' => Receives(a, f)
        BY <2>1 DEF Receives
    <2> QED
        BY <1>1, <2>1, <2>2, FewerUses DEF UsedIsFresh
<1>5. ASSUME NEW a \in Addresses, GoesStale(a)
      PROVE  Inv'
    <2>1. /\ stale' = stale \cup {a}
          /\ UNCHANGED <<running, by_id_map, endpoint, client_id, instances,
                         client_session, joins, playing, gone>>
          /\ \A e \in Endpoints : ~ Receives(a, e)
        BY <1>5 DEF GoesStale, clientVars, WellBehaved
    <2>2. \A b, f : Receives(b, f)' <=> Receives(b, f)
        BY <2>1 DEF Receives
    <2> QED
        BY <1>1, <2>1, <2>2, FewerUses DEF UsedIsFresh
<1>6. ASSUME NEW a \in Addresses, NEW e \in Endpoints, HandleReceivedPacket(a, e)
      PROVE  Inv'
    <2>1. /\ stale' = stale \ {a}
          /\ UNCHANGED <<running, by_id_map, endpoint, client_id, instances,
                         client_session, joins, playing, gone>>
        BY <1>6 DEF HandleReceivedPacket, clientVars
    <2>2. \A b, f : Receives(b, f)' <=> Receives(b, f)
        BY <2>1 DEF Receives
    <2> QED
        BY <1>1, <2>1, <2>2, FewerUses DEF UsedIsFresh
<1> QED
    BY <1>2, <1>3, <1>4, <1>5, <1>6

\* The players a purge leaves are those of the sessions it leaves.
LEMMA PurgedPlayers ==
    ASSUME Inv, PurgeStaleSessions
    PROVE  /\ Players' = {i \in Players : instances[i].session \notin stale}
           /\ \A i \in Players' : instances'[i] = instances[i]
<1> DEFINE removed == UNION {FirstPlayerOf(a) : a \in stale}
<1>1. instances' = [i \in PlayerIds |-> IF i \in removed THEN Null ELSE instances[i]]
    BY DEF PurgeStaleSessions
<1>2. \A i \in Players : i \in removed <=> instances[i].session \in stale
    <2>1. \A i \in Players : instances[i].session \in stale => i \in removed
        BY AllPlayersRemoved DEF Inv
    <2>2. \A i \in removed : instances[i].session \in stale
        BY RemovedAreOwn
    <2> QED
        BY <2>1, <2>2
<1> HIDE DEF removed
<1>3. Players' = {i \in Players : i \notin removed}
    BY <1>1 DEF Players
<1>4. \A i \in Players' : instances'[i] = instances[i]
    BY <1>1, <1>3 DEF Players
<1> QED
    BY <1>2, <1>3, <1>4

LEMMA PurgeInv ==
    ASSUME Inv, SessionInv', PurgeStaleSessions
    PROVE  Inv'
<1>1. /\ by_id_map' = [s \in SessionIds |-> IF by_id_map[s] \in stale THEN Null ELSE by_id_map[s]]
      /\ endpoint' = [a \in Addresses |-> IF a \in stale THEN Null ELSE endpoint[a]]
      /\ stale' = {} /\ running
      /\ UNCHANGED <<running, client_id, client_session, joins, playing, gone>>
    BY DEF PurgeStaleSessions, clientVars
<1>2. /\ by_id_map \in [SessionIds -> Addresses \cup {Null}]
      /\ client_session \in [Endpoints -> SessionIds \cup {0}]
      /\ playing \subseteq Endpoints
      /\ stale \subseteq Addresses
      /\ Null \notin Addresses
    BY ServerAssumption DEF Inv, SessionInv, TypeOK, Live
<1>3. /\ Players' = {i \in Players : instances[i].session \notin stale}
      /\ \A i \in Players' : instances'[i] = instances[i]
    BY PurgedPlayers
<1>4. \A a \in Addresses, e \in Endpoints : Receives(a, e)' => Receives(a, e) /\ a \notin stale
    BY <1>1, <1>2 DEF Receives
<1>5. \A i \in Players : instances[i].session \in Addresses
    BY PlayerFacts DEF Inv, SessionInv, Live
<1>6. PlayersKeepTheirSession'
    BY <1>1, <1>3, <1>5 DEF Inv, PlayersKeepTheirSession
<1>7. ClientsKeepSession'
    <2> SUFFICES ASSUME NEW e \in Endpoints, e \notin gone, client_session[e] # 0
                 PROVE  /\ by_id_map'[client_session[e]] # Null
                        /\ endpoint'[by_id_map'[client_session[e]]] = e
        BY <1>1 DEF ClientsKeepSession
    <2>1. client_session[e] \in SessionIds
        BY <1>2
    <2>2. by_id_map[client_session[e]] # Null /\ endpoint[by_id_map[client_session[e]]] = e
        BY DEF Inv, ClientsKeepSession
    <2>3. by_id_map[client_session[e]] \in Addresses
        BY <2>1, <2>2, <1>2
    <2>4. Receives(by_id_map[client_session[e]], e)
        BY <2>1, <2>3, <1>1 DEF Receives
    <2>5. by_id_map[client_session[e]] \notin stale
        BY <2>4 DEF Inv, UsedIsFresh
    <2> QED
        BY <2>1, <2>2, <2>3, <2>5, <1>1
<1>8. UsedIsFresh'
    BY <1>1 DEF UsedIsFresh
<1>9. OnePlayerPerSession'
    BY <1>3 DEF Inv, OnePlayerPerSession
<1>10. JoinedOnce'
    BY <1>1, <1>3, <1>4, <1>5 DEF Inv, JoinedOnce
<1>11. PlayingOwns'
    <2> SUFFICES ASSUME NEW e \in playing
                 PROVE  /\ client_session[e] # 0
                        /\ \A a \in Addresses : Receives(a, e)' =>
                            client_id[a] \in Players' /\ instances'[client_id[a]].session = a
        BY <1>1 DEF PlayingOwns
    <2>1. e \in Endpoints /\ client_session[e] # 0
        BY <1>2 DEF Inv, PlayingOwns
    <2>2. ASSUME NEW a \in Addresses, Receives(a, e)'
          PROVE  client_id[a] \in Players' /\ instances'[client_id[a]].session = a
        <3>1. Receives(a, e) /\ a \notin stale
            BY <2>1, <2>2, <1>4
        <3>2. client_id[a] \in Players /\ instances[client_id[a]].session = a
            BY <3>1 DEF Inv, PlayingOwns
        <3> QED
            BY <3>1, <3>2, <1>3
    <2> QED
        BY <2>1, <2>2
<1> QED
    BY <1>6, <1>7, <1>8, <1>9, <1>10, <1>11 DEF Inv

\* A join gives a player to a session that has none: the client's only request
\* to join is spent when its session has a player.
LEMMA JoinAccepted ==
    ASSUME WellBehaved, Inv, NEW a \in Addresses, NEW e \in Endpoints, HandleJoin(a, e),
           Cardinality(Players) < max_clients
    PROVE  \E i \in PlayerIds \ Players :
              /\ Players' = Players \cup {i}
              /\ instances'[i].session = a /\ instances'[i].owner = e
              /\ \A j \in Players : instances'[j] = instances[j] /\ instances[j].session # a
              /\ client_id' = [client_id EXCEPT ![a] = i]
              /\ playing' = playing \cup {e}
<1> DEFINE i == Lowest(PlayerIds \ Players)
<1>1. PICK garbage \in GarbageTeams :
        /\ instances' = [instances EXCEPT ![i] =
              [session |-> a, team |-> GetBalancedTeam(garbage),
               status |-> "DEAD", owner |-> e]]
        /\ client_id' = [client_id EXCEPT ![a] = i]
        /\ playing' = playing \cup {c \in Endpoints : c = endpoint[a] /\ Receives(a, c)}
    BY DEF HandleJoin
<1>2. i \in PlayerIds \ Players
    BY PlaceIsFree
<1> DEFINE new == [session |-> a, team |-> GetBalancedTeam(garbage), status |-> "DEAD", owner |-> e]
<1>3. new \in Player /\ new # Null
    BY BalancedTeamIsTeam, NullAssumption DEF Player
<1>4. new.session = a /\ new.owner = e
    OBVIOUS
<1>5. instances' = [instances EXCEPT ![i] = new]
    BY <1>1
<1>6. client_id' = [client_id EXCEPT ![a] = i]
    BY <1>1
<1>7. Receives(a, e) /\ joins[e] < 1
    BY DEF HandleJoin, WellBehaved
<1>8. playing' = playing \cup {e}
    BY <1>1, <1>7, UserOwns DEF Inv
<1> HIDE DEF i, new
<1>9. instances \in [PlayerIds -> Player \cup {Null}] /\ joins \in [Endpoints -> 0..MaxJoins]
    BY DEF Inv, SessionInv, TypeOK
<1>10. instances'[i] = new /\ \A j \in PlayerIds : j # i => instances'[j] = instances[j]
    BY <1>2, <1>5, <1>9
<1>11. Players' = Players \cup {i}
    BY <1>2, <1>3, <1>10 DEF Players
<1>12. \A j \in Players : instances[j].session # a
    <2> SUFFICES ASSUME NEW j \in Players, instances[j].session = a PROVE FALSE
        OBVIOUS
    <2>1. joins[e] >= 1
        BY <1>7 DEF Inv, JoinedOnce
    <2>2. joins[e] \in Int
        BY <1>9, ServerAssumption
    <2> QED
        BY <2>1, <2>2, <1>7
<1>13. \A j \in Players : instances'[j] = instances[j]
    BY <1>2, <1>10 DEF Players
<1> QED
    BY <1>2, <1>4, <1>6, <1>8, <1>10, <1>11, <1>12, <1>13

LEMMA HandleJoinInv ==
    ASSUME WellBehaved, Inv, SessionInv', NEW a \in Addresses, NEW e \in Endpoints, HandleJoin(a, e)
    PROVE  Inv'
<1>1. /\ stale' = stale \ {a}
      /\ joins' = [joins EXCEPT ![e] = @ + 1]
      /\ UNCHANGED <<running, by_id_map, endpoint, client_session, gone>>
      /\ Receives(a, e)
    BY DEF HandleJoin
<1>2. /\ joins \in [Endpoints -> 0..MaxJoins] /\ \A f \in Endpoints : joins[f] \in Int
      /\ stale \subseteq Addresses /\ playing \subseteq Endpoints
      /\ client_id \in [Addresses -> 0..max_clients]
    BY ServerAssumption DEF Inv, SessionInv, TypeOK, Live
<1>3. \A f \in Endpoints : joins'[f] >= joins[f]
    BY <1>1, <1>2
<1>4. \A b, f : Receives(b, f)' <=> Receives(b, f)
    BY <1>1 DEF Receives
<1>5. CASE ~ (Cardinality(Players) < max_clients)
    <2>1. UNCHANGED <<instances, client_id, playing>>
        BY <1>5 DEF HandleJoin
    <2> QED
        BY <1>1, <1>2, <1>3, <1>4, <2>1, FewerUses DEF Inv, UsedIsFresh, PlayingOwns
<1>6. CASE Cardinality(Players) < max_clients
    <2>1. PICK i \in PlayerIds \ Players :
              /\ Players' = Players \cup {i}
              /\ instances'[i].session = a /\ instances'[i].owner = e
              /\ \A j \in Players : instances'[j] = instances[j] /\ instances[j].session # a
              /\ client_id' = [client_id EXCEPT ![a] = i]
              /\ playing' = playing \cup {e}
        BY <1>6, JoinAccepted
    <2>2. client_id'[a] = i /\ \A b \in Addresses : b # a => client_id'[b] = client_id[b]
        BY <1>2, <2>1
    <2>3. /\ endpoint[a] = e /\ client_session[e] # 0
          /\ \A f \in Endpoints : Receives(a, f) => f = e
          /\ \A b \in Addresses : Receives(b, e) => b = a
        BY <1>1, UserOwns DEF Inv
    <2>4. PlayersKeepTheirSession'
        BY <1>1, <2>1, <2>3 DEF Inv, PlayersKeepTheirSession
    <2>5. ClientsKeepSession'
        BY <1>1 DEF Inv, ClientsKeepSession
    <2>6. UsedIsFresh'
        BY <1>1, <1>4 DEF Inv, UsedIsFresh
    <2>7. OnePlayerPerSession'
        BY <2>1 DEF Inv, OnePlayerPerSession
    <2>8. JoinedOnce'
        <3> SUFFICES ASSUME NEW j \in Players', NEW f \in Endpoints, Receives(instances'[j].session, f)
                     PROVE  joins'[f] >= 1
            BY <1>4 DEF JoinedOnce
        <3>1. CASE j = i
            <4>1. f = e
                BY <3>1, <2>1, <2>3
            <4> QED
                BY <4>1, <1>1, <1>2
        <3>2. CASE j # i
            <4>1. joins[f] >= 1
                BY <3>2, <2>1 DEF Inv, JoinedOnce
            <4>2. joins'[f] \in Int /\ joins[f] \in Int
                BY <1>1, <1>2
            <4> QED
                BY <4>1, <4>2, <1>3
        <3> QED
            BY <3>1, <3>2
    <2>9. PlayingOwns'
        <3> SUFFICES ASSUME NEW f \in playing'
                     PROVE  /\ client_session[f] # 0
                            /\ \A b \in Addresses : Receives(b, f) =>
                                client_id'[b] \in Players' /\ instances'[client_id'[b]].session = b
            BY <1>1, <1>4 DEF PlayingOwns
        <3>1. CASE f = e
            BY <3>1, <2>1, <2>2, <2>3
        <3>2. CASE f # e
            <4>1. f \in playing /\ f \in Endpoints
                BY <3>2, <2>1, <1>2
            <4>2. \A b \in Addresses : Receives(b, f) => b # a
                BY <4>1, <3>2, <2>3
            <4>3. client_session[f] # 0
                BY <4>1 DEF Inv, PlayingOwns
            <4>4. \A b \in Addresses : Receives(b, f) =>
                    client_id[b] \in Players /\ instances[client_id[b]].session = b
                BY <4>1 DEF Inv, PlayingOwns
            <4> QED
                BY <4>2, <4>3, <4>4, <2>1, <2>2
        <3> QED
            BY <3>1, <3>2
    <2> QED
        BY <2>4, <2>5, <2>6, <2>7, <2>8, <2>9 DEF Inv
<1> QED
    BY <1>5, <1>6

\* An action changes the status of one player and nothing else of the players.
LEMMA ActedPlayer ==
    ASSUME TypeOK, NEW a \in Addresses, NEW e \in Endpoints, NEW action, HandleAction(a, e, action)
    PROVE  /\ Players' = Players
           /\ \A i \in Players : /\ instances'[i].session = instances[i].session
                                 /\ instances'[i].owner = instances[i].owner
           /\ \A i \in PlayerIds : i # ActingPlayer(a) => instances'[i] = instances[i]
<1> DEFINE p == ActingPlayer(a)
<1>1. CASE p \in Players
    <2>1. p \in PlayerIds /\ instances[p] \in Player
        BY <1>1 DEF Players, TypeOK
    <2> DEFINE acted == [instances[p] EXCEPT !.status = StatusAfter(instances[p].status, action)]
    <2>2. StatusAfter(instances[p].status, action) \in {"DEAD", "LANDED", "FLYING"}
        BY <2>1, StatusIsStatus DEF Player
    <2>3. acted \in Player /\ acted.session = instances[p].session /\ acted.owner = instances[p].owner
        BY <2>1, <2>2 DEF Player
    <2>4. instances' = [instances EXCEPT ![p] = acted]
        BY <1>1 DEF HandleAction
    <2> HIDE DEF acted, p
    <2>5. instances'[p] = acted /\ \A i \in PlayerIds : i # p => instances'[i] = instances[i]
        BY <2>1, <2>4 DEF TypeOK
    <2>6. acted # Null
        BY <2>3, NullAssumption
    <2>7. Players' = Players
        BY <1>1, <2>5, <2>6 DEF Players
    <2> QED
        BY <2>3, <2>5, <2>7 DEF Players, p
<1>2. CASE p \notin Players
    BY <1>2 DEF HandleAction, Players
<1> QED
    BY <1>1, <1>2

LEMMA HandleActionInv ==
    ASSUME Inv, SessionInv', NEW a \in Addresses, NEW e \in Endpoints, NEW action,
           HandleAction(a, e, action)
    PROVE  Inv'
<1>1. /\ stale' = stale \ {a}
      /\ UNCHANGED <<running, by_id_map, endpoint, client_id, client_session, joins, playing, gone>>
    BY DEF HandleAction, clientVars
<1>2. \A b, f : Receives(b, f)' <=> Receives(b, f)
    BY <1>1 DEF Receives
<1>3. /\ Players' = Players
      /\ \A i \in Players : /\ instances'[i].session = instances[i].session
                            /\ instances'[i].owner = instances[i].owner
    BY ActedPlayer DEF Inv, SessionInv
<1>4. PlayersKeepTheirSession' /\ OnePlayerPerSession' /\ JoinedOnce'
    BY <1>1, <1>2, <1>3 DEF Inv, PlayersKeepTheirSession, OnePlayerPerSession, JoinedOnce
<1>5. ClientsKeepSession' /\ UsedIsFresh'
    BY <1>1, <1>2 DEF Inv, ClientsKeepSession, UsedIsFresh
<1>6. PlayingOwns'
    <2>1. playing \subseteq Endpoints
        BY DEF Inv, SessionInv, TypeOK
    <2> QED
        BY <2>1, <1>1, <1>2, <1>3 DEF Inv, PlayingOwns
<1> QED
    BY <1>4, <1>5, <1>6 DEF Inv

LEMMA InitInv == Init => Inv
<1> SUFFICES ASSUME Init PROVE Inv
    OBVIOUS
<1>1. SessionInv
    BY InitSession
<1>2. Players = {}
    BY DEF Init, Players
<1>3. playing = {} /\ stale = {} /\ \A e \in Endpoints : client_session[e] = 0
    BY DEF Init
<1> QED
    BY <1>1, <1>2, <1>3 DEF Inv, PlayersKeepTheirSession, ClientsKeepSession, UsedIsFresh,
                            OnePlayerPerSession, JoinedOnce, PlayingOwns

LEMMA NextInv == WellBehaved /\ Inv /\ [Next]_vars => Inv'
<1> SUFFICES ASSUME WellBehaved, Inv, [Next]_vars
             PROVE  Inv'
    OBVIOUS
<1>1. SessionInv'
    BY NextSession DEF Inv
<1> QED
    BY <1>1, CreateInv, PurgeInv, HandleJoinInv, HandleActionInv, ClientStepsInv DEF Next

LEMMA InvHolds == WellBehaved => (Spec => []Inv)
<1> SUFFICES ASSUME WellBehaved PROVE Spec => []Inv
    OBVIOUS
<1>1. Inv /\ [Next]_vars => Inv'
    BY NextInv
<1> QED
    BY <1>1, InitInv, PTL DEF Spec

\* As long as no client is silent for MAX_SESSION_AGE or asks to join twice, no
\* player points at a session that was deleted or given to another client: the
\* purge removes the player with its session, and that is all its players.
THEOREM SessionsOutliveTheirPlayers == WellBehaved => (Spec => []PlayersKeepTheirSession)
<1> SUFFICES ASSUME WellBehaved PROVE Spec => []PlayersKeepTheirSession
    OBVIOUS
<1>1. Inv => PlayersKeepTheirSession
    BY DEF Inv
<1> QED
    BY <1>1, InvHolds, PTL

\* Under the same conditions a client has one player, however often it is
\* started again: its session is refused a second player until it is purged.
THEOREM ClientsHaveOnePlayer == WellBehaved => (Spec => []OnePlayerPerClient)
<1> SUFFICES ASSUME WellBehaved PROVE Spec => []OnePlayerPerClient
    OBVIOUS
<1>1. Inv => OnePlayerPerClient
    <2> SUFFICES ASSUME Inv, NEW i \in Players, NEW j \in Players,
                        instances[i].owner = instances[j].owner
                 PROVE  i = j
        BY DEF OnePlayerPerClient
    <2>1. instances[i].session = instances[j].session
        BY PlayerFacts DEF Inv, SessionInv, SessionsDistinct
    <2> QED
        BY <2>1 DEF Inv, OnePlayerPerSession
<1> QED
    BY <1>1, InvHolds, PTL

-----------------------------------------------------------------------------
(* Steps *)

LEMMA StepMovesOwn ==
    ASSUME Inv, NEW a \in Addresses, NEW e \in Endpoints, NEW action,
           HandleAction(a, e, action), NEW i \in PlayerIds, instances'[i] # instances[i]
    PROVE  instances[i].owner = e
<1>1. i = client_id[a]
    BY ActedPlayer DEF Inv, SessionInv, ActingPlayer
<1>2. Receives(a, e) /\ e \in playing
    BY DEF HandleAction
<1>3. i \in Players /\ instances[i].session = a
    BY <1>1, <1>2 DEF Inv, PlayingOwns
<1>4. endpoint[a] = e
    BY <1>2, UserOwns DEF Inv
<1> QED
    BY <1>3, <1>4, PlayerFacts DEF Inv, SessionInv

\* Under the same conditions an action moves the player of the client that
\* sends it: the session names its own player, which it outlives.
THEOREM ClientsMoveTheirOwn == WellBehaved => (Spec => ActionsMoveOwnPlayer)
<1> SUFFICES ASSUME WellBehaved PROVE Spec => ActionsMoveOwnPlayer
    OBVIOUS
<1>1. Inv => [\A a \in Addresses, e \in Endpoints, action \in {"PA_LIFTOFF", "PA_SPAWN"} :
          HandleAction(a, e, action) =>
              \A i \in PlayerIds : instances'[i] # instances[i] => instances[i].owner = e]_vars
    BY StepMovesOwn
<1> QED
    BY <1>1, InvHolds, PTL DEF Spec, ActionsMoveOwnPlayer

LEMMA StepSpares ==
    ASSUME WellBehaved, Inv, [Next]_vars, NEW i \in Players, instances'[i] = Null
    PROVE  \E a \in stale : endpoint[a] = instances[i].owner
<1>1. i \in PlayerIds /\ instances[i] # Null /\ endpoint[instances[i].session] = instances[i].owner
    BY PlayerFacts DEF Inv, SessionInv
<1>2. i \notin Players'
    BY <1>1 DEF Players
<1>3. CASE PurgeStaleSessions
    BY <1>1, <1>2, <1>3, PurgedPlayers
<1>4. ASSUME NEW a \in Addresses, NEW e \in Endpoints, HandleJoin(a, e)
      PROVE  FALSE
    <2>1. CASE Cardinality(Players) < max_clients
        BY <2>1, <1>2, <1>4, JoinAccepted
    <2>2. CASE ~ (Cardinality(Players) < max_clients)
        <3>1. instances' = instances
            BY <2>2, <1>4 DEF HandleJoin
        <3> QED
            BY <3>1, <1>1
    <2> QED
        BY <2>1, <2>2
<1>5. ASSUME NEW a \in Addresses, NEW e \in Endpoints, NEW action, HandleAction(a, e, action)
      PROVE  FALSE
    BY <1>2, <1>5, ActedPlayer DEF Inv, SessionInv
<1>6. CASE UNCHANGED instances
    BY <1>1, <1>6
<1>7. \/ PurgeStaleSessions
      \/ \E a \in Addresses, e \in Endpoints : HandleJoin(a, e)
      \/ \E a \in Addresses, e \in Endpoints, action \in {"PA_LIFTOFF", "PA_SPAWN"} : HandleAction(a, e, action)
      \/ UNCHANGED instances
    BY DEF Next, vars, HandleCreateSession, Restart, Leave, GoesStale, HandleReceivedPacket
<1> QED
    BY <1>3, <1>4, <1>5, <1>6, <1>7

\* Under the same conditions a player disappears only when the session of its
\* own client is stale.
THEOREM LivingAreSpared == WellBehaved => (Spec => PurgeSparesTheLiving)
<1> SUFFICES ASSUME WellBehaved PROVE Spec => PurgeSparesTheLiving
    OBVIOUS
<1>1. Inv /\ [Next]_vars =>
        [\A i \in Players : instances'[i] = Null =>
            \E a \in stale : endpoint[a] = instances[i].owner]_vars
    BY StepSpares
<1> QED
    BY <1>1, InvHolds, PTL DEF Spec, PurgeSparesTheLiving

\* The counts of the teams are numbers, and the new player counts once at most.
LEMMA CountsAreNear ==
    ASSUME NEW garbage, NEW team
    PROVE  /\ TeamSize(team) \in Nat
           /\ GetTeamCount(team, garbage) \in TeamSize(team)..(TeamSize(team) + 1)
<1> DEFINE members == {i \in Players : instances[i].team = team}
<1>1. IsFiniteSet(PlayerIds)
    BY ServerAssumption, FS_Interval DEF PlayerIds
<1>2. members \subseteq PlayerIds
    BY DEF Players
<1>3. Cardinality(members) \in Nat
    BY <1>1, <1>2, FS_Subset, FS_CardinalityType
<1> HIDE DEF members
<1>4. TeamSize(team) = Cardinality(members)
    BY DEF TeamSize, members
<1>5. GetTeamCount(team, garbage) = Cardinality(members) + IF garbage = team THEN 1 ELSE 0
    BY DEF GetTeamCount, members
<1> QED
    BY <1>3, <1>4, <1>5

LEMMA StepBalances ==
    ASSUME TypeOK, [Next]_vars,
           NEW i \in PlayerIds, instances[i] = Null, instances'[i] # Null
    PROVE  LET other == IF instances'[i].team = "RED" THEN "BLUE" ELSE "RED"
           IN  TeamSize(instances'[i].team) <= TeamSize(other) + 1
<1>1. ~ PurgeStaleSessions
    BY DEF PurgeStaleSessions
<1>2. ASSUME NEW a \in Addresses, NEW e \in Endpoints, NEW action, HandleAction(a, e, action)
      PROVE  FALSE
    BY <1>2, ActedPlayer DEF Players
<1>3. ~ UNCHANGED instances
    OBVIOUS
<1>4. PICK a \in Addresses, e \in Endpoints : HandleJoin(a, e)
    BY <1>1, <1>2, <1>3 DEF Next, vars, HandleCreateSession, Restart, Leave, GoesStale, HandleReceivedPacket
<1>5. Cardinality(Players) < max_clients
    BY <1>3, <1>4 DEF HandleJoin
<1> DEFINE new == Lowest(PlayerIds \ Players)
<1>6. PICK garbage \in GarbageTeams :
        instances' = [instances EXCEPT ![new] =
            [session |-> a, team |-> GetBalancedTeam(garbage), status |-> "DEAD", owner |-> e]]
    BY <1>4, <1>5 DEF HandleJoin
<1>7. new \in PlayerIds
    BY <1>5, PlaceIsFree
<1> HIDE DEF new
<1>8. i = new /\ instances'[i].team = GetBalancedTeam(garbage)
    BY <1>6, <1>7 DEF TypeOK
<1>9. CASE GetTeamCount("RED", garbage) <= GetTeamCount("BLUE", garbage)
    <2>1. instances'[i].team = "RED"
        BY <1>8, <1>9 DEF GetBalancedTeam
    <2>2. TeamSize("RED") <= TeamSize("BLUE") + 1
        BY <1>9, CountsAreNear
    <2> QED
        BY <2>1, <2>2
<1>10. CASE ~ (GetTeamCount("RED", garbage) <= GetTeamCount("BLUE", garbage))
    <2>1. instances'[i].team = "BLUE"
        BY <1>8, <1>10 DEF GetBalancedTeam
    <2>2. TeamSize("BLUE") <= TeamSize("RED") + 1
        BY <1>10, CountsAreNear
    <2> QED
        BY <2>1, <2>2
<1> QED
    BY <1>9, <1>10

\* Whatever the memory of a new player holds where its team goes, it joins a
\* team that is at most one player ahead; nothing is asked of the clients.
THEOREM TeamsAreBalanced == Spec => TeamsStayClose
<1>1. TypeOK /\ [Next]_vars =>
        [\A i \in PlayerIds : instances[i] = Null /\ instances'[i] # Null =>
          LET other == IF instances'[i].team = "RED" THEN "BLUE" ELSE "RED"
          IN  TeamSize(instances'[i].team) <= TeamSize(other) + 1]_vars
    BY StepBalances
<1> QED
    BY <1>1, TypeCorrect, PTL DEF Spec, TeamsStayClose
=============================================================================
