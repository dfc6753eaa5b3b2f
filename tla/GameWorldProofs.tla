--------------------------- MODULE GameWorldProofs ---------------------------
(***************************************************************************)
(* Proofs about GameWorld, for any number of players, clients and bases.   *)
(***************************************************************************)
EXTENDS GameWorld, DataLemmas

Rises(before, after) == \A i \in Players : Rank(before[i]) <= Rank(after[i])

\* Events as HandleSyncWorld and HandleAction write them.
Written ==
    [type : {"OBJECT_SPAWN"}, id : Bases]
    \cup [type : {"PLAYER_SPAWN"}, client_id : Players, base_id : Bases]
    \cup [type : {"PLAYER_LIFTOFF"}, client_id : Players]

\* A player whose lift-off is announced flies, one whose spawn is announced is
\* not dead and its base is its team's.
Holds(st, event) ==
    /\ event.type = "PLAYER_LIFTOFF" => st[event.client_id] = "FLYING"
    /\ event.type = "PLAYER_SPAWN" =>
        st[event.client_id] # "DEAD" /\ event.base_id \in OwnedBy(team[event.client_id])

Announced(s, c) == \A k \in 1..Len(s.events[c]) : Holds(s.status, s.events[c][k])

ServerStates ==
    {s \in [status : [Players -> Status], events : [Clients -> Seq(Written)]] :
        \A c \in Clients : Announced(s, c)}

\* What the server may make of s by handling requests.
From(s) ==
    {t \in ServerStates :
        /\ Rises(s.status, t.status)
        /\ \A c \in Clients : Len(s.events[c]) <= Len(t.events[c])}

Server == [status |-> status, events |-> events]

RequestActions == {RequestAction(a) : a \in Actions}

\* States of players that are not ahead of the server.
Snapshots == {states \in [Players -> Status] : Rises(states, status)}

Packets == [covers : Nat, states : Seq(Snapshots)]

\* What the server tells its clients is what happened: announcements are true,
\* and the states that wait or are under way are old at worst.
PathOK ==
    /\ updates \in [Clients -> Seq(Snapshots)]
    /\ sent \in [Clients -> SUBSET Packets]
    /\ \A c \in Clients : \A packet \in sent[c] : packet.covers <= Len(events[c])

ClientsOK ==
    /\ requests \in [Clients -> Seq(RequestActions \cup {SyncWorld})]
    /\ all_bases \in [Clients -> SUBSET Bases]
    /\ view \in [Clients -> [Players -> Status]]
    /\ place \in [Clients -> Bases \cup {0}]
    /\ crashed \in [Clients -> BOOLEAN]

Inv == Server \in ServerStates /\ PathOK /\ ClientsOK /\ ViewsNotAhead /\ SpawnsNameOwnBases

-----------------------------------------------------------------------------
(* The server's handlers *)

LEMMA RankIsNat == \A s \in Status : Rank(s) \in 0..2
BY DEF Status, Rank

LEMMA RisesIsReflexive == ASSUME NEW st \in [Players -> Status] PROVE Rises(st, st)
BY RankIsNat DEF Rises

LEMMA RisesIsTransitive ==
    ASSUME NEW r \in [Players -> Status], NEW s \in [Players -> Status],
           NEW t \in [Players -> Status], Rises(r, s), Rises(s, t)
    PROVE  Rises(r, t)
BY RankIsNat DEF Rises

\* What was announced stays true.
LEMMA HoldsOn ==
    ASSUME NEW r \in [Players -> Status], NEW s \in [Players -> Status], Rises(r, s),
           NEW event \in Written, Holds(r, event)
    PROVE  Holds(s, event)
<1>1. ASSUME event.type \in {"PLAYER_LIFTOFF", "PLAYER_SPAWN"}
      PROVE  /\ r[event.client_id] \in Status /\ s[event.client_id] \in Status
             /\ Rank(r[event.client_id]) <= Rank(s[event.client_id])
    <2>1. event.client_id \in Players
        BY <1>1 DEF Written
    <2> QED
        BY <2>1 DEF Rises
<1>2. \A x \in Status, y \in Status : Rank(x) <= Rank(y) =>
        (x = "FLYING" => y = "FLYING") /\ (x # "DEAD" => y # "DEAD")
    BY DEF Rank, Status
<1> QED
    BY <1>1, <1>2 DEF Holds

\* Every session is told of a change that keeps the announcements true.
LEMMA TellsAll ==
    ASSUME NEW s \in ServerStates, NEW i \in Players, NEW new \in Status, NEW event \in Written,
           Rank(s.status[i]) < Rank(new),
           Holds([s.status EXCEPT ![i] = new], event)
    PROVE  [status |-> [s.status EXCEPT ![i] = new],
            events |-> [c \in Clients |-> Append(s.events[c], event)]] \in From(s)
<1> DEFINE t == [status |-> [s.status EXCEPT ![i] = new],
                 events |-> [c \in Clients |-> Append(s.events[c], event)]]
<1>1. s.status \in [Players -> Status] /\ s.events \in [Clients -> Seq(Written)]
    BY DEF ServerStates
<1>2. t.status \in [Players -> Status] /\ t.events \in [Clients -> Seq(Written)]
    BY <1>1
<1>3. Rises(s.status, t.status)
    BY <1>1, RankIsNat DEF Rises
<1>4. ASSUME NEW c \in Clients
      PROVE  Announced(t, c) /\ Len(s.events[c]) <= Len(t.events[c])
    <2>1. s.events[c] \in Seq(Written) /\ t.events[c] = Append(s.events[c], event)
        BY <1>1
    <2>2. Len(t.events[c]) = Len(s.events[c]) + 1 /\ Len(s.events[c]) \in Nat
        BY <2>1
    <2>3. ASSUME NEW k \in 1..Len(t.events[c])
          PROVE  Holds(t.status, t.events[c][k])
        <3>1. CASE k = Len(s.events[c]) + 1
            <4>1. t.events[c][k] = event
                BY <2>1, <2>2, <3>1
            <4> QED
                BY <4>1
        <3>2. CASE k # Len(s.events[c]) + 1
            <4>1. k \in 1..Len(s.events[c]) /\ t.events[c][k] = s.events[c][k]
                BY <2>1, <2>2, <3>2
            <4>2. s.events[c][k] \in Written
                BY <4>1, <2>1
            <4>3. Holds(s.status, s.events[c][k])
                BY <4>1 DEF ServerStates, Announced
            <4> HIDE DEF t
            <4> QED
                BY <4>1, <4>2, <4>3, <1>1, <1>2, <1>3, HoldsOn
        <3> QED
            BY <3>1, <3>2
    <2> QED
        BY <2>2, <2>3 DEF Announced
<1>5. t \in [status : [Players -> Status], events : [Clients -> Seq(Written)]]
    BY <1>2
<1> HIDE DEF t
<1>6. t \in From(s)
    BY <1>3, <1>4, <1>5 DEF From, ServerStates
<1> QED
    BY <1>6 DEF t

LEMMA SpawnKeeps ==
    ASSUME NEW s \in ServerStates, NEW i \in Players, NEW b \in OwnedBy(team[i])
    PROVE  Spawn(s, i, b) \in From(s)
<1>1. s.status \in [Players -> Status] /\ s.events \in [Clients -> Seq(Written)]
    BY DEF ServerStates
<1>2. CASE s.status[i] # "DEAD"
    <2>1. Spawn(s, i, b) = s
        BY <1>2 DEF Spawn
    <2>2. \A c \in Clients : Len(s.events[c]) \in Nat
        BY <1>1
    <2> QED
        BY <2>1, <2>2, <1>1, RisesIsReflexive DEF From
<1>3. CASE s.status[i] = "DEAD"
    <2>1. PlayerSpawn(i, b) \in Written
        BY DEF PlayerSpawn, Written, OwnedBy
    <2>2. Rank(s.status[i]) < Rank("LANDED") /\ "LANDED" \in Status
        BY <1>3 DEF Rank, Status
    <2>3. Holds([s.status EXCEPT ![i] = "LANDED"], PlayerSpawn(i, b))
        BY <1>1 DEF Holds, PlayerSpawn
    <2> QED
        BY <2>1, <2>2, <2>3, <1>3, TellsAll DEF Spawn
<1> QED
    BY <1>2, <1>3

LEMMA LiftOffKeeps ==
    ASSUME NEW s \in ServerStates, NEW i \in Players
    PROVE  LiftOff(s, i) \in From(s)
<1>1. s.status \in [Players -> Status] /\ s.events \in [Clients -> Seq(Written)]
    BY DEF ServerStates
<1>2. CASE s.status[i] # "LANDED"
    <2>1. LiftOff(s, i) = s
        BY <1>2 DEF LiftOff
    <2>2. \A c \in Clients : Len(s.events[c]) \in Nat
        BY <1>1
    <2> QED
        BY <2>1, <2>2, <1>1, RisesIsReflexive DEF From
<1>3. CASE s.status[i] = "LANDED"
    <2>1. PlayerLiftOff(i) \in Written
        BY DEF PlayerLiftOff, Written
    <2>2. Rank(s.status[i]) < Rank("FLYING") /\ "FLYING" \in Status
        BY <1>3 DEF Rank, Status
    <2>3. Holds([s.status EXCEPT ![i] = "FLYING"], PlayerLiftOff(i))
        BY <1>1 DEF Holds, PlayerLiftOff
    <2> QED
        BY <2>1, <2>2, <2>3, <1>3, TellsAll DEF LiftOff
<1> QED
    BY <1>2, <1>3

LEMMA SyncWorldKeeps ==
    ASSUME NEW s \in ServerStates, NEW c \in Clients
    PROVE  HandleSyncWorld(s, c) \in From(s)
<1> DEFINE world == [k \in 1..Cardinality(Bases) |-> ObjectSpawn(Ascending(Bases)[k])]
           t == HandleSyncWorld(s, c)
<1>1. s.status \in [Players -> Status] /\ s.events \in [Clients -> Seq(Written)]
    BY DEF ServerStates
<1>2. Cardinality(Bases) \in Nat
    BY WorldAssumption, FS_CardinalityType
<1>3. \A k \in 1..Cardinality(Bases) : world[k] \in Written /\ world[k].type = "OBJECT_SPAWN"
    <2>1. Bases \in SUBSET Nat /\ IsFiniteSet(Bases)
        BY WorldAssumption
    <2>2. \A k \in 1..Cardinality(Bases) : Ascending(Bases)[k] \in Bases
        BY <2>1, AscendingOrders
    <2> QED
        BY <2>2 DEF ObjectSpawn, Written
<1>4. world \in [1..Cardinality(Bases) -> Written]
    BY <1>3
<1>5. s.events[c] \o world \in Seq(Written)
    BY <1>1, <1>2, <1>4, Concatenation
<1>6. /\ t \in [status : [Players -> Status], events : [Clients -> Seq(Written)]]
      /\ t.status = s.status
      /\ t.events = [s.events EXCEPT ![c] = s.events[c] \o world]
    <2>1. s \in [status : [Players -> Status], events : [Clients -> Seq(Written)]]
        BY DEF ServerStates
    <2> HIDE DEF world
    <2>2. t = [s EXCEPT !.events = [s.events EXCEPT ![c] = s.events[c] \o world]]
        BY <2>1 DEF HandleSyncWorld, world
    <2> HIDE DEF t
    <2> QED
        BY <2>1, <2>2, <1>5
<1> HIDE DEF world, t
<1>7. ASSUME NEW d \in Clients
      PROVE  Announced(t, d) /\ Len(s.events[d]) <= Len(t.events[d])
    <2>1. s.events[d] \in Seq(Written) /\ Len(s.events[d]) \in Nat /\ Announced(s, d)
        BY <1>1 DEF ServerStates
    <2>2. CASE d # c
        BY <2>1, <2>2, <1>1, <1>6 DEF Announced
    <2>3. CASE d = c
        <3>1. t.events[d] = s.events[d] \o world
            BY <2>3, <1>1, <1>6
        <3>2. Len(t.events[d]) = Len(s.events[d]) + Cardinality(Bases)
            <4>1. \A r \in Seq(Written) : Len(r \o world) = Len(r) + Cardinality(Bases)
                BY <1>2, <1>4, Concatenation
            <4> QED
                BY <4>1, <3>1, <2>1
        <3>3. ASSUME NEW k \in 1..Len(t.events[d])
              PROVE  Holds(t.status, t.events[d][k])
            <4>1. CASE k > Len(s.events[d])
                <5>1. k - Len(s.events[d]) \in 1..Cardinality(Bases)
                    BY <3>2, <4>1, <2>1, <1>2
                <5>2. t.events[d][k] = world[k - Len(s.events[d])]
                    BY <3>1, <3>2, <4>1, <2>1, <1>2, <1>4, Concatenation
                <5> QED
                    BY <5>1, <5>2, <1>3 DEF Holds
            <4>2. CASE ~ (k > Len(s.events[d]))
                <5>1. k \in 1..Len(s.events[d])
                    BY <4>2, <3>2, <2>1, <1>2
                <5>2. t.events[d][k] = s.events[d][k]
                    BY <5>1, <3>1, <2>1, <1>2, <1>4, Concatenation
                <5> QED
                    BY <5>1, <5>2, <2>1, <1>6 DEF Announced
            <4> QED
                BY <4>1, <4>2
        <3>4. Announced(t, d)
            BY <3>3 DEF Announced
        <3> QED
            BY <3>2, <3>4, <2>1, <1>2
    <2> QED
        BY <2>2, <2>3
<1>8. Rises(s.status, t.status)
    BY <1>1, <1>6, RisesIsReflexive
<1>9. t \in From(s)
    BY <1>6, <1>7, <1>8 DEF From, ServerStates
<1> QED
    BY <1>9 DEF t

LEMMA RequestKeeps ==
    ASSUME NEW s \in ServerStates, NEW i \in Players, NEW b \in OwnedBy(team[i]), NEW message,
           message \in RequestActions \/ (message = SyncWorld /\ i \in Clients)
    PROVE  HandleRequest(s, i, message, b) \in From(s)
<1>1. SyncWorld \notin RequestActions
    BY DEF SyncWorld, RequestActions, RequestAction
<1>2. RequestAction("PA_SPAWN") # RequestAction("PA_LIFTOFF")
    BY DEF RequestAction
<1>3. CASE message = SyncWorld
    <2>1. HandleRequest(s, i, message, b) = HandleSyncWorld(s, i)
        BY <1>3, <1>1 DEF HandleRequest, RequestActions, Actions
    <2> QED
        BY <2>1, <1>3, <1>1, SyncWorldKeeps
<1>4. CASE message = RequestAction("PA_SPAWN")
    <2>1. HandleRequest(s, i, message, b) = Spawn(s, i, b)
        BY <1>4, <1>1, <1>2 DEF HandleRequest, RequestActions, Actions
    <2> QED
        BY <2>1, SpawnKeeps
<1>5. CASE message = RequestAction("PA_LIFTOFF")
    <2>1. HandleRequest(s, i, message, b) = LiftOff(s, i)
        BY <1>5, <1>1, <1>2 DEF HandleRequest, RequestActions, Actions
    <2> QED
        BY <2>1, LiftOffKeeps
<1> QED
    BY <1>3, <1>4, <1>5 DEF RequestActions, Actions

\* The loop of GetRandomRespawnBase finds a base for every index below the count:
\* it picks among all the bases that the team owns, and never falls through.
LEMMA RespawnBaseIsOwned ==
    ASSUME NEW t \in Teams
    PROVE  GetRandomRespawnBase(t) = OwnedBy(t)
<1> DEFINE n == BasesOwned(t)
           idx(b) == Cardinality(OwnedBefore(t, b))
           f == [b \in OwnedBy(t) |-> idx(b)]
<1>1. OwnedBy(t) \in SUBSET Nat /\ IsFiniteSet(OwnedBy(t)) /\ n \in Nat
    <2>1. OwnedBy(t) \subseteq Bases
        BY DEF OwnedBy
    <2> QED
        BY <2>1, WorldAssumption, FS_Subset, FS_CardinalityType DEF BasesOwned
<1>2. ASSUME NEW b \in OwnedBy(t)
      PROVE  IsFiniteSet(OwnedBefore(t, b)) /\ idx(b) \in 0..(n - 1)
    <2>1. /\ IsFiniteSet(OwnedBy(t) \ {b})
          /\ Cardinality(OwnedBy(t) \ {b}) = n - 1
        BY <1>1, FS_RemoveElement DEF BasesOwned
    <2>2. OwnedBefore(t, b) \subseteq OwnedBy(t) \ {b}
        BY <1>1 DEF OwnedBefore
    <2>3. IsFiniteSet(OwnedBefore(t, b)) /\ idx(b) <= n - 1
        BY <2>1, <2>2, FS_Subset
    <2>4. idx(b) \in Nat
        BY <2>3, FS_CardinalityType
    <2> QED
        BY <2>3, <2>4, <1>1
<1>3. ASSUME NEW a \in OwnedBy(t), NEW b \in OwnedBy(t), a < b
      PROVE  idx(a) < idx(b)
    <2>1. /\ IsFiniteSet(OwnedBefore(t, a) \cup {a})
          /\ Cardinality(OwnedBefore(t, a) \cup {a}) = idx(a) + 1
        <3>1. a \notin OwnedBefore(t, a)
            BY <1>1 DEF OwnedBefore
        <3> QED
            BY <3>1, <1>2, FS_AddElement
    <2>2. OwnedBefore(t, a) \cup {a} \subseteq OwnedBefore(t, b)
        BY <1>1, <1>3 DEF OwnedBefore
    <2>3. idx(a) + 1 <= idx(b)
        BY <2>1, <2>2, <1>2, FS_Subset
    <2> QED
        BY <2>3, <1>2
<1> HIDE DEF idx, n
<1>4. \A a, b \in OwnedBy(t) : idx(a) = idx(b) => a = b
    <2> SUFFICES ASSUME NEW a \in OwnedBy(t), NEW b \in OwnedBy(t), a # b
                 PROVE  idx(a) # idx(b)
        OBVIOUS
    <2>1. a < b \/ b < a
        BY <1>1
    <2>2. idx(a) \in Nat /\ idx(b) \in Nat
        BY <1>1, <1>2
    <2> QED
        BY <2>1, <2>2, <1>3
<1>5. \A k \in 0..(n - 1) : \E b \in OwnedBy(t) : idx(b) = k
    <2>1. f \in Injection(OwnedBy(t), 0..(n - 1))
        BY <1>2, <1>4 DEF Injection, IsInjective
    <2>2. IsFiniteSet(0..(n - 1)) /\ Cardinality(0..(n - 1)) = n
        BY <1>1, FS_Interval
    <2>3. f \in Surjection(OwnedBy(t), 0..(n - 1))
        BY <2>1, <2>2, <1>1, FS_Injection DEF n, BasesOwned
    <2> QED
        BY <2>3 DEF Surjection
<1>6. ASSUME NEW b \in OwnedBy(t) PROVE RespawnBase(t, idx(b)) = b
    <2>1. {o \in OwnedBy(t) : Cardinality(OwnedBefore(t, o)) = idx(b)} = {b}
        BY <1>4 DEF idx
    <2> QED
        BY <2>1 DEF RespawnBase
<1>7. GetRandomRespawnBase(t) = {RespawnBase(t, k) : k \in 0..(n - 1)}
    BY DEF GetRandomRespawnBase, n
<1> QED
    BY <1>2, <1>5, <1>6, <1>7

\* A packet of requests, handled one after the other.
LEMMA RequestsKeep ==
    ASSUME Inv, NEW c \in Clients, NEW n \in 1..Len(requests[c]), ServerReceives(c, n)
    PROVE  Server' \in From(Server)
<1>1. PICK b \in GetRandomRespawnBase(team[c]) :
        LET after[k \in 0..n] ==
                IF k = 0 THEN [status |-> status, events |-> events]
                ELSE HandleRequest(after[k - 1], c, requests[c][n + 1 - k], b)
        IN  status' = after[n].status /\ events' = after[n].events
    BY DEF ServerReceives
<1>2. b \in OwnedBy(team[c]) /\ c \in Players
    BY WorldAssumption, RespawnBaseIsOwned
<1> DEFINE message(k) == requests[c][n + 1 - k]
           H == [p \in From(Server) \X (1..n) |-> HandleRequest(p[1], c, message(p[2]), b)]
           IsAfter(f) == f = [k \in 0..n |-> IF k = 0 THEN Server
                                             ELSE HandleRequest(f[k - 1], c, message(k), b)]
           after == CHOOSE f : IsAfter(f)
<1>3. n \in Nat /\ \A k \in 1..n : message(k) \in RequestActions \/ message(k) = SyncWorld
    <2>1. requests[c] \in Seq(RequestActions \cup {SyncWorld})
        BY DEF Inv, ClientsOK
    <2>2. n \in Nat /\ \A k \in 1..n : n + 1 - k \in 1..Len(requests[c])
        BY <2>1
    <2> QED
        BY <2>1, <2>2
<1> HIDE DEF message
<1>4. Server \in ServerStates /\ Server \in From(Server)
    <2>1. Server.status \in [Players -> Status] /\ Server.events \in [Clients -> Seq(Written)]
        BY DEF Inv, ServerStates
    <2>2. \A d \in Clients : Len(Server.events[d]) <= Len(Server.events[d])
        BY <2>1
    <2> QED
        BY <2>1, <2>2, RisesIsReflexive DEF Inv, From
<1>5. ASSUME NEW s \in From(Server), NEW k \in 1..n
      PROVE  HandleRequest(s, c, message(k), b) \in From(Server)
    <2> DEFINE t == HandleRequest(s, c, message(k), b)
    <2>1. s \in ServerStates /\ t \in From(s)
        BY <1>2, <1>3, RequestKeeps DEF From
    <2> HIDE DEF t
    <2>2. t \in ServerStates /\ Rises(s.status, t.status) /\ Rises(Server.status, s.status)
        BY <2>1 DEF From
    <2>3. Rises(Server.status, t.status)
        BY <2>1, <2>2, <1>4, RisesIsTransitive DEF ServerStates
    <2>4. ASSUME NEW d \in Clients PROVE Len(Server.events[d]) <= Len(t.events[d])
        <3>1. /\ Len(Server.events[d]) \in Nat /\ Len(s.events[d]) \in Nat
              /\ Len(t.events[d]) \in Nat
            BY <2>1, <2>2, <1>4 DEF ServerStates
        <3>2. Len(Server.events[d]) <= Len(s.events[d]) /\ Len(s.events[d]) <= Len(t.events[d])
            BY <2>1 DEF From
        <3> QED
            BY <3>1, <3>2
    <2>5. t \in From(Server)
        BY <2>2, <2>3, <2>4 DEF From
    <2> QED
        BY <2>5 DEF t
<1>6. H \in [From(Server) \X (1..n) -> From(Server)]
    BY <1>5
<1>7. PICK g \in [0..n -> From(Server)] :
        g[0] = Server /\ \A k \in 1..n : g[k] = H[<<g[k - 1], k>>]
    <2> DEFINE G == From(Server)
               first == Server
    <2>1. first \in G /\ H \in [G \X (1..n) -> G] /\ n \in Nat
        BY <1>3, <1>4, <1>6
    <2> HIDE DEF H, G, first
    <2>2. PICK g : IsRunOf(g, G, first, n, H)
        BY <2>1, RunExists
    <2> QED
        BY <2>2 DEF G, first, IsRunOf
<1>8. IsAfter(g)
    <2>1. ASSUME NEW k \in 1..n
          PROVE  g[k] = HandleRequest(g[k - 1], c, message(k), b)
        <3>1. k - 1 \in 0..n /\ g[k - 1] \in From(Server)
            BY <1>3, <1>7
        <3>2. <<g[k - 1], k>> \in From(Server) \X (1..n)
            BY <3>1
        <3> QED
            BY <3>2, <1>7
    <2>2. \A k \in 0..n : k # 0 => k \in 1..n
        BY <1>3
    <2> QED
        BY <2>1, <2>2, <1>7
<1>9. IsAfter(after)
    <2> HIDE DEF IsAfter
    <2> QED
        BY <1>8
<1> HIDE DEF after
<1>10. \A k \in 0..n : after[k] \in From(Server)
    <2> DEFINE bad == {k \in 0..n : after[k] \notin From(Server)}
    <2> SUFFICES ASSUME bad # {} PROVE FALSE
        OBVIOUS
    <2>1. bad \in SUBSET Nat
        BY <1>3
    <2> HIDE DEF bad
    <2>2. PICK least \in bad : \A j \in bad : least <= j
        BY <2>1, LeastExists
    <2> USE DEF bad
    <2>3. CASE least = 0
        <3>1. after[0] = Server
            BY <1>3, <1>9
        <3> QED
            BY <3>1, <2>2, <2>3, <1>4
    <2>4. CASE least # 0
        <3>1. least \in 1..n /\ least - 1 \in 0..n /\ ~ (least <= least - 1)
            BY <1>3, <2>2, <2>4
        <3>2. after[least - 1] \in From(Server)
            BY <3>1, <2>2
        <3>3. after[least] = HandleRequest(after[least - 1], c, message(least), b)
            BY <3>1, <1>9
        <3> QED
            BY <3>1, <3>2, <3>3, <1>5, <2>2
    <2> QED
        BY <2>3, <2>4
<1>11. status' = after[n].status /\ events' = after[n].events
    BY <1>1 DEF after, message, Server
<1>12. after[n] \in From(Server)
    BY <1>3, <1>10
<1>13. after[n] = [status |-> after[n].status, events |-> after[n].events]
    BY <1>12 DEF From, ServerStates
<1> QED
    BY <1>11, <1>12, <1>13 DEF Server

-----------------------------------------------------------------------------
(* The steps *)

LEMMA InitKeeps == Init => Inv
<1> SUFFICES ASSUME Init PROVE Inv
    OBVIOUS
<1>1. Server \in ServerStates
    <2>1. /\ Server.status \in [Players -> Status]
          /\ Server.events = [c \in Clients |-> <<>>]
        BY DEF Init, Server, Status
    <2>2. Server.events \in [Clients -> Seq(Written)]
        BY <2>1
    <2>3. \A c \in Clients : Announced(Server, c)
        BY <2>1 DEF Announced
    <2> QED
        BY <2>2, <2>3, <2>1 DEF ServerStates, Server
<1>2. PathOK
    BY DEF Init, PathOK
<1>3. ClientsOK
    BY DEF Init, ClientsOK, Status
<1>4. ViewsNotAhead
    BY WorldAssumption DEF Init, ViewsNotAhead, Rank
<1>5. SpawnsNameOwnBases
    BY DEF Init, SpawnsNameOwnBases
<1> QED
    BY <1>1, <1>2, <1>3, <1>4, <1>5 DEF Inv

\* A step of the server that only its status and its events show: what is under
\* way is as true as before.
LEMMA ServerGoesOn ==
    ASSUME Inv, Server' \in From(Server), UNCHANGED <<updates, sent, all_bases, view, place, crashed>>,
           requests' \in [Clients -> Seq(RequestActions \cup {SyncWorld})]
    PROVE  Inv'
<1>1. /\ status \in [Players -> Status] /\ status' \in [Players -> Status]
      /\ \A c \in Clients : events[c] \in Seq(Written) /\ events'[c] \in Seq(Written)
    BY DEF Inv, From, ServerStates, Server
<1>2. Rises(status, status') /\ \A c \in Clients : Len(events[c]) <= Len(events'[c])
    BY DEF From, Server
<1>3. Server' \in ServerStates
    BY DEF From
<1>4. Snapshots \subseteq Snapshots'
    BY <1>1, <1>2, RisesIsTransitive DEF Snapshots
<1>5. PathOK'
    <2>1. updates' \in [Clients -> Seq(Snapshots')]
        <3>1. \A c \in Clients : updates[c] \in Seq(Snapshots')
            BY <1>4, SeqGrows DEF Inv, PathOK
        <3> QED
            BY <3>1 DEF Inv, PathOK
    <2>2. sent' \in [Clients -> SUBSET Packets']
        <3>1. ASSUME NEW packet \in Packets PROVE packet \in Packets'
            <4>1. packet.states \in Seq(Snapshots')
                BY <1>4, SeqGrows DEF Packets
            <4> QED
                BY <4>1 DEF Packets
        <3> QED
            BY <3>1 DEF Inv, PathOK
    <2>3. ASSUME NEW c \in Clients, NEW packet \in sent[c] PROVE packet.covers <= Len(events'[c])
        <3>1. packet.covers \in Nat /\ packet.covers <= Len(events[c])
            BY DEF Inv, PathOK, Packets
        <3>2. Len(events[c]) \in Nat /\ Len(events'[c]) \in Nat
            BY <1>1
        <3> QED
            BY <3>1, <3>2, <1>2
    <2> QED
        BY <2>1, <2>2, <2>3 DEF PathOK
<1>6. ViewsNotAhead'
    <2> SUFFICES ASSUME NEW c \in Clients, NEW i \in Players,
                        Rank(view[c][i]) > Rank(status'[i])
                 PROVE  /\ i = c /\ view[c][c] = "FLYING"
                        /\ \E j \in Players \ {c} : status'[j] = "FLYING"
        BY DEF ViewsNotAhead
    <2>1. view[c][i] \in Status
        BY DEF Inv, ClientsOK
    <2>2. Rank(view[c][i]) > Rank(status[i])
        BY <2>1, <1>1, <1>2, RankIsNat DEF Rises
    <2>3. /\ i = c /\ view[c][c] = "FLYING"
          /\ \E j \in Players \ {c} : status[j] = "FLYING"
        BY <2>2 DEF Inv, ViewsNotAhead
    <2>4. ASSUME NEW j \in Players, status[j] = "FLYING" PROVE status'[j] = "FLYING"
        <3>1. status'[j] \in Status /\ Rank(status[j]) <= Rank(status'[j])
            BY <1>1, <1>2 DEF Rises
        <3> QED
            BY <3>1, <2>4 DEF Rank, Status
    <2> QED
        BY <2>3, <2>4
<1>7. ClientsOK'
    BY DEF Inv, ClientsOK
<1>8. SpawnsNameOwnBases'
    <2>1. \A i \in Spawned : i \in Spawned'
        <3>1. ASSUME NEW i \in Players, status[i] # "DEAD" PROVE status'[i] # "DEAD"
            <4>1. /\ status[i] \in Status /\ status'[i] \in Status
                  /\ Rank(status[i]) <= Rank(status'[i])
                BY <1>1, <1>2 DEF Rises
            <4> QED
                BY <4>1, <3>1 DEF Rank, Status
        <3> QED
            BY <3>1 DEF Spawned
    <2> QED
        BY <2>1 DEF Inv, SpawnsNameOwnBases
<1> QED
    BY <1>3, <1>5, <1>6, <1>7, <1>8 DEF Inv

LEMMA ServerReceivesKeeps ==
    ASSUME Inv, NEW c \in Clients, NEW n \in 1..Len(requests[c]), ServerReceives(c, n)
    PROVE  Inv'
<1>1. Server' \in From(Server)
    BY RequestsKeep
<1>2. requests' \in [Clients -> Seq(RequestActions \cup {SyncWorld})]
    <2>1. requests \in [Clients -> Seq(RequestActions \cup {SyncWorld})]
        BY DEF Inv, ClientsOK
    <2>2. SubSeq(requests[c], n + 1, Len(requests[c])) \in Seq(RequestActions \cup {SyncWorld})
        BY <2>1
    <2> QED
        BY <2>1, <2>2 DEF ServerReceives
<1>3. UNCHANGED <<updates, sent, all_bases, view, place, crashed>>
    BY DEF ServerReceives, worldVars
<1> QED
    BY <1>1, <1>2, <1>3, ServerGoesOn

LEMMA OtherActsKeeps ==
    ASSUME Inv, NEW i \in Players \ Clients, NEW action \in Actions, OtherActs(i, action)
    PROVE  Inv'
<1>1. PICK b \in GetRandomRespawnBase(team[i]) :
        LET s == HandleRequest([status |-> status, events |-> events], i, RequestAction(action), b)
        IN  status' = s.status /\ events' = s.events
    BY DEF OtherActs
<1> DEFINE s == HandleRequest(Server, i, RequestAction(action), b)
<1>2. status' = s.status /\ events' = s.events
    BY <1>1 DEF Server
<1>3. s \in From(Server)
    <2>1. b \in OwnedBy(team[i]) /\ RequestAction(action) \in RequestActions /\ Server \in ServerStates
        BY RespawnBaseIsOwned, WorldAssumption DEF RequestActions, Inv
    <2> QED
        BY <2>1, RequestKeeps
<1> HIDE DEF s
<1>4. s = [status |-> s.status, events |-> s.events]
    BY <1>3 DEF From, ServerStates
<1>5. Server' \in From(Server)
    BY <1>2, <1>3, <1>4 DEF Server
<1> QED
    BY <1>5, ServerGoesOn DEF OtherActs, worldVars, Inv, ClientsOK

\* A step that leaves the server's status and events alone.
LEMMA ServerStands ==
    ASSUME Inv, UNCHANGED <<status, events>>
    PROVE  Server' \in ServerStates /\ Snapshots' = Snapshots
BY DEF Inv, Server, Snapshots

LEMMA WriteUpdatesKeeps == ASSUME Inv, WriteUpdates PROVE Inv'
<1>1. Server' \in ServerStates /\ Snapshots' = Snapshots
    BY ServerStands DEF WriteUpdates
<1>2. updates' \in [Clients -> Seq(Snapshots)]
    <2>1. status \in Snapshots
        <3>1. status \in [Players -> Status]
            BY DEF Inv, ServerStates, Server
        <3> QED
            BY <3>1, RisesIsReflexive DEF Snapshots
    <2>2. \A c \in Clients : <<status>> \o updates[c] \in Seq(Snapshots)
        <3> SUFFICES ASSUME NEW c \in Clients PROVE <<status>> \o updates[c] \in Seq(Snapshots)
            OBVIOUS
        <3>1. updates[c] \in Seq(Snapshots) /\ <<status>> \in Seq(Snapshots)
            BY <2>1 DEF Inv, PathOK
        <3> HIDE DEF Snapshots
        <3> QED
            BY <3>1
    <2> QED
        BY <2>2 DEF WriteUpdates, EmitStates
<1>3. PathOK'
    BY <1>1, <1>2 DEF Inv, PathOK, Packets, WriteUpdates
<1> QED
    BY <1>1, <1>3
    DEF WriteUpdates, worldVars, Inv, ClientsOK, ViewsNotAhead, SpawnsNameOwnBases, Spawned

LEMMA SendOutboundMessagesKeeps ==
    ASSUME Inv, NEW c \in Clients, SendOutboundMessages(c)
    PROVE  Inv'
<1> DEFINE packet == [covers |-> Len(events[c]), states |-> updates[c]]
<1>1. Server' \in ServerStates /\ Snapshots' = Snapshots
    BY ServerStands DEF SendOutboundMessages
<1>2. packet \in Packets /\ packet.covers <= Len(events[c])
    <2>1. events[c] \in Seq(Written)
        BY DEF Inv, ServerStates, Server
    <2>2. Len(events[c]) \in Nat /\ updates[c] \in Seq(Snapshots)
        BY <2>1 DEF Inv, PathOK
    <2> QED
        BY <2>2 DEF Packets
<1> HIDE DEF packet
<1>3. sent' = [sent EXCEPT ![c] = @ \cup {packet}] /\ updates' = [updates EXCEPT ![c] = <<>>]
    BY DEF SendOutboundMessages, packet
<1>4. sent' \in [Clients -> SUBSET Packets]
    BY <1>2, <1>3 DEF Inv, PathOK
<1>5. updates' \in [Clients -> Seq(Snapshots)]
    BY <1>3 DEF Inv, PathOK
<1>6. \A d \in Clients : \A p \in sent'[d] : p.covers <= Len(events[d])
    BY <1>2, <1>3 DEF Inv, PathOK
<1>7. PathOK'
    BY <1>1, <1>4, <1>5, <1>6 DEF PathOK, Packets, SendOutboundMessages
<1> QED
    BY <1>1, <1>7
    DEF SendOutboundMessages, worldVars, Inv, ClientsOK, ViewsNotAhead, SpawnsNameOwnBases, Spawned

LEMMA SendActionKeeps ==
    ASSUME Inv, NEW c \in Clients, NEW action \in Actions, SendAction(c, action)
    PROVE  Inv'
<1>1. Server' \in ServerStates /\ Snapshots' = Snapshots
    BY ServerStands DEF SendAction, serverVars
<1>2. PathOK'
    BY <1>1 DEF Inv, PathOK, Packets, SendAction, serverVars
<1>3. requests' \in [Clients -> Seq(RequestActions \cup {SyncWorld})]
    <2>1. requests[c] \in Seq(RequestActions \cup {SyncWorld})
        BY DEF Inv, ClientsOK
    <2>2. RequestAction(action) \in RequestActions \cup {SyncWorld}
        BY DEF RequestActions
    <2>3. Append(requests[c], RequestAction(action)) \in Seq(RequestActions \cup {SyncWorld})
        BY <2>1, <2>2
    <2> QED
        BY <2>3 DEF SendAction, Inv, ClientsOK
<1> QED
    BY <1>1, <1>2, <1>3
    DEF SendAction, serverVars, worldVars, Inv, ClientsOK, ViewsNotAhead, SpawnsNameOwnBases, Spawned

LEMMA LoseKeeps ==
    ASSUME Inv, NEW c \in Clients, NEW packet \in sent[c], Lose(c, packet)
    PROVE  Inv'
<1>1. Server' \in ServerStates /\ Snapshots' = Snapshots
    BY ServerStands DEF Lose, serverVars
<1>2. PathOK'
    BY <1>1 DEF Inv, PathOK, Packets, Lose, serverVars
<1> QED
    BY <1>1, <1>2
    DEF Lose, serverVars, worldVars, Inv, ClientsOK, ViewsNotAhead, SpawnsNameOwnBases, Spawned

\* The events that a client has handled are gone, the others move up.
LEMMA HandledEventsGo ==
    ASSUME Inv, NEW c \in Clients, NEW packet \in sent[c], ClientReceives(c, packet)
    PROVE  /\ Server' \in ServerStates
           /\ packet \in Packets
           /\ Len(events[c]) \in Nat /\ packet.covers \in 0..Len(events[c])
           /\ Len(events'[c]) = Len(events[c]) - packet.covers
           /\ \A d \in Clients : d # c => events'[d] = events[d]
<1> DEFINE n == packet.covers
<1>1. /\ status \in [Players -> Status] /\ events \in [Clients -> Seq(Written)]
      /\ \A d \in Clients : Announced(Server, d)
    BY DEF Inv, ServerStates, Server
<1>2. packet \in Packets /\ Len(events[c]) \in Nat /\ n \in 0..Len(events[c])
    <2>1. packet \in Packets /\ n <= Len(events[c])
        BY DEF Inv, PathOK
    <2>2. events[c] \in Seq(Written)
        BY <1>1
    <2>3. Len(events[c]) \in Nat /\ n \in Nat
        BY <2>1, <2>2 DEF Packets
    <2> HIDE DEF n
    <2> QED
        BY <2>1, <2>3
<1>3. status' = status /\ events' = [events EXCEPT ![c] = SubSeq(@, n + 1, Len(@))]
    BY DEF ClientReceives
<1> HIDE DEF n
<1>4. \A r \in Seq(Written) : \A m \in 0..Len(r) :
        /\ SubSeq(r, m + 1, Len(r)) \in Seq(Written)
        /\ Len(SubSeq(r, m + 1, Len(r))) = Len(r) - m
        /\ \A k \in 1..(Len(r) - m) :
            SubSeq(r, m + 1, Len(r))[k] = r[k + m] /\ k + m \in 1..Len(r)
    <2> SUFFICES ASSUME NEW r \in Seq(Written), NEW m \in 0..Len(r)
                 PROVE  /\ SubSeq(r, m + 1, Len(r)) \in Seq(Written)
                        /\ Len(SubSeq(r, m + 1, Len(r))) = Len(r) - m
                        /\ \A k \in 1..(Len(r) - m) :
                            /\ SubSeq(r, m + 1, Len(r))[k] = r[k + m]
                            /\ k + m \in 1..Len(r)
        OBVIOUS
    <2>1. Len(r) \in Nat
        OBVIOUS
    <2> QED
        BY <2>1
<1>5. events'[c] = SubSeq(events[c], n + 1, Len(events[c])) /\ events[c] \in Seq(Written)
    BY <1>1, <1>3
<1>6. events' \in [Clients -> Seq(Written)] /\ Len(events'[c]) = Len(events[c]) - n
    BY <1>1, <1>2, <1>3, <1>4, <1>5
<1>7. \A d \in Clients : d # c => events'[d] = events[d]
    BY <1>1, <1>3
<1>8. ASSUME NEW d \in Clients PROVE Announced(Server', d)
    <2>1. CASE d # c
        BY <2>1, <1>1, <1>3, <1>7 DEF Announced, Server
    <2>2. CASE d = c
        <3>1. ASSUME NEW k \in 1..Len(events'[c])
              PROVE  Holds(status', events'[c][k])
            <4>1. k + n \in 1..Len(events[c]) /\ events'[c][k] = events[c][k + n]
                BY <1>2, <1>4, <1>5, <1>6
            <4> QED
                BY <4>1, <1>1, <1>3 DEF Announced, Server
        <3> QED
            BY <3>1, <2>2 DEF Announced, Server
    <2> QED
        BY <2>1, <2>2
<1>9. Server' \in ServerStates
    BY <1>1, <1>3, <1>6, <1>8 DEF ServerStates, Server
<1> QED
    BY <1>2, <1>6, <1>7, <1>9 DEF n

\* What a client makes of its own player and of the others: the newest it can
\* be told is what the server has.
LEMMA ViewStaysBehind ==
    ASSUME Inv, NEW c \in Clients, NEW packet \in sent[c], NEW i \in Players,
           Rank(ViewAfter(c, packet)[i]) > Rank(status[i])
    PROVE  /\ i = c /\ ViewAfter(c, packet)[c] = "FLYING"
           /\ \E j \in Players \ {c} : status[j] = "FLYING"
<1>1. packet \in Packets /\ packet.covers <= Len(events[c]) /\ events[c] \in Seq(Written)
    BY DEF Inv, PathOK, ServerStates, Server
<1>2. status \in [Players -> Status] /\ view[c] \in [Players -> Status]
    BY DEF Inv, ClientsOK, ServerStates, Server
<1>3. c \in Players
    BY WorldAssumption
<1>4. CASE packet.states # <<>>
    <2>1. Last(packet.states) \in Snapshots
        <3>1. packet.states \in Seq(Snapshots)
            BY <1>1 DEF Packets
        <3> HIDE DEF Snapshots
        <3>2. Len(packet.states) \in 1..Len(packet.states)
            BY <3>1, <1>4
        <3> QED
            BY <3>1, <3>2 DEF Last
    <2>2. i \in DOMAIN Last(packet.states) /\ Last(packet.states)[i] \in Status
        BY <2>1 DEF Snapshots
    <2>3. ViewAfter(c, packet)[i] = Last(packet.states)[i]
        BY <2>2, <1>4 DEF ViewAfter
    <2>4. Rank(Last(packet.states)[i]) <= Rank(status[i])
        BY <2>1 DEF Snapshots, Rises
    <2> QED
        BY <2>2, <2>3, <2>4, <1>2, RankIsNat
<1>5. CASE packet.states = <<>>
    <2>1. ViewAfter(c, packet) = ViewAfterEvents(c, packet)
        BY <1>5 DEF ViewAfter
    <2>2. CASE Rank(view[c][i]) > Rank(status[i])
        <3>1. /\ i = c /\ view[c][c] = "FLYING"
              /\ \E j \in Players \ {c} : status[j] = "FLYING"
            BY <2>2 DEF Inv, ViewsNotAhead
        <3> QED
            BY <3>1, <2>1, <1>2, <1>3 DEF ViewAfterEvents
    <2>3. CASE ~ (Rank(view[c][i]) > Rank(status[i]))
        <3>1. ViewAfterEvents(c, packet)[i] # view[c][i]
            BY <2>1, <2>3
        <3>2. PICK k \in Covered(c, packet) : events[c][k].type = "PLAYER_LIFTOFF"
            BY <3>1 DEF ViewAfterEvents
        <3>3. ViewAfterEvents(c, packet) = [view[c] EXCEPT ![c] = "FLYING"]
            BY <3>2 DEF ViewAfterEvents
        <3>4. i = c /\ ViewAfterEvents(c, packet)[c] = "FLYING"
            BY <3>1, <3>3, <1>2, <1>3
        <3>5. k \in 1..Len(events[c])
            <4>1. Len(events[c]) \in Nat /\ packet.covers \in Nat
                BY <1>1 DEF Packets
            <4> QED
                BY <4>1, <1>1 DEF Covered
        <3>6. events[c][k].client_id \in Players
            <4>1. events[c][k] \in Written
                BY <3>5, <1>1
            <4> QED
                BY <4>1, <3>2 DEF Written
        <3>7. status[events[c][k].client_id] = "FLYING"
            BY <3>2, <3>5 DEF Inv, ServerStates, Server, Announced, Holds
        <3>8. events[c][k].client_id # c
            <4>1. Rank("FLYING") > Rank(status[c])
                BY <2>1, <3>4
            <4> QED
                BY <4>1, <3>7, <1>2, <1>3 DEF Rank, Status
        <3> QED
            BY <2>1, <3>4, <3>6, <3>7, <3>8
    <2> QED
        BY <2>2, <2>3
<1> QED
    BY <1>4, <1>5

\* The place of a client is the base of an event it handles, or the one before.
LEMMA PlaceIsOfEvent ==
    ASSUME Inv, NEW c \in Clients, NEW packet \in sent[c], PlaceAfter(c, packet) # place[c]
    PROVE  \E k \in 1..Len(events[c]) :
            /\ k \in Covered(c, packet) /\ IsSpawn(c, k)
            /\ PlaceAfter(c, packet) = events[c][k].base_id
<1> DEFINE spawns == {k \in Covered(c, packet) : IsSpawn(c, k)}
<1>1. events[c] \in Seq(Written) /\ packet.covers \in Nat /\ packet.covers <= Len(events[c])
    BY DEF Inv, PathOK, Packets, ServerStates, Server
<1>2. Len(events[c]) \in Nat
    BY <1>1
<1>3. spawns # {}
    BY DEF PlaceAfter
<1>4. spawns \in SUBSET Nat
    BY <1>1 DEF Covered
<1> DEFINE first == CHOOSE k \in spawns : \A l \in spawns : k <= l
<1> HIDE DEF spawns
<1>5. first \in spawns
    BY <1>3, <1>4, LeastExists
<1> USE DEF spawns
<1> HIDE DEF first
<1>6. first \in 1..Len(events[c]) /\ IsSpawn(c, first) /\ first \in Covered(c, packet)
    BY <1>5, <1>1, <1>2 DEF Covered
<1>7. PlaceAfter(c, packet) = events[c][first].base_id
    BY <1>3 DEF PlaceAfter, first
<1> QED
    BY <1>6, <1>7

LEMMA ClientReceivesKeeps ==
    ASSUME Inv, NEW c \in Clients, NEW packet \in sent[c], ClientReceives(c, packet)
    PROVE  Inv'
<1> DEFINE n == packet.covers
<1>1. /\ Server' \in ServerStates /\ Snapshots' = Snapshots
      /\ packet \in Packets
      /\ Len(events[c]) \in Nat /\ n \in 0..Len(events[c])
      /\ Len(events'[c]) = Len(events[c]) - n
      /\ \A d \in Clients : d # c => events'[d] = events[d]
    BY HandledEventsGo DEF ClientReceives, Snapshots
<1> HIDE DEF n
<1>2. events[c] \in Seq(Written)
    BY DEF Inv, ServerStates, Server
<1>3. ASSUME NEW p \in sent[c]
      PROVE  LET later == [p EXCEPT !.covers = IF @ > n THEN @ - n ELSE 0]
             IN  later \in Packets /\ later.covers <= Len(events'[c])
    <2>1. p \in Packets /\ p.covers \in Nat /\ p.covers <= Len(events[c])
        BY DEF Inv, PathOK, Packets
    <2>2. (IF p.covers > n THEN p.covers - n ELSE 0) \in 0..(Len(events[c]) - n)
        BY <2>1, <1>1
    <2>3. [p EXCEPT !.covers = IF @ > n THEN @ - n ELSE 0]
            = [covers |-> IF p.covers > n THEN p.covers - n ELSE 0, states |-> p.states]
        BY <2>1 DEF Packets
    <2>4. p.states \in Seq(Snapshots)
        BY <2>1 DEF Packets
    <2> QED
        BY <2>2, <2>3, <2>4, <1>1 DEF Packets
<1>4. sent' = [sent EXCEPT ![c] = Later(n, @ \ {packet})]
    BY DEF ClientReceives, n
<1>5. Later(n, sent[c] \ {packet}) \subseteq Packets
    BY <1>3 DEF Later
<1>6. \A p \in Later(n, sent[c] \ {packet}) : p.covers <= Len(events'[c])
    BY <1>3 DEF Later
<1>7. PathOK'
    <2>1. sent' \in [Clients -> SUBSET Packets]
        BY <1>4, <1>5 DEF Inv, PathOK
    <2>2. ASSUME NEW d \in Clients, NEW p \in sent'[d] PROVE p.covers <= Len(events'[d])
        <3>1. CASE d = c
            BY <2>2, <3>1, <1>4, <1>6 DEF Inv, PathOK
        <3>2. CASE d # c
            BY <2>2, <3>2, <1>4, <1>1 DEF Inv, PathOK
        <3> QED
            BY <3>1, <3>2
    <2>3. Packets' = Packets
        BY <1>1 DEF Packets
    <2>4. updates' \in [Clients -> Seq(Snapshots)]
        BY DEF ClientReceives, Inv, PathOK
    <2> HIDE DEF Snapshots
    <2> QED
        BY <2>1, <2>2, <2>3, <2>4, <1>1 DEF PathOK
<1>8. ViewAfter(c, packet) \in [Players -> Status]
    <2>1. view[c] \in [Players -> Status]
        BY DEF Inv, ClientsOK
    <2>2. ViewAfterEvents(c, packet) \in [Players -> Status]
        BY <2>1 DEF ViewAfterEvents, Status
    <2>3. CASE packet.states = <<>>
        BY <2>2, <2>3 DEF ViewAfter
    <2>4. CASE packet.states # <<>>
        <3>1. packet.states \in Seq(Snapshots)
            BY <1>1 DEF Packets
        <3>2. Len(packet.states) \in 1..Len(packet.states)
            BY <3>1, <2>4
        <3>3. Last(packet.states) \in Snapshots
            BY <3>1, <3>2 DEF Last
        <3> QED
            BY <2>2, <2>4, <3>3 DEF ViewAfter, Snapshots
    <2> QED
        BY <2>3, <2>4
<1>9. view' = view \/ view' = [view EXCEPT ![c] = ViewAfter(c, packet)]
    BY DEF ClientReceives
<1>10. BasesFrom(c, 1, packet) \subseteq Bases
    <2>1. ASSUME NEW j \in 1..n, events[c][j].type = "OBJECT_SPAWN"
          PROVE  events[c][j].id \in Bases
        <3>1. events[c][j] \in Written
            BY <1>1, <1>2
        <3> QED
            BY <3>1, <2>1 DEF Written
    <2>2. all_bases[c] \subseteq Bases
        BY DEF Inv, ClientsOK
    <2> QED
        BY <2>1, <2>2 DEF BasesFrom, n
<1>11. ClientsOK'
    <2>1. all_bases' \in [Clients -> SUBSET Bases]
        BY <1>10 DEF ClientReceives, Inv, ClientsOK
    <2>2. view' \in [Clients -> [Players -> Status]]
        BY <1>8, <1>9 DEF Inv, ClientsOK
    <2>3. crashed' \in [Clients -> BOOLEAN]
        <3>1. Crashes(c, packet) \in BOOLEAN
            BY DEF Crashes
        <3> QED
            BY <3>1 DEF ClientReceives, Inv, ClientsOK
    <2>4. place' \in [Clients -> Bases \cup {0}]
        <3>1. PlaceAfter(c, packet) \in Bases \cup {0}
            <4>1. ASSUME NEW k \in 1..Len(events[c]), IsSpawn(c, k)
                  PROVE  events[c][k].base_id \in Bases
                <5>1. events[c][k] \in Written
                    BY <1>2
                <5> QED
                    BY <5>1, <4>1 DEF IsSpawn, Written
            <4>2. place[c] \in Bases \cup {0}
                BY DEF Inv, ClientsOK
            <4>3. CASE PlaceAfter(c, packet) # place[c]
                <5>1. PICK k \in 1..Len(events[c]) :
                        IsSpawn(c, k) /\ PlaceAfter(c, packet) = events[c][k].base_id
                    BY <4>3, PlaceIsOfEvent
                <5> QED
                    BY <5>1, <4>1
            <4> QED
                BY <4>2, <4>3
        <3> QED
            BY <3>1 DEF ClientReceives, Inv, ClientsOK
    <2> QED
        BY <2>1, <2>2, <2>3, <2>4 DEF ClientReceives, Inv, ClientsOK
<1>12. ViewsNotAhead'
    <2> SUFFICES ASSUME NEW d \in Clients, NEW i \in Players,
                        Rank(view'[d][i]) > Rank(status'[i])
                 PROVE  /\ i = d /\ view'[d][d] = "FLYING"
                        /\ \E j \in Players \ {d} : status'[j] = "FLYING"
        BY DEF ViewsNotAhead
    <2>1. status' = status
        BY DEF ClientReceives
    <2>2. CASE view'[d] = view[d]
        BY <2>1, <2>2 DEF Inv, ViewsNotAhead
    <2>3. CASE view'[d] # view[d]
        <3>1. d = c /\ view'[d] = ViewAfter(c, packet)
            BY <2>3, <1>9 DEF Inv, ClientsOK
        <3> QED
            BY <3>1, <2>1, ViewStaysBehind
    <2> QED
        BY <2>2, <2>3
<1>13. ASSUME NEW k \in Covered(c, packet), IsSpawn(c, k)
       PROVE  \E i \in Spawned : events[c][k].base_id \in OwnedBy(team[i])
    <2>1. k \in 1..Len(events[c])
        BY <1>1 DEF Covered, n
    <2>2. events[c][k] \in Written /\ Holds(status, events[c][k])
        BY <2>1, <1>2 DEF Inv, ServerStates, Server, Announced
    <2>3. /\ events[c][k].client_id \in Players /\ status[events[c][k].client_id] # "DEAD"
          /\ events[c][k].base_id \in OwnedBy(team[events[c][k].client_id])
        BY <2>2, <1>13 DEF IsSpawn, Holds, Written
    <2> QED
        BY <2>3 DEF Spawned
<1>14. \A k \in Covered(c, packet) :
        all_bases[c] \subseteq BasesFrom(c, k, packet)
            /\ BasesFrom(c, k, packet) \subseteq BasesFrom(c, 1, packet)
    <2> SUFFICES ASSUME NEW k \in 1..n
                 PROVE  /\ all_bases[c] \subseteq BasesFrom(c, k, packet)
                        /\ BasesFrom(c, k, packet) \subseteq BasesFrom(c, 1, packet)
        BY DEF Covered, n
    <2>1. k..n \subseteq 1..n
        BY <1>1
    <2> QED
        BY <2>1 DEF BasesFrom, n
<1>15. SpawnsNameOwnBases'
    <2> SUFFICES ASSUME NEW d \in Clients
                 PROVE  /\ place'[d] # 0 =>
                            \E i \in Spawned : place'[d] \in all_bases'[d] \cap OwnedBy(team[i])
                        /\ crashed'[d] =>
                            \E i \in Spawned : ~ (OwnedBy(team[i]) \subseteq all_bases'[d])
        BY DEF SpawnsNameOwnBases, Spawned, ClientReceives
    <2>1. CASE d # c
        <3>1. place'[d] = place[d] /\ all_bases'[d] = all_bases[d] /\ crashed'[d] = crashed[d]
            BY <2>1 DEF ClientReceives, Inv, ClientsOK
        <3> QED
            BY <3>1 DEF Inv, SpawnsNameOwnBases
    <2>2. CASE d = c /\ Crashes(c, packet)
        <3>1. place' = place /\ all_bases' = all_bases
            BY <2>2 DEF ClientReceives
        <3>2. PICK k \in Covered(c, packet) :
                IsSpawn(c, k) /\ events[c][k].base_id \notin BasesFrom(c, k, packet)
            BY <2>2 DEF Crashes
        <3>3. PICK i \in Spawned : events[c][k].base_id \in OwnedBy(team[i])
            BY <3>2, <1>13
        <3>4. events[c][k].base_id \notin all_bases[c]
            BY <3>2, <1>14
        <3> QED
            BY <2>2, <3>1, <3>3, <3>4 DEF Inv, SpawnsNameOwnBases
    <2>3. CASE d = c /\ ~ Crashes(c, packet)
        <3>1. /\ place'[c] = PlaceAfter(c, packet) /\ all_bases'[c] = BasesFrom(c, 1, packet)
              /\ ~ crashed'[c]
            BY <2>3 DEF ClientReceives, Inv, ClientsOK
        <3>2. all_bases[c] \subseteq all_bases'[c]
            BY <3>1 DEF BasesFrom
        <3>3. CASE PlaceAfter(c, packet) = place[c]
            BY <2>3, <3>1, <3>2, <3>3 DEF Inv, SpawnsNameOwnBases
        <3>4. CASE PlaceAfter(c, packet) # place[c]
            <4>1. PICK k \in 1..Len(events[c]) :
                    /\ k \in Covered(c, packet) /\ IsSpawn(c, k)
                    /\ PlaceAfter(c, packet) = events[c][k].base_id
                BY <3>4, PlaceIsOfEvent
            <4>2. events[c][k].base_id \in BasesFrom(c, k, packet)
                BY <2>3, <4>1 DEF Crashes
            <4>3. events[c][k].base_id \in all_bases'[c]
                BY <4>1, <4>2, <3>1, <1>14
            <4>4. PICK i \in Spawned : events[c][k].base_id \in OwnedBy(team[i])
                BY <4>1, <1>13
            <4> QED
                BY <2>3, <3>1, <4>1, <4>3, <4>4
        <3> QED
            BY <3>3, <3>4
    <2> QED
        BY <2>1, <2>2, <2>3
<1> QED
    BY <1>1, <1>7, <1>11, <1>12, <1>15 DEF Inv

LEMMA NextKeeps == Inv /\ [Next]_vars => Inv'
<1> SUFFICES ASSUME Inv, [Next]_vars PROVE Inv'
    OBVIOUS
<1>1. CASE WriteUpdates
    BY <1>1, WriteUpdatesKeeps
<1>2. ASSUME NEW i \in Players \ Clients, NEW action \in Actions, OtherActs(i, action)
      PROVE  Inv'
    BY <1>2, OtherActsKeeps
<1>3. ASSUME NEW c \in Clients, Handles(c)
      PROVE  Inv'
    BY <1>3, ServerReceivesKeeps DEF Handles
<1>4. ASSUME NEW c \in Clients, SendOutboundMessages(c)
      PROVE  Inv'
    BY <1>4, SendOutboundMessagesKeeps
<1>5. ASSUME NEW c \in Clients, Receives(c)
      PROVE  Inv'
    BY <1>5, ClientReceivesKeeps DEF Receives
<1>6. ASSUME NEW c \in Clients, NEW packet \in sent[c], Lose(c, packet)
      PROVE  Inv'
    BY <1>6, LoseKeeps
<1>7. ASSUME NEW c \in Clients, NEW action \in Actions, SendAction(c, action)
      PROVE  Inv'
    BY <1>7, SendActionKeeps
<1>8. CASE UNCHANGED vars
    <2>1. Server' \in ServerStates /\ Snapshots' = Snapshots
        BY <1>8, ServerStands DEF vars, serverVars
    <2>2. PathOK'
        BY <2>1, <1>8 DEF Inv, PathOK, Packets, vars, serverVars
    <2> QED
        BY <2>1, <2>2, <1>8
        DEF vars, serverVars, worldVars, Inv, ClientsOK, ViewsNotAhead, SpawnsNameOwnBases, Spawned
<1> QED
    BY <1>1, <1>2, <1>3, <1>4, <1>5, <1>6, <1>7, <1>8 DEF Next

-----------------------------------------------------------------------------
(* Types and bounds *)

\* What the types ask for beyond Inv.
BoundsOK ==
    \A c \in Clients :
        /\ Len(updates[c]) <= MaxUpdates
        /\ IsFiniteSet(sent[c]) /\ Cardinality(sent[c]) <= MaxInFlight

LEMMA InitIsBounded == Init => BoundsOK
BY WorldAssumption, FS_EmptySet DEF Init, BoundsOK

\* Packets become older together: none is split in two.
LEMMA LaterIsNoMore ==
    ASSUME NEW n, NEW S, IsFiniteSet(S)
    PROVE  IsFiniteSet(Later(n, S)) /\ Cardinality(Later(n, S)) <= Cardinality(S)
<1> DEFINE f == [p \in S |-> [p EXCEPT !.covers = IF @ > n THEN @ - n ELSE 0]]
<1>1. f \in Surjection(S, Later(n, S))
    BY DEF Surjection, Later
<1> QED
    BY <1>1, FS_Surjection

LEMMA NextStaysBounded == Inv /\ BoundsOK /\ [Next]_vars => BoundsOK'
<1> SUFFICES ASSUME Inv, BoundsOK, [Next]_vars PROVE BoundsOK'
    OBVIOUS
<1>1. CASE WriteUpdates
    <2>1. ASSUME NEW c \in Clients
          PROVE  Len(<<EmitStates(c)>> \o updates[c]) <= MaxUpdates
        <3>1. updates[c] \in Seq(Snapshots) /\ Len(updates[c]) < MaxUpdates
            BY <1>1 DEF Inv, PathOK, WriteUpdates
        <3>2. Len(updates[c]) \in Nat /\ Len(<<EmitStates(c)>> \o updates[c]) = Len(updates[c]) + 1
            BY <3>1
        <3> QED
            BY <3>1, <3>2, WorldAssumption
    <2> QED
        BY <2>1, <1>1 DEF WriteUpdates, worldVars, BoundsOK
<1>2. ASSUME NEW i \in Players \ Clients, NEW action \in Actions, OtherActs(i, action)
      PROVE  BoundsOK'
    BY <1>2 DEF OtherActs, worldVars, BoundsOK
<1>3. ASSUME NEW c \in Clients, Handles(c)
      PROVE  BoundsOK'
    BY <1>3 DEF Handles, ServerReceives, worldVars, BoundsOK
<1>4. ASSUME NEW c \in Clients, SendOutboundMessages(c)
      PROVE  BoundsOK'
    <2> DEFINE packet == [covers |-> Len(events[c]), states |-> updates[c]]
    <2>1. IsFiniteSet(sent[c]) /\ Cardinality(sent[c]) < MaxInFlight /\ Cardinality(sent[c]) \in Nat
        BY <1>4, FS_CardinalityType DEF SendOutboundMessages, BoundsOK
    <2>2. /\ IsFiniteSet(sent[c] \cup {packet})
          /\ Cardinality(sent[c] \cup {packet}) <= Cardinality(sent[c]) + 1
        <3> HIDE DEF packet
        <3>1. Cardinality(sent[c] \cup {packet})
                = IF packet \in sent[c] THEN Cardinality(sent[c]) ELSE Cardinality(sent[c]) + 1
            BY <2>1, FS_AddElement
        <3>2. IsFiniteSet(sent[c] \cup {packet})
            BY <2>1, FS_AddElement
        <3> QED
            BY <2>1, <3>1, <3>2
    <2>3. Cardinality(sent[c] \cup {packet}) <= MaxInFlight
        <3>1. Cardinality(sent[c] \cup {packet}) \in Nat
            BY <2>2, FS_CardinalityType
        <3> QED
            BY <3>1, <2>1, <2>2, WorldAssumption
    <2> HIDE DEF packet
    <2>4. sent' = [sent EXCEPT ![c] = sent[c] \cup {packet}] /\ updates' = [updates EXCEPT ![c] = <<>>]
        BY <1>4 DEF SendOutboundMessages, packet
    <2>5. \A d \in Clients : IsFiniteSet(sent'[d]) /\ Cardinality(sent'[d]) <= MaxInFlight
        BY <2>2, <2>3, <2>4 DEF BoundsOK, Inv, PathOK
    <2>6. \A d \in Clients : Len(updates'[d]) <= MaxUpdates
        <3>1. Len(<<>>) <= MaxUpdates
            BY WorldAssumption
        <3> QED
            BY <2>4, <3>1 DEF BoundsOK, Inv, PathOK
    <2> QED
        BY <1>4, <2>5, <2>6 DEF SendOutboundMessages, worldVars, BoundsOK
<1>5. ASSUME NEW c \in Clients, NEW packet \in sent[c], ClientReceives(c, packet)
      PROVE  BoundsOK'
    <2> DEFINE rest == sent[c] \ {packet}
    <2>1. IsFiniteSet(rest) /\ Cardinality(rest) <= Cardinality(sent[c])
        BY FS_Subset DEF BoundsOK
    <2>2. /\ IsFiniteSet(Later(packet.covers, rest))
          /\ Cardinality(Later(packet.covers, rest)) <= MaxInFlight
        <3>1. /\ IsFiniteSet(Later(packet.covers, rest))
              /\ Cardinality(Later(packet.covers, rest)) <= Cardinality(rest)
            BY <2>1, LaterIsNoMore
        <3>2. /\ Cardinality(rest) \in Nat /\ Cardinality(sent[c]) \in Nat
              /\ Cardinality(Later(packet.covers, rest)) \in Nat
            BY <2>1, <3>1, FS_CardinalityType DEF BoundsOK
        <3> QED
            BY <2>1, <3>1, <3>2, WorldAssumption DEF BoundsOK
    <2>3. sent' = [sent EXCEPT ![c] = Later(packet.covers, rest)]
        BY <1>5 DEF ClientReceives
    <2>4. updates' = updates
        BY <1>5 DEF ClientReceives
    <2> HIDE DEF rest
    <2> QED
        BY <2>2, <2>3, <2>4 DEF BoundsOK, Inv, PathOK
<1>6. ASSUME NEW c \in Clients, NEW packet \in sent[c], Lose(c, packet)
      PROVE  BoundsOK'
    <2>1. IsFiniteSet(sent[c] \ {packet}) /\ Cardinality(sent[c] \ {packet}) <= Cardinality(sent[c])
        BY FS_Subset DEF BoundsOK
    <2>2. Cardinality(sent[c] \ {packet}) <= MaxInFlight
        <3>1. Cardinality(sent[c] \ {packet}) \in Nat /\ Cardinality(sent[c]) \in Nat
            BY <2>1, FS_CardinalityType DEF BoundsOK
        <3> QED
            BY <3>1, <2>1, WorldAssumption DEF BoundsOK
    <2> QED
        BY <1>6, <2>1, <2>2 DEF Lose, serverVars, worldVars, BoundsOK, Inv, PathOK
<1>7. ASSUME NEW c \in Clients, NEW action \in Actions, SendAction(c, action)
      PROVE  BoundsOK'
    BY <1>7 DEF SendAction, serverVars, worldVars, BoundsOK
<1>8. CASE UNCHANGED vars
    BY <1>8 DEF vars, serverVars, worldVars, BoundsOK
<1> QED
    BY <1>1, <1>2, <1>3, <1>4, <1>5, <1>6, <1>7, <1>8 DEF Next, Receives

-----------------------------------------------------------------------------

\* The variables of the server, the path and the clients keep their types: no
\* event names a player or a base that is not there, no packet covers events
\* that do not exist (HandleAction, HandleSyncWorld, CraftSendPacket).
THEOREM TypeCorrect == Spec => []TypeOK
<1>1. Inv /\ BoundsOK => TypeOK
    <2> SUFFICES ASSUME Inv, BoundsOK PROVE TypeOK
        OBVIOUS
    <2>1. status \in [Players -> Status] /\ events \in [Clients -> Seq(Written)]
        BY DEF Inv, ServerStates, Server
    <2>2. Written \subseteq Event
        BY DEF Written, Event
    <2>3. ASSUME NEW c \in Clients PROVE events[c] \in Seq(Event)
        BY <2>1, <2>2, SeqGrows
    <2>4. ASSUME NEW c \in Clients, NEW packet \in sent[c]
          PROVE  packet.covers \in 0..Len(events[c])
        <3>1. packet.covers \in Nat /\ packet.covers <= Len(events[c]) /\ events[c] \in Seq(Written)
            BY <2>1 DEF Inv, PathOK, Packets
        <3>2. Len(events[c]) \in Nat
            BY <3>1
        <3> QED
            BY <3>1, <3>2
    <2>5. \A c \in Clients :
            requests[c] \in Seq({SyncWorld} \cup {RequestAction(a) : a \in Actions})
        <3>1. RequestActions \cup {SyncWorld}
                  \subseteq {SyncWorld} \cup {RequestAction(a) : a \in Actions}
            BY DEF RequestActions
        <3> QED
            BY <3>1, SeqGrows DEF Inv, ClientsOK
    <2> QED
        BY <2>1, <2>3, <2>4, <2>5 DEF TypeOK, BoundsOK, Inv, ClientsOK
<1> QED
    BY InitKeeps, NextKeeps, InitIsBounded, NextStaysBounded, <1>1, PTL DEF Spec

\* No client takes another player for more than the server made of it, and its
\* own only after a lift-off of another: HandleAction, WriteUpdates,
\* HandleLiftOffEvent and HandlePlayerState, with packets lost and overtaken.
THEOREM ViewsNotAheadHolds == Spec => []ViewsNotAhead
<1>1. Inv => ViewsNotAhead
    BY DEF Inv
<1> QED
    BY InitKeeps, NextKeeps, <1>1, PTL DEF Spec

\* However the loop of GetRandomRespawnBase counts and in whatever order a client
\* gets them, PLAYER_SPAWNs put it at bases it knows, of the team of a player
\* that spawned, and none brings it down by naming what is no base of that team.
THEOREM SpawnsNameOwnBasesHolds == Spec => []SpawnsNameOwnBases
<1>1. Inv => SpawnsNameOwnBases
    BY DEF Inv
<1> QED
    BY InitKeeps, NextKeeps, <1>1, PTL DEF Spec
=============================================================================
