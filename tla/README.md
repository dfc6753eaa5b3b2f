# A verification of shipz

shipz is a multiplayer game over UDP: one server, up to eight clients, and a
home-made layer of reliable messages between them (`src/source`). This
directory models its core in TLA+, checks the models with TLC and proves what
matters most with TLAPS. Paths below are relative to `src/source/`.

## 1. The system

### Inventory

| Component | Source | State | Operations | Module |
|---|---|---|---|---|
| Reliable session channel | `net/session.cpp`, `net/session.h`, `net/message.h` | `out_reliable`, `out_lossy`, `inbound`, `id_counter`, `last_seen_id` | `Write`, `CraftSendPacket`, `HandleReceivedPacket`, `ProcessAck`, `Read` | `SessionChannel` |
| Session registry | `net/session.h` (`ShipzSession`) | `by_id_map`, `active_ids`, endpoint, `client_id`, `last_active` | create, look up, purge | `GameServer`, `SessionSetup` |
| Server players and handlers | `server/server.cpp`, `common/player.cpp` | `active_sessions`, `Player::instances`, team, status | `HandleCreateSession`, `HandleInfo`, `HandleJoin`, `HandleAction`, `HandleSyncWorld`, `PurgeStaleSessions`, `WriteUpdates` | `GameServer`, `JoinGame`, `JoinAnnouncement`, `GameWorld` |
| Client join sequence | `client/client.cpp` (`JoinLoop`, `GameLoop`) | `state`, `attempts`, `self`, the players and objects it has | requests, retries, callbacks | `JoinGame` |
| Client connect handshake | `client/client.cpp` (`Connect`) | attempts, session | request a session, obtain it | `SessionSetup` |
| Player state | `common/player.cpp` | status, position, `is_local` | `HandleUpdate`, `EmitStates`, `LiftOff`, `Spawn`, `Update` | status in `GameServer` and `GameWorld` |
| Client game events | `client/client.cpp` 540-682 | players, objects | one handler per event | `JoinGame`, `GameWorld` |
| Objects and bases | `common/object.cpp`, `common/base.cpp`, `common/team.h` | `instances`, `all_bases`, team counts | spawn, `GetRandomRespawnBase`, `EmitSpawnMessage` | `GameWorld` |
| Messages, buffers, packets | `net/net.cpp`, `net/packet.cpp`, `net/message_factory.h` | position, length, bytes | write, read, serialize, deserialize | `PacketCodec` |
| Message handler | `net/message_handler.cpp` | the callbacks | register, clear, dispatch | the handlers of `JoinGame` and `GameWorld` |
| Socket | `net/socket.cpp` | receive buffer, `in_queue` | send, poll, receive callback | the path in `SessionChannel`, the queue in `SessionSetup` |
| Timer | `utils/timer.h` | timers, last tick | arm, tick | the ticks of `SessionSetup` |
| Chat and typing | `common/chat.cpp`, `common/other.cpp` | lines, buffer | add, type | not modelled |
| Bullets, explosions | `common/bullet.cpp`, `common/other.cpp` | lists | add, expire | not modelled |
| Level, AES, graphics, sound, assets, entry points | | | | not modelled: input and output, third party |

### How they interact

A client asks the server for a session with a packet that has no session id
(`Connect`, `HandleCreateSession`). From then on each packet carries the session
id, and everything travels through the two `SessionMessageManager`s of that
session: an event, a request or a response is reliable, a player state or an
acknowledgement is not. The client's `JoinLoop` asks for the server's
information and then to join; the server makes a `Player`, answers, and tells
the new client of the others and the others of the new one. `GameLoop` replaces
the callbacks and asks for the world. Actions (lift off, spawn) are requests;
ten times a second both sides exchange player states. Once a second the server
purges sessions that were silent for 2500 ms, and the player of each.

Both programs are one thread with a polled socket, so a handler is one atomic
step. The interleavings are those of the programs and of the packets between
them.

### What is hard

- **The window of message ids.** `MAX_MESSAGE_SEQUENCE_ID` is written
  `2^(8*sizeof(...))`, which is 2 XOR 8 = 10 in C++. Everything the channel
  promises depends on how many ids are in use, on the order in which packets
  arrive and on the order of messages in a packet, and nothing in the code
  limits any of these.
- **Ids that are used again**: message ids, session ids after a purge, player
  ids, memory of a deleted session that a player still points at.
- **Values nobody initialises**: `id_counter`, a session's `client_id`, the team
  of a new player while teams are counted.
- **Retries over a reliable channel**: the join loop repeats requests that are
  being retransmitted anyway, and the server handles every one.
- **Callbacks that change** while messages are under way.
- **One change told twice**: at once by a reliable event and ten times a second
  by an unreliable state, which overtake each other; and one message object in
  the queues of several sessions.
- **Periods that race**: attempts 300 ms apart, a queue read one packet at a
  time, a purge after 2500 ms.
- **The end of a packet**: sizes leave the header out and failed writes go
  unnoticed.

`PROJECT.json` lists each hazard at its line, with the properties for it or the
reason why there is none.

### What makes each part correct

- Channel: each reliable message is handled exactly once, without gaps, and the
  queue of retransmissions forgets nothing that was not handled.
- Registry and players: an endpoint has one session, a client one player, a
  player keeps the session of its client, and a place is free again when its
  client is gone.
- Join: the loop ends, a client plays a player that was made for it, and every
  client comes to know every other player and the world.
- Handshake: a session that a client obtained is alive, it gives up for a reason
  only, and what it leaves behind ends.
- World: a client's picture of the players is at last the server's, is never
  ahead of it, and events put it at bases of its game only.
- Codec: what was written whole is read back, whatever else is in the packet.

## 2. The modules

| Module | What it is |
|---|---|
| `ReliableChannel` | What the channel promises: messages are written, handed over in order, and forgotten once handed over. |
| `SessionChannel` | Two `SessionMessageManager`s and the network between them, and the channel's properties. |
| `SessionChannelInv` | Two ways of using the channel that make it safe (`SafeUse`, `FewUse`) and their inductive invariants (`IInv`, `FewInv`). |
| `SessionChannelProofs` | The theorems about it within `SafeUse`. |
| `FirstMessagesProofs` | The theorems within `FewUse`: the first messages, over a path with any of the faults. |
| `GameServer` | Sessions and players on the server, and what clients may send. |
| `GameServerProofs` | The theorems about it. |
| `JoinGame` | Clients that join, over channels that behave as `ReliableChannel` says. |
| `JoinGameProofs` | The theorems about it. |
| `JoinAnnouncement` | The announcement of a new player as one object in several sessions. |
| `SessionSetup` | How a client gets its session, in time. |
| `SessionSetupProofs` | The theorems about it. |
| `GameWorld` | Players' status and bases at the server and at the clients that play. |
| `GameWorldProofs` | The theorems about it. |
| `PacketCodec`, `PacketCodecProofs` | Messages as the bytes of a packet, and the theorems about it. |
| `Ordering` | The order in which the server goes through players and bases. |
| `DataLemmas` | Facts about sequences, folds and that order which the proofs share. |
| `MC...` | Instances for TLC. |

`SessionChannel` is composed of two managers and a path. `JoinGame` and
`GameWorld` stand on the channel as `ReliableChannel` describes it, which
`ImplementsReliableChannel` justifies within `SafeUse`. `SessionSetup` is the
handshake that `GameServer` abstracts to "obtains the session or loses the
answer". `PacketCodec` looks into the packets that `SessionChannel` counts in
messages.

A definition marked *Mutant* is not the code: it is the code with a plausible
mistake, kept next to the definition it replaces, and one of the properties
tells the two apart.

### SessionChannel

A variable `v[p]` is the field `v` of the manager at end `p`. `out_reliable` is
a set: the deque is filled at the front, so its order is that of the history
field `body`, which numbers the messages an end has written. `seq` is the id
the message carries on the wire. `out_acks` is the part of `out_lossy` that
holds acknowledgements, which `HandleReceivedPacket` pushes to the back, and
`out_lossy` counts the other unreliable messages, which `Write` pushes to the
front.

`CraftSendPacket` puts in as many reliable messages, newest first, then
unreliable ones, as `Capacity` allows. In the code the room is 1024 bytes and a
message is skipped when it does not fit; a message is one unit of room here.
The action also stands for `Socket::Send`. `Deliver` is the receipt of the
packet, one at a time as the loops poll. `HandleReceivedPacket` has the details
that matter: all messages of a packet are compared with the `last_seen_id` from
before the packet, `newest` keeps the first one it accepted (it compares its
first argument with `last_seen_id`, not with its second one), one
acknowledgement is queued for a packet with something new and none for a packet
without. Acknowledgements are compared as the code does. `Init` leaves
`id_counter` to `InitialIds`, since the constructor does not set it.

Ids are those of the code (10 of them), so TLC reaches every wrap-around with
twelve messages. `Window` is not in the code: it says how far the program that
uses the channel runs ahead of its oldest unacknowledged message.

### GameServer

`instances[i].session` is an address, since a `Player` holds a pointer; a
session that is created may get the address of a deleted one, with whatever
`client_id` its memory holds. `by_id_map` and `active_ids` always hold the same
sessions and are one variable, and `active_sessions` is the set `Live`.
`Receives(a, e)` is the way from a packet to a session: by its id and nothing
else. `owner` is a history field: which client asked for the player. A session
is in `stale` when it is older than `MAX_SESSION_AGE`.

Clients appear as what they may send: nothing about another client's state is
assumed. A client obtains its session or loses the answer (and is then refused
until the purge), joins at most `MaxJoins` times, acts, restarts or quits.
`Leave` changes nothing at the server: `LEAVE_GAME` is written after the last
packet was sent, and the server has no handler for it.

### JoinGame

Each client has two streams of messages. As `ReliableChannel` has it, a packet
covers all that was written when it was crafted, what has been handled is
dropped, and the rest is handled newest first, message by message; losing a
packet is sending none of it, because every later one covers it. The states are
those of `ClientState`. A timeout may happen at any turn of the loop, so the
model has every order of late answers and retries. `in_game` chooses between the
callbacks of `SetupJoinCallsbacks` and of `SetupCallbacks`. `Idle` reflects that
the server handles all messages of a packet before it polls or sends again.

A new player is among `instances` when `GetBalancedTeam` counts the teams, with
whatever its memory holds for a team (`GarbageTeams`). Sessions last as long as
their clients here: what the purge does to players is in `GameServer`.

`S_ERROR` and `S_VERSION_MISMATCH` are left out: all programs have one version.
The streams are those of the code for at most two players, because the
announcement of a third is one object in two sessions.

### JoinAnnouncement

The queues hold message objects; `seq_nr` is a field of the object, as in
`Message`, so `Write` into a second session changes the id the first one will
send. The ids and the comparison are those of `SessionChannel`. The path is
lossless and each client waits for its answer before it asks again: what the run
shows needs no fault.

### SessionSetup

Time is counted in ticks of 100 ms, the period of `WriteUpdates`; the constants
are the periods of the code in ticks. `Tick` is allowed only when nothing is due.
The client asks, sleeps, takes one packet off `in_queue` (`Found`) and asks
again. A packet travels up to `MaxDelay` ticks or is lost. `Before` is the
session of an earlier run of the client at the same endpoint: while it lasts,
requests are refused, and when it has a player, its updates fill the queue.

### GameWorld

`events[c]` is the part of the reliable stream to client `c` that `c` has not
handled and a packet `covers` a prefix of it, as in `JoinGame`. `updates` is the
queue of unreliable states; packets in `sent` may be lost and overtake each
other. `ClientReceives` is one turn of the game loop: the new events of the
packet newest first, then its states, the oldest of which counts in the end.
`view[c][i]` is `status` of player `i` at client `c`. `HandleSpawnEvent` and
`HandleLiftOffEvent` change the client's own player whatever player the event
names, and the model does as well. `crashed` says that the base looked up was
null. A player whose client is not modelled acts at any time (`OtherActs`).

`GetRandomRespawnBase` picks an index below `BasesOwned` and goes through
`all_bases`, which is in the order of the ids, counting the bases of the team:
`OwnedBefore` is what it has counted when it reaches a base, and `RespawnBase`
the base with the selected index, or 0, which the comment calls what "should not
happen".

### PacketCodec

A byte is named by the message, field and place it was written for, so the
reader's mistakes can be seen: `messages` holds the bytes each message was read
from. `Fits` is the strict comparison of `CraftSendPacket` with `Size()`, without
header and sequence number; `Put` is a write that does nothing when there is no
room. The reader goes by what it finds at its position: `AvailableRead` is 16
bits wide, a string ends at the first NUL in the buffer, and `astray` says that
it left the buffer or took a byte for a header that is none. `ReadHeader` is one
turn of the loop of `Packet::Read` up to the sequence number, `DeserializeField`
is one field of the macro: it drops the message when bytes are missing.
`instance` is the message that is being read.

## 3. The runs

Every action of the models is fired in a passing run. Deadlock is not checked:
the counters that bound the models stop them, and the programs' loops never
wait for each other.

| Run | Question | Bounds and why they are enough |
|---|---|---|
| `channel_lossy` | Do the invariant, the safety properties and the refinement hold within `SafeUse`? | 12 messages pass the wrap at 10; window 5 = half of the ids; initial ids 6, and 209, which is outside 0..9; two packets each way |
| `channel_both_ways` | Also when both ends write and packets are full, and does every message arrive? | 3 and 2 messages, an unreliable one, room for 2 |
| `channel_reordered` | Do the invariant for few messages, which implies the safety properties, and the refinement hold when packets are lost, duplicated and reordered? | 5 messages, half of the ids; three packets in flight. With a sixth, `AtMostOnce` fails |
| `channel_burst` | *violated*: events are reliable (`messages/event.h:16`) when the world is sent at once | 12 messages: levels/eagle5.json and construct2.json have 12 bases |
| `server` | Do sessions, players and clients stay matched, and is the player of a client that quit removed? | three clients, two sessions, addresses and players, so that the ids, the memory and the places of one are given to another; the ids can run out, which ends the server |
| `server_join_retry` | *violated*: the purge removes any player with the session (`server/server.cpp:273`) | a second join request |
| `join` | Does a client that plays have a player of its own and know the earlier ones, is only a full server refusing, does the world arrive, are later players known? | two clients and a limit of one or two: refusals by `SERVER_INFO` and by `DENY_JOIN`; `MaxAttempts` 1 (the code has 5), so that each client may ask to join twice; `join_retry` has the late `SERVER_INFO`s, and `OwnPlayer`, `EarlierPlayersKnown` and `RefusedWhenFull` are proved for any number |
| `join_retry` | Does the loop end, are there no more players than requests, are teams close, when answers are late, nothing is sure to arrive and the server need not answer? | one client, a limit of one or three, `MaxAttempts` 2: five and more `JOIN_GAME`s, since each `SERVER_INFO` sets `attempts` to zero; any team in the new player's memory |
| `join_shared` | *violated*: all players are notified (`server/server.cpp:190`) | three clients: the first whose announcement is shared; one base |
| `setup` | Is a session that was obtained alive, why does a client give up, do sessions end? | the periods of the code; ages 0 to 3.4 s of an earlier session, around 2.5 s; packets under way up to 200 ms |
| `world` | Is a client's picture right at last and never ahead, does a spawn name a base of the team? | one client and an opponent, a base each; two requests, updates and packets, so that states of both kinds overtake events |
| `codec` | Is what was written read back, and what can a cut message spoil? | seven classes with every kind of field, five messages, 24 bytes: room for two to five of them, so each class is the one that is cut at each of its fields |

The bytes of a packet are scaled down: 24 for 1024, with the fields of the real
classes and strings of at most two characters. What matters is how much room is
left before the last message, and the run has every remainder.

### Properties

*Channel.* The invariants of the runs, `IInv` and `FewInv`, contain `TypeOK`. `AtMostOnce`, `NoReliableLoss`, `NoGaps`: a message is handled once,
kept until it is, and not before an older one. `ImplementsReliableChannel`: all
of it as one specification. `Delivery`: it is handled at last. The queue of
retransmissions need not become empty: an acknowledgement travels once, and when
its packet is lost the retransmissions are old, nothing acknowledges them again,
and they go on until the next message is acknowledged.

*Server.* `SessionsDistinct`, `PlayersKeepTheirSession`, `OnePlayerPerClient` as
invariants; `ActionsMoveOwnPlayer` and `PurgeSparesTheLiving`
say what a step may never do; `PlacesAreFreed` is liveness. A join that is
refused is in the join runs: here a live session has one player at most.

*Join.* `OwnPlayer`, `EarlierPlayersKnown`, `RefusedWhenFull`; `TeamsStayClose`;
`JoinLoopEnds`, `WorldArrives`, `LaterPlayersKnown`; `AllPlayersNotified` (violated with three
clients). `OwnPlayer` is what is left of "a client has one player" when requests
are repeated: no `JOIN_GAME` makes two players, and the player the client plays
(`self`) and the one its session names (`client_id`) were made for this client.
With one request they are the same. With two they may differ: the client plays
the first player, and its actions move the second one. And a `SERVER_INFO` that
is late overwrites `S_ACCEPTED`, so that a client that was accepted asks again and
may end in `S_SERVER_FULL` or `S_DENIED`, refused because of its own player, or in
`S_TIMEOUT`. The loop still ends (`JoinLoopEnds`), whatever is late: every
`SERVER_INFO` resets `attempts`, but each is the answer to a question, and the
questions that start a count are limited by the attempts.
`LaterPlayersKnown` starts when a client's game
loop runs: a `PLAYER_JOINS` that reaches it before finds no callback in the join
loop, is dropped after it was acknowledged, and that player stays unknown.

*Handshake.* `SessionLives`: the session a client takes is the one the server has
for it, however long the answer waited in the queue. `ExitHasReason` lists the
reasons: losses, or an earlier session that was too young. A restarted client is
sure to connect, when nothing is lost, only if it quit more than 2.5 s before.
`AbandonedSessionEnds`: what a client that gave up leaves behind is purged.

*World.* `StatusConverges` and `SpawnIsSeen` are liveness; `ViewsNotAhead` says
that a client never takes a player for more than the server made of it, with one
exception the code makes: a lift-off of any player makes a client's own player
fly until the next state. `SpawnsNameOwnBases`: the place of a client is a base
it knows, of the team of a player that spawned, and only such a base that it has
not been told of brings it down. That does happen, to a client that plays and
whose bases are on their way when another player spawns, and also when the spawn
is newer than the bases in one packet: `HandleSpawnEvent` uses what
`Object::GetByID` finds without asking whether it found a base, and it is null.
The run has one base for each team; that any list of bases and any index give a
base of the team is `RespawnBaseIsOwned`.

*Codec.* `RoundTrip` when nothing was cut; `OnlyReliableCut`, `DamageIsLast` and
`CutNumberDropped` say what a cut can do. It needs a packet that is full, about
1000 bytes of waiting messages. A cut `OBJECT_SPAWN` takes the zeros behind the
packet for its data, and a cut string makes the reader run on for a NUL, to the
end of the buffer and beyond: `DamageIsLast` says that this spoils no message
before it.

### What the passing runs assume

They hold under stated assumptions, and the code does not enforce these:

- The channel: at most half of the ids in use, room for all of them in a packet,
  no duplicates and no reordering (or no more than half of the ids written in
  all), a first id in the half range above 255. With a window of 6, or a packet overtaken or duplicated after
  the ids wrapped, `AtMostOnce` or `NoReliableLoss` fails in the model, and with
  a first id of 1 nothing is ever handled.
- The server, `Silence = FALSE`: a client that runs is never silent for 2500 ms.
  Otherwise its session is purged, its id may name another client's session, and
  `ActionsMoveOwnPlayer` fails.
- The server, `MaxJoins = 1`: no request to join is repeated. With two, a client
  may have two players, and `PlayersKeepTheirSession` fails (`server_join_retry`).
  `JoinGame` has the repetitions, without the purge.
- `GameWorld`, `WorldAssumption`: there are finitely many bases, each team has
  one, as in the levels of the game, and bases change no owner, since no code
  does that after `Load`. Players do not die: nothing sets a status to `DEAD` after `Player::Init`. So the
  server's status only rises, which is what makes "ahead" a question.
- `JoinGame`, `JoinAssumption`: the server allows one player at least, and there
  are finitely many bases.
- `PacketCodec`, `CodecAssumption`: each message fits an empty packet, and the
  length of a packet fits its 16 bits.
- `SessionSetup`: the run has the periods of the code and packets that travel for
  up to 200 ms; the theorems name what the periods have to meet.
- `JoinGame` and `GameWorld` take the channel to be reliable, which for bases
  means at most half of the ids: `channel_burst` shows what happens with more.

### Fairness

`SessionChannel`: `WF` of `CraftSendPacket`, since the loops craft a packet at
every send tick (80 ms or 100 ms) whatever happens, and `SF` of `Deliver`: a
network that loses packets now and then does not lose every one for ever.
`GameServer`: `WF` of the purge, which a timer calls once a second, and of
`GoesStale`: time passes. Nothing is assumed of the clients.
`JoinGame`: `WF` of a client's loop, of the server's handlers and sends, and of
the receipt of packets, which is `Delivery` of the channel. `JoinLoopEnds` needs
the first of these only (`LoopSpec`): the client's own loop goes on.
`GameWorld`: `WF` of the update timer, of the sends and of the server's handling
of requests, and `SF` of a client's receipt of some packet, as in
`SessionChannel`. Nothing makes a player act. `SessionSetup`: `WF` of the next
step: time passes, and what is due is done before more of it does.

## 4. The proofs

`SessionChannelProofs` proves, for every value of the constants that meets
`ChannelAssumption`:

| Theorem | Statement |
|---|---|
| `TypeCorrect` | `Spec => []TypeOK`, whatever the use and the faults |
| `InvariantHolds` | `SafeUse => (Spec => []IInv)` |
| `AtMostOnceHolds`, `NoReliableLossHolds`, `NoGapsHolds` | the safety properties, within `SafeUse` |
| `ChannelRefines` | `SafeUse => (Spec => ImplementsReliableChannel)` |

`FirstMessagesProofs` proves, under the same assumption and with
`FewMessages == \A p \in Nodes : MaxWrites[p] <= HalfRange`:

| Theorem | Statement |
|---|---|
| `FewInvariantHolds` | `FewUse => (Spec => []FewInv)` |
| `FirstMessagesAreSafe` | `FewUse => (Spec => []FirstMessagesSafe)` |
| `FewAtMostOnce`, `FewNoReliableLoss` | the safety properties, with `FewUse /\ FewMessages` |
| `FewChannelRefines` | `FewUse /\ FewMessages => (Spec => ImplementsReliableChannel)` |

`GameServerProofs` proves, for every value of the constants that meets
`ServerAssumption`, with `WellBehaved == MaxJoins = 1 /\ Silence = FALSE`:

| Theorem | Statement |
|---|---|
| `TypeCorrect` | `Spec => []TypeOK` |
| `SessionsDistinctHolds` | `Spec => []SessionsDistinct` |
| `SessionsOutliveTheirPlayers` | `WellBehaved => (Spec => []PlayersKeepTheirSession)` |
| `ClientsHaveOnePlayer` | `WellBehaved => (Spec => []OnePlayerPerClient)` |
| `ClientsMoveTheirOwn` | `WellBehaved => (Spec => ActionsMoveOwnPlayer)` |
| `LivingAreSpared` | `WellBehaved => (Spec => PurgeSparesTheLiving)` |
| `TeamsAreBalanced` | `Spec => TeamsStayClose` |

`GameWorldProofs` proves, for every value of the constants that meets
`WorldAssumption`, any number of players, clients and bases:

| Theorem | Statement |
|---|---|
| `TypeCorrect` | `Spec => []TypeOK` |
| `ViewsNotAheadHolds` | `Spec => []ViewsNotAhead` |
| `RespawnBaseIsOwned` | `GetRandomRespawnBase(t) = OwnedBy(t)` for every team: the loop never falls through |
| `SpawnsNameOwnBasesHolds` | `Spec => []SpawnsNameOwnBases` |

`JoinGameProofs` proves, for every value of the constants that meets
`JoinAssumption`, any number of clients, limits and bases:

| Theorem | Statement |
|---|---|
| `TypeCorrect` | `Spec => []TypeOK` |
| `RefusedWhenFullHolds` | `Spec => []RefusedWhenFull` |
| `EarlierPlayersKnownHolds` | `Spec => []EarlierPlayersKnown` |
| `OwnPlayerHolds` | `Spec => []OwnPlayer`, with any number of repetitions |
| `TeamsStayCloseHolds` | `Spec => TeamsStayClose` |

With more than two players they are about the streams that `ReliableChannel`
promises, not those that `JoinAnnouncement` shows; the code keeps that promise
for two.

`PacketCodecProofs` proves, for every value of the constants that meets
`CodecAssumption`, whatever the classes, their fields, the queue and the size of
a packet:

| Theorem | Statement |
|---|---|
| `TypeCorrect` | `Spec => []TypeOK`: no write exceeds the packet |
| `RoundTripHolds` | `Spec => []RoundTrip` |
| `OnlyReliableMessagesAreCut` | `Spec => []OnlyReliableCut` |
| `DamageIsTheLast` | `Spec => []DamageIsLast` |
| `CutNumbersAreDropped` | `Spec => []CutNumberDropped` |

`SessionSetupProofs` proves, for every value of the constants that meets
`SetupAssumption`:

| Theorem | Statement |
|---|---|
| `TypeCorrect` | `Spec => []TypeOK` |
| `ObtainedSessionsLive` | `PeriodsFit => (Spec => []SessionLives)` |
| `ExitsHaveReasons` | `Timely => (Spec => []ExitHasReason)` |
| `PeriodsOfTheCode` | 300 ms, ten attempts, 2500 ms and 1 s meet `PeriodsFit` and `Timely` when packets travel for 200 ms at most |

### The channel

`SafeUse` is an assumption on the constants: `Window` is at most half of the ids
and at most the room of a packet, the network only loses packets, and the first
id is in the half range above 255. The runs outside of it show that each part is
needed.

The safety properties are not inductive: they say nothing about the ids on
their way. `IInv` does. Each id determines a body modulo 10 (`Numbered`), and
the bodies that can meet in a comparison lie within half of the ids of each
other:

- what the receiver has been handed is a prefix of what was written and ends at
  `last_seen_body`, whose id is `last_seen_id` (`ReceiverOK`);
- the writer still has all messages above that prefix and none more than
  `Window` behind the newest (`WriterOK`);
- a packet under way holds everything between the prefix and its newest message,
  and nothing half the ids below the prefix (`PacketsOK`), which on a FIFO path
  follows from the order of the packets;
- an acknowledgement under way names a message of the prefix, and all above it
  are still in the queue (`AcksOK`); acknowledgements arrive in the order of the
  messages they name (`AcksOrdered`).

Then a comparison of ids is one of bodies: `IsNewMessage` holds exactly of the
messages above the prefix, so the accepted ones extend it without a gap, and
`IsAcked` holds only of messages at or below the one acknowledged. There is one
lemma per action and conjunct. The modular arithmetic is in lemmas of its own.
For the refinement, `WriteReliable` is `Write`, a receipt is `Transfer` up to the
packet's newest message with the messages it acknowledges, and the rest stutters.

`SafeUse` excludes packets that are duplicated or overtaken, which UDP does.
`FewUse` assumes nothing of the path nor of `Window`: only that a packet holds half of
the ids and that the first id is in its range. `FewInv` then says, of each end that
has written no more than half of the ids, that what was handled is a prefix
(`ReceiverOK`), that what lies above it is in the queue (`KeptOK`) and in every
packet, however old, that holds something newer (`OnPathOK`), and that every
acknowledgement, however old, names a message of the prefix (`HandledOK`). An
old packet can do no harm since any two of the bodies 1..5 are less than half of
the ids apart; that `last_seen_body` only grows is what keeps `OnPathOK` and
`HandledOK` when packets arrive late or twice. The condition is on the state of
one end: its first messages are safe whatever the other end has written. Both
proofs share what a readable packet is (`Readable`) and what handling one does
(`NewMeansNotHandled`, `FreshIsNext`, `DeliverReceiver`, `HandlingRefines`), and
any step that takes packets from a path in any order is a `PathsShrink`.
The bound is the code's: with a sixth message in the instance of
`channel_reordered` TLC finds the first one handled twice.

### The server

`SessionsDistinct` with the types is inductive (`SessionInv`): a session gets an
id that is free and an endpoint that has none, and the purge takes both away.
The properties of players are not: that a player's session is that of its owner
says nothing about who may ask for the next player, or whose session a purge
takes. `Inv` adds that a client that runs has the session it uses
(`ClientsKeepSession`), that no client uses a session that is stale
(`UsedIsFresh`), that a session has one player (`OnePlayerPerSession`) and with it
has spent its client's request to join (`JoinedOnce`), and that the session of a
client that plays names the player of that session (`PlayingOwns`). One player
per session is what makes the purge, which stops at the first one, enough: that
is why `MaxJoins = 1` is needed, and `server_join_retry` is what happens without
it. Nobody being silent is what keeps a session id from naming another client's
session. There is one lemma per action.
`TeamsStayClose`, here and in `JoinGame`, needs no invariant but types: it follows from the comparison in
`GetBalancedTeam` and counts of finite sets, whatever team the new player is
counted in.

### The world

The properties speak of what a client has; `Inv` adds what is on its way to the
client. Each lift-off that is announced is true of the server, and each spawn
names a base of the team of a player that is not dead (`Holds`, `Announced`); the
states that wait or are under way are at most old (`Snapshots`), and a packet
covers no more events than there are (`PathOK`). The server's status only rises,
so an old state is never ahead, and an announcement that is true stays true. One
packet may hold many requests: `RequestsKeep` shows what handling all of them
keeps, and since the model computes it by recursion, that the recursive
function is there and has values of the right kind is derived from the
existence of a least number in each set of numbers.

That a spawn names a base of the team is the loop's work. What it has counted
when it reaches a base is less than the number of the team's bases and grows from
one base of the team to the next, so that no two have the same count, and every
index below that number is the count of some base (`RespawnBaseIsOwned`).

The types need one more fact: the base a player spawns at and the list of bases
that `HandleSyncWorld` writes come from an order of the bases, and that a finite
set of numbers has one is proved in `DataLemmas`.

### The join

None of the properties is inductive, because what a client knows comes from
messages. `Inv` says what the streams hold. What waits for its handler is a part
of what was written, backwards (`IsChannel`). Every answer is true when it is
written and stays so, as players are only added, each with an id above those
there are (`AnswersTrue`, `Grows`): this gives `RefusedWhenFull`. An acceptance
that has not arrived is followed by the information about all earlier players,
and a packet that brings it brings that, too (`InformationComes`); once it waits,
the information is in front of it or was handled (`InformationFirst`). So when
`ACCEPT_JOIN` is handled, the client was told of every earlier player
(`ClientOK`). The stream is one of lists that `HandleJoin` makes by flattening
one list per player: `DataLemmas` shows that flattening loses none.

`OwnPlayer` compares players with requests, of which some are handled, some wait
behind others of their packet and some are under way or not sent. `AskedFor` names
a set of requests that were handed over and do not wait, at least as many as the
client has players: a request that is handled joins the set, once, since its place
in the stream is just below those that still wait, and only handling one makes a
player. That the client's player is its own is part of what answers are
(`AnswersTrue`, `ClientOK`), and the session's is the newest one (`OwnOK`).

### The handshake

Nothing in `SessionLives` says how old a session is when its answer is found, and
an answer may wait in the queue behind packets of an earlier session, of which
the client takes one per attempt. The invariant (`LivesInv`) bounds that wait: an
answer is as old as its session (`AnswersYoung`), the queue before it is no
longer than the ticks that passed until the session was made (`QueueShort`), and
so an answer the client still comes to is found before its session is purged
(`FoundInTime`). Only a client that goes on asking for longer than a session
lives can be late: `PeriodsFit` compares these 500 ms, in attempts, with
the life of a session. The periods of the code meet it for delays up to a second.

`ExitHasReason` looks back over the whole attempt. `ReasonInv` says for each
moment what the client may still expect (`Prospects`): an answer in the queue or
under way that it will come to (`Hope`); or no request was handled so far, each was
lost but for the one under way (`Unheard`), or only the last one was (`Late`); or a
session of before is about to be purged (`Blocked`) or was, early enough for
another request and its answer (`Freed`). `Timely` is what the steps between these
need: a request is decided before the next one, and the attempts outlast a purge,
a request and its answer.

### The codec

What a reader finds at a position follows from what was written there, so the
invariant describes the bytes. A byte is named by its message, so `Header(m)`
is in the packet at one place, and from there the fields follow at their offsets
(`HasField`, `IsWrittenAt`); the next message begins where the fields end, or the
packet ends there (`NextIsAt`). Only the last field of a message may be cut, with
the room one byte short (`IsCutAt`): while a message is written, the room left is
at least what its fields from `field` on take (`bytes_from`), less the byte of the
sequence number that `Size()` forgets (`WritingOK`). A message without one has
that room because `Fits` asks for a byte more than `Size()` and its header takes
it, which is `OnlyReliableCut`.

The reader is at the header of the next message, or at the field of a message
whose earlier fields it has as they were written (`IsBetween`, `IsReading`), and has
returned every message before, unchanged (`ReadUpTo`). `WholeFieldIsRead` says
that a whole field is read as written: the first NUL from its start on is its own.
`CutFieldIsRead` says that of a cut one a number is not read, while a string or
octets end one byte behind the buffer, where reading stops. The sum of the
fields' sizes is a constant, `bytes_from`, which `SumOfFields` relates to the
sizes field by field: no induction over a class's fields is needed but that of
`PartOfSize`, which takes the least counterexample.

### Only model-checked

The liveness properties (`Delivery`, `PlacesAreFreed`, `JoinLoopEnds`,
`WorldArrives`, `LaterPlayersKnown`, `StatusConverges`, `SpawnIsSeen`,
`AbandonedSessionEnds`), since the provers here reason about neither fairness nor
`ENABLED`; and `JoinAnnouncement`, whose run is a violation.

## 5. What could follow

- An abstract registry that says what should hold with retries, for `GameServer`
  with `MaxJoins` above one.
- The streams of `JoinGame` and `GameWorld` as refinements of `ReliableChannel`,
  which they follow by construction so far.
- `JoinAnnouncement` with two clients, where the shared message does no harm.

## 6. Not modelled

- Movement and gravity (`Player::Update`), bullets and explosions: floating-point
  geometry that decides nothing else. Nothing calls the tests for collisions, and
  bullets never leave the client that fired them.
- The handlers of `PLAYER_LEAVES`, `OBJECT_UPDATE`, `OBJECT_DESTROY`,
  `TEAM_STATES` and `CHAT_ALL`: the server writes none of these messages. For the
  same reason a purge is not seen by the clients.
- `GameState`'s counts, which `GameState::Update` asks for by the last counts
  instead of team ids and which only `Client::Draw` shows; the chat console and the typing
  buffer, which stay on the client.
- Level loading, graphics, sound, fonts and assets: input and output. AES is
  third-party code that no loop calls; logging and the command line keep no
  state. The rounding of the timers' floating-point seconds.
- `src/include` is third-party code (asio, nlohmann/json), which is nearly all of
  the repository's lines: the programs themselves are the 6900 lines of
  `src/source`, and about a third of these is graphics, sound and input.
- Three clients with the liveness of `join`: too many states to check. Three
  clients are in `JoinAnnouncement`, and in `GameServer` without the messages.
