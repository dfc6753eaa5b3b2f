-------------------------- MODULE JoinAnnouncement --------------------------
(***************************************************************************)
(* The announcement of a new player, one object that HandleJoin            *)
(* (src/source/server/server.cpp) writes to the session of every player    *)
(* there is: each SessionMessageManager::Write gives it the next id of its *)
(* own session, and the queues written to before hold the same object.     *)
(*                                                                         *)
(* The sessions of the clients are there, and nothing is lost on the way.  *)
(* Messages of players' actions are left out: every session gets its own.  *)
(***************************************************************************)
EXTENDS Integers, Sequences, FiniteSets, SequencesExt

CONSTANTS
    Sessions,
    Bases           \* how many bases HandleSyncWorld sends

MAX_MESSAGE_SEQUENCE_ID == 10
HalfRange == MAX_MESSAGE_SEQUENCE_ID \div 2

\* The variables of the channel are those of SessionChannel, for the half of a
\* session that goes from the server to its client.
VARIABLES
    (* the server *)
    stage,          \* what the client of a session has asked for so far
    awaited,        \* the message a client waits for before it asks again
    instances,      \* the sessions of the players, by player id
    seq_nr,         \* [messages -> id]; a message is the number of its object
    id_counter,
    out_reliable,   \* queue of messages, newest first
    (* the path and the clients *)
    net,            \* the packet under way to a client, as <<message, id>> pairs
    ack,            \* the id of the acknowledgement under way, or None
    last_seen_id,
    (* history *)
    announced,      \* announcements written to a session
    heard           \* messages handed to a client

serverVars == <<stage, awaited, instances, seq_nr, id_counter, out_reliable>>
clientVars == <<net, ack, last_seen_id, heard>>
vars == <<serverVars, clientVars, announced>>

None == -1

\* No player and no message yet.  id_counter is not initialised in the code:
\* zero is one of the values its memory may have.
Init ==
    /\ stage = [s \in Sessions |-> "session"]
    /\ awaited = [s \in Sessions |-> None]
    /\ instances = <<>>
    /\ seq_nr = <<>>
    /\ id_counter = [s \in Sessions |-> 0]
    /\ out_reliable = [s \in Sessions |-> <<>>]
    /\ net = [s \in Sessions |-> <<>>]
    /\ ack = [s \in Sessions |-> None]
    /\ last_seen_id = [s \in Sessions |-> 255]
    /\ announced = [s \in Sessions |-> {}]
    /\ heard = [s \in Sessions |-> {}]

Plus(id, n) == (id + n) % MAX_MESSAGE_SEQUENCE_ID

\* The n messages after the first k ones, newest first.
New(k, n) == Reverse([j \in 1..n |-> k + j])

\* n messages for s that no other session has.
WriteOwn(s, n) ==
    /\ out_reliable' = [out_reliable EXCEPT ![s] = New(Len(seq_nr), n) \o @]
    /\ seq_nr' = seq_nr \o [k \in 1..n |-> Plus(id_counter[s], k - 1)]
    /\ id_counter' = [id_counter EXCEPT ![s] = Plus(@, n)]
    /\ UNCHANGED announced

\* The request a client makes next, when it has what it waits for: the first
\* message the server writes now.  It acknowledges in the same packet.
Requests(s, from, to) ==
    /\ stage[s] = from /\ ack[s] = None
    /\ awaited[s] \in heard[s] \cup {None}
    /\ stage' = [stage EXCEPT ![s] = to]
    /\ awaited' = [awaited EXCEPT ![s] = Len(seq_nr) + 1]

HandleInfo(s) ==
    /\ Requests(s, "session", "informed")
    /\ WriteOwn(s, 1)
    /\ UNCHANGED <<instances, clientVars>>

\* The new player gets its own messages; the announcement is written to every
\* other player's session and keeps the id the last of them gave it.
HandleJoin(s) ==
    /\ Requests(s, "informed", "playing")
    /\ instances' = Append(instances, s)
    /\ LET own == 1 + Len(instances)
           new_join_event == Len(seq_nr) + own + 1
           ids == [k \in 1..own |-> Plus(id_counter[s], k - 1)]
       IN  IF instances = <<>>
           THEN WriteOwn(s, own)
           ELSE /\ seq_nr' = seq_nr \o Append(ids, id_counter[Last(instances)])
                /\ out_reliable' = [r \in Sessions |->
                      IF r = s THEN New(Len(seq_nr), own) \o out_reliable[r]
                      ELSE IF r \in ToSet(instances) THEN <<new_join_event>> \o out_reliable[r]
                      ELSE out_reliable[r]]
                /\ id_counter' = [r \in Sessions |->
                      IF r = s THEN Plus(id_counter[r], own)
                      ELSE IF r \in ToSet(instances) THEN Plus(id_counter[r], 1)
                      ELSE id_counter[r]]
                /\ announced' = [r \in Sessions |->
                      announced[r] \cup {m \in {new_join_event} : r \in ToSet(instances)}]
    /\ UNCHANGED clientVars

HandleSyncWorld(s) ==
    /\ Requests(s, "playing", "synced")
    /\ WriteOwn(s, Bases)
    /\ UNCHANGED <<instances, clientVars>>

\* A packet carries the ids its messages have when it is crafted.
CraftSendPacket(s) ==
    /\ out_reliable[s] # <<>> /\ net[s] = <<>> /\ ack[s] = None
    /\ net' = [net EXCEPT ![s] = [k \in 1..Len(out_reliable[s]) |->
                  <<out_reliable[s][k], seq_nr[out_reliable[s][k]]>>]]
    /\ UNCHANGED <<serverVars, ack, last_seen_id, heard, announced>>

\* The client's HandleReceivedPacket: the first message accepted is the one
\* recorded and acknowledged.
HandleReceivedPacket(s) ==
    /\ net[s] # <<>>
    /\ LET fresh == SelectSeq(net[s], LAMBDA m :
                        (m[2] - last_seen_id[s]) % MAX_MESSAGE_SEQUENCE_ID \in 1..HalfRange)
       IN  IF fresh = <<>>
           THEN UNCHANGED <<ack, last_seen_id, heard>>
           ELSE /\ ack' = [ack EXCEPT ![s] = Head(fresh)[2]]
                /\ last_seen_id' = [last_seen_id EXCEPT ![s] = Head(fresh)[2]]
                /\ heard' = [heard EXCEPT ![s] = @ \cup {m[1] : m \in ToSet(fresh)}]
    /\ net' = [net EXCEPT ![s] = <<>>]
    /\ UNCHANGED <<serverVars, announced>>

ProcessAck(s) ==
    /\ ack[s] # None
    /\ out_reliable' = [out_reliable EXCEPT ![s] = SelectSeq(@, LAMBDA m :
                          ~ ((ack[s] - seq_nr[m]) % MAX_MESSAGE_SEQUENCE_ID < HalfRange))]
    /\ ack' = [ack EXCEPT ![s] = None]
    /\ UNCHANGED <<stage, awaited, instances, seq_nr, id_counter, net, last_seen_id, heard, announced>>

Next ==
    \E s \in Sessions :
        \/ HandleInfo(s) \/ HandleJoin(s) \/ HandleSyncWorld(s)
        \/ CraftSendPacket(s) \/ HandleReceivedPacket(s) \/ ProcessAck(s)

Spec == Init /\ [][Next]_vars

-----------------------------------------------------------------------------
(* Properties *)

\* Every player hears of a new one: its announcement is kept for each of them
\* until it was handed over (HandleJoin, "Notify all players").
AllPlayersNotified ==
    \A s \in Sessions : announced[s] \subseteq heard[s] \cup ToSet(out_reliable[s])
=============================================================================
