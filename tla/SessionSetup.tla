---------------------------- MODULE SessionSetup ----------------------------
(***************************************************************************)
(* How a client gets its session: Client::Connect                          *)
(* (src/source/client/client.cpp) against HandleCreateSession and          *)
(* PurgeStaleSessions (src/source/server/server.cpp).                      *)
(*                                                                         *)
(* Time is counted in ticks of 100 ms, the period of WriteUpdates.  The    *)
(* client asks, sleeps for three ticks, takes one packet off its queue and *)
(* asks again, ten times.  The server answers only when the endpoint has   *)
(* no session; a client that is started soon after it quit still has one,  *)
(* and the updates of that session fill its queue.                         *)
(***************************************************************************)
EXTENDS Integers, Sequences

CONSTANTS
    RetryDelay,        \* 3 ticks: SDL_Delay(300)
    MaxAttempts,       \* 10
    MAX_SESSION_AGE,   \* 25 ticks
    PurgePeriod,       \* 10 ticks: the period of cleanup_stale_sessions
    MaxDelay,          \* bound: ticks a packet travels at most
    Ages               \* ages the endpoint's earlier session may have

ASSUME SetupAssumption ==
    /\ RetryDelay \in Nat \ {0}
    /\ MaxAttempts \in Nat \ {0}
    /\ MAX_SESSION_AGE \in Nat
    /\ PurgePeriod \in Nat \ {0}
    /\ MaxDelay \in Nat
    /\ Ages \subseteq Nat

\* Sessions of the client's endpoint: one from before the client was started,
\* or the one its request k made.
None == -2
Before == -1
SessionIds == 0..(MaxAttempts - 1)

VARIABLES
    (* the client *)
    state,         \* "connecting", then "connected" or "exit"
    client_session,
    attempts,
    delay,         \* ticks left of SDL_Delay
    in_queue,      \* packets not looked at, as the session they come from
    (* the network *)
    net,           \* packets under way, and the ticks they travel
    (* the server *)
    session,       \* of the client's endpoint
    playing,       \* has the session from before a player?
    age,           \* ticks since last_active
    purge,         \* ticks until cleanup_stale_sessions fires
    (* history *)
    first_age,     \* age of the session from before at the start, or None
    unanswered,    \* requests that were lost
    answer_lost    \* was an answer lost?

clientVars == <<state, client_session, attempts, delay, in_queue>>
serverVars == <<session, playing, age, purge>>
historyVars == <<first_age, unanswered, answer_lost>>
vars == <<clientVars, net, serverVars, historyVars>>

Request(k) == [type |-> "REQUEST_SESSION", session |-> k, ticks |-> 0]
Answer(k) == [type |-> "PROVIDE_SESSION", session |-> k, ticks |-> 0]

\* A session from before was not stale when the timer fired last.
Earlier(ticks) == {a \in Ages : a - (PurgePeriod - ticks) <= MAX_SESSION_AGE}

\* The client starts, and has sent its first request.
Init ==
    /\ state = "connecting"
    /\ client_session = None
    /\ attempts = 0
    /\ delay = RetryDelay
    /\ in_queue = <<>>
    /\ net = {Request(0)}
    /\ purge \in 1..PurgePeriod
    /\ \/ session = None /\ age = 0 /\ playing = FALSE /\ first_age = None
       \/ session = Before /\ age \in Earlier(purge) /\ playing \in BOOLEAN /\ first_age = age
    /\ unanswered = 0
    /\ answer_lost = FALSE

-----------------------------------------------------------------------------
(* The client *)

\* Mutants, here and below, are the code with a plausible mistake in it: each is
\* what one of the properties tells from the code.

\* Mutant: whatever arrives first is taken for the answer.
FoundAny == in_queue # <<>>

\* Has the packet at the head of the queue the answer?
Found == in_queue # <<>> /\ Head(in_queue) # Before

\* Mutant: one attempt too many.
GivesUpLate(n) == n > MaxAttempts

GivesUp(n) == n = MaxAttempts

\* SDL_Delay ends: one packet is taken off the queue, and another request is
\* sent or the client exits.
Poll ==
    /\ state = "connecting" /\ delay = 0
    /\ in_queue' = IF in_queue = <<>> THEN <<>> ELSE Tail(in_queue)
    /\ IF Found
       THEN /\ state' = "connected"
            /\ client_session' = Head(in_queue)
            /\ UNCHANGED <<attempts, delay, net>>
       ELSE /\ attempts' = attempts + 1
            /\ IF GivesUp(attempts')
               THEN state' = "exit" /\ UNCHANGED <<delay, net>>
               ELSE /\ net' = net \cup {Request(attempts')}
                    /\ delay' = RetryDelay
                    /\ UNCHANGED state
            /\ UNCHANGED client_session
    /\ UNCHANGED <<serverVars, historyVars>>

-----------------------------------------------------------------------------
(* The server *)

\* Mutant: a request that is ignored is activity of the session.
AgeWhenRefusedNew == 0

\* A packet without a session does not touch last_active.
AgeWhenRefused == age

\* HandleCreateSession: a request of an endpoint that has a session is ignored.
HandleCreateSession(m) ==
    /\ m.type = "REQUEST_SESSION"
    /\ IF session # None
       THEN /\ net' = net \ {m}
            /\ age' = AgeWhenRefused
            /\ UNCHANGED session
       ELSE /\ net' = (net \ {m}) \cup {Answer(m.session)}
            /\ age' = 0
            /\ session' = m.session
    /\ UNCHANGED <<clientVars, playing, purge, historyVars>>

\* Mutant: only sessions with a player are looked at.
StalePlaying == age > MAX_SESSION_AGE /\ playing

Stale == age > MAX_SESSION_AGE

\* The cleanup timer fires.
PurgeStaleSessions ==
    /\ purge = 0
    /\ session' = IF session # None /\ Stale THEN None ELSE session
    /\ age' = IF session' = None THEN 0 ELSE age
    /\ purge' = PurgePeriod
    /\ UNCHANGED <<clientVars, net, playing, historyVars>>

-----------------------------------------------------------------------------
(* The network and time *)

\* The answer reaches the client's queue.
Arrive(m) ==
    /\ m.type = "PROVIDE_SESSION"
    /\ in_queue' = IF state = "connecting" THEN Append(in_queue, m.session) ELSE in_queue
    /\ net' = net \ {m}
    /\ UNCHANGED <<state, client_session, attempts, delay, serverVars, historyVars>>

Lose(m) ==
    /\ net' = net \ {m}
    /\ unanswered' = IF m.type = "REQUEST_SESSION" THEN unanswered + 1 ELSE unanswered
    /\ answer_lost' = (answer_lost \/ m.type = "PROVIDE_SESSION")
    /\ UNCHANGED <<clientVars, serverVars, first_age>>

\* WriteUpdates and SendOutboundMessages for a session that has a player: the
\* packet reaches whoever has the endpoint now.
Update ==
    in_queue' = IF session = Before /\ playing /\ state = "connecting"
                THEN Append(in_queue, Before)
                ELSE in_queue

\* What is due happens before another 100 ms pass.
Tick ==
    /\ purge > 0
    /\ state = "connecting" => delay > 0
    /\ \A m \in net : m.ticks < MaxDelay
    /\ Update
    /\ delay' = IF state = "connecting" THEN delay - 1 ELSE delay
    /\ purge' = purge - 1
    /\ age' = IF session # None /\ age <= MAX_SESSION_AGE THEN age + 1 ELSE age
    /\ net' = {[m EXCEPT !.ticks = @ + 1] : m \in net}
    /\ UNCHANGED <<state, client_session, attempts, session, playing, historyVars>>

\* When it is connected the client uses the session: see JoinGame.
Next ==
    /\ state # "connected"
    /\ \/ Poll
       \/ PurgeStaleSessions
       \/ Tick
       \/ \E m \in net : HandleCreateSession(m) \/ Arrive(m) \/ Lose(m)

Spec == Init /\ [][Next]_vars

\* Time passes and both processes run.
FairSpec == Spec /\ WF_vars(Next)

-----------------------------------------------------------------------------
(* Properties *)

Packet == [type : {"REQUEST_SESSION", "PROVIDE_SESSION"},
           session : SessionIds, ticks : 0..MaxDelay]

TypeOK ==
    /\ state \in {"connecting", "connected", "exit"}
    /\ client_session \in SessionIds \cup {None}
    /\ attempts \in 0..MaxAttempts
    /\ delay \in 0..RetryDelay
    /\ in_queue \in Seq(SessionIds \cup {Before})
    /\ net \subseteq Packet
    /\ session \in SessionIds \cup {None, Before}
    /\ playing \in BOOLEAN
    /\ age \in 0..(MAX_SESSION_AGE + 1) \cup Ages
    /\ purge \in 0..PurgePeriod
    /\ first_age \in Ages \cup {None}
    /\ unanswered \in 0..MaxAttempts
    /\ answer_lost \in BOOLEAN

\* The session a client takes is one the server still has for it, and not due to
\* be purged, however long the answer waited behind other packets.
SessionLives ==
    state = "connected" => client_session = session /\ age <= MAX_SESSION_AGE

\* A client exits for a reason: nine requests in ten or an answer were lost, or
\* it was started within MAX_SESSION_AGE of when it quit, or it has a session
\* from before and a request was lost.
ExitHasReason ==
    state = "exit" =>
        \/ answer_lost
        \/ IF first_age = None THEN unanswered >= MaxAttempts - 1
           ELSE unanswered > 0 \/ first_age <= MAX_SESSION_AGE

\* The session that was made for a client that gave up, and the one it had
\* before, are purged at last.
AbandonedSessionEnds == (state = "exit") ~> (session = None)
=============================================================================
