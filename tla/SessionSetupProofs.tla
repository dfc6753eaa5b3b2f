------------------------- MODULE SessionSetupProofs -------------------------
(***************************************************************************)
(* Proofs about SessionSetup: its types, that a session a client obtains   *)
(* is alive, and that a client gives up for a reason.                      *)
(***************************************************************************)
EXTENDS SessionSetup, FiniteSets, FiniteSetTheorems, TLAPS

\* The ticks n attempts take, and since the client's start.
Ticks(n) == n * RetryDelay
Elapsed == Ticks(attempts) + (RetryDelay - delay)

Requests == {m \in net : m.type = "REQUEST_SESSION"}
Answers == {m \in net : m.type = "PROVIDE_SESSION"}

Made == session \in SessionIds

-----------------------------------------------------------------------------
(* The invariants *)

\* Requests the client has sent, and those of them that are under way.
Sent == IF state = "exit" THEN attempts ELSE attempts + 1
Pending == {m.session : m \in Requests}

\* Each request is under way once, was lost or was handled.
RequestsCounted ==
    /\ state # "exit" => attempts < MaxAttempts
    /\ \A m \in Requests : m.session < Sent
    /\ \A m, n \in Requests : m.session = n.session => m = n
    /\ unanswered + Cardinality(Pending) <= Sent

TypeInv == TypeOK /\ RequestsCounted

\* By how much the client's patience exceeds the life of a silent session.
Surplus == Ticks(MaxAttempts) - MAX_SESSION_AGE

\* A client that waits longer than a session lives gets an answer to an early
\* request soon: the packets that may be before it in the queue are few.
PeriodsFit ==
    /\ MaxDelay <= MAX_SESSION_AGE
    /\ MaxDelay + Ticks(Surplus) <= MAX_SESSION_AGE

\* When the session was made, on the client's clock.
Born == Elapsed - age

\* An answer under way is of the session there is, and as old.
AnswersYoung == \A m \in Answers : m.session = session /\ m.ticks = age

\* Before the answer to an early request there are no more packets in the queue
\* than ticks passed.
QueueShort ==
    /\ Made => age <= Elapsed
    /\ ~ Made /\ Elapsed < Surplus => Len(in_queue) <= Elapsed
    /\ Answers # {} /\ Born < Surplus => Len(in_queue) <= Born

\* Is there an answer at place i of the queue that the client will come to?
Findable(i) == in_queue[i] # Before /\ attempts + i <= MaxAttempts

\* Such an answer names the session there is, which is young when it is found.
FoundInTime ==
    \A i \in 1..Len(in_queue) : Findable(i) =>
        in_queue[i] = session /\ age + delay + Ticks(i - 1) <= MAX_SESSION_AGE

LivesInv ==
    /\ AnswersYoung
    /\ state = "connecting" => QueueShort /\ FoundInTime
    /\ SessionLives

\* A packet travels for less than an attempt; a session that is too old when the
\* client starts is purged early enough for a request and an answer, and what it
\* left in the queue leaves an attempt for the answer.
Timely ==
    /\ MaxDelay < RetryDelay
    /\ PurgePeriod <= MaxAttempts
    /\ PurgePeriod - 1 + RetryDelay + 2 * MaxDelay < Ticks(MaxAttempts)

LastRequest == [type |-> "REQUEST_SESSION", session |-> attempts, ticks |-> RetryDelay - delay]

\* The client will come to an answer, or one will be in the queue in time.
Hope ==
    /\ session # Before
    /\ \/ \E i \in 1..Len(in_queue) : Findable(i)
       \/ /\ \E m \in Answers : Elapsed + (MaxDelay - m.ticks) < Ticks(MaxAttempts)
          /\ Len(in_queue) > 0 => attempts + Len(in_queue) + 1 <= MaxAttempts

\* No request was handled.
Unheard ==
    /\ session = None
    /\ in_queue = <<>>
    /\ Answers = {}
    /\ unanswered = IF Requests = {} THEN attempts + 1 ELSE attempts

\* Only the last request was handled.
Late == attempts = MaxAttempts - 1 /\ unanswered >= MaxAttempts - 1

\* The session from before is there until the cleanup timer fires first.
Blocked ==
    /\ session = Before
    /\ age > MAX_SESSION_AGE
    /\ Answers = {}
    /\ Elapsed + purge <= PurgePeriod - 1
    /\ Len(in_queue) > 0 => attempts + Len(in_queue) <= Elapsed

\* It is gone, and no request was handled since.
Freed ==
    /\ session = None
    /\ Answers = {}
    /\ Ticks(attempts) <= PurgePeriod - 1 + (IF Requests = {} THEN 0 ELSE RetryDelay)
    /\ Len(in_queue) > 0 => attempts + Len(in_queue) <= PurgePeriod - 1

\* A client that asks will find an answer, or has a reason to give up.
Prospects ==
    ~ answer_lost =>
        IF first_age = None THEN Hope \/ Unheard \/ Late
        ELSE unanswered = 0 /\ first_age > MAX_SESSION_AGE => Hope \/ Blocked \/ Freed

ReasonInv ==
    /\ state = "connecting" => Requests \subseteq {LastRequest} /\ Prospects
    /\ ExitHasReason

-----------------------------------------------------------------------------
(* Time *)

LEMMA Constants ==
    /\ RetryDelay \in Nat \ {0} /\ MaxAttempts \in Nat \ {0}
    /\ MAX_SESSION_AGE \in Nat /\ PurgePeriod \in Nat \ {0} /\ MaxDelay \in Nat
    /\ Ages \subseteq Nat
BY SetupAssumption

\* An attempt more is RetryDelay ticks more.
LEMMA TicksAdd ==
    ASSUME NEW n \in Int
    PROVE  /\ Ticks(n) \in Int
           /\ Ticks(n + 1) = Ticks(n) + RetryDelay
           /\ Ticks(n - 1) = Ticks(n) - RetryDelay
           /\ Ticks(0) = 0
<1>1. RetryDelay \in Int
    BY Constants
<1> QED
    BY <1>1 DEF Ticks

\* More attempts are more ticks.
LEMMA TicksGrow ==
    ASSUME NEW m \in Int, NEW n \in Int, m <= n
    PROVE  Ticks(m) <= Ticks(n) /\ n - m <= Ticks(n) - Ticks(m)
<1>1. RetryDelay \in Int /\ RetryDelay >= 1
    BY Constants
<1>2. n - m \in Int /\ 0 <= n - m
    OBVIOUS
<1>3. \A d \in Int : 0 <= d => d <= d * RetryDelay
    BY <1>1
<1>4. n - m <= (n - m) * RetryDelay
    BY <1>2, <1>3
<1>5. (n - m) * RetryDelay = n * RetryDelay - m * RetryDelay
    BY <1>1
<1>6. n * RetryDelay \in Int /\ m * RetryDelay \in Int
    BY <1>1
<1> QED
    BY <1>2, <1>4, <1>5, <1>6 DEF Ticks

LEMMA TicksOfAttempts ==
    ASSUME NEW n \in Nat
    PROVE  Ticks(n) \in Nat /\ n <= Ticks(n)
<1>1. n \in Int /\ 0 \in Int /\ 0 <= n
    OBVIOUS
<1> QED
    BY <1>1, TicksAdd, TicksGrow

-----------------------------------------------------------------------------
(* Types *)

\* A packet is one of the two kinds, and one tick later the same packet.
LEMMA Later ==
    ASSUME NEW m \in Packet
    PROVE  LET n == [m EXCEPT !.ticks = @ + 1]
           IN  /\ n.type = m.type /\ n.session = m.session /\ n.ticks = m.ticks + 1
               /\ m.ticks < MaxDelay => n \in Packet
               /\ m.ticks \in 0..MaxDelay
BY Constants DEF Packet

LEMMA PacketIsItsFields ==
    ASSUME NEW m \in Packet
    PROVE  m = [type |-> m.type, session |-> m.session, ticks |-> m.ticks]
BY DEF Packet

LEMMA NewPackets ==
    ASSUME NEW k \in SessionIds
    PROVE  /\ Request(k) \in Packet /\ Request(k).type = "REQUEST_SESSION"
           /\ Request(k).session = k /\ Request(k).ticks = 0
           /\ Answer(k) \in Packet /\ Answer(k).type = "PROVIDE_SESSION"
           /\ Answer(k).session = k /\ Answer(k).ticks = 0
BY Constants DEF Packet, Request, Answer

LEMMA SessionNumbers ==
    /\ SessionIds \subseteq Nat
    /\ None \notin SessionIds /\ Before \notin SessionIds /\ None # Before
BY Constants DEF SessionIds, None, Before

\* The requests under way are finitely many.
LEMMA PendingIsFinite ==
    ASSUME TypeInv
    PROVE  /\ IsFiniteSet(Pending) /\ Cardinality(Pending) \in Nat
           /\ Sent \in 0..MaxAttempts
<1>1. Sent \in 0..MaxAttempts
    BY Constants DEF TypeInv, TypeOK, RequestsCounted, Sent
<1>2. \A m \in Requests : m.session \in 0..Sent
    BY <1>1 DEF TypeInv, TypeOK, RequestsCounted, Requests, Packet, SessionIds
<1>3. Pending \subseteq 0..Sent
    BY <1>2 DEF Pending
<1>4. IsFiniteSet(0..Sent)
    BY <1>1, FS_Interval
<1> QED
    BY <1>1, <1>3, <1>4, FS_Subset, FS_CardinalityType

LEMMA TypeInit == Init => TypeInv
<1> SUFFICES ASSUME Init
             PROVE  TypeInv
    OBVIOUS
<1>1. 0 \in SessionIds
    BY Constants DEF SessionIds
<1>2. net = {Request(0)} /\ Request(0) \in Packet
    BY <1>1, NewPackets DEF Init
<1>3. /\ age \in {0} \cup Ages /\ first_age \in Ages \cup {None}
      /\ session \in {None, Before} /\ playing \in BOOLEAN
    <2>1. Earlier(purge) \subseteq Ages
        BY DEF Earlier
    <2>2. CASE session = None /\ age = 0 /\ playing = FALSE /\ first_age = None
        BY <2>2
    <2>3. CASE session = Before /\ age \in Earlier(purge) /\ playing \in BOOLEAN /\ first_age = age
        BY <2>1, <2>3
    <2> QED
        BY <2>2, <2>3 DEF Init
<1>4. TypeOK
    <2>1. age \in 0..(MAX_SESSION_AGE + 1) \cup Ages
        BY <1>3, Constants
    <2>2. /\ state = "connecting" /\ client_session = None /\ attempts = 0 /\ delay = RetryDelay
          /\ in_queue = <<>> /\ purge \in 1..PurgePeriod /\ unanswered = 0
        BY DEF Init
    <2>3. answer_lost \in BOOLEAN
        BY Zenon DEF Init
    <2>4. attempts \in 0..MaxAttempts /\ delay \in 0..RetryDelay /\ purge \in 0..PurgePeriod
          /\ unanswered \in 0..MaxAttempts
        BY <2>2, Constants
    <2>5. in_queue \in Seq(SessionIds \cup {Before})
        BY <2>2
    <2> QED
        BY <1>2, <1>3, <2>1, <2>2, <2>3, <2>4, <2>5, Zenon DEF TypeOK
<1>5. Requests = {Request(0)} /\ Pending = {0}
    BY <1>1, <1>2, NewPackets DEF Requests, Pending
<1>6. Cardinality(Pending) = 1
    BY <1>5, FS_Singleton
<1>7. Sent = 1 /\ unanswered = 0 /\ attempts = 0
    BY DEF Init, Sent
<1>8. Request(0).session = 0
    BY <1>1, NewPackets
<1> QED
    BY <1>4, <1>5, <1>6, <1>7, <1>8, Constants DEF TypeInv, RequestsCounted

\* What keeps the count: no request comes back, and one that is lost is gone.
LEMMA RequestsKept ==
    ASSUME TypeInv, TypeOK', net' \subseteq Packet,
           UNCHANGED <<state, attempts>>,
           \A m \in net' : m.type = "REQUEST_SESSION" => m \in net,
           \/ unanswered' = unanswered
           \/ /\ unanswered' = unanswered + 1
              /\ \E m \in net : m.type = "REQUEST_SESSION" /\ m \notin net'
    PROVE  TypeInv'
<1>1. IsFiniteSet(Pending) /\ Cardinality(Pending) \in Nat /\ Sent \in Nat /\ Sent' = Sent
    BY PendingIsFinite DEF Sent
<1>2. Requests' \subseteq Requests /\ Pending' \subseteq Pending
    BY DEF Requests, Pending
<1>3. unanswered \in Nat /\ unanswered' \in Nat
    BY DEF TypeInv, TypeOK
<1>4. IsFiniteSet(Pending') /\ Cardinality(Pending') \in Nat
    BY <1>1, <1>2, FS_Subset, FS_CardinalityType
<1>5. unanswered' + Cardinality(Pending') <= Sent
    <2>1. CASE unanswered' = unanswered
        <3>1. Cardinality(Pending') <= Cardinality(Pending)
            BY <1>1, <1>2, FS_Subset
        <3> QED
            BY <3>1, <2>1, <1>1, <1>3, <1>4 DEF TypeInv, RequestsCounted
    <2>2. CASE /\ unanswered' = unanswered + 1
               /\ \E m \in net : m.type = "REQUEST_SESSION" /\ m \notin net'
        <3>1. PICK m \in net : m.type = "REQUEST_SESSION" /\ m \notin net'
            BY <2>2
        <3>2. m \in Requests /\ m.session \in Pending
            BY <3>1 DEF Requests, Pending
        <3>3. m.session \notin Pending'
            <4> SUFFICES ASSUME NEW n \in Requests', n.session = m.session
                         PROVE  FALSE
                BY DEF Pending
            <4>1. n = m
                BY <1>2, <3>2 DEF TypeInv, RequestsCounted
            <4> QED
                BY <4>1, <3>1 DEF Requests
        <3>4. Pending' \subseteq Pending \ {m.session}
            BY <1>2, <3>3
        <3>5. /\ IsFiniteSet(Pending \ {m.session})
              /\ Cardinality(Pending \ {m.session}) = Cardinality(Pending) - 1
            BY <1>1, <3>2, FS_RemoveElement
        <3>6. Cardinality(Pending') <= Cardinality(Pending) - 1
            BY <3>4, <3>5, FS_Subset
        <3> QED
            BY <3>6, <2>2, <1>1, <1>3, <1>4 DEF TypeInv, RequestsCounted
    <2> QED
        BY <2>1, <2>2
<1> QED
    BY <1>1, <1>2, <1>5 DEF TypeInv, RequestsCounted

LEMMA TypePoll == TypeInv /\ Poll => TypeInv'
<1> SUFFICES ASSUME TypeInv, Poll
             PROVE  TypeInv'
    OBVIOUS
<1>1. /\ state = "connecting" /\ attempts \in Nat /\ attempts + 1 <= MaxAttempts
      /\ Sent = attempts + 1 /\ MaxAttempts \in Nat
    BY Constants DEF Poll, TypeInv, TypeOK, RequestsCounted, Sent
<1>2. in_queue' \in Seq(SessionIds \cup {Before})
    BY DEF Poll, TypeInv, TypeOK
<1>3. IsFiniteSet(Pending) /\ Cardinality(Pending) \in Nat
    BY PendingIsFinite
<1>4. CASE Found
    <2>1. /\ Head(in_queue) \in SessionIds
          /\ state' = "connected" /\ client_session' = Head(in_queue)
          /\ UNCHANGED <<attempts, delay, net, serverVars, historyVars>>
        BY <1>4 DEF Poll, Found, TypeInv, TypeOK
    <2>2. TypeOK'
        BY <2>1, <1>2 DEF TypeInv, TypeOK, serverVars, historyVars
    <2> QED
        BY <2>1, <2>2, <1>1 DEF TypeInv, RequestsCounted, Requests, Pending, Sent, historyVars
<1>5. CASE ~ Found /\ attempts' = MaxAttempts
    <2>1. /\ attempts' = attempts + 1 /\ state' = "exit"
          /\ UNCHANGED <<client_session, delay, net, serverVars, historyVars>>
        BY <1>5 DEF Poll, GivesUp
    <2>2. TypeOK'
        BY <2>1, <1>1, <1>2 DEF TypeInv, TypeOK, serverVars, historyVars
    <2> QED
        BY <2>1, <2>2, <1>1 DEF TypeInv, RequestsCounted, Requests, Pending, Sent, historyVars
<1>6. CASE ~ Found /\ attempts' # MaxAttempts
    <2> DEFINE r == Request(attempts + 1)
    <2>1. /\ attempts' = attempts + 1 /\ net' = net \cup {r} /\ delay' = RetryDelay
          /\ UNCHANGED <<state, client_session, serverVars, historyVars>>
        BY <1>6 DEF Poll, GivesUp
    <2>2. attempts + 1 \in SessionIds /\ attempts + 1 < MaxAttempts
        BY <2>1, <1>1, <1>6 DEF SessionIds
    <2>3. r \in Packet /\ r.type = "REQUEST_SESSION" /\ r.session = attempts + 1
        BY <2>2, NewPackets
    <2> HIDE DEF r
    <2>4. TypeOK'
        BY <2>1, <2>3, <1>1, <1>2, Constants DEF TypeInv, TypeOK, serverVars, historyVars
    <2>5. Requests' = Requests \cup {r} /\ Pending' = Pending \cup {attempts + 1}
        BY <2>1, <2>3 DEF Requests, Pending
    <2>6. Sent' = attempts + 2
        BY <2>1, <1>1 DEF Sent
    <2>7. \A m \in Requests : m.session \in Nat /\ m.session < attempts + 1
        BY <1>1, SessionNumbers DEF TypeInv, TypeOK, RequestsCounted, Requests, Packet
    <2>8. attempts + 1 \notin Pending
        BY <2>7, <1>1 DEF Pending
    <2>9. Cardinality(Pending') = Cardinality(Pending) + 1
        BY <2>5, <2>8, <1>3, FS_AddElement
    <2>10. unanswered' + Cardinality(Pending') <= Sent'
        BY <2>1, <2>6, <2>9, <1>1, <1>3 DEF TypeInv, TypeOK, RequestsCounted, historyVars
    <2>11. \A m \in Requests' : m.session < Sent'
        BY <2>3, <2>5, <2>6, <2>7, <1>1
    <2>12. \A m, n \in Requests' : m.session = n.session => m = n
        BY <2>3, <2>5, <2>7, <1>1 DEF TypeInv, RequestsCounted
    <2> QED
        BY <2>1, <2>2, <2>4, <2>10, <2>11, <2>12 DEF TypeInv, RequestsCounted
<1> QED
    BY <1>4, <1>5, <1>6

LEMMA TypeCreate ==
    ASSUME TypeInv, NEW m \in net, HandleCreateSession(m)
    PROVE  TypeInv'
<1>1. /\ m \in Packet /\ m.session \in SessionIds /\ m.type = "REQUEST_SESSION"
      /\ Answer(m.session) \in Packet /\ Answer(m.session).type = "PROVIDE_SESSION"
    BY NewPackets DEF TypeInv, TypeOK, HandleCreateSession, Packet
<1>2. /\ net' \subseteq (net \ {m}) \cup {Answer(m.session)}
      /\ age' \in {age, 0} /\ session' \in {session, m.session}
      /\ UNCHANGED <<clientVars, playing, purge, historyVars>>
    BY DEF HandleCreateSession, AgeWhenRefused
<1>3. net' \subseteq Packet
    BY <1>1, <1>2 DEF TypeInv, TypeOK
<1>4. TypeOK'
    BY <1>1, <1>2, <1>3, Constants DEF TypeInv, TypeOK, clientVars, historyVars
<1>5. \A n \in net' : n.type = "REQUEST_SESSION" => n \in net
    BY <1>1, <1>2
<1> QED
    BY <1>2, <1>3, <1>4, <1>5, RequestsKept DEF clientVars, historyVars

LEMMA TypePurge == TypeInv /\ PurgeStaleSessions => TypeInv'
<1> SUFFICES ASSUME TypeInv, PurgeStaleSessions
             PROVE  TypeInv'
    OBVIOUS
<1>1. /\ session' \in {session, None} /\ age' \in {age, 0} /\ purge' = PurgePeriod
      /\ UNCHANGED <<clientVars, net, playing, historyVars>>
    BY DEF PurgeStaleSessions
<1>2. TypeOK'
    BY <1>1, Constants DEF TypeInv, TypeOK, clientVars, historyVars
<1> QED
    BY <1>1, <1>2, RequestsKept DEF TypeInv, TypeOK, clientVars, historyVars

LEMMA TypeArrive ==
    ASSUME TypeInv, NEW m \in net, Arrive(m)
    PROVE  TypeInv'
<1>1. m.session \in SessionIds /\ net' = net \ {m}
    BY DEF TypeInv, TypeOK, Arrive, Packet
<1>2. in_queue' \in Seq(SessionIds \cup {Before})
    BY <1>1 DEF TypeInv, TypeOK, Arrive
<1>3. TypeOK'
    BY <1>1, <1>2 DEF TypeInv, TypeOK, Arrive, serverVars, historyVars
<1> QED
    BY <1>1, <1>3, RequestsKept DEF TypeInv, TypeOK, Arrive, historyVars

LEMMA TypeLose ==
    ASSUME TypeInv, NEW m \in net, Lose(m)
    PROVE  TypeInv'
<1>1. /\ net' = net \ {m}
      /\ unanswered' = IF m.type = "REQUEST_SESSION" THEN unanswered + 1 ELSE unanswered
      /\ UNCHANGED <<clientVars, serverVars, first_age>>
    BY DEF Lose
<1>2. answer_lost' \in BOOLEAN
    BY Zenon DEF Lose
<1>3. unanswered' \in 0..MaxAttempts
    <2>1. CASE m.type # "REQUEST_SESSION"
        BY <2>1, <1>1 DEF TypeInv, TypeOK
    <2>2. CASE m.type = "REQUEST_SESSION"
        <3>1. m.session \in Pending
            BY <2>2 DEF Pending, Requests
        <3>2. IsFiniteSet(Pending) /\ Cardinality(Pending) \in Nat /\ Sent \in 0..MaxAttempts
            BY PendingIsFinite
        <3>3. Cardinality(Pending) # 0
            BY <3>1, <3>2, FS_EmptySet
        <3> QED
            BY <2>2, <3>2, <3>3, <1>1, Constants DEF TypeInv, TypeOK, RequestsCounted
    <2> QED
        BY <2>1, <2>2
<1>4. TypeOK'
    BY <1>1, <1>2, <1>3 DEF TypeInv, TypeOK, clientVars, serverVars
<1>5. net' \subseteq Packet
    BY <1>4 DEF TypeOK
<1>6. unanswered' = unanswered \/ (unanswered' = unanswered + 1 /\ m.type = "REQUEST_SESSION")
    BY <1>1
<1> QED
    BY <1>1, <1>4, <1>5, <1>6, RequestsKept DEF clientVars

LEMMA TypeTick == TypeInv /\ Tick => TypeInv'
<1> SUFFICES ASSUME TypeInv, Tick
             PROVE  TypeInv'
    OBVIOUS
<1> DEFINE Aged(m) == [m EXCEPT !.ticks = @ + 1]
<1>1. net' = {Aged(m) : m \in net}
    BY DEF Tick
<1>2. \A m \in net : /\ Aged(m) \in Packet /\ Aged(m).type = m.type /\ Aged(m).session = m.session
    BY Later DEF Tick, TypeInv, TypeOK
<1> HIDE DEF Aged
<1>3. in_queue' \in Seq(SessionIds \cup {Before})
    BY DEF Tick, Update, TypeInv, TypeOK
<1>4. purge' \in 0..PurgePeriod /\ delay' \in 0..RetryDelay
    BY Constants DEF Tick, TypeInv, TypeOK
<1>5. age' \in 0..(MAX_SESSION_AGE + 1) \cup Ages
    BY Constants DEF Tick, TypeInv, TypeOK
<1>6. UNCHANGED <<state, client_session, attempts, session, playing, historyVars>>
    BY DEF Tick
<1>7. TypeOK'
    BY <1>1, <1>2, <1>3, <1>4, <1>5, <1>6 DEF TypeInv, TypeOK, historyVars
<1>8. Requests' = {Aged(m) : m \in Requests}
    BY <1>1, <1>2 DEF Requests
<1>9. Requests \subseteq net
    BY DEF Requests
<1>10. Pending' = Pending /\ Sent' = Sent
    BY <1>2, <1>6, <1>8, <1>9 DEF Pending, Sent
<1>11. \A m \in Requests' : m.session < Sent'
    BY <1>2, <1>8, <1>9, <1>10 DEF TypeInv, RequestsCounted
<1>12. \A m, n \in Requests' : m.session = n.session => m = n
    BY <1>2, <1>8, <1>9 DEF TypeInv, RequestsCounted
<1> QED
    BY <1>6, <1>7, <1>10, <1>11, <1>12 DEF TypeInv, RequestsCounted, historyVars

LEMMA TypeStutter == TypeInv /\ UNCHANGED vars => TypeInv'
BY DEF vars, clientVars, serverVars, historyVars, TypeInv, TypeOK, RequestsCounted, Requests,
       Pending, Sent

LEMMA SpecTypeInv == Spec => []TypeInv
<1>1. TypeInv /\ [Next]_vars => TypeInv'
    BY TypePoll, TypeCreate, TypePurge, TypeArrive, TypeLose, TypeTick, TypeStutter DEF Next
<1> QED
    BY <1>1, TypeInit, PTL DEF Spec

\* Every variable of the handshake keeps its type, whatever the periods are; in
\* particular no more requests are lost than were sent.
THEOREM TypeCorrect == Spec => []TypeOK
<1>1. TypeInv => TypeOK
    BY DEF TypeInv
<1> QED
    BY <1>1, SpecTypeInv, PTL

-----------------------------------------------------------------------------
(* The session a client obtains *)

\* The clock of a client that asks, and how the bound on its patience relates to
\* the life of a session.
LEMMA Clock ==
    ASSUME TypeInv
    PROVE  /\ Elapsed \in Nat /\ Surplus \in Int /\ Ticks(Surplus) \in Int
           /\ attempts \in Nat /\ delay \in Nat /\ Ticks(attempts) \in Nat
           /\ Ticks(attempts + 1) = Ticks(attempts) + RetryDelay
           /\ Len(in_queue) \in Nat /\ age \in Nat
           /\ state = "connecting" => Ticks(attempts + 1) <= Ticks(MaxAttempts)
<1>1. attempts \in Nat /\ delay \in 0..RetryDelay /\ MaxAttempts \in Nat
    BY Constants DEF TypeInv, TypeOK
<1>2. /\ Ticks(attempts) \in Nat /\ Ticks(MaxAttempts) \in Nat
      /\ Ticks(attempts + 1) = Ticks(attempts) + RetryDelay
    BY <1>1, TicksAdd, TicksOfAttempts
<1>3. Surplus \in Int
    BY <1>2, Constants DEF Surplus
<1>4. Ticks(Surplus) \in Int
    BY <1>3, TicksAdd
<1>5. age \in Nat /\ Len(in_queue) \in Nat
    BY Constants DEF TypeInv, TypeOK
<1>6. ASSUME state = "connecting" PROVE Ticks(attempts + 1) <= Ticks(MaxAttempts)
    <2>1. attempts + 1 <= MaxAttempts
        BY <1>1, <1>6 DEF TypeInv, RequestsCounted
    <2> QED
        BY <2>1, <1>1, TicksGrow
<1> QED
    BY <1>1, <1>2, <1>3, <1>4, <1>5, <1>6, Constants DEF Elapsed

\* An early session is made before the client has waited as long as a session
\* lives.
LEMMA SurplusIsSmall ==
    ASSUME PeriodsFit
    PROVE  Surplus <= MAX_SESSION_AGE
<1>1. Surplus \in Int /\ Ticks(MaxAttempts) \in Nat
    BY Constants, TicksOfAttempts DEF Surplus
<1>2. CASE Surplus <= 0
    BY <1>1, <1>2, Constants
<1>3. CASE Surplus >= 0
    <2>1. Surplus <= Ticks(Surplus) /\ Ticks(Surplus) \in Nat
        BY <1>1, <1>3, TicksOfAttempts
    <2> QED
        BY <2>1, <1>1, Constants DEF PeriodsFit
<1> QED
    BY <1>1, <1>2, <1>3

LEMMA LivesInit == Init => LivesInv
<1> SUFFICES ASSUME Init
             PROVE  LivesInv
    OBVIOUS
<1>1. 0 \in SessionIds
    BY Constants DEF SessionIds
<1>2. Answers = {}
    BY <1>1, NewPackets DEF Init, Answers
<1>3. ~ Made /\ in_queue = <<>> /\ state = "connecting" /\ attempts = 0 /\ delay = RetryDelay
    BY SessionNumbers DEF Init, Made
<1>4. Elapsed \in Nat
    BY <1>3, Constants, TicksAdd DEF Elapsed
<1> QED
    BY <1>2, <1>3, <1>4 DEF LivesInv, AnswersYoung, QueueShort, FoundInTime, SessionLives

LEMMA LivesPoll ==
    ASSUME TypeInv, TypeInv', PeriodsFit, LivesInv, Poll
    PROVE  LivesInv'
<1>1. /\ state = "connecting" /\ delay = 0 /\ QueueShort /\ FoundInTime
      /\ UNCHANGED <<session, age>>
    BY DEF Poll, LivesInv, serverVars
<1>2. AnswersYoung'
    <2>1. net' \subseteq net \cup {Request(attempts')}
        BY DEF Poll
    <2>2. Request(attempts').type = "REQUEST_SESSION"
        BY DEF Request
    <2> QED
        BY <2>1, <2>2, <1>1 DEF LivesInv, AnswersYoung, Answers
<1>3. CASE Found
    <2>1. /\ state' = "connected" /\ client_session' = Head(in_queue)
          /\ in_queue # <<>> /\ Head(in_queue) # Before
        BY <1>3 DEF Poll, Found
    <2>2. 1 \in 1..Len(in_queue) /\ Head(in_queue) = in_queue[1]
        BY <2>1 DEF TypeInv, TypeOK
    <2>3. attempts + 1 <= MaxAttempts
        BY <1>1, Constants DEF TypeInv, TypeOK, RequestsCounted
    <2>4. in_queue[1] = session /\ age + delay + Ticks(0) <= MAX_SESSION_AGE
        BY <1>1, <2>1, <2>2, <2>3 DEF FoundInTime, Findable
    <2>5. age <= MAX_SESSION_AGE
        BY <2>4, <1>1, Clock, TicksAdd
    <2> QED
        BY <2>1, <2>2, <2>4, <2>5, <1>1, <1>2 DEF LivesInv, SessionLives
<1>4. CASE ~ Found /\ attempts' = MaxAttempts
    <2>1. state' = "exit"
        BY <1>4 DEF Poll, GivesUp
    <2> QED
        BY <2>1, <1>2 DEF LivesInv, SessionLives
<1>5. CASE ~ Found /\ attempts' # MaxAttempts
    <2>1. /\ attempts' = attempts + 1 /\ delay' = RetryDelay /\ state' = "connecting"
          /\ net' = net \cup {Request(attempts')}
          /\ in_queue' = IF in_queue = <<>> THEN <<>> ELSE Tail(in_queue)
        BY <1>1, <1>5 DEF Poll, GivesUp
    <2>2. Elapsed' = Elapsed /\ Born' = Born
        BY <2>1, <1>1, Clock, Constants DEF Elapsed, Born
    <2>3. Answers' = Answers /\ (Made' <=> Made)
        BY <2>1, <1>1 DEF Answers, Made, Request
    <2>4. Len(in_queue') <= Len(in_queue) /\ Len(in_queue') \in Nat
        BY <2>1 DEF TypeInv, TypeOK
    <2>5. QueueShort'
        BY <1>1, <2>2, <2>3, <2>4, Clock, Constants DEF QueueShort, Born, Surplus
    <2>6. FoundInTime'
        <3> SUFFICES ASSUME NEW i \in 1..Len(in_queue'), Findable(i)'
                     PROVE  /\ in_queue'[i] = session'
                            /\ age' + delay' + Ticks(i - 1) <= MAX_SESSION_AGE
            BY DEF FoundInTime
        <3>1. in_queue # <<>> /\ in_queue' = Tail(in_queue)
            BY <2>1
        <3>2. i + 1 \in 1..Len(in_queue) /\ in_queue'[i] = in_queue[i + 1] /\ i \in Int
            BY <3>1 DEF TypeInv, TypeOK
        <3>3. Findable(i + 1)
            BY <2>1, <3>2, Clock DEF Findable
        <3>4. in_queue[i + 1] = session /\ age + delay + Ticks((i + 1) - 1) <= MAX_SESSION_AGE
            BY <1>1, <3>2, <3>3 DEF FoundInTime
        <3>5. (i + 1) - 1 = i /\ Ticks(i) \in Int /\ Ticks(i - 1) = Ticks(i) - RetryDelay
            BY <3>2, TicksAdd
        <3>6. age + delay + Ticks(i) <= MAX_SESSION_AGE
            BY <3>4, <3>5
        <3>7. in_queue'[i] = session'
            BY <1>1, <3>2, <3>4
        <3>8. age' = age /\ delay' = RetryDelay /\ delay = 0 /\ age \in Nat /\ RetryDelay \in Nat
            BY <1>1, <2>1, Clock, Constants
        <3>9. age' + delay' + Ticks(i - 1) <= MAX_SESSION_AGE
            BY <3>5, <3>6, <3>8, Constants
        <3> QED
            BY <3>7, <3>9
    <2> QED
        BY <1>2, <2>1, <2>5, <2>6 DEF LivesInv, SessionLives
<1> QED
    BY <1>3, <1>4, <1>5

LEMMA LivesCreate ==
    ASSUME TypeInv, PeriodsFit, LivesInv, state # "connected",
           NEW m \in net, HandleCreateSession(m)
    PROVE  LivesInv'
<1>1. /\ m.type = "REQUEST_SESSION" /\ m.session \in SessionIds
      /\ UNCHANGED <<state, client_session, attempts, delay, in_queue>>
    BY DEF TypeInv, TypeOK, HandleCreateSession, Packet, clientVars
<1>2. SessionLives'
    BY <1>1 DEF SessionLives
<1>3. Elapsed' = Elapsed
    BY <1>1 DEF Elapsed
<1>4. CASE session # None
    <2>1. session' = session /\ age' = age /\ net' = net \ {m}
        BY <1>4 DEF HandleCreateSession, AgeWhenRefused
    <2>2. Answers' = Answers /\ (Made' <=> Made) /\ Born' = Born
        BY <1>1, <1>3, <2>1 DEF Answers, Made, Born
    <2>3. AnswersYoung'
        BY <2>1, <2>2 DEF LivesInv, AnswersYoung
    <2>4. QueueShort => QueueShort'
        BY <1>1, <1>3, <2>1, <2>2 DEF QueueShort, Surplus
    <2>5. FoundInTime => FoundInTime'
        BY <1>1, <2>1 DEF FoundInTime, Findable
    <2> QED
        BY <1>1, <1>2, <2>3, <2>4, <2>5 DEF LivesInv
<1>5. CASE session = None
    <2> DEFINE a == Answer(m.session)
    <2>1. session' = m.session /\ age' = 0 /\ net' = (net \ {m}) \cup {a}
        BY <1>5 DEF HandleCreateSession
    <2>2. a.type = "PROVIDE_SESSION" /\ a.session = m.session /\ a.ticks = 0
        BY <1>1, NewPackets
    <2> HIDE DEF a
    <2>3. Answers = {}
        BY <1>5, SessionNumbers DEF LivesInv, AnswersYoung, Answers, TypeInv, TypeOK, Packet
    <2>4. Answers' = {a}
        BY <1>1, <2>1, <2>2, <2>3 DEF Answers
    <2>5. AnswersYoung'
        BY <2>1, <2>2, <2>4 DEF AnswersYoung
    <2>6. ~ Made
        BY <1>5, SessionNumbers DEF Made
    <2>7. Born' = Elapsed
        BY <1>3, <2>1, Clock DEF Born
    <2>8. Surplus' = Surplus
        BY DEF Surplus
    <2>9. Made' => age' <= Elapsed'
        BY <1>3, <2>1, Clock
    <2>10. ~ (~ Made')
        BY <1>1, <2>1 DEF Made
    <2>11. QueueShort => QueueShort'
        BY <1>1, <1>3, <2>6, <2>7, <2>8, <2>9, <2>10 DEF QueueShort
    <2>12. FoundInTime => FoundInTime'
        <3> SUFFICES ASSUME FoundInTime, NEW i \in 1..Len(in_queue), Findable(i)
                     PROVE  FALSE
            BY <1>1 DEF FoundInTime, Findable
        <3>1. in_queue[i] = None
            BY <1>5 DEF FoundInTime
        <3>2. in_queue[i] \in SessionIds \cup {Before}
            BY DEF TypeInv, TypeOK
        <3> QED
            BY <3>1, <3>2, SessionNumbers
    <2> QED
        BY <1>1, <1>2, <2>5, <2>11, <2>12 DEF LivesInv
<1> QED
    BY <1>4, <1>5

LEMMA LivesPurge ==
    ASSUME TypeInv, PeriodsFit, LivesInv, state # "connected", PurgeStaleSessions
    PROVE  LivesInv'
<1>1. UNCHANGED <<state, client_session, attempts, delay, in_queue, net>>
    BY DEF PurgeStaleSessions, clientVars
<1>2. SessionLives'
    BY <1>1 DEF SessionLives
<1>3. Elapsed' = Elapsed /\ Answers' = Answers /\ Surplus' = Surplus
    BY <1>1 DEF Elapsed, Answers, Surplus
<1>4. CASE session # None /\ Stale
    <2>1. session' = None /\ age' = 0 /\ age > MAX_SESSION_AGE
        BY <1>4 DEF PurgeStaleSessions, Stale
    <2>2. Answers = {}
        <3> SUFFICES ASSUME NEW m \in Answers
                     PROVE  FALSE
            OBVIOUS
        <3>1. m.ticks = age /\ m.ticks \in 0..MaxDelay
            BY DEF LivesInv, AnswersYoung, Answers, TypeInv, TypeOK, Packet
        <3> QED
            BY <2>1, <3>1, Constants DEF PeriodsFit
    <2>3. AnswersYoung'
        BY <1>3, <2>2 DEF AnswersYoung
    <2>4. ~ Made'
        BY <2>1, SessionNumbers DEF Made
    <2>5. QueueShort => QueueShort'
        <3> SUFFICES ASSUME QueueShort, Elapsed < Surplus
                     PROVE  Len(in_queue) <= Elapsed
            BY <1>1, <1>3, <2>2, <2>4 DEF QueueShort
        <3>1. ~ Made
            BY <2>1, Clock, SurplusIsSmall, Constants DEF QueueShort
        <3> QED
            BY <3>1 DEF QueueShort
    <2>6. FoundInTime => FoundInTime'
        <3> SUFFICES ASSUME FoundInTime, NEW i \in 1..Len(in_queue), Findable(i)
                     PROVE  FALSE
            BY <1>1 DEF FoundInTime, Findable
        <3>1. age + delay + Ticks(i - 1) <= MAX_SESSION_AGE
            BY DEF FoundInTime
        <3>2. i - 1 \in Nat /\ Ticks(i - 1) \in Nat
            BY TicksOfAttempts
        <3> QED
            BY <2>1, <3>1, <3>2, Clock, Constants
    <2> QED
        BY <1>1, <1>2, <2>3, <2>5, <2>6 DEF LivesInv
<1>5. CASE session # None /\ ~ Stale
    <2>1. session' = session /\ age' = age
        BY <1>5 DEF PurgeStaleSessions
    <2> QED
        BY <1>1, <1>2, <1>3, <2>1
        DEF LivesInv, AnswersYoung, QueueShort, FoundInTime, Findable, Born, Made
<1>6. CASE session = None
    <2>1. session' = None /\ age' = 0
        BY <1>6 DEF PurgeStaleSessions
    <2>2. Answers = {}
        BY <1>6, SessionNumbers DEF LivesInv, AnswersYoung, Answers, TypeInv, TypeOK, Packet
    <2>3. ~ Made /\ ~ Made'
        BY <1>6, <2>1, SessionNumbers DEF Made
    <2>4. FoundInTime => FoundInTime'
        <3> SUFFICES ASSUME FoundInTime, NEW i \in 1..Len(in_queue), Findable(i)
                     PROVE  FALSE
            BY <1>1 DEF FoundInTime, Findable
        <3>1. in_queue[i] = None
            BY <1>6 DEF FoundInTime
        <3>2. in_queue[i] \in SessionIds \cup {Before}
            BY DEF TypeInv, TypeOK
        <3> QED
            BY <3>1, <3>2, SessionNumbers
    <2> QED
        BY <1>1, <1>2, <1>3, <2>2, <2>3, <2>4 DEF LivesInv, AnswersYoung, QueueShort
<1> QED
    BY <1>4, <1>5, <1>6

\* The packets before an answer to an early request are few; the answer to a late
\* one is found before the session is old, or never.
LEMMA ArrivesInTime ==
    ASSUME TypeInv, PeriodsFit, QueueShort, Answers # {}, state = "connecting",
           age <= MaxDelay, attempts + (Len(in_queue) + 1) <= MaxAttempts
    PROVE  age + delay + Ticks(Len(in_queue)) <= MAX_SESSION_AGE
<1> DEFINE n == Len(in_queue)
           last == Ticks(MaxAttempts)
           spent == Ticks(attempts)
           wait == Ticks(n)
<1>1. /\ n \in Nat /\ attempts \in Nat /\ age \in Nat /\ delay \in 0..RetryDelay
      /\ spent \in Nat /\ wait \in Nat /\ last \in Nat
      /\ Elapsed \in Nat /\ Surplus \in Int /\ Ticks(Surplus) \in Int
    <2>1. n \in Nat /\ MaxAttempts \in Nat /\ delay \in 0..RetryDelay
        BY Clock, Constants DEF TypeInv, TypeOK
    <2> QED
        BY <2>1, Clock, TicksOfAttempts
<1>2. Elapsed = spent + (RetryDelay - delay) /\ Surplus = last - MAX_SESSION_AGE
      /\ Born = Elapsed - age
    BY DEF Elapsed, Surplus, Born
<1>3. CASE Born < Surplus
    <2>1. n <= Surplus - 1
        <3>1. n <= Born
            BY <1>3 DEF QueueShort
        <3>2. Born \in Int /\ Surplus \in Int /\ n \in Nat
            BY <1>1, <1>2, Constants
        <3> HIDE DEF n
        <3> QED
            BY <1>3, <3>1, <3>2
    <2>2. Surplus - 1 \in Int /\ Ticks(Surplus - 1) = Ticks(Surplus) - RetryDelay
        BY <1>1, TicksAdd
    <2>3. n \in Int /\ Surplus - 1 \in Int
        BY <1>1
    <2>4. Ticks(n) <= Ticks(Surplus - 1)
        BY <2>1, <2>3, TicksGrow
    <2>5. Ticks(n) <= Ticks(Surplus) - RetryDelay /\ MaxDelay + Ticks(Surplus) <= MAX_SESSION_AGE
        BY <2>2, <2>4 DEF PeriodsFit
    <2> HIDE DEF n
    <2> QED
        BY <1>1, <2>5, Constants DEF n
<1>4. CASE ~ (Born < Surplus)
    <2>1. Ticks(attempts + (n + 1)) <= last
        <3>1. attempts + (n + 1) \in Int /\ MaxAttempts \in Int
            BY <1>1, Constants
        <3> QED
            BY <3>1, TicksGrow
    <2>2. Ticks(attempts + (n + 1)) = spent + wait + RetryDelay
        BY <1>1, Constants DEF Ticks
    <2> HIDE DEF n, last, spent, wait
    <2>3. age + delay + wait <= MAX_SESSION_AGE
        BY <1>1, <1>2, <1>4, <2>1, <2>2, Constants
    <2> QED
        BY <2>3 DEF wait, n
<1> QED
    BY <1>3, <1>4

LEMMA LivesArrive ==
    ASSUME TypeInv, PeriodsFit, LivesInv, state # "connected", NEW m \in net, Arrive(m)
    PROVE  LivesInv'
<1>1. /\ m \in Answers /\ m.session \in SessionIds
      /\ net' = net \ {m} /\ Answers' \subseteq Answers
      /\ UNCHANGED <<state, client_session, attempts, delay, session, age>>
    BY DEF Arrive, Answers, serverVars, TypeInv, TypeOK, Packet
<1>2. m.session = session /\ m.ticks = age /\ age <= MaxDelay
    BY <1>1 DEF LivesInv, AnswersYoung, TypeInv, TypeOK, Packet
<1>3. AnswersYoung' /\ SessionLives'
    BY <1>1 DEF LivesInv, AnswersYoung, SessionLives
<1>4. Answers' = {}
    <2> SUFFICES ASSUME NEW n \in Answers, n # m
                 PROVE  FALSE
        BY <1>1 DEF Answers
    <2>1. /\ n \in Packet /\ m \in Packet /\ n.type = m.type
          /\ n.session = m.session /\ n.ticks = m.ticks
        BY <1>1, <1>2 DEF LivesInv, AnswersYoung, Answers, TypeInv, TypeOK
    <2>2. n = m
        BY <2>1, PacketIsItsFields
    <2> QED
        BY <2>2
<1>5. ASSUME state = "connecting"
      PROVE  QueueShort' /\ FoundInTime'
    <2>1. Made /\ Made' /\ Elapsed' = Elapsed
        BY <1>1, <1>2 DEF Made, Elapsed
    <2>2. QueueShort /\ FoundInTime
        BY <1>5 DEF LivesInv
    <2>3. QueueShort'
        BY <1>1, <1>4, <2>1, <2>2 DEF QueueShort
    <2>4. in_queue' = Append(in_queue, session) /\ in_queue \in Seq(SessionIds \cup {Before})
        BY <1>2, <1>5 DEF Arrive, TypeInv, TypeOK
    <2>5. FoundInTime'
        <3> SUFFICES ASSUME NEW i \in 1..Len(in_queue'), Findable(i)'
                     PROVE  /\ in_queue'[i] = session
                            /\ age + delay + Ticks(i - 1) <= MAX_SESSION_AGE
            BY <1>1 DEF FoundInTime
        <3>1. CASE i \in 1..Len(in_queue)
            <4>1. in_queue'[i] = in_queue[i] /\ Findable(i)
                BY <1>1, <2>4, <3>1 DEF Findable
            <4> QED
                BY <2>2, <3>1, <4>1 DEF FoundInTime
        <3>2. CASE i = Len(in_queue) + 1
            <4>1. in_queue'[i] = session /\ attempts + (Len(in_queue) + 1) <= MaxAttempts
                BY <1>1, <2>4, <3>2 DEF Findable
            <4>2. age + delay + Ticks(Len(in_queue)) <= MAX_SESSION_AGE
                BY <1>1, <1>2, <1>5, <2>2, <4>1, ArrivesInTime
            <4>3. i - 1 = Len(in_queue)
                BY <3>2, Clock
            <4> QED
                BY <4>1, <4>2, <4>3
        <3> QED
            BY <2>4, <3>1, <3>2
    <2> QED
        BY <2>3, <2>5
<1> QED
    BY <1>1, <1>3, <1>5 DEF LivesInv

LEMMA LivesLose ==
    ASSUME TypeInv, PeriodsFit, LivesInv, state # "connected", NEW m \in net, Lose(m)
    PROVE  LivesInv'
<1>1. /\ net' \subseteq net
      /\ UNCHANGED <<state, client_session, attempts, delay, in_queue, session, age>>
    BY DEF Lose, clientVars, serverVars
<1>2. Answers' \subseteq Answers /\ (Made' <=> Made) /\ Elapsed' = Elapsed
    BY <1>1 DEF Answers, Made, Elapsed
<1> QED
    BY <1>1, <1>2
    DEF LivesInv, AnswersYoung, QueueShort, FoundInTime, Findable, Born, SessionLives, Surplus

LEMMA LivesTick ==
    ASSUME TypeInv, TypeInv', PeriodsFit, LivesInv, state # "connected", Tick
    PROVE  LivesInv'
<1> DEFINE Aged(m) == [m EXCEPT !.ticks = @ + 1]
<1>1. /\ net' = {Aged(m) : m \in net}
      /\ UNCHANGED <<state, client_session, attempts, session>>
      /\ age' = IF session # None /\ age <= MAX_SESSION_AGE THEN age + 1 ELSE age
      /\ delay' = IF state = "connecting" THEN delay - 1 ELSE delay
      /\ state = "connecting" => delay > 0
    BY DEF Tick
<1>2. \A m \in net : /\ Aged(m).type = m.type /\ Aged(m).session = m.session
                     /\ Aged(m).ticks = m.ticks + 1 /\ m.ticks \in 0..MaxDelay
    BY Later DEF TypeInv, TypeOK
<1> HIDE DEF Aged
<1>3. Answers' = {Aged(m) : m \in Answers}
    BY <1>1, <1>2 DEF Answers
<1>4. SessionLives'
    BY <1>1 DEF SessionLives
<1>5. AnswersYoung'
    <2> SUFFICES ASSUME NEW m \in Answers
                 PROVE  Aged(m).session = session /\ Aged(m).ticks = age'
        BY <1>1, <1>3 DEF AnswersYoung
    <2>1. m \in net /\ m.session = session /\ m.ticks = age
        BY DEF LivesInv, AnswersYoung, Answers
    <2>2. session # None /\ age <= MAX_SESSION_AGE
        BY <1>2, <2>1, Constants, SessionNumbers DEF PeriodsFit, TypeInv, TypeOK, Packet
    <2> QED
        BY <1>1, <1>2, <2>1, <2>2
<1>6. ASSUME state = "connecting"
      PROVE  QueueShort' /\ FoundInTime'
    <2>1. QueueShort /\ FoundInTime
        BY <1>6 DEF LivesInv
    <2>2. /\ delay \in Nat /\ delay' = delay - 1 /\ attempts' = attempts
          /\ Elapsed' = Elapsed + 1 /\ Elapsed \in Nat /\ age \in Nat /\ age' \in {age, age + 1}
          /\ Surplus \in Int /\ Surplus' = Surplus
        <3>1. /\ delay \in Nat /\ delay > 0 /\ delay' = delay - 1 /\ attempts' = attempts
              /\ Elapsed \in Nat /\ age \in Nat /\ Surplus \in Int
              /\ Ticks(attempts) \in Nat /\ RetryDelay \in Nat
            BY <1>1, <1>6, Clock, Constants
        <3>2. Elapsed' = Elapsed + 1
            BY <3>1 DEF Elapsed, Ticks
        <3>3. age' \in {age, age + 1}
            BY <1>1
        <3>4. Surplus' = Surplus
            BY DEF Surplus, Ticks
        <3> QED
            BY <3>1, <3>2, <3>3, <3>4
    <2>3. Made' <=> Made
        BY <1>1 DEF Made
    <2>4. /\ in_queue' \in {in_queue, Append(in_queue, Before)}
          /\ session # Before => in_queue' = in_queue
          /\ in_queue \in Seq(SessionIds \cup {Before})
        BY DEF Tick, Update, TypeInv, TypeOK
    <2>5. Len(in_queue') \in {Len(in_queue), Len(in_queue) + 1} /\ Len(in_queue) \in Nat
        BY <2>4
    <2>6. Made => Len(in_queue') = Len(in_queue)
        BY <2>4, SessionNumbers DEF Made
    <2>7. ASSUME Answers' # {}
          PROVE  Answers # {} /\ Made /\ Born' = Born
        <3>1. PICK m \in Answers : TRUE
            BY <1>3, <2>7
        <3>2. /\ m.session = session /\ m.ticks = age /\ m.ticks <= MaxDelay
              /\ session \in SessionIds
            BY <1>2 DEF LivesInv, AnswersYoung, Answers, TypeInv, TypeOK, Packet
        <3>3. age' = age + 1
            BY <1>1, <3>2, <2>2, Constants, SessionNumbers DEF PeriodsFit
        <3> QED
            BY <3>1, <3>2, <3>3, <2>2 DEF Made, Born
    <2>8. QueueShort'
        <3>1. Made' => age' <= Elapsed'
            BY <2>1, <2>2, <2>3 DEF QueueShort
        <3>2. ~ Made' /\ Elapsed' < Surplus' => Len(in_queue') <= Elapsed'
            BY <2>1, <2>2, <2>3, <2>5 DEF QueueShort
        <3>3. Answers' # {} /\ Born' < Surplus' => Len(in_queue') <= Born'
            BY <2>1, <2>2, <2>6, <2>7 DEF QueueShort
        <3> QED
            BY <3>1, <3>2, <3>3 DEF QueueShort
    <2>9. FoundInTime'
        <3> SUFFICES ASSUME NEW i \in 1..Len(in_queue'), Findable(i)'
                     PROVE  /\ in_queue'[i] = session
                            /\ age' + delay' + Ticks(i - 1) <= MAX_SESSION_AGE
            BY <1>1 DEF FoundInTime
        <3>1. i \in 1..Len(in_queue) /\ in_queue'[i] = in_queue[i]
            BY <2>4, <2>5 DEF Findable
        <3>2. in_queue[i] = session /\ age + delay + Ticks(i - 1) <= MAX_SESSION_AGE
            BY <2>1, <2>2, <3>1 DEF FoundInTime, Findable
        <3>3. Ticks(i - 1) \in Int
            BY <3>1, <2>5, TicksAdd
        <3> QED
            BY <2>2, <3>1, <3>2, <3>3, Constants
    <2> QED
        BY <2>8, <2>9
<1> QED
    BY <1>1, <1>4, <1>5, <1>6 DEF LivesInv

LEMMA LivesStutter == LivesInv /\ UNCHANGED vars => LivesInv'
BY DEF vars, clientVars, serverVars, LivesInv, AnswersYoung, QueueShort, FoundInTime, Findable,
       SessionLives, Answers, Made, Born, Elapsed, Surplus

\* The session that a client obtains is the one the server has for it, and is not
\* due to be purged, however long the answer travelled within MaxDelay and waited
\* behind the updates of an earlier session (Connect, PurgeStaleSessions).
THEOREM ObtainedSessionsLive == PeriodsFit => (Spec => []SessionLives)
<1> SUFFICES ASSUME PeriodsFit
             PROVE  Spec => []SessionLives
    OBVIOUS
<1>1. TypeInv /\ TypeInv' /\ LivesInv /\ [Next]_vars => LivesInv'
    BY LivesPoll, LivesCreate, LivesPurge, LivesArrive, LivesLose, LivesTick, LivesStutter DEF Next
<1>2. LivesInv => SessionLives
    BY DEF LivesInv
<1> QED
    BY <1>1, <1>2, SpecTypeInv, LivesInit, PTL DEF Spec

-----------------------------------------------------------------------------
(* Why a client gives up *)

\* A request that is under way was sent less than RetryDelay ago, so there is none
\* when the client wakes up.
LEMMA RequestAge ==
    ASSUME TypeInv, Timely, Requests \subseteq {LastRequest}
    PROVE  /\ Requests # {} => RetryDelay - delay <= MaxDelay /\ Requests = {LastRequest}
           /\ delay = 0 => Requests = {}
<1>1. ASSUME Requests # {}
      PROVE  RetryDelay - delay <= MaxDelay /\ Requests = {LastRequest}
    <2>1. Requests = {LastRequest}
        BY <1>1
    <2>2. LastRequest.ticks \in 0..MaxDelay
        BY <2>1 DEF Requests, TypeInv, TypeOK, Packet
    <2>3. LastRequest.ticks = RetryDelay - delay
        BY DEF LastRequest
    <2> QED
        BY <2>1, <2>2, <2>3, Constants
<1> QED
    BY <1>1, Constants DEF Timely

LEMMA ReasonInit == Timely /\ Init => ReasonInv
<1> SUFFICES ASSUME Timely, Init
             PROVE  ReasonInv
    OBVIOUS
<1>1. 0 \in SessionIds
    BY Constants DEF SessionIds
<1>2. Answers = {} /\ Requests = {Request(0)}
    BY <1>1, NewPackets DEF Init, Answers, Requests
<1>3. /\ state = "connecting" /\ attempts = 0 /\ delay = RetryDelay /\ in_queue = <<>>
      /\ unanswered = 0
    BY DEF Init
<1>4. Requests \subseteq {LastRequest}
    BY <1>2, <1>3, Constants DEF LastRequest, Request
<1>5. Elapsed = 0
    BY <1>3, Constants, TicksAdd DEF Elapsed
<1>6. CASE session = None /\ age = 0 /\ playing = FALSE /\ first_age = None
    BY <1>2, <1>3, <1>4, <1>6 DEF ReasonInv, Prospects, Unheard, ExitHasReason
<1>7. CASE session = Before /\ age \in Earlier(purge) /\ playing \in BOOLEAN /\ first_age = age
    <2>1. age \in Ages /\ age \in Nat /\ age - (PurgePeriod - purge) <= MAX_SESSION_AGE
        BY <1>7, Constants DEF Earlier
    <2>2. first_age # None
        BY <1>7, <2>1 DEF None
    <2>3. purge \in 1..PurgePeriod
        BY DEF Init
    <2>4. ASSUME first_age > MAX_SESSION_AGE PROVE Blocked
        <3>1. Elapsed + purge <= PurgePeriod - 1
            BY <1>5, <1>7, <2>1, <2>3, <2>4, Constants
        <3> QED
            BY <1>2, <1>3, <1>7, <2>4, <3>1 DEF Blocked
    <2> QED
        BY <1>3, <1>4, <2>2, <2>4 DEF ReasonInv, Prospects, ExitHasReason
<1> QED
    BY <1>6, <1>7 DEF Init

LEMMA HopePoll ==
    ASSUME TypeInv, Poll, ~ Found, Hope
    PROVE  attempts' # MaxAttempts /\ Hope'
<1>1. /\ state = "connecting" /\ delay = 0 /\ attempts' = attempts + 1 /\ session' = session
      /\ attempts \in Nat /\ MaxAttempts \in Nat
      /\ in_queue' = IF in_queue = <<>> THEN <<>> ELSE Tail(in_queue)
    BY Clock, Constants DEF Poll, serverVars
<1>2. in_queue \in Seq(SessionIds \cup {Before})
    BY DEF TypeInv, TypeOK
<1>3. CASE \E i \in 1..Len(in_queue) : Findable(i)
    <2>1. PICK i \in 1..Len(in_queue) : Findable(i)
        BY <1>3
    <2>2. in_queue # <<>> /\ i # 1
        BY <1>2, <2>1 DEF Found, Findable
    <2>3. i - 1 \in 1..Len(in_queue') /\ in_queue'[i - 1] = in_queue[i]
        BY <1>1, <1>2, <2>1, <2>2
    <2>4. attempts + i <= MaxAttempts /\ in_queue[i] # Before
        BY <2>1 DEF Findable
    <2>5. attempts' # MaxAttempts /\ attempts' + (i - 1) <= MaxAttempts
        BY <1>1, <1>2, <2>1, <2>2, <2>4
    <2> QED
        BY <1>1, <2>3, <2>4, <2>5 DEF Hope, Findable
<1>4. CASE /\ \E m \in Answers : Elapsed + (MaxDelay - m.ticks) < Ticks(MaxAttempts)
           /\ Len(in_queue) > 0 => attempts + Len(in_queue) + 1 <= MaxAttempts
    <2>1. PICK m \in Answers : Elapsed + (MaxDelay - m.ticks) < Ticks(MaxAttempts)
        BY <1>4
    <2>2. m.ticks \in 0..MaxDelay
        BY DEF Answers, TypeInv, TypeOK, Packet
    <2>3. /\ Elapsed = Ticks(attempts + 1) /\ Elapsed \in Nat /\ Ticks(MaxAttempts) \in Nat
          /\ Ticks(attempts + 1) = Ticks(attempts) + RetryDelay /\ Ticks(attempts) \in Nat
        BY <1>1, Clock, Constants, TicksOfAttempts DEF Elapsed
    <2>4. attempts' # MaxAttempts
        BY <1>1, <2>1, <2>2, <2>3, Constants
    <2>5. delay' = RetryDelay /\ net' = net \cup {Request(attempts')}
        BY <2>4 DEF Poll, GivesUp
    <2>6. Answers' = Answers
        BY <2>5 DEF Answers, Request
    <2>7. Elapsed' = Elapsed
        BY <1>1, <2>3, <2>5, Constants DEF Elapsed
    <2>8. Len(in_queue') > 0 => attempts' + Len(in_queue') + 1 <= MaxAttempts
        <3>1. Len(in_queue') > 0 => Len(in_queue) > 0 /\ Len(in_queue') = Len(in_queue) - 1
            BY <1>1, <1>2
        <3>2. Len(in_queue) > 0 => attempts + Len(in_queue) + 1 <= MaxAttempts
            BY <1>4
        <3>3. /\ attempts' = attempts + 1 /\ attempts \in Nat /\ MaxAttempts \in Nat
              /\ Len(in_queue) \in Nat
            BY <1>1, <1>2
        <3> QED
            BY <3>1, <3>2, <3>3
    <2> QED
        BY <1>1, <2>1, <2>4, <2>6, <2>7, <2>8 DEF Hope
<1> QED
    BY <1>3, <1>4 DEF Hope

LEMMA ReasonPoll ==
    ASSUME TypeInv, TypeInv', Timely, ReasonInv, Poll
    PROVE  ReasonInv'
<1>1. /\ state = "connecting" /\ delay = 0 /\ UNCHANGED <<serverVars, historyVars>>
      /\ Requests \subseteq {LastRequest} /\ Prospects
    BY DEF Poll, ReasonInv
<1>2. Requests = {}
    BY <1>1, RequestAge
<1>3. CASE Found
    <2>1. state' = "connected"
        BY <1>3 DEF Poll
    <2> QED
        BY <2>1 DEF ReasonInv, ExitHasReason
<1>4. CASE ~ Found
    <2>1. /\ attempts' = attempts + 1 /\ attempts \in Nat /\ MaxAttempts \in Nat
          /\ in_queue' = IF in_queue = <<>> THEN <<>> ELSE Tail(in_queue)
          /\ attempts + 1 <= MaxAttempts
          /\ UNCHANGED <<session, age, purge, first_age, unanswered, answer_lost>>
        BY <1>1, <1>4, Clock, Constants DEF Poll, serverVars, historyVars, TypeInv, RequestsCounted
    <2>2. /\ Elapsed = Ticks(attempts + 1) /\ Elapsed \in Nat /\ Ticks(MaxAttempts) \in Nat
          /\ Ticks(attempts + 1) = Ticks(attempts) + RetryDelay /\ Ticks(attempts) \in Nat
        BY <1>1, <2>1, Clock, Constants, TicksOfAttempts DEF Elapsed
    <2>3. in_queue \in Seq(SessionIds \cup {Before}) /\ unanswered \in Nat /\ purge \in Nat
        BY DEF TypeInv, TypeOK
    <2>4. CASE attempts' = MaxAttempts
        <3>1. state' = "exit" /\ Ticks(attempts + 1) = Ticks(MaxAttempts)
            BY <1>4, <2>1, <2>4 DEF Poll, GivesUp
        <3>2. ~ Hope
            BY <1>4, <2>4, HopePoll
        <3>3. Unheard \/ Late => unanswered >= MaxAttempts - 1
            BY <1>2, <2>1, <2>3, <2>4 DEF Unheard, Late
        <3>4. ~ Blocked
            BY <2>2, <2>3, <3>1, Constants DEF Blocked, Timely
        <3>5. ~ Freed
            BY <1>2, <2>2, <3>1, Constants DEF Freed, Timely
        <3>6. ExitHasReason'
            <4> SUFFICES ASSUME ~ answer_lost
                         PROVE  IF first_age = None THEN unanswered >= MaxAttempts - 1
                                ELSE unanswered > 0 \/ first_age <= MAX_SESSION_AGE
                BY <2>1 DEF ExitHasReason
            <4>1. CASE first_age = None
                BY <1>1, <3>2, <3>3, <4>1 DEF Prospects
            <4>2. CASE first_age # None
                <5>1. ~ (unanswered = 0 /\ first_age > MAX_SESSION_AGE)
                    BY <1>1, <3>2, <3>4, <3>5, <4>2 DEF Prospects
                <5>2. first_age \in Nat
                    BY <4>2, Constants DEF TypeInv, TypeOK
                <5> QED
                    BY <4>2, <5>1, <5>2, <2>3, Constants
            <4> QED
                BY <4>1, <4>2
        <3> QED
            BY <3>1, <3>6 DEF ReasonInv
    <2>5. CASE attempts' # MaxAttempts
        <3> DEFINE r == Request(attempts')
        <3>1. delay' = RetryDelay /\ net' = net \cup {r} /\ state' = "connecting"
            BY <1>1, <1>4, <2>5 DEF Poll, GivesUp
        <3>2. r.type = "REQUEST_SESSION" /\ r = LastRequest'
            BY <3>1, Constants DEF Request, LastRequest
        <3> HIDE DEF r
        <3>3. Answers' = Answers /\ Requests' = {r}
            BY <1>2, <3>1, <3>2 DEF Answers, Requests
        <3>4. Elapsed' = Elapsed
            BY <2>1, <2>2, <3>1, Constants DEF Elapsed
        <3>5. Hope => Hope'
            BY <1>4, HopePoll
        <3>6. Unheard => Unheard'
            BY <1>2, <2>1, <3>3 DEF Unheard
        <3>7. Late => FALSE
            BY <2>1, <2>5 DEF Late
        <3>8. Len(in_queue') > 0 => Len(in_queue) > 0 /\ Len(in_queue') = Len(in_queue) - 1
            BY <2>1, <2>3
        <3>9. Len(in_queue) \in Nat
            BY <2>3
        <3>10. Blocked => Blocked'
            BY <2>1, <3>3, <3>4, <3>8, <3>9 DEF Blocked
        <3>11. Freed => Freed'
            BY <1>2, <2>1, <2>2, <3>3, <3>8, <3>9, Constants DEF Freed
        <3>12. Prospects'
            BY <1>1, <2>1, <3>5, <3>6, <3>7, <3>10, <3>11 DEF Prospects
        <3> QED
            BY <3>1, <3>2, <3>3, <3>12 DEF ReasonInv, ExitHasReason
    <2> QED
        BY <2>4, <2>5
<1> QED
    BY <1>3, <1>4

\* The steps that leave the client as it is keep the reasons it has.
LEMMA ExitReasonKept ==
    ASSUME TypeInv, ExitHasReason, UNCHANGED <<state, first_age>>,
           unanswered' \in {unanswered, unanswered + 1}, answer_lost => answer_lost'
    PROVE  ExitHasReason'
<1>1. unanswered \in Nat
    BY DEF TypeInv, TypeOK
<1>2. unanswered >= MaxAttempts - 1 => unanswered' >= MaxAttempts - 1
    BY <1>1, Constants
<1>3. unanswered > 0 => unanswered' > 0
    BY <1>1
<1> QED
    BY <1>2, <1>3 DEF ExitHasReason

LEMMA ReasonCreate ==
    ASSUME TypeInv, Timely, ReasonInv, state # "connected", NEW m \in net, HandleCreateSession(m)
    PROVE  ReasonInv'
<1>1. /\ m \in Requests /\ m.session \in SessionIds
      /\ UNCHANGED <<state, attempts, delay, in_queue, purge, first_age, unanswered, answer_lost>>
    BY DEF HandleCreateSession, clientVars, historyVars, Requests, TypeInv, TypeOK, Packet
<1>2. ExitHasReason'
    BY <1>1, ExitReasonKept DEF ReasonInv
<1>3. ASSUME state = "connecting"
      PROVE  Requests' \subseteq {LastRequest'} /\ Prospects'
    <2>1. Requests \subseteq {LastRequest} /\ Prospects
        BY <1>3 DEF ReasonInv
    <2>2. /\ Elapsed' = Elapsed /\ LastRequest' = LastRequest
          /\ (\A i \in 1..Len(in_queue) : Findable(i)' <=> Findable(i))
        BY <1>1 DEF Elapsed, LastRequest, Findable
    <2>3. CASE session # None
        <3>1. net' = net \ {m} /\ session' = session /\ age' = age
            BY <2>3 DEF HandleCreateSession, AgeWhenRefused
        <3>2. Answers' = Answers /\ Requests' \subseteq Requests
            BY <1>1, <3>1 DEF Answers, Requests
        <3>3. Hope => Hope'
            BY <1>1, <2>2, <3>1, <3>2 DEF Hope
        <3>4. Late => Late'
            BY <1>1 DEF Late
        <3>5. Blocked => Blocked'
            BY <1>1, <2>2, <3>1, <3>2 DEF Blocked
        <3> QED
            BY <1>1, <2>1, <2>2, <2>3, <3>2, <3>3, <3>4, <3>5 DEF Prospects, Unheard, Freed
    <2>4. CASE session = None
        <3> DEFINE a == Answer(m.session)
        <3>1. net' = (net \ {m}) \cup {a} /\ session' = m.session
            BY <2>4 DEF HandleCreateSession
        <3>2. a.type = "PROVIDE_SESSION" /\ a.ticks = 0
            BY DEF Answer
        <3> HIDE DEF a
        <3>3. Answers \subseteq Answers' /\ a \in Answers' /\ Requests' \subseteq Requests
            BY <1>1, <3>1, <3>2 DEF Answers, Requests
        <3>4. session' # Before
            BY <1>1, <3>1, SessionNumbers
        <3>5. /\ RetryDelay - delay <= MaxDelay /\ Requests # {}
              /\ Elapsed = Ticks(attempts) + (RetryDelay - delay) /\ Elapsed \in Nat
              /\ attempts \in Nat /\ MaxAttempts \in Nat /\ attempts + 1 <= MaxAttempts
              /\ Ticks(attempts) \in Nat /\ Ticks(MaxAttempts) \in Nat /\ delay \in 0..RetryDelay
            <4>1. RetryDelay - delay <= MaxDelay /\ Requests # {}
                BY <1>1, <2>1, RequestAge
            <4>2. Elapsed = Ticks(attempts) + (RetryDelay - delay)
                BY DEF Elapsed
            <4>3. MaxAttempts \in Nat /\ Ticks(MaxAttempts) \in Nat
                BY Constants, TicksOfAttempts
            <4>4. attempts + 1 <= MaxAttempts /\ delay \in 0..RetryDelay
                BY <1>3, Clock, Constants DEF TypeInv, TypeOK, RequestsCounted
            <4> QED
                BY <4>1, <4>2, <4>3, <4>4, Clock
        <3>6. ASSUME Elapsed + MaxDelay < Ticks(MaxAttempts),
                     Len(in_queue) > 0 => attempts + Len(in_queue) + 1 <= MaxAttempts
              PROVE  Hope'
            <4>1. Elapsed' + (MaxDelay - a.ticks) < Ticks(MaxAttempts)
                BY <2>2, <3>2, <3>6, Constants
            <4> QED
                BY <1>1, <3>3, <3>4, <3>6, <4>1 DEF Hope
        <3>7. Hope => Hope'
            BY <1>1, <2>2, <3>3, <3>4 DEF Hope
        <3>8. Late => Late'
            BY <1>1 DEF Late
        <3>9. Unheard => Hope' \/ Late'
            <4> SUFFICES ASSUME Unheard
                         PROVE  Hope' \/ Late'
                OBVIOUS
            <4>1. unanswered = attempts /\ in_queue = <<>>
                BY <3>5 DEF Unheard
            <4>2. CASE attempts + 2 <= MaxAttempts
                <5>1. Ticks(attempts + 2) <= Ticks(MaxAttempts)
                    BY <3>5, <4>2, TicksGrow
                <5>2. Ticks(attempts + 2) = Ticks(attempts) + RetryDelay + RetryDelay
                    <6>1. (attempts + 1) + 1 = attempts + 2 /\ attempts + 1 \in Int /\ attempts \in Int
                        BY <3>5
                    <6> QED
                        BY <6>1, TicksAdd
                <5>3. Elapsed + MaxDelay < Ticks(MaxAttempts)
                    BY <3>5, <5>1, <5>2, Constants DEF Timely
                <5> QED
                    BY <3>6, <4>1, <5>3
            <4>3. CASE ~ (attempts + 2 <= MaxAttempts)
                BY <1>1, <3>5, <4>1, <4>3 DEF Late
            <4> QED
                BY <4>2, <4>3
        <3>10. Freed => Hope'
            <4> SUFFICES ASSUME Freed
                         PROVE  Hope'
                OBVIOUS
            <4>1. Ticks(attempts) <= PurgePeriod - 1 + RetryDelay
                BY <3>5 DEF Freed
            <4>2. Elapsed + MaxDelay < Ticks(MaxAttempts)
                BY <3>5, <4>1, Constants DEF Timely
            <4>3. Len(in_queue) > 0 => attempts + Len(in_queue) + 1 <= MaxAttempts
                BY <3>5, Clock, Constants DEF Freed, Timely
            <4> QED
                BY <3>6, <4>2, <4>3
        <3>11. ~ Blocked
            BY <2>4, SessionNumbers DEF Blocked
        <3> QED
            BY <1>1, <2>1, <2>2, <3>3, <3>7, <3>8, <3>9, <3>10, <3>11 DEF Prospects
    <2> QED
        BY <2>3, <2>4
<1> QED
    BY <1>1, <1>2, <1>3 DEF ReasonInv

LEMMA ReasonPurge ==
    ASSUME TypeInv, Timely, ReasonInv, state # "connected", PurgeStaleSessions
    PROVE  ReasonInv'
<1>1. /\ UNCHANGED <<state, attempts, delay, in_queue, net, first_age, unanswered, answer_lost>>
      /\ session' \in {session, None} /\ purge = 0
    BY DEF PurgeStaleSessions, clientVars, historyVars
<1>2. ExitHasReason'
    BY <1>1, ExitReasonKept DEF ReasonInv
<1>3. /\ Requests' = Requests /\ LastRequest' = LastRequest /\ Answers' = Answers
      /\ Elapsed' = Elapsed /\ (\A i \in 1..Len(in_queue) : Findable(i)' <=> Findable(i))
    BY <1>1 DEF Requests, LastRequest, Answers, Elapsed, Findable
<1>4. Hope => Hope'
    BY <1>1, <1>3, SessionNumbers DEF Hope
<1>5. Unheard => Unheard'
    BY <1>1, <1>3 DEF Unheard
<1>6. Late => Late'
    BY <1>1 DEF Late
<1>7. Blocked => Freed'
    <2> SUFFICES ASSUME Blocked
                 PROVE  Freed'
        OBVIOUS
    <2>1. session' = None
        BY SessionNumbers DEF Blocked, PurgeStaleSessions, Stale
    <2>2. /\ Elapsed \in Nat /\ attempts \in Nat /\ delay \in 0..RetryDelay
          /\ Ticks(attempts) \in Nat /\ Elapsed = Ticks(attempts) + (RetryDelay - delay)
        BY Clock DEF Elapsed, TypeInv, TypeOK
    <2>3. Elapsed <= PurgePeriod - 1
        BY <1>1, <2>2, Constants DEF Blocked
    <2>4. Ticks(attempts) <= PurgePeriod - 1 + (IF Requests = {} THEN 0 ELSE RetryDelay)
        BY <2>2, <2>3, Constants
    <2>5. Len(in_queue) > 0 => attempts + Len(in_queue) <= PurgePeriod - 1
        BY <2>2, <2>3, Clock, Constants DEF Blocked
    <2> QED
        BY <1>1, <1>3, <2>1, <2>4, <2>5 DEF Blocked, Freed
<1>8. Freed => Freed'
    BY <1>1, <1>3 DEF Freed
<1> QED
    BY <1>1, <1>2, <1>3, <1>4, <1>5, <1>6, <1>7, <1>8 DEF ReasonInv, Prospects

LEMMA ReasonArrive ==
    ASSUME TypeInv, Timely, ReasonInv, state # "connected", NEW m \in net, Arrive(m)
    PROVE  ReasonInv'
<1>1. /\ m \in Answers /\ m.session \in SessionIds /\ net' = net \ {m}
      /\ UNCHANGED <<state, attempts, delay, session, first_age, unanswered, answer_lost>>
    BY DEF Arrive, Answers, serverVars, historyVars, TypeInv, TypeOK, Packet
<1>2. ExitHasReason'
    BY <1>1, ExitReasonKept DEF ReasonInv
<1>3. Requests' = Requests /\ LastRequest' = LastRequest
    BY <1>1 DEF Answers, Requests, LastRequest
<1>4. ~ Unheard /\ ~ Blocked /\ ~ Freed
    BY <1>1 DEF Unheard, Blocked, Freed
<1>5. Late => Late'
    BY <1>1 DEF Late
<1>6. ASSUME state = "connecting", Hope
      PROVE  Hope'
    <2>1. in_queue' = Append(in_queue, m.session) /\ in_queue \in Seq(SessionIds \cup {Before})
        BY <1>6 DEF Arrive, TypeInv, TypeOK
    <2>2. CASE \E i \in 1..Len(in_queue) : Findable(i)
        <3>1. PICK i \in 1..Len(in_queue) : Findable(i)
            BY <2>2
        <3>2. i \in 1..Len(in_queue') /\ in_queue'[i] = in_queue[i]
            BY <1>1, <2>1
        <3> QED
            BY <1>1, <1>6, <3>1, <3>2 DEF Hope, Findable
    <2>3. CASE Len(in_queue) > 0 => attempts + Len(in_queue) + 1 <= MaxAttempts
        <3>1. /\ Len(in_queue) + 1 \in 1..Len(in_queue')
              /\ in_queue'[Len(in_queue) + 1] = m.session
            BY <1>1, <2>1
        <3>2. attempts + (Len(in_queue) + 1) <= MaxAttempts
            BY <1>6, <2>3, Clock, Constants DEF TypeInv, RequestsCounted
        <3>3. m.session # Before
            BY <1>1, SessionNumbers
        <3> QED
            BY <1>1, <1>6, <3>1, <3>2, <3>3 DEF Hope, Findable
    <2> QED
        BY <1>6, <2>2, <2>3 DEF Hope
<1> QED
    BY <1>1, <1>2, <1>3, <1>4, <1>5, <1>6 DEF ReasonInv, Prospects

LEMMA ReasonLose ==
    ASSUME TypeInv, Timely, ReasonInv, state # "connected", NEW m \in net, Lose(m)
    PROVE  ReasonInv'
<1>1. /\ net' = net \ {m}
      /\ unanswered' = IF m.type = "REQUEST_SESSION" THEN unanswered + 1 ELSE unanswered
      /\ UNCHANGED <<state, attempts, delay, in_queue, session, age, purge, first_age>>
    BY DEF Lose, clientVars, serverVars
<1>2. (answer_lost => answer_lost') /\ (m.type = "PROVIDE_SESSION" => answer_lost')
    BY Zenon DEF Lose
<1>3. unanswered \in Nat /\ attempts \in Nat
    BY Clock DEF TypeInv, TypeOK
<1>4. ExitHasReason'
    BY <1>1, <1>2, ExitReasonKept DEF ReasonInv
<1>5. Requests' \subseteq Requests /\ LastRequest' = LastRequest /\ Elapsed' = Elapsed
    BY <1>1 DEF Requests, LastRequest, Elapsed
<1>6. m.type \in {"REQUEST_SESSION", "PROVIDE_SESSION"}
    BY DEF TypeInv, TypeOK, Packet
<1>7. ASSUME state = "connecting", ~ answer_lost'
      PROVE  Prospects'
    <2>1. Requests \subseteq {LastRequest} /\ Prospects /\ ~ answer_lost
        BY <1>2, <1>7 DEF ReasonInv
    <2>2. m.type = "REQUEST_SESSION" /\ unanswered' = unanswered + 1
        BY <1>1, <1>2, <1>6, <1>7
    <2>3. Answers' = Answers /\ Requests # {} /\ Requests' = {}
        <3>1. m \in Requests /\ Requests = {LastRequest}
            BY <2>1, <2>2 DEF Requests
        <3> QED
            BY <1>1, <2>2, <3>1 DEF Answers, Requests
    <2>4. Hope => Hope'
        BY <1>1, <1>5, <2>3 DEF Hope, Findable
    <2>5. Unheard => Unheard'
        BY <1>1, <1>3, <2>2, <2>3 DEF Unheard
    <2>6. Late => Late'
        BY <1>1, <1>3, <2>2, Constants DEF Late
    <2>7. unanswered' # 0
        BY <1>3, <2>2
    <2> QED
        BY <1>1, <2>1, <2>4, <2>5, <2>6, <2>7 DEF Prospects
<1>8. state = "connecting" => Prospects'
    BY <1>7 DEF Prospects
<1> QED
    BY <1>1, <1>4, <1>5, <1>8 DEF ReasonInv

LEMMA ReasonTick ==
    ASSUME TypeInv, Timely, ReasonInv, state # "connected", Tick
    PROVE  ReasonInv'
<1> DEFINE Aged(m) == [m EXCEPT !.ticks = @ + 1]
<1>1. /\ net' = {Aged(m) : m \in net}
      /\ UNCHANGED <<state, attempts, session, first_age, unanswered, answer_lost>>
      /\ purge' = purge - 1 /\ purge \in Nat
    BY DEF Tick, historyVars, TypeInv, TypeOK
<1>2. \A m \in net : /\ Aged(m) \in Packet /\ Aged(m).type = m.type /\ Aged(m).session = m.session
                     /\ Aged(m).ticks = m.ticks + 1 /\ m.ticks \in 0..MaxDelay
    BY Later DEF Tick, TypeInv, TypeOK
<1> HIDE DEF Aged
<1>3. Answers' = {Aged(m) : m \in Answers} /\ Requests' = {Aged(m) : m \in Requests}
    BY <1>1, <1>2 DEF Answers, Requests
<1>4. Answers \subseteq net /\ Requests \subseteq net
    BY DEF Answers, Requests
<1>5. ExitHasReason'
    BY <1>1, ExitReasonKept DEF ReasonInv
<1>6. ASSUME state = "connecting"
      PROVE  Requests' \subseteq {LastRequest'} /\ Prospects'
    <2>1. Requests \subseteq {LastRequest} /\ Prospects
        BY <1>6 DEF ReasonInv
    <2>2. /\ delay \in Nat /\ delay' = delay - 1 /\ attempts \in Nat /\ Ticks(attempts) \in Nat
          /\ Elapsed \in Nat /\ attempts <= Ticks(attempts) /\ Ticks(attempts) <= Elapsed
        <3>1. attempts \in Nat /\ Ticks(attempts) \in Nat /\ Elapsed \in Nat
            BY Clock
        <3>2. attempts <= Ticks(attempts)
            BY <3>1, TicksOfAttempts
        <3>3. delay \in 0..RetryDelay /\ delay > 0 /\ delay' = delay - 1
            BY <1>6 DEF Tick, TypeInv, TypeOK
        <3>4. Ticks(attempts) <= Elapsed
            BY <3>1, <3>3, Constants DEF Elapsed
        <3> QED
            BY <3>1, <3>2, <3>3, <3>4, Constants
    <2>3. Elapsed' = Elapsed + 1
        BY <1>1, <2>2, Constants DEF Elapsed
    <2>4. /\ in_queue' \in {in_queue, Append(in_queue, Before)}
          /\ session # Before => in_queue' = in_queue
          /\ in_queue \in Seq(SessionIds \cup {Before})
        BY DEF Tick, Update, TypeInv, TypeOK
    <2>5. Len(in_queue') \in {Len(in_queue), Len(in_queue) + 1} /\ Len(in_queue) \in Nat
        BY <2>4
    <2>6. Requests' \subseteq {LastRequest'}
        <3> SUFFICES ASSUME NEW m \in Requests
                     PROVE  Aged(m) = LastRequest'
            BY <1>3
        <3>1. m = LastRequest
            BY <2>1
        <3>2. /\ m.type = "REQUEST_SESSION" /\ m.session = attempts
              /\ m.ticks = RetryDelay - delay
            BY <3>1 DEF LastRequest
        <3>3. /\ Aged(m) \in Packet /\ Aged(m).type = "REQUEST_SESSION"
              /\ Aged(m).session = attempts /\ Aged(m).ticks = RetryDelay - delay'
            BY <1>2, <1>4, <2>2, <3>2, Constants
        <3>4. Aged(m) = [type |-> Aged(m).type, session |-> Aged(m).session, ticks |-> Aged(m).ticks]
            BY <3>3, PacketIsItsFields
        <3> QED
            BY <1>1, <3>3, <3>4 DEF LastRequest
    <2>7. (Answers' = {} <=> Answers = {}) /\ (Requests' = {} <=> Requests = {})
        BY <1>3
    <2>8. Hope => Hope'
        <3> SUFFICES ASSUME Hope
                     PROVE  Hope'
            OBVIOUS
        <3>1. in_queue' = in_queue /\ session' # Before
            BY <1>1, <2>4 DEF Hope
        <3>2. ASSUME NEW m \in Answers, Elapsed + (MaxDelay - m.ticks) < Ticks(MaxAttempts)
              PROVE  /\ Aged(m) \in Answers'
                     /\ Elapsed' + (MaxDelay - Aged(m).ticks) < Ticks(MaxAttempts)
            <4>1. Aged(m).ticks = m.ticks + 1 /\ m.ticks \in Nat /\ Ticks(MaxAttempts) \in Nat
                BY <1>2, <1>4, Constants, TicksOfAttempts
            <4> QED
                BY <1>3, <2>2, <2>3, <3>2, <4>1, Constants
        <3> QED
            BY <1>1, <3>1, <3>2 DEF Hope, Findable
    <2>9. Unheard => Unheard'
        BY <1>1, <2>4, <2>7, SessionNumbers DEF Unheard
    <2>10. Late => Late'
        BY <1>1 DEF Late
    <2>11. Blocked => Blocked'
        <3> SUFFICES ASSUME Blocked
                     PROVE  Blocked'
            OBVIOUS
        <3>1. age' = age
            BY Clock, Constants DEF Tick, Blocked
        <3>2. Elapsed' + purge' <= PurgePeriod - 1
            BY <1>1, <2>2, <2>3, Constants DEF Blocked, Tick
        <3>3. Len(in_queue') > 0 => attempts + Len(in_queue') <= Elapsed'
            BY <2>2, <2>3, <2>5 DEF Blocked
        <3> QED
            BY <1>1, <2>7, <3>1, <3>2, <3>3 DEF Blocked
    <2>12. Freed => Freed'
        BY <1>1, <2>4, <2>7, SessionNumbers DEF Freed
    <2> QED
        BY <1>1, <2>1, <2>6, <2>8, <2>9, <2>10, <2>11, <2>12 DEF Prospects
<1> QED
    BY <1>1, <1>5, <1>6 DEF ReasonInv

LEMMA ReasonStutter == ReasonInv /\ UNCHANGED vars => ReasonInv'
BY DEF vars, clientVars, serverVars, historyVars, ReasonInv, Prospects, Hope, Unheard, Late,
       Blocked, Freed, Findable, Requests, Answers, LastRequest, Elapsed, ExitHasReason

\* When packets travel for less than an attempt, a client gives up for a reason
\* only: all requests but one were lost, an answer was lost, or it was started too
\* soon after it quit (Connect, HandleCreateSession, PurgeStaleSessions).
THEOREM ExitsHaveReasons == Timely => (Spec => []ExitHasReason)
<1> SUFFICES ASSUME Timely
             PROVE  Spec => []ExitHasReason
    OBVIOUS
<1>1. TypeInv /\ TypeInv' /\ ReasonInv /\ [Next]_vars => ReasonInv'
    BY ReasonPoll, ReasonCreate, ReasonPurge, ReasonArrive, ReasonLose, ReasonTick, ReasonStutter
    DEF Next
<1>2. ReasonInv => ExitHasReason
    BY DEF ReasonInv
<1>3. Init => ReasonInv
    BY ReasonInit
<1> QED
    BY <1>1, <1>2, <1>3, SpecTypeInv, PTL DEF Spec

\* The periods of the code meet both assumptions, for packets that travel up to
\* 200 ms (client/client.cpp:117 and 137, server/server.cpp:83, server/server.h:22).
THEOREM PeriodsOfTheCode ==
    RetryDelay = 3 /\ MaxAttempts = 10 /\ MAX_SESSION_AGE = 25 /\ PurgePeriod = 10 /\ MaxDelay <= 2
        => PeriodsFit /\ Timely
BY Constants DEF PeriodsFit, Timely, Surplus, Ticks
=============================================================================
