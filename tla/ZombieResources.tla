--------------------------- MODULE ZombieResources ---------------------------
(***************************************************************************)
(* The connections of SDK clients and the mark "is_active" of the producer *)
(* a client made over its connection.  Connecting and disconnecting update *)
(* the mark in goroutines of their own, so the updates of one connection   *)
(* id, which a client keeps when it reconnects, are applied in any order.  *)
(* Where no disconnection is noticed (a broker crashed) the leader's       *)
(* reaper marks the producer: every 15 minutes it asks all brokers which   *)
(* connections they have, waits two minutes and counts a strike against    *)
(* every active connection nobody named; the third strike kills.           *)
(***************************************************************************)
EXTENDS Naturals

CONSTANTS
    Brokers, Conns,
    Nowhere,     \* a client that is not connected
    Expiry,      \* ticks of the reaper after which a candidate is forgotten
    MaxPend,     \* bound on the updates of one connection and kind under way
    MaxMoves,    \* bound on connects after the first
    MaxFaults    \* bound on crashes, lost answers, failed statements, elections

VARIABLES
    at,       \* the broker each client is connected to
    half,     \* connections a broker has and their clients have left
    asked,    \* clients whose request for a producer is under way
    row,      \* is_active of the client's producer
    pend,     \* updates under way, per connection and value
    leader,
    reaper,   \* killFunc at each broker
    strikes, age,   \* zombieCandidates of each broker: count, ticks since lastUpdate
    moves, faults,
    misses,   \* history: iterations that did not hear of the connection
    why       \* history: what last made the row of an open connection inactive

vars == <<at, half, asked, row, pend, leader, reaper, strikes, age, moves, faults, misses, why>>

Idle == [pc |-> "idle", known |-> {}, wait |-> {}, heard |-> {}]

TypeOK ==
    /\ at \in [Conns -> Brokers \cup {Nowhere}]
    /\ half \subseteq Brokers \X Conns
    /\ asked \subseteq Conns
    /\ row \in [Conns -> {"none", "active", "inactive"}]
    /\ pend \in [Conns -> [BOOLEAN -> 0..MaxPend]]
    /\ leader \in Brokers
    /\ reaper \in [Brokers -> [pc : {"idle", "asking", "killing"}, known : SUBSET Conns,
                               wait : SUBSET Brokers, heard : SUBSET Conns]]
    /\ strikes \in [Brokers -> [Conns -> 0..2]]
    /\ age \in [Brokers -> [Conns -> 0..Expiry + 1]]
    /\ moves \in 0..MaxMoves /\ faults \in 0..MaxFaults
    /\ misses \in [Conns -> 0..3]
    /\ why \in [Conns -> {"fresh", "overtaken", "failed", "killed"}]

Init ==
    /\ at \in [Conns -> Brokers]
    /\ half = {} /\ asked = {}
    /\ row = [c \in Conns |-> "none"]
    /\ pend = [c \in Conns |-> [v \in BOOLEAN |-> 0]]
    /\ leader \in Brokers
    /\ reaper = [b \in Brokers |-> Idle]
    /\ strikes = [b \in Brokers |-> [c \in Conns |-> 0]]
    /\ age = [b \in Brokers |-> [c \in Conns |-> 0]]
    /\ moves = 0 /\ faults = 0
    /\ misses = [c \in Conns |-> 0]
    /\ why = [c \in Conns |-> "fresh"]

Fault == faults < MaxFaults /\ faults' = faults + 1

\* UpdateProducersCounsumersConnection(c, v) starts.
Start(c, v) ==
    /\ pend[c][v] < MaxPend
    /\ pend' = [pend EXCEPT ![c][v] = @ + 1]

-----------------------------------------------------------------------------
(* Clients and their connections. *)

\* handleConnectMessage.  The broker the client was at has not noticed that it left
\* if the client was connected.
HandleConnect(c, b) ==
    /\ moves < MaxMoves /\ moves' = moves + 1
    /\ half' = IF at[c] = Nowhere THEN half ELSE half \cup {<<at[c], c>>}
    /\ at' = [at EXCEPT ![c] = b]
    /\ Start(c, TRUE)
    /\ UNCHANGED <<asked, row, leader, reaper, strikes, age, faults, misses, why>>

\* The client goes away; its broker may notice at once or later.
Disconnect(c) ==
    /\ at[c] # Nowhere
    /\ half' = half \cup {<<at[c], c>>}
    /\ at' = [at EXCEPT ![c] = Nowhere]
    /\ UNCHANGED <<asked, row, pend, leader, reaper, strikes, age, moves, faults, misses, why>>

\* saveClosedClient, updateDisconnection.
Notice(b, c) ==
    /\ <<b, c>> \in half
    /\ half' = half \ {<<b, c>>}
    /\ Start(c, FALSE)
    /\ UNCHANGED <<at, asked, row, leader, reaper, strikes, age, moves, faults, misses, why>>

\* One statement marks the rows of the connection, whoever has it now.
UpdateConnection(c, v) ==
    /\ pend[c][v] > 0
    /\ pend' = [pend EXCEPT ![c][v] = @ - 1]
    /\ row' = [row EXCEPT ![c] = IF @ = "none" THEN @ ELSE IF v THEN "active" ELSE "inactive"]
    /\ why' = [why EXCEPT ![c] = IF row[c] = "none" \/ v \/ at[c] = Nowhere THEN "fresh" ELSE "overtaken"]
    /\ UNCHANGED <<at, half, asked, leader, reaper, strikes, age, moves, faults, misses>>

UpdateFails(c, v) ==
    /\ pend[c][v] > 0
    /\ Fault
    /\ pend' = [pend EXCEPT ![c][v] = @ - 1]
    /\ why' = [why EXCEPT ![c] = IF v THEN "failed" ELSE @]
    /\ UNCHANGED <<at, half, asked, row, leader, reaper, strikes, age, moves, misses>>

\* createProducerDirect answers a request whose client may have gone meanwhile.
AskProducer(c) ==
    /\ at[c] # Nowhere /\ row[c] = "none" /\ c \notin asked
    /\ asked' = asked \cup {c}
    /\ UNCHANGED <<at, half, row, pend, leader, reaper, strikes, age, moves, faults, misses, why>>

InsertNewProducer(c) ==
    /\ c \in asked
    /\ asked' = asked \ {c}
    /\ row' = [row EXCEPT ![c] = "active"]
    /\ why' = [why EXCEPT ![c] = "fresh"]
    /\ UNCHANGED <<at, half, pend, leader, reaper, strikes, age, moves, faults, misses>>

\* A broker dies and starts again.  No connection of its clients is noticed as closed.
Crash(b) ==
    /\ Fault
    /\ at' = [c \in Conns |-> IF at[c] = b THEN Nowhere ELSE at[c]]
    /\ half' = {h \in half : h[1] # b}
    /\ reaper' = [reaper EXCEPT ![b] = Idle]
    /\ strikes' = [strikes EXCEPT ![b] = [c \in Conns |-> 0]]
    /\ age' = [age EXCEPT ![b] = [c \in Conns |-> 0]]
    /\ \E n \in Brokers : leader' = n
    /\ UNCHANGED <<asked, row, pend, moves, misses, why>>

Elect(b) ==
    /\ b # leader
    /\ Fault
    /\ leader' = b
    /\ UNCHANGED <<at, half, asked, row, pend, reaper, strikes, age, moves, misses, why>>

-----------------------------------------------------------------------------
(* The reaper. *)

\* A tick of KillZombieResources at broker b: GetActiveConnections and the question.
\* A tick while killFunc runs waits for it.
Tick(b) ==
    LET known == {c \in Conns : row[c] = "active"}
    IN  /\ reaper[b].pc = "idle"
        /\ age' = [age EXCEPT ![b] = [c \in Conns |->
                      IF strikes[b][c] > 0 /\ @[c] <= Expiry THEN @[c] + 1 ELSE @[c]]]
        /\ reaper' = IF b # leader \/ known = {} THEN reaper
                     ELSE [reaper EXCEPT ![b] = [pc |-> "asking", known |-> known,
                                                 wait |-> Brokers, heard |-> {}]]
        /\ UNCHANGED <<at, half, asked, row, pend, leader, strikes, moves, faults, misses, why>>

\* ListenForZombieConnCheckRequests of broker o: Connz, also of what it has not noticed.
Answer(b, o) ==
    /\ o \in reaper[b].wait
    /\ reaper' = [reaper EXCEPT ![b].wait = @ \ {o},
                                ![b].heard = @ \cup {c \in Conns : at[c] = o \/ <<o, c>> \in half}]
    /\ UNCHANGED <<at, half, asked, row, pend, leader, strikes, age, moves, faults, misses, why>>

\* The question or the answer is lost, or comes after the two minutes.
AnswerLost(b, o) ==
    /\ o \in reaper[b].wait
    /\ Fault
    /\ reaper' = [reaper EXCEPT ![b].wait = @ \ {o}]
    /\ UNCHANGED <<at, half, asked, row, pend, leader, strikes, age, moves, misses, why>>

\* Mutant: the second strike kills.
MutTwoStrikes(n) == n >= 2

\* The third strike kills and forgets the candidate.
IsZombie(n) == n >= 3

\* Mutant: the candidates do not outlive the iteration.
MutForgetAll(n) == {TRUE}

\* A candidate whose last strike is an hour old is forgotten, after the strikes of this
\* iteration were counted.  At the fourth tick the hour may be over or just not.
Forgotten(n) ==
    CASE n < Expiry -> {FALSE}
      [] n = Expiry -> BOOLEAN
      [] n > Expiry -> {TRUE}

\* The two minutes are over: the candidates are counted.
Strike(b) ==
    LET unheard == reaper[b].known \ reaper[b].heard
        count(c) == strikes[b][c] + IF c \in unheard THEN 1 ELSE 0
        zombies == {c \in unheard : IsZombie(count(c))}
        since(c) == IF c \in unheard THEN 0 ELSE age[b][c]
    IN  /\ reaper[b].pc = "asking" /\ reaper[b].wait = {}
        /\ \E gone \in SUBSET Conns :
            /\ \A c \in Conns : (c \in gone) \in IF c \in zombies THEN {TRUE} ELSE Forgotten(since(c))
            /\ strikes' = [strikes EXCEPT ![b] = [c \in Conns |-> IF c \in gone THEN 0 ELSE count(c)]]
            /\ age' = [age EXCEPT ![b] = [c \in Conns |-> IF c \in gone THEN 0 ELSE since(c)]]
        /\ misses' = [c \in Conns |-> IF c \in unheard /\ misses[c] < 3 THEN misses[c] + 1 ELSE misses[c]]
        /\ reaper' = [reaper EXCEPT ![b] = IF zombies = {} THEN Idle
                                           ELSE [Idle EXCEPT !.pc = "killing", !.known = zombies]]
        /\ UNCHANGED <<at, half, asked, row, pend, leader, moves, faults, why>>

\* KillProducersByConnections, KillConsumersByConnections.
Kill(b) ==
    /\ reaper[b].pc = "killing"
    /\ LET hit == {c \in reaper[b].known : row[c] = "active"}
       IN  /\ row' = [c \in Conns |-> IF c \in hit THEN "inactive" ELSE row[c]]
           /\ why' = [c \in Conns |-> IF c \in hit THEN "killed" ELSE why[c]]
    /\ reaper' = [reaper EXCEPT ![b] = Idle]
    /\ UNCHANGED <<at, half, asked, pend, leader, strikes, age, moves, faults, misses>>

\* The statement fails; the candidates are already forgotten.
KillFails(b) ==
    /\ reaper[b].pc = "killing"
    /\ Fault
    /\ reaper' = [reaper EXCEPT ![b] = Idle]
    /\ UNCHANGED <<at, half, asked, row, pend, leader, strikes, age, moves, misses, why>>

Next ==
    \/ \E c \in Conns : Disconnect(c) \/ AskProducer(c) \/ InsertNewProducer(c)
    \/ \E c \in Conns, v \in BOOLEAN : UpdateConnection(c, v) \/ UpdateFails(c, v)
    \/ \E b \in Brokers, c \in Conns : HandleConnect(c, b) \/ Notice(b, c)
    \/ \E b \in Brokers : Crash(b) \/ Elect(b) \/ Tick(b) \/ Strike(b) \/ Kill(b) \/ KillFails(b)
    \/ \E b \in Brokers, o \in Brokers : Answer(b, o) \/ AnswerLost(b, o)

Spec == Init /\ [][Next]_vars

\* The ticker ticks, the two minutes end, questions are answered or lost, a broker
\* notices that a connection is dead (by its pings), and statements end.
Fairness ==
    /\ \A b \in Brokers : WF_vars(Tick(b)) /\ WF_vars(Strike(b)) /\ WF_vars(Kill(b) \/ KillFails(b))
    /\ \A b \in Brokers, o \in Brokers : WF_vars(Answer(b, o) \/ AnswerLost(b, o))
    /\ \A b \in Brokers, c \in Conns : WF_vars(Notice(b, c))
    /\ \A c \in Conns, v \in BOOLEAN : WF_vars(UpdateConnection(c, v) \/ UpdateFails(c, v))

FairSpec == Spec /\ Fairness

-----------------------------------------------------------------------------
(* Properties. *)

\* With no update or request under way the producer of an open connection that its old
\* broker has forgotten is active, unless the last word was that of a late disconnection,
\* its own update failed, or the reaper killed it, which it does only after three
\* iterations in which no broker named the connection.
ActiveAgrees ==
    \A c \in Conns :
        (at[c] # Nowhere /\ pend[c] = [v \in BOOLEAN |-> 0] /\ row[c] = "inactive") =>
            why[c] \in {"overtaken", "failed"} \/ (why[c] = "killed" /\ misses[c] = 3)

\* The producer of a client that has gone does not stay active for ever.
ZombiesEnd ==
    \A c \in Conns :
        (at[c] = Nowhere /\ row[c] = "active") ~> (at[c] # Nowhere \/ row[c] = "inactive")
=============================================================================
