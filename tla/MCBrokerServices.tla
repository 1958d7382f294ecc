-------------------------- MODULE MCBrokerServices ---------------------------
(*
Two services of the broker that keep state about clients in two places: the user
cache and the reaper of zombie resources. They have no state in common, so they
are checked side by side and not interleaved: "service" says which is looked at.
*)
EXTENDS Naturals

CONSTANTS
    None,        \* a variable of the service that is not looked at
    Brokers, Users, Conns,
    NoUser, MaxId, MaxFills,                \* of UserCache
    Nowhere, Expiry, MaxPend, MaxMoves,     \* of ZombieResources
    MaxFaults

ASSUME BrokerServicesAssumption ==
    /\ {MaxId, MaxFills, Expiry, MaxPend, MaxMoves, MaxFaults} \subseteq Nat
    /\ MaxId > 0
    /\ NoUser \notin [id : 1..MaxId, role : BOOLEAN]

VARIABLES
    service,   \* the one looked at
    db, nextId, cache, fills, adds, removals, updates, faults, why, at, half, asked, row,
    pend, leader, reaper, strikes, age, moves, misses

vars == <<service, db, nextId, cache, fills, adds, removals, updates, faults, why, at, half, asked, row,
          pend, leader, reaper, strikes, age, moves, misses>>

Caches == INSTANCE UserCache
Zombies == INSTANCE ZombieResources

\* The variables that only one service has; they are None for the other.
cachesVars == <<db, nextId, cache, fills, adds, removals, updates>>
zombiesVars == <<at, half, asked, row, pend, leader, reaper, strikes, age, moves, misses>>

CachesOff == db = None /\ nextId = None /\ cache = None /\ fills = None /\ adds = None /\
            removals = None /\ updates = None
ZombiesOff == at = None /\ half = None /\ asked = None /\ row = None /\ pend = None /\
              leader = None /\ reaper = None /\ strikes = None /\ age = None /\
              moves = None /\ misses = None

Init ==
    \/ /\ service = "users" /\ Caches!Init
       /\ ZombiesOff
    \/ /\ service = "zombies" /\ Zombies!Init
       /\ CachesOff

Next ==
    \/ /\ service = "users" /\ Caches!Next
       /\ UNCHANGED <<service, zombiesVars>>
    \/ /\ service = "zombies" /\ Zombies!Next
       /\ UNCHANGED <<service, cachesVars>>

Spec == Init /\ [][Next]_vars

\* The reaper's ticker ticks, its two minutes end, questions are answered or lost,
\* a broker notices that a connection is dead, and statements end.
Fairness ==
    /\ \A b \in Brokers :
        /\ WF_(Zombies!vars)(service = "zombies" /\ Zombies!Tick(b))
        /\ WF_(Zombies!vars)(service = "zombies" /\ Zombies!Strike(b))
        /\ WF_(Zombies!vars)(service = "zombies" /\ (Zombies!Kill(b) \/ Zombies!KillFails(b)))
        /\ \A c \in Conns : WF_(Zombies!vars)(service = "zombies" /\ Zombies!Notice(b, c))
        /\ \A o \in Brokers :
            WF_(Zombies!vars)(service = "zombies" /\ (Zombies!Answer(b, o) \/ Zombies!AnswerLost(b, o)))
    /\ \A c \in Conns, v \in BOOLEAN :
        WF_(Zombies!vars)(service = "zombies" /\ (Zombies!UpdateConnection(c, v) \/ Zombies!UpdateFails(c, v)))

FairSpec == Spec /\ Fairness

-----------------------------------------------------------------------------
TypeOK ==
    /\ service = "users" => Caches!TypeOK
    /\ service = "zombies" => Zombies!TypeOK

\* On well-typed states, an entry of a user cache is the row of the user, or the
\* message that deletes it is under way, or it was put in after its row had
\* changed, its deletion was not told to the broker, or the role of the user was
\* attached after it was read.
StaleExplained ==
    /\ TypeOK
    /\ service = "users" => Caches!StaleExplained

\* The producer of an open connection with no update under way is active, unless
\* a late disconnection had the last word, the update of its connect failed, or
\* the reaper killed it, which takes three iterations in which no broker named
\* the connection.
ActiveAgrees == service = "zombies" => Zombies!ActiveAgrees

\* The producer of a client that has gone does not stay active for ever.
ZombiesEnd ==
    \A c \in Conns :
        (service = "zombies" /\ at[c] = Nowhere /\ row[c] = "active")
            ~> (service = "zombies" => at[c] # Nowhere \/ row[c] = "inactive")
=============================================================================
