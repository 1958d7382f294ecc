------------------------ MODULE BrokerServicesProofs ------------------------
(***************************************************************************)
(* What holds of the user caches and of the reaper for any number of       *)
(* brokers, users and connections and any bounds.                          *)
(***************************************************************************)
EXTENDS MCBrokerServices, TLAPS

-----------------------------------------------------------------------------
(* The user caches. *)

\* Every list of the users U names exactly the users in U.
LEMMA ListNames ==
    ASSUME NEW U, NEW s \in Caches!ListsOf(U)
    PROVE  {s[k] : k \in DOMAIN s} = U
BY DEF Caches!ListsOf

\* Attaching the role to a entry gives a entry, the same one if it had the role.
LEMMA RoleAttached ==
    ASSUME NEW entry \in Caches!Row
    PROVE  /\ [entry EXCEPT !.role = TRUE] \in Caches!Row
           /\ entry.role => [entry EXCEPT !.role = TRUE] = entry
<1> DEFINE new == [entry EXCEPT !.role = TRUE]
<1>1. entry.id \in 1..MaxId /\ entry.role \in BOOLEAN
  BY DEF Caches!Row
<1>2. new \in Caches!Row
  BY DEF Caches!Row
<1>3. new.id = entry.id /\ new.role = TRUE
  BY DEF Caches!Row
<1>4. ASSUME entry.role PROVE new = entry
  <2>1. entry.role = TRUE
    BY <1>1, <1>4
  <2> HIDE DEF new
  <2> QED
    BY <1>2, <1>3, <2>1 DEF Caches!Row
<1> QED
  BY <1>2, <1>4

\* An entry that is put into a cache.
LEMMA PutTypes ==
    ASSUME Caches!TypeOK, NEW b \in Brokers, NEW u \in Users, NEW entry \in Caches!Row, Caches!Put(b, u, entry)
    PROVE  /\ cache' \in [Brokers -> [Users -> Caches!Row \cup {NoUser}]]
           /\ why' \in [Brokers -> [Users -> {"fresh", "late", "missed", "role"}]]
           /\ \A c \in Brokers, v \in Users : cache'[c][v] = NoUser => why'[c][v] = "fresh"
<1>1. cache \in [Brokers -> [Users -> Caches!Row \cup {NoUser}]] /\ cache' = [cache EXCEPT ![b][u] = entry]
  BY DEF Caches!TypeOK, Caches!Put
<1>2. cache' \in [Brokers -> [Users -> Caches!Row \cup {NoUser}]]
  BY <1>1
<1> DEFINE reason == IF entry = db[u] THEN "fresh" ELSE "late"
<1>3. /\ why \in [Brokers -> [Users -> {"fresh", "late", "missed", "role"}]]
      /\ why' = [why EXCEPT ![b][u] = reason] /\ reason \in {"fresh", "late"}
  BY DEF Caches!TypeOK, Caches!Put
<1> HIDE DEF reason
<1>4. why' \in [Brokers -> [Users -> {"fresh", "late", "missed", "role"}]]
  BY <1>3
<1>5. ASSUME NEW c \in Brokers, NEW v \in Users, cache'[c][v] = NoUser PROVE why'[c][v] = "fresh"
  <2>1. entry # NoUser
    BY BrokerServicesAssumption DEF Caches!Row
  <2>2. cache'[b][u] = entry
    BY <1>1
  <2>3. ~(c = b /\ v = u)
    BY <1>5, <2>1, <2>2
  <2>4. cache'[c][v] = cache[c][v]
    BY <1>1, <2>3
  <2>5. why'[c][v] = why[c][v]
    BY <1>3, <2>3
  <2> QED
    BY <1>5, <2>4, <2>5 DEF Caches!TypeOK
<1> QED
  BY <1>2, <1>4, <1>5

\* Every step keeps tables, caches, handlers and messages well typed; in particular a
\* cache has no history for a user it has no entry of.
LEMMA CachesTypeStep ==
    ASSUME Caches!TypeOK, [Caches!Next]_(Caches!vars)
    PROVE  Caches!TypeOK'
<1> USE BrokerServicesAssumption
<1> USE DEF Caches!TypeOK
<1>1. CASE UNCHANGED Caches!vars
  BY <1>1 DEF Caches!vars
<1>2. ASSUME NEW b \in Brokers, NEW u \in Users, Caches!GetUserByUsername(b, u) PROVE Caches!TypeOK'
  BY <1>2 DEF Caches!GetUserByUsername, Caches!Job
<1>3. ASSUME NEW b \in Brokers, NEW u \in Users, Caches!Evict(b, u) PROVE Caches!TypeOK'
  BY <1>3 DEF Caches!Evict
<1>4. ASSUME NEW b \in Brokers, NEW u \in Users, Caches!CreateUser(b, u) PROVE Caches!TypeOK'
  <2> DEFINE entry == [id |-> nextId, role |-> FALSE]
  <2>1. entry \in Caches!Row /\ nextId' \in 1..MaxId + 1
    BY <1>4 DEF Caches!CreateUser, Caches!Row
  <2> HIDE DEF entry
  <2>2. db' = [db EXCEPT ![u] = entry] /\ adds' = adds \cup {[at |-> b, user |-> u, row |-> entry]}
    BY <1>4 DEF Caches!CreateUser, entry
  <2>3. [at |-> b, user |-> u, row |-> entry] \in Caches!Job
    BY <2>1 DEF Caches!Job
  <2>4. db' \in [Users -> Caches!Row \cup {NoUser}] /\ adds' \subseteq Caches!Job
    BY <2>1, <2>2, <2>3
  <2>5. UNCHANGED <<cache, fills, removals, updates, faults, why>>
    BY <1>4 DEF Caches!CreateUser
  <2> QED
    BY <2>1, <2>4, <2>5
<1>5. ASSUME NEW b \in Brokers, NEW u \in Users, Caches!DeleteUser(b, u) PROVE Caches!TypeOK'
  BY <1>5 DEF Caches!DeleteUser
<1>6. ASSUME NEW f \in fills, Caches!SetUser(f) PROVE Caches!TypeOK'
  <2>1. f.at \in Brokers /\ f.user \in Users /\ f.row \in Caches!Row
    BY DEF Caches!Job
  <2>2. /\ Caches!Put(f.at, f.user, f.row) /\ fills' \subseteq Caches!Job
        /\ UNCHANGED <<db, nextId, adds, removals, updates, faults>>
    BY <1>6 DEF Caches!SetUser
  <2> QED
    BY <2>1, <2>2, PutTypes
<1>7. ASSUME NEW a \in adds, Caches!UpdateUserRole(a) PROVE Caches!TypeOK'
  <2>0. a \in Caches!Job /\ a.user \in Users /\ a.row \in Caches!Row
    BY DEF Caches!Job
  <2>1. [a EXCEPT !.row.role = TRUE] \in Caches!Job
    <3> DEFINE entry == [a.row EXCEPT !.role = TRUE]
    <3>1. entry \in Caches!Row
      BY <2>0, RoleAttached
    <3>2. [a EXCEPT !.row.role = TRUE] = [a EXCEPT !.row = entry]
      OBVIOUS
    <3> HIDE DEF entry
    <3> QED
      BY <2>0, <3>1, <3>2 DEF Caches!Job
  <2>2. adds' \subseteq Caches!Job
    BY <1>7, <2>1 DEF Caches!UpdateUserRole
  <2>3. UNCHANGED <<nextId, cache, fills, removals, updates, faults>>
    BY <1>7 DEF Caches!UpdateUserRole
  <2>4. CASE db[a.user] = NoUser
    BY <1>7, <2>2, <2>3, <2>4 DEF Caches!UpdateUserRole
  <2>5. CASE db[a.user] # NoUser
    <3>1. db' \in [Users -> Caches!Row \cup {NoUser}]
      <4> DEFINE entry == [db[a.user] EXCEPT !.role = TRUE]
      <4>1. db' = [db EXCEPT ![a.user] = entry]
        BY <1>7, <2>5 DEF Caches!UpdateUserRole
      <4>2. entry \in Caches!Row
        BY <2>0, <2>5, RoleAttached
      <4> HIDE DEF entry
      <4> QED
        BY <2>0, <4>1, <4>2
    <3>2. why' = [b \in Brokers |-> [why[b] EXCEPT ![a.user] =
                      IF cache[b][a.user] = db[a.user] /\ ~db[a.user].role THEN "role" ELSE @]]
      BY <1>7, <2>5 DEF Caches!UpdateUserRole
    <3>3. why' \in [Brokers -> [Users -> {"fresh", "late", "missed", "role"}]]
      <4> SUFFICES ASSUME NEW b \in Brokers
                   PROVE  why'[b] \in [Users -> {"fresh", "late", "missed", "role"}]
        BY <3>2
      <4> QED
        BY <2>0, <3>2
    <3>4. ASSUME NEW b \in Brokers, NEW u \in Users, cache[b][u] = NoUser
          PROVE  why'[b][u] = "fresh"
      BY <2>0, <2>5, <3>2, <3>4
    <3> QED
      BY <2>2, <2>3, <3>1, <3>3, <3>4
  <2> QED
    BY <2>4, <2>5
<1>8. ASSUME NEW a \in adds, Caches!AddDone(a) PROVE Caches!TypeOK'
  <2>1. a.at \in Brokers /\ a.user \in Users /\ a.row \in Caches!Row
    BY DEF Caches!Job
  <2>2. /\ Caches!Put(a.at, a.user, a.row) /\ adds' \subseteq Caches!Job
        /\ UNCHANGED <<db, nextId, fills, removals, updates, faults>>
    BY <1>8 DEF Caches!AddDone
  <2> QED
    BY <2>1, <2>2, PutTypes
<1>9. ASSUME NEW a \in adds, Caches!AddFails(a) PROVE Caches!TypeOK'
  BY <1>9 DEF Caches!AddFails, Caches!Fault
<1>10. ASSUME NEW r \in removals, Caches!SendUserDeleteCacheUpdate(r) PROVE Caches!TypeOK'
  BY <1>10, ListNames DEF Caches!SendUserDeleteCacheUpdate
<1>11. ASSUME NEW r \in removals, Caches!RemoveFails(r) PROVE Caches!TypeOK'
  BY <1>11 DEF Caches!RemoveFails, Caches!Fault, Caches!Missed
<1>12. ASSUME NEW m \in updates, Caches!ListenForCacheUpdates(m) PROVE Caches!TypeOK'
  BY <1>12 DEF Caches!ListenForCacheUpdates
<1>13. ASSUME NEW m \in updates, Caches!LoseUpdate(m) PROVE Caches!TypeOK'
  BY <1>13 DEF Caches!LoseUpdate, Caches!Fault, Caches!Missed
<1>14. ASSUME NEW b \in Brokers, Caches!DeleteUsersByTenant(b) PROVE Caches!TypeOK'
  BY <1>14 DEF Caches!DeleteUsersByTenant
<1>15. ASSUME NEW b \in Brokers, Caches!Restart(b) PROVE Caches!TypeOK'
  BY <1>15 DEF Caches!Restart, Caches!Fault, Caches!Job
<1> QED
  BY <1>1, <1>2, <1>3, <1>4, <1>5, <1>6, <1>7, <1>8, <1>9, <1>10, <1>11, <1>12, <1>13,
     <1>14, <1>15 DEF Caches!Next

\* A step of any handler, message, eviction or restart leaves every entry of every cache
\* equal to its entry, about to be deleted, or marked with what went wrong.
LEMMA CachesStep ==
    ASSUME Caches!TypeOK, Caches!TypeOK', Caches!StaleExplained, [Caches!Next]_(Caches!vars)
    PROVE  Caches!StaleExplained'
<1> SUFFICES ASSUME NEW c \in Brokers, NEW v \in Users
             PROVE  (cache[c][v] \in {NoUser, db[v]} \/ why[c][v] # "fresh" \/ Caches!Pending(c, v))'
  BY DEF Caches!StaleExplained
<1> DEFINE Ok == cache[c][v] \in {NoUser, db[v]} \/ why[c][v] # "fresh" \/ Caches!Pending(c, v)
<1> Ok
  BY DEF Caches!StaleExplained
<1> USE DEF Caches!TypeOK, Caches!Pending
<1>1. CASE UNCHANGED Caches!vars
  BY <1>1 DEF Caches!vars
<1>2. ASSUME NEW b \in Brokers, NEW u \in Users, Caches!GetUserByUsername(b, u) PROVE Ok'
  BY <1>2 DEF Caches!GetUserByUsername
<1>3. ASSUME NEW b \in Brokers, NEW u \in Users, Caches!Evict(b, u) PROVE Ok'
  BY <1>3 DEF Caches!Evict
<1>4. ASSUME NEW b \in Brokers, NEW u \in Users, Caches!CreateUser(b, u) PROVE Ok'
  BY <1>4 DEF Caches!CreateUser
<1>5. ASSUME NEW b \in Brokers, NEW u \in Users, Caches!DeleteUser(b, u) PROVE Ok'
  BY <1>5 DEF Caches!DeleteUser
<1>6. ASSUME NEW f \in fills, Caches!SetUser(f) PROVE Ok'
  BY <1>6 DEF Caches!SetUser, Caches!Put, Caches!Job
<1>7. ASSUME NEW a \in adds, Caches!UpdateUserRole(a) PROVE Ok'
  <2>1. a.user \in Users /\ UNCHANGED <<cache, removals, updates>>
    BY <1>7 DEF Caches!UpdateUserRole, Caches!Job
  <2>2. CASE db[a.user] = NoUser \/ v # a.user
    <3>1. db'[v] = db[v] /\ why'[c][v] = why[c][v]
      BY <1>7, <2>1, <2>2 DEF Caches!UpdateUserRole
    <3> QED
      BY <2>1, <3>1
  <2>3. CASE db[a.user] # NoUser /\ v = a.user
    <3>1. db' = [db EXCEPT ![v].role = TRUE]
      BY <1>7, <2>3 DEF Caches!UpdateUserRole
    <3>2. why'[c][v] = IF cache[c][v] = db[v] /\ ~db[v].role THEN "role" ELSE why[c][v]
      BY <1>7, <2>3 DEF Caches!UpdateUserRole
    <3>3. db[v].role => db'[v] = db[v]
      <4>1. db[v] \in Caches!Row
        BY <2>3
      <4> QED
        BY <3>1, <4>1, RoleAttached
    <3> QED
      BY <2>1, <3>2, <3>3
  <2> QED
    BY <2>2, <2>3
<1>8. ASSUME NEW a \in adds, Caches!AddDone(a) PROVE Ok'
  BY <1>8 DEF Caches!AddDone, Caches!Put, Caches!Job
<1>9. ASSUME NEW a \in adds, Caches!AddFails(a) PROVE Ok'
  BY <1>9 DEF Caches!AddFails
<1>10. ASSUME NEW r \in removals, Caches!SendUserDeleteCacheUpdate(r) PROVE Ok'
  <2>1. PICK s \in Caches!ListsOf(r.users) : updates' = {[to |-> b, users |-> s] : b \in Brokers}
    BY <1>10 DEF Caches!SendUserDeleteCacheUpdate
  <2>2. [to |-> c, users |-> s] \in updates'
    BY <2>1
  <2>3. v \in r.users => \E k \in DOMAIN s : s[k] = v
    BY ListNames
  <2> QED
    BY <1>10, <2>2, <2>3 DEF Caches!SendUserDeleteCacheUpdate
<1>11. ASSUME NEW r \in removals, Caches!RemoveFails(r) PROVE Ok'
  BY <1>11 DEF Caches!RemoveFails, Caches!Missed
<1>12. ASSUME NEW m \in updates, Caches!ListenForCacheUpdates(m) PROVE Ok'
  BY <1>12 DEF Caches!ListenForCacheUpdates
<1>13. ASSUME NEW m \in updates, Caches!LoseUpdate(m) PROVE Ok'
  BY <1>13, SMTT(30) DEF Caches!LoseUpdate, Caches!Missed
<1>14. ASSUME NEW b \in Brokers, Caches!DeleteUsersByTenant(b) PROVE Ok'
  BY <1>14 DEF Caches!DeleteUsersByTenant
<1>15. ASSUME NEW b \in Brokers, Caches!Restart(b) PROVE Ok'
  BY <1>15 DEF Caches!Restart
<1> QED
  BY <1>1, <1>2, <1>3, <1>4, <1>5, <1>6, <1>7, <1>8, <1>9, <1>10, <1>11, <1>12, <1>13,
     <1>14, <1>15 DEF Caches!Next

-----------------------------------------------------------------------------
(* The reaper. *)

\* What an iteration of the reaper leaves behind: a candidate that stays has fewer than
\* three strikes, each counted in misses, and what is to be killed was missed three times.
LEMMA StrikeCounts ==
    ASSUME Zombies!TypeOK, NEW b \in Brokers, Zombies!Strike(b)
    PROVE  /\ strikes' \in [Brokers -> [Conns -> 0..2]]
           /\ age' \in [Brokers -> [Conns -> 0..Expiry + 1]]
           /\ misses' \in [Conns -> 0..3]
           /\ reaper' \in [Brokers -> [pc : {"idle", "asking", "killing"}, known : SUBSET Conns,
                                       wait : SUBSET Brokers, heard : SUBSET Conns]]
           /\ \A c \in Conns :
                 /\ misses[c] <= misses'[c]
                 /\ strikes[b][c] <= misses[c] => strikes'[b][c] <= misses'[c]
                 /\ strikes[b][c] <= misses[c] /\ reaper'[b].pc = "killing" /\ c \in reaper'[b].known
                       => misses'[c] = 3
           /\ \A d \in Brokers \ {b} : strikes'[d] = strikes[d] /\ reaper'[d] = reaper[d]
<1> USE BrokerServicesAssumption
<1> DEFINE unheard == reaper[b].known \ reaper[b].heard
           count(c) == strikes[b][c] + IF c \in unheard THEN 1 ELSE 0
           zombies == {c \in unheard : Zombies!IsZombie(count(c))}
           since(c) == IF c \in unheard THEN 0 ELSE age[b][c]
<1>0. /\ strikes \in [Brokers -> [Conns -> 0..2]] /\ age \in [Brokers -> [Conns -> 0..Expiry + 1]]
      /\ misses \in [Conns -> 0..3] /\ unheard \subseteq Conns
      /\ reaper \in [Brokers -> [pc : {"idle", "asking", "killing"}, known : SUBSET Conns,
                                 wait : SUBSET Brokers, heard : SUBSET Conns]]
  BY DEF Zombies!TypeOK
<1>1. PICK gone \in SUBSET Conns :
        /\ \A c \in Conns : (c \in gone) \in IF c \in zombies THEN {TRUE} ELSE Zombies!Forgotten(since(c))
        /\ strikes' = [strikes EXCEPT ![b] = [c \in Conns |-> IF c \in gone THEN 0 ELSE count(c)]]
        /\ age' = [age EXCEPT ![b] = [c \in Conns |-> IF c \in gone THEN 0 ELSE since(c)]]
  BY DEF Zombies!Strike
<1>2. misses' = [c \in Conns |-> IF c \in unheard /\ misses[c] < 3 THEN misses[c] + 1 ELSE misses[c]]
  BY DEF Zombies!Strike
<1>3. reaper' = [reaper EXCEPT ![b] = IF zombies = {} THEN Zombies!Idle
                                      ELSE [Zombies!Idle EXCEPT !.pc = "killing", !.known = zombies]]
  BY DEF Zombies!Strike
<1>4. \A c \in Conns : since(c) \in 0..Expiry + 1 /\ count(c) \in 0..3
  BY <1>0, SMTT(30)
<1>5. \A c \in zombies : c \in gone /\ c \in unheard /\ count(c) >= 3
  BY <1>0, <1>1 DEF Zombies!IsZombie
<1>6. \A c \in Conns : c \in gone \/ count(c) \in 0..2
  BY <1>0, <1>4, <1>5, SMTT(30) DEF Zombies!IsZombie
<1>7. zombies \subseteq Conns
  BY <1>0
<1> HIDE DEF zombies
<1>8. reaper' \in [Brokers -> [pc : {"idle", "asking", "killing"}, known : SUBSET Conns,
                               wait : SUBSET Brokers, heard : SUBSET Conns]]
  BY <1>0, <1>3, <1>7 DEF Zombies!Idle
<1>9. reaper'[b].pc = "killing" => reaper'[b].known = zombies
  BY <1>0, <1>3 DEF Zombies!Idle
<1>10. /\ strikes' \in [Brokers -> [Conns -> 0..2]]
       /\ age' \in [Brokers -> [Conns -> 0..Expiry + 1]]
       /\ misses' \in [Conns -> 0..3]
  <2>1. [c \in Conns |-> IF c \in gone THEN 0 ELSE count(c)] \in [Conns -> 0..2]
    BY <1>6
  <2>2. [c \in Conns |-> IF c \in gone THEN 0 ELSE since(c)] \in [Conns -> 0..Expiry + 1]
    BY <1>4
  <2>3. misses' \in [Conns -> 0..3]
    BY <1>0, <1>2
  <2> HIDE DEF count, since
  <2> QED
    BY <1>0, <1>1, <2>1, <2>2, <2>3
<1>11. ASSUME NEW c \in Conns
       PROVE  /\ misses[c] <= misses'[c]
              /\ strikes[b][c] <= misses[c] => strikes'[b][c] <= misses'[c]
              /\ strikes[b][c] <= misses[c] /\ c \in zombies => misses'[c] = 3
  <2>1. strikes'[b][c] = IF c \in gone THEN 0 ELSE count(c)
    BY <1>0, <1>1
  <2>2. misses'[c] = IF c \in unheard /\ misses[c] < 3 THEN misses[c] + 1 ELSE misses[c]
    BY <1>2
  <2>3. c \notin gone => count(c) \in 0..2
    BY <1>6
  <2>4. c \in zombies => c \in unheard /\ count(c) >= 3
    BY <1>5
  <2>5. misses[c] \in 0..3 /\ strikes[b][c] \in 0..2
    BY <1>0
  <2> HIDE DEF unheard
  <2> QED
    BY <2>1, <2>2, <2>3, <2>4, <2>5
<1>12. \A d \in Brokers \ {b} : strikes'[d] = strikes[d] /\ reaper'[d] = reaper[d]
  BY <1>0, <1>1, <1>3
<1> QED
  BY <1>8, <1>9, <1>10, <1>11, <1>12

\* A reaper that hears of more, from a broker that answered.
LEMMA Hears ==
    ASSUME NEW S, NEW o, NEW more \in SUBSET Conns,
           NEW it \in [pc : S, known : SUBSET Conns, wait : SUBSET Brokers, heard : SUBSET Conns]
    PROVE  /\ [it EXCEPT !.wait = @ \ {o}, !.heard = @ \cup more]
                \in [pc : S, known : SUBSET Conns, wait : SUBSET Brokers, heard : SUBSET Conns]
           /\ [it EXCEPT !.wait = @ \ {o}]
                \in [pc : S, known : SUBSET Conns, wait : SUBSET Brokers, heard : SUBSET Conns]
<1>1. it.wait \ {o} \in SUBSET Brokers
  OBVIOUS
<1>2. it.heard \cup more \in SUBSET Conns
  OBVIOUS
<1>3. [it EXCEPT !.wait = @ \ {o}] \in [pc : S, known : SUBSET Conns, wait : SUBSET Brokers, heard : SUBSET Conns]
  BY <1>1
<1>4. [it EXCEPT !.wait = @ \ {o}, !.heard = @ \cup more]
        \in [pc : S, known : SUBSET Conns, wait : SUBSET Brokers, heard : SUBSET Conns]
  BY <1>1, <1>2
<1> QED
  BY <1>3, <1>4

\* Connections, rows, updates and the reapers' tables stay well typed.
LEMMA ZombiesTypeStep ==
    ASSUME Zombies!TypeOK, [Zombies!Next]_(Zombies!vars)
    PROVE  Zombies!TypeOK'
<1> USE BrokerServicesAssumption DEF Zombies!TypeOK
<1>1. CASE UNCHANGED Zombies!vars
  BY <1>1 DEF Zombies!vars
<1>2. ASSUME NEW c \in Conns, Zombies!Disconnect(c) \/ Zombies!AskProducer(c) \/ Zombies!InsertNewProducer(c)
      PROVE  Zombies!TypeOK'
  <2>1. CASE Zombies!Disconnect(c)
    <3>1. <<at[c], c>> \in Brokers \X Conns
      BY <2>1 DEF Zombies!Disconnect
    <3> QED
      BY <2>1, <3>1 DEF Zombies!Disconnect
  <2>2. CASE Zombies!AskProducer(c)
    BY <2>2 DEF Zombies!AskProducer
  <2>3. CASE Zombies!InsertNewProducer(c)
    BY <2>3 DEF Zombies!InsertNewProducer
  <2> QED
    BY <1>2, <2>1, <2>2, <2>3
<1>3. ASSUME NEW c \in Conns, NEW v \in BOOLEAN, Zombies!UpdateConnection(c, v) \/ Zombies!UpdateFails(c, v)
      PROVE  Zombies!TypeOK'
  <2>1. pend[c][v] > 0 /\ pend' = [pend EXCEPT ![c][v] = @ - 1]
    BY <1>3 DEF Zombies!UpdateConnection, Zombies!UpdateFails
  <2>2. pend' \in [Conns -> [BOOLEAN -> 0..MaxPend]]
    BY <2>1
  <2>3. CASE Zombies!UpdateConnection(c, v)
    BY <2>2, <2>3 DEF Zombies!UpdateConnection
  <2>4. CASE Zombies!UpdateFails(c, v)
    BY <2>2, <2>4 DEF Zombies!UpdateFails, Zombies!Fault
  <2> QED
    BY <1>3, <2>3, <2>4
<1>4. ASSUME NEW b \in Brokers, NEW c \in Conns, Zombies!HandleConnect(c, b) \/ Zombies!Notice(b, c)
      PROVE  Zombies!TypeOK'
  <2>1. PICK v \in BOOLEAN : pend[c][v] < MaxPend /\ pend' = [pend EXCEPT ![c][v] = @ + 1]
    BY <1>4 DEF Zombies!HandleConnect, Zombies!Notice, Zombies!Start
  <2>2. pend' \in [Conns -> [BOOLEAN -> 0..MaxPend]]
    BY <2>1
  <2>3. CASE Zombies!HandleConnect(c, b)
    <3>1. at[c] # Nowhere => <<at[c], c>> \in Brokers \X Conns
      OBVIOUS
    <3>2. half' \subseteq Brokers \X Conns
      BY <2>3, <3>1 DEF Zombies!HandleConnect
    <3> QED
      BY <2>2, <2>3, <3>2 DEF Zombies!HandleConnect
  <2>4. CASE Zombies!Notice(b, c)
    BY <2>2, <2>4 DEF Zombies!Notice
  <2> QED
    BY <1>4, <2>3, <2>4
<1>5. ASSUME NEW b \in Brokers, Zombies!Crash(b) PROVE Zombies!TypeOK'
  <2>1. reaper' \in [Brokers -> [pc : {"idle", "asking", "killing"}, known : SUBSET Conns,
                                 wait : SUBSET Brokers, heard : SUBSET Conns]]
    BY <1>5 DEF Zombies!Crash, Zombies!Idle
  <2> QED
    BY <1>5, <2>1 DEF Zombies!Crash, Zombies!Fault
<1>6. ASSUME NEW b \in Brokers, Zombies!Elect(b) PROVE Zombies!TypeOK'
  BY <1>6 DEF Zombies!Elect, Zombies!Fault
<1>7. ASSUME NEW b \in Brokers, Zombies!Tick(b) PROVE Zombies!TypeOK'
  <2> DEFINE known == {c \in Conns : row[c] = "active"}
             aged == [c \in Conns |-> IF strikes[b][c] > 0 /\ age[b][c] <= Expiry THEN age[b][c] + 1 ELSE age[b][c]]
             asking == [pc |-> "asking", known |-> known, wait |-> Brokers, heard |-> {}]
  <2>1. aged \in [Conns -> 0..Expiry + 1]
    OBVIOUS
  <2>2. age' = [age EXCEPT ![b] = aged]
    BY <1>7 DEF Zombies!Tick
  <2>3. asking \in [pc : {"idle", "asking", "killing"}, known : SUBSET Conns,
                    wait : SUBSET Brokers, heard : SUBSET Conns]
    OBVIOUS
  <2>4. reaper' = reaper \/ reaper' = [reaper EXCEPT ![b] = asking]
    BY <1>7 DEF Zombies!Tick
  <2>5. UNCHANGED <<at, half, asked, row, pend, leader, strikes, moves, faults, misses, why>>
    BY <1>7 DEF Zombies!Tick
  <2> HIDE DEF aged, asking
  <2>6. age' \in [Brokers -> [Conns -> 0..Expiry + 1]]
    BY <2>1, <2>2
  <2>7. reaper' \in [Brokers -> [pc : {"idle", "asking", "killing"}, known : SUBSET Conns,
                                 wait : SUBSET Brokers, heard : SUBSET Conns]]
    BY <2>3, <2>4
  <2> QED
    BY <2>5, <2>6, <2>7
<1>8. ASSUME NEW b \in Brokers, NEW o \in Brokers, Zombies!Answer(b, o) \/ Zombies!AnswerLost(b, o)
      PROVE  Zombies!TypeOK'
  <2> DEFINE Its == [pc : {"idle", "asking", "killing"}, known : SUBSET Conns,
                     wait : SUBSET Brokers, heard : SUBSET Conns]
             named == {c \in Conns : at[c] = o \/ <<o, c>> \in half}
             answered == [reaper[b] EXCEPT !.wait = @ \ {o}, !.heard = @ \cup named]
             lost == [reaper[b] EXCEPT !.wait = @ \ {o}]
  <2>1. reaper' = [reaper EXCEPT ![b] = answered] \/ reaper' = [reaper EXCEPT ![b] = lost]
    BY <1>8 DEF Zombies!Answer, Zombies!AnswerLost
  <2>2. answered \in Its /\ lost \in Its
    <3>1. reaper[b] \in Its /\ named \in SUBSET Conns
      OBVIOUS
    <3> HIDE DEF named
    <3> QED
      BY <3>1, Hears
  <2> HIDE DEF answered, lost
  <2>3. reaper' \in [Brokers -> Its]
    BY <2>1, <2>2
  <2>4. UNCHANGED <<at, half, asked, row, pend, leader, strikes, age, moves, misses, why>>
    BY <1>8 DEF Zombies!Answer, Zombies!AnswerLost
  <2>5. faults' \in 0..MaxFaults
    BY <1>8 DEF Zombies!Answer, Zombies!AnswerLost, Zombies!Fault
  <2> QED
    BY <2>3, <2>4, <2>5
<1>9. ASSUME NEW b \in Brokers, Zombies!Strike(b) PROVE Zombies!TypeOK'
  BY <1>9, StrikeCounts DEF Zombies!Strike
<1>10. ASSUME NEW b \in Brokers, Zombies!Kill(b) \/ Zombies!KillFails(b) PROVE Zombies!TypeOK'
  <2>1. reaper' = [reaper EXCEPT ![b] = Zombies!Idle]
    BY <1>10 DEF Zombies!Kill, Zombies!KillFails
  <2>2. reaper' \in [Brokers -> [pc : {"idle", "asking", "killing"}, known : SUBSET Conns,
                                 wait : SUBSET Brokers, heard : SUBSET Conns]]
    BY <2>1 DEF Zombies!Idle
  <2>3. CASE Zombies!Kill(b)
    BY <2>2, <2>3 DEF Zombies!Kill
  <2>4. CASE Zombies!KillFails(b)
    BY <2>2, <2>4 DEF Zombies!KillFails, Zombies!Fault
  <2> QED
    BY <1>10, <2>3, <2>4
<1> QED
  BY <1>1, <1>2, <1>3, <1>4, <1>5, <1>6, <1>7, <1>8, <1>9, <1>10 DEF Zombies!Next

-----------------------------------------------------------------------------
(* Why a producer is inactive. *)

\* Every strike was a miss, so a connection that is to be killed was missed three times;
\* the row of a connection is inactive without a reason only until its own update.
StrikesWereMisses ==
    \A b \in Brokers, c \in Conns :
        /\ strikes[b][c] <= misses[c]
        /\ reaper[b].pc = "killing" /\ c \in reaper[b].known => misses[c] = 3

InactiveExplained ==
    \A c \in Conns :
        /\ why[c] = "killed" => misses[c] = 3
        /\ row[c] = "inactive" /\ why[c] = "fresh" => at[c] = Nowhere \/ pend[c][TRUE] > 0

ZombiesInv == Zombies!TypeOK /\ StrikesWereMisses /\ InactiveExplained

LEMMA ZombiesStep ==
    ASSUME ZombiesInv, [Zombies!Next]_(Zombies!vars)
    PROVE  ZombiesInv'
<1>0. Zombies!TypeOK /\ Zombies!TypeOK'
  BY ZombiesTypeStep DEF ZombiesInv
<1> DEFINE Inv == StrikesWereMisses /\ InactiveExplained
<1> SUFFICES Inv'
  BY <1>0 DEF ZombiesInv
<1>a. StrikesWereMisses /\ InactiveExplained
  BY DEF ZombiesInv
<1>1. CASE UNCHANGED Zombies!vars
  BY <1>a, <1>1 DEF Zombies!vars, StrikesWereMisses, InactiveExplained
<1>2. ASSUME NEW c \in Conns, Zombies!Disconnect(c) \/ Zombies!AskProducer(c) \/ Zombies!InsertNewProducer(c)
      PROVE  Inv'
  <2>1. UNCHANGED <<pend, reaper, strikes, misses>>
    BY <1>2 DEF Zombies!Disconnect, Zombies!AskProducer, Zombies!InsertNewProducer
  <2>2. StrikesWereMisses'
    BY <1>a, <2>1 DEF StrikesWereMisses
  <2>3. CASE Zombies!Disconnect(c)
    BY <1>0, <1>a, <2>2, <2>3 DEF Zombies!Disconnect, Zombies!TypeOK, InactiveExplained
  <2>4. CASE Zombies!AskProducer(c)
    BY <1>a, <2>2, <2>4 DEF Zombies!AskProducer, InactiveExplained
  <2>5. CASE Zombies!InsertNewProducer(c)
    BY <1>0, <1>a, <2>2, <2>5 DEF Zombies!InsertNewProducer, Zombies!TypeOK, InactiveExplained
  <2> QED
    BY <1>2, <2>3, <2>4, <2>5
<1>3. ASSUME NEW c \in Conns, NEW v \in BOOLEAN, Zombies!UpdateConnection(c, v) \/ Zombies!UpdateFails(c, v)
      PROVE  Inv'
  <2>1. pend[c][v] > 0 /\ pend' = [pend EXCEPT ![c][v] = @ - 1]
    BY <1>3 DEF Zombies!UpdateConnection, Zombies!UpdateFails
  <2>2. \A d \in Conns : d # c => pend'[d] = pend[d] /\ row'[d] = row[d] /\ why'[d] = why[d]
    BY <1>0, <1>3, <2>1 DEF Zombies!UpdateConnection, Zombies!UpdateFails, Zombies!TypeOK
  <2>3. v = FALSE => pend'[c][TRUE] = pend[c][TRUE]
    <3>1. pend \in [Conns -> [BOOLEAN -> 0..MaxPend]]
      BY <1>0 DEF Zombies!TypeOK
    <3>2. ASSUME v = FALSE PROVE pend'[c] = [pend[c] EXCEPT ![FALSE] = @ - 1]
      BY <2>1, <3>1, <3>2
    <3>3. pend[c] \in [BOOLEAN -> 0..MaxPend]
      BY <3>1
    <3> QED
      BY <3>2, <3>3
  <2>4. UNCHANGED <<at, strikes, reaper, misses>>
    BY <1>3 DEF Zombies!UpdateConnection, Zombies!UpdateFails
  <2>5. CASE Zombies!UpdateConnection(c, v)
    <3>1. /\ row'[c] = IF row[c] = "none" THEN "none" ELSE IF v THEN "active" ELSE "inactive"
          /\ why'[c] = IF row[c] = "none" \/ v \/ at[c] = Nowhere THEN "fresh" ELSE "overtaken"
      BY <1>0, <2>5 DEF Zombies!UpdateConnection, Zombies!TypeOK
    <3> QED
      BY <1>a, <2>2, <2>4, <3>1 DEF StrikesWereMisses, InactiveExplained
  <2>6. CASE Zombies!UpdateFails(c, v)
    <3>1. row' = row /\ why'[c] = IF v THEN "failed" ELSE why[c]
      BY <1>0, <2>6 DEF Zombies!UpdateFails, Zombies!TypeOK
    <3> QED
      BY <1>a, <2>2, <2>3, <2>4, <3>1 DEF StrikesWereMisses, InactiveExplained
  <2> QED
    BY <1>3, <2>5, <2>6
<1>4. ASSUME NEW b \in Brokers, NEW c \in Conns, Zombies!HandleConnect(c, b) PROVE Inv'
  <2>1. pend' = [pend EXCEPT ![c][TRUE] = @ + 1] /\ at' = [at EXCEPT ![c] = b]
    BY <1>4 DEF Zombies!HandleConnect, Zombies!Start
  <2>2. UNCHANGED <<row, strikes, reaper, misses, why>>
    BY <1>4 DEF Zombies!HandleConnect
  <2>3. pend'[c][TRUE] > 0
    <3>1. pend \in [Conns -> [BOOLEAN -> 0..MaxPend]] /\ TRUE \in BOOLEAN
      BY <1>0 DEF Zombies!TypeOK
    <3>2. PICK n \in 0..MaxPend : n = pend[c][TRUE]
      BY <3>1
    <3>3. pend'[c][TRUE] = n + 1
      BY <2>1, <3>1, <3>2
    <3>4. n + 1 > 0
      OBVIOUS
    <3> QED
      BY <3>3, <3>4
  <2>4. \A d \in Conns : d # c => pend'[d] = pend[d] /\ at'[d] = at[d]
    BY <1>0, <2>1 DEF Zombies!TypeOK
  <2> QED
    BY <1>a, <2>2, <2>3, <2>4 DEF StrikesWereMisses, InactiveExplained
<1>5. ASSUME NEW b \in Brokers, NEW c \in Conns, Zombies!Notice(b, c) PROVE Inv'
  <2>1. pend' = [pend EXCEPT ![c][FALSE] = @ + 1]
    BY <1>5 DEF Zombies!Notice, Zombies!Start
  <2>2. UNCHANGED <<at, row, strikes, reaper, misses, why>>
    BY <1>5 DEF Zombies!Notice
  <2>3. ASSUME NEW d \in Conns PROVE pend'[d][TRUE] = pend[d][TRUE]
    <3>1. pend \in [Conns -> [BOOLEAN -> 0..MaxPend]]
      BY <1>0 DEF Zombies!TypeOK
    <3>2. pend'[d] = pend[d] \/ pend'[d] = [pend[d] EXCEPT ![FALSE] = @ + 1]
      BY <2>1, <3>1
    <3>3. pend[d] \in [BOOLEAN -> 0..MaxPend]
      BY <3>1
    <3> QED
      BY <3>2, <3>3
  <2> QED
    BY <1>a, <2>2, <2>3 DEF StrikesWereMisses, InactiveExplained
<1>6. ASSUME NEW b \in Brokers, Zombies!Crash(b) PROVE Inv'
  <2>1. /\ at' = [c \in Conns |-> IF at[c] = b THEN Nowhere ELSE at[c]]
        /\ reaper' = [reaper EXCEPT ![b] = Zombies!Idle]
        /\ strikes' = [strikes EXCEPT ![b] = [c \in Conns |-> 0]]
        /\ UNCHANGED <<row, pend, misses, why>>
    BY <1>6 DEF Zombies!Crash
  <2>2. InactiveExplained'
    BY <1>a, <2>1 DEF InactiveExplained
  <2>3. StrikesWereMisses'
    <3> SUFFICES ASSUME NEW d \in Brokers, NEW c \in Conns
                 PROVE  /\ strikes'[d][c] <= misses[c]
                        /\ reaper'[d].pc = "killing" /\ c \in reaper'[d].known => misses[c] = 3
      BY <2>1 DEF StrikesWereMisses
    <3>1. misses[c] \in 0..3 /\ DOMAIN reaper = Brokers /\ DOMAIN strikes = Brokers
      BY <1>0 DEF Zombies!TypeOK
    <3>2. CASE d = b
      BY <2>1, <3>1, <3>2 DEF Zombies!Idle
    <3>3. CASE d # b
      BY <1>a, <2>1, <3>1, <3>3 DEF StrikesWereMisses
    <3> QED
      BY <3>2, <3>3
  <2> QED
    BY <2>2, <2>3
<1>7. ASSUME NEW b \in Brokers, Zombies!Elect(b) PROVE Inv'
  BY <1>a, <1>7 DEF Zombies!Elect, StrikesWereMisses, InactiveExplained
<1>8. ASSUME NEW b \in Brokers, Zombies!Tick(b) PROVE Inv'
  <2>1. UNCHANGED <<at, row, pend, strikes, misses, why>>
    BY <1>8 DEF Zombies!Tick
  <2>2. \A d \in Brokers : reaper'[d].pc = "killing" => reaper'[d] = reaper[d]
    BY <1>0, <1>8 DEF Zombies!Tick, Zombies!TypeOK
  <2> QED
    BY <1>a, <2>1, <2>2 DEF StrikesWereMisses, InactiveExplained
<1>9. ASSUME NEW b \in Brokers, NEW o \in Brokers, Zombies!Answer(b, o) \/ Zombies!AnswerLost(b, o)
      PROVE  Inv'
  <2>1. UNCHANGED <<at, row, pend, strikes, misses, why>>
    BY <1>9 DEF Zombies!Answer, Zombies!AnswerLost
  <2>2. ASSUME NEW d \in Brokers PROVE reaper'[d].pc = reaper[d].pc /\ reaper'[d].known = reaper[d].known
    <3>1. CASE Zombies!Answer(b, o)
      BY <1>0, <3>1 DEF Zombies!Answer, Zombies!TypeOK
    <3>2. CASE Zombies!AnswerLost(b, o)
      BY <1>0, <3>2 DEF Zombies!AnswerLost, Zombies!TypeOK
    <3> QED
      BY <1>9, <3>1, <3>2
  <2> QED
    BY <1>a, <2>1, <2>2 DEF StrikesWereMisses, InactiveExplained
<1>10. ASSUME NEW b \in Brokers, Zombies!Strike(b) PROVE Inv'
  <2>1. UNCHANGED <<at, row, pend, why>>
    BY <1>10 DEF Zombies!Strike
  <2>2. \A c \in Conns : misses[c] \in 0..3 /\ misses'[c] \in 0..3 /\ misses[c] <= misses'[c]
    BY <1>0, <1>10, StrikeCounts DEF Zombies!TypeOK
  <2>3. InactiveExplained'
    <3>1. \A c \in Conns : misses[c] = 3 => misses'[c] = 3
      BY <2>2
    <3> QED
      BY <1>a, <2>1, <3>1 DEF InactiveExplained
  <2>4. StrikesWereMisses'
    <3> SUFFICES ASSUME NEW d \in Brokers, NEW c \in Conns
                 PROVE  /\ strikes'[d][c] <= misses'[c]
                        /\ reaper'[d].pc = "killing" /\ c \in reaper'[d].known => misses'[c] = 3
      BY DEF StrikesWereMisses
    <3>1. /\ strikes[d][c] <= misses[c] /\ strikes[d][c] \in 0..2
          /\ reaper[d].pc = "killing" /\ c \in reaper[d].known => misses[c] = 3
      BY <1>0, <1>a DEF StrikesWereMisses, Zombies!TypeOK
    <3>2. CASE d = b
      BY <1>0, <1>10, <3>1, <3>2, StrikeCounts
    <3>3. CASE d # b
      <4>1. strikes'[d] = strikes[d] /\ reaper'[d] = reaper[d]
        BY <1>0, <1>10, <3>3, StrikeCounts
      <4> QED
        BY <2>2, <3>1, <4>1
    <3> QED
      BY <3>2, <3>3
  <2> QED
    BY <2>3, <2>4
<1>11. ASSUME NEW b \in Brokers, Zombies!Kill(b) PROVE Inv'
  <2>1. /\ reaper[b].pc = "killing" /\ reaper' = [reaper EXCEPT ![b] = Zombies!Idle]
        /\ \A c \in Conns : \/ row'[c] = row[c] /\ why'[c] = why[c]
                            \/ c \in reaper[b].known /\ why'[c] = "killed"
        /\ UNCHANGED <<at, pend, strikes, misses>>
    BY <1>11 DEF Zombies!Kill
  <2>2. StrikesWereMisses'
    BY <1>0, <1>a, <2>1 DEF StrikesWereMisses, Zombies!TypeOK, Zombies!Idle
  <2>3. InactiveExplained'
    BY <1>a, <2>1 DEF StrikesWereMisses, InactiveExplained
  <2> QED
    BY <2>2, <2>3
<1>12. ASSUME NEW b \in Brokers, Zombies!KillFails(b) PROVE Inv'
  <2>1. reaper' = [reaper EXCEPT ![b] = Zombies!Idle] /\ UNCHANGED <<at, row, pend, strikes, misses, why>>
    BY <1>12 DEF Zombies!KillFails
  <2> QED
    BY <1>0, <1>a, <2>1 DEF StrikesWereMisses, InactiveExplained, Zombies!TypeOK, Zombies!Idle
<1> QED
  BY <1>1, <1>2, <1>3, <1>4, <1>5, <1>6, <1>7, <1>8, <1>9, <1>10, <1>11, <1>12 DEF Zombies!Next

-----------------------------------------------------------------------------
(* The two services side by side. *)

ServiceInv ==
    /\ service = "users" => Caches!TypeOK /\ Caches!StaleExplained
    /\ service = "zombies" => ZombiesInv

\* Both services, whichever is looked at.
LEMMA ServicesHold == Spec => []ServiceInv
<1>1. Init => ServiceInv
  <2> SUFFICES ASSUME Init PROVE ServiceInv
    OBVIOUS
  <2> USE BrokerServicesAssumption
  <2>1. CASE service = "users" /\ Caches!Init
    BY <2>1 DEF ServiceInv, Caches!Init, Caches!TypeOK, Caches!StaleExplained, Caches!Row, Caches!Job
  <2>2. CASE service = "zombies" /\ Zombies!Init
    <3>1. Zombies!TypeOK
      BY <2>2 DEF Zombies!Init, Zombies!TypeOK, Zombies!Idle
    <3>2. StrikesWereMisses /\ InactiveExplained
      BY <2>2 DEF Zombies!Init, Zombies!Idle, StrikesWereMisses, InactiveExplained
    <3> QED
      BY <2>2, <3>1, <3>2 DEF ServiceInv, ZombiesInv
  <2> QED
    BY <2>1, <2>2 DEF Init
<1>2. ServiceInv /\ [Next]_vars => ServiceInv'
  <2> SUFFICES ASSUME ServiceInv, [Next]_vars PROVE ServiceInv'
    OBVIOUS
  <2>1. service' = service
    BY DEF Next, vars
  <2>2. service = "users" => [Caches!Next]_(Caches!vars)
    BY DEF Next, vars, Caches!vars
  <2>3. service = "zombies" => [Zombies!Next]_(Zombies!vars)
    BY DEF Next, vars, Zombies!vars
  <2>4. service = "users" => Caches!TypeOK' /\ Caches!StaleExplained'
    BY <2>2, CachesTypeStep, CachesStep DEF ServiceInv
  <2>5. service = "zombies" => ZombiesInv'
    BY <2>3, ZombiesStep DEF ServiceInv
  <2> QED
    BY <2>1, <2>4, <2>5 DEF ServiceInv
<1> QED
  BY <1>1, <1>2, PTL DEF Spec

\* Whatever the order of reads, writes, messages and restarts, an entry of a user cache
\* is the user's row unless its deletion is under way or one of the three named things
\* happened to it: it was put in late, a deletion was not told, a role came after it.
THEOREM StaleExplainedHolds == Spec => []StaleExplained
<1>1. ServiceInv => StaleExplained
  BY DEF ServiceInv, StaleExplained, ZombiesInv, TypeOK
<1> QED
  BY <1>1, ServicesHold, PTL

\* However updates overtake each other, brokers crash and answers are lost, the producer
\* of an open connection is inactive only by a late disconnection, a failed update or a
\* kill after three iterations that missed it.
THEOREM ActiveAgreesHolds == Spec => []ActiveAgrees
<1>1. ZombiesInv => Zombies!ActiveAgrees
  <2> SUFFICES ASSUME ZombiesInv, NEW c \in Conns, at[c] # Nowhere,
                      pend[c] = [v \in BOOLEAN |-> 0], row[c] = "inactive"
               PROVE  why[c] \in {"overtaken", "failed"} \/ (why[c] = "killed" /\ misses[c] = 3)
    BY DEF Zombies!ActiveAgrees
  <2>1. ~(pend[c][TRUE] > 0)
    OBVIOUS
  <2>2. why[c] \in {"fresh", "overtaken", "failed", "killed"}
    BY DEF ZombiesInv, Zombies!TypeOK
  <2> QED
    BY <2>1, <2>2 DEF ZombiesInv, InactiveExplained
<1>2. ServiceInv => ActiveAgrees
  BY <1>1 DEF ServiceInv, ActiveAgrees
<1> QED
  BY <1>2, ServicesHold, PTL
=============================================================================
