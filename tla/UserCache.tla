------------------------------ MODULE UserCache ------------------------------
(***************************************************************************)
(* The users of one tenant and the copies of them that every broker keeps. *)
(* A copy is made by reading the row and putting it into the cache, two    *)
(* steps, on a miss, on a forced read and at boot; adding a user puts it   *)
(* into the cache of its own broker only; removing one deletes the row and *)
(* then tells all brokers over core NATS, which may lose the message.      *)
(* Of a row the readers of the cache use that it exists, its type and its  *)
(* roles, which change once, when they are attached to a new user.         *)
(***************************************************************************)
EXTENDS Naturals, FiniteSets, Sequences

CONSTANTS
    Brokers, Users,
    NoUser,      \* no row, or no entry
    MaxId,       \* bound on the ids given to rows
    MaxFills,    \* bound on the rows read and not yet put into a cache
    MaxFaults    \* bound on lost messages, failed statements and restarts

VARIABLES
    db,        \* table users
    nextId,
    cache,     \* UCache of each broker
    fills,     \* rows that were read and are not in the cache yet
    adds,      \* AddUser handlers between CreateUser and SetUser
    removals,  \* RemoveUser handlers between DeleteUser and the message
    updates,   \* messages on $memphis_cache_updates, one copy per broker
    faults,
    why        \* history: how an entry came not to be the row: "late", when it was
               \* put in after the row had changed; "missed", when its deletion was
               \* not told; "role", when the role was attached after the read

vars == <<db, nextId, cache, fills, adds, removals, updates, faults, why>>

Row == [id : 1..MaxId, role : BOOLEAN]
Job == [at : Brokers, user : Users, row : Row]

TypeOK ==
    /\ db \in [Users -> Row \cup {NoUser}]
    /\ nextId \in 1..MaxId + 1
    /\ cache \in [Brokers -> [Users -> Row \cup {NoUser}]]
    /\ fills \subseteq Job /\ adds \subseteq Job
    /\ removals \subseteq [at : Brokers, users : SUBSET Users]
    /\ \A m \in updates :
        /\ m.to \in Brokers
        /\ \A k \in DOMAIN m.users : m.users[k] \in Users
    /\ faults \in 0..MaxFaults
    /\ why \in [Brokers -> [Users -> {"fresh", "late", "missed", "role"}]]
    /\ \A b \in Brokers, u \in Users : cache[b][u] = NoUser => why[b][u] = "fresh"

\* InitializeUserCache has read the one user there is.
Init ==
    /\ \E u \in Users : db = [v \in Users |-> IF v = u THEN [id |-> 1, role |-> FALSE] ELSE NoUser]
    /\ nextId = 2
    /\ cache = [b \in Brokers |-> db]
    /\ fills = {} /\ adds = {} /\ removals = {} /\ updates = {}
    /\ faults = 0
    /\ why = [b \in Brokers |-> [u \in Users |-> "fresh"]]

\* SetUser: the entry of user u at broker b.
Put(b, u, row) ==
    /\ cache' = [cache EXCEPT ![b][u] = row]
    /\ why' = [why EXCEPT ![b][u] = IF row = db[u] THEN "fresh" ELSE "late"]

\* Nobody will delete the entries of the users in U at the brokers in B.
Missed(B, U) ==
    why' = [b \in Brokers |-> [u \in Users |->
                IF b \in B /\ u \in U /\ cache[b][u] # NoUser THEN "missed" ELSE why[b][u]]]

Fault == faults < MaxFaults /\ faults' = faults + 1

-----------------------------------------------------------------------------
(* GetUser. *)

\* A miss, or a forced read.  A row that is not there makes an entry of no user.
GetUserByUsername(b, u) ==
    /\ db[u] # NoUser
    /\ Cardinality(fills) < MaxFills
    /\ fills' = fills \cup {[at |-> b, user |-> u, row |-> db[u]]}
    /\ UNCHANGED <<db, nextId, cache, adds, removals, updates, faults, why>>

SetUser(f) ==
    /\ Put(f.at, f.user, f.row)
    /\ fills' = fills \ {f}
    /\ UNCHANGED <<db, nextId, adds, removals, updates, faults>>

\* The life window of an entry is over and a later Set evicts it.
Evict(b, u) ==
    /\ cache[b][u] # NoUser
    /\ cache' = [cache EXCEPT ![b][u] = NoUser]
    /\ why' = [why EXCEPT ![b][u] = "fresh"]
    /\ UNCHANGED <<db, nextId, fills, adds, removals, updates, faults>>

-----------------------------------------------------------------------------
(* AddUser. *)

CreateUser(b, u) ==
    /\ db[u] = NoUser
    /\ nextId <= MaxId
    /\ LET row == [id |-> nextId, role |-> FALSE]
       IN  /\ db' = [db EXCEPT ![u] = row]
           /\ adds' = adds \cup {[at |-> b, user |-> u, row |-> row]}
    /\ nextId' = nextId + 1
    /\ UNCHANGED <<cache, fills, removals, updates, faults, why>>

\* By name: the row may be gone, or another one.
UpdateUserRole(a) ==
    /\ ~a.row.role
    /\ adds' = (adds \ {a}) \cup {[a EXCEPT !.row.role = TRUE]}
    /\ IF db[a.user] = NoUser THEN UNCHANGED <<db, why>>
       ELSE /\ db' = [db EXCEPT ![a.user].role = TRUE]
            /\ why' = [b \in Brokers |-> [why[b] EXCEPT ![a.user] =
                          IF cache[b][a.user] = db[a.user] /\ ~db[a.user].role THEN "role" ELSE @]]
    /\ UNCHANGED <<nextId, cache, fills, removals, updates, faults>>

AddDone(a) ==
    /\ Put(a.at, a.user, a.row)
    /\ adds' = adds \ {a}
    /\ UNCHANGED <<db, nextId, fills, removals, updates, faults>>

\* CreateNewRole or UpdateUserRole fails: the row stays, without its role.
AddFails(a) ==
    /\ ~a.row.role
    /\ Fault
    /\ adds' = adds \ {a}
    /\ UNCHANGED <<db, nextId, cache, fills, removals, updates, why>>

-----------------------------------------------------------------------------
(* RemoveUser and RemoveMyUser. *)

\* GetUser: the user exists if the broker's cache, or else the table, has it.
DeleteUser(b, u) ==
    /\ cache[b][u] # NoUser \/ db[u] # NoUser
    /\ removals = {}
    /\ db' = [db EXCEPT ![u] = NoUser]
    /\ cache' = [cache EXCEPT ![b][u] = IF @ = NoUser THEN db[u] ELSE @]
    /\ removals' = {[at |-> b, users |-> {u}]}
    /\ UNCHANGED <<nextId, fills, adds, updates, faults, why>>

DeleteUsersByTenant(b) ==
    /\ removals = {}
    /\ \E u \in Users : db[u] # NoUser
    /\ removals' = {[at |-> b, users |-> {u \in Users : db[u] # NoUser}]}
    /\ db' = [u \in Users |-> NoUser]
    /\ UNCHANGED <<nextId, cache, fills, adds, updates, faults, why>>

\* In the order the table gave them.
ListsOf(U) == {s \in [1..Cardinality(U) -> U] : {s[k] : k \in DOMAIN s} = U}

\* Mutant: only the broker that removed the user is told.
MutLocalOnly(r) ==
    /\ updates = {}
    /\ \E s \in ListsOf(r.users) : updates' = {[to |-> r.at, users |-> s]}
    /\ removals' = removals \ {r}
    /\ UNCHANGED <<db, nextId, cache, fills, adds, faults, why>>

SendUserDeleteCacheUpdate(r) ==
    /\ updates = {}
    /\ \E s \in ListsOf(r.users) : updates' = {[to |-> b, users |-> s] : b \in Brokers}
    /\ removals' = removals \ {r}
    /\ UNCHANGED <<db, nextId, cache, fills, adds, faults, why>>

\* RemoveRoleAndPermissions fails and the handler returns, or the message cannot be sent.
RemoveFails(r) ==
    /\ Fault
    /\ Missed(Brokers, r.users)
    /\ removals' = removals \ {r}
    /\ UNCHANGED <<db, nextId, cache, fills, adds, updates>>

\* memphis_cache.DeleteUser ends at the first user that is not cached.
Deleted(b, s) ==
    {s[k] : k \in {i \in DOMAIN s : \A j \in 1..i : cache[b][s[j]] # NoUser}}

ListenForCacheUpdates(m) ==
    LET gone == Deleted(m.to, m.users)
    IN  /\ cache' = [cache EXCEPT ![m.to] = [u \in Users |-> IF u \in gone THEN NoUser ELSE @[u]]]
        /\ why' = [why EXCEPT ![m.to] = [u \in Users |->
                       IF u \in gone THEN "fresh"
                       ELSE IF cache[m.to][u] # NoUser /\ \E k \in DOMAIN m.users : m.users[k] = u
                            THEN "missed" ELSE @[u]]]
        /\ updates' = updates \ {m}
        /\ UNCHANGED <<db, nextId, fills, adds, removals, faults>>

LoseUpdate(m) ==
    /\ Fault
    /\ Missed({m.to}, {m.users[k] : k \in DOMAIN m.users})
    /\ updates' = updates \ {m}
    /\ UNCHANGED <<db, nextId, cache, fills, adds, removals>>

\* The broker starts again: its handlers and messages are gone, and
\* InitializeUserCache reads all users.
Restart(b) ==
    /\ Fault
    /\ cache' = [cache EXCEPT ![b] = [u \in Users |-> NoUser]]
    /\ fills' = {f \in fills : f.at # b}
                    \cup {[at |-> b, user |-> u, row |-> db[u]] : u \in {v \in Users : db[v] # NoUser}}
    /\ adds' = {a \in adds : a.at # b}
    /\ removals' = {r \in removals : r.at # b}
    /\ updates' = {m \in updates : m.to # b}
    /\ why' = [c \in Brokers |-> [u \in Users |->
                  IF c = b THEN "fresh"
                  ELSE IF cache[c][u] # NoUser /\ \E r \in removals : r.at = b /\ u \in r.users
                       THEN "missed" ELSE why[c][u]]]
    /\ UNCHANGED <<db, nextId>>

Next ==
    \/ \E b \in Brokers, u \in Users :
        GetUserByUsername(b, u) \/ Evict(b, u) \/ CreateUser(b, u) \/ DeleteUser(b, u)
    \/ \E f \in fills : SetUser(f)
    \/ \E a \in adds : UpdateUserRole(a) \/ AddDone(a) \/ AddFails(a)
    \/ \E r \in removals : SendUserDeleteCacheUpdate(r) \/ RemoveFails(r)
    \/ \E m \in updates : ListenForCacheUpdates(m) \/ LoseUpdate(m)
    \/ \E b \in Brokers : DeleteUsersByTenant(b) \/ Restart(b)

Spec == Init /\ [][Next]_vars

-----------------------------------------------------------------------------
(* Properties. *)

Pending(b, u) ==
    \/ \E r \in removals : u \in r.users
    \/ \E m \in updates : m.to = b /\ \E k \in DOMAIN m.users : m.users[k] = u

\* An entry is the user's row, or its deletion is under way, or one of three things
\* happened to it: it was put in after its row had changed, nobody told the broker of
\* a deletion, or it was read before the user's role was attached.
StaleExplained ==
    \A b \in Brokers, u \in Users :
        cache[b][u] \in {NoUser, db[u]} \/ why[b][u] # "fresh" \/ Pending(b, u)
=============================================================================
