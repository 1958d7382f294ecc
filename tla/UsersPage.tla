------------------------------ MODULE UsersPage ------------------------------
(***************************************************************************)
(* The page of management and client users.  userList holds what the       *)
(* broker told, copyOfUserList what the search leaves of it; both are      *)
(* changed by the replies to requests that add and remove users, and the   *)
(* label of the open tab holds a count of its own.  Until the list has     *)
(* come both are an empty array, which has no list to search or add to.    *)
(***************************************************************************)
EXTENDS Naturals, Sequences, Requests, FiniteSets

CONSTANTS
    Mgmt, Client,   \* names of management and of client users
    Root,           \* a management user that cannot be deleted
    Queries,        \* what may be searched for
    Matches(_),     \* the users a query finds
    MaxSent         \* bound on the requests sent

VARIABLES
    users,          \* the broker
    loaded,         \* the list has come
    crashed,        \* a handler threw while the page was rendered
    userList, copyOfUserList,
    search,         \* searchInput: a query, or "" for none and for one character
    tab,            \* tableType: [type, count]
    drawer,         \* "none", "add" or "details"
    removing,       \* userToRemove of the open modal, or ""
    reqs,           \* requests under way
    sent,           \* how many were sent
    lost,           \* history: a request failed after the broker handled it, or two
                    \* requests for one user were under way
    narrowed        \* history: a search did not narrow the one before, or a user
                    \* was added during a search

vars == <<users, loaded, crashed, userList, copyOfUserList, search, tab, drawer, removing, reqs,
          sent, lost, narrowed>>
pageVars == <<userList, copyOfUserList, search, tab, drawer, removing>>

Users == Mgmt \cup Client
TypeOf(u) == IF u \in Mgmt THEN "Management" ELSE "Client"
OfType(S, t) == {u \in S : TypeOf(u) = t}
Label(t, S) == [type |-> t, count |-> Cardinality(OfType(S, t))]

TypeOK ==
    /\ {users, userList, copyOfUserList} \subseteq SUBSET Users
    /\ {loaded, crashed, lost, narrowed} \subseteq BOOLEAN
    /\ search \in Queries \cup {""}
    /\ tab.type \in {"Management", "Client"} /\ tab.count \in 0..Cardinality(Users)
    /\ drawer \in {"none", "add", "details"}
    /\ removing \in Users \cup {""}
    /\ sent \in 0..MaxSent
    /\ ~loaded => userList = {}

Init ==
    /\ users \in {S \in SUBSET Users : Root \in S}
    /\ loaded = FALSE /\ crashed = FALSE
    /\ userList = {} /\ copyOfUserList = {}
    /\ search = "" /\ tab = [type |-> "Management", count |-> 0]
    /\ drawer = "none" /\ removing = ""
    /\ reqs = <<[op |-> "list", user |-> "", done |-> FALSE, result |-> {}]>>
    /\ sent = 0 /\ lost = FALSE /\ narrowed = FALSE

\* The page is there, and neither the drawer nor the modal covers it.
Uncovered == ~crashed /\ drawer = "none" /\ removing = ""

Send(op, u) ==
    /\ sent < MaxSent
    /\ sent' = sent + 1
    /\ lost' = (lost \/ \E r \in Range(reqs) : r.user = u)
    /\ reqs' = Append(reqs, [op |-> op, user |-> u, done |-> FALSE, result |-> {}])

-----------------------------------------------------------------------------

\* The effect on searchInput: it searches what the last search left.
HandleSearch(q) ==
    /\ Uncovered /\ q # search
    /\ search' = q
    /\ IF q = "" THEN /\ copyOfUserList' = userList /\ crashed' = FALSE
                      /\ narrowed' = FALSE
       ELSE IF ~loaded THEN crashed' = TRUE /\ UNCHANGED <<copyOfUserList, narrowed>>
       ELSE /\ copyOfUserList' = copyOfUserList \cap Matches(q) /\ crashed' = FALSE
            /\ narrowed' = (narrowed \/ (search # "" /\ ~(Matches(q) \subseteq Matches(search))))
    /\ tab' = Label(tab.type, copyOfUserList')
    /\ UNCHANGED <<users, loaded, userList, drawer, removing, reqs, sent, lost>>

\* The tabs, labelled with the counts of the users shown.
ChangeTableView(t) ==
    /\ Uncovered /\ loaded
    /\ tab' = Label(t, copyOfUserList)
    /\ UNCHANGED <<users, loaded, crashed, userList, copyOfUserList, search, drawer, removing, reqs,
                   sent, lost, narrowed>>

\* The drawer for a new user and for the details of a row.
OpenDrawer(d) ==
    /\ Uncovered /\ (d = "details" => OfType(copyOfUserList, tab.type) # {})
    /\ drawer' = d
    /\ UNCHANGED <<users, loaded, crashed, userList, copyOfUserList, search, tab, removing, reqs, sent,
                   lost, narrowed>>

CloseDrawer ==
    /\ ~crashed /\ drawer # "none"
    /\ drawer' = "none"
    /\ UNCHANGED <<users, loaded, crashed, userList, copyOfUserList, search, tab, removing, reqs, sent,
                   lost, narrowed>>

\* onFinish of CreateUserDetails.  Closing the drawer ends its loader, so a second
\* user may be sent while the first is under way.
AddUser(u) ==
    /\ ~crashed /\ drawer = "add"
    /\ u \notin users
    /\ Send("add", u)
    /\ UNCHANGED <<users, loaded, crashed, pageVars, narrowed>>

\* The delete buttons of the rows of the tab: not for root or the user himself.
DeleteUser(u) ==
    /\ Uncovered
    /\ u \in OfType(copyOfUserList, tab.type) \ {Root}
    /\ removing' = u
    /\ UNCHANGED <<users, loaded, crashed, userList, copyOfUserList, search, tab, drawer, reqs, sent,
                   lost, narrowed>>

CloseRemove ==
    /\ ~crashed /\ removing # ""
    /\ removing' = ""
    /\ UNCHANGED <<users, loaded, crashed, userList, copyOfUserList, search, tab, drawer, reqs, sent,
                   lost, narrowed>>

\* removeUser, by the button or the Enter key.
RemoveUser ==
    /\ ~crashed /\ removing # ""
    /\ Send("remove", removing)
    /\ UNCHANGED <<users, loaded, crashed, pageVars, narrowed>>

-----------------------------------------------------------------------------
\* The broker: a user that is there cannot be added, one that is not not removed.
Handle(i) ==
    /\ i \in DOMAIN reqs /\ ~reqs[i].done
    /\ LET r == reqs[i]
       IN  /\ r.op = "add" => r.user \notin users
           /\ r.op = "remove" => r.user \in users
           /\ users' = CASE r.op = "add"    -> users \cup {r.user}
                         [] r.op = "remove" -> users \ {r.user}
                         [] OTHER           -> users
           /\ reqs' = [reqs EXCEPT ![i].done = TRUE, ![i].result = users']
    /\ UNCHANGED <<loaded, crashed, pageVars, sent, lost, narrowed>>

\* getAllUsers after its reply.
GetAllUsers(r) ==
    /\ loaded' = TRUE
    /\ userList' = r.result /\ copyOfUserList' = r.result
    /\ tab' = Label("Management", r.result)
    /\ UNCHANGED <<crashed, search, drawer, removing, narrowed>>

\* handleAddUser: the new user is shown whatever is searched for.
HandleAddUser(u) ==
    /\ userList' = IF loaded THEN userList \cup {u} ELSE userList
    /\ copyOfUserList' = IF loaded THEN copyOfUserList \cup {u} ELSE copyOfUserList
    /\ tab' = IF loaded THEN Label(TypeOf(u), userList') ELSE tab
    /\ crashed' = ~loaded
    /\ drawer' = IF drawer = "add" THEN "none" ELSE drawer
    /\ narrowed' = (narrowed \/ search # "")
    /\ UNCHANGED <<loaded, search, removing>>

\* handleRemoveUser: the count of the tab is that of all users.
HandleRemoveUser(u) ==
    /\ userList' = userList \ {u}
    /\ copyOfUserList' = copyOfUserList \ {u}
    /\ tab' = Label(TypeOf(u), userList')
    /\ removing' = ""
    /\ UNCHANGED <<loaded, crashed, search, drawer, narrowed>>

Reply(i) ==
    /\ i \in DOMAIN reqs /\ reqs[i].done
    /\ reqs' = RemoveAt(reqs, i)
    /\ IF crashed THEN UNCHANGED <<loaded, crashed, pageVars, narrowed>>
       ELSE CASE reqs[i].op = "list" -> GetAllUsers(reqs[i])
              [] reqs[i].op = "add"  -> HandleAddUser(reqs[i].user)
              [] OTHER               -> HandleRemoveUser(reqs[i].user)
    /\ UNCHANGED <<users, sent, lost>>

\* The catch blocks; a request may fail after the broker handled it.
Fail(i) ==
    /\ i \in DOMAIN reqs
    /\ reqs' = RemoveAt(reqs, i)
    /\ removing' = IF reqs[i].op = "remove" /\ ~crashed THEN "" ELSE removing
    /\ lost' = (lost \/ (reqs[i].done /\ reqs[i].op # "list"))
    /\ UNCHANGED <<users, loaded, crashed, userList, copyOfUserList, search, tab, drawer, sent, narrowed>>

Next ==
    \/ \E q \in Queries \cup {""} : HandleSearch(q)
    \/ \E t \in {"Management", "Client"} : ChangeTableView(t)
    \/ \E d \in {"add", "details"} : OpenDrawer(d)
    \/ CloseDrawer \/ CloseRemove \/ RemoveUser
    \/ \E u \in Users : AddUser(u) \/ DeleteUser(u)
    \/ \E i \in DOMAIN reqs : Handle(i) \/ Reply(i) \/ Fail(i)

Spec == Init /\ [][Next]_vars

-----------------------------------------------------------------------------
\* With no request under way the page knows the broker's users, after any number of
\* additions and removals that were under way together: the handlers change the
\* list of the moment.  The exceptions are a reply lost after the broker's part, and
\* a user removed and added again before the first reply.
UsersAgree == (reqs = <<>> /\ loaded /\ ~crashed /\ ~lost) => userList = users

\* What the table shows is what the search finds, as long as each search narrowed
\* the one before (going back from a longer one keeps what that had left out) and
\* no user was added meanwhile.
SearchShowsMatches ==
    (loaded /\ ~crashed /\ ~narrowed) =>
        copyOfUserList = IF search = "" THEN userList ELSE userList \cap Matches(search)

\* Without a search the label of the tab counts the users in it, whatever replies
\* changed the lists: the label is the tab's key, and no tab is open with another.
TabCounts == (loaded /\ ~crashed /\ search = "") => tab = Label(tab.type, copyOfUserList)
=============================================================================
