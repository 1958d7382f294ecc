--------------------------- MODULE MCConsoleAdmin ----------------------------
(*
The pages on which clients, users, integrations, the cluster and its logs are
managed, and the notifications. One of them is on the screen: "route" says which,
and is chosen first. They have nothing in common but the broker, of which each
module models the part its page shows, so the pages are checked side by side and
not interleaved.
*)
EXTENDS Integers, Sequences, FiniteSets

CONSTANTS
    None, NoRow, NoWord,
    NTabs, Ids, MaxReloads,                                   \* notifications
    CgNames, ConnIds, MaxClicks, MaxObjects,                  \* clients of a station
    TokenUsers, TokenSecrets,                                 \* form for a token
    Mgmt, Client, Root, Queries, Matches(_), MaxAsked,        \* users
    Words, Stations, PassAuth,                                \* form for a user
    Services, Slack, Keys, Mask, MaxTried, MaxOpens,          \* integrations
    Hours, Numbers, Hosts, ToLower(_), MaxEdits, MaxSent,     \* cluster configuration
    Filters, FirstFilter, FilterOf(_), PageSize, OldLogs,     \* system logs
    MaxLogs, MaxGets, MaxListens, MaxPushes

ASSUME ConsoleAdminAssumption ==
    /\ {MaxReloads, MaxClicks, MaxObjects, MaxAsked, MaxTried, MaxOpens, MaxEdits, MaxSent} \subseteq Nat
    /\ {PageSize, OldLogs, MaxLogs, MaxGets, MaxListens, MaxPushes} \subseteq Nat
    /\ IsFiniteSet(Ids) /\ IsFiniteSet(ConnIds) /\ IsFiniteSet(Mgmt \cup Client) /\ IsFiniteSet(Services)
    /\ NoRow \notin [item : Nat, id : ConnIds]
    /\ None \notin [user : TokenUsers \cup {None}, secret : TokenSecrets \cup {None}]
    /\ \A form \in [user : TokenUsers \cup {None}, secret : TokenSecrets \cup {None}] :
          /\ \A u \in TokenUsers : None # [user |-> u, render |-> form]
          /\ \A u \in TokenUsers \cup {None} : None # [render |-> form, then |-> u]
    /\ "" \notin Mgmt \cup Client /\ "" \notin Queries /\ Root \in Mgmt
    /\ "" \notin Services /\ "" \notin Keys /\ Mask \notin Keys /\ Mask # ""
    /\ Numbers \subseteq Nat
    /\ ToLower("h") = "h" /\ \A h \in Hosts : ToLower(h) \in Hosts /\ ToLower(ToLower(h)) = ToLower(h)
    /\ FirstFilter \in Filters /\ OldLogs <= MaxLogs /\ PageSize > 0

VARIABLES
    route,   \* the page
    stored, list, displayed, open, published, reloads, dismissed, lost, broker, heap,
    cgsList, connectors, popover, reqs, sent, data, selected, cgDetails, aside, users,
    loading, form, drawer, creating, listing, asking, token, typed, late, loaded,
    crashed, userList, copyOfUserList, search, tab, removing, narrowed, userType,
    creationForm, formFields, rbac, item, opens, raced, oldValues, isChanged, row,
    edits, discarded, newer, astray, last, filter, logs, seqNum, lastMsgSeq,
    changeSelected, stopLoad, loader, changed, top, gets, subs, sub, pushes, got,
    listens, pushed, mixed, missed

vars == <<route, stored, list, displayed, open, published, reloads, dismissed, lost, broker, heap,
          cgsList, connectors, popover, reqs, sent, data, selected, cgDetails, aside,
          users, loading, form, drawer, creating, listing, asking, token, typed, late,
          loaded, crashed, userList, copyOfUserList, search, tab, removing, narrowed,
          userType, creationForm, formFields, rbac, item, opens, raced, oldValues,
          isChanged, row, edits, discarded, newer, astray, last, filter, logs, seqNum,
          lastMsgSeq, changeSelected, stopLoad, loader, changed, top, gets, subs, sub,
          pushes, got, listens, pushed, mixed, missed>>

Notes == INSTANCE Notifications
Clients == INSTANCE ClientsList WITH MaxSent <- MaxClicks
Token == INSTANCE TokenForm WITH Users <- TokenUsers, Secrets <- TokenSecrets
Users == INSTANCE UsersPage WITH MaxSent <- MaxAsked
User == INSTANCE UserForm
Integration == INSTANCE Integrations WITH Names <- Services, Secrets <- Keys, MaxSent <- MaxTried
Cluster == INSTANCE ClusterConfiguration
Log == INSTANCE SystemLogs WITH First <- FirstFilter

\* The small instance: a query that finds one of the users another finds, a host
\* name in capitals, and a log that only the second filter finds.
FoundUsers(q) == IF q = "long" THEN {"m2"} ELSE {"m1", "m2"}
LowerCase(h) == IF h = "A" THEN "a" ELSE h
FilterOfLog(n) == IF n = 2 THEN "y" ELSE "x"

\* The variables that only one page has; they are None on the other pages.
notesVars == <<stored, displayed, open, published, reloads, dismissed>>
clientsVars == <<heap, cgsList, connectors, popover, data, cgDetails, aside>>
tokenVars == <<creating, listing, token, typed, late>>
usersVars == <<crashed, userList, copyOfUserList, search, tab, removing, narrowed>>
userVars == <<userType, creationForm, rbac>>
integrationVars == <<item, opens, raced>>
clusterVars == <<oldValues, isChanged, row, edits, discarded, newer, astray>>
logVars == <<last, filter, logs, seqNum, lastMsgSeq, changeSelected, stopLoad, loader, changed, top,
             gets, subs, sub, pushes, got, listens, pushed, mixed, missed>>

NotesOff == stored = None /\ displayed = None /\ open = None /\ published = None /\
            reloads = None /\ dismissed = None
ClientsOff == heap = None /\ cgsList = None /\ connectors = None /\ popover = None /\ data = None
              /\ cgDetails = None /\ aside = None
TokenOff == creating = None /\ listing = None /\ token = None /\ typed = None /\ late = None
UsersOff == crashed = None /\ userList = None /\ copyOfUserList = None /\ search = None /\
            tab = None /\ removing = None /\ narrowed = None
UserOff == userType = None /\ creationForm = None /\ rbac = None
IntegrationOff == item = None /\ opens = None /\ raced = None
ClusterOff == oldValues = None /\ isChanged = None /\ row = None /\ edits = None /\
              discarded = None /\ newer = None /\ astray = None
LogOff == last = None /\ filter = None /\ logs = None /\ seqNum = None /\ lastMsgSeq = None /\
          changeSelected = None /\ stopLoad = None /\ loader = None /\
          changed = None /\ top = None /\ gets = None /\ subs = None /\ sub = None
          /\ pushes = None /\ got = None /\ listens = None /\ pushed = None /\
          mixed = None /\ missed = None

Init ==
    \/ /\ route = "notifications" /\ Notes!Init
       /\ ClientsOff /\ TokenOff /\ UsersOff /\ UserOff /\ IntegrationOff /\ ClusterOff /\ LogOff
       /\ broker = None /\ reqs = None /\ sent = None /\ selected = None /\ users = None
          /\ loading = None /\ form = None /\ drawer = None /\ asking = None /\
          loaded = None /\ formFields = None
    \/ /\ route = "clients" /\ Clients!Init
       /\ NotesOff /\ TokenOff /\ UsersOff /\ UserOff /\ IntegrationOff /\ ClusterOff /\ LogOff
       /\ list = None /\ lost = None /\ users = None /\ loading = None /\ form = None /\
          drawer = None /\ asking = None /\ loaded = None /\ formFields = None
    \/ /\ route = "token" /\ Token!Init
       /\ NotesOff /\ ClientsOff /\ UsersOff /\ UserOff /\ IntegrationOff /\ ClusterOff /\ LogOff
       /\ list = None /\ lost = None /\ broker = None /\ reqs = None /\ sent = None /\
          selected = None /\ loaded = None /\ formFields = None
    \/ /\ route = "users" /\ Users!Init
       /\ NotesOff /\ ClientsOff /\ TokenOff /\ UserOff /\ IntegrationOff /\ ClusterOff /\ LogOff
       /\ list = None /\ broker = None /\ selected = None /\ loading = None /\ form = None
          /\ asking = None /\ formFields = None
    \/ /\ route = "user" /\ User!Init
       /\ NotesOff /\ ClientsOff /\ TokenOff /\ UsersOff /\ IntegrationOff /\ ClusterOff /\ LogOff
       /\ list = None /\ lost = None /\ broker = None /\ reqs = None /\ selected = None /\
          users = None /\ loading = None /\ form = None /\ drawer = None /\
          asking = None /\ loaded = None
    \/ /\ route = "integrations" /\ Integration!Init
       /\ NotesOff /\ ClientsOff /\ TokenOff /\ UsersOff /\ UserOff /\ ClusterOff /\ LogOff
       /\ selected = None /\ users = None /\ loading = None /\ asking = None /\
          formFields = None
    \/ /\ route = "cluster" /\ Cluster!Init
       /\ NotesOff /\ ClientsOff /\ TokenOff /\ UsersOff /\ UserOff /\ IntegrationOff /\ LogOff
       /\ list = None /\ lost = None /\ selected = None /\ users = None /\ form = None /\
          drawer = None /\ asking = None /\ loaded = None
    \/ /\ route = "logs" /\ Log!Init
       /\ NotesOff /\ ClientsOff /\ TokenOff /\ UsersOff /\ UserOff /\ IntegrationOff /\ ClusterOff
       /\ list = None /\ lost = None /\ broker = None /\ reqs = None /\ sent = None /\
          users = None /\ loading = None /\ form = None /\ drawer = None /\
          loaded = None /\ formFields = None

Next ==
    \/ /\ route = "notifications" /\ Notes!Next
       /\ UNCHANGED <<route, clientsVars, tokenVars, usersVars, userVars, integrationVars, clusterVars,
                        logVars, broker, reqs, sent, selected, users, loading, form,
                        drawer, asking, loaded, formFields>>
    \/ /\ route = "clients" /\ Clients!Next
       /\ UNCHANGED <<route, notesVars, tokenVars, usersVars, userVars, integrationVars, clusterVars, logVars,
                        list, lost, users, loading, form, drawer, asking, loaded,
                        formFields>>
    \/ /\ route = "token" /\ Token!Next
       /\ UNCHANGED <<route, notesVars, clientsVars, usersVars, userVars, integrationVars, clusterVars,
                        logVars, list, lost, broker, reqs, sent, selected, loaded,
                        formFields>>
    \/ /\ route = "users" /\ Users!Next
       /\ UNCHANGED <<route, notesVars, clientsVars, tokenVars, userVars, integrationVars, clusterVars,
                        logVars, list, broker, selected, loading, form, asking,
                        formFields>>
    \/ /\ route = "user" /\ User!Next
       /\ UNCHANGED <<route, notesVars, clientsVars, tokenVars, usersVars, integrationVars, clusterVars,
                        logVars, list, lost, broker, reqs, selected, users, loading,
                        form, drawer, asking, loaded>>
    \/ /\ route = "integrations" /\ Integration!Next
       /\ UNCHANGED <<route, notesVars, clientsVars, tokenVars, usersVars, userVars, clusterVars, logVars,
                        selected, users, loading, asking, formFields>>
    \/ /\ route = "cluster" /\ Cluster!Next
       /\ UNCHANGED <<route, notesVars, clientsVars, tokenVars, usersVars, userVars, integrationVars, logVars,
                        list, lost, selected, users, form, drawer, asking, loaded>>
    \/ /\ route = "logs" /\ Log!Next
       /\ UNCHANGED <<route, notesVars, clientsVars, tokenVars, usersVars, userVars, integrationVars,
                        clusterVars, list, lost, broker, reqs, sent, users, loading,
                        form, drawer, loaded, formFields>>

Spec == Init /\ [][Next]_vars

-----------------------------------------------------------------------------
TypeOK ==
    /\ route = "notifications" => Notes!TypeOK
    /\ route = "clients" => Clients!TypeOK
    /\ route = "token" => Token!TypeOK
    /\ route = "users" => Users!TypeOK
    /\ route = "user" => User!TypeOK
    /\ route = "integrations" => Integration!TypeOK
    /\ route = "cluster" => Cluster!TypeOK
    /\ route = "logs" => Log!TypeOK

\* On well-typed pages, with no request under way a page shows what the broker
\* has, after requests that were under way together: the connectors of a station
\* in their order, the users, the integrations, and the settings that "Discard"
\* would bring back. The exceptions, answers that were lost or overtaken, met a
\* replaced list, or were to an update that failed half-way, are named by the
\* parts.
ShowsBroker ==
    /\ TypeOK
    /\ route = "clients" => Clients!ConnectorsAgree
    /\ route = "users" => Users!UsersAgree
    /\ route = "integrations" => Integration!ItemsAgree
    /\ route = "cluster" => Cluster!OldAgrees

\* What a page shows belongs to what was chosen on it: the details to the
\* highlighted row, the table to the search, the count to its tab, the interval
\* to the row that shows it and within its bounds, "Apply" to every change, a
\* spinning button to a request.
ShowsChosen ==
    /\ route = "clients" => Clients!DetailsOfHighlighted
    /\ route = "users" => Users!SearchShowsMatches
    /\ route = "users" => Users!TabCounts
    /\ route = "cluster" => Cluster!IntervalBounded
    /\ route = "cluster" => Cluster!RowShowsInterval
    /\ route = "cluster" => Cluster!ChangeIsOffered
    /\ route = "integrations" => Integration!LoaderHasRequest

\* A secret that was typed in stays in the form of a token while users are
\* loaded and chosen, and the mask under which the broker sends the secret of an
\* integration never becomes the secret; except for a user created after its
\* drawer was closed, and for an answer that changed what an item knows under an
\* open form.
SecretsKept ==
    /\ route = "token" => Token!SecretKept
    /\ route = "integrations" => Integration!SecretKept

\* Once a filter's list has come it has only logs of the filter, from the newest
\* to the oldest without a gap, and the selection that follows the newest log is
\* on the first; unless a late answer, or a push of a subscription that nothing
\* ended, did not fit the list.
LogsSound ==
    /\ route = "logs" => Log!OnlyOfFilter
    /\ route = "logs" => Log!InOrder
    /\ route = "logs" => Log!FollowsNewest

\* A notification is in the storage, in the state and on the screen of a tab
\* twice at most, however often it is pushed and the page reloaded: the broker
\* sends all its messages with every push, and the state and the storage get
\* different lists.
CopiesBounded == route = "notifications" => Notes!CopiesBounded

\* A notification that was closed in any tab is not shown again by loading a
\* page, unless another tab has written its own list over the mark.
DismissedStays == [][route = "notifications" => Notes!ReloadKeepsDismissed]_vars

\* What the form of a user sends is what the screen shows, after any changes of
\* the type of user and of the way permissions are given, although it is put
\* together from two copies.
SentAsShown == [][route = "user" => User!SendsWhatIsShown]_vars
=============================================================================
