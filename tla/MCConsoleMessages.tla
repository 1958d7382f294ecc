-------------------------- MODULE MCConsoleMessages --------------------------
(*
The session of the web console and the pages on which the messages of a station
are looked at, dropped and resent. One of them is looked at: "route" says which, and is chosen first. They have
nothing in common but the broker, of which each module models the part its page
shows, so they are checked side by side and not interleaved.
*)
EXTENDS Naturals

CONSTANTS
    None,
    Tabs, Watched, MaxLoads, MaxReqs,                   \* the session
    Rows, Partitions, MaxAsked, MaxChanges, MaxDropped, \* the station
    MsgIds, NoMsg,                                      \* the drawer
    Groups                                              \* the journey

ASSUME ConsoleMessagesAssumption ==
    /\ {MaxLoads, MaxReqs, MaxAsked, MaxChanges, MaxDropped} \subseteq Nat
    /\ Watched \in Tabs
    /\ Rows \subseteq [list : {"messages", "poison", "schema"}, part : Partitions, id : Nat]
    /\ Partitions \subseteq Nat \ {0} /\ 1 \in Partitions
    /\ NoMsg \notin MsgIds

VARIABLES
    route,   \* the page
    token, showSignup, tab, loads, session, underWay, server, page, meta, details, drop,
    resend, dropped, revived, crossed, inPlace, changes, selected, shown, load, asked,
    passedOver, cgs, at, get, isLoading, view, sub, ignore, resent, open, pulled

vars == <<route, token, showSignup, tab, loads, session, underWay, server, page, meta, details, drop,
          resend, dropped, revived, crossed, inPlace, changes, selected, shown, load,
          asked, passedOver, cgs, at, get, isLoading, view, sub, ignore, resent, open,
          pulled>>

Session == INSTANCE ConsoleSession
Station == INSTANCE StationPage
Message == INSTANCE MessageDetails
Journey == INSTANCE MessageJourney

\* The rows of the small instance.
StationRows == {[list |-> "messages", part |-> 1, id |-> 1],
                [list |-> "poison", part |-> 2, id |-> 2]}

\* The variables that only one page has; they are None on the other pages.
sessionVars == <<token, showSignup, tab, loads, session, underWay>>
stationVars == <<server, page, meta, details, drop, resend, dropped, revived, crossed, inPlace, changes>>
messageVars == <<selected, shown, load, asked, passedOver>>
journeyVars == <<cgs, at, get, isLoading, view, sub, ignore, resent, open, pulled>>

SessionOff == token = None /\ showSignup = None /\ tab = None /\ loads = None /\ session = None /\
              underWay = None
StationOff == server = None /\ page = None /\ meta = None /\ details = None /\ drop = None /\
              resend = None /\ dropped = None /\ revived = None /\ crossed = None /\
              inPlace = None /\ changes = None
MessageOff == selected = None /\ shown = None /\ load = None /\ asked = None /\ passedOver = None
JourneyOff == cgs = None /\ at = None /\ get = None /\ isLoading = None /\ view = None /\
              sub = None /\ ignore = None /\ resent = None /\ open = None /\
              pulled = None

Init ==
    \/ /\ route = "session" /\ Session!Init
       /\ StationOff /\ MessageOff /\ JourneyOff
    \/ /\ route = "station" /\ Station!Init
       /\ SessionOff /\ MessageOff /\ JourneyOff
    \/ /\ route = "message" /\ Message!Init
       /\ SessionOff /\ StationOff /\ JourneyOff
    \/ /\ route = "journey" /\ Journey!Init
       /\ SessionOff /\ StationOff /\ MessageOff

Next ==
    \/ /\ route = "session" /\ Session!Next
       /\ UNCHANGED <<route, stationVars, messageVars, journeyVars>>
    \/ /\ route = "station" /\ Station!Next
       /\ UNCHANGED <<route, sessionVars, messageVars, journeyVars>>
    \/ /\ route = "message" /\ Message!Next
       /\ UNCHANGED <<route, sessionVars, stationVars, journeyVars>>
    \/ /\ route = "journey" /\ Journey!Next
       /\ UNCHANGED <<route, sessionVars, stationVars, messageVars>>

Spec == Init /\ [][Next]_vars

\* The fairness of the modules: a page that is being left is unloaded, the interval
\* ticks, requests are answered, and a subscription is served.
Fairness ==
    /\ WF_(Session!vars)(route = "session" /\ Session!Unload(Watched))
    /\ WF_(Session!vars)(route = "session" /\ Session!HandleRefresh(Watched))
    /\ WF_(Station!vars)(route = "station" /\ Station!Answer)
    /\ WF_(Journey!vars)(route = "journey" /\ Journey!GetReply)
    /\ WF_(Journey!vars)(route = "journey" /\ Journey!SubReply)
    /\ WF_(Journey!vars)(route = "journey" /\ Journey!Push)

FairSpec == Spec /\ Fairness

-----------------------------------------------------------------------------
TypeOK ==
    /\ route = "session" => Session!TypeOK
    /\ route = "station" => Station!TypeOK
    /\ route = "message" => Message!TypeOK
    /\ route = "journey" => Journey!TypeOK

\* A session that was closed in any tab comes back without a new login only
\* through a refresh that was already under way.
LogoutHolds == route = "session" => Session!LogoutHolds

\* On well-typed pages, what a station's page shows is of what is selected: the
\* lists are those of the selected partition, rows that were dropped stay away,
\* the checks, which Drop and Resend send, are of the list on the screen, and
\* the drawer describes the selected row; each but for the orders of replies and
\* timers that its part names.
ShowsSelected ==
    /\ TypeOK
    /\ route = "station" => Station!ChecksOfList
    /\ route = "station" => Station!DroppedStaysAway
    /\ route = "station" => Station!ListsOfPartition
    /\ route = "message" => Message!DetailsOfSelected

\* A user who has left the page of a dead letter is taken back to the station
\* only by a handler that was under way when the page was left: the first read,
\* the request for the subscription (whose pushes nobody stops then) or a drop
\* with its timer.
PulledBack == route = "journey" => Journey!PulledBack

\* A tab does not go on showing a private page of a session that is over: the
\* next interval, if nothing else, takes it away. The tabs are alike, so one
\* stands for all, and its own interval is enough.
OrphanLeaves ==
    (route = "session" /\ tab[Watched].path = "private" /\ token = "none")
        ~> (route = "session" => tab[Watched].path # "private" \/ token # "none")

\* The station page's loader ends or the page is left; it stays when the
\* metadata could not be read, or when the page was opened from another
\* station's page, whose partition is kept.
LoaderEnds ==
    (route = "station" /\ page.loading)
        ~> (route = "station" => ~page.loading \/ page.left \/ meta = "failed" \/ inPlace)

\* A user with a subscription does not stay on the page of a message that all
\* groups have acked or that was dropped.
AckedLeaves ==
    (route = "journey" /\ at = "journey" /\ cgs = {} /\ sub = "on") ~> (at # "journey")
=============================================================================
