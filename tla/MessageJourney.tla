--------------------------- MODULE MessageJourney ---------------------------
(***************************************************************************)
(* The page of one unacknowledged message: it is read once, then pushed    *)
(* over the WebSocket; the page goes back to the station when no group is   *)
(* left that failed the message, when it is gone, and after a drop.        *)
(***************************************************************************)
CONSTANTS Groups

VARIABLES
    cgs,      \* the broker: groups that failed the message
    at,       \* where the user is: "journey", "station" or "elsewhere"
    get,      \* the request of the message is under way
    isLoading,
    view,     \* the groups on the screen
    sub,      \* subscription: "asked", "on" or "off"
    ignore,   \* handleIgnore: "idle", "sent" or "timer"
    resent,   \* handleResend under way, its timer included
    open,     \* history: handlers under way when the user left the page
    pulled    \* history: a user who had left was taken back to the station

vars == <<cgs, at, get, isLoading, view, sub, ignore, resent, open, pulled>>

Ends == {"idle", "sent", "timer"}

TypeOK ==
    /\ cgs \subseteq Groups
    /\ at \in {"journey", "station", "elsewhere"}
    /\ sub \in {"asked", "on", "off"}
    /\ ignore \in Ends
    /\ {get, isLoading, resent, open, pulled} \subseteq BOOLEAN
    /\ view \subseteq Groups

\* The page is mounted: its two effects.
Init ==
    /\ cgs \in SUBSET Groups
    /\ at = "journey"
    /\ get = TRUE /\ isLoading = TRUE
    /\ view = {}
    /\ sub = "asked"
    /\ ignore = "idle" /\ resent = FALSE
    /\ open = FALSE /\ pulled = FALSE

UnderWay == get \/ sub = "asked" \/ ignore # "idle"

\* Mutant of Unmount: the effect has no cleanup.
MutNoCleanup == UNCHANGED sub

\* The cleanup of the effect: what has not been granted is not cancelled.
Unmount == sub' = IF sub = "on" THEN "off" ELSE sub

\* returnBack pushes the station's page wherever the user is.
ReturnBack ==
    /\ at' = "station"
    /\ pulled' = (pulled \/ at = "elsewhere")
    /\ IF at = "journey" THEN Unmount /\ open' = UnderWay ELSE UNCHANGED <<sub, open>>

\* Mutant of ArrangeData: a message without failed groups is shown as such.
MutShowEmpty(data) ==
    /\ UNCHANGED <<at, pulled, sub, open>>
    /\ view' = data

\* arrangeData of a reply or a push.
ArrangeData(data) ==
    /\ IF data = {} THEN ReturnBack ELSE UNCHANGED <<at, pulled, sub, open>>
    /\ view' = data

\* getPosionMessageDetails: the loader ends a second after the data, at once when
\* the request fails; a message that is gone leads back.
GetReply ==
    /\ get
    /\ get' = FALSE
    /\ \/ ArrangeData(cgs) /\ UNCHANGED isLoading
       \/ isLoading' = FALSE /\ UNCHANGED <<at, pulled, sub, open, view>>
       \/ isLoading' = FALSE /\ cgs = {} /\ ReturnBack /\ UNCHANGED view
    /\ UNCHANGED <<cgs, ignore, resent>>

LoaderTimer ==
    /\ isLoading /\ view # {}
    /\ isLoading' = FALSE
    /\ UNCHANGED <<cgs, at, get, view, sub, ignore, resent, open, pulled>>

\* subscribeAndListen after its await: it does not ask whether the page is there.
SubReply ==
    /\ sub = "asked"
    /\ sub' \in {"on", "off"}
    /\ UNCHANGED <<cgs, at, get, isLoading, view, ignore, resent, open, pulled>>

\* listenForUpdates.
Push ==
    /\ sub = "on"
    /\ ArrangeData(cgs)
    /\ UNCHANGED <<cgs, get, isLoading, ignore, resent>>

\* A group acks the message.
AckBy(g) ==
    /\ g \in cgs
    /\ cgs' = cgs \ {g}
    /\ UNCHANGED <<at, get, isLoading, view, sub, ignore, resent, open, pulled>>

\* The user goes back, or elsewhere through the side bar.
Leave(to) ==
    /\ at = "journey"
    /\ at' = to
    /\ Unmount
    /\ open' = UnderWay
    /\ UNCHANGED <<cgs, get, isLoading, view, ignore, resent, pulled>>

FromStation ==
    /\ at = "station"
    /\ at' = "elsewhere"
    /\ UNCHANGED <<cgs, get, isLoading, view, sub, ignore, resent, open, pulled>>

Buttons == at = "journey" /\ ~isLoading

HandleIgnore ==
    /\ Buttons /\ ignore = "idle"
    /\ ignore' = "sent"
    /\ UNCHANGED <<cgs, at, get, isLoading, view, sub, resent, open, pulled>>

IgnoreReply ==
    /\ ignore = "sent"
    /\ \/ cgs' = {} /\ ignore' = "timer"
       \/ UNCHANGED cgs /\ ignore' = "idle"
    /\ UNCHANGED <<at, get, isLoading, view, sub, resent, open, pulled>>

IgnoreTimer ==
    /\ ignore = "timer"
    /\ ignore' = "idle"
    /\ ReturnBack
    /\ UNCHANGED <<cgs, get, isLoading, view, resent>>

HandleResend ==
    /\ Buttons /\ ~resent
    /\ resent' = TRUE
    /\ UNCHANGED <<cgs, at, get, isLoading, view, sub, ignore, open, pulled>>

ResendEnds ==
    /\ resent
    /\ resent' = FALSE
    /\ UNCHANGED <<cgs, at, get, isLoading, view, sub, ignore, open, pulled>>

Next ==
    \/ GetReply \/ LoaderTimer \/ SubReply \/ Push
    \/ \E g \in Groups : AckBy(g)
    \/ \E to \in {"station", "elsewhere"} : Leave(to)
    \/ FromStation
    \/ HandleIgnore \/ IgnoreReply \/ IgnoreTimer \/ HandleResend \/ ResendEnds

Spec == Init /\ [][Next]_vars

\* Requests are answered, the broker pushes while there is a subscription, and
\* timers run out.
Fairness ==
    /\ WF_vars(GetReply)
    /\ WF_vars(SubReply)
    /\ WF_vars(Push)

FairSpec == Spec /\ Fairness

-----------------------------------------------------------------------------
(* Properties. *)

\* A user who has left for another page is taken back to the station only by a
\* handler that was under way when the page was left: the first read, the request
\* for the subscription (whose pushes nobody stops then) or a drop with its timer.
PulledBack == pulled => open

\* A user with a subscription does not stay on the page of a message that all
\* groups have acked or that was dropped.
AckedLeaves == (at = "journey" /\ cgs = {} /\ sub = "on") ~> (at # "journey")
=============================================================================
