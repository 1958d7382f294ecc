-------------------------- MODULE PurgeStationModal --------------------------
(***************************************************************************)
(* The modal that purges a station: two boxes, a word to type and a        *)
(* button; or the Enter key, whose handler is made anew only when the      *)
(* typed word changes and so has the boxes of that render.                 *)
(***************************************************************************)
EXTENDS Naturals

CONSTANTS MaxPurges   \* bound on the purges under way

VARIABLES
    opened,    \* modalPurgeIsOpen
    purgeData, \* the boxes ticked
    confirmed, \* confirm is the word "purge"
    onEnter,   \* purgeData of the keydown handler
    loader,
    underWay,  \* purges under way
    totals,    \* lists of the station's state that are not empty
    ticked,    \* history: boxes ticked since the modal was opened
    blind      \* history: a purge covered a list that had not been ticked

vars == <<opened, purgeData, confirmed, onEnter, loader, underWay, totals, ticked, blind>>

Boxes == {"purge_station", "purge_dls"}

TypeOK ==
    /\ {purgeData, onEnter, totals, ticked} \subseteq SUBSET Boxes
    /\ {opened, confirmed, loader, blind} \subseteq BOOLEAN
    /\ underWay \in 0..MaxPurges

Init ==
    /\ opened = FALSE
    /\ purgeData = {} /\ confirmed = FALSE /\ onEnter = {} /\ loader = FALSE
    /\ underWay = 0
    /\ totals \in SUBSET Boxes
    /\ ticked = {} /\ blind = FALSE

\* Mutant of Mounted: the modal keeps the component when it is closed.
MutKeepsState == UNCHANGED <<purgeData, confirmed, onEnter, loader>>

\* destroyOnClose: an opened modal has a new component.
Mounted ==
    /\ purgeData' = {} /\ confirmed' = FALSE /\ onEnter' = {} /\ loader' = FALSE

\* The Purge buttons of the list and of the configuration.
Open ==
    /\ ~opened
    /\ totals # {}
    /\ opened' = TRUE
    /\ Mounted
    /\ ticked' = {}
    /\ UNCHANGED <<underWay, totals, blind>>

Close ==
    /\ opened
    /\ opened' = FALSE
    /\ UNCHANGED <<purgeData, confirmed, onEnter, loader, underWay, totals, ticked, blind>>

\* A box is disabled while its list is empty.
Tick(b) ==
    /\ opened
    /\ b \in totals
    /\ purgeData' = IF b \in purgeData THEN purgeData \ {b} ELSE purgeData \cup {b}
    /\ ticked' = ticked \cup purgeData'
    /\ UNCHANGED <<opened, confirmed, onEnter, loader, underWay, totals, blind>>

\* Typing: the effect on confirm makes a new handler.
Type ==
    /\ opened
    /\ confirmed' = ~confirmed
    /\ onEnter' = purgeData
    /\ UNCHANGED <<opened, purgeData, loader, underWay, totals, ticked, blind>>

HandlePurge(data) ==
    /\ underWay < MaxPurges
    /\ underWay' = underWay + 1
    /\ loader' = TRUE
    /\ blind' = (blind \/ ~(data \subseteq ticked))
    /\ UNCHANGED <<opened, purgeData, confirmed, onEnter, totals, ticked>>

\* The button needs the word and a box, and waits for the request before.
Confirm ==
    /\ opened /\ confirmed /\ purgeData # {} /\ ~loader
    /\ HandlePurge(purgeData)

\* The key needs the word only.
Enter ==
    /\ opened /\ confirmed
    /\ HandlePurge(onEnter)

\* The purge is done: the modal that is open by now is closed; or it failed.
PurgeReply ==
    /\ underWay > 0
    /\ underWay' = underWay - 1
    /\ \/ opened' = FALSE /\ UNCHANGED loader
       \/ loader' = FALSE /\ UNCHANGED opened
    /\ UNCHANGED <<purgeData, confirmed, onEnter, totals, ticked, blind>>

\* New details: the effect closes the modal when a list that is ticked is empty.
SocketData(t) ==
    /\ totals' = t
    /\ \/ /\ opened /\ purgeData \ t # {}
          /\ opened' = FALSE /\ loader' = FALSE /\ purgeData' = {}
       \/ /\ ~(opened /\ purgeData \ t # {})
          /\ UNCHANGED <<opened, loader, purgeData>>
    /\ UNCHANGED <<confirmed, onEnter, underWay, ticked, blind>>

Next ==
    \/ Open \/ Close \/ Type \/ Confirm \/ Enter \/ PurgeReply
    \/ \E b \in Boxes : Tick(b)
    \/ \E t \in SUBSET Boxes : SocketData(t)

Spec == Init /\ [][Next]_vars

\* A purge covers only lists whose box was ticked since the modal was opened: the
\* Enter key may send a box that was unticked after the word was typed, never one
\* of an earlier opening.
PurgedWasTicked == ~blind
=============================================================================
