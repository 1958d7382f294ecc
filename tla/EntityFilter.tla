---------------------------- MODULE EntityFilter ----------------------------
(***************************************************************************)
(* The Filter of the list of stations: a search and a popover in which     *)
(* fields of several groups are chosen and then applied.  The choices      *)
(* (filterFields) and their counter are kept when the popover is closed;   *)
(* with a counter of zero it asks for the fields anew whenever it opens,   *)
(* and the answer has nothing chosen.  The list of stations comes from     *)
(* the broker's pushes, and every change of the list, of the terms or of   *)
(* the search computes the stations shown.  The Enter key, once the        *)
(* popover has been mounted, applies the choices of its first render,      *)
(* which has none.                                                         *)
(***************************************************************************)
EXTENDS Naturals, Sequences, FiniteSets

CONSTANTS
    Stations,
    Fields,         \* what can be chosen in the popover
    GroupOf(_),     \* the group of a field: tags, creator or storage type
    Finds(_),       \* stations that a field or a search finds
    Searches,
    MaxOpens, MaxPushes

VARIABLES
    stations,       \* the broker
    pushes, pushed, \* lists pushed and not delivered; how many were
    listening,      \* the subscription: "no", "asked", "timer", "on"
    stationList, stationFilteredList,
    isOpen, mounted,\* the popover, and whether it was ever open
    fields,         \* the answer with the fields has come
    chosen,         \* fields with checked set
    counter,
    asked, opens,   \* getFilterDetails under way; how often it was asked
    filterTerms,    \* fields applied
    searchInput,
    raced           \* history: fields came while something was chosen

popVars == <<isOpen, mounted, fields, chosen, counter, asked, opens, raced>>
listVars == <<stationList, stationFilteredList>>
wsVars == <<stations, pushes, pushed, listening>>
vars == <<wsVars, listVars, popVars, filterTerms, searchInput>>

TypeOK ==
    /\ stationList \subseteq Stations /\ stationFilteredList \subseteq Stations
    /\ listening \in {"no", "asked", "timer", "on"}
    /\ {isOpen, mounted, fields, raced} \subseteq BOOLEAN
    /\ chosen \subseteq Fields /\ filterTerms \subseteq Fields
    /\ counter \in 0..(MaxOpens * Cardinality(Fields)) /\ asked \in 0..MaxOpens

Init ==
    /\ stations \in SUBSET Stations
    /\ pushes = <<>> /\ pushed = 0 /\ listening = "asked"
    /\ stationList = {} /\ stationFilteredList = {}
    /\ isOpen = FALSE /\ mounted = FALSE /\ fields = FALSE /\ chosen = {} /\ counter = 0
    /\ asked = 0 /\ opens = 0 /\ filterTerms = {} /\ searchInput = "" /\ raced = FALSE

\* Stations that have some field of every group in the terms.
FoundBy(terms) ==
    {s \in Stations : \A f \in terms : \E g \in terms : GroupOf(g) = GroupOf(f) /\ s \in Finds(g)}

\* handleFilter; a search of one character is none.
HandleFilter(list, terms, search) ==
    list \cap FoundBy(terms) \cap (IF search = "" THEN Stations ELSE Finds(search))

-----------------------------------------------------------------------------
\* flipOpen: the effect asks for the fields when nothing is chosen.
Opened(open) ==
    /\ isOpen' = open /\ mounted' = TRUE
    /\ IF open /\ counter = 0 THEN asked' = asked + 1 /\ opens' = opens + 1
                              ELSE UNCHANGED <<asked, opens>>

\* The button, a click outside and Cancel: the choices stay.
HandleOpenChange ==
    /\ isOpen \/ opens < MaxOpens
    /\ Opened(~isOpen)
    /\ UNCHANGED <<wsVars, listVars, fields, chosen, counter, raced, filterTerms, searchInput>>

\* buildFilter with the answer: nothing is chosen, the counter is left.
BuildFilter ==
    /\ asked > 0 /\ asked' = asked - 1
    /\ fields' = TRUE /\ chosen' = {}
    /\ raced' = (raced \/ counter > 0)
    /\ UNCHANGED <<wsVars, listVars, isOpen, mounted, counter, opens, filterTerms, searchInput>>

FilterDetailsFail ==
    /\ asked > 0 /\ asked' = asked - 1
    /\ UNCHANGED <<wsVars, listVars, isOpen, mounted, fields, chosen, counter, opens, raced, filterTerms,
                   searchInput>>

\* The fields drawn, as checkboxes or radio buttons of their groups, and the buttons
\* below them.
Drawn == IF isOpen /\ fields THEN Fields ELSE {}
ButtonsDrawn == isOpen

UpdateChoice(f) ==
    /\ f \in Drawn
    /\ chosen' = IF f \in chosen THEN chosen \ {f} ELSE chosen \cup {f}
    /\ counter' = IF f \in chosen THEN counter - 1 ELSE counter + 1
    /\ counter' <= MaxOpens * Cardinality(Fields)
    /\ UNCHANGED <<wsVars, listVars, isOpen, mounted, fields, asked, opens, raced, filterTerms, searchInput>>

\* The terms change, and the effect on them shows what they find.
SetFilterTerms(terms) ==
    /\ filterTerms' = terms
    /\ stationFilteredList' = HandleFilter(stationList, terms, searchInput)

HandleApply ==
    /\ ButtonsDrawn
    /\ SetFilterTerms(chosen)
    /\ isOpen' = FALSE
    /\ UNCHANGED <<wsVars, stationList, mounted, fields, chosen, counter, asked, opens, raced, searchInput>>

\* Enter, in the popover or anywhere on the page.
EnterKey ==
    /\ mounted
    /\ SetFilterTerms({})
    /\ isOpen' = FALSE
    /\ UNCHANGED <<wsVars, stationList, mounted, fields, chosen, counter, asked, opens, raced, searchInput>>

HandleClear ==
    /\ ButtonsDrawn
    /\ chosen' = {} /\ counter' = 0 /\ raced' = FALSE
    /\ SetFilterTerms({})
    /\ UNCHANGED <<wsVars, stationList, isOpen, mounted, fields, asked, opens, searchInput>>

HandleSearch(q) ==
    /\ ~isOpen /\ q # searchInput
    /\ searchInput' = q
    /\ stationFilteredList' = HandleFilter(stationList, filterTerms, q)
    /\ UNCHANGED <<wsVars, stationList, popVars, filterTerms>>

-----------------------------------------------------------------------------
\* subscribeAndListen: the request for the broker's name, and the timer before the
\* subscription is read; what was pushed in between is buffered.
Subscribe ==
    /\ \/ listening = "asked" /\ listening' \in {"timer", "no"}
       \/ listening = "timer" /\ listening' = "on"
    /\ UNCHANGED <<stations, pushes, pushed, listVars, popVars, filterTerms, searchInput>>

Push(S) ==
    /\ pushed < MaxPushes /\ listening \in {"timer", "on"}
    /\ stations' = S /\ pushed' = pushed + 1
    /\ pushes' = Append(pushes, S)
    /\ UNCHANGED <<listening, listVars, popVars, filterTerms, searchInput>>

\* Mutant of SetStationList: what the broker pushes is shown as it comes.
MutShowAll(S) ==
    /\ stationList' = S
    /\ stationFilteredList' = S

\* SET_STATION_LIST and the effect on it.
SetStationList(S) ==
    /\ stationList' = S
    /\ stationFilteredList' = HandleFilter(S, filterTerms, searchInput)

Deliver ==
    /\ listening = "on" /\ pushes # <<>>
    /\ SetStationList(Head(pushes))
    /\ pushes' = Tail(pushes)
    /\ UNCHANGED <<stations, pushed, listening, popVars, filterTerms, searchInput>>

\* getAllStations of the page.
GetAllStations ==
    /\ stationList # stations
    /\ SetStationList(stations)
    /\ UNCHANGED <<wsVars, popVars, filterTerms, searchInput>>

Next ==
    \/ HandleOpenChange \/ BuildFilter \/ FilterDetailsFail \/ HandleApply \/ EnterKey \/ HandleClear
    \/ \E f \in Fields : UpdateChoice(f)
    \/ \E q \in Searches \cup {""} : HandleSearch(q)
    \/ \E S \in SUBSET Stations : Push(S)
    \/ Subscribe \/ Deliver \/ GetAllStations

Spec == Init /\ [][Next]_vars

-----------------------------------------------------------------------------
\* A station is shown exactly if the list has it, the search finds it and each group
\* with a term applied has one that finds it, whatever was pushed, cleared, searched
\* for or chosen without being applied.
ShownAreFound ==
    stationFilteredList =
        {s \in stationList :
            /\ searchInput # "" => s \in Finds(searchInput)
            /\ \A grp \in {GroupOf(f) : f \in filterTerms} :
                   \E f \in filterTerms : GroupOf(f) = grp /\ s \in Finds(f)}

\* The number on the filter is that of the fields chosen, unless the fields came after
\* one had been chosen of the fields before; clearing them brings it back.
CounterCounts == ~raced => counter = Cardinality(chosen)
=============================================================================
