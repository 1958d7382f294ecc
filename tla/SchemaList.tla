----------------------------- MODULE SchemaList -----------------------------
(***************************************************************************)
(* The list of schemas.  It holds all schemas (schemaList) and the ones    *)
(* shown (schemaFilteredList), which two Filter components compute each    *)
(* for itself: the one with the terms and the one with the search.  The    *)
(* broker pushes its list from time to time, the answer to a deletion      *)
(* makes a list of what was shown before it, and boxes, with the drawer    *)
(* that a box may have open, go by their place in the list.                *)
(***************************************************************************)
EXTENDS Naturals, Sequences, Requests, FiniteSets

CONSTANTS
    Schemas,
    Old,            \* schemas at the broker when the page is opened, newest first
    Filters,        \* sets of schemas that terms or a search may find
    MaxSent, MaxPushes

VARIABLES
    schemas,        \* the broker, newest first
    schemaList, filteredList,
    terms, search,  \* what the two filters find; Schemas when they are empty
    isCheck, isCheckAll,
    loading,        \* "asked", "timer" or "no"
    confirm,        \* the delete modal: "closed", "open" or "typed"
    shownThen,      \* filteredList when the confirmation was typed
    drawer,         \* place of the box with an open drawer, 0 for none
    details,        \* schema whose details the drawer asked for
    reqs,           \* requests under way: the list and deletions
    pushes,         \* lists pushed by the broker and not delivered, in order
    sent, pushed,
    seen,           \* history: schemas delivered to the page and not deleted since
    hidden,         \* history: a deletion was sent from a list that was not all of
                    \* the schemas known when its answer came
    shifted         \* history: the list changed under an open drawer

listVars == <<schemaList, filteredList, drawer, details, seen, shifted>>
filterVars == <<terms, search>>
checkVars == <<isCheck, isCheckAll>>
modalVars == <<confirm, shownThen>>
vars == <<schemas, listVars, filterVars, checkVars, loading, modalVars, reqs, pushes, sent, pushed, hidden>>

\* The schemas of a list that are found, in the list's order.
Find(list, found) ==
    LET places == {i \in DOMAIN list : list[i] \in found}
        Place(k) == CHOOSE i \in places : Cardinality({j \in places : j <= i}) = k
    IN  [k \in 1..Cardinality(places) |-> list[Place(k)]]

TypeOK ==
    /\ Range(schemaList) \subseteq Schemas /\ Range(filteredList) \subseteq Schemas
    /\ isCheck \subseteq Schemas /\ isCheckAll \in BOOLEAN
    /\ loading \in {"asked", "timer", "no"}
    /\ confirm \in {"closed", "open", "typed"}
    /\ drawer \in 0..Cardinality(Schemas)

Init ==
    /\ schemas = Old /\ schemaList = <<>> /\ filteredList = <<>>
    /\ terms = Schemas /\ search = Schemas
    /\ isCheck = {} /\ isCheckAll = FALSE /\ loading = "asked"
    /\ confirm = "closed" /\ shownThen = <<>>
    /\ drawer = 0 /\ details = ""
    /\ reqs = <<[op |-> "list", names |-> {}, shown |-> <<>>, done |-> FALSE, result |-> <<>>]>>
    /\ pushes = <<>> /\ sent = 0 /\ pushed = 0
    /\ seen = {} /\ hidden = FALSE /\ shifted = FALSE

\* Nothing covers the page.
Free == confirm = "closed" /\ drawer = 0

\* The list of boxes changes: a box keeps its drawer and takes the schema now in its
\* place; a box without a place is gone.
Boxes(list) ==
    /\ filteredList' = list
    /\ drawer' = IF drawer \in DOMAIN list THEN drawer ELSE 0
    /\ shifted' = (drawer' # 0 /\ (shifted \/ list[drawer] # details))
    /\ details' = IF drawer' = 0 THEN "" ELSE details

\* SET_SCHEMA_LIST: both filters start again from it, the search last.
SetSchemaList(list) ==
    /\ schemaList' = list
    /\ Boxes(Find(list, search))

-----------------------------------------------------------------------------
\* handleApply and handleClear: the terms alone decide what is shown.
ApplyTerms(found) ==
    /\ Free /\ terms' = found /\ found # terms
    /\ Boxes(Find(schemaList, found))
    /\ UNCHANGED <<schemas, schemaList, search, checkVars, loading, modalVars, reqs, pushes, sent, pushed,
                   seen, hidden>>

\* The search alone decides what is shown.
HandleSearch(found) ==
    /\ Free /\ search' = found /\ found # search
    /\ Boxes(Find(schemaList, found))
    /\ UNCHANGED <<schemas, schemaList, terms, checkVars, loading, modalVars, reqs, pushes, sent, pushed,
                   seen, hidden>>

OnCheckedAll ==
    /\ Free /\ filteredList # <<>>
    /\ isCheckAll' = ~isCheckAll
    /\ isCheck' = IF isCheckAll THEN {} ELSE Range(filteredList)
    /\ UNCHANGED <<schemas, listVars, filterVars, loading, modalVars, reqs, pushes, sent, pushed, hidden>>

\* The check of a box.
HandleCheckedClick(s) ==
    /\ Free /\ loading = "no" /\ s \in Range(filteredList)
    /\ isCheck' = IF s \in isCheck THEN isCheck \ {s} ELSE isCheck \cup {s}
    /\ isCheckAll' = (isCheckAll /\ ~(s \in isCheck /\ Cardinality(isCheck) = 1))
    /\ UNCHANGED <<schemas, listVars, filterVars, loading, modalVars, reqs, pushes, sent, pushed, hidden>>

\* A click on a box: its drawer asks for the details once, as it is mounted.
HandleDrawer(i) ==
    /\ Free /\ loading = "no" /\ i \in DOMAIN filteredList
    /\ drawer' = i /\ details' = filteredList[i] /\ shifted' = FALSE
    /\ UNCHANGED <<schemas, schemaList, filteredList, seen, filterVars, checkVars, loading, modalVars,
                   reqs, pushes, sent, pushed, hidden>>

CloseDrawer ==
    /\ drawer # 0
    /\ drawer' = 0 /\ details' = "" /\ shifted' = FALSE
    /\ UNCHANGED <<schemas, schemaList, filteredList, seen, filterVars, checkVars, loading, modalVars,
                   reqs, pushes, sent, pushed, hidden>>

\* The delete button, and the word typed to confirm.
DeleteModal(c) ==
    /\ \/ Free /\ isCheck # {} /\ c = "open"
       \/ confirm = "open" /\ c = "typed"
       \/ confirm # "closed" /\ c = "closed"
    /\ confirm' = c
    /\ shownThen' = IF c = "typed" THEN filteredList ELSE <<>>
    /\ UNCHANGED <<schemas, listVars, filterVars, checkVars, loading, reqs, pushes, sent, pushed, hidden>>

\* By the button from the list shown now, unless a deletion is under way, or by the
\* Enter key from the one shown when the word was typed.
HandleDeleteSelected(shown) ==
    /\ confirm = "typed" /\ isCheck # {}
    /\ \/ shown = filteredList /\ \A r \in Range(reqs) : r.op # "delete"
       \/ shown = shownThen
    /\ sent < MaxSent /\ sent' = sent + 1
    /\ reqs' = Append(reqs, [op |-> "delete", names |-> isCheck, shown |-> shown, done |-> FALSE,
                             result |-> <<>>])
    /\ UNCHANGED <<schemas, listVars, filterVars, checkVars, loading, modalVars, pushes, pushed, hidden>>

-----------------------------------------------------------------------------
\* The broker: requests, schemas created elsewhere, and its pushes.
Handle(i) ==
    /\ i \in DOMAIN reqs /\ ~reqs[i].done
    /\ schemas' = Find(schemas, Schemas \ reqs[i].names)
    /\ reqs' = [reqs EXCEPT ![i].done = TRUE, ![i].result = schemas']
    /\ UNCHANGED <<listVars, filterVars, checkVars, loading, modalVars, pushes, sent, pushed, hidden>>

Created(s) ==
    /\ s \notin Range(schemas) /\ s \notin Range(Old)
    /\ schemas' = <<s>> \o schemas
    /\ UNCHANGED <<listVars, filterVars, checkVars, loading, modalVars, reqs, pushes, sent, pushed, hidden>>

Push ==
    /\ pushed < MaxPushes /\ pushed' = pushed + 1
    /\ pushes' = Append(pushes, schemas)
    /\ UNCHANGED <<schemas, listVars, filterVars, checkVars, loading, modalVars, reqs, sent, hidden>>

Deliver ==
    /\ pushes # <<>>
    /\ SetSchemaList(Head(pushes)) /\ pushes' = Tail(pushes)
    /\ seen' = Range(Head(pushes))
    /\ UNCHANGED <<schemas, filterVars, checkVars, loading, modalVars, reqs, sent, pushed, hidden>>

\* getAllSchemas after its answer; the boxes appear half a second later.
GetAllSchemas(r) ==
    /\ SetSchemaList(r.result) /\ seen' = Range(r.result)
    /\ loading' = "timer"
    /\ UNCHANGED <<checkVars, modalVars, hidden>>

LoadTimer ==
    /\ loading = "timer" /\ loading' = "no"
    /\ UNCHANGED <<schemas, listVars, filterVars, checkVars, modalVars, reqs, pushes, sent, pushed, hidden>>

\* The list becomes what was shown when the deletion was sent, without its schemas.
DeleteReply(r) ==
    /\ SetSchemaList(Find(r.shown, Schemas \ r.names))
    /\ seen' = seen \ r.names
    /\ hidden' = (hidden \/ ~(Range(schemaList) \subseteq Range(r.shown)))
    /\ isCheck' = {} /\ isCheckAll' = FALSE
    /\ confirm' = "closed" /\ shownThen' = <<>> /\ UNCHANGED loading

Reply(i) ==
    /\ i \in DOMAIN reqs /\ reqs[i].done
    /\ reqs' = RemoveAt(reqs, i)
    /\ IF reqs[i].op = "list" THEN GetAllSchemas(reqs[i]) ELSE DeleteReply(reqs[i])
    /\ UNCHANGED <<schemas, filterVars, pushes, sent, pushed>>

\* The catch blocks: the loader ends, the modal closes and the list stays.
Fail(i) ==
    /\ i \in DOMAIN reqs
    /\ reqs' = RemoveAt(reqs, i)
    /\ IF reqs[i].op = "list" THEN loading' = "no" /\ UNCHANGED modalVars
       ELSE confirm' = "closed" /\ shownThen' = <<>> /\ UNCHANGED loading
    /\ UNCHANGED <<schemas, listVars, filterVars, checkVars, pushes, sent, pushed, hidden>>

Next ==
    \/ \E found \in Filters \cup {Schemas} : ApplyTerms(found) \/ HandleSearch(found)
    \/ OnCheckedAll \/ CloseDrawer
    \/ \E s \in Schemas : HandleCheckedClick(s) \/ Created(s)
    \/ \E i \in DOMAIN filteredList : HandleDrawer(i)
    \/ \E c \in {"open", "typed", "closed"} : DeleteModal(c)
    \/ \E shown \in {filteredList, shownThen} : HandleDeleteSelected(shown)
    \/ Push \/ Deliver \/ LoadTimer
    \/ \E i \in DOMAIN reqs : Handle(i) \/ Reply(i) \/ Fail(i)

Spec == Init /\ [][Next]_vars

-----------------------------------------------------------------------------
\* A schema that the page was told of and that is still at the broker is in its list,
\* unless a deletion was sent from a list without it: under a filter, or typed before
\* a push that brought it.
SeenStays == ~hidden => (seen \cap Range(schemas)) \subseteq Range(schemaList)

\* "Unselect all" is offered only while something is selected.
CheckAllHonest == isCheckAll => isCheck # {}

\* The drawer has the details of the schema whose name it bears and whose versions its
\* buttons change, unless a push put another schema in its place.
DrawerOfSchema == (drawer # 0 /\ ~shifted) => details = filteredList[drawer]
=============================================================================
