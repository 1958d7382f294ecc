--------------------------- MODULE MessageDetails ---------------------------
(***************************************************************************)
(* The drawer with the details of the row selected in the station page.    *)
(* Its effect asks for the details of a newly selected row, but only while *)
(* it is not loading.                                                      *)
(***************************************************************************)
CONSTANTS
    MsgIds,    \* the rows of the list
    NoMsg

VARIABLES
    selected,  \* selectedRowId of the station's state
    shown,     \* messageDetails: the row they describe
    load,      \* loadMessageData
    asked,     \* the row of the request under way
    passedOver \* history: a row was selected while loading, since the last request

vars == <<selected, shown, load, asked, passedOver>>

TypeOK ==
    /\ {selected, shown, asked} \subseteq MsgIds \cup {NoMsg}
    /\ load \in BOOLEAN
    /\ passedOver \in BOOLEAN
    /\ load <=> asked # NoMsg

Init ==
    /\ selected = NoMsg /\ shown = NoMsg /\ asked = NoMsg
    /\ load = FALSE
    /\ passedOver = FALSE

\* getMessageDetails, up to the request.
GetMessageDetails(m) ==
    /\ shown' = NoMsg
    /\ load' = TRUE
    /\ asked' = m
    /\ passedOver' = FALSE

\* onSelectedRow, and the effect on the row selected.
OnSelectedRow(m) ==
    /\ selected' = m
    /\ \/ m # selected /\ ~load /\ GetMessageDetails(m)
       \/ m # selected /\ load /\ passedOver' = TRUE /\ UNCHANGED <<shown, load, asked>>
       \/ m = selected /\ UNCHANGED <<shown, load, asked, passedOver>>

\* The drawer is closed, the tab changed, or the timer of a drop has come.
Unselect ==
    /\ selected # NoMsg
    /\ selected' = NoMsg
    /\ UNCHANGED <<shown, load, asked, passedOver>>

\* arrangeData, and the effect on messageDetails that ends the loader.
ArrangeData ==
    /\ asked # NoMsg
    /\ shown' = asked
    /\ load' = FALSE
    /\ asked' = NoMsg
    /\ UNCHANGED <<selected, passedOver>>

RequestFails ==
    /\ asked # NoMsg
    /\ load' = FALSE
    /\ asked' = NoMsg
    /\ UNCHANGED <<selected, shown, passedOver>>

\* The contents of the drawer.
Drawer == ~load /\ selected # NoMsg /\ shown # NoMsg

Next ==
    \/ \E m \in MsgIds : OnSelectedRow(m)
    \/ Unselect
    \/ ArrangeData
    \/ RequestFails

Spec == Init /\ [][Next]_vars

\* The drawer describes the row that is selected, whatever failed before, unless
\* the row was selected while another one was loading: then it describes that one.
DetailsOfSelected == Drawer => shown = selected \/ passedOver
=============================================================================
