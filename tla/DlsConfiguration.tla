-------------------------- MODULE DlsConfiguration --------------------------
(***************************************************************************)
(* The dead-letter part of a station's configuration tab: the switches of  *)
(* DlsConfig, each sending both values and set before the reply, and the   *)
(* dead-letter station, attached and detached by a request.                *)
(***************************************************************************)
EXTENDS Naturals, Sequences, Requests

CONSTANTS
    Stations,    \* stations that may be attached
    NoStation,
    MaxSent      \* bound on the requests under way

VARIABLES
    conf,        \* the broker: switches that are on
    dlsTypes,    \* the switches on the screen
    dlsLoading,  \* the switch with a loader
    confReqs,    \* configurations under way, in the order sent
    confLost,    \* history: a configuration failed or overtook another
    attached,    \* the broker: the dead-letter station
    dls,         \* the page's
    modal,       \* "none", "use" or "disable"
    disabling,   \* disableLoader
    dlsReqs,     \* attach and detach requests under way
    again        \* history: a detach was sent while another was under way

vars == <<conf, dlsTypes, dlsLoading, confReqs, confLost, attached, dls, modal, disabling,
          dlsReqs, again>>

Switches == {"poison", "schemaverse"}

TypeOK ==
    /\ conf \subseteq Switches /\ dlsTypes \subseteq Switches
    /\ dlsLoading \subseteq Switches
    /\ \A i \in DOMAIN confReqs : confReqs[i] \subseteq Switches
    /\ {attached, dls} \subseteq Stations \cup {NoStation}
    /\ modal \in {"none", "use", "disable"}
    /\ dlsReqs \in Seq([op : {"attach", "detach"}, name : Stations])
    /\ {confLost, disabling, again} \subseteq BOOLEAN

Init ==
    /\ conf \in SUBSET Switches /\ dlsTypes = conf
    /\ dlsLoading = {} /\ confReqs = <<>> /\ confLost = FALSE
    /\ attached \in {NoStation} \cup Stations /\ dls = attached
    /\ modal = "none" /\ disabling = FALSE /\ dlsReqs = <<>> /\ again = FALSE

confVars == <<conf, dlsTypes, dlsLoading, confReqs, confLost>>
dlsVars == <<attached, dls, modal, disabling, dlsReqs, again>>
Toggled(S, x) == IF x \in S THEN S \ {x} ELSE S \cup {x}

-----------------------------------------------------------------------------

\* updateDlsConfigurations: setDlsLoading sets both switches, so the click on one
\* takes the loader from the other.
UpdateDlsConfigurations(x) ==
    /\ x \notin dlsLoading
    /\ Len(confReqs) < MaxSent
    /\ confReqs' = Append(confReqs, Toggled(dlsTypes, x))
    /\ dlsTypes' = Toggled(dlsTypes, x)
    /\ dlsLoading' = {x}
    /\ UNCHANGED <<conf, confLost>>

\* The broker handles a request, not always the oldest, or fails; the switches on
\* the screen stay as they are.
ConfReply(i) ==
    /\ i \in DOMAIN confReqs
    /\ confReqs' = RemoveAt(confReqs, i)
    /\ dlsLoading' = {}
    /\ \/ conf' = confReqs[i] /\ confLost' = (confLost \/ i # 1)
       \/ conf' = conf /\ confLost' = TRUE
    /\ UNCHANGED dlsTypes

-----------------------------------------------------------------------------
\* Enable or disable consumption.
OpenModal ==
    /\ modal = "none"
    /\ modal' = IF dls = NoStation THEN "use" ELSE "disable"
    /\ UNCHANGED <<attached, dls, disabling, dlsReqs, again>>

CloseModal ==
    /\ modal # "none"
    /\ modal' = "none"
    /\ UNCHANGED <<attached, dls, disabling, dlsReqs, again>>

\* handleSetDls of the station chosen in the modal.
HandleSetDls(s) ==
    /\ modal = "use"
    /\ dlsReqs = <<>>
    /\ dlsReqs' = <<[op |-> "attach", name |-> s]>>
    /\ UNCHANGED <<attached, dls, modal, disabling, again>>

\* handleDetachDls: the button of DeleteItemsModal waits for the loader, the Enter
\* key does not.
HandleDetachDls(key) ==
    /\ modal = "disable" /\ dls # NoStation
    /\ key = "enter" \/ ~disabling
    /\ Len(dlsReqs) < MaxSent
    /\ dlsReqs' = Append(dlsReqs, [op |-> "detach", name |-> dls])
    /\ disabling' = TRUE
    /\ again' = (again \/ dlsReqs # <<>>)
    /\ UNCHANGED <<attached, dls, modal>>

\* The reply of either; a failure closes the modal as well.
DlsReply ==
    /\ dlsReqs # <<>>
    /\ dlsReqs' = Tail(dlsReqs)
    /\ modal' = "none"
    /\ disabling' = (disabling /\ Head(dlsReqs).op = "attach")
    /\ LET s == IF Head(dlsReqs).op = "attach" THEN Head(dlsReqs).name ELSE NoStation
       IN  \/ attached' = s /\ dls' = s
           \/ UNCHANGED <<attached, dls>>
    /\ UNCHANGED again

Next ==
    \/ /\ \/ \E x \in Switches : UpdateDlsConfigurations(x)
          \/ \E i \in 1..MaxSent : ConfReply(i)
       /\ UNCHANGED dlsVars
    \/ /\ \/ OpenModal \/ CloseModal \/ DlsReply
          \/ \E s \in Stations : HandleSetDls(s)
          \/ \E key \in {"button", "enter"} : HandleDetachDls(key)
       /\ UNCHANGED confVars

Spec == Init /\ [][Next]_vars

-----------------------------------------------------------------------------
\* With no request under way the switches on the screen are the broker's, unless a
\* request failed or was handled after a later one: the screen is set first and
\* never set back.
SwitchesAgree == (confReqs = <<>> /\ ~confLost) => dlsTypes = conf

\* With no request under way the page shows the broker's dead-letter station: it
\* is set by the reply, and the two modals are never open for the same station.
DlsAgrees == (dlsReqs = <<>> /\ ~again) => dls = attached
=============================================================================
