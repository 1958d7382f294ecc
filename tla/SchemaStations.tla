--------------------------- MODULE SchemaStations ---------------------------
(***************************************************************************)
(* Tags and enforced stations in the drawer of a schema, and the modal     *)
(* that enforces the schema on stations or, after a change of the active   *)
(* version, the new version on the stations that use it.  Every answer     *)
(* puts the whole of the details of the render that sent the request over  *)
(* those of the moment, and closes the modal, its own or a later one.      *)
(***************************************************************************)
EXTENDS Naturals, Sequences, Requests, FiniteSets

CONSTANTS
    Stations, Tags,
    Letter,         \* a character: what the select-all box puts for names
    MaxSent         \* bound on the requests sent

VARIABLES
    attached, tags, \* the broker
    details,        \* schemaDetails: [used, tags]
    box,            \* the schema in the list behind the drawer: [used, tags]
    modal,          \* attachStaionModal and isUpdate: "none", "attach" or "update"
    mount,          \* number of the request that the mounted modal asked with
    allStations, isCheck, isCheckAll, indeterminate,
    reqs, sent,
    lettered,       \* history: the select-all box was used with stations attached
    crossed,        \* history: an answer found other details than its request had
    lost            \* history: the broker did part of a request that failed

modalVars == <<modal, mount, allStations, isCheck, isCheckAll, indeterminate>>
vars == <<attached, tags, details, box, modalVars, reqs, sent, lettered, crossed, lost>>

TypeOK ==
    /\ details.used \subseteq Stations /\ details.tags \subseteq Tags
    /\ modal \in {"none", "attach", "update"}
    /\ allStations \subseteq Stations /\ isCheck \subseteq Stations \cup {Letter}
    /\ {isCheckAll, indeterminate, lettered, crossed, lost} \subseteq BOOLEAN
    /\ box.used \in BOOLEAN /\ mount \in 0..MaxSent /\ sent \in 0..MaxSent

Init ==
    /\ attached \in SUBSET Stations /\ tags = Tags
    /\ details = [used |-> attached, tags |-> tags]
    /\ box = [used |-> attached # {}, tags |-> tags]
    /\ modal = "none" /\ mount = 0 /\ allStations = {} /\ isCheck = {}
    /\ isCheckAll = FALSE /\ indeterminate = FALSE
    /\ reqs = <<>> /\ sent = 0
    /\ lettered = FALSE /\ crossed = FALSE /\ lost = FALSE

Send(op, names) ==
    /\ sent < MaxSent
    /\ sent' = sent + 1
    /\ reqs' = Append(reqs, [op |-> op, names |-> names, modal |-> modal', snap |-> details,
                             number |-> sent', done |-> FALSE])

-----------------------------------------------------------------------------
\* The button of the drawer, or the answer to a change of the active version when
\* stations use the schema; the modal asks for the stations as it is mounted.
OpenModal(m) ==
    /\ modal = "none" /\ (m = "update" => details.used # {})
    /\ modal' = m /\ mount' = sent + 1 /\ allStations' = {} /\ isCheck' = {}
    /\ isCheckAll' = FALSE /\ indeterminate' = FALSE
    /\ Send("list", {})
    /\ UNCHANGED <<attached, tags, details, box, lettered, crossed, lost>>

Close ==
    /\ modal' = "none" /\ mount' = 0 /\ allStations' = {} /\ isCheck' = {}
    /\ isCheckAll' = FALSE /\ indeterminate' = FALSE

CancelModal ==
    /\ modal # "none"
    /\ Close
    /\ UNCHANGED <<attached, tags, details, box, reqs, sent, lettered, crossed, lost>>

\* Boxes that cannot be changed: those of stations with the schema.
Fixed == IF modal = "update" THEN {} ELSE details.used

SelectAllEnabled == allStations # {} /\ Cardinality(Fixed) # Cardinality(allStations)

\* With stations attached the box only alternates indeterminate, and checks the first
\* letter of the last name instead of the names.
OnCheckedAll ==
    /\ modal # "none" /\ SelectAllEnabled
    /\ IF Fixed # {}
       THEN /\ indeterminate' = ~indeterminate
            /\ isCheck' = IF indeterminate THEN {}
                          ELSE IF allStations \subseteq Fixed THEN isCheck ELSE {Letter}
            /\ lettered' = TRUE
            /\ UNCHANGED isCheckAll
       ELSE /\ isCheckAll' = ~isCheckAll /\ indeterminate' = FALSE
            /\ isCheck' = IF isCheckAll THEN {} ELSE allStations
            /\ UNCHANGED lettered
    /\ UNCHANGED <<attached, tags, details, box, modal, mount, allStations, reqs, sent, crossed, lost>>

HandleCheckedClick(s) ==
    /\ modal # "none" /\ s \in allStations \ Fixed
    /\ isCheck' = IF s \in isCheck THEN isCheck \ {s} ELSE isCheck \cup {s}
    /\ isCheckAll' = (Cardinality(isCheck') = Cardinality(allStations))
    /\ indeterminate' = (isCheck' # {} /\ Cardinality(isCheck') < Cardinality(allStations))
    /\ UNCHANGED <<attached, tags, details, box, modal, mount, allStations, reqs, sent, lettered, crossed, lost>>

EnforceEnabled == modal # "none" /\ allStations # {} /\ isCheck # {}

\* The button takes no isLoading and may be pressed again.
AttachToStation ==
    /\ EnforceEnabled
    /\ UNCHANGED modalVars
    /\ Send("attach", isCheck)
    /\ UNCHANGED <<attached, tags, details, box, lettered, crossed, lost>>

\* The tags of the drawer, which the modal covers.
RemoveTag(t) ==
    /\ modal = "none" /\ t \in details.tags
    /\ UNCHANGED modalVars
    /\ Send("untag", {t})
    /\ UNCHANGED <<attached, tags, details, box, lettered, crossed, lost>>

-----------------------------------------------------------------------------
\* The broker; a name that is no station fails the request, some stations of which
\* may have been handled.
Handle(i) ==
    /\ i \in DOMAIN reqs /\ ~reqs[i].done
    /\ LET r == reqs[i]
       IN  /\ attached' = IF r.op = "attach" THEN attached \cup r.names ELSE attached
           /\ tags' = IF r.op = "untag" THEN tags \ r.names ELSE tags
           /\ Letter \notin r.names
           /\ reqs' = [reqs EXCEPT ![i].done = TRUE]
    /\ UNCHANGED <<details, box, modalVars, sent, lettered, crossed, lost>>

\* getAllStations after its answer, unless the modal that asked is gone: for an update
\* the stations that use the schema.
GetAllStations(r) ==
    /\ allStations' = IF r.number # mount THEN allStations
                      ELSE IF modal = "update" THEN Stations \cap r.snap.used ELSE Stations
    /\ UNCHANGED <<details, box, modal, mount, isCheck, isCheckAll, indeterminate, crossed>>

\* removeTag and updateTags: the request's details are spread over the present ones.
UpdateTags(r) ==
    /\ details' = [r.snap EXCEPT !.tags = @ \ r.names]
    /\ box' = [box EXCEPT !.tags = r.snap.tags \ r.names]
    /\ crossed' = (crossed \/ r.snap # details)
    /\ UNCHANGED modalVars

\* Mutant of UpdateStations: the stations attached replace the ones before.
MutReplace(r) ==
    /\ details' = IF r.modal = "update" THEN details ELSE [r.snap EXCEPT !.used = r.names]
    /\ box' = IF r.modal = "update" THEN box ELSE [box EXCEPT !.used = TRUE]
    /\ crossed' = (crossed \/ (r.modal # "update" /\ r.snap # details))
    /\ Close

\* updateStations, not after an update, and close.
UpdateStations(r) ==
    /\ details' = IF r.modal = "update" THEN details ELSE [r.snap EXCEPT !.used = @ \cup r.names]
    /\ box' = IF r.modal = "update" THEN box ELSE [box EXCEPT !.used = TRUE]
    /\ crossed' = (crossed \/ (r.modal # "update" /\ r.snap # details))
    /\ Close

Reply(i) ==
    /\ i \in DOMAIN reqs /\ reqs[i].done
    /\ reqs' = RemoveAt(reqs, i)
    /\ CASE reqs[i].op = "list"  -> GetAllStations(reqs[i])
         [] reqs[i].op = "untag" -> UpdateTags(reqs[i])
         [] OTHER                -> UpdateStations(reqs[i])
    /\ UNCHANGED <<attached, tags, sent, lettered, lost>>

\* The catch blocks: only that of attachToStation does anything.
Fail(i) ==
    /\ i \in DOMAIN reqs
    /\ reqs' = RemoveAt(reqs, i)
    /\ attached' \in {attached} \cup
           (IF reqs[i].op = "attach" THEN {attached \cup (S \cap Stations) : S \in SUBSET reqs[i].names}
                                     ELSE {})
    /\ lost' = (lost \/ attached' # attached \/ reqs[i].done)
    /\ IF reqs[i].op = "attach" THEN Close ELSE UNCHANGED modalVars
    /\ UNCHANGED <<tags, details, box, sent, lettered, crossed>>

Next ==
    \/ \E m \in {"attach", "update"} : OpenModal(m)
    \/ CancelModal \/ OnCheckedAll \/ AttachToStation
    \/ \E s \in Stations : HandleCheckedClick(s)
    \/ \E t \in Tags : RemoveTag(t)
    \/ \E i \in DOMAIN reqs : Handle(i) \/ Reply(i) \/ Fail(i)

Spec == Init /\ [][Next]_vars

-----------------------------------------------------------------------------
\* With no request under way the drawer shows the stations that the broker enforces
\* the schema on, and its tags, and the list behind it agrees; the exceptions are an
\* answer to a request sent from other details, and a request that failed half-way.
DetailsAgree ==
    (reqs = <<>> /\ ~crossed /\ ~lost) =>
        /\ details = [used |-> attached, tags |-> tags]
        /\ box = [used |-> attached # {}, tags |-> tags]

\* Only stations without the schema are chosen to have it enforced, and for an update
\* only stations with it, unless the select-all box put a letter in their place.  A
\* tag's late answer brings back the stations the drawer knew when it was sent.
ChecksAreStations ==
    (~lettered /\ ~crossed) => isCheck \subseteq allStations \ Fixed
=============================================================================
