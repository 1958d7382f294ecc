---------------------------- MODULE StationHeader ----------------------------
(***************************************************************************)
(* The head of a station's page: the schema it enforces, attached in       *)
(* UseSchemaModal, brought up to date in UpdateSchemaModal and detached    *)
(* behind a confirmation, its dead-letter station, and its deletion.       *)
(* A modal may be closed while its request is under way: the reply is      *)
(* applied all the same.                                                   *)
(***************************************************************************)
EXTENDS Naturals, Sequences, Requests

CONSTANTS
    Schemas,     \* names of schemas
    NoSchema,
    MaxSent      \* bound on the requests sent

VARIABLES
    active,      \* the broker: active version of each schema, 1 or 2
    enforced,    \* the broker: [name, version] the station enforces, or NoSchema
    dlsOn,       \* the broker: the station has a dead-letter station
    exists,      \* the broker: the station exists
    schema,      \* the page: schema of the station data
    dls,         \* the page: dls_station of the meta data
    modal,       \* the open modal
    detachLoader, deleteLoader,
    attachLoader,\* useschemaLoading of the open modal
    reqs,        \* requests under way
    sent,        \* how many were sent
    left,        \* the page was left for the list of stations
    aside,       \* history: the page may show another schema, see below
    dlsDetached  \* history: a dead-letter station was detached on this page

vars == <<active, enforced, dlsOn, exists, schema, dls, modal, detachLoader, deleteLoader,
          attachLoader, reqs, sent, left, aside, dlsDetached>>
brokerVars == <<active, enforced, dlsOn, exists>>
pageVars == <<schema, dls, modal, detachLoader, deleteLoader, attachLoader, left>>

Version == [name : Schemas, version : 1..2]
Ops == {"use", "update", "detach", "delete", "detachDls"}

TypeOK ==
    /\ active \in [Schemas -> 1..2]
    /\ {enforced, schema} \subseteq Version \cup {NoSchema}
    /\ modal \in {"none", "use", "update", "detach", "delete", "disable"}
    /\ {dlsOn, exists, dls, detachLoader, deleteLoader, attachLoader, left, aside, dlsDetached}
         \subseteq BOOLEAN
    /\ \A r \in Range(reqs) : r.op \in Ops
    /\ sent \in 0..MaxSent
    /\ attachLoader => modal \in {"use", "update"}

Init ==
    /\ active = [s \in Schemas |-> 1]
    /\ enforced \in {NoSchema} \cup [name : Schemas, version : {1}] /\ schema = enforced
    /\ dlsOn \in BOOLEAN /\ dls = dlsOn
    /\ exists = TRUE
    /\ modal = "none" /\ detachLoader = FALSE /\ deleteLoader = FALSE /\ attachLoader = FALSE
    /\ reqs = <<>> /\ sent = 0
    /\ left = FALSE /\ aside = FALSE /\ dlsDetached = FALSE

-----------------------------------------------------------------------------
\* The buttons of the head: a schema is attached when there is none, detached or
\* brought up to date when there is and the page has heard of a newer version.
Offered(m) ==
    CASE m = "use"     -> schema = NoSchema
      [] m = "detach"  -> schema # NoSchema
      [] m = "update"  -> schema # NoSchema /\ schema.version < active[schema.name]
      [] m = "disable" -> dls
      [] OTHER         -> TRUE

Open(m) ==
    /\ ~left /\ modal = "none" /\ Offered(m)
    /\ modal' = m
    /\ UNCHANGED <<brokerVars, schema, dls, detachLoader, deleteLoader, attachLoader, reqs, sent,
                   left, aside, dlsDetached>>

\* A click outside; the modal's own state goes with it.
Close ==
    /\ ~left /\ modal # "none"
    /\ modal' = "none"
    /\ attachLoader' = FALSE
    /\ UNCHANGED <<brokerVars, schema, dls, detachLoader, deleteLoader, reqs, sent, left, aside,
                   dlsDetached>>

Send(op, s) ==
    /\ ~left /\ sent < MaxSent
    /\ sent' = sent + 1
    /\ reqs' = Append(reqs, [op |-> op, name |-> s, done |-> FALSE, result |-> NoSchema])

\* The schemas UseSchemaModal lists, and the one UpdateSchemaModal is for; their
\* buttons wait for the reply.
Selectable(s) == modal = "use" /\ ~attachLoader
UpToDate(s) == modal = "update" /\ ~attachLoader /\ schema # NoSchema /\ s = schema.name

\* useSchema of either modal, up to its request.
UseSchema(s) ==
    /\ Selectable(s) \/ UpToDate(s)
    /\ Send(modal, s)
    /\ attachLoader' = TRUE
    /\ UNCHANGED <<brokerVars, schema, dls, modal, detachLoader, deleteLoader, left, aside,
                   dlsDetached>>

\* DeleteItemsModal: the button waits for the loader, the Enter key does not.
Confirm(key, loader) == key = "enter" \/ ~loader

HandleStopUseSchema(key) ==
    /\ modal = "detach" /\ Confirm(key, detachLoader)
    /\ Send("detach", NoSchema)
    /\ detachLoader' = TRUE
    /\ UNCHANGED <<brokerVars, schema, dls, modal, deleteLoader, attachLoader, left, aside,
                   dlsDetached>>

\* handleDetachDls sets detachLoader, but its modal shows disableLoader, never set.
HandleDetachDls ==
    /\ modal = "disable"
    /\ Send("detachDls", NoSchema)
    /\ detachLoader' = TRUE
    /\ UNCHANGED <<brokerVars, schema, dls, modal, deleteLoader, attachLoader, left, aside,
                   dlsDetached>>

HandleDeleteStation(key) ==
    /\ modal = "delete" /\ Confirm(key, deleteLoader)
    /\ Send("delete", NoSchema)
    /\ deleteLoader' = TRUE
    /\ UNCHANGED <<brokerVars, schema, dls, modal, detachLoader, attachLoader, left, aside,
                   dlsDetached>>

-----------------------------------------------------------------------------
\* The broker handles a request on a station that exists.
Handle(i) ==
    /\ i \in DOMAIN reqs /\ ~reqs[i].done /\ exists
    /\ LET r == reqs[i]
           now == CASE r.op \in {"use", "update"} -> [name |-> r.name, version |-> active[r.name]]
                    [] r.op = "detach"            -> NoSchema
                    [] OTHER                      -> enforced
       IN  /\ enforced' = now
           /\ dlsOn' = (dlsOn /\ r.op # "detachDls")
           /\ exists' = (r.op # "delete")
           /\ reqs' = [reqs EXCEPT ![i].done = TRUE, ![i].result = now]
    /\ UNCHANGED <<active, pageVars, sent, aside, dlsDetached>>

\* Another version becomes the active one (from the schema's own page).
Activate(s) ==
    /\ active[s] = 1
    /\ active' = [active EXCEPT ![s] = 2]
    /\ UNCHANGED <<enforced, dlsOn, exists, pageVars, reqs, sent, aside, dlsDetached>>

\* Mutant of UseSchemaReply: the schema chosen is shown in the version the page had.
MutKeepVersion(r) ==
    /\ schema' = IF schema = NoSchema THEN r.result ELSE [r.result EXCEPT !.version = schema.version]
    /\ modal' = IF modal = r.op THEN "none" ELSE modal
    /\ attachLoader' = FALSE
    /\ UNCHANGED <<dls, detachLoader, deleteLoader, left>>

\* The replies.  A reply closes the modal of its kind, even one opened again.
UseSchemaReply(r) ==
    /\ schema' = r.result
    /\ modal' = IF modal = r.op THEN "none" ELSE modal
    /\ attachLoader' = (attachLoader /\ modal # r.op)
    /\ UNCHANGED <<dls, detachLoader, deleteLoader, left>>

StopUseSchemaReply ==
    /\ schema' = NoSchema
    /\ modal' = IF modal = "detach" THEN "none" ELSE modal
    /\ detachLoader' = FALSE
    /\ UNCHANGED <<dls, deleteLoader, attachLoader, left>>

\* The loader is not ended here.
DetachDlsReply ==
    /\ dls' = FALSE
    /\ modal' = IF modal = "disable" THEN "none" ELSE modal
    /\ UNCHANGED <<schema, detachLoader, deleteLoader, attachLoader, left>>

DeleteStationReply ==
    /\ left' = TRUE
    /\ modal' = "none" /\ deleteLoader' = FALSE /\ attachLoader' = FALSE
    /\ UNCHANGED <<schema, dls, detachLoader>>

Reply(i) ==
    /\ i \in DOMAIN reqs /\ reqs[i].done
    /\ reqs' = RemoveAt(reqs, i)
    /\ LET r == reqs[i]
       IN  IF left THEN UNCHANGED pageVars
           ELSE CASE r.op \in {"use", "update"} -> UseSchemaReply(r)
                  [] r.op = "detach"            -> StopUseSchemaReply
                  [] r.op = "detachDls"         -> DetachDlsReply
                  [] OTHER                      -> DeleteStationReply
    /\ aside' = (aside \/ (reqs[i].op \in {"use", "update", "detach"} /\ reqs[i].result # enforced))
    /\ dlsDetached' = (dlsDetached \/ reqs[i].op = "detachDls")
    /\ UNCHANGED <<brokerVars, sent>>

\* The catch blocks; a request may fail after the broker handled it.
Fail(i) ==
    /\ i \in DOMAIN reqs
    /\ reqs' = RemoveAt(reqs, i)
    /\ LET op == IF left THEN "none" ELSE reqs[i].op
       IN  /\ detachLoader' = (detachLoader /\ op \notin {"detach", "detachDls"})
           /\ deleteLoader' = (deleteLoader /\ op # "delete")
           /\ attachLoader' = (attachLoader /\ op # modal)
           /\ modal' = IF (op = modal /\ op \in {"detach", "delete"})
                           \/ (op = "detachDls" /\ modal = "disable") THEN "none" ELSE modal
    /\ aside' = (aside \/ reqs[i].done)
    /\ UNCHANGED <<brokerVars, schema, dls, sent, left, dlsDetached>>

Next ==
    \/ \E m \in {"use", "update", "detach", "delete", "disable"} : Open(m)
    \/ Close \/ HandleDetachDls
    \/ \E s \in Schemas : UseSchema(s) \/ Activate(s)
    \/ \E key \in {"button", "enter"} : HandleStopUseSchema(key) \/ HandleDeleteStation(key)
    \/ \E i \in DOMAIN reqs : Handle(i) \/ Reply(i) \/ Fail(i)

Spec == Init /\ [][Next]_vars

-----------------------------------------------------------------------------
\* With no request under way the page shows the schema and version the station
\* enforces, also when the modal of the request was closed or opened again, unless
\* a reply was overtaken by a later change or lost after the broker's part.
SchemaAgrees == (reqs = <<>> /\ ~left /\ ~aside) => schema = enforced

\* The detach button of the schema spins only while a detach is under way, or after
\* a dead-letter station was detached on the same page: that loader never ends, and
\* the schema can then be detached by the Enter key only.
DetachLoaderEnds ==
    (detachLoader /\ ~left) => dlsDetached \/ \E r \in Range(reqs) : r.op \in {"detach", "detachDls"}
=============================================================================
