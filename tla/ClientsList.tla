----------------------------- MODULE ClientsList -----------------------------
(***************************************************************************)
(* The list of consumer groups and sink connectors on a station's page     *)
(* (the list of producers and source connectors is the same code with the  *)
(* other two lists).  The rows are the groups followed by the connectors.  *)
(* A connector's menu sends a request and, on its reply, changes the list  *)
(* that was on the screen at the click; station data the page asked for    *)
(* replace both lists when they come.  A row is an object: pausing and     *)
(* resuming write into it, so every list that shares the object sees it.   *)
(***************************************************************************)
EXTENDS Naturals, Sequences, Requests

CONSTANTS
    CgNames,      \* consumer groups
    ConnIds,      \* sink connectors
    NoRow,
    MaxSent,      \* bound on the requests sent
    MaxObjects    \* bound on the connector objects the page ever holds

VARIABLES
    broker,       \* the broker: [cgs, conns]
    heap,         \* the connector objects of the page
    cgsList,      \* the page: names of the groups
    connectors,   \* the page: objects of connectorsSinkList
    popover,      \* [item, id] of the open menu, or NoRow
    reqs,         \* requests under way
    sent,         \* how many were sent
    data,         \* station data under way: <<>> or one copy of the broker
    selected,     \* selectedRowIndex
    cgDetails,    \* the row whose details are shown
    aside         \* history: the page may differ from the broker, see below

vars == <<broker, heap, cgsList, connectors, popover, reqs, sent, data, selected,
          cgDetails, aside>>

Conn == [id : ConnIds, on : BOOLEAN, n : 1..2]
Ops == {"start", "stop", "remove", "scale"}

TypeOK ==
    /\ broker.cgs \in Seq(CgNames) /\ broker.conns \in Seq(Conn)
    /\ heap \in Seq(Conn)
    /\ cgsList \in Seq(CgNames)
    /\ \A k \in DOMAIN connectors : connectors[k] \in DOMAIN heap
    /\ popover = NoRow \/ popover.id \in ConnIds
    /\ \A r \in Range(reqs) : r.op \in Ops /\ r.id \in ConnIds /\ r.done \in BOOLEAN
    /\ Len(data) <= 1
    /\ selected \in Nat /\ sent \in 0..MaxSent
    /\ cgDetails \in CgNames \cup ConnIds \cup {NoRow}
    /\ aside \in BOOLEAN

\* The rows of the list, by name; the connectors as the page shows them.
Names(cgs, conns, h) == cgs \o [k \in DOMAIN conns |-> h[conns[k]].id]
Rows == Names(cgsList, connectors, heap)
Shown(conns, h) == [k \in DOMAIN conns |-> h[conns[k]]]

\* arrangeData: the details of row i.
ArrangeData(cgs, conns, h, i) ==
    LET names == Names(cgs, conns, h) IN IF i \in DOMAIN names THEN names[i] ELSE NoRow

\* setConnectorsSinkList, and the effect on the list.
SetConnectors(conns, h) ==
    /\ connectors' = conns
    /\ heap' = h
    /\ cgDetails' = ArrangeData(cgsList, conns, h, selected)

Init ==
    /\ broker \in [cgs : {<<>>} \cup {<<g>> : g \in CgNames},
                   conns : {[k \in DOMAIN SetToSeq(ConnIds) |->
                              [id |-> SetToSeq(ConnIds)[k], on |-> TRUE, n |-> 1]]}]
    /\ heap = broker.conns
    /\ cgsList = broker.cgs
    /\ connectors = [k \in DOMAIN broker.conns |-> k]
    /\ popover = NoRow /\ reqs = <<>> /\ sent = 0 /\ data = <<>>
    /\ selected = 1
    /\ cgDetails = ArrangeData(cgsList, connectors, heap, 1)
    /\ aside = FALSE

-----------------------------------------------------------------------------

OnSelectedRow(i) ==
    /\ i \in DOMAIN Rows
    /\ selected' = i
    /\ cgDetails' = ArrangeData(cgsList, connectors, heap, i)
    /\ UNCHANGED <<broker, heap, cgsList, connectors, popover, reqs, sent, data, aside>>

\* The menu of a connector; a group has none.
OnOpenChange(i) ==
    /\ i \in DOMAIN Rows
    /\ \/ i > Len(cgsList) /\ popover' = [item |-> i, id |-> Rows[i]]
       \/ popover # NoRow /\ popover.item = i /\ popover' = NoRow
    /\ UNCHANGED <<broker, heap, cgsList, connectors, reqs, sent, data, selected, cgDetails, aside>>

\* The entries of the open menu.  Whether it offers to pause or to resume follows
\* the row that is now at its index, which may be a group after new data.
Offers(op) ==
    /\ popover # NoRow
    /\ popover.item \in DOMAIN Rows
    /\ LET k == popover.item - Len(cgsList)
       IN  \/ op = "remove"
           \/ op = "scale" /\ k > 0 /\ heap[connectors[k]].n = 1
           \/ op = "start" /\ (k > 0 => ~heap[connectors[k]].on)
           \/ op = "stop" /\ (k > 0 => heap[connectors[k]].on)

\* removeConnector, startConnector, stopConnector and onFinish of ConnectorScale,
\* up to the request.  The first three name the connector the menu was opened on,
\* the last one the row at its index; the menu does not wait for a reply.
Send(op) ==
    /\ Offers(op)
    /\ sent < MaxSent
    /\ sent' = sent + 1
    /\ reqs' = Append(reqs, [op |-> op, base |-> connectors, item |-> popover.item, done |-> FALSE,
                             id |-> IF op = "scale" THEN Rows[popover.item] ELSE popover.id])
    /\ aside' = (aside \/ \E r \in Range(reqs) : r.id = popover.id)
    /\ UNCHANGED <<broker, heap, cgsList, connectors, popover, data, selected, cgDetails>>

\* The broker applies a request.
Apply(r, conns) ==
    CASE r.op = "remove" -> IF \E k \in DOMAIN conns : conns[k].id = r.id
                            THEN RemoveAt(conns, CHOOSE k \in DOMAIN conns : conns[k].id = r.id)
                            ELSE conns
      [] r.op = "scale"  -> [k \in DOMAIN conns |-> IF conns[k].id = r.id
                                                    THEN [conns[k] EXCEPT !.n = 2] ELSE conns[k]]
      [] OTHER           -> [k \in DOMAIN conns |-> IF conns[k].id = r.id
                                                    THEN [conns[k] EXCEPT !.on = (r.op = "start")]
                                                    ELSE conns[k]]

Handle(i) ==
    /\ i \in DOMAIN reqs /\ ~reqs[i].done
    /\ broker' = [broker EXCEPT !.conns = Apply(reqs[i], @)]
    /\ reqs' = [reqs EXCEPT ![i].done = TRUE]
    /\ UNCHANGED <<heap, cgsList, connectors, popover, sent, data, selected, cgDetails, aside>>

\* The history variable: the reply is applied to another list than the one on the
\* screen, or to another row than the connector's.
Misplaced(r) == r.base # connectors \/ r.item \notin DOMAIN r.base \/ heap[r.base[r.item]].id # r.id

-----------------------------------------------------------------------------

\* removeConnector after the reply: the index of the menu, which counts the groups
\* as well, is used in the list of connectors.
RemoveReply(r) ==
    /\ SetConnectors(IF r.item \in DOMAIN r.base THEN RemoveAt(r.base, r.item) ELSE r.base, heap)
    /\ popover' = NoRow

\* startConnector and stopConnector after the reply; an index past the list throws.
SwitchReply(r) ==
    IF r.item \in DOMAIN r.base
    THEN /\ SetConnectors(r.base, [heap EXCEPT ![r.base[r.item]].on = (r.op = "start")])
         /\ popover' = NoRow
    ELSE UNCHANGED <<heap, connectors, cgDetails, popover>>

\* updateConnector: a copy of the connector takes its place, by its id.
UpdateConnector(r) ==
    /\ Len(heap) < MaxObjects
    /\ LET at == CHOOSE k \in DOMAIN r.base : heap[r.base[k]].id = r.id
       IN  SetConnectors([r.base EXCEPT ![at] = Len(heap) + 1],
                         Append(heap, [heap[r.base[at]] EXCEPT !.n = 2]))
    /\ UNCHANGED popover

Reply(i) ==
    /\ i \in DOMAIN reqs /\ reqs[i].done
    /\ reqs' = RemoveAt(reqs, i)
    /\ aside' = (aside \/ (IF reqs[i].op = "scale" THEN reqs[i].base # connectors
                           ELSE Misplaced(reqs[i])))
    /\ CASE reqs[i].op = "remove" -> RemoveReply(reqs[i])
         [] reqs[i].op = "scale"  -> UpdateConnector(reqs[i])
         [] OTHER                 -> SwitchReply(reqs[i])
    /\ UNCHANGED <<broker, cgsList, sent, data, selected>>

\* A request fails, before or after it was handled: the list stays, but a connector
\* that was to be scaled is shown as scaled all the same.
Fail(i) ==
    /\ i \in DOMAIN reqs
    /\ reqs' = RemoveAt(reqs, i)
    /\ aside' = (aside \/ reqs[i].done \/ reqs[i].op = "scale")
    /\ IF reqs[i].op = "scale" THEN UpdateConnector(reqs[i])
       ELSE UNCHANGED <<heap, connectors, cgDetails, popover>>
    /\ UNCHANGED <<broker, cgsList, sent, data, selected>>

-----------------------------------------------------------------------------
\* A group comes or goes.
ChangeGroups ==
    /\ broker' \in [cgs : {<<>>} \cup {<<g>> : g \in CgNames}, conns : {broker.conns}]
    /\ broker' # broker
    /\ UNCHANGED <<heap, cgsList, connectors, popover, reqs, sent, data, selected, cgDetails, aside>>

\* The station data the broker sends, and their arrival: concatFunction and the
\* effect on them set both lists to new objects.
ServeData ==
    /\ data = <<>>
    /\ data' = <<broker>>
    /\ UNCHANGED <<broker, heap, cgsList, connectors, popover, reqs, sent, selected, cgDetails, aside>>

StationSocketData ==
    /\ data # <<>>
    /\ Len(heap) + Len(data[1].conns) <= MaxObjects
    /\ data' = <<>>
    /\ cgsList' = data[1].cgs
    /\ heap' = heap \o data[1].conns
    /\ connectors' = [k \in DOMAIN data[1].conns |-> Len(heap) + k]
    /\ cgDetails' = ArrangeData(cgsList', connectors', heap', selected)
    /\ aside' = (data[1].conns # broker.conns \/ (aside /\ reqs # <<>>))
    /\ UNCHANGED <<broker, popover, reqs, sent, selected>>

Next ==
    \/ \E i \in 1..Len(Rows) : OnSelectedRow(i) \/ OnOpenChange(i)
    \/ \E op \in Ops : Send(op)
    \/ \E i \in DOMAIN reqs : Handle(i) \/ Reply(i) \/ Fail(i)
    \/ ChangeGroups \/ ServeData \/ StationSocketData

Spec == Init /\ [][Next]_vars

-----------------------------------------------------------------------------
\* The details under the list are those of the row that is highlighted, whatever
\* reply or station data replaced the lists since it was clicked.
DetailsOfHighlighted == cgDetails = (IF selected \in DOMAIN Rows THEN Rows[selected] ELSE NoRow)

\* With nothing under way the page shows the broker's connectors in the broker's
\* order, after any number of concurrent requests, unless a reply was applied to a
\* list that had been replaced or at an index that counts the groups, two requests
\* for one connector were under way, a scale failed, or the station data were older
\* than the last change.
ConnectorsAgree ==
    (reqs = <<>> /\ data = <<>> /\ ~aside) => Shown(connectors, heap) = broker.conns
=============================================================================
