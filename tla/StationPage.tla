----------------------------- MODULE StationPage -----------------------------
(***************************************************************************)
(* The page of one station: its metadata, the partition selected, the      *)
(* lists of messages, unacknowledged messages and schema violations of     *)
(* that partition, the rows checked in the list on the screen, and the     *)
(* requests that drop or resend them.  Every reply re-renders the page at  *)
(* once; a handler that awaits goes on with the state of the render it was *)
(* called in, while the user goes on clicking.                             *)
(***************************************************************************)
EXTENDS Naturals, FiniteSets

CONSTANTS
    Rows,        \* rows [list, part, id] the broker may have for the station
    Partitions,
    MaxAsked,    \* bound on the details requests under way
    MaxChanges,  \* bound on the rows that come and go on the broker
    MaxDropped   \* bound on the rows dropped before another drop

VARIABLES
    server,      \* the rows the broker has
    page,        \* state of the components; from: the partition of the lists,
                 \* 0 when they are of several
    meta,        \* the metadata request: "idle", "sent" or "failed"
    details,     \* details requests under way
    drop,        \* handleDrop under way
    resend,      \* handleResend under way, its timer included
    dropped,     \* history: rows dropped on the broker
    revived,     \* history: dropped rows brought back by an older reply
    crossed,     \* history: the lists come from another partition's reply or drop
    inPlace,     \* history: another station was opened from this page
    changes      \* rows that came or went

vars == <<server, page, meta, details, drop, resend, dropped, revived, crossed, inPlace,
          changes>>

Lists == {"messages", "poison", "schema"}
Unserved == [rows |-> {}, done |-> FALSE]
NoDrop == [at |-> "idle", list |-> "messages", ids |-> {}, base |-> {}, from |-> 0]
Of(rows, l) == {r \in rows : r.list = l}
OfPart(rows, p) == {r \in rows : r.part = p}

\* The state of the reducer and of Messages.
PageState == [part : {0} \cup Partitions, from : {0} \cup Partitions, loading : BOOLEAN,
              left : BOOLEAN, shown : SUBSET Rows, tab : Lists, check : SUBSET Rows]

TypeOK ==
    /\ server \subseteq Rows
    /\ page \in PageState
    /\ meta \in {"idle", "sent", "failed"}
    /\ details \subseteq [part : Partitions, reply : [rows : SUBSET Rows, done : BOOLEAN]]
    /\ drop \in [at : {"idle", "sent", "timer"}, list : Lists, ids : SUBSET Rows,
                 base : SUBSET Rows, from : {0} \cup Partitions]
    /\ drop.at # "idle" => drop.ids # {} /\ drop.ids \subseteq Of(Rows, drop.list)
    /\ resend \in BOOLEAN
    /\ dropped \subseteq Rows \ server
    /\ revived \subseteq Rows
    /\ crossed \in BOOLEAN
    /\ inPlace \in BOOLEAN
    /\ changes \in 0..MaxChanges

\* The page is mounted: loader, then the metadata.
Init ==
    /\ server = Rows
    /\ page = [part |-> 0, from |-> 0, loading |-> TRUE, left |-> FALSE, shown |-> {},
               tab |-> "messages", check |-> {}]
    /\ meta = "sent"
    /\ details = {}
    /\ drop = NoDrop
    /\ resend = FALSE
    /\ dropped = {} /\ revived = {} /\ crossed = FALSE /\ inPlace = FALSE /\ changes = 0

KeepHistory == UNCHANGED <<dropped, revived, crossed, inPlace, changes>>

-----------------------------------------------------------------------------
(* Loading. *)

\* getStationDetails of the render with partition p.
GetStationDetails(p) ==
    /\ Cardinality(details) < MaxAsked
    /\ details' = details \cup {[part |-> p, reply |-> Unserved]}

\* Mutant of PartitionEffect: the effect runs when the page is mounted only.
MutNoEffect(p) ==
    /\ page' = [page EXCEPT !.part = p]
    /\ IF page.part = 0 THEN GetStationDetails(p) ELSE details' = details

\* SET_STATION_PARTITION and the effect on it: nothing when it is what it was.
PartitionEffect(p) ==
    /\ page' = [page EXCEPT !.part = p]
    /\ IF p = page.part THEN details' = details ELSE GetStationDetails(p)

\* getStaionMetaData: the page is left on a 404, and any other failure leaves the
\* loader where it is.
MetaReply ==
    /\ meta = "sent"
    /\ \/ PartitionEffect(1) /\ meta' = "idle"
       \/ page' = [page EXCEPT !.left = TRUE] /\ meta' = "idle" /\ UNCHANGED details
       \/ meta' = "failed" /\ UNCHANGED <<page, details>>
    /\ UNCHANGED <<server, drop, resend>>
    /\ KeepHistory

\* The broker handles a details request.
Serve(d) ==
    /\ d \in details /\ ~d.reply.done
    /\ details' = (details \ {d}) \cup
                      {[d EXCEPT !.reply = [rows |-> OfPart(server, d.part), done |-> TRUE]]}
    /\ UNCHANGED <<server, page, meta, drop, resend>>
    /\ KeepHistory

\* getStationDetails: SET_SOCKET_DATA replaces all lists; replies are not matched
\* with the partition selected by now.
DetailsReply(d) ==
    /\ d \in details /\ d.reply.done
    /\ details' = details \ {d}
    /\ page' = [page EXCEPT !.shown = d.reply.rows, !.from = d.part, !.loading = FALSE]
    /\ revived' = revived \cup (d.reply.rows \cap dropped)
    /\ crossed' = (d.part # page.part)
    /\ UNCHANGED <<server, meta, drop, resend, dropped, inPlace, changes>>

\* Mutant of DetailsFails: only a 404 is handled.
MutOnly404(d) ==
    /\ d \in details /\ ~d.reply.done
    /\ details' = details \ {d}
    /\ \E missing \in BOOLEAN :
          page' = [page EXCEPT !.left = @ \/ missing]
    /\ crossed' = TRUE
    /\ UNCHANGED <<server, meta, drop, resend, dropped, revived, inPlace, changes>>

\* The request fails: the lists stay what they were, a 404 leaves the page.
DetailsFails(d) ==
    /\ d \in details /\ ~d.reply.done
    /\ details' = details \ {d}
    /\ \E missing \in BOOLEAN :
          page' = [page EXCEPT !.loading = FALSE, !.left = @ \/ missing]
    /\ crossed' = TRUE
    /\ UNCHANGED <<server, meta, drop, resend, dropped, revived, inPlace, changes>>

-----------------------------------------------------------------------------
(* The user.  The lists are on the screen while the page is not loading. *)

OnPage == ~page.loading /\ ~page.left /\ ~inPlace
List == Of(page.shown, page.tab)

\* handleApply of the partitions filter.
SelectPartition(p) ==
    /\ OnPage
    /\ PartitionEffect(p)
    /\ UNCHANGED <<server, meta, drop, resend>>
    /\ KeepHistory

\* The refresh of the header, and cleanDisconnectedProducers.
Refresh ==
    /\ OnPage
    /\ GetStationDetails(page.part)
    /\ UNCHANGED <<server, page, meta, drop, resend>>
    /\ KeepHistory

\* handleChangeMenuItem and handleChangeSubMenuItem.
HandleChangeMenuItem(l) ==
    /\ OnPage
    /\ page' = [page EXCEPT !.tab = l, !.check = {}]
    /\ UNCHANGED <<server, meta, details, drop, resend>>
    /\ KeepHistory

\* Each row of the list has a checkbox; a row that left the list stays checked.
CheckBox(r) == OnPage /\ r \in List

HandleCheckedClick(r) ==
    /\ CheckBox(r)
    /\ page' = [page EXCEPT !.check = IF r \in @ THEN @ \ {r} ELSE @ \cup {r}]
    /\ UNCHANGED <<server, meta, details, drop, resend>>
    /\ KeepHistory

\* The button is Drop while rows are checked (Purge otherwise), and loading while
\* a drop is under way.
DropButton == OnPage /\ List # {} /\ page.check # {} /\ drop.at = "idle"

HandleDrop ==
    /\ DropButton
    /\ Cardinality(dropped) < MaxDropped
    /\ drop' = [at |-> "sent", list |-> page.tab, ids |-> page.check, base |-> List,
                from |-> page.from]
    /\ UNCHANGED <<server, page, meta, details, resend>>
    /\ KeepHistory

\* The broker has dropped the rows and the timer of 1500 ms is set; or it has not.
DropReply ==
    /\ drop.at = "sent"
    /\ \/ /\ server' = server \ drop.ids
          /\ dropped' = dropped \cup drop.ids
          /\ drop' = [drop EXCEPT !.at = "timer"]
       \/ drop' = NoDrop /\ UNCHANGED <<server, dropped>>
    /\ UNCHANGED <<page, meta, details, resend, revived, crossed, inPlace, changes>>

\* The timer: the list the handler was called with, without the rows, replaces
\* whatever is there by now, and the checks of the list on the screen are gone.
DropTimer ==
    /\ drop.at = "timer"
    /\ page' = [page EXCEPT !.shown = (@ \ Of(@, drop.list)) \cup (drop.base \ drop.ids),
                            !.from = IF drop.from = @ THEN @ ELSE 0,
                            !.check = {}]
    /\ crossed' = (crossed \/ drop.from # page.part)
    /\ drop' = NoDrop
    /\ UNCHANGED <<server, meta, details, resend, dropped, revived, inPlace, changes>>

\* Resend of the rows checked or, with none checked, of all; not while one is
\* under way or the broker has disabled it.
ResendButton == OnPage /\ page.tab = "poison" /\ List # {} /\ ~resend

HandleResend ==
    /\ ResendButton
    /\ resend' = TRUE
    /\ UNCHANGED <<server, page, meta, details, drop>>
    /\ KeepHistory

\* The request fails, or its timer (1500 ms, or 3500 ms for all) clears the checks.
ResendEnds ==
    /\ resend
    /\ resend' = FALSE
    /\ \/ page' = page
       \/ page' = [page EXCEPT !.check = {}]
    /\ UNCHANGED <<server, meta, details, drop>>
    /\ KeepHistory

\* The link of the header to the dead-letter station: the same component, with its
\* state, for another station.
OpenDlsStation ==
    /\ OnPage
    /\ page' = [page EXCEPT !.loading = TRUE]
    /\ meta' = "sent"
    /\ drop.at = "idle" /\ ~resend   \* a bound: only the loader is followed from here
    /\ inPlace' = TRUE
    /\ UNCHANGED <<server, details, drop, resend, dropped, revived, crossed, changes>>

\* Rows come and go on the broker: produced, rejected, acked.
BrokerChange(r) ==
    /\ changes < MaxChanges /\ ~inPlace
    /\ changes' = changes + 1
    /\ r \notin dropped
    /\ server' = IF r \in server THEN server \ {r} ELSE server \cup {r}
    /\ UNCHANGED <<page, meta, details, drop, resend, dropped, revived, crossed, inPlace>>

\* A page that was left is unmounted; what is still under way changes nothing.
Next ==
    /\ ~page.left
    /\ \/ MetaReply
       \/ \E d \in details : Serve(d) \/ DetailsReply(d) \/ DetailsFails(d)
       \/ \E p \in Partitions : SelectPartition(p)
       \/ Refresh
       \/ \E l \in Lists : HandleChangeMenuItem(l)
       \/ \E r \in Rows : HandleCheckedClick(r) \/ BrokerChange(r)
       \/ HandleDrop \/ DropReply \/ DropTimer
       \/ HandleResend \/ ResendEnds
       \/ OpenDlsStation

\* A request that was sent is answered.
Answer ==
    /\ ~page.left
    /\ MetaReply \/ \E d \in details : Serve(d) \/ DetailsReply(d) \/ DetailsFails(d)

Spec == Init /\ [][Next]_vars
FairSpec == Spec /\ WF_vars(Answer)

-----------------------------------------------------------------------------
(* Properties. *)

\* The rows checked are of the list on the screen, so that Drop and Resend send
\* them to the endpoint of their own list: message ids and dead-letter ids are not
\* told apart by the broker.
ChecksOfList == page.check \subseteq Of(Rows, page.tab)

\* A dropped row leaves the page with the timer and does not come back, unless a
\* reply the broker made up before the drop arrives after it: the drop's own list
\* is as old as the click, the checks have changed meanwhile.
DroppedStaysAway ==
    page.shown \cap dropped \subseteq revived \cup (IF drop.at = "timer" THEN drop.ids ELSE {})

\* When nothing is under way, the lists are the selected partition's, unless the
\* last reply was for another partition or failed, or the timer of a drop in
\* another partition came after it.
ListsOfPartition ==
    (details = {} /\ meta # "sent" /\ ~crossed) => \A r \in page.shown : r.part = page.part

\* The loader ends or the page is left; it stays when the metadata could not be
\* read, or when the page was opened from another station's page, whose partition
\* is kept.
LoaderEnds ==
    page.loading ~> (~page.loading \/ page.left \/ meta = "failed" \/ inPlace)
=============================================================================
