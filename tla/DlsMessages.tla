----------------------------- MODULE DlsMessages -----------------------------
(***************************************************************************)
(* The dead-letter store of one station: how the report that a consumer    *)
(* group failed to process a message becomes a row of the dls_messages     *)
(* table, how the row is resent to the group, and how it leaves the table. *)
(*                                                                         *)
(* A report is a JetStream "max deliveries" advisory (queue "unacked") or  *)
(* an explicit nack of the SDK (queue "nacked").  Both queues are work-    *)
(* queue streams with a durable pull consumer; on every broker one         *)
(* goroutine per queue (a worker) fetches reports, runs the handler and    *)
(* acks the report only when the handler returned no error.  AckWait       *)
(* expiry, handler errors, replies that arrive after the fetch timed out   *)
(* and broker crashes all make the consumer deliver the report again, at   *)
(* most MaxDeliver times.                                                  *)
(***************************************************************************)
EXTENDS Naturals

CONSTANTS
    Brokers,     \* brokers of the cluster
    Parts,       \* partition numbers of the station
    Seqs,        \* message sequence numbers within a partition
    Groups,      \* consumer groups of the station
    Reports,     \* reports that may be raised, a subset of Report
    Resent,      \* reports whose message carries producedBy = $memphis_dls
    Removable,   \* groups whose last consumer may be destroyed
    NoReport,    \* what an idle worker holds
    MaxId,       \* bound on the ids given to rows
    MaxDeliver,  \* MaxDeliver of the two durable consumers
    MaxFaults,   \* bound on redeliveries forced by the environment
    MaxCopies    \* bound on unanswered resent copies per row and group

Queues == {"unacked", "nacked"}
Report == [queue : Queues, part : Parts, seq : Seqs, cg : Groups]
Ids    == 1..MaxId
Worker == [broker : Brokers, queue : Queues]

ASSUME ReportsAssumption ==
    /\ Reports \subseteq Report
    /\ Resent \subseteq Reports
    /\ Removable \subseteq Groups
    /\ NoReport \notin Report
ASSUME BoundsAssumption == {MaxId, MaxDeliver, MaxFaults, MaxCopies} \subseteq Nat

VARIABLES
    stream,       \* reports held by the two work-queue streams
    deliv,        \* delivery count of every report
    faults,       \* environment faults so far
    pc,           \* where each worker is in its loop
    cur,          \* the report each worker handles
    dlsOn,        \* stations.dls_configuration_poison
    groups,       \* groups with an application consumer in the consumers table
    destroying,   \* groups between DeleteConsumer and RemovePoisonedCg
    rows,         \* dls_messages: id -> row
    nextId,       \* the SERIAL of dls_messages.id
    dlsStation,   \* reports whose message was published to the DLS station
    copies,       \* resent copies not yet answered, per row id and group
    emitted,      \* history: reports ever raised
    stored,       \* history: reports some transaction of StorePoisonMsg committed
    skipped,      \* history: reports the handler let go before StorePoisonMsg
    unlisted,     \* history: reports StorePoisonMsg ignored (group unregistered)
    owed          \* history: reports stored and not settled since

reportVars  == <<stream, deliv, emitted>>
workerVars  == <<pc, cur>>
configVars  == <<dlsOn, groups, destroying>>
tableVars   == <<rows, nextId>>
historyVars == <<stored, skipped, unlisted>>
vars == <<reportVars, faults, workerVars, configVars, tableVars, dlsStation,
          copies, historyVars, owed>>

Row == [part : Parts, seq : Seqs, cgs : SUBSET Groups, by : Worker]

TypeOK ==
    /\ emitted \subseteq Reports
    /\ stream \subseteq emitted
    /\ deliv \in [Reports -> 0..MaxDeliver]
    /\ faults \in 0..MaxFaults
    /\ pc \in [Worker -> {"idle", "handle", "store", "insert", "publish", "ack"}]
    /\ cur \in [Worker -> Reports \cup {NoReport}]
    /\ \A w \in Worker : IF pc[w] = "idle" THEN cur[w] = NoReport ELSE cur[w] \in emitted
    /\ dlsOn \in BOOLEAN
    /\ groups \subseteq Groups
    /\ destroying \subseteq Removable
    /\ DOMAIN rows \subseteq Ids
    /\ \A i \in DOMAIN rows : rows[i] \in Row
    /\ nextId \in 1..(MaxId + 1)
    /\ dlsStation \subseteq emitted
    /\ copies \in [Ids -> [Groups -> 0..MaxCopies]]
    /\ stored \subseteq emitted
    /\ skipped \subseteq emitted
    /\ unlisted \subseteq emitted
    /\ owed \subseteq stored

Init ==
    /\ stream = {} /\ emitted = {}
    /\ deliv = [r \in Reports |-> 0]
    /\ faults = 0
    /\ pc = [w \in Worker |-> "idle"]
    /\ cur = [w \in Worker |-> NoReport]
    /\ dlsOn = TRUE
    /\ groups = Groups
    /\ destroying = {}
    /\ rows = [i \in {} |-> NoReport]
    /\ nextId = 1
    /\ dlsStation = {}
    /\ copies = [i \in Ids |-> [g \in Groups |-> 0]]
    /\ stored = {} /\ skipped = {} /\ unlisted = {} /\ owed = {}

-----------------------------------------------------------------------------
(* The report streams and their durable consumers. *)

\* notifyDeliveryExceeded publishes one advisory per message and consumer, the
\* SDK one nack; the streams keep them until a worker acks.
RaiseReport(r) ==
    /\ r \notin emitted
    /\ r.cg \in groups
    /\ emitted' = emitted \cup {r}
    /\ stream' = stream \cup {r}
    /\ UNCHANGED <<deliv, faults, workerVars, configVars, tableVars, dlsStation,
                   copies, historyVars, owed>>

Held(r) == \E w \in Worker : cur[w] = r

Deliver(w, r) ==
    /\ pc[w] = "idle"
    /\ r \in stream
    /\ r.queue = w.queue
    /\ deliv[r] < MaxDeliver
    /\ deliv' = [deliv EXCEPT ![r] = @ + 1]
    /\ pc' = [pc EXCEPT ![w] = "handle"]
    /\ cur' = [cur EXCEPT ![w] = r]
    /\ UNCHANGED <<stream, emitted, configVars, tableVars, dlsStation, copies,
                   historyVars, owed>>

\* The worker takes the next report of its fetched batch.
ConsumeReport(w, r) ==
    /\ ~Held(r)
    /\ Deliver(w, r)
    /\ UNCHANGED faults

\* AckWait expired while another broker was still busy with the batch that
\* holds r: the consumer hands r out a second time.
AckWaitExpires(w, r) ==
    /\ Held(r)
    /\ faults < MaxFaults
    /\ Deliver(w, r)
    /\ faults' = faults + 1

\* The reply reached the subscription after the fetch timed out: the goroutine
\* that carries it blocks on a channel nobody reads any more.
LateReply(r) ==
    /\ r \in stream
    /\ deliv[r] < MaxDeliver
    /\ faults < MaxFaults
    /\ deliv' = [deliv EXCEPT ![r] = @ + 1]
    /\ faults' = faults + 1
    /\ UNCHANGED <<stream, emitted, workerVars, configVars, tableVars, dlsStation,
                   copies, historyVars, owed>>

-----------------------------------------------------------------------------
(* handleNewUnackedMsg and handleNackedDlsMsg, statement by statement. *)

Goto(w, from, to) == pc[w] = from /\ pc' = [pc EXCEPT ![w] = to]

\* The message already is a resent one (unacked only), or it left the station's
\* stream before the handler looked it up (nacked only).
Unwanted(r) ==
    \/ r.queue = "unacked" /\ r \in Resent
    \/ r.queue = "nacked"

\* Mutant of SkipReport: the handler returns an error for a report it lets go.
MutSkipWithError(w) ==
    /\ Goto(w, "handle", "idle")
    /\ ~dlsOn \/ Unwanted(cur[w])
    /\ cur' = [cur EXCEPT ![w] = NoReport]
    /\ UNCHANGED <<reportVars, faults, configVars, tableVars, dlsStation,
                   copies, historyVars, owed>>

\* The handler returns nil without storing: dead-lettering is off or the report
\* is unwanted.
SkipReport(w) ==
    /\ Goto(w, "handle", "ack")
    /\ ~dlsOn \/ Unwanted(cur[w])
    /\ skipped' = skipped \cup {cur[w]}
    /\ UNCHANGED <<reportVars, faults, cur, configVars, tableVars, dlsStation,
                   copies, stored, unlisted, owed>>

\* The station has dead-lettering on: on to StorePoisonMsg.
AcceptReport(w) ==
    /\ Goto(w, "handle", "store")
    /\ dlsOn
    /\ cur[w].queue = "unacked" => cur[w] \notin Resent
    /\ UNCHANGED <<reportVars, faults, cur, configVars, tableVars, dlsStation,
                   copies, historyVars, owed>>

RowsOf(r) == {i \in DOMAIN rows : rows[i].part = r.part /\ rows[i].seq = r.seq}

\* StorePoisonMsg returns 0 and no error for a group that is not registered.
StoreUnregistered(w) ==
    /\ Goto(w, "store", "publish")
    /\ cur[w].cg \notin groups
    /\ unlisted' = unlisted \cup {cur[w]}
    /\ UNCHANGED <<reportVars, faults, cur, configVars, tableVars, dlsStation,
                   copies, stored, skipped, owed>>

\* Mutant of StoreSelectsNone: insert without looking for a row first.
MutNoSelect(w) ==
    /\ Goto(w, "store", "insert")
    /\ cur[w].cg \in groups
    /\ UNCHANGED <<reportVars, faults, cur, configVars, tableVars, dlsStation,
                   copies, historyVars, owed>>

\* SELECT ... FOR UPDATE found no row, so it locked none either.
StoreSelectsNone(w) ==
    /\ Goto(w, "store", "insert")
    /\ cur[w].cg \in groups
    /\ RowsOf(cur[w]) = {}
    /\ UNCHANGED <<reportVars, faults, cur, configVars, tableVars, dlsStation,
                   copies, historyVars, owed>>

NewRow(w) == [part |-> cur[w].part, seq |-> cur[w].seq, cgs |-> {cur[w].cg}, by |-> w]

StoreInsert(w) ==
    /\ nextId <= MaxId
    /\ Goto(w, "insert", "publish")
    /\ rows' = [i \in DOMAIN rows \cup {nextId} |->
                  IF i = nextId THEN NewRow(w) ELSE rows[i]]
    /\ nextId' = nextId + 1
    /\ stored' = stored \cup {cur[w]}
    /\ owed' = owed \cup {cur[w]}
    /\ UNCHANGED <<reportVars, faults, cur, configVars, dlsStation, copies,
                   skipped, unlisted>>

\* Mutant of AppendCg: the UPDATE selects by partition instead of sequence.
MutAppendByPartition(r) ==
    [i \in DOMAIN rows |->
        IF rows[i].part = r.part THEN [rows[i] EXCEPT !.cgs = @ \cup {r.cg}]
                                 ELSE rows[i]]

\* The UPDATE selects by station and message_seq, not by partition_number, and
\* appends to the rows that do not list the group yet.
AppendCg(r) ==
    [i \in DOMAIN rows |->
        IF rows[i].seq = r.seq THEN [rows[i] EXCEPT !.cgs = @ \cup {r.cg}]
                               ELSE rows[i]]

StoreUpdate(w) ==
    /\ Goto(w, "store", "publish")
    /\ cur[w].cg \in groups
    /\ RowsOf(cur[w]) # {}
    /\ rows' = AppendCg(cur[w])
    /\ stored' = stored \cup {cur[w]}
    /\ owed' = owed \cup {cur[w]}
    /\ UNCHANGED <<reportVars, faults, cur, configVars, nextId, dlsStation, copies,
                   skipped, unlisted>>

\* StorePoisonMsg never reports updated = TRUE, so every delivery of every
\* report publishes the message to the DLS station.
SendToDlsStation(w) ==
    /\ Goto(w, "publish", "ack")
    /\ dlsStation' = dlsStation \cup {cur[w]}
    /\ UNCHANGED <<reportVars, faults, cur, configVars, tableVars, copies,
                   historyVars, owed>>

\* Mutant of AckReport: the loop goes on without acking.
MutNoAck(w) ==
    /\ Goto(w, "ack", "idle")
    /\ cur' = [cur EXCEPT ![w] = NoReport]
    /\ UNCHANGED <<reportVars, faults, configVars, tableVars, dlsStation, copies,
                   historyVars, owed>>

\* The handler returned nil: the worker acks and takes its next report.
AckReport(w) ==
    /\ Goto(w, "ack", "idle")
    /\ cur' = [cur EXCEPT ![w] = NoReport]
    /\ stream' = stream \ {cur[w]}
    /\ UNCHANGED <<deliv, emitted, faults, configVars, tableVars, dlsStation, copies,
                   historyVars, owed>>

\* Mutant of HandlerFails: the error is logged and the report acked all the same.
MutAckOnError(w) ==
    /\ pc[w] \in {"handle", "store", "insert", "publish"}
    /\ faults < MaxFaults
    /\ faults' = faults + 1
    /\ pc' = [pc EXCEPT ![w] = "ack"]
    /\ UNCHANGED <<reportVars, cur, configVars, tableVars, dlsStation, copies,
                   historyVars, owed>>

\* A database or account error: the handler returns it, the transaction (if
\* still open) rolls back, and the worker leaves the report unacked.
HandlerFails(w) ==
    /\ pc[w] \in {"handle", "store", "insert", "publish"}
    /\ faults < MaxFaults
    /\ faults' = faults + 1
    /\ pc' = [pc EXCEPT ![w] = "idle"]
    /\ cur' = [cur EXCEPT ![w] = NoReport]
    /\ UNCHANGED <<reportVars, configVars, tableVars, dlsStation, copies,
                   historyVars, owed>>

\* A broker dies: both of its workers lose their batches, uncommitted
\* transactions roll back.
Crash(b) ==
    /\ \E w \in Worker : w.broker = b /\ pc[w] # "idle"
    /\ faults < MaxFaults
    /\ faults' = faults + 1
    /\ pc' = [w \in Worker |-> IF w.broker = b THEN "idle" ELSE pc[w]]
    /\ cur' = [w \in Worker |-> IF w.broker = b THEN NoReport ELSE cur[w]]
    /\ UNCHANGED <<reportVars, configVars, tableVars, dlsStation, copies,
                   historyVars, owed>>

-----------------------------------------------------------------------------
(* Resending a row and the acknowledgements of the resent copies. *)

\* Mutant of ResendUnackedMsg: the old and the new subject reach the same consumer.
MutResendTwice(i) ==
    /\ i \in DOMAIN rows
    /\ \A g \in rows[i].cgs : copies[i][g] < MaxCopies
    /\ copies' = [copies EXCEPT ![i] =
                    [g \in Groups |-> IF g \in rows[i].cgs THEN @[g] + 2 ELSE @[g]]]
    /\ UNCHANGED <<reportVars, faults, workerVars, configVars, tableVars, dlsStation,
                   historyVars, owed>>

\* Every group the row lists gets one copy, on the subject convention its SDK
\* subscribes to.
ResendUnackedMsg(i) ==
    /\ i \in DOMAIN rows
    /\ \A g \in rows[i].cgs : copies[i][g] < MaxCopies
    /\ copies' = [copies EXCEPT ![i] =
                    [g \in Groups |-> IF g \in rows[i].cgs THEN @[g] + 1 ELSE @[g]]]
    /\ UNCHANGED <<reportVars, faults, workerVars, configVars, tableVars, dlsStation,
                   historyVars, owed>>

\* Resent copies travel over core NATS: one may never be answered.
LoseCopy(i, g) ==
    /\ copies[i][g] > 0
    /\ copies' = [copies EXCEPT ![i][g] = @ - 1]
    /\ UNCHANGED <<reportVars, faults, workerVars, configVars, tableVars, dlsStation,
                   historyVars, owed>>

Without(S) == [i \in DOMAIN rows \ S |-> rows[i]]

\* array_length(poisoned_cgs, 1) <= 1, which is NULL for the empty array
LengthOne(S) == S # {} /\ \A g, h \in S : g = h

\* Mutant of RemoveCgFromDlsMsg: the first confirmation deletes the row.
MutDeleteOnAnyAck(i, g) == Without({i})

\* One statement: the DELETE sees the array as it was before the UPDATE.
RemoveCgFromDlsMsg(i, g) ==
    IF i \in DOMAIN rows /\ LengthOne(rows[i].cgs)
    THEN Without({i})
    ELSE [j \in DOMAIN rows |->
            IF j = i THEN [rows[j] EXCEPT !.cgs = @ \ {g}] ELSE rows[j]]

\* ListenForPoisonMsgAcks: group g confirms its copy of row i.
PmAck(i, g) ==
    /\ copies[i][g] > 0
    /\ copies' = [copies EXCEPT ![i][g] = @ - 1]
    /\ rows' = RemoveCgFromDlsMsg(i, g)
    /\ owed' = {r \in owed : ~(i \in DOMAIN rows /\ i \in RowsOf(r) /\ r.cg = g)}
    /\ UNCHANGED <<reportVars, faults, workerVars, configVars, nextId, dlsStation,
                   historyVars>>

-----------------------------------------------------------------------------
(* Deleting rows on request and by age, and changing the configuration. *)

Lists(i, r) == i \in RowsOf(r) /\ r.cg \in rows[i].cgs

DeleteRows(S) ==
    /\ S # {}
    /\ rows' = Without(S)
    /\ owed' = {r \in owed : ~\E i \in S : Lists(i, r)}
    /\ UNCHANGED <<reportVars, faults, workerVars, configVars, nextId, dlsStation,
                   copies, historyVars>>

\* The rows a user picked.
DropDlsMessages == \E S \in SUBSET DOMAIN rows : DeleteRows(S)

\* The rows not updated for the retention; the clock is left out, so these may
\* be any.
RemoveOldDlsMsgs == \E S \in SUBSET DOMAIN rows : DeleteRows(S)

PurgeDlsMsgsFromPartition ==
    \E p \in Parts : DeleteRows({i \in DOMAIN rows : rows[i].part = p})

PurgeDlsMsgsFromStation == DeleteRows(DOMAIN rows)

UpdateDlsConfig ==
    /\ dlsOn' = ~dlsOn
    /\ UNCHANGED <<reportVars, faults, workerVars, groups, destroying, tableVars,
                   dlsStation, copies, historyVars, owed>>

CreateConsumer(g) ==
    /\ g \notin groups
    /\ groups' = groups \cup {g}
    /\ UNCHANGED <<reportVars, faults, workerVars, dlsOn, destroying, tableVars,
                   dlsStation, copies, historyVars, owed>>

\* The last consumer of g is deleted from the consumers table ...
DeleteConsumer(g) ==
    /\ g \in groups \cap Removable
    /\ groups' = groups \ {g}
    /\ destroying' = destroying \cup {g}
    /\ UNCHANGED <<reportVars, faults, workerVars, dlsOn, tableVars, dlsStation,
                   copies, historyVars, owed>>

\* ... and destroyCGFromNats then strikes g off every row, deleting the rows
\* left without a group.
RemovePoisonedCg(g) ==
    /\ g \in destroying
    /\ destroying' = destroying \ {g}
    /\ rows' = [i \in {j \in DOMAIN rows : rows[j].cgs \ {g} # {}} |->
                  [rows[i] EXCEPT !.cgs = @ \ {g}]]
    /\ owed' = {r \in owed : r.cg # g}
    /\ UNCHANGED <<reportVars, faults, workerVars, dlsOn, groups, nextId, dlsStation,
                   copies, historyVars>>

\* destroyCGFromNats gives up, or its broker dies, before RemovePoisonedCg.
AbandonDestroy(g) ==
    /\ g \in destroying
    /\ faults < MaxFaults
    /\ faults' = faults + 1
    /\ destroying' = destroying \ {g}
    /\ UNCHANGED <<reportVars, workerVars, dlsOn, groups, tableVars, dlsStation,
                   copies, historyVars, owed>>

-----------------------------------------------------------------------------
WorkerStep(w) ==
    \/ \E r \in Reports : ConsumeReport(w, r)
    \/ SkipReport(w)
    \/ AcceptReport(w)
    \/ StoreUnregistered(w)
    \/ StoreSelectsNone(w)
    \/ StoreInsert(w)
    \/ StoreUpdate(w)
    \/ SendToDlsStation(w)
    \/ AckReport(w)

Environment ==
    \/ \E r \in Reports : RaiseReport(r) \/ LateReply(r)
    \/ \E w \in Worker : HandlerFails(w) \/ \E r \in Reports : AckWaitExpires(w, r)
    \/ \E b \in Brokers : Crash(b)
    \/ \E i \in Ids : ResendUnackedMsg(i)
    \/ \E i \in Ids, g \in Groups : PmAck(i, g) \/ LoseCopy(i, g)
    \/ DropDlsMessages \/ RemoveOldDlsMsgs
    \/ PurgeDlsMsgsFromPartition \/ PurgeDlsMsgsFromStation
    \/ UpdateDlsConfig
    \/ \E g \in Groups :
          CreateConsumer(g) \/ DeleteConsumer(g) \/ RemovePoisonedCg(g) \/ AbandonDestroy(g)

Next == (\E w \in Worker : WorkerStep(w)) \/ Environment

Spec == Init /\ [][Next]_vars

\* Every worker is an endless loop on a goroutine of its own.
FairSpec == Spec /\ \A w \in Worker : WF_vars(WorkerStep(w))

-----------------------------------------------------------------------------
(* Properties. *)

\* A report leaves its stream only after its handler came to an end that the
\* code means: let go on purpose, or published to the DLS station and either
\* committed to dls_messages or ignored for an unregistered group.  Acks are
\* sent by ConsumeUnackedMsgs and ConsumeNackedDlsMessages after the handler
\* returned nil, whatever crashed or was redelivered before.
AckedIsHandled ==
    \A r \in emitted \ stream :
        \/ r \in skipped
        \/ r \in dlsStation /\ r \in stored \cup unlisted

\* A group that failed a message and has not confirmed a resent copy, been
\* destroyed, or had the row dropped is listed by a row of the message, so that
\* ResendUnackedMsg can still reach it.
NoDeadLetterLost ==
    \A r \in owed : \E i \in DOMAIN rows : Lists(i, r)

\* No worker stores a message a second time while its first row exists, whatever
\* is redelivered: rows of one message come from different workers, whose SELECT
\* ... FOR UPDATE in StorePoisonMsg overlapped and locked nothing.
RowsPerWorker ==
    \A i, j \in DOMAIN rows :
        /\ rows[i].part = rows[j].part
        /\ rows[i].seq = rows[j].seq
        /\ rows[i].by = rows[j].by
        => i = j

\* poisoned_cgs lists only groups that reported a message with the row's
\* sequence number (in some partition: the UPDATE of StorePoisonMsg does not
\* look at the partition).
CgsWereReported ==
    \A i \in DOMAIN rows : \A g \in rows[i].cgs :
        \E r \in stored : r.seq = rows[i].seq /\ r.cg = g

\* With fewer faults than MaxDeliver, the durable consumer never gives up on a
\* report that no worker acked and none holds.
NeverAbandoned ==
    MaxFaults < MaxDeliver =>
        \A r \in stream : deliv[r] = MaxDeliver => Held(r)

\* ... and every report is acked in the end.
EveryReportAcked == \A r \in Reports : r \in stream ~> r \notin stream

-----------------------------------------------------------------------------
(* The strengthenings that make the invariants above inductive. *)

\* Between SELECT and INSERT a worker has no row of its message of its own.
InsertWindow ==
    \A w \in Worker : pc[w] = "insert" => \A i \in RowsOf(cur[w]) : rows[i].by # w

\* How far a worker is in its handler says what it has done for its report.
HandlerProgress ==
    \A w \in Worker :
        /\ pc[w] = "publish" => cur[w] \in stored \cup unlisted
        /\ pc[w] = "ack" => \/ cur[w] \in skipped
                            \/ cur[w] \in dlsStation /\ cur[w] \in stored \cup unlisted

\* Every delivery but the current one is explained by a fault.
DeliveriesExplained ==
    \A r \in Reports :
        (r \in stream \/ r \notin emitted) =>
            deliv[r] <= faults \/ (Held(r) /\ deliv[r] <= faults + 1)

\* A copy still unanswered belongs to a group its row lists, if the row exists.
CopiesListed ==
    \A i \in DOMAIN rows : \A g \in Groups : copies[i][g] > 0 => g \in rows[i].cgs

\* Ids above the serial have neither a row nor copies.
IdsAreSerial ==
    /\ \A i \in DOMAIN rows : i < nextId
    /\ \A i \in Ids : i >= nextId => \A g \in Groups : copies[i][g] = 0
=============================================================================
