-------------------------- MODULE DlsMessagesProofs --------------------------
(* What holds of DlsMessages for every number of brokers, groups, partitions *)
(* and reports, and for every bound.                                         *)
EXTENDS DlsMessages, TLAPS

\* ARRAY_APPEND and ARRAY_REMOVE on poisoned_cgs keep a row a row and leave its
\* other columns alone.
LEMMA RowAppend ==
    ASSUME NEW x \in Row, NEW g \in Groups
    PROVE  LET y == [x EXCEPT !.cgs = @ \cup {g}]
           IN  /\ y \in Row /\ y.part = x.part /\ y.seq = x.seq /\ y.by = x.by
               /\ y.cgs = x.cgs \cup {g}
BY DEF Row

LEMMA RowRemove ==
    ASSUME NEW x \in Row, NEW g \in Groups
    PROVE  LET y == [x EXCEPT !.cgs = @ \ {g}]
           IN  /\ y \in Row /\ y.part = x.part /\ y.seq = x.seq /\ y.by = x.by
               /\ y.cgs = x.cgs \ {g}
BY DEF Row

\* Every step keeps the state well typed: in particular a row never gets a group
\* the station does not have, and histories only grow with raised reports.
THEOREM TypeCorrect == Spec => []TypeOK
<1> USE DEF reportVars, workerVars, configVars, tableVars, historyVars
<1>1. Init => TypeOK
  BY ReportsAssumption, BoundsAssumption DEF Init, TypeOK, Ids
<1>2. TypeOK /\ [Next]_vars => TypeOK'
  <2> SUFFICES ASSUME TypeOK, [Next]_vars PROVE TypeOK'
    OBVIOUS
  <2> USE ReportsAssumption, BoundsAssumption DEF TypeOK
  <2>1. CASE UNCHANGED vars
    BY <2>1 DEF vars
  <2>2. ASSUME NEW r \in Reports, RaiseReport(r) \/ LateReply(r) PROVE TypeOK'
    BY <2>2 DEF RaiseReport, LateReply
  <2>3. ASSUME NEW w \in Worker, NEW r \in Reports,
               ConsumeReport(w, r) \/ AckWaitExpires(w, r) PROVE TypeOK'
    BY <2>3 DEF ConsumeReport, AckWaitExpires, Deliver
  <2>4. ASSUME NEW w \in Worker,
               SkipReport(w) \/ AcceptReport(w) \/ StoreUnregistered(w)
                 \/ StoreSelectsNone(w) \/ SendToDlsStation(w) PROVE TypeOK'
    BY <2>4 DEF SkipReport, AcceptReport, StoreUnregistered, StoreSelectsNone,
                SendToDlsStation, Goto
  <2>5. ASSUME NEW w \in Worker, StoreInsert(w) PROVE TypeOK'
    <3>1. cur[w] \in emitted /\ cur[w] \in Report /\ nextId \in Ids
      BY <2>5 DEF StoreInsert, Goto, Ids
    <3>2. NewRow(w) \in Row
      BY <3>1 DEF NewRow, Row, Report
    <3>3. DOMAIN rows' \subseteq Ids /\ \A i \in DOMAIN rows' : rows'[i] \in Row
      BY <2>5, <3>1, <3>2 DEF StoreInsert
    <3>4. nextId' \in 1..(MaxId + 1)
      BY <2>5 DEF StoreInsert
    <3> QED
      BY <2>5, <3>1, <3>3, <3>4 DEF StoreInsert, Goto
  <2>6. ASSUME NEW w \in Worker, StoreUpdate(w) PROVE TypeOK'
    <3>1. cur[w] \in emitted /\ cur[w] \in Report
      BY <2>6 DEF StoreUpdate, Goto
    <3>2. DOMAIN rows' \subseteq Ids /\ \A i \in DOMAIN rows' : rows'[i] \in Row
      <4> SUFFICES ASSUME NEW i \in DOMAIN rows PROVE rows'[i] \in Row
        BY <2>6 DEF StoreUpdate, AppendCg
      <4>1. cur[w].cg \in Groups
        BY <3>1 DEF Report
      <4> QED
        BY <2>6, <4>1, RowAppend DEF StoreUpdate, AppendCg
    <3> QED
      BY <2>6, <3>1, <3>2 DEF StoreUpdate, Goto
  <2>7. ASSUME NEW w \in Worker, AckReport(w) \/ HandlerFails(w) PROVE TypeOK'
    BY <2>7 DEF AckReport, HandlerFails, Goto
  <2>8. ASSUME NEW b \in Brokers, Crash(b) PROVE TypeOK'
    BY <2>8 DEF Crash
  <2>9. ASSUME NEW i \in Ids, ResendUnackedMsg(i) PROVE TypeOK'
    <3>1. copies' \in [Ids -> [Groups -> 0..MaxCopies]]
      BY <2>9 DEF ResendUnackedMsg
    <3> QED
      BY <2>9, <3>1 DEF ResendUnackedMsg
  <2>10. ASSUME NEW i \in Ids, NEW g \in Groups, PmAck(i, g) \/ LoseCopy(i, g)
         PROVE TypeOK'
    <3>1. copies' \in [Ids -> [Groups -> 0..MaxCopies]]
      BY <2>10 DEF PmAck, LoseCopy
    <3>2. DOMAIN rows' \subseteq Ids /\ \A j \in DOMAIN rows' : rows'[j] \in Row
      <4> SUFFICES ASSUME NEW j \in DOMAIN rows' PROVE j \in DOMAIN rows /\ rows'[j] \in Row
        BY <2>10
      <4>1. j \in DOMAIN rows
        BY <2>10 DEF PmAck, LoseCopy, RemoveCgFromDlsMsg, Without
      <4>2. [rows[j] EXCEPT !.cgs = @ \ {g}] \in Row
        BY <4>1, RowRemove
      <4>3. \/ rows'[j] = rows[j]
            \/ rows'[j] = [rows[j] EXCEPT !.cgs = @ \ {g}]
        BY <2>10, <4>1 DEF PmAck, LoseCopy, RemoveCgFromDlsMsg, Without
      <4> QED
        BY <4>1, <4>2, <4>3
    <3> QED
      BY <2>10, <3>1, <3>2 DEF PmAck, LoseCopy
  <2>11. ASSUME NEW S \in SUBSET DOMAIN rows, DeleteRows(S) PROVE TypeOK'
    BY <2>11 DEF DeleteRows, Without
  <2>12. CASE UpdateDlsConfig
    BY <2>12 DEF UpdateDlsConfig
  <2>13. ASSUME NEW g \in Groups, CreateConsumer(g) \/ DeleteConsumer(g)
                                    \/ AbandonDestroy(g) PROVE TypeOK'
    BY <2>13 DEF CreateConsumer, DeleteConsumer, AbandonDestroy
  <2>14. ASSUME NEW g \in Groups, RemovePoisonedCg(g) PROVE TypeOK'
    <3>1. DOMAIN rows' \subseteq Ids /\ \A j \in DOMAIN rows' : rows'[j] \in Row
      BY <2>14, SMTT(30) DEF RemovePoisonedCg, Row
    <3> QED
      BY <2>14, <3>1 DEF RemovePoisonedCg
  <2> QED
    BY <2>1, <2>2, <2>3, <2>4, <2>5, <2>6, <2>7, <2>8, <2>9, <2>10, <2>11, <2>12,
       <2>13, <2>14
       DEF Next, WorkerStep, Environment, DropDlsMessages, RemoveOldDlsMsgs,
           PurgeDlsMsgsFromPartition, PurgeDlsMsgsFromStation
<1>3. QED
  BY <1>1, <1>2, PTL DEF Spec

-----------------------------------------------------------------------------
\* StorePoisonMsg, run by any number of brokers with redeliveries and crashes:
\* one worker never has two rows of one message (so a single broker keeps at most
\* one row per message and queue, and n brokers at most 2n).
THEOREM RowsPerWorkerHolds == Spec => []RowsPerWorker
<1> USE DEF reportVars, workerVars, configVars, tableVars, historyVars
<1> DEFINE IInv == RowsPerWorker /\ InsertWindow
<1>1. Init => IInv
  BY DEF Init, RowsPerWorker, InsertWindow, RowsOf
<1>2. TypeOK /\ TypeOK' /\ IInv /\ [Next]_vars => IInv'
  <2> SUFFICES ASSUME TypeOK, TypeOK', IInv, [Next]_vars PROVE IInv'
    OBVIOUS
  <2> USE DEF RowsPerWorker, InsertWindow, RowsOf
  <2>1. ASSUME rows' = rows,
               \A w \in Worker : pc'[w] = "insert" => pc[w] = "insert" /\ cur'[w] = cur[w]
        PROVE  IInv'
    BY <2>1
  <2>2. ASSUME DOMAIN rows' \subseteq DOMAIN rows,
               \A i \in DOMAIN rows' : /\ rows'[i].part = rows[i].part
                                       /\ rows'[i].seq = rows[i].seq
                                       /\ rows'[i].by = rows[i].by,
               \A w \in Worker : pc'[w] = "insert" => pc[w] = "insert" /\ cur'[w] = cur[w]
        PROVE  IInv'
    BY <2>2
  <2>3. CASE UNCHANGED vars
    BY <2>1, <2>3 DEF vars
  <2>4. ASSUME NEW r \in Reports, RaiseReport(r) \/ LateReply(r) PROVE IInv'
    BY <2>1, <2>4 DEF RaiseReport, LateReply
  <2>5. ASSUME NEW w \in Worker, NEW r \in Reports,
               ConsumeReport(w, r) \/ AckWaitExpires(w, r) PROVE IInv'
    BY <2>1, <2>5 DEF ConsumeReport, AckWaitExpires, Deliver, TypeOK
  <2>6. ASSUME NEW w \in Worker,
               SkipReport(w) \/ AcceptReport(w) \/ StoreUnregistered(w)
                 \/ SendToDlsStation(w) \/ AckReport(w) \/ HandlerFails(w) PROVE IInv'
    BY <2>1, <2>6 DEF SkipReport, AcceptReport, StoreUnregistered, SendToDlsStation,
                      AckReport, HandlerFails, Goto, TypeOK
  <2>7. ASSUME NEW w \in Worker, StoreSelectsNone(w) PROVE IInv'
    BY <2>7 DEF StoreSelectsNone, Goto, TypeOK
  <2>8. ASSUME NEW w \in Worker, StoreInsert(w) PROVE IInv'
    <3>1. \A v \in Worker : pc'[v] = "insert" => v # w /\ pc[v] = "insert" /\ cur'[v] = cur[v]
      BY <2>8 DEF StoreInsert, Goto, TypeOK
    <3>2. rows' = [i \in DOMAIN rows \cup {nextId} |->
                     IF i = nextId THEN NewRow(w) ELSE rows[i]]
      BY <2>8 DEF StoreInsert
    <3>3. /\ NewRow(w).part = cur[w].part /\ NewRow(w).seq = cur[w].seq
          /\ NewRow(w).by = w
      BY DEF NewRow
    <3>4. \A i \in DOMAIN rows :
             ~(rows[i].part = cur[w].part /\ rows[i].seq = cur[w].seq /\ rows[i].by = w)
      BY <2>8 DEF StoreInsert, Goto
    <3>5. RowsPerWorker'
      BY <3>2, <3>3, <3>4
    <3>6. InsertWindow'
      BY <3>1, <3>2, <3>3
    <3> QED
      BY <3>5, <3>6
  <2>9. ASSUME NEW w \in Worker, StoreUpdate(w) PROVE IInv'
    <3>1. cur[w] \in Report
      BY <2>9, ReportsAssumption DEF StoreUpdate, Goto, TypeOK
    <3>2. cur[w].cg \in Groups
      BY <3>1 DEF Report
    <3>3. \A i \in DOMAIN rows : /\ rows'[i].part = rows[i].part
                                 /\ rows'[i].seq = rows[i].seq
                                 /\ rows'[i].by = rows[i].by
      BY <2>9, <3>2, RowAppend DEF StoreUpdate, AppendCg, TypeOK
    <3> QED
      BY <2>2, <2>9, <3>3 DEF StoreUpdate, AppendCg, Goto, TypeOK
  <2>10. ASSUME NEW b \in Brokers, Crash(b) PROVE IInv'
    BY <2>1, <2>10 DEF Crash, TypeOK
  <2>11. ASSUME NEW i \in Ids, ResendUnackedMsg(i) PROVE IInv'
    BY <2>1, <2>11 DEF ResendUnackedMsg
  <2>12. ASSUME NEW i \in Ids, NEW g \in Groups, PmAck(i, g) \/ LoseCopy(i, g)
         PROVE IInv'
    <3>1. \A j \in DOMAIN rows' :
             /\ j \in DOMAIN rows
             /\ rows'[j] = rows[j] \/ rows'[j] = [rows[j] EXCEPT !.cgs = @ \ {g}]
      BY <2>12 DEF PmAck, LoseCopy, RemoveCgFromDlsMsg, Without
    <3>2. \A j \in DOMAIN rows' : /\ rows'[j].part = rows[j].part
                                  /\ rows'[j].seq = rows[j].seq
                                  /\ rows'[j].by = rows[j].by
      <4> SUFFICES ASSUME NEW j \in DOMAIN rows'
                   PROVE /\ rows'[j].part = rows[j].part /\ rows'[j].seq = rows[j].seq
                         /\ rows'[j].by = rows[j].by
        OBVIOUS
      <4>1. rows[j] \in Row
        BY <3>1 DEF TypeOK
      <4> QED
        BY <3>1, <4>1 DEF Row
    <3> QED
      BY <2>2, <2>12, <3>1, <3>2 DEF PmAck, LoseCopy
  <2>13. ASSUME NEW S \in SUBSET DOMAIN rows, DeleteRows(S) PROVE IInv'
    BY <2>2, <2>13 DEF DeleteRows, Without
  <2>14. CASE UpdateDlsConfig
    BY <2>1, <2>14 DEF UpdateDlsConfig
  <2>15. ASSUME NEW g \in Groups, CreateConsumer(g) \/ DeleteConsumer(g)
                                    \/ AbandonDestroy(g) PROVE IInv'
    BY <2>1, <2>15 DEF CreateConsumer, DeleteConsumer, AbandonDestroy
  <2>16. ASSUME NEW g \in Groups, RemovePoisonedCg(g) PROVE IInv'
    <3>1. \A j \in DOMAIN rows' :
             j \in DOMAIN rows /\ rows'[j] = [rows[j] EXCEPT !.cgs = @ \ {g}]
      BY <2>16 DEF RemovePoisonedCg
    <3>2. \A j \in DOMAIN rows' : /\ rows'[j].part = rows[j].part
                                  /\ rows'[j].seq = rows[j].seq
                                  /\ rows'[j].by = rows[j].by
      <4> SUFFICES ASSUME NEW j \in DOMAIN rows'
                   PROVE /\ rows'[j].part = rows[j].part /\ rows'[j].seq = rows[j].seq
                         /\ rows'[j].by = rows[j].by
        OBVIOUS
      <4>1. rows[j] \in Row
        BY <3>1 DEF TypeOK
      <4> QED
        BY <3>1, <4>1 DEF Row
    <3> QED
      BY <2>2, <2>16, <3>1, <3>2 DEF RemovePoisonedCg
  <2> QED
    BY <2>3, <2>4, <2>5, <2>6, <2>7, <2>8, <2>9, <2>10, <2>11, <2>12, <2>13, <2>14,
       <2>15, <2>16
       DEF Next, WorkerStep, Environment, DropDlsMessages, RemoveOldDlsMsgs,
           PurgeDlsMsgsFromPartition, PurgeDlsMsgsFromStation
<1>3. QED
  BY <1>1, <1>2, TypeCorrect, PTL DEF Spec

-----------------------------------------------------------------------------
\* Whatever fails or is redelivered, a report is acked only after its handler ran
\* to its end at least once: no dead letter disappears between the report
\* streams and the database.
THEOREM AckedIsHandledHolds == Spec => []AckedIsHandled
<1> USE DEF reportVars, workerVars, configVars, tableVars, historyVars
<1> DEFINE IInv == AckedIsHandled /\ HandlerProgress
<1>1. Init => IInv
  BY DEF Init, AckedIsHandled, HandlerProgress
<1>2. TypeOK /\ IInv /\ [Next]_vars => IInv'
  <2> SUFFICES ASSUME TypeOK, IInv, [Next]_vars PROVE IInv'
    OBVIOUS
  <2> USE DEF AckedIsHandled, HandlerProgress, TypeOK
  <2>1. ASSUME UNCHANGED <<stream, emitted, workerVars, dlsStation, historyVars>>
        PROVE  IInv'
    BY <2>1
  <2>2. CASE UNCHANGED vars
    BY <2>1, <2>2 DEF vars
  <2>3. ASSUME NEW r \in Reports, RaiseReport(r) \/ LateReply(r) PROVE IInv'
    BY <2>3 DEF RaiseReport, LateReply
  <2>4. ASSUME NEW w \in Worker, NEW r \in Reports,
               ConsumeReport(w, r) \/ AckWaitExpires(w, r) PROVE IInv'
    BY <2>4 DEF ConsumeReport, AckWaitExpires, Deliver
  <2>5. ASSUME NEW w \in Worker,
               SkipReport(w) \/ AcceptReport(w) \/ StoreUnregistered(w)
                 \/ StoreSelectsNone(w) PROVE IInv'
    BY <2>5 DEF SkipReport, AcceptReport, StoreUnregistered, StoreSelectsNone, Goto
  <2>6. ASSUME NEW w \in Worker, StoreInsert(w) \/ StoreUpdate(w) PROVE IInv'
    BY <2>6 DEF StoreInsert, StoreUpdate, Goto
  <2>7. ASSUME NEW w \in Worker, SendToDlsStation(w) PROVE IInv'
    BY <2>7 DEF SendToDlsStation, Goto
  <2>8. ASSUME NEW w \in Worker, AckReport(w) PROVE IInv'
    BY <2>8 DEF AckReport, Goto
  <2>9. ASSUME NEW w \in Worker, HandlerFails(w) PROVE IInv'
    BY <2>9 DEF HandlerFails
  <2>10. ASSUME NEW b \in Brokers, Crash(b) PROVE IInv'
    BY <2>10 DEF Crash
  <2>11. ASSUME NEW i \in Ids,
                ResendUnackedMsg(i) \/ \E g \in Groups : PmAck(i, g) \/ LoseCopy(i, g)
         PROVE IInv'
    BY <2>1, <2>11 DEF ResendUnackedMsg, PmAck, LoseCopy
  <2>12. ASSUME NEW S \in SUBSET DOMAIN rows, DeleteRows(S) PROVE IInv'
    BY <2>1, <2>12 DEF DeleteRows
  <2>13. CASE UpdateDlsConfig
    BY <2>1, <2>13 DEF UpdateDlsConfig
  <2>14. ASSUME NEW g \in Groups, CreateConsumer(g) \/ DeleteConsumer(g)
                                    \/ RemovePoisonedCg(g) \/ AbandonDestroy(g)
         PROVE IInv'
    BY <2>1, <2>14 DEF CreateConsumer, DeleteConsumer, RemovePoisonedCg, AbandonDestroy
  <2> QED
    BY <2>2, <2>3, <2>4, <2>5, <2>6, <2>7, <2>8, <2>9, <2>10, <2>11, <2>12, <2>13,
       <2>14
       DEF Next, WorkerStep, Environment, DropDlsMessages, RemoveOldDlsMsgs,
           PurgeDlsMsgsFromPartition, PurgeDlsMsgsFromStation
<1>3. QED
  BY <1>1, <1>2, TypeCorrect, PTL DEF Spec

-----------------------------------------------------------------------------
\* MaxDeliver of the report consumers tolerates every combination of MaxFaults <
\* MaxDeliver handler errors, crashes, late replies and AckWait expiries.
THEOREM NeverAbandonedHolds == Spec => []NeverAbandoned
<1> USE DEF reportVars, workerVars, configVars, tableVars, historyVars
<1>1. Init => DeliveriesExplained
  BY DEF Init, DeliveriesExplained
<1>2. TypeOK /\ DeliveriesExplained /\ [Next]_vars => DeliveriesExplained'
  <2> SUFFICES ASSUME TypeOK, DeliveriesExplained, [Next]_vars
               PROVE  DeliveriesExplained'
    OBVIOUS
  <2> USE BoundsAssumption DEF DeliveriesExplained, TypeOK, Held
  <2>1. ASSUME UNCHANGED <<stream, emitted, deliv, cur>>,
               faults' = faults \/ faults' = faults + 1
        PROVE  DeliveriesExplained'
    BY <2>1
  <2>2. CASE UNCHANGED vars
    BY <2>1, <2>2 DEF vars
  <2>3. ASSUME NEW r \in Reports, RaiseReport(r) PROVE DeliveriesExplained'
    BY <2>3 DEF RaiseReport
  <2>4. ASSUME NEW r \in Reports, LateReply(r) PROVE DeliveriesExplained'
    BY <2>4 DEF LateReply
  <2>5. ASSUME NEW w \in Worker, NEW r \in Reports, Deliver(w, r),
               faults' = faults + 1 \/ (faults' = faults /\ ~Held(r))
        PROVE  DeliveriesExplained'
    <3>1. cur'[w] = r /\ \A v \in Worker : v # w => cur'[v] = cur[v]
      BY <2>5 DEF Deliver
    <3>2. cur[w] = NoReport /\ NoReport \notin Reports
      BY <2>5, ReportsAssumption DEF Deliver
    <3>3. \A q \in Reports : Held(q) => Held(q)'
      BY <3>1, <3>2
    <3>4. Held(r)'
      BY <3>1
    <3>5. deliv' = [deliv EXCEPT ![r] = @ + 1] /\ r \in stream /\ stream' = stream
          /\ emitted' = emitted
      BY <2>5 DEF Deliver
    <3> QED
      BY <2>5, <3>3, <3>4, <3>5
  <2>6. ASSUME NEW w \in Worker,
               SkipReport(w) \/ AcceptReport(w) \/ StoreUnregistered(w)
                 \/ StoreSelectsNone(w) \/ StoreInsert(w) \/ StoreUpdate(w)
                 \/ SendToDlsStation(w)
        PROVE  DeliveriesExplained'
    BY <2>1, <2>6 DEF SkipReport, AcceptReport, StoreUnregistered, StoreSelectsNone,
                      StoreInsert, StoreUpdate, SendToDlsStation
  <2>7. ASSUME NEW w \in Worker, AckReport(w) PROVE DeliveriesExplained'
    <3>1. \A q \in Reports : q # cur[w] /\ Held(q) => Held(q)'
      BY <2>7 DEF AckReport
    <3>2. cur[w] \in emitted
      BY <2>7 DEF AckReport, Goto
    <3> QED
      BY <2>7, <3>1, <3>2 DEF AckReport
  <2>8. ASSUME UNCHANGED <<stream, emitted, deliv>>, faults' = faults + 1
        PROVE  DeliveriesExplained'
    BY <2>8
  <2>9. ASSUME NEW w \in Worker, HandlerFails(w) PROVE DeliveriesExplained'
    BY <2>8, <2>9 DEF HandlerFails
  <2>10. ASSUME NEW b \in Brokers, Crash(b) PROVE DeliveriesExplained'
    BY <2>8, <2>10 DEF Crash
  <2>11. ASSUME NEW i \in Ids,
                ResendUnackedMsg(i) \/ \E g \in Groups : PmAck(i, g) \/ LoseCopy(i, g)
         PROVE DeliveriesExplained'
    BY <2>1, <2>11 DEF ResendUnackedMsg, PmAck, LoseCopy
  <2>12. ASSUME NEW S \in SUBSET DOMAIN rows, DeleteRows(S) PROVE DeliveriesExplained'
    BY <2>1, <2>12 DEF DeleteRows
  <2>13. CASE UpdateDlsConfig
    BY <2>1, <2>13 DEF UpdateDlsConfig
  <2>14. ASSUME NEW g \in Groups, CreateConsumer(g) \/ DeleteConsumer(g)
                                    \/ RemovePoisonedCg(g) \/ AbandonDestroy(g)
         PROVE DeliveriesExplained'
    BY <2>1, <2>14 DEF CreateConsumer, DeleteConsumer, RemovePoisonedCg, AbandonDestroy
  <2>15. ASSUME NEW w \in Worker, NEW r \in Reports,
                ConsumeReport(w, r) \/ AckWaitExpires(w, r)
         PROVE DeliveriesExplained'
    <3>1. CASE ConsumeReport(w, r)
      <4>1. Deliver(w, r) /\ ~Held(r) /\ faults' = faults
        BY <3>1 DEF ConsumeReport
      <4> QED
        BY <2>5, <4>1
    <3>2. CASE AckWaitExpires(w, r)
      <4>1. Deliver(w, r) /\ faults' = faults + 1
        BY <3>2 DEF AckWaitExpires
      <4> QED
        BY <2>5, <4>1
    <3> QED
      BY <2>15, <3>1, <3>2
  <2> QED
    BY <2>2, <2>3, <2>4, <2>6, <2>7, <2>9, <2>10, <2>11, <2>12, <2>13, <2>14, <2>15
       DEF Next, WorkerStep, Environment, DropDlsMessages, RemoveOldDlsMsgs, PurgeDlsMsgsFromPartition,
           PurgeDlsMsgsFromStation
<1>3. TypeOK /\ DeliveriesExplained => NeverAbandoned
  BY BoundsAssumption DEF DeliveriesExplained, NeverAbandoned, TypeOK
<1>4. QED
  BY <1>1, <1>2, <1>3, TypeCorrect, PTL DEF Spec

-----------------------------------------------------------------------------
\* poisoned_cgs never lists a group out of nowhere: for every row and group there
\* is a committed report with the row's sequence number.
THEOREM CgsWereReportedHolds == Spec => []CgsWereReported
<1> USE DEF reportVars, workerVars, configVars, tableVars, historyVars
<1>1. Init => CgsWereReported
  BY DEF Init, CgsWereReported
<1>2. TypeOK /\ TypeOK' /\ CgsWereReported /\ [Next]_vars => CgsWereReported'
  <2> SUFFICES ASSUME TypeOK, TypeOK', CgsWereReported, [Next]_vars
               PROVE  CgsWereReported'
    OBVIOUS
  <2> USE DEF CgsWereReported
  <2>1. ASSUME stored' = stored,
               \A i \in DOMAIN rows' : /\ i \in DOMAIN rows
                                       /\ rows'[i].seq = rows[i].seq
                                       /\ rows'[i].cgs \subseteq rows[i].cgs
        PROVE  CgsWereReported'
    BY <2>1
  <2>2. CASE UNCHANGED vars
    BY <2>1, <2>2 DEF vars
  <2>3. ASSUME NEW r \in Reports,
               RaiseReport(r) \/ LateReply(r)
                 \/ \E w \in Worker : ConsumeReport(w, r) \/ AckWaitExpires(w, r)
        PROVE  CgsWereReported'
    BY <2>1, <2>3 DEF RaiseReport, LateReply, ConsumeReport, AckWaitExpires, Deliver
  <2>4. ASSUME NEW w \in Worker,
               SkipReport(w) \/ AcceptReport(w) \/ StoreUnregistered(w)
                 \/ StoreSelectsNone(w) \/ SendToDlsStation(w) \/ AckReport(w)
                 \/ HandlerFails(w)
        PROVE  CgsWereReported'
    BY <2>1, <2>4 DEF SkipReport, AcceptReport, StoreUnregistered, StoreSelectsNone,
                      SendToDlsStation, AckReport, HandlerFails
  <2>5. ASSUME NEW w \in Worker, StoreInsert(w) PROVE CgsWereReported'
    <3>1. NewRow(w).seq = cur[w].seq /\ NewRow(w).cgs = {cur[w].cg}
      BY DEF NewRow
    <3> QED
      BY <2>5, <3>1 DEF StoreInsert
  <2>6. ASSUME NEW w \in Worker, StoreUpdate(w) PROVE CgsWereReported'
    <3>1. cur[w].cg \in Groups
      BY <2>6, ReportsAssumption DEF StoreUpdate, Goto, TypeOK, Report
    <3>2. ASSUME NEW i \in DOMAIN rows
          PROVE  /\ rows'[i].seq = rows[i].seq
                 /\ rows'[i].cgs \subseteq
                      rows[i].cgs \cup {g \in {cur[w].cg} : rows[i].seq = cur[w].seq}
      BY <2>6, <3>1 DEF StoreUpdate, AppendCg, TypeOK, Row
    <3> QED
      BY <2>6, <3>2 DEF StoreUpdate, AppendCg
  <2>7. ASSUME NEW b \in Brokers, Crash(b) PROVE CgsWereReported'
    BY <2>1, <2>7 DEF Crash
  <2>8. ASSUME NEW i \in Ids, NEW g \in Groups, PmAck(i, g) PROVE CgsWereReported'
    <3>1. ASSUME NEW j \in DOMAIN rows'
          PROVE  /\ j \in DOMAIN rows
                 /\ rows'[j] = rows[j] \/ rows'[j] = [rows[j] EXCEPT !.cgs = @ \ {g}]
      BY <2>8 DEF PmAck, RemoveCgFromDlsMsg, Without
    <3>2. ASSUME NEW j \in DOMAIN rows'
          PROVE  rows'[j].seq = rows[j].seq /\ rows'[j].cgs \subseteq rows[j].cgs
      <4>1. rows[j] \in Row
        BY <3>1, <3>2 DEF TypeOK
      <4> QED
        BY <3>1, <3>2, <4>1 DEF Row
    <3> QED
      BY <2>1, <2>8, <3>1, <3>2 DEF PmAck
  <2>9. ASSUME NEW i \in Ids,
               ResendUnackedMsg(i) \/ \E g \in Groups : LoseCopy(i, g)
        PROVE  CgsWereReported'
    BY <2>1, <2>9 DEF ResendUnackedMsg, LoseCopy
  <2>10. ASSUME NEW S \in SUBSET DOMAIN rows, DeleteRows(S) PROVE CgsWereReported'
    BY <2>1, <2>10 DEF DeleteRows, Without
  <2>11. CASE UpdateDlsConfig
    BY <2>1, <2>11 DEF UpdateDlsConfig
  <2>12. ASSUME NEW g \in Groups, CreateConsumer(g) \/ DeleteConsumer(g)
                                    \/ AbandonDestroy(g)
         PROVE CgsWereReported'
    BY <2>1, <2>12 DEF CreateConsumer, DeleteConsumer, AbandonDestroy
  <2>13. ASSUME NEW g \in Groups, RemovePoisonedCg(g) PROVE CgsWereReported'
    <3>1. ASSUME NEW j \in DOMAIN rows'
          PROVE  j \in DOMAIN rows /\ rows'[j] = [rows[j] EXCEPT !.cgs = @ \ {g}]
      BY <2>13 DEF RemovePoisonedCg
    <3>2. ASSUME NEW j \in DOMAIN rows'
          PROVE  rows'[j].seq = rows[j].seq /\ rows'[j].cgs \subseteq rows[j].cgs
      <4>1. rows[j] \in Row
        BY <3>1, <3>2 DEF TypeOK
      <4> QED
        BY <3>1, <3>2, <4>1 DEF Row
    <3> QED
      BY <2>1, <2>13, <3>1, <3>2 DEF RemovePoisonedCg
  <2> QED
    BY <2>2, <2>3, <2>4, <2>5, <2>6, <2>7, <2>8, <2>9, <2>10, <2>11, <2>12, <2>13
       DEF Next, WorkerStep, Environment, DropDlsMessages, RemoveOldDlsMsgs,
           PurgeDlsMsgsFromPartition, PurgeDlsMsgsFromStation
<1>3. QED
  BY <1>1, <1>2, TypeCorrect, PTL DEF Spec

-----------------------------------------------------------------------------
\* As long as a row is resent again only after every group answered (or lost) the
\* previous copy, and groups are not destroyed, a group that still owes a message
\* is listed by a row: RemoveCgFromDlsMsg then deletes a row only on the
\* confirmation of its last group.  The hypotheses are needed: with a second copy,
\* or with a copy that outlives its group, the DELETE loses the other group.
THEOREM NoDeadLetterLostHolds ==
    ASSUME MaxCopies = 1, Removable = {}
    PROVE  Spec => []NoDeadLetterLost
<1> USE DEF reportVars, workerVars, configVars, tableVars, historyVars
<1> DEFINE IInv == NoDeadLetterLost /\ CopiesListed /\ IdsAreSerial
<1>1. Init => IInv
  BY BoundsAssumption DEF Init, NoDeadLetterLost, CopiesListed, IdsAreSerial, Ids
<1>2. TypeOK /\ TypeOK' /\ IInv /\ [Next]_vars => IInv'
  <2> SUFFICES ASSUME TypeOK, TypeOK', IInv, [Next]_vars PROVE IInv'
    OBVIOUS
  <2> USE DEF NoDeadLetterLost, CopiesListed, IdsAreSerial, Lists, RowsOf
  <2>1. ASSUME UNCHANGED <<rows, nextId, copies, owed>> PROVE IInv'
    BY <2>1
  <2>2. CASE UNCHANGED vars
    BY <2>1, <2>2 DEF vars
  <2>3. ASSUME NEW r \in Reports,
               RaiseReport(r) \/ LateReply(r)
                 \/ \E w \in Worker : ConsumeReport(w, r) \/ AckWaitExpires(w, r)
        PROVE  IInv'
    BY <2>1, <2>3 DEF RaiseReport, LateReply, ConsumeReport, AckWaitExpires, Deliver
  <2>4. ASSUME NEW w \in Worker,
               SkipReport(w) \/ AcceptReport(w) \/ StoreUnregistered(w)
                 \/ StoreSelectsNone(w) \/ SendToDlsStation(w) \/ AckReport(w)
                 \/ HandlerFails(w)
        PROVE  IInv'
    BY <2>1, <2>4 DEF SkipReport, AcceptReport, StoreUnregistered, StoreSelectsNone,
                      SendToDlsStation, AckReport, HandlerFails
  <2>5. ASSUME NEW w \in Worker, StoreInsert(w) PROVE IInv'
    <3>1. /\ NewRow(w).part = cur[w].part /\ NewRow(w).seq = cur[w].seq
          /\ NewRow(w).cgs = {cur[w].cg}
      BY DEF NewRow
    <3>2. nextId \in Ids /\ nextId \notin DOMAIN rows /\ nextId' = nextId + 1
      BY <2>5, BoundsAssumption DEF StoreInsert, TypeOK, Ids
    <3>3. /\ DOMAIN rows' = DOMAIN rows \cup {nextId}
          /\ rows'[nextId] = NewRow(w)
          /\ \A i \in DOMAIN rows : rows'[i] = rows[i]
      BY <2>5, <3>2 DEF StoreInsert
    <3>4. NoDeadLetterLost'
      BY <2>5, <3>1, <3>3 DEF StoreInsert
    <3>5. CopiesListed'
      BY <2>5, <3>2, <3>3 DEF StoreInsert, TypeOK
    <3>6. IdsAreSerial'
      BY <2>5, <3>2, <3>3, BoundsAssumption DEF StoreInsert, TypeOK, Ids
    <3> QED
      BY <3>4, <3>5, <3>6
  <2>6. ASSUME NEW w \in Worker, StoreUpdate(w) PROVE IInv'
    <3>1. cur[w].cg \in Groups
      BY <2>6, ReportsAssumption DEF StoreUpdate, Goto, TypeOK, Report
    <3>2. DOMAIN rows' = DOMAIN rows /\ UNCHANGED <<nextId, copies>>
      BY <2>6 DEF StoreUpdate, AppendCg
    <3>3. ASSUME NEW i \in DOMAIN rows
          PROVE  /\ rows'[i].part = rows[i].part /\ rows'[i].seq = rows[i].seq
                 /\ rows[i].cgs \subseteq rows'[i].cgs
                 /\ rows[i].seq = cur[w].seq => cur[w].cg \in rows'[i].cgs
      BY <2>6, <3>1 DEF StoreUpdate, AppendCg, TypeOK, Row
    <3>4. PICK i \in DOMAIN rows : rows[i].part = cur[w].part /\ rows[i].seq = cur[w].seq
      BY <2>6 DEF StoreUpdate
    <3>5. NoDeadLetterLost'
      BY <2>6, <3>2, <3>3, <3>4 DEF StoreUpdate
    <3> QED
      BY <3>2, <3>3, <3>5
  <2>7. ASSUME NEW b \in Brokers, Crash(b) PROVE IInv'
    BY <2>1, <2>7 DEF Crash
  <2>8. ASSUME NEW i \in Ids, ResendUnackedMsg(i) PROVE IInv'
    <3>1. UNCHANGED <<rows, nextId, owed>>
      BY <2>8 DEF ResendUnackedMsg
    <3>2. \A j \in Ids : j # i => copies'[j] = copies[j]
      BY <2>8 DEF ResendUnackedMsg, TypeOK
    <3>3. \A g \in Groups : copies'[i][g] > 0 => copies[i][g] > 0 \/ g \in rows[i].cgs
      BY <2>8 DEF ResendUnackedMsg, TypeOK
    <3>4. i < nextId
      BY <2>8 DEF ResendUnackedMsg
    <3>5. nextId \in Nat /\ DOMAIN rows \subseteq Ids /\ Ids \subseteq Nat
      BY BoundsAssumption DEF TypeOK, Ids
    <3>6. CopiesListed'
      BY <2>8, <3>1, <3>2, <3>3, <3>5 DEF ResendUnackedMsg
    <3> QED
      BY <3>1, <3>2, <3>4, <3>5, <3>6
  <2>9. ASSUME NEW i \in Ids, NEW g \in Groups, LoseCopy(i, g) \/ PmAck(i, g)
        PROVE /\ copies'[i][g] = 0
              /\ \A j \in Ids : \A h \in Groups :
                    j # i \/ h # g => copies'[j][h] = copies[j][h]
    BY <2>9, BoundsAssumption DEF LoseCopy, PmAck, TypeOK
  <2>10. ASSUME NEW i \in Ids, NEW g \in Groups, LoseCopy(i, g) PROVE IInv'
    <3>1. UNCHANGED <<rows, nextId, owed>>
      BY <2>10 DEF LoseCopy
    <3>2. DOMAIN rows \subseteq Ids
      BY DEF TypeOK
    <3> QED
      BY <2>9, <2>10, <3>1, <3>2
  <2>11. ASSUME NEW i \in Ids, NEW g \in Groups, PmAck(i, g) PROVE IInv'
    <3>1. DOMAIN rows \subseteq Ids /\ nextId' = nextId
      BY <2>11 DEF TypeOK, PmAck
    <3>2. i \in DOMAIN rows => g \in rows[i].cgs
      BY <2>11 DEF PmAck
    <3>3. ASSUME NEW j \in DOMAIN rows, j # i PROVE j \in DOMAIN rows' /\ rows'[j] = rows[j]
      BY <2>11, <3>3 DEF PmAck, RemoveCgFromDlsMsg, Without
    <3>4. DOMAIN rows' \subseteq DOMAIN rows
      BY <2>11 DEF PmAck, RemoveCgFromDlsMsg, Without
    <3>5. ASSUME i \in DOMAIN rows, rows[i].cgs # {g}
          PROVE  /\ i \in DOMAIN rows'
                 /\ rows'[i].part = rows[i].part /\ rows'[i].seq = rows[i].seq
                 /\ rows'[i].cgs = rows[i].cgs \ {g}
      <4>1. ~LengthOne(rows[i].cgs)
        BY <3>2, <3>5 DEF LengthOne
      <4>2. i \in DOMAIN rows' /\ rows'[i] = [rows[i] EXCEPT !.cgs = @ \ {g}]
        BY <2>11, <3>5, <4>1 DEF PmAck, RemoveCgFromDlsMsg
      <4>3. rows[i] \in Row
        BY <3>5 DEF TypeOK
      <4> QED
        BY <4>2, <4>3 DEF Row
    <3>6. ASSUME i \in DOMAIN rows, rows[i].cgs = {g} PROVE i \notin DOMAIN rows'
      <4>1. LengthOne(rows[i].cgs)
        BY <3>6 DEF LengthOne
      <4> QED
        BY <2>11, <3>6, <4>1 DEF PmAck, RemoveCgFromDlsMsg, Without
    <3>7. NoDeadLetterLost'
      <4> SUFFICES ASSUME NEW r \in owed' PROVE (\E j \in DOMAIN rows : Lists(j, r))'
        OBVIOUS
      <4>1. r \in owed /\ ~(i \in DOMAIN rows /\ i \in RowsOf(r) /\ r.cg = g)
        BY <2>11 DEF PmAck
      <4>2. PICK j \in DOMAIN rows : Lists(j, r)
        BY <4>1
      <4>3. CASE j # i
        BY <3>3, <4>2, <4>3
      <4>4. CASE j = i
        <5>1. r.cg # g /\ r.cg \in rows[i].cgs
          BY <4>1, <4>2, <4>4
        <5> QED
          BY <3>5, <4>2, <4>4, <5>1
      <4> QED
        BY <4>3, <4>4
    <3>8. CopiesListed'
      <4> SUFFICES ASSUME NEW j \in DOMAIN rows', NEW h \in Groups, copies'[j][h] > 0
                   PROVE  h \in rows'[j].cgs
        OBVIOUS
      <4>1. j \in DOMAIN rows /\ j \in Ids
        BY <3>1, <3>4
      <4>2. CASE j # i
        BY <2>9, <2>11, <3>3, <4>1, <4>2
      <4>3. CASE j = i
        <5>1. h # g /\ copies[j][h] > 0
          BY <2>9, <2>11, <4>1, <4>3
        <5> QED
          BY <3>5, <3>6, <4>1, <4>3, <5>1
      <4> QED
        BY <4>2, <4>3
    <3>9. IdsAreSerial'
      BY <2>9, <2>11, <3>1, <3>4
    <3> QED
      BY <3>7, <3>8, <3>9
  <2>12. ASSUME NEW S \in SUBSET DOMAIN rows, DeleteRows(S) PROVE IInv'
    BY <2>12 DEF DeleteRows, Without
  <2>13. CASE UpdateDlsConfig
    BY <2>1, <2>13 DEF UpdateDlsConfig
  <2>14. ASSUME NEW g \in Groups, CreateConsumer(g) \/ DeleteConsumer(g)
                                    \/ AbandonDestroy(g)
         PROVE IInv'
    BY <2>1, <2>14 DEF CreateConsumer, DeleteConsumer, AbandonDestroy
  <2>15. ASSUME NEW g \in Groups, RemovePoisonedCg(g) PROVE IInv'
    BY <2>15 DEF RemovePoisonedCg, TypeOK
  <2> QED
    BY <2>2, <2>3, <2>4, <2>5, <2>6, <2>7, <2>8, <2>10, <2>11, <2>12, <2>13, <2>14,
       <2>15
       DEF Next, WorkerStep, Environment, DropDlsMessages, RemoveOldDlsMsgs,
           PurgeDlsMsgsFromPartition, PurgeDlsMsgsFromStation
<1>3. QED
  BY <1>1, <1>2, TypeCorrect, PTL DEF Spec
=============================================================================
