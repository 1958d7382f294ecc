------------------------------ MODULE ResendAll ------------------------------
(***************************************************************************)
(* The asynchronous task "resend_all_dls_msgs" of one station: the         *)
(* goroutine of ResendAllDlsMsgs walks the station's poison rows in batches *)
(* by id, records its progress in async_tasks and switches                 *)
(* stations.resend_disabled around the walk.  Several walks may run at     *)
(* once (the HTTP handler does not look at resend_disabled), rows come, go *)
(* and change meanwhile, brokers crash and start the tasks again when they *)
(* boot, and the cluster leader removes inactive tasks.                    *)
(***************************************************************************)
EXTENDS Integers, FiniteSets, FiniteSetsExt

CONSTANTS
    Brokers,
    Walks,       \* walks that may be started (bounds the requests)
    MaxId,       \* bound on the ids of rows
    FirstRows,   \* number of rows the station starts with
    BatchLimit,  \* LIMIT of GetDlsMsgsBatch (10 in the code)
    MaxFaults    \* bound on database, account and broker failures

ASSUME ResendAllAssumption ==
    /\ {MaxId, FirstRows, BatchLimit, MaxFaults} \subseteq Nat
    /\ FirstRows <= MaxId
    /\ BatchLimit > 0
    /\ Brokers # {}

Ids == 1..MaxId

VARIABLES
    rows,        \* ids of the station's poison rows
    nextId,      \* next id of dls_messages
    disabled,    \* stations.resend_disabled
    tasks,       \* async_tasks of the station: walk -> [broker, status, offset]
    up,          \* brokers running
    reruns,      \* task rows a booting broker has yet to start again
    removing,    \* the leader deleted inactive tasks and has yet to clear the flag
    faults,      \* failures so far
    pc,          \* where each walk is
    on,          \* the broker a walk runs on
    lo, hi,      \* minId, maxId
    batch,       \* rows fetched and not yet resent
    got,         \* whether the last fetch returned rows
    offset,      \* id of the last row handled
    due,         \* rows with updated_at <= createdAt; from the range query on,
                 \* the rows it ranged over
    resent,      \* history: rows each walk resent
    failed,      \* history: rows whose resend returned an error
    stray        \* history: a failure hit where the flag has no owner

tableVars == <<rows, nextId>>
taskVars  == <<disabled, tasks>>
nodeVars  == <<up, reruns, removing, faults>>
walkVars  == <<pc, on, lo, hi, batch, got, offset, due, resent, failed>>
vars == <<tableVars, taskVars, nodeVars, walkVars, stray>>

Task == [broker : Brokers, status : {"running", "completed", "failed"}, offset : 0..MaxId]

Ended == {"free", "done", "failed", "dead"}
PCs == Ended \cup {"flag", "insert", "range", "fetch", "send", "complete", "enable",
                  "fail", "failStatus"}
Live(w) == pc[w] \notin Ended

TypeOK ==
    /\ rows \subseteq 1..(nextId - 1)
    /\ nextId \in 1..(MaxId + 1)
    /\ disabled \in BOOLEAN
    /\ DOMAIN tasks \subseteq Walks
    /\ \A w \in DOMAIN tasks : tasks[w] \in Task
    /\ up \subseteq Brokers
    /\ reruns \in [Brokers -> Nat]
    /\ removing \in BOOLEAN
    /\ faults \in 0..MaxFaults
    /\ pc \in [Walks -> PCs]
    /\ on \in [Walks -> Brokers]
    /\ \A w \in Walks : Live(w) => on[w] \in up
    /\ lo \in [Walks -> -1..MaxId]
    /\ hi \in [Walks -> 0..MaxId]
    /\ batch \in [Walks -> SUBSET Ids]
    /\ got \in [Walks -> BOOLEAN]
    /\ offset \in [Walks -> 0..MaxId]
    /\ due \in [Walks -> SUBSET Ids]
    /\ resent \in [Walks -> SUBSET Ids]
    /\ failed \in [Walks -> SUBSET Ids]
    /\ stray \in BOOLEAN

Init ==
    /\ rows = 1..FirstRows
    /\ nextId = FirstRows + 1
    /\ disabled = FALSE
    /\ tasks = [w \in {} |-> {}]
    /\ up = Brokers
    /\ reruns = [b \in Brokers |-> 0]
    /\ removing = FALSE
    /\ faults = 0
    /\ pc = [w \in Walks |-> "free"]
    /\ on = [w \in Walks |-> CHOOSE b \in Brokers : TRUE]
    /\ lo = [w \in Walks |-> 0] /\ hi = [w \in Walks |-> 0]
    /\ batch = [w \in Walks |-> {}]
    /\ got = [w \in Walks |-> FALSE]
    /\ offset = [w \in Walks |-> 0]
    /\ due = [w \in Walks |-> {}]
    /\ resent = [w \in Walks |-> {}]
    /\ failed = [w \in Walks |-> {}]
    /\ stray = FALSE

-----------------------------------------------------------------------------
(* The walk, statement by statement. *)

Goto(w, from, to) == pc[w] = from /\ pc' = [pc EXCEPT ![w] = to]

\* The goroutine starts on broker b: createdAt is taken here.
Begin(w, b) ==
    /\ Goto(w, "free", "flag")
    /\ b \in up
    /\ on' = [on EXCEPT ![w] = b]
    /\ due' = [due EXCEPT ![w] = rows]
    /\ UNCHANGED <<lo, hi, batch, got, offset, resent, failed>>

\* ResendPoisonMessages without ids.
Request(w, b) ==
    /\ reruns[b] = 0      \* the HTTP server starts after the reruns
    /\ Begin(w, b)
    /\ UNCHANGED <<tableVars, taskVars, nodeVars, stray>>

SetFlag(w) ==
    /\ Goto(w, "flag", "insert")
    /\ disabled' = TRUE
    /\ UNCHANGED <<tableVars, tasks, nodeVars, stray, on, lo, hi, batch, got, offset,
                   due, resent, failed>>

\* UpsertAsyncTask always inserts: no constraint is left that could make the
\* statement return no row, so the branch that resumes from the offset of an
\* existing task is never taken.
UpsertAsyncTask(w) ==
    /\ Goto(w, "insert", "range")
    /\ tasks' = [v \in DOMAIN tasks \cup {w} |->
                   IF v = w THEN [broker |-> on[w], status |-> "running", offset |-> 0]
                            ELSE tasks[v]]
    /\ UNCHANGED <<tableVars, disabled, nodeVars, stray, on, lo, hi, batch, got, offset,
                   due, resent, failed>>

\* Mutant of GetMinMax: minId is not lowered before the batches are read.
MutNoLowering(w) ==
    /\ Goto(w, "range", "fetch")
    /\ lo' = [lo EXCEPT ![w] = IF due[w] = {} THEN 0 ELSE Min(due[w])]
    /\ hi' = [hi EXCEPT ![w] = IF due[w] = {} THEN 0 ELSE Max(due[w])]
    /\ UNCHANGED <<tableVars, taskVars, nodeVars, stray, on, batch, got, offset, due,
                   resent, failed>>

\* Mutant of GetMinMax: -1, -1 when there is no row, as on errors.
MutEmptyRange(w) ==
    /\ Goto(w, "range", "fetch")
    /\ lo' = [lo EXCEPT ![w] = (IF due[w] = {} THEN -1 ELSE Min(due[w])) - 1]
    /\ hi' = [hi EXCEPT ![w] = IF due[w] = {} THEN -1 ELSE Max(due[w])]
    /\ UNCHANGED <<tableVars, taskVars, nodeVars, stray, on, batch, got, offset, due,
                   resent, failed>>

\* GetMinMaxIdsOfDlsMsgsByUpdatedAt answers 0, 0 when there is no row; minId is
\* then lowered by one, as GetDlsMsgsBatch selects ids above it.
GetMinMax(w) ==
    /\ Goto(w, "range", "fetch")
    /\ lo' = [lo EXCEPT ![w] = (IF due[w] = {} THEN 0 ELSE Min(due[w])) - 1]
    /\ hi' = [hi EXCEPT ![w] = IF due[w] = {} THEN 0 ELSE Max(due[w])]
    /\ UNCHANGED <<tableVars, taskVars, nodeVars, stray, on, batch, got, offset, due,
                   resent, failed>>

\* The first BatchLimit ids of S.
FirstOf(S) == {i \in S : Cardinality({j \in S : j < i}) < BatchLimit}

GetDlsMsgsBatch(w) ==
    LET found == FirstOf({i \in rows : lo[w] < i /\ i <= hi[w]})
    IN  /\ Goto(w, "fetch", "send")
        /\ batch' = [batch EXCEPT ![w] = found]
        /\ got' = [got EXCEPT ![w] = found # {}]
        /\ UNCHANGED <<tableVars, taskVars, nodeVars, stray, on, lo, hi, offset, due,
                       resent, failed>>

\* One row of the batch, in the order of ids, as it was when it was fetched.
Resend(w) ==
    /\ pc[w] = "send"
    /\ batch[w] # {}
    /\ offset' = [offset EXCEPT ![w] = Min(batch[w])]
    /\ batch' = [batch EXCEPT ![w] = @ \ {Min(@)}]
    /\ resent' = [resent EXCEPT ![w] = @ \cup {Min(batch[w])}]
    /\ UNCHANGED <<tableVars, taskVars, nodeVars, stray, pc, on, lo, hi, got, due, failed>>

\* ResendUnackedMsg returns an error: it is logged and the row is passed over.
ResendFails(w) ==
    /\ pc[w] = "send"
    /\ batch[w] # {}
    /\ faults < MaxFaults
    /\ faults' = faults + 1
    /\ offset' = [offset EXCEPT ![w] = Min(batch[w])]
    /\ batch' = [batch EXCEPT ![w] = @ \ {Min(@)}]
    /\ failed' = [failed EXCEPT ![w] = @ \cup {Min(batch[w])}]
    /\ UNCHANGED <<tableVars, taskVars, up, reruns, removing, stray, pc, on, lo, hi, got,
                   due, resent>>

\* UPDATE ... WHERE name, tenant_name, station_id: every task row of the station.
UpdateStatusAsyncTask(status) ==
    tasks' = [v \in DOMAIN tasks |-> [tasks[v] EXCEPT !.status = status]]
UpdateMetaData(off) ==
    tasks' = [v \in DOMAIN tasks |-> [tasks[v] EXCEPT !.offset = off]]

Finished(w) == ~got[w] \/ offset[w] = hi[w]

\* Mutant of UpdateAsyncTask: minId is not advanced.
MutNoAdvance(w) ==
    /\ batch[w] = {}
    /\ Goto(w, "send", IF Finished(w) THEN "complete" ELSE "fetch")
    /\ UpdateMetaData(IF got[w] THEN offset[w] ELSE 0)
    /\ UNCHANGED <<tableVars, disabled, nodeVars, stray, on, lo, hi, batch, got, offset,
                   due, resent, failed>>

\* The offset is saved; the metadata of an empty batch is empty again.
UpdateAsyncTask(w) ==
    /\ batch[w] = {}
    /\ Goto(w, "send", IF Finished(w) THEN "complete" ELSE "fetch")
    /\ UpdateMetaData(IF got[w] THEN offset[w] ELSE 0)
    /\ lo' = [lo EXCEPT ![w] = offset[w]]
    /\ UNCHANGED <<tableVars, disabled, nodeVars, stray, on, hi, batch, got, offset, due,
                   resent, failed>>

\* UpdateAsyncTask failed: minId keeps its value and the batch is read again.
UpdateAsyncTaskFails(w) ==
    /\ batch[w] = {}
    /\ faults < MaxFaults
    /\ faults' = faults + 1
    /\ Goto(w, "send", "fetch")
    /\ UNCHANGED <<tableVars, taskVars, up, reruns, removing, stray, on, lo, hi, batch,
                   got, offset, due, resent, failed>>

Complete(w) ==
    /\ Goto(w, "complete", "enable")
    /\ UpdateStatusAsyncTask("completed")
    /\ UNCHANGED <<tableVars, disabled, nodeVars, stray, on, lo, hi, batch, got, offset,
                   due, resent, failed>>

ClearFlag(w) ==
    /\ Goto(w, "enable", "done")
    /\ disabled' = FALSE
    /\ UNCHANGED <<tableVars, tasks, nodeVars, stray, on, lo, hi, batch, got, offset,
                   due, resent, failed>>

-----------------------------------------------------------------------------
(* handleResendAllFailure. *)

\* A database error anywhere but in the batch loop's own statements.
StatementFails(w) ==
    /\ pc[w] \in {"flag", "insert", "range", "fetch", "complete", "enable"}
    /\ faults < MaxFaults
    /\ faults' = faults + 1
    /\ pc' = [pc EXCEPT ![w] = "fail"]
    /\ UNCHANGED <<tableVars, taskVars, up, reruns, removing, stray, on, lo, hi, batch,
                   got, offset, due, resent, failed>>

\* Walks of D stop without clearing the flag, and one of them has no task row
\* that would make the leader clear it later.
LeavesFlag(D) ==
    /\ disabled
    /\ \E v \in D : v \notin DOMAIN tasks /\ pc[v] # "flag"

FailClearFlag(w) ==
    /\ Goto(w, "fail", "failStatus")
    /\ disabled' = FALSE
    /\ UNCHANGED <<tableVars, tasks, nodeVars, stray, on, lo, hi, batch, got, offset,
                   due, resent, failed>>

FailStatus(w) ==
    /\ Goto(w, "failStatus", "failed")
    /\ UpdateStatusAsyncTask("failed")
    /\ UNCHANGED <<tableVars, disabled, nodeVars, stray, on, lo, hi, batch, got, offset,
                   due, resent, failed>>

\* The system message cannot be sent, or one of the two statements fails: the
\* handler returns and leaves the rest undone.
FailSilently(w) ==
    /\ pc[w] \in {"fail", "failStatus"}
    /\ faults < MaxFaults
    /\ faults' = faults + 1
    /\ pc' = [pc EXCEPT ![w] = "failed"]
    /\ stray' = (stray \/ LeavesFlag({w}))
    /\ UNCHANGED <<tableVars, taskVars, up, reruns, removing, on, lo, hi, batch, got,
                   offset, due, resent, failed>>

-----------------------------------------------------------------------------
(* Brokers stop and start. *)

Crash(b) ==
    LET dying == {w \in Walks : Live(w) /\ on[w] = b}
    IN  /\ b \in up
        /\ faults < MaxFaults
        /\ faults' = faults + 1
        /\ up' = up \ {b}
        /\ reruns' = [reruns EXCEPT ![b] = 0]
        /\ pc' = [w \in Walks |-> IF w \in dying THEN "dead" ELSE pc[w]]
        /\ stray' = (stray \/ LeavesFlag(dying))
        /\ UNCHANGED <<tableVars, taskVars, removing, on, lo, hi, batch, got, offset, due,
                       resent, failed>>

\* CompleteRelevantStuckAsyncTasks reads the tasks of its broker, whatever their
\* status ...
Boot(b) ==
    /\ b \notin up
    /\ up' = up \cup {b}
    /\ reruns' = [reruns EXCEPT ![b] = Cardinality({w \in DOMAIN tasks : tasks[w].broker = b})]
    /\ UNCHANGED <<tableVars, taskVars, removing, faults, walkVars, stray>>

\* ... and starts a walk of its own for each.
Rerun(w, b) ==
    /\ reruns[b] > 0
    /\ reruns' = [reruns EXCEPT ![b] = @ - 1]
    /\ Begin(w, b)
    /\ UNCHANGED <<tableVars, taskVars, up, removing, faults, stray>>

\* The station's creator is gone (one task is passed over) or the station cannot
\* be read (the rest is given up).
RerunsFail(b) ==
    /\ reruns[b] > 0
    /\ faults < MaxFaults
    /\ faults' = faults + 1
    /\ \E left \in {0, reruns[b] - 1} : reruns' = [reruns EXCEPT ![b] = left]
    /\ UNCHANGED <<tableVars, taskVars, up, removing, walkVars, stray>>

-----------------------------------------------------------------------------
(* Removal of task rows. *)

Drop(S) == tasks' = [w \in DOMAIN tasks \ S |-> tasks[w]]

\* Mutant of RemoveAllAsyncTasks: the deleted rows' stations are not returned.
MutNoStations(S) ==
    /\ up # {}
    /\ ~removing
    /\ Drop(S)
    /\ UNCHANGED <<tableVars, disabled, nodeVars, walkVars, stray>>

\* RemoveInactiveAsyncTasks on the leader: the rows S were not updated for 20
\* minutes.  The clock is left out, so these may be any ...
RemoveAllAsyncTasks(S) ==
    /\ up # {}
    /\ ~removing
    /\ Drop(S)
    /\ removing' = TRUE
    /\ UNCHANGED <<tableVars, disabled, up, reruns, faults, walkVars, stray>>

\* Mutant of EnableResend: the UPDATE does not reach the station.
MutNoEnable ==
    /\ removing
    /\ removing' = FALSE
    /\ UNCHANGED <<tableVars, taskVars, up, reruns, faults, walkVars, stray>>

\* ... and their station is enabled again, by a second statement ...
EnableResend ==
    /\ removing
    /\ removing' = FALSE
    /\ disabled' = FALSE
    /\ UNCHANGED <<tableVars, tasks, up, reruns, faults, walkVars, stray>>

\* ... which may fail, or never run because the leader died.
EnableResendFails ==
    /\ removing
    /\ faults < MaxFaults
    /\ faults' = faults + 1
    /\ removing' = FALSE
    /\ stray' = (stray \/ disabled)
    /\ UNCHANGED <<tableVars, taskVars, up, reruns, walkVars>>

\* Rows S are no longer running and not among the ten most recent of all
\* stations; nothing but the rows changes.
RemoveOldAsyncTasks(S) ==
    /\ up # {}
    /\ \A w \in S : tasks[w].status # "running"
    /\ Drop(S)
    /\ stray' = (stray \/ (disabled /\ \E w \in S : ~Live(w)))
    /\ UNCHANGED <<tableVars, disabled, nodeVars, walkVars>>

-----------------------------------------------------------------------------
(* Rows of the station come, go and change (module DlsMessages). *)

NotRanged(w) == pc[w] \in {"flag", "insert", "range"}

\* Walks that have yet to read the range of ids no longer find row i.
OutOfRange(i) == due' = [w \in Walks |-> IF NotRanged(w) THEN due[w] \ {i} ELSE due[w]]

AddRow ==
    /\ nextId <= MaxId
    /\ rows' = rows \cup {nextId}
    /\ nextId' = nextId + 1
    /\ UNCHANGED <<taskVars, nodeVars, walkVars, stray>>

DeleteRow(i) ==
    /\ i \in rows
    /\ rows' = rows \ {i}
    /\ OutOfRange(i)
    /\ UNCHANGED <<nextId, taskVars, nodeVars, stray, pc, on, lo, hi, batch, got, offset,
                   resent, failed>>

\* Another report of the message sets updated_at.
TouchRow(i) ==
    /\ i \in rows
    /\ \E w \in Walks : NotRanged(w) /\ i \in due[w]
    /\ OutOfRange(i)
    /\ UNCHANGED <<tableVars, taskVars, nodeVars, stray, pc, on, lo, hi, batch, got,
                   offset, resent, failed>>

-----------------------------------------------------------------------------
WalkStep(w) ==
    \/ SetFlag(w)
    \/ UpsertAsyncTask(w)
    \/ GetMinMax(w)
    \/ GetDlsMsgsBatch(w)
    \/ Resend(w)
    \/ UpdateAsyncTask(w)
    \/ Complete(w)
    \/ ClearFlag(w)
    \/ FailClearFlag(w)
    \/ FailStatus(w)

RemoveInactive == \E S \in SUBSET DOMAIN tasks \ {{}} : RemoveAllAsyncTasks(S)

Environment ==
    \/ \E w \in Walks, b \in Brokers : Request(w, b) \/ Rerun(w, b)
    \/ \E w \in Walks :
          ResendFails(w) \/ UpdateAsyncTaskFails(w) \/ StatementFails(w) \/ FailSilently(w)
    \/ \E b \in Brokers : Crash(b) \/ Boot(b) \/ RerunsFail(b)
    \/ RemoveInactive \/ EnableResend \/ EnableResendFails
    \/ \E S \in SUBSET DOMAIN tasks \ {{}} : RemoveOldAsyncTasks(S)
    \/ AddRow
    \/ \E i \in rows : DeleteRow(i) \/ TouchRow(i)

Next == (\E w \in Walks : WalkStep(w)) \/ Environment

Spec == Init /\ [][Next]_vars

\* A walk is a goroutine; a broker that died is started again; the leader's
\* ticker comes round every 15 minutes and its handler runs to its end.
FairSpec ==
    /\ Spec
    /\ \A w \in Walks : WF_vars(WalkStep(w))
    /\ \A b \in Brokers : WF_vars(Boot(b))
    /\ WF_vars(RemoveInactive)
    /\ WF_vars(EnableResend)

-----------------------------------------------------------------------------
(* Properties. *)

\* A walk that reports success has resent, or logged an error for, every row
\* that was in the table when its range was read and still is, although rows
\* came and went between its batches, batches were read a second time after a
\* failed UpdateAsyncTask and other walks ran at the same time.
CompletedCoversAll ==
    \A w \in Walks : pc[w] = "done" => rows \cap due[w] \subseteq resent[w] \cup failed[w]

\* resend_disabled is never left set with nobody to clear it: a walk beyond
\* SetFlag, a task row (which the leader removes together with the flag) or the
\* leader between its two statements.  The exceptions are the failures LeavesFlag,
\* EnableResendFails and RemoveOldAsyncTasks record in stray.
FlagOwned ==
    disabled /\ ~stray =>
        \/ \E w \in Walks : Live(w) /\ pc[w] # "flag"
        \/ DOMAIN tasks # {}
        \/ removing

\* Every walk ends: each successful round of its loop raises minId towards a
\* maxId that was fixed before the loop.
WalksEnd == \A w \in Walks : Live(w) ~> ~Live(w)

\* The station can be resent again in the end, unless one of the failures that
\* leave the flag without an owner happened.
FlagCleared == disabled ~> (~disabled \/ stray)

-----------------------------------------------------------------------------
(* The strengthenings that make FlagOwned inductive. *)

\* A walk that has yet to set the flag, or has just cleared it on failure, is no
\* owner, and neither is its task row: another walk may have set the flag since.
FlagHasOwner ==
    disabled /\ ~stray =>
        \/ \E w \in Walks :
              /\ pc[w] \notin {"flag", "failStatus"}
              /\ Live(w) \/ w \in DOMAIN tasks
        \/ removing

\* A task row belongs to a walk that came past UpsertAsyncTask.
TasksStarted == \A w \in DOMAIN tasks : pc[w] \notin {"free", "flag", "insert"}
=============================================================================
