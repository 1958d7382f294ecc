--------------------------- MODULE ResendAllProofs ---------------------------
(* What holds of ResendAll for every number of brokers, walks and rows, and   *)
(* for every bound.                                                           *)
EXTENDS ResendAll, FiniteSetTheorems, TLAPS

FlagType ==
    /\ pc \in [Walks -> PCs]
    /\ disabled \in BOOLEAN /\ removing \in BOOLEAN /\ stray \in BOOLEAN
    /\ DOMAIN tasks \subseteq Walks

Inv == FlagType /\ TasksStarted /\ FlagHasOwner

\* An UPDATE of task rows neither adds nor removes one.
LEMMA UpdateKeepsRows ==
    ASSUME NEW w \in Walks, UpdateAsyncTask(w) \/ Complete(w) \/ FailStatus(w)
    PROVE  DOMAIN tasks' = DOMAIN tasks
BY DEF UpdateAsyncTask, Complete, FailStatus,
       UpdateStatusAsyncTask, UpdateMetaData

\* The steps of a walk hand the flag on, or clear it.
LEMMA WalkStepKeeps ==
    ASSUME Inv, NEW w \in Walks, WalkStep(w)
    PROVE  Inv'
<1> USE DEF Inv, FlagType, TasksStarted, FlagHasOwner, Live, Ended, PCs, Goto,
            tableVars, taskVars, nodeVars
<1>1. CASE SetFlag(w)
  BY <1>1 DEF SetFlag
<1>2. CASE UpsertAsyncTask(w)
  BY <1>2 DEF UpsertAsyncTask
<1>3. CASE GetMinMax(w)
  BY <1>3 DEF GetMinMax
<1>4. CASE GetDlsMsgsBatch(w)
  BY <1>4 DEF GetDlsMsgsBatch
<1>5. CASE Resend(w)
  BY <1>5 DEF Resend
<1>6. CASE UpdateAsyncTask(w)
  BY <1>6, UpdateKeepsRows DEF UpdateAsyncTask
<1>7. CASE Complete(w)
  BY <1>7, UpdateKeepsRows DEF Complete
<1>8. CASE ClearFlag(w)
  BY <1>8 DEF ClearFlag
<1>9. CASE FailClearFlag(w)
  BY <1>9 DEF FailClearFlag
<1>10. CASE FailStatus(w)
  BY <1>10, UpdateKeepsRows DEF FailStatus
<1> QED
  BY <1>1, <1>2, <1>3, <1>4, <1>5, <1>6, <1>7, <1>8, <1>9, <1>10 DEF WalkStep

\* resend_disabled is never left set with nobody to clear it, except by the
\* failures recorded in stray: for every number of concurrent walks and brokers,
\* and whatever rows of async_tasks the leader removes.
THEOREM FlagOwnedHolds == Spec => []FlagOwned
<1> USE DEF tableVars, taskVars, nodeVars, walkVars
<1>1. Init => Inv
  BY DEF Init, Inv, FlagType, TasksStarted, FlagHasOwner, PCs, Ended
<1>2. Inv /\ [Next]_vars => Inv'
  <2> SUFFICES ASSUME Inv, [Next]_vars PROVE Inv'
    OBVIOUS
  <2> USE DEF Inv, FlagType, TasksStarted, FlagHasOwner, Live, Ended, PCs
  <2>1. CASE UNCHANGED vars
    BY <2>1 DEF vars
  <2>2. ASSUME NEW w \in Walks, WalkStep(w) PROVE Inv'
    BY <2>2, WalkStepKeeps
  <2>3. ASSUME NEW w \in Walks, NEW b \in Brokers, Request(w, b) \/ Rerun(w, b)
        PROVE Inv'
    BY <2>3 DEF Request, Rerun, Begin, Goto
  <2>4. ASSUME NEW w \in Walks, ResendFails(w) \/ UpdateAsyncTaskFails(w) PROVE Inv'
    BY <2>4 DEF ResendFails, UpdateAsyncTaskFails, Goto
  <2>5. ASSUME NEW w \in Walks, StatementFails(w) PROVE Inv'
    BY <2>5 DEF StatementFails
  <2>6. ASSUME NEW w \in Walks, FailSilently(w) PROVE Inv'
    BY <2>6 DEF FailSilently, LeavesFlag
  <2>7. ASSUME NEW b \in Brokers, Crash(b) PROVE Inv'
    <3> DEFINE dying == {w \in Walks : Live(w) /\ on[w] = b}
    <3>1. /\ pc' = [w \in Walks |-> IF w \in dying THEN "dead" ELSE pc[w]]
          /\ stray' = (stray \/ LeavesFlag(dying))
          /\ UNCHANGED <<disabled, tasks, removing>>
      BY <2>7 DEF Crash
    <3>2. FlagType' /\ TasksStarted'
      BY <3>1 DEF LeavesFlag
    <3>3. FlagHasOwner'
      <4> SUFFICES ASSUME disabled, ~stray', ~removing
                   PROVE \E w \in Walks : /\ pc'[w] \notin {"flag", "failStatus"}
                                          /\ Live(w)' \/ w \in DOMAIN tasks
        BY <3>1
      <4>1. ~stray /\ ~LeavesFlag(dying)
        BY <3>1
      <4>2. PICK w \in Walks : /\ pc[w] \notin {"flag", "failStatus"}
                               /\ Live(w) \/ w \in DOMAIN tasks
        BY <4>1
      <4>3. w \in dying => w \in DOMAIN tasks
        BY <4>1, <4>2 DEF LeavesFlag
      <4> QED
        BY <3>1, <4>2, <4>3
    <3> QED
      BY <3>2, <3>3
  <2>8. ASSUME NEW b \in Brokers, Boot(b) \/ RerunsFail(b) PROVE Inv'
    BY <2>8 DEF Boot, RerunsFail
  <2>9. ASSUME NEW S \in SUBSET DOMAIN tasks, RemoveAllAsyncTasks(S) PROVE Inv'
    BY <2>9 DEF RemoveAllAsyncTasks, Drop
  <2>10. CASE EnableResend
    BY <2>10 DEF EnableResend
  <2>11. CASE EnableResendFails
    BY <2>11 DEF EnableResendFails
  <2>12. ASSUME NEW S \in SUBSET DOMAIN tasks, RemoveOldAsyncTasks(S) PROVE Inv'
    <3>1. DOMAIN tasks' = DOMAIN tasks \ S /\ UNCHANGED <<pc, disabled, removing>>
      BY <2>12 DEF RemoveOldAsyncTasks, Drop
    <3>2. stray' = (stray \/ (disabled /\ \E w \in S : ~Live(w)))
      BY <2>12 DEF RemoveOldAsyncTasks
    <3> QED
      BY <3>1, <3>2
  <2>13. CASE AddRow \/ \E i \in rows : DeleteRow(i) \/ TouchRow(i)
    BY <2>13 DEF AddRow, DeleteRow, TouchRow
  <2> QED
    BY <2>1, <2>2, <2>3, <2>4, <2>5, <2>6, <2>7, <2>8, <2>9, <2>10, <2>11, <2>12, <2>13
       DEF Next, Environment, RemoveInactive
<1>3. Inv => FlagOwned
  BY DEF Inv, FlagType, FlagHasOwner, FlagOwned
<1> QED
  BY <1>1, <1>2, <1>3, PTL DEF Spec

-----------------------------------------------------------------------------
(* Minima, maxima and batches of ids. *)

\* A set of natural numbers has a least element, which is what Min chooses.
LEMMA MinOf ==
    ASSUME NEW S \in SUBSET Nat, S # {}
    PROVE  Min(S) \in S /\ \A i \in S : Min(S) <= i
<1> DEFINE R == StrictSubsetOrdering(Nat)
           T == {0..i : i \in S}
<1>1. T \subseteq FiniteSubsetsOf(Nat)
  <2> SUFFICES ASSUME NEW i \in S PROVE 0..i \in FiniteSubsetsOf(Nat)
    OBVIOUS
  <2>1. IsFiniteSet(0..i) /\ 0..i \subseteq Nat
    BY FS_Interval
  <2> QED
    BY <2>1 DEF FiniteSubsetsOf
<1>2. T # {}
  OBVIOUS
<1>3. PICK t \in T : \A u \in T : ~(<<u, t>> \in R)
  <2> HIDE DEF R, T
  <2>1. IsWellFoundedOn(R, FiniteSubsetsOf(Nat))
    BY FS_StrictSubsetOrderingWellFounded DEF R
  <2> QED
    BY <2>1, <1>1, <1>2, WFMin
<1>4. PICK m \in S : t = 0..m
  OBVIOUS
<1>5. ASSUME NEW i \in S, i < m PROVE FALSE
  <2>1. ~(<<0..i, 0..m>> \in R)
    BY <1>3, <1>4
  <2>2. 0..i \subseteq 0..m /\ 0..i # 0..m
    BY <1>5
  <2>3. 0..i \in SUBSET Nat /\ 0..m \in SUBSET Nat
    OBVIOUS
  <2> QED
    BY <2>1, <2>2, <2>3 DEF StrictSubsetOrdering
<1>6. \A i \in S : m <= i
  BY <1>5
<1> HIDE DEF R, T
<1>7. \E x \in S : \A y \in S : x =< y
  BY <1>6
<1> QED
  BY <1>7 DEF Min

\* A set of ids has a largest one, which is what Max chooses.
LEMMA MaxOf ==
    ASSUME NEW n \in Nat, NEW S \in SUBSET (0..n), S # {}
    PROVE  Max(S) \in S /\ \A i \in S : i <= Max(S)
<1> DEFINE T == {n - i : i \in S}
<1>1. T \in SUBSET Nat
  OBVIOUS
<1>5. T # {}
  OBVIOUS
<1>2. Min(T) \in T /\ \A t \in T : Min(T) <= t
  BY <1>1, <1>5, MinOf
<1>3. PICK m \in S : Min(T) = n - m
  BY <1>2
<1>4. ASSUME NEW i \in S PROVE i <= m
  <2>1. Min(T) <= n - i
    BY <1>2
  <2> QED
    BY <1>3, <2>1
<1> QED
  BY <1>4 DEF Max

\* A batch takes the ids from the lowest on, leaves none out before its last, and
\* is empty only if there is no id.
LEMMA FirstOfIsPrefix ==
    ASSUME NEW n \in Nat, NEW S \in SUBSET (1..n)
    PROVE  /\ FirstOf(S) \subseteq S
           /\ \A i \in FirstOf(S), k \in S : k < i => k \in FirstOf(S)
           /\ S # {} => FirstOf(S) # {}
<1> DEFINE below(i) == {j \in S : j < i}
<1>1. ASSUME NEW i \in S PROVE IsFiniteSet(below(i)) /\ Cardinality(below(i)) \in Nat
  <2>1. IsFiniteSet(1..n)
    BY FS_Interval
  <2>2. below(i) \in SUBSET (1..n)
    OBVIOUS
  <2> QED
    BY <2>1, <2>2, FS_Subset, FS_CardinalityType
<1>2. ASSUME NEW i \in FirstOf(S), NEW k \in S, k < i PROVE k \in FirstOf(S)
  <2>1. i \in S /\ Cardinality(below(i)) < BatchLimit
    BY <1>2 DEF FirstOf
  <2>2. below(k) \in SUBSET below(i)
    <3>1. ASSUME NEW j \in S, j < k PROVE j < i
      <4>1. j \in Nat /\ k \in Nat /\ i \in Nat
        BY <2>1
      <4> QED
        BY <1>2, <3>1, <4>1
    <3> QED
      BY <3>1
  <2>3. Cardinality(below(k)) <= Cardinality(below(i))
    BY <2>1, <2>2, <1>1, FS_Subset
  <2>4. Cardinality(below(k)) < BatchLimit
    BY <2>1, <2>3, <1>1, ResendAllAssumption
  <2> QED
    BY <2>4 DEF FirstOf
<1>3. ASSUME S # {} PROVE FirstOf(S) # {}
  <2>1. Min(S) \in S /\ \A i \in S : Min(S) <= i
    BY <1>3, MinOf
  <2>2. below(Min(S)) = {}
    <3>1. ASSUME NEW j \in S PROVE ~(j < Min(S))
      <4>1. \A x \in S : x \in Nat
        OBVIOUS
      <4>2. Min(S) <= j
        BY <2>1
      <4>3. j \in Nat /\ Min(S) \in Nat
        BY <2>1, <4>1
      <4> QED
        BY <4>2, <4>3
    <3> QED
      BY <3>1
  <2>3. Cardinality(below(Min(S))) = 0
    BY <2>2, FS_EmptySet
  <2>4. Min(S) \in FirstOf(S)
    BY <2>1, <2>3, ResendAllAssumption DEF FirstOf
  <2> QED
    BY <2>4
<1>4. FirstOf(S) \subseteq S
  BY DEF FirstOf
<1> QED
  BY <1>2, <1>3, <1>4

-----------------------------------------------------------------------------
(* Type correctness. *)

\* There are finitely many task rows, since each takes a step of its own, so that
\* the number of tasks that a booting broker counts is a number.
TypeInv == TypeOK /\ IsFiniteSet(DOMAIN tasks)

\* The state of the walks alone.
WalkType ==
    /\ pc \in [Walks -> PCs]
    /\ on \in [Walks -> Brokers]
    /\ \A w \in Walks : Live(w) => on[w] \in up
    /\ lo \in [Walks -> -1..MaxId]
    /\ hi \in [Walks -> 0..MaxId]
    /\ batch \in [Walks -> SUBSET Ids]
    /\ got \in [Walks -> BOOLEAN]
    /\ offset \in [Walks -> 0..MaxId]
    /\ due \in [Walks -> SUBSET Ids]
    /\ resent \in [Walks -> SUBSET Ids]
    /\ failed \in [Walks -> SUBSET Ids]

\* The tables and the brokers.
StoreType ==
    /\ rows \subseteq 1..(nextId - 1)
    /\ nextId \in 1..(MaxId + 1)
    /\ disabled \in BOOLEAN
    /\ up \subseteq Brokers
    /\ reruns \in [Brokers -> Nat]
    /\ removing \in BOOLEAN
    /\ faults \in 0..MaxFaults
    /\ stray \in BOOLEAN

TaskType ==
    /\ DOMAIN tasks \subseteq Walks
    /\ \A w \in DOMAIN tasks : tasks[w] \in Task
    /\ IsFiniteSet(DOMAIN tasks)

LEMMA TypeParts == TypeInv <=> StoreType /\ TaskType /\ WalkType
BY DEF TypeInv, TypeOK, StoreType, TaskType, WalkType

\* The steps of a walk.
LEMMA WalkStepTypes ==
    ASSUME TypeInv, NEW w \in Walks, WalkStep(w)
    PROVE  TypeInv'
<1> USE ResendAllAssumption
<1>0. StoreType /\ TaskType /\ WalkType
  BY TypeParts
<1> SUFFICES StoreType' /\ TaskType' /\ WalkType'
  BY TypeParts, PTL
<1> USE DEF Goto, Live, Ended, PCs, Ids, tableVars, taskVars, nodeVars
<1>1. CASE SetFlag(w)
  BY <1>0, <1>1 DEF SetFlag, StoreType, TaskType, WalkType
<1>2. CASE UpsertAsyncTask(w)
  <2>1. StoreType' /\ WalkType'
    BY <1>0, <1>2 DEF UpsertAsyncTask, StoreType, WalkType
  <2>2. DOMAIN tasks' = DOMAIN tasks \cup {w}
    BY <1>2 DEF UpsertAsyncTask
  <2>3. [broker |-> on[w], status |-> "running", offset |-> 0] \in Task
    BY <1>0 DEF WalkType, Task
  <2>4. \A v \in DOMAIN tasks' : tasks'[v] \in Task
    BY <1>0, <1>2, <2>3 DEF UpsertAsyncTask, TaskType
  <2>5. IsFiniteSet(DOMAIN tasks')
    BY <1>0, <2>2, FS_AddElement DEF TaskType
  <2> QED
    BY <1>0, <2>1, <2>2, <2>4, <2>5 DEF TaskType
<1>3. CASE GetMinMax(w)
  <2>1. due[w] \in SUBSET Ids
    BY <1>0 DEF WalkType
  <2>2. due[w] # {} => Min(due[w]) \in Ids /\ Max(due[w]) \in Ids
    <3>1. due[w] \in SUBSET Nat /\ due[w] \in SUBSET (0..MaxId)
      BY <2>1
    <3> QED
      BY <2>1, <3>1, MinOf, MaxOf
  <2>3. /\ (IF due[w] = {} THEN 0 ELSE Min(due[w])) - 1 \in -1..MaxId
        /\ (IF due[w] = {} THEN 0 ELSE Max(due[w])) \in 0..MaxId
    BY <2>2
  <2>4. WalkType'
    BY <1>0, <1>3, <2>3 DEF GetMinMax, WalkType
  <2> QED
    BY <1>0, <1>3, <2>4 DEF GetMinMax, StoreType, TaskType
<1>4. CASE GetDlsMsgsBatch(w)
  <2> DEFINE found == FirstOf({i \in rows : lo[w] < i /\ i <= hi[w]})
  <2>1. found \in SUBSET Ids
    <3>1. rows \in SUBSET Ids
      BY <1>0 DEF StoreType
    <3>2. found \subseteq rows
      BY DEF FirstOf
    <3> QED
      BY <3>1, <3>2
  <2> HIDE DEF found
  <2>2. batch' = [batch EXCEPT ![w] = found] /\ got' = [got EXCEPT ![w] = found # {}]
    BY <1>4 DEF GetDlsMsgsBatch, found
  <2>3. WalkType'
    BY <1>0, <1>4, <2>1, <2>2 DEF GetDlsMsgsBatch, WalkType
  <2> QED
    BY <1>0, <1>4, <2>3 DEF GetDlsMsgsBatch, StoreType, TaskType
<1>5. CASE Resend(w)
  <2>1. batch[w] \in SUBSET Nat /\ Min(batch[w]) \in batch[w]
    BY <1>0, <1>5, MinOf DEF WalkType, Resend
  <2>2. Min(batch[w]) \in Ids
    BY <1>0, <2>1 DEF WalkType
  <2>3. WalkType'
    BY <1>0, <1>5, <2>2 DEF Resend, WalkType
  <2> QED
    BY <1>0, <1>5, <2>3 DEF Resend, StoreType, TaskType
<1>6. CASE UpdateAsyncTask(w)
  <2>1. (IF got[w] THEN offset[w] ELSE 0) \in 0..MaxId
    BY <1>0 DEF WalkType
  <2>2. TaskType'
    BY <1>0, <1>6, <2>1 DEF UpdateAsyncTask, UpdateMetaData, TaskType, Task
  <2>3. WalkType'
    BY <1>0, <1>6 DEF UpdateAsyncTask, WalkType
  <2> QED
    BY <1>0, <1>6, <2>2, <2>3 DEF UpdateAsyncTask, StoreType
<1>7. CASE Complete(w)
  <2>1. TaskType'
    BY <1>0, <1>7 DEF Complete, UpdateStatusAsyncTask, TaskType, Task
  <2> QED
    BY <1>0, <1>7, <2>1 DEF Complete, StoreType, WalkType
<1>8. CASE ClearFlag(w)
  BY <1>0, <1>8 DEF ClearFlag, StoreType, TaskType, WalkType
<1>9. CASE FailClearFlag(w)
  BY <1>0, <1>9 DEF FailClearFlag, StoreType, TaskType, WalkType
<1>10. CASE FailStatus(w)
  <2>1. TaskType'
    BY <1>0, <1>10 DEF FailStatus, UpdateStatusAsyncTask, TaskType, Task
  <2> QED
    BY <1>0, <1>10, <2>1 DEF FailStatus, StoreType, WalkType
<1> QED
  BY <1>1, <1>2, <1>3, <1>4, <1>5, <1>6, <1>7, <1>8, <1>9, <1>10 DEF WalkStep

\* The table, the tasks and the walks keep their types whatever fails, stops and
\* starts: in particular a walk that goes on runs on a broker that is up, and a
\* booting broker has a number of tasks to start again.
LEMMA TypeStep ==
    ASSUME TypeInv, [Next]_vars
    PROVE  TypeInv'
<1> USE ResendAllAssumption
<1>0. StoreType /\ TaskType /\ WalkType
  BY TypeParts
<1> SUFFICES StoreType' /\ TaskType' /\ WalkType'
  BY TypeParts, PTL
<1> DEFINE Goal == StoreType' /\ TaskType' /\ WalkType'
<1> USE DEF Goto, Live, Ended, PCs, Ids, tableVars, taskVars, nodeVars, walkVars
<1>1. CASE UNCHANGED vars
  BY <1>0, <1>1 DEF vars, StoreType, TaskType, WalkType
<1>2. ASSUME NEW w \in Walks, WalkStep(w) PROVE Goal
  BY <1>2, WalkStepTypes, TypeParts, PTL
<1>3. ASSUME NEW w \in Walks, NEW b \in Brokers, Request(w, b) \/ Rerun(w, b) PROVE Goal
  <2>1. Begin(w, b) /\ UNCHANGED up
    BY <1>3 DEF Request, Rerun
  <2>2. rows \in SUBSET Ids
    BY <1>0 DEF StoreType
  <2>3. WalkType'
    BY <1>0, <2>1, <2>2 DEF Begin, WalkType
  <2>4. StoreType'
    <3>1. UNCHANGED <<rows, nextId, disabled, up, removing, faults, stray>>
      BY <1>3 DEF Request, Rerun
    <3>2. reruns' \in [Brokers -> Nat]
      BY <1>0, <1>3 DEF Request, Rerun, StoreType
    <3> QED
      BY <1>0, <3>1, <3>2 DEF StoreType
  <2>5. TaskType'
    BY <1>0, <1>3 DEF Request, Rerun, TaskType
  <2> QED
    BY <2>3, <2>4, <2>5
<1>4. ASSUME NEW w \in Walks, ResendFails(w) PROVE Goal
  <2>1. batch[w] \in SUBSET Nat /\ Min(batch[w]) \in batch[w]
    BY <1>0, <1>4, MinOf DEF WalkType, ResendFails
  <2>2. Min(batch[w]) \in Ids
    BY <1>0, <2>1 DEF WalkType
  <2>3. WalkType'
    BY <1>0, <1>4, <2>2 DEF ResendFails, WalkType
  <2> QED
    BY <1>0, <1>4, <2>3 DEF ResendFails, StoreType, TaskType
<1>5. ASSUME NEW w \in Walks, UpdateAsyncTaskFails(w) \/ StatementFails(w) PROVE Goal
  <2>1. CASE UpdateAsyncTaskFails(w)
    BY <1>0, <2>1 DEF UpdateAsyncTaskFails, StoreType, TaskType, WalkType
  <2>2. CASE StatementFails(w)
    BY <1>0, <2>2 DEF StatementFails, StoreType, TaskType, WalkType
  <2> QED
    BY <1>5, <2>1, <2>2
<1>6. ASSUME NEW w \in Walks, FailSilently(w) PROVE Goal
  BY <1>0, <1>6 DEF FailSilently, LeavesFlag, StoreType, TaskType, WalkType
<1>7. ASSUME NEW b \in Brokers, Crash(b) PROVE Goal
  <2>1. StoreType' /\ TaskType'
    BY <1>0, <1>7 DEF Crash, LeavesFlag, StoreType, TaskType
  <2>2. WalkType'
    BY <1>0, <1>7 DEF Crash, WalkType
  <2> QED
    BY <2>1, <2>2
<1>8. ASSUME NEW b \in Brokers, Boot(b) PROVE Goal
  <2> DEFINE own == {w \in DOMAIN tasks : tasks[w].broker = b}
  <2>1. own \in SUBSET DOMAIN tasks /\ IsFiniteSet(DOMAIN tasks)
    BY <1>0 DEF TaskType
  <2>2. Cardinality(own) \in Nat
    <3> HIDE DEF own
    <3> QED
      BY <2>1, FS_Subset, FS_CardinalityType
  <2> HIDE DEF own
  <2>3. reruns' = [reruns EXCEPT ![b] = Cardinality(own)]
    BY <1>8 DEF Boot, own
  <2> QED
    BY <1>0, <1>8, <2>2, <2>3 DEF Boot, StoreType, TaskType, WalkType
<1>9. ASSUME NEW b \in Brokers, RerunsFail(b) PROVE Goal
  BY <1>0, <1>9 DEF RerunsFail, StoreType, TaskType, WalkType
<1>10. ASSUME NEW S \in SUBSET DOMAIN tasks, RemoveAllAsyncTasks(S) \/ RemoveOldAsyncTasks(S)
       PROVE Goal
  <2>1. tasks' = [w \in DOMAIN tasks \ S |-> tasks[w]]
    BY <1>10 DEF RemoveAllAsyncTasks, RemoveOldAsyncTasks, Drop
  <2>2. IsFiniteSet(DOMAIN tasks \ S)
    BY <1>0, FS_Difference DEF TaskType
  <2>3. TaskType'
    BY <1>0, <2>1, <2>2 DEF TaskType
  <2>4. StoreType'
    BY <1>0, <1>10 DEF RemoveAllAsyncTasks, RemoveOldAsyncTasks, StoreType
  <2> QED
    BY <1>0, <1>10, <2>3, <2>4 DEF RemoveAllAsyncTasks, RemoveOldAsyncTasks, WalkType
<1>11. CASE EnableResend \/ EnableResendFails
  <2>1. CASE EnableResend
    BY <1>0, <2>1 DEF EnableResend, StoreType, TaskType, WalkType
  <2>2. CASE EnableResendFails
    <3>1. TaskType' /\ WalkType'
      BY <1>0, <2>2 DEF EnableResendFails, TaskType, WalkType
    <3>2. faults' \in 0..MaxFaults
      BY <1>0, <2>2 DEF EnableResendFails, StoreType
    <3>4. removing' = FALSE /\ UNCHANGED <<rows, nextId, disabled, up, reruns>>
      BY <2>2 DEF EnableResendFails
    <3>3. stray' \in BOOLEAN
      BY <1>0, <2>2 DEF EnableResendFails, StoreType
    <3> QED
      BY <1>0, <3>1, <3>2, <3>3, <3>4 DEF StoreType
  <2> QED
    BY <1>11, <2>1, <2>2
<1>12. CASE AddRow
  BY <1>0, <1>12 DEF AddRow, StoreType, TaskType, WalkType
<1>13. ASSUME NEW i \in rows, DeleteRow(i) \/ TouchRow(i) PROVE Goal
  <2>1. due' \in [Walks -> SUBSET Ids]
    BY <1>0, <1>13 DEF DeleteRow, TouchRow, OutOfRange, WalkType
  <2> QED
    BY <1>0, <1>13, <2>1 DEF DeleteRow, TouchRow, StoreType, TaskType, WalkType
<1> QED
  BY <1>1, <1>2, <1>3, <1>4, <1>5, <1>6, <1>7, <1>8, <1>9, <1>10, <1>11, <1>12, <1>13
     DEF Next, Environment, RemoveInactive

LEMMA TypeInit ==
    ASSUME Init
    PROVE  TypeInv
<1>1. (CHOOSE b \in Brokers : TRUE) \in Brokers
  BY ResendAllAssumption
<1>2. StoreType
  <2>1. nextId \in 1..(MaxId + 1) /\ 0 \in 0..MaxFaults
    BY ResendAllAssumption DEF Init
  <2>2. rows \subseteq 1..(nextId - 1)
    BY ResendAllAssumption DEF Init
  <2>3. reruns \in [Brokers -> Nat]
    BY DEF Init
  <2> QED
    BY <2>1, <2>2, <2>3 DEF Init, StoreType
<1>3. TaskType
  BY FS_EmptySet DEF Init, TaskType
<1>4. WalkType
  BY <1>1, ResendAllAssumption DEF Init, WalkType, Live, Ended, PCs, Ids
<1> QED
  BY <1>2, <1>3, <1>4, TypeParts

\* The state stays well typed.
THEOREM TypeCorrect == Spec => []TypeOK
<1>1. TypeInv => TypeOK
  BY DEF TypeInv
<1> QED
  BY <1>1, TypeInit, TypeStep, PTL DEF Spec

-----------------------------------------------------------------------------
(* What a walk has covered at each of its program points. *)

\* Row i was resent by walk w, or its resend failed and was logged.
Handled(w, i) == i \in resent[w] \cup failed[w]

\* The rows walk w has to handle: those it ranged over that are still there.
Owed(w) == rows \cap due[w]

\* Once the range was read it bounds the rows; what lies at or below minId is
\* handled; within a batch a row is handled, in the batch, or after all of it; an
\* empty batch means that nothing is left.
Covers(w) ==
    /\ pc[w] \in {"fetch", "send"} => \A i \in Owed(w) : i <= hi[w] /\ (i <= lo[w] => Handled(w, i))
    /\ pc[w] = "send" /\ got[w] =>
          \A i \in Owed(w) :
              \/ Handled(w, i)
              \/ i \in batch[w]
              \/ (\A j \in batch[w] : j < i) /\ (batch[w] = {} => offset[w] < i)
    /\ pc[w] = "send" /\ ~got[w] => batch[w] = {} /\ \A i \in Owed(w) : Handled(w, i)
    /\ pc[w] \in {"complete", "enable", "done"} => \A i \in Owed(w) : Handled(w, i)

\* A row that comes later has an id that no walk ranged over.
DueIsOld == \A w \in Walks : due[w] \subseteq 1..(nextId - 1)

CoverInv == TypeInv /\ DueIsOld /\ \A w \in Walks : Covers(w)

\* A walk whose own state stays as it is covers what it covered, if rows it owes
\* only go away.
LEMMA CoversStays ==
    ASSUME NEW v \in Walks, Covers(v), pc'[v] = pc[v], Owed(v)' \subseteq Owed(v),
           lo'[v] = lo[v], hi'[v] = hi[v], batch'[v] = batch[v], got'[v] = got[v],
           offset'[v] = offset[v], resent'[v] = resent[v], failed'[v] = failed[v]
    PROVE  Covers(v)'
BY DEF Covers, Handled

\* A walk that stopped, failed or has not read its range covers nothing yet.
LEMMA CoversElsewhere ==
    ASSUME NEW v \in Walks, pc[v] \notin {"fetch", "send", "complete", "enable", "done"}
    PROVE  Covers(v)
BY DEF Covers

\* One row of the batch was handled, well or badly.
LEMMA CoversRow ==
    ASSUME CoverInv, NEW w \in Walks, pc[w] = "send", batch[w] # {}, pc' = pc,
           offset' = [offset EXCEPT ![w] = Min(batch[w])],
           batch' = [batch EXCEPT ![w] = @ \ {Min(@)}],
           resent[w] \cup failed[w] \cup {Min(batch[w])} \subseteq resent'[w] \cup failed'[w],
           UNCHANGED <<rows, lo, hi, got, due>>
    PROVE  Covers(w)'
<1>1. batch[w] \in SUBSET Ids /\ batch \in [Walks -> SUBSET Ids] /\ offset \in [Walks -> 0..MaxId]
  BY DEF CoverInv, TypeInv, TypeOK
<1>a. PICK m : m = Min(batch[w])
  OBVIOUS
<1>2. m \in batch[w] /\ \A j \in batch[w] : m <= j
  BY <1>1, <1>a, MinOf DEF Ids
<1>3. offset'[w] = m /\ batch'[w] = batch[w] \ {m}
  BY <1>1, <1>a
<1>4. got[w]
  BY DEF CoverInv, Covers
<1>5. \A i \in Owed(w) : Handled(w, i) => Handled(w, i)'
  BY DEF Handled
<1>6. Handled(w, m)'
  BY <1>a DEF Handled
<1>7. Owed(w)' = Owed(w) /\ Owed(w) \subseteq Ids
  BY DEF Owed, CoverInv, TypeInv, TypeOK
<1>8. \A i \in Owed(w) : i <= hi[w] /\ (i <= lo[w] => Handled(w, i))
  BY DEF CoverInv, Covers
<1>9. ASSUME NEW i \in Owed(w)
      PROVE  \/ Handled(w, i)'
             \/ i \in batch'[w]
             \/ (\A j \in batch'[w] : j < i) /\ (batch'[w] = {} => offset'[w] < i)
  <2>1. \/ Handled(w, i)
        \/ i \in batch[w]
        \/ (\A j \in batch[w] : j < i)
    BY <1>4 DEF CoverInv, Covers
  <2>2. CASE Handled(w, i)
    BY <1>5, <2>2
  <2>3. CASE i \in batch[w]
    BY <1>3, <1>6, <2>3
  <2>4. CASE \A j \in batch[w] : j < i
    BY <1>2, <1>3, <2>4
  <2> QED
    BY <2>1, <2>2, <2>3, <2>4
<1> QED
  BY <1>4, <1>5, <1>7, <1>8, <1>9 DEF Covers

\* The steps of a walk.
LEMMA WalkStepCovers ==
    ASSUME CoverInv, NEW w \in Walks, WalkStep(w)
    PROVE  \A v \in Walks : Covers(v)'
<1> SUFFICES ASSUME NEW v \in Walks PROVE Covers(v)'
  OBVIOUS
<1>0. Covers(v) /\ Covers(w) /\ TypeOK /\ DueIsOld
  BY DEF CoverInv, TypeInv
<1>a. CASE v # w
  <2>1. /\ pc'[v] = pc[v] /\ UNCHANGED <<rows, due>>
        /\ lo'[v] = lo[v] /\ hi'[v] = hi[v] /\ batch'[v] = batch[v] /\ got'[v] = got[v]
        /\ offset'[v] = offset[v] /\ resent'[v] = resent[v] /\ failed'[v] = failed[v]
    BY <1>0, <1>a DEF WalkStep, SetFlag, UpsertAsyncTask, GetMinMax, GetDlsMsgsBatch, Resend,
       UpdateAsyncTask, Complete, ClearFlag, FailClearFlag, FailStatus, Goto, TypeOK, tableVars
  <2>2. Owed(v)' = Owed(v)
    BY <2>1 DEF Owed
  <2> QED
    BY <1>0, <2>1, <2>2, CoversStays
<1>b. CASE v = w
  <2> USE <1>b
  <2> USE DEF Goto, tableVars
  <2>1. CASE SetFlag(w) \/ UpsertAsyncTask(w) \/ FailClearFlag(w) \/ FailStatus(w)
    <3>1. pc'[w] \in {"insert", "range", "failStatus", "failed"}
      BY <1>0, <2>1 DEF SetFlag, UpsertAsyncTask, FailClearFlag, FailStatus, TypeOK
    <3> QED
      BY <3>1 DEF Covers
  <2>2. CASE GetMinMax(w)
    <3>1. pc'[w] = "fetch" /\ UNCHANGED <<rows, due, resent, failed>>
      BY <1>0, <2>2 DEF GetMinMax, TypeOK
    <3>2. ASSUME NEW i \in Owed(w) PROVE i <= hi'[w] /\ ~(i <= lo'[w])
      <4>1. due[w] # {} /\ i \in due[w] /\ due[w] \in SUBSET (0..MaxId) /\ due[w] \in SUBSET Nat
        BY <1>0 DEF Owed, TypeOK, Ids
      <4>2. /\ Min(due[w]) \in due[w] /\ Min(due[w]) <= i
            /\ Max(due[w]) \in due[w] /\ i <= Max(due[w])
        BY <4>1, MinOf, MaxOf, ResendAllAssumption
      <4>3. lo'[w] = Min(due[w]) - 1 /\ hi'[w] = Max(due[w])
        BY <1>0, <2>2, <4>1 DEF GetMinMax, TypeOK
      <4> QED
        BY <4>1, <4>2, <4>3
    <3>3. Owed(w)' = Owed(w)
      BY <3>1 DEF Owed
    <3> QED
      BY <3>1, <3>2, <3>3 DEF Covers
  <2>3. CASE GetDlsMsgsBatch(w)
    <3> DEFINE S == {i \in rows : lo[w] < i /\ i <= hi[w]}
               found == FirstOf(S)
    <3>1. S \in SUBSET (1..MaxId)
      <4>1. rows \in SUBSET (1..MaxId)
        <5>1. nextId \in 1..(MaxId + 1) /\ rows \subseteq 1..(nextId - 1) /\ MaxId \in Nat
          BY <1>0, ResendAllAssumption DEF TypeOK
        <5> QED
          BY <5>1
      <4> QED
        BY <4>1
    <3>2. /\ found \subseteq S
          /\ \A i \in found, k \in S : k < i => k \in found
          /\ S # {} => found # {}
      <4> HIDE DEF S
      <4> QED
        BY <3>1, FirstOfIsPrefix, ResendAllAssumption
    <3> HIDE DEF found
    <3>3. /\ pc'[w] = "send" /\ batch'[w] = found /\ got'[w] = (found # {})
          /\ UNCHANGED <<rows, due, lo, hi, offset, resent, failed>>
          /\ pc[w] = "fetch"
      BY <1>0, <2>3 DEF GetDlsMsgsBatch, TypeOK, found
    <3>4. Owed(w)' = Owed(w) /\ \A i \in Owed(w) : Handled(w, i)' <=> Handled(w, i)
      BY <3>3 DEF Owed, Handled
    <3>5. ASSUME NEW i \in Owed(w) PROVE i <= hi[w] /\ (Handled(w, i) \/ i \in S)
      <4>1. i \in rows /\ i \in Nat /\ lo[w] \in Int /\ i <= hi[w] /\ (i <= lo[w] => Handled(w, i))
        BY <1>0, <3>3 DEF Covers, Owed, TypeOK, Ids
      <4> QED
        BY <4>1
    <3>6. ASSUME NEW i \in Owed(w), ~Handled(w, i), i \notin found
          PROVE  \A j \in found : j < i
      BY <3>1, <3>2, <3>5, <3>6
    <3>7. \A i \in Owed(w) : i <= hi[w] /\ (i <= lo[w] => Handled(w, i))
      BY <1>0, <3>3 DEF Covers
    <3>8. found = {} => \A i \in Owed(w) : Handled(w, i)
      BY <3>2, <3>5
    <3> HIDE DEF S
    <3> QED
      BY <3>3, <3>4, <3>6, <3>7, <3>8 DEF Covers
  <2>4. CASE Resend(w)
    <3>1. resent'[w] = resent[w] \cup {Min(batch[w])}
      BY <1>0, <2>4 DEF Resend, TypeOK
    <3> QED
      BY <2>4, <3>1, CoversRow DEF Resend
  <2>5. CASE UpdateAsyncTask(w)
    <3>1. /\ pc[w] = "send" /\ batch[w] = {} /\ lo'[w] = offset[w]
          /\ pc'[w] = IF Finished(w) THEN "complete" ELSE "fetch"
          /\ UNCHANGED <<rows, due, hi, resent, failed>>
          /\ hi[w] \in Int /\ offset[w] \in Int /\ got[w] \in BOOLEAN /\ Owed(w) \subseteq Int
      BY <1>0, <2>5 DEF UpdateAsyncTask, TypeOK, Owed, Ids
    <3>2. Owed(w)' = Owed(w) /\ \A i \in Owed(w) : Handled(w, i)' <=> Handled(w, i)
      BY <3>1 DEF Owed, Handled
    <3>3. \A i \in Owed(w) : i <= hi[w] /\ (Handled(w, i) \/ (got[w] /\ offset[w] < i))
      BY <1>0, <3>1 DEF Covers
    <3>4. CASE Finished(w)
      <4>1. \A i \in Owed(w) : Handled(w, i)
        BY <3>1, <3>3, <3>4 DEF Finished
      <4> QED
        BY <3>1, <3>2, <3>4, <4>1 DEF Covers
    <3>5. CASE ~Finished(w)
      <4>1. pc'[w] = "fetch"
        BY <3>1, <3>5
      <4>2. \A i \in Owed(w) : i <= lo'[w] => Handled(w, i)
        BY <3>1, <3>3
      <4> QED
        BY <3>1, <3>2, <3>3, <4>1, <4>2 DEF Covers
    <3> QED
      BY <3>4, <3>5
  <2>6. CASE Complete(w) \/ ClearFlag(w)
    <3>1. /\ pc[w] \in {"complete", "enable"} /\ pc'[w] \in {"enable", "done"}
          /\ UNCHANGED <<rows, due, resent, failed>>
      BY <1>0, <2>6 DEF Complete, ClearFlag, TypeOK
    <3> QED
      BY <1>0, <3>1 DEF Covers, Owed, Handled
  <2> QED
    BY <2>1, <2>2, <2>3, <2>4, <2>5, <2>6 DEF WalkStep
<1> QED
  BY <1>a, <1>b

\* Rows are added above all ranges and never come back, so that ranges stay old.
LEMMA DueStep ==
    ASSUME CoverInv, [Next]_vars
    PROVE  DueIsOld'
<1>0. TypeOK /\ DueIsOld /\ TypeOK'
  BY TypeStep DEF CoverInv, TypeInv
<1>1. nextId' = nextId \/ nextId' = nextId + 1
  BY DEF Next, Environment, WalkStep, SetFlag, UpsertAsyncTask, GetMinMax, GetDlsMsgsBatch,
     Resend, UpdateAsyncTask, Complete, ClearFlag, FailClearFlag, FailStatus, Request, Rerun,
     ResendFails, UpdateAsyncTaskFails, StatementFails, FailSilently, Crash, Boot, RerunsFail,
     RemoveInactive, RemoveAllAsyncTasks, EnableResend, EnableResendFails, RemoveOldAsyncTasks,
     AddRow, DeleteRow, TouchRow, tableVars, vars
<1>2. \A w \in Walks : due'[w] \subseteq due[w] \cup rows
  BY <1>0, ZenonT(30) DEF Next, Environment, WalkStep, SetFlag, UpsertAsyncTask, GetMinMax, GetDlsMsgsBatch,
     Resend, UpdateAsyncTask, Complete, ClearFlag, FailClearFlag, FailStatus, Request, Rerun, Begin,
     ResendFails, UpdateAsyncTaskFails, StatementFails, FailSilently, Crash, Boot, RerunsFail,
     RemoveInactive, RemoveAllAsyncTasks, EnableResend, EnableResendFails, RemoveOldAsyncTasks,
     AddRow, DeleteRow, TouchRow, OutOfRange, walkVars, vars, TypeOK
<1>3. \A w \in Walks : due[w] \cup rows \subseteq 1..(nextId - 1)
  BY <1>0 DEF DueIsOld, TypeOK
<1>4. 1..(nextId - 1) \subseteq 1..(nextId' - 1)
  <2>1. nextId \in Nat
    BY <1>0, ResendAllAssumption DEF TypeOK
  <2> QED
    BY <1>1, <2>1
<1> QED
  BY <1>2, <1>3, <1>4 DEF DueIsOld

\* A walk that ends with success has handled every row that it ranged over and
\* that is still in the table: for every number of walks at once, rows, batch
\* size and failures.
THEOREM CompletedCoversAllHolds == Spec => []CompletedCoversAll
<1>1. Init => CoverInv
  <2> SUFFICES ASSUME Init PROVE CoverInv
    OBVIOUS
  <2>1. TypeInv
    BY TypeInit
  <2>2. DueIsOld /\ \A w \in Walks : pc[w] = "free"
    BY DEF Init, DueIsOld
  <2> QED
    BY <2>1, <2>2 DEF CoverInv, Covers
<1>2. CoverInv /\ [Next]_vars => CoverInv'
  <2> SUFFICES ASSUME CoverInv, [Next]_vars PROVE CoverInv'
    OBVIOUS
  <2>0. TypeInv' /\ DueIsOld'
    BY TypeStep, DueStep DEF CoverInv
  <2>a. TypeOK /\ DueIsOld /\ \A v \in Walks : Covers(v)
    BY DEF CoverInv, TypeInv
  <2> SUFFICES ASSUME NEW v \in Walks PROVE Covers(v)'
    BY <2>0 DEF CoverInv
  <2> USE DEF tableVars, taskVars, nodeVars, walkVars
  <2>1. CASE UNCHANGED vars
    BY <2>a, <2>1 DEF vars, Covers, Owed, Handled
  <2>2. ASSUME NEW w \in Walks, WalkStep(w) PROVE Covers(v)'
    BY <2>2, WalkStepCovers
  <2>3. ASSUME NEW w \in Walks, NEW b \in Brokers, Request(w, b) \/ Rerun(w, b)
        PROVE Covers(v)'
    <3>1. pc' = [pc EXCEPT ![w] = "flag"] /\ due' = [due EXCEPT ![w] = rows]
      BY <2>3 DEF Request, Rerun, Begin, Goto
    <3>2. UNCHANGED <<rows, lo, hi, batch, got, offset, resent, failed>>
      BY <2>3 DEF Request, Rerun, Begin
    <3>3. CASE v = w
      BY <2>a, <3>1, <3>3 DEF Covers, TypeOK
    <3>4. CASE v # w
      BY <2>a, <3>1, <3>2, <3>4 DEF Covers, Owed, Handled, TypeOK
    <3> QED
      BY <3>3, <3>4
  <2>4. ASSUME NEW w \in Walks, ResendFails(w) PROVE Covers(v)'
    <3>1. CASE v = w
      <4>1. failed'[w] = failed[w] \cup {Min(batch[w])}
        BY <2>a, <2>4 DEF ResendFails, TypeOK
      <4> QED
        BY <2>4, <3>1, <4>1, CoversRow DEF ResendFails
    <3>2. CASE v # w
      <4>1. /\ pc'[v] = pc[v] /\ UNCHANGED <<rows, due>>
            /\ lo'[v] = lo[v] /\ hi'[v] = hi[v] /\ batch'[v] = batch[v] /\ got'[v] = got[v]
            /\ offset'[v] = offset[v] /\ resent'[v] = resent[v] /\ failed'[v] = failed[v]
        BY <2>a, <2>4, <3>2 DEF ResendFails, TypeOK
      <4> QED
        BY <2>a, <4>1, CoversStays DEF Owed
    <3> QED
      BY <3>1, <3>2
  <2>5. ASSUME NEW w \in Walks, UpdateAsyncTaskFails(w) PROVE Covers(v)'
    <3>1. /\ pc[w] = "send" /\ pc' = [pc EXCEPT ![w] = "fetch"]
          /\ UNCHANGED <<rows, due, lo, hi, batch, got, offset, resent, failed>>
      BY <2>5 DEF UpdateAsyncTaskFails, Goto
    <3> QED
      BY <2>a, <3>1 DEF Covers, Owed, Handled, TypeOK
  <2>6. ASSUME NEW w \in Walks, StatementFails(w) \/ FailSilently(w) PROVE Covers(v)'
    <3>1. /\ pc'[v] \in {pc[v], "fail", "failed"}
          /\ UNCHANGED <<rows, due, lo, hi, batch, got, offset, resent, failed>>
      BY <2>a, <2>6 DEF StatementFails, FailSilently, TypeOK
    <3> QED
      BY <2>a, <3>1 DEF Covers, Owed, Handled
  <2>7. ASSUME NEW b \in Brokers, Crash(b) PROVE Covers(v)'
    <3>1. /\ pc'[v] \in {pc[v], "dead"}
          /\ UNCHANGED <<rows, due, lo, hi, batch, got, offset, resent, failed>>
      BY <2>7 DEF Crash
    <3> QED
      BY <2>a, <3>1 DEF Covers, Owed, Handled
  <2>8. CASE \/ \E b \in Brokers : Boot(b) \/ RerunsFail(b)
             \/ RemoveInactive \/ EnableResend \/ EnableResendFails
             \/ \E S \in SUBSET DOMAIN tasks : RemoveOldAsyncTasks(S)
    <3>1. UNCHANGED <<rows, pc, due, lo, hi, batch, got, offset, resent, failed>>
      BY <2>8 DEF Boot, RerunsFail, RemoveInactive, RemoveAllAsyncTasks, EnableResend,
         EnableResendFails, RemoveOldAsyncTasks
    <3> QED
      BY <2>a, <3>1 DEF Covers, Owed, Handled
  <2>9. CASE AddRow
    <3>1. /\ rows' = rows \cup {nextId}
          /\ UNCHANGED <<pc, due, lo, hi, batch, got, offset, resent, failed>>
      BY <2>9 DEF AddRow
    <3>2. Owed(v)' = Owed(v)
      BY <2>a, <3>1 DEF Owed, DueIsOld, TypeOK
    <3> QED
      BY <2>a, <3>1, <3>2, CoversStays
  <2>10. ASSUME NEW i \in rows, DeleteRow(i) \/ TouchRow(i) PROVE Covers(v)'
    <3>1. rows' \subseteq rows /\ due'[v] \subseteq due[v]
      BY <2>10 DEF DeleteRow, TouchRow, OutOfRange
    <3>2. UNCHANGED <<pc, lo, hi, batch, got, offset, resent, failed>>
      BY <2>10 DEF DeleteRow, TouchRow
    <3>3. Owed(v)' \subseteq Owed(v)
      BY <3>1 DEF Owed
    <3> QED
      BY <2>a, <3>2, <3>3, CoversStays
  <2> QED
    BY <2>1, <2>2, <2>3, <2>4, <2>5, <2>6, <2>7, <2>8, <2>9, <2>10
       DEF Next, Environment
<1>3. CoverInv => CompletedCoversAll
  BY DEF CoverInv, Covers, CompletedCoversAll, Owed, Handled
<1> QED
  BY <1>1, <1>2, <1>3, PTL DEF Spec
=============================================================================
