------------------------- MODULE TieredStorageProofs -------------------------
(* What holds of TieredStorage for every number of brokers, tenants and       *)
(* messages, and for every bound.                                             *)
EXTENDS TieredStorage, TLAPS

\* A message knows its tenant and so does its stream.
LEMMA StreamTenant ==
    ASSUME NEW m \in Messages
    PROVE  m.tenant \in Tenants /\ StreamOf(m) \in Streams /\ StreamOf(m).tenant = m.tenant
BY TieredAssumption DEF Message, Streams, StreamOf

\* Every step keeps the state well typed: in particular an upload goroutine that
\* is not in a flush has no tenant or stream left to visit, and one that flushes
\* or acks has something in its map.
THEOREM TypeCorrect == Spec => []TypeOK
<1> USE DEF sourceVars, queueVars, flushVars, envVars, uploadVars
<1>1. Init => TypeOK
  BY TieredAssumption DEF Init, TypeOK
<1>2. TypeOK /\ [Next]_vars => TypeOK'
  <2> SUFFICES ASSUME TypeOK, [Next]_vars PROVE TypeOK'
    OBVIOUS
  <2> USE TieredAssumption DEF TypeOK
  <2>1. CASE UNCHANGED vars
    BY <2>1 DEF vars
  <2>2. ASSUME NEW b \in Brokers, NEW m \in Messages,
               EvictUntiered(b, m) \/ EvictDuplicate(b, m) PROVE TypeOK'
    BY <2>2 DEF EvictUntiered, EvictDuplicate, Evict
  <2>3. ASSUME NEW b \in Brokers, NEW m \in Messages, EvictToTier2(b, m) PROVE TypeOK'
    <3>1. window' \subseteq MsgIds
      BY <2>3 DEF EvictToTier2, MsgIds
    <3>2. evicted' \in [Brokers -> SUBSET Messages]
      BY <2>3 DEF EvictToTier2, Evict
    <3>3. deliv' \in [Messages -> 0..MaxDeliver]
      BY <2>3 DEF EvictToTier2
    <3> QED
      BY <2>3, <3>1, <3>2, <3>3 DEF EvictToTier2, Evict
  <2>4. ASSUME NEW id \in MsgIds, WindowExpires(id) PROVE TypeOK'
    BY <2>4 DEF WindowExpires
  <2>5. ASSUME NEW b \in Brokers, NEW m \in Messages,
               Consume(b, m) \/ AckWaitExpires(b, m) PROVE TypeOK'
    BY <2>5 DEF Consume, AckWaitExpires, Deliver
  <2>6. ASSUME NEW m \in Messages, LateReply(m) PROVE TypeOK'
    BY <2>6 DEF LateReply
  <2>7. ASSUME NEW b \in Brokers, Tick(b) PROVE TypeOK'
    <3>1. {m.tenant : m \in map[b]} \subseteq Tenants
      BY StreamTenant
    <3> QED
      BY <2>7, <3>1 DEF Tick
  <2>8. ASSUME NEW b \in Brokers, NEW t \in Tenants, SkipTenant(b, t) PROVE TypeOK'
    BY <2>8 DEF SkipTenant, NextTenant, Of
  <2>9. ASSUME NEW b \in Brokers, NEW t \in Tenants, EnterTenant(b, t) PROVE TypeOK'
    <3>1. {StreamOf(m) : m \in Of(b, t)} \subseteq Streams
      BY StreamTenant DEF Of
    <3> QED
      BY <2>9, <3>1 DEF EnterTenant, NextTenant
  <2>10. ASSUME NEW b \in Brokers, NEW k \in Streams,
                UploadStream(b, k) \/ PassOverStream(b, k) PROVE TypeOK'
    <3>1. In(b, k) \subseteq Messages
      BY DEF In
    <3>2. left' \in [Brokers -> SUBSET Streams]
      BY <2>10 DEF UploadStream, PassOverStream
    <3>3. alias' \in [Brokers -> Tenants \cup {Global, GlobalDir}]
      BY <2>10 DEF UploadStream, PassOverStream
    <3> QED
      BY <2>10, <3>1, <3>2, <3>3 DEF UploadStream, PassOverStream
  <2>11. ASSUME NEW b \in Brokers, NEW k \in Streams, UploadFails(b, k) PROVE TypeOK'
    BY <2>11 DEF UploadFails
  <2>12. ASSUME NEW b \in Brokers, FlushDone(b) PROVE TypeOK'
    BY <2>12 DEF FlushDone
  <2>13. ASSUME NEW b \in Brokers, NEW m \in Messages, Ack(b, m) PROVE TypeOK'
    BY <2>13 DEF Ack
  <2>14. ASSUME NEW b \in Brokers, Crash(b) PROVE TypeOK'
    BY <2>14 DEF Crash
  <2>15. ASSUME NEW b \in Brokers, NEW t \in Tenants, CacheDetails(b, t) PROVE TypeOK'
    BY <2>15 DEF CacheDetails
  <2> QED
    BY <2>1, <2>2, <2>3, <2>4, <2>5, <2>6, <2>7, <2>8, <2>9, <2>10, <2>11, <2>12,
       <2>13, <2>14, <2>15 DEF Next, ConsumerStep, UploaderStep, Environment
<1> QED
  BY <1>1, <1>2, PTL DEF Spec

-----------------------------------------------------------------------------
(* No message is lost on its way to S3, provided that msg-ids tell messages    *)
(* apart and that $memphis has one stream: the two cases the runs               *)
(* tiered_msg_id and tiered_global show to fail.                                *)

Inv == TypeOK /\ FlushProgress /\ AliasIsTenant /\ WindowIsDue /\ EvictedIsUploaded

\* tenantName is replaced by the folder name only when nothing is left of $memphis.
LEMMA LastOfGlobal ==
    ASSUME OneGlobalStream, TypeOK, AliasIsTenant, NEW b \in Brokers, NEW k \in left[b],
           alias[b] = Global
    PROVE  left[b] \ {k} = {}
<1> SUFFICES ASSUME NEW j \in left[b] PROVE j = k
  OBVIOUS
<1>1. PICK m \in Messages : j = StreamOf(m)
  BY DEF TypeOK, Streams
<1>2. PICK n \in Messages : k = StreamOf(n)
  BY DEF TypeOK, Streams
<1>3. m.tenant = Global /\ n.tenant = Global
  BY <1>1, <1>2, StreamTenant DEF AliasIsTenant
<1> QED
  BY <1>1, <1>2, <1>3 DEF OneGlobalStream

\* The steps of the upload goroutine: what they pass over is uploaded or excused.
LEMMA FlushStep ==
    ASSUME OneGlobalStream, Inv, TypeOK', NEW b \in Brokers, UploaderStep(b)
    PROVE  Inv'
<1> USE DEF Inv, sourceVars, queueVars, flushVars, envVars, uploadVars
<1>1. CASE Tick(b)
  BY <1>1 DEF Tick, TypeOK, FlushProgress, AliasIsTenant, WindowIsDue, EvictedIsUploaded
<1>2. ASSUME NEW t \in Tenants, SkipTenant(b, t) PROVE Inv'
  BY <1>2 DEF SkipTenant, NextTenant, Of, TypeOK, FlushProgress, AliasIsTenant,
              WindowIsDue, EvictedIsUploaded
<1>3. ASSUME NEW t \in Tenants, EnterTenant(b, t) PROVE Inv'
  <2>1. AliasIsTenant'
    <3> SUFFICES ASSUME NEW c \in Brokers, NEW k \in left'[c] PROVE alias'[c] = k.tenant
      BY DEF AliasIsTenant
    <3>1. CASE c = b
      <4>1. PICK m \in Of(b, t) : k = StreamOf(m)
        BY <1>3, <3>1 DEF EnterTenant, TypeOK
      <4>2. m \in Messages /\ m.tenant = t
        BY DEF Of, TypeOK
      <4> QED
        BY <1>3, <3>1, <4>1, <4>2, StreamTenant DEF EnterTenant, TypeOK
    <3>2. CASE c # b
      BY <1>3, <3>2 DEF EnterTenant, TypeOK, AliasIsTenant
    <3> QED
      BY <3>1, <3>2
  <2>2. FlushProgress'
    <3> SUFFICES ASSUME NEW c \in Brokers, NEW m \in map[c]
                 PROVE \/ pc[c] = "wait" \/ m.tenant \in todo'[c]
                       \/ StreamOf(m) \in left'[c] \/ m \in uploaded \cup excused
      BY <1>3 DEF EnterTenant, NextTenant, FlushProgress
    <3>1. CASE c = b /\ m.tenant = t
      BY <1>3, <3>1 DEF EnterTenant, Of, TypeOK
    <3>2. CASE ~(c = b /\ m.tenant = t)
      BY <1>3, <3>2 DEF EnterTenant, NextTenant, TypeOK, FlushProgress
    <3> QED
      BY <3>1, <3>2
  <2> QED
    BY <1>3, <2>1, <2>2 DEF EnterTenant, NextTenant, WindowIsDue, EvictedIsUploaded
<1>4. ASSUME NEW k \in Streams, UploadStream(b, k) PROVE Inv'
  <2>1. AliasIsTenant'
    <3>1. CASE alias[b] = Global
      BY <1>4, <3>1, LastOfGlobal DEF UploadStream, TypeOK, AliasIsTenant
    <3>2. CASE alias[b] # Global
      BY <1>4, <3>2 DEF UploadStream, TypeOK, AliasIsTenant
    <3> QED
      BY <3>1, <3>2
  <2>2. FlushProgress'
    BY <1>4 DEF UploadStream, In, TypeOK, FlushProgress
  <2> QED
    BY <1>4, <2>1, <2>2 DEF UploadStream, WindowIsDue, EvictedIsUploaded
<1>5. ASSUME NEW k \in Streams, PassOverStream(b, k) PROVE Inv'
  <2>1. k.tenant \notin s3[b]
    BY <1>5 DEF PassOverStream, AliasIsTenant
  <2>2. FlushProgress' /\ AliasIsTenant'
    BY <1>5, <2>1 DEF PassOverStream, In, TypeOK, FlushProgress, AliasIsTenant
  <2> QED
    BY <1>5, <2>2 DEF PassOverStream, WindowIsDue, EvictedIsUploaded
<1>6. CASE FlushDone(b)
  BY <1>6 DEF FlushDone, TypeOK, FlushProgress, AliasIsTenant, WindowIsDue,
              EvictedIsUploaded
<1>7. ASSUME NEW m \in Messages, Ack(b, m) PROVE Inv'
  <2>1. m \in uploaded \cup excused
    BY <1>7 DEF Ack, TypeOK, FlushProgress
  <2>2. FlushProgress' /\ AliasIsTenant'
    BY <1>7 DEF Ack, TypeOK, FlushProgress, AliasIsTenant
  <2> QED
    BY <1>7, <2>1, <2>2 DEF Ack, WindowIsDue, EvictedIsUploaded
<1> QED
  BY <1>1, <1>2, <1>3, <1>4, <1>5, <1>6, <1>7 DEF UploaderStep

\* Inv is inductive.
LEMMA InvHolds ==
    ASSUME DistinctIds, OneGlobalStream
    PROVE  Spec => []Inv
<1> USE DEF sourceVars, queueVars, flushVars, envVars, uploadVars
<1>1. Init /\ TypeOK => Inv
  BY DEF Init, Inv, FlushProgress, AliasIsTenant, WindowIsDue, EvictedIsUploaded
<1>2. Inv /\ TypeOK' /\ [Next]_vars => Inv'
  <2> SUFFICES ASSUME Inv, TypeOK', [Next]_vars PROVE Inv'
    OBVIOUS
  <2> USE DEF Inv
  <2>1. CASE UNCHANGED vars
    BY <2>1 DEF vars, FlushProgress, AliasIsTenant, WindowIsDue, EvictedIsUploaded
  <2>2. ASSUME NEW b \in Brokers, NEW m \in Messages,
               EvictUntiered(b, m) \/ EvictToTier2(b, m) \/ EvictDuplicate(b, m)
        PROVE Inv'
    <3>1. FlushProgress' /\ AliasIsTenant'
      BY <2>2 DEF EvictUntiered, EvictToTier2, EvictDuplicate, Evict, FlushProgress,
                  AliasIsTenant
    <3>2. WindowIsDue'
      BY <2>2 DEF EvictUntiered, EvictToTier2, EvictDuplicate, WindowIsDue, DistinctIds
    <3>3. EvictedIsUploaded'
      BY <2>2 DEF EvictUntiered, EvictToTier2, EvictDuplicate, Evict, WindowIsDue,
                  EvictedIsUploaded
    <3> QED
      BY <3>1, <3>2, <3>3
  <2>3. ASSUME NEW id \in MsgIds, WindowExpires(id) PROVE Inv'
    BY <2>3 DEF WindowExpires, FlushProgress, AliasIsTenant, WindowIsDue, EvictedIsUploaded
  <2>4. ASSUME NEW b \in Brokers, NEW m \in Messages,
               Consume(b, m) \/ AckWaitExpires(b, m) PROVE Inv'
    BY <2>4 DEF Consume, AckWaitExpires, Deliver, TypeOK, FlushProgress, AliasIsTenant,
                WindowIsDue, EvictedIsUploaded
  <2>5. ASSUME NEW m \in Messages, LateReply(m) PROVE Inv'
    BY <2>5 DEF LateReply, FlushProgress, AliasIsTenant, WindowIsDue, EvictedIsUploaded
  <2>6. ASSUME NEW b \in Brokers, UploaderStep(b) PROVE Inv'
    BY <2>6, FlushStep
  <2>7. ASSUME NEW b \in Brokers, NEW k \in Streams, UploadFails(b, k) PROVE Inv'
    BY <2>7 DEF UploadFails, TypeOK, FlushProgress, AliasIsTenant, WindowIsDue,
                EvictedIsUploaded
  <2>8. ASSUME NEW b \in Brokers, Crash(b) PROVE Inv'
    BY <2>8 DEF Crash, TypeOK, FlushProgress, AliasIsTenant, WindowIsDue,
                EvictedIsUploaded
  <2>9. ASSUME NEW b \in Brokers, NEW t \in Tenants, CacheDetails(b, t) PROVE Inv'
    BY <2>9 DEF CacheDetails, FlushProgress, AliasIsTenant, WindowIsDue,
                EvictedIsUploaded
  <2> QED
    BY <2>1, <2>2, <2>3, <2>4, <2>5, <2>6, <2>7, <2>8, <2>9
       DEF Next, ConsumerStep, Environment
<1> QED
  BY <1>1, <1>2, TypeCorrect, PTL DEF Spec

\* A message that leaves the local store of a station with an integration is in
\* the tiered storage stream, or uploaded, or excused: for every number of brokers
\* and replicas, every order of crashes, failed uploads and redeliveries.
THEOREM EvictedIsUploadedHolds ==
    ASSUME DistinctIds, OneGlobalStream
    PROVE  Spec => []EvictedIsUploaded
<1>1. Inv => EvictedIsUploaded
  BY DEF Inv
<1> QED
  BY <1>1, InvHolds, PTL

-----------------------------------------------------------------------------
(* TieredStorage implements Tiering. *)

LEMMA MapIsDueHolds == Spec => []MapIsDue
<1> USE DEF sourceVars, queueVars, flushVars, envVars, uploadVars
<1>1. Init => MapIsDue
  BY DEF Init, MapIsDue
<1>2. TypeOK /\ MapIsDue /\ [Next]_vars => MapIsDue'
  <2> SUFFICES ASSUME TypeOK, MapIsDue, [Next]_vars PROVE MapIsDue'
    OBVIOUS
  <2>1. CASE UNCHANGED vars
    BY <2>1 DEF vars, MapIsDue
  <2>2. ASSUME NEW b \in Brokers, NEW m \in Messages,
               EvictUntiered(b, m) \/ EvictToTier2(b, m) \/ EvictDuplicate(b, m)
        PROVE MapIsDue'
    BY <2>2 DEF EvictUntiered, EvictToTier2, EvictDuplicate, Evict, MapIsDue
  <2>3. ASSUME NEW b \in Brokers, NEW m \in Messages,
               Consume(b, m) \/ AckWaitExpires(b, m)
        PROVE MapIsDue'
    BY <2>3 DEF Consume, AckWaitExpires, Deliver, TypeOK, MapIsDue
  <2>4. ASSUME NEW b \in Brokers, UploaderStep(b) PROVE MapIsDue'
    BY <2>4 DEF UploaderStep, Tick, SkipTenant, EnterTenant, NextTenant, UploadStream,
                PassOverStream, FlushDone, Ack, TypeOK, MapIsDue
  <2>5. CASE Environment
    BY <2>2, <2>3, <2>5 DEF Environment, WindowExpires, LateReply, Crash, UploadFails,
                            CacheDetails, TypeOK, MapIsDue
  <2> QED
    BY <2>1, <2>3, <2>4, <2>5 DEF Next, ConsumerStep
<1> QED
  BY <1>1, <1>2, TypeCorrect, PTL DEF Spec

\* Every step of the goroutines, the stream and the failures maps to a step of
\* Tiering or to none, provided that msg-ids tell messages apart and that $memphis
\* has one stream: what a broker acks was written or waived, and what it writes
\* was taken over.
THEOREM ImplementsTieringHolds ==
    ASSUME DistinctIds, OneGlobalStream
    PROVE  Spec => ImplementsTiering
<1> USE DEF sourceVars, queueVars, flushVars, envVars, uploadVars
<1>1. Init => Promise!Init
  BY DEF Init, Promise!Init
<1>2. Inv /\ MapIsDue /\ [Next]_vars => [Promise!Next]_(Promise!vars)
  <2> SUFFICES ASSUME Inv, MapIsDue, [Next]_vars
               PROVE Promise!Next \/ UNCHANGED Promise!vars
    OBVIOUS
  <2>1. CASE UNCHANGED vars
    BY <2>1 DEF vars, Promise!vars
  <2>2. ASSUME NEW b \in Brokers, NEW m \in Messages, EvictToTier2(b, m)
        PROVE Promise!Next
    BY <2>2 DEF EvictToTier2, Evict, Promise!Next, Promise!Take
  <2>3. ASSUME NEW b \in Brokers, NEW m \in Messages,
               EvictUntiered(b, m) \/ EvictDuplicate(b, m)
        PROVE UNCHANGED Promise!vars
    BY <2>3 DEF EvictUntiered, EvictDuplicate, Evict, Inv, WindowIsDue, Promise!vars
  <2>4. ASSUME NEW b \in Brokers, NEW m \in Messages,
               Consume(b, m) \/ AckWaitExpires(b, m)
        PROVE UNCHANGED Promise!vars
    BY <2>4 DEF Consume, AckWaitExpires, Deliver, Promise!vars
  <2>5. ASSUME NEW b \in Brokers, NEW t \in Tenants, SkipTenant(b, t)
        PROVE Promise!Next
    <3>1. Of(b, t) \in SUBSET due
      BY DEF Of, MapIsDue
    <3> QED
      BY <2>5, <3>1 DEF SkipTenant, Promise!Next, Promise!Waive
  <2>6. ASSUME NEW b \in Brokers, NEW k \in Streams, UploadStream(b, k)
        PROVE Promise!Next
    <3>1. In(b, k) \in SUBSET due
      BY DEF In, MapIsDue
    <3> QED
      BY <2>6, <3>1 DEF UploadStream, Promise!Next, Promise!Store
  <2>7. ASSUME NEW b \in Brokers, NEW k \in Streams, PassOverStream(b, k)
        PROVE Promise!Next \/ UNCHANGED Promise!vars
    <3>1. In(b, k) \in SUBSET due
      BY DEF In, MapIsDue
    <3> QED
      BY <2>7, <3>1 DEF PassOverStream, Promise!Next, Promise!Waive, Promise!vars
  <2>8. ASSUME NEW b \in Brokers, NEW m \in Messages, Ack(b, m)
        PROVE Promise!Next \/ UNCHANGED Promise!vars
    <3>1. m \in uploaded \cup excused
      BY <2>8 DEF Ack, Inv, TypeOK, FlushProgress
    <3> QED
      BY <2>8, <3>1 DEF Ack, Promise!Next, Promise!Release, Promise!vars
  <2>9. ASSUME NEW b \in Brokers,
               \/ Tick(b) \/ FlushDone(b) \/ Crash(b)
               \/ \E t \in Tenants : EnterTenant(b, t) \/ CacheDetails(b, t)
               \/ \E k \in Streams : UploadFails(b, k)
        PROVE UNCHANGED Promise!vars
    BY <2>9 DEF Tick, FlushDone, Crash, EnterTenant, CacheDetails, UploadFails, Promise!vars
  <2>10. CASE \/ \E id \in MsgIds : WindowExpires(id)
              \/ \E m \in Messages : LateReply(m)
    BY <2>10 DEF WindowExpires, LateReply, Promise!vars
  <2> QED
    BY <2>1, <2>2, <2>3, <2>4, <2>5, <2>6, <2>7, <2>8, <2>9, <2>10
       DEF Next, ConsumerStep, UploaderStep, Environment
<1> QED
  BY <1>1, <1>2, InvHolds, MapIsDueHolds, PTL DEF Spec, ImplementsTiering, Promise!Spec

\* With fewer faults than MaxDeliver, the durable consumer of the tiered storage
\* stream never gives up on a message that no map holds.
THEOREM NeverAbandonedHolds == Spec => []NeverAbandoned
<1> USE DEF sourceVars, queueVars, flushVars, envVars, uploadVars
<1>1. Init /\ TypeOK => DeliveriesExplained
  BY DEF Init, DeliveriesExplained
<1>2. TypeOK /\ DeliveriesExplained /\ [Next]_vars => DeliveriesExplained'
  <2> SUFFICES ASSUME TypeOK, DeliveriesExplained, [Next]_vars PROVE DeliveriesExplained'
    OBVIOUS
  <2> USE TieredAssumption DEF TypeOK, DeliveriesExplained, Held
  <2>1. CASE UNCHANGED vars
    BY <2>1 DEF vars
  <2>2. ASSUME NEW b \in Brokers, NEW m \in Messages,
               EvictUntiered(b, m) \/ EvictToTier2(b, m) \/ EvictDuplicate(b, m)
        PROVE DeliveriesExplained'
    BY <2>2 DEF EvictUntiered, EvictToTier2, EvictDuplicate, Evict
  <2>3. ASSUME NEW id \in MsgIds, WindowExpires(id) PROVE DeliveriesExplained'
    BY <2>3 DEF WindowExpires
  <2>4. ASSUME NEW b \in Brokers, NEW m \in Messages, Consume(b, m)
        PROVE DeliveriesExplained'
    BY <2>4 DEF Consume, Deliver
  <2>5. ASSUME NEW b \in Brokers, NEW m \in Messages, AckWaitExpires(b, m)
        PROVE DeliveriesExplained'
    BY <2>5 DEF AckWaitExpires, Deliver
  <2>6. ASSUME NEW m \in Messages, LateReply(m) PROVE DeliveriesExplained'
    BY <2>6 DEF LateReply
  <2>7. ASSUME NEW b \in Brokers, UploaderStep(b) PROVE DeliveriesExplained'
    <3>1. ASSUME NEW m \in Messages, Ack(b, m) PROVE DeliveriesExplained'
      BY <3>1 DEF Ack
    <3>2. CASE Tick(b) \/ FlushDone(b)
      BY <3>2 DEF Tick, FlushDone
    <3>3. ASSUME NEW t \in Tenants, SkipTenant(b, t) \/ EnterTenant(b, t)
          PROVE DeliveriesExplained'
      BY <3>3 DEF SkipTenant, EnterTenant
    <3>4. ASSUME NEW k \in Streams, UploadStream(b, k) \/ PassOverStream(b, k)
          PROVE DeliveriesExplained'
      BY <3>4 DEF UploadStream, PassOverStream
    <3> QED
      BY <2>7, <3>1, <3>2, <3>3, <3>4 DEF UploaderStep
  <2>8. ASSUME NEW b \in Brokers, NEW k \in Streams, UploadFails(b, k)
        PROVE DeliveriesExplained'
    BY <2>8 DEF UploadFails
  <2>9. ASSUME NEW b \in Brokers, Crash(b) PROVE DeliveriesExplained'
    BY <2>9 DEF Crash
  <2>10. ASSUME NEW b \in Brokers, NEW t \in Tenants, CacheDetails(b, t)
         PROVE DeliveriesExplained'
    BY <2>10 DEF CacheDetails
  <2> QED
    BY <2>1, <2>2, <2>3, <2>4, <2>5, <2>6, <2>7, <2>8, <2>9, <2>10
       DEF Next, ConsumerStep, Environment
<1>3. TypeOK /\ DeliveriesExplained => NeverAbandoned
  BY TieredAssumption DEF TypeOK, DeliveriesExplained, NeverAbandoned
<1> QED
  BY <1>1, <1>2, <1>3, TypeCorrect, PTL DEF Spec

-----------------------------------------------------------------------------
(* A message is written once while nothing fails. *)

\* A message is in one map at most: the consumer delivers only what no map holds.
HeldOnce == \A b, c \in Brokers : \A m \in map[b] \cap map[c] : b = c

\* A message that was written, and that the stream did not take in again, is gone
\* from the stream or waits for its ack behind what the flush still has to visit.
WrittenIsPassed ==
    \A m \in uploaded \ reentered :
        /\ m \in stream => Held(m)
        /\ \A b \in Brokers :
              m \in map[b] => pc[b] # "wait" /\ m.tenant \notin todo[b] /\ StreamOf(m) \notin left[b]

\* A flush does not come back to the tenant whose streams it visits.
LeftIsVisited == \A b \in Brokers : \A k \in left[b] : k.tenant \notin todo[b]

OnceInv == faults = 0 => HeldOnce /\ WrittenIsPassed /\ again \subseteq reentered

\* As long as nothing fails a message is written to S3 once, unless the stream's
\* window had forgotten it when a slow replica sent it: for every number of brokers
\* and replicas, whatever their caches say of the integration.
THEOREM UploadedOnceHolds == Spec => []UploadedOnce
<1> DEFINE Once == OnceInv /\ LeftIsVisited /\ uploaded \subseteq due
<1> USE DEF sourceVars, queueVars, flushVars, envVars, uploadVars
<1>1. Init => Once
  BY DEF Init, OnceInv, HeldOnce, WrittenIsPassed, LeftIsVisited
<1>2. TypeOK /\ MapIsDue /\ Once /\ [Next]_vars => Once'
  <2> SUFFICES ASSUME TypeOK, MapIsDue, Once, [Next]_vars PROVE Once'
    OBVIOUS
  <2> USE TieredAssumption DEF TypeOK, OnceInv
  <2>1. CASE UNCHANGED vars
    BY <2>1 DEF vars, HeldOnce, WrittenIsPassed, LeftIsVisited, Held
  <2>2. ASSUME NEW b \in Brokers, NEW m \in Messages,
               EvictUntiered(b, m) \/ EvictDuplicate(b, m)
        PROVE Once'
    BY <2>2 DEF EvictUntiered, EvictDuplicate, Evict, HeldOnce, WrittenIsPassed, LeftIsVisited, Held
  <2>3. ASSUME NEW b \in Brokers, NEW m \in Messages, EvictToTier2(b, m) PROVE Once'
    <3>1. /\ due' = due \cup {m} /\ stream' = stream \cup {m}
          /\ reentered' = IF m \in due THEN reentered \cup {m} ELSE reentered
          /\ UNCHANGED <<map, pc, todo, left, faults, uploaded, again>>
      BY <2>3 DEF EvictToTier2, Evict
    <3>2. m \notin uploaded \ reentered'
      BY <3>1
    <3> QED
      BY <3>1, <3>2 DEF HeldOnce, WrittenIsPassed, LeftIsVisited, Held
  <2>4. ASSUME NEW b \in Brokers, NEW m \in Messages, Consume(b, m) PROVE Once'
    <3>1. /\ ~Held(m) /\ m \in stream /\ map' = [map EXCEPT ![b] = @ \cup {m}]
          /\ UNCHANGED <<stream, pc, todo, left, faults, uploaded, again, due, reentered>>
      BY <2>4 DEF Consume, Deliver
    <3>2. ASSUME faults = 0 PROVE m \notin uploaded \ reentered
      BY <3>1, <3>2 DEF WrittenIsPassed
    <3>3. ASSUME faults = 0 PROVE HeldOnce'
      BY <3>1, <3>3 DEF HeldOnce, Held
    <3>4. ASSUME faults = 0 PROVE WrittenIsPassed'
      BY <3>1, <3>2, <3>4 DEF WrittenIsPassed, Held
    <3> QED
      BY <3>1, <3>3, <3>4 DEF LeftIsVisited
  <2>5. /\ \A b \in Brokers, m \in Messages : AckWaitExpires(b, m) => Once'
        /\ \A m \in Messages : LateReply(m) => Once'
        /\ \A b \in Brokers : Crash(b) => Once'
        /\ \A b \in Brokers, k \in Streams : UploadFails(b, k) => Once'
    <3>1. ASSUME faults' # 0, LeftIsVisited', UNCHANGED <<uploaded, due>> PROVE Once'
      BY <3>1
    <3>2. ASSUME NEW b \in Brokers, NEW m \in Messages, AckWaitExpires(b, m)
          PROVE faults' # 0 /\ LeftIsVisited' /\ UNCHANGED <<uploaded, due>>
      BY <3>2 DEF AckWaitExpires, Deliver, LeftIsVisited
    <3>3. ASSUME NEW m \in Messages, LateReply(m)
          PROVE faults' # 0 /\ LeftIsVisited' /\ UNCHANGED <<uploaded, due>>
      BY <3>3 DEF LateReply, LeftIsVisited
    <3>4. ASSUME NEW b \in Brokers, Crash(b)
          PROVE faults' # 0 /\ LeftIsVisited' /\ UNCHANGED <<uploaded, due>>
      BY <3>4 DEF Crash, LeftIsVisited
    <3>5. ASSUME NEW b \in Brokers, NEW k \in Streams, UploadFails(b, k)
          PROVE faults' # 0 /\ LeftIsVisited' /\ UNCHANGED <<uploaded, due>>
      BY <3>5 DEF UploadFails, LeftIsVisited
    <3> QED
      BY <3>1, <3>2, <3>3, <3>4, <3>5
  <2>6. ASSUME NEW b \in Brokers, Tick(b) PROVE Once'
    BY <2>6 DEF Tick, HeldOnce, WrittenIsPassed, LeftIsVisited, Held
  <2>7. ASSUME NEW b \in Brokers, NEW t \in Tenants, SkipTenant(b, t) PROVE Once'
    BY <2>7 DEF SkipTenant, NextTenant, HeldOnce, WrittenIsPassed, LeftIsVisited, Held
  <2>8. ASSUME NEW b \in Brokers, NEW t \in Tenants, EnterTenant(b, t) PROVE Once'
    <3>1. /\ t \in todo[b] /\ todo' = [todo EXCEPT ![b] = @ \ {t}]
          /\ left' = [left EXCEPT ![b] = {StreamOf(m) : m \in Of(b, t)}]
          /\ UNCHANGED <<map, stream, pc, faults, uploaded, again, due, reentered>>
      BY <2>8 DEF EnterTenant, NextTenant
    <3>2. ASSUME NEW m \in map[b], StreamOf(m) \in left'[b] PROVE m.tenant = t
      <4>1. PICK n \in Of(b, t) : StreamOf(m) = StreamOf(n)
        BY <3>1, <3>2
      <4>2. n.tenant = t /\ n \in Messages /\ m \in Messages
        BY DEF Of
      <4> QED
        BY <4>1, <4>2, StreamTenant
    <3>3. ASSUME faults = 0 PROVE WrittenIsPassed'
      BY <3>1, <3>2, <3>3 DEF WrittenIsPassed, Held
    <3>4. LeftIsVisited'
      BY <3>1, StreamTenant DEF LeftIsVisited, Of
    <3> QED
      BY <3>1, <3>3, <3>4 DEF HeldOnce
  <2>9. ASSUME NEW b \in Brokers, NEW k \in Streams, UploadStream(b, k) PROVE Once'
    <3>1. /\ k \in left[b] /\ left' = [left EXCEPT ![b] = @ \ {k}]
          /\ uploaded' = uploaded \cup In(b, k)
          /\ again' = again \cup (uploaded \cap In(b, k))
          /\ UNCHANGED <<map, stream, pc, todo, faults, due, reentered>>
      BY <2>9 DEF UploadStream
    <3>2. In(b, k) \subseteq map[b] /\ \A m \in In(b, k) : m \in Messages /\ StreamOf(m) = k
      BY DEF In
    <3>3. pc[b] = "flush" /\ \A m \in In(b, k) : m.tenant = k.tenant
      BY <3>1, <3>2, StreamTenant
    <3>4. ASSUME faults = 0 PROVE again' \subseteq reentered'
      BY <3>1, <3>2, <3>4 DEF WrittenIsPassed
    <3>5. ASSUME faults = 0 PROVE WrittenIsPassed'
      <4> SUFFICES ASSUME NEW m \in uploaded' \ reentered
                   PROVE  /\ m \in stream => Held(m)
                          /\ \A c \in Brokers :
                                m \in map[c] => /\ pc[c] # "wait" /\ m.tenant \notin todo[c]
                                                /\ StreamOf(m) \notin left'[c]
        BY <3>1 DEF WrittenIsPassed, Held
      <4>1. CASE m \in uploaded
        BY <3>1, <3>5, <4>1 DEF WrittenIsPassed
      <4>2. CASE m \in In(b, k)
        <5>1. Held(m) /\ \A c \in Brokers : m \in map[c] => c = b
          BY <3>2, <3>5, <4>2 DEF Held, HeldOnce
        <5>2. m.tenant \notin todo[b]
          BY <3>1, <3>3, <4>2 DEF LeftIsVisited
        <5> QED
          BY <3>1, <3>2, <3>3, <4>2, <5>1, <5>2
      <4> QED
        BY <3>1, <4>1, <4>2
    <3>6. uploaded' \subseteq due'
      BY <3>1, <3>2 DEF MapIsDue
    <3> QED
      BY <3>1, <3>4, <3>5, <3>6 DEF HeldOnce, LeftIsVisited
  <2>10. ASSUME NEW b \in Brokers, NEW k \in Streams, PassOverStream(b, k) PROVE Once'
    BY <2>10 DEF PassOverStream, HeldOnce, WrittenIsPassed, LeftIsVisited, Held
  <2>11. ASSUME NEW b \in Brokers, FlushDone(b) PROVE Once'
    BY <2>11 DEF FlushDone, HeldOnce, WrittenIsPassed, LeftIsVisited, Held
  <2>12. ASSUME NEW b \in Brokers, NEW m \in Messages, Ack(b, m) PROVE Once'
    <3>1. /\ pc[b] = "ack" /\ m \in map[b] /\ stream' = stream \ {m}
          /\ map' = [map EXCEPT ![b] = @ \ {m}]
          /\ pc' = [pc EXCEPT ![b] = IF map[b] = {m} THEN "wait" ELSE "ack"]
          /\ UNCHANGED <<todo, left, faults, uploaded, again, due, reentered>>
      BY <2>12 DEF Ack
    <3>2. ASSUME faults = 0 PROVE HeldOnce' /\ WrittenIsPassed'
      BY <3>1, <3>2 DEF HeldOnce, WrittenIsPassed, LeftIsVisited, Held
    <3> QED
      BY <3>1, <3>2 DEF LeftIsVisited
  <2>13. ASSUME NEW b \in Brokers, NEW t \in Tenants, CacheDetails(b, t) PROVE Once'
    BY <2>13 DEF CacheDetails, HeldOnce, WrittenIsPassed, LeftIsVisited, Held
  <2>14. ASSUME NEW id \in MsgIds, WindowExpires(id) PROVE Once'
    BY <2>14 DEF WindowExpires, HeldOnce, WrittenIsPassed, LeftIsVisited, Held
  <2> HIDE DEF Once, TypeOK, OnceInv, sourceVars, queueVars, flushVars, envVars, uploadVars
  <2>15. ASSUME NEW b \in Brokers, ConsumerStep(b) \/ UploaderStep(b) PROVE Once'
    BY <2>4, <2>6, <2>7, <2>8, <2>9, <2>10, <2>11, <2>12, <2>15 DEF ConsumerStep, UploaderStep
  <2>16. CASE Environment
    BY <2>2, <2>3, <2>5, <2>13, <2>14, <2>16 DEF Environment
  <2> QED
    BY <2>1, <2>15, <2>16 DEF Next
<1>3. OnceInv => UploadedOnce
  BY DEF OnceInv, UploadedOnce
<1> QED
  BY <1>1, <1>2, <1>3, TypeCorrect, MapIsDueHolds, PTL DEF Spec
=============================================================================
