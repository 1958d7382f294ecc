---------------------------- MODULE TieredStorage ----------------------------
(***************************************************************************)
(* Storage tiering: a message that leaves the local store of its station is *)
(* published to the work-queue stream $memphis_tiered_storage; on every    *)
(* broker one goroutine pulls from that stream into tieredStorageMsgsMap   *)
(* and another one, on a ticker, uploads the whole map to S3, station by   *)
(* station, and then acks what the map holds.  tieredStorageMapLock keeps  *)
(* the two apart.  A failed upload keeps the map for the next tick; a      *)
(* crash loses it and the durable consumer delivers again.                 *)
(***************************************************************************)
EXTENDS Naturals

CONSTANTS
    Brokers,
    Replicas,    \* brokers whose store evicts the station's messages
    Tenants,
    Global,      \* the tenant $memphis
    GlobalDir,   \* the folder name "global" it is given in the bucket
    Stations,
    Messages,    \* messages that may be evicted
    MaxDeliver,  \* MaxDeliver of the durable consumer
    MaxFaults,   \* bound on failures and forced redeliveries
    MaxChanges   \* bound on changes of the integration caches

Message == [tenant : Tenants, station : Stations, part : 1..99, seq : 1..99]

ASSUME TieredAssumption ==
    /\ Replicas \subseteq Brokers
    /\ Messages \subseteq Message
    /\ GlobalDir \notin Tenants
    /\ {MaxDeliver, MaxFaults, MaxChanges} \subseteq Nat

\* A partition of a station is a JetStream stream of the tenant's account.
StreamOf(m) == [tenant |-> m.tenant, station |-> m.station, part |-> m.part]
Streams == {StreamOf(m) : m \in Messages}

\* The header msg-id: the stream's name <station>$<part> and the sequence number
\* written one after the other, without the tenant.
MsgId(m) == <<m.station, IF m.seq < 10 THEN 10 * m.part + m.seq ELSE 100 * m.part + m.seq>>
MsgIds == {MsgId(m) : m \in Messages}

VARIABLES
    evicted,   \* messages each replica's store has removed
    window,    \* msg-ids the stream still remembers (Duplicates, one minute)
    stream,    \* messages in the tiered storage stream
    deliv,     \* delivery count of each
    s3,        \* tenants with an s3 integration in each broker's cache
    map,       \* tieredStorageMsgsMap of each broker
    pc,        \* the upload goroutine: waiting for its tick, uploading, acking
    todo,      \* tenants flushMapToTier2Storage has yet to visit
    left,      \* streams uploadToS3Storage has yet to visit
    alias,     \* the variable tenantName of uploadToS3Storage
    faults,    \* failures so far
    changes,   \* cache changes so far
    due,       \* history: messages evicted while their tenant had an integration
    uploaded,  \* history: messages written to S3
    excused,   \* history: messages passed over as their tenant lost its integration
    reentered, \* history: messages the stream took in a second time
    again      \* history: messages written to S3 a second time

sourceVars == <<evicted, window, due, reentered>>
queueVars  == <<stream, deliv>>
flushVars  == <<pc, todo, left, alias>>
envVars    == <<s3, faults, changes>>
uploadVars == <<uploaded, again>>
vars == <<sourceVars, queueVars, map, flushVars, envVars, uploadVars, excused>>

TypeOK ==
    /\ evicted \in [Brokers -> SUBSET Messages]
    /\ window \subseteq MsgIds
    /\ stream \subseteq due
    /\ deliv \in [Messages -> 0..MaxDeliver]
    /\ s3 \in [Brokers -> SUBSET Tenants]
    /\ map \in [Brokers -> SUBSET Messages]
    /\ pc \in [Brokers -> {"wait", "flush", "ack"}]
    /\ todo \in [Brokers -> SUBSET Tenants]
    /\ left \in [Brokers -> SUBSET Streams]
    /\ alias \in [Brokers -> Tenants \cup {Global, GlobalDir}]
    /\ \A b \in Brokers :
          /\ pc[b] # "flush" => todo[b] = {} /\ left[b] = {}
          /\ pc[b] # "wait" => map[b] # {}
    /\ faults \in 0..MaxFaults
    /\ changes \in 0..MaxChanges
    /\ due \subseteq Messages
    /\ {uploaded, excused, reentered, again} \subseteq SUBSET Messages

Init ==
    /\ evicted = [b \in Brokers |-> {}]
    /\ window = {} /\ due = {}
    /\ stream = {}
    /\ deliv = [m \in Messages |-> 0]
    /\ s3 = [b \in Brokers |-> Tenants]
    /\ map = [b \in Brokers |-> {}]
    /\ pc = [b \in Brokers |-> "wait"]
    /\ todo = [b \in Brokers |-> {}]
    /\ left = [b \in Brokers |-> {}]
    /\ alias = [b \in Brokers |-> Global]
    /\ faults = 0 /\ changes = 0
    /\ uploaded = {} /\ excused = {} /\ reentered = {} /\ again = {}

-----------------------------------------------------------------------------
(* sendToTier2Storage, and the tiered storage stream. *)

Evict(b, m) ==
    /\ b \in Replicas
    /\ m \notin evicted[b]
    /\ evicted' = [evicted EXCEPT ![b] = @ \cup {m}]
    /\ UNCHANGED <<map, flushVars, envVars, uploadVars, excused>>

\* The tenant has no integration: the message is not tiered.
EvictUntiered(b, m) ==
    /\ m.tenant \notin s3[b]
    /\ Evict(b, m)
    /\ UNCHANGED <<window, due, reentered, queueVars>>

\* The stream takes the message in as a new one.
EvictToTier2(b, m) ==
    /\ m.tenant \in s3[b]
    /\ MsgId(m) \notin window
    /\ Evict(b, m)
    /\ due' = due \cup {m}
    /\ reentered' = IF m \in due THEN reentered \cup {m} ELSE reentered
    /\ window' = window \cup {MsgId(m)}
    /\ stream' = stream \cup {m}
    /\ deliv' = [deliv EXCEPT ![m] = IF m \in stream THEN @ ELSE 0]

\* Mutant of EvictDuplicate: the stream takes the message in all the same.
MutNoDedup(b, m) ==
    /\ m.tenant \in s3[b]
    /\ MsgId(m) \in window
    /\ Evict(b, m)
    /\ due' = due \cup {m}
    /\ stream' = stream \cup {m}
    /\ deliv' = [deliv EXCEPT ![m] = IF m \in stream THEN @ ELSE 0]
    /\ UNCHANGED <<window, reentered>>

\* The stream drops a message whose msg-id it has seen, such as the one another
\* replica sent for the same message.
EvictDuplicate(b, m) ==
    /\ m.tenant \in s3[b]
    /\ MsgId(m) \in window
    /\ Evict(b, m)
    /\ due' = due \cup {m}
    /\ UNCHANGED <<window, reentered, queueVars>>

WindowExpires(id) ==
    /\ id \in window
    /\ window' = window \ {id}
    /\ UNCHANGED <<evicted, due, reentered, queueVars, map, flushVars, envVars, uploadVars, excused>>

-----------------------------------------------------------------------------
(* ConsumeTieredStorageMsgs: from the stream into the map. *)

Held(m) == \E b \in Brokers : m \in map[b]

\* storeInTieredStorageMap waits for the lock while a flush is under way.
Deliver(b, m) ==
    /\ m \in stream
    /\ deliv[m] < MaxDeliver
    /\ pc[b] = "wait"
    /\ deliv' = [deliv EXCEPT ![m] = @ + 1]
    /\ map' = [map EXCEPT ![b] = @ \cup {m}]
    /\ UNCHANGED <<sourceVars, stream, flushVars, s3, changes, uploadVars, excused>>

Consume(b, m) ==
    /\ ~Held(m)
    /\ Deliver(b, m)
    /\ UNCHANGED faults

\* AckWait (twice the upload interval) expired while some map holds m.
AckWaitExpires(b, m) ==
    /\ Held(m)
    /\ faults < MaxFaults
    /\ Deliver(b, m)
    /\ faults' = faults + 1

\* The message came after the five seconds of the fetch: nobody takes it.
LateReply(m) ==
    /\ m \in stream
    /\ deliv[m] < MaxDeliver
    /\ faults < MaxFaults
    /\ deliv' = [deliv EXCEPT ![m] = @ + 1]
    /\ faults' = faults + 1
    /\ UNCHANGED <<sourceVars, stream, map, flushVars, s3, changes, uploadVars, excused>>

-----------------------------------------------------------------------------
(* uploadMsgsToTier2Storage. *)

Of(b, t) == {m \in map[b] : m.tenant = t}
In(b, k) == {m \in map[b] : StreamOf(m) = k}

Tick(b) ==
    /\ pc[b] = "wait"
    /\ map[b] # {}
    /\ pc' = [pc EXCEPT ![b] = "flush"]
    /\ todo' = [todo EXCEPT ![b] = {m.tenant : m \in map[b]}]
    /\ UNCHANGED <<sourceVars, queueVars, map, left, alias, envVars, uploadVars, excused>>

\* flushMapToTier2Storage is between two tenants.
NextTenant(b, t) ==
    /\ pc[b] = "flush"
    /\ left[b] = {}
    /\ t \in todo[b]
    /\ todo' = [todo EXCEPT ![b] = @ \ {t}]

SkipTenant(b, t) ==
    /\ NextTenant(b, t)
    /\ t \notin s3[b]
    /\ excused' = excused \cup Of(b, t)
    /\ UNCHANGED <<sourceVars, queueVars, map, pc, left, alias, envVars, uploadVars>>

\* uploadToS3Storage is called for tenant t.
EnterTenant(b, t) ==
    /\ NextTenant(b, t)
    /\ t \in s3[b]
    /\ left' = [left EXCEPT ![b] = {StreamOf(m) : m \in Of(b, t)}]
    /\ alias' = [alias EXCEPT ![b] = t]
    /\ UNCHANGED <<sourceVars, queueVars, map, pc, envVars, uploadVars, excused>>

\* The cache is looked up again for every stream, by the variable tenantName,
\* which names a folder from the first message of $memphis on.
UploadStream(b, k) ==
    /\ k \in left[b]
    /\ alias[b] \in s3[b]
    /\ left' = [left EXCEPT ![b] = @ \ {k}]
    /\ alias' = [alias EXCEPT ![b] = IF @ = Global THEN GlobalDir ELSE @]
    /\ uploaded' = uploaded \cup In(b, k)
    /\ again' = again \cup (uploaded \cap In(b, k))
    /\ UNCHANGED <<sourceVars, queueVars, map, pc, todo, envVars, excused>>

PassOverStream(b, k) ==
    /\ k \in left[b]
    /\ alias[b] \notin s3[b]
    /\ left' = [left EXCEPT ![b] = @ \ {k}]
    /\ excused' = IF k.tenant \in s3[b] THEN excused ELSE excused \cup In(b, k)
    /\ UNCHANGED <<sourceVars, queueVars, map, pc, todo, alias, envVars, uploadVars>>

\* Mutant of UploadFails: the error is logged and the tick goes on to the acks.
MutAckAfterError(b, k) ==
    /\ k \in left[b]
    /\ alias[b] \in s3[b]
    /\ faults < MaxFaults
    /\ faults' = faults + 1
    /\ pc' = [pc EXCEPT ![b] = "ack"]
    /\ todo' = [todo EXCEPT ![b] = {}]
    /\ left' = [left EXCEPT ![b] = {}]
    /\ UNCHANGED <<sourceVars, queueVars, map, alias, s3, changes, uploadVars, excused>>

\* Bad credentials or a failed upload: the tick is over, the map stays.
UploadFails(b, k) ==
    /\ k \in left[b]
    /\ alias[b] \in s3[b]
    /\ faults < MaxFaults
    /\ faults' = faults + 1
    /\ pc' = [pc EXCEPT ![b] = "wait"]
    /\ todo' = [todo EXCEPT ![b] = {}]
    /\ left' = [left EXCEPT ![b] = {}]
    /\ UNCHANGED <<sourceVars, queueVars, map, alias, s3, changes, uploadVars, excused>>

FlushDone(b) ==
    /\ pc[b] = "flush"
    /\ todo[b] = {} /\ left[b] = {}
    /\ pc' = [pc EXCEPT ![b] = "ack"]
    /\ UNCHANGED <<sourceVars, queueVars, map, todo, left, alias, envVars, uploadVars, excused>>

\* Mutant of Ack: the map is cleared and nothing is acked.
MutClearOnly(b, m) ==
    /\ pc[b] = "ack"
    /\ m \in map[b]
    /\ map' = [map EXCEPT ![b] = @ \ {m}]
    /\ pc' = [pc EXCEPT ![b] = IF map[b] = {m} THEN "wait" ELSE "ack"]
    /\ UNCHANGED <<sourceVars, queueVars, todo, left, alias, envVars, uploadVars, excused>>

\* Everything in the map is acked and deleted, whether it was uploaded or not.
Ack(b, m) ==
    /\ pc[b] = "ack"
    /\ m \in map[b]
    /\ stream' = stream \ {m}
    /\ map' = [map EXCEPT ![b] = @ \ {m}]
    /\ pc' = [pc EXCEPT ![b] = IF map[b] = {m} THEN "wait" ELSE "ack"]
    /\ UNCHANGED <<sourceVars, deliv, todo, left, alias, envVars, uploadVars, excused>>

\* Mutant of Crash: the map is lost and the goroutine goes on with its acks.
MutKeepPc(b) ==
    /\ map[b] # {}
    /\ faults < MaxFaults
    /\ faults' = faults + 1
    /\ map' = [map EXCEPT ![b] = {}]
    /\ UNCHANGED <<sourceVars, queueVars, flushVars, s3, changes, uploadVars, excused>>

\* The broker restarts: the map is gone, the caches are read from the database.
Crash(b) ==
    /\ map[b] # {}
    /\ faults < MaxFaults
    /\ faults' = faults + 1
    /\ map' = [map EXCEPT ![b] = {}]
    /\ pc' = [pc EXCEPT ![b] = "wait"]
    /\ todo' = [todo EXCEPT ![b] = {}]
    /\ left' = [left EXCEPT ![b] = {}]
    /\ UNCHANGED <<sourceVars, queueVars, alias, s3, changes, uploadVars, excused>>

\* ListenForIntegrationsUpdateEvents: every broker hears of a change by itself,
\* also in the middle of a flush.
CacheDetails(b, t) ==
    /\ changes < MaxChanges
    /\ changes' = changes + 1
    /\ s3' = [s3 EXCEPT ![b] = IF t \in @ THEN @ \ {t} ELSE @ \cup {t}]
    /\ UNCHANGED <<sourceVars, queueVars, map, flushVars, faults, uploadVars, excused>>

-----------------------------------------------------------------------------
ConsumerStep(b) == \E m \in Messages : Consume(b, m)

UploaderStep(b) ==
    \/ Tick(b)
    \/ \E t \in Tenants : SkipTenant(b, t) \/ EnterTenant(b, t)
    \/ \E k \in Streams : UploadStream(b, k) \/ PassOverStream(b, k)
    \/ FlushDone(b)
    \/ \E m \in Messages : Ack(b, m)

Environment ==
    \/ \E b \in Brokers, m \in Messages :
          EvictUntiered(b, m) \/ EvictToTier2(b, m) \/ EvictDuplicate(b, m)
          \/ AckWaitExpires(b, m)
    \/ \E id \in MsgIds : WindowExpires(id)
    \/ \E m \in Messages : LateReply(m)
    \/ \E b \in Brokers : Crash(b) \/ \E k \in Streams : UploadFails(b, k)
    \/ \E b \in Brokers, t \in Tenants : CacheDetails(b, t)

Next == (\E b \in Brokers : ConsumerStep(b) \/ UploaderStep(b)) \/ Environment

Spec == Init /\ [][Next]_vars

\* The two goroutines of a broker are endless loops, one on a timer.
FairSpec ==
    Spec /\ \A b \in Brokers : WF_vars(ConsumerStep(b)) /\ WF_vars(UploaderStep(b))

-----------------------------------------------------------------------------
(* Properties. *)

\* A message that leaves the local store of a station whose tenant has an s3
\* integration is waiting in the tiered storage stream or was uploaded, or its
\* tenant's integration was gone when a flush came to it: whatever crashed,
\* failed or was redelivered, uploadMsgsToTier2Storage acks nothing else.
EvictedIsUploaded == due \ stream \subseteq uploaded \cup excused

\* Without failures a message is written to S3 once, although every replica sends
\* it: the exception is a replica that lags by more than the stream's window.
UploadedOnce == faults = 0 => again \subseteq reentered

\* With fewer faults than MaxDeliver, the durable consumer never gives up on a
\* message that no map holds.
NeverAbandoned ==
    MaxFaults < MaxDeliver =>
        \A m \in stream : deliv[m] = MaxDeliver => Held(m)

\* The work-queue stream, the maps and the flushes keep what storage tiering
\* promises: every step of a broker takes messages over, writes or waives some that
\* were taken over, releases one that was written or waived, or changes nothing
\* that can be seen from outside.
Promise == INSTANCE Tiering WITH
    taken <- due, queued <- stream, stored <- uploaded, waived <- excused
ImplementsTiering == Promise!Spec

\* Every message leaves the tiered storage stream in the end.
StreamDrains == \A m \in Messages : m \in stream ~> m \notin stream

-----------------------------------------------------------------------------
(* What the proofs of EvictedIsUploaded and NeverAbandoned need. *)

DistinctIds == \A m, n \in Messages : MsgId(m) = MsgId(n) => m = n

OneGlobalStream ==
    \A m, n \in Messages :
        m.tenant = Global /\ n.tenant = Global => StreamOf(m) = StreamOf(n)

\* What a flush has passed in its map is uploaded or excused.
FlushProgress ==
    \A b \in Brokers : \A m \in map[b] :
        \/ pc[b] = "wait"
        \/ m.tenant \in todo[b]
        \/ StreamOf(m) \in left[b]
        \/ m \in uploaded \cup excused

\* The streams left belong to the tenant tenantName stands for.
AliasIsTenant == \A b \in Brokers : \A k \in left[b] : alias[b] = k.tenant

\* Every delivery but the current one is explained by a fault.
DeliveriesExplained ==
    \A m \in stream : deliv[m] <= faults \/ (Held(m) /\ deliv[m] <= faults + 1)

\* A map holds only messages that the stream took in.
MapIsDue == \A b \in Brokers : map[b] \subseteq due

\* The stream remembers ids of messages that were due.
WindowIsDue == \A m \in Messages : MsgId(m) \in window => m \in due
=============================================================================
