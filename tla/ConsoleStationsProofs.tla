----------------------- MODULE ConsoleStationsProofs -----------------------
(***************************************************************************)
(* What holds of the pages of stations for any sets of stations, schemas,  *)
(* fields and tags and any bounds, and of all pages side by side.          *)
(***************************************************************************)
EXTENDS SchemaPagesProofs

-----------------------------------------------------------------------------
(* The purge modal. *)

\* The boxes, and those the Enter key would send, were ticked since the modal was opened.
BoxesTicked == purgeData \subseteq ticked /\ (opened => onEnter \subseteq ticked)

PurgeInv == Purge!TypeOK /\ BoxesTicked /\ ~blind

\* Every step of the modal.
LEMMA PurgeStep ==
    ASSUME PurgeInv, [Purge!Next]_(Purge!vars)
    PROVE  PurgeInv'
<1> USE ConsoleStationsAssumption
<1> USE DEF PurgeInv, BoxesTicked, Purge!TypeOK
<1>1. CASE UNCHANGED Purge!vars
  BY <1>1 DEF Purge!vars
<1>2. CASE Purge!Open
  BY <1>2 DEF Purge!Open, Purge!Mounted
<1>3. CASE Purge!Close
  BY <1>3 DEF Purge!Close
<1>4. CASE Purge!Type
  BY <1>4 DEF Purge!Type
<1>5. CASE Purge!Confirm
  BY <1>5 DEF Purge!Confirm, Purge!HandlePurge
<1>6. CASE Purge!Enter
  BY <1>6 DEF Purge!Enter, Purge!HandlePurge
<1>7. CASE Purge!PurgeReply
  <2>1. underWay' \in 0..MaxPurges
    BY <1>7 DEF Purge!PurgeReply
  <2>2. CASE opened' = FALSE /\ UNCHANGED loader
    BY <1>7, <2>1, <2>2 DEF Purge!PurgeReply
  <2>3. CASE loader' = FALSE /\ UNCHANGED opened
    BY <1>7, <2>1, <2>3 DEF Purge!PurgeReply
  <2> QED
    BY <1>7, <2>2, <2>3 DEF Purge!PurgeReply
<1>8. ASSUME NEW x \in Purge!Boxes, Purge!Tick(x) PROVE PurgeInv'
  BY <1>8 DEF Purge!Tick
<1>9. ASSUME NEW t \in SUBSET Purge!Boxes, Purge!SocketData(t) PROVE PurgeInv'
  <2>1. CASE opened' = FALSE /\ loader' = FALSE /\ purgeData' = {}
    BY <1>9, <2>1 DEF Purge!SocketData
  <2>2. CASE UNCHANGED <<opened, loader, purgeData>>
    BY <1>9, <2>2 DEF Purge!SocketData
  <2> QED
    BY <1>9, <2>1, <2>2 DEF Purge!SocketData
<1> QED
  BY <1>1, <1>2, <1>3, <1>4, <1>5, <1>6, <1>7, <1>8, <1>9 DEF Purge!Next

-----------------------------------------------------------------------------
(* The dead-letter configuration. *)

\* Unless one was lost, the switches on the screen are those sent last, or the broker's.
LastSent ==
    ~confLost => IF confReqs = <<>> THEN dlsTypes = conf ELSE dlsTypes = confReqs[Len(confReqs)]

DlsInv ==
    /\ Dls!TypeOK
    /\ confReqs \in Seq(SUBSET Dls!Switches)
    /\ LastSent
    /\ dls = attached

\* Every step of the dead-letter configuration.
LEMMA DlsStep ==
    ASSUME DlsInv, [Dls!Next]_(Dls!vars)
    PROVE  DlsInv'
<1> USE ConsoleStationsAssumption
<1> USE DEF DlsInv
<1>0. /\ conf \subseteq Dls!Switches /\ dlsTypes \subseteq Dls!Switches /\ dlsLoading \subseteq Dls!Switches
      /\ {attached, dls} \subseteq Stations \cup {NoStation} /\ confLost \in BOOLEAN
      /\ disabling \in BOOLEAN /\ again \in BOOLEAN
      /\ modal \in {"none", "use", "disable"}
      /\ dlsReqs \in Seq([op : {"attach", "detach"}, name : Stations])
  BY DEF Dls!TypeOK
<1>1. CASE UNCHANGED Dls!vars
  BY <1>1 DEF Dls!vars, Dls!TypeOK, LastSent
<1>2. ASSUME NEW x \in Dls!Switches, Dls!UpdateDlsConfigurations(x), UNCHANGED Dls!dlsVars
      PROVE  DlsInv'
  <2> DEFINE new == Dls!Toggled(dlsTypes, x)
  <2>1. new \subseteq Dls!Switches
    BY <1>0 DEF Dls!Toggled
  <2>2. /\ confReqs' = Append(confReqs, new) /\ dlsTypes' = new /\ dlsLoading' = {x}
        /\ UNCHANGED <<conf, confLost, attached, dls, modal, disabling, dlsReqs, again>>
    BY <1>2 DEF Dls!UpdateDlsConfigurations, Dls!dlsVars
  <2> HIDE DEF new
  <2>3. /\ confReqs' \in Seq(SUBSET Dls!Switches) /\ Len(confReqs') = Len(confReqs) + 1
        /\ confReqs'[Len(confReqs')] = new
    BY <2>1, <2>2, AppendProperties
  <2>a. confReqs' # <<>>
    BY <2>1, <2>2, AppendProperties
  <2>4. LastSent'
    BY <2>2, <2>3, <2>a DEF LastSent
  <2>5. \A i \in DOMAIN confReqs' : confReqs'[i] \subseteq Dls!Switches
    BY <2>3, ElementOfSeq
  <2>6. Dls!TypeOK'
    BY <1>0, <2>1, <2>2, <2>5 DEF Dls!TypeOK
  <2> QED
    BY <2>2, <2>3, <2>4, <2>6
<1>3. ASSUME NEW i \in 1..MaxSent, Dls!ConfReply(i), UNCHANGED Dls!dlsVars
      PROVE  DlsInv'
  <2>1. /\ i \in 1..Len(confReqs) /\ confReqs' = Without(confReqs, i) /\ dlsLoading' = {}
        /\ \/ conf' = confReqs[i] /\ confLost' = (confLost \/ i # 1)
           \/ conf' = conf /\ confLost' = TRUE
        /\ UNCHANGED <<dlsTypes, attached, dls, modal, disabling, dlsReqs, again>>
    BY <1>3 DEF Dls!ConfReply, Dls!dlsVars, Dls!RemoveAt, Without
  <2>2. /\ confReqs' \in Seq(SUBSET Dls!Switches) /\ Len(confReqs') = Len(confReqs) - 1
        /\ \A j \in 1..Len(confReqs) - 1 : confReqs'[j] = IF j < i THEN confReqs[j] ELSE confReqs[j + 1]
    <3> DEFINE S == SUBSET Dls!Switches
    <3>1. confReqs \in Seq(S) /\ i \in 1..Len(confReqs)
      BY <2>1
    <3> HIDE DEF S
    <3>2. /\ Without(confReqs, i) \in Seq(S) /\ Len(Without(confReqs, i)) = Len(confReqs) - 1
          /\ \A j \in 1..Len(confReqs) - 1 :
                 Without(confReqs, i)[j] = IF j < i THEN confReqs[j] ELSE confReqs[j + 1]
      BY <3>1, WithoutOne, SMTT(30)
    <3> QED
      BY <2>1, <3>2 DEF S
  <2>a. Len(confReqs) \in Nat /\ Len(confReqs) >= 1 /\ confReqs # <<>>
    BY <2>1
  <2>3. confReqs[i] \subseteq Dls!Switches
    BY <2>1, ElementOfSeq
  <2>4. LastSent'
    <3> SUFFICES ASSUME ~confLost'
                 PROVE  IF confReqs' = <<>> THEN dlsTypes = conf' ELSE dlsTypes = confReqs'[Len(confReqs')]
      BY <2>1 DEF LastSent
    <3>a. ~confLost /\ i = 1 /\ conf' = confReqs[1]
      BY <2>1
    <3>b. dlsTypes = confReqs[Len(confReqs)]
      BY <2>a, <3>a DEF LastSent
    <3>1. ~confLost /\ i = 1 /\ conf' = confReqs[1] /\ dlsTypes = confReqs[Len(confReqs)]
      BY <3>a, <3>b
    <3>2. CASE Len(confReqs) = 1
      BY <2>2, <3>1, <3>2, EmptySeq
    <3>3. CASE Len(confReqs) > 1
      <4>1. Len(confReqs') \in 1..Len(confReqs) - 1 /\ Len(confReqs') + 1 = Len(confReqs)
        BY <2>2, <3>3
      <4>2. confReqs' # <<>>
        BY <4>1
      <4>3. confReqs'[Len(confReqs')] = confReqs[Len(confReqs)]
        BY <2>2, <3>1, <4>1, SMTT(30)
      <4> QED
        BY <3>1, <4>2, <4>3
    <3>4. Len(confReqs) = 1 \/ Len(confReqs) > 1
      <4> DEFINE n == Len(confReqs)
      <4>1. n \in Nat /\ n >= 1
        BY <2>a
      <4> HIDE DEF n
      <4>2. n = 1 \/ n > 1
        BY <4>1
      <4> QED
        BY <4>2 DEF n
    <3> QED
      BY <3>2, <3>3, <3>4
  <2>5. \A j \in DOMAIN confReqs' : confReqs'[j] \subseteq Dls!Switches
    BY <2>2, ElementOfSeq
  <2>6. Dls!TypeOK'
    BY <1>0, <2>1, <2>3, <2>5 DEF Dls!TypeOK
  <2> QED
    BY <2>1, <2>2, <2>4, <2>6
<1>4. ASSUME dlsReqs' \in Seq([op : {"attach", "detach"}, name : Stations]),
             modal' \in {"none", "use", "disable"}, disabling' \in BOOLEAN, again' \in BOOLEAN,
             UNCHANGED Dls!confVars, attached' \in Stations \cup {NoStation}, dls' = attached'
      PROVE  DlsInv'
  BY <1>4 DEF Dls!confVars, Dls!TypeOK, LastSent
<1>5. CASE (Dls!OpenModal \/ Dls!CloseModal) /\ UNCHANGED Dls!confVars
  BY <1>0, <1>4, <1>5 DEF Dls!OpenModal, Dls!CloseModal
<1>6. ASSUME NEW s \in Stations, Dls!HandleSetDls(s), UNCHANGED Dls!confVars PROVE DlsInv'
  <2>1. dlsReqs' \in Seq([op : {"attach", "detach"}, name : Stations])
    BY <1>6 DEF Dls!HandleSetDls
  <2> QED
    BY <1>0, <1>4, <1>6, <2>1 DEF Dls!HandleSetDls
<1>7. ASSUME NEW key \in {"button", "enter"}, Dls!HandleDetachDls(key), UNCHANGED Dls!confVars PROVE DlsInv'
  <2>1. dls \in Stations /\ dlsReqs' = Append(dlsReqs, [op |-> "detach", name |-> dls])
    BY <1>0, <1>7 DEF Dls!HandleDetachDls
  <2>2. dlsReqs' \in Seq([op : {"attach", "detach"}, name : Stations])
    BY <1>0, <2>1, AppendProperties
  <2>3. again' \in BOOLEAN
    BY <1>7 DEF Dls!HandleDetachDls
  <2> QED
    BY <1>0, <1>4, <1>7, <2>2, <2>3 DEF Dls!HandleDetachDls
<1>8. CASE Dls!DlsReply /\ UNCHANGED Dls!confVars
  <2>1. /\ Head(dlsReqs) \in [op : {"attach", "detach"}, name : Stations]
        /\ dlsReqs' \in Seq([op : {"attach", "detach"}, name : Stations])
    BY <1>0, <1>8, HeadTailProperties DEF Dls!DlsReply
  <2>2. Head(dlsReqs).name \in Stations
    BY <2>1
  <2>3. /\ attached' \in Stations \cup {NoStation} /\ dls' = attached' /\ modal' = "none"
        /\ disabling' \in BOOLEAN /\ again' = again
    BY <1>0, <1>8, <2>2 DEF Dls!DlsReply
  <2> QED
    BY <1>0, <1>4, <1>8, <2>1, <2>3
<1> QED
  BY <1>1, <1>2, <1>3, <1>5, <1>6, <1>7, <1>8 DEF Dls!Next

-----------------------------------------------------------------------------
(* The head of a station. *)

SchemaOps == {"use", "update", "detach"}
HeaderReq ==
    {r \in [op : Header!Ops, name : Schemas \cup {NoSchema}, done : BOOLEAN,
            result : Header!Version \cup {NoSchema}] :
        /\ r.op \in {"use", "update"} => r.name \in Schemas
        /\ r.op = "detach" => r.result = NoSchema}

\* Unless a change was overtaken or lost, the page shows what is enforced, or the reply
\* that brings it is under way.
SchemaComing ==
    ~left /\ ~aside =>
        \/ schema = enforced
        \/ \E i \in DOMAIN reqs : reqs[i].done /\ reqs[i].op \in SchemaOps /\ reqs[i].result = enforced

\* The loader of the schema's button is that of a request under way.
DetachComing ==
    detachLoader /\ ~left =>
        dlsDetached \/ \E i \in DOMAIN reqs : reqs[i].op \in {"detach", "detachDls"}

HeaderTyped ==
    /\ active \in [Schemas -> 1..2]
    /\ {enforced, schema} \subseteq Header!Version \cup {NoSchema}
    /\ modal \in {"none", "use", "update", "detach", "delete", "disable"}
    /\ dlsOn \in BOOLEAN /\ exists \in BOOLEAN /\ dls \in BOOLEAN /\ detachLoader \in BOOLEAN
    /\ deleteLoader \in BOOLEAN /\ attachLoader \in BOOLEAN /\ left \in BOOLEAN
    /\ aside \in BOOLEAN /\ dlsDetached \in BOOLEAN
    /\ reqs \in Seq(HeaderReq)
    /\ sent \in 0..MaxSent
    /\ attachLoader => modal \in {"use", "update"}

HeaderInv == HeaderTyped /\ SchemaComing /\ DetachComing

\* A request that is sent.
LEMMA HeaderSent ==
    ASSUME HeaderInv, NEW o \in Header!Ops, NEW n \in Schemas \cup {NoSchema}, Header!Send(o, n),
           o \in {"use", "update"} => n \in Schemas
    PROVE  /\ reqs' \in Seq(HeaderReq) /\ sent' \in 0..MaxSent
           /\ Len(reqs') = Len(reqs) + 1 /\ \A i \in DOMAIN reqs : reqs'[i] = reqs[i] /\ i \in DOMAIN reqs'
           /\ Len(reqs') \in DOMAIN reqs' /\ reqs'[Len(reqs')].op = o
<1> USE ConsoleStationsAssumption
<1> DEFINE new == [op |-> o, name |-> n, done |-> FALSE, result |-> NoSchema]
<1>1. new \in HeaderReq /\ new.op = o
  BY DEF HeaderReq
<1>2. reqs' = Append(reqs, new) /\ sent < MaxSent /\ sent' = sent + 1
  BY DEF Header!Send
<1>3. reqs \in Seq(HeaderReq) /\ sent \in 0..MaxSent
  BY DEF HeaderInv, HeaderTyped
<1> HIDE DEF new
<1>4. /\ reqs' \in Seq(HeaderReq) /\ Len(reqs') = Len(reqs) + 1
      /\ \A i \in 1..Len(reqs) : reqs'[i] = reqs[i] /\ reqs'[Len(reqs) + 1] = new
  BY <1>1, <1>2, <1>3, AppendProperties
<1> QED
  BY <1>1, <1>2, <1>3, <1>4

\* A step that sends a request leaves the broker and the schema shown alone.
LEMMA HeaderSends ==
    ASSUME HeaderInv, NEW o \in Header!Ops, NEW n \in Schemas \cup {NoSchema}, Header!Send(o, n),
           o \in {"use", "update"} => n \in Schemas,
           UNCHANGED <<active, enforced, dlsOn, exists, schema, dls, modal, left, aside, dlsDetached>>,
           detachLoader' \in BOOLEAN /\ (detachLoader' => detachLoader \/ o \in {"detach", "detachDls"}),
           deleteLoader' \in BOOLEAN, attachLoader' \in BOOLEAN, attachLoader' => modal \in {"use", "update"}
    PROVE  HeaderInv'
<1>1. /\ reqs' \in Seq(HeaderReq) /\ sent' \in 0..MaxSent
      /\ Len(reqs') = Len(reqs) + 1 /\ \A i \in DOMAIN reqs : reqs'[i] = reqs[i] /\ i \in DOMAIN reqs'
      /\ Len(reqs') \in DOMAIN reqs' /\ reqs'[Len(reqs')].op = o
  BY HeaderSent
<1>2. HeaderTyped'
  BY <1>1 DEF HeaderInv, HeaderTyped
<1>3. SchemaComing'
  BY <1>1 DEF HeaderInv, SchemaComing
<1>4. DetachComing'
  BY <1>1 DEF HeaderInv, DetachComing
<1> QED
  BY <1>2, <1>3, <1>4 DEF HeaderInv

\* Every step of the head.
LEMMA HeaderStep ==
    ASSUME HeaderInv, [Header!Next]_(Header!vars)
    PROVE  HeaderInv'
<1> USE ConsoleStationsAssumption
<1>0. HeaderTyped /\ SchemaComing /\ DetachComing
  BY DEF HeaderInv
<1>1. CASE UNCHANGED Header!vars
  BY <1>0, <1>1 DEF Header!vars, HeaderInv, HeaderTyped, SchemaComing, DetachComing
<1>2. ASSUME NEW m \in {"use", "update", "detach", "delete", "disable"}, Header!Open(m) PROVE HeaderInv'
  BY <1>0, <1>2 DEF Header!Open, Header!brokerVars, HeaderInv, HeaderTyped, SchemaComing, DetachComing
<1>3. CASE Header!Close
  BY <1>0, <1>3 DEF Header!Close, Header!brokerVars, HeaderInv, HeaderTyped, SchemaComing, DetachComing
<1>4. CASE Header!HandleDetachDls
  <2>1. "detachDls" \in Header!Ops
    BY DEF Header!Ops
  <2> QED
    BY <1>0, <1>4, <2>1, HeaderSends DEF Header!HandleDetachDls, Header!brokerVars, HeaderTyped
<1>5. ASSUME NEW s \in Schemas, Header!UseSchema(s) PROVE HeaderInv'
  <2>1. modal \in {"use", "update"} /\ modal \in Header!Ops
    BY <1>5 DEF Header!UseSchema, Header!Selectable, Header!UpToDate, Header!Ops
  <2> QED
    BY <1>0, <1>5, <2>1, HeaderSends DEF Header!UseSchema, Header!brokerVars, HeaderTyped
<1>6. ASSUME NEW s \in Schemas, Header!Activate(s) PROVE HeaderInv'
  BY <1>0, <1>6 DEF Header!Activate, Header!pageVars, HeaderInv, HeaderTyped, SchemaComing, DetachComing
<1>7. ASSUME NEW key \in {"button", "enter"}, Header!HandleStopUseSchema(key) PROVE HeaderInv'
  <2>1. "detach" \in Header!Ops
    BY DEF Header!Ops
  <2> QED
    BY <1>0, <1>7, <2>1, HeaderSends DEF Header!HandleStopUseSchema, Header!brokerVars, HeaderTyped
<1>8. ASSUME NEW key \in {"button", "enter"}, Header!HandleDeleteStation(key) PROVE HeaderInv'
  <2>1. "delete" \in Header!Ops
    BY DEF Header!Ops
  <2> QED
    BY <1>0, <1>8, <2>1, HeaderSends DEF Header!HandleDeleteStation, Header!brokerVars, HeaderTyped
<1>9. ASSUME NEW i \in DOMAIN reqs, Header!Handle(i) PROVE HeaderInv'
  <2> DEFINE r == reqs[i]
             now == CASE r.op \in {"use", "update"} -> [name |-> r.name, version |-> active[r.name]]
                      [] r.op = "detach"            -> NoSchema
                      [] OTHER                      -> enforced
             new == [r EXCEPT !.done = TRUE, !.result = now]
  <2>1. r \in HeaderReq /\ i \in 1..Len(reqs) /\ reqs \in Seq(HeaderReq)
    BY <1>0, ElementOfSeq DEF HeaderTyped
  <2>2. now \in Header!Version \cup {NoSchema}
    <3>1. CASE r.op \in {"use", "update"}
      BY <1>0, <2>1, <3>1 DEF HeaderReq, HeaderTyped, Header!Version
    <3>2. CASE r.op = "detach"
      BY <3>2
    <3>3. CASE r.op \notin {"use", "update", "detach"}
      BY <1>0, <3>3 DEF HeaderTyped
    <3> QED
      BY <3>1, <3>2, <3>3
  <2>3. (r.op \notin SchemaOps => now = enforced) /\ (r.op = "detach" => now = NoSchema)
    BY DEF SchemaOps
  <2>4. /\ enforced' = now /\ reqs' = [reqs EXCEPT ![i].done = TRUE, ![i].result = now]
        /\ dlsOn' = (dlsOn /\ r.op # "detachDls") /\ exists' = (r.op # "delete")
        /\ UNCHANGED <<active, schema, dls, modal, detachLoader, deleteLoader, attachLoader, left, sent,
                       aside, dlsDetached>>
    BY <1>9 DEF Header!Handle, Header!pageVars
  <2>5. reqs' = [reqs EXCEPT ![i] = new]
    BY <2>1, <2>4
  <2> HIDE DEF now
  <2>6. new \in HeaderReq /\ new.op = r.op /\ new.done = TRUE /\ new.result = now
    <3> HIDE DEF r
    <3> QED
      BY <2>1, <2>2, <2>3 DEF HeaderReq
  <2> HIDE DEF new
  <2>7. /\ reqs' \in Seq(HeaderReq) /\ DOMAIN reqs' = DOMAIN reqs /\ reqs'[i] = new
        /\ \A j \in DOMAIN reqs : j # i => reqs'[j] = reqs[j]
    BY <2>1, <2>5, <2>6, ExceptSeq
  <2>8. HeaderTyped'
    BY <1>0, <2>2, <2>4, <2>7 DEF HeaderTyped
  <2>9. SchemaComing'
    <3>1. CASE r.op \in SchemaOps
      BY <2>4, <2>6, <2>7, <3>1 DEF SchemaComing
    <3>2. CASE r.op \notin SchemaOps
      <4>1. enforced' = enforced
        BY <2>3, <2>4, <3>2
      <4> QED
        BY <1>0, <2>4, <2>7, <3>2, <4>1 DEF SchemaComing
    <3> QED
      BY <3>1, <3>2
  <2>10. DetachComing'
    BY <1>0, <2>4, <2>6, <2>7 DEF DetachComing
  <2> QED
    BY <2>8, <2>9, <2>10 DEF HeaderInv
<1>10. ASSUME NEW i \in DOMAIN reqs, reqs' = Header!RemoveAt(reqs, i)
       PROVE  /\ reqs[i] \in HeaderReq /\ reqs' \in Seq(HeaderReq)
              /\ \A k \in DOMAIN reqs : k # i => \E j \in DOMAIN reqs' : reqs'[j] = reqs[k]
  <2>a. reqs \in Seq(HeaderReq) /\ i \in 1..Len(reqs)
    BY <1>0, <1>10 DEF HeaderTyped
  <2>b. reqs' = Without(reqs, i)
    BY <1>10 DEF Header!RemoveAt, Without
  <2>1. reqs \in Seq(HeaderReq) /\ reqs' = Without(reqs, i) /\ i \in 1..Len(reqs)
    BY <2>a, <2>b
  <2>2. reqs' \in Seq(HeaderReq)
    BY <2>1, WithoutOne
  <2>c. \A k \in 1..Len(reqs) : k # i => \E j \in 1..Len(Without(reqs, i)) : Without(reqs, i)[j] = reqs[k]
    BY <2>a, OthersStay
  <2>3. \A k \in 1..Len(reqs) : k # i => \E j \in 1..Len(reqs') : reqs'[j] = reqs[k]
    BY <2>b, <2>c
  <2>4. DOMAIN reqs = 1..Len(reqs) /\ DOMAIN reqs' = 1..Len(reqs')
    BY <2>a, <2>2
  <2>5. reqs[i] \in HeaderReq
    BY <2>a, ElementOfSeq
  <2> QED
    BY <2>2, <2>3, <2>4, <2>5
<1>11. ASSUME NEW i \in DOMAIN reqs, Header!Reply(i) PROVE HeaderInv'
  <2> DEFINE r == reqs[i]
  <2>1. /\ reqs' = Header!RemoveAt(reqs, i) /\ reqs[i].done
        /\ aside' = (aside \/ (r.op \in SchemaOps /\ r.result # enforced))
        /\ dlsDetached' = (dlsDetached \/ r.op = "detachDls")
        /\ UNCHANGED <<active, enforced, dlsOn, exists, sent>>
    BY <1>11 DEF Header!Reply, Header!brokerVars, SchemaOps
  <2>2. /\ r \in HeaderReq /\ reqs' \in Seq(HeaderReq)
        /\ \A k \in DOMAIN reqs : k # i => \E j \in DOMAIN reqs' : reqs'[j] = reqs[k]
    BY <1>10, <2>1
  <2>3. r.op \in Header!Ops /\ r.result \in Header!Version \cup {NoSchema}
    BY <2>2 DEF HeaderReq
  <2>4. CASE left
    <3>1. UNCHANGED <<schema, dls, modal, detachLoader, deleteLoader, attachLoader, left>>
      BY <1>11, <2>4 DEF Header!Reply, Header!pageVars
    <3>2. HeaderTyped'
      BY <1>0, <2>1, <2>2, <3>1 DEF HeaderTyped
    <3> QED
      BY <2>4, <3>1, <3>2 DEF HeaderInv, SchemaComing, DetachComing
  <2>5. CASE ~left /\ r.op \in {"use", "update"}
    <3>1. /\ schema' = r.result /\ modal' = IF modal = r.op THEN "none" ELSE modal
          /\ attachLoader' = (attachLoader /\ modal # r.op)
          /\ UNCHANGED <<dls, detachLoader, deleteLoader, left>>
      BY <1>11, <2>5 DEF Header!Reply, Header!UseSchemaReply
    <3>2. HeaderTyped'
      BY <1>0, <2>1, <2>2, <2>3, <3>1 DEF HeaderTyped
    <3>3. SchemaComing'
      BY <2>1, <2>5, <3>1 DEF SchemaComing, SchemaOps
    <3>4. DetachComing'
      BY <1>0, <2>1, <2>2, <2>5, <3>1 DEF DetachComing
    <3> QED
      BY <3>2, <3>3, <3>4 DEF HeaderInv
  <2>6. CASE ~left /\ r.op = "detach"
    <3>1. /\ schema' = NoSchema /\ modal' = IF modal = "detach" THEN "none" ELSE modal
          /\ detachLoader' = FALSE /\ UNCHANGED <<dls, deleteLoader, attachLoader, left>>
      BY <1>11, <2>6 DEF Header!Reply, Header!StopUseSchemaReply
    <3>2. HeaderTyped'
      BY <1>0, <2>1, <2>2, <3>1 DEF HeaderTyped
    <3>3. SchemaComing'
      BY <2>1, <2>2, <2>6, <3>1 DEF SchemaComing, SchemaOps, HeaderReq
    <3> QED
      BY <3>1, <3>2, <3>3 DEF HeaderInv, DetachComing
  <2>7. CASE ~left /\ r.op = "detachDls"
    <3>1. /\ dls' = FALSE /\ modal' = IF modal = "disable" THEN "none" ELSE modal
          /\ UNCHANGED <<schema, detachLoader, deleteLoader, attachLoader, left>>
      BY <1>11, <2>7 DEF Header!Reply, Header!DetachDlsReply
    <3>2. HeaderTyped'
      BY <1>0, <2>1, <2>2, <3>1 DEF HeaderTyped
    <3>3. SchemaComing'
      BY <1>0, <2>1, <2>2, <2>7, <3>1, ZenonT(30) DEF SchemaComing, SchemaOps
    <3> QED
      BY <2>1, <2>7, <3>1, <3>2, <3>3 DEF HeaderInv, DetachComing
  <2>8. CASE ~left /\ r.op \notin {"use", "update", "detach", "detachDls"}
    <3>1. /\ left' = TRUE /\ modal' = "none" /\ deleteLoader' = FALSE /\ attachLoader' = FALSE
          /\ UNCHANGED <<schema, dls, detachLoader>>
      BY <1>11, <2>8 DEF Header!Reply, Header!DeleteStationReply
    <3>2. HeaderTyped'
      BY <1>0, <2>1, <2>2, <3>1 DEF HeaderTyped
    <3> QED
      BY <3>1, <3>2 DEF HeaderInv, SchemaComing, DetachComing
  <2> QED
    BY <2>4, <2>5, <2>6, <2>7, <2>8
<1>12. ASSUME NEW i \in DOMAIN reqs, Header!Fail(i) PROVE HeaderInv'
  <2> DEFINE o == IF left THEN "none" ELSE reqs[i].op
  <2>1. /\ reqs' = Header!RemoveAt(reqs, i)
        /\ detachLoader' = (detachLoader /\ o \notin {"detach", "detachDls"})
        /\ deleteLoader' = (deleteLoader /\ o # "delete")
        /\ attachLoader' = (attachLoader /\ o # modal)
        /\ modal' = IF (o = modal /\ o \in {"detach", "delete"})
                         \/ (o = "detachDls" /\ modal = "disable") THEN "none" ELSE modal
        /\ aside' = (aside \/ reqs[i].done)
        /\ UNCHANGED <<active, enforced, dlsOn, exists, schema, dls, sent, left, dlsDetached>>
    BY <1>12 DEF Header!Fail, Header!brokerVars
  <2>2. /\ reqs[i] \in HeaderReq /\ reqs' \in Seq(HeaderReq)
        /\ \A k \in DOMAIN reqs : k # i => \E j \in DOMAIN reqs' : reqs'[j] = reqs[k]
    BY <1>10, <2>1
  <2>3. reqs[i].done \in BOOLEAN
    BY <2>2 DEF HeaderReq
  <2>4. HeaderTyped'
    BY <1>0, <2>1, <2>2, <2>3 DEF HeaderTyped
  <2>5. SchemaComing'
    BY <1>0, <2>1, <2>2, <2>3 DEF SchemaComing
  <2>6. DetachComing'
    BY <1>0, <2>1, <2>2 DEF DetachComing
  <2> QED
    BY <2>4, <2>5, <2>6 DEF HeaderInv
<1> QED
  BY <1>1, <1>2, <1>3, <1>4, <1>5, <1>6, <1>7, <1>8, <1>9, <1>11, <1>12 DEF Header!Next

-----------------------------------------------------------------------------
(* The form for a station. *)

DrawnType ==
    [retention : New!Retentions, unit : New!Units, storage : New!Storages, tier : BOOLEAN, useSchema : BOOLEAN,
     dls : BOOLEAN, tab : {"local", "remote"}]

FieldTimes == Times \cup {<<1, 0, 0, 0>>}
FieldBytes == Amounts \cup {1000}
FieldMessages == Amounts \cup {10}
FieldSchemas == {SchemaSeq[k] : k \in DOMAIN SchemaSeq} \cup {"", New!Null}
FieldStations == DlStations \cup {New!Null}
FieldType ==
    [named : BOOLEAN, retention : New!Retentions, time : FieldTimes, bytes : FieldBytes,
     messages : FieldMessages, number : Nat, unit : New!Units, storage : New!Storages, tier : BOOLEAN,
     schema : FieldSchemas, dlsStation : FieldStations]

AskType == [{"schemas", "get", "connect", "disconnect"} -> {"idle", "sent", "done", "failed", "yes", "no"}]

NewTyped ==
    /\ open \in BOOLEAN /\ loading \in BOOLEAN /\ s3 \in BOOLEAN /\ integrate \in BOOLEAN
    /\ s3Modal \in BOOLEAN /\ raced \in BOOLEAN
    /\ drawn \in DrawnType /\ field \in FieldType
    /\ asks \in AskType
    /\ schemas \in {<<>>, SchemaSeq}

\* What is drawn is in the fields.
DrawnIsField ==
    /\ field.retention = drawn.retention /\ field.storage = drawn.storage
    /\ field.tier = drawn.tier /\ field.unit = drawn.unit

\* Until S3 is disconnected in the dialog, whatever says that it is there is right.
S3Known ==
    ~raced => /\ integrate \/ drawn.tier \/ asks["get"] = "yes" \/ asks["connect"] = "done" => s3
              /\ asks["disconnect"] # "done"

NewInv == NewTyped /\ DrawnIsField /\ S3Known

\* A control of the form: it changes the two records only, and keeps them together.
LEMMA FormEdited ==
    ASSUME NewInv, UNCHANGED New!stay, drawn' \in DrawnType, field' \in FieldType,
           field'.retention = drawn'.retention, field'.storage = drawn'.storage,
           field'.tier = drawn'.tier, field'.unit = drawn'.unit,
           drawn'.tier => drawn.tier \/ integrate
    PROVE  NewInv'
BY DEF NewInv, NewTyped, DrawnIsField, S3Known, New!stay

\* Every step of the form.
LEMMA NewStep ==
    ASSUME NewInv, [New!Next]_(New!vars)
    PROVE  NewInv'
<1> USE ConsoleStationsAssumption
<1>0. /\ drawn \in DrawnType /\ field \in FieldType /\ asks \in AskType /\ schemas \in {<<>>, SchemaSeq}
      /\ DrawnIsField
  BY DEF NewInv, NewTyped
<1>1. CASE UNCHANGED New!vars
  BY <1>1 DEF New!vars, NewInv, NewTyped, DrawnIsField, S3Known
<1>2. CASE New!StationNameChange
  <2>1. field' = [field EXCEPT !.named = ~field.named] /\ drawn' = drawn /\ UNCHANGED New!stay
    BY <1>2 DEF New!StationNameChange
  <2>v. (~field.named) \in BOOLEAN
    BY <1>0 DEF FieldType
  <2>f. field' \in FieldType
    BY <1>0, <2>1, <2>v DEF FieldType
  <2>g. /\ field'.retention = field.retention /\ field'.storage = field.storage
        /\ field'.tier = field.tier /\ field'.unit = field.unit
    BY <1>0, <2>1 DEF FieldType
  <2>2. field' \in FieldType /\ field'.retention = field.retention /\ field'.storage = field.storage /\ field'.tier = field.tier /\ field'.unit = field.unit
    BY <2>f, <2>g
  <2> QED
    BY <1>0, <2>1, <2>2, FormEdited DEF DrawnIsField
<1>3. CASE New!ToggleSchema
  <2> DEFINE first == IF schemas = <<>> THEN New!Null ELSE schemas[1]
  <2>1. /\ drawn' = [drawn EXCEPT !.useSchema = ~drawn.useSchema] /\ UNCHANGED New!stay
        /\ field' = field \/ field' = [field EXCEPT !.schema = first]
    BY <1>3 DEF New!ToggleSchema
  <2>2. first \in FieldSchemas
    <3>1. schemas # <<>> => schemas = SchemaSeq /\ 1 \in DOMAIN SchemaSeq
      BY <1>0, EmptySeq
    <3> QED
      BY <3>1 DEF FieldSchemas
  <2> HIDE DEF first
  <2>f. field' \in FieldType
    BY <1>0, <2>1, <2>2 DEF FieldType
  <2>g. /\ field'.retention = field.retention /\ field'.storage = field.storage
        /\ field'.tier = field.tier /\ field'.unit = field.unit
    BY <1>0, <2>1, <2>2 DEF FieldType
  <2>3. field' \in FieldType /\ field'.retention = field.retention /\ field'.storage = field.storage /\ field'.tier = field.tier /\ field'.unit = field.unit
    BY <2>f, <2>g
  <2>4. /\ drawn' \in DrawnType /\ drawn'.retention = drawn.retention /\ drawn'.storage = drawn.storage
        /\ drawn'.tier = drawn.tier /\ drawn'.unit = drawn.unit
    BY <1>0, <2>1 DEF DrawnType
  <2> QED
    BY <1>0, <2>1, <2>3, <2>4, FormEdited DEF DrawnIsField
<1>4. CASE New!ToggleDls
  <2>1. /\ drawn' = [drawn EXCEPT !.dls = ~drawn.dls] /\ field' = field /\ UNCHANGED New!stay
    BY <1>4 DEF New!ToggleDls
  <2>2. /\ drawn' \in DrawnType /\ drawn'.retention = drawn.retention /\ drawn'.storage = drawn.storage
        /\ drawn'.tier = drawn.tier /\ drawn'.unit = drawn.unit
    BY <1>0, <2>1 DEF DrawnType
  <2> QED
    BY <1>0, <2>1, <2>2, FormEdited DEF DrawnIsField
<1>5. CASE New!SelectedRemoteStorageOption
  <2>1. /\ drawn' = [drawn EXCEPT !.tier = ~drawn.tier] /\ field' = [field EXCEPT !.tier = ~drawn.tier]
        /\ UNCHANGED New!stay /\ integrate
    BY <1>5 DEF New!SelectedRemoteStorageOption
  <2>2. /\ drawn' \in DrawnType /\ drawn'.retention = drawn.retention /\ drawn'.storage = drawn.storage
        /\ drawn'.tier = ~drawn.tier /\ drawn'.unit = drawn.unit /\ drawn.tier \in BOOLEAN
    BY <1>0, <2>1 DEF DrawnType
  <2>f. field' \in FieldType
    BY <1>0, <2>1, <2>2 DEF FieldType
  <2>g. /\ field'.retention = field.retention /\ field'.storage = field.storage
        /\ field'.tier = ~drawn.tier /\ field'.unit = field.unit
    BY <1>0, <2>1, <2>2 DEF FieldType
  <2>3. field' \in FieldType /\ field'.retention = field.retention /\ field'.storage = field.storage /\ field'.tier = ~drawn.tier /\ field'.unit = field.unit
    BY <2>f, <2>g
  <2> QED
    BY <1>0, <2>1, <2>2, <2>3, FormEdited DEF DrawnIsField
<1>6. CASE New!OpenS3
  BY <1>6 DEF New!OpenS3, NewInv, NewTyped, DrawnIsField, S3Known
<1>7. CASE New!OnFinish
  BY <1>7 DEF New!OnFinish, NewInv, NewTyped, DrawnIsField, S3Known
<1>8. CASE New!GetIntegration
  <2>1. /\ asks["get"] \in {"yes", "no"} /\ integrate' = (asks["get"] = "yes")
        /\ asks' = [asks EXCEPT !["get"] = "idle"]
        /\ UNCHANGED <<open, loading, drawn, field, schemas, s3, s3Modal, raced>>
    BY <1>8 DEF New!GetIntegration
  <2>2. /\ asks' \in AskType /\ asks'["get"] = "idle" /\ asks'["connect"] = asks["connect"]
        /\ asks'["disconnect"] = asks["disconnect"]
    BY <1>0, <2>1 DEF AskType
  <2> QED
    BY <2>1, <2>2 DEF NewInv, NewTyped, DrawnIsField, S3Known
<1>9. CASE New!S3ClickOutside
  BY <1>9 DEF New!S3ClickOutside, NewInv, NewTyped, DrawnIsField, S3Known
<1>10. ASSUME NEW t \in New!Retentions, New!SetRetentionType(t) PROVE NewInv'
  <2>1. /\ drawn' = [drawn EXCEPT !.retention = t] /\ field' = [field EXCEPT !.retention = t]
        /\ UNCHANGED New!stay
    BY <1>10 DEF New!SetRetentionType
  <2>2. /\ drawn' \in DrawnType /\ drawn'.retention = t /\ drawn'.storage = drawn.storage
        /\ drawn'.tier = drawn.tier /\ drawn'.unit = drawn.unit
    BY <1>0, <2>1 DEF DrawnType
  <2>f. field' \in FieldType
    BY <1>0, <2>1 DEF FieldType
  <2>g. /\ field'.retention = t /\ field'.storage = field.storage
        /\ field'.tier = field.tier /\ field'.unit = field.unit
    BY <1>0, <2>1 DEF FieldType
  <2>3. field' \in FieldType /\ field'.retention = t /\ field'.storage = field.storage /\ field'.tier = field.tier /\ field'.unit = field.unit
    BY <2>f, <2>g
  <2> QED
    BY <1>0, <2>1, <2>2, <2>3, FormEdited DEF DrawnIsField
<1>11. ASSUME NEW t \in Times, New!SetRetentionTime(t) PROVE NewInv'
  <2>1. /\ field' = [field EXCEPT !.time = t] /\ drawn' = drawn /\ UNCHANGED New!stay
    BY <1>11 DEF New!SetRetentionTime
  <2>v. t \in FieldTimes
    BY DEF FieldTimes
  <2>f. field' \in FieldType
    BY <1>0, <2>1, <2>v DEF FieldType
  <2>g. /\ field'.retention = field.retention /\ field'.storage = field.storage
        /\ field'.tier = field.tier /\ field'.unit = field.unit
    BY <1>0, <2>1 DEF FieldType
  <2>2. field' \in FieldType /\ field'.retention = field.retention /\ field'.storage = field.storage /\ field'.tier = field.tier /\ field'.unit = field.unit
    BY <2>f, <2>g
  <2> QED
    BY <1>0, <2>1, <2>2, FormEdited DEF DrawnIsField
<1>12. ASSUME NEW n \in Amounts, New!SetRetentionValue(n) PROVE NewInv'
  <2>1. /\ field' = [field EXCEPT !.bytes = n] \/ field' = [field EXCEPT !.messages = n]
        /\ drawn' = drawn /\ UNCHANGED New!stay
    BY <1>12 DEF New!SetRetentionValue
  <2>v. n \in FieldBytes /\ n \in FieldMessages
    BY DEF FieldBytes, FieldMessages
  <2>f. field' \in FieldType
    BY <1>0, <2>1, <2>v DEF FieldType
  <2>g. /\ field'.retention = field.retention /\ field'.storage = field.storage
        /\ field'.tier = field.tier /\ field'.unit = field.unit
    BY <1>0, <2>1 DEF FieldType
  <2>2. field' \in FieldType /\ field'.retention = field.retention /\ field'.storage = field.storage /\ field'.tier = field.tier /\ field'.unit = field.unit
    BY <2>f, <2>g
  <2> QED
    BY <1>0, <2>1, <2>2, FormEdited DEF DrawnIsField
<1>13. ASSUME NEW n \in Numbers, New!SetIdempotencyNumber(n) PROVE NewInv'
  <2>1. /\ field' = [field EXCEPT !.number = n] /\ drawn' = drawn /\ UNCHANGED New!stay /\ n \in Nat
    BY <1>13 DEF New!SetIdempotencyNumber
  <2>f. field' \in FieldType
    BY <1>0, <2>1 DEF FieldType
  <2>g. /\ field'.retention = field.retention /\ field'.storage = field.storage
        /\ field'.tier = field.tier /\ field'.unit = field.unit
    BY <1>0, <2>1 DEF FieldType
  <2>2. field' \in FieldType /\ field'.retention = field.retention /\ field'.storage = field.storage /\ field'.tier = field.tier /\ field'.unit = field.unit
    BY <2>f, <2>g
  <2> QED
    BY <1>0, <2>1, <2>2, FormEdited DEF DrawnIsField
<1>14. ASSUME NEW u \in New!Units, New!SetIdempotencyType(u) PROVE NewInv'
  <2>1. /\ drawn' = [drawn EXCEPT !.unit = u] /\ field' = [field EXCEPT !.unit = u] /\ UNCHANGED New!stay
    BY <1>14 DEF New!SetIdempotencyType
  <2>2. /\ drawn' \in DrawnType /\ drawn'.retention = drawn.retention /\ drawn'.storage = drawn.storage
        /\ drawn'.tier = drawn.tier /\ drawn'.unit = u
    BY <1>0, <2>1 DEF DrawnType
  <2>f. field' \in FieldType
    BY <1>0, <2>1 DEF FieldType
  <2>g. /\ field'.retention = field.retention /\ field'.storage = field.storage
        /\ field'.tier = field.tier /\ field'.unit = u
    BY <1>0, <2>1 DEF FieldType
  <2>3. field' \in FieldType /\ field'.retention = field.retention /\ field'.storage = field.storage /\ field'.tier = field.tier /\ field'.unit = u
    BY <2>f, <2>g
  <2> QED
    BY <1>0, <2>1, <2>2, <2>3, FormEdited DEF DrawnIsField
<1>15. ASSUME NEW k \in DOMAIN SchemaSeq, New!ChooseSchema(SchemaSeq[k]) PROVE NewInv'
  <2>1. /\ field' = [field EXCEPT !.schema = SchemaSeq[k]] /\ drawn' = drawn /\ UNCHANGED New!stay
    BY <1>15 DEF New!ChooseSchema
  <2>v. SchemaSeq[k] \in FieldSchemas
    BY DEF FieldSchemas
  <2>f. field' \in FieldType
    BY <1>0, <2>1, <2>v DEF FieldType
  <2>g. /\ field'.retention = field.retention /\ field'.storage = field.storage
        /\ field'.tier = field.tier /\ field'.unit = field.unit
    BY <1>0, <2>1 DEF FieldType
  <2>2. field' \in FieldType /\ field'.retention = field.retention /\ field'.storage = field.storage /\ field'.tier = field.tier /\ field'.unit = field.unit
    BY <2>f, <2>g
  <2> QED
    BY <1>0, <2>1, <2>2, FormEdited DEF DrawnIsField
<1>16. ASSUME NEW s \in DlStations, New!ChooseDlsStation(s) PROVE NewInv'
  <2>1. /\ field' = [field EXCEPT !.dlsStation = s] /\ drawn' = drawn /\ UNCHANGED New!stay
    BY <1>16 DEF New!ChooseDlsStation
  <2>v. s \in FieldStations
    BY DEF FieldStations
  <2>f. field' \in FieldType
    BY <1>0, <2>1, <2>v DEF FieldType
  <2>g. /\ field'.retention = field.retention /\ field'.storage = field.storage
        /\ field'.tier = field.tier /\ field'.unit = field.unit
    BY <1>0, <2>1 DEF FieldType
  <2>2. field' \in FieldType /\ field'.retention = field.retention /\ field'.storage = field.storage /\ field'.tier = field.tier /\ field'.unit = field.unit
    BY <2>f, <2>g
  <2> QED
    BY <1>0, <2>1, <2>2, FormEdited DEF DrawnIsField
<1>17. ASSUME NEW t \in {"local", "remote"}, New!SetTab(t) PROVE NewInv'
  <2>1. /\ drawn' = [drawn EXCEPT !.tab = t] /\ field' = field /\ UNCHANGED New!stay
    BY <1>17 DEF New!SetTab
  <2>2. /\ drawn' \in DrawnType /\ drawn'.retention = drawn.retention /\ drawn'.storage = drawn.storage
        /\ drawn'.tier = drawn.tier /\ drawn'.unit = drawn.unit
    BY <1>0, <2>1 DEF DrawnType
  <2> QED
    BY <1>0, <2>1, <2>2, FormEdited DEF DrawnIsField
<1>18. ASSUME NEW s \in New!Storages, New!SelectedLocalStorageOption(s) PROVE NewInv'
  <2>1. /\ drawn' = [drawn EXCEPT !.storage = s] /\ field' = [field EXCEPT !.storage = s]
        /\ UNCHANGED New!stay
    BY <1>18 DEF New!SelectedLocalStorageOption
  <2>2. /\ drawn' \in DrawnType /\ drawn'.retention = drawn.retention /\ drawn'.storage = s
        /\ drawn'.tier = drawn.tier /\ drawn'.unit = drawn.unit
    BY <1>0, <2>1 DEF DrawnType
  <2>f. field' \in FieldType
    BY <1>0, <2>1 DEF FieldType
  <2>g. /\ field'.retention = field.retention /\ field'.storage = s
        /\ field'.tier = field.tier /\ field'.unit = field.unit
    BY <1>0, <2>1 DEF FieldType
  <2>3. field' \in FieldType /\ field'.retention = field.retention /\ field'.storage = s /\ field'.tier = field.tier /\ field'.unit = field.unit
    BY <2>f, <2>g
  <2> QED
    BY <1>0, <2>1, <2>2, <2>3, FormEdited DEF DrawnIsField
<1>19. ASSUME NEW ok \in BOOLEAN, New!CreateStation(ok) PROVE NewInv'
  BY <1>19 DEF New!CreateStation, NewInv, NewTyped, DrawnIsField, S3Known
<1>20. ASSUME NEW op \in {"schemas", "get", "connect", "disconnect"},
              NEW v \in {"idle", "sent", "done", "failed", "yes", "no"}, asks' = [asks EXCEPT ![op] = v]
       PROVE  /\ asks' \in AskType /\ asks'[op] = v
              /\ \A o \in {"schemas", "get", "connect", "disconnect"} : o # op => asks'[o] = asks[o]
  BY <1>0, <1>20 DEF AskType
<1>21. ASSUME NEW ok \in BOOLEAN, New!GetAllSchemas(ok) PROVE NewInv'
  <2>1. /\ asks' = [asks EXCEPT !["schemas"] = "done"] /\ schemas' \in {<<>>, SchemaSeq}
        /\ UNCHANGED <<open, loading, drawn, field, s3, integrate, s3Modal, raced>>
    BY <1>0, <1>21 DEF New!GetAllSchemas
  <2>2. /\ asks' \in AskType /\ asks'["get"] = asks["get"] /\ asks'["connect"] = asks["connect"]
        /\ asks'["disconnect"] = asks["disconnect"]
    BY <1>20, <2>1
  <2> QED
    BY <2>1, <2>2 DEF NewInv, NewTyped, DrawnIsField, S3Known
<1>22. ASSUME NEW op \in {"get", "connect", "disconnect"}, New!Handle(op) PROVE NewInv'
  <2> DEFINE v == IF op = "get" THEN (IF s3 THEN "yes" ELSE "no")
                  ELSE IF op = "connect" /\ s3 THEN "failed" ELSE "done"
  <2>1. /\ asks' = [asks EXCEPT ![op] = v]
        /\ s3' = CASE op = "connect" -> TRUE [] op = "disconnect" -> FALSE [] OTHER -> s3
        /\ raced' = (raced \/ op = "disconnect")
        /\ UNCHANGED <<open, loading, drawn, field, schemas, integrate, s3Modal>>
    BY <1>22 DEF New!Handle
  <2>2. v \in {"done", "failed", "yes", "no"} /\ (v = "yes" => op = "get" /\ s3)
    OBVIOUS
  <2>3. s3' \in BOOLEAN /\ (op # "disconnect" /\ s3 => s3') /\ (op = "connect" => s3')
    BY <2>1 DEF NewInv, NewTyped
  <2> HIDE DEF v
  <2>4. /\ asks' \in AskType /\ asks'[op] = v
        /\ \A o \in {"schemas", "get", "connect", "disconnect"} : o # op => asks'[o] = asks[o]
    BY <1>20, <2>1, <2>2
  <2>5. NewTyped' /\ DrawnIsField'
    BY <2>1, <2>3, <2>4 DEF NewInv, NewTyped, DrawnIsField
  <2>6. S3Known'
    BY <2>1, <2>2, <2>3, <2>4 DEF NewInv, S3Known
  <2> QED
    BY <2>5, <2>6 DEF NewInv
<1>23. ASSUME NEW op \in {"get", "connect", "disconnect"}, New!S3Submit(op) PROVE NewInv'
  <2>1. /\ asks' = [asks EXCEPT ![op] = "sent"]
        /\ UNCHANGED <<open, loading, drawn, field, schemas, s3, integrate, s3Modal, raced>>
    BY <1>23 DEF New!S3Submit
  <2>2. /\ asks' \in AskType /\ asks'[op] = "sent"
        /\ \A o \in {"schemas", "get", "connect", "disconnect"} : o # op => asks'[o] = asks[o]
    BY <1>20, <2>1
  <2> QED
    BY <2>1, <2>2 DEF NewInv, NewTyped, DrawnIsField, S3Known
<1>24. ASSUME NEW op \in {"get", "connect", "disconnect"}, New!S3Close(op) PROVE NewInv'
  <2>1. /\ op \in {"connect", "disconnect"} /\ asks[op] = "done" /\ asks' = [asks EXCEPT ![op] = "idle"]
        /\ integrate' = TRUE /\ s3Modal' = FALSE
        /\ UNCHANGED <<open, loading, drawn, field, schemas, s3, raced>>
    BY <1>24 DEF New!S3Close
  <2>2. /\ asks' \in AskType /\ asks'[op] = "idle"
        /\ \A o \in {"schemas", "get", "connect", "disconnect"} : o # op => asks'[o] = asks[o]
    BY <1>20, <2>1
  <2> QED
    BY <2>1, <2>2 DEF NewInv, NewTyped, DrawnIsField, S3Known
<1> QED
  BY <1>1, <1>2, <1>3, <1>4, <1>5, <1>6, <1>7, <1>8, <1>9, <1>10, <1>11, <1>12, <1>13, <1>14, <1>15, <1>16,
     <1>17, <1>18, <1>19, <1>21, <1>22, <1>23, <1>24 DEF New!Next

\* A form that is accepted sends a window within the limits, whatever number was typed
\* and unit chosen.
LEMMA WindowWithin ==
    ASSUME NEW n \in Nat, NEW u \in New!Units, New!IdempotencyValidator(n, u)
    PROVE  LET w == New!GetIdempotencyValue(n, u) IN w = 0 \/ (w >= 100 /\ w <= 86400000)
<1>1. CASE u = "Milliseconds"
  BY <1>1 DEF New!IdempotencyValidator, New!GetIdempotencyValue
<1>2. CASE u = "Seconds"
  BY <1>2 DEF New!IdempotencyValidator, New!GetIdempotencyValue
<1>3. CASE u = "Minutes"
  BY <1>3 DEF New!IdempotencyValidator, New!GetIdempotencyValue
<1>4. CASE u = "Hours"
  BY <1>4 DEF New!IdempotencyValidator, New!GetIdempotencyValue
<1> QED
  BY <1>1, <1>2, <1>3, <1>4 DEF New!Units

\* What the form sends.
LEMMA FormSends == NewInv => New!SentAsDrawn /\ New!WindowBounded /\ New!TierHasS3
<1> SUFFICES ASSUME NewInv PROVE New!SentAsDrawn /\ New!WindowBounded /\ New!TierHasS3
  OBVIOUS
<1>1. /\ New!BodyRequest.retention = field.retention /\ New!BodyRequest.storage = field.storage
      /\ New!BodyRequest.tier = field.tier
      /\ New!BodyRequest.window = New!GetIdempotencyValue(field.number, field.unit)
      /\ New!BodyRequest.schema = IF drawn.useSchema THEN field.schema ELSE New!Null
  BY DEF New!BodyRequest
<1>2. DrawnIsField /\ S3Known /\ field.number \in Nat /\ field.unit \in New!Units
  BY DEF NewInv, NewTyped, FieldType
<1>3. New!SentAsDrawn
  BY <1>1, <1>2 DEF New!SentAsDrawn, DrawnIsField
<1>4. New!WindowBounded
  <2> SUFFICES ASSUME New!Valid
               PROVE  New!BodyRequest.window = 0 \/
                          (New!BodyRequest.window >= 100 /\ New!BodyRequest.window <= 86400000)
    BY DEF New!WindowBounded
  <2>1. New!IdempotencyValidator(field.number, field.unit)
    BY <1>2 DEF New!Valid, DrawnIsField
  <2> QED
    BY <1>1, <1>2, <2>1, WindowWithin
<1>5. New!TierHasS3
  BY <1>1, <1>2 DEF New!TierHasS3, DrawnIsField, S3Known
<1> QED
  BY <1>3, <1>4, <1>5

-----------------------------------------------------------------------------
(* The list of stations and its filter. *)

\* The stations shown are those that the list, the terms and the search of now find.
ShownIsFiltered == stationFilteredList = Filter!HandleFilter(stationList, filterTerms, searchInput)

\* The number on the filter is at least that of the fields chosen, and equal to it
\* unless fields came after a choice.
CounterCovers == counter >= Cardinality(chosen) /\ (raced \/ counter = Cardinality(chosen))

FilterTyped ==
    /\ stations \subseteq Listed /\ stationList \subseteq Listed /\ pushes \in Seq(SUBSET Listed)
    /\ listening \in {"no", "asked", "timer", "on"}
    /\ isOpen \in BOOLEAN /\ mounted \in BOOLEAN /\ fields \in BOOLEAN /\ raced \in BOOLEAN
    /\ chosen \subseteq Fields /\ filterTerms \subseteq Fields
    /\ counter \in Nat /\ counter <= MaxOpens * Cardinality(Fields)
    /\ asked \in Nat /\ opens \in Nat /\ asked <= opens /\ opens <= MaxOpens

FilterInv == FilterTyped /\ ShownIsFiltered /\ CounterCovers

\* The filter counts with its own instance of FiniteSets.
LEMMA SameCount == ASSUME NEW S PROVE Filter!Cardinality(S) = Cardinality(S)
BY DEF Filter!Cardinality, Cardinality

\* Every step of the list and its filter.
LEMMA FilterStep ==
    ASSUME FilterInv, [Filter!Next]_(Filter!vars)
    PROVE  FilterInv'
<1> USE ConsoleStationsAssumption
<1>0. FilterTyped /\ ShownIsFiltered /\ CounterCovers
  BY DEF FilterInv
<1>e. Cardinality({}) = 0
  BY FS_EmptySet
<1>c. Cardinality(chosen) \in Nat /\ IsFiniteSet(chosen)
  BY <1>0, FS_Subset, FS_CardinalityType DEF FilterTyped
<1>m. 0 <= MaxOpens * Cardinality(Fields)
  <2>1. Cardinality(Fields) \in Nat
    BY FS_CardinalityType
  <2> QED
    BY <2>1
<1> USE DEF FilterInv, ShownIsFiltered, CounterCovers
<1>1. CASE UNCHANGED Filter!vars
  BY <1>0, <1>1 DEF Filter!vars, Filter!wsVars, Filter!listVars, Filter!popVars, FilterTyped, Filter!HandleFilter
<1>2. CASE Filter!HandleOpenChange
  BY <1>0, <1>2, SMTT(30)
     DEF Filter!HandleOpenChange, Filter!Opened, Filter!wsVars, Filter!listVars, FilterTyped
<1>3. CASE Filter!BuildFilter
  <2>1. /\ asked > 0 /\ asked' = asked - 1 /\ fields' = TRUE /\ chosen' = {}
        /\ raced' = (raced \/ counter > 0)
        /\ UNCHANGED <<stations, pushes, pushed, listening, stationList, stationFilteredList, isOpen, mounted,
                       counter, opens, filterTerms, searchInput>>
    BY <1>3 DEF Filter!BuildFilter, Filter!wsVars, Filter!listVars
  <2>2. FilterTyped'
    <3>1. asked' \in Nat /\ asked' <= opens /\ raced' \in BOOLEAN /\ chosen' \subseteq Fields
      BY <1>0, <2>1 DEF FilterTyped
    <3> QED
      BY <1>0, <2>1, <3>1 DEF FilterTyped
  <2>3. ShownIsFiltered'
    BY <1>0, <2>1
  <2>4. CounterCovers'
    <3>1. counter' = counter /\ counter \in Nat
      BY <1>0, <2>1 DEF FilterTyped
    <3>2. Cardinality(chosen') = 0
      BY <1>e, <2>1
    <3>3. ~(counter > 0) => counter = 0
      BY <3>1
    <3>4. raced' \/ ~(counter > 0)
      BY <2>1, Zenon
    <3>5. raced' \/ counter' = 0
      BY <3>1, <3>3, <3>4
    <3>6. counter' >= 0
      BY <3>1
    <3> QED
      BY <3>2, <3>5, <3>6
  <2> QED
    BY <2>2, <2>3, <2>4
<1>4. CASE Filter!FilterDetailsFail
  BY <1>0, <1>4, SMTT(30) DEF Filter!FilterDetailsFail, Filter!wsVars, Filter!listVars, FilterTyped
<1>5. CASE Filter!HandleApply
  BY <1>0, <1>5 DEF Filter!HandleApply, Filter!SetFilterTerms, Filter!wsVars, FilterTyped
<1>6. CASE Filter!EnterKey
  BY <1>0, <1>6 DEF Filter!EnterKey, Filter!SetFilterTerms, Filter!wsVars, FilterTyped
<1>7. CASE Filter!HandleClear
  <2>1. /\ chosen' = {} /\ counter' = 0 /\ raced' = FALSE /\ filterTerms' = {}
        /\ stationFilteredList' = Filter!HandleFilter(stationList, {}, searchInput)
        /\ UNCHANGED <<stations, pushes, pushed, listening, stationList, isOpen, mounted, fields, asked,
                       opens, searchInput>>
    BY <1>7 DEF Filter!HandleClear, Filter!SetFilterTerms, Filter!wsVars
  <2>2. FilterTyped'
    BY <1>0, <1>m, <2>1 DEF FilterTyped
  <2>3. ShownIsFiltered'
    BY <2>1
  <2>4. CounterCovers'
    BY <1>e, <2>1
  <2> QED
    BY <2>2, <2>3, <2>4
<1>8. ASSUME NEW f \in Fields, Filter!UpdateChoice(f) PROVE FilterInv'
  <2>1. /\ chosen' \subseteq Fields /\ counter' <= MaxOpens * Cardinality(Fields)
        /\ UNCHANGED <<stations, pushes, pushed, listening, stationList, stationFilteredList, isOpen, mounted,
                       fields, asked, opens, raced, filterTerms, searchInput>>
    <3>1. chosen' = IF f \in chosen THEN chosen \ {f} ELSE chosen \cup {f}
      BY <1>8 DEF Filter!UpdateChoice
    <3>2. chosen' \subseteq Fields
      BY <1>0, <3>1 DEF FilterTyped
    <3>3. counter' <= MaxOpens * Cardinality(Fields)
      BY <1>8, SameCount DEF Filter!UpdateChoice
    <3> QED
      BY <1>8, <3>2, <3>3 DEF Filter!UpdateChoice, Filter!wsVars, Filter!listVars
  <2>2. CASE f \in chosen
    <3>1. chosen' = chosen \ {f} /\ counter' = counter - 1
      BY <1>8, <2>2 DEF Filter!UpdateChoice
    <3>2. Cardinality(chosen \ {f}) = Cardinality(chosen) - 1 /\ Cardinality(chosen \ {f}) \in Nat
      BY <1>c, <2>2, FS_RemoveElement, FS_CardinalityType
    <3>a. counter \in Nat /\ counter >= Cardinality(chosen) /\ Cardinality(chosen') = Cardinality(chosen) - 1
      BY <1>0, <3>1, <3>2 DEF FilterTyped
    <3>b. counter' \in Nat /\ counter' >= Cardinality(chosen')
      BY <1>c, <3>1, <3>2, <3>a, SMTT(30)
    <3>c. raced' \/ counter' = Cardinality(chosen')
      BY <1>0, <2>1, <3>1, <3>a
    <3>3. counter' \in Nat /\ counter' >= Cardinality(chosen') /\ (raced' \/ counter' = Cardinality(chosen'))
      BY <3>b, <3>c
    <3>4. FilterTyped'
      BY <1>0, <2>1, <3>3 DEF FilterTyped
    <3>5. ShownIsFiltered'
      BY <1>0, <2>1
    <3> QED
      BY <3>3, <3>4, <3>5
  <2>3. CASE f \notin chosen
    <3>1. chosen' = chosen \cup {f} /\ counter' = counter + 1
      BY <1>8, <2>3 DEF Filter!UpdateChoice
    <3>2. Cardinality(chosen \cup {f}) = Cardinality(chosen) + 1
      BY <1>c, <2>3, FS_AddElement
    <3> QED
      BY <1>0, <1>c, <2>1, <3>1, <3>2, SMTT(30) DEF FilterTyped
  <2> QED
    BY <2>2, <2>3
<1>9. ASSUME NEW q \in Searches \cup {""}, Filter!HandleSearch(q) PROVE FilterInv'
  BY <1>0, <1>9 DEF Filter!HandleSearch, Filter!wsVars, Filter!popVars, FilterTyped
<1>10. ASSUME NEW S \in SUBSET Listed, Filter!Push(S) PROVE FilterInv'
  <2>1. pushes' \in Seq(SUBSET Listed)
    BY <1>0, <1>10, AppendProperties DEF Filter!Push, FilterTyped
  <2> QED
    BY <1>0, <1>10, <2>1 DEF Filter!Push, Filter!listVars, Filter!popVars, FilterTyped
<1>11. CASE Filter!Subscribe
  BY <1>0, <1>11 DEF Filter!Subscribe, Filter!listVars, Filter!popVars, FilterTyped
<1>12. CASE Filter!Deliver
  <2>1. pushes' \in Seq(SUBSET Listed) /\ Head(pushes) \in SUBSET Listed
    BY <1>0, <1>12, HeadTailProperties DEF Filter!Deliver, FilterTyped
  <2> QED
    BY <1>0, <1>12, <2>1 DEF Filter!Deliver, Filter!SetStationList, Filter!popVars, FilterTyped
<1>13. CASE Filter!GetAllStations
  BY <1>0, <1>13 DEF Filter!GetAllStations, Filter!SetStationList, Filter!wsVars, Filter!popVars, FilterTyped
<1> QED
  BY <1>1, <1>2, <1>3, <1>4, <1>5, <1>6, <1>7, <1>8, <1>9, <1>10, <1>11, <1>12, <1>13 DEF Filter!Next

\* What the list of stations shows and its filter counts.
LEMMA FilterShows == FilterInv => Filter!TypeOK /\ Filter!ShownAreFound /\ Filter!CounterCounts
<1> SUFFICES ASSUME FilterInv PROVE Filter!TypeOK /\ Filter!ShownAreFound /\ Filter!CounterCounts
  OBVIOUS
<1>1. FilterTyped /\ ShownIsFiltered /\ CounterCovers
  BY DEF FilterInv
<1>a. stationList \subseteq Listed
  BY <1>1 DEF FilterTyped
<1>b. \A s : s \in stationFilteredList <=>
          /\ s \in stationList
          /\ searchInput # "" => s \in Finds(searchInput)
          /\ \A f \in filterTerms : \E g \in filterTerms : GroupOf(g) = GroupOf(f) /\ s \in Finds(g)
  BY <1>1, <1>a DEF ShownIsFiltered, Filter!HandleFilter, Filter!FoundBy
<1>c. \A s : s \in {x \in stationList :
                      /\ searchInput # "" => x \in Finds(searchInput)
                      /\ \A grp \in {GroupOf(f) : f \in filterTerms} :
                             \E f \in filterTerms : GroupOf(f) = grp /\ x \in Finds(f)} <=>
          /\ s \in stationList
          /\ searchInput # "" => s \in Finds(searchInput)
          /\ \A f \in filterTerms : \E g \in filterTerms : GroupOf(g) = GroupOf(f) /\ s \in Finds(g)
  OBVIOUS
<1>2. Filter!ShownAreFound
  BY <1>b, <1>c DEF Filter!ShownAreFound
<1>3. stationFilteredList \subseteq Listed
  BY <1>1 DEF FilterTyped, ShownIsFiltered, Filter!HandleFilter
<1>4. Filter!TypeOK
  <2>1. Cardinality(Fields) \in Nat /\ MaxOpens \in Nat
    BY ConsoleStationsAssumption, FS_CardinalityType
  <2>2. counter \in 0..(MaxOpens * Cardinality(Fields)) /\ asked \in 0..MaxOpens
    BY <1>1, <2>1 DEF FilterTyped
  <2>3. Filter!Cardinality(Fields) = Cardinality(Fields)
    BY SameCount
  <2> QED
    BY <1>1, <1>3, <2>2, <2>3 DEF FilterTyped, Filter!TypeOK
<1>5. Filter!CounterCounts
  <2>1. Filter!Cardinality(chosen) = Cardinality(chosen)
    BY SameCount
  <2> QED
    BY <1>1, <2>1 DEF CounterCovers, Filter!CounterCounts
<1> QED
  BY <1>2, <1>4, <1>5

-----------------------------------------------------------------------------
(* The pages side by side. *)

StationsInv ==
    /\ route = "purge" => PurgeInv
    /\ route = "dls" => DlsInv
    /\ route = "header" => HeaderInv
    /\ route = "editor" => EditorInv
    /\ route = "used" => UsedInv
    /\ route = "list" => ListInv
    /\ route = "create" => CreateInv
    /\ route = "filter" => FilterInv
    /\ route = "new" => NewInv
    /\ route = "tags" => TagInv

\* Every page as it is opened.
LEMMA StationsInit == Init => StationsInv
<1> SUFFICES ASSUME Init PROVE StationsInv
  OBVIOUS
<1> USE ConsoleStationsAssumption
<1>1. CASE route = "purge" /\ Purge!Init
  <2>1. Purge!TypeOK
    <3>1. /\ opened = FALSE /\ purgeData = {} /\ confirmed = FALSE /\ onEnter = {} /\ loader = FALSE
          /\ underWay = 0 /\ totals \in SUBSET Purge!Boxes /\ ticked = {} /\ blind = FALSE
      BY <1>1 DEF Purge!Init
    <3>2. {purgeData, onEnter, totals, ticked} \subseteq SUBSET Purge!Boxes
      BY <3>1
    <3>3. underWay \in 0..MaxPurges
      BY <3>1
    <3> QED
      BY <3>1, <3>2, <3>3 DEF Purge!TypeOK
  <2>2. BoxesTicked /\ ~blind
    BY <1>1 DEF BoxesTicked, Purge!Init
  <2> QED
    BY <1>1, <2>1, <2>2 DEF StationsInv, PurgeInv
<1>2. CASE route = "dls" /\ Dls!Init
  <2>1. LastSent /\ confReqs \in Seq(SUBSET Dls!Switches) /\ dls = attached
    BY <1>2 DEF LastSent, Dls!Init
  <2>2. dlsReqs \in Seq([op : {"attach", "detach"}, name : Stations]) /\ DOMAIN confReqs = {}
    BY <1>2 DEF Dls!Init
  <2>3. Dls!TypeOK
    BY <1>2, <2>2 DEF Dls!Init, Dls!TypeOK
  <2> QED
    BY <1>2, <2>1, <2>3 DEF StationsInv, DlsInv
<1>3. CASE route = "header" /\ Header!Init
  <2>1. HeaderTyped
    <3>1. reqs \in Seq(HeaderReq) /\ active \in [Schemas -> 1..2] /\ sent \in 0..MaxSent
      BY <1>3 DEF Header!Init
    <3>2. enforced \in Header!Version \cup {NoSchema} /\ schema = enforced
      BY <1>3 DEF Header!Init, Header!Version
    <3> QED
      BY <1>3, <3>1, <3>2 DEF HeaderTyped, Header!Init
  <2> QED
    BY <1>3, <2>1 DEF StationsInv, HeaderInv, SchemaComing, DetachComing, Header!Init
<1>4. CASE route = "filter" /\ Filter!Init
  <2>1. Cardinality(Fields) \in Nat /\ Cardinality({}) = 0
    BY FS_CardinalityType, FS_EmptySet
  <2>2. 0 <= MaxOpens * Cardinality(Fields)
    BY <2>1
  <2>3. FilterTyped
    <3>1. pushes \in Seq(SUBSET Listed) /\ stations \subseteq Listed /\ stationList \subseteq Listed
      <4>1. pushes = <<>> /\ stations \in SUBSET Listed /\ stationList = {}
        BY <1>4 DEF Filter!Init
      <4> QED
        BY <4>1
    <3>2. asked \in Nat /\ opens \in Nat /\ asked <= opens /\ opens <= MaxOpens
      <4>1. asked = 0 /\ opens = 0
        BY <1>4 DEF Filter!Init
      <4> QED
        BY <4>1
    <3> QED
      BY <1>4, <2>2, <3>1, <3>2 DEF FilterTyped, Filter!Init
  <2>4. ShownIsFiltered
    BY <1>4 DEF ShownIsFiltered, Filter!HandleFilter, Filter!Init
  <2>5. CounterCovers
    <3>1. counter = 0 /\ chosen = {}
      BY <1>4 DEF Filter!Init
    <3>2. Cardinality(chosen) = 0
      BY <2>1, <3>1
    <3> QED
      BY <3>1, <3>2 DEF CounterCovers
  <2> QED
    BY <1>4, <2>3, <2>4, <2>5 DEF StationsInv, FilterInv
<1>5. CASE route = "new" /\ New!Init
  <2>a. drawn \in DrawnType
    BY <1>5 DEF New!Init, New!FirstDrawn, DrawnType, New!Retentions, New!Units, New!Storages
  <2>b. /\ <<1, 0, 0, 0>> \in FieldTimes /\ 1000 \in FieldBytes /\ 10 \in FieldMessages
        /\ "" \in FieldSchemas /\ New!Null \in FieldStations
    BY DEF FieldTimes, FieldBytes, FieldMessages, FieldSchemas, FieldStations
  <2>c. field \in FieldType
    BY <1>5, <2>b, ZenonT(30) DEF New!Init, FieldType, New!Retentions, New!Units, New!Storages
  <2>d. asks \in AskType
    <3>1. asks = [schemas |-> "sent", get |-> "sent", connect |-> "idle", disconnect |-> "idle"]
      BY <1>5 DEF New!Init
    <3>2. /\ DOMAIN asks = {"schemas", "get", "connect", "disconnect"}
          /\ asks["schemas"] = "sent" /\ asks["get"] = "sent"
          /\ asks["connect"] = "idle" /\ asks["disconnect"] = "idle"
      BY <3>1
    <3>3. asks = [o \in DOMAIN asks |-> asks[o]]
      BY <3>1
    <3> QED
      BY <3>2, <3>3 DEF AskType
  <2>1. drawn \in DrawnType /\ field \in FieldType /\ asks \in AskType
    BY <2>a, <2>c, <2>d
  <2>2. NewTyped /\ DrawnIsField /\ S3Known
    BY <1>5, <2>1 DEF New!Init, New!FirstDrawn, NewTyped, DrawnIsField, S3Known
  <2> QED
    BY <1>5, <2>2 DEF StationsInv, NewInv
<1>9. CASE route = "list" /\ List!Init
  <2>1. Old \in Distinct /\ <<>> \in Distinct
    BY DEF Distinct
  <2> DEFINE r == [op |-> "list", names |-> {}, shown |-> <<>>, done |-> FALSE, result |-> <<>>]
  <2>2. r \in ListReq /\ reqs = <<r>>
    BY <1>9, <2>1 DEF ListReq, List!Init
  <2> HIDE DEF r
  <2>3. reqs \in Seq(ListReq) /\ pushes \in Seq(Distinct)
    <3>1. pushes = <<>>
      BY <1>9 DEF List!Init
    <3> QED
      BY <2>2, <3>1
  <2>4. ListTyped
    BY <1>9, <2>1, <2>3 DEF List!Init, ListTyped
  <2> QED
    BY <1>9, <2>4 DEF StationsInv, ListInv, SeenListed, DrawerOfBox, List!CheckAllHonest, List!Init
<1>6. CASE route = "editor" /\ Editor!Init
  <2>1. PICK t \in LocalOk \cap BrokerOk : \E m \in Structs(t) : versions = <<[text |-> t, struct |-> m]>>
    BY <1>6 DEF Editor!Init
  <2>2. PICK m \in Structs(t) : versions = <<[text |-> t, struct |-> m]>>
    BY <2>1
  <2> DEFINE v == [text |-> t, struct |-> m]
  <2>3. v \in EditorVersion /\ v.text = t /\ v.struct = m /\ versions = <<v>>
    BY <2>1, <2>2 DEF EditorVersion, NamesOwn, Messages
  <2>4. NamesOwn(t, m) /\ t \in Texts /\ m \in Messages
    BY <2>1 DEF NamesOwn, Messages
  <2> HIDE DEF v
  <2>5. versions \in Seq(EditorVersion) /\ Len(versions) = 1 /\ versions[1] = v
    BY <2>3
  <2>6. known \in EditorDetails /\ known = Editor!Now /\ known.active = 1 /\ known.versions = versions
    BY <1>6, <2>5 DEF Editor!Init, Editor!Now, EditorDetails
  <2>7. VersionsTyped /\ VersionsComing
    <3>1. reqs = <<>> /\ active = 1 /\ modals = {} /\ latest = 0 /\ mixed = FALSE
      BY <1>6 DEF Editor!Init
    <3>a. reqs \in Seq(EditorReq) /\ DOMAIN reqs = {} /\ Len(reqs) = 0
      BY <3>1
    <3>b. Once(known)
      <4>1. known.active \in 1..Len(known.versions) /\ Len(known.versions) <= Len(versions)
        <5> DEFINE n == Len(versions)
        <5>1. n = 1 /\ Len(known.versions) = n /\ known.active = 1
          BY <2>5, <2>6
        <5> HIDE DEF n
        <5>2. known.active \in 1..n /\ Len(known.versions) <= n /\ n = Len(known.versions)
          BY <5>1
        <5> QED
          BY <5>2 DEF n
      <4> QED
        BY <2>6, <4>1 DEF Once
    <3>c. active \in 1..Len(versions) /\ latest \in 0..Len(versions)
      BY <2>5, <3>1
    <3>2. VersionsTyped
      BY <2>5, <3>1, <3>a, <3>b, <3>c DEF VersionsTyped
    <3>3. VersionsComing
      BY <2>6, <3>1, <3>a DEF VersionsComing
    <3> QED
      BY <3>2, <3>3
  <2>8. Editor!Offer(t) \subseteq Messages
    BY <2>4 DEF Editor!Offer, Messages
  <2>9. EditTyped /\ StructFits /\ NoteFits /\ ErrorFits
    <3>1. EditTyped
      <4>1. /\ versionSelected = 1 /\ newVersion = versions[1].text
            /\ messageStructName = versions[1].struct /\ structList = Editor!Offer(newVersion)
            /\ updated = FALSE /\ validateError = FALSE /\ validateSuccess = FALSE
            /\ validating = "no" /\ moved = FALSE /\ overtaken = FALSE
        BY <1>6 DEF Editor!Init
      <4>2. newVersion = t /\ messageStructName = m
        BY <2>3, <2>5, <4>1
      <4>3. versionSelected \in 1..Len(known.versions)
        <5>1. Len(known.versions) = 1
          BY <2>5, <2>6
        <5> QED
          BY <4>1, <5>1
      <4>4. structList \subseteq Messages
        BY <2>8, <4>1, <4>2
      <4> QED
        BY <2>4, <4>1, <4>2, <4>3, <4>4 DEF EditTyped
    <3>2. StructFits
      BY <1>6, <2>1, <2>3, <2>4, <2>5, <2>6, <2>8 DEF Editor!Init, StructFits
    <3>3. NoteFits /\ ErrorFits
      BY <1>6, <2>1, <2>3, <2>4, <2>5, <2>6 DEF Editor!Init, NoteFits, ErrorFits
    <3> QED
      BY <3>1, <3>2, <3>3
  <2> QED
    BY <1>6, <2>7, <2>9 DEF StationsInv, EditorInv
<1>7. CASE route = "used" /\ Used!Init
  <2>1. UsedTyped
    <3>1. /\ attached \in SUBSET Stations /\ tags = UsedTags /\ details = [used |-> attached, tags |-> tags]
          /\ box = [used |-> attached # {}, tags |-> tags] /\ modal = "none" /\ mount = 0
          /\ allStations = {} /\ isCheck = {} /\ reqs = <<>> /\ sent = 0
      BY <1>7 DEF Used!Init
    <3>2. details \in UsedDetails
      BY <3>1 DEF UsedDetails
    <3>3. box \in [used : BOOLEAN, tags : SUBSET UsedTags]
      BY <3>1
    <3>4. reqs \in Seq(UsedReq)
      BY <3>1
    <3>5. sent \in 0..MaxUsedSent /\ mount \in 0..sent
      BY <3>1
    <3> QED
      BY <1>7, <3>1, <3>2, <3>3, <3>4, <3>5 DEF UsedTyped, Used!Init
  <2>2. Numbered /\ ChosenFit
    BY <1>7 DEF Numbered, ChosenFit, Used!Init
  <2>3. UsedComing
    BY <1>7 DEF UsedComing, Used!Init
  <2> QED
    BY <1>7, <2>1, <2>2, <2>3 DEF StationsInv, UsedInv
<1>8. CASE route = "tags" /\ Tag!Init
  <2>1. objects \in Seq(SUBSET Tags) /\ Len(objects) = 1 /\ objects[1] = tags
    BY <1>8 DEF Tag!Init
  <2>2. picker \in [open : BOOLEAN, all : SUBSET Tags, checked : SUBSET Tags, edited : BOOLEAN]
    BY <1>8 DEF Tag!Init, Tag!Closed
  <2>3. TagTyped
    <3>1. /\ known \in SUBSET Tags /\ tags = known /\ reqs = <<>> /\ sent = 0 /\ reload = <<>>
          /\ aside = FALSE
      BY <1>8 DEF Tag!Init
    <3>2. objects # <<>>
      <4>1. objects = <<tags>>
        BY <1>8 DEF Tag!Init
      <4>2. <<tags>> # <<>>
        OBVIOUS
      <4> QED
        BY <4>1, <4>2
    <3>3. reqs \in Seq(TagReq) /\ DOMAIN reqs = {}
      BY <3>1
    <3>4. sent \in 0..MaxSent
      BY <3>1
    <3> QED
      BY <2>1, <2>2, <3>1, <3>2, <3>3, <3>4 DEF TagTyped
  <2>4. TagsComing
    BY <1>8, <2>1 DEF TagsComing, Tag!Shown, Tag!Init
  <2> QED
    BY <1>8, <2>3, <2>4 DEF StationsInv, TagInv
<1>10. CASE route = "create" /\ Create!Init
  <2>1. CreateTyped
    <3>1. /\ broker = {} /\ reqs = <<>> /\ messageStructName = "" /\ created = ""
          /\ form = [name |-> "", type |-> "Protobuf", text |-> Example("Protobuf")]
      BY <1>10 DEF Create!Init
    <3>2. "Protobuf" \in Types /\ Example("Protobuf") \in Create!Contents
      BY DEF Create!Contents
    <3>3. form \in CreateForms
      BY <3>1, <3>2 DEF CreateForms
    <3>4. reqs \in Seq(CreateReq)
      <4>1. <<>> \in Seq(CreateReq)
        OBVIOUS
      <4> QED
        BY <3>1, <4>1
    <3>5. broker \subseteq CreateSchemas
      BY <3>1
    <3>6. /\ validateError = FALSE /\ validateSuccess = FALSE /\ loadingSubmit = FALSE /\ modalOpen = FALSE
          /\ attachModal = FALSE /\ left = FALSE /\ moved = FALSE /\ validating = "no"
      BY <1>10 DEF Create!Init
    <3>7. created \in Names \cup {""}
      <4>1. created = ""
        BY <3>1, Zenon
      <4> QED
        BY <4>1
    <3>8. messageStructName \in MessageNames
      <4>1. messageStructName = ""
        BY <3>1, Zenon
      <4> QED
        BY <4>1 DEF MessageNames
    <3> QED
      BY <3>3, <3>4, <3>5, <3>6, <3>7, <3>8 DEF CreateTyped
  <2>2. FormNoted /\ OwnStruct
    BY <1>10 DEF FormNoted, OwnStruct, Create!Init
  <2>3. loadingSubmit = FALSE
    BY <1>10 DEF Create!Init
  <2> QED
    BY <1>10, <2>1, <2>2, <2>3 DEF StationsInv, CreateInv
<1> QED
  BY <1>1, <1>2, <1>3, <1>4, <1>5, <1>6, <1>7, <1>8, <1>9, <1>10 DEF Init

\* All pages, whichever is looked at.
LEMMA StationsHold == Spec => []StationsInv
<1>1. StationsInv /\ [Next]_vars => StationsInv'
  <2> SUFFICES ASSUME StationsInv, [Next]_vars PROVE StationsInv'
    OBVIOUS
  <2>1. route' = route
    BY DEF Next, vars
  <2>2. route = "purge" => [Purge!Next]_(Purge!vars)
    BY DEF Next, vars, Purge!vars
  <2>3. route = "dls" => [Dls!Next]_(Dls!vars)
    BY DEF Next, vars, Dls!vars
  <2>4. route = "header" => [Header!Next]_(Header!vars)
    BY DEF Next, vars, Header!vars
  <2>5. route = "filter" => [Filter!Next]_(Filter!vars)
    BY DEF Next, vars, Filter!vars, Filter!wsVars, Filter!listVars, Filter!popVars
  <2>6. route = "new" => [New!Next]_(New!vars)
    BY DEF Next, vars, New!vars
  <2>9. route = "list" => [List!Next]_(List!vars)
    BY DEF Next, vars, List!vars, List!listVars, List!filterVars, List!checkVars, List!modalVars
  <2>7. route = "editor" => [Editor!Next]_(Editor!vars)
    BY DEF Next, vars, Editor!vars, Editor!editVars, Editor!noteVars
  <2>8. route = "used" => [Used!Next]_(Used!vars)
    BY DEF Next, vars, Used!vars, Used!modalVars
  <2>10. route = "tags" => [Tag!Next]_(Tag!vars)
    BY DEF Next, vars, Tag!vars
  <2>11. route = "create" => [Create!Next]_(Create!vars)
    BY DEF Next, vars, Create!vars, Create!noteVars, Create!modalVars
  <2> QED
    BY <2>1, <2>2, <2>3, <2>4, <2>5, <2>6, <2>7, <2>8, <2>9, <2>10, <2>11, PurgeStep, DlsStep, HeaderStep,
       EditorStep, UsedStep, ListStep, CreateStep, FilterStep, NewStep, TagStep
    DEF StationsInv
<1> QED
  BY <1>1, StationsInit, PTL DEF Spec

\* However many requests are under way and in whatever order they are answered, the
\* page shows the configuration that the broker has once nothing is under way, unless
\* one was overtaken or lost.
THEOREM ConfigurationAgreesHolds == Spec => []ConfigurationAgrees
<1>1. DlsInv => Dls!SwitchesAgree /\ Dls!DlsAgrees
  BY DEF DlsInv, LastSent, Dls!SwitchesAgree, Dls!DlsAgrees
<1>2. HeaderInv => Header!SchemaAgrees
  BY DEF HeaderInv, SchemaComing, Header!SchemaAgrees
<1>3. HeaderInv => Header!DetachLoaderEnds
  BY DEF HeaderInv, DetachComing, Header!DetachLoaderEnds, Header!Range
<1>4. StationsInv => ConfigurationAgrees
  BY <1>1, <1>2, <1>3 DEF StationsInv, ConfigurationAgrees
<1> QED
  BY <1>4, StationsHold, PTL

\* No purge, by the button or by the Enter key, covers a list that was not ticked since
\* the modal was opened.
THEOREM PurgedWasTickedHolds == Spec => []PurgedWasTicked
<1>1. StationsInv => PurgedWasTicked
  BY DEF StationsInv, PurgeInv, PurgedWasTicked, Purge!PurgedWasTicked
<1> QED
  BY <1>1, StationsHold, PTL

\* Whatever is filtered, ticked, deleted and pushed, no schema that still exists is lost
\* from the list, and the stations shown and fields counted are those found and chosen.
THEOREM ListCompleteHolds == Spec => []ListComplete
<1>1. StationsInv => ListComplete
  BY ListShows, FilterShows DEF StationsInv, ListComplete
<1> QED
  BY <1>1, StationsHold, PTL

\* However requests, their answers and what is opened meanwhile interleave, the drawer
\* shows what the broker has of the schema it names once nothing is under way, unless
\* an answer met other details or was lost.
THEOREM DrawerAgreesHolds == Spec => []DrawerAgrees
<1>1. StationsInv => DrawerAgrees
  BY EditorShows, UsedShows, ListShows, TagShows DEF StationsInv, DrawerAgrees
<1> QED
  BY <1>1, StationsHold, PTL

\* Whatever is typed, validated, chosen and sent while answers and their timer are
\* awaited, a note and the message named belong to the text on the screen, unless that
\* moved on in between; and all pages stay well typed.
THEOREM ValidationIsOfTextHolds == Spec => []ValidationIsOfText
<1>1. StationsInv => TypeOK
  <2>1. PurgeInv => Purge!TypeOK
    BY DEF PurgeInv
  <2>2. DlsInv => Dls!TypeOK
    BY DEF DlsInv
  <2>3. HeaderInv => Header!TypeOK
    <3> SUFFICES ASSUME HeaderInv PROVE Header!TypeOK
      OBVIOUS
    <3>1. HeaderTyped /\ \A i \in DOMAIN reqs : reqs[i] \in HeaderReq
      BY ElementOfSeq DEF HeaderInv, HeaderTyped
    <3>2. \A i \in DOMAIN reqs : reqs[i].op \in Header!Ops
      BY <3>1 DEF HeaderReq
    <3> QED
      BY <3>1, <3>2 DEF HeaderTyped, Header!TypeOK, Header!Range
  <2>4. NewInv => New!TypeOK
    <3> SUFFICES ASSUME NewInv PROVE New!TypeOK
      OBVIOUS
    <3>1. drawn.retention \in New!Retentions /\ drawn.unit \in New!Units /\ drawn.storage \in New!Storages
      BY DEF NewInv, NewTyped, DrawnType
    <3>2. field.schema \in {SchemaSeq[k] : k \in DOMAIN SchemaSeq} \cup {"", New!Null}
      BY DEF NewInv, NewTyped, FieldType, FieldSchemas
    <3>3. DOMAIN asks = {"schemas", "get", "connect", "disconnect"}
      BY DEF NewInv, NewTyped, AskType
    <3> QED
      BY <3>1, <3>2, <3>3 DEF NewInv, NewTyped, New!TypeOK
  <2> QED
    BY <2>1, <2>2, <2>3, <2>4, EditorShows, UsedShows, ListShows, CreateShows, FilterShows, TagShows
    DEF StationsInv, TypeOK
<1>2. StationsInv => ValidationIsOfText
  BY <1>1, EditorShows, CreateShows DEF StationsInv, ValidationIsOfText
<1> QED
  BY <1>2, StationsHold, PTL

\* Whatever numbers, times and amounts are typed, the form sends what it draws, within
\* the limits of the window, and a second tier only where the broker has S3.
THEOREM SentAsDrawnHolds == Spec => []SentAsDrawn
<1>1. StationsInv => SentAsDrawn
  BY FormSends DEF StationsInv, SentAsDrawn
<1> QED
  BY <1>1, StationsHold, PTL
=============================================================================
