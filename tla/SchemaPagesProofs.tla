------------------------- MODULE SchemaPagesProofs -------------------------
(***************************************************************************)
(* What holds of the list of schemas, of the drawer of a schema and of the *)
(* form for one, for any sets of schemas, texts, stations and tags.        *)
(***************************************************************************)
EXTENDS MCConsoleStations, SequenceTheorems, FiniteSetTheorems, TLAPS

-----------------------------------------------------------------------------
(* Requests that are answered in any order. *)

Without(s, i) == SubSeq(s, 1, i - 1) \o SubSeq(s, i + 1, Len(s))

\* What is left of a sequence without one of its elements: the others, in their order.
LEMMA WithoutOne ==
    ASSUME NEW S, NEW s \in Seq(S), NEW i \in 1..Len(s)
    PROVE  /\ Without(s, i) \in Seq(S) /\ Len(Without(s, i)) = Len(s) - 1
           /\ \A j \in 1..Len(s) - 1 : Without(s, i)[j] = IF j < i THEN s[j] ELSE s[j + 1]
<1> DEFINE a == SubSeq(s, 1, i - 1)
           b == SubSeq(s, i + 1, Len(s))
<1>1. /\ a \in Seq(S) /\ Len(a) = i - 1 /\ \A j \in 1..i - 1 : a[j] = s[j]
  BY SubSeqProperties
<1>2. /\ b \in Seq(S) /\ Len(b) = Len(s) - i /\ \A j \in 1..Len(s) - i : b[j] = s[i + j]
  BY SubSeqProperties
<1> HIDE DEF a, b
<1>3. /\ a \o b \in Seq(S) /\ Len(a \o b) = Len(s) - 1
      /\ \A j \in 1..Len(s) - 1 : (a \o b)[j] = IF j <= i - 1 THEN a[j] ELSE b[j - (i - 1)]
  <2>1. /\ a \o b \in Seq(S) /\ Len(a \o b) = Len(a) + Len(b)
        /\ \A j \in 1..Len(a) + Len(b) : (a \o b)[j] = IF j <= Len(a) THEN a[j] ELSE b[j - Len(a)]
    BY <1>1, <1>2, ConcatProperties
  <2>2. Len(s) \in Nat /\ i \in Int
    OBVIOUS
  <2>3. Len(a) + Len(b) = Len(s) - 1
    BY <1>1, <1>2, <2>2
  <2> QED
    BY <1>1, <2>1, <2>3
<1>4. ASSUME NEW j \in 1..Len(s) - 1 PROVE (a \o b)[j] = IF j < i THEN s[j] ELSE s[j + 1]
  <2>1. CASE j < i
    BY <1>1, <1>3, <2>1
  <2>2. CASE ~(j < i)
    <3>1. j - (i - 1) \in 1..Len(s) - i /\ i + (j - (i - 1)) = j + 1
      BY <2>2
    <3> QED
      BY <1>2, <1>3, <2>2, <3>1
  <2> QED
    BY <2>1, <2>2
<1> QED
  BY <1>3, <1>4 DEF Without, a, b

\* Every element but the one taken away is still there, and nothing else is.
LEMMA OthersStay ==
    ASSUME NEW S, NEW s \in Seq(S), NEW i \in 1..Len(s)
    PROVE  /\ \A k \in 1..Len(s) : k # i => \E j \in 1..Len(Without(s, i)) : Without(s, i)[j] = s[k]
           /\ \A j \in 1..Len(Without(s, i)) : \E k \in 1..Len(s) : k # i /\ Without(s, i)[j] = s[k]
<1>1. /\ Len(Without(s, i)) = Len(s) - 1
      /\ \A j \in 1..Len(s) - 1 : Without(s, i)[j] = IF j < i THEN s[j] ELSE s[j + 1]
  BY WithoutOne
<1>2. ASSUME NEW k \in 1..Len(s), k # i PROVE \E j \in 1..Len(s) - 1 : Without(s, i)[j] = s[k]
  <2>1. CASE k < i
    <3>1. k \in 1..Len(s) - 1
      BY <2>1
    <3> QED
      BY <1>1, <2>1, <3>1
  <2>2. CASE k > i
    <3>1. k - 1 \in 1..Len(s) - 1 /\ ~(k - 1 < i) /\ k - 1 + 1 = k
      BY <2>2
    <3> QED
      BY <1>1, <3>1
  <2> QED
    BY <1>2, <2>1, <2>2
<1>3. ASSUME NEW j \in 1..Len(s) - 1 PROVE \E k \in 1..Len(s) : k # i /\ Without(s, i)[j] = s[k]
  <2>1. CASE j < i
    <3>1. j \in 1..Len(s) /\ j # i
      BY <2>1
    <3> QED
      BY <1>1, <2>1, <3>1
  <2>2. CASE ~(j < i)
    <3>1. j + 1 \in 1..Len(s) /\ j + 1 # i
      BY <2>2
    <3> QED
      BY <1>1, <2>2, <3>1
  <2> QED
    BY <2>1, <2>2
<1> QED
  BY <1>1, <1>2, <1>3

-----------------------------------------------------------------------------
(* The list of schemas. *)

\* The list counts as its own instance of the finite sets does.
LEMMA ListCount == ASSUME NEW S PROVE List!Cardinality(S) = Cardinality(S)
BY DEF List!Cardinality, Cardinality

Rank(P, i) == List!Cardinality({j \in P : j <= i})

\* The places of a finite set of numbers are counted without a gap.
LEMMA Ranks ==
    ASSUME NEW P \in SUBSET Nat, IsFiniteSet(P)
    PROVE  /\ \A i \in P : Rank(P, i) \in 1..Cardinality(P)
           /\ \A i, j \in P : Rank(P, i) = Rank(P, j) => i = j
           /\ \A k \in 1..Cardinality(P) : \E i \in P : Rank(P, i) = k
<1> DEFINE B(i) == {j \in P : j <= i}
<1>1. \A i \in P : /\ IsFiniteSet(B(i)) /\ Cardinality(B(i)) \in Nat
                   /\ Cardinality(B(i)) <= Cardinality(P) /\ B(i) # {}
  <2> SUFFICES ASSUME NEW i \in P
               PROVE  /\ IsFiniteSet(B(i)) /\ Cardinality(B(i)) \in Nat
                      /\ Cardinality(B(i)) <= Cardinality(P) /\ B(i) # {}
    OBVIOUS
  <2>1. B(i) \in SUBSET P /\ i \in B(i)
    OBVIOUS
  <2> HIDE DEF B
  <2> QED
    BY <2>1, FS_Subset, FS_CardinalityType
<1>2. \A i \in P : Rank(P, i) = Cardinality(B(i))
  BY ListCount DEF Rank
<1>3. \A i \in P : Rank(P, i) \in 1..Cardinality(P)
  <2> SUFFICES ASSUME NEW i \in P PROVE Rank(P, i) \in 1..Cardinality(P)
    OBVIOUS
  <2> HIDE DEF B
  <2>1. Cardinality(B(i)) # 0
    BY <1>1, FS_EmptySet
  <2>2. Cardinality(P) \in Nat
    BY FS_CardinalityType
  <2> QED
    BY <1>1, <1>2, <2>1, <2>2
<1>4. ASSUME NEW i \in P, NEW j \in P, i < j PROVE Rank(P, i) # Rank(P, j)
  <2>0. i \in Nat /\ j \in Nat /\ \A k \in P : k \in Nat
    OBVIOUS
  <2>a. \A k \in P : k <= i => k <= j
    BY <1>4, <2>0
  <2>b. j <= j /\ ~(j <= i)
    BY <1>4, <2>0
  <2>1. B(i) \in SUBSET B(j) /\ j \in B(j) /\ j \notin B(i)
    BY <2>a, <2>b
  <2> HIDE DEF B
  <2>2. Cardinality(B(j)) # Cardinality(B(i))
    BY <1>1, <2>1, FS_Subset
  <2> QED
    BY <1>2, <2>2
<1>5. \A i, j \in P : Rank(P, i) = Rank(P, j) => i = j
  BY <1>4
<1>6. \A k \in 1..Cardinality(P) : \E i \in P : Rank(P, i) = k
  <2> DEFINE f == [i \in P |-> Rank(P, i)]
  <2>1. f \in Injection(P, 1..Cardinality(P))
    BY <1>3, <1>5 DEF Injection, IsInjective
  <2>2. IsFiniteSet(1..Cardinality(P)) /\ Cardinality(1..Cardinality(P)) = Cardinality(P)
    BY FS_CardinalityType, FS_Interval
  <2> HIDE DEF f
  <2>3. f \in Surjection(P, 1..Cardinality(P))
    BY <2>1, <2>2, FS_Injection
  <2> QED
    BY <2>3 DEF Surjection, f
<1> QED
  BY <1>3, <1>5, <1>6

\* Lists of schemas, each at one place.
Distinct == {l \in Seq(Schemas) : \A i, j \in DOMAIN l : l[i] = l[j] => i = j}

\* What is found of a list: its schemas that are sought, each of them at one place.
LEMMA FindIsFilter ==
    ASSUME NEW l \in Distinct, NEW F
    PROVE  /\ List!Find(l, F) \in Distinct
           /\ List!Range(List!Find(l, F)) = List!Range(l) \cap F
<1> DEFINE P == {i \in DOMAIN l : l[i] \in F}
           Place(k) == CHOOSE i \in P : Rank(P, i) = k
           fnd == List!Find(l, F)
<1>1. l \in Seq(Schemas) /\ \A i, j \in DOMAIN l : l[i] = l[j] => i = j
  BY DEF Distinct
<1>2. P \in SUBSET Nat /\ IsFiniteSet(P) /\ Cardinality(P) \in Nat
  <2>1. DOMAIN l = 1..Len(l) /\ Len(l) \in Nat
    BY <1>1
  <2>2. P \in SUBSET (1..Len(l)) /\ IsFiniteSet(1..Len(l))
    BY <2>1, FS_Interval
  <2> HIDE DEF P
  <2>3. IsFiniteSet(P)
    BY <2>2, FS_Subset
  <2> QED
    BY <2>2, <2>3, FS_CardinalityType
<1>3. fnd = [k \in 1..Cardinality(P) |-> l[Place(k)]]
  <2>1. fnd = [k \in 1..List!Cardinality(P) |-> l[Place(k)]]
    BY DEF List!Find, Rank
  <2> HIDE DEF P, fnd, Place
  <2> QED
    BY <2>1, ListCount
<1> HIDE DEF P, fnd
<1>4. /\ \A i \in P : Rank(P, i) \in 1..Cardinality(P)
      /\ \A i, j \in P : Rank(P, i) = Rank(P, j) => i = j
      /\ \A k \in 1..Cardinality(P) : \E i \in P : Rank(P, i) = k
  BY <1>2, Ranks
<1>5. \A k \in 1..Cardinality(P) : Place(k) \in P /\ Rank(P, Place(k)) = k
  BY <1>4
<1> HIDE DEF Place
<1>6. \A i \in P : i \in DOMAIN l /\ l[i] \in F /\ l[i] \in Schemas
  BY <1>1 DEF P
<1>7. fnd \in Seq(Schemas) /\ DOMAIN fnd = 1..Cardinality(P)
  <2>1. \A k \in 1..Cardinality(P) : l[Place(k)] \in Schemas
    BY <1>5, <1>6
  <2>2. fnd \in [1..Cardinality(P) -> Schemas]
    BY <1>3, <2>1
  <2> QED
    BY <1>2, <2>2, SeqDef
<1>8. \A k, m \in 1..Cardinality(P) : fnd[k] = fnd[m] => k = m
  BY <1>1, <1>3, <1>5, <1>6
<1>9. \A k \in 1..Cardinality(P) : fnd[k] \in List!Range(l) \cap F
  BY <1>3, <1>5, <1>6 DEF List!Range
<1>10. ASSUME NEW x \in List!Range(l) \cap F PROVE \E k \in 1..Cardinality(P) : fnd[k] = x
  <2>1. PICK i \in DOMAIN l : l[i] = x
    BY DEF List!Range
  <2>2. i \in P
    BY <2>1 DEF P
  <2>3. Rank(P, i) \in 1..Cardinality(P) /\ Place(Rank(P, i)) = i
    BY <1>4, <1>5, <2>2
  <2> QED
    BY <1>3, <2>1, <2>3
<1>11. List!Range(fnd) = List!Range(l) \cap F
  BY <1>7, <1>9, <1>10 DEF List!Range
<1> QED
  BY <1>7, <1>8, <1>11 DEF Distinct, fnd

ListReq ==
    [op : {"list", "delete"}, names : SUBSET Schemas, shown : Distinct, done : BOOLEAN, result : Distinct]

\* Unless a deletion was sent from a list without it, what the page was told of and
\* has not deleted is in its list.
SeenListed == ~hidden => seen \subseteq List!Range(schemaList)

\* A drawer is that of a box, and has the details of its schema unless the list changed
\* under it.
DrawerOfBox ==
    /\ drawer \in {0} \cup DOMAIN filteredList
    /\ drawer # 0 /\ ~shifted => details = filteredList[drawer]

ListTyped ==
    /\ {schemas, schemaList, filteredList, shownThen} \subseteq Distinct
    /\ pushes \in Seq(Distinct) /\ reqs \in Seq(ListReq)
    /\ isCheck \subseteq Schemas /\ isCheckAll \in BOOLEAN /\ seen \subseteq Schemas
    /\ loading \in {"asked", "timer", "no"} /\ confirm \in {"closed", "open", "typed"}
    /\ hidden \in BOOLEAN /\ shifted \in BOOLEAN

ListInv == ListTyped /\ SeenListed /\ DrawerOfBox /\ List!CheckAllHonest

\* The boxes of another list.
LEMMA BoxesOfList ==
    ASSUME ListInv, NEW l \in Distinct, List!Boxes(l)
    PROVE  filteredList' \in Distinct /\ DrawerOfBox' /\ shifted' \in BOOLEAN
BY DEF ListInv, ListTyped, DrawerOfBox, List!Boxes

\* A request that is answered or fails.
LEMMA ListAnswered ==
    ASSUME ListInv, NEW i \in DOMAIN reqs, reqs' = List!RemoveAt(reqs, i)
    PROVE  reqs' \in Seq(ListReq) /\ reqs[i] \in ListReq
<1>1. reqs \in Seq(ListReq) /\ i \in 1..Len(reqs)
  BY DEF ListInv, ListTyped
<1>2. reqs' = Without(reqs, i)
  BY DEF List!RemoveAt, Without
<1> QED
  BY <1>1, <1>2, WithoutOne, ElementOfSeq

\* Every step of the list of schemas.
LEMMA ListStep ==
    ASSUME ListInv, [List!Next]_(List!vars)
    PROVE  ListInv'
<1> USE ConsoleStationsAssumption
<1>0. /\ ListTyped /\ SeenListed /\ DrawerOfBox /\ List!CheckAllHonest
      /\ schemas \in Distinct /\ schemaList \in Distinct /\ filteredList \in Distinct /\ shownThen \in Distinct
  BY DEF ListInv, ListTyped
<1>e. <<>> \in Distinct
  BY DEF Distinct
<1>1. CASE UNCHANGED List!vars
  BY <1>0, <1>1 DEF List!vars, List!listVars, List!filterVars, List!checkVars, List!modalVars, ListInv,
     ListTyped, SeenListed, DrawerOfBox, List!CheckAllHonest
<1>2. ASSUME NEW F, List!ApplyTerms(F) \/ List!HandleSearch(F) PROVE ListInv'
  <2>1. List!Find(schemaList, F) \in Distinct
    BY <1>0, FindIsFilter
  <2>2. filteredList' \in Distinct /\ DrawerOfBox' /\ shifted' \in BOOLEAN
    BY <1>2, <2>1, BoxesOfList DEF List!ApplyTerms, List!HandleSearch
  <2>3. UNCHANGED <<schemas, schemaList, isCheck, isCheckAll, loading, confirm, shownThen, reqs, pushes, seen,
                    hidden>>
    BY <1>2 DEF List!ApplyTerms, List!HandleSearch, List!checkVars, List!modalVars
  <2> QED
    BY <1>0, <2>2, <2>3 DEF ListInv, ListTyped, SeenListed, List!CheckAllHonest
<1>3. ASSUME UNCHANGED <<schemas, schemaList, filteredList, drawer, details, seen, shifted, confirm, shownThen,
                         loading, reqs, pushes, hidden>>,
             isCheck' \subseteq Schemas, isCheckAll' \in BOOLEAN, isCheckAll' => isCheck' # {}
      PROVE  ListInv'
  BY <1>0, <1>3 DEF ListInv, ListTyped, SeenListed, DrawerOfBox, List!CheckAllHonest
<1>4. CASE List!OnCheckedAll
  <2>0. filteredList \in Seq(Schemas)
    BY <1>0 DEF Distinct
  <2>1. List!Range(filteredList) \subseteq Schemas
    BY <2>0, ElementOfSeq DEF List!Range
  <2>2. filteredList # <<>> => 1 \in DOMAIN filteredList
    BY <2>0, EmptySeq
  <2>3. filteredList # <<>> => List!Range(filteredList) # {}
    BY <2>2 DEF List!Range
  <2>4. /\ filteredList # <<>> /\ isCheckAll' = ~isCheckAll
        /\ isCheck' = IF isCheckAll THEN {} ELSE List!Range(filteredList)
        /\ UNCHANGED <<schemas, schemaList, filteredList, drawer, details, seen, shifted, confirm, shownThen,
                       loading, reqs, pushes, hidden>>
    BY <1>4 DEF List!OnCheckedAll, List!listVars, List!modalVars
  <2>5. isCheck' \subseteq Schemas
    BY <2>1, <2>4
  <2>6. isCheckAll' \in BOOLEAN
    BY <1>0, <2>4 DEF ListTyped
  <2>7. isCheckAll' => isCheck' # {}
    BY <1>0, <2>3, <2>4 DEF ListTyped
  <2> QED
    BY <1>3, <2>4, <2>5, <2>6, <2>7
<1>5. ASSUME NEW s \in Schemas, List!HandleCheckedClick(s) PROVE ListInv'
  <2>1. s \in isCheck /\ isCheck \ {s} = {} => Cardinality(isCheck) = 1
    <3>1. s \in isCheck /\ isCheck \ {s} = {} => isCheck = {s}
      OBVIOUS
    <3> QED
      BY <3>1, FS_Singleton
  <2>2. /\ isCheck' = IF s \in isCheck THEN isCheck \ {s} ELSE isCheck \cup {s}
        /\ isCheckAll' = (isCheckAll /\ ~(s \in isCheck /\ Cardinality(isCheck) = 1))
        /\ UNCHANGED <<schemas, schemaList, filteredList, drawer, details, seen, shifted, confirm, shownThen,
                       loading, reqs, pushes, hidden>>
    BY <1>5, ListCount DEF List!HandleCheckedClick, List!listVars, List!modalVars
  <2>3. isCheck' \subseteq Schemas
    BY <1>0, <2>2 DEF ListTyped
  <2>4. isCheckAll' \in BOOLEAN
    BY <2>2
  <2>5. isCheckAll' => isCheck' # {}
    BY <2>1, <2>2
  <2> QED
    BY <1>3, <2>2, <2>3, <2>4, <2>5
<1>6. CASE List!CloseDrawer
  BY <1>0, <1>6 DEF List!CloseDrawer, List!checkVars, List!modalVars, ListInv, ListTyped, SeenListed,
     DrawerOfBox, List!CheckAllHonest
<1>7. ASSUME NEW i \in DOMAIN filteredList, List!HandleDrawer(i) PROVE ListInv'
  BY <1>0, <1>7 DEF List!HandleDrawer, List!checkVars, List!modalVars, ListInv, ListTyped, SeenListed,
     DrawerOfBox, List!CheckAllHonest
<1>8. ASSUME NEW s \in Schemas, List!Created(s) PROVE ListInv'
  <2>1. /\ schemas \in Seq(Schemas) /\ \A i, j \in DOMAIN schemas : schemas[i] = schemas[j] => i = j
        /\ \A i \in DOMAIN schemas : schemas[i] # s
    BY <1>0, <1>8 DEF Distinct, List!Created, List!Range
  <2>2. schemas' = <<s>> \o schemas
    BY <1>8 DEF List!Created
  <2>3. /\ schemas' \in Seq(Schemas) /\ Len(schemas') = Len(schemas) + 1 /\ schemas'[1] = s
        /\ \A i \in 2..Len(schemas) + 1 : schemas'[i] = schemas[i - 1]
    BY <2>1, <2>2
  <2>4. \A i, j \in 1..Len(schemas') : schemas'[i] = schemas'[j] => i = j
    <3> SUFFICES ASSUME NEW i \in 1..Len(schemas'), NEW j \in 1..Len(schemas'), schemas'[i] = schemas'[j]
                 PROVE  i = j
      OBVIOUS
    <3>1. CASE i = 1 /\ j # 1
      <4>1. j - 1 \in DOMAIN schemas /\ schemas'[j] = schemas[j - 1]
        BY <2>1, <2>3, <3>1
      <4> QED
        BY <2>1, <2>3, <3>1, <4>1
    <3>2. CASE i # 1 /\ j = 1
      <4>1. i - 1 \in DOMAIN schemas /\ schemas'[i] = schemas[i - 1]
        BY <2>1, <2>3, <3>2
      <4> QED
        BY <2>1, <2>3, <3>2, <4>1
    <3>3. CASE i # 1 /\ j # 1
      <4>1. /\ i - 1 \in DOMAIN schemas /\ schemas'[i] = schemas[i - 1]
            /\ j - 1 \in DOMAIN schemas /\ schemas'[j] = schemas[j - 1]
        BY <2>1, <2>3, <3>3, SMTT(30)
      <4>2. i - 1 = j - 1
        BY <2>1, <4>1
      <4> QED
        BY <4>2
    <3> QED
      BY <3>1, <3>2, <3>3
  <2>5. schemas' \in Distinct
    BY <2>3, <2>4 DEF Distinct
  <2> QED
    BY <1>0, <1>8, <2>5 DEF List!Created, List!listVars, List!checkVars, List!modalVars, ListInv, ListTyped,
       SeenListed, DrawerOfBox, List!CheckAllHonest
<1>9. ASSUME NEW c \in {"open", "typed", "closed"}, List!DeleteModal(c) PROVE ListInv'
  BY <1>0, <1>e, <1>9 DEF List!DeleteModal, List!listVars, List!checkVars, ListInv, ListTyped, SeenListed,
     DrawerOfBox, List!CheckAllHonest
<1>10. ASSUME NEW shown \in {filteredList, shownThen}, List!HandleDeleteSelected(shown) PROVE ListInv'
  <2> DEFINE r == [op |-> "delete", names |-> isCheck, shown |-> shown, done |-> FALSE, result |-> <<>>]
  <2>1. r \in ListReq
    BY <1>0, <1>e DEF ListReq, ListTyped
  <2>2. reqs' = Append(reqs, r)
    BY <1>10 DEF List!HandleDeleteSelected
  <2> HIDE DEF r
  <2>3. reqs' \in Seq(ListReq)
    BY <1>0, <2>1, <2>2, AppendProperties DEF ListTyped
  <2> QED
    BY <1>0, <1>10, <2>3 DEF List!HandleDeleteSelected, List!listVars, List!checkVars, List!modalVars, ListInv,
       ListTyped, SeenListed, DrawerOfBox, List!CheckAllHonest
<1>11. CASE List!Push
  <2>1. pushes' \in Seq(Distinct)
    BY <1>0, <1>11, AppendProperties DEF List!Push, ListTyped
  <2> QED
    BY <1>0, <1>11, <2>1 DEF List!Push, List!listVars, List!checkVars, List!modalVars, ListInv, ListTyped,
       SeenListed, DrawerOfBox, List!CheckAllHonest
<1>12. ASSUME NEW l \in Distinct, List!SetSchemaList(l)
       PROVE  /\ schemaList' = l /\ filteredList' \in Distinct /\ DrawerOfBox' /\ shifted' \in BOOLEAN
              /\ List!Range(l) \subseteq Schemas
  <2>1. List!Find(l, search) \in Distinct
    BY FindIsFilter
  <2>2. List!Range(l) \subseteq Schemas
    BY ElementOfSeq DEF Distinct, List!Range
  <2> QED
    BY <1>12, <2>1, <2>2, BoxesOfList DEF List!SetSchemaList
<1>13. CASE List!Deliver
  <2>1. pushes' \in Seq(Distinct) /\ Head(pushes) \in Distinct
    BY <1>0, <1>13, HeadTailProperties DEF List!Deliver, ListTyped
  <2> QED
    BY <1>0, <1>12, <1>13, <2>1 DEF List!Deliver, List!checkVars, List!modalVars, ListInv, ListTyped,
       SeenListed, List!CheckAllHonest
<1>14. CASE List!LoadTimer
  BY <1>0, <1>14 DEF List!LoadTimer, List!listVars, List!checkVars, List!modalVars, ListInv, ListTyped,
     SeenListed, DrawerOfBox, List!CheckAllHonest
<1>15. ASSUME NEW i \in DOMAIN reqs, List!Handle(i) PROVE ListInv'
  <2> DEFINE new == [reqs[i] EXCEPT !.done = TRUE, !.result = schemas']
  <2>1. reqs \in Seq(ListReq) /\ reqs[i] \in ListReq
    BY <1>0, ElementOfSeq DEF ListTyped
  <2>2. schemas' \in Distinct
    BY <1>0, <1>15, FindIsFilter DEF List!Handle
  <2>3. new \in ListReq
    BY <2>1, <2>2 DEF ListReq
  <2>4. reqs' = [reqs EXCEPT ![i] = new]
    BY <1>15, <2>1 DEF List!Handle
  <2> HIDE DEF new
  <2>5. reqs' \in Seq(ListReq)
    BY <2>1, <2>3, <2>4, ExceptSeq
  <2> QED
    BY <1>0, <1>15, <2>2, <2>5 DEF List!Handle, List!listVars, List!checkVars, List!modalVars, ListInv,
       ListTyped, SeenListed, DrawerOfBox, List!CheckAllHonest
<1>16. ASSUME NEW i \in DOMAIN reqs, List!Fail(i) PROVE ListInv'
  <2>1. reqs' \in Seq(ListReq)
    BY <1>16, ListAnswered DEF List!Fail
  <2> QED
    BY <1>0, <1>e, <1>16, <2>1 DEF List!Fail, List!listVars, List!checkVars, List!modalVars, ListInv, ListTyped,
       SeenListed, DrawerOfBox, List!CheckAllHonest
<1>17. ASSUME NEW i \in DOMAIN reqs, List!Reply(i) PROVE ListInv'
  <2> DEFINE r == reqs[i]
  <2>1. reqs' \in Seq(ListReq) /\ r \in ListReq /\ UNCHANGED <<schemas, pushes>>
    BY <1>17, ListAnswered DEF List!Reply
  <2>2. r.names \subseteq Schemas /\ r.shown \in Distinct /\ r.result \in Distinct
    BY <2>1 DEF ListReq
  <2>3. CASE r.op = "list"
    <3>1. List!GetAllSchemas(r)
      BY <1>17, <2>3 DEF List!Reply
    <3> HIDE DEF r
    <3> QED
      BY <1>0, <1>12, <2>1, <2>2, <3>1 DEF List!GetAllSchemas, List!checkVars, List!modalVars, ListInv,
         ListTyped, SeenListed, List!CheckAllHonest
  <2>4. CASE r.op # "list"
    <3>1. List!DeleteReply(r)
      BY <1>17, <2>4 DEF List!Reply
    <3> HIDE DEF r
    <3> DEFINE l == List!Find(r.shown, Schemas \ r.names)
    <3>2. l \in Distinct /\ List!Range(l) = List!Range(r.shown) \cap (Schemas \ r.names)
      BY <2>2, FindIsFilter
    <3>3. List!SetSchemaList(l) /\ seen' = seen \ r.names
          /\ hidden' = (hidden \/ ~(List!Range(schemaList) \subseteq List!Range(r.shown)))
          /\ isCheck' = {} /\ isCheckAll' = FALSE /\ confirm' = "closed" /\ shownThen' = <<>>
          /\ loading' = loading
      BY <3>1 DEF List!DeleteReply
    <3> HIDE DEF l
    <3>4. SeenListed'
      BY <1>0, <1>12, <3>2, <3>3 DEF SeenListed, ListTyped
    <3> QED
      BY <1>0, <1>e, <1>12, <2>1, <3>2, <3>3, <3>4 DEF ListInv, ListTyped, List!CheckAllHonest
  <2> QED
    BY <2>3, <2>4
<1> QED
  BY <1>1, <1>2, <1>4, <1>5, <1>6, <1>7, <1>8, <1>9, <1>10, <1>11, <1>13, <1>14, <1>15, <1>16, <1>17
  DEF List!Next

\* What the list of schemas shows.
LEMMA ListShows == ListInv => List!TypeOK /\ List!SeenStays /\ List!CheckAllHonest /\ List!DrawerOfSchema
<1> SUFFICES ASSUME ListInv PROVE List!TypeOK /\ List!SeenStays /\ List!CheckAllHonest /\ List!DrawerOfSchema
  OBVIOUS
<1>1. ListTyped /\ SeenListed /\ DrawerOfBox /\ List!CheckAllHonest
  BY DEF ListInv
<1>2. /\ List!Range(schemaList) \subseteq Schemas /\ List!Range(filteredList) \subseteq Schemas
      /\ filteredList \in Seq(Schemas)
  BY <1>1, ElementOfSeq DEF ListTyped, Distinct, List!Range
<1>3. Len(filteredList) <= Cardinality(Schemas) /\ Cardinality(Schemas) \in Nat
  <2>1. filteredList \in Injection(1..Len(filteredList), Schemas)
    BY <1>1, <1>2 DEF ListTyped, Distinct, Injection, IsInjective
  <2>2. IsFiniteSet(1..Len(filteredList)) /\ Cardinality(1..Len(filteredList)) = Len(filteredList)
    <3>1. Len(filteredList) \in Nat
      BY <1>2
    <3>2. /\ IsFiniteSet(1..Len(filteredList))
          /\ Cardinality(1..Len(filteredList)) = IF 1 > Len(filteredList) THEN 0 ELSE Len(filteredList) - 1 + 1
      BY <3>1, FS_Interval
    <3> QED
      BY <3>1, <3>2
  <2>3. Cardinality(Schemas) \in Nat /\ IsFiniteSet(Schemas)
    BY FS_CardinalityType, ConsoleStationsAssumption
  <2>4. Cardinality(1..Len(filteredList)) <= Cardinality(Schemas)
    BY <2>1, <2>3, FS_Injection
  <2> QED
    BY <2>2, <2>3, <2>4
<1>4. drawer \in 0..Cardinality(Schemas)
  BY <1>1, <1>2, <1>3 DEF DrawerOfBox
<1>5. List!TypeOK
  BY <1>1, <1>2, <1>4, ListCount DEF ListTyped, List!TypeOK
<1>6. List!SeenStays
  BY <1>1 DEF SeenListed, List!SeenStays
<1>7. List!DrawerOfSchema
  BY <1>1 DEF DrawerOfBox, List!DrawerOfSchema
<1> QED
  BY <1>1, <1>5, <1>6, <1>7

-----------------------------------------------------------------------------
(* The tags of a station or schema. *)

TagReq ==
    {r \in [op : {"remove", "update", "create"}, add : SUBSET Tags, remove : SUBSET Tags, at : Nat,
            done : BOOLEAN, result : SUBSET Tags] : r.op = "remove" => r.add = {}}

TagTyped ==
    /\ tags \subseteq known /\ known \subseteq Tags
    /\ objects \in Seq(SUBSET Tags) /\ objects # <<>>
    /\ picker \in [open : BOOLEAN, all : SUBSET Tags, checked : SUBSET Tags, edited : BOOLEAN]
    /\ reqs \in Seq(TagReq) /\ \A i \in DOMAIN reqs : reqs[i].at \in DOMAIN objects
    /\ sent \in 0..MaxSent
    /\ reload = <<>> \/ \E S \in SUBSET Tags : reload = <<S>>
    /\ aside \in BOOLEAN

\* A change of the tags that the broker has made and the page has not heard of.
Unheard(i) == reqs[i].op # "create" /\ reqs[i].done

\* Unless the page may differ: without such a change it shows the broker's tags, and
\* the only one there is leads to them if it takes away a tag.
TagsComing ==
    ~aside =>
        /\ (\A i \in DOMAIN reqs : ~Unheard(i)) => Tag!Shown = tags
        /\ \A i \in DOMAIN reqs :
               (Unheard(i) /\ reqs[i].op = "remove" /\ \A j \in DOMAIN reqs \ {i} : ~Unheard(j))
                   => Tag!Shown \ reqs[i].remove = tags

TagInv == TagTyped /\ TagsComing

\* A request that is sent.
LEMMA TagSends ==
    ASSUME TagInv, NEW o \in {"remove", "update", "create"}, NEW add \in SUBSET Tags,
           NEW remove \in SUBSET Tags, Tag!Send(o, add, remove), o = "remove" => add = {},
           UNCHANGED <<known, tags, objects, reload, aside>>,
           picker' \in [open : BOOLEAN, all : SUBSET Tags, checked : SUBSET Tags, edited : BOOLEAN]
    PROVE  TagInv'
<1> USE ConsoleStationsAssumption
<1> DEFINE r == [op |-> o, add |-> add, remove |-> remove, at |-> Len(objects), done |-> FALSE, result |-> {}]
<1>0. TagTyped /\ TagsComing
  BY DEF TagInv
<1>1. Len(objects) \in DOMAIN objects /\ Len(objects) \in Nat
  BY <1>0, EmptySeq DEF TagTyped
<1>2. r \in TagReq /\ r.at = Len(objects) /\ ~r.done
  BY <1>1 DEF TagReq
<1>3. reqs' = Append(reqs, r) /\ sent < MaxSent /\ sent' = sent + 1
  BY DEF Tag!Send
<1> HIDE DEF r
<1>4. /\ reqs' \in Seq(TagReq) /\ Len(reqs') = Len(reqs) + 1 /\ reqs'[Len(reqs) + 1] = r
      /\ \A i \in 1..Len(reqs) : reqs'[i] = reqs[i]
  BY <1>0, <1>2, <1>3, AppendProperties DEF TagTyped
<1>5. /\ DOMAIN reqs' = DOMAIN reqs \cup {Len(reqs) + 1} /\ Len(reqs) + 1 \notin DOMAIN reqs
      /\ DOMAIN reqs = 1..Len(reqs)
  BY <1>0, <1>4, SMTT(30) DEF TagTyped
<1>6. TagTyped'
  <2>1. sent' \in 0..MaxSent
    BY <1>0, <1>3, SMTT(30) DEF TagTyped
  <2>2. \A i \in DOMAIN reqs' : reqs'[i].at \in DOMAIN objects
    BY <1>0, <1>1, <1>2, <1>4, <1>5 DEF TagTyped
  <2> QED
    BY <1>0, <1>4, <2>1, <2>2 DEF TagTyped
<1>7. \A i \in DOMAIN reqs' : Unheard(i)' <=> i \in DOMAIN reqs /\ Unheard(i)
  BY <1>2, <1>4, <1>5 DEF Unheard
<1>8. TagsComing'
  BY <1>0, <1>4, <1>5, <1>7 DEF TagsComing, Tag!Shown
<1> QED
  BY <1>6, <1>8 DEF TagInv

\* A request that is answered or fails: the others keep their order.
LEMMA TagAnswered ==
    ASSUME TagInv, NEW i \in DOMAIN reqs, reqs' = Tag!RemoveAt(reqs, i)
    PROVE  /\ reqs[i] \in TagReq /\ reqs' \in Seq(TagReq)
           /\ \A j \in DOMAIN reqs' : \E k \in DOMAIN reqs \ {i} : reqs'[j] = reqs[k]
           /\ (\E k \in DOMAIN reqs \ {i} : Unheard(k)) => \E j \in DOMAIN reqs' : Unheard(j)'
           /\ \A j \in DOMAIN reqs' :
                  (\A m \in DOMAIN reqs' \ {j} : ~Unheard(m)')
                      => \E k \in DOMAIN reqs \ {i} : /\ reqs'[j] = reqs[k]
                                                      /\ \A m \in DOMAIN reqs \ {i, k} : ~Unheard(m)
<1>0. reqs \in Seq(TagReq) /\ i \in 1..Len(reqs) /\ DOMAIN reqs = 1..Len(reqs)
  BY DEF TagInv, TagTyped
<1>1. reqs' = Without(reqs, i)
  BY DEF Tag!RemoveAt, Without
<1>2. /\ reqs' \in Seq(TagReq) /\ Len(reqs') = Len(reqs) - 1
      /\ \A j \in 1..Len(reqs) - 1 : reqs'[j] = IF j < i THEN reqs[j] ELSE reqs[j + 1]
  BY <1>0, <1>1, WithoutOne
<1>3. DOMAIN reqs' = 1..Len(reqs) - 1
  BY <1>2
<1> DEFINE from(j) == IF j < i THEN j ELSE j + 1
           to(k) == IF k < i THEN k ELSE k - 1
<1>4. \A j \in DOMAIN reqs' : from(j) \in DOMAIN reqs \ {i} /\ reqs'[j] = reqs[from(j)]
  BY <1>0, <1>2, <1>3
<1>5. \A k \in DOMAIN reqs \ {i} : to(k) \in DOMAIN reqs' /\ reqs'[to(k)] = reqs[k]
  <2> SUFFICES ASSUME NEW k \in DOMAIN reqs \ {i} PROVE to(k) \in DOMAIN reqs' /\ reqs'[to(k)] = reqs[k]
    OBVIOUS
  <2>1. to(k) \in 1..Len(reqs) - 1 /\ from(to(k)) = k
    BY <1>0
  <2> QED
    BY <1>3, <1>4, <2>1
<1>6. \A j \in DOMAIN reqs' : \A k \in DOMAIN reqs \ {i} : k # from(j) => to(k) # j
  BY <1>0, <1>3
<1>7. ASSUME NEW j \in DOMAIN reqs', \A m \in DOMAIN reqs' \ {j} : ~Unheard(m)'
      PROVE  \A m \in DOMAIN reqs \ {i, from(j)} : ~Unheard(m)
  <2> SUFFICES ASSUME NEW m \in DOMAIN reqs \ {i, from(j)} PROVE ~Unheard(m)
    OBVIOUS
  <2>1. to(m) \in DOMAIN reqs' \ {j} /\ reqs'[to(m)] = reqs[m]
    BY <1>5, <1>6
  <2> HIDE DEF to, from
  <2>2. ~Unheard(to(m))'
    BY <1>7, <2>1
  <2> QED
    BY <2>1, <2>2 DEF Unheard
<1> HIDE DEF from, to
<1>8. (\E k \in DOMAIN reqs \ {i} : Unheard(k)) => \E j \in DOMAIN reqs' : Unheard(j)'
  BY <1>5 DEF Unheard
<1>9. reqs[i] \in TagReq
  BY <1>0, ElementOfSeq
<1> QED
  BY <1>2, <1>4, <1>7, <1>8, <1>9

\* Every step of the tags.
LEMMA TagStep ==
    ASSUME TagInv, [Tag!Next]_(Tag!vars)
    PROVE  TagInv'
<1> USE ConsoleStationsAssumption
<1>0. TagTyped /\ TagsComing
  BY DEF TagInv
<1>a. Len(objects) \in DOMAIN objects /\ Tag!Shown \in SUBSET Tags
  BY <1>0, EmptySeq, ElementOfSeq DEF TagTyped, Tag!Shown
<1>b. Tag!Closed \in [open : BOOLEAN, all : SUBSET Tags, checked : SUBSET Tags, edited : BOOLEAN]
  BY DEF Tag!Closed
<1>c. ASSUME UNCHANGED <<known, tags, objects, reqs, sent, reload, aside>>,
             picker' \in [open : BOOLEAN, all : SUBSET Tags, checked : SUBSET Tags, edited : BOOLEAN]
      PROVE  TagInv'
  BY <1>0, <1>c DEF TagInv, TagTyped, TagsComing, Unheard, Tag!Shown
<1>1. CASE UNCHANGED Tag!vars
  BY <1>0, <1>1, <1>c DEF Tag!vars, TagTyped
<1>2. ASSUME NEW t \in Tags, Tag!RemoveTag(t) PROVE TagInv'
  <2>1. {} \in SUBSET Tags /\ {t} \in SUBSET Tags /\ "remove" \in {"remove", "update", "create"}
    OBVIOUS
  <2>2. Tag!Send("remove", {}, {t}) /\ UNCHANGED <<known, tags, objects, reload, aside, picker>>
    BY <1>2 DEF Tag!RemoveTag
  <2>3. picker' \in [open : BOOLEAN, all : SUBSET Tags, checked : SUBSET Tags, edited : BOOLEAN]
    BY <1>0, <2>2 DEF TagTyped
  <2> QED
    BY <2>1, <2>2, <2>3, TagSends
<1>3. ASSUME NEW t \in Tags, Tag!HandleCheck(t) PROVE TagInv'
  <2> DEFINE ticks == IF t \in picker.checked THEN picker.checked \ {t} ELSE picker.checked \cup {t}
  <2>1. picker' = [picker EXCEPT !.checked = ticks, !.edited = TRUE] /\ ticks \in SUBSET Tags
    BY <1>0, <1>3 DEF Tag!HandleCheck, TagTyped
  <2> HIDE DEF ticks
  <2>2. picker' \in [open : BOOLEAN, all : SUBSET Tags, checked : SUBSET Tags, edited : BOOLEAN]
    BY <1>0, <2>1 DEF TagTyped
  <2> QED
    BY <1>3, <1>c, <2>2 DEF Tag!HandleCheck
<1>4. ASSUME NEW t \in Tags, Tag!NewTag(t) PROVE TagInv'
  <2>1. {} \in SUBSET Tags /\ {t} \in SUBSET Tags /\ "create" \in {"remove", "update", "create"}
    OBVIOUS
  <2>2. Tag!Send("create", {t}, {}) /\ UNCHANGED <<known, tags, objects, reload, aside, picker>>
    BY <1>4 DEF Tag!NewTag
  <2>3. picker' \in [open : BOOLEAN, all : SUBSET Tags, checked : SUBSET Tags, edited : BOOLEAN]
    BY <1>0, <2>2 DEF TagTyped
  <2> QED
    BY <2>1, <2>2, <2>3, TagSends
<1>5. CASE Tag!OpenPicker
  <2>1. PICK a \in {known, {}} : picker' = [open |-> TRUE, all |-> a, checked |-> Tag!Shown, edited |-> FALSE]
    BY <1>5 DEF Tag!OpenPicker
  <2>2. picker' \in [open : BOOLEAN, all : SUBSET Tags, checked : SUBSET Tags, edited : BOOLEAN]
    BY <1>0, <1>a, <2>1 DEF TagTyped
  <2> QED
    BY <1>5, <1>c, <2>2 DEF Tag!OpenPicker
<1>6. CASE Tag!HandleSaveChanges
  <2>1. picker.checked \ Tag!Shown \in SUBSET Tags /\ Tag!Shown \ picker.checked \in SUBSET Tags
    BY <1>0, <1>a DEF TagTyped
  <2>2. CASE picker.edited
    <3>1. Tag!Send("update", picker.checked \ Tag!Shown, Tag!Shown \ picker.checked)
      BY <1>6, <2>2 DEF Tag!HandleSaveChanges
    <3> QED
      BY <1>6, <1>b, <2>1, <3>1, TagSends DEF Tag!HandleSaveChanges
  <2>3. CASE ~picker.edited
    BY <1>6, <1>b, <1>c, <2>3 DEF Tag!HandleSaveChanges
  <2> QED
    BY <2>2, <2>3
<1>7. ASSUME NEW i \in DOMAIN reqs, Tag!Handle(i) PROVE TagInv'
  <2> DEFINE r == reqs[i]
             now == IF r.op = "create" THEN tags ELSE (tags \cup r.add) \ r.remove
             new == [r EXCEPT !.done = TRUE, !.result = now]
  <2>1. reqs \in Seq(TagReq) /\ r \in TagReq /\ i \in 1..Len(reqs)
    BY <1>0, ElementOfSeq, SMTT(30) DEF TagTyped
  <2>2. /\ ~r.done /\ tags' = now /\ known' = known \cup r.add
        /\ reqs' = [reqs EXCEPT ![i].done = TRUE, ![i].result = now]
        /\ UNCHANGED <<objects, picker, sent, reload, aside>>
    BY <1>7 DEF Tag!Handle
  <2>3. reqs' = [reqs EXCEPT ![i] = new]
    BY <2>1, <2>2
  <2>4. now \subseteq known' /\ known' \subseteq Tags /\ (r.op = "remove" => now = tags \ r.remove)
    BY <1>0, <2>1, <2>2 DEF TagTyped, TagReq
  <2>5. r.op = "create" => now = tags
    OBVIOUS
  <2> HIDE DEF now
  <2>6. new \in TagReq /\ new.op = r.op /\ new.remove = r.remove /\ new.done /\ new.at = r.at
    <3> HIDE DEF r
    <3> QED
      BY <2>1, <2>4 DEF TagReq
  <2> HIDE DEF new
  <2>7. /\ reqs' \in Seq(TagReq) /\ DOMAIN reqs' = DOMAIN reqs /\ reqs'[i] = new
        /\ \A j \in DOMAIN reqs : j # i => reqs'[j] = reqs[j]
    BY <2>1, <2>3, <2>6, ExceptSeq
  <2>8. TagTyped'
    BY <1>0, <2>2, <2>4, <2>6, <2>7 DEF TagTyped
  <2>9. /\ \A j \in DOMAIN reqs : j # i => (Unheard(j)' <=> Unheard(j))
        /\ Unheard(i)' <=> r.op # "create"
        /\ ~Unheard(i) /\ Tag!Shown' = Tag!Shown
    BY <2>2, <2>6, <2>7 DEF Unheard, Tag!Shown
  <2>10. TagsComing'
    <3>1. CASE r.op = "create"
      <4>1. \A j \in DOMAIN reqs : Unheard(j)' <=> Unheard(j)
        BY <2>9, <3>1
      <4>2. \A j \in DOMAIN reqs : reqs'[j].op = reqs[j].op /\ reqs'[j].remove = reqs[j].remove
        BY <2>6, <2>7
      <4>3. tags' = tags /\ Tag!Shown' = Tag!Shown /\ aside' = aside /\ DOMAIN reqs' = DOMAIN reqs
        BY <2>2, <2>5, <2>7, <2>9, <3>1
      <4> SUFFICES ASSUME ~aside PROVE TagsComing'
        BY <4>3 DEF TagsComing
      <4>4. (\A j \in DOMAIN reqs : ~Unheard(j)') => Tag!Shown = tags
        BY <1>0, <4>1 DEF TagsComing
      <4>5. ASSUME NEW j \in DOMAIN reqs, Unheard(j)', reqs'[j].op = "remove",
                   \A m \in DOMAIN reqs \ {j} : ~Unheard(m)'
            PROVE  Tag!Shown \ reqs'[j].remove = tags
        <5>1. Unheard(j) /\ reqs[j].op = "remove" /\ \A m \in DOMAIN reqs \ {j} : ~Unheard(m)
          BY <4>1, <4>2, <4>5
        <5> QED
          BY <1>0, <4>2, <5>1 DEF TagsComing
      <4> QED
        BY <4>3, <4>4, <4>5 DEF TagsComing
    <3>2. CASE r.op # "create"
      <4> SUFFICES ASSUME ~aside, NEW j \in DOMAIN reqs, Unheard(j)', reqs'[j].op = "remove",
                          \A m \in DOMAIN reqs \ {j} : ~Unheard(m)'
                   PROVE  Tag!Shown \ reqs'[j].remove = tags'
        BY <2>2, <2>7, <2>9, <3>2 DEF TagsComing
      <4>1. j = i /\ \A m \in DOMAIN reqs : ~Unheard(m)
        BY <2>9, <3>2
      <4> QED
        BY <1>0, <2>2, <2>4, <2>6, <2>7, <4>1 DEF TagsComing
    <3> QED
      BY <3>1, <3>2
  <2> QED
    BY <2>8, <2>10 DEF TagInv
<1>8. ASSUME NEW i \in DOMAIN reqs, reqs' = Tag!RemoveAt(reqs, i), UNCHANGED <<known, tags, sent, reload>>,
             aside' \in BOOLEAN, objects' \in Seq(SUBSET Tags), Len(objects') = Len(objects),
             picker' \in [open : BOOLEAN, all : SUBSET Tags, checked : SUBSET Tags, edited : BOOLEAN]
      PROVE  TagTyped'
  <2>1. /\ reqs' \in Seq(TagReq) /\ \A j \in DOMAIN reqs' : \E k \in DOMAIN reqs : reqs'[j] = reqs[k]
    BY <1>8, TagAnswered
  <2>2. objects' # <<>> /\ DOMAIN objects' = DOMAIN objects
    BY <1>0, <1>8, EmptySeq DEF TagTyped
  <2> QED
    BY <1>0, <1>8, <2>1, <2>2 DEF TagTyped
\* A request leaves that the broker has not handled, or that changes no tags.
<1>9. ASSUME NEW i \in DOMAIN reqs, reqs' = Tag!RemoveAt(reqs, i), UNCHANGED <<tags, objects>>,
             ~aside' => ~aside /\ ~Unheard(i)
      PROVE  TagsComing'
  <2> SUFFICES ASSUME ~aside' PROVE TagsComing'
    BY DEF TagsComing
  <2>1. ~aside /\ ~Unheard(i) /\ Tag!Shown' = Tag!Shown
    BY <1>9 DEF Tag!Shown
  <2>2. (\A j \in DOMAIN reqs' : ~Unheard(j)') => Tag!Shown' = tags'
    BY <1>0, <1>9, <2>1, TagAnswered DEF TagsComing
  <2>3. ASSUME NEW j \in DOMAIN reqs', Unheard(j)', reqs'[j].op = "remove",
               \A m \in DOMAIN reqs' \ {j} : ~Unheard(m)'
        PROVE  Tag!Shown' \ reqs'[j].remove = tags'
    <3>1. PICK k \in DOMAIN reqs \ {i} : reqs'[j] = reqs[k] /\ \A m \in DOMAIN reqs \ {i, k} : ~Unheard(m)
      BY <1>9, <2>3, TagAnswered
    <3>2. Unheard(k) /\ reqs[k].op = "remove" /\ \A m \in DOMAIN reqs \ {k} : ~Unheard(m)
      BY <2>1, <2>3, <3>1 DEF Unheard
    <3> QED
      BY <1>0, <1>9, <2>1, <3>1, <3>2 DEF TagsComing
  <2> QED
    BY <2>2, <2>3 DEF TagsComing
<1>10. ASSUME NEW i \in DOMAIN reqs, Tag!Fail(i) PROVE TagInv'
  <2>1. reqs[i] \in TagReq
    BY <1>10, TagAnswered DEF Tag!Fail
  <2>2. aside' \in BOOLEAN /\ aside' = (aside \/ reqs[i].done)
    BY <1>0, <1>10, <2>1 DEF Tag!Fail, TagTyped, TagReq
  <2>3. TagTyped'
    BY <1>0, <1>8, <1>10, <2>2 DEF Tag!Fail, TagTyped
  <2>4. TagsComing'
    BY <1>9, <1>10, <2>2 DEF Tag!Fail, Unheard
  <2> QED
    BY <2>3, <2>4 DEF TagInv
<1>11. ASSUME NEW i \in DOMAIN reqs, Tag!Reply(i) PROVE TagInv'
  <2> DEFINE r == reqs[i]
  <2>1. /\ r.done /\ reqs' = Tag!RemoveAt(reqs, i) /\ UNCHANGED <<known, tags, sent, reload>>
        /\ aside' = (aside \/ (r.op # "create" /\ Tag!Overtaken(i)))
    BY <1>11 DEF Tag!Reply
  <2>2. r \in TagReq /\ r.at \in DOMAIN objects
    BY <1>0, <2>1, TagAnswered DEF TagTyped
  <2>3. aside' \in BOOLEAN
    BY <1>0, <2>1 DEF TagTyped
  <2>4. CASE r.op = "create"
    <3>1. Tag!HandleNewTag(r.add) /\ objects' = objects
      BY <1>11, <2>4 DEF Tag!Reply
    <3>2. picker' \in [open : BOOLEAN, all : SUBSET Tags, checked : SUBSET Tags, edited : BOOLEAN]
      BY <1>0, <2>2, <3>1 DEF TagTyped, TagReq, Tag!HandleNewTag
    <3>3. TagTyped'
      BY <1>0, <1>8, <2>1, <2>3, <3>1, <3>2 DEF TagTyped
    <3>4. TagsComing'
      BY <1>9, <2>1, <2>3, <2>4, <3>1 DEF Unheard
    <3> QED
      BY <3>3, <3>4 DEF TagInv
  <2>5. CASE r.op # "create"
    <3> DEFINE S == IF r.op = "remove" THEN objects[r.at] \ r.remove ELSE r.result
    <3>1. /\ objects' = [objects EXCEPT ![Len(objects)] = S]
          /\ picker' \in {picker, Tag!Closed}
      BY <1>11, <2>2, <2>5 DEF Tag!Reply, Tag!RemoveTagReply, Tag!SetTags, TagReq
    <3>2. S \in SUBSET Tags
      BY <1>0, <2>2, ElementOfSeq, SMTT(30) DEF TagTyped, TagReq
    <3>3. ~aside' => (r.op = "remove" => S = Tag!Shown \ r.remove) /\ (r.op # "remove" => S = tags)
      BY <2>1, <2>2, <2>5 DEF Tag!Overtaken, Tag!Shown, TagReq
    <3> HIDE DEF S
    <3>4. /\ objects' \in Seq(SUBSET Tags) /\ Len(objects') = Len(objects)
          /\ objects'[Len(objects)] = S /\ Tag!Shown' = S
      BY <1>0, <1>a, <3>1, <3>2, ExceptSeq, SMTT(30) DEF TagTyped, Tag!Shown
    <3>5. TagTyped'
      BY <1>0, <1>8, <1>b, <2>1, <2>3, <3>1, <3>4 DEF TagTyped
    <3>6. TagsComing'
      <4> SUFFICES ASSUME ~aside' PROVE TagsComing'
        BY DEF TagsComing
      <4>1. ~aside /\ Unheard(i) /\ \A j \in DOMAIN reqs \ {i} : ~Unheard(j)
        BY <2>1, <2>5 DEF Tag!Overtaken, Unheard
      <4>2. S = tags
        BY <1>0, <3>3, <4>1 DEF TagsComing
      <4>3. \A j \in DOMAIN reqs' : ~Unheard(j)'
        <5>1. \A j \in DOMAIN reqs' : \E k \in DOMAIN reqs \ {i} : reqs'[j] = reqs[k]
          BY <2>1, TagAnswered
        <5> QED
          BY <4>1, <5>1 DEF Unheard
      <4> QED
        BY <2>1, <3>4, <4>2, <4>3 DEF TagsComing
    <3> QED
      BY <3>5, <3>6 DEF TagInv
  <2> QED
    BY <2>4, <2>5
<1>12. CASE Tag!ServeData
  <2>1. \E S \in SUBSET Tags : reload' = <<S>>
    BY <1>0, <1>12 DEF Tag!ServeData, TagTyped
  <2> QED
    BY <1>0, <1>12, <2>1 DEF Tag!ServeData, TagInv, TagTyped, TagsComing, Unheard, Tag!Shown
<1>13. CASE Tag!SetSocketData
  <2>1. PICK S \in SUBSET Tags : reload = <<S>>
    BY <1>0, <1>13 DEF Tag!SetSocketData, TagTyped
  <2>2. /\ objects' = Append(objects, S) /\ reload' = <<>> /\ UNCHANGED <<known, tags, picker, reqs, sent>>
        /\ aside' \in BOOLEAN
        /\ ~aside' => S = tags /\ \A i \in DOMAIN reqs : ~Unheard(i)
    BY <1>13, <2>1 DEF Tag!SetSocketData, Unheard, Tag!Range
  <2>3. /\ objects' \in Seq(SUBSET Tags) /\ Len(objects') = Len(objects) + 1
        /\ objects'[Len(objects) + 1] = S
    BY <1>0, <2>2, AppendProperties DEF TagTyped
  <2>4. objects' # <<>> /\ DOMAIN objects \subseteq DOMAIN objects' /\ Tag!Shown' = S
    BY <1>0, <2>3, EmptySeq, SMTT(30) DEF TagTyped, Tag!Shown
  <2>5. TagTyped'
    BY <1>0, <2>2, <2>3, <2>4 DEF TagTyped
  <2>6. TagsComing'
    BY <2>2, <2>4 DEF TagsComing, Unheard
  <2> QED
    BY <2>5, <2>6 DEF TagInv
<1> QED
  BY <1>1, <1>2, <1>3, <1>4, <1>5, <1>6, <1>7, <1>10, <1>11, <1>12, <1>13 DEF Tag!Next

\* What the page shows of the tags.
LEMMA TagShows == TagInv => Tag!TypeOK /\ Tag!TagsAgree
<1> SUFFICES ASSUME TagInv PROVE Tag!TypeOK /\ Tag!TagsAgree
  OBVIOUS
<1>1. TagTyped /\ TagsComing
  BY DEF TagInv
<1>2. \A i \in DOMAIN reqs : reqs[i] \in TagReq
  BY <1>1, ElementOfSeq DEF TagTyped
<1>3. \A r \in Tag!Range(reqs) : r.op \in {"remove", "update", "create"} /\ r.done \in BOOLEAN
  BY <1>2 DEF Tag!Range, TagReq
<1>4. Tag!TagsAgree
  BY <1>1 DEF TagsComing, Tag!TagsAgree
<1> QED
  BY <1>1, <1>3, <1>4 DEF TagTyped, Tag!TypeOK

-----------------------------------------------------------------------------
(* The stations and tags in the drawer of a schema. *)

UsedDetails == [used : SUBSET Stations, tags : SUBSET UsedTags]

UsedReq ==
    {r \in [op : {"list", "attach", "untag"}, names : SUBSET (Stations \cup UsedTags \cup {Letter}),
            modal : {"none", "attach", "update"}, snap : UsedDetails, number : 1..MaxUsedSent, done : BOOLEAN] :
        /\ r.op = "attach" => r.names \subseteq Stations \cup {Letter} /\ r.names # {}
        /\ r.op = "attach" /\ r.done => r.names \subseteq Stations}

UsedTyped ==
    /\ attached \subseteq Stations /\ tags \subseteq UsedTags /\ details \in UsedDetails
    /\ box \in [used : BOOLEAN, tags : SUBSET UsedTags]
    /\ modal \in {"none", "attach", "update"}
    /\ allStations \subseteq Stations /\ isCheck \subseteq Stations \cup {Letter}
    /\ isCheckAll \in BOOLEAN /\ indeterminate \in BOOLEAN /\ lettered \in BOOLEAN
    /\ crossed \in BOOLEAN /\ lost \in BOOLEAN
    /\ reqs \in Seq(UsedReq) /\ sent \in 0..MaxUsedSent /\ mount \in 0..sent

\* Requests are numbered, and a modal whose list is awaited has no stations yet.
Numbered ==
    /\ \A i \in DOMAIN reqs : reqs[i].number <= sent
    /\ \A i, j \in DOMAIN reqs : reqs[i].number = reqs[j].number => i = j
    /\ \A i \in DOMAIN reqs : reqs[i].op = "list" /\ reqs[i].number = mount => allStations = {}

\* Unless an answer met other details than its request: what is chosen is on the list,
\* and the stations of an update, on the list or in a request, are in the drawer.
ChosenFit ==
    ~crossed =>
        /\ isCheck \subseteq allStations \cup {Letter}
        /\ ~lettered => isCheck \subseteq allStations \ Used!Fixed
        /\ modal = "update" => allStations \subseteq details.used
        /\ \A i \in DOMAIN reqs :
              /\ reqs[i].snap.used \subseteq details.used
              /\ reqs[i].op = "attach" /\ reqs[i].modal = "update" =>
                     reqs[i].names \subseteq details.used \cup {Letter}

\* The broker's stations and tags are those of the drawer and of the requests it has
\* done, unless one met other details or was lost; the list behind agrees with it.
UsedComing ==
    ~crossed =>
        /\ box = [used |-> details.used # {}, tags |-> details.tags]
        /\ ~lost =>
            /\ \A s \in Stations :
                  s \in attached <=> \/ s \in details.used
                                     \/ \E i \in DOMAIN reqs :
                                           reqs[i].done /\ reqs[i].op = "attach" /\ s \in reqs[i].names
            /\ \A t \in UsedTags :
                  t \in tags <=> /\ t \in details.tags
                                 /\ \A i \in DOMAIN reqs :
                                       reqs[i].done /\ reqs[i].op = "untag" => t \notin reqs[i].names

UsedInv == UsedTyped /\ Numbered /\ ChosenFit /\ UsedComing

\* A request that is sent, from a modal that stays or is opened.
LEMMA UsedSends ==
    ASSUME UsedInv, NEW o \in {"list", "attach", "untag"}, NEW n, Used!Send(o, n),
           n \subseteq Stations \cup UsedTags \cup {Letter},
           o = "attach" => n \subseteq isCheck /\ n # {},
           UNCHANGED <<attached, tags, details, box, lettered, crossed, lost>>,
           \/ o # "list" /\ UNCHANGED <<modal, mount, allStations, isCheck, isCheckAll, indeterminate>>
           \/ /\ o = "list" /\ modal' \in {"attach", "update"} /\ mount' = sent + 1 /\ allStations' = {}
              /\ isCheck' = {} /\ isCheckAll' = FALSE /\ indeterminate' = FALSE
    PROVE  UsedInv'
<1> USE ConsoleStationsAssumption
<1> DEFINE r == [op |-> o, names |-> n, modal |-> modal', snap |-> details, number |-> sent', done |-> FALSE]
<1>0. UsedTyped /\ Numbered /\ ChosenFit /\ UsedComing
  BY DEF UsedInv
<1>1. reqs' = Append(reqs, r) /\ sent < MaxUsedSent /\ sent' = sent + 1
  BY DEF Used!Send
<1>2. /\ r \in UsedReq /\ r.number = sent + 1 /\ ~r.done /\ r.op = o /\ r.names = n /\ r.snap = details
      /\ r.modal = modal'
  BY <1>0, <1>1, SMTT(30) DEF UsedReq, UsedTyped
<1> HIDE DEF r
<1>3. /\ reqs' \in Seq(UsedReq) /\ Len(reqs') = Len(reqs) + 1 /\ reqs'[Len(reqs) + 1] = r
      /\ \A i \in 1..Len(reqs) : reqs'[i] = reqs[i]
  BY <1>0, <1>1, <1>2, AppendProperties DEF UsedTyped
<1>4. /\ DOMAIN reqs' = DOMAIN reqs \cup {Len(reqs) + 1} /\ Len(reqs) + 1 \notin DOMAIN reqs
      /\ DOMAIN reqs = 1..Len(reqs)
  BY <1>0, <1>3, SMTT(30) DEF UsedTyped
<1>5. UsedTyped'
  <2>1. sent \in Nat /\ mount \in 0..sent /\ MaxUsedSent \in Nat
    BY <1>0 DEF UsedTyped
  <2>2. mount' \in {mount, sent + 1}
    OBVIOUS
  <2>3. sent' \in 0..MaxUsedSent /\ mount' \in 0..sent'
    BY <1>1, <2>1, <2>2, SMTT(30)
  <2>4. attached' \subseteq Stations /\ tags' \subseteq UsedTags /\ details' \in UsedDetails
        /\ box' \in [used : BOOLEAN, tags : SUBSET UsedTags]
        /\ lettered' \in BOOLEAN /\ crossed' \in BOOLEAN /\ lost' \in BOOLEAN
    BY <1>0 DEF UsedTyped
  <2>5. modal' \in {"none", "attach", "update"} /\ allStations' \subseteq Stations
        /\ isCheck' \subseteq Stations \cup {Letter} /\ isCheckAll' \in BOOLEAN /\ indeterminate' \in BOOLEAN
    BY <1>0 DEF UsedTyped
  <2> QED
    BY <1>3, <2>3, <2>4, <2>5 DEF UsedTyped
<1>6. \A i \in DOMAIN reqs : reqs[i].number \in Nat /\ reqs[i].number <= sent
  BY <1>0, ElementOfSeq DEF UsedTyped, UsedReq, Numbered
<1>7. Numbered'
  <2>1. \A i \in DOMAIN reqs' : reqs'[i].number <= sent'
    BY <1>0, <1>1, <1>2, <1>3, <1>4, <1>6, SMTT(30) DEF UsedTyped
  <2>2. \A i, j \in DOMAIN reqs' : reqs'[i].number = reqs'[j].number => i = j
    <3>1. \A i, j \in DOMAIN reqs : reqs'[i].number = reqs'[j].number => i = j
      BY <1>0, <1>3, <1>4 DEF Numbered
    <3>2. sent \in Nat
      BY <1>0 DEF UsedTyped
    <3>3. \A i \in DOMAIN reqs : reqs'[i].number # sent + 1
      BY <1>3, <1>4, <1>6, <3>2, SMTT(30)
    <3>4. reqs'[Len(reqs) + 1].number = sent + 1
      BY <1>2, <1>3
    <3> QED
      BY <1>4, <3>1, <3>3, <3>4
  <2>3. \A i \in DOMAIN reqs' : reqs'[i].op = "list" /\ reqs'[i].number = mount' => allStations' = {}
    BY <1>0, <1>2, <1>3, <1>4 DEF Numbered
  <2> QED
    BY <2>1, <2>2, <2>3 DEF Numbered
<1>8. ChosenFit'
  <2> SUFFICES ASSUME ~crossed PROVE ChosenFit'
    BY DEF ChosenFit
  <2>1. /\ isCheck' \subseteq allStations' \cup {Letter}
        /\ ~lettered' => isCheck' \subseteq allStations' \ Used!Fixed'
        /\ modal' = "update" => allStations' \subseteq details'.used
    BY <1>0 DEF ChosenFit, Used!Fixed
  <2>2. o = "attach" /\ modal' = "update" => n \subseteq details.used \cup {Letter}
    BY <1>0 DEF ChosenFit
  <2>3. ASSUME NEW i \in DOMAIN reqs'
        PROVE  /\ reqs'[i].snap.used \subseteq details'.used
               /\ reqs'[i].op = "attach" /\ reqs'[i].modal = "update" =>
                      reqs'[i].names \subseteq details'.used \cup {Letter}
    <3>1. CASE i \in DOMAIN reqs
      BY <1>0, <1>3, <1>4, <3>1 DEF ChosenFit
    <3>2. CASE i = Len(reqs) + 1
      BY <1>2, <1>3, <2>2, <3>2
    <3> QED
      BY <1>4, <3>1, <3>2
  <2> QED
    BY <2>1, <2>3 DEF ChosenFit
<1>9. UsedComing'
  <2>1. \A s \in Stations :
           (\E i \in DOMAIN reqs' : reqs'[i].done /\ reqs'[i].op = "attach" /\ s \in reqs'[i].names)
               <=> \E i \in DOMAIN reqs : reqs[i].done /\ reqs[i].op = "attach" /\ s \in reqs[i].names
    BY <1>2, <1>3, <1>4
  <2>2. \A t \in UsedTags :
           (\A i \in DOMAIN reqs' : reqs'[i].done /\ reqs'[i].op = "untag" => t \notin reqs'[i].names)
               <=> \A i \in DOMAIN reqs : reqs[i].done /\ reqs[i].op = "untag" => t \notin reqs[i].names
    BY <1>2, <1>3, <1>4
  <2> QED
    BY <1>0, <2>1, <2>2 DEF UsedComing
<1> QED
  BY <1>5, <1>7, <1>8, <1>9 DEF UsedInv

\* A request that is answered or fails.
LEMMA UsedAnswered ==
    ASSUME UsedInv, NEW i \in DOMAIN reqs, reqs' = Used!RemoveAt(reqs, i)
    PROVE  /\ reqs[i] \in UsedReq /\ reqs' \in Seq(UsedReq)
           /\ \A j \in DOMAIN reqs' : \E k \in DOMAIN reqs \ {i} : reqs'[j] = reqs[k]
           /\ \A k \in DOMAIN reqs \ {i} : \E j \in DOMAIN reqs' : reqs'[j] = reqs[k]
           /\ \A j, m \in DOMAIN reqs' : reqs'[j].number = reqs'[m].number => j = m
           /\ \A j \in DOMAIN reqs' : reqs'[j].number # reqs[i].number
<1>0. reqs \in Seq(UsedReq) /\ i \in 1..Len(reqs) /\ DOMAIN reqs = 1..Len(reqs)
  BY DEF UsedInv, UsedTyped
<1>1. reqs' = Without(reqs, i)
  BY DEF Used!RemoveAt, Without
<1>2. /\ reqs' \in Seq(UsedReq) /\ Len(reqs') = Len(reqs) - 1
      /\ \A j \in 1..Len(reqs) - 1 : reqs'[j] = IF j < i THEN reqs[j] ELSE reqs[j + 1]
  BY <1>0, <1>1, WithoutOne
<1>3. DOMAIN reqs' = 1..Len(reqs) - 1
  BY <1>2
<1>4. /\ \A k \in DOMAIN reqs \ {i} : \E j \in DOMAIN reqs' : reqs'[j] = reqs[k]
      /\ \A j \in DOMAIN reqs' : \E k \in DOMAIN reqs \ {i} : reqs'[j] = reqs[k]
  <2>1. /\ \A k \in 1..Len(reqs) : k # i =>
               \E j \in 1..Len(Without(reqs, i)) : Without(reqs, i)[j] = reqs[k]
        /\ \A j \in 1..Len(Without(reqs, i)) :
               \E k \in 1..Len(reqs) : k # i /\ Without(reqs, i)[j] = reqs[k]
    BY <1>0, OthersStay
  <2>2. Len(reqs') = Len(Without(reqs, i)) /\ DOMAIN reqs' = 1..Len(reqs')
    BY <1>1, <1>2
  <2> QED
    BY <1>0, <1>1, <2>1, <2>2
<1>5. \A k, m \in DOMAIN reqs : reqs[k].number = reqs[m].number => k = m
  BY DEF UsedInv, Numbered
<1> DEFINE from(j) == IF j < i THEN j ELSE j + 1
<1>6. \A j \in DOMAIN reqs' : from(j) \in DOMAIN reqs /\ from(j) # i /\ reqs'[j] = reqs[from(j)]
  BY <1>0, <1>2, <1>3
<1>7. \A j, m \in DOMAIN reqs' : from(j) = from(m) => j = m
  BY <1>0, <1>3
<1> HIDE DEF from
<1>8. /\ \A j, m \in DOMAIN reqs' : reqs'[j].number = reqs'[m].number => j = m
      /\ \A j \in DOMAIN reqs' : reqs'[j].number # reqs[i].number
  BY <1>5, <1>6, <1>7
<1>9. reqs[i] \in UsedReq
  BY <1>0, ElementOfSeq
<1> QED
  BY <1>0, <1>2, <1>4, <1>8, <1>9

\* Every step of the stations and tags.
LEMMA UsedStep ==
    ASSUME UsedInv, [Used!Next]_(Used!vars)
    PROVE  UsedInv'
<1> USE ConsoleStationsAssumption
<1>0. UsedTyped /\ Numbered /\ ChosenFit /\ UsedComing
  BY DEF UsedInv
<1>1. CASE UNCHANGED Used!vars
  BY <1>0, <1>1 DEF Used!vars, Used!modalVars, UsedInv, UsedTyped, Numbered, ChosenFit, UsedComing, Used!Fixed
<1>2. ASSUME NEW m \in {"attach", "update"}, Used!OpenModal(m) PROVE UsedInv'
  BY <1>2, UsedSends DEF Used!OpenModal
<1>3. CASE Used!CancelModal
  <2>1. /\ modal' = "none" /\ mount' = 0 /\ allStations' = {} /\ isCheck' = {}
        /\ isCheckAll' = FALSE /\ indeterminate' = FALSE
        /\ UNCHANGED <<attached, tags, details, box, reqs, sent, lettered, crossed, lost>>
    BY <1>3 DEF Used!CancelModal, Used!Close
  <2>2. mount' \in 0..sent'
    BY <1>0, <2>1 DEF UsedTyped
  <2>3. UsedTyped'
    BY <1>0, <2>1, <2>2 DEF UsedTyped
  <2>4. Numbered'
    BY <1>0, <2>1 DEF Numbered
  <2>5. ChosenFit'
    BY <1>0, <2>1 DEF ChosenFit
  <2>6. UsedComing'
    BY <1>0, <2>1 DEF UsedComing
  <2> QED
    BY <2>3, <2>4, <2>5, <2>6 DEF UsedInv
<1>4. ASSUME UNCHANGED <<attached, tags, details, box, modal, mount, allStations, reqs, sent, crossed, lost>>,
             isCheck' \subseteq Stations \cup {Letter}, isCheckAll' \in BOOLEAN, indeterminate' \in BOOLEAN,
             lettered' \in BOOLEAN, isCheck \subseteq allStations \cup {Letter} =>
                 isCheck' \subseteq allStations \cup {Letter},
             ~lettered' => ~lettered /\ (isCheck \subseteq allStations \ Used!Fixed =>
                                             isCheck' \subseteq allStations \ Used!Fixed)
      PROVE  UsedInv'
  BY <1>0, <1>4 DEF UsedInv, UsedTyped, Numbered, ChosenFit, UsedComing, Used!Fixed
<1>5. CASE Used!OnCheckedAll
  <2>1. UNCHANGED <<attached, tags, details, box, modal, mount, allStations, reqs, sent, crossed, lost>>
    BY <1>5 DEF Used!OnCheckedAll
  <2>2. CASE Used!Fixed # {}
    <3>1. /\ indeterminate' = ~indeterminate /\ lettered' = TRUE /\ isCheckAll' = isCheckAll
          /\ isCheck' \in {{}, isCheck, {Letter}}
      BY <1>5, <2>2 DEF Used!OnCheckedAll
    <3> QED
      BY <1>0, <1>4, <2>1, <3>1 DEF UsedTyped
  <2>3. CASE Used!Fixed = {}
    <3>1. /\ indeterminate' = FALSE /\ lettered' = lettered /\ isCheckAll' = ~isCheckAll
          /\ isCheck' \in {{}, allStations}
      BY <1>5, <2>3 DEF Used!OnCheckedAll
    <3> QED
      BY <1>0, <1>4, <2>1, <2>3, <3>1 DEF UsedTyped
  <2> QED
    BY <2>2, <2>3
<1>6. ASSUME NEW s \in Stations, Used!HandleCheckedClick(s) PROVE UsedInv'
  <2>1. /\ UNCHANGED <<attached, tags, details, box, modal, mount, allStations, reqs, sent, lettered, crossed, lost>>
        /\ s \in allStations \ Used!Fixed /\ isCheckAll' \in BOOLEAN /\ indeterminate' \in BOOLEAN
        /\ isCheck' \in {isCheck \ {s}, isCheck \cup {s}}
    BY <1>6 DEF Used!HandleCheckedClick
  <2> QED
    BY <1>0, <1>4, <2>1 DEF UsedTyped
<1>7. CASE Used!AttachToStation
  <2>1. isCheck \subseteq Stations \cup UsedTags \cup {Letter} /\ isCheck # {}
    BY <1>0, <1>7 DEF UsedTyped, Used!AttachToStation, Used!EnforceEnabled
  <2> QED
    BY <1>7, <2>1, UsedSends DEF Used!AttachToStation, Used!modalVars
<1>8. ASSUME NEW t \in UsedTags, Used!RemoveTag(t) PROVE UsedInv'
  BY <1>8, UsedSends DEF Used!RemoveTag, Used!modalVars
<1>9. ASSUME NEW i \in DOMAIN reqs, Used!Handle(i) PROVE UsedInv'
  <2> DEFINE r == reqs[i]
             new == [r EXCEPT !.done = TRUE]
  <2>1. reqs \in Seq(UsedReq) /\ r \in UsedReq /\ i \in 1..Len(reqs)
    BY <1>0, ElementOfSeq DEF UsedTyped
  <2>2. /\ ~r.done /\ Letter \notin r.names
        /\ attached' = IF r.op = "attach" THEN attached \cup r.names ELSE attached
        /\ tags' = IF r.op = "untag" THEN tags \ r.names ELSE tags
        /\ reqs' = [reqs EXCEPT ![i].done = TRUE]
        /\ UNCHANGED <<details, box, modal, mount, allStations, isCheck, isCheckAll, indeterminate, sent,
                       lettered, crossed, lost>>
    BY <1>9 DEF Used!Handle, Used!modalVars
  <2>3. reqs' = [reqs EXCEPT ![i] = new]
    BY <2>1, <2>2
  <2>4. /\ new \in UsedReq /\ new.op = r.op /\ new.names = r.names /\ new.done /\ new.number = r.number
        /\ new.snap = r.snap /\ new.modal = r.modal
    <3> HIDE DEF r
    <3> QED
      BY <2>1, <2>2 DEF UsedReq
  <2> HIDE DEF new
  <2>5. /\ reqs' \in Seq(UsedReq) /\ DOMAIN reqs' = DOMAIN reqs /\ reqs'[i] = new
        /\ \A j \in DOMAIN reqs : j # i => reqs'[j] = reqs[j]
    BY <2>1, <2>3, <2>4, ExceptSeq
  <2>6. r.op = "attach" => r.names \subseteq Stations
    BY <2>1, <2>2 DEF UsedReq
  <2>7. UsedTyped'
    BY <1>0, <2>2, <2>5, <2>6 DEF UsedTyped
  <2>8. \A j \in DOMAIN reqs : /\ reqs'[j].op = reqs[j].op /\ reqs'[j].number = reqs[j].number
                               /\ reqs'[j].snap = reqs[j].snap /\ reqs'[j].modal = reqs[j].modal
                               /\ reqs'[j].names = reqs[j].names
    BY <2>4, <2>5
  <2>9. Numbered' /\ ChosenFit'
    BY <1>0, <2>2, <2>5, <2>8 DEF Numbered, ChosenFit, Used!Fixed
  <2>10. UsedComing'
    <3> SUFFICES ASSUME ~crossed, ~lost
                 PROVE  /\ \A s \in Stations :
                            s \in attached' <=>
                                \/ s \in details.used
                                \/ \E j \in DOMAIN reqs :
                                      reqs'[j].done /\ reqs'[j].op = "attach" /\ s \in reqs'[j].names
                        /\ \A t \in UsedTags :
                            t \in tags' <=>
                                /\ t \in details.tags
                                /\ \A j \in DOMAIN reqs :
                                      reqs'[j].done /\ reqs'[j].op = "untag" => t \notin reqs'[j].names
      BY <1>0, <2>2, <2>5 DEF UsedComing
    <3>1. \A s \in Stations :
             (\E j \in DOMAIN reqs : reqs'[j].done /\ reqs'[j].op = "attach" /\ s \in reqs'[j].names)
                 <=> \/ \E j \in DOMAIN reqs : reqs[j].done /\ reqs[j].op = "attach" /\ s \in reqs[j].names
                     \/ r.op = "attach" /\ s \in r.names
      BY <2>2, <2>4, <2>5
    <3>2. \A t \in UsedTags :
             (\A j \in DOMAIN reqs : reqs'[j].done /\ reqs'[j].op = "untag" => t \notin reqs'[j].names)
                 <=> /\ \A j \in DOMAIN reqs : reqs[j].done /\ reqs[j].op = "untag" => t \notin reqs[j].names
                     /\ r.op = "untag" => t \notin r.names
      BY <2>2, <2>4, <2>5
    <3> HIDE DEF r
    <3> QED
      BY <1>0, <2>2, <3>1, <3>2 DEF UsedComing
  <2> QED
    BY <2>7, <2>9, <2>10 DEF UsedInv
\* A request leaves and the modal closes; the drawer's stations are still there unless
\* details were crossed.
<1>10. ASSUME NEW i \in DOMAIN reqs, reqs' = Used!RemoveAt(reqs, i), sent' = sent, ~crossed' => ~crossed,
              ~crossed' => details.used \subseteq details'.used,
              mount' = 0, allStations' = {}
       PROVE  /\ Numbered' /\ mount' \in 0..sent' /\ reqs' \in Seq(UsedReq)
              /\ ~crossed' => \A j \in DOMAIN reqs' :
                    /\ reqs'[j].snap.used \subseteq details'.used
                    /\ reqs'[j].op = "attach" /\ reqs'[j].modal = "update" =>
                           reqs'[j].names \subseteq details'.used \cup {Letter}
  <2>1. /\ reqs' \in Seq(UsedReq)
        /\ \A j \in DOMAIN reqs' : \E k \in DOMAIN reqs \ {i} : reqs'[j] = reqs[k]
        /\ \A j, m \in DOMAIN reqs' : reqs'[j].number = reqs'[m].number => j = m
        /\ \A j \in DOMAIN reqs' : reqs'[j].number # reqs[i].number
    BY <1>10, UsedAnswered
  <2>2. Numbered'
    BY <1>0, <1>10, <2>1 DEF Numbered
  <2>3. mount' \in 0..sent'
    BY <1>0, <1>10 DEF UsedTyped
  <2>4. ~crossed' => \A j \in DOMAIN reqs' :
                        /\ reqs'[j].snap.used \subseteq details'.used
                        /\ reqs'[j].op = "attach" /\ reqs'[j].modal = "update" =>
                               reqs'[j].names \subseteq details'.used \cup {Letter}
    BY <1>0, <1>10, <2>1 DEF ChosenFit
  <2> QED
    BY <2>1, <2>2, <2>3, <2>4
\* What is still to come without a request.
<1>11. ASSUME NEW i \in DOMAIN reqs, reqs' = Used!RemoveAt(reqs, i)
       PROVE  /\ \A s \in Stations :
                   (\E k \in DOMAIN reqs : reqs[k].done /\ reqs[k].op = "attach" /\ s \in reqs[k].names)
                       <=> \/ \E j \in DOMAIN reqs' :
                                 reqs'[j].done /\ reqs'[j].op = "attach" /\ s \in reqs'[j].names
                           \/ reqs[i].done /\ reqs[i].op = "attach" /\ s \in reqs[i].names
              /\ \A t \in UsedTags :
                   (\A k \in DOMAIN reqs : reqs[k].done /\ reqs[k].op = "untag" => t \notin reqs[k].names)
                       <=> /\ \A j \in DOMAIN reqs' :
                                 reqs'[j].done /\ reqs'[j].op = "untag" => t \notin reqs'[j].names
                           /\ reqs[i].done /\ reqs[i].op = "untag" => t \notin reqs[i].names
  <2>1. /\ \A j \in DOMAIN reqs' : \E k \in DOMAIN reqs \ {i} : reqs'[j] = reqs[k]
        /\ \A k \in DOMAIN reqs \ {i} : \E j \in DOMAIN reqs' : reqs'[j] = reqs[k]
    BY <1>11, UsedAnswered
  <2>2. \A s \in Stations :
           (\E k \in DOMAIN reqs \ {i} : reqs[k].done /\ reqs[k].op = "attach" /\ s \in reqs[k].names)
               <=> \E j \in DOMAIN reqs' : reqs'[j].done /\ reqs'[j].op = "attach" /\ s \in reqs'[j].names
    BY <2>1
  <2>3. \A t \in UsedTags :
           (\A k \in DOMAIN reqs \ {i} : reqs[k].done /\ reqs[k].op = "untag" => t \notin reqs[k].names)
               <=> \A j \in DOMAIN reqs' : reqs'[j].done /\ reqs'[j].op = "untag" => t \notin reqs'[j].names
    BY <2>1
  <2> QED
    BY <2>2, <2>3
<1>12. ASSUME NEW i \in DOMAIN reqs, Used!Reply(i), reqs[i].op = "list" PROVE UsedInv'
  <2> DEFINE r == reqs[i]
  <2>1. /\ reqs' = Used!RemoveAt(reqs, i)
        /\ UNCHANGED <<attached, tags, sent, lettered, lost, details, box, modal, mount, isCheck, isCheckAll,
                       indeterminate, crossed>>
        /\ allStations' = IF r.number # mount THEN allStations
                          ELSE IF modal = "update" THEN Stations \cap r.snap.used ELSE Stations
    BY <1>12 DEF Used!Reply, Used!GetAllStations
  <2>2. reqs[i].number = mount => allStations = {}
    BY <1>0, <1>12 DEF Numbered
  <2>6. /\ reqs' \in Seq(UsedReq)
        /\ \A j \in DOMAIN reqs' : \E k \in DOMAIN reqs \ {i} : reqs'[j] = reqs[k]
        /\ \A j, m \in DOMAIN reqs' : reqs'[j].number = reqs'[m].number => j = m
        /\ \A j \in DOMAIN reqs' : reqs'[j].number # reqs[i].number
    BY <2>1, UsedAnswered
  <2>7. Numbered'
    BY <1>0, <2>1, <2>6 DEF Numbered
  <2>8. UsedTyped'
    BY <1>0, <2>1, <2>6 DEF UsedTyped
  <2>9. ChosenFit'
    <3> SUFFICES ASSUME ~crossed PROVE ChosenFit'
      BY <2>1 DEF ChosenFit
    <3>1. allStations \subseteq allStations'
      BY <2>1, <2>2
    <3>2. modal = "update" => allStations' \subseteq details.used
      BY <1>0, <2>1 DEF ChosenFit
    <3>3. \A j \in DOMAIN reqs' : /\ reqs'[j].snap.used \subseteq details.used
                                  /\ reqs'[j].op = "attach" /\ reqs'[j].modal = "update" =>
                                         reqs'[j].names \subseteq details.used \cup {Letter}
      BY <1>0, <2>6 DEF ChosenFit
    <3>4. Used!Fixed' = Used!Fixed
      BY <2>1 DEF Used!Fixed
    <3>5. /\ isCheck \subseteq allStations' \cup {Letter}
          /\ ~lettered => isCheck \subseteq allStations' \ Used!Fixed
      BY <1>0, <3>1 DEF ChosenFit
    <3> QED
      BY <2>1, <3>2, <3>3, <3>4, <3>5 DEF ChosenFit
  <2>10. UsedComing'
    <3>1. reqs[i].op # "attach" /\ reqs[i].op # "untag"
      BY <1>12
    <3> QED
      BY <1>0, <1>11, <2>1, <3>1 DEF UsedComing
  <2> QED
    BY <2>7, <2>8, <2>9, <2>10 DEF UsedInv
<1>13. ASSUME NEW i \in DOMAIN reqs, Used!Reply(i), reqs[i].op = "untag" PROVE UsedInv'
  <2> DEFINE r == reqs[i]
  <2>1. /\ reqs' = Used!RemoveAt(reqs, i) /\ r.done
        /\ UNCHANGED <<attached, tags, sent, lettered, lost, modal, mount, allStations, isCheck, isCheckAll,
                       indeterminate>>
        /\ details' = [r.snap EXCEPT !.tags = @ \ r.names]
        /\ box' = [box EXCEPT !.tags = r.snap.tags \ r.names]
        /\ crossed' = (crossed \/ r.snap # details)
    BY <1>13 DEF Used!Reply, Used!UpdateTags, Used!modalVars
  <2>2. r \in UsedReq
    BY <2>1, UsedAnswered
  <2>3. r.snap \in UsedDetails
    BY <2>2 DEF UsedReq
  <2>4. /\ details' \in UsedDetails /\ details'.used = r.snap.used /\ details'.tags = r.snap.tags \ r.names
    BY <2>1, <2>3 DEF UsedDetails
  <2>5. box' \in [used : BOOLEAN, tags : SUBSET UsedTags] /\ box'.used = box.used /\ box'.tags = details'.tags
    BY <1>0, <2>1, <2>3, <2>4 DEF UsedTyped, UsedDetails
  <2>6. crossed' \in BOOLEAN /\ (~crossed' => ~crossed /\ r.snap = details)
    BY <1>0, <2>1 DEF UsedTyped
  <2> HIDE DEF r
  <2>7. /\ reqs' \in Seq(UsedReq)
        /\ \A j \in DOMAIN reqs' : \E k \in DOMAIN reqs \ {i} : reqs'[j] = reqs[k]
        /\ \A j, m \in DOMAIN reqs' : reqs'[j].number = reqs'[m].number => j = m
    BY <2>1, UsedAnswered
  <2>8. Numbered'
    BY <1>0, <2>1, <2>7 DEF Numbered
  <2>9. UsedTyped'
    BY <1>0, <2>1, <2>4, <2>5, <2>6, <2>7 DEF UsedTyped
  <2>10. ChosenFit'
    <3> SUFFICES ASSUME ~crossed' PROVE ChosenFit'
      BY DEF ChosenFit
    <3>1. ~crossed /\ details'.used = details.used
      BY <2>4, <2>6
    <3> QED
      BY <1>0, <2>1, <2>7, <3>1 DEF ChosenFit, Used!Fixed
  <2>11. UsedComing'
    <3> SUFFICES ASSUME ~crossed' PROVE UsedComing'
      BY DEF UsedComing
    <3>1. ~crossed /\ details'.used = details.used /\ details'.tags = details.tags \ r.names
      BY <2>4, <2>6
    <3>2. box' = [used |-> details'.used # {}, tags |-> details'.tags]
      BY <1>0, <2>5, <3>1 DEF UsedComing
    <3>3. \A s \in Stations :
             (\E k \in DOMAIN reqs : reqs[k].done /\ reqs[k].op = "attach" /\ s \in reqs[k].names)
                 <=> \E j \in DOMAIN reqs' : reqs'[j].done /\ reqs'[j].op = "attach" /\ s \in reqs'[j].names
      BY <1>11, <1>13, <2>1
    <3>4. \A t \in UsedTags :
             (\A k \in DOMAIN reqs : reqs[k].done /\ reqs[k].op = "untag" => t \notin reqs[k].names)
                 <=> /\ \A j \in DOMAIN reqs' :
                           reqs'[j].done /\ reqs'[j].op = "untag" => t \notin reqs'[j].names
                     /\ t \notin r.names
      BY <1>11, <1>13, <2>1 DEF r
    <3> QED
      BY <1>0, <2>1, <3>1, <3>2, <3>3, <3>4 DEF UsedComing
  <2> QED
    BY <2>8, <2>9, <2>10, <2>11 DEF UsedInv
<1>14. ASSUME NEW i \in DOMAIN reqs, Used!Reply(i), reqs[i].op = "attach" PROVE UsedInv'
  <2> DEFINE r == reqs[i]
  <2>1. /\ reqs' = Used!RemoveAt(reqs, i) /\ r.done
        /\ UNCHANGED <<attached, tags, sent, lettered, lost>>
        /\ details' = IF r.modal = "update" THEN details ELSE [r.snap EXCEPT !.used = @ \cup r.names]
        /\ box' = IF r.modal = "update" THEN box ELSE [box EXCEPT !.used = TRUE]
        /\ crossed' = (crossed \/ (r.modal # "update" /\ r.snap # details))
        /\ modal' = "none" /\ mount' = 0 /\ allStations' = {} /\ isCheck' = {}
        /\ isCheckAll' = FALSE /\ indeterminate' = FALSE
    BY <1>14 DEF Used!Reply, Used!UpdateStations, Used!Close
  <2>2. r \in UsedReq
    BY <2>1, UsedAnswered
  <2>3. r.snap \in UsedDetails /\ r.names \subseteq Stations /\ r.names # {}
    BY <1>14, <2>1, <2>2 DEF UsedReq
  <2>4. /\ details' \in UsedDetails /\ box' \in [used : BOOLEAN, tags : SUBSET UsedTags]
        /\ r.modal # "update" => /\ details'.used = r.snap.used \cup r.names /\ details'.tags = r.snap.tags
                                 /\ box'.used = TRUE /\ box'.tags = box.tags
        /\ r.modal = "update" => details' = details /\ box' = box
    BY <1>0, <2>1, <2>3 DEF UsedTyped, UsedDetails
  <2>5. /\ crossed' \in BOOLEAN /\ (~crossed' => ~crossed)
        /\ ~crossed' => details'.used = details.used \cup r.names /\ details'.tags = details.tags
    <3>1. crossed' \in BOOLEAN /\ (~crossed' => ~crossed /\ (r.modal # "update" => r.snap = details))
      BY <1>0, <2>1 DEF UsedTyped
    <3>2. ~crossed /\ r.modal = "update" => r.names \subseteq details.used
      BY <1>0, <1>14, <2>3 DEF ChosenFit
    <3> QED
      BY <2>4, <3>1, <3>2
  <2> HIDE DEF r
  <2>a. /\ sent' = sent /\ (~crossed' => ~crossed) /\ mount' = 0 /\ allStations' = {}
        /\ (~crossed' => details.used \subseteq details'.used)
    BY <2>1, <2>5
  <2>6. /\ Numbered' /\ mount' \in 0..sent' /\ reqs' \in Seq(UsedReq)
        /\ ~crossed' => \A j \in DOMAIN reqs' :
              /\ reqs'[j].snap.used \subseteq details'.used
              /\ reqs'[j].op = "attach" /\ reqs'[j].modal = "update" =>
                     reqs'[j].names \subseteq details'.used \cup {Letter}
    BY <1>10, <2>1, <2>a
  <2>7. UsedTyped'
    BY <1>0, <2>1, <2>4, <2>5, <2>6 DEF UsedTyped
  <2>8. ChosenFit'
    BY <2>1, <2>6 DEF ChosenFit
  <2>9. UsedComing'
    <3> SUFFICES ASSUME ~crossed' PROVE UsedComing'
      BY DEF UsedComing
    <3>1. ~crossed /\ details'.used = details.used \cup r.names /\ details'.tags = details.tags
      BY <2>5
    <3>2. box = [used |-> details.used # {}, tags |-> details.tags]
      BY <1>0, <3>1 DEF UsedComing
    <3>3. box'.used = (details'.used # {}) /\ box'.tags = details'.tags
      <4>1. CASE r.modal = "update"
        BY <2>4, <3>2, <4>1
      <4>2. CASE r.modal # "update"
        BY <2>3, <2>4, <3>1, <3>2, <4>2
      <4> QED
        BY <4>1, <4>2
    <3>4. box' = [used |-> details'.used # {}, tags |-> details'.tags]
      BY <2>4, <3>3
    <3>5. \A s \in Stations :
             (\E k \in DOMAIN reqs : reqs[k].done /\ reqs[k].op = "attach" /\ s \in reqs[k].names)
                 <=> \/ \E j \in DOMAIN reqs' : reqs'[j].done /\ reqs'[j].op = "attach" /\ s \in reqs'[j].names
                     \/ s \in r.names
      BY <1>11, <1>14, <2>1 DEF r
    <3>6. \A t \in UsedTags :
             (\A k \in DOMAIN reqs : reqs[k].done /\ reqs[k].op = "untag" => t \notin reqs[k].names)
                 <=> \A j \in DOMAIN reqs' : reqs'[j].done /\ reqs'[j].op = "untag" => t \notin reqs'[j].names
      BY <1>11, <1>14, <2>1
    <3> QED
      BY <1>0, <2>1, <3>1, <3>4, <3>5, <3>6 DEF UsedComing
  <2> QED
    BY <2>6, <2>7, <2>8, <2>9 DEF UsedInv
<1>15. ASSUME NEW i \in DOMAIN reqs, Used!Fail(i) PROVE UsedInv'
  <2> DEFINE r == reqs[i]
  <2>1. /\ reqs' = Used!RemoveAt(reqs, i)
        /\ attached' \subseteq Stations
        /\ lost' = (lost \/ attached' # attached \/ r.done)
        /\ UNCHANGED <<tags, details, box, sent, lettered, crossed>>
        /\ \/ UNCHANGED <<modal, mount, allStations, isCheck, isCheckAll, indeterminate>>
           \/ /\ modal' = "none" /\ mount' = 0 /\ allStations' = {} /\ isCheck' = {}
              /\ isCheckAll' = FALSE /\ indeterminate' = FALSE
    BY <1>0, <1>15 DEF Used!Fail, Used!Close, Used!modalVars, UsedTyped
  <2>2. r \in UsedReq
    BY <2>1, UsedAnswered
  <2>3. lost' \in BOOLEAN /\ (~lost' => ~lost /\ attached' = attached /\ ~r.done)
    BY <1>0, <2>1, <2>2 DEF UsedTyped, UsedReq
  <2> HIDE DEF r
  <2>4. /\ reqs' \in Seq(UsedReq)
        /\ \A j \in DOMAIN reqs' : \E k \in DOMAIN reqs \ {i} : reqs'[j] = reqs[k]
        /\ \A j, m \in DOMAIN reqs' : reqs'[j].number = reqs'[m].number => j = m
    BY <2>1, UsedAnswered
  <2>5. Numbered'
    BY <1>0, <2>1, <2>4 DEF Numbered
  <2>6. UsedTyped'
    <3>1. mount' \in 0..sent' /\ sent' \in 0..MaxUsedSent
      BY <1>0, <2>1 DEF UsedTyped
    <3>2. modal' \in {"none", "attach", "update"} /\ allStations' \subseteq Stations
          /\ isCheck' \subseteq Stations \cup {Letter} /\ isCheckAll' \in BOOLEAN
          /\ indeterminate' \in BOOLEAN
      BY <1>0, <2>1 DEF UsedTyped
    <3>3. attached' \subseteq Stations /\ tags' \subseteq UsedTags /\ details' \in UsedDetails
          /\ box' \in [used : BOOLEAN, tags : SUBSET UsedTags] /\ lettered' \in BOOLEAN
          /\ crossed' \in BOOLEAN
      BY <1>0, <2>1 DEF UsedTyped
    <3> QED
      BY <2>3, <2>4, <3>1, <3>2, <3>3 DEF UsedTyped
  <2>7. ChosenFit'
    BY <1>0, <2>1, <2>4 DEF ChosenFit, Used!Fixed
  <2>8. UsedComing'
    <3> SUFFICES ASSUME ~crossed PROVE UsedComing'
      BY <2>1 DEF UsedComing
    <3>1. box' = [used |-> details'.used # {}, tags |-> details'.tags]
      BY <1>0, <2>1 DEF UsedComing
    <3>2. ASSUME ~lost'
          PROVE  /\ \A s \in Stations :
                      s \in attached' <=>
                          \/ s \in details'.used
                          \/ \E j \in DOMAIN reqs' :
                                reqs'[j].done /\ reqs'[j].op = "attach" /\ s \in reqs'[j].names
                 /\ \A t \in UsedTags :
                      t \in tags' <=>
                          /\ t \in details'.tags
                          /\ \A j \in DOMAIN reqs' :
                                reqs'[j].done /\ reqs'[j].op = "untag" => t \notin reqs'[j].names
      <4>1. ~lost /\ attached' = attached /\ ~reqs[i].done
        BY <2>3, <3>2 DEF r
      <4>2. /\ \A s \in Stations :
                   (\E k \in DOMAIN reqs : reqs[k].done /\ reqs[k].op = "attach" /\ s \in reqs[k].names)
                       <=> \E j \in DOMAIN reqs' :
                                 reqs'[j].done /\ reqs'[j].op = "attach" /\ s \in reqs'[j].names
            /\ \A t \in UsedTags :
                   (\A k \in DOMAIN reqs : reqs[k].done /\ reqs[k].op = "untag" => t \notin reqs[k].names)
                       <=> \A j \in DOMAIN reqs' :
                                 reqs'[j].done /\ reqs'[j].op = "untag" => t \notin reqs'[j].names
        BY <1>11, <2>1, <4>1
      <4> QED
        BY <1>0, <2>1, <4>1, <4>2 DEF UsedComing
    <3> QED
      BY <3>1, <3>2 DEF UsedComing
  <2> QED
    BY <2>5, <2>6, <2>7, <2>8 DEF UsedInv
<1>16. \A i \in DOMAIN reqs : reqs[i].op \in {"list", "untag", "attach"}
  BY <1>0, ElementOfSeq DEF UsedTyped, UsedReq
<1> QED
  BY <1>1, <1>2, <1>3, <1>5, <1>6, <1>7, <1>8, <1>9, <1>12, <1>13, <1>14, <1>15, <1>16 DEF Used!Next

\* What the drawer shows of the stations and tags.
LEMMA UsedShows == UsedInv => Used!TypeOK /\ Used!DetailsAgree /\ Used!ChecksAreStations
<1> SUFFICES ASSUME UsedInv PROVE Used!TypeOK /\ Used!DetailsAgree /\ Used!ChecksAreStations
  OBVIOUS
<1>1. UsedTyped /\ ChosenFit /\ UsedComing
  BY DEF UsedInv
<1>2. Used!TypeOK
  BY <1>1, ConsoleStationsAssumption DEF UsedTyped, UsedDetails, Used!TypeOK
<1>3. ASSUME reqs = <<>>, ~crossed, ~lost
      PROVE  /\ details = [used |-> attached, tags |-> tags]
             /\ box = [used |-> attached # {}, tags |-> tags]
  <2>1. DOMAIN reqs = {}
    BY <1>3
  <2>2. details.used = attached /\ details.tags = tags
    BY <1>1, <1>3, <2>1 DEF UsedComing, UsedTyped, UsedDetails
  <2> QED
    BY <1>1, <1>3, <2>2 DEF UsedComing, UsedTyped, UsedDetails
<1> QED
  BY <1>1, <1>2, <1>3 DEF ChosenFit, Used!DetailsAgree, Used!ChecksAreStations

-----------------------------------------------------------------------------
(* The versions in the drawer of a schema. *)

\* The editor counts as its own instance of the finite sets does.
LEMMA EditorCount == ASSUME NEW S PROVE Editor!Cardinality(S) = Cardinality(S)
BY DEF Editor!Cardinality, Cardinality

Messages == UNION {Structs(t) : t \in Texts}

\* A version whose content has a single message names it.
NamesOwn(text, struct) ==
    text \in LocalOk /\ Cardinality(Structs(text)) = 1 => struct \in Structs(text)

EditorVersion == {v \in [text : Texts, struct : Messages] : NamesOwn(v.text, v.struct)}
EditorDetails == [versions : Seq(EditorVersion), active : Nat]

EditorReq ==
    [op : {"create", "rollback"}, version : EditorVersion, number : Nat,
     status : {"sent", "refused", "done"}, result : EditorDetails]

\* What the broker has, or once had.
Once(d) ==
    /\ d \in EditorDetails /\ d.active \in 1..Len(d.versions)
    /\ Len(d.versions) <= Len(versions)

VersionsTyped ==
    /\ versions \in Seq(EditorVersion) /\ active \in 1..Len(versions)
    /\ Once(known)
    /\ modals \subseteq {"rollback", "activate"} /\ latest \in 0..Len(versions)
    /\ "activate" \in modals => latest # 0
    /\ reqs \in Seq(EditorReq)
    /\ \A i \in DOMAIN reqs : /\ Once(reqs[i].result)
                              /\ reqs[i].op = "rollback" => reqs[i].number \in 1..Len(versions)
    /\ mixed \in BOOLEAN

EditTyped ==
    /\ versionSelected \in 1..Len(known.versions)
    /\ newVersion \in Texts \cup {""} /\ messageStructName \in Messages /\ structList \subseteq Messages
    /\ updated \in BOOLEAN /\ validateError \in BOOLEAN /\ validateSuccess \in BOOLEAN
    /\ moved \in BOOLEAN /\ overtaken \in BOOLEAN
    /\ validating \in {"no", "asked", "timer"}

\* The messages offered and the one named belong to the text in the editor.
StructFits ==
    newVersion # "" /\ newVersion \in LocalOk =>
        structList = Editor!Offer(newVersion) /\ NamesOwn(newVersion, messageStructName)

\* The note, or the wait for it, is about the content shown unless that moved on.
NoteFits ==
    /\ ~moved /\ (validating # "no" \/ validateSuccess) => Editor!Shown = checked
    /\ validating = "timer" \/ (validateSuccess /\ ~moved) => checked \in BrokerOk

\* A text without an error is one that parses, or the version's own.
ErrorFits ==
    ~validateError /\ ~overtaken /\ newVersion # "" =>
        newVersion \in LocalOk \/ newVersion = known.versions[versionSelected].text

\* Unless requests met or one was lost, there is at most one, whose answer brings what
\* the broker has; and no version is being made while the newest is offered.
VersionsComing ==
    ~mixed =>
        /\ Len(reqs) <= 1
        /\ \A i \in DOMAIN reqs : reqs[i].status = "done" => reqs[i].result = Editor!Now
        /\ (\A i \in DOMAIN reqs : reqs[i].status # "done") => known = Editor!Now
        /\ "activate" \in modals => latest = Len(versions) /\ \A i \in DOMAIN reqs : reqs[i].op # "create"

EditorInv == VersionsTyped /\ EditTyped /\ StructFits /\ NoteFits /\ ErrorFits /\ VersionsComing

\* A step of the editor and the note: the versions and requests stay.
LEMMA EditorEdits ==
    ASSUME EditorInv, UNCHANGED <<versions, active, known, modals, latest, reqs, sent, mixed>>
    PROVE  VersionsTyped' /\ VersionsComing'
BY DEF EditorInv, VersionsTyped, VersionsComing, Editor!Now, Once

\* A step of the modals and requests: the editor and the note stay.
LEMMA EditorStays ==
    ASSUME EditorInv,
           UNCHANGED <<known, versionSelected, newVersion, messageStructName, structList, updated,
                       validateError, validateSuccess, validating, checked, moved, overtaken>>
    PROVE  EditTyped' /\ StructFits' /\ NoteFits' /\ ErrorFits'
BY DEF EditorInv, EditTyped, StructFits, NoteFits, ErrorFits, Editor!Shown, NamesOwn

\* A content with one message has one to name.
LEMMA OneMessage ==
    ASSUME NEW t \in Texts, Cardinality(Structs(t)) = 1
    PROVE  (CHOOSE s \in Structs(t) : TRUE) \in Structs(t)
BY FS_EmptySet

\* The steps of the editor and the note.
LEMMA EditStep ==
    ASSUME EditorInv,
           \/ \E text \in Texts \cup {""} : Editor!HandleEditVersion(text)
           \/ \E s \in structList : Editor!ChooseStruct(s)
           \/ \E v \in 1..Len(known.versions) : Editor!HandleSelectVersion(v)
           \/ Editor!HandleValidateSchema \/ Editor!ValidateReply \/ Editor!NoteTimer
    PROVE  EditorInv'
<1> USE ConsoleStationsAssumption
<1>0. VersionsTyped /\ EditTyped /\ StructFits /\ NoteFits /\ ErrorFits /\ VersionsComing
  BY DEF EditorInv
<1>a. \A v \in 1..Len(known.versions) : known.versions[v] \in EditorVersion
  BY <1>0, ElementOfSeq DEF VersionsTyped, Once, EditorDetails
<1>1. ASSUME NEW text \in Texts \cup {""}, Editor!HandleEditVersion(text) PROVE EditorInv'
  <2>1. /\ UNCHANGED <<versions, active, known, versionSelected, validating, checked, modals, latest, reqs,
                       sent, mixed>>
        /\ newVersion' = text /\ updated' \in BOOLEAN /\ validateSuccess' = FALSE
        /\ moved' = (validating # "no") /\ overtaken' = FALSE
    BY <1>1 DEF Editor!HandleEditVersion
  <2>2. CASE text = ""
    <3>1. validateError' = TRUE /\ UNCHANGED <<messageStructName, structList>>
      BY <1>1, <2>2 DEF Editor!HandleEditVersion, Editor!CheckContent
    <3>2. EditTyped' /\ StructFits' /\ NoteFits' /\ ErrorFits'
      BY <1>0, <2>1, <2>2, <3>1 DEF EditTyped, StructFits, NoteFits, ErrorFits
    <3> QED
      BY <2>1, <3>2, EditorEdits DEF EditorInv
  <2>3. CASE text # "" /\ text \in LocalOk
    <3>1. /\ validateError' = FALSE /\ structList' = Editor!Offer(text)
          /\ messageStructName' = IF Cardinality(Structs(text)) = 1
                                  THEN CHOOSE s \in Structs(text) : TRUE ELSE messageStructName
      <4>1. Editor!ValidateProtobufSchema(text) /\ Editor!Parses(text)
        BY <1>1, <2>3 DEF Editor!HandleEditVersion, Editor!CheckContent, Editor!Parses
      <4>2. Editor!Cardinality(Structs(text)) = Cardinality(Structs(text))
        BY EditorCount
      <4> DEFINE c == CHOOSE s \in Structs(text) : TRUE
      <4>3. messageStructName' = IF Editor!Parses(text) /\ Editor!Cardinality(Structs(text)) = 1
                                 THEN c ELSE messageStructName
        BY <4>1, Zenon DEF Editor!ValidateProtobufSchema
      <4>4. validateError' = FALSE /\ structList' = Editor!Offer(text)
        BY <4>1 DEF Editor!ValidateProtobufSchema
      <4> HIDE DEF c
      <4>5. messageStructName' = IF Cardinality(Structs(text)) = 1 THEN c ELSE messageStructName
        BY <4>1, <4>2, <4>3
      <4> QED
        BY <4>4, <4>5 DEF c
    <3>2. text \in Texts /\ structList' \subseteq Messages
      BY <2>3, <3>1 DEF Editor!Offer, Messages
    <3>3. messageStructName' \in Messages /\ NamesOwn(text, messageStructName')
      BY <1>0, <3>1, <3>2, OneMessage DEF EditTyped, Messages, NamesOwn
    <3>4. EditTyped' /\ StructFits' /\ NoteFits' /\ ErrorFits'
      BY <1>0, <2>1, <2>3, <3>1, <3>2, <3>3 DEF EditTyped, StructFits, NoteFits, ErrorFits, Editor!Offer, NamesOwn
    <3> QED
      BY <2>1, <3>4, EditorEdits DEF EditorInv
  <2>4. CASE text # "" /\ text \notin LocalOk
    <3>1. validateError' = TRUE /\ structList' = structList /\ messageStructName' = messageStructName
      BY <1>1, <2>4 DEF Editor!HandleEditVersion, Editor!CheckContent, Editor!ValidateProtobufSchema,
         Editor!Parses
    <3>2. EditTyped' /\ StructFits' /\ NoteFits' /\ ErrorFits'
      BY <1>0, <2>1, <2>4, <3>1 DEF EditTyped, StructFits, NoteFits, ErrorFits
    <3> QED
      BY <2>1, <3>2, EditorEdits DEF EditorInv
  <2> QED
    BY <2>2, <2>3, <2>4
<1>2. ASSUME NEW s \in structList, Editor!ChooseStruct(s) PROVE EditorInv'
  <2>1. /\ UNCHANGED <<versions, active, known, versionSelected, newVersion, structList, validateError,
                       validateSuccess, validating, checked, moved, overtaken, modals, latest, reqs, sent, mixed>>
        /\ messageStructName' = s /\ updated' = TRUE
    BY <1>2 DEF Editor!ChooseStruct, Editor!noteVars
  <2>2. EditTyped' /\ NoteFits' /\ ErrorFits'
    BY <1>0, <2>1 DEF EditTyped, NoteFits, ErrorFits, Editor!Shown
  <2>3. StructFits'
    BY <1>0, <2>1 DEF StructFits, Editor!Offer, NamesOwn
  <2> QED
    BY <2>1, <2>2, <2>3, EditorEdits DEF EditorInv
<1>3. ASSUME NEW v \in 1..Len(known.versions), Editor!HandleSelectVersion(v) PROVE EditorInv'
  <2>1. /\ versionSelected' = v /\ messageStructName' = known.versions[v].struct /\ newVersion' = ""
        /\ UNCHANGED <<validateSuccess, validateError, validating, checked, overtaken, versions, active, known,
                       structList, updated, modals, latest, reqs, sent, mixed>>
        /\ moved' = (moved \/ ((validating # "no" \/ validateSuccess) /\ known.versions[v].text # Editor!Shown))
    BY <1>3 DEF Editor!HandleSelectVersion, Editor!MovesOn
  <2>2. EditTyped' /\ StructFits' /\ ErrorFits'
    BY <1>0, <1>a, <2>1 DEF EditTyped, StructFits, ErrorFits, EditorVersion
  <2>3. Editor!Shown' = known.versions[v].text
    BY <2>1 DEF Editor!Shown
  <2>4. NoteFits'
    BY <1>0, <2>1, <2>3 DEF NoteFits, EditTyped
  <2> QED
    BY <2>1, <2>2, <2>4, EditorEdits DEF EditorInv
<1>4. CASE Editor!HandleValidateSchema
  <2>1. /\ validating = "no" /\ validating' = "asked" /\ checked' = Editor!Shown
        /\ moved' = (moved /\ validateSuccess)
        /\ UNCHANGED <<versions, active, known, versionSelected, newVersion, messageStructName, structList,
                       updated, validateError, validateSuccess, overtaken, modals, latest, reqs, sent, mixed>>
    BY <1>4 DEF Editor!HandleValidateSchema, Editor!ValidateEnabled, Editor!editVars
  <2>2. EditTyped' /\ StructFits' /\ ErrorFits'
    BY <1>0, <2>1 DEF EditTyped, StructFits, ErrorFits, NamesOwn
  <2>3. Editor!Shown' = Editor!Shown
    BY <2>1 DEF Editor!Shown
  <2>4. NoteFits'
    BY <1>0, <2>1, <2>3 DEF NoteFits, EditTyped
  <2> QED
    BY <2>1, <2>2, <2>4, EditorEdits DEF EditorInv
<1>5. CASE Editor!ValidateReply
  <2>1. /\ validating = "asked"
        /\ UNCHANGED <<versions, active, known, versionSelected, newVersion, messageStructName, structList,
                       updated, checked, moved, modals, latest, reqs, sent, mixed>>
        /\ \/ /\ checked \in BrokerOk /\ validateError' = FALSE /\ validating' = "timer"
              /\ overtaken' = (overtaken \/ (validateError /\ newVersion \notin LocalOk))
              /\ validateSuccess' = validateSuccess
           \/ /\ checked \notin BrokerOk /\ validateError' = TRUE /\ validateSuccess' = FALSE
              /\ validating' = "no" /\ overtaken' = overtaken
           \/ validating' = "no" /\ UNCHANGED <<validateError, validateSuccess, overtaken>>
    BY <1>5 DEF Editor!ValidateReply, Editor!editVars, Editor!Parses
  <2>2. EditTyped' /\ StructFits' /\ ErrorFits'
    BY <1>0, <2>1 DEF EditTyped, StructFits, ErrorFits, NamesOwn
  <2>3. Editor!Shown' = Editor!Shown
    BY <2>1 DEF Editor!Shown
  <2>a. (~moved => Editor!Shown = checked) /\ (validateSuccess /\ ~moved => checked \in BrokerOk)
    BY <1>0, <2>1 DEF NoteFits
  <2>4. NoteFits'
    <3>0. (checked \in BrokerOk /\ validating' = "timer") \/ validating' = "no"
      BY <2>1, Zenon
    <3>a. validateSuccess' => validateSuccess
      BY <2>1, Zenon
    <3>b. moved' = moved /\ checked' = checked
      BY <2>1, Zenon
    <3>1. (~moved => Editor!Shown' = checked') /\ (validateSuccess' => validateSuccess) /\ moved' = moved
      BY <2>3, <2>a, <3>a, <3>b, Zenon
    <3>2. validating' = "timer" => checked' \in BrokerOk
      BY <3>0, <3>b
    <3>3. validateSuccess' /\ ~moved' => checked' \in BrokerOk
      <4> SUFFICES ASSUME validateSuccess', ~moved' PROVE checked' \in BrokerOk
        OBVIOUS
      <4>1. validateSuccess /\ ~moved
        BY <3>a, <3>b, Zenon
      <4>2. checked \in BrokerOk
        BY <2>a, <4>1, Zenon
      <4> QED
        BY <3>b, <4>2, Zenon
    <3> QED
      BY <3>1, <3>2, <3>3 DEF NoteFits
  <2> QED
    BY <2>1, <2>2, <2>4, EditorEdits DEF EditorInv
<1>6. CASE Editor!NoteTimer
  <2>1. /\ validating = "timer" /\ validateSuccess' = TRUE /\ validating' = "no"
        /\ UNCHANGED <<versions, active, known, versionSelected, newVersion, messageStructName, structList,
                       updated, validateError, checked, moved, overtaken, modals, latest, reqs, sent, mixed>>
    BY <1>6 DEF Editor!NoteTimer, Editor!editVars
  <2>2. EditTyped' /\ StructFits' /\ ErrorFits'
    BY <1>0, <2>1 DEF EditTyped, StructFits, ErrorFits, NamesOwn
  <2>3. Editor!Shown' = Editor!Shown
    BY <2>1 DEF Editor!Shown
  <2>a. checked \in BrokerOk /\ (~moved => Editor!Shown = checked)
    BY <1>0, <2>1 DEF NoteFits
  <2>4. NoteFits'
    BY <2>1, <2>3, <2>a DEF NoteFits
  <2> QED
    BY <2>1, <2>2, <2>4, EditorEdits DEF EditorInv
<1> QED
  BY <1>1, <1>2, <1>3, <1>4, <1>5, <1>6

\* A request for a version.
LEMMA EditorSends ==
    ASSUME EditorInv, NEW r \in EditorReq, Once(r.result),
           r.op = "rollback" => r.number \in 1..Len(versions),
           r.op = "create" => "activate" \notin modals,
           r.status = "sent", Editor!Send(r), modals' = modals
    PROVE  EditorInv'
<1>0. VersionsTyped /\ VersionsComing
  BY DEF EditorInv
<1>1. /\ reqs' = Append(reqs, r) /\ mixed' = (mixed \/ reqs # <<>>)
      /\ UNCHANGED <<versions, active, known, versionSelected, newVersion, messageStructName, structList,
                     updated, validateError, validateSuccess, validating, checked, moved, overtaken, latest>>
  BY DEF Editor!Send, Editor!editVars, Editor!noteVars
<1>2. /\ reqs' \in Seq(EditorReq) /\ Len(reqs') = Len(reqs) + 1 /\ reqs'[Len(reqs) + 1] = r
      /\ \A i \in 1..Len(reqs) : reqs'[i] = reqs[i]
  BY <1>0, <1>1, AppendProperties DEF VersionsTyped
<1>3. DOMAIN reqs' = DOMAIN reqs \cup {Len(reqs) + 1} /\ DOMAIN reqs = 1..Len(reqs) /\ Len(reqs) \in Nat
  BY <1>0, <1>2 DEF VersionsTyped
<1>4. VersionsTyped'
  BY <1>0, <1>1, <1>2, <1>3 DEF VersionsTyped, Once
<1>5. VersionsComing'
  <2> SUFFICES ASSUME ~mixed' PROVE VersionsComing'
    BY DEF VersionsComing
  <2>1. ~mixed /\ reqs = <<>>
    BY <1>0, <1>1 DEF VersionsTyped
  <2>2. DOMAIN reqs' = {1} /\ reqs'[1] = r /\ Len(reqs') = 1 /\ DOMAIN reqs = {}
    BY <1>2, <1>3, <2>1
  <2>3. Editor!Now' = Editor!Now
    BY <1>1 DEF Editor!Now
  <2>4. r.op # "create" \/ "activate" \notin modals'
    OBVIOUS
  <2> QED
    BY <1>0, <1>1, <2>1, <2>2, <2>3, <2>4 DEF VersionsComing
<1> QED
  BY <1>1, <1>4, <1>5, EditorStays DEF EditorInv

\* A request that is answered or fails.
LEMMA EditorAnswered ==
    ASSUME EditorInv, NEW i \in DOMAIN reqs, reqs' = Editor!RemoveAt(reqs, i)
    PROVE  /\ reqs[i] \in EditorReq /\ reqs' \in Seq(EditorReq) /\ Len(reqs') = Len(reqs) - 1
           /\ \A j \in DOMAIN reqs' : \E k \in DOMAIN reqs : reqs'[j] = reqs[k]
           /\ Len(reqs) <= 1 => DOMAIN reqs = {i} /\ DOMAIN reqs' = {}
<1>1. reqs \in Seq(EditorReq) /\ i \in 1..Len(reqs) /\ DOMAIN reqs = 1..Len(reqs)
  BY DEF EditorInv, VersionsTyped
<1>2. reqs' = Without(reqs, i)
  BY DEF Editor!RemoveAt, Without
<1>3. reqs' \in Seq(EditorReq) /\ Len(reqs') = Len(reqs) - 1
  BY <1>1, <1>2, WithoutOne
<1>4. \A j \in 1..Len(reqs') : \E k \in 1..Len(reqs) : reqs'[j] = reqs[k]
  <2>1. \A j \in 1..Len(Without(reqs, i)) : \E k \in 1..Len(reqs) : k # i /\ Without(reqs, i)[j] = reqs[k]
    BY <1>1, OthersStay
  <2> QED
    BY <1>2, <2>1
<1>5. reqs[i] \in EditorReq
  BY <1>1, ElementOfSeq
<1>6. DOMAIN reqs' = 1..Len(reqs')
  BY <1>3
<1>7. Len(reqs) <= 1 => DOMAIN reqs = {i} /\ DOMAIN reqs' = {}
  BY <1>1, <1>3, <1>6
<1> QED
  BY <1>1, <1>3, <1>4, <1>5, <1>6, <1>7

\* The broker handles a request for a version.
LEMMA EditorHandles ==
    ASSUME EditorInv, NEW i \in DOMAIN reqs, Editor!Handle(i)
    PROVE  EditorInv'
<1> DEFINE r == reqs[i]
           refused == r.op = "create" /\ r.version.text \notin BrokerOk
           s == IF refused THEN "refused" ELSE "done"
           new == [r EXCEPT !.status = s, !.result = Editor!Now']
<1>0. VersionsTyped /\ VersionsComing
  BY DEF EditorInv
<1>1. /\ r.status = "sent"
      /\ versions' = IF r.op = "create" /\ ~refused THEN Append(versions, r.version) ELSE versions
      /\ active' = IF r.op = "rollback" THEN r.number ELSE active
      /\ reqs' = [reqs EXCEPT ![i].status = s, ![i].result = Editor!Now']
      /\ UNCHANGED <<known, versionSelected, newVersion, messageStructName, structList, updated, validateError,
                     validateSuccess, validating, checked, moved, overtaken, modals, latest, sent, mixed>>
  BY DEF Editor!Handle, Editor!Now, Editor!editVars, Editor!noteVars
<1>2. reqs \in Seq(EditorReq) /\ r \in EditorReq /\ i \in 1..Len(reqs)
  BY <1>0, ElementOfSeq DEF VersionsTyped
<1>3. r.version \in EditorVersion /\ r.op \in {"create", "rollback"}
  BY <1>2 DEF EditorReq
<1>4. /\ versions' \in Seq(EditorVersion) /\ Len(versions') \in Nat /\ Len(versions) \in Nat
      /\ Len(versions) <= Len(versions') /\ (r.op # "create" \/ refused => versions' = versions)
  BY <1>0, <1>1, <1>3, AppendProperties DEF VersionsTyped
<1>5. active' \in 1..Len(versions')
  BY <1>0, <1>1, <1>4 DEF VersionsTyped
<1>6. Editor!Now' \in EditorDetails /\ Editor!Now'.active \in 1..Len(Editor!Now'.versions)
      /\ Len(Editor!Now'.versions) <= Len(versions')
  BY <1>4, <1>5 DEF Editor!Now, EditorDetails
<1>7. \A d : Once(d) => /\ d \in EditorDetails /\ d.active \in 1..Len(d.versions)
                        /\ Len(d.versions) <= Len(versions')
  <2> SUFFICES ASSUME NEW d, Once(d) PROVE Len(d.versions) <= Len(versions')
    BY DEF Once
  <2>1. d.versions \in Seq(EditorVersion) /\ Len(d.versions) <= Len(versions)
    BY DEF Once, EditorDetails
  <2> QED
    BY <1>4, <2>1
<1>8. reqs' = [reqs EXCEPT ![i] = new]
  BY <1>1, <1>2
<1>9. refused => Editor!Now' = Editor!Now
  BY <1>1, <1>4 DEF Editor!Now
<1>10. new \in EditorReq /\ new.op = r.op /\ new.number = r.number /\ new.status = s
       /\ new.result = Editor!Now' /\ (s = "done" \/ refused)
  <2> HIDE DEF r, refused
  <2> QED
    BY <1>2, <1>6 DEF EditorReq
<1> HIDE DEF new
<1>11. /\ reqs' \in Seq(EditorReq) /\ DOMAIN reqs' = DOMAIN reqs /\ Len(reqs') = Len(reqs) /\ reqs'[i] = new
       /\ \A j \in DOMAIN reqs : j # i => reqs'[j] = reqs[j]
  BY <1>2, <1>8, <1>10, ExceptSeq
<1>12. VersionsTyped'
  <2>1. /\ latest' \in 0..Len(versions') /\ Once(known)' /\ ("activate" \in modals' => latest' # 0)
        /\ modals' \subseteq {"rollback", "activate"} /\ mixed' \in BOOLEAN
    BY <1>0, <1>1, <1>4, <1>7 DEF VersionsTyped, Once
  <2>2. \A j \in DOMAIN reqs' : /\ Once(reqs[j].result)'
                                /\ reqs'[j].op = "rollback" => reqs'[j].number \in 1..Len(versions')
    <3> SUFFICES ASSUME NEW j \in DOMAIN reqs
                 PROVE  /\ Once(reqs[j].result)'
                        /\ reqs'[j].op = "rollback" => reqs'[j].number \in 1..Len(versions')
      BY <1>11
    <3>1. CASE j = i
      BY <1>0, <1>4, <1>6, <1>10, <1>11, <3>1 DEF VersionsTyped, Once
    <3>2. CASE j # i
      BY <1>0, <1>4, <1>7, <1>11, <3>2 DEF VersionsTyped, Once
    <3> QED
      BY <3>1, <3>2
  <2> QED
    BY <1>4, <1>5, <1>11, <2>1, <2>2 DEF VersionsTyped
<1>13. VersionsComing'
  <2> SUFFICES ASSUME ~mixed PROVE VersionsComing'
    BY <1>1 DEF VersionsComing
  <2>0. Len(reqs) <= 1
    BY <1>0 DEF VersionsComing
  <2>1. DOMAIN reqs = {i}
    <3>1. Len(reqs) \in Nat /\ DOMAIN reqs = 1..Len(reqs)
      BY <1>2
    <3>2. Len(reqs) = 1 /\ i = 1
      BY <1>2, <2>0, <3>1
    <3> QED
      BY <3>1, <3>2
  <2>2. known = Editor!Now
    BY <1>0, <1>1, <2>1 DEF VersionsComing
  <2>3. "activate" \in modals => latest = Len(versions) /\ r.op # "create"
    BY <1>0 DEF VersionsComing
  <2>4. /\ reqs'[i].status = "done" => reqs'[i].result = Editor!Now'
        /\ reqs'[i].status # "done" => known' = Editor!Now'
        /\ "activate" \in modals' => latest' = Len(versions') /\ reqs'[i].op # "create"
    BY <1>1, <1>4, <1>9, <1>10, <1>11, <2>2, <2>3
  <2> QED
    BY <1>11, <2>0, <2>1, <2>4 DEF VersionsComing
<1> QED
  BY <1>1, <1>12, <1>13, EditorStays DEF EditorInv

\* An answer that brings versions puts the active one into the editor.
LEMMA EditorArranges ==
    ASSUME EditorInv, NEW d, Once(d), Editor!ArrangeData(d), Editor!MovesOn(newVersion'),
           UNCHANGED <<versions, updated, validateError, validateSuccess, validating, checked>>,
           overtaken' = (overtaken /\ ~validateError' /\ newVersion' = newVersion)
    PROVE  EditTyped' /\ StructFits' /\ NoteFits' /\ ErrorFits' /\ Once(known)' /\ known' = d
<1> USE ConsoleStationsAssumption
<1> DEFINE v == d.versions[d.active]
<1>0. EditTyped /\ NoteFits
  BY DEF EditorInv
<1>1. v \in EditorVersion /\ d.active \in 1..Len(d.versions)
  BY ElementOfSeq DEF Once, EditorDetails
<1>2. v.text \in Texts /\ v.struct \in Messages /\ NamesOwn(v.text, v.struct)
  BY <1>1 DEF EditorVersion
<1>3. /\ known' = d /\ versionSelected' = d.active /\ newVersion' = v.text /\ messageStructName' = v.struct
      /\ structList' = Editor!Offer(v.text)
  BY DEF Editor!ArrangeData
<1>4. structList' \subseteq Messages
  BY <1>2, <1>3 DEF Editor!Offer, Messages
<1>5. known'.versions[versionSelected'].text = newVersion'
  BY <1>3
<1>6. Editor!Shown' = newVersion'
  BY <1>5 DEF Editor!Shown
<1>7. moved' = (moved \/ ((validating # "no" \/ validateSuccess) /\ newVersion' # Editor!Shown))
  BY DEF Editor!MovesOn
<1> HIDE DEF v
<1>8. EditTyped'
  BY <1>0, <1>1, <1>2, <1>3, <1>4, <1>7 DEF EditTyped
<1>9. StructFits'
  BY <1>2, <1>3 DEF StructFits, Editor!Offer, NamesOwn
<1>10. NoteFits'
  BY <1>0, <1>6, <1>7 DEF NoteFits, EditTyped
<1>11. ErrorFits'
  BY <1>5 DEF ErrorFits
<1>12. Once(known)'
  BY <1>3 DEF Once
<1> QED
  BY <1>3, <1>8, <1>9, <1>10, <1>11, <1>12

\* Every step of the versions.
LEMMA EditorStep ==
    ASSUME EditorInv, [Editor!Next]_(Editor!vars)
    PROVE  EditorInv'
<1> USE ConsoleStationsAssumption
<1>0. VersionsTyped /\ EditTyped /\ StructFits /\ NoteFits /\ ErrorFits /\ VersionsComing
  BY DEF EditorInv
<1>1. CASE UNCHANGED Editor!vars
  <2>1. UNCHANGED <<versions, active, known, modals, latest, reqs, sent, mixed, versionSelected, newVersion,
                    messageStructName, structList, updated, validateError, validateSuccess, validating,
                    checked, moved, overtaken>>
    BY <1>1 DEF Editor!vars, Editor!editVars, Editor!noteVars
  <2> QED
    BY <2>1, EditorEdits, EditorStays DEF EditorInv
<1>2. CASE Editor!CreateNewVersion
  <2> DEFINE r == [op |-> "create", version |-> [text |-> newVersion, struct |-> messageStructName],
                   number |-> 0, status |-> "sent", result |-> known]
  <2>1. Editor!Send(r) /\ modals' = modals /\ modals = {} /\ newVersion # ""
    BY <1>2 DEF Editor!CreateNewVersion, Editor!CreateEnabled, Editor!Editable
  <2>2. newVersion \in Texts /\ messageStructName \in Messages /\ NamesOwn(newVersion, messageStructName)
    BY <1>0, <2>1 DEF EditTyped, StructFits, NamesOwn
  <2>3. [text |-> newVersion, struct |-> messageStructName] \in EditorVersion
    BY <2>2 DEF EditorVersion
  <2>4. Once(known) /\ known \in EditorDetails
    BY <1>0 DEF VersionsTyped, Once
  <2>5. r \in EditorReq /\ r.op = "create" /\ r.status = "sent" /\ r.result = known
    BY <2>3, <2>4 DEF EditorReq
  <2> HIDE DEF r
  <2> QED
    BY <2>1, <2>4, <2>5, EditorSends
<1>3. ASSUME UNCHANGED <<versions, active, known, latest, reqs, sent, mixed, versionSelected, newVersion,
                         messageStructName, structList, updated, validateError, validateSuccess, validating,
                         checked, moved, overtaken>>,
             modals' \subseteq {"rollback", "activate"}, "activate" \in modals' => "activate" \in modals
      PROVE  EditorInv'
  <2>1. VersionsTyped' /\ VersionsComing'
    BY <1>0, <1>3 DEF VersionsTyped, VersionsComing, Editor!Now, Once
  <2> QED
    BY <1>3, <2>1, EditorStays DEF EditorInv
<1>4. CASE Editor!RollBackModal
  BY <1>3, <1>4 DEF Editor!RollBackModal, Editor!editVars, Editor!noteVars
<1>5. ASSUME NEW m \in {"rollback", "activate"}, Editor!CloseModal(m) PROVE EditorInv'
  BY <1>0, <1>3, <1>5 DEF Editor!CloseModal, Editor!editVars, Editor!noteVars, VersionsTyped
<1>6. ASSUME NEW m \in {"rollback", "activate"}, Editor!RollBackVersion(m) PROVE EditorInv'
  <2> DEFINE n == IF m = "activate" THEN latest ELSE versionSelected
             r == [op |-> "rollback", version |-> known.versions[1], number |-> n, status |-> "sent",
                   result |-> known]
  <2>1. Editor!Send(r) /\ modals' = modals /\ m \in modals
    BY <1>6 DEF Editor!RollBackVersion
  <2>2. Once(known) /\ known \in EditorDetails /\ known.versions \in Seq(EditorVersion)
    BY <1>0 DEF VersionsTyped, Once, EditorDetails
  <2>3. known.versions[1] \in EditorVersion
    <3>1. 1 \in 1..Len(known.versions)
      BY <2>2 DEF Once
    <3> QED
      BY <2>2, <3>1, ElementOfSeq
  <2>a. Len(versions) \in Nat /\ Len(known.versions) \in Nat /\ Len(known.versions) <= Len(versions)
    BY <1>0, <2>2, SMTT(30) DEF VersionsTyped, Once
  <2>b. m = "activate" => latest \in 1..Len(versions)
    <3>1. latest \in 0..Len(versions) /\ ("activate" \in modals => latest # 0)
      BY <1>0 DEF VersionsTyped
    <3> QED
      BY <2>1, <2>a, <3>1
  <2>c. versionSelected \in 1..Len(versions)
    <3>1. versionSelected \in 1..Len(known.versions)
      BY <1>0 DEF EditTyped
    <3> QED
      BY <2>a, <3>1
  <2>4. n \in 1..Len(versions)
    BY <2>b, <2>c
  <2> HIDE DEF n
  <2>5. r \in EditorReq /\ r.op = "rollback" /\ r.status = "sent" /\ r.result = known /\ r.number = n
    BY <2>2, <2>3, <2>4 DEF EditorReq
  <2> HIDE DEF r
  <2> QED
    BY <2>1, <2>2, <2>4, <2>5, EditorSends
<1>7. ASSUME NEW i \in DOMAIN reqs, Editor!Fail(i) PROVE EditorInv'
  <2>1. /\ reqs' = Editor!RemoveAt(reqs, i) /\ mixed' = (mixed \/ reqs[i].status = "done")
        /\ UNCHANGED <<versions, active, known, modals, latest, sent, versionSelected, newVersion,
                       messageStructName, structList, updated, validateError, validateSuccess, validating,
                       checked, moved, overtaken>>
    BY <1>7 DEF Editor!Fail, Editor!editVars, Editor!noteVars
  <2>2. /\ reqs' \in Seq(EditorReq) /\ Len(reqs') = Len(reqs) - 1
        /\ \A j \in DOMAIN reqs' : \E k \in DOMAIN reqs : reqs'[j] = reqs[k]
        /\ Len(reqs) <= 1 => DOMAIN reqs = {i} /\ DOMAIN reqs' = {}
    BY <2>1, EditorAnswered
  <2>3. VersionsTyped'
    <3>2. \A j \in DOMAIN reqs' : /\ Once(reqs'[j].result)
                                  /\ reqs'[j].op = "rollback" => reqs'[j].number \in 1..Len(versions)
      BY <1>0, <2>2 DEF VersionsTyped
    <3>3. mixed' \in BOOLEAN
      BY <1>0, <2>1 DEF VersionsTyped
    <3>4. Once(known)' /\ \A j \in DOMAIN reqs' : Once(reqs[j].result)'
      BY <1>0, <2>1, <3>2 DEF VersionsTyped, Once
    <3> QED
      BY <1>0, <2>1, <2>2, <3>2, <3>3, <3>4 DEF VersionsTyped
  <2>4. VersionsComing'
    <3> SUFFICES ASSUME ~mixed' PROVE VersionsComing'
      BY DEF VersionsComing
    <3>1. ~mixed /\ reqs[i].status # "done"
      BY <1>0, <2>1 DEF VersionsTyped
    <3>2. Len(reqs) <= 1 /\ DOMAIN reqs = {i} /\ DOMAIN reqs' = {} /\ Len(reqs) \in Nat
      BY <1>0, <2>2, <3>1 DEF VersionsTyped, VersionsComing
    <3>3. known = Editor!Now /\ ("activate" \in modals => latest = Len(versions))
      BY <1>0, <3>1, <3>2 DEF VersionsComing
    <3> QED
      BY <2>1, <2>2, <3>2, <3>3 DEF VersionsComing, Editor!Now
  <2> QED
    BY <2>1, <2>3, <2>4, EditorStays DEF EditorInv
<1>8. ASSUME NEW i \in DOMAIN reqs, Editor!Reply(i) PROVE EditorInv'
  <2> DEFINE r == reqs[i]
  <2>1. /\ reqs' = Editor!RemoveAt(reqs, i) /\ r.status # "sent"
        /\ overtaken' = (overtaken /\ ~validateError' /\ newVersion' = newVersion)
        /\ UNCHANGED <<versions, active, updated, validating, checked, sent, mixed>>
    BY <1>8 DEF Editor!Reply
  <2>2. /\ r \in EditorReq /\ reqs' \in Seq(EditorReq) /\ Len(reqs') = Len(reqs) - 1 /\ Len(reqs) \in Nat
        /\ \A j \in DOMAIN reqs' : \E k \in DOMAIN reqs : reqs'[j] = reqs[k]
        /\ Len(reqs) <= 1 => DOMAIN reqs = {i} /\ DOMAIN reqs' = {}
    <3>1. Len(reqs) \in Nat
      BY <1>0 DEF VersionsTyped
    <3> QED
      BY <2>1, <3>1, EditorAnswered
  <2>3. r.status \in {"refused", "done"} /\ r.op \in {"create", "rollback"} /\ Once(r.result)
    BY <1>0, <2>1, <2>2 DEF EditorReq, VersionsTyped
  <2>4. \A j \in DOMAIN reqs' : /\ Once(reqs'[j].result)
                                /\ reqs'[j].op = "rollback" => reqs'[j].number \in 1..Len(versions)
    BY <1>0, <2>2 DEF VersionsTyped
  <2>5. ~mixed => /\ Len(reqs) <= 1 /\ DOMAIN reqs = {i} /\ DOMAIN reqs' = {} /\ Len(reqs') <= 1
                  /\ r.status = "done" => r.result = Editor!Now
                  /\ r.status # "done" => known = Editor!Now
                  /\ "activate" \in modals => latest = Len(versions)
    BY <1>0, <2>2 DEF VersionsComing
  <2>6. Editor!Now' = Editor!Now
    BY <2>1 DEF Editor!Now
  <2>7. CASE r.status = "refused"
    <3>1. /\ validateSuccess' = FALSE /\ validateError' = TRUE
          /\ UNCHANGED <<known, versionSelected, newVersion, messageStructName, structList, latest, modals, moved>>
      BY <1>8, <2>7 DEF Editor!Reply
    <3>2. VersionsTyped'
      BY <1>0, <2>1, <2>2, <2>4, <3>1 DEF VersionsTyped, Once
    <3>3. VersionsComing'
      BY <2>1, <2>5, <2>6, <2>7, <3>1 DEF VersionsComing
    <3>4. EditTyped' /\ StructFits' /\ NoteFits' /\ ErrorFits'
      BY <1>0, <2>1, <3>1 DEF EditTyped, StructFits, NoteFits, ErrorFits, Editor!Shown, NamesOwn
    <3> QED
      BY <3>2, <3>3, <3>4 DEF EditorInv
  <2>8. CASE r.status = "done"
    <3> DEFINE d == r.result
    <3>1. /\ Editor!ArrangeData(d) /\ Editor!MovesOn(newVersion')
          /\ UNCHANGED <<validateError, validateSuccess>>
          /\ r.op = "create" => latest' = Len(d.versions) /\ modals' = modals \cup {"activate"}
          /\ r.op # "create" => latest' = latest /\ modals' = {}
      BY <1>8, <2>3, <2>8 DEF Editor!Reply, Editor!CreateReply, Editor!RollBackReply
    <3>2. Once(d)
      BY <2>3
    <3> HIDE DEF d, r
    <3>3. EditTyped' /\ StructFits' /\ NoteFits' /\ ErrorFits' /\ Once(known)' /\ known' = d
      BY <2>1, <3>1, <3>2, EditorArranges
    <3>4. d.versions \in Seq(EditorVersion) /\ Len(d.versions) \in 1..Len(versions)
      <4>1. d.versions \in Seq(EditorVersion) /\ d.active \in 1..Len(d.versions) /\ Len(d.versions) <= Len(versions)
        BY <3>2 DEF Once, EditorDetails
      <4>2. Len(d.versions) \in Nat /\ Len(versions) \in Nat
        BY <1>0, <4>1, SMTT(30) DEF VersionsTyped
      <4> QED
        BY <4>1, <4>2
    <3>5. VersionsTyped'
      <4>1. latest' \in 0..Len(versions') /\ ("activate" \in modals' => latest' # 0)
            /\ modals' \subseteq {"rollback", "activate"}
        BY <1>0, <2>1, <3>1, <3>4, SMTT(30) DEF VersionsTyped
      <4> QED
        BY <1>0, <2>1, <2>2, <2>4, <3>3, <4>1 DEF VersionsTyped, Once
    <3>6. VersionsComing'
      <4> SUFFICES ASSUME ~mixed PROVE VersionsComing'
        BY <2>1 DEF VersionsComing
      <4>1. d = Editor!Now /\ Len(d.versions) = Len(versions)
        BY <2>5, <2>8 DEF d, Editor!Now
      <4> QED
        BY <2>1, <2>5, <2>6, <3>1, <3>3, <4>1 DEF VersionsComing
    <3> QED
      BY <3>3, <3>5, <3>6 DEF EditorInv
  <2> QED
    BY <2>3, <2>7, <2>8
<1> QED
  BY <1>1, <1>2, <1>4, <1>5, <1>6, <1>7, <1>8, EditStep, EditorHandles DEF Editor!Next

\* What the drawer shows of the versions.
LEMMA EditorShows ==
    EditorInv => /\ Editor!TypeOK /\ Editor!NoteIsOfText /\ Editor!OfferedIsChecked /\ Editor!StructOfVersion
                 /\ Editor!VersionsAgree /\ Editor!ActivateIsNewest
<1> SUFFICES ASSUME EditorInv
             PROVE  /\ Editor!TypeOK /\ Editor!NoteIsOfText /\ Editor!OfferedIsChecked
                    /\ Editor!StructOfVersion /\ Editor!VersionsAgree /\ Editor!ActivateIsNewest
  OBVIOUS
<1>0. VersionsTyped /\ EditTyped /\ StructFits /\ NoteFits /\ ErrorFits /\ VersionsComing
  BY DEF EditorInv
<1>1. Editor!TypeOK
  BY <1>0 DEF VersionsTyped, EditTyped, Once, Editor!TypeOK
<1>2. Editor!NoteIsOfText
  BY <1>0 DEF NoteFits, Editor!NoteIsOfText
<1>3. Editor!OfferedIsChecked
  BY <1>0 DEF ErrorFits, Editor!OfferedIsChecked, Editor!CreateEnabled, Editor!Parses
<1>4. Editor!StructOfVersion
  <2>1. \A i \in DOMAIN versions : versions[i] \in EditorVersion
    BY <1>0, ElementOfSeq DEF VersionsTyped
  <2> QED
    BY <2>1, EditorCount DEF EditorVersion, NamesOwn, Editor!StructOfVersion, Editor!Parses
<1>5. Editor!VersionsAgree /\ Editor!ActivateIsNewest
  BY <1>0 DEF VersionsComing, Editor!VersionsAgree, Editor!ActivateIsNewest
<1> QED
  BY <1>1, <1>2, <1>3, <1>4, <1>5

-----------------------------------------------------------------------------
(* The form for a schema. *)

\* No message is chosen at first.
MessageNames == STRING \cup {""}

\* A protobuf schema names a message of its own content.
CreateSchemas ==
    {s \in [name : Names \cup {""}, type : Types, text : Create!Contents \cup {""}, struct : MessageNames] :
        s.type = "Protobuf" => s.struct \in Create!Range(StructsOf(s.text))}

CreateReq == [op : {"create", "details"}, status : {"sent", "done", "refused"}, schema : CreateSchemas]

CreateForms == [name : Names \cup {""}, type : Types, text : Create!Contents \cup {""}]

CreateTyped ==
    /\ form \in CreateForms
    /\ broker \subseteq CreateSchemas /\ reqs \in Seq(CreateReq)
    /\ validateError \in BOOLEAN /\ validateSuccess \in BOOLEAN /\ loadingSubmit \in BOOLEAN
    /\ modalOpen \in BOOLEAN /\ attachModal \in BOOLEAN /\ left \in BOOLEAN /\ moved \in BOOLEAN
    /\ validating \in {"no", "asked", "timer"}
    /\ created \in Names \cup {""} /\ messageStructName \in MessageNames

\* The note, or the wait for it, is about the form unless that moved on.
FormNoted ==
    /\ ~moved /\ (validating # "no" \/ validateSuccess) => checked = <<form.type, form.text>>
    /\ validating = "timer" \/ (validateSuccess /\ ~moved) => checked[2] \in FormOk

\* The modal names messages of the content behind it, which cannot change.
OwnStruct ==
    modalOpen => /\ form.type = "Protobuf" /\ structList = StructsOf(form.text)
                 /\ structList \in Seq(STRING)
                 /\ messageStructName \in Create!Range(structList)

CreateInv == CreateTyped /\ FormNoted /\ OwnStruct /\ (loadingSubmit => reqs # <<>>)

\* A creation that is sent with a message of the content.
LEMMA CreateSends ==
    ASSUME CreateInv, NEW m \in MessageNames, Create!HandleCreateNewSchema(m),
           form.type = "Protobuf" => m \in Create!Range(StructsOf(form.text)),
           messageStructName' \in MessageNames, modalOpen' = modalOpen, structList' = structList,
           modalOpen => messageStructName' = messageStructName
    PROVE  CreateInv'
<1> DEFINE c == [name |-> form.name, type |-> form.type, text |-> form.text, struct |-> m]
           r == [op |-> "create", status |-> "sent", schema |-> c]
<1>0. CreateTyped /\ FormNoted /\ OwnStruct
  BY DEF CreateInv
<1>1. form.name \in Names \cup {""} /\ form.type \in Types /\ form.text \in Create!Contents \cup {""}
  BY <1>0 DEF CreateTyped, CreateForms
<1>2. c \in CreateSchemas
  BY <1>1 DEF CreateSchemas
<1>3. r \in CreateReq /\ reqs' = Append(reqs, r)
  BY <1>2 DEF CreateReq, Create!HandleCreateNewSchema
<1> HIDE DEF r
<1>4. reqs' \in Seq(CreateReq) /\ reqs' # <<>>
  <2>1. reqs \in Seq(CreateReq)
    BY <1>0 DEF CreateTyped
  <2> QED
    BY <1>3, <2>1, AppendProperties, EmptySeq
<1>5. UNCHANGED <<broker, form, validating, checked, moved, created, attachModal, left>> /\ ~validateSuccess'
  BY DEF Create!HandleCreateNewSchema
<1>6. loadingSubmit' = TRUE /\ validateError' \in BOOLEAN /\ validateSuccess' \in BOOLEAN
  BY DEF Create!HandleCreateNewSchema, Create!CheckContent
<1>7. CreateTyped'
  BY <1>0, <1>4, <1>5, <1>6 DEF CreateTyped
<1>8. FormNoted' /\ OwnStruct'
  BY <1>0, <1>5 DEF FormNoted, OwnStruct
<1> QED
  BY <1>4, <1>7, <1>8 DEF CreateInv

\* An answer: the other requests stay.
LEMMA CreateAnswered ==
    ASSUME CreateInv, NEW i \in DOMAIN reqs
    PROVE  reqs[i] \in CreateReq /\ Create!RemoveAt(reqs, i) \in Seq(CreateReq)
<1>0. CreateTyped
  BY DEF CreateInv
<1>1. reqs \in Seq(CreateReq)
  BY <1>0 DEF CreateTyped
<1>2. i \in 1..Len(reqs)
  BY <1>1
<1> QED
  BY <1>1, <1>2, WithoutOne, ElementOfSeq DEF Without, Create!RemoveAt

\* Every step of the form.
LEMMA CreateStep ==
    ASSUME CreateInv, [Create!Next]_(Create!vars)
    PROVE  CreateInv'
<1> USE ConsoleStationsAssumption
<1>0. CreateTyped /\ FormNoted /\ OwnStruct /\ (loadingSubmit => reqs # <<>>)
  BY DEF CreateInv
<1>1. CASE UNCHANGED Create!vars
  <2>1. UNCHANGED <<broker, form, validateError, validateSuccess, validating, checked, moved, loadingSubmit,
                    modalOpen, messageStructName, structList, created, attachModal, left, reqs>>
    BY <1>1 DEF Create!vars, Create!noteVars, Create!modalVars
  <2>2. CreateTyped'
    BY <1>0, <2>1 DEF CreateTyped
  <2>3. FormNoted' /\ OwnStruct'
    BY <1>0, <2>1 DEF FormNoted, OwnStruct
  <2> QED
    BY <1>0, <2>1, <2>2, <2>3 DEF CreateInv
<1>2. ASSUME NEW n \in Names, Create!SetName(n) PROVE CreateInv'
  <2>1. /\ form'.type = form.type /\ form'.text = form.text
        /\ form' \in CreateForms
    BY <1>0, <1>2 DEF Create!SetName, CreateTyped, CreateForms
  <2> QED
    BY <1>0, <1>2, <2>1, ZenonT(30)
    DEF Create!SetName, CreateInv, CreateTyped, FormNoted, OwnStruct, Create!noteVars, Create!modalVars
<1>3. ASSUME ~Create!Covered, form' \in CreateForms,
             ~validateSuccess', validateSuccess' \in BOOLEAN, validateError' \in BOOLEAN,
             moved' = (validating # "no"),
             UNCHANGED <<broker, validating, checked, loadingSubmit, Create!modalVars, created, attachModal, left,
                         reqs, sent>>
      PROVE  CreateInv'
  BY <1>0, <1>3 DEF Create!Covered, CreateInv, CreateTyped, FormNoted, OwnStruct, Create!modalVars
<1>4. ASSUME NEW t \in Types, Create!SetType(t) PROVE CreateInv'
  <2>1. Example(t) \in Create!Contents
    BY DEF Create!Contents
  <2>2. form' \in CreateForms
    BY <1>0, <1>4, <2>1 DEF Create!SetType, CreateTyped, CreateForms
  <2> QED
    BY <1>3, <1>4, <2>2 DEF Create!SetType
<1>5. ASSUME NEW x \in Create!Contents \cup {""}, Create!EditContent(x) PROVE CreateInv'
  <2>1. form' \in CreateForms
    BY <1>0, <1>5 DEF Create!EditContent, CreateTyped, CreateForms
  <2> QED
    BY <1>3, <1>5, <2>1 DEF Create!EditContent, Create!CheckContent
<1>6. ASSUME NEW x \in Create!Contents \cup {""}, Create!Convert(x) PROVE CreateInv'
  <2>1. form' \in CreateForms
    BY <1>0, <1>6 DEF Create!Convert, CreateTyped, CreateForms
  <2> QED
    BY <1>3, <1>6, <2>1 DEF Create!Convert, Create!ConvertEnabled
<1>7. CASE Create!HandleValidateSchema
  BY <1>0, <1>7
  DEF Create!HandleValidateSchema, Create!ValidateEnabled, CreateInv, CreateTyped, FormNoted, OwnStruct,
      Create!modalVars
<1>8. CASE Create!ValidateReply
  <2>1. /\ validating = "asked"
        /\ UNCHANGED <<broker, form, checked, moved, loadingSubmit, modalOpen, messageStructName, structList,
                       created, attachModal, left, reqs>>
        /\ \/ /\ checked[2] \in FormOk /\ validateError' = FALSE /\ validating' = "timer"
              /\ validateSuccess' = validateSuccess
           \/ validateError' = TRUE /\ validateSuccess' = FALSE /\ validating' = "no"
           \/ validating' = "no" /\ UNCHANGED <<validateError, validateSuccess>>
    BY <1>8 DEF Create!ValidateReply, Create!modalVars
  <2>2. CreateTyped'
    BY <1>0, <2>1 DEF CreateTyped
  <2>3. FormNoted'
    BY <1>0, <2>1 DEF FormNoted
  <2>4. OwnStruct'
    BY <1>0, <2>1 DEF OwnStruct
  <2> QED
    BY <1>0, <2>1, <2>2, <2>3, <2>4 DEF CreateInv
<1>9. CASE Create!NoteTimer
  BY <1>0, <1>9 DEF Create!NoteTimer, CreateInv, CreateTyped, FormNoted, OwnStruct, Create!modalVars
<1>10. CASE Create!HandleSubmit
  <2>1. ~modalOpen
    BY <1>10 DEF Create!HandleSubmit, Create!SubmitEnabled, Create!Covered
  <2>2. CASE form.type # "Protobuf"
    <3>1. Create!HandleCreateNewSchema(messageStructName) /\ UNCHANGED Create!modalVars
      BY <1>10, <2>2 DEF Create!HandleSubmit
    <3> QED
      BY <1>0, <2>2, <3>1, CreateSends DEF CreateTyped, Create!modalVars
  <2>3. CASE form.type = "Protobuf"
    <3>1. /\ form.text \in TextsOf("Protobuf") /\ StructsOf(form.text) # <<>>
          /\ messageStructName' = StructsOf(form.text)[1]
      BY <1>10, <2>3 DEF Create!HandleSubmit, Create!Parses
    <3>2. StructsOf(form.text) \in Seq(STRING) /\ 1 \in DOMAIN StructsOf(form.text)
      BY <3>1
    <3>a. StructsOf(form.text)[1] \in STRING
      BY <3>2, ElementOfSeq
    <3>3. StructsOf(form.text)[1] \in MessageNames /\ StructsOf(form.text)[1] \in Create!Range(StructsOf(form.text))
      BY <3>2, <3>a, Zenon DEF Create!Range, MessageNames
    <3>4. CASE Len(StructsOf(form.text)) = 1
      <4>1. /\ Create!HandleCreateNewSchema(StructsOf(form.text)[1])
            /\ modalOpen' = modalOpen /\ structList' = structList
        BY <1>10, <2>3, <3>4 DEF Create!HandleSubmit
      <4> QED
        BY <2>1, <3>1, <3>3, <4>1, CreateSends
    <3>5. CASE Len(StructsOf(form.text)) # 1
      <4>1. /\ modalOpen' = TRUE /\ structList' = StructsOf(form.text)
            /\ UNCHANGED <<broker, form, Create!noteVars, loadingSubmit, created, attachModal, left, reqs, sent>>
        BY <1>10, <2>3, <3>5 DEF Create!HandleSubmit
      <4>2. CreateTyped'
        BY <1>0, <3>1, <3>3, <4>1 DEF CreateTyped, Create!noteVars
      <4>3. FormNoted'
        BY <1>0, <4>1 DEF FormNoted, Create!noteVars
      <4>4. OwnStruct'
        BY <2>3, <3>1, <3>2, <3>3, <4>1 DEF OwnStruct
      <4> QED
        BY <1>0, <4>1, <4>2, <4>3, <4>4 DEF CreateInv
    <3> QED
      BY <3>4, <3>5
  <2> QED
    BY <2>2, <2>3
<1>11. CASE Create!ConfirmStruct
  <2>1. /\ Create!HandleCreateNewSchema(messageStructName) /\ UNCHANGED Create!modalVars
        /\ messageStructName \in Create!Range(StructsOf(form.text))
    BY <1>0, <1>11 DEF Create!ConfirmStruct, OwnStruct
  <2> QED
    BY <1>0, <2>1, CreateSends DEF CreateTyped, Create!modalVars
<1>12. CASE Create!CloseModal
  BY <1>0, <1>12 DEF Create!CloseModal, CreateInv, CreateTyped, FormNoted, OwnStruct, Create!noteVars
<1>13. CASE Create!GoBack
  BY <1>0, <1>13
  DEF Create!GoBack, CreateInv, CreateTyped, FormNoted, OwnStruct, Create!noteVars, Create!modalVars
<1>14. ASSUME NEW m \in Create!Range(structList), Create!ChooseStruct(m) PROVE CreateInv'
  <2>1. m \in MessageNames
    <3>1. modalOpen /\ StructsOf(form.text) = structList
      BY <1>0, <1>14 DEF Create!ChooseStruct, OwnStruct
    <3>2. structList \in Seq(STRING)
      BY <1>0, <3>1 DEF OwnStruct
    <3>3. m \in STRING
      BY <3>2, ElementOfSeq DEF Create!Range
    <3> QED
      BY <3>3, Zenon DEF MessageNames
  <2> QED
    BY <1>0, <1>14, <2>1
    DEF Create!ChooseStruct, CreateInv, CreateTyped, FormNoted, OwnStruct, Create!noteVars
<1>15. ASSUME NEW i \in DOMAIN reqs, Create!Handle(i) PROVE CreateInv'
  <2>1. reqs[i] \in CreateReq /\ reqs \in Seq(CreateReq)
    BY <1>0, CreateAnswered DEF CreateTyped
  <2>2. /\ \E s \in {"sent", "done", "refused"} : reqs' = [reqs EXCEPT ![i].status = s]
        /\ broker' \subseteq broker \cup {reqs[i].schema}
        /\ UNCHANGED <<form, Create!noteVars, loadingSubmit, Create!modalVars, created, attachModal, left, sent>>
    BY <1>15 DEF Create!Handle
  <2>3. PICK s \in {"sent", "done", "refused"} : reqs' = [reqs EXCEPT ![i].status = s]
    BY <2>2
  <2> DEFINE r == [reqs[i] EXCEPT !.status = s]
  <2>4. r \in CreateReq /\ reqs[i].schema \in CreateSchemas
    BY <2>1 DEF CreateReq
  <2>5. reqs' = [reqs EXCEPT ![i] = r]
    BY <2>1, <2>3
  <2> HIDE DEF r
  <2>6. reqs' \in Seq(CreateReq) /\ (reqs # <<>> => reqs' # <<>>)
    BY <2>1, <2>4, <2>5, ExceptSeq
  <2>7. broker' \subseteq CreateSchemas
    BY <1>0, <2>2, <2>4 DEF CreateTyped
  <2>8. UNCHANGED <<form, validateError, validateSuccess, validating, checked, moved, loadingSubmit, modalOpen,
                    messageStructName, structList, created, attachModal, left>>
    BY <2>2 DEF Create!noteVars, Create!modalVars
  <2>9. CreateTyped'
    BY <1>0, <2>6, <2>7, <2>8 DEF CreateTyped
  <2>10. FormNoted' /\ OwnStruct'
    BY <1>0, <2>8 DEF FormNoted, OwnStruct
  <2> QED
    BY <1>0, <2>6, <2>8, <2>9, <2>10 DEF CreateInv
<1>16. ASSUME NEW i \in DOMAIN reqs, Create!Reply(i) PROVE CreateInv'
  <2>1. reqs[i] \in CreateReq /\ Create!RemoveAt(reqs, i) \in Seq(CreateReq)
    BY CreateAnswered
  <2>2. reqs[i].schema \in CreateSchemas /\ reqs[i].schema.name \in Names \cup {""}
    BY <2>1 DEF CreateReq, CreateSchemas
  <2>3. UNCHANGED <<broker, form, validateError, validateSuccess, validating, checked, moved, modalOpen,
                    messageStructName, structList, left>>
    BY <1>16 DEF Create!Reply, Create!noteVars, Create!modalVars
  <2>a. FormNoted' /\ OwnStruct'
    BY <1>0, <2>3 DEF FormNoted, OwnStruct
  <2>4. CASE reqs[i].op = "create"
    <3> DEFINE r == [op |-> "details", status |-> "sent", schema |-> reqs[i].schema]
    <3>1. r \in CreateReq
      BY <2>2 DEF CreateReq
    <3>2. /\ reqs' = Append(Create!RemoveAt(reqs, i), r)
          /\ UNCHANGED <<created, attachModal, loadingSubmit>>
      BY <1>16, <2>4 DEF Create!Reply, Create!CreateReply
    <3> HIDE DEF r
    <3>3. reqs' \in Seq(CreateReq) /\ reqs' # <<>>
      BY <2>1, <3>1, <3>2, AppendProperties, EmptySeq
    <3>4. CreateTyped'
      BY <1>0, <2>3, <3>2, <3>3 DEF CreateTyped
    <3> QED
      BY <2>a, <3>3, <3>4 DEF CreateInv
  <2>5. CASE reqs[i].op # "create"
    <3>1. /\ reqs' = Create!RemoveAt(reqs, i) /\ created' = reqs[i].schema.name
          /\ attachModal' = TRUE /\ loadingSubmit' = FALSE
      BY <1>16, <2>5 DEF Create!Reply, Create!DetailsReply
    <3>2. CreateTyped'
      BY <1>0, <2>1, <2>2, <2>3, <3>1 DEF CreateTyped
    <3> QED
      BY <2>a, <3>1, <3>2 DEF CreateInv
  <2> QED
    BY <2>4, <2>5
<1>17. ASSUME NEW i \in DOMAIN reqs, Create!Fail(i) PROVE CreateInv'
  <2>1. reqs' \in Seq(CreateReq) /\ loadingSubmit' = FALSE
    BY <1>17, CreateAnswered DEF Create!Fail
  <2> QED
    BY <1>0, <1>17, <2>1 DEF Create!Fail, CreateInv, CreateTyped, FormNoted, OwnStruct
<1> QED
  BY <1>1, <1>2, <1>4, <1>5, <1>6, <1>7, <1>8, <1>9, <1>10, <1>11, <1>12, <1>13, <1>14, <1>15, <1>16, <1>17
  DEF Create!Next

\* What the form shows, and what is created by it.
LEMMA CreateShows ==
    CreateInv => Create!TypeOK /\ Create!NoteIsOfForm /\ Create!StructOfSchema /\ Create!LoaderEnds
<1> SUFFICES ASSUME CreateInv PROVE Create!TypeOK /\ Create!NoteIsOfForm /\ Create!StructOfSchema /\ Create!LoaderEnds
  OBVIOUS
<1>1. Create!TypeOK
  BY DEF CreateInv, CreateTyped, CreateForms, Create!TypeOK
<1>2. Create!NoteIsOfForm
  BY DEF CreateInv, FormNoted, Create!NoteIsOfForm
<1>3. Create!StructOfSchema
  BY DEF CreateInv, CreateTyped, CreateSchemas, Create!StructOfSchema
<1> QED
  BY <1>1, <1>2, <1>3 DEF CreateInv, Create!LoaderEnds
=============================================================================
