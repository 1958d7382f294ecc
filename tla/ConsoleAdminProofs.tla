------------------------- MODULE ConsoleAdminProofs -------------------------
(***************************************************************************)
(* What holds of the pages of clients, users, integrations, the cluster    *)
(* and its logs, and of the notifications, for any sets of names and any   *)
(* bounds.                                                                 *)
(***************************************************************************)
EXTENDS MCConsoleAdmin, SequenceTheorems, FiniteSetTheorems, TLAPS

-----------------------------------------------------------------------------
\* The bounds.
LEMMA Bounds ==
    /\ MaxReloads \in Nat /\ MaxClicks \in Nat /\ MaxObjects \in Nat /\ MaxAsked \in Nat
    /\ MaxTried \in Nat /\ MaxOpens \in Nat /\ MaxEdits \in Nat /\ MaxSent \in Nat
    /\ PageSize \in Nat /\ OldLogs \in Nat /\ MaxLogs \in Nat /\ MaxGets \in Nat /\ MaxListens \in Nat
    /\ MaxPushes \in Nat
BY ConsoleAdminAssumption

-----------------------------------------------------------------------------
(* Requests that are answered in any order. *)

Without(s, i) == SubSeq(s, 1, i - 1) \o SubSeq(s, i + 1, Len(s))

\* What is left of a sequence without one of its elements: the others, in their order.
LEMMA WithoutOne ==
    ASSUME NEW S, NEW s \in Seq(S), NEW i \in 1..Len(s)
    PROVE  /\ Without(s, i) \in Seq(S) /\ Len(Without(s, i)) = Len(s) - 1
           /\ \A j \in 1..Len(s) - 1 : Without(s, i)[j] = IF j < i THEN s[j] ELSE s[j + 1]
<1> DEFINE a == SubSeq(s, 1, i - 1)
           b == SubSeq(s, i + 1, Len(s))
<1>1. /\ a \in Seq(S) /\ Len(a) = i - 1 /\ \A j \in 1..i - 1 : a[j] = s[j]
  BY SubSeqProperties
<1>2. /\ b \in Seq(S) /\ Len(b) = Len(s) - i /\ \A j \in 1..Len(s) - i : b[j] = s[i + j]
  BY SubSeqProperties
<1> HIDE DEF a, b
<1>3. /\ a \o b \in Seq(S) /\ Len(a \o b) = Len(s) - 1
      /\ \A j \in 1..Len(s) - 1 : (a \o b)[j] = IF j <= i - 1 THEN a[j] ELSE b[j - (i - 1)]
  <2>1. /\ a \o b \in Seq(S) /\ Len(a \o b) = Len(a) + Len(b)
        /\ \A j \in 1..Len(a) + Len(b) : (a \o b)[j] = IF j <= Len(a) THEN a[j] ELSE b[j - Len(a)]
    BY <1>1, <1>2, ConcatProperties
  <2>2. Len(s) \in Nat /\ i \in Int
    OBVIOUS
  <2>3. Len(a) + Len(b) = Len(s) - 1
    BY <1>1, <1>2, <2>2
  <2> QED
    BY <1>1, <2>1, <2>3
<1>4. ASSUME NEW j \in 1..Len(s) - 1 PROVE (a \o b)[j] = IF j < i THEN s[j] ELSE s[j + 1]
  <2>1. CASE j < i
    BY <1>1, <1>3, <2>1
  <2>2. CASE ~(j < i)
    <3>1. j - (i - 1) \in 1..Len(s) - i /\ i + (j - (i - 1)) = j + 1
      BY <2>2
    <3> QED
      BY <1>2, <1>3, <2>2, <3>1
  <2> QED
    BY <2>1, <2>2
<1> QED
  BY <1>3, <1>4 DEF Without, a, b

\* Every element but the one taken away is still there, and nothing else is.
LEMMA OthersStay ==
    ASSUME NEW S, NEW s \in Seq(S), NEW i \in 1..Len(s)
    PROVE  /\ \A k \in 1..Len(s) : k # i => \E j \in 1..Len(Without(s, i)) : Without(s, i)[j] = s[k]
           /\ \A j \in 1..Len(Without(s, i)) : \E k \in 1..Len(s) : k # i /\ Without(s, i)[j] = s[k]
<1>1. /\ Len(Without(s, i)) = Len(s) - 1
      /\ \A j \in 1..Len(s) - 1 : Without(s, i)[j] = IF j < i THEN s[j] ELSE s[j + 1]
  BY WithoutOne
<1>2. ASSUME NEW k \in 1..Len(s), k # i PROVE \E j \in 1..Len(s) - 1 : Without(s, i)[j] = s[k]
  <2>1. CASE k < i
    <3>1. k \in 1..Len(s) - 1
      BY <2>1
    <3> QED
      BY <1>1, <2>1, <3>1
  <2>2. CASE k > i
    <3>1. k - 1 \in 1..Len(s) - 1 /\ ~(k - 1 < i) /\ k - 1 + 1 = k
      BY <2>2
    <3> QED
      BY <1>1, <3>1
  <2> QED
    BY <1>2, <2>1, <2>2
<1>3. ASSUME NEW j \in 1..Len(s) - 1 PROVE \E k \in 1..Len(s) : k # i /\ Without(s, i)[j] = s[k]
  <2>1. CASE j < i
    <3>1. j \in 1..Len(s) /\ j # i
      BY <2>1
    <3> QED
      BY <1>1, <2>1, <3>1
  <2>2. CASE ~(j < i)
    <3>1. j + 1 \in 1..Len(s) /\ j + 1 # i
      BY <2>2
    <3> QED
      BY <1>1, <2>2, <3>1
  <2> QED
    BY <2>1, <2>2
<1> QED
  BY <1>1, <1>2, <1>3

\* The elements of a list.
LEMMA Elements ==
    ASSUME NEW S, NEW s \in Seq(S)
    PROVE  /\ Len(s) \in Nat /\ DOMAIN s = 1..Len(s) /\ \A i \in DOMAIN s : s[i] \in S
           /\ s = <<>> <=> DOMAIN s = {}
           /\ s = <<>> <=> Len(s) = 0
<1>1. Len(s) \in Nat /\ DOMAIN s = 1..Len(s)
  BY LenProperties
<1>2. \A i \in DOMAIN s : s[i] \in S
  BY <1>1, ElementOfSeq
<1>3. s = <<>> <=> Len(s) = 0
  BY EmptySeq
<1>4. Len(s) = 0 <=> DOMAIN s = {}
  <2>1. CASE Len(s) = 0
    BY <1>1, <2>1
  <2>2. CASE Len(s) # 0
    <3>1. 1 \in 1..Len(s)
      BY <1>1, <2>2
    <3> QED
      BY <1>1, <2>2, <3>1
  <2> QED
    BY <2>1, <2>2
<1> QED
  BY <1>1, <1>2, <1>3, <1>4

\* A request leaves the list: different ones of the others were different before.
LEMMA Answered ==
    ASSUME NEW S, NEW s \in Seq(S), NEW i \in DOMAIN s, NEW w, w = Without(s, i)
    PROVE  /\ w \in Seq(S) /\ Len(w) = Len(s) - 1
           /\ \A j \in DOMAIN w : \E k \in DOMAIN s : k # i /\ w[j] = s[k]
           /\ \A k \in DOMAIN s : k # i => \E j \in DOMAIN w : w[j] = s[k]
           /\ \A j1, j2 \in DOMAIN w : j1 < j2 =>
                 \E k1, k2 \in DOMAIN s : k1 < k2 /\ k1 # i /\ k2 # i /\ w[j1] = s[k1] /\ w[j2] = s[k2]
<1>0. Len(s) \in Nat /\ DOMAIN s = 1..Len(s)
  BY Elements
<1>1. /\ w \in Seq(S) /\ Len(w) = Len(s) - 1
      /\ \A j \in 1..Len(s) - 1 : w[j] = IF j < i THEN s[j] ELSE s[j + 1]
  BY <1>0, WithoutOne
<1>2. DOMAIN w = 1..Len(s) - 1
  BY <1>1, Elements
<1>3. /\ \A k \in 1..Len(s) : k # i => \E j \in 1..Len(w) : w[j] = s[k]
      /\ \A j \in 1..Len(w) : \E k \in 1..Len(s) : k # i /\ w[j] = s[k]
  <2>1. i \in 1..Len(s)
    BY <1>0
  <2> QED
    BY <2>1, OthersStay, ZenonT(60)
<1>4. ASSUME NEW j1 \in 1..Len(s) - 1, NEW j2 \in 1..Len(s) - 1, j1 < j2
      PROVE  \E k1, k2 \in 1..Len(s) : k1 < k2 /\ k1 # i /\ k2 # i /\ w[j1] = s[k1] /\ w[j2] = s[k2]
  <2> DEFINE k1 == IF j1 < i THEN j1 ELSE j1 + 1
             k2 == IF j2 < i THEN j2 ELSE j2 + 1
  <2>1. k1 \in 1..Len(s) /\ k2 \in 1..Len(s) /\ k1 < k2 /\ k1 # i /\ k2 # i
    BY <1>0, <1>4
  <2>2. w[j1] = s[k1] /\ w[j2] = s[k2]
    BY <1>1
  <2> QED
    BY <2>1, <2>2
<1>5. /\ \A k \in DOMAIN s : k # i => \E j \in DOMAIN w : w[j] = s[k]
      /\ \A j \in DOMAIN w : \E k \in DOMAIN s : k # i /\ w[j] = s[k]
  <2>1. DOMAIN s = 1..Len(s)
    BY <1>0
  <2>2. DOMAIN w = 1..Len(w)
    BY <1>1, Elements
  <2> QED
    BY <1>3, <2>1, <2>2, ZenonT(60)
<1>6. \A j1, j2 \in DOMAIN w : j1 < j2 =>
         \E k1, k2 \in DOMAIN s : k1 < k2 /\ k1 # i /\ k2 # i /\ w[j1] = s[k1] /\ w[j2] = s[k2]
  <2> SUFFICES ASSUME NEW j1 \in DOMAIN w, NEW j2 \in DOMAIN w, j1 < j2
               PROVE  \E k1, k2 \in DOMAIN s :
                         k1 < k2 /\ k1 # i /\ k2 # i /\ w[j1] = s[k1] /\ w[j2] = s[k2]
    BY Zenon
  <2>0. j1 \in 1..Len(s) - 1 /\ j2 \in 1..Len(s) - 1
    BY <1>2
  <2>1. \E k1, k2 \in 1..Len(s) : k1 < k2 /\ k1 # i /\ k2 # i /\ w[j1] = s[k1] /\ w[j2] = s[k2]
    BY <1>4, <2>0, Zenon
  <2> QED
    BY <1>0, <2>1, Zenon
<1> QED
  BY <1>1, <1>5, <1>6

\* The same for places in any order.
LEMMA Apart ==
    ASSUME NEW S, NEW s \in Seq(S), NEW i \in DOMAIN s, NEW w, w = Without(s, i)
    PROVE  \A a, b \in DOMAIN w : a # b =>
              \E k1, k2 \in DOMAIN s : k1 # k2 /\ k1 # i /\ k2 # i /\ w[a] = s[k1] /\ w[b] = s[k2]
<1>0. w \in Seq(S)
  BY Answered
<1>1. ASSUME NEW j1 \in DOMAIN w, NEW j2 \in DOMAIN w, j1 < j2
      PROVE  \E k1, k2 \in DOMAIN s : k1 < k2 /\ k1 # i /\ k2 # i /\ w[j1] = s[k1] /\ w[j2] = s[k2]
  BY <1>1, Answered
<1>2. DOMAIN s = 1..Len(s) /\ Len(s) \in Nat /\ DOMAIN w = 1..Len(w) /\ Len(w) \in Nat
  BY <1>0, Elements
<1> SUFFICES ASSUME NEW a \in DOMAIN w, NEW b \in DOMAIN w, a # b
             PROVE  \E k1, k2 \in DOMAIN s : k1 # k2 /\ k1 # i /\ k2 # i /\ w[a] = s[k1] /\ w[b] = s[k2]
  OBVIOUS
<1>3. a < b \/ b < a
  BY <1>2
<1>4. CASE a < b
  <2>1. PICK k1 \in DOMAIN s, k2 \in DOMAIN s : k1 < k2 /\ k1 # i /\ k2 # i /\ w[a] = s[k1] /\ w[b] = s[k2]
    BY <1>1, <1>4
  <2>2. k1 # k2
    BY <1>2, <2>1
  <2> QED
    BY <2>1, <2>2
<1>5. CASE b < a
  <2>1. PICK k1 \in DOMAIN s, k2 \in DOMAIN s : k1 < k2 /\ k1 # i /\ k2 # i /\ w[b] = s[k1] /\ w[a] = s[k2]
    BY <1>1, <1>5
  <2>2. k1 # k2
    BY <1>2, <2>1
  <2> QED
    BY <2>1, <2>2
<1> QED
  BY <1>3, <1>4, <1>5

\* Different ones that stay are at different places.
LEMMA StayApart ==
    ASSUME NEW S, NEW s \in Seq(S), NEW i \in DOMAIN s, NEW w, w = Without(s, i)
    PROVE  \A k1, k2 \in DOMAIN s : k1 # k2 /\ k1 # i /\ k2 # i =>
              \E a, b \in DOMAIN w : a # b /\ w[a] = s[k1] /\ w[b] = s[k2]
<1>0. Len(s) \in Nat /\ DOMAIN s = 1..Len(s)
  BY Elements
<1>1. /\ w \in Seq(S) /\ Len(w) = Len(s) - 1
      /\ \A j \in 1..Len(s) - 1 : w[j] = IF j < i THEN s[j] ELSE s[j + 1]
  BY <1>0, WithoutOne
<1>2. DOMAIN w = 1..Len(s) - 1
  BY <1>1, Elements
<1> SUFFICES ASSUME NEW k1 \in DOMAIN s, NEW k2 \in DOMAIN s, k1 # k2, k1 # i, k2 # i
             PROVE  \E a, b \in DOMAIN w : a # b /\ w[a] = s[k1] /\ w[b] = s[k2]
  BY Zenon
<1> DEFINE at(k) == IF k < i THEN k ELSE k - 1
<1>3. ASSUME NEW k \in DOMAIN s, k # i PROVE at(k) \in 1..Len(s) - 1 /\ w[at(k)] = s[k]
  <2>1. at(k) \in 1..Len(s) - 1 /\ k = IF at(k) < i THEN at(k) ELSE at(k) + 1
    BY <1>0, <1>3
  <2> HIDE DEF at
  <2> QED
    BY <1>1, <2>1
<1>4. at(k1) # at(k2)
  BY <1>0
<1> HIDE DEF at
<1>5. at(k1) \in DOMAIN w /\ at(k2) \in DOMAIN w /\ w[at(k1)] = s[k1] /\ w[at(k2)] = s[k2]
  BY <1>2, <1>3
<1> QED
  BY <1>4, <1>5

\* A request is sent.
LEMMA Appended ==
    ASSUME NEW S, NEW s \in Seq(S), NEW x \in S, NEW w, w = Append(s, x)
    PROVE  /\ w \in Seq(S) /\ Len(w) = Len(s) + 1 /\ w # <<>>
           /\ \A j \in DOMAIN s : j \in DOMAIN w /\ w[j] = s[j]
           /\ Len(w) \in DOMAIN w /\ w[Len(w)] = x
           /\ \A j \in DOMAIN w : \/ j \in DOMAIN s /\ w[j] = s[j]
                                  \/ j = Len(w) /\ j \notin DOMAIN s
<1>0. Len(s) \in Nat /\ DOMAIN s = 1..Len(s)
  BY Elements
<1>1. w \in Seq(S) /\ Len(w) = Len(s) + 1 /\ w[Len(s) + 1] = x /\ \A j \in 1..Len(s) : w[j] = s[j]
  BY AppendProperties
<1>2. DOMAIN w = 1..Len(s) + 1
  BY <1>1, Elements
<1>3. w # <<>>
  BY <1>0, <1>2, Elements
<1>4. \A j \in DOMAIN s : j \in DOMAIN w
  BY <1>0, <1>2
<1>5. \A j \in DOMAIN w : j \in DOMAIN s \/ (j = Len(s) + 1 /\ j \notin DOMAIN s)
  <2> SUFFICES ASSUME NEW j \in 1..Len(s) + 1, j \notin 1..Len(s) PROVE j = Len(s) + 1
    BY <1>0, <1>2
  <2> QED
    BY <1>0
<1>6. Len(s) + 1 \in DOMAIN w
  BY <1>0, <1>2
<1> QED
  BY <1>0, <1>1, <1>3, <1>4, <1>5, <1>6

\* A request is handled.
LEMMA Changed ==
    ASSUME NEW S, NEW s \in Seq(S), NEW i \in DOMAIN s, NEW x \in S, NEW w, w = [s EXCEPT ![i] = x]
    PROVE  /\ w \in Seq(S) /\ Len(w) = Len(s) /\ DOMAIN w = DOMAIN s /\ w[i] = x
           /\ \A j \in DOMAIN s : j # i => w[j] = s[j]
<1>0. Len(s) \in Nat /\ DOMAIN s = 1..Len(s)
  BY Elements
<1>1. w \in Seq(S) /\ Len(w) = Len(s)
  BY <1>0, ExceptSeq
<1> QED
  BY <1>0, <1>1

\* One list after another.
LEMMA OneAfterOther ==
    ASSUME NEW S, NEW s \in Seq(S), NEW u \in Seq(S)
    PROVE  /\ s \o u \in Seq(S) /\ Len(s \o u) = Len(s) + Len(u) /\ DOMAIN (s \o u) = 1..Len(s) + Len(u)
           /\ Len(s) \in Nat /\ Len(u) \in Nat
           /\ \A i \in 1..Len(s) : i \in DOMAIN (s \o u) /\ (s \o u)[i] = s[i]
           /\ \A i \in 1..Len(u) : Len(s) + i \in DOMAIN (s \o u) /\ (s \o u)[Len(s) + i] = u[i]
           /\ \A k \in DOMAIN (s \o u) : \/ k \in 1..Len(s)
                                         \/ \E i \in 1..Len(u) : k = Len(s) + i
<1> DEFINE a == Len(s)
           b == Len(u)
           c == s \o u
<1>1. a \in Nat /\ b \in Nat
  OBVIOUS
<1>2. c \in Seq(S) /\ Len(c) = a + b /\ \A i \in 1..a + b : c[i] = IF i <= a THEN s[i] ELSE u[i - a]
  BY ConcatProperties
<1>3. DOMAIN c = 1..a + b
  BY <1>2, LenProperties
<1> HIDE DEF a, b, c
<1>4. \A i \in 1..a : i \in 1..a + b /\ i <= a
  BY <1>1
<1>5. \A i \in 1..b : a + i \in 1..a + b /\ ~(a + i <= a) /\ (a + i) - a = i
  BY <1>1
<1>6. \A k \in 1..a + b : k \in 1..a \/ \E i \in 1..b : k = a + i
  <2> SUFFICES ASSUME NEW k \in 1..a + b, k \notin 1..a PROVE \E i \in 1..b : k = a + i
    OBVIOUS
  <2>1. k - a \in 1..b /\ k = a + (k - a)
    BY <1>1
  <2> QED
    BY <2>1
<1>7. \A i \in 1..a : c[i] = s[i]
  BY <1>2, <1>4
<1>8. \A i \in 1..b : c[a + i] = u[i]
  BY <1>2, <1>5
<1> QED
  BY <1>1, <1>2, <1>3, <1>4, <1>5, <1>6, <1>7, <1>8 DEF a, b, c

-----------------------------------------------------------------------------
(* Counting. *)

Listing(S) ==
    CHOOSE s \in [1..Cardinality(S) -> S] : \A i, j \in DOMAIN s : s[i] = s[j] => i = j

\* The elements of a finite set can be listed, each at one place.
LEMMA ListingOf ==
    ASSUME NEW S, IsFiniteSet(S)
    PROVE  /\ Listing(S) \in Seq(S) /\ Len(Listing(S)) = Cardinality(S)
           /\ \A i, j \in 1..Cardinality(S) : Listing(S)[i] = Listing(S)[j] => i = j
           /\ \A x \in S : \E i \in 1..Cardinality(S) : Listing(S)[i] = x
<1> DEFINE n == Cardinality(S)
           s == Listing(S)
<1>1. n \in Nat
  BY FS_CardinalityType
<1>2. \E f : f \in Bijection(1..n, S)
  BY FS_NatBijection, FS_CountingElements DEF ExistsBijection
<1>3. PICK f \in [1..n -> S] : \A i, j \in DOMAIN f : f[i] = f[j] => i = j
  BY <1>2 DEF Bijection, Injection, IsInjective
<1>4. s \in [1..n -> S] /\ \A i, j \in DOMAIN s : s[i] = s[j] => i = j
  <2>1. \E g \in [1..n -> S] : \A i, j \in DOMAIN g : g[i] = g[j] => i = j
    BY <1>3
  <2> QED
    BY <2>1 DEF Listing
<1> HIDE DEF s, n
<1>5. s \in Injection(1..n, S)
  BY <1>4 DEF Injection, IsInjective
<1>6. Cardinality(1..n) = Cardinality(S)
  BY <1>1, FS_Interval DEF n
<1>7. s \in Surjection(1..n, S)
  BY <1>5, <1>6, FS_Injection
<1>8. \A x \in S : \E i \in 1..n : s[i] = x
  BY <1>7 DEF Surjection
<1>9. s \in Seq(S) /\ Len(s) = n
  BY <1>1, <1>4, SeqDef, LenProperties
<1> QED
  BY <1>4, <1>8, <1>9 DEF s, n

\* Two places are at most two.
LEMMA TwoPlaces ==
    ASSUME NEW P, NEW a, NEW b, P \subseteq {a, b}
    PROVE  IsFiniteSet(P) /\ Cardinality(P) \in Nat /\ Cardinality(P) <= 2
<1>1. IsFiniteSet({a}) /\ Cardinality({a}) = 1
  BY FS_Singleton
<1>2. IsFiniteSet({a} \cup {b}) /\ Cardinality({a} \cup {b}) <= 2
  BY <1>1, FS_AddElement
<1>3. P \in SUBSET ({a} \cup {b})
  OBVIOUS
<1>4. IsFiniteSet(P) /\ Cardinality(P) <= Cardinality({a} \cup {b})
  BY <1>2, <1>3, FS_Subset
<1> DEFINE x == Cardinality(P)
           y == Cardinality({a} \cup {b})
<1>5. x \in Nat
  BY <1>4, FS_CardinalityType
<1>6. y \in Nat
  BY <1>2, FS_CardinalityType
<1>7. x <= y /\ y <= 2
  BY <1>2, <1>4
<1> HIDE DEF x, y
<1>8. x <= 2
  BY <1>5, <1>6, <1>7
<1> QED
  BY <1>4, <1>5, <1>8 DEF x

\* Places of a list.
LEMMA PlacesFinite ==
    ASSUME NEW n \in Nat, NEW P \in SUBSET (1..n)
    PROVE  IsFiniteSet(P) /\ Cardinality(P) \in Nat /\ (P = {} <=> Cardinality(P) = 0)
<1>1. IsFiniteSet(1..n)
  BY FS_Interval
<1>2. IsFiniteSet(P)
  BY <1>1, FS_Subset
<1> QED
  BY <1>2, FS_CardinalityType, FS_EmptySet

-----------------------------------------------------------------------------
(* The form for a user. *)

\* Both copies of a field are the same.
UserInv == User!TypeOK /\ creationForm = formFields

LEMMA UserStart == User!Init => UserInv
BY DEF User!Init, UserInv, User!TypeOK, User!Empty, User!Fields, User!Kinds

\* Every step of the form, and what it sends.
LEMMA UserStep ==
    ASSUME UserInv, [User!Next]_(User!vars)
    PROVE  UserInv' /\ User!SendsWhatIsShown
<1> USE DEF UserInv, User!TypeOK
<1>a. formFields.perms \in [User!Kinds -> SUBSET Stations]
  BY DEF User!Fields
<1>1. CASE UNCHANGED User!vars
  BY <1>1 DEF User!vars, User!SendsWhatIsShown
<1>2. ASSUME NEW t \in {"management", "application"}, User!HandleUserTypeChanged(t)
      PROVE  UserInv' /\ User!SendsWhatIsShown
  BY <1>2 DEF User!HandleUserTypeChanged, User!SendsWhatIsShown
<1>3. ASSUME NEW f \in {"username", "password"}, NEW w \in Words, User!SetBoth(<<f, w>>), UNCHANGED <<userType, rbac, sent>>
      PROVE  UserInv' /\ User!SendsWhatIsShown
  BY <1>3 DEF User!SetBoth, User!SendsWhatIsShown, User!Fields
<1>4. ASSUME NEW p \in [User!Kinds -> SUBSET Stations], User!SetBoth(<<"perms", p>>)
      PROVE  creationForm' = formFields' /\ formFields' \in User!Fields
  BY <1>4 DEF User!SetBoth, User!Fields
<1>5. ASSUME NEW k \in User!Kinds, NEW S \in SUBSET Stations, User!OnPermissions(k, S)
      PROVE  UserInv' /\ User!SendsWhatIsShown
  <2>1. [formFields.perms EXCEPT ![k] = S] \in [User!Kinds -> SUBSET Stations]
    BY <1>a
  <2> QED
    BY <1>4, <1>5, <2>1 DEF User!OnPermissions, User!SendsWhatIsShown
<1>6. ASSUME NEW k \in User!Kinds, NEW way \in {"pattern", "stations"}, User!OnRbacType(k, way)
      PROVE  UserInv' /\ User!SendsWhatIsShown
  <2>1. [formFields.perms EXCEPT ![k] = {}] \in [User!Kinds -> SUBSET Stations]
    BY <1>a
  <2>2. rbac' \in [User!Kinds -> {"pattern", "stations"}]
    BY <1>6 DEF User!OnRbacType
  <2> QED
    BY <1>4, <1>6, <2>1, <2>2 DEF User!OnRbacType, User!SendsWhatIsShown
<1>7. CASE User!OnFinish
  <2>1. UserInv'
    BY <1>7 DEF User!OnFinish
  <2>2. ASSUME NEW f \in {"username", "password"} \cap User!OnScreen PROVE sent'[f] = formFields[f]
    BY <1>7, <2>2 DEF User!OnFinish, User!Body
  <2>3. ASSUME NEW k \in User!Kinds
        PROVE  sent'.perms[k] = IF k \in User!OnScreen THEN creationForm.perms[k] ELSE {}
    <3>1. CASE userType = "management"
      BY <1>7, <3>1 DEF User!OnFinish, User!Body, User!OnScreen, User!ManagementFields, User!Kinds
    <3>2. CASE userType = "application"
      BY <1>7, <3>2 DEF User!OnFinish, User!Body, User!OnScreen, User!ClientFields, User!Kinds
    <3> QED
      BY <3>1, <3>2
  <2> QED
    BY <2>1, <2>2, <2>3 DEF User!SendsWhatIsShown
<1> QED
  BY <1>1, <1>2, <1>3, <1>5, <1>6, <1>7 DEF User!Next, User!GenerateNewPassword, User!OnChange

-----------------------------------------------------------------------------
(* The form for a token. *)

\* While no drawer was closed too early, every copy of the form that a handler may
\* write back has the secret that was typed last, because the form cannot be reached
\* as long as one is kept.
RendersKeep ==
    ~late => /\ form.secret = typed
             /\ listing # None => listing.render.secret = typed
             /\ creating # None => drawer /\ creating.render.secret = typed

TokenInv == Token!TypeOK /\ RendersKeep /\ (creating = None \/ listing = None)

LEMMA TokenStart == Token!Init => TokenInv
<1> SUFFICES ASSUME Token!Init PROVE TokenInv
  OBVIOUS
<1> DEFINE f == [user |-> None, secret |-> None]
<1>1. f \in Token!Form /\ f.secret = None /\ f = Token!Empty
  BY DEF Token!Form, Token!Empty
<1>2. form = f /\ listing = [render |-> f, then |-> None]
  BY <1>1 DEF Token!Init
<1>3. None # [render |-> f, then |-> None]
  BY <1>1, ConsoleAdminAssumption DEF Token!Form
<1> HIDE DEF f
<1>4. listing # None /\ listing \in [render : Token!Form, then : TokenUsers \cup {None}] /\ listing.render = f
  BY <1>1, <1>2, <1>3
<1> QED
  BY <1>1, <1>2, <1>4 DEF Token!Init, TokenInv, RendersKeep, Token!TypeOK

\* Every step of the form.
LEMMA TokenStep ==
    ASSUME TokenInv, [Token!Next]_(Token!vars)
    PROVE  TokenInv'
<1> USE DEF TokenInv
<1>0. /\ users \subseteq TokenUsers /\ loading \in BOOLEAN /\ drawer \in BOOLEAN /\ late \in BOOLEAN
      /\ form \in Token!Form /\ asking \in Token!Form \cup {None} /\ token \in Token!Form \cup {None}
      /\ creating # None => creating \in [user : TokenUsers, render : Token!Form]
      /\ listing # None => listing \in [render : Token!Form, then : TokenUsers \cup {None}]
      /\ typed \in TokenSecrets \cup {None}
      /\ loading <=> listing # None
  BY DEF Token!TypeOK
<1>a. ASSUME NEW f \in Token!Form
      PROVE  /\ f # None
             /\ \A u \in TokenUsers : None # [user |-> u, render |-> f]
             /\ \A u \in TokenUsers \cup {None} : None # [render |-> f, then |-> u]
  BY ConsoleAdminAssumption DEF Token!Form
<1>b. ASSUME NEW f \in Token!Form
      PROVE  /\ \A u \in TokenUsers : [f EXCEPT !["user"] = u] \in Token!Form /\ [f EXCEPT !["user"] = u].secret = f.secret
             /\ \A x \in TokenSecrets : [f EXCEPT !["secret"] = x] \in Token!Form /\ [f EXCEPT !["secret"] = x].secret = x
  BY DEF Token!Form
<1>1. CASE UNCHANGED Token!vars
  BY <1>1 DEF Token!vars, Token!TypeOK, RendersKeep
<1>2. ASSUME NEW u \in TokenUsers, Token!OnChangeUser(u) PROVE TokenInv'
  BY <1>0, <1>2, <1>b DEF Token!OnChangeUser, Token!UpdateState, Token!Editable, Token!TypeOK, RendersKeep
<1>3. ASSUME NEW x \in TokenSecrets, Token!OnChangeSecret(x) PROVE TokenInv'
  BY <1>0, <1>3, <1>b DEF Token!OnChangeSecret, Token!UpdateState, Token!Editable, Token!TypeOK, RendersKeep
<1>4. ASSUME NEW ok \in BOOLEAN, Token!GetAppUsers(ok) PROVE TokenInv'
  <2>0. /\ listing # None /\ loading' = FALSE /\ listing' = None /\ drawer' \in BOOLEAN
        /\ creating = None /\ UNCHANGED <<users, creating, asking, token, typed, late>>
    BY <1>0, <1>4 DEF Token!GetAppUsers
  <2>1. listing.render \in Token!Form /\ listing.then \in TokenUsers \cup {None}
    BY <1>0, <2>0
  <2>2. CASE listing.then # None
    <3>1. form' = [listing.render EXCEPT !["user"] = listing.then]
      BY <1>4, <2>2 DEF Token!GetAppUsers, Token!UpdateState
    <3>2. form' \in Token!Form /\ form'.secret = listing.render.secret
      BY <1>b, <2>1, <2>2, <3>1
    <3> QED
      BY <1>0, <2>0, <3>2 DEF Token!TypeOK, RendersKeep
  <2>3. CASE listing.then = None /\ ok
    <3>1. \E u \in TokenUsers : form' = [listing.render EXCEPT !["user"] = u]
      BY <1>0, <1>4, <2>3 DEF Token!GetAppUsers, Token!UpdateState
    <3>2. form' \in Token!Form /\ form'.secret = listing.render.secret
      BY <1>b, <2>1, <3>1
    <3> QED
      BY <1>0, <2>0, <3>2 DEF Token!TypeOK, RendersKeep
  <2>4. CASE listing.then = None /\ ~ok
    <3>1. form' = form
      BY <1>4, <2>4 DEF Token!GetAppUsers
    <3> QED
      BY <1>0, <2>0, <3>1 DEF Token!TypeOK, RendersKeep
  <2> QED
    BY <2>2, <2>3, <2>4
<1>5. CASE Token!HandleCreateNew
  BY <1>0, <1>5 DEF Token!HandleCreateNew, Token!TypeOK, RendersKeep
<1>6. CASE Token!CloseDrawer
  BY <1>0, <1>6 DEF Token!CloseDrawer, Token!TypeOK, RendersKeep
<1>7. ASSUME NEW u \in TokenUsers, Token!CreateUser(u) PROVE TokenInv'
  BY <1>0, <1>7, <1>a DEF Token!CreateUser, Token!TypeOK, RendersKeep
<1>8. CASE Token!HandleAddUser
  <2>1. creating.user \in TokenUsers /\ creating.render \in Token!Form
    BY <1>0, <1>8 DEF Token!HandleAddUser
  <2>2. listing' # None /\ listing' \in [render : Token!Form, then : TokenUsers \cup {None}]
    BY <1>8, <1>a, <2>1 DEF Token!HandleAddUser
  <2> QED
    BY <1>0, <1>8, <2>1, <2>2 DEF Token!HandleAddUser, Token!TypeOK, RendersKeep
<1>9. CASE Token!CreateFails
  BY <1>0, <1>9 DEF Token!CreateFails, Token!TypeOK, RendersKeep
<1>10. CASE Token!GenerateToken
  BY <1>0, <1>10 DEF Token!GenerateToken, Token!TypeOK, RendersKeep
<1>11. CASE Token!TokenReply
  BY <1>0, <1>11 DEF Token!TokenReply, Token!TypeOK, RendersKeep
<1>12. CASE Token!ClearToken
  BY <1>0, <1>12 DEF Token!ClearToken, Token!TypeOK, RendersKeep
<1> QED
  BY <1>1, <1>2, <1>3, <1>4, <1>5, <1>6, <1>7, <1>8, <1>9, <1>10, <1>11, <1>12 DEF Token!Next
-----------------------------------------------------------------------------
(* The notifications. *)

Item == [id : Ids, read : BOOLEAN]

\* Lists in which an id has two copies at most, which were all read or all not.
NoteLists ==
    {l \in Seq(Item) : /\ \A i, j \in DOMAIN l : l[i].id = l[j].id => l[i].read = l[j].read
                       /\ \A n \in Ids : Notes!Copies(l, n) <= 2}

NotesTyped ==
    /\ stored \in NoteLists /\ list \in [NTabs -> NoteLists]
    /\ open \in [NTabs -> [Ids -> Nat]] /\ displayed \in [NTabs -> SUBSET Ids]
    /\ published \subseteq Ids /\ dismissed \subseteq Ids /\ lost \subseteq dismissed
    /\ reloads \in 0..MaxReloads

\* What is known of was published.
OfPublished ==
    /\ Notes!IdsOf(stored) \subseteq published
    /\ \A t \in NTabs : Notes!IdsOf(list[t]) \cup displayed[t] \subseteq published

\* What is on the screen of a tab is in its list, has been displayed, and is there twice
\* at most.
OpenListed ==
    \A t \in NTabs, n \in Ids :
        /\ open[t][n] <= 2
        /\ open[t][n] > 0 => n \in displayed[t] /\ n \in Notes!IdsOf(list[t])

\* What was closed is marked in the storage, unless the mark was lost.
ClosedMarked == \A n \in dismissed \ lost : Notes!Marked(stored, n)

NotesInv == NotesTyped /\ OfPublished /\ OpenListed /\ ClosedMarked

LEMMA NotesCount == ASSUME NEW S PROVE Notes!Cardinality(S) = Cardinality(S)
BY DEF Notes!Cardinality, Cardinality

\* The copies of a list, and those that are unread.
LEMMA CopiesOf ==
    ASSUME NEW l \in Seq(Item), NEW n \in Ids
    PROVE  /\ Notes!Copies(l, n) \in Nat /\ Notes!UnreadCopies(l, n) \in Nat
           /\ Notes!UnreadCopies(l, n) <= Notes!Copies(l, n)
           /\ Notes!UnreadCopies(l, n) > 0 => n \in Notes!IdsOf(l) /\ ~\A i \in DOMAIN l : l[i].id = n => l[i].read
<1> DEFINE P == {i \in DOMAIN l : l[i].id = n}
           Q == {i \in DOMAIN l : l[i].id = n /\ ~l[i].read}
<1>1. DOMAIN l = 1..Len(l) /\ Len(l) \in Nat
  BY LenProperties
<1>2. P \in SUBSET (1..Len(l)) /\ Q \in SUBSET (1..Len(l)) /\ Q \in SUBSET P
  BY <1>1
<1>3. Notes!Copies(l, n) = Cardinality(P) /\ Notes!UnreadCopies(l, n) = Cardinality(Q)
  BY NotesCount DEF Notes!Copies, Notes!UnreadCopies
<1>4. Q # {} => n \in Notes!IdsOf(l) /\ ~\A i \in DOMAIN l : l[i].id = n => l[i].read
  BY DEF Notes!IdsOf
<1> HIDE DEF P, Q
<1>5. IsFiniteSet(P) /\ Cardinality(P) \in Nat /\ Cardinality(Q) \in Nat /\ (Q = {} <=> Cardinality(Q) = 0)
  BY <1>1, <1>2, PlacesFinite
<1>6. Cardinality(Q) <= Cardinality(P)
  BY <1>2, <1>5, FS_Subset
<1> QED
  BY <1>3, <1>4, <1>5, <1>6

\* The ids of new notifications.
New(t) == {[id |-> n, read |-> FALSE] : n \in Notes!UniqueNew(t)}

LEMMA NewListed ==
    ASSUME NotesInv, NEW t \in NTabs, NEW new, new = Notes!SetToSeq(New(t))
    PROVE  /\ new \in Seq(Item)
           /\ \A i \in 1..Len(new) : new[i].id \in published /\ ~new[i].read /\ new[i].id \notin Notes!IdsOf(list[t])
           /\ \A i, j \in 1..Len(new) : new[i].id = new[j].id => i = j
<1>1. Notes!UniqueNew(t) \subseteq published \ Notes!IdsOf(list[t]) /\ published \in SUBSET Ids
  BY DEF Notes!UniqueNew, NotesInv, NotesTyped
<1>2. IsFiniteSet(New(t))
  <2> DEFINE f == [n \in Notes!UniqueNew(t) |-> [id |-> n, read |-> FALSE]]
  <2>1. f \in Surjection(Notes!UniqueNew(t), New(t))
    BY DEF Surjection, New
  <2>2. IsFiniteSet(Notes!UniqueNew(t))
    <3>1. Notes!UniqueNew(t) \in SUBSET Ids
      BY <1>1
    <3> QED
      BY <3>1, ConsoleAdminAssumption, FS_Subset
  <2> HIDE DEF f
  <2> QED
    BY <2>1, <2>2, FS_Surjection
<1>3. new = Listing(New(t))
  BY NotesCount DEF Listing, Notes!SetToSeq
<1>4. /\ new \in Seq(New(t)) /\ Len(new) = Cardinality(New(t))
      /\ \A i, j \in 1..Len(new) : new[i] = new[j] => i = j
  BY <1>2, <1>3, ListingOf
<1>5. New(t) \subseteq Item
  <2> SUFFICES ASSUME NEW n \in Notes!UniqueNew(t) PROVE [id |-> n, read |-> FALSE] \in Item
    BY DEF New
  <2> QED
    BY <1>1 DEF Item
<1>6. \A i \in 1..Len(new) : new[i] \in New(t)
  BY <1>4, ElementOfSeq
<1>7. \A x \in New(t) : x.id \in published \ Notes!IdsOf(list[t]) /\ ~x.read /\ x = [id |-> x.id, read |-> FALSE]
  BY <1>1 DEF New
<1>8. new \in Seq(Item)
  BY <1>4, <1>5, SeqMonotonic
<1>9. \A i, j \in 1..Len(new) : new[i].id = new[j].id => new[i] = new[j]
  <2> SUFFICES ASSUME NEW i \in 1..Len(new), NEW j \in 1..Len(new), new[i].id = new[j].id
               PROVE  new[i] = new[j]
    OBVIOUS
  <2> DEFINE x == new[i]
             y == new[j]
  <2>1. x \in New(t) /\ y \in New(t) /\ x.id = y.id
    BY <1>6
  <2> HIDE DEF x, y
  <2>2. x = [id |-> x.id, read |-> FALSE] /\ y = [id |-> y.id, read |-> FALSE]
    BY <1>7, <2>1
  <2>3. x = y
    BY <2>1, <2>2
  <2> QED
    BY <2>3 DEF x, y
<1> QED
  BY <1>4, <1>6, <1>7, <1>8, <1>9

\* New notifications after a list, once or twice: ids of the list keep their copies, the
\* others have one in each.
LEMMA NewAppended ==
    ASSUME NEW l \in NoteLists, NEW new \in Seq(Item),
           \A i \in 1..Len(new) : ~new[i].read /\ new[i].id \notin Notes!IdsOf(l),
           \A i, j \in 1..Len(new) : new[i].id = new[j].id => i = j
    PROVE  /\ l \o new \in NoteLists /\ (l \o new) \o new \in NoteLists
           /\ Notes!IdsOf(l \o new) = Notes!IdsOf(l) \cup Notes!IdsOf(new)
           /\ Notes!IdsOf((l \o new) \o new) = Notes!IdsOf(l) \cup Notes!IdsOf(new)
<1> DEFINE a == Len(l)
           b == Len(new)
           m == l \o new
           mm == m \o new
<1>0. l \in Seq(Item) /\ (\A i, j \in DOMAIN l : l[i].id = l[j].id => l[i].read = l[j].read)
      /\ (\A n \in Ids : Notes!Copies(l, n) <= 2)
  BY DEF NoteLists
<1>1. DOMAIN l = 1..a /\ DOMAIN new = 1..b
  BY <1>0, LenProperties
<1>s. m \in Seq(Item) /\ a \in Nat /\ b \in Nat
  BY <1>0, OneAfterOther
<1>2. /\ \A i \in 1..a : i \in DOMAIN m /\ m[i] = l[i]
      /\ \A i \in 1..b : a + i \in DOMAIN m /\ m[a + i] = new[i]
      /\ \A k \in DOMAIN m : k \in 1..a \/ \E i \in 1..b : k = a + i
  BY <1>0, OneAfterOther
<1>d. DOMAIN m = 1..Len(m)
  BY <1>s, LenProperties
<1> DEFINE c == Len(m)
<1>c. c \in Nat
  BY <1>s, LenProperties
<1> HIDE DEF m
<1>3. /\ mm \in Seq(Item)
      /\ \A i \in DOMAIN m : i \in DOMAIN mm /\ mm[i] = m[i]
      /\ \A i \in 1..b : c + i \in DOMAIN mm /\ mm[c + i] = new[i]
      /\ \A k \in DOMAIN mm : k \in DOMAIN m \/ \E i \in 1..b : k = c + i
  <2>1. /\ mm \in Seq(Item)
        /\ \A i \in 1..c : i \in DOMAIN mm /\ mm[i] = m[i]
        /\ \A i \in 1..b : c + i \in DOMAIN mm /\ mm[c + i] = new[i]
        /\ \A k \in DOMAIN mm : k \in 1..c \/ \E i \in 1..b : k = c + i
    BY <1>s, OneAfterOther
  <2> QED
    BY <1>d, <2>1
<1> HIDE DEF a, b, c, mm
<1>4. /\ \A i \in DOMAIN l : i \in DOMAIN mm /\ mm[i] = l[i]
      /\ \A i \in 1..b : a + i \in DOMAIN mm /\ mm[a + i] = new[i] /\ mm[c + i] = new[i]
      /\ \A k \in DOMAIN mm : k \in DOMAIN l \/ \E i \in 1..b : k = a + i \/ k = c + i
  <2>1. \A i \in DOMAIN l : i \in DOMAIN m /\ m[i] = l[i]
    BY <1>1, <1>2
  <2>2. \A i \in 1..b : mm[a + i] = m[a + i] /\ a + i \in DOMAIN mm
    BY <1>2, <1>3
  <2>3. \A i \in 1..b : mm[c + i] = new[i]
    BY <1>2, <1>3
  <2>4. \A k \in DOMAIN mm : k \in DOMAIN m \/ \E i \in 1..b : k = c + i
    BY <1>2, <1>3
  <2>5. \A k \in DOMAIN m : k \in DOMAIN l \/ \E i \in 1..b : k = a + i
    BY <1>1, <1>2
  <2>6. \A i \in 1..b : mm[a + i] = new[i]
    BY <1>2, <2>2
  <2>7. \A i \in DOMAIN l : i \in DOMAIN mm /\ mm[i] = l[i]
    BY <1>3, <2>1
  <2>8. \A k \in DOMAIN mm : k \in DOMAIN l \/ \E i \in 1..b : k = a + i \/ k = c + i
    BY <2>4, <2>5
  <2> QED
    BY <2>2, <2>3, <2>6, <2>7, <2>8
<1>z. \A i \in DOMAIN l : l[i].id \in Notes!IdsOf(l)
  BY DEF Notes!IdsOf
<1>w. \A i \in 1..b : new[i].id \in Notes!IdsOf(new) /\ ~new[i].read /\ new[i].id \notin Notes!IdsOf(l)
  BY <1>1 DEF Notes!IdsOf, b
<1>x. \A k \in DOMAIN m : \/ k \in DOMAIN l /\ m[k] = l[k]
                          \/ ~m[k].read /\ m[k].id \in Notes!IdsOf(new) /\ m[k].id \notin Notes!IdsOf(l)
  BY <1>1, <1>2, <1>w
<1>y. \A k \in DOMAIN mm : \/ k \in DOMAIN l /\ mm[k] = l[k]
                           \/ ~mm[k].read /\ mm[k].id \in Notes!IdsOf(new) /\ mm[k].id \notin Notes!IdsOf(l)
  BY <1>4, <1>w
<1>5. Notes!IdsOf(m) = Notes!IdsOf(l) \cup Notes!IdsOf(new)
  <2>1. \A k \in DOMAIN m : m[k].id \in Notes!IdsOf(l) \cup Notes!IdsOf(new)
    BY <1>x, <1>z
  <2>2. \A i \in DOMAIN l : l[i].id \in Notes!IdsOf(m)
    BY <1>1, <1>2 DEF Notes!IdsOf
  <2>3. \A i \in DOMAIN new : new[i].id \in Notes!IdsOf(m)
    <3> SUFFICES ASSUME NEW i \in 1..b PROVE new[i].id \in Notes!IdsOf(m)
      BY <1>1
    <3>1. a + i \in DOMAIN m /\ m[a + i] = new[i]
      BY <1>2
    <3> QED
      BY <3>1 DEF Notes!IdsOf
  <2> QED
    BY <2>1, <2>2, <2>3 DEF Notes!IdsOf
<1>6. Notes!IdsOf(mm) = Notes!IdsOf(l) \cup Notes!IdsOf(new)
  <2>1. \A k \in DOMAIN mm : mm[k].id \in Notes!IdsOf(l) \cup Notes!IdsOf(new)
    BY <1>y, <1>z
  <2>2. \A i \in DOMAIN l : l[i].id \in Notes!IdsOf(mm)
    BY <1>4 DEF Notes!IdsOf
  <2>3. \A i \in DOMAIN new : new[i].id \in Notes!IdsOf(mm)
    BY <1>1, <1>4 DEF Notes!IdsOf
  <2> QED
    BY <2>1, <2>2, <2>3 DEF Notes!IdsOf
<1>7. \A i, j \in DOMAIN m : m[i].id = m[j].id => m[i].read = m[j].read
  <2> SUFFICES ASSUME NEW i \in DOMAIN m, NEW j \in DOMAIN m, m[i].id = m[j].id PROVE m[i].read = m[j].read
    OBVIOUS
  <2>1. m[i] \in Item /\ m[j] \in Item
    BY <1>s, <1>d, ElementOfSeq
  <2> QED
    BY <1>0, <1>x, <1>z, <2>1 DEF Item
<1>8. \A i, j \in DOMAIN mm : mm[i].id = mm[j].id => mm[i].read = mm[j].read
  <2> SUFFICES ASSUME NEW i \in DOMAIN mm, NEW j \in DOMAIN mm, mm[i].id = mm[j].id PROVE mm[i].read = mm[j].read
    OBVIOUS
  <2>1. mm[i] \in Item /\ mm[j] \in Item
    BY <1>3, ElementOfSeq
  <2> QED
    BY <1>0, <1>y, <1>z, <2>1 DEF Item
<1>9. ASSUME NEW n \in Ids PROVE Notes!Copies(m, n) <= 2 /\ Notes!Copies(mm, n) <= 2
  <2> DEFINE P == {i \in DOMAIN l : l[i].id = n}
             Q == {i \in DOMAIN m : m[i].id = n}
             R == {i \in DOMAIN mm : mm[i].id = n}
  <2>1. /\ Notes!Copies(l, n) = Cardinality(P) /\ Notes!Copies(m, n) = Cardinality(Q)
        /\ Notes!Copies(mm, n) = Cardinality(R)
    BY NotesCount DEF Notes!Copies
  <2>2. CASE n \in Notes!IdsOf(l)
    <3>1. Q = P
      BY <1>1, <1>2, <1>x, <2>2
    <3>2. R = P
      BY <1>4, <1>y, <2>2
    <3> QED
      BY <1>0, <2>1, <3>1, <3>2
  <2>3. CASE n \notin Notes!IdsOf(l) /\ \A i \in 1..b : new[i].id # n
    <3>1. Q \subseteq {1, 1}
      <4> SUFFICES ASSUME NEW q \in Q PROVE FALSE
        OBVIOUS
      <4>1. q \in DOMAIN m /\ m[q].id = n
        OBVIOUS
      <4> QED
        BY <1>1, <1>2, <1>z, <2>3, <4>1
    <3>2. R \subseteq {1, 1}
      BY <1>4, <1>z, <2>3
    <3> HIDE DEF Q, R
    <3> QED
      BY <2>1, <3>1, <3>2, TwoPlaces
  <2>4. CASE n \notin Notes!IdsOf(l) /\ \E i \in 1..b : new[i].id = n
    <3>1. PICK k \in 1..b : new[k].id = n
      BY <2>4
    <3>2. \A i \in 1..b : new[i].id = n => i = k
      BY <3>1 DEF b
    <3>3. Q \subseteq {a + k, c + k}
      <4> SUFFICES ASSUME NEW q \in Q PROVE q = a + k
        OBVIOUS
      <4>1. q \in DOMAIN m /\ m[q].id = n
        OBVIOUS
      <4>2. q \notin 1..a
        BY <1>1, <1>2, <1>z, <2>4, <4>1
      <4>3. PICK i \in 1..b : q = a + i
        BY <1>2, <4>1, <4>2
      <4>4. new[i].id = n
        BY <1>2, <4>1, <4>3
      <4> QED
        BY <3>2, <4>3, <4>4
    <3>4. R \subseteq {a + k, c + k}
      BY <1>4, <1>z, <2>4, <3>2
    <3> HIDE DEF Q, R
    <3> QED
      BY <2>1, <3>3, <3>4, TwoPlaces
  <2> QED
    BY <2>2, <2>3, <2>4
<1> QED
  BY <1>s, <1>3, <1>5, <1>6, <1>7, <1>8, <1>9 DEF NoteLists, m, mm
\* A list in which one id is marked.
LEMMA MarkedList ==
    ASSUME NEW l \in NoteLists, NEW n \in Ids, NEW m,
           m = [i \in DOMAIN l |-> [l[i] EXCEPT !.read = @ \/ l[i].id = n]]
    PROVE  /\ m \in NoteLists /\ Notes!IdsOf(m) = Notes!IdsOf(l)
           /\ n \in Notes!IdsOf(l) => Notes!Marked(m, n)
<1>0. l \in Seq(Item) /\ (\A i, j \in DOMAIN l : l[i].id = l[j].id => l[i].read = l[j].read)
      /\ (\A k \in Ids : Notes!Copies(l, k) <= 2)
  BY DEF NoteLists
<1>1. Len(l) \in Nat /\ DOMAIN l = 1..Len(l) /\ \A i \in DOMAIN l : l[i] \in Item
  BY <1>0, LenProperties, ElementOfSeq
<1>2. \A i \in DOMAIN l : m[i] \in Item /\ m[i].id = l[i].id /\ m[i].read = (l[i].read \/ l[i].id = n)
  BY <1>1 DEF Item
<1>3. DOMAIN m = DOMAIN l
  OBVIOUS
<1>4. m \in Seq(Item)
  <2>1. m \in [1..Len(l) -> Item]
    BY <1>1, <1>2
  <2> QED
    BY <1>1, <2>1, SeqDef
<1>5. \A k \in Ids : Notes!Copies(m, k) = Notes!Copies(l, k)
  <2> SUFFICES ASSUME NEW k \in Ids PROVE Notes!Copies(m, k) = Notes!Copies(l, k)
    OBVIOUS
  <2>1. {i \in DOMAIN m : m[i].id = k} = {i \in DOMAIN l : l[i].id = k}
    BY <1>2, <1>3
  <2> QED
    BY <2>1 DEF Notes!Copies
<1>6. \A i, j \in DOMAIN m : m[i].id = m[j].id => m[i].read = m[j].read
  <2> SUFFICES ASSUME NEW i \in DOMAIN l, NEW j \in DOMAIN l, m[i].id = m[j].id PROVE m[i].read = m[j].read
    BY <1>3
  <2>1. l[i].id = l[j].id /\ l[i].read = l[j].read
    BY <1>0, <1>2
  <2>2. m[i].read = (l[i].read \/ l[i].id = n) /\ m[j].read = (l[j].read \/ l[j].id = n)
    BY <1>2
  <2> QED
    BY <2>1, <2>2, Zenon
<1>7. Notes!IdsOf(m) = Notes!IdsOf(l)
  BY <1>2, <1>3 DEF Notes!IdsOf
<1>8. n \in Notes!IdsOf(l) => Notes!Marked(m, n)
  BY <1>2, <1>3 DEF Notes!IdsOf, Notes!Marked
<1> QED
  BY <1>0, <1>4, <1>5, <1>6, <1>7, <1>8 DEF NoteLists

LEMMA NotesStart == Notes!Init => NotesInv
<1> SUFFICES ASSUME Notes!Init PROVE NotesInv
  OBVIOUS
<1>1. <<>> \in NoteLists /\ Notes!IdsOf(<<>>) = {}
  <2>1. <<>> \in Seq(Item) /\ DOMAIN <<>> = {}
    BY EmptySeq
  <2>2. \A n \in Ids : {i \in DOMAIN <<>> : <<>>[i].id = n} = {}
    BY <2>1
  <2>3. \A n \in Ids : Notes!Copies(<<>>, n) = 0
    BY <2>2, NotesCount, FS_EmptySet DEF Notes!Copies
  <2> QED
    BY <2>1, <2>3 DEF NoteLists, Notes!IdsOf
<1> QED
  <2>1. NotesTyped
    BY <1>1, Bounds DEF Notes!Init, NotesTyped
  <2>2. OfPublished /\ OpenListed /\ ClosedMarked
    BY <1>1 DEF Notes!Init, OfPublished, OpenListed, ClosedMarked
  <2> QED
    BY <2>1, <2>2 DEF NotesInv

\* A list of which the storage gets a copy.
LEMMA NotesStored ==
    ASSUME NotesInv, NEW l \in NoteLists, Notes!Store(l)
    PROVE  stored' \in NoteLists /\ lost' \subseteq dismissed
           /\ \A n \in dismissed \ lost' : Notes!Marked(stored', n)
BY DEF NotesInv, NotesTyped, ClosedMarked, Notes!Store

\* Every step of the tabs, and what a reload shows.
LEMMA NotesStep ==
    ASSUME NotesInv, [Notes!Next]_(Notes!vars)
    PROVE  NotesInv' /\ Notes!ReloadKeepsDismissed
<1> USE DEF NotesInv
<1>0. \A l \in NoteLists : l \in Seq(Item) /\ \A n \in Ids : Notes!Copies(l, n) <= 2
  BY DEF NoteLists
<1>u. \A l \in NoteLists, n \in Ids :
          /\ Notes!UnreadCopies(l, n) \in Nat /\ Notes!UnreadCopies(l, n) <= 2
          /\ Notes!UnreadCopies(l, n) > 0 => n \in Notes!IdsOf(l)
          /\ Notes!Marked(l, n) => Notes!UnreadCopies(l, n) = 0
  <2> SUFFICES ASSUME NEW l \in NoteLists, NEW n \in Ids
               PROVE  /\ Notes!UnreadCopies(l, n) \in Nat /\ Notes!UnreadCopies(l, n) <= 2
                      /\ Notes!UnreadCopies(l, n) > 0 => n \in Notes!IdsOf(l)
                      /\ Notes!Marked(l, n) => Notes!UnreadCopies(l, n) = 0
    OBVIOUS
  <2>1. /\ Notes!Copies(l, n) \in Nat /\ Notes!UnreadCopies(l, n) \in Nat
        /\ Notes!UnreadCopies(l, n) <= Notes!Copies(l, n)
        /\ Notes!UnreadCopies(l, n) > 0 => n \in Notes!IdsOf(l) /\ ~\A i \in DOMAIN l : l[i].id = n => l[i].read
    BY <1>0, CopiesOf
  <2>2. Notes!Copies(l, n) <= 2
    BY <1>0
  <2>3. Notes!Marked(l, n) => \A i \in DOMAIN l : l[i].id = n => l[i].read
    <3>1. \A i, j \in DOMAIN l : l[i].id = l[j].id => l[i].read = l[j].read
      BY DEF NoteLists
    <3> QED
      BY <3>1 DEF Notes!Marked
  <2> QED
    BY <2>1, <2>2, <2>3
<1>1. CASE UNCHANGED Notes!vars
  BY <1>1 DEF Notes!vars, NotesTyped, OfPublished, OpenListed, ClosedMarked, Notes!ReloadKeepsDismissed
<1>2. ASSUME NEW n \in Ids, Notes!Publish(n) PROVE NotesInv' /\ Notes!ReloadKeepsDismissed
  BY <1>2 DEF Notes!Publish, NotesTyped, OfPublished, OpenListed, ClosedMarked, Notes!ReloadKeepsDismissed
<1>3. ASSUME NEW t \in NTabs, Notes!ListenForUpdates(t) PROVE NotesInv' /\ Notes!ReloadKeepsDismissed
  <2> DEFINE new == Notes!SetToSeq(New(t))
             l == list[t] \o new
  <2>1. list[t] \in NoteLists
    BY DEF NotesTyped
  <2>2. /\ new \in Seq(Item)
        /\ \A i \in 1..Len(new) : new[i].id \in published /\ ~new[i].read /\ new[i].id \notin Notes!IdsOf(list[t])
        /\ \A i, j \in 1..Len(new) : new[i].id = new[j].id => i = j
    BY NewListed
  <2>3. /\ \/ new # <<>> /\ Notes!SetPersistedNotifications(t, l)
           \/ new = <<>> /\ UNCHANGED <<list, open, displayed>>
        /\ Notes!Store(l \o new)
        /\ UNCHANGED <<published, reloads, dismissed>>
    BY <1>3 DEF Notes!ListenForUpdates, New
  <2> HIDE DEF new
  <2>4. /\ l \in NoteLists /\ l \o new \in NoteLists
        /\ Notes!IdsOf(l) = Notes!IdsOf(list[t]) \cup Notes!IdsOf(new)
        /\ Notes!IdsOf(l \o new) = Notes!IdsOf(list[t]) \cup Notes!IdsOf(new)
    BY <2>1, <2>2, NewAppended
  <2>5. Notes!IdsOf(l) \subseteq published /\ Notes!IdsOf(l \o new) \subseteq published
    <3>1. DOMAIN new = 1..Len(new)
      BY <2>2, LenProperties
    <3>2. Notes!IdsOf(new) \subseteq published
      BY <2>2, <3>1 DEF Notes!IdsOf
    <3> QED
      BY <2>4, <3>2 DEF OfPublished
  <2> HIDE DEF l
  <2>6. stored' = l \o new /\ stored' \in NoteLists /\ lost' \subseteq dismissed' /\ ClosedMarked'
    BY <2>3, <2>4, NotesStored DEF Notes!Store, ClosedMarked
  <2>7. /\ list' \in [NTabs -> NoteLists] /\ open' \in [NTabs -> [Ids -> Nat]] /\ displayed' \in [NTabs -> SUBSET Ids]
        /\ \A s \in NTabs : Notes!IdsOf(list'[s]) \cup displayed'[s] \subseteq published
        /\ OpenListed'
    <3>1. CASE UNCHANGED <<list, open, displayed>>
      BY <3>1 DEF NotesTyped, OfPublished, OpenListed
    <3>2. CASE Notes!SetPersistedNotifications(t, l)
      <4>1. /\ list' = [list EXCEPT ![t] = l]
            /\ open' = [open EXCEPT ![t] = Notes!Effect(t, l, displayed[t])]
            /\ displayed' = [displayed EXCEPT ![t] = displayed[t] \cup {n \in Ids : Notes!UnreadCopies(l, n) > 0}]
        BY <3>2 DEF Notes!SetPersistedNotifications
      <4>2. ASSUME NEW n \in Ids
            PROVE  /\ Notes!Effect(t, l, displayed[t])[n] \in Nat /\ Notes!Effect(t, l, displayed[t])[n] <= 2
                   /\ Notes!Effect(t, l, displayed[t])[n] > 0 =>
                          /\ n \in displayed[t] \/ Notes!UnreadCopies(l, n) > 0
                          /\ n \in Notes!IdsOf(l)
        <5>1. Notes!Effect(t, l, displayed[t])[n] = open[t][n] + (IF n \in displayed[t] THEN 0 ELSE Notes!UnreadCopies(l, n))
          BY DEF Notes!Effect
        <5>2. open[t][n] \in Nat /\ open[t][n] <= 2 /\ (open[t][n] > 0 => n \in displayed[t] /\ n \in Notes!IdsOf(l))
          BY <2>4 DEF OpenListed, NotesTyped
        <5> QED
          BY <1>u, <2>4, <5>1, <5>2
      <4>3. Notes!Effect(t, l, displayed[t]) \in [Ids -> Nat]
        BY <4>2 DEF Notes!Effect
      <4>4. {n \in Ids : Notes!UnreadCopies(l, n) > 0} \subseteq published
        BY <1>u, <2>4, <2>5
      <4>5. OpenListed'
        <5> SUFFICES ASSUME NEW s \in NTabs, NEW n \in Ids
                     PROVE  /\ open'[s][n] <= 2
                            /\ open'[s][n] > 0 => n \in displayed'[s] /\ n \in Notes!IdsOf(list'[s])
          BY DEF OpenListed
        <5>1. CASE s = t
          BY <4>1, <4>2, <5>1 DEF NotesTyped
        <5>2. CASE s # t
          BY <4>1, <5>2 DEF NotesTyped, OpenListed
        <5> QED
          BY <5>1, <5>2
      <4>6. \A s \in NTabs : Notes!IdsOf(list'[s]) \cup displayed'[s] \subseteq published
        <5> SUFFICES ASSUME NEW s \in NTabs PROVE Notes!IdsOf(list'[s]) \cup displayed'[s] \subseteq published
          OBVIOUS
        <5>1. CASE s = t
          BY <2>5, <4>1, <4>4, <5>1 DEF NotesTyped, OfPublished
        <5>2. CASE s # t
          BY <4>1, <5>2 DEF NotesTyped, OfPublished
        <5> QED
          BY <5>1, <5>2
      <4> QED
        BY <2>4, <4>1, <4>3, <4>5, <4>6 DEF NotesTyped
    <3> QED
      BY <2>3, <3>1, <3>2
  <2>8. OfPublished'
    BY <2>3, <2>5, <2>6, <2>7 DEF OfPublished
  <2> QED
    BY <2>3, <2>6, <2>7, <2>8 DEF NotesTyped, Notes!ReloadKeepsDismissed
<1>4. ASSUME NEW t \in NTabs, NEW n \in Ids, Notes!OnClose(t, n) PROVE NotesInv' /\ Notes!ReloadKeepsDismissed
  <2> DEFINE l == [i \in DOMAIN list[t] |-> [list[t][i] EXCEPT !.read = @ \/ list[t][i].id = n]]
  <2>1. list[t] \in NoteLists
    BY DEF NotesTyped
  <2>2. /\ open[t][n] > 0 /\ list' = [list EXCEPT ![t] = l] /\ open' = [open EXCEPT ![t][n] = open[t][n] - 1]
        /\ dismissed' = dismissed \cup {n} /\ Notes!Store(l) /\ UNCHANGED <<displayed, published, reloads>>
    BY <1>4 DEF Notes!OnClose
  <2>3. l \in NoteLists /\ Notes!IdsOf(l) = Notes!IdsOf(list[t]) /\ (n \in Notes!IdsOf(list[t]) => Notes!Marked(l, n))
    BY <2>1, MarkedList
  <2> HIDE DEF l
  <2>4. stored' = l /\ stored' \in NoteLists /\ lost' \subseteq dismissed /\ \A k \in dismissed \ lost' : Notes!Marked(stored', k)
    BY <2>2, <2>3, NotesStored DEF Notes!Store
  <2>5. Notes!Marked(l, n)
    BY <2>2, <2>3 DEF OpenListed
  <2>6. ClosedMarked'
    BY <2>2, <2>4, <2>5 DEF ClosedMarked
  <2>7. NotesTyped'
    BY <2>2, <2>3, <2>4 DEF NotesTyped
  <2>8. OfPublished'
    BY <2>2, <2>3, <2>4 DEF NotesTyped, OfPublished
  <2>9. OpenListed'
    BY <2>2, <2>3 DEF NotesTyped, OpenListed
  <2> QED
    BY <2>2, <2>6, <2>7, <2>8, <2>9 DEF Notes!ReloadKeepsDismissed
<1>5. ASSUME NEW t \in NTabs, Notes!Reload(t) PROVE NotesInv' /\ Notes!ReloadKeepsDismissed
  <2>1. /\ reloads < MaxReloads /\ reloads' = reloads + 1 /\ list' = [list EXCEPT ![t] = stored]
        /\ open' = [open EXCEPT ![t] = [n \in Ids |-> Notes!UnreadCopies(stored, n)]]
        /\ displayed' = [displayed EXCEPT ![t] = {n \in Ids : Notes!UnreadCopies(stored, n) > 0}]
        /\ UNCHANGED <<stored, published, dismissed, lost>>
    BY <1>5 DEF Notes!Reload
  <2>2. stored \in NoteLists
    BY DEF NotesTyped
  <2>3. {n \in Ids : Notes!UnreadCopies(stored, n) > 0} \subseteq Notes!IdsOf(stored)
    BY <1>u, <2>2
  <2>4. NotesTyped'
    <3>1. reloads' \in 0..MaxReloads
      BY <2>1, Bounds DEF NotesTyped
    <3>2. [n \in Ids |-> Notes!UnreadCopies(stored, n)] \in [Ids -> Nat]
      BY <1>u, <2>2
    <3> QED
      BY <2>1, <2>2, <3>1, <3>2 DEF NotesTyped
  <2>5. OfPublished'
    BY <2>1, <2>3 DEF NotesTyped, OfPublished
  <2>6. OpenListed'
    <3> SUFFICES ASSUME NEW s \in NTabs, NEW n \in Ids
                 PROVE  /\ open'[s][n] <= 2
                        /\ open'[s][n] > 0 => n \in displayed'[s] /\ n \in Notes!IdsOf(list'[s])
      BY DEF OpenListed
    <3>1. CASE s = t
      BY <1>u, <2>1, <2>2, <3>1 DEF NotesTyped
    <3>2. CASE s # t
      BY <2>1, <3>2 DEF NotesTyped, OpenListed
    <3> QED
      BY <3>1, <3>2
  <2>7. Notes!ReloadKeepsDismissed
    <3> SUFFICES ASSUME NEW s \in NTabs, NEW n \in dismissed \ lost PROVE open'[s][n] <= open[s][n]
      BY DEF Notes!ReloadKeepsDismissed
    <3>1. n \in Ids /\ open[s][n] \in Nat /\ Notes!Marked(stored, n)
      BY DEF NotesTyped, ClosedMarked
    <3>2. CASE s = t
      BY <1>u, <2>1, <2>2, <3>1, <3>2 DEF NotesTyped
    <3>3. CASE s # t
      BY <2>1, <3>1, <3>3 DEF NotesTyped
    <3> QED
      BY <3>2, <3>3
  <2> QED
    BY <2>1, <2>4, <2>5, <2>6, <2>7 DEF ClosedMarked
<1> QED
  BY <1>1, <1>2, <1>3, <1>4, <1>5 DEF Notes!Next

\* What the tabs show.
LEMMA NotesShow == NotesInv => Notes!TypeOK /\ Notes!CopiesBounded
BY DEF NotesInv, NotesTyped, OfPublished, OpenListed, NoteLists, Notes!TypeOK, Notes!CopiesBounded
-----------------------------------------------------------------------------
(* The cluster configuration. *)

Settings == [dls : Hours \cup {3}, tiered : Nat, host : Hosts \cup {"h"}]
UpdateReq == [body : Settings, done : BOOLEAN, ok : BOOLEAN]

\* The settings that an update makes.
Made(body) == [dls |-> body.dls, tiered |-> body.tiered, host |-> ToLower(body.host)]

ClusterTyped ==
    /\ broker \in Settings /\ formFields \in Settings /\ oldValues \in Settings
    /\ row \in [input : Nat, unit : {"Seconds", "Minutes"}, error : BOOLEAN]
    /\ isChanged \in BOOLEAN /\ discarded \in BOOLEAN /\ newer \in BOOLEAN /\ astray \in BOOLEAN
    /\ loading \in {"yes", "no", "failed"}
    /\ reqs \in Seq(UpdateReq)

\* Intervals that are edited, sent or brought back are within their bounds, and the host
\* the broker told is in lower case.
ValuesSound ==
    /\ Cluster!TimeValidator(formFields.tiered) /\ Cluster!TimeValidator(oldValues.tiered)
    /\ \A i \in DOMAIN reqs : Cluster!TimeValidator(reqs[i].body.tiered) /\ (reqs[i].ok => reqs[i].done)
    /\ ToLower(oldValues.host) = oldValues.host

\* Unless one went astray, one update at most is under way: before the broker's part the
\* old values are the broker's, after it the broker has those of the update.
OldComing ==
    ~astray => /\ Len(reqs) <= 1
               /\ reqs = <<>> => oldValues = broker
               /\ \A i \in DOMAIN reqs : /\ ~reqs[i].done => oldValues = broker
                                         /\ reqs[i].ok => broker = Made(reqs[i].body)

\* Without an edit since, what an update under way sends is what is in the form.
FormSent ==
    (~newer /\ ~astray) => \A i \in DOMAIN reqs : formFields = reqs[i].body /\ isChanged

ClusterInv ==
    ClusterTyped /\ ValuesSound /\ OldComing /\ FormSent /\ Cluster!RowShowsInterval /\ Cluster!ChangeIsOffered

LEMMA ClusterStart == Cluster!Init => ClusterInv
<1> SUFFICES ASSUME Cluster!Init PROVE ClusterInv
  OBVIOUS
<1>1. Cluster!First \in Settings /\ Cluster!First.tiered = 8 /\ Cluster!First.host = "h"
  BY DEF Cluster!First, Settings
<1>2. /\ broker = Cluster!First /\ formFields = Cluster!First /\ oldValues = Cluster!First /\ reqs = <<>>
      /\ isChanged = FALSE /\ loading = "yes" /\ row = [input |-> 8, unit |-> "Seconds", error |-> FALSE]
      /\ discarded = FALSE /\ newer = FALSE /\ astray = FALSE
  BY DEF Cluster!Init
<1>3. reqs \in Seq(UpdateReq) /\ Len(reqs) = 0 /\ DOMAIN reqs = {}
  BY <1>2, EmptySeq
<1>4. ToLower("h") = "h"
  BY ConsoleAdminAssumption
<1>5. ClusterTyped
  BY <1>1, <1>2, <1>3 DEF ClusterTyped
<1>6. ValuesSound
  BY <1>1, <1>2, <1>3, <1>4 DEF ValuesSound, Cluster!TimeValidator
<1>7. OldComing /\ FormSent
  BY <1>2, <1>3 DEF OldComing, FormSent
<1>8. Cluster!RowShowsInterval
  BY <1>1, <1>2 DEF Cluster!RowShowsInterval, Cluster!Seconds
<1>9. Cluster!ChangeIsOffered
  BY <1>1, <1>2, <1>4 DEF Cluster!ChangeIsOffered, Settings
<1> QED
  BY <1>5, <1>6, <1>7, <1>8, <1>9 DEF ClusterInv

\* An edit of the form, with what it does to the row.
LEMMA ClusterEdit ==
    ASSUME ClusterInv, NEW f \in {"dls", "tiered", "host"}, NEW v, NEW err \in BOOLEAN, Cluster!HandleChange(f, v, err),
           ~err => [formFields EXCEPT ![f] = v] \in Settings,
           ~err /\ f = "tiered" => Cluster!TimeValidator(v),
           UNCHANGED <<broker, oldValues, loading, reqs, astray>>,
           row' \in [input : Nat, unit : {"Seconds", "Minutes"}, error : BOOLEAN],
           err => row'.error,
           \/ f # "tiered" /\ UNCHANGED <<row, discarded>>
           \/ f = "tiered" /\ discarded' = FALSE /\ row'.error = err /\ (~err => Cluster!Seconds(row'.input, row'.unit) = v)
    PROVE  ClusterInv'
<1> USE DEF ClusterInv
<1>1. /\ formFields' = (IF err THEN formFields ELSE [formFields EXCEPT ![f] = v])
      /\ isChanged' = (~err /\ formFields' # oldValues)
      /\ newer' = (reqs # <<>> \/ newer)
  BY DEF Cluster!HandleChange
<1>2. formFields \in Settings /\ oldValues \in Settings /\ reqs \in Seq(UpdateReq) /\ newer \in BOOLEAN
      /\ discarded \in BOOLEAN
  BY DEF ClusterTyped
<1>3. formFields' \in Settings
  BY <1>1, <1>2
<1>4. formFields'.tiered = IF ~err /\ f = "tiered" THEN v ELSE formFields.tiered
  BY <1>1, <1>2 DEF Settings
<1>5. ClusterTyped'
  BY <1>1, <1>3 DEF ClusterTyped
<1>6. ValuesSound'
  BY <1>4 DEF ValuesSound
<1>7. OldComing'
  BY DEF OldComing
<1>8. FormSent'
  <2>1. reqs # <<>> => newer'
    BY <1>1
  <2>2. reqs = <<>> => DOMAIN reqs = {}
    BY EmptySeq
  <2> QED
    BY <2>1, <2>2 DEF FormSent
<1>9. Cluster!RowShowsInterval'
  BY <1>4 DEF Cluster!RowShowsInterval
<1>10. Cluster!ChangeIsOffered'
  <2> SUFFICES ASSUME ~row'.error, ~isChanged' PROVE [formFields' EXCEPT !.host = ToLower(formFields'.host)] = oldValues'
    BY DEF Cluster!ChangeIsOffered
  <2>1. ~err /\ formFields' = oldValues
    BY <1>1
  <2>2. ToLower(oldValues.host) = oldValues.host
    BY DEF ValuesSound
  <2>3. [oldValues EXCEPT !.host = oldValues.host] = oldValues
    BY <1>2 DEF Settings
  <2> QED
    BY <2>1, <2>2, <2>3
<1> QED
  BY <1>5, <1>6, <1>7, <1>8, <1>9, <1>10

\* The other updates when one leaves: none, unless one went astray.
LEMMA ClusterAnswered ==
    ASSUME ClusterInv, NEW i \in DOMAIN reqs, reqs' = Cluster!RemoveAt(reqs, i)
    PROVE  /\ reqs' \in Seq(UpdateReq)
           /\ \A j \in DOMAIN reqs' : \E k \in DOMAIN reqs : reqs'[j] = reqs[k]
           /\ ~astray => reqs' = <<>> /\ DOMAIN reqs' = {} /\ Len(reqs') = 0
           /\ reqs # <<>>
<1>1. reqs \in Seq(UpdateReq) /\ DOMAIN reqs = 1..Len(reqs) /\ Len(reqs) \in Nat
  BY LenProperties DEF ClusterInv, ClusterTyped
<1>2. reqs' = Without(reqs, i)
  BY DEF Without, Cluster!RemoveAt
<1>3. reqs' \in Seq(UpdateReq) /\ Len(reqs') = Len(reqs) - 1
  BY <1>1, <1>2, WithoutOne
<1>4. DOMAIN reqs' = 1..Len(reqs')
  BY <1>3, LenProperties
<1>5. \A j \in 1..Len(reqs') : \E k \in 1..Len(reqs) : k # i /\ reqs'[j] = reqs[k]
  BY <1>1, <1>2, OthersStay
<1>6. ~astray => Len(reqs) = 1
  BY <1>1 DEF ClusterInv, OldComing
<1>7. ~astray => reqs' = <<>> /\ DOMAIN reqs' = {} /\ Len(reqs') = 0
  <2> SUFFICES ASSUME ~astray PROVE reqs' = <<>> /\ DOMAIN reqs' = {} /\ Len(reqs') = 0
    OBVIOUS
  <2>a. Len(reqs) = 1
    BY <1>6
  <2>1. Len(reqs') = 0
    BY <1>3, <2>a
  <2>2. reqs' = <<>>
    BY <1>3, <2>1, EmptySeq
  <2> QED
    BY <2>1, <2>2, EmptySeq
<1>8. reqs # <<>>
  BY <1>1
<1> QED
  BY <1>1, <1>3, <1>4, <1>5, <1>7, <1>8

\* Every step of the page.
LEMMA ClusterStep ==
    ASSUME ClusterInv, [Cluster!Next]_(Cluster!vars)
    PROVE  ClusterInv'
<1> USE DEF ClusterInv
<1>0. /\ formFields \in Settings /\ oldValues \in Settings /\ broker \in Settings /\ reqs \in Seq(UpdateReq)
      /\ row \in [input : Nat, unit : {"Seconds", "Minutes"}, error : BOOLEAN]
  BY DEF ClusterTyped
<1>s. Len(reqs) \in Nat /\ DOMAIN reqs = 1..Len(reqs) /\ \A i \in DOMAIN reqs : reqs[i] \in UpdateReq
  BY <1>0, LenProperties, ElementOfSeq
<1>l. \A h \in Hosts \cup {"h"} : ToLower(h) \in Hosts \cup {"h"} /\ ToLower(ToLower(h)) = ToLower(h)
  BY ConsoleAdminAssumption
<1>m. \A body \in Settings : Cluster!Settled(body, 3) = Made(body) /\ Made(body) \in Settings
                             /\ ToLower(Made(body).host) = Made(body).host /\ Made(body).tiered = body.tiered
  BY <1>l DEF Cluster!Settled, Made, Settings
<1>t. ASSUME NEW n \in Nat, NEW u \in {"Seconds", "Minutes"}
      PROVE  Cluster!Seconds(n, u) \in Nat /\ [formFields EXCEPT !["tiered"] = Cluster!Seconds(n, u)] \in Settings
  BY <1>0, SMTT(30) DEF Cluster!Seconds, Settings
<1>1. CASE UNCHANGED Cluster!vars
  BY <1>1 DEF Cluster!vars, ClusterTyped, ValuesSound, OldComing, FormSent, Cluster!RowShowsInterval, Cluster!ChangeIsOffered
<1>2. ASSUME NEW ok \in BOOLEAN, Cluster!GetConfigurationValue(ok) PROVE ClusterInv'
  BY <1>2 DEF Cluster!GetConfigurationValue, ClusterTyped, ValuesSound, OldComing, FormSent, Cluster!RowShowsInterval,
     Cluster!ChangeIsOffered
<1>3. ASSUME NEW h \in Hours, Cluster!SliderRow(h) PROVE ClusterInv'
  <2>1. [formFields EXCEPT !["dls"] = h] \in Settings
    BY <1>0 DEF Settings
  <2>2. Cluster!HandleChange("dls", h, FALSE) /\ UNCHANGED <<broker, oldValues, loading, row, reqs, discarded, astray>>
    BY <1>3 DEF Cluster!SliderRow
  <2> QED
    BY <1>0, <2>1, <2>2, ClusterEdit
<1>4. ASSUME NEW h \in Hosts, Cluster!InputRow(h) PROVE ClusterInv'
  <2>1. [formFields EXCEPT !["host"] = h] \in Settings
    BY <1>0 DEF Settings
  <2>2. Cluster!HandleChange("host", h, FALSE) /\ UNCHANGED <<broker, oldValues, loading, row, reqs, discarded, astray>>
    BY <1>4 DEF Cluster!InputRow
  <2> QED
    BY <1>0, <2>1, <2>2, ClusterEdit
<1>5. ASSUME NEW n \in Numbers, Cluster!OnChange(n) PROVE ClusterInv'
  <2> DEFINE s == Cluster!Seconds(n, row.unit)
             err == ~Cluster!TimeValidator(s)
  <2>0. n \in Nat
    BY ConsoleAdminAssumption
  <2>1. /\ Cluster!HandleChange("tiered", s, err) /\ row' = [row EXCEPT !.input = n, !.error = err]
        /\ discarded' = FALSE /\ UNCHANGED <<broker, oldValues, loading, reqs, astray>>
    BY <1>5 DEF Cluster!OnChange
  <2>e. err \in BOOLEAN
    BY DEF Cluster!TimeValidator
  <2>2. row' \in [input : Nat, unit : {"Seconds", "Minutes"}, error : BOOLEAN] /\ row'.error = err
        /\ row'.input = n /\ row'.unit = row.unit
    <3> HIDE DEF err
    <3> QED
      BY <1>0, <2>0, <2>1, <2>e
  <2>3. [formFields EXCEPT !["tiered"] = s] \in Settings
    BY <1>0, <1>t, <2>0
  <2>4. ~err => Cluster!TimeValidator(s)
    OBVIOUS
  <2>6. Cluster!Seconds(row'.input, row'.unit) = s
    BY <2>2
  <2> HIDE DEF s, err
  <2> QED
    BY <2>1, <2>2, <2>3, <2>4, <2>e, <2>6, ClusterEdit
<1>6. ASSUME NEW u \in {"Seconds", "Minutes"}, Cluster!OnChangeType(u) PROVE ClusterInv'
  <2> DEFINE s == Cluster!Seconds(row.input, u)
             err == ~Cluster!TimeValidator(s)
  <2>0. row.input \in Nat
    BY <1>0
  <2>1. /\ Cluster!HandleChange("tiered", s, err) /\ row' = [row EXCEPT !.unit = u, !.error = err]
        /\ discarded' = FALSE /\ UNCHANGED <<broker, oldValues, loading, reqs, astray>>
    BY <1>6 DEF Cluster!OnChangeType
  <2>e. err \in BOOLEAN
    BY DEF Cluster!TimeValidator
  <2>2. row' \in [input : Nat, unit : {"Seconds", "Minutes"}, error : BOOLEAN] /\ row'.error = err
        /\ row'.input = row.input /\ row'.unit = u
    <3> HIDE DEF err
    <3> QED
      BY <1>0, <2>1, <2>e
  <2>3. [formFields EXCEPT !["tiered"] = s] \in Settings
    BY <1>t, <2>0
  <2>4. ~err => Cluster!TimeValidator(s)
    OBVIOUS
  <2>6. Cluster!Seconds(row'.input, row'.unit) = s
    BY <2>2
  <2> HIDE DEF s, err
  <2> QED
    BY <2>1, <2>2, <2>3, <2>4, <2>e, <2>6, ClusterEdit
<1>7. CASE Cluster!DiscardChanges
  <2>1. /\ isChanged' = FALSE /\ formFields' = oldValues /\ newer' = (reqs # <<>> \/ newer)
        /\ discarded' = (discarded \/ formFields.tiered # oldValues.tiered)
        /\ UNCHANGED <<broker, oldValues, loading, row, reqs, astray>>
    BY <1>7 DEF Cluster!DiscardChanges
  <2>2. ClusterTyped'
    BY <2>1 DEF ClusterTyped
  <2>3. ValuesSound' /\ OldComing'
    BY <2>1 DEF ValuesSound, OldComing
  <2>4. FormSent'
    <3>1. reqs # <<>> => newer'
      BY <2>1
    <3>2. reqs = <<>> => DOMAIN reqs = {}
      BY EmptySeq
    <3> QED
      BY <2>1, <3>1, <3>2 DEF FormSent
  <2>5. Cluster!RowShowsInterval'
    BY <2>1 DEF Cluster!RowShowsInterval
  <2>6. Cluster!ChangeIsOffered'
    <3>1. ToLower(oldValues.host) = oldValues.host
      BY DEF ValuesSound
    <3>2. [oldValues EXCEPT !.host = oldValues.host] = oldValues
      BY <1>0 DEF Settings
    <3> QED
      BY <2>1, <3>1, <3>2 DEF Cluster!ChangeIsOffered
  <2> QED
    BY <2>2, <2>3, <2>4, <2>5, <2>6
<1>8. CASE Cluster!UpdateConfiguration
  <2> DEFINE q == [body |-> formFields, done |-> FALSE, ok |-> FALSE]
  <2>1. /\ isChanged /\ reqs' = Append(reqs, q) /\ newer' = FALSE /\ astray' = (astray \/ reqs # <<>>)
        /\ UNCHANGED <<broker, formFields, oldValues, isChanged, loading, row, discarded>>
    BY <1>8 DEF Cluster!UpdateConfiguration
  <2>2. q \in UpdateReq /\ q.body = formFields /\ ~q.done /\ ~q.ok
    BY <1>0 DEF UpdateReq
  <2> HIDE DEF q
  <2>3. /\ reqs' \in Seq(UpdateReq) /\ Len(reqs') = Len(reqs) + 1 /\ DOMAIN reqs' = 1..Len(reqs) + 1
        /\ \A j \in 1..Len(reqs) : reqs'[j] = reqs[j]
        /\ reqs'[Len(reqs) + 1] = q
    BY <1>0, <2>1, <2>2, AppendProperties
  <2>4. \A j \in DOMAIN reqs' : (j \in DOMAIN reqs /\ reqs'[j] = reqs[j]) \/ reqs'[j] = q
    BY <1>s, <2>3
  <2>5. ~astray' => reqs = <<>> /\ Len(reqs') = 1 /\ \A j \in DOMAIN reqs' : reqs'[j] = q
    <3> SUFFICES ASSUME ~astray' PROVE reqs = <<>> /\ Len(reqs') = 1 /\ \A j \in DOMAIN reqs' : reqs'[j] = q
      OBVIOUS
    <3>1. reqs = <<>>
      BY <2>1
    <3>2. DOMAIN reqs = {} /\ Len(reqs) = 0
      BY <3>1, EmptySeq
    <3> QED
      BY <2>3, <2>4, <3>1, <3>2
  <2>n. reqs' # <<>>
    BY <1>s, <2>3, EmptySeq
  <2>6. ClusterTyped'
    BY <2>1, <2>3 DEF ClusterTyped
  <2>7. ValuesSound'
    BY <2>1, <2>2, <2>4 DEF ValuesSound
  <2>8. OldComing'
    <3>1. ~astray' => ~astray /\ reqs = <<>>
      BY <2>1
    <3>2. ~astray' => oldValues = broker
      BY <3>1 DEF OldComing
    <3> QED
      BY <2>1, <2>2, <2>5, <2>n, <3>2 DEF OldComing
  <2>9. FormSent'
    BY <2>1, <2>2, <2>5 DEF FormSent
  <2>10. Cluster!RowShowsInterval' /\ Cluster!ChangeIsOffered'
    BY <2>1 DEF Cluster!RowShowsInterval, Cluster!ChangeIsOffered
  <2> QED
    BY <2>6, <2>7, <2>8, <2>9, <2>10
<1>9. ASSUME NEW i \in DOMAIN reqs, NEW k \in 0..3, Cluster!EditClusterConfig(i, k) PROVE ClusterInv'
  <2>1. /\ ~reqs[i].done /\ broker' = Cluster!Settled(reqs[i].body, k)
        /\ reqs' = [reqs EXCEPT ![i].done = TRUE, ![i].ok = (k = 3)]
        /\ UNCHANGED <<formFields, oldValues, isChanged, loading, row, discarded, newer, astray>>
    BY <1>9 DEF Cluster!EditClusterConfig
  <2>2. reqs[i] \in UpdateReq /\ reqs[i].body \in Settings
    BY <1>s DEF UpdateReq
  <2>3. broker' \in Settings
    BY <1>0, <1>l, <2>1, <2>2 DEF Cluster!Settled, Settings
  <2> DEFINE q == [reqs[i] EXCEPT !.done = TRUE, !.ok = (k = 3)]
  <2>4. q \in UpdateReq /\ q.body = reqs[i].body /\ q.done /\ q.ok = (k = 3)
    BY <2>2 DEF UpdateReq
  <2>5. reqs' = [reqs EXCEPT ![i] = q]
    BY <2>1
  <2> HIDE DEF q
  <2>6. reqs' \in Seq(UpdateReq) /\ Len(reqs') = Len(reqs) /\ DOMAIN reqs' = DOMAIN reqs
        /\ \A j \in DOMAIN reqs : reqs'[j] = IF j = i THEN q ELSE reqs[j]
    BY <1>0, <1>s, <2>4, <2>5, ExceptSeq
  <2>7. ClusterTyped'
    BY <2>1, <2>3, <2>6 DEF ClusterTyped
  <2>8. ValuesSound'
    BY <2>1, <2>4, <2>6 DEF ValuesSound
  <2>9. OldComing'
    <3> SUFFICES ASSUME ~astray
                 PROVE  /\ Len(reqs') <= 1 /\ reqs' # <<>>
                        /\ \A j \in DOMAIN reqs' : reqs'[j].done /\ (reqs'[j].ok => broker' = Made(reqs'[j].body))
      BY <2>1 DEF OldComing
    <3>1. Len(reqs) <= 1
      BY DEF OldComing
    <3>2. \A j \in DOMAIN reqs' : reqs'[j] = q
      BY <1>s, <2>6, <3>1
    <3>3. q.ok => broker' = Made(q.body)
      BY <1>m, <2>1, <2>2, <2>4
    <3>4. reqs' # <<>>
      BY <2>6, EmptySeq
    <3> QED
      BY <2>4, <2>6, <3>1, <3>2, <3>3, <3>4
  <2>10. FormSent'
    BY <2>1, <2>4, <2>6 DEF FormSent
  <2>11. reqs' # <<>>
    BY <2>6, EmptySeq
  <2>12. Cluster!RowShowsInterval' /\ Cluster!ChangeIsOffered'
    BY <2>1, <2>11 DEF Cluster!RowShowsInterval, Cluster!ChangeIsOffered
  <2> QED
    BY <2>7, <2>8, <2>9, <2>10, <2>12
<1>10. ASSUME NEW i \in DOMAIN reqs, Cluster!UpdateReply(i) PROVE ClusterInv'
  <2>1. /\ reqs[i].ok /\ isChanged' = FALSE /\ oldValues' = Cluster!Settled(reqs[i].body, 3)
        /\ reqs' = Cluster!RemoveAt(reqs, i)
        /\ UNCHANGED <<broker, formFields, loading, row, discarded, newer, astray>>
    BY <1>10 DEF Cluster!UpdateReply
  <2>2. reqs[i].body \in Settings
    BY <1>s DEF UpdateReq
  <2>3. oldValues' = Made(reqs[i].body) /\ oldValues' \in Settings /\ ToLower(oldValues'.host) = oldValues'.host
        /\ oldValues'.tiered = reqs[i].body.tiered
    BY <1>m, <2>1, <2>2
  <2>4. /\ reqs' \in Seq(UpdateReq)
        /\ \A j \in DOMAIN reqs' : \E k \in DOMAIN reqs : reqs'[j] = reqs[k]
        /\ ~astray => reqs' = <<>> /\ DOMAIN reqs' = {} /\ Len(reqs') = 0
    BY <2>1, ClusterAnswered
  <2>5. ClusterTyped'
    BY <2>1, <2>3, <2>4 DEF ClusterTyped
  <2>6. ValuesSound'
    BY <2>1, <2>3, <2>4 DEF ValuesSound
  <2>7. OldComing'
    BY <2>1, <2>3, <2>4 DEF OldComing
  <2>8. FormSent'
    BY <2>1, <2>4 DEF FormSent
  <2>9. Cluster!RowShowsInterval'
    BY <2>1 DEF Cluster!RowShowsInterval
  <2>10. Cluster!ChangeIsOffered'
    <3> SUFFICES ASSUME ~newer, ~astray PROVE [formFields EXCEPT !.host = ToLower(formFields.host)] = oldValues'
      BY <2>1 DEF Cluster!ChangeIsOffered
    <3>1. formFields = reqs[i].body
      BY DEF FormSent
    <3>2. [formFields EXCEPT !.host = ToLower(formFields.host)] = Made(formFields)
      BY <1>0 DEF Made, Settings
    <3> QED
      BY <2>3, <3>1, <3>2
  <2> QED
    BY <2>5, <2>6, <2>7, <2>8, <2>9, <2>10
<1>11. ASSUME NEW i \in DOMAIN reqs, Cluster!UpdateFails(i) PROVE ClusterInv'
  <2>1. /\ reqs' = Cluster!RemoveAt(reqs, i) /\ astray' = (astray \/ reqs[i].done)
        /\ UNCHANGED <<broker, formFields, oldValues, isChanged, loading, row, discarded, newer>>
    BY <1>11 DEF Cluster!UpdateFails
  <2>2. reqs[i].done \in BOOLEAN
    BY <1>s DEF UpdateReq
  <2>4. /\ reqs' \in Seq(UpdateReq)
        /\ \A j \in DOMAIN reqs' : \E k \in DOMAIN reqs : reqs'[j] = reqs[k]
        /\ ~astray => reqs' = <<>> /\ DOMAIN reqs' = {} /\ Len(reqs') = 0
    BY <2>1, ClusterAnswered
  <2>5. ClusterTyped'
    BY <2>1, <2>2, <2>4 DEF ClusterTyped
  <2>6. ValuesSound'
    BY <2>1, <2>4 DEF ValuesSound
  <2>7. OldComing'
    <3>1. ~astray' => ~astray /\ ~reqs[i].done
      BY <2>1
    <3>2. ~astray' => oldValues = broker
      BY <3>1 DEF OldComing
    <3> QED
      BY <2>1, <2>4, <3>1, <3>2 DEF OldComing
  <2>8. FormSent'
    BY <2>1, <2>4 DEF FormSent
  <2>9. Cluster!RowShowsInterval'
    BY <2>1 DEF Cluster!RowShowsInterval
  <2>10. Cluster!ChangeIsOffered'
    BY <2>1 DEF FormSent, Cluster!ChangeIsOffered
  <2> QED
    BY <2>5, <2>6, <2>7, <2>8, <2>9, <2>10
<1> QED
  BY <1>1, <1>2, <1>3, <1>4, <1>5, <1>6, <1>7, <1>8, <1>9, <1>10, <1>11 DEF Cluster!Next

\* What the page shows.
LEMMA ClusterShows ==
    ClusterInv => /\ Cluster!TypeOK /\ Cluster!OldAgrees /\ Cluster!IntervalBounded
                  /\ Cluster!RowShowsInterval /\ Cluster!ChangeIsOffered
<1> SUFFICES ASSUME ClusterInv
             PROVE  /\ Cluster!TypeOK /\ Cluster!OldAgrees /\ Cluster!IntervalBounded
                    /\ Cluster!RowShowsInterval /\ Cluster!ChangeIsOffered
  OBVIOUS
<1>1. Cluster!TypeOK
  BY DEF ClusterInv, ClusterTyped, Settings, Cluster!TypeOK
<1>2. Cluster!OldAgrees /\ Cluster!IntervalBounded
  BY DEF ClusterInv, OldComing, ValuesSound, Cluster!OldAgrees, Cluster!IntervalBounded
<1> QED
  BY <1>1, <1>2 DEF ClusterInv
-----------------------------------------------------------------------------
(* The users. *)

\* No user, no search, no secret.
Blank == ""

\* It is not one of the names.
LEMMA BlankApart ==
    /\ Blank \notin Users!Users /\ Blank \notin Queries /\ Blank \notin Services /\ Blank \notin Keys
    /\ Mask # Blank /\ Mask \notin Keys
BY ConsoleAdminAssumption, Zenon DEF Blank, Users!Users

UserReq ==
    {r \in [op : {"list", "add", "remove"}, user : Users!Users \cup {Blank}, done : BOOLEAN, result : SUBSET Users!Users] :
        r.user = Blank <=> r.op = "list"}

UsersTyped ==
    /\ users \subseteq Users!Users /\ userList \subseteq Users!Users /\ copyOfUserList \subseteq Users!Users
    /\ loaded \in BOOLEAN /\ crashed \in BOOLEAN /\ lost \in BOOLEAN /\ narrowed \in BOOLEAN
    /\ search \in Queries \cup {Blank}
    /\ tab \in [type : {"Management", "Client"}, count : 0..Cardinality(Users!Users)]
    /\ drawer \in {"none", "add", "details"}
    /\ removing \in Users!Users \cup {Blank}
    /\ sent \in 0..MaxAsked
    /\ reqs \in Seq(UserReq)

\* Before the list has come nothing can be chosen to be removed or be searched, and it
\* comes once.
ListComing ==
    /\ ~loaded => /\ userList = {} /\ copyOfUserList = {} /\ removing = Blank
                  /\ \A i \in DOMAIN reqs : reqs[i].op # "remove"
                  /\ ~crashed => search = Blank
    /\ loaded => ~crashed /\ \A i \in DOMAIN reqs : reqs[i].op # "list"
    /\ \A i, j \in DOMAIN reqs : reqs[i].op = "list" /\ reqs[j].op = "list" => i = j

\* Requests under way are for different users, and the broker has what they made.
RequestsApart ==
    ~lost => /\ \A i, j \in DOMAIN reqs : reqs[i].user = reqs[j].user => i = j
             /\ \A i \in DOMAIN reqs : reqs[i].done =>
                    /\ reqs[i].op = "add" => reqs[i].user \in users
                    /\ reqs[i].op = "remove" => reqs[i].user \notin users

\* A set has the broker's users, but for those of requests the broker has handled.
Knows(S) ==
    \A u \in Users!Users :
        (\A i \in DOMAIN reqs : reqs[i].user = u => ~reqs[i].done) => (u \in users <=> u \in S)

UsersKnown ==
    ~lost => /\ loaded => Knows(userList)
             /\ ~loaded /\ ~crashed => \A i \in DOMAIN reqs : reqs[i].op = "list" /\ reqs[i].done => Knows(reqs[i].result)

\* Without a search the table shows the list, and its tab counts it.
AllShown ==
    search = Blank => ~narrowed /\ (loaded => copyOfUserList = userList /\ tab = Users!Label(tab.type, copyOfUserList))

\* What the table shows is what the search finds.
MatchesShown ==
    (loaded /\ ~crashed /\ ~narrowed) =>
        copyOfUserList = IF search = Blank THEN userList ELSE userList \cap Matches(search)

UsersInv ==
    UsersTyped /\ ListComing /\ RequestsApart /\ UsersKnown /\ AllShown /\ MatchesShown

LEMMA UsersCount == ASSUME NEW S PROVE Users!Cardinality(S) = Cardinality(S)
BY DEF Users!Cardinality, Cardinality

\* The label of a tab.
LEMMA LabelOf ==
    ASSUME NEW S \in SUBSET Users!Users, NEW t \in {"Management", "Client"}
    PROVE  /\ Users!Label(t, S) \in [type : {"Management", "Client"}, count : 0..Cardinality(Users!Users)]
           /\ Users!Label(t, S).type = t
<1> DEFINE O == Users!OfType(S, t)
<1>1. IsFiniteSet(Users!Users) /\ O \in SUBSET Users!Users
  BY ConsoleAdminAssumption DEF Users!Users, Users!OfType
<1>2. Users!Label(t, S) = [type |-> t, count |-> Cardinality(O)]
  BY UsersCount DEF Users!Label
<1> HIDE DEF O
<1>3. IsFiniteSet(O) /\ Cardinality(O) <= Cardinality(Users!Users)
  BY <1>1, FS_Subset
<1>4. Cardinality(O) \in Nat /\ Cardinality(Users!Users) \in Nat
  BY <1>1, <1>3, FS_CardinalityType
<1> QED
  BY <1>2, <1>3, <1>4

LEMMA UsersStart == Users!Init => UsersInv
<1> SUFFICES ASSUME Users!Init PROVE UsersInv
  OBVIOUS
<1> DEFINE q == [op |-> "list", user |-> Blank, done |-> FALSE, result |-> {}]
<1>1. /\ users \subseteq Users!Users /\ loaded = FALSE /\ crashed = FALSE /\ userList = {} /\ copyOfUserList = {}
      /\ search = Blank /\ tab = [type |-> "Management", count |-> 0] /\ drawer = "none" /\ removing = Blank
      /\ reqs = <<q>> /\ sent = 0 /\ lost = FALSE /\ narrowed = FALSE
  BY DEF Users!Init, Blank
<1>2. q \in UserReq /\ q.op = "list" /\ ~q.done
  BY DEF UserReq
<1> HIDE DEF q
<1>3. reqs \in Seq(UserReq) /\ DOMAIN reqs = {1} /\ reqs[1] = q
  <2>1. ASSUME NEW S, NEW x \in S PROVE <<x>> \in Seq(S) /\ DOMAIN <<x>> = {1} /\ <<x>>[1] = x
    <3>1. <<x>> \in Seq(S) /\ Len(<<x>>) = 1 /\ <<x>>[1] = x
      OBVIOUS
    <3>2. DOMAIN <<x>> = 1..1
      BY <3>1, LenProperties
    <3> QED
      BY <3>1, <3>2
  <2>2. reqs = <<q>> /\ q \in UserReq
    BY <1>1, <1>2
  <2> QED
    BY <2>1, <2>2
<1>4. 0 \in 0..Cardinality(Users!Users)
  <2>1. IsFiniteSet(Users!Users)
    BY ConsoleAdminAssumption DEF Users!Users
  <2> QED
    BY <2>1, FS_CardinalityType
<1>5. UsersTyped
  <2>1. search \in Queries \cup {Blank} /\ removing \in Users!Users \cup {Blank}
    BY <1>1, Zenon
  <2>2. tab \in [type : {"Management", "Client"}, count : 0..Cardinality(Users!Users)]
    BY <1>1, <1>4
  <2>3. sent \in 0..MaxAsked
    <3>1. sent = 0
      BY <1>1
    <3> QED
      BY <3>1, Bounds
  <2> QED
    BY <1>1, <1>3, <2>1, <2>2, <2>3 DEF UsersTyped
<1>6. ListComing
  BY <1>1, <1>2, <1>3 DEF ListComing
<1>7. RequestsApart
  BY <1>1, <1>2, <1>3 DEF RequestsApart
<1>8. UsersKnown
  BY <1>1, <1>2, <1>3 DEF UsersKnown
<1>9. AllShown /\ MatchesShown
  BY <1>1 DEF AllShown, MatchesShown
<1> QED
  BY <1>5, <1>6, <1>7, <1>8, <1>9 DEF UsersInv

\* What a step does to the page alone: the broker, the requests and the list stay.
LEMMA UsersPage ==
    ASSUME UsersInv, UNCHANGED <<users, loaded, crashed, userList, reqs, sent, lost>>,
           search' \in Queries \cup {Blank}, copyOfUserList' \subseteq userList \cup copyOfUserList,
           drawer' \in {"none", "add", "details"}, removing' \in copyOfUserList \cup {removing, Blank},
           \E t \in {"Management", "Client"} : tab' = Users!Label(t, copyOfUserList') \/ UNCHANGED <<tab, copyOfUserList, search>>,
           narrowed' \in BOOLEAN, loaded \/ search' = search, AllShown', MatchesShown'
    PROVE  UsersInv'
<1> USE DEF UsersInv
<1>1. copyOfUserList' \subseteq Users!Users /\ removing' \in Users!Users \cup {Blank}
  BY DEF UsersTyped
<1>2. tab' \in [type : {"Management", "Client"}, count : 0..Cardinality(Users!Users)]
  BY <1>1, LabelOf DEF UsersTyped
<1>3. UsersTyped'
  BY <1>1, <1>2 DEF UsersTyped
<1>4. ListComing'
  BY DEF ListComing
<1>5. RequestsApart' /\ UsersKnown'
  BY DEF RequestsApart, UsersKnown, Knows
<1> QED
  BY <1>3, <1>4, <1>5

\* A request is sent.
LEMMA UsersSend ==
    ASSUME UsersInv, NEW op \in {"add", "remove"}, NEW u \in Users!Users, Users!Send(op, u), op = "remove" => loaded,
           UNCHANGED <<users, loaded, crashed, Users!pageVars, narrowed>>
    PROVE  UsersInv'
<1> USE DEF UsersInv
<1> DEFINE q == [op |-> op, user |-> u, done |-> FALSE, result |-> {}]
<1>1. /\ sent < MaxAsked /\ sent' = sent + 1 /\ lost' = (lost \/ \E r \in Users!Range(reqs) : r.user = u)
      /\ reqs' = Append(reqs, q)
      /\ UNCHANGED <<users, loaded, crashed, userList, copyOfUserList, search, tab, drawer, removing, narrowed>>
  BY DEF Users!Send, Users!pageVars
<1>2. u # Blank
  BY BlankApart
<1>3. q \in UserReq /\ q.op = op /\ q.user = u /\ ~q.done
  BY <1>2 DEF UserReq
<1> HIDE DEF q
<1>4. /\ reqs' \in Seq(UserReq)
      /\ \A j \in DOMAIN reqs : j \in DOMAIN reqs' /\ reqs'[j] = reqs[j]
      /\ Len(reqs') \in DOMAIN reqs' /\ reqs'[Len(reqs')] = q
      /\ \A j \in DOMAIN reqs' : \/ j \in DOMAIN reqs /\ reqs'[j] = reqs[j]
                                 \/ j = Len(reqs') /\ j \notin DOMAIN reqs
  <2>1. reqs \in Seq(UserReq)
    BY DEF UsersTyped
  <2> QED
    BY <1>1, <1>3, <2>1, Appended
<1>5. ~lost' => ~lost /\ \A j \in DOMAIN reqs : reqs[j].user # u
  BY <1>1 DEF Users!Range
<1>6. UsersTyped'
  <2>1. sent' \in 0..MaxAsked
    <3>1. sent \in 0..MaxAsked
      BY DEF UsersTyped
    <3> QED
      BY <1>1, <3>1, Bounds
  <2>2. lost' \in BOOLEAN
    BY <1>1 DEF UsersTyped
  <2> QED
    BY <1>1, <1>4, <2>1, <2>2 DEF UsersTyped
<1>7. ListComing'
  <2>1. \A j \in DOMAIN reqs' : reqs'[j].op = "list" => j \in DOMAIN reqs /\ reqs'[j] = reqs[j]
    BY <1>3, <1>4
  <2>2. ASSUME ~loaded, NEW j \in DOMAIN reqs', reqs'[j].op = "remove"
        PROVE  j \in DOMAIN reqs /\ reqs'[j] = reqs[j]
    <3>1. q.op # "remove"
      BY <1>3, <2>2
    <3> QED
      BY <1>4, <2>2, <3>1
  <2>3. ~loaded => \A j \in DOMAIN reqs' : reqs'[j].op # "remove"
    <3> SUFFICES ASSUME ~loaded, NEW j \in DOMAIN reqs', reqs'[j].op = "remove" PROVE FALSE
      BY Zenon
    <3>1. j \in DOMAIN reqs /\ reqs'[j] = reqs[j]
      BY <2>2, Zenon
    <3> QED
      BY <3>1 DEF ListComing
  <2>4. loaded => \A j \in DOMAIN reqs' : reqs'[j].op # "list"
    BY <2>1 DEF ListComing
  <2>5. \A i, j \in DOMAIN reqs' : reqs'[i].op = "list" /\ reqs'[j].op = "list" => i = j
    BY <2>1 DEF ListComing
  <2>6. /\ loaded' <=> loaded
        /\ crashed' <=> crashed
        /\ userList' = userList /\ copyOfUserList' = copyOfUserList /\ removing' = removing /\ search' = search
    BY <1>1
  <2> QED
    BY <2>3, <2>4, <2>5, <2>6 DEF ListComing
<1>8. RequestsApart'
  <2> SUFFICES ASSUME ~lost'
               PROVE  /\ \A i, j \in DOMAIN reqs' : reqs'[i].user = reqs'[j].user => i = j
                      /\ \A i \in DOMAIN reqs' : reqs'[i].done =>
                             /\ reqs'[i].op = "add" => reqs'[i].user \in users'
                             /\ reqs'[i].op = "remove" => reqs'[i].user \notin users'
    BY DEF RequestsApart
  <2>1. \A i, j \in DOMAIN reqs' : reqs'[i].user = reqs'[j].user => i = j
    BY <1>3, <1>4, <1>5 DEF RequestsApart
  <2>2. \A i \in DOMAIN reqs' : reqs'[i].done => i \in DOMAIN reqs /\ reqs'[i] = reqs[i]
    BY <1>3, <1>4
  <2> QED
    BY <1>1, <1>5, <2>1, <2>2 DEF RequestsApart
<1>9. UsersKnown'
  <2>1. \A S : Knows(S) => Knows(S)'
    <3> SUFFICES ASSUME NEW S, Knows(S), NEW v \in Users!Users, \A i \in DOMAIN reqs' : reqs'[i].user = v => ~reqs'[i].done
                 PROVE  v \in users' <=> v \in S
      BY DEF Knows
    <3>1. \A i \in DOMAIN reqs : reqs[i].user = v => ~reqs[i].done
      BY <1>4
    <3> QED
      BY <1>1, <3>1 DEF Knows
  <2>2. \A i \in DOMAIN reqs' : reqs'[i].done => i \in DOMAIN reqs /\ reqs'[i] = reqs[i]
    BY <1>3, <1>4
  <2> QED
    BY <1>1, <1>5, <2>1, <2>2 DEF UsersKnown
<1>10. AllShown' /\ MatchesShown'
  <2>0. UNCHANGED <<loaded, crashed, userList, copyOfUserList, search, tab, narrowed>>
    BY <1>1
  <2>1. AllShown'
    BY <2>0 DEF AllShown, Users!Label
  <2>2. MatchesShown'
    BY <2>0 DEF MatchesShown
  <2> QED
    BY <2>1, <2>2
<1> QED
  BY <1>6, <1>7, <1>8, <1>9, <1>10
\* What an answer leaves.
LEMMA UsersAnswered ==
    ASSUME UsersInv, NEW i \in DOMAIN reqs, reqs' = Users!RemoveAt(reqs, i)
    PROVE  /\ reqs[i] \in UserReq /\ reqs' \in Seq(UserReq)
           /\ \A j \in DOMAIN reqs' : \E k \in DOMAIN reqs : k # i /\ reqs'[j] = reqs[k]
           /\ \A k \in DOMAIN reqs : k # i => \E j \in DOMAIN reqs' : reqs'[j] = reqs[k]
           /\ \A a, b \in DOMAIN reqs' : reqs'[a].op = "list" /\ reqs'[b].op = "list" => a = b
           /\ ~lost => \A a, b \in DOMAIN reqs' : reqs'[a].user = reqs'[b].user => a = b
           /\ reqs[i].op = "list" => \A j \in DOMAIN reqs' : reqs'[j].op # "list"
<1> USE DEF UsersInv
<1>1. reqs \in Seq(UserReq)
  BY DEF UsersTyped
<1>2. reqs' = Without(reqs, i)
  BY DEF Users!RemoveAt, Without
<1>3. /\ reqs' \in Seq(UserReq)
      /\ \A j \in DOMAIN reqs' : \E k \in DOMAIN reqs : k # i /\ reqs'[j] = reqs[k]
      /\ \A k \in DOMAIN reqs : k # i => \E j \in DOMAIN reqs' : reqs'[j] = reqs[k]
  BY <1>1, <1>2, Answered
<1>4. reqs[i] \in UserReq
  BY <1>1, Elements
<1>6. ASSUME NEW a \in DOMAIN reqs', NEW b \in DOMAIN reqs', a # b
      PROVE  \E k1, k2 \in DOMAIN reqs : k1 # k2 /\ reqs'[a] = reqs[k1] /\ reqs'[b] = reqs[k2]
  BY <1>1, <1>2, <1>6, Apart
<1>7. \A a, b \in DOMAIN reqs' : reqs'[a].op = "list" /\ reqs'[b].op = "list" => a = b
  <2> SUFFICES ASSUME NEW a \in DOMAIN reqs', NEW b \in DOMAIN reqs', reqs'[a].op = "list", reqs'[b].op = "list", a # b
               PROVE  FALSE
    OBVIOUS
  <2>1. PICK k1 \in DOMAIN reqs, k2 \in DOMAIN reqs : k1 # k2 /\ reqs'[a] = reqs[k1] /\ reqs'[b] = reqs[k2]
    BY <1>6
  <2> QED
    BY <2>1 DEF ListComing
<1>8. ASSUME ~lost PROVE \A a, b \in DOMAIN reqs' : reqs'[a].user = reqs'[b].user => a = b
  <2> SUFFICES ASSUME NEW a \in DOMAIN reqs', NEW b \in DOMAIN reqs', reqs'[a].user = reqs'[b].user, a # b
               PROVE  FALSE
    OBVIOUS
  <2>1. PICK k1 \in DOMAIN reqs, k2 \in DOMAIN reqs : k1 # k2 /\ reqs'[a] = reqs[k1] /\ reqs'[b] = reqs[k2]
    BY <1>6
  <2> QED
    BY <1>8, <2>1 DEF RequestsApart
<1>9. ASSUME reqs[i].op = "list" PROVE \A j \in DOMAIN reqs' : reqs'[j].op # "list"
  <2> SUFFICES ASSUME NEW j \in DOMAIN reqs', reqs'[j].op = "list" PROVE FALSE
    OBVIOUS
  <2>1. PICK k \in DOMAIN reqs : k # i /\ reqs'[j] = reqs[k]
    BY <1>3
  <2> QED
    BY <1>9, <2>1 DEF ListComing
<1> QED
  BY <1>3, <1>4, <1>7, <1>8, <1>9
\* The other requests are still for different users when one leaves.
LEMMA UsersLeave ==
    ASSUME UsersInv, NEW i \in DOMAIN reqs, reqs' = Users!RemoveAt(reqs, i), users' = users, ~lost' => ~lost
    PROVE  RequestsApart'
<1> USE DEF UsersInv
<1>1. /\ \A j \in DOMAIN reqs' : \E k \in DOMAIN reqs : k # i /\ reqs'[j] = reqs[k]
      /\ ~lost => \A a, b \in DOMAIN reqs' : reqs'[a].user = reqs'[b].user => a = b
  BY UsersAnswered
<1> SUFFICES ASSUME ~lost'
             PROVE  /\ \A a, b \in DOMAIN reqs' : reqs'[a].user = reqs'[b].user => a = b
                    /\ \A a \in DOMAIN reqs' : reqs'[a].done =>
                           /\ reqs'[a].op = "add" => reqs'[a].user \in users'
                           /\ reqs'[a].op = "remove" => reqs'[a].user \notin users'
  BY DEF RequestsApart
<1> QED
  BY <1>1 DEF RequestsApart

\* A set has them after a step.
KnowsNext(S) ==
    \A u \in Users!Users :
        (\A i \in DOMAIN reqs' : reqs'[i].user = u => ~reqs'[i].done) => (u \in users' <=> u \in S)

\* What a set has of the broker's users when an answer leaves, if the answer was
\* applied to it.
LEMMA KnowsOn ==
    ASSUME UsersInv, NEW i \in DOMAIN reqs, reqs' = Users!RemoveAt(reqs, i), users' = users,
           NEW S, NEW T, Knows(S), \A u \in Users!Users : u # reqs[i].user => (u \in S <=> u \in T),
           IF reqs[i].done /\ reqs[i].op # "list" THEN reqs[i].user \in users <=> reqs[i].user \in T ELSE S = T
    PROVE  KnowsNext(T)
<1> SUFFICES ASSUME NEW u \in Users!Users, \A j \in DOMAIN reqs' : reqs'[j].user = u => ~reqs'[j].done
             PROVE  u \in users <=> u \in T
  BY DEF KnowsNext
<1>1. reqs[i] \in UserReq /\ \A k \in DOMAIN reqs : k # i => \E j \in DOMAIN reqs' : reqs'[j] = reqs[k]
  BY UsersAnswered
<1>2. \A k \in DOMAIN reqs : k # i => (reqs[k].user = u => ~reqs[k].done)
  BY <1>1
<1>3. CASE u = reqs[i].user /\ reqs[i].done
  <2>1. reqs[i].op # "list"
    BY <1>1, <1>3, BlankApart DEF UserReq
  <2> QED
    BY <1>3, <2>1
<1>4. CASE ~(u = reqs[i].user /\ reqs[i].done)
  <2>1. u \in users <=> u \in S
    BY <1>2, <1>4 DEF Knows
  <2>2. u \in S <=> u \in T
    BY <1>4
  <2> QED
    BY <2>1, <2>2
<1> QED
  BY <1>3, <1>4
\* A search.
LEMMA UsersSearched ==
    ASSUME UsersInv, NEW q \in Queries \cup {Blank}, Users!HandleSearch(q)
    PROVE  UsersInv'
<1> USE DEF UsersInv
<1>1. /\ ~crashed /\ q # search /\ search' = q /\ tab' = Users!Label(tab.type, copyOfUserList')
      /\ UNCHANGED <<users, loaded, userList, drawer, removing, reqs, sent, lost>>
      /\ q = Blank => copyOfUserList' = userList /\ crashed' = FALSE /\ narrowed' = FALSE
      /\ q # Blank /\ ~loaded => crashed' = TRUE /\ UNCHANGED <<copyOfUserList, narrowed>>
      /\ q # Blank /\ loaded => /\ copyOfUserList' = copyOfUserList \cap Matches(q) /\ crashed' = FALSE
                                /\ narrowed' = (narrowed \/ (search # Blank /\ ~(Matches(q) \subseteq Matches(search))))
  BY DEF Users!HandleSearch, Users!Uncovered, Blank
<1>2. tab.type \in {"Management", "Client"} /\ copyOfUserList \subseteq Users!Users /\ userList \subseteq Users!Users
  BY DEF UsersTyped
<1>3. loaded => UNCHANGED crashed
  <2>1. crashed = FALSE
    BY <1>1 DEF UsersTyped
  <2> QED
    BY <1>1, <2>1
<1>4. q = Blank => loaded
  BY <1>1 DEF ListComing
<1>5. copyOfUserList' \subseteq Users!Users
  BY <1>1, <1>2
<1>6. tab'.type = tab.type /\ tab' \in [type : {"Management", "Client"}, count : 0..Cardinality(Users!Users)]
  BY <1>1, <1>2, <1>5, LabelOf
<1>7. CASE q = Blank
  <2>1. AllShown'
    BY <1>1, <1>6, <1>7 DEF AllShown
  <2>2. MatchesShown'
    BY <1>1, <1>7 DEF MatchesShown
  <2>3. narrowed' \in BOOLEAN
    BY <1>1, <1>7
  <2>4. drawer' \in {"none", "add", "details"} /\ removing' = removing
    BY <1>1 DEF UsersTyped
  <2>5. copyOfUserList' \subseteq userList \cup copyOfUserList /\ search' \in Queries \cup {Blank}
    BY <1>1, <1>7
  <2> QED
    BY <1>1, <1>2, <1>3, <1>4, <1>7, <2>1, <2>2, <2>3, <2>4, <2>5, UsersPage
<1>8. CASE q # Blank /\ loaded
  <2>1. AllShown'
    BY <1>1, <1>8 DEF AllShown
  <2>2. MatchesShown'
    <3> SUFFICES ASSUME ~narrowed' PROVE copyOfUserList' = userList' \cap Matches(search')
      BY <1>1, <1>8 DEF MatchesShown
    <3>1. ~narrowed /\ (search = Blank \/ Matches(q) \subseteq Matches(search))
      BY <1>1, <1>8
    <3>2. copyOfUserList = IF search = Blank THEN userList ELSE userList \cap Matches(search)
      BY <1>1, <1>8, <3>1 DEF MatchesShown
    <3>3. copyOfUserList' = copyOfUserList \cap Matches(q) /\ userList' = userList /\ search' = q
      BY <1>1, <1>8
    <3> QED
      BY <3>1, <3>2, <3>3
  <2>3. narrowed' \in BOOLEAN
    BY <1>1, <1>8 DEF UsersTyped
  <2>4. drawer' \in {"none", "add", "details"} /\ removing' = removing
    BY <1>1 DEF UsersTyped
  <2>5. copyOfUserList' \subseteq userList \cup copyOfUserList /\ search' \in Queries \cup {Blank}
    BY <1>1, <1>8
  <2> QED
    BY <1>1, <1>2, <1>3, <1>8, <2>1, <2>2, <2>3, <2>4, <2>5, UsersPage
<1>9. CASE ~loaded
  <2>0. q # Blank /\ crashed' /\ ~loaded' /\ UNCHANGED <<users, loaded, userList, drawer, removing, reqs, sent, lost, copyOfUserList, narrowed>>
    BY <1>1, <1>4, <1>9
  <2>1. UsersTyped'
    BY <1>1, <1>6, <1>9, <1>4 DEF UsersTyped
  <2>2. ListComing'
    BY <1>9, <2>0 DEF ListComing
  <2>3. RequestsApart'
    BY <2>0 DEF RequestsApart
  <2>4. UsersKnown'
    BY <2>0 DEF UsersKnown
  <2>5. AllShown' /\ MatchesShown'
    BY <1>1, <2>0 DEF AllShown, MatchesShown
  <2> QED
    BY <2>1, <2>2, <2>3, <2>4, <2>5
<1> QED
  BY <1>7, <1>8, <1>9

\* The broker handles a request.
LEMMA UsersHandled ==
    ASSUME UsersInv, NEW i \in DOMAIN reqs, Users!Handle(i)
    PROVE  UsersInv'
<1> USE DEF UsersInv
<1> DEFINE q == [reqs[i] EXCEPT !.done = TRUE, !.result = users']
<1>1. /\ ~reqs[i].done /\ reqs[i].op = "add" => reqs[i].user \notin users
      /\ users' = CASE reqs[i].op = "add"    -> users \cup {reqs[i].user}
                    [] reqs[i].op = "remove" -> users \ {reqs[i].user}
                    [] OTHER                 -> users
      /\ reqs' = [reqs EXCEPT ![i] = q]
      /\ UNCHANGED <<loaded, crashed, userList, copyOfUserList, search, tab, drawer, removing, sent, lost, narrowed>>
  BY DEF Users!Handle, Users!pageVars
<1>2. reqs \in Seq(UserReq) /\ reqs[i] \in UserReq
  <2>1. reqs \in Seq(UserReq)
    BY DEF UsersTyped
  <2> QED
    BY <2>1, Elements
<1>3. users' \subseteq Users!Users
  <2>1. reqs[i].op = "add" => reqs[i].user \in Users!Users
    BY <1>2 DEF UserReq
  <2> QED
    BY <1>1, <2>1 DEF UsersTyped
<1>4. q \in UserReq /\ q.op = reqs[i].op /\ q.user = reqs[i].user /\ q.done /\ q.result = users'
  BY <1>2, <1>3 DEF UserReq
<1> HIDE DEF q
<1>5. /\ reqs' \in Seq(UserReq) /\ DOMAIN reqs' = DOMAIN reqs /\ reqs'[i] = q
      /\ \A j \in DOMAIN reqs : j # i => reqs'[j] = reqs[j]
  BY <1>1, <1>2, <1>4, Changed
<1>6. \A j \in DOMAIN reqs : reqs'[j].op = reqs[j].op /\ reqs'[j].user = reqs[j].user
  BY <1>4, <1>5
<1>7. \A u : u # reqs[i].user => (u \in users' <=> u \in users)
  BY <1>1
<1>8. UsersTyped'
  BY <1>1, <1>3, <1>5 DEF UsersTyped
<1>9. ListComing'
  BY <1>1, <1>5, <1>6 DEF ListComing
<1>10. RequestsApart'
  <2> SUFFICES ASSUME ~lost
               PROVE  /\ \A a, b \in DOMAIN reqs' : reqs'[a].user = reqs'[b].user => a = b
                      /\ \A a \in DOMAIN reqs' : reqs'[a].done =>
                             /\ reqs'[a].op = "add" => reqs'[a].user \in users'
                             /\ reqs'[a].op = "remove" => reqs'[a].user \notin users'
    BY <1>1 DEF RequestsApart
  <2>1. \A a, b \in DOMAIN reqs' : reqs'[a].user = reqs'[b].user => a = b
    BY <1>5, <1>6 DEF RequestsApart
  <2>2. ASSUME NEW a \in DOMAIN reqs', reqs'[a].done
        PROVE  /\ reqs'[a].op = "add" => reqs'[a].user \in users'
               /\ reqs'[a].op = "remove" => reqs'[a].user \notin users'
    <3>1. CASE a = i
      BY <1>1, <1>6, <3>1
    <3>2. CASE a # i
      <4>1. reqs'[a] = reqs[a] /\ a \in DOMAIN reqs
        BY <1>5, <3>2
      <4>2. reqs[a].user # reqs[i].user
        BY <3>2, <4>1 DEF RequestsApart
      <4> QED
        BY <1>7, <2>2, <4>1, <4>2 DEF RequestsApart
    <3> QED
      BY <3>1, <3>2
  <2> QED
    BY <2>1, <2>2
<1>11. UsersKnown'
  <2>1. ASSUME NEW S, Knows(S) PROVE Knows(S)'
    <3> SUFFICES ASSUME NEW u \in Users!Users, \A j \in DOMAIN reqs' : reqs'[j].user = u => ~reqs'[j].done
                 PROVE  u \in users' <=> u \in S
      BY DEF Knows
    <3>1. u # reqs[i].user
      BY <1>4, <1>5
    <3>2. \A j \in DOMAIN reqs : reqs[j].user = u => ~reqs[j].done
      BY <1>5, <3>1
    <3> QED
      BY <1>7, <2>1, <3>1, <3>2 DEF Knows
  <2> SUFFICES ASSUME ~lost
               PROVE  /\ loaded => Knows(userList)'
                      /\ ~loaded /\ ~crashed =>
                            \A j \in DOMAIN reqs' : reqs'[j].op = "list" /\ reqs'[j].done => Knows(reqs[j].result)'
    BY <1>1 DEF UsersKnown
  <2>2. loaded => Knows(userList)'
    BY <1>1, <2>1 DEF UsersKnown
  <2>3. ASSUME ~loaded, ~crashed, NEW j \in DOMAIN reqs', reqs'[j].op = "list", reqs'[j].done
        PROVE  Knows(reqs[j].result)'
    <3>1. CASE j = i
      <4>1. reqs'[j].result = users'
        BY <1>4, <1>5, <3>1
      <4> QED
        BY <4>1 DEF Knows
    <3>2. CASE j # i
      <4>1. j \in DOMAIN reqs /\ reqs'[j] = reqs[j]
        BY <1>5, <3>2
      <4>2. Knows(reqs[j].result)
        BY <2>3, <4>1 DEF UsersKnown
      <4> DEFINE S == reqs[j].result
      <4>3. reqs'[j].result = S
        BY <4>1
      <4> HIDE DEF S
      <4>4. ASSUME NEW u \in Users!Users, \A k \in DOMAIN reqs' : reqs'[k].user = u => ~reqs'[k].done
            PROVE  u \in users' <=> u \in S
        <5>1. u # reqs[i].user
          BY <1>4, <1>5, <4>4
        <5>2. \A k \in DOMAIN reqs : reqs[k].user = u => ~reqs[k].done
          BY <1>5, <4>4, <5>1
        <5> QED
          BY <1>7, <4>2, <5>1, <5>2 DEF Knows, S
      <4> QED
        BY <4>3, <4>4 DEF Knows
    <3> QED
      BY <3>1, <3>2
  <2> QED
    BY <2>2, <2>3
<1>12. AllShown' /\ MatchesShown'
  BY <1>1 DEF AllShown, MatchesShown, Users!Label
<1> QED
  BY <1>8, <1>9, <1>10, <1>11, <1>12
\* The reply to the request for the list.
LEMMA UsersListed ==
    ASSUME UsersInv, NEW i \in DOMAIN reqs, reqs[i].done, reqs[i].op = "list", ~crashed,
           reqs' = Users!RemoveAt(reqs, i), Users!GetAllUsers(reqs[i]), UNCHANGED <<users, sent, lost>>
    PROVE  UsersInv'
<1> USE DEF UsersInv
<1> DEFINE S == reqs[i].result
<1>1. /\ loaded' = TRUE /\ userList' = S /\ copyOfUserList' = S /\ tab' = Users!Label("Management", S)
      /\ UNCHANGED <<crashed, search, drawer, removing, narrowed>>
  BY DEF Users!GetAllUsers
<1>2. /\ reqs[i] \in UserReq /\ reqs' \in Seq(UserReq)
      /\ \A j \in DOMAIN reqs' : \E k \in DOMAIN reqs : k # i /\ reqs'[j] = reqs[k]
      /\ \A j \in DOMAIN reqs' : reqs'[j].op # "list"
  BY UsersAnswered
<1>3. ~loaded
  BY DEF ListComing
<1>4. search = Blank /\ ~narrowed
  <2>1. search = Blank
    BY <1>3 DEF ListComing
  <2> QED
    BY <2>1 DEF AllShown
<1>5. S \subseteq Users!Users
  BY <1>2 DEF UserReq
<1>6. ~lost => Knows(S)
  BY <1>3 DEF UsersKnown
<1> HIDE DEF S
<1>7. tab'.type = "Management" /\ tab' \in [type : {"Management", "Client"}, count : 0..Cardinality(Users!Users)]
  BY <1>1, <1>5, LabelOf
<1>8. UsersTyped'
  BY <1>1, <1>2, <1>5, <1>7 DEF UsersTyped
<1>9. ListComing'
  BY <1>1, <1>2 DEF ListComing
<1>10. RequestsApart'
  BY UsersLeave
<1>11. UsersKnown'
  <2> SUFFICES ASSUME ~lost PROVE Knows(userList)'
    BY <1>1 DEF UsersKnown
  <2>1. Knows(S)
    BY <1>6
  <2>2. KnowsNext(S)
    BY <2>1, KnowsOn
  <2> QED
    BY <1>1, <2>2 DEF Knows, KnowsNext
<1>12. AllShown' /\ MatchesShown'
  BY <1>1, <1>4, <1>7 DEF AllShown, MatchesShown
<1> QED
  BY <1>8, <1>9, <1>10, <1>11, <1>12

\* The reply to an addition, when the list is there.
LEMMA UsersAdded ==
    ASSUME UsersInv, NEW i \in DOMAIN reqs, reqs[i].done, reqs[i].op = "add", ~crashed, loaded,
           reqs' = Users!RemoveAt(reqs, i), Users!HandleAddUser(reqs[i].user), UNCHANGED <<users, sent, lost>>
    PROVE  UsersInv'
<1> USE DEF UsersInv
<1> DEFINE u == reqs[i].user
           T == userList \cup {u}
<1>1. /\ userList' = T /\ copyOfUserList' = copyOfUserList \cup {u} /\ tab' = Users!Label(Users!TypeOf(u), T)
      /\ crashed' = ~loaded /\ drawer' = (IF drawer = "add" THEN "none" ELSE drawer)
      /\ narrowed' = (narrowed \/ search # Blank) /\ UNCHANGED <<loaded, search, removing>>
  BY DEF Users!HandleAddUser, Blank
<1>2. /\ reqs[i] \in UserReq /\ reqs' \in Seq(UserReq)
      /\ \A j \in DOMAIN reqs' : \E k \in DOMAIN reqs : k # i /\ reqs'[j] = reqs[k]
      /\ \A a, b \in DOMAIN reqs' : reqs'[a].op = "list" /\ reqs'[b].op = "list" => a = b
  BY UsersAnswered
<1>3. u \in Users!Users
  BY <1>2 DEF UserReq
<1>4. T \subseteq Users!Users
  BY <1>3 DEF UsersTyped
<1>5. Users!TypeOf(u) \in {"Management", "Client"}
  BY DEF Users!TypeOf
<1>6. crashed' = FALSE /\ ~crashed' /\ loaded'
  BY <1>1
<1>7. ~lost => u \in users
  BY DEF RequestsApart
<1>8. UsersKnown'
  <2> SUFFICES ASSUME ~lost PROVE Knows(userList)'
    BY <1>6 DEF UsersKnown
  <2>1. Knows(userList)
    BY DEF UsersKnown
  <2>2. \A v \in Users!Users : v # reqs[i].user => (v \in userList <=> v \in T)
    OBVIOUS
  <2>3. reqs[i].user \in users <=> reqs[i].user \in T
    BY <1>7
  <2> HIDE DEF T
  <2>4. KnowsNext(T)
    BY <2>1, <2>2, <2>3, KnowsOn
  <2> QED
    BY <1>1, <2>4 DEF Knows, KnowsNext
<1>9. tab'.type = Users!TypeOf(u) /\ tab' \in [type : {"Management", "Client"}, count : 0..Cardinality(Users!Users)]
  BY <1>1, <1>4, <1>5, LabelOf
<1>10. UsersTyped'
  <2>1. copyOfUserList' \subseteq Users!Users /\ userList' \subseteq Users!Users
    BY <1>1, <1>3, <1>4 DEF UsersTyped
  <2>2. narrowed' \in BOOLEAN
    BY <1>1 DEF UsersTyped
  <2>3. drawer' \in {"none", "add", "details"}
    BY <1>1 DEF UsersTyped
  <2>4. crashed' \in BOOLEAN /\ loaded' \in BOOLEAN
    BY <1>1, <1>6 DEF UsersTyped
  <2>5. UNCHANGED <<users, sent, lost, search, removing>>
    BY <1>1
  <2> QED
    BY <1>2, <1>9, <2>1, <2>2, <2>3, <2>4, <2>5 DEF UsersTyped
<1>11. ListComing'
  BY <1>2, <1>6 DEF ListComing
<1>12. RequestsApart'
  BY UsersLeave
<1>13. AllShown'
  <2> SUFFICES ASSUME search = Blank PROVE ~narrowed' /\ copyOfUserList' = userList' /\ tab' = Users!Label(tab'.type, copyOfUserList')
    BY <1>1 DEF AllShown
  <2>1. ~narrowed /\ copyOfUserList = userList
    BY DEF AllShown
  <2>2. ~narrowed'
    BY <1>1, <2>1
  <2> QED
    BY <1>1, <1>9, <2>1, <2>2
<1>14. MatchesShown'
  <2> SUFFICES ASSUME ~narrowed' PROVE search' = Blank /\ copyOfUserList' = userList'
    BY DEF MatchesShown
  <2>1. ~narrowed /\ search = Blank
    BY <1>1
  <2>2. copyOfUserList = userList
    BY <2>1 DEF AllShown
  <2> QED
    BY <1>1, <2>1, <2>2
<1> QED
  BY <1>8, <1>10, <1>11, <1>12, <1>13, <1>14

\* The reply to a removal.
LEMMA UsersRemoved ==
    ASSUME UsersInv, NEW i \in DOMAIN reqs, reqs[i].done, reqs[i].op = "remove", ~crashed,
           reqs' = Users!RemoveAt(reqs, i), Users!HandleRemoveUser(reqs[i].user), UNCHANGED <<users, sent, lost>>
    PROVE  UsersInv'
<1> USE DEF UsersInv
<1> DEFINE u == reqs[i].user
           T == userList \ {u}
<1>1. /\ userList' = T /\ copyOfUserList' = copyOfUserList \ {u} /\ tab' = Users!Label(Users!TypeOf(u), T)
      /\ removing' = Blank /\ UNCHANGED <<loaded, crashed, search, drawer, narrowed>>
  BY DEF Users!HandleRemoveUser, Blank
<1>2. /\ reqs[i] \in UserReq /\ reqs' \in Seq(UserReq)
      /\ \A j \in DOMAIN reqs' : \E k \in DOMAIN reqs : k # i /\ reqs'[j] = reqs[k]
      /\ \A a, b \in DOMAIN reqs' : reqs'[a].op = "list" /\ reqs'[b].op = "list" => a = b
  BY UsersAnswered
<1>4. T \subseteq Users!Users
  BY DEF UsersTyped
<1>5. Users!TypeOf(u) \in {"Management", "Client"}
  BY DEF Users!TypeOf
<1>6. loaded /\ loaded' /\ ~crashed'
  <2>1. loaded
    BY DEF ListComing
  <2> QED
    BY <1>1, <2>1
<1>7. ~lost => u \notin users
  BY DEF RequestsApart
<1>8. UsersKnown'
  <2> SUFFICES ASSUME ~lost PROVE Knows(userList)'
    BY <1>6 DEF UsersKnown
  <2>1. Knows(userList)
    BY <1>6 DEF UsersKnown
  <2>2. \A v \in Users!Users : v # reqs[i].user => (v \in userList <=> v \in T)
    OBVIOUS
  <2>3. reqs[i].user \in users <=> reqs[i].user \in T
    BY <1>7
  <2> HIDE DEF T
  <2>4. KnowsNext(T)
    BY <2>1, <2>2, <2>3, KnowsOn
  <2> QED
    BY <1>1, <2>4 DEF Knows, KnowsNext
<1>9. tab'.type = Users!TypeOf(u) /\ tab' \in [type : {"Management", "Client"}, count : 0..Cardinality(Users!Users)]
  BY <1>1, <1>4, <1>5, LabelOf
<1>10. UsersTyped'
  BY <1>1, <1>2, <1>4, <1>9 DEF UsersTyped
<1>11. ListComing'
  BY <1>2, <1>6 DEF ListComing
<1>12. RequestsApart'
  BY UsersLeave
<1>13. AllShown'
  BY <1>1, <1>6, <1>9 DEF AllShown
<1>14. MatchesShown'
  <2> SUFFICES ASSUME ~narrowed PROVE copyOfUserList' = IF search' = Blank THEN userList' ELSE userList' \cap Matches(search')
    BY <1>1 DEF MatchesShown
  <2>1. copyOfUserList = IF search = Blank THEN userList ELSE userList \cap Matches(search)
    BY <1>6 DEF MatchesShown
  <2> QED
    BY <1>1, <2>1
<1> QED
  BY <1>8, <1>10, <1>11, <1>12, <1>13, <1>14

\* A reply that finds the page crashed, a user added before the list has come, and a
\* failed request.
LEMMA UsersAside ==
    ASSUME UsersInv, NEW i \in DOMAIN reqs, reqs' = Users!RemoveAt(reqs, i),
           UNCHANGED <<users, loaded, userList, copyOfUserList, search, tab, sent>>,
           crashed' \in BOOLEAN, crashed => crashed', loaded => ~crashed', drawer' \in {"none", "add", "details"},
           removing' \in {removing, Blank}, narrowed' \in BOOLEAN, narrowed => narrowed',
           narrowed' => narrowed \/ search # Blank, lost' \in BOOLEAN, lost => lost',
           crashed' \/ lost' \/ reqs[i].op = "list" \/ ~reqs[i].done
    PROVE  UsersInv'
<1> USE DEF UsersInv
<1>1. /\ reqs' \in Seq(UserReq)
      /\ \A j \in DOMAIN reqs' : \E k \in DOMAIN reqs : k # i /\ reqs'[j] = reqs[k]
      /\ \A a, b \in DOMAIN reqs' : reqs'[a].op = "list" /\ reqs'[b].op = "list" => a = b
  BY UsersAnswered
<1>2. UsersTyped'
  BY <1>1 DEF UsersTyped
<1>3. ListComing'
  BY <1>1 DEF ListComing
<1>4. RequestsApart'
  BY UsersLeave
<1>5. UsersKnown'
  <2> SUFFICES ASSUME ~lost'
               PROVE  /\ loaded' => Knows(userList)'
                      /\ ~loaded' /\ ~crashed' =>
                            \A j \in DOMAIN reqs' : reqs'[j].op = "list" /\ reqs'[j].done => Knows(reqs[j].result)'
    BY DEF UsersKnown
  <2>0. ASSUME ~crashed', NEW S, Knows(S) PROVE KnowsNext(S)
    <3>1. reqs[i].op = "list" \/ ~reqs[i].done
      BY <2>0
    <3> QED
      BY <2>0, <3>1, KnowsOn
  <2>1. ASSUME loaded' PROVE Knows(userList)'
    <3>1. loaded /\ ~crashed'
      BY <2>1
    <3>2. Knows(userList)
      BY <3>1 DEF UsersKnown
    <3>3. KnowsNext(userList)
      BY <2>0, <3>1, <3>2
    <3> QED
      BY <3>3 DEF Knows, KnowsNext
  <2>2. ASSUME ~loaded', ~crashed', NEW j \in DOMAIN reqs', reqs'[j].op = "list", reqs'[j].done
        PROVE  Knows(reqs[j].result)'
    <3>1. PICK k \in DOMAIN reqs : k # i /\ reqs'[j] = reqs[k]
      BY <1>1
    <3>2. Knows(reqs[k].result)
      BY <2>2, <3>1 DEF UsersKnown
    <3>3. KnowsNext(reqs[k].result)
      BY <2>0, <2>2, <3>2
    <3> QED
      BY <3>1, <3>3 DEF Knows, KnowsNext
  <2> QED
    BY <2>1, <2>2
<1>6. AllShown'
  BY DEF AllShown, Users!Label
<1>7. MatchesShown'
  BY DEF MatchesShown
<1> QED
  BY <1>2, <1>3, <1>4, <1>5, <1>6, <1>7
\* Every step of the page.
LEMMA UsersStep ==
    ASSUME UsersInv, [Users!Next]_(Users!vars)
    PROVE  UsersInv'
<1>t. /\ drawer \in {"none", "add", "details"} /\ search \in Queries \cup {Blank} /\ narrowed \in BOOLEAN
      /\ crashed \in BOOLEAN /\ lost \in BOOLEAN /\ removing \in Users!Users \cup {Blank}
  BY DEF UsersInv, UsersTyped
<1>p. ASSUME UNCHANGED <<users, loaded, crashed, userList, copyOfUserList, search, tab, reqs, sent, lost, narrowed>>,
             drawer' \in {"none", "add", "details"}, removing' \in copyOfUserList \cup {removing, Blank}
      PROVE  UsersInv'
  <2>1. AllShown' /\ MatchesShown'
    BY <1>p DEF UsersInv, AllShown, MatchesShown, Users!Label
  <2> QED
    BY <1>p, <1>t, <2>1, UsersPage
<1>1. CASE UNCHANGED Users!vars
  BY <1>1, <1>t, <1>p DEF Users!vars
<1>2. ASSUME NEW q \in Queries \cup {Blank}, Users!HandleSearch(q) PROVE UsersInv'
  BY <1>2, UsersSearched
<1>3. ASSUME NEW v \in {"Management", "Client"}, Users!ChangeTableView(v) PROVE UsersInv'
  <2>1. /\ tab' = Users!Label(v, copyOfUserList) /\ loaded
        /\ UNCHANGED <<users, loaded, crashed, userList, copyOfUserList, search, drawer, removing, reqs, sent, lost, narrowed>>
    BY <1>3 DEF Users!ChangeTableView
  <2>2. tab'.type = v
    BY <2>1, LabelOf DEF UsersInv, UsersTyped
  <2>3. AllShown' /\ MatchesShown'
    BY <2>1, <2>2 DEF UsersInv, AllShown, MatchesShown
  <2> QED
    BY <1>t, <2>1, <2>3, UsersPage
<1>4. ASSUME NEW d \in {"add", "details"}, Users!OpenDrawer(d) PROVE UsersInv'
  <2>1. /\ drawer' = d
        /\ UNCHANGED <<users, loaded, crashed, userList, copyOfUserList, search, tab, removing, reqs, sent, lost, narrowed>>
    BY <1>4 DEF Users!OpenDrawer
  <2> QED
    BY <1>p, <2>1
<1>5. ASSUME Users!CloseDrawer PROVE UsersInv'
  <2>1. /\ drawer' = "none"
        /\ UNCHANGED <<users, loaded, crashed, userList, copyOfUserList, search, tab, removing, reqs, sent, lost, narrowed>>
    BY <1>5 DEF Users!CloseDrawer
  <2> QED
    BY <1>p, <2>1
<1>6. ASSUME Users!CloseRemove PROVE UsersInv'
  <2>1. /\ removing' = Blank
        /\ UNCHANGED <<users, loaded, crashed, userList, copyOfUserList, search, tab, drawer, reqs, sent, lost, narrowed>>
    BY <1>6 DEF Users!CloseRemove, Blank
  <2> QED
    BY <1>t, <1>p, <2>1
<1>7. ASSUME NEW u \in Users!Users, Users!DeleteUser(u) PROVE UsersInv'
  <2>1. /\ removing' = u /\ u \in copyOfUserList
        /\ UNCHANGED <<users, loaded, crashed, userList, copyOfUserList, search, tab, drawer, reqs, sent, lost, narrowed>>
    BY <1>7 DEF Users!DeleteUser, Users!OfType
  <2> QED
    BY <1>t, <1>p, <2>1
<1>8. ASSUME NEW u \in Users!Users, Users!AddUser(u) PROVE UsersInv'
  <2>1. Users!Send("add", u) /\ UNCHANGED <<users, loaded, crashed, Users!pageVars, narrowed>>
    BY <1>8 DEF Users!AddUser
  <2> QED
    BY <2>1, UsersSend
<1>9. ASSUME Users!RemoveUser PROVE UsersInv'
  <2>1. removing # Blank /\ Users!Send("remove", removing) /\ UNCHANGED <<users, loaded, crashed, Users!pageVars, narrowed>>
    BY <1>9 DEF Users!RemoveUser, Blank
  <2>2. loaded /\ removing \in Users!Users
    BY <1>t, <2>1 DEF UsersInv, ListComing
  <2> QED
    BY <2>1, <2>2, UsersSend
<1>10. ASSUME NEW i \in DOMAIN reqs, Users!Handle(i) PROVE UsersInv'
  BY <1>10, UsersHandled
<1>11. ASSUME NEW i \in DOMAIN reqs, Users!Reply(i) PROVE UsersInv'
  <2>1. /\ reqs[i].done /\ reqs' = Users!RemoveAt(reqs, i) /\ UNCHANGED <<users, sent, lost>>
        /\ crashed => UNCHANGED <<loaded, crashed, Users!pageVars, narrowed>>
        /\ ~crashed => CASE reqs[i].op = "list" -> Users!GetAllUsers(reqs[i])
                         [] reqs[i].op = "add"  -> Users!HandleAddUser(reqs[i].user)
                         [] OTHER               -> Users!HandleRemoveUser(reqs[i].user)
    BY <1>11, Zenon DEF Users!Reply
  <2>2. reqs[i].op \in {"list", "add", "remove"}
    <3>1. reqs[i] \in UserReq
      BY <2>1, UsersAnswered
    <3> QED
      BY <3>1 DEF UserReq
  <2>3. CASE crashed
    <3>1. UNCHANGED <<loaded, crashed, userList, copyOfUserList, search, tab, drawer, removing, narrowed>>
      BY <2>1, <2>3 DEF Users!pageVars
    <3>2. ~loaded
      BY <2>3 DEF UsersInv, ListComing
    <3>3. crashed' /\ crashed' \in BOOLEAN /\ narrowed' \in BOOLEAN /\ lost' \in BOOLEAN
      BY <1>t, <2>1, <2>3, <3>1
    <3> QED
      BY <1>t, <2>1, <3>1, <3>2, <3>3, UsersAside
  <2>4. CASE ~crashed /\ reqs[i].op = "list"
    BY <2>1, <2>4, UsersListed
  <2>5. CASE ~crashed /\ reqs[i].op = "add" /\ loaded
    <3>1. Users!HandleAddUser(reqs[i].user)
      BY <2>1, <2>5
    <3> QED
      BY <2>1, <2>5, <3>1, UsersAdded
  <2>6. CASE ~crashed /\ reqs[i].op = "add" /\ ~loaded
    <3>0. Users!HandleAddUser(reqs[i].user)
      BY <2>1, <2>6
    <3>1. /\ userList' = userList /\ copyOfUserList' = copyOfUserList /\ tab' = tab /\ crashed' = ~loaded
          /\ drawer' = (IF drawer = "add" THEN "none" ELSE drawer)
          /\ narrowed' = (narrowed \/ search # Blank) /\ UNCHANGED <<loaded, search, removing>>
      BY <2>6, <3>0 DEF Users!HandleAddUser, Blank
    <3>2. crashed' /\ crashed' \in BOOLEAN /\ narrowed' \in BOOLEAN
      BY <2>6, <3>1
    <3>3. drawer' \in {"none", "add", "details"}
      BY <1>t, <3>1
    <3> QED
      BY <1>t, <2>1, <2>6, <3>1, <3>2, <3>3, UsersAside
  <2>7. CASE ~crashed /\ reqs[i].op = "remove"
    <3>1. Users!HandleRemoveUser(reqs[i].user)
      BY <2>1, <2>7
    <3> QED
      BY <2>1, <2>7, <3>1, UsersRemoved
  <2> QED
    BY <2>2, <2>3, <2>4, <2>5, <2>6, <2>7
<1>12. ASSUME NEW i \in DOMAIN reqs, Users!Fail(i) PROVE UsersInv'
  <2>1. /\ reqs' = Users!RemoveAt(reqs, i) /\ removing' \in {removing, Blank}
        /\ lost' = (lost \/ (reqs[i].done /\ reqs[i].op # "list"))
        /\ UNCHANGED <<users, loaded, crashed, userList, copyOfUserList, search, tab, drawer, sent, narrowed>>
    BY <1>12 DEF Users!Fail, Blank
  <2>2. lost' \in BOOLEAN /\ (lost => lost') /\ (lost' \/ reqs[i].op = "list" \/ ~reqs[i].done)
    BY <2>1
  <2>3. loaded => ~crashed'
    BY <2>1 DEF UsersInv, ListComing
  <2> QED
    BY <1>t, <2>1, <2>2, <2>3, UsersAside
<1> QED
  BY <1>1, <1>2, <1>3, <1>4, <1>5, <1>6, <1>7, <1>8, <1>9, <1>10, <1>11, <1>12, Zenon DEF Users!Next, Blank

\* What the page shows.
LEMMA UsersShows ==
    UsersInv => Users!TypeOK /\ Users!UsersAgree /\ Users!SearchShowsMatches /\ Users!TabCounts
<1> SUFFICES ASSUME UsersInv PROVE Users!TypeOK /\ Users!UsersAgree /\ Users!SearchShowsMatches /\ Users!TabCounts
  OBVIOUS
<1> USE DEF UsersInv
<1>1. Users!TypeOK
  <2>1. /\ {users, userList, copyOfUserList} \subseteq SUBSET Users!Users
        /\ {loaded, crashed, lost, narrowed} \subseteq BOOLEAN
        /\ search \in Queries \cup {Blank}
        /\ tab.type \in {"Management", "Client"} /\ tab.count \in 0..Cardinality(Users!Users)
        /\ drawer \in {"none", "add", "details"}
        /\ removing \in Users!Users \cup {Blank}
        /\ sent \in 0..MaxAsked
    BY DEF UsersTyped
  <2>2. ~loaded => userList = {}
    BY DEF ListComing
  <2>3. tab.count \in 0..Users!Cardinality(Users!Users)
    BY <2>1, UsersCount
  <2> QED
    BY <2>1, <2>2, <2>3, Zenon DEF Users!TypeOK, Blank
<1>2. Users!UsersAgree
  <2> SUFFICES ASSUME reqs = <<>>, loaded, ~lost PROVE userList = users
    BY DEF Users!UsersAgree
  <2>1. Knows(userList)
    BY DEF UsersKnown
  <2>2. DOMAIN reqs = {}
    OBVIOUS
  <2>3. \A u \in Users!Users : u \in users <=> u \in userList
    BY <2>1, <2>2 DEF Knows
  <2>4. users \subseteq Users!Users /\ userList \subseteq Users!Users
    BY DEF UsersTyped
  <2> QED
    BY <2>3, <2>4
<1>3. Users!SearchShowsMatches
  BY Zenon DEF Users!SearchShowsMatches, MatchesShown, Blank
<1>4. Users!TabCounts
  BY Zenon DEF Users!TabCounts, AllShown, Blank
<1> QED
  BY <1>1, <1>2, <1>3, <1>4
-----------------------------------------------------------------------------
(* The integrations. *)

IntReq ==
    {r \in [op : {"list", "create", "update", "disconnect"}, name : Services \cup {Blank},
            secret : Keys \cup {Blank, Mask}, number : Nat, done : BOOLEAN, result : Seq(Services)] :
        /\ r.name = Blank <=> r.op = "list"
        /\ r.op = "list" <=> r.number = 0
        /\ r.op = "create" => r.secret # Blank
        /\ \A i, j \in DOMAIN r.result : r.result[i] = r.result[j] => i = j}

IntForm ==
    [secret : Keys \cup {Blank, Mask}, touched : SUBSET {"secret", "other"}, busy : SUBSET {"submit", "disconnect"},
     number : Nat]

IntTyped ==
    /\ broker \in [Services -> Keys \cup {Blank, Mask}]
    /\ list \in Seq(Services) /\ item \subseteq Services /\ drawer \in Services \cup {Blank}
    /\ form \in IntForm /\ opens \in Nat /\ reqs \in Seq(IntReq)
    /\ loaded \in BOOLEAN /\ raced \in BOOLEAN /\ lost \in BOOLEAN

\* A form and its requests have the number of its opening.
Numbered ==
    /\ IF drawer = Blank THEN form = Integration!NoForm ELSE form.number = opens /\ opens > 0
    /\ \A i \in DOMAIN reqs :
          /\ reqs[i].number <= opens
          /\ drawer # Blank /\ reqs[i].number = form.number => reqs[i].name = drawer

\* The mask is in a form only while its item shows as integrated and nothing was
\* typed for the secret, and it is not sent.
MaskApart ==
    ~raced => /\ form.secret = Mask => drawer \in item /\ "secret" \notin form.touched
              /\ \A i \in DOMAIN reqs : reqs[i].secret # Mask
              /\ \A n \in Services : broker[n] # Mask

\* The requests about an integration that the broker has handled.
DoneOn(n) == {i \in DOMAIN reqs : reqs[i].done /\ reqs[i].name = n}

\* An item shows what the broker has, but for requests it has handled.
Agrees(n) ==
    /\ DoneOn(n) = {} => /\ n \in item => n \in Integration!Integrated
                         /\ loaded /\ n \in Integration!Integrated => n \in item
    /\ \A i \in DoneOn(n) : DoneOn(n) = {i} => (n \in Integration!Integrated <=> reqs[i].op # "disconnect")

ItemsKnown ==
    ~raced /\ ~lost =>
        /\ item = Integration!Range(list)
        /\ \A i, j \in DOMAIN list : list[i] = list[j] => i = j
        /\ \A n \in Services : Agrees(n)

IntInv == IntTyped /\ Numbered /\ Integration!LoaderHasRequest /\ MaskApart /\ ItemsKnown

LEMMA IntCount == ASSUME NEW S PROVE Integration!Cardinality(S) = Cardinality(S)
BY DEF Integration!Cardinality, Cardinality

\* The form that is not open, and what the broker has.
LEMMA IntBlank ==
    /\ Integration!NoForm = [secret |-> Blank, touched |-> {}, busy |-> {}, number |-> 0]
    /\ Integration!NoForm \in IntForm /\ Integration!NoForm.number = 0 /\ Integration!NoForm.busy = {}
    /\ Integration!NoForm.secret = Blank /\ Integration!NoForm.secret # Mask
    /\ Integration!Integrated = {n \in Services : broker[n] # Blank}
<1>1. Integration!NoForm = [secret |-> Blank, touched |-> {}, busy |-> {}, number |-> 0]
  BY Zenon DEF Integration!NoForm, Blank
<1>2. Integration!Integrated = {n \in Services : broker[n] # Blank}
  BY Zenon DEF Integration!Integrated, Blank
<1> QED
  BY <1>1, <1>2, BlankApart DEF IntForm

LEMMA IntStart == Integration!Init => IntInv
<1> SUFFICES ASSUME Integration!Init PROVE IntInv
  OBVIOUS
<1> DEFINE q == [op |-> "list", name |-> Blank, secret |-> Blank, number |-> 0, done |-> FALSE, result |-> <<>>]
<1>1. /\ broker \in [Services -> Keys \cup {Blank}] /\ list = <<>> /\ item = {} /\ drawer = Blank
      /\ form = Integration!NoForm /\ reqs = <<q>> /\ opens = 0
      /\ loaded = FALSE /\ raced = FALSE /\ lost = FALSE
  BY DEF Integration!Init, Blank
<1>2. q \in IntReq /\ q.number = 0 /\ ~q.done /\ q.secret = Blank
  <2>1. <<>> \in Seq(Services) /\ DOMAIN <<>> = {}
    OBVIOUS
  <2> QED
    BY <2>1 DEF IntReq
<1> HIDE DEF q
<1>3. reqs \in Seq(IntReq) /\ DOMAIN reqs = {1} /\ reqs[1] = q
  <2>1. ASSUME NEW S, NEW x \in S PROVE <<x>> \in Seq(S) /\ DOMAIN <<x>> = {1} /\ <<x>>[1] = x
    <3>1. <<x>> \in Seq(S) /\ Len(<<x>>) = 1 /\ <<x>>[1] = x
      OBVIOUS
    <3>2. DOMAIN <<x>> = 1..1
      BY <3>1, LenProperties
    <3> QED
      BY <3>1, <3>2
  <2>2. reqs = <<q>> /\ q \in IntReq
    BY <1>1, <1>2
  <2> QED
    BY <2>1, <2>2
<1>4. IntTyped
  <2>1. broker \in [Services -> Keys \cup {Blank, Mask}]
    BY <1>1
  <2>2. list \in Seq(Services) /\ item \subseteq Services
    BY <1>1
  <2>3. opens \in Nat /\ form \in IntForm /\ drawer \in Services \cup {Blank}
    BY <1>1, IntBlank
  <2> QED
    BY <1>1, <1>3, <2>1, <2>2, <2>3 DEF IntTyped
<1>5. Numbered
  BY <1>1, <1>2, <1>3 DEF Numbered
<1>6. Integration!LoaderHasRequest
  BY <1>1, IntBlank DEF Integration!LoaderHasRequest
<1>7. MaskApart
  BY <1>1, <1>2, <1>3, IntBlank, BlankApart, ConsoleAdminAssumption DEF MaskApart
<1>8. ItemsKnown
  <2>1. \A n : DoneOn(n) = {}
    BY <1>2, <1>3 DEF DoneOn
  <2>2. \A n \in Services : Agrees(n)
    BY <1>1, <2>1 DEF Agrees
  <2>3. item = Integration!Range(list) /\ DOMAIN list = {}
    BY <1>1 DEF Integration!Range
  <2> QED
    BY <2>2, <2>3 DEF ItemsKnown
<1> QED
  BY <1>4, <1>5, <1>6, <1>7, <1>8 DEF IntInv

\* A step of the form alone.
LEMMA IntPage ==
    ASSUME IntInv, UNCHANGED <<broker, list, item, reqs, loaded, raced, lost>>, drawer' \in Services \cup {Blank},
           form' \in IntForm, opens' \in Nat, Numbered', Integration!LoaderHasRequest',
           ~raced /\ form'.secret = Mask => drawer' \in item /\ "secret" \notin form'.touched
    PROVE  IntInv'
<1> USE DEF IntInv
<1>1. IntTyped'
  BY DEF IntTyped
<1>2. MaskApart'
  BY DEF MaskApart
<1>3. ASSUME NEW n PROVE DoneOn(n)' = DoneOn(n)
  BY DEF DoneOn
<1>4. ItemsKnown'
  <2>1. Integration!Integrated' = Integration!Integrated /\ Integration!Range(list)' = Integration!Range(list)
    BY DEF Integration!Integrated, Integration!Range
  <2>2. ASSUME NEW n, Agrees(n) PROVE Agrees(n)'
    <3>1. DoneOn(n)' = DoneOn(n)
      BY <1>3
    <3> QED
      BY <2>1, <2>2, <3>1 DEF Agrees
  <2> QED
    BY <2>1, <2>2 DEF ItemsKnown
<1> QED
  BY <1>1, <1>2, <1>4
\* A request is sent.
LEMMA IntSend ==
    ASSUME IntInv, NEW b \in {"submit", "disconnect"}, NEW q \in IntReq, drawer # Blank, q.name = drawer,
           q.number = form.number, ~q.done, q.op = "disconnect" <=> b = "disconnect", ~raced => q.secret # Mask,
           form' = [form EXCEPT !.busy = @ \cup {b}], reqs' = Append(reqs, q),
           UNCHANGED <<broker, list, item, drawer, opens, loaded, raced, lost>>
    PROVE  IntInv'
<1> USE DEF IntInv
<1>1. form \in IntForm /\ opens \in Nat /\ reqs \in Seq(IntReq)
  BY DEF IntTyped
<1>2. /\ form' \in IntForm /\ form'.busy = form.busy \cup {b} /\ form'.number = form.number
      /\ form'.secret = form.secret /\ form'.touched = form.touched
  BY <1>1 DEF IntForm
<1>3. /\ reqs' \in Seq(IntReq)
      /\ \A j \in DOMAIN reqs : j \in DOMAIN reqs' /\ reqs'[j] = reqs[j]
      /\ Len(reqs') \in DOMAIN reqs' /\ reqs'[Len(reqs')] = q
      /\ \A j \in DOMAIN reqs' : \/ j \in DOMAIN reqs /\ reqs'[j] = reqs[j]
                                 \/ j = Len(reqs') /\ j \notin DOMAIN reqs
  BY <1>1, Appended
<1>4. IntTyped'
  BY <1>2, <1>3 DEF IntTyped
<1>5. Numbered'
  <2>1. drawer' # Blank /\ form'.number = opens' /\ opens' > 0 /\ opens' = opens /\ opens \in Nat
    BY <1>1, <1>2 DEF Numbered
  <2>2. ASSUME NEW j \in DOMAIN reqs' PROVE reqs'[j].number <= opens' /\ (reqs'[j].number = form'.number => reqs'[j].name = drawer')
    <3>1. CASE j \in DOMAIN reqs
      BY <1>2, <1>3, <3>1 DEF Numbered
    <3>2. CASE j \notin DOMAIN reqs
      <4>1. reqs'[j] = q
        BY <1>3, <3>2
      <4>2. q.number = opens'
        BY <1>2, <2>1
      <4> QED
        BY <2>1, <4>1, <4>2
    <3> QED
      BY <3>1, <3>2
  <2> QED
    BY <2>1, <2>2 DEF Numbered
<1>6. Integration!LoaderHasRequest'
  <2>1. Integration!Range(reqs)' = Integration!Range(reqs) \cup {q}
    BY <1>3 DEF Integration!Range
  <2>2. ASSUME NEW c \in form.busy
        PROVE  \E x \in Integration!Range(reqs) : x.number = form.number /\ (x.op = "disconnect") = (c = "disconnect")
    BY DEF Integration!LoaderHasRequest
  <2>3. (q.op = "disconnect") = (b = "disconnect")
    OBVIOUS
  <2>4. ASSUME NEW c \in form'.busy
        PROVE  \E x \in Integration!Range(reqs)' : x.number = form'.number /\ (x.op = "disconnect") = (c = "disconnect")
    <3>1. CASE c \in form.busy
      BY <1>2, <2>1, <2>2, <3>1
    <3>2. CASE c = b
      BY <1>2, <2>1, <2>3, <3>2
    <3> QED
      BY <1>2, <2>4, <3>1, <3>2
  <2> QED
    BY <2>4 DEF Integration!LoaderHasRequest
<1>7. MaskApart'
  BY <1>2, <1>3 DEF MaskApart
<1>8. ItemsKnown'
  <2>1. Integration!Integrated' = Integration!Integrated /\ Integration!Range(list)' = Integration!Range(list)
    BY DEF Integration!Integrated, Integration!Range
  <2>2. ASSUME NEW n PROVE DoneOn(n)' = DoneOn(n) /\ \A i \in DoneOn(n) : reqs'[i] = reqs[i]
    BY <1>3 DEF DoneOn
  <2>3. ASSUME NEW n, Agrees(n) PROVE Agrees(n)'
    <3>1. DoneOn(n)' = DoneOn(n) /\ \A i \in DoneOn(n) : reqs'[i] = reqs[i]
      BY <2>2
    <3> QED
      BY <2>1, <2>3, <3>1 DEF Agrees
  <2> QED
    BY <2>1, <2>3 DEF ItemsKnown
<1> QED
  BY <1>4, <1>5, <1>6, <1>7, <1>8

\* The broker handles a request.
LEMMA IntHandled ==
    ASSUME IntInv, NEW i \in DOMAIN reqs, Integration!Handle(i)
    PROVE  IntInv'
<1> USE DEF IntInv
<1> DEFINE L == Integration!SetToSeq(Integration!Integrated)
           q == [reqs[i] EXCEPT !.done = TRUE, !.result = L]
           n == reqs[i].name
<1>1. /\ ~reqs[i].done
      /\ reqs[i].op = "update" => broker[n] # Blank
      /\ broker' = CASE reqs[i].op = "disconnect" -> [broker EXCEPT ![n] = Blank]
                     [] reqs[i].op \in {"create", "update"} /\ reqs[i].secret # Blank -> [broker EXCEPT ![n] = reqs[i].secret]
                     [] OTHER -> broker
      /\ reqs' = [reqs EXCEPT ![i].done = TRUE, ![i].result = L]
      /\ UNCHANGED <<list, item, drawer, form, opens, loaded, raced, lost>>
  BY DEF Integration!Handle, Blank
<1>2. reqs \in Seq(IntReq) /\ reqs[i] \in IntReq /\ broker \in [Services -> Keys \cup {Blank, Mask}]
  <2>1. reqs \in Seq(IntReq)
    BY DEF IntTyped
  <2> QED
    BY <2>1, Elements DEF IntTyped
<1>3. L \in Seq(Services) /\ \A a, b \in DOMAIN L : L[a] = L[b] => a = b
  <2> DEFINE I == Integration!Integrated
  <2>1. I \subseteq Services /\ IsFiniteSet(I)
    <3>1. I \subseteq Services
      BY IntBlank
    <3>2. IsFiniteSet(Services)
      BY ConsoleAdminAssumption
    <3> QED
      BY <3>1, <3>2, FS_Subset
  <2>2. L = Listing(I)
    BY IntCount DEF Integration!SetToSeq, Listing
  <2> HIDE DEF I
  <2>3. /\ Listing(I) \in Seq(I) /\ Len(Listing(I)) = Cardinality(I)
        /\ \A a, b \in 1..Cardinality(I) : Listing(I)[a] = Listing(I)[b] => a = b
    BY <2>1, ListingOf
  <2> HIDE DEF L
  <2>4. L \in Seq(I) /\ DOMAIN L = 1..Cardinality(I)
    BY <2>2, <2>3, LenProperties
  <2>5. L \in Seq(Services)
    <3>1. L \in [1..Len(L) -> I] /\ Len(L) \in Nat
      BY <2>4, LenProperties
    <3>2. L \in [1..Len(L) -> Services]
      BY <2>1, <3>1
    <3> QED
      BY <3>1, <3>2, SeqDef
  <2> QED
    BY <2>2, <2>3, <2>4, <2>5
<1> HIDE DEF L
<1>4. /\ q \in IntReq /\ q.op = reqs[i].op /\ q.name = n /\ q.done /\ q.number = reqs[i].number
      /\ q.secret = reqs[i].secret
  BY <1>2, <1>3 DEF IntReq
<1>5. reqs' = [reqs EXCEPT ![i] = q]
  BY <1>1
<1> HIDE DEF q
<1>6. /\ reqs' \in Seq(IntReq) /\ DOMAIN reqs' = DOMAIN reqs /\ reqs'[i] = q
      /\ \A j \in DOMAIN reqs : j # i => reqs'[j] = reqs[j]
  BY <1>2, <1>4, <1>5, Changed
<1>7. \A j \in DOMAIN reqs : /\ reqs'[j].op = reqs[j].op /\ reqs'[j].name = reqs[j].name
                             /\ reqs'[j].number = reqs[j].number /\ reqs'[j].secret = reqs[j].secret
  BY <1>4, <1>6
<1>8. /\ reqs[i].op # "list" => n \in Services
      /\ reqs[i].op = "list" => broker' = broker
      /\ reqs[i].secret \in Keys \cup {Blank, Mask} /\ reqs[i].op \in {"list", "create", "update", "disconnect"}
  BY <1>1, <1>2 DEF IntReq
<1>9. /\ broker' \in [Services -> Keys \cup {Blank, Mask}]
      /\ \A m \in Services : m # n => broker'[m] = broker[m]
      /\ \A m \in Services : broker'[m] \in {broker[m], Blank, reqs[i].secret}
  BY <1>1, <1>2, <1>8
<1>10. reqs[i].op # "list" => (broker'[n] # Blank <=> reqs[i].op # "disconnect")
  <2>1. reqs[i].op = "create" => reqs[i].secret # Blank
    BY <1>2 DEF IntReq
  <2> HIDE DEF n
  <2> QED
    BY <1>1, <1>2, <1>8, <2>1
<1>11. IntTyped'
  BY <1>1, <1>6, <1>9 DEF IntTyped
<1>12. Numbered'
  BY <1>1, <1>6, <1>7 DEF Numbered
<1>13. Integration!LoaderHasRequest'
  <2> SUFFICES ASSUME NEW c \in form.busy
               PROVE  \E x \in Integration!Range(reqs)' : x.number = form.number /\ (x.op = "disconnect") = (c = "disconnect")
    BY <1>1 DEF Integration!LoaderHasRequest
  <2>1. PICK j \in DOMAIN reqs : reqs[j].number = form.number /\ (reqs[j].op = "disconnect") = (c = "disconnect")
    BY DEF Integration!LoaderHasRequest, Integration!Range
  <2>2. reqs'[j] \in Integration!Range(reqs)'
    BY <1>6 DEF Integration!Range
  <2>3. reqs'[j].number = reqs[j].number /\ reqs'[j].op = reqs[j].op
    BY <1>7
  <2> QED
    BY <2>1, <2>2, <2>3
<1>14. MaskApart'
  <2>1. ~raced => \A m \in Services : broker'[m] # Mask
    <3> SUFFICES ASSUME ~raced, NEW m \in Services PROVE broker'[m] # Mask
      OBVIOUS
    <3>1. broker[m] # Mask /\ reqs[i].secret # Mask
      BY DEF MaskApart
    <3> QED
      BY <1>9, <3>1, BlankApart
  <2> QED
    BY <1>1, <1>6, <1>7, <2>1 DEF MaskApart
<1>15. ItemsKnown'
  <2>1. Integration!Range(list)' = Integration!Range(list)
    BY <1>1 DEF Integration!Range
  <2>2. \A m : m \in Integration!Integrated <=> m \in Services /\ broker[m] # Blank
    BY IntBlank
  <2>3. \A m : m \in Integration!Integrated' <=> m \in Services /\ broker'[m] # Blank
    <3>1. Integration!Integrated' = {m \in Services : broker'[m] # Blank}
      BY Zenon DEF Integration!Integrated, Blank
    <3> QED
      BY <3>1
  <2>4. ASSUME NEW m \in Services, Agrees(m) PROVE Agrees(m)'
    <3>1. CASE m = n
      <4>1. i \in DoneOn(m)' /\ DoneOn(m)' # {}
        BY <1>4, <1>6, <3>1 DEF DoneOn
      <4>2. reqs[i].op # "list"
        BY <1>2, <3>1, BlankApart DEF IntReq
      <4>3. m \in Integration!Integrated' <=> reqs'[i].op # "disconnect"
        BY <1>7, <1>10, <2>3, <3>1, <4>2
      <4>4. \A j \in DoneOn(m)' : DoneOn(m)' = {j} => j = i
        BY <4>1
      <4> QED
        BY <4>1, <4>3, <4>4 DEF Agrees
    <3>2. CASE m # n
      <4>1. DoneOn(m)' = DoneOn(m) /\ \A j \in DoneOn(m) : reqs'[j].op = reqs[j].op
        BY <1>6, <1>7, <3>2 DEF DoneOn
      <4>2. m \in Integration!Integrated' <=> m \in Integration!Integrated
        BY <1>9, <2>2, <2>3, <3>2
      <4>3. item' = item /\ loaded' = loaded
        BY <1>1
      <4> QED
        BY <2>4, <4>1, <4>2, <4>3 DEF Agrees
    <3> QED
      BY <3>1, <3>2
  <2> QED
    BY <1>1, <2>1, <2>4 DEF ItemsKnown
<1> QED
  BY <1>11, <1>12, <1>13, <1>14, <1>15
\* What an answer leaves of the requests the broker has handled.
LEMMA IntAnswered ==
    ASSUME IntInv, NEW i \in DOMAIN reqs, reqs' = Integration!RemoveAt(reqs, i)
    PROVE  /\ reqs[i] \in IntReq /\ reqs' \in Seq(IntReq)
           /\ \A j \in DOMAIN reqs' : \E k \in DOMAIN reqs : k # i /\ reqs'[j] = reqs[k]
           /\ \A k \in DOMAIN reqs : k # i => \E j \in DOMAIN reqs' : reqs'[j] = reqs[k]
           /\ \A m : reqs[i].name # m \/ ~reqs[i].done =>
                 /\ DoneOn(m)' = {} => DoneOn(m) = {}
                 /\ \A j \in DoneOn(m)' : DoneOn(m)' = {j} => \E k \in DoneOn(m) : DoneOn(m) = {k} /\ reqs[k] = reqs'[j]
<1>1. reqs \in Seq(IntReq)
  BY DEF IntInv, IntTyped
<1>2. reqs' = Without(reqs, i)
  BY DEF Integration!RemoveAt, Without
<1>3. /\ reqs' \in Seq(IntReq)
      /\ \A j \in DOMAIN reqs' : \E k \in DOMAIN reqs : k # i /\ reqs'[j] = reqs[k]
      /\ \A k \in DOMAIN reqs : k # i => \E j \in DOMAIN reqs' : reqs'[j] = reqs[k]
  BY <1>1, <1>2, Answered
<1>4. reqs[i] \in IntReq
  BY <1>1, Elements
<1>5. \A k1, k2 \in DOMAIN reqs : k1 # k2 /\ k1 # i /\ k2 # i =>
         \E a, b \in DOMAIN reqs' : a # b /\ reqs'[a] = reqs[k1] /\ reqs'[b] = reqs[k2]
  BY <1>1, <1>2, StayApart
<1>6. ASSUME NEW m, reqs[i].name # m \/ ~reqs[i].done
      PROVE  /\ DoneOn(m)' = {} => DoneOn(m) = {}
             /\ \A j \in DoneOn(m)' : DoneOn(m)' = {j} => \E k \in DoneOn(m) : DoneOn(m) = {k} /\ reqs[k] = reqs'[j]
  <2>1. i \notin DoneOn(m)
    BY <1>6 DEF DoneOn
  <2>2. ASSUME NEW k \in DoneOn(m) PROVE \E j \in DoneOn(m)' : reqs'[j] = reqs[k]
    BY <1>3, <2>1 DEF DoneOn
  <2>3. ASSUME NEW j \in DoneOn(m)', DoneOn(m)' = {j} PROVE \E k \in DoneOn(m) : DoneOn(m) = {k} /\ reqs[k] = reqs'[j]
    <3>1. PICK k \in DOMAIN reqs : k # i /\ reqs'[j] = reqs[k]
      BY <1>3 DEF DoneOn
    <3>2. k \in DoneOn(m)
      BY <3>1 DEF DoneOn
    <3>3. ASSUME NEW l \in DoneOn(m), l # k PROVE FALSE
      <4>1. l \in DOMAIN reqs /\ l # i
        BY <2>1 DEF DoneOn
      <4>2. PICK a \in DOMAIN reqs', b \in DOMAIN reqs' : a # b /\ reqs'[a] = reqs[k] /\ reqs'[b] = reqs[l]
        BY <1>5, <3>1, <3>3, <4>1
      <4>3. a \in DoneOn(m)' /\ b \in DoneOn(m)'
        BY <3>2, <4>2 DEF DoneOn
      <4> QED
        BY <2>3, <4>2, <4>3
    <3> QED
      BY <3>1, <3>2, <3>3
  <2> QED
    BY <2>2, <2>3
<1> QED
  BY <1>3, <1>4, <1>6

\* The numbers and the loaders after an answer: the form is closed, or another's.
LEMMA IntLeave ==
    ASSUME IntInv, NEW i \in DOMAIN reqs, reqs' = Integration!RemoveAt(reqs, i), opens' = opens,
           \/ drawer' = Blank /\ form' = Integration!NoForm
           \/ UNCHANGED <<drawer, form>> /\ reqs[i].name # drawer
    PROVE  /\ drawer' \in Services \cup {Blank} /\ form' \in IntForm /\ Numbered' /\ Integration!LoaderHasRequest'
           /\ \A j \in DOMAIN reqs' : \E k \in DOMAIN reqs : k # i /\ reqs'[j] = reqs[k]
<1> USE DEF IntInv
<1>1. /\ \A j \in DOMAIN reqs' : \E k \in DOMAIN reqs : k # i /\ reqs'[j] = reqs[k]
      /\ \A k \in DOMAIN reqs : k # i => \E j \in DOMAIN reqs' : reqs'[j] = reqs[k]
  BY IntAnswered
<1>2. drawer' \in Services \cup {Blank} /\ form' \in IntForm
  BY IntBlank DEF IntTyped
<1>3. Numbered'
  BY <1>1 DEF Numbered
<1>4. Integration!LoaderHasRequest'
  <2>1. CASE form' = Integration!NoForm
    BY <2>1, IntBlank DEF Integration!LoaderHasRequest
  <2>2. CASE form' # Integration!NoForm
    <3>1. UNCHANGED <<drawer, form>> /\ reqs[i].name # drawer /\ drawer # Blank
      BY <2>2 DEF Numbered
    <3>2. reqs[i].number # form.number
      BY <3>1 DEF Numbered
    <3> SUFFICES ASSUME NEW c \in form.busy
                 PROVE  \E x \in Integration!Range(reqs)' : x.number = form.number /\ (x.op = "disconnect") = (c = "disconnect")
      BY <3>1 DEF Integration!LoaderHasRequest
    <3>3. PICK k \in DOMAIN reqs : reqs[k].number = form.number /\ (reqs[k].op = "disconnect") = (c = "disconnect")
      BY DEF Integration!LoaderHasRequest, Integration!Range
    <3>4. PICK j \in DOMAIN reqs' : reqs'[j] = reqs[k]
      BY <1>1, <3>2, <3>3
    <3>5. reqs'[j] \in Integration!Range(reqs)'
      BY DEF Integration!Range
    <3> QED
      BY <3>3, <3>4, <3>5
  <2> QED
    BY <2>1, <2>2
<1> QED
  BY <1>1, <1>2, <1>3, <1>4

\* An item that is not the one of the answer.
LEMMA IntOthers ==
    ASSUME IntInv, NEW i \in DOMAIN reqs, reqs' = Integration!RemoveAt(reqs, i), UNCHANGED <<broker, loaded>>,
           NEW m \in Services, reqs[i].name # m \/ ~reqs[i].done, m \in item' <=> m \in item, Agrees(m)
    PROVE  Agrees(m)'
<1>1. /\ DoneOn(m)' = {} => DoneOn(m) = {}
      /\ \A j \in DoneOn(m)' : DoneOn(m)' = {j} => \E k \in DoneOn(m) : DoneOn(m) = {k} /\ reqs[k] = reqs'[j]
  BY IntAnswered
<1>2. Integration!Integrated' = Integration!Integrated
  BY DEF Integration!Integrated
<1>3. ASSUME NEW j \in DoneOn(m)', DoneOn(m)' = {j} PROVE m \in Integration!Integrated' <=> reqs'[j].op # "disconnect"
  <2>1. PICK k \in DoneOn(m) : DoneOn(m) = {k} /\ reqs[k] = reqs'[j]
    BY <1>1, <1>3
  <2> QED
    BY <1>2, <2>1 DEF Agrees
<1>4. DoneOn(m)' = {} => /\ m \in item' => m \in Integration!Integrated'
                         /\ loaded' /\ m \in Integration!Integrated' => m \in item'
  BY <1>1, <1>2 DEF Agrees
<1> QED
  BY <1>3, <1>4 DEF Agrees

\* The answer to a form's request, when no other is about the same integration.
LEMMA IntOwn ==
    ASSUME IntInv, NEW i \in DOMAIN reqs, reqs' = Integration!RemoveAt(reqs, i), UNCHANGED <<broker, loaded, lost>>,
           reqs[i].done, reqs[i].op # "list", ~raced, ~lost, ~Integration!Overlap(reqs[i].name),
           reqs[i].name \in item' <=> reqs[i].op # "disconnect",
           \A m \in Services : m # reqs[i].name => (m \in item' <=> m \in item)
    PROVE  \A m \in Services : Agrees(m)'
<1> DEFINE n == reqs[i].name
<1> USE DEF IntInv
<1>1. /\ reqs[i] \in IntReq
      /\ \A j \in DOMAIN reqs' : \E k \in DOMAIN reqs : k # i /\ reqs'[j] = reqs[k]
  BY IntAnswered
<1>2. n \in Services
  BY <1>1 DEF IntReq
<1>3. \A m \in Services : Agrees(m)
  BY DEF ItemsKnown
<1>4. \A k \in DOMAIN reqs : k # i => reqs[k].name # n
  <2> SUFFICES ASSUME NEW k \in DOMAIN reqs, k # i, reqs[k].name = n PROVE FALSE
    OBVIOUS
  <2>1. DOMAIN reqs = 1..Len(reqs) /\ Len(reqs) \in Nat
    <3>1. reqs \in Seq(IntReq)
      BY DEF IntTyped
    <3> QED
      BY <3>1, Elements
  <2>2. k < i \/ i < k
    BY <2>1
  <2> QED
    BY <2>2 DEF Integration!Overlap
<1>5. DoneOn(n) = {i}
  BY <1>4 DEF DoneOn
<1>6. n \in Integration!Integrated <=> reqs[i].op # "disconnect"
  BY <1>2, <1>3, <1>5 DEF Agrees
<1>7. \A j \in DOMAIN reqs' : reqs'[j].name # n
  BY <1>1, <1>4
<1>8. Integration!Integrated' = Integration!Integrated
  BY DEF Integration!Integrated
<1> SUFFICES ASSUME NEW m \in Services PROVE Agrees(m)'
  OBVIOUS
<1>9. CASE m = n
  <2>1. DoneOn(m)' = {}
    BY <1>7, <1>9 DEF DoneOn
  <2>2. m \in item' <=> m \in Integration!Integrated'
    BY <1>6, <1>8, <1>9
  <2> QED
    BY <2>1, <2>2 DEF Agrees
<1>10. CASE m # n
  BY <1>3, <1>10, IntOthers
<1> QED
  BY <1>9, <1>10
\* What the answers to the form's requests have in common.
LEMMA IntReplied ==
    ASSUME IntInv, NEW i \in DOMAIN reqs, reqs' = Integration!RemoveAt(reqs, i), UNCHANGED <<broker, opens, loaded, lost>>,
           reqs[i].done, reqs[i].op # "list", Integration!Close(reqs[i].name),
           list' \in Seq(Services), item' \subseteq Services, raced' \in BOOLEAN,
           ~raced' => /\ ~raced /\ ~Integration!Overlap(reqs[i].name)
                      /\ drawer # reqs[i].name /\ drawer \in item => drawer \in item',
           ~raced' /\ ~lost => /\ item' = Integration!Range(list)'
                               /\ \A a, b \in DOMAIN list' : list'[a] = list'[b] => a = b
                               /\ reqs[i].name \in item' <=> reqs[i].op # "disconnect"
                               /\ \A m \in Services : m # reqs[i].name => (m \in item' <=> m \in item)
    PROVE  IntInv'
<1> USE DEF IntInv
<1>1. \/ drawer' = Blank /\ form' = Integration!NoForm
      \/ UNCHANGED <<drawer, form>> /\ reqs[i].name # drawer
  BY DEF Integration!Close, Blank
<1>2. /\ drawer' \in Services \cup {Blank} /\ form' \in IntForm /\ Numbered' /\ Integration!LoaderHasRequest'
      /\ \A j \in DOMAIN reqs' : \E k \in DOMAIN reqs : k # i /\ reqs'[j] = reqs[k]
  BY <1>1, IntLeave
<1>3. reqs' \in Seq(IntReq)
  BY IntAnswered
<1>4. IntTyped'
  BY <1>2, <1>3 DEF IntTyped
<1>5. MaskApart'
  <2> SUFFICES ASSUME ~raced'
               PROVE  /\ form'.secret = Mask => drawer' \in item' /\ "secret" \notin form'.touched
                      /\ \A j \in DOMAIN reqs' : reqs'[j].secret # Mask
                      /\ \A m \in Services : broker'[m] # Mask
    BY DEF MaskApart
  <2>1. form'.secret = Mask => drawer' \in item' /\ "secret" \notin form'.touched
    BY <1>1, IntBlank DEF MaskApart
  <2> QED
    BY <1>2, <2>1 DEF MaskApart
<1>6. ItemsKnown'
  <2> SUFFICES ASSUME ~raced', ~lost PROVE \A m \in Services : Agrees(m)'
    BY DEF ItemsKnown
  <2> QED
    BY IntOwn
<1> QED
  BY <1>2, <1>4, <1>5, <1>6

\* The answer to "Connect".
LEMMA IntCreated ==
    ASSUME IntInv, NEW i \in DOMAIN reqs, reqs' = Integration!RemoveAt(reqs, i), UNCHANGED <<broker, opens, lost>>,
           reqs[i].done, reqs[i].op = "create", Integration!CreateIntegration(reqs[i])
    PROVE  IntInv'
<1> USE DEF IntInv
<1> DEFINE n == reqs[i].name
<1>1. /\ list' = Append(list, n) /\ item' = (IF list' = <<>> THEN item ELSE Integration!Range(list)') \cup {n}
      /\ raced' = (raced \/ Integration!Overlap(n) \/ n \in Integration!Range(list) \/ (drawer # Blank /\ (drawer \in item) # (drawer \in item')))
      /\ Integration!Close(n) /\ UNCHANGED loaded
  BY DEF Integration!CreateIntegration, Integration!CheckIfUsed, Integration!Range, Blank
<1>2. n \in Services /\ list \in Seq(Services) /\ raced \in BOOLEAN
  <2>1. reqs[i] \in IntReq
    BY IntAnswered
  <2> QED
    BY <2>1 DEF IntReq, IntTyped
<1> HIDE DEF n
<1>3. /\ list' \in Seq(Services) /\ list' # <<>>
      /\ \A j \in DOMAIN list : j \in DOMAIN list' /\ list'[j] = list[j]
      /\ Len(list') \in DOMAIN list' /\ list'[Len(list')] = n
      /\ \A j \in DOMAIN list' : \/ j \in DOMAIN list /\ list'[j] = list[j]
                                 \/ j = Len(list') /\ j \notin DOMAIN list
  BY <1>1, <1>2, Appended
<1>4. Integration!Range(list)' = Integration!Range(list) \cup {n}
  BY <1>3 DEF Integration!Range
<1>5. item' = Integration!Range(list)'
  BY <1>1, <1>3, <1>4
<1>6. Integration!Range(list)' \subseteq Services
  <2>1. \A j \in DOMAIN list' : list'[j] \in Services
    BY <1>3, Elements
  <2> QED
    BY <2>1 DEF Integration!Range
<1>7. ASSUME ~raced' PROVE /\ ~raced /\ ~Integration!Overlap(n) /\ n \notin Integration!Range(list)
                           /\ drawer # n /\ drawer \in item => drawer \in item'
  <2>1. ~raced /\ ~Integration!Overlap(n) /\ n \notin Integration!Range(list) /\ (drawer = Blank \/ (drawer \in item) = (drawer \in item'))
    BY <1>1, <1>7
  <2>2. item \subseteq Services /\ Blank \notin Services
    BY BlankApart DEF IntTyped
  <2> QED
    BY <2>1, <2>2
<1>8. ASSUME ~raced', ~lost
      PROVE  /\ \A a, b \in DOMAIN list' : list'[a] = list'[b] => a = b
             /\ n \in item' /\ \A m \in Services : m # n => (m \in item' <=> m \in item)
  <2>1. item = Integration!Range(list) /\ n \notin Integration!Range(list) /\ \A a, b \in DOMAIN list : list[a] = list[b] => a = b
    BY <1>7, <1>8 DEF ItemsKnown
  <2>2. \A a \in DOMAIN list : list[a] # n
    BY <2>1 DEF Integration!Range
  <2>3. \A a, b \in DOMAIN list' : list'[a] = list'[b] => a = b
    BY <1>3, <2>1, <2>2
  <2> QED
    BY <1>4, <1>5, <2>1, <2>3
<1>9. raced' \in BOOLEAN
  BY <1>1, <1>2
<1> QED
  BY <1>1, <1>3, <1>5, <1>6, <1>7, <1>8, <1>9, IntReplied DEF n

\* The answer to "Update".
LEMMA IntUpdated ==
    ASSUME IntInv, NEW i \in DOMAIN reqs, reqs' = Integration!RemoveAt(reqs, i), UNCHANGED <<broker, opens, lost>>,
           reqs[i].done, reqs[i].op = "update", Integration!UpdateIntegration(reqs[i])
    PROVE  IntInv'
<1> USE DEF IntInv
<1> DEFINE n == reqs[i].name
<1>1. /\ item' = item \cup {n} /\ raced' = (raced \/ Integration!Overlap(n) \/ n \notin Integration!Range(list))
      /\ Integration!Close(n) /\ UNCHANGED <<list, loaded>>
  BY DEF Integration!UpdateIntegration
<1>2. n \in Services /\ list \in Seq(Services) /\ raced \in BOOLEAN /\ item \subseteq Services
  <2>1. reqs[i] \in IntReq
    BY IntAnswered
  <2> QED
    BY <2>1 DEF IntReq, IntTyped
<1> HIDE DEF n
<1>3. Integration!Range(list)' = Integration!Range(list)
  BY <1>1 DEF Integration!Range
<1>4. ASSUME ~raced', ~lost
      PROVE  /\ item' = Integration!Range(list)' /\ \A a, b \in DOMAIN list' : list'[a] = list'[b] => a = b
             /\ n \in item' /\ \A m \in Services : m # n => (m \in item' <=> m \in item)
  <2>1. item = Integration!Range(list) /\ n \in Integration!Range(list) /\ \A a, b \in DOMAIN list : list[a] = list[b] => a = b
    BY <1>1, <1>4 DEF ItemsKnown
  <2> QED
    BY <1>1, <1>3, <2>1
<1>5. ~raced' => ~raced /\ ~Integration!Overlap(n)
  BY <1>1
<1>6. list' \in Seq(Services) /\ item' \subseteq Services /\ raced' \in BOOLEAN
  BY <1>1, <1>2
<1> QED
  BY <1>1, <1>4, <1>5, <1>6, IntReplied DEF n

\* The answer to "Disconnect".
LEMMA IntDisconnected ==
    ASSUME IntInv, NEW i \in DOMAIN reqs, reqs' = Integration!RemoveAt(reqs, i), UNCHANGED <<broker, opens, lost>>,
           reqs[i].done, reqs[i].op = "disconnect", Integration!DisconnectReply(reqs[i])
    PROVE  IntInv'
<1> USE DEF IntInv
<1> DEFINE n == reqs[i].name
<1>1. /\ list' = Integration!RemoveIntegration(n) /\ item' = item \ {n}
      /\ raced' = (raced \/ Integration!Overlap(n) \/ n \notin Integration!Range(list))
      /\ Integration!Close(n) /\ UNCHANGED loaded
  BY DEF Integration!DisconnectReply
<1>2. n \in Services /\ list \in Seq(Services) /\ raced \in BOOLEAN /\ item \subseteq Services
  <2>1. reqs[i] \in IntReq
    BY IntAnswered
  <2> QED
    BY <2>1 DEF IntReq, IntTyped
<1> HIDE DEF n
<1>3. list = <<>> \/ \E k \in DOMAIN list : list' = Without(list, k) /\ (n \in Integration!Range(list) => list[k] = n)
  <2>1. CASE list # <<>> /\ n \in Integration!Range(list)
    <3> DEFINE k == CHOOSE k \in DOMAIN list : list[k] = n
    <3>1. k \in DOMAIN list /\ list[k] = n
      BY <2>1 DEF Integration!Range
    <3>2. list' = Without(list, k)
      BY <1>1, <2>1 DEF Integration!RemoveIntegration, Integration!RemoveAt, Without
    <3> QED
      BY <3>1, <3>2
  <2>2. CASE list # <<>> /\ n \notin Integration!Range(list)
    <3>1. Len(list) \in DOMAIN list
      <4>1. DOMAIN list = 1..Len(list) /\ Len(list) \in Nat /\ Len(list) # 0
        BY <1>2, <2>2, Elements
      <4> QED
        BY <4>1
    <3>2. list' = Without(list, Len(list))
      BY <1>1, <2>2 DEF Integration!RemoveIntegration, Integration!RemoveAt, Without
    <3> QED
      BY <2>2, <3>1, <3>2
  <2> QED
    BY <2>1, <2>2
<1>4. list' \in Seq(Services)
  <2>1. CASE list = <<>>
    BY <1>1, <1>2, <2>1 DEF Integration!RemoveIntegration
  <2>2. CASE list # <<>>
    BY <1>2, <1>3, <2>2, Answered
  <2> QED
    BY <2>1, <2>2
<1>5. ASSUME ~raced', ~lost
      PROVE  item' = Integration!Range(list)' /\ \A a, b \in DOMAIN list' : list'[a] = list'[b] => a = b
  <2>1. item = Integration!Range(list) /\ n \in Integration!Range(list) /\ \A a, b \in DOMAIN list : list[a] = list[b] => a = b
    BY <1>1, <1>5 DEF ItemsKnown
  <2>2. PICK k \in DOMAIN list : list' = Without(list, k) /\ list[k] = n
    <3>1. list # <<>>
      BY <2>1 DEF Integration!Range
    <3> QED
      BY <1>3, <2>1, <3>1
  <2>3. /\ \A j \in DOMAIN list' : \E l \in DOMAIN list : l # k /\ list'[j] = list[l]
        /\ \A l \in DOMAIN list : l # k => \E j \in DOMAIN list' : list'[j] = list[l]
    <3>1. list \in Seq(Services) /\ list' = Without(list, k)
      BY <1>2, <2>2
    <3>2. \A j \in DOMAIN list' : \E l \in DOMAIN list : l # k /\ list'[j] = list[l]
      BY <3>1, Answered
    <3>3. \A l \in DOMAIN list : l # k => \E j \in DOMAIN list' : list'[j] = list[l]
      BY <3>1, Answered
    <3> QED
      BY <3>2, <3>3
  <2>4. \A a, b \in DOMAIN list' : a # b =>
           \E k1, k2 \in DOMAIN list : k1 # k2 /\ k1 # k /\ k2 # k /\ list'[a] = list[k1] /\ list'[b] = list[k2]
    BY <1>2, <2>2, Apart
  <2>5. Integration!Range(list)' = Integration!Range(list) \ {n}
    <3>1. ASSUME NEW j \in DOMAIN list' PROVE list'[j] \in Integration!Range(list) \ {n}
      BY <2>1, <2>2, <2>3 DEF Integration!Range
    <3>2. ASSUME NEW x \in Integration!Range(list) \ {n} PROVE \E j \in DOMAIN list' : list'[j] = x
      BY <2>2, <2>3 DEF Integration!Range
    <3> QED
      BY <3>1, <3>2 DEF Integration!Range
  <2>6. \A a, b \in DOMAIN list' : list'[a] = list'[b] => a = b
    BY <2>1, <2>4
  <2> QED
    BY <1>1, <2>1, <2>5, <2>6
<1>6. /\ ~raced' => ~raced /\ ~Integration!Overlap(n)
      /\ n \notin item' /\ \A m : m # n => (m \in item' <=> m \in item)
  BY <1>1
<1>7. item' \subseteq Services /\ raced' \in BOOLEAN
  BY <1>1, <1>2
<1> QED
  BY <1>1, <1>4, <1>5, <1>6, <1>7, IntReplied DEF n
\* The list comes.
LEMMA IntListed ==
    ASSUME IntInv, NEW i \in DOMAIN reqs, reqs' = Integration!RemoveAt(reqs, i), UNCHANGED <<broker, opens, lost>>,
           reqs[i].done, reqs[i].op = "list", Integration!GetAllIntegration(reqs[i])
    PROVE  IntInv'
<1> USE DEF IntInv
<1> DEFINE l == reqs[i].result
<1>1. /\ list' = l /\ item' = (IF l = <<>> THEN item ELSE Integration!Range(l)) /\ loaded' = TRUE
      /\ raced' = (raced \/ Integration!Range(l) # Integration!Integrated \/ (\E q \in Integration!Range(reqs) : q # reqs[i]) \/ drawer # Blank)
      /\ UNCHANGED <<drawer, form>>
  BY DEF Integration!GetAllIntegration, Integration!CheckIfUsed, Blank
<1>2. reqs[i] \in IntReq /\ reqs' \in Seq(IntReq)
  BY IntAnswered
<1>3. reqs[i].name = Blank /\ l \in Seq(Services) /\ \A a, b \in DOMAIN l : l[a] = l[b] => a = b
  BY <1>2 DEF IntReq
<1>4. \/ drawer' = Blank /\ form' = Integration!NoForm
      \/ UNCHANGED <<drawer, form>> /\ reqs[i].name # drawer
  BY <1>1, <1>3 DEF Numbered
<1>5. /\ drawer' \in Services \cup {Blank} /\ form' \in IntForm /\ Numbered' /\ Integration!LoaderHasRequest'
      /\ \A j \in DOMAIN reqs' : \E k \in DOMAIN reqs : k # i /\ reqs'[j] = reqs[k]
  BY <1>4, IntLeave
<1>6. Integration!Range(l) \subseteq Services
  <2>1. \A j \in DOMAIN l : l[j] \in Services
    BY <1>3, Elements
  <2> QED
    BY <2>1 DEF Integration!Range
<1> HIDE DEF l
<1>7. IntTyped'
  <2>1. raced' \in BOOLEAN
    BY <1>1 DEF IntTyped
  <2>2. item' \subseteq Services
    BY <1>1, <1>6 DEF IntTyped
  <2> QED
    BY <1>1, <1>2, <1>3, <1>5, <2>1, <2>2 DEF IntTyped
<1>8. ~raced' => ~raced /\ Integration!Range(l) = Integration!Integrated /\ drawer = Blank /\ \A k \in DOMAIN reqs : reqs[k] = reqs[i]
  BY <1>1 DEF Integration!Range
<1>9. MaskApart'
  <2> SUFFICES ASSUME ~raced'
               PROVE  /\ form'.secret # Mask
                      /\ \A j \in DOMAIN reqs' : reqs'[j].secret # Mask
                      /\ \A m \in Services : broker'[m] # Mask
    BY DEF MaskApart
  <2>1. form' = Integration!NoForm
    BY <1>1, <1>8 DEF Numbered
  <2> QED
    BY <1>5, <1>8, <2>1, IntBlank DEF MaskApart
<1>10. ItemsKnown'
  <2> SUFFICES ASSUME ~raced', ~lost
               PROVE  /\ item' = Integration!Range(list)'
                      /\ \A a, b \in DOMAIN list' : list'[a] = list'[b] => a = b
                      /\ \A m \in Services : Agrees(m)'
    BY DEF ItemsKnown
  <2>1. \A m \in Services : DoneOn(m) = {}
    BY <1>3, <1>8, BlankApart DEF DoneOn
  <2>2. \A m \in Services : DoneOn(m)' = {}
    BY <1>3, <1>5, <1>8, BlankApart DEF DoneOn
  <2>3. item \subseteq Integration!Integrated
    <3>1. item \subseteq Services
      BY DEF IntTyped
    <3>2. \A m \in Services : Agrees(m)
      BY <1>8 DEF ItemsKnown
    <3> QED
      BY <2>1, <3>1, <3>2 DEF Agrees
  <2>4. l = <<>> => Integration!Range(l) = {}
    BY DEF Integration!Range
  <2>5. item' = Integration!Range(l)
    BY <1>1, <1>8, <2>3, <2>4
  <2>6. Integration!Range(list)' = Integration!Range(l) /\ Integration!Integrated' = Integration!Integrated
    BY <1>1 DEF Integration!Range, Integration!Integrated
  <2>7. ASSUME NEW m \in Services PROVE Agrees(m)'
    <3>1. m \in item' <=> m \in Integration!Integrated'
      BY <1>8, <2>5, <2>6
    <3>2. DoneOn(m)' = {}
      BY <2>2
    <3> QED
      BY <3>1, <3>2 DEF Agrees
  <2> QED
    BY <1>1, <1>3, <2>5, <2>6, <2>7
<1> QED
  BY <1>5, <1>7, <1>9, <1>10

\* A request fails.
LEMMA IntFailed ==
    ASSUME IntInv, NEW i \in DOMAIN reqs, Integration!Fail(i)
    PROVE  IntInv'
<1> USE DEF IntInv
<1> DEFINE b == IF reqs[i].op = "disconnect" THEN "disconnect" ELSE "submit"
<1>1. /\ reqs' = Integration!RemoveAt(reqs, i)
      /\ form' = IF form.number = reqs[i].number THEN [form EXCEPT !.busy = @ \ {b}] ELSE form
      /\ lost' = (lost \/ (reqs[i].done /\ reqs[i].op # "list"))
      /\ UNCHANGED <<broker, list, item, drawer, opens, loaded, raced>>
  BY DEF Integration!Fail
<1>2. b = "disconnect" <=> reqs[i].op = "disconnect"
  OBVIOUS
<1>3. b \in {"submit", "disconnect"}
  OBVIOUS
<1> HIDE DEF b
<1>4. form \in IntForm /\ item \subseteq Services
  BY DEF IntTyped
<1>5. /\ form' \in IntForm /\ form'.number = form.number /\ form'.secret = form.secret /\ form'.touched = form.touched
      /\ form'.busy \subseteq form.busy /\ (form.number = reqs[i].number => b \notin form'.busy)
      /\ form = Integration!NoForm => form' = Integration!NoForm
  <2>1. /\ form' \in IntForm /\ form'.number = form.number /\ form'.secret = form.secret /\ form'.touched = form.touched
        /\ form'.busy = IF form.number = reqs[i].number THEN form.busy \ {b} ELSE form.busy
    BY <1>1, <1>4 DEF IntForm
  <2>2. ASSUME form = Integration!NoForm PROVE form' = Integration!NoForm
    <3>1. form'.number = 0 /\ form'.secret = Blank /\ form'.touched = {} /\ form'.busy = {}
      BY <2>1, <2>2, IntBlank
    <3> QED
      BY <2>1, <3>1, IntBlank DEF IntForm
  <2> QED
    BY <2>1, <2>2
<1>6. /\ reqs[i] \in IntReq /\ reqs' \in Seq(IntReq)
      /\ \A j \in DOMAIN reqs' : \E k \in DOMAIN reqs : k # i /\ reqs'[j] = reqs[k]
      /\ \A k \in DOMAIN reqs : k # i => \E j \in DOMAIN reqs' : reqs'[j] = reqs[k]
  BY <1>1, IntAnswered
<1>7. IntTyped'
  <2>1. lost' \in BOOLEAN
    BY <1>1
  <2> QED
    BY <1>1, <1>5, <1>6, <2>1 DEF IntTyped
<1>8. Numbered'
  BY <1>1, <1>5, <1>6 DEF Numbered
<1>9. Integration!LoaderHasRequest'
  <2> SUFFICES ASSUME NEW c \in form'.busy
               PROVE  \E x \in Integration!Range(reqs)' : x.number = form'.number /\ (x.op = "disconnect") = (c = "disconnect")
    BY DEF Integration!LoaderHasRequest
  <2>1. c \in form.busy /\ c \in {"submit", "disconnect"}
    BY <1>5 DEF IntForm
  <2>2. PICK k \in DOMAIN reqs : reqs[k].number = form.number /\ (reqs[k].op = "disconnect") = (c = "disconnect")
    BY <2>1 DEF Integration!LoaderHasRequest, Integration!Range
  <2>3. k # i
    <3> SUFFICES ASSUME k = i PROVE FALSE
      OBVIOUS
    <3>1. c # b
      BY <1>5, <2>2
    <3>2. reqs[i].op = "disconnect" <=> c = "disconnect"
      BY <2>2
    <3> QED
      BY <1>2, <1>3, <2>1, <3>1, <3>2
  <2>4. PICK j \in DOMAIN reqs' : reqs'[j] = reqs[k]
    BY <1>6, <2>3
  <2>5. reqs'[j] \in Integration!Range(reqs)'
    BY DEF Integration!Range
  <2> QED
    BY <1>5, <2>2, <2>4, <2>5
<1>10. MaskApart'
  BY <1>1, <1>5, <1>6 DEF MaskApart
<1>11. ItemsKnown'
  <2> SUFFICES ASSUME ~raced, ~lost' PROVE /\ item' = Integration!Range(list)'
                                           /\ \A a, c \in DOMAIN list' : list'[a] = list'[c] => a = c
                                           /\ \A m \in Services : Agrees(m)'
    BY <1>1 DEF ItemsKnown
  <2>1. ~lost /\ (~reqs[i].done \/ reqs[i].op = "list")
    BY <1>1
  <2>2. ASSUME NEW m \in Services PROVE Agrees(m)'
    <3>1. reqs[i].name # m \/ ~reqs[i].done
      BY <1>6, <2>1, BlankApart DEF IntReq
    <3>2. Agrees(m)
      BY <2>1 DEF ItemsKnown
    <3> QED
      BY <1>1, <3>1, <3>2, IntOthers
  <2>3. Integration!Range(list)' = Integration!Range(list)
    BY <1>1 DEF Integration!Range
  <2> QED
    BY <1>1, <2>1, <2>2, <2>3 DEF ItemsKnown
<1> QED
  BY <1>7, <1>8, <1>9, <1>10, <1>11
\* Every step of the page.
LEMMA IntStep ==
    ASSUME IntInv, [Integration!Next]_(Integration!vars)
    PROVE  IntInv'
<1>t. /\ form \in IntForm /\ opens \in Nat /\ drawer \in Services \cup {Blank} /\ item \subseteq Services
      /\ reqs \in Seq(IntReq) /\ form.number \in Nat
  BY DEF IntInv, IntTyped, IntForm
<1>n. Numbered /\ Integration!LoaderHasRequest /\ MaskApart
  BY DEF IntInv
<1>1. CASE UNCHANGED Integration!vars
  <2>1. UNCHANGED <<broker, list, item, drawer, form, reqs, opens, loaded, raced, lost>>
    BY <1>1 DEF Integration!vars
  <2>2. Numbered' /\ Integration!LoaderHasRequest'
    BY <1>n, <2>1 DEF Numbered, Integration!LoaderHasRequest, Integration!Range
  <2>3. ~raced /\ form'.secret = Mask => drawer' \in item /\ "secret" \notin form'.touched
    BY <1>n, <2>1 DEF MaskApart
  <2> QED
    BY <1>t, <2>1, <2>2, <2>3, IntPage
<1>2. ASSUME NEW n \in Services, Integration!OpenDrawer(n) PROVE IntInv'
  <2>1. /\ opens' = opens + 1 /\ drawer' = n
        /\ form' = [Integration!NoForm EXCEPT !.secret = IF n \in item THEN Mask ELSE Blank, !.number = opens']
        /\ UNCHANGED <<broker, list, item, reqs, loaded, raced, lost>>
    BY <1>2 DEF Integration!OpenDrawer, Blank
  <2>2. /\ form' \in IntForm /\ form'.number = opens' /\ form'.busy = {} /\ form'.touched = {}
        /\ form'.secret = IF n \in item THEN Mask ELSE Blank
    <3>1. opens' \in Nat
      BY <1>t, <2>1
    <3> QED
      BY <2>1, <3>1, IntBlank DEF IntForm
  <2>3. Numbered'
    <3>1. drawer' # Blank /\ opens' > 0 /\ opens' \in Nat
      BY <1>t, <2>1, BlankApart
    <3>2. ASSUME NEW j \in DOMAIN reqs PROVE reqs[j].number <= opens' /\ reqs[j].number # opens'
      <4>1. reqs[j].number <= opens /\ reqs[j].number \in Nat
        <5>1. reqs[j] \in IntReq
          BY <1>t, Elements
        <5> QED
          BY <1>n, <5>1 DEF Numbered, IntReq
      <4> QED
        BY <1>t, <2>1, <4>1
    <3> QED
      BY <2>1, <2>2, <3>1, <3>2 DEF Numbered
  <2>4. Integration!LoaderHasRequest'
    BY <2>2 DEF Integration!LoaderHasRequest
  <2>5. form'.secret = Mask => drawer' \in item /\ "secret" \notin form'.touched
    BY <2>1, <2>2, BlankApart
  <2> QED
    BY <1>t, <2>1, <2>2, <2>3, <2>4, <2>5, IntPage
<1>3. ASSUME Integration!CloseDrawer PROVE IntInv'
  <2>1. drawer' = Blank /\ form' = Integration!NoForm /\ UNCHANGED <<broker, list, item, reqs, opens, loaded, raced, lost>>
    BY <1>3 DEF Integration!CloseDrawer, Blank
  <2>2. Numbered'
    BY <1>n, <2>1 DEF Numbered
  <2>3. Integration!LoaderHasRequest'
    BY <2>1, IntBlank DEF Integration!LoaderHasRequest
  <2> QED
    BY <1>t, <2>1, <2>2, <2>3, IntBlank, IntPage
<1>4. ASSUME form' \in IntForm, form'.busy = form.busy, form'.number = form.number, drawer # Blank,
             form'.secret = Mask => form.secret = Mask /\ ("secret" \in form'.touched => "secret" \in form.touched),
             UNCHANGED <<broker, list, item, drawer, reqs, opens, loaded, raced, lost>>
      PROVE  IntInv'
  <2>1. Numbered'
    BY <1>n, <1>4 DEF Numbered
  <2>2. Integration!LoaderHasRequest'
    BY <1>n, <1>4 DEF Integration!LoaderHasRequest, Integration!Range
  <2>3. ~raced /\ form'.secret = Mask => drawer' \in item /\ "secret" \notin form'.touched
    BY <1>n, <1>4 DEF MaskApart
  <2> QED
    BY <1>t, <1>4, <2>1, <2>2, <2>3, IntPage
<1>5. ASSUME NEW s \in Keys, Integration!TypeSecret(s) PROVE IntInv'
  <2>1. /\ drawer # Blank /\ form' = [form EXCEPT !.secret = s, !.touched = @ \cup {"secret"}]
        /\ UNCHANGED <<broker, list, item, drawer, reqs, opens, loaded, raced, lost>>
    BY <1>5 DEF Integration!TypeSecret, Blank
  <2>2. form' \in IntForm /\ form'.busy = form.busy /\ form'.number = form.number /\ form'.secret = s
    BY <1>t, <2>1 DEF IntForm
  <2>3. s # Mask
    BY BlankApart
  <2> QED
    BY <1>4, <2>1, <2>2, <2>3
<1>6. ASSUME Integration!TypeOther PROVE IntInv'
  <2>1. /\ drawer # Blank /\ form' = [form EXCEPT !.touched = @ \cup {"other"}]
        /\ UNCHANGED <<broker, list, item, drawer, reqs, opens, loaded, raced, lost>>
    BY <1>6 DEF Integration!TypeOther, Blank
  <2>2. /\ form' \in IntForm /\ form'.busy = form.busy /\ form'.number = form.number /\ form'.secret = form.secret
        /\ "secret" \in form'.touched => "secret" \in form.touched
    BY <1>t, <2>1 DEF IntForm
  <2> QED
    BY <1>4, <2>1, <2>2
<1>7. ASSUME NEW op \in {"create", "update", "disconnect"}, NEW s \in Keys \cup {Blank, Mask}, drawer # Blank,
             op = "create" => s # Blank
      PROVE  LET q == [op |-> op, name |-> drawer, secret |-> s, number |-> form.number, done |-> FALSE, result |-> <<>>]
             IN  q \in IntReq /\ q.name = drawer /\ q.number = form.number /\ ~q.done /\ q.op = op /\ q.secret = s
  <2>1. form.number > 0 /\ drawer \in Services
    BY <1>t, <1>n, <1>7 DEF Numbered
  <2>2. <<>> \in Seq(Services) /\ DOMAIN <<>> = {}
    OBVIOUS
  <2> QED
    BY <1>t, <1>7, <2>1, <2>2 DEF IntReq
<1>8. ASSUME Integration!HandleSubmit PROVE IntInv'
  <2> DEFINE s == IF Integration!WithToken THEN form.secret ELSE Blank
             u == [op |-> "update", name |-> drawer, secret |-> s, number |-> form.number, done |-> FALSE, result |-> <<>>]
             c == [op |-> "create", name |-> drawer, secret |-> form.secret, number |-> form.number, done |-> FALSE, result |-> <<>>]
  <2>1. /\ drawer # Blank /\ form.secret # Blank
        /\ form' = [form EXCEPT !.busy = @ \cup {"submit"}]
        /\ reqs' = Append(reqs, IF drawer \in item THEN u ELSE c)
        /\ UNCHANGED <<broker, list, item, drawer, opens, loaded, raced, lost>>
    BY <1>8 DEF Integration!HandleSubmit, Integration!SubmitEnabled, Integration!Send, Integration!Request, Blank
  <2>2. form.secret \in Keys \cup {Blank, Mask}
    BY <1>t DEF IntForm
  <2>3. s \in Keys \cup {Blank, Mask}
    BY <2>2
  <2>4. ASSUME ~raced, drawer \in item PROVE s # Mask
    BY <1>n, <2>4, BlankApart DEF MaskApart, Integration!WithToken
  <2>5. ASSUME ~raced, drawer \notin item PROVE form.secret # Mask
    BY <1>n, <2>5 DEF MaskApart
  <2> HIDE DEF s
  <2>6. u \in IntReq /\ u.name = drawer /\ u.number = form.number /\ ~u.done /\ u.op = "update" /\ u.secret = s
    BY <1>7, <2>1, <2>3
  <2>7. c \in IntReq /\ c.name = drawer /\ c.number = form.number /\ ~c.done /\ c.op = "create" /\ c.secret = form.secret
    BY <1>7, <2>1, <2>2
  <2> HIDE DEF u, c
  <2>8. CASE drawer \in item
    BY <2>1, <2>4, <2>6, <2>8, IntSend
  <2>9. CASE drawer \notin item
    BY <2>1, <2>5, <2>7, <2>9, IntSend
  <2> QED
    BY <2>8, <2>9
<1>9. ASSUME Integration!Disconnect PROVE IntInv'
  <2> DEFINE q == [op |-> "disconnect", name |-> drawer, secret |-> Blank, number |-> form.number, done |-> FALSE, result |-> <<>>]
  <2>1. /\ drawer \in item /\ form' = [form EXCEPT !.busy = @ \cup {"disconnect"}] /\ reqs' = Append(reqs, q)
        /\ UNCHANGED <<broker, list, item, drawer, opens, loaded, raced, lost>>
    BY <1>9 DEF Integration!Disconnect, Integration!Send, Integration!Request, Blank
  <2>2. drawer # Blank
    BY <1>t, <2>1, BlankApart
  <2>3. q \in IntReq /\ q.name = drawer /\ q.number = form.number /\ ~q.done /\ q.op = "disconnect" /\ q.secret = Blank
    BY <1>7, <2>2
  <2> HIDE DEF q
  <2> QED
    BY <2>1, <2>2, <2>3, BlankApart, IntSend
<1>10. ASSUME NEW i \in DOMAIN reqs, Integration!Handle(i) PROVE IntInv'
  BY <1>10, IntHandled
<1>11. ASSUME NEW i \in DOMAIN reqs, Integration!Reply(i) PROVE IntInv'
  <2>1. /\ reqs[i].done /\ reqs' = Integration!RemoveAt(reqs, i) /\ UNCHANGED <<broker, opens, lost>>
        /\ CASE reqs[i].op = "list"   -> Integration!GetAllIntegration(reqs[i])
             [] reqs[i].op = "create" -> Integration!CreateIntegration(reqs[i])
             [] reqs[i].op = "update" -> Integration!UpdateIntegration(reqs[i])
             [] OTHER                 -> Integration!DisconnectReply(reqs[i])
    BY <1>11 DEF Integration!Reply
  <2>2. reqs[i].op \in {"list", "create", "update", "disconnect"}
    <3>1. reqs[i] \in IntReq
      BY <1>t, Elements
    <3> QED
      BY <3>1 DEF IntReq
  <2>3. CASE reqs[i].op = "list"
    BY <2>1, <2>3, IntListed
  <2>4. CASE reqs[i].op = "create"
    BY <2>1, <2>4, IntCreated
  <2>5. CASE reqs[i].op = "update"
    BY <2>1, <2>5, IntUpdated
  <2>6. CASE reqs[i].op = "disconnect"
    BY <2>1, <2>6, IntDisconnected
  <2> QED
    BY <2>2, <2>3, <2>4, <2>5, <2>6
<1>12. ASSUME NEW i \in DOMAIN reqs, Integration!Fail(i) PROVE IntInv'
  BY <1>12, IntFailed
<1> QED
  BY <1>1, <1>2, <1>3, <1>5, <1>6, <1>8, <1>9, <1>10, <1>11, <1>12 DEF Integration!Next

\* What the page shows.
LEMMA IntShows ==
    IntInv => /\ Integration!TypeOK /\ Integration!ItemsAgree /\ Integration!SecretKept
              /\ Integration!LoaderHasRequest
<1> SUFFICES ASSUME IntInv PROVE Integration!TypeOK /\ Integration!ItemsAgree /\ Integration!SecretKept
  BY DEF IntInv
<1> USE DEF IntInv
<1>1. Integration!TypeOK
  <2>1. Integration!Range(list) \subseteq Services
    <3>1. list \in Seq(Services)
      BY DEF IntTyped
    <3>2. \A j \in DOMAIN list : list[j] \in Services
      BY <3>1, Elements
    <3> QED
      BY <3>2 DEF Integration!Range
  <2>2. /\ broker \in [Services -> Keys \cup {Blank, Mask}] /\ item \subseteq Services /\ drawer \in Services \cup {Blank}
        /\ form.touched \subseteq {"secret", "other"} /\ form.busy \subseteq {"submit", "disconnect"}
        /\ {loaded, raced, lost} \subseteq BOOLEAN
    BY DEF IntTyped, IntForm
  <2> QED
    BY <2>1, <2>2, Zenon DEF Integration!TypeOK, Blank
<1>2. Integration!ItemsAgree
  <2> SUFFICES ASSUME reqs = <<>>, loaded, ~raced, ~lost
               PROVE  Integration!Range(list) = Integration!Integrated /\ item = Integration!Integrated
    BY DEF Integration!ItemsAgree
  <2>1. item = Integration!Range(list) /\ \A n \in Services : Agrees(n)
    BY DEF ItemsKnown
  <2>2. \A n : DoneOn(n) = {}
    <3>1. DOMAIN reqs = {}
      OBVIOUS
    <3> QED
      BY <3>1 DEF DoneOn
  <2>3. item \subseteq Services /\ Integration!Integrated \subseteq Services
    BY IntBlank DEF IntTyped
  <2>4. \A n \in Services : n \in item <=> n \in Integration!Integrated
    BY <2>1, <2>2 DEF Agrees
  <2> QED
    BY <2>1, <2>3, <2>4
<1>3. Integration!SecretKept
  BY DEF MaskApart, Integration!SecretKept
<1> QED
  BY <1>1, <1>2, <1>3
-----------------------------------------------------------------------------
(* The system logs. *)

LogGet == [filter : Filters, from : Int, changed : BOOLEAN, done : BOOLEAN, result : Seq(Nat)]
LogSub == [id : Int, filter : Filters]
LogPush == [sub : LogSub, logs : Seq(Nat)]

\* A log, or none.
LogOrNone(n, m) == n = -1 \/ n \in 1..m

LogTyped ==
    /\ last \in Nat /\ filter \in Filters /\ got \in Nat /\ listens \in Nat
    /\ logs \in Seq(Nat) /\ \A k \in DOMAIN logs : logs[k] \in 1..last
    /\ LogOrNone(seqNum, last) /\ LogOrNone(lastMsgSeq, last) /\ LogOrNone(selected, last)
    /\ changeSelected \in BOOLEAN /\ stopLoad \in BOOLEAN /\ loader \in BOOLEAN /\ changed \in BOOLEAN
    /\ top \in BOOLEAN /\ mixed \in BOOLEAN /\ missed \in BOOLEAN
    /\ gets \in Seq(LogGet) /\ pushes \in Seq(LogPush)
    /\ asking \in Seq(Filters) /\ subs \subseteq LogSub

\* Logs from the newest to the oldest, and all of a filter between them.
Ordered(l) == \A i, j \in DOMAIN l : i < j => l[i] >= l[j]
NoGap(l, f) == l # <<>> => \A n \in l[Len(l)]..l[1] : FilterOf(n) = f => \E k \in DOMAIN l : l[k] = n
AllOf(l, f) == \A k \in DOMAIN l : FilterOf(l[k]) = f

\* A page of the broker: no log stands twice.
PageOf(p, f, m) ==
    /\ \A k \in DOMAIN p : p[k] \in 1..m
    /\ \A i, j \in DOMAIN p : i < j => p[i] > p[j]
    /\ AllOf(p, f) /\ NoGap(p, f)

\* What the broker answers, and what it pushes.
GetSound(g, m) ==
    /\ LogOrNone(g.from, m)
    /\ g.done => /\ PageOf(g.result, g.filter, m)
                 /\ g.from # -1 /\ FilterOf(g.from) = g.filter => g.result # <<>> /\ g.result[1] = g.from
PushSound(q, m) == PageOf(q.logs, q.sub.filter, m) /\ q.logs # <<>>

PagesSound ==
    /\ \A j \in DOMAIN gets : GetSound(gets[j], last)
    /\ \A j \in DOMAIN pushes : PushSound(pushes[j], last)

\* How many logs of the list stand there again.
Again(l) == Len(l) - Cardinality(Log!Range(l))

\* The list, and what the page knows of it.
ListSound ==
    ~mixed /\ ~missed =>
        IF logs = <<>> THEN seqNum = -1 /\ lastMsgSeq = -1 /\ Len(gets) <= got
        ELSE /\ seqNum = logs[Len(logs)] /\ lastMsgSeq = logs[1] /\ (changeSelected => selected = logs[1])
             /\ Ordered(logs) /\ AllOf(logs, FilterOf(logs[1])) /\ NoGap(logs, FilterOf(logs[1]))
             /\ Again(logs) + Len(gets) < got

\* A list of another filter than the page's waits for its page.
ListComes ==
    ~mixed /\ ~missed /\ ~changed /\ logs # <<>> /\ FilterOf(logs[1]) # filter =>
        loader /\ \E j \in DOMAIN gets : gets[j].changed

\* A page is asked for from a log of its filter.
AskedFrom ==
    ~mixed /\ ~missed =>
        \A j \in DOMAIN gets : ~gets[j].changed => gets[j].from = -1 \/ FilterOf(gets[j].from) = gets[j].filter

LogInv == LogTyped /\ PagesSound /\ Log!OnlyOfFilter /\ ListSound /\ ListComes /\ AskedFrom

LEMMA LogCount == ASSUME NEW S PROVE Log!Cardinality(S) = Cardinality(S)
BY DEF Log!Cardinality, Cardinality

\* The place of a number, from the greatest down.
Down(P, i) == Log!Cardinality({j \in P : j >= i})

\* The places of a finite set of numbers are counted without a gap.
LEMMA DownRanks ==
    ASSUME NEW P \in SUBSET Nat, IsFiniteSet(P)
    PROVE  /\ \A i \in P : Down(P, i) \in 1..Cardinality(P)
           /\ \A i, j \in P : i < j => Down(P, i) > Down(P, j)
           /\ \A k \in 1..Cardinality(P) : \E i \in P : Down(P, i) = k
<1> DEFINE B(i) == {j \in P : j >= i}
<1>0. Cardinality(P) \in Nat
  BY FS_CardinalityType
<1>1. ASSUME NEW i \in P
      PROVE  /\ IsFiniteSet(B(i)) /\ Cardinality(B(i)) \in Nat
             /\ Cardinality(B(i)) <= Cardinality(P) /\ Cardinality(B(i)) # 0
  <2>1. B(i) \in SUBSET P /\ i \in B(i)
    OBVIOUS
  <2> HIDE DEF B
  <2>2. IsFiniteSet(B(i)) /\ Cardinality(B(i)) <= Cardinality(P)
    BY <2>1, FS_Subset
  <2> QED
    BY <2>1, <2>2, FS_CardinalityType, FS_EmptySet
<1>2. \A i \in P : Down(P, i) = Cardinality(B(i))
  BY LogCount DEF Down
<1>3. \A i \in P : Down(P, i) \in 1..Cardinality(P)
  <2> HIDE DEF B
  <2> QED
    BY <1>0, <1>1, <1>2
<1>4. ASSUME NEW i \in P, NEW j \in P, i < j PROVE Down(P, i) > Down(P, j)
  <2>0. i \in Nat /\ j \in Nat /\ \A k \in P : k \in Nat
    OBVIOUS
  <2>a. \A k \in P : k >= j => k >= i
    BY <1>4, <2>0
  <2>b. i >= i /\ ~(i >= j)
    BY <1>4, <2>0
  <2>1. B(j) \in SUBSET B(i) /\ i \in B(i) /\ i \notin B(j)
    BY <2>a, <2>b
  <2> HIDE DEF B
  <2>2. Cardinality(B(j)) <= Cardinality(B(i)) /\ Cardinality(B(j)) # Cardinality(B(i))
    BY <1>1, <2>1, FS_Subset
  <2>3. Cardinality(B(i)) > Cardinality(B(j))
    BY <1>1, <2>2
  <2> QED
    BY <1>2, <2>3
<1>5. \A i, j \in P : Down(P, i) = Down(P, j) => i = j
  <2> SUFFICES ASSUME NEW i \in P, NEW j \in P, Down(P, i) = Down(P, j), i # j PROVE FALSE
    OBVIOUS
  <2>1. i < j \/ j < i
    OBVIOUS
  <2>2. Down(P, i) \in Nat
    BY <1>3
  <2> QED
    BY <1>4, <2>1, <2>2
<1>6. \A k \in 1..Cardinality(P) : \E i \in P : Down(P, i) = k
  <2> DEFINE f == [i \in P |-> Down(P, i)]
  <2>1. f \in Injection(P, 1..Cardinality(P))
    BY <1>3, <1>5 DEF Injection, IsInjective
  <2>2. IsFiniteSet(1..Cardinality(P)) /\ Cardinality(1..Cardinality(P)) = Cardinality(P)
    BY <1>0, FS_Interval
  <2> HIDE DEF f
  <2>3. f \in Surjection(P, 1..Cardinality(P))
    BY <2>1, <2>2, FS_Injection
  <2> QED
    BY <2>3 DEF Surjection, f
<1> QED
  BY <1>3, <1>4, <1>6

\* What the broker answers.
LEMMA PageSound ==
    ASSUME last \in Nat, NEW f \in Filters, NEW from, LogOrNone(from, last)
    PROVE  /\ Log!Page(f, from) \in Seq(Nat) /\ PageOf(Log!Page(f, from), f, last)
           /\ from # -1 /\ FilterOf(from) = f => Log!Page(f, from) # <<>> /\ Log!Page(f, from)[1] = from
<1> DEFINE P == {n \in 1..last : FilterOf(n) = f /\ (from = -1 \/ n <= from)}
           c == Cardinality(P)
           size == IF c < PageSize THEN c ELSE PageSize
           at(k) == CHOOSE n \in P : Down(P, n) = k
           p == Log!Page(f, from)
<1>1. p = [k \in 1..size |-> at(k)]
  BY LogCount DEF Log!Page, Down
<1>2. P \in SUBSET Nat /\ IsFiniteSet(P)
  <2>1. P \in SUBSET (1..last) /\ IsFiniteSet(1..last)
    BY FS_Interval
  <2> QED
    BY <2>1, FS_Subset
<1>3. \A n \in P : n \in 1..last /\ FilterOf(n) = f /\ (from = -1 \/ n <= from)
  OBVIOUS
<1>4. \A n \in 1..last : FilterOf(n) = f /\ (from = -1 \/ n <= from) => n \in P
  OBVIOUS
<1> HIDE DEF P
<1>5. /\ \A i \in P : Down(P, i) \in 1..c
      /\ \A i, j \in P : i < j => Down(P, i) > Down(P, j)
      /\ \A k \in 1..c : \E i \in P : Down(P, i) = k
  BY <1>2, DownRanks
<1>6. c \in Nat /\ size \in Nat /\ size <= c /\ (c > 0 => size > 0)
  <2>1. c \in Nat
    BY <1>2, FS_CardinalityType
  <2>2. PageSize \in Nat /\ PageSize > 0
    BY Bounds, ConsoleAdminAssumption, Zenon
  <2> HIDE DEF c
  <2> QED
    BY <2>1, <2>2
<1> HIDE DEF c, size, p
<1>7. \A k \in 1..size : at(k) \in P /\ Down(P, at(k)) = k
  <2> SUFFICES ASSUME NEW k \in 1..size PROVE \E n \in P : Down(P, n) = k
    OBVIOUS
  <2>1. k \in 1..c
    BY <1>6
  <2> QED
    BY <1>5, <2>1
<1> HIDE DEF at
<1>8. DOMAIN p = 1..size /\ \A k \in 1..size : p[k] \in P /\ Down(P, p[k]) = k
  BY <1>1, <1>7
<1>9. p \in Seq(Nat) /\ Len(p) = size
  <2>1. p \in [1..size -> Nat]
    BY <1>1, <1>2, <1>7
  <2> QED
    BY <1>6, <2>1, SeqDef, LenProperties
<1>10. \A i, j \in P : Down(P, i) < Down(P, j) => i > j
  <2> SUFFICES ASSUME NEW i \in P, NEW j \in P, Down(P, i) < Down(P, j), ~(i > j) PROVE FALSE
    OBVIOUS
  <2>1. i \in Nat /\ j \in Nat /\ Down(P, i) \in Nat /\ Down(P, j) \in Nat
    BY <1>2, <1>5
  <2>2. i < j \/ i = j
    BY <2>1
  <2>3. i = j => FALSE
    BY <2>1
  <2>4. i < j => FALSE
    BY <1>5, <2>1
  <2> QED
    BY <2>2, <2>3, <2>4
<1>11. \A i, j \in DOMAIN p : i < j => p[i] > p[j]
  BY <1>8, <1>10
<1>12. (\A k \in DOMAIN p : p[k] \in 1..last) /\ AllOf(p, f)
  BY <1>3, <1>8 DEF AllOf
<1>13. \A i, j \in P : Down(P, i) = Down(P, j) => i = j
  <2> SUFFICES ASSUME NEW i \in P, NEW j \in P, Down(P, i) = Down(P, j), i # j PROVE FALSE
    OBVIOUS
  <2>1. i < j \/ j < i
    BY <1>2
  <2>2. Down(P, i) \in Nat
    BY <1>5
  <2> QED
    BY <1>5, <2>1, <2>2
<1>14. NoGap(p, f)
  <2> SUFFICES ASSUME p # <<>>, NEW n \in p[Len(p)]..p[1], FilterOf(n) = f PROVE \E k \in DOMAIN p : p[k] = n
    BY DEF NoGap
  <2>1. size > 0
    <3>1. Len(p) # 0
      BY <1>9, Elements
    <3> QED
      BY <1>6, <1>9, <3>1
  <2>2. p[1] \in P /\ p[size] \in P /\ Len(p) = size /\ Down(P, p[size]) = size
    BY <1>6, <1>8, <1>9, <2>1
  <2>3. n \in 1..last /\ (from = -1 \/ n <= from) /\ n >= p[size] /\ n \in Nat
    <3>1. p[1] \in 1..last /\ p[size] \in 1..last /\ (from = -1 \/ p[1] <= from)
      BY <1>3, <2>2
    <3>2. from = -1 \/ from \in 1..last
      BY DEF LogOrNone
    <3> QED
      BY <2>2, <3>1, <3>2
  <2>4. n \in P
    BY <1>4, <2>3
  <2>5. Down(P, n) \in 1..c
    BY <1>5, <2>4
  <2>6. Down(P, n) <= size
    <3>1. CASE n = p[size]
      BY <1>6, <2>2, <3>1
    <3> DEFINE z == p[size]
    <3>2. z \in P /\ z \in Nat /\ n >= z /\ Down(P, z) = size
      BY <1>2, <2>2, <2>3
    <3> HIDE DEF z
    <3>3. CASE z < n
      <4>1. Down(P, z) > Down(P, n)
        BY <1>5, <2>4, <3>2, <3>3
      <4> QED
        BY <1>6, <2>5, <3>2, <4>1
    <3>4. z = n \/ z < n
      BY <2>3, <3>2
    <3> QED
      BY <3>1, <3>3, <3>4 DEF z
  <2>7. Down(P, n) \in 1..size
    BY <1>6, <2>5, <2>6
  <2> QED
    BY <1>8, <1>13, <2>4, <2>7
<1>15. ASSUME from # -1, FilterOf(from) = f PROVE p # <<>> /\ p[1] = from
  <2>1. from \in 1..last
    BY <1>15 DEF LogOrNone
  <2>2. from \in P
    BY <1>4, <1>15, <2>1
  <2>3. {m \in P : m >= from} = {from}
    <3>1. ASSUME NEW m \in P, m >= from PROVE m = from
      <4>1. m <= from /\ m \in Nat
        BY <1>2, <1>3, <1>15
      <4> QED
        BY <2>1, <3>1, <4>1
    <3>2. from >= from
      BY <2>1
    <3> QED
      BY <2>2, <3>1, <3>2
  <2>4. Down(P, from) = 1
    BY <2>3, LogCount, FS_Singleton DEF Down
  <2>5. c > 0 /\ size > 0 /\ 1 \in 1..size
    <3>1. 1 \in 1..c
      BY <1>5, <2>2, <2>4
    <3>2. c > 0
      BY <1>6, <3>1
    <3> QED
      BY <1>6, <3>2
  <2>6. p[1] = from
    BY <1>8, <1>13, <2>2, <2>4, <2>5
  <2>7. p # <<>>
    BY <1>9, <2>5, Elements
  <2> QED
    BY <2>6, <2>7
<1> QED
  BY <1>9, <1>11, <1>12, <1>14, <1>15 DEF PageOf, p
\* A list in which nothing stands twice has as many logs as places.
LEMMA EachOnce ==
    ASSUME NEW p \in Seq(Nat), \A i, j \in DOMAIN p : i < j => p[i] > p[j]
    PROVE  IsFiniteSet(Log!Range(p)) /\ Cardinality(Log!Range(p)) = Len(p) /\ Again(p) = 0
<1> DEFINE T == Log!Range(p)
<1>1. Len(p) \in Nat /\ DOMAIN p = 1..Len(p) /\ \A i \in DOMAIN p : p[i] \in Nat
  BY Elements
<1>2. \A i, j \in DOMAIN p : p[i] = p[j] => i = j
  <2> SUFFICES ASSUME NEW i \in DOMAIN p, NEW j \in DOMAIN p, p[i] = p[j], i # j PROVE FALSE
    OBVIOUS
  <2>1. i < j \/ j < i
    BY <1>1
  <2>2. p[i] \in Nat
    BY <1>1
  <2> QED
    BY <2>1, <2>2
<1>3. p \in [1..Len(p) -> T] /\ \A x \in T : \E i \in 1..Len(p) : p[i] = x
  <2>1. p = [i \in 1..Len(p) |-> p[i]]
    BY <1>1
  <2> QED
    BY <1>1, <2>1 DEF Log!Range
<1> HIDE DEF T
<1>4. p \in Surjection(1..Len(p), T) /\ p \in Injection(1..Len(p), T)
  BY <1>1, <1>2, <1>3 DEF Surjection, Injection, IsInjective
<1>5. IsFiniteSet(1..Len(p)) /\ Cardinality(1..Len(p)) = Len(p)
  <2> SUFFICES ASSUME NEW n \in Nat PROVE IsFiniteSet(1..n) /\ Cardinality(1..n) = n
    BY <1>1
  <2> QED
    BY FS_Interval
<1>6. IsFiniteSet(T) /\ Cardinality(T) = Cardinality(1..Len(p))
  BY <1>4, <1>5, FS_Surjection
<1> QED
  BY <1>1, <1>5, <1>6 DEF Again, T

\* A list has finitely many logs.
LEMMA LogsFinite ==
    ASSUME NEW l \in Seq(Nat)
    PROVE  IsFiniteSet(Log!Range(l)) /\ Cardinality(Log!Range(l)) \in Nat /\ Again(l) \in Nat
<1> DEFINE T == Log!Range(l)
<1>1. Len(l) \in Nat /\ DOMAIN l = 1..Len(l)
  BY Elements
<1>2. l \in [1..Len(l) -> T] /\ \A x \in T : \E i \in 1..Len(l) : l[i] = x
  <2>1. l = [i \in 1..Len(l) |-> l[i]]
    BY <1>1
  <2> QED
    BY <1>1, <2>1 DEF Log!Range
<1> HIDE DEF T
<1>3. l \in Surjection(1..Len(l), T)
  BY <1>2 DEF Surjection
<1>4. IsFiniteSet(1..Len(l)) /\ Cardinality(1..Len(l)) = Len(l)
  <2> SUFFICES ASSUME NEW n \in Nat PROVE IsFiniteSet(1..n) /\ Cardinality(1..n) = n
    BY <1>1
  <2> QED
    BY FS_Interval
<1>5. IsFiniteSet(T) /\ Cardinality(T) <= Cardinality(1..Len(l))
  BY <1>3, <1>4, FS_Surjection
<1>6. Cardinality(T) \in Nat /\ Cardinality(T) <= Len(l)
  BY <1>4, <1>5, FS_CardinalityType
<1> QED
  BY <1>1, <1>5, <1>6 DEF Again, T

\* The logs of two lists, one after the other.
LEMMA LogsOfBoth ==
    ASSUME NEW s \in Seq(Nat), NEW u \in Seq(Nat)
    PROVE  /\ Log!Range(s \o u) = Log!Range(s) \cup Log!Range(u)
           /\ Again(s \o u) = Again(s) + Again(u) + Cardinality(Log!Range(s) \cap Log!Range(u))
<1> DEFINE c == s \o u
           A == Log!Range(s)
           B == Log!Range(u)
<1>1. /\ c \in Seq(Nat) /\ Len(c) = Len(s) + Len(u) /\ DOMAIN c = 1..Len(s) + Len(u)
      /\ Len(s) \in Nat /\ Len(u) \in Nat
      /\ \A i \in 1..Len(s) : i \in DOMAIN c /\ c[i] = s[i]
      /\ \A i \in 1..Len(u) : Len(s) + i \in DOMAIN c /\ c[Len(s) + i] = u[i]
      /\ \A k \in DOMAIN c : \/ k \in 1..Len(s)
                             \/ \E i \in 1..Len(u) : k = Len(s) + i
  BY OneAfterOther
<1>2. DOMAIN s = 1..Len(s) /\ DOMAIN u = 1..Len(u)
  BY Elements
<1> HIDE DEF c
<1>3. Log!Range(c) = A \cup B
  <2>1. ASSUME NEW x \in Log!Range(c) PROVE x \in A \cup B
    <3>1. PICK k \in DOMAIN c : c[k] = x
      BY DEF Log!Range
    <3>2. CASE k \in 1..Len(s)
      BY <1>1, <1>2, <3>1, <3>2 DEF Log!Range
    <3>3. CASE \E i \in 1..Len(u) : k = Len(s) + i
      BY <1>1, <1>2, <3>1, <3>3 DEF Log!Range
    <3> QED
      BY <1>1, <3>2, <3>3
  <2>2. ASSUME NEW x \in A PROVE x \in Log!Range(c)
    BY <1>1, <1>2 DEF Log!Range
  <2>3. ASSUME NEW x \in B PROVE x \in Log!Range(c)
    <3>1. PICK i \in DOMAIN u : u[i] = x
      BY DEF Log!Range
    <3>2. Len(s) + i \in DOMAIN c /\ c[Len(s) + i] = u[i]
      BY <1>1, <1>2
    <3> QED
      BY <3>1, <3>2 DEF Log!Range
  <2> QED
    BY <2>1, <2>2, <2>3
<1>4. IsFiniteSet(A) /\ IsFiniteSet(B) /\ Cardinality(A) \in Nat /\ Cardinality(B) \in Nat
  BY LogsFinite
<1> HIDE DEF A, B
<1>5. /\ Cardinality(A \cup B) = Cardinality(A) + Cardinality(B) - Cardinality(A \cap B)
      /\ IsFiniteSet(A \cap B) /\ Cardinality(A \cap B) \in Nat
  <2>1. IsFiniteSet(A \cap B)
    BY <1>4, FS_Intersection
  <2> QED
    BY <1>4, <2>1, FS_Union, FS_CardinalityType
<1>6. Len(c) - Cardinality(Log!Range(c)) = (Len(s) - Cardinality(A)) + (Len(u) - Cardinality(B)) + Cardinality(A \cap B)
  BY <1>1, <1>3, <1>4, <1>5
<1> QED
  BY <1>3, <1>6 DEF Again, A, B, c

\* A page that begins with the last log of the list.
LEMMA MoreLogs ==
    ASSUME NEW l \in Seq(Nat), NEW p \in Seq(Nat), NEW f, l # <<>>, p # <<>>, p[1] = l[Len(l)],
           Ordered(l), AllOf(l, f), NoGap(l, f), PageOf(p, f, last)
    PROVE  /\ l \o p \in Seq(Nat) /\ l \o p # <<>>
           /\ (l \o p)[1] = l[1] /\ (l \o p)[Len(l \o p)] = p[Len(p)]
           /\ Ordered(l \o p) /\ AllOf(l \o p, f) /\ NoGap(l \o p, f)
           /\ Again(l \o p) = Again(l) + 1
<1> DEFINE c == l \o p
           a == Len(l)
           b == Len(p)
<1>1. /\ c \in Seq(Nat) /\ Len(c) = a + b /\ DOMAIN c = 1..a + b /\ a \in Nat /\ b \in Nat
      /\ \A i \in 1..a : i \in DOMAIN c /\ c[i] = l[i]
      /\ \A i \in 1..b : a + i \in DOMAIN c /\ c[a + i] = p[i]
      /\ \A k \in DOMAIN c : k \in 1..a \/ \E i \in 1..b : k = a + i
  BY OneAfterOther
<1>2. /\ DOMAIN l = 1..a /\ a # 0 /\ \A i \in 1..a : l[i] \in Nat
      /\ DOMAIN p = 1..b /\ b # 0 /\ \A i \in 1..b : p[i] \in Nat
  BY Elements
<1>0. p[1] = l[a]
  OBVIOUS
<1> HIDE DEF a, b, c
<1>3. \A i \in 1..a : l[i] >= p[1]
  <2> SUFFICES ASSUME NEW i \in 1..a PROVE l[i] >= l[a]
    BY <1>0
  <2>1. a \in 1..a /\ (i < a \/ i = a)
    BY <1>1, <1>2
  <2>2. i < a => l[i] >= l[a]
    BY <1>2, <2>1 DEF Ordered
  <2>3. l[a] >= l[a]
    BY <1>2, <2>1
  <2> QED
    BY <2>1, <2>2, <2>3
<1>4. \A i \in 1..b : p[1] >= p[i] /\ (i # 1 => p[1] > p[i])
  <2> SUFFICES ASSUME NEW i \in 1..b PROVE p[1] >= p[i] /\ (i # 1 => p[1] > p[i])
    OBVIOUS
  <2>1. 1 \in 1..b /\ (1 < i \/ i = 1)
    BY <1>1, <1>2
  <2>2. 1 < i => p[1] > p[i]
    BY <1>2, <2>1 DEF PageOf
  <2>3. p[1] \in Nat /\ p[i] \in Nat
    BY <1>2, <2>1
  <2> QED
    BY <2>1, <2>2, <2>3
<1>5. c[1] = l[1] /\ c[Len(c)] = p[b] /\ c # <<>>
  <2>1. 1 \in 1..a /\ b \in 1..b
    BY <1>1, <1>2
  <2>2. c # <<>>
    BY <1>1, <2>1, Elements
  <2> QED
    BY <1>1, <2>1, <2>2
<1>6. Ordered(c)
  <2> SUFFICES ASSUME NEW i \in DOMAIN c, NEW j \in DOMAIN c, i < j PROVE c[i] >= c[j]
    BY DEF Ordered
  <2>1. CASE i \in 1..a /\ j \in 1..a
    BY <1>1, <1>2, <2>1 DEF Ordered
  <2>2. CASE i \in 1..a /\ \E k \in 1..b : j = a + k
    <3>1. PICK k \in 1..b : j = a + k
      BY <2>2
    <3>2. c[i] = l[i] /\ c[j] = p[k] /\ l[i] >= p[1] /\ p[1] >= p[k] /\ l[i] \in Nat /\ p[1] \in Nat /\ p[k] \in Nat
      <4>1. 1 \in 1..b
        BY <1>1, <1>2
      <4> QED
        BY <1>1, <1>2, <1>3, <1>4, <2>2, <3>1, <4>1
    <3> QED
      BY <3>2
  <2>3. CASE (\E k \in 1..b : i = a + k) /\ (\E k \in 1..b : j = a + k)
    <3>1. PICK k \in 1..b, m \in 1..b : i = a + k /\ j = a + m
      BY <2>3
    <3>2. k < m
      BY <1>1, <3>1
    <3>3. p[k] > p[m] /\ p[k] \in Nat /\ p[m] \in Nat
      BY <1>2, <3>2 DEF PageOf
    <3>4. c[i] = p[k] /\ c[j] = p[m]
      BY <1>1, <3>1
    <3> DEFINE x == p[k]
               y == p[m]
    <3>5. x > y /\ x \in Nat /\ y \in Nat
      BY <3>3
    <3> HIDE DEF x, y
    <3>6. x >= y
      BY <3>5
    <3> QED
      BY <3>4, <3>6 DEF x, y
  <2>4. CASE (\E k \in 1..b : i = a + k) /\ j \in 1..a
    BY <1>1, <2>4
  <2> QED
    BY <1>1, <2>1, <2>2, <2>3, <2>4
<1>7. AllOf(c, f)
  <2> SUFFICES ASSUME NEW k \in DOMAIN c PROVE FilterOf(c[k]) = f
    BY DEF AllOf
  <2>1. CASE k \in 1..a
    BY <1>1, <1>2, <2>1 DEF AllOf
  <2>2. CASE \E i \in 1..b : k = a + i
    <3>1. PICK i \in 1..b : k = a + i
      BY <2>2
    <3>2. c[k] = p[i] /\ i \in DOMAIN p
      BY <1>1, <1>2, <3>1
    <3> QED
      BY <3>2 DEF AllOf, PageOf
  <2> QED
    BY <1>1, <2>1, <2>2
<1>8. NoGap(c, f)
  <2> SUFFICES ASSUME NEW n \in p[b]..l[1], FilterOf(n) = f PROVE \E k \in DOMAIN c : c[k] = n
    BY <1>5 DEF NoGap
  <2>0. 1 \in 1..a /\ a \in 1..a /\ 1 \in 1..b /\ b \in 1..b
    BY <1>1, <1>2
  <2>1. n \in Int /\ l[1] \in Nat /\ p[1] \in Nat /\ p[b] \in Nat
    BY <1>2, <2>0
  <2>2. CASE n >= p[1]
    <3>1. n \in l[a]..l[1]
      BY <2>1, <2>2 DEF a
    <3>2. \E k \in DOMAIN l : l[k] = n
      BY <3>1 DEF NoGap, a
    <3> QED
      BY <1>1, <1>2, <3>2
  <2>3. CASE n < p[1]
    <3>1. n \in p[b]..p[1]
      BY <2>1, <2>3
    <3>2. \E k \in DOMAIN p : p[k] = n
      BY <3>1 DEF NoGap, PageOf, b
    <3> QED
      BY <1>1, <1>2, <3>2
  <2> QED
    BY <2>1, <2>2, <2>3
<1>9. Again(c) = Again(l) + 1
  <2>1. Log!Range(l) \cap Log!Range(p) = {p[1]}
    <3>0. 1 \in 1..b /\ a \in 1..a
      BY <1>1, <1>2
    <3>1. p[1] \in Log!Range(p) /\ p[1] \in Log!Range(l)
      BY <1>2, <3>0 DEF Log!Range, a
    <3>2. ASSUME NEW x \in Log!Range(l), x \in Log!Range(p) PROVE x = p[1]
      <4>1. PICK i \in 1..a, j \in 1..b : x = l[i] /\ x = p[j]
        BY <1>2, <3>2 DEF Log!Range
      <4>2. x >= p[1] /\ p[1] >= x /\ x \in Nat /\ p[1] \in Nat
        BY <1>2, <1>3, <1>4, <3>0, <4>1
      <4> QED
        BY <4>2
    <3> QED
      BY <3>1, <3>2
  <2>2. Cardinality({p[1]}) = 1
    BY FS_Singleton
  <2>3. Again(p) = 0
    BY EachOnce DEF PageOf
  <2>4. Again(l) \in Int
    BY LogsFinite
  <2>5. Again(c) = Again(l) + Again(p) + Cardinality(Log!Range(l) \cap Log!Range(p))
    BY LogsOfBoth DEF c
  <2> DEFINE x == Again(l)
             y == Again(p)
             z == Cardinality(Log!Range(l) \cap Log!Range(p))
  <2>6. x \in Int /\ y = 0 /\ z = 1 /\ Again(c) = x + y + z
    BY <2>1, <2>2, <2>3, <2>4, <2>5
  <2> HIDE DEF x, y, z
  <2>7. Again(c) = x + 1
    BY <2>6
  <2> QED
    BY <2>7 DEF x
<1> QED
  BY <1>1, <1>5, <1>6, <1>7, <1>8, <1>9 DEF a, b, c
\* The first logs of a page.
Front(w, p, n) == Len(w) = n /\ \A i \in 1..n : w[i] = p[i]

LEMMA FrontOf ==
    ASSUME NEW p \in Seq(Nat), NEW n \in Nat, n <= Len(p)
    PROVE  SubSeq(p, 1, n) \in Seq(Nat) /\ Front(SubSeq(p, 1, n), p, n) /\ 1..n \subseteq DOMAIN p
<1>1. Len(p) \in Nat /\ DOMAIN p = 1..Len(p) /\ \A i \in DOMAIN p : p[i] \in Nat
  BY Elements
<1>2. \A i \in 1..n : i \in DOMAIN p /\ p[i] \in Nat
  BY <1>1
<1>3. n \in Int /\ n - 1 + 1 = n /\ (1 <= n \/ n = 0) /\ \A i \in 1..n : 1 + i - 1 = i
  OBVIOUS
<1> DEFINE u == SubSeq(p, 1, n)
<1>4. u \in Seq(Nat) /\ Len(u) = (IF 1 <= n THEN n - 1 + 1 ELSE 0) /\ \A i \in 1..n - 1 + 1 : u[i] = p[1 + i - 1]
  BY <1>2, <1>3, SubSeqProperties
<1> HIDE DEF u
<1>5. u \in Seq(Nat) /\ Len(u) = n /\ \A i \in 1..n : u[i] = p[i]
  BY <1>3, <1>4
<1> QED
  BY <1>2, <1>5 DEF u, Front

\* The logs of a page that stand before the first log of the list.
OntoList(c, l, p, f) ==
    /\ c # <<>> /\ c[1] = p[1] /\ c[Len(c)] = l[Len(l)]
    /\ Ordered(c) /\ AllOf(c, f) /\ NoGap(c, f) /\ Again(c) = Again(l)

LEMMA NewLogs ==
    ASSUME NEW l \in Seq(Nat), NEW p \in Seq(Nat), NEW f, l # <<>>, NEW k \in DOMAIN p, p[k] = l[1],
           Ordered(l), AllOf(l, f), NoGap(l, f), PageOf(p, f, last),
           NEW w \in Seq(Nat), Front(w, p, k - 1)
    PROVE  OntoList(w \o l, l, p, f)
<1>0. Len(p) \in Nat /\ DOMAIN p = 1..Len(p) /\ \A i \in DOMAIN p : p[i] \in Nat
  BY Elements
<1> DEFINE c == w \o l
           a == Len(w)
           b == Len(l)
<1>a. k \in Nat /\ k > 0 /\ k <= Len(p)
  BY <1>0
<1>b. \A i \in 1..k - 1 : i \in DOMAIN p /\ p[i] \in Nat
  BY <1>0, <1>a
<1>c. a = k - 1 /\ \A i \in 1..k - 1 : w[i] = p[i]
  BY DEF Front
<1>1. /\ c \in Seq(Nat) /\ Len(c) = a + b /\ DOMAIN c = 1..a + b /\ a \in Nat /\ b \in Nat
      /\ \A i \in 1..a : i \in DOMAIN c /\ c[i] = w[i]
      /\ \A i \in 1..b : a + i \in DOMAIN c /\ c[a + i] = l[i]
      /\ \A j \in DOMAIN c : j \in 1..a \/ \E i \in 1..b : j = a + i
  BY OneAfterOther
<1>2. /\ DOMAIN l = 1..b /\ b # 0 /\ \A i \in 1..b : l[i] \in Nat
      /\ DOMAIN w = 1..a
  BY Elements
<1> HIDE DEF a, b, c
<1>3. \A i \in 1..b : l[1] >= l[i]
  <2> SUFFICES ASSUME NEW i \in 1..b PROVE l[1] >= l[i]
    OBVIOUS
  <2>1. 1 \in 1..b /\ (1 < i \/ i = 1)
    BY <1>1, <1>2
  <2>2. 1 < i => l[1] >= l[i]
    BY <1>2, <2>1 DEF Ordered
  <2>3. l[1] >= l[1]
    BY <1>2, <2>1
  <2> QED
    BY <2>1, <2>2, <2>3
<1>4. \A i \in 1..a : w[i] = p[i] /\ i \in DOMAIN p /\ p[i] \in Nat /\ p[i] > l[1]
  <2> SUFFICES ASSUME NEW i \in 1..a PROVE w[i] = p[i] /\ i \in DOMAIN p /\ p[i] \in Nat /\ p[i] > l[1]
    OBVIOUS
  <2>1. i \in 1..k - 1
    BY <1>c DEF a
  <2>2. i < k
    BY <1>a, <2>1
  <2>3. p[i] > p[k]
    BY <1>b, <2>1, <2>2 DEF PageOf
  <2> QED
    BY <1>b, <1>c, <2>1, <2>3
<1>5. c[1] = p[1] /\ c[Len(c)] = l[b] /\ c # <<>>
  <2>1. b \in 1..b /\ 1 \in 1..b /\ (a = 0 \/ 1 \in 1..a) /\ (a = 0 => k = 1)
    BY <1>1, <1>2, <1>a, <1>c DEF a
  <2>2. c # <<>>
    BY <1>1, <2>1, Elements
  <2>3. c[1] = p[1]
    <3>1. CASE a = 0
      <4>1. a + 1 = 1
        BY <3>1
      <4> QED
        BY <1>1, <2>1, <3>1, <4>1
    <3>2. CASE 1 \in 1..a
      <4>1. c[1] = w[1]
        BY <1>1, <3>2
      <4>2. w[1] = p[1]
        BY <1>4, <3>2
      <4> QED
        BY <4>1, <4>2
    <3> QED
      BY <2>1, <3>1, <3>2
  <2> QED
    BY <1>1, <2>1, <2>2, <2>3
<1>6. Ordered(c)
  <2> SUFFICES ASSUME NEW i \in DOMAIN c, NEW j \in DOMAIN c, i < j PROVE c[i] >= c[j]
    BY DEF Ordered
  <2>1. CASE i \in 1..a /\ j \in 1..a
    <3>1. c[i] = p[i] /\ c[j] = p[j] /\ p[i] \in Nat /\ p[j] \in Nat
      BY <1>1, <1>4, <2>1
    <3>2. p[i] > p[j]
      BY <1>4, <2>1 DEF PageOf
    <3> DEFINE x == p[i]
               y == p[j]
    <3>3. x \in Nat /\ y \in Nat /\ x > y
      BY <3>1, <3>2
    <3> HIDE DEF x, y
    <3>4. x >= y
      BY <3>3
    <3> QED
      BY <3>1, <3>4 DEF x, y
  <2>2. CASE i \in 1..a /\ \E m \in 1..b : j = a + m
    <3>1. PICK m \in 1..b : j = a + m
      BY <2>2
    <3>2. 1 \in 1..b
      BY <1>1, <1>2
    <3>3. c[i] = p[i] /\ c[j] = l[m] /\ p[i] > l[1] /\ l[1] >= l[m] /\ p[i] \in Nat /\ l[1] \in Nat /\ l[m] \in Nat
      BY <1>1, <1>2, <1>3, <1>4, <2>2, <3>1, <3>2
    <3> DEFINE x == p[i]
               y == l[1]
               z == l[m]
    <3>4. x \in Nat /\ y \in Nat /\ z \in Nat /\ x > y /\ y >= z
      BY <3>3
    <3> HIDE DEF x, y, z
    <3>5. x >= z
      BY <3>4
    <3> QED
      BY <3>3, <3>5 DEF x, z
  <2>3. CASE (\E m \in 1..b : i = a + m) /\ (\E m \in 1..b : j = a + m)
    <3>1. PICK m \in 1..b, n \in 1..b : i = a + m /\ j = a + n
      BY <2>3
    <3>2. m < n
      BY <1>1, <3>1
    <3>3. l[m] >= l[n]
      BY <1>2, <3>2 DEF Ordered
    <3> QED
      BY <1>1, <3>1, <3>3
  <2>4. CASE (\E m \in 1..b : i = a + m) /\ j \in 1..a
    BY <1>1, <2>4
  <2> QED
    BY <1>1, <2>1, <2>2, <2>3, <2>4
<1>7. AllOf(c, f)
  <2> SUFFICES ASSUME NEW j \in DOMAIN c PROVE FilterOf(c[j]) = f
    BY DEF AllOf
  <2>1. CASE j \in 1..a
    BY <1>1, <1>4, <2>1 DEF AllOf, PageOf
  <2>2. CASE \E i \in 1..b : j = a + i
    <3>1. PICK i \in 1..b : j = a + i
      BY <2>2
    <3>2. c[j] = l[i] /\ i \in DOMAIN l
      BY <1>1, <1>2, <3>1
    <3> QED
      BY <3>2 DEF AllOf
  <2> QED
    BY <1>1, <2>1, <2>2
<1>8. NoGap(c, f)
  <2> SUFFICES ASSUME NEW n \in l[b]..p[1], FilterOf(n) = f PROVE \E j \in DOMAIN c : c[j] = n
    BY <1>5 DEF NoGap
  <2>0. 1 \in 1..b /\ b \in 1..b /\ Len(p) \in DOMAIN p /\ 1 \in DOMAIN p /\ k \in DOMAIN p
    BY <1>0, <1>a, <1>1, <1>2
  <2>1. n \in Int /\ l[1] \in Nat /\ l[b] \in Nat /\ p[1] \in Nat /\ p[Len(p)] \in Nat
    BY <1>0, <1>2, <2>0
  <2>2. CASE n <= l[1]
    <3>1. n \in l[b]..l[1]
      BY <2>1, <2>2
    <3>2. PICK j \in DOMAIN l : l[j] = n
      BY <3>1 DEF NoGap, b
    <3>3. j \in 1..b
      BY <1>2
    <3> QED
      BY <1>1, <3>2, <3>3
  <2>3. CASE n > l[1]
    <3>0. p[k] >= p[Len(p)]
      <4>1. k < Len(p) \/ k = Len(p)
        BY <1>0, <1>a
      <4>2. k < Len(p) => p[k] > p[Len(p)]
        BY <2>0 DEF PageOf
      <4> DEFINE x == p[k]
                 y == p[Len(p)]
      <4>3. x \in Nat /\ y \in Nat /\ (x > y \/ x = y)
        BY <1>0, <2>0, <4>1, <4>2
      <4> HIDE DEF x, y
      <4>4. x >= y
        BY <4>3
      <4> QED
        BY <4>4 DEF x, y
    <3>1. n \in p[Len(p)]..p[1]
      BY <2>1, <2>3, <3>0
    <3>a. p # <<>>
      BY <2>0, Elements
    <3>2. PICK m \in DOMAIN p : p[m] = n
      BY <3>1, <3>a DEF NoGap, PageOf
    <3>3. m < k
      <4> SUFFICES ASSUME ~(m < k) PROVE FALSE
        OBVIOUS
      <4>1. k < m \/ k = m
        BY <1>0, <1>a
      <4>2. k < m => p[k] > p[m]
        BY <2>0 DEF PageOf
      <4> QED
        BY <2>1, <2>3, <3>2, <4>1, <4>2
    <3>4. m \in 1..a
      BY <1>0, <1>a, <1>c, <3>3 DEF a
    <3> QED
      BY <1>1, <1>4, <3>2, <3>4
  <2>4. n <= l[1] \/ n > l[1]
    BY <2>1, SMTT(30)
  <2> QED
    BY <2>2, <2>3, <2>4, Zenon
<1>9. Again(c) = Again(l)
  <2>1. Log!Range(w) \cap Log!Range(l) = {}
    <3>1. ASSUME NEW x \in Log!Range(w), x \in Log!Range(l) PROVE FALSE
      <4>1. PICK i \in 1..a, j \in 1..b : x = w[i] /\ x = l[j]
        BY <1>2, <3>1 DEF Log!Range
      <4>2. x > l[1] /\ l[1] >= x /\ x \in Nat /\ l[1] \in Nat
        <5>1. 1 \in 1..b
          BY <1>1, <1>2
        <5> QED
          BY <1>2, <1>3, <1>4, <4>1, <5>1
      <4> QED
        BY <4>2
    <3> QED
      BY <3>1
  <2>3. Again(w) = 0
    <3>1. \A i, j \in DOMAIN w : i < j => w[i] > w[j]
      BY <1>2, <1>4 DEF PageOf
    <3> QED
      BY <3>1, EachOnce
  <2>4. Again(l) \in Int
    BY LogsFinite
  <2>5. Again(c) = Again(w) + Again(l) + Cardinality(Log!Range(w) \cap Log!Range(l))
    BY LogsOfBoth DEF c
  <2> DEFINE x == Again(w)
             y == Again(l)
             z == Cardinality(Log!Range(w) \cap Log!Range(l))
  <2>6. x = 0 /\ y \in Int /\ z = 0 /\ Again(c) = x + y + z
    BY <2>1, <2>3, <2>4, <2>5, FS_EmptySet
  <2> HIDE DEF x, y, z
  <2>7. Again(c) = y
    BY <2>6
  <2> QED
    BY <2>7 DEF y
<1> QED
  BY <1>1, <1>5, <1>6, <1>7, <1>8, <1>9 DEF a, b, c, OntoList
-----------------------------------------------------------------------------
\* The page of the system logs starts with a list to come.
LEMMA LogStart == Log!Init => LogInv
<1> SUFFICES ASSUME Log!Init PROVE LogInv
  OBVIOUS
<1> DEFINE g == [filter |-> FirstFilter, from |-> -1, changed |-> FALSE, done |-> FALSE, result |-> <<>>]
<1>1. FirstFilter \in Filters
  BY ConsoleAdminAssumption, Zenon
<1>2. gets = <<g>> /\ asking = <<FirstFilter>> /\ pushes = <<>> /\ logs = <<>> /\ subs = {} /\ last = OldLogs
  BY DEF Log!Init
<1>3. g \in LogGet
  BY <1>1 DEF LogGet
<1>4. gets \in Seq(LogGet) /\ Len(gets) = 1 /\ DOMAIN gets = 1..1 /\ gets[1] = g
  BY <1>2, <1>3
<1>5. asking \in Seq(Filters) /\ pushes \in Seq(LogPush) /\ logs \in Seq(Nat) /\ DOMAIN logs = {} /\ DOMAIN pushes = {}
  BY <1>1, <1>2
<1>6. /\ filter = FirstFilter /\ got = 1 /\ listens = 1 /\ seqNum = -1 /\ lastMsgSeq = -1 /\ selected = -1
      /\ changeSelected = TRUE /\ stopLoad = FALSE /\ loader = TRUE /\ changed = FALSE /\ top = TRUE
      /\ mixed = FALSE /\ missed = FALSE
  BY DEF Log!Init
<1>7. LogTyped
  BY <1>1, <1>2, <1>4, <1>5, <1>6, Bounds DEF LogTyped, LogOrNone
<1> HIDE DEF g
<1>8. PagesSound
  BY <1>4, <1>5 DEF PagesSound, GetSound, LogOrNone, g
<1>9. Log!OnlyOfFilter
  BY <1>5 DEF Log!OnlyOfFilter, Log!Range
<1>10. ListSound /\ ListComes
  BY <1>2, <1>4, <1>6 DEF ListSound, ListComes
<1>11. AskedFrom
  BY <1>4 DEF AskedFrom, g
<1> QED
  BY <1>7, <1>8, <1>9, <1>10, <1>11 DEF LogInv

\* What the broker answered stays sound while it logs more.
LEMMA PagesStay ==
    ASSUME NEW m \in Nat, NEW n \in Nat, m <= n
    PROVE  /\ \A x : LogOrNone(x, m) => LogOrNone(x, n)
           /\ \A g : GetSound(g, m) => GetSound(g, n)
           /\ \A q : PushSound(q, m) => PushSound(q, n)
<1>1. \A x \in 1..m : x \in 1..n
  OBVIOUS
<1>2. \A p, f : PageOf(p, f, m) => PageOf(p, f, n)
  BY <1>1 DEF PageOf
<1>3. \A x : LogOrNone(x, m) => LogOrNone(x, n)
  BY <1>1 DEF LogOrNone
<1>4. \A g : GetSound(g, m) => GetSound(g, n)
  BY <1>2, <1>3 DEF GetSound
<1>5. \A q : PushSound(q, m) => PushSound(q, n)
  BY <1>2 DEF PushSound
<1> QED
  BY <1>3, <1>4, <1>5

\* Steps that leave the list and the requests alone.
LEMMA LogQuiet ==
    ASSUME LogInv, UNCHANGED <<last, filter, logs, seqNum, lastMsgSeq, loader, changed, gets, got, mixed, missed>>,
           LogTyped', \A j \in DOMAIN pushes' : PushSound(pushes'[j], last),
           changeSelected' => selected' = lastMsgSeq \/ (changeSelected /\ selected' = selected)
    PROVE  LogInv'
<1>1. PagesSound'
  BY DEF LogInv, PagesSound
<1>2. Log!OnlyOfFilter'
  BY DEF LogInv, Log!OnlyOfFilter, Log!Range
<1>3. ListSound'
  BY DEF LogInv, ListSound, Ordered, AllOf, NoGap, Again, Log!Range
<1>4. ListComes' /\ AskedFrom'
  BY DEF LogInv, ListComes, AskedFrom
<1> QED
  BY <1>1, <1>2, <1>3, <1>4 DEF LogInv
\* A step that asks for a page, and changes nothing of the list.
LEMMA LogAsk ==
    ASSUME LogInv, NEW g \in LogGet, gets' = Append(gets, g), got' = got + 1, LogOrNone(g.from, last), ~g.done,
           UNCHANGED <<last, logs, seqNum, lastMsgSeq, selected, changeSelected, stopLoad, top, pushes, missed>>,
           LogTyped', mixed \in BOOLEAN, ~mixed' => ~mixed,
           ~mixed' /\ ~missed /\ ~g.changed => g.from = -1 \/ FilterOf(g.from) = g.filter
    PROVE  PagesSound' /\ ListSound' /\ AskedFrom'
<1>0. gets \in Seq(LogGet) /\ got \in Nat /\ logs \in Seq(Nat)
  BY DEF LogInv, LogTyped
<1>1. /\ Len(gets') = Len(gets) + 1 /\ Len(gets) \in Nat /\ gets'[Len(gets')] = g
      /\ \A j \in DOMAIN gets' : (j \in DOMAIN gets /\ gets'[j] = gets[j]) \/ j = Len(gets')
  BY <1>0, Appended, Elements
<1>2. GetSound(g, last)
  BY DEF GetSound
<1>3. PagesSound'
  BY <1>1, <1>2 DEF LogInv, PagesSound
<1>4. ListSound'
  <2> SUFFICES ASSUME ~mixed', ~missed' PROVE ListSound'
    BY DEF ListSound
  <2>1. CASE logs = <<>>
    BY <1>0, <1>1, <2>1 DEF LogInv, ListSound
  <2>2. CASE logs # <<>>
    <3>1. /\ seqNum = logs[Len(logs)] /\ lastMsgSeq = logs[1] /\ (changeSelected => selected = logs[1])
          /\ Ordered(logs) /\ AllOf(logs, FilterOf(logs[1])) /\ NoGap(logs, FilterOf(logs[1]))
          /\ Again(logs) + Len(gets) < got
      BY <2>2 DEF LogInv, ListSound
    <3>2. Again(logs) \in Nat
      BY <1>0, LogsFinite
    <3>3. Again(logs) + Len(gets') < got'
      <4> DEFINE x == Again(logs)
                 y == Len(gets)
      <4> HIDE DEF x, y
      <4>1. x + y < got /\ x \in Nat /\ y \in Nat /\ Len(gets') = y + 1
        BY <1>1, <3>1, <3>2 DEF x, y
      <4>2. x + (y + 1) < got + 1
        BY <1>0, <4>1
      <4> QED
        BY <4>1, <4>2 DEF x
    <3>4. Again(logs)' = Again(logs) /\ Ordered(logs)' /\ AllOf(logs, FilterOf(logs[1]))' /\ NoGap(logs, FilterOf(logs[1]))'
      BY <3>1 DEF Again, Ordered, AllOf, NoGap, Log!Range
    <3> QED
      BY <2>2, <3>1, <3>3, <3>4 DEF ListSound
  <2> QED
    BY <2>1, <2>2
<1>5. AskedFrom'
  <2> SUFFICES ASSUME ~mixed', ~missed', NEW j \in DOMAIN gets', ~gets'[j].changed
               PROVE  gets'[j].from = -1 \/ FilterOf(gets'[j].from) = gets'[j].filter
    BY DEF AskedFrom
  <2> QED
    BY <1>1 DEF LogInv, AskedFrom
<1> QED
  BY <1>3, <1>4, <1>5

LEMMA LogMore ==
    ASSUME LogInv, Log!LoadMore
    PROVE  LogInv'
<1> DEFINE g == [filter |-> filter, from |-> seqNum, changed |-> FALSE, done |-> FALSE, result |-> <<>>]
<1>1. /\ ~loader /\ logs # <<>> /\ gets' = Append(gets, g) /\ got' = got + 1 /\ mixed' = (mixed \/ changed)
      /\ UNCHANGED <<last, filter, logs, seqNum, lastMsgSeq, selected, changeSelected, stopLoad, loader, changed, top,
                     asking, subs, pushes, missed, listens>>
  BY DEF Log!LoadMore, Log!Drawn, Log!listVars, Log!flagVars, Log!subVars
<1>2. /\ LogTyped /\ gets \in Seq(LogGet) /\ filter \in Filters /\ LogOrNone(seqNum, last) /\ last \in Nat
      /\ got \in Nat /\ logs \in Seq(Nat) /\ mixed \in BOOLEAN /\ changed \in BOOLEAN
  BY DEF LogInv, LogTyped
<1>3. g \in LogGet
  <2>1. seqNum \in Int
    BY <1>2 DEF LogOrNone
  <2> QED
    BY <1>2, <2>1 DEF LogGet
<1>4. g.filter = filter /\ g.from = seqNum /\ g.changed = FALSE /\ g.done = FALSE
  OBVIOUS
<1> HIDE DEF g
<1>5. LogTyped'
  <2>1. gets' \in Seq(LogGet)
    BY <1>1, <1>2, <1>3, Appended
  <2>2. got' \in Nat /\ mixed' \in BOOLEAN
    BY <1>1, <1>2
  <2> QED
    BY <1>1, <1>2, <2>1, <2>2 DEF LogTyped
<1>6. ~mixed' => ~mixed /\ ~changed
  BY <1>1
<1>7. /\ \A j \in DOMAIN gets : j \in DOMAIN gets' /\ gets'[j] = gets[j]
  BY <1>1, <1>2, <1>3, Appended
<1>8. Log!OnlyOfFilter'
  <2> SUFFICES ASSUME ~mixed', \A k \in DOMAIN gets' : ~gets'[k].changed, NEW n \in Log!Range(logs)' PROVE FilterOf(n) = filter'
    BY DEF Log!OnlyOfFilter
  <2>1. n \in Log!Range(logs)
    BY <1>1 DEF Log!Range
  <2>2. \A k \in DOMAIN gets : ~gets[k].changed
    BY <1>7
  <2> QED
    BY <1>1, <1>6, <2>1, <2>2 DEF LogInv, Log!OnlyOfFilter
<1>9. ~mixed' /\ ~missed => FilterOf(logs[1]) = filter
  BY <1>1, <1>6 DEF LogInv, ListComes
<1>10. ~mixed' /\ ~missed => FilterOf(seqNum) = filter
  <2> SUFFICES ASSUME ~mixed', ~missed PROVE FilterOf(seqNum) = filter
    OBVIOUS
  <2>1. seqNum = logs[Len(logs)] /\ AllOf(logs, FilterOf(logs[1]))
    BY <1>1, <1>6 DEF LogInv, ListSound
  <2>2. Len(logs) \in DOMAIN logs
    BY <1>1, <1>2, Elements
  <2> QED
    BY <1>9, <2>1, <2>2 DEF AllOf
<1>11. ListComes'
  BY <1>1, <1>9 DEF ListComes
<1>12. PagesSound' /\ ListSound' /\ AskedFrom'
  <2>1. ~mixed' => ~mixed
    BY <1>6
  <2>2. ~mixed' /\ ~missed /\ ~g.changed => g.from = -1 \/ FilterOf(g.from) = g.filter
    BY <1>4, <1>10
  <2>3. LogOrNone(g.from, last) /\ ~g.done
    BY <1>2, <1>4
  <2> QED
    BY <1>1, <1>2, <1>3, <1>5, <2>1, <2>2, <2>3, LogAsk
<1> QED
  BY <1>5, <1>8, <1>11, <1>12 DEF LogInv

\* A change of the filter: its first page is asked for.
LEMMA LogRefilter ==
    ASSUME LogInv, NEW f \in Filters, Log!Refilter(f), filter' = f,
           UNCHANGED <<last, logs, seqNum, lastMsgSeq, selected, changeSelected, stopLoad, top, asking, listens, pushes,
                       mixed, missed>>
    PROVE  LogInv'
<1> DEFINE g == [filter |-> f, from |-> -1, changed |-> TRUE, done |-> FALSE, result |-> <<>>]
<1>1. /\ gets' = Append(gets, g) /\ got' = got + 1 /\ changed' = FALSE /\ loader' = TRUE /\ subs' = subs \ {sub}
  BY DEF Log!Refilter
<1>2. LogTyped /\ gets \in Seq(LogGet) /\ got \in Nat /\ mixed \in BOOLEAN /\ subs \subseteq LogSub
  BY DEF LogInv, LogTyped
<1>3. g \in LogGet
  BY DEF LogGet
<1>4. g.filter = f /\ g.from = -1 /\ g.changed = TRUE /\ g.done = FALSE
  OBVIOUS
<1> HIDE DEF g
<1>5. LogTyped'
  <2>1. gets' \in Seq(LogGet)
    BY <1>1, <1>2, <1>3, Appended
  <2>2. got' \in Nat /\ subs' \subseteq LogSub
    BY <1>1, <1>2
  <2> QED
    BY <1>1, <1>2, <2>1, <2>2 DEF LogTyped
<1>6. Len(gets') \in DOMAIN gets' /\ gets'[Len(gets')].changed
  BY <1>1, <1>2, <1>3, <1>4, Appended
<1>7. Log!OnlyOfFilter'
  BY <1>6 DEF Log!OnlyOfFilter
<1>8. ListComes'
  BY <1>1, <1>6 DEF ListComes
<1>9. PagesSound' /\ ListSound' /\ AskedFrom'
  <2>1. LogOrNone(g.from, last) /\ ~g.done
    BY <1>4 DEF LogOrNone
  <2>2. ~mixed' /\ ~missed /\ ~g.changed => g.from = -1 \/ FilterOf(g.from) = g.filter
    BY <1>4
  <2> QED
    BY <1>1, <1>2, <1>3, <1>5, <2>1, <2>2, LogAsk
<1> QED
  BY <1>5, <1>7, <1>8, <1>9 DEF LogInv

LEMMA LogFilters ==
    ASSUME LogInv, NEW f \in Filters, Log!HandleFilter(f) \/ Log!ChangedEffect
    PROVE  LogInv'
<1>1. CASE Log!HandleFilter(f) /\ sub # Log!NoSub
  BY <1>1, LogRefilter DEF Log!HandleFilter, Log!listVars
<1>2. CASE Log!HandleFilter(f) /\ sub = Log!NoSub
  <2>1. /\ filter' = f /\ changed' = TRUE
        /\ UNCHANGED <<last, logs, seqNum, lastMsgSeq, selected, changeSelected, stopLoad, loader, top, gets, asking, subs,
                       listens, pushes, got, mixed, missed>>
    BY <1>2 DEF Log!HandleFilter, Log!listVars
  <2>2. LogTyped'
    BY <2>1 DEF LogInv, LogTyped
  <2>3. Log!OnlyOfFilter' /\ ListComes'
    BY <2>1 DEF Log!OnlyOfFilter, ListComes
  <2>4. PagesSound' /\ AskedFrom'
    BY <2>1 DEF LogInv, PagesSound, AskedFrom
  <2>5. ListSound'
    BY <2>1 DEF LogInv, ListSound, Ordered, AllOf, NoGap, Again, Log!Range
  <2> QED
    BY <2>2, <2>3, <2>4, <2>5 DEF LogInv
<1>3. CASE Log!ChangedEffect
  <2>1. filter \in Filters
    BY DEF LogInv, LogTyped
  <2> QED
    BY <1>3, <2>1, LogRefilter DEF Log!ChangedEffect, Log!listVars
<1> QED
  BY <1>1, <1>2, <1>3
\* The broker logs.
LEMMA LogLogs ==
    ASSUME LogInv, Log!Log
    PROVE  LogInv'
<1>1. /\ last' = last + 1
      /\ UNCHANGED <<filter, logs, seqNum, lastMsgSeq, selected, changeSelected, stopLoad, loader, changed, top, gets,
                     asking, subs, listens, pushes, got, mixed, missed>>
  BY DEF Log!Log, Log!listVars, Log!flagVars, Log!subVars
<1>2. LogTyped /\ last \in Nat /\ last' \in Nat /\ last <= last'
  BY <1>1 DEF LogInv, LogTyped
<1>3. /\ \A x : LogOrNone(x, last) => LogOrNone(x, last')
      /\ \A g : GetSound(g, last) => GetSound(g, last')
      /\ \A q : PushSound(q, last) => PushSound(q, last')
  BY <1>2, PagesStay
<1>4. LogTyped'
  <2>1. \A x \in 1..last : x \in 1..last'
    BY <1>2
  <2>2. \A k \in DOMAIN logs : logs[k] \in 1..last'
    BY <2>1 DEF LogInv, LogTyped
  <2>3. LogOrNone(seqNum, last') /\ LogOrNone(lastMsgSeq, last') /\ LogOrNone(selected, last')
    BY <1>2, <1>3 DEF LogTyped
  <2> QED
    BY <1>1, <1>2, <2>2, <2>3 DEF LogTyped
<1>5. PagesSound'
  BY <1>1, <1>3 DEF LogInv, PagesSound
<1>6. Log!OnlyOfFilter'
  BY <1>1 DEF LogInv, Log!OnlyOfFilter, Log!Range
<1>7. ListSound'
  BY <1>1 DEF LogInv, ListSound, Ordered, AllOf, NoGap, Again, Log!Range
<1>8. ListComes' /\ AskedFrom'
  BY <1>1 DEF LogInv, ListComes, AskedFrom
<1> QED
  BY <1>4, <1>5, <1>6, <1>7, <1>8 DEF LogInv

\* The broker answers.
LEMMA LogHandled ==
    ASSUME LogInv, NEW i \in DOMAIN gets, Log!Handle(i)
    PROVE  LogInv'
<1> DEFINE g == gets[i]
           p == Log!Page(g.filter, g.from)
           h == [g EXCEPT !.done = TRUE, !.result = p]
<1>1. /\ gets' = [gets EXCEPT ![i] = h]
      /\ UNCHANGED <<last, filter, logs, seqNum, lastMsgSeq, selected, changeSelected, stopLoad, loader, changed, top,
                     asking, subs, listens, pushes, got, mixed, missed>>
  BY DEF Log!Handle, Log!listVars, Log!flagVars, Log!subVars
<1>2. LogTyped /\ gets \in Seq(LogGet) /\ last \in Nat
  BY DEF LogInv, LogTyped
<1>3. g \in LogGet
  BY <1>2, Elements
<1>4. GetSound(g, last)
  BY DEF LogInv, PagesSound
<1> HIDE DEF g, p
<1>5. g.filter \in Filters /\ LogOrNone(g.from, last)
  BY <1>3, <1>4 DEF LogGet, GetSound
<1>6. /\ p \in Seq(Nat) /\ PageOf(p, g.filter, last)
      /\ g.from # -1 /\ FilterOf(g.from) = g.filter => p # <<>> /\ p[1] = g.from
  BY <1>2, <1>5, PageSound DEF p
<1>7. h \in LogGet /\ h.filter = g.filter /\ h.from = g.from /\ h.changed = g.changed /\ h.result = p
  BY <1>3, <1>6 DEF LogGet
<1> HIDE DEF h
<1>8. GetSound(h, last)
  BY <1>5, <1>6, <1>7 DEF GetSound
<1>9. /\ gets' \in Seq(LogGet) /\ DOMAIN gets' = DOMAIN gets /\ Len(gets') = Len(gets) /\ gets'[i] = h
      /\ \A j \in DOMAIN gets : j # i => gets'[j] = gets[j]
  BY <1>1, <1>2, <1>7, Changed
<1>10. \A j \in DOMAIN gets : /\ gets'[j].changed = gets[j].changed /\ gets'[j].from = gets[j].from
                              /\ gets'[j].filter = gets[j].filter
  BY <1>7, <1>9 DEF g
<1>11. LogTyped'
  BY <1>1, <1>2, <1>9 DEF LogTyped
<1>12. PagesSound'
  BY <1>1, <1>8, <1>9 DEF LogInv, PagesSound
<1>13. Log!OnlyOfFilter'
  BY <1>1, <1>9, <1>10 DEF LogInv, Log!OnlyOfFilter, Log!Range
<1>14. ListSound'
  BY <1>1, <1>9 DEF LogInv, ListSound, Ordered, AllOf, NoGap, Again, Log!Range
<1>15. ListComes'
  <2> SUFFICES ASSUME ~mixed, ~missed, ~changed, logs # <<>>, FilterOf(logs[1]) # filter
               PROVE  loader /\ \E j \in DOMAIN gets' : gets'[j].changed
    BY <1>1 DEF ListComes
  <2>1. loader /\ \E j \in DOMAIN gets : gets[j].changed
    BY DEF LogInv, ListComes
  <2> QED
    BY <1>9, <1>10, <2>1
<1>16. AskedFrom'
  BY <1>1, <1>9, <1>10 DEF LogInv, AskedFrom
<1> QED
  BY <1>11, <1>12, <1>13, <1>14, <1>15, <1>16 DEF LogInv

\* An answer comes: the other requests are under way as they were.
LEMMA LogAnswered ==
    ASSUME LogInv, NEW i \in DOMAIN gets, gets' = Without(gets, i), UNCHANGED <<last, pushes>>, ~mixed' => ~mixed,
           ~missed' => ~missed
    PROVE  /\ gets' \in Seq(LogGet) /\ Len(gets') = Len(gets) - 1 /\ Len(gets) \in Nat
           /\ \A j \in DOMAIN gets' : \E k \in DOMAIN gets : k # i /\ gets'[j] = gets[k]
           /\ \A k \in DOMAIN gets : k # i => \E j \in DOMAIN gets' : gets'[j] = gets[k]
           /\ PagesSound' /\ AskedFrom'
<1>1. gets \in Seq(LogGet)
  BY DEF LogInv, LogTyped
<1>2. /\ gets' \in Seq(LogGet) /\ Len(gets') = Len(gets) - 1
      /\ \A j \in DOMAIN gets' : \E k \in DOMAIN gets : k # i /\ gets'[j] = gets[k]
  BY <1>1, Answered
<1>3. \A k \in DOMAIN gets : k # i => \E j \in DOMAIN gets' : gets'[j] = gets[k]
  BY <1>1, Answered
<1>4. Len(gets) \in Nat
  BY <1>1, Elements
<1>5. PagesSound'
  BY <1>2 DEF LogInv, PagesSound
<1>6. AskedFrom'
  <2> SUFFICES ASSUME ~mixed', ~missed', NEW j \in DOMAIN gets', ~gets'[j].changed
               PROVE  gets'[j].from = -1 \/ FilterOf(gets'[j].from) = gets'[j].filter
    BY DEF AskedFrom
  <2>1. PICK k \in DOMAIN gets : gets'[j] = gets[k]
    BY <1>2
  <2> QED
    BY <2>1 DEF LogInv, AskedFrom
<1> QED
  BY <1>2, <1>3, <1>4, <1>5, <1>6

\* A request fails.
LEMMA LogFails ==
    ASSUME LogInv, NEW i \in DOMAIN gets, Log!GetLogsFails(i)
    PROVE  LogInv'
<1>1. /\ gets' = Without(gets, i) /\ loader' = FALSE /\ mixed' = (mixed \/ \E k \in DOMAIN gets : gets[k].changed)
      /\ UNCHANGED <<last, filter, logs, seqNum, lastMsgSeq, selected, changeSelected, stopLoad, changed, top, asking,
                     subs, listens, pushes, got, missed>>
  BY DEF Log!GetLogsFails, Log!RemoveAt, Without, Log!listVars, Log!subVars
<1>2. LogTyped /\ got \in Nat /\ logs \in Seq(Nat) /\ mixed \in BOOLEAN
  BY DEF LogInv, LogTyped
<1>3. (~mixed' => ~mixed /\ \A k \in DOMAIN gets : ~gets[k].changed) /\ mixed' \in BOOLEAN
  BY <1>1, <1>2
<1>4. /\ gets' \in Seq(LogGet) /\ Len(gets') = Len(gets) - 1 /\ Len(gets) \in Nat
      /\ PagesSound' /\ AskedFrom'
  BY <1>1, <1>3, LogAnswered
<1>5. LogTyped'
  BY <1>1, <1>2, <1>3, <1>4 DEF LogTyped
<1>6. Log!OnlyOfFilter'
  BY <1>1, <1>3 DEF LogInv, Log!OnlyOfFilter, Log!Range
<1>7. ListSound'
  <2> SUFFICES ASSUME ~mixed', ~missed' PROVE ListSound'
    BY DEF ListSound
  <2>1. CASE logs = <<>>
    BY <1>1, <1>2, <1>3, <1>4, <2>1 DEF LogInv, ListSound
  <2>2. CASE logs # <<>>
    <3>1. /\ seqNum = logs[Len(logs)] /\ lastMsgSeq = logs[1] /\ (changeSelected => selected = logs[1])
          /\ Ordered(logs) /\ AllOf(logs, FilterOf(logs[1])) /\ NoGap(logs, FilterOf(logs[1]))
          /\ Again(logs) + Len(gets) < got
      BY <1>1, <1>3, <2>2 DEF LogInv, ListSound
    <3>2. Again(logs) \in Nat
      BY <1>2, LogsFinite
    <3>3. Again(logs) + Len(gets') < got
      <4> DEFINE x == Again(logs)
                 y == Len(gets)
      <4> HIDE DEF x, y
      <4>1. x + y < got /\ x \in Nat /\ y \in Nat /\ Len(gets') = y - 1
        BY <1>4, <3>1, <3>2 DEF x, y
      <4>2. x + (y - 1) < got
        BY <1>2, <4>1
      <4> QED
        BY <4>1, <4>2 DEF x
    <3>4. Again(logs)' = Again(logs) /\ Ordered(logs)' /\ AllOf(logs, FilterOf(logs[1]))' /\ NoGap(logs, FilterOf(logs[1]))'
      BY <1>1, <3>1 DEF Again, Ordered, AllOf, NoGap, Log!Range
    <3> QED
      BY <1>1, <2>2, <3>1, <3>3, <3>4 DEF ListSound
  <2> QED
    BY <2>1, <2>2
<1>8. ListComes'
  BY <1>1, <1>3 DEF LogInv, ListComes
<1> QED
  BY <1>4, <1>5, <1>6, <1>7, <1>8 DEF LogInv
\* A page is a list of its own.
LEMMA PageAlone ==
    ASSUME NEW p \in Seq(Nat), NEW f, p # <<>>, PageOf(p, f, last)
    PROVE  /\ 1 \in DOMAIN p /\ Len(p) \in DOMAIN p /\ p[1] \in 1..last /\ p[Len(p)] \in 1..last
           /\ FilterOf(p[1]) = f /\ FilterOf(p[Len(p)]) = f
           /\ Ordered(p) /\ AllOf(p, f) /\ NoGap(p, f) /\ Again(p) = 0
<1>1. Len(p) \in Nat /\ DOMAIN p = 1..Len(p) /\ Len(p) # 0 /\ \A k \in DOMAIN p : p[k] \in Nat
  BY Elements
<1>2. 1 \in DOMAIN p /\ Len(p) \in DOMAIN p
  BY <1>1
<1>3. Ordered(p)
  <2> SUFFICES ASSUME NEW i \in DOMAIN p, NEW j \in DOMAIN p, i < j PROVE p[i] >= p[j]
    BY DEF Ordered
  <2>1. p[i] > p[j]
    BY DEF PageOf
  <2> QED
    BY <1>1, <2>1
<1>4. Again(p) = 0
  BY EachOnce DEF PageOf
<1> QED
  BY <1>2, <1>3, <1>4 DEF PageOf, AllOf

\* The next page of the list comes.
LEMMA LogNextPage ==
    ASSUME LogInv, NEW i \in DOMAIN gets, Log!GetLogs(i), ~gets[i].changed
    PROVE  LogInv'
<1> DEFINE g == gets[i]
           p == g.result
<1>1. /\ gets' = Without(gets, i) /\ g.done /\ loader' = FALSE /\ mixed' = (mixed \/ g.filter # filter)
      /\ missed' = (missed \/ ~Log!Fits(g)) /\ Log!MorePage(p)
      /\ UNCHANGED <<last, filter, changeSelected, changed, top, asking, subs, listens, pushes, got>>
  BY DEF Log!GetLogs, Log!MorePage, Log!RemoveAt, Without
<1>2. LogTyped /\ got \in Nat /\ logs \in Seq(Nat) /\ mixed \in BOOLEAN /\ missed \in BOOLEAN /\ last \in Nat /\ gets \in Seq(LogGet)
  BY DEF LogInv, LogTyped
<1>3. (~mixed' => ~mixed /\ g.filter = filter) /\ mixed' \in BOOLEAN
  BY <1>1, <1>2
<1>4. (~missed' => ~missed /\ Log!Fits(g)) /\ missed' \in BOOLEAN
  BY <1>1, <1>2
<1>5. /\ gets' \in Seq(LogGet) /\ Len(gets') = Len(gets) - 1 /\ Len(gets) \in Nat
      /\ \A k \in DOMAIN gets : k # i => \E j \in DOMAIN gets' : gets'[j] = gets[k]
      /\ PagesSound' /\ AskedFrom'
  BY <1>1, <1>3, <1>4, LogAnswered
<1>6. g \in LogGet /\ GetSound(g, last) /\ ~g.changed
  BY <1>2, Elements DEF LogInv, PagesSound
<1>7. ~mixed /\ ~missed => g.from = -1 \/ FilterOf(g.from) = g.filter
  BY DEF LogInv, AskedFrom
<1>a. (\A j \in DOMAIN gets' : ~gets'[j].changed) => \A k \in DOMAIN gets : ~gets[k].changed
  <2> SUFFICES ASSUME \A j \in DOMAIN gets' : ~gets'[j].changed, NEW k \in DOMAIN gets PROVE ~gets[k].changed
    OBVIOUS
  <2>1. CASE k = i
    BY <2>1
  <2>2. CASE k # i
    BY <1>5, <2>2
  <2> QED
    BY <2>1, <2>2
<1> HIDE DEF g
<1>8. /\ p \in Seq(Nat) /\ PageOf(p, g.filter, last)
      /\ g.from # -1 /\ FilterOf(g.from) = g.filter => p # <<>> /\ p[1] = g.from
  BY <1>1, <1>6 DEF GetSound, LogGet
<1>9. ~missed' => (g.from = seqNum \/ p = <<>>) /\ (g.from = -1 => logs = <<>>)
  BY <1>4, <1>6 DEF Log!Fits
<1>10. IF p = <<>> THEN UNCHANGED <<logs, seqNum, lastMsgSeq, selected, stopLoad>>
       ELSE /\ IF seqNum = -1 THEN lastMsgSeq' = p[1] /\ selected' = p[1] ELSE UNCHANGED <<lastMsgSeq, selected>>
            /\ IF p[Len(p)] = seqNum THEN stopLoad' = TRUE /\ UNCHANGED <<seqNum, logs>>
               ELSE seqNum' = p[Len(p)] /\ logs' = logs \o p /\ UNCHANGED stopLoad
  BY <1>1 DEF Log!MorePage, Log!listVars
<1> HIDE DEF p
<1>11. p # <<>> => /\ p[1] \in 1..last /\ p[Len(p)] \in 1..last /\ FilterOf(p[1]) = g.filter /\ Ordered(p)
                   /\ AllOf(p, g.filter) /\ NoGap(p, g.filter) /\ Again(p) = 0
  BY <1>8, PageAlone
<1>12. /\ logs' \in Seq(Nat)
       /\ \A k \in DOMAIN logs' : \/ \E j \in DOMAIN logs : logs'[k] = logs[j]
                                 \/ \E j \in DOMAIN p : logs'[k] = p[j]
  <2>1. CASE logs' = logs
    BY <1>2, <2>1
  <2>2. CASE logs' = logs \o p
    <3>1. /\ logs \o p \in Seq(Nat)
          /\ \A k \in 1..Len(logs) : (logs \o p)[k] = logs[k]
          /\ \A k \in 1..Len(p) : (logs \o p)[Len(logs) + k] = p[k]
          /\ \A k \in DOMAIN (logs \o p) : k \in 1..Len(logs) \/ \E j \in 1..Len(p) : k = Len(logs) + j
      BY <1>2, <1>8, OneAfterOther
    <3>2. DOMAIN logs = 1..Len(logs) /\ DOMAIN p = 1..Len(p)
      BY <1>2, <1>8, Elements
    <3> SUFFICES ASSUME NEW k \in DOMAIN (logs \o p)
                 PROVE  \/ \E j \in DOMAIN logs : (logs \o p)[k] = logs[j]
                        \/ \E j \in DOMAIN p : (logs \o p)[k] = p[j]
      BY <2>2, <3>1
    <3>3. CASE k \in 1..Len(logs)
      BY <3>1, <3>2, <3>3
    <3>4. CASE \E j \in 1..Len(p) : k = Len(logs) + j
      BY <3>1, <3>2, <3>4
    <3> QED
      BY <3>1, <3>3, <3>4
  <2> QED
    BY <1>10, <2>1, <2>2
<1>13. LogTyped'
  <2>1. \A k \in DOMAIN logs' : logs'[k] \in 1..last
    BY <1>2, <1>8, <1>12 DEF LogTyped, PageOf
  <2>2. LogOrNone(seqNum', last) /\ LogOrNone(lastMsgSeq', last) /\ LogOrNone(selected', last)
    BY <1>2, <1>10, <1>11 DEF LogTyped, LogOrNone
  <2>3. stopLoad' \in BOOLEAN
    BY <1>2, <1>10 DEF LogTyped
  <2> QED
    BY <1>1, <1>2, <1>3, <1>4, <1>5, <1>12, <2>1, <2>2, <2>3 DEF LogTyped
<1>14. Log!OnlyOfFilter'
  <2> SUFFICES ASSUME ~mixed', ~changed', \A k \in DOMAIN gets' : ~gets'[k].changed, NEW k \in DOMAIN logs'
               PROVE  FilterOf(logs'[k]) = filter'
    BY DEF Log!OnlyOfFilter, Log!Range
  <2>1. \A j \in DOMAIN logs : FilterOf(logs[j]) = filter
    BY <1>1, <1>3, <1>a DEF LogInv, Log!OnlyOfFilter, Log!Range
  <2>2. \A j \in DOMAIN p : FilterOf(p[j]) = filter
    BY <1>3, <1>8 DEF PageOf, AllOf
  <2> QED
    BY <1>1, <1>12, <2>1, <2>2
<1>15. ASSUME ~mixed', ~missed', logs = <<>>, p = <<>> PROVE ListSound' /\ ListComes'
  <2>1. logs' = <<>> /\ seqNum' = -1 /\ lastMsgSeq' = -1 /\ Len(gets) <= got
    BY <1>3, <1>4, <1>10, <1>15 DEF LogInv, ListSound
  <2>2. Len(gets') <= got
    BY <1>2, <1>5, <2>1
  <2> QED
    BY <1>1, <2>1, <2>2 DEF ListSound, ListComes
<1>16. ASSUME ~mixed', ~missed', logs = <<>>, p # <<>> PROVE ListSound' /\ ListComes'
  <2>1. seqNum = -1 /\ Len(gets) <= got
    BY <1>3, <1>4, <1>16 DEF LogInv, ListSound
  <2>2. p[Len(p)] # -1 /\ logs \o p = p
    <3>1. p[Len(p)] # -1
      BY <1>2, <1>11, <1>16
    <3>2. logs \o p = p
      BY <1>8, <1>16
    <3> QED
      BY <3>1, <3>2
  <2>3. lastMsgSeq' = p[1] /\ selected' = p[1] /\ seqNum' = p[Len(p)] /\ logs' = p
    BY <1>10, <1>16, <2>1, <2>2
  <2>4. Again(p) + Len(gets') < got
    <3>1. Again(p) = 0
      BY <1>11, <1>16
    <3> QED
      BY <1>2, <1>5, <2>1, <3>1
  <2>5. FilterOf(p[1]) = filter /\ AllOf(p, FilterOf(p[1])) /\ NoGap(p, FilterOf(p[1])) /\ Ordered(p)
    BY <1>3, <1>11, <1>16
  <2>6. ListSound'
    BY <1>1, <1>16, <2>3, <2>4, <2>5 DEF ListSound, Again, Ordered, AllOf, NoGap, Log!Range
  <2> QED
    BY <1>1, <2>3, <2>5, <2>6 DEF ListComes
<1>17. ASSUME ~mixed', ~missed', logs # <<>> PROVE ListSound' /\ ListComes'
  <2>1. /\ seqNum = logs[Len(logs)] /\ lastMsgSeq = logs[1] /\ (changeSelected => selected = logs[1])
        /\ Ordered(logs) /\ AllOf(logs, FilterOf(logs[1])) /\ NoGap(logs, FilterOf(logs[1]))
        /\ Again(logs) + Len(gets) < got
    BY <1>3, <1>4, <1>17 DEF LogInv, ListSound
  <2>2. Len(logs) \in DOMAIN logs /\ seqNum \in 1..last /\ Again(logs) \in Nat
    <3>1. Len(logs) \in DOMAIN logs
      BY <1>2, <1>17, Elements
    <3>2. Again(logs) \in Nat
      BY <1>2, LogsFinite
    <3> QED
      BY <1>2, <2>1, <3>1, <3>2 DEF LogTyped
  <2>3. g.from # -1 /\ FilterOf(g.from) = g.filter
    BY <1>3, <1>4, <1>7, <1>9, <1>17
  <2>4. p # <<>> /\ p[1] = g.from /\ g.from = seqNum
    BY <1>8, <1>9, <1>17, <2>3
  <2>5. FilterOf(logs[1]) = g.filter /\ g.filter = filter
    BY <1>3, <1>17, <2>1, <2>2, <2>3, <2>4 DEF AllOf
  <2>6. seqNum # -1 /\ UNCHANGED <<lastMsgSeq, selected>>
    <3>1. seqNum # -1
      BY <2>3, <2>4
    <3> QED
      BY <1>10, <2>4, <3>1
  <2>7. CASE p[Len(p)] = seqNum
    <3>1. UNCHANGED <<seqNum, logs>>
      BY <1>10, <2>4, <2>7
    <3>2. Again(logs) + Len(gets') < got
      <4> DEFINE x == Again(logs)
                 y == Len(gets)
      <4> HIDE DEF x, y
      <4>1. x + y < got /\ x \in Nat /\ y \in Nat /\ Len(gets') = y - 1
        BY <1>5, <2>1, <2>2 DEF x, y
      <4>2. x + (y - 1) < got
        BY <1>2, <4>1
      <4> QED
        BY <4>1, <4>2 DEF x
    <3>3. ListSound'
      BY <1>1, <1>17, <2>1, <2>6, <3>1, <3>2 DEF ListSound, Again, Ordered, AllOf, NoGap, Log!Range
    <3> QED
      BY <1>1, <2>5, <3>1, <3>3 DEF ListComes
  <2>8. CASE p[Len(p)] # seqNum
    <3> DEFINE c == logs \o p
    <3>1. seqNum' = p[Len(p)] /\ logs' = c
      BY <1>10, <2>4, <2>8
    <3>2. PageOf(p, FilterOf(logs[1]), last)
      BY <1>8, <2>5
    <3>3. p[1] = logs[Len(logs)]
      BY <2>1, <2>4
    <3>4. /\ c # <<>> /\ c[1] = logs[1] /\ c[Len(c)] = p[Len(p)]
          /\ Ordered(c) /\ AllOf(c, FilterOf(logs[1])) /\ NoGap(c, FilterOf(logs[1]))
          /\ Again(c) = Again(logs) + 1
      BY <1>2, <1>8, <1>17, <2>1, <2>4, <3>2, <3>3, MoreLogs
    <3> HIDE DEF c
    <3>5. Again(c) + Len(gets') < got
      <4> DEFINE x == Again(logs)
                 y == Len(gets)
      <4> HIDE DEF x, y
      <4>1. x + y < got /\ x \in Nat /\ y \in Nat /\ Len(gets') = y - 1 /\ Again(c) = x + 1
        BY <1>5, <2>1, <2>2, <3>4 DEF x, y
      <4>2. (x + 1) + (y - 1) < got
        BY <1>2, <4>1
      <4> QED
        BY <4>1, <4>2
    <3>6. ListSound'
      <4>1. AllOf(c, FilterOf(c[1])) /\ NoGap(c, FilterOf(c[1]))
        BY <3>4
      <4>2. lastMsgSeq' = c[1] /\ seqNum' = c[Len(c)] /\ (changeSelected' => selected' = c[1])
        BY <1>1, <2>1, <2>6, <3>1, <3>4
      <4> QED
        BY <1>1, <3>1, <3>4, <3>5, <4>1, <4>2 DEF ListSound, Again, Ordered, AllOf, NoGap, Log!Range
    <3> QED
      BY <1>1, <2>5, <3>1, <3>4, <3>6 DEF ListComes
  <2> QED
    BY <2>7, <2>8
<1>18. ListSound' /\ ListComes'
  BY <1>15, <1>16, <1>17 DEF ListSound, ListComes
<1> QED
  BY <1>5, <1>13, <1>14, <1>18 DEF LogInv

\* The first page of a new filter comes.
LEMMA LogFirstPage ==
    ASSUME LogInv, NEW i \in DOMAIN gets, Log!GetLogs(i), gets[i].changed
    PROVE  LogInv'
<1> DEFINE g == gets[i]
           p == g.result
<1>1. /\ gets' = Without(gets, i) /\ g.done /\ loader' = FALSE /\ mixed' = (mixed \/ g.filter # filter)
      /\ missed' = (missed \/ ~Log!Fits(g)) /\ Log!ChangedPage(p)
      /\ UNCHANGED <<last, filter, changeSelected, changed, top, subs, pushes, got>>
  BY DEF Log!GetLogs, Log!ChangedPage, Log!RemoveAt, Without
<1>2. LogTyped /\ got \in Nat /\ logs \in Seq(Nat) /\ mixed \in BOOLEAN /\ missed \in BOOLEAN /\ last \in Nat /\ gets \in Seq(LogGet)
  BY DEF LogInv, LogTyped
<1>3. (~mixed' => ~mixed /\ g.filter = filter) /\ mixed' \in BOOLEAN
  BY <1>1, <1>2
<1>4. (~missed' => ~missed /\ Log!Fits(g)) /\ missed' \in BOOLEAN
  BY <1>1, <1>2
<1>5. /\ gets' \in Seq(LogGet) /\ Len(gets') = Len(gets) - 1 /\ Len(gets) \in Nat
      /\ PagesSound' /\ AskedFrom'
  BY <1>1, <1>3, <1>4, LogAnswered
<1>6. g \in LogGet /\ GetSound(g, last) /\ g.changed
  BY <1>2, Elements DEF LogInv, PagesSound
<1> HIDE DEF g
<1>7. p \in Seq(Nat) /\ PageOf(p, g.filter, last)
  BY <1>1, <1>6 DEF GetSound, LogGet
<1>8. ~missed' => p # <<>>
  BY <1>4, <1>6 DEF Log!Fits
<1>9. IF p = <<>> THEN logs' = <<>> /\ UNCHANGED <<seqNum, lastMsgSeq, selected, stopLoad, asking, listens>>
      ELSE /\ logs' = p /\ seqNum' = p[Len(p)] /\ lastMsgSeq' = p[1] /\ selected' = p[1] /\ stopLoad' = FALSE
           /\ asking' = Append(asking, filter) /\ listens' = listens + 1
  BY <1>1 DEF Log!ChangedPage, Log!StartListen
<1> HIDE DEF p
<1>10. p # <<>> => /\ p[1] \in 1..last /\ p[Len(p)] \in 1..last /\ FilterOf(p[1]) = g.filter /\ Ordered(p)
                   /\ AllOf(p, g.filter) /\ NoGap(p, g.filter) /\ Again(p) = 0
  BY <1>7, PageAlone
<1>11. logs' = p
  BY <1>9
<1>12. LogTyped'
  <2>1. \A k \in DOMAIN logs' : logs'[k] \in 1..last
    BY <1>7, <1>11 DEF PageOf
  <2>2. LogOrNone(seqNum', last) /\ LogOrNone(lastMsgSeq', last) /\ LogOrNone(selected', last)
    BY <1>2, <1>9, <1>10 DEF LogTyped, LogOrNone
  <2>3. stopLoad' \in BOOLEAN
    BY <1>2, <1>9 DEF LogTyped
  <2>4. asking' \in Seq(Filters) /\ listens' \in Nat
    <3>1. asking \in Seq(Filters) /\ filter \in Filters /\ listens \in Nat
      BY <1>2 DEF LogTyped
    <3>2. Append(asking, filter) \in Seq(Filters)
      BY <3>1, Appended
    <3> QED
      BY <1>9, <3>1, <3>2, SMTT(30)
  <2> QED
    BY <1>1, <1>2, <1>3, <1>4, <1>5, <1>7, <1>11, <2>1, <2>2, <2>3, <2>4 DEF LogTyped
<1>13. Log!OnlyOfFilter'
  BY <1>1, <1>3, <1>7, <1>11 DEF Log!OnlyOfFilter, Log!Range, PageOf, AllOf
<1>14. ListSound' /\ ListComes'
  <2> SUFFICES ASSUME ~mixed', ~missed' PROVE ListSound' /\ ListComes'
    BY DEF ListSound, ListComes
  <2>1. lastMsgSeq' = p[1] /\ selected' = p[1] /\ seqNum' = p[Len(p)] /\ p # <<>>
    BY <1>8, <1>9
  <2>2. Len(gets) <= got
    <3>1. CASE logs = <<>>
      BY <1>3, <1>4, <3>1 DEF LogInv, ListSound
    <3>2. CASE logs # <<>>
      <4>1. Again(logs) + Len(gets) < got
        BY <1>3, <1>4, <3>2 DEF LogInv, ListSound
      <4>2. Again(logs) \in Nat
        BY <1>2, LogsFinite
      <4> DEFINE x == Again(logs)
      <4> HIDE DEF x
      <4>3. x + Len(gets) < got /\ x \in Nat
        BY <4>1, <4>2 DEF x
      <4> QED
        BY <1>2, <1>5, <4>3
    <3> QED
      BY <3>1, <3>2
  <2>3. Again(p) + Len(gets') < got
    <3>1. Again(p) = 0
      BY <1>10, <2>1
    <3> QED
      BY <1>2, <1>5, <2>2, <3>1
  <2>4. FilterOf(p[1]) = filter /\ AllOf(p, FilterOf(p[1])) /\ NoGap(p, FilterOf(p[1])) /\ Ordered(p)
    BY <1>3, <1>10, <2>1
  <2>5. ListSound'
    BY <1>1, <1>11, <2>1, <2>3, <2>4 DEF ListSound, Again, Ordered, AllOf, NoGap, Log!Range
  <2> QED
    BY <1>1, <1>11, <2>4, <2>5 DEF ListComes
<1> QED
  BY <1>5, <1>12, <1>13, <1>14 DEF LogInv
\* What the page takes of a push: its front, up to the log the page knows.
LEMMA NewOfPush ==
    ASSUME NEW p \in Seq(Nat), p # <<>>, NEW w, w = Log!UniqueItems(p)
    PROVE  /\ w \in Seq(Nat) /\ \A k \in DOMAIN w : \E j \in DOMAIN p : w[k] = p[j]
           /\ lastMsgSeq \in Log!Range(p) => \E k \in DOMAIN p : p[k] = lastMsgSeq /\ Front(w, p, k - 1)
<1>1. Len(p) \in Nat /\ DOMAIN p = 1..Len(p) /\ Len(p) # 0
  BY Elements
<1> DEFINE known == {k \in DOMAIN p : p[k] = lastMsgSeq}
           c == CHOOSE k \in known : TRUE
<1>2. w = IF known = {} THEN SubSeq(p, 1, Len(p) - 1) ELSE SubSeq(p, 1, c - 1)
  BY DEF Log!UniqueItems
<1>3. known # {} => c \in DOMAIN p /\ p[c] = lastMsgSeq
  <2>1. known # {} => c \in known
    OBVIOUS
  <2> QED
    BY <2>1
<1>4. lastMsgSeq \in Log!Range(p) => known # {}
  BY DEF Log!Range
<1> HIDE DEF known, c
<1>5. PICK n : n \in Nat /\ n <= Len(p) /\ w = SubSeq(p, 1, n) /\ (known # {} => n = c - 1)
  <2>1. CASE known = {}
    <3>1. Len(p) - 1 \in Nat /\ Len(p) - 1 <= Len(p)
      BY <1>1
    <3> QED
      BY <1>2, <2>1, <3>1
  <2>2. CASE known # {}
    <3>1. c - 1 \in Nat /\ c - 1 <= Len(p)
      BY <1>1, <1>3, <2>2
    <3> QED
      BY <1>2, <2>2, <3>1
  <2> QED
    BY <2>1, <2>2
<1>6. w \in Seq(Nat) /\ Front(w, p, n) /\ 1..n \subseteq DOMAIN p
  <2>1. SubSeq(p, 1, n) \in Seq(Nat) /\ Front(SubSeq(p, 1, n), p, n) /\ 1..n \subseteq DOMAIN p
    BY <1>5, FrontOf
  <2> QED
    BY <1>5, <2>1
<1>7. DOMAIN w = 1..n
  BY <1>6, Elements DEF Front
<1>8. \A k \in DOMAIN w : \E j \in DOMAIN p : w[k] = p[j]
  BY <1>6, <1>7 DEF Front
<1>9. lastMsgSeq \in Log!Range(p) => \E k \in DOMAIN p : p[k] = lastMsgSeq /\ Front(w, p, k - 1)
  <2> SUFFICES ASSUME lastMsgSeq \in Log!Range(p) PROVE c \in DOMAIN p /\ p[c] = lastMsgSeq /\ Front(w, p, c - 1)
    OBVIOUS
  <2> QED
    BY <1>3, <1>4, <1>5, <1>6
<1> QED
  BY <1>6, <1>8, <1>9

\* The first push leaves the queue.
LEMMA PushLeaves ==
    ASSUME LogInv, pushes # <<>>, pushes' = Tail(pushes), UNCHANGED last
    PROVE  /\ pushes' \in Seq(LogPush) /\ \A j \in DOMAIN pushes' : PushSound(pushes'[j], last)
           /\ pushes[1] \in LogPush /\ PushSound(pushes[1], last)
<1>1. pushes \in Seq(LogPush)
  BY DEF LogInv, LogTyped
<1>2. Len(pushes) \in Nat /\ DOMAIN pushes = 1..Len(pushes) /\ Len(pushes) # 0
  BY <1>1, Elements
<1>3. 1 \in DOMAIN pushes
  BY <1>2
<1>4. /\ pushes' \in Seq(LogPush) /\ Len(pushes') = Len(pushes) - 1
      /\ \A j \in 1..Len(pushes') : pushes'[j] = pushes[j + 1]
  BY <1>1, HeadTailProperties
<1>5. DOMAIN pushes' = 1..Len(pushes')
  BY <1>4, Elements
<1>6. \A j \in DOMAIN pushes' : j + 1 \in DOMAIN pushes
  BY <1>2, <1>4, <1>5
<1>7. \A j \in DOMAIN pushes' : PushSound(pushes'[j], last)
  BY <1>4, <1>5, <1>6 DEF LogInv, PagesSound
<1> QED
  BY <1>1, <1>3, <1>4, <1>7, Elements DEF LogInv, PagesSound

\* A push comes.
LEMMA LogListens ==
    ASSUME LogInv, Log!Listen
    PROVE  LogInv'
<1> DEFINE q == pushes[1]
           p == q.logs
           f == q.sub.filter
           w == Log!UniqueItems(p)
           c == w \o logs
<1>1. /\ pushes # <<>> /\ pushes' = Tail(pushes) /\ logs' = c /\ lastMsgSeq' = p[1]
      /\ selected' = (IF changeSelected THEN p[1] ELSE selected)
      /\ mixed' = (mixed \/ f # filter) /\ missed' = (missed \/ lastMsgSeq \notin Log!Range(p))
      /\ UNCHANGED <<last, filter, seqNum, changeSelected, stopLoad, loader, changed, top, gets, asking, subs, listens, got>>
  BY DEF Log!Listen, Log!flagVars, Log!subVars
<1>2. LogTyped /\ got \in Nat /\ logs \in Seq(Nat) /\ mixed \in BOOLEAN /\ missed \in BOOLEAN /\ last \in Nat
  BY DEF LogInv, LogTyped
<1>3. (~mixed' => ~mixed /\ f = filter) /\ mixed' \in BOOLEAN
  BY <1>1, <1>2
<1>4. (~missed' => ~missed /\ lastMsgSeq \in Log!Range(p)) /\ missed' \in BOOLEAN
  BY <1>1, <1>2
<1>5. /\ pushes' \in Seq(LogPush) /\ \A j \in DOMAIN pushes' : PushSound(pushes'[j], last)
      /\ q \in LogPush /\ PushSound(q, last)
  BY <1>1, PushLeaves
<1> HIDE DEF q
<1>6. p \in Seq(Nat) /\ p # <<>> /\ PageOf(p, f, last)
  BY <1>5 DEF LogPush, PushSound
<1> HIDE DEF p, f
<1>7. p[1] \in 1..last /\ FilterOf(p[1]) = f
  BY <1>6, PageAlone
<1>8. w \in Seq(Nat) /\ \A k \in DOMAIN w : \E j \in DOMAIN p : w[k] = p[j]
  BY <1>6, NewOfPush
<1>9. lastMsgSeq \in Log!Range(p) => \E k \in DOMAIN p : p[k] = lastMsgSeq /\ Front(w, p, k - 1)
  BY <1>6, NewOfPush
<1> HIDE DEF w
<1>10. /\ c \in Seq(Nat)
       /\ \A k \in DOMAIN c : \/ \E j \in DOMAIN logs : c[k] = logs[j]
                             \/ \E j \in DOMAIN p : c[k] = p[j]
  <2>1. /\ c \in Seq(Nat)
        /\ \A k \in 1..Len(w) : c[k] = w[k]
        /\ \A k \in 1..Len(logs) : c[Len(w) + k] = logs[k]
        /\ \A k \in DOMAIN c : k \in 1..Len(w) \/ \E j \in 1..Len(logs) : k = Len(w) + j
    BY <1>2, <1>8, OneAfterOther
  <2>2. DOMAIN logs = 1..Len(logs) /\ DOMAIN w = 1..Len(w)
    BY <1>2, <1>8, Elements
  <2> HIDE DEF c
  <2> SUFFICES ASSUME NEW k \in DOMAIN c
               PROVE  (\E j \in DOMAIN logs : c[k] = logs[j]) \/ (\E j \in DOMAIN p : c[k] = p[j])
    BY <2>1
  <2>3. CASE k \in 1..Len(w)
    BY <1>8, <2>1, <2>2, <2>3
  <2>4. CASE \E j \in 1..Len(logs) : k = Len(w) + j
    BY <2>1, <2>2, <2>4
  <2> QED
    BY <2>1, <2>3, <2>4
<1> HIDE DEF c
<1>11. LogTyped'
  <2>1. \A k \in DOMAIN c : c[k] \in 1..last
    BY <1>2, <1>6, <1>10 DEF LogTyped, PageOf
  <2>2. LogOrNone(seqNum', last) /\ LogOrNone(lastMsgSeq', last) /\ LogOrNone(selected', last)
    BY <1>1, <1>2, <1>7 DEF LogTyped, LogOrNone
  <2> QED
    BY <1>1, <1>2, <1>3, <1>4, <1>5, <1>10, <2>1, <2>2 DEF LogTyped
<1>12. PagesSound'
  BY <1>1, <1>5 DEF LogInv, PagesSound
<1>13. Log!OnlyOfFilter'
  <2> SUFFICES ASSUME ~mixed', ~changed', \A k \in DOMAIN gets' : ~gets'[k].changed, NEW k \in DOMAIN c
               PROVE  FilterOf(c[k]) = filter
    BY <1>1 DEF Log!OnlyOfFilter, Log!Range
  <2>1. \A j \in DOMAIN logs : FilterOf(logs[j]) = filter
    BY <1>1, <1>3 DEF LogInv, Log!OnlyOfFilter, Log!Range
  <2>2. \A j \in DOMAIN p : FilterOf(p[j]) = filter
    BY <1>3, <1>6 DEF PageOf, AllOf
  <2> QED
    BY <1>10, <2>1, <2>2
<1>14. ListSound' /\ ListComes'
  <2> SUFFICES ASSUME ~mixed', ~missed' PROVE ListSound' /\ ListComes'
    BY DEF ListSound, ListComes
  <2>1. PICK k \in DOMAIN p : p[k] = lastMsgSeq /\ Front(w, p, k - 1)
    BY <1>4, <1>9
  <2>2. p[k] \in 1..last /\ FilterOf(p[k]) = f
    BY <1>6 DEF PageOf, AllOf
  <2>3. logs # <<>>
    BY <1>2, <1>3, <1>4, <2>1, <2>2 DEF LogInv, ListSound
  <2>4. /\ seqNum = logs[Len(logs)] /\ lastMsgSeq = logs[1] /\ (changeSelected => selected = logs[1])
        /\ Ordered(logs) /\ AllOf(logs, FilterOf(logs[1])) /\ NoGap(logs, FilterOf(logs[1]))
        /\ Again(logs) + Len(gets) < got
    BY <1>3, <1>4, <2>3 DEF LogInv, ListSound
  <2>5. FilterOf(logs[1]) = f /\ AllOf(logs, f) /\ NoGap(logs, f)
    BY <2>1, <2>2, <2>4
  <2>6. p[k] = logs[1]
    BY <2>1, <2>4
  <2>7. /\ c # <<>> /\ c[1] = p[1] /\ c[Len(c)] = logs[Len(logs)]
        /\ Ordered(c) /\ AllOf(c, f) /\ NoGap(c, f) /\ Again(c) = Again(logs)
    <3>1. /\ logs \in Seq(Nat) /\ p \in Seq(Nat) /\ w \in Seq(Nat) /\ logs # <<>> /\ p[k] = logs[1]
          /\ PageOf(p, f, last) /\ Front(w, p, k - 1)
      BY <1>2, <1>6, <1>8, <2>1, <2>3, <2>6
    <3>2. Ordered(logs) /\ AllOf(logs, f) /\ NoGap(logs, f)
      BY <2>4, <2>5
    <3>3. OntoList(w \o logs, logs, p, f)
      BY <3>1, <3>2, NewLogs
    <3> QED
      BY <3>3 DEF c, OntoList
  <2>8. AllOf(c, FilterOf(c[1])) /\ NoGap(c, FilterOf(c[1])) /\ FilterOf(c[1]) = filter
    BY <1>3, <1>7, <2>7
  <2>9. Again(c) + Len(gets') < got
    BY <1>1, <2>4, <2>7
  <2>10. lastMsgSeq' = c[1] /\ seqNum' = c[Len(c)] /\ (changeSelected' => selected' = c[1])
    BY <1>1, <2>4, <2>7
  <2>11. ListSound'
    BY <1>1, <2>7, <2>8, <2>9, <2>10 DEF ListSound, Again, Ordered, AllOf, NoGap, Log!Range
  <2> QED
    BY <1>1, <2>8, <2>11 DEF ListComes
<1>15. AskedFrom'
  BY <1>1, <1>3, <1>4 DEF LogInv, AskedFrom
<1> QED
  BY <1>11, <1>12, <1>13, <1>14, <1>15 DEF LogInv

\* What happens aside of the list.
LEMMA LogAside ==
    ASSUME LogInv,
           \/ Log!Subscribe \/ Log!Scroll \/ Log!Dropped
           \/ \E n \in Log!Range(logs) : Log!SelectLog(n)
           \/ \E s \in subs : Log!Push(s)
           \/ UNCHANGED Log!vars
    PROVE  LogInv'
<1>0. LogTyped /\ PagesSound /\ last \in Nat
  BY DEF LogInv, LogTyped
<1>1. \A j \in DOMAIN pushes : PushSound(pushes[j], last)
  BY <1>0 DEF PagesSound
<1>2. CASE Log!Subscribe
  <2>1. /\ asking # <<>> /\ asking' = Tail(asking) /\ subs' = subs \cup {[id |-> listens - Len(asking) + 1, filter |-> asking[1]]}
        /\ UNCHANGED <<last, filter, logs, seqNum, lastMsgSeq, selected, changeSelected, stopLoad, loader, changed, top,
                       gets, listens, pushes, got, mixed, missed>>
    BY <1>2 DEF Log!Subscribe, Log!listVars, Log!flagVars
  <2>2. asking \in Seq(Filters) /\ listens \in Nat
    BY <1>0 DEF LogTyped
  <2>3. asking' \in Seq(Filters) /\ asking[1] \in Filters /\ Len(asking) \in Nat
    <3>1. asking' \in Seq(Filters)
      BY <2>1, <2>2, HeadTailProperties
    <3>2. 1 \in DOMAIN asking /\ Len(asking) \in Nat
      <4>1. Len(asking) \in Nat /\ DOMAIN asking = 1..Len(asking) /\ Len(asking) # 0
        BY <2>1, <2>2, Elements
      <4> QED
        BY <4>1
    <3> QED
      BY <2>2, <3>1, <3>2, Elements
  <2>4. subs' \subseteq LogSub
    <3>1. listens - Len(asking) + 1 \in Int
      BY <2>2, <2>3
    <3> QED
      BY <1>0, <2>1, <2>3, <3>1 DEF LogTyped, LogSub
  <2>5. LogTyped'
    BY <1>0, <2>1, <2>3, <2>4 DEF LogTyped
  <2> QED
    BY <1>1, <2>1, <2>5, LogQuiet
<1>3. CASE Log!Scroll
  <2>1. /\ top' = ~top /\ subs' \subseteq subs
        /\ UNCHANGED <<last, filter, logs, seqNum, lastMsgSeq, selected, changeSelected, stopLoad, loader, changed,
                       gets, pushes, got, mixed, missed>>
    BY <1>3 DEF Log!Scroll, Log!listVars, Log!flagVars
  <2>2. asking' \in Seq(Filters) /\ listens' \in Nat
    <3>1. asking \in Seq(Filters) /\ filter \in Filters /\ listens \in Nat
      BY <1>0 DEF LogTyped
    <3>2. Append(asking, filter) \in Seq(Filters) /\ listens + 1 \in Nat
      BY <3>1, Appended
    <3>3. asking' \in {asking, Append(asking, filter)} /\ listens' \in {listens, listens + 1}
      BY <1>3 DEF Log!Scroll, Log!StartListen
    <3> QED
      BY <3>1, <3>2, <3>3
  <2>3. LogTyped'
    BY <1>0, <2>1, <2>2 DEF LogTyped
  <2> QED
    BY <1>1, <2>1, <2>3, LogQuiet
<1>4. CASE Log!Dropped
  <2>1. /\ pushes # <<>> /\ pushes' = Tail(pushes)
        /\ UNCHANGED <<last, filter, logs, seqNum, lastMsgSeq, selected, changeSelected, stopLoad, loader, changed, top,
                       gets, asking, subs, listens, got, mixed, missed>>
    BY <1>4 DEF Log!Dropped, Log!listVars, Log!flagVars, Log!subVars
  <2>2. pushes' \in Seq(LogPush) /\ \A j \in DOMAIN pushes' : PushSound(pushes'[j], last)
    BY <2>1, PushLeaves
  <2>3. LogTyped'
    BY <1>0, <2>1, <2>2 DEF LogTyped
  <2> QED
    BY <2>1, <2>2, <2>3, LogQuiet
<1>5. ASSUME NEW n \in Log!Range(logs), Log!SelectLog(n) PROVE LogInv'
  <2>1. /\ selected' = n /\ changeSelected' = (n = lastMsgSeq)
        /\ UNCHANGED <<last, filter, logs, seqNum, lastMsgSeq, stopLoad, loader, changed, top, gets, asking, subs, listens,
                       pushes, got, mixed, missed>>
    BY <1>5 DEF Log!SelectLog, Log!subVars
  <2>2. LogOrNone(n, last)
    BY <1>0 DEF LogTyped, Log!Range, LogOrNone
  <2>3. LogTyped'
    BY <1>0, <2>1, <2>2 DEF LogTyped
  <2>4. changeSelected' => selected' = lastMsgSeq
    BY <2>1
  <2>5. changeSelected' => selected' = lastMsgSeq \/ (changeSelected /\ selected' = selected)
    <3> SUFFICES ASSUME changeSelected' PROVE selected' = lastMsgSeq
      OBVIOUS
    <3> QED
      BY <2>4
  <2>6. UNCHANGED <<last, filter, logs, seqNum, lastMsgSeq, loader, changed, gets, got, mixed, missed>> /\ pushes' = pushes
    BY <2>1
  <2>7. \A j \in DOMAIN pushes' : PushSound(pushes'[j], last)
    BY <1>1, <2>6
  <2> QED
    BY <2>3, <2>5, <2>6, <2>7, LogQuiet
<1>6. ASSUME NEW s \in subs, Log!Push(s) PROVE LogInv'
  <2> DEFINE p == Log!Page(s.filter, -1)
             q == [sub |-> s, logs |-> p]
  <2>1. /\ p # <<>> /\ pushes' = Append(pushes, q)
        /\ UNCHANGED <<last, filter, logs, seqNum, lastMsgSeq, selected, changeSelected, stopLoad, loader, changed, top,
                       gets, asking, subs, listens, got, mixed, missed>>
    BY <1>6 DEF Log!Push, Log!listVars, Log!flagVars, Log!subVars
  <2>2. s \in LogSub /\ s.filter \in Filters
    BY <1>0 DEF LogTyped, LogSub
  <2>3. LogOrNone(-1, last)
    BY DEF LogOrNone
  <2>4. p \in Seq(Nat) /\ PageOf(p, s.filter, last)
    BY <1>0, <2>2, <2>3, PageSound
  <2> HIDE DEF p
  <2>5. q \in LogPush /\ PushSound(q, last)
    BY <2>1, <2>2, <2>4 DEF LogPush, PushSound
  <2> HIDE DEF q
  <2>6. pushes \in Seq(LogPush)
    BY <1>0 DEF LogTyped
  <2>7. /\ pushes' \in Seq(LogPush) /\ pushes'[Len(pushes')] = q
        /\ \A j \in DOMAIN pushes' : (j \in DOMAIN pushes /\ pushes'[j] = pushes[j]) \/ j = Len(pushes')
    BY <2>1, <2>5, <2>6, Appended
  <2>8. \A j \in DOMAIN pushes' : PushSound(pushes'[j], last)
    BY <1>1, <2>5, <2>7
  <2>9. LogTyped'
    BY <1>0, <2>1, <2>7 DEF LogTyped
  <2> QED
    BY <2>1, <2>8, <2>9, LogQuiet
<1>7. CASE UNCHANGED Log!vars
  <2>1. UNCHANGED <<last, filter, logs, seqNum, lastMsgSeq, selected, changeSelected, stopLoad, loader, changed, top,
                    gets, asking, subs, listens, pushes, got, mixed, missed>>
    BY <1>7 DEF Log!vars, Log!listVars, Log!flagVars, Log!subVars
  <2>2. LogTyped'
    BY <1>0, <2>1 DEF LogTyped
  <2> QED
    BY <1>1, <2>1, <2>2, LogQuiet
<1> QED
  BY <1>2, <1>3, <1>4, <1>5, <1>6, <1>7

LEMMA LogStep == LogInv /\ [Log!Next]_(Log!vars) => LogInv'
<1> SUFFICES ASSUME LogInv, [Log!Next]_(Log!vars) PROVE LogInv'
  OBVIOUS
<1>1. CASE \/ Log!Subscribe \/ Log!Scroll \/ Log!Dropped
           \/ \E n \in Log!Range(logs) : Log!SelectLog(n)
           \/ \E s \in subs : Log!Push(s)
           \/ UNCHANGED Log!vars
  BY <1>1, LogAside
<1>2. CASE Log!LoadMore
  BY <1>2, LogMore
<1>3. CASE Log!ChangedEffect
  <2>1. filter \in Filters
    BY DEF LogInv, LogTyped
  <2> QED
    BY <1>3, <2>1, LogFilters
<1>4. ASSUME NEW f \in Filters, Log!HandleFilter(f) PROVE LogInv'
  BY <1>4, LogFilters
<1>5. CASE Log!Log
  BY <1>5, LogLogs
<1>6. CASE Log!Listen
  BY <1>6, LogListens
<1>7. ASSUME NEW i \in DOMAIN gets, Log!Handle(i) PROVE LogInv'
  BY <1>7, LogHandled
<1>8. ASSUME NEW i \in DOMAIN gets, Log!GetLogs(i) PROVE LogInv'
  BY <1>8, LogNextPage, LogFirstPage
<1>9. ASSUME NEW i \in DOMAIN gets, Log!GetLogsFails(i) PROVE LogInv'
  BY <1>9, LogFails
<1> QED
  BY <1>1, <1>2, <1>3, <1>4, <1>5, <1>6, <1>7, <1>8, <1>9 DEF Log!Next

\* What the page of the system logs shows.
LEMMA LogShows ==
    ASSUME LogInv
    PROVE  Log!TypeOK /\ Log!OnlyOfFilter /\ Log!InOrder /\ Log!FollowsNewest
<1>0. LogTyped /\ Log!OnlyOfFilter /\ ListSound
  BY DEF LogInv
<1>a. last \in Nat /\ logs \in Seq(Nat) /\ got \in Nat /\ gets \in Seq(LogGet)
  BY <1>0 DEF LogTyped
<1>1. Log!TypeOK
  <2>1. seqNum \in -1..last /\ lastMsgSeq \in -1..last /\ selected \in -1..last
    BY <1>0, <1>a DEF LogTyped, LogOrNone
  <2>2. Log!Range(logs) \subseteq 1..last
    BY <1>0 DEF LogTyped, Log!Range
  <2> QED
    BY <1>0, <2>1, <2>2 DEF LogTyped, Log!TypeOK
<1>2. Log!InOrder
  <2> SUFFICES ASSUME ~mixed, ~missed, logs # <<>>
               PROVE  /\ \A k \in 1..(Len(logs) - 1) : logs[k] >= logs[k + 1]
                      /\ \A n \in logs[Len(logs)]..logs[1] : FilterOf(n) = FilterOf(logs[1]) => n \in Log!Range(logs)
                      /\ Len(logs) - Cardinality(Log!Range(logs)) < got
    BY LogCount DEF Log!InOrder
  <2>1. Ordered(logs) /\ NoGap(logs, FilterOf(logs[1])) /\ Again(logs) + Len(gets) < got
    BY <1>0 DEF ListSound
  <2>2. \A k \in 1..(Len(logs) - 1) : logs[k] >= logs[k + 1]
    <3> SUFFICES ASSUME NEW k \in 1..(Len(logs) - 1) PROVE logs[k] >= logs[k + 1]
      OBVIOUS
    <3>1. Len(logs) \in Nat /\ DOMAIN logs = 1..Len(logs)
      BY <1>a, Elements
    <3>2. k \in DOMAIN logs /\ k + 1 \in DOMAIN logs /\ k < k + 1
      BY <3>1
    <3> QED
      BY <2>1, <3>2 DEF Ordered
  <2>3. \A n \in logs[Len(logs)]..logs[1] : FilterOf(n) = FilterOf(logs[1]) => n \in Log!Range(logs)
    BY <2>1 DEF NoGap, Log!Range
  <2>4. Again(logs) < got
    <3>1. Again(logs) \in Nat
      BY <1>a, LogsFinite
    <3>2. Len(gets) \in Nat
      BY <1>a, Elements
    <3> DEFINE x == Again(logs)
               y == Len(gets)
    <3>3. x + y < got /\ x \in Nat /\ y \in Nat
      BY <2>1, <3>1, <3>2
    <3> HIDE DEF x, y
    <3>4. x < got
      BY <1>a, <3>3
    <3> QED
      BY <3>4 DEF x
  <2> QED
    BY <2>2, <2>3, <2>4 DEF Again
<1>3. Log!FollowsNewest
  BY <1>0 DEF ListSound, Log!FollowsNewest
<1> QED
  BY <1>0, <1>1, <1>2, <1>3
-----------------------------------------------------------------------------
(* The clients of a station. *)

ConnReq == [op : Clients!Ops, base : Seq(Nat), item : Nat, done : BOOLEAN, id : ConnIds]
ConnData == [cgs : Seq(CgNames), conns : Seq(Clients!Conn)]
Menu == [item : Nat, id : ConnIds]

\* Whether a request resumes a connector.
On(r) == r.op = "start"
Switches == {"start", "stop"}

\* Connectors of which each stands there once.
Distinct(l) == \A i, j \in DOMAIN l : l[i].id = l[j].id => i = j

\* A list of objects, and a request with the list that was on the screen at its click.
ListOk(l, h) ==
    /\ \A k \in DOMAIN l : l[k] \in DOMAIN h
    /\ \A k, m \in DOMAIN l : h[l[k]].id = h[l[m]].id => k = m
ReqOk(r, h) == ListOk(r.base, h) /\ (r.op = "scale" => \E k \in DOMAIN r.base : h[r.base[k]].id = r.id)

\* A request that was handled, of which the page does not know yet.
DoneFor(Q, x, ops) == \E j \in DOMAIN Q : Q[j].done /\ Q[j].id = x /\ Q[j].op \in ops

\* What the broker's connectors B have of the requests Q it handled.
HandledOk(Q, B) ==
    \A j \in DOMAIN Q : Q[j].done => \A i \in DOMAIN B : B[i].id = Q[j].id =>
        Q[j].op # "remove" /\ (Q[j].op = "scale" => B[i].n = 2)
SwitchedOk(Q, B) ==
    \A j \in DOMAIN Q : Q[j].done /\ Q[j].op \in Switches =>
        \A i \in DOMAIN B : B[i].id = Q[j].id => B[i].on = On(Q[j])

\* Of two requests for one connector, one scales it.
OneEach(Q) ==
    \A i, j \in DOMAIN Q : i # j /\ Q[i].id = Q[j].id => Q[i].op = "scale" \/ Q[j].op = "scale"

\* The list on the screen S has the broker's connectors B in their order, but for the
\* requests Q that were handled and not replied to.
RowsShown(B, S) == \A i \in DOMAIN B : \E k \in DOMAIN S : S[k].id = B[i].id
ShownKept(Q, B, S) ==
    \A k \in DOMAIN S : (\E i \in DOMAIN B : S[k].id = B[i].id) \/ DoneFor(Q, S[k].id, {"remove"})
SameOrder(B, S) ==
    \A i, j \in DOMAIN B : \A k, m \in DOMAIN S : S[k].id = B[i].id /\ S[m].id = B[j].id /\ i < j => k < m
SameState(Q, B, S) ==
    \A i \in DOMAIN B : \A k \in DOMAIN S : S[k].id = B[i].id =>
        /\ B[i].on = S[k].on \/ DoneFor(Q, S[k].id, Switches)
        /\ B[i].n = S[k].n \/ DoneFor(Q, S[k].id, {"scale"})
SameRows(Q, B, S) == RowsShown(B, S) /\ ShownKept(Q, B, S) /\ SameOrder(B, S) /\ SameState(Q, B, S)

\* The connectors on the screen.
OnScreen(l, h) == [k \in DOMAIN l |-> h[l[k]]]

DataOk(b) == b \in ConnData /\ Distinct(b.conns)

ClientsTyped ==
    /\ DataOk(broker) /\ heap \in Seq(Clients!Conn) /\ cgsList \in Seq(CgNames)
    /\ connectors \in Seq(Nat) /\ ListOk(connectors, heap)
    /\ popover \in Menu \cup {NoRow}
    /\ reqs \in Seq(ConnReq) /\ \A j \in DOMAIN reqs : ReqOk(reqs[j], heap)
    /\ data = <<>> \/ (\E b : data = <<b>> /\ DataOk(b))
    /\ selected \in Nat /\ sent \in 0..MaxClicks /\ aside \in BOOLEAN

ConnsOk(Q, B, S) == OneEach(Q) /\ SwitchedOk(Q, B) /\ SameRows(Q, B, S)

ClientsInv ==
    /\ ClientsTyped /\ Clients!DetailsOfHighlighted /\ HandledOk(reqs, broker.conns)
    /\ ~aside => ConnsOk(reqs, broker.conns, OnScreen(connectors, heap))

\* A connector, and what a request makes of it.
LEMMA ConnFields ==
    ASSUME NEW b \in Clients!Conn, NEW v \in BOOLEAN
    PROVE  /\ b.id \in ConnIds
           /\ [b EXCEPT !.n = 2] \in Clients!Conn /\ [b EXCEPT !.n = 2].id = b.id /\ [b EXCEPT !.n = 2].on = b.on
           /\ [b EXCEPT !.n = 2].n = 2
           /\ [b EXCEPT !.on = v] \in Clients!Conn /\ [b EXCEPT !.on = v].id = b.id /\ [b EXCEPT !.on = v].n = b.n
           /\ [b EXCEPT !.on = v].on = v
BY DEF Clients!Conn

LEMMA SameConn ==
    ASSUME NEW b \in Clients!Conn, NEW s \in Clients!Conn, b.id = s.id, b.on = s.on, b.n = s.n
    PROVE  b = s
BY DEF Clients!Conn

\* A map of places onto places that keeps their order leaves them where they are.
LEMMA OrderedOnto ==
    ASSUME NEW a \in Nat, NEW b \in Nat, NEW g \in [1..a -> 1..b],
           \A i, j \in 1..a : i < j => g[i] < g[j], \A k \in 1..b : \E i \in 1..a : g[i] = k
    PROVE  a = b
<1>1. \A c \in Nat : IsFiniteSet(1..c) /\ Cardinality(1..c) = c
  <2> SUFFICES ASSUME NEW c \in Nat PROVE IsFiniteSet(1..c) /\ Cardinality(1..c) = c
    OBVIOUS
  <2> QED
    BY FS_Interval
<1>2. \A i, j \in 1..a : g[i] = g[j] => i = j
  <2> SUFFICES ASSUME NEW i \in 1..a, NEW j \in 1..a, g[i] = g[j], i # j PROVE FALSE
    OBVIOUS
  <2>1. i < j \/ j < i
    OBVIOUS
  <2>2. g[i] \in Nat /\ g[j] \in Nat
    OBVIOUS
  <2>3. g[i] < g[j] \/ g[j] < g[i]
    BY <2>1
  <2> QED
    BY <2>2, <2>3
<1>3. g \in Surjection(1..a, 1..b) /\ g \in Injection(1..a, 1..b)
  BY <1>2 DEF Surjection, Injection, IsInjective
<1>4. Cardinality(1..b) = Cardinality(1..a)
  BY <1>1, <1>3, FS_Surjection
<1> QED
  BY <1>1, <1>4

Climbs(f, n, m) ==
    f \in [1..n -> 1..m] /\ (\A i, j \in 1..n : i < j => f[i] < f[j]) /\ \A k \in 1..m : \E i \in 1..n : f[i] = k

LEMMA OrderIsPlace ==
    ASSUME NEW n \in Nat, NEW m \in Nat, NEW f, Climbs(f, n, m), NEW i \in 1..n
    PROVE  f[i] = i
<1>a. f \in [1..n -> 1..m] /\ (\A j, k \in 1..n : j < k => f[j] < f[k]) /\ \A k \in 1..m : \E j \in 1..n : f[j] = k
  BY DEF Climbs
<1>r. \A j \in 1..n : f[j] \in 1..m
  BY <1>a
<1> DEFINE g == [j \in 1..i |-> f[j]]
           b == f[i]
<1>0. i \in Nat /\ b \in Nat /\ \A j \in 1..i : j \in 1..n
  BY <1>r
<1>1. ASSUME NEW j \in 1..i PROVE f[j] \in 1..b
  <2>1. f[j] \in 1..m /\ (j < i \/ j = i) /\ j \in 1..n
    BY <1>r, <1>0
  <2>2. j < i => f[j] < f[i]
    BY <1>a, <2>1
  <2>3. f[j] <= f[i]
    BY <1>0, <2>1, <2>2
  <2> QED
    BY <1>0, <2>1, <2>3
<1>2. ASSUME NEW k \in 1..b PROVE \E j \in 1..i : f[j] = k
  <2>1. k \in 1..m
    BY <1>r
  <2>2. PICK j \in 1..n : f[j] = k
    BY <1>a, <2>1
  <2>3. j <= i
    <3> SUFFICES ASSUME ~(j <= i) PROVE FALSE
      OBVIOUS
    <3>1. i < j
      OBVIOUS
    <3>2. f[i] < f[j]
      BY <1>a, <3>1
    <3> QED
      BY <1>0, <2>2, <3>2
  <2> QED
    BY <2>2, <2>3
<1>3. g \in [1..i -> 1..b]
  BY <1>1
<1>4. \A j \in 1..i : g[j] = f[j]
  OBVIOUS
<1>5. \A j, k \in 1..i : j < k => g[j] < g[k]
  BY <1>a, <1>0, <1>4
<1> HIDE DEF g, b
<1>6. \A k \in 1..b : \E j \in 1..i : g[j] = k
  BY <1>2, <1>4 DEF b
<1>7. i = b
  BY <1>0, <1>3, <1>5, <1>6, OrderedOnto, ZenonT(60)
<1> QED
  BY <1>7 DEF b

\* With no request under way the page shows what the broker has.
LEMMA NothingUnderWay ==
    ASSUME NEW B \in Seq(Clients!Conn), NEW S \in Seq(Clients!Conn), NEW Q, DOMAIN Q = {},
           Distinct(B), Distinct(S), SameRows(Q, B, S)
    PROVE  S = B
<1> DEFINE n == Len(B)
           m == Len(S)
<1>1. /\ n \in Nat /\ DOMAIN B = 1..n /\ \A i \in 1..n : B[i] \in Clients!Conn
      /\ m \in Nat /\ DOMAIN S = 1..m /\ \A i \in 1..m : S[i] \in Clients!Conn
  BY Elements
<1> HIDE DEF n, m
<1>2. \A x, ops : ~DoneFor(Q, x, ops)
  BY DEF DoneFor
<1> DEFINE at(i) == CHOOSE k \in 1..m : S[k].id = B[i].id
           f == [i \in 1..n |-> at(i)]
<1>3. \A i \in 1..n : at(i) \in 1..m /\ S[at(i)].id = B[i].id
  BY <1>1 DEF SameRows, RowsShown
<1> HIDE DEF at
<1>4. f \in [1..n -> 1..m] /\ \A i \in 1..n : f[i] = at(i)
  BY <1>3
<1> HIDE DEF f
<1>5. ASSUME NEW i \in 1..n, NEW j \in 1..n, i < j PROVE f[i] < f[j]
  <2>1. i \in DOMAIN B /\ j \in DOMAIN B /\ f[i] \in DOMAIN S /\ f[j] \in DOMAIN S
    BY <1>1, <1>3, <1>4
  <2>2. S[f[i]].id = B[i].id /\ S[f[j]].id = B[j].id
    BY <1>3, <1>4
  <2> QED
    BY <1>5, <2>1, <2>2 DEF SameRows, SameOrder
<1>6. ASSUME NEW k \in 1..m PROVE \E i \in 1..n : f[i] = k
  <2>1. PICK i \in 1..n : S[k].id = B[i].id
    BY <1>1, <1>2 DEF SameRows, ShownKept
  <2>2. at(i) \in 1..m /\ S[at(i)].id = S[k].id
    BY <1>3, <2>1
  <2>3. at(i) = k
    BY <1>1, <2>2 DEF Distinct
  <2> QED
    BY <1>4, <2>3
<1>7. n = m /\ \A i \in 1..n : f[i] = i
  <2>1. \A i, j \in 1..n : i < j => f[i] < f[j]
    BY <1>5
  <2>2. \A k \in 1..m : \E i \in 1..n : f[i] = k
    BY <1>6
  <2>3. n \in Nat /\ m \in Nat /\ f \in [1..n -> 1..m]
    BY <1>1, <1>4
  <2>4. n = m
    BY <2>1, <2>2, <2>3, OrderedOnto
  <2>5. \A i \in 1..n : f[i] = i
    <3> SUFFICES ASSUME NEW i \in 1..n PROVE f[i] = i
      OBVIOUS
    <3>1. Climbs(f, n, m)
      BY <2>1, <2>2, <2>3 DEF Climbs
    <3> QED
      BY <2>3, <3>1, OrderIsPlace
  <2> QED
    BY <2>4, <2>5
<1>8. \A i \in 1..n : S[i].id = B[i].id
  BY <1>3, <1>4, <1>7
<1>9. \A i \in 1..n : B[i].on = S[i].on /\ B[i].n = S[i].n
  BY <1>1, <1>2, <1>7, <1>8 DEF SameRows, SameState
<1>10. \A i \in 1..n : S[i] = B[i]
  BY <1>1, <1>7, <1>8, <1>9, SameConn
<1> QED
  BY <1>1, <1>7, <1>10, SeqEqual DEF n, m
\* More handled requests excuse as much.
LEMMA ExcusedStill ==
    ASSUME NEW Q, NEW R, NEW B, NEW S, SameRows(Q, B, S), \A x, ops : DoneFor(Q, x, ops) => DoneFor(R, x, ops)
    PROVE  SameRows(R, B, S)
<1>1. RowsShown(B, S) /\ SameOrder(B, S)
  BY DEF SameRows
<1>2. ShownKept(R, B, S)
  BY DEF SameRows, ShownKept
<1>3. SameState(R, B, S)
  BY DEF SameRows, SameState
<1> QED
  BY <1>1, <1>2, <1>3 DEF SameRows

\* A request is sent.
LEMMA ConnAsked ==
    ASSUME NEW Q \in Seq(ConnReq), NEW q \in ConnReq, ~q.done, NEW R, R = Append(Q, q), NEW B, NEW S
    PROVE  /\ HandledOk(Q, B) => HandledOk(R, B)
           /\ SwitchedOk(Q, B) => SwitchedOk(R, B)
           /\ SameRows(Q, B, S) => SameRows(R, B, S)
           /\ OneEach(Q) /\ (q.op = "scale" \/ \A j \in DOMAIN Q : Q[j].id # q.id) => OneEach(R)
<1>1. /\ \A j \in DOMAIN Q : j \in DOMAIN R /\ R[j] = Q[j]
      /\ \A j \in DOMAIN R : (j \in DOMAIN Q /\ R[j] = Q[j]) \/ (j = Len(R) /\ R[j] = q)
  BY Appended
<1>2. HandledOk(Q, B) => HandledOk(R, B)
  BY <1>1 DEF HandledOk
<1>3. SwitchedOk(Q, B) => SwitchedOk(R, B)
  BY <1>1 DEF SwitchedOk
<1>4. \A x, ops : DoneFor(Q, x, ops) => DoneFor(R, x, ops)
  BY <1>1 DEF DoneFor
<1>5. SameRows(Q, B, S) => SameRows(R, B, S)
  BY <1>4, ExcusedStill
<1>6. OneEach(Q) /\ (q.op = "scale" \/ \A j \in DOMAIN Q : Q[j].id # q.id) => OneEach(R)
  BY <1>1 DEF OneEach
<1> QED
  BY <1>2, <1>3, <1>5, <1>6

\* A request leaves.
LEMMA ConnLeft ==
    ASSUME NEW Q \in Seq(ConnReq), NEW i \in DOMAIN Q, NEW R, R = Without(Q, i), NEW B
    PROVE  /\ HandledOk(Q, B) => HandledOk(R, B)
           /\ SwitchedOk(Q, B) => SwitchedOk(R, B)
           /\ OneEach(Q) => OneEach(R)
           /\ \A x, ops : DoneFor(Q, x, ops) =>
                 DoneFor(R, x, ops) \/ (Q[i].done /\ Q[i].id = x /\ Q[i].op \in ops)
<1>1. \A j \in DOMAIN R : \E k \in DOMAIN Q : R[j] = Q[k]
  BY Answered
<1>2. \A k \in DOMAIN Q : k # i => \E j \in DOMAIN R : R[j] = Q[k]
  BY Answered
<1>3. \A a, b \in DOMAIN R : a # b => \E k1, k2 \in DOMAIN Q : k1 # k2 /\ R[a] = Q[k1] /\ R[b] = Q[k2]
  BY Apart
<1>4. HandledOk(Q, B) => HandledOk(R, B)
  BY <1>1 DEF HandledOk
<1>5. SwitchedOk(Q, B) => SwitchedOk(R, B)
  BY <1>1 DEF SwitchedOk
<1>6. OneEach(Q) => OneEach(R)
  <2> SUFFICES ASSUME OneEach(Q), NEW a \in DOMAIN R, NEW b \in DOMAIN R, a # b, R[a].id = R[b].id
               PROVE  R[a].op = "scale" \/ R[b].op = "scale"
    BY DEF OneEach
  <2>1. PICK k1 \in DOMAIN Q, k2 \in DOMAIN Q : k1 # k2 /\ R[a] = Q[k1] /\ R[b] = Q[k2]
    BY <1>3
  <2> QED
    BY <2>1 DEF OneEach
<1>7. ASSUME NEW x, NEW ops, DoneFor(Q, x, ops)
      PROVE  DoneFor(R, x, ops) \/ (Q[i].done /\ Q[i].id = x /\ Q[i].op \in ops)
  <2>1. PICK k \in DOMAIN Q : Q[k].done /\ Q[k].id = x /\ Q[k].op \in ops
    BY <1>7 DEF DoneFor
  <2>2. CASE k = i
    BY <2>1, <2>2
  <2>3. CASE k # i
    BY <1>2, <2>1, <2>3 DEF DoneFor
  <2> QED
    BY <2>2, <2>3
<1> QED
  BY <1>4, <1>5, <1>6, <1>7

\* A request that was not handled fails.
LEMMA ConnGivenUp ==
    ASSUME NEW Q \in Seq(ConnReq), NEW i \in DOMAIN Q, ~Q[i].done, NEW R, R = Without(Q, i), NEW B, NEW S, ConnsOk(Q, B, S)
    PROVE  ConnsOk(R, B, S)
<1>1. OneEach(R) /\ SwitchedOk(R, B)
  BY ConnLeft DEF ConnsOk
<1>2. \A x, ops : DoneFor(Q, x, ops) => DoneFor(R, x, ops)
  BY ConnLeft
<1>3. SameRows(R, B, S)
  BY <1>2, ExcusedStill DEF ConnsOk
<1> QED
  BY <1>1, <1>3 DEF ConnsOk

-----------------------------------------------------------------------------
\* The request at i is handled, the others are as they were.
HandledAt(Q, R, i) ==
    /\ DOMAIN R = DOMAIN Q /\ i \in DOMAIN Q /\ R[i].done
    /\ \A j \in DOMAIN Q : /\ R[j].id = Q[j].id /\ R[j].op = Q[j].op
                          /\ (Q[j].done => R[j].done) /\ (R[j].done => Q[j].done \/ j = i)

LEMMA HandledMore ==
    ASSUME NEW Q, NEW R, NEW i, HandledAt(Q, R, i)
    PROVE  /\ \A x, ops : DoneFor(Q, x, ops) => DoneFor(R, x, ops)
           /\ \A ops : Q[i].op \in ops => DoneFor(R, Q[i].id, ops)
           /\ OneEach(Q) => OneEach(R)
<1>1. \A x, ops : DoneFor(Q, x, ops) => DoneFor(R, x, ops)
  BY DEF DoneFor, HandledAt
<1>2. \A ops : Q[i].op \in ops => DoneFor(R, Q[i].id, ops)
  BY DEF DoneFor, HandledAt
<1>3. OneEach(Q) => OneEach(R)
  BY DEF OneEach, HandledAt
<1> QED
  BY <1>1, <1>2, <1>3

\* The broker removes a connector it has.
LEMMA ConnRemoved ==
    ASSUME NEW Q, NEW R, NEW i, HandledAt(Q, R, i), Q[i].op = "remove",
           NEW B \in Seq(Clients!Conn), Distinct(B), NEW a \in DOMAIN B, B[a].id = Q[i].id, NEW D, D = Without(B, a)
    PROVE  /\ D \in Seq(Clients!Conn) /\ Distinct(D)
           /\ HandledOk(Q, B) => HandledOk(R, D)
           /\ \A S : ConnsOk(Q, B, S) => ConnsOk(R, D, S)
<1>1. D \in Seq(Clients!Conn) /\ \A j \in DOMAIN D : \E k \in DOMAIN B : k # a /\ D[j] = B[k]
  BY Answered
<1>2. \A k \in DOMAIN B : k # a => \E j \in DOMAIN D : D[j] = B[k]
  BY Answered
<1>3. \A j1, j2 \in DOMAIN D : j1 < j2 => \E k1, k2 \in DOMAIN B : k1 < k2 /\ D[j1] = B[k1] /\ D[j2] = B[k2]
  BY Answered
<1>4. Distinct(D)
  <2> SUFFICES ASSUME NEW j \in DOMAIN D, NEW k \in DOMAIN D, D[j].id = D[k].id, j # k PROVE FALSE
    BY DEF Distinct
  <2>1. PICK k1 \in DOMAIN B, k2 \in DOMAIN B : k1 # k2 /\ D[j] = B[k1] /\ D[k] = B[k2]
    BY Apart
  <2> QED
    BY <2>1 DEF Distinct
<1>5. \A j \in DOMAIN D : D[j].id # Q[i].id
  <2> SUFFICES ASSUME NEW j \in DOMAIN D, D[j].id = Q[i].id PROVE FALSE
    OBVIOUS
  <2>1. PICK k \in DOMAIN B : k # a /\ D[j] = B[k]
    BY <1>1
  <2> QED
    BY <2>1 DEF Distinct
<1>6. HandledOk(Q, B) => HandledOk(R, D)
  <2> SUFFICES ASSUME HandledOk(Q, B), NEW j \in DOMAIN R, R[j].done, NEW k \in DOMAIN D, D[k].id = R[j].id
               PROVE  R[j].op # "remove" /\ (R[j].op = "scale" => D[k].n = 2)
    BY DEF HandledOk
  <2>1. j \in DOMAIN Q /\ R[j].id = Q[j].id /\ R[j].op = Q[j].op /\ (Q[j].done \/ j = i)
    BY DEF HandledAt
  <2>2. j # i
    BY <1>5, <2>1
  <2>3. PICK m \in DOMAIN B : D[k] = B[m]
    BY <1>1
  <2> QED
    BY <2>1, <2>2, <2>3 DEF HandledOk
<1>7. ASSUME NEW S, ConnsOk(Q, B, S) PROVE ConnsOk(R, D, S)
  <2>1. OneEach(R)
    BY <1>7, HandledMore DEF ConnsOk
  <2>2. SwitchedOk(R, D)
    <3> SUFFICES ASSUME NEW j \in DOMAIN R, R[j].done, R[j].op \in Switches, NEW k \in DOMAIN D, D[k].id = R[j].id
                 PROVE  D[k].on = On(R[j])
      BY DEF SwitchedOk
    <3>1. j \in DOMAIN Q /\ R[j].id = Q[j].id /\ R[j].op = Q[j].op /\ (Q[j].done \/ j = i)
      BY DEF HandledAt
    <3>2. j # i
      BY <1>5, <3>1
    <3>3. PICK m \in DOMAIN B : D[k] = B[m]
      BY <1>1
    <3>4. On(R[j]) = On(Q[j])
      BY <3>1 DEF On
    <3>5. B[m].on = On(Q[j])
      BY <1>7, <3>1, <3>2, <3>3 DEF ConnsOk, SwitchedOk
    <3> QED
      BY <3>3, <3>4, <3>5
  <2>3. SameRows(R, B, S)
    BY <1>7, HandledMore, ExcusedStill DEF ConnsOk
  <2>4. RowsShown(D, S)
    BY <1>1, <2>3 DEF SameRows, RowsShown
  <2>5. ShownKept(R, D, S)
    <3> SUFFICES ASSUME NEW k \in DOMAIN S PROVE (\E j \in DOMAIN D : S[k].id = D[j].id) \/ DoneFor(R, S[k].id, {"remove"})
      BY DEF ShownKept
    <3>1. CASE DoneFor(R, S[k].id, {"remove"})
      BY <3>1
    <3>2. CASE \E m \in DOMAIN B : S[k].id = B[m].id
      <4>1. PICK m \in DOMAIN B : S[k].id = B[m].id
        BY <3>2
      <4>2. CASE m = a
        <5>1. S[k].id = Q[i].id /\ Q[i].op \in {"remove"}
          BY <4>1, <4>2
        <5> QED
          BY <5>1, HandledMore
      <4>3. CASE m # a
        BY <1>2, <4>1, <4>3
      <4> QED
        BY <4>2, <4>3
    <3> QED
      BY <2>3, <3>1, <3>2 DEF SameRows, ShownKept
  <2>6. SameOrder(D, S)
    <3> SUFFICES ASSUME NEW j1 \in DOMAIN D, NEW j2 \in DOMAIN D, NEW k \in DOMAIN S, NEW m \in DOMAIN S,
                        S[k].id = D[j1].id, S[m].id = D[j2].id, j1 < j2
                 PROVE  k < m
      BY DEF SameOrder
    <3>1. PICK k1 \in DOMAIN B, k2 \in DOMAIN B : k1 < k2 /\ D[j1] = B[k1] /\ D[j2] = B[k2]
      BY <1>3
    <3> QED
      BY <2>3, <3>1 DEF SameRows, SameOrder
  <2>7. SameState(R, D, S)
    <3> SUFFICES ASSUME NEW j \in DOMAIN D, NEW k \in DOMAIN S, S[k].id = D[j].id
                 PROVE  /\ D[j].on = S[k].on \/ DoneFor(R, S[k].id, Switches)
                        /\ D[j].n = S[k].n \/ DoneFor(R, S[k].id, {"scale"})
      BY DEF SameState
    <3>1. PICK m \in DOMAIN B : D[j] = B[m]
      BY <1>1
    <3> QED
      BY <2>3, <3>1 DEF SameRows, SameState
  <2> QED
    BY <2>1, <2>2, <2>4, <2>5, <2>6, <2>7 DEF ConnsOk, SameRows
<1> QED
  BY <1>1, <1>4, <1>6, <1>7

\* The broker removes a connector that is gone.
LEMMA ConnGone ==
    ASSUME NEW Q, NEW R, NEW i, HandledAt(Q, R, i), Q[i].op = "remove", NEW B, \A a \in DOMAIN B : B[a].id # Q[i].id
    PROVE  /\ HandledOk(Q, B) => HandledOk(R, B)
           /\ \A S : ConnsOk(Q, B, S) => ConnsOk(R, B, S)
<1>1. HandledOk(Q, B) => HandledOk(R, B)
  <2> SUFFICES ASSUME HandledOk(Q, B), NEW j \in DOMAIN R, R[j].done, NEW k \in DOMAIN B, B[k].id = R[j].id
               PROVE  R[j].op # "remove" /\ (R[j].op = "scale" => B[k].n = 2)
    BY DEF HandledOk
  <2>1. j \in DOMAIN Q /\ R[j].id = Q[j].id /\ R[j].op = Q[j].op /\ (Q[j].done \/ j = i)
    BY DEF HandledAt
  <2>2. j # i
    BY <2>1
  <2> QED
    BY <2>1, <2>2 DEF HandledOk
<1>2. ASSUME NEW S, ConnsOk(Q, B, S) PROVE ConnsOk(R, B, S)
  <2>1. OneEach(R)
    BY <1>2, HandledMore DEF ConnsOk
  <2>2. SwitchedOk(R, B)
    <3> SUFFICES ASSUME NEW j \in DOMAIN R, R[j].done, R[j].op \in Switches, NEW k \in DOMAIN B, B[k].id = R[j].id
                 PROVE  B[k].on = On(R[j])
      BY DEF SwitchedOk
    <3>1. j \in DOMAIN Q /\ R[j].id = Q[j].id /\ R[j].op = Q[j].op /\ (Q[j].done \/ j = i)
      BY DEF HandledAt
    <3>2. j # i
      BY <3>1
    <3>3. On(R[j]) = On(Q[j])
      BY <3>1 DEF On
    <3>4. B[k].on = On(Q[j])
      BY <1>2, <3>1, <3>2 DEF ConnsOk, SwitchedOk
    <3> QED
      BY <3>3, <3>4
  <2>3. SameRows(R, B, S)
    BY <1>2, HandledMore, ExcusedStill DEF ConnsOk
  <2> QED
    BY <2>1, <2>2, <2>3 DEF ConnsOk
<1> QED
  BY <1>1, <1>2
\* The broker changes a connector, which keeps its place.
SameIds(B, D) == DOMAIN D = DOMAIN B /\ \A k \in DOMAIN B : D[k].id = B[k].id

LEMMA SamePlaces ==
    ASSUME NEW B, NEW D, SameIds(B, D)
    PROVE  /\ Distinct(B) => Distinct(D)
           /\ \A S : RowsShown(B, S) => RowsShown(D, S)
           /\ \A Q, S : ShownKept(Q, B, S) => ShownKept(Q, D, S)
           /\ \A S : SameOrder(B, S) => SameOrder(D, S)
<1>1. Distinct(B) => Distinct(D)
  BY DEF Distinct, SameIds
<1>2. \A S : RowsShown(B, S) => RowsShown(D, S)
  BY DEF RowsShown, SameIds
<1>3. \A Q, S : ShownKept(Q, B, S) => ShownKept(Q, D, S)
  BY DEF ShownKept, SameIds
<1>4. \A S : SameOrder(B, S) => SameOrder(D, S)
  BY DEF SameOrder, SameIds
<1> QED
  BY <1>1, <1>2, <1>3, <1>4

LEMMA ConnSwitched ==
    ASSUME NEW Q, NEW R, NEW i, HandledAt(Q, R, i), Q[i].op \in Switches, NEW B, NEW D, SameIds(B, D),
           \A k \in DOMAIN B : /\ D[k].n = B[k].n
                             /\ D[k].on = IF B[k].id = Q[i].id THEN On(Q[i]) ELSE B[k].on
    PROVE  /\ HandledOk(Q, B) => HandledOk(R, D)
           /\ \A S : ConnsOk(Q, B, S) => ConnsOk(R, D, S)
<1>0. Q[i].op # "remove" /\ Q[i].op # "scale"
  BY DEF Switches
<1>1. DOMAIN D = DOMAIN B /\ \A k \in DOMAIN B : D[k].id = B[k].id
  BY DEF SameIds
<1>2. HandledOk(Q, B) => HandledOk(R, D)
  <2> SUFFICES ASSUME HandledOk(Q, B), NEW j \in DOMAIN R, R[j].done, NEW k \in DOMAIN D, D[k].id = R[j].id
               PROVE  R[j].op # "remove" /\ (R[j].op = "scale" => D[k].n = 2)
    BY DEF HandledOk
  <2>1. j \in DOMAIN Q /\ R[j].id = Q[j].id /\ R[j].op = Q[j].op /\ (Q[j].done \/ j = i)
    BY DEF HandledAt
  <2>2. CASE j = i
    BY <1>0, <2>1, <2>2
  <2>3. CASE j # i
    BY <1>1, <2>1, <2>3 DEF HandledOk
  <2> QED
    BY <2>2, <2>3
<1>3. ASSUME NEW S, ConnsOk(Q, B, S) PROVE ConnsOk(R, D, S)
  <2>1. OneEach(R)
    BY <1>3, HandledMore DEF ConnsOk
  <2>2. SwitchedOk(R, D)
    <3> SUFFICES ASSUME NEW j \in DOMAIN R, R[j].done, R[j].op \in Switches, NEW k \in DOMAIN D, D[k].id = R[j].id
                 PROVE  D[k].on = On(R[j])
      BY DEF SwitchedOk
    <3>1. j \in DOMAIN Q /\ R[j].id = Q[j].id /\ R[j].op = Q[j].op /\ (Q[j].done \/ j = i) /\ i \in DOMAIN Q
      BY DEF HandledAt
    <3>2. On(R[j]) = On(Q[j])
      BY <3>1 DEF On
    <3>3. CASE j = i
      <4>1. k \in DOMAIN B /\ B[k].id = Q[i].id
        BY <1>1, <3>1, <3>3
      <4> QED
        BY <3>2, <3>3, <4>1
    <3>4. CASE j # i
      <4>1. Q[j].id # Q[i].id
        BY <1>0, <1>3, <3>1, <3>4 DEF ConnsOk, OneEach, Switches
      <4>2. k \in DOMAIN B /\ B[k].id = Q[j].id /\ B[k].id # Q[i].id
        BY <1>1, <3>1, <4>1
      <4>3. B[k].on = On(Q[j])
        BY <1>3, <3>1, <3>4, <4>2 DEF ConnsOk, SwitchedOk
      <4> QED
        BY <3>2, <4>2, <4>3
    <3> QED
      BY <3>3, <3>4
  <2>3. SameRows(R, B, S)
    BY <1>3, HandledMore, ExcusedStill DEF ConnsOk
  <2>4. RowsShown(D, S) /\ ShownKept(R, D, S) /\ SameOrder(D, S)
    BY <2>3, SamePlaces DEF SameRows
  <2>5. SameState(R, D, S)
    <3> SUFFICES ASSUME NEW j \in DOMAIN D, NEW k \in DOMAIN S, S[k].id = D[j].id
                 PROVE  /\ D[j].on = S[k].on \/ DoneFor(R, S[k].id, Switches)
                        /\ D[j].n = S[k].n \/ DoneFor(R, S[k].id, {"scale"})
      BY DEF SameState
    <3>1. j \in DOMAIN B /\ S[k].id = B[j].id /\ D[j].n = B[j].n
      BY <1>1
    <3>2. (B[j].on = S[k].on \/ DoneFor(R, S[k].id, Switches)) /\ (B[j].n = S[k].n \/ DoneFor(R, S[k].id, {"scale"}))
      BY <2>3, <3>1 DEF SameRows, SameState
    <3>3. CASE B[j].id = Q[i].id
      BY <3>1, <3>2, <3>3, HandledMore
    <3>4. CASE B[j].id # Q[i].id
      BY <3>1, <3>2, <3>4
    <3> QED
      BY <3>3, <3>4
  <2> QED
    BY <2>1, <2>2, <2>4, <2>5 DEF ConnsOk, SameRows
<1> QED
  BY <1>2, <1>3

LEMMA ConnScaled ==
    ASSUME NEW Q, NEW R, NEW i, HandledAt(Q, R, i), Q[i].op = "scale", NEW B, NEW D, SameIds(B, D),
           \A k \in DOMAIN B : /\ D[k].on = B[k].on
                             /\ D[k].n = IF B[k].id = Q[i].id THEN 2 ELSE B[k].n
    PROVE  /\ HandledOk(Q, B) => HandledOk(R, D)
           /\ \A S : ConnsOk(Q, B, S) => ConnsOk(R, D, S)
<1>0. Q[i].op \notin Switches /\ Q[i].op # "remove"
  BY DEF Switches
<1>1. DOMAIN D = DOMAIN B /\ \A k \in DOMAIN B : D[k].id = B[k].id
  BY DEF SameIds
<1>2. HandledOk(Q, B) => HandledOk(R, D)
  <2> SUFFICES ASSUME HandledOk(Q, B), NEW j \in DOMAIN R, R[j].done, NEW k \in DOMAIN D, D[k].id = R[j].id
               PROVE  R[j].op # "remove" /\ (R[j].op = "scale" => D[k].n = 2)
    BY DEF HandledOk
  <2>1. j \in DOMAIN Q /\ R[j].id = Q[j].id /\ R[j].op = Q[j].op /\ (Q[j].done \/ j = i)
    BY DEF HandledAt
  <2>2. CASE j = i
    BY <1>0, <1>1, <2>1, <2>2
  <2>3. CASE j # i
    BY <1>1, <2>1, <2>3 DEF HandledOk
  <2> QED
    BY <2>2, <2>3
<1>3. ASSUME NEW S, ConnsOk(Q, B, S) PROVE ConnsOk(R, D, S)
  <2>1. OneEach(R)
    BY <1>3, HandledMore DEF ConnsOk
  <2>2. SwitchedOk(R, D)
    <3> SUFFICES ASSUME NEW j \in DOMAIN R, R[j].done, R[j].op \in Switches, NEW k \in DOMAIN D, D[k].id = R[j].id
                 PROVE  D[k].on = On(R[j])
      BY DEF SwitchedOk
    <3>1. j \in DOMAIN Q /\ R[j].id = Q[j].id /\ R[j].op = Q[j].op /\ (Q[j].done \/ j = i)
      BY DEF HandledAt
    <3>2. On(R[j]) = On(Q[j])
      BY <3>1 DEF On
    <3>3. j # i
      BY <1>0, <3>1
    <3>4. B[k].on = On(Q[j])
      BY <1>1, <1>3, <3>1, <3>3 DEF ConnsOk, SwitchedOk
    <3> QED
      BY <1>1, <3>2, <3>4
  <2>3. SameRows(R, B, S)
    BY <1>3, HandledMore, ExcusedStill DEF ConnsOk
  <2>4. RowsShown(D, S) /\ ShownKept(R, D, S) /\ SameOrder(D, S)
    BY <2>3, SamePlaces DEF SameRows
  <2>5. SameState(R, D, S)
    <3> SUFFICES ASSUME NEW j \in DOMAIN D, NEW k \in DOMAIN S, S[k].id = D[j].id
                 PROVE  /\ D[j].on = S[k].on \/ DoneFor(R, S[k].id, Switches)
                        /\ D[j].n = S[k].n \/ DoneFor(R, S[k].id, {"scale"})
      BY DEF SameState
    <3>1. j \in DOMAIN B /\ S[k].id = B[j].id /\ D[j].on = B[j].on
      BY <1>1
    <3>2. (B[j].on = S[k].on \/ DoneFor(R, S[k].id, Switches)) /\ (B[j].n = S[k].n \/ DoneFor(R, S[k].id, {"scale"}))
      BY <2>3, <3>1 DEF SameRows, SameState
    <3>3. CASE B[j].id = Q[i].id
      <4>1. Q[i].op \in {"scale"}
        OBVIOUS
      <4>2. DoneFor(R, S[k].id, {"scale"})
        BY <3>1, <3>3, <4>1, HandledMore
      <4> QED
        BY <3>1, <3>2, <4>2
    <3>4. CASE B[j].id # Q[i].id
      BY <3>1, <3>2, <3>4
    <3> QED
      BY <3>3, <3>4
  <2> QED
    BY <2>1, <2>2, <2>4, <2>5 DEF ConnsOk, SameRows
<1> QED
  BY <1>2, <1>3

-----------------------------------------------------------------------------
\* The reply to a removal: the connector leaves the list.
LEMMA RemoveSeen ==
    ASSUME NEW Q \in Seq(ConnReq), NEW i \in DOMAIN Q, NEW R, R = Without(Q, i), Q[i].done, Q[i].op = "remove",
           NEW B, HandledOk(Q, B), NEW S \in Seq(Clients!Conn), Distinct(S), NEW p \in DOMAIN S, S[p].id = Q[i].id,
           ConnsOk(Q, B, S), NEW T, T = Without(S, p)
    PROVE  ConnsOk(R, B, T)
<1>1. \A j \in DOMAIN T : \E k \in DOMAIN S : k # p /\ T[j] = S[k]
  BY Answered
<1>2. \A k \in DOMAIN S : k # p => \E j \in DOMAIN T : T[j] = S[k]
  BY Answered
<1>3. \A j1, j2 \in DOMAIN T : j1 < j2 => \E k1, k2 \in DOMAIN S : k1 < k2 /\ T[j1] = S[k1] /\ T[j2] = S[k2]
  <2>1. \A j1, j2 \in DOMAIN T : j1 < j2 =>
           \E k1, k2 \in DOMAIN S : k1 < k2 /\ k1 # p /\ k2 # p /\ T[j1] = S[k1] /\ T[j2] = S[k2]
    BY Answered, SMTT(30)
  <2> QED
    BY <2>1
<1>4. \A j \in DOMAIN B : B[j].id # Q[i].id
  BY DEF HandledOk
<1>5. SameRows(Q, B, S)
  BY DEF ConnsOk
<1>6. \A x, ops : x # Q[i].id /\ DoneFor(Q, x, ops) => DoneFor(R, x, ops)
  BY ConnLeft
<1>7. OneEach(R) /\ SwitchedOk(R, B)
  BY ConnLeft DEF ConnsOk
<1>8. RowsShown(B, T)
  <2> SUFFICES ASSUME NEW j \in DOMAIN B PROVE \E k \in DOMAIN T : T[k].id = B[j].id
    BY DEF RowsShown
  <2>1. PICK m \in DOMAIN S : S[m].id = B[j].id
    BY <1>5 DEF SameRows, RowsShown
  <2>2. m # p
    BY <1>4, <2>1
  <2> QED
    BY <1>2, <2>1, <2>2
<1>9. ShownKept(R, B, T)
  <2> SUFFICES ASSUME NEW k \in DOMAIN T PROVE (\E j \in DOMAIN B : T[k].id = B[j].id) \/ DoneFor(R, T[k].id, {"remove"})
    BY DEF ShownKept
  <2>1. PICK m \in DOMAIN S : m # p /\ T[k] = S[m]
    BY <1>1
  <2>2. S[m].id # Q[i].id
    BY <2>1 DEF Distinct
  <2>3. (\E j \in DOMAIN B : S[m].id = B[j].id) \/ DoneFor(Q, S[m].id, {"remove"})
    BY <1>5 DEF SameRows, ShownKept
  <2> QED
    BY <1>6, <2>1, <2>2, <2>3
<1>10. SameOrder(B, T)
  <2> SUFFICES ASSUME NEW j1 \in DOMAIN B, NEW j2 \in DOMAIN B, NEW k \in DOMAIN T, NEW m \in DOMAIN T,
                      T[k].id = B[j1].id, T[m].id = B[j2].id, j1 < j2
               PROVE  k < m
    BY DEF SameOrder
  <2>0. T \in Seq(Clients!Conn)
    BY Answered
  <2>1. (k < m \/ k = m \/ m < k) /\ k \in Nat
    <3>1. Len(T) \in Nat /\ DOMAIN T = 1..Len(T)
      BY <2>0, Elements
    <3> QED
      BY <3>1
  <2>2. k # m
    <3> SUFFICES ASSUME k = m PROVE FALSE
      OBVIOUS
    <3>1. PICK k1 \in DOMAIN S : T[k] = S[k1]
      BY <1>1
    <3>2. k1 < k1
      BY <1>5, <3>1 DEF SameRows, SameOrder
    <3>3. k1 \in Nat
      <4>1. Len(S) \in Nat /\ DOMAIN S = 1..Len(S)
        BY Elements
      <4> QED
        BY <4>1
    <3> QED
      BY <3>2, <3>3
  <2>3. ~(m < k)
    <3> SUFFICES ASSUME m < k PROVE FALSE
      OBVIOUS
    <3>1. PICK k1 \in DOMAIN S, k2 \in DOMAIN S : k1 < k2 /\ T[m] = S[k1] /\ T[k] = S[k2]
      BY <1>3
    <3>2. k2 < k1
      BY <1>5, <3>1 DEF SameRows, SameOrder
    <3>3. k1 \in Nat /\ k2 \in Nat
      <4>1. Len(S) \in Nat /\ DOMAIN S = 1..Len(S)
        BY Elements
      <4> QED
        BY <4>1
    <3> QED
      BY <3>1, <3>2, <3>3
  <2> QED
    BY <2>1, <2>2, <2>3
<1>11. SameState(R, B, T)
  <2> SUFFICES ASSUME NEW j \in DOMAIN B, NEW k \in DOMAIN T, T[k].id = B[j].id
               PROVE  /\ B[j].on = T[k].on \/ DoneFor(R, T[k].id, Switches)
                      /\ B[j].n = T[k].n \/ DoneFor(R, T[k].id, {"scale"})
    BY DEF SameState
  <2>1. PICK m \in DOMAIN S : T[k] = S[m]
    BY <1>1
  <2>2. /\ B[j].on = S[m].on \/ DoneFor(Q, S[m].id, Switches)
        /\ B[j].n = S[m].n \/ DoneFor(Q, S[m].id, {"scale"})
    BY <1>5, <2>1 DEF SameRows, SameState
  <2>3. S[m].id # Q[i].id
    BY <1>4, <2>1
  <2> QED
    BY <1>6, <2>1, <2>2, <2>3
<1> QED
  BY <1>7, <1>8, <1>9, <1>10, <1>11 DEF ConnsOk, SameRows

\* The reply to another request: the connector's row changes where it stands.
LEMMA ChangeSeen ==
    ASSUME NEW Q \in Seq(ConnReq), NEW i \in DOMAIN Q, NEW R, R = Without(Q, i), Q[i].done, Q[i].op # "remove",
           NEW B, HandledOk(Q, B), NEW S, Distinct(S), NEW p \in DOMAIN S, S[p].id = Q[i].id,
           ConnsOk(Q, B, S), NEW T, SameIds(S, T), \A k \in DOMAIN S : k # p => T[k] = S[k],
           \/ Q[i].op \in Switches /\ T[p].on = On(Q[i]) /\ T[p].n = S[p].n
           \/ Q[i].op = "scale" /\ T[p].n = 2 /\ T[p].on = S[p].on
    PROVE  ConnsOk(R, B, T)
<1>1. DOMAIN T = DOMAIN S /\ \A k \in DOMAIN S : T[k].id = S[k].id
  BY DEF SameIds
<1>2. SameRows(Q, B, S) /\ SwitchedOk(Q, B)
  BY DEF ConnsOk
<1>3. OneEach(R) /\ SwitchedOk(R, B)
  BY ConnLeft DEF ConnsOk
<1>4. RowsShown(B, T)
  BY <1>1, <1>2 DEF SameRows, RowsShown
<1>5. SameOrder(B, T)
  BY <1>1, <1>2 DEF SameRows, SameOrder
<1>6. ShownKept(R, B, T)
  <2> SUFFICES ASSUME NEW k \in DOMAIN T PROVE (\E j \in DOMAIN B : T[k].id = B[j].id) \/ DoneFor(R, T[k].id, {"remove"})
    BY DEF ShownKept
  <2>1. (\E j \in DOMAIN B : S[k].id = B[j].id) \/ DoneFor(Q, S[k].id, {"remove"})
    BY <1>1, <1>2 DEF SameRows, ShownKept
  <2>2. DoneFor(Q, S[k].id, {"remove"}) => DoneFor(R, S[k].id, {"remove"})
    BY ConnLeft
  <2> QED
    BY <1>1, <2>1, <2>2
<1>7. SameState(R, B, T)
  <2> SUFFICES ASSUME NEW j \in DOMAIN B, NEW k \in DOMAIN T, T[k].id = B[j].id
               PROVE  /\ B[j].on = T[k].on \/ DoneFor(R, T[k].id, Switches)
                      /\ B[j].n = T[k].n \/ DoneFor(R, T[k].id, {"scale"})
    BY DEF SameState
  <2>1. k \in DOMAIN S /\ S[k].id = B[j].id /\ T[k].id = S[k].id
    BY <1>1
  <2>2. /\ B[j].on = S[k].on \/ DoneFor(Q, S[k].id, Switches)
        /\ B[j].n = S[k].n \/ DoneFor(Q, S[k].id, {"scale"})
    BY <1>2, <2>1 DEF SameRows, SameState
  <2>3. \A ops : DoneFor(Q, S[k].id, ops) => DoneFor(R, S[k].id, ops) \/ (Q[i].id = S[k].id /\ Q[i].op \in ops)
    BY ConnLeft
  <2>4. CASE k # p
    <3>1. S[k].id # Q[i].id
      BY <2>1, <2>4 DEF Distinct
    <3> QED
      BY <2>1, <2>2, <2>3, <2>4, <3>1
  <2>5. CASE k = p /\ Q[i].op \in Switches
    <3>1. T[k].on = On(Q[i]) /\ T[k].n = S[k].n /\ Q[i].op \notin {"scale"}
      BY <2>5 DEF Switches
    <3>2. B[j].on = On(Q[i])
      BY <1>2, <2>1, <2>5 DEF SwitchedOk
    <3> QED
      BY <2>1, <2>2, <2>3, <3>1, <3>2
  <2>6. CASE k = p /\ Q[i].op = "scale"
    <3>1. T[k].n = 2 /\ T[k].on = S[k].on /\ Q[i].op \notin Switches
      BY <2>6 DEF Switches
    <3>2. B[j].n = 2
      BY <2>1, <2>6 DEF HandledOk
    <3> QED
      BY <2>1, <2>2, <2>3, <3>1, <3>2
  <2> QED
    BY <2>4, <2>5, <2>6
<1> QED
  BY <1>3, <1>4, <1>5, <1>6, <1>7 DEF ConnsOk, SameRows

\* New station data: the page shows what the broker has.
LEMMA DataSeen ==
    ASSUME NEW Q, NEW B, Distinct(B), OneEach(Q), SwitchedOk(Q, B)
    PROVE  ConnsOk(Q, B, B)
<1>1. RowsShown(B, B) /\ ShownKept(Q, B, B)
  BY DEF RowsShown, ShownKept
<1>2. SameOrder(B, B)
  BY DEF SameOrder, Distinct
<1>3. SameState(Q, B, B)
  BY DEF SameState, Distinct
<1> QED
  BY <1>1, <1>2, <1>3 DEF ConnsOk, SameRows
-----------------------------------------------------------------------------
\* The objects of the page keep the connector they stand for.
HeapKept(h, g) == \A o \in DOMAIN h : o \in DOMAIN g /\ g[o].id = h[o].id

LEMMA ListsKept ==
    ASSUME NEW h, NEW g, HeapKept(h, g)
    PROVE  /\ \A l : ListOk(l, h) => ListOk(l, g)
           /\ \A r : ReqOk(r, h) => ReqOk(r, g)
<1>1. \A l : ListOk(l, h) => ListOk(l, g)
  BY DEF ListOk, HeapKept
<1>2. \A r : ReqOk(r, h) => ReqOk(r, g)
  BY <1>1 DEF ReqOk, ListOk, HeapKept
<1> QED
  BY <1>1, <1>2

\* A list on the screen.
LEMMA Screen ==
    ASSUME NEW h \in Seq(Clients!Conn), NEW l \in Seq(Nat), ListOk(l, h)
    PROVE  /\ OnScreen(l, h) \in Seq(Clients!Conn) /\ Distinct(OnScreen(l, h)) /\ DOMAIN OnScreen(l, h) = DOMAIN l
           /\ \A k \in DOMAIN l : l[k] \in DOMAIN h /\ OnScreen(l, h)[k] = h[l[k]]
<1> DEFINE S == OnScreen(l, h)
<1>1. DOMAIN S = DOMAIN l /\ \A k \in DOMAIN l : S[k] = h[l[k]]
  BY DEF OnScreen
<1>2. Len(l) \in Nat /\ DOMAIN l = 1..Len(l)
  BY Elements
<1>3. \A k \in DOMAIN l : l[k] \in DOMAIN h /\ h[l[k]] \in Clients!Conn
  BY Elements DEF ListOk
<1>4. S \in [1..Len(l) -> Clients!Conn]
  BY <1>2, <1>3 DEF OnScreen
<1> HIDE DEF S
<1>5. S \in Seq(Clients!Conn)
  BY <1>2, <1>4, SeqDef
<1>6. Distinct(S)
  BY <1>1 DEF Distinct, ListOk
<1> QED
  BY <1>1, <1>3, <1>5, <1>6 DEF S

\* A connector is scaled on the screen: a copy takes its place.
Copied(h, l, p, g, m) ==
    g = Append(h, [h[l[p]] EXCEPT !.n = 2]) /\ m = [l EXCEPT ![p] = Len(h) + 1]

LEMMA CopyInPlace ==
    ASSUME NEW h \in Seq(Clients!Conn), NEW l \in Seq(Nat), ListOk(l, h), NEW p \in DOMAIN l,
           NEW g, NEW m, Copied(h, l, p, g, m)
    PROVE  /\ g \in Seq(Clients!Conn) /\ HeapKept(h, g) /\ m \in Seq(Nat) /\ ListOk(m, g)
           /\ SameIds(OnScreen(l, h), OnScreen(m, g))
           /\ \A k \in DOMAIN l : k # p => OnScreen(m, g)[k] = OnScreen(l, h)[k]
           /\ OnScreen(m, g)[p].n = 2 /\ OnScreen(m, g)[p].on = OnScreen(l, h)[p].on
<1> DEFINE b == [h[l[p]] EXCEPT !.n = 2]
<1>1. \A k \in DOMAIN l : l[k] \in DOMAIN h /\ h[l[k]] \in Clients!Conn
  BY Elements DEF ListOk
<1>2. b \in Clients!Conn /\ b.id = h[l[p]].id /\ b.on = h[l[p]].on /\ b.n = 2
  <2>1. h[l[p]] \in Clients!Conn
    BY <1>1
  <2>2. TRUE \in BOOLEAN
    OBVIOUS
  <2> QED
    BY <2>1, <2>2, ConnFields
<1> HIDE DEF b
<1>3. g = Append(h, b)
  BY DEF b, Copied
<1>4. /\ g \in Seq(Clients!Conn) /\ Len(g) = Len(h) + 1 /\ Len(g) \in DOMAIN g /\ g[Len(g)] = b
      /\ \A j \in DOMAIN h : j \in DOMAIN g /\ g[j] = h[j]
  BY <1>2, <1>3, Appended
<1>5. Len(h) + 1 \in Nat /\ Len(h) \in Nat /\ DOMAIN h = 1..Len(h)
  <2>1. Len(h) \in Nat /\ DOMAIN h = 1..Len(h)
    BY Elements
  <2> QED
    BY <2>1
<1>6. /\ m \in Seq(Nat) /\ DOMAIN m = DOMAIN l /\ m[p] = Len(h) + 1
      /\ \A j \in DOMAIN l : j # p => m[j] = l[j]
  <2>1. m = [l EXCEPT ![p] = Len(h) + 1]
    BY DEF Copied
  <2> QED
    BY <1>5, <2>1, Changed
<1>7. HeapKept(h, g)
  BY <1>4 DEF HeapKept
<1>8. g[m[p]] = b /\ m[p] \in DOMAIN g /\ \A k \in DOMAIN l : k # p => g[m[k]] = h[l[k]] /\ m[k] \in DOMAIN g
  BY <1>1, <1>4, <1>6
<1>9. \A k \in DOMAIN l : g[m[k]].id = h[l[k]].id /\ m[k] \in DOMAIN g
  BY <1>2, <1>8
<1>10. ListOk(m, g)
  BY <1>6, <1>9 DEF ListOk
<1>11. /\ DOMAIN OnScreen(l, h) = DOMAIN l /\ DOMAIN OnScreen(m, g) = DOMAIN l
       /\ \A k \in DOMAIN l : OnScreen(l, h)[k] = h[l[k]] /\ OnScreen(m, g)[k] = g[m[k]]
  BY <1>6 DEF OnScreen
<1>12. SameIds(OnScreen(l, h), OnScreen(m, g))
  BY <1>9, <1>11 DEF SameIds
<1>13. \A k \in DOMAIN l : k # p => OnScreen(m, g)[k] = OnScreen(l, h)[k]
  BY <1>8, <1>11
<1>14. OnScreen(m, g)[p].n = 2 /\ OnScreen(m, g)[p].on = OnScreen(l, h)[p].on
  BY <1>2, <1>8, <1>11
<1> QED
  BY <1>4, <1>6, <1>7, <1>10, <1>12, <1>13, <1>14

\* A connector is paused or resumed on the screen: its object is written to.
Written(h, l, p, v, o, g) == o = l[p] /\ g = [h EXCEPT ![o] = [h[o] EXCEPT !.on = v]]

LEMMA WrittenInPlace ==
    ASSUME NEW h \in Seq(Clients!Conn), NEW l \in Seq(Nat), ListOk(l, h), NEW p \in DOMAIN l, NEW v \in BOOLEAN,
           NEW o, NEW g, Written(h, l, p, v, o, g)
    PROVE  /\ g \in Seq(Clients!Conn) /\ HeapKept(h, g) /\ ListOk(l, g)
           /\ SameIds(OnScreen(l, h), OnScreen(l, g))
           /\ \A k \in DOMAIN l : k # p => OnScreen(l, g)[k] = OnScreen(l, h)[k]
           /\ OnScreen(l, g)[p].n = OnScreen(l, h)[p].n /\ OnScreen(l, g)[p].on = v
<1> DEFINE b == [h[o] EXCEPT !.on = v]
<1>0. o = l[p] /\ g = [h EXCEPT ![o] = b]
  BY DEF Written
<1>1. \A k \in DOMAIN l : l[k] \in DOMAIN h /\ h[l[k]] \in Clients!Conn
  BY Elements DEF ListOk
<1>2. b \in Clients!Conn /\ b.id = h[o].id /\ b.on = v /\ b.n = h[o].n
  <2>1. h[o] \in Clients!Conn
    BY <1>0, <1>1
  <2> DEFINE c == h[o]
  <2>2. b = [c EXCEPT !.on = v] /\ c \in Clients!Conn
    BY <2>1
  <2> HIDE DEF c
  <2>3. b \in Clients!Conn /\ b.id = c.id /\ b.on = v /\ b.n = c.n
    BY <2>2 DEF Clients!Conn
  <2> QED
    BY <2>3 DEF c
<1>4. o \in DOMAIN h
  BY <1>0, <1>1
<1> HIDE DEF b
<1>5. /\ g \in Seq(Clients!Conn) /\ DOMAIN g = DOMAIN h /\ g[o] = b
      /\ \A j \in DOMAIN h : j # o => g[j] = h[j]
  BY <1>0, <1>2, <1>4, Changed
<1>6. HeapKept(h, g)
  BY <1>2, <1>5 DEF HeapKept
<1>7. ListOk(l, g)
  BY <1>6, ListsKept
<1>8. \A k \in DOMAIN l : k # p => l[k] # o
  BY <1>0 DEF ListOk
<1>9. /\ DOMAIN OnScreen(l, h) = DOMAIN l /\ DOMAIN OnScreen(l, g) = DOMAIN l
      /\ \A k \in DOMAIN l : OnScreen(l, h)[k] = h[l[k]] /\ OnScreen(l, g)[k] = g[l[k]]
  BY DEF OnScreen
<1>10. \A k \in DOMAIN l : k # p => OnScreen(l, g)[k] = OnScreen(l, h)[k]
  BY <1>1, <1>5, <1>8, <1>9
<1>11. OnScreen(l, g)[p] = b /\ OnScreen(l, h)[p] = h[o]
  BY <1>0, <1>5, <1>9
<1>12. SameIds(OnScreen(l, h), OnScreen(l, g))
  BY <1>2, <1>9, <1>10, <1>11 DEF SameIds
<1> QED
  BY <1>2, <1>5, <1>6, <1>7, <1>10, <1>11, <1>12

\* A connector leaves the screen.
LEMMA TakenOff ==
    ASSUME NEW h \in Seq(Clients!Conn), NEW l \in Seq(Nat), ListOk(l, h), NEW p \in DOMAIN l, NEW m, m = Without(l, p)
    PROVE  m \in Seq(Nat) /\ ListOk(m, h) /\ OnScreen(m, h) = Without(OnScreen(l, h), p)
<1> DEFINE S == OnScreen(l, h)
           T == OnScreen(m, h)
           W == Without(S, p)
           n == Len(l)
<1>1. m \in Seq(Nat) /\ \A j \in DOMAIN m : \E k \in DOMAIN l : m[j] = l[k]
  BY Answered
<1>2. ListOk(m, h)
  <2>1. \A j \in DOMAIN m : m[j] \in DOMAIN h
    BY <1>1 DEF ListOk
  <2>2. ASSUME NEW j \in DOMAIN m, NEW k \in DOMAIN m, h[m[j]].id = h[m[k]].id, j # k PROVE FALSE
    <3>1. PICK k1 \in DOMAIN l, k2 \in DOMAIN l : k1 # k2 /\ m[j] = l[k1] /\ m[k] = l[k2]
      BY <2>2, Apart
    <3> QED
      BY <2>2, <3>1 DEF ListOk
  <2> QED
    BY <2>1, <2>2 DEF ListOk
<1>3. n \in Nat /\ DOMAIN l = 1..n /\ p \in 1..n
  BY Elements
<1>4. S \in Seq(Clients!Conn) /\ DOMAIN S = DOMAIN l /\ \A k \in DOMAIN l : S[k] = h[l[k]]
  BY Screen
<1>5. T \in Seq(Clients!Conn) /\ DOMAIN T = DOMAIN m /\ \A k \in DOMAIN m : T[k] = h[m[k]]
  BY <1>1, <1>2, Screen
<1> HIDE DEF S, T
<1>6. Len(S) = n
  <2>1. Len(S) \in Nat /\ DOMAIN S = 1..Len(S)
    BY <1>4, Elements
  <2> HIDE DEF n
  <2> QED
    BY <1>3, <1>4, <2>1
<1>7. Len(m) = n - 1 /\ \A j \in 1..n - 1 : m[j] = IF j < p THEN l[j] ELSE l[j + 1]
  BY <1>3, WithoutOne
<1>8. W \in Seq(Clients!Conn) /\ Len(W) = n - 1 /\ \A j \in 1..n - 1 : W[j] = IF j < p THEN S[j] ELSE S[j + 1]
  <2>1. p \in 1..Len(S)
    BY <1>3, <1>6
  <2>2. /\ W \in Seq(Clients!Conn) /\ Len(W) = Len(S) - 1
        /\ \A j \in 1..Len(S) - 1 : W[j] = IF j < p THEN S[j] ELSE S[j + 1]
    BY <1>4, <2>1, WithoutOne
  <2> HIDE DEF W, n
  <2> QED
    BY <1>6, <2>2
<1> HIDE DEF W, n
<1>9. DOMAIN m = 1..n - 1
  BY <1>1, <1>7, Elements
<1>10. Len(T) = n - 1
  <2>1. Len(T) \in Nat /\ DOMAIN T = 1..Len(T)
    BY <1>5, Elements
  <2>2. n - 1 \in Nat
    BY <1>3
  <2> DEFINE c == n - 1
  <2>3. 1..c = 1..Len(T) /\ c \in Nat
    BY <1>5, <1>9, <2>1, <2>2
  <2> HIDE DEF c
  <2> DEFINE d == Len(T)
  <2>a. 1..c = 1..d /\ c \in Nat /\ d \in Nat
    BY <2>1, <2>3
  <2> HIDE DEF d
  <2>b. c > 0 => c \in 1..d
    BY <2>a
  <2>c. d > 0 => d \in 1..c
    BY <2>a
  <2>d. c = d
    BY <2>a, <2>b, <2>c
  <2>4. c = Len(T)
    BY <2>d DEF d
  <2> QED
    BY <2>4 DEF c
<1>11. ASSUME NEW j \in 1..n - 1 PROVE T[j] = W[j]
  <2>1. j \in 1..n /\ j + 1 \in 1..n
    BY <1>3
  <2>2. T[j] = h[m[j]]
    BY <1>5, <1>9
  <2>3. CASE j < p
    BY <1>3, <1>4, <1>7, <1>8, <2>1, <2>2, <2>3
  <2>4. CASE ~(j < p)
    BY <1>3, <1>4, <1>7, <1>8, <2>1, <2>2, <2>4
  <2> QED
    BY <2>3, <2>4
<1>12. T = W
  BY <1>5, <1>8, <1>10, <1>11, SeqEqual
<1> QED
  BY <1>1, <1>2, <1>12 DEF S, T, W
-----------------------------------------------------------------------------
\* A function on the first numbers is a sequence.
LEMMA SeqOfLength == ASSUME NEW S, NEW n \in Nat, NEW f \in [1..n -> S] PROVE f \in Seq(S)
BY SeqDef

\* The rows, and the details of one.
LEMMA ConnRows ==
    ASSUME NEW c \in Seq(CgNames), NEW h \in Seq(Clients!Conn), NEW l \in Seq(Nat), ListOk(l, h),
           NEW i \in DOMAIN Clients!Names(c, l, h)
    PROVE  /\ i \in Nat /\ Len(c) \in Nat /\ Clients!Names(c, l, h)[i] \in CgNames \cup ConnIds
           /\ i > Len(c) => i - Len(c) \in DOMAIN l /\ Clients!Names(c, l, h)[i] = h[l[i - Len(c)]].id
                            /\ Clients!Names(c, l, h)[i] \in ConnIds
<1> DEFINE u == [k \in DOMAIN l |-> h[l[k]].id]
           a == Len(c)
<1>1. Len(l) \in Nat /\ DOMAIN l = 1..Len(l) /\ DOMAIN u = DOMAIN l
  BY Elements
<1>2. \A k \in DOMAIN l : h[l[k]].id \in ConnIds
  <2> SUFFICES ASSUME NEW k \in DOMAIN l PROVE h[l[k]].id \in ConnIds
    OBVIOUS
  <2>1. h[l[k]] \in Clients!Conn
    BY Elements DEF ListOk
  <2> QED
    BY <2>1 DEF Clients!Conn
<1>3. \A k \in DOMAIN l : u[k] = h[l[k]].id
  BY <1>1
<1>a. u \in [1..Len(l) -> ConnIds]
  BY <1>1, <1>2
<1> HIDE DEF u
<1>4. u \in Seq(ConnIds)
  BY <1>1, <1>a, SeqOfLength
<1>5. Len(u) \in Nat /\ DOMAIN u = 1..Len(u) /\ \A k \in DOMAIN u : u[k] \in ConnIds
  BY <1>4, Elements
<1>6. a \in Nat /\ DOMAIN c = 1..a /\ \A k \in DOMAIN c : c[k] \in CgNames
  BY Elements
<1>7. u \in Seq(CgNames \cup ConnIds) /\ c \in Seq(CgNames \cup ConnIds)
  BY <1>4
<1>8. Clients!Names(c, l, h) = c \o u
  BY DEF Clients!Names, u
<1>9. /\ \A k \in 1..a : (c \o u)[k] = c[k]
      /\ \A k \in 1..Len(u) : (c \o u)[a + k] = u[k]
      /\ \A k \in DOMAIN (c \o u) : k \in 1..a \/ \E j \in 1..Len(u) : k = a + j
  BY <1>7, OneAfterOther
<1>10. i \in 1..a \/ \E j \in 1..Len(u) : i = a + j
  BY <1>8, <1>9
<1> HIDE DEF a
<1>11. CASE i \in 1..a
  <2>1. i \in Nat /\ ~(i > a) /\ (c \o u)[i] = c[i]
    BY <1>6, <1>9, <1>11
  <2>2. c[i] \in CgNames
    BY <1>6, <1>11
  <2> QED
    BY <1>6, <1>8, <2>1, <2>2 DEF a
<1>12. ASSUME NEW j \in 1..Len(u), i = a + j
       PROVE  /\ i \in Nat /\ Clients!Names(c, l, h)[i] \in ConnIds
              /\ i - a \in DOMAIN l /\ Clients!Names(c, l, h)[i] = h[l[i - a]].id
  <2>1. i \in Nat /\ i - a = j
    BY <1>5, <1>6, <1>12
  <2>2. (c \o u)[i] = u[j] /\ u[j] \in ConnIds /\ j \in DOMAIN l /\ u[j] = h[l[j]].id
    BY <1>1, <1>3, <1>5, <1>9, <1>12
  <2> QED
    BY <1>8, <2>1, <2>2
<1> QED
  BY <1>6, <1>10, <1>11, <1>12 DEF a

LEMMA ConnDetails ==
    ASSUME cgDetails' = Clients!ArrangeData(cgsList', connectors', heap', selected')
    PROVE  Clients!DetailsOfHighlighted'
BY DEF Clients!DetailsOfHighlighted, Clients!ArrangeData, Clients!Rows

LEMMA ClientsCount == ASSUME NEW S PROVE Clients!Cardinality(S) = Cardinality(S)
BY DEF Clients!Cardinality, Cardinality

LEMMA ClientsStart == Clients!Init => ClientsInv
<1> SUFFICES ASSUME Clients!Init PROVE ClientsInv
  OBVIOUS
<1> DEFINE s == Listing(ConnIds)
           B == [k \in DOMAIN s |-> [id |-> s[k], on |-> TRUE, n |-> 1]]
<1>1. /\ broker \in [cgs : {<<>>} \cup {<<g>> : g \in CgNames}, conns : {B}]
      /\ heap = broker.conns /\ cgsList = broker.cgs /\ connectors = [k \in DOMAIN broker.conns |-> k]
      /\ popover = NoRow /\ reqs = <<>> /\ sent = 0 /\ data = <<>> /\ selected = 1 /\ aside = FALSE
  <2>1. Clients!SetToSeq(ConnIds) = s
    BY ClientsCount DEF Clients!SetToSeq, Listing
  <2> QED
    BY <2>1 DEF Clients!Init
<1>2. cgDetails = Clients!ArrangeData(cgsList, connectors, heap, selected)
  BY DEF Clients!Init
<1>3. IsFiniteSet(ConnIds)
  BY ConsoleAdminAssumption, Zenon
<1>4. /\ s \in Seq(ConnIds) /\ Len(s) = Cardinality(ConnIds)
      /\ \A i, j \in 1..Cardinality(ConnIds) : s[i] = s[j] => i = j
  BY <1>3, ListingOf
<1> HIDE DEF s
<1>5. Len(s) \in Nat /\ DOMAIN s = 1..Len(s) /\ \A i \in DOMAIN s : s[i] \in ConnIds
  BY <1>4, Elements
<1>6. DOMAIN B = 1..Len(s) /\ \A k \in 1..Len(s) : B[k] = [id |-> s[k], on |-> TRUE, n |-> 1]
  BY <1>5
<1>7. \A k \in 1..Len(s) : B[k] \in Clients!Conn /\ B[k].id = s[k]
  BY <1>5, <1>6 DEF Clients!Conn
<1>8. B \in Seq(Clients!Conn)
  <2>1. B \in [1..Len(s) -> Clients!Conn]
    <3>1. B = [k \in 1..Len(s) |-> B[k]]
      BY <1>5
    <3> HIDE DEF B
    <3> QED
      BY <1>7, <3>1
  <2> HIDE DEF B
  <2> QED
    BY <1>5, <2>1, SeqDef
<1> HIDE DEF B
<1>9. Distinct(B)
  BY <1>4, <1>6, <1>7 DEF Distinct
<1>10. broker.conns = B /\ broker.cgs \in Seq(CgNames) /\ broker \in ConnData
  <2>1. broker.conns = B /\ broker.cgs \in {<<>>} \cup {<<g>> : g \in CgNames}
    BY <1>1
  <2>2. <<>> \in Seq(CgNames) /\ \A g \in CgNames : <<g>> \in Seq(CgNames)
    OBVIOUS
  <2> QED
    BY <1>1, <1>8, <2>1, <2>2 DEF ConnData
<1>11. DataOk(broker)
  BY <1>9, <1>10 DEF DataOk
<1>12. /\ heap = B /\ connectors = [k \in DOMAIN B |-> k]
  BY <1>1, <1>10
<1>13. connectors \in Seq(Nat)
  <2>1. connectors \in [1..Len(s) -> Nat]
    BY <1>6, <1>12
  <2> QED
    BY <1>5, <2>1, SeqDef
<1>14. ListOk(connectors, heap)
  BY <1>9, <1>12 DEF ListOk, Distinct
<1>15. OnScreen(connectors, heap) = B
  <2>1. OnScreen(connectors, heap) = [k \in DOMAIN B |-> B[k]]
    BY <1>12 DEF OnScreen
  <2>2. B = [k \in DOMAIN B |-> B[k]]
    BY <1>8
  <2> QED
    BY <2>1, <2>2
<1>16. DOMAIN reqs = {} /\ reqs \in Seq(ConnReq)
  BY <1>1
<1>17. ClientsTyped
  <2>1. sent \in 0..MaxClicks
    BY <1>1, Bounds
  <2>2. heap \in Seq(Clients!Conn) /\ cgsList \in Seq(CgNames) /\ selected \in Nat /\ aside \in BOOLEAN
    BY <1>1, <1>8, <1>10, <1>12
  <2> QED
    BY <1>1, <1>11, <1>13, <1>14, <1>16, <2>1, <2>2 DEF ClientsTyped
<1>18. HandledOk(reqs, broker.conns) /\ OneEach(reqs) /\ SwitchedOk(reqs, B)
  BY <1>16 DEF HandledOk, OneEach, SwitchedOk
<1>19. ConnsOk(reqs, B, B)
  BY <1>9, <1>18, DataSeen
<1>20. Clients!DetailsOfHighlighted
  BY <1>2 DEF Clients!DetailsOfHighlighted, Clients!ArrangeData, Clients!Rows
<1> QED
  BY <1>10, <1>15, <1>17, <1>18, <1>19, <1>20 DEF ClientsInv

\* A step that changes neither the connectors nor the requests.
LEMMA ClientsQuiet ==
    ASSUME ClientsInv, UNCHANGED <<heap, connectors, reqs, aside>>, broker'.conns = broker.conns,
           ClientsTyped', Clients!DetailsOfHighlighted'
    PROVE  ClientsInv'
<1>1. HandledOk(reqs, broker.conns) /\ (~aside => ConnsOk(reqs, broker.conns, OnScreen(connectors, heap)))
  BY DEF ClientsInv
<1> QED
  BY <1>1 DEF ClientsInv
\* A step that changes the rows that are chosen, the groups or the data under way.
LEMMA ClientsChosen ==
    ASSUME ClientsInv, UNCHANGED <<heap, connectors, reqs, aside, sent>>, broker'.conns = broker.conns,
           DataOk(broker'), cgsList' = cgsList, popover' \in Menu \cup {NoRow},
           data' = <<>> \/ (\E b : data' = <<b>> /\ DataOk(b)), selected' \in Nat,
           cgDetails' = Clients!ArrangeData(cgsList', connectors', heap', selected')
    PROVE  ClientsInv'
<1>1. ClientsTyped
  BY DEF ClientsInv
<1>2. ClientsTyped'
  BY <1>1 DEF ClientsTyped
<1> QED
  BY <1>2, ConnDetails, ClientsQuiet

LEMMA ClientsDetailed == ClientsInv => cgDetails = Clients!ArrangeData(cgsList, connectors, heap, selected)
BY DEF ClientsInv, Clients!DetailsOfHighlighted, Clients!ArrangeData, Clients!Rows

LEMMA ClientsAside ==
    ASSUME ClientsInv
    PROVE  /\ UNCHANGED Clients!vars => ClientsInv'
           /\ \A i \in 1..Len(Clients!Rows) : Clients!OnSelectedRow(i) \/ Clients!OnOpenChange(i) => ClientsInv'
           /\ Clients!ChangeGroups \/ Clients!ServeData => ClientsInv'
<1>t. /\ DataOk(broker) /\ heap \in Seq(Clients!Conn) /\ cgsList \in Seq(CgNames) /\ connectors \in Seq(Nat)
      /\ ListOk(connectors, heap) /\ popover \in Menu \cup {NoRow} /\ selected \in Nat
  BY DEF ClientsInv, ClientsTyped
<1>u. data = <<>> \/ (\E b : data = <<b>> /\ DataOk(b))
  BY DEF ClientsInv, ClientsTyped
<1>d. cgDetails = Clients!ArrangeData(cgsList, connectors, heap, selected)
  BY ClientsDetailed
<1>e. ASSUME UNCHANGED <<cgsList, connectors, heap, selected, cgDetails>>
      PROVE  cgDetails' = Clients!ArrangeData(cgsList', connectors', heap', selected')
  BY <1>d, <1>e
<1>1. ASSUME UNCHANGED Clients!vars PROVE ClientsInv'
  <2>1. UNCHANGED <<broker, heap, cgsList, connectors, popover, reqs, sent, data, selected, cgDetails, aside>>
    BY <1>1 DEF Clients!vars
  <2> QED
    BY <1>t, <1>u, <1>e, <2>1, ClientsChosen
<1>2. ASSUME NEW i \in 1..Len(Clients!Rows), Clients!OnSelectedRow(i) PROVE ClientsInv'
  <2>1. /\ i \in DOMAIN Clients!Rows /\ selected' = i /\ cgDetails' = Clients!ArrangeData(cgsList, connectors, heap, i)
        /\ UNCHANGED <<broker, heap, cgsList, connectors, popover, reqs, sent, data, aside>>
    BY <1>2 DEF Clients!OnSelectedRow
  <2>2. i \in Nat
    BY <1>t, <2>1, ConnRows DEF Clients!Rows
  <2>3. cgDetails' = Clients!ArrangeData(cgsList', connectors', heap', selected')
    BY <2>1
  <2> QED
    BY <1>t, <1>u, <2>1, <2>2, <2>3, ClientsChosen
<1>3. ASSUME NEW i \in 1..Len(Clients!Rows), Clients!OnOpenChange(i) PROVE ClientsInv'
  <2>1. /\ i \in DOMAIN Clients!Rows
        /\ (i > Len(cgsList) /\ popover' = [item |-> i, id |-> Clients!Rows[i]]) \/ popover' = NoRow
        /\ UNCHANGED <<broker, heap, cgsList, connectors, reqs, sent, data, selected, cgDetails, aside>>
    BY <1>3 DEF Clients!OnOpenChange
  <2>2. i \in Nat /\ (i > Len(cgsList) => Clients!Rows[i] \in ConnIds)
    BY <1>t, <2>1, ConnRows DEF Clients!Rows
  <2>3. popover' \in Menu \cup {NoRow}
    BY <2>1, <2>2 DEF Menu
  <2> QED
    BY <1>t, <1>u, <1>e, <2>1, <2>3, ClientsChosen
<1>4. ASSUME Clients!ChangeGroups PROVE ClientsInv'
  <2>1. /\ broker' \in [cgs : {<<>>} \cup {<<g>> : g \in CgNames}, conns : {broker.conns}]
        /\ UNCHANGED <<heap, cgsList, connectors, popover, reqs, sent, data, selected, cgDetails, aside>>
    BY <1>4 DEF Clients!ChangeGroups
  <2>2. <<>> \in Seq(CgNames) /\ \A g \in CgNames : <<g>> \in Seq(CgNames)
    OBVIOUS
  <2>3. broker.conns \in Seq(Clients!Conn) /\ Distinct(broker.conns)
    BY <1>t DEF DataOk, ConnData
  <2>4. broker'.conns = broker.conns /\ broker' \in ConnData
    BY <2>1, <2>2, <2>3 DEF ConnData
  <2>5. DataOk(broker')
    BY <2>3, <2>4 DEF DataOk
  <2> QED
    BY <1>t, <1>u, <1>e, <2>1, <2>4, <2>5, ClientsChosen
<1>5. ASSUME Clients!ServeData PROVE ClientsInv'
  <2>1. /\ data' = <<broker>>
        /\ UNCHANGED <<broker, heap, cgsList, connectors, popover, reqs, sent, selected, cgDetails, aside>>
    BY <1>5 DEF Clients!ServeData
  <2>2. \E b : data' = <<b>> /\ DataOk(b)
    BY <1>t, <2>1
  <2> QED
    BY <1>t, <1>e, <2>1, <2>2, ClientsChosen
<1> QED
  BY <1>1, <1>2, <1>3, <1>4, <1>5

\* An entry of the menu is chosen.
LEMMA ClientsSend == ASSUME ClientsInv, NEW op \in Clients!Ops, Clients!Send(op) PROVE ClientsInv'
<1> DEFINE q == [op |-> op, base |-> connectors, item |-> popover.item, done |-> FALSE,
                 id |-> IF op = "scale" THEN Clients!Rows[popover.item] ELSE popover.id]
<1>t. /\ DataOk(broker) /\ heap \in Seq(Clients!Conn) /\ cgsList \in Seq(CgNames) /\ connectors \in Seq(Nat)
      /\ ListOk(connectors, heap) /\ popover \in Menu \cup {NoRow} /\ sent \in 0..MaxClicks /\ aside \in BOOLEAN
      /\ reqs \in Seq(ConnReq) /\ \A j \in DOMAIN reqs : ReqOk(reqs[j], heap)
  BY DEF ClientsInv, ClientsTyped
<1>1. /\ sent < MaxClicks /\ sent' = sent + 1 /\ reqs' = Append(reqs, q)
      /\ aside' = (aside \/ \E r \in Clients!Range(reqs) : r.id = popover.id)
      /\ UNCHANGED <<broker, heap, cgsList, connectors, popover, data, selected, cgDetails>>
  BY DEF Clients!Send
<1>2. popover \in Menu /\ popover.item \in DOMAIN Clients!Rows /\ popover.id \in ConnIds /\ popover.item \in Nat
  BY <1>t DEF Clients!Send, Clients!Offers, Menu
<1>3. op = "scale" => popover.item - Len(cgsList) > 0
  BY DEF Clients!Send, Clients!Offers
<1>4. op = "scale" => /\ Clients!Rows[popover.item] \in ConnIds
                      /\ \E k \in DOMAIN connectors : heap[connectors[k]].id = Clients!Rows[popover.item]
  <2> SUFFICES ASSUME op = "scale"
               PROVE  /\ Clients!Rows[popover.item] \in ConnIds
                      /\ \E k \in DOMAIN connectors : heap[connectors[k]].id = Clients!Rows[popover.item]
    OBVIOUS
  <2> DEFINE p == popover.item
  <2>1. Len(cgsList) \in Nat
    BY <1>t, Elements
  <2>2. p > Len(cgsList)
    BY <1>2, <1>3, <2>1
  <2>3. p \in DOMAIN Clients!Rows
    BY <1>2
  <2> HIDE DEF p
  <2>4. p - Len(cgsList) \in DOMAIN connectors /\ Clients!Rows[p] = heap[connectors[p - Len(cgsList)]].id /\ Clients!Rows[p] \in ConnIds
    BY <1>t, <2>2, <2>3, ConnRows DEF Clients!Rows
  <2> QED
    BY <2>4 DEF p
<1>5. /\ q \in ConnReq /\ ~q.done /\ q.op = op /\ (op # "scale" => q.id = popover.id)
      /\ q.base = connectors /\ (op = "scale" => q.id = Clients!Rows[popover.item])
  BY <1>t, <1>2, <1>4 DEF ConnReq
<1> HIDE DEF q
<1>6. ReqOk(q, heap)
  BY <1>t, <1>4, <1>5 DEF ReqOk
<1>7. /\ reqs' \in Seq(ConnReq)
      /\ \A j \in DOMAIN reqs' : (j \in DOMAIN reqs /\ reqs'[j] = reqs[j]) \/ reqs'[j] = q
  BY <1>t, <1>1, <1>5, Appended
<1>8. ClientsTyped'
  <2>1. \A j \in DOMAIN reqs' : ReqOk(reqs'[j], heap')
    BY <1>t, <1>1, <1>6, <1>7
  <2>2. sent' \in 0..MaxClicks
    BY <1>t, <1>1, Bounds
  <2>3. aside' \in BOOLEAN
    BY <1>1
  <2> QED
    BY <1>1, <1>7, <2>1, <2>2, <2>3 DEF ClientsTyped, ClientsInv
<1>9. Clients!DetailsOfHighlighted'
  BY <1>1, ClientsDetailed, ConnDetails
<1>10. HandledOk(reqs', broker'.conns)
  <2>1. HandledOk(reqs, broker.conns)
    BY DEF ClientsInv
  <2>2. HandledOk(reqs', broker.conns)
    BY <1>t, <1>1, <1>5, <2>1, ConnAsked
  <2> QED
    BY <1>1, <2>2
<1>11. ASSUME ~aside' PROVE ConnsOk(reqs', broker'.conns, OnScreen(connectors', heap'))
  <2> DEFINE B == broker.conns
             S == OnScreen(connectors, heap)
  <2>1. ~aside /\ \A j \in DOMAIN reqs : reqs[j].id # popover.id
    BY <1>1, <1>11 DEF Clients!Range
  <2>2. ConnsOk(reqs, B, S)
    BY <2>1 DEF ClientsInv
  <2> HIDE DEF B, S
  <2>3. q.op = "scale" \/ \A j \in DOMAIN reqs : reqs[j].id # q.id
    BY <1>5, <2>1
  <2>4. OneEach(reqs) /\ SwitchedOk(reqs, B) /\ SameRows(reqs, B, S)
    BY <2>2 DEF ConnsOk
  <2>5. OneEach(reqs')
    BY <1>t, <1>1, <1>5, <2>3, <2>4, ConnAsked
  <2>6. SwitchedOk(reqs', B)
    BY <1>t, <1>1, <1>5, <2>4, ConnAsked
  <2>7. SameRows(reqs', B, S)
    BY <1>t, <1>1, <1>5, <2>4, ConnAsked
  <2>8. ConnsOk(reqs', B, S)
    BY <2>5, <2>6, <2>7 DEF ConnsOk
  <2> QED
    BY <1>1, <2>8 DEF B, S
<1> QED
  BY <1>8, <1>9, <1>10, <1>11 DEF ClientsInv
\* What the broker makes of its connectors when it handles a request.
LEMMA ConnApplied ==
    ASSUME NEW Q, NEW R, NEW i, HandledAt(Q, R, i), Q[i] \in ConnReq,
           NEW B \in Seq(Clients!Conn), Distinct(B), NEW D, D = Clients!Apply(Q[i], B)
    PROVE  /\ D \in Seq(Clients!Conn) /\ Distinct(D)
           /\ HandledOk(Q, B) => HandledOk(R, D)
           /\ \A S : ConnsOk(Q, B, S) => ConnsOk(R, D, S)
<1> DEFINE r == Q[i]
<1>0. Q[i].op \in Clients!Ops
  BY DEF ConnReq
<1>e. Len(B) \in Nat /\ DOMAIN B = 1..Len(B) /\ \A k \in DOMAIN B : B[k] \in Clients!Conn
  BY Elements
<1>1. CASE Q[i].op = "remove"
  <2>1. CASE \E k \in DOMAIN B : B[k].id = Q[i].id
    <3> DEFINE a == CHOOSE k \in DOMAIN B : B[k].id = Q[i].id
    <3>1. a \in DOMAIN B /\ B[a].id = Q[i].id
      BY <2>1
    <3>2. D = Without(B, a)
      BY <1>1, <2>1 DEF Clients!Apply, Clients!RemoveAt, Without
    <3> HIDE DEF a
    <3> QED
      BY <1>1, <3>1, <3>2, ConnRemoved
  <2>2. CASE ~ \E k \in DOMAIN B : B[k].id = Q[i].id
    <3>1. D = B
      BY <1>1, <2>2 DEF Clients!Apply
    <3>2. \A a \in DOMAIN B : B[a].id # Q[i].id
      BY <2>2
    <3>3. (HandledOk(Q, B) => HandledOk(R, B)) /\ \A S : ConnsOk(Q, B, S) => ConnsOk(R, B, S)
      BY <1>1, <3>2, ConnGone
    <3> QED
      BY <3>1, <3>3
  <2> QED
    BY <2>1, <2>2
<1>2. CASE Q[i].op = "scale"
  <2>1. D = [k \in DOMAIN B |-> IF B[k].id = Q[i].id THEN [B[k] EXCEPT !.n = 2] ELSE B[k]]
    BY <1>2 DEF Clients!Apply
  <2>2. DOMAIN D = DOMAIN B /\ \A k \in DOMAIN B : D[k] = IF B[k].id = Q[i].id THEN [B[k] EXCEPT !.n = 2] ELSE B[k]
    BY <2>1
  <2>3. ASSUME NEW k \in DOMAIN B
        PROVE  /\ D[k] \in Clients!Conn /\ D[k].id = B[k].id /\ D[k].on = B[k].on
               /\ D[k].n = IF B[k].id = Q[i].id THEN 2 ELSE B[k].n
    <3> DEFINE b == B[k]
    <3>1. b \in Clients!Conn /\ D[k] = IF b.id = Q[i].id THEN [b EXCEPT !.n = 2] ELSE b
      BY <1>e, <2>2
    <3> HIDE DEF b
    <3>2. TRUE \in BOOLEAN
      OBVIOUS
    <3>3. /\ [b EXCEPT !.n = 2] \in Clients!Conn /\ [b EXCEPT !.n = 2].id = b.id /\ [b EXCEPT !.n = 2].on = b.on
          /\ [b EXCEPT !.n = 2].n = 2
      BY <3>1, <3>2, ConnFields
    <3>4. D[k] \in Clients!Conn /\ D[k].id = b.id /\ D[k].on = b.on /\ D[k].n = IF b.id = Q[i].id THEN 2 ELSE b.n
      BY <3>1, <3>3
    <3> QED
      BY <3>4 DEF b
  <2>4. D \in [1..Len(B) -> Clients!Conn]
    BY <1>e, <2>1, <2>3
  <2>5. D \in Seq(Clients!Conn)
    BY <1>e, <2>4, SeqOfLength
  <2>6. SameIds(B, D)
    BY <2>2, <2>3 DEF SameIds
  <2>7. Distinct(D)
    BY <2>6, SamePlaces
  <2>8. \A k \in DOMAIN B : D[k].on = B[k].on /\ D[k].n = IF B[k].id = Q[i].id THEN 2 ELSE B[k].n
    BY <2>3
  <2>9. (HandledOk(Q, B) => HandledOk(R, D)) /\ \A S : ConnsOk(Q, B, S) => ConnsOk(R, D, S)
    BY <1>2, <2>6, <2>8, ConnScaled
  <2> QED
    BY <2>5, <2>7, <2>9
<1>3. CASE Q[i].op \in Switches
  <2>0. Q[i].op # "remove" /\ Q[i].op # "scale" /\ On(Q[i]) \in BOOLEAN
    BY <1>3 DEF Switches, On
  <2>1. D = [k \in DOMAIN B |-> IF B[k].id = Q[i].id THEN [B[k] EXCEPT !.on = On(Q[i])] ELSE B[k]]
    <3>1. D = [k \in DOMAIN B |-> IF B[k].id = Q[i].id THEN [B[k] EXCEPT !.on = (Q[i].op = "start")] ELSE B[k]]
      BY <2>0 DEF Clients!Apply
    <3> QED
      BY <3>1, Zenon DEF On
  <2>2. DOMAIN D = DOMAIN B /\ \A k \in DOMAIN B : D[k] = IF B[k].id = Q[i].id THEN [B[k] EXCEPT !.on = On(Q[i])] ELSE B[k]
    BY <2>1
  <2>3. ASSUME NEW k \in DOMAIN B
        PROVE  /\ D[k] \in Clients!Conn /\ D[k].id = B[k].id /\ D[k].n = B[k].n
               /\ D[k].on = IF B[k].id = Q[i].id THEN On(Q[i]) ELSE B[k].on
    <3> DEFINE b == B[k]
               v == On(Q[i])
    <3>1. b \in Clients!Conn /\ v \in BOOLEAN /\ D[k] = IF b.id = Q[i].id THEN [b EXCEPT !.on = v] ELSE b
      BY <1>e, <2>0, <2>2
    <3> HIDE DEF b, v
    <3>2. b \in Clients!Conn /\ v \in BOOLEAN
      BY <3>1
    <3>a. [b EXCEPT !.on = v] \in Clients!Conn
      BY <3>2, ConnFields
    <3>3. [b EXCEPT !.on = v].id = b.id /\ [b EXCEPT !.on = v].n = b.n /\ [b EXCEPT !.on = v].on = v
      BY <3>2 DEF Clients!Conn
    <3>4. D[k] \in Clients!Conn /\ D[k].id = b.id /\ D[k].n = b.n /\ D[k].on = IF b.id = Q[i].id THEN v ELSE b.on
      BY <3>1, <3>a, <3>3
    <3> QED
      BY <3>4 DEF b, v
  <2>4. D \in [1..Len(B) -> Clients!Conn]
    BY <1>e, <2>1, <2>3
  <2>5. D \in Seq(Clients!Conn)
    BY <1>e, <2>4, SeqOfLength
  <2>6. SameIds(B, D)
    BY <2>2, <2>3 DEF SameIds
  <2>7. Distinct(D)
    BY <2>6, SamePlaces
  <2>8. \A k \in DOMAIN B : D[k].n = B[k].n /\ D[k].on = IF B[k].id = Q[i].id THEN On(Q[i]) ELSE B[k].on
    BY <2>3
  <2>9. (HandledOk(Q, B) => HandledOk(R, D)) /\ \A S : ConnsOk(Q, B, S) => ConnsOk(R, D, S)
    BY <1>3, <2>6, <2>8, ConnSwitched
  <2> QED
    BY <2>5, <2>7, <2>9
<1>4. Q[i].op = "remove" \/ Q[i].op = "scale" \/ Q[i].op \in Switches
  BY <1>0 DEF Clients!Ops, Switches
<1> QED
  BY <1>1, <1>2, <1>3, <1>4

\* The broker handles a request.
LEMMA ClientsHandle == ASSUME ClientsInv, NEW i \in DOMAIN reqs, Clients!Handle(i) PROVE ClientsInv'
<1> DEFINE B == broker.conns
           D == Clients!Apply(reqs[i], broker.conns)
           S == OnScreen(connectors, heap)
           q == [reqs[i] EXCEPT !.done = TRUE]
<1>t. /\ DataOk(broker) /\ heap \in Seq(Clients!Conn)
      /\ reqs \in Seq(ConnReq) /\ \A j \in DOMAIN reqs : ReqOk(reqs[j], heap)
  BY DEF ClientsInv, ClientsTyped
<1>1. /\ ~reqs[i].done /\ broker' = [broker EXCEPT !.conns = D] /\ reqs' = [reqs EXCEPT ![i] = q]
      /\ UNCHANGED <<heap, cgsList, connectors, popover, sent, data, selected, cgDetails, aside>>
  BY DEF Clients!Handle
<1>2. reqs[i] \in ConnReq
  BY <1>t, Elements
<1>3. q \in ConnReq /\ q.done /\ q.id = reqs[i].id /\ q.op = reqs[i].op /\ q.base = reqs[i].base
  <2> DEFINE r == reqs[i]
  <2>1. r \in ConnReq /\ q = [r EXCEPT !.done = TRUE]
    BY <1>2
  <2> HIDE DEF r, q
  <2>2. q \in ConnReq /\ q.done /\ q.id = r.id /\ q.op = r.op /\ q.base = r.base
    BY <2>1 DEF ConnReq
  <2> QED
    BY <2>2 DEF r
<1> HIDE DEF q
<1>4. /\ reqs' \in Seq(ConnReq) /\ DOMAIN reqs' = DOMAIN reqs /\ reqs'[i] = q
      /\ \A j \in DOMAIN reqs : j # i => reqs'[j] = reqs[j]
  <2>1. reqs' = [reqs EXCEPT ![i] = q]
    BY <1>1
  <2> QED
    BY <1>t, <1>3, <2>1, Changed
<1>5. HandledAt(reqs, reqs', i)
  BY <1>1, <1>3, <1>4 DEF HandledAt
<1>6. broker \in ConnData /\ B \in Seq(Clients!Conn) /\ Distinct(B)
  BY <1>t DEF DataOk, ConnData
<1>7. /\ D \in Seq(Clients!Conn) /\ Distinct(D)
      /\ HandledOk(reqs, B) => HandledOk(reqs', D)
      /\ ConnsOk(reqs, B, S) => ConnsOk(reqs', D, S)
  <2>1. D = Clients!Apply(reqs[i], B)
    OBVIOUS
  <2> HIDE DEF B, D, S
  <2> QED
    BY <1>2, <1>5, <1>6, <2>1, ConnApplied
<1> HIDE DEF D
<1>8. broker' \in ConnData /\ broker'.conns = D
  BY <1>1, <1>6, <1>7 DEF ConnData
<1>9. ClientsTyped'
  <2>1. DataOk(broker')
    BY <1>7, <1>8 DEF DataOk
  <2>2. \A j \in DOMAIN reqs' : ReqOk(reqs'[j], heap')
    <3> SUFFICES ASSUME NEW j \in DOMAIN reqs' PROVE ReqOk(reqs'[j], heap)
      BY <1>1
    <3>1. ReqOk(reqs[j], heap) /\ reqs'[j].base = reqs[j].base /\ reqs'[j].op = reqs[j].op /\ reqs'[j].id = reqs[j].id
      BY <1>t, <1>3, <1>4
    <3> QED
      BY <3>1 DEF ReqOk
  <2> QED
    BY <1>1, <1>4, <2>1, <2>2 DEF ClientsTyped, ClientsInv
<1>10. Clients!DetailsOfHighlighted'
  BY <1>1, ClientsDetailed, ConnDetails
<1>11. HandledOk(reqs', broker'.conns)
  BY <1>7, <1>8 DEF ClientsInv
<1>12. ~aside' => ConnsOk(reqs', broker'.conns, OnScreen(connectors', heap'))
  BY <1>1, <1>7, <1>8 DEF ClientsInv
<1> QED
  BY <1>9, <1>10, <1>11, <1>12 DEF ClientsInv

\* The data of the station come: new objects for all connectors.
LEMMA ClientsData == ASSUME ClientsInv, Clients!StationSocketData PROVE ClientsInv'
<1>t. /\ DataOk(broker) /\ heap \in Seq(Clients!Conn) /\ connectors \in Seq(Nat)
      /\ reqs \in Seq(ConnReq) /\ \A j \in DOMAIN reqs : ReqOk(reqs[j], heap)
      /\ data = <<>> \/ (\E b : data = <<b>> /\ DataOk(b))
  BY DEF ClientsInv, ClientsTyped
<1>1. /\ data # <<>> /\ data' = <<>> /\ cgsList' = data[1].cgs /\ heap' = heap \o data[1].conns
      /\ connectors' = [k \in DOMAIN data[1].conns |-> Len(heap) + k]
      /\ cgDetails' = Clients!ArrangeData(cgsList', connectors', heap', selected)
      /\ aside' = (data[1].conns # broker.conns \/ (aside /\ reqs # <<>>))
      /\ UNCHANGED <<broker, popover, reqs, sent, selected>>
  BY DEF Clients!StationSocketData
<1>2. PICK b : data[1] = b /\ DataOk(b)
  BY <1>t, <1>1
<1> DEFINE B == b.conns
<1>3. B \in Seq(Clients!Conn) /\ Distinct(B) /\ b.cgs \in Seq(CgNames)
  BY <1>2 DEF DataOk, ConnData
<1>4. /\ cgsList' = b.cgs /\ heap' = heap \o B /\ connectors' = [k \in DOMAIN B |-> Len(heap) + k]
      /\ aside' = (B # broker.conns \/ (aside /\ reqs # <<>>))
  BY <1>1, <1>2
<1> HIDE DEF B
<1>5. Len(B) \in Nat /\ DOMAIN B = 1..Len(B) /\ Len(heap) \in Nat /\ DOMAIN heap = 1..Len(heap)
  BY <1>t, <1>3, Elements
<1>6. /\ heap' \in Seq(Clients!Conn)
      /\ \A k \in DOMAIN heap : k \in DOMAIN heap' /\ heap'[k] = heap[k]
      /\ \A k \in DOMAIN B : Len(heap) + k \in DOMAIN heap' /\ heap'[Len(heap) + k] = B[k]
  <2> DEFINE g == heap \o B
  <2>1. /\ g \in Seq(Clients!Conn) /\ (\A k \in 1..Len(heap) : k \in DOMAIN g /\ g[k] = heap[k])
        /\ \A k \in 1..Len(B) : Len(heap) + k \in DOMAIN g /\ g[Len(heap) + k] = B[k]
    BY <1>t, <1>3, OneAfterOther
  <2>2. heap' = g
    BY <1>4
  <2> HIDE DEF g
  <2> QED
    BY <1>5, <2>1, <2>2
<1>7. /\ connectors' \in Seq(Nat) /\ DOMAIN connectors' = DOMAIN B
      /\ \A k \in DOMAIN B : connectors'[k] \in DOMAIN heap' /\ heap'[connectors'[k]] = B[k]
  <2> DEFINE l == connectors'
  <2>1. DOMAIN l = DOMAIN B /\ \A k \in DOMAIN B : l[k] = Len(heap) + k
    BY <1>4
  <2>2. l \in [1..Len(B) -> Nat]
    BY <1>4, <1>5
  <2>3. l \in Seq(Nat)
    BY <1>5, <2>2, SeqOfLength
  <2> QED
    BY <1>6, <2>1, <2>3
<1>8. ListOk(connectors', heap')
  BY <1>3, <1>7 DEF ListOk, Distinct
<1>9. OnScreen(connectors', heap') = B
  <2>1. OnScreen(connectors', heap') = [k \in DOMAIN B |-> B[k]]
    BY <1>7 DEF OnScreen
  <2>2. B = [k \in DOMAIN B |-> B[k]]
    BY <1>3
  <2> QED
    BY <2>1, <2>2
<1>10. HeapKept(heap, heap')
  BY <1>6 DEF HeapKept
<1>11. ClientsTyped'
  <2>1. \A j \in DOMAIN reqs' : ReqOk(reqs'[j], heap')
    BY <1>t, <1>1, <1>10, ListsKept
  <2>2. aside' \in BOOLEAN
    BY <1>4
  <2> QED
    BY <1>1, <1>3, <1>4, <1>6, <1>7, <1>8, <2>1, <2>2 DEF ClientsTyped, ClientsInv
<1>12. Clients!DetailsOfHighlighted'
  BY <1>1, ConnDetails
<1>13. HandledOk(reqs', broker'.conns)
  BY <1>1 DEF ClientsInv
<1>14. ASSUME ~aside' PROVE ConnsOk(reqs', broker'.conns, OnScreen(connectors', heap'))
  <2>1. B = broker.conns /\ (~aside \/ reqs = <<>>)
    BY <1>4, <1>14
  <2>2. OneEach(reqs) /\ SwitchedOk(reqs, B)
    <3>1. CASE ~aside
      BY <2>1, <3>1 DEF ClientsInv, ConnsOk
    <3>2. CASE reqs = <<>>
      BY <3>2 DEF OneEach, SwitchedOk
    <3> QED
      BY <2>1, <3>1, <3>2
  <2>3. ConnsOk(reqs, B, B)
    BY <1>3, <2>2, DataSeen
  <2> QED
    BY <1>1, <1>9, <2>1, <2>3
<1> QED
  BY <1>11, <1>12, <1>13, <1>14 DEF ClientsInv
\* A request is replied to or fails.
LEMMA ClientsReplied ==
    ASSUME ClientsInv, NEW i \in DOMAIN reqs, reqs' = Without(reqs, i), heap' \in Seq(Clients!Conn),
           HeapKept(heap, heap'), connectors' \in Seq(Nat), ListOk(connectors', heap'), popover' \in {popover, NoRow},
           cgDetails' = Clients!ArrangeData(cgsList, connectors', heap', selected),
           UNCHANGED <<broker, cgsList, sent, data, selected>>, aside' \in BOOLEAN,
           ~aside' => ConnsOk(reqs', broker.conns, OnScreen(connectors', heap'))
    PROVE  ClientsInv'
<1>t. reqs \in Seq(ConnReq) /\ (\A j \in DOMAIN reqs : ReqOk(reqs[j], heap)) /\ popover \in Menu \cup {NoRow}
  BY DEF ClientsInv, ClientsTyped
<1>1. reqs' \in Seq(ConnReq) /\ \A j \in DOMAIN reqs' : \E k \in DOMAIN reqs : reqs'[j] = reqs[k]
  BY <1>t, Answered
<1>2. \A j \in DOMAIN reqs' : ReqOk(reqs'[j], heap')
  BY <1>t, <1>1, ListsKept
<1>3. ClientsTyped'
  BY <1>t, <1>1, <1>2 DEF ClientsTyped, ClientsInv
<1>4. Clients!DetailsOfHighlighted'
  BY ConnDetails
<1>5. HandledOk(reqs', broker'.conns)
  <2>1. HandledOk(reqs, broker.conns)
    BY DEF ClientsInv
  <2>2. HandledOk(reqs', broker.conns)
    BY <1>t, <2>1, ConnLeft
  <2> QED
    BY <2>2
<1> QED
  BY <1>3, <1>4, <1>5 DEF ClientsInv

\* A connector is removed from the list that was on the screen at the click.
LEMMA ClientsRemoveReply ==
    ASSUME ClientsInv, NEW i \in DOMAIN reqs, reqs' = Without(reqs, i), reqs[i].done, reqs[i].op = "remove",
           aside' = (aside \/ Clients!Misplaced(reqs[i])), Clients!RemoveReply(reqs[i]),
           UNCHANGED <<broker, cgsList, sent, data, selected>>
    PROVE  ClientsInv'
<1> DEFINE l == reqs[i].base
           p == reqs[i].item
           S == OnScreen(l, heap)
<1>t. heap \in Seq(Clients!Conn) /\ reqs \in Seq(ConnReq) /\ ReqOk(reqs[i], heap)
  BY DEF ClientsInv, ClientsTyped
<1>1. /\ connectors' = (IF p \in DOMAIN l THEN Without(l, p) ELSE l) /\ heap' = heap
      /\ cgDetails' = Clients!ArrangeData(cgsList, connectors', heap', selected) /\ popover' = NoRow
  BY DEF Clients!RemoveReply, Clients!SetConnectors, Clients!RemoveAt, Without
<1>2. l \in Seq(Nat) /\ ListOk(l, heap)
  <2>1. reqs[i] \in ConnReq
    BY <1>t, Elements
  <2> QED
    BY <1>t, <2>1 DEF ConnReq, ReqOk
<1>3. p \in DOMAIN l => Without(l, p) \in Seq(Nat) /\ ListOk(Without(l, p), heap) /\ OnScreen(Without(l, p), heap) = Without(S, p)
  <2> HIDE DEF l, p
  <2> QED
    BY <1>t, <1>2, TakenOff
<1>4. connectors' \in Seq(Nat) /\ ListOk(connectors', heap') /\ HeapKept(heap, heap') /\ heap' \in Seq(Clients!Conn)
  <2>1. HeapKept(heap, heap)
    BY DEF HeapKept
  <2>2. CASE p \in DOMAIN l
    <3>1. connectors' = Without(l, p)
      BY <1>1, <2>2
    <3> QED
      BY <1>t, <1>1, <1>3, <2>1, <2>2, <3>1
  <2>3. CASE p \notin DOMAIN l
    <3>1. connectors' = l
      BY <1>1, <2>3
    <3> QED
      BY <1>t, <1>1, <1>2, <2>1, <3>1
  <2> QED
    BY <2>2, <2>3
<1>5. ASSUME ~aside' PROVE ConnsOk(reqs', broker.conns, OnScreen(connectors', heap'))
  <2>1. ~aside /\ l = connectors /\ p \in DOMAIN l /\ heap[l[p]].id = reqs[i].id
    BY <1>5 DEF Clients!Misplaced
  <2>2. ConnsOk(reqs, broker.conns, S) /\ HandledOk(reqs, broker.conns)
    BY <2>1 DEF ClientsInv
  <2>3. S \in Seq(Clients!Conn) /\ Distinct(S) /\ p \in DOMAIN S /\ S[p].id = reqs[i].id
    <3>1. S \in Seq(Clients!Conn) /\ Distinct(S) /\ DOMAIN S = DOMAIN l /\ \A k \in DOMAIN l : S[k] = heap[l[k]]
      BY <1>t, <1>2, Screen
    <3> QED
      BY <2>1, <3>1
  <2>4. OnScreen(connectors', heap') = Without(S, p)
    <3>1. connectors' = Without(l, p)
      BY <1>1, <2>1
    <3> QED
      BY <1>1, <1>3, <2>1, <3>1
  <2> HIDE DEF S, p, l
  <2>5. ConnsOk(reqs', broker.conns, Without(S, p))
    BY <1>t, <2>2, <2>3, RemoveSeen
  <2> QED
    BY <2>4, <2>5
<1>6. aside' \in BOOLEAN
  OBVIOUS
<1> QED
  BY <1>1, <1>4, <1>5, <1>6, ClientsReplied

\* A connector is paused or resumed in the list that was on the screen at the click.
LEMMA ClientsSwitchReply ==
    ASSUME ClientsInv, NEW i \in DOMAIN reqs, reqs' = Without(reqs, i), reqs[i].done, reqs[i].op \in Switches,
           aside' = (aside \/ Clients!Misplaced(reqs[i])), Clients!SwitchReply(reqs[i]),
           UNCHANGED <<broker, cgsList, sent, data, selected>>
    PROVE  ClientsInv'
<1> DEFINE l == reqs[i].base
           p == reqs[i].item
           v == On(reqs[i])
           o == l[p]
           b == [heap[o] EXCEPT !.on = v]
           S == OnScreen(l, heap)
<1>t. heap \in Seq(Clients!Conn) /\ reqs \in Seq(ConnReq) /\ ReqOk(reqs[i], heap)
  BY DEF ClientsInv, ClientsTyped
<1>u. connectors \in Seq(Nat) /\ ListOk(connectors, heap)
  BY DEF ClientsInv, ClientsTyped
<1>2. l \in Seq(Nat) /\ ListOk(l, heap)
  <2>1. reqs[i] \in ConnReq
    BY <1>t, Elements
  <2> QED
    BY <1>t, <2>1 DEF ConnReq, ReqOk
<1>6. aside' \in BOOLEAN
  OBVIOUS
<1>7. CASE p \notin DOMAIN l
  <2>1. UNCHANGED <<heap, connectors, cgDetails, popover>>
    BY <1>7 DEF Clients!SwitchReply
  <2>2. aside'
    BY <1>7 DEF Clients!Misplaced
  <2>3. HeapKept(heap, heap')
    BY <2>1 DEF HeapKept
  <2>4. cgDetails' = Clients!ArrangeData(cgsList, connectors', heap', selected)
    BY <2>1, ClientsDetailed
  <2> QED
    BY <1>t, <1>u, <1>6, <2>1, <2>2, <2>3, <2>4, ClientsReplied
<1>8. CASE p \in DOMAIN l
  <2>1. /\ connectors' = l /\ heap' = [heap EXCEPT ![l[p]].on = (reqs[i].op = "start")]
        /\ cgDetails' = Clients!ArrangeData(cgsList, connectors', heap', selected) /\ popover' = NoRow
    BY <1>8 DEF Clients!SwitchReply, Clients!SetConnectors
  <2>2. heap' = [heap EXCEPT ![o] = b]
    BY <2>1, Zenon DEF On
  <2>3. v \in BOOLEAN
    BY DEF On
  <2> DEFINE T == OnScreen(l, heap')
  <2>4. /\ heap' \in Seq(Clients!Conn) /\ HeapKept(heap, heap') /\ ListOk(l, heap')
        /\ SameIds(S, T) /\ (\A k \in DOMAIN l : k # p => T[k] = S[k])
        /\ T[p].n = S[p].n /\ T[p].on = v
    <3>1. Written(heap, l, p, v, o, heap')
      BY <2>2 DEF Written
    <3> HIDE DEF o, l, p, v
    <3> QED
      BY <1>t, <1>2, <1>8, <2>3, <3>1, WrittenInPlace
  <2>5. ASSUME ~aside' PROVE ConnsOk(reqs', broker.conns, OnScreen(connectors', heap'))
    <3>1. ~aside /\ l = connectors /\ heap[l[p]].id = reqs[i].id
      BY <2>5 DEF Clients!Misplaced
    <3>2. ConnsOk(reqs, broker.conns, S) /\ HandledOk(reqs, broker.conns)
      BY <3>1 DEF ClientsInv
    <3>3. Distinct(S) /\ p \in DOMAIN S /\ S[p].id = reqs[i].id /\ DOMAIN S = DOMAIN l
      <4>1. Distinct(S) /\ DOMAIN S = DOMAIN l /\ \A k \in DOMAIN l : S[k] = heap[l[k]]
        BY <1>t, <1>2, Screen
      <4> QED
        BY <1>8, <3>1, <4>1
    <3>4. OnScreen(connectors', heap') = T
      BY <2>1
    <3>5. reqs[i].op # "remove"
      BY DEF Switches
    <3>6. /\ SameIds(S, T) /\ (\A k \in DOMAIN S : k # p => T[k] = S[k])
          /\ T[p].n = S[p].n /\ T[p].on = On(reqs[i])
      BY <2>4, <3>3
    <3> HIDE DEF S, T, p, l
    <3>7. ConnsOk(reqs', broker.conns, T)
      BY <1>t, <3>2, <3>3, <3>5, <3>6, ChangeSeen
    <3> QED
      BY <3>4, <3>7
  <2>6. connectors' \in Seq(Nat) /\ ListOk(connectors', heap')
    BY <1>2, <2>1, <2>4
  <2> HIDE DEF T, b, o
  <2> QED
    BY <1>6, <2>1, <2>4, <2>5, <2>6, ClientsReplied
<1> QED
  BY <1>7, <1>8

\* A copy of a connector takes its place in the list that was on the screen at the click.
LEMMA ClientsUpdate ==
    ASSUME ClientsInv, NEW i \in DOMAIN reqs, reqs' = Without(reqs, i), reqs[i].op = "scale",
           aside' \in BOOLEAN, ~aside' => ~aside /\ reqs[i].done /\ reqs[i].base = connectors,
           Clients!UpdateConnector(reqs[i]), UNCHANGED <<broker, cgsList, sent, data, selected>>
    PROVE  ClientsInv'
<1> DEFINE l == reqs[i].base
           p == CHOOSE k \in DOMAIN l : heap[l[k]].id = reqs[i].id
           S == OnScreen(l, heap)
           T == OnScreen(connectors', heap')
<1>t. heap \in Seq(Clients!Conn) /\ reqs \in Seq(ConnReq) /\ ReqOk(reqs[i], heap)
  BY DEF ClientsInv, ClientsTyped
<1>1. /\ connectors' = [l EXCEPT ![p] = Len(heap) + 1] /\ heap' = Append(heap, [heap[l[p]] EXCEPT !.n = 2])
      /\ cgDetails' = Clients!ArrangeData(cgsList, connectors', heap', selected) /\ popover' = popover
  BY DEF Clients!UpdateConnector, Clients!SetConnectors
<1>2. l \in Seq(Nat) /\ ListOk(l, heap)
  <2>1. reqs[i] \in ConnReq
    BY <1>t, Elements
  <2> QED
    BY <1>t, <2>1 DEF ConnReq, ReqOk
<1>3. p \in DOMAIN l /\ heap[l[p]].id = reqs[i].id
  BY <1>t DEF ReqOk
<1> HIDE DEF p
<1>4. /\ heap' \in Seq(Clients!Conn) /\ HeapKept(heap, heap') /\ connectors' \in Seq(Nat) /\ ListOk(connectors', heap')
      /\ SameIds(S, T) /\ (\A k \in DOMAIN l : k # p => T[k] = S[k]) /\ T[p].n = 2 /\ T[p].on = S[p].on
  <2> DEFINE m == connectors'
             g == heap'
  <2>1. Copied(heap, l, p, g, m)
    BY <1>1 DEF Copied
  <2> HIDE DEF l, m, g
  <2>2. /\ g \in Seq(Clients!Conn) /\ HeapKept(heap, g) /\ m \in Seq(Nat) /\ ListOk(m, g)
        /\ SameIds(S, OnScreen(m, g)) /\ (\A k \in DOMAIN l : k # p => OnScreen(m, g)[k] = S[k])
        /\ OnScreen(m, g)[p].n = 2 /\ OnScreen(m, g)[p].on = S[p].on
    BY <1>t, <1>2, <1>3, <2>1, CopyInPlace
  <2> QED
    BY <2>2 DEF m, g
<1>5. ASSUME ~aside' PROVE ConnsOk(reqs', broker.conns, T)
  <2>1. ~aside /\ l = connectors /\ reqs[i].done
    BY <1>5
  <2>2. ConnsOk(reqs, broker.conns, S) /\ HandledOk(reqs, broker.conns)
    BY <2>1 DEF ClientsInv
  <2>3. Distinct(S) /\ p \in DOMAIN S /\ S[p].id = reqs[i].id /\ DOMAIN S = DOMAIN l
    <3>1. Distinct(S) /\ DOMAIN S = DOMAIN l /\ \A k \in DOMAIN l : S[k] = heap[l[k]]
      BY <1>t, <1>2, Screen
    <3> QED
      BY <1>3, <3>1
  <2>4. SameIds(S, T) /\ (\A k \in DOMAIN S : k # p => T[k] = S[k]) /\ T[p].n = 2 /\ T[p].on = S[p].on
    BY <1>4, <2>3
  <2>5. reqs[i].op # "remove"
    OBVIOUS
  <2> HIDE DEF S, T, l
  <2> QED
    BY <1>t, <2>1, <2>2, <2>3, <2>4, <2>5, ChangeSeen
<1> QED
  BY <1>1, <1>4, <1>5, ClientsReplied

LEMMA ClientsReply == ASSUME ClientsInv, NEW i \in DOMAIN reqs, Clients!Reply(i) PROVE ClientsInv'
<1>1. /\ reqs[i].done /\ reqs' = Without(reqs, i)
      /\ aside' = (aside \/ (IF reqs[i].op = "scale" THEN reqs[i].base # connectors ELSE Clients!Misplaced(reqs[i])))
      /\ UNCHANGED <<broker, cgsList, sent, data, selected>>
  BY DEF Clients!Reply, Clients!RemoveAt, Without
<1>2. reqs[i].op \in Clients!Ops
  <2>1. reqs[i] \in ConnReq
    BY Elements DEF ClientsInv, ClientsTyped
  <2> QED
    BY <2>1 DEF ConnReq
<1>3. CASE reqs[i].op = "remove"
  <2>1. Clients!RemoveReply(reqs[i]) /\ aside' = (aside \/ Clients!Misplaced(reqs[i]))
    BY <1>1, <1>3 DEF Clients!Reply
  <2> QED
    BY <1>1, <1>3, <2>1, ClientsRemoveReply
<1>4. CASE reqs[i].op = "scale"
  <2>1. Clients!UpdateConnector(reqs[i]) /\ aside' = (aside \/ reqs[i].base # connectors)
    BY <1>1, <1>4 DEF Clients!Reply
  <2>2. aside' \in BOOLEAN /\ (~aside' => ~aside /\ reqs[i].base = connectors)
    BY <2>1
  <2> QED
    BY <1>1, <1>4, <2>1, <2>2, ClientsUpdate
<1>5. CASE reqs[i].op \in Switches
  <2>0. reqs[i].op # "remove" /\ reqs[i].op # "scale"
    BY <1>5 DEF Switches
  <2>1. Clients!SwitchReply(reqs[i]) /\ aside' = (aside \/ Clients!Misplaced(reqs[i]))
    BY <1>1, <2>0 DEF Clients!Reply
  <2> QED
    BY <1>1, <1>5, <2>1, ClientsSwitchReply
<1> QED
  BY <1>2, <1>3, <1>4, <1>5 DEF Clients!Ops, Switches

LEMMA ClientsFail == ASSUME ClientsInv, NEW i \in DOMAIN reqs, Clients!Fail(i) PROVE ClientsInv'
<1>t. /\ heap \in Seq(Clients!Conn) /\ reqs \in Seq(ConnReq) /\ connectors \in Seq(Nat) /\ ListOk(connectors, heap)
      /\ aside \in BOOLEAN /\ reqs[i] \in ConnReq
  BY Elements DEF ClientsInv, ClientsTyped
<1>1. /\ reqs' = Without(reqs, i) /\ aside' = (aside \/ reqs[i].done \/ reqs[i].op = "scale")
      /\ UNCHANGED <<broker, cgsList, sent, data, selected>>
  BY DEF Clients!Fail, Clients!RemoveAt, Without
<1>2. aside' \in BOOLEAN
  BY <1>1
<1>3. CASE reqs[i].op = "scale"
  <2>1. Clients!UpdateConnector(reqs[i]) /\ aside'
    BY <1>1, <1>3 DEF Clients!Fail
  <2> QED
    BY <1>1, <1>2, <1>3, <2>1, ClientsUpdate
<1>4. CASE reqs[i].op # "scale"
  <2>1. UNCHANGED <<heap, connectors, cgDetails, popover>>
    BY <1>4 DEF Clients!Fail
  <2>2. HeapKept(heap, heap')
    BY <2>1 DEF HeapKept
  <2>3. cgDetails' = Clients!ArrangeData(cgsList, connectors', heap', selected)
    BY <2>1, ClientsDetailed
  <2>4. ASSUME ~aside' PROVE ConnsOk(reqs', broker.conns, OnScreen(connectors', heap'))
    <3> DEFINE B == broker.conns
               S == OnScreen(connectors, heap)
    <3>1. ~aside /\ ~reqs[i].done
      BY <1>1, <2>4
    <3>2. ConnsOk(reqs, B, S)
      BY <3>1 DEF ClientsInv
    <3> HIDE DEF B, S
    <3>3. ConnsOk(reqs', B, S)
      BY <1>t, <1>1, <3>1, <3>2, ConnGivenUp
    <3> QED
      BY <2>1, <3>3 DEF B, S
  <2> QED
    BY <1>t, <1>1, <1>2, <2>1, <2>2, <2>3, <2>4, ClientsReplied
<1> QED
  BY <1>3, <1>4

LEMMA ClientsStep == ClientsInv /\ [Clients!Next]_(Clients!vars) => ClientsInv'
<1> SUFFICES ASSUME ClientsInv, [Clients!Next]_(Clients!vars) PROVE ClientsInv'
  OBVIOUS
<1>1. CASE UNCHANGED Clients!vars
  BY <1>1, ClientsAside
<1>2. ASSUME NEW i \in 1..Len(Clients!Rows), Clients!OnSelectedRow(i) \/ Clients!OnOpenChange(i) PROVE ClientsInv'
  BY <1>2, ClientsAside
<1>3. ASSUME NEW op \in Clients!Ops, Clients!Send(op) PROVE ClientsInv'
  BY <1>3, ClientsSend
<1>4. ASSUME NEW i \in DOMAIN reqs, Clients!Handle(i) PROVE ClientsInv'
  BY <1>4, ClientsHandle
<1>5. ASSUME NEW i \in DOMAIN reqs, Clients!Reply(i) PROVE ClientsInv'
  BY <1>5, ClientsReply
<1>6. ASSUME NEW i \in DOMAIN reqs, Clients!Fail(i) PROVE ClientsInv'
  BY <1>6, ClientsFail
<1>7. CASE Clients!ChangeGroups \/ Clients!ServeData
  BY <1>7, ClientsAside
<1>8. CASE Clients!StationSocketData
  BY <1>8, ClientsData
<1> QED
  BY <1>1, <1>2, <1>3, <1>4, <1>5, <1>6, <1>7, <1>8 DEF Clients!Next

LEMMA ClientsShows ==
    ASSUME ClientsInv
    PROVE  Clients!TypeOK /\ Clients!ConnectorsAgree /\ Clients!DetailsOfHighlighted
<1>t. ClientsTyped
  BY DEF ClientsInv
<1>1. Clients!DetailsOfHighlighted
  BY DEF ClientsInv
<1>2. Clients!TypeOK
  <2>1. broker.cgs \in Seq(CgNames) /\ broker.conns \in Seq(Clients!Conn)
    BY <1>t DEF ClientsTyped, DataOk, ConnData
  <2>2. \A k \in DOMAIN connectors : connectors[k] \in DOMAIN heap
    BY <1>t DEF ClientsTyped, ListOk
  <2>3. popover = NoRow \/ popover.id \in ConnIds
    BY <1>t DEF ClientsTyped, Menu
  <2>4. \A r \in Clients!Range(reqs) : r.op \in Clients!Ops /\ r.id \in ConnIds /\ r.done \in BOOLEAN
    <3>1. \A j \in DOMAIN reqs : reqs[j] \in ConnReq
      BY <1>t, Elements DEF ClientsTyped
    <3> QED
      BY <3>1 DEF ConnReq, Clients!Range
  <2>5. Len(data) <= 1
    <3>1. data = <<>> \/ \E b : data = <<b>>
      BY <1>t DEF ClientsTyped
    <3>2. CASE data = <<>>
      BY <3>2
    <3>3. ASSUME NEW b, data = <<b>> PROVE Len(data) <= 1
      BY <3>3
    <3> QED
      BY <3>1, <3>2, <3>3
  <2>6. cgDetails \in CgNames \cup ConnIds \cup {NoRow}
    <3>1. \A i \in DOMAIN Clients!Rows : Clients!Rows[i] \in CgNames \cup ConnIds
      BY <1>t, ConnRows DEF ClientsTyped, Clients!Rows
    <3> QED
      BY <1>1, <3>1 DEF Clients!DetailsOfHighlighted
  <2> QED
    BY <1>t, <2>1, <2>2, <2>3, <2>4, <2>5, <2>6 DEF ClientsTyped, Clients!TypeOK
<1>3. Clients!ConnectorsAgree
  <2> SUFFICES ASSUME reqs = <<>>, ~aside PROVE Clients!Shown(connectors, heap) = broker.conns
    BY DEF Clients!ConnectorsAgree
  <2> DEFINE B == broker.conns
             S == OnScreen(connectors, heap)
  <2>1. SameRows(reqs, B, S)
    BY DEF ClientsInv, ConnsOk
  <2>2. S \in Seq(Clients!Conn) /\ Distinct(S)
    BY <1>t, Screen DEF ClientsTyped
  <2>3. B \in Seq(Clients!Conn) /\ Distinct(B)
    BY <1>t DEF ClientsTyped, DataOk, ConnData
  <2>4. DOMAIN reqs = {}
    OBVIOUS
  <2> HIDE DEF B, S
  <2>5. S = B
    BY <2>1, <2>2, <2>3, <2>4, NothingUnderWay
  <2> QED
    BY <2>5 DEF B, S, Clients!Shown, OnScreen
<1> QED
  BY <1>1, <1>2, <1>3
-----------------------------------------------------------------------------
(* All pages. *)

AdminInv ==
    /\ route = "notifications" => NotesInv
    /\ route = "clients" => ClientsInv
    /\ route = "token" => TokenInv
    /\ route = "users" => UsersInv
    /\ route = "user" => UserInv
    /\ route = "integrations" => IntInv
    /\ route = "cluster" => ClusterInv
    /\ route = "logs" => LogInv

LEMMA AdminInit == Init => AdminInv
<1> SUFFICES ASSUME Init PROVE AdminInv
  OBVIOUS
<1>1. \/ route = "notifications" /\ Notes!Init
      \/ route = "clients" /\ Clients!Init
      \/ route = "token" /\ Token!Init
      \/ route = "users" /\ Users!Init
      \/ route = "user" /\ User!Init
      \/ route = "integrations" /\ Integration!Init
      \/ route = "cluster" /\ Cluster!Init
      \/ route = "logs" /\ Log!Init
  BY DEF Init
<1> QED
  BY <1>1, NotesStart, ClientsStart, TokenStart, UsersStart, UserStart, IntStart, ClusterStart, LogStart DEF AdminInv

\* A step is one of the page that is on the screen.
LEMMA AdminStep ==
    ASSUME [Next]_vars
    PROVE  /\ route' = route
           /\ route = "notifications" => [Notes!Next]_(Notes!vars)
           /\ route = "clients" => [Clients!Next]_(Clients!vars)
           /\ route = "token" => [Token!Next]_(Token!vars)
           /\ route = "users" => [Users!Next]_(Users!vars)
           /\ route = "user" => [User!Next]_(User!vars)
           /\ route = "integrations" => [Integration!Next]_(Integration!vars)
           /\ route = "cluster" => [Cluster!Next]_(Cluster!vars)
           /\ route = "logs" => [Log!Next]_(Log!vars)
<1>1. route' = route
  BY DEF Next, vars
<1>2. route = "notifications" => [Notes!Next]_(Notes!vars)
  BY DEF Next, vars, Notes!vars
<1>3. route = "clients" => [Clients!Next]_(Clients!vars)
  BY DEF Next, vars, Clients!vars
<1>4. route = "token" => [Token!Next]_(Token!vars)
  BY DEF Next, vars, Token!vars
<1>5. route = "users" => [Users!Next]_(Users!vars)
  BY DEF Next, vars, Users!vars
<1>6. route = "user" => [User!Next]_(User!vars)
  BY DEF Next, vars, User!vars
<1>7. route = "integrations" => [Integration!Next]_(Integration!vars)
  BY DEF Next, vars, Integration!vars
<1>8. route = "cluster" => [Cluster!Next]_(Cluster!vars)
  BY DEF Next, vars, Cluster!vars
<1>9. route = "logs" => [Log!Next]_(Log!vars)
  BY DEF Next, vars, Log!vars, Log!listVars, Log!flagVars, Log!subVars
<1> QED
  BY <1>1, <1>2, <1>3, <1>4, <1>5, <1>6, <1>7, <1>8, <1>9

\* Whichever page is on the screen, what its proof needs holds forever.
LEMMA AdminHolds == Spec => []AdminInv
<1>1. AdminInv /\ [Next]_vars => AdminInv'
  <2> SUFFICES ASSUME AdminInv, [Next]_vars PROVE AdminInv'
    OBVIOUS
  <2>1. route' = route
    BY AdminStep
  <2>2. route = "notifications" => NotesInv'
    BY AdminStep, NotesStep DEF AdminInv
  <2>3. route = "clients" => ClientsInv'
    BY AdminStep, ClientsStep DEF AdminInv
  <2>4. route = "token" => TokenInv'
    BY AdminStep, TokenStep DEF AdminInv
  <2>5. route = "users" => UsersInv'
    BY AdminStep, UsersStep DEF AdminInv
  <2>6. route = "user" => UserInv'
    BY AdminStep, UserStep DEF AdminInv
  <2>7. route = "integrations" => IntInv'
    BY AdminStep, IntStep DEF AdminInv
  <2>8. route = "cluster" => ClusterInv'
    BY AdminStep, ClusterStep DEF AdminInv
  <2>9. route = "logs" => LogInv'
    BY AdminStep, LogStep DEF AdminInv
  <2> QED
    BY <2>1, <2>2, <2>3, <2>4, <2>5, <2>6, <2>7, <2>8, <2>9 DEF AdminInv
<1> QED
  BY <1>1, AdminInit, PTL DEF Spec

\* On well-typed pages, whatever requests are under way together and in whatever order
\* they are answered or fail, a page shows what the broker has once nothing is under
\* way: connectors in their order, users, integrations, the settings "Discard" brings
\* back; except after the answers that the parts name.
THEOREM ShowsBrokerHolds == Spec => []ShowsBroker
<1>1. TokenInv => Token!TypeOK
  BY DEF TokenInv
<1>2. UserInv => User!TypeOK
  BY DEF UserInv
<1>3. AdminInv => TypeOK
  BY <1>1, <1>2, NotesShow, ClientsShows, UsersShows, IntShows, ClusterShows, LogShows DEF AdminInv, TypeOK
<1>4. AdminInv => ShowsBroker
  BY <1>3, ClientsShows, UsersShows, IntShows, ClusterShows DEF AdminInv, ShowsBroker
<1> QED
  BY <1>4, AdminHolds, PTL

\* Whatever is clicked, typed, searched and answered meanwhile, the details are of the
\* highlighted row, the table of the search, the count of its tab, the interval of its
\* row and within its bounds, "Apply" is offered for every change, and a spinning
\* button has its request.
THEOREM ShowsChosenHolds == Spec => []ShowsChosen
<1>1. AdminInv => ShowsChosen
  BY ClientsShows, UsersShows, IntShows, ClusterShows DEF AdminInv, ShowsChosen
<1> QED
  BY <1>1, AdminHolds, PTL

\* However users are created, loaded and chosen, the form of a token keeps the secret
\* that was typed in, and the mask never becomes the secret of an integration; but for
\* a drawer closed on its request, and an answer that met an open form.
THEOREM SecretsKeptHolds == Spec => []SecretsKept
<1>1. TokenInv => Token!SecretKept
  BY DEF TokenInv, RendersKeep, Token!SecretKept
<1>2. AdminInv => SecretsKept
  BY <1>1, IntShows DEF AdminInv, SecretsKept
<1> QED
  BY <1>2, AdminHolds, PTL

\* However pages of logs, pushes and changes of the filter overlap, the list has only
\* logs of the filter, newest first and without a gap, and the selection that follows
\* the newest is on the first; but for an answer or a push that did not fit the list.
THEOREM LogsSoundHolds == Spec => []LogsSound
<1>1. AdminInv => LogsSound
  BY LogShows DEF AdminInv, LogsSound
<1> QED
  BY <1>1, AdminHolds, PTL

\* However often notifications are pushed and tabs are loaded again, no list has one
\* three times.
THEOREM CopiesBoundedHolds == Spec => []CopiesBounded
<1>1. AdminInv => CopiesBounded
  BY NotesShow DEF AdminInv, CopiesBounded
<1> QED
  BY <1>1, AdminHolds, PTL

\* Loading a page does not show a notification again that was closed in any tab, unless
\* another tab has overwritten its mark.
THEOREM DismissedStaysHolds == Spec => DismissedStays
<1>1. AdminInv /\ [Next]_vars => [route = "notifications" => Notes!ReloadKeepsDismissed]_vars
  <2> SUFFICES ASSUME AdminInv, [Next]_vars, route = "notifications" PROVE Notes!ReloadKeepsDismissed
    OBVIOUS
  <2> QED
    BY AdminStep, NotesStep DEF AdminInv
<1> QED
  BY <1>1, AdminHolds, PTL DEF Spec, DismissedStays

\* The form of a user sends what the screen shows, whatever was changed before.
THEOREM SentAsShownHolds == Spec => SentAsShown
<1>1. AdminInv /\ [Next]_vars => [route = "user" => User!SendsWhatIsShown]_vars
  <2> SUFFICES ASSUME AdminInv, [Next]_vars, route = "user" PROVE User!SendsWhatIsShown
    OBVIOUS
  <2> QED
    BY AdminStep, UserStep DEF AdminInv
<1> QED
  BY <1>1, AdminHolds, PTL DEF Spec, SentAsShown
=============================================================================
