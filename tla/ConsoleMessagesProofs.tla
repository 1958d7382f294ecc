----------------------- MODULE ConsoleMessagesProofs -----------------------
(***************************************************************************)
(* What holds of the session of the console and of the pages of a station's *)
(* messages for any number of tabs, rows, partitions, messages and groups. *)
(***************************************************************************)
EXTENDS MCConsoleMessages, TLAPS

-----------------------------------------------------------------------------
(* The session. *)

\* A tab that shows a private page shows no form.
GoodTab == {s \in Session!Tab : s.path = "private" => ~s.form}
Tokens == {"none", "valid", "expired"}

\* A session that is closed has no token, and every refresh that is under way was
\* so when it was closed: nothing sends one without a token.
NoLateRefresh ==
    session = "closed" =>
        /\ token = "none"
        /\ \A t \in Tabs : "refresh" \in tab[t].reqs => t \in underWay

SessionInv == Session!TypeOK /\ NoLateRefresh /\ session # "stolen"

\* A request that is sent or answered changes the requests of the tab and nothing else.
LEMMA AskAnswer ==
    ASSUME NEW s \in GoodTab, NEW k \in Session!Kinds
    PROVE  /\ Session!Ask(s, k) \in GoodTab /\ Session!Answered(s, k) \in GoodTab
           /\ Session!Ask(s, k).reqs = s.reqs \cup {k}
           /\ Session!Answered(s, k).reqs = s.reqs \ {k}
           /\ [Session!Answered(s, k) EXCEPT !.leaving = TRUE] \in GoodTab
           /\ [Session!Answered(s, k) EXCEPT !.leaving = TRUE].reqs = s.reqs \ {k}
BY DEF GoodTab, Session!Tab, Session!Ask, Session!Answered

\* Mounting a page keeps a tab good and sends no refresh.
LEMMA PageMounted ==
    ASSUME NEW s \in GoodTab, NEW tok \in Tokens,
           NEW new \in {Session!AtLogin(s, tok), Session!AtSignup(s, tok), Session!PrivateRoute(s, tok)}
    PROVE  new \in GoodTab /\ ("refresh" \in new.reqs => "refresh" \in s.reqs)
<1> DEFINE private == [s EXCEPT !.path = "private", !.form = FALSE]
           login == [s EXCEPT !.path = "login", !.form = FALSE]
           signup == [s EXCEPT !.path = "signup", !.form = TRUE]
<1>1. /\ {private, login, signup} \subseteq GoodTab
      /\ private.reqs = s.reqs /\ login.reqs = s.reqs /\ signup.reqs = s.reqs
  BY DEF GoodTab, Session!Tab
<1>2. new \in {private, Session!Ask(login, "flagLogin"), Session!Ask(signup, "flagSignup")}
  BY DEF Session!AtLogin, Session!AtSignup, Session!PrivateRoute
<1> HIDE DEF private, login, signup
<1>3. "flagLogin" \in Session!Kinds /\ "flagSignup" \in Session!Kinds
  BY DEF Session!Kinds
<1>a. login \in GoodTab /\ signup \in GoodTab
  BY <1>1
<1>4. /\ Session!Ask(login, "flagLogin") \in GoodTab
      /\ Session!Ask(login, "flagLogin").reqs = login.reqs \cup {"flagLogin"}
  BY <1>3, <1>a, AskAnswer
<1>5. /\ Session!Ask(signup, "flagSignup") \in GoodTab
      /\ Session!Ask(signup, "flagSignup").reqs = signup.reqs \cup {"flagSignup"}
  BY <1>3, <1>a, AskAnswer
<1> QED
  BY <1>1, <1>2, <1>4, <1>5

\* A document is loaded: the refresh is sent only with a token in the storage.
LEMMA AppMounted ==
    ASSUME NEW p \in {"login", "signup", "private"}, NEW tok \in Tokens
    PROVE  /\ Session!App(p, tok) \in GoodTab
           /\ tok = "none" => "refresh" \notin Session!App(p, tok).reqs
<1> DEFINE blank == [path |-> "login", form |-> FALSE, leaving |-> FALSE, reqs |-> {}]
           asking == Session!Ask(blank, "refresh")
<1>1. blank \in GoodTab /\ blank.reqs = {}
  BY DEF GoodTab, Session!Tab
<1>2. asking \in GoodTab
  BY <1>1, AskAnswer DEF Session!Kinds
<1>3. CASE p = "login"
  <2>1. Session!App(p, tok) = Session!AtLogin(blank, tok)
    BY <1>3 DEF Session!App
  <2> HIDE DEF blank
  <2> QED
    BY <1>1, <2>1, PageMounted
<1>4. CASE p # "login" /\ tok = "none"
  <2>1. Session!App(p, tok) = Session!AtSignup(blank, tok)
    BY <1>4 DEF Session!App
  <2> HIDE DEF blank
  <2> QED
    BY <1>1, <2>1, PageMounted
<1>5. CASE p = "signup" /\ tok # "none"
  <2>1. Session!App(p, tok) = Session!AtSignup(asking, tok)
    BY <1>5 DEF Session!App
  <2> HIDE DEF asking
  <2> QED
    BY <1>2, <1>5, <2>1, PageMounted
<1>6. CASE p = "private" /\ tok # "none"
  <2>1. Session!App(p, tok) = Session!PrivateRoute(asking, tok)
    BY <1>6 DEF Session!App
  <2> HIDE DEF asking
  <2> QED
    BY <1>2, <1>6, <2>1, PageMounted
<1> QED
  BY <1>3, <1>4, <1>5, <1>6

\* The type of the tabs, in terms of good tabs.
TabsTyped ==
    /\ token \in Tokens
    /\ showSignup \in BOOLEAN
    /\ tab \in [Tabs -> GoodTab]
    /\ loads \in 0..MaxLoads
    /\ session \in {"open", "closed", "revived", "stolen"}
    /\ underWay \subseteq Tabs

LEMMA TabsGood == Session!TypeOK <=> TabsTyped
BY DEF TabsTyped, Session!TypeOK, GoodTab, Tokens

\* A tab that becomes another good one without sending a refresh while there is no
\* token, the storage being left alone.
LEMMA TabMoves ==
    ASSUME SessionInv, NEW t \in Tabs, NEW s \in GoodTab, Session!Becomes(t, s),
           "refresh" \in s.reqs => token # "none" \/ "refresh" \in tab[t].reqs,
           Session!KeepStorage, showSignup' = showSignup, loads' \in 0..MaxLoads
    PROVE  SessionInv'
<1>1. tab' = [tab EXCEPT ![t] = s] /\ UNCHANGED <<token, session, underWay>>
  BY DEF Session!Becomes, Session!KeepStorage
<1>2. /\ token \in Tokens /\ showSignup \in BOOLEAN /\ tab \in [Tabs -> GoodTab]
      /\ session \in {"open", "closed", "revived", "stolen"} /\ underWay \subseteq Tabs
  BY TabsGood DEF SessionInv, TabsTyped
<1>3. tab' \in [Tabs -> GoodTab]
  BY <1>1, <1>2
<1>a. TabsTyped'
  BY <1>1, <1>2, <1>3 DEF TabsTyped
<1>4. Session!TypeOK'
  BY <1>a, TabsGood, PTL
<1>5. NoLateRefresh'
  BY <1>1, <1>2 DEF SessionInv, NoLateRefresh
<1> QED
  BY <1>1, <1>4, <1>5 DEF SessionInv

\* The storage is cleared, and the tab that does it is about to leave.
LEMMA StorageCleared ==
    ASSUME SessionInv, NEW t \in Tabs, NEW s \in GoodTab, Session!Becomes(t, s),
           s.reqs \subseteq tab[t].reqs, Session!ClearStorage, UNCHANGED <<showSignup, loads>>
    PROVE  SessionInv'
<1>1. /\ tab' = [tab EXCEPT ![t] = s] /\ token' = "none" /\ session' = "closed"
      /\ underWay' = {u \in Tabs : "refresh" \in tab[u].reqs}
  BY DEF Session!Becomes, Session!ClearStorage, SessionInv
<1>2. showSignup \in BOOLEAN /\ tab \in [Tabs -> GoodTab] /\ loads \in 0..MaxLoads
  BY TabsGood DEF SessionInv, TabsTyped
<1>3. tab' \in [Tabs -> GoodTab]
  BY <1>1, <1>2
<1>a. TabsTyped'
  BY <1>1, <1>2, <1>3 DEF TabsTyped, Tokens
<1>4. Session!TypeOK'
  BY <1>a, TabsGood, PTL
<1>5. NoLateRefresh'
  BY <1>1, <1>2 DEF NoLateRefresh
<1> QED
  BY <1>1, <1>4, <1>5 DEF SessionInv

\* A login opens a session.
LEMMA LoggedIn ==
    ASSUME SessionInv, NEW t \in Tabs, NEW s \in GoodTab, Session!Becomes(t, s),
           Session!LogIn, showSignup' = FALSE, loads' = loads
    PROVE  SessionInv'
<1>1. /\ tab' = [tab EXCEPT ![t] = s] /\ token' = "valid" /\ session' = "open" /\ underWay' = {}
  BY DEF Session!Becomes, Session!LogIn
<1>2. tab \in [Tabs -> GoodTab] /\ loads \in 0..MaxLoads
  BY TabsGood DEF SessionInv, TabsTyped
<1>3. tab' \in [Tabs -> GoodTab]
  BY <1>1, <1>2
<1>a. TabsTyped'
  BY <1>1, <1>2, <1>3 DEF TabsTyped, Tokens
<1>4. Session!TypeOK'
  BY <1>a, TabsGood, PTL
<1> QED
  BY <1>1, <1>4 DEF SessionInv, NoLateRefresh

\* Every step of the session.
LEMMA SessionStep ==
    ASSUME SessionInv, [Session!Next]_(Session!vars)
    PROVE  SessionInv'
<1> USE ConsoleMessagesAssumption
<1>0. /\ token \in Tokens /\ showSignup \in BOOLEAN /\ tab \in [Tabs -> GoodTab]
      /\ loads \in 0..MaxLoads /\ underWay \subseteq Tabs
  BY TabsGood DEF SessionInv, TabsTyped
<1>1. CASE UNCHANGED Session!vars
  BY <1>1 DEF SessionInv, NoLateRefresh, Session!vars, Session!TypeOK
<1>2. CASE Session!Expire
  BY <1>2 DEF SessionInv, NoLateRefresh, Session!Expire, Session!TypeOK
<1>3. ASSUME NEW t \in Tabs, NEW p \in {"login", "signup", "private"}, Session!Open(t, p)
      PROVE  SessionInv'
  <2>1. /\ Session!App(p, token) \in GoodTab
        /\ token = "none" => "refresh" \notin Session!App(p, token).reqs
    BY <1>0, AppMounted
  <2>2. loads' \in 0..MaxLoads
    BY <1>0, <1>3 DEF Session!Open
  <2> QED
    BY <1>3, <2>1, <2>2, TabMoves DEF Session!Open
<1>4. ASSUME NEW t \in Tabs, Session!Unload(t) PROVE SessionInv'
  <2>1. /\ Session!App("login", token) \in GoodTab
        /\ token = "none" => "refresh" \notin Session!App("login", token).reqs
    BY <1>0, AppMounted
  <2> QED
    BY <1>0, <1>4, <2>1, TabMoves DEF Session!Unload
<1>5. ASSUME NEW t \in Tabs, Session!Submit(t) PROVE SessionInv'
  <2>1. PICK k \in {"login", "signup"} : Session!Becomes(t, Session!Ask(tab[t], k))
    BY <1>5 DEF Session!Submit
  <2>2. /\ Session!Ask(tab[t], k) \in GoodTab
        /\ Session!Ask(tab[t], k).reqs = tab[t].reqs \cup {k}
    BY <1>0, AskAnswer DEF Session!Kinds
  <2> QED
    BY <1>0, <1>5, <2>1, <2>2, TabMoves DEF Session!Submit
<1>6. ASSUME NEW t \in Tabs, Session!UsePage(t) PROVE SessionInv'
  <2>1. /\ Session!Ask(tab[t], "api") \in GoodTab
        /\ Session!Ask(tab[t], "api").reqs = tab[t].reqs \cup {"api"}
    BY <1>0, AskAnswer DEF Session!Kinds
  <2>2. /\ Session!PrivateRoute(tab[t], token) \in GoodTab
        /\ "refresh" \in Session!PrivateRoute(tab[t], token).reqs => "refresh" \in tab[t].reqs
    BY <1>0, PageMounted
  <2>3. CASE Session!Becomes(t, Session!Ask(tab[t], "api"))
    BY <1>0, <1>6, <2>1, <2>3, TabMoves DEF Session!UsePage
  <2>4. CASE Session!Becomes(t, Session!PrivateRoute(tab[t], token))
    BY <1>0, <1>6, <2>2, <2>4, TabMoves DEF Session!UsePage
  <2> QED
    BY <1>6, <2>3, <2>4 DEF Session!UsePage
<1>7. ASSUME NEW t \in Tabs, Session!Logout(t) PROVE SessionInv'
  <2>1. /\ [tab[t] EXCEPT !.leaving = TRUE] \in GoodTab
        /\ [tab[t] EXCEPT !.leaving = TRUE].reqs = tab[t].reqs
    BY <1>0 DEF GoodTab, Session!Tab
  <2> QED
    BY <1>7, <2>1, StorageCleared DEF Session!Logout
<1>8. ASSUME NEW t \in Tabs, Session!HandleRefresh(t) PROVE SessionInv'
  <2>1. CASE token # "none" /\ Session!Becomes(t, Session!Ask(tab[t], "refresh"))
    <3>1. Session!Ask(tab[t], "refresh") \in GoodTab
      BY <1>0, AskAnswer DEF Session!Kinds
    <3> QED
      BY <1>0, <1>8, <2>1, <3>1, TabMoves DEF Session!HandleRefresh
  <2>2. CASE Session!Becomes(t, Session!AtSignup(tab[t], token))
    <3>1. /\ Session!AtSignup(tab[t], token) \in GoodTab
          /\ "refresh" \in Session!AtSignup(tab[t], token).reqs => "refresh" \in tab[t].reqs
      BY <1>0, PageMounted
    <3> QED
      BY <1>0, <1>8, <2>2, <3>1, TabMoves DEF Session!HandleRefresh
  <2> QED
    BY <1>8, <2>1, <2>2 DEF Session!HandleRefresh
<1>9. ASSUME NEW t \in Tabs, Session!RefreshReply(t) PROVE SessionInv'
  <2> DEFINE rest == Session!Answered(tab[t], "refresh")
             away == [rest EXCEPT !.leaving = TRUE]
  <2>1. /\ rest \in GoodTab /\ rest.reqs = tab[t].reqs \ {"refresh"}
        /\ away \in GoodTab /\ away.reqs = tab[t].reqs \ {"refresh"}
    BY <1>0, AskAnswer DEF Session!Kinds
  <2>2. /\ "refresh" \in tab[t].reqs /\ UNCHANGED <<showSignup, loads>>
        /\ \/ Session!SaveRefreshed(t) /\ Session!Becomes(t, rest)
           \/ Session!ClearStorage /\ Session!Becomes(t, away)
    BY <1>9 DEF Session!RefreshReply
  <2> HIDE DEF rest, away
  <2>3. CASE Session!SaveRefreshed(t) /\ Session!Becomes(t, rest)
    <3>1. tab' = [tab EXCEPT ![t] = rest] /\ token' = "valid" /\ underWay' = underWay
      BY <2>3 DEF Session!SaveRefreshed, Session!Becomes
    <3>2. session' \in {"open", "revived"}
      BY <2>2, <2>3 DEF Session!SaveRefreshed, SessionInv, NoLateRefresh, Session!TypeOK
    <3>3. tab' \in [Tabs -> GoodTab]
      BY <1>0, <2>1, <3>1
    <3>a. TabsTyped'
      BY <1>0, <2>2, <3>1, <3>2, <3>3 DEF TabsTyped, Tokens
    <3>4. Session!TypeOK'
      BY <3>a, TabsGood, PTL
    <3> QED
      BY <3>2, <3>4 DEF SessionInv, NoLateRefresh
  <2>4. CASE Session!ClearStorage /\ Session!Becomes(t, away)
    BY <2>1, <2>2, <2>4, StorageCleared
  <2> QED
    BY <2>2, <2>3, <2>4
<1>10. ASSUME NEW t \in Tabs, Session!FlagLoginReply(t) PROVE SessionInv'
  <2> DEFINE rest == Session!Answered(tab[t], "flagLogin")
             back == [rest EXCEPT !.form = rest.path # "private"]
  <2>1. /\ rest \in GoodTab /\ rest.reqs = tab[t].reqs \ {"flagLogin"}
    BY <1>0, AskAnswer DEF Session!Kinds
  <2>2. /\ UNCHANGED <<showSignup, loads>> /\ Session!KeepStorage
        /\ Session!Becomes(t, Session!AtSignup(rest, token)) \/ Session!Becomes(t, back)
    BY <1>10 DEF Session!FlagLoginReply
  <2>3. back \in GoodTab /\ back.reqs = rest.reqs
    <3> HIDE DEF rest
    <3> QED
      BY <2>1 DEF GoodTab, Session!Tab
  <2> HIDE DEF rest, back
  <2>4. /\ Session!AtSignup(rest, token) \in GoodTab
        /\ "refresh" \in Session!AtSignup(rest, token).reqs => "refresh" \in rest.reqs
    BY <1>0, <2>1, PageMounted
  <2>5. CASE Session!Becomes(t, Session!AtSignup(rest, token))
    BY <1>0, <2>1, <2>2, <2>4, <2>5, TabMoves
  <2>6. CASE Session!Becomes(t, back)
    BY <1>0, <2>1, <2>2, <2>3, <2>6, TabMoves
  <2> QED
    BY <2>2, <2>5, <2>6
<1>11. ASSUME NEW t \in Tabs, Session!FlagSignupReply(t) PROVE SessionInv'
  <2> DEFINE rest == Session!Answered(tab[t], "flagSignup")
  <2>1. /\ rest \in GoodTab /\ rest.reqs = tab[t].reqs \ {"flagSignup"}
    BY <1>0, AskAnswer DEF Session!Kinds
  <2>2. /\ UNCHANGED <<showSignup, loads>> /\ Session!KeepStorage
        /\ Session!Becomes(t, Session!AtLogin(rest, token)) \/ Session!Becomes(t, rest)
    BY <1>11 DEF Session!FlagSignupReply
  <2> HIDE DEF rest
  <2>3. /\ Session!AtLogin(rest, token) \in GoodTab
        /\ "refresh" \in Session!AtLogin(rest, token).reqs => "refresh" \in rest.reqs
    BY <1>0, <2>1, PageMounted
  <2>4. CASE Session!Becomes(t, Session!AtLogin(rest, token))
    BY <1>0, <2>1, <2>2, <2>3, <2>4, TabMoves
  <2>5. CASE Session!Becomes(t, rest)
    BY <1>0, <2>1, <2>2, <2>5, TabMoves
  <2> QED
    BY <2>2, <2>4, <2>5
<1>12. ASSUME NEW t \in Tabs, NEW k \in {"login", "signup"}, NEW c \in {"connectLogin", "connectSignup"},
              UNCHANGED loads,
              \/ /\ Session!LogIn /\ showSignup' = FALSE
                 /\ Session!Becomes(t, Session!Ask(Session!Answered(tab[t], k), c))
              \/ /\ Session!KeepStorage /\ UNCHANGED showSignup
                 /\ Session!Becomes(t, Session!Answered(tab[t], k))
       PROVE  SessionInv'
  <2> DEFINE rest == Session!Answered(tab[t], k)
  <2>1. /\ rest \in GoodTab /\ rest.reqs = tab[t].reqs \ {k}
    BY <1>0, AskAnswer, ZenonT(30) DEF Session!Kinds
  <2>2. CASE Session!LogIn /\ showSignup' = FALSE /\ Session!Becomes(t, Session!Ask(rest, c))
    <3> HIDE DEF rest
    <3>1. Session!Ask(rest, c) \in GoodTab
      BY <2>1, AskAnswer DEF Session!Kinds
    <3> QED
      BY <1>12, <2>2, <3>1, LoggedIn
  <2>3. CASE Session!KeepStorage /\ UNCHANGED showSignup /\ Session!Becomes(t, rest)
    <3> HIDE DEF rest
    <3> QED
      BY <1>0, <1>12, <2>1, <2>3, TabMoves
  <2> QED
    BY <1>12, <2>2, <2>3
<1>13. ASSUME NEW t \in Tabs, Session!LoginReply(t) \/ Session!SignupReply(t) PROVE SessionInv'
  BY <1>12, <1>13 DEF Session!LoginReply, Session!SignupReply
<1>14. ASSUME NEW t \in Tabs, NEW k \in {"connectLogin", "connectSignup"}, Session!ConnectReply(t, k)
       PROVE  SessionInv'
  <2> DEFINE rest == Session!Answered(tab[t], k)
  <2>1. /\ rest \in GoodTab /\ rest.reqs = tab[t].reqs \ {k}
    BY <1>0, AskAnswer DEF Session!Kinds
  <2>2. /\ UNCHANGED <<showSignup, loads>> /\ Session!KeepStorage
        /\ Session!Becomes(t, Session!PrivateRoute(rest, token)) \/ Session!Becomes(t, rest)
    BY <1>14 DEF Session!ConnectReply
  <2> HIDE DEF rest
  <2>3. /\ Session!PrivateRoute(rest, token) \in GoodTab
        /\ "refresh" \in Session!PrivateRoute(rest, token).reqs => "refresh" \in rest.reqs
    BY <1>0, <2>1, PageMounted
  <2>4. CASE Session!Becomes(t, Session!PrivateRoute(rest, token))
    BY <1>0, <2>1, <2>2, <2>3, <2>4, TabMoves
  <2>5. CASE Session!Becomes(t, rest)
    BY <1>0, <2>1, <2>2, <2>5, TabMoves
  <2> QED
    BY <2>2, <2>4, <2>5
<1>15. ASSUME NEW t \in Tabs, Session!HttpReply(t) PROVE SessionInv'
  <2> DEFINE rest == Session!Answered(tab[t], "api")
             away == [rest EXCEPT !.leaving = TRUE]
  <2>1. /\ rest \in GoodTab /\ rest.reqs = tab[t].reqs \ {"api"}
        /\ away \in GoodTab /\ away.reqs = tab[t].reqs \ {"api"}
    BY <1>0, AskAnswer DEF Session!Kinds
  <2>2. /\ UNCHANGED <<showSignup, loads>>
        /\ \/ Session!KeepStorage /\ Session!Becomes(t, rest)
           \/ Session!ClearStorage /\ Session!Becomes(t, away)
    BY <1>15 DEF Session!HttpReply
  <2> HIDE DEF rest, away
  <2>3. CASE Session!KeepStorage /\ Session!Becomes(t, rest)
    BY <1>0, <2>1, <2>2, <2>3, TabMoves
  <2>4. CASE Session!ClearStorage /\ Session!Becomes(t, away)
    BY <2>1, <2>2, <2>4, StorageCleared
  <2> QED
    BY <2>2, <2>3, <2>4
<1> QED
  BY <1>1, <1>2, <1>3, <1>4, <1>5, <1>6, <1>7, <1>8, <1>9, <1>10, <1>11, <1>13, <1>14, <1>15
     DEF Session!Next

-----------------------------------------------------------------------------
(* The station page. *)

\* The list of a drop holds no dropped row but revived ones and, once the broker has
\* dropped them, its own.
DropBase ==
    /\ drop.at = "sent" => drop.base \cap dropped \subseteq revived
    /\ drop.at = "timer" => drop.base \cap dropped \subseteq revived \cup drop.ids

\* Lists are of the partition they are said to come from, wherever they are kept.
ListsAreOf ==
    /\ page.from # 0 => \A r \in page.shown : r.part = page.from
    /\ drop.from # 0 => \A r \in drop.base : r.part = drop.from
    /\ \A d \in details : \A r \in d.reply.rows : r.part = d.part

\* Lists that were not crossed are the selected partition's, or its details are
\* under way, or nothing was loaded yet.
NotCrossed ==
    ~crossed => \/ page.part # 0 /\ page.from = page.part
                \/ \E d \in details : d.part = page.part
                \/ page.shown = {} /\ drop.at = "idle"

\* Details are asked for, and the loader ends, only once a partition is selected.
LoadedOnce == ~page.loading \/ details # {} => page.part # 0

StationInv ==
    /\ Station!TypeOK
    /\ Station!ChecksOfList
    /\ Station!DroppedStaysAway
    /\ DropBase
    /\ ListsAreOf
    /\ NotCrossed
    /\ LoadedOnce

\* The rows of a list, or of a partition, are rows.
LEMMA RowsOf ==
    ASSUME NEW S, NEW l, NEW p
    PROVE  /\ Station!Of(S, l) = {r \in S : r.list = l}
           /\ Station!OfPart(S, p) = {r \in S : r.part = p}
BY DEF Station!Of, Station!OfPart

\* A request for the details of a partition is well typed, its reply still empty.
LEMMA DetailsAsked ==
    ASSUME Station!TypeOK, NEW p \in Partitions, Station!GetStationDetails(p)
    PROVE  /\ details' \subseteq [part : Partitions, reply : [rows : SUBSET Rows, done : BOOLEAN]]
           /\ details \subseteq details' /\ \E d \in details' : d.part = p
           /\ \A d \in details' : d \in details \/ d.reply.rows = {}
<1> DEFINE new == [part |-> p, reply |-> Station!Unserved]
<1>1. details' = details \cup {new}
  BY DEF Station!GetStationDetails
<1>2. /\ new \in [part : Partitions, reply : [rows : SUBSET Rows, done : BOOLEAN]]
      /\ new.part = p /\ new.reply.rows = {}
  BY DEF Station!Unserved
<1> HIDE DEF new
<1> QED
  BY <1>1, <1>2 DEF Station!TypeOK

\* The partition is set: it is what it was, or its details are asked for.
LEMMA PartitionSet ==
    ASSUME StationInv, NEW p \in Partitions, Station!PartitionEffect(p), meta' \in {"idle", "sent", "failed"},
           UNCHANGED <<server, drop, resend, dropped, revived, crossed, inPlace, changes>>
    PROVE  StationInv'
<1>1. page' = [page EXCEPT !.part = p] /\ page \in Station!PageState
  BY DEF Station!PartitionEffect, StationInv, Station!TypeOK
<1>2. /\ page' \in Station!PageState /\ page'.part = p /\ page'.from = page.from
      /\ page'.shown = page.shown /\ page'.tab = page.tab /\ page'.check = page.check
  BY <1>1 DEF Station!PageState
<1>3. \/ p = page.part /\ details' = details
      \/ Station!GetStationDetails(p)
  BY DEF Station!PartitionEffect
<1>4. /\ details' \subseteq [part : Partitions, reply : [rows : SUBSET Rows, done : BOOLEAN]]
      /\ \A d \in details' : d \in details \/ d.reply.rows = {}
      /\ (details' = details /\ p = page.part) \/ \E d \in details' : d.part = p
  BY <1>3, DetailsAsked DEF StationInv, Station!TypeOK
<1>5. Station!TypeOK'
  BY <1>2, <1>4 DEF StationInv, Station!TypeOK
<1>6. Station!ChecksOfList' /\ Station!DroppedStaysAway' /\ DropBase'
  BY <1>2 DEF StationInv, Station!ChecksOfList, Station!DroppedStaysAway, DropBase
<1>a. page'.loading = page.loading /\ p # 0
  BY <1>1, ConsoleMessagesAssumption DEF Station!PageState
<1>b. ListsAreOf'
  BY <1>2, <1>4 DEF StationInv, ListsAreOf
<1>c. NotCrossed'
  BY <1>2, <1>4, <1>a DEF StationInv, NotCrossed
<1>7. ListsAreOf' /\ NotCrossed' /\ LoadedOnce'
  BY <1>2, <1>a, <1>b, <1>c DEF LoadedOnce
<1> QED
  BY <1>5, <1>6, <1>7 DEF StationInv

\* A step that changes of the page only its loader, its checks and whether it is left,
\* the checks being of the list on the screen.
Touch(c, l, g, n) ==
    /\ page' = [page EXCEPT !.check = c, !.loading = l, !.left = g, !.tab = n]
    /\ c \subseteq Station!Of(Rows, n)
    /\ page.loading => l
    /\ meta' \in {"idle", "sent", "failed"} /\ resend' \in BOOLEAN /\ inPlace' \in BOOLEAN
    /\ UNCHANGED <<server, drop, details, dropped, revived, crossed, changes>>

LEMMA PageTouched ==
    ASSUME StationInv, NEW c \in SUBSET Rows, NEW l \in BOOLEAN, NEW g \in BOOLEAN, NEW n \in Station!Lists,
           Touch(c, l, g, n)
    PROVE  StationInv'
<1> USE DEF Touch
<1>1. page \in Station!PageState
  BY DEF StationInv, Station!TypeOK
<1>2. /\ page' \in Station!PageState /\ page'.part = page.part /\ page'.from = page.from
      /\ page'.shown = page.shown /\ page'.tab = n /\ page'.check = c
      /\ page'.loading = l
  BY <1>1 DEF Station!PageState
<1>3. Station!TypeOK'
  BY <1>2 DEF StationInv, Station!TypeOK
<1>4. Station!ChecksOfList' /\ Station!DroppedStaysAway' /\ DropBase'
  BY <1>2 DEF StationInv, Station!ChecksOfList, Station!DroppedStaysAway, DropBase
<1>5. ListsAreOf' /\ NotCrossed' /\ LoadedOnce'
  BY <1>2 DEF StationInv, ListsAreOf, NotCrossed, LoadedOnce
<1> QED
  BY <1>3, <1>4, <1>5 DEF StationInv

\* Every step of the station page.
LEMMA StationStep ==
    ASSUME StationInv, [Station!Next]_(Station!vars)
    PROVE  StationInv'
<1> USE ConsoleMessagesAssumption
<1> DEFINE Details == [part : Partitions, reply : [rows : SUBSET Rows, done : BOOLEAN]]
           Drops == [at : {"idle", "sent", "timer"}, list : Station!Lists, ids : SUBSET Rows,
                     base : SUBSET Rows, from : {0} \cup Partitions]
<1>0. /\ page \in Station!PageState /\ details \subseteq Details /\ drop \in Drops
      /\ page.check \subseteq Station!Of(Rows, page.tab)
  BY DEF StationInv, Station!TypeOK, Station!ChecksOfList
<1>a. /\ page.part \in {0} \cup Partitions /\ page.from \in {0} \cup Partitions
      /\ page.loading \in BOOLEAN /\ page.left \in BOOLEAN /\ page.shown \subseteq Rows
      /\ page.tab \in Station!Lists /\ page.check \subseteq Rows
      /\ page = [page EXCEPT !.check = page.check, !.loading = page.loading, !.left = page.left,
                             !.tab = page.tab]
  BY <1>0 DEF Station!PageState
<1>b. /\ Station!NoDrop \in Drops /\ Station!NoDrop.at = "idle" /\ Station!NoDrop.from = 0
  BY DEF Station!NoDrop, Station!Lists
<1>c. resend \in BOOLEAN /\ inPlace \in BOOLEAN /\ meta \in {"idle", "sent", "failed"}
  BY DEF StationInv, Station!TypeOK
<1>1. CASE UNCHANGED Station!vars
  BY <1>1 DEF StationInv, Station!vars, Station!TypeOK, Station!ChecksOfList, Station!DroppedStaysAway,
              DropBase, ListsAreOf, NotCrossed, LoadedOnce
<1>2. CASE Station!MetaReply
  <2>1. CASE Station!PartitionEffect(1) /\ meta' = "idle"
    BY <1>2, <2>1, PartitionSet DEF Station!MetaReply, Station!KeepHistory
  <2>2. CASE page' = [page EXCEPT !.left = TRUE] /\ meta' = "idle" /\ UNCHANGED details
    <3>1. page' = [page EXCEPT !.check = page.check, !.loading = page.loading, !.left = TRUE, !.tab = page.tab]
      BY <1>0, <2>2 DEF Station!PageState
    <3>2. Touch(page.check, page.loading, TRUE, page.tab)
      BY <1>0, <1>2, <1>a, <1>c, <2>2, <3>1 DEF Touch, Station!MetaReply, Station!KeepHistory
    <3> QED
      BY <1>a, <3>2, PageTouched
  <2>3. CASE meta' = "failed" /\ UNCHANGED <<page, details>>
    <3>1. page' = [page EXCEPT !.check = page.check, !.loading = page.loading, !.left = page.left, !.tab = page.tab]
      BY <1>a, <2>3
    <3>2. Touch(page.check, page.loading, page.left, page.tab)
      BY <1>0, <1>2, <1>a, <1>c, <2>3, <3>1 DEF Touch, Station!MetaReply, Station!KeepHistory
    <3> QED
      BY <1>a, <3>2, PageTouched
  <2> QED
    BY <1>2, <2>1, <2>2, <2>3 DEF Station!MetaReply
<1>3. ASSUME NEW d \in details, Station!Serve(d) PROVE StationInv'
  <2> DEFINE rows == Station!OfPart(server, d.part)
             new == [d EXCEPT !.reply = [rows |-> rows, done |-> TRUE]]
  <2>1. details' = (details \ {d}) \cup {new}
    BY <1>3 DEF Station!Serve
  <2>a. server \subseteq Rows
    BY DEF StationInv, Station!TypeOK
  <2>b. rows = {r \in server : r.part = d.part}
    BY RowsOf, ZenonT(30)
  <2>2. rows \subseteq Rows /\ \A r \in rows : r.part = d.part
    <3> HIDE DEF rows
    <3> QED
      BY <2>a, <2>b
  <2>3. new \in Details /\ new.part = d.part /\ new.reply.rows = rows
    <3> HIDE DEF rows
    <3> QED
      BY <1>0, <2>2
  <2> HIDE DEF new, rows
  <2>4. /\ UNCHANGED <<server, page, meta, drop, resend, dropped, revived, crossed, inPlace, changes>>
        /\ details' \subseteq Details
    BY <1>0, <1>3, <2>1, <2>3 DEF Station!Serve, Station!KeepHistory
  <2>5. Station!TypeOK'
    BY <2>4 DEF StationInv, Station!TypeOK
  <2>6. Station!ChecksOfList' /\ Station!DroppedStaysAway' /\ DropBase'
    BY <2>4 DEF StationInv, Station!ChecksOfList, Station!DroppedStaysAway, DropBase
  <2>7. ListsAreOf' /\ NotCrossed' /\ LoadedOnce'
    BY <2>1, <2>2, <2>3, <2>4 DEF StationInv, ListsAreOf, NotCrossed, LoadedOnce
  <2> QED
    BY <2>5, <2>6, <2>7 DEF StationInv
<1>4. ASSUME NEW d \in details, Station!DetailsReply(d) PROVE StationInv'
  <2>1. /\ d.part \in Partitions /\ d.part # 0 /\ d.reply.rows \subseteq Rows
        /\ \A r \in d.reply.rows : r.part = d.part
    BY <1>0 DEF StationInv, ListsAreOf
  <2>2. page' = [page EXCEPT !.shown = d.reply.rows, !.from = d.part, !.loading = FALSE]
    BY <1>4 DEF Station!DetailsReply
  <2>3. /\ page' \in Station!PageState /\ page'.part = page.part /\ page'.from = d.part
        /\ page'.shown = d.reply.rows /\ page'.tab = page.tab /\ page'.check = page.check
    BY <1>0, <2>1, <2>2 DEF Station!PageState
  <2>4. /\ details' \subseteq details /\ revived' = revived \cup (d.reply.rows \cap dropped)
        /\ crossed' = (d.part # page.part)
        /\ UNCHANGED <<server, meta, drop, resend, dropped, inPlace, changes>>
    BY <1>4 DEF Station!DetailsReply
  <2>5. Station!TypeOK'
    BY <2>1, <2>3, <2>4 DEF StationInv, Station!TypeOK
  <2>6. Station!ChecksOfList' /\ Station!DroppedStaysAway' /\ DropBase'
    BY <2>3, <2>4 DEF StationInv, Station!ChecksOfList, Station!DroppedStaysAway, DropBase
  <2>7. ListsAreOf'
    BY <2>1, <2>3, <2>4 DEF StationInv, ListsAreOf
  <2>8. NotCrossed' /\ LoadedOnce'
    BY <2>1, <2>3, <2>4 DEF NotCrossed, StationInv, LoadedOnce
  <2> QED
    BY <2>5, <2>6, <2>7, <2>8 DEF StationInv
<1>5. ASSUME NEW d \in details, Station!DetailsFails(d) PROVE StationInv'
  <2>1. PICK missing \in BOOLEAN :
           page' = [page EXCEPT !.loading = FALSE, !.left = @ \/ missing]
    BY <1>5 DEF Station!DetailsFails
  <2>2. /\ page' \in Station!PageState /\ page'.part = page.part /\ page'.from = page.from
        /\ page'.shown = page.shown /\ page'.tab = page.tab /\ page'.check = page.check
    BY <1>0, <2>1 DEF Station!PageState
  <2>3. /\ details' \subseteq details /\ crossed' = TRUE
        /\ UNCHANGED <<server, meta, drop, resend, dropped, revived, inPlace, changes>>
    BY <1>5 DEF Station!DetailsFails
  <2>4. Station!TypeOK'
    BY <2>2, <2>3 DEF StationInv, Station!TypeOK
  <2>5. Station!ChecksOfList' /\ Station!DroppedStaysAway' /\ DropBase'
    BY <2>2, <2>3 DEF StationInv, Station!ChecksOfList, Station!DroppedStaysAway, DropBase
  <2>6. ListsAreOf' /\ NotCrossed' /\ LoadedOnce'
    BY <2>2, <2>3 DEF StationInv, ListsAreOf, NotCrossed, LoadedOnce
  <2> QED
    BY <2>4, <2>5, <2>6 DEF StationInv
<1>6. ASSUME NEW p \in Partitions, Station!SelectPartition(p) PROVE StationInv'
  <2>1. meta' \in {"idle", "sent", "failed"}
    BY <1>6 DEF StationInv, Station!TypeOK, Station!SelectPartition
  <2> QED
    BY <1>6, <2>1, PartitionSet DEF Station!SelectPartition, Station!KeepHistory
<1>7. CASE Station!Refresh
  <2>1. /\ Station!GetStationDetails(page.part)
        /\ UNCHANGED <<server, page, meta, drop, resend, dropped, revived, crossed, inPlace, changes>>
    BY <1>7 DEF Station!Refresh, Station!KeepHistory
  <2>2. page.part # 0
    BY <1>7 DEF Station!Refresh, Station!OnPage, StationInv, LoadedOnce
  <2>3. page.part \in Partitions
    BY <1>a, <2>2
  <2>4. /\ details' \subseteq Details /\ details \subseteq details'
        /\ \A d \in details' : d \in details \/ d.reply.rows = {}
    BY <2>1, <2>3, DetailsAsked DEF StationInv
  <2>5. Station!TypeOK'
    BY <2>1, <2>4 DEF StationInv, Station!TypeOK
  <2>6. Station!ChecksOfList' /\ Station!DroppedStaysAway' /\ DropBase'
    BY <2>1 DEF StationInv, Station!ChecksOfList, Station!DroppedStaysAway, DropBase
  <2>7. ListsAreOf' /\ NotCrossed' /\ LoadedOnce'
    BY <2>1, <2>2, <2>4 DEF StationInv, ListsAreOf, NotCrossed, LoadedOnce
  <2> QED
    BY <2>5, <2>6, <2>7 DEF StationInv
<1>8. ASSUME NEW l \in Station!Lists, Station!HandleChangeMenuItem(l) PROVE StationInv'
  <2>1. page' = [page EXCEPT !.check = {}, !.loading = page.loading, !.left = page.left, !.tab = l]
    BY <1>0, <1>8 DEF Station!HandleChangeMenuItem, Station!PageState
  <2>2. Touch({}, page.loading, page.left, l)
    BY <1>8, <1>c, <2>1 DEF Touch, Station!HandleChangeMenuItem, Station!KeepHistory
  <2> QED
    BY <1>a, <2>2, PageTouched
<1>9. ASSUME NEW r \in Rows, Station!HandleCheckedClick(r) PROVE StationInv'
  <2> DEFINE new == IF r \in page.check THEN page.check \ {r} ELSE page.check \cup {r}
  <2>1. r \in Station!Of(Rows, page.tab)
    BY <1>9, RowsOf DEF Station!HandleCheckedClick, Station!CheckBox, Station!List
  <2>2. new \subseteq Rows /\ new \subseteq Station!Of(Rows, page.tab)
    BY <1>0, <1>a, <2>1
  <2>3. page' = [page EXCEPT !.check = new, !.loading = page.loading, !.left = page.left, !.tab = page.tab]
    BY <1>0, <1>9 DEF Station!HandleCheckedClick, Station!PageState
  <2> HIDE DEF new
  <2>4. Touch(new, page.loading, page.left, page.tab)
    BY <1>9, <1>c, <2>2, <2>3 DEF Touch, Station!HandleCheckedClick, Station!KeepHistory
  <2> QED
    BY <1>a, <2>2, <2>4, PageTouched
<1>10. CASE Station!HandleDrop
  <2>1. /\ drop.at = "idle" /\ page.check # {}
        /\ drop' = [at |-> "sent", list |-> page.tab, ids |-> page.check, base |-> Station!List,
                    from |-> page.from]
        /\ UNCHANGED <<server, page, meta, details, resend, dropped, revived, crossed, inPlace, changes>>
    BY <1>10 DEF Station!HandleDrop, Station!DropButton, Station!KeepHistory
  <2>a. Station!List = {r \in page.shown : r.list = page.tab}
    BY DEF Station!List, Station!Of
  <2>b. Station!List # {}
    BY <1>10 DEF Station!HandleDrop, Station!DropButton
  <2>2. Station!List \subseteq page.shown /\ Station!List # {}
    BY <2>a, <2>b
  <2>3. /\ drop' \in Drops /\ drop'.at = "sent" /\ drop'.list = page.tab /\ drop'.ids = page.check
        /\ drop'.base = Station!List /\ drop'.from = page.from
    BY <1>a, <2>1, <2>2
  <2>4. Station!TypeOK'
    BY <1>0, <2>1, <2>3 DEF StationInv, Station!TypeOK
  <2>5. Station!ChecksOfList' /\ Station!DroppedStaysAway' /\ DropBase'
    BY <2>1, <2>2, <2>3 DEF StationInv, Station!ChecksOfList, Station!DroppedStaysAway, DropBase
  <2>6. ListsAreOf' /\ NotCrossed' /\ LoadedOnce'
    BY <2>1, <2>2, <2>3 DEF StationInv, ListsAreOf, NotCrossed, LoadedOnce
  <2> QED
    BY <2>4, <2>5, <2>6 DEF StationInv
<1>11. CASE Station!DropReply
  <2>0. /\ drop.at = "sent" /\ UNCHANGED <<page, meta, details, resend, revived, crossed, inPlace, changes>>
    BY <1>11 DEF Station!DropReply
  <2>1. CASE /\ server' = server \ drop.ids /\ dropped' = dropped \cup drop.ids
             /\ drop' = [drop EXCEPT !.at = "timer"]
    <3>1. /\ drop' \in Drops /\ drop'.at = "timer" /\ drop'.list = drop.list /\ drop'.ids = drop.ids
          /\ drop'.base = drop.base /\ drop'.from = drop.from /\ drop.ids \subseteq Rows
      BY <1>0, <2>1
    <3>2. Station!TypeOK'
      BY <2>0, <2>1, <3>1 DEF StationInv, Station!TypeOK
    <3>3. Station!ChecksOfList' /\ Station!DroppedStaysAway' /\ DropBase'
      BY <2>0, <2>1, <3>1 DEF StationInv, Station!ChecksOfList, Station!DroppedStaysAway, DropBase
    <3>4. ListsAreOf' /\ NotCrossed' /\ LoadedOnce'
      BY <2>0, <2>1, <3>1 DEF StationInv, ListsAreOf, NotCrossed, LoadedOnce
    <3> QED
      BY <3>2, <3>3, <3>4 DEF StationInv
  <2>2. CASE drop' = Station!NoDrop /\ UNCHANGED <<server, dropped>>
    <3>1. Station!TypeOK'
      BY <1>b, <2>0, <2>2 DEF StationInv, Station!TypeOK
    <3>2. Station!ChecksOfList' /\ Station!DroppedStaysAway' /\ DropBase'
      BY <1>b, <2>0, <2>2 DEF StationInv, Station!ChecksOfList, Station!DroppedStaysAway, DropBase
    <3>3. ListsAreOf' /\ NotCrossed' /\ LoadedOnce'
      BY <1>b, <2>0, <2>2 DEF StationInv, ListsAreOf, NotCrossed, LoadedOnce
    <3> QED
      BY <3>1, <3>2, <3>3 DEF StationInv
  <2> QED
    BY <1>11, <2>1, <2>2 DEF Station!DropReply
<1>12. CASE Station!DropTimer
  <2> DEFINE rest == page.shown \ Station!Of(page.shown, drop.list)
             list == rest \cup (drop.base \ drop.ids)
             from == IF drop.from = page.from THEN page.from ELSE 0
  <2>1. /\ drop.at = "timer" /\ page' = [page EXCEPT !.shown = list, !.from = from, !.check = {}]
        /\ crossed' = (crossed \/ drop.from # page.part) /\ drop' = Station!NoDrop
        /\ UNCHANGED <<server, meta, details, resend, dropped, revived, inPlace, changes>>
    BY <1>12 DEF Station!DropTimer
  <2>2. /\ list \subseteq Rows /\ from \in {0} \cup Partitions
    BY <1>0, <1>a
  <2>3. list \cap dropped \subseteq revived
    <3>1. /\ page.shown \cap dropped \subseteq revived \cup drop.ids
          /\ drop.base \cap dropped \subseteq revived \cup drop.ids
      BY <2>1 DEF StationInv, Station!DroppedStaysAway, DropBase
    <3>2. drop.ids \subseteq Station!Of(Rows, drop.list)
      BY <2>1 DEF StationInv, Station!TypeOK
    <3>3. rest \cap drop.ids = {}
      <4>1. /\ Station!Of(Rows, drop.list) = {r \in Rows : r.list = drop.list}
            /\ Station!Of(page.shown, drop.list) = {r \in page.shown : r.list = drop.list}
        BY DEF Station!Of
      <4> QED
        BY <3>2, <4>1
    <3> QED
      BY <3>1, <3>3
  <2>4. from # 0 => \A r \in list : r.part = from
    BY DEF StationInv, ListsAreOf
  <2>5. ~crossed' => \/ page.part # 0 /\ from = page.part
                     \/ \E d \in details : d.part = page.part
    BY <2>1 DEF StationInv, NotCrossed
  <2> HIDE DEF list, from
  <2>6. /\ page' \in Station!PageState /\ page'.part = page.part /\ page'.from = from
        /\ page'.shown = list /\ page'.tab = page.tab /\ page'.check = {} /\ page'.loading = page.loading
    BY <1>0, <2>1, <2>2 DEF Station!PageState
  <2>7. Station!TypeOK'
    BY <1>b, <2>1, <2>6 DEF StationInv, Station!TypeOK
  <2>8. Station!ChecksOfList' /\ Station!DroppedStaysAway' /\ DropBase'
    BY <1>b, <2>1, <2>3, <2>6 DEF Station!ChecksOfList, Station!DroppedStaysAway, DropBase
  <2>9. ListsAreOf' /\ NotCrossed' /\ LoadedOnce'
    BY <1>b, <2>1, <2>4, <2>5, <2>6 DEF StationInv, ListsAreOf, NotCrossed, LoadedOnce
  <2> QED
    BY <2>7, <2>8, <2>9 DEF StationInv
<1>13. CASE Station!HandleResend
  <2>1. Touch(page.check, page.loading, page.left, page.tab)
    BY <1>0, <1>13, <1>a, <1>c DEF Touch, Station!HandleResend, Station!KeepHistory
  <2> QED
    BY <1>a, <2>1, PageTouched
<1>14. CASE Station!ResendEnds
  <2>1. CASE page' = page
    <3>1. Touch(page.check, page.loading, page.left, page.tab)
      BY <1>0, <1>14, <1>a, <1>c, <2>1 DEF Touch, Station!ResendEnds, Station!KeepHistory
    <3> QED
      BY <1>a, <3>1, PageTouched
  <2>2. CASE page' = [page EXCEPT !.check = {}]
    <3>1. page' = [page EXCEPT !.check = {}, !.loading = page.loading, !.left = page.left, !.tab = page.tab]
      BY <1>0, <2>2 DEF Station!PageState
    <3>2. Touch({}, page.loading, page.left, page.tab)
      BY <1>14, <1>c, <3>1 DEF Touch, Station!ResendEnds, Station!KeepHistory
    <3> QED
      BY <1>a, <3>2, PageTouched
  <2> QED
    BY <1>14, <2>1, <2>2 DEF Station!ResendEnds
<1>15. CASE Station!OpenDlsStation
  <2>1. page' = [page EXCEPT !.check = page.check, !.loading = TRUE, !.left = page.left, !.tab = page.tab]
    BY <1>0, <1>15 DEF Station!OpenDlsStation, Station!PageState
  <2>2. Touch(page.check, TRUE, page.left, page.tab)
    BY <1>0, <1>15, <1>c, <2>1 DEF Touch, Station!OpenDlsStation
  <2> QED
    BY <1>a, <2>2, PageTouched
<1>16. ASSUME NEW r \in Rows, Station!BrokerChange(r) PROVE StationInv'
  <2>1. /\ server' \subseteq server \cup {r} /\ r \notin dropped /\ changes' \in 0..MaxChanges
        /\ UNCHANGED <<page, meta, details, drop, resend, dropped, revived, crossed, inPlace>>
    BY <1>16 DEF Station!BrokerChange, StationInv, Station!TypeOK
  <2>2. Station!TypeOK'
    BY <2>1 DEF StationInv, Station!TypeOK
  <2>3. Station!ChecksOfList' /\ Station!DroppedStaysAway' /\ DropBase'
    BY <2>1 DEF StationInv, Station!ChecksOfList, Station!DroppedStaysAway, DropBase
  <2>4. ListsAreOf' /\ NotCrossed' /\ LoadedOnce'
    BY <2>1 DEF StationInv, ListsAreOf, NotCrossed, LoadedOnce
  <2> QED
    BY <2>2, <2>3, <2>4 DEF StationInv
<1> QED
  BY <1>1, <1>2, <1>3, <1>4, <1>5, <1>6, <1>7, <1>8, <1>9, <1>10, <1>11, <1>12, <1>13, <1>14, <1>15, <1>16
     DEF Station!Next

-----------------------------------------------------------------------------
(* The drawer. *)

\* Unless a row was passed over, what is asked for or shown is selected, or nothing is.
AskedIsSelected ==
    ~passedOver => /\ asked # NoMsg => selected \in {asked, NoMsg}
                   /\ shown # NoMsg => selected \in {shown, NoMsg}

MessageInv == Message!TypeOK /\ AskedIsSelected

\* Every step of the drawer.
LEMMA MessageStep ==
    ASSUME MessageInv, [Message!Next]_(Message!vars)
    PROVE  MessageInv'
<1> USE ConsoleMessagesAssumption
<1> USE DEF MessageInv, AskedIsSelected, Message!TypeOK
<1>1. CASE UNCHANGED Message!vars
  BY <1>1 DEF Message!vars
<1>2. ASSUME NEW m \in MsgIds, Message!OnSelectedRow(m) PROVE MessageInv'
  <2>1. CASE m # selected /\ ~load /\ Message!GetMessageDetails(m)
    BY <1>2, <2>1 DEF Message!OnSelectedRow, Message!GetMessageDetails
  <2>2. CASE m # selected /\ load /\ passedOver' = TRUE /\ UNCHANGED <<shown, load, asked>>
    BY <1>2, <2>2 DEF Message!OnSelectedRow
  <2>3. CASE m = selected /\ UNCHANGED <<shown, load, asked, passedOver>>
    BY <1>2, <2>3 DEF Message!OnSelectedRow
  <2> QED
    BY <1>2, <2>1, <2>2, <2>3 DEF Message!OnSelectedRow
<1>3. CASE Message!Unselect
  BY <1>3 DEF Message!Unselect
<1>4. CASE Message!ArrangeData
  BY <1>4 DEF Message!ArrangeData
<1>5. CASE Message!RequestFails
  BY <1>5 DEF Message!RequestFails
<1> QED
  BY <1>1, <1>2, <1>3, <1>4, <1>5 DEF Message!Next

-----------------------------------------------------------------------------
(* The journey. *)

\* Nobody is pulled back but by what was under way, and nothing is under way on a
\* page that was left with nothing under way.
LeftInPeace ==
    /\ pulled => open /\ at # "journey"
    /\ at # "journey" /\ ~open => ~get /\ sub = "off" /\ ignore = "idle"

JourneyInv == Journey!TypeOK /\ LeftInPeace

\* The handler that leads back was under way: the user who is elsewhere left with it
\* open, and the one who is on the page leaves now.
LEMMA LedBack ==
    ASSUME JourneyInv, Journey!ReturnBack, Journey!UnderWay \/ sub = "on",
           get' \in BOOLEAN /\ (get' => get), ignore' = ignore \/ ignore' = "idle",
           isLoading' \in BOOLEAN, view' \subseteq Groups, UNCHANGED <<cgs, resent>>
    PROVE  JourneyInv'
<1> USE DEF JourneyInv, LeftInPeace, Journey!TypeOK, Journey!Ends
<1>1. CASE at = "journey"
  BY <1>1 DEF Journey!ReturnBack, Journey!Unmount, Journey!UnderWay
<1>2. CASE at # "journey"
  <2>1. open
    BY <1>2 DEF Journey!UnderWay
  <2> QED
    BY <1>2, <2>1 DEF Journey!ReturnBack
<1> QED
  BY <1>1, <1>2

\* Every step of the journey.
LEMMA JourneyStep ==
    ASSUME JourneyInv, [Journey!Next]_(Journey!vars)
    PROVE  JourneyInv'
<1> USE DEF JourneyInv, LeftInPeace, Journey!TypeOK, Journey!Ends
<1>1. CASE UNCHANGED Journey!vars
  BY <1>1 DEF Journey!vars
<1>2. CASE Journey!GetReply
  <2>1. CASE Journey!ArrangeData(cgs) /\ UNCHANGED isLoading
    <3>1. CASE cgs = {}
      BY <1>2, <2>1, <3>1, LedBack DEF Journey!GetReply, Journey!ArrangeData, Journey!UnderWay
    <3>2. CASE cgs # {}
      <4>1. /\ view' = cgs /\ get' = FALSE
            /\ UNCHANGED <<at, pulled, sub, open, isLoading, cgs, ignore, resent>>
        BY <1>2, <2>1, <3>2 DEF Journey!GetReply, Journey!ArrangeData
      <4> QED
        BY <4>1
    <3> QED
      BY <3>1, <3>2
  <2>2. CASE isLoading' = FALSE /\ UNCHANGED <<at, pulled, sub, open, view>>
    BY <1>2, <2>2 DEF Journey!GetReply
  <2>3. CASE isLoading' = FALSE /\ cgs = {} /\ Journey!ReturnBack /\ UNCHANGED view
    BY <1>2, <2>3, LedBack DEF Journey!GetReply, Journey!UnderWay
  <2> QED
    BY <1>2, <2>1, <2>2, <2>3 DEF Journey!GetReply
<1>3. CASE Journey!LoaderTimer
  BY <1>3 DEF Journey!LoaderTimer
<1>4. CASE Journey!SubReply
  BY <1>4 DEF Journey!SubReply
<1>5. CASE Journey!Push
  <2>1. CASE cgs = {}
    BY <1>5, <2>1, LedBack DEF Journey!Push, Journey!ArrangeData
  <2>2. CASE cgs # {}
    BY <1>5, <2>2 DEF Journey!Push, Journey!ArrangeData
  <2> QED
    BY <2>1, <2>2
<1>6. ASSUME NEW g \in Groups, Journey!AckBy(g) PROVE JourneyInv'
  BY <1>6 DEF Journey!AckBy
<1>7. ASSUME NEW to \in {"station", "elsewhere"}, Journey!Leave(to) PROVE JourneyInv'
  BY <1>7 DEF Journey!Leave, Journey!Unmount, Journey!UnderWay
<1>8. CASE Journey!FromStation
  BY <1>8 DEF Journey!FromStation
<1>9. CASE Journey!HandleIgnore
  BY <1>9 DEF Journey!HandleIgnore, Journey!Buttons
<1>10. CASE Journey!IgnoreReply
  BY <1>10 DEF Journey!IgnoreReply
<1>11. CASE Journey!IgnoreTimer
  BY <1>11, LedBack DEF Journey!IgnoreTimer, Journey!UnderWay
<1>12. CASE Journey!HandleResend
  BY <1>12 DEF Journey!HandleResend
<1>13. CASE Journey!ResendEnds
  BY <1>13 DEF Journey!ResendEnds
<1> QED
  BY <1>1, <1>2, <1>3, <1>4, <1>5, <1>6, <1>7, <1>8, <1>9, <1>10, <1>11, <1>12, <1>13 DEF Journey!Next

-----------------------------------------------------------------------------
(* The pages side by side. *)

MessagesInv ==
    /\ route = "session" => SessionInv
    /\ route = "station" => StationInv
    /\ route = "message" => MessageInv
    /\ route = "journey" => JourneyInv

\* Every page as it is opened.
LEMMA MessagesInit == Init => MessagesInv
<1> SUFFICES ASSUME Init PROVE MessagesInv
  OBVIOUS
<1> USE ConsoleMessagesAssumption
<1>1. CASE route = "session" /\ Session!Init
  <2>1. /\ Session!App("private", "none") \in GoodTab
        /\ "refresh" \notin Session!App("private", "none").reqs
    BY AppMounted DEF Tokens
  <2>a. TabsTyped
    BY <1>1, <2>1 DEF Session!Init, TabsTyped, Tokens
  <2>2. Session!TypeOK
    BY <2>a, TabsGood
  <2> QED
    BY <1>1, <2>1, <2>2 DEF MessagesInv, SessionInv, NoLateRefresh, Session!Init
<1>2. CASE route = "station" /\ Station!Init
  <2>1. /\ page \in Station!PageState /\ page.part = 0 /\ page.from = 0 /\ page.shown = {}
        /\ page.check = {} /\ page.loading = TRUE
    BY <1>2 DEF Station!Init, Station!PageState, Station!Lists
  <2>2. /\ drop.at = "idle" /\ drop.from = 0
        /\ drop \in [at : {"idle", "sent", "timer"}, list : Station!Lists, ids : SUBSET Rows,
                      base : SUBSET Rows, from : {0} \cup Partitions]
    BY <1>2 DEF Station!Init, Station!NoDrop, Station!Lists
  <2>a. /\ server = Rows /\ dropped = {} /\ revived = {} /\ crossed = FALSE /\ inPlace = FALSE
        /\ changes = 0 /\ resend = FALSE /\ meta = "sent" /\ details = {}
    BY <1>2 DEF Station!Init
  <2>b. /\ server \subseteq Rows /\ dropped \subseteq Rows \ server /\ revived \subseteq Rows
        /\ details \subseteq [part : Partitions, reply : [rows : SUBSET Rows, done : BOOLEAN]]
    BY <2>a
  <2>c. changes \in 0..MaxChanges /\ drop.at = "idle"
    BY <2>2, <2>a
  <2>3. Station!TypeOK
    BY <2>1, <2>2, <2>a, <2>b, <2>c DEF Station!TypeOK
  <2> QED
    BY <1>2, <2>1, <2>2, <2>3 DEF MessagesInv, StationInv, Station!Init, Station!ChecksOfList,
       Station!DroppedStaysAway, DropBase, ListsAreOf, NotCrossed, LoadedOnce
<1>3. CASE route = "message" /\ Message!Init
  BY <1>3 DEF MessagesInv, MessageInv, AskedIsSelected, Message!Init, Message!TypeOK
<1>4. CASE route = "journey" /\ Journey!Init
  BY <1>4 DEF MessagesInv, JourneyInv, LeftInPeace, Journey!Init, Journey!TypeOK, Journey!Ends
<1> QED
  BY <1>1, <1>2, <1>3, <1>4 DEF Init

\* All pages, whichever is looked at.
LEMMA MessagesHold == Spec => []MessagesInv
<1>1. MessagesInv /\ [Next]_vars => MessagesInv'
  <2> SUFFICES ASSUME MessagesInv, [Next]_vars PROVE MessagesInv'
    OBVIOUS
  <2>1. route' = route
    BY DEF Next, vars
  <2>2. route = "session" => [Session!Next]_(Session!vars)
    BY DEF Next, vars, Session!vars
  <2>3. route = "station" => [Station!Next]_(Station!vars)
    BY DEF Next, vars, Station!vars
  <2>4. route = "message" => [Message!Next]_(Message!vars)
    BY DEF Next, vars, Message!vars
  <2>5. route = "journey" => [Journey!Next]_(Journey!vars)
    BY DEF Next, vars, Journey!vars
  <2> QED
    BY <2>1, <2>2, <2>3, <2>4, <2>5, SessionStep, StationStep, MessageStep, JourneyStep DEF MessagesInv
<1> QED
  BY <1>1, MessagesInit, PTL DEF Spec

\* Whatever the number of tabs and the order of replies, a session that was closed in
\* any of them comes back without a login only through a refresh that was under way.
THEOREM LogoutHoldsHolds == Spec => []LogoutHolds
<1>1. MessagesInv => LogoutHolds
  BY DEF MessagesInv, SessionInv, LogoutHolds, Session!LogoutHolds
<1> QED
  BY <1>1, MessagesHold, PTL

\* The pages are well typed and show what is selected: however the replies of several
\* requests and the timer of a drop are ordered, the lists are the selected partition's
\* when nothing is under way and nothing crossed, dropped rows stay away, the checks
\* are of the list on the screen and the drawer is the selected row's.
THEOREM ShowsSelectedHolds == Spec => []ShowsSelected
<1>1. StationInv => Station!ListsOfPartition
  BY DEF StationInv, ListsAreOf, NotCrossed, Station!ListsOfPartition
<1>2. MessageInv => Message!DetailsOfSelected
  BY DEF MessageInv, AskedIsSelected, Message!TypeOK, Message!DetailsOfSelected, Message!Drawer
<1>3. MessagesInv => ShowsSelected
  BY <1>1, <1>2 DEF MessagesInv, SessionInv, StationInv, MessageInv, JourneyInv, ShowsSelected, TypeOK
<1> QED
  BY <1>3, MessagesHold, PTL

\* A user who has left the page of a dead letter is taken back only by a handler that
\* was under way when the page was left.
THEOREM PulledBackHolds == Spec => []PulledBack
<1>1. MessagesInv => PulledBack
  BY DEF MessagesInv, JourneyInv, LeftInPeace, PulledBack, Journey!PulledBack
<1> QED
  BY <1>1, MessagesHold, PTL
=============================================================================
