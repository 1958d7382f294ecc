--------------------------- MODULE ConsoleSession ---------------------------
(***************************************************************************)
(* The session of the web console: the token in localStorage, which all    *)
(* tabs of a browser share, and what each tab does with it.  App refreshes *)
(* the token when it is mounted and every ten minutes, Login and Signup    *)
(* redirect to each other by the server's sign-up flag, PrivateRoute lets   *)
(* a page through while the token is valid, and a 401 or a failed refresh  *)
(* clears the storage and leaves for the login page.                       *)
(***************************************************************************)
EXTENDS Naturals, FiniteSets

CONSTANTS
    Tabs,
    MaxLoads,    \* bound on the documents loaded at the user's wish
    MaxReqs      \* bound on the requests a tab has under way when it sends another

VARIABLES
    token,       \* jwt and expires_in: "none", "valid" or "expired"
    showSignup,  \* server: nobody has logged in or signed up yet
    tab,         \* the document of each tab
    loads,       \* documents loaded at the user's wish
    session,     \* history: "open", "closed", "revived" by a refresh that was
                 \* under way when the storage was cleared, or "stolen"
    underWay     \* history: tabs whose refresh was under way then

vars == <<token, showSignup, tab, loads, session, underWay>>

Kinds == {"refresh", "flagLogin", "flagSignup", "login", "signup", "api",
          "connectLogin", "connectSignup"}
Tab == [path : {"login", "signup", "private"}, form : BOOLEAN, leaving : BOOLEAN,
        reqs : SUBSET Kinds]

TypeOK ==
    /\ token \in {"none", "valid", "expired"}
    /\ showSignup \in BOOLEAN
    /\ tab \in [Tabs -> Tab]
    /\ \A t \in Tabs : tab[t].path = "private" => ~tab[t].form
    /\ loads \in 0..MaxLoads
    /\ session \in {"open", "closed", "revived", "stolen"}
    /\ underWay \subseteq Tabs

Ask(s, k) == [s EXCEPT !.reqs = @ \cup {k}]
Free(s) == Cardinality(s.reqs) < MaxReqs
Answered(s, k) == [s EXCEPT !.reqs = @ \ {k}]
Becomes(t, s) == tab' = [tab EXCEPT ![t] = s]

-----------------------------------------------------------------------------
(* Pages being mounted.  tok is the token in the storage at that moment. *)

\* Login: its effect goes on to the referer or asks whether to sign up; the form
\* is hidden until the answer.
AtLogin(s, tok) ==
    IF tok = "valid" THEN [s EXCEPT !.path = "private", !.form = FALSE]
    ELSE Ask([s EXCEPT !.path = "login", !.form = FALSE], "flagLogin")

\* Signup: .catch(setisLoading(false)) shows the form at once.
AtSignup(s, tok) ==
    IF tok = "valid" THEN [s EXCEPT !.path = "private", !.form = FALSE]
    ELSE Ask([s EXCEPT !.path = "signup", !.form = TRUE], "flagSignup")

PrivateRoute(s, tok) ==
    IF tok = "valid" THEN [s EXCEPT !.path = "private", !.form = FALSE] ELSE AtLogin(s, tok)

\* App is mounted at path p: handleRefresh(true), then the routes are rendered.
App(p, tok) ==
    LET blank == [path |-> "login", form |-> FALSE, leaving |-> FALSE, reqs |-> {}]
    IN  CASE p = "login"                   -> AtLogin(blank, tok)
          [] p # "login" /\ tok = "none"   -> AtSignup(blank, tok)
          [] p = "signup" /\ tok # "none"  -> AtSignup(Ask(blank, "refresh"), tok)
          [] p = "private" /\ tok # "none" -> PrivateRoute(Ask(blank, "refresh"), tok)

Init ==
    /\ token = "none"
    /\ showSignup \in BOOLEAN
    /\ tab = [t \in Tabs |-> App("private", "none")]
    /\ loads = 0
    /\ session = "closed"
    /\ underWay = {}

-----------------------------------------------------------------------------
(* The storage. *)

\* saveToLocalStorage after a login.
LogIn ==
    /\ token' = "valid"
    /\ session' = "open"
    /\ underWay' = {}

\* saveToLocalStorage after a refresh: nobody looks whether the storage was
\* cleared meanwhile.
SaveRefreshed(t) ==
    /\ token' = "valid"
    /\ session' = CASE session = "closed" /\ t \in underWay    -> "revived"
                    [] session = "closed" /\ t \notin underWay -> "stolen"
                    [] OTHER                                   -> session
    /\ underWay' = underWay

\* clearLocalStorage, followed by window.location.assign(login).
ClearStorage ==
    /\ token' = "none"
    /\ session' = IF session = "stolen" THEN session ELSE "closed"
    /\ underWay' = {t \in Tabs : "refresh" \in tab[t].reqs}

KeepStorage == UNCHANGED <<token, session, underWay>>

\* isValidToken turns false.
Expire ==
    /\ token = "valid"
    /\ token' = "expired"
    /\ UNCHANGED <<showSignup, tab, loads, session, underWay>>

-----------------------------------------------------------------------------
(* The user and the timer. *)

\* The user opens or reloads a page.
Open(t, p) ==
    /\ loads < MaxLoads
    /\ loads' = loads + 1
    /\ Becomes(t, App(p, token))
    /\ KeepStorage
    /\ UNCHANGED showSignup

\* window.location.assign(login) takes effect: until then replies are handled.
Unload(t) ==
    /\ tab[t].leaving
    /\ Becomes(t, App("login", token))
    /\ KeepStorage
    /\ UNCHANGED <<showSignup, loads>>

\* The forms are shown while their page is not loading and send one request at a
\* time; the fields must not be empty.
LoginForm(t) ==
    /\ tab[t].path = "login" /\ tab[t].form /\ ~tab[t].leaving
    /\ tab[t].reqs \cap {"login", "connectLogin"} = {}

SignupForm(t) ==
    /\ tab[t].path = "signup" /\ tab[t].form /\ ~tab[t].leaving
    /\ tab[t].reqs \cap {"signup", "connectSignup"} = {}

Submit(t) ==
    /\ Free(tab[t])
    /\ \/ LoginForm(t) /\ Becomes(t, Ask(tab[t], "login"))
       \/ SignupForm(t) /\ Becomes(t, Ask(tab[t], "signup"))
    /\ KeepStorage
    /\ UNCHANGED <<showSignup, loads>>

\* A page calls httpRequest, or another page is opened through the router.
UsePage(t) ==
    /\ tab[t].path = "private"
    /\ ~tab[t].leaving
    /\ \/ Free(tab[t]) /\ Becomes(t, Ask(tab[t], "api"))
       \/ Becomes(t, PrivateRoute(tab[t], token))
    /\ KeepStorage
    /\ UNCHANGED <<showSignup, loads>>

Logout(t) ==
    /\ tab[t].path = "private"
    /\ ~tab[t].leaving
    /\ ClearStorage
    /\ Becomes(t, [tab[t] EXCEPT !.leaving = TRUE])
    /\ UNCHANGED <<showSignup, loads>>

\* Mutant of HandleRefresh: the storage is not asked for a token first.
MutRefreshAlways(t) ==
    /\ tab[t].path # "login"
    /\ ~tab[t].leaving
    /\ Free(tab[t])
    /\ Becomes(t, Ask(tab[t], "refresh"))
    /\ KeepStorage
    /\ UNCHANGED <<showSignup, loads>>

\* Mutant of HandleRefresh: without a token nothing happens.
MutStayWithoutToken(t) ==
    /\ tab[t].path # "login"
    /\ ~tab[t].leaving
    /\ token # "none"
    /\ Free(tab[t])
    /\ Becomes(t, Ask(tab[t], "refresh"))
    /\ KeepStorage
    /\ UNCHANGED <<showSignup, loads>>

\* The interval: handleRefresh(false).
HandleRefresh(t) ==
    /\ tab[t].path # "login"
    /\ ~tab[t].leaving
    /\ \/ token # "none" /\ Free(tab[t]) /\ Becomes(t, Ask(tab[t], "refresh"))
       \/ token = "none" /\ Becomes(t, AtSignup(tab[t], token))
    /\ KeepStorage
    /\ UNCHANGED <<showSignup, loads>>

-----------------------------------------------------------------------------
(* The server answers, in any order, and the code after the await runs. *)

\* handleRefreshTokenRequest and what handleRefresh does with its result.
RefreshReply(t) ==
    /\ "refresh" \in tab[t].reqs
    /\ \/ SaveRefreshed(t) /\ Becomes(t, Answered(tab[t], "refresh"))
       \/ ClearStorage /\ Becomes(t, [Answered(tab[t], "refresh") EXCEPT !.leaving = TRUE])
    /\ UNCHANGED <<showSignup, loads>>

\* getSignupFlag of Login; history.push is called wherever the tab is by now.  The
\* last disjunct is a failed request, or an answer that does not ask to sign up.
FlagLoginReply(t) ==
    /\ "flagLogin" \in tab[t].reqs
    /\ LET s == Answered(tab[t], "flagLogin")
       IN  \/ showSignup /\ Becomes(t, AtSignup(s, token))
           \/ Becomes(t, [s EXCEPT !.form = s.path # "private"])
    /\ KeepStorage
    /\ UNCHANGED <<showSignup, loads>>

\* getSignupFlag of Signup.
FlagSignupReply(t) ==
    /\ "flagSignup" \in tab[t].reqs
    /\ LET s == Answered(tab[t], "flagSignup")
       IN  \/ ~showSignup /\ Becomes(t, AtLogin(s, token))
           \/ Becomes(t, s)
    /\ KeepStorage
    /\ UNCHANGED <<showSignup, loads>>

\* handleSubmit of Login, up to the WebSocket.
LoginReply(t) ==
    /\ "login" \in tab[t].reqs
    /\ \/ /\ LogIn
          /\ showSignup' = FALSE
          /\ Becomes(t, Ask(Answered(tab[t], "login"), "connectLogin"))
       \/ /\ KeepStorage
          /\ UNCHANGED showSignup
          /\ Becomes(t, Answered(tab[t], "login"))
    /\ UNCHANGED loads

\* handleSubmit of Signup, up to the WebSocket.
SignupReply(t) ==
    /\ "signup" \in tab[t].reqs
    /\ \/ /\ LogIn
          /\ showSignup' = FALSE
          /\ Becomes(t, Ask(Answered(tab[t], "signup"), "connectSignup"))
       \/ /\ KeepStorage
          /\ UNCHANGED showSignup
          /\ Becomes(t, Answered(tab[t], "signup"))
    /\ UNCHANGED loads

\* The rest of handleSubmit: Login stays where it is when the socket fails, with
\* the token in the storage; Signup goes on without a socket.
ConnectReply(t, k) ==
    /\ k \in tab[t].reqs
    /\ LET s == Answered(tab[t], k)
       IN  \/ Becomes(t, PrivateRoute(s, token))
           \/ k = "connectLogin" /\ Becomes(t, s)
    /\ KeepStorage
    /\ UNCHANGED <<showSignup, loads>>

\* httpRequest of a page: a 401 closes the session unless the tab is on the login
\* or sign-up page by now.
HttpReply(t) ==
    /\ "api" \in tab[t].reqs
    /\ \/ Becomes(t, Answered(tab[t], "api")) /\ KeepStorage
       \/ /\ tab[t].path = "private"
          /\ Becomes(t, [Answered(tab[t], "api") EXCEPT !.leaving = TRUE])
          /\ ClearStorage
    /\ UNCHANGED <<showSignup, loads>>

-----------------------------------------------------------------------------
Next ==
    \/ Expire
    \/ \E t \in Tabs :
          \/ \E p \in {"login", "signup", "private"} : Open(t, p)
          \/ Unload(t)
          \/ Submit(t)
          \/ UsePage(t)
          \/ Logout(t)
          \/ HandleRefresh(t)
          \/ RefreshReply(t)
          \/ FlagLoginReply(t)
          \/ FlagSignupReply(t)
          \/ LoginReply(t)
          \/ SignupReply(t)
          \/ \E k \in {"connectLogin", "connectSignup"} : ConnectReply(t, k)
          \/ HttpReply(t)

Spec == Init /\ [][Next]_vars

\* Documents unload and the interval of ten minutes comes round.
Fairness ==
    \A t \in Tabs :
        /\ WF_vars(Unload(t))
        /\ WF_vars(HandleRefresh(t))

FairSpec == Spec /\ Fairness

-----------------------------------------------------------------------------
(* Properties. *)

\* A session that was closed (by a logout, a 401 or a failed refresh, in any tab)
\* comes back without a new login only through a refresh that was already under
\* way: handleRefresh asks the storage for a token before it sends one.
LogoutHolds == session # "stolen"

\* A tab does not go on showing a private page of a session that is over: the
\* next interval, if nothing else, takes it away.
OrphanLeaves ==
    \A t \in Tabs : (tab[t].path = "private" /\ token = "none")
                        ~> (tab[t].path # "private" \/ token # "none")
=============================================================================
