------------------------------ MODULE TokenForm ------------------------------
(***************************************************************************)
(* The form that generates a REST token (GenerateTokenModal): it loads the *)
(* client users, lets one be created in a drawer, and asks for a token     *)
(* with the user and secret typed in.  Its handlers spread the form of     *)
(* their own render over the present one.                                  *)
(***************************************************************************)
CONSTANTS
    Users,      \* names of client users
    Secrets,    \* what may be typed in
    None

VARIABLES
    users,      \* the broker: client users
    loading,    \* isLoading: the form is not on the screen
    form,       \* formFields: [user, secret]
    drawer,     \* addUserModalFlip: the drawer is open
    creating,   \* request to create a user: [user, render] or None
    listing,    \* request for the users: [render, then] or None
    asking,     \* request for a token: [user, secret] or None
    token,      \* userToken: what it was generated for, or None
    typed,      \* history: the secret last typed in
    late        \* history: a drawer was closed with its request under way

vars == <<users, loading, form, drawer, creating, listing, asking, token, typed, late>>

Form == [user : Users \cup {None}, secret : Secrets \cup {None}]
Empty == [user |-> None, secret |-> None]

TypeOK ==
    /\ users \subseteq Users
    /\ {loading, drawer, late} \subseteq BOOLEAN
    /\ form \in Form
    /\ creating = None \/ creating \in [user : Users, render : Form]
    /\ listing = None \/ listing \in [render : Form, then : Users \cup {None}]
    /\ {asking, token} \subseteq Form \cup {None}
    /\ typed \in Secrets \cup {None}
    /\ loading <=> listing # None

Init ==
    /\ users \in SUBSET Users
    /\ form = Empty
    /\ loading = TRUE
    /\ listing = [render |-> Empty, then |-> None]
    /\ drawer = FALSE /\ creating = None
    /\ asking = None /\ token = None
    /\ typed = None /\ late = FALSE

\* updateState: the fields of the handler's render, with one of them set, replace
\* those of the form.
UpdateState(render, field, value) == form' = [render EXCEPT ![field] = value]

\* The fields, behind the drawer while it is open.
Editable == ~loading /\ ~drawer

OnChangeUser(u) ==
    /\ Editable /\ u \in users
    /\ UpdateState(form, "user", u)
    /\ UNCHANGED <<users, loading, drawer, creating, listing, asking, token, typed, late>>

OnChangeSecret(x) ==
    /\ Editable
    /\ UpdateState(form, "secret", x)
    /\ typed' = x
    /\ UNCHANGED <<users, loading, drawer, creating, listing, asking, token, late>>

\* getAppUsers, after its reply or failure; handleAddUser goes on after it.
GetAppUsers(ok) ==
    /\ listing # None
    /\ ok => users # {}
    /\ LET first == CHOOSE u \in users : TRUE
       IN  IF listing.then # None THEN UpdateState(listing.render, "user", listing.then)
           ELSE IF ok THEN UpdateState(listing.render, "user", first)
           ELSE form' = form
    /\ drawer' = (drawer /\ listing.then = None)
    /\ loading' = FALSE
    /\ listing' = None
    /\ UNCHANGED <<users, creating, asking, token, typed, late>>

HandleCreateNew ==
    /\ Editable
    /\ drawer' = TRUE
    /\ UNCHANGED <<users, loading, form, creating, listing, asking, token, typed, late>>

CloseDrawer ==
    /\ drawer
    /\ drawer' = FALSE
    /\ late' = (late \/ creating # None)
    /\ UNCHANGED <<users, loading, form, creating, listing, asking, token, typed>>

\* Mutant of CreateUser: a handler kept from the first render.
MutFirstRender(u) ==
    /\ drawer /\ creating = None /\ listing = None /\ u \notin users
    /\ creating' = [user |-> u, render |-> Empty]
    /\ UNCHANGED <<users, loading, form, drawer, listing, asking, token, typed, late>>

\* The drawer's form is submitted: closeModal is that of this render.
CreateUser(u) ==
    /\ drawer /\ creating = None /\ listing = None /\ u \notin users
    /\ creating' = [user |-> u, render |-> form]
    /\ UNCHANGED <<users, loading, form, drawer, listing, asking, token, typed, late>>

\* handleAddUser, also when the drawer was closed in the meantime.
HandleAddUser ==
    /\ creating # None /\ listing = None
    /\ users' = users \cup {creating.user}
    /\ creating' = None
    /\ listing' = [render |-> creating.render, then |-> creating.user]
    /\ loading' = TRUE
    /\ UNCHANGED <<form, drawer, asking, token, typed, late>>

CreateFails ==
    /\ creating # None
    /\ creating' = None
    /\ UNCHANGED <<users, loading, form, drawer, listing, asking, token, typed, late>>

\* generateToken and its answer; a user may be chosen and a secret typed meanwhile.
GenerateToken ==
    /\ Editable /\ asking = None
    /\ asking' = form
    /\ UNCHANGED <<users, loading, form, drawer, creating, listing, token, typed, late>>

TokenReply ==
    /\ asking # None
    /\ token' \in {asking, token}
    /\ asking' = None
    /\ UNCHANGED <<users, loading, form, drawer, creating, listing, typed, late>>

\* Generate again.
ClearToken ==
    /\ ~loading /\ token # None
    /\ token' = None
    /\ UNCHANGED <<users, loading, form, drawer, creating, listing, asking, typed, late>>

Next ==
    \/ \E u \in Users : OnChangeUser(u) \/ CreateUser(u)
    \/ \E x \in Secrets : OnChangeSecret(x)
    \/ \E ok \in BOOLEAN : GetAppUsers(ok)
    \/ HandleCreateNew \/ CloseDrawer \/ HandleAddUser \/ CreateFails
    \/ GenerateToken \/ TokenReply \/ ClearToken

Spec == Init /\ [][Next]_vars

-----------------------------------------------------------------------------
\* What was typed in stays in the form when the users are loaded again and another
\* one is chosen, although the handlers write whole forms: the form is out of reach
\* meanwhile.  Only a user created after its drawer was closed sets it back.
SecretKept == ~late => form.secret = typed
=============================================================================
