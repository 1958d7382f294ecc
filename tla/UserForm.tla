------------------------------ MODULE UserForm ------------------------------
(***************************************************************************)
(* The form of a new user (CreateUserDetails).  Every field is kept twice: *)
(* in the antd form, which is validated and sent, and in formFields, which *)
(* is shown and from which the permissions are sent.  Which fields are on  *)
(* the screen depends on the type of the user.                             *)
(***************************************************************************)
EXTENDS FiniteSets

CONSTANTS
    Words,        \* what may be typed in
    Stations,     \* stations or patterns that may be allowed
    NoWord,       \* an empty field
    PassAuth      \* clients have passwords

VARIABLES
    userType,     \* "management" or "application"
    creationForm, \* the antd form
    formFields,   \* the state of the component
    rbac,         \* [read, write] -> "pattern" or "stations"
    sent          \* the body of the last request, or NoWord

vars == <<userType, creationForm, formFields, rbac, sent>>

Kinds == {"read", "write"}
Fields == [username : Words \cup {NoWord}, password : Words \cup {NoWord},
           perms : [Kinds -> SUBSET Stations]]
Empty == [username |-> NoWord, password |-> NoWord, perms |-> [k \in Kinds |-> {}]]

TypeOK ==
    /\ userType \in {"management", "application"}
    /\ creationForm \in Fields /\ formFields \in Fields
    /\ rbac \in [Kinds -> {"pattern", "stations"}]

Init ==
    /\ userType \in {"management", "application"}
    /\ creationForm = Empty /\ formFields = Empty
    /\ rbac = [k \in Kinds |-> "pattern"]
    /\ sent = NoWord

\* The fields on the screen for each type of user.
ManagementFields == {"username", "password"}
ClientFields == {"username", "read", "write"} \cup (IF PassAuth THEN {"password"} ELSE {})
OnScreen == IF userType = "management" THEN ManagementFields ELSE ClientFields

\* A handler sets its field in both places.
SetBoth(f) == formFields' = [formFields EXCEPT ![f[1]] = f[2]]
              /\ creationForm' = [creationForm EXCEPT ![f[1]] = f[2]]

HandleUserTypeChanged(t) ==
    /\ userType' = t
    /\ UNCHANGED <<creationForm, formFields, rbac, sent>>

OnChange(f, w) ==
    /\ f \in {"username", "password"} \cap OnScreen
    /\ SetBoth(<<f, w>>)
    /\ UNCHANGED <<userType, rbac, sent>>

\* Mutant of GenerateNewPassword: the antd form is not told.
MutShowOnly(w) ==
    /\ "password" \in OnScreen
    /\ formFields' = [formFields EXCEPT !.password = w]
    /\ UNCHANGED <<userType, creationForm, rbac, sent>>

GenerateNewPassword(w) ==
    /\ "password" \in OnScreen
    /\ SetBoth(<<"password", w>>)
    /\ UNCHANGED <<userType, rbac, sent>>

\* Stations are chosen from the list or written as patterns.
OnPermissions(k, S) ==
    /\ k \in OnScreen
    /\ SetBoth(<<"perms", [formFields.perms EXCEPT ![k] = S]>>)
    /\ UNCHANGED <<userType, rbac, sent>>

\* The other way to give permissions starts from none.
OnRbacType(k, way) ==
    /\ k \in OnScreen
    /\ rbac' = [rbac EXCEPT ![k] = way]
    /\ SetBoth(<<"perms", [formFields.perms EXCEPT ![k] = {}]>>)
    /\ UNCHANGED <<userType, sent>>

\* onFinish: the fields on the screen must be valid; permissions are sent for a
\* client only, and none chosen is sent as null.
Body ==
    [type     |-> userType,
     username |-> creationForm.username,
     password |-> IF "password" \in OnScreen THEN creationForm.password ELSE NoWord,
     perms    |-> IF userType = "management" THEN [k \in Kinds |-> {}] ELSE formFields.perms]

OnFinish ==
    /\ \A f \in {"username", "password"} \cap OnScreen : creationForm[f] # NoWord
    /\ sent' = Body
    /\ UNCHANGED <<userType, creationForm, formFields, rbac>>

Next ==
    \/ \E t \in {"management", "application"} : HandleUserTypeChanged(t)
    \/ \E w \in Words : GenerateNewPassword(w) \/ \E f \in {"username", "password"} : OnChange(f, w)
    \/ \E k \in Kinds : (\E S \in SUBSET Stations : OnPermissions(k, S))
                        \/ \E way \in {"pattern", "stations"} : OnRbacType(k, way)
    \/ OnFinish

Spec == Init /\ [][Next]_vars

-----------------------------------------------------------------------------
SendsWhatIsShown ==
    sent' # sent =>
        /\ \A f \in {"username", "password"} \cap OnScreen : sent'[f] = formFields[f]
        /\ \A k \in Kinds : sent'.perms[k] = IF k \in OnScreen THEN creationForm.perms[k] ELSE {}

\* What is sent is what the screen shows, after any changes of the type of user and
\* of the way permissions are given, although it is put together from two copies.
SentAsShown == [][SendsWhatIsShown]_vars
=============================================================================
