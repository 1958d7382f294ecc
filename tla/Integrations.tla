---------------------------- MODULE Integrations ----------------------------
(***************************************************************************)
(* The integrations page.  Each item knows whether it is integrated, from  *)
(* the list in the store and from the last answer to its own form; the     *)
(* form, in a drawer, connects, updates and disconnects.  The broker sends *)
(* secrets masked, so an update sends one only if it was typed.  Removing  *)
(* from the store splices at the index found, which is -1, the last place, *)
(* for an integration that is not there, and in place, which no item sees. *)
(***************************************************************************)
EXTENDS Naturals, Sequences, Requests, FiniteSets

CONSTANTS
    Names,          \* integrations with a form
    Slack,          \* the one of Names that recognises its masked secret by its text
    Secrets,        \* what may be typed for a secret
    Mask,           \* a masked secret
    MaxSent, MaxOpens

VARIABLES
    broker,         \* the secret of each integration, "" without
    list,           \* integrationsList: names in order
    item,           \* which items show as integrated
    drawer,         \* the integration whose form is open, or ""
    form,           \* its form: [secret, touched, busy, number]
    reqs, sent, opens,
    loaded,         \* history: the list came
    raced,          \* history: an answer did not fit the list or the form it met
    lost            \* history: a request failed after the broker's part

vars == <<broker, list, item, drawer, form, reqs, sent, opens, loaded, raced, lost>>

Integrated == {n \in Names : broker[n] # ""}
NoForm == [secret |-> "", touched |-> {}, busy |-> {}, number |-> 0]

TypeOK ==
    /\ broker \in [Names -> Secrets \cup {"", Mask}]
    /\ Range(list) \subseteq Names /\ item \subseteq Names
    /\ drawer \in Names \cup {""}
    /\ form.touched \subseteq {"secret", "other"} /\ form.busy \subseteq {"submit", "disconnect"}
    /\ {loaded, raced, lost} \subseteq BOOLEAN

Request(op, n, secret) ==
    [op |-> op, name |-> n, secret |-> secret, number |-> form.number, done |-> FALSE, result |-> <<>>]

Init ==
    /\ broker \in [Names -> Secrets \cup {""}]
    /\ list = <<>> /\ item = {} /\ drawer = "" /\ form = NoForm
    /\ reqs = <<[op |-> "list", name |-> "", secret |-> "", number |-> 0, done |-> FALSE, result |-> <<>>]>>
    /\ sent = 0 /\ opens = 0 /\ loaded = FALSE /\ raced = FALSE /\ lost = FALSE

Send(req) ==
    /\ sent < MaxSent /\ sent' = sent + 1
    /\ reqs' = Append(reqs, req)

-----------------------------------------------------------------------------
\* An item is clicked: the form starts with what the item knows.
OpenDrawer(n) ==
    /\ drawer = "" /\ opens < MaxOpens /\ opens' = opens + 1
    /\ drawer' = n
    /\ form' = [NoForm EXCEPT !.secret = IF n \in item THEN Mask ELSE "", !.number = opens']
    /\ UNCHANGED <<broker, list, item, reqs, sent, loaded, raced, lost>>

CloseDrawer ==
    /\ drawer # ""
    /\ drawer' = "" /\ form' = NoForm
    /\ UNCHANGED <<broker, list, item, reqs, sent, opens, loaded, raced, lost>>

\* updateKeysState: the inputs of the form.
TypeSecret(s) ==
    /\ drawer # "" /\ form.secret # s
    /\ form' = [form EXCEPT !.secret = s, !.touched = @ \cup {"secret"}]
    /\ UNCHANGED <<broker, list, item, drawer, reqs, sent, opens, loaded, raced, lost>>

TypeOther ==
    /\ drawer # "" /\ "other" \notin form.touched
    /\ form' = [form EXCEPT !.touched = @ \cup {"other"}]
    /\ UNCHANGED <<broker, list, item, drawer, reqs, sent, opens, loaded, raced, lost>>

\* Whether an update sends the secret.
WithToken == IF drawer = Slack THEN form.secret # Mask ELSE "secret" \in form.touched

\* "Update" waits for a change; a secret is required.
SubmitEnabled ==
    /\ drawer # "" /\ "submit" \notin form.busy
    /\ (drawer \in item => form.touched # {}) /\ form.secret # ""

HandleSubmit ==
    /\ SubmitEnabled
    /\ form' = [form EXCEPT !.busy = @ \cup {"submit"}]
    /\ Send(IF drawer \in item THEN Request("update", drawer, IF WithToken THEN form.secret ELSE "")
                               ELSE Request("create", drawer, form.secret))
    /\ UNCHANGED <<broker, list, item, drawer, opens, loaded, raced, lost>>

\* The button is there for an integrated item.  A drawer that is closed and opened
\* again does not know of a request under way.
Disconnect ==
    /\ drawer \in item /\ "disconnect" \notin form.busy
    /\ form' = [form EXCEPT !.busy = @ \cup {"disconnect"}]
    /\ Send(Request("disconnect", drawer, ""))
    /\ UNCHANGED <<broker, list, item, drawer, opens, loaded, raced, lost>>

-----------------------------------------------------------------------------
\* The broker: an update without a secret keeps it, and what is not there can be
\* disconnected.
Handle(i) ==
    /\ i \in DOMAIN reqs /\ ~reqs[i].done
    /\ LET r == reqs[i]
       IN  /\ r.op = "create" => broker[r.name] = ""
           /\ r.op = "update" => broker[r.name] # ""
           /\ broker' = CASE r.op = "disconnect" -> [broker EXCEPT ![r.name] = ""]
                          [] r.op \in {"create", "update"} /\ r.secret # "" ->
                                 [broker EXCEPT ![r.name] = r.secret]
                          [] OTHER -> broker
           /\ reqs' = [reqs EXCEPT ![i].done = TRUE, ![i].result = SetToSeq(Integrated)]
    /\ UNCHANGED <<list, item, drawer, form, sent, opens, loaded, raced, lost>>

\* Two requests about the same integration are under way.
Overlap(n) == \E i, j \in DOMAIN reqs : i < j /\ reqs[i].name = n /\ reqs[j].name = n

\* checkIfUsed: the effect of every item on a new list that is not empty.
CheckIfUsed(l) == IF l = <<>> THEN item ELSE Range(l)

\* getallIntegration.
GetAllIntegration(r) ==
    /\ list' = r.result /\ item' = CheckIfUsed(r.result)
    /\ raced' = (raced \/ Range(r.result) # Integrated \/ (\E q \in Range(reqs) : q # r) \/ drawer # "")
    /\ loaded' = TRUE
    /\ UNCHANGED <<drawer, form>>

\* close(data): the drawer closes, also one that was opened since.
Close(n) ==
    /\ drawer' = IF drawer = n THEN "" ELSE drawer
    /\ form' = IF drawer = n THEN NoForm ELSE form

\* ADD_INTEGRATION, a new array.
CreateIntegration(r) ==
    /\ list' = Append(list, r.name)
    /\ item' = CheckIfUsed(list') \cup {r.name}
    /\ raced' = (raced \/ Overlap(r.name) \/ r.name \in Range(list) \/ (drawer # "" /\ (drawer \in item) # (drawer \in item')))
    /\ Close(r.name) /\ UNCHANGED loaded

\* UPDATE_INTEGRATION, in place.
UpdateIntegration(r) ==
    /\ item' = item \cup {r.name}
    /\ raced' = (raced \/ Overlap(r.name) \/ r.name \notin Range(list))
    /\ Close(r.name) /\ UNCHANGED <<list, loaded>>

\* Mutant of RemoveIntegration: the index is counted from one.
MutNextIndex(n) ==
    IF n \in Range(list) /\ list[Len(list)] # n
    THEN RemoveAt(list, (CHOOSE k \in DOMAIN list : list[k] = n) + 1)
    ELSE list

\* REMOVE_INTEGRATION: splice at the index, and at the last for an absent one.
RemoveIntegration(n) ==
    IF list = <<>> THEN list
    ELSE IF n \in Range(list) THEN RemoveAt(list, CHOOSE k \in DOMAIN list : list[k] = n)
    ELSE RemoveAt(list, Len(list))

\* The array is the same one: only the item itself changes.
DisconnectReply(r) ==
    /\ list' = RemoveIntegration(r.name)
    /\ item' = item \ {r.name}
    /\ raced' = (raced \/ Overlap(r.name) \/ r.name \notin Range(list))
    /\ Close(r.name) /\ UNCHANGED loaded

Reply(i) ==
    /\ i \in DOMAIN reqs /\ reqs[i].done
    /\ reqs' = RemoveAt(reqs, i)
    /\ CASE reqs[i].op = "list"   -> GetAllIntegration(reqs[i])
         [] reqs[i].op = "create" -> CreateIntegration(reqs[i])
         [] reqs[i].op = "update" -> UpdateIntegration(reqs[i])
         [] OTHER                 -> DisconnectReply(reqs[i])
    /\ UNCHANGED <<broker, sent, opens, lost>>

\* The catch blocks end the loader of the form that sent the request.
Fail(i) ==
    /\ i \in DOMAIN reqs
    /\ reqs' = RemoveAt(reqs, i)
    /\ form' = IF form.number = reqs[i].number
               THEN [form EXCEPT !.busy = @ \ {IF reqs[i].op = "disconnect" THEN "disconnect" ELSE "submit"}]
               ELSE form
    /\ lost' = (lost \/ (reqs[i].done /\ reqs[i].op # "list"))
    /\ UNCHANGED <<broker, list, item, drawer, sent, opens, loaded, raced>>

Next ==
    \/ \E n \in Names : OpenDrawer(n)
    \/ \E s \in Secrets : TypeSecret(s)
    \/ CloseDrawer \/ TypeOther \/ HandleSubmit \/ Disconnect
    \/ \E i \in DOMAIN reqs : Handle(i) \/ Reply(i) \/ Fail(i)

Spec == Init /\ [][Next]_vars

-----------------------------------------------------------------------------
\* With no request under way the store and the items have the broker's integrations,
\* unless an answer was lost, or overlapped or met a list that did not fit it: the
\* first list after a change, or the second answer of two that disconnect the same
\* integration, which takes another one out of the store.
ItemsAgree ==
    (reqs = <<>> /\ loaded /\ ~raced /\ ~lost) => (Range(list) = Integrated /\ item = Integrated)

\* A masked secret never becomes the secret, whatever else of the form is updated,
\* unless an answer changed what the item knows under an open form.
SecretKept == ~raced => \A n \in Names : broker[n] # Mask

\* A form that shows a request under way has one: its button is not lost for good.
LoaderHasRequest ==
    \A b \in form.busy : \E r \in Range(reqs) :
        r.number = form.number /\ (r.op = "disconnect") = (b = "disconnect")
=============================================================================
