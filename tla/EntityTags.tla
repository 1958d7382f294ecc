----------------------------- MODULE EntityTags -----------------------------
(***************************************************************************)
(* The tags of a station or schema on its page: a tag is removed by its    *)
(* cross, and the picker's ticks are saved when it closes.  The page keeps *)
(* the tags in the data object the reducer writes into: a handler that     *)
(* reads the object of its own render sees what was written since, unless  *)
(* a reload replaced the object.                                           *)
(***************************************************************************)
EXTENDS Naturals, Sequences, Requests

CONSTANTS
    Tags,        \* names of tags
    MaxSent,     \* bound on the requests sent
    MaxReloads   \* bound on the reloads of the page's data

VARIABLES
    known,       \* the broker: tags that exist
    tags,        \* the broker: tags of this entity
    objects,     \* the tags in each data object the page was given
    picker,      \* [open, all, checked, edited] of TagsPicker
    reqs,        \* requests under way
    sent,        \* how many were sent
    reload,      \* data under way: <<>> or one set of tags
    aside        \* history: the page may differ from the broker, see below

vars == <<known, tags, objects, picker, reqs, sent, reload, aside>>

Closed == [open |-> FALSE, all |-> {}, checked |-> {}, edited |-> FALSE]

TypeOK ==
    /\ tags \subseteq known /\ known \subseteq Tags
    /\ objects \in Seq(SUBSET Tags)
    /\ picker \in [open : BOOLEAN, all : SUBSET Tags, checked : SUBSET Tags, edited : BOOLEAN]
    /\ \A r \in Range(reqs) : r.op \in {"remove", "update", "create"} /\ r.done \in BOOLEAN
    /\ sent \in 0..MaxSent
    /\ aside \in BOOLEAN

Init ==
    /\ known \in SUBSET Tags /\ tags = known
    /\ objects = <<tags>>
    /\ picker = Closed
    /\ reqs = <<>> /\ sent = 0 /\ reload = <<>>
    /\ aside = FALSE

\* The tags on the screen.
Shown == objects[Len(objects)]

\* SET_TAGS: the reducer writes into the object of the state it is given.
SetTags(S) == objects' = [objects EXCEPT ![Len(objects)] = S]

Send(op, add, remove) ==
    /\ sent < MaxSent
    /\ sent' = sent + 1
    /\ reqs' = Append(reqs, [op |-> op, add |-> add, remove |-> remove, at |-> Len(objects),
                             done |-> FALSE, result |-> {}])

-----------------------------------------------------------------------------
\* The cross on a tag, among the first ones or in the list of the remaining ones:
\* removeTag up to its request.
RemoveTag(t) ==
    /\ t \in Shown
    /\ Send("remove", {}, {t})
    /\ UNCHANGED <<known, tags, objects, picker, reload, aside>>

\* The picker opens and asks for all tags.
OpenPicker ==
    /\ ~picker.open
    /\ \E all \in {known, {}} :   \* or the request for them fails
          picker' = [open |-> TRUE, all |-> all, checked |-> Shown, edited |-> FALSE]
    /\ UNCHANGED <<known, tags, objects, reqs, sent, reload, aside>>

HandleCheck(t) ==
    /\ picker.open /\ t \in picker.all
    /\ picker' = [picker EXCEPT !.checked = IF t \in @ THEN @ \ {t} ELSE @ \cup {t},
                                !.edited = TRUE]
    /\ UNCHANGED <<known, tags, objects, reqs, sent, reload, aside>>

\* onFinish of NewTagGenerator, up to its request.
NewTag(t) ==
    /\ picker.open /\ t \notin picker.all
    /\ \A r \in Range(reqs) : r.op # "create"
    /\ Send("create", {t}, {})
    /\ UNCHANGED <<known, tags, objects, picker, reload, aside>>

\* handleNewTag: the new tag is ticked, if the picker is still there.
HandleNewTag(new) ==
    picker' = IF picker.open THEN [picker EXCEPT !.all = @ \cup new, !.checked = @ \cup new,
                                                 !.edited = TRUE]
              ELSE picker

\* The picker closes: handleSaveChanges sends the difference between the ticks and
\* the tags the page shows by then.
HandleSaveChanges ==
    /\ picker.open
    /\ picker' = Closed
    /\ IF picker.edited
       THEN Send("update", picker.checked \ Shown, Shown \ picker.checked)
       ELSE UNCHANGED <<reqs, sent>>
    /\ UNCHANGED <<known, tags, objects, reload, aside>>

-----------------------------------------------------------------------------
\* The broker handles a request; an update is answered with the tags it leaves.
Handle(i) ==
    /\ i \in DOMAIN reqs /\ ~reqs[i].done
    /\ LET r == reqs[i]
           now == IF r.op = "create" THEN tags ELSE (tags \cup r.add) \ r.remove
       IN  /\ tags' = now
           /\ known' = known \cup r.add
           /\ reqs' = [reqs EXCEPT ![i].done = TRUE, ![i].result = now]
    /\ UNCHANGED <<objects, picker, sent, reload, aside>>

\* removeTag after its reply: the tags of the object of its render, without this one.
RemoveTagReply(r) == SetTags(objects[r.at] \ r.remove)

\* The history variable: the reply was overtaken by one handled later, or finds the
\* object of its render replaced.
Overtaken(i) ==
    \/ reqs[i].op = "update" /\ reqs[i].result # tags
    \/ reqs[i].op = "remove" /\ reqs[i].at # Len(objects)
    \/ \E j \in DOMAIN reqs \ {i} : reqs[j].op # "create" /\ reqs[j].done

Reply(i) ==
    /\ i \in DOMAIN reqs /\ reqs[i].done
    /\ reqs' = RemoveAt(reqs, i)
    /\ CASE reqs[i].op = "remove" -> RemoveTagReply(reqs[i]) /\ UNCHANGED picker
         [] reqs[i].op = "update" -> SetTags(reqs[i].result) /\ picker' = Closed
         [] OTHER                 -> HandleNewTag(reqs[i].add) /\ UNCHANGED objects
    /\ aside' = (aside \/ (reqs[i].op # "create" /\ Overtaken(i)))
    /\ UNCHANGED <<known, tags, sent, reload>>

\* A request fails before or after it was handled; the page stays as it is.
Fail(i) ==
    /\ i \in DOMAIN reqs
    /\ reqs' = RemoveAt(reqs, i)
    /\ aside' = (aside \/ reqs[i].done)
    /\ UNCHANGED <<known, tags, objects, picker, sent, reload>>

\* The data of the page are asked for again, and come.
ServeData ==
    /\ reload = <<>> /\ Len(objects) <= MaxReloads
    /\ reload' = <<tags>>
    /\ UNCHANGED <<known, tags, objects, picker, reqs, sent, aside>>

SetSocketData ==
    /\ reload # <<>>
    /\ objects' = Append(objects, reload[1])
    /\ reload' = <<>>
    /\ aside' = (reload[1] # tags \/ (aside /\ reqs # <<>>)
                  \/ \E r \in Range(reqs) : r.op # "create" /\ r.done)
    /\ UNCHANGED <<known, tags, picker, reqs, sent>>

Next ==
    \/ \E t \in Tags : RemoveTag(t) \/ HandleCheck(t) \/ NewTag(t)
    \/ OpenPicker \/ HandleSaveChanges
    \/ \E i \in DOMAIN reqs : Handle(i) \/ Reply(i) \/ Fail(i)
    \/ ServeData \/ SetSocketData

Spec == Init /\ [][Next]_vars

-----------------------------------------------------------------------------
\* With nothing under way the page shows the entity's tags, after crosses and saves
\* that were under way together, unless a reply was overtaken by another one, found
\* its object replaced, or was lost after the broker had done its part.
TagsAgree == (reqs = <<>> /\ reload = <<>> /\ ~aside) => Shown = tags
=============================================================================
