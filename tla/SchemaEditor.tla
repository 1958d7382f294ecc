---------------------------- MODULE SchemaEditor ----------------------------
(***************************************************************************)
(* The versions in the drawer of a schema.  The active version is edited   *)
(* in place, checked in the browser at every keystroke and by the broker   *)
(* on demand; a new version, and a return to an older one, replace what    *)
(* the drawer knows by the broker's answer.  The "valid" note comes a      *)
(* second after the answer, whatever was typed in between, and the button  *)
(* that creates a version does not wait for its answer.                    *)
(***************************************************************************)
EXTENDS Naturals, Sequences, Requests, FiniteSets

CONSTANTS
    Texts,          \* schema contents, other than the empty one
    LocalOk,        \* contents that the browser's parser accepts
    BrokerOk,       \* contents that the broker accepts
    Structs(_),     \* names of the messages in a content that parses
    MaxSent         \* bound on the requests sent

VARIABLES
    versions,       \* the broker: versions as [text, struct], oldest first
    active,         \* the broker: number of the active version
    known,          \* schemaDetails: [versions, active]
    versionSelected,
    newVersion,     \* text typed in the editor, "" for none
    messageStructName,
    structList,     \* messagesStructNameList while editable, {} otherwise
    updated,
    validateError, validateSuccess,
    validating,     \* "no", "asked", or "timer" while the note is awaited
    checked,        \* history: content of the last validation
    modals,         \* rollBackModal and activateVersionModal
    latest,         \* version number that the activate modal offers
    reqs,           \* requests for versions under way
    sent,
    moved,          \* history: the content shown changed after it was validated,
                    \* in a way that leaves the note
    overtaken,      \* history: an answer cleared the error of a text typed since
    mixed           \* history: two requests for versions were under way together,
                    \* or an answer was lost

editVars == <<versionSelected, newVersion, messageStructName, structList, updated>>
noteVars == <<validateError, validateSuccess, validating, checked, moved, overtaken>>
vars == <<versions, active, known, editVars, noteVars, modals, latest, reqs, sent, mixed>>

Shown == IF newVersion # "" THEN newVersion ELSE known.versions[versionSelected].text
Now == [versions |-> versions, active |-> active]

TypeOK ==
    /\ known.active \in 1..Len(known.versions)
    /\ versionSelected \in 1..Len(known.versions)
    /\ newVersion \in Texts \cup {""}
    /\ {updated, validateError, validateSuccess, moved, overtaken, mixed} \subseteq BOOLEAN
    /\ validating \in {"no", "asked", "timer"}
    /\ modals \subseteq {"rollback", "activate"}
    /\ latest \in 0..Len(versions)

\* The names to choose from: none when the content has one message.
Offer(text) == IF Cardinality(Structs(text)) > 1 THEN Structs(text) ELSE {}

\* The drawer after its first getScemaDetails.
Init ==
    /\ versions \in UNION {{<<[text |-> t, struct |-> s]>> : s \in Structs(t)} : t \in LocalOk \cap BrokerOk}
    /\ active = 1 /\ known = Now /\ versionSelected = 1
    /\ newVersion = versions[1].text /\ messageStructName = versions[1].struct
    /\ structList = Offer(newVersion) /\ updated = FALSE
    /\ validateError = FALSE /\ validateSuccess = FALSE /\ validating = "no" /\ checked = ""
    /\ moved = FALSE /\ overtaken = FALSE /\ mixed = FALSE
    /\ modals = {} /\ latest = 0 /\ reqs = <<>> /\ sent = 0

\* The content on the screen changes and the note, or the wait for it, stays.
MovesOn(shown) == moved' = (moved \/ ((validating # "no" \/ validateSuccess') /\ shown # Shown))

-----------------------------------------------------------------------------
\* What the parser of the schema's type (protobuf, JSON, GraphQL, Avro) accepts.
Parses(text) == text \in LocalOk

\* The browser's parser: a content with one message names it.
ValidateProtobufSchema(text) ==
    /\ validateError' = ~Parses(text)
    /\ structList' = IF Parses(text) THEN Offer(text) ELSE structList
    /\ messageStructName' = IF Parses(text) /\ Cardinality(Structs(text)) = 1
                            THEN CHOOSE s \in Structs(text) : TRUE ELSE messageStructName

\* Mutant of CheckContent: what does not parse is left to the broker.
MutNoError(text) ==
    /\ validateError' = (text = "")
    /\ UNCHANGED <<messageStructName, structList>>

CheckContent(text) ==
    IF text = "" THEN validateError' = TRUE /\ UNCHANGED <<messageStructName, structList>>
    ELSE ValidateProtobufSchema(text)

\* The editor is there for the active version; the others are read only.
Editable == modals = {} /\ versionSelected = known.active

HandleEditVersion(text) ==
    /\ Editable /\ text # Shown
    /\ newVersion' = text
    /\ updated' = (text # known.versions[versionSelected].text)
    /\ CheckContent(text)
    /\ validateSuccess' = FALSE
    /\ moved' = (validating # "no") /\ overtaken' = FALSE
    /\ UNCHANGED <<versions, active, known, versionSelected, validating, checked, modals, latest, reqs,
                   sent, mixed>>

\* The choice among several messages, which counts as an edit.
ChooseStruct(s) ==
    /\ modals = {} /\ s \in structList
    /\ messageStructName' = s /\ updated' = TRUE
    /\ UNCHANGED <<versions, active, known, versionSelected, newVersion, structList, noteVars, modals,
                   latest, reqs, sent, mixed>>

\* The list of versions: the text typed is dropped, updated and the note are not.
HandleSelectVersion(v) ==
    /\ modals = {} /\ v \in 1..Len(known.versions) /\ v # versionSelected
    /\ versionSelected' = v
    /\ messageStructName' = known.versions[v].struct
    /\ newVersion' = ""
    /\ UNCHANGED <<validateSuccess, validateError, validating, checked, overtaken>>
    /\ MovesOn(known.versions[v].text)
    /\ UNCHANGED <<versions, active, known, structList, updated, modals, latest, reqs, sent, mixed>>

ValidateEnabled == modals = {} /\ validating = "no" /\ ~(updated /\ newVersion = "")

HandleValidateSchema ==
    /\ ValidateEnabled
    /\ validating' = "asked" /\ checked' = Shown /\ moved' = (moved /\ validateSuccess)
    /\ UNCHANGED <<versions, active, known, editVars, validateError, validateSuccess, overtaken, modals,
                   latest, reqs, sent, mixed>>

\* The broker's answer; an error other than "not valid" only ends the loader.
ValidateReply ==
    /\ validating = "asked"
    /\ \/ /\ checked \in BrokerOk
          /\ validateError' = FALSE /\ validating' = "timer"
          /\ overtaken' = (overtaken \/ (validateError /\ ~Parses(newVersion)))
          /\ UNCHANGED validateSuccess
       \/ /\ checked \notin BrokerOk
          /\ validateError' = TRUE /\ validateSuccess' = FALSE /\ validating' = "no"
          /\ UNCHANGED overtaken
       \/ validating' = "no" /\ UNCHANGED <<validateError, validateSuccess, overtaken>>
    /\ UNCHANGED <<versions, active, known, editVars, checked, moved, modals, latest, reqs, sent, mixed>>

\* The timer of one second.
NoteTimer ==
    /\ validating = "timer"
    /\ validateSuccess' = TRUE /\ validating' = "no"
    /\ UNCHANGED <<versions, active, known, editVars, validateError, checked, moved, overtaken, modals,
                   latest, reqs, sent, mixed>>

-----------------------------------------------------------------------------
CreateEnabled ==
    /\ Editable
    /\ updated /\ newVersion # "" /\ ~validateError

Send(req) ==
    /\ sent < MaxSent
    /\ sent' = sent + 1
    /\ mixed' = (mixed \/ reqs # <<>>)
    /\ reqs' = Append(reqs, req)
    /\ UNCHANGED <<versions, active, known, editVars, noteVars, latest>>

\* The button takes no isLoading: it may be pressed again.
CreateNewVersion ==
    /\ CreateEnabled
    /\ Send([op |-> "create", version |-> [text |-> newVersion, struct |-> messageStructName],
             number |-> 0, status |-> "sent", result |-> known])
    /\ UNCHANGED modals

RollBackModal ==
    /\ modals = {} /\ versionSelected # known.active
    /\ modals' = {"rollback"}
    /\ UNCHANGED <<versions, active, known, editVars, noteVars, latest, reqs, sent, mixed>>

CloseModal(m) ==
    /\ m \in modals
    /\ modals' = modals \ {m}
    /\ UNCHANGED <<versions, active, known, editVars, noteVars, latest, reqs, sent, mixed>>

\* Confirm of either modal: the version selected, or the one just created.
RollBackVersion(m) ==
    /\ m \in modals
    /\ Send([op |-> "rollback", version |-> known.versions[1],
             number |-> IF m = "activate" THEN latest ELSE versionSelected,
             status |-> "sent", result |-> known])
    /\ UNCHANGED modals

Handle(i) ==
    /\ i \in DOMAIN reqs /\ reqs[i].status = "sent"
    /\ LET r == reqs[i]
           refused == r.op = "create" /\ r.version.text \notin BrokerOk
       IN  /\ versions' = IF r.op = "create" /\ ~refused THEN Append(versions, r.version) ELSE versions
           /\ active' = IF r.op = "rollback" THEN r.number ELSE active
           /\ reqs' = [reqs EXCEPT ![i].status = IF refused THEN "refused" ELSE "done",
                                   ![i].result = [versions |-> versions', active |-> active']]
    /\ UNCHANGED <<known, editVars, noteVars, modals, latest, sent, mixed>>

\* arrangeData: the active version is selected and put into the editor.
ArrangeData(data) ==
    LET v == data.versions[data.active]
    IN  /\ known' = data
        /\ versionSelected' = data.active
        /\ newVersion' = v.text /\ messageStructName' = v.struct
        /\ structList' = Offer(v.text)

\* updated stays, and with it the button for a text that is the active version's.
CreateReply(r) ==
    /\ ArrangeData(r.result)
    /\ latest' = Len(r.result.versions) /\ modals' = modals \cup {"activate"}
    /\ UNCHANGED <<validateError, validateSuccess>>
    /\ MovesOn(newVersion')

\* The modal that enforces the version on the stations is in SchemaStations.
RollBackReply(r) ==
    /\ ArrangeData(r.result)
    /\ modals' = {}
    /\ UNCHANGED <<validateError, validateSuccess, latest>>
    /\ MovesOn(newVersion')

Reply(i) ==
    /\ i \in DOMAIN reqs /\ reqs[i].status # "sent"
    /\ reqs' = RemoveAt(reqs, i)
    /\ CASE reqs[i].status = "refused" ->
                /\ validateSuccess' = FALSE /\ validateError' = TRUE
                /\ UNCHANGED <<known, versionSelected, newVersion, messageStructName, structList, latest,
                               modals, moved>>
         [] reqs[i].status = "done" /\ reqs[i].op = "create" -> CreateReply(reqs[i])
         [] OTHER -> RollBackReply(reqs[i])
    /\ overtaken' = (overtaken /\ ~validateError' /\ newVersion' = newVersion)
    /\ UNCHANGED <<versions, active, updated, validating, checked, sent, mixed>>

\* A request may fail after the broker handled it; the catch blocks change nothing.
Fail(i) ==
    /\ i \in DOMAIN reqs
    /\ reqs' = RemoveAt(reqs, i)
    /\ mixed' = (mixed \/ reqs[i].status = "done")
    /\ UNCHANGED <<versions, active, known, editVars, noteVars, modals, latest, sent>>

Next ==
    \/ \E text \in Texts \cup {""} : HandleEditVersion(text)
    \/ \E s \in structList : ChooseStruct(s)
    \/ \E v \in 1..Len(known.versions) : HandleSelectVersion(v)
    \/ HandleValidateSchema \/ ValidateReply \/ NoteTimer
    \/ CreateNewVersion \/ RollBackModal
    \/ \E m \in {"rollback", "activate"} : CloseModal(m) \/ RollBackVersion(m)
    \/ \E i \in DOMAIN reqs : Handle(i) \/ Reply(i) \/ Fail(i)

Spec == Init /\ [][Next]_vars

-----------------------------------------------------------------------------
\* The note "Schema is valid" stands under a content the broker found valid, as long
\* as that content was not changed while its answer or the timer was awaited, and no
\* other version was put on the screen, which leaves the note of the one before.
NoteIsOfText == (validateSuccess /\ ~moved) => (Shown = checked /\ checked \in BrokerOk)

\* The button for a new version is offered only for a text that the browser's parser
\* accepts or that is the version's own, which the broker accepted, unless the broker's
\* answer to an earlier text cleared its error.
OfferedIsChecked ==
    (CreateEnabled /\ ~overtaken) =>
        Parses(newVersion) \/ newVersion = known.versions[versionSelected].text

\* A version created with a content of a single message names that message, whatever
\* was selected, typed and created before: the name is kept apart from the text.
StructOfVersion ==
    \A i \in DOMAIN versions :
        (Parses(versions[i].text) /\ Cardinality(Structs(versions[i].text)) = 1)
            => versions[i].struct \in Structs(versions[i].text)

\* With no request for a version under way the drawer knows all versions and the
\* active one, unless two were under way together or an answer was lost.
VersionsAgree == (reqs = <<>> /\ ~mixed) => known = Now

\* The modal that offers to activate "the new version" means the newest.
ActivateIsNewest == ("activate" \in modals /\ ~mixed) => latest = Len(versions)
=============================================================================
