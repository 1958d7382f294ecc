-------------------------- MODULE MCConsoleStations --------------------------
(*
The pages on which stations and schemas are made, listed and configured. One of
them is on the screen: "route" says which, and is chosen first. They have nothing
in common but the broker, of which each module models the part its page shows, so
the pages are checked side by side and not interleaved.
*)
EXTENDS Naturals, Sequences, FiniteSets

CONSTANTS
    None,
    MaxSent,                          \* of every page but that of SchemaStations
    MaxPurges,                        \* purge
    Stations, NoStation,              \* dead letters, stations of a schema
    Schemas, NoSchema,                \* head, list of schemas
    Texts, LocalOk, BrokerOk, Structs(_),                             \* editor
    UsedTags, Letter, MaxUsedSent,                                    \* stations of a schema
    Old, Filters, MaxPushes,                                          \* list of schemas
    Names, Types, TextsOf(_), Example(_), Bad, FormOk, StructsOf(_),  \* form for a schema
    Listed, Fields, GroupOf(_), Finds(_), Searches, MaxOpens,         \* filter of the stations
    SchemaSeq, DlStations, Numbers, Times, Amounts, MaxEdits,         \* form for a station
    Tags, MaxReloads                                                  \* tags

ASSUME ConsoleStationsAssumption ==
    /\ {MaxSent, MaxPurges, MaxUsedSent, MaxPushes, MaxOpens, MaxEdits, MaxReloads} \subseteq Nat
    /\ NoStation \notin Stations /\ Letter \notin Stations
    /\ NoSchema \notin Schemas /\ NoSchema \notin [name : Schemas, version : 1..2]
    /\ IsFiniteSet(Schemas) /\ IsFiniteSet(Fields)
    /\ LocalOk \subseteq Texts
    /\ Old \in Seq(Schemas) /\ \A i, j \in DOMAIN Old : Old[i] = Old[j] => i = j
    /\ "Protobuf" \in Types /\ \A t \in Types : Example(t) \in TextsOf(t)
    /\ \A t \in TextsOf("Protobuf") : StructsOf(t) \in Seq(STRING)
    /\ Numbers \subseteq Nat /\ SchemaSeq \in Seq(STRING)

VARIABLES
    route,   \* the page
    opened, purgeData, confirmed, onEnter, loader, underWay, totals, ticked, blind, conf,
    dlsTypes, dlsLoading, confReqs, confLost, attached, dls, modal, disabling, dlsReqs,
    again, active, enforced, dlsOn, exists, schema, detachLoader, deleteLoader,
    attachLoader, reqs, sent, left, aside, dlsDetached, versions, known,
    versionSelected, newVersion, messageStructName, structList, updated, validateError,
    validateSuccess, validating, checked, modals, latest, moved, overtaken, mixed, tags,
    details, box, mount, allStations, isCheck, isCheckAll, indeterminate, lettered,
    crossed, lost, schemas, schemaList, filteredList, terms, search, loading, confirm,
    shownThen, drawer, pushes, pushed, seen, hidden, shifted, broker, form,
    loadingSubmit, modalOpen, created, attachModal, stations, listening, stationList,
    stationFilteredList, isOpen, mounted, fields, chosen, counter, asked, opens,
    filterTerms, searchInput, raced, open, creating, drawn, field, s3, integrate,
    s3Modal, asks, edits, objects, picker, reload

vars == <<route, opened, purgeData, confirmed, onEnter, loader, underWay, totals, ticked, blind, conf,
          dlsTypes, dlsLoading, confReqs, confLost, attached, dls, modal, disabling,
          dlsReqs, again, active, enforced, dlsOn, exists, schema, detachLoader,
          deleteLoader, attachLoader, reqs, sent, left, aside, dlsDetached, versions,
          known, versionSelected, newVersion, messageStructName, structList, updated,
          validateError, validateSuccess, validating, checked, modals, latest, moved,
          overtaken, mixed, tags, details, box, mount, allStations, isCheck, isCheckAll,
          indeterminate, lettered, crossed, lost, schemas, schemaList, filteredList,
          terms, search, loading, confirm, shownThen, drawer, pushes, pushed, seen,
          hidden, shifted, broker, form, loadingSubmit, modalOpen, created, attachModal,
          stations, listening, stationList, stationFilteredList, isOpen, mounted,
          fields, chosen, counter, asked, opens, filterTerms, searchInput, raced, open,
          creating, drawn, field, s3, integrate, s3Modal, asks, edits, objects, picker,
          reload>>

Purge == INSTANCE PurgeStationModal
Dls == INSTANCE DlsConfiguration
Header == INSTANCE StationHeader
Editor == INSTANCE SchemaEditor
Used == INSTANCE SchemaStations WITH Tags <- UsedTags, MaxSent <- MaxUsedSent
List == INSTANCE SchemaList
Create == INSTANCE CreateSchema WITH BrokerOk <- FormOk, Structs <- StructsOf
Filter == INSTANCE EntityFilter WITH Stations <- Listed
New == INSTANCE CreateStationForm WITH Schemas <- SchemaSeq, Stations <- DlStations
Tag == INSTANCE EntityTags

\* The small instance: texts with one message, with two, and with none that parses.
MessagesIn(t) ==
    CASE t = "one" -> {"A"} [] t = "two" -> {"A", "B"} [] t = "other" -> {"B"} [] t = "bad" -> {}

TextsOfType(t) == IF t = "Protobuf" THEN {"p1", "p2"} ELSE {"j1"}
ExampleOf(t) == IF t = "Protobuf" THEN "p1" ELSE "j1"
MessageSeq(t) == IF t = "p1" THEN <<"A">> ELSE <<"B", "C">>
OldSchemas == <<"a">>
FormSchemas == <<"a", "b">>
TypedTimes == {<<0, 0, 1, 30>>}

\* Fields "x" and "y" are tags, "mem" is a storage type, "q" a search.
Group(f) == IF f = "mem" THEN "storage" ELSE "tags"
Found(f) == CASE f = "x" -> {"a"} [] f = "y" -> {"b"} [] f = "mem" -> {"a", "c"} [] f = "q" -> {"b", "c"}

\* The variables that only one page has; they are None on the other pages.
purgeVars == <<opened, purgeData, confirmed, onEnter, loader, underWay, totals, ticked, blind>>
dlsVars == <<conf, dlsTypes, dlsLoading, confReqs, confLost, disabling, dlsReqs, again>>
headerVars == <<enforced, dlsOn, exists, schema, detachLoader, deleteLoader, attachLoader, dlsDetached>>
editorVars == <<versions, versionSelected, newVersion, updated, modals, latest, overtaken, mixed>>
usedVars == <<box, mount, allStations, indeterminate, lettered, crossed, lost>>
listVars == <<schemaList, filteredList, terms, search, confirm, shownThen, drawer, seen, hidden,
              shifted>>
createVars == <<broker, form, loadingSubmit, modalOpen, created, attachModal>>
filterVars == <<stations, listening, stationList, stationFilteredList, isOpen, mounted, fields, chosen,
                counter, asked, opens, filterTerms, searchInput>>
newVars == <<open, creating, drawn, field, s3, integrate, s3Modal, asks, edits>>
tagVars == <<objects, picker, reload>>

PurgeOff == opened = None /\ purgeData = None /\ confirmed = None /\ onEnter = None /\
            loader = None /\ underWay = None /\ totals = None /\ ticked = None /\
            blind = None
DlsOff == conf = None /\ dlsTypes = None /\ dlsLoading = None /\ confReqs = None /\
          confLost = None /\ disabling = None /\ dlsReqs = None /\ again = None
HeaderOff == enforced = None /\ dlsOn = None /\ exists = None /\ schema = None /\
             detachLoader = None /\ deleteLoader = None /\ attachLoader = None /\
             dlsDetached = None
EditorOff == versions = None /\ versionSelected = None /\ newVersion = None /\ updated = None /\
             modals = None /\ latest = None /\ overtaken = None /\ mixed = None
UsedOff == box = None /\ mount = None /\ allStations = None /\ indeterminate = None /\
           lettered = None /\ crossed = None /\ lost = None
ListOff == schemaList = None /\ filteredList = None /\ terms = None /\ search = None /\
           confirm = None /\ shownThen = None /\ drawer = None /\ seen = None /\
           hidden = None /\ shifted = None
CreateOff == broker = None /\ form = None /\ loadingSubmit = None /\ modalOpen = None /\
             created = None /\ attachModal = None
FilterOff == stations = None /\ listening = None /\ stationList = None /\
             stationFilteredList = None /\ isOpen = None /\ mounted = None /\
             fields = None /\ chosen = None /\ counter = None /\ asked = None /\
             opens = None /\ filterTerms = None /\ searchInput = None
NewOff == open = None /\ creating = None /\ drawn = None /\ field = None /\ s3 = None /\
          integrate = None /\ s3Modal = None /\ asks = None /\ edits = None
TagOff == objects = None /\ picker = None /\ reload = None

Init ==
    \/ /\ route = "purge" /\ Purge!Init
       /\ DlsOff /\ HeaderOff /\ EditorOff /\ UsedOff /\ ListOff /\ CreateOff /\ FilterOff /\ NewOff /\ TagOff
       /\ attached = None /\ dls = None /\ modal = None /\ active = None /\ reqs = None /\
          sent = None /\ left = None /\ aside = None /\ known = None /\
          messageStructName = None /\ structList = None /\ validateError = None
          /\ validateSuccess = None /\ validating = None /\ checked = None /\
          moved = None /\ tags = None /\ details = None /\ isCheck = None /\
          isCheckAll = None /\ schemas = None /\ loading = None /\ pushes = None
          /\ pushed = None /\ raced = None
    \/ /\ route = "dls" /\ Dls!Init
       /\ PurgeOff /\ HeaderOff /\ EditorOff /\ UsedOff /\ ListOff /\ CreateOff /\ FilterOff /\ NewOff /\ TagOff
       /\ active = None /\ reqs = None /\ sent = None /\ left = None /\ aside = None /\
          known = None /\ messageStructName = None /\ structList = None /\
          validateError = None /\ validateSuccess = None /\ validating = None /\
          checked = None /\ moved = None /\ tags = None /\ details = None /\
          isCheck = None /\ isCheckAll = None /\ schemas = None /\
          loading = None /\ pushes = None /\ pushed = None /\ raced = None
    \/ /\ route = "header" /\ Header!Init
       /\ PurgeOff /\ DlsOff /\ EditorOff /\ UsedOff /\ ListOff /\ CreateOff /\ FilterOff /\ NewOff /\ TagOff
       /\ attached = None /\ known = None /\ messageStructName = None /\ structList = None
          /\ validateError = None /\ validateSuccess = None /\ validating = None
          /\ checked = None /\ moved = None /\ tags = None /\ details = None /\
          isCheck = None /\ isCheckAll = None /\ schemas = None /\
          loading = None /\ pushes = None /\ pushed = None /\ raced = None
    \/ /\ route = "editor" /\ Editor!Init
       /\ PurgeOff /\ DlsOff /\ HeaderOff /\ UsedOff /\ ListOff /\ CreateOff /\ FilterOff /\ NewOff /\ TagOff
       /\ attached = None /\ dls = None /\ modal = None /\ left = None /\ aside = None /\
          tags = None /\ details = None /\ isCheck = None /\ isCheckAll = None
          /\ schemas = None /\ loading = None /\ pushes = None /\ pushed = None
          /\ raced = None
    \/ /\ route = "used" /\ Used!Init
       /\ PurgeOff /\ DlsOff /\ HeaderOff /\ EditorOff /\ ListOff /\ CreateOff /\ FilterOff /\ NewOff /\ TagOff
       /\ dls = None /\ active = None /\ left = None /\ aside = None /\ known = None /\
          messageStructName = None /\ structList = None /\ validateError = None
          /\ validateSuccess = None /\ validating = None /\ checked = None /\
          moved = None /\ schemas = None /\ loading = None /\ pushes = None /\
          pushed = None /\ raced = None
    \/ /\ route = "list" /\ List!Init
       /\ PurgeOff /\ DlsOff /\ HeaderOff /\ EditorOff /\ UsedOff /\ CreateOff /\ FilterOff /\ NewOff /\ TagOff
       /\ attached = None /\ dls = None /\ modal = None /\ active = None /\ left = None /\
          aside = None /\ known = None /\ messageStructName = None /\
          structList = None /\ validateError = None /\ validateSuccess = None /\
          validating = None /\ checked = None /\ moved = None /\ tags = None /\
          raced = None
    \/ /\ route = "create" /\ Create!Init
       /\ PurgeOff /\ DlsOff /\ HeaderOff /\ EditorOff /\ UsedOff /\ ListOff /\ FilterOff /\ NewOff /\ TagOff
       /\ attached = None /\ dls = None /\ modal = None /\ active = None /\ aside = None
          /\ known = None /\ tags = None /\ details = None /\ isCheck = None /\
          isCheckAll = None /\ schemas = None /\ loading = None /\ pushes = None
          /\ pushed = None /\ raced = None
    \/ /\ route = "filter" /\ Filter!Init
       /\ PurgeOff /\ DlsOff /\ HeaderOff /\ EditorOff /\ UsedOff /\ ListOff /\ CreateOff /\ NewOff /\ TagOff
       /\ attached = None /\ dls = None /\ modal = None /\ active = None /\ reqs = None /\
          sent = None /\ left = None /\ aside = None /\ known = None /\
          messageStructName = None /\ structList = None /\ validateError = None
          /\ validateSuccess = None /\ validating = None /\ checked = None /\
          moved = None /\ tags = None /\ details = None /\ isCheck = None /\
          isCheckAll = None /\ schemas = None /\ loading = None
    \/ /\ route = "new" /\ New!Init
       /\ PurgeOff /\ DlsOff /\ HeaderOff /\ EditorOff /\ UsedOff /\ ListOff /\ CreateOff /\ FilterOff /\ TagOff
       /\ attached = None /\ dls = None /\ modal = None /\ active = None /\ reqs = None /\
          left = None /\ aside = None /\ known = None /\
          messageStructName = None /\ structList = None /\ validateError = None
          /\ validateSuccess = None /\ validating = None /\ checked = None /\
          moved = None /\ tags = None /\ details = None /\ isCheck = None /\
          isCheckAll = None /\ pushes = None /\ pushed = None
    \/ /\ route = "tags" /\ Tag!Init
       /\ PurgeOff /\ DlsOff /\ HeaderOff /\ EditorOff /\ UsedOff /\ ListOff /\ CreateOff /\ FilterOff /\ NewOff
       /\ attached = None /\ dls = None /\ modal = None /\ active = None /\ left = None /\
          messageStructName = None /\ structList = None /\ validateError = None
          /\ validateSuccess = None /\ validating = None /\ checked = None /\
          moved = None /\ details = None /\ isCheck = None /\ isCheckAll = None
          /\ schemas = None /\ loading = None /\ pushes = None /\ pushed = None
          /\ raced = None

Next ==
    \/ /\ route = "purge" /\ Purge!Next
       /\ UNCHANGED <<route, dlsVars, headerVars, editorVars, usedVars, listVars, createVars, filterVars,
                        newVars, tagVars, attached, dls, modal, active, reqs, sent,
                        left, aside, known, messageStructName, structList,
                        validateError, validateSuccess, validating, checked, moved,
                        tags, details, isCheck, isCheckAll, schemas, loading, pushes,
                        pushed, raced>>
    \/ /\ route = "dls" /\ Dls!Next
       /\ UNCHANGED <<route, purgeVars, headerVars, editorVars, usedVars, listVars, createVars, filterVars,
                        newVars, tagVars, active, reqs, sent, left, aside, known,
                        messageStructName, structList, validateError, validateSuccess,
                        validating, checked, moved, tags, details, isCheck, isCheckAll,
                        schemas, loading, pushes, pushed, raced>>
    \/ /\ route = "header" /\ Header!Next
       /\ UNCHANGED <<route, purgeVars, dlsVars, editorVars, usedVars, listVars, createVars, filterVars,
                        newVars, tagVars, attached, known, messageStructName,
                        structList, validateError, validateSuccess, validating, checked,
                        moved, tags, details, isCheck, isCheckAll, schemas, loading,
                        pushes, pushed, raced>>
    \/ /\ route = "editor" /\ Editor!Next
       /\ UNCHANGED <<route, purgeVars, dlsVars, headerVars, usedVars, listVars, createVars, filterVars,
                        newVars, tagVars, attached, dls, modal, left, aside, tags,
                        details, isCheck, isCheckAll, schemas, loading, pushes, pushed,
                        raced>>
    \/ /\ route = "used" /\ Used!Next
       /\ UNCHANGED <<route, purgeVars, dlsVars, headerVars, editorVars, listVars, createVars, filterVars,
                        newVars, tagVars, dls, active, left, aside, known,
                        messageStructName, structList, validateError, validateSuccess,
                        validating, checked, moved, schemas, loading, pushes, pushed,
                        raced>>
    \/ /\ route = "list" /\ List!Next
       /\ UNCHANGED <<route, purgeVars, dlsVars, headerVars, editorVars, usedVars, createVars, filterVars,
                        newVars, tagVars, attached, dls, modal, active, left, aside,
                        known, messageStructName, structList, validateError,
                        validateSuccess, validating, checked, moved, tags, raced>>
    \/ /\ route = "create" /\ Create!Next
       /\ UNCHANGED <<route, purgeVars, dlsVars, headerVars, editorVars, usedVars, listVars, filterVars,
                        newVars, tagVars, attached, dls, modal, active, aside, known,
                        tags, details, isCheck, isCheckAll, schemas, loading, pushes,
                        pushed, raced>>
    \/ /\ route = "filter" /\ Filter!Next
       /\ UNCHANGED <<route, purgeVars, dlsVars, headerVars, editorVars, usedVars, listVars, createVars,
                        newVars, tagVars, attached, dls, modal, active, reqs, sent,
                        left, aside, known, messageStructName, structList,
                        validateError, validateSuccess, validating, checked, moved,
                        tags, details, isCheck, isCheckAll, schemas, loading>>
    \/ /\ route = "new" /\ New!Next
       /\ UNCHANGED <<route, purgeVars, dlsVars, headerVars, editorVars, usedVars, listVars, createVars,
                        filterVars, tagVars, attached, dls, modal, active, reqs, left,
                        aside, known, messageStructName, structList, validateError,
                        validateSuccess, validating, checked, moved, tags, details,
                        isCheck, isCheckAll, pushes, pushed>>
    \/ /\ route = "tags" /\ Tag!Next
       /\ UNCHANGED <<route, purgeVars, dlsVars, headerVars, editorVars, usedVars, listVars, createVars,
                        filterVars, newVars, attached, dls, modal, active, left,
                        messageStructName, structList, validateError, validateSuccess,
                        validating, checked, moved, details, isCheck, isCheckAll,
                        schemas, loading, pushes, pushed, raced>>

Spec == Init /\ [][Next]_vars

-----------------------------------------------------------------------------
TypeOK ==
    /\ route = "purge" => Purge!TypeOK
    /\ route = "dls" => Dls!TypeOK
    /\ route = "header" => Header!TypeOK
    /\ route = "editor" => Editor!TypeOK
    /\ route = "used" => Used!TypeOK
    /\ route = "list" => List!TypeOK
    /\ route = "create" => Create!TypeOK
    /\ route = "filter" => Filter!TypeOK
    /\ route = "new" => New!TypeOK
    /\ route = "tags" => Tag!TypeOK

\* With no request under way a station's page shows the configuration the broker
\* has: the dead-letter switches and station, the enforced schema and its
\* version; and no button goes on spinning. The exceptions, requests that
\* failed, were overtaken or lost after the broker's part, are named by the
\* parts.
ConfigurationAgrees ==
    /\ route = "dls" => Dls!SwitchesAgree
    /\ route = "dls" => Dls!DlsAgrees
    /\ route = "header" => Header!SchemaAgrees
    /\ route = "header" => Header!DetachLoaderEnds

\* A purge covers only lists whose box was ticked since the modal was opened:
\* the Enter key may send a box that was unticked after the word was typed,
\* never one of an earlier opening.
PurgedWasTicked == route = "purge" => Purge!PurgedWasTicked

\* On well-typed pages, what the drawer and the form for a new schema say of a
\* text, and the message they name with it, belong to the text on the screen:
\* the note that it is valid, the offer to create it and the protobuf message it
\* is created with; and the form's loader ends with its requests. The
\* exceptions, texts changed while an answer or its timer was awaited, are named
\* by the parts.
ValidationIsOfText ==
    /\ TypeOK
    /\ route = "editor" => Editor!NoteIsOfText
    /\ route = "editor" => Editor!OfferedIsChecked
    /\ route = "editor" => Editor!StructOfVersion
    /\ route = "create" => Create!NoteIsOfForm
    /\ route = "create" => Create!StructOfSchema
    /\ route = "create" => Create!LoaderEnds

\* With no request under way the drawer of a schema shows what the broker has of
\* the schema whose name it bears: its versions, the newest offered for
\* activation, its stations and tags; and only stations that fit are chosen. The
\* exceptions, answers that met other details than their request or were lost,
\* are named by the parts.
DrawerAgrees ==
    /\ route = "editor" => Editor!VersionsAgree
    /\ route = "editor" => Editor!ActivateIsNewest
    /\ route = "used" => Used!DetailsAgree
    /\ route = "used" => Used!ChecksAreStations
    /\ route = "list" => List!DrawerOfSchema
    /\ route = "tags" => Tag!TagsAgree

\* A list shows what it was told of: a schema that still exists is not lost from
\* it, a station is shown exactly if search and applied terms find it, "unselect
\* all" and the filter's number count what is selected; but for a deletion sent
\* from a filtered list and fields that came after a choice.
ListComplete ==
    /\ route = "list" => List!SeenStays
    /\ route = "list" => List!CheckAllHonest
    /\ route = "filter" => Filter!ShownAreFound
    /\ route = "filter" => Filter!CounterCounts

\* The form for a station sends what it draws, with a deduplication window of
\* 100 ms to 24 hours, and asks for the second tier only where the broker has
\* S3; except for the dead-letter switch, which is sent as it was first, and for
\* S3 disconnected in the form's own dialog.
SentAsDrawn ==
    /\ route = "new" => New!SentAsDrawn
    /\ route = "new" => New!WindowBounded
    /\ route = "new" => New!TierHasS3
=============================================================================
