---------------------------- MODULE CreateSchema ----------------------------
(***************************************************************************)
(* The form for a new schema.  Creating it takes two requests, and when a  *)
(* protobuf content has several messages a modal first asks for one, whose *)
(* button does not wait.  The validation's answer is followed by a timer.  *)
(* Every field is set by spreading a render's copy of the whole form.      *)
(***************************************************************************)
EXTENDS Naturals, Sequences, Requests, FiniteSets

CONSTANTS
    Names, Types,
    TextsOf(_),     \* contents that the parser of a type accepts
    Example(_),     \* the example content of a type
    Bad,            \* a content no parser accepts
    BrokerOk,       \* contents that the broker accepts
    Structs(_),     \* names of the messages of a protobuf content, in order
    MaxSent

VARIABLES
    broker,         \* schemas created: set of [name, type, text, struct]
    form,           \* formFields: [name, type, text]
    validateError, validateSuccess,
    validating,     \* "no", "asked" or "timer"
    checked,        \* history: type and content of the last validation
    loadingSubmit,
    modalOpen, messageStructName, structList,
    created,        \* createdSchemaDetails, "" until its details have come
    attachModal,    \* the modal that offers stations for the new schema
    left,           \* goBack
    reqs, sent,
    moved           \* history: the form changed while a validation was under way

noteVars == <<validateError, validateSuccess, validating, checked, moved>>
modalVars == <<modalOpen, messageStructName, structList>>
vars == <<broker, form, noteVars, loadingSubmit, modalVars, created, attachModal, left, reqs, sent>>

Contents == UNION {TextsOf(t) : t \in Types} \cup {Bad}
Parses(text) == text \in TextsOf(form.type)
Covered == modalOpen \/ attachModal \/ left

TypeOK ==
    /\ form.name \in Names \cup {""} /\ form.type \in Types /\ form.text \in Contents \cup {""}
    /\ {validateError, validateSuccess, loadingSubmit, modalOpen, attachModal, left, moved} \subseteq BOOLEAN
    /\ validating \in {"no", "asked", "timer"}
    /\ created \in Names \cup {""}

Init ==
    /\ broker = {}
    /\ form = [name |-> "", type |-> "Protobuf", text |-> Example("Protobuf")]
    /\ validateError = FALSE /\ validateSuccess = FALSE /\ validating = "no" /\ checked = <<>>
    /\ loadingSubmit = FALSE
    /\ modalOpen = FALSE /\ messageStructName = "" /\ structList = <<>>
    /\ created = "" /\ attachModal = FALSE /\ left = FALSE
    /\ reqs = <<>> /\ sent = 0 /\ moved = FALSE

-----------------------------------------------------------------------------
SetName(n) ==
    /\ ~Covered
    /\ form' = [form EXCEPT !.name = n]
    /\ UNCHANGED <<broker, noteVars, loadingSubmit, modalVars, created, attachModal, left, reqs, sent>>

\* The choice of a type and the effect on it: the example takes the content's place.
SetType(t) ==
    /\ ~Covered /\ t # form.type
    /\ form' = [form EXCEPT !.type = t, !.text = Example(t)]
    /\ validateSuccess' = FALSE /\ validateError' = FALSE
    /\ moved' = (validating # "no")
    /\ UNCHANGED <<broker, validating, checked, loadingSubmit, modalVars, created, attachModal, left, reqs,
                   sent>>

\* checkContent: an empty content is an error as well as one that does not parse.
CheckContent(text) == validateError' = ~Parses(text)

\* The editor: updateFormState and checkContent.
EditContent(text) ==
    /\ ~Covered /\ text # form.text
    /\ form' = [form EXCEPT !.text = text]
    /\ validateSuccess' = FALSE /\ CheckContent(text)
    /\ moved' = (validating # "no")
    /\ UNCHANGED <<broker, validating, checked, loadingSubmit, modalVars, created, attachModal, left, reqs,
                   sent>>

\* The conversion is offered for JSON that is not yet a schema; other content throws.
ConvertEnabled ==
    /\ ~Covered /\ form.type = "Json"
    /\ form.text \notin {"", Example("Json"), Bad}

\* handleConvetJsonToJsonSchema: some content that parses, not checked again.
Convert(text) ==
    /\ ConvertEnabled /\ text \in TextsOf("Json")
    /\ form' = [form EXCEPT !.text = text]
    /\ validateSuccess' = FALSE /\ validateError' = FALSE
    /\ moved' = (validating # "no")
    /\ UNCHANGED <<broker, validating, checked, loadingSubmit, modalVars, created, attachModal, left, reqs,
                   sent>>

ValidateEnabled == ~Covered /\ validating = "no" /\ form.text # ""

HandleValidateSchema ==
    /\ ValidateEnabled
    /\ validating' = "asked" /\ checked' = <<form.type, form.text>>
    /\ moved' = (moved /\ validateSuccess)
    /\ UNCHANGED <<broker, form, validateError, validateSuccess, loadingSubmit, modalVars, created,
                   attachModal, left, reqs, sent>>

ValidateReply ==
    /\ ~left /\ validating = "asked"
    /\ \/ /\ checked[2] \in BrokerOk
          /\ validateError' = FALSE /\ validating' = "timer" /\ UNCHANGED validateSuccess
       \/ /\ checked[2] \notin BrokerOk
          /\ validateError' = TRUE /\ validateSuccess' = FALSE /\ validating' = "no"
       \/ validating' = "no" /\ UNCHANGED <<validateError, validateSuccess>>
    /\ UNCHANGED <<broker, form, checked, moved, loadingSubmit, modalVars, created, attachModal, left, reqs,
                   sent>>

NoteTimer ==
    /\ ~left /\ validating = "timer"
    /\ validateSuccess' = TRUE /\ validating' = "no"
    /\ UNCHANGED <<broker, form, validateError, checked, moved, loadingSubmit, modalVars, created,
                   attachModal, left, reqs, sent>>

-----------------------------------------------------------------------------
\* handleCreateNewSchema up to the request: the content is checked once more, and
\* sent whatever comes of it.
HandleCreateNewSchema(struct) ==
    /\ sent < MaxSent /\ sent' = sent + 1
    /\ loadingSubmit' = TRUE
    /\ validateSuccess' = FALSE /\ CheckContent(form.text)
    /\ reqs' = Append(reqs, [op |-> "create", status |-> "sent",
                             schema |-> [name |-> form.name, type |-> form.type, text |-> form.text,
                                         struct |-> struct]])
    /\ UNCHANGED <<broker, form, validating, checked, moved, created, attachModal, left>>

SubmitEnabled == ~Covered /\ ~loadingSubmit /\ ~validateError /\ form.name # ""

\* handleSubmit: a protobuf content that does not parse, or has no message, throws
\* before anything is set.
HandleSubmit ==
    /\ SubmitEnabled
    /\ IF form.type # "Protobuf"
       THEN HandleCreateNewSchema(messageStructName) /\ UNCHANGED modalVars
       ELSE /\ Parses(form.text) /\ Structs(form.text) # <<>>
            /\ messageStructName' = Structs(form.text)[1]
            /\ IF Len(Structs(form.text)) = 1
               THEN /\ HandleCreateNewSchema(Structs(form.text)[1])
                    /\ UNCHANGED <<modalOpen, structList>>
               ELSE /\ modalOpen' = TRUE /\ structList' = Structs(form.text)
                    /\ UNCHANGED <<broker, form, noteVars, loadingSubmit, created, attachModal, left, reqs,
                                   sent>>

ChooseStruct(s) ==
    /\ modalOpen /\ ~attachModal /\ ~left /\ s \in Range(structList)
    /\ messageStructName' = s
    /\ UNCHANGED <<broker, form, noteVars, loadingSubmit, modalOpen, structList, created, attachModal, left,
                   reqs, sent>>

\* Confirm, which may be pressed again while its requests are under way.
ConfirmStruct ==
    /\ modalOpen /\ ~attachModal /\ ~left
    /\ HandleCreateNewSchema(messageStructName)
    /\ UNCHANGED modalVars

CloseModal ==
    /\ modalOpen /\ ~attachModal /\ ~left
    /\ modalOpen' = FALSE
    /\ UNCHANGED <<broker, form, noteVars, loadingSubmit, messageStructName, structList, created,
                   attachModal, left, reqs, sent>>

\* Back, or any end of the modal with the stations.
GoBack ==
    /\ ~left /\ (attachModal \/ ~modalOpen)
    /\ left' = TRUE
    /\ UNCHANGED <<broker, form, noteVars, loadingSubmit, modalVars, created, attachModal, reqs, sent>>

-----------------------------------------------------------------------------
\* The broker: names are unique.
Handle(i) ==
    /\ i \in DOMAIN reqs /\ reqs[i].status = "sent"
    /\ LET s == reqs[i].schema
           ok == s.text \in BrokerOk /\ \A b \in broker : b.name # s.name
       IN  IF reqs[i].op = "details" THEN reqs' = [reqs EXCEPT ![i].status = "done"] /\ UNCHANGED broker
           ELSE /\ broker' = IF ok THEN broker \cup {s} ELSE broker
                /\ reqs' = [reqs EXCEPT ![i].status = IF ok THEN "done" ELSE "refused"]
    /\ UNCHANGED <<form, noteVars, loadingSubmit, modalVars, created, attachModal, left, sent>>

\* The answer to the creation asks for the details of the schema it created.
CreateReply(i) ==
    /\ reqs' = Append(RemoveAt(reqs, i), [op |-> "details", status |-> "sent", schema |-> reqs[i].schema])
    /\ UNCHANGED <<created, attachModal, loadingSubmit>>

DetailsReply(i) ==
    /\ reqs' = RemoveAt(reqs, i)
    /\ created' = reqs[i].schema.name /\ attachModal' = TRUE
    /\ loadingSubmit' = FALSE

Reply(i) ==
    /\ ~left /\ i \in DOMAIN reqs /\ reqs[i].status = "done"
    /\ IF reqs[i].op = "create" THEN CreateReply(i) ELSE DetailsReply(i)
    /\ UNCHANGED <<broker, form, noteVars, modalVars, left, sent>>

\* The catch block: a refusal is shown and closes the modal, other errors only end
\* the loader, also when the schema has been created and its details did not come.
Fail(i) ==
    /\ ~left /\ i \in DOMAIN reqs
    /\ reqs' = RemoveAt(reqs, i)
    /\ loadingSubmit' = FALSE
    /\ IF reqs[i].status = "refused"
       THEN validateSuccess' = FALSE /\ validateError' = TRUE /\ modalOpen' = FALSE
       ELSE UNCHANGED <<validateSuccess, validateError, modalOpen>>
    /\ UNCHANGED <<broker, form, validating, checked, moved, messageStructName, structList, created,
                   attachModal, left, sent>>

Next ==
    \/ \E n \in Names : SetName(n)
    \/ \E t \in Types : SetType(t)
    \/ \E text \in Contents \cup {""} : EditContent(text) \/ Convert(text)
    \/ HandleValidateSchema \/ ValidateReply \/ NoteTimer
    \/ HandleSubmit \/ ConfirmStruct \/ CloseModal \/ GoBack
    \/ \E s \in Range(structList) : ChooseStruct(s)
    \/ \E i \in DOMAIN reqs : Handle(i) \/ Reply(i) \/ Fail(i)

Spec == Init /\ [][Next]_vars

-----------------------------------------------------------------------------
\* The note "Schema is valid" is about the type and content on the screen, unless the
\* form was changed while the answer or its timer was awaited.
NoteIsOfForm == (validateSuccess /\ ~moved) => (checked = <<form.type, form.text>> /\ checked[2] \in BrokerOk)

\* A protobuf schema is created with the name of one of its own messages, through the
\* modal or without it, however often the content changed in between.
StructOfSchema == \A s \in broker : s.type = "Protobuf" => s.struct \in Range(Structs(s.text))

\* The form's loader ends with the last request, also when the schema was created and
\* its details did not come; of two sent together the first answer ends it.
LoaderEnds == (reqs = <<>>) => ~loadingSubmit
=============================================================================
