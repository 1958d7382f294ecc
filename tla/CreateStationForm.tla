-------------------------- MODULE CreateStationForm --------------------------
(***************************************************************************)
(* The form that creates a station.  What it draws is in the component's   *)
(* state (drawn), what it sends is in the fields of the antd form (field), *)
(* and each control must keep the two together.  A field that is not       *)
(* mounted keeps its value and is not sent.  The function that sends is    *)
(* given to the parent by the first render, so it reads the fields of now  *)
(* and the state of then.                                                  *)
(***************************************************************************)
EXTENDS Naturals, Sequences, FiniteSets

CONSTANTS
    Schemas,        \* the broker's schemas, a sequence
    Stations,       \* stations that may take the dead letters
    Numbers,        \* numbers typed for the deduplication window
    Times,          \* <<days, hours, minutes, seconds>> that may be typed
    Amounts,        \* numbers typed for the other retentions
    MaxEdits, MaxSent

Null == "none"      \* a field with a null value
Retentions == {"message_age_sec", "bytes", "messages", "ack_based"}
Units == {"Milliseconds", "Seconds", "Minutes", "Hours"}
Storages == {"file", "memory"}

VARIABLES
    open, loading,
    creating,       \* requests to create under way
    drawn,          \* [retention, unit, storage, tier, useSchema, dls, tab]
    field,          \* [named, retention, time, bytes, messages, number, unit, storage, tier,
                    \*  schema, dlsStation]; "" for a field never mounted
    schemas,        \* schemas loaded by the form
    s3,             \* the broker has the S3 integration
    integrate,      \* integrateValue
    s3Modal,
    asks,           \* state of each request: "idle", "sent" or its answer
    edits, sent,
    raced           \* history: S3 was disconnected in the dialog

vars == <<open, loading, creating, drawn, field, schemas, s3, integrate, s3Modal, asks, edits, sent, raced>>

FirstDrawn == [retention |-> "message_age_sec", unit |-> "Minutes", storage |-> "file", tier |-> FALSE,
               useSchema |-> FALSE, dls |-> TRUE, tab |-> "local"]

TypeOK ==
    /\ {open, loading, s3, integrate, s3Modal, raced} \subseteq BOOLEAN
    /\ drawn.retention \in Retentions /\ drawn.unit \in Units /\ drawn.storage \in Storages
    /\ field.schema \in {Schemas[k] : k \in DOMAIN Schemas} \cup {"", Null}
    /\ DOMAIN asks = {"schemas", "get", "connect", "disconnect"}

Init ==
    /\ open = TRUE /\ loading = FALSE /\ creating = 0 /\ drawn = FirstDrawn
    /\ field = [named |-> FALSE, retention |-> "message_age_sec", time |-> <<1, 0, 0, 0>>, bytes |-> 1000,
                messages |-> 10, number |-> 2, unit |-> "Minutes", storage |-> "file", tier |-> FALSE,
                schema |-> "", dlsStation |-> Null]
    /\ schemas = <<>> /\ s3 \in BOOLEAN /\ integrate = FALSE /\ s3Modal = FALSE
    /\ asks = [schemas |-> "sent", get |-> "sent", connect |-> "idle", disconnect |-> "idle"]
    /\ edits = 0 /\ sent = 0 /\ raced = FALSE

Edit == open /\ ~s3Modal /\ edits < MaxEdits /\ edits' = edits + 1

-----------------------------------------------------------------------------
\* The controls of the form.
stay == <<open, loading, creating, schemas, s3, integrate, s3Modal, asks, sent, raced>>

StationNameChange ==
    /\ Edit /\ field' = [field EXCEPT !.named = ~@]
    /\ UNCHANGED <<drawn, stay>>

\* Mutant of SetRetentionType: the field is not told.
MutDrawnOnly(t) ==
    /\ Edit /\ drawn.tab = "local" /\ drawn.retention # t
    /\ drawn' = [drawn EXCEPT !.retention = t]
    /\ UNCHANGED <<field, stay>>

SetRetentionType(t) ==
    /\ Edit /\ drawn.tab = "local" /\ drawn.retention # t
    /\ drawn' = [drawn EXCEPT !.retention = t] /\ field' = [field EXCEPT !.retention = t]
    /\ UNCHANGED stay

\* The inputs of the type that is drawn.
SetRetentionTime(t) ==
    /\ Edit /\ drawn.tab = "local" /\ drawn.retention = "message_age_sec"
    /\ field' = [field EXCEPT !.time = t]
    /\ UNCHANGED <<drawn, stay>>

SetRetentionValue(n) ==
    /\ Edit /\ drawn.tab = "local"
    /\ \/ drawn.retention = "bytes" /\ field' = [field EXCEPT !.bytes = n]
       \/ drawn.retention = "messages" /\ field' = [field EXCEPT !.messages = n]
    /\ UNCHANGED <<drawn, stay>>

SetIdempotencyNumber(n) ==
    /\ Edit /\ field' = [field EXCEPT !.number = n]
    /\ UNCHANGED <<drawn, stay>>

SetIdempotencyType(u) ==
    /\ Edit /\ drawn.unit # u
    /\ drawn' = [drawn EXCEPT !.unit = u] /\ field' = [field EXCEPT !.unit = u]
    /\ UNCHANGED stay

\* The field is mounted with the first schema there is, and only then.
ToggleSchema ==
    /\ Edit
    /\ drawn' = [drawn EXCEPT !.useSchema = ~@]
    /\ field' = IF drawn.useSchema \/ field.schema # "" THEN field
                ELSE [field EXCEPT !.schema = IF schemas = <<>> THEN Null ELSE schemas[1]]
    /\ UNCHANGED stay

ChooseSchema(s) ==
    /\ Edit /\ drawn.useSchema /\ s \in {schemas[k] : k \in DOMAIN schemas}
    /\ field' = [field EXCEPT !.schema = s]
    /\ UNCHANGED <<drawn, stay>>

ToggleDls ==
    /\ Edit /\ drawn' = [drawn EXCEPT !.dls = ~@]
    /\ UNCHANGED <<field, stay>>

ChooseDlsStation(s) ==
    /\ Edit /\ drawn.dls /\ field' = [field EXCEPT !.dlsStation = s]
    /\ UNCHANGED <<drawn, stay>>

SetTab(t) ==
    /\ Edit /\ drawn.tab # t /\ drawn' = [drawn EXCEPT !.tab = t]
    /\ UNCHANGED <<field, stay>>

SelectedLocalStorageOption(s) ==
    /\ Edit /\ drawn.tab = "local" /\ drawn.storage # s
    /\ drawn' = [drawn EXCEPT !.storage = s] /\ field' = [field EXCEPT !.storage = s]
    /\ UNCHANGED stay

SelectedRemoteStorageOption ==
    /\ Edit /\ drawn.tab = "remote" /\ integrate
    /\ drawn' = [drawn EXCEPT !.tier = ~@] /\ field' = [field EXCEPT !.tier = ~drawn.tier]
    /\ UNCHANGED stay

\* Without the integration the box opens its dialog.
OpenS3 ==
    /\ Edit /\ drawn.tab = "remote" /\ ~integrate
    /\ s3Modal' = TRUE
    /\ UNCHANGED <<open, loading, creating, drawn, field, schemas, s3, integrate, asks, sent, raced>>

-----------------------------------------------------------------------------

\* A number outside the window of its unit is refused.
IdempotencyValidator(n, u) ==
    CASE u = "Milliseconds" -> n >= 100 /\ n <= 86400000
      [] u = "Seconds"      -> n <= 86400
      [] u = "Minutes"      -> n <= 1440
      [] u = "Hours"        -> n <= 24

GetIdempotencyValue(n, u) ==
    n * (CASE u = "Milliseconds" -> 1 [] u = "Seconds" -> 1000 [] u = "Minutes" -> 60000 [] u = "Hours" -> 3600000)

ConvertDateToSeconds(t) == t[1] * 86400 + t[2] * 3600 + t[3] * 60 + t[4]

GetRetentionValue(f) ==
    CASE f.retention = "message_age_sec" -> ConvertDateToSeconds(f.time)
      [] f.retention = "messages"        -> f.messages
      [] f.retention = "bytes"           -> f.bytes
      [] f.retention = "ack_based"       -> 0

\* validateFields.
Valid == field.named /\ IdempotencyValidator(field.number, drawn.unit)

\* The request: the fields that are mounted, and the dead-letter switch of the first
\* render, which is on.
BodyRequest ==
    [retention  |-> field.retention, value |-> GetRetentionValue(field), storage |-> field.storage,
     tier       |-> field.tier, window |-> GetIdempotencyValue(field.number, field.unit),
     schema     |-> IF drawn.useSchema THEN field.schema ELSE Null,
     dls        |-> FirstDrawn.dls,
     dlsStation |-> IF drawn.dls THEN field.dlsStation ELSE Null]

\* The button waits for the loader; the Enter key does not.
OnFinish ==
    /\ open /\ Valid /\ sent < MaxSent /\ sent' = sent + 1
    /\ loading' = TRUE /\ creating' = creating + 1
    /\ UNCHANGED <<open, drawn, field, schemas, s3, integrate, s3Modal, asks, edits, raced>>

\* createStation: the page of the new station replaces the form, an error leaves it.
CreateStation(ok) ==
    /\ creating > 0 /\ creating' = creating - 1
    /\ loading' = FALSE /\ open' = (open /\ ~ok) /\ s3Modal' = (s3Modal /\ ~ok)
    /\ UNCHANGED <<drawn, field, schemas, s3, integrate, asks, edits, sent, raced>>

\* getAllSchemas.
GetAllSchemas(ok) ==
    /\ asks["schemas"] = "sent" /\ asks' = [asks EXCEPT !["schemas"] = "done"]
    /\ schemas' = IF ok THEN Schemas ELSE schemas
    /\ UNCHANGED <<open, loading, creating, drawn, field, s3, integrate, s3Modal, edits, sent, raced>>

\* The broker answers about the integration.
Handle(op) ==
    /\ op \in {"get", "connect", "disconnect"} /\ asks[op] = "sent"
    /\ asks' = [asks EXCEPT ![op] = IF op = "get" THEN (IF s3 THEN "yes" ELSE "no")
                                    ELSE IF op = "connect" /\ s3 THEN "failed" ELSE "done"]
    /\ s3' = CASE op = "connect" -> TRUE [] op = "disconnect" -> FALSE [] OTHER -> s3
    /\ raced' = (raced \/ op = "disconnect")
    /\ UNCHANGED <<open, loading, creating, drawn, field, schemas, integrate, s3Modal, edits, sent>>

\* getIntegration.
GetIntegration ==
    /\ asks["get"] \in {"yes", "no"} /\ integrate' = (asks["get"] = "yes")
    /\ asks' = [asks EXCEPT !["get"] = "idle"]
    /\ UNCHANGED <<open, loading, creating, drawn, field, schemas, s3, s3Modal, edits, sent, raced>>

\* The dialog connects, and disconnects once the form knows of an integration.
S3Submit(op) ==
    /\ open /\ s3Modal /\ asks[op] \in {"idle", "failed"}
    /\ op = IF integrate THEN "disconnect" ELSE "connect"
    /\ asks' = [asks EXCEPT ![op] = "sent"]
    /\ UNCHANGED <<open, loading, creating, drawn, field, schemas, s3, integrate, s3Modal, edits, sent, raced>>

\* Its answer closes it with a value, an empty object after a disconnection, which
\* counts as one.
S3Close(op) ==
    /\ op \in {"connect", "disconnect"} /\ asks[op] = "done"
    /\ asks' = [asks EXCEPT ![op] = "idle"]
    /\ integrate' = TRUE /\ s3Modal' = FALSE
    /\ UNCHANGED <<open, loading, creating, drawn, field, schemas, s3, edits, sent, raced>>

S3ClickOutside ==
    /\ s3Modal /\ s3Modal' = FALSE
    /\ UNCHANGED <<open, loading, creating, drawn, field, schemas, s3, integrate, asks, edits, sent, raced>>

Next ==
    \/ StationNameChange \/ ToggleSchema \/ ToggleDls \/ SelectedRemoteStorageOption \/ OpenS3
    \/ OnFinish \/ GetIntegration \/ S3ClickOutside
    \/ \E t \in Retentions : SetRetentionType(t)
    \/ \E t \in Times : SetRetentionTime(t)
    \/ \E n \in Amounts : SetRetentionValue(n)
    \/ \E n \in Numbers : SetIdempotencyNumber(n)
    \/ \E u \in Units : SetIdempotencyType(u)
    \/ \E k \in DOMAIN Schemas : ChooseSchema(Schemas[k])
    \/ \E s \in Stations : ChooseDlsStation(s)
    \/ \E t \in {"local", "remote"} : SetTab(t)
    \/ \E s \in Storages : SelectedLocalStorageOption(s)
    \/ \E ok \in BOOLEAN : CreateStation(ok) \/ GetAllSchemas(ok)
    \/ \E op \in {"get", "connect", "disconnect"} : Handle(op) \/ S3Submit(op) \/ S3Close(op)

Spec == Init /\ [][Next]_vars

-----------------------------------------------------------------------------
\* What would be sent is what is drawn: the retention, the storage, the tier and the
\* unit of the window.  The dead-letter switch is not: it is sent as it was first.
SentAsDrawn ==
    /\ BodyRequest.retention = drawn.retention /\ BodyRequest.storage = drawn.storage
    /\ BodyRequest.tier = drawn.tier /\ field.unit = drawn.unit
    /\ ~drawn.useSchema => BodyRequest.schema = Null

\* A form that is accepted sends a window of 100 ms to 24 hours, or 0 for the default.
WindowBounded ==
    Valid => (BodyRequest.window = 0 \/ (BodyRequest.window >= 100 /\ BodyRequest.window <= 86400000))

\* The second tier is asked for only where the broker has S3, unless S3 was
\* disconnected in the dialog of this form, whose empty answer still counts as a value.
TierHasS3 == (BodyRequest.tier /\ ~raced) => s3
==============================================================================
