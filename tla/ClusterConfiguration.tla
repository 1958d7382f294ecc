------------------------ MODULE ClusterConfiguration ------------------------
(***************************************************************************)
(* The cluster configuration page.  formFields is edited, oldValues is     *)
(* what the broker last said, and isChanged, which offers "Apply" and      *)
(* "Discard", is computed at each edit.  The row of the upload interval    *)
(* has a number, a unit and an error of its own.  The broker changes the   *)
(* settings one after the other and stops at the first that fails.         *)
(***************************************************************************)
EXTENDS Naturals, Sequences, Requests

CONSTANTS
    Hours,          \* positions of the slider of the DLS retention
    Numbers,        \* numbers typed for the upload interval
    Hosts,          \* host names typed
    ToLower(_),     \* a host name in lower case
    MaxEdits, MaxSent

VARIABLES
    broker,         \* [dls, tiered, host]
    formFields, oldValues, isChanged,
    loading,        \* the page waits for the configuration, or never got it
    row,            \* the interval's row: [input, unit, error]
    reqs,           \* updates under way: [body, done, ok]
    edits, sent,
    discarded,      \* history: a discard left the row as it was
    newer,          \* history: an edit after the update whose answer came
    astray          \* history: an update failed, in part or unheard, or two overlapped

vars == <<broker, formFields, oldValues, isChanged, loading, row, reqs, edits, sent, discarded, newer, astray>>

Seconds(n, unit) == IF unit = "Minutes" THEN n * 60 ELSE n

\* tieredStorageTimeValidator.
TimeValidator(s) == s >= 5 /\ s <= 3600

First == [dls |-> 3, tiered |-> 8, host |-> "h"]

TypeOK ==
    /\ formFields \in [dls : Hours \cup {3}, tiered : Nat, host : Hosts \cup {"h"}]
    /\ row.unit \in {"Seconds", "Minutes"} /\ {row.error, isChanged, discarded, newer, astray} \subseteq BOOLEAN
    /\ loading \in {"yes", "no", "failed"}

Init ==
    /\ broker = First /\ formFields = First /\ oldValues = First /\ isChanged = FALSE
    /\ loading = "yes" /\ row = [input |-> 8, unit |-> "Seconds", error |-> FALSE]
    /\ reqs = <<>> /\ edits = 0 /\ sent = 0
    /\ discarded = FALSE /\ newer = FALSE /\ astray = FALSE

-----------------------------------------------------------------------------
\* getConfigurationValue: only an answer shows the form.  (After a failure the rows
\* are empty, and what they send lacks fields the broker requires.)
GetConfigurationValue(ok) ==
    /\ loading = "yes" /\ loading' = IF ok THEN "no" ELSE "failed"
    /\ UNCHANGED <<broker, formFields, oldValues, isChanged, row, reqs, edits, sent, discarded, newer, astray>>

Edit == loading = "no" /\ edits < MaxEdits /\ edits' = edits + 1

\* A value with an error only takes "Apply" away.
HandleChange(f, v, err) ==
    /\ formFields' = IF err THEN formFields ELSE [formFields EXCEPT ![f] = v]
    /\ isChanged' = (~err /\ formFields' # oldValues)
    /\ newer' = (reqs # <<>> \/ newer)

SliderRow(h) ==
    /\ Edit /\ HandleChange("dls", h, FALSE)
    /\ UNCHANGED <<broker, oldValues, loading, row, reqs, sent, discarded, astray>>

InputRow(h) ==
    /\ Edit /\ HandleChange("host", h, FALSE)
    /\ UNCHANGED <<broker, oldValues, loading, row, reqs, sent, discarded, astray>>

\* onChange of the interval's row.
OnChange(n) ==
    /\ Edit
    /\ LET s == Seconds(n, row.unit)
       IN  /\ HandleChange("tiered", s, ~TimeValidator(s))
           /\ row' = [row EXCEPT !.input = n, !.error = ~TimeValidator(s)]
    /\ discarded' = FALSE
    /\ UNCHANGED <<broker, oldValues, loading, reqs, sent, astray>>

OnChangeType(u) ==
    /\ Edit /\ u # row.unit
    /\ LET s == Seconds(row.input, u)
       IN  /\ HandleChange("tiered", s, ~TimeValidator(s))
           /\ row' = [row EXCEPT !.unit = u, !.error = ~TimeValidator(s)]
    /\ discarded' = FALSE
    /\ UNCHANGED <<broker, oldValues, loading, reqs, sent, astray>>

\* Mutant of DiscardChanges: the fields stay.
MutHideOnly ==
    /\ loading = "no" /\ isChanged
    /\ isChanged' = FALSE /\ newer' = (reqs # <<>> \/ newer)
    /\ UNCHANGED <<broker, formFields, oldValues, loading, row, reqs, edits, sent, discarded, astray>>

\* The row of the interval does not see it.
DiscardChanges ==
    /\ loading = "no" /\ isChanged
    /\ isChanged' = FALSE /\ formFields' = oldValues
    /\ discarded' = (discarded \/ formFields.tiered # oldValues.tiered) /\ newer' = (reqs # <<>> \/ newer)
    /\ UNCHANGED <<broker, oldValues, loading, row, reqs, edits, sent, astray>>

\* "Apply" has no loader: it can be pressed until the answer comes.
UpdateConfiguration ==
    /\ loading = "no" /\ isChanged /\ sent < MaxSent /\ sent' = sent + 1
    /\ reqs' = Append(reqs, [body |-> formFields, done |-> FALSE, ok |-> FALSE])
    /\ newer' = FALSE /\ astray' = (astray \/ reqs # <<>>)
    /\ UNCHANGED <<broker, formFields, oldValues, isChanged, loading, row, edits, discarded>>

-----------------------------------------------------------------------------
\* The settings of an update after its first k were made, in the handler's order.
Settled(body, k) ==
    [dls    |-> IF k >= 1 THEN body.dls ELSE broker.dls,
     tiered |-> IF k >= 2 THEN body.tiered ELSE broker.tiered,
     host   |-> IF k >= 3 THEN ToLower(body.host) ELSE broker.host]

\* EditClusterConfig: all of them, or those before one that fails.
EditClusterConfig(i, k) ==
    /\ i \in DOMAIN reqs /\ ~reqs[i].done
    /\ (k >= 2 /\ reqs[i].body.tiered # broker.tiered) => TimeValidator(reqs[i].body.tiered)
    /\ broker' = Settled(reqs[i].body, k)
    /\ reqs' = [reqs EXCEPT ![i].done = TRUE, ![i].ok = (k = 3)]
    /\ UNCHANGED <<formFields, oldValues, isChanged, loading, row, edits, sent, discarded, newer, astray>>

\* The answer has the settings as they were made, the host in lower case.
UpdateReply(i) ==
    /\ i \in DOMAIN reqs /\ reqs[i].ok
    /\ isChanged' = FALSE /\ oldValues' = Settled(reqs[i].body, 3)
    /\ reqs' = RemoveAt(reqs, i)
    /\ UNCHANGED <<broker, formFields, loading, row, edits, sent, discarded, newer, astray>>

\* The catch block does nothing.
UpdateFails(i) ==
    /\ i \in DOMAIN reqs
    /\ reqs' = RemoveAt(reqs, i)
    /\ astray' = (astray \/ reqs[i].done)
    /\ UNCHANGED <<broker, formFields, oldValues, isChanged, loading, row, edits, sent, discarded, newer>>

Next ==
    \/ \E ok \in BOOLEAN : GetConfigurationValue(ok)
    \/ \E h \in Hours : SliderRow(h)
    \/ \E h \in Hosts : InputRow(h)
    \/ \E n \in Numbers : OnChange(n)
    \/ \E u \in {"Seconds", "Minutes"} : OnChangeType(u)
    \/ DiscardChanges \/ UpdateConfiguration
    \/ \E i \in DOMAIN reqs : UpdateReply(i) \/ UpdateFails(i) \/ \E k \in 0..3 : EditClusterConfig(i, k)

Spec == Init /\ [][Next]_vars

-----------------------------------------------------------------------------
\* No update the page may send has an interval outside 5 seconds to an hour, in
\* whatever order the number and the unit were given.
IntervalBounded == TimeValidator(formFields.tiered)

\* A row that shows no error shows the interval that "Apply" sends, unless changes
\* were discarded, which the row does not follow.
RowShowsInterval ==
    (~row.error /\ ~discarded) => Seconds(row.input, row.unit) = formFields.tiered

\* With no update under way "Discard" would bring back the broker's settings, unless
\* an update failed half-way, its answer was lost, or two updates overlapped.
OldAgrees == (reqs = <<>> /\ ~astray) => oldValues = broker

\* "Apply" is offered for every change that was made, unless the row shows an error,
\* or the change was made while an update was under way, whose answer takes it away.
ChangeIsOffered ==
    (reqs = <<>> /\ ~row.error /\ ~newer /\ ~astray) =>
        (isChanged \/ [formFields EXCEPT !.host = ToLower(@)] = oldValues)
=============================================================================
