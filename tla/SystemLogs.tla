------------------------------ MODULE SystemLogs ------------------------------
(***************************************************************************)
(* The list of system logs, newest first.  It grows at its end by pages,   *)
(* each asked for from the last log shown, which the broker's answer has   *)
(* again, and at its front by pushes of the newest page, of which the page *)
(* takes what stands before the last log it knows.  Every listening asks   *)
(* for a subscription, which replaces the one known (sub) without ending   *)
(* it; a filter starts the list again.                                     *)
(***************************************************************************)
EXTENDS Integers, Sequences, Requests, FiniteSets

CONSTANTS
    Filters, First, \* log filters, and the one the page starts with
    FilterOf(_),    \* the filter that finds the log of a number
    PageSize, OldLogs, MaxLogs, MaxGets, MaxListens, MaxPushes

VARIABLES
    last,           \* the broker: number of the newest log
    filter,         \* logType, logSource
    logs, seqNum, lastMsgSeq, selected,
    changeSelected, \* the selection follows the newest log
    stopLoad, loader, changed,
    top,            \* visibleRange is 0
    gets,           \* requests for a page: [filter, from, changed, done, result]
    asking,         \* filters of the subscriptions asked for
    subs, sub,      \* subscriptions that live, and the one that is known: [id, filter]
    pushes,         \* pushes under way: [sub, logs]
    got, listens, pushed,
    mixed,          \* history: an answer or a push of another filter than the page's
    missed          \* history: a push or an answer that does not fit the list

listVars == <<logs, seqNum, lastMsgSeq, selected>>
flagVars == <<changeSelected, stopLoad, loader>>
subVars == <<asking, subs, sub, listens>>
vars == <<last, filter, listVars, flagVars, changed, top, gets, subVars, pushes, got, pushed, mixed, missed>>

NoSub == [id |-> 0, filter |-> First]

\* GetSystemLogs: the newest PageSize logs of a filter up to a number, that one too.
Page(f, from) ==
    LET all  == {n \in 1..last : FilterOf(n) = f /\ (from = -1 \/ n <= from)}
        size == IF Cardinality(all) < PageSize THEN Cardinality(all) ELSE PageSize
    IN  [k \in 1..size |-> CHOOSE n \in all : Cardinality({m \in all : m >= n}) = k]

TypeOK ==
    /\ Range(logs) \subseteq 1..last /\ {seqNum, lastMsgSeq, selected} \subseteq -1..last
    /\ {changeSelected, stopLoad, loader, changed, top, mixed, missed} \subseteq BOOLEAN
    /\ filter \in Filters

Init ==
    /\ last = OldLogs /\ filter = First
    /\ logs = <<>> /\ seqNum = -1 /\ lastMsgSeq = -1 /\ selected = -1
    /\ changeSelected = TRUE /\ stopLoad = FALSE /\ loader = TRUE /\ changed = FALSE /\ top = TRUE
    /\ gets = <<[filter |-> First, from |-> -1, changed |-> FALSE, done |-> FALSE, result |-> <<>>]>>
    /\ asking = <<First>> /\ subs = {} /\ sub = NoSub
    /\ pushes = <<>> /\ got = 1 /\ listens = 1 /\ pushed = 0 /\ mixed = FALSE /\ missed = FALSE

\* The list is drawn.
Drawn == ~loader /\ logs # <<>>

-----------------------------------------------------------------------------
\* startListen: a subscription of the filter of now is asked for.
StartListen == asking' = Append(asking, filter) /\ listens' = listens + 1

\* The broker's answer to SUB.
Subscribe ==
    /\ asking # <<>>
    /\ LET s == [id |-> listens - Len(asking) + 1, filter |-> asking[1]]
       IN  sub' = s /\ subs' = subs \cup {s}
    /\ asking' = Tail(asking)
    /\ UNCHANGED <<last, filter, listVars, flagVars, changed, top, gets, listens, pushes, got, pushed, mixed, missed>>

\* The effect of visibleRange: away from the top the page does not listen.
Scroll ==
    /\ Drawn /\ top' = ~top
    /\ IF top THEN subs' = subs \ {sub} /\ UNCHANGED <<asking, listens>>
              ELSE listens < MaxListens /\ StartListen /\ UNCHANGED subs
    /\ UNCHANGED <<last, filter, listVars, flagVars, changed, gets, sub, pushes, got, pushed, mixed, missed>>

\* loadMore, at the end of the list.
LoadMore ==
    /\ Drawn /\ ~stopLoad /\ got < MaxGets /\ got' = got + 1
    /\ gets' = Append(gets, [filter |-> filter, from |-> seqNum, changed |-> FALSE, done |-> FALSE, result |-> <<>>])
    /\ mixed' = (mixed \/ changed)
    /\ UNCHANGED <<last, filter, listVars, flagVars, changed, top, subVars, pushes, pushed, missed>>

SelectLog(n) ==
    /\ Drawn /\ n \in Range(logs) /\ selected # n
    /\ selected' = n /\ changeSelected' = (n = lastMsgSeq)
    /\ UNCHANGED <<last, filter, logs, seqNum, lastMsgSeq, stopLoad, loader, changed, top, gets, subVars,
                   pushes, got, pushed, mixed, missed>>

\* The effect of a change: the subscription known ends, and the newest page of the
\* filter is asked for.
Refilter(f) ==
    /\ got < MaxGets /\ got' = got + 1
    /\ changed' = FALSE /\ loader' = TRUE
    /\ subs' = subs \ {sub}
    /\ gets' = Append(gets, [filter |-> f, from |-> -1, changed |-> TRUE, done |-> FALSE, result |-> <<>>])

\* The effect runs only with a subscription.
HandleFilter(f) ==
    /\ f # filter /\ filter' = f
    /\ IF sub # NoSub THEN Refilter(f) ELSE changed' = TRUE /\ UNCHANGED <<got, loader, subs, gets>>
    /\ UNCHANGED <<last, listVars, changeSelected, stopLoad, top, asking, sub, listens, pushes, pushed, mixed, missed>>

\* Without one it runs at the first render after there is one.
ChangedEffect ==
    /\ changed /\ sub # NoSub /\ Refilter(filter)
    /\ UNCHANGED <<last, filter, listVars, changeSelected, stopLoad, top, asking, sub, listens, pushes, pushed,
                   mixed, missed>>

-----------------------------------------------------------------------------
\* The broker logs, answers and pushes.
Log ==
    /\ last < MaxLogs /\ last' = last + 1
    /\ UNCHANGED <<filter, listVars, flagVars, changed, top, gets, subVars, pushes, got, pushed, mixed, missed>>

Handle(i) ==
    /\ i \in DOMAIN gets /\ ~gets[i].done
    /\ gets' = [gets EXCEPT ![i].done = TRUE, ![i].result = Page(gets[i].filter, gets[i].from)]
    /\ UNCHANGED <<last, filter, listVars, flagVars, changed, top, subVars, pushes, got, pushed, mixed, missed>>

Push(s) ==
    /\ pushed < MaxPushes /\ pushed' = pushed + 1 /\ Page(s.filter, -1) # <<>>
    /\ pushes' = Append(pushes, [sub |-> s, logs |-> Page(s.filter, -1)])
    /\ UNCHANGED <<last, filter, listVars, flagVars, changed, top, gets, subVars, got, mixed, missed>>

\* A page that was asked for at the end of the list.
MorePage(r) ==
    /\ IF r = <<>> THEN UNCHANGED <<listVars, stopLoad>>
       ELSE /\ IF seqNum = -1 THEN lastMsgSeq' = r[1] /\ selected' = r[1] ELSE UNCHANGED <<lastMsgSeq, selected>>
            /\ IF r[Len(r)] = seqNum
               THEN stopLoad' = TRUE /\ UNCHANGED <<seqNum, logs>>
               ELSE seqNum' = r[Len(r)] /\ logs' = logs \o r /\ UNCHANGED stopLoad
    /\ UNCHANGED <<changed, asking, listens>>

\* Mutant of ChangedPage: the page is added to the list.
MutAppendPage(r) ==
    /\ r # <<>>
    /\ logs' = logs \o r /\ seqNum' = r[Len(r)] /\ lastMsgSeq' = r[1] /\ selected' = r[1]
    /\ stopLoad' = FALSE /\ StartListen /\ UNCHANGED changed

\* The first page of a new filter.  Without logs the page does not listen again.
ChangedPage(r) ==
    /\ IF r = <<>> THEN logs' = <<>> /\ UNCHANGED <<seqNum, lastMsgSeq, selected, stopLoad, asking, listens>>
       ELSE /\ logs' = r /\ seqNum' = r[Len(r)] /\ lastMsgSeq' = r[1] /\ selected' = r[1]
            /\ stopLoad' = FALSE /\ listens < MaxListens /\ StartListen
    /\ UNCHANGED changed

\* The answer is of the filter of the page, and continues its list.
Fits(g) ==
    \/ g.changed /\ g.result # <<>> /\ \A k \in DOMAIN gets : gets[k] = g \/ ~gets[k].changed
    \/ ~g.changed /\ (g.from = seqNum \/ g.result = <<>>) /\ (g.from = -1 => logs = <<>>)

GetLogs(i) ==
    /\ i \in DOMAIN gets /\ gets[i].done
    /\ IF gets[i].changed THEN ChangedPage(gets[i].result) ELSE MorePage(gets[i].result)
    /\ gets' = RemoveAt(gets, i) /\ loader' = FALSE
    /\ mixed' = (mixed \/ gets[i].filter # filter) /\ missed' = (missed \/ ~Fits(gets[i]))
    /\ UNCHANGED <<last, filter, changeSelected, top, subs, sub, pushes, got, pushed>>

GetLogsFails(i) ==
    /\ i \in DOMAIN gets /\ ~gets[i].done
    /\ gets' = RemoveAt(gets, i) /\ loader' = FALSE
    /\ mixed' = (mixed \/ \E k \in DOMAIN gets : gets[k].changed)
    /\ UNCHANGED <<last, filter, listVars, changeSelected, stopLoad, changed, top, subVars, pushes, got, pushed, missed>>

\* slice(0, findIndex(lastMgsSeq)): -1 leaves out the last log of the push.
UniqueItems(r) ==
    LET known == {k \in DOMAIN r : r[k] = lastMsgSeq}
    IN  IF known = {} THEN SubSeq(r, 1, Len(r) - 1) ELSE SubSeq(r, 1, (CHOOSE k \in known : TRUE) - 1)

\* listenForUpdates.
Listen ==
    /\ pushes # <<>> /\ pushes' = Tail(pushes)
    /\ pushes[1].sub \in subs
    /\ logs' = UniqueItems(pushes[1].logs) \o logs /\ lastMsgSeq' = pushes[1].logs[1]
    /\ selected' = IF changeSelected THEN pushes[1].logs[1] ELSE selected
    /\ mixed' = (mixed \/ pushes[1].sub.filter # filter)
    /\ missed' = (missed \/ lastMsgSeq \notin Range(pushes[1].logs))
    /\ UNCHANGED <<last, filter, seqNum, flagVars, changed, top, gets, subVars, got, pushed>>

\* A push to a subscription that was ended.
Dropped ==
    /\ pushes # <<>> /\ pushes' = Tail(pushes) /\ pushes[1].sub \notin subs
    /\ UNCHANGED <<last, filter, listVars, flagVars, changed, top, gets, subVars, got, pushed, mixed, missed>>

Next ==
    \/ Subscribe \/ Scroll \/ LoadMore \/ ChangedEffect \/ Log \/ Listen \/ Dropped
    \/ \E n \in Range(logs) : SelectLog(n)
    \/ \E f \in Filters : HandleFilter(f)
    \/ \E s \in subs : Push(s)
    \/ \E i \in DOMAIN gets : Handle(i) \/ GetLogs(i) \/ GetLogsFails(i)

Spec == Init /\ [][Next]_vars

-----------------------------------------------------------------------------
\* Once a filter's list has come it has only logs of the filter, unless a late answer,
\* or a push of a subscription that nothing ended, was of another.
OnlyOfFilter ==
    (~mixed /\ ~changed /\ (\A k \in DOMAIN gets : ~gets[k].changed)) => \A n \in Range(logs) : FilterOf(n) = filter

\* The logs shown go down from the newest to the oldest without a gap; only the last
\* log of a page may stand twice in a row, once for each page.  Unless an answer or a
\* push came that did not fit the list.
InOrder ==
    (~mixed /\ ~missed /\ ~changed /\ logs # <<>>) =>
        /\ \A k \in 1..(Len(logs) - 1) : logs[k] >= logs[k + 1]
        /\ \A n \in logs[Len(logs)]..logs[1] : FilterOf(n) = FilterOf(logs[1]) => n \in Range(logs)
        /\ Len(logs) - Cardinality(Range(logs)) < got

\* While the selection follows the newest log, the selected one is the first shown.
FollowsNewest ==
    (~mixed /\ ~missed /\ ~changed /\ changeSelected /\ logs # <<>>) => selected = logs[1]
===============================================================================
