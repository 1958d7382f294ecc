---------------------------- MODULE Notifications ----------------------------
(***************************************************************************)
(* The system notifications of App: a list in the state of each tab, a     *)
(* copy of it in localStorage, which the tabs share and which a reload     *)
(* starts from, and the notifications on the screen, shown until closed.   *)
(***************************************************************************)
EXTENDS Naturals, Sequences, Requests, FiniteSets

CONSTANTS
    NTabs,
    Ids,       \* the ids of system messages
    MaxReloads \* bound on the documents loaded

VARIABLES
    stored,    \* persistedNotifications in localStorage
    list,      \* persistedNotifications in the state of a tab
    displayed, \* displayedNotifications
    open,      \* how many notifications of an id are on the screen
    published, \* the broker's messages, each push carries them all
    reloads,
    dismissed, \* history: ids closed in some tab
    lost       \* history: ids whose read mark another tab has overwritten

vars == <<stored, list, displayed, open, published, reloads, dismissed, lost>>

IdsOf(l) == {l[i].id : i \in DOMAIN l}
Copies(l, n) == Cardinality({i \in DOMAIN l : l[i].id = n})
UnreadCopies(l, n) == Cardinality({i \in DOMAIN l : l[i].id = n /\ ~l[i].read})
Marked(l, n) == \E i \in DOMAIN l : l[i].id = n /\ l[i].read

TypeOK ==
    /\ IdsOf(stored) \subseteq published
    /\ \A t \in NTabs :
          /\ IdsOf(list[t]) \cup displayed[t] \subseteq published
          /\ open[t] \in [Ids -> Nat]
    /\ published \cup dismissed \cup lost \subseteq Ids /\ lost \subseteq dismissed
    /\ reloads \in 0..MaxReloads

Init ==
    /\ stored = <<>>
    /\ list = [t \in NTabs |-> <<>>]
    /\ displayed = [t \in NTabs |-> {}]
    /\ open = [t \in NTabs |-> [n \in Ids |-> 0]]
    /\ published = {}
    /\ reloads = 0
    /\ dismissed = {}
    /\ lost = {}

-----------------------------------------------------------------------------
\* localStorage.setItem: the copy is replaced as a whole.
Store(l) ==
    /\ stored' = l
    /\ lost' = lost \cup {n \in dismissed : Marked(stored, n) /\ ~Marked(l, n)}

\* The effect on the list shows what is unread and was not displayed.  The copies
\* of one id are all shown: displayedNotifications is the one of the render.
Effect(t, l, seen) ==
    [n \in Ids |-> open[t][n] + (IF n \in seen THEN 0 ELSE UnreadCopies(l, n))]

\* A new list in the state of tab t, and its effect.
SetPersistedNotifications(t, l) ==
    /\ list' = [list EXCEPT ![t] = l]
    /\ open' = [open EXCEPT ![t] = Effect(t, l, displayed[t])]
    /\ displayed' = [displayed EXCEPT ![t] = @ \cup {n \in Ids : UnreadCopies(l, n) > 0}]

Publish(n) ==
    /\ n \notin published
    /\ published' = published \cup {n}
    /\ UNCHANGED <<stored, list, displayed, open, reloads, dismissed, lost>>

\* Mutant of UniqueNew: the list of the state is not looked at.
MutAllNew(t) == published

\* uniqueNewNotifications.
UniqueNew(t) == published \ IdsOf(list[t])

\* A push from the broker.  The state is set first and rendered at once, so that
\* stateRef has the new ones already when the storage gets them appended again.
ListenForUpdates(t) ==
    LET new == SetToSeq({[id |-> n, read |-> FALSE] : n \in UniqueNew(t)})
        l   == list[t] \o new
    IN  /\ published # {}
        /\ \/ new # <<>> /\ SetPersistedNotifications(t, l)
           \/ new = <<>> /\ UNCHANGED <<list, open, displayed>>
        /\ Store(l \o new)
        /\ UNCHANGED <<published, reloads, dismissed>>

\* Mutant of OnClose: the mark stays in the state of the tab.
MutCloseInState(t, n) ==
    LET l == [i \in DOMAIN list[t] |->
                  [list[t][i] EXCEPT !.read = @ \/ list[t][i].id = n]]
    IN  /\ open[t][n] > 0
        /\ list' = [list EXCEPT ![t] = l]
        /\ open' = [open EXCEPT ![t][n] = @ - 1]
        /\ dismissed' = dismissed \cup {n}
        /\ UNCHANGED <<stored, lost, displayed, published, reloads>>

\* onClose of a notification marks every copy of its id.
OnClose(t, n) ==
    LET l == [i \in DOMAIN list[t] |->
                  [list[t][i] EXCEPT !.read = @ \/ list[t][i].id = n]]
    IN  /\ open[t][n] > 0
        /\ list' = [list EXCEPT ![t] = l]
        /\ open' = [open EXCEPT ![t][n] = @ - 1]
        /\ dismissed' = dismissed \cup {n}
        /\ Store(l)
        /\ UNCHANGED <<displayed, published, reloads>>

\* The tab is loaded again: the state starts from the storage.
Reload(t) ==
    /\ reloads < MaxReloads
    /\ reloads' = reloads + 1
    /\ list' = [list EXCEPT ![t] = stored]
    /\ open' = [open EXCEPT ![t] = [n \in Ids |-> UnreadCopies(stored, n)]]
    /\ displayed' = [displayed EXCEPT ![t] = {n \in Ids : UnreadCopies(stored, n) > 0}]
    /\ UNCHANGED <<stored, published, dismissed, lost>>

Next ==
    \/ \E n \in Ids : Publish(n)
    \/ \E t \in NTabs :
          \/ ListenForUpdates(t)
          \/ \E n \in Ids : OnClose(t, n)
          \/ Reload(t)

Spec == Init /\ [][Next]_vars

-----------------------------------------------------------------------------
(* Properties. *)

\* A notification is in the storage, in the state and on the screen of a tab twice
\* at most, however often it is pushed and the page reloaded: the broker sends all
\* its messages with every push, and the state and the storage get different lists.
CopiesBounded ==
    \A n \in Ids :
        /\ Copies(stored, n) <= 2
        /\ \A t \in NTabs : Copies(list[t], n) <= 2 /\ open[t][n] <= 2

ReloadKeepsDismissed ==
    reloads' # reloads => \A t \in NTabs, n \in dismissed \ lost : open'[t][n] <= open[t][n]

\* A notification that was closed in any tab is not shown again by loading a page,
\* unless another tab has written its own list over the mark.
DismissedStays == [][ReloadKeepsDismissed]_vars
=============================================================================
