------------------------------ MODULE FactLists ------------------------------
(***************************************************************************)
(* What the workbench renders of the facts of a conversation               *)
(* (backendApi.ts): a list per domain, cut to the latest rows but with the *)
(* focused fact forced in, and the timeline, cut to its earliest rows;     *)
(* and what the buttons of those rows do (components.tsx                   *)
(* handleSummaryAction). Every action is followed by a refresh, so the     *)
(* lists are functions of the stored facts; Workbench has the refreshes.   *)
(***************************************************************************)
EXTENDS Naturals, Sequences, FiniteSets

CONSTANTS
    Ids,           \* ids the backend gives out
    Times,         \* comparable texts of start, due time or date
    ListLimit,     \* rows of a domain list (6)
    TimelineLimit, \* rows of the timeline (8)
    Undated,       \* the text an expense without a date sorts as
    NoFocus        \* no fact is focused

ListConstants ==
    /\ Times \subseteq Nat /\ Undated \in Nat /\ \A t \in Times : t < Undated
    /\ ListLimit \in Nat \ {0} /\ TimelineLimit \in Nat \ {0}
    /\ NoFocus \notin Ids

VARIABLES
    facts,    \* the stored facts by domain, oldest first
    focus,    \* the fact a notification or an event link focused
    refused   \* whether the backend refused the last action

listVars == <<facts, focus, refused>>

Domains == {"calendar", "expense", "reminder"}
Fact(id, domain, status, at) == [id |-> id, domain |-> domain, status |-> status, at |-> at]
OpenStatus == [calendar |-> "scheduled", expense |-> "draft", reminder |-> "scheduled"]
IsOpen(f) == f.status = OpenStatus[f.domain]

(* The buttons of an open row and what they leave the fact as.             *)
ButtonsOf == [calendar |-> {"canceled"}, expense |-> {"submitted", "canceled"},
              reminder |-> {"done", "canceled"}]

Has(seq, id) == \E i \in DOMAIN seq : seq[i].id = id
Find(seq, id) == seq[CHOOSE i \in DOMAIN seq : seq[i].id = id]
Latest(seq, n) == SubSeq(seq, IF Len(seq) > n THEN Len(seq) - n + 1 ELSE 1, Len(seq))
First(seq, n) == SubSeq(seq, 1, IF Len(seq) > n THEN n ELSE Len(seq))

LatestOnly(seq, id) == Latest(seq, ListLimit) \* faulty: the focus can be cut off

(* selectRecentItemsWithFocus. Where it puts the focused fact first, the   *)
(* latest ones are without it, so that its filter takes nothing away.      *)
SelectRecentItemsWithFocus(seq, id) ==
    LET recent == Latest(seq, ListLimit)
    IN  IF id = NoFocus \/ Has(recent, id) \/ ~ Has(seq, id) THEN recent
        ELSE First(<<Find(seq, id)>> \o recent, ListLimit)

(* A row shows a fact and carries the id its buttons send.                 *)
Row(f, target) == [domain |-> f.domain, target |-> target, highlighted |-> f.id = focus,
                   buttons |-> IF IsOpen(f) THEN ButtonsOf[f.domain] ELSE {}]

(* Expenses know no focus.                                                 *)
Items(d) == IF d = "expense" THEN Latest(facts[d], ListLimit)
            ELSE SelectRecentItemsWithFocus(facts[d], focus)
ListOf(d) == [i \in DOMAIN Items(d) |-> Row(Items(d)[i], Items(d)[i].id)]

UndatedFirst(f) == IF f.at = Undated THEN 0 ELSE f.at \* faulty

(* The timeline takes events, reminders and expenses in this order and     *)
(* sorts them by text, a stable sort. An entry is a domain and a place.    *)
Entries == UNION {{d} \X DOMAIN facts[d] : d \in Domains}
FactAt(e) == facts[e[1]][e[2]]
Rank == [calendar |-> 1, reminder |-> 2, expense |-> 3]
SortAt(f) == f.at
ComesBefore(e, g) ==
    \/ SortAt(FactAt(e)) < SortAt(FactAt(g))
    \/ /\ SortAt(FactAt(e)) = SortAt(FactAt(g))
       /\ Rank[e[1]] < Rank[g[1]] \/ (e[1] = g[1] /\ e[2] < g[2])

TimelinePlace(e) == Cardinality({g \in Entries : ComesBefore(g, e)}) + 1
Timeline == {e \in Entries : TimelinePlace(e) <= TimelineLimit}

RowByItsOwnId(f) == Row(f, NoFocus) \* faulty: the id of a timeline row is no fact

(* A row of the timeline has an id of its own, so its buttons name their   *)
(* target.                                                                 *)
TimelineRow(f) == Row(f, f.id)

Shown == {TimelineRow(FactAt(e)) : e \in Timeline}
             \cup UNION {{ListOf(d)[i] : i \in DOMAIN ListOf(d)} : d \in Domains}

-----------------------------------------------------------------------------
ListsInit ==
    /\ facts = [d \in Domains |-> <<>>]
    /\ focus = NoFocus
    /\ refused = FALSE

(* A confirmed plan creates a fact; an expense may have no date yet.       *)
Create(id, d, at) ==
    /\ \A e \in Domains : ~ Has(facts[e], id)
    /\ at = Undated => d = "expense"
    /\ facts' = [facts EXCEPT ![d] = Append(@, Fact(id, d, OpenStatus[d], at))]
    /\ UNCHANGED <<focus, refused>>

(* A button of a row, on a domain list or on the timeline: the backend     *)
(* refuses it if there is no such fact or if it is closed.                 *)
Press(row, status) ==
    /\ status \in row.buttons
    /\ \/ \E i \in DOMAIN facts[row.domain] :
             /\ facts[row.domain][i].id = row.target /\ IsOpen(facts[row.domain][i])
             /\ facts' = [facts EXCEPT ![row.domain][i].status = status]
             /\ refused' = FALSE
       \/ /\ \A i \in DOMAIN facts[row.domain] :
                facts[row.domain][i].id = row.target => ~ IsOpen(facts[row.domain][i])
          /\ refused' = TRUE
          /\ UNCHANGED facts
    /\ UNCHANGED focus

(* A tapped notification or event link.                                    *)
Focus(id) ==
    /\ focus' = id
    /\ UNCHANGED <<facts, refused>>

ListsNext ==
    \/ \E id \in Ids, d \in Domains, at \in Times \cup {Undated} : Create(id, d, at)
    \/ \E row \in Shown : \E status \in row.buttons : Press(row, status)
    \/ \E id \in Ids : Focus(id)

ListsSpec == ListsInit /\ [][ListsNext]_listVars

-----------------------------------------------------------------------------
(* selectRecentItemsWithFocus: the fact a tapped notification focuses is   *)
(* in its list, highlighted and once, however many newer ones there are,   *)
(* and the list stays within its limit.                                    *)
FocusIsListed ==
    \A d \in Domains \ {"expense"} :
        /\ Len(ListOf(d)) <= ListLimit
        /\ Has(facts[d], focus) =>
              Cardinality({i \in DOMAIN ListOf(d) : ListOf(d)[i].highlighted}) = 1

(* handleSummaryAction: the button of any row, wherever it is rendered,    *)
(* names a fact that exists and is open: the backend refuses none.         *)
NoButtonIsRefused == ~ refused

(* timelineToBackendElements: what the timeline leaves out comes after     *)
(* everything it shows, and it is full before it leaves anything out.      *)
TimelineIsThePrefix ==
    \A out \in Entries \ Timeline :
        /\ \A kept \in Timeline : FactAt(kept).at <= FactAt(out).at
        /\ Cardinality(Timeline) = TimelineLimit

(* Lists and timeline together: every row a user may need is there, in its *)
(* place, and every button of it works.                                    *)
RowsAreSound == FocusIsListed /\ NoButtonIsRefused /\ TimelineIsThePrefix
==============================================================================
