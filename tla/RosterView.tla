------------------------------- MODULE RosterView -------------------------------
(***************************************************************************)
(* The list of contacts of the main window: EmpathyRosterView, a list box  *)
(* with a row for each contact in each of its groups and a header for each *)
(* group, filtered by presence or by the live search; and what the window  *)
(* does with it: it shows the page the list calls for and makes the rows   *)
(* of contacts with events flash.                                          *)
(*                                                                         *)
(* The list box keeps its rows in order and asks the filter about a row    *)
(* when it is added, when it is told that it changed, and about all rows,  *)
(* in order, when it is told to filter again.                              *)
(***************************************************************************)
EXTENDS Naturals, Sequences, FiniteSets, SequencesExt, FiniteSetsExt

CONSTANTS Contacts,     \* the individuals of the model, in the order of their names
          Groups,       \* the groups a user made, in the order of their names
          Events,       \* the events of the event manager
          EventOf,      \* the individual of each
          MaxEntries,   \* bound: entries of the queue of events
          MaxIdles      \* bound: idle callbacks of the window that wait

ASSUME RosterViewAssumption ==
    /\ Contacts \in Seq(ToSet(Contacts)) /\ IsInjective(Contacts)
    /\ Groups \in Seq(ToSet(Groups)) /\ IsInjective(Groups)
    /\ IsFiniteSet(Events)
    /\ ToSet(Groups) \cap {"top", "ungrouped", "none"} = {}
    /\ EventOf \in [Events -> ToSet(Contacts)]
    /\ MaxEntries \in Nat /\ MaxIdles \in Nat

VARIABLES model,    \* what EmpathyRosterModel answers, and who is online
          view,     \* EmpathyRosterView
          window,   \* the page and the idle callbacks of EmpathyRosterWindow
          pending,  \* the events the event manager holds now
          past      \* those it held before

viewVars == <<model, view, window, pending, past>>

AllGroups == <<"none", "top">> \o Groups \o <<"ungrouped">>

\* The box in order: "none" stands for NO_GROUP.  A row is one of the hash table,
\* or an old one that a second row for the same group took the place of there.
Rows == {<<i, g, n>> : i \in ToSet(Contacts), g \in ToSet(AllGroups), n \in {"row", "old"}}

----------------------------------------------------------------------------
(* A record v is the state a handler hands to the handlers it calls.       *)

ViewState ==
    [members |-> model.members, groups |-> model.groups, online |-> model.online,
     page |-> window.page, idles |-> window.idles,
     contacts |-> view.contacts, rows |-> view.rows, headers |-> view.headers,
     collapsed |-> view.collapsed, shown |-> view.shown, displayed |-> view.displayed,
     icons |-> view.icons, entries |-> view.entries, flash |-> view.flash,
     showGroups |-> view.showGroups, showOffline |-> view.showOffline, empty |-> view.empty,
     search |-> view.search, match |-> view.match]

ViewBecomes(v) ==
    /\ model' = [members |-> v.members, groups |-> v.groups, online |-> v.online]
    /\ window' = [page |-> v.page, idles |-> v.idles]
    /\ view' = [f \in DOMAIN view |-> v[f]]

Hashed(v, i) == {g \in ToSet(AllGroups) : <<i, g, "row">> \in v.rows}

\* Searching is a live search that is visible; search is whom its text matches.
Searching(v) == v.search # "hidden"

\* contact_in_top and contact_should_be_displayed
InTop(v, r) == IF v.showGroups THEN r[2] = "top" ELSE "top" \in v.groups[r[1]]

ShouldBeDisplayed(v, r) ==
    IF Searching(v) THEN r[1] \in v.match
    ELSE v.showOffline \/ InTop(v, r) \/ v.online[r[1]]

Passes(v, r) ==
    /\ ShouldBeDisplayed(v, r)
    /\ v.showGroups /\ r[2] \in v.collapsed => Searching(v)

\* view_empty_cb of the window.
UpdateEmpty(v, empty) ==
    IF v.empty = empty THEN v
    ELSE IF empty
         THEN [v EXCEPT !.empty = TRUE, !.page = IF Searching(v) THEN "no match" ELSE @]
         ELSE [v EXCEPT !.empty = FALSE, !.page = "list", !.idles = @ + 1]

\* filter_group for some groups: a header shows when a row of its group should.
FilterGroups(v, groups) ==
    LET asked == groups \cap v.headers
        shows == {g \in asked : \E r \in v.rows : r[2] = g /\ ShouldBeDisplayed(v, r)}
    IN  [v EXCEPT !.shown = (@ \ asked) \cup shows]

\* The order of the box: by group or, without groups, first those at the top; then by
\* name.  (Who leaves the top keeps his place until the box is sorted again: here he is
\* sorted at once.)
Precedes(v, r, q) ==
    LET Place(x) == <<IF v.showGroups THEN IndexFirstSubSeq(<<x[2]>>, AllGroups)
                      ELSE IF InTop(v, x) THEN 0 ELSE 1,
                      IndexFirstSubSeq(<<x[1]>>, Contacts)>>
    IN  \/ Place(r)[1] < Place(q)[1]
        \/ Place(r)[1] = Place(q)[1] /\ Place(r)[2] < Place(q)[2]
        \/ Place(r) = Place(q) /\ r[3] = "row" /\ q[3] = "old"

\* filter_list for some rows, in the order of the box: add_to_displayed for those
\* that pass, remove_from_displayed for the others.  The list is found empty if
\* nothing else was displayed when the first comes that passes, and not empty from
\* then on; a row that comes to be displayed has the headers of its contact filtered.
FilterRows(v, rows) ==
    LET pass == {r \in rows : Passes(v, r)}
        before == {r \in rows : \A p \in pass : Precedes(v, r, p)}
        fresh == {r \in pass \ v.displayed : v.showGroups /\ r[1] \in v.contacts}
        w == IF before # {} /\ v.displayed \subseteq before THEN UpdateEmpty(v, TRUE) ELSE v
        x == IF pass # {} THEN UpdateEmpty(w, FALSE) ELSE w
    IN  FilterGroups([x EXCEPT !.displayed = (@ \ rows) \cup pass],
                     UNION {Hashed(v, r[1]) : r \in fresh})

Refilter(v) == FilterGroups(FilterRows(v, v.rows), v.headers)

----------------------------------------------------------------------------
(* Rows and groups                                                         *)

\* A row that is already there for its group leaves the table, not the box.
Retire(S, rows) == (S \ rows) \cup {<<r[1], r[2], "old">> : r \in S \cap rows}

\* add_to_group for each of some rows, with the headers they need.
AddRows(v, rows) ==
    LET groups == {r[2] : r \in rows}
        w == [v EXCEPT !.headers = @ \cup (groups \ {"none"}), !.rows = Retire(@, rows) \cup rows,
                       !.displayed = Retire(@, rows), !.icons = Retire(@, rows)]
    IN  FilterGroups(FilterRows(w, rows), groups)

AddToGroup(v, i, g) == IF i \in v.contacts THEN AddRows(v, {<<i, g, "row">>}) ELSE v

\* gtk_container_remove, and update_group_widgets before it.
RemoveRows(v, rows) ==
    LET w == FilterGroups([v EXCEPT !.rows = @ \ rows, !.icons = @ \ rows], {r[2] : r \in rows})
        x == [w EXCEPT !.displayed = @ \ rows]
    IN  IF x.displayed = {} THEN UpdateEmpty(x, TRUE) ELSE x

RemoveFromGroupAlone(v, i, g) ==
    IF i \notin v.contacts \/ g \notin Hashed(v, i) THEN v ELSE RemoveRows(v, {<<i, g, "row">>})

\* A contact in no group is put in Ungrouped.
RemoveFromGroup(v, i, g) ==
    LET left == Hashed(v, i) \ {g}
        w == IF left = {} THEN AddToGroup(v, i, "ungrouped") ELSE v
    IN  IF i \notin v.contacts \/ g \notin Hashed(v, i) THEN v ELSE RemoveRows(w, {<<i, g, "row">>})

GroupsShown(v, i) ==
    IF ~v.showGroups THEN {"none"} ELSE IF v.groups[i] = {} THEN {"ungrouped"} ELSE v.groups[i]

\* individual_added for each of some individuals.
IndividualsAdded(v, added) ==
    LET new == added \ v.contacts
    IN  AddRows([v EXCEPT !.contacts = @ \cup new],
                UNION {{<<i, g, "row">> : g \in GroupsShown(v, i)} : i \in new})

----------------------------------------------------------------------------
(* Events: the newest at the head of the queue.  An entry is the event and *)
(* whether roster_view_id of the event is the number of this entry.        *)

RowsOf(v, i) == {<<i, g, "row">> : g \in Hashed(v, i)}

Unflash(v, i) == [v EXCEPT !.icons = @ \ (IF i \in v.contacts THEN RowsOf(v, i) ELSE {})]

RemoveEntry(v, k) ==
    LET w == [Unflash(v, EventOf[v.entries[k].event]) EXCEPT !.entries = RemoveAt(@, k)]
    IN  IF w.entries = <<>> THEN [w EXCEPT !.flash = "off"] ELSE w

FirstEntry(v, found) == IF found = {} THEN v ELSE RemoveEntry(v, Min(found))

\* empathy_roster_view_add_event as the window calls it, for each of some events.
AddEvents(v, events) ==
    LET added == SetToSeq({e \in events : EventOf[e] \in v.contacts})
        newer == [k \in 1 .. Len(added) |-> [event |-> added[k], current |-> TRUE]]
        older == [k \in 1 .. Len(v.entries) |->
                    [v.entries[k] EXCEPT !.current = @ /\ v.entries[k].event \notin events]]
    IN  [v EXCEPT !.entries = newer \o older,
                  !.flash = IF @ = "off" /\ added # <<>> THEN "icons next" ELSE @]

\* remove_all_individual_event removes one of them.
IndividualRemoved(v, i) ==
    LET quiet == FirstEntry(v, {k \in DOMAIN v.entries : EventOf[v.entries[k].event] = i})
        bare == RemoveRows(quiet, RowsOf(quiet, i))
    IN  IF i \notin v.contacts THEN v ELSE [bare EXCEPT !.contacts = @ \ {i}]

----------------------------------------------------------------------------
ViewInit ==
    /\ model = [members |-> {}, groups |-> [i \in ToSet(Contacts) |-> {}],
                online |-> [i \in ToSet(Contacts) |-> FALSE]]
    /\ view = [contacts |-> {}, rows |-> {}, headers |-> {}, collapsed |-> {}, shown |-> {},
               displayed |-> {}, icons |-> {}, entries |-> <<>>, flash |-> "off",
               showGroups |-> FALSE, showOffline |-> FALSE, empty |-> TRUE,
               search |-> "hidden", match |-> {}]
    /\ window = [page |-> "list", idles |-> 0]
    /\ pending = {} /\ past = {}

EventsUnchanged == UNCHANGED <<pending, past>>

\* The model's signals.  An individual that is new comes with its groups.
ModelAdded(i) ==
    /\ i \notin model.members
    /\ \E groups \in SUBSET ({"top"} \cup ToSet(Groups)) :
         ViewBecomes(IndividualsAdded([ViewState EXCEPT !.members = @ \cup {i},
                                                        !.groups[i] = groups], {i}))
    /\ EventsUnchanged

ModelRemoved(i) ==
    /\ i \in model.members
    /\ ViewBecomes(IndividualRemoved([ViewState EXCEPT !.members = @ \ {i}, !.groups[i] = {}], i))
    /\ EventsUnchanged

\* groups_changed_cb.  The model tells of every change of a group of the user and
\* of those who come to the top, but not of those who leave it.
GroupsChanged(i, g, member) ==
    LET v == [ViewState EXCEPT !.groups[i] = IF member THEN @ \cup {g} ELSE @ \ {g}]
    IN  /\ i \in model.members /\ member # (g \in model.groups[i]) /\ (g = "top" => member)
        /\ ViewBecomes(IF ~v.showGroups THEN v
                   ELSE IF member THEN AddToGroup(v, i, g) ELSE RemoveFromGroup(v, i, g))
        /\ EventsUnchanged

LeavesTop(i) ==
    /\ "top" \in model.groups[i]
    /\ ViewBecomes([ViewState EXCEPT !.groups[i] = @ \ {"top"}])
    /\ EventsUnchanged

\* presence_status_changed_cb of each row, which has the list box filter it again.
PresenceChanged(i) ==
    LET v == [ViewState EXCEPT !.online[i] = ~@]
    IN  /\ \E r \in view.rows : r[1] = i
        /\ ViewBecomes(FilterRows(v, {r \in v.rows : r[1] = i}))
        /\ EventsUnchanged

ShowOffline ==
    /\ ViewBecomes(Refilter([ViewState EXCEPT !.showOffline = ~@]))
    /\ EventsUnchanged

\* clear_view destroys every row and header, populate_view makes them again.
ClearView(v) ==
    LET bare == [v EXCEPT !.contacts = {}, !.rows = {}, !.headers = {}, !.collapsed = {},
                          !.shown = {}, !.displayed = {}, !.icons = {}]
    IN  IF v.rows = {} THEN bare ELSE UpdateEmpty(bare, TRUE)

ShowGroups ==
    /\ ViewBecomes(IndividualsAdded(ClearView([ViewState EXCEPT !.showGroups = ~@]), model.members))
    /\ EventsUnchanged

\* group_expanded_cb
ToggleGroup(g) ==
    LET v == [ViewState EXCEPT !.collapsed = IF g \in @ THEN @ \ {g} ELSE @ \cup {g}]
    IN  /\ g \in view.shown
        /\ ViewBecomes(FilterRows(v, {r \in v.rows : r[2] = g}))
        /\ EventsUnchanged

\* The text of the live search changes: with text it is visible, without it is not.
SearchTextChanged(visible, match) ==
    /\ visible = "hidden" => match = {}
    /\ <<visible, match>> # <<view.search, view.match>>
    /\ ViewBecomes(Refilter([ViewState EXCEPT !.search = visible, !.match = match]))
    /\ EventsUnchanged

\* roster_window_event_added_cb and roster_window_event_removed_cb
EventAdded(e) ==
    /\ e \notin pending \cup past /\ Len(view.entries) < MaxEntries
    /\ pending' = pending \cup {e} /\ past' = past
    /\ ViewBecomes(AddEvents(ViewState, {e}))

EventRemoved(e) ==
    /\ e \in pending
    /\ pending' = pending \ {e} /\ past' = past \cup {e}
    /\ ViewBecomes(FirstEntry(ViewState,
         {k \in DOMAIN view.entries : view.entries[k].event = e /\ view.entries[k].current}))

\* roster_window_load_events_idle_cb: every event the manager holds is added,
\* those that are there already as well.
LoadEvents ==
    /\ window.idles > 0 /\ Len(view.entries) + Cardinality(pending) <= MaxEntries
    /\ ViewBecomes(AddEvents([ViewState EXCEPT !.idles = @ - 1], pending))
    /\ EventsUnchanged

\* flash_cb, every half second.
Flash ==
    LET named == {EventOf[n.event] : n \in ToSet(view.entries)} \cap view.contacts
        rows == UNION {RowsOf(ViewState, i) : i \in named}
    IN  /\ view.flash # "off"
        /\ view' = IF view.flash = "icons next"
                   THEN [view EXCEPT !.icons = @ \cup rows, !.flash = "no icons next"]
                   ELSE [view EXCEPT !.icons = @ \ rows, !.flash = "icons next"]
        /\ UNCHANGED <<model, window, pending, past>>

ViewStep ==
    \/ \E i \in ToSet(Contacts) :
         \/ ModelAdded(i) \/ ModelRemoved(i) \/ LeavesTop(i) \/ PresenceChanged(i)
         \/ \E g \in {"top"} \cup ToSet(Groups), member \in BOOLEAN : GroupsChanged(i, g, member)
    \/ ShowOffline \/ ShowGroups \/ LoadEvents \/ Flash
    \/ \E g \in ToSet(AllGroups) : ToggleGroup(g)
    \/ \E visible \in {"hidden", "text"}, match \in SUBSET ToSet(Contacts) :
         SearchTextChanged(visible, match)
    \/ \E e \in Events : EventAdded(e) \/ EventRemoved(e)

ViewNext == ViewStep /\ window'.idles <= MaxIdles

ViewSpec == ViewInit /\ [][ViewNext]_viewVars

----------------------------------------------------------------------------
\* What is displayed is what the filter says now, and "empty" says whether anything
\* is.  Not claimed, without groups, of those who are offline: they are displayed when
\* they are at the top, and a change of that sorts the box again and does not filter it.
FilterIsUpToDate ==
    /\ \A r \in view.rows :
         view.showGroups \/ Searching(ViewState) \/ view.showOffline \/ model.online[r[1]]
           => (r \in view.displayed <=> Passes(ViewState, r))
    /\ view.empty <=> view.displayed = {}

\* Nobody is lost, whatever groups they leave and join and however the list is laid
\* out: each individual of the model has a row in each of its groups, and no row is
\* displayed without the header of its group above it, or against the filter.  The
\* timer that makes them flash runs while the queue of events has an entry and no
\* longer, and no row keeps the icon of an event when the queue has none for it.
RowsFollowTheModel ==
    /\ view.contacts = model.members
    /\ \A i \in view.contacts :
         LET rows == Hashed(ViewState, i)
         IN  IF view.showGroups
             THEN rows # {} /\ rows \cap ToSet(Groups) = model.groups[i] \cap ToSet(Groups)
             ELSE rows = {"none"}
    /\ view.showGroups => {r[2] : r \in {q \in view.displayed : q[3] = "row"}} \subseteq view.shown
    /\ FilterIsUpToDate
    /\ view.flash = "off" <=> view.entries = <<>>
    /\ \A r \in view.icons : r[3] = "row" => \E n \in ToSet(view.entries) : EventOf[n.event] = r[1]

\* child_activated, "Activate the oldest event associated with this contact": the
\* oldest entry of a contact is an event that is still there to be activated.
OldestIsPending ==
    \A k \in 1 .. Len(view.entries) :
        LET i == EventOf[view.entries[k].event]
            older == {j \in k + 1 .. Len(view.entries) : EventOf[view.entries[j].event] = i}
        IN  older = {} => view.entries[k].event \in pending
=============================================================================
