----------------------------- MODULE MCContactList -----------------------------
(* The three modules of the contact list, and the window of the previous
   conversations, side by side.  Each is explored while the others rest, and each
   part bounds what may happen in it. *)
EXTENDS RosterModel, RosterView, RosterWindow, LogWindow

VARIABLE part

MCIdOf == [i \in Individuals |-> IF i = "b" THEN "y" ELSE "x"]
MCContacts == <<"a", "b">>
MCGroups == <<"g">>
MCEventOf == [e \in Events |-> IF e = "e2" THEN "b" ELSE "a"]

(* A contact of each account; one has talked on two days, first in a call. *)
MCAccountOf == [e \in Entities |-> IF e = "x" THEN "A" ELSE "B"]
MCCallLogs == {<<"x", 1>>}
MCLogs == {<<"x", 1>>, <<"x", 2>>, <<"y", 1>>}

MCInit ==
    /\ RosterInit /\ ViewInit /\ WindowInit
    /\ part \in {"popularity", "favourites", "contacts", "one row", "two rows", "search",
                 "events", "accounts", "logs"}
    /\ LogsInit /\ IF part = "logs" THEN logs = MCLogs ELSE logs = MCCallLogs
    /\ IF part = "accounts" THEN \A a \in Accounts : account[a].paid = (a = "paid")
       ELSE \A a \in Accounts : ~account[a].valid /\ ~account[a].enabled /\ ~account[a].paid

Kept(detail) == \A i \in Individuals : folks[i].known /\ folks'[i].known => folks'[i][detail] = folks[i][detail]
Only(detail, value) == \A i \in Individuals : folks'[i].known => folks'[i][detail] = value

ModelPart ==
    /\ part \in {"popularity", "favourites", "contacts"}
    /\ RosterNext
    /\ \/ part = "popularity" /\ Only("contact", TRUE) /\ Only("groups", {}) /\ Only("favourite", FALSE)
       \/ part = "favourites" /\ Only("contact", TRUE) /\ Only("groups", {}) /\ Kept("popularity")
       \/ part = "contacts" /\ Only("favourite", FALSE) /\ Kept("popularity") /\ ~folks'["a2"].known
    /\ manager'.loaded => part = "contacts"

NoTop == \A i \in {"a", "b"} : "top" \notin model'.groups[i]

ViewPart ==
    /\ part \in {"one row", "two rows", "search", "events"}
    /\ ViewNext
    /\ \/ part = "one row" /\ "b" \notin model'.members
       \/ part = "two rows" /\ view'.search = "hidden" /\ ~view'.showOffline /\ "top" \notin model'.groups["b"]
            /\ view'.collapsed = {}
       \/ part = "search" /\ ~view'.showOffline /\ NoTop /\ view'.collapsed = {}
       \/ part = "events" /\ NoTop /\ view'.search = "hidden" /\ ~view'.showOffline
            /\ view'.collapsed = {} /\ \A i \in {"a", "b"} : model'.groups[i] = {}
    /\ part = "events" \/ pending' = {}

MCNext ==
    /\ \/ ModelPart /\ UNCHANGED <<viewVars, windowVars, logVars>>
       \/ ViewPart /\ UNCHANGED <<rosterVars, windowVars, logVars>>
       \/ /\ part = "accounts" /\ WindowNext /\ account'["free"].status = "off"
          /\ UNCHANGED <<rosterVars, viewVars, logVars>>
       \/ part = "logs" /\ LogsNext /\ UNCHANGED <<rosterVars, viewVars, windowVars>>
    /\ UNCHANGED part

MCSpec == MCInit /\ [][MCNext]_<<rosterVars, viewVars, windowVars, logVars, part>> /\ LogsFairness
=============================================================================
