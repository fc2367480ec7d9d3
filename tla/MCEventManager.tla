--------------------------- MODULE MCEventManager ---------------------------
(* An instance of EventManager for TLC.  A single operation may carry every *)
(* kind of channel, alone and with others, and some of them while a contact *)
(* comes and goes; two operations are explored without contacts, for calls  *)
(* and StreamedMedia channels (counted down but never up).                  *)
EXTENDS EventManager

Channel(type, invalidated) == [type |-> type, invalidated |-> invalidated]
Single(type) == <<Channel(type, FALSE)>>

MCBundles ==
  {Single(t) : t \in TextTypes \union MediaTypes}
    \union {<<Channel("text", FALSE), Channel("call", FALSE)>>,
            <<Channel("ft", TRUE), Channel("text", FALSE)>>,
            <<Channel("call", TRUE)>>}

PairTypes == {"call", "streamed-media"}

(* With the contact: one type of each shape of event (a list of messages, a *)
(* call that rings, a refusal with and without a dialog).                   *)
BesideContact == {"text", "call", "invite", "ft"}

First == CHOOSE c \in CDO : TRUE
Seen == {c \in CDO : cdo[c] # "unseen"}
NoContact ==
  /\ \A k \in Contact : contacts[k] = [known |-> FALSE, ask |-> FALSE, online |-> FALSE]
  /\ \A i \in Positions : events[i].contact = NoApproval

(* What the exploration is bounded to; operations are interchangeable, so   *)
(* that the first one can be fixed.                                         *)
Only(types) == \A c \in Seen : approvals[c] = NoApproval \/ approvals[c].type \in types

MCBound ==
  /\ Seen \subseteq {First} \/ First \in Seen
  /\ \/ Cardinality(Seen) <= 1 /\ (NoContact \/ Only(BesideContact))
     \/ NoContact /\ Only(PairTypes)

MCSpec == Init /\ [][Next /\ MCBound']_vars /\ Fairness
=============================================================================
