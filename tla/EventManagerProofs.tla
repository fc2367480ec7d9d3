------------------------ MODULE EventManagerProofs ------------------------
(***************************************************************************)
(* For any set of dispatch operations, any contacts and any bound on the   *)
(* event list: types are kept, no event outlives its approval, no approval *)
(* has two events, the phone rings for the calls that are counted, and an  *)
(* event only goes with its operation.                                     *)
(***************************************************************************)
EXTENDS EventManager, ListFacts, FiniteSetTheorems, TLAPS

-----------------------------------------------------------------------------
(* The inductive invariant. *)

Approvable == {"chat", "call", "transfer", "invitation", "auth"}

(* Events of channels point to an approval, the others to none; and the      *)
(* event of a chat points to the approval of a 1-1 text channel.             *)
EventsMatch ==
  \A i \in Positions :
    /\ events[i].type \in Approvable <=> events[i].approval \in CDO
    /\ events[i].type = "chat" => approvals[events[i].approval].type = "text"

UnseenIsUnapproved == \A c \in CDO : cdo[c] = "unseen" => ~IsApproved(c)

Structure == EventsHaveLiveApproval /\ OneEventPerApproval /\ EventsMatch

IInv == TypeOK /\ UnseenIsUnapproved /\ Structure

(* Positions of a list, and that ids are typed: used everywhere. *)
LEMMA EventsTyped ==
  ASSUME TypeOK
  PROVE  /\ events \in Seq(EventType) /\ Len(events) \in Nat
         /\ \A i \in Positions : /\ events[i] \in EventType
                                 /\ events[i].id \in 1..MaxEvents
                                 /\ events[i].approval \in CDO \union {NoApproval}
<1>1. events \in Seq(EventType) /\ Len(events) \in Nat
  BY DEF TypeOK
<1>2. \A i \in Positions : events[i] \in EventType
  BY <1>1 DEF Positions
<1> QED BY <1>1, <1>2 DEF EventType

(* A list shorter than MaxEvents leaves an id free. *)
LEMMA FreshIdType ==
  ASSUME TypeOK, Len(events) < MaxEvents
  PROVE  FreshId \in 1..MaxEvents /\ \A i \in Positions : events[i].id # FreshId
<1> DEFINE ids == {events[i].id : i \in Positions}
<1>1. IsFiniteSet(Positions) /\ Cardinality(Positions) = Len(events)
  <2>1. Len(events) \in Nat
    BY DEF TypeOK
  <2>2. /\ IsFiniteSet(1..Len(events))
        /\ Cardinality(1..Len(events)) =
             IF 1 > Len(events) THEN 0 ELSE Len(events) - 1 + 1
    BY <2>1, FS_Interval
  <2> QED BY <2>1, <2>2 DEF Positions
<1>2. IsFiniteSet(ids) /\ Cardinality(ids) <= Len(events)
  <2> DEFINE f == [i \in Positions |-> events[i].id]
  <2>1. f \in Surjection(Positions, ids)
    BY DEF Surjection
  <2> QED BY <1>1, <2>1, FS_Surjection
<1>3. IsFiniteSet(1..MaxEvents) /\ Cardinality(1..MaxEvents) = MaxEvents
  BY FS_Interval, MaxEventsAssumption
<1>4. ~(1..MaxEvents \subseteq ids)
  <2>1. SUFFICES ASSUME 1..MaxEvents \subseteq ids PROVE FALSE
    OBVIOUS
  <2>2. MaxEvents <= Cardinality(ids)
    <3>1. 1..MaxEvents \in SUBSET ids
      BY <2>1
    <3>2. Cardinality(1..MaxEvents) <= Cardinality(ids)
      BY <1>2, <3>1, FS_Subset
    <3> QED BY <1>3, <3>2
  <2>3. Cardinality(ids) \in Nat /\ Len(events) \in Nat
    BY <1>2, FS_CardinalityType DEF TypeOK
  <2> QED BY <1>2, <2>2, <2>3, MaxEventsAssumption
<1> QED BY <1>4 DEF FreshId

(* The approvals that the events other than the one at a position point to   *)
(* stay, with their type.                                                    *)
KeptExcept(k) == \A i \in Positions \ {k} : events[i].approval # NoApproval =>
  /\ approvals'[events[i].approval] # NoApproval
  /\ approvals'[events[i].approval].type = approvals[events[i].approval].type

LEMMA KeepStructure ==
  ASSUME TypeOK, Structure, UNCHANGED events, KeptExcept(0)
  PROVE  Structure'
<1>1. Positions' = Positions /\ Positions \ {0} = Positions
  BY EventsTyped DEF Positions
<1>2. EventsHaveLiveApproval'
  BY <1>1 DEF EventsHaveLiveApproval, KeptExcept, IsApproved, Structure
<1>3. OneEventPerApproval'
  BY <1>1 DEF OneEventPerApproval, Structure
<1>4. EventsMatch'
  BY <1>1, EventsTyped, NoApprovalAssumption DEF Approvable, EventsMatch, Structure, KeptExcept
<1> QED BY <1>2, <1>3, <1>4 DEF Structure

LEMMA RemoveStructure ==
  ASSUME TypeOK, Structure, NEW k \in Positions, RemoveEventAt(k), KeptExcept(k)
  PROVE  Structure'
<1>1. /\ Positions' = 1..(Len(events) - 1)
      /\ \A j \in Positions' :
           events'[j] = IF j < k THEN events[j] ELSE events[j + 1]
  BY EventsTyped, RemoveAtShape DEF RemoveEventAt, Positions
<1> DEFINE old(j) == IF j < k THEN j ELSE j + 1
<1>2. \A j \in Positions' : /\ old(j) \in Positions \ {k}
                            /\ events'[j] = events[old(j)]
  BY <1>1, EventsTyped DEF Positions
<1>3. \A i, j \in Positions' : old(i) = old(j) => i = j
  BY <1>1, EventsTyped DEF Positions
<1> HIDE DEF old
<1>4. EventsHaveLiveApproval'
  BY <1>2 DEF EventsHaveLiveApproval, KeptExcept, IsApproved, Structure
<1>5. OneEventPerApproval'
  BY <1>2, <1>3 DEF OneEventPerApproval, Structure
<1>6. EventsMatch'
  BY <1>2, EventsTyped, NoApprovalAssumption DEF Approvable, EventsMatch, Structure, KeptExcept
<1> QED BY <1>4, <1>5, <1>6 DEF Structure

LEMMA AddStructure ==
  ASSUME TypeOK, Structure, KeptExcept(0), NEW type \in EventTypes,
         NEW c \in CDO \union {NoApproval}, NEW k \in Contact \union {NoApproval},
         type \in Approvable <=> c \in CDO,
         AddEvent(type, c, k),
         c \in CDO => EventsOf(c) = {} /\ approvals'[c] # NoApproval,
         type = "chat" => approvals'[c].type = "text"
  PROVE  Structure'
<1>1. CASE UNCHANGED events
  BY <1>1, KeepStructure
<1>2. CASE events' = <<NewEvent(type, c, k)>> \o events
  <2> DEFINE e == NewEvent(type, c, k)
  <2>1. e.type = type /\ e.approval = c /\ e \in EventType
    <3>1. FreshId \in 1..MaxEvents
      BY FreshIdType DEF AddEvent
    <3> QED BY <3>1 DEF NewEvent, EventType, TypeOK
  <2> HIDE DEF e
  <2>2. /\ 1 \in Positions' /\ Positions' = 1..(Len(events) + 1)
        /\ events'[1] = e
        /\ \A j \in Positions' \ {1} : j - 1 \in Positions /\ events'[j] = events[j - 1]
    BY <1>2, <2>1, EventsTyped, PrependShape DEF Positions, e
  <2>3. \A i \in Positions : c \in CDO => events[i].approval # c
    BY DEF EventsOf
  <2>4. EventsHaveLiveApproval'
    <3>1. \A i \in Positions : i \in Positions \ {0}
      BY EventsTyped DEF Positions
    <3> QED BY <2>1, <2>2, <3>1
      DEF EventsHaveLiveApproval, KeptExcept, IsApproved, Structure
  <2>5. OneEventPerApproval'
    <3>1. \A i, j \in Positions' \ {1} : i - 1 = j - 1 => i = j
      BY <2>2, EventsTyped
    <3>2. c # NoApproval => c \in CDO
      OBVIOUS
    <3>3. SUFFICES ASSUME NEW i \in Positions', NEW j \in Positions',
                          events'[i].approval = events'[j].approval,
                          events'[i].approval # NoApproval
                   PROVE  i = j
      BY DEF OneEventPerApproval
    <3>4. CASE i # 1 /\ j # 1
      BY <2>2, <3>1, <3>3, <3>4 DEF OneEventPerApproval, Structure
    <3>5. CASE i = 1 \/ j = 1
      BY <2>1, <2>2, <2>3, <3>2, <3>3, <3>5
    <3> QED BY <3>4, <3>5
  <2>6. EventsMatch'
    <3>1. \A i \in Positions : i \in Positions \ {0}
      BY EventsTyped DEF Positions
    <3> QED BY <2>1, <2>2, <3>1, NoApprovalAssumption
      DEF Approvable, EventsMatch, Structure, KeptExcept
  <2> QED BY <2>4, <2>5, <2>6 DEF Structure
<1> QED BY <1>1, <1>2 DEF AddEvent

-----------------------------------------------------------------------------
(* The types of what the helpers produce. *)

LEMMA NoEventsType ==
  ASSUME TypeOK, NoEvents
  PROVE  events' \in Seq(EventType) /\ signals' \in Seq(SignalType)
  BY DEF TypeOK, NoEvents

LEMMA AddEventType ==
  ASSUME TypeOK, NEW type \in EventTypes, NEW c \in CDO \union {NoApproval},
         NEW k \in Contact \union {NoApproval}, AddEvent(type, c, k)
  PROVE  events' \in Seq(EventType) /\ signals' \in Seq(SignalType)
<1>1. FreshId \in 1..MaxEvents
  BY FreshIdType DEF AddEvent
<1>2. NewEvent(type, c, k) \in EventType /\ NewEvent(type, c, k).id \in 1..MaxEvents
  BY <1>1 DEF NewEvent, EventType, TypeOK
<1> DEFINE e == NewEvent(type, c, k)
<1>3. events' \in Seq(EventType)
  <2>1. events' = events \/ events' = <<e>> \o events
    BY DEF AddEvent
  <2> QED BY ZenonT(60), <1>2, <2>1, EventsTyped, PrependShape
<1>4. /\ Signal("added", NewEvent(type, c, k).id) \in SignalType
      /\ Signal("removed", NewEvent(type, c, k).id) \in SignalType
  BY <1>2 DEF Signal, SignalType
<1>5. signals' \in Seq(SignalType)
  <2>1. \/ signals' = <<Signal("added", e.id)>>
        \/ signals' = <<Signal("removed", e.id)>>
        \/ signals' = <<>>
    BY DEF AddEvent
  <2>2. \A x \in SignalType : <<x>> \in Seq(SignalType)
    OBVIOUS
  <2>3. <<>> \in Seq(SignalType)
    OBVIOUS
  <2> QED BY <1>4, <2>1, <2>2, <2>3, Zenon
<1> QED BY <1>3, <1>5

LEMMA RemoveEventType ==
  ASSUME TypeOK, NEW i \in Positions, RemoveEventAt(i)
  PROVE  events' \in Seq(EventType) /\ signals' \in Seq(SignalType)
<1>1. events' \in Seq(EventType)
  BY EventsTyped, RemoveAtShape DEF RemoveEventAt, Positions
<1>2. Signal("removed", events[i].id) \in SignalType
  BY EventsTyped DEF Signal, SignalType
<1> QED BY <1>1, <1>2 DEF RemoveEventAt

LEMMA AnnouncedType ==
  ASSUME TypeOK, NEW type, NEW a \in ApprovalType
  PROVE  Announced(type, a) \in ApprovalType /\ Announced(type, a).type = a.type
<1>1. display \in BOOLEAN
  BY DEF TypeOK
<1> QED BY <1>1 DEF Announced, ApprovalType

LEMMA SendType ==
  ASSUME TypeOK, NEW new \in SUBSET (CDO \X RequestOps), Send(new)
  PROVE  requests' \subseteq CDO \X RequestOps
  BY DEF TypeOK, Send

LEMMA RequestsType ==
  ASSUME NEW c \in CDO
  PROVE  /\ ApproveRequest(c) \in SUBSET (CDO \X RequestOps)
         /\ RejectRequest(c) \in SUBSET (CDO \X RequestOps)
         /\ \A t : AnnounceRequests(t, c) \in SUBSET (CDO \X RequestOps)
         /\ \A op \in RequestOps : {<<c, op>>} \in SUBSET (CDO \X RequestOps)
  BY DEF ApproveRequest, RejectRequest, AnnounceRequests, RequestOps, HandleOps

(* A new approval is typed, and registering it disturbs no other. *)
LEMMA NewApprovalType ==
  ASSUME NEW type \in TextTypes \union MediaTypes
  PROVE  /\ NewApproval(type) \in ApprovalType /\ NewApproval(type).type = type
         /\ NewApproval(type) # NoApproval
<1>1. NewApproval(type) \in ApprovalType /\ NewApproval(type).type = type
  BY DEF NewApproval, ApprovalType
<1> QED BY <1>1, NoApprovalAssumption

(* An approval set for an operation that was unseen: no event pointed to it. *)
LEMMA OfferKeeps ==
  ASSUME IInv, NEW c \in CDO, cdo[c] = "unseen", NEW a \in ApprovalType,
         approvals' = [approvals EXCEPT ![c] = a]
  PROVE  /\ KeptExcept(0) /\ EventsOf(c) = {}
         /\ approvals' \in [CDO -> ApprovalType \union {NoApproval}]
         /\ approvals'[c] = a /\ a # NoApproval
<1>1. ~IsApproved(c)
  BY DEF IInv, UnseenIsUnapproved
<1>2. \A i \in Positions : events[i].approval # c
  BY <1>1, NoApprovalAssumption DEF IInv, Structure, EventsHaveLiveApproval
<1>3. EventsOf(c) = {}
  BY <1>2 DEF EventsOf
<1>4. approvals' \in [CDO -> ApprovalType \union {NoApproval}] /\ approvals'[c] = a
  BY DEF IInv, TypeOK
<1>5. a # NoApproval
  BY NoApprovalAssumption
<1>6. KeptExcept(0)
  BY <1>2, EventsTyped DEF KeptExcept, IInv, TypeOK, Structure,
     EventsHaveLiveApproval, IsApproved
<1> QED BY <1>3, <1>4, <1>5, <1>6

-----------------------------------------------------------------------------
(* The steps. *)

(* What is left to show of a step that adds no event and keeps the approvals *)
(* that events point to.                                                     *)
LEMMA QuietStep ==
  ASSUME IInv, UNCHANGED events, UNCHANGED approvals
  PROVE  Structure'
<1>1. KeptExcept(0)
  BY DEF KeptExcept, IInv, Structure, EventsHaveLiveApproval, IsApproved
<1> QED BY <1>1, KeepStructure DEF IInv

LEMMA OfferStep ==
  ASSUME IInv, NEW c \in CDO, ApproveChannels(c)
  PROVE  IInv'
<1>1. PICK b \in Bundles :
        LET type == FindMainChannel(b) IN
          \/ OfferUnknown(c, type) \/ OfferInvalid(c, type)
          \/ OfferMuc(c, type)     \/ OfferAnnounced(c, type)
          \/ OfferText(c, type)    \/ OfferCall(c, type)
          \/ OfferEndedCall(c, type)
  BY DEF ApproveChannels
<1> DEFINE type == FindMainChannel(b)
<1> HIDE DEF type
<1>2. TypeOK /\ Structure
  BY DEF IInv
(* Every branch: the operation is offered, and its approval is new. *)
<1>3. ASSUME OfferOnly(c), \/ UNCHANGED approvals
                          \/ \E a \in ApprovalType : approvals' = [approvals EXCEPT ![c] = a]
      PROVE  /\ UnseenIsUnapproved'
             /\ cdo' \in [CDO -> {"unseen", "offered", "finished"}]
             /\ approvals' \in [CDO -> ApprovalType \union {NoApproval}]
             /\ UNCHANGED <<contacts, display>>
             /\ cdo[c] = "unseen"
  BY <1>3 DEF OfferOnly, IInv, TypeOK, UnseenIsUnapproved, IsApproved
<1>4. CASE OfferUnknown(c, type)
  <2>1. OfferOnly(c) /\ UNCHANGED approvals /\ NoEvents
    BY <1>4 DEF OfferUnknown
  <2>2. Structure'
    BY <2>1, QuietStep DEF NoEvents
  <2>3. TypeOK'
    BY <1>2, <1>3, <1>4, <2>1, NoEventsType DEF OfferUnknown, TypeOK, ringVars
  <2> QED BY <1>3, <2>1, <2>2, <2>3 DEF IInv
<1>5. CASE OfferInvalid(c, type)
  <2>1. type \in TextTypes \union MediaTypes
    BY <1>5 DEF OfferInvalid, MediaTypes
  <2>2. OfferOnly(c) /\ NoEvents /\ approvals' = [approvals EXCEPT ![c] = NewApproval(type)]
    BY <1>5 DEF OfferInvalid, Register
  <2>3. Structure'
    BY <1>2, <1>3, <2>1, <2>2, NewApprovalType, OfferKeeps, KeepStructure DEF NoEvents
  <2>4. TypeOK'
    BY <1>2, <1>3, <1>5, <2>1, <2>2, NewApprovalType, NoEventsType
    DEF OfferInvalid, TypeOK, ringVars
  <2> QED BY <1>3, <2>1, <2>2, <2>3, <2>4, NewApprovalType DEF IInv
<1>6. CASE OfferMuc(c, type)
  <2> DEFINE a == [NewApproval(type) EXCEPT !.auto = TRUE]
  <2>1. a \in ApprovalType
    BY <1>6 DEF OfferMuc, NewApproval, ApprovalType, TextTypes
  <2>2. /\ OfferOnly(c) /\ NoEvents /\ approvals' = [approvals EXCEPT ![c] = a]
        /\ Send({<<c, "handle-auto">>})
    BY <1>6 DEF OfferMuc
  <2> HIDE DEF a
  <2>3. Structure'
    BY <1>2, <1>3, <2>1, <2>2, OfferKeeps, KeepStructure DEF NoEvents
  <2>4. requests' \subseteq CDO \X RequestOps
    BY <1>2, <2>2, RequestsType, SendType DEF RequestOps, HandleOps
  <2>5. TypeOK'
    BY <1>2, <1>3, <1>6, <2>1, <2>2, <2>4, NoEventsType DEF OfferMuc, TypeOK, ringVars
  <2> QED BY <1>3, <2>1, <2>2, <2>3, <2>5 DEF IInv
<1>7. CASE OfferAnnounced(c, type)
  <2> DEFINE et == EventTypeOf(type)
             a == Announced(et, NewApproval(type))
  <2>1. type \in TextTypes \union MediaTypes
    BY <1>7 DEF OfferAnnounced, MediaTypes, TextTypes
  <2>2. et \in EventTypes /\ et \in Approvable /\ et # "chat"
    BY <1>7 DEF OfferAnnounced, EventTypeOf, EventTypes, Approvable
  <2>3. a \in ApprovalType
    BY <1>2, <2>1, NewApprovalType, AnnouncedType
  <2>4. /\ OfferOnly(c) /\ AddEvent(et, c, NoApproval)
        /\ approvals' = [approvals EXCEPT ![c] = a] /\ Send(AnnounceRequests(et, c))
        /\ UNCHANGED <<chan, callEnded, ringVars>>
    BY <1>7 DEF OfferAnnounced
  <2> HIDE DEF a, et
  <2>5. Structure'
    BY <1>2, <1>3, <2>2, <2>3, <2>4, OfferKeeps, AddStructure
  <2>6. requests' \subseteq CDO \X RequestOps
    BY <1>2, <2>4, RequestsType, SendType
  <2>7. events' \in Seq(EventType) /\ signals' \in Seq(SignalType)
    BY <1>2, <2>2, <2>4, AddEventType
  <2>8. TypeOK'
    BY <1>2, <1>3, <2>3, <2>4, <2>6, <2>7 DEF TypeOK, ringVars
  <2> QED BY <1>3, <2>3, <2>4, <2>5, <2>8 DEF IInv
<1>8. CASE OfferText(c, type)
  <2> DEFINE listening == [NewApproval(type) EXCEPT !.handler = TRUE]
             a == Announced("chat", listening)
  <2>1. listening \in ApprovalType /\ listening.type = "text"
    BY <1>8 DEF OfferText, NewApproval, ApprovalType, TextTypes
  <2>2. a \in ApprovalType /\ a.type = "text"
    BY <1>2, <2>1, AnnouncedType
  <2>3. OfferOnly(c) /\ UNCHANGED <<chan, callEnded, ringVars>>
    BY <1>8 DEF OfferText
  <2>4. CASE NoEvents /\ approvals' = [approvals EXCEPT ![c] = listening] /\ UNCHANGED requests
    <3> HIDE DEF listening
    <3>1. Structure'
      BY <1>2, <1>3, <2>1, <2>3, <2>4, OfferKeeps, KeepStructure DEF NoEvents
    <3>2. TypeOK'
      BY <1>2, <1>3, <2>1, <2>3, <2>4, NoEventsType DEF TypeOK, ringVars
    <3> QED BY <1>3, <2>1, <2>3, <2>4, <3>1, <3>2 DEF IInv
  <2>5. CASE /\ AddEvent("chat", c, NoApproval)
             /\ approvals' = [approvals EXCEPT ![c] = a]
             /\ Send(AnnounceRequests("chat", c))
    <3> HIDE DEF a
    <3>1. "chat" \in EventTypes /\ "chat" \in Approvable
      BY DEF EventTypes, Approvable
    <3>2. Structure'
      BY <1>2, <1>3, <2>2, <2>3, <2>5, <3>1, OfferKeeps, AddStructure
    <3>3. requests' \subseteq CDO \X RequestOps
      BY <1>2, <2>5, RequestsType, SendType
    <3>4. events' \in Seq(EventType) /\ signals' \in Seq(SignalType)
      BY <1>2, <2>5, <3>1, AddEventType
    <3>5. TypeOK'
      BY <1>2, <1>3, <2>2, <2>3, <2>5, <3>3, <3>4 DEF TypeOK, ringVars
    <3> QED BY <1>3, <2>2, <2>3, <2>5, <3>2, <3>5 DEF IInv
  <2> QED BY <1>8, <2>4, <2>5 DEF OfferText
<1>9. CASE OfferCall(c, type)
  <2> DEFINE ringer == [NewApproval(type) EXCEPT !.handler = TRUE]
             a == Announced("call", ringer)
  <2>1. ringer \in ApprovalType
    BY <1>9 DEF OfferCall, NewApproval, ApprovalType, MediaTypes
  <2>2. a \in ApprovalType
    BY <1>2, <2>1, AnnouncedType
  <2>3. /\ OfferOnly(c) /\ AddEvent("call", c, NoApproval)
        /\ approvals' = [approvals EXCEPT ![c] = a]
        /\ StartRinging /\ UNCHANGED <<chan, callEnded, requests>>
    BY <1>9 DEF OfferCall
  <2> HIDE DEF a
  <2>4. "call" \in EventTypes /\ "call" \in Approvable
    BY DEF EventTypes, Approvable
  <2>5. Structure'
    BY <1>2, <1>3, <2>2, <2>3, <2>4, OfferKeeps, AddStructure
  <2>6. events' \in Seq(EventType) /\ signals' \in Seq(SignalType)
    BY <1>2, <2>3, <2>4, AddEventType
  <2>7. ringing' \in Int /\ phone' \in BOOLEAN /\ missed' \in Nat
    BY <1>2, <2>3 DEF StartRinging, TypeOK
  <2>8. TypeOK'
    BY <1>2, <1>3, <2>2, <2>3, <2>6, <2>7 DEF TypeOK
  <2> QED BY <1>3, <2>2, <2>3, <2>5, <2>8 DEF IInv
<1>10. CASE OfferEndedCall(c, type)
  <2>1. type \in TextTypes \union MediaTypes
    BY <1>10 DEF OfferEndedCall, MediaTypes
  <2>2. /\ OfferOnly(c) /\ NoEvents
        /\ approvals' = [approvals EXCEPT ![c] = NewApproval(type)]
        /\ Send({<<c, "claim">>}) /\ UNCHANGED <<chan, callEnded, ringVars>>
    BY <1>10 DEF OfferEndedCall, Register
  <2>3. Structure'
    BY <1>2, <1>3, <2>1, <2>2, NewApprovalType, OfferKeeps, KeepStructure DEF NoEvents
  <2>4. requests' \subseteq CDO \X RequestOps
    BY <1>2, <2>2, RequestsType, SendType DEF RequestOps
  <2>5. TypeOK'
    BY <1>2, <1>3, <2>1, <2>2, <2>4, NewApprovalType, NoEventsType DEF TypeOK, ringVars
  <2> QED BY <1>3, <2>1, <2>2, <2>3, <2>5, NewApprovalType DEF IInv
<1> QED BY <1>1, <1>4, <1>5, <1>6, <1>7, <1>8, <1>9, <1>10 DEF type

(* An approval whose flags change, not its type. *)
LEMMA SameTypeKeeps ==
  ASSUME IInv, NEW c \in CDO, IsApproved(c), NEW a \in ApprovalType,
         a.type = approvals[c].type, approvals' = [approvals EXCEPT ![c] = a]
  PROVE  /\ KeptExcept(0) /\ approvals'[c] = a /\ a # NoApproval
         /\ approvals' \in [CDO -> ApprovalType \union {NoApproval}]
<1>1. a # NoApproval
  BY NoApprovalAssumption
<1>2. approvals' \in [CDO -> ApprovalType \union {NoApproval}] /\ approvals'[c] = a
  BY DEF IInv, TypeOK
<1>3. KeptExcept(0)
  BY <1>1, EventsTyped DEF KeptExcept, IInv, TypeOK, Structure,
     EventsHaveLiveApproval, IsApproved
<1> QED BY <1>1, <1>2, <1>3

LEMMA MessageStep ==
  ASSUME IInv, NEW c \in CDO, MessageReceived(c)
  PROVE  IInv'
<1>1. /\ TypeOK /\ Structure /\ IsApproved(c) /\ approvals[c].type = "text"
      /\ UNCHANGED <<cdo, chan, callEnded, ringVars, contacts, display>>
  BY DEF IInv, MessageReceived
<1>2. approvals[c] \in ApprovalType
  BY <1>1 DEF TypeOK, IsApproved
<1>3. UnseenIsUnapproved'
  BY <1>1 DEF IInv, UnseenIsUnapproved, IsApproved, MessageReceived, TypeOK
<1>4. CASE EventsOf(c) = {}
  <2> DEFINE a == Announced("chat", approvals[c])
  <2>1. a \in ApprovalType /\ a.type = "text"
    BY <1>1, <1>2, AnnouncedType
  <2>2. /\ AddEvent("chat", c, NoApproval) /\ Send(AnnounceRequests("chat", c))
        /\ approvals' = [approvals EXCEPT ![c] = a]
    BY <1>4 DEF MessageReceived
  <2> HIDE DEF a
  <2>3. "chat" \in EventTypes /\ "chat" \in Approvable
    BY DEF EventTypes, Approvable
  <2>4. Structure'
    BY <1>1, <1>4, <2>1, <2>2, <2>3, SameTypeKeeps, AddStructure
  <2>5. requests' \subseteq CDO \X RequestOps
    BY <1>1, <2>2, RequestsType, SendType
  <2>6. events' \in Seq(EventType) /\ signals' \in Seq(SignalType)
    BY <1>1, <2>2, <2>3, AddEventType
  <2>7. TypeOK'
    BY <1>1, <2>1, <2>2, <2>5, <2>6, SameTypeKeeps DEF TypeOK, ringVars
  <2> QED BY <1>3, <2>4, <2>7 DEF IInv
<1>5. CASE EventsOf(c) # {}
  <2>1. UNCHANGED <<events, approvals, requests>>
    BY <1>5 DEF MessageReceived
  <2>2. PICK i \in EventsOf(c) : signals' = <<Signal("updated", events[i].id)>>
    BY <1>5 DEF MessageReceived
  <2>3. Signal("updated", events[i].id) \in SignalType
    BY <1>1, EventsTyped DEF EventsOf, Signal, SignalType
  <2>4. TypeOK'
    BY <1>1, <2>1, <2>2, <2>3 DEF TypeOK, ringVars
  <2> QED BY <1>3, <2>1, <2>4, QuietStep DEF IInv
<1> QED BY <1>4, <1>5

LEMMA InvalidatedStep ==
  ASSUME IInv, NEW c \in CDO, CdoInvalidated(c)
  PROVE  IInv'
<1>1. /\ TypeOK /\ Structure /\ cdo[c] = "finished"
      /\ approvals' = [approvals EXCEPT ![c] = NoApproval]
      /\ UNCHANGED <<worldVars, contacts, display>>
  BY DEF IInv, CdoInvalidated
<1>2. UnseenIsUnapproved'
  BY <1>1 DEF IInv, UnseenIsUnapproved, IsApproved, worldVars, TypeOK
<1>3. ringing' \in Int /\ phone' \in BOOLEAN /\ missed' \in Nat
  <2>1. StopRinging(c)
    BY DEF CdoInvalidated
  <2>2. ringing \in Int /\ phone \in BOOLEAN /\ missed \in Nat
    BY <1>1 DEF TypeOK
  <2>3. ringing' \in Int /\ missed' \in Nat
    BY <2>1, <2>2 DEF StopRinging, ringVars
  <2>4. phone' = phone \/ phone' = (phone /\ ringing' # 0)
    BY <2>1 DEF StopRinging, ringVars
  <2>5. phone' \in BOOLEAN
    BY <2>2, <2>4, Zenon
  <2> QED BY <2>3, <2>5
<1>4. CASE EventsOf(c) = {}
  <2>1. NoEvents
    BY <1>4 DEF CdoInvalidated
  <2>2. \A i \in Positions : events[i].approval # c
    BY <1>4 DEF EventsOf
  <2>3. KeptExcept(0)
    BY <1>1, <2>2, EventsTyped DEF KeptExcept, TypeOK, Structure,
       EventsHaveLiveApproval, IsApproved
  <2>4. TypeOK'
    BY <1>1, <1>3, <2>1, NoEventsType DEF TypeOK, worldVars
  <2> QED BY <1>1, <1>2, <2>1, <2>3, <2>4, KeepStructure DEF IInv, NoEvents
<1>5. CASE EventsOf(c) # {}
  <2>1. PICK i \in EventsOf(c) : RemoveEventAt(i)
    BY <1>5 DEF CdoInvalidated
  <2>2. i \in Positions /\ \A j \in Positions \ {i} : events[j].approval # c
    BY <1>1, <2>1, NoApprovalAssumption DEF EventsOf, Structure, OneEventPerApproval
  <2>3. KeptExcept(i)
    BY <1>1, <2>2, EventsTyped DEF KeptExcept, TypeOK, Structure,
       EventsHaveLiveApproval, IsApproved
  <2>4. Structure'
    BY <1>1, <2>1, <2>2, <2>3, RemoveStructure
  <2>5. TypeOK'
    BY <1>1, <1>3, <2>1, <2>2, RemoveEventType DEF TypeOK, worldVars
  <2> QED BY <1>2, <2>4, <2>5 DEF IInv
<1> QED BY <1>4, <1>5

(* Removing an event for any other reason: activation, timeout, answer. *)
LEMMA RemoveStep ==
  ASSUME IInv, NEW i \in Positions, RemoveEventAt(i), UNCHANGED approvals
  PROVE  /\ Structure'
         /\ events' \in Seq(EventType) /\ signals' \in Seq(SignalType)
<1>1. KeptExcept(i)
  BY DEF KeptExcept, IInv, Structure, EventsHaveLiveApproval, IsApproved
<1> QED BY <1>1, RemoveStructure, RemoveEventType DEF IInv

LEMMA ActivateStep ==
  ASSUME IInv, NEW i \in Positions, ActivateEvent(i)
  PROVE  IInv'
<1> DEFINE e == events[i]
           c == e.approval
<1>1. /\ TypeOK /\ Structure /\ e.type \in EventTypes
      /\ UNCHANGED <<cdo, chan, callEnded, ringVars, contacts, display>>
  BY EventsTyped DEF IInv, ActivateEvent, EventType
<1>2. e.type \in Approvable => /\ c \in CDO /\ IsApproved(c)
                               /\ approvals[c] \in ApprovalType
  BY <1>1, EventsTyped, NoApprovalAssumption
  DEF Structure, EventsMatch, EventsHaveLiveApproval, IsApproved, TypeOK
<1>3. CASE e.type \in {"subscription", "online", "offline"}
  <2>1. /\ RemoveEventAt(i) /\ UNCHANGED approvals /\ Send({})
    BY <1>3 DEF ActivateEvent
  <2>2. requests' = requests
    BY <2>1 DEF Send
  <2>3. TypeOK'
    BY <1>1, <2>1, <2>2, RemoveStep DEF TypeOK, ringVars
  <2> QED BY <1>1, <2>1, <2>3, RemoveStep DEF IInv, UnseenIsUnapproved, IsApproved
<1>4. CASE e.type \in {"transfer", "auth"}
  <2>1. NoEvents /\ UNCHANGED approvals /\ Send(ApproveRequest(c)) /\ c \in CDO
    BY <1>2, <1>4 DEF ActivateEvent, Approvable
  <2>2. requests' \subseteq CDO \X RequestOps
    BY <1>1, <2>1, RequestsType, SendType
  <2>3. TypeOK'
    BY <1>1, <2>1, <2>2, NoEventsType DEF TypeOK, ringVars
  <2> QED BY <1>1, <2>1, <2>3, QuietStep DEF IInv, UnseenIsUnapproved, IsApproved, NoEvents
<1>5. CASE e.type = "chat"
  <2> DEFINE a == [approvals[c] EXCEPT !.handler = FALSE]
  <2>1. /\ c \in CDO /\ IsApproved(c) /\ approvals[c] \in ApprovalType
    BY <1>2, <1>5 DEF Approvable
  <2>2. /\ NoEvents /\ Send(ApproveRequest(c)) /\ approvals' = [approvals EXCEPT ![c] = a]
    BY <1>5 DEF ActivateEvent
  <2>3. a \in ApprovalType /\ a.type = approvals[c].type
    BY <2>1 DEF ApprovalType
  <2> HIDE DEF a, c
  <2>4. Structure'
    BY <1>1, <2>1, <2>2, <2>3, SameTypeKeeps, KeepStructure DEF NoEvents
  <2>5. requests' \subseteq CDO \X RequestOps
    BY <1>1, <2>1, <2>2, RequestsType, SendType
  <2>6. TypeOK'
    BY <1>1, <2>1, <2>2, <2>3, <2>5, NoEventsType, SameTypeKeeps DEF TypeOK, ringVars
  <2>7. UnseenIsUnapproved'
    BY <1>1, <2>1, <2>2, <2>3 DEF IInv, UnseenIsUnapproved, IsApproved, TypeOK
  <2> QED BY <2>4, <2>6, <2>7 DEF IInv
<1>6. CASE e.type \in {"call", "invitation"}
  <2> DEFINE a == [approvals[c] EXCEPT !.dialog = TRUE]
  <2>1. /\ c \in CDO /\ IsApproved(c) /\ approvals[c] \in ApprovalType
    BY <1>2, <1>6 DEF Approvable
  <2>2. /\ NoEvents /\ Send({}) /\ approvals' = [approvals EXCEPT ![c] = a]
    BY <1>6 DEF ActivateEvent
  <2>3. a \in ApprovalType /\ a.type = approvals[c].type
    BY <2>1 DEF ApprovalType
  <2> HIDE DEF a, c
  <2>4. Structure'
    BY <1>1, <2>1, <2>2, <2>3, SameTypeKeeps, KeepStructure DEF NoEvents
  <2>5. requests' = requests
    BY <2>2 DEF Send
  <2>6. TypeOK'
    BY <1>1, <2>1, <2>2, <2>3, <2>5, NoEventsType, SameTypeKeeps DEF TypeOK, ringVars
  <2>7. UnseenIsUnapproved'
    BY <1>1, <2>1, <2>2, <2>3 DEF IInv, UnseenIsUnapproved, IsApproved, TypeOK
  <2> QED BY <2>4, <2>6, <2>7 DEF IInv
<1> QED BY <1>1, <1>3, <1>4, <1>5, <1>6 DEF EventTypes

(* An answer sent to the dispatcher. *)
LEMMA SendStep ==
  ASSUME IInv, NEW new \in SUBSET (CDO \X RequestOps), Send(new), NoEvents,
         UNCHANGED <<cdo, chan, approvals, ringVars, contacts, display>>,
         callEnded' \in [CDO -> BOOLEAN]
  PROVE  IInv'
<1>1. TypeOK /\ requests' \subseteq CDO \X RequestOps
  BY SendType DEF IInv
<1>2. TypeOK'
  BY <1>1, NoEventsType DEF TypeOK, ringVars
<1> QED BY <1>2, QuietStep DEF IInv, UnseenIsUnapproved, IsApproved, NoEvents

LEMMA UserStep ==
  ASSUME IInv, UserNext
  PROVE  IInv'
<1>1. ASSUME NEW i \in Positions, events[i].approval # NoApproval, EventApprove(i)
      PROVE  IInv'
  <2>1. events[i].approval \in CDO
    BY <1>1, EventsTyped DEF IInv
  <2>2. callEnded' \in [CDO -> BOOLEAN]
    BY <1>1 DEF EventApprove, IInv, TypeOK
  <2> QED BY <1>1, <2>1, <2>2, RequestsType, SendStep DEF EventApprove
<1>2. ASSUME NEW i \in Positions,
             events[i].type \in {"call", "transfer", "invitation", "auth"},
             EventDecline(i)
      PROVE  IInv'
  <2>1. events[i].approval \in CDO
    BY <1>2 DEF IInv, Structure, EventsMatch, Approvable
  <2>2. callEnded' \in [CDO -> BOOLEAN]
    BY <1>2 DEF EventDecline, IInv, TypeOK
  <2> QED BY <1>2, <2>1, <2>2, RequestsType, SendStep DEF EventDecline
<1>3. ASSUME NEW i \in Positions, EventRemove(i)
      PROVE  IInv'
  <2>1. RemoveEventAt(i) /\ UNCHANGED <<worldVars, approvals, ringVars, contacts, display>>
    BY <1>3 DEF EventRemove
  <2>2. TypeOK'
    BY <2>1, RemoveStep DEF IInv, TypeOK, worldVars, ringVars
  <2> QED BY <2>1, <2>2, RemoveStep DEF IInv, UnseenIsUnapproved, IsApproved, worldVars
<1>4. ASSUME NEW c \in CDO, DialogResponse(c)
      PROVE  IInv'
  <2> DEFINE a == [approvals[c] EXCEPT !.dialog = FALSE]
  <2>1. IsApproved(c) /\ approvals[c] \in ApprovalType /\ TypeOK /\ Structure
    BY <1>4 DEF DialogResponse, IInv, TypeOK, IsApproved
  <2>2. /\ NoEvents /\ approvals' = [approvals EXCEPT ![c] = a]
        /\ UNCHANGED <<cdo, chan, callEnded, ringVars, contacts, display>>
        /\ Send(ApproveRequest(c)) \/ Send(RejectRequest(c))
    BY <1>4 DEF DialogResponse
  <2>3. a \in ApprovalType /\ a.type = approvals[c].type
    BY <2>1 DEF ApprovalType
  <2> HIDE DEF a
  <2>4. Structure'
    BY <2>1, <2>2, <2>3, SameTypeKeeps, KeepStructure DEF NoEvents
  <2>5. requests' \subseteq CDO \X RequestOps
    BY <2>1, <2>2, RequestsType, SendType
  <2>6. TypeOK'
    BY <2>1, <2>2, <2>3, <2>5, NoEventsType, SameTypeKeeps DEF TypeOK, ringVars
  <2>7. UnseenIsUnapproved'
    BY <2>1, <2>2, <2>3 DEF IInv, UnseenIsUnapproved, IsApproved, TypeOK
  <2> QED BY <2>4, <2>6, <2>7 DEF IInv
<1>5. CASE ToggleNotifyArea
  <2>1. TypeOK'
    BY <1>5, NoEventsType DEF ToggleNotifyArea, IInv, TypeOK, worldVars, ringVars
  <2> QED BY <1>5, <2>1, QuietStep
    DEF ToggleNotifyArea, IInv, UnseenIsUnapproved, IsApproved, NoEvents, worldVars
<1> QED BY <1>1, <1>2, <1>3, <1>4, <1>5, ActivateStep DEF UserNext

LEMMA ContactStep ==
  ASSUME IInv, ContactNext
  PROVE  IInv'
<1>1. TypeOK /\ Structure
  BY DEF IInv
(* Every branch touches contacts, events and signals only. *)
<1>2. PICK k \in Contact : \/ \E ask \in BOOLEAN : ContactAdded(k, ask)
                           \/ ContactRemoved(k) \/ PublishStateChanged(k)
                           \/ PresenceChanged(k)
  BY DEF ContactNext
<1>3. UNCHANGED <<worldVars, approvals, ringVars, display>>
  BY <1>2 DEF ContactAdded, ContactRemoved, PublishStateChanged, PresenceChanged
<1>4. contacts' \in [Contact -> [known : BOOLEAN, ask : BOOLEAN, online : BOOLEAN]]
  <2> DEFINE Row == [known : BOOLEAN, ask : BOOLEAN, online : BOOLEAN]
  <2>1. contacts \in [Contact -> Row] /\ contacts[k] \in Row
    BY <1>1, <1>2 DEF TypeOK
  <2>2. \A r \in Row, b \in BOOLEAN :
           /\ [r EXCEPT !.known = TRUE, !.ask = b] \in Row
           /\ [r EXCEPT !.known = FALSE] \in Row
           /\ [r EXCEPT !.ask = ~@] \in Row
           /\ [r EXCEPT !.online = ~@] \in Row
    OBVIOUS
  <2>3. \E r \in Row : contacts' = [contacts EXCEPT ![k] = r]
    <3>1. ASSUME NEW ask \in BOOLEAN, ContactAdded(k, ask)
          PROVE  \E r \in Row : contacts' = [contacts EXCEPT ![k] = r]
      <4>1. contacts' = [contacts EXCEPT
                           ![k] = [contacts[k] EXCEPT !.known = TRUE, !.ask = ask]]
        BY <2>1, <3>1 DEF ContactAdded
      <4>2. [contacts[k] EXCEPT !.known = TRUE, !.ask = ask] \in Row
        BY <2>1, <2>2
      <4> QED BY <4>1, <4>2
    <3>2. CASE ContactRemoved(k)
      <4>1. contacts' = [contacts EXCEPT ![k] = [contacts[k] EXCEPT !.known = FALSE]]
        BY <2>1, <3>2 DEF ContactRemoved
      <4>2. [contacts[k] EXCEPT !.known = FALSE] \in Row
        BY <2>1, <2>2
      <4> QED BY <4>1, <4>2
    <3>3. CASE PublishStateChanged(k)
      <4>1. contacts' = [contacts EXCEPT ![k] = [contacts[k] EXCEPT !.ask = ~@]]
        BY <2>1, <3>3 DEF PublishStateChanged
      <4>2. [contacts[k] EXCEPT !.ask = ~@] \in Row
        BY <2>1, <2>2
      <4> QED BY <4>1, <4>2
    <3>4. CASE PresenceChanged(k)
      <4>1. contacts' = [contacts EXCEPT ![k] = [contacts[k] EXCEPT !.online = ~@]]
        BY <2>1, <3>4 DEF PresenceChanged
      <4>2. [contacts[k] EXCEPT !.online = ~@] \in Row
        BY <2>1, <2>2
      <4> QED BY <4>1, <4>2
    <3> QED BY <1>2, <3>1, <3>2, <3>3, <3>4
  <2> QED BY <2>1, <2>3
<1>5. \/ NoEvents
      \/ \E i \in Positions : RemoveEventAt(i)
      \/ \E type \in {"subscription", "online", "offline"} : AddEvent(type, NoApproval, k)
  <2>1. ASSUME NEW ask, CheckPublishState(k, ask)
        PROVE  \/ NoEvents
               \/ \E i \in Positions : RemoveEventAt(i)
               \/ AddEvent("subscription", NoApproval, k)
    BY <2>1 DEF CheckPublishState, SubscriptionsOf
  <2> QED BY <1>2, <2>1 DEF ContactAdded, ContactRemoved, PublishStateChanged, PresenceChanged
<1>6. KeptExcept(0)
  BY <1>1, <1>3 DEF KeptExcept, Structure, EventsHaveLiveApproval, IsApproved
<1>7. Structure' /\ events' \in Seq(EventType) /\ signals' \in Seq(SignalType)
  <2>1. CASE NoEvents
    BY <1>1, <1>6, <2>1, KeepStructure, NoEventsType DEF NoEvents
  <2>2. CASE \E i \in Positions : RemoveEventAt(i)
    BY <1>3, <2>2, RemoveStep
  <2>3. ASSUME NEW type \in {"subscription", "online", "offline"},
               AddEvent(type, NoApproval, k)
        PROVE  Structure' /\ events' \in Seq(EventType) /\ signals' \in Seq(SignalType)
    <3>1. type \in EventTypes /\ type \notin Approvable /\ type # "chat"
      BY DEF EventTypes, Approvable
    <3> QED BY <1>1, <1>6, <2>3, <3>1, NoApprovalAssumption, AddStructure, AddEventType
  <2> QED BY <1>5, <2>1, <2>2, <2>3
<1>8. TypeOK'
  BY <1>1, <1>3, <1>4, <1>7 DEF TypeOK, worldVars, ringVars
<1>9. UnseenIsUnapproved'
  BY <1>3 DEF IInv, UnseenIsUnapproved, IsApproved, worldVars
<1> QED BY <1>7, <1>8, <1>9 DEF IInv

LEMMA DispatcherStep ==
  ASSUME IInv, DispatcherNext
  PROVE  IInv'
<1>1. PICK c \in CDO :
        \/ \E op \in RequestOps : \/ DispatcherAccepts(c, op) \/ DispatcherRefuses(c, op)
                                \/ HandleWithTimeNotImplemented(c, op)
        \/ RejectChannelClaimed(c) \/ FinishedElsewhere(c)
  BY DEF DispatcherNext, RequestOps
<1>2. /\ TypeOK /\ Structure /\ NoEvents
      /\ UNCHANGED <<callEnded, approvals, ringVars, contacts, display>>
  BY <1>1 DEF IInv, DispatcherAccepts, DispatcherRefuses, RejectChannelClaimed,
     HandleWithTimeNotImplemented, FinishedElsewhere
<1>3. requests' \subseteq CDO \X RequestOps
  BY <1>1, <1>2 DEF DispatcherAccepts, DispatcherRefuses, RejectChannelClaimed,
     HandleWithTimeNotImplemented, FinishedElsewhere, TypeOK, Drop, RequestOps, HandleOps
<1>4. chan' \in [CDO -> {"open", "handled", "claimed", "closed"}]
  BY <1>1, <1>2 DEF DispatcherAccepts, DispatcherRefuses, RejectChannelClaimed,
     HandleWithTimeNotImplemented, FinishedElsewhere, TypeOK
<1>5. \/ UNCHANGED cdo
      \/ cdo[c] = "offered" /\ cdo' = [cdo EXCEPT ![c] = "finished"]
  BY <1>1 DEF DispatcherAccepts, DispatcherRefuses, RejectChannelClaimed,
     HandleWithTimeNotImplemented, FinishedElsewhere
<1>6. TypeOK'
  BY <1>2, <1>3, <1>4, <1>5, NoEventsType DEF TypeOK, ringVars
<1>7. UnseenIsUnapproved'
  BY <1>2, <1>5 DEF IInv, UnseenIsUnapproved, IsApproved, TypeOK
<1> QED BY <1>2, <1>6, <1>7, QuietStep DEF IInv, NoEvents

LEMMA CallEndsStep ==
  ASSUME IInv, NEW c \in CDO, CallEnds(c)
  PROVE  IInv'
<1> DEFINE new == IF IsRinging(c) THEN {<<c, "claim">>} ELSE {}
<1>1. new \in SUBSET (CDO \X RequestOps)
  BY DEF RequestOps
<1>2. /\ Send(new) /\ NoEvents
      /\ UNCHANGED <<cdo, chan, approvals, ringVars, contacts, display>>
      /\ callEnded' \in [CDO -> BOOLEAN]
  BY DEF CallEnds, IInv, TypeOK
<1> QED BY <1>1, <1>2, SendStep

LEMMA TimeoutStep ==
  ASSUME IInv, NEW id \in 1..MaxEvents, AutoremoveTimeout(id)
  PROVE  IInv'
<1>1. PICK i \in Positions :
        RemoveEventAt(i) /\ UNCHANGED <<worldVars, approvals, ringVars, contacts, display>>
  BY DEF AutoremoveTimeout
<1>2. TypeOK'
  BY <1>1, RemoveStep DEF IInv, TypeOK, worldVars, ringVars
<1> QED BY <1>1, <1>2, RemoveStep DEF IInv, UnseenIsUnapproved, IsApproved, worldVars

LEMMA InitIInv == Init => IInv
<1> SUFFICES ASSUME Init PROVE IInv
  OBVIOUS
<1>1. Positions = {}
  BY DEF Init, Positions
<1>2. TypeOK
  <2>1. events \in Seq(EventType) /\ signals \in Seq(SignalType)
    BY DEF Init
  <2>2. requests \subseteq CDO \X RequestOps
    BY DEF Init
  <2>3. contacts \in [Contact -> [known : BOOLEAN, ask : BOOLEAN, online : BOOLEAN]]
    BY DEF Init
  <2>4. /\ cdo \in [CDO -> {"unseen", "offered", "finished"}]
        /\ chan \in [CDO -> {"open", "handled", "claimed", "closed"}]
        /\ callEnded \in [CDO -> BOOLEAN]
        /\ approvals \in [CDO -> ApprovalType \union {NoApproval}]
    BY DEF Init
  <2>5. ringing \in Int /\ missed \in Nat
    BY DEF Init
  <2>6. phone \in BOOLEAN /\ display \in BOOLEAN
    BY Zenon DEF Init
  <2> QED BY <2>1, <2>2, <2>3, <2>4, <2>5, <2>6 DEF TypeOK
<1> QED BY <1>1, <1>2 DEF Init, IInv, UnseenIsUnapproved, IsApproved, Structure,
     EventsHaveLiveApproval, OneEventPerApproval, EventsMatch

LEMMA StepIInv == IInv /\ [Next]_vars => IInv'
<1> SUFFICES ASSUME IInv, [Next]_vars PROVE IInv'
  OBVIOUS
<1>1. CASE UNCHANGED vars
  <2>1. TypeOK'
    BY <1>1 DEF IInv, TypeOK, vars
  <2> QED BY <1>1, <2>1, QuietStep DEF IInv, UnseenIsUnapproved, IsApproved, vars
<1>2. CASE Next
  BY <1>2, UserStep, ContactStep, DispatcherStep, OfferStep, MessageStep,
     CallEndsStep, InvalidatedStep, TimeoutStep DEF Next, WorldNext
<1> QED BY <1>1, <1>2

-----------------------------------------------------------------------------
(* The counter of ringing calls.  Its account is inductive together with    *)
(* IInv: that an event of type "chat" has the approval of a text channel is *)
(* what keeps its activation, which disconnects the signal handler, from    *)
(* taking a call out of the count.                                          *)

Ringing == {c \in CDO : IsRinging(c)}
RingsIf(a) == a # NoApproval /\ a.type = "call" /\ a.handler
Account == /\ ringing + missed = Cardinality(Ringing)
           /\ phone <=> ringing > 0

LEMMA RingingFinite == IsFiniteSet(Ringing) /\ Cardinality(Ringing) \in Nat
<1>1. Ringing \subseteq CDO
  BY DEF Ringing
<1> QED BY <1>1, CDOAssumption, FS_Subset, FS_CardinalityType

LEMMA RingsAs == \A c \in CDO : IsRinging(c) <=> RingsIf(approvals[c])
  BY DEF IsRinging, IsApproved, RingsIf

(* The approval of one operation changes: the others ring as before. *)
LEMMA OneRings ==
  ASSUME TypeOK, NEW c \in CDO, NEW a, approvals' = [approvals EXCEPT ![c] = a]
  PROVE  /\ RingsIf(a) => Ringing' = Ringing \union {c}
         /\ ~RingsIf(a) => Ringing' = Ringing \ {c}
<1>1. approvals'[c] = a /\ \A d \in CDO \ {c} : approvals'[d] = approvals[d]
  BY DEF TypeOK
<1>2. \A d \in CDO : IsRinging(d)' <=> RingsIf(approvals'[d])
  BY DEF IsRinging, IsApproved, RingsIf
<1>3. IsRinging(c)' <=> RingsIf(a)
  BY <1>1, <1>2
<1>4. \A d \in CDO \ {c} : IsRinging(d)' <=> IsRinging(d)
  BY <1>1, <1>2, RingsAs
<1>5. Ringing' = {d \in CDO : IsRinging(d)'}
  BY DEF Ringing
<1> HIDE DEF IsRinging
<1> QED BY <1>3, <1>4, <1>5 DEF Ringing

(* A step that touches neither the counters nor who rings. *)
LEMMA SilentStep ==
  ASSUME Account, UNCHANGED ringVars, Ringing' = Ringing
  PROVE  Account'
  BY DEF Account, ringVars

LEMMA SameApprovals ==
  ASSUME UNCHANGED approvals
  PROVE  Ringing' = Ringing
  BY DEF Ringing, IsRinging, IsApproved

(* An approval whose change leaves it ringing, or not. *)
LEMMA SilentChange ==
  ASSUME TypeOK, Account, UNCHANGED ringVars, NEW c \in CDO, NEW a,
         approvals' = [approvals EXCEPT ![c] = a], RingsIf(a) <=> IsRinging(c)
  PROVE  Account'
<1>1. Ringing' = Ringing
  BY OneRings DEF Ringing
<1> QED BY <1>1, SilentStep

LEMMA OfferRings ==
  ASSUME IInv, Account, NEW c \in CDO, ApproveChannels(c)
  PROVE  Account'
<1>1. PICK b \in Bundles :
        LET type == FindMainChannel(b) IN
          \/ OfferUnknown(c, type) \/ OfferInvalid(c, type)
          \/ OfferMuc(c, type)     \/ OfferAnnounced(c, type)
          \/ OfferText(c, type)    \/ OfferCall(c, type)
          \/ OfferEndedCall(c, type)
  BY DEF ApproveChannels
<1> DEFINE type == FindMainChannel(b)
<1> HIDE DEF type
<1>2. TypeOK /\ display \in BOOLEAN
  BY DEF IInv, TypeOK
<1>3. ~IsRinging(c)
  BY <1>1 DEF OfferUnknown, OfferInvalid, OfferMuc, OfferAnnounced, OfferText, OfferCall,
     OfferEndedCall, OfferOnly, IInv, UnseenIsUnapproved, IsRinging, type
<1>4. CASE OfferUnknown(c, type)
  BY <1>4, SilentStep, SameApprovals DEF OfferUnknown
<1>5. ASSUME NEW a, a.type # "call" \/ ~a.handler, UNCHANGED ringVars,
             approvals' = [approvals EXCEPT ![c] = a]
      PROVE  Account'
  BY <1>2, <1>3, <1>5, SilentChange DEF RingsIf
<1>6. \A t : NewApproval(t).type = t /\ ~NewApproval(t).handler
  BY DEF NewApproval
<1>7. CASE OfferInvalid(c, type) \/ OfferEndedCall(c, type)
  BY <1>5, <1>6, <1>7 DEF OfferInvalid, OfferEndedCall, Register
<1>8. CASE OfferMuc(c, type)
  <2>1. [NewApproval(type) EXCEPT !.auto = TRUE].handler = FALSE
    BY DEF NewApproval
  <2> QED BY <1>5, <1>8, <2>1 DEF OfferMuc
<1>9. CASE OfferAnnounced(c, type)
  <2>1. Announced(EventTypeOf(type), NewApproval(type)).type # "call"
    BY <1>2, <1>9 DEF OfferAnnounced, Announced, NewApproval
  <2> QED BY <1>5, <1>9, <2>1 DEF OfferAnnounced
<1>10. CASE OfferText(c, type)
  <2> DEFINE listening == [NewApproval(type) EXCEPT !.handler = TRUE]
  <2>1. listening.type = "text" /\ Announced("chat", listening).type = "text"
    BY <1>2, <1>10 DEF OfferText, Announced, NewApproval
  <2>2. UNCHANGED ringVars /\ \/ approvals' = [approvals EXCEPT ![c] = listening]
                              \/ approvals' = [approvals EXCEPT ![c] = Announced("chat", listening)]
    BY <1>10 DEF OfferText
  <2> HIDE DEF listening
  <2> QED BY <1>5, <2>1, <2>2
<1>11. CASE OfferCall(c, type)
  <2> DEFINE a == Announced("call", [NewApproval(type) EXCEPT !.handler = TRUE])
  <2>1. a.type = "call" /\ a.handler /\ a # NoApproval
    <3>1. a.type = "call" /\ a.handler
      BY <1>2, <1>11 DEF OfferCall, Announced, NewApproval
    <3>2. [NewApproval(type) EXCEPT !.handler = TRUE] \in ApprovalType
      BY <1>11 DEF OfferCall, NewApproval, ApprovalType, MediaTypes
    <3> QED BY <1>2, <3>1, <3>2, AnnouncedType, NoApprovalAssumption
  <2>2. approvals' = [approvals EXCEPT ![c] = a] /\ StartRinging
    BY <1>11 DEF OfferCall
  <2> HIDE DEF a
  <2>3. Ringing' = Ringing \union {c} /\ c \notin Ringing
    BY <1>2, <1>3, <2>1, <2>2, OneRings DEF RingsIf, Ringing
  <2>4. Cardinality(Ringing') = Cardinality(Ringing) + 1
    BY <2>3, RingingFinite, FS_AddElement
  <2> HIDE DEF Ringing
  <2>5. ringing' = ringing + 1 /\ missed' = missed /\ ringing \in Int /\ missed \in Nat
    BY <1>2, <2>2 DEF StartRinging, TypeOK
  <2>6. ringing' + missed' = Cardinality(Ringing')
    BY <2>4, <2>5, RingingFinite DEF Account
  <2>7. ringing' > 0 <=> (ringing > 0 \/ ringing' = 1)
    BY <2>5
  <2>8. phone' <=> ringing' > 0
    BY <2>2, <2>7, Zenon DEF Account, StartRinging
  <2> QED BY <2>6, <2>8 DEF Account
<1> QED BY <1>1, <1>4, <1>7, <1>8, <1>9, <1>10, <1>11 DEF type

LEMMA InvalidatedRings ==
  ASSUME IInv, Account, NEW c \in CDO, CdoInvalidated(c)
  PROVE  Account'
<1>1. /\ TypeOK /\ IsApproved(c) /\ StopRinging(c)
      /\ approvals' = [approvals EXCEPT ![c] = NoApproval]
  BY DEF IInv, CdoInvalidated
<1>2. Ringing' = Ringing \ {c}
  BY <1>1, OneRings DEF RingsIf
<1>3. Cardinality(Ringing') = IF c \in Ringing THEN Cardinality(Ringing) - 1
                              ELSE Cardinality(Ringing)
  BY <1>2, RingingFinite, FS_RemoveElement
<1>4. c \in Ringing <=> IsRinging(c)
  BY DEF Ringing
<1>5. IsRinging(c) => CountsDown(approvals[c].type)
  BY DEF IsRinging, CountsDown
<1> HIDE DEF Ringing, IsRinging
<1>6. CASE CountsDown(approvals[c].type)
  <2>1. ringing' = ringing - 1 /\ phone' = (phone /\ ringing' # 0)
    BY <1>1, <1>6 DEF StopRinging
  <2>2. missed' = IF IsRinging(c) THEN missed ELSE missed + 1
    BY <1>1, <1>6 DEF StopRinging
  <2>3. ringing \in Int /\ missed \in Nat
    BY <1>1 DEF TypeOK
  <2>4. ringing' + missed' = Cardinality(Ringing')
    BY <1>3, <1>4, <2>1, <2>2, <2>3, RingingFinite DEF Account
  <2>5. ringing' > 0 <=> (ringing > 0 /\ ringing' # 0)
    BY <2>1, <2>3
  <2>6. phone' <=> ringing' > 0
    BY <2>1, <2>5, Zenon DEF Account
  <2> QED BY <2>4, <2>6 DEF Account
<1>7. CASE ~CountsDown(approvals[c].type)
  BY <1>1, <1>3, <1>4, <1>5, <1>7, RingingFinite DEF StopRinging, Account, TypeOK, ringVars
<1> QED BY <1>6, <1>7

LEMMA UserRings ==
  ASSUME IInv, Account, UserNext
  PROVE  Account'
<1>1. TypeOK /\ UNCHANGED ringVars
  BY DEF IInv, UserNext, ActivateEvent, EventApprove, EventDecline, EventRemove,
     DialogResponse, ToggleNotifyArea
<1>2. \/ UNCHANGED approvals
      \/ \E i \in Positions : ActivateEvent(i)
      \/ \E c \in CDO : DialogResponse(c)
  BY DEF UserNext, EventApprove, EventDecline, EventRemove, ToggleNotifyArea
<1>3. ASSUME NEW c \in CDO, IsApproved(c),
             \/ approvals' = [approvals EXCEPT ![c].dialog = TRUE]
             \/ approvals' = [approvals EXCEPT ![c].dialog = FALSE]
             \/ approvals[c].type = "text" /\ approvals' = [approvals EXCEPT ![c].handler = FALSE]
      PROVE  Account'
  <2>1. approvals[c] \in ApprovalType
    BY <1>1, <1>3 DEF TypeOK, IsApproved
  <2>2. PICK a \in ApprovalType :
          /\ approvals' = [approvals EXCEPT ![c] = a] /\ a.type = approvals[c].type
          /\ a.type = "call" => a.handler = approvals[c].handler
    <3>1. /\ [approvals[c] EXCEPT !.dialog = TRUE] \in ApprovalType
          /\ [approvals[c] EXCEPT !.dialog = FALSE] \in ApprovalType
          /\ [approvals[c] EXCEPT !.handler = FALSE] \in ApprovalType
      BY <2>1 DEF ApprovalType
    <3> QED BY <1>3, <2>1, <3>1 DEF ApprovalType
  <2>3. RingsIf(a) <=> IsRinging(c)
    BY <1>3, <2>2, NoApprovalAssumption DEF RingsIf, IsRinging
  <2> QED BY <1>1, <2>2, <2>3, SilentChange
<1>4. ASSUME NEW i \in Positions, ActivateEvent(i)
      PROVE  Account'
  <2> DEFINE c == events[i].approval
  <2>1. CASE events[i].type \in {"chat", "call", "invitation"}
    <3>1. c \in CDO /\ IsApproved(c) /\ (events[i].type = "chat" => approvals[c].type = "text")
      BY <2>1, NoApprovalAssumption
      DEF IInv, Structure, EventsMatch, EventsHaveLiveApproval, Approvable
    <3> QED BY <1>3, <1>4, <2>1, <3>1 DEF ActivateEvent
  <2>2. CASE events[i].type \notin {"chat", "call", "invitation"}
    BY <1>1, <1>4, <2>2, SilentStep, SameApprovals DEF ActivateEvent
  <2> QED BY <2>1, <2>2
<1>5. ASSUME NEW c \in CDO, DialogResponse(c)
      PROVE  Account'
  BY <1>3, <1>5 DEF DialogResponse
<1> QED BY <1>1, <1>2, <1>4, <1>5, SilentStep, SameApprovals

LEMMA MessageRings ==
  ASSUME IInv, Account, NEW c \in CDO, MessageReceived(c)
  PROVE  Account'
<1>1. /\ TypeOK /\ IsApproved(c) /\ approvals[c].type = "text" /\ UNCHANGED ringVars
      /\ \/ UNCHANGED approvals
         \/ approvals' = [approvals EXCEPT ![c] = Announced("chat", approvals[c])]
  BY DEF IInv, MessageReceived
<1>2. approvals[c] \in ApprovalType
  BY <1>1 DEF TypeOK, IsApproved
<1>3. Announced("chat", approvals[c]).type = "text"
  BY <1>1, <1>2, AnnouncedType
<1> QED BY <1>1, <1>3, SilentStep, SameApprovals, SilentChange DEF RingsIf, IsRinging

LEMMA StepAccount == IInv /\ Account /\ [Next]_vars => Account'
<1> SUFFICES ASSUME IInv, Account, [Next]_vars PROVE Account'
  OBVIOUS
<1>1. CASE UNCHANGED vars
  BY <1>1, SilentStep, SameApprovals DEF vars, ringVars
<1>2. CASE ContactNext
  BY <1>2, SilentStep, SameApprovals
  DEF ContactNext, ContactAdded, ContactRemoved, PublishStateChanged, PresenceChanged
<1>3. CASE DispatcherNext
  BY <1>3, SilentStep, SameApprovals
  DEF DispatcherNext, DispatcherAccepts, DispatcherRefuses, RejectChannelClaimed,
      HandleWithTimeNotImplemented, FinishedElsewhere
<1>4. CASE \E c \in CDO : CallEnds(c)
  BY <1>4, SilentStep, SameApprovals DEF CallEnds
<1>5. CASE \E id \in 1..MaxEvents : AutoremoveTimeout(id)
  BY <1>5, SilentStep, SameApprovals DEF AutoremoveTimeout
<1> QED BY <1>1, <1>2, <1>3, <1>4, <1>5, OfferRings, InvalidatedRings, UserRings, MessageRings
        DEF Next, WorldNext

-----------------------------------------------------------------------------
(* What a step may do to the list: an event goes only if it points to no     *)
(* approval, or to that of an operation that is over.                        *)

MayGo(i) == events[i].approval = NoApproval \/ cdo[events[i].approval] = "finished"

ListStep ==
  \/ UNCHANGED events
  \/ \E type \in EventTypes, c \in CDO \union {NoApproval}, k \in Contact \union {NoApproval} :
       AddEvent(type, c, k)
  \/ \E i \in Positions : RemoveEventAt(i) /\ MayGo(i)

LEMMA ListChanges ==
  ASSUME IInv, [Next]_vars
  PROVE  ListStep
<1>1. CASE UNCHANGED vars
  BY <1>1 DEF vars, ListStep
<1>2. ASSUME NEW i \in Positions, events[i].type \notin Approvable
      PROVE  MayGo(i)
  BY <1>2, EventsTyped DEF IInv, Structure, EventsMatch, MayGo
<1>3. CASE UserNext
  <2>1. ASSUME NEW i \in Positions, ActivateEvent(i) PROVE ListStep
    BY <1>2, <2>1 DEF ActivateEvent, ListStep, NoEvents, Approvable
  <2>2. ASSUME NEW i \in Positions, events[i].type = "subscription", EventRemove(i)
        PROVE  ListStep
    BY <1>2, <2>2 DEF EventRemove, ListStep, Approvable
  <2> QED BY <1>3, <2>1, <2>2
    DEF UserNext, EventApprove, EventDecline, DialogResponse, ToggleNotifyArea, NoEvents, ListStep
<1>4. CASE ContactNext
  <2>1. PICK k \in Contact : \/ \E ask \in BOOLEAN : ContactAdded(k, ask)
                             \/ ContactRemoved(k) \/ PublishStateChanged(k)
                             \/ PresenceChanged(k)
    BY <1>4 DEF ContactNext
  <2>2. ASSUME NEW ask, CheckPublishState(k, ask) PROVE ListStep
    <3>1. CASE \E i \in SubscriptionsOf(k) : RemoveEventAt(i)
      BY <1>2, <3>1 DEF SubscriptionsOf, ListStep, Approvable
    <3> QED BY <2>2, <3>1 DEF CheckPublishState, NoEvents, ListStep, EventTypes
  <2>3. CASE PresenceChanged(k)
    BY <2>3 DEF PresenceChanged, NoEvents, ListStep, EventTypes
  <2> QED BY <2>1, <2>2, <2>3 DEF ContactAdded, ContactRemoved, PublishStateChanged, NoEvents, ListStep
<1>5. CASE DispatcherNext
  BY <1>5 DEF DispatcherNext, DispatcherAccepts, DispatcherRefuses, RejectChannelClaimed,
     HandleWithTimeNotImplemented, FinishedElsewhere, NoEvents, ListStep
<1>6. ASSUME NEW c \in CDO, ApproveChannels(c) PROVE ListStep
  <2>1. PICK b \in Bundles :
          LET type == FindMainChannel(b) IN
            \/ OfferUnknown(c, type) \/ OfferInvalid(c, type)
            \/ OfferMuc(c, type)     \/ OfferAnnounced(c, type)
            \/ OfferText(c, type)    \/ OfferCall(c, type)
            \/ OfferEndedCall(c, type)
    BY <1>6 DEF ApproveChannels
  <2> DEFINE type == FindMainChannel(b)
  <2> HIDE DEF type
  <2>2. \/ NoEvents
        \/ \E t \in EventTypes : AddEvent(t, c, NoApproval)
    BY <2>1 DEF OfferUnknown, OfferInvalid, OfferMuc, OfferAnnounced, OfferText, OfferCall,
       OfferEndedCall, EventTypeOf, EventTypes, type
  <2> QED BY <2>2 DEF NoEvents, ListStep
<1>7. ASSUME NEW c \in CDO, MessageReceived(c) PROVE ListStep
  BY <1>7 DEF MessageReceived, ListStep, EventTypes
<1>8. ASSUME NEW c \in CDO, CdoInvalidated(c) PROVE ListStep
  BY <1>8 DEF CdoInvalidated, NoEvents, EventsOf, MayGo, ListStep
<1>9. ASSUME NEW id \in 1..MaxEvents, AutoremoveTimeout(id) PROVE ListStep
  BY <1>2, <1>9 DEF AutoremoveTimeout, MustAck, Approvable, ListStep
<1>10. ASSUME NEW c \in CDO, CallEnds(c) PROVE ListStep
  BY <1>10 DEF CallEnds, NoEvents, ListStep
<1> QED BY <1>1, <1>3, <1>4, <1>5, <1>6, <1>7, <1>8, <1>9, <1>10 DEF Next, WorldNext

LEMMA EventsStay ==
  ASSUME IInv, ListStep, NEW c \in CDO, HasEvent(c), cdo[c] # "finished"
  PROVE  HasEvent(c)'
<1>1. PICK i \in Positions : events[i].approval = c
  BY DEF HasEvent, EventsOf
<1>2. SUFFICES \E j \in 1..Len(events') : events'[j].approval = c
  BY DEF HasEvent, EventsOf, Positions
<1>3. TypeOK /\ i \in 1..Len(events) /\ events \in Seq(EventType)
  BY EventsTyped DEF IInv, Positions
<1>4. CASE UNCHANGED events
  BY <1>1, <1>3, <1>4
<1>5. ASSUME NEW type \in EventTypes, NEW d \in CDO \union {NoApproval},
             NEW k \in Contact \union {NoApproval}, AddEvent(type, d, k), events' # events
      PROVE  \E j \in 1..Len(events') : events'[j].approval = c
  <2> DEFINE e == NewEvent(type, d, k)
  <2>1. events' = <<e>> \o events
    BY <1>5 DEF AddEvent
  <2>2. e \in EventType
    <3>1. FreshId \in 1..MaxEvents
      BY <1>3, <1>5, FreshIdType DEF AddEvent
    <3> QED BY <1>3, <3>1 DEF NewEvent, EventType, TypeOK
  <2> HIDE DEF e
  <2>3. Len(events') = Len(events) + 1 /\ \A j \in 2..(Len(events) + 1) : events'[j] = events[j - 1]
    BY <1>3, <2>1, <2>2, PrependShape
  <2>4. i + 1 \in 2..(Len(events) + 1) /\ i + 1 \in 1..Len(events') /\ (i + 1) - 1 = i
    BY <1>3, <2>3
  <2> QED BY <1>1, <2>3, <2>4
<1>6. ASSUME NEW r \in Positions, RemoveEventAt(r), MayGo(r)
      PROVE  \E j \in 1..Len(events') : events'[j].approval = c
  <2>1. i # r
    BY <1>1, <1>6, NoApprovalAssumption DEF MayGo
  <2>2. /\ r \in 1..Len(events) /\ Len(events') = Len(events) - 1
        /\ \A j \in 1..(Len(events) - 1) : events'[j] = IF j < r THEN events[j] ELSE events[j + 1]
    BY <1>3, <1>6, RemoveAtShape DEF RemoveEventAt, Positions
  <2>3. CASE i < r
    BY <1>1, <1>3, <2>2, <2>3
  <2>4. CASE i > r
    <3>1. i - 1 \in 1..(Len(events) - 1) /\ ~(i - 1 < r) /\ (i - 1) + 1 = i
      BY <1>3, <2>2, <2>4
    <3> QED BY <1>1, <2>2, <3>1
  <2> QED BY <1>3, <2>1, <2>2, <2>3, <2>4
<1> QED BY <1>4, <1>5, <1>6 DEF ListStep

-----------------------------------------------------------------------------
(* The inductive invariant holds of every reachable state. *)
THEOREM Inductive == Spec => []IInv
  BY InitIInv, StepIInv, PTL DEF Spec

(* Types are kept: in particular no id of an event is ever made up, however  *)
(* full the list.                                                            *)
THEOREM TypeCorrect == Spec => []TypeOK
<1>1. IInv => TypeOK
  BY DEF IInv
<1> QED BY <1>1, Inductive, PTL

(* event_manager_approval_done removes one event and frees the approval: no  *)
(* other event can still point to it.                                        *)
THEOREM NoDanglingApproval == Spec => []ApprovalsMatchEvents
<1>1. IInv => ApprovalsMatchEvents
  BY DEF IInv, Structure, ApprovalsMatchEvents
<1> QED BY <1>1, Inductive, PTL

(* The counter is exactly the calls that ring less those that were counted   *)
(* down without having been counted up, and the phone sounds exactly while   *)
(* it is positive, for any number of operations of any kind.                 *)
THEOREM RingingIsAccounted == Spec => []RingingAccount
<1>1. Init => Account
  <2> SUFFICES ASSUME Init PROVE Account
    OBVIOUS
  <2>1. Ringing = {}
    BY DEF Init, Ringing, IsRinging, IsApproved
  <2>2. Cardinality(Ringing) = 0
    BY <2>1, FS_EmptySet
  <2> QED BY <2>2 DEF Init, Account
<1>2. IInv /\ Account => RingingAccount
  BY DEF IInv, Account, RingingAccount, Ringing
<1> QED BY <1>1, <1>2, Inductive, StepAccount, PTL DEF Spec

(* The event of an approval stays until its operation is over: neither an    *)
(* answer on its way to the dispatcher, nor a refused one, nor a timer or a  *)
(* contact takes it away.                                                    *)
THEOREM EventsOutliveAnswers == Spec => EventOutlivesAnswers
<1>1. ASSUME IInv, [Next]_vars
      PROVE  [\A c \in CDO : HasEvent(c) /\ ~HasEvent(c)' => cdo[c] = "finished"]_vars
  BY <1>1, ListChanges, EventsStay
<1> QED BY <1>1, Inductive, PTL DEF Spec, EventOutlivesAnswers
=============================================================================
