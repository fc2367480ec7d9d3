------------------------ MODULE EventListenersProofs ------------------------
(***************************************************************************)
(* Neither the bubble nor the status icon is left with an event that is    *)
(* gone, and neither forgets one that waits: for any operations, contacts  *)
(* and length of the event list.  The argument is that an id names one     *)
(* event of the list, so that the signal of a removal reaches whoever      *)
(* shows that event and nobody else.                                       *)
(***************************************************************************)
EXTENDS EventListeners, EventManagerProofs

IdsDistinct == \A i, j \in Positions : events[i].id = events[j].id => i = j

Inv == IInv /\ IdsDistinct /\ ListenersFollowEvents

-----------------------------------------------------------------------------
(* What a step does to the list, and what the manager signals of it.        *)

Silently == UNCHANGED events /\ (signals' = <<>> \/ \E id : signals' = <<Signal("updated", id)>>)

Adding == \E type \in EventTypes, c \in CDO \union {NoApproval}, k \in Contact \union {NoApproval} :
            AddEvent(type, c, k)

SignalStep == Silently \/ Adding \/ \E i \in Positions : RemoveEventAt(i)

LEMMA QuietSignals ==
  ASSUME NoEvents
  PROVE  SignalStep
  BY DEF NoEvents, SignalStep, Silently

LEMMA ManagerSignals ==
  ASSUME IInv, Next
  PROVE  SignalStep
<1>1. CASE UserNext
  <2>1. ASSUME NEW i \in Positions, ActivateEvent(i) PROVE SignalStep
    BY <2>1, QuietSignals DEF ActivateEvent, SignalStep
  <2> QED BY <1>1, <2>1, QuietSignals
    DEF UserNext, EventApprove, EventDecline, EventRemove, DialogResponse, ToggleNotifyArea, SignalStep
<1>2. CASE ContactNext
  <2>1. PICK k \in Contact : \/ \E ask \in BOOLEAN : ContactAdded(k, ask)
                             \/ ContactRemoved(k) \/ PublishStateChanged(k)
                             \/ PresenceChanged(k)
    BY <1>2 DEF ContactNext
  <2>2. ASSUME NEW ask, CheckPublishState(k, ask) PROVE SignalStep
    BY <2>2, QuietSignals DEF CheckPublishState, SubscriptionsOf, SignalStep, Adding, EventTypes
  <2>3. CASE PresenceChanged(k)
    BY <2>3, QuietSignals DEF PresenceChanged, SignalStep, Adding, EventTypes
  <2> QED BY <2>1, <2>2, <2>3, QuietSignals DEF ContactAdded, ContactRemoved, PublishStateChanged
<1>3. CASE DispatcherNext
  BY <1>3, QuietSignals DEF DispatcherNext, DispatcherAccepts, DispatcherRefuses,
     RejectChannelClaimed, HandleWithTimeNotImplemented, FinishedElsewhere
<1>4. ASSUME NEW c \in CDO, ApproveChannels(c) PROVE SignalStep
  <2>1. PICK b \in Bundles :
          LET type == FindMainChannel(b) IN
            \/ OfferUnknown(c, type) \/ OfferInvalid(c, type)
            \/ OfferMuc(c, type)     \/ OfferAnnounced(c, type)
            \/ OfferText(c, type)    \/ OfferCall(c, type)
            \/ OfferEndedCall(c, type)
    BY <1>4 DEF ApproveChannels
  <2> DEFINE type == FindMainChannel(b)
  <2> HIDE DEF type
  <2>2. NoEvents \/ \E t \in EventTypes : AddEvent(t, c, NoApproval)
    BY <2>1 DEF OfferUnknown, OfferInvalid, OfferMuc, OfferAnnounced, OfferText, OfferCall,
       OfferEndedCall, EventTypeOf, EventTypes, type
  <2> QED BY <2>2, QuietSignals DEF SignalStep, Adding
<1>5. ASSUME NEW c \in CDO, MessageReceived(c) PROVE SignalStep
  BY <1>5 DEF MessageReceived, SignalStep, Silently, Adding, EventTypes
<1>6. ASSUME NEW c \in CDO, CdoInvalidated(c) PROVE SignalStep
  BY <1>6, QuietSignals DEF CdoInvalidated, EventsOf, SignalStep
<1>7. ASSUME NEW id \in 1..MaxEvents, AutoremoveTimeout(id) PROVE SignalStep
  BY <1>7 DEF AutoremoveTimeout, SignalStep
<1>8. ASSUME NEW c \in CDO, CallEnds(c) PROVE SignalStep
  BY <1>8, QuietSignals DEF CallEnds
<1> QED BY <1>1, <1>2, <1>3, <1>4, <1>5, <1>6, <1>7, <1>8 DEF Next, WorldNext

-----------------------------------------------------------------------------
(* The list as the listeners see it: its ids, and whether some event of it   *)
(* was announced.                                                           *)

Waiting == \E i \in Positions : events[i].announced

LEMMA TopIsListed ==
  ASSUME TypeOK'
  PROVE  /\ TopEvent(events') \in 0..MaxEvents
         /\ TopEvent(events') # NoEvent =>
              \E i \in Positions' : events'[i].id = TopEvent(events')
         /\ Waiting' => TopEvent(events') # NoEvent
<1>1. events' \in Seq(EventType) /\ Len(events') \in Nat
  BY DEF TypeOK
<1>2. CASE events' = <<>>
  BY <1>2, MaxEventsAssumption DEF TopEvent, NoEvent, Waiting, Positions
<1>3. CASE events' # <<>>
  <2>1. 1 \in 1..Len(events') /\ Head(events') = events'[1] /\ events'[1] \in EventType
    BY <1>1, <1>3
  <2>2. TopEvent(events') = events'[1].id /\ events'[1].id \in 1..MaxEvents
    BY <1>3, <2>1 DEF TopEvent, EventType
  <2>3. \E i \in Positions' : events'[i].id = TopEvent(events')
    BY <2>1, <2>2 DEF Positions
  <2> QED BY <2>2, <2>3, MaxEventsAssumption DEF NoEvent
<1> QED BY <1>2, <1>3

LEMMA NonEmptyTop ==
  ASSUME TypeOK', events' # <<>>
  PROVE  TopEvent(events') # NoEvent
<1>1. events'[1] = Head(events') /\ events'[1] \in EventType
  BY DEF TypeOK
<1> QED BY <1>1, MaxEventsAssumption DEF TopEvent, EventType, NoEvent

(* What is left of a removed event: its id is free, the others stay.        *)
LEMMA Removed ==
  ASSUME TypeOK, IdsDistinct, NEW k \in Positions, RemoveEventAt(k)
  PROVE  /\ IdsDistinct' /\ (Waiting' => Waiting)
         /\ \A id : Listed(id)' <=> Listed(id) /\ id # events[k].id
<1>1. Len(events) \in Nat /\ Positions = 1..Len(events)
  BY EventsTyped DEF Positions
<1>2. /\ Positions' = 1..(Len(events) - 1)
      /\ \A j \in Positions' : events'[j] = IF j < k THEN events[j] ELSE events[j + 1]
  BY EventsTyped, RemoveAtShape DEF RemoveEventAt, Positions
<1> DEFINE old(j) == IF j < k THEN j ELSE j + 1
<1>3. \A j \in Positions' : old(j) \in Positions \ {k} /\ events'[j] = events[old(j)]
  BY <1>1, <1>2
<1>4. \A i, j \in Positions' : old(i) = old(j) => i = j
  BY <1>1, <1>2
<1>5. ASSUME NEW i \in Positions \ {k} PROVE \E j \in Positions' : old(j) = i
  <2>1. CASE i < k
    BY <1>1, <1>2, <2>1
  <2>2. CASE i > k
    <3>1. i - 1 \in Positions' /\ old(i - 1) = i
      BY <1>1, <1>2, <2>2
    <3> QED BY <3>1
  <2> QED BY <1>1, <2>1, <2>2
<1> HIDE DEF old
<1>6. IdsDistinct'
  BY <1>3, <1>4 DEF IdsDistinct
<1>7. Waiting' => Waiting
  BY <1>3 DEF Waiting
<1>8. ASSUME NEW id PROVE Listed(id)' <=> Listed(id) /\ id # events[k].id
  BY <1>3, <1>5 DEF Listed, IdsDistinct
<1> QED BY <1>6, <1>7, <1>8

(* What a new event adds: an id that was free. *)
LEMMA Added ==
  ASSUME TypeOK, IdsDistinct, NEW type \in EventTypes, NEW c \in CDO \union {NoApproval},
         NEW k \in Contact \union {NoApproval}, AddEvent(type, c, k)
  PROVE  /\ FreshId \in 1..MaxEvents /\ ~Listed(FreshId)
         /\ IdsDistinct'
         /\ \/ /\ UNCHANGED events /\ signals' = <<Signal("removed", FreshId)>>
            \/ /\ \A id : Listed(id)' <=> Listed(id) \/ id = FreshId
               /\ \/ signals' = <<Signal("added", FreshId)>>
                  \/ signals' = <<>> /\ (Waiting' => Waiting)
<1> DEFINE e == NewEvent(type, c, k)
<1>1. FreshId \in 1..MaxEvents /\ \A i \in Positions : events[i].id # FreshId
  BY FreshIdType DEF AddEvent
<1>2. ~Listed(FreshId)
  BY <1>1 DEF Listed
<1>3. e \in EventType /\ e.id = FreshId /\ e.announced = display
  BY <1>1 DEF NewEvent, EventType, TypeOK
<1>4. CASE UNCHANGED events
  <2>1. IdsDistinct'
    BY <1>4 DEF IdsDistinct, Positions
  <2>2. CASE signals' = <<Signal("removed", FreshId)>>
    BY <1>1, <1>2, <1>4, <2>1, <2>2
  <2>3. events # <<e>> \o events
    BY <1>3, EventsTyped, PrependShape
  <2>4. signals' = <<Signal("removed", FreshId)>>
    BY <1>3, <1>4, <2>3 DEF AddEvent
  <2> QED BY <2>2, <2>4
<1>5. CASE events' = <<e>> \o events
  <2>1. Len(events) \in Nat /\ Positions = 1..Len(events)
    BY EventsTyped DEF Positions
  <2> HIDE DEF e
  <2>2. /\ Positions' = 1..(Len(events) + 1) /\ events'[1] = e
        /\ \A j \in Positions' \ {1} : j - 1 \in Positions /\ events'[j] = events[j - 1]
        /\ \A i \in Positions : i + 1 \in Positions' /\ events'[i + 1] = events[i]
    <3>1. events \in Seq(EventType)
      BY EventsTyped
    <3>2. /\ Len(events') = Len(events) + 1 /\ events'[1] = e
          /\ \A j \in 2..(Len(events) + 1) : events'[j] = events[j - 1]
      BY <1>3, <1>5, <3>1, PrependShape
    <3>3. \A i \in Positions : i + 1 \in 2..(Len(events) + 1) /\ (i + 1) - 1 = i
      BY <2>1
    <3> QED BY <2>1, <3>2, <3>3 DEF Positions
  <2>3. IdsDistinct'
    <3>1. \A i, j \in Positions' \ {1} : i - 1 = j - 1 => i = j
      BY <2>1, <2>2
    <3>2. \A j \in Positions' \ {1} : events'[j].id # FreshId
      BY <1>1, <2>2
    <3>3. SUFFICES ASSUME NEW i \in Positions', NEW j \in Positions', events'[i].id = events'[j].id
                   PROVE  i = j
      BY DEF IdsDistinct
    <3>4. CASE i # 1 /\ j # 1
      BY <2>2, <3>1, <3>3, <3>4 DEF IdsDistinct
    <3>5. CASE i = 1 \/ j = 1
      BY <1>3, <2>2, <3>2, <3>3, <3>5
    <3> QED BY <3>4, <3>5
  <2>4. ASSUME NEW id PROVE Listed(id)' <=> Listed(id) \/ id = FreshId
    <3>1. 1 \in Positions'
      BY <2>1, <2>2
    <3> QED BY <1>3, <2>2, <3>1 DEF Listed
  <2>5. ~display => (Waiting' => Waiting)
    BY <1>3, <2>2 DEF Waiting
  <2>6. \/ display /\ signals' = <<Signal("added", FreshId)>>
        \/ ~display /\ signals' = <<>>
        \/ signals' = <<Signal("removed", FreshId)>> /\ events' = events
    BY <1>3 DEF AddEvent, e
  <2>7. events' # events
    BY <1>3, <1>5, EventsTyped, PrependShape
  <2> QED BY <1>1, <1>2, <2>3, <2>4, <2>5, <2>6, <2>7
<1> QED BY <1>4, <1>5 DEF AddEvent

(* All that the listeners need to know of a step of the manager.            *)
Heard ==
  \/ /\ signals' = <<>> \/ \E id : signals' = <<Signal("updated", id)>>
     /\ (\A id : Listed(id) => Listed(id)') /\ (Waiting' => Waiting)
  \/ \E f \in 1..MaxEvents :
       /\ signals' = <<Signal("added", f)>>
       /\ \A id : Listed(id)' <=> Listed(id) \/ id = f
  \/ \E f \in 1..MaxEvents :
       /\ signals' = <<Signal("removed", f)>>
       /\ (\A id : Listed(id)' <=> Listed(id) /\ id # f) /\ (Waiting' => Waiting)

LEMMA StepIsHeard ==
  ASSUME TypeOK, IdsDistinct, SignalStep
  PROVE  IdsDistinct' /\ Heard
<1>1. CASE Silently
  BY <1>1 DEF Silently, IdsDistinct, Heard, Listed, Waiting, Positions
<1>2. CASE Adding
  <2>1. PICK type \in EventTypes, c \in CDO \union {NoApproval}, k \in Contact \union {NoApproval} :
          AddEvent(type, c, k)
    BY <1>2 DEF Adding
  <2>2. CASE UNCHANGED events /\ signals' = <<Signal("removed", FreshId)>>
    <3>1. /\ \A id : Listed(id)' <=> Listed(id) /\ id # FreshId
          /\ Waiting' => Waiting
      BY <2>1, <2>2, Added DEF Listed, Waiting, Positions
    <3> QED BY <2>1, <2>2, <3>1, Added DEF Heard
  <2> QED BY <2>1, <2>2, Added DEF Heard
<1>3. ASSUME NEW i \in Positions, RemoveEventAt(i) PROVE IdsDistinct' /\ Heard
  BY <1>3, Removed, EventsTyped DEF RemoveEventAt, Heard
<1> QED BY <1>1, <1>2, <1>3 DEF SignalStep

-----------------------------------------------------------------------------
(* The listeners.                                                           *)

(* What update_notification () leaves: no bubble without an event.          *)
LEMMA BubbleHasEvent ==
  ASSUME TypeOK', ListenersTypeOK, NEW id, id # NoEvent => Listed(id)',
         UpdateNotification(id, events')
  PROVE  bubble' \in EventTypes \union {"none"} /\ (bubble' # "none" => id # NoEvent)
<1>1. id # NoEvent => EventWith(events', id).type \in EventTypes
  <2>1. ASSUME Listed(id)' PROVE EventWith(events', id).type \in EventTypes
    <3>1. \E i \in 1..Len(events') : events'[i].id = id
      BY <2>1 DEF Listed, Positions
    <3>2. (CHOOSE i \in 1..Len(events') : events'[i].id = id) \in 1..Len(events')
      BY <3>1
    <3>3. EventWith(events', id) = events'[CHOOSE i \in 1..Len(events') : events'[i].id = id]
      BY DEF EventWith
    <3>4. events' \in Seq(EventType)
      BY DEF TypeOK
    <3>5. \A k \in 1..Len(events') : events'[k] \in EventType
      BY <3>4
    <3>6. EventWith(events', id) \in EventType
      BY <3>2, <3>3, <3>5
    <3> QED BY <3>6 DEF EventType
  <2> QED BY <2>1
<1> QED BY <1>1 DEF UpdateNotification, ListenersTypeOK

LEMMA ApproverFollows ==
  ASSUME Inv, TypeOK', Heard, Listen
  PROVE  /\ shown' \in 0..MaxEvents /\ bubble' \in EventTypes \union {"none"}
         /\ shown' # NoEvent => Listed(shown)'
         /\ bubble' # "none" => shown' # NoEvent
         /\ Waiting' => shown' # NoEvent
<1>1. /\ ListenersTypeOK /\ (shown # NoEvent => Listed(shown)) /\ (bubble # "none" => shown # NoEvent)
      /\ Waiting => shown # NoEvent
  BY DEF Inv, ListenersFollowEvents, ListenerEventsAreLive, AnnouncedEventIsShown, Waiting
<1>2. ASSUME UNCHANGED <<shown, bubble>>, shown # NoEvent => Listed(shown)',
             Waiting' => shown # NoEvent
      PROVE  /\ shown' \in 0..MaxEvents /\ bubble' \in EventTypes \union {"none"}
             /\ shown' # NoEvent => Listed(shown)'
             /\ bubble' # "none" => shown' # NoEvent
             /\ Waiting' => shown' # NoEvent
  BY <1>1, <1>2 DEF ListenersTypeOK, Listed
<1>3. ASSUME NEW id \in 0..MaxEvents, shown' = id, id # NoEvent => Listed(id)',
             UpdateNotification(id, events'), Waiting' => id # NoEvent
      PROVE  /\ shown' \in 0..MaxEvents /\ bubble' \in EventTypes \union {"none"}
             /\ shown' # NoEvent => Listed(shown)'
             /\ bubble' # "none" => shown' # NoEvent
             /\ Waiting' => shown' # NoEvent
  BY <1>1, <1>3, BubbleHasEvent DEF Listed
<1>4. CASE signals' = <<>>
  BY <1>1, <1>2, <1>4 DEF Heard, Listen
<1>5. ASSUME NEW s, signals' = <<s>> PROVE ApproverHears(s)
  BY <1>5 DEF Listen
<1>6. ASSUME NEW id, signals' = <<Signal("updated", id)>>,
             \A d : Listed(d) => Listed(d)', Waiting' => Waiting
      PROVE  /\ shown' \in 0..MaxEvents /\ bubble' \in EventTypes \union {"none"}
             /\ shown' # NoEvent => Listed(shown)'
             /\ bubble' # "none" => shown' # NoEvent
             /\ Waiting' => shown' # NoEvent
  <2>1. \/ UNCHANGED <<shown, bubble>>
        \/ UNCHANGED shown /\ UpdateNotification(shown, events')
    BY <1>5, <1>6 DEF ApproverHears, Signal
  <2> QED BY <1>1, <1>2, <1>3, <1>6, <2>1 DEF ListenersTypeOK
<1>7. ASSUME NEW f \in 1..MaxEvents, signals' = <<Signal("added", f)>>,
             \A d : Listed(d)' <=> Listed(d) \/ d = f
      PROVE  /\ shown' \in 0..MaxEvents /\ bubble' \in EventTypes \union {"none"}
             /\ shown' # NoEvent => Listed(shown)'
             /\ bubble' # "none" => shown' # NoEvent
             /\ Waiting' => shown' # NoEvent
  <2>1. \/ shown # NoEvent /\ UNCHANGED <<shown, bubble>>
        \/ shown' = f /\ UpdateNotification(f, events')
    BY <1>5, <1>7 DEF ApproverHears, Signal
  <2>2. f \in 0..MaxEvents /\ f # NoEvent
    BY MaxEventsAssumption DEF NoEvent
  <2> QED BY <1>1, <1>2, <1>3, <1>7, <2>1, <2>2
<1>8. ASSUME NEW f \in 1..MaxEvents, signals' = <<Signal("removed", f)>>,
             \A d : Listed(d)' <=> Listed(d) /\ d # f, Waiting' => Waiting
      PROVE  /\ shown' \in 0..MaxEvents /\ bubble' \in EventTypes \union {"none"}
             /\ shown' # NoEvent => Listed(shown)'
             /\ bubble' # "none" => shown' # NoEvent
             /\ Waiting' => shown' # NoEvent
  <2>1. \/ shown # f /\ UNCHANGED <<shown, bubble>>
        \/ shown' = TopEvent(events') /\ UpdateNotification(TopEvent(events'), events')
    BY <1>5, <1>8 DEF ApproverHears, Signal
  <2>2. PICK top : top = TopEvent(events')
    OBVIOUS
  <2>3. top \in 0..MaxEvents /\ (top # NoEvent => Listed(top)') /\ (Waiting' => top # NoEvent)
    BY <2>2, TopIsListed DEF Listed
  <2>4. CASE shown # f /\ UNCHANGED <<shown, bubble>>
    BY <1>1, <1>2, <1>8, <2>4
  <2>5. CASE shown' = top /\ UpdateNotification(top, events')
    BY <1>3, <2>3, <2>5
  <2> QED BY <2>1, <2>2, <2>4, <2>5
<1> QED BY <1>4, <1>6, <1>7, <1>8 DEF Heard

IconFollowed ==
  /\ icon' \in [event : 0..MaxEvents, showing : BOOLEAN, blink : BOOLEAN]
  /\ icon'.event # NoEvent => Listed(icon.event)'
  /\ icon'.blink => icon'.event # NoEvent
  /\ Waiting' => icon'.event # NoEvent

LEMMA IconFollows ==
  ASSUME Inv, TypeOK', Heard, Listen
  PROVE  IconFollowed
<1>1. /\ ListenersTypeOK /\ (icon.event # NoEvent => Listed(icon.event))
      /\ (icon.blink => icon.event # NoEvent) /\ (Waiting => icon.event # NoEvent)
  BY DEF Inv, ListenersFollowEvents, ListenerEventsAreLive, AnnouncedEventIsShown, Waiting
<1>2. ASSUME UNCHANGED icon, icon.event # NoEvent => Listed(icon.event)',
             Waiting' => icon.event # NoEvent
      PROVE  IconFollowed
  BY <1>1, <1>2 DEF IconFollowed, ListenersTypeOK, Listed
<1>3. ASSUME NEW id \in 0..MaxEvents, NEW showing \in BOOLEAN, NEW blink \in BOOLEAN,
             icon' = [event |-> id, showing |-> showing, blink |-> blink],
             id # NoEvent => Listed(id)', blink => id # NoEvent, Waiting' => id # NoEvent
      PROVE  IconFollowed
  <2>1. icon'.event = id /\ icon'.blink = blink
    BY <1>3
  <2> QED BY <1>3, <2>1 DEF IconFollowed, Listed
<1>4. ASSUME NEW s, signals' = <<s>> PROVE IconHears(s)
  BY <1>4 DEF Listen
<1>5. ASSUME UNCHANGED icon, \A d : Listed(d) => Listed(d)', Waiting' => Waiting
      PROVE  IconFollowed
  <2>1. PICK ev : ev = icon.event
    OBVIOUS
  <2>2. ev # NoEvent => Listed(ev)'
    BY <1>1, <1>5, <2>1 DEF Listed
  <2>3. icon.event # NoEvent => Listed(icon.event)'
    BY <1>5, <2>1, <2>2 DEF Listed
  <2> QED BY <1>1, <1>2, <1>5, <2>3
<1>6. CASE signals' = <<>>
  BY <1>5, <1>6 DEF Heard, Listen
<1>7. ASSUME NEW id, signals' = <<Signal("updated", id)>> PROVE UNCHANGED icon
  BY <1>4, <1>7 DEF IconHears, Signal
<1>8. ASSUME NEW f \in 1..MaxEvents, signals' = <<Signal("added", f)>>,
             \A d : Listed(d)' <=> Listed(d) \/ d = f
      PROVE  IconFollowed
  <2>1. f \in 0..MaxEvents /\ f # NoEvent
    BY MaxEventsAssumption DEF NoEvent
  <2>2. CASE icon.event = NoEvent
    <3>1. PICK showing \in BOOLEAN, blink \in BOOLEAN :
            icon' = [event |-> f, showing |-> showing, blink |-> blink]
      <4> DEFINE sh == icon.showing \/ MustAck(EventWith(events', f).type)
      <4>1. icon' = [event |-> f, showing |-> sh, blink |-> icon.blink \/ sh]
        BY <1>4, <1>8, <2>2 DEF IconHears, Signal
      <4>2. sh \in BOOLEAN /\ (icon.blink \/ sh) \in BOOLEAN
        OBVIOUS
      <4> QED BY <4>1, <4>2
    <3> QED BY <1>3, <1>8, <2>1, <3>1
  <2>3. CASE icon.event # NoEvent
    <3>1. UNCHANGED icon
      BY <1>4, <1>8, <2>3 DEF IconHears, Signal
    <3>2. PICK ev : ev = icon.event
      OBVIOUS
    <3>3. Listed(ev)'
      BY <1>1, <1>8, <2>3, <3>2
    <3> QED BY <1>2, <2>3, <3>1, <3>2, <3>3 DEF Listed
  <2> QED BY <2>2, <2>3
<1>9. ASSUME NEW f \in 1..MaxEvents, signals' = <<Signal("removed", f)>>,
             \A d : Listed(d)' <=> Listed(d) /\ d # f, Waiting' => Waiting
      PROVE  IconFollowed
  <2>1. CASE icon.event = f
    <3>1. PICK top : top = TopEvent(events')
      OBVIOUS
    <3>2. top \in 0..MaxEvents /\ (top # NoEvent => Listed(top)') /\ (Waiting' => top # NoEvent)
      BY <3>1, TopIsListed DEF Listed
    <3>3. events' # <<>> => top # NoEvent
      BY <3>1, NonEmptyTop
    <3>4. icon' = [icon EXCEPT !.event = top, !.blink = @ /\ events' # <<>>]
      BY <1>4, <1>9, <2>1, <3>1 DEF IconHears, Signal
    <3>5. icon' = [event |-> top, showing |-> icon.showing, blink |-> icon.blink /\ events' # <<>>]
      BY <1>1, <3>4 DEF ListenersTypeOK
    <3>6. PICK blink \in BOOLEAN : blink = (icon.blink /\ events' # <<>>)
      OBVIOUS
    <3>7. icon.showing \in BOOLEAN
      BY <1>1 DEF ListenersTypeOK
    <3> QED BY <1>3, <3>2, <3>3, <3>5, <3>6, <3>7
  <2>2. CASE icon.event # f
    <3>1. UNCHANGED icon
      BY <1>4, <1>9, <2>2 DEF IconHears, Signal
    <3>2. PICK ev : ev = icon.event
      OBVIOUS
    <3>3. ev # NoEvent => Listed(ev)'
      BY <1>1, <1>9, <2>2, <3>2
    <3> QED BY <1>1, <1>2, <1>9, <3>1, <3>2, <3>3 DEF Listed
  <2> QED BY <2>1, <2>2
<1> QED BY <1>5, <1>6, <1>7, <1>8, <1>9 DEF Heard

(* A step of the manager that both listeners hear. *)
LEMMA HeardStep ==
  ASSUME Inv, IInv', SignalStep, Listen
  PROVE  Inv'
<1>1. IdsDistinct' /\ Heard
  BY StepIsHeard DEF Inv, IInv
<1>2. TypeOK'
  BY DEF IInv
<1>3. IconFollowed /\ /\ shown' \in 0..MaxEvents /\ bubble' \in EventTypes \union {"none"}
                      /\ shown' # NoEvent => Listed(shown)'
                      /\ bubble' # "none" => shown' # NoEvent
                      /\ Waiting' => shown' # NoEvent
  BY <1>1, <1>2, ApproverFollows, IconFollows
<1>4. enabled' \in BOOLEAN /\ crashed' \in BOOLEAN
  BY DEF Listen, Inv, ListenersFollowEvents, ListenerEventsAreLive, ListenersTypeOK
<1>5. ListenersTypeOK'
  BY <1>3, <1>4 DEF IconFollowed, ListenersTypeOK
<1>6. ListenerEventsAreLive'
  BY <1>3, <1>5 DEF IconFollowed, ListenerEventsAreLive, Listed
<1>7. AnnouncedEventIsShown'
  BY <1>3 DEF IconFollowed, AnnouncedEventIsShown, Waiting
<1> QED BY <1>1, <1>6, <1>7 DEF Inv, ListenersFollowEvents

(* A step of the listeners alone. *)
LEMMA ListenersAlone ==
  ASSUME Inv, UNCHANGED vars, UNCHANGED shown, ListenersTypeOK',
         bubble' # "none" => bubble # "none", icon'.event = icon.event,
         icon'.blink => icon.blink
  PROVE  Inv'
<1>1. IInv'
  BY StepIInv DEF Inv
<1>2. IdsDistinct'
  BY DEF Inv, IdsDistinct, Positions, vars
<1>3. Positions' = Positions /\ UNCHANGED events
  BY DEF Positions, vars
<1>4. ListenerEventsAreLive'
  BY <1>3 DEF Inv, ListenersFollowEvents, ListenerEventsAreLive, Listed
<1>5. AnnouncedEventIsShown'
  BY <1>3 DEF Inv, ListenersFollowEvents, AnnouncedEventIsShown
<1> QED BY <1>1, <1>2, <1>4, <1>5 DEF Inv, ListenersFollowEvents

(* The buttons of the bubble act on an event of the list. *)
LEMMA ShownIsListed ==
  ASSUME Inv, shown # NoEvent
  PROVE  ShownPosition \in Positions
<1>1. \E i \in Positions : events[i].id = shown
  BY DEF Inv, ListenersFollowEvents, ListenerEventsAreLive, Listed
<1> QED BY <1>1 DEF ShownPosition

LEMMA InitInv == ListenersInit => Inv
<1> SUFFICES ASSUME ListenersInit PROVE Inv
  OBVIOUS
<1>1. IInv /\ Positions = {}
  BY InitIInv DEF ListenersInit, Init, Positions
<1>2. IdsDistinct /\ AnnouncedEventIsShown
  BY <1>1 DEF IdsDistinct, AnnouncedEventIsShown
<1>3. ListenersTypeOK
  <2>1. NoEvent \in 0..MaxEvents
    BY MaxEventsAssumption DEF NoEvent
  <2> QED BY <2>1 DEF ListenersInit, ListenersTypeOK
<1>4. ListenerEventsAreLive
  BY <1>3 DEF ListenersInit, ListenerEventsAreLive
<1> QED BY <1>1, <1>2, <1>4 DEF Inv, ListenersFollowEvents

LEMMA StepInv == Inv /\ [ListenersNext]_allVars => Inv'
<1> SUFFICES ASSUME Inv, [ListenersNext]_allVars PROVE Inv'
  OBVIOUS
<1>1. IInv /\ TypeOK /\ ListenersTypeOK
  BY DEF Inv, IInv, ListenersFollowEvents, ListenerEventsAreLive
<1>2. CASE UNCHANGED allVars
  <2>1. ListenersTypeOK'
    BY <1>1, <1>2 DEF ListenersTypeOK, allVars, listenerVars
  <2> QED BY <1>2, <2>1, ListenersAlone DEF allVars, listenerVars
<1>3. ASSUME Next, Listen PROVE Inv'
  <2>1. IInv'
    BY <1>1, <1>3, StepIInv
  <2>2. SignalStep
    BY <1>1, <1>3, ManagerSignals
  <2> QED BY <1>3, <2>1, <2>2, HeardStep
<1>4. CASE WorldNext /\ Listen
  BY <1>3, <1>4 DEF Next
<1>5. CASE RosterNext
  <2>1. ASSUME NEW i \in Positions, events[i].type = "auth" PROVE events[i].approval # NoApproval
    BY <1>1, <2>1, NoApprovalAssumption DEF IInv, Structure, EventsMatch, Approvable
  <2>2. UserNext /\ Listen
    BY <1>5, <2>1 DEF RosterNext, UserNext
  <2> QED BY <1>3, <2>2 DEF Next
<1>6. CASE Crash
  <2>1. ListenersTypeOK'
    BY <1>1, <1>6 DEF Crash, ListenersTypeOK
  <2> QED BY <1>6, <2>1, ListenersAlone DEF Crash
<1>7. ASSUME NEW i \in Positions, events[i].approval # NoApproval,
             EventApprove(i) \/ EventDecline(i), Listen
      PROVE  Inv'
  <2>1. events[i].approval \in CDO /\ callEnded' \in [CDO -> BOOLEAN]
    BY <1>1, <1>7, EventsTyped DEF EventApprove, EventDecline, TypeOK
  <2>2. IInv'
    BY <1>1, <1>7, <2>1, RequestsType, SendStep DEF EventApprove, EventDecline
  <2>3. SignalStep
    BY <1>7, QuietSignals DEF EventApprove, EventDecline
  <2> QED BY <1>7, <2>2, <2>3, HeardStep
<1>8. CASE NotificationApprove \/ NotificationDecline
  <2>1. ShownPosition \in Positions
    BY <1>8, ShownIsListed DEF NotificationApprove, NotificationDecline
  <2> QED BY <1>6, <1>7, <1>8, <2>1 DEF NotificationApprove, NotificationDecline
<1>9. CASE NotificationSubscription
  <2>1. PICK i \in Positions : EventRemove(i) /\ Listen
    BY <1>9, ShownIsListed DEF NotificationSubscription
  <2>2. RemoveEventAt(i) /\ UNCHANGED <<worldVars, approvals, ringVars, contacts, display>>
    BY <2>1 DEF EventRemove
  <2>3. TypeOK'
    BY <1>1, <2>2, RemoveStep DEF TypeOK, worldVars, ringVars
  <2>4. IInv'
    BY <1>1, <2>2, <2>3, RemoveStep DEF IInv, UnseenIsUnapproved, IsApproved, worldVars
  <2> QED BY <2>1, <2>2, <2>4, HeardStep DEF SignalStep
<1>10. CASE NotificationClosed \/ ToggleEnabled
  <2>1. ListenersTypeOK'
    BY <1>1, <1>10 DEF NotificationClosed, ToggleEnabled, ListenersTypeOK
  <2> QED BY <1>10, <2>1, ListenersAlone DEF NotificationClosed, ToggleEnabled
<1>11. CASE Blink
  <2>1. ListenersTypeOK' /\ icon'.event = icon.event /\ icon'.blink = icon.blink
    BY <1>1, <1>11 DEF Blink, ListenersTypeOK
  <2> QED BY <1>11, <2>1, ListenersAlone DEF Blink
<1> QED BY <1>2, <1>4, <1>5, <1>8, <1>9, <1>10, <1>11 DEF ListenersNext

(* Whatever arrives, is answered, expires or is removed, and in whatever     *)
(* order: the bubble and the icon never point to an event that is gone, the  *)
(* buttons and the blinking always have an event behind them, and while an   *)
(* announced event waits each of the two shows one.                          *)
THEOREM ListenersAreRight == ListenersSpec => []ListenersFollowEvents
<1>1. Inv => ListenersFollowEvents
  BY DEF Inv
<1> QED BY <1>1, InitInv, StepInv, PTL DEF ListenersSpec
=============================================================================
