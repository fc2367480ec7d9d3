---------------------------- MODULE EventManager ----------------------------
(***************************************************************************)
(* src/empathy-event-manager.c: the approver of Empathy.  The channel      *)
(* dispatcher (Mission Control) offers it dispatch operations; it keeps an *)
(* approval for each of them, announces them as events, rings for calls    *)
(* and asks the dispatcher to hand the channels to a handler or claims     *)
(* them to close them.  Presence changes and subscription requests are     *)
(* events without an approval.                                             *)
(*                                                                         *)
(* `signals' is what the GObject signals of the last step delivered, in    *)
(* order: they are synchronous, so whoever listens reacts in the same step *)
(* (see EventListeners).  `cdo', `chan', `callEnded' and `requests' are    *)
(* the dispatcher's and the remote side's: calls sent over the bus stay in *)
(* `requests' until they are answered, in any order.                       *)
(***************************************************************************)
EXTENDS Integers, Sequences, FiniteSets, SequencesExt

CONSTANTS CDO,         \* the dispatch operations
          Contact,     \* the contacts of the contact list
          Bundles,     \* the channel lists an operation may carry
          MaxEvents,   \* bound: length of the event list
          NoApproval   \* "no approval": a NULL EventManagerApproval *

(* Channels.  "text" is a 1-1 chat, "muc" a joined room, "invite" a room    *)
(* we are local-pending in, "sasl" an authentication channel with the       *)
(* X-TELEPATHY-PASSWORD mechanism and "sasl-other" one without it.          *)

TextTypes  == {"text", "muc", "invite"}
MediaTypes == {"streamed-media", "call", "ft", "sasl", "sasl-other"}

(* EventManagerApproval: its channel's type and auto_approved, a connected   *)
(* signal handler, an open dialog.                                          *)
ApprovalType == [type : TextTypes \union MediaTypes, auto : BOOLEAN,
                 handler : BOOLEAN, dialog : BOOLEAN]

ASSUME MaxEventsAssumption == MaxEvents \in Nat \ {0}
ASSUME NoApprovalAssumption == NoApproval \notin CDO \union ApprovalType
ASSUME CDOAssumption == IsFiniteSet(CDO)

VARIABLES cdo, chan, callEnded, requests,      \* the world
          approvals, events, ringing, phone,   \* priv of the manager
          contacts, display, signals,
          missed                               \* history, see RingingAccount

worldVars == <<cdo, chan, callEnded, requests>>
ringVars  == <<ringing, phone, missed>>
vars == <<cdo, chan, callEnded, requests, approvals, events, ringing, phone,
          contacts, display, signals, missed>>

-----------------------------------------------------------------------------
(* The first valid media, file or authentication channel, else the last     *)
(* valid text one.                                                          *)
FindMainChannel(channels) ==
  LET OfTypes(T) == {i \in 1..Len(channels) :
                       ~channels[i].invalidated /\ channels[i].type \in T}
      media == OfTypes(MediaTypes)
      text  == OfTypes(TextTypes)
  IN  CASE media # {} -> channels[CHOOSE i \in media : \A j \in media : i <= j].type
        [] media = {} /\ text # {} ->
             channels[CHOOSE i \in text : \A j \in text : j <= i].type
        [] OTHER -> "none"

EventTypes == {"chat", "call", "transfer", "invitation", "auth",
               "subscription", "online", "offline"}

(* event->func is NULL for presence events only. *)
MustAck(type) == type \notin {"online", "offline"}

NewApproval(type) ==
  [type |-> type, auto |-> FALSE, handler |-> FALSE, dialog |-> FALSE]

IsApproved(c) == approvals[c] # NoApproval

(* Mutant: only StreamedMedia channels are counted down. *)
CountsDownOldCalls(type) == type = "streamed-media"

(* Rings: an approval whose type approval_done counts down for ... *)
CountsDown(type) == type \in {"call", "streamed-media"}
(* ... and one approve_call_channel counted up for. *)
IsRinging(c) == IsApproved(c) /\ approvals[c].type = "call" /\ approvals[c].handler

-----------------------------------------------------------------------------
(* The event list: prepended to, removed from by pointer.  Pointers are the *)
(* ids; malloc may hand out a freed one again.                              *)

Positions == 1..Len(events)
EventsOf(c) == {i \in Positions : events[i].approval = c}

FreshId == CHOOSE id \in 1..MaxEvents : \A i \in Positions : events[i].id # id

NewEvent(type, c, k) == [id |-> FreshId, type |-> type, approval |-> c,
                         contact |-> k, announced |-> display]

Signal(name, id) == [name |-> name, id |-> id]

(* event_manager_add (): signalled when events go to the notification area; *)
(* otherwise activated on the spot, unannounced.                            *)
AddEvent(type, c, k) ==
  /\ Len(events) < MaxEvents
  /\ LET e == NewEvent(type, c, k) IN
     IF display
     THEN /\ events' = <<e>> \o events
          /\ signals' = <<Signal("added", e.id)>>
     ELSE IF type \in {"subscription", "online", "offline"}
          THEN /\ events' = events          \* added, activated and removed
               /\ signals' = <<Signal("removed", e.id)>>
          ELSE /\ events' = <<e>> \o events
               /\ signals' = <<>>

(* What activation does to the approval that was just announced. *)
Announced(type, a) ==
  IF display THEN a
  ELSE [a EXCEPT !.auto = TRUE,
                 !.handler = @ /\ type # "chat",
                 !.dialog = @ \/ type \in {"call", "invitation"}]

AnnounceRequests(type, c) ==
  IF ~display /\ type \in {"chat", "transfer", "auth"}
  THEN {<<c, "handle-auto">>} ELSE {}

RemoveEventAt(i) ==
  /\ events' = RemoveAt(events, i)
  /\ signals' = <<Signal("removed", events[i].id)>>

NoEvents == UNCHANGED events /\ signals' = <<>>

-----------------------------------------------------------------------------
(* Requests to the dispatcher.  One that reaches a finished operation fails *)
(* and its callback does nothing but log: such requests are not kept.       *)

Send(new) == requests' = requests \union {r \in new : cdo[r[1]] # "finished"}
Drop(c) == {r \in requests : r[1] # c}

(* event_manager_approval_approve (): HandleWithTime, with the user's time  *)
(* unless the approval was automatic.                                       *)
ApproveRequest(c) ==
  {<<c, IF approvals[c].auto THEN "handle-auto" ELSE "handle-user">>}

(* reject_approval (): claim to close; authentication channels are closed   *)
(* by the dispatcher; a StreamedMedia approval has no handler instance.     *)
RejectRequest(c) ==
  IF approvals[c].type \in {"text", "muc", "invite", "call", "ft"}
  THEN {<<c, "claim">>}
  ELSE IF approvals[c].type \in {"sasl", "sasl-other"}
       THEN {<<c, "close">>} ELSE {}

-----------------------------------------------------------------------------
(* approve_channels () and the approve_*_channel () it branches to.         *)

Register(c, type) == approvals' = [approvals EXCEPT ![c] = NewApproval(type)]

OfferOnly(c) ==
  /\ cdo[c] = "unseen"
  /\ cdo' = [cdo EXCEPT ![c] = "offered"]
  /\ UNCHANGED <<contacts, display>>

OfferUnknown(c, type) ==        \* no main channel: not even an approval
  /\ type = "none"
  /\ OfferOnly(c) /\ NoEvents
  /\ UNCHANGED <<chan, callEnded, requests, approvals, ringVars>>

OfferInvalid(c, type) ==        \* refused, but the approval stays registered
  /\ type \in {"streamed-media", "sasl-other"}
  /\ OfferOnly(c) /\ NoEvents
  /\ Register(c, type)
  /\ UNCHANGED <<chan, callEnded, requests, ringVars>>

OfferMuc(c, type) ==            \* approved right now, no event
  /\ type = "muc"
  /\ OfferOnly(c) /\ NoEvents
  /\ approvals' = [approvals EXCEPT ![c] = [NewApproval(type) EXCEPT !.auto = TRUE]]
  /\ Send({<<c, "handle-auto">>})
  /\ UNCHANGED <<chan, callEnded, ringVars>>

(* Invitations, file transfers and password requests: one event at once.    *)
EventTypeOf(type) == CASE type = "invite" -> "invitation"
                       [] type = "ft" -> "transfer"
                       [] type = "sasl" -> "auth"

OfferAnnounced(c, type) ==
  /\ type \in {"invite", "ft", "sasl"}
  /\ OfferOnly(c)
  /\ AddEvent(EventTypeOf(type), c, NoApproval)
  /\ approvals' = [approvals EXCEPT
                     ![c] = Announced(EventTypeOf(type), NewApproval(type))]
  /\ Send(AnnounceRequests(EventTypeOf(type), c))
  /\ UNCHANGED <<chan, callEnded, ringVars>>

(* A 1-1 chat waits for a message; the ones already pending are handled now. *)
OfferText(c, type) ==
  /\ type = "text"
  /\ OfferOnly(c)
  /\ LET listening == [NewApproval(type) EXCEPT !.handler = TRUE] IN
     \/ /\ NoEvents
        /\ approvals' = [approvals EXCEPT ![c] = listening]
        /\ UNCHANGED requests
     \/ /\ AddEvent("chat", c, NoApproval)
        /\ approvals' = [approvals EXCEPT ![c] = Announced("chat", listening)]
        /\ Send(AnnounceRequests("chat", c))
  /\ UNCHANGED <<chan, callEnded, ringVars>>

StartRinging ==
  /\ ringing' = ringing + 1
  /\ phone' = (phone \/ ringing' = 1)
  /\ UNCHANGED missed

OfferCall(c, type) ==
  /\ type = "call" /\ ~callEnded[c]
  /\ OfferOnly(c)
  /\ AddEvent("call", c, NoApproval)
  /\ approvals' = [approvals EXCEPT
        ![c] = Announced("call", [NewApproval(type) EXCEPT !.handler = TRUE])]
  /\ StartRinging
  /\ UNCHANGED <<chan, callEnded, requests>>

OfferEndedCall(c, type) ==      \* "Call already ended, seems we missed it"
  /\ type = "call" /\ callEnded[c]
  /\ OfferOnly(c) /\ NoEvents
  /\ Register(c, type)
  /\ Send({<<c, "claim">>})
  /\ UNCHANGED <<chan, callEnded, ringVars>>

ApproveChannels(c) == \E b \in Bundles :
  LET type == FindMainChannel(b) IN
    \/ OfferUnknown(c, type) \/ OfferInvalid(c, type)
    \/ OfferMuc(c, type)     \/ OfferAnnounced(c, type)
    \/ OfferText(c, type)    \/ OfferCall(c, type)
    \/ OfferEndedCall(c, type)

-----------------------------------------------------------------------------
(* Signals of the channels under approval.                                  *)

(* event_manager_chat_message_received_cb (): the first incoming message    *)
(* makes the event, the next ones update it.                                *)
MessageReceived(c) ==
  /\ IsApproved(c) /\ approvals[c].type = "text" /\ approvals[c].handler
  /\ IF EventsOf(c) = {}
     THEN /\ AddEvent("chat", c, NoApproval)
          /\ approvals' = [approvals EXCEPT ![c] = Announced("chat", @)]
          /\ Send(AnnounceRequests("chat", c))
     ELSE /\ \E i \in EventsOf(c) : signals' = <<Signal("updated", events[i].id)>>
          /\ UNCHANGED <<events, approvals, requests>>
  /\ UNCHANGED <<cdo, chan, callEnded, ringVars, contacts, display>>

(* Mutant: the end of the call counts it down, approval_done does it again. *)
CallEndsCountsDown(c) ==
  /\ ~callEnded[c]
  /\ callEnded' = [callEnded EXCEPT ![c] = TRUE]
  /\ Send(IF IsRinging(c) THEN {<<c, "claim">>} ELSE {})
  /\ ringing' = IF IsRinging(c) THEN ringing - 1 ELSE ringing
  /\ NoEvents
  /\ UNCHANGED <<cdo, chan, approvals, phone, missed, contacts, display>>

(* The remote side hangs up, and event_manager_call_state_changed_cb ().    *)
CallEnds(c) ==
  /\ ~callEnded[c]
  /\ callEnded' = [callEnded EXCEPT ![c] = TRUE]
  /\ Send(IF IsRinging(c) THEN {<<c, "claim">>} ELSE {})
  /\ NoEvents
  /\ UNCHANGED <<cdo, chan, approvals, ringVars, contacts, display>>

(* cdo_invalidated_cb () -> event_manager_approval_done (): stop ringing,   *)
(* drop the approval and the first event that points to it.                 *)
StopRinging(c) ==
  IF CountsDown(approvals[c].type)
  THEN /\ ringing' = ringing - 1
       /\ phone' = (phone /\ ringing' # 0)
       /\ missed' = IF IsRinging(c) THEN missed ELSE missed + 1
  ELSE UNCHANGED ringVars

(* Mutant: the approval is freed and its event forgotten. *)
CdoInvalidatedKeepsEvent(c) ==
  /\ cdo[c] = "finished" /\ IsApproved(c)
  /\ StopRinging(c)
  /\ approvals' = [approvals EXCEPT ![c] = NoApproval]
  /\ NoEvents
  /\ UNCHANGED <<worldVars, contacts, display>>

CdoInvalidated(c) ==
  /\ cdo[c] = "finished" /\ IsApproved(c)
  /\ StopRinging(c)
  /\ approvals' = [approvals EXCEPT ![c] = NoApproval]
  /\ IF EventsOf(c) = {} THEN NoEvents
     ELSE \E i \in EventsOf(c) : /\ \A j \in EventsOf(c) : i <= j
                                 /\ RemoveEventAt(i)
  /\ UNCHANGED <<worldVars, contacts, display>>

-----------------------------------------------------------------------------
(* The user.  Every event of the list can be reached: the roster window     *)
(* loads the whole list, and the status icon falls back to its top.         *)

(* empathy_event_activate () and the event's func. *)
ActivateEvent(i) ==
  LET e == events[i]
      c == e.approval IN
  /\ IF e.type \in {"subscription", "online", "offline"}
     THEN RemoveEventAt(i) ELSE NoEvents
  /\ Send(IF e.type \in {"chat", "transfer", "auth"} THEN ApproveRequest(c) ELSE {})
  /\ approvals' =
       CASE e.type = "chat" -> [approvals EXCEPT ![c].handler = FALSE]
         [] e.type \in {"call", "invitation"} -> [approvals EXCEPT ![c].dialog = TRUE]
         [] OTHER -> approvals
  /\ UNCHANGED <<cdo, chan, callEnded, ringVars, contacts, display>>

(* Mutant: the event is removed as soon as it was answered. *)
EventApproveRemoves(i) ==
  /\ Send(ApproveRequest(events[i].approval))
  /\ RemoveEventAt(i)
  /\ UNCHANGED <<cdo, chan, callEnded, approvals, ringVars, contacts, display>>

(* empathy_event_approve () and empathy_event_decline (), of an event that  *)
(* has an approval.                                                         *)
EventApprove(i) ==
  /\ Send(ApproveRequest(events[i].approval))
  /\ NoEvents
  /\ UNCHANGED <<cdo, chan, callEnded, approvals, ringVars, contacts, display>>

EventDecline(i) ==
  /\ Send(RejectRequest(events[i].approval))
  /\ NoEvents
  /\ UNCHANGED <<cdo, chan, callEnded, approvals, ringVars, contacts, display>>

(* empathy_event_remove () *)
EventRemove(i) ==
  /\ RemoveEventAt(i)
  /\ UNCHANGED <<worldVars, approvals, ringVars, contacts, display>>

(* The call and invitation dialogs. *)
DialogResponse(c) ==
  /\ IsApproved(c) /\ approvals[c].dialog
  /\ approvals' = [approvals EXCEPT ![c].dialog = FALSE]
  /\ \/ Send(ApproveRequest(c))
     \/ Send(RejectRequest(c))
  /\ NoEvents
  /\ UNCHANGED <<cdo, chan, callEnded, ringVars, contacts, display>>

(* autoremove_event_timeout_cb (): armed for announced events without func. *)
AutoremoveTimeout(id) == \E i \in Positions :
  /\ events[i].id = id /\ ~MustAck(events[i].type)
  /\ RemoveEventAt(i)
  /\ UNCHANGED <<worldVars, approvals, ringVars, contacts, display>>

(* The "events in the notification area" preference. *)
ToggleNotifyArea ==
  /\ display' = ~display
  /\ NoEvents
  /\ UNCHANGED <<worldVars, approvals, ringVars, contacts>>

-----------------------------------------------------------------------------
(* Contacts.  contacts[k] is the row of priv->contacts with the state the   *)
(* contact is in: known, publish state Ask, online.                         *)

SubscriptionsOf(k) ==
  {i \in Positions : events[i].type = "subscription" /\ events[i].contact = k}

(* check_publish_state () *)
CheckPublishState(k, ask) ==
  IF ask THEN AddEvent("subscription", NoApproval, k)
  ELSE IF SubscriptionsOf(k) = {} THEN NoEvents
       ELSE \E i \in SubscriptionsOf(k) : /\ \A j \in SubscriptionsOf(k) : i <= j
                                          /\ RemoveEventAt(i)

ContactAdded(k, ask) ==
  /\ ~contacts[k].known
  /\ contacts' = [contacts EXCEPT ![k].known = TRUE, ![k].ask = ask]
  /\ CheckPublishState(k, ask)
  /\ UNCHANGED <<worldVars, approvals, ringVars, display>>

ContactRemoved(k) ==
  /\ contacts[k].known
  /\ contacts' = [contacts EXCEPT ![k].known = FALSE]
  /\ NoEvents
  /\ UNCHANGED <<worldVars, approvals, ringVars, display>>

PublishStateChanged(k) ==
  /\ contacts[k].known
  /\ contacts' = [contacts EXCEPT ![k].ask = ~@]
  /\ CheckPublishState(k, ~contacts[k].ask)
  /\ UNCHANGED <<worldVars, approvals, ringVars, display>>

(* event_manager_presence_changed_cb (); "just connected" accounts and the  *)
(* two notification preferences may keep the change silent.                 *)
PresenceChanged(k) ==
  /\ contacts[k].known
  /\ contacts' = [contacts EXCEPT ![k].online = ~@]
  /\ \/ NoEvents
     \/ AddEvent(IF contacts[k].online THEN "offline" ELSE "online", NoApproval, k)
  /\ UNCHANGED <<worldVars, approvals, ringVars, display>>

-----------------------------------------------------------------------------
(* The dispatcher.  It hands a channel to a handler or to the claimer once, *)
(* and the operation is then finished; or another approver, or the end of   *)
(* the channel, finishes it.  Any request may fail.                         *)

HandleOps == {"handle-auto", "handle-user", "handle-plain"}

DispatcherAccepts(c, op) ==
  /\ <<c, op>> \in requests /\ cdo[c] = "offered"
  /\ cdo' = [cdo EXCEPT ![c] = "finished"]
  /\ chan' = [chan EXCEPT ![c] = IF op \in HandleOps THEN "handled"
                                 ELSE IF op = "claim" THEN "claimed" ELSE "closed"]
  /\ requests' = Drop(c)
  /\ NoEvents
  /\ UNCHANGED <<callEnded, approvals, ringVars, contacts, display>>

DispatcherRefuses(c, op) ==
  /\ <<c, op>> \in requests
  /\ requests' = requests \ {<<c, op>>}
  /\ NoEvents
  /\ UNCHANGED <<cdo, chan, callEnded, approvals, ringVars, contacts, display>>

(* handle_with_time_cb () on NotImplemented; a call on an operation already *)
(* invalidated fails with the invalidation instead.                         *)
HandleWithTimeNotImplemented(c, op) ==
  /\ <<c, op>> \in requests /\ op \in {"handle-auto", "handle-user"}
  /\ IsApproved(c)
  /\ requests' = (requests \ {<<c, op>>}) \union {<<c, "handle-plain">>}
  /\ NoEvents
  /\ UNCHANGED <<cdo, chan, callEnded, approvals, ringVars, contacts, display>>

(* reject_channel_claim_cb () of a claim that succeeded: hang up, leave or  *)
(* close.  It owns a reference, so the approval may be gone.                *)
RejectChannelClaimed(c) ==
  /\ chan[c] = "claimed"
  /\ chan' = [chan EXCEPT ![c] = "closed"]
  /\ NoEvents
  /\ UNCHANGED <<cdo, callEnded, requests, approvals, ringVars, contacts, display>>

FinishedElsewhere(c) ==
  /\ cdo[c] = "offered"
  /\ cdo' = [cdo EXCEPT ![c] = "finished"]
  /\ requests' = Drop(c)
  /\ NoEvents
  /\ UNCHANGED <<chan, callEnded, approvals, ringVars, contacts, display>>

-----------------------------------------------------------------------------
Init ==
  /\ cdo = [c \in CDO |-> "unseen"]
  /\ chan = [c \in CDO |-> "open"]
  /\ callEnded = [c \in CDO |-> FALSE]
  /\ requests = {}
  /\ approvals = [c \in CDO |-> NoApproval]
  /\ events = <<>>
  /\ ringing = 0 /\ phone = FALSE /\ missed = 0
  /\ contacts = [k \in Contact |-> [known |-> FALSE, ask |-> FALSE, online |-> FALSE]]
  /\ display \in BOOLEAN
  /\ signals = <<>>

(* What the buttons of an event's own notification or info bar offer.       *)
UserNext ==
  \/ \E i \in Positions :
       \/ ActivateEvent(i)
       \/ events[i].approval # NoApproval /\ EventApprove(i)
       \/ events[i].type \in {"call", "transfer", "invitation", "auth"}
            /\ EventDecline(i)
       \/ events[i].type = "subscription" /\ EventRemove(i)
  \/ \E c \in CDO : DialogResponse(c)
  \/ ToggleNotifyArea

ContactNext == \E k \in Contact :
  \/ \E ask \in BOOLEAN : ContactAdded(k, ask)
  \/ ContactRemoved(k) \/ PublishStateChanged(k) \/ PresenceChanged(k)

DispatcherNext == \E c \in CDO :
  \/ \E op \in HandleOps \union {"claim", "close"} :
        \/ DispatcherAccepts(c, op) \/ DispatcherRefuses(c, op)
        \/ HandleWithTimeNotImplemented(c, op)
  \/ RejectChannelClaimed(c) \/ FinishedElsewhere(c)

(* Everything but the user. *)
WorldNext ==
  \/ ContactNext \/ DispatcherNext
  \/ \E c \in CDO : \/ ApproveChannels(c) \/ MessageReceived(c) \/ CallEnds(c)
                    \/ CdoInvalidated(c)
  \/ \E id \in 1..MaxEvents : AutoremoveTimeout(id)

Next == UserNext \/ WorldNext

(* The main loop delivers bus signals and replies, and fires its timers.    *)
Fairness ==
  /\ \A c \in CDO : WF_vars(CdoInvalidated(c)) /\ WF_vars(RejectChannelClaimed(c))
  /\ \A id \in 1..MaxEvents : WF_vars(AutoremoveTimeout(id))

Spec == Init /\ [][Next]_vars

-----------------------------------------------------------------------------
EventType == [id : 1..MaxEvents, type : EventTypes,
              approval : CDO \union {NoApproval},
              contact : Contact \union {NoApproval}, announced : BOOLEAN]

SignalType == [name : {"added", "removed", "updated"}, id : 1..MaxEvents]

RequestOps == HandleOps \union {"claim", "close"}

(* The type invariant. *)
TypeOK ==
  /\ cdo \in [CDO -> {"unseen", "offered", "finished"}]
  /\ chan \in [CDO -> {"open", "handled", "claimed", "closed"}]
  /\ callEnded \in [CDO -> BOOLEAN]
  /\ requests \subseteq CDO \X RequestOps
  /\ approvals \in [CDO -> ApprovalType \union {NoApproval}]
  /\ events \in Seq(EventType)
  /\ ringing \in Int /\ phone \in BOOLEAN /\ missed \in Nat
  /\ contacts \in [Contact -> [known : BOOLEAN, ask : BOOLEAN, online : BOOLEAN]]
  /\ display \in BOOLEAN
  /\ signals \in Seq(SignalType)

(* event->approval is a bare pointer: approval_done frees the approval and  *)
(* removes only the first event that has it.  So an event must never        *)
(* outlive its approval, and no approval may have two events.               *)
EventsHaveLiveApproval ==
  \A i \in Positions : events[i].approval # NoApproval =>
    IsApproved(events[i].approval)

OneEventPerApproval ==
  \A i, j \in Positions :
    events[i].approval = events[j].approval /\ events[i].approval # NoApproval
      => i = j

ApprovalsMatchEvents == EventsHaveLiveApproval /\ OneEventPerApproval

(* The counter is the calls that ring less the ones that were counted down  *)
(* without having been counted up (a call that had ended when it was        *)
(* offered, a StreamedMedia channel): those silence a later call.  The      *)
(* phone sounds exactly while the counter is positive, so that it is silent  *)
(* when no call waits for an answer.                                        *)
RingingAccount ==
  /\ TypeOK
  /\ ringing + missed = Cardinality({c \in CDO : IsRinging(c)})
  /\ phone <=> ringing > 0

(* The event of an approval stays until its operation is over: neither an   *)
(* answer on its way to the dispatcher nor a refused one takes it away.     *)
HasEvent(c) == EventsOf(c) # {}
EventOutlivesAnswers ==
  [][\A c \in CDO : HasEvent(c) /\ ~HasEvent(c)' => cdo[c] = "finished"]_vars

(* Once no operation is left to decide on, the phone falls silent.          *)
PhoneFallsSilent ==
  <>[](\A c \in CDO : cdo[c] # "offered") => <>[]~phone
=============================================================================
