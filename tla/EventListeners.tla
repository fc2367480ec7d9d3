--------------------------- MODULE EventListeners ---------------------------
(***************************************************************************)
(* The two listeners of the event manager that show one event at a time:   *)
(* src/empathy-notifications-approver.c (a notification bubble with action *)
(* buttons) and src/empathy-status-icon.c (the blinking tray icon).  Both  *)
(* keep a bare EmpathyEvent pointer and react to the signals of the event  *)
(* manager within the step that emits them.                                *)
(***************************************************************************)
EXTENDS EventManager

VARIABLES shown,      \* EmpathyNotificationsApprover: priv->event, an id or 0
          bubble,     \* priv->notification: the event type its buttons are
                      \* for, or "none"
          enabled,    \* empathy_notify_manager_notification_is_enabled ()
          icon,       \* EmpathyStatusIcon: event, showing_event_icon, blink_timeout
          crashed     \* a NULL approval was dereferenced

listenerVars == <<shown, bubble, enabled, icon, crashed>>
allVars == <<vars, listenerVars>>

NoEvent == 0

(* Mutant: whatever waits behind the removed event is forgotten. *)
TopEventForgotten(list) == NoEvent

(* empathy_event_manager_get_top_event () *)
TopEvent(list) == IF list = <<>> THEN NoEvent ELSE Head(list).id

EventWith(list, id) ==
  list[CHOOSE i \in 1..Len(list) : list[i].id = id]

(* update_notification (): an open bubble is kept (updated in place, or     *)
(* shadowed by an unreferenced one on servers that append); only a new one  *)
(* gets the buttons of the event.                                           *)
UpdateNotification(id, list) ==
  bubble' = IF ~enabled \/ id = NoEvent THEN "none"
            ELSE IF bubble # "none" THEN bubble
            ELSE EventWith(list, id).type

(* event_added_cb, event_removed_cb and event_updated_cb of the bubble. *)
ApproverHears(s) ==
  CASE s.name = "added" /\ shown = NoEvent ->
         shown' = s.id /\ UpdateNotification(s.id, events')
    [] s.name = "removed" /\ shown = s.id ->
         shown' = TopEvent(events') /\ UpdateNotification(TopEvent(events'), events')
    [] s.name = "updated" /\ shown = s.id /\ enabled ->
         UNCHANGED shown /\ UpdateNotification(shown, events')
    [] OTHER -> UNCHANGED <<shown, bubble>>

(* status_icon_event_added_cb and status_icon_event_removed_cb; an update   *)
(* only changes the tooltip.                                                *)
IconHears(s) ==
  CASE s.name = "added" /\ icon.event = NoEvent ->
         LET showing == icon.showing \/ MustAck(EventWith(events', s.id).type) IN
         icon' = [event |-> s.id, showing |-> showing, blink |-> icon.blink \/ showing]
    [] s.name = "removed" /\ icon.event = s.id ->
         icon' = [icon EXCEPT !.event = TopEvent(events'),
                              !.blink = @ /\ events' # <<>>]
    [] OTHER -> UNCHANGED icon

Listen ==
  /\ IF signals' = <<>> THEN UNCHANGED <<shown, bubble, icon>>
     ELSE ApproverHears(Head(signals')) /\ IconHears(Head(signals'))
  /\ UNCHANGED <<enabled, crashed>>

-----------------------------------------------------------------------------
(* The buttons of the bubble: they act on the event shown when they are     *)
(* clicked.  add_notification_actions () *)
Buttons(type) ==
  CASE type \in {"chat", "auth"} -> {"approve"}
    [] type \in {"call", "transfer", "invitation"} -> {"approve", "decline"}
    [] type = "subscription" -> {"answer-subscription"}
    [] OTHER -> {}

ShownPosition == CHOOSE i \in Positions : events[i].id = shown

Crash == crashed' = TRUE /\ UNCHANGED <<vars, shown, bubble, enabled, icon>>

(* notification_approve_cb, notification_decline_cb: both reach             *)
(* event->approval, NULL for subscriptions and presence changes.            *)
NotificationApprove ==
  /\ "approve" \in Buttons(bubble) /\ shown # NoEvent
  /\ IF events[ShownPosition].approval = NoApproval THEN Crash
     ELSE EventApprove(ShownPosition) /\ Listen

NotificationDecline ==
  /\ "decline" \in Buttons(bubble) /\ shown # NoEvent
  /\ IF events[ShownPosition].approval = NoApproval THEN Crash
     ELSE EventDecline(ShownPosition) /\ Listen

(* notification_accept_subscription_cb, notification_decline_subscription_cb *)
NotificationSubscription ==
  /\ "answer-subscription" \in Buttons(bubble) /\ shown # NoEvent
  /\ EventRemove(ShownPosition) /\ Listen

(* notification_closed_cb: dismissed, or expired. *)
NotificationClosed ==
  /\ bubble # "none" /\ bubble' = "none"
  /\ UNCHANGED <<vars, shown, enabled, icon, crashed>>

(* Preference or presence change; consulted at the next update. *)
ToggleEnabled ==
  /\ enabled' = ~enabled
  /\ UNCHANGED <<vars, shown, bubble, icon, crashed>>

(* status_icon_blink_timeout_cb *)
Blink ==
  /\ icon.blink
  /\ icon' = [icon EXCEPT !.showing = ~@]
  /\ UNCHANGED <<vars, shown, bubble, enabled, crashed>>

(* The roster window activates any event and answers password requests; the *)
(* status icon activates its own.                                           *)
RosterNext ==
  /\ \/ \E i \in Positions :
          \/ ActivateEvent(i)
          \/ events[i].type = "auth" /\ (EventApprove(i) \/ EventDecline(i))
     \/ \E c \in CDO : DialogResponse(c)
     \/ ToggleNotifyArea
  /\ Listen

ListenersInit ==
  /\ Init
  /\ shown = NoEvent /\ bubble = "none" /\ enabled \in BOOLEAN
  /\ icon = [event |-> NoEvent, showing |-> FALSE, blink |-> FALSE]
  /\ crashed = FALSE

ListenersNext ==
  /\ ~crashed
  /\ \/ WorldNext /\ Listen
     \/ RosterNext
     \/ NotificationApprove \/ NotificationDecline \/ NotificationSubscription
     \/ NotificationClosed \/ ToggleEnabled \/ Blink

ListenersSpec == ListenersInit /\ [][ListenersNext]_allVars

-----------------------------------------------------------------------------
ListenersTypeOK ==
  /\ shown \in 0..MaxEvents
  /\ bubble \in EventTypes \union {"none"}
  /\ enabled \in BOOLEAN /\ crashed \in BOOLEAN
  /\ icon \in [event : 0..MaxEvents, showing : BOOLEAN, blink : BOOLEAN]

Listed(id) == \E i \in Positions : events[i].id = id

(* Neither listener is left with the pointer of a freed event, whatever the *)
(* order in which events are announced, activated and removed; and a bubble *)
(* with buttons and a blinking icon have an event behind them, so that a    *)
(* click never finds priv->event NULL.                                      *)
ListenerEventsAreLive ==
  /\ ListenersTypeOK
  /\ shown # NoEvent => Listed(shown)
  /\ icon.event # NoEvent => Listed(icon.event)
  /\ bubble # "none" => shown # NoEvent
  /\ icon.blink => icon.event # NoEvent

(* While some announced event waits, each listener shows one: an event that *)
(* arrives while another is shown is not forgotten.                         *)
AnnouncedEventIsShown ==
  (\E i \in Positions : events[i].announced) => shown # NoEvent /\ icon.event # NoEvent

(* What the two listeners show of the event list: nothing that is freed,    *)
(* and nothing that waits is forgotten.                                     *)
ListenersFollowEvents == ListenerEventsAreLive /\ AnnouncedEventIsShown
=============================================================================
