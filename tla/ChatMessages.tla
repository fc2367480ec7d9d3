---------------------------- MODULE ChatMessages ----------------------------
(***************************************************************************)
(* The messages of one conversation: the queue of libempathy/empathy-tp-   *)
(* chat.c, the view and the unread count of libempathy-gtk/empathy-chat.c, *)
(* and the window of src/empathy-chat-window.c that marks them as read.    *)
(*                                                                         *)
(* The widget outlives its channel: a disconnection takes the channel and  *)
(* its queue away, a reconnection brings another one, with what is pending *)
(* there.  Logs and acknowledgements are answered later.  What the queue   *)
(* and the view contain matters here, not in which order.                  *)
(***************************************************************************)
EXTENDS Integers, FiniteSets

CONSTANTS
  Texts, Edits,        \* incoming messages; an edit replaces an older one
  Sents,               \* messages of ours
  RoomKinds,               \* the values of empathy_chat_is_room ()
  MaxPending,          \* bound on what waits in a new channel
  Logs                 \* stands for the last messages of the log
ASSUME ChatAssumption ==
  /\ RoomKinds \subseteq BOOLEAN /\ MaxPending \in Nat
  /\ Texts \intersect (Edits \union Sents) = {} /\ Edits \intersect Sents = {}
  /\ Logs \notin Texts \union Edits \union Sents

Messages == Texts \union Edits \union Sents

VARIABLES
  room, focused,       \* focused: the window has the focus and shows this tab
  arrived,             \* the messages that exist so far
  tpChat,              \* priv->tp_chat is set
  queue,               \* pending_messages_queue of the TpChat
  acking,              \* acknowledgements on the bus
  view,                \* what the theme was given
  unread, offline, highlighted,   \* unread_messages, unread_messages_when_offline
  canShow, retrieving  \* can_show_pending, retrieving_backlogs

widgetVars == <<view, unread, offline, highlighted, acking>>
messagesVars == <<room, focused, arrived, tpChat, queue, widgetVars, canShow, retrieving>>

Incoming(q) == q \ Sents
Unshown == Messages \ arrived

(* The widget's fields as a record, for the signals of one step. *)
Chat == [view |-> view, unread |-> unread, offline |-> offline,
         highlighted |-> highlighted, acking |-> acking]
Become(c) ==
  /\ view' = c.view /\ unread' = c.unread /\ offline' = c.offline
  /\ highlighted' = c.highlighted /\ acking' = c.acking

-----------------------------------------------------------------------------
(* empathy_chat_messages_read () *)
Read(c, q, connected, busy) ==
  IF busy THEN c
  ELSE [c EXCEPT !.acking = IF connected THEN @ \union Incoming(q) ELSE @,
                 !.highlighted = FALSE, !.unread = @ - c.offline, !.offline = 0]

(* chat_message_received () and chat_window_new_message_cb () for one       *)
(* message after another: edits are neither counted nor announced to the    *)
(* window, and any other one has a window with the focus read the queue.    *)
Show(c, ms, q, mention) ==
  LET shown == [c EXCEPT
        !.view = @ \union (ms \ Edits),
        !.unread = @ + Cardinality(ms \intersect Texts),
        !.highlighted = @ \/ (room /\ mention /\ ms \intersect Texts # {})] IN
  IF focused /\ ms \ Edits # {} THEN Read(shown, q, TRUE, retrieving) ELSE shown

(* show_pending_messages () *)
ShowPending(c, q, mention) == Show(c, q, q, mention)

-----------------------------------------------------------------------------
(* A channel comes with the messages that wait there. *)
Queues == {T \in SUBSET (Texts \union Edits) : IsFiniteSet(T) /\ Cardinality(T) <= MaxPending}

(* chat_constructed (): a room shows what is pending at once, a private     *)
(* chat asks for its logs first.                                            *)
MessagesInit ==
  /\ room \in RoomKinds /\ focused = FALSE
  /\ queue \in Queues /\ arrived = queue
  /\ tpChat = TRUE
  /\ canShow = room /\ retrieving = ~room
  /\ \E mention \in BOOLEAN :
       LET empty == [view |-> {}, unread |-> 0, offline |-> 0,
                     highlighted |-> FALSE, acking |-> {}]
           c == IF room THEN ShowPending(empty, queue, mention) ELSE empty IN
       /\ view = c.view /\ unread = c.unread /\ offline = c.offline
       /\ highlighted = c.highlighted /\ acking = c.acking

(* tp_chat_build_message () queues what was received or sent and signals it. *)
MessageReceived(m, mention) ==
  /\ tpChat /\ m \in Unshown
  /\ arrived' = arrived \union {m}
  /\ queue' = queue \union {m}
  /\ Become(Show(Chat, {m}, queue', mention))
  /\ UNCHANGED <<room, focused, tpChat, canShow, retrieving>>

(* Mutant: the messages are read before the flag is reset. *)
GotLogsTooEarly ==
  /\ retrieving
  /\ LET logged == [Chat EXCEPT !.view = @ \union {Logs}]
         shown == IF tpChat THEN ShowPending(logged, queue, FALSE) ELSE logged IN
     Become(Read(shown, queue, tpChat, retrieving))
  /\ canShow' = TRUE /\ retrieving' = FALSE
  /\ UNCHANGED <<room, focused, arrived, tpChat, queue>>

(* got_filtered_messages_cb (), with the logs or with an error: the logs,   *)
(* then what is pending, which is taken for read.                           *)
GotLogs ==
  /\ retrieving
  /\ LET logged == [Chat EXCEPT !.view = @ \union {Logs}]
         shown == IF tpChat THEN ShowPending(logged, queue, FALSE) ELSE logged IN
     Become(Read(shown, queue, tpChat, FALSE))
  /\ canShow' = TRUE /\ retrieving' = FALSE
  /\ UNCHANGED <<room, focused, arrived, tpChat, queue>>

(* pending_message_removed_cb () and chat_message_acknowledged_cb () *)
MessageAcknowledged(m) ==
  /\ tpChat /\ m \in acking
  /\ acking' = acking \ {m}
  /\ queue' = queue \ {m}
  /\ unread' = unread - (IF m \in Edits THEN 0 ELSE 1)
  /\ UNCHANGED <<room, focused, arrived, tpChat, view, offline, highlighted,
                 canShow, retrieving>>

(* Mutant: what is still being acknowledged does not count as unread. *)
InvalidatedDropsAcks ==
  /\ tpChat
  /\ tpChat' = FALSE /\ queue' = {} /\ acking' = {}
  /\ unread' = unread - Cardinality(acking) /\ offline' = unread
  /\ UNCHANGED <<room, focused, arrived, view, highlighted, canShow, retrieving>>

(* chat_invalidated_cb () *)
ChannelInvalidated ==
  /\ tpChat
  /\ tpChat' = FALSE /\ queue' = {} /\ acking' = {}
  /\ offline' = unread
  /\ UNCHANGED <<room, focused, arrived, view, unread, highlighted, canShow, retrieving>>

(* empathy_chat_set_tp_chat () with the channel of the new connection *)
Reconnected(q, mention) ==
  /\ ~tpChat /\ q \subseteq Unshown
  /\ tpChat' = TRUE /\ queue' = q /\ arrived' = arrived \union q
  /\ Become(IF canShow THEN ShowPending(Chat, q, mention) ELSE Chat)
  /\ UNCHANGED <<room, focused, canShow, retrieving>>

(* chat_window_focus_in_event_cb () and chat_window_page_switched_cb () *)
FocusIn ==
  /\ ~focused /\ focused' = TRUE
  /\ Become(Read(Chat, queue, tpChat, retrieving))
  /\ UNCHANGED <<room, arrived, tpChat, queue, canShow, retrieving>>

FocusOut ==
  /\ focused /\ focused' = FALSE
  /\ UNCHANGED <<room, arrived, tpChat, queue, widgetVars, canShow, retrieving>>

MessagesNext ==
  \/ \E m \in Messages, mention \in BOOLEAN : MessageReceived(m, mention)
  \/ GotLogs
  \/ \E m \in Messages : MessageAcknowledged(m)
  \/ ChannelInvalidated
  \/ \E q \in Queues, mention \in BOOLEAN : Reconnected(q, mention)
  \/ FocusIn \/ FocusOut

(* The log manager answers, and the connection manager takes acknowledgements. *)
MessagesFairness ==
  /\ WF_messagesVars(GotLogs)
  /\ \A m \in Messages : WF_messagesVars(MessageAcknowledged(m))

MessagesSpec == MessagesInit /\ [][MessagesNext]_messagesVars /\ MessagesFairness

-----------------------------------------------------------------------------
(* The type invariant. *)
MessagesTypeOK ==
  /\ {room, focused, tpChat, highlighted, canShow, retrieving} \subseteq BOOLEAN
  /\ arrived \subseteq Messages
  /\ queue \subseteq arrived /\ acking \subseteq Incoming(queue)
  /\ view \subseteq arrived \union {Logs}
  /\ {unread, offline} \subseteq Nat

(* The unread count is an unsigned integer that acknowledgements and the    *)
(* reading of offline messages decrease: together they never take more than *)
(* was counted, across disconnections in the middle of both.  In a room it  *)
(* is "the number of unread messages": those shown of this channel that     *)
(* nobody acknowledged, and those that were unread when the last one went,  *)
(* and only such messages highlight the tab.  (A private chat shows and     *)
(* counts twice what comes while its logs are fetched.)  Bug#610994:        *)
(* nothing is acknowledged before it was shown.                             *)
UnreadIsExact ==
  /\ MessagesTypeOK
  /\ unread - offline >= Cardinality(acking \intersect Texts)
  /\ room => unread = offline + Cardinality(queue \intersect view \intersect Texts)
  /\ highlighted => unread > 0
  /\ acking \intersect Texts \subseteq view

(* A chat that keeps the focus has its messages acknowledged, those too     *)
(* that came while the logs were fetched or before the window existed.      *)
FocusedGetsRead ==
  <>[](focused /\ tpChat) => []<>(queue \intersect Texts = {})
=============================================================================
