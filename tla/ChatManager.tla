---------------------------- MODULE ChatManager ----------------------------
(***************************************************************************)
(* The chats on screen: the text handler and the closed chats of           *)
(* src/empathy-chat-manager.c, the windows, tabs and close confirmations   *)
(* of src/empathy-chat-window.c.                                           *)
(*                                                                         *)
(* A chat stands for its account, id and SMS flag, by which                *)
(* empathy_chat_window_find_chat () finds it: no two on screen are equal.  *)
(***************************************************************************)
EXTENDS Naturals, Sequences, FiniteSets, SequencesExt

CONSTANTS
  Chats, Rooms, Sms,   \* the chats; those that are rooms, and by SMS
  Ids, Id(_),          \* account and id: an SMS chat shares those of the chat
  Windows,             \* one more than the chats is always enough
  Drafts, NoText,       \* what the user has typed
  Typed,               \* bound: the chats the user types in
  MaxClosed,           \* bound on the queue of closed chats
  None
ASSUME ManagerAssumption ==
  /\ Rooms \union Sms \union Typed \subseteq Chats /\ \A c \in Chats : Id(c) \in Ids
  /\ NoText \in Drafts /\ None \notin Chats \union Windows
  /\ IsFiniteSet(Chats) /\ IsFiniteSet(Windows) /\ Cardinality(Windows) > Cardinality(Chats)

VARIABLES
  windows, tabs,       \* chat_windows, and the chats of each
  live,                \* the chats with a channel
  text, drafts,        \* the text views; priv->messages
  closed,              \* closed_queue
  dialog,              \* the confirmation: its window, and the chat or None
  left                 \* ghost: the text a chat had when it went off the screen

windowsVars == <<windows, tabs, live, text, drafts, closed, dialog, left>>

Open == UNION {ToSet(tabs[w]) : w \in Windows}
WindowOf(c) == CHOOSE w \in Windows : c \in ToSet(tabs[w])
NewWindow == CHOOSE w \in Windows : w \notin ToSet(windows)

(* chat_needs_close_confirmation () *)
NeedsConfirmation(c) == c \in Rooms /\ c \in live

-----------------------------------------------------------------------------
WindowsInit ==
  /\ windows = <<>> /\ tabs = [w \in Windows |-> <<>>]
  /\ live = {} /\ text = [c \in Chats |-> NoText]
  /\ drafts = [i \in Ids |-> NoText] /\ left = [c \in Chats |-> NoText]
  /\ closed = <<>> /\ dialog = None

(* empathy_chat_window_get_default () *)
Default(c) ==
  LET fit == {i \in DOMAIN windows :
               \E d \in ToSet(tabs[windows[i]]) : (d \in Rooms) = (c \in Rooms)} IN
  IF fit = {} THEN NewWindow ELSE windows[Min(fit)]

(* empathy_chat_window_add_chat (), to a window that may be new *)
AddTo(w, c, ws) == IF w \in ToSet(ws) THEN ws ELSE <<w>> \o ws

(* process_tp_chat (): an open chat takes the channel, another one pops up  *)
(* with its draft.                                                          *)
Handle(c, separate) ==
  /\ c \notin live
  /\ live' = live \union {c}
  /\ IF c \in Open THEN UNCHANGED <<windows, tabs, text, left>>
     ELSE LET w == IF separate THEN NewWindow ELSE Default(c) IN
          /\ windows' = AddTo(w, c, windows)
          /\ tabs' = [tabs EXCEPT ![w] = Append(@, c)]
          /\ text' = [text EXCEPT ![c] = drafts[Id(c)]]
          /\ left' = [left EXCEPT ![c] = NoText]
  /\ UNCHANGED <<drafts, closed, dialog>>

(* The channel goes: a disconnection, a kick, or /part. *)
ChannelLost(c) ==
  /\ c \in live /\ live' = live \ {c}
  /\ UNCHANGED <<windows, tabs, text, drafts, closed, dialog, left>>

(* empathy_chat_manager_closed_chat (), for one chat or several in order:   *)
(* the last one of an id leaves its draft.                                  *)
ClosedChat(cs) ==
  /\ Len(closed) + Len(cs) <= MaxClosed
  /\ closed' = closed \o cs
  /\ drafts' = [i \in Ids |-> LET own == {k \in DOMAIN cs : Id(cs[k]) = i} IN
                              IF own = {} THEN drafts[i] ELSE text[cs[Max(own)]]]
  /\ left' = [c \in Chats |-> IF c \in ToSet(cs) THEN text[c] ELSE left[c]]

(* empathy_chat_window_remove_chat (), the page's removal and the end of    *)
(* one chat or of all, which leave their channels; a window goes with its   *)
(* last tab.                                                                *)
RemoveChats(w, cs) ==
  /\ ClosedChat(cs)
  /\ tabs' = [tabs EXCEPT ![w] = IF cs = @ THEN <<>> ELSE RemoveFirst(@, cs[1])]
  /\ windows' = IF tabs'[w] = <<>> THEN RemoveFirst(windows, w) ELSE windows
  /\ live' = live \ ToSet(cs)
  /\ text' = [c \in Chats |-> IF c \in ToSet(cs) THEN NoText ELSE text[c]]

(* maybe_close_chat () and confirm_close () *)
CloseTab(c) ==
  /\ dialog = None /\ c \in Open
  /\ IF NeedsConfirmation(c)
     THEN /\ dialog' = [window |-> WindowOf(c), chat |-> c]
          /\ UNCHANGED <<windows, tabs, live, text, drafts, closed, left>>
     ELSE RemoveChats(WindowOf(c), <<c>>) /\ UNCHANGED dialog

(* Mutant: one room in a window is not asked for. *)
CloseWindowOneRoom(w) ==
  /\ dialog = None /\ w \in ToSet(windows)
  /\ LET rooms == {c \in ToSet(tabs[w]) : NeedsConfirmation(c)} IN
     IF Cardinality(rooms) > 1
     THEN /\ dialog' = [window |-> w, chat |-> None]
          /\ UNCHANGED <<windows, tabs, live, text, drafts, closed, left>>
     ELSE RemoveChats(w, tabs[w]) /\ UNCHANGED dialog

(* chat_window_delete_event_cb () and confirm_close (): a window with one   *)
(* tab is closed like that tab.                                             *)
CloseWindow(w) ==
  /\ dialog = None /\ w \in ToSet(windows)
  /\ LET rooms == {c \in ToSet(tabs[w]) : NeedsConfirmation(c)} IN
     IF rooms # {}
     THEN /\ dialog' = [window |-> w,
                        chat |-> IF Len(tabs[w]) = 1 THEN tabs[w][1] ELSE None]
          /\ UNCHANGED <<windows, tabs, live, text, drafts, closed, left>>
     ELSE RemoveChats(w, tabs[w]) /\ UNCHANGED dialog

(* confirm_close_response_cb (): the rooms may be others by now. *)
Confirm ==
  /\ dialog # None /\ dialog' = None
  /\ RemoveChats(dialog.window, IF dialog.chat = None THEN tabs[dialog.window] ELSE <<dialog.chat>>)

Refuse ==
  /\ dialog # None /\ dialog' = None
  /\ UNCHANGED <<windows, tabs, live, text, drafts, closed, left>>

(* chat_window_page_removed_cb () and chat_window_page_added_cb () *)
MovePage(c, w) ==
  /\ c \in Open /\ w # WindowOf(c)
  /\ LET old == WindowOf(c)
         without == [tabs EXCEPT ![old] = RemoveFirst(@, c)]
         ws == IF without[old] = <<>> THEN RemoveFirst(windows, old) ELSE windows IN
     /\ tabs' = [without EXCEPT ![w] = Append(@, c)]
     /\ windows' = AddTo(w, c, ws)
  /\ UNCHANGED <<live, text, dialog>>

(* empathy_chat_window_move_chat (): removed as if closed, and added. *)
Move(c, w) == MovePage(c, w) /\ ClosedChat(<<c>>)

(* chat_window_detach_activate_cb () and notebook_create_window_cb () *)
Detach(c) == dialog = None /\ Move(c, NewWindow)

(* A tab dragged to another window is moved by the notebooks. *)
DragTab(c, w) ==
  /\ dialog = None /\ w \in ToSet(windows) /\ MovePage(c, w)
  /\ UNCHANGED <<closed, drafts, left>>

(* Mutant: a room can be dropped too. *)
DropAny(c, w) == w \in ToSet(windows) /\ Move(c, w)

(* chat_window_drag_data_received (): a contact of the roster.  Drops are   *)
(* delivered in spite of a modal dialog.                                    *)
Drop(c, w) == c \notin Rooms \union Sms /\ w \in ToSet(windows) /\ Move(c, w)

(* empathy_chat_manager_undo_closed_chat (), from a menu or over D-Bus: the *)
(* channel it asks for is handled some time, or not.                        *)
Undo ==
  /\ closed # <<>> /\ closed' = Front(closed)
  /\ UNCHANGED <<windows, tabs, live, text, drafts, dialog, left>>

Type(c, t) ==
  /\ dialog = None /\ c \in Open /\ text' = [text EXCEPT ![c] = t]
  /\ UNCHANGED <<windows, tabs, live, drafts, closed, dialog, left>>

WindowsNext ==
  \/ \E c \in Chats, separate \in BOOLEAN : Handle(c, separate)
  \/ \E c \in Chats : ChannelLost(c) \/ CloseTab(c) \/ Detach(c)
  \/ \E c \in Chats, w \in Windows : DragTab(c, w) \/ Drop(c, w)
  \/ \E c \in Typed, t \in Drafts : Type(c, t)
  \/ \E w \in Windows : CloseWindow(w)
  \/ Confirm \/ Refuse \/ Undo

WindowsSpec == WindowsInit /\ [][WindowsNext]_windowsVars

-----------------------------------------------------------------------------
(* The type invariant: every chat is in one tab, no window without tabs.    *)
WindowsTypeOK ==
  /\ IsInjective(windows) /\ ToSet(windows) = {w \in Windows : tabs[w] # <<>>}
  /\ tabs \in [Windows -> Seq(Chats)]
  /\ \A w \in Windows : IsInjective(tabs[w])
  /\ \A v, w \in Windows : v # w => ToSet(tabs[v]) \intersect ToSet(tabs[w]) = {}
  /\ live \subseteq Open
  /\ text \in [Chats -> Drafts] /\ drafts \in [Ids -> Drafts] /\ left \in [Chats -> Drafts]
  /\ closed \in Seq(Chats)

(* The dialog keeps a pointer to its window and to its chat, by which the   *)
(* response closes them: the window is there and the chat is in it.         *)
DialogFindsChat ==
  dialog # None => /\ dialog.window \in ToSet(windows)
                   /\ dialog.chat # None => dialog.chat \in ToSet(tabs[dialog.window])

(* "save it to our hash table so it can be used again when the same chat    *)
(* pops up": the draft of a chat that is not on screen is what it was       *)
(* closed with, whatever was closed or detached since.  A chat by SMS has   *)
(* no draft of its own.                                                     *)
HasOwnDraft(c) == \A d \in Chats : Id(d) = Id(c) => d = c
DraftIsLast == \A c \in Chats \ Open : HasOwnDraft(c) => drafts[Id(c)] = left[c]

(* Chats are neither lost by their windows nor their drafts by the manager: *)
(* the dialog of a window finds its chat, and a chat its last draft.        *)
ChatsAreKept == WindowsTypeOK /\ DialogFindsChat /\ DraftIsLast

(* A room the user is in is only left from a window that asked first.       *)
RoomsAreAsked ==
  [][\A c \in Rooms : NeedsConfirmation(c) /\ c \notin Open' =>
       dialog # None /\ c \in ToSet(tabs[dialog.window])]_windowsVars
=============================================================================
