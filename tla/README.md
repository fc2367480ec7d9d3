# A verification project for Empathy

Empathy is the GNOME instant messaging, voice and file transfer client. It is written in C against GLib and talks
over D-Bus to Telepathy: *connection managers* (CM) own the channels (a chat, a call, a transfer), and *Mission
Control* (MC) keeps the accounts and dispatches new channels to clients in three roles, *observers* who see each one,
*approvers* who ask the user, and *handlers* who own it in the end. Almost everything Empathy does is an asynchronous
request followed by a callback on the main loop, while the user, the contact and the CM go on; that is what is modelled.

Contents: [the system](#the-system), [modules](#the-modules), [runs](#the-runs), [fairness](#fairness),
[proofs](#what-is-proved), [disagreements](#disagreements-between-the-code-and-what-is-said-of-it),
[what is left out](#what-is-not-modelled), [plan](#plan).

To run everything: `tlc -config X.cfg M` for each pair of the table of runs, and `tlapm M.tla` for `ListFacts`,
`EventManagerProofs`, `EventListenersProofs`, `ServicesProofs`, `TextChatProofs`, `AccountsProofs`, `CallsProofs` and `ContactListProofs`
(from nothing, a few minutes each).

## The system

Four processes: `empathy` (roster, events, transfers), `empathy-chat` (text channels), `empathy-call` (calls),
`empathy-auth-client` (passwords and certificates). Each has one main loop; the only other threads are the one of the
I/O scheduler that hashes files and GStreamer's streaming threads in a call. They share the keyring, the settings and one file, the favorite rooms. The accounts dialog runs in
`empathy-accounts`, the log window inside `empathy` and `empathy-chat`.

| component | state it keeps | operations | talks to | what is hard | what makes it correct |
|---|---|---|---|---|---|
| event manager (`src/empathy-event-manager.c`) | approvals, the list of events, the count of ringing calls | a channel is offered, answered, declined, ends; presence and subscription changes | MC (HandleWithTime, Claim), the sound manager, listeners by synchronous signals | answers, hang-ups and the end of an operation come in any order; events point to approvals that are freed elsewhere | no dangling approval, one event each, the phone rings only for a call that waits and falls silent |
| event listeners (`src/empathy-notifications-approver.c`, `src/empathy-status-icon.c`) | the one event on show, a bubble, a blinking icon | follow the signals; the user answers | the event manager, in the same step | the event on show is removed and the next one taken in the middle of a signal | pointers stay live, no announced event is forgotten |
| file transfer handler (`libempathy/empathy-ft-handler.c`, `-factory.c`) | what it waits for, cancellable, channel, hash job | start, stop, a dozen asynchronous answers | CM, MC, GIO, a thread | a stop or an error in each step; references that callbacks do not take | the signals follow the protocol of the header, a stop ends the transfer |
| file transfer window (`src/empathy-ft-manager.c`) | a row per handler, connected signals, two buttons | show, clear, stop, close, Escape | the handler's signals | rows, handlers and the manager die in different orders | a row tells the truth and stays while its transfer runs |
| sound manager (`libempathy-gtk/empathy-sound-manager.c`) | the table of repeating sounds: widget, timer | play, start, stop | libcanberra, GtkWidget::destroy | the callback of a play frees or reschedules the entry that stop also frees | the user data of a callback is alive; what is stopped is silent |
| chat widget (`libempathy-gtk/empathy-chat.c`) | the view, unread counts, log retrieval, password bars | messages, edits, acknowledgements, focus, (re)connection | TpChat, logger, keyring | messages while the logs are fetched; channels that go and come back under the same widget | nothing acknowledged unseen, exact counts, no bar of a dead channel |
| text channel (`libempathy/empathy-tp-chat.c`) | readiness, members, messages being sent | prepare, join, part, rename, send, reports | CM | three answers needed before it is ready, in any order; reports that wait before anybody listens | members and counts as on the server, failures told |
| chat manager and windows (`src/empathy-chat-manager.c`, `src/empathy-chat-window.c`) | windows, tabs, drafts, closed chats, the confirmation dialog | handle, close, undo, detach, drag, drop | MC, TpChat | everything changes while a dialog is up | the dialog's chat exists, the draft is the last one, rooms are left only when asked |
| presence manager (`libempathy/empathy-presence-manager.c`) | state, saved state, idleness, extended-away timer | the user's request, the session's idleness, the timer | account manager, gnome-session | requests are applied later than they are made; outages | the user comes back to the presence asked for, and offline stays offline |
| calls (`src/empathy-call-window.c`, `-handler.c`, `-factory.c`, `-observer.c`, `empathy-call.c`) | the window's state, ring, timer, a handler, observed channels | offer, accept, refuse, hang up, redial, present | CM, MC, Farstream, GStreamer | the channel, the pipeline and the window become ready in any order; redialling in the same window | an answered call is accepted, one call at a time, sound and timer follow the call |
| camera and video of a call (`src/empathy-call-window.c`, `src/empathy-camera-menu.c`, `libempathy/empathy-camera-monitor.c`, `libempathy-gtk/empathy-call-utils.c`) | the camera's button, state and input, a preview with two buttons, the output and its timer | toggle, minimise, maximise, disable, change of webcam, plug and unplug; frames come and stop | GStreamer and its threads, the call channel, udev | preview, input and button are changed by a dozen handlers, a new pipeline among them; a flag shared with a thread | the camera films only where the user sees it, the channel is told, the last frame goes |
| favorite rooms (`libempathy/empathy-chatroom-manager.c`, `empathy-chatroom.c`) | in each of two processes the list of rooms and a save timer; one file | add, remove, join, leave, mark, save, reload | the other process through the file, GFileMonitor | both save over each other and reload in the middle | no change unsaved, both agree in the end |
| authentication client (`src/empathy-auth-client.c`, `libempathy/empathy-auth-factory.c`, the SASL, TLS, GOA and UOA handlers) | observed channels, handlers by path, retry passwords, dialogs, a count of certificate dialogs and a timer | observe, look up, claim, handle, give a password, retry; verify a certificate; quit | MC, CM, keyring, GnuTLS, the sign-on services | each turn of the main loop may find the channel gone; a saved password that is wrong, and its retry; a process that quits by itself | what is saved is right, a password is found or asked for, no handler outlives its channel, no question is lost with the process |
| contacts (`libempathy/empathy-individual-manager.c`, `libempathy-gtk/empathy-roster-model-manager.c`) | members, a sequence sorted by popularity, the top of it | individuals come, go, are linked; groups, favourites, popularity change | folks, by synchronous signals | a link puts one object in the place of another; plain pointers; a list changed while it is walked | listeners know exactly the members and the groups of each |
| contact list (`libempathy-gtk/empathy-roster-view.c`, `-group.c`, `-contact.c`, `empathy-live-search.c`) | rows, headers, a cache of displayed rows, a queue of events | the model's signals, layout, search, expansion, flashing | the model, GtkListBox | groups left and joined, the filter asked row by row in the middle of removals | a row for each contact in each of its groups, the filter up to date |
| main window (`src/empathy-roster-window.c`) | error bars, balances, page, throbber, idle callbacks | accounts and contacts are loaded, fail, connect, go | account manager, event manager, the view | accounts and contacts in any order; events loaded again | what it says of the accounts is true, the oldest event is one that waits |
| account settings and widget (`libempathy/empathy-account-settings.c`, `libempathy-gtk/empathy-account-widget.c`) | values set and unset, password, readiness, the call being applied | edit, apply, cancel, log in; four answers to a chain of calls | account manager, connection managers, keyring | parts get ready in any order, each call may fail, the user edits on | what was applied is what is stored, every apply is answered |
| accounts dialog (`src/empathy-accounts-dialog.c`) | rows, the settings on show or waited for, questions, the dialog of the parameters | select, add, remove, edit; accounts come, go, become invalid | account manager, the widget | modal questions about an account that goes; settings freed or replaced while waited for | details of the selected account; what is removed is what was asked about |
| log window (`libempathy-gtk/empathy-log-window.c`, `libempathy/action-chain.c`) | four panes, a chain of calls, a counter, search hits | choose, search, delete, reopen; answers of the logger | telepathy-logger, its observer | a choice while a chain runs: outdated answers, a chain that must go on, a spinner nobody stops | the events on show are those of the panes; loading ends |
| location manager (`libempathy-gtk/empathy-location-manager.c`) | the location, what of GeoClue is set up, a timer | publish, reduce the accuracy, report, publish to all | GeoClue, account manager | the settings change between a report, the timer and the connections | contacts see nothing once publication is off, and no part as exact that the code reduces |
| microphones, importers, themes, older contact tree, ... | mostly that of their library | | | see [below](#what-is-not-modelled) | |

Interactions that are modelled across components: the event manager's signals and its two listeners
(`EventListeners` extends `EventManager`); the transfer handler's signals and the window (`FTManager` extends
`FTHandler`), and the promise of the handler's header (`FTHandler` refines `TransferProtocol`); call channel, observer,
factory, handler and window (one module, `CallWindow`); the two processes and their file (`ChatroomManager`); the
queue of a text channel and the chat widget (`ChatMessages`); passwords and certificates in one process with one timer
(`AuthClient` extends `AuthFactory` and `ServerCertificates`). The event manager's use of the sound manager is one
variable, `phone`; `SoundManager` has the details.

`PROJECT.json` lists the hazards, each at the line where it bites, with the properties that would catch it.

## The modules

Each module names the C function above the action or operator that models it; an action is a whole callback or
handler of the main loop, with the synchronous signals it emits. What belongs to others (MC, CM, libcanberra, the
keyring, the user) is as free as the code's use of it allows. Variables called *history* in their declaration are
not in the program: they record what a property is about.

**`EventManager`** (`MCEventManager`, proofs in `EventManagerProofs`, lemmas on lists in `ListFacts`).
`cdo`, `chan`, `callEnded` and `requests` are the world: a dispatch operation is unseen, offered, then finished;
a request on D-Bus stays in `requests` until it is answered. `approvals`, `events`, `ringing`, `phone`, `contacts`,
`display` are the manager's. A pointer is the operation (for an approval) or a small id (for an event; ids are reused
as malloc reuses addresses). `signals` is what the last step emitted.

**`EventListeners`** (`MCEventListeners`, proofs in `EventListenersProofs`) extends it with the bubble and the status icon; `Listen` folds the signals
of the step over both.

**`FTHandler`**: the handler from factory to last signal, both directions. `step` is what it waits for, `refs` who
holds a reference, `job`, `read`, `idles` the hashing thread and the idle callbacks it queued. **`TransferProtocol`** is the
abstract specification, the state machine the header comment draws; `Protocol!Spec` is a property of the run, with
the mapping `Phase`. **`FTManager`** extends the handler with its row, the window and its buttons; `wild` records a
callback that found no row, no manager or no handler.

**`SoundManager`**: `loop` and `widget` are the hash table, `sounding` and `callback`
libcanberra. `late` is a constant of a behaviour: whether a finish callback may come after the end it reports.

**`ChatMessages`**: one chat; `queue` is the channel's pending messages, `view` what the theme was given (`Logs` for
the backlog), `unread` and `offline` the two counters. **`ChatPassword`**: the successive channels of a room; a lookup is
kept under the channel that started it (`stage`, `on`). **`TpChat`**: readiness, the group, delivery.
**`ChatManager`**: `windows` and `tabs` are the lists of the C code in their order; a chat stands for
account, id and SMS flag; `drafts` is keyed by account and id only, as `priv->messages` is.

The messages of `queue` and `view` are sets: what is asked of them is which are pending and which are shown, never their
order. `MCTextChat` puts the four beside each other for one run, `TextChatProofs` has the proofs about all of them.

**`PresenceManager`**: `requests` are on their way to the account manager, `applied` and `state` what came of them.

**`CallWindow`**: the calls with one contact, `1..MaxCalls` in order; `win` and `handler` are records of the private
fields, `cdo` what MC does with each channel, `asked` the requests to the channels, `bells` the operations whose
invalidation calls the window back. Calls with other contacts are the variable `other`.
`CallsProofs` has the proofs about this module and the next.

**`CallCamera`** (`MCCalls` has it beside `CallWindow`): the user's camera in the same window; `cam` is a record of the private fields,
with the operators on it named for the C functions, `asked` the requests to the channel's contents that are on the bus, `channel`
what the connection manager has of the video, `cameras` how many are plugged. **`CallOutput`**: the contact's video; the
streaming thread's steps (`SrcAdded`, `ProbeShows`, `ProbeNotes`) interleave with those of the main thread, the probe in the
middle of its test and set of `gotVideo`.

**`ChatroomManager`**: `up`, `list`, `timer`, `writing` per process, the `file` and the processes that are to hear of its
change. A save has two steps, because the file is rewritten in place. `MCServices` has the sounds, the presence, the
rooms, the transfers and the contact's video side by side; `ServicesProofs` the proofs about the sounds, the presence,
the rooms, the transfers and the location.

**`AuthFactory`**: successive attempts to connect one account; `stage` is where the factory is with each channel
(observed, approver, claimed, making its handler, ...), `table` its handlers by object path, `idle` the callbacks that give a
password, `keyring` and `retry` the saved and the new password, `right` the one the server takes. Single sign-on is the
same life with the calls of GOA or UOA. **`ServerCertificates`**: the handler, the verifier and the dialog of each certificate, the
exceptions stored (`pinned`), `numWindows` and the timer. **`AuthClient`** (`MCAuthClient`) composes them: the process quits
under both. `AccountsProofs` has the proofs, with those of the accounts dialog.

**`LocationManager`** (beside them in `MCAuthClient`, for the run only): `location` has the street, the rest of the address (`"place"`), the coordinates
and the altitude (with the accuracy in metres), each none, exact or, for the coordinates, reduced; the reduced accuracy leaves out the street,
truncates the coordinates and touches nothing else (`Accuracy`). `calls` and `sources` are the set-up of GeoClue, a chain of calls of which each may fail; `told` what each connection was last sent.

**`RosterModel`**: `folks` is the library's view of the individuals, `manager` and `roster` the two C objects, `told` what a listener
of the model's signals has been told. A handler is an operator from a record of all that state to a set of such records: the sets
come from freed memory that is read; the loops over the lists are closed forms (`Picked`, `Place`). **`RosterView`**: `view` is the list box with its hash tables, header rows, cache and queue of
events; what a loop over rows, headers, individuals or events does is said of the set of them, in closed form (`FilterRows`, `AddRows`,
`AddEvents`), and where the order of the box tells, which is where the list is found empty on the way, `Precedes` is that order. **`RosterWindow`**: per account its bar,
balance row and whether it is listened to; the page and the throbber. `MCContactList` has them, and the log window, side by side;
`ContactListProofs` the proofs about the individuals, the list and both windows.

**`AccountEditor`**: `stored` is what the account manager and the keyring have, `prep` what the settings wait for, `own` the values of
`EmpathyAccountSettings`, `editor` the widget, `applying` the call under way: parameters, then telephone association, keyring,
reconnection. `missed` records the cases in which entries and settings come apart (see the disagreements). **`AccountsDialog`**: `am` the
accounts of the account manager, `dialog` the rows, the selection, the settings on show or waited for and the object their handler
is connected to, `params` the dialog with the widget, `question` the modal one. `MCAccounts` has both side by side.

**`LogWindow`**: `win` is `priv`: what the panes list and what is selected in them, the chain (`queue`, `running`), the `calls` in the logger,
each `wanted` as long as its counter is the window's, the events `shown`, the spinner. `passes` stands for the text searched for: the entries it
lets through `log_window_append_call ()`, which are all but calls that do not contain it. The operators on a window are the C functions;
`Continue` is the chain's recursion unrolled, an action that is not a call runs at once and may replace the chain. `late` records the
entries written since they were last read. `fate` ends the behaviour where a closed window's answer goes to the next window.

## The runs

Components that share nothing but the process are checked in one run: the initial states choose the `part`, only that part
takes steps, and the others rest in states where none of their fair actions is enabled. What is explored is the sum of
their state spaces, not the product.

| run | configuration | bounds | what it shows |
|---|---|---|---|
| `event_manager` | `MCEventManager`, `EventManager.cfg` | 2 operations, 1 contact, 2 events | `ApprovalsMatchEvents`: no event outlives its approval, no approval has two; `RingingAccount`: the count is the calls that ring less those counted down without having been counted up, and the phone follows it; `EventOutlivesAnswers`; `PhoneFallsSilent` |
| `event_listeners` | `MCEventListeners`, `EventListeners.cfg` | 1 operation (text or transfer), 1 contact, 2 events | `ListenersFollowEvents`: no pointer to a freed event, and no announced event forgotten |
| `text_chat` | `MCTextChat`, `TextChat.cfg` | 2 messages, 1 edit, 1 sent, 2 pending; 3 channels of a room; 3 members, 2 messages, 2 reports; 3 chats, each of which may have a window, 2 closed | `UnreadIsExact`, `FocusedGetsRead`; `BarsGoWithTheirChannel`, `NeededIsAskedFor`; `ChannelFollowsServer`; `ChatsAreKept` (the chat of the dialog exists, a draft is the last text), `RoomsAreAsked` |
| `services` | `MCServices`, `Services.cfg` | 2 sounds; 5 presences, 3 requests under way; 1 room, 2 changes, 3 starts; a file of 2 chunks; 1 redialled call | `CallbackHasEntry`, `StopSilences`; `StateIsRestored` (and offline stays offline), `IdleGoesAway`; `ChangesAreSaved`, `FavoritesAgree`; `ProtocolSpec` (the refinement), `RowTellsTransfer`, `StopEnds`; `LastFrameGoes` |
| `calls` | `MCCalls`, `Calls.cfg` | 2 calls with the contact, and others; 2 cameras, 2 requests to the channel on the bus | `SoundAndTimerFollowCall`, `AloneInCall`, `AnsweredIsAccepted`; `CameraTellsTruth` |
| `authentication` | `MCAuthClient`, `AuthClient.cfg` | 2 attempts, 2 passwords; 2 certificates of 3 chains; 1 account, 2 publications waiting | `SavedIsRight`, `PasswordIsFound`, `SingleSignOnEnds`; `NothingIsLeftOver` (`HandlersFollowChannel`, `TimerFollowsDialogs`); `SettingsAreHeeded` |
| `contact_list` | `MCContactList`, `ContactList.cfg` | 3 individuals of 2 contacts, 1 group; 2 rows, 2 events; 2 accounts; 2 correspondents, 2 days, 3 acts, 1 search at once | `ListenersKnowTheModel`; `RowsFollowTheModel`; `WindowTellsAccounts`; `EventsFollowPanes`, `SpinnerStops` |
| `accounts` | `MCAccounts`, `Accounts.cfg` | 2 logins, 1 of them well formed, 1 secret, 2 things entered; 2 accounts, 1 question upon another | `AppliedIsStored`, `EditorAnswers`; `DetailsFollowSelection`, `ConfirmedIsRemoved` |
| `no_freed_handler` | `FTManager`, `FTManagerNoFreedHandler.cfg` | a file of 2 chunks | expected violation of `NoFreedHandler` |
| `remembered_choice` | `MCAuthClient`, `AuthClientRemembered.cfg` | as `authentication` | expected violation of `RememberedChoice` |
| `oldest_event` | `MCContactList`, `ContactListOldest.cfg` | as `contact_list` | expected violation of `OldestIsPending` |
| `widget_outlives` | `MCAccounts`, `AccountsOutlive.cfg` | 1 thing entered | expected violation of `WidgetOutlivesCall` |

Each run ends within four minutes with two workers. The expected violations are explained
[below](#disagreements-between-the-code-and-what-is-said-of-it).

Why the bounds are enough for the cases that matter:

* `event_manager`: two operations are what a pair of pointers, and a count that may be wrong by one, needs.
  `MCBound` limits what is explored together: two operations only for calls and StreamedMedia channels (the types
  that touch the ringing count), without the contact; any single operation, with every type and bundles of two
  channels; and a chat, call, invitation or transfer beside the contact, whose events share the list. Two events fill the list; a
  third would be of an operation or contact that behaves like the first two. `EventManagerProofs` is free of these bounds for
  the invariants it covers.
* `event_listeners`: the listeners only look at the head of the list and at the event removed, so that two events give
  every order. `VIEW WithoutSignals` leaves out `signals`, which no step reads from an earlier one.
* `text_chat`: of two messages one is pending, acknowledged or retrieved with the logs when the other comes; an edit may be
  of either, and the channel may come and go any number of times. A lookup of the password can outlive its channel and find no
  channel, the next one, or the one after it. We and two others are in a channel, one of whom may be renamed onto the other; one
  message is of this process and one of an earlier handler. Two chats share a draft and one does not; the user types in
  the room only (`Typed`), the drafts of the others are the same code on the shared key.
* `services`: with two chunks there is a step in the middle of reading, hashing and sending, and a last one; the other rows
  of the window appear as what they change, the emptiness of the list and the buttons. The state signalled can be two requests
  behind the last. A room may be absent, favorite or joined automatically in each list and in the file, and be open or not; each
  process can be started again after a crash or a quit. A redialled call meets what the first left: a timer, the flag, idle callbacks.
* `calls`: the second call is what redialling, presenting and refusing are about. With two requests on the bus one to stop sending can follow one to
  start or to add a content; with two cameras the last one can go, and another be chosen.
* `authentication`: the second attempt is the one that has a retry password, meets a handler left in the table, or finds an exception stored. The
  chains are one in order, one for another host and one self-signed. Accounts are told the location one by one, and share only what is sent, so
  that one account meets every order of settings, reports, timer and status; two publications may wait at once. What is not reduced is
  reported together with what is (`ReportedTogether`).
* `contact_list`: two individuals with one identifier and one with another are what a link needs, and two of equal popularity; a top
  of one is always contested. `TOP_INDIVIDUALS_LEN` and the number of interactions between two checks are constants (1 and 2
  here, 5 and 10 in the code). Two rows in the top, one group and Ungrouped give each order of a header's first and last row;
  `part` explores one row with everything, two rows without offline contacts, the search and the events apart. In the log window
  one contact has two days, one of them a call, the other contact one; three acts are what the user does, including opening the window, and
  what is logged; a text that is searched for contains the call or not, whatever its hits are.
* `accounts`: after the first thing entered is applied, refused or fails, the second meets what was left behind.

Deadlock is allowed (`CHECK_DEADLOCK FALSE`) where the system stops: a transfer that is over, no channel left, no call left, a
process that quit, or a model that ends where memory is no longer sound.

Properties that hold only with a proviso say so through a history variable: `rough` (presence: an outage, or a
setting changed, while idle, or the session changed before a request was applied), `crossed` and `wild` (calls: a call was
offered while the window was connecting, or was still offered to it when it dialled again; freed memory), `marked` (rooms nobody saves), `missed` (calls counted down only; in
`AccountEditor`, what an apply leaves out), `late` (sounds: a late callback; logs: entries not read again), `doomed` and `second` (handlers made for a
channel that was gone; channels given two passwords), `lost` (a certificate's dialog that went unanswered), `reported` (a location that came after publication was turned off), `gone` (the account in question went by
itself), `woken` and `unheard` (the camera was started by
something else than its button; the channel was not told), `crashed`, `died`, `dead`, `freedUse` and `fate` (freed memory was used). Each stands for a case described under the disagreements; nothing else is excluded.

## Fairness

Weak fairness is assumed of callbacks that GLib, or a service which always answers, will make, and of nothing else: never of the user, the
contact, or a step either may withhold.

| module | weakly fair | why |
|---|---|---|
| `EventManager` | invalidation of an operation that is over, the claim's answer to a refused channel, the removal timeouts | MC answers or times out; a timeout is a GLib source |
| `FTHandler` | the file's opening, the hash job and its idles, the channel request's answer, the invalidation of a channel being closed, and the failure of the calls on a cancelled one | GIO and D-Bus always call back; a channel that was closed is invalidated |
| `SoundManager` | the end of a play, its callback, the replay timer | sounds are finite; libcanberra calls back each play |
| `ChatMessages` | the logger's answer, the acknowledgements' | D-Bus calls return |
| `ChatPassword` | the keyring's answer, the answer to a saved password | the same |
| `PresenceManager` | the application of a request, the session's signal | the account manager's queue, and a D-Bus signal |
| `CallWindow` | the pipeline becomes ready, `INITIALISED`, the answer to Accept | GStreamer's bus, the CM's progress, D-Bus |
| `CallOutput` | the timer, the idle callbacks, the end of the probe | GLib sources, and a thread that goes on |
| `ChatroomManager` | the save timer, the end of a write, the monitor's event, the account manager ready | GLib sources, and a synchronous write |
| `AuthClient` | the keyring's and the dispatcher's answers, the making of a handler, the idle callback, the server's verdict, the answers of the sign-on services, the end of a channel that failed or was closed | D-Bus calls and GLib sources; that the connection manager ends a channel that failed is an assumption about it |
| `AccountEditor` | the answers of the account manager, the connection managers and the keyring, and the change they announce | D-Bus calls return |
| `LogWindow` | the logger's answers, to searches as well | telepathy-logger's operations always complete, with an error if need be |

`EventListeners`, `ChatManager`, `TpChat`, `CallCamera`, `LocationManager`, the contact list and `AccountsDialog` have safety properties only and assume none.

## What is proved

TLAPS checks these for every value of the constants: any number of operations, contacts, messages, channels, calls, requests
under way. It proves all twenty-two invariants that the passing runs check, all three action properties, and the refinement.

| module | theorem | of | the argument |
|---|---|---|---|
| `EventManagerProofs` | `NoDanglingApproval` | `ApprovalsMatchEvents` | `IInv`: an operation that was not offered has no approval; events of channels, and only they, point to an approval, that of a chat to one of a 1-1 text channel |
| | `TypeCorrect` | `TypeOK` | the id of a new event is free, by counting the ids in use |
| | `RingingIsAccounted` | `RingingAccount` | each action changes the set of ringing operations by one at most, together with the count or with `missed` |
| | `EventsOutliveAnswers` | `EventOutlivesAnswers` | step by step: an event goes with its approval, and that with its operation |
| `EventListenersProofs` | `ListenersAreRight` | `ListenersFollowEvents` | an id names one event of the list, so a removal reaches who shows that event, and nobody else; adding and removing keep that |
| `ServicesProofs` | `CallbackSafe` | `CallbackHasEntry` | inductive with the types: only an entry has a widget |
| | `PresenceIsRestored` | `StateIsRestored` | `StayedHere`: nothing was saved, and the last request on its way, or what was applied if there is none, is the user's wish; `WentAway`: the wish was saved, and all that was requested since is away or extended away |
| | `FavoritesAreSaved` | `ChangesAreSaved` | `Known`, for each process, through every change of its list, the file or the other process: the favorites of a list, and of what a save makes of it (`Saved`, by the ranks of the favorites among the positions) |
| | `ProtocolIsKept` | `ProtocolSpec` (the refinement) | each action of handler and window is a step or a stutter of `TransferProtocol`; it needs that `StepTells`, `ReplyTells`: what the handler waits for tells what has happened (hashed, requested, completed, failed) |
| | `RowsTellTransfers` | `RowTellsTransfer` | `RowHears`: for each step of the handler, the signals a row is connected to; it hears whatever comes next |
| | `LocationIsHeeded` | `SettingsAreHeeded` | for the parts that the code reduces, the street and the coordinates. `LocationHeeds`: the location itself already heeds the settings, so does what a publication tells; an account that is offline was told nothing |
| `TextChatProofs` | `ChatsKept` | `ChatsAreKept` | `TabsFit`: the windows are those with tabs, and no chat has two; the dialog is about a window with a room, which only its answer removes; a new window has a free address, by counting the chats |
| | `RoomsAsked` | `RoomsAreAsked` | step by step, from the same |
| | `BarsGo` | `BarsGoWithTheirChannel` | a lookup that answers, and a bar, is kept under a channel that was used; a new channel is none of those, and takes the bars of the last one with it |
| | `ServerFollowed` | `ChannelFollowsServer` | nothing is sent before the channel is ready; of the reports that wait the last one about a message tells what became of it; a member is in the list once, so that removing it removes it |
| | `UnreadExact` | `UnreadIsExact` | what counts are the texts that are pending and shown; those being acknowledged are shown and pending |
| `AccountsProofs` | `NothingIsLeft` | `NothingIsLeftOver` | the questions about certificates are counted as long as none was destroyed with its channel; a handler in the table, being made or about to give a password belongs to the channel of the moment or is `doomed` |
| | `OnlyRightIsSaved` | `SavedIsRight` | `StageKnown`, `PasswordKnown`: the handler of a channel is made once, and its mechanism started once unless `second`: what the keyring has, or is to get, is what was tried; `NotSaved`: what may not be saved is not there. The theorem leaves out channels in `second`, and all once a handler is `doomed`: there the code may save a refused password |
| | `DetailsRight` | `DetailsFollowSelection` | `Right`: what is waited for is the selected account's, and what is selected, or is to be after a question, has a row; each C function keeps that, from whatever state of the dialog it is called in |
| | `RemovedWasAsked` | `ConfirmedIsRemoved` | `AskedAbout`: under the question the account stays selected, for nothing else is on top, nothing is being loaded and no change waits for an answer |
| `CallsProofs` | `SoundFollows` | `SoundAndTimerFollowCall` | while a call is offered to a window that was not `crossed`, the window has no call of its own and nothing waits for its pipeline |
| | `CallsAlone` | `AloneInCall` | what the observer lets through are one at a time: at most one of the observed calls goes on, and none while there is `other`; every incoming call is observed |
| | `CameraIsTrue` | `CameraTellsTruth` | the camera is powered only where it has an input and is seen; the last request on the bus, or the channel if there is none, says what the camera's state says |
| `ContactListProofs` | `ListenersAreTold` | `ListenersKnowTheModel` | `Fits`, of what one handler hands to the next: who is shown and among the most popular is in the model's list, and who is in that list is told to be in "top"; so a loop that stops early, or a lie of freed memory, takes nobody off who should stay. `Settled`, of the whole: what folks knows has one object for each identifier, and the members are of it, so a removal by identifier takes that member only |
| | `RowsAreTheModel` | `RowsFollowTheModel` | `FilteredBut`: what holds of the list when a handler has changed something and the filter has not been asked about `rows` yet: only rows of the table have a contact that is shown and a header, headers of displayed rows show, every other row is displayed or not as the filter says. Each operation of the list (rows come and go, entries come and go, the list is cleared) is a lemma from one such state to the next, whichever handler calls it; a row of the table that is left behind is `"old"`, and no contact has it |
| | `WindowIsTrue` | `WindowTellsAccounts` | only an account that is listened to has a bar, so that its connection takes the bar away; the page fits the accounts once all is loaded |
| | `EventsAreThePanes` | `EventsFollowPanes` | `LogsInv`: a chain is calls of one kind up to the action that ends it (`Chain`), one call is out and, if wanted, of that kind (`OneCall`); each event is asked for once and not shown yet (`Once`); what the panes stand for, less the calls that the text hides, is shown, late or coming (`Tells`). One lemma for each C function, in whatever state of the window it is called |

Each of these invariants is inductive only with the strengthening that the last column names; the proof that a step keeps it
has one lemma for each action, or group of actions, and one fact for each part that the action can disturb. The
strengthened invariants were checked with TLC before they were proved. The lemmas that several modules need are in
`ListFacts`: the first and the last position of a list with a property, ranks of positions, what appending,
prepending and removing do to the set of elements, what `SequencesExt`'s removal does to positions. None of them uses induction
over a sequence; where one is needed, `LeastNumber`, that a non-empty set of naturals has a least element, stands for it.
For the same reason the modules say in closed form (a set of positions, a choice of the least) what might be a fold.

**Assumptions** are those the modules declare, and each module with a theorem assumes no others. `EventManager`: `MaxEvents` is a positive natural
number, `NoApproval` is no operation, the operations are finitely many. `ChatManager`, `TpChat`: chats, windows and contacts are
finitely many, and there are more addresses of windows than chats. `ChatMessages`: messages, edits and what is sent are disjoint. `ChatroomManager`: the file that
a process first finds is a list of rooms. `AuthFactory`, `ChatPassword`: the value for no password, or no channel, is
neither. `AccountsDialog`: the value for no account is none. `LogWindow`: the
contacts with logs are finitely many, so that a chain has an end. `RosterModel`: the individuals are finitely many, so that a set of them can be listed; "top" and
"nearby" are no groups of the user's. `RosterView`: contacts and groups are lists without repetitions, the events finitely many, and the groups of
the user are none of the list's own. `ServerCertificates`: a verification has one of GnuTLS's results. `PresenceManager`: what the user chooses are presences. `FTHandler`:
a file has a first chunk. `LocationManager`, `CallWindow`, `CallCamera`: the bounds are positive: one publication may wait, one call be made, one
request be on the bus.

**What the proofs found** about the models, before they succeeded:

* `CallWindow`: with three calls, one more than in the run, the operation of the second can outlive the dialog that asked about it, and
  its end stops the sound or the timer of the third. TLC confirms it, in fourteen steps, with `MaxCalls = 3`. It is the case under
  [Calls](#disagreements-between-the-code-and-what-is-said-of-it) of a call offered during another, one call later; `crossed`
  had only been set with a dialog up, and is now set by the pending operation.
* `PresenceManager`: the model left "away" out of what the user may choose, and nothing in the argument needs that; it is chosen now.
* `LocationManager`: the guard of GeoClue's set-up had a disjunction that bound less than was meant.
* `RosterView`: the order in which the box asks its filter left out that, without groups, those at the top come first. No property
  depends on it; `Precedes` has it now.
* `CallCamera`: the request to stop, when a call with video is answered without a camera, is made whatever is on the bus: with no room for
  requests at all (`MaxAsked = 0`) the type would not hold; that bound is now assumed to be positive.

**Only model-checked**: every liveness property, which TLAPS cannot prove under fairness (it has no rule
for `ENABLED`). No module uses a `RECURSIVE` operator.

## Disagreements between the code and what is said of it

Found by writing the model and running it; four are kept as runs, the others are excluded from the properties by
the provisos above or not stated. Paths are under `src/`.

**Transfers**

* `libempathy/empathy-ft-handler.c:847` passes the handler to the channel request without a reference (so do opening the
  file, ProvideFile and AcceptFile). When the user stops an outgoing transfer while the call is under way, and then closes the window while
  others go on, the row of the stopped transfer is cleared, its last reference with it, and the callback gets the freed handler,
  although `NEWS:3876` lists "#576405, Crash when a FT was cancelled" as fixed. Run `no_freed_handler`.
* `src/empathy-ft-manager.c:961`: Escape destroys the window with transfers in flight, which the close button only hides
  (`:880`, "There is still FTs on flight, just hide the window"). It frees handlers under their callbacks too, with nothing stopped;
  `NoFreedHandler` does not speak of that.
* `src/empathy-ft-manager.c:555`: a transfer cleared after its last byte and before its hash is checked emits further
  signals, which find no row.
* `libempathy/empathy-ft-handler.c:777` sets `is_completed` before the hash of a received file is checked (`:1699`
  documents it as "transferred correctly").
* `libempathy/empathy-ft-handler.c:1489`: with a channel, stopping closes only that; the comment at `:1474` says the handler
  "won't be able to do any more I/O", and hashing of a received file goes on.
* `libempathy/empathy-ft-handler.c:817`: when a transfer is stopped before its channel exists, the channel is dropped without being
  closed and stays offered to the contact, unlike `help/C/send-file.page:68` ("click Stop to halt the transfer").
* `libempathy-gtk/empathy-ui-utils.c:1281`: dismissing the file chooser is said to have "refused the transfer"; dropping the
  handler closes no channel.

**Events**

* `src/empathy-notifications-approver.c:325`: an open bubble is reused with the buttons of the event it was made for, so that
  "contact has gone offline" can have a Respond button again (`NEWS:3051`, #610032).
* `src/empathy-event-manager.c:623`: a call that had ended before it was offered, and StreamedMedia channels, are counted
  down and never up, which silences a later call (`missed`).

**Sounds** (`libempathy-gtk/empathy-sound-manager.c`)

* A stop between the end of a play and a late callback finds neither timer nor sound: the sound replays (`:227`; `:197`, "it will also
  stop replaying").
* Starting a sound several times takes one stop, not "the same number" (`:217` against `:395`).
* A play that fails leaves an entry that no callback removes, so the loop is never heard again (`:264`).

**Chats**

* A message that arrives while the logs are fetched is shown before them and counted, and both again afterwards
  (`libempathy-gtk/empathy-chat.c:1508`; `:127`, #603980; `NEWS:1905`, #635513). This is why `UnreadIsExact` is about rooms.
* The keyring's answer for a channel that is gone adds its bar all the same (`empathy-chat.c:3951` against `:3822`, "so we don't have
  multiple infobars"): when no channel came in between, two bars may be up. `:3940` can leave the text entry insensitive
  after joining (`NEWS:1320`, #651058).
* A refused password for another reason than being wrong leaves a `FIXME` (`:3936`): nothing asks again.
* `src/empathy-chat-window.c:247`: the confirmation closes all tabs, also those that were opened after it counted them, and rooms
  whose channel came back (`:347` describes the rule).
* `src/empathy-chat-window.c:2608`: a tab moved by dragging goes through the function that remembers closed chats, so that undo
  offers chats that are open (`src/empathy-chat-manager.c:62`).
* `src/empathy-chat-manager.c:447`: the drafts have no SMS flag, so an SMS chat and the chat with the same contact take each other's
  (`:413`).
* `libempathy/empathy-tp-chat.c:725` reads waiting delivery reports before anybody listens, so a failure of a message that an
  earlier handler sent is lost (`NEWS:1366`, #636463).

**Presence** (`libempathy/empathy-presence-manager.c`)

* The state saved at idleness (`:190`) is the one last signalled; a request not applied yet is forgotten when the user is back (`:202`, "restore state").
* A user who comes back while the accounts are offline, or after automatic away was set off, meets the early return (`:179`):
  nothing is restored, and the timer that was started goes on and makes a user who is back extended away (`:129`).

**Calls** (`src/`)

* Hanging up while the channel of a redialled call is being requested does nothing, and the call goes out
  (`empathy-call-handler.c:957`; `help/C/audio-call.page:49`); when that request fails the window rings on.
* The Farstream channel and the channel request hold the handler without a reference (`empathy-call-handler.c:859`): a window
  closed before they answer leaves a freed handler to them. The first also dereferences an error that may be NULL.
* A call offered while the window is connecting leaves the outgoing sound on, and reaches an assertion in the ringing code
  (`NEWS:371`, #671931).
* `empathy_call_window_present` (`empathy-call-window.c:2398`) ignores a handler when the window is not disconnected: the
  call the user answered is dropped.
* A dialog closed with Escape leaves the pointer to it; a window closed with an operation pending is called back by it.
* An outgoing call made during another is treated by the observer as one to refuse, without an operation, and is not observed, so a third
  call is not refused (`AloneInCall` excludes only this).
* A pipeline error disconnects the window without hanging up; a call that ended before its handler was created leaves the window
  connecting; the "closed" of the earlier Farstream channel disconnects a redialled call.

**Camera and video** (`src/empathy-call-window.c`)

* After an error of the camera ("Remove the video input and continue"), the next answer or video redial reaches the assertion of
  `add_video_preview_to_pipeline` that there is an input; a camera that is plugged or unplugged then makes the menu ask a NULL input for its device.
* The preview menu's Disable destroys the button of the minimised preview and keeps the pointer, which Minimise and Maximise use later. A new
  pipeline leaves that button on screen beside the new preview's.
* `change_webcam`, "Restart the camera only if it's already running", takes a hidden preview for a running camera, and starts one that was turned off;
  so does a new pipeline that plays, and a video redial before the camera's button (`woken`; #601288).
* The camera's button while the call is connecting or held changes the preview and is never told to the channel; a content that was asked for
  and arrives after the camera was turned off goes on sending (`unheard`).
* The idle callback that `src_added_cb` queues has no reference to the window, unlike the probe's (`freedUse`).

**Favorite rooms** (`libempathy/empathy-chatroom-manager.c`)

* A room made favorite from the Conversation menu is never saved (`src/empathy-chat-window.c:1155`): it is added before it is
  a favorite, and only what a favorite changes is watched. `help/C/favorite-rooms.page` describes this menu; `tests/` check
  the list in memory only. The changes of `always_urgent` are not watched either: the signal's detail at `:205` is spelt with an
  underscore.
* The manager's own save makes it reload, which drops rooms that are joined and not favorite, and changes made since.
* The file is rewritten in place (`:148`): a crash in the middle, or a reading by the other process, finds no favorites, and the next save
  makes that permanent. `FavoritesAgree` says that both processes agree afterwards, not that nothing was lost.
* Rooms observed or made favorite before the account manager is ready are duplicated, or overwrite the file; when it never gets
  ready the file is never read.

**Authentication**

* `src/empathy-auth-client.c:127` stores a certificate as an exception whenever the box is ticked, also after Cancel, and a stored
  certificate is accepted without a question; the box says "Remember this choice for future connections"
  (`libempathy-gtk/empathy-tls-dialog.c:298`). Run `remembered_choice`.
* A dialog destroyed with its certificate is not counted down (`:134`), and the process never quits (`lost`). The timer only heeds
  certificates, and quits under a password dialog.
* `libempathy/empathy-auth-factory.c:212`: a channel that goes while its handler is made leaves the handler in the table for ever; a later
  channel of the same path is refused or replaces it (`doomed`). The idle callback that gives the password holds no reference, so the
  handler may be freed under it.
* A retry password for an account with nothing saved still opens the dialog, and the password typed there is saved though the mechanism was
  started with the other one (`second`).
* `libempathy/empathy-sasl-mechanisms.c:80`: a server or client failure never completes the result; only the connection manager's end of
  the channel does. An empty token, client id or user name returns before anything is started (`:197`, `:240`, `:273`), so that the call never
  completes and the channel stays open (the stage `"no token"`, which `SingleSignOnEnds` leaves out). The UOA handler unreferences an account and a session that may be NULL.

**Contact list**

* `src/empathy-roster-window.c:327` adds every pending event again each time the list is no longer empty, and the view removes one entry
  when an event ends: what a click activates may be gone (`libempathy-gtk/empathy-roster-view.c`, "Activate the oldest event"). Run
  `oldest_event`. Removing a contact removes one of its events.
* The model listens to `notify::favourites-changed`, which nobody emits. `top_individuals_changed_cb`
  (`libempathy-gtk/empathy-roster-model-manager.c:166`) removes from the list it walks and reads the freed link; its list holds plain pointers.
* `check_top_individuals` (`libempathy/empathy-individual-manager.c:169`) does not notify when the new list is the beginning of the old one, and the
  removal takes any equally popular individual out of the sequence.
* The Ungrouped row stays when a contact joins a group; a header is not filtered again when its last row goes offline, nor shown
  when a contact of a collapsed group comes online; without groups, a change of the top sorts the box and does not filter it.
* `account-validity-changed` is connected twice, so a balance row may be removed twice, the second time from freed memory; an account that is
  removed leaves the page as it was; a page that asks for an account stays if the accounts come before the contacts are loaded.

**Accounts**

* `libempathy-gtk/empathy-account-widget.c:979`: the flag that says the widget was destroyed is never set, so the answers to its calls use what it no
  longer has. Run `widget_outlives`.
* When the password changed, the telephone association and the reconnection are left out (`missed`: "tel", "reconnect"); a discard after a
  successful apply reads an association that is not up to date, which the next apply restores.
* Edits made while an apply is under way are discarded without a word; a failed apply discards all edits while the entries still show
  them, and the retry sends nothing and succeeds.
* Opening the widget before the keyring answered unsets the password, and Apply deletes the saved one; typing before it answers reaches an assertion.
  Readiness checked a second time while the protocol is being prepared makes the settings ready without SASL.
* `src/empathy-accounts-dialog.c:1230`: the answer to the question removes whichever account is selected by then (`gone`: when the
  one in question went). The settings waited for may be freed with their row, or replaced when the account's validity changes, and
  then the details never appear. Closing the dialog of the parameters from the window manager does not discard what was entered.
* Removing the last account shows a page that never goes; `items_delete_cb` dereferences an error that may be NULL.

**Log window** (`libempathy-gtk/empathy-log-window.c`)

* `log_manager_got_entities_cb` checks that there is a window in a condition and uses it anyway: closing the window while the entities are
  being asked for crashes. A window opened meanwhile has a counter that starts at 0 again: the old window's answers may be taken for its
  own, and continue its chain (`fate`).
* The spinner is never stopped when a new choice has nothing to load (`SpinnerStops` excludes that no contact or no day is selected).
* A search clears neither the chain nor the counter, and blocks the handler of the days until it is answered: after an error it stays blocked, and days
  that are chosen are not loaded. No hits are taken for no search. Clearing the search before its answer brings the hits back.
* The text filters calls (`:1327`) as soon as the search starts, before its hits come; it is compared with case, and with the identifiers and
  the end reason only, so that a call that is a hit may be missing from the events of its day (`passes`; `EventsFollowPanes` wants no other
  call to be missing).
* Opening the window on a contact clears the chain that was to list the remaining accounts.
* `maybe_refresh_logs` has a `FIXME`: a first message of the day, or of a contact, is not listed; and the observer may hear of a message
  before the logger wrote it (`late`).

**Location**

* The setting is "Whether Empathy can publish the user's location to their contacts" (`data/org.gnome.Empathy.gschema.xml:257`), but
  `libempathy-gtk/empathy-location-manager.c:227` publishes by force, and nothing disconnects GeoClue: what it reports after
  publication was turned off is sent ten seconds later (`SettingsAreHeeded` excludes it by `reported`; without that it is violated).
* `:595` looks at once for a set-up that only an answer completes: on the first switch the location is not asked for, only signalled; switched off
  and on before the answer, GeoClue is set up twice, and each change is reported twice.
* After the reduced accuracy is turned on, the exact location stays, and is sent to a connection that comes, until GeoClue has reported both
  parts (`reduced`). An address that is no longer known is forgotten, and not sent.
* "Reduced location accuracy means that nothing more precise than your city, state and country will be published. GPS coordinates will be
  accurate to 1 decimal place" (`src/empathy-preferences.ui:779`), but of the address only the street is left out (`:300`): area and postal
  code are published as they are, and so are the altitude (`:386`) and the accuracy in metres (`:398`). `SettingsAreHeeded` speaks of what the
  code reduces only; that nothing else is published would be violated at once. The locality is never removed (`:281`).
* Only accounts that are valid when the account manager gets ready are watched: a later one is told with the next timer.

## What is not modelled

* **Widgets and wording**: layout, themes, smileys, string parsing, avatars, tab labels, menus, tooltips, the rows and buttons of the log window,
  the older tree of contacts (`empathy-individual-store.c`, `-view.c`, `-widget.c`), drag and drop of contacts.
* **Somebody else's state**: the plugins of GNOME Online Accounts and Ubuntu Online Accounts, the verification of a chain (GnuTLS, GCR; its
  result is an input), Farstream codecs and candidates, microphones, GeoClue (its reports are inputs), folks (its signals are inputs).
* **Sequential**: importers, dialogs, the debug window, status presets and IRC networks (lists saved by one process).
* In what is modelled: codecs, volume, tones and holds by the user in `CallWindow`; where the preview is and what it is dragged to in `CallCamera`; composing states, completion and commands in `ChatMessages`;
  subject, title and SMS flags in `TpChat`; the connection times of accounts in `PresenceManager`; the always-urgent flag
  and the member count in `ChatroomManager`; the free-space check of the file chooser; the display name, the icon, the service and the
  widgets of each protocol in `AccountEditor`; renaming, import and the salut dialog in `AccountsDialog`; what the
  texts of the search in `LogWindow` are, of which only the calls they hide count.

Hazards met and not in `PROJECT.json`, because no property speaks of them or another one covers their case: the bubble kept for the
next event; a play that fails after the entry was inserted, and the widget of a loop destroyed while it plays; Escape with transfers in flight;
the Farstream channel's request without a reference; a hang up while a redialled call is being requested; two nested widgets made insensitive by different events; the chat widget that stays
connected to signals of a channel; an approval whose refused operation ends later; a delivery report read before the reply to its message; a
drop on the same window; a timer of extended away that fires after its idleness; a contact that leaves the top without being told.

## Plan

Done: events and listeners, sounds, transfers with their protocol, chats, presence, calls, favorite rooms; then authentication, contact
list, accounts, log window, the camera and the video of calls, the location. What is left, in this order:

1. **Proofs**: that what is left, liveness, can be reduced to safety where the code has a bound (how many steps a chain of calls
   still has, how many idle callbacks wait), so that an action property says that each step brings the end nearer.
2. **Lifetimes**: the chat widget and its channel, the call handler and its requests, with references counted as in `FTHandler`.
3. **Composition**: the `auth` and `call` events of `EventManager` with `AuthFactory` and `CallWindow`, the roster's flashing rows with
   `EventManager` in place of the free `pending`.
4. **Calls**: the contents of a Farstream session; camera and window in one module, so that a call has both.
