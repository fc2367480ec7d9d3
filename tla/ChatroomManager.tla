--------------------------- MODULE ChatroomManager ---------------------------
(***************************************************************************)
(* The favorite rooms (empathy-chatroom-manager.c, empathy-chatroom.c).    *)
(* empathy and empathy-chat have a manager each, both of the same file:    *)
(* every one saves its list some seconds after it changed, and reads the   *)
(* file again when anybody has written it.  A room stands for its account, *)
(* name and identifier.                                                    *)
(***************************************************************************)
EXTENDS Integers, Sequences, SequencesExt, FiniteSets

CONSTANTS
  Rooms,
  MaxChanges,   \* bound: what the user changes
  MaxStarts,    \* bound: how often the processes are started
  Favorites     \* what the file holds at first, a sequence

VARIABLES
  up,        \* the processes and their managers
  list,      \* priv->chatrooms
  timer,     \* the processes with a save_timer_id
  writing,   \* the processes in the middle of a save
  file,      \* the file; `whole': it can be read
  changed,   \* the processes to be told that the file has changed
  open,      \* the channels of rooms that a process has observed
  marked,    \* history: rooms made favorite by the menu or before the file was
             \* read, since the list was last saved or replaced
  synced,    \* history: the processes that have read or written what is in the file
  changes, starts

roomsVars == <<up, list, timer, writing, file, changed, open, marked, synced, changes,
          starts>>

(* The main program has the list of favorites, empathy-chat the menu of    *)
(* the conversation.                                                       *)
Processes == {"empathy", "empathy-chat"}

Kinds == {"plain", "favorite", "auto"}
Entry == [room : Rooms, kind : Kinds, chat : BOOLEAN]
ASSUME RoomsAssumption == Favorites \in Seq(Entry)
Chatroom(r, k, c) == [room |-> r, kind |-> k, chat |-> c]
IsFavorite(e) == e.kind # "plain"

(* empathy_chatroom_manager_find (): the first of the list, or 0.          *)
Find(l, r) == SelectInSeq(l, LAMBDA e : e.room = r)

(* What chatroom_manager_file_save () writes of a list: its favorites, in  *)
(* their order.                                                            *)
Saved(l) ==
  LET favorites == {i \in DOMAIN l : IsFavorite(l[i])}
  IN [n \in 1..Cardinality(favorites) |->
        l[CHOOSE i \in favorites : Cardinality({j \in favorites : j <= i}) = n]]

(* chatroom_manager_get_all (): every room of the file is prepended,       *)
(* whether the list has it or not; a file that cannot be parsed adds none. *)
Parsed(f, l) ==
  IF f.whole
  THEN Reverse([i \in DOMAIN f.rooms |-> [f.rooms[i] EXCEPT !.chat = FALSE]]) \o l
  ELSE l

(* The favorites of a list: what the user cares for.                       *)
Favs(l) == {<<l[i].room, l[i].kind>> : i \in {j \in DOMAIN l : IsFavorite(l[j])}}
Contents == IF file.whole THEN Favs(file.rooms) ELSE {}

Runs(p) == up[p] \in {"starting", "ready", "unprepared"} /\ p \notin writing

-----------------------------------------------------------------------------
RoomsInit ==
  /\ up = [p \in Processes |-> "down"]
  /\ list = [p \in Processes |-> <<>>]
  /\ timer = {} /\ writing = {} /\ changed = {} /\ open = {} /\ synced = {}
  /\ file = [rooms |-> Favorites, whole |-> TRUE]
  /\ marked = [p \in Processes |-> {}]
  /\ changes = 0 /\ starts = 0

-----------------------------------------------------------------------------
(* The processes.                                                          *)

(* empathy_chatroom_manager_constructor () *)
Start(p) ==
  /\ up[p] = "down" /\ starts < MaxStarts
  /\ starts' = starts + 1
  /\ up' = [up EXCEPT ![p] = "starting"]
  /\ UNCHANGED <<list, timer, writing, file, changed, open, marked, synced, changes>>

(* account_manager_ready_cb (), and when it could not be prepared.         *)
AccountManagerReady(p) ==
  /\ up[p] = "starting" /\ Runs(p)
  /\ up' = [up EXCEPT ![p] = "ready"]
  /\ list' = [list EXCEPT ![p] = Parsed(file, @)]
  /\ synced' = IF file.whole THEN synced \cup {p} ELSE synced \ {p}
  /\ marked' = [marked EXCEPT ![p] = @ \cup {f[1] : f \in Favs(list[p])}]
  /\ UNCHANGED <<timer, writing, file, changed, open, changes, starts>>

AccountManagerFails(p) ==
  /\ up[p] = "starting" /\ Runs(p)
  /\ up' = [up EXCEPT ![p] = "unprepared"]
  /\ UNCHANGED <<list, timer, writing, file, changed, open, marked, synced, changes,
                 starts>>

(* What is left of a process.                                              *)
Gone(p) ==
  /\ up' = [up EXCEPT ![p] = "down"] /\ list' = [list EXCEPT ![p] = <<>>]
  /\ timer' = timer \ {p} /\ writing' = writing \ {p}
  /\ synced' = synced \ {p} /\ marked' = [marked EXCEPT ![p] = {}]
  /\ open' = {o \in open : o[1] # p}

(* chatroom_manager_finalize (): a change that waits for the timer is      *)
(* saved.  Until the account manager is prepared its callback has a        *)
(* reference, and the manager is not finalized.                            *)
Quit(p) ==
  /\ Runs(p)
  /\ IF p \in timer /\ up[p] # "starting"
     THEN /\ up' = [up EXCEPT ![p] = "quitting"]
          /\ writing' = writing \cup {p} /\ timer' = timer \ {p}
          /\ file' = [file EXCEPT !.whole = FALSE]
          /\ UNCHANGED <<list, changed, open, marked, synced>>
     ELSE Gone(p) /\ changed' = changed \ {p} /\ UNCHANGED file
  /\ UNCHANGED <<changes, starts>>

(* The kernel closes the file of a process that crashes.                   *)
Crash(p) ==
  /\ up[p] # "down"
  /\ Gone(p)
  /\ changed' = (IF p \in writing THEN {q \in Processes : up[q] = "ready"}
                 ELSE changed) \ {p}
  /\ UNCHANGED <<file, changes, starts>>

-----------------------------------------------------------------------------
(* The file.                                                               *)

(* save_timeout () and chatroom_manager_file_save (): the file is emptied  *)
(* when it is opened, and written when it is closed.                       *)
SaveStarts(p) ==
  /\ Runs(p) /\ p \in timer
  /\ timer' = timer \ {p}
  /\ writing' = writing \cup {p}
  /\ file' = [file EXCEPT !.whole = FALSE]
  /\ UNCHANGED <<up, list, changed, open, marked, synced, changes, starts>>

(* Who has the file open beside another that wrote it meanwhile may leave  *)
(* a mixture of both.                                                      *)
SaveEnds(p) ==
  /\ p \in writing
  /\ \/ file' = [rooms |-> Saved(list[p]), whole |-> TRUE]
     \/ file.whole /\ file' = [file EXCEPT !.whole = FALSE]
  /\ changed' = {q \in Processes : up[q] = "ready"}
  /\ IF up[p] = "quitting"
     THEN /\ up' = [up EXCEPT ![p] = "down"] /\ list' = [list EXCEPT ![p] = <<>>]
          /\ synced' = {} /\ open' = {o \in open : o[1] # p}
     ELSE synced' = {p} /\ UNCHANGED <<up, list, open>>
  /\ writing' = writing \ {p}
  /\ marked' = [marked EXCEPT ![p] = {}]
  /\ UNCHANGED <<timer, changes, starts>>

(* Mutant: what the file has is added to the list. *)
FileChangedAdds(p) ==
  /\ Runs(p) /\ p \in changed
  /\ changed' = changed \ {p}
  /\ list' = [list EXCEPT ![p] = Parsed(file, @)]
  /\ synced' = IF file.whole THEN synced \cup {p} ELSE synced \ {p}
  /\ marked' = [marked EXCEPT ![p] = {}]
  /\ UNCHANGED <<up, timer, writing, file, open, changes, starts>>

(* file_changed_cb (): also after a save of one's own.                     *)
FileChanged(p) ==
  /\ Runs(p) /\ p \in changed
  /\ changed' = changed \ {p}
  /\ list' = [list EXCEPT ![p] = Parsed(file, <<>>)]
  /\ synced' = IF file.whole THEN synced \cup {p} ELSE synced \ {p}
  /\ marked' = [marked EXCEPT ![p] = {}]
  /\ UNCHANGED <<up, timer, writing, file, open, changes, starts>>

-----------------------------------------------------------------------------
(* The rooms that are open, and what the user makes of them.               *)

(* empathy_chatroom_manager_ensure_chatroom () *)
Ensured(l, r) == IF Find(l, r) = 0 THEN <<Chatroom(r, "plain", FALSE)>> \o l ELSE l

(* observe_channels_cb () *)
ObserveChannels(p, r) ==
  LET l == Ensured(list[p], r) IN
  /\ Runs(p) /\ <<p, r>> \notin open
  /\ open' = open \cup {<<p, r>>}
  /\ list' = [list EXCEPT ![p] = [l EXCEPT ![Find(l, r)].chat = TRUE]]
  /\ UNCHANGED <<up, timer, writing, file, changed, marked, synced, changes, starts>>

(* chatroom_manager_chat_invalidated_cb () *)
ChatInvalidated(p, r) ==
  LET l == list[p]
      i == SelectInSeq(l, LAMBDA e : e.room = r /\ e.chat) IN
  /\ Runs(p) /\ <<p, r>> \in open
  /\ open' = open \ {<<p, r>>}
  /\ list' = [list EXCEPT ![p] = IF i = 0 THEN l
                                 ELSE IF IsFavorite(l[i]) THEN [l EXCEPT ![i].chat = FALSE]
                                 ELSE RemoveAt(l, i)]
  /\ UNCHANGED <<up, timer, writing, file, changed, marked, synced, changes, starts>>

Changes(p) == Runs(p) /\ changes < MaxChanges /\ changes' = changes + 1

(* chat_window_favorite_toggled_cb (): nothing is watched that changes when *)
(* a room becomes favorite; one that is no favorite any more is not joined *)
(* automatically either, and that is.                                      *)
MakeFavorite(r) ==
  LET p == "empathy-chat"
      l == Ensured(list[p], r) IN
  /\ Changes(p) /\ ~IsFavorite(l[Find(l, r)])
  /\ list' = [list EXCEPT ![p] = [l EXCEPT ![Find(l, r)].kind = "favorite"]]
  /\ marked' = [marked EXCEPT ![p] = @ \cup {r}]
  /\ UNCHANGED <<up, timer, writing, file, changed, open, synced, starts>>

MakePlain(r) ==
  LET p == "empathy-chat"
      i == Find(list[p], r) IN
  /\ Changes(p) /\ i # 0 /\ IsFavorite(list[p][i])
  /\ list' = [list EXCEPT ![p][i].kind = "plain"]
  /\ timer' = timer \cup {p}
  /\ UNCHANGED <<up, writing, file, changed, open, marked, synced, starts>>

(* Mutant: a room that is removed is no more watched. *)
RemoveUnsaved(r) ==
  LET p == "empathy"
      i == Find(list[p], r) IN
  /\ Changes(p) /\ i # 0
  /\ list' = [list EXCEPT ![p] = RemoveAt(@, i)]
  /\ UNCHANGED <<up, timer, writing, file, changed, open, marked, synced, starts>>

(* empathy_chatroom_manager_remove () *)
RemoveRoom(r) ==
  LET p == "empathy"
      i == Find(list[p], r) IN
  /\ Changes(p) /\ i # 0
  /\ list' = [list EXCEPT ![p] = RemoveAt(@, i)]
  /\ timer' = IF IsFavorite(list[p][i]) THEN timer \cup {p} ELSE timer
  /\ UNCHANGED <<up, writing, file, changed, open, marked, synced, starts>>

(* chatrooms_window_model_cell_auto_connect_toggled (), of any row.           *)
ToggleAutoConnect(i) ==
  LET p == "empathy" IN
  /\ Changes(p) /\ i \in DOMAIN list[p]
  /\ list' = [list EXCEPT ![p][i].kind = IF @ = "auto" THEN "favorite" ELSE "auto"]
  /\ timer' = timer \cup {p}
  /\ UNCHANGED <<up, writing, file, changed, open, marked, synced, starts>>

-----------------------------------------------------------------------------
ProcessNext(p) ==
  \/ Start(p) \/ AccountManagerReady(p) \/ AccountManagerFails(p) \/ Quit(p) \/ Crash(p)
  \/ SaveStarts(p) \/ SaveEnds(p) \/ FileChanged(p)

UserNext ==
  \/ \E r \in Rooms : MakeFavorite(r) \/ MakePlain(r) \/ RemoveRoom(r)
  \/ \E i \in DOMAIN list["empathy"] : ToggleAutoConnect(i)

RoomsNext ==
  \/ UserNext
  \/ \E p \in Processes : ProcessNext(p) \/ \E r \in Rooms : ObserveChannels(p, r)
                                                            \/ ChatInvalidated(p, r)

(* The main loops, and the kernel, go on.                                  *)
RoomsFairness ==
  \A p \in Processes : /\ WF_roomsVars(SaveStarts(p)) /\ WF_roomsVars(SaveEnds(p))
                       /\ WF_roomsVars(FileChanged(p)) /\ WF_roomsVars(AccountManagerReady(p))

RoomsSpec == RoomsInit /\ [][RoomsNext]_roomsVars /\ RoomsFairness

-----------------------------------------------------------------------------
(* The type invariant. *)
RoomsTypeOK ==
  /\ \A p \in Processes : \A i \in DOMAIN list[p] :
       list[p][i] \in Entry
  /\ timer \subseteq {p \in Processes : Runs(p)}
  /\ changed \subseteq {p \in Processes : up[p] \in {"ready", "quitting"}}
  /\ open \subseteq Processes \X Rooms

Differences(p) ==
  LET d == (Favs(list[p]) \ Contents) \cup (Contents \ Favs(list[p]))
  IN {f[1] : f \in d}

(* "Watch only those properties which are exported in the save file": a    *)
(* process that knows what the file holds has other favorites only while   *)
(* the save timer runs, but for the rooms that became favorites by the     *)
(* menu of a conversation, or before the first reading, which nobody saves. *)
ChangesAreSaved ==
  /\ RoomsTypeOK
  /\ \A p \in synced \ (timer \cup writing) :
       file.whole => Differences(p) \subseteq marked[p]

(* "chatrooms file changed; reloading list": whatever the two processes    *)
(* save at the same time, over each other's changes or into each other's   *)
(* file, and whichever of them crash, in the end both have the favorites   *)
(* that the file has, but for those that nobody saves.                     *)
FavoritesAgree ==
  <>[](\A p \in Processes : up[p] = "ready" => Differences(p) \subseteq marked[p])
=============================================================================
