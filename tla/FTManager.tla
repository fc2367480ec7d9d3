------------------------------ MODULE FTManager ------------------------------
(***************************************************************************)
(* src/empathy-ft-manager.c: the window that lists the file transfers,     *)
(* composed with one of them (FTHandler); the other rows only matter for   *)
(* whether the list is empty and for refreshing the buttons.               *)
(*                                                                         *)
(* The handler's signals are synchronous: the manager's callbacks run in   *)
(* the step that emits them, and connect or use further signals.           *)
(***************************************************************************)
EXTENDS FTHandler

VARIABLES
  row,                 \* ft_handler_to_row_ref and COL_MESSAGE
  heard,               \* the handler's signals that are connected
  window,              \* "none", "shown", "hidden", "destroyed"
  stopButton, clearButton,            \* sensitivity, as last updated
  wild                 \* history: callbacks that ran without what they need

listVars == <<row, heard, window, stopButton, clearButton, wild>>
allVars == <<handlerVars, listVars>>

Rows == {"none", "waiting", "hashing", "progress", "checking", "completed", "error"}

(* The list as a record, so that the signals of one step can be heard in order. *)
List == [row |-> row, heard |-> heard, stop |-> stopButton, clear |-> clearButton,
         wild |-> wild]
Become(list) ==
  /\ row' = list.row /\ heard' = list.heard /\ wild' = list.wild
  /\ stopButton' = list.stop /\ clearButton' = list.clear

(* ft_manager_update_buttons (): the clear button is never made insensitive *)
(* here.                                                                    *)
UpdateButtons(list) ==
  [list EXCEPT !.stop = list.row # "none" /\ ~cancelled' /\ ~completed',
               !.clear = @ \/ (list.row # "none" /\ (cancelled' \/ completed'))]

Say(list, message) == [list EXCEPT !.row = message]
Connect(list, names) == [list EXCEPT !.heard = @ \union names]

(* Mutant: a received file is announced before it is checked. *)
TransferDoneAtOnce(list) == UpdateButtons(Say(list, "completed"))

(* ft_handler_transfer_done_cb (): a received file is checked first.        *)
TransferDone(list) ==
  IF incoming /\ useHash THEN Connect(list, {"hashing-started"})
  ELSE UpdateButtons(Say(list, "completed"))

(* ft_handler_hashing_done_cb () *)
HashingDone(list) ==
  IF incoming THEN UpdateButtons(Say(list, "completed"))
  ELSE Connect(Say(list, "waiting"), {"started"})

(* ft_handler_transfer_error_cb () *)
TransferError(list) == UpdateButtons(Say(list, "error"))

(* One signal.  A callback without its row returns at g_return_if_fail      *)
(* (connections it makes before that stay); one whose manager is freed      *)
(* uses freed memory.                                                       *)
Hear(list, name) ==
  LET missing == list.row = "none"
      lost == [list EXCEPT !.wild = @ \union {"row"}] IN
  IF name \notin list.heard THEN list
  ELSE IF window = "destroyed" THEN [list EXCEPT !.wild = @ \union {"manager"}]
  ELSE CASE name = "error" -> IF missing THEN lost ELSE TransferError(list)
         [] name = "started" ->
              Connect(IF missing THEN lost ELSE Say(list, "progress"), {"progress", "done"})
         [] name = "progress" -> IF missing THEN lost ELSE Say(list, "progress")
         [] name = "done" ->
              IF missing /\ ~(incoming /\ useHash) THEN lost ELSE TransferDone(list)
         [] name = "hashing-started" ->
              Connect(IF missing THEN lost
                      ELSE Say(list, IF incoming THEN "checking" ELSE "hashing"),
                      {"hashing-progress", "hashing-done"})
         [] name = "hashing-progress" ->
              IF missing THEN lost
              ELSE Say(list, IF incoming THEN "checking" ELSE "hashing")
         [] name = "hashing-done" -> IF missing THEN lost ELSE HashingDone(list)

(* ft_manager_add_handler_to_list () and ft_manager_start_transfer (): the  *)
(* row is selected, which refreshes the buttons, and the first signals are  *)
(* connected.                                                               *)
AddHandler(list) ==
  LET added == UpdateButtons(Say(list, IF ~incoming /\ useHash' THEN "hashing"
                                       ELSE "waiting")) IN
  Connect(added, {"error"} \union (IF ~incoming /\ useHash' THEN {"hashing-started"}
                                   ELSE {"started"}))

DisplayError(list) == UpdateButtons(Say(list, "error"))

(* The signals of one step, of which there are never more than two. *)
HearAll(list, names) ==
  IF names = <<>> THEN list
  ELSE IF Len(names) = 1 THEN Hear(list, names[1])
  ELSE Hear(Hear(list, names[1]), names[2])

React ==
  CASE signals' = <<"ready">> -> Become(AddHandler(List)) /\ window' = "shown"
    [] signals' = <<"ready-error">> -> Become(DisplayError(List)) /\ window' = "shown"
    [] OTHER -> Become(HearAll(List, signals')) /\ UNCHANGED window

-----------------------------------------------------------------------------
(* The window. *)

Finished == completed \/ cancelled

(* ft_manager_clear (): the rows of completed and cancelled transfers go,   *)
(* with their references.  The selection that moves to another row refreshes*)
(* the buttons.                                                             *)
Clear ==
  IF row # "none" /\ Finished
  THEN /\ row' = "none" /\ clearButton' = FALSE
       /\ refs' = refs \ {"manager"}
       /\ DisposeIf(refs' = {})
       /\ stopButton' \in {FALSE, stopButton}
       /\ UNCHANGED <<heard, wild>>
  ELSE /\ clearButton' = FALSE
       /\ UNCHANGED <<refs, closing, row, heard, wild, stopButton>>

Unhandled == UNCHANGED <<privVars, step, chan, sent, reply, jobVars, histVars>>

ClearClicked ==
  /\ window = "shown" /\ clearButton
  /\ Clear /\ Emit(<<>>)
  /\ Unhandled /\ UNCHANGED window

(* RESPONSE_CLOSE and "delete-event": close_window () hides the window      *)
(* while transfers are left, else it is destroyed and the manager with it.  *)
CloseWindow(others) ==
  /\ window = "shown"
  /\ Clear /\ Emit(<<>>)
  /\ window' = IF row' # "none" \/ others THEN "hidden" ELSE "destroyed"
  /\ Unhandled

(* ft_manager_key_press_event_cb (): Escape and Ctrl-W destroy the window;  *)
(* the manager drops its references.                                        *)
EscapePressed ==
  /\ window = "shown"
  /\ window' = "destroyed" /\ row' = "none"
  /\ refs' = refs \ {"manager"}
  /\ DisposeIf(refs' = {})
  /\ Emit(<<>>)
  /\ Unhandled /\ UNCHANGED <<heard, stopButton, clearButton, wild>>

StopClicked ==
  /\ window = "shown" /\ row # "none" /\ stopButton
  /\ CancelTransfer
  /\ UNCHANGED listVars

(* empathy_ft_manager_show () *)
ShowWindow ==
  /\ window = "hidden" /\ window' = "shown"
  /\ Emit(<<>>)
  /\ Unhandled /\ UNCHANGED <<refs, closing, row, heard, stopButton, clearButton, wild>>

(* The callbacks of the other transfers, and the user selecting a row.      *)
OtherRows ==
  /\ window \in {"shown", "hidden"}
  /\ Emit(<<>>)
  /\ UNCHANGED <<privVars, step, refs, chanVars, jobVars, histVars, window>>
  /\ \/ Become(UpdateButtons(List))
     \/ Become([UpdateButtons(List) EXCEPT !.clear = TRUE])

(* A callback that took no reference runs when the handler is freed: of the *)
(* file, the channel request, or a ProvideFile or AcceptFile that failed.   *)
LateCallback ==
  /\ ~Alive /\ (step \in {"read", "request"} \/ reply = "pending")
  /\ wild' = wild \union {"handler"}
  /\ Emit(<<>>)
  /\ UNCHANGED <<privVars, step, refs, chanVars, jobVars, histVars,
                 row, heard, window, stopButton, clearButton>>

ManagerInit ==
  /\ HandlerInit
  /\ row = "none" /\ heard = {} /\ window = "none" /\ wild = {}
  /\ stopButton = FALSE /\ clearButton = FALSE

ManagerNext ==
  /\ wild \intersect {"handler", "manager"} = {}     \* memory is still sound
  /\ \/ HandlerNext /\ React
     \/ ClearClicked \/ StopClicked \/ EscapePressed \/ ShowWindow
     \/ \E others \in BOOLEAN : CloseWindow(others)
     \/ OtherRows \/ LateCallback

ManagerSpec == ManagerInit /\ [][ManagerNext]_allVars /\ HandlerFairness

-----------------------------------------------------------------------------
ManagerTypeOK ==
  /\ HandlerTypeOK
  /\ row \in Rows
  /\ heard \subseteq {"error", "started", "progress", "done", "hashing-started",
                      "hashing-progress", "hashing-done"}
  /\ window \in {"none", "shown", "hidden", "destroyed"}
  /\ {stopButton, clearButton} \subseteq BOOLEAN
  /\ wild \subseteq {"row", "manager", "handler"}

(* The row says "completed" of nothing but a transfer whose file arrived    *)
(* and, when the sender gave a hash, was found to match it.  While its row  *)
(* is there, a transfer that failed says so; and once bytes were seen, the  *)
(* end of the transfer reaches the row: it never keeps showing progress for *)
(* a transfer that is over.  One still under way keeps its row, whatever is *)
(* cleared, as long as the window was only ever closed by its button.       *)
RowTellsTransfer ==
  /\ ManagerTypeOK
  /\ row = "completed" => completed /\ ~failed /\ (incoming /\ useHash => step = "over")
  /\ row # "none" => /\ failed => row = "error"
                     /\ step = "over" /\ bytes > 0 => row \in {"completed", "error"}
  /\ step \in {"read", "hash", "request", "channel"} /\ ~Finished /\ window # "destroyed"
       => row # "none" /\ "manager" \in refs

(* NEWS, #576405 "Crash when a FT was cancelled": after a stop, no callback  *)
(* gets a freed handler.  A window that was destroyed, with the manager, is *)
(* another matter: see README.                                              *)
NoFreedHandler == stopped /\ window # "destroyed" => "handler" \notin wild
=============================================================================
