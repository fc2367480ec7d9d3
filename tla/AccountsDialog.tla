--------------------------- MODULE AccountsDialog ---------------------------
(***************************************************************************)
(* src/empathy-accounts-dialog.c: the list of the accounts, the details of *)
(* the one that is selected, the dialog that edits its parameters and the  *)
(* questions asked before changes are lost or an account is removed.       *)
(***************************************************************************)
EXTENDS Naturals

CONSTANTS
  Accounts, NoAccount,
  MaxAsked              \* bound: questions before a change, one upon the other

ASSUME AccountsAssumption == NoAccount \notin Accounts /\ MaxAsked \in Nat

NotWaiting == [of |-> NoAccount, ready |-> FALSE, object |-> "none"]
NoEditor == [state |-> "none", pending |-> FALSE, applying |-> FALSE, held |-> FALSE]
NotAsked == [kind |-> "none", about |-> NoAccount, gone |-> FALSE]

VARIABLES
  am,         \* the accounts, as the account manager has them
  dialog,     \* priv: rows and the readiness of their selected, shown, ...
  params,     \* priv->setting_widget, in the dialog that edits the parameters
  question,   \* the modal dialog: of a new account, or what asks before an account is removed
  cms         \* the connection managers are known
dialogVars == <<am, dialog, params, question, cms>>

Rows(d) == {a \in Accounts : d.rows[a] # "none"}

-----------------------------------------------------------------------------
(* account_dialog_create_dialog_content (): the infobar is told only of an  *)
(* account that is selected.                                                *)
CreateContent(d, a) ==
  [d EXCEPT !.shown = a, !.infobar = IF d.selected = a THEN a ELSE @]

(* The handler is disconnected from the settings waited for, even if they   *)
(* have been freed; settings_ready is not cleared when they get ready.      *)
Disconnect(d) ==
  [d EXCEPT !.stray = @ \/ d.waiting.object = "freed", !.waiting = NotWaiting]

(* Mutant: the handler of the previous settings stays. *)
UpdateSettingsStillWaits(d, a) ==
  IF d.rows[a] = "ready" THEN CreateContent([d EXCEPT !.shown = NoAccount], a)
  ELSE [d EXCEPT !.shown = NoAccount, !.waiting = [of |-> a, ready |-> FALSE, object |-> "row"]]

(* accounts_dialog_update_settings (), with the settings of a row           *)
UpdateSettings(d, a) ==
  LET old == [Disconnect(d) EXCEPT !.shown = NoAccount]
  IN IF d.rows[a] = "ready" THEN CreateContent(old, a)
     ELSE [old EXCEPT !.waiting = [of |-> a, ready |-> FALSE, object |-> "row"]]

(* Mutant: an account can be removed while others are being loaded. *)
SelectionChangedLoading(d, a) ==
  [UpdateSettings([d EXCEPT !.selected = a], a) EXCEPT !.canRemove = TRUE]

SelectionChanged(d, a) ==
  [UpdateSettings([d EXCEPT !.selected = a], a) EXCEPT !.canRemove = ~d.loading]

(* accounts_dialog_account_selection_change () may refuse, and ask first.   *)
SelectRow(d, a) ==
  IF d.selected = a THEN d
  ELSE IF ~d.force /\ params.pending
  THEN [d EXCEPT !.asked = @ + 1, !.destination = a]
  ELSE SelectionChanged([d EXCEPT !.force = FALSE], a)

(* ... without settings: the first account by name, if there is one.        *)
UpdateToNone(d) ==
  IF Rows(d) = {} THEN {[Disconnect(d) EXCEPT !.canAdd = FALSE]}
  ELSE IF d.selected # NoAccount THEN {Disconnect(d)}
  ELSE {SelectRow(Disconnect(d), first) : first \in Rows(d)}

SelectFirst(d) ==
  IF Rows(d) = {} THEN UpdateToNone(d) ELSE {SelectRow(d, first) : first \in Rows(d)}

(* accounts_dialog_model_selection_changed () when nothing is selected.     *)
SelectionLost(d) == {[e EXCEPT !.canRemove = FALSE] : e \in UpdateToNone(d)}

(* The settings of a row are freed with it, or when others take their       *)
(* place, unless someone took a reference and never dropped it.             *)
DropSettings(d, a, row) ==
  [d EXCEPT !.rows[a] = row, !.kept = @ \ {a},
            !.waiting = IF @.of = a /\ @.object = "row"
                        THEN [@ EXCEPT !.object = IF a \in d.kept THEN "kept" ELSE "freed"] ELSE @]

RemoveRow(d, a) ==
  [DropSettings(d, a, "none") EXCEPT !.selected = IF @ = a THEN NoAccount ELSE @,
                                     !.destination = IF @ = a THEN NoAccount ELSE @]

(* Memory that was freed is used: nothing comes of it, or a crash.          *)
Becomes(outcomes) ==
  \E d \in outcomes :
    /\ d.asked <= MaxAsked
    /\ \/ dialog' = [d EXCEPT !.stray = FALSE]
       \/ d.stray /\ dialog' = [d EXCEPT !.dead = TRUE]

(* What the user does, when no modal dialog is on top.                      *)
NoModal == question = NotAsked /\ dialog.asked = 0 /\ params.state # "open" /\ ~dialog.dead
User == NoModal /\ ~dialog.loading

-----------------------------------------------------------------------------
(* accounts_dialog_add_account (), on every change of validity.             *)
AddAccount(d, a, row) ==
  LET e == DropSettings(d, a, row)
  IN IF d.rows[a] = "none" /\ d.selected = NoAccount THEN SelectRow(e, a) ELSE e

ValidityChanged(a, valid) ==
  /\ dialog.started /\ ~dialog.dead
  /\ am[a] # (IF valid THEN "valid" ELSE "invalid")
  /\ am' = [am EXCEPT ![a] = IF valid THEN "valid" ELSE "invalid"]
  /\ \E row \in {"new"} \cup (IF cms THEN {"ready"} ELSE {}) : Becomes({AddAccount(dialog, a, row)})
  /\ UNCHANGED <<params, question, cms>>

AccountRemoved(a) ==
  LET left == RemoveRow(dialog, a)
  IN /\ am[a] # "absent" /\ ~dialog.dead
     /\ am' = [am EXCEPT ![a] = "absent"]
     /\ Becomes(IF dialog.rows[a] # "none" /\ dialog.selected = a THEN SelectionLost(left) ELSE {left})
     /\ question' = [question EXCEPT !.gone = @ \/ question.about = a]
     /\ UNCHANGED <<params, cms>>

(* accounts_dialog_manager_ready_cb () and accounts_setup ()                *)
ManagerReady ==
  LET valid == {a \in Accounts : am[a] = "valid"}
      all == [dialog EXCEPT !.started = TRUE,
                !.rows = [a \in Accounts |-> IF a \in valid THEN "new" ELSE "none"]]
  IN /\ ~dialog.started
     /\ Becomes(IF valid = {} THEN UpdateToNone(all)
                ELSE UNION {SelectFirst(SelectRow(all, added)) : added \in valid})
     /\ UNCHANGED <<am, params, question, cms>>

(* accounts_dialog_cms_prepare_cb () and finished_loading ()                *)
CmsPrepared ==
  /\ dialog.started /\ dialog.loading /\ ~dialog.dead
  /\ \E ok \in BOOLEAN :
       LET updated == IF ~ok \/ dialog.waiting # NotWaiting THEN {dialog} ELSE UpdateToNone(dialog)
           chosen(d) == IF ok /\ d.initial \in Rows(d) THEN SelectRow(d, d.initial) ELSE d
           finished(d) == [d EXCEPT !.loading = FALSE, !.canAdd = TRUE,
                             !.canRemove = d.selected # NoAccount, !.initial = NoAccount]
       IN Becomes({finished(chosen(d)) : d \in updated}) /\ cms' = ok
  /\ UNCHANGED <<am, params, question>>

(* account_dialog_settings_ready_cb (), as long as the handler is there;    *)
(* settings without a row matter only if the dialog waits for them.         *)
SettingsReady(a) ==
  /\ cms /\ ~dialog.dead
  /\ \/ /\ dialog.rows[a] = "new"
        /\ LET d == [dialog EXCEPT !.rows[a] = "ready"]
           IN dialog' = IF d.waiting.of = a /\ d.waiting.object = "row"
                        THEN CreateContent([d EXCEPT !.waiting.ready = TRUE], a) ELSE d
     \/ /\ dialog.waiting = [of |-> a, ready |-> FALSE, object |-> "kept"]
        /\ dialog' = CreateContent([dialog EXCEPT !.waiting.ready = TRUE], a)
  /\ UNCHANGED <<am, params, question, cms>>

(* accounts_dialog_notify_connection_cb () and conn_prepare_cb (): by then  *)
(* another account may be selected.  The reference is never dropped.        *)
Reload ==
  /\ dialog.started /\ ~dialog.dead
  /\ Becomes(IF dialog.selected = NoAccount THEN UpdateToNone(dialog)
             ELSE {[UpdateSettings(dialog, dialog.selected) EXCEPT !.kept = @ \cup {dialog.selected}]})
  /\ UNCHANGED <<am, params, question, cms>>

(* accounts_dialog_update_status_infobar () as an account changes.          *)
StatusChanged(a) ==
  /\ dialog.selected = a /\ ~dialog.dead
  /\ dialog' = [dialog EXCEPT !.infobar = a]
  /\ UNCHANGED <<am, params, question, cms>>

-----------------------------------------------------------------------------
ClickRow(a) ==
  /\ User /\ dialog.rows[a] # "none"
  /\ Becomes(IF dialog.selected = a
             THEN SelectionLost([dialog EXCEPT !.selected = NoAccount])
             ELSE {SelectRow(dialog, a)})
  /\ UNCHANGED <<am, params, question, cms>>

(* accounts_dialog_remove_account_iter (): an account that is not valid any *)
(* more goes at once.                                                       *)
ClickRemove ==
  LET a == dialog.selected
      left == RemoveRow(dialog, a)
  IN /\ NoModal /\ dialog.canRemove /\ a # NoAccount
     /\ IF am[a] = "valid"
        THEN question' = [kind |-> "remove", about |-> a, gone |-> FALSE] /\ UNCHANGED dialog
        ELSE Becomes(UNION {SelectFirst(d) : d \in SelectionLost(left)})
             /\ UNCHANGED question
     /\ UNCHANGED <<am, params, cms>>

(* accounts_dialog_delete_account_response_cb (): the account that is       *)
(* selected by now; the question stays when there is none.                  *)
ToRemove == IF question.kind = "remove" THEN dialog.selected ELSE NoAccount
RemoveConfirmed ==
  /\ question.kind = "remove" /\ ToRemove # NoAccount /\ ~dialog.dead
  /\ Becomes(SelectFirst(RemoveRow(dialog, ToRemove)))
  /\ question' = NotAsked
  /\ UNCHANGED <<am, params, cms>>

RemoveDeclined ==
  /\ question.kind = "remove" /\ question' = NotAsked
  /\ UNCHANGED <<am, dialog, params, cms>>

(* accounts_dialog_selection_change_response_cb (): the settings of a       *)
(* widget that was destroyed are gone.                                      *)
ChangeConfirmed ==
  LET d == [dialog EXCEPT !.asked = @ - 1, !.force = TRUE, !.destination = NoAccount]
  IN /\ dialog.asked > 0 /\ ~dialog.dead
     /\ params' = [params EXCEPT !.pending = FALSE]
     /\ IF params.state = "destroyed" THEN dialog' = [d EXCEPT !.dead = TRUE]
        ELSE Becomes({IF dialog.destination = NoAccount THEN d ELSE SelectRow(d, dialog.destination)})
     /\ UNCHANGED <<am, question, cms>>

ChangeDeclined ==
  /\ dialog.asked > 0 /\ ~dialog.dead
  /\ dialog' = [dialog EXCEPT !.asked = @ - 1, !.force = FALSE, !.destination = NoAccount]
  /\ UNCHANGED <<am, params, question, cms>>

-----------------------------------------------------------------------------
(* account_dialog_create_edit_params_dialog () *)
EditParams ==
  /\ User /\ dialog.shown # NoAccount /\ dialog.selected # NoAccount
  /\ params' = [NoEditor EXCEPT !.state = "open"]
  /\ dialog' = [dialog EXCEPT !.kept = @ \cup {dialog.selected}]
  /\ UNCHANGED <<am, question, cms>>

EditorOnTop == params.state = "open" /\ dialog.asked = 0 /\ ~dialog.dead
ChangeParams ==
  /\ EditorOnTop /\ params' = [params EXCEPT !.pending = TRUE]
  /\ UNCHANGED <<am, dialog, question, cms>>

ApplyParams ==
  /\ EditorOnTop /\ params.pending /\ params' = [params EXCEPT !.applying = TRUE]
  /\ UNCHANGED <<am, dialog, question, cms>>

(* account_widget_applied_cb (): the widget closes, or keeps a reference    *)
(* that nobody drops.                                                       *)
ParamsApplied ==
  /\ params.applying /\ ~dialog.dead
  /\ \/ params.state = "open" /\ params' = NoEditor /\ UNCHANGED dialog
     \/ params.state = "destroyed" /\ dialog' = [dialog EXCEPT !.dead = TRUE] /\ UNCHANGED params
     \/ params' = [params EXCEPT !.applying = FALSE, !.held = TRUE] /\ UNCHANGED dialog
  /\ UNCHANGED <<am, question, cms>>

(* empathy_account_dialog_cancel (), or nothing if no account is selected.  *)
CloseParams(cancelled) ==
  LET discards == cancelled /\ dialog.selected # NoAccount
  IN /\ EditorOnTop
     /\ params' = IF params.applying \/ params.held
                  THEN [params EXCEPT !.state = "destroyed", !.pending = @ /\ ~discards] ELSE NoEditor
     /\ Becomes({IF discards
                 THEN [UpdateSettings(dialog, dialog.selected) EXCEPT !.canAdd = TRUE, !.canRemove = TRUE]
                 ELSE dialog})
     /\ UNCHANGED <<am, question, cms>>

(* accounts_dialog_button_add_clicked_cb () *)
ClickAdd ==
  /\ NoModal /\ dialog.canAdd /\ question' = [NotAsked EXCEPT !.kind = "new"]
  /\ UNCHANGED <<am, dialog, params, cms>>

AddFinished(a) ==
  /\ question.kind = "new" /\ question' = NotAsked /\ ~dialog.dead
  /\ Becomes({IF a # NoAccount /\ dialog.rows[a] # "none"
              THEN SelectRow(dialog, a) ELSE dialog})
  /\ UNCHANGED <<am, params, cms>>

-----------------------------------------------------------------------------
DialogInit ==
  /\ am \in [Accounts -> {"absent", "valid"}]
  /\ \E initial \in Accounts \cup {NoAccount} :
       dialog = [rows |-> [a \in Accounts |-> "none"], kept |-> {}, selected |-> NoAccount,
                 shown |-> NoAccount, waiting |-> NotWaiting, infobar |-> NoAccount,
                 loading |-> TRUE, started |-> FALSE, initial |-> initial,
                 canAdd |-> FALSE, canRemove |-> FALSE, asked |-> 0, destination |-> NoAccount,
                 force |-> FALSE, stray |-> FALSE, dead |-> FALSE]
  /\ params = NoEditor /\ question = NotAsked /\ cms = FALSE

DialogNext ==
  \/ ManagerReady \/ CmsPrepared \/ Reload
  \/ \E a \in Accounts :
       \/ \E valid \in BOOLEAN : ValidityChanged(a, valid)
       \/ AccountRemoved(a) \/ StatusChanged(a) \/ ClickRow(a) \/ SettingsReady(a)
  \/ ClickRemove \/ RemoveConfirmed \/ RemoveDeclined \/ ChangeConfirmed \/ ChangeDeclined
  \/ EditParams \/ ChangeParams \/ ApplyParams \/ ParamsApplied
  \/ \E cancelled \in BOOLEAN : CloseParams(cancelled)
  \/ ClickAdd \/ \E a \in Accounts \cup {NoAccount} : AddFinished(a)

DialogSpec == DialogInit /\ [][DialogNext]_dialogVars

-----------------------------------------------------------------------------
(* The details are those of the selected account: its settings are shown,   *)
(* or those it had when they last were, or the dialog waits for them to be  *)
(* ready; the switch, which acts on the selected account, shows its state   *)
(* unless the dialog waits.                                                 *)
DetailsFollowSelection ==
  dialog.selected # NoAccount /\ ~dialog.dead =>
    \/ dialog.waiting.of = dialog.selected /\ ~dialog.waiting.ready
    \/ dialog.shown = dialog.selected /\ dialog.infobar = dialog.selected

(* An account is removed only if the user was asked about that account:     *)
(* unless the one in question went by itself while the question was up.     *)
ConfirmedIsRemoved ==
  [][question.kind = "remove" /\ question'.kind = "none" /\ dialog' # dialog =>
       ToRemove = question.about \/ question.gone]_dialogVars
=============================================================================
