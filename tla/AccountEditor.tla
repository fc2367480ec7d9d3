---------------------------- MODULE AccountEditor ----------------------------
(***************************************************************************)
(* libempathy/empathy-account-settings.c and                               *)
(* libempathy-gtk/empathy-account-widget.c: the settings of one account,   *)
(* the widget that edits them, and the calls that apply them to the        *)
(* account manager and the keyring.                                        *)
(***************************************************************************)
EXTENDS Naturals

CONSTANTS
  Logins, Wellformed,   \* what may be entered, and what matches the expression
  Secrets, NoValue,
  MaxEdits              \* bound: what the user enters

ASSUME LoginsAssumption == Wellformed \subseteq Logins /\ NoValue \notin Logins \cup Secrets

Params == {"account", "password"}
Entered(p) == IF p = "account" THEN Logins ELSE Secrets
Nothing == [p \in Params |-> NoValue]
Idle == [step |-> "idle", params |-> Nothing, unset |-> {}, password |-> NoValue, orphan |-> FALSE]

VARIABLES
  creating, hasSasl, cmListed,  \* what is edited; its protocol; its manager is known
  stored,       \* the account manager and the keyring
  prep,         \* what the settings wait for, and the answers to come
  own,          \* priv->parameters, unset_parameters, password, ...
  editor,       \* the widget
  applying,     \* priv->apply_result and its call
  edits,
  missed,       \* history: why entries and settings may differ
  dead          \* an assertion failed, or freed memory was used
envVars == <<creating, hasSasl, cmListed>>
editorVars == <<envVars, stored, prep, own, editor, applying, edits, missed, dead>>

-----------------------------------------------------------------------------
(* Values: those of the widget, else of the account unless they are unset.  *)
Settled(o, p) ==
  IF p = "password" /\ prep.sasl THEN o.password
  ELSE IF o.params[p] # NoValue THEN o.params[p]
  ELSE IF stored.there /\ p \notin o.unset THEN stored.params[p] ELSE NoValue

SetValue(o, p, v) ==
  IF p = "password" /\ prep.sasl
  THEN [o EXCEPT !.password = v, !.changed = TRUE, !.unset = @ \ {p}]
  ELSE [o EXCEPT !.params[p] = v, !.unset = @ \ {p}]

(* Mutant: a password that goes is no change. *)
UnsetValueUnnoticed(o, p) ==
  IF p = "password" /\ prep.sasl THEN [o EXCEPT !.password = NoValue]
  ELSE [o EXCEPT !.unset = @ \cup {p}, !.params[p] = NoValue]

UnsetValue(o, p) ==
  IF p \in o.unset THEN o
  ELSE IF p = "password" /\ prep.sasl THEN [o EXCEPT !.password = NoValue, !.changed = TRUE]
  ELSE [o EXCEPT !.unset = @ \cup {p}, !.params[p] = NoValue]

Discard(o) ==
  [o EXCEPT !.params = Nothing, !.unset = {}, !.changed = FALSE, !.password = o.original,
            !.tel = stored.there /\ stored.seenTel]

IsValid(o) == Settled(o, "account") \in Wellformed

-----------------------------------------------------------------------------
(* The settings are ready once the account, the connection managers and the *)
(* protocol are; each is looked at only when one of them answers.           *)
CheckReadyness(q, o) ==
  LET known == IF stored.there THEN [o EXCEPT !.tel = stored.seenTel] ELSE o
      sasl == q.protocol /\ hasSasl
  IN IF q.ready \/ ~q.account \/ ~q.managers \/ ~cmListed THEN [prep |-> q, own |-> o]
     ELSE IF ~q.protocol /\ ~q.preparing
     THEN [prep |-> [q EXCEPT !.preparing = TRUE, !.calls = @ \cup {"protocol"}], own |-> known]
     ELSE [prep |-> [q EXCEPT !.ready = TRUE, !.sasl = sasl,
                        !.calls = IF sasl /\ stored.there THEN @ \cup {"password"} ELSE @],
           own |-> known]

Prepared(q) ==
  /\ prep' = CheckReadyness(q, own).prep
  /\ own' = CheckReadyness(q, own).own
  /\ UNCHANGED <<envVars, stored, editor, applying, edits, missed, dead>>
Fails(call) ==
  /\ prep' = [prep EXCEPT !.calls = @ \ {call}, !.failed = TRUE]
  /\ UNCHANGED <<envVars, stored, own, editor, applying, edits, missed, dead>>

Construct ==
  LET c == CheckReadyness([prep EXCEPT !.made = TRUE], own)
  IN /\ ~prep.made
     /\ prep' = IF c.prep.ready \/ ~stored.there THEN c.prep
                ELSE [c.prep EXCEPT !.calls = @ \cup {"account"}]
     /\ own' = c.own
     /\ UNCHANGED <<envVars, stored, editor, applying, edits, missed, dead>>

AccountReady ==
  /\ "account" \in prep.calls
  /\ \/ Prepared([prep EXCEPT !.calls = @ \ {"account"}, !.account = TRUE])
     \/ ~prep.account /\ Fails("account")

(* Mutant: nobody looks whether that was the last part. *)
ManagersReadyOnly ==
  /\ prep.made /\ ~prep.managers /\ prep' = [prep EXCEPT !.managers = TRUE]
  /\ UNCHANGED <<envVars, stored, own, editor, applying, edits, missed, dead>>

ManagersReady ==
  /\ prep.made /\ ~prep.managers
  /\ Prepared([prep EXCEPT !.managers = TRUE])

ProtocolReady ==
  /\ "protocol" \in prep.calls
  /\ \/ Prepared([prep EXCEPT !.calls = @ \ {"protocol"}, !.protocol = TRUE])
     \/ Fails("protocol")

(* get_password_cb () asserts that there is no password yet; the widget     *)
(* shows the one that comes, if any, and unticks its box if there is none.  *)
PasswordRetrieved ==
  /\ "password" \in prep.calls /\ dead = "no"
  /\ prep' = [prep EXCEPT !.calls = @ \ {"password"}]
  /\ dead' = IF own.password # NoValue THEN "asserted" ELSE "no"
  /\ missed' = IF applying = Idle THEN missed ELSE missed \cup {"password"}
  /\ \E p \in {stored.keyring, NoValue} :
       LET o == [own EXCEPT !.password = p, !.original = p]
           shows == editor.state = "open" /\ editor.remembers
       IN /\ own' = IF shows /\ editor.remember /\ p = NoValue THEN UnsetValue(o, "password") ELSE o
          /\ editor' = IF ~shows THEN editor
                       ELSE [editor EXCEPT !.remember = p # NoValue,
                               !.shown["password"] = IF p = NoValue THEN @ ELSE p]
  /\ UNCHANGED <<envVars, stored, applying, edits>>

-----------------------------------------------------------------------------
(* The widget.  A password that is not remembered is unset at once.         *)
OpenEditor ==
  LET remember == creating \/ Settled(own, "password") # NoValue
      o == IF prep.sasl /\ ~remember THEN UnsetValue(own, "password") ELSE own
  IN /\ editor.state \in (IF creating THEN {"none"} ELSE {"none", "applied", "cancelled"}) /\ dead = "no"
     /\ prep.made /\ (creating \/ prep.ready)
     /\ editor' = [state |-> "open", shown |-> [p \in Params |-> Settled(own, p)],
                   remembers |-> prep.sasl, remember |-> remember, tel |-> own.tel,
                   canApply |-> creating /\ IsValid(own), enabling |-> FALSE]
     /\ own' = o
     /\ missed' = (missed \cap {"password", "reconnect"}) \cup (IF applying = Idle THEN {} ELSE {"late"})
                \cup (IF stored.seenTel = stored.tel THEN {} ELSE {"tel"})
     /\ UNCHANGED <<envVars, stored, prep, applying, edits, dead>>

Enter ==
  /\ editor.state = "open" /\ edits < MaxEdits /\ dead = "no"
  /\ edits' = edits + 1
  /\ missed' = IF applying = Idle /\ ~editor.enabling THEN missed ELSE missed \cup {"late"}
  /\ UNCHANGED <<envVars, stored, prep, applying, dead>>
Changed(o, shown) ==
  /\ own' = o
  /\ editor' = [editor EXCEPT !.shown = shown, !.canApply = IsValid(o)]

(* account_widget_entry_changed_cb () *)
EditEntry(p, v) ==
  /\ Enter /\ v # editor.shown[p]
  /\ p = "password" /\ editor.remembers => editor.remember
  /\ Changed(IF v = NoValue THEN UnsetValue(own, p) ELSE SetValue(own, p, v),
             [editor.shown EXCEPT ![p] = v])

(* Unticking clears the entry; that is a change if it had a password.       *)
RememberPasswordToggled ==
  /\ Enter /\ editor.remembers
  /\ IF ~editor.remember
     THEN editor' = [editor EXCEPT !.remember = TRUE] /\ UNCHANGED own
     ELSE LET o == UnsetValue(own, "password")
              unticked == [editor EXCEPT !.remember = FALSE]
          IN IF editor.shown["password"] = NoValue
             THEN own' = o /\ editor' = unticked
             ELSE own' = o /\ editor' = [unticked EXCEPT !.shown["password"] = NoValue,
                                           !.canApply = IsValid(o)]

CheckbuttonTelToggled ==
  /\ Enter /\ ~creating
  /\ LET o == [own EXCEPT !.tel = ~editor.tel]
     IN own' = o /\ editor' = [editor EXCEPT !.tel = ~@, !.canApply = IsValid(o)]

(* Close, in the dialog of the accounts and in that of a new account; the   *)
(* window manager closes the dialog without a word to the settings.         *)
Cancel ==
  /\ editor.state = "open" /\ dead = "no"
  /\ own' = IF creating THEN own ELSE Discard(own)
  /\ editor' = [editor EXCEPT !.state = "cancelled"]
  /\ applying' = IF applying = Idle THEN Idle ELSE [applying EXCEPT !.orphan = TRUE]
  /\ UNCHANGED <<envVars, stored, prep, edits, missed, dead>>

CloseWindow ==
  /\ editor.state = "open" /\ dead = "no"
  /\ editor' = [editor EXCEPT !.state = "cancelled"]
  /\ applying' = IF applying = Idle THEN Idle ELSE [applying EXCEPT !.orphan = TRUE]
  /\ UNCHANGED <<envVars, stored, prep, own, edits, missed, dead>>

(* empathy_account_widget_apply_and_log_in () and apply_async ()            *)
Apply ==
  /\ editor.state = "open" /\ editor.canApply /\ dead = "no"
  /\ applying' = IF applying # Idle THEN applying
                 ELSE [step |-> IF stored.there THEN "update" ELSE "create",
                       params |-> own.params, unset |-> own.unset, password |-> NoValue,
                       orphan |-> FALSE]
  /\ UNCHANGED <<envVars, stored, prep, own, editor, edits, missed, dead>>

-----------------------------------------------------------------------------
(* account_widget_applied_cb () on success; the widget may be destroyed.    *)
(* stale: the connection was made with other parameters; an account without *)
(* one is told to connect in any case.                                      *)
Applied(reconnect, s) ==
  /\ applying' = Idle
  /\ IF applying.orphan
     THEN dead' = "freed" /\ stored' = s /\ UNCHANGED editor
     ELSE /\ UNCHANGED dead
          /\ stored' = IF ~creating /\ s.enabled /\ reconnect THEN [s EXCEPT !.stale = FALSE] ELSE s
          /\ editor' = [editor EXCEPT !.canApply = FALSE,
                          !.state = IF creating THEN @ ELSE "applied",
                          !.enabling = creating]

(* An error completes the call; the widget is not told more than that.      *)
ApplyFails(why) ==
  /\ applying' = Idle
  /\ missed' = missed \cup {why}
  /\ UNCHANGED <<editor, dead>>

Sent(s) ==
  [p \in Params |-> IF applying.params[p] # NoValue THEN applying.params[p]
                    ELSE IF p \in applying.unset THEN NoValue ELSE s.params[p]]
Uris(s) == IF own.tel # s.seenTel THEN [s EXCEPT !.tel = own.tel] ELSE s
SavePassword ==
  applying' = [applying EXCEPT !.step = "password", !.password = own.password]

(* empathy_account_settings_account_updated () *)
AccountUpdated ==
  /\ applying # Idle /\ applying.step = "update" /\ dead = "no"
  /\ \/ /\ own' = Discard(own) /\ UNCHANGED stored
        /\ ApplyFails("failed")
     \/ LET changes == applying.unset # {} \/ applying.params # Nothing
            s == [stored EXCEPT !.params = Sent(stored), !.stale = @ \/ changes]
        IN IF prep.sasl /\ own.changed
           THEN /\ SavePassword /\ stored' = s
                /\ missed' = missed \cup (IF own.tel = s.seenTel THEN {} ELSE {"tel"})
                                    \cup (IF changes THEN {"reconnect"} ELSE {})
                /\ UNCHANGED <<own, editor, dead>>
           ELSE /\ Applied(changes, Uris(s)) /\ own' = Discard(own) /\ UNCHANGED missed
  /\ UNCHANGED <<envVars, prep, edits>>

(* empathy_account_settings_created_cb () *)
AccountCreated ==
  /\ applying # Idle /\ applying.step = "create" /\ dead = "no"
  /\ \/ /\ applying' = Idle
        /\ UNCHANGED <<stored, own, editor, missed, dead>>
     \/ LET s == [stored EXCEPT !.there = TRUE, !.params = applying.params]
        IN /\ UNCHANGED missed
           /\ IF prep.sasl /\ own.password # NoValue
              THEN SavePassword /\ stored' = s /\ UNCHANGED <<own, editor, dead>>
              ELSE Applied(FALSE, Uris(s)) /\ own' = [Discard(own) EXCEPT !.tel = FALSE]
  /\ UNCHANGED <<envVars, prep, edits>>

(* empathy_account_settings_processed_password () *)
ProcessedPassword ==
  LET o == Discard([own EXCEPT !.original = own.password])
  IN /\ applying # Idle /\ applying.step = "password" /\ dead = "no"
     /\ own' = o
     /\ \/ ApplyFails("password") /\ UNCHANGED stored
        \/ /\ Applied(FALSE, [stored EXCEPT !.keyring = applying.password])
           /\ missed' = IF applying.password = own.password THEN missed ELSE missed \cup {"password"}
     /\ UNCHANGED <<envVars, prep, edits>>

(* account_widget_account_enabled_cb (): after the widget was destroyed it  *)
(* asks the account manager it no longer has.                               *)
AccountEnabled ==
  /\ editor.enabling /\ dead = "no"
  /\ \E ok \in BOOLEAN :
       /\ stored' = [stored EXCEPT !.enabled = ok]
       /\ dead' \in (IF ok /\ editor.state # "open" THEN {"no", "freed"} ELSE {"no"})
  /\ editor' = [editor EXCEPT !.enabling = FALSE,
                  !.state = IF @ = "open" THEN "applied" ELSE @]
  /\ applying' = IF applying = Idle THEN Idle ELSE [applying EXCEPT !.orphan = TRUE]
  /\ UNCHANGED <<envVars, prep, own, edits, missed>>

(* The account manager tells of the association it was asked for.           *)
UriSchemesChanged ==
  /\ stored.seenTel # stored.tel
  /\ stored' = [stored EXCEPT !.seenTel = stored.tel]
  /\ UNCHANGED <<envVars, prep, own, editor, applying, edits, missed, dead>>

-----------------------------------------------------------------------------
EditorInit ==
  /\ creating \in BOOLEAN /\ hasSasl \in BOOLEAN /\ cmListed \in BOOLEAN
  /\ \E login \in Logins, secret \in Secrets \cup {NoValue}, tel \in BOOLEAN :
       stored = IF creating
         THEN [there |-> FALSE, params |-> Nothing, keyring |-> NoValue, tel |-> FALSE,
               seenTel |-> FALSE, enabled |-> FALSE, stale |-> FALSE]
         ELSE [there |-> TRUE, params |-> [Nothing EXCEPT !["account"] = login,
                                             !["password"] = IF hasSasl THEN NoValue ELSE secret],
               keyring |-> IF hasSasl THEN secret ELSE NoValue, tel |-> tel,
               seenTel |-> tel, enabled |-> TRUE, stale |-> FALSE]
  /\ \E account, managers, protocol \in BOOLEAN :
       /\ creating => account /\ managers
       /\ prep = [account |-> account, managers |-> managers, protocol |-> protocol,
                  made |-> FALSE, preparing |-> FALSE,
                  ready |-> FALSE, sasl |-> FALSE, failed |-> FALSE, calls |-> {}]
  /\ own = [params |-> Nothing, unset |-> {}, password |-> NoValue, original |-> NoValue,
            changed |-> FALSE, tel |-> FALSE]
  /\ editor = [state |-> "none", shown |-> Nothing, remembers |-> FALSE, remember |-> FALSE, tel |-> FALSE,
               canApply |-> FALSE, enabling |-> FALSE]
  /\ applying = Idle /\ edits = 0 /\ missed = {} /\ dead = "no"

EditorNext ==
  \/ Construct \/ AccountReady \/ ManagersReady \/ ProtocolReady \/ PasswordRetrieved
  \/ OpenEditor \/ RememberPasswordToggled \/ CheckbuttonTelToggled \/ Cancel \/ CloseWindow \/ Apply
  \/ \E p \in Params : \E v \in Entered(p) \cup {NoValue} : EditEntry(p, v)
  \/ AccountUpdated \/ AccountCreated \/ ProcessedPassword \/ AccountEnabled \/ UriSchemesChanged

(* The account manager, the connection managers and the keyring answer.     *)
EditorFairness ==
  /\ WF_editorVars(Construct) /\ WF_editorVars(AccountReady) /\ WF_editorVars(ManagersReady)
  /\ WF_editorVars(ProtocolReady) /\ WF_editorVars(PasswordRetrieved)
  /\ WF_editorVars(AccountUpdated) /\ WF_editorVars(AccountCreated)
  /\ WF_editorVars(ProcessedPassword) /\ WF_editorVars(AccountEnabled)
  /\ WF_editorVars(UriSchemesChanged)

EditorSpec == EditorInit /\ [][EditorNext]_editorVars /\ EditorFairness

-----------------------------------------------------------------------------
(* When the widget closes after Apply, what its entries showed is in the    *)
(* account and in the keyring: unless something was entered or retrieved    *)
(* while the call ran, or a call had failed before.  A new password makes   *)
(* the settings forget the association with telephone numbers and that the  *)
(* account has to reconnect.                                                *)
AppliedIsStored ==
  [][editor.state = "open" /\ editor'.state = "applied"
     /\ missed' \cap {"late", "failed", "password"} = {} =>
       /\ \A p \in Params : p = "account" \/ ~prep.sasl => stored'.params[p] = editor.shown[p]
       /\ editor.remembers => stored'.keyring = editor.shown["password"] /\ stored'.params["password"] = NoValue
       /\ "tel" \in missed' \/ stored'.tel = editor.tel
       /\ stored'.stale => "reconnect" \in missed' \/ ~stored'.enabled]_editorVars

(* The settings get ready in whatever order their parts do, and every call  *)
(* to apply them ends.                                                      *)
EditorAnswers ==
  /\ cmListed ~> (prep.ready \/ prep.failed)
  /\ (applying # Idle) ~> (applying = Idle \/ dead # "no")

(* The widget is kept "alive during async call": nothing is used after the  *)
(* widget was destroyed.                                                    *)
WidgetOutlivesCall == dead # "freed"
=============================================================================
