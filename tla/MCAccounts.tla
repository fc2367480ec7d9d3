----------------------------- MODULE MCAccounts -----------------------------
(* The settings of an account and the dialog of the accounts, for TLC: each *)
(* is checked with the other at rest, with none of its fair actions enabled.*)
EXTENDS AccountEditor, AccountsDialog

VARIABLE part   \* which of them is checked

EditorAtRest ==
  /\ creating = FALSE /\ hasSasl = FALSE /\ cmListed = FALSE
  /\ stored = [there |-> TRUE, params |-> Nothing, keyring |-> NoValue, tel |-> FALSE,
               seenTel |-> FALSE, enabled |-> TRUE, stale |-> FALSE]
  /\ prep = [account |-> FALSE, managers |-> TRUE, protocol |-> FALSE, made |-> TRUE,
             preparing |-> FALSE, ready |-> FALSE, sasl |-> FALSE, failed |-> FALSE, calls |-> {}]
  /\ own = [params |-> Nothing, unset |-> {}, password |-> NoValue, original |-> NoValue,
            changed |-> FALSE, tel |-> FALSE]
  /\ editor = [state |-> "none", shown |-> Nothing, remembers |-> FALSE, remember |-> FALSE,
               tel |-> FALSE, canApply |-> FALSE, enabling |-> FALSE]
  /\ applying = Idle /\ edits = 0 /\ missed = {} /\ dead = "no"

DialogAtRest ==
  DialogInit /\ am = [a \in Accounts |-> "absent"] /\ dialog.initial = NoAccount

MCInit ==
  \/ part = "editor" /\ EditorInit /\ DialogAtRest
  \/ part = "dialog" /\ DialogInit /\ EditorAtRest
MCNext ==
  \/ part = "editor" /\ EditorNext /\ UNCHANGED <<dialogVars, part>>
  \/ part = "dialog" /\ DialogNext /\ UNCHANGED <<editorVars, part>>
MCSpec == MCInit /\ [][MCNext]_<<editorVars, dialogVars, part>> /\ EditorFairness
=============================================================================
