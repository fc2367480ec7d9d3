------------------------------ MODULE RosterWindow ------------------------------
(***************************************************************************)
(* What the main window (EmpathyRosterWindow) shows of the accounts: the   *)
(* bar with the error of an account, the row with the balance of its       *)
(* connection, the throbber, and the page that stands in for the contact   *)
(* list while there is no account to show contacts of.                     *)
(***************************************************************************)
EXTENDS Naturals

CONSTANT Accounts

VARIABLES account,    \* of TpAccountManager: each account
          ready,    \* is the account manager prepared, are the contacts loaded
          listening,  \* status_changed_handlers: accounts listened to, for ever
          bar,        \* errors: the info bar of each account
          balance,    \* the balance row the account's data points to
          page,       \* the notebook
          spinning,   \* the throbber
          died     \* the process died of a row that was freed

windowVars == <<account, ready, listening, bar, balance, page, spinning, died>>

Valid == {a \in Accounts : account[a].valid}

----------------------------------------------------------------------------
WindowInit ==
    /\ account \in [Accounts -> [valid : BOOLEAN, enabled : BOOLEAN, status : {"off"},
                                 connected : {FALSE}, paid : BOOLEAN]]
    /\ ready = [prepared |-> FALSE, loaded |-> FALSE]
    /\ listening = {}
    /\ bar = [a \in Accounts |-> "none"]
    /\ balance = [a \in Accounts |-> "none"]
    /\ page = "loading" /\ spinning = FALSE /\ died = FALSE

\* set_notebook_page; the contacts are shown once they are loaded, and until then
\* the page stays what it is.
PageFor(now, loaded) ==
    LET valid == {a \in Accounts : now[a].valid}
    IN  IF valid = {} THEN "no account"
        ELSE IF \A a \in valid : ~now[a].enabled THEN "not enabled"
        ELSE IF loaded THEN "contacts" ELSE page

\* roster_window_setup_balance; paid is whether the connection has the feature.
SetupBalance(b, now, a) ==
    IF now[a].connected /\ now[a].paid THEN [b EXCEPT ![a] = "row"] ELSE b

\* roster_window_remove_balance_action destroys the row and leaves the pointer to
\* it with the account; the next removal uses it.
RemoveBalance(b, a) == IF b[a] = "none" THEN b ELSE [b EXCEPT ![a] = "freed"]

UsesFreed(b, a) == b[a] = "freed"

MayCrash(used) == died' \in (IF used THEN BOOLEAN ELSE {FALSE})

\* add_account, for accounts not listened to yet.
AddAccounts(accounts, now) ==
    /\ listening' = listening \cup accounts
    /\ balance' = [a \in Accounts |->
                     IF a \in accounts \ listening THEN SetupBalance(balance, now, a)[a]
                     ELSE balance[a]]

ManagerPrepared ==
    /\ ~ready.prepared
    /\ ready' = [ready EXCEPT !.prepared = TRUE]
    /\ AddAccounts(Valid, account)
    /\ spinning' = \E a \in Valid : account[a].status = "connecting"
    /\ page' = PageFor(account, ready.loaded)
    /\ UNCHANGED <<account, bar, died>>

ContactsLoadedKeepsPage ==
    /\ ~ready.loaded
    /\ ready' = [ready EXCEPT !.loaded = TRUE]
    /\ UNCHANGED <<account, listening, bar, balance, page, spinning, died>>

ContactsLoaded ==
    /\ ~ready.loaded
    /\ ready' = [ready EXCEPT !.loaded = TRUE]
    /\ page' = PageFor(account, TRUE)
    /\ UNCHANGED <<account, listening, bar, balance, spinning, died>>

\* The handler is connected when the window is made and once more when the manager
\* is prepared: from then on it runs twice.
BecomesValid(a) ==
    LET now == [account EXCEPT ![a].valid = TRUE]
    IN  /\ a \notin Valid
        /\ account' = now
        /\ AddAccounts({a}, now)
        /\ page' = PageFor(now, ready.loaded)
        /\ UNCHANGED <<ready, bar, spinning, died>>

BecomesInvalid(a) ==
    LET now == [account EXCEPT ![a].valid = FALSE]
        once == RemoveBalance(balance, a)
    IN  /\ a \in Valid
        /\ account' = now
        /\ bar' = [bar EXCEPT ![a] = "none"]
        /\ balance' = once
        /\ MayCrash(UsesFreed(balance, a) \/ (ready.prepared /\ UsesFreed(once, a)))
        /\ page' = PageFor(now, ready.loaded)
        /\ UNCHANGED <<ready, listening, spinning>>

\* account-removed: the page stays.
Removed(a) ==
    /\ a \in Valid
    /\ account' = [account EXCEPT ![a].valid = FALSE, ![a].enabled = FALSE]
    /\ bar' = [bar EXCEPT ![a] = "none"]
    /\ balance' = RemoveBalance(balance, a)
    /\ MayCrash(UsesFreed(balance, a))
    /\ UNCHANGED <<ready, listening, page, spinning>>

EnabledChanged(a) ==
    LET now == [account EXCEPT ![a].enabled = ~@]
    IN  /\ a \in Valid
        /\ account' = now
        /\ bar' = IF account[a].enabled THEN [bar EXCEPT ![a] = "none"] ELSE bar
        /\ page' = IF ready.prepared THEN PageFor(now, ready.loaded) ELSE page
        /\ UNCHANGED <<ready, listening, balance, spinning, died>>

\* roster_window_connection_changed_cb.  A bar for one kind of error is kept, with
\* its buttons, for the next of the ordinary kind.
ErrorBar(a, upgrade) == IF upgrade THEN "upgrade" ELSE IF bar[a] = "none" THEN "error" ELSE bar[a]

StatusChanged(a, status, fails, upgrade) ==
    LET now == [account EXCEPT ![a].status = status]
    IN  /\ account[a].status # status
        /\ account' = now
        /\ IF a \notin listening THEN UNCHANGED <<bar, spinning>>
           ELSE /\ spinning' = \E b \in Accounts : now[b].valid /\ now[b].status = "connecting"
                /\ bar' = [bar EXCEPT ![a] = IF status = "on" THEN "none"
                                              ELSE IF status = "off" /\ fails THEN ErrorBar(a, upgrade)
                                              ELSE @]
        /\ UNCHANGED <<ready, listening, balance, page, died>>

\* account_connection_notify_cb
ConnectionChanged(a) ==
    LET now == [account EXCEPT ![a].connected = ~@]
    IN  /\ a \in Valid \/ account[a].connected
        /\ account' = now
        /\ IF a \notin listening THEN UNCHANGED <<balance, died>>
           ELSE IF now[a].connected
                THEN balance' = SetupBalance(balance, now, a) /\ UNCHANGED died
                ELSE balance' = RemoveBalance(balance, a) /\ MayCrash(UsesFreed(balance, a))
        /\ UNCHANGED <<ready, listening, bar, page, spinning>>

\* Retry, edit, close and upgrade all take the bar away.
BarClicked(a) ==
    /\ bar[a] # "none"
    /\ bar' = [bar EXCEPT ![a] = "none"]
    /\ UNCHANGED <<account, ready, listening, balance, page, spinning, died>>

WindowNext ==
    /\ ~died
    /\ \/ ManagerPrepared \/ ContactsLoaded
       \/ \E a \in Accounts :
            \/ BecomesValid(a) \/ BecomesInvalid(a) \/ Removed(a) \/ EnabledChanged(a)
            \/ ConnectionChanged(a) \/ BarClicked(a)
            \/ \E status \in {"off", "connecting", "on"}, fails, upgrade \in BOOLEAN :
                 StatusChanged(a, status, fails, upgrade)

WindowSpec == WindowInit /\ [][WindowNext]_windowVars

----------------------------------------------------------------------------
\* What the window says of the accounts is true, whatever order accounts come, fail,
\* connect and go in: no bar with an error for an account that is connected, and once
\* the accounts and the contacts are there, the page asks for an account only when
\* there is none to show contacts of.  (Before the contacts are loaded a page that
\* asks for one stays though there is one, and Removed leaves the page.)
WindowTellsAccounts ==
    /\ \A a \in Accounts : bar[a] # "none" => account[a].status # "on"
    /\ ready.prepared /\ ready.loaded =>
         /\ page # "loading"
         /\ page = "no account" => Valid = {}
         /\ page = "not enabled" => \A a \in Valid : ~account[a].enabled
=============================================================================
