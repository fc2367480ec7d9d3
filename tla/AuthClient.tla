----------------------------- MODULE AuthClient -----------------------------
(***************************************************************************)
(* src/empathy-auth-client.c: one process for the passwords of an account  *)
(* and the certificates of servers.  Its timer only heeds the certificates.*)
(***************************************************************************)
EXTENDS AuthFactory, ServerCertificates

clientVars == <<authVars, certVars, timerVars>>

Init == AuthInit(Channels) /\ CertsInit(Certs)

(* timeout_cb (), and main () again for the next channel *)
Timeout == CertsQuit /\ AuthQuit

(* A password given to a freed handler may end the process. *)
Crash ==
  /\ \E c \in idle : Freed(c)
  /\ AuthQuit
  /\ cert' = [c \in Certs |-> IF cert[c] = "new" THEN "new" ELSE "gone"]
  /\ alive' = {} /\ lost' = FALSE /\ numWindows' = 0 /\ timer' = useTimer
  /\ UNCHANGED <<chain, pinned, choice, useTimer>>

Next ==
  \/ AuthNext /\ UNCHANGED <<certVars, timerVars>>
  \/ CertsNext /\ UNCHANGED authVars
  \/ Timeout \/ Crash

(* The keyring, the dispatcher, the servers and the sign-on services answer,*)
(* an idle callback is run, and a connection that failed or whose channel   *)
(* was closed goes.                                                         *)
Fairness ==
  /\ \A c \in Channels :
       /\ WF_clientVars((GetPassword(c) \/ HandlerReady(c) \/ GivePassword(c)
                         \/ PasswordClaimed(c) \/ \E found \in BOOLEAN : SingleClaimed(c, found)
                         \/ \E ok \in BOOLEAN : EnsureCredentials(c, ok) \/ GotAccessToken(c, ok)
                              \/ IdentityQueryInfo(c, ok) \/ SessionProcess(c, ok))
                        /\ UNCHANGED <<certVars, timerVars>>)
  /\ WF_clientVars((ServerSucceeded \/ Succeeded \/ \E refused \in BOOLEAN : ServerFailed(refused))
                   /\ UNCHANGED <<certVars, timerVars>>)
  /\ WF_clientVars(sasl \in {"failed", "closing"} /\ Invalidated /\ UNCHANGED <<certVars, timerVars>>)
  /\ WF_clientVars((\E ok, found \in BOOLEAN : GoaClientNew(ok, found)) /\ UNCHANGED <<certVars, timerVars>>)

Spec == Init /\ [][Next]_clientVars /\ Fairness

-----------------------------------------------------------------------------
(* Nothing of a channel that went is left for the next one: no handler, no  *)
(* dialog, and the process neither quits under a question about another     *)
(* certificate nor stays for one that was answered.                         *)
NothingIsLeftOver == HandlersFollowChannel /\ TimerFollowsDialogs

(* Every channel of an account with a password gets one, or somebody is     *)
(* asked: in a dialog, or in the event manager.  (A channel that went while *)
(* its handler was made may take the place of the next one.)                *)
PasswordIsFound ==
  \A c \in Channels : (channel = c /\ kind = "password") ~>
    (channel # c \/ sasl # "idle" \/ c \in dialogs \/ stage[c] \in {"approver", "refused"}
     \/ doomed # {})

(* Whichever call of a single sign-on fails, its channel goes in the end: it *)
(* is closed, or, when the server refused, the connection manager ends it.  *)
(* An answer that is no error but has no token is another matter: nobody    *)
(* goes on with its channel.                                                *)
SingleSignOnEnds ==
  \A c \in Channels : (channel = c /\ kind \in Single) ~> (channel # c \/ stage[c] = "no token")
=============================================================================
