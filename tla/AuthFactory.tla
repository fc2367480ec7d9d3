---------------------------- MODULE AuthFactory ----------------------------
(***************************************************************************)
(* The password of one account, in empathy-auth-client: the observer and   *)
(* handler of libempathy/empathy-auth-factory.c, the SASL handler of       *)
(* libempathy/empathy-server-sasl-handler.c, the dialogs that ask for a    *)
(* password or for a better one, and the single sign-on of libempathy/     *)
(* empathy-goa-auth-handler.c and empathy-uoa-auth-handler.c.              *)
(*                                                                         *)
(* Each attempt to connect brings a channel, one at a time.  Looking the   *)
(* password up, claiming the channel, making its handler and giving the    *)
(* password each take a turn of the main loop, in which the channel may go.*)
(***************************************************************************)
EXTENDS Naturals, FiniteSets

CONSTANTS
  Attempts,            \* bound on the channels: 1 .. Attempts
  Passwords, None
ASSUME AuthAssumption == Attempts \in Nat /\ None \notin Passwords \union 1 .. Attempts

Channels == 1 .. Attempts
Kinds == {"password", "other", "goa", "uoa"}     \* how the account authenticates

VARIABLES
  kind, maySave,       \* of the account; MaySaveResponse
  samePath,            \* the channels have the same object path
  right,               \* the password that the server accepts
  keyring, retry,      \* the saved password, retry_passwords
  channel,             \* the channel there is
  sasl, tried,         \* its SASL status, the password its mechanism started with
  stage,               \* of each channel, where the factory is with it
  has, save, idle,     \* password, save_password, give_password is scheduled
  table,               \* sasl_handlers
  dialogs, bad,        \* password dialogs, bad password dialogs
  goaClient,           \* priv->client of the GOA handler
  first,               \* history: the retry password of each channel
  doomed,              \* history: channels that went while their handler was made
  second               \* history: channels that were given two passwords

accountVars == <<kind, maySave, samePath, right>>
channelVars == <<channel, sasl, tried>>
handlerVars == <<has, save, idle>>
historyVars == <<first, doomed, second>>
authVars == <<accountVars, keyring, retry, channelVars, stage, handlerVars, table,
              dialogs, bad, goaClient, historyVars>>

Path(c) == IF samePath THEN 1 ELSE c
Entry(c) == {d \in table : Path(d) = Path(c)}
Single == {"goa", "uoa"}
Stage(c, s) == stage' = [stage EXCEPT ![c] = s]

(* A handler is referenced by the table and by its dialog. *)
Freed(c) == c \notin table \union dialogs

-----------------------------------------------------------------------------
(* The connection manager lets a mechanism start once.  The error of a      *)
(* second start is only logged (start_mechanism_with_data_cb ()).           *)
StartMechanism(c, p) ==
  IF channel = c /\ sasl = "idle" THEN sasl' = "progress" /\ tried' = p
  ELSE UNCHANGED <<sasl, tried>>

(* empathy_server_sasl_handler_provide_password () of a handler that is     *)
(* there: the password to save is the last one to be remembered.            *)
ProvidePassword(c, p, remember) ==
  /\ StartMechanism(c, p)
  /\ has' = IF remember /\ maySave THEN [has EXCEPT ![c] = p] ELSE has
  /\ save' = IF remember /\ maySave THEN save \union {c} ELSE save
  /\ keyring' = IF maySave THEN keyring ELSE None

-----------------------------------------------------------------------------
(* come: the attempts that will be made *)
AuthInit(come) ==
  /\ kind \in Kinds /\ maySave \in BOOLEAN /\ samePath \in BOOLEAN /\ right \in Passwords
  /\ keyring \in Passwords \union {None} /\ retry = None
  /\ channel = None /\ sasl = "idle" /\ tried = None
  /\ stage = [c \in Channels |-> IF c \in come THEN "new" ELSE "done"]
  /\ has = [c \in Channels |-> None] /\ save = {} /\ idle = {}
  /\ table = {} /\ dialogs = {} /\ bad = {}
  /\ goaClient = "none"
  /\ first = [c \in Channels |-> None] /\ doomed = {} /\ second = {}

(* observe_channels (): single sign-on and an account with a password to    *)
(* retry are claimed at once, otherwise the keyring is looked at first.     *)
ObserveChannels(c) ==
  /\ channel = None /\ stage[c] = "new" /\ \A d \in 1 .. c - 1 : stage[d] # "new"
  /\ channel' = c /\ sasl' = "idle" /\ tried' = None
  /\ Stage(c, IF kind \in Single THEN "claiming"
              ELSE IF kind = "other" THEN "approver"
              ELSE IF retry # None THEN "claiming" ELSE "observing")
  /\ UNCHANGED <<accountVars, keyring, retry, handlerVars, table, dialogs, bad, goaClient, historyVars>>

(* Mutant: nobody else is asked. *)
GetPasswordOnly(c) ==
  /\ stage[c] = "observing" /\ Stage(c, IF keyring # None THEN "claiming" ELSE "done")
  /\ UNCHANGED <<accountVars, keyring, retry, channelVars, handlerVars, table, dialogs, bad,
                 goaClient, historyVars>>

(* get_password_cb (): without a password the approvers take the channel.   *)
GetPassword(c) ==
  /\ stage[c] = "observing"
  /\ Stage(c, IF keyring # None THEN "claiming" ELSE IF channel = c THEN "approver" ELSE "done")
  /\ UNCHANGED <<accountVars, keyring, retry, channelVars, handlerVars, table, dialogs, bad,
                 goaClient, historyVars>>

(* tp_channel_close_async () *)
Close(c) == sasl' = IF channel = c THEN "closing" ELSE sasl

(* start_auth (), of a GOA account that is found or not *)
StartAuth(c, found) ==
  IF found THEN Stage(c, "credentials") /\ UNCHANGED sasl ELSE Stage(c, "done") /\ Close(c)

(* empathy_goa_auth_handler_start (): queued until there is a client. *)
GoaStart(c, found) ==
  IF goaClient = "ready" THEN StartAuth(c, found) /\ UNCHANGED goaClient
  ELSE Stage(c, "queued") /\ goaClient' = "preparing" /\ UNCHANGED sasl

(* empathy_uoa_auth_handler_start () *)
UoaStart(c, found) ==
  /\ IF found THEN Stage(c, "info") /\ UNCHANGED sasl ELSE Stage(c, "done") /\ Close(c)
  /\ UNCHANGED goaClient

(* A claim fails when the channel is gone. *)
ClaimFails(c) ==
  /\ stage[c] = "claiming" /\ channel # c
  /\ Stage(c, "done")
  /\ UNCHANGED <<accountVars, keyring, retry, channelVars, handlerVars, table, dialogs, bad,
                 goaClient, historyVars>>

(* password_claim_cb () *)
PasswordClaimed(c) ==
  /\ stage[c] = "claiming" /\ channel = c /\ kind = "password"
  /\ Stage(c, "creating")
  /\ UNCHANGED <<accountVars, keyring, retry, channelVars, handlerVars, table, dialogs, bad,
                 goaClient, historyVars>>

(* goa_claim_cb () and uoa_claim_cb () *)
SingleClaimed(c, found) ==
  /\ stage[c] = "claiming" /\ channel = c /\ kind \in Single
  /\ IF kind = "goa" THEN GoaStart(c, found) ELSE UoaStart(c, found)
  /\ UNCHANGED <<accountVars, keyring, retry, channel, tried, handlerVars, table, dialogs, bad,
                 historyVars>>

(* The user accepts in the event manager.  common_checks () refuses a path  *)
(* that is in the table, handle_channels () any other mechanism.            *)
HandleChannels(c) ==
  /\ stage[c] = "approver" /\ channel = c
  /\ Stage(c, IF Entry(c) # {} \/ kind = "other" THEN "refused" ELSE "creating")
  /\ UNCHANGED <<accountVars, keyring, retry, channelVars, handlerVars, table, dialogs, bad,
                 goaClient, historyVars>>

(* Mutant: the password is saved when there was none to replace. *)
UseRetryPasswordSavesNew(c) ==
  /\ StartMechanism(c, retry) /\ retry' = None
  /\ has' = [has EXCEPT ![c] = keyring]
  /\ UNCHANGED save /\ keyring' = IF maySave THEN keyring ELSE None

(* "We want to save this new password only if there is another (wrong)      *)
(* password saved."                                                         *)
UseRetryPassword(c) ==
  LET remember == keyring # None /\ maySave IN
  /\ StartMechanism(c, retry) /\ retry' = None
  /\ has' = [has EXCEPT ![c] = IF remember THEN retry ELSE keyring]
  /\ save' = IF remember THEN save \union {c} ELSE save
  /\ keyring' = IF maySave THEN keyring ELSE None

(* auth_factory_new_sasl_handler_cb (): "If the handler has the password it *)
(* will deal with it itself."  A retry password does not count as one.      *)
Prompt(c, password) == dialogs' = IF password = None THEN dialogs \union {c} ELSE dialogs

(* empathy_server_sasl_handler_get_password_async_cb () and, in the same    *)
(* turn, server_sasl_handler_ready_cb (): nobody looks whether the channel  *)
(* is still there.                                                          *)
HandlerReady(c) ==
  /\ stage[c] = "creating" /\ Stage(c, "handled")
  /\ idle' = IF keyring # None THEN idle \union {c} ELSE idle
  /\ table' = (table \ Entry(c)) \union {c}
  /\ first' = [first EXCEPT ![c] = retry]
  /\ IF retry # None THEN UseRetryPassword(c)
     ELSE has' = [has EXCEPT ![c] = keyring] /\ UNCHANGED <<sasl, tried, save, keyring, retry>>
  /\ Prompt(c, has'[c])
  /\ UNCHANGED <<accountVars, channel, bad, goaClient, doomed, second>>

(* empathy_server_sasl_handler_give_password (): nothing keeps the handler  *)
(* until then.  With one that is freed the outcome is undefined; here it    *)
(* does nothing, or ends the process (AuthQuit).                            *)
GivePassword(c) ==
  /\ c \in idle /\ idle' = idle \ {c}
  /\ IF Freed(c) THEN UNCHANGED <<sasl, tried, has, save, keyring>>
     ELSE ProvidePassword(c, has[c], FALSE)
  /\ UNCHANGED <<accountVars, retry, channel, stage, table, dialogs, bad, goaClient, historyVars>>

(* password_dialog_response_cb () *)
DialogOk(c, p, remember) ==
  /\ c \in dialogs /\ dialogs' = dialogs \ {c}
  /\ ProvidePassword(c, p, remember)
  /\ second' = IF channel = c /\ sasl # "idle" THEN second \union {c} ELSE second
  /\ UNCHANGED <<accountVars, retry, channel, stage, idle, table, bad, goaClient, first, doomed>>

DialogCancel(c) ==
  /\ c \in dialogs /\ dialogs' = dialogs \ {c}
  /\ sasl' = IF channel = c THEN "failed" ELSE sasl
  /\ UNCHANGED <<accountVars, keyring, retry, channel, tried, stage, handlerVars, table, bad,
                 goaClient, historyVars>>

(* sasl_status_changed_cb (): the server succeeded, or it failed.           *)
ServerSucceeded ==
  /\ sasl = "progress" /\ (kind = "password" => tried = right)
  /\ sasl' = "accepted"
  /\ keyring' = IF channel \in save /\ ~Freed(channel) THEN has[channel] ELSE keyring
  /\ UNCHANGED <<accountVars, retry, channel, tried, stage, handlerVars, table, dialogs, bad,
                 goaClient, historyVars>>

ServerFailed(refused) ==
  /\ sasl = "progress" /\ (refused => tried # right)
  /\ sasl' = "failed"
  /\ bad' = IF refused /\ kind = "password" /\ ~Freed(channel) THEN bad \union {channel} ELSE bad
  /\ UNCHANGED <<accountVars, keyring, retry, channel, tried, stage, handlerVars, table, dialogs,
                 goaClient, historyVars>>

(* "SASL succeeded, calling Close", and auth_cb () *)
Succeeded ==
  /\ sasl = "accepted" /\ sasl' = "closing"
  /\ UNCHANGED <<accountVars, keyring, retry, channel, tried, stage, handlerVars, table, dialogs,
                 bad, goaClient, historyVars>>

(* Mutant: the password dialog stays. *)
DialogsAfterKept(c) == dialogs

(* password_dialog_handler_invalidated_cb () *)
DialogsAfter(c) == dialogs \ {c}

(* channel_invalidated_cb () and sasl_handler_invalidated_cb () *)
Invalidated ==
  /\ channel # None /\ channel' = None /\ sasl' = "idle" /\ tried' = None
  /\ IF Freed(channel) THEN UNCHANGED <<table, dialogs>>
     ELSE table' = table \ Entry(channel) /\ dialogs' = DialogsAfter(channel)
  /\ stage' = [stage EXCEPT ![channel] = IF @ = "approver" THEN "done" ELSE @]
  /\ doomed' = IF stage[channel] = "creating" THEN doomed \union {channel} ELSE doomed
  /\ UNCHANGED <<accountVars, keyring, retry, handlerVars, bad, goaClient, first, second>>

(* bad_password_dialog_response_cb () and retry_account_cb (), with         *)
(* empathy_auth_factory_save_retry_password ()                              *)
Retry(c, p) ==
  /\ c \in bad /\ bad' = bad \ {c} /\ retry' = p
  /\ UNCHANGED <<accountVars, keyring, channelVars, stage, handlerVars, table, dialogs, goaClient,
                 historyVars>>

GiveUp(c) ==
  /\ c \in bad /\ bad' = bad \ {c}
  /\ UNCHANGED <<accountVars, keyring, retry, channelVars, stage, handlerVars, table, dialogs,
                 goaClient, historyVars>>

(* The saved password is forgotten elsewhere. *)
Forgotten ==
  /\ keyring # None /\ keyring' = None
  /\ UNCHANGED <<accountVars, retry, channelVars, stage, handlerVars, table, dialogs, bad,
                 goaClient, historyVars>>

-----------------------------------------------------------------------------
(* client_new_cb () processes what was queued; without a client it fails.   *)
GoaClientNew(ok, found) ==
  LET queued == {c \in Channels : stage[c] = "queued"}
      start == ok /\ found IN
  /\ goaClient = "preparing" /\ goaClient' = IF ok THEN "ready" ELSE "none"
  /\ stage' = [c \in Channels |-> IF c \notin queued THEN stage[c]
                                  ELSE IF start THEN "credentials" ELSE "done"]
  /\ sasl' = IF channel \in queued /\ ~start THEN "closing" ELSE sasl
  /\ UNCHANGED <<accountVars, keyring, retry, channel, tried, handlerVars, table, dialogs, bad,
                 historyVars>>

(* Mutant: a failure is only logged. *)
FailAuthSilently(c) == Stage(c, "done") /\ UNCHANGED <<sasl, tried>>

(* fail_auth () *)
FailAuth(c) == Stage(c, "done") /\ Close(c) /\ UNCHANGED tried

SingleStep(c, from, ok, continue) ==
  /\ stage[c] = from /\ IF ok THEN continue ELSE FailAuth(c)
  /\ UNCHANGED <<accountVars, keyring, retry, channel, handlerVars, table, dialogs, bad, goaClient,
                 historyVars>>

(* The mechanism closes the channel in any case but two: when a server       *)
(* refuses the connection manager has to, and an answer without a token or  *)
(* client id returns at g_return_if_fail, and leaves the channel as it is.  *)
SaslAuth(c) ==
  \/ Stage(c, "auth") /\ StartMechanism(c, None)
  \/ Stage(c, "no token") /\ UNCHANGED <<sasl, tried>>

EnsureCredentials(c, ok) ==
  SingleStep(c, "credentials", ok, Stage(c, "token") /\ UNCHANGED <<sasl, tried>>)
GotAccessToken(c, ok) == SingleStep(c, "token", ok, SaslAuth(c))
IdentityQueryInfo(c, ok) ==
  SingleStep(c, "info", ok, Stage(c, "session") /\ UNCHANGED <<sasl, tried>>)
SessionProcess(c, ok) == SingleStep(c, "session", ok, SaslAuth(c))

(* The process ends: what it handled or had claimed is closed, what it only *)
(* observed goes on to the approvers.                                       *)
AuthQuit ==
  /\ retry' = None /\ has' = [c \in Channels |-> None] /\ save' = {} /\ idle' = {}
  /\ table' = {} /\ dialogs' = {} /\ bad' = {} /\ goaClient' = "none"
  /\ stage' = [c \in Channels |-> IF stage[c] \in {"new", "approver", "refused"} THEN stage[c]
                                  ELSE IF stage[c] = "observing" /\ channel = c THEN "approver"
                                  ELSE "done"]
  /\ IF channel # None /\ stage'[channel] = "done"
     THEN channel' = None /\ sasl' = "idle" /\ tried' = None
     ELSE UNCHANGED channelVars
  /\ doomed' = {} /\ first' = [c \in Channels |-> None] /\ second' = {}
  /\ UNCHANGED <<accountVars, keyring>>

AuthNext ==
  \/ \E c \in Channels :
       \/ ObserveChannels(c) \/ GetPassword(c) \/ HandleChannels(c) \/ HandlerReady(c)
       \/ GivePassword(c) \/ DialogCancel(c) \/ GiveUp(c)
       \/ ClaimFails(c) \/ PasswordClaimed(c) \/ \E found \in BOOLEAN : SingleClaimed(c, found)
       \/ \E p \in Passwords : Retry(c, p) \/ \E remember \in BOOLEAN : DialogOk(c, p, remember)
       \/ \E ok \in BOOLEAN : EnsureCredentials(c, ok) \/ GotAccessToken(c, ok)
                              \/ IdentityQueryInfo(c, ok) \/ SessionProcess(c, ok)
  \/ ServerSucceeded \/ Succeeded \/ Invalidated \/ Forgotten
  \/ \E refused \in BOOLEAN : ServerFailed(refused)
  \/ \E ok, found \in BOOLEAN : GoaClientNew(ok, found)

-----------------------------------------------------------------------------
(* The type invariant. *)
AuthTypeOK ==
  /\ {keyring, retry, tried} \subseteq Passwords \union {None}
  /\ channel \in Channels \union {None}
  /\ sasl \in {"idle", "progress", "accepted", "failed", "closing"}
  /\ has \in [Channels -> Passwords \union {None}]
  /\ save \union idle \union table \union dialogs \union bad \subseteq Channels
  /\ \A c, d \in table : Path(c) = Path(d) => c = d

(* A handler and a password dialog go with their channel, so that a later   *)
(* channel of the account finds neither: except those of a channel that     *)
(* went while its handler was made, which stay.                             *)
HandlersFollowChannel == AuthTypeOK /\ (table \union dialogs) \ doomed \subseteq {channel}

(* "We'll save the password if we manage to connect": once the server took  *)
(* a password the keyring has no other one, and none at all if it may not be *)
(* saved.  Two cases are left out, in which the code does otherwise: a      *)
(* dialog gave a second password to a mechanism that was already started,   *)
(* or a channel went while its handler was made.  And a password that       *)
(* is given for another attempt is the one that the attempt is made with,   *)
(* not the saved one that was refused before.                               *)
SavedIsRight ==
  /\ sasl = "accepted" /\ kind = "password" /\ channel \notin second /\ doomed = {} =>
       keyring \in {None} \union IF maySave THEN {right} ELSE {}
  /\ channel # None /\ sasl \in {"progress", "accepted"} /\ first[channel] # None =>
       tried = first[channel]
=============================================================================
