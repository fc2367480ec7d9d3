--------------------------- MODULE AccountsProofs ---------------------------
(***************************************************************************)
(* What the authentication client guarantees, whatever the answers of the  *)
(* keyring, the servers, the sign-on services and the user are, and in     *)
(* whichever turn the channel goes: no handler and no dialog outlives its  *)
(* channel unnoticed, the process does not quit under a question, and only *)
(* a password that the server took is saved.  And what the accounts dialog *)
(* does, whichever accounts come, go and get ready: its details are those  *)
(* of the selected account, and it removes the one it asked about.         *)
(***************************************************************************)
EXTENDS AuthClient, AccountsDialog, FiniteSetTheorems, TLAPS

-----------------------------------------------------------------------------
(* The certificates.  The questions are counted exactly as long as none was *)
(* destroyed with its channel, and the timer only runs while there is none. *)
QuestionsCounted ==
  /\ IsFiniteSet(Dialogs)
  /\ numWindows >= Cardinality(Dialogs)
  /\ ~lost => numWindows = Cardinality(Dialogs)
  /\ timer => numWindows = 0
  /\ useTimer /\ numWindows = 0 => timer

CertsInv == CertsTypeOK /\ QuestionsCounted

LEMMA CertsInitially ==
  ASSUME NEW come \in SUBSET Certs, CertsInit(come)
  PROVE  CertsInv
<1>1. Dialogs = {}
  BY DEF CertsInit, Dialogs
<1>2. CertsTypeOK
  BY DEF CertsInit, CertsTypeOK
<1> QED BY <1>1, <1>2, FS_EmptySet DEF CertsInit, CertsInv, QuestionsCounted

(* A certificate that is handled, verified without a question or refused. *)
LEMMA CertsUnasked ==
  ASSUME CertsInv, NEW c \in Certs, cert[c] # "dialog",
         cert'[c] \in {"preparing", "verifying", "accepted", "refused"},
         cert' = [cert EXCEPT ![c] = cert'[c]], alive' \subseteq Certs,
         UNCHANGED <<chain, pinned, choice, lost, timerVars>>
  PROVE  CertsInv'
<1>1. CertsTypeOK'
  BY DEF CertsInv, CertsTypeOK, timerVars
<1>2. Dialogs' = Dialogs
  BY DEF Dialogs, CertsInv, CertsTypeOK
<1> QED BY <1>1, <1>2 DEF CertsInv, QuestionsCounted, timerVars

LEMMA CertsVerified ==
  ASSUME CertsInv, NEW c \in Certs, Verified(c)
  PROVE  CertsInv'
<1>1. CASE PerformVerification(chain[c]) = "none"
  <2>1. /\ cert[c] = "verifying" /\ cert' = [cert EXCEPT ![c] = "accepted"]
        /\ UNCHANGED <<chain, alive, pinned, choice, lost, timerVars>>
    BY <1>1 DEF Verified, timerVars
  <2>2. cert'[c] = "accepted" /\ alive' \subseteq Certs
    BY <2>1 DEF CertsInv, CertsTypeOK
  <2> QED BY <2>1, <2>2, CertsUnasked
<1>2. CASE PerformVerification(chain[c]) # "none"
  <2>1. /\ cert[c] = "verifying" /\ cert' = [cert EXCEPT ![c] = "dialog"]
        /\ numWindows' = numWindows + 1 /\ timer' = FALSE
        /\ UNCHANGED <<chain, alive, pinned, choice, lost, useTimer>>
    BY <1>2 DEF Verified, DisplayInteractiveDialog
  <2>2. CertsTypeOK'
    <3>1. numWindows' \in Nat
      BY <2>1 DEF CertsInv, CertsTypeOK
    <3>2. cert' \in [Certs -> {"new", "preparing", "verifying", "dialog", "accepted", "confirmed",
                               "rejected", "refused", "gone"}]
      BY <2>1 DEF CertsInv, CertsTypeOK
    <3>3. {useTimer', timer', lost'} \subseteq BOOLEAN
      BY <2>1 DEF CertsInv, CertsTypeOK
    <3> QED BY <2>1, <3>1, <3>2, <3>3 DEF CertsInv, CertsTypeOK
  <2>3. Dialogs' = Dialogs \union {c} /\ c \notin Dialogs
    BY <2>1 DEF Dialogs, CertsInv, CertsTypeOK
  <2>4. IsFiniteSet(Dialogs') /\ Cardinality(Dialogs') = Cardinality(Dialogs) + 1
    BY <2>3, FS_AddElement DEF CertsInv, QuestionsCounted
  <2>5. Cardinality(Dialogs) \in Nat /\ numWindows \in Nat
    BY FS_CardinalityType DEF CertsInv, QuestionsCounted, CertsTypeOK
  <2> QED BY <2>1, <2>2, <2>4, <2>5 DEF CertsInv, QuestionsCounted
<1> QED BY <1>1, <1>2

(* A dialog that goes. *)
LEMMA QuestionGone ==
  ASSUME CertsInv, NEW c \in Certs, cert[c] = "dialog",
         cert'[c] # "dialog", cert' = [cert EXCEPT ![c] = cert'[c]]
  PROVE  /\ IsFiniteSet(Dialogs') /\ Cardinality(Dialogs') = Cardinality(Dialogs) - 1
         /\ Cardinality(Dialogs) \in Nat /\ Cardinality(Dialogs) > 0 /\ numWindows > 0
         /\ ~timer /\ timer \in BOOLEAN /\ numWindows \in Nat
<1>1. Dialogs' = Dialogs \ {c} /\ c \in Dialogs
  BY DEF Dialogs, CertsInv, CertsTypeOK
<1>2. IsFiniteSet(Dialogs) /\ Cardinality(Dialogs) \in Nat
  BY FS_CardinalityType DEF CertsInv, QuestionsCounted
<1>3. IsFiniteSet(Dialogs') /\ Cardinality(Dialogs') = Cardinality(Dialogs) - 1
  BY <1>1, <1>2, FS_RemoveElement
<1>4. Cardinality(Dialogs') \in Nat
  BY <1>3, FS_CardinalityType
<1>5. numWindows \in Nat /\ timer \in BOOLEAN
  BY DEF CertsInv, CertsTypeOK
<1> QED BY <1>2, <1>3, <1>4, <1>5 DEF CertsInv, QuestionsCounted

LEMMA CertsAnswered ==
  ASSUME CertsInv, NEW c \in Certs, NEW yes \in BOOLEAN, NEW remember \in BOOLEAN,
         TlsDialogResponse(c, yes, remember)
  PROVE  CertsInv'
<1>1. /\ cert[c] = "dialog" /\ cert' = [cert EXCEPT ![c] = IF yes THEN "confirmed" ELSE "rejected"]
      /\ numWindows' = numWindows - 1 /\ timer' = IF numWindows' > 0 THEN timer ELSE useTimer
      /\ UNCHANGED <<chain, alive, lost, useTimer>>
  BY DEF TlsDialogResponse, Answered
<1>2. cert'[c] # "dialog" /\ cert' = [cert EXCEPT ![c] = cert'[c]]
  BY <1>1 DEF CertsInv, CertsTypeOK
<1>3. /\ IsFiniteSet(Dialogs') /\ Cardinality(Dialogs') = Cardinality(Dialogs) - 1
      /\ Cardinality(Dialogs) \in Nat /\ numWindows > 0 /\ numWindows \in Nat /\ ~timer
  BY <1>1, <1>2, QuestionGone
<1>4. choice' \in [Chains -> {"none", "yes", "no"}] /\ pinned' \subseteq Chains
  BY DEF TlsDialogResponse, StoreException, CertsInv, CertsTypeOK
<1>5. useTimer \in BOOLEAN /\ timer \in BOOLEAN
  BY DEF CertsInv, CertsTypeOK
<1>6. numWindows' \in Nat /\ timer' \in BOOLEAN
  BY <1>1, <1>3, <1>5
<1>7. CertsTypeOK'
  BY <1>1, <1>4, <1>6 DEF CertsInv, CertsTypeOK
<1> QED BY <1>1, <1>3, <1>5, <1>7 DEF CertsInv, QuestionsCounted

LEMMA CertsInvalidated ==
  ASSUME CertsInv, NEW c \in Certs, CertInvalidated(c)
  PROVE  CertsInv'
<1>1. /\ cert' = [cert EXCEPT ![c] = IF @ = "dialog" THEN "gone" ELSE @] /\ alive' \subseteq alive
      /\ lost' = (lost \/ cert[c] = "dialog")
      /\ UNCHANGED <<chain, pinned, choice, useTimer, numWindows, timer>>
  BY DEF CertInvalidated, timerVars
<1>2. CertsTypeOK'
  BY <1>1 DEF CertsInv, CertsTypeOK
<1>3. CASE cert[c] = "dialog"
  <2>1. cert'[c] # "dialog" /\ cert' = [cert EXCEPT ![c] = cert'[c]]
    BY <1>1, <1>3 DEF CertsInv, CertsTypeOK
  <2>2. /\ IsFiniteSet(Dialogs') /\ Cardinality(Dialogs') = Cardinality(Dialogs) - 1
        /\ Cardinality(Dialogs) \in Nat /\ numWindows \in Nat
    BY <1>3, <2>1, QuestionGone
  <2>3. lost'
    BY <1>1, <1>3
  <2>4. numWindows' >= Cardinality(Dialogs')
    BY <1>1, <2>2 DEF CertsInv, QuestionsCounted
  <2> QED BY <1>1, <1>2, <2>2, <2>3, <2>4 DEF CertsInv, QuestionsCounted
<1>4. CASE cert[c] # "dialog"
  <2>1. Dialogs' = Dialogs /\ lost' = lost
    BY <1>1, <1>4 DEF Dialogs, CertsInv, CertsTypeOK
  <2> QED BY <1>1, <1>2, <2>1 DEF CertsInv, QuestionsCounted
<1> QED BY <1>3, <1>4

(* The process ends. *)
LEMMA CertsEnd ==
  ASSUME CertsInv, cert' = [c \in Certs |-> IF cert[c] = "new" THEN "new" ELSE "gone"],
         alive' = {}, lost' = FALSE, numWindows' = 0, timer' = useTimer,
         UNCHANGED <<chain, pinned, choice, useTimer>>
  PROVE  CertsInv'
<1>1. CertsTypeOK'
  BY DEF CertsInv, CertsTypeOK
<1>2. Dialogs' = {}
  BY DEF Dialogs
<1> QED BY <1>1, <1>2, FS_EmptySet DEF CertsInv, QuestionsCounted

LEMMA CertsQuitStep ==
  ASSUME CertsInv, CertsQuit
  PROVE  CertsInv'
<1>1. timer /\ numWindows = 0 /\ {useTimer, timer} \subseteq BOOLEAN
  BY DEF CertsInv, QuestionsCounted, CertsQuit, CertsTypeOK
<1>2. /\ cert' = [c \in Certs |-> IF cert[c] = "new" THEN "new" ELSE "gone"]
      /\ alive' = {} /\ lost' = FALSE /\ UNCHANGED <<chain, pinned, choice, useTimer, numWindows, timer>>
  BY DEF CertsQuit, timerVars
<1>3. CertsTypeOK'
  BY <1>2 DEF CertsInv, CertsTypeOK
<1>4. Dialogs' = {}
  BY <1>2 DEF Dialogs
<1> QED BY <1>1, <1>2, <1>3, <1>4, FS_EmptySet DEF CertsInv, QuestionsCounted

LEMMA CertsStep ==
  ASSUME CertsInv, CertsNext
  PROVE  CertsInv'
<1>1. PICK c \in Certs :
        \/ HandleTls(c) \/ Verified(c) \/ CertInvalidated(c)
        \/ \E ok \in BOOLEAN : TlsHandlerReady(c, ok)
        \/ \E yes, remember \in BOOLEAN : TlsDialogResponse(c, yes, remember)
  BY DEF CertsNext
<1>2. CASE HandleTls(c)
  <2>1. /\ cert[c] # "dialog" /\ cert' = [cert EXCEPT ![c] = "preparing"]
        /\ alive' = alive \union {c} /\ UNCHANGED <<chain, pinned, choice, lost, timerVars>>
    BY <1>2 DEF HandleTls
  <2>2. cert'[c] = "preparing" /\ alive' \subseteq Certs
    BY <2>1 DEF CertsInv, CertsTypeOK
  <2> QED BY <2>1, <2>2, CertsUnasked
<1>3. ASSUME NEW ok \in BOOLEAN, TlsHandlerReady(c, ok) PROVE CertsInv'
  <2>1. /\ cert[c] # "dialog"
        /\ cert' = [cert EXCEPT ![c] = "verifying"] \/ cert' = [cert EXCEPT ![c] = "refused"]
        /\ UNCHANGED <<chain, alive, pinned, choice, lost, timerVars>>
    BY <1>3 DEF TlsHandlerReady, Verify
  <2>2. cert'[c] \in {"verifying", "refused"} /\ cert' = [cert EXCEPT ![c] = cert'[c]] /\ alive' \subseteq Certs
    BY <2>1 DEF CertsInv, CertsTypeOK
  <2> QED BY <2>1, <2>2, CertsUnasked
<1> QED BY <1>1, <1>2, <1>3, CertsVerified, CertsInvalidated, CertsAnswered

LEMMA TimerTold == CertsInv => TimerFollowsDialogs
<1> SUFFICES ASSUME CertsInv PROVE TimerFollowsDialogs
  OBVIOUS
<1>1. IsFiniteSet(Dialogs) /\ Cardinality(Dialogs) \in Nat /\ numWindows \in Nat
  BY FS_CardinalityType DEF CertsInv, QuestionsCounted, CertsTypeOK
<1>2. Cardinality(Dialogs) = 0 <=> Dialogs = {}
  BY <1>1, FS_EmptySet
<1> QED BY <1>1, <1>2 DEF CertsInv, QuestionsCounted, TimerFollowsDialogs

-----------------------------------------------------------------------------
(* The passwords.  *)
SignOn == {"queued", "credentials", "token", "auth", "info", "session", "no token"}
Early == {"new", "observing", "claiming", "approver", "refused", "creating"}
Stages == Early \union SignOn \union {"handled", "done"}

AuthTyped ==
  /\ keyring \in Passwords \union {None} /\ retry \in Passwords \union {None}
  /\ tried \in Passwords \union {None} /\ channel \in Channels \union {None}
  /\ sasl \in {"idle", "progress", "accepted", "failed", "closing"}
  /\ has \in [Channels -> Passwords \union {None}]
  /\ first \in [Channels -> Passwords \union {None}]
  /\ stage \in [Channels -> Stages]
  /\ save \subseteq Channels /\ idle \subseteq Channels /\ table \subseteq Channels
  /\ dialogs \subseteq Channels /\ bad \subseteq Channels

PathsDiffer == \A c, d \in table : Path(c) = Path(d) => c = d

(* A handler is made once, for a channel that was claimed. *)
StageKnown(c) ==
  /\ stage[c] = "creating" => c = channel \/ c \in doomed
  /\ c \in table \union dialogs => c = channel \/ c \in doomed
  /\ stage[c] # "handled" => first[c] = None /\ c \notin save \union idle \union table \union dialogs
  /\ stage[c] \in SignOn => kind \in Single

(* Until its handler is made nobody starts the mechanism of a channel; the   *)
(* password to retry does it at once.                                        *)
ChannelKnown ==
  /\ channel = None => sasl = "idle"
  /\ channel # None /\ stage[channel] \in Early => sasl = "idle"
  /\ channel # None /\ sasl \in {"progress", "accepted"} /\ kind = "password" =>
       stage[channel] = "handled"
  /\ channel # None /\ first[channel] # None =>
       sasl # "idle" /\ (sasl \in {"progress", "accepted"} => tried = first[channel])

(* What the keyring has is what the server is given, or will have it.        *)
PasswordKnown ==
  channel # None /\ stage[channel] = "handled" /\ kind = "password" /\ maySave
  /\ doomed = {} /\ channel \notin second =>
    /\ channel \in table
    /\ sasl = "idle" => /\ channel \notin save /\ keyring \in {None, has[channel]}
                        /\ channel \in dialogs => has[channel] = None
    /\ sasl = "progress" => IF channel \in save THEN has[channel] = tried
                            ELSE keyring \in {None, tried}
    /\ sasl = "accepted" => keyring \in {None, right}

(* What may not be saved is deleted before it is given.                      *)
NotSaved ==
  /\ maySave \/ save = {}
  /\ sasl \in {"progress", "accepted"} /\ kind = "password" => maySave \/ keyring = None

AuthInv ==
  /\ AuthTyped /\ PathsDiffer /\ \A c \in Channels : StageKnown(c)
  /\ ChannelKnown /\ PasswordKnown /\ NotSaved

LEMMA NoneApart == None \notin Passwords /\ None \notin Channels
  BY AuthAssumption DEF Channels

LEMMA AuthInitially ==
  ASSUME NEW come \in SUBSET Channels, AuthInit(come)
  PROVE  AuthInv
<1>1. AuthTyped
  BY DEF AuthInit, AuthTyped, Stages, Early
<1>2. PathsDiffer /\ ChannelKnown /\ PasswordKnown /\ NotSaved
  BY DEF AuthInit, PathsDiffer, ChannelKnown, PasswordKnown, NotSaved
<1>3. ASSUME NEW c \in Channels PROVE StageKnown(c)
  BY DEF AuthInit, StageKnown, SignOn
<1> QED BY <1>1, <1>2, <1>3 DEF AuthInv

(* A channel that goes from one queue of the factory to another. *)
LEMMA StageMoves ==
  ASSUME AuthInv, NEW c \in Channels, stage[c] \in Early,
         NEW s \in {"claiming", "approver", "refused", "creating", "done"},
         s = "creating" => channel = c, stage' = [stage EXCEPT ![c] = s],
         UNCHANGED <<accountVars, keyring, retry, channelVars, handlerVars, table, dialogs, bad,
                     historyVars>>
  PROVE  AuthInv'
<1> USE DEF accountVars, channelVars, handlerVars, historyVars
<1>1. AuthTyped' /\ PathsDiffer'
  BY DEF AuthInv, AuthTyped, PathsDiffer, Path, Stages, Early
<1>2. ASSUME NEW d \in Channels PROVE StageKnown(d)'
  BY DEF AuthInv, AuthTyped, StageKnown, Early, SignOn
<1>3. ChannelKnown' /\ PasswordKnown' /\ NotSaved'
  BY NoneApart DEF AuthInv, AuthTyped, ChannelKnown, PasswordKnown, NotSaved, Early
<1> QED BY <1>1, <1>2, <1>3 DEF AuthInv

(* A single sign-on: only the channel whose step it is may be started. *)
LEMMA SignOnMoves ==
  ASSUME AuthInv, kind \in Single, stage' \in [Channels -> Stages],
         \A d \in Channels : \/ stage'[d] = stage[d]
                             \/ /\ stage[d] \in SignOn \union {"claiming"}
                                /\ stage'[d] \in SignOn \union {"done"},
         sasl' \in {"idle", "progress", "accepted", "failed", "closing"},
         tried' \in Passwords \union {None},
         \/ UNCHANGED <<sasl, tried>>
         \/ channel # None /\ stage[channel] \in SignOn \union {"claiming"}
            /\ stage'[channel] \in SignOn \union {"done"},
         UNCHANGED <<accountVars, keyring, retry, channel, handlerVars, table, dialogs, bad,
                     historyVars>>
  PROVE  AuthInv'
<1> USE DEF accountVars, channelVars, handlerVars, historyVars
<1>1. AuthTyped' /\ PathsDiffer'
  BY DEF AuthInv, AuthTyped, PathsDiffer, Path
<1>2. ASSUME NEW d \in Channels PROVE StageKnown(d)'
  BY DEF AuthInv, AuthTyped, StageKnown, SignOn
<1>3. ChannelKnown' /\ PasswordKnown' /\ NotSaved'
  BY NoneApart DEF AuthInv, AuthTyped, ChannelKnown, PasswordKnown, NotSaved, StageKnown, Early, SignOn, Single
<1> QED BY <1>1, <1>2, <1>3 DEF AuthInv

LEMMA SingleSteps ==
  ASSUME AuthInv, NEW c \in Channels, NEW from, NEW to, NEW ok \in BOOLEAN,
         from \in SignOn, to \in SignOn,
         stage[c] = from, stage' = [stage EXCEPT ![c] = IF ok THEN to ELSE "done"],
         \/ UNCHANGED <<sasl, tried>>
         \/ channel = c /\ sasl' = "closing" /\ tried' = tried
         \/ channel = c /\ sasl' = "progress" /\ tried' = None,
         UNCHANGED <<accountVars, keyring, retry, channel, handlerVars, table, dialogs, bad,
                     historyVars>>
  PROVE  AuthInv'
<1>1. kind \in Single
  BY DEF AuthInv, StageKnown
<1>2. stage \in [Channels -> Stages] /\ SignOn \subseteq Stages /\ "done" \in Stages
  BY DEF AuthInv, AuthTyped, Stages
<1>3. /\ stage' \in [Channels -> Stages]
      /\ \A d \in Channels : d # c => stage'[d] = stage[d]
      /\ stage'[c] \in SignOn \union {"done"} /\ stage[c] \in SignOn \union {"claiming"}
  BY <1>2
<1>4. /\ sasl' \in {"idle", "progress", "accepted", "failed", "closing"}
      /\ tried' \in Passwords \union {None}
  BY DEF AuthInv, AuthTyped
<1>5. c # None
  BY NoneApart
<1> QED BY <1>1, <1>3, <1>4, <1>5, SignOnMoves

LEMMA SingleAnswers ==
  ASSUME AuthInv, NEW c \in Channels, NEW ok \in BOOLEAN,
         EnsureCredentials(c, ok) \/ GotAccessToken(c, ok)
           \/ IdentityQueryInfo(c, ok) \/ SessionProcess(c, ok)
  PROVE  AuthInv'
<1> USE DEF SingleStep, FailAuth, SaslAuth, StartMechanism, Stage, Close
<1>1. CASE EnsureCredentials(c, ok)
  <2>1. /\ stage[c] = "credentials"
        /\ UNCHANGED <<accountVars, keyring, retry, channel, handlerVars, table, dialogs, bad,
                       historyVars>>
    BY <1>1 DEF EnsureCredentials
  <2>2. CASE ok
    <3>1. /\ stage' = [stage EXCEPT ![c] = "token"]
          /\ UNCHANGED <<sasl, tried>>
      BY <1>1, <2>2 DEF EnsureCredentials
    <3> QED BY <2>1, <2>2, <3>1, SingleSteps DEF SignOn
  <2>3. CASE ~ok
    <3>1. /\ stage' = [stage EXCEPT ![c] = "done"] /\ tried' = tried
          /\ sasl' = IF channel = c THEN "closing" ELSE sasl
      BY <1>1, <2>3 DEF EnsureCredentials
    <3> QED BY <2>1, <2>3, <3>1, SingleSteps DEF SignOn
  <2> QED BY <2>2, <2>3
<1>2. CASE GotAccessToken(c, ok)
  <2>1. /\ stage[c] = "token"
        /\ UNCHANGED <<accountVars, keyring, retry, channel, handlerVars, table, dialogs, bad,
                       historyVars>>
    BY <1>2 DEF GotAccessToken
  <2>2. CASE ok
    <3>1. PICK to \in {"auth", "no token"} :
            /\ stage' = [stage EXCEPT ![c] = to]
            /\ \/ UNCHANGED <<sasl, tried>>
               \/ channel = c /\ sasl' = "progress" /\ tried' = None
      BY <1>2, <2>2 DEF GotAccessToken
    <3>2. to \in SignOn /\ "token" \in SignOn
      BY DEF SignOn
    <3> QED BY <2>1, <2>2, <3>1, <3>2, SingleSteps
  <2>3. CASE ~ok
    <3>1. /\ stage' = [stage EXCEPT ![c] = "done"] /\ tried' = tried
          /\ sasl' = IF channel = c THEN "closing" ELSE sasl
      BY <1>2, <2>3 DEF GotAccessToken
    <3> QED BY <2>1, <2>3, <3>1, SingleSteps DEF SignOn
  <2> QED BY <2>2, <2>3
<1>3. CASE IdentityQueryInfo(c, ok)
  <2>1. /\ stage[c] = "info"
        /\ UNCHANGED <<accountVars, keyring, retry, channel, handlerVars, table, dialogs, bad,
                       historyVars>>
    BY <1>3 DEF IdentityQueryInfo
  <2>2. CASE ok
    <3>1. /\ stage' = [stage EXCEPT ![c] = "session"]
          /\ UNCHANGED <<sasl, tried>>
      BY <1>3, <2>2 DEF IdentityQueryInfo
    <3> QED BY <2>1, <2>2, <3>1, SingleSteps DEF SignOn
  <2>3. CASE ~ok
    <3>1. /\ stage' = [stage EXCEPT ![c] = "done"] /\ tried' = tried
          /\ sasl' = IF channel = c THEN "closing" ELSE sasl
      BY <1>3, <2>3 DEF IdentityQueryInfo
    <3> QED BY <2>1, <2>3, <3>1, SingleSteps DEF SignOn
  <2> QED BY <2>2, <2>3
<1>4. CASE SessionProcess(c, ok)
  <2>1. /\ stage[c] = "session"
        /\ UNCHANGED <<accountVars, keyring, retry, channel, handlerVars, table, dialogs, bad,
                       historyVars>>
    BY <1>4 DEF SessionProcess
  <2>2. CASE ok
    <3>1. PICK to \in {"auth", "no token"} :
            /\ stage' = [stage EXCEPT ![c] = to]
            /\ \/ UNCHANGED <<sasl, tried>>
               \/ channel = c /\ sasl' = "progress" /\ tried' = None
      BY <1>4, <2>2 DEF SessionProcess
    <3>2. to \in SignOn /\ "session" \in SignOn
      BY DEF SignOn
    <3> QED BY <2>1, <2>2, <3>1, <3>2, SingleSteps
  <2>3. CASE ~ok
    <3>1. /\ stage' = [stage EXCEPT ![c] = "done"] /\ tried' = tried
          /\ sasl' = IF channel = c THEN "closing" ELSE sasl
      BY <1>4, <2>3 DEF SessionProcess
    <3> QED BY <2>1, <2>3, <3>1, SingleSteps DEF SignOn
  <2> QED BY <2>2, <2>3
<1> QED BY <1>1, <1>2, <1>3, <1>4

LEMMA SingleClaims ==
  ASSUME AuthInv, NEW c \in Channels, NEW found \in BOOLEAN, SingleClaimed(c, found)
  PROVE  AuthInv'
<1>1. PICK s \in {"credentials", "info", "queued", "done"} :
        /\ stage' = [stage EXCEPT ![c] = s]
        /\ sasl' = sasl \/ sasl' = "closing"
  BY DEF SingleClaimed, GoaStart, StartAuth, UoaStart, Stage, Close
<1>2. /\ stage[c] = "claiming" /\ channel = c /\ kind \in Single
      /\ UNCHANGED <<accountVars, keyring, retry, channel, tried, handlerVars, table, dialogs, bad,
                     historyVars>>
  BY DEF SingleClaimed
<1>3. /\ stage' \in [Channels -> Stages] /\ stage'[c] \in SignOn \union {"done"}
      /\ \A d \in Channels : d # c => stage'[d] = stage[d]
  BY <1>1 DEF AuthInv, AuthTyped, Stages, SignOn
<1>4. /\ sasl' \in {"idle", "progress", "accepted", "failed", "closing"}
      /\ tried' \in Passwords \union {None}
  BY <1>1, <1>2 DEF AuthInv, AuthTyped
<1> QED BY <1>2, <1>3, <1>4, NoneApart, SignOnMoves

LEMMA ClientAnswers ==
  ASSUME AuthInv, NEW ok \in BOOLEAN, NEW found \in BOOLEAN, GoaClientNew(ok, found)
  PROVE  AuthInv'
<1> DEFINE queued == {c \in Channels : stage[c] = "queued"}
<1>1. \A c \in Channels : stage'[c] = IF c \notin queued THEN stage[c]
                                      ELSE IF ok /\ found THEN "credentials" ELSE "done"
  BY DEF GoaClientNew
<1>2. /\ DOMAIN stage' = Channels /\ stage' = [c \in Channels |-> stage'[c]]
      /\ sasl' = sasl \/ (channel \in queued /\ sasl' = "closing")
      /\ UNCHANGED <<accountVars, keyring, retry, channel, tried, handlerVars, table, dialogs, bad,
                     historyVars>>
  <2>1. stage' = [c \in Channels |-> IF c \notin queued THEN stage[c]
                                     ELSE IF ok /\ found THEN "credentials" ELSE "done"]
    BY DEF GoaClientNew
  <2>2. sasl' = sasl \/ (channel \in queued /\ sasl' = "closing")
    BY DEF GoaClientNew
  <2> HIDE DEF queued
  <2>3. DOMAIN stage' = Channels /\ stage' = [c \in Channels |-> stage'[c]]
    BY <2>1
  <2> QED BY <2>2, <2>3 DEF GoaClientNew
<1>3. stage \in [Channels -> Stages]
  BY DEF AuthInv, AuthTyped
<1>4. stage' \in [Channels -> Stages]
  BY <1>1, <1>2, <1>3 DEF Stages, SignOn
<1>5. CASE queued = {}
  <2>1. stage' = stage /\ sasl' = sasl
    BY <1>1, <1>2, <1>3, <1>4, <1>5
  <2>2. AuthTyped' /\ PathsDiffer' /\ (\A c \in Channels : StageKnown(c)')
    BY <1>2, <2>1 DEF AuthInv, AuthTyped, PathsDiffer, Path, StageKnown, accountVars, handlerVars,
       historyVars
  <2>3. ChannelKnown' /\ PasswordKnown' /\ NotSaved'
    BY <1>2, <2>1 DEF AuthInv, ChannelKnown, PasswordKnown, NotSaved, accountVars, handlerVars, historyVars
  <2> QED BY <2>2, <2>3 DEF AuthInv
<1>6. CASE queued # {}
  <2>1. kind \in Single
    BY <1>6 DEF AuthInv, StageKnown, SignOn
  <2>2. \A d \in Channels : \/ stage'[d] = stage[d]
                            \/ /\ stage[d] \in SignOn \union {"claiming"}
                               /\ stage'[d] \in SignOn \union {"done"}
    BY <1>1 DEF SignOn
  <2>3. channel \in queued => channel # None /\ stage[channel] \in SignOn \union {"claiming"}
                              /\ stage'[channel] \in SignOn \union {"done"}
    BY <1>1, NoneApart DEF SignOn
  <2>4. /\ sasl' \in {"idle", "progress", "accepted", "failed", "closing"}
        /\ tried' \in Passwords \union {None}
    BY <1>2 DEF AuthInv, AuthTyped
  <2> QED BY <1>2, <1>4, <2>1, <2>2, <2>3, <2>4, SignOnMoves
<1> QED BY <1>5, <1>6

LEMMA QueuesMove ==
  ASSUME AuthInv, NEW c \in Channels,
         GetPassword(c) \/ ClaimFails(c) \/ PasswordClaimed(c) \/ HandleChannels(c)
  PROVE  AuthInv'
<1>1. PICK s \in {"claiming", "approver", "refused", "creating", "done"} :
        stage' = [stage EXCEPT ![c] = s] /\ (s = "creating" => channel = c)
  <2>1. CASE GetPassword(c)
    BY <2>1 DEF GetPassword, Stage
  <2>2. CASE ClaimFails(c) \/ PasswordClaimed(c)
    BY <2>2 DEF ClaimFails, PasswordClaimed, Stage
  <2>3. CASE HandleChannels(c)
    BY <2>3 DEF HandleChannels, Stage
  <2> QED BY <2>1, <2>2, <2>3
<1>2. /\ stage[c] \in Early
      /\ UNCHANGED <<accountVars, keyring, retry, channelVars, handlerVars, table, dialogs, bad,
                     historyVars>>
  BY DEF GetPassword, ClaimFails, PasswordClaimed, HandleChannels, Early
<1> QED BY <1>1, <1>2, StageMoves

LEMMA ChannelsCome ==
  ASSUME AuthInv, NEW c \in Channels, ObserveChannels(c)
  PROVE  AuthInv'
<1> USE DEF accountVars, channelVars, handlerVars, historyVars
<1>1. PICK s \in {"claiming", "approver", "observing"} : stage' = [stage EXCEPT ![c] = s]
  BY DEF ObserveChannels, Stage
<1>2. /\ channel = None /\ stage[c] = "new" /\ channel' = c /\ sasl' = "idle" /\ tried' = None
      /\ UNCHANGED <<accountVars, keyring, retry, handlerVars, table, dialogs, bad, historyVars>>
  BY DEF ObserveChannels
<1>3. AuthTyped' /\ PathsDiffer'
  BY <1>1, <1>2 DEF AuthInv, AuthTyped, PathsDiffer, Path, Stages, Early
<1>4. ASSUME NEW d \in Channels PROVE StageKnown(d)'
  BY <1>1, <1>2, NoneApart DEF AuthInv, AuthTyped, StageKnown, SignOn
<1>5. ChannelKnown' /\ PasswordKnown' /\ NotSaved'
  BY <1>1, <1>2, NoneApart DEF AuthInv, AuthTyped, StageKnown, ChannelKnown, PasswordKnown, NotSaved
<1> QED BY <1>3, <1>4, <1>5 DEF AuthInv

(* The handler is made: with the password to retry the mechanism starts in  *)
(* the same turn.                                                            *)
LEMMA HandlersReady ==
  ASSUME AuthInv, NEW c \in Channels, HandlerReady(c)
  PROVE  AuthInv'
<1> USE DEF accountVars, channelVars, handlerVars, historyVars
<1>1. /\ stage[c] = "creating" /\ stage' = [stage EXCEPT ![c] = "handled"]
      /\ idle' = IF keyring # None THEN idle \union {c} ELSE idle
      /\ table' = (table \ Entry(c)) \union {c}
      /\ first' = [first EXCEPT ![c] = retry]
      /\ dialogs' = IF has'[c] = None THEN dialogs \union {c} ELSE dialogs
      /\ UNCHANGED <<accountVars, channel, bad, doomed, second>>
  BY DEF HandlerReady, Stage, Prompt
<1>2. /\ c \notin save \union idle \union table \union dialogs /\ first[c] = None
      /\ c = channel \/ c \in doomed
      /\ c = channel => sasl = "idle"
  BY <1>1, NoneApart DEF AuthInv, StageKnown, ChannelKnown, Early
<1>3. CASE retry = None
  <2>1. has' = [has EXCEPT ![c] = keyring] /\ UNCHANGED <<sasl, tried, save, keyring, retry>>
    BY <1>3 DEF HandlerReady
  <2>2. AuthTyped'
    BY <1>1, <2>1 DEF AuthInv, AuthTyped, Stages
  <2>3. PathsDiffer'
    BY <1>1 DEF AuthInv, PathsDiffer, Path, Entry
  <2>4. ASSUME NEW d \in Channels PROVE StageKnown(d)'
    BY <1>1, <1>2, <1>3, <2>1 DEF AuthInv, AuthTyped, StageKnown, SignOn
  <2>5. ChannelKnown'
    BY <1>1, <1>2, <1>3, <2>1 DEF AuthInv, AuthTyped, ChannelKnown, Early
  <2>6. PasswordKnown' /\ NotSaved'
    BY <1>1, <1>2, <1>3, <2>1 DEF AuthInv, AuthTyped, PasswordKnown, NotSaved
  <2> QED BY <2>2, <2>3, <2>4, <2>5, <2>6 DEF AuthInv
<1>4. CASE retry # None
  <2> DEFINE remember == keyring # None /\ maySave
  <2>1. /\ retry' = None /\ has' = [has EXCEPT ![c] = IF remember THEN retry ELSE keyring]
        /\ save' = IF remember THEN save \union {c} ELSE save
        /\ keyring' = IF maySave THEN keyring ELSE None
        /\ IF channel = c THEN sasl' = "progress" /\ tried' = retry ELSE UNCHANGED <<sasl, tried>>
    BY <1>2, <1>4 DEF HandlerReady, UseRetryPassword, StartMechanism
  <2>2. AuthTyped'
    BY <1>1, <2>1 DEF AuthInv, AuthTyped, Stages
  <2>3. PathsDiffer'
    BY <1>1 DEF AuthInv, PathsDiffer, Path, Entry
  <2>4. ASSUME NEW d \in Channels PROVE StageKnown(d)'
    BY <1>1, <1>2, <1>4, <2>1 DEF AuthInv, AuthTyped, StageKnown, SignOn
  <2>5. ChannelKnown'
    BY <1>1, <1>2, <1>4, <2>1, NoneApart DEF AuthInv, AuthTyped, ChannelKnown, Early
  <2>6. PasswordKnown' /\ NotSaved'
    BY <1>1, <1>2, <1>4, <2>1 DEF AuthInv, AuthTyped, PasswordKnown, NotSaved
  <2> QED BY <2>2, <2>3, <2>4, <2>5, <2>6 DEF AuthInv
<1> QED BY <1>3, <1>4

(* A password is given to the handler of a channel, which may not be the one *)
(* that there is.                                                            *)
LEMMA PasswordsProvided ==
  ASSUME AuthInv, NEW c \in Channels, stage[c] = "handled",
         NEW p \in Passwords \union {None}, NEW remember \in BOOLEAN,
         ProvidePassword(c, p, remember), idle' \subseteq idle, dialogs' \subseteq dialogs,
         second \subseteq second', c = channel /\ sasl # "idle" => remember = FALSE \/ c \in second',
         c \in dialogs \/ p = has[c],
         UNCHANGED <<accountVars, retry, channel, stage, table, bad, first, doomed>>
  PROVE  AuthInv'
<1> USE DEF accountVars, channelVars, handlerVars, historyVars
<1>1. /\ has' = IF remember /\ maySave THEN [has EXCEPT ![c] = p] ELSE has
      /\ save' = IF remember /\ maySave THEN save \union {c} ELSE save
      /\ keyring' = IF maySave THEN keyring ELSE None
      /\ IF channel = c /\ sasl = "idle" THEN sasl' = "progress" /\ tried' = p
         ELSE UNCHANGED <<sasl, tried>>
  BY DEF ProvidePassword, StartMechanism
<1>2. AuthTyped' /\ PathsDiffer'
  BY <1>1 DEF AuthInv, AuthTyped, PathsDiffer, Path
<1>3. ASSUME NEW d \in Channels PROVE StageKnown(d)'
  BY <1>1 DEF AuthInv, AuthTyped, StageKnown
<1>4. ChannelKnown'
  BY <1>1, NoneApart DEF AuthInv, ChannelKnown, Early
<1>5. PasswordKnown' /\ NotSaved'
  BY <1>1 DEF AuthInv, AuthTyped, PasswordKnown, NotSaved
<1> QED BY <1>2, <1>3, <1>4, <1>5 DEF AuthInv

LEMMA PasswordsGiven ==
  ASSUME AuthInv, NEW c \in Channels, GivePassword(c)
  PROVE  AuthInv'
<1> USE DEF accountVars, channelVars, handlerVars, historyVars
<1>1. /\ c \in idle /\ idle' = idle \ {c} /\ stage[c] = "handled"
      /\ has[c] \in Passwords \union {None}
      /\ UNCHANGED <<accountVars, retry, channel, stage, table, dialogs, bad, first, doomed, second>>
  BY DEF GivePassword, AuthInv, AuthTyped, StageKnown
<1>2. CASE Freed(c)
  <2>1. UNCHANGED <<sasl, tried, has, save, keyring>>
    BY <1>2 DEF GivePassword
  <2>2. AuthTyped' /\ PathsDiffer' /\ \A d \in Channels : StageKnown(d)'
    BY <1>1, <2>1 DEF AuthInv, AuthTyped, PathsDiffer, Path, StageKnown
  <2>3. ChannelKnown' /\ PasswordKnown' /\ NotSaved'
    BY <1>1, <2>1 DEF AuthInv, ChannelKnown, PasswordKnown, NotSaved
  <2> QED BY <2>2, <2>3 DEF AuthInv
<1>3. CASE ~Freed(c)
  <2>1. ProvidePassword(c, has[c], FALSE)
    BY <1>3 DEF GivePassword
  <2> QED BY <1>1, <2>1, PasswordsProvided
<1> QED BY <1>2, <1>3

LEMMA DialogsAnswered ==
  ASSUME AuthInv, NEW c \in Channels, NEW p \in Passwords, NEW remember \in BOOLEAN,
         DialogOk(c, p, remember)
  PROVE  AuthInv'
<1>1. /\ c \in dialogs /\ stage[c] = "handled" /\ ProvidePassword(c, p, remember)
      /\ dialogs' = dialogs \ {c} /\ idle' = idle
      /\ second' = IF channel = c /\ sasl # "idle" THEN second \union {c} ELSE second
      /\ UNCHANGED <<accountVars, retry, channel, stage, table, bad, first, doomed>>
  BY DEF DialogOk, AuthInv, StageKnown
<1> QED BY <1>1, PasswordsProvided

LEMMA DialogsCancelled ==
  ASSUME AuthInv, NEW c \in Channels, DialogCancel(c)
  PROVE  AuthInv'
<1> USE DEF accountVars, channelVars, handlerVars, historyVars
<1>1. /\ c \in dialogs /\ dialogs' = dialogs \ {c} /\ stage[c] = "handled"
      /\ sasl' = IF channel = c THEN "failed" ELSE sasl
      /\ UNCHANGED <<accountVars, keyring, retry, channel, tried, stage, handlerVars, table, bad,
                     historyVars>>
  BY DEF DialogCancel, AuthInv, StageKnown
<1>2. AuthTyped' /\ PathsDiffer' /\ \A d \in Channels : StageKnown(d)'
  BY <1>1 DEF AuthInv, AuthTyped, PathsDiffer, Path, StageKnown
<1>3. ChannelKnown' /\ PasswordKnown' /\ NotSaved'
  BY <1>1, NoneApart DEF AuthInv, ChannelKnown, PasswordKnown, NotSaved, Early
<1> QED BY <1>2, <1>3 DEF AuthInv

(* The server answers, and the channel is closed. *)
LEMMA ServersAnswer ==
  ASSUME AuthInv, ServerSucceeded \/ Succeeded \/ \E refused \in BOOLEAN : ServerFailed(refused)
  PROVE  AuthInv'
<1> USE DEF accountVars, channelVars, handlerVars, historyVars
<1>1. CASE ServerSucceeded
  <2>1. /\ sasl = "progress" /\ (kind = "password" => tried = right) /\ sasl' = "accepted"
        /\ keyring' = IF channel \in save /\ ~Freed(channel) THEN has[channel] ELSE keyring
        /\ UNCHANGED <<accountVars, retry, channel, tried, stage, handlerVars, table, dialogs, bad,
                       historyVars>>
    BY <1>1 DEF ServerSucceeded
  <2>2. keyring' \in Passwords \union {None} /\ channel # None
    BY <2>1 DEF AuthInv, AuthTyped, ChannelKnown
  <2>3. AuthTyped' /\ PathsDiffer' /\ \A d \in Channels : StageKnown(d)'
    BY <2>1, <2>2 DEF AuthInv, AuthTyped, PathsDiffer, Path, StageKnown
  <2>4. ChannelKnown'
    BY <2>1 DEF AuthInv, ChannelKnown
  <2>5. PasswordKnown' /\ NotSaved'
    BY <2>1 DEF AuthInv, PasswordKnown, NotSaved, Freed
  <2> QED BY <2>3, <2>4, <2>5 DEF AuthInv
<1>2. CASE Succeeded \/ \E refused \in BOOLEAN : ServerFailed(refused)
  <2>1. /\ sasl \in {"progress", "accepted"} /\ sasl' \in {"failed", "closing"}
        /\ UNCHANGED <<accountVars, keyring, retry, channel, tried, stage, handlerVars, table, dialogs,
                       historyVars>>
    BY <1>2 DEF Succeeded, ServerFailed
  <2>2. channel # None
    BY <2>1 DEF AuthInv, ChannelKnown
  <2>3. bad' \subseteq Channels
    BY <1>2, <2>2 DEF Succeeded, ServerFailed, AuthInv, AuthTyped
  <2>4. AuthTyped' /\ PathsDiffer' /\ \A d \in Channels : StageKnown(d)'
    BY <2>1, <2>3 DEF AuthInv, AuthTyped, PathsDiffer, Path, StageKnown
  <2>5. ChannelKnown' /\ PasswordKnown' /\ NotSaved'
    BY <2>1, <2>2 DEF AuthInv, ChannelKnown, PasswordKnown, NotSaved
  <2> QED BY <2>4, <2>5 DEF AuthInv
<1> QED BY <1>1, <1>2

LEMMA ChannelsGo ==
  ASSUME AuthInv, Invalidated
  PROVE  AuthInv'
<1> USE DEF accountVars, channelVars, handlerVars, historyVars
<1>1. /\ channel # None /\ channel' = None /\ sasl' = "idle" /\ tried' = None
      /\ stage' = [stage EXCEPT ![channel] = IF @ = "approver" THEN "done" ELSE @]
      /\ doomed' = IF stage[channel] = "creating" THEN doomed \union {channel} ELSE doomed
      /\ UNCHANGED <<accountVars, keyring, retry, handlerVars, bad, first, second>>
  BY DEF Invalidated
<1>2. /\ table' \subseteq table /\ dialogs' \subseteq dialogs
      /\ channel \notin table' \union dialogs'
  BY DEF Invalidated, Freed, Entry, DialogsAfter
<1>3. AuthTyped' /\ PathsDiffer'
  BY <1>1, <1>2 DEF AuthInv, AuthTyped, PathsDiffer, Path, Stages
<1>4. ASSUME NEW d \in Channels PROVE StageKnown(d)'
  BY <1>1, <1>2, NoneApart DEF AuthInv, AuthTyped, StageKnown, SignOn
<1>5. ChannelKnown' /\ PasswordKnown' /\ NotSaved'
  BY <1>1 DEF AuthInv, ChannelKnown, PasswordKnown, NotSaved
<1> QED BY <1>3, <1>4, <1>5 DEF AuthInv

LEMMA BadAnswered ==
  ASSUME AuthInv, NEW c \in Channels, GiveUp(c) \/ \E p \in Passwords : Retry(c, p)
  PROVE  AuthInv'
<1> USE DEF accountVars, channelVars, handlerVars, historyVars
<1>1. /\ bad' = bad \ {c} /\ retry' \in Passwords \union {None}
      /\ UNCHANGED <<accountVars, keyring, channelVars, stage, handlerVars, table, dialogs, historyVars>>
  BY DEF GiveUp, Retry, AuthInv, AuthTyped
<1>2. AuthTyped' /\ PathsDiffer' /\ \A d \in Channels : StageKnown(d)'
  BY <1>1 DEF AuthInv, AuthTyped, PathsDiffer, Path, StageKnown
<1>3. ChannelKnown' /\ PasswordKnown' /\ NotSaved'
  BY <1>1 DEF AuthInv, ChannelKnown, PasswordKnown, NotSaved
<1> QED BY <1>2, <1>3 DEF AuthInv

LEMMA PasswordForgotten ==
  ASSUME AuthInv, Forgotten
  PROVE  AuthInv'
<1> USE DEF accountVars, channelVars, handlerVars, historyVars
<1>1. /\ keyring' = None
      /\ UNCHANGED <<accountVars, retry, channelVars, stage, handlerVars, table, dialogs, bad,
                     historyVars>>
  BY DEF Forgotten
<1>2. AuthTyped' /\ PathsDiffer' /\ \A d \in Channels : StageKnown(d)'
  BY <1>1 DEF AuthInv, AuthTyped, PathsDiffer, Path, StageKnown
<1>3. ChannelKnown' /\ PasswordKnown' /\ NotSaved'
  BY <1>1 DEF AuthInv, ChannelKnown, PasswordKnown, NotSaved
<1> QED BY <1>2, <1>3 DEF AuthInv

LEMMA AuthEnds ==
  ASSUME AuthInv, AuthQuit
  PROVE  AuthInv'
<1> USE DEF accountVars, channelVars, handlerVars, historyVars
<1>1. /\ retry' = None /\ has' = [c \in Channels |-> None] /\ save' = {} /\ idle' = {}
      /\ table' = {} /\ dialogs' = {} /\ bad' = {}
      /\ doomed' = {} /\ first' = [c \in Channels |-> None] /\ second' = {}
      /\ UNCHANGED <<accountVars, keyring>>
  BY DEF AuthQuit
<1>2. stage' = [c \in Channels |-> IF stage[c] \in {"new", "approver", "refused"} THEN stage[c]
                                  ELSE IF stage[c] = "observing" /\ channel = c THEN "approver"
                                  ELSE "done"]
  BY DEF AuthQuit
<1>3. \/ channel' = None /\ sasl' = "idle" /\ tried' = None
      \/ UNCHANGED channelVars /\ (channel = None \/ stage'[channel] # "done")
  BY DEF AuthQuit
<1>4. \A c \in Channels : /\ stage'[c] \in {"new", "approver", "refused", "done"}
                          /\ stage'[c] # "done" => stage[c] \in Early
  BY <1>2 DEF Early
<1>5. stage' \in [Channels -> Stages]
  BY <1>2 DEF Stages, Early
<1>6. AuthTyped' /\ PathsDiffer'
  BY <1>1, <1>3, <1>5 DEF AuthInv, AuthTyped, PathsDiffer
<1>7. ASSUME NEW d \in Channels PROVE StageKnown(d)'
  BY <1>1, <1>4 DEF StageKnown, SignOn
<1>8. channel' # None => sasl' = "idle" /\ channel' \in Channels
  BY <1>3, <1>4 DEF AuthInv, AuthTyped, ChannelKnown
<1>9. channel' = None => sasl' = "idle"
  BY <1>3 DEF AuthInv, ChannelKnown
<1>10. ChannelKnown' /\ PasswordKnown' /\ NotSaved'
  BY <1>1, <1>4, <1>8, <1>9 DEF ChannelKnown, PasswordKnown, NotSaved
<1> QED BY <1>6, <1>7, <1>10 DEF AuthInv

LEMMA AuthStep ==
  ASSUME AuthInv, AuthNext
  PROVE  AuthInv'
<1>1. ASSUME NEW c \in Channels,
             \/ ObserveChannels(c) \/ GetPassword(c) \/ HandleChannels(c) \/ HandlerReady(c)
             \/ GivePassword(c) \/ DialogCancel(c) \/ GiveUp(c)
             \/ ClaimFails(c) \/ PasswordClaimed(c) \/ \E p \in Passwords : Retry(c, p)
      PROVE  AuthInv'
  BY <1>1, ChannelsCome, QueuesMove, HandlersReady, PasswordsGiven, DialogsCancelled, BadAnswered
<1>2. ASSUME NEW c \in Channels, NEW p \in Passwords, NEW remember \in BOOLEAN,
             DialogOk(c, p, remember)
      PROVE  AuthInv'
  BY <1>2, DialogsAnswered
<1>3. ASSUME NEW c \in Channels, NEW ok \in BOOLEAN,
             SingleClaimed(c, ok) \/ EnsureCredentials(c, ok) \/ GotAccessToken(c, ok)
               \/ IdentityQueryInfo(c, ok) \/ SessionProcess(c, ok)
      PROVE  AuthInv'
  BY <1>3, SingleClaims, SingleAnswers
<1>4. CASE \/ ServerSucceeded \/ Succeeded \/ Invalidated \/ Forgotten
           \/ \E refused \in BOOLEAN : ServerFailed(refused)
  BY <1>4, ServersAnswer, ChannelsGo, PasswordForgotten
<1>5. CASE \E ok, found \in BOOLEAN : GoaClientNew(ok, found)
  BY <1>5, ClientAnswers
<1> QED BY <1>1, <1>2, <1>3, <1>4, <1>5 DEF AuthNext

-----------------------------------------------------------------------------
(* Both together, in one process. *)
ClientInv == AuthInv /\ CertsInv

LEMMA ClientInitially == Init => ClientInv
  BY AuthInitially, CertsInitially DEF Init, ClientInv

LEMMA ClientStep == ClientInv /\ [Next]_clientVars => ClientInv'
<1> SUFFICES ASSUME ClientInv, [Next]_clientVars PROVE ClientInv'
  OBVIOUS
<1>1. ASSUME UNCHANGED authVars PROVE AuthInv'
  <2> USE DEF authVars, accountVars, channelVars, handlerVars, historyVars
  <2>1. AuthTyped' /\ PathsDiffer' /\ \A d \in Channels : StageKnown(d)'
    BY <1>1 DEF ClientInv, AuthInv, AuthTyped, PathsDiffer, Path, StageKnown
  <2>2. ChannelKnown' /\ PasswordKnown' /\ NotSaved'
    BY <1>1 DEF ClientInv, AuthInv, ChannelKnown, PasswordKnown, NotSaved
  <2> QED BY <2>1, <2>2 DEF AuthInv
<1>2. ASSUME UNCHANGED <<certVars, timerVars>> PROVE CertsInv'
  BY <1>2 DEF ClientInv, CertsInv, CertsTypeOK, QuestionsCounted, Dialogs, certVars, timerVars
<1>3. CASE UNCHANGED clientVars
  BY <1>1, <1>2, <1>3 DEF clientVars, ClientInv
<1>4. CASE AuthNext /\ UNCHANGED <<certVars, timerVars>>
  BY <1>2, <1>4, AuthStep DEF ClientInv
<1>5. CASE CertsNext /\ UNCHANGED authVars
  BY <1>1, <1>5, CertsStep DEF ClientInv
<1>6. CASE Timeout
  BY <1>6, AuthEnds, CertsQuitStep DEF Timeout, ClientInv
<1>7. CASE Crash
  <2>1. AuthInv'
    BY <1>7, AuthEnds DEF Crash, ClientInv
  <2>2. CertsInv'
    BY <1>7, CertsEnd DEF Crash, ClientInv
  <2> QED BY <2>1, <2>2 DEF ClientInv
<1> QED BY <1>3, <1>4, <1>5, <1>6, <1>7 DEF Next

(* In whichever turn a channel goes, its handler and its dialog go with it,  *)
(* or it went while they were made; and the timer of the process runs        *)
(* exactly when no question about a certificate is open, as long as none was *)
(* destroyed with its channel.                                               *)
THEOREM NothingIsLeft == Spec => []NothingIsLeftOver
<1>1. ClientInv => NothingIsLeftOver
  <2> SUFFICES ASSUME ClientInv PROVE NothingIsLeftOver
    OBVIOUS
  <2>1. AuthTypeOK
    BY DEF ClientInv, AuthInv, AuthTyped, PathsDiffer, AuthTypeOK
  <2>2. (table \union dialogs) \ doomed \subseteq {channel}
    BY DEF ClientInv, AuthInv, AuthTyped, StageKnown
  <2> QED BY <2>1, <2>2, TimerTold DEF ClientInv, NothingIsLeftOver, HandlersFollowChannel
<1> QED BY <1>1, ClientInitially, ClientStep, PTL DEF Spec

(* Once the server took a password, the keyring has that one or none, and    *)
(* none if it may not be saved: as long as no dialog gave a second password   *)
(* to a mechanism that was started, and no channel went while its handler     *)
(* was made (in both cases the code may save another one).  And an attempt    *)
(* for which there was a password to retry is made with that one.            *)
THEOREM OnlyRightIsSaved == Spec => []SavedIsRight
<1>1. ClientInv => SavedIsRight
  <2> SUFFICES ASSUME ClientInv PROVE SavedIsRight
    OBVIOUS
  <2>1. sasl = "accepted" => channel # None
    BY DEF ClientInv, AuthInv, ChannelKnown
  <2> QED BY <2>1 DEF ClientInv, AuthInv, ChannelKnown, PasswordKnown, NotSaved, SavedIsRight
<1> QED BY <1>1, ClientInitially, ClientStep, PTL DEF Spec
-----------------------------------------------------------------------------
(* The accounts dialog.  Whatever is on show or waited for belongs to the    *)
(* account that is selected, and what is selected, or is to be once the user *)
(* has answered, has a row.                                                  *)
OrNone == Accounts \union {NoAccount}

Waits == [of : OrNone, ready : BOOLEAN, object : {"none", "row", "kept", "freed"}]

RowStates == {"none", "new", "ready"}

AccountDialogs ==
  [rows : [Accounts -> RowStates], kept : SUBSET Accounts, selected : OrNone,
   shown : OrNone, waiting : Waits, infobar : OrNone, loading : BOOLEAN, started : BOOLEAN,
   initial : OrNone, canAdd : BOOLEAN, canRemove : BOOLEAN, asked : Nat, destination : OrNone,
   force : BOOLEAN, stray : BOOLEAN, dead : BOOLEAN]

HasRows(d) ==
  /\ d.selected # NoAccount => d.rows[d.selected] # "none"
  /\ d.destination # NoAccount => d.rows[d.destination] # "none"
  /\ ~d.started => \A a \in Accounts : d.rows[a] = "none"

Details(d) ==
  d.selected # NoAccount =>
    /\ d.waiting.of \in {NoAccount, d.selected}
    /\ \/ d.waiting.of = d.selected /\ ~d.waiting.ready
       \/ d.shown = d.selected /\ d.infobar = d.selected

(* An account is removed when others are loaded, so that its question is     *)
(* the only one, and nothing else is selected under it.                      *)
Removes(d) == d.canRemove => ~d.loading

Right(d) == d \in AccountDialogs /\ HasRows(d) /\ Details(d) /\ Removes(d)

(* What never changes while another account is selected.                     *)
SameRows(r, d) ==
  r.rows = d.rows /\ r.loading = d.loading /\ r.started = d.started /\ r.dead = d.dead

LEMMA WaitingTyped ==
  /\ NotWaiting \in Waits /\ NotWaiting.of = NoAccount
  /\ \A a \in Accounts : [of |-> a, ready |-> FALSE, object |-> "row"] \in Waits
  BY DEF NotWaiting, Waits, OrNone

LEMMA Disconnected ==
  ASSUME NEW d \in AccountDialogs
  PROVE  /\ Disconnect(d) \in AccountDialogs /\ SameRows(Disconnect(d), d)
         /\ Disconnect(d).waiting = NotWaiting /\ Disconnect(d).selected = d.selected
         /\ Disconnect(d).destination = d.destination /\ Disconnect(d).shown = d.shown
         /\ Disconnect(d).infobar = d.infobar /\ Disconnect(d).canRemove = d.canRemove
         /\ Disconnect(d).asked = d.asked
<1> DEFINE s == d.stray \/ d.waiting.object = "freed"
           r == [d EXCEPT !.stray = s, !.waiting = NotWaiting]
<1>1. s \in BOOLEAN
  OBVIOUS
<1>2. Disconnect(d) = r
  BY DEF Disconnect, AccountDialogs
<1> HIDE DEF s
<1>3. r \in AccountDialogs
  BY <1>1, WaitingTyped DEF AccountDialogs
<1>4. SameRows(r, d) /\ r.waiting = NotWaiting /\ r.selected = d.selected
         /\ r.destination = d.destination /\ r.shown = d.shown
         /\ r.infobar = d.infobar /\ r.canRemove = d.canRemove /\ r.asked = d.asked
  BY DEF AccountDialogs, SameRows
<1> QED BY <1>2, <1>3, <1>4

LEMMA ContentCreated ==
  ASSUME NEW d \in AccountDialogs, NEW a \in Accounts
  PROVE  /\ CreateContent(d, a) \in AccountDialogs /\ SameRows(CreateContent(d, a), d)
         /\ CreateContent(d, a).waiting = d.waiting /\ CreateContent(d, a).selected = d.selected
         /\ CreateContent(d, a).destination = d.destination /\ CreateContent(d, a).shown = a
         /\ CreateContent(d, a).canRemove = d.canRemove /\ CreateContent(d, a).asked = d.asked
         /\ d.selected = a => CreateContent(d, a).infobar = a
<1> DEFINE b == IF d.selected = a THEN a ELSE d.infobar
           r == [d EXCEPT !.shown = a, !.infobar = b]
<1>1. b \in OrNone /\ a \in OrNone /\ (d.selected = a => b = a)
  BY DEF OrNone, AccountDialogs
<1>2. CreateContent(d, a) = r
  BY DEF CreateContent, AccountDialogs
<1> HIDE DEF b
<1>3. r \in AccountDialogs
  BY <1>1 DEF AccountDialogs
<1>4. SameRows(r, d) /\ r.waiting = d.waiting /\ r.selected = d.selected
         /\ r.destination = d.destination /\ r.shown = a
         /\ r.infobar = b /\ r.canRemove = d.canRemove /\ r.asked = d.asked
  BY DEF AccountDialogs, SameRows
<1> QED BY <1>1, <1>2, <1>3, <1>4

(* The account that is selected is shown, or waited for.                     *)
LEMMA SettingsUpdated ==
  ASSUME NEW d \in AccountDialogs, d.selected \in Accounts
  PROVE  /\ UpdateSettings(d, d.selected) \in AccountDialogs
         /\ SameRows(UpdateSettings(d, d.selected), d) /\ Details(UpdateSettings(d, d.selected))
         /\ UpdateSettings(d, d.selected).selected = d.selected
         /\ UpdateSettings(d, d.selected).destination = d.destination
         /\ UpdateSettings(d, d.selected).canRemove = d.canRemove
         /\ UpdateSettings(d, d.selected).asked = d.asked
<1> DEFINE a == d.selected
           c == Disconnect(d)
           old == [c EXCEPT !.shown = NoAccount]
           w == [of |-> a, ready |-> FALSE, object |-> "row"]
           r == [old EXCEPT !.waiting = w]
<1>1. c \in AccountDialogs /\ SameRows(c, d) /\ c.waiting = NotWaiting /\ c.selected = a
      /\ c.destination = d.destination /\ c.canRemove = d.canRemove /\ c.asked = d.asked
  BY Disconnected
<1> HIDE DEF c
<1>2. /\ old \in AccountDialogs /\ SameRows(old, d) /\ old.waiting = NotWaiting /\ old.selected = a
      /\ old.destination = d.destination /\ old.canRemove = d.canRemove /\ old.asked = d.asked
  <2>1. old \in AccountDialogs
    BY <1>1 DEF AccountDialogs, OrNone
  <2> QED BY <1>1, <2>1 DEF AccountDialogs, SameRows
<1>3. UpdateSettings(d, a) = IF d.rows[a] = "ready" THEN CreateContent(old, a) ELSE r
  BY DEF UpdateSettings, c
<1> HIDE DEF old
<1>4. CASE d.rows[a] = "ready"
  <2> DEFINE x == CreateContent(old, a)
  <2>1. /\ x \in AccountDialogs /\ SameRows(x, old) /\ x.waiting = NotWaiting /\ x.selected = a
        /\ x.destination = d.destination /\ x.shown = a /\ x.infobar = a
        /\ x.canRemove = d.canRemove /\ x.asked = d.asked
    BY <1>2, ContentCreated
  <2> HIDE DEF x
  <2> QED BY <1>2, <1>3, <1>4, <2>1, WaitingTyped DEF SameRows, Details, x
<1>5. CASE d.rows[a] # "ready"
  <2>0. w \in Waits /\ w.of = a /\ w.ready = FALSE
    BY WaitingTyped
  <2> HIDE DEF w
  <2>1. r \in AccountDialogs
    BY <1>2, <2>0 DEF AccountDialogs
  <2>2. /\ SameRows(r, old) /\ r.waiting = w /\ r.selected = a
        /\ r.destination = d.destination /\ r.canRemove = d.canRemove /\ r.asked = d.asked
    BY <1>2 DEF AccountDialogs, SameRows
  <2> HIDE DEF r
  <2>3. Details(r)
    BY <2>0, <2>2 DEF Details
  <2> QED BY <1>2, <1>3, <1>5, <2>1, <2>2, <2>3 DEF SameRows
<1> QED BY <1>4, <1>5

(* A row is selected, kept for later behind a question, or is so already.    *)
LEMMA RowSelected ==
  ASSUME NEW d, Right(d), NEW a \in Accounts, d.rows[a] # "none"
  PROVE  Right(SelectRow(d, a)) /\ SameRows(SelectRow(d, a), d)
<1>0. d \in AccountDialogs /\ a \in OrNone /\ a # NoAccount
  BY AccountsAssumption DEF Right, OrNone
<1>1. CASE d.selected = a
  BY <1>1 DEF SelectRow, SameRows
<1>2. CASE d.selected # a /\ ~d.force /\ params.pending
  <2> DEFINE n == d.asked + 1
             r == [d EXCEPT !.asked = n, !.destination = a]
  <2>1. n \in Nat
    BY <1>0 DEF AccountDialogs
  <2>2. SelectRow(d, a) = r
    BY <1>0, <1>2 DEF SelectRow, AccountDialogs
  <2> HIDE DEF n
  <2>3. r \in AccountDialogs
    BY <1>0, <2>1 DEF AccountDialogs
  <2>4. /\ SameRows(r, d) /\ r.selected = d.selected /\ r.destination = a /\ r.waiting = d.waiting
        /\ r.shown = d.shown /\ r.infobar = d.infobar /\ r.canRemove = d.canRemove
    BY <1>0 DEF AccountDialogs, SameRows
  <2> HIDE DEF r
  <2> QED BY <2>2, <2>3, <2>4 DEF Right, HasRows, Details, Removes, SameRows
<1>3. CASE d.selected # a /\ ~(~d.force /\ params.pending)
  <2> DEFINE e == [d EXCEPT !.force = FALSE]
             f == [e EXCEPT !.selected = a]
             u == UpdateSettings(f, a)
             n == ~e.loading
             r == [u EXCEPT !.canRemove = n]
  <2>1. SelectRow(d, a) = r
    BY <1>3 DEF SelectRow, SelectionChanged
  <2>2. e \in AccountDialogs /\ SameRows(e, d) /\ e.destination = d.destination
    BY <1>0 DEF AccountDialogs, SameRows
  <2>3. n \in BOOLEAN /\ (n <=> ~d.loading)
    BY <2>2 DEF SameRows
  <2> HIDE DEF e
  <2>4. f \in AccountDialogs /\ SameRows(f, d) /\ f.destination = d.destination /\ f.selected = a
    BY <1>0, <2>2 DEF AccountDialogs, SameRows
  <2> HIDE DEF f, n
  <2>5. u \in AccountDialogs /\ SameRows(u, d) /\ Details(u) /\ u.selected = a /\ u.destination = d.destination
    BY <2>4, SettingsUpdated DEF SameRows
  <2> HIDE DEF u
  <2>6. r \in AccountDialogs
    BY <2>3, <2>5 DEF AccountDialogs
  <2>7. /\ SameRows(r, u) /\ r.selected = u.selected /\ r.destination = u.destination
        /\ r.waiting = u.waiting /\ r.shown = u.shown /\ r.infobar = u.infobar
    BY <2>5 DEF AccountDialogs, SameRows
  <2>8. r.canRemove <=> n
    BY <2>5 DEF AccountDialogs
  <2> HIDE DEF r
  <2>9. SameRows(r, d) /\ HasRows(r) /\ Details(r) /\ Removes(r)
    BY <2>3, <2>5, <2>7, <2>8 DEF SameRows, Right, HasRows, Details, Removes
  <2> QED BY <2>1, <2>6, <2>9 DEF Right
<1> QED BY <1>1, <1>2, <1>3

(* The handler is disconnected when no account is selected, or for nothing.  *)
LEMMA DisconnectedIsRight ==
  ASSUME NEW d, Right(d), d.selected = NoAccount \/ d.waiting.of = NoAccount
  PROVE  Right(Disconnect(d)) /\ SameRows(Disconnect(d), d)
<1>1. d \in AccountDialogs
  BY DEF Right
<1>2. /\ Disconnect(d) \in AccountDialogs /\ SameRows(Disconnect(d), d)
      /\ Disconnect(d).waiting = NotWaiting /\ Disconnect(d).selected = d.selected
      /\ Disconnect(d).destination = d.destination /\ Disconnect(d).shown = d.shown
      /\ Disconnect(d).infobar = d.infobar /\ Disconnect(d).canRemove = d.canRemove
  BY <1>1, Disconnected
<1> HIDE DEF Disconnect
<1>3. HasRows(Disconnect(d)) /\ Removes(Disconnect(d))
  BY <1>2 DEF Right, HasRows, Removes, SameRows
<1>4. Details(Disconnect(d))
  <2>1. CASE d.selected = NoAccount
    BY <1>2, <2>1 DEF Details
  <2>2. CASE d.selected # NoAccount
    <3>1. d.waiting.of = NoAccount /\ d.shown = d.selected /\ d.infobar = d.selected
      BY <2>2 DEF Right, Details
    <3> QED BY <1>2, <3>1, WaitingTyped DEF Details
  <2> QED BY <2>1, <2>2
<1> QED BY <1>2, <1>3, <1>4 DEF Right

LEMMA NoneShown ==
  ASSUME NEW d, Right(d), d.selected = NoAccount \/ d.waiting.of = NoAccount,
         NEW r \in UpdateToNone(d)
  PROVE  Right(r) /\ SameRows(r, d)
<1> DEFINE c == Disconnect(d)
<1>1. Right(c) /\ SameRows(c, d)
  BY DisconnectedIsRight
<1>2. CASE Rows(d) = {}
  <2> DEFINE q == [c EXCEPT !.canAdd = FALSE]
  <2>1. r = q
    BY <1>2 DEF UpdateToNone
  <2>2. c \in AccountDialogs
    BY <1>1 DEF Right
  <2> HIDE DEF c
  <2>3. q \in AccountDialogs
    BY <2>2 DEF AccountDialogs
  <2>4. /\ SameRows(q, c) /\ q.selected = c.selected /\ q.destination = c.destination
        /\ q.waiting = c.waiting /\ q.shown = c.shown /\ q.infobar = c.infobar
        /\ q.canRemove = c.canRemove
    BY <2>2 DEF AccountDialogs, SameRows
  <2> HIDE DEF q
  <2> QED BY <1>1, <2>1, <2>3, <2>4 DEF Right, HasRows, Details, Removes, SameRows
<1>3. CASE Rows(d) # {} /\ d.selected # NoAccount
  BY <1>1, <1>3 DEF UpdateToNone
<1>4. CASE Rows(d) # {} /\ d.selected = NoAccount
  <2>1. PICK top \in Rows(d) : r = SelectRow(c, top)
    BY <1>4 DEF UpdateToNone
  <2>2. top \in Accounts /\ c.rows[top] # "none"
    BY <1>1 DEF Rows, SameRows
  <2> HIDE DEF c
  <2> QED BY <1>1, <2>1, <2>2, RowSelected DEF SameRows
<1> QED BY <1>2, <1>3, <1>4

LEMMA FirstSelected ==
  ASSUME NEW d, Right(d), NEW r \in SelectFirst(d)
  PROVE  Right(r) /\ SameRows(r, d)
<1>1. CASE Rows(d) = {}
  <2>1. d.selected = NoAccount
    BY <1>1 DEF Right, HasRows, Rows, AccountDialogs, OrNone
  <2>2. r \in UpdateToNone(d)
    BY <1>1 DEF SelectFirst
  <2> QED BY <2>1, <2>2, NoneShown
<1>2. CASE Rows(d) # {}
  <2>1. PICK top \in Rows(d) : r = SelectRow(d, top)
    BY <1>2 DEF SelectFirst
  <2> QED BY <2>1, RowSelected DEF Rows
<1> QED BY <1>1, <1>2

LEMMA SelectionIsLost ==
  ASSUME NEW d, Right(d), d.selected = NoAccount, NEW r \in SelectionLost(d)
  PROVE  Right(r) /\ SameRows(r, d)
<1>1. PICK e \in UpdateToNone(d) : r = [e EXCEPT !.canRemove = FALSE]
  BY DEF SelectionLost
<1>2. Right(e) /\ SameRows(e, d)
  BY NoneShown
<1>3. e \in AccountDialogs
  BY <1>2 DEF Right
<1>4. r \in AccountDialogs
  BY <1>1, <1>3 DEF AccountDialogs
<1>5. /\ SameRows(r, e) /\ r.selected = e.selected /\ r.destination = e.destination
      /\ r.waiting = e.waiting /\ r.shown = e.shown /\ r.infobar = e.infobar /\ ~r.canRemove
  BY <1>1, <1>3 DEF AccountDialogs, SameRows
<1> QED BY <1>2, <1>4, <1>5 DEF Right, HasRows, Details, Removes, SameRows

(* The settings of a row go or give way to others: the dialog waits for what *)
(* it waited for.                                                            *)
LEMMA SettingsDropped ==
  ASSUME NEW d, Right(d), NEW a \in Accounts, NEW row \in RowStates
  PROVE  /\ DropSettings(d, a, row) \in AccountDialogs /\ Details(DropSettings(d, a, row))
         /\ Removes(DropSettings(d, a, row))
         /\ DropSettings(d, a, row).rows = [d.rows EXCEPT ![a] = row]
         /\ DropSettings(d, a, row).selected = d.selected
         /\ DropSettings(d, a, row).destination = d.destination
         /\ DropSettings(d, a, row).waiting.of = d.waiting.of
         /\ DropSettings(d, a, row).asked = d.asked
         /\ DropSettings(d, a, row).loading <=> d.loading
         /\ DropSettings(d, a, row).started <=> d.started
         /\ DropSettings(d, a, row).dead <=> d.dead
<1>0. d \in AccountDialogs
  BY DEF Right
<1> DEFINE o == IF a \in d.kept THEN "kept" ELSE "freed"
           w == IF d.waiting.of = a /\ d.waiting.object = "row"
                THEN [d.waiting EXCEPT !.object = o] ELSE d.waiting
           rs == [d.rows EXCEPT ![a] = row]
           k == d.kept \ {a}
           r == [d EXCEPT !.rows = rs, !.kept = k, !.waiting = w]
<1>1. DropSettings(d, a, row) = r
  BY <1>0 DEF DropSettings, AccountDialogs
<1>2. w \in Waits /\ w.of = d.waiting.of /\ (w.ready <=> d.waiting.ready)
  <2>1. d.waiting \in Waits /\ o \in {"kept", "freed"}
    BY <1>0 DEF AccountDialogs
  <2> HIDE DEF o
  <2> QED BY <2>1 DEF Waits
<1>3. rs \in [Accounts -> RowStates] /\ k \in SUBSET Accounts
  BY <1>0 DEF AccountDialogs
<1> HIDE DEF w, rs, k
<1>4. r \in AccountDialogs
  BY <1>0, <1>2, <1>3 DEF AccountDialogs
<1>5. /\ r.rows = rs /\ r.selected = d.selected /\ r.destination = d.destination /\ r.waiting = w
      /\ r.shown = d.shown /\ r.infobar = d.infobar /\ r.asked = d.asked
  BY <1>0 DEF AccountDialogs
<1>6. /\ r.canRemove <=> d.canRemove
      /\ r.loading <=> d.loading
      /\ r.started <=> d.started
      /\ r.dead <=> d.dead
  BY <1>0 DEF AccountDialogs
<1> HIDE DEF r
<1>7. Details(r) /\ Removes(r)
  BY <1>2, <1>5, <1>6 DEF Right, Details, Removes
<1> QED BY <1>1, <1>2, <1>4, <1>5, <1>6, <1>7 DEF rs

LEMMA RowRemoved ==
  ASSUME NEW d, Right(d), NEW a \in Accounts
  PROVE  /\ Right(RemoveRow(d, a))
         /\ d.selected = a => RemoveRow(d, a).selected = NoAccount
         /\ d.selected # a => RemoveRow(d, a).selected = d.selected
         /\ RemoveRow(d, a).asked = d.asked
         /\ RemoveRow(d, a).loading <=> d.loading
         /\ RemoveRow(d, a).started <=> d.started
         /\ RemoveRow(d, a).dead <=> d.dead
<1> DEFINE e == DropSettings(d, a, "none")
           s == IF e.selected = a THEN NoAccount ELSE e.selected
           t == IF e.destination = a THEN NoAccount ELSE e.destination
           r == [e EXCEPT !.selected = s, !.destination = t]
<1>0. "none" \in RowStates
  BY DEF RowStates
<1>1. /\ e \in AccountDialogs /\ Details(e) /\ Removes(e)
      /\ e.rows = [d.rows EXCEPT ![a] = "none"] /\ e.selected = d.selected
      /\ e.destination = d.destination /\ e.asked = d.asked
      /\ e.loading <=> d.loading
      /\ e.started <=> d.started
      /\ e.dead <=> d.dead
  BY <1>0, SettingsDropped
<1>2. RemoveRow(d, a) = r
  BY <1>1 DEF RemoveRow, AccountDialogs
<1> HIDE DEF e
<1>3. s \in OrNone /\ t \in OrNone
  BY <1>1 DEF AccountDialogs, OrNone
<1>4. s # a /\ t # a /\ (s = NoAccount \/ s = e.selected) /\ (t = NoAccount \/ t = e.destination)
      /\ (d.selected = a => s = NoAccount) /\ (d.selected # a => s = d.selected)
  BY <1>1, AccountsAssumption
<1> HIDE DEF s, t
<1>5. r \in AccountDialogs
  BY <1>1, <1>3 DEF AccountDialogs
<1>6. /\ SameRows(r, e) /\ r.selected = s /\ r.destination = t /\ r.waiting = e.waiting
      /\ r.shown = e.shown /\ r.infobar = e.infobar /\ r.canRemove = e.canRemove /\ r.asked = e.asked
  BY <1>1 DEF AccountDialogs, SameRows
<1> HIDE DEF r
<1>7. HasRows(r)
  <2>1. d.rows \in [Accounts -> RowStates] /\ HasRows(d)
    BY DEF Right, AccountDialogs
  <2>2. \A b \in Accounts : b # a => r.rows[b] = d.rows[b]
    BY <1>1, <1>6, <2>1 DEF SameRows
  <2>3. r.rows[a] = "none"
    BY <1>1, <1>6, <2>1 DEF SameRows
  <2>4. (s # NoAccount => s \in Accounts) /\ (t # NoAccount => t \in Accounts)
    BY <1>3 DEF OrNone
  <2>5. r.started <=> d.started
    BY <1>1, <1>6 DEF SameRows
  <2> QED BY <1>1, <1>4, <1>6, <2>1, <2>2, <2>3, <2>4, <2>5 DEF HasRows
<1>8. Details(r) /\ Removes(r)
  BY <1>1, <1>4, <1>6 DEF Details, Removes, SameRows
<1> QED BY <1>1, <1>2, <1>4, <1>5, <1>6, <1>7, <1>8 DEF Right, SameRows

LEMMA AccountAdded ==
  ASSUME NEW d, Right(d), d.started, NEW a \in Accounts, NEW row \in RowStates, row # "none"
  PROVE  /\ Right(AddAccount(d, a, row))
         /\ d.selected # NoAccount =>
              AddAccount(d, a, row).selected = d.selected /\ AddAccount(d, a, row).asked = d.asked
         /\ AddAccount(d, a, row).loading <=> d.loading
<1> DEFINE e == DropSettings(d, a, row)
<1>1. /\ e \in AccountDialogs /\ Details(e) /\ Removes(e)
      /\ e.rows = [d.rows EXCEPT ![a] = row] /\ e.selected = d.selected
      /\ e.destination = d.destination /\ e.asked = d.asked
      /\ e.loading <=> d.loading
      /\ e.started <=> d.started
  BY SettingsDropped
<1>2. AddAccount(d, a, row) = IF d.rows[a] = "none" /\ d.selected = NoAccount THEN SelectRow(e, a) ELSE e
  BY DEF AddAccount
<1> HIDE DEF e
<1>3. e.rows[a] = row
  BY <1>1 DEF Right, AccountDialogs
<1>4. HasRows(e)
  <2>1. d.rows \in [Accounts -> RowStates] /\ HasRows(d)
        /\ d.selected \in OrNone /\ d.destination \in OrNone
    BY DEF Right, AccountDialogs
  <2>2. \A b \in Accounts : b # a => e.rows[b] = d.rows[b]
    BY <1>1, <2>1
  <2> QED BY <1>1, <1>3, <2>1, <2>2 DEF HasRows, OrNone
<1>5. Right(e)
  BY <1>1, <1>4 DEF Right
<1>6. CASE d.rows[a] = "none" /\ d.selected = NoAccount
  BY <1>1, <1>2, <1>3, <1>5, <1>6, RowSelected DEF SameRows
<1>7. CASE ~(d.rows[a] = "none" /\ d.selected = NoAccount)
  BY <1>1, <1>2, <1>5, <1>7
<1> QED BY <1>6, <1>7

(* The use of freed memory leaves what is known of the dialog.               *)
LEMMA OneBecomes ==
  ASSUME NEW outcomes, \A d \in outcomes : Right(d), Becomes(outcomes)
  PROVE  /\ Right(dialog')
         /\ \E d \in outcomes : /\ dialog'.selected = d.selected /\ dialog'.asked = d.asked
                                /\ dialog'.loading = d.loading /\ (d.dead => dialog'.dead)
<1>1. PICK d \in outcomes : dialog' = [d EXCEPT !.stray = FALSE] \/ dialog' = [d EXCEPT !.dead = TRUE]
  BY DEF Becomes
<1>2. d \in AccountDialogs
  BY DEF Right
<1>3. dialog' \in AccountDialogs
  <2>1. [d EXCEPT !.stray = FALSE] \in AccountDialogs
    BY <1>2 DEF AccountDialogs
  <2>2. [d EXCEPT !.dead = TRUE] \in AccountDialogs
    BY <1>2 DEF AccountDialogs
  <2> QED BY <1>1, <2>1, <2>2
<1>4. /\ dialog'.rows = d.rows /\ dialog'.selected = d.selected /\ dialog'.destination = d.destination
      /\ dialog'.waiting = d.waiting /\ dialog'.shown = d.shown /\ dialog'.infobar = d.infobar
      /\ dialog'.asked = d.asked /\ dialog'.loading = d.loading /\ dialog'.started = d.started
      /\ dialog'.canRemove = d.canRemove
  <2>1. CASE dialog' = [d EXCEPT !.stray = FALSE]
    BY <1>2, <2>1 DEF AccountDialogs
  <2>2. CASE dialog' = [d EXCEPT !.dead = TRUE]
    BY <1>2, <2>2 DEF AccountDialogs
  <2> QED BY <1>1, <2>1, <2>2
<1>5. d.dead => dialog'.dead
  BY <1>1, <1>2 DEF AccountDialogs
<1>6. Right(d)
  OBVIOUS
<1> QED BY <1>3, <1>4, <1>5, <1>6 DEF Right, HasRows, Details, Removes

(* While the user is asked about an account, nothing else is on top and the  *)
(* account stays selected.                                                   *)
Editors ==
  [state : {"none", "open", "destroyed"}, pending : BOOLEAN, applying : BOOLEAN, held : BOOLEAN]
Questions == [kind : {"none", "new", "remove"}, about : OrNone, gone : BOOLEAN]

Settled(a) ==
  /\ a \in Accounts /\ dialog.selected = a /\ dialog.asked = 0
  /\ ~dialog.loading /\ params.state # "open"

AskedAbout == question.kind = "remove" /\ ~question.gone /\ ~dialog.dead => Settled(question.about)

DialogInv ==
  /\ Right(dialog) /\ params \in Editors /\ question \in Questions
  /\ params.state = "open" => ~dialog.loading
  /\ AskedAbout

LEMMA DialogStarts == DialogInit => DialogInv
<1> SUFFICES ASSUME DialogInit PROVE DialogInv
  OBVIOUS
<1>1. PICK initial \in OrNone :
        dialog = [rows |-> [a \in Accounts |-> "none"], kept |-> {}, selected |-> NoAccount,
                  shown |-> NoAccount, waiting |-> NotWaiting, infobar |-> NoAccount,
                  loading |-> TRUE, started |-> FALSE, initial |-> initial,
                  canAdd |-> FALSE, canRemove |-> FALSE, asked |-> 0, destination |-> NoAccount,
                  force |-> FALSE, stray |-> FALSE, dead |-> FALSE]
  BY DEF DialogInit, OrNone
<1>2. dialog \in AccountDialogs
  BY <1>1, WaitingTyped DEF AccountDialogs, OrNone, RowStates
<1>3. HasRows(dialog) /\ Details(dialog) /\ Removes(dialog)
  BY <1>1 DEF HasRows, Details, Removes
<1>4. params \in Editors /\ question \in Questions /\ params.state # "open" /\ question.kind # "remove"
  BY DEF DialogInit, NoEditor, NotAsked, Editors, Questions, OrNone
<1> QED BY <1>2, <1>3, <1>4 DEF DialogInv, Right, AskedAbout

(* What a step with nothing but outcomes that are right has to show.         *)
LEMMA OutcomesAreRight ==
  ASSUME DialogInv, NEW outcomes, Becomes(outcomes), UNCHANGED params, question' \in Questions,
         \A d \in outcomes : Right(d) /\ (params.state = "open" => ~d.loading),
         question'.kind = "remove" /\ ~question'.gone /\ ~dialog'.dead =>
           /\ question.kind = "remove" /\ ~question.gone /\ question'.about = question.about
           /\ ~dialog.dead
           /\ \A d \in outcomes : d.selected = dialog.selected /\ d.asked = dialog.asked /\ ~d.loading
  PROVE  DialogInv'
<1>1. Right(dialog')
  BY OneBecomes
<1>2. PICK d \in outcomes : dialog'.selected = d.selected /\ dialog'.asked = d.asked
                            /\ dialog'.loading = d.loading /\ (d.dead => dialog'.dead)
  BY OneBecomes
<1>3. params' \in Editors /\ (params'.state = "open" => ~dialog'.loading)
  BY <1>2 DEF DialogInv
<1> QED BY <1>1, <1>2, <1>3 DEF DialogInv, AskedAbout, Settled

LEMMA ManagerGetsReady == ASSUME DialogInv, ManagerReady PROVE DialogInv'
<1> DEFINE valid == {a \in Accounts : am[a] = "valid"}
           rs == [a \in Accounts |-> IF a \in valid THEN "new" ELSE "none"]
           all == [dialog EXCEPT !.started = TRUE, !.rows = rs]
           outcomes == IF valid = {} THEN UpdateToNone(all)
                       ELSE UNION {SelectFirst(SelectRow(all, added)) : added \in valid}
<1>1. Becomes(outcomes) /\ UNCHANGED <<params, question>> /\ ~dialog.started
  BY DEF ManagerReady
<1>2. dialog \in AccountDialogs /\ Right(dialog)
  BY DEF DialogInv, Right
<1>3. dialog.selected = NoAccount /\ dialog.destination = NoAccount
  BY <1>1, <1>2 DEF Right, HasRows, AccountDialogs, OrNone
<1>4. rs \in [Accounts -> RowStates] /\ valid \in SUBSET Accounts
      /\ \A a \in valid : rs[a] # "none"
  BY DEF RowStates
<1> HIDE DEF rs, valid
<1>5. all \in AccountDialogs
  BY <1>2, <1>4 DEF AccountDialogs
<1>6. /\ all.rows = rs /\ all.selected = dialog.selected /\ all.destination = dialog.destination
      /\ all.waiting = dialog.waiting /\ all.shown = dialog.shown /\ all.infobar = dialog.infobar
  BY <1>2 DEF AccountDialogs
<1>7. /\ all.started
      /\ all.loading <=> dialog.loading
      /\ all.dead <=> dialog.dead
      /\ all.canRemove <=> dialog.canRemove
  BY <1>2 DEF AccountDialogs
<1> HIDE DEF all
<1>8. Right(all)
  BY <1>2, <1>3, <1>5, <1>6, <1>7 DEF Right, HasRows, Details, Removes
<1>9. \A d \in outcomes : Right(d) /\ SameRows(d, all)
  <2>1. CASE valid = {}
    BY <1>3, <1>6, <1>8, <2>1, NoneShown
  <2>2. CASE valid # {}
    <3> TAKE d \in outcomes
    <3>1. PICK added \in valid : d \in SelectFirst(SelectRow(all, added))
      BY <2>2
    <3>2. Right(SelectRow(all, added)) /\ SameRows(SelectRow(all, added), all)
      BY <1>4, <1>6, <1>8, RowSelected
    <3>3. Right(d) /\ SameRows(d, SelectRow(all, added))
      BY <3>1, <3>2, FirstSelected
    <3> QED BY <3>2, <3>3 DEF SameRows
  <2> QED BY <2>1, <2>2
<1> HIDE DEF outcomes
<1>10. question.kind = "remove" /\ ~question.gone => dialog.dead
  <2>1. NoAccount \notin Accounts
    BY AccountsAssumption
  <2> QED BY <1>3, <2>1 DEF DialogInv, AskedAbout, Settled
<1>11. Right(dialog') /\ (dialog.dead => dialog'.dead) /\ (dialog'.loading => dialog.loading)
       /\ (dialog.loading \/ ~dialog'.loading)
  <2>1. Right(dialog')
    BY <1>1, <1>9, OneBecomes
  <2>2. PICK d \in outcomes : dialog'.loading = d.loading /\ (d.dead => dialog'.dead)
    BY <1>1, <1>9, OneBecomes
  <2> QED BY <1>7, <1>9, <2>1, <2>2 DEF SameRows
<1>12. params' \in Editors /\ question' \in Questions /\ (params'.state = "open" => ~dialog'.loading)
  BY <1>1, <1>11 DEF DialogInv
<1>13. AskedAbout'
  BY <1>1, <1>10, <1>11 DEF AskedAbout
<1> QED BY <1>11, <1>12, <1>13 DEF DialogInv

LEMMA AccountBecomesValid ==
  ASSUME DialogInv, NEW a \in Accounts, NEW valid \in BOOLEAN, ValidityChanged(a, valid)
  PROVE  DialogInv'
<1>1. PICK row \in RowStates : row # "none" /\ Becomes({AddAccount(dialog, a, row)})
  BY DEF ValidityChanged, RowStates
<1>2. dialog.started /\ ~dialog.dead /\ UNCHANGED <<params, question>> /\ Right(dialog)
  BY DEF ValidityChanged, DialogInv
<1> DEFINE e == AddAccount(dialog, a, row)
<1>3. /\ Right(e)
      /\ dialog.selected # NoAccount =>
           e.selected = dialog.selected /\ e.asked = dialog.asked
      /\ e.loading <=> dialog.loading
  BY <1>1, <1>2, AccountAdded
<1> HIDE DEF e
<1>4. question.kind = "remove" /\ ~question.gone =>
        e.selected = dialog.selected /\ e.asked = dialog.asked /\ ~e.loading
  BY <1>2, <1>3, AccountsAssumption DEF DialogInv, AskedAbout, Settled
<1>5. \A d \in {e} : Right(d) /\ (params.state = "open" => ~d.loading)
  BY <1>3 DEF DialogInv
<1>6. question' \in Questions
  BY <1>2 DEF DialogInv
<1>7. Becomes({e})
  BY <1>1 DEF e
<1> QED BY <1>2, <1>4, <1>5, <1>6, <1>7, OutcomesAreRight

LEMMA AccountGoes ==
  ASSUME DialogInv, NEW a \in Accounts, AccountRemoved(a) PROVE DialogInv'
<1> DEFINE left == RemoveRow(dialog, a)
           loses == dialog.rows[a] # "none" /\ dialog.selected = a
           outcomes == IF loses THEN SelectionLost(left) ELSE {left}
           q == [question EXCEPT !.gone = @ \/ question.about = a]
<1>1. ~dialog.dead /\ Becomes(outcomes) /\ question' = q /\ UNCHANGED params
  BY DEF AccountRemoved
<1>2. dialog \in AccountDialogs /\ Right(dialog) /\ question \in Questions
  BY DEF DialogInv, Right
<1>3. /\ Right(left)
      /\ dialog.selected = a => left.selected = NoAccount
      /\ dialog.selected # a => left.selected = dialog.selected
      /\ left.asked = dialog.asked
      /\ left.loading <=> dialog.loading
  BY <1>2, RowRemoved
<1>4. q \in Questions /\ q.kind = question.kind /\ q.about = question.about
      /\ (~q.gone => ~question.gone /\ question.about # a)
  BY <1>2 DEF Questions
<1> HIDE DEF left, q
<1>5. \A d \in outcomes : Right(d) /\ (d.loading <=> dialog.loading)
  <2>1. CASE loses
    <3>1. \A d \in SelectionLost(left) : Right(d) /\ SameRows(d, left)
      BY <1>3, <2>1, SelectionIsLost
    <3> QED BY <1>3, <2>1, <3>1 DEF SameRows
  <2>2. CASE ~loses
    BY <1>3, <2>2
  <2> QED BY <2>1, <2>2
<1>6. question'.kind = "remove" /\ ~question'.gone =>
        /\ question.kind = "remove" /\ ~question.gone /\ question'.about = question.about
        /\ \A d \in outcomes : d.selected = dialog.selected /\ d.asked = dialog.asked /\ ~d.loading
  <2> SUFFICES ASSUME question'.kind = "remove", ~question'.gone
               PROVE  /\ question.kind = "remove" /\ ~question.gone /\ question'.about = question.about
                      /\ \A d \in outcomes : d.selected = dialog.selected /\ d.asked = dialog.asked
                                             /\ ~d.loading
    OBVIOUS
  <2>1. question.kind = "remove" /\ ~question.gone /\ question'.about = question.about
        /\ question.about # a
    BY <1>1, <1>4
  <2>2. dialog.selected # a /\ ~dialog.loading
    BY <1>1, <2>1 DEF DialogInv, AskedAbout, Settled
  <2>3. outcomes = {left}
    BY <2>2
  <2> QED BY <1>3, <2>1, <2>2, <2>3
<1>7. \A d \in outcomes : Right(d) /\ (params.state = "open" => ~d.loading)
  BY <1>5 DEF DialogInv
<1> HIDE DEF outcomes
<1> QED BY <1>1, <1>4, <1>6, <1>7, OutcomesAreRight

LEMMA ManagersPrepared == ASSUME DialogInv, CmsPrepared PROVE DialogInv'
<1>1. PICK ok \in BOOLEAN :
        LET updated == IF ~ok \/ dialog.waiting # NotWaiting THEN {dialog} ELSE UpdateToNone(dialog)
            chosen(d) == IF ok /\ d.initial \in Rows(d) THEN SelectRow(d, d.initial) ELSE d
            finished(d) == [d EXCEPT !.loading = FALSE, !.canAdd = TRUE,
                              !.canRemove = d.selected # NoAccount, !.initial = NoAccount]
        IN Becomes({finished(chosen(d)) : d \in updated})
  BY DEF CmsPrepared
<1> DEFINE updated == IF ~ok \/ dialog.waiting # NotWaiting THEN {dialog} ELSE UpdateToNone(dialog)
           chosen(d) == IF ok /\ d.initial \in Rows(d) THEN SelectRow(d, d.initial) ELSE d
           finished(d) == [d EXCEPT !.loading = FALSE, !.canAdd = TRUE,
                             !.canRemove = d.selected # NoAccount, !.initial = NoAccount]
           outcomes == {finished(chosen(d)) : d \in updated}
<1>2. dialog.loading /\ ~dialog.dead /\ Becomes(outcomes) /\ UNCHANGED <<params, question>>
      /\ Right(dialog) /\ question' \in Questions
  BY <1>1 DEF CmsPrepared, DialogInv
<1>3. \A d \in updated : Right(d)
  <2>1. CASE ~ok \/ dialog.waiting # NotWaiting
    BY <1>2, <2>1
  <2>2. CASE ok /\ dialog.waiting = NotWaiting
    <3>1. dialog.waiting.of = NoAccount
      BY <2>2, WaitingTyped
    <3> QED BY <1>2, <2>2, <3>1, NoneShown
  <2> QED BY <2>1, <2>2
<1>4. \A d \in updated : Right(chosen(d))
  BY <1>3, RowSelected DEF Rows
<1> HIDE DEF updated
<1>5. ASSUME NEW d, Right(d) PROVE Right(finished(d)) /\ ~finished(d).loading
  <2> DEFINE m == d.selected # NoAccount
             r == [d EXCEPT !.loading = FALSE, !.canAdd = TRUE, !.canRemove = m, !.initial = NoAccount]
  <2>1. d \in AccountDialogs /\ m \in BOOLEAN /\ NoAccount \in OrNone
    BY <1>5 DEF Right, OrNone
  <2>5. finished(d) = r
    OBVIOUS
  <2> HIDE DEF m
  <2>2. r \in AccountDialogs
    BY <2>1 DEF AccountDialogs
  <2>3. /\ r.rows = d.rows /\ r.selected = d.selected /\ r.destination = d.destination
        /\ r.waiting = d.waiting /\ r.shown = d.shown /\ r.infobar = d.infobar
    BY <2>1 DEF AccountDialogs
  <2>4. ~r.loading /\ (r.started <=> d.started)
    BY <2>1 DEF AccountDialogs
  <2> HIDE DEF r
  <2>6. Right(r)
    BY <1>5, <2>2, <2>3, <2>4 DEF Right, HasRows, Details, Removes
  <2> HIDE DEF finished
  <2> QED BY <2>4, <2>5, <2>6
<1> HIDE DEF finished, chosen
<1>6. \A x \in outcomes : Right(x) /\ ~x.loading
  BY <1>4, <1>5
<1> HIDE DEF outcomes
<1>7. ~(question'.kind = "remove" /\ ~question'.gone)
  BY <1>2 DEF DialogInv, AskedAbout, Settled
<1>8. \A x \in outcomes : Right(x) /\ (params.state = "open" => ~x.loading)
  BY <1>6
<1> QED BY <1>2, <1>7, <1>8, OutcomesAreRight

(* What a step that leaves the selection and the question alone has to show. *)
LEMMA SelectionStays ==
  ASSUME DialogInv, Right(dialog'), params' \in Editors, UNCHANGED question,
         params'.state = "open" => params.state = "open",
         dialog'.selected = dialog.selected, dialog'.asked = dialog.asked,
         dialog'.loading <=> dialog.loading, dialog.dead => dialog'.dead
  PROVE  DialogInv'
BY DEF DialogInv, AskedAbout, Settled

LEMMA SettingsTold ==
  ASSUME NEW d, Right(d), NEW a \in Accounts, d.waiting.of = a
  PROVE  LET x == CreateContent([d EXCEPT !.waiting.ready = TRUE], a)
         IN Right(x) /\ SameRows(x, d) /\ x.selected = d.selected /\ x.asked = d.asked
<1> DEFINE w == [d.waiting EXCEPT !.ready = TRUE]
           e == [d EXCEPT !.waiting = w]
           x == CreateContent(e, a)
<1>1. d \in AccountDialogs /\ d.waiting \in Waits /\ d.selected \in {NoAccount, a}
  BY AccountsAssumption DEF Right, AccountDialogs, Details
<1>2. w \in Waits /\ w.of = a
  BY <1>1 DEF Waits
<1>3. [d EXCEPT !.waiting.ready = TRUE] = e
  OBVIOUS
<1> HIDE DEF w
<1>4. e \in AccountDialogs
  BY <1>1, <1>2 DEF AccountDialogs
<1>5. /\ SameRows(e, d) /\ e.selected = d.selected /\ e.destination = d.destination /\ e.waiting = w
      /\ e.canRemove = d.canRemove /\ e.asked = d.asked
  BY <1>1 DEF AccountDialogs, SameRows
<1> HIDE DEF e
<1>6. /\ x \in AccountDialogs /\ SameRows(x, d) /\ x.waiting = w /\ x.selected = d.selected
      /\ x.destination = d.destination /\ x.shown = a /\ x.canRemove = d.canRemove
      /\ x.asked = d.asked /\ (d.selected = a => x.infobar = a)
  BY <1>4, <1>5, ContentCreated DEF SameRows
<1> HIDE DEF x
<1>7. HasRows(x) /\ Details(x) /\ Removes(x)
  BY <1>1, <1>2, <1>6 DEF Right, HasRows, Details, Removes, SameRows
<1> QED BY <1>3, <1>6, <1>7 DEF Right, x

LEMMA SettingsGetReady ==
  ASSUME DialogInv, NEW a \in Accounts, SettingsReady(a) PROVE DialogInv'
<1>1. dialog \in AccountDialogs /\ Right(dialog) /\ UNCHANGED <<params, question>> /\ ~dialog.dead
      /\ params \in Editors
  BY DEF DialogInv, Right, SettingsReady
<1> DEFINE rs == [dialog.rows EXCEPT ![a] = "ready"]
           new == [dialog EXCEPT !.rows = rs]
<1>2. rs \in [Accounts -> RowStates] /\ (\A b \in Accounts : dialog.rows[b] # "none" => rs[b] # "none")
  BY <1>1 DEF AccountDialogs, RowStates
<1>3. \/ dialog.rows[a] = "new" /\ dialog' = IF new.waiting.of = a /\ new.waiting.object = "row"
                         THEN CreateContent([new EXCEPT !.waiting.ready = TRUE], a) ELSE new
      \/ dialog.waiting.of = a /\ dialog' = CreateContent([dialog EXCEPT !.waiting.ready = TRUE], a)
  BY DEF SettingsReady
<1> HIDE DEF rs
<1>4. new \in AccountDialogs
  BY <1>1, <1>2 DEF AccountDialogs
<1>5. /\ new.rows = rs /\ new.selected = dialog.selected
      /\ new.destination = dialog.destination /\ new.waiting = dialog.waiting
      /\ new.shown = dialog.shown /\ new.infobar = dialog.infobar /\ new.asked = dialog.asked
  BY <1>1 DEF AccountDialogs
<1>6. /\ new.loading <=> dialog.loading
      /\ new.started <=> dialog.started
      /\ new.canRemove <=> dialog.canRemove
  BY <1>1 DEF AccountDialogs
<1> HIDE DEF new
<1>7. dialog.rows[a] = "new" => Right(new)
  <2>1. dialog.selected \in OrNone /\ dialog.destination \in OrNone
    BY <1>1 DEF AccountDialogs
  <2>2. dialog.rows[a] = "new" => HasRows(new)
    BY <1>1, <1>2, <1>5, <1>6, <2>1 DEF Right, HasRows, OrNone
  <2> QED BY <1>1, <1>4, <1>5, <1>6, <2>2 DEF Right, Details, Removes
<1>8. /\ Right(dialog') /\ dialog'.selected = dialog.selected /\ dialog'.asked = dialog.asked
      /\ dialog'.loading <=> dialog.loading
  <2>1. CASE dialog.rows[a] = "new" /\ dialog' = new
    BY <1>5, <1>6, <1>7, <2>1
  <2>2. CASE /\ dialog.rows[a] = "new" /\ new.waiting.of = a
             /\ dialog' = CreateContent([new EXCEPT !.waiting.ready = TRUE], a)
    BY <1>5, <1>6, <1>7, <2>2, SettingsTold DEF SameRows
  <2>3. CASE /\ dialog.waiting.of = a
             /\ dialog' = CreateContent([dialog EXCEPT !.waiting.ready = TRUE], a)
    BY <1>1, <2>3, SettingsTold DEF SameRows
  <2> QED BY <1>3, <2>1, <2>2, <2>3
<1> QED BY <1>1, <1>8, SelectionStays

LEMMA Reloads == ASSUME DialogInv, Reload PROVE DialogInv'
<1>1. /\ ~dialog.dead /\ Right(dialog) /\ UNCHANGED <<params, question>> /\ question' \in Questions
      /\ dialog \in AccountDialogs /\ dialog.selected \in OrNone
  BY DEF Reload, DialogInv, Right, AccountDialogs
<1>2. CASE dialog.selected = NoAccount
  <2>1. Becomes(UpdateToNone(dialog))
    BY <1>2 DEF Reload
  <2>2. \A d \in UpdateToNone(dialog) : Right(d) /\ SameRows(d, dialog)
    BY <1>1, <1>2, NoneShown
  <2>3. \A d \in UpdateToNone(dialog) : Right(d) /\ (params.state = "open" => ~d.loading)
    BY <2>2 DEF DialogInv, SameRows
  <2>4. ~(question'.kind = "remove" /\ ~question'.gone)
    BY <1>1, <1>2, AccountsAssumption DEF DialogInv, AskedAbout, Settled
  <2> QED BY <1>1, <2>1, <2>3, <2>4, OutcomesAreRight
<1>3. CASE dialog.selected # NoAccount
  <2> DEFINE u == UpdateSettings(dialog, dialog.selected)
             k == u.kept \cup {dialog.selected}
             r == [u EXCEPT !.kept = k]
  <2>1. Becomes({r})
    BY <1>3 DEF Reload
  <2>2. dialog.selected \in Accounts
    BY <1>1, <1>3 DEF OrNone
  <2>3. /\ u \in AccountDialogs /\ SameRows(u, dialog) /\ Details(u) /\ u.selected = dialog.selected
        /\ u.destination = dialog.destination /\ u.canRemove = dialog.canRemove
        /\ u.asked = dialog.asked
    BY <1>1, <2>2, SettingsUpdated
  <2> HIDE DEF u
  <2>4. k \in SUBSET Accounts
    BY <2>2, <2>3 DEF AccountDialogs
  <2> HIDE DEF k
  <2>5. r \in AccountDialogs
    BY <2>3, <2>4 DEF AccountDialogs
  <2>6. /\ SameRows(r, u) /\ r.selected = u.selected /\ r.destination = u.destination
        /\ r.waiting = u.waiting /\ r.shown = u.shown /\ r.infobar = u.infobar
        /\ r.canRemove = u.canRemove /\ r.asked = u.asked
    BY <2>3 DEF AccountDialogs, SameRows
  <2> HIDE DEF r
  <2>7. HasRows(r) /\ Details(r) /\ Removes(r)
    BY <1>1, <2>3, <2>6 DEF Right, HasRows, Details, Removes, SameRows
  <2>8. \A d \in {r} : Right(d) /\ (params.state = "open" => ~d.loading)
    BY <2>3, <2>5, <2>6, <2>7 DEF Right, DialogInv, SameRows
  <2>9. question.kind = "remove" /\ ~question.gone =>
          r.selected = dialog.selected /\ r.asked = dialog.asked /\ ~r.loading
    BY <1>1, <2>3, <2>6 DEF DialogInv, AskedAbout, Settled, SameRows
  <2> QED BY <1>1, <2>1, <2>8, <2>9, OutcomesAreRight
<1> QED BY <1>2, <1>3

LEMMA StatusChanges ==
  ASSUME DialogInv, NEW a \in Accounts, StatusChanged(a) PROVE DialogInv'
<1>1. /\ dialog.selected = a /\ dialog' = [dialog EXCEPT !.infobar = a]
      /\ UNCHANGED <<params, question>> /\ Right(dialog) /\ params \in Editors
      /\ dialog \in AccountDialogs /\ a \in OrNone
  BY DEF StatusChanged, DialogInv, Right, OrNone
<1>2. dialog' \in AccountDialogs
  BY <1>1 DEF AccountDialogs
<1>3. /\ SameRows(dialog', dialog) /\ dialog'.selected = dialog.selected
      /\ dialog'.destination = dialog.destination /\ dialog'.waiting = dialog.waiting
      /\ dialog'.shown = dialog.shown /\ dialog'.infobar = a
      /\ dialog'.canRemove = dialog.canRemove /\ dialog'.asked = dialog.asked
  BY <1>1 DEF AccountDialogs, SameRows
<1>4. HasRows(dialog') /\ Details(dialog') /\ Removes(dialog')
  BY <1>1, <1>3 DEF Right, HasRows, Details, Removes, SameRows
<1>5. Right(dialog') /\ (dialog'.loading <=> dialog.loading) /\ (dialog.dead => dialog'.dead)
  BY <1>2, <1>3, <1>4 DEF Right, SameRows
<1> QED BY <1>1, <1>3, <1>5, SelectionStays

(* What a step has to show that leaves no question up.                       *)
LEMMA NothingIsAsked ==
  ASSUME Right(dialog'), params' \in Editors, question' \in Questions,
         params'.state = "open" => ~dialog'.loading,
         question'.kind = "remove" => question'.gone
  PROVE  DialogInv'
BY DEF DialogInv, AskedAbout

LEMMA AnyOutcome ==
  ASSUME NEW outcomes, Becomes(outcomes), params' \in Editors, question' \in Questions,
         \A d \in outcomes : Right(d) /\ (params'.state = "open" => ~d.loading),
         question'.kind = "remove" => question'.gone
  PROVE  DialogInv'
<1>1. Right(dialog')
  BY OneBecomes
<1>2. PICK d \in outcomes : dialog'.loading = d.loading
  BY OneBecomes
<1> QED BY <1>1, <1>2, NothingIsAsked

LEMMA Asked ==
  NotAsked \in Questions /\ NotAsked.kind = "none" /\ NoEditor \in Editors /\ NoEditor.state = "none"
BY DEF NotAsked, NoEditor, Questions, Editors, OrNone

LEMMA RowClicked ==
  ASSUME DialogInv, NEW a \in Accounts, ClickRow(a) PROVE DialogInv'
<1>1. /\ question = NotAsked /\ params.state # "open" /\ dialog.rows[a] # "none"
      /\ UNCHANGED <<params, question>> /\ Right(dialog) /\ dialog \in AccountDialogs
      /\ params \in Editors
  BY DEF ClickRow, User, NoModal, DialogInv, Right
<1> DEFINE e == [dialog EXCEPT !.selected = NoAccount]
           outcomes == IF dialog.selected = a THEN SelectionLost(e) ELSE {SelectRow(dialog, a)}
<1>2. Becomes(outcomes)
  BY DEF ClickRow
<1>3. e \in AccountDialogs
  BY <1>1 DEF AccountDialogs, OrNone
<1>4. /\ SameRows(e, dialog) /\ e.selected = NoAccount /\ e.destination = dialog.destination
      /\ e.canRemove = dialog.canRemove
  BY <1>1 DEF AccountDialogs, SameRows
<1> HIDE DEF e
<1>5. Right(e)
  BY <1>1, <1>3, <1>4 DEF Right, HasRows, Details, Removes, SameRows
<1>6. \A d \in outcomes : Right(d)
  BY <1>1, <1>4, <1>5, SelectionIsLost, RowSelected
<1> HIDE DEF outcomes
<1> QED BY <1>1, <1>2, <1>6, Asked, AnyOutcome

LEMMA RemoveClicked == ASSUME DialogInv, ClickRemove PROVE DialogInv'
<1> DEFINE a == dialog.selected
           left == RemoveRow(dialog, a)
           outcomes == UNION {SelectFirst(d) : d \in SelectionLost(left)}
<1>1. /\ question = NotAsked /\ params.state # "open" /\ dialog.asked = 0 /\ ~dialog.loading
      /\ UNCHANGED params /\ Right(dialog) /\ params \in Editors /\ a \in Accounts
  BY DEF ClickRemove, NoModal, DialogInv, Right, Removes, AccountDialogs, OrNone
<1>2. CASE question' = [kind |-> "remove", about |-> a, gone |-> FALSE] /\ UNCHANGED dialog
  <2>1. question' \in Questions /\ question'.about = a
    BY <1>1, <1>2 DEF Questions, OrNone
  <2>2. params' \in Editors /\ params'.state # "open" /\ Right(dialog')
    BY <1>1, <1>2
  <2>3. AskedAbout'
    BY <1>1, <1>2, <2>1 DEF AskedAbout, Settled
  <2> QED BY <2>1, <2>2, <2>3 DEF DialogInv
<1>3. CASE Becomes(outcomes) /\ UNCHANGED question
  <2>1. Right(left) /\ left.selected = NoAccount
    BY <1>1, RowRemoved
  <2> HIDE DEF left
  <2>2. \A d \in SelectionLost(left) : Right(d)
    BY <2>1, SelectionIsLost
  <2>3. \A d \in outcomes : Right(d)
    <3> TAKE r \in outcomes
    <3>1. PICK d \in SelectionLost(left) : r \in SelectFirst(d)
      OBVIOUS
    <3> QED BY <2>2, <3>1, FirstSelected
  <2> HIDE DEF outcomes
  <2> QED BY <1>1, <1>3, <2>3, Asked, AnyOutcome
<1> QED BY <1>2, <1>3 DEF ClickRemove

LEMMA RemovalConfirmed == ASSUME DialogInv, RemoveConfirmed PROVE DialogInv'
<1> DEFINE left == RemoveRow(dialog, ToRemove)
<1>1. /\ Becomes(SelectFirst(left)) /\ question' = NotAsked /\ UNCHANGED params
      /\ ToRemove \in Accounts /\ Right(dialog) /\ params \in Editors
  BY DEF RemoveConfirmed, ToRemove, DialogInv, Right, AccountDialogs, OrNone
<1>2. Right(left) /\ (left.loading <=> dialog.loading)
  BY <1>1, RowRemoved
<1> HIDE DEF left
<1>3. \A d \in SelectFirst(left) : Right(d) /\ (params'.state = "open" => ~d.loading)
  <2> TAKE d \in SelectFirst(left)
  <2>1. Right(d) /\ SameRows(d, left)
    BY <1>2, FirstSelected
  <2> QED BY <1>1, <1>2, <2>1 DEF SameRows, DialogInv
<1> QED BY <1>1, <1>3, Asked, AnyOutcome

LEMMA RemovalDeclined == ASSUME DialogInv, RemoveDeclined PROVE DialogInv'
<1>1. question' = NotAsked /\ UNCHANGED <<dialog, params>>
  BY DEF RemoveDeclined
<1> QED BY <1>1, Asked, NothingIsAsked DEF DialogInv

(* Nothing asks to remove an account while changes are about to be lost.     *)
LEMMA AskedAlone ==
  ASSUME DialogInv, dialog.asked > 0 \/ params.state = "open", ~dialog.dead
  PROVE  question.kind = "remove" => question.gone
BY DEF DialogInv, AskedAbout, Settled, Right, Questions

LEMMA AnswerCounted ==
  ASSUME NEW d, Right(d), d.asked > 0, NEW forced \in BOOLEAN
  PROVE  LET r == [d EXCEPT !.asked = @ - 1, !.force = forced, !.destination = NoAccount]
         IN Right(r) /\ SameRows(r, d) /\ r \in AccountDialogs
<1> DEFINE n == d.asked - 1
           r == [d EXCEPT !.asked = n, !.force = forced, !.destination = NoAccount]
<1>1. d \in AccountDialogs /\ n \in Nat /\ NoAccount \in OrNone
  BY DEF Right, AccountDialogs, OrNone
<1>2. [d EXCEPT !.asked = @ - 1, !.force = forced, !.destination = NoAccount] = r
  OBVIOUS
<1> HIDE DEF n
<1>3. r \in AccountDialogs
  BY <1>1 DEF AccountDialogs
<1>4. /\ SameRows(r, d) /\ r.selected = d.selected /\ r.destination = NoAccount
      /\ r.waiting = d.waiting /\ r.shown = d.shown /\ r.infobar = d.infobar
      /\ r.canRemove = d.canRemove
  BY <1>1 DEF AccountDialogs, SameRows
<1> HIDE DEF r
<1>5. HasRows(r) /\ Details(r) /\ Removes(r)
  BY <1>4 DEF Right, HasRows, Details, Removes, SameRows
<1> QED BY <1>2, <1>3, <1>4, <1>5 DEF Right

(* Memory that was freed has been used.                                      *)
LEMMA Dies ==
  ASSUME NEW d, Right(d)
  PROVE  LET r == [d EXCEPT !.dead = TRUE]
         IN /\ Right(r) /\ r.dead /\ r.selected = d.selected /\ r.asked = d.asked
            /\ r.loading <=> d.loading
<1> DEFINE r == [d EXCEPT !.dead = TRUE]
<1>1. d \in AccountDialogs
  BY DEF Right
<1>2. r \in AccountDialogs
  BY <1>1 DEF AccountDialogs
<1>3. /\ r.rows = d.rows /\ r.selected = d.selected /\ r.destination = d.destination
      /\ r.waiting = d.waiting /\ r.shown = d.shown /\ r.infobar = d.infobar /\ r.asked = d.asked
  BY <1>1 DEF AccountDialogs
<1>4. /\ r.dead
      /\ r.loading <=> d.loading
      /\ r.started <=> d.started
      /\ r.canRemove <=> d.canRemove
  BY <1>1 DEF AccountDialogs
<1> HIDE DEF r
<1>5. HasRows(r) /\ Details(r) /\ Removes(r)
  BY <1>3, <1>4 DEF Right, HasRows, Details, Removes
<1> QED BY <1>2, <1>3, <1>4, <1>5 DEF Right, r

LEMMA ChangeIsConfirmed == ASSUME DialogInv, ChangeConfirmed PROVE DialogInv'
<1> DEFINE d == [dialog EXCEPT !.asked = @ - 1, !.force = TRUE, !.destination = NoAccount]
           x == IF dialog.destination = NoAccount THEN d ELSE SelectRow(d, dialog.destination)
<1>1. /\ dialog.asked > 0 /\ ~dialog.dead /\ UNCHANGED question /\ Right(dialog)
      /\ params \in Editors /\ question' \in Questions
      /\ params' = [params EXCEPT !.pending = FALSE]
  BY DEF ChangeConfirmed, DialogInv
<1>2. params' \in Editors /\ params'.state = params.state
  BY <1>1 DEF Editors
<1>3. question'.kind = "remove" => question'.gone
  BY <1>1, AskedAlone
<1>4. Right(d) /\ SameRows(d, dialog)
  BY <1>1, AnswerCounted
<1>5. params'.state = "open" => ~dialog.loading
  BY <1>2 DEF DialogInv
<1>6. CASE dialog' = [d EXCEPT !.dead = TRUE]
  <2> HIDE DEF d
  <2>1. Right(dialog') /\ (dialog'.loading <=> d.loading)
    BY <1>4, <1>6, Dies
  <2> QED BY <1>2, <1>3, <1>4, <1>5, <1>1, <2>1, NothingIsAsked DEF SameRows
<1>7. CASE Becomes({x})
  <2>1. dialog.destination # NoAccount => dialog.destination \in Accounts /\ dialog.rows[dialog.destination] # "none"
    BY <1>1 DEF Right, HasRows, AccountDialogs, OrNone
  <2> HIDE DEF d
  <2>2. Right(x) /\ SameRows(x, d)
    <3>1. CASE dialog.destination = NoAccount
      BY <1>4, <3>1 DEF SameRows
    <3>2. CASE dialog.destination # NoAccount
      BY <1>4, <2>1, <3>2, RowSelected DEF SameRows
    <3> QED BY <3>1, <3>2
  <2> HIDE DEF x
  <2>3. \A y \in {x} : Right(y) /\ (params'.state = "open" => ~y.loading)
    BY <1>4, <1>5, <2>2 DEF SameRows
  <2> QED BY <1>1, <1>2, <1>3, <1>7, <2>3, AnyOutcome
<1> QED BY <1>6, <1>7 DEF ChangeConfirmed

LEMMA ChangeIsDeclined == ASSUME DialogInv, ChangeDeclined PROVE DialogInv'
<1>1. /\ dialog.asked > 0 /\ ~dialog.dead /\ UNCHANGED <<params, question>> /\ Right(dialog)
      /\ params \in Editors /\ question' \in Questions
      /\ dialog' = [dialog EXCEPT !.asked = @ - 1, !.force = FALSE, !.destination = NoAccount]
  BY DEF ChangeDeclined, DialogInv
<1>2. question'.kind = "remove" => question'.gone
  BY <1>1, AskedAlone
<1>3. Right(dialog') /\ SameRows(dialog', dialog)
  BY <1>1, AnswerCounted
<1>4. params' \in Editors /\ (params'.state = "open" => ~dialog'.loading)
  BY <1>1, <1>3 DEF DialogInv, SameRows
<1> QED BY <1>1, <1>2, <1>3, <1>4, NothingIsAsked

LEMMA ParamsEdited == ASSUME DialogInv, EditParams PROVE DialogInv'
<1> DEFINE k == dialog.kept \cup {dialog.selected}
<1>1. /\ question = NotAsked /\ ~dialog.loading /\ UNCHANGED question /\ Right(dialog)
      /\ params' = [NoEditor EXCEPT !.state = "open"] /\ dialog' = [dialog EXCEPT !.kept = k]
      /\ dialog \in AccountDialogs
  BY DEF EditParams, User, NoModal, DialogInv, Right
<1>2. k \in SUBSET Accounts
  BY DEF EditParams, DialogInv, Right, AccountDialogs, OrNone
<1> HIDE DEF k
<1>3. dialog' \in AccountDialogs
  BY <1>1, <1>2 DEF AccountDialogs
<1>4. /\ SameRows(dialog', dialog) /\ dialog'.selected = dialog.selected
      /\ dialog'.destination = dialog.destination /\ dialog'.waiting = dialog.waiting
      /\ dialog'.shown = dialog.shown /\ dialog'.infobar = dialog.infobar
      /\ dialog'.canRemove = dialog.canRemove
  BY <1>1 DEF AccountDialogs, SameRows
<1>5. HasRows(dialog') /\ Details(dialog') /\ Removes(dialog')
  BY <1>1, <1>4 DEF Right, HasRows, Details, Removes, SameRows
<1>6. params' \in Editors
  BY <1>1 DEF NoEditor, Editors
<1>7. question' \in Questions /\ question'.kind # "remove" /\ ~dialog'.loading
  BY <1>1, <1>4, Asked DEF SameRows
<1> QED BY <1>3, <1>5, <1>6, <1>7, NothingIsAsked DEF Right

LEMMA ParamsChanged ==
  ASSUME DialogInv, ChangeParams \/ ApplyParams \/ ParamsApplied PROVE DialogInv'
<1>1. Right(dialog) /\ UNCHANGED question /\ params \in Editors
  BY DEF ChangeParams, ApplyParams, ParamsApplied, DialogInv
<1>2. params' \in Editors /\ (params'.state = "open" => params.state = "open")
  BY <1>1, Asked DEF ChangeParams, ApplyParams, ParamsApplied, Editors
<1>3. /\ Right(dialog') /\ dialog'.selected = dialog.selected /\ dialog'.asked = dialog.asked
      /\ dialog'.loading <=> dialog.loading
      /\ dialog.dead => dialog'.dead
  <2>1. CASE UNCHANGED dialog
    BY <1>1, <2>1
  <2>2. CASE dialog' = [dialog EXCEPT !.dead = TRUE]
    BY <1>1, <2>2, Dies
  <2> QED BY <2>1, <2>2 DEF ChangeParams, ApplyParams, ParamsApplied
<1> QED BY <1>1, <1>2, <1>3, SelectionStays

LEMMA ParamsClosed ==
  ASSUME DialogInv, NEW cancelled \in BOOLEAN, CloseParams(cancelled) PROVE DialogInv'
<1> DEFINE discards == cancelled /\ dialog.selected # NoAccount
           u == UpdateSettings(dialog, dialog.selected)
           r == [u EXCEPT !.canAdd = TRUE, !.canRemove = TRUE]
           x == IF discards THEN r ELSE dialog
<1>1. /\ params.state = "open" /\ ~dialog.dead /\ UNCHANGED question /\ Right(dialog)
      /\ params \in Editors /\ question' \in Questions /\ ~dialog.loading
      /\ dialog \in AccountDialogs
  BY DEF CloseParams, EditorOnTop, DialogInv, Right
<1>2. Becomes({x})
  BY DEF CloseParams
<1>3. params' \in Editors /\ params'.state # "open"
  <2> DEFINE p == params.pending /\ ~discards
             q == [params EXCEPT !.state = "destroyed", !.pending = p]
  <2>1. p \in BOOLEAN
    OBVIOUS
  <2>2. params' = q \/ params' = NoEditor
    BY <1>1 DEF CloseParams, Editors
  <2> HIDE DEF p
  <2>3. q \in Editors /\ q.state = "destroyed"
    BY <1>1, <2>1 DEF Editors
  <2> QED BY <2>2, <2>3, Asked
<1>4. question'.kind = "remove" => question'.gone
  BY <1>1, AskedAlone
<1>5. discards => Right(r)
  <2> SUFFICES ASSUME discards PROVE Right(r)
    OBVIOUS
  <2>1. dialog.selected \in Accounts
    BY <1>1 DEF AccountDialogs, OrNone
  <2>2. /\ u \in AccountDialogs /\ SameRows(u, dialog) /\ Details(u) /\ u.selected = dialog.selected
        /\ u.destination = dialog.destination
    BY <1>1, <2>1, SettingsUpdated
  <2> HIDE DEF u
  <2>3. r \in AccountDialogs
    BY <2>2 DEF AccountDialogs
  <2>4. /\ SameRows(r, u) /\ r.selected = u.selected /\ r.destination = u.destination
        /\ r.waiting = u.waiting /\ r.shown = u.shown /\ r.infobar = u.infobar
    BY <2>2 DEF AccountDialogs, SameRows
  <2> HIDE DEF r
  <2>5. HasRows(r) /\ Details(r) /\ Removes(r)
    BY <1>1, <2>2, <2>4 DEF Right, HasRows, Details, Removes, SameRows
  <2> QED BY <2>3, <2>5 DEF Right
<1> HIDE DEF r
<1>6. Right(x)
  BY <1>1, <1>5
<1> HIDE DEF x
<1>7. \A y \in {x} : Right(y) /\ (params'.state = "open" => ~y.loading)
  BY <1>3, <1>6
<1> QED BY <1>1, <1>2, <1>3, <1>4, <1>7, AnyOutcome

LEMMA AddClicked == ASSUME DialogInv, ClickAdd PROVE DialogInv'
<1>1. question' = [NotAsked EXCEPT !.kind = "new"] /\ UNCHANGED <<dialog, params>>
  BY DEF ClickAdd
<1>2. question' \in Questions /\ question'.kind = "new"
  BY <1>1 DEF NotAsked, Questions, OrNone
<1> QED BY <1>1, <1>2, NothingIsAsked DEF DialogInv

LEMMA AccountCreated ==
  ASSUME DialogInv, NEW a \in OrNone, AddFinished(a) PROVE DialogInv'
<1> DEFINE x == IF a # NoAccount /\ dialog.rows[a] # "none" THEN SelectRow(dialog, a) ELSE dialog
<1>1. /\ question' = NotAsked /\ Becomes({x}) /\ UNCHANGED params /\ Right(dialog)
      /\ params \in Editors
  BY DEF AddFinished, DialogInv
<1>2. Right(x) /\ SameRows(x, dialog)
  <2>1. CASE a # NoAccount /\ dialog.rows[a] # "none"
    BY <1>1, <2>1, RowSelected DEF OrNone
  <2>2. CASE ~(a # NoAccount /\ dialog.rows[a] # "none")
    BY <1>1, <2>2 DEF SameRows
  <2> QED BY <2>1, <2>2
<1> HIDE DEF x
<1>3. \A y \in {x} : Right(y) /\ (params'.state = "open" => ~y.loading)
  BY <1>1, <1>2 DEF SameRows, DialogInv
<1> QED BY <1>1, <1>3, Asked, AnyOutcome

LEMMA DialogSteps == DialogInv /\ [DialogNext]_dialogVars => DialogInv'
<1> SUFFICES ASSUME DialogInv, [DialogNext]_dialogVars PROVE DialogInv'
  OBVIOUS
<1>1. CASE ManagerReady
  BY <1>1, ManagerGetsReady
<1>2. CASE CmsPrepared
  BY <1>2, ManagersPrepared
<1>3. CASE Reload
  BY <1>3, Reloads
<1>4. ASSUME NEW a \in Accounts, NEW valid \in BOOLEAN, ValidityChanged(a, valid) PROVE DialogInv'
  BY <1>4, AccountBecomesValid
<1>5. ASSUME NEW a \in Accounts, AccountRemoved(a) PROVE DialogInv'
  BY <1>5, AccountGoes
<1>6. ASSUME NEW a \in Accounts, StatusChanged(a) PROVE DialogInv'
  BY <1>6, StatusChanges
<1>7. ASSUME NEW a \in Accounts, ClickRow(a) PROVE DialogInv'
  BY <1>7, RowClicked
<1>8. ASSUME NEW a \in Accounts, SettingsReady(a) PROVE DialogInv'
  BY <1>8, SettingsGetReady
<1>9. CASE ClickRemove
  BY <1>9, RemoveClicked
<1>10. CASE RemoveConfirmed
  BY <1>10, RemovalConfirmed
<1>11. CASE RemoveDeclined
  BY <1>11, RemovalDeclined
<1>12. CASE ChangeConfirmed
  BY <1>12, ChangeIsConfirmed
<1>13. CASE ChangeDeclined
  BY <1>13, ChangeIsDeclined
<1>14. CASE EditParams
  BY <1>14, ParamsEdited
<1>15. CASE ChangeParams \/ ApplyParams \/ ParamsApplied
  BY <1>15, ParamsChanged
<1>16. ASSUME NEW cancelled \in BOOLEAN, CloseParams(cancelled) PROVE DialogInv'
  BY <1>16, ParamsClosed
<1>17. CASE ClickAdd
  BY <1>17, AddClicked
<1>18. ASSUME NEW a \in OrNone, AddFinished(a) PROVE DialogInv'
  BY <1>18, AccountCreated
<1>19. CASE UNCHANGED dialogVars
  BY <1>19 DEF dialogVars, DialogInv, AskedAbout, Settled
<1> QED
  BY <1>1, <1>2, <1>3, <1>4, <1>5, <1>6, <1>7, <1>8, <1>9, <1>10, <1>11, <1>12, <1>13, <1>14,
     <1>15, <1>16, <1>17, <1>18, <1>19
  DEF DialogNext, OrNone

(* The account whose details are on show, or waited for, is the one that is  *)
(* selected, whatever accounts come, go and get ready meanwhile.             *)
THEOREM DetailsRight == DialogSpec => []DetailsFollowSelection
<1>1. DialogInv => DetailsFollowSelection
  BY AccountsAssumption DEF DialogInv, Right, Details, DetailsFollowSelection
<1> QED BY <1>1, DialogStarts, DialogSteps, PTL DEF DialogSpec

(* The account that an answer removes is the one the question was about,     *)
(* unless that went by itself.                                               *)
THEOREM RemovedWasAsked == DialogSpec => ConfirmedIsRemoved
<1> DEFINE Answers == question.kind = "remove" /\ question'.kind = "none" /\ dialog' # dialog
                        => ToRemove = question.about \/ question.gone
<1>1. DialogInv /\ [DialogNext]_dialogVars => [Answers]_dialogVars
  <2> SUFFICES ASSUME DialogInv, DialogNext,
                      question.kind = "remove", question'.kind = "none", dialog' # dialog
               PROVE  ToRemove = question.about \/ question.gone
    BY DEF Answers
  <2>1. RemoveConfirmed
    <3>1. \A valid \in BOOLEAN, a \in Accounts : ~ValidityChanged(a, valid)
      BY DEF ValidityChanged
    <3>2. \A a \in Accounts : AccountRemoved(a) => question'.kind = question.kind
      BY DEF AccountRemoved, DialogInv, Questions
    <3>3. UNCHANGED question => FALSE
      OBVIOUS
    <3>4. UNCHANGED dialog => FALSE
      OBVIOUS
    <3> QED BY <3>1, <3>2, <3>3, <3>4, Asked
      DEF DialogNext, ManagerReady, CmsPrepared, Reload, StatusChanged, ClickRow, SettingsReady,
          ClickRemove, RemoveDeclined, ChangeConfirmed, ChangeDeclined, EditParams, ChangeParams,
          ApplyParams, ParamsApplied, CloseParams, ClickAdd, AddFinished, NoModal, User
  <2> QED BY <2>1 DEF RemoveConfirmed, ToRemove, DialogInv, AskedAbout, Settled
<1> QED BY <1>1, DialogStarts, DialogSteps, PTL DEF DialogSpec, ConfirmedIsRemoved, Answers
=============================================================================
