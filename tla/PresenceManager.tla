-------------------------- MODULE PresenceManager --------------------------
(***************************************************************************)
(* The user's presence and the automatic away of                           *)
(* libempathy/empathy-presence-manager.c.                                  *)
(*                                                                         *)
(* A presence is requested of the account manager, which applies requests  *)
(* in order and signals the result later: what the manager takes for the   *)
(* state is what was last signalled.  The session tells when the user is   *)
(* idle; after half an hour of that a timer makes the away an extended one.   *)
(***************************************************************************)
EXTENDS Naturals, Sequences

CONSTANTS
  Chosen,              \* the presences the user asks for
  MaxRequests          \* bound on the requests under way

Presences == {"offline", "available", "busy", "hidden", "away", "xa"}
ASSUME PresenceAssumption ==
  Chosen \subseteq Presences /\ MaxRequests \in Nat

VARIABLES
  idle,                \* the user is: org.gnome.SessionManager.Presence
  wish,                \* what the user last asked for
  requests, applied,   \* for the account manager, and the last it applied
  online,
  state,               \* priv->state
  autoAway, isIdle, saved,     \* auto_away, is_idle, away_saved_state
  extAway,             \* ext_away_timeout is set
  rough                \* history: an outage or a setting while idle, or the
                       \* session changed before a request was applied

managerVars == <<applied, online, state>>
presenceVars == <<idle, wish, requests, managerVars, autoAway, isIdle, saved, extAway, rough>>

-----------------------------------------------------------------------------
PresenceInit ==
  /\ idle = FALSE /\ wish \in Chosen
  /\ requests = <<>> /\ applied = wish /\ online = TRUE /\ state = wish
  /\ autoAway \in BOOLEAN /\ isIdle = FALSE /\ saved = "unset" /\ extAway = FALSE
  /\ rough = FALSE

(* empathy_presence_manager_set_presence () *)
SetState(p) == Len(requests) < MaxRequests /\ requests' = Append(requests, p)

(* most_available_presence_changed (): nothing is available when offline. *)
Signalled(p, up) == state' = IF up THEN p ELSE "offline"

Applied ==
  /\ requests # <<>>
  /\ requests' = Tail(requests) /\ applied' = Head(requests)
  /\ Signalled(Head(requests), online)
  /\ UNCHANGED <<idle, wish, online, autoAway, isIdle, saved, extAway, rough>>

NetworkChanges ==
  /\ rough' = (rough \/ idle \/ isIdle)
  /\ online' = ~online /\ Signalled(applied, ~online)
  /\ UNCHANGED <<idle, wish, requests, applied, autoAway, isIdle, saved, extAway>>

UserChooses(p) ==
  /\ ~idle /\ ~isIdle /\ wish' = p /\ SetState(p)
  /\ UNCHANGED <<idle, managerVars, autoAway, isIdle, saved, extAway, rough>>

(* empathy_presence_manager_set_auto_away () *)
SetAutoAway(on) ==
  /\ autoAway' = on /\ rough' = (rough \/ idle \/ isIdle)
  /\ UNCHANGED <<idle, wish, requests, managerVars, isIdle, saved, extAway>>

SessionChanges ==
  /\ rough' = (rough \/ requests # <<>>)
  /\ idle = isIdle /\ idle' = ~idle
  /\ UNCHANGED <<wish, requests, managerVars, autoAway, isIdle, saved, extAway>>

NoAutoAway == ~autoAway \/ state \in {"offline", "hidden"}

(* Mutant: the state is saved when it has changed. *)
GoesIdleSavesLate == extAway' = TRUE /\ saved' = "away" /\ SetState("away")

(* Mutant: the timer alone makes the user away. *)
GoesIdleWaits == extAway' = TRUE /\ saved' = state /\ UNCHANGED requests

GoesIdle ==
  /\ extAway' = TRUE /\ saved' = state
  /\ SetState(IF state = "xa" THEN "xa" ELSE "away")

ComesBack ==
  /\ extAway' = FALSE
  /\ IF saved # "unset" THEN SetState(saved) ELSE UNCHANGED requests
  /\ saved' = "unset"

(* session_status_changed_cb () *)
SessionStatusChanged ==
  /\ idle # isIdle /\ isIdle' = idle
  /\ IF NoAutoAway THEN UNCHANGED <<requests, saved, extAway>>
     ELSE IF idle THEN GoesIdle ELSE ComesBack
  /\ UNCHANGED <<idle, wish, managerVars, autoAway, rough>>

(* ext_away_cb () *)
ExtAway ==
  /\ extAway /\ extAway' = FALSE
  /\ SetState("xa")
  /\ UNCHANGED <<idle, wish, managerVars, autoAway, isIdle, saved, rough>>

PresenceNext ==
  \/ Applied \/ NetworkChanges
  \/ \E p \in Chosen : UserChooses(p)
  \/ \E on \in BOOLEAN : SetAutoAway(on)
  \/ SessionChanges \/ SessionStatusChanged \/ ExtAway

PresenceFairness == WF_presenceVars(Applied) /\ WF_presenceVars(SessionStatusChanged)

PresenceSpec == PresenceInit /\ [][PresenceNext]_presenceVars /\ PresenceFairness

-----------------------------------------------------------------------------
(* The type invariant. *)
PresenceTypeOK ==
  /\ wish \in Chosen /\ requests \in Seq(Presences)
  /\ {applied, state} \subseteq Presences /\ saved \in Presences \union {"unset"}
  /\ {idle, online, autoAway, isIdle, extAway, rough} \subseteq BOOLEAN

Settled == requests = <<>> /\ online /\ ~idle /\ ~isIdle

(* "We are no more idle, restore state": once the user is back and what was *)
(* requested is applied, the presence is the one the user asked for; the    *)
(* timer only runs for a user who is idle, and was told to be away; and,    *)
(* "we explicitely asked to be offline, nothing to do here", no automatic   *)
(* change is requested after the user asked to be offline or hidden.        *)
StateIsRestored ==
  /\ PresenceTypeOK
  /\ Settled /\ ~rough => state = wish
  /\ extAway /\ ~rough => isIdle /\ saved # "unset"
  /\ wish \in {"offline", "hidden"} /\ requests # <<>> /\ ~rough
       => requests[Len(requests)] = wish

(* Who is idle, and may go away automatically, is seen as away in the end.  *)
IdleGoesAway ==
  <>[](idle /\ autoAway /\ online /\ ~rough) => <>[](state \in {"away", "xa", "hidden", "offline"})
=============================================================================
