----------------------------- MODULE CallWindow -----------------------------
(***************************************************************************)
(* The window of the calls with one contact (empathy-call-window.c), its   *)
(* EmpathyCallHandler (empathy-call-handler.c), the factory that gives     *)
(* them the channels (empathy-call-factory.c, empathy-call.c) and the      *)
(* observer that refuses a call during another (empathy-call-observer.c).  *)
(* Calls with other contacts are the one variable `other'.  Video, codecs, *)
(* volume, calls on hold and the layout of the window are left out.        *)
(***************************************************************************)
EXTENDS Integers, FiniteSets

CONSTANTS
  MaxCalls,   \* bound: the channels of the contact are 1..MaxCalls, in order
  None

ASSUME CallAssumption == MaxCalls \in Nat \ {0} /\ None \notin 1..MaxCalls

VARIABLES
  chan,       \* the channels, as the connection manager has them
  cdo,        \* what the dispatcher does with each of them
  asked,      \* requests to channels that are on the bus
  observed,   \* priv->channels of the call observer
  other,      \* a call with another contact is observed
  win,        \* the window of the contact
  handler,    \* the handler of the window
  bells,      \* operations whose invalidation calls the window back
  wild        \* history: freed memory is used, or an assertion fails

vars == <<chan, cdo, asked, observed, other, win, handler, bells, wild>>

Channels == 1..MaxCalls
ChannelStates == {"none", "initiator", "initialising", "initialised",
                  "accepted", "ended", "closed"}
Operations == {"none", "observed", "offered", "handle", "handle late",
               "handled", "dropped", "done"}
WindowStates == {"ringing", "connecting", "connected", "disconnected"}
Alive(c) == chan[c].state \notin {"none", "closed"}

-----------------------------------------------------------------------------
(* The window and its handler, as functions of their two records.          *)

NoHandler == [call |-> None, waiting |-> FALSE, requesting |-> FALSE,
              tf |-> None, tfPending |-> {}]
NewHandler(c) == [NoHandler EXCEPT !.call = c]

(* `crossed' is history: the window had a call while one was offered to it. *)
NoWindow == [open |-> FALSE, state |-> "disconnected", hangup |-> TRUE,
             ring |-> FALSE, timer |-> FALSE, playing |-> FALSE,
             startWhenPlaying |-> FALSE, dialog |-> "none", pending |-> None,
             crossed |-> FALSE]

(* Mutant: the window falls silent only once the call is accepted. *)
DisconnectedStillRings(w) ==
  [w EXCEPT !.state = "disconnected", !.timer = FALSE,
            !.playing = FALSE, !.startWhenPlaying = FALSE, !.hangup = FALSE]

(* empathy_call_window_disconnected (), with a new pipeline.               *)
Disconnected(w) ==
  [w EXCEPT !.state = "disconnected", !.ring = @ /\ w.state # "connecting",
            !.timer = FALSE,
            !.playing = FALSE, !.startWhenPlaying = FALSE, !.hangup = FALSE]

(* empathy_call_window_state_changed_cb () for ACCEPTED.                   *)
Accepted(w) ==
  [w EXCEPT !.state = "connected", !.ring = FALSE, !.hangup = TRUE, !.timer = TRUE]

(* empathy_call_handler_start_call (): an outgoing call, or one that is     *)
(* INITIALISED, is accepted now.  A request that comes too late is refused, *)
(* to no effect: it is not kept.                                            *)
AcceptsNow(h) ==
  h.call # None /\ (chan[h.call].outgoing \/ chan[h.call].state = "initialised")

AcceptNow(h) ==
  IF AcceptsNow(h)
     /\ chan[h.call].state = IF chan[h.call].outgoing THEN "initiator" ELSE "initialised"
  THEN {<<"accept", h.call>>} ELSE {}

StartCall(h) ==
  IF h.call = None THEN [h EXCEPT !.requesting = TRUE]
  ELSE [h EXCEPT !.tfPending = @ \cup {h.call}, !.waiting = @ \/ ~AcceptsNow(h)]

(* empathy_call_window_restart_call (): the call starts now or when the    *)
(* new pipeline is ready.                                                  *)
Restart(w, h) ==
  /\ win' = [w EXCEPT !.state = "connecting", !.ring = TRUE, !.hangup = TRUE,
                      !.startWhenPlaying = @ \/ ~w.playing,
                      !.crossed = @ \/ bells # {}]
  /\ handler' = IF w.playing THEN StartCall(h) ELSE h
  /\ asked' = IF w.playing THEN asked \cup AcceptNow(h) ELSE asked

(* The callbacks of these requests get the handler without a reference to  *)
(* it: nothing is said of what follows when it is freed meanwhile.         *)
InFlight(h) == h.requesting \/ h.tfPending # {}

-----------------------------------------------------------------------------
Init ==
  /\ chan = [c \in Channels |-> [state |-> "none", outgoing |-> FALSE]]
  /\ cdo = [c \in Channels |-> "none"]
  /\ asked = {} /\ observed = {} /\ other = FALSE
  /\ win = NoWindow /\ handler = NoHandler
  /\ bells = {} /\ wild = FALSE

-----------------------------------------------------------------------------
(* The observer and the dispatcher.                                        *)

(* Mutant: the calls with the same contact are forgotten. *)
HasOngoingForgets == other

(* has_ongoing_calls () *)
HasOngoingCalls == other \/ \E c \in observed : chan[c].state # "ended"

Fresh(c) == chan[c].state = "none" /\ \A d \in 1..(c - 1) : chan[d].state # "none"

(* ObserveChannels () comes before anything else is done of a channel.  An *)
(* outgoing channel that comes during a call is not observed either: there *)
(* is no dispatch operation to leave.                                      *)
Observe(c) == observed' = IF HasOngoingCalls THEN observed ELSE observed \cup {c}

NewCall(c) ==
  /\ Observe(c)
  /\ chan' = [chan EXCEPT ![c] = [state |-> "initiator", outgoing |-> TRUE]]

(* The contact calls.  A call that is refused because of another one never *)
(* gets further than the observer.  The dispatcher has told us the end of  *)
(* operations whose channels are gone.                                     *)
ContactCalls(c) ==
  /\ Fresh(c) /\ ~HasOngoingCalls
  /\ \A d \in Channels : chan[d].state = "closed" => cdo[d] \in {"dropped", "done"}
  /\ Observe(c)
  /\ \E s \in {"initialising", "initialised"} :
       chan' = [chan EXCEPT ![c] = [state |-> s, outgoing |-> FALSE]]
  /\ cdo' = [cdo EXCEPT ![c] = "observed"]
  /\ UNCHANGED <<asked, other, win, handler, bells, wild>>

Busy == win.state = "connecting" \/ handler.call # None \/ handler.requesting

(* approve_channels (), incoming_call_cb () and                            *)
(* empathy_call_window_start_ringing (): an open window rings; it must     *)
(* neither ring already nor be in a call.                                  *)
Offer(c) ==
  /\ cdo[c] = "observed" /\ Alive(c)
  /\ cdo' = [cdo EXCEPT ![c] = "offered"]
  /\ IF ~win.open THEN UNCHANGED <<win, bells, wild>>
     ELSE IF win.pending # None \/ win.state = "connected"
     THEN wild' = TRUE /\ UNCHANGED <<win, bells>>
     ELSE /\ win' = [win EXCEPT !.state = "ringing", !.dialog = "up", !.pending = c,
                                !.crossed = @ \/ Busy]
          /\ bells' = bells \cup {c}
          /\ UNCHANGED wild
  /\ UNCHANGED <<chan, asked, observed, other, handler>>

(* The notification, or the main program's dialog, answers for the user.   *)
AnswerElsewhere(c) ==
  /\ cdo[c] = "offered" /\ Alive(c)
  /\ cdo' = [cdo EXCEPT ![c] = "handle"]
  /\ UNCHANGED <<chan, asked, observed, other, win, handler, bells, wild>>

(* The end of a dispatch operation, before or after its handler is called, *)
(* and empathy_call_window_cdo_invalidated_cb ().                          *)
FinishOperation(c) ==
  /\ \/ cdo[c] \in {"handle", "handled"}
     \/ cdo[c] \in {"observed", "offered"} /\ ~Alive(c)
  /\ cdo' = [cdo EXCEPT ![c] = IF @ = "handle" THEN "handle late" ELSE "done"]
  /\ bells' = bells \ {c}
  /\ IF c \notin bells THEN UNCHANGED <<win, wild>>
     ELSE IF win.dialog = "dangling" THEN wild' = TRUE /\ UNCHANGED win
     ELSE /\ win' = [win EXCEPT !.state = "disconnected", !.dialog = "none",
                                !.pending = None]
          /\ UNCHANGED wild
  /\ UNCHANGED <<chan, asked, observed, other, handler>>

(* handle_channels (), new_call_handler_cb () and                          *)
(* empathy_call_window_present (): a window that is not disconnected keeps *)
(* its handler, and the new one is dropped.                                *)
HandleChannels(c) ==
  LET dropped == Alive(c) /\ win.open /\ win.state # "disconnected" IN
  /\ cdo[c] \in {"handle", "handle late"}
  /\ cdo' = [cdo EXCEPT ![c] = IF dropped THEN "dropped"
                               ELSE IF @ = "handle" THEN "handled" ELSE "done"]
  /\ IF dropped \/ ~Alive(c) THEN UNCHANGED <<win, handler, asked, wild>>
     ELSE IF win.open
     THEN Restart(win, NewHandler(c)) /\ wild' = InFlight(handler)
     ELSE /\ win' = [NoWindow EXCEPT !.open = TRUE, !.state = "connecting",
                                     !.ring = chan[c].state = "initiator",
                                     !.startWhenPlaying = TRUE]
          /\ handler' = NewHandler(c)
          /\ UNCHANGED <<asked, wild>>
  /\ UNCHANGED <<chan, observed, other, bells>>

(* The user calls the contact from the main program, or talks to somebody  *)
(* else.                                                                   *)
UserCalls(c) ==
  /\ Fresh(c) /\ NewCall(c)
  /\ cdo' = [cdo EXCEPT ![c] = "handle late"]
  /\ UNCHANGED <<asked, other, win, handler, bells, wild>>

OtherCall ==
  /\ other \/ ~HasOngoingCalls
  /\ other' = ~other
  /\ UNCHANGED <<chan, cdo, asked, observed, win, handler, bells, wild>>

-----------------------------------------------------------------------------
(* What the user does with the window.  The dialog is modal: while it is   *)
(* up, nothing else of the window can be clicked or closed.                *)

UI == win.open /\ win.dialog # "up"
DialogUp == win.open /\ win.dialog = "up"

(* empathy_call_window_incoming_call_response_cb ().  The dialog stays     *)
(* until the operation is finished.                                        *)
AnswerDialog ==
  /\ DialogUp /\ win.pending # None
  /\ cdo' = [cdo EXCEPT ![win.pending] = IF @ = "offered" THEN "handle" ELSE @]
  /\ win' = [win EXCEPT !.pending = None]
  /\ UNCHANGED <<chan, asked, observed, other, handler, bells, wild>>

RejectDialog ==
  /\ DialogUp
  /\ asked' = IF win.pending = None THEN asked ELSE asked \cup {<<"close", win.pending>>}
  /\ win' = [win EXCEPT !.state = "disconnected"]
  /\ UNCHANGED <<chan, cdo, observed, other, handler, bells, wild>>

(* Escape closes the dialog; the window keeps the pointer to it.           *)
CloseDialog ==
  /\ DialogUp
  /\ win' = [win EXCEPT !.dialog = "dangling"]
  /\ UNCHANGED <<chan, cdo, asked, observed, other, handler, bells, wild>>

(* empathy_call_window_hangup_cb (): there is nothing to hang up while the *)
(* channel of a redialled call is being requested.                         *)
HangUp ==
  /\ UI /\ win.hangup /\ handler.call # None
  /\ asked' = asked \cup {<<"hangup", handler.call>>}
  /\ UNCHANGED <<chan, cdo, observed, other, win, handler, bells, wild>>

(* The call buttons.  Bound: one channel is requested at a time.           *)
Redial ==
  /\ UI /\ ~win.hangup
  /\ ~handler.requesting /\ (handler.call = None => \E c \in Channels : Fresh(c))
  /\ Restart(win, handler)
  /\ UNCHANGED <<chan, cdo, observed, other, bells, wild>>

(* empathy_call_window_delete_cb () and _dispose ().  The handler of an     *)
(* operation's end stays connected.                                         *)
CloseWindow ==
  /\ UI
  /\ win' = NoWindow /\ handler' = NoHandler
  /\ asked' = IF handler.call = None THEN asked
              ELSE asked \cup {<<"hangup", handler.call>>}
  /\ wild' = (InFlight(handler) \/ bells # {})
  /\ UNCHANGED <<chan, cdo, observed, other, bells>>

-----------------------------------------------------------------------------
(* Callbacks.                                                              *)

(* empathy_call_window_bus_message (): the pipeline of a new or a reset    *)
(* window is paused; it is played, and the call that waits for it starts.  *)
PipelineReady ==
  /\ win.open /\ ~win.playing
  /\ win' = [win EXCEPT !.playing = TRUE]
  /\ handler' = IF win.startWhenPlaying THEN StartCall(handler) ELSE handler
  /\ asked' = IF win.startWhenPlaying THEN asked \cup AcceptNow(handler) ELSE asked
  /\ UNCHANGED <<chan, cdo, observed, other, bells, wild>>

(* An error of another element than the camera disconnects the window and  *)
(* leaves the call alone.                                                  *)
PipelineError ==
  /\ win.open
  /\ win' = Disconnected(win)
  /\ UNCHANGED <<chan, cdo, asked, observed, other, handler, bells, wild>>

(* empathy_call_handler_request_cb (): a failure goes to the debug log.    *)
RequestReply(c) ==
  /\ handler.requesting /\ Fresh(c) /\ NewCall(c)
  /\ cdo' = [cdo EXCEPT ![c] = "done"]
  /\ handler' = [handler EXCEPT !.requesting = FALSE, !.call = c,
                                !.tfPending = @ \cup {c}]
  /\ asked' = asked \cup {<<"accept", c>>}
  /\ UNCHANGED <<other, win, bells, wild>>

RequestFails ==
  /\ handler.requesting
  /\ handler' = [handler EXCEPT !.requesting = FALSE]
  /\ UNCHANGED <<chan, cdo, asked, observed, other, win, bells, wild>>

(* on_tf_channel_ready (): a failure is reported through an error that is  *)
(* NULL.                                                                   *)
FarstreamReady(c) ==
  /\ c \in handler.tfPending
  /\ \/ /\ Alive(c)
        /\ handler' = [handler EXCEPT !.tfPending = @ \ {c}, !.tf = c]
        /\ UNCHANGED wild
     \/ /\ chan[c].state \in {"ended", "closed"}
        /\ wild' = TRUE /\ UNCHANGED handler
  /\ UNCHANGED <<chan, cdo, asked, observed, other, win, bells>>

-----------------------------------------------------------------------------
(* The channels, and what the handler and the window make of their signals.*)

Follows(c) == handler.call = c
Become(c, s) == chan' = [chan EXCEPT ![c].state = s]

(* Mutant: the call that waits is not accepted. *)
HandlerInitialisedForgets(c) == {}

(* on_call_state_changed_cb () for INITIALISED. *)
HandlerInitialised(c) ==
  IF Follows(c) /\ handler.waiting THEN {<<"accept", c>>} ELSE {}

Initialised(c) ==
  /\ \/ chan[c].state = "initialising"
     \/ chan[c].state = "initiator" /\ <<"accept", c>> \in asked
  /\ Become(c, "initialised")
  /\ asked' = (IF chan[c].outgoing THEN asked \ {<<"accept", c>>} ELSE asked)
              \cup HandlerInitialised(c)
  /\ handler' = IF Follows(c) THEN [handler EXCEPT !.waiting = FALSE] ELSE handler
  /\ UNCHANGED <<cdo, observed, other, win, bells, wild>>

(* ACCEPTED: an incoming call by us, an outgoing one by the contact.       *)
CallAccepted(c) ==
  /\ chan[c].state = "initialised"
  /\ chan[c].outgoing \/ <<"accept", c>> \in asked
  /\ asked' = asked \ {<<"accept", c>>}
  /\ Become(c, "accepted")
  /\ win' = IF Follows(c) /\ win.state # "connected" THEN Accepted(win) ELSE win
  /\ UNCHANGED <<cdo, observed, other, handler, bells, wild>>

Cleared(h) == [h EXCEPT !.call = None, !.waiting = FALSE, !.tf = None]

(* ENDED, by either side or the network.                                   *)
CallEnds(c) ==
  /\ Alive(c) /\ chan[c].state # "ended"
  /\ Become(c, "ended")
  /\ asked' = (asked \ {<<"hangup", c>>, <<"accept", c>>})
              \cup (IF Follows(c) THEN {<<"close", c>>} ELSE {})
  /\ win' = IF Follows(c) THEN Disconnected(win) ELSE win
  /\ handler' = IF Follows(c) THEN Cleared(handler) ELSE handler
  /\ UNCHANGED <<cdo, observed, other, bells, wild>>

(* The channel is gone, as we asked or because the connection is:          *)
(* on_call_invalidated_cb () and on_tf_channel_closed_cb ().               *)
ChannelCloses(c) ==
  /\ Alive(c)
  /\ Become(c, "closed")
  /\ observed' = observed \ {c}
  /\ asked' = {r \in asked : r[2] # c}
  /\ handler' = IF Follows(c) THEN Cleared(handler)
                ELSE IF handler.tf = c THEN [handler EXCEPT !.tf = None] ELSE handler
  /\ win' = IF win.open /\ c \in {handler.call, handler.tf} THEN Disconnected(win) ELSE win
  /\ UNCHANGED <<cdo, other, bells, wild>>

-----------------------------------------------------------------------------
UserNext == AnswerDialog \/ RejectDialog \/ CloseDialog \/ HangUp \/ Redial
            \/ CloseWindow \/ OtherCall
ChannelNext(c) ==
  \/ ContactCalls(c) \/ Offer(c) \/ AnswerElsewhere(c) \/ FinishOperation(c)
  \/ HandleChannels(c) \/ UserCalls(c) \/ RequestReply(c) \/ FarstreamReady(c)
  \/ Initialised(c) \/ CallAccepted(c) \/ CallEnds(c) \/ ChannelCloses(c)

Next ==
  /\ ~wild
  /\ UserNext \/ PipelineReady \/ PipelineError \/ RequestFails
     \/ \E c \in Channels : ChannelNext(c)

(* GStreamer gets the pipeline ready, and the connection manager gets on    *)
(* with a call and does what it is asked to.                                *)
Fairness ==
  /\ WF_vars(~wild /\ PipelineReady)
  /\ \A c \in Channels :
       /\ WF_vars(~wild /\ Initialised(c))
       /\ WF_vars(~wild /\ <<"accept", c>> \in asked /\ CallAccepted(c))

Spec == Init /\ [][Next]_vars /\ Fairness

-----------------------------------------------------------------------------
(* The type invariant. *)
TypeOK ==
  /\ chan \in [Channels -> [state : ChannelStates, outgoing : BOOLEAN]]
  /\ cdo \in [Channels -> Operations]
  /\ asked \subseteq {"accept", "hangup", "close"} \X Channels
  /\ bells \subseteq Channels /\ observed \subseteq {c \in Channels : Alive(c)}
  /\ {other, wild, win.crossed} \subseteq BOOLEAN
  /\ win.state \in WindowStates /\ win.pending \in Channels \cup {None}
  /\ handler.call # None => win.open /\ Alive(handler.call)

(* The outgoing sound is heard, and the duration of the call counted, only  *)
(* while the window is dialling or in a call: however the call ends, is     *)
(* redialled or replaced, unless one was offered to the window meanwhile.   *)
SoundAndTimerFollowCall ==
  /\ TypeOK
  /\ ~win.crossed => /\ win.ring => win.state = "connecting"
                     /\ win.timer <=> win.state = "connected"

(* NEWS, #643656, "Autoreject incoming calls when there is one in           *)
(* progress": the user is in two calls only if one was called by hand       *)
(* during the other, which the observer cannot refuse.                      *)
InCall == {c \in Channels : chan[c].state = "accepted"}
CalledDuringCall(c) == chan[c].outgoing /\ Alive(c) /\ c \notin observed
AloneInCall ==
  Cardinality(InCall) + (IF other THEN 1 ELSE 0) > 1
    => \E c \in Channels : CalledDuringCall(c)

(* "accepting incoming channels when they are INITIALISED": a call that the *)
(* window was given is accepted, whatever state it and the pipeline were    *)
(* in, unless the window left it or it ended first.  (One that had ended    *)
(* before, or is redialled after an error of the pipeline, leaves the       *)
(* window connecting.)                                                      *)
Connects(c) == win.state = "connecting" /\ handler.call = c
AnsweredIsAccepted ==
  \A c \in Channels : (Connects(c) /\ ~chan[c].outgoing)
    ~> (~Connects(c) \/ chan[c].state \in {"accepted", "ended"} \/ wild)
=============================================================================
